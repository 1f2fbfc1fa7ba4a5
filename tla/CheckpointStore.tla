---------------------------- MODULE CheckpointStore ----------------------------
(***************************************************************************)
(* RealProviderLabStateStore: checkpoints of the lab kept as one immutable *)
(* shard in each of several providers, and made visible by one compare-    *)
(* and-swap of a pointer in PostgreSQL                                     *)
(* (adapters/environments/docker_compose/.../real_provider_bridge.py).     *)
(*                                                                         *)
(* Every call to a provider is a step of its own: the store holds no lock, *)
(* a provider may fail at any call, and the process may be killed between  *)
(* two calls and be started again with a fresh store object.  A generation *)
(* is the hash of its checkpoint, so all stores write the same bytes under *)
(* the same name; a shard is told apart only by who created it and by      *)
(* whether its bytes are there.                                            *)
(***************************************************************************)
EXTENDS Integers, Sequences, FiniteSets

CONSTANTS
  Stores,       \* store objects, each in a process of its own
  Generations,  \* the checkpoints
  MayStage,     \* MayStage[s]: the generations the process of s commits
  Providers,    \* the providers in the order stage visits them
  MaxFaults,    \* bound on provider calls that fail
  MaxCrashes,   \* bound on killed processes
  Nothing

Range(f) == {f[i] : i \in DOMAIN f}
OneStep == {"postgres", "redis"}   \* an insert and its bytes are one command
Files   == {"browser_session", "filesystem", "clock"}
Kept    == Range(Providers)

ASSUME StoresAssumption    == MayStage \in [Stores -> SUBSET Generations]
ASSUME ProvidersAssumption ==
  /\ Providers \in Seq(OneStep \cup Files \cup {"rabbitmq"})
  /\ Len(Providers) >= 1
  /\ Providers[1] = "postgres"
  /\ \A i, j \in 1..Len(Providers) : Providers[i] = Providers[j] => i = j
ASSUME BoundsAssumption    == MaxFaults \in Nat /\ MaxCrashes \in Nat

Lives == 1..(MaxCrashes + 1)                 \* the processes of a store, in order
Shard == [by : Stores \X Lives, copies : 0..2]

ASSUME NothingAssumption   == Nothing \notin Generations \cup Shard

VARIABLES
  shard,    \* shard[p][g]: who created the shard, and how often its bytes are in it
  active,   \* the visible generation
  store,    \* store[s]: where the calls of s are
  staged,   \* generations whose stage call has returned (history)
  faults, crashes
vars == <<shard, active, store, staged, faults, crashes>>

\* life counts the processes s has had; created lists the shards a running
\* stage call answers for; failed is the generation whose stage failed, and
\* leaky tells that its roll-back could not delete a shard.
Fresh(life) == [pc |-> "idle", gen |-> Nothing, at |-> 1, existed |-> FALSE,
                made |-> FALSE, created |-> <<>>, next |-> "none",
                want |-> Nothing, poisoned |-> FALSE, failed |-> Nothing,
                leaky |-> FALSE, life |-> life]

Init == /\ shard = [p \in Kept |-> [g \in Generations |-> Nothing]]
        /\ active = Nothing
        /\ store = [s \in Stores |-> Fresh(1)]
        /\ staged = {} /\ faults = 0 /\ crashes = 0
-------------------------------------------------------------------------------
(* What the steps of a store share. *)

Me(s)     == <<s, store[s].life>>
Here(s)   == Providers[store[s].at]
There(s)  == shard[Here(s)][store[s].gen]   \* the shard the call looks at

Mine(s, x)  == x # Nothing /\ x.by = Me(s)
Exact(x)    == x # Nothing /\ x.copies = 1
\* A reader raises on an empty or doubled queue; a file is read as it is.
Readable(p, x) == x # Nothing /\ (p = "rabbitmq" => x.copies = 1)

Fault == faults < MaxFaults /\ faults' = faults + 1
NoFault == UNCHANGED faults

At(s, pc)   == store[s].pc = pc
Goto(s, pc) == store' = [store EXCEPT ![s].pc = pc]
Write(s, x) == shard' = [shard EXCEPT ![Here(s)][store[s].gen] = x]

\* The call returns or raises, and its locals are gone.
Return(s) == store' = [store EXCEPT ![s] = Fresh(@.life)]

\* _poison: the store object never answers again.
Poison(s) == store' = [store EXCEPT ![s] = [Fresh(@.life) EXCEPT
               !.poisoned = TRUE, !.leaky = store[s].leaky,
               !.failed = IF store[s].next = "staged" THEN store[s].gen
                          ELSE Nothing]]

\* The exception of a stage call: what is in created is rolled back.
RollBackFrom(s, created) ==
  store' = [store EXCEPT ![s].pc = "rollback", ![s].created = created]

\* Mutant of BlameStager: whatever was there before is blamed on this call.
BlameAlways(s) == Append(store[s].created, Here(s))

\* A stager failed after the pre-read of stage had found nothing: the shard may
\* have been created all the same, so it is taken for this call's own.
BlameStager(s) == IF store[s].existed THEN store[s].created
                  ELSE Append(store[s].created, Here(s))

StagerFails(s) == RollBackFrom(s, BlameStager(s))
-------------------------------------------------------------------------------
(* stage *)

Stage(s, g) ==
  /\ At(s, "idle") /\ ~store[s].poisoned
  /\ g \in MayStage[s]
  /\ store' = [store EXCEPT ![s].pc = "look", ![s].gen = g, ![s].at = 1,
                            ![s].created = <<>>, ![s].next = "staged"]
  /\ UNCHANGED <<shard, active, staged, faults, crashes>>

\* The pre-read of stage, for the provider at hand.
Look(s) ==
  /\ At(s, "look")
  /\ \/ /\ There(s) = Nothing \/ Readable(Here(s), There(s))
        /\ store' = [store EXCEPT ![s].pc = "put",
                                  ![s].existed = There(s) # Nothing]
        /\ NoFault
     \/ /\ There(s) # Nothing /\ ~Readable(Here(s), There(s))
        /\ RollBackFrom(s, store[s].created)
        /\ NoFault
     \/ Fault /\ RollBackFrom(s, store[s].created)
  /\ UNCHANGED <<shard, active, staged, crashes>>

\* INSERT ... ON CONFLICT DO NOTHING and SET NX: the bytes come with the shard.
\* The command may take effect and its reply be lost.
PutRow(s) ==
  LET New == [by |-> Me(s), copies |-> 1]
  IN  /\ At(s, "put") /\ Here(s) \in OneStep
      /\ \/ /\ There(s) = Nothing /\ Write(s, New)
            /\ store' = [store EXCEPT ![s].pc = "check", ![s].made = TRUE]
            /\ NoFault
         \/ /\ There(s) # Nothing /\ UNCHANGED shard
            /\ store' = [store EXCEPT ![s].pc = "check", ![s].made = FALSE]
            /\ NoFault
         \/ /\ UNCHANGED shard \/ (There(s) = Nothing /\ Write(s, New))
            /\ Fault /\ StagerFails(s)
      /\ UNCHANGED <<active, staged, crashes>>

\* The stagers of RabbitMQ and of the browser session read once more before
\* they create; that of the two file stores opens the file at once.
LookAgain(s) ==
  /\ At(s, "put") /\ Here(s) \notin OneStep
  /\ \/ /\ Here(s) \in Files \ {"browser_session"}
        /\ Goto(s, "create") /\ NoFault
     \/ /\ Here(s) \in {"rabbitmq", "browser_session"}
        /\ There(s) = Nothing
        /\ store' = [store EXCEPT ![s].pc = "create", ![s].made = TRUE]
        /\ NoFault
     \/ /\ Here(s) \in {"rabbitmq", "browser_session"}
        /\ Readable(Here(s), There(s))
        /\ store' = [store EXCEPT ![s].pc = "check", ![s].made = FALSE]
        /\ NoFault
     \/ /\ Here(s) = "rabbitmq"
        /\ There(s) # Nothing /\ ~Readable(Here(s), There(s))
        /\ StagerFails(s) /\ NoFault
     \/ /\ Here(s) \in {"rabbitmq", "browser_session"}
        /\ Fault /\ StagerFails(s)
  /\ UNCHANGED <<shard, active, staged, crashes>>

\* PUT of the queue answers 201 or 204, open(..., "xb") creates or refuses; the
\* browser session goes by what it read before instead.
Create(s) ==
  /\ At(s, "create")
  /\ \/ /\ There(s) = Nothing
        /\ Write(s, [by |-> Me(s), copies |-> 0])
        /\ store' = [store EXCEPT ![s].pc = "fill", ![s].made = TRUE]
        /\ NoFault
     \/ /\ There(s) # Nothing
        /\ store' = [store EXCEPT ![s].pc = "check",
                       ![s].made = Here(s) = "browser_session"]
        /\ UNCHANGED shard /\ NoFault
     \/ /\ \/ UNCHANGED shard
           \/ /\ There(s) = Nothing /\ Here(s) = "rabbitmq"
              /\ Write(s, [by |-> Me(s), copies |-> 0])
        /\ Fault /\ StagerFails(s)
  /\ UNCHANGED <<active, staged, crashes>>

\* The bytes: published to the queue of that name, or written to the file this
\* call opened, which may have been unlinked since.
Fill(s) ==
  /\ At(s, "fill")
  /\ \/ /\ There(s) # Nothing
        /\ Here(s) = "rabbitmq" \/ Mine(s, There(s))
        /\ Write(s, [There(s) EXCEPT !.copies = IF @ = 2 THEN 2 ELSE @ + 1])
        /\ Goto(s, "check") /\ NoFault
     \/ /\ Here(s) \in Files
        /\ ~Mine(s, There(s))
        /\ UNCHANGED shard /\ Goto(s, "check") /\ NoFault
     \/ /\ Here(s) = "rabbitmq" /\ There(s) = Nothing
        /\ UNCHANGED shard /\ StagerFails(s) /\ NoFault
     \/ UNCHANGED shard /\ Fault /\ StagerFails(s)
  /\ UNCHANGED <<active, staged, crashes>>

NextProvider(s, created) ==
  LET last == store[s].at = Len(Providers)
  IN  [store EXCEPT ![s].pc = IF last THEN "capture" ELSE "look",
                    ![s].at = IF last THEN 1 ELSE @ + 1,
                    ![s].existed = FALSE, ![s].made = FALSE,
                    ![s].created = created]

\* The exact read-back that ends a stager.  A queue this call did not create is
\* unowned when it does not read back, and is left alone.
Check(s) ==
  LET Owned == IF store[s].made THEN Append(store[s].created, Here(s))
               ELSE store[s].created
      Fails == IF Here(s) = "rabbitmq" /\ ~store[s].made
               THEN RollBackFrom(s, store[s].created)
               ELSE StagerFails(s)
  IN  /\ At(s, "check")
      /\ \/ Exact(There(s)) /\ NoFault /\ store' = NextProvider(s, Owned)
         \/ ~Exact(There(s)) /\ NoFault /\ Fails
         \/ Fault /\ Fails
      /\ UNCHANGED <<shard, active, staged, crashes>>

\* The foreign key of the pointer keeps the row of the active generation.
Pinned(p, g) == p = "postgres" /\ g = active

\* One deletion of the roll-back, in reverse order; an error is only noted.
RollBack(s) ==
  LET p == store[s].created[Len(store[s].created)]
      Rest == SubSeq(store[s].created, 1, Len(store[s].created) - 1)
      Refused == Pinned(p, store[s].gen)
  IN  /\ At(s, "rollback") /\ store[s].created # <<>>
      /\ \/ /\ ~Refused
            /\ shard' = [shard EXCEPT ![p][store[s].gen] = Nothing]
            /\ store' = [store EXCEPT ![s].created = Rest]
            /\ NoFault
         \/ /\ Refused
            /\ store' = [store EXCEPT ![s].created = Rest, ![s].leaky = TRUE]
            /\ UNCHANGED shard /\ NoFault
         \/ /\ Fault
            /\ store' = [store EXCEPT ![s].created = Rest, ![s].leaky = TRUE]
            /\ UNCHANGED shard
      /\ UNCHANGED <<active, staged, crashes>>

\* A failed stage poisons the store even when everything was rolled back.
RolledBack(s) ==
  /\ At(s, "rollback") /\ store[s].created = <<>>
  /\ Poison(s)
  /\ UNCHANGED <<shard, active, staged, faults, crashes>>
-------------------------------------------------------------------------------
(* capture, compare_and_swap and load_active *)

\* What a complete capture is followed by: stage returns, the pointer is
\* swapped, or the generation read back is compared with the one swapped in.
Captured(s) ==
  CASE store[s].next = "staged" ->
         Return(s) /\ staged' = staged \cup {store[s].gen}
    [] store[s].next = "swap" ->
         Goto(s, "swap") /\ UNCHANGED staged
    [] store[s].next = "loaded" ->
         /\ IF store[s].want \in {Nothing, store[s].gen}
            THEN Return(s) ELSE Poison(s)
         /\ UNCHANGED staged

CaptureFails(s) == IF store[s].next = "staged"
                   THEN RollBackFrom(s, store[s].created) ELSE Poison(s)

\* One read of capture.
Capture(s) ==
  /\ At(s, "capture")
  /\ \/ /\ Exact(There(s)) /\ store[s].at < Len(Providers)
        /\ store' = [store EXCEPT ![s].at = @ + 1]
        /\ UNCHANGED staged /\ NoFault
     \/ /\ Exact(There(s)) /\ store[s].at = Len(Providers)
        /\ Captured(s) /\ NoFault
     \/ ~Exact(There(s)) /\ CaptureFails(s) /\ UNCHANGED staged /\ NoFault
     \/ Fault /\ CaptureFails(s) /\ UNCHANGED staged
  /\ UNCHANGED <<shard, active, crashes>>

\* Mutant of CompareAndSwap: the pointer is swapped without a capture first.
CompareAndSwapBlind(s, expected, g) ==
  /\ At(s, "idle") /\ ~store[s].poisoned
  /\ g \in MayStage[s]
  /\ store' = [store EXCEPT ![s].pc = "swap", ![s].gen = g, ![s].at = 1,
                            ![s].want = expected, ![s].next = "swap"]
  /\ UNCHANGED <<shard, active, staged, faults, crashes>>

CompareAndSwap(s, expected, g) ==
  /\ At(s, "idle") /\ ~store[s].poisoned
  /\ g \in MayStage[s]
  /\ store' = [store EXCEPT ![s].pc = "capture", ![s].gen = g, ![s].at = 1,
                            ![s].want = expected, ![s].next = "swap"]
  /\ UNCHANGED <<shard, active, staged, faults, crashes>>

\* The transaction of _checkpoint_pg_cas.  A conflict is raised, and so is a
\* lost reply, after which the caller cannot tell what happened.
Swap(s) ==
  LET May == /\ active = store[s].want
             /\ shard["postgres"][store[s].gen] # Nothing
  IN  /\ At(s, "swap")
      /\ \/ /\ May
            /\ active' = store[s].gen
            /\ store' = [store EXCEPT ![s].pc = "load",
                                      ![s].want = store[s].gen]
            /\ NoFault
         \/ ~May /\ UNCHANGED active /\ Return(s) /\ NoFault
         \/ /\ May /\ active' = store[s].gen
            /\ Fault /\ Return(s)
         \/ UNCHANGED active /\ Fault /\ Return(s)
      /\ UNCHANGED <<shard, staged, crashes>>

LoadActive(s) ==
  /\ At(s, "idle") /\ ~store[s].poisoned
  /\ store' = [store EXCEPT ![s].pc = "load", ![s].want = Nothing]
  /\ UNCHANGED <<shard, active, staged, faults, crashes>>

\* The read of the pointer; the capture of what it names follows.  Within
\* compare_and_swap an error poisons, in a plain load it is only raised.
ReadPointer(s) ==
  LET Fails == IF store[s].want = Nothing THEN Return(s) ELSE Poison(s)
  IN  /\ At(s, "load")
      /\ \/ /\ active # Nothing
            /\ store' = [store EXCEPT ![s].pc = "capture", ![s].at = 1,
                           ![s].gen = active, ![s].next = "loaded"]
            /\ NoFault
         \/ active = Nothing /\ Fails /\ NoFault
         \/ Fault /\ Fails
      /\ UNCHANGED <<shard, active, staged, crashes>>

\* The process is killed; another starts with a store object of its own.
Crash(s) ==
  /\ crashes < MaxCrashes
  /\ crashes' = crashes + 1
  /\ store' = [store EXCEPT ![s] = Fresh(@.life + 1)]
  /\ UNCHANGED <<shard, active, staged, faults>>
-------------------------------------------------------------------------------
Step(s) ==
  \/ \E g \in Generations : Stage(s, g)
  \/ Look(s) \/ PutRow(s) \/ LookAgain(s) \/ Create(s) \/ Fill(s) \/ Check(s)
  \/ RollBack(s) \/ RolledBack(s) \/ Capture(s)
  \/ \E g \in Generations, e \in Generations \cup {Nothing} :
       CompareAndSwap(s, e, g)
  \/ Swap(s) \/ LoadActive(s) \/ ReadPointer(s)
  \/ Crash(s)

Next == \E s \in Stores : Step(s)
Spec == Init /\ [][Next]_vars
-------------------------------------------------------------------------------
(* Properties. *)

\* Types; a stage call at provider n answers for providers before it.
TypeOK ==
  /\ shard \in [Kept -> [Generations -> Shard \cup {Nothing}]]
  /\ active \in Generations \cup {Nothing}
  /\ staged \subseteq Generations
  /\ faults \in 0..MaxFaults /\ crashes \in 0..MaxCrashes
  /\ \A s \in Stores :
       /\ store[s].at \in DOMAIN Providers /\ store[s].life \in Lives
       /\ ~At(s, "idle") => ~store[s].poisoned
       /\ ~At(s, "idle") /\ store[s].next = "staged" =>
            store[s].gen \in MayStage[s]
       /\ At(s, "look") => Range(store[s].created) \subseteq
                             {Providers[i] : i \in 1..(store[s].at - 1)}

Complete(g) == \A p \in Kept : Exact(shard[p][g])

\* The generation the pointer names has its exact bytes in every provider,
\* whatever calls failed and whichever processes were killed, so load_active
\* can only fail because a provider does.
VisibleComplete == active # Nothing => Complete(active)

\* A generation whose stage has returned stays complete for good: the failure
\* of a later stage of the same generation takes nothing of it away.
StagedStaysComplete == \A g \in staged : Complete(g)

\* "cleanup remains safe and cannot delete a caller-owned shard": what a
\* roll-back deletes was created by that very stage call's process.
RollBackDeletesOwn ==
  [][\A s \in Stores : At(s, "rollback") /\ store'[s] # store[s] =>
       \A p \in Kept, g \in Generations :
         shard[p][g] # Nothing /\ shard'[p][g] = Nothing =>
           shard[p][g].by = Me(s)]_vars

\* Unless a deletion failed, a stage that failed leaves none of its shards.
FailedStageLeavesNothing ==
  \A s \in Stores :
    LET g == store[s].failed
    IN  g # Nothing /\ ~store[s].leaky /\ g \notin staged =>
          \A p \in Kept : shard[p][g] = Nothing \/ shard[p][g].by # Me(s)

\* What the store shows or has promised is whole in every provider, and what it
\* has not promised is not there.
GenerationsWhole ==
  TypeOK /\ VisibleComplete /\ StagedStaysComplete /\ FailedStageLeavesNothing
===============================================================================
