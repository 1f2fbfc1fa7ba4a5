---------------------------- MODULE InProcessProofs ----------------------------
(***************************************************************************)
(* Proofs about the in-process lab and those who use it, for any           *)
(* envelopes, keys, authorisations, plans and observers.                   *)
(*                                                                         *)
(* The lab.  There is at most one task, it belongs to the current run, and *)
(* while it executes the lab differs from what is committed by its own     *)
(* effect at most (InFlight).  A reset therefore never leaves a handler    *)
(* behind that could reach the new lab.                                    *)
(*                                                                         *)
(* The observation.  The controller and the other callers use the          *)
(* environment as InProcessLab lets its callers, so what is proved of the  *)
(* lab holds under observation.  The call that holds the controller's lock *)
(* is the only one that starts or records anything (LockOK), its key is    *)
(* neither started nor recorded when it begins (FreshCall), and what is    *)
(* started is either its own or poisoned the controller.  The M3           *)
(* qualification is one such observer.                                     *)
(*                                                                         *)
(* The replay.  The kernel too is such a caller.  At step i the lab holds  *)
(* the first i - 1 actions of the plan and the results say so (Replaying), *)
(* until a step fails: then nothing more is captured unless the            *)
(* environment has settled.                                                *)
(***************************************************************************)
EXTENDS ReplayKernel, RuntimeQualification, TLAPS

-------------------------------------------------------------------------------
(* The lab. *)

Committed == [i \in DOMAIN receipts |-> receipts[i].of]

\* There is a task exactly while something is in flight, and it is of this run.
OneTask ==
  /\ env.phase = "none" => tasks = {}
  /\ env.phase # "none" => \E t \in tasks : /\ tasks = {t}
                                            /\ t.id = env.inflight
                                            /\ t.id[1] = env.run

\* What the executing coroutine may rely on when it resumes.
InFlight ==
  env.phase = "executing" => env.active /\ \A t \in tasks :
    /\ t.before = Committed /\ ~t.cancelled
    /\ env.cache[Key[t.of]] = Nothing
    /\ Permit[t.of].requests = Len(receipts)
    /\ env.used.requests = Len(receipts) + 1
    /\ t.st = "queued" => lab = Committed
    /\ t.ok => t.st = "settled" /\ lab = Append(Committed, t.of)

\* The budget counts the committed actions of an open run, and all are cached.
Counted ==
  env.active /\ env.phase = "none" => env.used.requests = Len(receipts)
Cached ==
  env.active => \A i \in DOMAIN receipts : env.cache[Key[receipts[i].of]] # Nothing

\* A receipt is cached under its own key and belongs to the run.
CacheOfRun ==
  env.active => \A x \in Keys : env.cache[x] # Nothing => env.cache[x].run = env.run

\* A receipt ends in the actions committed up to it.
ReceiptsEnd ==
  \A i \in DOMAIN receipts : receipts[i].after = [j \in 1..i |-> receipts[j].of]

\* An effect that is still to come has a key the lab has not seen.
FreshKey ==
  \A t \in tasks : t.st = "queued" => \A i \in DOMAIN lab : Key[lab[i]] # Key[t.of]

\* What was claimed in this run is on record as long as the run is open.
ClaimsRecorded ==
  \A i \in DOMAIN issued :
    /\ issued[i].run <= env.run
    /\ env.active /\ issued[i].run = env.run => issued[i] \in env.claims

IInv == /\ EnvTypeOK /\ OneTask /\ InFlight /\ Counted /\ Cached /\ CacheOfRun
        /\ LabIsCommitted /\ ReceiptsEnd /\ ReceiptsChain
        /\ FreshKey /\ EachKeyOnce /\ ClaimsRecorded /\ ClaimedOnce
-------------------------------------------------------------------------------
LEMMA Element == ASSUME NEW S, NEW s \in Seq(S), NEW i \in DOMAIN s PROVE s[i] \in S
OBVIOUS

\* The chain of the receipts says nothing but of them.
LEMMA ReceiptsKept ==
  ReceiptsEnd /\ ReceiptsChain /\ receipts' = receipts => (ReceiptsEnd /\ ReceiptsChain)'
BY DEF ReceiptsEnd, ReceiptsChain

LEMMA ReceiptParts ==
  ASSUME NEW r \in Receipts
  PROVE  /\ r.of \in Envelopes /\ Key[r.of] \in Keys /\ r.run \in Int
         /\ r # Nothing
BY RunsAssumption, NothingAssumption DEF Receipts, Keys

\* Task names the one task there is.
LEMMA TaskIsIt ==
  ASSUME EnvTypeOK, OneTask, env.phase # "none"
  PROVE  /\ Task \in TaskRecord /\ tasks = {Task}
         /\ Task.id = env.inflight /\ Task.id[1] = env.run
BY DEF OneTask, Task, EnvTypeOK

\* Whatever task is met is that one.
LEMMA OnlyTask ==
  ASSUME EnvTypeOK, OneTask, NEW t \in tasks
  PROVE  /\ tasks = {t} /\ t \in TaskRecord /\ env.phase # "none"
         /\ t.id = env.inflight /\ t.id[1] = env.run
BY DEF OneTask, EnvTypeOK

\* What a call finds that recovers: nothing that could still run.
LEMMA NothingLeft ==
  ASSUME EnvTypeOK, OneTask, Recoverable
  PROVE  Forgotten = {}
<1>1. CASE env.phase = "none"
  BY <1>1 DEF OneTask, Forgotten
<1>2. CASE env.phase # "none"
  BY <1>2, TaskIsIt DEF Recoverable, Forgotten
<1> QED BY <1>1, <1>2

LEMMA InitInv == Init => IInv
<1> SUFFICES ASSUME Init PROVE IInv
  OBVIOUS
<1> USE DEF Init
<1>1. NoCache \in [Keys -> Receipts \cup {Nothing}] /\ NoSpend \in Slots
  BY DEF NoCache, NoSpend, Slots
<1>2. EnvTypeOK
  BY <1>1, RunsAssumption, NothingAssumption DEF EnvTypeOK, States, Receipts
<1>3. OneTask /\ InFlight /\ Counted /\ Cached /\ CacheOfRun
  BY DEF OneTask, InFlight, Counted, Cached, CacheOfRun
<1>4. LabIsCommitted /\ ReceiptsEnd /\ ReceiptsChain
  BY DEF LabIsCommitted, ReceiptsEnd, ReceiptsChain
<1>5. FreshKey /\ EachKeyOnce /\ ClaimsRecorded /\ ClaimedOnce
  BY DEF FreshKey, EachKeyOnce, ClaimsRecorded, ClaimedOnce
<1> QED BY <1>2, <1>3, <1>4, <1>5 DEF IInv
-------------------------------------------------------------------------------
LEMMA ResetStep == IInv /\ Reset => IInv'
<1> SUFFICES ASSUME IInv, Reset PROVE IInv'
  OBVIOUS
<1> USE DEF IInv
<1>0. tasks' = {}
  BY NothingLeft DEF Reset, Activate
<1>1. NoCache \in [Keys -> Receipts \cup {Nothing}] /\ NoSpend \in Slots
  BY DEF NoCache, NoSpend, Slots
<1>2. /\ lab' = <<>> /\ receipts' = <<>> /\ issued' = issued
      /\ env' = [env EXCEPT !.run = env.run + 1, !.active = TRUE,
                   !.phase = "none", !.inflight = Nothing, !.cache = NoCache,
                   !.claims = {}, !.used = NoSpend, !.last = Nothing]
  BY DEF Reset, Activate, Cleared, Recovered, EnvTypeOK
<1>3. env.run \in 0..MaxRuns /\ env.run + 1 \in 0..MaxRuns
  BY RunsAssumption DEF Reset, EnvTypeOK
<1>4. EnvTypeOK'
  <2>1. env' \in [run : 0..MaxRuns, active : BOOLEAN,
                  phase : {"none", "executing", "settling"},
                  inflight : TaskIds \cup {Nothing},
                  cache : [Keys -> Receipts \cup {Nothing}],
                  claims : SUBSET Receipts, used : Slots,
                  last : Envelopes \cup {Nothing}]
    BY <1>1, <1>2, <1>3 DEF EnvTypeOK
  <2>2. env'.phase = "none" /\ env'.inflight = Nothing
    BY <1>2 DEF EnvTypeOK
  <2>3. lab' \in States /\ receipts' \in Seq(Receipts) /\ issued' \in Seq(Receipts)
    BY <1>2 DEF EnvTypeOK, States
  <2> QED BY <1>0, <2>1, <2>2, <2>3 DEF EnvTypeOK
<1>5. (OneTask /\ InFlight /\ Counted /\ Cached /\ CacheOfRun)'
  BY <1>0, <1>2 DEF OneTask, InFlight, Counted, Cached, CacheOfRun, NoSpend,
                    NoCache, EnvTypeOK
<1>6. (LabIsCommitted /\ ReceiptsEnd /\ ReceiptsChain)'
  BY <1>2 DEF LabIsCommitted, ReceiptsEnd, ReceiptsChain
<1>7. (FreshKey /\ EachKeyOnce)'
  BY <1>0, <1>2 DEF FreshKey, EachKeyOnce
<1>8. (ClaimsRecorded /\ ClaimedOnce)'
  <2>1. \A i \in DOMAIN issued : issued[i].run \in Int
    BY Element, ReceiptParts DEF EnvTypeOK
  <2> QED BY <1>2, <1>3, <2>1 DEF ClaimsRecorded, ClaimedOnce, EnvTypeOK
<1> QED BY <1>4, <1>5, <1>6, <1>7, <1>8

LEMMA RepeatStep == ASSUME IInv, NEW e \in Envelopes, Repeat(e) PROVE IInv'
<1> USE DEF IInv
<1>1. env' = [env EXCEPT !.last = e] /\ UNCHANGED <<lab, tasks, receipts, issued>>
  BY DEF Repeat
<1>2. EnvTypeOK'
  BY <1>1 DEF EnvTypeOK
<1>3. /\ env'.phase = env.phase /\ env'.inflight = env.inflight
      /\ env'.run = env.run /\ env'.active = env.active /\ env'.used = env.used
      /\ env'.cache = env.cache /\ env'.claims = env.claims
  BY <1>1 DEF EnvTypeOK
<1>4. (OneTask /\ InFlight /\ Counted /\ Cached /\ CacheOfRun)'
  BY <1>1, <1>3 DEF OneTask, InFlight, Counted, Cached, CacheOfRun, Committed
<1>5. LabIsCommitted' /\ ReceiptsEnd' /\ ReceiptsChain'
  BY <1>1, <1>3 DEF LabIsCommitted, ReceiptsEnd, ReceiptsChain
<1>6. (FreshKey /\ EachKeyOnce /\ ClaimsRecorded /\ ClaimedOnce)'
  BY <1>1, <1>3 DEF FreshKey, EachKeyOnce, ClaimsRecorded, ClaimedOnce
<1> QED BY <1>2, <1>4, <1>5, <1>6

\* The slot, the state and the key an execution starts from.
LEMMA ReserveStep == ASSUME IInv, NEW e \in Envelopes, Reserve(e) PROVE IInv'
<1> USE DEF IInv
<1> DEFINE id == <<env.run, env.used.requests>>
           t == [id |-> id, of |-> e, before |-> lab, st |-> "queued",
                 ok |-> FALSE, cancelled |-> FALSE]
           w == IF e \in Writes THEN env.used.writes + 1 ELSE env.used.writes
<1>0. /\ env.phase = "none" /\ env.active /\ env.cache[Key[e]] = Nothing
      /\ Permit[e] = env.used /\ tasks = {} /\ lab = Committed
      /\ UNCHANGED <<lab, receipts, issued>>
  BY DEF Reserve, Admitted, Known, OneTask, LabIsCommitted, Committed
<1>1. env.used \in Slots /\ env.run \in 0..MaxRuns /\ id \in TaskIds /\ w \in Nat
  BY DEF EnvTypeOK, Slots, TaskIds
<1>2. t \in TaskRecord
  BY <1>1 DEF TaskRecord, EnvTypeOK
<1>3. /\ env' = [env EXCEPT !.phase = "executing", !.inflight = id,
                   !.used.requests = env.used.requests + 1, !.used.writes = w]
      /\ tasks' = {t}
  BY <1>0 DEF Reserve
<1>4. /\ t.id = id /\ t.of = e /\ t.before = lab /\ t.st = "queued"
      /\ t.ok = FALSE /\ t.cancelled = FALSE /\ id[1] = env.run
  OBVIOUS
<1> HIDE DEF t, id, w
<1>5. /\ env'.phase = "executing" /\ env'.inflight = id /\ env'.run = env.run
      /\ env'.active = env.active /\ env'.cache = env.cache
      /\ env'.claims = env.claims
      /\ env'.used.requests = env.used.requests + 1
  BY <1>1, <1>3 DEF EnvTypeOK, Slots
<1>6. EnvTypeOK'
  <2>1. [env.used EXCEPT !.requests = env.used.requests + 1, !.writes = w] \in Slots
    <3>1. env.used.requests \in Nat /\ env.used.requests + 1 \in Nat
      BY <1>1 DEF Slots
    <3> QED BY <1>1, <3>1 DEF Slots
  <2>2. env' = [env EXCEPT !.phase = "executing", !.inflight = id,
                  !.used = [env.used EXCEPT !.requests = env.used.requests + 1,
                                            !.writes = w]]
    BY <1>1, <1>3 DEF EnvTypeOK
  <2>3. env' \in [run : 0..MaxRuns, active : BOOLEAN,
                  phase : {"none", "executing", "settling"},
                  inflight : TaskIds \cup {Nothing},
                  cache : [Keys -> Receipts \cup {Nothing}],
                  claims : SUBSET Receipts, used : Slots,
                  last : Envelopes \cup {Nothing}]
    BY <1>1, <2>1, <2>2 DEF EnvTypeOK
  <2>4. tasks' \subseteq TaskRecord /\ \E u \in tasks' : u.id = env'.inflight
    BY <1>2, <1>3, <1>4, <1>5
  <2>5. env'.phase # "none" /\ env'.inflight # Nothing
    BY <1>1, <1>5, NothingAssumption
  <2> QED BY <1>0, <2>3, <2>4, <2>5 DEF EnvTypeOK
<1>7. (OneTask /\ Counted /\ Cached /\ CacheOfRun)'
  BY <1>0, <1>2, <1>3, <1>4, <1>5 DEF OneTask, Counted, Cached, CacheOfRun
<1>8. InFlight'
  BY <1>0, <1>3, <1>4, <1>5 DEF InFlight, Committed, Counted
<1>9. (LabIsCommitted /\ ReceiptsEnd /\ ReceiptsChain)'
  BY <1>0, <1>5 DEF LabIsCommitted, ReceiptsEnd, ReceiptsChain
<1>10. (FreshKey /\ EachKeyOnce)'
  <2>1. \A i \in DOMAIN lab : Key[lab[i]] # Key[e]
    BY <1>0 DEF Committed, Cached
  <2> QED BY <1>0, <1>3, <1>4, <2>1 DEF FreshKey, EachKeyOnce
<1>11. (ClaimsRecorded /\ ClaimedOnce)'
  BY <1>0, <1>5 DEF ClaimsRecorded, ClaimedOnce
<1> QED BY <1>6, <1>7, <1>8, <1>9, <1>10, <1>11

LEMMA CleanupStep == IInv /\ Cleanup => IInv'
<1> SUFFICES ASSUME IInv, Cleanup PROVE IInv'
  OBVIOUS
<1> USE DEF IInv
<1>0. tasks' = {} /\ UNCHANGED <<lab, receipts, issued>>
  BY NothingLeft DEF Cleanup
<1>1. NoCache \in [Keys -> Receipts \cup {Nothing}]
  BY DEF NoCache
<1>2. env' = [env EXCEPT !.active = FALSE, !.phase = "none", !.inflight = Nothing,
                         !.cache = NoCache, !.claims = {}]
  BY DEF Cleanup, Cleared, Recovered, EnvTypeOK
<1>4. EnvTypeOK'
  BY <1>0, <1>1, <1>2 DEF EnvTypeOK
<1>5. (OneTask /\ InFlight /\ Counted /\ Cached /\ CacheOfRun)'
  BY <1>0, <1>2 DEF OneTask, InFlight, Counted, Cached, CacheOfRun, EnvTypeOK
<1>6. LabIsCommitted' /\ (ReceiptsEnd /\ ReceiptsChain)'
  <2>1. ~env'.active
    BY <1>2 DEF EnvTypeOK
  <2> QED BY <1>0, <2>1, ReceiptsKept DEF LabIsCommitted
<1>7. (FreshKey /\ EachKeyOnce)'
  BY <1>0, <1>2 DEF FreshKey, EachKeyOnce
<1>8. (ClaimsRecorded /\ ClaimedOnce)'
  BY <1>0, <1>2 DEF ClaimsRecorded, ClaimedOnce, EnvTypeOK
<1> QED BY <1>4, <1>5, <1>6, <1>7, <1>8

\* The receipt extends the chain: it starts in what was committed and ends in
\* the lab as it is.
LEMMA CommitStep == IInv /\ Commit => IInv'
<1> SUFFICES ASSUME IInv, Commit PROVE IInv'
  OBVIOUS
<1> USE DEF IInv
<1>1. PICK t \in tasks : t = Task
  BY TaskIsIt DEF Commit
<1>2. /\ tasks = {t} /\ t \in TaskRecord /\ t.st = "settled" /\ t.ok
      /\ env.phase = "executing" /\ t.id = env.inflight
  BY <1>1, OnlyTask DEF Commit, Settled
<1>3. /\ env.active /\ t.before = Committed /\ lab = Append(Committed, t.of)
      /\ env.cache[Key[t.of]] = Nothing
      /\ Permit[t.of].requests = Len(receipts)
      /\ env.used.requests = Len(receipts) + 1
  BY <1>2 DEF InFlight
<1>4. PICK r \in Receipts : /\ r.run = env.run /\ r.of = t.of
                            /\ r.before = t.before /\ r.after = lab
                            /\ r = [run |-> env.run, of |-> Task.of,
                                   before |-> Task.before, after |-> lab]
  BY <1>1, <1>2 DEF Receipts, EnvTypeOK, TaskRecord
<1>5. /\ env' = [Recovered(env) EXCEPT !.cache[Key[r.of]] = r, !.last = r.of]
      /\ tasks' = {} /\ receipts' = Append(receipts, r)
      /\ UNCHANGED <<lab, issued>>
  BY <1>1, <1>2, <1>4 DEF Commit, Forgotten, Settled
<1>6. /\ env'.phase = "none" /\ env'.inflight = Nothing /\ env'.run = env.run
      /\ env'.active = env.active /\ env'.used = env.used
      /\ env'.claims = env.claims
      /\ env'.cache = [env.cache EXCEPT ![Key[r.of]] = r]
  BY <1>5 DEF Recovered, EnvTypeOK
<1>7. Key[r.of] \in Keys /\ r # Nothing
  BY ReceiptParts
<1>8. EnvTypeOK'
  <2>1. [env.cache EXCEPT ![Key[r.of]] = r] \in [Keys -> Receipts \cup {Nothing}]
    BY DEF EnvTypeOK
  <2>2. env' = [env EXCEPT !.phase = "none", !.inflight = Nothing, !.last = r.of,
                  !.cache = [env.cache EXCEPT ![Key[r.of]] = r]]
    BY <1>5 DEF Recovered, EnvTypeOK
  <2>3. r.of \in Envelopes
    BY DEF Receipts
  <2>4. receipts' \in Seq(Receipts)
    BY <1>5 DEF EnvTypeOK
  <2> QED BY <1>5, <1>6, <2>1, <2>2, <2>3, <2>4 DEF EnvTypeOK
<1>9. /\ receipts \in Seq(Receipts) /\ Len(receipts) \in Nat
      /\ Len(receipts') = Len(receipts) + 1 /\ DOMAIN receipts = 1..Len(receipts)
      /\ DOMAIN receipts' = 1..(Len(receipts) + 1)
      /\ receipts'[Len(receipts) + 1] = r
      /\ \A i \in DOMAIN receipts : receipts'[i] = receipts[i]
  BY <1>5 DEF EnvTypeOK
<1>9a. \A i \in DOMAIN receipts' : i \in DOMAIN receipts \/ i = Len(receipts) + 1
  BY <1>9
<1>10. lab = [i \in DOMAIN receipts' |-> receipts'[i].of]
  <2>0. \A i \in DOMAIN receipts : receipts[i].of \in Envelopes
    BY <1>9, Element, ReceiptParts
  <2>1. Committed \in States /\ Len(Committed) = Len(receipts)
    BY <1>9, <2>0 DEF Committed, States
  <2>2. lab = [i \in 1..(Len(receipts) + 1) |->
                 IF i <= Len(receipts) THEN receipts[i].of ELSE t.of]
    BY <1>3, <1>9, <2>1 DEF Committed, States
  <2> QED BY <1>4, <1>9, <2>2
<1>11. (OneTask /\ InFlight /\ Counted)'
  BY <1>3, <1>5, <1>6, <1>9 DEF OneTask, InFlight, Counted
<1>12. (Cached /\ CacheOfRun)'
  <2>1. \A x \in Keys : env'.cache[x] = IF x = Key[r.of] THEN r ELSE env.cache[x]
    BY <1>6 DEF EnvTypeOK
  <2>2. \A i \in DOMAIN receipts : Key[receipts[i].of] \in Keys
    BY <1>9, Element, ReceiptParts
  <2>3. CacheOfRun'
    BY <1>4, <1>6, <2>1 DEF CacheOfRun
  <2>4. \A i \in DOMAIN receipts : env'.cache[Key[receipts[i].of]] # Nothing
    BY <1>3, <1>7, <2>1, <2>2 DEF Cached
  <2>5. env'.cache[Key[r.of]] # Nothing
    BY <1>7, <2>1
  <2>6. Cached'
    BY <1>9, <2>4, <2>5 DEF Cached
  <2> QED BY <2>3, <2>6
<1>13. LabIsCommitted'
  BY <1>5, <1>10 DEF LabIsCommitted
<1>14. ReceiptsEnd'
  <2> SUFFICES ASSUME NEW i \in DOMAIN receipts'
               PROVE  receipts'[i].after = [j \in 1..i |-> receipts'[j].of]
    BY DEF ReceiptsEnd
  <2>1. CASE i = Len(receipts) + 1
    <3> HIDE DEF IInv
    <3>1. receipts'[i].after = lab
      BY <1>4, <1>9, <2>1
    <3>2. DOMAIN receipts' = 1..i
      BY <1>9, <2>1
    <3>3. lab = [j \in 1..i |-> receipts'[j].of]
      BY <1>10, <3>2, Zenon
    <3> QED BY <3>1, <3>3, Zenon
  <2>2. CASE i \in DOMAIN receipts
    <3>1. /\ receipts'[i] = receipts[i] /\ i \in 1..Len(receipts)
          /\ \A j \in 1..i : receipts'[j] = receipts[j]
      BY <1>9, <2>2
    <3>2. receipts[i].after = [j \in 1..i |-> receipts[j].of]
      BY <2>2 DEF ReceiptsEnd
    <3> HIDE DEF IInv
    <3>3. [j \in 1..i |-> receipts[j].of] = [j \in 1..i |-> receipts'[j].of]
      BY <3>1
    <3> QED BY <3>1, <3>2, <3>3, Zenon
  <2> QED BY <1>9a, <2>1, <2>2, Zenon
<1>15. ReceiptsChain'
  <2> SUFFICES ASSUME NEW i \in DOMAIN receipts'
        PROVE  /\ receipts'[i].before =
                    (IF i = 1 THEN <<>> ELSE receipts'[i - 1].after)
               /\ receipts'[i].after = Append(receipts'[i].before, receipts'[i].of)
               /\ Permit[receipts'[i].of].requests = i - 1
    BY DEF ReceiptsChain
  <2>1. CASE i = Len(receipts) + 1
    <3>1. Committed = (IF i = 1 THEN <<>> ELSE receipts[i - 1].after)
      <4>1. CASE i = 1
        BY <1>9, <2>1, <4>1 DEF Committed
      <4>2. CASE i # 1
        BY <1>9, <2>1, <4>2 DEF Committed, ReceiptsEnd
      <4> QED BY <4>1, <4>2
    <3>2. i # 1 => receipts'[i - 1] = receipts[i - 1]
      BY <1>9, <2>1
    <3> QED BY <1>3, <1>4, <1>9, <2>1, <3>1, <3>2
  <2>2. CASE i \in DOMAIN receipts
    <3>1. receipts'[i] = receipts[i] /\ (i # 1 => receipts'[i - 1] = receipts[i - 1])
      BY <1>9, <2>2
    <3> QED BY <2>2, <3>1 DEF ReceiptsChain
  <2> QED BY <1>9a, <2>1, <2>2, Zenon
<1>16. (FreshKey /\ EachKeyOnce /\ ClaimsRecorded /\ ClaimedOnce)'
  BY <1>5, <1>6 DEF FreshKey, EachKeyOnce, ClaimsRecorded, ClaimedOnce
<1> QED BY <1>8, <1>11, <1>12, <1>13, <1>14, <1>15, <1>16

\* A failure, a deadline or a cancellation closes the run; the task stays the
\* only one until it is done.
LEMMA PoisonStep == IInv /\ env.phase = "executing" /\ Poison => IInv'
<1> SUFFICES ASSUME IInv, env.phase = "executing", Poison PROVE IInv'
  OBVIOUS
<1> USE DEF IInv
<1>1. PICK t \in tasks : t = Task
  BY TaskIsIt
<1>2. tasks = {t} /\ t \in TaskRecord /\ t.id = env.inflight /\ t.id[1] = env.run
  BY <1>1, OnlyTask
<1>3. PICK u \in TaskRecord :
         /\ u.id = t.id /\ u.of = t.of /\ u.st = t.st
         /\ u = (IF Settled(Task) THEN Task ELSE [Task EXCEPT !.cancelled = TRUE])
  BY <1>1, <1>2 DEF TaskRecord
<1>4. /\ env' = [env EXCEPT !.active = FALSE, !.phase = "settling"]
      /\ tasks' = {u} /\ UNCHANGED <<lab, receipts, issued>>
  BY <1>1, <1>2, <1>3 DEF Poison
<1>5. /\ env'.phase = "settling" /\ env'.inflight = env.inflight
      /\ env'.run = env.run /\ ~env'.active
  BY <1>4 DEF EnvTypeOK
<1>6. EnvTypeOK'
  BY <1>2, <1>3, <1>4, <1>5 DEF EnvTypeOK
<1>7. (OneTask /\ InFlight /\ Counted /\ Cached /\ CacheOfRun /\ LabIsCommitted)'
  BY <1>2, <1>3, <1>4, <1>5
     DEF OneTask, InFlight, Counted, Cached, CacheOfRun, LabIsCommitted
<1>8. ReceiptsEnd' /\ ReceiptsChain'
  BY <1>4 DEF ReceiptsEnd, ReceiptsChain
<1>9. (FreshKey /\ EachKeyOnce /\ ClaimsRecorded /\ ClaimedOnce)'
  BY <1>2, <1>3, <1>4, <1>5 DEF FreshKey, EachKeyOnce, ClaimsRecorded, ClaimedOnce
<1> QED BY <1>6, <1>7, <1>8, <1>9

LEMMA ClaimStep ==
  ASSUME IInv, NEW r \in Held \ {Nothing}, Claim(r) PROVE IInv'
<1> USE DEF IInv
<1>1. /\ env' = [env EXCEPT !.claims = env.claims \cup {r}]
      /\ issued' = Append(issued, r) /\ UNCHANGED <<lab, tasks, receipts>>
      /\ env.phase = "none" /\ env.active /\ r \notin env.claims
      /\ env.cache[Key[r.of]] = r
  BY DEF Claim
<1>2. r \in Receipts /\ Key[r.of] \in Keys
  <2>1. \A k \in Keys : env.cache[k] \in Receipts \cup {Nothing}
    BY DEF EnvTypeOK
  <2>2. \A i \in DOMAIN issued : issued[i] \in Receipts
    BY Element DEF EnvTypeOK
  <2>3. r \in Receipts
    BY <2>1, <2>2 DEF Held
  <2> QED BY <2>3, ReceiptParts
<1>3. /\ env'.phase = env.phase /\ env'.inflight = env.inflight
      /\ env'.run = env.run /\ env'.active = env.active /\ env'.used = env.used
      /\ env'.cache = env.cache /\ env'.claims = env.claims \cup {r}
  BY <1>1 DEF EnvTypeOK
<1>4. EnvTypeOK'
  <2>1. env.claims \cup {r} \in SUBSET Receipts
    BY <1>2 DEF EnvTypeOK
  <2>2. issued' \in Seq(Receipts)
    BY <1>1, <1>2 DEF EnvTypeOK
  <2> QED BY <1>1, <1>3, <2>1, <2>2 DEF EnvTypeOK
<1>5. (OneTask /\ InFlight /\ Counted /\ Cached /\ CacheOfRun)'
  BY <1>1, <1>3 DEF OneTask, InFlight, Counted, Cached, CacheOfRun, Committed
<1>6. LabIsCommitted' /\ ReceiptsEnd' /\ ReceiptsChain'
  BY <1>1, <1>3 DEF LabIsCommitted, ReceiptsEnd, ReceiptsChain
<1>7. (FreshKey /\ EachKeyOnce)'
  BY <1>1 DEF FreshKey, EachKeyOnce
<1>8. /\ DOMAIN issued = 1..Len(issued) /\ Len(issued) \in Nat
      /\ DOMAIN issued' = 1..(Len(issued) + 1)
      /\ issued'[Len(issued) + 1] = r
      /\ \A i \in DOMAIN issued : issued'[i] = issued[i]
  BY <1>1, <1>2 DEF EnvTypeOK
<1>9. r.run = env.run /\ env.run \in Int
  BY <1>1, <1>2, NothingAssumption, RunsAssumption DEF CacheOfRun, EnvTypeOK
<1>10. ClaimsRecorded'
  BY <1>1, <1>3, <1>8, <1>9 DEF ClaimsRecorded
<1>11. ClaimedOnce'
  <2>1. \A i \in DOMAIN issued : issued[i] # r
    BY <1>1, <1>9 DEF ClaimsRecorded
  <2> QED BY <1>8, <2>1 DEF ClaimedOnce
<1> QED BY <1>4, <1>5, <1>6, <1>7, <1>10, <1>11

\* The one effect of the action in flight, on a lab that has not seen its key.
LEMMA EffectStep == ASSUME IInv, NEW t \in tasks, Effect(t) PROVE IInv'
<1> USE DEF IInv
<1>1. /\ tasks = {t} /\ t \in TaskRecord /\ env.phase # "none"
      /\ t.id = env.inflight /\ t.id[1] = env.run /\ t.st = "queued"
  BY OnlyTask DEF Effect
<1>2. PICK u \in TaskRecord :
         /\ u.id = t.id /\ u.of = t.of /\ u.st = "applied" /\ u.ok = t.ok
         /\ u.before = t.before /\ u.cancelled = t.cancelled
         /\ u = [t EXCEPT !.st = "applied"]
  BY <1>1 DEF TaskRecord
<1>3. /\ lab' = Append(lab, t.of) /\ tasks' = {u}
      /\ UNCHANGED <<env, receipts, issued>>
  BY <1>1, <1>2 DEF Effect, Becomes
<1>4. EnvTypeOK'
  <2>1. t.of \in Envelopes
    BY <1>1 DEF TaskRecord
  <2>2. lab' \in States
    BY <1>3, <2>1 DEF EnvTypeOK, States
  <2> QED BY <1>1, <1>2, <1>3, <2>2 DEF EnvTypeOK
<1>5. (OneTask /\ Counted /\ Cached /\ CacheOfRun)'
  BY <1>1, <1>2, <1>3 DEF OneTask, Counted, Cached, CacheOfRun
<1>6. InFlight'
  BY <1>1, <1>2, <1>3 DEF InFlight, Committed
<1>7. LabIsCommitted' /\ (ReceiptsEnd /\ ReceiptsChain)'
  BY <1>1, <1>3, ReceiptsKept DEF LabIsCommitted
<1>8. (FreshKey /\ EachKeyOnce)'
  <2>1. /\ DOMAIN lab = 1..Len(lab) /\ Len(lab) \in Nat
        /\ DOMAIN lab' = 1..(Len(lab) + 1) /\ lab'[Len(lab) + 1] = t.of
        /\ \A i \in DOMAIN lab : lab'[i] = lab[i]
    BY <1>1, <1>3 DEF EnvTypeOK, States, TaskRecord
  <2>2. \A i \in DOMAIN lab : Key[lab[i]] # Key[t.of]
    BY <1>1 DEF FreshKey
  <2>3. EachKeyOnce'
    BY <2>1, <2>2 DEF EachKeyOnce
  <2>4. FreshKey'
    BY <1>2, <1>3 DEF FreshKey
  <2> QED BY <2>3, <2>4
<1>9. (ClaimsRecorded /\ ClaimedOnce)'
  BY <1>3 DEF ClaimsRecorded, ClaimedOnce
<1> QED BY <1>4, <1>5, <1>6, <1>7, <1>8, <1>9

LEMMA SettleStep == ASSUME IInv, NEW t \in tasks, Settle(t) PROVE IInv'
<1> USE DEF IInv
<1>1. /\ tasks = {t} /\ t \in TaskRecord /\ env.phase # "none"
      /\ t.id = env.inflight /\ t.id[1] = env.run
      /\ UNCHANGED <<lab, env, receipts, issued>>
  BY OnlyTask DEF Settle
<1>2. PICK ok \in BOOLEAN :
         /\ ok => lab = Append(t.before, t.of)
         /\ Becomes(t, [t EXCEPT !.st = "settled", !.ok = ok])
  BY DEF Settle
<1>3. PICK u \in TaskRecord :
         /\ u.id = t.id /\ u.of = t.of /\ u.st = "settled" /\ u.ok = ok
         /\ u.before = t.before /\ u.cancelled = t.cancelled
         /\ u = [t EXCEPT !.st = "settled", !.ok = ok]
  BY <1>1 DEF TaskRecord
<1>4. tasks' = {u}
  BY <1>1, <1>2, <1>3 DEF Becomes
<1>5. EnvTypeOK'
  BY <1>1, <1>3, <1>4 DEF EnvTypeOK
<1>6. (OneTask /\ Counted /\ Cached /\ CacheOfRun)'
  BY <1>1, <1>3, <1>4 DEF OneTask, Counted, Cached, CacheOfRun
<1>7. InFlight'
  BY <1>1, <1>2, <1>3, <1>4 DEF InFlight, Committed
<1>8. LabIsCommitted' /\ ReceiptsEnd' /\ ReceiptsChain'
  BY <1>1 DEF LabIsCommitted, ReceiptsEnd, ReceiptsChain
<1>9. (FreshKey /\ EachKeyOnce /\ ClaimsRecorded /\ ClaimedOnce)'
  BY <1>1, <1>3, <1>4 DEF FreshKey, EachKeyOnce, ClaimsRecorded, ClaimedOnce
<1> QED BY <1>5, <1>6, <1>7, <1>8, <1>9

LEMMA Stutter == IInv /\ UNCHANGED envVars => IInv'
<1> SUFFICES ASSUME IInv, UNCHANGED envVars PROVE IInv'
  OBVIOUS
<1> USE DEF IInv, envVars
<1>1. (EnvTypeOK /\ OneTask /\ InFlight /\ Counted /\ Cached /\ CacheOfRun)'
  BY DEF EnvTypeOK, OneTask, InFlight, Counted, Cached, CacheOfRun, Committed
<1>2. LabIsCommitted' /\ ReceiptsEnd' /\ ReceiptsChain'
  BY DEF LabIsCommitted, ReceiptsEnd, ReceiptsChain
<1>3. (FreshKey /\ EachKeyOnce /\ ClaimsRecorded /\ ClaimedOnce)'
  BY DEF FreshKey, EachKeyOnce, ClaimsRecorded, ClaimedOnce
<1> QED BY <1>1, <1>2, <1>3

\* Every step of a caller or of a task keeps the invariant.
LEMMA NextInv == IInv /\ [Next]_envVars => IInv'
<1> SUFFICES ASSUME IInv, [Next]_envVars PROVE IInv'
  OBVIOUS
<1>1. CASE Reset
  BY <1>1, ResetStep
<1>2. CASE Cleanup
  BY <1>2, CleanupStep
<1>3. ASSUME NEW e \in Envelopes, Repeat(e) PROVE IInv'
  BY <1>3, RepeatStep
<1>4. ASSUME NEW e \in Envelopes, Reserve(e) PROVE IInv'
  BY <1>4, ReserveStep
<1>5. CASE Commit
  BY <1>5, CommitStep
<1>6. CASE Fail \/ Timeout \/ Abandon
  BY <1>6, PoisonStep DEF Fail, Timeout, Abandon
<1>7. ASSUME NEW r \in Held \ {Nothing}, Claim(r) PROVE IInv'
  BY <1>7, ClaimStep
<1>8. ASSUME NEW t \in tasks, Effect(t) PROVE IInv'
  BY <1>8, EffectStep
<1>9. ASSUME NEW t \in tasks, Settle(t) PROVE IInv'
  BY <1>9, SettleStep
<1>10. CASE UNCHANGED envVars
  BY <1>10, Stutter
<1> QED BY <1>1, <1>2, <1>3, <1>4, <1>5, <1>6, <1>7, <1>8, <1>9, <1>10
        DEF Next, TaskStep

\* The invariant of the in-process lab is inductive.
THEOREM Invariance == Spec => []IInv
BY InitInv, NextInv, PTL DEF Spec
-------------------------------------------------------------------------------
\* Types, and the task of an action in flight exists (environment.py: _in_flight
\* is set before the task is awaited and dropped only when it is done).
THEOREM EnvTypeCorrectness == Spec => []EnvTypeOK
BY Invariance, PTL DEF IInv

\* The lab of an open run has recorded exactly the committed actions
\* (execute_observed: whatever fails after its slot is spent closes the run).
THEOREM CommittedLab == Spec => []LabIsCommitted
BY Invariance, PTL DEF IInv

\* The receipts of a run are a chain from the clean root, in slot order
\* (FixedLabActionRegistry.resolve compares the exact slot).
THEOREM Chain == Spec => []ReceiptsChain
BY Invariance, PTL DEF IInv

\* The lab and the receipts tell the same story, whatever fails or is given up
\* (execute_observed, _commit_success).
THEOREM RunCommittedAlways == Spec => []RunCommitted
BY CommittedLab, Chain, PTL DEF RunCommitted

\* An idempotency key has at most one effect on a lab, in spite of timeouts,
\* cancellations, retries and conflicting envelopes, and claim_runtime_observation
\* hands a receipt out once, for ever.
THEOREM Once == Spec => []OnceOnly
BY Invariance, PTL DEF IInv, OnceOnly

\* A handler thread that outlives its cancellation finds the lab of its own run:
\* no call lets a new lab in before _recover_settled_inflight saw the task done.
THEOREM LateEffect == Spec => NoLateEffect
<1>1. IInv /\ [Next]_envVars =>
        [\A t \in tasks : t.st = "queued" /\ Len(lab') > Len(lab) /\ t \notin tasks'
           => t.id[1] = env.run]_envVars
  BY OnlyTask DEF IInv
<1> QED BY <1>1, Invariance, PTL DEF Spec, NoLateEffect
-------------------------------------------------------------------------------
(* The observation controller, and the qualification. *)

Working == {"calling", "executing", "claiming"}

CallRecord == [pc : {"idle", "waiting"} \cup Working, of : Envelopes \cup {Nothing},
               receipt : Receipts \cup {Nothing}]

ObservationTypeOK ==
  /\ obs \in [Observers -> CallRecord]
  /\ ctl \in [holder : Observers \cup {Nothing}, poisoned : BOOLEAN, calls : Nat,
              ledger : [Keys -> Envelopes \cup {Nothing}]]
  /\ results \in Seq([receipt : Receipts, claim : Nat])
  /\ started \in Seq(Envelopes)
  /\ \A o \in Observers : obs[o].pc # "idle" => obs[o].of \in Envelopes

\* The calls past Enter hold the controller's lock.
LockOK == \A o \in Observers : obs[o].pc \in Working <=> ctl.holder = o

\* The environment executes what the observer in its execution asked for.
ExecutingOK ==
  \A o \in Observers : At(o, "executing") =>
    env.phase = "executing" /\ \A t \in tasks : t.of = obs[o].of

\* An observer claims a receipt of its own envelope.
ClaimingOK ==
  \A o \in Observers : At(o, "claiming") =>
    obs[o].receipt \in Receipts /\ obs[o].receipt.of = obs[o].of

\* The key of a call that works is not recorded, and not started before it calls.
FreshCall ==
  \A o \in Observers :
    /\ obs[o].pc \in Working => ctl.ledger[Key[obs[o].of]] = Nothing
    /\ At(o, "calling") => \A i \in DOMAIN started : Key[started[i]] # Key[obs[o].of]

\* The key of every result is recorded.
ResultsRecorded ==
  \A i \in DOMAIN results : ctl.ledger[Key[results[i].receipt.of]] # Nothing

OInv == /\ ObservationTypeOK /\ LockOK /\ ExecutingOK /\ ClaimingOK /\ FreshCall
        /\ ResultsRecorded /\ ObservedOnce /\ UncertainIsFinal
-------------------------------------------------------------------------------
(* The environment under observation. *)

\* The fields of a call after it has moved.
LEMMA CallUpdate ==
  ASSUME NEW k \in CallRecord, NEW pc \in {"idle", "waiting"} \cup Working,
         NEW r \in Receipts \cup {Nothing}
  PROVE  /\ [k EXCEPT !.pc = pc] \in CallRecord
         /\ [k EXCEPT !.pc = pc, !.receipt = r] \in CallRecord
BY DEF CallRecord

\* What a step of the controller does to the environment, its callers may do.
LEMMA ObserverUsesLab ==
  ASSUME IInv, OInv, NEW o \in Observers, ObserverStep(o)
  PROVE  [Next]_envVars
<1>1. CASE \/ \E e \in Envelopes : Observe(o, e)
           \/ Enter(o) \/ StopWaiting(o)
  BY <1>1 DEF Observe, Enter, StopWaiting, envVars
<1>2. CASE Call(o)
  <2>1. obs[o].of \in Envelopes
    BY <1>2 DEF Call, At, OInv, ObservationTypeOK
  <2> QED BY <1>2, <2>1 DEF Call, Next, envVars
<1>3. CASE Return(o)
  BY <1>3 DEF Return, Next
<1>4. CASE Finish(o)
  <2>1. obs[o].receipt \in Receipts
    BY <1>4 DEF Finish, OInv, ClaimingOK
  <2>2. Key[obs[o].receipt.of] \in Keys /\ obs[o].receipt # Nothing
    BY <2>1, ReceiptParts
  <2>3. CASE Claim(obs[o].receipt)
    <3>1. obs[o].receipt \in Held \ {Nothing}
      BY <2>2, <2>3 DEF Claim, Held
    <3> QED BY <2>3, <3>1 DEF Next
  <2>4. CASE UNCHANGED envVars
    BY <2>4
  <2> QED BY <1>4, <2>3, <2>4 DEF Finish
<1> QED BY <1>1, <1>2, <1>3, <1>4 DEF ObserverStep

LEMMA ObservationUsesLab ==
  ASSUME IInv, OInv, [ObservationNext]_<<envVars, obsVars>>
  PROVE  [Next]_envVars
<1>1. OtherCaller => Next
  BY DEF OtherCaller, Next
<1>2. TaskStep => Next
  BY DEF Next
<1> QED BY <1>1, <1>2, ObserverUsesLab DEF ObservationNext

\* What was claimed stays claimed (claim_runtime_observation only adds).
IssuedGrows ==
  \A i \in DOMAIN issued : i \in DOMAIN issued' /\ issued'[i] = issued[i]

LEMMA ClaimGrows ==
  ASSUME IInv, NEW r, Claim(r)
  PROVE  /\ IssuedGrows /\ Len(issued') = Len(issued) + 1 /\ Len(issued) \in Nat
         /\ Len(issued') \in DOMAIN issued' /\ issued'[Len(issued')] = r
         /\ DOMAIN issued = 1..Len(issued)
<1>1. issued \in Seq(Receipts) /\ issued' = Append(issued, r)
  BY DEF IInv, EnvTypeOK, Claim
<1> QED BY <1>1 DEF IssuedGrows

LEMMA LabGrows ==
  ASSUME IInv, [Next]_envVars
  PROVE  IssuedGrows
<1>1. CASE \E r \in Held \ {Nothing} : Claim(r)
  BY <1>1, ClaimGrows
<1>2. CASE UNCHANGED issued
  BY <1>2 DEF IssuedGrows
<1>3. ASSUME NEW t \in tasks, Effect(t) \/ Settle(t) PROVE UNCHANGED issued
  BY <1>3 DEF Effect, Settle
<1> QED BY <1>1, <1>2, <1>3
    DEF Next, TaskStep, envVars, Reset, Activate, Cleanup, Repeat, Reserve, Commit, Fail,
        Timeout, Abandon, Poison

\* Results stand as long as no other is entered.
LEMMA ResultsStand ==
  ASSUME ObservedOnce, IssuedGrows, UNCHANGED results
  PROVE  ObservedOnce'
<1>1. \A i \in DOMAIN results : /\ results[i].claim \in DOMAIN issued'
                                /\ issued'[results[i].claim] = results[i].receipt
  BY DEF ObservedOnce, IssuedGrows
<1> QED BY <1>1 DEF ObservedOnce

\* The others, and the tasks, leave the controller and what it waits for alone.
LEMMA OthersStep ==
  ASSUME IInv, OInv, UNCHANGED obsVars, OtherCaller \/ TaskStep \/ UNCHANGED envVars
  PROVE  OInv'
<1>1. UNCHANGED <<obs, ctl, results, started>>
  BY DEF obsVars
<1>2. [Next]_envVars
  BY DEF OtherCaller, Next
<1>3. ExecutingOK'
  <2> SUFFICES ASSUME NEW o \in Observers, At(o, "executing")
               PROVE  env'.phase = "executing" /\ \A t \in tasks' : t.of = obs[o].of
    BY <1>1 DEF ExecutingOK, At
  <2>1. env.phase = "executing" /\ \A t \in tasks : t.of = obs[o].of
    BY DEF OInv, ExecutingOK
  <2>2. ~OtherCaller
    BY <2>1 DEF OtherCaller, Executing, Reset, Cleanup, Recoverable, Repeat, Reserve, Admitted,
                Claim
  <2>3. ASSUME NEW t \in tasks, Effect(t) \/ Settle(t)
        PROVE  env' = env /\ \A u \in tasks' : u.of = obs[o].of
    <3>1. t \in TaskRecord
      BY OnlyTask DEF IInv
    <3> QED BY <2>1, <2>3, <3>1 DEF Effect, Settle, Becomes, TaskRecord
  <2> QED BY <2>1, <2>2, <2>3 DEF TaskStep, envVars
<1>4. (ObservationTypeOK /\ LockOK /\ ClaimingOK)'
  BY <1>1 DEF OInv, ObservationTypeOK, LockOK, ClaimingOK, At
<1>5. (FreshCall /\ ResultsRecorded)'
  BY <1>1 DEF OInv, FreshCall, ResultsRecorded, At
<1>6. UncertainIsFinal'
  BY <1>1 DEF OInv, UncertainIsFinal, Unresolved
<1>7. ObservedOnce'
  BY <1>1, <1>2, LabGrows, ResultsStand DEF OInv
<1> QED BY <1>3, <1>4, <1>5, <1>6, <1>7 DEF OInv

\* Only one call works at a time.
LEMMA OneWorks ==
  ASSUME OInv, NEW o \in Observers, NEW p \in Observers,
         obs[o].pc \in Working, obs[p].pc \in Working
  PROVE  o = p
BY DEF OInv, LockOK

\* A call that neither holds the lock nor asks for it.
LEMMA OutsideStep ==
  ASSUME IInv, OInv, NEW o \in Observers, NEW k \in CallRecord,
         k.pc \in {"idle", "waiting"}, k.pc = "waiting" => k.of \in Envelopes,
         obs[o].pc \in {"idle", "waiting"},
         obs' = [obs EXCEPT ![o] = k],
         NEW n \in Nat, NEW b \in BOOLEAN, ctl.poisoned => b,
         ctl' = [ctl EXCEPT !.calls = n, !.poisoned = b],
         UNCHANGED <<envVars, results, started>>
  PROVE  OInv'
<1> USE DEF OInv
<1>1. /\ obs'[o] = k /\ \A p \in Observers \ {o} : obs'[p] = obs[p]
      /\ obs' \in [Observers -> CallRecord]
  BY DEF ObservationTypeOK
<1>2. /\ ctl'.holder = ctl.holder /\ ctl'.ledger = ctl.ledger /\ ctl'.poisoned = b
  BY DEF ObservationTypeOK
<1>3. ObservationTypeOK'
  BY <1>1 DEF ObservationTypeOK
<1>4. k.pc \notin Working /\ obs[o].pc \notin Working
  BY DEF Working
<1>5. \A p \in Observers : obs'[p].pc \in Working => obs'[p] = obs[p]
  BY <1>1, <1>4
<1>6. \A p \in Observers : obs[p].pc \in Working => obs'[p] = obs[p]
  BY <1>1, <1>4
<1>7. LockOK'
  BY <1>2, <1>5, <1>6 DEF LockOK
<1>8. (ExecutingOK /\ ClaimingOK /\ FreshCall)'
  BY <1>2, <1>5 DEF ExecutingOK, ClaimingOK, FreshCall, At, Working, envVars
<1>9. ResultsRecorded' /\ ObservedOnce'
  BY <1>2 DEF ResultsRecorded, ObservedOnce, envVars
<1>10. UncertainIsFinal'
  <2>1. Unresolved' = Unresolved
    BY <1>2 DEF Unresolved
  <2> QED BY <1>2, <1>6, <2>1 DEF UncertainIsFinal, Working
<1> QED BY <1>3, <1>7, <1>8, <1>9, <1>10

\* A call that works gives up: the lock is free and the controller poisoned, so
\* whatever it had started is accounted for.
LEMMA GiveUpStep ==
  ASSUME IInv, OInv, NEW o \in Observers, obs[o].pc \in Working, GivenUp(o), [Next]_envVars
  PROVE  OInv'
<1> USE DEF OInv
<1>1. ctl.holder = o /\ NoCall \in CallRecord /\ NoCall.pc = "idle"
  BY DEF LockOK, NoCall, CallRecord
<1>2. /\ obs'[o] = NoCall /\ \A p \in Observers \ {o} : obs'[p] = obs[p]
      /\ obs' \in [Observers -> CallRecord]
      /\ UNCHANGED <<results, started>>
  BY <1>1 DEF ObservationTypeOK, GivenUp
<1>3. ctl' = [ctl EXCEPT !.holder = Nothing, !.poisoned = TRUE]
  BY <1>1 DEF GivenUp, ObservationTypeOK
<1>4. ctl'.holder = Nothing /\ ctl'.ledger = ctl.ledger /\ ctl'.poisoned
  BY <1>3 DEF ObservationTypeOK
<1>5. \A p \in Observers : obs'[p].pc \notin Working
  BY <1>1, <1>2, OneWorks DEF Working
<1>6. ObservationTypeOK'
  BY <1>1, <1>2, <1>3 DEF ObservationTypeOK
<1>7. (LockOK /\ ExecutingOK /\ ClaimingOK /\ FreshCall)'
  <2>1. LockOK'
    BY <1>4, <1>5, ObserversAssumption DEF LockOK
  <2> QED BY <1>5, <2>1 DEF ExecutingOK, ClaimingOK, FreshCall, At, Working
<1>8. ResultsRecorded'
  BY <1>2, <1>4 DEF ResultsRecorded
<1>9. ObservedOnce'
  BY <1>2, LabGrows, ResultsStand
<1>10. UncertainIsFinal'
  BY <1>2, <1>4 DEF UncertainIsFinal, Unresolved
<1> QED BY <1>6, <1>7, <1>8, <1>9, <1>10

LEMMA ObserveStep ==
  ASSUME IInv, OInv, NEW o \in Observers, NEW e \in Envelopes, Observe(o, e)
  PROVE  OInv'
<1> DEFINE k == [NoCall EXCEPT !.pc = "waiting", !.of = e]
<1>1. k \in CallRecord /\ k.pc = "waiting" /\ k.of = e
  BY DEF CallRecord, NoCall, Working
<1>2. /\ ctl.calls + 1 \in Nat /\ ctl.poisoned \in BOOLEAN /\ ctl \in [holder : Observers \cup {Nothing}, poisoned : BOOLEAN, calls : Nat,
              ledger : [Keys -> Envelopes \cup {Nothing}]]
  BY DEF OInv, ObservationTypeOK
<1>3. /\ obs[o].pc = "idle" /\ obs' = [obs EXCEPT ![o] = k]
      /\ ctl' = [ctl EXCEPT !.calls = ctl.calls + 1]
      /\ UNCHANGED <<envVars, results, started>>
  BY DEF Observe, At
<1>4. ctl' = [ctl EXCEPT !.calls = ctl.calls + 1, !.poisoned = ctl.poisoned]
  BY <1>2, <1>3
<1> HIDE DEF k
<1> QED BY <1>1, <1>2, <1>3, <1>4, OutsideStep

\* A call that leaves the queue without a result, quietly or poisoning.
LEMMA QueueStep ==
  ASSUME IInv, OInv, NEW o \in Observers, At(o, "waiting"),
         Rejected(o) \/ GivenUp(o), UNCHANGED envVars
  PROVE  OInv'
<1>1. NoCall \in CallRecord /\ NoCall.pc = "idle"
  BY DEF CallRecord, NoCall, Working
<1>2. /\ ctl.calls \in Nat /\ ctl.poisoned \in BOOLEAN
      /\ ctl \in [holder : Observers \cup {Nothing}, poisoned : BOOLEAN, calls : Nat,
                  ledger : [Keys -> Envelopes \cup {Nothing}]]
  BY DEF OInv, ObservationTypeOK
<1>3. obs[o].pc = "waiting" /\ ctl.holder # o
  BY DEF At, OInv, LockOK, Working
<1>4. CASE Rejected(o)
  <2>1. ctl' = [ctl EXCEPT !.calls = ctl.calls, !.poisoned = ctl.poisoned]
    BY <1>2, <1>4 DEF Rejected
  <2> QED BY <1>1, <1>2, <1>3, <1>4, <2>1, OutsideStep DEF Rejected
<1>5. CASE GivenUp(o)
  <2>1. ctl' = [ctl EXCEPT !.calls = ctl.calls, !.poisoned = TRUE]
    BY <1>2, <1>3, <1>5 DEF GivenUp
  <2> QED BY <1>1, <1>2, <1>3, <1>5, <2>1, OutsideStep DEF GivenUp
<1> QED BY <1>4, <1>5

\* The lock is had: what was started before is recorded, since the controller is
\* not poisoned and nobody else works.
LEMMA EnterLock ==
  ASSUME IInv, OInv, NEW o \in Observers, At(o, "waiting"), ctl.holder = Nothing,
         ~ctl.poisoned, ctl.ledger[Key[obs[o].of]] = Nothing,
         obs' = [obs EXCEPT ![o].pc = "calling"], ctl' = [ctl EXCEPT !.holder = o],
         UNCHANGED <<envVars, results, started>>
  PROVE  OInv'
<1> USE DEF OInv
<1> PICK k \in CallRecord : k = [obs[o] EXCEPT !.pc = "calling"]
  BY CallUpdate DEF ObservationTypeOK, Working
<1>1. k.pc = "calling" /\ k.of = obs[o].of /\ k.of \in Envelopes
  BY DEF ObservationTypeOK, CallRecord, At
<1>2. /\ obs'[o] = k /\ \A p \in Observers \ {o} : obs'[p] = obs[p]
      /\ obs' \in [Observers -> CallRecord]
  BY DEF ObservationTypeOK
<1>3. ctl'.holder = o /\ ctl'.ledger = ctl.ledger /\ ctl'.poisoned = ctl.poisoned
  BY DEF ObservationTypeOK
<1>4. \A p \in Observers : obs[p].pc \notin Working
  BY ObserversAssumption DEF LockOK
<1>5. ObservationTypeOK'
  BY <1>1, <1>2 DEF ObservationTypeOK
<1>6. LockOK'
  BY <1>1, <1>2, <1>3, <1>4 DEF LockOK, Working
<1>7. (ExecutingOK /\ ClaimingOK)'
  BY <1>1, <1>2, <1>4 DEF ExecutingOK, ClaimingOK, At, Working
<1>8. Unresolved = {} /\ Unresolved' = {}
  BY <1>3, <1>4 DEF UncertainIsFinal, Unresolved, Working
<1>9. FreshCall'
  <2>1. \A i \in DOMAIN started : Key[started[i]] # Key[k.of]
    BY <1>1, <1>8 DEF Unresolved
  <2> QED BY <1>1, <1>2, <1>3, <1>4, <2>1 DEF FreshCall, At, Working
<1>10. (ResultsRecorded /\ ObservedOnce)'
  BY <1>3 DEF ResultsRecorded, ObservedOnce, envVars
<1>11. UncertainIsFinal'
  BY <1>8 DEF UncertainIsFinal
<1> QED BY <1>5, <1>6, <1>7, <1>9, <1>10, <1>11

\* What Append does, in the words the provers use.
LEMMA AppendFacts ==
  ASSUME NEW S, NEW s \in Seq(S), NEW x \in S
  PROVE  /\ Append(s, x) \in Seq(S) /\ Len(s) \in Nat
         /\ DOMAIN Append(s, x) = 1..Len(s) + 1 /\ DOMAIN s = 1..Len(s)
         /\ Append(s, x)[Len(s) + 1] = x
         /\ \A i \in DOMAIN s : Append(s, x)[i] = s[i]
OBVIOUS

\* A call that works moves on and keeps the lock.
LEMMA HoldingStep ==
  ASSUME IInv, OInv, [Next]_envVars, NEW o \in Observers, obs[o].pc \in Working,
         NEW pc \in {"executing", "claiming"}, NEW r, Holding(o, pc, r),
         obs[o].pc # "claiming",
         pc = "executing" =>
           /\ obs[o].pc = "calling" /\ started' = Append(started, obs[o].of)
           /\ env'.phase = "executing" /\ \A t \in tasks' : t.of = obs[o].of
           /\ r = Nothing,
         pc = "claiming" =>
           UNCHANGED started /\ r \in Receipts /\ r.of = obs[o].of
  PROVE  OInv'
<1> USE DEF OInv
<1> PICK k \in CallRecord : k = [obs[o] EXCEPT !.pc = pc, !.receipt = r]
  BY CallUpdate DEF ObservationTypeOK, Working
<1>1. k.pc = pc /\ k.of = obs[o].of /\ k.receipt = r /\ k.of \in Envelopes
  BY DEF ObservationTypeOK, CallRecord, Working
<1>2. /\ obs'[o] = k /\ \A p \in Observers \ {o} : obs'[p] = obs[p]
      /\ obs' \in [Observers -> CallRecord]
      /\ UNCHANGED <<ctl, results>>
  <2>1. obs' = [obs EXCEPT ![o] = k]
    BY DEF Holding
  <2> QED BY <2>1 DEF ObservationTypeOK, Holding
<1>3. \A p \in Observers \ {o} : obs'[p].pc \notin Working
  BY <1>2, OneWorks
<1>4. ctl.holder = o /\ ctl.ledger[Key[k.of]] = Nothing
  BY <1>1 DEF LockOK, FreshCall
<1>5. /\ started \in Seq(Envelopes) /\ started' \in Seq(Envelopes)
      /\ pc = "executing" =>
           /\ DOMAIN started' = 1..Len(started) + 1 /\ DOMAIN started = 1..Len(started)
           /\ started'[Len(started) + 1] = k.of /\ Len(started) \in Nat
           /\ \A i \in DOMAIN started : started'[i] = started[i]
  <2>1. started \in Seq(Envelopes)
    BY DEF ObservationTypeOK
  <2>2. CASE pc = "claiming"
    BY <2>1, <2>2
  <2>3. CASE pc = "executing"
    <3>1. started' = Append(started, k.of)
      BY <1>1, <2>3
    <3> QED BY <1>1, <2>1, <2>3, <3>1, AppendFacts
  <2> QED BY <2>2, <2>3
<1>6. ObservationTypeOK'
  BY <1>1, <1>2, <1>5 DEF ObservationTypeOK
<1>7. LockOK'
  BY <1>1, <1>2, <1>3, <1>4 DEF LockOK, Working
<1>8. (ExecutingOK /\ ClaimingOK /\ FreshCall)'
  <2>1. \A p \in Observers : obs'[p].pc \in Working => p = o
    BY <1>3
  <2>2. ExecutingOK'
    BY <1>1, <1>2, <2>1 DEF ExecutingOK, At, Working
  <2>3. ClaimingOK'
    <3>1. k.pc = "claiming" => k.receipt \in Receipts /\ k.receipt.of = k.of
      BY <1>1
    <3> QED BY <1>2, <2>1, <3>1 DEF ClaimingOK, At, Working
  <2>4. FreshCall'
    BY <1>1, <1>2, <1>4, <2>1 DEF FreshCall, At, Working
  <2> QED BY <2>2, <2>3, <2>4
<1>9. ResultsRecorded'
  BY <1>2 DEF ResultsRecorded
<1>10. ObservedOnce'
  BY <1>2, LabGrows, ResultsStand
<1>11. \A i \in Unresolved : obs[o].pc = "executing" /\ obs[o].of = started[i]
  BY <1>4, OneWorks, ObserversAssumption DEF UncertainIsFinal, Working
<1>12. UncertainIsFinal'
  <2>1. CASE pc = "executing"
    <3>1. Unresolved = {}
      BY <1>11, <2>1
    <3>2. \A i \in DOMAIN started : Key[started[i]] # Key[k.of]
      BY <1>1, <2>1 DEF FreshCall, At
    <3>3. \A i \in Unresolved' : i = Len(started) + 1
      BY <1>2, <1>5, <2>1, <3>1 DEF Unresolved
    <3>4. \A i \in Unresolved' : obs'[o].pc \in {"executing", "claiming"} /\ obs'[o].of = started'[i]
      BY <1>1, <1>2, <1>5, <2>1, <3>3
    <3>5. \A i, j \in DOMAIN started' : Key[started'[i]] = Key[started'[j]] => i = j
      BY <1>5, <2>1, <3>2 DEF UncertainIsFinal
    <3> QED BY <3>4, <3>5 DEF UncertainIsFinal
  <2>2. CASE pc = "claiming"
    <3>1. UNCHANGED started /\ Unresolved' = Unresolved
      BY <1>2, <2>2 DEF Unresolved
    <3>2. \A i \in Unresolved : obs'[o].pc \in {"executing", "claiming"} /\ obs'[o].of = started[i]
      BY <1>1, <1>2, <1>11
    <3> QED BY <3>1, <3>2 DEF UncertainIsFinal
  <2> QED BY <2>1, <2>2
<1> QED BY <1>6, <1>7, <1>8, <1>9, <1>10, <1>12

LEMMA CallStep ==
  ASSUME IInv, OInv, [Next]_envVars, NEW o \in Observers, Call(o)
  PROVE  OInv'
<1> PICK e \in Envelopes : e = obs[o].of
  BY DEF Call, At, OInv, ObservationTypeOK
<1>1. obs[o].pc = "calling" /\ obs[o].pc \in Working
  BY DEF Call, At, Working
<1>2. CASE Repeat(e) /\ Holding(o, "claiming", env.cache[Key[e]]) /\ UNCHANGED started
  <2>1. env.cache[Key[e]] \in Receipts /\ env.cache[Key[e]].of = e
    BY <1>2 DEF Repeat, Known, Conflict, IInv, EnvTypeOK, Keys
  <2> QED BY <1>1, <1>2, <2>1, HoldingStep
<1>3. CASE Reserve(e) /\ Holding(o, "executing", Nothing) /\ started' = Append(started, e)
  <2>1. env'.phase = "executing" /\ \A t \in tasks' : t.of = e
    BY <1>3 DEF Reserve, Admitted, IInv, OneTask, EnvTypeOK
  <2> QED BY <1>1, <1>3, <2>1, HoldingStep
<1>4. CASE GivenUp(o)
  BY <1>1, <1>4, GiveUpStep
<1> QED BY <1>2, <1>3, <1>4 DEF Call

LEMMA ReturnStep ==
  ASSUME IInv, OInv, [Next]_envVars, NEW o \in Observers, Return(o)
  PROVE  OInv'
<1>1. obs[o].pc = "executing" /\ obs[o].pc \in Working
  BY DEF Return, At, Working
<1>2. CASE Commit /\ Holding(o, "claiming", env'.cache[Key[obs[o].of]]) /\ UNCHANGED started
  <2>1. /\ env.phase = "executing" /\ \A t \in tasks : t.of = obs[o].of
    BY <1>1 DEF OInv, ExecutingOK, At
  <2>2. Task \in TaskRecord /\ Task.of = obs[o].of
    BY <2>1, TaskIsIt DEF IInv
  <2> PICK r \in Receipts : /\ r.of = obs[o].of
                            /\ r = [run |-> env.run, of |-> Task.of,
                                    before |-> Task.before, after |-> lab]
    BY <2>2 DEF Receipts, TaskRecord, IInv, EnvTypeOK
  <2>3. Key[r.of] \in Keys
    BY ReceiptParts
  <2>4. env'.cache[Key[r.of]] = r
    <3>1. env' = [Recovered(env) EXCEPT !.cache[Key[r.of]] = r, !.last = r.of]
      BY <1>2, <2>2 DEF Commit
    <3> QED BY <2>3, <3>1 DEF Recovered, IInv, EnvTypeOK
  <2> QED BY <1>1, <1>2, <2>4, HoldingStep
<1>3. CASE GivenUp(o)
  BY <1>1, <1>3, GiveUpStep
<1> QED BY <1>2, <1>3 DEF Return

\* The claim is had and the result entered: the key is recorded, and with it the
\* only execution that was unresolved.
LEMMA RecordStep ==
  ASSUME IInv, OInv, NEW o \in Observers, At(o, "claiming"), Claim(obs[o].receipt),
         obs' = [obs EXCEPT ![o] = NoCall],
         Record(o, [receipt |-> obs[o].receipt, claim |-> Len(issued')]), UNCHANGED started
  PROVE  OInv'
<1> USE DEF OInv
<1> PICK r \in Receipts : r = obs[o].receipt
  BY DEF ClaimingOK
<1>1. r.of = obs[o].of /\ r.of \in Envelopes /\ Key[r.of] \in Keys /\ r.of # Nothing
  BY ReceiptParts, ObserversAssumption DEF ClaimingOK
<1>2. ctl.holder = o /\ obs[o].pc \in Working /\ ctl.ledger[Key[r.of]] = Nothing
  BY <1>1 DEF LockOK, FreshCall, At, Working
<1>3. NoCall \in CallRecord /\ NoCall.pc = "idle"
  BY DEF CallRecord, NoCall, Working
<1>4. /\ obs' \in [Observers -> CallRecord]
      /\ obs'[o] = NoCall /\ \A p \in Observers \ {o} : obs'[p] = obs[p]
  BY <1>3 DEF ObservationTypeOK
<1>5. \A p \in Observers : obs'[p].pc \notin Working
  BY <1>2, <1>3, <1>4, OneWorks DEF Working
<1>6. /\ IssuedGrows /\ Len(issued') = Len(issued) + 1 /\ Len(issued) \in Nat
      /\ Len(issued') \in DOMAIN issued' /\ issued'[Len(issued')] = r
      /\ DOMAIN issued = 1..Len(issued)
  BY ClaimGrows
<1> PICK x \in [receipt : Receipts, claim : Nat] :
      x.receipt = r /\ x.claim = Len(issued') /\ x = [receipt |-> r, claim |-> Len(issued')]
  BY <1>6
<1>7. /\ results' = Append(results, x)
      /\ ctl' = [ctl EXCEPT !.holder = Nothing, !.ledger[Key[r.of]] = r.of]
  BY <1>1 DEF Record
<1>8. /\ results' \in Seq([receipt : Receipts, claim : Nat]) /\ Len(results) \in Nat
      /\ DOMAIN results' = 1..Len(results) + 1 /\ DOMAIN results = 1..Len(results)
      /\ results'[Len(results) + 1] = x
      /\ \A i \in DOMAIN results : results'[i] = results[i]
  BY <1>7, AppendFacts DEF ObservationTypeOK
<1>9. /\ ctl'.holder = Nothing
      /\ \A y \in Keys : ctl'.ledger[y] = IF y = Key[r.of] THEN r.of ELSE ctl.ledger[y]
      /\ ctl' \in [holder : Observers \cup {Nothing}, poisoned : BOOLEAN, calls : Nat,
                   ledger : [Keys -> Envelopes \cup {Nothing}]]
  <2>1. [ctl.ledger EXCEPT ![Key[r.of]] = r.of] \in [Keys -> Envelopes \cup {Nothing}]
    BY <1>1 DEF ObservationTypeOK
  <2>2. ctl' = [ctl EXCEPT !.holder = Nothing,
                           !.ledger = [ctl.ledger EXCEPT ![Key[r.of]] = r.of]]
    BY <1>7 DEF ObservationTypeOK
  <2> QED BY <1>1, <2>1, <2>2 DEF ObservationTypeOK
<1>10. ObservationTypeOK'
  BY <1>3, <1>4, <1>8, <1>9 DEF ObservationTypeOK
<1>11. (LockOK /\ ExecutingOK /\ ClaimingOK /\ FreshCall)'
  <2>1. LockOK'
    BY <1>5, <1>9, ObserversAssumption DEF LockOK
  <2> QED BY <1>5, <2>1 DEF ExecutingOK, ClaimingOK, FreshCall, At, Working
<1>12. \A i \in DOMAIN results :
         /\ results[i].receipt \in Receipts /\ Key[results[i].receipt.of] \in Keys
         /\ Key[results[i].receipt.of] # Key[r.of]
         /\ results[i].claim \in DOMAIN issued
  <2> DEFINE Results == [receipt : Receipts, claim : Nat]
  <2>1. results \in Seq(Results)
    BY DEF ObservationTypeOK
  <2> HIDE DEF Results
  <2>2. \A i \in DOMAIN results : results[i] \in Results
    BY <2>1, Element
  <2>3. \A i \in DOMAIN results : results[i].receipt \in Receipts
    BY <2>2 DEF Results
  <2> QED BY <1>2, <2>3, ReceiptParts DEF ResultsRecorded, ObservedOnce
<1>13. ResultsRecorded'
  <2>1. \A i \in DOMAIN results : ctl'.ledger[Key[results[i].receipt.of]] # Nothing
    BY <1>9, <1>12 DEF ResultsRecorded
  <2>2. ctl'.ledger[Key[r.of]] # Nothing
    BY <1>1, <1>9
  <2> QED BY <1>8, <2>1, <2>2 DEF ResultsRecorded
<1>14. ObservedOnce'
  <2>1. \A i \in DOMAIN results : /\ results[i].claim \in DOMAIN issued'
                                  /\ issued'[results[i].claim] = results[i].receipt
                                  /\ results[i].claim # x.claim
    BY <1>6, <1>12 DEF IssuedGrows, ObservedOnce
  <2>2. \A i \in DOMAIN results' : i \in DOMAIN results \/ i = Len(results) + 1
    BY <1>8
  <2>3. \A i \in DOMAIN results' : /\ results'[i].claim \in DOMAIN issued'
                                   /\ issued'[results'[i].claim] = results'[i].receipt
    BY <1>6, <1>8, <2>1, <2>2
  <2>4. ASSUME NEW i \in DOMAIN results', NEW j \in DOMAIN results',
               Key[results'[i].receipt.of] = Key[results'[j].receipt.of]
                 \/ results'[i].claim = results'[j].claim
        PROVE  i = j
    <3>1. CASE i \in DOMAIN results /\ j \in DOMAIN results
      BY <1>8, <2>4, <3>1 DEF ObservedOnce
    <3>2. CASE i = Len(results) + 1 \/ j = Len(results) + 1
      BY <1>8, <1>12, <2>1, <2>2, <2>4, <3>2
    <3> QED BY <2>2, <3>1, <3>2
  <2> QED BY <2>3, <2>4 DEF ObservedOnce
<1>15. UncertainIsFinal'
  <2>1. \A i \in Unresolved : started[i] = r.of
    BY <1>1, <1>2, OneWorks, ObserversAssumption DEF UncertainIsFinal, Working
  <2>2. \A i \in DOMAIN started : Key[started[i]] \in Keys
    BY Element DEF ObservationTypeOK, Keys
  <2>3. Unresolved' = {}
    BY <1>1, <1>9, <2>1, <2>2 DEF Unresolved
  <2> QED BY <2>3 DEF UncertainIsFinal
<1> QED BY <1>10, <1>11, <1>13, <1>14, <1>15

LEMMA FinishStep ==
  ASSUME IInv, OInv, [Next]_envVars, NEW o \in Observers, Finish(o)
  PROVE  OInv'
<1>1. At(o, "claiming") /\ obs[o].pc \in Working
  BY DEF Finish, At, Working
<1>2. CASE GivenUp(o)
  BY <1>1, <1>2, GiveUpStep
<1> QED BY <1>1, <1>2, RecordStep DEF Finish

LEMMA EnterStep ==
  ASSUME IInv, OInv, NEW o \in Observers, Enter(o)
  PROVE  OInv'
BY EnterLock, QueueStep DEF Enter

LEMMA StopWaitingStep ==
  ASSUME IInv, OInv, [Next]_envVars, NEW o \in Observers, StopWaiting(o)
  PROVE  OInv'
<1>1. CASE At(o, "waiting")
  BY <1>1, QueueStep DEF StopWaiting
<1>2. CASE obs[o].pc \in Working
  BY <1>2, GiveUpStep DEF StopWaiting
<1> QED BY <1>1, <1>2 DEF StopWaiting, At, Working

LEMMA ObservationInitInv == ObservationInit => OInv
<1> SUFFICES ASSUME ObservationInit PROVE OInv
  OBVIOUS
<1> USE DEF ObservationInit
<1>1. NoCall \in CallRecord /\ NoCall.pc = "idle"
  BY DEF CallRecord, NoCall, Working
<1>2. [k \in Keys |-> Nothing] \in [Keys -> Envelopes \cup {Nothing}]
  OBVIOUS
<1>3. ObservationTypeOK
  BY <1>1, <1>2 DEF ObservationTypeOK
<1>4. \A o \in Observers : obs[o].pc = "idle" /\ ctl.holder # o
  BY <1>1, ObserversAssumption
<1>5. LockOK /\ ExecutingOK /\ ClaimingOK /\ FreshCall
  BY <1>4 DEF LockOK, ExecutingOK, ClaimingOK, FreshCall, At, Working
<1>6. DOMAIN results = {} /\ DOMAIN started = {}
  OBVIOUS
<1>7. ResultsRecorded /\ ObservedOnce
  BY <1>6, Zenon DEF ResultsRecorded, ObservedOnce
<1>8. UncertainIsFinal
  <2>1. Unresolved = {}
    BY <1>6 DEF Unresolved
  <2> QED BY <1>6, <2>1, Zenon DEF UncertainIsFinal
<1> QED BY <1>3, <1>5, <1>7, <1>8 DEF OInv

LEMMA ObservationStep ==
  ASSUME IInv, OInv, [ObservationNext]_<<envVars, obsVars>>
  PROVE  IInv' /\ OInv'
<1>1. [Next]_envVars
  BY ObservationUsesLab
<1>2. IInv'
  BY <1>1, NextInv
<1>3. OInv'
  BY <1>1, ObserveStep, EnterStep, StopWaitingStep, CallStep, ReturnStep, FinishStep, OthersStep
     DEF ObservationNext, ObserverStep, OtherCaller, obsVars
<1> QED BY <1>2, <1>3
-------------------------------------------------------------------------------
LEMMA ObservationInvariance == ObservationSpec => [](IInv /\ OInv)
<1>1. ObservationInit => IInv /\ OInv
  BY InitInv, ObservationInitInv DEF ObservationInit
<1>2. (IInv /\ OInv) /\ [ObservationNext]_<<envVars, obsVars>> => (IInv /\ OInv)'
  BY ObservationStep
<1> QED BY <1>1, <1>2, PTL DEF ObservationSpec

\* The controller and the other callers drive the environment only as its own
\* specification lets callers do, so what is proved of the in-process lab holds
\* under observation too (_observe_locked, execute_observed).
THEOREM ObservationImplementsLab == ObservationSpec => Spec
<1>1. ObservationInit => Init
  BY DEF ObservationInit
<1>2. (IInv /\ OInv) /\ [ObservationNext]_<<envVars, obsVars>> => [Next]_envVars
  BY ObservationUsesLab
<1> QED BY <1>1, <1>2, ObservationInvariance, PTL DEF ObservationSpec, Spec

\* Every result stands on a claim of its own and no action is observed, or even
\* started, twice; after an execution nobody can be sure of, nothing is observed any
\* more, whatever the callers retry and whoever resets the lab (observe).
THEOREM ObservationSafety == ObservationSpec => []ObservationSound
<1>1. OInv => ObservationSound
  BY DEF OInv, ObservationSound
<1> QED BY <1>1, ObservationInvariance, PTL
-------------------------------------------------------------------------------
(* The qualification drives the controller and the environment as they let  *)
(* their callers.  What it adds: its receipts are the receipts of the run,   *)
(* one by one and in their order, and those are a chain.                     *)

Points == {"open", "next", "observing", "cleanup", "ended"}

QualificationTypeOK ==
  /\ m3 \in [pc : Points, i : 1..(Len(ObservedActions) + 1), receipts : Seq(Receipts), qualified : BOOLEAN]
  /\ m3.pc \in {"open", "next", "observing"} => m3.i \in DOMAIN ObservedActions

\* The driver is the only observer, and it observes only while its loop waits for it.
DriverAlone ==
  /\ \A o \in Observers \ {Driver} : At(o, "idle")
  /\ m3.pc # "observing" => At(Driver, "idle")
  /\ obs[Driver].pc \in Working => ~ctl.poisoned

\* Before its root is opened nothing has happened in the environment.
Untouched == m3.pc = "open" => receipts = <<>>

\* What is cached in an open run is one of its receipts.
CacheIsReceipts ==
  env.active => \A x \in Keys : env.cache[x] # Nothing =>
    \E j \in DOMAIN receipts : Key[receipts[j].of] = x

\* The results report the receipts of the run one by one: the newest receipt is the
\* one that is being claimed, unless the controller was given up.
ResultsAreReceipts ==
  /\ \A j \in DOMAIN results : j \in DOMAIN receipts /\ results[j].receipt = receipts[j]
  /\ IF At(Driver, "claiming")
     THEN Len(receipts) = Len(results) + 1 /\ obs[Driver].receipt = receipts[Len(receipts)]
     ELSE ctl.poisoned \/ Len(receipts) = Len(results)

\* The loop took the results in their order, each for the action it stands for.
LoopFollows ==
  /\ Len(m3.receipts) = m3.i - 1
  /\ \A j \in DOMAIN m3.receipts :
       /\ j \in DOMAIN results /\ results[j].receipt = m3.receipts[j]
       /\ m3.receipts[j].of = ObservedActions[j]
  /\ m3.qualified => Len(m3.receipts) = Len(ObservedActions)

QInv == /\ QualificationTypeOK /\ DriverAlone /\ Untouched /\ CacheIsReceipts
        /\ ResultsAreReceipts /\ LoopFollows

\* Whatever the qualification does, an observer or another caller may do.
LEMMA QualificationUsesObservation ==
  ASSUME QInv, [QualificationNext]_m3Vars
  PROVE  [ObservationNext]_<<envVars, obsVars>>
<1>1. Driver \in Observers
  BY DriverAssumption
<1>2. CASE OpenRoot
  BY <1>2 DEF OpenRoot, ObservationNext, OtherCaller
<1>3. CASE ObserveNext
  <2>1. m3.i \in DOMAIN ObservedActions
    BY <1>3 DEF ObserveNext, M3At, QInv, QualificationTypeOK
  <2>2. ObservedActions[m3.i] \in Envelopes
    BY <2>1, DriverAssumption
  <2> QED BY <1>1, <1>3, <2>2 DEF ObserveNext, ObservationNext, ObserverStep
<1>4. CASE TakeResult
  BY <1>4 DEF TakeResult
<1>5. CASE CleanUpRoot
  BY <1>5 DEF CleanUpRoot, ObservationNext, OtherCaller
<1>6. CASE DriverCall
  BY <1>1, <1>6 DEF DriverCall, ObservationNext, ObserverStep
<1>7. CASE TaskStep /\ UNCHANGED <<m3, obsVars>>
  BY <1>7 DEF ObservationNext
<1>8. CASE UNCHANGED m3Vars
  BY <1>8 DEF m3Vars
<1> QED BY <1>2, <1>3, <1>4, <1>5, <1>6, <1>7, <1>8 DEF QualificationNext, DriverStep

LEMMA QualificationInitInv == QualificationInit => QInv
<1> SUFFICES ASSUME QualificationInit PROVE QInv
  OBVIOUS
<1> USE DEF QualificationInit, ObservationInit
<1>1. \A o \in Observers : At(o, "idle")
  BY DEF At, NoCall
<1>2. 1 \in DOMAIN ObservedActions
  BY DriverAssumption
<1>3. QualificationTypeOK
  BY <1>2 DEF QualificationTypeOK, Points
<1>4. DriverAlone
  BY <1>1, DriverAssumption DEF DriverAlone, At, Working
<1>5. Untouched /\ CacheIsReceipts
  BY DEF Untouched, CacheIsReceipts, Init
<1>6. receipts = <<>> /\ results = <<>> /\ ~At(Driver, "claiming")
  BY <1>1, DriverAssumption DEF Init, At
<1>7. ResultsAreReceipts
  BY <1>6 DEF ResultsAreReceipts
<1>8. LoopFollows
  BY DEF LoopFollows
<1> QED BY <1>3, <1>4, <1>5, <1>7, <1>8 DEF QInv

\* What the calls of the controller leave alone.
LEMMA QuietStep ==
  ASSUME QInv, UNCHANGED <<m3, obs, ctl, results>>,
         UNCHANGED receipts, UNCHANGED env.cache, env'.active => env.active
  PROVE  QInv'
<1>1. QualificationTypeOK' /\ Untouched' /\ LoopFollows'
  BY DEF QInv, QualificationTypeOK, Untouched, LoopFollows
<1>2. DriverAlone'
  BY DEF QInv, DriverAlone, At
<1>3. ResultsAreReceipts'
  BY DEF QInv, ResultsAreReceipts, At
<1>4. CacheIsReceipts'
  BY DEF QInv, CacheIsReceipts
<1> QED BY <1>1, <1>2, <1>3, <1>4 DEF QInv

LEMMA OpenRootStep == ASSUME IInv, OInv, QInv, OpenRoot PROVE QInv'
<1>1. receipts = <<>> /\ receipts' = <<>> /\ UNCHANGED obsVars
  BY DEF OpenRoot, M3At, QInv, Untouched, Reset, Activate
<1>2. env'.cache = NoCache
  BY DEF OpenRoot, Reset, Activate, Cleared, Recovered, IInv, EnvTypeOK
<1>3. m3' = [m3 EXCEPT !.pc = "next"] /\ m3.pc = "open"
  BY DEF OpenRoot, M3At
<1>4. QualificationTypeOK'
  BY <1>3 DEF QInv, QualificationTypeOK, Points
<1>5. UNCHANGED <<m3.i, m3.receipts, m3.qualified>> /\ m3'.pc = "next"
  BY <1>3 DEF QInv, QualificationTypeOK
<1>6. DriverAlone' /\ Untouched'
  BY <1>1, <1>3, <1>5 DEF QInv, DriverAlone, Untouched, At, obsVars
<1>7. CacheIsReceipts'
  BY <1>2 DEF CacheIsReceipts, NoCache
<1>8. ResultsAreReceipts'
  BY <1>1 DEF QInv, ResultsAreReceipts, At, obsVars
<1>9. LoopFollows'
  BY <1>1, <1>5 DEF QInv, LoopFollows, obsVars
<1> QED BY <1>4, <1>6, <1>7, <1>8, <1>9 DEF QInv

LEMMA ObserveNextStep == ASSUME IInv, OInv, QInv, ObserveNext PROVE QInv'
<1>1. UNCHANGED <<envVars, results, started>> /\ At(Driver, "idle")
      /\ ctl' = [ctl EXCEPT !.calls = @ + 1]
      /\ obs' = [obs EXCEPT ![Driver] = [NoCall EXCEPT !.pc = "waiting",
                                           !.of = ObservedActions[m3.i]]]
  BY DEF ObserveNext, Observe
<1>2. m3' = [m3 EXCEPT !.pc = "observing"] /\ m3.pc = "next"
  BY DEF ObserveNext, M3At
<1>3. QualificationTypeOK'
  BY <1>2 DEF QInv, QualificationTypeOK, Points
<1>4. UNCHANGED <<m3.i, m3.receipts, m3.qualified>> /\ m3'.pc = "observing"
  BY <1>2 DEF QInv, QualificationTypeOK
<1>5. UNCHANGED ctl.poisoned
  BY <1>1 DEF OInv, ObservationTypeOK
<1>6. obs'[Driver].pc = "waiting" /\ \A o \in Observers \ {Driver} : obs'[o] = obs[o]
  BY <1>1, DriverAssumption DEF OInv, ObservationTypeOK, NoCall
<1>7. DriverAlone' /\ Untouched'
  BY <1>4, <1>5, <1>6 DEF QInv, DriverAlone, Untouched, At, Working
<1>8. CacheIsReceipts'
  BY <1>1 DEF QInv, CacheIsReceipts, envVars
<1>9. ResultsAreReceipts'
  BY <1>1, <1>5, <1>6 DEF QInv, ResultsAreReceipts, At, envVars
<1>10. LoopFollows'
  BY <1>1, <1>4 DEF QInv, LoopFollows
<1> QED BY <1>3, <1>7, <1>8, <1>9, <1>10 DEF QInv

LEMMA TakeResultStep == ASSUME IInv, OInv, QInv, TakeResult PROVE QInv'
<1>1. UNCHANGED <<envVars, obsVars>> /\ m3.pc = "observing" /\ At(Driver, "idle")
  BY DEF TakeResult, M3At
<1>2. m3.i \in DOMAIN ObservedActions /\ Len(m3.receipts) = m3.i - 1
      /\ m3.receipts \in Seq(Receipts) /\ m3.i \in Nat \ {0}
  BY <1>1 DEF QInv, QualificationTypeOK, LoopFollows
<1>3. results \in Seq([receipt : Receipts, claim : Nat])
  BY DEF OInv, ObservationTypeOK
<1>4. CacheIsReceipts' /\ ResultsAreReceipts'
  BY <1>1 DEF QInv, CacheIsReceipts, ResultsAreReceipts, At, envVars, obsVars
<1>5. CASE Qualified
  <2> DEFINE r == results[Len(results)].receipt
             pc == IF m3.i = Len(ObservedActions) THEN "cleanup" ELSE "next"
             n == [m3 EXCEPT !.receipts = Append(@, r), !.i = @ + 1, !.pc = pc]
  <2>1. m3' = n
    BY <1>5 DEF TakeResult
  <2>2. Len(results) = m3.i /\ r.of = ObservedActions[m3.i] /\ r \in Receipts
    <3>1. Len(results) = m3.i /\ results[m3.i].receipt.of = ObservedActions[m3.i]
      BY <1>5 DEF Qualified, Qualifies
    <3>2. results[m3.i] \in [receipt : Receipts, claim : Nat]
      <4>1. m3.i \in DOMAIN results
        BY <1>2, <1>3, <3>1
      <4> QED BY <1>3, <4>1, Element
    <3> QED BY <3>1, <3>2
  <2>3. pc \in {"cleanup", "next"}
    OBVIOUS
  <2>4. n.pc = pc /\ n.i = m3.i + 1 /\ n.receipts = Append(m3.receipts, r)
        /\ n.qualified = m3.qualified
    BY DEF QInv, QualificationTypeOK
  <2>5. Append(m3.receipts, r) \in Seq(Receipts)
    BY <1>2, <2>2
  <2>6. n \in [pc : Points, i : 1..(Len(ObservedActions) + 1), receipts : Seq(Receipts),
                           qualified : BOOLEAN]
    <3> HIDE DEF r, pc
    <3>1. m3.i + 1 \in 1..(Len(ObservedActions) + 1) /\ pc \in Points
      BY <1>2, <2>3, DriverAssumption DEF Points
    <3> QED BY <2>5, <3>1, ZenonT(60) DEF QInv, QualificationTypeOK
  <2>7. pc = "next" => m3.i + 1 \in DOMAIN ObservedActions
    BY <1>2, DriverAssumption
  <2> HIDE DEF n
  <2>8. QualificationTypeOK'
    BY <2>1, <2>3, <2>4, <2>6, <2>7 DEF QualificationTypeOK
  <2>9. DriverAlone' /\ Untouched'
    BY <1>1, <2>1, <2>3, <2>4 DEF QInv, DriverAlone, Untouched, At, obsVars
  <2>10. ~m3.qualified
    BY <1>2, DriverAssumption DEF QInv, LoopFollows
  <2>11. LoopFollows'
    <3> HIDE DEF r
    <3>0. m3'.receipts = Append(m3.receipts, r) /\ m3'.i = m3.i + 1 /\ ~m3'.qualified
      BY <2>1, <2>4, <2>10
    <3>1. Len(m3'.receipts) = m3'.i - 1
      BY <3>0, <1>2, <2>2
    <3>2. ASSUME NEW j \in DOMAIN m3'.receipts
          PROVE  j \in DOMAIN results /\ results[j].receipt = m3'.receipts[j]
                 /\ m3'.receipts[j].of = ObservedActions[j]
      <4>1. CASE j = m3.i
        BY <1>2, <1>3, <2>2, <3>0, <4>1 DEF r
      <4>2. CASE j # m3.i
        <5>1. j \in DOMAIN m3.receipts /\ m3'.receipts[j] = m3.receipts[j]
          BY <1>2, <2>2, <3>0, <4>2
        <5> QED BY <5>1 DEF QInv, LoopFollows
      <4> QED BY <4>1, <4>2
    <3> QED BY <1>1, <3>0, <3>1, <3>2 DEF LoopFollows, obsVars
  <2> QED BY <1>4, <2>8, <2>9, <2>11 DEF QInv
<1>6. CASE ~Qualified
  <2>1. m3' = [m3 EXCEPT !.pc = "cleanup"]
    BY <1>6 DEF TakeResult
  <2>2. UNCHANGED <<m3.i, m3.receipts, m3.qualified>> /\ m3'.pc = "cleanup"
    BY <2>1 DEF QInv, QualificationTypeOK
  <2>3. QualificationTypeOK'
    BY <2>1 DEF QInv, QualificationTypeOK, Points
  <2>4. DriverAlone' /\ Untouched'
    BY <1>1, <2>2 DEF QInv, DriverAlone, Untouched, At, obsVars
  <2>5. LoopFollows'
    BY <1>1, <2>2 DEF QInv, LoopFollows, obsVars
  <2> QED BY <1>4, <2>3, <2>4, <2>5 DEF QInv
<1> QED BY <1>5, <1>6

LEMMA CleanUpRootStep == ASSUME IInv, OInv, QInv, CleanUpRoot PROVE QInv'
<1>1. UNCHANGED <<obsVars, receipts>> /\ m3.pc = "cleanup"
  BY DEF CleanUpRoot, M3At, Cleanup, envVars
<1>2. PICK q \in BOOLEAN : m3' = [m3 EXCEPT !.pc = "ended", !.qualified = q]
                           /\ (q => Len(m3.receipts) = Len(ObservedActions))
  <2>1. m3.qualified \in BOOLEAN
        /\ [m3 EXCEPT !.pc = "ended"] = [m3 EXCEPT !.pc = "ended", !.qualified = m3.qualified]
    BY DEF QInv, QualificationTypeOK
  <2> QED BY <2>1 DEF CleanUpRoot, QInv, LoopFollows
<1>3. m3'.pc = "ended" /\ m3'.qualified = q /\ UNCHANGED <<m3.i, m3.receipts>>
  BY <1>2 DEF QInv, QualificationTypeOK
<1>4. m3' \in [pc : Points, i : 1..(Len(ObservedActions) + 1), receipts : Seq(Receipts),
                           qualified : BOOLEAN]
  BY <1>2, ZenonT(60) DEF QInv, QualificationTypeOK, Points
<1>5. QualificationTypeOK'
  BY <1>3, <1>4 DEF QualificationTypeOK
<1>6. DriverAlone' /\ Untouched'
  BY <1>1, <1>3 DEF QInv, DriverAlone, Untouched, At, obsVars, CleanUpRoot, M3At
<1>7. CacheIsReceipts'
  <2>1. CASE Cleanup
    <3>1. ~env'.active
      BY <2>1 DEF Cleanup, Cleared, Recovered, IInv, EnvTypeOK
    <3> QED BY <3>1 DEF CacheIsReceipts
  <2>2. CASE UNCHANGED envVars
    BY <2>2 DEF QInv, CacheIsReceipts, envVars
  <2> QED BY <2>1, <2>2 DEF CleanUpRoot
<1>8. ResultsAreReceipts'
  BY <1>1 DEF QInv, ResultsAreReceipts, At, obsVars
<1>9. LoopFollows'
  BY <1>1, <1>2, <1>3 DEF QInv, LoopFollows, obsVars
<1> QED BY <1>5, <1>6, <1>7, <1>8, <1>9 DEF QInv

\* A call of the driver leaves the loop alone and only adds to the results.
LEMMA LoopWaits ==
  ASSUME OInv, QInv, m3.pc = "observing", UNCHANGED m3,
         \A j \in DOMAIN results : j \in DOMAIN results' /\ results'[j] = results[j],
         \A o \in Observers \ {Driver} : obs'[o] = obs[o],
         obs'[Driver].pc \in Working => ~ctl'.poisoned
  PROVE  QualificationTypeOK' /\ DriverAlone' /\ Untouched' /\ LoopFollows'
<1>1. QualificationTypeOK' /\ Untouched'
  BY DEF QInv, QualificationTypeOK, Untouched
<1>2. DriverAlone'
  BY DEF QInv, DriverAlone, At
<1>3. LoopFollows'
  BY DEF QInv, LoopFollows
<1> QED BY <1>1, <1>2, <1>3

\* The call ends without a result: the controller is poisoned, or nothing happened.
LEMMA GiveUpQualification ==
  ASSUME IInv, OInv, QInv, m3.pc = "observing", UNCHANGED m3, GivenUp(Driver),
         UNCHANGED receipts, env'.active => env.active /\ env'.cache = env.cache
  PROVE  QInv'
<1>1. obs'[Driver].pc = "idle" /\ \A o \in Observers \ {Driver} : obs'[o] = obs[o]
  BY DriverAssumption DEF GivenUp, NoCall, OInv, ObservationTypeOK
<1>2. ctl'.poisoned /\ UNCHANGED results
  BY DEF GivenUp, OInv, ObservationTypeOK
<1>3. QualificationTypeOK' /\ DriverAlone' /\ Untouched' /\ LoopFollows'
  BY <1>1, <1>2, LoopWaits DEF Working
<1>4. CacheIsReceipts'
  BY DEF QInv, CacheIsReceipts
<1>5. ResultsAreReceipts'
  BY <1>1, <1>2 DEF QInv, ResultsAreReceipts, At
<1> QED BY <1>3, <1>4, <1>5 DEF QInv

LEMMA EnterQualification ==
  ASSUME IInv, OInv, QInv, m3.pc = "observing", UNCHANGED m3, Enter(Driver)
  PROVE  QInv'
<1>1. UNCHANGED <<receipts, results, env>> /\ obs[Driver].pc = "waiting"
  BY DEF Enter, envVars, Rejected, At
<1>2. \/ obs' = [obs EXCEPT ![Driver].pc = "calling"] /\ ~ctl.poisoned
         /\ ctl' = [ctl EXCEPT !.holder = Driver]
      \/ obs' = [obs EXCEPT ![Driver] = NoCall] /\ UNCHANGED ctl
  BY DEF Enter, Rejected
<1>3. /\ obs'[Driver].pc \in {"calling", "idle"}
      /\ obs'[Driver].pc = "calling" => ~ctl.poisoned
      /\ \A o \in Observers \ {Driver} : obs'[o] = obs[o]
  BY <1>2, DriverAssumption DEF NoCall, OInv, ObservationTypeOK, CallRecord
<1>4. UNCHANGED ctl.poisoned
  BY <1>2 DEF OInv, ObservationTypeOK
<1>5. QualificationTypeOK' /\ DriverAlone' /\ Untouched' /\ LoopFollows'
  BY <1>1, <1>3, <1>4, LoopWaits DEF Working
<1>6. CacheIsReceipts'
  BY <1>1 DEF QInv, CacheIsReceipts
<1>7. ResultsAreReceipts'
  BY <1>1, <1>3, <1>4 DEF QInv, ResultsAreReceipts, At
<1> QED BY <1>5, <1>6, <1>7 DEF QInv

\* No receipt of the run is there for the action that is called: each of them was
\* reported, and what was reported is not called again.
LEMMA NothingToRepeat ==
  ASSUME IInv, OInv, QInv, At(Driver, "calling"), env.active
  PROVE  ~Known(obs[Driver].of)
<1> SUFFICES ASSUME Known(obs[Driver].of) PROVE FALSE
  OBVIOUS
<1>1. obs[Driver].of \in Envelopes
  BY DriverAssumption DEF At, OInv, ObservationTypeOK
<1>2. Key[obs[Driver].of] \in Keys
  BY <1>1 DEF Keys
<1>3. PICK j \in DOMAIN receipts : Key[receipts[j].of] = Key[obs[Driver].of]
  BY <1>2 DEF Known, QInv, CacheIsReceipts
<1>4. Len(receipts) = Len(results)
  BY DriverAssumption DEF At, Working, QInv, DriverAlone, ResultsAreReceipts
<1>5. j \in DOMAIN results
  BY <1>3, <1>4 DEF IInv, EnvTypeOK, OInv, ObservationTypeOK
<1>6. results[j].receipt = receipts[j]
  BY <1>5 DEF QInv, ResultsAreReceipts
<1>7. ctl.ledger[Key[obs[Driver].of]] # Nothing
  BY <1>3, <1>5, <1>6 DEF OInv, ResultsRecorded
<1> QED BY <1>7, DriverAssumption DEF OInv, FreshCall, At, Working

LEMMA CallQualification ==
  ASSUME IInv, OInv, QInv, m3.pc = "observing", UNCHANGED m3, Call(Driver)
  PROVE  QInv'
<1>1. At(Driver, "calling")
  BY DEF Call
<1>2. CASE Repeat(obs[Driver].of)
  BY <1>1, <1>2, NothingToRepeat DEF Repeat
<1>3. CASE Reserve(obs[Driver].of) /\ Holding(Driver, "executing", Nothing)
  <2>1. UNCHANGED <<receipts, results, ctl>> /\ UNCHANGED <<env.cache, env.active>>
    BY <1>3 DEF Reserve, Holding, IInv, EnvTypeOK
  <2>2. obs'[Driver].pc = "executing" /\ \A o \in Observers \ {Driver} : obs'[o] = obs[o]
    BY <1>3, DriverAssumption DEF Holding, OInv, ObservationTypeOK, CallRecord
  <2>3. ~ctl.poisoned
    BY <1>1, DriverAssumption DEF At, Working, QInv, DriverAlone
  <2>4. QualificationTypeOK' /\ DriverAlone' /\ Untouched' /\ LoopFollows'
    BY <2>1, <2>2, <2>3, LoopWaits
  <2>5. CacheIsReceipts'
    BY <2>1 DEF QInv, CacheIsReceipts
  <2>6. ResultsAreReceipts'
    BY <1>1, <2>1, <2>2, <2>3 DEF QInv, ResultsAreReceipts, At
  <2> QED BY <2>4, <2>5, <2>6 DEF QInv
<1>4. CASE GivenUp(Driver) /\ UNCHANGED envVars
  BY <1>4, GiveUpQualification DEF envVars
<1> QED BY <1>2, <1>3, <1>4 DEF Call

LEMMA ReturnQualification ==
  ASSUME IInv, OInv, QInv, m3.pc = "observing", UNCHANGED m3, Return(Driver)
  PROVE  QInv'
<1>0. At(Driver, "executing") /\ Driver \in Observers
  BY DriverAssumption DEF Return
<1>1. CASE Commit /\ Holding(Driver, "claiming", env'.cache[Key[obs[Driver].of]])
  <2> DEFINE r == [run |-> env.run, of |-> Task.of, before |-> Task.before, after |-> lab]
  <2>1. env.phase = "executing" /\ receipts' = Append(receipts, r)
        /\ env' = [Recovered(env) EXCEPT !.cache[Key[r.of]] = r, !.last = r.of]
    BY <1>1 DEF Commit
  <2>2. Task \in TaskRecord /\ tasks = {Task} /\ Task.of = obs[Driver].of
    BY <1>0, <2>1, TaskIsIt DEF IInv, OInv, ExecutingOK
  <2>3. r \in Receipts /\ r.of = obs[Driver].of
    BY <2>2 DEF IInv, EnvTypeOK, TaskRecord, Receipts
  <2>4. Key[r.of] \in Keys
    BY <2>3, ReceiptParts
  <2> HIDE DEF r
  <2>5. env'.cache = [env.cache EXCEPT ![Key[r.of]] = r] /\ env'.active = env.active
    BY <2>1 DEF Recovered, IInv, EnvTypeOK
  <2>6. env'.cache[Key[r.of]] = r
    BY <2>4, <2>5 DEF IInv, EnvTypeOK
  <2>7. obs'[Driver].pc = "claiming" /\ obs'[Driver].receipt = r
        /\ \A o \in Observers \ {Driver} : obs'[o] = obs[o]
    BY <1>0, <1>1, <2>3, <2>6 DEF Holding, OInv, ObservationTypeOK, CallRecord
  <2>8. UNCHANGED <<results, ctl>> /\ ~ctl.poisoned
    BY <1>0, <1>1 DEF Holding, At, Working, QInv, DriverAlone
  <2>9. QualificationTypeOK' /\ DriverAlone' /\ Untouched' /\ LoopFollows'
    BY <2>7, <2>8, LoopWaits
  <2>10. receipts \in Seq(Receipts)
    BY DEF IInv, EnvTypeOK
  <2>11. /\ Len(receipts') = Len(receipts) + 1 /\ receipts'[Len(receipts')] = r
         /\ Len(receipts') \in DOMAIN receipts'
         /\ \A j \in DOMAIN receipts : j \in DOMAIN receipts' /\ receipts'[j] = receipts[j]
    BY <2>1, <2>3, <2>10
  <2>12. CacheIsReceipts'
    <3> SUFFICES ASSUME env'.active, NEW x \in Keys, env'.cache[x] # Nothing
                 PROVE  \E j \in DOMAIN receipts' : Key[receipts'[j].of] = x
      BY DEF CacheIsReceipts
    <3>1. CASE x = Key[r.of]
      BY <2>11, <3>1
    <3>2. CASE x # Key[r.of]
      <4>1. env.active /\ env.cache[x] # Nothing
        BY <2>5, <3>2 DEF IInv, EnvTypeOK
      <4> QED BY <2>11, <4>1 DEF QInv, CacheIsReceipts
    <3> QED BY <3>1, <3>2
  <2>13. Len(receipts) = Len(results)
    BY <1>0, <2>8 DEF At, QInv, ResultsAreReceipts
  <2>14. ResultsAreReceipts'
    BY <2>7, <2>8, <2>11, <2>13 DEF QInv, ResultsAreReceipts, At
  <2> QED BY <2>9, <2>12, <2>14 DEF QInv
<1>2. CASE (Fail \/ Timeout \/ Abandon) /\ GivenUp(Driver)
  <2>1. UNCHANGED receipts /\ ~env'.active
    BY <1>2 DEF Fail, Timeout, Abandon, Poison, IInv, EnvTypeOK
  <2> QED BY <1>2, <2>1, GiveUpQualification
<1> QED BY <1>1, <1>2 DEF Return

LEMMA FinishQualification ==
  ASSUME IInv, OInv, QInv, m3.pc = "observing", UNCHANGED m3, Finish(Driver)
  PROVE  QInv'
<1> DEFINE r == obs[Driver].receipt
<1>0. At(Driver, "claiming") /\ Driver \in Observers
  BY DriverAssumption DEF Finish
<1>1. Len(receipts) = Len(results) + 1 /\ r = receipts[Len(receipts)]
  BY <1>0 DEF QInv, ResultsAreReceipts
<1>2. ASSUME Claim(r)
      PROVE  UNCHANGED receipts /\ UNCHANGED <<env.active, env.cache>>
  BY <1>2 DEF Claim, IInv, EnvTypeOK
<1>3. CASE Claim(r) /\ obs' = [obs EXCEPT ![Driver] = NoCall]
           /\ Record(Driver, [receipt |-> r, claim |-> Len(issued')])
  <2>1. obs'[Driver].pc = "idle" /\ \A o \in Observers \ {Driver} : obs'[o] = obs[o]
    BY <1>0, <1>3 DEF NoCall, OInv, ObservationTypeOK
  <2>2. results \in Seq([receipt : Receipts, claim : Nat])
    BY DEF OInv, ObservationTypeOK
  <2> DEFINE n == [receipt |-> r, claim |-> Len(issued')]
  <2>3. results' = Append(results, n) /\ n.receipt = r
    BY <1>3 DEF Record
  <2> HIDE DEF n
  <2>4. /\ Len(results') = Len(results) + 1 /\ results'[Len(results')] = n
        /\ \A j \in DOMAIN results : j \in DOMAIN results' /\ results'[j] = results[j]
        /\ \A j \in DOMAIN results' : j \in DOMAIN results \/ j = Len(results')
    BY <2>2, <2>3
  <2>5. QualificationTypeOK' /\ DriverAlone' /\ Untouched' /\ LoopFollows'
    BY <2>1, <2>4, LoopWaits DEF Working
  <2>6. CacheIsReceipts'
    BY <1>2, <1>3 DEF QInv, CacheIsReceipts
  <2>7. ~At(Driver, "claiming")' /\ Len(receipts') = Len(results')
    BY <1>1, <1>2, <1>3, <2>1, <2>4 DEF At
  <2>8. Len(receipts') \in DOMAIN receipts'
    BY <1>1, <1>2, <1>3, <2>2 DEF IInv, EnvTypeOK
  <2>9. ResultsAreReceipts'
    BY <1>1, <1>2, <1>3, <2>3, <2>4, <2>7, <2>8 DEF QInv, ResultsAreReceipts
  <2> QED BY <2>5, <2>6, <2>9 DEF QInv
<1>4. CASE GivenUp(Driver) /\ (Claim(r) \/ UNCHANGED envVars)
  <2>1. UNCHANGED receipts /\ UNCHANGED <<env.active, env.cache>>
    BY <1>2, <1>4 DEF envVars
  <2> QED BY <1>4, <2>1, GiveUpQualification
<1> QED BY <1>3, <1>4 DEF Finish

LEMMA QualificationStep ==
  ASSUME IInv, OInv, QInv, [QualificationNext]_m3Vars
  PROVE  IInv' /\ OInv' /\ QInv'
<1>1. [ObservationNext]_<<envVars, obsVars>>
  BY QualificationUsesObservation
<1>2. IInv' /\ OInv'
  BY <1>1, ObservationStep
<1>3. CASE DriverCall
  <2>1. UNCHANGED m3 /\ obs[Driver].pc # "idle"
    BY <1>3 DEF DriverCall, Enter, StopWaiting, Call, Return, Finish, At
  <2>2. m3.pc = "observing"
    BY <2>1 DEF QInv, DriverAlone, At
  <2>3. CASE StopWaiting(Driver)
    BY <1>2, <2>1, <2>2, <2>3, GiveUpQualification DEF StopWaiting, envVars
  <2> QED BY <1>2, <1>3, <2>1, <2>2, <2>3, EnterQualification, CallQualification,
             ReturnQualification, FinishQualification DEF DriverCall
<1>4. CASE TaskStep /\ UNCHANGED <<m3, obsVars>>
  <2>1. UNCHANGED <<env, receipts>>
    BY <1>4 DEF TaskStep, Effect, Settle
  <2> QED BY <1>2, <1>4, <2>1, QuietStep DEF obsVars
<1>5. CASE UNCHANGED m3Vars
  BY <1>2, <1>5, QuietStep DEF m3Vars, envVars, obsVars
<1>6. QInv'
  BY <1>3, <1>4, <1>5, OpenRootStep, ObserveNextStep, TakeResultStep, CleanUpRootStep
     DEF QualificationNext, DriverStep
<1> QED BY <1>2, <1>6

\* The receipts the loop has taken are a chain of the actions, and claimed.
LEMMA LoopIsChain ==
  ASSUME IInv, OInv, QInv, NEW i \in DOMAIN m3.receipts
  PROVE  /\ m3.receipts[i].before = SubSeq(ObservedActions, 1, i - 1)
         /\ m3.receipts[i].after = SubSeq(ObservedActions, 1, i)
         /\ m3.receipts[i] \in {issued[j] : j \in DOMAIN issued}
<1>1. m3.receipts \in Seq(Receipts) /\ receipts \in Seq(Receipts)
      /\ ObservedActions \in Seq(Envelopes)
  BY DriverAssumption DEF IInv, EnvTypeOK, QInv, QualificationTypeOK
<1>2. \A j \in DOMAIN m3.receipts :
        /\ j \in DOMAIN results /\ j \in DOMAIN receipts
        /\ m3.receipts[j] = receipts[j] /\ m3.receipts[j] = results[j].receipt
        /\ receipts[j].of = ObservedActions[j]
  BY DEF QInv, LoopFollows, ResultsAreReceipts
<1>3. Len(m3.receipts) <= Len(ObservedActions)
  BY DEF QInv, LoopFollows, QualificationTypeOK
<1>4. ASSUME NEW j \in DOMAIN m3.receipts
      PROVE  receipts[j].after = SubSeq(ObservedActions, 1, j)
  <2>1. \A n \in 1..j : n \in DOMAIN m3.receipts
    BY <1>1
  <2>2. \A n \in 1..j : receipts[n].of = ObservedActions[n]
    BY <1>2, <2>1
  <2>3. receipts[j].after = [n \in 1..j |-> receipts[n].of]
    BY <1>2 DEF IInv, ReceiptsEnd
  <2>4. receipts[j].after = [n \in 1..j |-> ObservedActions[n]]
    BY <2>2, <2>3
  <2>5. j \in 1..Len(ObservedActions)
    BY <1>1, <1>3
  <2> QED BY <1>1, <2>4, <2>5
<1>5. receipts[i].before = SubSeq(ObservedActions, 1, i - 1)
  <2>1. receipts[i].before = IF i = 1 THEN <<>> ELSE receipts[i - 1].after
    BY <1>2 DEF IInv, ReceiptsChain
  <2>2. CASE i = 1
    BY <1>1, <2>1, <2>2
  <2>3. CASE i # 1
    <3>1. i - 1 \in DOMAIN m3.receipts
      BY <1>1, <2>3
    <3> QED BY <1>4, <2>1, <2>3, <3>1
  <2> QED BY <2>2, <2>3
<1>6. m3.receipts[i] \in {issued[j] : j \in DOMAIN issued}
  BY <1>2 DEF OInv, ObservedOnce
<1> QED BY <1>2, <1>4, <1>5, <1>6
-------------------------------------------------------------------------------
LEMMA QualificationInvariance == QualificationSpec => [](IInv /\ OInv /\ QInv)
<1>1. QualificationInit => IInv /\ OInv /\ QInv
  BY InitInv, ObservationInitInv, QualificationInitInv DEF QualificationInit, ObservationInit
<1>2. (IInv /\ OInv /\ QInv) /\ [QualificationNext]_m3Vars => (IInv /\ OInv /\ QInv)'
  BY QualificationStep
<1> QED BY <1>1, <1>2, PTL DEF QualificationSpec

\* The qualification drives the controller only as an observer may, so what is
\* proved of observation, and of the lab under it, holds of the qualification
\* (_execute_runtime_qualifications).
THEOREM QualificationImplementsObservation == QualificationSpec => ObservationSpec
<1>1. QualificationInit => ObservationInit
  BY DEF QualificationInit
<1>2. (IInv /\ OInv /\ QInv) /\ [QualificationNext]_m3Vars
        => [ObservationNext]_<<envVars, obsVars>>
  BY QualificationUsesObservation
<1> QED BY <1>1, <1>2, QualificationInvariance, PTL DEF QualificationSpec, ObservationSpec

\* A qualification is the whole chain of the actions, in their order, from the clean
\* root, each observed from the state the one before it left and claimed, for any
\* chain and whatever calls fail or are given up (_execute_runtime_qualifications).
THEOREM QualificationSafety == QualificationSpec => []QualifiedChain
<1>1. IInv /\ OInv /\ QInv => QualifiedChain
  <2> SUFFICES ASSUME IInv, OInv, QInv, m3.qualified, NEW i \in DOMAIN ObservedActions
               PROVE  /\ m3.receipts[i].before = SubSeq(ObservedActions, 1, i - 1)
                      /\ m3.receipts[i].after = SubSeq(ObservedActions, 1, i)
                      /\ m3.receipts[i] \in {issued[j] : j \in DOMAIN issued}
    BY DEF QualifiedChain
  <2>1. Len(m3.receipts) = Len(ObservedActions) /\ m3.receipts \in Seq(Receipts)
    BY DEF QInv, LoopFollows, QualificationTypeOK
  <2>2. i \in DOMAIN m3.receipts
    BY <2>1, DriverAssumption
  <2> QED BY <2>2, LoopIsChain
<1> QED BY <1>1, QualificationInvariance, PTL
-------------------------------------------------------------------------------
(* The replay kernel.  First its data: the prefixes of the plan, and the shapes *)
(* of what it reports.                                                          *)

StepResults ==
  [id : Ids, status : {"passed", "failed", "skipped"},
   before : States \cup {Nothing}, after : States \cup {Nothing}]

ReplayRecord ==
  [pc : {"idle", "reset", "before", "execute", "wait", "after", "recover", "cleanup"},
   root : Roots \cup {Nothing}, i : 0..Len(plan), steps : Seq(StepResults), status : Statuses,
   failed : Ids \cup {Nothing}, before : States \cup {Nothing},
   rootAt : States \cup {Nothing}, final : States \cup {Nothing}, cancelled : BOOLEAN]

PlanOK == plan \in Plans /\ verdict \in [DOMAIN plan -> Verdicts]

PassedStep(i) == Result(plan[i], "passed", Prefix(i - 1), Prefix(i))

\* The result of step i when it failed.
FailedStep(s, i) ==
  /\ s.id = plan[i] /\ s.status = "failed" /\ s.before = Prefix(i - 1)
  /\ s.after \in {Prefix(i), Prefix(i - 1), Nothing}

\* The three ways a replay may end: at a boundary, at a step, or at the end.
AtBoundary(steps, status, failed) ==
  \E id \in {"preflight", "root", "environment"} :
    /\ Len(steps) = 1 /\ steps[1].id = id /\ steps[1].status = "failed" /\ failed = id
    /\ status = IF id = "root" THEN "root_diverged" ELSE "failed"

AtStep(steps, status, failed) ==
  /\ Len(steps) = Len(plan) /\ status = "failed"
  /\ \E i \in 1..Len(plan) :
       /\ failed = plan[i] /\ FailedStep(steps[i], i)
       /\ \A j \in 1..i-1 : steps[j] = PassedStep(j)
       /\ \A j \in i+1..Len(plan) : steps[j] = Skipped(j)

AtEnd(steps, status, failed, root, final) ==
  /\ Len(steps) = Len(plan) /\ status = "succeeded" /\ failed = Nothing
  /\ root = <<>> /\ final = plan
  /\ \A j \in 1..Len(plan) : steps[j] = PassedStep(j) /\ verdict[j] = "allowed"

Outcome(steps, status, failed, root, final) ==
  /\ steps \in Seq(StepResults)
  /\ \/ AtBoundary(steps, status, failed)
     \/ AtStep(steps, status, failed)
     \/ AtEnd(steps, status, failed, root, final)

\* What the plan is made of.
LEMMA PlanParts ==
  ASSUME PlanOK
  PROVE  /\ plan \in Seq(Envelopes) /\ DOMAIN plan = 1..Len(plan) /\ Len(plan) \in Nat \ {0}
         /\ \A i \in 1..Len(plan) : /\ plan[i] \in Envelopes /\ plan[i] \in StepIds
                                    /\ plan[i] \in Ids /\ plan[i] \notin Boundaries
                                    /\ plan[i] # Nothing /\ Place(plan[i]) = i
         /\ \A i, j \in 1..Len(plan) : plan[i] = plan[j] => i = j
         /\ plan # Nothing
<1>1. /\ plan \in Seq(Envelopes) /\ plan # <<>> /\ plan # Nothing
      /\ \A i, j \in DOMAIN plan : Key[plan[i]] = Key[plan[j]] => i = j
      /\ \A i \in DOMAIN plan : plan[i] \notin Boundaries
  BY PlansAssumption, NoResultAssumption DEF PlanOK
<1>2. DOMAIN plan = 1..Len(plan) /\ Len(plan) \in Nat \ {0}
  BY <1>1
<1>3. \A i, j \in 1..Len(plan) : plan[i] = plan[j] => i = j
  BY <1>1, <1>2
<1>4. ASSUME NEW i \in 1..Len(plan)
      PROVE  /\ plan[i] \in Envelopes /\ plan[i] \in StepIds
             /\ plan[i] \in Ids /\ plan[i] \notin Boundaries
             /\ plan[i] # Nothing /\ Place(plan[i]) = i
  <2>1. plan[i] \in Envelopes /\ plan[i] # Nothing
    BY <1>1, <1>2, NoResultAssumption
  <2>2. plan[i] \in StepIds /\ plan[i] \in Ids
    BY <1>2 DEF StepIds, Ids
  <2>3. Place(plan[i]) = i
    BY <1>2, <1>3 DEF Place
  <2> QED
    BY <1>1, <1>2, <2>1, <2>2, <2>3
<1> QED
  BY <1>1, <1>2, <1>3, <1>4

LEMMA Prefixes ==
  ASSUME PlanOK
  PROVE  /\ Prefix(0) = <<>> /\ Prefix(Len(plan)) = plan
         /\ \A n \in 0..Len(plan) : Prefix(n) \in States
         /\ \A n \in 1..Len(plan) : /\ n - 1 \in 0..Len(plan)
                                    /\ Prefix(n) = Append(Prefix(n - 1), plan[n])
<1>1. plan \in Seq(Envelopes) /\ Len(plan) \in Nat
  BY PlanParts
<1>2. \A n \in 0..Len(plan) : /\ Prefix(n) = [j \in 1..n |-> plan[j]]
                              /\ Prefix(n) \in Seq(Envelopes) /\ Len(Prefix(n)) = n
  BY <1>1 DEF Prefix
<1>3. Prefix(0) = <<>> /\ Prefix(Len(plan)) = plan
  <2>1. ASSUME NEW p \in Seq(Envelopes), Len(p) = 0 PROVE p = <<>>
    BY <2>1
  <2>2. Prefix(0) = <<>>
    BY <1>1, <1>2, <2>1
  <2> DEFINE p == Prefix(Len(plan))
  <2>3. p \in Seq(Envelopes) /\ Len(p) = Len(plan) /\ \A j \in 1..Len(plan) : p[j] = plan[j]
    BY <1>1, <1>2
  <2> HIDE DEF p
  <2>4. p = plan
    BY <1>1, <2>3
  <2> QED
    BY <2>2, <2>4 DEF p
<1>4. ASSUME NEW n \in 1..Len(plan) PROVE Prefix(n) = Append(Prefix(n - 1), plan[n])
  <2>1. n \in 0..Len(plan) /\ n - 1 \in 0..Len(plan) /\ plan[n] \in Envelopes
    BY <1>1
  <2> DEFINE p == Prefix(n - 1)
             q == Prefix(n)
  <2>2. /\ p = [j \in 1..n-1 |-> plan[j]] /\ p \in Seq(Envelopes) /\ Len(p) = n - 1
        /\ q = [j \in 1..n |-> plan[j]] /\ q \in Seq(Envelopes) /\ Len(q) = n
    BY <1>2, <2>1
  <2> HIDE DEF p, q
  <2>3. q = Append(p, plan[n])
    BY <2>1, <2>2
  <2> QED
    BY <2>3 DEF p, q
<1> QED
  BY <1>1, <1>2, <1>3, <1>4 DEF States

LEMMA PassedStepType ==
  ASSUME PlanOK, NEW i \in 1..Len(plan)
  PROVE  PassedStep(i) \in StepResults /\ Skipped(i) \in StepResults
<1>1. /\ plan[i] \in Ids /\ Prefix(i - 1) \in States /\ Prefix(i) \in States
  BY PlanParts, Prefixes
<1> QED
  BY <1>1 DEF PassedStep, Skipped, Result, StepResults
-------------------------------------------------------------------------------
(* The invariant of the kernel.  Its parts are stated of a kernel r, an         *)
(* environment e, a lab l and an answer a, so that they speak of the state      *)
(* after a step without touching the plan.                                      *)

Underway == {"before", "execute", "wait", "after", "recover"}

\* The lab of the open run holds the first n steps of the plan, and nothing runs.
Holds(n, e, l) == e.active /\ e.phase = "none" /\ l = Prefix(n)

\* At step i, the steps before it have passed.
Replaying(r) ==
  r.pc \in Underway =>
    /\ r.i \in 1..Len(plan) /\ Len(r.steps) = r.i - 1
    /\ r.status = "failed" /\ r.failed = Nothing /\ ~r.cancelled
    /\ r.rootAt = <<>> /\ r.final = Prefix(r.i - 1)
    /\ \A j \in 1..r.i-1 : r.steps[j] = PassedStep(j) /\ verdict[j] = "allowed"

\* What is known of the lab, of what was committed and of the task within step i.
Position(r, e, l, committed, running) ==
  /\ r.pc = "before"  => r.before = Nothing /\ Holds(r.i - 1, e, l)
  /\ r.pc = "execute" => r.before = Prefix(r.i - 1) /\ Holds(r.i - 1, e, l)
  /\ r.pc = "wait"    => /\ r.before = Prefix(r.i - 1) /\ committed = Prefix(r.i - 1)
                         /\ \A t \in running : t.of = plan[r.i]
  /\ r.pc = "after"   => r.before = Prefix(r.i - 1) /\ Holds(r.i, e, l)
  /\ r.pc = "recover" => /\ r.before \in {Nothing, Prefix(r.i - 1)}
                         /\ e.phase = "none" => l \in {Prefix(r.i - 1), Prefix(r.i)}

\* Between the steps the environment executes nothing.
Waiting(r, e) == e.phase = "executing" <=> r.pc = "wait"

Resetting(r) ==
  r.pc = "reset" =>
    /\ r.steps = <<>> /\ r.status = "failed" /\ r.failed = Nothing
    /\ r.before = Nothing /\ ~r.cancelled

Closing(r, e, l) ==
  r.pc = "cleanup" /\ ~r.cancelled =>
    /\ Outcome(r.steps, r.status, r.failed, r.rootAt, r.final)
    /\ r.status = "succeeded" => e.phase = "none" /\ l = plan

\* The answer is the outcome, or says in addition that the clean-up failed.
AnswerOf(a, steps, status, failed) ==
  IF a.dirty
  THEN /\ a.steps = Append(steps, Failure("cleanup")) /\ a.status = "cleanup_failed"
       /\ a.failed = IF failed = Nothing THEN "cleanup" ELSE failed
  ELSE a.steps = steps /\ a.status = status /\ a.failed = failed

Answered(a, r, e, l) ==
  a # Nothing =>
    /\ r.pc = "idle"
    /\ ~a.dirty => ~e.active /\ e.phase = "none"
    /\ a.kind = "result" =>
         /\ \E steps, status, failed :
              /\ Outcome(steps, status, failed, a.root, a.final)
              /\ AnswerOf(a, steps, status, failed)
         /\ a.status = "succeeded" => e.phase = "none" /\ l = plan

KernelOK(r, e, l, committed, running, a) ==
  /\ r \in ReplayRecord /\ Replaying(r) /\ Position(r, e, l, committed, running)
  /\ Waiting(r, e) /\ Resetting(r) /\ Closing(r, e, l) /\ Answered(a, r, e, l)

KInv == IInv /\ PlanOK /\ KernelOK(replay, env, lab, Committed, tasks, answer)

\* The plan stays the same, so the next state may be judged by the present plan.
LEMMA KernelKept ==
  ASSUME PlanOK, plan' = plan, verdict' = verdict, IInv',
         KernelOK(replay', env', lab', Committed', tasks', answer')
  PROVE  KInv'
<1>1. PlanOK'
  BY DEF PlanOK
<1> USE DEF Prefix, PassedStep, Skipped, Result
<1>2. ReplayRecord' = ReplayRecord
  BY DEF ReplayRecord, StepResults, Ids, StepIds
<1>3. Replaying(replay)'
  BY DEF KernelOK, Replaying
<1>4. Position(replay, env, lab, Committed, tasks)'
  BY DEF KernelOK, Position, Holds
<1>5. /\ Waiting(replay, env)' /\ Resetting(replay)'
  BY DEF KernelOK, Waiting, Resetting
<1>6. ASSUME NEW steps, NEW status, NEW failed, NEW root, NEW final,
             Outcome(steps, status, failed, root, final)
      PROVE  Outcome(steps, status, failed, root, final)'
  <2>1. steps \in Seq(StepResults)'
    BY <1>6 DEF Outcome, StepResults, Ids, StepIds
  <2> QED
    BY <1>6, <2>1 DEF Outcome, AtBoundary, AtStep, AtEnd, FailedStep
<1>7. Closing(replay, env, lab)'
  BY <1>6 DEF KernelOK, Closing
<1>8. Answered(answer, replay, env, lab)'
  BY <1>6 DEF KernelOK, Answered, AnswerOf, Failure
<1> QED
  BY <1>1, <1>2, <1>3, <1>4, <1>5, <1>7, <1>8 DEF KInv, KernelOK
-------------------------------------------------------------------------------
(* The environment, as the kernel uses it.                                      *)

EnvRecord ==
  [run : 0..MaxRuns, active : BOOLEAN, phase : {"none", "executing", "settling"},
   inflight : TaskIds \cup {Nothing}, cache : [Keys -> Receipts \cup {Nothing}],
   claims : SUBSET Receipts, used : Slots, last : Envelopes \cup {Nothing}]

LEMMA EnvIsRecord == IInv => env \in EnvRecord
BY DEF IInv, EnvTypeOK, EnvRecord

LEMMA ResetFacts ==
  ASSUME IInv, Reset
  PROVE  env'.active /\ env'.phase = "none" /\ lab' = <<>>
<1>1. env \in EnvRecord
  BY EnvIsRecord
<1> QED
  BY <1>1 DEF Reset, Activate, Cleared, Recovered, EnvRecord

LEMMA CleanupFacts ==
  ASSUME IInv, Cleanup
  PROVE  ~env'.active /\ env'.phase = "none" /\ lab' = lab
<1>1. env \in EnvRecord
  BY EnvIsRecord
<1> QED
  BY <1>1 DEF Cleanup, Cleared, Recovered, EnvRecord

LEMMA ReserveFacts ==
  ASSUME IInv, NEW e \in Envelopes, Reserve(e)
  PROVE  /\ env.phase = "none" /\ env.active /\ Committed = lab
         /\ env'.phase = "executing" /\ lab' = lab /\ Committed' = Committed
         /\ \A t \in tasks' : t.of = e
<1>1. env \in EnvRecord
  BY EnvIsRecord
<1>2. env.phase = "none" /\ env.active /\ tasks = {}
  BY DEF Reserve, Admitted, IInv, OneTask
<1>3. env'.phase = "executing" /\ lab' = lab /\ receipts' = receipts
  BY <1>1 DEF Reserve, EnvRecord
<1>4. \A t \in tasks' : t.of = e
  BY <1>2 DEF Reserve
<1> QED
  BY <1>2, <1>3, <1>4 DEF IInv, LabIsCommitted, Committed

LEMMA CommitFacts ==
  ASSUME IInv, Commit
  PROVE  /\ env'.phase = "none" /\ env'.active /\ lab' = lab
         /\ \E t \in tasks : lab = Append(Committed, t.of)
<1>1. env \in EnvRecord
  BY EnvIsRecord
<1>2. env.phase = "executing" /\ Task.ok /\ lab' = lab
  BY DEF Commit
<1>3. Task \in tasks
  BY <1>2, TaskIsIt DEF IInv
<1>4. env.active /\ lab = Append(Committed, Task.of)
  BY <1>2, <1>3 DEF IInv, InFlight
<1>5. env'.phase = "none" /\ env'.active = env.active
  BY <1>1 DEF Commit, Recovered, EnvRecord
<1> QED
  BY <1>2, <1>3, <1>4, <1>5

LEMMA PoisonFacts ==
  ASSUME IInv, Poison
  PROVE  env'.phase = "settling" /\ lab' = lab
<1>1. env \in EnvRecord
  BY EnvIsRecord
<1> QED
  BY <1>1 DEF Poison, EnvRecord

LEMMA TaskFacts ==
  ASSUME IInv, TaskStep
  PROVE  /\ env' = env /\ env.phase # "none" /\ Committed' = Committed
         /\ \A u \in tasks' : \E t \in tasks : u.of = t.of
<1>1. PICK t \in tasks : Effect(t) \/ Settle(t)
  BY DEF TaskStep
<1>2. tasks = {t} /\ t \in TaskRecord /\ env.phase # "none"
  BY OnlyTask DEF IInv
<1>3. env' = env /\ receipts' = receipts
  BY <1>1 DEF Effect, Settle
<1>4. \A u \in tasks' : u.of = t.of
  BY <1>1, <1>2 DEF Effect, Settle, Becomes, TaskRecord
<1> QED
  BY <1>2, <1>3, <1>4 DEF Committed

\* The kernel uses the environment as any caller does.
LEMMA KernelUsesLab ==
  ASSUME KInv, [KernelNext]_vars
  PROVE  [Next]_envVars
<1>1. CASE ExecuteStep
  <2>1. replay.pc = "execute" => plan[replay.i] \in Envelopes
    BY PlanParts DEF KInv, KernelOK, Replaying, Underway
  <2> QED
    BY <1>1, <2>1 DEF ExecuteStep, Next
<1>2. CASE ResetRoot \/ CaptureBefore \/ CaptureAfter \/ Recover \/ CleanUp
  BY <1>2 DEF ResetRoot, CaptureBefore, CaptureAfter, Recover, CleanUp, Next
<1>3. CASE StepTimeout \/ ExecuteReturns \/ CancelReplay
  BY <1>3 DEF StepTimeout, ExecuteReturns, CancelReplay, Next
<1>4. CASE \E root \in Roots : Begin(root)
  BY <1>4 DEF Begin
<1>5. CASE TaskStep
  BY <1>5 DEF Next
<1>6. CASE UNCHANGED vars
  BY <1>6 DEF vars
<1> QED
  BY <1>1, <1>2, <1>3, <1>4, <1>5, <1>6 DEF KernelNext, KernelStep
-------------------------------------------------------------------------------
(* The steps of the kernel.                                                     *)

LEMMA IdleType ==
  ASSUME PlanOK
  PROVE  Idle \in ReplayRecord
<1>1. 0 \in 0..Len(plan)
  BY PlanParts
<1> QED
  BY <1>1 DEF Idle, ReplayRecord, Statuses

LEMMA KernelStarts == KernelInit => KInv
<1> SUFFICES ASSUME KernelInit PROVE KInv
  OBVIOUS
<1>1. IInv /\ PlanOK /\ env.phase = "none"
  BY InitInv DEF KernelInit, PlanOK, Init
<1>2. Idle \in ReplayRecord
  BY <1>1, IdleType
<1>3. replay = Idle /\ answer = Nothing
  BY DEF KernelInit
<1> QED
  BY <1>1, <1>2, <1>3 DEF KInv, KernelOK, Replaying, Position, Waiting, Resetting, Closing,
     Answered, Underway, Idle

LEMMA NoAnswerYet ==
  ASSUME KInv, replay.pc # "idle"
  PROVE  answer = Nothing
BY DEF KInv, KernelOK, Answered

LEMMA FailureType ==
  ASSUME NEW id \in Boundaries
  PROVE  /\ Failure(id) \in StepResults /\ Failure(id).id = id /\ Failure(id).status = "failed"
         /\ id \in Ids
BY DEF Failure, Result, StepResults, Ids

\* An end at a boundary.
LEMMA EndsAtBoundary ==
  ASSUME NEW id \in {"preflight", "root", "environment"}, NEW s \in StepResults,
         s.id = id, s.status = "failed", NEW root, NEW final
  PROVE  Outcome(<<s>>, IF id = "root" THEN "root_diverged" ELSE "failed", id, root, final)
BY DEF Outcome, AtBoundary

LEMMA BeginStep ==
  ASSUME KInv, NEW root \in Roots, Begin(root), IInv'
  PROVE  KInv'
<1>1. /\ replay.pc = "idle" /\ env.phase # "executing" /\ UNCHANGED <<envVars, plan, verdict>>
      /\ answer' = Nothing /\ PlanOK
  BY DEF Begin, KInv, KernelOK, Waiting
<1>2. Committed' = Committed /\ env' = env /\ lab' = lab
  BY <1>1 DEF Committed, envVars
<1>3. Idle \in ReplayRecord
  BY <1>1, IdleType
<1>4. CASE root = "other"
  <2> DEFINE s == Failure("preflight")
             r == [Idle EXCEPT !.pc = "cleanup", !.root = root, !.steps = <<s>>,
                               !.failed = "preflight"]
  <2>1. s \in StepResults /\ s.id = "preflight" /\ s.status = "failed" /\ "preflight" \in Ids
    BY FailureType DEF Boundaries
  <2>2. replay' = r
    BY <1>4 DEF Begin
  <2> HIDE DEF s
  <2>3. /\ r \in ReplayRecord /\ r.pc = "cleanup" /\ r.steps = <<s>> /\ r.status = "failed"
        /\ r.failed = "preflight"
    <3> DEFINE steps == <<s>>
    <3>1. steps \in Seq(StepResults)
      BY <2>1
    <3>2. r = [Idle EXCEPT !.pc = "cleanup", !.root = root, !.steps = steps,
                           !.failed = "preflight"]
      OBVIOUS
    <3> HIDE DEF steps, r
    <3>3. /\ r \in ReplayRecord /\ r.pc = "cleanup" /\ r.steps = steps
          /\ r.status = "failed" /\ r.failed = "preflight"
      BY <1>3, <2>1, <3>1, <3>2 DEF Idle, ReplayRecord
    <3> QED
      BY <3>3 DEF steps
  <2> HIDE DEF r
  <2>4. Outcome(r.steps, r.status, r.failed, r.rootAt, r.final)
    BY <2>1, <2>3, EndsAtBoundary
  <2>5. KernelOK(r, env, lab, Committed, tasks', Nothing)
    BY <1>1, <2>3, <2>4 DEF KernelOK, Replaying, Position, Waiting, Resetting, Closing,
       Answered, Underway
  <2> QED
    BY <1>1, <1>2, <2>2, <2>5, KernelKept
<1>5. CASE root # "other"
  <2> DEFINE r == [Idle EXCEPT !.pc = "reset", !.root = root]
  <2>1. replay' = r
    BY <1>5 DEF Begin
  <2>2. /\ r \in ReplayRecord /\ r.pc = "reset" /\ r.steps = <<>> /\ r.status = "failed"
        /\ r.failed = Nothing /\ r.before = Nothing /\ ~r.cancelled
    BY <1>3 DEF Idle, ReplayRecord
  <2> HIDE DEF r
  <2>3. KernelOK(r, env, lab, Committed, tasks', Nothing)
    BY <1>1, <2>2 DEF KernelOK, Replaying, Position, Waiting, Resetting, Closing,
       Answered, Underway
  <2> QED
    BY <1>1, <1>2, <2>1, <2>3, KernelKept
<1> QED
  BY <1>4, <1>5

LEMMA ResetRootStep ==
  ASSUME KInv, ResetRoot, IInv'
  PROVE  KInv'
<1>1. /\ replay \in ReplayRecord /\ replay.pc = "reset" /\ replay.steps = <<>>
      /\ replay.status = "failed" /\ replay.failed = Nothing /\ replay.before = Nothing
      /\ ~replay.cancelled /\ env.phase # "executing" /\ PlanOK
  BY DEF ResetRoot, KInv, KernelOK, Waiting, Resetting
<1>2. answer' = Nothing /\ plan' = plan /\ verdict' = verdict
  BY <1>1, NoAnswerYet DEF ResetRoot, UnchangedKernel
<1>3. Reset => env'.active /\ env'.phase = "none" /\ lab' = <<>>
  BY ResetFacts DEF KInv
<1>4. env'.phase # "executing"
  BY <1>1, <1>3 DEF ResetRoot, envVars
<1>5. <<>> \in States /\ Prefix(0) = <<>> /\ 1 \in 1..Len(plan) /\ 1 \in 0..Len(plan) /\ PlanOK
  BY <1>1, PlanParts, Prefixes DEF States
<1>6. CASE Boundary("environment", "failed")
  <2> DEFINE s == Failure("environment")
             steps == <<s>>
  <2>1. /\ s \in StepResults /\ s.id = "environment" /\ s.status = "failed"
        /\ "environment" \in Ids /\ steps \in Seq(StepResults)
    BY FailureType DEF Boundaries
  <2>2. replay' = [replay EXCEPT !.pc = "cleanup", !.status = "failed",
                                 !.failed = "environment", !.steps = steps]
    BY <1>1, <1>6 DEF Boundary
  <2> HIDE DEF s, steps
  <2>3. /\ replay' \in ReplayRecord /\ replay'.pc = "cleanup" /\ replay'.steps = steps
        /\ replay'.status = "failed" /\ replay'.failed = "environment"
    BY <1>1, <2>1, <2>2 DEF ReplayRecord
  <2>4. Outcome(replay'.steps, replay'.status, replay'.failed, replay'.rootAt, replay'.final)
    BY <2>1, <2>3, EndsAtBoundary DEF steps
  <2>5. KernelOK(replay', env', lab', Committed', tasks', answer')
    BY <1>2, <1>4, <2>3, <2>4 DEF KernelOK, Replaying, Position, Waiting, Resetting, Closing,
       Answered, Underway
  <2> QED
    BY <1>1, <1>2, <2>5, KernelKept
<1>7. CASE /\ Reset /\ replay.root = "diverged"
           /\ replay' = [replay EXCEPT !.pc = "cleanup", !.status = "root_diverged",
                            !.failed = "root", !.rootAt = <<>>, !.final = <<>>,
                            !.steps = <<Result("root", "failed", <<>>, Nothing)>>]
  <2> DEFINE s == Result("root", "failed", <<>>, Nothing)
             steps == <<s>>
             clean == <<>>
  <2>1. /\ s \in StepResults /\ s.id = "root" /\ s.status = "failed" /\ "root" \in Ids
        /\ steps \in Seq(StepResults) /\ clean \in States /\ "root_diverged" \in Statuses
    <3>1. s \in StepResults /\ s.id = "root" /\ s.status = "failed" /\ "root" \in Ids
      BY <1>5 DEF Result, StepResults, Ids, Boundaries
    <3> HIDE DEF s
    <3> QED
      BY <1>5, <3>1 DEF Statuses
  <2>2. replay' = [replay EXCEPT !.pc = "cleanup", !.status = "root_diverged",
                     !.failed = "root", !.rootAt = clean, !.final = clean, !.steps = steps]
    BY <1>7
  <2> HIDE DEF s, steps, clean
  <2>3. /\ replay' \in ReplayRecord /\ replay'.pc = "cleanup" /\ replay'.steps = steps
        /\ replay'.status = "root_diverged" /\ replay'.failed = "root"
    BY <1>1, <2>1, <2>2 DEF ReplayRecord
  <2>4. Outcome(replay'.steps, replay'.status, replay'.failed, replay'.rootAt, replay'.final)
    BY <2>1, <2>3, EndsAtBoundary DEF steps
  <2>5. KernelOK(replay', env', lab', Committed', tasks', answer')
    BY <1>2, <1>4, <2>3, <2>4 DEF KernelOK, Replaying, Position, Waiting, Resetting, Closing,
       Answered, Underway
  <2> QED
    BY <1>1, <1>2, <2>5, KernelKept
<1>8. CASE /\ Reset
           /\ replay' = [replay EXCEPT !.pc = "before", !.i = 1, !.rootAt = <<>>,
                                       !.final = <<>>]
  <2> DEFINE clean == <<>>
  <2>1. clean \in States /\ clean = <<>>
    BY <1>5
  <2>2. replay' = [replay EXCEPT !.pc = "before", !.i = 1, !.rootAt = clean, !.final = clean]
    BY <1>8
  <2> HIDE DEF clean
  <2>3. /\ replay' \in ReplayRecord /\ replay'.pc = "before" /\ replay'.i = 1
        /\ replay'.rootAt = clean /\ replay'.final = clean /\ replay'.steps = <<>>
        /\ replay'.status = "failed" /\ replay'.failed = Nothing /\ replay'.before = Nothing
        /\ ~replay'.cancelled
    BY <1>1, <1>5, <2>1, <2>2 DEF ReplayRecord
  <2>4. Prefix(1 - 1) = <<>> /\ Len(<<>>) = 1 - 1
    BY <1>5
  <2>5. Replaying(replay')
    BY <1>5, <2>1, <2>3, <2>4 DEF Replaying
  <2>6. Position(replay', env', lab', Committed', tasks')
    BY <1>3, <1>8, <2>3, <2>4 DEF Position, Holds
  <2>7. KernelOK(replay', env', lab', Committed', tasks', answer')
    BY <1>2, <1>4, <2>3, <2>5, <2>6 DEF KernelOK, Waiting, Resetting, Closing, Answered
  <2> QED
    BY <1>1, <1>2, <2>7, KernelKept
<1> QED
  BY <1>6, <1>7, <1>8 DEF ResetRoot

\* A step that does not pass leaves the environment settled or settling.
LEMMA ToRecover ==
  ASSUME KInv, replay.pc \in Underway \ {"recover"}, StepFails, UnchangedKernel, IInv',
         env'.phase # "executing",
         env'.phase = "none" => lab' \in {Prefix(replay.i - 1), Prefix(replay.i)}
  PROVE  KInv'
<1>1. replay \in ReplayRecord /\ Replaying(replay) /\ PlanOK /\ replay.pc # "idle"
  BY DEF KInv, KernelOK, Underway
<1>2. answer' = Nothing /\ plan' = plan /\ verdict' = verdict
  BY <1>1, NoAnswerYet DEF UnchangedKernel
<1>3. /\ replay' \in ReplayRecord /\ replay'.pc = "recover" /\ replay'.i = replay.i
      /\ replay'.steps = replay.steps /\ replay'.status = replay.status
      /\ replay'.failed = replay.failed /\ replay'.cancelled = replay.cancelled
      /\ replay'.rootAt = replay.rootAt /\ replay'.final = replay.final
      /\ replay'.before = replay.before
  BY <1>1 DEF StepFails, ReplayRecord
<1>4. replay.before \in {Nothing, Prefix(replay.i - 1)}
  BY DEF KInv, KernelOK, Position, Underway
<1>5. Replaying(replay')
  BY <1>1, <1>3 DEF Replaying, Underway
<1>6. Position(replay', env', lab', Committed', tasks')
  BY <1>3, <1>4 DEF Position
<1>7. KernelOK(replay', env', lab', Committed', tasks', answer')
  BY <1>2, <1>3, <1>5, <1>6 DEF KernelOK, Waiting, Resetting, Closing, Answered
<1> QED
  BY <1>1, <1>2, <1>7, KernelKept

LEMMA CaptureBeforeStep ==
  ASSUME KInv, CaptureBefore, IInv'
  PROVE  KInv'
<1>1. /\ replay \in ReplayRecord /\ Replaying(replay) /\ PlanOK /\ replay.pc = "before"
      /\ Holds(replay.i - 1, env, lab) /\ UNCHANGED envVars
  BY DEF KInv, KernelOK, Position, CaptureBefore
<1>2. answer' = Nothing /\ plan' = plan /\ verdict' = verdict /\ UnchangedKernel
  BY <1>1, NoAnswerYet DEF CaptureBefore, UnchangedKernel
<1>3. env' = env /\ lab' = lab /\ lab = Prefix(replay.i - 1) /\ env.phase = "none"
  BY <1>1 DEF envVars, Holds
<1>4. CASE StepFails
  BY <1>1, <1>2, <1>3, <1>4, ToRecover DEF Underway
<1>5. CASE replay' = [replay EXCEPT !.pc = "execute", !.before = lab]
  <2>1. lab \in States
    BY DEF KInv, IInv, EnvTypeOK
  <2>2. /\ replay' \in ReplayRecord /\ replay'.pc = "execute" /\ replay'.i = replay.i
        /\ replay'.steps = replay.steps /\ replay'.status = replay.status
        /\ replay'.failed = replay.failed /\ replay'.cancelled = replay.cancelled
        /\ replay'.rootAt = replay.rootAt /\ replay'.final = replay.final
        /\ replay'.before = lab
    BY <1>1, <1>5, <2>1 DEF ReplayRecord
  <2>3. Replaying(replay')
    BY <1>1, <2>2 DEF Replaying, Underway
  <2>4. Position(replay', env', lab', Committed', tasks')
    BY <1>1, <1>3, <2>2 DEF Position, Holds
  <2>5. KernelOK(replay', env', lab', Committed', tasks', answer')
    BY <1>2, <1>3, <2>2, <2>3, <2>4 DEF KernelOK, Waiting, Resetting, Closing, Answered
  <2> QED
    BY <1>1, <1>2, <2>5, KernelKept
<1> QED
  BY <1>4, <1>5 DEF CaptureBefore

LEMMA ExecuteStepStep ==
  ASSUME KInv, ExecuteStep, IInv'
  PROVE  KInv'
<1>1. /\ replay \in ReplayRecord /\ Replaying(replay) /\ PlanOK /\ replay.pc = "execute"
      /\ replay.before = Prefix(replay.i - 1) /\ Holds(replay.i - 1, env, lab)
  BY DEF KInv, KernelOK, Position, ExecuteStep
<1>2. answer' = Nothing /\ plan' = plan /\ verdict' = verdict /\ UnchangedKernel
  BY <1>1, NoAnswerYet DEF ExecuteStep, UnchangedKernel
<1>3. CASE StepFails /\ UNCHANGED envVars
  <2>1. env'.phase = "none" /\ lab' = Prefix(replay.i - 1)
    BY <1>1, <1>3 DEF envVars, Holds
  <2> QED
    BY <1>1, <1>2, <1>3, <2>1, ToRecover DEF Underway
<1>4. CASE Reserve(plan[replay.i]) /\ replay' = [replay EXCEPT !.pc = "wait"]
  <2>1. plan[replay.i] \in Envelopes
    BY <1>1, PlanParts DEF Replaying, Underway
  <2>2. /\ Committed = lab /\ env'.phase = "executing" /\ Committed' = Committed
        /\ \A t \in tasks' : t.of = plan[replay.i]
    BY <1>4, <2>1, ReserveFacts DEF KInv
  <2>3. /\ replay' \in ReplayRecord /\ replay'.pc = "wait" /\ replay'.i = replay.i
        /\ replay'.steps = replay.steps /\ replay'.status = replay.status
        /\ replay'.failed = replay.failed /\ replay'.cancelled = replay.cancelled
        /\ replay'.rootAt = replay.rootAt /\ replay'.final = replay.final
        /\ replay'.before = replay.before
    BY <1>1, <1>4 DEF ReplayRecord
  <2>4. Replaying(replay')
    BY <1>1, <2>3 DEF Replaying, Underway
  <2>5. Position(replay', env', lab', Committed', tasks')
    BY <1>1, <2>2, <2>3 DEF Position, Holds
  <2>6. KernelOK(replay', env', lab', Committed', tasks', answer')
    BY <1>2, <2>2, <2>3, <2>4, <2>5 DEF KernelOK, Waiting, Resetting, Closing, Answered
  <2> QED
    BY <1>1, <1>2, <2>6, KernelKept
<1> QED
  BY <1>3, <1>4 DEF ExecuteStep

LEMMA StepTimeoutStep ==
  ASSUME KInv, StepTimeout, IInv'
  PROVE  KInv'
<1>1. env'.phase = "settling"
  BY PoisonFacts DEF KInv, StepTimeout, Abandon
<1> QED
  BY <1>1, ToRecover DEF StepTimeout, Underway

LEMMA ExecuteReturnsStep ==
  ASSUME KInv, ExecuteReturns, IInv'
  PROVE  KInv'
<1>1. /\ replay \in ReplayRecord /\ Replaying(replay) /\ PlanOK /\ replay.pc = "wait"
      /\ replay.before = Prefix(replay.i - 1) /\ Committed = Prefix(replay.i - 1)
      /\ \A t \in tasks : t.of = plan[replay.i]
  BY DEF KInv, KernelOK, Position, ExecuteReturns
<1>2. answer' = Nothing /\ plan' = plan /\ verdict' = verdict /\ UnchangedKernel
  BY <1>1, NoAnswerYet DEF ExecuteReturns, UnchangedKernel
<1>3. CASE (Fail \/ Timeout) /\ StepFails
  <2>1. env'.phase = "settling"
    BY <1>3, PoisonFacts DEF KInv, Fail, Timeout
  <2> QED
    BY <1>1, <1>2, <1>3, <2>1, ToRecover DEF Underway
<1>4. CASE Commit /\ replay' = [replay EXCEPT !.pc = "after"]
  <2>1. /\ env'.phase = "none" /\ env'.active /\ lab' = lab
        /\ \E t \in tasks : lab = Append(Committed, t.of)
    BY <1>4, CommitFacts DEF KInv
  <2>2. lab = Append(Prefix(replay.i - 1), plan[replay.i])
    BY <1>1, <2>1
  <2>3. replay.i \in 1..Len(plan)
    BY <1>1 DEF Replaying, Underway
  <2>4. lab = Prefix(replay.i)
    BY <1>1, <2>2, <2>3, Prefixes
  <2>5. /\ replay' \in ReplayRecord /\ replay'.pc = "after" /\ replay'.i = replay.i
        /\ replay'.steps = replay.steps /\ replay'.status = replay.status
        /\ replay'.failed = replay.failed /\ replay'.cancelled = replay.cancelled
        /\ replay'.rootAt = replay.rootAt /\ replay'.final = replay.final
        /\ replay'.before = replay.before
    BY <1>1, <1>4 DEF ReplayRecord
  <2>6. Replaying(replay')
    BY <1>1, <2>5 DEF Replaying, Underway
  <2>7. Position(replay', env', lab', Committed', tasks')
    BY <1>1, <2>1, <2>4, <2>5 DEF Position, Holds
  <2>8. KernelOK(replay', env', lab', Committed', tasks', answer')
    BY <1>2, <2>1, <2>5, <2>6, <2>7 DEF KernelOK, Waiting, Resetting, Closing, Answered
  <2> QED
    BY <1>1, <1>2, <2>8, KernelKept
<1> QED
  BY <1>3, <1>4 DEF ExecuteReturns

LEMMA CancelStep ==
  ASSUME KInv, CancelReplay, IInv'
  PROVE  KInv'
<1>1. replay \in ReplayRecord /\ PlanOK /\ replay.pc = "wait"
  BY DEF KInv, KernelOK, CancelReplay
<1>2. answer' = Nothing /\ plan' = plan /\ verdict' = verdict
  BY <1>1, NoAnswerYet DEF CancelReplay, UnchangedKernel
<1>3. env'.phase = "settling"
  BY PoisonFacts DEF KInv, CancelReplay, Abandon
<1>4. replay' \in ReplayRecord /\ replay'.pc = "cleanup" /\ replay'.cancelled
  BY <1>1 DEF CancelReplay, ReplayRecord
<1>5. KernelOK(replay', env', lab', Committed', tasks', answer')
  BY <1>2, <1>3, <1>4 DEF KernelOK, Replaying, Position, Waiting, Resetting, Closing,
     Answered, Underway
<1> QED
  BY <1>1, <1>2, <1>5, KernelKept

\* The task works only while the environment is not idle, and says of nobody
\* but itself.
LEMMA TaskStepStep ==
  ASSUME KInv, TaskStep, UNCHANGED kernelVars, IInv'
  PROVE  KInv'
<1>1. /\ env' = env /\ env.phase # "none" /\ Committed' = Committed
      /\ \A u \in tasks' : \E t \in tasks : u.of = t.of
  BY TaskFacts DEF KInv
<1>2. /\ plan' = plan /\ verdict' = verdict /\ replay' = replay /\ answer' = answer
      /\ PlanOK /\ KernelOK(replay, env, lab, Committed, tasks, answer)
  BY DEF KInv, kernelVars
<1>3. Position(replay, env, lab', Committed, tasks')
  BY <1>1, <1>2 DEF KernelOK, Position, Holds
<1>4. Closing(replay, env, lab') /\ Answered(answer, replay, env, lab')
  BY <1>1, <1>2 DEF KernelOK, Closing, Answered
<1>5. KernelOK(replay', env', lab', Committed', tasks', answer')
  BY <1>1, <1>2, <1>3, <1>4 DEF KernelOK
<1> QED
  BY <1>2, <1>5, KernelKept

LEMMA KernelStutters ==
  ASSUME KInv, UNCHANGED vars, IInv'
  PROVE  KInv'
<1>1. /\ env' = env /\ lab' = lab /\ tasks' = tasks /\ Committed' = Committed
      /\ plan' = plan /\ verdict' = verdict /\ replay' = replay /\ answer' = answer
  BY DEF vars, envVars, kernelVars, Committed
<1>2. KernelOK(replay', env', lab', Committed', tasks', answer')
  BY <1>1 DEF KInv, KernelOK
<1> QED
  BY <1>1, <1>2, KernelKept DEF KInv

\* The first i - 1 results, that of step i and the rest make n results.
Assembly(c, a, s, rest, i, n) ==
  /\ Len(c) = n /\ c[i] = s
  /\ \A j \in 1..i-1 : c[j] = a[j]
  /\ \A j \in i+1..n : c[j] = rest[j - i]

LEMMA Assembled ==
  ASSUME NEW S, NEW n \in Nat, NEW i \in 1..n, NEW a \in Seq(S), Len(a) = i - 1, NEW s \in S,
         NEW rest \in Seq(S), Len(rest) = n - i, NEW c, c = a \o <<s>> \o rest
  PROVE  c \in Seq(S) /\ Assembly(c, a, s, rest, i, n)
<1> DEFINE h == a \o <<s>>
<1>1. h \in Seq(S) /\ Len(h) = i /\ h[i] = s /\ \A j \in 1..i-1 : h[j] = a[j]
  OBVIOUS
<1>2. c = h \o rest
  OBVIOUS
<1> HIDE DEF h
<1>3. c \in Seq(S) /\ Len(c) = n
  <2>1. c \in Seq(S) /\ Len(c) = Len(h) + Len(rest)
    BY <1>1, <1>2
  <2>2. i + (n - i) = n
    OBVIOUS
  <2> QED
    BY <1>1, <2>1, <2>2
<1>4. \A j \in 1..i : c[j] = h[j]
  BY <1>1, <1>2
<1>5. \A j \in i+1..n : c[j] = rest[j - i]
  BY <1>1, <1>2
<1>6. c[i] = s /\ \A j \in 1..i-1 : c[j] = a[j]
  BY <1>1, <1>4
<1> QED
  BY <1>3, <1>5, <1>6 DEF Assembly

LEMMA Skipping ==
  ASSUME PlanOK, NEW i \in 1..Len(plan)
  PROVE  LET rest == [j \in 1..(Len(plan) - i) |-> Skipped(i + j)]
         IN  /\ rest \in Seq(StepResults) /\ Len(rest) = Len(plan) - i
             /\ \A j \in i+1..Len(plan) : rest[j - i] = Skipped(j)
<1> DEFINE n    == Len(plan)
           rest == [j \in 1..(n - i) |-> Skipped(i + j)]
<1>1. n \in Nat /\ i \in 1..n /\ \A j \in 1..n : Skipped(j) \in StepResults
  BY PlanParts, PassedStepType
<1> HIDE DEF n
<1>2. \A j \in 1..n-i : i + j \in 1..n
  BY <1>1
<1>3. n - i \in Nat /\ \A j \in 1..n-i : Skipped(i + j) \in StepResults
  BY <1>1, <1>2
<1>4. rest \in Seq(StepResults) /\ Len(rest) = n - i
  BY <1>3
<1>5. ASSUME NEW j \in i+1..n PROVE rest[j - i] = Skipped(j)
  <2>1. j - i \in 1..n-i /\ i + (j - i) = j
    BY <1>1
  <2> QED
    BY <2>1
<1> QED
  BY <1>4, <1>5 DEF n

LEMMA StopStep ==
  ASSUME KInv, replay.pc \in {"after", "recover"}, NEW s \in StepResults,
         FailedStep(s, replay.i), Stop(s), UNCHANGED envVars, UnchangedKernel, IInv'
  PROVE  KInv'
<1>1. /\ replay \in ReplayRecord /\ Replaying(replay) /\ PlanOK /\ replay.pc # "wait"
      /\ env.phase # "executing" /\ replay.pc \in Underway /\ replay.pc # "idle"
  BY DEF KInv, KernelOK, Waiting, Underway
<1>2. /\ answer' = Nothing /\ plan' = plan /\ verdict' = verdict /\ env' = env
  BY <1>1, NoAnswerYet DEF UnchangedKernel, envVars
<1> DEFINE i     == replay.i
           done  == replay.steps
           rest  == [j \in 1..(Len(plan) - i) |-> Skipped(i + j)]
           steps == done \o <<s>> \o rest
           final == IF s.after # Nothing THEN s.after ELSE s.before
<1>3. /\ i \in 1..Len(plan) /\ Len(done) = i - 1 /\ replay.status = "failed"
      /\ ~replay.cancelled /\ \A j \in 1..i-1 : done[j] = PassedStep(j)
      /\ done \in Seq(StepResults) /\ plan[i] \in Ids /\ Len(plan) \in Nat
  BY <1>1, PlanParts DEF Replaying, ReplayRecord
<1>4. replay' = [replay EXCEPT !.pc = "cleanup", !.failed = plan[i], !.steps = steps,
                               !.final = final]
  BY DEF Stop
<1>5. final \in States \cup {Nothing} /\ FailedStep(s, i)
  BY DEF StepResults
<1> HIDE DEF i, final
<1>6. /\ rest \in Seq(StepResults) /\ Len(rest) = Len(plan) - i
      /\ \A j \in i+1..Len(plan) : rest[j - i] = Skipped(j)
  BY <1>1, <1>3, Skipping
<1>7. steps \in Seq(StepResults) /\ Assembly(steps, done, s, rest, i, Len(plan))
  <2> DEFINE n == Len(plan)
  <2>1. n \in Nat /\ i \in 1..n /\ Len(done) = i - 1 /\ Len(rest) = n - i
    BY <1>3, <1>6
  <2> HIDE DEF n, done, rest
  <2>2. done \in Seq(StepResults) /\ rest \in Seq(StepResults)
    BY <1>3, <1>6
  <2>3. steps = done \o <<s>> \o rest
    OBVIOUS
  <2> HIDE DEF steps
  <2>4. steps \in Seq(StepResults) /\ Assembly(steps, done, s, rest, i, n)
    BY <2>1, <2>2, <2>3, Assembled
  <2> QED
    BY <2>4 DEF n
<1> HIDE DEF done, rest, steps
<1>8. Outcome(steps, "failed", plan[i], replay.rootAt, final)
  BY <1>3, <1>5, <1>6, <1>7 DEF Outcome, AtStep, Assembly
<1>9. /\ replay' \in ReplayRecord /\ replay'.pc = "cleanup" /\ replay'.steps = steps
       /\ replay'.status = "failed" /\ replay'.failed = plan[i] /\ replay'.final = final
       /\ replay'.rootAt = replay.rootAt
  BY <1>1, <1>3, <1>4, <1>5, <1>7 DEF ReplayRecord
<1>10. Closing(replay', env', lab')
  BY <1>8, <1>9 DEF Closing
<1>11. KernelOK(replay', env', lab', Committed', tasks', answer')
  BY <1>1, <1>2, <1>9, <1>10 DEF KernelOK, Replaying, Position, Waiting, Resetting,
     Answered, Underway
<1> QED
  BY <1>1, <1>2, <1>11, KernelKept

LEMMA RecoverStep ==
  ASSUME KInv, Recover, IInv'
  PROVE  KInv'
<1>1. /\ replay \in ReplayRecord /\ Replaying(replay) /\ PlanOK /\ replay.pc = "recover"
      /\ replay.before \in {Nothing, Prefix(replay.i - 1)}
      /\ env.phase = "none" => lab \in {Prefix(replay.i - 1), Prefix(replay.i)}
      /\ UNCHANGED envVars /\ UnchangedKernel
  BY DEF KInv, KernelOK, Position, Recover
<1> DEFINE known == IF replay.before # Nothing THEN replay.before ELSE replay.final
<1>2. replay.i \in 1..Len(plan) /\ replay.final = Prefix(replay.i - 1)
  BY <1>1 DEF Replaying, Underway
<1>3. known = Prefix(replay.i - 1)
  BY <1>1, <1>2
<1>4. /\ plan[replay.i] \in Ids /\ Prefix(replay.i - 1) \in States /\ Prefix(replay.i) \in States
      /\ lab \in States
  BY <1>1, <1>2, PlanParts, Prefixes DEF KInv, IInv, EnvTypeOK
<1> HIDE DEF known
<1>5. ASSUME NEW after \in States \cup {Nothing},
             after \in {Prefix(replay.i - 1), Prefix(replay.i), Nothing}
      PROVE  /\ Result(plan[replay.i], "failed", known, after) \in StepResults
             /\ FailedStep(Result(plan[replay.i], "failed", known, after), replay.i)
  BY <1>3, <1>4, <1>5 DEF Result, StepResults, FailedStep
<1>6. CASE env.phase = "none" /\ Stop(Result(plan[replay.i], "failed", known, lab))
  <2> DEFINE s == Result(plan[replay.i], "failed", known, lab)
  <2>1. s \in StepResults /\ FailedStep(s, replay.i) /\ Stop(s)
    BY <1>1, <1>4, <1>5, <1>6
  <2> HIDE DEF s
  <2> QED
    BY <1>1, <2>1, StopStep
<1>7. CASE Stop(Result(plan[replay.i], "failed", known, Nothing))
  <2> DEFINE s == Result(plan[replay.i], "failed", known, Nothing)
  <2>1. s \in StepResults /\ FailedStep(s, replay.i) /\ Stop(s)
    BY <1>1, <1>4, <1>5, <1>7
  <2> HIDE DEF s
  <2> QED
    BY <1>1, <2>1, StopStep
<1> QED
  BY <1>6, <1>7 DEF Recover, known

\* A step that passed is added to the steps before it.
AllPassed(steps, n) ==
  /\ Len(steps) = n
  /\ \A j \in 1..n : steps[j] = PassedStep(j) /\ verdict[j] = "allowed"

LEMMA OnePasses ==
  ASSUME PlanOK, NEW i \in 1..Len(plan), NEW steps \in Seq(StepResults),
         AllPassed(steps, i - 1), verdict[i] = "allowed"
  PROVE  /\ Append(steps, PassedStep(i)) \in Seq(StepResults)
         /\ AllPassed(Append(steps, PassedStep(i)), i)
<1> DEFINE s == PassedStep(i)
           c == Append(steps, s)
<1>1. s \in StepResults /\ Len(plan) \in Nat
  BY PassedStepType, PlanParts
<1>2. s = PassedStep(i)
  OBVIOUS
<1> HIDE DEF s
<1>3. /\ c \in Seq(StepResults) /\ Len(c) = Len(steps) + 1 /\ c[Len(steps) + 1] = s
      /\ \A j \in 1..Len(steps) : c[j] = steps[j]
  BY <1>1
<1> HIDE DEF c
<1>4. Len(steps) = i - 1 /\ (i - 1) + 1 = i
  BY <1>1 DEF AllPassed
<1>5. Len(c) = i /\ c[i] = s /\ \A j \in 1..i-1 : c[j] = PassedStep(j) /\ verdict[j] = "allowed"
  BY <1>3, <1>4 DEF AllPassed
<1>6. \A j \in 1..i : j = i \/ j \in 1..i-1
  BY <1>1
<1>7. AllPassed(c, i)
  BY <1>2, <1>5, <1>6 DEF AllPassed
<1> QED
  BY <1>3, <1>7 DEF c, s

LEMMA CaptureAfterStep ==
  ASSUME KInv, CaptureAfter, IInv'
  PROVE  KInv'
<1>1. /\ replay \in ReplayRecord /\ Replaying(replay) /\ PlanOK /\ replay.pc = "after"
      /\ replay.before = Prefix(replay.i - 1) /\ Holds(replay.i, env, lab)
      /\ UNCHANGED envVars /\ UnchangedKernel
  BY DEF KInv, KernelOK, Position, CaptureAfter
<1>2. answer' = Nothing /\ plan' = plan /\ verdict' = verdict /\ env' = env /\ lab' = lab
  BY <1>1, NoAnswerYet DEF UnchangedKernel, envVars
<1> DEFINE i == replay.i
<1>3. /\ i \in 1..Len(plan) /\ Len(plan) \in Nat /\ replay.steps \in Seq(StepResults)
      /\ AllPassed(replay.steps, i - 1) /\ replay.status = "failed"
      /\ replay.failed = Nothing /\ ~replay.cancelled /\ replay.rootAt = <<>>
      /\ env.active /\ env.phase = "none" /\ lab = Prefix(i)
  BY <1>1, PlanParts DEF Replaying, Underway, AllPassed, ReplayRecord, Holds
<1>4. /\ plan[i] \in Ids /\ Prefix(i - 1) \in States /\ lab \in States
      /\ Prefix(Len(plan)) = plan
  BY <1>1, <1>3, PlanParts, Prefixes
<1>5. CASE StepFails
  BY <1>1, <1>2, <1>3, <1>5, ToRecover DEF Underway
<1>6. CASE Stop(Result(plan[i], "failed", replay.before, lab))
  <2> DEFINE s == Result(plan[i], "failed", replay.before, lab)
  <2>1. s \in StepResults /\ FailedStep(s, i) /\ Stop(s)
    BY <1>1, <1>3, <1>4, <1>6 DEF Result, StepResults, FailedStep
  <2> HIDE DEF s
  <2> QED
    BY <1>1, <2>1, StopStep
<1>7. CASE /\ verdict[i] = "allowed"
           /\ replay' = [replay EXCEPT !.pc = IF i = Len(plan) THEN "cleanup" ELSE "before",
                            !.status = IF i = Len(plan) THEN "succeeded" ELSE @,
                            !.i = IF i = Len(plan) THEN @ ELSE @ + 1,
                            !.steps = Append(@, Result(plan[i], "passed", replay.before, lab)),
                            !.final = lab, !.before = Nothing]
  <2> DEFINE steps == Append(replay.steps, PassedStep(i))
  <2>1. Result(plan[i], "passed", replay.before, lab) = PassedStep(i)
    BY <1>1, <1>3 DEF PassedStep
  <2>2. steps \in Seq(StepResults) /\ AllPassed(steps, i)
    BY <1>1, <1>3, <1>7, OnePasses
  <2>3. steps = Append(replay.steps, Result(plan[i], "passed", replay.before, lab))
    BY <2>1
  <2> HIDE DEF steps
  <2>4. CASE i = Len(plan)
    <3>1. replay' = [replay EXCEPT !.pc = "cleanup", !.status = "succeeded", !.i = i,
                                   !.steps = steps, !.final = lab, !.before = Nothing]
      BY <1>7, <2>3, <2>4
    <3>2. /\ replay' \in ReplayRecord /\ replay'.pc = "cleanup" /\ replay'.steps = steps
          /\ replay'.status = "succeeded" /\ replay'.final = lab
          /\ replay'.rootAt = replay.rootAt /\ replay'.failed = Nothing
      BY <1>1, <1>3, <1>4, <2>2, <3>1 DEF ReplayRecord, Statuses
    <3>3. lab = plan
      BY <1>3, <1>4, <2>4
    <3>4. Outcome(steps, "succeeded", Nothing, replay.rootAt, lab)
      BY <1>3, <2>2, <2>4, <3>3 DEF Outcome, AtEnd, AllPassed
    <3>5. Closing(replay', env', lab')
      BY <1>2, <1>3, <3>2, <3>3, <3>4 DEF Closing
    <3>6. KernelOK(replay', env', lab', Committed', tasks', answer')
      BY <1>2, <1>3, <3>2, <3>5 DEF KernelOK, Replaying, Position, Waiting, Resetting,
         Answered, Underway
    <3> QED
      BY <1>1, <1>2, <3>6, KernelKept
  <2>5. CASE i # Len(plan)
    <3> DEFINE next == i + 1
    <3>1. next \in 1..Len(plan) /\ next - 1 = i
      BY <1>3, <2>5
    <3>2. replay' = [replay EXCEPT !.pc = "before", !.status = "failed", !.i = next,
                                   !.steps = steps, !.final = lab, !.before = Nothing]
      BY <1>3, <1>7, <2>3, <2>5
    <3> HIDE DEF next
    <3>3. /\ replay' \in ReplayRecord /\ replay'.pc = "before" /\ replay'.steps = steps
          /\ replay'.status = "failed" /\ replay'.final = lab /\ replay'.i = next
          /\ replay'.rootAt = replay.rootAt /\ replay'.failed = Nothing
          /\ replay'.before = Nothing /\ ~replay'.cancelled
      <4>1. next \in 0..Len(plan)
        BY <1>3, <3>1
      <4>2. "failed" \in Statuses
        BY DEF Statuses
      <4> HIDE DEF i
      <4> QED
        BY <1>1, <1>3, <1>4, <2>2, <3>2, <4>1, <4>2 DEF ReplayRecord
    <3>4. Replaying(replay')
      BY <1>3, <2>2, <3>1, <3>3 DEF Replaying, AllPassed
    <3>5. Position(replay', env', lab', Committed', tasks')
      BY <1>2, <1>3, <3>1, <3>3 DEF Position, Holds
    <3>6. KernelOK(replay', env', lab', Committed', tasks', answer')
      BY <1>2, <1>3, <3>3, <3>4, <3>5 DEF KernelOK, Waiting, Resetting, Closing, Answered
    <3> QED
      BY <1>1, <1>2, <3>6, KernelKept
  <2> QED
    BY <2>4, <2>5
<1> QED
  BY <1>5, <1>6, <1>7 DEF CaptureAfter

LEMMA CleanUpStep ==
  ASSUME KInv, CleanUp, IInv'
  PROVE  KInv'
<1>1. /\ replay \in ReplayRecord /\ PlanOK /\ replay.pc = "cleanup"
      /\ env.phase # "executing" /\ Closing(replay, env, lab)
      /\ plan' = plan /\ verdict' = verdict /\ replay' = Idle
  BY DEF KInv, KernelOK, Waiting, CleanUp
<1>2. Idle \in ReplayRecord /\ Idle.pc = "idle"
  BY <1>1, IdleType DEF Idle
<1>3. CASE Cleanup /\ answer' = Ended(FALSE)
  <2>1. ~env'.active /\ env'.phase = "none" /\ lab' = lab
    BY <1>3, CleanupFacts DEF KInv
  <2>2. /\ answer'.kind = IF replay.cancelled THEN "cancelled" ELSE "result"
        /\ ~answer'.dirty /\ answer'.steps = replay.steps /\ answer'.status = replay.status
        /\ answer'.failed = replay.failed /\ answer'.root = replay.rootAt
        /\ answer'.final = replay.final
    BY <1>3 DEF Ended
  <2>3. ASSUME answer'.kind = "result"
        PROVE  /\ Outcome(replay.steps, replay.status, replay.failed, answer'.root, answer'.final)
               /\ AnswerOf(answer', replay.steps, replay.status, replay.failed)
               /\ answer'.status = "succeeded" => env'.phase = "none" /\ lab' = plan
    BY <1>1, <2>1, <2>2, <2>3 DEF Closing, AnswerOf
  <2>4. Answered(answer', Idle, env', lab')
    BY <1>2, <2>1, <2>3 DEF Answered
  <2>5. KernelOK(replay', env', lab', Committed', tasks', answer')
    BY <1>1, <1>2, <2>1, <2>4 DEF KernelOK, Replaying, Position, Waiting, Resetting, Closing,
       Underway
  <2> QED
    BY <1>1, <2>5, KernelKept
<1>4. CASE UNCHANGED envVars /\ answer' = Ended(TRUE)
  <2>1. env' = env /\ lab' = lab
    BY <1>4 DEF envVars
  <2>2. /\ answer'.kind = IF replay.cancelled THEN "cancelled" ELSE "result"
        /\ answer'.dirty /\ answer'.steps = Append(replay.steps, Failure("cleanup"))
        /\ answer'.status = "cleanup_failed"
        /\ answer'.failed = IF replay.failed = Nothing THEN "cleanup" ELSE replay.failed
        /\ answer'.root = replay.rootAt /\ answer'.final = replay.final
    BY <1>1, <1>4 DEF Ended, ReplayRecord
  <2>3. ASSUME answer'.kind = "result"
        PROVE  /\ Outcome(replay.steps, replay.status, replay.failed, answer'.root, answer'.final)
               /\ AnswerOf(answer', replay.steps, replay.status, replay.failed)
               /\ answer'.status # "succeeded"
    BY <1>1, <2>1, <2>2, <2>3 DEF Closing, AnswerOf
  <2>4. Answered(answer', Idle, env', lab')
    BY <1>2, <2>1, <2>2, <2>3 DEF Answered
  <2>5. KernelOK(replay', env', lab', Committed', tasks', answer')
    BY <1>1, <1>2, <2>1, <2>4 DEF KernelOK, Replaying, Position, Waiting, Resetting, Closing,
       Underway
  <2> QED
    BY <1>1, <2>5, KernelKept
<1> QED
  BY <1>3, <1>4 DEF CleanUp

LEMMA KernelNextInv == KInv /\ [KernelNext]_vars => KInv'
<1> SUFFICES ASSUME KInv, [KernelNext]_vars PROVE KInv'
  OBVIOUS
<1>1. IInv'
  BY KernelUsesLab, NextInv DEF KInv
<1>2. CASE \E root \in Roots : Begin(root)
  BY <1>1, <1>2, BeginStep
<1>3. CASE ResetRoot
  BY <1>1, <1>3, ResetRootStep
<1>4. CASE CaptureBefore
  BY <1>1, <1>4, CaptureBeforeStep
<1>5. CASE ExecuteStep
  BY <1>1, <1>5, ExecuteStepStep
<1>6. CASE ExecuteReturns
  BY <1>1, <1>6, ExecuteReturnsStep
<1>7. CASE StepTimeout
  BY <1>1, <1>7, StepTimeoutStep
<1>8. CASE CancelReplay
  BY <1>1, <1>8, CancelStep
<1>9. CASE CaptureAfter
  BY <1>1, <1>9, CaptureAfterStep
<1>10. CASE Recover
  BY <1>1, <1>10, RecoverStep
<1>11. CASE CleanUp
  BY <1>1, <1>11, CleanUpStep
<1>12. CASE TaskStep /\ UNCHANGED kernelVars
  BY <1>1, <1>12, TaskStepStep
<1>13. CASE UNCHANGED vars
  BY <1>1, <1>13, KernelStutters
<1> QED
  BY <1>2, <1>3, <1>4, <1>5, <1>6, <1>7, <1>8, <1>9, <1>10, <1>11, <1>12, <1>13
  DEF KernelNext, KernelStep

\* A replay reaches, in every state, the situation its position calls for.
THEOREM KernelInvariance == KernelSpec => []KInv
<1> QED
  BY KernelStarts, KernelNextInv, PTL DEF KernelSpec

\* The kernel is one of the callers the environment was specified for
\* (ReplayKernel.replay, InProcessEnvironment): what holds of the environment in
\* InProcessLab holds under the kernel.
THEOREM KernelOverLab == KernelSpec => Spec
<1>1. KernelInit => Init
  BY DEF KernelInit
<1> QED
  BY <1>1, KernelUsesLab, KernelInvariance, PTL DEF KernelSpec, Spec
-------------------------------------------------------------------------------
(* What the invariant says of a result.                                         *)

LEMMA KernelTyped == KInv => KernelTypeOK
<1> SUFFICES ASSUME KInv PROVE KernelTypeOK
  OBVIOUS
<1>1. EnvTypeOK /\ replay \in ReplayRecord /\ Replaying(replay) /\ Waiting(replay, env) /\ PlanOK
  BY DEF KInv, IInv, KernelOK
<1>2. replay.i \in 0..Len(plan) /\ replay.status \in Statuses /\ replay.steps \in Seq(StepResults)
  BY <1>1 DEF ReplayRecord
<1>3. \A i \in DOMAIN replay.steps : replay.steps[i].id \in Ids
  <2> TAKE i \in DOMAIN replay.steps
  <2>1. replay.steps[i] \in StepResults
    BY <1>2, Element
  <2> QED
    BY <2>1 DEF StepResults
<1>4. replay.pc \in {"before", "execute", "wait", "after", "recover"} => replay.i >= 1
  BY <1>1, PlanParts DEF Replaying, Underway
<1> QED
  BY <1>1, <1>2, <1>3, <1>4 DEF KernelTypeOK, Waiting

\* Each way to end, seen through the identifiers of the results.
LEMMA BoundaryIds ==
  ASSUME PlanOK, NEW steps, NEW status, NEW failed, AtBoundary(steps, status, failed)
  PROVE  /\ Len(steps) = 1 /\ steps[1].id \in Boundaries /\ steps[1].id # "cleanup"
         /\ steps[1].status = "failed"
         /\ failed = steps[1].id /\ steps[1].id \notin StepIds
         /\ status = IF failed = "root" THEN "root_diverged" ELSE "failed"
<1>1. \A id \in Boundaries : id \notin StepIds
  BY PlanParts DEF StepIds
<1> QED
  BY <1>1 DEF AtBoundary, Boundaries

LEMMA StepFields ==
  ASSUME NEW j
  PROVE  /\ PassedStep(j).id = plan[j] /\ PassedStep(j).status = "passed"
         /\ PassedStep(j).before = Prefix(j - 1) /\ PassedStep(j).after = Prefix(j)
         /\ Skipped(j).id = plan[j] /\ Skipped(j).status = "skipped"
BY DEF PassedStep, Skipped, Result

LEMMA StepIdsInOrder ==
  ASSUME PlanOK, NEW steps, NEW status, NEW failed, NEW root, NEW final,
         AtStep(steps, status, failed) \/ AtEnd(steps, status, failed, root, final)
  PROVE  /\ Len(steps) = Len(plan)
         /\ \A j \in 1..Len(plan) : steps[j].id = plan[j]
<1>1. CASE AtEnd(steps, status, failed, root, final)
  BY <1>1, StepFields DEF AtEnd
<1>2. CASE AtStep(steps, status, failed)
  <2>1. PICK i \in 1..Len(plan) :
          /\ FailedStep(steps[i], i)
          /\ \A j \in 1..i-1 : steps[j] = PassedStep(j)
          /\ \A j \in i+1..Len(plan) : steps[j] = Skipped(j)
    BY <1>2 DEF AtStep
  <2>2. \A j \in 1..Len(plan) : j = i \/ j \in 1..i-1 \/ j \in i+1..Len(plan)
    BY PlanParts
  <2>3. \A j \in 1..Len(plan) : steps[j].id = plan[j]
    BY <2>1, <2>2, StepFields DEF FailedStep
  <2> QED
    BY <1>2, <2>3 DEF AtStep
<1> QED
  BY <1>1, <1>2

\* The states a result names are those the plan leads to.
Exact(s) ==
  s.id \in StepIds /\ s.status # "skipped" =>
    /\ s.before = Prefix(Place(s.id) - 1)
    /\ s.after \in {Prefix(Place(s.id))} \cup
         (IF s.status = "passed" THEN {} ELSE {Nothing, s.before})

LEMMA OutcomeExact ==
  ASSUME PlanOK, NEW steps, NEW status, NEW failed, NEW root, NEW final,
         Outcome(steps, status, failed, root, final)
  PROVE  \A j \in 1..Len(steps) : Exact(steps[j])
<1>1. CASE AtBoundary(steps, status, failed)
  <2>1. Len(steps) = 1 /\ steps[1].id \notin StepIds
    BY <1>1, BoundaryIds
  <2>2. \A j \in 1..1 : j = 1
    OBVIOUS
  <2> QED
    BY <2>1, <2>2 DEF Exact
<1>2. \A j \in 1..Len(plan) : Place(plan[j]) = j
  BY PlanParts
<1>3. \A j \in 1..Len(plan) : Exact(PassedStep(j)) /\ Exact(Skipped(j))
  BY <1>2, StepFields DEF Exact
<1>4. CASE AtStep(steps, status, failed)
  <2>1. PICK i \in 1..Len(plan) :
          /\ FailedStep(steps[i], i)
          /\ \A j \in 1..i-1 : steps[j] = PassedStep(j)
          /\ \A j \in i+1..Len(plan) : steps[j] = Skipped(j)
    BY <1>4 DEF AtStep
  <2>2. \A j \in 1..Len(plan) : j = i \/ j \in 1..i-1 \/ j \in i+1..Len(plan)
    BY PlanParts
  <2>3. Exact(steps[i])
    BY <1>2, <2>1 DEF Exact, FailedStep
  <2>4. \A j \in 1..Len(plan) : Exact(steps[j])
    BY <1>3, <2>1, <2>2, <2>3
  <2> QED
    BY <1>4, <2>4 DEF AtStep
<1>5. CASE AtEnd(steps, status, failed, root, final)
  BY <1>3, <1>5 DEF AtEnd
<1> QED
  BY <1>1, <1>4, <1>5 DEF Outcome

\* What the validator asks of the results: no identifier twice, the steps in the
\* order of the plan, and the first failure named.
InOrder(steps) ==
  /\ \A i, j \in 1..Len(steps) : steps[i].id = steps[j].id => i = j
  /\ \A i \in 1..Len(steps) : steps[i].id \in StepIds =>
       i \in 1..Len(plan) /\ \A j \in 1..i : steps[j].id = plan[j]

FailsFirst(steps, failed) ==
  \E i \in 1..Len(steps) :
    /\ steps[i].status = "failed" /\ steps[i].id = failed
    /\ \A j \in 1..Len(steps) : steps[j].status = "failed" => i <= j

Succeeds(steps, failed, root, final) ==
  /\ Len(steps) # 0 /\ failed = Nothing /\ root # Nothing /\ final # Nothing
  /\ \A i \in 1..Len(steps) : steps[i].status = "passed"

LEMMA OutcomeInOrder ==
  ASSUME PlanOK, NEW steps, NEW status, NEW failed, NEW root, NEW final,
         Outcome(steps, status, failed, root, final)
  PROVE  InOrder(steps) /\ \A j \in 1..Len(steps) : steps[j].id # "cleanup"
<1>1. CASE AtBoundary(steps, status, failed)
  <2>1. Len(steps) = 1 /\ steps[1].id \notin StepIds /\ steps[1].id # "cleanup"
    BY <1>1, BoundaryIds
  <2>2. \A j \in 1..1 : j = 1
    OBVIOUS
  <2> QED
    BY <2>1, <2>2 DEF InOrder
<1>2. CASE AtStep(steps, status, failed) \/ AtEnd(steps, status, failed, root, final)
  <2>1. Len(steps) = Len(plan) /\ \A j \in 1..Len(plan) : steps[j].id = plan[j]
    BY <1>2, StepIdsInOrder
  <2>2. /\ \A i, j \in 1..Len(plan) : plan[i] = plan[j] => i = j
        /\ \A i \in 1..Len(plan) : plan[i] \notin Boundaries
        /\ Len(plan) \in Nat
    BY PlanParts
  <2>3. \A i \in 1..Len(plan) : \A j \in 1..i : j \in 1..Len(plan)
    BY <2>2
  <2> QED
    BY <2>1, <2>2, <2>3 DEF InOrder, Boundaries
<1> QED
  BY <1>1, <1>2 DEF Outcome

LEMMA OutcomeFails ==
  ASSUME PlanOK, NEW steps, NEW status, NEW failed, NEW root, NEW final,
         Outcome(steps, status, failed, root, final)
  PROVE  \/ /\ status = "succeeded" /\ Succeeds(steps, failed, root, final)
         \/ /\ status \in {"failed", "root_diverged"} /\ failed # Nothing
            /\ FailsFirst(steps, failed)
            /\ status = "root_diverged" => failed = "root"
<1>1. CASE AtBoundary(steps, status, failed)
  <2>1. /\ Len(steps) = 1 /\ steps[1].id = failed /\ steps[1].status = "failed"
        /\ failed \in Boundaries /\ status = IF failed = "root" THEN "root_diverged" ELSE "failed"
    BY <1>1, BoundaryIds
  <2>2. 1 \in 1..1 /\ \A j \in 1..1 : 1 <= j
    OBVIOUS
  <2>3. FailsFirst(steps, failed)
    BY <2>1, <2>2 DEF FailsFirst
  <2> QED
    BY <2>1, <2>3, NoResultAssumption
<1>2. CASE AtStep(steps, status, failed)
  <2>1. PICK i \in 1..Len(plan) :
          /\ failed = plan[i] /\ FailedStep(steps[i], i)
          /\ \A j \in 1..i-1 : steps[j] = PassedStep(j)
    BY <1>2 DEF AtStep
  <2>2. \A j \in 1..Len(plan) : i <= j \/ j \in 1..i-1
    BY PlanParts
  <2>3. \A j \in 1..Len(plan) : steps[j].status = "failed" => i <= j
    BY <2>1, <2>2, StepFields
  <2>4. Len(steps) = Len(plan) /\ status = "failed" /\ failed # Nothing
    BY <1>2, <2>1, PlanParts DEF AtStep
  <2>5. FailsFirst(steps, failed)
    BY <2>1, <2>3, <2>4 DEF FailsFirst, FailedStep
  <2> QED
    BY <2>4, <2>5
<1>3. CASE AtEnd(steps, status, failed, root, final)
  <2>1. <<>> # Nothing /\ plan # Nothing /\ Len(plan) # 0
    BY NoResultAssumption, PlanParts
  <2>2. \A j \in 1..Len(plan) : steps[j].status = "passed"
    BY <1>3, StepFields DEF AtEnd
  <2> QED
    BY <1>3, <2>1, <2>2 DEF AtEnd, Succeeds
<1> QED
  BY <1>1, <1>2, <1>3 DEF Outcome

\* A result whose clean-up went well.
LEMMA CleanAccepted ==
  ASSUME PlanOK, NEW r, r.steps \in Seq(StepResults),
         Outcome(r.steps, r.status, r.failed, r.root, r.final)
  PROVE  Accepted(r)
<1> DEFINE steps == r.steps
           n     == Len(steps)
           ids   == [i \in DOMAIN steps |-> steps[i].id]
           Bad   == {i \in DOMAIN steps : steps[i].status = "failed"}
<1>1. DOMAIN steps = 1..n /\ n \in Nat /\ DOMAIN ids = 1..n
  OBVIOUS
<1>2. InOrder(steps) /\ \A j \in 1..n : steps[j].id # "cleanup"
  BY OutcomeInOrder
<1>3. \A i \in 1..n : ids[i] = steps[i].id
  BY <1>1
<1>4. Bad = {i \in 1..n : steps[i].status = "failed"}
  BY <1>1
<1>5. DOMAIN plan = 1..Len(plan)
  BY PlanParts
<1>6. \A i \in 1..n : \A j \in 1..i : j \in 1..n
  BY <1>1
<1>7. n # 0 => ids # <<>>
  BY <1>1
<1> HIDE DEF n, ids, Bad
<1>8. \A i, j \in DOMAIN ids : ids[i] = ids[j] => i = j
  BY <1>1, <1>2, <1>3 DEF InOrder, n
<1>9. \A i \in DOMAIN ids : ids[i] \in StepIds =>
        i \in DOMAIN plan /\ \A j \in 1..i : ids[j] = plan[j]
  <2> TAKE i \in DOMAIN ids
  <2> HAVE ids[i] \in StepIds
  <2>1. i \in 1..n /\ steps[i].id \in StepIds
    BY <1>1, <1>3
  <2>2. i \in 1..Len(plan) /\ \A j \in 1..i : steps[j].id = plan[j]
    BY <1>2, <2>1 DEF InOrder, n
  <2> QED
    BY <1>3, <1>5, <1>6, <2>1, <2>2
<1>10. ~ \E i \in Bad : ids[i] = "cleanup"
  BY <1>2, <1>3, <1>4
<1>11. CASE r.status = "succeeded" /\ Succeeds(steps, r.failed, r.root, r.final)
  <2>1. /\ ids # <<>> /\ r.failed = Nothing /\ r.root # Nothing /\ r.final # Nothing
        /\ \A i \in DOMAIN steps : steps[i].status = "passed"
    BY <1>1, <1>7, <1>11 DEF Succeeds, n
  <2> QED
    BY <1>8, <1>9, <1>11, <2>1 DEF Accepted, ids
<1>12. CASE /\ r.status \in {"failed", "root_diverged"} /\ FailsFirst(steps, r.failed)
            /\ r.status = "root_diverged" => r.failed = "root"
  <2>1. \E i \in Bad : /\ \A j \in Bad : i <= j
                       /\ r.failed = ids[i]
                       /\ r.status = "root_diverged" => ids[i] = "root"
    BY <1>3, <1>4, <1>12 DEF FailsFirst, n
  <2> QED
    BY <1>8, <1>9, <1>10, <1>12, <2>1 DEF Accepted, ids, Bad
<1> QED
  BY <1>11, <1>12, OutcomeFails

\* The failure of the clean-up comes last, and is named when nothing failed before.
LEMMA DirtyAccepted ==
  ASSUME PlanOK, NEW r, NEW done, NEW status, NEW failed,
         Outcome(done, status, failed, r.root, r.final),
         r.steps = Append(done, Failure("cleanup")), r.status = "cleanup_failed",
         r.failed = IF failed = Nothing THEN "cleanup" ELSE failed
  PROVE  Accepted(r)
<1> DEFINE steps == r.steps
           m     == Len(done)
           n     == m + 1
           ids   == [i \in DOMAIN steps |-> steps[i].id]
           Bad   == {i \in DOMAIN steps : steps[i].status = "failed"}
<1>1. done \in Seq(StepResults)
  BY DEF Outcome
<1>2. /\ Failure("cleanup") \in StepResults /\ Failure("cleanup").id = "cleanup"
      /\ Failure("cleanup").status = "failed"
  BY FailureType DEF Boundaries
<1>3. /\ m \in Nat /\ DOMAIN steps = 1..n /\ steps[n] = Failure("cleanup")
      /\ \A j \in 1..m : steps[j] = done[j]
  BY <1>1, <1>2
<1>4. InOrder(done) /\ \A j \in 1..m : done[j].id # "cleanup"
  BY OutcomeInOrder
<1>5. DOMAIN ids = 1..n /\ \A i \in 1..n : ids[i] = steps[i].id
  BY <1>3
<1>6. Bad = {i \in 1..n : steps[i].status = "failed"}
  BY <1>3
<1>7. DOMAIN plan = 1..Len(plan)
  BY PlanParts
<1> HIDE DEF steps, ids, Bad
<1>8. /\ \A j \in 1..n : j = n \/ j \in 1..m
      /\ n \in 1..n /\ \A j \in 1..m : j \in 1..n /\ j <= n /\ \A k \in 1..j : k \in 1..m
  BY <1>3
<1> HIDE DEF n
<1>9. ids[n] = "cleanup" /\ n \in Bad /\ \A j \in 1..m : ids[j] = done[j].id
  BY <1>2, <1>3, <1>5, <1>6, <1>8
<1> HIDE DEF m
<1>10. \A i, j \in DOMAIN ids : ids[i] = ids[j] => i = j
  BY <1>4, <1>5, <1>8, <1>9 DEF InOrder, m
<1>11. "cleanup" \notin StepIds
  BY PlanParts DEF StepIds, Boundaries
<1>12. \A i \in DOMAIN ids : ids[i] \in StepIds =>
         i \in DOMAIN plan /\ \A j \in 1..i : ids[j] = plan[j]
  <2> TAKE i \in DOMAIN ids
  <2> HAVE ids[i] \in StepIds
  <2>1. i \in 1..m /\ done[i].id \in StepIds
    BY <1>5, <1>8, <1>9, <1>11
  <2>2. i \in 1..Len(plan) /\ \A j \in 1..i : done[j].id = plan[j]
    BY <1>4, <2>1 DEF InOrder, m
  <2> QED
    BY <1>7, <1>8, <1>9, <2>1, <2>2
<1>13. \E i \in Bad : ids[i] = "cleanup"
  BY <1>9
<1>14. \E i \in Bad : (\A j \in Bad : i <= j) /\ r.failed = ids[i]
  <2>1. CASE Succeeds(done, failed, r.root, r.final)
    <3>1. failed = Nothing /\ \A i \in 1..m : done[i].status # "failed"
      BY <2>1 DEF Succeeds, m
    <3>2. \A j \in Bad : j = n
      BY <1>3, <1>6, <1>8, <3>1
    <3>3. n <= n
      BY <1>3 DEF n
    <3> QED
      BY <1>9, <3>1, <3>2, <3>3
  <2>2. CASE FailsFirst(done, failed) /\ failed # Nothing
    <3>1. PICK i \in 1..m : /\ done[i].status = "failed" /\ done[i].id = failed
                            /\ \A j \in 1..m : done[j].status = "failed" => i <= j
      BY <2>2 DEF FailsFirst, m
    <3>2. i \in Bad /\ ids[i] = failed /\ i <= n
      BY <1>3, <1>6, <1>8, <1>9, <3>1
    <3>3. \A j \in Bad : i <= j
      BY <1>3, <1>6, <1>8, <3>1, <3>2
    <3> QED
      BY <2>2, <3>2, <3>3
  <2> QED
    BY <2>1, <2>2, OutcomeFails
<1> QED
  BY <1>10, <1>12, <1>13, <1>14 DEF Accepted, steps, ids, Bad

LEMMA AnswerSound == KInv => ResultAccepted /\ FingerprintsExact /\ SuccessIsWholePlan
<1> SUFFICES ASSUME KInv, Finished
             PROVE  ResultAccepted /\ FingerprintsExact /\ SuccessIsWholePlan
  BY DEF ResultAccepted, FingerprintsExact, SuccessIsWholePlan
<1>1. PlanOK /\ Answered(answer, replay, env, lab)
  BY DEF KInv, KernelOK
<1>2. PICK steps, status, failed : /\ Outcome(steps, status, failed, answer.root, answer.final)
                                   /\ AnswerOf(answer, steps, status, failed)
  BY <1>1 DEF Finished, Answered
<1>3. steps \in Seq(StepResults) /\ \A j \in 1..Len(steps) : Exact(steps[j])
  BY <1>1, <1>2, OutcomeExact DEF Outcome
<1>4. CASE answer.dirty
  <2>1. /\ answer.steps = Append(steps, Failure("cleanup")) /\ answer.status = "cleanup_failed"
        /\ answer.failed = IF failed = Nothing THEN "cleanup" ELSE failed
    BY <1>2, <1>4 DEF AnswerOf
  <2>2. Accepted(answer)
    BY <1>1, <1>2, <2>1, DirtyAccepted
  <2>3. Exact(Failure("cleanup"))
    <3>1. "cleanup" \notin StepIds
      BY <1>1, PlanParts DEF StepIds, Boundaries
    <3> QED
      BY <3>1, FailureType DEF Exact, Boundaries
  <2>4. \A j \in DOMAIN answer.steps : Exact(answer.steps[j])
    <3>1. Failure("cleanup") \in StepResults
      BY FailureType DEF Boundaries
    <3>2. /\ DOMAIN answer.steps = 1..Len(steps)+1
          /\ answer.steps[Len(steps) + 1] = Failure("cleanup")
          /\ \A j \in 1..Len(steps) : answer.steps[j] = steps[j]
      BY <1>3, <2>1, <3>1
    <3>3. \A j \in 1..Len(steps)+1 : j = Len(steps) + 1 \/ j \in 1..Len(steps)
      BY <1>3
    <3> QED
      BY <1>3, <2>3, <3>2, <3>3
  <2> QED
    BY <2>1, <2>2, <2>4 DEF ResultAccepted, FingerprintsExact, SuccessIsWholePlan, Exact
<1>5. CASE ~answer.dirty
  <2>1. answer.steps = steps /\ answer.status = status /\ answer.failed = failed
    BY <1>2, <1>5 DEF AnswerOf
  <2>2. Accepted(answer)
    BY <1>1, <1>2, <1>3, <2>1, CleanAccepted
  <2>3. \A j \in DOMAIN answer.steps : Exact(answer.steps[j])
    BY <1>3, <2>1
  <2>4. ASSUME answer.status = "succeeded"
        PROVE  /\ \A i \in DOMAIN plan : verdict[i] = "allowed"
               /\ Len(answer.steps) = Len(plan) /\ lab = plan
    <3>1. AtEnd(steps, status, failed, answer.root, answer.final)
      BY <1>2, <2>1, <2>4 DEF Outcome, AtBoundary, AtStep
    <3>2. lab = plan
      BY <1>1, <2>4 DEF Answered, Finished
    <3> QED
      BY <1>1, <2>1, <3>1, <3>2, PlanParts DEF AtEnd
  <2> QED
    BY <2>2, <2>3, <2>4 DEF ResultAccepted, FingerprintsExact, SuccessIsWholePlan, Exact
<1> QED
  BY <1>4, <1>5

LEMMA NothingOpen == KInv => CleanReturn
BY DEF KInv, KernelOK, Answered, Waiting, CleanReturn

\* What ReplayKernel.replay answers is a result its own model accepts; every state
\* it reports is one its plan leads to, whatever the environment raised, timed out
\* or left unsettled; and success stands for the whole plan, with a clean return.
THEOREM ReplaySafety == KernelSpec => []ReplaySound
<1>1. KInv => ReplaySound
  BY KernelTyped, AnswerSound, NothingOpen DEF ReplaySound, ResultSound
<1> QED
  BY <1>1, KernelInvariance, PTL
===============================================================================
