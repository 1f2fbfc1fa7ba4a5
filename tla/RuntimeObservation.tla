-------------------------- MODULE RuntimeObservation --------------------------
(***************************************************************************)
(* RuntimeObservationController over the in-process lab                    *)
(* (adapters/telemetry/opentelemetry/.../runtime.py): observers that each   *)
(* want the execution of one envelope observed, and a process-local ledger  *)
(* of the observations that were made.                                     *)
(*                                                                         *)
(* The controller's lock is held across two waits for the environment: the  *)
(* execution and the claim of its receipt.  The environment is not the      *)
(* controller's alone: others may execute, clean up, reset or claim between *)
(* the two.  Every call runs under the deadline of its envelope, which, like *)
(* a cancellation, can reach it at each of its waits.                       *)
(***************************************************************************)
EXTENDS InProcessLab

CONSTANTS
  Observers,    \* calls of observe that may be open at one time
  MaxRecords,   \* _MAX_IDEMPOTENCY_RECORDS
  MaxCalls      \* bound on calls of observe

ASSUME ObserversAssumption == Nothing \notin Observers \cup Envelopes
ASSUME ObservationBounds   == MaxRecords \in Nat /\ MaxCalls \in Nat

VARIABLES
  obs,      \* the calls
  ctl,      \* the attributes of the controller
  results,  \* the results it built, in order: its ledgers of traces and receipts
  started   \* the envelopes whose execution it started, in order (history)
obsVars == <<obs, ctl, results, started>>

NoCall == [pc |-> "idle", of |-> Nothing, receipt |-> Nothing]

ObservationInit ==
  /\ Init
  /\ obs = [o \in Observers |-> NoCall]
  /\ ctl = [holder |-> Nothing, poisoned |-> FALSE, calls |-> 0,
            ledger |-> [k \in Keys |-> Nothing]]
  /\ results = <<>> /\ started = <<>>
-------------------------------------------------------------------------------
At(o, pc) == obs[o].pc = pc
Recorded  == {k \in Keys : ctl.ledger[k] # Nothing}

\* The call ends and leaves nothing behind.
Rejected(o) == /\ obs' = [obs EXCEPT ![o] = NoCall]
               /\ UNCHANGED <<ctl, results, started>>

\* Mutant of GivenUp: only a failure poisons, not a caller that stops waiting.
GivenUpQuietly(o) ==
  /\ obs' = [obs EXCEPT ![o] = NoCall]
  /\ ctl' = [ctl EXCEPT !.holder = IF @ = o THEN Nothing ELSE @]
  /\ UNCHANGED <<results, started>>

\* The call ends without a result and the controller with it: no observation
\* is ever begun again.
GivenUp(o) ==
  /\ obs' = [obs EXCEPT ![o] = NoCall]
  /\ ctl' = [ctl EXCEPT !.holder = IF @ = o THEN Nothing ELSE @, !.poisoned = TRUE]
  /\ UNCHANGED <<results, started>>

Observe(o, e) ==
  /\ At(o, "idle") /\ ctl.calls < MaxCalls
  /\ obs' = [obs EXCEPT ![o] = [NoCall EXCEPT !.pc = "waiting", !.of = e]]
  /\ ctl' = [ctl EXCEPT !.calls = @ + 1]
  /\ UNCHANGED <<envVars, results, started>>

\* The lock is had.  A key that is recorded is answered from the ledger, or
\* refused if it stood for another request; so is a key too many, and a route or
\* a source that is not the repository's.
Enter(o) ==
  LET key == Key[obs[o].of]
  IN  /\ At(o, "waiting") /\ ctl.holder = Nothing
      /\ \/ /\ ~ctl.poisoned /\ ctl.ledger[key] = Nothing
            /\ Cardinality(Recorded) < MaxRecords
            /\ obs' = [obs EXCEPT ![o].pc = "calling"]
            /\ ctl' = [ctl EXCEPT !.holder = o]
            /\ UNCHANGED <<results, started>>
         \/ Rejected(o)
      /\ UNCHANGED envVars

\* The deadline passes, or the caller is cancelled, while the call waits for
\* the controller's lock or, holding it, for the environment's.
StopWaiting(o) ==
  /\ obs[o].pc \in {"waiting", "calling", "claiming"}
  /\ GivenUp(o) /\ UNCHANGED envVars

Holding(o, pc, receipt) ==
  /\ obs' = [obs EXCEPT ![o].pc = pc, ![o].receipt = receipt]
  /\ UNCHANGED <<ctl, results>>

\* execute_observed, once the environment's lock is free.
Call(o) ==
  LET e == obs[o].of
  IN  /\ At(o, "calling") /\ env.phase # "executing"
      /\ \/ Repeat(e) /\ Holding(o, "claiming", env.cache[Key[e]]) /\ UNCHANGED started
         \/ /\ Reserve(e) /\ Holding(o, "executing", Nothing)
            /\ started' = Append(started, e)
         \/ GivenUp(o) /\ UNCHANGED envVars

\* The execution comes to its end, or is given up with the call.
Return(o) ==
  /\ At(o, "executing")
  /\ \/ /\ Commit
        /\ Holding(o, "claiming", env'.cache[Key[obs[o].of]]) /\ UNCHANGED started
     \/ (Fail \/ Timeout \/ Abandon) /\ GivenUp(o)

\* The result is entered into the ledgers, and the lock given back.
Record(o, result) ==
  /\ ctl' = [ctl EXCEPT !.holder = Nothing, !.ledger[Key[obs[o].of]] = obs[o].of]
  /\ results' = Append(results, result)

\* claim_runtime_observation, then captures, trace, deltas and receipt in one
\* step.  The claim is taken even if what follows fails.
Finish(o) ==
  LET r == obs[o].receipt
  IN  /\ At(o, "claiming") /\ env.phase # "executing"
      /\ \/ /\ Claim(r)
            /\ obs' = [obs EXCEPT ![o] = NoCall]
            /\ Record(o, [receipt |-> r, claim |-> Len(issued')])
            /\ UNCHANGED started
         \/ GivenUp(o) /\ (Claim(r) \/ UNCHANGED envVars)

ObserverStep(o) ==
  \/ \E e \in Envelopes : Observe(o, e)
  \/ Enter(o) \/ StopWaiting(o) \/ Call(o) \/ Return(o) \/ Finish(o)

\* The other callers of the environment.  They wait for its lock like the
\* controller, and only they end what they started.
Executing == \E o \in Observers : At(o, "executing")

OtherCaller ==
  /\ \/ Reset \/ Cleanup
     \/ \E e \in Envelopes : Repeat(e) \/ Reserve(e)
     \/ ~Executing /\ (Commit \/ Fail \/ Timeout \/ Abandon)
     \/ \E r \in Held \ {Nothing} : Claim(r)
  /\ UNCHANGED obsVars

ObservationNext == \/ \E o \in Observers : ObserverStep(o)
                   \/ OtherCaller
                   \/ TaskStep /\ UNCHANGED obsVars

ObservationSpec == ObservationInit /\ [][ObservationNext]_<<envVars, obsVars>>
-------------------------------------------------------------------------------
(* Properties. *)

\* Every result stands on a claim of its own, of the receipt it reports, and no
\* action has two, whatever is reset or cleaned up between an execution and its
\* claim and however its callers repeat themselves (observe, _observe_locked).
ObservedOnce ==
  /\ \A i \in DOMAIN results :
       /\ results[i].claim \in DOMAIN issued
       /\ issued[results[i].claim] = results[i].receipt
  /\ \A i, j \in DOMAIN results :
       Key[results[i].receipt.of] = Key[results[j].receipt.of]
         \/ results[i].claim = results[j].claim => i = j

\* The executions the controller started and has no result of.
Unresolved == {i \in DOMAIN started : ctl.ledger[Key[started[i]]] = Nothing}

\* An execution that ended without a result is the last one: the controller is
\* poisoned and runs nothing more.  So it never starts an action twice, however
\* its callers retry and whoever resets the lab ("poisoned after an uncertain
\* execution", observe).
UncertainIsFinal ==
  /\ \A i, j \in DOMAIN started : Key[started[i]] = Key[started[j]] => i = j
  /\ \A i \in Unresolved :
       \/ \E o \in Observers : obs[o].pc \in {"executing", "claiming"} /\ obs[o].of = started[i]
       \/ ctl.poisoned /\ ctl.holder = Nothing

\* What is observed is executed and claimed once, and nothing is observed after
\* an execution nobody can be sure of (observe).
ObservationSound == ObservedOnce /\ UncertainIsFinal
===============================================================================
