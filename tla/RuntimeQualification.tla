------------------------- MODULE RuntimeQualification -------------------------
(***************************************************************************)
(* The qualification of runtime observation (stateweaver.cli               *)
(* .runtime_qualification): one controller on an environment of its own    *)
(* observes the actions of the chain one after the other on one clean root, *)
(* verifies each receipt against the controller's ledgers, projects it into *)
(* a qualification receipt, and cleans up whatever happens.                 *)
(***************************************************************************)
EXTENDS RuntimeObservation

CONSTANTS
  Driver,          \* the observer that drives
  ObservedActions  \* OBSERVED_LAB_ACTIONS: the envelopes of the chain

ASSUME DriverAssumption ==
  Driver \in Observers /\ ObservedActions \in Seq(Envelopes) \ {<<>>}

VARIABLE m3   \* the locals of _execute_runtime_qualifications
m3Vars == <<m3, envVars, obsVars>>

QualificationInit ==
  ObservationInit /\ m3 = [pc |-> "open", i |-> 1, receipts |-> <<>>, qualified |-> FALSE]

M3At(pc) == m3.pc = pc

\* create_root_seed
OpenRoot == /\ M3At("open") /\ Reset
            /\ m3' = [m3 EXCEPT !.pc = "next"]
            /\ UNCHANGED obsVars

ObserveNext ==
  /\ M3At("next")
  /\ Observe(Driver, ObservedActions[m3.i])
  /\ m3' = [m3 EXCEPT !.pc = "observing"]

\* verify and the validators of the projection: the receipt is in the ledgers,
\* is the one of this action, and changed the path that was to be observed.
Qualifies(result, i) ==
  /\ \E j \in DOMAIN results : results[j] = result
  /\ result.receipt.of = ObservedActions[i]
  /\ Len(result.receipt.after) # Len(result.receipt.before)

\* Mutant of Qualified: the last result stands for every action.
QualifiedLast == results # <<>>

\* observe returned a result for this action.
Qualified == /\ Len(results) = m3.i
             /\ Qualifies(results[m3.i], m3.i)

\* observe has returned or raised.  Anything that is not a verified receipt ends
\* the loop.
TakeResult ==
  /\ M3At("observing") /\ At(Driver, "idle")
  /\ m3' = IF Qualified
           THEN [m3 EXCEPT !.receipts = Append(@, results[Len(results)].receipt),
                  !.i = @ + 1,
                  !.pc = IF m3.i = Len(ObservedActions) THEN "cleanup" ELSE "next"]
           ELSE [m3 EXCEPT !.pc = "cleanup"]
  /\ UNCHANGED <<envVars, obsVars>>

\* The finally clause; with the whole chain observed and no attempt to leave the
\* process, the receipts are the qualification.
CleanUpRoot ==
  /\ M3At("cleanup")
  /\ \/ /\ Cleanup
        /\ \E denied \in BOOLEAN :
             m3' = [m3 EXCEPT !.pc = "ended", !.qualified =
                      ~denied /\ Len(m3.receipts) = Len(ObservedActions)]
     \/ m3' = [m3 EXCEPT !.pc = "ended"] /\ UNCHANGED envVars
  /\ UNCHANGED obsVars

DriverCall == /\ \/ Enter(Driver) \/ StopWaiting(Driver) \/ Call(Driver)
                 \/ Return(Driver) \/ Finish(Driver)
              /\ UNCHANGED m3

DriverStep == OpenRoot \/ ObserveNext \/ TakeResult \/ CleanUpRoot \/ DriverCall

QualificationNext == DriverStep \/ (TaskStep /\ UNCHANGED <<m3, obsVars>>)

\* The deadline of an envelope does pass; a handler need not end.
QualificationSpec ==
  QualificationInit /\ [][QualificationNext]_m3Vars /\ WF_m3Vars(DriverStep)
-------------------------------------------------------------------------------
(* Properties. *)

\* The receipts of a qualification are the actions of the chain in their order,
\* each observed from the state the one before it left, starting with the clean
\* root, and each claimed once (OBSERVED_CHAIN_LENGTH sequential observations
\* "in one clean lab root").
QualifiedChain ==
  m3.qualified =>
    \A i \in DOMAIN ObservedActions :
      /\ m3.receipts[i].before = SubSeq(ObservedActions, 1, i - 1)
      /\ m3.receipts[i].after = SubSeq(ObservedActions, 1, i)
      /\ m3.receipts[i] \in {issued[j] : j \in DOMAIN issued}

\* The qualification ends, with its receipts or without, even when an action
\* hangs.
QualificationEnds == <>M3At("ended")
===============================================================================
