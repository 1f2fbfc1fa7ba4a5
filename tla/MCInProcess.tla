------------------------------ MODULE MCInProcess ------------------------------
(* Who uses the environment is chosen at the start: callers of any kind, the    *)
(* replay kernel, observers beside other callers, or the M3 qualification.      *)
EXTENDS ReplayKernel, RuntimeQualification, TLC

CONSTANTS write, rewrite, read, again, k1, k2, k3

\* A write, a read and another write, authorised one after the other, and
\* another envelope with the key of the first write.
MCEnvelopes == {write, rewrite, read, again}
MCKey    == write :> k1 @@ rewrite :> k1 @@ read :> k2 @@ again :> k3
MCPermit == write :> NoSpend @@ rewrite :> Nothing
              @@ read :> [requests |-> 1, writes |-> 1]
              @@ again :> [requests |-> 2, writes |-> 1]
MCWrites == {write, rewrite, again}

\* The second plan has a step that is not authorised for its place.
MCPlans   == {<<write, read, again>>, <<write, again, read>>}
MCActions == <<write, read, again>>

\* Bound on the actions of one run that has observers.
ObservedSlots == 2

VARIABLE user
all == <<user, vars, m3, obsVars>>

Kernel(A)  == user = "kernel" /\ A /\ UNCHANGED <<user, m3, obsVars>>
Driving(A) == user = "m3" /\ A /\ UNCHANGED <<user, kernelVars>>

AllInit ==
  /\ KernelInit /\ QualificationInit
  /\ \/ user = "kernel"
     \/ /\ user \in {"callers", "observers", "m3"}
        /\ plan = <<write, read, again>> /\ \A i \in DOMAIN plan : verdict[i] = "allowed"

AllNext ==
  \/ user = "callers" /\ Next /\ UNCHANGED <<user, kernelVars, m3, obsVars>>
  \/ /\ user = "observers" /\ ObservationNext /\ env'.used.requests <= ObservedSlots
     /\ UNCHANGED <<user, kernelVars, m3>>
  \/ Kernel(KernelNext) \/ Driving(QualificationNext)

AllSpec == AllInit /\ [][AllNext]_all
             /\ WF_all(Kernel(KernelStep)) /\ WF_all(Driving(DriverStep))

\* A replay returns (ReplayKernel.replay), and the M3 qualification ends with its
\* receipts or without (_execute_runtime_qualifications), even when the handler of
\* an action never does.
ReplaysEnd == ReplayReturns /\ (user = "m3" => QualificationEnds)
================================================================================
