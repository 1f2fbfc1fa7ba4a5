---------------------------- MODULE HostedAdmission ----------------------------
(***************************************************************************)
(* The hosted qualification (stateweaver.cli.hosted_qualification and       *)
(* stateweaver.evidence.hosted_qualification).  A workflow on a hosted       *)
(* runner leaves three directories: the live provider tests (M2), the       *)
(* materialized search (M4), and two replays of its winner (M5), one in the *)
(* process and one in containers.  The producer binds them into one receipt *)
(* and the consumer, which has nothing but the receipt and what the         *)
(* attestation service says of it, checks it again, all but the revision   *)
(* of the live tests.                                                      *)
(*                                                                         *)
(* A workflow is a record with the revision it ran at and the attempt; two   *)
(* attempts leave different allocations and containers.  Bytes and digests  *)
(* are the value they stand for.                                           *)
(***************************************************************************)
EXTENDS Integers, FiniteSets, Sequences

CONSTANT Workflows    \* the workflows whose directories are at hand

Providers    == {"browser", "cache", "clock", "database", "filesystem", "queue"}
CleanupCases == <<"success", "timeout", "cancellation", "partial-failure">>
Siblings     == 1..4
ControlNames == {"masked_response", "mock_only_response", "fresh_session", "same_tenant_document"}
CleanRoots   == 1..5
CleanRun(i)      == <<"clean-root", i>>
PatchedRun       == <<"patched", 1>>
ControlRun(name) == <<name, 1>>
RunNames == {CleanRun(i) : i \in CleanRoots} \cup {PatchedRun} \cup {ControlRun(n) : n \in ControlNames}
PlanLength == 2    \* calls of a plan of this model; the code's have eight
-------------------------------------------------------------------------------
(* What a workflow leaves.                                                 *)

\* The real-provider test, its cleanup cases, and the runner's inventories.
LiveOf(w) ==
  [commit |-> w.revision,
   worlds |-> [s \in Siblings |-> [p \in Providers |->
                 [baseline |-> <<p, 0>>, mutated |-> <<p, s>>, restored |-> <<p, 0>>]]],
   cases |-> CleanupCases, before |-> w, after |-> w, residue |-> {}]

SearchOf(w) ==
  [revision |-> w.revision, m3 |-> [revision |-> w.revision, chain |-> w.revision],
   chain |-> w.revision, winner |-> w, released |-> {<<w, i>> : i \in 1..7},
   receipts |-> {<<w, "receipt", i>> : i \in 1..7}, residual |-> {}]

RunPlan(r, w) == [for |-> IF r \in {ControlRun(n) : n \in ControlNames} THEN r ELSE PatchedRun,
                 of |-> w.revision]
Mode(r) == IF r = PatchedRun THEN "patched" ELSE "vulnerable"
RunRoot(r, w) == <<Mode(r), w.revision>>
Verdict(r) == CASE r = PatchedRun -> <<"SATISFIED", 403>>
                [] r = ControlRun("fresh_session") -> <<"SATISFIED", 403>>
                [] r = ControlRun("mock_only_response") -> <<"INCONCLUSIVE", 200>>
                [] r \in {ControlRun("masked_response"), ControlRun("same_tenant_document")} ->
                     <<"SATISFIED", 200>>
                [] OTHER -> <<"VIOLATED", 200>>
ProcessResult(r, w) == <<r, w.revision, Verdict(r)>>

ProcessOf(w) ==
  [revision |-> w.revision, m4 |-> SearchOf(w), plan |-> RunPlan(PatchedRun, w),
   plans |-> [r \in RunNames |-> RunPlan(r, w)], roots |-> [r \in RunNames |-> RunRoot(r, w)],
   results |-> [r \in RunNames |-> ProcessResult(r, w)]]

\* A checkpoint: the state after so many calls, sealed, with the six providers
\* that each hold a copy.
CheckpointOf(r, w, i) ==
  [bytes |-> <<RunRoot(r, w), IF i = 0 THEN "seed" ELSE RunPlan(r, w), i>>,
   held |-> [p \in Providers |-> <<RunRoot(r, w), IF i = 0 THEN "seed" ELSE RunPlan(r, w), i>>]]

\* One run of the materialized application, as MaterializedRun makes it.
WitnessOf(r, w) ==
  [run |-> r, plan |-> RunPlan(r, w), root |-> RunRoot(r, w),
   result |-> ProcessResult(r, w),
   request |-> [run |-> r, plan |-> RunPlan(r, w), root |-> RunRoot(r, w), mode |-> Mode(r)],
   image |-> [source |-> w.revision, containers |-> {<<w, r, "app">>, <<w, r, "bridge">>}],
   initial |-> CheckpointOf(r, w, 0), final |-> CheckpointOf(r, w, PlanLength),
   steps |-> [i \in 1..PlanLength |->
                [call |-> <<RunPlan(r, w), i>>, before |-> CheckpointOf(r, w, i - 1),
                 after |-> CheckpointOf(r, w, i),
                 answer |-> IF i = PlanLength THEN Verdict(r) ELSE <<"NONE", 200>>]],
   destroyed |-> TRUE]

\* _actual_signature: neither the run's name nor its containers.
ActualSignature(s) ==
  [request |-> [s.request EXCEPT !.run = PatchedRun], initial |-> s.initial,
   steps |-> s.steps, final |-> s.final]

ActualOf(w) ==
  LET runs == [r \in RunNames |-> WitnessOf(r, w)]
  IN  [revision |-> w.revision, m4 |-> SearchOf(w), lineage |-> w, process |-> ProcessOf(w),
       plan |-> RunPlan(PatchedRun, w), runs |-> runs,
       signatures |-> [i \in CleanRoots |-> ActualSignature(runs[CleanRun(i)])],
       image |-> runs[CleanRun(1)].image, initial |-> runs[CleanRun(1)].initial,
       cleanups |-> Cardinality(RunNames)]

DirectoriesOf(w) ==
  [m2 |-> LiveOf(w), m4 |-> SearchOf(w), process |-> ProcessOf(w), actual |-> ActualOf(w)]
-------------------------------------------------------------------------------
(* The producer.                                                           *)

\* The projections that stand beside the receipts they are taken from.
SearchView(m4) == [m4 EXCEPT !.revision = "not projected"]
ActualView(actual) ==
  [lineage |-> actual.lineage, plan |-> actual.plan, initial |-> actual.initial,
   image |-> actual.image, signatures |-> actual.signatures,
   runs |-> [r \in RunNames |-> actual.runs[r]]]

\* build_hosted_docker_qualification raises unless this holds.  The typed M4 and
\* M5 receipts it parses repeat their own makers' checks, which hold of what the
\* workflows left.
Producible(d, marker) ==
  /\ d.m2.commit = marker
  /\ d.m2.residue = {} /\ d.m2.before = d.m2.after
  /\ d.m4.residual = {}
  /\ d.process.revision = marker /\ d.process.m4 = d.m4
  /\ d.actual.revision = marker /\ d.actual.m4 = d.m4 /\ d.actual.process = d.process
  /\ d.actual.cleanups = 10

Receipt(d, marker) ==
  [revision |-> marker, m2 |-> d.m2, m4 |-> d.m4, m4view |-> SearchView(d.m4),
   process |-> d.process, actual |-> d.actual, view |-> ActualView(d.actual)]

\* admit_hosted_qualification: the service vouches for the bytes only when the
\* workflow at that revision signed them.
Admission(receipt, marker) ==
  [receipt |-> receipt, subject |-> receipt, source |-> marker]
-------------------------------------------------------------------------------
(* The consumer.                                                           *)

LiveValid(m2) ==
  /\ \A s \in Siblings : \A p \in Providers :
       /\ m2.worlds[s][p].restored = m2.worlds[s][p].baseline
       /\ m2.worlds[s][p].mutated # m2.worlds[s][p].baseline
  /\ \A p \in Providers : Cardinality({m2.worlds[s][p].mutated : s \in Siblings}) = 4
  /\ m2.cases = CleanupCases
  /\ m2.before = m2.after /\ m2.residue = {}

SearchValid(m4, view, marker) ==
  /\ m4.revision = marker /\ view = SearchView(m4)
  /\ m4.residual = {} /\ Cardinality(m4.receipts) = 7 /\ Cardinality(m4.released) = 7
  /\ m4.chain = m4.m3.chain

\* _validate_checkpoint
CheckpointValid(checkpoint) == \A p \in Providers : checkpoint.held[p] = checkpoint.bytes

\* _validate_actual_m5_run: the run is of this plan, root and process result...
WitnessBound(s, r, process) ==
  /\ s.run = r /\ s.plan = process.plans[r] /\ s.root = process.roots[r]
  /\ s.result = process.results[r]
  /\ s.request = [run |-> r, plan |-> s.plan, root |-> s.root, mode |-> Mode(r)]
  /\ s.destroyed
\* ...and every step starts from the checkpoint the one before it left.
WitnessChained(s, r) ==
  /\ CheckpointValid(s.initial) /\ CheckpointValid(s.final)
  /\ \A i \in 1..PlanLength :
       /\ CheckpointValid(s.steps[i].before) /\ CheckpointValid(s.steps[i].after)
       /\ s.steps[i].before = IF i = 1 THEN s.initial ELSE s.steps[i - 1].after
       /\ s.steps[i].call = <<s.plan, i>>
  /\ s.final = s.steps[PlanLength].after
  /\ s.steps[PlanLength].answer[2] = Verdict(r)[2]
  /\ s.steps[PlanLength].answer[1] = "VIOLATED" <=> Verdict(r)[1] = "VIOLATED"

\* Mutant of CompositeBound: the receipts inside it are not compared.
CompositeUnbound(actual, m4, process, marker) ==
  actual.revision = marker /\ actual.plan = process.plan /\ actual.cleanups = 10

\* _validate_actual_m5_composite: the receipts it is made of...
CompositeBound(actual, m4, process, marker) ==
  /\ actual.revision = marker /\ actual.m4 = m4 /\ actual.process = process
  /\ actual.plan = process.plan /\ actual.lineage = m4.winner
  /\ actual.cleanups = 10
\* ...and its ten runs.
CompositeRuns(actual, view, process, marker) ==
  /\ \A r \in RunNames :
       WitnessBound(actual.runs[r], r, process) /\ WitnessChained(actual.runs[r], r)
  /\ \A r \in RunNames : actual.runs[r].image.source = actual.image.source
  /\ actual.image = actual.runs[CleanRun(1)].image /\ actual.image.source = marker
  /\ Cardinality(UNION {actual.runs[r].image.containers : r \in RunNames}) = 20
  /\ \A i \in CleanRoots :
       /\ actual.runs[CleanRun(i)].initial.bytes = actual.initial.bytes
       /\ actual.signatures[i] = ActualSignature(actual.runs[CleanRun(i)])
       /\ actual.signatures[i] = actual.signatures[1]
  /\ view = ActualView(actual)

\* HostedDockerQualificationReceipt
ReceiptValid(q) ==
  /\ LiveValid(q.m2)
  /\ SearchValid(q.m4, q.m4view, q.revision)
  /\ q.process.revision = q.revision /\ q.process.m4 = q.m4
  /\ CompositeBound(q.actual, q.m4, q.process, q.revision)
  /\ CompositeRuns(q.actual, q.view, q.process, q.revision)

\* HostedQualificationAdmissionReceipt, validate_hosted_qualification_admission
AdmissionValid(a, marker) ==
  /\ ReceiptValid(a.receipt)
  /\ a.subject = a.receipt /\ a.source = a.receipt.revision
  /\ a.receipt.revision = marker
-------------------------------------------------------------------------------
Revisions == {w.revision : w \in Workflows}
Left == [w \in Workflows |-> DirectoriesOf(w)]

\* Which workflow each part is of, when the parts of several are put beside one
\* another; and a run of the composite that is, in one part, a run of another one.
Assemblies == [m2 : Workflows, m4 : Workflows, process : Workflows, actual : Workflows]
Directories(h) ==
  [m2 |-> Left[h.m2].m2, m4 |-> Left[h.m4].m4, process |-> Left[h.process].process,
   actual |-> Left[h.actual].actual]
Mixtures == {Directories(h) : h \in Assemblies}
WitnessParts == {"plan", "root", "result", "request", "image", "initial", "steps", "final"}
Patchworks ==
  {[Left[w] EXCEPT !.actual.runs[r] = [@ EXCEPT ![part] = WitnessOf(s, v)[part]]] :
     w, v \in Workflows, r \in {CleanRun(1), CleanRun(2), PatchedRun, ControlRun("fresh_session")},
     s \in {CleanRun(1), PatchedRun, ControlRun("fresh_session")}, part \in WitnessParts}

\* What the consumer by itself makes sure of: behind the search and the two replays
\* stands one M4 run of the receipt's revision.  Of the live test (q.m2) it says
\* nothing: the consumer compares that part with no revision.
OneRevision(q) ==
  /\ \E w \in Workflows :
       /\ w.revision = q.revision
       /\ q.m4 = Left[w].m4 /\ q.process = Left[w].process /\ q.actual.lineage = w
  /\ \A r \in RunNames : \E w \in Workflows :
       w.revision = q.revision /\ ActualSignature(q.actual.runs[r]) = ActualSignature(WitnessOf(r, w))

\* The producer builds nothing the consumer refuses.  Of nothing the consumer
\* takes, however it was put together, are the search and the replays of two
\* revisions; the live test is held to the revision by the producer alone.
AdmissionsSound ==
  /\ \A w \in Workflows : Producible(Left[w], w.revision)
  /\ \A d \in Mixtures : \A marker \in Revisions :
       /\ Producible(d, marker) => ReceiptValid(Receipt(d, marker))
       /\ AdmissionValid(Admission(Receipt(d, marker), marker), marker) =>
            OneRevision(Receipt(d, marker))
  /\ \A d \in Patchworks : \A marker \in Revisions :
       ReceiptValid(Receipt(d, marker)) => OneRevision(Receipt(d, marker))
===============================================================================
