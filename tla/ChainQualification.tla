--------------------------- MODULE ChainQualification ---------------------------
(***************************************************************************)
(* stateweaver.cli.materialized_chain_qualification: the runs of the M5    *)
(* plan, one after another, against the application (MaterializedRun) or   *)
(* against the providers alone (ProviderRun), and the composite receipt    *)
(* that is only built when all of them fit together.                       *)
(***************************************************************************)
EXTENDS MaterializedRun

CONSTANTS
  PlannedRuns, \* the runs: [scenario, actions], vulnerable ones first
  Providers, Winner

VARIABLES
  qual,      \* the qualification: which runner, which run, what was retained
  prov, worlds, value, bridge
qvars == <<rvars, qual, prov, worlds, value, bridge>>

P == INSTANCE ProviderRun

\* M5ExecutionPlan: a tuple of runs, each of them a tuple of actions.
Listed(s) == s \in Seq({s[i] : i \in DOMAIN s})
ASSUME PlansAssumption == /\ Listed(PlannedRuns)
                          /\ \A k \in DOMAIN PlannedRuns : Listed(PlannedRuns[k].actions)

\* The retained M4 and process receipts: the revisions they are for, and whether
\* the process receipt was built from that very M4 receipt.
Inputs == [m4 : {Marker, "other"}, process : {Marker, "other"}, linked : BOOLEAN]

QInit == /\ RunInit /\ P!ProvInit
         /\ \E kind \in {"application", "provider"}, inputs \in Inputs :
              qual = [kind |-> kind, pc |-> "idle", at |-> 1, receipts |-> <<>>,
                      inputs |-> inputs]

application == <<built, call, projects, box, disk, rebuilds>>
providers   == <<prov, worlds, value, bridge>>
-------------------------------------------------------------------------------
\* _materialized_request: the mode is the scenario's, the budget the plan's.
MaterializedRequest(k) ==
  LET acts == PlannedRuns[k].actions
  IN  [scenario |-> PlannedRuns[k].scenario, actions |-> acts, run |-> k,
       mode |-> IF PlannedRuns[k].scenario = "primary_patched"
                THEN "patched" ELSE "vulnerable",
       budget |-> [i \in DOMAIN acts |-> [requests |-> i - 1,
                     writes |-> WritesBefore(acts, i)]],
       marker |-> Marker]

\* What the process-local qualification has recorded for the scenario.
Expected(k) == CASE PlannedRuns[k].scenario = "primary_vulnerable" -> <<"VIOLATED", 200>>
                 [] PlannedRuns[k].scenario = "primary_patched" -> <<"NOT_VIOLATED", 403>>
                 [] OTHER -> <<"NOT_VIOLATED", 200>>

\* The last step of a receipt decides the run's oracle and status.
ActualWitness(r, k) ==
  /\ r.req = MaterializedRequest(k)
  /\ <<Verdict(r.final), Status(r.final)>> = Expected(k)

\* _project_run: the process-local actions, each with a change in every provider.
ProviderWitness(r, k) ==
  /\ r.req = MaterializedRequest(k)
  /\ \A i \in DOMAIN r.steps, p \in DOMAIN Providers :
       r.steps[i].before[p] # r.steps[i].after[p]

\* _actual_run_signature: everything but the run's name and its timings.
Signature(r) == <<[r.req EXCEPT !.run = 0], r.initial, r.steps, r.final>>

Clean == {k \in DOMAIN PlannedRuns : PlannedRuns[k].scenario = "primary_vulnerable"}

\* Mutant of OneImage: the tag may have been moved between the runs.
OneImageOfEach(rs) == \A i \in DOMAIN rs : Revision(rs[i].image) = Marker

\* All runs had the same images, each in containers of its own.
OneImage(rs) ==
  /\ \A i \in DOMAIN rs : rs[i].image = rs[1].image /\ Revision(rs[i].image) = Marker
  /\ \A i, j \in DOMAIN rs : i # j => rs[i].project # rs[j].project

\* _closed_actual_asgi_composite
ApplicationComposite(rs) ==
  /\ Len(rs) = Len(PlannedRuns)
  /\ \A k \in DOMAIN rs : /\ ActualWitness(rs[k], k)
                          /\ rs[k].initial = LabCheckpoint(rs[k].req.mode, <<>>)
  /\ OneImage(rs)
  /\ \A j, k \in Clean : Signature(rs[j]) = Signature(rs[k])

\* composite_is_closed
ProviderComposite(rs) ==
  /\ Len(rs) = Len(PlannedRuns)
  /\ \A k \in DOMAIN rs : rs[k].req = MaterializedRequest(k)
-------------------------------------------------------------------------------
Proceed(pc, receipts) == qual' = [qual EXCEPT !.pc = pc, !.receipts = receipts,
                                            !.at = IF pc = "run" THEN @ + 1 ELSE @]

\* After a run's receipt comes the next run or the composite.
Retain(r) ==
  LET rs == Append(qual.receipts, r)
      Fits == IF qual.kind = "application"
              THEN ApplicationComposite(rs) ELSE ProviderComposite(rs)
  IN  IF qual.at < Len(PlannedRuns) THEN Proceed("run", rs)
      ELSE Proceed(IF Fits THEN "qualified" ELSE "rejected", rs)

Exact(inputs) == inputs.m4 = Marker /\ inputs.process = Marker /\ inputs.linked

\* qualify_materialized_chain and qualify_actual_materialized_chain
Start ==
  /\ qual.pc = "idle"
  /\ qual' = [qual EXCEPT !.pc = IF Exact(qual.inputs) THEN "run" ELSE "failed"]
  /\ UNCHANGED <<mishaps, application, providers>>

RunApplication ==
  /\ qual.kind = "application" /\ qual.pc = "run"
  /\ Run(MaterializedRequest(qual.at))
  /\ UNCHANGED <<qual, providers>>

\* execute_primary and the control loop: whatever a run raises ends it all.
ApplicationRan ==
  /\ qual.kind = "application" /\ CallAt("end")
  /\ call' = [NoCall EXCEPT !.project = call.project]
  /\ IF RunOutcome = "receipt" /\ ActualWitness(Receipt, qual.at)
     THEN Retain(Receipt)
     ELSE Proceed("failed", qual.receipts)
  /\ UNCHANGED <<built, projects, box, disk, mishaps, rebuilds, providers>>

RunProvider ==
  /\ qual.kind = "provider" /\ qual.pc = "run"
  /\ P!Prepare(MaterializedRequest(qual.at))
  /\ UNCHANGED <<qual, application>>

ProviderRan ==
  /\ qual.kind = "provider" /\ prov.pc = "end"
  /\ prov' = P!NoProv
  /\ IF ~prov.raised /\ ProviderWitness(prov.receipt, qual.at)
     THEN Retain(prov.receipt) ELSE Proceed("failed", qual.receipts)
  /\ UNCHANGED <<mishaps, application, worlds, value, bridge>>

QEnded == qual.pc \in {"qualified", "rejected", "failed"}

Driver     == \/ Start \/ RunApplication \/ ApplicationRan
              \/ RunProvider \/ ProviderRan
RunStep    == (Host \/ Container) /\ UNCHANGED <<qual, providers>>
ProvStep   == (P!ProvHost \/ P!Bridge) /\ UNCHANGED <<qual, application>>
Retag      == /\ qual.kind = "application" /\ ~QEnded
              /\ Rebuild /\ UNCHANGED <<qual, providers>>

QNext == Driver \/ RunStep \/ ProvStep \/ Retag

\* Every process goes on; no failure is taken for granted, not even a deadline.
QSpec == /\ QInit /\ [][QNext]_qvars
         /\ WF_qvars(Driver /\ NoMishap) /\ WF_qvars(RunStep /\ NoMishap)
         /\ WF_qvars(ProvStep /\ NoMishap)
-------------------------------------------------------------------------------
(* Properties. *)

\* A qualification stands for the whole plan: every scenario ran to its last
\* action on a fresh application, all from one image of the revision asked
\* for, and of none of the runs is anything left in docker.
QualifiedSound ==
  qual.pc = "qualified" =>
    /\ Exact(qual.inputs) /\ projects = {} /\ worlds = {} /\ box = NoBox
    /\ Len(qual.receipts) = Len(PlannedRuns)
    /\ qual.kind = "application" =>
         \A k \in DOMAIN PlannedRuns :
           LET r == qual.receipts[k]
           IN  /\ r.initial = LabCheckpoint(r.req.mode, <<>>)
               /\ r.final = LabCheckpoint(r.req.mode, PlannedRuns[k].actions)
               /\ r.image = qual.receipts[1].image /\ Revision(r.image) = Marker
    /\ qual.kind = "provider" =>
         \A k \in DOMAIN PlannedRuns :
           LET s == qual.receipts[k].steps
           IN  /\ [i \in DOMAIN s |-> s[i].action] = PlannedRuns[k].actions
               /\ s[1].before = P!All(Winner) /\ qual.receipts[k].restored = P!All(Winner)

\* A run is started only where nothing of the run before is left: a receipt is
\* handed over after its project, or its fork and its root, are gone.
RunsDoNotOverlap ==
  [][/\ CallAt("idle") /\ call'.pc = "up" => projects = {} /\ box.pc = "off"
     /\ prov.pc = "idle" /\ prov'.pc = "fork" =>
          worlds = {} /\ bridge = P!NoBridge]_qvars

\* Every qualification comes to an end, whatever fails on the way.
QualificationEnds == <>[]QEnded

\* "cleanup failure takes precedence over execution failure": when a run ends
\* and its project is still there, the caller is told that.
LeftoverReported ==
  CallAt("end") /\ call.project \in projects => RunOutcome = "cleanup failed"
===============================================================================
