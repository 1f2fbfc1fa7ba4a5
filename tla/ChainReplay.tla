------------------------------ MODULE ChainReplay ------------------------------
(***************************************************************************)
(* The two qualifications that replay the attack chain on clean labs: the   *)
(* foundation gate (stateweaver.cli.foundation) and the M5 observed chain   *)
(* (m5_plan, observed_chain_qualification).  Both authorise their plans,    *)
(* replay the chain five times on vulnerable labs, the same plan once on a  *)
(* patched one, and then their negative controls, each scenario in an       *)
(* environment of its own, and compare where every scenario ended with      *)
(* where it should have.                                                   *)
(*                                                                         *)
(* The lab is LabState.  The kernel is reduced to what its callers look at: *)
(* ReplayKernel models its suspensions.                                    *)
(***************************************************************************)
EXTENDS LabState, Policy, SequencesExt

CONSTANTS
  Worker,    \* the thread that serves the environment's only request
  MaxFaults  \* bound on the failures of one campaign
ASSUME FaultsAssumption == Worker \in Workers /\ MaxFaults \in Nat

VARIABLES
  run,      \* the scenario that is replayed, and its environment
  done,     \* the results of the scenarios before it
  faults    \* how many things failed that are no part of a scenario
chainVars == <<vars, run, done, faults>>
-------------------------------------------------------------------------------
(* The plans. *)

Action(kind, session, arg) == [kind |-> kind, session |-> session, arg |-> arg]
Read(session, tenant) == Action("read", session, tenant)

\* _canonical_lab_actions, and OBSERVED_LAB_ACTIONS without its last.
Setup == <<Action("retain", "a_old", 0), Action("prime", "a_old", 0),
           Action("downgrade", "admin", 0), Action("defer", "admin", 0),
           Action("publish", "b_viewer", 0), Action("claim", "a_old", 0),
           Action("advance", "admin", 90)>>
Chain == Append(Setup, Read("a_old", "B"))

\* What a scenario is expected to come to: the oracle's outcome, the status of
\* the last response.
Scenario(mode, plan, outcome, response) ==
  [mode |-> mode, plan |-> plan, outcome |-> outcome, response |-> response]
Control(plan, outcome, response) == Scenario("vulnerable", plan, outcome, response)

Masked      == Control(<<Action("masked", "a_old", 0)>>, "SATISFIED", 200)
MockOnly    == Control(<<Action("mock", "a_old", 0)>>, "INCONCLUSIVE", 200)
FreshReader == Control(Append(Setup, Read("a_fresh", "B")), "SATISFIED", 403)
SameTenant  == Control(<<Read("a_old", "A")>>, "SATISFIED", 200)

\* The chain without one of its actions; 0-based 2 and 4 would fail earlier.
Missing == [i \in 1..5 |-> Control(RemoveAt(Chain, <<1, 2, 4, 6, 7>>[i]),
                                   "SATISFIED", 403)]
Expired == Control(<<Setup[1], Setup[2], Setup[3], Setup[4], Setup[5], Setup[6],
                     Action("advance", "admin", 181), Read("a_old", "B")>>,
                   "SATISFIED", 403)

Campaigns == {"foundation", "m5"}

Controls(c) ==
  IF c = "m5" THEN <<Masked, MockOnly, FreshReader, SameTenant>>
  ELSE Missing \o <<Expired, Masked, MockOnly, FreshReader, SameTenant>>

VulnerableRuns == 5

\* The patched lab replays the very plan that violates on the vulnerable one.
Scenarios(c) ==
  [i \in 1..VulnerableRuns |-> Scenario("vulnerable", Chain, "VIOLATED", 200)]
    \o <<Scenario("patched", Chain, "VIOLATED", 200)>> \o Controls(c)
-------------------------------------------------------------------------------
(* Authorization. *)

IsWrite(a) == a.kind \notin {"read", "masked", "mock"}

\* The manifest of the campaign; 2020 to 2100 around an evaluation in 2026.
Scope(c) ==
  [allow |-> {"http.request"}, approve |-> {}, deny |-> {}, include |-> {"lab"},
   exclude |-> {}, identities |-> Sessions, perWindow |-> 100,
   maxWrites |-> IF c = "m5" THEN 8 ELSE 32, notBefore |-> 2020, expiresAt |-> 2100]

Envelope(plan, i) ==
  [action |-> plan[i], sequence |-> i, scopeAction |-> "http.request",
   risk |-> IF IsWrite(plan[i]) THEN "REVERSIBLE_STATE_CHANGE" ELSE "PASSIVE",
   approved |-> FALSE, identity |-> plan[i].session, target |-> "lab",
   write |-> IsWrite(plan[i])]

\* The slot of a step: the requests and the writes of the steps before it.
Slot(plan, i) ==
  [requests |-> i - 1, writes |-> Cardinality({j \in 1..(i - 1) : IsWrite(plan[j])})]

EvaluatedAt == 2026

\* _authorize_existing_plan, _plan_and_registry
Authorization(c, plan, i) ==
  Bind(Scope(c), Envelope(plan, i), Slot(plan, i), EvaluatedAt)

Authorised(c, plan) ==
  \A i \in DOMAIN plan : Authorization(c, plan, i).decision = "ALLOW"
-------------------------------------------------------------------------------
(* The replay of one scenario. *)

NoSlot == [requests |-> 0, writes |-> 0]

ChainInit ==
  /\ lab = Canonical("vulnerable") /\ request = [w \in Workers |-> Nothing]
  /\ \E c \in Campaigns :
       run = [pc |-> "root", campaign |-> c, n |-> 1, i |-> 1, active |-> FALSE,
              used |-> NoSlot, status |-> "failed", failed |-> Nothing,
              code |-> Nothing, outcome |-> Nothing, response |-> Nothing,
              accepted |-> FALSE]
  /\ done = <<>> /\ faults = 0

At(pc)  == run.pc = pc
Current == Scenarios(run.campaign)[run.n]
Plan    == Current.plan
Step    == Plan[run.i]

\* The qualification raises: no report.
Raise == run' = [run EXCEPT !.pc = "ended"]

\* create_root_seed and the kernel's reset: a clean lab of the scenario's mode.
Root ==
  /\ At("root")
  /\ IF Authorised(run.campaign, Plan)
     THEN /\ lab' = Canonical(Current.mode) /\ request' = [w \in Workers |-> Nothing]
          /\ run' = [run EXCEPT !.pc = "execute", !.i = 1, !.active = TRUE,
                       !.used = NoSlot, !.status = "failed", !.failed = Nothing,
                       !.code = Nothing, !.outcome = Nothing, !.response = Nothing]
     ELSE Raise /\ UNCHANGED vars
  /\ UNCHANGED <<done, faults>>

\* Something outside the scenario fails.
Failing == faults < MaxFaults /\ faults' = faults + 1

StepFails(code) ==
  run' = [run EXCEPT !.pc = "cleanup", !.status = "failed",
                     !.failed = run.i, !.code = code]

\* The M5 environment holds each step of the chain to the evidence counts that
\* were observed for it.
Guarded == run.campaign = "m5" /\ Plan = Chain

\* execute: the guard, the authorization for the next slot, authentication.
Execute ==
  /\ At("execute")
  /\ IF /\ Guarded => lab.sequence = run.i - 1
        /\ RequireAllows(Authorization(run.campaign, Plan, run.i),
                         Envelope(Plan, run.i), EvaluatedAt, run.used)
     THEN /\ Authenticate(Worker, Step.session)
          /\ run' = [run EXCEPT !.pc = "serve", !.used.requests = @ + 1,
                                !.used.writes = @ + IF IsWrite(Step) THEN 1 ELSE 0]
     ELSE StepFails("ACTION_FAILED") /\ UNCHANGED vars
  /\ UNCHANGED <<done, faults>>

\* The handler the action's route leads to.
Handled ==
  \/ Step.kind = "retain"    /\ RetainOldSession(Worker)
  \/ Step.kind = "prime"     /\ PrimeAuthorizationCache(Worker)
  \/ Step.kind = "downgrade" /\ DowngradeRole(Worker)
  \/ Step.kind = "defer"     /\ DelayQueueJob(Worker)
  \/ Step.kind = "publish"   /\ PublishReference(Worker)
  \/ Step.kind = "claim"     /\ ClaimReference(Worker)
  \/ Step.kind = "advance"   /\ AdvanceClock(Worker, Step.arg)
  \/ Step.kind = "read"      /\ ReadDocument(Worker, Step.arg)
  \/ Step.kind \in {"masked", "mock"} /\ Decoy(Worker)

\* 403 for a read that was blocked, the one status but 200 a plan may expect.
Response(before, after) ==
  IF Step.kind = "read" /\ Step.arg # Tenant(Step.session)
       /\ after.disclosure = before.disclosure THEN 403 ELSE 200

\* InProcessLabReplayOracle.evaluate
Outcome(l) == IF OracleViolated(l) THEN "VIOLATED"
              ELSE IF Step.kind \in {"read", "masked"} THEN "SATISFIED"
              ELSE "INCONCLUSIVE"

\* The action returns, adds one piece of evidence, and after the last step the
\* oracle is asked.
Serve ==
  /\ At("serve")
  /\ Handled
  /\ lab'.sequence = lab.sequence + 1
  /\ LET last    == run.i = Len(Plan)
         outcome == Outcome(lab')
     IN  run' = IF ~last THEN [run EXCEPT !.pc = "execute", !.i = @ + 1]
                ELSE [run EXCEPT !.pc = "cleanup", !.outcome = outcome,
                        !.response = Response(lab, lab'),
                        !.status = IF outcome = Current.outcome THEN "succeeded"
                                   ELSE "failed",
                        !.failed = IF outcome = Current.outcome THEN Nothing ELSE run.i,
                        !.code = IF outcome = Current.outcome THEN Nothing
                                 ELSE "ORACLE_EXPECTATION_MISMATCH"]
  /\ UNCHANGED <<done, faults>>

\* A capture, an action or an oracle fails, or the deadline of the step passes;
\* or there is no root, and the qualification raises.
Fault ==
  /\ \/ At("execute") /\ StepFails("ACTION_FAILED")
     \/ At("serve") /\ StepFails("STEP_TIMEOUT")
     \/ At("root") /\ Raise
  /\ Failing /\ UNCHANGED <<vars, done>>

\* What a scenario leaves behind; the signature of a run is all of it but the
\* clean-up.
Result == [status |-> run.status, failed |-> run.failed, code |-> run.code,
           outcome |-> run.outcome, response |-> run.response, final |-> lab]

\* Mutant of CleanUp: only a run that came to its end is cleaned up.
CleanUpSuccess ==
  /\ At("cleanup") /\ run.status = "succeeded"
  /\ done' = Append(done, Result)
  /\ run' = [run EXCEPT !.active = FALSE, !.n = @ + 1, !.pc =
               IF run.n = Len(Scenarios(run.campaign)) THEN "report" ELSE "root"]
  /\ UNCHANGED <<vars, faults>>

\* The kernel's finally, and on to the next scenario whatever came of this one.
CleanUp ==
  /\ At("cleanup")
  /\ \/ done' = Append(done, Result) /\ UNCHANGED faults
     \/ /\ done' = Append(done, [Result EXCEPT !.status = "cleanup_failed",
                                   !.failed = IF @ = Nothing THEN 0 ELSE @])
        /\ Failing
  /\ run' = [run EXCEPT !.active = FALSE, !.n = @ + 1, !.pc =
               IF run.n = Len(Scenarios(run.campaign)) THEN "report" ELSE "root"]
  /\ UNCHANGED vars
-------------------------------------------------------------------------------
(* The report. *)

\* A run or a control that ends as it is expected to.
Reproduced(i) ==
  LET s == Scenarios(run.campaign)[i]
  IN  /\ done[i].status = "succeeded"
      /\ done[i].outcome = s.outcome /\ done[i].response = s.response

Deterministic == \A i \in 1..VulnerableRuns : done[i] = done[1]

PatchedRun == VulnerableRuns + 1

\* Mutant of Blocked: how the patched run failed is not looked at.
BlockedSomehow(r) == r.status = "failed"

\* The patched lab blocked the last step, and only there did the replay differ.
Blocked(r) ==
  /\ r.status = "failed" /\ r.failed = Len(Chain)
  /\ r.code = "ORACLE_EXPECTATION_MISMATCH"
  /\ r.outcome = "SATISFIED" /\ r.response = 403

\* VerificationReport.accepted; _validate_receipt of the M5 receipt.
Accepted ==
  /\ Len(done) = Len(Scenarios(run.campaign)) /\ Deterministic
  /\ \A i \in DOMAIN done \ {PatchedRun} : Reproduced(i)
  /\ Blocked(done[PatchedRun])

\* The guard of the whole campaign has seen no attempt to leave the process.
Report ==
  /\ At("report")
  /\ \/ /\ run' = [run EXCEPT !.pc = "ended", !.accepted = Accepted]
        /\ UNCHANGED faults
     \/ Raise /\ Failing
  /\ UNCHANGED <<vars, done>>

Progress == Root \/ Execute \/ Serve \/ CleanUp \/ Report
ChainNext == Progress \/ Fault

\* Nothing here waits for anything that does not come: every step has a deadline.
ChainSpec == ChainInit /\ [][ChainNext]_chainVars /\ WF_chainVars(Progress)
-------------------------------------------------------------------------------
(* Properties. *)

Ended == At("ended")

\* The report accepts exactly the campaigns in which nothing failed: every plan
\* fits the lab and the policy, every control fails where it is said to, and no
\* fault is mistaken for the patch (verify_foundation, qualify_observed_chain).
AcceptsExactly == Ended => (run.accepted <=> faults = 0)

\* An accepted report stands on five identical disclosures, a patched lab that
\* went through the same seven steps and kept the document, and controls that
\* kept it too; no environment is left open.
AcceptedMeansReproduced ==
  Ended /\ run.accepted =>
    /\ ~run.active
    /\ \A i \in DOMAIN done :
         /\ OracleViolated(done[i].final) <=> i <= VulnerableRuns
         /\ done[i].final.sequence = Len(Scenarios(run.campaign)[i].plan)
    /\ done[PatchedRun].final.outcomes \cup {"disclosed"} =
         done[1].final.outcomes \cup {"blocked"}

\* What an accepted report says, and that nothing else is rejected.
ReportSound == AcceptsExactly /\ AcceptedMeansReproduced

\* Every campaign comes to its end, whatever step of it fails.
CampaignEnds == <>Ended
===============================================================================
