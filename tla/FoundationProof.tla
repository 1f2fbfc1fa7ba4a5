---------------------------- MODULE FoundationProof ----------------------------
(***************************************************************************)
(* The foundation proof (stateweaver.cli.foundation) and what the collector *)
(* demands of one (stateweaver.evidence.collector).  The program replays    *)
(* one plan five times on vulnerable roots and once on a patched one, runs  *)
(* ten negative controls, and writes all of it into one document.  The      *)
(* collector is handed the document and must tell one that the program      *)
(* wrote from one put together of parts of several.                        *)
(*                                                                         *)
(* A version is a state of the repository as far as a proof shows it: the   *)
(* seeded root, and the setup calls of the plans.  A digest is the value it *)
(* is computed from.                                                       *)
(***************************************************************************)
EXTENDS Integers, FiniteSets, Sequences, SequencesExt

CONSTANT Versions    \* the versions proofs were made of, records [root, setup]

\* A root is known by a number that also dates it.
ASSUME VersionsAssumption == \A v \in Versions : v.root \in Nat

Attempts == {"a1", "a2", "a3", "a4", "a5"}
Dropped  == {0, 1, 3, 5, 6}
Without(i) == <<"missing_prerequisite", i>>
Special(name) == <<name, 0>>
Controls ==
  {Without(i) : i \in Dropped}
    \cup {Special(name) : name \in {"expired_replay_window", "masked_response",
            "mock_only_response", "fresh_session", "same_tenant_document"}}
Attempt(a) == <<"attempt", a>>
Patched == <<"patched", 0>>
\* Where the document holds a scenario.
Positions == {Attempt(a) : a \in Attempts} \cup {Patched} \cup Controls

\* _canonical_lab_actions: seven calls, five of them writes.
SetupLength == 7
Setup(v) ==
  [i \in 1..SetupLength |->
     [call |-> <<"setup", i, v.setup>>, write |-> i \notin {2, 7}]]
Read(reader, what) == [call |-> <<reader, what>>, write |-> FALSE]

\* _negative_control_actions and the canonical plan: the calls of a scenario.
Calls(p, v) ==
  CASE p \in Controls /\ p[1] = "missing_prerequisite" ->
         Append(RemoveAt(Setup(v), p[2] + 1), Read("old editor", "protected"))
    [] p = Special("expired_replay_window") ->
         Append(Append(Front(Setup(v)), [call |-> <<"late clock", v.setup>>, write |-> TRUE]),
                Read("old editor", "protected"))
    [] p = Special("masked_response")     -> <<Read("old editor", "masked")>>
    [] p = Special("mock_only_response")  -> <<Read("old editor", "mock")>>
    [] p = Special("fresh_session")       -> Append(Setup(v), Read("fresh viewer", "protected"))
    [] p = Special("same_tenant_document") -> <<Read("old editor", "own")>>
    [] p \notin Controls                  -> Append(Setup(v), Read("old editor", "protected"))

\* _CONTROL_PROFILES: the last answer a named control has to show.
Profile(p) ==
  CASE p = Special("masked_response") ->
         [what |-> "masked", outcome |-> "SATISFIED", status |-> 200]
    [] p = Special("mock_only_response") ->
         [what |-> "mock", outcome |-> "INCONCLUSIVE", status |-> 200]
    [] p = Special("same_tenant_document") ->
         [what |-> "own", outcome |-> "SATISFIED", status |-> 200]
    [] OTHER -> [what |-> "protected", outcome |-> "SATISFIED", status |-> 403]
Disclosure == [what |-> "protected", outcome |-> "VIOLATED", status |-> 200]
Refusal    == [what |-> "protected", outcome |-> "SATISFIED", status |-> 403]
-------------------------------------------------------------------------------
(* What the program writes.                                                *)

PlanOf(p, v) ==
  [id |-> IF p \in Controls THEN p ELSE <<"canonical", 0>>, seed |-> v.root,
   steps |-> Calls(p, v)]
RootOf(p, v) ==
  [seed |-> v.root, mode |-> IF p = Patched THEN "patched" ELSE "vulnerable"]

\* _scenario_result, _scenario_projection: the replay result, and what is
\* repeated of it beside it.
ResultOf(p, v) ==
  [run |-> p, plan |-> PlanOf(p, v).id, root |-> RootOf(p, v), log |-> Calls(p, v),
   final |-> IF p \in Controls THEN Profile(p)
             ELSE IF p = Patched THEN Refusal ELSE Disclosure,
   failed |-> IF p = Patched THEN Len(Calls(p, v)) ELSE 0]
\* deterministic_signature leaves out the run and the world it ran in.
Signature(result) == [result EXCEPT !.run = Special("any")]
ViewOf(result) == [signature |-> Signature(result), log |-> result.log,
                   final |-> result.final, failed |-> result.failed]
\* evaluate_oracle seals its result with what it observed; the records are those
\* of the observations, one for each step, in order.
RecordsOf(result) ==
  [i \in DOMAIN result.log |->
     <<result.log[i].call, IF i = Len(result.log) THEN result.final.status ELSE 200>>]
ScenarioOf(p, v) ==
  [plan |-> PlanOf(p, v), root |-> RootOf(p, v), result |-> ResultOf(p, v),
   view |-> ViewOf(ResultOf(p, v)), records |-> RecordsOf(ResultOf(p, v))]

\* _plan_and_registry, PolicyAuthorization: each step has an authorization of its
\* own, made before the replay with what was then left of the budgets.
WritesBefore(steps, i) == Cardinality({j \in 1..(i - 1) : steps[j].write})
Authorization(plan, i) ==
  [step |-> plan.steps[i], requests |-> i - 1, writes |-> WritesBefore(plan.steps, i),
   at |-> plan.seed]
References(plans) ==
  UNION {{<<plan.id, i>> : i \in DOMAIN plan.steps} : plan \in plans}
PlanNamed(plans, id) == CHOOSE plan \in plans : plan.id = id

\* to_json
ProofOf(v) ==
  LET plans == {PlanOf(p, v) : p \in Positions}
  IN  [runs |-> [p \in Positions |-> ScenarioOf(p, v)],
       plan |-> PlanOf(Patched, v), root |-> RootOf(Attempt("a1"), v),
       log |-> Calls(Patched, v),
       decisions |-> [r \in References(plans) |->
                        Authorization(PlanNamed(plans, r[1]), r[2])]]

\* _verify_foundation: the verdict the program itself reaches.
Accepted(d) ==
  /\ \A a \in Attempts :
       /\ d.runs[Attempt(a)].result.final = Disclosure
       /\ d.runs[Attempt(a)].result.failed = 0
       /\ d.runs[Attempt(a)].view.signature = d.runs[Attempt("a1")].view.signature
  /\ d.runs[Patched].result.final = Refusal
  /\ d.runs[Patched].result.failed = SetupLength + 1
  /\ d.runs[Patched].plan = d.plan
  /\ \A p \in Controls : d.runs[p].result.final = Profile(p) /\ d.runs[p].result.failed = 0
-------------------------------------------------------------------------------
(* What the collector demands.                                             *)

\* _validate_oracle_semantics: a violation is the disclosure itself, and a root
\* that is patched answers with the refusal.
OracleValid(s) ==
  /\ s.result.final.outcome = "VIOLATED" =>
       s.result.final = Disclosure /\ s.root.mode = "vulnerable"
  /\ s.root.mode = "patched" => s.result.final = Refusal

\* _scenario
ScenarioValid(s) ==
  /\ s.plan.seed = s.root.seed /\ s.result.plan = s.plan.id
  /\ s.result.root = s.root
  /\ s.view = ViewOf(s.result)
  /\ s.result.log = s.plan.steps
  /\ s.records = RecordsOf(s.result)
  /\ OracleValid(s)

\* Every scenario goes by its plan's id; _validate_policy_bindings: one plan an
\* id, one record a step of a plan, each made for that step with the budgets that
\* stood before it and not after the replays that used it began.
PolicyBound(d) ==
  LET plans == {d.runs[p].plan : p \in Positions}
  IN  /\ \A one, other \in plans : one.id = other.id => one = other
      /\ DOMAIN d.decisions = References(plans)
      /\ \A plan \in plans : \A i \in DOMAIN plan.steps :
           LET record == d.decisions[<<plan.id, i>>]
           IN  /\ record.step = plan.steps[i]
               /\ record.requests = i - 1
               /\ record.writes = WritesBefore(plan.steps, i)
               /\ \A p \in Positions : d.runs[p].plan = plan => record.at <= d.runs[p].root.seed

\* _validate_control_profile: the last call is the one the control is named for.
ControlValid(p, s) ==
  LET last == Last(s.plan.steps).call
  IN  /\ s.result.final = Profile(p) /\ s.result.failed = 0
      /\ last[2] = Profile(p).what

\* _configuration_payload, _m01_qualification_payloads: one root in both modes,
\* and clean before each attempt.
RootsQualified(d) ==
  /\ d.root.mode = "vulnerable" /\ d.runs[Patched].root.mode = "patched"
  /\ d.runs[Patched].root.seed = d.root.seed
  /\ \A a \in Attempts : d.runs[Attempt(a)].result.root = d.root

\* _validate_foundation
ValidFoundation(d) ==
  /\ d.plan.seed = d.root.seed
  /\ \A p \in Positions : ScenarioValid(d.runs[p])
  /\ \A a \in Attempts :
       LET s == d.runs[Attempt(a)]
       IN  /\ s.plan = d.plan /\ s.root = d.root
           /\ s.result.final = Disclosure /\ s.result.failed = 0
           /\ s.view.signature = d.runs[Attempt("a1")].view.signature
  /\ Cardinality({d.runs[Attempt(a)].result.run : a \in Attempts}) = 5
  /\ d.log = d.runs[Attempt("a1")].result.log
  /\ LET s == d.runs[Patched]
     IN  /\ s.plan = d.plan /\ s.root.seed = d.root.seed
         /\ s.result.final = Refusal /\ s.result.failed # 0
  /\ \A p \in Controls : d.runs[p].root = d.root /\ ControlValid(p, d.runs[p])
  /\ Cardinality({d.runs[p].plan.id : p \in Controls}) = Cardinality(Controls)
  /\ Cardinality({d.runs[p].result.run : p \in Controls}) = Cardinality(Controls)
  /\ PolicyBound(d)
  /\ RootsQualified(d)

-------------------------------------------------------------------------------
(* Documents put together of parts of the proofs of several versions.      *)

Proofs == [v \in Versions |-> ProofOf(v)]
Fields == {"plan", "root", "result", "view", "records"}

\* One part of one scenario, or the whole, is that of another scenario.
SplicedRun(d, p, other) ==
  {[d EXCEPT !.runs[p] = other]}
    \cup {[d EXCEPT !.runs[p] = [@ EXCEPT ![f] = other[f]]] : f \in Fields}

\* When an authorization was made is bounded by the roots and not fixed by them.
Undated(d) == [d EXCEPT !.decisions = [r \in DOMAIN @ |-> [@[r] EXCEPT !.at = 0]]]
Written(d) == \E v \in Versions : Undated(d) = Undated(Proofs[v])

\* Of such documents, and of those with one part of the document replaced, the
\* collector takes only those that some version wrote.
NoSpliceIsValid ==
  \A v, w \in Versions :
    /\ \A p, q \in Positions : \A d \in SplicedRun(Proofs[v], p, Proofs[w].runs[q]) :
         ValidFoundation(d) => Written(d)
    /\ \A f \in {"runs", "plan", "root", "log", "decisions"} :
         LET d == [Proofs[v] EXCEPT ![f] = Proofs[w][f]]
         IN  ValidFoundation(d) => Written(d)
ProofsAreValid == \A v \in Versions : Accepted(Proofs[v]) /\ ValidFoundation(Proofs[v])
===============================================================================
