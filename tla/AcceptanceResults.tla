--------------------------- MODULE AcceptanceResults ---------------------------
(***************************************************************************)
(* The acceptance registry and the result of every one of its rows          *)
(* (stateweaver.evidence: acceptance_registry, acceptance_results).  A      *)
(* requirement passes when its tests and its evidence files were observed;  *)
(* one whose gate lies outside the local machine passes only with the       *)
(* digest of a receipt that was verified for it.                           *)
(*                                                                         *)
(* The evidence files that every bundle holds are one name, "base"; so are  *)
(* the local test reports.  "absent" stands for evidence no collector in    *)
(* the repository writes.                                                  *)
(***************************************************************************)
EXTENDS Integers, FiniteSets

Numbered(milestone, category, count) ==
  {<<milestone, category, n>> : n \in 1..count}

ArchitectureIds ==
  Numbered(0, "C", 8) \cup Numbered(0, "L", 10) \cup Numbered(1, "R", 12)
    \cup Numbered(2, "W", 5) \cup Numbered(3, "T", 5) \cup Numbered(4, "S", 5)
    \cup Numbered(5, "C", 5) \cup Numbered(6, "R", 5) \cup Numbered(7, "B", 6)
    \cup Numbered(8, "U", 4) \cup {<<milestone, "X", 1>> : milestone \in 2..8}

\* The SW-* rows, which stand for themselves and not for a milestone.
Qualification(name) == <<9, name, 0>>
MaterializedNames == {"M2-PROVIDERS", "M2-CLEANUP", "M4-MATERIALIZED", "M5-CHAIN"}
LiveNames         == {"M2-LIVE", "M2-4WAY"}
TrustNames        == {"M6-ACQUIRE", "M6-TRUST", "M6-ISSUE", "M6-PROMOTE"}
BenchmarkNames    == {"M7-FAIR", "M7-PREREG", "M7-HOLDOUT", "M7-REPRO"}
MachineNames      == {"M6-REPLAY", "M8-PACKAGE"}
QualificationIds ==
  {Qualification(name) : name \in
     {"REGISTRY", "M3-OBSERVED", "M8-NEWUSER", "M8-PROVIDER"} \cup LiveNames
       \cup MaterializedNames \cup TrustNames \cup BenchmarkNames \cup MachineNames}

RequirementIds == ArchitectureIds \cup QualificationIds

\* _QUALIFICATION_GATE_BY_ID
QualificationGate(name) ==
  CASE name = "REGISTRY"           -> "local"
    [] name \in LiveNames          -> "live_provider"
    [] name \in MaterializedNames  -> "materialized_runtime"
    [] name = "M3-OBSERVED"        -> "runtime_observation"
    [] name \in TrustNames         -> "external_trust"
    [] name \in MachineNames       -> "clean_machine"
    [] name \in BenchmarkNames     -> "independent_benchmark"
    [] name = "M8-NEWUSER"         -> "external_new_user"
    [] name = "M8-PROVIDER"        -> "live_model_provider"

\* _expected_gate; "local" for local_offline and local_in_process.
GateClass(id) ==
  LET milestone == id[1]  exit == id[2] = "X"
  IN  CASE milestone = 9 -> QualificationGate(id[2])
        [] milestone <= 1 -> "local"
        [] milestone = 2 -> "live_provider"
        [] milestone = 3 -> IF ~exit /\ id[3] <= 2 THEN "local" ELSE "runtime_observation"
        [] milestone \in {4, 5} -> IF exit THEN "materialized_runtime" ELSE "local"
        [] milestone = 6 -> IF exit THEN "clean_machine"
                            ELSE IF id[3] = 1 THEN "external_trust" ELSE "local"
        [] milestone = 7 -> IF exit THEN "independent_benchmark" ELSE "local"
        [] milestone = 8 -> "external_new_user"

\* EXPECTED_TESTLESS_REQUIREMENT_IDS
Testless(id) ==
  \/ id[2] = "X" \/ id[1] = 8 \/ id = <<6, "R", 1>>
  \/ id \in QualificationIds
       /\ id[2] \notin {"REGISTRY", "M2-4WAY", "M4-MATERIALIZED"}

\* The tests of a row: those of the local reports, or those of the live hosts.
Tests(id) ==
  IF Testless(id) THEN {}
  ELSE IF GateClass(id) \in {"live_provider", "materialized_runtime"} THEN {"live"}
  ELSE {"local"}

\* The evidence of a row, by the receipt that is to provide it.
Evidence(id) ==
  CASE id = <<0, "C", 7>> -> {"base", "package"}
    [] id = Qualification("M2-LIVE") -> {"hosted", "absent"}
    [] id = Qualification("M3-OBSERVED") -> {"fragment"}
    [] id \notin {<<0, "C", 7>>, Qualification("M2-LIVE"), Qualification("M3-OBSERVED")} ->
         CASE GateClass(id) = "local" -> {"base"}
           [] GateClass(id) = "runtime_observation" -> {"runtime"}
           [] GateClass(id) \in {"live_provider", "materialized_runtime"} -> {"hosted"}
           [] OTHER -> {"absent"}

Local(id) == GateClass(id) = "local"

\* runtime_observation_admissions
RuntimeRows ==
  {<<3, "T", n>> : n \in 3..5} \cup {<<3, "X", 1>>, Qualification("M3-OBSERVED")}

\* The rows hosted_qualification_admissions adds to them; SW-M2-LIVE waits for
\* a second host.
HostedRows ==
  Numbered(2, "W", 5) \cup {<<m, "X", 1>> : m \in {2, 4, 5}}
    \cup {Qualification(name) : name \in MaterializedNames \cup {"M2-4WAY"}}
-------------------------------------------------------------------------------
\* What is missing of a row, given what was observed.
Missing(id, paths, tests) == (Tests(id) \ tests) \cup (Evidence(id) \ paths)

\* derive_acceptance_results raises unless this holds: an admission is for a row
\* beyond the local gates that lacks nothing.
Derivable(paths, tests, admissions) ==
  \A id \in DOMAIN admissions :
    id \in RequirementIds /\ ~Local(id) /\ Missing(id, paths, tests) = {}

Status(id, paths, tests, admissions) ==
  IF Local(id) THEN IF Missing(id, paths, tests) = {} THEN "PASS" ELSE "NOT_RUN"
  ELSE IF id \in DOMAIN admissions THEN "PASS" ELSE "BLOCKED"

\* derive_acceptance_results; AcceptanceResults repeats all of it of what it is
\* given.
Results(paths, tests, admissions) ==
  LET status == [id \in RequirementIds |-> Status(id, paths, tests, admissions)]
  IN  [status |-> status, admissions |-> admissions,
       passed |-> Cardinality({id \in RequirementIds : status[id] = "PASS"}),
       eligible |-> \A id \in RequirementIds : status[id] = "PASS"]
===============================================================================
