----------------------------- MODULE BeamSearch -----------------------------
(***************************************************************************)
(* The search controller and its budget ledger (packages/search:           *)
(* controller.py and models.py), as operators: one call of the controller  *)
(* maps a batch of candidates and a ledger to one decision per candidate   *)
(* and an extended ledger.                                                 *)
(*                                                                         *)
(* Data abstraction.  A candidate's priority is the value of the score     *)
(* formula; its gates are the facts the formulae below read of the gate    *)
(* record.  A reservation identifier is a collision-free digest of the     *)
(* other fields of the reservation, so the record is its own identifier.   *)
(* Candidates are ordered by identifier only to make the output canonical: *)
(* a batch is a set.                                                       *)
(***************************************************************************)
EXTENDS Integers, FiniteSets, Sequences, SequencesExt

CONSTANTS Limits,   \* BudgetLimits: [resources : Resources -> Nat, worlds : Tiers -> Nat]
          Width,    \* BeamSearchPolicy: promotions per call into each target tier
          Digest    \* the seeded digest that breaks ties, by candidate identifier

Tiers == {"GHOST", "REPLAY", "SIMULATED", "MATERIALIZED"}

NextTier == [GHOST |-> "REPLAY", REPLAY |-> "SIMULATED", SIMULATED |-> "MATERIALIZED"]

Resources == {"llm_calls", "target_requests", "write_requests", "cpu_seconds"}

\* A batch is a set of candidates of one promotable tier with distinct identifiers.
\* Priorities compare as numbers, and the digest tells identifiers apart.
IsBatch(B) ==
  /\ B # {} /\ IsFiniteSet(B)
  /\ \A c \in B : /\ c.tier \in DOMAIN NextTier
                  /\ c.priority \in Int /\ Digest[c.candidate_id] \in Int
                  /\ c.promotion_cost \in [Resources -> Nat]
  /\ \A c, d \in B : /\ c.tier = d.tier
                     /\ c # d => /\ c.candidate_id # d.candidate_id
                                /\ Digest[c.candidate_id] # Digest[d.candidate_id]

-----------------------------------------------------------------------------
(* The ledger: a sequence of reservations.                                 *)

ASSUME LimitsAssumption ==
  /\ Limits.resources \in [Resources -> Nat]
  /\ Limits.worlds \in [Tiers -> Nat]

ASSUME WidthAssumption == \A tier \in DOMAIN NextTier : Width[NextTier[tier]] \in Nat

BudgetReservation(C) ==
  [candidate_id : {c.candidate_id : c \in C}, target_tier : Tiers, sequence : Nat,
   cost : {c.promotion_cost : c \in C}]

Reserved(ledger, id, tier) ==
  \E i \in DOMAIN ledger : ledger[i].candidate_id = id /\ ledger[i].target_tier = tier

\* The sum of a sequence of numbers.
Total(numbers) ==
  LET upTo[n \in 0..Len(numbers)] == IF n = 0 THEN 0 ELSE upTo[n - 1] + numbers[n]
  IN  upTo[Len(numbers)]

Spent(ledger, r) == Total([i \in DOMAIN ledger |-> ledger[i].cost[r]])

Worlds(ledger, tier) ==
  Total([i \in DOMAIN ledger |-> IF ledger[i].target_tier = tier THEN 1 ELSE 0])

\* Mutant of Fits: a reservation may use more than what is left.
FitsOneMore(ledger, tier, cost) ==
  /\ \A r \in Resources : Spent(ledger, r) <= Limits.resources[r]
  /\ \A t \in Tiers : Worlds(ledger, t) + (IF t = tier THEN 1 ELSE 0) <= Limits.worlds[t]

Fits(ledger, tier, cost) ==
  /\ \A r \in Resources : Spent(ledger, r) + cost[r] <= Limits.resources[r]
  /\ \A t \in Tiers : Worlds(ledger, t) + (IF t = tier THEN 1 ELSE 0) <= Limits.worlds[t]

CanReserve(ledger, c) ==
  LET tier == NextTier[c.tier]
  IN  ~Reserved(ledger, c.candidate_id, tier) /\ Fits(ledger, tier, c.promotion_cost)

Reservation(c, sequence) ==
  [candidate_id |-> c.candidate_id, target_tier |-> NextTier[c.tier],
   sequence |-> sequence, cost |-> c.promotion_cost]

Reserve(ledger, c) == Append(ledger, Reservation(c, Len(ledger) + 1))

\* What the validators of BudgetLedger accept.
LedgerValid(ledger) ==
  /\ \A i \in DOMAIN ledger : ledger[i].sequence = i
  /\ \A i, j \in DOMAIN ledger :
       /\ ledger[i].candidate_id = ledger[j].candidate_id
       /\ ledger[i].target_tier = ledger[j].target_tier
       => i = j
  /\ \A r \in Resources : Spent(ledger, r) <= Limits.resources[r]
  /\ \A t \in Tiers : Worlds(ledger, t) <= Limits.worlds[t]

-----------------------------------------------------------------------------
(* Gates, ranking, deduplication and diversity.                            *)

Denials(g, target) ==
  LET always ==
        [OUT_OF_SCOPE                       |-> ~g.in_scope,
         POLICY_DENIED                      |-> g.policy_outcome = "DENY",
         NON_REVERSIBLE_ACTION_NOT_APPROVED |->
           ~g.approved /\ (g.policy_outcome = "REQUIRE_APPROVAL" \/ ~g.reversible),
         UNSUPPORTED_ADAPTER_CAPABILITY     |-> ~g.capable,
         NO_NEW_FACTS                       |-> ~g.new_facts,
         LOW_FIDELITY_WITHOUT_CALIBRATION_PATH |-> ~g.faithful,
         REPEATED_NONDETERMINISM            |-> ~g.deterministic]
      materialized ==
        [MISSING_EVIDENCE             |-> ~g.evidence \/ ~g.fragments_bound,
         MISSING_ACTION_PLAN          |-> ~g.action_plan,
         MISSING_EXPECTED_OBSERVATION |-> ~g.observations,
         MISSING_MACHINE_ORACLE       |-> ~g.oracle,
         MISSING_SNAPSHOT_CAPABILITY  |-> ~g.snapshot_capable]
  IN  {r \in DOMAIN always : always[r]}
        \cup (IF target = "MATERIALIZED" THEN {r \in DOMAIN materialized : materialized[r]}
              ELSE {})

Eligible(B) == {c \in B : Denials(c.gates, NextTier[c.tier]) = {}}

Before(c, d) ==
  \/ c.priority > d.priority
  \/ c.priority = d.priority /\ Digest[c.candidate_id] < Digest[d.candidate_id]

Twins(S, c) == {d \in S : d.state_fingerprint = c.state_fingerprint}

\* The first candidate of each state in the ranking stands for the state.
Winner(S, c) == CHOOSE d \in Twins(S, c) : \A e \in Twins(S, c) \ {d} : Before(d, e)

Winners(S) == {Winner(S, c) : c \in S}

\* Lexicographic comparison of _cost_tuple.
CostLeq(a, b) ==
  LET order == <<"target_requests", "write_requests", "cpu_seconds", "llm_calls">>
      first == {i \in 1..4 : /\ a[order[i]] # b[order[i]]
                             /\ \A j \in 1..i-1 : a[order[j]] = b[order[j]]}
  IN  \A i \in first : a[order[i]] < b[order[i]]

DuplicateReason(winner, c) ==
  IF CostLeq(winner.promotion_cost, c.promotion_cost) THEN "DOMINATED_BY_CHEAPER_WORLD"
  ELSE "DUPLICATE_STATE"

\* The best candidate of each diversity bucket comes first, the others follow.
Leads(S, c) == \A d \in S \ {c} : d.diversity_key = c.diversity_key => Before(c, d)

\* Mutant of SelectedBefore: the diversity buckets get no first pass.
RankedBefore(S, c, d) == Before(c, d)

SelectedBefore(S, c, d) ==
  \/ Leads(S, c) /\ ~Leads(S, d)
  \/ Leads(S, c) = Leads(S, d) /\ Before(c, d)

SelectionOrder(S) ==
  [i \in 1..Cardinality(S) |->
     CHOOSE c \in S : Cardinality({d \in S \ {c} : SelectedBefore(S, d, c)}) = i - 1]

-----------------------------------------------------------------------------
(* The beam: candidates are promoted in order while width and budget last. *)

Consider(beam, c) ==
  LET tier == NextTier[c.tier]
      decide(reason) == [beam EXCEPT !.reasons[c] = {reason}]
  IN  CASE beam.promoted >= Width[tier]                   -> decide("BEAM_CAPACITY")
        [] OTHER ->
      CASE Reserved(beam.ledger, c.candidate_id, tier)    -> decide("ALREADY_PROMOTED")
        [] OTHER ->
      CASE ~CanReserve(beam.ledger, c)                    -> decide("BUDGET_EXCEEDED")
        [] OTHER -> [decide("PROMOTED") EXCEPT !.promoted = @ + 1,
                                              !.ledger = Reserve(@, c)]

\* The same, with the beam looked up once.
After(beam, c) == CHOOSE next \in {Consider(b, c) : b \in {beam}} : TRUE

\* The selection order, considered one candidate after the other.
Beam(start, order) ==
  LET beam[n \in 0..Len(order)] ==
        IF n = 0 THEN start ELSE After(beam[n - 1], order[n])
  IN  beam[Len(order)]

\* The decisions taken before the beam: the gates and the deduplication.
Gated(B) ==
  [c \in B |-> IF c \notin Eligible(B) THEN Denials(c.gates, NextTier[c.tier])
               ELSE IF c \notin Winners(Eligible(B))
               THEN {DuplicateReason(Winner(Eligible(B), c), c)} ELSE {}]

\* TieredSearchController.advance: the reasons of every decision and the ledger.
Search(B, ledger) ==
  LET beam == Beam([ledger |-> ledger, promoted |-> 0, reasons |-> Gated(B)],
                   SelectionOrder(Winners(Eligible(B))))
  IN  [reasons |-> beam.reasons, ledger |-> beam.ledger]
=============================================================================
