------------------------------- MODULE MCSearch -------------------------------
(* The search controller used in two ways: by the three stages of the M4       *)
(* search, and by a caller that submits any batch in any order.                *)
EXTENDS SearchQualification, SearchCampaign, TLC

(* What both work under: widths, limits that bind, and a digest by which d wins *)
(* its tie with c.                                                              *)
Beams == [REPLAY |-> 2, SIMULATED |-> 1, MATERIALIZED |-> 1]
SmallLimits ==
  [resources |-> [llm_calls |-> 0, target_requests |-> 5, write_requests |-> 4, cpu_seconds |-> 9],
   worlds |-> [GHOST |-> 4, REPLAY |-> 3, SIMULATED |-> 1, MATERIALIZED |-> 2]]
SmallDigest == [a |-> 6, b |-> 5, c |-> 4, d |-> 3, e |-> 2, f |-> 1, g |-> 0]

(* The M4 search: four ghosts in two families, and beams of two, one and one. *)
FourScores == [a |-> 4, b |-> 3, c |-> 2, d |-> 1]
TwoFamilies == [a |-> "even", b |-> "even", c |-> "odd", d |-> "odd"]
Names == {<<id, tier>> : id \in {"a", "b", "c", "d"}, tier \in {"REPLAY", "SIMULATED", "MATERIALIZED"}}
GhostBatches == {{Retier(c, tier) : c \in Ghosts} : tier \in {"GHOST", "REPLAY", "SIMULATED"}}

-------------------------------------------------------------------------------
(* The campaign. *)
Cost(requests, writes) ==
  [llm_calls |-> 0, target_requests |-> requests, write_requests |-> writes, cpu_seconds |-> 1]

OpenGates ==
  [in_scope |-> TRUE, policy_outcome |-> "ALLOW", approved |-> FALSE, reversible |-> TRUE,
   capable |-> TRUE, new_facts |-> TRUE, faithful |-> TRUE, deterministic |-> TRUE,
   evidence |-> TRUE, fragments_bound |-> TRUE, action_plan |-> TRUE, observations |-> TRUE,
   oracle |-> TRUE, snapshot_capable |-> TRUE]

Candidate(id, tier, state, bucket, priority, cost, gates) ==
  [candidate_id |-> id, tier |-> tier, state_fingerprint |-> state, diversity_key |-> bucket,
   priority |-> priority, promotion_cost |-> cost, gates |-> gates]

\* a, b and c share a bucket, c and d a state; e is cheap; f has no evidence yet
\* and the best score; g needs an approval.
GhostCandidates ==
  {Candidate("a", "GHOST", "s1", "k1", 4, Cost(2, 0), OpenGates),
   Candidate("b", "GHOST", "s2", "k1", 3, Cost(1, 4), OpenGates),
   Candidate("c", "GHOST", "s3", "k1", 2, Cost(2, 4), OpenGates),
   Candidate("d", "GHOST", "s3", "k2", 2, Cost(1, 0), OpenGates),
   Candidate("e", "GHOST", "s4", "k3", 1, Cost(1, 0), OpenGates),
   Candidate("g", "GHOST", "s5", "k2", 9, Cost(1, 0),
             [OpenGates EXCEPT !.policy_outcome = "REQUIRE_APPROVAL"])}

LaterCandidates ==
  {Candidate("a", "REPLAY", "s1", "k1", 4, Cost(1, 0), OpenGates),
   Candidate("d", "REPLAY", "s3", "k2", 2, Cost(1, 4), OpenGates),
   Candidate("a", "SIMULATED", "s1", "k1", 4, Cost(1, 0), OpenGates),
   Candidate("f", "SIMULATED", "s6", "k3", 9, Cost(1, 0), [OpenGates EXCEPT !.evidence = FALSE])}

\* Small ghost batches add nothing to the large ones but orders of the ledger.
AllBatches ==
  {B \in SUBSET GhostCandidates : Cardinality(B) >= 4}
    \cup SUBSET LaterCandidates

-------------------------------------------------------------------------------
VARIABLE caller
all == <<svars, campaign, caller>>

Searching == caller = "m4" /\ SNext /\ UNCHANGED <<caller, campaign>>
Calling   == caller = "anyone" /\ Submit /\ UNCHANGED <<caller, svars>>

AllInit == SInit /\ CampaignInit /\ caller \in {"m4", "anyone"}
AllSpec == AllInit /\ [][Searching \/ Calling]_all /\ WF_all(Searching)

\* The M4 search ends, qualified or not, whatever fails (_execute_materialized_search).
M4Ends == caller = "m4" => SearchEnds
===============================================================================
