------------------------- MODULE MCPromotionWorkflow -------------------------
(* A small instance of PromotionWorkflow for TLC. *)
EXTENDS PromotionWorkflow, TLC

Cost(requests) ==
  [llm_calls |-> 0, target_requests |-> requests, write_requests |-> 0, cpu_seconds |-> 1]

OpenGates ==
  [in_scope |-> TRUE, policy_outcome |-> "ALLOW", approved |-> FALSE, reversible |-> TRUE,
   capable |-> TRUE, new_facts |-> TRUE, faithful |-> TRUE, deterministic |-> TRUE,
   evidence |-> TRUE, fragments_bound |-> TRUE, action_plan |-> TRUE, observations |-> TRUE,
   oracle |-> TRUE, snapshot_capable |-> TRUE]

Candidate(id, tier, priority, gates) ==
  [candidate_id |-> id, tier |-> tier, state_fingerprint |-> id, diversity_key |-> id,
   priority |-> priority, promotion_cost |-> Cost(1), gates |-> gates]

\* c passes the gates of the search into the replay tier but not those of the
\* workflow.
GhostBatch ==
  {Candidate("a", "GHOST", 3, OpenGates),
   Candidate("b", "GHOST", 2, OpenGates),
   Candidate("c", "GHOST", 1, [OpenGates EXCEPT !.oracle = FALSE])}

ReplayBatch == {Candidate("a", "REPLAY", 3, OpenGates)}

SmallBatches == {GhostBatch, ReplayBatch}

SmallLimits ==
  [resources |-> [llm_calls |-> 0, target_requests |-> 4, write_requests |-> 0, cpu_seconds |-> 9],
   worlds |-> [GHOST |-> 0, REPLAY |-> 3, SIMULATED |-> 1, MATERIALIZED |-> 0]]

SmallWidth == [REPLAY |-> 3, SIMULATED |-> 1, MATERIALIZED |-> 1]

SmallDigest == [a |-> 1, b |-> 2, c |-> 3]
=============================================================================
