--------------------------- MODULE SearchCampaign ---------------------------
(***************************************************************************)
(* A caller of the search controller that threads one ledger through      *)
(* successive calls, as its tests and its documentation do: any batch, in  *)
(* any order, the same one again included.                                 *)
(***************************************************************************)
EXTENDS BeamSearch

CONSTANT Submissions   \* the batches the caller may submit

VARIABLES spent,    \* the ledger after the last call
          batch,    \* the batch of the last call
          before,   \* the ledger that call was given
          reasons   \* the reason codes of its decisions, by candidate

campaign == <<spent, batch, before, reasons>>

CampaignInit ==
  /\ spent = <<>>
  /\ before = <<>>
  /\ batch = {}
  /\ reasons = <<>>

Submit ==
  \E B \in Submissions :
    /\ IsBatch(B)
    /\ LET result == Search(B, spent) IN
         /\ batch' = B
         /\ before' = spent
         /\ spent' = result.ledger
         /\ reasons' = result.reasons

CampaignSpec == CampaignInit /\ [][Submit]_campaign

-----------------------------------------------------------------------------

TargetTier == NextTier[(CHOOSE c \in batch : TRUE).tier]

Promoted == {c \in batch : reasons[c] = {"PROMOTED"}}

\* Every candidate is decided and exactly the promoted ones are charged, in
\* this call (canonical_decisions of advance, SearchResult.result_is_complete).
DecisionsMatchLedger ==
  batch # {} =>
    /\ DOMAIN reasons = batch
    /\ \A c \in batch : reasons[c] # {}
    /\ {[candidate_id |-> c.candidate_id, target_tier |-> TargetTier, cost |-> c.promotion_cost]
          : c \in Promoted}
         = {[candidate_id |-> spent[i].candidate_id, target_tier |-> spent[i].target_tier,
             cost |-> spent[i].cost] : i \in Len(before)+1..Len(spent)}
    /\ Cardinality(Promoted) <= Width[TargetTier]

\* A verdict of BUDGET_EXCEEDED is still right when the call returns, and one of
\* ALREADY_PROMOTED was right when it started.
BudgetVerdictsStand ==
  \A c \in batch :
    /\ reasons[c] = {"BUDGET_EXCEEDED"} => ~Fits(spent, TargetTier, c.promotion_cost)
    /\ reasons[c] = {"ALREADY_PROMOTED"} => Reserved(before, c.candidate_id, TargetTier)

\* Whatever batches are submitted and resubmitted, the whole history stays
\* within every limit and charges no candidate twice for a tier, each call
\* charges what it decided, and its refusals of budget stand.
LedgerSound ==
  LedgerValid(spent) /\ IsPrefix(before, spent) /\ DecisionsMatchLedger
  /\ BudgetVerdictsStand

\* One world per state: among the eligible candidates of a state at most one is
\* promoted, and it is the best of them.
OneWorldPerState ==
  \A c \in Promoted : \A d \in Eligible(batch) \ {c} :
    d.state_fingerprint = c.state_fingerprint => d \notin Promoted /\ Before(c, d)

\* The candidates that stand for their states, and those ahead of c in its bucket.
Standing == Winners(Eligible(batch))
Ahead(c) == {d \in Standing : d.diversity_key = c.diversity_key /\ Before(d, c)}

\* No candidate is turned away for want of width while a worse one is promoted,
\* unless the worse one leads its diversity bucket and the better one does not.
BestFirst ==
  \A c \in batch : reasons[c] = {"BEAM_CAPACITY"} =>
    \A d \in Promoted : Before(d, c) \/ (Ahead(c) # {} /\ Ahead(d) = {})

\* The buckets are served in turn: a second candidate of a bucket is promoted
\* only when no bucket is left out for want of width.
DiversityFirst ==
  \A c, d \in Promoted : (c # d /\ c.diversity_key = d.diversity_key) =>
    \A e \in batch : reasons[e] = {"BEAM_CAPACITY"} => Ahead(e) # {}

\* What is promoted is decided by rank within the rotation of the buckets, and by
\* nothing else (_ranked and _diverse_order).
BeamOrder == BestFirst /\ DiversityFirst

\* One world per state, and the best of the buckets in turn (_deduplicate,
\* _ranked and _diverse_order).
BeamSound == OneWorldPerState /\ BeamOrder
=============================================================================
