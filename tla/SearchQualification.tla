-------------------------- MODULE SearchQualification --------------------------
(***************************************************************************)
(* stateweaver.cli.materialized_search_qualification: the M4 search.  Three *)
(* calls of the promotion workflow, from the ghosts to one materialized    *)
(* world, over a port that forks a real-provider world per promotion; the  *)
(* driver gives each stage's worlds back before the next stage starts, and *)
(* closes the workflow whatever happened.                                  *)
(***************************************************************************)
EXTENDS PromotionWorkflow

CONSTANTS Ids,      \* the candidates' identifiers
          Scores,   \* _evidence_score, by identifier
          Families  \* the diversity key, by identifier

VARIABLES worlds,   \* the adapter's worlds: Root and one per allocation
          port,     \* _DockerMaterializedWorldPort
          host      \* _execute_materialized_search
svars == <<vars, worlds, port, host>>

Root == <<"root", "GHOST">>

Stages == <<"GHOST", "REPLAY", "SIMULATED">>

\* derive_ghost_search_batch: every candidate passes every gate and costs the same.
Ghost(id) ==
  [candidate_id |-> id, tier |-> "GHOST", state_fingerprint |-> id,
   diversity_key |-> Families[id], priority |-> Scores[id],
   promotion_cost |-> [llm_calls |-> 0, target_requests |-> 1, write_requests |-> 1,
                       cpu_seconds |-> 1],
   gates |-> [in_scope |-> TRUE, policy_outcome |-> "ALLOW", approved |-> FALSE,
              reversible |-> TRUE, capable |-> TRUE, new_facts |-> TRUE,
              faithful |-> TRUE, deterministic |-> TRUE, evidence |-> TRUE,
              fragments_bound |-> TRUE, action_plan |-> TRUE, observations |-> TRUE,
              oracle |-> TRUE, snapshot_capable |-> TRUE]]

Ghosts == {Ghost(id) : id \in Ids}

Retier(c, tier) == [c EXCEPT !.tier = tier]

\* What a stage may submit is a part of what can be submitted at all.
ASSUME GhostsAssumption ==
  \A tier \in {"GHOST", "REPLAY", "SIMULATED"} : {Retier(c, tier) : c \in Ghosts} \in Batches

\* The policy of the search: no stage is wider than the one before, one world wins.
ASSUME WidthsAssumption ==
  Width["SIMULATED"] \in 1..Width["REPLAY"] /\ Width["MATERIALIZED"] = 1

\* The worlds of a stage: the reservations it has added to the ledger.
Promotions(from) == [i \in 1..(Len(ledger) - from) |->
  <<ledger[from + i].candidate_id, ledger[from + i].target_tier>>]

\* The next stage searches what this one has promoted, and nothing else.
Frontier(batch, promoted, tier) ==
  {Retier(c, tier) : c \in {d \in batch : \E i \in DOMAIN promoted :
                                            promoted[i] = Purpose(d)}}

SInit ==
  /\ Init /\ worlds = {}
  /\ port = [envs |-> {}, receipts |-> <<>>, released |-> <<>>, peak |-> 0]
  /\ host = [pc |-> "open", batches |-> <<Ghosts>>, done |-> <<>>, mark |-> 0,
             pending |-> <<>>, raised |-> FALSE]

HostAt(pcs)  == host.pc \in pcs
Raised       == host' = [host EXCEPT !.pc = "close", !.raised = TRUE]
Batch        == Last(host.batches)
Target       == NextTier[Stages[Len(host.batches)]]
-------------------------------------------------------------------------------
(* The port. *)

\* allocate: a fork of the root snapshot, under a name of its own.
Forked(c) == [serial |-> Cardinality(handed) + 1, allocation_id |-> Purpose(c),
              sibling_identity |-> Purpose(c), purpose |-> Purpose(c)]

PortAllocates ==
  LET id == Purpose(Request)
      envs == port.envs \cup {id}
  IN  /\ At("allocating") /\ Forked(Request) \in Allocation
      /\ \E a \in {Forked(Request)} : AllocatedAs(a)
      /\ worlds' = worlds \cup {id}
      /\ port' = [port EXCEPT !.envs = envs,
                    !.peak = IF Cardinality(envs) > @ THEN Cardinality(envs) ELSE @]

PortCaptures ==
  /\ Captured
  /\ port' = [port EXCEPT !.receipts = Append(@, run.current.allocation_id)]
  /\ UNCHANGED worlds

\* release: a world that is not on record is no longer there.
Gone(id) ==
  IF id \in port.envs
  THEN /\ worlds' = worlds \ {id}
       /\ port' = [port EXCEPT !.envs = @ \ {id}, !.released = Append(@, id)]
  ELSE UNCHANGED <<worlds, port>>

\* A destruction that failed leaves the record as it was.
Stays(id) == id \in port.envs /\ UNCHANGED port

PortReleases ==
  \E a \in run.drop :
    \/ /\ ReleaseConfirmed \/ CloseConfirmed
       /\ run.drop = {a} \/ run'.drop = run.drop \ {a}
       /\ Gone(a.allocation_id)
    \/ /\ ReleaseFails \/ CloseFails
       /\ run.drop = {a} \/ run'.drop = run.drop \ {a}
       /\ Stays(a.allocation_id) /\ UNCHANGED worlds
    \/ /\ ReleaseCancelled \/ CloseCancelled
       /\ Stays(a.allocation_id) /\ UNCHANGED worlds

\* The fork or the materialization failed or was cancelled: the adapter has
\* taken back what it had made.
PortFails ==
  /\ AllocationFails \/ AllocationCancelled \/ CaptureFails \/ CaptureCancelled
  /\ UNCHANGED <<worlds, port>>
-------------------------------------------------------------------------------
(* The driver. *)

\* open: prepare, snapshot, and the root goes, or the search never starts.
Open ==
  /\ HostAt({"open"})
  /\ \/ host' = [host EXCEPT !.pc = "stage"] /\ UNCHANGED worlds
     \/ host' = [host EXCEPT !.pc = "failed"] /\ worlds' \in {worlds, {Root}}
  /\ UNCHANGED <<vars, port>>

Stage ==
  /\ HostAt({"stage"})
  /\ \E B \in {Batch} : AdvanceWith(B)
  /\ host' = [host EXCEPT !.pc = "running", !.mark = Len(ledger)]
  /\ UNCHANGED <<worlds, port>>

Callback ==
  /\ HostAt({"running", "closing"})
  /\ PortAllocates \/ PortCaptures \/ PortReleases \/ PortFails
  /\ UNCHANGED host

\* Mutant of Staged: nobody looks at an advance that raised.
StagedReturned ==
  /\ HostAt({"running"}) /\ At("idle") /\ run.outcome = "returned"
  /\ host' = [host EXCEPT !.pc = "release", !.pending = Promotions(host.mark),
                          !.done = Append(@, Promotions(host.mark))]
  /\ UNCHANGED <<vars, worlds, port>>

\* A stage that promoted fewer than the beam is wide ends the search.
Staged ==
  LET promoted == Promotions(host.mark)
  IN  /\ HostAt({"running"}) /\ At("idle")
      /\ IF run.outcome = "returned" /\ Len(promoted) = Width[Target]
         THEN host' = [host EXCEPT !.pc = "release", !.pending = promoted,
                                   !.done = Append(@, promoted)]
         ELSE Raised
      /\ UNCHANGED <<vars, worlds, port>>

\* Mutant of Release: a world is struck off before it is known to be gone.
ReleaseBlindly ==
  /\ HostAt({"release"}) /\ host.pending # <<>>
  /\ LET id == Head(host.pending)
     IN  /\ worlds' \in {worlds, worlds \ {id}}
         /\ port' = [port EXCEPT !.envs = @ \ {id}, !.released = Append(@, id)]
  /\ host' = [host EXCEPT !.pending = Tail(@)]
  /\ UNCHANGED vars

\* The driver goes to the port itself; the workflow still has the worlds on
\* record, and close will ask for their release once more.
Release ==
  /\ HostAt({"release"}) /\ host.pending # <<>>
  /\ \/ /\ Gone(Head(host.pending))
        /\ host' = [host EXCEPT !.pending = Tail(@)]
     \/ Stays(Head(host.pending)) /\ Raised /\ UNCHANGED worlds
  /\ UNCHANGED vars

NextStage ==
  /\ HostAt({"release"}) /\ host.pending = <<>>
  /\ host' = IF Len(host.batches) = Len(Stages) THEN [host EXCEPT !.pc = "close"]
             ELSE [host EXCEPT !.pc = "stage",
                     !.batches = Append(@, Frontier(Batch, Last(host.done), Target))]
  /\ UNCHANGED <<vars, worlds, port>>

\* The finally block.
CloseWorkflow ==
  /\ HostAt({"close"})
  /\ Close
  /\ host' = [host EXCEPT !.pc = "closing"]
  /\ UNCHANGED <<worlds, port>>

\* qualification_is_closed
ReceiptClosed ==
  LET all == FlattenSeq(host.done)
  IN  /\ Len(host.batches) = 3 /\ Len(host.done) = 3
      /\ \A k \in 1..3 : Len(host.done[k]) = Width[NextTier[Stages[k]]]
      /\ \A k \in 1..2 : host.batches[k + 1] =
           Frontier(host.batches[k], host.done[k], Stages[k + 1])
      /\ [i \in DOMAIN ledger |-> <<ledger[i].candidate_id, ledger[i].target_tier>>] = all
      /\ port.receipts = all /\ port.released = all
      /\ port.peak = Width["REPLAY"]

Finish ==
  /\ HostAt({"closing"}) /\ At("idle")
  /\ host' = [host EXCEPT !.pc =
       IF ~host.raised /\ run.outcome = "returned" /\ port.envs = {} /\ ReceiptClosed
       THEN "qualified" ELSE "failed"]
  /\ UNCHANGED <<vars, worlds, port>>

SNext == \/ Open \/ Stage \/ Callback \/ Staged \/ Release \/ NextStage
         \/ CloseWorkflow \/ Finish

\* Every callback answers, fails or is cancelled: docker commands have deadlines.
SSpec == SInit /\ [][SNext]_svars /\ WF_svars(SNext)
-------------------------------------------------------------------------------
(* Properties. *)

\* A qualified search has destroyed every world it made, paid for each of them
\* once, and its winner is the best of the ghosts it started from.
PaidAndGone ==
  HostAt({"qualified"}) =>
    /\ worlds = {} /\ port.envs = {} /\ LedgerValid(ledger)
    /\ Cardinality(handed) = Len(ledger)
    /\ \A c \in Ghosts : c # Winner(Ghosts, c) \/
         Scores[Last(ledger).candidate_id] >= c.priority

\* Every world the adapter still has is on record where a clean-up will look for
\* it, and never more of them at a time than the first beam is wide.
WorldsHeld ==
  /\ worlds \ {Root} \subseteq {a.allocation_id : a \in Held}
  /\ worlds \ {Root} \subseteq port.envs
  /\ Cardinality(worlds) <= Width["REPLAY"]

\* What the port has made is paid for and on record until it is gone.
SearchQualified == PaidAndGone /\ WorldsHeld

\* The search ends, qualified or not, whatever fails on the way.
SearchEnds == <>HostAt({"qualified", "failed"})
===============================================================================
