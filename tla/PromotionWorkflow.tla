-------------------------- MODULE PromotionWorkflow --------------------------
(***************************************************************************)
(* The promotion workflow (workflows/world: orchestrator.py): it asks an   *)
(* allocator for one world per provisional reservation of the search       *)
(* controller, has it captured, commits what was captured and releases the *)
(* rest.  advance and close run under one lock, so at most one coroutine   *)
(* is between two awaits; a step of the model is what it does from one     *)
(* await to the next.                                                      *)
(*                                                                         *)
(* The allocator and the capture callback are external.  Each awaited call *)
(* answers with any value of the right model, fails (an exception, or a    *)
(* value of the wrong shape), or is cut by the cancellation of the caller. *)
(*                                                                         *)
(* Data abstraction.  An allocation is an object: serial tells apart two   *)
(* answers with the same fields.  purpose is the candidate and the tier it *)
(* names, None when they, or the state fingerprint, differ from the        *)
(* request.  Dictionaries that are only iterated over to release their     *)
(* values are sets, released in any order.                                 *)
(***************************************************************************)
EXTENDS BeamSearch

CONSTANTS Batches,            \* the batches the caller may submit
          AllocationIds, SiblingIdentities,
          None,
          MaxAdvances,        \* bound: calls of advance in a behaviour
          MaxHandovers        \* bound: allocations handed over in a behaviour

ASSUME BatchesAssumption == \A B \in Batches : IsBatch(B)

ASSUME BoundsAssumption == MaxAdvances \in Nat /\ MaxHandovers \in Nat

Candidates == UNION Batches

Purpose(c) == <<c.candidate_id, NextTier[c.tier]>>

Allocation == [serial : 1..MaxHandovers, allocation_id : AllocationIds,
               sibling_identity : SiblingIdentities,
               purpose : {Purpose(c) : c \in Candidates} \cup {None}]

Acceptance == [candidate : Candidates, allocation : Allocation]

ASSUME NoneAssumption == None \notin Allocation /\ None \notin {Purpose(c) : c \in Candidates}

VARIABLES ledger,       \* _ledger: the committed reservations
          active,       \* _active: allocation of each identifier, or None
          cleanup,      \* _cleanup_pending: allocations whose release failed
          identities,   \* _identities: sibling identities in use
          run,          \* the coroutine inside the lock
          advances,     \* calls of advance so far
          handed,       \* history: allocations handed over by the allocator
          released      \* history: allocations whose release was confirmed

vars == <<ledger, active, cleanup, identities, run, advances, handed, released>>

Points == {"idle",         \* nobody is inside the lock
           "allocating",   \* awaiting allocator.allocate
           "capturing",    \* awaiting capture.capture
           "releasing",    \* awaiting allocator.release for what did not commit
           "closing"}      \* awaiting allocator.release in close

\* What follows the releases: the next reservation, the release of all that was
\* accepted, or the end of the call.
Afters == {"next", "abort", "end"}

Run == [at       : Points,
        todo     : Seq(Candidates),               \* reservations not yet tried
        accepted : Seq(Acceptance),
        current  : Allocation \cup {None},        \* the allocation in hand
        drop     : SUBSET Allocation,             \* to be released
        after    : Afters,
        kept     : SUBSET Allocation,             \* retained by close so far
        outcome  : {"none", "returned", "raised", "overrun"}]

Idle(outcome) ==
  [at |-> "idle", todo |-> <<>>, accepted |-> <<>>, current |-> None, drop |-> {},
   after |-> "end", kept |-> {}, outcome |-> outcome]

TypeOK ==
  /\ ledger \in Seq(BudgetReservation(Candidates))
  /\ active \in [AllocationIds -> Allocation \cup {None}]
  /\ cleanup \in SUBSET Allocation
  /\ identities \in SUBSET SiblingIdentities
  /\ run \in Run
  /\ advances \in Nat
  /\ handed \in SUBSET Allocation
  /\ released \in SUBSET Allocation

Init ==
  /\ ledger = <<>>
  /\ active = [id \in AllocationIds |-> None]
  /\ cleanup = {}
  /\ identities = {}
  /\ run = Idle("none")
  /\ advances = 0
  /\ handed = {}
  /\ released = {}

-----------------------------------------------------------------------------
(* The collections of the workflow.                                        *)

At(point) == run.at = point

Actives == {active[id] : id \in AllocationIds} \ {None}

AcceptedAllocations(accepted) == {accepted[i].allocation : i \in DOMAIN accepted}

IdentitiesOf(A) == {a.sibling_identity : a \in A}

RetainedIds == {a.allocation_id : a \in Actives \cup cleanup}

\* The independent gates of the workflow (_workflow_gate_error).
MayAllocate(c) ==
  LET g == c.gates IN
    /\ g.in_scope
    /\ g.policy_outcome # "DENY"
    /\ g.policy_outcome = "REQUIRE_APPROVAL" => g.approved
    /\ g.capable
    /\ g.evidence
    /\ g.oracle
    /\ NextTier[c.tier] = "MATERIALIZED" => g.snapshot_capable

\* The candidates behind the provisional reservations, in their order.
Reservations(B) ==
  LET charged == Search(B, ledger).ledger
  IN  [i \in 1..(Len(charged) - Len(ledger)) |->
         CHOOSE c \in B : c.candidate_id = charged[Len(ledger) + i].candidate_id]

\* What is left of them once those the gates stop are passed over.
Pending(todo) ==
  LET open == {i \in DOMAIN todo : MayAllocate(todo[i])}
  IN  IF open = {} THEN <<>> ELSE SubSeq(todo, Min(open), Len(todo))

-----------------------------------------------------------------------------
(* Committing.                                                             *)

\* The ledger once the first n of the accepted candidates are charged to it.
Charged(accepted, n) ==
  ledger \o [i \in 1..n |-> Reservation(accepted[i].candidate, Len(ledger) + i)]

\* reserve does not raise for the i-th of them.
Affords(accepted, i) ==
  CanReserve(Charged(accepted, i - 1), accepted[i].candidate)

\* The commit loop: it keeps the allocations it has reached, and replaces the
\* ledger only when it reaches the end.
Commit(accepted, retained) ==
  LET Reached(i) == \A j \in 1..i : Affords(accepted, j)
      kept == {accepted[i].allocation : i \in {j \in DOMAIN accepted : Reached(j)}}
      ok == Reached(Len(accepted))
  IN  /\ active' = [id \in AllocationIds |->
                      IF \E a \in kept : a.allocation_id = id
                      THEN CHOOSE a \in kept : a.allocation_id = id ELSE active[id]]
      /\ identities' = identities \cup IdentitiesOf(kept \cup retained)
      /\ ledger' = IF ok THEN Charged(accepted, Len(accepted)) ELSE ledger
      /\ run' = Idle(IF ok THEN "returned" ELSE "overrun")

\* The end of one iteration: the next reservation is tried or all is committed.
\* The allocations in retained join the ones whose release has failed.
Continue(todo, accepted, retained) ==
  /\ cleanup' = cleanup \cup retained
  /\ IF Pending(todo) = <<>>
     THEN Commit(accepted, retained)
     ELSE /\ run' = [Idle("none") EXCEPT !.at = "allocating", !.todo = Pending(todo),
                                         !.accepted = accepted]
          /\ identities' = identities \cup IdentitiesOf(retained)
          /\ UNCHANGED <<ledger, active>>

-----------------------------------------------------------------------------
(* Releasing what did not commit.                                          *)

ReleaseThen(drop, after, todo, accepted) ==
  run' = [Idle("none") EXCEPT !.at = "releasing", !.drop = drop, !.after = after,
                              !.todo = todo, !.accepted = accepted]

\* The outer except branch: the accepted allocations are released, then the
\* exception leaves the call.
Abort(accepted) ==
  IF accepted = <<>> THEN run' = Idle("raised")
  ELSE ReleaseThen(AcceptedAllocations(accepted), "end", <<>>, <<>>)

\* The releases in drop are over; the allocations in retained have failed.
Released(retained) ==
  IF run.after = "next" THEN Continue(run.todo, run.accepted, retained)
  ELSE /\ cleanup' = cleanup \cup retained
       /\ identities' = identities \cup IdentitiesOf(retained)
       /\ UNCHANGED <<ledger, active>>
       /\ IF run.after = "abort" THEN Abort(run.accepted) ELSE run' = Idle("raised")

DropNext(a, retained) ==
  IF run.drop = {a} THEN Released(retained)
  ELSE /\ run' = [run EXCEPT !.drop = @ \ {a}]
       /\ cleanup' = cleanup \cup retained
       /\ identities' = identities \cup IdentitiesOf(retained)
       /\ UNCHANGED <<ledger, active>>

ReleaseConfirmed ==
  \E a \in run.drop :
    /\ At("releasing")
    /\ DropNext(a, {})
    /\ released' = released \cup {a}
    /\ UNCHANGED <<advances, handed>>

ReleaseFails ==
  \E a \in run.drop :
    /\ At("releasing")
    /\ DropNext(a, {a})
    /\ UNCHANGED <<advances, handed, released>>

\* Mutant of ReleaseCancelled: the worlds behind the cancelled release are forgotten.
ReleaseCancelledForgets ==
  \E a \in run.drop :
    /\ At("releasing")
    /\ cleanup' = cleanup \cup {a}
    /\ identities' = identities \cup IdentitiesOf({a})
    /\ IF run.after = "end" THEN run' = Idle("raised") ELSE Abort(run.accepted)
    /\ UNCHANGED <<ledger, active, advances, handed, released>>

\* A cancelled release: this allocation and the ones behind it are retained.
ReleaseCancelled ==
  /\ At("releasing")
  /\ run.drop # {}
  /\ cleanup' = cleanup \cup run.drop
  /\ identities' = identities \cup IdentitiesOf(run.drop)
  /\ IF run.after = "end" THEN run' = Idle("raised") ELSE Abort(run.accepted)
  /\ UNCHANGED <<ledger, active, advances, handed, released>>

-----------------------------------------------------------------------------
(* advance.                                                                *)

AdvanceWith(B) ==
  /\ At("idle")
  /\ advances < MaxAdvances
  /\ advances' = advances + 1
  /\ \E todo \in {Reservations(B)} : Continue(todo, <<>>, {})
  /\ UNCHANGED <<handed, released>>

Advance == \E B \in Batches : AdvanceWith(B)

Request == Head(run.todo)

Rest == Tail(run.todo)

\* The duplicate of an allocation that was accepted in this call: neither can be
\* trusted, so both are released.
Collided(a) == {i \in DOMAIN run.accepted : run.accepted[i].allocation.allocation_id = a.allocation_id}

\* Mutant of Violates: the answer is not compared with the request.
ViolatesIdentity(a) ==
  a.sibling_identity \in identities \cup IdentitiesOf(AcceptedAllocations(run.accepted))

\* Mutant of Violates: the siblings accepted in this call are not looked at.
ViolatesRecord(a) == a.purpose # Purpose(Request) \/ a.sibling_identity \in identities

Violates(a) ==
  \/ a.purpose # Purpose(Request)
  \/ a.sibling_identity \in identities \cup IdentitiesOf(AcceptedAllocations(run.accepted))

\* The allocator hands over an allocation and _validate_allocation looks at it.
AllocatedAs(a) ==
  /\ At("allocating")
  /\ a.serial = Cardinality(handed) + 1
  /\ handed' = handed \cup {a}
  /\ \/ /\ a.allocation_id \in RetainedIds
        /\ Continue(Rest, run.accepted, {a})
     \/ /\ a.allocation_id \notin RetainedIds
        /\ \E i \in Collided(a) :
             ReleaseThen({run.accepted[i].allocation, a}, "next", Rest, RemoveAt(run.accepted, i))
        /\ UNCHANGED <<ledger, active, cleanup, identities>>
     \/ /\ a.allocation_id \notin RetainedIds
        /\ Collided(a) = {}
        /\ IF Violates(a) THEN ReleaseThen({a}, "next", Rest, run.accepted)
           ELSE run' = [run EXCEPT !.at = "capturing", !.current = a]
        /\ UNCHANGED <<ledger, active, cleanup, identities>>
  /\ UNCHANGED <<advances, released>>

Allocated ==
  \E a \in Allocation :
    /\ At("allocating") /\ a.purpose \in {Purpose(Request), None}
    /\ AllocatedAs(a)

AllocationFails ==
  /\ At("allocating")
  /\ Continue(Rest, run.accepted, {})
  /\ UNCHANGED <<advances, handed, released>>

AllocationCancelled ==
  /\ At("allocating")
  /\ Abort(run.accepted)
  /\ UNCHANGED <<ledger, active, cleanup, identities, advances, handed, released>>

\* The capture returns a receipt that binds the allocation and passes the oracle.
Captured ==
  /\ At("capturing")
  /\ Continue(Rest, Append(run.accepted, [candidate |-> Request, allocation |-> run.current]), {})
  /\ UNCHANGED <<advances, handed, released>>

CaptureFails ==
  /\ At("capturing")
  /\ ReleaseThen({run.current}, "next", Rest, run.accepted)
  /\ UNCHANGED <<ledger, active, cleanup, identities, advances, handed, released>>

CaptureCancelled ==
  /\ At("capturing")
  /\ ReleaseThen({run.current}, "abort", <<>>, run.accepted)
  /\ UNCHANGED <<ledger, active, cleanup, identities, advances, handed, released>>

-----------------------------------------------------------------------------
(* close.                                                                  *)

\* Mutant of ReplaceRetained: only committed worlds are retained.
ReplaceActive(kept, outcome) ==
  /\ active' = [id \in AllocationIds |-> IF active[id] \in kept THEN active[id] ELSE None]
  /\ cleanup' = {}
  /\ identities' = IdentitiesOf(kept \cap Actives)
  /\ run' = Idle(outcome)

\* _replace_retained: what close could not release is all that is left.
ReplaceRetained(kept, outcome) ==
  /\ active' = [id \in AllocationIds |-> IF active[id] \in kept THEN active[id] ELSE None]
  /\ cleanup' = cleanup \cap kept
  /\ identities' = IdentitiesOf(kept)
  /\ run' = Idle(outcome)

Close ==
  /\ At("idle")
  /\ IF Actives \cup cleanup = {}
     THEN ReplaceRetained({}, "returned")
     ELSE /\ run' = [Idle("none") EXCEPT !.at = "closing", !.drop = Actives \cup cleanup]
          /\ UNCHANGED <<active, cleanup, identities>>
  /\ UNCHANGED <<ledger, advances, handed, released>>

CloseNext(a, kept) ==
  IF run.drop = {a} THEN ReplaceRetained(kept, "returned")
  ELSE /\ run' = [run EXCEPT !.drop = @ \ {a}, !.kept = kept]
       /\ UNCHANGED <<active, cleanup, identities>>

CloseConfirmed ==
  \E a \in run.drop :
    /\ At("closing")
    /\ CloseNext(a, run.kept)
    /\ released' = released \cup {a}
    /\ UNCHANGED <<ledger, advances, handed>>

CloseFails ==
  \E a \in run.drop :
    /\ At("closing")
    /\ CloseNext(a, run.kept \cup {a})
    /\ UNCHANGED <<ledger, advances, handed, released>>

CloseCancelled ==
  /\ At("closing")
  /\ ReplaceRetained(run.kept \cup run.drop, "raised")
  /\ UNCHANGED <<ledger, advances, handed, released>>

-----------------------------------------------------------------------------

Answered ==
  \/ Allocated        \/ AllocationFails \/ Captured       \/ CaptureFails
  \/ ReleaseConfirmed \/ ReleaseFails    \/ CloseConfirmed \/ CloseFails

Interrupted ==
  \/ AllocationCancelled \/ CaptureCancelled \/ ReleaseCancelled \/ CloseCancelled

Next == Advance \/ Close \/ Answered \/ Interrupted

Spec == Init /\ [][Next]_vars

\* The callbacks answer, the caller keeps calling close, and a release that is
\* retried is confirmed in the end.
FairSpec ==
  /\ Spec
  /\ WF_vars(Answered)
  /\ WF_vars(Close)
  /\ SF_vars(CloseConfirmed)
-----------------------------------------------------------------------------
(* Properties.                                                             *)

\* What the workflow answers for: while close runs, what it still has to release
\* or has failed to; otherwise what it has recorded and what a call has in hand.
Held ==
  IF At("closing") THEN run.kept \cup run.drop
  ELSE Actives \cup cleanup \cup AcceptedAllocations(run.accepted)
         \cup run.drop \cup ({run.current} \ {None})

Owner == INSTANCE Custody WITH Resource <- Allocation, held <- Held, released <- released

\* Every allocation the allocator hands over stays in the hands of the workflow,
\* through failures, collisions and cancellations of both calls and of their
\* releases, until its one confirmed release.
KeepsCustody == Owner!Spec

\* The provisional search result is an upper bound of what commits: reserve never
\* raises in the commit loop, where nothing would release the allocations, and
\* the committed ledger respects the limits.
Affordable == run.outcome # "overrun" /\ LedgerValid(ledger)

\* The ledger and the worlds agree: a committed reservation is backed by a world
\* allocated for that candidate and tier, live or released by close, and a live
\* world has been paid for.
LedgerBacked ==
  /\ \A i \in DOMAIN ledger :
       \E a \in Actives \cup released : a.purpose = <<ledger[i].candidate_id, ledger[i].target_tier>>
  /\ \A a \in Actives :
       \E i \in DOMAIN ledger : a.purpose = <<ledger[i].candidate_id, ledger[i].target_tier>>

\* What is committed was affordable, and is backed by worlds (advance).
CommitSound == Affordable /\ LedgerBacked

\* No two live siblings, committed or about to be, share an allocation identifier
\* or a sibling identity.
SiblingsDistinct ==
  LET live == Actives \cup AcceptedAllocations(run.accepted) IN
    \A a \in live, b \in live :
      a.allocation_id = b.allocation_id \/ a.sibling_identity = b.sibling_identity => a = b

\* Siblings are distinct, and the identities in use are exactly those of the worlds
\* on record: none is free while its world may exist, and none stays taken after its
\* release (_validate_allocation, _replace_retained).
IdentitiesSound ==
  /\ TypeOK
  /\ SiblingsDistinct
  /\ identities = IdentitiesOf(Actives \cup cleanup)

\* Every allocation is released in the end: whatever a failed or cancelled release
\* leaves behind is found again by a later close.
EverythingReleased == (handed # released) ~> (handed = released)
=============================================================================
