------------------------------- MODULE LabState -------------------------------
(***************************************************************************)
(* The synthetic multi-tenant target (labs/multitenant-saas): the state of *)
(* one LabState, the handlers of its HTTP application, and the sealed      *)
(* checkpoint of that state.                                               *)
(*                                                                         *)
(* The handlers are plain functions, so the framework runs them in a pool  *)
(* of threads.  A request authenticates in one critical section of the     *)
(* lab's lock and acts in another; between the two, other requests may     *)
(* act, the clock may pass the end of the session, and a reset may replace *)
(* the whole lab, since each of them reads app.state.lab afresh.           *)
(*                                                                         *)
(* Times are seconds after CANONICAL_EPOCH.  Principals, tenants and       *)
(* document bodies never change except for the role of the editor of       *)
(* tenant A, so a session stands for its principal.  The evidence list is  *)
(* kept as its length and the set of outcomes it records.                  *)
(***************************************************************************)
EXTENDS Integers, FiniteSets

CONSTANTS
  Workers,          \* threads of the pool: requests in flight at one time
  Modes,            \* the modes the lab is created in
  Advances,         \* seconds one advance_clock call may ask for
  SessionLifetime,  \* seconds a tenant session lives (one hour in the code)
  MaxEvidence,      \* bound on the evidence of one lab
  MaxClock,         \* bound on the clock of one lab
  Nothing           \* None, and a worker that holds no request

ASSUME ModesAssumption    == Modes \subseteq {"vulnerable", "patched"}
ASSUME AdvancesAssumption == Advances \subseteq 1..300
ASSUME LifetimeAssumption == SessionLifetime \in Nat \ {0}
ASSUME BoundsAssumption   == MaxEvidence \in Nat /\ MaxClock \in Nat

Sessions == {"a_old", "a_fresh", "b_viewer", "admin"}
Statuses == {"pending", "completed"}
Job == [due : Nat, status : Statuses, delayed : BOOLEAN]

ASSUME NothingAssumption  == Nothing \notin Sessions \cup Int \cup Job

VARIABLES
  lab,      \* app.state.lab
  request   \* request[w]: the session worker w authenticated, or Nothing
vars == <<lab, request>>

Outcomes == {"retained", "allowed_cached", "queued", "delayed", "published",
             "obtained", "advanced", "same_tenant_allowed", "disclosed",
             "blocked", "decoy"}
-------------------------------------------------------------------------------
(* The lab, as LabState.canonical makes it. *)

Canonical(mode) ==
  [mode |-> mode, now |-> 0, policyGeneration |-> 1, role |-> "editor",
   expires |-> [s \in Sessions \ {"a_fresh"} |->
                  IF s = "admin" THEN 24 * SessionLifetime ELSE SessionLifetime],
   retained |-> {}, cache |-> Nothing, job |-> Nothing,
   published |-> FALSE, claimedBy |-> Nothing, downgradedAt |-> Nothing,
   sequence |-> 0, outcomes |-> {}, disclosure |-> Nothing]

Init == /\ \E mode \in Modes : lab = Canonical(mode)
        /\ request = [w \in Workers |-> Nothing]

Tenant(s) == CASE s \in {"a_old", "a_fresh"} -> "A"
               [] s = "b_viewer" -> "B"
               [] s = "admin" -> "platform"

\* _record: one more piece of evidence.
Record(l, outcome) == [l EXCEPT !.sequence = @ + 1,
                                !.outcomes = @ \cup {outcome}]

\* _process_due_jobs: a due synchronisation completes and clears the cache.
ProcessDueJobs(l) ==
  IF l.job # Nothing /\ l.job.status = "pending" /\ l.now >= l.job.due
  THEN [l EXCEPT !.job = [@ EXCEPT !.status = "completed"], !.cache = Nothing]
  ELSE l

WindowOpen(l) == /\ l.downgradedAt # Nothing
                 /\ l.downgradedAt + 60 <= l.now
                 /\ l.now < l.downgradedAt + 180

\* Mutant of ChainComplete: the opaque reference need not have been claimed.
ChainWithoutReference(l) ==
  /\ "a_old" \in l.retained
  /\ l.downgradedAt # Nothing /\ l.role = "viewer"
  /\ l.job # Nothing /\ l.job.delayed /\ l.job.status = "pending"
  /\ l.cache # Nothing /\ l.cache < l.policyGeneration
  /\ WindowOpen(l)
  /\ 1 < l.policyGeneration

\* The eight conditions of _chain_state_unlocked.
ChainComplete(l) ==
  /\ "a_old" \in l.retained
  /\ l.downgradedAt # Nothing /\ l.role = "viewer"
  /\ l.job # Nothing /\ l.job.delayed /\ l.job.status = "pending"
  /\ l.cache # Nothing /\ l.cache < l.policyGeneration
  /\ l.published /\ l.claimedBy = "a_old"
  /\ WindowOpen(l)
  /\ 1 < l.policyGeneration   \* the old session was issued in generation 1

\* evaluate_disclosure: the oracle of the lab.
OracleViolated(l) == l.disclosure # Nothing
-------------------------------------------------------------------------------
(* Requests. *)

MayRecord == lab.sequence < MaxEvidence

\* LabState.authenticate, in require_session.
Authenticate(w, s) ==
  /\ request[w] = Nothing
  /\ s \in DOMAIN lab.expires
  /\ lab.now < lab.expires[s]
  /\ request' = [request EXCEPT ![w] = s]
  /\ UNCHANGED lab

\* The request of w is answered and leaves the lab as l.
Answer(w, l) == /\ lab' = l
                /\ request' = [request EXCEPT ![w] = Nothing]

\* A handler that raises before it changes anything, and the reads of the
\* state that change nothing: evidence, oracle, state_digest, health.
Refuse(w) == request[w] # Nothing /\ Answer(w, lab)

RetainOldSession(w) ==
  /\ MayRecord
  /\ request[w] = "a_old"
  /\ lab.downgradedAt = Nothing
  /\ "a_old" \notin lab.retained
  /\ Answer(w, Record([lab EXCEPT !.retained = @ \cup {"a_old"}], "retained"))

PrimeAuthorizationCache(w) ==
  /\ MayRecord
  /\ request[w] = "a_old"
  /\ lab.role = "editor"
  /\ lab.downgradedAt = Nothing
  /\ Answer(w, Record([lab EXCEPT !.cache = lab.policyGeneration],
                      "allowed_cached"))

\* What downgrade_role writes: role, window, queued job, a fresh session, and
\* in the patched mode an empty authorization cache.
DowngradedLab(l) ==
  [l EXCEPT !.policyGeneration = 2, !.role = "viewer", !.downgradedAt = l.now,
            !.job = [due |-> l.now + 30, status |-> "pending",
                     delayed |-> FALSE],
            !.expires = [s \in Sessions |->
                           IF s = "a_fresh" THEN l.now + SessionLifetime
                           ELSE l.expires[s]],
            !.cache = IF l.mode = "patched" THEN Nothing ELSE @]

DowngradeRole(w) ==
  /\ MayRecord
  /\ request[w] = "admin"
  /\ lab.role = "editor" /\ lab.downgradedAt = Nothing
  /\ Answer(w, Record(DowngradedLab(lab), "queued"))

\* Mutant of DeferredDue: the deferred job falls due inside the window.
DeferredBriefly(l) == l.downgradedAt + 120

\* The deferred job is due well after the window has closed.
DeferredDue(l) == l.downgradedAt + 240

DeferredLab(l) ==
  [l EXCEPT !.job = [due |-> DeferredDue(l), status |-> @.status, delayed |-> TRUE]]

\* delay_queue_job: due jobs are processed before anything is checked, so the
\* call may change the lab and then raise.
DelayQueueJob(w) ==
  LET l == ProcessDueJobs(lab)
  IN  /\ MayRecord
      /\ request[w] = "admin"
      /\ lab.job # Nothing
      /\ \/ /\ l.job.status = "pending" /\ ~l.job.delayed
            /\ Answer(w, Record(DeferredLab(l), "delayed"))
         \/ /\ l.job.status # "pending" \/ l.job.delayed
            /\ Answer(w, l)

PublishReference(w) ==
  /\ MayRecord
  /\ request[w] = "b_viewer"
  /\ ~lab.published
  /\ Answer(w, Record([lab EXCEPT !.published = TRUE], "published"))

\* claim_reference asks for the recipient, not for its old session.
ClaimReference(w) ==
  /\ MayRecord
  /\ request[w] \in {"a_old", "a_fresh"}
  /\ lab.published /\ lab.claimedBy = Nothing
  /\ Answer(w, Record([lab EXCEPT !.claimedBy = request[w]], "obtained"))

\* Mutant of Advanced: the clock moves and the queue is not looked at.
AdvancedOnly(l, seconds) == [l EXCEPT !.now = @ + seconds]

Advanced(l, seconds) == ProcessDueJobs([l EXCEPT !.now = @ + seconds])

AdvanceClock(w, seconds) ==
  /\ MayRecord
  /\ request[w] = "admin"
  /\ lab.now + seconds <= MaxClock
  /\ Answer(w, Record(Advanced(lab, seconds), "advanced"))

\* read_document of a document of the given tenant.  A read of the other
\* tenant's document is recorded whether it is blocked or not.
ReadDocument(w, tenant) ==
  LET l == ProcessDueJobs(lab)
      Discloses == /\ l.mode = "vulnerable"
                   /\ request[w] = "a_old"
                   /\ ChainComplete(l)
  IN  /\ MayRecord
      /\ request[w] # Nothing
      /\ \/ /\ tenant = Tenant(request[w])
            /\ Answer(w, Record(l, "same_tenant_allowed"))
         \/ /\ tenant # Tenant(request[w]) /\ Discloses
            /\ Answer(w, [Record(l, "disclosed") EXCEPT
                            !.disclosure = l.sequence + 1])
         \/ /\ tenant # Tenant(request[w]) /\ ~Discloses
            /\ Answer(w, Record(l, "blocked"))

\* masked_decoy and mock_policy_decoy.
Decoy(w) == /\ MayRecord
            /\ request[w] # Nothing
            /\ Answer(w, Record(lab, "decoy"))

\* chain_state and capture_layers look at the queue before they answer.
Observe(w) == request[w] = "admin" /\ Answer(w, ProcessDueJobs(lab))

\* reset_lab: a clean lab of the same mode replaces this one.
Reset(w) == request[w] = "admin" /\ Answer(w, Canonical(lab.mode))
-------------------------------------------------------------------------------
(* export_checkpoint and from_checkpoint. *)

Checkpoint(l) == l

\* Mutant of FromCheckpoint: the last disclosure is left at its fresh value.
FromCheckpointClean(c) == [c EXCEPT !.disclosure = Nothing]

FromCheckpoint(c) ==
  [Canonical(c.mode) EXCEPT
     !.now = c.now, !.policyGeneration = c.policyGeneration, !.role = c.role,
     !.expires = c.expires, !.retained = c.retained, !.cache = c.cache,
     !.job = c.job, !.published = c.published, !.claimedBy = c.claimedBy,
     !.downgradedAt = c.downgradedAt, !.sequence = c.sequence,
     !.outcomes = c.outcomes, !.disclosure = c.disclosure]

\* What _restore_checkpoint_unlocked demands of the values it reads.
Restorable(c) ==
  /\ c.policyGeneration >= 1
  /\ DOMAIN c.expires \in {Sessions, Sessions \ {"a_fresh"}}
  /\ c.retained \subseteq DOMAIN c.expires
  /\ c.job # Nothing => c.job.status \in Statuses
  /\ c.disclosure # Nothing => c.disclosure \in 1..c.sequence

\* commit and restore_active: the provider keeps the checkpoint and a later
\* process goes on from it.
Restore ==
  /\ Restorable(Checkpoint(lab))
  /\ lab' = FromCheckpoint(Checkpoint(lab))
  /\ request' = [w \in Workers |-> Nothing]
-------------------------------------------------------------------------------
Handle(w) == \/ Refuse(w)
             \/ RetainOldSession(w)
             \/ PrimeAuthorizationCache(w)
             \/ DowngradeRole(w)
             \/ DelayQueueJob(w)
             \/ PublishReference(w)
             \/ ClaimReference(w)
             \/ \E seconds \in Advances : AdvanceClock(w, seconds)
             \/ \E tenant \in {"A", "B"} : ReadDocument(w, tenant)
             \/ Decoy(w)
             \/ Observe(w)
             \/ Reset(w)

Next == \/ \E w \in Workers, s \in Sessions : Authenticate(w, s)
        \/ \E w \in Workers : Handle(w)
        \/ Restore

Spec == Init /\ [][Next]_vars
-------------------------------------------------------------------------------
(* Properties. *)

Lab == [mode : Modes, now : Nat, policyGeneration : {1, 2},
        role : {"editor", "viewer"},
        expires : [Sessions -> Nat] \cup [Sessions \ {"a_fresh"} -> Nat],
        retained : SUBSET Sessions, cache : {Nothing, 1, 2},
        job : Job \cup {Nothing}, published : BOOLEAN,
        claimedBy : Sessions \cup {Nothing}, downgradedAt : Nat \cup {Nothing},
        sequence : Nat, outcomes : SUBSET Outcomes,
        disclosure : Nat \cup {Nothing}]

\* Types, and the five marks downgrade_role leaves, which come together.
TypeOK ==
  /\ lab \in Lab
  /\ request \in [Workers -> Sessions \cup {Nothing}]
  /\ LET downgraded == lab.downgradedAt # Nothing
     IN  /\ downgraded <=> lab.role = "viewer"
         /\ downgraded <=> lab.policyGeneration = 2
         /\ downgraded <=> lab.job # Nothing
         /\ downgraded <=> "a_fresh" \in DOMAIN lab.expires

\* No job is pending at or after the time it is due, so the handlers that look
\* at the queue before they read (read_document, chain_state, capture_layers)
\* find nothing to do, and state_digest, which does not look, agrees with them.
NoOverdueJob ==
  lab.job # Nothing /\ lab.job.status = "pending" => lab.now < lab.job.due

\* After the downgrade a cached decision survives only in the vulnerable mode
\* and only while the synchronisation job is pending.
StaleCacheOnlyWhilePending ==
  lab.cache # Nothing /\ lab.downgradedAt # Nothing =>
    lab.mode = "vulnerable" /\ lab.job.status = "pending"

\* A deferral is worth something: the deferred job is pending throughout the
\* replay window.
DeferralCoversWindow ==
  lab.job # Nothing /\ lab.job.delayed /\ WindowOpen(lab) =>
    lab.job.status = "pending"

\* The queued synchronisation is served on time, neither late nor early, and is
\* all that keeps a stale decision alive (_process_due_jobs, delay_queue_job).
SynchronisationTimely ==
  TypeOK /\ NoOverdueJob /\ StaleCacheOnlyWhilePending /\ DeferralCoversWindow

\* The oracle reports a violation only in the vulnerable mode, and only in a
\* lab whose own evidence holds every prerequisite the lab's README lists,
\* whatever requests were in flight when the lab was reset or restored.
DisclosureNeedsWholeChain ==
  OracleViolated(lab) =>
    /\ lab.mode = "vulnerable"
    /\ {"retained", "allowed_cached", "queued", "delayed", "published",
        "obtained", "advanced", "disclosed"} \subseteq lab.outcomes

\* A lab changes by exactly one piece of evidence at a time, or is replaced by
\* a clean one: what the callers that compare evidence before and after rely on.
OneRecordPerChange ==
  [][lab' # lab => \/ lab'.sequence = lab.sequence + 1
                   \/ lab' = Canonical(lab.mode)]_vars

\* A checkpoint of a lab is accepted and restores that lab exactly.
CheckpointExact == /\ Restorable(Checkpoint(lab))
                   /\ FromCheckpoint(Checkpoint(lab)) = lab
===============================================================================
