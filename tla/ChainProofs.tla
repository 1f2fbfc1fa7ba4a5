------------------------------ MODULE ChainProofs ------------------------------
(***************************************************************************)
(* Proofs about the qualification of chains: about the synthetic target    *)
(* the chains are replayed on (LabState), for any number of workers, any   *)
(* clock steps and any session lifetime; about the materialized            *)
(* qualifications (ChainQualification), for any plan, any number of        *)
(* providers, any images, rebuilds and failures; and about the campaigns   *)
(* that replay the chain (ChainReplay), for any number of faults.          *)
(*                                                                         *)
(* The lab.  Everything is said of one lab value (LabOK), so that a        *)
(* handler is a function of the lab it finds.  The argument has two        *)
(* halves.  Times: a job is pending exactly until it is due, so looking at *)
(* the queue never finds work and a deferral lasts past the window         *)
(* (Served).  Evidence: every mark of the chain was recorded in the lab    *)
(* that carries it (Evident), so a disclosure has its whole history in the *)
(* same lab, however requests and resets interleave.                       *)
(*                                                                         *)
(* The materialized qualifications.  The argument follows a run from both  *)
(* its ends.  The process in the container shows after each of its steps   *)
(* what the actions so far make of a fresh application (BoxOK), which      *)
(* becomes the output of the call (CallOK).  Whatever fails on the host, a *)
(* call that returns without an error has nothing left behind (Tidy,       *)
(* ProvTidy), and only such a call lets the qualification go on: that is   *)
(* why the next run starts on an empty docker.                             *)
(*                                                                         *)
(* The replays of the chain.  What the chain makes of a clean lab has a    *)
(* closed form (ChainLab), which every step takes one further; of any      *)
(* other plan it is enough to know which marks it can leave (PlanLab), for *)
(* a control always lacks one that the disclosure needs (Barred).  So a    *)
(* scenario ends as its plan foresees (Foreseen) or something outside it   *)
(* has failed, which no result can hide (Faulted).                         *)
(***************************************************************************)
EXTENDS ChainReplay, ChainQualification, SequenceTheorems, FiniteSetTheorems, TLAPS

(***************************************************************************)
(*                         The synthetic target                            *)
(***************************************************************************)

\* The five marks downgrade_role leaves come together.
Marked(l) ==
  /\ l.downgradedAt # Nothing <=> l.role = "viewer"
  /\ l.downgradedAt # Nothing <=> l.policyGeneration = 2
  /\ l.downgradedAt # Nothing <=> l.job # Nothing
  /\ l.downgradedAt # Nothing <=> "a_fresh" \in DOMAIN l.expires

\* A job is due 30 seconds after the downgrade, or 240 once it was deferred, and
\* is pending exactly until then; the stale decision lives no longer.
Served(l) ==
  /\ l.job # Nothing =>
       /\ l.job.due = l.downgradedAt + (IF l.job.delayed THEN 240 ELSE 30)
       /\ l.job.status = "pending" <=> l.now < l.job.due
  /\ l.cache # Nothing /\ l.downgradedAt # Nothing =>
       l.mode = "vulnerable" /\ l.job.status = "pending"

ChainEvidence == {"retained", "allowed_cached", "queued", "delayed", "published",
                  "obtained", "advanced", "disclosed"}

\* Every mark of the chain has its evidence in the lab that carries it.
Evident(l) ==
  /\ "a_old" \in l.retained => "retained" \in l.outcomes
  /\ l.cache # Nothing => "allowed_cached" \in l.outcomes
  /\ l.downgradedAt # Nothing => "queued" \in l.outcomes
  /\ l.job # Nothing /\ l.job.delayed => "delayed" \in l.outcomes
  /\ l.published => "published" \in l.outcomes
  /\ l.claimedBy # Nothing => "obtained" \in l.outcomes
  /\ l.now > 0 => "advanced" \in l.outcomes
  /\ l.disclosure # Nothing =>
       l.mode = "vulnerable" /\ ChainEvidence \subseteq l.outcomes

\* What from_checkpoint demands of the rest.
Sealable(l) ==
  /\ l.retained \subseteq DOMAIN l.expires
  /\ l.disclosure # Nothing => l.disclosure \in 1..l.sequence

LabOK(l) == l \in Lab /\ Marked(l) /\ Served(l) /\ Evident(l) /\ Sealable(l)

\* x is a lab in order with one piece of evidence more than l.
Grown(x, l) == LabOK(x) /\ x.sequence = l.sequence + 1

LabInv == LabOK(lab) /\ request \in [Workers -> Sessions \cup {Nothing}]
-------------------------------------------------------------------------------
(* Lemmas about one lab. *)

\* Looking at the queue finds nothing to do (_process_due_jobs).
LEMMA NothingDue == ASSUME NEW l, LabOK(l) PROVE ProcessDueJobs(l) = l
<1>1. l.job # Nothing => l.job \in Job /\ l.now \in Nat
  BY DEF LabOK, Lab
<1> QED BY <1>1 DEF LabOK, Served, ProcessDueJobs, Job

\* Where the fields of a lab lie.
LEMMA Fields ==
  ASSUME NEW l \in Lab
  PROVE  /\ l.mode \in Modes /\ l.now \in Nat /\ l.policyGeneration \in {1, 2}
         /\ l.role \in {"editor", "viewer"}
         /\ l.retained \in SUBSET Sessions /\ l.cache \in {Nothing, 1, 2}
         /\ l.job \in Job \cup {Nothing} /\ l.published \in BOOLEAN
         /\ l.claimedBy \in Sessions \cup {Nothing} /\ l.downgradedAt \in Nat \cup {Nothing}
         /\ l.sequence \in Nat /\ l.outcomes \in SUBSET Outcomes
         /\ l.disclosure \in Nat \cup {Nothing}
         /\ l.expires \in [Sessions -> Nat] \cup [Sessions \ {"a_fresh"} -> Nat]
BY DEF Lab

\* r is l with one more piece of evidence, and in all else the same.
OneMore(r, l, outcome) ==
  /\ r \in Lab
  /\ r.mode = l.mode /\ r.now = l.now
  /\ r.policyGeneration = l.policyGeneration /\ r.role = l.role
  /\ r.expires = l.expires /\ r.retained = l.retained /\ r.cache = l.cache
  /\ r.job = l.job /\ r.published = l.published
  /\ r.claimedBy = l.claimedBy /\ r.downgradedAt = l.downgradedAt
  /\ r.sequence = l.sequence + 1 /\ r.outcomes = l.outcomes \cup {outcome}
  /\ r.disclosure = l.disclosure

\* What _record changes.
LEMMA RecordFields ==
  ASSUME NEW l \in Lab, NEW outcome \in Outcomes
  PROVE  OneMore(Record(l, outcome), l, outcome)
<1> PICK r : r = Record(l, outcome)
  OBVIOUS
<1>1. l.sequence + 1 \in Nat /\ l.outcomes \cup {outcome} \in SUBSET Outcomes
  BY Fields
<1>2. r = [l EXCEPT !.sequence = l.sequence + 1, !.outcomes = l.outcomes \cup {outcome}]
  BY DEF Record, Lab
<1>3. OneMore(r, l, outcome)
  BY <1>1, <1>2, ZenonT(60) DEF OneMore, Lab
<1> QED BY <1>3

\* One more piece of evidence takes nothing away (_record).
LEMMA Recorded ==
  ASSUME NEW l, LabOK(l), NEW outcome \in Outcomes
  PROVE  Grown(Record(l, outcome), l)
<1> PICK r : r = Record(l, outcome)
  OBVIOUS
<1>1. l \in Lab
  BY DEF LabOK
<1>2. /\ r \in Lab
      /\ r.mode = l.mode /\ r.now = l.now
      /\ r.policyGeneration = l.policyGeneration /\ r.role = l.role
      /\ r.expires = l.expires /\ r.retained = l.retained /\ r.cache = l.cache
      /\ r.job = l.job /\ r.published = l.published
      /\ r.claimedBy = l.claimedBy /\ r.downgradedAt = l.downgradedAt
      /\ r.sequence = l.sequence + 1 /\ r.outcomes = l.outcomes \cup {outcome}
      /\ r.disclosure = l.disclosure
  BY <1>1, RecordFields DEF OneMore
<1>3. Marked(r) /\ Served(r)
  BY <1>2 DEF LabOK, Marked, Served
<1>4. Evident(r)
  BY <1>2 DEF LabOK, Evident
<1>5. Sealable(r)
  BY <1>1, <1>2, Fields DEF LabOK, Sealable
<1> QED BY <1>2, <1>3, <1>4, <1>5 DEF LabOK, Grown

\* The lab create_app and reset_lab make.
LEMMA CanonicalOK == ASSUME NEW mode \in Modes PROVE LabOK(Canonical(mode))
<1> PICK r : r = Canonical(mode)
  OBVIOUS
<1> DEFINE expires == [s \in Sessions \ {"a_fresh"} |->
                         IF s = "admin" THEN 24 * SessionLifetime ELSE SessionLifetime]
<1>1. expires \in [Sessions \ {"a_fresh"} -> Nat]
  BY LifetimeAssumption
<1>2. r = [mode |-> mode, now |-> 0, policyGeneration |-> 1, role |-> "editor",
           expires |-> expires, retained |-> {}, cache |-> Nothing, job |-> Nothing,
           published |-> FALSE, claimedBy |-> Nothing, downgradedAt |-> Nothing,
           sequence |-> 0, outcomes |-> {}, disclosure |-> Nothing]
  BY DEF Canonical
<1> HIDE DEF expires
<1>3. r \in Lab
  BY <1>1, <1>2 DEF Lab
<1>4. DOMAIN expires = Sessions \ {"a_fresh"}
  BY <1>1
<1>5. Marked(r) /\ Served(r) /\ Evident(r) /\ Sealable(r)
  BY <1>2, <1>4 DEF Marked, Served, Evident, Sealable
<1> QED BY <1>3, <1>5 DEF LabOK

\* retain_old_session.
LEMMA RetainedOK ==
  ASSUME NEW l, LabOK(l)
  PROVE  Grown(Record([l EXCEPT !.retained = @ \cup {"a_old"}], "retained"), l)
<1> PICK m : m = [l EXCEPT !.retained = @ \cup {"a_old"}]
  OBVIOUS
<1> PICK r : r = Record(m, "retained")
  OBVIOUS
<1>1. l \in Lab
  BY DEF LabOK
<1>2. m \in Lab
  BY <1>1 DEF Lab, Sessions
<1>3. /\ m.mode = l.mode /\ m.now = l.now
      /\ m.policyGeneration = l.policyGeneration /\ m.role = l.role
      /\ m.expires = l.expires /\ m.retained = l.retained \cup {"a_old"}
      /\ m.cache = l.cache /\ m.job = l.job /\ m.published = l.published
      /\ m.claimedBy = l.claimedBy /\ m.downgradedAt = l.downgradedAt
      /\ m.sequence = l.sequence /\ m.outcomes = l.outcomes
      /\ m.disclosure = l.disclosure
  BY <1>1 DEF Lab
<1>4. /\ r \in Lab
      /\ r.mode = l.mode /\ r.now = l.now
      /\ r.policyGeneration = l.policyGeneration /\ r.role = l.role
      /\ r.expires = l.expires /\ r.retained = l.retained \cup {"a_old"}
      /\ r.cache = l.cache /\ r.job = l.job /\ r.published = l.published
      /\ r.claimedBy = l.claimedBy /\ r.downgradedAt = l.downgradedAt
      /\ r.sequence = l.sequence + 1
      /\ r.outcomes = l.outcomes \cup {"retained"}
      /\ r.disclosure = l.disclosure
  <2>1. "retained" \in Outcomes
    BY DEF Outcomes
  <2>2. OneMore(r, m, "retained")
    BY <1>2, <2>1, RecordFields, Zenon
  <2> QED BY <1>3, <2>2 DEF OneMore
<1>5. Marked(r) /\ Served(r)
  BY <1>4 DEF LabOK, Marked, Served
<1>6. Evident(r)
  BY <1>4 DEF LabOK, Evident, ChainEvidence
<1>7. Sealable(r)
  <2>1. "a_old" \in DOMAIN l.expires
    BY <1>1, Fields DEF Sessions
  <2>2. l.sequence \in Nat
    BY <1>1, Fields
  <2>3. r.retained \subseteq DOMAIN r.expires
    BY <1>4, <2>1 DEF LabOK, Sealable
  <2>4. l.disclosure # Nothing => l.disclosure \in 1..l.sequence
    BY DEF LabOK, Sealable
  <2>5. r.disclosure # Nothing => r.disclosure \in 1..r.sequence
    BY <1>4, <2>2, <2>4
  <2> QED BY <2>3, <2>5 DEF Sealable
<1> QED BY <1>4, <1>5, <1>6, <1>7 DEF LabOK, Grown

\* prime_authorization_cache.
LEMMA PrimedOK ==
  ASSUME NEW l, LabOK(l), l.downgradedAt = Nothing
  PROVE  Grown(Record([l EXCEPT !.cache = l.policyGeneration], "allowed_cached"), l)
<1> PICK m : m = [l EXCEPT !.cache = l.policyGeneration]
  OBVIOUS
<1> PICK r : r = Record(m, "allowed_cached")
  OBVIOUS
<1>1. l \in Lab
  BY DEF LabOK
<1>2. m \in Lab
  BY <1>1 DEF Lab
<1>3. /\ m.mode = l.mode /\ m.now = l.now
      /\ m.policyGeneration = l.policyGeneration /\ m.role = l.role
      /\ m.expires = l.expires /\ m.retained = l.retained
      /\ m.cache = l.policyGeneration /\ m.job = l.job
      /\ m.published = l.published /\ m.claimedBy = l.claimedBy
      /\ m.downgradedAt = l.downgradedAt /\ m.sequence = l.sequence
      /\ m.outcomes = l.outcomes /\ m.disclosure = l.disclosure
  BY <1>1 DEF Lab
<1>4. /\ r \in Lab
      /\ r.mode = l.mode /\ r.now = l.now
      /\ r.policyGeneration = l.policyGeneration /\ r.role = l.role
      /\ r.expires = l.expires /\ r.retained = l.retained
      /\ r.cache = l.policyGeneration /\ r.job = l.job
      /\ r.published = l.published /\ r.claimedBy = l.claimedBy
      /\ r.downgradedAt = l.downgradedAt /\ r.sequence = l.sequence + 1
      /\ r.outcomes = l.outcomes \cup {"allowed_cached"}
      /\ r.disclosure = l.disclosure
  <2>1. "allowed_cached" \in Outcomes
    BY DEF Outcomes
  <2>2. OneMore(r, m, "allowed_cached")
    BY <1>2, <2>1, RecordFields, Zenon
  <2> QED BY <1>3, <2>2 DEF OneMore
<1>5. Marked(r) /\ Served(r)
  BY <1>4 DEF LabOK, Marked, Served
<1>6. Evident(r)
  BY <1>4 DEF LabOK, Evident, ChainEvidence
<1>7. Sealable(r)
  BY <1>1, <1>4, Fields DEF LabOK, Sealable
<1> QED BY <1>4, <1>5, <1>6, <1>7 DEF LabOK, Grown

\* publish_reference.
LEMMA PublishedOK ==
  ASSUME NEW l, LabOK(l)
  PROVE  Grown(Record([l EXCEPT !.published = TRUE], "published"), l)
<1> PICK m : m = [l EXCEPT !.published = TRUE]
  OBVIOUS
<1> PICK r : r = Record(m, "published")
  OBVIOUS
<1>1. l \in Lab
  BY DEF LabOK
<1>2. m \in Lab
  BY <1>1 DEF Lab
<1>3. /\ m.mode = l.mode /\ m.now = l.now
      /\ m.policyGeneration = l.policyGeneration /\ m.role = l.role
      /\ m.expires = l.expires /\ m.retained = l.retained /\ m.cache = l.cache
      /\ m.job = l.job /\ m.published = TRUE /\ m.claimedBy = l.claimedBy
      /\ m.downgradedAt = l.downgradedAt /\ m.sequence = l.sequence
      /\ m.outcomes = l.outcomes /\ m.disclosure = l.disclosure
  BY <1>1 DEF Lab
<1>4. /\ r \in Lab
      /\ r.mode = l.mode /\ r.now = l.now
      /\ r.policyGeneration = l.policyGeneration /\ r.role = l.role
      /\ r.expires = l.expires /\ r.retained = l.retained /\ r.cache = l.cache
      /\ r.job = l.job /\ r.published = TRUE /\ r.claimedBy = l.claimedBy
      /\ r.downgradedAt = l.downgradedAt /\ r.sequence = l.sequence + 1
      /\ r.outcomes = l.outcomes \cup {"published"}
      /\ r.disclosure = l.disclosure
  <2>1. "published" \in Outcomes
    BY DEF Outcomes
  <2>2. OneMore(r, m, "published")
    BY <1>2, <2>1, RecordFields, Zenon
  <2> QED BY <1>3, <2>2, ZenonT(60) DEF OneMore
<1>5. Marked(r) /\ Served(r)
  BY <1>4 DEF LabOK, Marked, Served
<1>6. Evident(r)
  BY <1>4 DEF LabOK, Evident, ChainEvidence
<1>7. Sealable(r)
  BY <1>1, <1>4, Fields DEF LabOK, Sealable
<1> QED BY <1>4, <1>5, <1>6, <1>7 DEF LabOK, Grown

\* claim_reference.
LEMMA ClaimedOK ==
  ASSUME NEW l, LabOK(l), NEW s \in {"a_old", "a_fresh"}
  PROVE  Grown(Record([l EXCEPT !.claimedBy = s], "obtained"), l)
<1> PICK m : m = [l EXCEPT !.claimedBy = s]
  OBVIOUS
<1> PICK r : r = Record(m, "obtained")
  OBVIOUS
<1>1. l \in Lab
  BY DEF LabOK
<1>2. m \in Lab
  BY <1>1 DEF Lab, Sessions
<1>3. /\ m.mode = l.mode /\ m.now = l.now
      /\ m.policyGeneration = l.policyGeneration /\ m.role = l.role
      /\ m.expires = l.expires /\ m.retained = l.retained /\ m.cache = l.cache
      /\ m.job = l.job /\ m.published = l.published /\ m.claimedBy = s
      /\ m.downgradedAt = l.downgradedAt /\ m.sequence = l.sequence
      /\ m.outcomes = l.outcomes /\ m.disclosure = l.disclosure
  BY <1>1 DEF Lab
<1>4. /\ r \in Lab
      /\ r.mode = l.mode /\ r.now = l.now
      /\ r.policyGeneration = l.policyGeneration /\ r.role = l.role
      /\ r.expires = l.expires /\ r.retained = l.retained /\ r.cache = l.cache
      /\ r.job = l.job /\ r.published = l.published /\ r.claimedBy = s
      /\ r.downgradedAt = l.downgradedAt /\ r.sequence = l.sequence + 1
      /\ r.outcomes = l.outcomes \cup {"obtained"}
      /\ r.disclosure = l.disclosure
  <2>1. "obtained" \in Outcomes
    BY DEF Outcomes
  <2>2. OneMore(r, m, "obtained")
    BY <1>2, <2>1, RecordFields, Zenon
  <2> QED BY <1>3, <2>2 DEF OneMore
<1>5. Marked(r) /\ Served(r)
  BY <1>4 DEF LabOK, Marked, Served
<1>6. Evident(r)
  BY <1>4 DEF LabOK, Evident, ChainEvidence
<1>7. Sealable(r)
  BY <1>1, <1>4, Fields DEF LabOK, Sealable
<1> QED BY <1>4, <1>5, <1>6, <1>7 DEF LabOK, Grown

\* downgrade_role: the window, the job and the fresh session appear together.
LEMMA DowngradedOK ==
  ASSUME NEW l, LabOK(l), l.downgradedAt = Nothing
  PROVE  Grown(Record(DowngradedLab(l), "queued"), l)
<1> PICK m : m = DowngradedLab(l)
  OBVIOUS
<1> PICK r : r = Record(m, "queued")
  OBVIOUS
<1>1. l \in Lab
  BY DEF LabOK
<1> DEFINE expires == [s \in Sessions |-> IF s = "a_fresh" THEN l.now + SessionLifetime
                                       ELSE l.expires[s]]
<1>a. expires \in [Sessions -> Nat]
  BY <1>1, Fields, LifetimeAssumption
<1>b. DOMAIN expires = Sessions
  OBVIOUS
<1>c. m = [l EXCEPT !.policyGeneration = 2, !.role = "viewer", !.downgradedAt = l.now,
                    !.job = [due |-> l.now + 30, status |-> "pending",
                             delayed |-> FALSE],
                    !.expires = expires,
                    !.cache = IF l.mode = "patched" THEN Nothing ELSE l.cache]
  BY <1>1 DEF DowngradedLab, Lab
<1>d. [due |-> l.now + 30, status |-> "pending", delayed |-> FALSE] \in Job
  BY <1>1, Fields DEF Job, Statuses
<1> HIDE DEF expires
<1>2. m \in Lab
  BY <1>1, <1>a, <1>c, <1>d, ZenonT(60) DEF Lab
<1>3. /\ m.mode = l.mode /\ m.now = l.now /\ m.policyGeneration = 2
      /\ m.role = "viewer" /\ m.expires = expires /\ m.retained = l.retained
      /\ m.cache = IF l.mode = "patched" THEN Nothing ELSE l.cache
      /\ m.job = [due |-> l.now + 30, status |-> "pending", delayed |-> FALSE]
      /\ m.published = l.published /\ m.claimedBy = l.claimedBy
      /\ m.downgradedAt = l.now /\ m.sequence = l.sequence
      /\ m.outcomes = l.outcomes /\ m.disclosure = l.disclosure
  BY <1>1, <1>c DEF Lab
<1>4. /\ r \in Lab
      /\ r.mode = l.mode /\ r.now = l.now /\ r.policyGeneration = 2
      /\ r.role = "viewer" /\ r.expires = expires /\ r.retained = l.retained
      /\ r.cache = IF l.mode = "patched" THEN Nothing ELSE l.cache
      /\ r.job = [due |-> l.now + 30, status |-> "pending", delayed |-> FALSE]
      /\ r.published = l.published /\ r.claimedBy = l.claimedBy
      /\ r.downgradedAt = l.now /\ r.sequence = l.sequence + 1
      /\ r.outcomes = l.outcomes \cup {"queued"} /\ r.disclosure = l.disclosure
  <2>1. "queued" \in Outcomes
    BY DEF Outcomes
  <2>2. OneMore(r, m, "queued")
    BY <1>2, <2>1, RecordFields, Zenon
  <2> QED BY <1>3, <2>2 DEF OneMore
<1>5. Marked(r) /\ Served(r)
  <2>1. l.now # Nothing /\ r.job # Nothing
    BY <1>1, <1>4, <1>d, Fields, NothingAssumption
  <2>2. Marked(r)
    BY <1>4, <1>b, <2>1 DEF Marked, Sessions
  <2>3. l.now \in Nat
    BY <1>1, Fields
  <2>4. l.mode \in {"vulnerable", "patched"}
    BY <1>1, Fields, ModesAssumption
  <2>5. /\ r.job.due = r.downgradedAt + 30 /\ r.now < r.job.due
        /\ r.job.status = "pending" /\ ~r.job.delayed
    BY <1>4, <2>3
  <2>6. r.cache # Nothing => r.mode = "vulnerable"
    BY <1>4, <2>4
  <2>7. Served(r)
    BY <2>5, <2>6 DEF Served
  <2> QED BY <2>2, <2>7
<1>6. Evident(r)
  BY <1>4 DEF LabOK, Evident, ChainEvidence
<1>7. Sealable(r)
  BY <1>1, <1>4, <1>b, Fields DEF LabOK, Sealable
<1> QED BY <1>4, <1>5, <1>6, <1>7 DEF LabOK, Grown

\* delay_queue_job, of a job that is pending and not yet deferred.
LEMMA DelayedOK ==
  ASSUME NEW l, LabOK(l),
         l.job # Nothing, l.job.status = "pending", ~l.job.delayed
  PROVE  Grown(Record(DeferredLab(l), "delayed"), l)
<1> PICK m : m = DeferredLab(l)
  OBVIOUS
<1> PICK r : r = Record(m, "delayed")
  OBVIOUS
<1>1. l \in Lab
  BY DEF LabOK
<1> DEFINE job == [due |-> l.downgradedAt + 240, status |-> "pending", delayed |-> TRUE]
<1>a. l.job \in Job /\ l.downgradedAt \in Nat
  BY <1>1, Fields DEF LabOK, Marked
<1>b. job \in Job
  BY <1>a DEF Job, Statuses
<1>c. m = [l EXCEPT !.job = job]
  BY <1>1 DEF Lab, DeferredLab, DeferredDue
<1>d. job.due = l.downgradedAt + 240 /\ job.status = "pending" /\ job.delayed
  OBVIOUS
<1> HIDE DEF job
<1>2. m \in Lab
  BY <1>1, <1>b, <1>c DEF Lab
<1>3. /\ m.mode = l.mode /\ m.now = l.now
      /\ m.policyGeneration = l.policyGeneration /\ m.role = l.role
      /\ m.expires = l.expires /\ m.retained = l.retained /\ m.cache = l.cache
      /\ m.job = job /\ m.published = l.published /\ m.claimedBy = l.claimedBy
      /\ m.downgradedAt = l.downgradedAt /\ m.sequence = l.sequence
      /\ m.outcomes = l.outcomes /\ m.disclosure = l.disclosure
  BY <1>1, <1>c DEF Lab
<1>4. /\ r \in Lab
      /\ r.mode = l.mode /\ r.now = l.now
      /\ r.policyGeneration = l.policyGeneration /\ r.role = l.role
      /\ r.expires = l.expires /\ r.retained = l.retained /\ r.cache = l.cache
      /\ r.job = job /\ r.published = l.published /\ r.claimedBy = l.claimedBy
      /\ r.downgradedAt = l.downgradedAt /\ r.sequence = l.sequence + 1
      /\ r.outcomes = l.outcomes \cup {"delayed"}
      /\ r.disclosure = l.disclosure
  <2>1. "delayed" \in Outcomes
    BY DEF Outcomes
  <2>2. OneMore(r, m, "delayed")
    BY <1>2, <2>1, RecordFields, Zenon
  <2> QED BY <1>3, <2>2 DEF OneMore
<1>5. Marked(r) /\ Served(r)
  <2>1. job # Nothing
    BY <1>b, NothingAssumption
  <2>2. Marked(r)
    BY <1>4, <2>1 DEF LabOK, Marked
  <2>3. l.now \in Nat /\ l.job.due \in Int
    BY <1>1, <1>a, Fields DEF Job
  <2>4. l.job.due = l.downgradedAt + (IF l.job.delayed THEN 240 ELSE 30)
    BY DEF LabOK, Served
  <2>5. l.now < l.job.due
    BY DEF LabOK, Served
  <2>a. r.job.status = "pending" /\ r.now < r.job.due
    BY <1>4, <1>a, <1>d, <2>3, <2>4, <2>5
  <2>b. r.job.due = r.downgradedAt + (IF r.job.delayed THEN 240 ELSE 30)
    BY <1>4, <1>d
  <2>6. r.cache # Nothing /\ r.downgradedAt # Nothing => r.mode = "vulnerable"
    BY <1>4 DEF LabOK, Served
  <2>7. Served(r)
    BY <2>a, <2>b, <2>6, Zenon DEF Served
  <2> QED BY <2>2, <2>7
<1>6. Evident(r)
  BY <1>4 DEF LabOK, Evident, ChainEvidence
<1>7. Sealable(r)
  BY <1>1, <1>4, Fields DEF LabOK, Sealable
<1> QED BY <1>4, <1>5, <1>6, <1>7 DEF LabOK, Grown

\* The lab once its clock has moved past the time its job is due.
ServedLab(l, seconds) == [l EXCEPT !.now = l.now + seconds,
                                   !.job = [l.job EXCEPT !.status = "completed"],
                                   !.cache = Nothing]

\* advance_clock past the time the job is due.
LEMMA ServedOK ==
  ASSUME NEW l, LabOK(l),
         NEW seconds \in Nat \ {0}, l.job # Nothing, l.job.status = "pending",
         l.now + seconds >= l.job.due
  PROVE  Grown(Record(ServedLab(l, seconds), "advanced"), l)
<1> PICK m : m = ServedLab(l, seconds)
  OBVIOUS
<1> PICK r : r = Record(m, "advanced")
  OBVIOUS
<1>1. l \in Lab
  BY DEF LabOK
<1> DEFINE job == [due |-> l.job.due, status |-> "completed", delayed |-> l.job.delayed]
<1>a. l.job \in Job
  BY <1>1, Fields
<1>b. job \in Job
  BY <1>a DEF Job, Statuses
<1>c. m = [l EXCEPT !.now = l.now + seconds, !.job = job, !.cache = Nothing]
  <2>1. [l.job EXCEPT !.status = "completed"] = job
    BY <1>a DEF Job
  <2> HIDE DEF job
  <2> QED BY <2>1 DEF ServedLab
<1>d. /\ job.due = l.job.due /\ job.status = "completed"
      /\ job.delayed = l.job.delayed
  OBVIOUS
<1>e. l.now + seconds \in Nat
  BY <1>1, Fields
<1> HIDE DEF job
<1>2. m \in Lab
  BY <1>1, <1>b, <1>c, <1>e, ZenonT(60) DEF Lab
<1>3. /\ m.mode = l.mode /\ m.now = l.now + seconds
      /\ m.policyGeneration = l.policyGeneration /\ m.role = l.role
      /\ m.expires = l.expires /\ m.retained = l.retained /\ m.cache = Nothing
      /\ m.job = job /\ m.published = l.published /\ m.claimedBy = l.claimedBy
      /\ m.downgradedAt = l.downgradedAt /\ m.sequence = l.sequence
      /\ m.outcomes = l.outcomes /\ m.disclosure = l.disclosure
  BY <1>1, <1>c DEF Lab
<1>4. /\ r \in Lab
      /\ r.mode = l.mode /\ r.now = l.now + seconds
      /\ r.policyGeneration = l.policyGeneration /\ r.role = l.role
      /\ r.expires = l.expires /\ r.retained = l.retained /\ r.cache = Nothing
      /\ r.job = job /\ r.published = l.published /\ r.claimedBy = l.claimedBy
      /\ r.downgradedAt = l.downgradedAt /\ r.sequence = l.sequence + 1
      /\ r.outcomes = l.outcomes \cup {"advanced"}
      /\ r.disclosure = l.disclosure
  <2>1. "advanced" \in Outcomes
    BY DEF Outcomes
  <2>2. OneMore(r, m, "advanced")
    BY <1>2, <2>1, RecordFields, Zenon
  <2> QED BY <1>3, <2>2 DEF OneMore
<1>5. Marked(r) /\ Served(r)
  <2>1. job # Nothing
    BY <1>b, NothingAssumption
  <2>2. Marked(r)
    BY <1>4, <2>1 DEF LabOK, Marked
  <2>3. l.now \in Nat /\ l.job.due \in Int
    BY <1>1, <1>a, Fields DEF Job
  <2>4. l.job.due = l.downgradedAt + (IF l.job.delayed THEN 240 ELSE 30)
    BY DEF LabOK, Served
  <2>5. r.job.status # "pending" /\ ~(r.now < r.job.due)
    BY <1>4, <1>d, <2>3
  <2>b. r.job.due = r.downgradedAt + (IF r.job.delayed THEN 240 ELSE 30)
    BY <1>4, <1>d, <2>4, ZenonT(60)
  <2>6. r.cache = Nothing
    BY <1>4
  <2>c. r.job.status = "pending" <=> r.now < r.job.due
    BY <2>5
  <2>7. Served(r)
    BY <2>b, <2>c, <2>6 DEF Served
  <2> QED BY <2>2, <2>7
<1>6. Evident(r)
  BY <1>4, <1>d DEF LabOK, Evident, ChainEvidence
<1>7. Sealable(r)
  BY <1>1, <1>4, Fields DEF LabOK, Sealable
<1> QED BY <1>4, <1>5, <1>6, <1>7 DEF LabOK, Grown

\* advance_clock that leaves the queue as it was.
LEMMA UnservedOK ==
  ASSUME NEW l, LabOK(l),
         NEW seconds \in Nat \ {0},
         ~(l.job # Nothing /\ l.job.status = "pending" /\ l.now + seconds >= l.job.due)
  PROVE  Grown(Record([l EXCEPT !.now = l.now + seconds], "advanced"), l)
<1> PICK m : m = [l EXCEPT !.now = l.now + seconds]
  OBVIOUS
<1> PICK r : r = Record(m, "advanced")
  OBVIOUS
<1>1. l \in Lab
  BY DEF LabOK
<1>2. m \in Lab
  BY <1>1 DEF Lab
<1>3. /\ m.mode = l.mode /\ m.now = l.now + seconds
      /\ m.policyGeneration = l.policyGeneration /\ m.role = l.role
      /\ m.expires = l.expires /\ m.retained = l.retained /\ m.cache = l.cache
      /\ m.job = l.job /\ m.published = l.published
      /\ m.claimedBy = l.claimedBy /\ m.downgradedAt = l.downgradedAt
      /\ m.sequence = l.sequence /\ m.outcomes = l.outcomes
      /\ m.disclosure = l.disclosure
  BY <1>1 DEF Lab
<1>4. /\ r \in Lab
      /\ r.mode = l.mode /\ r.now = l.now + seconds
      /\ r.policyGeneration = l.policyGeneration /\ r.role = l.role
      /\ r.expires = l.expires /\ r.retained = l.retained /\ r.cache = l.cache
      /\ r.job = l.job /\ r.published = l.published
      /\ r.claimedBy = l.claimedBy /\ r.downgradedAt = l.downgradedAt
      /\ r.sequence = l.sequence + 1
      /\ r.outcomes = l.outcomes \cup {"advanced"}
      /\ r.disclosure = l.disclosure
  <2>1. "advanced" \in Outcomes
    BY DEF Outcomes
  <2>2. OneMore(r, m, "advanced")
    BY <1>2, <2>1, RecordFields, Zenon
  <2> QED BY <1>3, <2>2 DEF OneMore
<1>5. Marked(r) /\ Served(r)
  BY <1>1, <1>4, Fields DEF LabOK, Marked, Served, Job
<1>6. Evident(r)
  BY <1>4 DEF LabOK, Evident, ChainEvidence
<1>7. Sealable(r)
  BY <1>1, <1>4, Fields DEF LabOK, Sealable
<1> QED BY <1>4, <1>5, <1>6, <1>7 DEF LabOK, Grown

\* advance_clock, whatever the queue holds.
LEMMA AdvancedOK ==
  ASSUME NEW l, LabOK(l), NEW seconds \in Nat \ {0}
  PROVE  Grown(Record(Advanced(l, seconds), "advanced"), l)
<1>1. l \in Lab /\ l.now \in Nat
  BY Fields DEF LabOK
<1> PICK m : m = [l EXCEPT !.now = l.now + seconds]
  OBVIOUS
<1>2. m.job = l.job /\ m.now = l.now + seconds /\ m = [l EXCEPT !.now = l.now + seconds]
  BY <1>1 DEF Lab
<1>3. Advanced(l, seconds) = ProcessDueJobs(m)
  BY DEF Advanced
<1>4. CASE l.job # Nothing /\ l.job.status = "pending" /\ l.now + seconds >= l.job.due
  <2>1. ProcessDueJobs(m) = [m EXCEPT !.job = [m.job EXCEPT !.status = "completed"],
                                      !.cache = Nothing]
    BY <1>2, <1>4 DEF ProcessDueJobs
  <2>2. ProcessDueJobs(m) = ServedLab(l, seconds)
    BY <1>2, <2>1 DEF ServedLab
  <2> QED BY <1>3, <1>4, <2>2, ServedOK
<1>5. CASE ~(l.job # Nothing /\ l.job.status = "pending" /\ l.now + seconds >= l.job.due)
  <2>1. ProcessDueJobs(m) = m
    BY <1>2, <1>5 DEF ProcessDueJobs
  <2> QED BY <1>2, <1>3, <1>5, <2>1, UnservedOK
<1> QED BY <1>4, <1>5

\* read_document of the other tenant at the end of the whole chain.
LEMMA DisclosedOK ==
  ASSUME NEW l, LabOK(l), l.mode = "vulnerable", ChainComplete(l)
  PROVE  Grown([Record(l, "disclosed") EXCEPT !.disclosure = l.sequence + 1], l)
<1> PICK m : m = Record(l, "disclosed")
  OBVIOUS
<1> PICK r : r = [m EXCEPT !.disclosure = l.sequence + 1]
  OBVIOUS
<1>1. l \in Lab /\ l.sequence + 1 \in Nat
  BY Fields DEF LabOK
<1>2. OneMore(m, l, "disclosed")
  BY <1>1, RecordFields DEF Outcomes
<1>3. r \in Lab
  BY <1>1, <1>2 DEF OneMore, Lab
<1>4. /\ r.mode = l.mode /\ r.now = l.now /\ r.policyGeneration = l.policyGeneration
      /\ r.role = l.role /\ r.expires = l.expires /\ r.retained = l.retained
      /\ r.cache = l.cache /\ r.job = l.job /\ r.published = l.published
      /\ r.claimedBy = l.claimedBy /\ r.downgradedAt = l.downgradedAt
      /\ r.sequence = l.sequence + 1 /\ r.outcomes = l.outcomes \cup {"disclosed"}
      /\ r.disclosure = l.sequence + 1
  BY <1>2 DEF OneMore, Lab
<1>5. Marked(r) /\ Served(r)
  BY <1>4 DEF LabOK, Marked, Served
<1>6. l.now > 0 /\ l.claimedBy # Nothing
  <2>1. l.now \in Nat /\ l.downgradedAt \in Nat
    BY <1>1, Fields DEF ChainComplete
  <2> QED BY <2>1, NothingAssumption DEF ChainComplete, WindowOpen, Sessions
<1>7. ChainEvidence \subseteq r.outcomes
  BY <1>4, <1>6 DEF LabOK, Evident, ChainComplete, ChainEvidence
<1>8. Evident(r)
  BY <1>4, <1>7 DEF LabOK, Evident
<1>9. Sealable(r)
  BY <1>1, <1>4, Fields DEF LabOK, Sealable
<1> QED BY <1>3, <1>4, <1>5, <1>8, <1>9 DEF LabOK, Grown

\* A lab all of whose fields but the mode are written over.
LEMMA Overwritten ==
  ASSUME NEW l \in Lab, NEW c \in Lab, c.mode = l.mode
  PROVE  [c EXCEPT !.now = l.now, !.policyGeneration = l.policyGeneration,
                   !.role = l.role, !.expires = l.expires, !.retained = l.retained,
                   !.cache = l.cache, !.job = l.job, !.published = l.published,
                   !.claimedBy = l.claimedBy, !.downgradedAt = l.downgradedAt,
                   !.sequence = l.sequence, !.outcomes = l.outcomes,
                   !.disclosure = l.disclosure] = l
<1> PICK d : d = [c EXCEPT
                   !.now = l.now, !.policyGeneration = l.policyGeneration,
                   !.role = l.role, !.expires = l.expires, !.retained = l.retained,
                   !.cache = l.cache, !.job = l.job, !.published = l.published,
                   !.claimedBy = l.claimedBy, !.downgradedAt = l.downgradedAt,
                   !.sequence = l.sequence, !.outcomes = l.outcomes,
                   !.disclosure = l.disclosure]
  OBVIOUS
<1>1. d \in Lab
  BY DEF Lab
<1>2. /\ d.mode = l.mode /\ d.now = l.now /\ d.policyGeneration = l.policyGeneration
      /\ d.role = l.role /\ d.expires = l.expires /\ d.retained = l.retained
      /\ d.cache = l.cache /\ d.job = l.job /\ d.published = l.published
      /\ d.claimedBy = l.claimedBy /\ d.downgradedAt = l.downgradedAt
      /\ d.sequence = l.sequence /\ d.outcomes = l.outcomes
      /\ d.disclosure = l.disclosure
  BY DEF Lab
<1>3. d = l
  <2>1. ASSUME NEW x \in Lab
        PROVE  x = [mode |-> x.mode, now |-> x.now, policyGeneration |-> x.policyGeneration,
                   role |-> x.role, expires |-> x.expires, retained |-> x.retained,
                   cache |-> x.cache, job |-> x.job, published |-> x.published,
                   claimedBy |-> x.claimedBy, downgradedAt |-> x.downgradedAt,
                   sequence |-> x.sequence, outcomes |-> x.outcomes,
                   disclosure |-> x.disclosure]
    BY DEF Lab
  <2> QED BY <1>1, <1>2, <2>1
<1> QED BY <1>3

\* A checkpoint of a lab in order is accepted and says everything about it.
LEMMA CheckpointOK ==
  ASSUME NEW l, LabOK(l)
  PROVE  Restorable(Checkpoint(l)) /\ FromCheckpoint(Checkpoint(l)) = l
<1>1. l \in Lab
  BY DEF LabOK
<1>2. Restorable(l)
  <2>1. l.policyGeneration >= 1
    BY <1>1, Fields
  <2>2. DOMAIN l.expires \in {Sessions, Sessions \ {"a_fresh"}}
    BY <1>1, Fields
  <2>3. l.job # Nothing => l.job.status \in Statuses
    BY <1>1, Fields DEF Job
  <2> QED BY <2>1, <2>2, <2>3 DEF Restorable, LabOK, Sealable
<1>3. FromCheckpoint(l) = l
  <2> PICK c : c = Canonical(l.mode)
    OBVIOUS
  <2>1. c \in Lab /\ c.mode = l.mode
    BY <1>1, CanonicalOK, Fields DEF LabOK, Canonical
  <2>2. FromCheckpoint(l) =
          [c EXCEPT !.now = l.now, !.policyGeneration = l.policyGeneration,
                    !.role = l.role, !.expires = l.expires, !.retained = l.retained,
                    !.cache = l.cache, !.job = l.job, !.published = l.published,
                    !.claimedBy = l.claimedBy, !.downgradedAt = l.downgradedAt,
                    !.sequence = l.sequence, !.outcomes = l.outcomes,
                    !.disclosure = l.disclosure]
    BY DEF FromCheckpoint
  <2> QED BY <1>1, <2>1, <2>2, Overwritten
<1> QED BY <1>2, <1>3 DEF Checkpoint
-------------------------------------------------------------------------------
(* The invariant. *)

\* A handler answers with the lab it found, with a lab in order that has one
\* piece of evidence more, or with a clean lab of the same mode.
Replaced(old, new) == \/ new = old
                      \/ Grown(new, old)
                      \/ new = Canonical(old.mode)

LEMMA HandleReplaces ==
  ASSUME LabOK(lab), NEW w \in Workers, Handle(w)
  PROVE  /\ Replaced(lab, lab')
         /\ request' = [request EXCEPT ![w] = Nothing]
<1>0. ProcessDueJobs(lab) = lab
  BY NothingDue
<1>1. CASE Refuse(w)
  BY <1>1 DEF Refuse, Answer, Replaced
<1>2. CASE RetainOldSession(w)
  BY <1>2, RetainedOK DEF RetainOldSession, Answer, Replaced
<1>3. CASE PrimeAuthorizationCache(w)
  BY <1>3, PrimedOK DEF PrimeAuthorizationCache, Answer, Replaced
<1>4. CASE DowngradeRole(w)
  BY <1>4, DowngradedOK DEF DowngradeRole, Answer, Replaced
<1>5. CASE DelayQueueJob(w)
  <2>1. CASE lab.job.status = "pending" /\ ~lab.job.delayed /\ lab.job # Nothing
             /\ Answer(w, Record(DeferredLab(lab), "delayed"))
    BY <2>1, DelayedOK DEF Answer, Replaced
  <2>2. CASE Answer(w, lab)
    BY <2>2 DEF Answer, Replaced
  <2> QED BY <1>0, <1>5, <2>1, <2>2 DEF DelayQueueJob
<1>6. CASE PublishReference(w)
  BY <1>6, PublishedOK DEF PublishReference, Answer, Replaced
<1>7. CASE ClaimReference(w)
  BY <1>7, ClaimedOK DEF ClaimReference, Answer, Replaced
<1>8. ASSUME NEW seconds \in Advances, AdvanceClock(w, seconds)
      PROVE  Replaced(lab, lab') /\ request' = [request EXCEPT ![w] = Nothing]
  <2>1. seconds \in Nat \ {0}
    BY AdvancesAssumption
  <2> QED BY <1>8, <2>1, AdvancedOK DEF AdvanceClock, Answer, Replaced
<1>9. ASSUME NEW tenant \in {"A", "B"}, ReadDocument(w, tenant)
      PROVE  Replaced(lab, lab') /\ request' = [request EXCEPT ![w] = Nothing]
  <2>1. CASE Answer(w, Record(lab, "same_tenant_allowed"))
    BY <2>1, Recorded DEF Answer, Replaced, Outcomes
  <2>2. CASE Answer(w, Record(lab, "blocked"))
    BY <2>2, Recorded DEF Answer, Replaced, Outcomes
  <2>3. CASE /\ lab.mode = "vulnerable" /\ ChainComplete(lab)
             /\ Answer(w, [Record(lab, "disclosed") EXCEPT !.disclosure = lab.sequence + 1])
    BY <2>3, DisclosedOK DEF Answer, Replaced
  <2> QED BY <1>0, <1>9, <2>1, <2>2, <2>3 DEF ReadDocument
<1>10. CASE Decoy(w)
  BY <1>10, Recorded DEF Decoy, Answer, Replaced, Outcomes
<1>11. CASE Observe(w)
  BY <1>0, <1>11 DEF Observe, Answer, Replaced
<1>12. CASE Reset(w)
  BY <1>12 DEF Reset, Answer, Replaced
<1> QED BY <1>1, <1>2, <1>3, <1>4, <1>5, <1>6, <1>7, <1>8, <1>9, <1>10, <1>11, <1>12
        DEF Handle

\* The lab of any step, from a lab in order.
LEMMA NextReplaces ==
  ASSUME LabOK(lab), [Next]_vars
  PROVE  Replaced(lab, lab')
<1>1. CASE \E w \in Workers, s \in Sessions : Authenticate(w, s)
  BY <1>1 DEF Authenticate, Replaced
<1>2. CASE \E w \in Workers : Handle(w)
  BY <1>2, HandleReplaces
<1>3. CASE Restore
  BY <1>3, CheckpointOK DEF Restore, Replaced
<1>4. CASE UNCHANGED vars
  BY <1>4 DEF vars, Replaced
<1> QED BY <1>1, <1>2, <1>3, <1>4 DEF Next

LEMMA LabInvInit == Init => LabInv
BY CanonicalOK DEF Init, LabInv

LEMMA LabInvNext == LabInv /\ [Next]_vars => LabInv'
<1> SUFFICES ASSUME LabInv, [Next]_vars PROVE LabInv'
  OBVIOUS
<1>1. LabOK(lab) /\ request \in [Workers -> Sessions \cup {Nothing}]
  BY DEF LabInv
<1>2. Replaced(lab, lab')
  BY <1>1, NextReplaces
<1>3. LabOK(lab')
  <2>1. lab.mode \in Modes
    BY <1>1, Fields DEF LabOK
  <2> QED BY <1>1, <1>2, <2>1, CanonicalOK DEF Replaced, Grown
<1>4. request' \in [Workers -> Sessions \cup {Nothing}]
  <2>1. CASE \E w \in Workers, s \in Sessions : Authenticate(w, s)
    BY <1>1, <2>1 DEF Authenticate
  <2>2. CASE \E w \in Workers : Handle(w)
    BY <1>1, <2>2, HandleReplaces
  <2>3. CASE Restore
    BY <2>3 DEF Restore
  <2>4. CASE UNCHANGED vars
    BY <1>1, <2>4 DEF vars
  <2> QED BY <2>1, <2>2, <2>3, <2>4 DEF Next
<1> QED BY <1>3, <1>4 DEF LabInv

LEMMA LabInvariance == Spec => []LabInv
BY LabInvInit, LabInvNext, PTL DEF Spec
-------------------------------------------------------------------------------
(* Theorems. *)

\* A queued synchronisation is served when it is due, neither late nor early,
\* and a stale decision never outlives it (_process_due_jobs, delay_queue_job).
THEOREM Timeliness == Spec => []SynchronisationTimely
<1>1. ASSUME LabInv PROVE SynchronisationTimely
  <2>1. LabOK(lab) /\ lab \in Lab
    BY <1>1 DEF LabInv, LabOK
  <2>2. TypeOK
    BY <1>1, <2>1 DEF LabInv, LabOK, Marked, TypeOK
  <2>3. NoOverdueJob /\ StaleCacheOnlyWhilePending
    BY <2>1 DEF LabOK, Served, Marked, NoOverdueJob, StaleCacheOnlyWhilePending
  <2>4. DeferralCoversWindow
    <3>1. lab.job # Nothing => lab.downgradedAt \in Nat /\ lab.now \in Nat
      BY <2>1, Fields DEF LabOK, Marked
    <3> QED BY <2>1, <3>1 DEF LabOK, Served, DeferralCoversWindow, WindowOpen
  <2> QED BY <2>2, <2>3, <2>4 DEF SynchronisationTimely
<1> QED BY <1>1, LabInvariance, PTL

\* The oracle reports a violation only in the vulnerable mode, and only in a
\* lab that holds the evidence of every step of the chain (read_document,
\* evaluate_disclosure), however requests, resets and restores interleave.
THEOREM DisclosureSafety == Spec => []DisclosureNeedsWholeChain
<1>1. ASSUME LabInv PROVE DisclosureNeedsWholeChain
  BY <1>1 DEF LabInv, LabOK, Evident, ChainEvidence, DisclosureNeedsWholeChain,
              OracleViolated
<1> QED BY <1>1, LabInvariance, PTL

\* Every reachable lab can be sealed, and its checkpoint restores it exactly
\* (export_checkpoint, from_checkpoint).
THEOREM CheckpointSafety == Spec => []CheckpointExact
<1>1. ASSUME LabInv PROVE CheckpointExact
  BY <1>1, CheckpointOK DEF LabInv, CheckpointExact
<1> QED BY <1>1, LabInvariance, PTL

\* A step adds exactly one piece of evidence to the lab, or replaces it by a
\* clean lab, or leaves it as it was (_record, reset_lab).
THEOREM RecordSafety == Spec => OneRecordPerChange
<1>1. ASSUME LabInv, [Next]_vars
      PROVE  [lab' # lab => \/ lab'.sequence = lab.sequence + 1
                            \/ lab' = Canonical(lab.mode)]_vars
  BY <1>1, NextReplaces DEF LabInv, Replaced, Grown
<1> QED BY <1>1, LabInvariance, PTL DEF Spec, OneRecordPerChange

(***************************************************************************)
(*                     The materialized qualifications                     *)
(***************************************************************************)

\* The checkpoint the first n actions of a request lead to.
Reached(req, n) == LabCheckpoint(req.mode, [i \in 1..n |-> req.actions[i]])

CallFields == {"pc", "req", "project", "image", "bound", "output", "failed",
               "raised", "dirty"}
BoxFields  == {"pc", "req", "at", "lab", "writes", "current", "initial", "steps"}
ProvFields == {"pc", "req", "kept", "steps", "final", "receipt", "raised"}
BridgeFields == {"job", "pc", "next", "step", "acts", "before", "target", "steps"}
QualFields == {"kind", "pc", "at", "receipts", "inputs"}

Shapes ==
  /\ DOMAIN call = CallFields /\ DOMAIN box = BoxFields
  /\ DOMAIN prov = ProvFields /\ DOMAIN bridge = BridgeFields
  /\ DOMAIN qual = QualFields
  /\ call.raised \in BOOLEAN /\ call.dirty \in BOOLEAN /\ call.failed \in BOOLEAN
  /\ prov.raised \in BOOLEAN
  /\ qual.kind \in {"application", "provider"}

Sized(req) == Len(req.actions) \in Nat

\* Between two of its steps the process is where the actions so far lead; the
\* application it is served by is that checkpoint, or one action past it.
BoxOK ==
  /\ box.pc \in {"boot", "load", "act", "commit", "exit0"} => Sized(box.req)
  /\ box.pc \in {"load", "act", "commit", "exit0"} =>
       /\ box.at \in 1..(Len(box.req.actions) + 1)
       /\ box.current = Reached(box.req, box.at - 1)
  /\ box.pc \in {"act", "commit"} => box.at <= Len(box.req.actions)
  /\ box.pc = "boot" => box.at = 1
  /\ box.pc = "act" => box.lab = Reached(box.req, box.at - 1).lab
  /\ box.pc = "commit" => box.lab = Reached(box.req, box.at).lab
  /\ box.pc = "exit0" => box.at = Len(box.req.actions) + 1

\* A call that waits, waits for a process of its own; its output is all of it.
CallOK ==
  /\ ~CallAt("idle") => Sized(call.req)
  /\ CallAt("wait") => box.req = call.req
  /\ call.output # None => call.output.final = Reached(call.req, Len(call.req.actions))

\* Only the project of the call that runs can be there, and a call that found
\* it gone has found everything gone.
Tidy ==
  /\ CallAt("idle") /\ qual.pc # "failed" => projects = {} /\ box = NoBox
  /\ ~CallAt("idle") => projects \subseteq {call.project}
  /\ call.pc \in {"up", "bind", "exec", "inventory"} => box = NoBox
  /\ CallAt("end") /\ ~call.dirty => projects = {} /\ box = NoBox

\* The same of the worlds of a replay on the providers.
ProvTidy ==
  /\ worlds \subseteq {"root", "fork"}
  /\ prov.pc = "idle" /\ qual.pc # "failed" => worlds = {} /\ bridge = P!NoBridge
  /\ prov.pc = "destroy_root" /\ ~prov.raised =>
       "fork" \notin worlds /\ bridge = P!NoBridge
  /\ prov.pc = "end" /\ ~prov.raised => worlds = {} /\ bridge = P!NoBridge

\* A replay that is being cleaned up without an error has its receipt.
Witnessed(r) == P!ProviderClosed(r) /\ Listed(r.steps)
ProvOK ==
  /\ Listed(bridge.steps) /\ Listed(prov.steps)
  /\ prov.pc \in {"destroy_fork", "destroy_root", "end"} /\ ~prov.raised =>
       Witnessed(prov.receipt)

\* The runner that is not used does nothing.
OtherIdle ==
  /\ qual.kind = "application" =>
       worlds = {} /\ prov = P!NoProv /\ bridge = P!NoBridge
  /\ qual.kind = "provider" => CallAt("idle") /\ box = NoBox /\ projects = {}

\* What is retained, and when the qualification may say so.
Retained(r) == IF qual.kind = "application"
               THEN r.final = Reached(r.req, Len(r.req.actions)) ELSE Witnessed(r)
QualOK ==
  /\ qual.pc \in {"idle", "run", "qualified", "rejected", "failed"}
  /\ qual.pc # "run" => CallAt("idle") /\ prov.pc = "idle"
  /\ qual.pc \in {"run", "qualified", "rejected"} => Exact(qual.inputs)
  /\ Listed(qual.receipts)
  /\ \A i \in DOMAIN qual.receipts : Retained(qual.receipts[i])
  /\ qual.pc = "qualified" => IF qual.kind = "application"
                              THEN ApplicationComposite(qual.receipts)
                              ELSE ProviderComposite(qual.receipts)

QInv == Shapes /\ BoxOK /\ CallOK /\ Tidy /\ ProvTidy /\ ProvOK /\ OtherIdle /\ QualOK
-------------------------------------------------------------------------------
(* Lemmas about sequences and about what a request leads to. *)

\* A tuple that grows stays one.
LEMMA ListedAppend ==
  ASSUME NEW s, Listed(s), NEW e
  PROVE  /\ Listed(Append(s, e)) /\ DOMAIN Append(s, e) = 1..(Len(s) + 1)
         /\ Len(Append(s, e)) = Len(s) + 1 /\ Len(s) \in Nat
         /\ \A i \in DOMAIN s : Append(s, e)[i] = s[i]
         /\ Append(s, e)[Len(s) + 1] = e
<1> DEFINE S == {s[i] : i \in DOMAIN s} \cup {e}
           t == Append(s, e)
<1>1. s \in Seq(S) /\ e \in S
  <2>1. s \in Seq({s[i] : i \in DOMAIN s})
    BY DEF Listed
  <2> QED BY <2>1
<1>2. /\ t \in Seq(S) /\ Len(t) = Len(s) + 1 /\ DOMAIN t = 1..(Len(s) + 1)
      /\ Len(s) \in Nat
      /\ \A i \in 1..Len(s) : t[i] = s[i]
      /\ t[Len(s) + 1] = e
  BY <1>1
<1>3. t \in Seq({t[i] : i \in DOMAIN t})
  BY <1>2
<1> QED BY <1>1, <1>2, <1>3 DEF Listed

\* The empty tuple is one.
LEMMA ListedEmpty == Listed(<<>>)
BY DEF Listed

\* A tuple is the function of its elements (m5_plan).
LEMMA ListedIsFunction ==
  ASSUME NEW s, Listed(s)
  PROVE  Len(s) \in Nat /\ DOMAIN s = 1..Len(s) /\ s = [i \in 1..Len(s) |-> s[i]]
<1>1. s \in Seq({s[i] : i \in DOMAIN s})
  BY DEF Listed
<1> QED BY <1>1

\* Before the first action the application is fresh (Boot).
LEMMA ReachedFresh == ASSUME NEW req PROVE LabCheckpoint(req.mode, <<>>) = Reached(req, 0)
<1>1. [i \in 1..0 |-> req.actions[i]] = <<>>
  OBVIOUS
<1> QED BY <1>1 DEF Reached

\* One action more (Act).
LEMMA ReachedNext ==
  ASSUME NEW req, NEW n \in Nat
  PROVE  Append(Reached(req, n).lab, req.actions[n + 1]) = Reached(req, n + 1).lab
<1> DEFINE s == [i \in 1..n |-> req.actions[i]]
           t == [i \in 1..(n + 1) |-> req.actions[i]]
           S == {req.actions[i] : i \in 1..(n + 1)}
<1>1. s \in Seq(S) /\ Len(s) = n /\ req.actions[n + 1] \in S
  OBVIOUS
<1>2. Append(s, req.actions[n + 1]) = t
  <2> DEFINE u == Append(s, req.actions[n + 1])
  <2>1. u \in Seq(S) /\ Len(u) = n + 1 /\ u[n + 1] = req.actions[n + 1]
        /\ \A i \in 1..n : u[i] = s[i]
    BY <1>1
  <2>2. DOMAIN u = 1..(n + 1) /\ \A i \in 1..(n + 1) : u[i] = req.actions[i]
    BY <2>1
  <2> QED BY <2>1, <2>2
<1> QED BY <1>2 DEF Reached, LabCheckpoint
-------------------------------------------------------------------------------
(* The steps. *)

\* A step of the process in the container.
LEMMA ContainerKeeps ==
  ASSUME QInv, Container, UNCHANGED <<qual, providers>>
  PROVE  QInv'
<1> USE DEF QInv
<1> SUFFICES ASSUME UNCHANGED <<call, projects>>, box.pc # "off", DOMAIN box' = BoxFields,
                    box'.req = box.req, box'.pc # "off", BoxOK'
             PROVE  QInv'
  <2>1. UNCHANGED <<call, projects>> /\ box.pc # "off"
    BY DEF Container, Boot, Load, Act, Commit, Exit0
  <2>2. CASE box' = [box EXCEPT !.pc = "exit70"]
    BY <2>1, <2>2 DEF Shapes, BoxFields, BoxOK
  <2>3. CASE Boot /\ ~(box' = [box EXCEPT !.pc = "exit70"])
    <3>1. box' = [box EXCEPT !.pc = "load", !.current = LabCheckpoint(box.req.mode, <<>>),
                             !.initial = LabCheckpoint(box.req.mode, <<>>)]
          /\ box.pc = "boot"
      BY <2>3 DEF Boot, Dies, Exit
    <3>2. box'.pc = "load" /\ box'.req = box.req /\ box'.at = box.at
          /\ box'.current = Reached(box.req, 0) /\ DOMAIN box' = BoxFields
      BY <3>1, ReachedFresh DEF Shapes, BoxFields
    <3> QED BY <2>1, <3>1, <3>2 DEF BoxOK, Sized
  <2>4. CASE Load /\ ~(box' = [box EXCEPT !.pc = "exit70"])
    <3>1. box' = [box EXCEPT !.pc = "act", !.lab = box.current.lab]
          /\ box.pc = "load" /\ box.at <= Len(box.req.actions)
      BY <2>4 DEF Load, Dies, Exit
    <3>2. box'.pc = "act" /\ box'.req = box.req /\ box'.at = box.at
          /\ box'.current = box.current /\ box'.lab = box.current.lab
          /\ DOMAIN box' = BoxFields
      BY <3>1 DEF Shapes, BoxFields
    <3> QED BY <2>1, <3>1, <3>2 DEF BoxOK, Sized
  <2>5. CASE Act /\ ~(box' = [box EXCEPT !.pc = "exit70"])
    <3>1. box' = [box EXCEPT !.pc = "commit", !.lab = Append(@, box.req.actions[box.at])]
          /\ box.pc = "act"
      BY <2>5 DEF Act, Dies, Exit
    <3>2. box'.pc = "commit" /\ box'.req = box.req /\ box'.at = box.at
          /\ box'.current = box.current /\ DOMAIN box' = BoxFields
          /\ box'.lab = Append(box.lab, box.req.actions[box.at])
      BY <3>1 DEF Shapes, BoxFields
    <3>3. /\ box.at - 1 \in Nat /\ box.at = (box.at - 1) + 1
          /\ box.lab = Reached(box.req, box.at - 1).lab
      BY <3>1 DEF BoxOK, Sized
    <3>4. box'.lab = Reached(box.req, box.at).lab
      BY <3>2, <3>3, ReachedNext, Zenon
    <3> QED BY <2>1, <3>1, <3>2, <3>4 DEF BoxOK, Sized
  <2>6. CASE Commit /\ ~(box' = [box EXCEPT !.pc = "exit70"])
    <3> DEFINE c == LabCheckpoint(box.current.mode, box.lab)
    <3>1. box.pc = "commit"
      BY <2>6 DEF Commit
    <3>2. /\ box'.pc = "load" /\ box'.req = box.req /\ box'.at = box.at + 1
          /\ box'.current = c /\ DOMAIN box' = BoxFields
      BY <2>6 DEF Commit, Dies, Exit, Shapes, BoxFields
    <3>3. c = Reached(box.req, box.at)
      <4>1. /\ box.current = Reached(box.req, box.at - 1)
            /\ box.lab = Reached(box.req, box.at).lab
        BY <3>1 DEF BoxOK
      <4>2. \A n : Reached(box.req, n).mode = box.req.mode
        BY DEF Reached, LabCheckpoint
      <4>3. Reached(box.req, box.at) =
              LabCheckpoint(Reached(box.req, box.at).mode, Reached(box.req, box.at).lab)
        BY DEF Reached, LabCheckpoint
      <4> QED BY <4>1, <4>2, <4>3, Zenon
    <3>4. box.at \in 1..Len(box.req.actions) /\ Len(box.req.actions) \in Nat
      BY <3>1 DEF BoxOK, Sized
    <3>5. box'.at \in 1..(Len(box'.req.actions) + 1) /\ box'.at - 1 = box.at
      BY <3>2, <3>4
    <3> QED BY <2>1, <3>2, <3>3, <3>4, <3>5 DEF BoxOK, Sized
  <2>7. CASE Exit0
    <3>1. box' = [box EXCEPT !.pc = "exit0"] /\ box.pc = "load"
          /\ box.at > Len(box.req.actions)
      BY <2>7 DEF Exit0, Exit
    <3>2. box'.pc = "exit0" /\ box'.req = box.req /\ box'.at = box.at
          /\ box'.current = box.current /\ DOMAIN box' = BoxFields
      BY <3>1 DEF Shapes, BoxFields
    <3> QED BY <2>1, <3>1, <3>2 DEF BoxOK, Sized
  <2> QED BY <2>1, <2>2, <2>3, <2>4, <2>5, <2>6, <2>7 DEF Container
<1>1. Shapes'
  BY DEF Shapes, providers
<1>2. box # NoBox /\ box' # NoBox
  BY DEF NoBox
<1>3. CallOK' /\ Tidy' /\ OtherIdle'
  BY <1>2 DEF CallOK, Tidy, OtherIdle, providers, CallAt
<1>4. ProvTidy' /\ ProvOK'
  BY DEF ProvTidy, ProvOK, providers
<1>5. QualOK'
  BY DEF QualOK, Retained, providers, CallAt
<1> QED BY <1>1, <1>3, <1>4, <1>5

\* What a command that fails leaves of the call (MaterializedLabDockerRuntime.run).
LEMMA BrokenCall ==
  ASSUME Shapes, Broken
  PROVE  /\ DOMAIN call' = CallFields /\ call'.pc = "down"
         /\ call'.req = call.req /\ call'.project = call.project
         /\ call'.output = call.output /\ call'.dirty = call.dirty
         /\ call'.raised \in BOOLEAN /\ call'.failed \in BOOLEAN
<1> PICK r \in BOOLEAN : call' = [call EXCEPT !.pc = "down", !.raised = r, !.failed = ~r]
  BY DEF Broken
<1> QED BY DEF Shapes, CallFields

\* A process that is off has nothing to be held to.
LEMMA NoBoxOK == /\ DOMAIN NoBox = BoxFields /\ NoBox.pc = "off"
BY DEF NoBox, BoxFields

\* A step of the host: a docker command, its answer or its failure.
LEMMA HostKeeps ==
  ASSUME QInv, Host, UNCHANGED <<qual, providers>>
  PROVE  QInv'
<1> USE DEF QInv
<1>1. ~CallAt("idle") /\ qual.kind = "application" /\ qual.pc = "run"
  BY DEF Host, Up, ImageBinding, Exec, Executed, Down, Inventory, CallAt, OtherIdle, QualOK, Shapes
<1> SUFFICES ASSUME DOMAIN call' = CallFields, DOMAIN box' = BoxFields,
                    call'.raised \in BOOLEAN, call'.dirty \in BOOLEAN,
                    call'.failed \in BOOLEAN, ~CallAt("idle")', BoxOK', CallOK', Tidy'
             PROVE  QInv'
  <2>0. /\ DOMAIN call = CallFields /\ DOMAIN box = BoxFields /\ call.raised \in BOOLEAN
        /\ call.dirty \in BOOLEAN /\ call.failed \in BOOLEAN /\ Sized(call.req)
        /\ projects \subseteq {call.project} /\ qual' = qual
    BY <1>1 DEF Shapes, CallOK, Tidy
  <2>1. CASE Up
    <3>1. projects' \subseteq {call.project} /\ box' = box
      BY <2>0, <2>1 DEF Up
    <3>2. CASE Broken
      BY <1>1, <2>0, <3>1, <3>2, BrokenCall DEF CallAt, BoxOK, CallOK, Tidy
    <3>3. CASE call' = [call EXCEPT !.pc = "bind", !.image = built]
      <4>1. box = NoBox
        BY <2>1 DEF Up, Tidy, CallAt
      <4>2. /\ call'.pc = "bind" /\ DOMAIN call' = CallFields /\ call'.req = call.req
            /\ call'.project = call.project /\ call'.output = call.output
            /\ call'.raised = call.raised /\ call'.dirty = call.dirty
            /\ call'.failed = call.failed
        BY <3>3, <2>0 DEF CallFields
      <4> QED BY <1>1, <2>0, <3>1, <4>1, <4>2 DEF CallAt, BoxOK, CallOK, Tidy
    <3> QED BY <2>1, <3>2, <3>3 DEF Up
  <2>2. CASE ImageBinding
    <3>1. projects' = projects /\ box' = box
      BY <2>2 DEF ImageBinding
    <3>2. CASE Broken
      BY <1>1, <2>0, <3>1, <3>2, BrokenCall DEF CallAt, BoxOK, CallOK, Tidy
    <3>3. CASE ~Broken
      <4>1. box = NoBox
        BY <2>2 DEF ImageBinding, Tidy, CallAt
      <4>2. /\ call'.pc \in {"exec", "down"} /\ DOMAIN call' = CallFields /\ call'.req = call.req
            /\ call'.project = call.project /\ call'.output = call.output
            /\ call'.raised \in BOOLEAN /\ call'.dirty = call.dirty
            /\ call'.failed = call.failed
        BY <2>0, <2>2, <3>3 DEF ImageBinding, CallFields
      <4> QED BY <1>1, <2>0, <3>1, <4>1, <4>2 DEF CallAt, BoxOK, CallOK, Tidy
    <3> QED BY <3>2, <3>3
  <2>3. CASE Exec
    <3>1. /\ call'.pc = "wait" /\ DOMAIN call' = CallFields /\ call'.req = call.req
          /\ call'.project = call.project /\ call'.output = call.output
          /\ call'.raised = call.raised /\ call'.dirty = call.dirty
          /\ call'.failed = call.failed /\ projects' = projects
      BY <2>0, <2>3 DEF Exec, CallFields
    <3>2. /\ box'.pc = "boot" /\ DOMAIN box' = BoxFields /\ box'.req = call.req
          /\ box'.at = 1
      BY <2>3 DEF Exec, NoBox, BoxFields
    <3> QED BY <1>1, <2>0, <3>1, <3>2 DEF CallAt, BoxOK, CallOK, Tidy
  <2>4. CASE Executed
    <3>1. projects' = projects /\ box' = box
      BY <2>4 DEF Executed
    <3>2. CASE Broken
      BY <1>1, <2>0, <3>1, <3>2, BrokenCall DEF CallAt, BoxOK, CallOK, Tidy
    <3>3. CASE call' = [call EXCEPT !.pc = "down", !.raised = TRUE]
      <4>1. /\ call'.pc = "down" /\ DOMAIN call' = CallFields /\ call'.req = call.req
            /\ call'.project = call.project /\ call'.output = call.output
            /\ call'.raised \in BOOLEAN /\ call'.dirty = call.dirty
            /\ call'.failed = call.failed
        BY <2>0, <3>3 DEF CallFields
      <4> QED BY <1>1, <2>0, <3>1, <4>1 DEF CallAt, BoxOK, CallOK, Tidy
    <3>4. CASE ~Broken /\ ~(call' = [call EXCEPT !.pc = "down", !.raised = TRUE])
      <4> DEFINE out == [initial |-> box.initial, steps |-> box.steps, final |-> box.current]
      <4>1. call' = [call EXCEPT !.pc = "down", !.output = out] /\ box.pc = "exit0"
        BY <2>4, <3>4 DEF Executed
      <4>2. box.req = call.req /\ box.current = Reached(box.req, box.at - 1)
            /\ box.at - 1 = Len(box.req.actions)
        BY <2>4, <4>1 DEF Executed, CallOK, BoxOK, Sized
      <4>3. out.final = Reached(call.req, Len(call.req.actions))
        BY <4>2, Zenon
      <4> HIDE DEF out
      <4>4. /\ call'.pc = "down" /\ DOMAIN call' = CallFields /\ call'.req = call.req
            /\ call'.project = call.project /\ call'.output = out
            /\ call'.raised = call.raised /\ call'.dirty = call.dirty
            /\ call'.failed = call.failed
        BY <2>0, <4>1 DEF CallFields
      <4> QED BY <1>1, <2>0, <3>1, <4>3, <4>4 DEF CallAt, BoxOK, CallOK, Tidy
    <3> QED BY <3>2, <3>3, <3>4
  <2>5. CASE Down
    <3>1. \/ UNCHANGED <<projects, box>>
          \/ projects' = projects \ {call.project} /\ box' = NoBox
      BY <2>5 DEF Down
    <3>2. \/ call'.pc = "inventory" /\ box' = NoBox
          \/ call'.pc = "end" /\ call'.dirty = TRUE
      BY <2>0, <2>5 DEF Down, CallFields
    <3>3. /\ DOMAIN call' = CallFields /\ call'.req = call.req
          /\ call'.project = call.project /\ call'.output = call.output
          /\ call'.raised = call.raised /\ call'.dirty \in BOOLEAN
          /\ call'.failed = call.failed
      BY <2>0, <2>5 DEF Down, CallFields
    <3>4. BoxOK' /\ DOMAIN box' = BoxFields
      BY <2>0, <3>1, NoBoxOK DEF BoxOK
    <3> QED BY <1>1, <2>0, <3>1, <3>2, <3>3, <3>4 DEF CallAt, CallOK, Tidy
  <2>6. CASE Inventory
    <3>1. projects' = projects /\ box' = box /\ box = NoBox
      BY <2>6 DEF Inventory, Tidy, CallAt
    <3> DEFINE found == call.project \in projects
    <3>a. found \in BOOLEAN /\ (found = FALSE => projects = {})
      BY <2>0
    <3> HIDE DEF found
    <3>2. /\ call'.pc = "end" /\ (call'.dirty = found \/ call'.dirty = TRUE)
          /\ DOMAIN call' = CallFields /\ call'.req = call.req
          /\ call'.project = call.project /\ call'.output = call.output
          /\ call'.raised = call.raised /\ call'.failed = call.failed
      <4>1. \/ call' = [call EXCEPT !.pc = "end", !.dirty = found]
            \/ call' = [call EXCEPT !.pc = "end", !.dirty = TRUE]
        BY <2>6 DEF Inventory, found
      <4> QED BY <2>0, <4>1 DEF CallFields
    <3>3. call'.dirty \in BOOLEAN /\ (~call'.dirty => projects = {})
      BY <3>a, <3>2
    <3> QED BY <1>1, <2>0, <3>1, <3>2, <3>3 DEF CallAt, BoxOK, CallOK, Tidy
  <2> QED BY <2>1, <2>2, <2>3, <2>4, <2>5, <2>6 DEF Host
<1>2. Shapes'
  BY DEF Shapes, providers
<1>3. OtherIdle'
  BY <1>1 DEF OtherIdle, providers
<1>4. ProvTidy' /\ ProvOK'
  BY DEF ProvTidy, ProvOK, providers
<1>5. QualOK'
  BY <1>1 DEF QualOK, Retained, providers
<1> QED BY <1>2, <1>3, <1>4, <1>5

\* The bridge writes, reads back or dies in its container; no one waits for it.
LEMMA BridgeKeeps ==
  ASSUME QInv, P!Bridge, UNCHANGED <<qual, application>>
  PROVE  QInv'
<1> USE DEF QInv
<1>1. /\ prov' = prov /\ worlds' = worlds /\ bridge # P!NoBridge
      /\ call' = call /\ box' = box /\ projects' = projects
  BY DEF P!Bridge, P!BridgeWrite, P!BridgeRead, P!NoBridge, application
<1>2. DOMAIN bridge' = BridgeFields /\ Listed(bridge'.steps)
  <2>1. DOMAIN bridge = BridgeFields /\ Listed(bridge.steps)
    BY DEF Shapes, ProvOK
  <2>2. CASE bridge' = [bridge EXCEPT !.pc = "failed"]
    BY <2>1, <2>2 DEF BridgeFields
  <2>3. CASE P!BridgeWrite
    BY <2>1, <2>2, <2>3 DEF P!BridgeWrite, P!BridgeDies, BridgeFields
  <2>4. CASE P!BridgeRead /\ ~(bridge' = [bridge EXCEPT !.pc = "failed"])
    <3> DEFINE step == [action |-> bridge.acts[bridge.step],
                        before |-> bridge.before, after |-> value]
               new  == IF bridge.job = "replay" THEN Append(bridge.steps, step) ELSE <<>>
    <3>1. Listed(new)
      BY <2>1, ListedAppend, ListedEmpty
    <3>2. \/ bridge' = [bridge EXCEPT !.pc = "ok", !.steps = new]
          \/ bridge' = [bridge EXCEPT !.steps = new, !.step = @ + 1,
               !.next = 1, !.before = value,
               !.target = P!All(P!MarkerOf(bridge.step + 1, bridge.acts[bridge.step + 1]))]
      BY <2>4 DEF P!BridgeRead, P!BridgeDies
    <3> HIDE DEF new
    <3>3. DOMAIN bridge' = BridgeFields /\ bridge'.steps = new
      BY <2>1, <3>2 DEF BridgeFields
    <3> QED BY <3>1, <3>3
  <2> QED BY <2>2, <2>3, <2>4 DEF P!Bridge
<1>3. qual.kind # "application"
  BY <1>1 DEF OtherIdle
<1>4. Shapes' /\ BoxOK' /\ CallOK' /\ Tidy' /\ QualOK'
  BY <1>1, <1>2 DEF Shapes, BoxOK, CallOK, Tidy, QualOK, Retained, CallAt
<1>5. ProvTidy' /\ ProvOK' /\ OtherIdle'
  BY <1>1, <1>2, <1>3 DEF ProvTidy, ProvOK, OtherIdle, CallAt
<1> QED BY <1>4, <1>5

\* Whatever is raised leads to the clean-up (run_m5_materialized_provider).
LEMMA RaisedCall ==
  ASSUME Shapes, P!Raise
  PROVE  /\ DOMAIN prov' = ProvFields /\ prov'.pc = "destroy_fork"
         /\ prov'.raised = TRUE /\ prov'.steps = prov.steps
BY DEF P!Raise, Shapes, ProvFields

\* A bridge that is only just started has no steps.
LEMMA StartedBridge ==
  ASSUME NEW job, NEW target, P!StartBridge(job, target)
  PROVE  DOMAIN bridge' = BridgeFields /\ Listed(bridge'.steps)
<1>1. DOMAIN bridge' = BridgeFields /\ bridge'.steps = <<>>
  BY DEF P!StartBridge, P!NoBridge, BridgeFields
<1> QED BY <1>1, ListedEmpty

\* A bridge that is off has no steps.
LEMMA NoBridgeOK ==
  DOMAIN P!NoBridge = BridgeFields /\ Listed(P!NoBridge.steps)
<1>1. DOMAIN P!NoBridge = BridgeFields /\ P!NoBridge.steps = <<>>
  BY DEF P!NoBridge, BridgeFields
<1> QED BY <1>1, ListedEmpty

\* A step of the host of a replay on the providers.
LEMMA ProvHostKeeps ==
  ASSUME QInv, P!ProvHost, UNCHANGED <<qual, application>>
  PROVE  QInv'
<1> USE DEF QInv
<1>1. /\ prov.pc # "idle" /\ qual.kind = "provider" /\ qual.pc = "run"
      /\ call' = call /\ box' = box /\ projects' = projects
  <2>1. prov.pc # "idle"
    BY DEF P!ProvHost, P!Fork, P!Command, P!Answered, P!Baseline, P!FinalState,
           P!Restored, P!DestroyFork, P!DestroyRoot, P!PcAt, P!NextPc
  <2>2. P!NoProv.pc = "idle"
    BY DEF P!NoProv
  <2> QED BY <2>1, <2>2 DEF OtherIdle, QualOK, Shapes, application
<1> SUFFICES ASSUME DOMAIN prov' = ProvFields, DOMAIN bridge' = BridgeFields,
                    prov'.raised \in BOOLEAN, prov'.pc # "idle", ProvTidy', ProvOK'
             PROVE  QInv'
  <2>0. /\ DOMAIN prov = ProvFields /\ DOMAIN bridge = BridgeFields
        /\ prov.raised \in BOOLEAN /\ Listed(prov.steps) /\ Listed(bridge.steps)
        /\ worlds \subseteq {"root", "fork"} /\ qual' = qual
    BY DEF Shapes, ProvOK, ProvTidy
  <2>1. ASSUME P!Raise, worlds' = worlds, bridge' = bridge
        PROVE  QInv'
    BY <1>1, <2>0, <2>1, RaisedCall DEF ProvTidy, ProvOK
  <2>2. CASE P!Fork
    <3>1. CASE ~P!Raise
      <4>1. /\ DOMAIN prov' = ProvFields /\ prov'.pc = "winner"
            /\ prov'.raised = prov.raised /\ prov'.steps = prov.steps
            /\ worlds' = worlds \cup {"fork"} /\ bridge' = bridge
        BY <2>0, <2>2, <3>1 DEF P!Fork, P!Go, ProvFields
      <4> QED BY <1>1, <2>0, <4>1 DEF ProvTidy, ProvOK
    <3>2. P!Raise => worlds' = worlds /\ bridge' = bridge
      BY <2>0, <2>2 DEF P!Fork, P!Raise, P!Go, ProvFields
    <3> QED BY <2>1, <3>1, <3>2
  <2>3. CASE P!Command
    <3>1. /\ DOMAIN prov' = ProvFields
          /\ prov'.pc \in {"await_winner", "await_replay", "await_import"}
          /\ prov'.raised = prov.raised /\ prov'.steps = prov.steps /\ worlds' = worlds
      BY <2>0, <2>3 DEF P!Command, P!Go, ProvFields
    <3>2. DOMAIN bridge' = BridgeFields /\ Listed(bridge'.steps)
      BY <2>3, StartedBridge DEF P!Command
    <3> QED BY <1>1, <2>0, <3>1, <3>2 DEF ProvTidy, ProvOK
  <2>4. CASE P!Answered
    <3>1. CASE ~P!Raise
      <4> DEFINE steps == IF bridge.job = "replay" THEN bridge.steps ELSE prov.steps
      <4>1. Listed(steps)
        BY <2>0
      <4>2. /\ prov' = [prov EXCEPT !.pc = P!NextPc[prov.pc], !.steps = steps]
            /\ worlds' = worlds /\ bridge' = bridge /\ prov.pc \in DOMAIN P!NextPc
        BY <2>4, <3>1 DEF P!Answered
      <4>3. P!NextPc[prov.pc] \in {"baseline", "final", "restored"}
        BY <4>2 DEF P!NextPc
      <4> HIDE DEF steps
      <4>4. /\ DOMAIN prov' = ProvFields /\ prov'.pc = P!NextPc[prov.pc]
            /\ prov'.raised = prov.raised /\ prov'.steps = steps
        BY <2>0, <4>2 DEF ProvFields
      <4> QED BY <1>1, <2>0, <4>1, <4>2, <4>3, <4>4 DEF ProvTidy, ProvOK
    <3> QED BY <2>1, <2>4, <3>1 DEF P!Answered
  <2>5. CASE P!Baseline \/ P!FinalState
    <3>1. worlds' = worlds /\ bridge' = bridge
      BY <2>5 DEF P!Baseline, P!FinalState
    <3>2. CASE ~P!Raise
      <4>1. /\ DOMAIN prov' = ProvFields /\ prov'.pc \in {"replay", "put_back"}
            /\ prov'.raised = prov.raised /\ prov'.steps = prov.steps
        BY <2>0, <2>5, <3>2 DEF P!Baseline, P!FinalState, ProvFields
      <4> QED BY <1>1, <2>0, <3>1, <4>1 DEF ProvTidy, ProvOK
    <3> QED BY <2>1, <3>1, <3>2
  <2>6. CASE P!Restored
    <3>1. worlds' = worlds /\ bridge' = bridge
      BY <2>6 DEF P!Restored
    <3>2. CASE ~P!Raise
      <4> DEFINE r == [req |-> prov.req, steps |-> prov.steps, final |-> prov.final,
                       restored |-> value]
      <4>1. prov' = [prov EXCEPT !.pc = "destroy_fork", !.receipt = r]
            /\ P!ProviderClosed(r)
        BY <2>6, <3>2 DEF P!Restored
      <4>2. Witnessed(r)
        <5>1. r.steps = prov.steps
          OBVIOUS
        <5> HIDE DEF r
        <5> QED BY <2>0, <4>1, <5>1 DEF Witnessed
      <4> HIDE DEF r
      <4>3. /\ DOMAIN prov' = ProvFields /\ prov'.pc = "destroy_fork"
            /\ prov'.raised = prov.raised /\ prov'.steps = prov.steps
            /\ prov'.receipt = r
        BY <2>0, <4>1 DEF ProvFields
      <4> QED BY <1>1, <2>0, <3>1, <4>2, <4>3 DEF ProvTidy, ProvOK
    <3> QED BY <2>1, <3>1, <3>2
  <2>7. CASE P!DestroyFork
    <3>1. /\ DOMAIN prov' = ProvFields /\ prov'.pc = "destroy_root"
          /\ prov'.raised \in {prov.raised, TRUE} /\ prov'.steps = prov.steps
          /\ prov'.receipt = prov.receipt /\ prov.pc = "destroy_fork"
      BY <2>0, <2>7 DEF P!DestroyFork, P!Go, P!PcAt, ProvFields
    <3>2. \/ worlds' = worlds \ {"fork"} /\ bridge' = P!NoBridge
          \/ worlds' = worlds /\ bridge' = bridge /\ prov'.raised = TRUE
      BY <2>0, <2>7 DEF P!DestroyFork, ProvFields
    <3>3. DOMAIN bridge' = BridgeFields /\ Listed(bridge'.steps)
      BY <2>0, <3>2, NoBridgeOK
    <3>4. ~prov'.raised => Witnessed(prov'.receipt)
      BY <2>0, <3>1 DEF ProvOK
    <3> QED BY <1>1, <2>0, <3>1, <3>2, <3>3, <3>4 DEF ProvTidy, ProvOK
  <2>8. CASE P!DestroyRoot
    <3>1. /\ DOMAIN prov' = ProvFields /\ prov'.pc = "end"
          /\ prov'.raised \in {prov.raised, TRUE} /\ prov'.steps = prov.steps
          /\ prov'.receipt = prov.receipt /\ prov.pc = "destroy_root"
          /\ bridge' = bridge
      BY <2>0, <2>8 DEF P!DestroyRoot, P!Go, P!PcAt, ProvFields
    <3>2. \/ worlds' = worlds \ {"root"}
          \/ worlds' = worlds /\ prov'.raised = TRUE
      BY <2>0, <2>8 DEF P!DestroyRoot, ProvFields
    <3>3. ~prov'.raised => worlds' = {} /\ bridge' = P!NoBridge
      BY <2>0, <3>1, <3>2 DEF ProvTidy
    <3>4. ~prov'.raised => Witnessed(prov'.receipt)
      BY <2>0, <3>1 DEF ProvOK
    <3> QED BY <1>1, <2>0, <3>1, <3>2, <3>3, <3>4 DEF ProvTidy, ProvOK
  <2> QED BY <2>2, <2>3, <2>4, <2>5, <2>6, <2>7, <2>8 DEF P!ProvHost
<1>2. Shapes' /\ BoxOK' /\ CallOK' /\ Tidy'
  BY <1>1 DEF Shapes, BoxOK, CallOK, Tidy, CallAt
<1>3. OtherIdle' /\ QualOK'
  BY <1>1 DEF OtherIdle, QualOK, Retained, CallAt
<1> QED BY <1>2, <1>3

\* The qualification has not begun, or runs a scenario that is handed over
\* complete (_project_run, ActualMaterializedRunWitness).
LEMMA StartKeeps == ASSUME QInv, Start PROVE QInv'
<1> USE DEF QInv
<1>1. /\ DOMAIN qual' = QualFields /\ qual'.kind = qual.kind
      /\ qual'.pc \in {"run", "failed"} /\ qual'.inputs = qual.inputs
      /\ qual'.pc = "run" => Exact(qual.inputs)
      /\ qual'.receipts = qual.receipts /\ qual.pc = "idle"
  BY DEF Start, Shapes, QualFields
<1>2. UNCHANGED <<call, box, projects, prov, worlds, bridge>>
  BY DEF Start, application, providers
<1>3. Shapes' /\ BoxOK' /\ CallOK' /\ Tidy' /\ ProvTidy' /\ ProvOK' /\ OtherIdle'
  BY <1>1, <1>2 DEF Shapes, BoxOK, CallOK, Tidy, ProvTidy, ProvOK, OtherIdle, CallAt
<1>4. QualOK'
  BY <1>1, <1>2 DEF QualOK, Retained, CallAt
<1> QED BY <1>3, <1>4

\* A run of the application is started.
LEMMA RunApplicationKeeps == ASSUME QInv, RunApplication PROVE QInv'
<1> USE DEF QInv
<1> DEFINE req == MaterializedRequest(qual.at)
<1>1. /\ qual.kind = "application" /\ qual.pc = "run" /\ CallAt("idle") /\ ClosedBytes(req)
      /\ call' = [NoCall EXCEPT !.pc = "up", !.req = req, !.project = call.project + 1]
      /\ UNCHANGED <<qual, box, projects, prov, worlds, bridge>>
  BY DEF RunApplication, Run, providers
<1>2. Sized(req)
  BY <1>1 DEF ClosedBytes, Sized
<1> HIDE DEF req
<1>3. /\ DOMAIN call' = CallFields /\ call'.pc = "up" /\ call'.req = req
      /\ call'.output = None /\ call'.raised = FALSE /\ call'.dirty = FALSE
      /\ call'.failed = FALSE
  BY <1>1 DEF NoCall, CallFields
<1>4. projects = {} /\ box = NoBox
  BY <1>1 DEF Tidy
<1>5. Shapes' /\ BoxOK' /\ CallOK' /\ Tidy' /\ ProvTidy' /\ ProvOK'
  BY <1>1, <1>2, <1>3, <1>4 DEF Shapes, BoxOK, CallOK, Tidy, ProvTidy, ProvOK, CallAt
<1>6. OtherIdle' /\ QualOK'
  BY <1>1, <1>3 DEF OtherIdle, QualOK, Retained, CallAt
<1> QED BY <1>5, <1>6

\* What the control loop does with a receipt: it is kept with those before it,
\* and after the last the composite has to fit.
LEMMA RetainKeeps ==
  ASSUME QInv, qual.pc = "run", NEW r, Retained(r), Retain(r)
  PROVE  /\ DOMAIN qual' = QualFields /\ qual'.kind = qual.kind
         /\ qual'.inputs = qual.inputs
         /\ qual'.pc \in {"run", "qualified", "rejected"}
         /\ Listed(qual'.receipts)
         /\ \A i \in DOMAIN qual'.receipts : Retained(qual'.receipts[i])
         /\ qual'.pc = "qualified" => IF qual.kind = "application"
                                      THEN ApplicationComposite(qual'.receipts)
                                      ELSE ProviderComposite(qual'.receipts)
<1> DEFINE rs == Append(qual.receipts, r)
           fits == IF qual.kind = "application"
                   THEN ApplicationComposite(rs) ELSE ProviderComposite(rs)
<1>1. Listed(qual.receipts) /\ \A i \in DOMAIN qual.receipts : Retained(qual.receipts[i])
  BY DEF QInv, QualOK
<1>2. Listed(rs) /\ \A i \in DOMAIN rs : Retained(rs[i])
  <2>1. /\ Listed(rs) /\ DOMAIN rs = 1..(Len(qual.receipts) + 1)
        /\ Len(qual.receipts) \in Nat
        /\ \A i \in DOMAIN qual.receipts : rs[i] = qual.receipts[i]
        /\ rs[Len(qual.receipts) + 1] = r
    BY <1>1, ListedAppend
  <2>2. DOMAIN qual.receipts = 1..Len(qual.receipts)
    BY <1>1, ListedIsFunction
  <2> HIDE DEF rs
  <2> QED BY <1>1, <2>1, <2>2
<1>3. \/ Proceed("run", rs)
      \/ Proceed("qualified", rs) /\ fits
      \/ Proceed("rejected", rs)
  BY DEF Retain
<1> HIDE DEF rs, fits
<1>4. DOMAIN qual = QualFields
  BY DEF QInv, Shapes
<1>5. /\ DOMAIN qual' = QualFields /\ qual'.kind = qual.kind
      /\ qual'.inputs = qual.inputs /\ qual'.receipts = rs
      /\ qual'.pc \in {"run", "qualified", "rejected"}
      /\ qual'.pc = "qualified" => fits
  BY <1>3, <1>4 DEF Proceed, QualFields
<1> QED BY <1>2, <1>5 DEF fits

\* A qualification that failed keeps what it had.
LEMMA FailedQualification ==
  ASSUME QInv, Proceed("failed", qual.receipts)
  PROVE  /\ DOMAIN qual' = QualFields /\ qual'.kind = qual.kind
         /\ qual'.inputs = qual.inputs /\ qual'.pc = "failed"
         /\ qual'.receipts = qual.receipts
BY DEF QInv, Shapes, Proceed, QualFields

\* A run of the application has ended, with its receipt or without.
LEMMA ApplicationRanKeeps == ASSUME QInv, ApplicationRan PROVE QInv'
<1> USE DEF QInv
<1>1. /\ qual.kind = "application" /\ CallAt("end") /\ qual.pc = "run"
      /\ call' = [NoCall EXCEPT !.project = call.project]
      /\ UNCHANGED <<projects, box, prov, worlds, bridge>>
  <2>1. qual.kind = "application" /\ CallAt("end")
    BY DEF ApplicationRan
  <2>2. qual.pc = "run"
    BY <2>1 DEF QualOK, CallAt
  <2> QED BY <2>1, <2>2 DEF ApplicationRan, providers
<1>2. /\ DOMAIN call' = CallFields /\ call'.pc = "idle" /\ call'.output = None
      /\ call'.raised = FALSE /\ call'.dirty = FALSE /\ call'.failed = FALSE
  BY <1>1 DEF NoCall, CallFields
<1>3. /\ DOMAIN qual' = QualFields /\ qual'.kind = qual.kind
      /\ qual'.pc \in {"run", "qualified", "rejected", "failed"}
      /\ qual'.pc # "failed" => Exact(qual'.inputs) /\ projects = {} /\ box = NoBox
      /\ Listed(qual'.receipts)
      /\ \A i \in DOMAIN qual'.receipts : Retained(qual'.receipts[i])
      /\ qual'.pc = "qualified" => ApplicationComposite(qual'.receipts)
  <2>1. CASE RunOutcome = "receipt" /\ ActualWitness(Receipt, qual.at)
    <3>1. ~call.dirty /\ call.output # None
      BY <2>1 DEF RunOutcome
    <3>2. Receipt.final = call.output.final /\ Receipt.req = call.req
      BY DEF Receipt
    <3>3. Retained(Receipt)
      BY <1>1, <3>1, <3>2 DEF CallOK, Retained
    <3>4. Retain(Receipt)
      BY <2>1 DEF ApplicationRan
    <3>5. projects = {} /\ box = NoBox /\ Exact(qual.inputs)
      BY <1>1, <3>1 DEF Tidy, QualOK
    <3>6. \A r : Retained(r) /\ Retain(r) =>
            /\ DOMAIN qual' = QualFields /\ qual'.kind = qual.kind
            /\ qual'.inputs = qual.inputs
            /\ qual'.pc \in {"run", "qualified", "rejected"}
            /\ Listed(qual'.receipts)
            /\ \A i \in DOMAIN qual'.receipts : Retained(qual'.receipts[i])
            /\ qual'.pc = "qualified" => ApplicationComposite(qual'.receipts)
      BY <1>1, RetainKeeps
    <3>7. /\ DOMAIN qual' = QualFields /\ qual'.kind = qual.kind
          /\ qual'.inputs = qual.inputs
          /\ qual'.pc \in {"run", "qualified", "rejected"}
          /\ Listed(qual'.receipts)
          /\ \A i \in DOMAIN qual'.receipts : Retained(qual'.receipts[i])
          /\ qual'.pc = "qualified" => ApplicationComposite(qual'.receipts)
      BY <3>3, <3>4, <3>6
    <3> QED BY <3>5, <3>7
  <2>2. CASE ~(RunOutcome = "receipt" /\ ActualWitness(Receipt, qual.at))
    <3>1. Proceed("failed", qual.receipts)
      BY <2>2 DEF ApplicationRan
    <3> QED BY <1>1, <3>1, FailedQualification DEF QualOK
  <2> QED BY <2>1, <2>2
<1>4. Shapes' /\ BoxOK' /\ CallOK' /\ Tidy'
  BY <1>1, <1>2, <1>3 DEF Shapes, BoxOK, CallOK, Tidy, CallAt
<1>5. OtherIdle'
  BY <1>1, <1>3 DEF OtherIdle
<1>6. prov.pc = "idle"
  BY <1>1 DEF OtherIdle, P!NoProv
<1>7. ProvTidy' /\ ProvOK'
  BY <1>1, <1>6 DEF OtherIdle, ProvTidy, ProvOK
<1>8. QualOK'
  BY <1>1, <1>2, <1>3, <1>6 DEF QualOK, Retained, CallAt
<1> QED BY <1>4, <1>5, <1>7, <1>8

\* A replay on the providers is started.
LEMMA RunProviderKeeps == ASSUME QInv, RunProvider PROVE QInv'
<1> USE DEF QInv
<1> DEFINE req == MaterializedRequest(qual.at)
<1>1. /\ qual.kind = "provider" /\ qual.pc = "run" /\ prov.pc = "idle"
      /\ UNCHANGED <<qual, call, box, projects, bridge>>
      /\ \/ /\ worlds' = worlds \cup {"root"}
            /\ prov' = [P!NoProv EXCEPT !.pc = "fork", !.req = req]
         \/ /\ worlds' = worlds
            /\ prov' = [P!NoProv EXCEPT !.pc = "end", !.req = req, !.raised = TRUE]
  BY DEF RunProvider, P!Prepare, P!PcAt, application
<1> HIDE DEF req
<1>2. /\ DOMAIN prov' = ProvFields /\ prov'.steps = <<>>
      /\ \/ prov'.pc = "fork" /\ prov'.raised = FALSE
         \/ prov'.pc = "end" /\ prov'.raised = TRUE
  BY <1>1 DEF P!NoProv, ProvFields
<1>3. worlds' \subseteq {"root", "fork"} /\ Listed(prov'.steps)
  BY <1>1, <1>2, ListedEmpty DEF ProvTidy
<1>4. Shapes'
  BY <1>1, <1>2 DEF Shapes
<1>5. BoxOK' /\ CallOK' /\ Tidy'
  BY <1>1, <1>2 DEF BoxOK, CallOK, Tidy, CallAt
<1>6. ProvTidy' /\ ProvOK'
  BY <1>1, <1>2, <1>3 DEF ProvTidy, ProvOK
<1>7. OtherIdle' /\ QualOK'
  BY <1>1 DEF OtherIdle, QualOK, Retained, CallAt
<1> QED BY <1>4, <1>5, <1>6, <1>7

\* A replay on the providers has ended, with its receipt or without.
LEMMA ProviderRanKeeps == ASSUME QInv, ProviderRan PROVE QInv'
<1> USE DEF QInv
<1>1. /\ qual.kind = "provider" /\ prov.pc = "end" /\ qual.pc = "run"
      /\ prov' = P!NoProv
      /\ UNCHANGED <<call, projects, box, worlds, bridge>>
  <2>1. qual.kind = "provider" /\ prov.pc = "end"
    BY DEF ProviderRan
  <2>2. qual.pc = "run"
    BY <2>1 DEF QualOK
  <2> QED BY <2>1, <2>2 DEF ProviderRan, application
<1>2. /\ DOMAIN prov' = ProvFields /\ prov'.pc = "idle" /\ prov'.raised = FALSE
      /\ Listed(prov'.steps)
  <2>1. /\ DOMAIN prov' = ProvFields /\ prov'.pc = "idle" /\ prov'.raised = FALSE
        /\ prov'.steps = <<>>
    BY <1>1 DEF P!NoProv, ProvFields
  <2> QED BY <2>1, ListedEmpty
<1>3. /\ DOMAIN qual' = QualFields /\ qual'.kind = qual.kind
      /\ qual'.pc \in {"run", "qualified", "rejected", "failed"}
      /\ qual'.pc # "failed" =>
           Exact(qual'.inputs) /\ worlds = {} /\ bridge = P!NoBridge
      /\ Listed(qual'.receipts)
      /\ \A i \in DOMAIN qual'.receipts : Retained(qual'.receipts[i])
      /\ qual'.pc = "qualified" => ProviderComposite(qual'.receipts)
  <2>1. CASE ~prov.raised /\ ProviderWitness(prov.receipt, qual.at)
    <3>1. Retained(prov.receipt)
      BY <1>1, <2>1 DEF ProvOK, Retained
    <3>2. Retain(prov.receipt)
      BY <2>1 DEF ProviderRan
    <3>3. worlds = {} /\ bridge = P!NoBridge /\ Exact(qual.inputs)
      BY <1>1, <2>1 DEF ProvTidy, QualOK
    <3>4. /\ DOMAIN qual' = QualFields /\ qual'.kind = qual.kind
          /\ qual'.inputs = qual.inputs
          /\ qual'.pc \in {"run", "qualified", "rejected"}
          /\ Listed(qual'.receipts)
          /\ \A i \in DOMAIN qual'.receipts : Retained(qual'.receipts[i])
          /\ qual'.pc = "qualified" => ProviderComposite(qual'.receipts)
      BY <1>1, <3>1, <3>2, RetainKeeps
    <3> QED BY <3>3, <3>4
  <2>2. CASE ~(~prov.raised /\ ProviderWitness(prov.receipt, qual.at))
    <3>1. Proceed("failed", qual.receipts)
      BY <2>2 DEF ProviderRan
    <3> QED BY <1>1, <3>1, FailedQualification DEF QualOK
  <2> QED BY <2>1, <2>2
<1>4. Shapes'
  BY <1>1, <1>2, <1>3 DEF Shapes
<1>5. BoxOK' /\ CallOK' /\ Tidy'
  BY <1>1, <1>2, <1>3 DEF BoxOK, CallOK, Tidy, OtherIdle, CallAt
<1>6. OtherIdle' /\ ProvTidy' /\ ProvOK'
  BY <1>1, <1>2, <1>3 DEF OtherIdle, ProvTidy, ProvOK, CallAt
<1>7. CallAt("idle")
  BY <1>1 DEF OtherIdle
<1>8. QualOK'
  BY <1>1, <1>2, <1>3, <1>7 DEF QualOK, Retained, CallAt
<1> QED BY <1>4, <1>5, <1>6, <1>8

\* The tag is moved while a run goes on (docker build).
LEMMA RetagKeeps == ASSUME QInv, Retag PROVE QInv'
<1>1. UNCHANGED <<call, projects, box, qual, prov, worlds, bridge>>
  BY DEF Retag, Rebuild, providers
<1> QED BY <1>1 DEF QInv, Shapes, BoxOK, CallOK, Tidy, ProvTidy, ProvOK, OtherIdle, QualOK,
                    Retained, CallAt

\* The invariant holds at the start.
LEMMA QInvInit == QInit => QInv
<1> SUFFICES ASSUME QInit PROVE QInv
  OBVIOUS
<1>1. /\ call = NoCall /\ projects = {} /\ box = NoBox /\ prov = P!NoProv
      /\ worlds = {} /\ bridge = P!NoBridge
  BY DEF QInit, RunInit, P!ProvInit
<1>2. /\ DOMAIN qual = QualFields /\ qual.kind \in {"application", "provider"}
      /\ qual.pc = "idle" /\ qual.receipts = <<>>
  BY DEF QInit, QualFields
<1>3. /\ DOMAIN call = CallFields /\ call.pc = "idle" /\ call.output = None
      /\ call.raised = FALSE /\ call.dirty = FALSE /\ call.failed = FALSE
  BY <1>1 DEF NoCall, CallFields
<1>4. /\ DOMAIN prov = ProvFields /\ prov.pc = "idle" /\ prov.raised = FALSE
      /\ prov.steps = <<>>
  BY <1>1 DEF P!NoProv, ProvFields
<1>5. Shapes /\ BoxOK /\ CallOK /\ Tidy
  BY <1>1, <1>2, <1>3, <1>4, NoBoxOK, NoBridgeOK DEF Shapes, BoxOK, CallOK, Tidy, CallAt
<1>6. ProvTidy /\ ProvOK /\ OtherIdle
  BY <1>1, <1>3, <1>4, NoBridgeOK, ListedEmpty DEF ProvTidy, ProvOK, OtherIdle, CallAt
<1>7. QualOK
  BY <1>2, <1>3, <1>4, ListedEmpty DEF QualOK, CallAt
<1> QED BY <1>5, <1>6, <1>7 DEF QInv

\* Every step keeps the invariant.
LEMMA QInvNext == QInv /\ [QNext]_qvars => QInv'
<1> SUFFICES ASSUME QInv, [QNext]_qvars PROVE QInv'
  OBVIOUS
<1>1. CASE UNCHANGED qvars
  BY <1>1 DEF qvars, rvars, QInv, Shapes, BoxOK, CallOK, Tidy, ProvTidy, ProvOK, OtherIdle,
              QualOK, Retained, CallAt
<1>2. CASE Driver
  BY <1>2, StartKeeps, RunApplicationKeeps, ApplicationRanKeeps, RunProviderKeeps,
     ProviderRanKeeps DEF Driver
<1>3. CASE RunStep
  BY <1>3, HostKeeps, ContainerKeeps DEF RunStep
<1>4. CASE ProvStep
  BY <1>4, BridgeKeeps, ProvHostKeeps DEF ProvStep
<1>5. CASE Retag
  BY <1>5, RetagKeeps
<1> QED BY <1>1, <1>2, <1>3, <1>4, <1>5 DEF QNext
-------------------------------------------------------------------------------
(* The theorems. *)

\* The invariant is one (qualify_materialized_chain, qualify_actual_materialized_chain).
THEOREM QInvariance == QSpec => []QInv
<1>1. QInit => QInv
  BY QInvInit
<1>2. QInv /\ [QNext]_qvars => QInv'
  BY QInvNext
<1> QED BY <1>1, <1>2, PTL DEF QSpec

\* What was kept of every run is the whole of it.
LEMMA QualifiedFromInvariant == QInv => QualifiedSound
<1> SUFFICES ASSUME QInv, qual.pc = "qualified" PROVE QualifiedSound
  BY DEF QualifiedSound
<1> DEFINE rs == qual.receipts
<1>1. /\ Exact(qual.inputs) /\ Listed(rs) /\ CallAt("idle") /\ prov.pc = "idle"
      /\ \A i \in DOMAIN rs : Retained(rs[i])
      /\ qual.kind \in {"application", "provider"}
  BY DEF QInv, QualOK, Shapes
<1>2. /\ DOMAIN rs = 1..Len(rs) /\ DOMAIN PlannedRuns = 1..Len(PlannedRuns)
  BY <1>1, ListedIsFunction, PlansAssumption
<1>3. projects = {} /\ worlds = {} /\ box = NoBox
  BY <1>1 DEF QInv, Tidy, ProvTidy, OtherIdle
<1>4. ASSUME NEW k \in DOMAIN PlannedRuns
      PROVE  PlannedRuns[k].actions =
               [i \in 1..Len(PlannedRuns[k].actions) |-> PlannedRuns[k].actions[i]]
  BY ListedIsFunction, PlansAssumption
<1>5. ASSUME NEW k, rs[k].req = MaterializedRequest(k)
      PROVE  rs[k].req.actions = PlannedRuns[k].actions
  BY <1>5 DEF MaterializedRequest
<1>6. CASE qual.kind = "application"
  <2>1. ApplicationComposite(rs)
    BY <1>6 DEF QInv, QualOK
  <2>2. Len(rs) = Len(PlannedRuns)
    BY <2>1 DEF ApplicationComposite
  <2>3. ASSUME NEW k \in DOMAIN PlannedRuns
        PROVE  /\ rs[k].initial = LabCheckpoint(rs[k].req.mode, <<>>)
               /\ rs[k].final = LabCheckpoint(rs[k].req.mode, PlannedRuns[k].actions)
               /\ rs[k].image = rs[1].image /\ Revision(rs[k].image) = Marker
    <3>1. k \in DOMAIN rs
      BY <1>2, <2>2
    <3>2. /\ rs[k].req = MaterializedRequest(k)
          /\ rs[k].initial = LabCheckpoint(rs[k].req.mode, <<>>)
          /\ rs[k].image = rs[1].image /\ Revision(rs[k].image) = Marker
      BY <2>1, <3>1 DEF ApplicationComposite, ActualWitness, OneImage
    <3>3. rs[k].final = Reached(rs[k].req, Len(rs[k].req.actions))
      BY <1>1, <1>6, <3>1 DEF Retained
    <3>4. rs[k].req.actions = PlannedRuns[k].actions
      BY <1>5, <3>2
    <3>5. rs[k].final = LabCheckpoint(rs[k].req.mode, PlannedRuns[k].actions)
      BY <1>4, <3>3, <3>4 DEF Reached
    <3> QED BY <3>2, <3>5
  <2> QED BY <1>1, <1>3, <1>6, <2>2, <2>3 DEF QualifiedSound
<1>7. CASE qual.kind = "provider"
  <2>1. ProviderComposite(rs)
    BY <1>7 DEF QInv, QualOK
  <2>2. Len(rs) = Len(PlannedRuns)
    BY <2>1 DEF ProviderComposite
  <2>3. ASSUME NEW k \in DOMAIN PlannedRuns
        PROVE  /\ [i \in DOMAIN rs[k].steps |-> rs[k].steps[i].action] =
                    PlannedRuns[k].actions
               /\ rs[k].steps[1].before = P!All(Winner) /\ rs[k].restored = P!All(Winner)
    <3>1. k \in DOMAIN rs
      BY <1>2, <2>2
    <3>2. P!ProviderClosed(rs[k]) /\ Listed(rs[k].steps)
      BY <1>1, <1>7, <3>1 DEF Retained, Witnessed
    <3>3. rs[k].req.actions = PlannedRuns[k].actions
      BY <1>5, <2>1, <3>1 DEF ProviderComposite
    <3>4. DOMAIN rs[k].steps = 1..Len(PlannedRuns[k].actions)
      BY <3>2, <3>3, ListedIsFunction DEF P!ProviderClosed
    <3>5. \A i \in DOMAIN rs[k].steps : rs[k].steps[i].action = PlannedRuns[k].actions[i]
      BY <3>2, <3>3 DEF P!ProviderClosed
    <3>6. [i \in DOMAIN rs[k].steps |-> rs[k].steps[i].action] = PlannedRuns[k].actions
      BY <1>4, <3>4, <3>5
    <3> QED BY <3>2, <3>6 DEF P!ProviderClosed
  <2> QED BY <1>1, <1>3, <1>7, <2>2, <2>3 DEF QualifiedSound
<1> QED BY <1>1, <1>6, <1>7

\* A qualification stands for the whole plan on fresh state, from one image, with
\* nothing left in docker, whatever fails, times out, is cancelled or is retagged
\* (composite_is_closed, _closed_actual_asgi_composite).
THEOREM Qualification == QSpec => []QualifiedSound
BY QInvariance, QualifiedFromInvariant, PTL

\* No run starts before all of the run before it is gone (run_materialized_lab,
\* run_m5_materialized_provider).
THEOREM Separation == QSpec => RunsDoNotOverlap
<1>1. ASSUME QInv, [QNext]_qvars
      PROVE  [/\ CallAt("idle") /\ call'.pc = "up" => projects = {} /\ box.pc = "off"
              /\ prov.pc = "idle" /\ prov'.pc = "fork" =>
                   worlds = {} /\ bridge = P!NoBridge]_qvars
  <2>1. ASSUME QNext, CallAt("idle"), call'.pc = "up" PROVE projects = {} /\ box.pc = "off"
    <3>1. CASE RunApplication
      BY <1>1, <2>1, <3>1, NoBoxOK DEF RunApplication, QInv, Tidy
    <3>2. CASE ~RunApplication
      <4>1. call' = call \/ ApplicationRan
        BY <2>1, <3>2 DEF QNext, Driver, Start, RunProvider, ProviderRan, RunStep, ProvStep,
             Retag, Rebuild, application, Host, Container, Up, ImageBinding, Exec, Executed,
             Down, Inventory, Boot, Load, Act, Commit, Exit0, CallAt
      <4>2. ~ApplicationRan
        BY <2>1 DEF ApplicationRan, CallAt
      <4> QED BY <2>1, <4>1, <4>2 DEF CallAt
    <3> QED BY <3>1, <3>2
  <2>2. ASSUME QNext, prov.pc = "idle", prov'.pc = "fork"
        PROVE  worlds = {} /\ bridge = P!NoBridge
    <3>1. CASE RunProvider
      BY <1>1, <2>2, <3>1 DEF RunProvider, QInv, ProvTidy
    <3>2. CASE ~RunProvider
      <4>1. prov' = prov \/ ProviderRan
        BY <2>2, <3>2 DEF QNext, Driver, Start, RunApplication, ApplicationRan, RunStep,
             ProvStep, Retag, providers, P!ProvHost, P!Fork, P!Command, P!Answered,
             P!Baseline, P!FinalState, P!Restored, P!DestroyFork, P!DestroyRoot, P!PcAt,
             P!NextPc, P!Bridge, P!BridgeWrite, P!BridgeRead
      <4>2. ~ProviderRan
        BY <2>2 DEF ProviderRan
      <4> QED BY <2>2, <4>1, <4>2
    <3> QED BY <3>1, <3>2
  <2> QED BY <1>1, <2>1, <2>2
<1> QED BY <1>1, QInvariance, PTL DEF QSpec, RunsDoNotOverlap

(***************************************************************************)
(*                       The replays of the chain                          *)
(***************************************************************************)

RunFields == {"pc", "campaign", "n", "i", "active", "used", "status", "failed", "code",
              "outcome", "response", "accepted"}
LabFields == {"mode", "now", "policyGeneration", "role", "expires", "retained", "cache",
              "job", "published", "claimedBy", "downgradedAt", "sequence", "outcomes",
              "disclosure"}
JobFields == {"due", "status", "delayed"}
Kinds     == {"retain", "prime", "downgrade", "defer", "publish", "claim", "advance",
              "read", "masked", "mock"}

\* The evidence of the first seven steps, and of the last.
SetupEvidence == <<"retained", "allowed_cached", "queued", "delayed", "published",
                   "obtained", "advanced">>
LastEvidence(mode) == IF mode = "vulnerable" THEN "disclosed" ELSE "blocked"

\* The sessions once the editor of tenant A has lost its role.
LaterSessions(mode) ==
  [s \in Sessions |-> IF s = "a_fresh" THEN SessionLifetime
                      ELSE Canonical(mode).expires[s]]

QueuedJob   == [due |-> 30, status |-> "pending", delayed |-> FALSE]
PostponedJob == [due |-> 240, status |-> "pending", delayed |-> TRUE]

EvidenceAt(mode, k) == {SetupEvidence[j] : j \in 1..(IF k < 8 THEN k ELSE 7)}
                         \cup (IF k < 8 THEN {} ELSE {LastEvidence(mode)})

PublishedAt(k) == IF k < 5 THEN FALSE ELSE TRUE

\* A clean lab of the mode after k steps of the chain.
ChainLab(mode, k) ==
  [mode |-> mode, now |-> IF k < 7 THEN 0 ELSE 90,
   policyGeneration |-> IF k < 3 THEN 1 ELSE 2,
   role |-> IF k < 3 THEN "editor" ELSE "viewer",
   expires |-> IF k < 3 THEN Canonical(mode).expires ELSE LaterSessions(mode),
   retained |-> IF k = 0 THEN {} ELSE {"a_old"},
   cache |-> IF k < 2 \/ (k > 2 /\ mode = "patched") THEN Nothing ELSE 1,
   job |-> IF k < 3 THEN Nothing ELSE IF k = 3 THEN QueuedJob ELSE PostponedJob,
   published |-> PublishedAt(k),
   claimedBy |-> IF k < 6 THEN Nothing ELSE "a_old",
   downgradedAt |-> IF k < 3 THEN Nothing ELSE 0, sequence |-> k,
   outcomes |-> EvidenceAt(mode, k),
   disclosure |-> IF k = 8 /\ mode = "vulnerable" THEN 8 ELSE Nothing]

\* No action of the plan is of this kind.
Lacks(plan, kind) == \A j \in DOMAIN plan : plan[j].kind # kind

\* l has the fields of a lab.
IsLab(l) == DOMAIN l = LabFields /\ l = [f \in LabFields |-> l[f]]

\* What any plan has made of a lab after k of its steps, a last read left aside.
PlanLab(plan, k, l) ==
  /\ IsLab(l) /\ l.sequence = k /\ l.disclosure = Nothing
  /\ "a_old" \in l.retained => ~Lacks(plan, "retain")
  /\ l.cache # Nothing => ~Lacks(plan, "prime")
  /\ l.job # Nothing =>
       DOMAIN l.job = JobFields /\ (l.job.delayed => ~Lacks(plan, "defer"))
  /\ l.claimedBy # Nothing => ~Lacks(plan, "claim")
  /\ l.downgradedAt \in {Nothing, 0}
  /\ \/ l.now = 0
     \/ /\ Len(plan) > 1 /\ k >= Len(plan) - 1
        /\ plan[Len(plan) - 1].kind = "advance"
        /\ l.now = plan[Len(plan) - 1].arg

\* Only the last action of a plan reads or is a decoy, the one before it may
\* move the clock, and those before do neither.
WellFormed(plan) ==
  /\ Listed(plan) /\ Len(plan) \in 1..8
  /\ \A j \in DOMAIN plan :
       /\ plan[j].kind \in Kinds /\ plan[j].session \in Sessions
       /\ j < Len(plan) <=> plan[j].kind \notin {"read", "masked", "mock"}
       /\ plan[j].kind = "advance" => j = Len(plan) - 1 /\ plan[j].arg \in Nat
       /\ plan[j].kind = "downgrade" => j < Len(plan) - 1

\* Why the last action of a control does not disclose the document.
Barred(plan) ==
  LET a == plan[Len(plan)]
  IN  \/ a.kind # "read" \/ a.session # "a_old" \/ a.arg = "A"
      \/ \E kind \in {"retain", "prime", "defer", "claim", "advance"} : Lacks(plan, kind)
      \/ plan[Len(plan) - 1].arg = 181

\* What a control is expected to come to.
ControlShape(s) ==
  LET a == s.plan[Len(s.plan)]
  IN  /\ s.mode = "vulnerable" /\ WellFormed(s.plan) /\ Barred(s.plan)
      /\ s.outcome = (IF a.kind \in {"read", "masked"} THEN "SATISFIED" ELSE "INCONCLUSIVE")
      /\ s.response = (IF a.kind = "read" /\ a.arg # Tenant(a.session) THEN 403 ELSE 200)

\* The lab after k steps of a scenario.
LabAt(n, s, k, l) ==
  IF n <= PatchedRun THEN l = ChainLab(s.mode, k) ELSE PlanLab(s.plan, k, l)

Results == {"status", "failed", "code", "outcome", "response", "final"}

\* What a scenario comes to when nothing fails.
Foreseen(n, s, r) == 
  IF n <= PatchedRun
  THEN r = IF n < PatchedRun
           THEN [status |-> "succeeded", failed |-> Nothing, code |-> Nothing,
                 outcome |-> "VIOLATED", response |-> 200,
                 final |-> ChainLab("vulnerable", 8)]
           ELSE [status |-> "failed", failed |-> 8, code |-> "ORACLE_EXPECTATION_MISMATCH",
                 outcome |-> "SATISFIED", response |-> 403,
                 final |-> ChainLab("patched", 8)]
  ELSE /\ DOMAIN r = Results
       /\ r.status = "succeeded" /\ r.outcome = s.outcome /\ r.response = s.response
       /\ r.final.disclosure = Nothing /\ r.final.sequence = Len(s.plan)

\* A run that something outside its scenario brought down.
Faulted(r) ==
  \/ r.status = "cleanup_failed"
  \/ r.status = "failed" /\ r.code \in {"ACTION_FAILED", "STEP_TIMEOUT"}

Total == Len(Scenarios(run.campaign))

\* The campaign goes through its scenarios in their order.
CampaignShape ==
  /\ DOMAIN run = RunFields /\ run.campaign \in Campaigns
  /\ run.pc \in {"root", "execute", "serve", "cleanup", "report", "ended"}
  /\ run.pc \in {"root", "execute", "serve", "cleanup"} => run.n \in 1..Total
  /\ run.pc = "report" => run.n = Total + 1
  /\ run.n \in Nat \ {0} /\ run.n <= Total + 1
  /\ Listed(done) /\ Len(done) = run.n - 1
  /\ faults \in Nat /\ DOMAIN request = Workers
  /\ run.active = (run.pc \in {"execute", "serve", "cleanup"}) \/ run.pc = "ended"

\* A scenario under way is where its plan takes it.
RunningOK ==
  /\ run.pc \in {"execute", "serve"} =>
       /\ run.i \in DOMAIN Plan /\ LabAt(run.n, Current, run.i - 1, lab)
  /\ run.pc = "execute" => run.used = Slot(Plan, run.i)
  /\ run.pc = "serve" => 
       /\ run.used = Slot(Plan, run.i + 1)
       /\ request[Worker] = Step.session
  /\ run.pc = "cleanup" =>
       \/ Foreseen(run.n, Current, Result)
       \/ Faulted(Result) /\ faults > 0

\* Every result is the expected one, or there was a fault; and a fault is seen.
ResultsOK ==
  /\ \A j \in DOMAIN done :
       \/ Foreseen(j, Scenarios(run.campaign)[j], done[j])
       \/ Faulted(done[j]) /\ faults > 0
  /\ run.pc # "ended" /\ faults > 0 =>
       \/ \E j \in DOMAIN done : Faulted(done[j])
       \/ run.pc = "cleanup" /\ Faulted(Result)
  /\ run.pc # "ended" => ~run.accepted
  /\ run.pc = "ended" => 
        /\ run.accepted <=> faults = 0
        /\ run.accepted => ~run.active /\ Len(done) = Total

CInv == CampaignShape /\ RunningOK /\ ResultsOK

-------------------------------------------------------------------------------
(* Lemmas about the plans. *)

\* The setup and one action more (_canonical_lab_actions).
LEMMA AfterSetup ==
  ASSUME NEW a8
  PROVE  /\ Append(Setup, a8) =
              <<Action("retain", "a_old", 0), Action("prime", "a_old", 0),
                Action("downgrade", "admin", 0), Action("defer", "admin", 0),
                Action("publish", "b_viewer", 0), Action("claim", "a_old", 0),
                Action("advance", "admin", 90), a8>>
         /\ Listed(Append(Setup, a8)) /\ Len(Append(Setup, a8)) = 8
<1> DEFINE a1 == Action("retain", "a_old", 0)
           a2 == Action("prime", "a_old", 0)
           a3 == Action("downgrade", "admin", 0)
           a4 == Action("defer", "admin", 0)
           a5 == Action("publish", "b_viewer", 0)
           a6 == Action("claim", "a_old", 0)
           a7 == Action("advance", "admin", 90)
           S  == {a1, a2, a3, a4, a5, a6, a7, a8}
           s7 == <<a1, a2, a3, a4, a5, a6, a7>>
           s8 == <<a1, a2, a3, a4, a5, a6, a7, a8>>
<1>1. Setup = s7
  BY Zenon DEF Setup
<1> HIDE DEF a1, a2, a3, a4, a5, a6, a7
<1>2. s7 \in Seq(S) /\ Len(s7) = 7 /\ s8 \in Seq(S) /\ Len(s8) = 8 /\ a8 \in S
  OBVIOUS
<1>3. /\ s7[1] = s8[1] /\ s7[2] = s8[2] /\ s7[3] = s8[3] /\ s7[4] = s8[4]
      /\ s7[5] = s8[5] /\ s7[6] = s8[6] /\ s7[7] = s8[7] /\ s8[8] = a8
  OBVIOUS
<1>a. Listed(s7) /\ Listed(s8)
  BY DEF Listed
<1> HIDE DEF s7, s8, S
<1>4. /\ Listed(Append(s7, a8)) /\ Len(Append(s7, a8)) = Len(s7) + 1
      /\ \A i \in 1..Len(s7) : Append(s7, a8)[i] = s7[i]
      /\ Append(s7, a8)[Len(s7) + 1] = a8
  BY <1>a, ListedAppend
<1>5. Append(s7, a8) = s8
  <2> DEFINE t == Append(s7, a8)
  <2>1. Listed(t) /\ Len(t) = 8 /\ \A i \in 1..8 : t[i] = s8[i]
    BY <1>2, <1>3, <1>4
  <2> HIDE DEF t
  <2>2. t = [i \in 1..Len(t) |-> t[i]] /\ s8 = [i \in 1..Len(s8) |-> s8[i]]
    BY <2>1, <1>a, ListedIsFunction, Zenon
  <2>3. t = s8
    BY <1>2, <2>1, <2>2
  <2> QED BY <2>3 DEF t
<1> QED BY <1>1, <1>2, <1>5, <1>a, Zenon DEF s7, s8, a1, a2, a3, a4, a5, a6, a7

\* A sequence without one of its elements.
LEMMA WithoutOne ==
  ASSUME NEW s, Listed(s), NEW p \in 1..Len(s)
  PROVE  /\ Listed(RemoveAt(s, p)) /\ Len(RemoveAt(s, p)) = Len(s) - 1
         /\ \A j \in 1..(Len(s) - 1) :
              RemoveAt(s, p)[j] = (IF j < p THEN s[j] ELSE s[j + 1])
<1> DEFINE S == {s[i] : i \in DOMAIN s}
           a == SubSeq(s, 1, p - 1)
           b == SubSeq(s, p + 1, Len(s))
           r == a \o b
<1>1. s \in Seq(S)
  BY DEF Listed
<1> HIDE DEF S
<1>2. /\ a \in Seq(S) /\ Len(a) = p - 1
      /\ \A j \in 1..(p - 1) : a[j] = s[j]
  BY <1>1
<1>3. /\ b \in Seq(S) /\ Len(b) = Len(s) - p
      /\ \A j \in 1..(Len(s) - p) : b[j] = s[p + j]
  BY <1>1
<1> HIDE DEF a, b
<1>4. /\ r \in Seq(S) /\ Len(r) = Len(s) - 1
      /\ \A j \in 1..(Len(s) - 1) : r[j] = IF j < p THEN s[j] ELSE s[j + 1]
  <2>1. r \in Seq(S) /\ Len(r) = Len(a) + Len(b)
    BY <1>2, <1>3, ConcatProperties
  <2>2. \A j \in 1..Len(r) : r[j] = IF j <= Len(a) THEN a[j] ELSE b[j - Len(a)]
    BY <1>2, <1>3, ConcatProperties
  <2> QED BY <1>1, <1>2, <1>3, <2>1, <2>2
<1>5. RemoveAt(s, p) = r
  BY DEF RemoveAt, a, b
<1> HIDE DEF r
<1>6. r \in Seq({r[i] : i \in DOMAIN r})
  <2>1. DOMAIN r = 1..Len(r) /\ Len(r) \in Nat
    BY <1>4
  <2>2. \A j \in 1..Len(r) : r[j] \in {r[i] : i \in DOMAIN r}
    BY <2>1
  <2>3. r = [j \in 1..Len(r) |-> r[j]]
    BY <1>4
  <2> QED BY <2>1, <2>2, <2>3
<1> QED BY <1>4, <1>5, <1>6 DEF Listed

\* r is s, of length m, followed by t, of length k.
Joined(r, s, t, m, k) ==
  /\ Listed(r) /\ Len(r) = m + k
  /\ \A j \in 1..m : r[j] = s[j]
  /\ \A j \in 1..k : r[m + j] = t[j]

\* Two tuples, one after the other.
LEMMA ListedConcat ==
  ASSUME NEW s, Listed(s), NEW t, Listed(t), NEW m \in Nat, NEW k \in Nat,
         Len(s) = m, Len(t) = k
  PROVE  Joined(s \o t, s, t, m, k)
<1> DEFINE S == {s[i] : i \in DOMAIN s} \cup {t[i] : i \in DOMAIN t}
           r == s \o t
<1>1. s \in Seq(S) /\ t \in Seq(S)
  <2>1. s \in Seq({s[i] : i \in DOMAIN s}) /\ t \in Seq({t[i] : i \in DOMAIN t})
    BY DEF Listed
  <2> QED BY <2>1
<1> HIDE DEF S
<1>2. /\ r \in Seq(S) /\ Len(r) = m + k
      /\ \A i \in 1..(m + k) : r[i] = IF i <= m THEN s[i] ELSE t[i - m]
  BY <1>1, ConcatProperties
<1> HIDE DEF r
<1>4. \A j \in 1..m : r[j] = s[j]
  BY <1>2
<1>5. ASSUME NEW j \in 1..k PROVE r[m + j] = t[j]
  <2>1. m + j \in 1..(m + k) /\ ~(m + j <= m) /\ m + j - m = j
    OBVIOUS
  <2> QED BY <1>2, <2>1
<1>6. r \in Seq({r[i] : i \in DOMAIN r})
  <2>1. DOMAIN r = 1..Len(r) /\ Len(r) \in Nat /\ r = [j \in 1..Len(r) |-> r[j]]
    BY <1>2
  <2>2. \A j \in 1..Len(r) : r[j] \in {r[i] : i \in DOMAIN r}
    BY <2>1
  <2> QED BY <2>1, <2>2
<1> QED BY <1>2, <1>4, <1>5, <1>6 DEF r, Listed, Joined

Vulnerable == Scenario("vulnerable", Chain, "VIOLATED", 200)
Patched    == Scenario("patched", Chain, "VIOLATED", 200)
Without(p) == Control(RemoveAt(Chain, p), "SATISFIED", 403)

\* s is one of the controls.
IsControl(s) ==
  \/ s = Masked \/ s = MockOnly \/ s = FreshReader \/ s = SameTenant \/ s = Expired
  \/ \E p \in {1, 2, 4, 6, 7} : s = Without(p)

\* The controls of a campaign.
LEMMA ControlsAre ==
  ASSUME NEW c \in Campaigns
  PROVE  /\ Listed(Controls(c)) /\ Len(Controls(c)) \in {4, 10}
         /\ \A j \in 1..Len(Controls(c)) : IsControl(Controls(c)[j])
<1>1. CASE c = "m5"
  <2> DEFINE s == <<Masked, MockOnly, FreshReader, SameTenant>>
  <2>1. Controls(c) = s
    BY <1>1 DEF Controls
  <2>2. Listed(s) /\ Len(s) = 4
    BY DEF Listed
  <2>3. \A j \in 1..4 : IsControl(s[j])
    BY DEF IsControl
  <2> HIDE DEF s
  <2> QED BY <2>1, <2>2, <2>3
<1>2. CASE c # "m5"
  <2> DEFINE s == <<Expired, Masked, MockOnly, FreshReader, SameTenant>>
             p == <<1, 2, 4, 6, 7>>
  <2>1. Controls(c) = Missing \o s
    BY <1>2 DEF Controls
  <2>2. Listed(s) /\ Len(s) = 5
    BY DEF Listed
  <2>3. \A j \in 1..5 : IsControl(s[j])
    BY DEF IsControl
  <2>4. \A j \in 1..5 : p[j] \in {1, 2, 4, 6, 7}
    OBVIOUS
  <2>5. Missing = [i \in 1..5 |-> Without(p[i])]
    BY Zenon DEF Missing, Without
  <2> HIDE DEF s, p
  <2>6. Listed(Missing) /\ Len(Missing) = 5
    <3>1. Missing \in Seq({Missing[i] : i \in 1..5}) /\ DOMAIN Missing = 1..5
      BY <2>5
    <3>2. Len(Missing) = 5
      BY <3>1
    <3> QED BY <3>1, <3>2 DEF Listed
  <2>7. \A j \in 1..5 : IsControl(Missing[j])
    BY <2>4, <2>5 DEF IsControl
  <2> PICK r : r = Missing \o s
    OBVIOUS
  <2>8. /\ Listed(r) /\ Len(r) = 10
        /\ \A j \in 1..5 : r[j] = Missing[j]
        /\ \A j \in 1..5 : r[5 + j] = s[j]
    <3>1. 5 \in Nat /\ 5 + 5 = 10
      OBVIOUS
    <3>2. Joined(r, Missing, s, 5, 5)
      BY <2>2, <2>6, <3>1, ListedConcat, Zenon
    <3> QED BY <3>1, <3>2, Zenon DEF Joined
  <2>9. ASSUME NEW j \in 1..10 PROVE IsControl(r[j])
    <3>1. CASE j <= 5
      BY <3>1, <2>7, <2>8
    <3>2. CASE ~(j <= 5)
      <4>1. j - 5 \in 1..5 /\ 5 + (j - 5) = j
        BY <3>2
      <4> QED BY <4>1, <2>3, <2>8
    <3> QED BY <3>1, <3>2
  <2> QED BY <2>1, <2>8, <2>9
<1> QED BY <1>1, <1>2

\* The scenarios of a campaign.
LEMMA ScenariosAre ==
  ASSUME NEW c \in Campaigns
  PROVE  /\ Len(Scenarios(c)) \in {10, 16} /\ DOMAIN Scenarios(c) = 1..Len(Scenarios(c))
         /\ \A n \in 1..VulnerableRuns : Scenarios(c)[n] = Vulnerable
         /\ Scenarios(c)[PatchedRun] = Patched
         /\ \A n \in DOMAIN Scenarios(c) : n > PatchedRun => IsControl(Scenarios(c)[n])
<1> DEFINE v == [i \in 1..VulnerableRuns |-> Vulnerable]
           q == <<Patched>>
           k == Controls(c)
<1> PICK a : a = v \o q
  OBVIOUS
<1> PICK r : r = a \o k
  OBVIOUS
<1>1. VulnerableRuns = 5 /\ PatchedRun = 6
  BY DEF VulnerableRuns, PatchedRun
<1>2. Scenarios(c) = r
  BY Zenon DEF Scenarios, Vulnerable, Patched
<1>3. /\ Listed(v) /\ Len(v) = 5 /\ \A j \in 1..5 : v[j] = Vulnerable
  <2>1. v \in Seq({v[i] : i \in 1..5}) /\ DOMAIN v = 1..5
    BY <1>1
  <2> HIDE DEF v
  <2>2. Len(v) = 5
    BY <2>1
  <2>3. \A j \in 1..5 : v[j] = Vulnerable
    BY <1>1 DEF v
  <2> QED BY <2>1, <2>2, <2>3 DEF Listed
<1>4. Listed(q) /\ Len(q) = 1 /\ q[1] = Patched
  BY DEF Listed
<1>5. /\ Listed(k) /\ Len(k) \in {4, 10} /\ \A j \in 1..Len(k) : IsControl(k[j])
  BY ControlsAre
<1> HIDE DEF v, q, k
<1>n. PICK m : m = Len(k)
  OBVIOUS
<1>o. m \in {4, 10} /\ Len(k) = m
  BY <1>5, <1>n, Zenon
<1>m. /\ 5 \in Nat /\ 1 \in Nat /\ 6 \in Nat /\ 5 + 1 = 6
      /\ m \in {4, 10} /\ m \in Nat /\ 6 + m \in {10, 16} /\ Len(k) = m
  BY <1>o
<1>6. /\ Listed(a) /\ Len(a) = 6 /\ \A j \in 1..5 : a[j] = Vulnerable
      /\ a[6] = Patched
  <2>1. /\ Listed(a) /\ Len(a) = 5 + 1
        /\ \A j \in 1..5 : a[j] = v[j]
        /\ \A j \in 1..1 : a[5 + j] = q[j]
    <3>1. Joined(a, v, q, 5, 1)
      BY <1>3, <1>4, <1>m, ListedConcat, Zenon
    <3> QED BY <3>1, Zenon DEF Joined
  <2>2. a[5 + 1] = q[1]
    <3>1. 1 \in 1..1
      OBVIOUS
    <3> QED BY <2>1, <3>1, Zenon
  <2>3. \A j \in 1..5 : a[j] = Vulnerable
    BY <1>3, <2>1, Zenon
  <2> QED BY <1>4, <1>m, <2>1, <2>2, <2>3, Zenon
<1>7. /\ Listed(r) /\ Len(r) = 6 + m
      /\ \A j \in 1..6 : r[j] = a[j]
      /\ \A j \in 1..m : r[6 + j] = k[j]
  <2>1. Joined(r, a, k, 6, m)
    BY <1>5, <1>6, <1>m, ListedConcat, Zenon
  <2> QED BY <2>1, Zenon DEF Joined
<1>8. DOMAIN r = 1..Len(r)
  BY <1>7, ListedIsFunction
<1>9. ASSUME NEW n \in 1..Len(r), n > 6 PROVE IsControl(r[n])
  <2>1. n - 6 \in 1..m /\ 6 + (n - 6) = n
    BY <1>m, <1>7, <1>9
  <2>2. r[n] = k[n - 6]
    BY <2>1, <1>7
  <2> QED BY <2>1, <2>2, <1>5, <1>m
<1>a. Len(r) \in {10, 16}
  BY <1>m, <1>7, Zenon
<1>b. (\A n \in 1..5 : r[n] = Vulnerable) /\ r[6] = Patched
  BY <1>6, <1>7
<1> QED BY <1>1, <1>2, <1>8, <1>9, <1>a, <1>b

\* p is the setup and a.
Extended(p, a) ==
  /\ Listed(p) /\ Len(p) = 8 /\ DOMAIN p = 1..8
  /\ p[1] = Action("retain", "a_old", 0) /\ p[2] = Action("prime", "a_old", 0)
  /\ p[3] = Action("downgrade", "admin", 0) /\ p[4] = Action("defer", "admin", 0)
  /\ p[5] = Action("publish", "b_viewer", 0) /\ p[6] = Action("claim", "a_old", 0)
  /\ p[7] = Action("advance", "admin", 90) /\ p[8] = a

\* The chain and its control of the fresh session are the setup and a read.
LEMMA ExtendedSetup == ASSUME NEW a PROVE Extended(Append(Setup, a), a)
<1> PICK p : p = Append(Setup, a)
  OBVIOUS
<1>1. Listed(p) /\ Len(p) = 8
  BY AfterSetup
<1>2. DOMAIN p = 1..8
  BY <1>1, ListedIsFunction
<1> DEFINE a1 == Action("retain", "a_old", 0)
           a2 == Action("prime", "a_old", 0)
           a3 == Action("downgrade", "admin", 0)
           a4 == Action("defer", "admin", 0)
           a5 == Action("publish", "b_viewer", 0)
           a6 == Action("claim", "a_old", 0)
           a7 == Action("advance", "admin", 90)
<1>3. p = <<a1, a2, a3, a4, a5, a6, a7, a>>
  BY AfterSetup, Zenon
<1> HIDE DEF a1, a2, a3, a4, a5, a6, a7
<1>4. /\ p[1] = a1 /\ p[2] = a2 /\ p[3] = a3 /\ p[4] = a4 /\ p[5] = a5
      /\ p[6] = a6 /\ p[7] = a7 /\ p[8] = a
  BY <1>3
<1> QED BY <1>1, <1>2, <1>4, Zenon DEF Extended, a1, a2, a3, a4, a5, a6, a7

\* The fields of an action.
LEMMA ActionFields ==
  ASSUME NEW kind, NEW session, NEW arg
  PROVE  /\ Action(kind, session, arg).kind = kind
         /\ Action(kind, session, arg).session = session
         /\ Action(kind, session, arg).arg = arg
         /\ Read(session, arg).kind = "read" /\ Read(session, arg).session = session
         /\ Read(session, arg).arg = arg
BY DEF Action, Read

\* The kind and the session of every action of such a plan.
LEMMA ExtendedKinds ==
  ASSUME NEW p, NEW session, NEW arg, Extended(p, Read(session, arg))
  PROVE  /\ p[1].kind = "retain" /\ p[2].kind = "prime" /\ p[3].kind = "downgrade"
         /\ p[4].kind = "defer" /\ p[5].kind = "publish" /\ p[6].kind = "claim"
         /\ p[7].kind = "advance" /\ p[8].kind = "read"
         /\ p[1].session = "a_old" /\ p[2].session = "a_old" /\ p[3].session = "admin"
         /\ p[4].session = "admin" /\ p[5].session = "b_viewer"
         /\ p[6].session = "a_old" /\ p[7].session = "admin" /\ p[8].session = session
         /\ p[7].arg = 90 /\ p[8].arg = arg
<1>1. /\ p[1] = Action("retain", "a_old", 0) /\ p[2] = Action("prime", "a_old", 0)
      /\ p[3] = Action("downgrade", "admin", 0) /\ p[4] = Action("defer", "admin", 0)
      /\ p[5] = Action("publish", "b_viewer", 0) /\ p[6] = Action("claim", "a_old", 0)
      /\ p[7] = Action("advance", "admin", 90) /\ p[8] = Read(session, arg)
  BY Zenon DEF Extended
<1> QED BY <1>1 DEF Action, Read

\* What WellFormed says of one action.
WellPlaced(a, j, m) ==
  /\ a.kind \in Kinds /\ a.session \in Sessions
  /\ j < m <=> a.kind \notin {"read", "masked", "mock"}
  /\ a.kind = "advance" => j = m - 1 /\ a.arg \in Nat
  /\ a.kind = "downgrade" => j < m - 1

\* The setup and a read are a plan.
LEMMA ExtendedWellFormed ==
  ASSUME NEW p, NEW session \in Sessions, NEW arg, Extended(p, Read(session, arg))
  PROVE  WellFormed(p)
<1>1. Listed(p) /\ Len(p) = 8 /\ DOMAIN p = 1..8
  BY DEF Extended
<1>2. \A j \in 1..8 : WellPlaced(p[j], j, 8)
  <2>1. /\ WellPlaced(p[1], 1, 8) /\ WellPlaced(p[2], 2, 8) /\ WellPlaced(p[3], 3, 8)
        /\ WellPlaced(p[4], 4, 8) /\ WellPlaced(p[5], 5, 8) /\ WellPlaced(p[6], 6, 8)
        /\ WellPlaced(p[7], 7, 8) /\ WellPlaced(p[8], 8, 8)
    BY ExtendedKinds DEF WellPlaced, Kinds, Sessions
  <2> QED BY <2>1
<1> QED BY <1>1, <1>2 DEF WellFormed, WellPlaced

\* The chain without one of its actions.
LEMMA WithoutWellFormed ==
  ASSUME NEW q \in {1, 2, 4, 6, 7}
  PROVE  /\ WellFormed(RemoveAt(Chain, q)) /\ Len(RemoveAt(Chain, q)) = 7
         /\ Lacks(RemoveAt(Chain, q), Chain[q].kind)
         /\ RemoveAt(Chain, q)[7] = Read("a_old", "B")
<1> PICK p : p = RemoveAt(Chain, q)
  OBVIOUS
<1>1. Extended(Chain, Read("a_old", "B"))
  BY ExtendedSetup DEF Chain
<1>2. Listed(Chain) /\ Len(Chain) = 8
  BY <1>1 DEF Extended
<1>3. Listed(p) /\ Len(p) = 7 /\ \A j \in 1..7 : p[j] = IF j < q THEN Chain[j] ELSE Chain[j + 1]
  <2>1. /\ Listed(p) /\ Len(p) = Len(Chain) - 1
        /\ \A j \in 1..(Len(Chain) - 1) : p[j] = IF j < q THEN Chain[j] ELSE Chain[j + 1]
    <3>1. q \in 1..Len(Chain)
      BY <1>2
    <3> QED BY <1>2, <3>1, WithoutOne
  <2>2. Len(Chain) - 1 = 7
    BY <1>2
  <2> QED BY <2>1, <2>2, Zenon
<1>4. DOMAIN p = 1..7
  BY <1>3, ListedIsFunction
<1>5. \A j \in 1..7 : WellPlaced(p[j], j, 7) /\ p[j].kind # Chain[q].kind
  <2>1. \A j \in 1..7 : (p[j] = Chain[j] /\ j < q) \/ (p[j] = Chain[j + 1] /\ ~(j < q))
    BY <1>3
  <2>2. ASSUME NEW j \in 1..7, j < q
        PROVE  WellPlaced(Chain[j], j, 7) /\ Chain[j].kind # Chain[q].kind
    BY <1>1, <2>2, ExtendedKinds DEF WellPlaced, Kinds, Sessions
  <2>3. ASSUME NEW j \in 1..7, ~(j < q)
        PROVE  WellPlaced(Chain[j + 1], j, 7) /\ Chain[j + 1].kind # Chain[q].kind
    BY <1>1, <2>3, ExtendedKinds DEF WellPlaced, Kinds, Sessions
  <2> QED BY <2>1, <2>2, <2>3
<1>6. WellFormed(p)
  BY <1>3, <1>4, <1>5 DEF WellFormed, WellPlaced
<1>7. p[7] = Read("a_old", "B")
  BY <1>1, <1>3 DEF Extended
<1> QED BY <1>3, <1>4, <1>5, <1>6, <1>7 DEF Lacks

\* The tenants (Tenant).
LEMMA Tenants == /\ Tenant("a_old") = "A" /\ Tenant("a_fresh") = "A"
                 /\ Tenant("b_viewer") = "B" /\ Tenant("admin") = "platform"
BY DEF Tenant

\* A plan of one action.
LEMMA OneAction ==
  ASSUME NEW kind \in {"read", "masked", "mock"}, NEW session \in Sessions, NEW arg,
         NEW a, a = Action(kind, session, arg)
  PROVE  WellFormed(<<a>>) /\ Len(<<a>>) = 1 /\ <<a>>[1] = a
<1> PICK p : p = <<a>>
  OBVIOUS
<1>1. Listed(p) /\ Len(p) = 1 /\ DOMAIN p = 1..1 /\ p[1] = a
  BY DEF Listed
<1>2. a.kind = kind /\ a.session = session
  BY ActionFields
<1>3. WellPlaced(a, 1, 1)
  BY <1>2 DEF WellPlaced, Kinds
<1>4. \A j \in DOMAIN p : WellPlaced(p[j], j, Len(p))
  BY <1>1, <1>3
<1>5. WellFormed(p)
  BY <1>1, <1>4 DEF WellFormed, WellPlaced
<1> QED BY <1>1, <1>5

\* The fields of a control.
LEMMA ControlFields ==
  ASSUME NEW plan, NEW outcome, NEW response
  PROVE  LET s == Control(plan, outcome, response)
         IN  /\ s.mode = "vulnerable" /\ s.plan = plan /\ s.outcome = outcome
             /\ s.response = response
BY DEF Control, Scenario

\* The plan in which the clock passes the end of the window.
LEMMA ExpiredPlan ==
  ASSUME NEW p, p = Expired.plan
  PROVE  WellFormed(p) /\ Len(p) = 8 /\ p[7].arg = 181 /\ p[8] = Read("a_old", "B")
<1> DEFINE t == <<Setup[1], Setup[2], Setup[3], Setup[4], Setup[5], Setup[6],
                  Action("advance", "admin", 181), Read("a_old", "B")>>
<1>1. p = t
  <2>1. Expired = Control(t, "SATISFIED", 403)
    BY Zenon DEF Expired
  <2> HIDE DEF t
  <2> QED BY <2>1, ControlFields
<1>2. /\ Setup[1] = Action("retain", "a_old", 0) /\ Setup[2] = Action("prime", "a_old", 0)
      /\ Setup[3] = Action("downgrade", "admin", 0) /\ Setup[4] = Action("defer", "admin", 0)
      /\ Setup[5] = Action("publish", "b_viewer", 0) /\ Setup[6] = Action("claim", "a_old", 0)
  BY DEF Setup
<1>3. /\ Setup[1].kind = "retain" /\ Setup[2].kind = "prime"
      /\ Setup[3].kind = "downgrade" /\ Setup[4].kind = "defer"
      /\ Setup[5].kind = "publish" /\ Setup[6].kind = "claim"
      /\ Setup[1].session = "a_old" /\ Setup[2].session = "a_old"
      /\ Setup[3].session = "admin" /\ Setup[4].session = "admin"
      /\ Setup[5].session = "b_viewer" /\ Setup[6].session = "a_old"
  BY <1>2 DEF Action
<1> DEFINE a7 == Action("advance", "admin", 181)
           a8 == Read("a_old", "B")
<1>4. /\ a7.kind = "advance" /\ a7.session = "admin" /\ a7.arg = 181
      /\ a8.kind = "read" /\ a8.session = "a_old"
  BY ActionFields
<1> HIDE DEF a7, a8
<1> DEFINE u == <<Setup[1], Setup[2], Setup[3], Setup[4], Setup[5], Setup[6], a7, a8>>
<1>5. t = u
  BY Zenon DEF a7, a8
<1>6. /\ Listed(u) /\ Len(u) = 8 /\ DOMAIN u = 1..8
      /\ u[1] = Setup[1] /\ u[2] = Setup[2] /\ u[3] = Setup[3] /\ u[4] = Setup[4]
      /\ u[5] = Setup[5] /\ u[6] = Setup[6] /\ u[7] = a7 /\ u[8] = a8
  BY DEF Listed
<1> HIDE DEF t, u
<1>7. \A j \in 1..8 : WellPlaced(u[j], j, 8)
  <2>1. /\ WellPlaced(u[1], 1, 8) /\ WellPlaced(u[2], 2, 8) /\ WellPlaced(u[3], 3, 8)
        /\ WellPlaced(u[4], 4, 8) /\ WellPlaced(u[5], 5, 8) /\ WellPlaced(u[6], 6, 8)
        /\ WellPlaced(u[7], 7, 8) /\ WellPlaced(u[8], 8, 8)
    BY <1>3, <1>4, <1>6 DEF WellPlaced, Kinds, Sessions
  <2> QED BY <2>1
<1>8. WellFormed(u)
  BY <1>6, <1>7 DEF WellFormed, WellPlaced
<1> QED BY <1>1, <1>4, <1>5, <1>6, <1>8, Zenon DEF a8

\* Every control is a plan that may not disclose, and is expected to come to what
\* its last action comes to then (_negative_controls).
LEMMA ControlOK == ASSUME NEW s, IsControl(s) PROVE ControlShape(s)
<1> DEFINE a == s.plan[Len(s.plan)]
<1>1. CASE s = Masked
  <2> PICK b : b = Action("masked", "a_old", 0)
    OBVIOUS
  <2>1. WellFormed(<<b>>) /\ Len(<<b>>) = 1 /\ <<b>>[1] = b
    BY OneAction DEF Sessions
  <2>2. s.mode = "vulnerable" /\ s.plan = <<b>> /\ s.outcome = "SATISFIED" /\ s.response = 200
    BY <1>1, ControlFields DEF Masked
  <2>3. a = b /\ b.kind = "masked"
    BY <2>1, <2>2, ActionFields
  <2> QED BY <2>1, <2>2, <2>3 DEF ControlShape, Barred
<1>2. CASE s = MockOnly
  <2> PICK b : b = Action("mock", "a_old", 0)
    OBVIOUS
  <2>1. WellFormed(<<b>>) /\ Len(<<b>>) = 1 /\ <<b>>[1] = b
    BY OneAction DEF Sessions
  <2>2. s.mode = "vulnerable" /\ s.plan = <<b>> /\ s.outcome = "INCONCLUSIVE" /\ s.response = 200
    BY <1>2, ControlFields DEF MockOnly
  <2>3. a = b /\ b.kind = "mock"
    BY <2>1, <2>2, ActionFields
  <2> QED BY <2>1, <2>2, <2>3 DEF ControlShape, Barred
<1>3. CASE s = SameTenant
  <2> PICK b : b = Action("read", "a_old", "A")
    OBVIOUS
  <2>1. WellFormed(<<b>>) /\ Len(<<b>>) = 1 /\ <<b>>[1] = b
    BY OneAction DEF Sessions
  <2>2. s.mode = "vulnerable" /\ s.plan = <<b>> /\ s.outcome = "SATISFIED" /\ s.response = 200
    BY <1>3, ControlFields DEF SameTenant, Read
  <2>3. a = b /\ b.kind = "read" /\ b.arg = "A" /\ b.session = "a_old"
    BY <2>1, <2>2, ActionFields
  <2> QED BY <2>1, <2>2, <2>3, Tenants DEF ControlShape, Barred
<1>4. CASE s = FreshReader
  <2> PICK b : b = Read("a_fresh", "B")
    OBVIOUS
  <2> PICK p : p = Append(Setup, b)
    OBVIOUS
  <2>1. Extended(p, b)
    BY ExtendedSetup
  <2>2. WellFormed(p)
    BY <2>1, ExtendedWellFormed DEF Sessions
  <2>3. s.mode = "vulnerable" /\ s.plan = p /\ s.outcome = "SATISFIED" /\ s.response = 403
    <3>1. s = Control(p, "SATISFIED", 403)
      BY <1>4, Zenon DEF FreshReader
    <3>2. /\ Control(p, "SATISFIED", 403).mode = "vulnerable"
          /\ Control(p, "SATISFIED", 403).plan = p
          /\ Control(p, "SATISFIED", 403).outcome = "SATISFIED"
          /\ Control(p, "SATISFIED", 403).response = 403
      BY ZenonT(30) DEF Control, Scenario
    <3> QED BY <3>1, <3>2, Zenon
  <2>4. a = b /\ b.kind = "read" /\ b.arg = "B" /\ b.session = "a_fresh"
    <3>1. a = p[8] /\ p[8] = b
      BY <2>1, <2>3 DEF Extended
    <3>2. b.kind = "read" /\ b.arg = "B" /\ b.session = "a_fresh"
      BY ActionFields
    <3> QED BY <3>1, <3>2
  <2> QED BY <2>2, <2>3, <2>4, Tenants DEF ControlShape, Barred
<1>5. CASE s = Expired
  <2>1. s.mode = "vulnerable" /\ s.outcome = "SATISFIED" /\ s.response = 403
    BY <1>5, ControlFields DEF Expired
  <2> PICK p : p = s.plan
    OBVIOUS
  <2>2. WellFormed(p) /\ Len(p) = 8 /\ p[7].arg = 181 /\ p[8] = Read("a_old", "B")
    BY <1>5, ExpiredPlan
  <2>3. a = p[8] /\ a.kind = "read" /\ a.arg = "B" /\ a.session = "a_old"
    BY <2>2, ActionFields
  <2>4. p[Len(p) - 1].arg = 181
    BY <2>2
  <2> QED BY <2>1, <2>2, <2>3, <2>4, Tenants DEF ControlShape, Barred
<1>6. ASSUME NEW q \in {1, 2, 4, 6, 7}, s = Without(q) PROVE ControlShape(s)
  <2> PICK p : p = RemoveAt(Chain, q)
    OBVIOUS
  <2>1. /\ WellFormed(p) /\ Len(p) = 7 /\ Lacks(p, Chain[q].kind)
        /\ p[7] = Read("a_old", "B")
    BY WithoutWellFormed
  <2>2. s.mode = "vulnerable" /\ s.plan = p /\ s.outcome = "SATISFIED" /\ s.response = 403
    BY <1>6, ControlFields DEF Without
  <2>3. a = p[7] /\ a.kind = "read" /\ a.arg = "B" /\ a.session = "a_old"
    <3>1. a = p[7]
      BY <2>1, <2>2
    <3> QED BY <2>1, <3>1, ActionFields
  <2>4. Chain[q].kind \in {"retain", "prime", "defer", "claim", "advance"}
    <3>1. Extended(Chain, Read("a_old", "B"))
      BY ExtendedSetup DEF Chain
    <3> QED BY <3>1, ExtendedKinds
  <2>5. Barred(p)
    BY <2>1, <2>4 DEF Barred
  <2> QED BY <2>1, <2>2, <2>3, <2>5, Tenants DEF ControlShape
<1> QED BY <1>1, <1>2, <1>3, <1>4, <1>5, <1>6 DEF IsControl

\* The plan of every scenario is one.
LEMMA PlansAreWellFormed ==
  ASSUME NEW c \in Campaigns, NEW n \in DOMAIN Scenarios(c)
  PROVE  /\ WellFormed(Scenarios(c)[n].plan)
         /\ n <= PatchedRun =>
              /\ Scenarios(c)[n].plan = Chain /\ Scenarios(c)[n].outcome = "VIOLATED"
              /\ Scenarios(c)[n].response = 200
              /\ Scenarios(c)[n].mode = (IF n < PatchedRun THEN "vulnerable" ELSE "patched")
         /\ n > PatchedRun => ControlShape(Scenarios(c)[n])
<1> PICK s : s = Scenarios(c)[n]
  OBVIOUS
<1>1. VulnerableRuns = 5 /\ PatchedRun = 6 /\ n \in Int
  BY ScenariosAre DEF VulnerableRuns, PatchedRun
<1>2. CASE n > PatchedRun
  <2>1. ControlShape(s)
    BY <1>2, ScenariosAre, ControlOK
  <2> QED BY <1>1, <1>2, <2>1 DEF ControlShape
<1>3. CASE n <= PatchedRun
  <2>1. s = IF n < PatchedRun THEN Vulnerable ELSE Patched
    BY <1>1, <1>3, ScenariosAre
  <2>2. /\ s.plan = Chain /\ s.outcome = "VIOLATED" /\ s.response = 200
        /\ s.mode = (IF n < PatchedRun THEN "vulnerable" ELSE "patched")
    BY <2>1 DEF Vulnerable, Patched, Scenario
  <2>3. WellFormed(Chain)
    <3>1. Extended(Chain, Read("a_old", "B"))
      BY ExtendedSetup DEF Chain
    <3> QED BY <3>1, ExtendedWellFormed DEF Sessions
  <2> QED BY <1>1, <1>3, <2>2, <2>3
<1> QED BY <1>1, <1>2, <1>3

\* The writes among the first k actions of a plan.
WritesAmong(plan, k) == {j \in 1..k : IsWrite(plan[j])}

\* They are counted one by one (Slot).
LEMMA CountWrites ==
  ASSUME NEW plan, NEW k \in Nat
  PROVE  /\ Cardinality(WritesAmong(plan, k)) \in Nat
         /\ Cardinality(WritesAmong(plan, k)) <= k
         /\ Cardinality(WritesAmong(plan, k + 1)) =
              Cardinality(WritesAmong(plan, k)) + (IF IsWrite(plan[k + 1]) THEN 1 ELSE 0)
<1> DEFINE W == WritesAmong(plan, k)
           V == WritesAmong(plan, k + 1)
<1>1. IsFiniteSet(1..k) /\ Cardinality(1..k) = k
  <2>1. 1 \in Int /\ k \in Int /\ k - 1 + 1 = k
    OBVIOUS
  <2> QED BY <2>1, FS_Interval
<1>2. W \subseteq 1..k
  BY DEF WritesAmong
<1>3. IsFiniteSet(W) /\ Cardinality(W) <= k
  BY <1>1, <1>2, FS_Subset
<1>4. Cardinality(W) \in Nat
  BY <1>3, FS_CardinalityType
<1>5. V = IF IsWrite(plan[k + 1]) THEN W \cup {k + 1} ELSE W
  BY DEF WritesAmong
<1>6. k + 1 \notin W
  BY <1>2
<1> HIDE DEF W, V
<1>7. Cardinality(W \cup {k + 1}) = Cardinality(W) + 1
  BY <1>3, <1>6, FS_AddElement
<1>8. Cardinality(V) = Cardinality(W) + (IF IsWrite(plan[k + 1]) THEN 1 ELSE 0)
  <2>1. CASE IsWrite(plan[k + 1])
    BY <2>1, <1>5, <1>7
  <2>2. CASE ~IsWrite(plan[k + 1])
    <3>1. V = W
      BY <2>2, <1>5
    <3> QED BY <2>2, <3>1, <1>4
  <2> QED BY <2>1, <2>2
<1> QED BY <1>3, <1>4, <1>8 DEF W, V

\* The budget snapshot moves on with every action (PolicyBudgetSnapshot).
LEMMA NextSlot ==
  ASSUME NEW plan, NEW i \in Nat \ {0}
  PROVE  /\ Slot(plan, i).requests = i - 1
         /\ Slot(plan, i).writes = Cardinality(WritesAmong(plan, i - 1))
         /\ Slot(plan, i + 1) =
              [requests |-> Slot(plan, i).requests + 1,
               writes |-> Slot(plan, i).writes + (IF IsWrite(plan[i]) THEN 1 ELSE 0)]
<1>1. i - 1 \in Nat /\ i - 1 + 1 = i /\ i + 1 - 1 = i
  OBVIOUS
<1>2. Slot(plan, i) = [requests |-> i - 1, writes |-> Cardinality(WritesAmong(plan, i - 1))]
  BY DEF Slot, WritesAmong
<1>3. Slot(plan, i + 1) = [requests |-> i, writes |-> Cardinality(WritesAmong(plan, i))]
  BY <1>1 DEF Slot, WritesAmong
<1>4. Cardinality(WritesAmong(plan, i)) =
        Cardinality(WritesAmong(plan, i - 1)) + (IF IsWrite(plan[i]) THEN 1 ELSE 0)
  BY <1>1, CountWrites
<1> QED BY <1>1, <1>2, <1>3, <1>4

\* No plan has used anything before its first action.
LEMMA FirstSlot == ASSUME NEW plan PROVE Slot(plan, 1) = NoSlot
<1>1. WritesAmong(plan, 1 - 1) = {}
  BY DEF WritesAmong
<1>2. Cardinality({}) = 0
  BY FS_EmptySet
<1>3. Slot(plan, 1) = [requests |-> 1 - 1, writes |-> Cardinality(WritesAmong(plan, 1 - 1))]
  BY Zenon DEF Slot, WritesAmong
<1> QED BY <1>1, <1>2, <1>3 DEF NoSlot

\* The policy allows every action of every plan, in the slot that is its own
\* (_authorize_existing_plan, require_allows).
LEMMA PlanAllowed ==
  ASSUME NEW c, NEW plan, WellFormed(plan), NEW i \in DOMAIN plan
  PROVE  /\ Authorization(c, plan, i).decision = "ALLOW"
         /\ RequireAllows(Authorization(c, plan, i), Envelope(plan, i), EvaluatedAt,
                          Slot(plan, i))
<1> DEFINE scope == Scope(c)
           e == Envelope(plan, i)
           slot == Slot(plan, i)
           auth == Authorization(c, plan, i)
<1>1. i \in 1..8 /\ plan[i].session \in Sessions
  BY ListedIsFunction DEF WellFormed
<1>2. slot.requests = i - 1 /\ slot.writes \in Nat /\ slot.writes <= i - 1
  <2>1. i - 1 \in Nat
    BY <1>1
  <2>2. i \in Nat \ {0}
    BY <1>1
  <2>3. /\ slot.requests = i - 1
        /\ slot.writes = Cardinality(WritesAmong(plan, i - 1))
    BY <2>2, NextSlot
  <2>4. /\ Cardinality(WritesAmong(plan, i - 1)) \in Nat
        /\ Cardinality(WritesAmong(plan, i - 1)) <= i - 1
    BY <2>1, CountWrites
  <2> QED BY <2>3, <2>4, Zenon
<1>3. /\ scope.allow = {"http.request"} /\ scope.approve = {} /\ scope.deny = {}
      /\ scope.include = {"lab"} /\ scope.exclude = {} /\ scope.identities = Sessions
      /\ scope.perWindow = 100 /\ scope.maxWrites >= 8
      /\ scope.notBefore = 2020 /\ scope.expiresAt = 2100
  BY DEF Scope
<1>4. /\ e.scopeAction = "http.request" /\ e.approved = FALSE
      /\ e.identity = plan[i].session /\ e.target = "lab"
      /\ \/ e.risk = "PASSIVE" /\ ~e.write
         \/ e.risk = "REVERSIBLE_STATE_CHANGE"
  <2>1. CASE IsWrite(plan[i])
    BY <2>1 DEF Envelope
  <2>2. CASE ~IsWrite(plan[i])
    BY <2>2 DEF Envelope
  <2> QED BY <2>1, <2>2
<1> HIDE DEF scope, e, slot
<1>5. Requirement(scope, e.scopeAction) = "allowed"
  BY <1>3, <1>4 DEF Requirement
<1>6. BudgetCodes(scope, e, slot) = {}
  <2>1. ~(slot.requests + 1 > scope.perWindow) /\ ~(slot.writes + 1 > scope.maxWrites)
    <3>1. slot.requests + 1 <= 100 /\ slot.writes + 1 <= 8
      BY <1>1, <1>2
    <3>2. scope.maxWrites \in {8, 32}
      BY DEF scope, Scope
    <3>p. PICK r, w, m : r = slot.requests /\ w = slot.writes /\ m = scope.maxWrites
      OBVIOUS
    <3>3. r + 1 <= 100 /\ w + 1 <= 8 /\ m \in {8, 32} /\ r \in Int /\ w \in Int
      BY <1>1, <1>2, <3>1, <3>2, <3>p
    <3>4. ~(r + 1 > 100) /\ ~(w + 1 > m)
      BY <3>3
    <3>5. scope.perWindow = 100
      BY <1>3
    <3> QED BY <3>4, <3>5, <3>p
  <2> QED BY <2>1 DEF BudgetCodes, When
<1>7. ~(RiskRank[e.risk] < (IF e.write THEN 2 ELSE 0))
  <2>1. RiskRank["PASSIVE"] = 0 /\ RiskRank["REVERSIBLE_STATE_CHANGE"] = 2
    BY DEF RiskRank
  <2> QED BY <1>4, <2>1
<1>8. ReasonCodes(scope, e, slot, EvaluatedAt) = {}
  <2>1. EvaluatedAt = 2026
    BY DEF EvaluatedAt
  <2>2. /\ ~(EvaluatedAt < scope.notBefore) /\ ~(EvaluatedAt > scope.expiresAt)
        /\ e.identity \in scope.identities /\ e.target \notin scope.exclude
        /\ e.target \in scope.include \cup scope.exclude
        /\ e.risk # "ELEVATED_REVERSIBLE"
    BY <1>1, <1>3, <1>4, <2>1
  <2> QED BY <1>5, <1>6, <1>7, <2>2 DEF ReasonCodes, When
<1>9. Decision(scope, e, slot, EvaluatedAt) = "ALLOW"
  BY <1>8 DEF Decision
<1>10. /\ auth.decision = "ALLOW" /\ auth.envelope = e /\ auth.evaluatedAt = EvaluatedAt
       /\ auth.notBefore = scope.notBefore /\ auth.expiresAt = scope.expiresAt
       /\ auth.slot = slot
  <2>1. auth = Bind(scope, e, slot, EvaluatedAt)
    BY Zenon DEF auth, Authorization, scope, e, slot
  <2> HIDE DEF auth
  <2> QED BY <1>9, <2>1 DEF Bind
<1>11. /\ EvaluatedAt <= EvaluatedAt /\ scope.notBefore <= EvaluatedAt
       /\ EvaluatedAt <= scope.expiresAt
  BY <1>3 DEF EvaluatedAt
<1>12. RequireAllows(auth, e, EvaluatedAt, slot)
  BY <1>10, <1>11 DEF RequireAllows
<1> QED BY <1>10, <1>12 DEF e, slot, auth

-------------------------------------------------------------------------------
(* Lemmas about the lab a plan is replayed on. *)

\* r is a lab that differs from l in these fields at most.
Differs(r, l, fields) ==
  /\ DOMAIN r = LabFields /\ r = [f \in LabFields |-> r[f]]
  /\ \A f \in LabFields \ fields : r[f] = l[f]

\* What differs twice, differs in the fields of both.
LEMMA DiffersTwice ==
  ASSUME NEW a, NEW b, NEW c, NEW F, NEW G, Differs(b, a, F), Differs(c, b, G)
  PROVE  Differs(c, a, F \cup G)
BY Zenon DEF Differs

\* _record.
LEMMA RecordDiffers ==
  ASSUME NEW l, DOMAIN l = LabFields, NEW outcome
  PROVE  /\ Differs(Record(l, outcome), l, {"sequence", "outcomes"})
         /\ Record(l, outcome).sequence = l.sequence + 1
         /\ Record(l, outcome).outcomes = l.outcomes \cup {outcome}
<1> PICK r : r = Record(l, outcome)
  OBVIOUS
<1>1. r = [[l EXCEPT !.sequence = l.sequence + 1] EXCEPT !.outcomes = l.outcomes \cup {outcome}]
  BY DEF Record, LabFields
<1> DEFINE o == l.outcomes \cup {outcome}
           q == l.sequence + 1
<1> HIDE DEF o, q
<1>2. r = [[l EXCEPT !.sequence = q] EXCEPT !.outcomes = o]
  BY <1>1, Zenon DEF o, q
<1>3. DOMAIN r = LabFields /\ r = [f \in LabFields |-> r[f]]
  BY <1>2
<1>4. \A f \in LabFields \ {"sequence", "outcomes"} : r[f] = l[f]
  BY <1>2
<1>5. r.sequence = q /\ r.outcomes = o
  BY <1>2 DEF LabFields
<1> QED BY <1>3, <1>4, <1>5 DEF Differs, q, o

\* Two labs that are the same in every field.
LEMMA SameLab ==
  ASSUME NEW x, NEW y, x = [f \in LabFields |-> x[f]], y = [f \in LabFields |-> y[f]],
         \A f \in LabFields : x[f] = y[f]
  PROVE  x = y
BY Zenon

\* The queue is looked at.
LEMMA ProcessedDiffers ==
  ASSUME NEW l, DOMAIN l = LabFields, l = [f \in LabFields |-> l[f]]
  PROVE  /\ Differs(ProcessDueJobs(l), l, {"job", "cache"})
         /\ \/ ProcessDueJobs(l) = l
            \/ /\ l.job # Nothing /\ ProcessDueJobs(l).cache = Nothing
               /\ ProcessDueJobs(l).job = [l.job EXCEPT !.status = "completed"]
<1> PICK r : r = ProcessDueJobs(l)
  OBVIOUS
<1>1. CASE r = l
  BY <1>1 DEF Differs
<1>2. CASE r # l
  <2> DEFINE j == [l.job EXCEPT !.status = "completed"]
  <2>1. l.job # Nothing /\ r = [[l EXCEPT !.job = j] EXCEPT !.cache = Nothing]
    BY <1>2 DEF ProcessDueJobs
  <2> HIDE DEF j
  <2>2. DOMAIN r = LabFields /\ r = [f \in LabFields |-> r[f]]
    BY <2>1
  <2>3. \A f \in LabFields \ {"job", "cache"} : r[f] = l[f]
    BY <2>1
  <2>4. r.cache = Nothing /\ r.job = j
    BY <2>1 DEF LabFields
  <2> QED BY <2>1, <2>2, <2>3, <2>4 DEF Differs, j
<1> QED BY <1>1, <1>2

\* One field is written.
LEMMA OneField ==
  ASSUME NEW l, DOMAIN l = LabFields, NEW field \in LabFields, NEW v,
         NEW r, r = [l EXCEPT ![field] = v]
  PROVE  Differs(r, l, {field}) /\ r[field] = v
<1>1. DOMAIN r = LabFields /\ r = [f \in LabFields |-> r[f]]
  OBVIOUS
<1>2. \A f \in LabFields \ {field} : r[f] = l[f]
  OBVIOUS
<1>3. r[field] = v
  OBVIOUS
<1> QED BY <1>1, <1>2, <1>3 DEF Differs

\* r is the lab l once the queue has been looked at.
Processed(r, l) ==
  /\ DOMAIN r = LabFields /\ r = [f \in LabFields |-> r[f]]
  /\ r.mode = l.mode /\ r.now = l.now /\ r.policyGeneration = l.policyGeneration
  /\ r.role = l.role /\ r.expires = l.expires /\ r.retained = l.retained
  /\ r.published = l.published /\ r.claimedBy = l.claimedBy
  /\ r.downgradedAt = l.downgradedAt /\ r.sequence = l.sequence
  /\ r.outcomes = l.outcomes /\ r.disclosure = l.disclosure
  /\ \/ r.job = l.job /\ r.cache = l.cache
     \/ /\ l.job # Nothing /\ r.cache = Nothing
        /\ r.job = [l.job EXCEPT !.status = "completed"]

\* What the look at the queue leaves alone (_process_due_jobs).
LEMMA ProcessedKeeps ==
  ASSUME NEW l, DOMAIN l = LabFields, l = [f \in LabFields |-> l[f]]
  PROVE  Processed(ProcessDueJobs(l), l)
<1>r. PICK r : r = ProcessDueJobs(l)
  OBVIOUS
<1>1. Differs(r, l, {"job", "cache"})
  BY <1>r, ProcessedDiffers
<1>2. \A f \in LabFields \ {"job", "cache"} : r[f] = l[f]
  BY <1>1 DEF Differs
<1>3. DOMAIN r = LabFields /\ r = [f \in LabFields |-> r[f]]
  BY <1>1 DEF Differs
<1>4. \/ r.job = l.job /\ r.cache = l.cache
      \/ /\ l.job # Nothing /\ r.cache = Nothing
         /\ r.job = [l.job EXCEPT !.status = "completed"]
  BY <1>r, ProcessedDiffers
<1>5. /\ r.mode = l.mode /\ r.now = l.now /\ r.policyGeneration = l.policyGeneration
      /\ r.role = l.role /\ r.expires = l.expires /\ r.retained = l.retained
      /\ r.published = l.published /\ r.claimedBy = l.claimedBy
      /\ r.downgradedAt = l.downgradedAt /\ r.sequence = l.sequence
      /\ r.outcomes = l.outcomes /\ r.disclosure = l.disclosure
  BY <1>2 DEF LabFields
<1> QED BY <1>r, <1>3, <1>4, <1>5, Zenon DEF Processed

\* r is the lab l without its editor.
Downgraded(r, l) ==
  /\ Differs(r, l, {"policyGeneration", "role", "downgradedAt", "job", "expires", "cache"})
  /\ r.policyGeneration = 2 /\ r.role = "viewer" /\ r.downgradedAt = l.now
  /\ r.job = [due |-> l.now + 30, status |-> "pending", delayed |-> FALSE]
  /\ r.expires = [s \in Sessions |-> IF s = "a_fresh" THEN l.now + SessionLifetime
                                     ELSE l.expires[s]]
  /\ r.cache = IF l.mode = "patched" THEN Nothing ELSE l.cache

\* downgrade_role.
LEMMA DowngradeDiffers ==
  ASSUME NEW l, DOMAIN l = LabFields PROVE Downgraded(DowngradedLab(l), l)
<1>r. PICK r : r = DowngradedLab(l)
  OBVIOUS
<1> DEFINE j == [due |-> l.now + 30, status |-> "pending", delayed |-> FALSE]
           e == [s \in Sessions |-> IF s = "a_fresh" THEN l.now + SessionLifetime
                                    ELSE l.expires[s]]
           c == IF l.mode = "patched" THEN Nothing ELSE l.cache
           n == l.now
<1>1. r = [l EXCEPT !.policyGeneration = 2, !.role = "viewer", !.downgradedAt = n,
                    !.job = j, !.expires = e, !.cache = c]
  BY <1>r DEF DowngradedLab, LabFields
<1> HIDE DEF j, e, c, n
<1>2. DOMAIN r = LabFields /\ r = [f \in LabFields |-> r[f]]
  BY <1>1
<1>3. \A f \in LabFields \ {"policyGeneration", "role", "downgradedAt", "job", "expires",
                            "cache"} : r[f] = l[f]
  BY <1>1
<1>4. /\ r.policyGeneration = 2 /\ r.role = "viewer" /\ r.downgradedAt = n
      /\ r.job = j /\ r.expires = e /\ r.cache = c
  BY <1>1 DEF LabFields
<1>5. Differs(r, l, {"policyGeneration", "role", "downgradedAt", "job", "expires", "cache"})
  BY <1>2, <1>3, Zenon DEF Differs
<1> QED BY <1>r, <1>4, <1>5, Zenon DEF Downgraded, j, e, c, n

\* r is the lab l with its job deferred.
Deferred(r, l) ==
  /\ Differs(r, l, {"job"}) /\ DOMAIN r.job = JobFields
  /\ r.job = [due |-> l.downgradedAt + 240, status |-> l.job.status, delayed |-> TRUE]

\* delay_queue_job, once it has looked at the queue.
LEMMA DeferDiffers ==
  ASSUME NEW l, DOMAIN l = LabFields, DOMAIN l.job = JobFields
  PROVE  Deferred(DeferredLab(l), l)
<1>r. PICK r : r = DeferredLab(l)
  OBVIOUS
<1> DEFINE j == [due |-> l.downgradedAt + 240, status |-> l.job.status, delayed |-> TRUE]
<1>1. r = [l EXCEPT !.job = j]
  BY <1>r DEF DeferredLab, DeferredDue, LabFields
<1>2. DOMAIN j = JobFields
  BY DEF JobFields
<1> HIDE DEF j
<1>3. Differs(r, l, {"job"}) /\ r.job = j
  <2>1. "job" \in LabFields /\ r = [l EXCEPT !["job"] = j]
    BY <1>1 DEF LabFields
  <2> QED BY <2>1, OneField
<1> QED BY <1>r, <1>2, <1>3, Zenon DEF Deferred, j

\* What the handler of the action may leave of the lab when it records it.
Effect(l, a, r) ==
  \/ /\ a.kind = "retain"
     /\ r = Record([l EXCEPT !.retained = l.retained \cup {"a_old"}], "retained")
  \/ /\ a.kind = "prime"
     /\ r = Record([l EXCEPT !.cache = l.policyGeneration], "allowed_cached")
  \/ a.kind = "downgrade" /\ r = Record(DowngradedLab(l), "queued")
  \/ /\ a.kind = "defer" /\ l.job # Nothing
     /\ r = Record(DeferredLab(ProcessDueJobs(l)), "delayed")
  \/ a.kind = "publish" /\ r = Record([l EXCEPT !.published = TRUE], "published")
  \/ a.kind = "claim" /\ r = Record([l EXCEPT !.claimedBy = a.session], "obtained")
  \/ /\ a.kind = "advance"
     /\ r = Record(ProcessDueJobs([l EXCEPT !.now = l.now + a.arg]), "advanced")
  \/ /\ a.kind \in {"masked", "mock"} /\ r = Record(l, "decoy")
  \/ /\ a.kind = "read" /\ a.arg = Tenant(a.session)
     /\ r = Record(ProcessDueJobs(l), "same_tenant_allowed")
  \/ /\ a.kind = "read" /\ a.arg # Tenant(a.session)
     /\ ~(/\ l.mode = "vulnerable" /\ a.session = "a_old"
          /\ ChainComplete(ProcessDueJobs(l)))
     /\ r = Record(ProcessDueJobs(l), "blocked")
  \/ /\ a.kind = "read" /\ a.arg # Tenant(a.session)
     /\ l.mode = "vulnerable" /\ a.session = "a_old" /\ ChainComplete(ProcessDueJobs(l))
     /\ r = [Record(ProcessDueJobs(l), "disclosed") EXCEPT !.disclosure = l.sequence + 1]

\* A request is answered so by the route that its action leads to.
LEMMA HandledEffect ==
  ASSUME DOMAIN lab = LabFields, lab = [f \in LabFields |-> lab[f]],
         lab.sequence \in Nat, request[Worker] = Step.session, Handled,
         lab'.sequence = lab.sequence + 1
  PROVE  Effect(lab, Step, lab') /\ request' = [request EXCEPT ![Worker] = Nothing]
<1> PICK a : a = Step
  OBVIOUS
<1>0. request[Worker] = a.session
  OBVIOUS
<1>1. CASE a.kind = "retain"
  <2>1. RetainOldSession(Worker)
    BY <1>1 DEF Handled
  <2>2. [lab EXCEPT !.retained = @ \cup {"a_old"}] =
          [lab EXCEPT !.retained = lab.retained \cup {"a_old"}]
    BY DEF LabFields
  <2> QED BY <1>1, <2>1, <2>2, Zenon DEF RetainOldSession, Answer, Effect
<1>2. CASE a.kind = "prime"
  <2>1. PrimeAuthorizationCache(Worker)
    BY <1>2 DEF Handled
  <2> QED BY <1>2, <2>1, Zenon DEF PrimeAuthorizationCache, Answer, Effect
<1>3. CASE a.kind = "downgrade"
  <2>1. DowngradeRole(Worker)
    BY <1>3 DEF Handled
  <2> QED BY <1>3, <2>1, Zenon DEF DowngradeRole, Answer, Effect
<1>4. CASE a.kind = "defer"
  <2>1. DelayQueueJob(Worker)
    BY <1>4 DEF Handled
  <2>2. ProcessDueJobs(lab).sequence = lab.sequence
    BY ProcessedKeeps, Zenon DEF Processed
  <2>3. lab' # ProcessDueJobs(lab)
    BY <2>2
  <2>4. /\ lab.job # Nothing /\ lab' = Record(DeferredLab(ProcessDueJobs(lab)), "delayed")
        /\ request' = [request EXCEPT ![Worker] = Nothing]
    BY <2>1, <2>3, Zenon DEF DelayQueueJob, Answer
  <2> QED BY <1>4, <2>4 DEF Effect
<1>5. CASE a.kind = "publish"
  <2>1. PublishReference(Worker)
    BY <1>5 DEF Handled
  <2> QED BY <1>5, <2>1, Zenon DEF PublishReference, Answer, Effect
<1>6. CASE a.kind = "claim"
  <2>1. ClaimReference(Worker)
    BY <1>6 DEF Handled
  <2> QED BY <1>0, <1>6, <2>1, Zenon DEF ClaimReference, Answer, Effect
<1>7. CASE a.kind = "advance"
  <2>1. AdvanceClock(Worker, a.arg)
    BY <1>7 DEF Handled
  <2>2. [lab EXCEPT !.now = @ + a.arg] = [lab EXCEPT !.now = lab.now + a.arg]
    BY DEF LabFields
  <2> QED BY <1>7, <2>1, <2>2, Zenon DEF AdvanceClock, Advanced, Answer, Effect
<1>8. CASE a.kind \in {"masked", "mock"}
  <2>1. Decoy(Worker)
    BY <1>8 DEF Handled
  <2> QED BY <1>8, <2>1 DEF Decoy, Answer, Effect
<1>9. CASE a.kind = "read"
  <2>1. ReadDocument(Worker, a.arg)
    BY <1>9 DEF Handled
  <2>2. /\ ProcessDueJobs(lab).sequence = lab.sequence
        /\ ProcessDueJobs(lab).mode = lab.mode
    BY ProcessedKeeps, Zenon DEF Processed
  <2> DEFINE m == ProcessDueJobs(lab)
             d == lab.mode = "vulnerable" /\ a.session = "a_old" /\ ChainComplete(m)
  <2>3. /\ request' = [request EXCEPT ![Worker] = Nothing]
        /\ \/ a.arg = Tenant(a.session) /\ lab' = Record(m, "same_tenant_allowed")
           \/ /\ a.arg # Tenant(a.session) /\ d
              /\ lab' = [Record(m, "disclosed") EXCEPT !.disclosure = lab.sequence + 1]
           \/ a.arg # Tenant(a.session) /\ ~d /\ lab' = Record(m, "blocked")
    BY <1>0, <2>1, <2>2, Zenon DEF ReadDocument, Answer
  <2> HIDE DEF m
  <2> QED BY <1>9, <2>3, Zenon DEF Effect, m
<1>10. \/ a.kind \in {"retain", "prime", "downgrade", "defer", "publish", "claim"}
       \/ a.kind \in {"advance", "read", "masked", "mock"}
  BY DEF Handled
<1> QED BY <1>1, <1>2, <1>3, <1>4, <1>5, <1>6, <1>7, <1>8, <1>9, <1>10

\* r is the lab l with one piece of evidence more, and in all else the same.
Grew(r, l, outcome) ==
  /\ IsLab(r)
  /\ r.mode = l.mode /\ r.now = l.now /\ r.policyGeneration = l.policyGeneration
  /\ r.role = l.role /\ r.expires = l.expires /\ r.retained = l.retained
  /\ r.cache = l.cache /\ r.job = l.job
  /\ r.published = l.published /\ r.claimedBy = l.claimedBy
  /\ r.downgradedAt = l.downgradedAt /\ r.disclosure = l.disclosure
  /\ r.sequence = l.sequence + 1 /\ r.outcomes = l.outcomes \cup {outcome}

\* What a record leaves alone (_record).
LEMMA RecordKeeps ==
  ASSUME NEW l, DOMAIN l = LabFields, NEW outcome PROVE Grew(Record(l, outcome), l, outcome)
<1>r. PICK r : r = Record(l, outcome)
  OBVIOUS
<1>1. Differs(r, l, {"sequence", "outcomes"})
  BY <1>r, RecordDiffers
<1>2. \A f \in LabFields \ {"sequence", "outcomes"} : r[f] = l[f]
  BY <1>1 DEF Differs
<1>3. DOMAIN r = LabFields /\ r = [f \in LabFields |-> r[f]]
  BY <1>1 DEF Differs
<1>4. r.sequence = l.sequence + 1 /\ r.outcomes = l.outcomes \cup {outcome}
  BY <1>r, RecordDiffers
<1>5. /\ r.mode = l.mode /\ r.now = l.now /\ r.policyGeneration = l.policyGeneration
      /\ r.role = l.role /\ r.expires = l.expires /\ r.retained = l.retained
      /\ r.cache = l.cache /\ r.job = l.job
      /\ r.published = l.published /\ r.claimedBy = l.claimedBy
      /\ r.downgradedAt = l.downgradedAt /\ r.disclosure = l.disclosure
  BY <1>2 DEF LabFields
<1> QED BY <1>r, <1>3, <1>4, <1>5, Zenon DEF Grew, IsLab

\* A clean lab (LabState.canonical).
LEMMA CanonicalFields ==
  ASSUME NEW mode, NEW l, l = Canonical(mode)
  PROVE  /\ IsLab(l) /\ l.mode = mode /\ l.now = 0 /\ l.policyGeneration = 1
         /\ l.role = "editor" /\ l.retained = {} /\ l.cache = Nothing
         /\ l.job = Nothing /\ ~l.published /\ l.claimedBy = Nothing
         /\ l.downgradedAt = Nothing /\ l.sequence = 0 /\ l.outcomes = {}
         /\ l.disclosure = Nothing
<1> DEFINE e == [s \in Sessions \ {"a_fresh"} |->
                   IF s = "admin" THEN 24 * SessionLifetime ELSE SessionLifetime]
<1>1. l = [mode |-> mode, now |-> 0, policyGeneration |-> 1, role |-> "editor",
           expires |-> e, retained |-> {}, cache |-> Nothing, job |-> Nothing,
           published |-> FALSE, claimedBy |-> Nothing, downgradedAt |-> Nothing,
           sequence |-> 0, outcomes |-> {}, disclosure |-> Nothing]
  BY DEF Canonical
<1> HIDE DEF e
<1>2. DOMAIN l = LabFields /\ l = [f \in LabFields |-> l[f]]
  BY <1>1 DEF LabFields
<1>3. /\ l.mode = mode /\ l.now = 0 /\ l.policyGeneration = 1
      /\ l.role = "editor" /\ l.retained = {} /\ l.cache = Nothing
      /\ l.job = Nothing /\ ~l.published /\ l.claimedBy = Nothing
      /\ l.downgradedAt = Nothing /\ l.sequence = 0 /\ l.outcomes = {}
      /\ l.disclosure = Nothing
  BY <1>1
<1> QED BY <1>2, <1>3, Zenon DEF IsLab

\* Every plan starts on a clean lab (create_root_seed).
LEMMA PlanLabStart ==
  ASSUME NEW plan, NEW mode PROVE PlanLab(plan, 0, Canonical(mode))
<1>l. PICK l : l = Canonical(mode)
  OBVIOUS
<1>1. /\ IsLab(l) /\ l.sequence = 0 /\ l.disclosure = Nothing /\ l.retained = {}
      /\ l.cache = Nothing /\ l.job = Nothing /\ l.claimedBy = Nothing
      /\ l.downgradedAt = Nothing /\ l.now = 0
  BY <1>l, CanonicalFields, Zenon
<1>2. PlanLab(plan, 0, l)
  BY <1>1 DEF PlanLab
<1> QED BY <1>l, <1>2

\* No action but the last takes a plan away from what PlanLab says.
LEMMA PlanStep ==
  ASSUME NEW plan, WellFormed(plan), NEW k \in Nat, k + 1 < Len(plan),
         NEW l, PlanLab(plan, k, l), NEW a, a = plan[k + 1], NEW r, Effect(l, a, r)
  PROVE  PlanLab(plan, k + 1, r)
<1>1. /\ k + 1 \in DOMAIN plan /\ DOMAIN plan = 1..Len(plan) /\ Len(plan) \in 1..8
  <2>1. Len(plan) \in 1..8 /\ DOMAIN plan = 1..Len(plan)
    BY ListedIsFunction DEF WellFormed
  <2>2. k + 1 \in 1..Len(plan)
    BY <2>1
  <2> QED BY <2>1, <2>2
<1>2. /\ a.kind \notin {"read", "masked", "mock"}
      /\ a.kind = "advance" => k + 1 = Len(plan) - 1 /\ a.arg \in Nat
      /\ ~Lacks(plan, a.kind)
  BY <1>1 DEF WellFormed, Lacks
<1>3. /\ IsLab(l) /\ l.sequence = k /\ l.disclosure = Nothing /\ l.now = 0
      /\ "a_old" \in l.retained => ~Lacks(plan, "retain")
      /\ l.cache # Nothing => ~Lacks(plan, "prime")
      /\ l.job # Nothing =>
           DOMAIN l.job = JobFields /\ (l.job.delayed => ~Lacks(plan, "defer"))
      /\ l.claimedBy # Nothing => ~Lacks(plan, "claim")
      /\ l.downgradedAt \in {Nothing, 0}
  <2>1. ~(k >= Len(plan) - 1)
    BY <1>1
  <2> QED BY <2>1 DEF PlanLab
<1>4. DOMAIN l = LabFields /\ l = [f \in LabFields |-> l[f]]
  BY <1>3 DEF IsLab
<1>5. CASE a.kind = "retain"
  <2>x. PICK x : x = [l EXCEPT !.retained = l.retained \cup {"a_old"}]
    OBVIOUS
  <2>1. /\ DOMAIN x = LabFields /\ x.sequence = k /\ x.disclosure = Nothing /\ x.now = 0
        /\ x.cache = l.cache /\ x.job = l.job
        /\ x.claimedBy = l.claimedBy /\ x.downgradedAt = l.downgradedAt
    BY <1>3, <1>4, <2>x DEF LabFields
  <2>2. r = Record(x, "retained")
    BY <2>x, <1>5 DEF Effect
  <2>3. /\ IsLab(r) /\ r.sequence = k + 1 /\ r.disclosure = Nothing /\ r.now = 0
        /\ r.cache = l.cache /\ r.job = l.job
        /\ r.claimedBy = l.claimedBy /\ r.downgradedAt = l.downgradedAt
    <3>1. Grew(r, x, "retained")
      BY <2>1, <2>2, RecordKeeps, Zenon
    <3> QED BY <2>1, <2>2, <3>1 DEF Grew
  <2> QED BY <1>2, <1>3, <1>5, <2>3 DEF PlanLab
<1>6. CASE a.kind = "prime"
  <2>x. PICK x : x = [l EXCEPT !.cache = l.policyGeneration]
    OBVIOUS
  <2>1. /\ DOMAIN x = LabFields /\ x.sequence = k /\ x.disclosure = Nothing /\ x.now = 0
        /\ x.retained = l.retained /\ x.job = l.job
        /\ x.claimedBy = l.claimedBy /\ x.downgradedAt = l.downgradedAt
    BY <1>3, <1>4, <2>x DEF LabFields
  <2>2. r = Record(x, "allowed_cached")
    BY <2>x, <1>6 DEF Effect
  <2>3. /\ IsLab(r) /\ r.sequence = k + 1 /\ r.disclosure = Nothing /\ r.now = 0
        /\ r.retained = l.retained /\ r.job = l.job
        /\ r.claimedBy = l.claimedBy /\ r.downgradedAt = l.downgradedAt
    <3>1. Grew(r, x, "allowed_cached")
      BY <2>1, <2>2, RecordKeeps, Zenon
    <3> QED BY <2>1, <2>2, <3>1 DEF Grew
  <2> QED BY <1>2, <1>3, <1>6, <2>3 DEF PlanLab
<1>7. CASE a.kind = "downgrade"
  <2>x. PICK x : x = DowngradedLab(l)
    OBVIOUS
  <2>1. /\ DOMAIN x = LabFields
        /\ \A f \in LabFields \ {"policyGeneration", "role", "downgradedAt", "job",
                                 "expires", "cache"} : x[f] = l[f]
    <3>1. Downgraded(x, l)
      BY <1>4, <2>x, DowngradeDiffers, Zenon
    <3> QED BY <3>1, Zenon DEF Downgraded, Differs
  <2>2. /\ x.downgradedAt = l.now
        /\ x.job = [due |-> l.now + 30, status |-> "pending", delayed |-> FALSE]
        /\ x.cache = IF l.mode = "patched" THEN Nothing ELSE l.cache
    <3>1. Downgraded(x, l)
      BY <1>4, <2>x, DowngradeDiffers, Zenon
    <3> QED BY <3>1, Zenon DEF Downgraded
  <2>3. /\ x.sequence = k /\ x.disclosure = Nothing /\ x.now = 0
        /\ x.retained = l.retained /\ x.claimedBy = l.claimedBy
    BY <1>3, <2>1 DEF LabFields
  <2>4. DOMAIN x.job = JobFields /\ ~x.job.delayed
    BY <2>2 DEF JobFields
  <2>5. r = Record(x, "queued")
    BY <2>x, <1>7 DEF Effect
  <2>6. /\ IsLab(r) /\ r.sequence = k + 1 /\ r.disclosure = Nothing /\ r.now = 0
        /\ r.retained = l.retained /\ r.claimedBy = l.claimedBy
        /\ r.downgradedAt = 0 /\ r.job = x.job /\ r.cache = x.cache
    <3>1. Grew(r, x, "queued")
      BY <1>3, <2>1, <2>2, <2>3, <2>5, RecordKeeps, Zenon
    <3> QED BY <1>3, <2>1, <2>2, <2>3, <2>5, <3>1 DEF Grew
  <2>7. r.cache # Nothing => l.cache # Nothing
    BY <2>2, <2>6
  <2> QED BY <1>2, <1>3, <2>4, <2>6, <2>7 DEF PlanLab
<1>8. CASE a.kind = "defer"
  <2>m. PICK m : m = ProcessDueJobs(l)
    OBVIOUS
  <2>x. PICK x : x = DeferredLab(m)
    OBVIOUS
  <2>1. l.job # Nothing /\ r = Record(x, "delayed")
    BY <1>8, <2>m, <2>x DEF Effect
  <2>2. /\ DOMAIN m = LabFields /\ m.sequence = k /\ m.disclosure = Nothing /\ m.now = 0
        /\ m.retained = l.retained /\ m.claimedBy = l.claimedBy
        /\ m.downgradedAt = l.downgradedAt
    <3>1. Processed(m, l)
      BY <1>4, <2>m, ProcessedKeeps, Zenon
    <3> QED BY <1>3, <3>1, Zenon DEF Processed
  <2>3. \/ m.job = l.job /\ m.cache = l.cache
        \/ m.cache = Nothing /\ m.job = [l.job EXCEPT !.status = "completed"]
    <3>1. Processed(m, l)
      BY <1>4, <2>m, ProcessedKeeps, Zenon
    <3> QED BY <3>1, Zenon DEF Processed
  <2>4. DOMAIN m.job = JobFields
    BY <1>3, <2>1, <2>3
  <2>5. DOMAIN x = LabFields /\ \A f \in LabFields \ {"job"} : x[f] = m[f]
    <3>1. Deferred(x, m)
      BY <2>2, <2>4, <2>x, DeferDiffers, Zenon
    <3> QED BY <3>1, Zenon DEF Deferred, Differs
  <2>6. DOMAIN x.job = JobFields
    <3>1. Deferred(x, m)
      BY <2>2, <2>4, <2>x, DeferDiffers, Zenon
    <3> QED BY <3>1, Zenon DEF Deferred
  <2>7. /\ x.sequence = k /\ x.disclosure = Nothing /\ x.now = 0
        /\ x.retained = l.retained /\ x.claimedBy = l.claimedBy
        /\ x.downgradedAt = l.downgradedAt /\ x.cache = m.cache
    BY <2>2, <2>5 DEF LabFields
  <2>8. /\ IsLab(r) /\ r.sequence = k + 1 /\ r.disclosure = Nothing /\ r.now = 0
        /\ r.retained = l.retained /\ r.claimedBy = l.claimedBy
        /\ r.downgradedAt = l.downgradedAt /\ r.job = x.job /\ r.cache = m.cache
    <3>1. Grew(r, x, "delayed")
      BY <2>1, <2>5, <2>7, RecordKeeps, Zenon
    <3> QED BY <2>1, <2>5, <2>7, <3>1 DEF Grew
  <2>9. r.cache # Nothing => l.cache # Nothing
    BY <2>3, <2>8
  <2> QED BY <1>2, <1>3, <1>8, <2>6, <2>8, <2>9 DEF PlanLab
<1>9. CASE a.kind = "publish"
  <2>x. PICK x : x = [l EXCEPT !.published = TRUE]
    OBVIOUS
  <2>1. /\ DOMAIN x = LabFields /\ x.sequence = k /\ x.disclosure = Nothing /\ x.now = 0
        /\ x.retained = l.retained /\ x.job = l.job /\ x.cache = l.cache
        /\ x.claimedBy = l.claimedBy /\ x.downgradedAt = l.downgradedAt
    BY <1>3, <1>4, <2>x DEF LabFields
  <2>2. r = Record(x, "published")
    BY <2>x, <1>9 DEF Effect
  <2>3. /\ IsLab(r) /\ r.sequence = k + 1 /\ r.disclosure = Nothing /\ r.now = 0
        /\ r.retained = l.retained /\ r.job = l.job /\ r.cache = l.cache
        /\ r.claimedBy = l.claimedBy /\ r.downgradedAt = l.downgradedAt
    <3>1. Grew(r, x, "published")
      BY <2>1, <2>2, RecordKeeps, Zenon
    <3> QED BY <2>1, <2>2, <3>1 DEF Grew
  <2> QED BY <1>2, <1>3, <1>9, <2>3 DEF PlanLab
<1>10. CASE a.kind = "claim"
  <2>x. PICK x : x = [l EXCEPT !.claimedBy = a.session]
    OBVIOUS
  <2>1. /\ DOMAIN x = LabFields /\ x.sequence = k /\ x.disclosure = Nothing /\ x.now = 0
        /\ x.retained = l.retained /\ x.job = l.job /\ x.cache = l.cache
        /\ x.downgradedAt = l.downgradedAt
    BY <1>3, <1>4, <2>x DEF LabFields
  <2>2. r = Record(x, "obtained")
    BY <2>x, <1>10 DEF Effect
  <2>3. /\ IsLab(r) /\ r.sequence = k + 1 /\ r.disclosure = Nothing /\ r.now = 0
        /\ r.retained = l.retained /\ r.job = l.job /\ r.cache = l.cache
        /\ r.downgradedAt = l.downgradedAt
    <3>1. Grew(r, x, "obtained")
      BY <2>1, <2>2, RecordKeeps, Zenon
    <3> QED BY <2>1, <2>2, <3>1 DEF Grew
  <2> QED BY <1>2, <1>3, <1>10, <2>3 DEF PlanLab
<1>11. CASE a.kind = "advance"
  <2>y. PICK y : y = [l EXCEPT !.now = l.now + a.arg]
    OBVIOUS
  <2>m. PICK m : m = ProcessDueJobs(y)
    OBVIOUS
  <2>1. r = Record(m, "advanced")
    BY <1>11, <2>m, <2>y DEF Effect
  <2>2. /\ DOMAIN y = LabFields /\ y = [f \in LabFields |-> y[f]]
        /\ y.sequence = k /\ y.disclosure = Nothing /\ y.now = l.now + a.arg
        /\ y.retained = l.retained /\ y.claimedBy = l.claimedBy
        /\ y.downgradedAt = l.downgradedAt /\ y.job = l.job /\ y.cache = l.cache
    BY <1>3, <1>4, <2>y DEF LabFields
  <2>3. y.now = a.arg
    BY <1>2, <1>3, <1>11, <2>2
  <2>4. /\ DOMAIN m = LabFields /\ m.sequence = k /\ m.disclosure = Nothing
        /\ m.now = a.arg /\ m.retained = l.retained /\ m.claimedBy = l.claimedBy
        /\ m.downgradedAt = l.downgradedAt
    <3>1. Processed(m, y)
      BY <2>2, <2>m, ProcessedKeeps, Zenon
    <3> QED BY <2>2, <2>3, <3>1, Zenon DEF Processed
  <2>5. \/ m.job = l.job /\ m.cache = l.cache
        \/ /\ l.job # Nothing /\ m.cache = Nothing
           /\ m.job = [l.job EXCEPT !.status = "completed"]
    <3>1. Processed(m, y)
      BY <2>2, <2>m, ProcessedKeeps, Zenon
    <3> QED BY <2>2, <3>1, Zenon DEF Processed
  <2>6. /\ m.cache # Nothing => l.cache # Nothing
        /\ m.job # Nothing => DOMAIN m.job = JobFields /\
                              (m.job.delayed => ~Lacks(plan, "defer"))
    BY <1>3, <2>5 DEF JobFields
  <2>7. /\ IsLab(r) /\ r.sequence = k + 1 /\ r.disclosure = Nothing /\ r.now = a.arg
        /\ r.retained = l.retained /\ r.claimedBy = l.claimedBy
        /\ r.downgradedAt = l.downgradedAt /\ r.job = m.job /\ r.cache = m.cache
    <3>1. Grew(r, m, "advanced")
      BY <2>1, <2>4, RecordKeeps, Zenon
    <3> QED BY <2>1, <2>4, <3>1 DEF Grew
  <2>8. /\ Len(plan) > 1 /\ k + 1 >= Len(plan) - 1 /\ plan[Len(plan) - 1].kind = "advance"
        /\ r.now = plan[Len(plan) - 1].arg
    BY <1>1, <1>2, <1>11, <2>7
  <2> QED BY <1>3, <2>6, <2>7, <2>8 DEF PlanLab
<1> QED BY <1>2, <1>5, <1>6, <1>7, <1>8, <1>9, <1>10, <1>11 DEF Effect

\* The last action of a control discloses nothing (read_document).
LEMMA PlanEnd ==
  ASSUME NEW plan, WellFormed(plan), Barred(plan), NEW k \in Nat, k + 1 = Len(plan),
         NEW l, PlanLab(plan, k, l), NEW a, a = plan[k + 1], NEW r, Effect(l, a, r)
  PROVE  /\ r.sequence = k + 1 /\ r.disclosure = Nothing /\ l.disclosure = Nothing
         /\ a.kind \in {"read", "masked", "mock"}
<1>1. /\ k + 1 \in DOMAIN plan /\ DOMAIN plan = 1..Len(plan) /\ Len(plan) \in 1..8
  <2>1. Len(plan) \in 1..8 /\ DOMAIN plan = 1..Len(plan)
    BY ListedIsFunction DEF WellFormed
  <2>2. k + 1 \in 1..Len(plan)
    BY <2>1
  <2> QED BY <2>1, <2>2
<1>2. a.kind \in {"read", "masked", "mock"}
  BY <1>1 DEF WellFormed
<1>3. /\ IsLab(l) /\ l.sequence = k /\ l.disclosure = Nothing
      /\ "a_old" \in l.retained => ~Lacks(plan, "retain")
      /\ l.cache # Nothing => ~Lacks(plan, "prime")
      /\ l.job # Nothing =>
           DOMAIN l.job = JobFields /\ (l.job.delayed => ~Lacks(plan, "defer"))
      /\ l.claimedBy # Nothing => ~Lacks(plan, "claim")
      /\ l.downgradedAt \in {Nothing, 0}
  BY DEF PlanLab
<1>4. DOMAIN l = LabFields /\ l = [f \in LabFields |-> l[f]]
  BY <1>3 DEF IsLab
<1>5. CASE a.kind \in {"masked", "mock"}
  <2>1. r = Record(l, "decoy")
    BY <1>5 DEF Effect
  <2>2. Grew(r, l, "decoy")
    BY <1>4, <2>1, RecordKeeps, Zenon
  <2> QED BY <1>2, <1>3, <2>2 DEF Grew
<1>6. CASE a.kind = "read"
  <2>m. PICK m : m = ProcessDueJobs(l)
    OBVIOUS
  <2>1. Processed(m, l)
    BY <1>4, <2>m, ProcessedKeeps, Zenon
  <2>2. /\ DOMAIN m = LabFields /\ m.sequence = k /\ m.disclosure = Nothing
        /\ m.retained = l.retained /\ m.claimedBy = l.claimedBy
        /\ m.downgradedAt = l.downgradedAt /\ m.now = l.now
        /\ m.cache # Nothing => l.cache # Nothing
    BY <1>3, <2>1 DEF Processed
  <2>3. ~(a.arg # Tenant(a.session) /\ a.session = "a_old" /\ ChainComplete(m))
    <3> SUFFICES ASSUME a.arg # Tenant(a.session), a.session = "a_old", ChainComplete(m)
                 PROVE  FALSE
      OBVIOUS
    <3>1. /\ "a_old" \in m.retained /\ m.downgradedAt # Nothing
          /\ m.job # Nothing /\ m.job.delayed /\ m.job.status = "pending"
          /\ m.cache # Nothing /\ m.claimedBy = "a_old"
          /\ m.downgradedAt + 60 <= m.now /\ m.now < m.downgradedAt + 180
      BY DEF ChainComplete, WindowOpen
    <3>2. m.job = l.job
      BY <2>1, <3>1 DEF Processed
    <3>3. l.downgradedAt = 0 /\ 60 <= l.now /\ l.now < 180
      BY <1>3, <2>2, <3>1
    <3>4. /\ Len(plan) > 1 /\ plan[Len(plan) - 1].kind = "advance"
          /\ l.now = plan[Len(plan) - 1].arg
      BY <3>3 DEF PlanLab
    <3>5. ~Lacks(plan, "advance")
      BY <1>1, <3>4 DEF Lacks
    <3>6. l.claimedBy # Nothing
      BY <2>2, <3>1, NothingAssumption DEF Sessions
    <3>7. /\ ~Lacks(plan, "retain") /\ ~Lacks(plan, "prime") /\ ~Lacks(plan, "defer")
          /\ ~Lacks(plan, "claim")
      BY <1>3, <2>2, <3>1, <3>2, <3>6
    <3>8. a.arg # "A" /\ plan[Len(plan) - 1].arg # 181
      BY <3>3, <3>4, Tenants
    <3> QED BY <1>6, <3>5, <3>7, <3>8 DEF Barred
  <2>4. \/ r = Record(m, "same_tenant_allowed")
        \/ r = Record(m, "blocked")
    BY <1>6, <2>m, <2>3 DEF Effect
  <2>5. Grew(r, m, "same_tenant_allowed") \/ Grew(r, m, "blocked")
    BY <2>2, <2>4, RecordKeeps, Zenon
  <2> QED BY <1>2, <1>3, <2>2, <2>5 DEF Grew
<1> QED BY <1>2, <1>5, <1>6

\* l is what ChainLab describes, field by field.
LabIs(l, mode, k) ==
  /\ IsLab(l) /\ l.mode = mode /\ l.now = (IF k < 7 THEN 0 ELSE 90)
  /\ l.policyGeneration = (IF k < 3 THEN 1 ELSE 2)
  /\ l.role = (IF k < 3 THEN "editor" ELSE "viewer")
  /\ l.expires = (IF k < 3 THEN Canonical(mode).expires ELSE LaterSessions(mode))
  /\ l.retained = (IF k = 0 THEN {} ELSE {"a_old"})
  /\ l.cache = (IF k < 2 \/ (k > 2 /\ mode = "patched") THEN Nothing ELSE 1)
  /\ l.job = (IF k < 3 THEN Nothing ELSE IF k = 3 THEN QueuedJob ELSE PostponedJob)
  /\ l.published = PublishedAt(k)
  /\ l.claimedBy = (IF k < 6 THEN Nothing ELSE "a_old")
  /\ l.downgradedAt = (IF k < 3 THEN Nothing ELSE 0) /\ l.sequence = k
  /\ l.outcomes = EvidenceAt(mode, k)
  /\ l.disclosure = (IF k = 8 /\ mode = "vulnerable" THEN 8 ELSE Nothing)

\* ChainLab is what it describes, and nothing else is.
LEMMA ChainLabIs ==
  ASSUME NEW mode, NEW k
  PROVE  /\ LabIs(ChainLab(mode, k), mode, k)
         /\ \A l : LabIs(l, mode, k) => l = ChainLab(mode, k)
<1> DEFINE a1 == IF k < 7 THEN 0 ELSE 90
           a2 == IF k < 3 THEN 1 ELSE 2
           a3 == IF k < 3 THEN "editor" ELSE "viewer"
           a4 == IF k < 3 THEN Canonical(mode).expires ELSE LaterSessions(mode)
           a5 == IF k = 0 THEN {} ELSE {"a_old"}
           a6 == IF k < 2 \/ (k > 2 /\ mode = "patched") THEN Nothing ELSE 1
           a7 == IF k < 3 THEN Nothing ELSE IF k = 3 THEN QueuedJob ELSE PostponedJob
           a8 == PublishedAt(k)
           a9 == IF k < 6 THEN Nothing ELSE "a_old"
           b1 == IF k < 3 THEN Nothing ELSE 0
           b2 == EvidenceAt(mode, k)
           b3 == IF k = 8 /\ mode = "vulnerable" THEN 8 ELSE Nothing
           t  == [mode |-> mode, now |-> a1, policyGeneration |-> a2, role |-> a3,
                  expires |-> a4, retained |-> a5, cache |-> a6, job |-> a7,
                  published |-> a8, claimedBy |-> a9, downgradedAt |-> b1,
                  sequence |-> k, outcomes |-> b2, disclosure |-> b3]
           Is(l) == /\ IsLab(l) /\ l.mode = mode /\ l.now = a1 /\ l.policyGeneration = a2
                    /\ l.role = a3 /\ l.expires = a4 /\ l.retained = a5 /\ l.cache = a6
                    /\ l.job = a7 /\ l.published = a8 /\ l.claimedBy = a9
                    /\ l.downgradedAt = b1 /\ l.sequence = k /\ l.outcomes = b2
                    /\ l.disclosure = b3
<1>1. ChainLab(mode, k) = t
  BY Zenon DEF ChainLab
<1>2. \A l : Is(l) <=> LabIs(l, mode, k)
  BY Zenon DEF LabIs
<1> HIDE DEF a1, a2, a3, a4, a5, a6, a7, a8, a9, b1, b2, b3
<1>3. DOMAIN t = LabFields /\ t = [f \in LabFields |-> t[f]]
  BY DEF LabFields
<1>4. /\ t.mode = mode /\ t.now = a1 /\ t.policyGeneration = a2
      /\ t.role = a3 /\ t.expires = a4 /\ t.retained = a5 /\ t.cache = a6
      /\ t.job = a7 /\ t.published = a8 /\ t.claimedBy = a9
      /\ t.downgradedAt = b1 /\ t.sequence = k /\ t.outcomes = b2
      /\ t.disclosure = b3
  OBVIOUS
<1> HIDE DEF t
<1>5. Is(t)
  BY <1>3, <1>4, Zenon DEF IsLab
<1>6. ASSUME NEW l, Is(l) PROVE l = t
  <2>1. \A f \in LabFields : l[f] = t[f]
    BY <1>4, <1>6 DEF LabFields
  <2>2. l = [f \in LabFields |-> l[f]]
    BY <1>6 DEF IsLab
  <2> QED BY <1>3, <2>1, <2>2, SameLab, Zenon
<1> QED BY <1>1, <1>2, <1>5, <1>6, Zenon

\* The evidence grows with the steps.
LEMMA EvidenceGrows ==
  ASSUME NEW mode
  PROVE  /\ EvidenceAt(mode, 0) = {}
         /\ EvidenceAt(mode, 1) = EvidenceAt(mode, 0) \cup {"retained"}
         /\ EvidenceAt(mode, 2) = EvidenceAt(mode, 1) \cup {"allowed_cached"}
         /\ EvidenceAt(mode, 3) = EvidenceAt(mode, 2) \cup {"queued"}
         /\ EvidenceAt(mode, 4) = EvidenceAt(mode, 3) \cup {"delayed"}
         /\ EvidenceAt(mode, 5) = EvidenceAt(mode, 4) \cup {"published"}
         /\ EvidenceAt(mode, 6) = EvidenceAt(mode, 5) \cup {"obtained"}
         /\ EvidenceAt(mode, 7) = EvidenceAt(mode, 6) \cup {"advanced"}
         /\ EvidenceAt(mode, 8) = EvidenceAt(mode, 7) \cup {LastEvidence(mode)}
<1> DEFINE e(k) == {SetupEvidence[j] : j \in 1..k}
<1>1. /\ EvidenceAt(mode, 0) = e(0) /\ EvidenceAt(mode, 1) = e(1)
      /\ EvidenceAt(mode, 2) = e(2) /\ EvidenceAt(mode, 3) = e(3)
      /\ EvidenceAt(mode, 4) = e(4) /\ EvidenceAt(mode, 5) = e(5)
      /\ EvidenceAt(mode, 6) = e(6) /\ EvidenceAt(mode, 7) = e(7)
  BY DEF EvidenceAt
<1>2. EvidenceAt(mode, 8) = e(7) \cup {LastEvidence(mode)}
  BY DEF EvidenceAt
<1>3. ASSUME NEW k \in Nat PROVE e(k + 1) = e(k) \cup {SetupEvidence[k + 1]}
  <2>1. 1..(k + 1) = (1..k) \cup {k + 1}
    OBVIOUS
  <2> QED BY <2>1
<1>4. e(0) = {}
  OBVIOUS
<1>5. /\ SetupEvidence[1] = "retained" /\ SetupEvidence[2] = "allowed_cached"
      /\ SetupEvidence[3] = "queued" /\ SetupEvidence[4] = "delayed"
      /\ SetupEvidence[5] = "published" /\ SetupEvidence[6] = "obtained"
      /\ SetupEvidence[7] = "advanced"
  BY DEF SetupEvidence
<1> HIDE DEF e
<1>6. /\ e(0 + 1) = e(0) \cup {SetupEvidence[0 + 1]}
      /\ e(1 + 1) = e(1) \cup {SetupEvidence[1 + 1]}
      /\ e(2 + 1) = e(2) \cup {SetupEvidence[2 + 1]}
      /\ e(3 + 1) = e(3) \cup {SetupEvidence[3 + 1]}
      /\ e(4 + 1) = e(4) \cup {SetupEvidence[4 + 1]}
      /\ e(5 + 1) = e(5) \cup {SetupEvidence[5 + 1]}
      /\ e(6 + 1) = e(6) \cup {SetupEvidence[6 + 1]}
  BY <1>3
<1>7. /\ e(1) = e(0) \cup {"retained"} /\ e(2) = e(1) \cup {"allowed_cached"}
      /\ e(3) = e(2) \cup {"queued"} /\ e(4) = e(3) \cup {"delayed"}
      /\ e(5) = e(4) \cup {"published"} /\ e(6) = e(5) \cup {"obtained"}
      /\ e(7) = e(6) \cup {"advanced"}
  BY <1>5, <1>6
<1> QED BY <1>1, <1>2, <1>4, <1>7, Zenon

\* The reference is published by the fifth step.
LEMMA PublishedFrom ==
  /\ PublishedAt(0) = FALSE /\ PublishedAt(1) = FALSE /\ PublishedAt(2) = FALSE
  /\ PublishedAt(3) = FALSE /\ PublishedAt(4) = FALSE /\ PublishedAt(5) = TRUE
  /\ PublishedAt(6) = TRUE /\ PublishedAt(7) = TRUE /\ PublishedAt(8) = TRUE
BY DEF PublishedAt

\* The other steps leave it as it is.
LEMMA PublishedSince ==
  /\ PublishedAt(1) = PublishedAt(0) /\ PublishedAt(2) = PublishedAt(1)
  /\ PublishedAt(3) = PublishedAt(2) /\ PublishedAt(4) = PublishedAt(3)
  /\ PublishedAt(6) = PublishedAt(5) /\ PublishedAt(7) = PublishedAt(6)
  /\ PublishedAt(8) = PublishedAt(7)
BY PublishedFrom, Zenon

\* The chain starts on a clean lab.
LEMMA ChainLabStart == ASSUME NEW mode PROVE LabIs(Canonical(mode), mode, 0)
<1>l. PICK l : l = Canonical(mode)
  OBVIOUS
<1>1. /\ IsLab(l) /\ l.mode = mode /\ l.now = 0 /\ l.policyGeneration = 1
      /\ l.role = "editor" /\ l.retained = {} /\ l.cache = Nothing
      /\ l.job = Nothing /\ ~l.published /\ l.claimedBy = Nothing
      /\ l.downgradedAt = Nothing /\ l.sequence = 0 /\ l.outcomes = {}
      /\ l.disclosure = Nothing
  BY <1>l, CanonicalFields
<1>2. l.expires = Canonical(mode).expires /\ l.published = FALSE
  BY <1>l DEF Canonical
<1>3. EvidenceAt(mode, 0) = {}
  BY EvidenceGrows
<1>4. LabIs(l, mode, 0)
  BY <1>1, <1>2, <1>3, PublishedFrom DEF LabIs
<1> QED BY <1>l, <1>4

\* The first step (retain_old_session).
LEMMA ChainRetains ==
  ASSUME NEW mode, NEW l, LabIs(l, mode, 0), NEW a, a.kind = "retain", NEW r,
         Effect(l, a, r)
  PROVE  LabIs(r, mode, 1)
<1>1. DOMAIN l = LabFields
  BY DEF LabIs, IsLab
<1>x. PICK x : x = [l EXCEPT !.retained = l.retained \cup {"a_old"}]
  OBVIOUS
<1>2. /\ DOMAIN x = LabFields /\ x.mode = l.mode /\ x.now = l.now
      /\ x.policyGeneration = l.policyGeneration /\ x.role = l.role
      /\ x.expires = l.expires /\ x.cache = l.cache /\ x.job = l.job
      /\ x.published = l.published /\ x.claimedBy = l.claimedBy
      /\ x.downgradedAt = l.downgradedAt /\ x.sequence = l.sequence
      /\ x.outcomes = l.outcomes /\ x.disclosure = l.disclosure
      /\ x.retained = l.retained \cup {"a_old"}
  BY <1>1, <1>x DEF LabFields
<1>3. r = Record(x, "retained")
  BY <1>x DEF Effect
<1>4. Grew(r, x, "retained")
  BY <1>2, <1>3, RecordKeeps, Zenon
<1>5. EvidenceAt(mode, 1) = EvidenceAt(mode, 0) \cup {"retained"}
  BY EvidenceGrows
<1> QED BY <1>2, <1>4, <1>5, PublishedSince DEF LabIs, Grew

\* The second step (prime_authorization_cache).
LEMMA ChainPrimes ==
  ASSUME NEW mode, NEW l, LabIs(l, mode, 1), NEW a, a.kind = "prime", NEW r,
         Effect(l, a, r)
  PROVE  LabIs(r, mode, 2)
<1>1. DOMAIN l = LabFields
  BY DEF LabIs, IsLab
<1>x. PICK x : x = [l EXCEPT !.cache = l.policyGeneration]
  OBVIOUS
<1>2. /\ DOMAIN x = LabFields /\ x.mode = l.mode /\ x.now = l.now
      /\ x.policyGeneration = l.policyGeneration /\ x.role = l.role
      /\ x.expires = l.expires /\ x.retained = l.retained /\ x.job = l.job
      /\ x.published = l.published /\ x.claimedBy = l.claimedBy
      /\ x.downgradedAt = l.downgradedAt /\ x.sequence = l.sequence
      /\ x.outcomes = l.outcomes /\ x.disclosure = l.disclosure
      /\ x.cache = l.policyGeneration
  BY <1>1, <1>x DEF LabFields
<1>3. r = Record(x, "allowed_cached")
  BY <1>x DEF Effect
<1>4. Grew(r, x, "allowed_cached")
  BY <1>2, <1>3, RecordKeeps, Zenon
<1>5. EvidenceAt(mode, 2) = EvidenceAt(mode, 1) \cup {"allowed_cached"}
  BY EvidenceGrows
<1> QED BY <1>2, <1>4, <1>5, PublishedSince DEF LabIs, Grew

\* The fifth step (publish_reference).
LEMMA ChainPublishes ==
  ASSUME NEW mode, NEW l, LabIs(l, mode, 4), NEW a, a.kind = "publish", NEW r,
         Effect(l, a, r)
  PROVE  LabIs(r, mode, 5)
<1>1. DOMAIN l = LabFields
  BY DEF LabIs, IsLab
<1>x. PICK x : x = [l EXCEPT !.published = TRUE]
  OBVIOUS
<1>2. /\ DOMAIN x = LabFields /\ x.mode = l.mode /\ x.now = l.now
      /\ x.policyGeneration = l.policyGeneration /\ x.role = l.role
      /\ x.expires = l.expires /\ x.retained = l.retained /\ x.cache = l.cache
      /\ x.job = l.job /\ x.claimedBy = l.claimedBy /\ x.downgradedAt = l.downgradedAt
      /\ x.sequence = l.sequence /\ x.outcomes = l.outcomes /\ x.disclosure = l.disclosure
      /\ x.published = TRUE
  BY <1>1, <1>x DEF LabFields
<1>p. x.published = PublishedAt(5)
  BY <1>2, PublishedFrom, Zenon
<1>q. /\ DOMAIN x = LabFields /\ x.mode = l.mode /\ x.now = l.now
      /\ x.policyGeneration = l.policyGeneration /\ x.role = l.role
      /\ x.expires = l.expires /\ x.retained = l.retained /\ x.cache = l.cache
      /\ x.job = l.job /\ x.claimedBy = l.claimedBy /\ x.downgradedAt = l.downgradedAt
      /\ x.sequence = l.sequence /\ x.outcomes = l.outcomes /\ x.disclosure = l.disclosure
  BY <1>2, Zenon
<1>3. r = Record(x, "published")
  BY <1>x DEF Effect
<1>4. Grew(r, x, "published")
  BY <1>2, <1>3, RecordKeeps, Zenon
<1>5. EvidenceAt(mode, 5) = EvidenceAt(mode, 4) \cup {"published"}
  BY EvidenceGrows
<1> QED BY <1>q, <1>p, <1>4, <1>5 DEF LabIs, Grew

\* The sixth step (claim_reference).
LEMMA ChainClaims ==
  ASSUME NEW mode, NEW l, LabIs(l, mode, 5), NEW a, a.kind = "claim", a.session = "a_old", NEW r,
         Effect(l, a, r)
  PROVE  LabIs(r, mode, 6)
<1>1. DOMAIN l = LabFields
  BY DEF LabIs, IsLab
<1>x. PICK x : x = [l EXCEPT !.claimedBy = a.session]
  OBVIOUS
<1>2. /\ DOMAIN x = LabFields /\ x.mode = l.mode /\ x.now = l.now
      /\ x.policyGeneration = l.policyGeneration /\ x.role = l.role
      /\ x.expires = l.expires /\ x.retained = l.retained /\ x.cache = l.cache
      /\ x.job = l.job /\ x.published = l.published /\ x.downgradedAt = l.downgradedAt
      /\ x.sequence = l.sequence /\ x.outcomes = l.outcomes /\ x.disclosure = l.disclosure
      /\ x.claimedBy = a.session
  BY <1>1, <1>x DEF LabFields
<1>3. r = Record(x, "obtained")
  BY <1>x DEF Effect
<1>4. Grew(r, x, "obtained")
  BY <1>2, <1>3, RecordKeeps, Zenon
<1>5. EvidenceAt(mode, 6) = EvidenceAt(mode, 5) \cup {"obtained"}
  BY EvidenceGrows
<1> QED BY <1>2, <1>4, <1>5, PublishedSince DEF LabIs, Grew

\* The third step (downgrade_role).
LEMMA ChainDowngrades ==
  ASSUME NEW mode, NEW l, LabIs(l, mode, 2), NEW a, a.kind = "downgrade", NEW r,
         Effect(l, a, r)
  PROVE  LabIs(r, mode, 3)
<1>1. DOMAIN l = LabFields /\ l.now = 0 /\ l.mode = mode /\ l.cache = 1
      /\ l.expires = Canonical(mode).expires
  BY DEF LabIs, IsLab
<1>x. PICK x : x = DowngradedLab(l)
  OBVIOUS
<1>2. Downgraded(x, l)
  BY <1>1, <1>x, DowngradeDiffers, Zenon
<1>3. /\ DOMAIN x = LabFields
      /\ \A f \in LabFields \ {"policyGeneration", "role", "downgradedAt", "job",
                               "expires", "cache"} : x[f] = l[f]
  BY <1>2, Zenon DEF Downgraded, Differs
<1>4. /\ x.mode = l.mode /\ x.now = l.now /\ x.retained = l.retained
      /\ x.published = l.published /\ x.claimedBy = l.claimedBy
      /\ x.sequence = l.sequence /\ x.outcomes = l.outcomes
      /\ x.disclosure = l.disclosure
  BY <1>3 DEF LabFields
<1>5. /\ x.policyGeneration = 2 /\ x.role = "viewer" /\ x.downgradedAt = 0
      /\ x.cache = IF mode = "patched" THEN Nothing ELSE 1
  BY <1>1, <1>2, Zenon DEF Downgraded
<1>6. x.job = QueuedJob
  <2>1. x.job = [due |-> l.now + 30, status |-> "pending", delayed |-> FALSE]
    BY <1>2, Zenon DEF Downgraded
  <2>2. l.now + 30 = 30
    BY <1>1
  <2> QED BY <2>1, <2>2, Zenon DEF QueuedJob
<1>7. x.expires = LaterSessions(mode)
  <2>1. x.expires = [s \in Sessions |-> IF s = "a_fresh" THEN l.now + SessionLifetime
                                        ELSE l.expires[s]]
    BY <1>2, Zenon DEF Downgraded
  <2>2. l.now + SessionLifetime = SessionLifetime
    BY <1>1, LifetimeAssumption
  <2> QED BY <1>1, <2>1, <2>2, Zenon DEF LaterSessions
<1>8. r = Record(x, "queued")
  BY <1>x DEF Effect
<1>9. Grew(r, x, "queued")
  BY <1>3, <1>8, RecordKeeps, Zenon
<1>10. EvidenceAt(mode, 3) = EvidenceAt(mode, 2) \cup {"queued"}
  BY EvidenceGrows
<1> QED BY <1>4, <1>5, <1>6, <1>7, <1>9, <1>10, PublishedSince DEF LabIs, Grew

\* The queue finds a job that is not due yet, or none.
LEMMA NotDue ==
  ASSUME NEW l, l.job = Nothing \/ ~(l.now >= l.job.due)
  PROVE  ProcessDueJobs(l) = l
BY DEF ProcessDueJobs

\* The fourth step (delay_queue_job).
LEMMA ChainDefers ==
  ASSUME NEW mode, NEW l, LabIs(l, mode, 3), NEW a, a.kind = "defer", NEW r,
         Effect(l, a, r)
  PROVE  LabIs(r, mode, 4)
<1>1. DOMAIN l = LabFields /\ l.now = 0 /\ l.job = QueuedJob /\ l.downgradedAt = 0
  BY DEF LabIs, IsLab
<1>2. l.job.due = 30 /\ l.job.status = "pending" /\ DOMAIN l.job = JobFields
  BY <1>1 DEF QueuedJob, JobFields
<1>3. ProcessDueJobs(l) = l
  BY <1>1, <1>2, NotDue
<1>x. PICK x : x = DeferredLab(l)
  OBVIOUS
<1>4. Deferred(x, l)
  BY <1>1, <1>2, <1>x, DeferDiffers, Zenon
<1>5. DOMAIN x = LabFields /\ \A f \in LabFields \ {"job"} : x[f] = l[f]
  BY <1>4, Zenon DEF Deferred, Differs
<1>6. /\ x.mode = l.mode /\ x.now = l.now /\ x.policyGeneration = l.policyGeneration
      /\ x.role = l.role /\ x.expires = l.expires /\ x.retained = l.retained
      /\ x.cache = l.cache /\ x.published = l.published
      /\ x.claimedBy = l.claimedBy /\ x.downgradedAt = l.downgradedAt
      /\ x.sequence = l.sequence /\ x.outcomes = l.outcomes
      /\ x.disclosure = l.disclosure
  BY <1>5 DEF LabFields
<1>7. x.job = PostponedJob
  <2>1. x.job = [due |-> l.downgradedAt + 240, status |-> l.job.status, delayed |-> TRUE]
    BY <1>4, Zenon DEF Deferred
  <2>2. l.downgradedAt + 240 = 240
    BY <1>1
  <2> QED BY <1>2, <2>1, <2>2, Zenon DEF PostponedJob
<1>8. r = Record(x, "delayed")
  BY <1>3, <1>x DEF Effect
<1>9. Grew(r, x, "delayed")
  BY <1>5, <1>8, RecordKeeps, Zenon
<1>10. EvidenceAt(mode, 4) = EvidenceAt(mode, 3) \cup {"delayed"}
  BY EvidenceGrows
<1> QED BY <1>6, <1>7, <1>9, <1>10, PublishedSince DEF LabIs, Grew

\* The seventh step (advance_clock): the job is not due for long.
LEMMA ChainAdvances ==
  ASSUME NEW mode, NEW l, LabIs(l, mode, 6), NEW a, a.kind = "advance", a.arg = 90, NEW r,
         Effect(l, a, r)
  PROVE  LabIs(r, mode, 7)
<1>1. DOMAIN l = LabFields /\ l.now = 0 /\ l.job = PostponedJob
  BY DEF LabIs, IsLab
<1>x. PICK x : x = [l EXCEPT !.now = l.now + a.arg]
  OBVIOUS
<1>2. /\ DOMAIN x = LabFields /\ x.mode = l.mode /\ x.policyGeneration = l.policyGeneration
      /\ x.role = l.role /\ x.expires = l.expires /\ x.retained = l.retained
      /\ x.cache = l.cache /\ x.job = l.job /\ x.published = l.published
      /\ x.claimedBy = l.claimedBy /\ x.downgradedAt = l.downgradedAt
      /\ x.sequence = l.sequence /\ x.outcomes = l.outcomes
      /\ x.disclosure = l.disclosure /\ x.now = l.now + a.arg
  BY <1>1, <1>x DEF LabFields
<1>3. x.now = 90
  BY <1>1, <1>2
<1>4. x.job.due = 240
  BY <1>1, <1>2 DEF PostponedJob
<1>5. ProcessDueJobs(x) = x
  BY <1>3, <1>4, NotDue
<1>6. r = Record(x, "advanced")
  BY <1>5, <1>x DEF Effect
<1>7. Grew(r, x, "advanced")
  BY <1>2, <1>6, RecordKeeps, Zenon
<1>8. EvidenceAt(mode, 7) = EvidenceAt(mode, 6) \cup {"advanced"}
  BY EvidenceGrows
<1> QED BY <1>2, <1>3, <1>7, <1>8, PublishedSince DEF LabIs, Grew

\* The last step (read_document): the document is disclosed, unless the lab is
\* patched.
LEMMA ChainReads ==
  ASSUME NEW mode \in {"vulnerable", "patched"}, NEW l, LabIs(l, mode, 7), NEW a,
         a.kind = "read", a.session = "a_old", a.arg = "B", NEW r, Effect(l, a, r)
  PROVE  LabIs(r, mode, 8)
<1>1. /\ DOMAIN l = LabFields /\ l.now = 90 /\ l.job = PostponedJob /\ l.mode = mode
      /\ l.sequence = 7 /\ l.downgradedAt = 0 /\ l.retained = {"a_old"}
      /\ l.role = "viewer" /\ l.policyGeneration = 2 /\ l.claimedBy = "a_old"
      /\ l.cache = (IF mode = "patched" THEN Nothing ELSE 1)
  BY DEF LabIs, IsLab
<1>p. l.published
  <2>1. l.published = PublishedAt(7)
    BY Zenon DEF LabIs
  <2> QED BY <2>1, PublishedFrom, Zenon
<1>2. l.job.due = 240 /\ l.job.delayed = TRUE /\ l.job.status = "pending"
  BY <1>1 DEF PostponedJob
<1>3. ProcessDueJobs(l) = l
  BY <1>1, <1>2, NotDue
<1>4. a.arg # Tenant(a.session)
  BY Tenants
<1>5. LastEvidence(mode) = IF mode = "vulnerable" THEN "disclosed" ELSE "blocked"
  BY DEF LastEvidence
<1>6. EvidenceAt(mode, 8) = EvidenceAt(mode, 7) \cup {LastEvidence(mode)}
  BY EvidenceGrows
<1>7. CASE mode = "vulnerable"
  <2>1. l.job # Nothing /\ l.downgradedAt # Nothing /\ l.cache # Nothing
    <3>1. PostponedJob \in Job
      BY DEF PostponedJob, Job, Statuses
    <3> QED BY <1>1, <1>7, <3>1, NothingAssumption
  <2>2. ChainComplete(l)
    <3>1. l.cache < l.policyGeneration /\ 1 < l.policyGeneration
      BY <1>1, <1>7
    <3>2. WindowOpen(l)
      BY <1>1, <2>1 DEF WindowOpen
    <3>3. "a_old" \in l.retained /\ l.job.delayed /\ l.published
      BY <1>1, <1>2, <1>p
    <3> QED BY <1>1, <1>2, <2>1, <3>1, <3>2, <3>3 DEF ChainComplete
  <2>x. PICK x : x = Record(l, "disclosed")
    OBVIOUS
  <2>3. Grew(x, l, "disclosed")
    BY <1>1, <2>x, RecordKeeps, Zenon
  <2>4. r = [x EXCEPT !.disclosure = l.sequence + 1]
    BY <1>1, <1>3, <1>4, <1>7, <2>2, <2>x DEF Effect
  <2>5. DOMAIN x = LabFields
    BY <2>3 DEF Grew, IsLab
  <2>6. l.sequence + 1 = 8
    BY <1>1
  <2>7. /\ DOMAIN r = LabFields /\ r = [f \in LabFields |-> r[f]]
        /\ r.mode = x.mode /\ r.now = x.now /\ r.policyGeneration = x.policyGeneration
        /\ r.role = x.role /\ r.expires = x.expires /\ r.retained = x.retained
        /\ r.cache = x.cache /\ r.job = x.job /\ r.published = x.published
        /\ r.claimedBy = x.claimedBy /\ r.downgradedAt = x.downgradedAt
        /\ r.sequence = x.sequence /\ r.outcomes = x.outcomes
        /\ r.disclosure = 8
    <3>1. r = [x EXCEPT !.disclosure = 8]
      BY <2>4, <2>6, Zenon
    <3> QED BY <2>5, <3>1 DEF LabFields
  <2>8. r.outcomes = EvidenceAt(mode, 8)
    <3>1. x.outcomes = l.outcomes \cup {"disclosed"} /\ l.outcomes = EvidenceAt(mode, 7)
      BY <2>3, Zenon DEF LabIs, Grew
    <3>2. LastEvidence(mode) = "disclosed"
      BY <1>5, <1>7, Zenon
    <3> QED BY <1>6, <2>7, <3>1, <3>2, Zenon
  <2>9. IsLab(r)
    BY <2>7, Zenon DEF IsLab
  <2>10. /\ r.mode = l.mode /\ r.now = l.now /\ r.policyGeneration = l.policyGeneration
         /\ r.role = l.role /\ r.expires = l.expires /\ r.retained = l.retained
         /\ r.cache = l.cache /\ r.job = l.job /\ r.published = l.published
         /\ r.claimedBy = l.claimedBy /\ r.downgradedAt = l.downgradedAt
         /\ r.sequence = 8 /\ r.disclosure = 8
    <3>1. x.sequence = 8
      BY <1>1, <2>3 DEF Grew
    <3> QED BY <2>3, <2>7, <3>1, Zenon DEF Grew
  <2> QED BY <1>7, <2>8, <2>9, <2>10, PublishedSince DEF LabIs
<1>8. CASE mode = "patched"
  <2>1. r = Record(l, "blocked")
    BY <1>1, <1>3, <1>4, <1>8 DEF Effect
  <2>2. Grew(r, l, "blocked")
    BY <1>1, <2>1, RecordKeeps, Zenon
  <2> QED BY <1>5, <1>6, <1>8, <2>2, PublishedSince DEF LabIs, Grew
<1> QED BY <1>7, <1>8

\* One step of the chain (HandledEffect, _canonical_lab_actions).
LEMMA ChainStep ==
  ASSUME NEW mode \in {"vulnerable", "patched"}, NEW k \in 0..7,
         NEW l, l = ChainLab(mode, k), NEW r, Effect(l, Chain[k + 1], r)
  PROVE  r = ChainLab(mode, k + 1)
<1>1. Extended(Chain, Read("a_old", "B"))
  BY ExtendedSetup DEF Chain
<1> DEFINE p == Chain
<1>2. /\ p[1].kind = "retain" /\ p[2].kind = "prime" /\ p[3].kind = "downgrade"
      /\ p[4].kind = "defer" /\ p[5].kind = "publish" /\ p[6].kind = "claim"
      /\ p[7].kind = "advance" /\ p[8].kind = "read"
      /\ p[6].session = "a_old" /\ p[8].session = "a_old"
      /\ p[7].arg = 90 /\ p[8].arg = "B"
  <2>2. /\ p[1] = Action("retain", "a_old", 0) /\ p[2] = Action("prime", "a_old", 0)
        /\ p[3] = Action("downgrade", "admin", 0) /\ p[4] = Action("defer", "admin", 0)
        /\ p[5] = Action("publish", "b_viewer", 0) /\ p[6] = Action("claim", "a_old", 0)
        /\ p[7] = Action("advance", "admin", 90) /\ p[8] = Read("a_old", "B")
    BY <1>1, Zenon DEF Extended
  <2> HIDE DEF p
  <2> QED BY <2>2 DEF Action, Read
<1> HIDE DEF p
<1>3. LabIs(l, mode, k) /\ Effect(l, p[k + 1], r)
  BY ChainLabIs DEF p
<1>4. CASE k = 0
  <2>1. LabIs(l, mode, 0) /\ Effect(l, p[1], r)
    BY <1>3, <1>4
  <2>2. LabIs(r, mode, 1)
    BY <1>2, <2>1, ChainRetains, Zenon
  <2>3. r = ChainLab(mode, 1)
    BY <2>2, ChainLabIs
  <2> QED BY <1>4, <2>3
<1>5. CASE k = 1
  <2>1. LabIs(l, mode, 1) /\ Effect(l, p[2], r)
    BY <1>3, <1>5
  <2>2. LabIs(r, mode, 2)
    BY <1>2, <2>1, ChainPrimes, Zenon
  <2>3. r = ChainLab(mode, 2)
    BY <2>2, ChainLabIs
  <2> QED BY <1>5, <2>3
<1>6. CASE k = 2
  <2>1. LabIs(l, mode, 2) /\ Effect(l, p[3], r)
    BY <1>3, <1>6
  <2>2. LabIs(r, mode, 3)
    BY <1>2, <2>1, ChainDowngrades, Zenon
  <2>3. r = ChainLab(mode, 3)
    BY <2>2, ChainLabIs
  <2> QED BY <1>6, <2>3
<1>7. CASE k = 3
  <2>1. LabIs(l, mode, 3) /\ Effect(l, p[4], r)
    BY <1>3, <1>7
  <2>2. LabIs(r, mode, 4)
    BY <1>2, <2>1, ChainDefers, Zenon
  <2>3. r = ChainLab(mode, 4)
    BY <2>2, ChainLabIs
  <2> QED BY <1>7, <2>3
<1>8. CASE k = 4
  <2>1. LabIs(l, mode, 4) /\ Effect(l, p[5], r)
    BY <1>3, <1>8
  <2>2. LabIs(r, mode, 5)
    BY <1>2, <2>1, ChainPublishes, Zenon
  <2>3. r = ChainLab(mode, 5)
    BY <2>2, ChainLabIs
  <2> QED BY <1>8, <2>3
<1>9. CASE k = 5
  <2>1. LabIs(l, mode, 5) /\ Effect(l, p[6], r)
    BY <1>3, <1>9
  <2>2. LabIs(r, mode, 6)
    BY <1>2, <2>1, ChainClaims, Zenon
  <2>3. r = ChainLab(mode, 6)
    BY <2>2, ChainLabIs
  <2> QED BY <1>9, <2>3
<1>10. CASE k = 6
  <2>1. LabIs(l, mode, 6) /\ Effect(l, p[7], r)
    BY <1>3, <1>10
  <2>2. LabIs(r, mode, 7)
    BY <1>2, <2>1, ChainAdvances, Zenon
  <2>3. r = ChainLab(mode, 7)
    BY <2>2, ChainLabIs
  <2> QED BY <1>10, <2>3
<1>11. CASE k = 7
  <2>1. LabIs(l, mode, 7) /\ Effect(l, p[8], r)
    BY <1>3, <1>11
  <2>2. LabIs(r, mode, 8)
    BY <1>2, <2>1, ChainReads, Zenon
  <2>3. r = ChainLab(mode, 8)
    BY <2>2, ChainLabIs
  <2> QED BY <1>11, <2>3
<1> QED BY <1>4, <1>5, <1>6, <1>7, <1>8, <1>9, <1>10, <1>11

\* The n-th scenario of the campaign is s.
IsScenario(c, n, s) == c \in Campaigns /\ n \in DOMAIN Scenarios(c) /\ s = Scenarios(c)[n]

\* A clean lab is where every scenario starts.
LEMMA ScenarioStart ==
  ASSUME NEW c, NEW n, NEW s, IsScenario(c, n, s)
  PROVE  /\ LabAt(n, s, 0, Canonical(s.mode)) /\ WellFormed(s.plan)
         /\ Len(s.plan) \in 1..8 /\ DOMAIN s.plan = 1..Len(s.plan)
<1>1. WellFormed(s.plan)
  BY PlansAreWellFormed DEF IsScenario
<1>2. Canonical(s.mode) = ChainLab(s.mode, 0)
  BY ChainLabStart, ChainLabIs
<1>3. PlanLab(s.plan, 0, Canonical(s.mode))
  BY PlanLabStart
<1>4. LabAt(n, s, 0, Canonical(s.mode))
  BY <1>2, <1>3, Zenon DEF LabAt
<1>5. Len(s.plan) \in 1..8 /\ DOMAIN s.plan = 1..Len(s.plan)
  BY <1>1, ListedIsFunction DEF WellFormed
<1> QED BY <1>1, <1>4, <1>5

\* The lab is one, with as much evidence as there were steps.
LEMMA ScenarioLab ==
  ASSUME NEW n, NEW s, NEW k, NEW l, LabAt(n, s, k, l)
  PROVE  IsLab(l) /\ l.sequence = k
<1>1. CASE n <= PatchedRun
  <2>1. l = ChainLab(s.mode, k)
    BY <1>1 DEF LabAt
  <2>2. LabIs(l, s.mode, k)
    BY <2>1, ChainLabIs
  <2> QED BY <2>2 DEF LabIs
<1>2. CASE ~(n <= PatchedRun)
  BY <1>2 DEF LabAt, PlanLab
<1> QED BY <1>1, <1>2

\* Every step but the last of a scenario.
LEMMA ScenarioStep ==
  ASSUME NEW c, NEW n, NEW s, IsScenario(c, n, s), NEW i \in DOMAIN s.plan,
         i < Len(s.plan), NEW l, LabAt(n, s, i - 1, l), NEW r, Effect(l, s.plan[i], r)
  PROVE  LabAt(n, s, i, r)
<1>1. /\ WellFormed(s.plan) /\ Len(s.plan) \in 1..8 /\ i \in 1..8
      /\ i - 1 \in Nat /\ i - 1 + 1 = i
  BY ScenarioStart
<1>2. CASE n <= PatchedRun
  <2>1. s.plan = Chain /\ s.mode \in {"vulnerable", "patched"}
    BY <1>2, PlansAreWellFormed DEF IsScenario
  <2>2. l = ChainLab(s.mode, i - 1)
    BY <1>2 DEF LabAt
  <2>k. PICK k : k = i - 1
    OBVIOUS
  <2>3. k \in 0..7 /\ k + 1 = i
    BY <1>1, <2>k
  <2>4. r = ChainLab(s.mode, k + 1)
    BY <2>1, <2>2, <2>3, <2>k, ChainStep
  <2> QED BY <1>2, <2>3, <2>4 DEF LabAt
<1>3. CASE ~(n <= PatchedRun)
  <2>1. PlanLab(s.plan, i - 1, l)
    BY <1>3 DEF LabAt
  <2>k. PICK k : k = i - 1
    OBVIOUS
  <2>2. k \in Nat /\ k + 1 = i
    BY <1>1, <2>k
  <2>3. PlanLab(s.plan, k + 1, r)
    BY <1>1, <2>1, <2>2, <2>k, PlanStep
  <2> QED BY <1>3, <2>2, <2>3 DEF LabAt
<1> QED BY <1>2, <1>3

\* Where the last step of a scenario leads: r is the lab after it, l before.
EndsIn(n, s, l, r) ==
  LET a == s.plan[Len(s.plan)]
  IN  /\ l.disclosure = Nothing
      /\ n < PatchedRun => r = ChainLab("vulnerable", 8)
      /\ n = PatchedRun => r = ChainLab("patched", 8)
      /\ n > PatchedRun => /\ r.sequence = Len(s.plan) /\ r.disclosure = Nothing
                           /\ a.kind \in {"read", "masked", "mock"}

\* The last step of a scenario.
LEMMA ScenarioEnd ==
  ASSUME NEW c, NEW n, NEW s, IsScenario(c, n, s), NEW i \in DOMAIN s.plan,
         i = Len(s.plan), NEW l, LabAt(n, s, i - 1, l), NEW r, Effect(l, s.plan[i], r)
  PROVE  EndsIn(n, s, l, r)
<1>1. /\ WellFormed(s.plan) /\ Len(s.plan) \in 1..8 /\ i \in 1..8
      /\ i - 1 \in Nat /\ i - 1 + 1 = i
  BY ScenarioStart
<1>2. n \in Int /\ PatchedRun = 6
  BY ScenariosAre DEF IsScenario, PatchedRun, VulnerableRuns
<1>k. PICK k : k = i - 1
  OBVIOUS
<1>3. CASE n <= PatchedRun
  <2>1. s.plan = Chain /\ s.mode = IF n < PatchedRun THEN "vulnerable" ELSE "patched"
    BY <1>3, PlansAreWellFormed DEF IsScenario
  <2>2. Len(Chain) = 8
    <3>1. Extended(Chain, Read("a_old", "B"))
      BY ExtendedSetup DEF Chain
    <3> QED BY <3>1 DEF Extended
  <2>3. k = 7 /\ i = 8
    BY <1>1, <1>k, <2>1, <2>2
  <2>4. l = ChainLab(s.mode, 7)
    BY <1>3, <1>k, <2>3 DEF LabAt
  <2>5. r = ChainLab(s.mode, 8)
    <3>0. k \in 0..7 /\ k + 1 = 8 /\ i = k + 1
      BY <2>3
    <3>1. Effect(l, Chain[k + 1], r)
      BY <2>1, <3>0
    <3>2. s.mode \in {"vulnerable", "patched"}
      BY <2>1
    <3> QED BY <2>3, <2>4, <3>1, <3>2, ChainStep
  <2>6. l.disclosure = Nothing
    <3>1. LabIs(l, s.mode, 7)
      BY <2>4, ChainLabIs
    <3> QED BY <3>1 DEF LabIs
  <2> QED BY <1>2, <1>3, <2>1, <2>5, <2>6 DEF EndsIn
<1>4. CASE ~(n <= PatchedRun)
  <2>1. PlanLab(s.plan, k, l)
    BY <1>4, <1>k DEF LabAt
  <2>2. Barred(s.plan)
    BY <1>2, <1>4, PlansAreWellFormed DEF IsScenario, ControlShape
  <2>3. k \in Nat /\ k + 1 = i /\ k + 1 = Len(s.plan) /\ Effect(l, s.plan[k + 1], r)
    BY <1>1, <1>k
  <2>4. /\ r.sequence = k + 1 /\ r.disclosure = Nothing /\ l.disclosure = Nothing
        /\ s.plan[k + 1].kind \in {"read", "masked", "mock"}
    BY <1>1, <2>1, <2>2, <2>3, PlanEnd
  <2> QED BY <1>2, <1>4, <2>3, <2>4 DEF EndsIn
<1> QED BY <1>3, <1>4

-------------------------------------------------------------------------------
(* The invariant of a campaign, action by action. *)

\* What a run that ends its plan with the lab r comes to (InProcessLabReplayOracle,
\* the kernel's comparison with the expected outcome).
LEMMA EndForeseen ==
  ASSUME NEW c, NEW n, NEW s, IsScenario(c, n, s), NEW i, i = Len(s.plan),
         NEW a, a = s.plan[i], NEW l, NEW r, EndsIn(n, s, l, r),
         NEW o, o = IF OracleViolated(r) THEN "VIOLATED"
                    ELSE IF a.kind \in {"read", "masked"} THEN "SATISFIED"
                    ELSE "INCONCLUSIVE",
         NEW q, q = IF a.kind = "read" /\ a.arg # Tenant(a.session)
                         /\ r.disclosure = l.disclosure THEN 403 ELSE 200,
         NEW t, t = [status |-> IF o = s.outcome THEN "succeeded" ELSE "failed",
                     failed |-> IF o = s.outcome THEN Nothing ELSE i,
                     code |-> IF o = s.outcome THEN Nothing
                              ELSE "ORACLE_EXPECTATION_MISMATCH",
                     outcome |-> o, response |-> q, final |-> r]
  PROVE  Foreseen(n, s, t)
<1>1. n \in Int /\ PatchedRun = 6
  BY ScenariosAre DEF IsScenario, PatchedRun, VulnerableRuns
<1>2. CASE n <= PatchedRun
  <2>1. s.plan = Chain /\ s.outcome = "VIOLATED"
    BY <1>2, PlansAreWellFormed DEF IsScenario
  <2>2. Extended(Chain, Read("a_old", "B"))
    BY ExtendedSetup DEF Chain
  <2>3. i = 8 /\ a = Read("a_old", "B")
    BY <2>1, <2>2, Zenon DEF Extended
  <2>4. a.kind = "read" /\ a.arg # Tenant(a.session)
    <3>1. a.kind = "read" /\ a.session = "a_old" /\ a.arg = "B"
      BY <2>3, ActionFields
    <3> QED BY <3>1, Tenants
  <2>5. l.disclosure = Nothing
    BY DEF EndsIn
  <2>6. CASE n < PatchedRun
    <3>1. r = ChainLab("vulnerable", 8)
      BY <2>6 DEF EndsIn
    <3>2. r.disclosure = 8 /\ 8 # Nothing
      <4>1. LabIs(r, "vulnerable", 8)
        BY <3>1, ChainLabIs
      <4> QED BY <4>1, NothingAssumption DEF LabIs
    <3>3. o = "VIOLATED" /\ q = 200
      BY <2>5, <3>2 DEF OracleViolated
    <3>4. t = [status |-> "succeeded", failed |-> Nothing, code |-> Nothing,
               outcome |-> "VIOLATED", response |-> 200, final |-> ChainLab("vulnerable", 8)]
      BY <2>1, <3>1, <3>3
    <3> QED BY <1>2, <2>6, <3>4, Zenon DEF Foreseen
  <2>7. CASE ~(n < PatchedRun)
    <3>1. r = ChainLab("patched", 8)
      BY <1>1, <1>2, <2>7 DEF EndsIn
    <3>2. r.disclosure = Nothing
      <4>1. LabIs(r, "patched", 8)
        BY <3>1, ChainLabIs
      <4> QED BY <4>1 DEF LabIs
    <3>3. o = "SATISFIED" /\ q = 403
      BY <2>4, <2>5, <3>2 DEF OracleViolated
    <3>4. t = [status |-> "failed", failed |-> 8, code |-> "ORACLE_EXPECTATION_MISMATCH",
               outcome |-> "SATISFIED", response |-> 403, final |-> ChainLab("patched", 8)]
      BY <2>1, <2>3, <3>1, <3>3
    <3> QED BY <1>2, <2>7, <3>4, Zenon DEF Foreseen
  <2> QED BY <2>6, <2>7
<1>3. CASE ~(n <= PatchedRun)
  <2>1. ControlShape(s)
    BY <1>1, <1>3, PlansAreWellFormed DEF IsScenario
  <2>2. /\ r.sequence = Len(s.plan) /\ r.disclosure = Nothing /\ l.disclosure = Nothing
        /\ a.kind \in {"read", "masked", "mock"}
    <3>1. n > PatchedRun
      BY <1>1, <1>3
    <3>2. a = s.plan[Len(s.plan)]
      OBVIOUS
    <3> QED BY <3>1, <3>2, Zenon DEF EndsIn
  <2>3. /\ s.outcome = (IF a.kind \in {"read", "masked"} THEN "SATISFIED" ELSE "INCONCLUSIVE")
        /\ s.response = (IF a.kind = "read" /\ a.arg # Tenant(a.session) THEN 403 ELSE 200)
    BY <2>1, Zenon DEF ControlShape
  <2>4. o = s.outcome /\ q = s.response
    BY <2>2, <2>3 DEF OracleViolated
  <2>5. /\ DOMAIN t = Results /\ t.status = "succeeded" /\ t.outcome = s.outcome
        /\ t.response = s.response /\ t.final = r
    BY <2>4 DEF Results
  <2> QED BY <1>3, <2>2, <2>5 DEF Foreseen
<1> QED BY <1>2, <1>3

\* The scenario under way is one of its campaign's.
LEMMA UnderWay ==
  ASSUME CampaignShape, run.pc \in {"root", "execute", "serve", "cleanup"}
  PROVE  /\ IsScenario(run.campaign, run.n, Current) /\ run.n \in Nat \ {0}
         /\ Plan = Current.plan /\ Total \in Nat /\ run.n <= Total
<1>1. run.campaign \in Campaigns /\ run.n \in 1..Total
  BY DEF CampaignShape
<1>2. /\ DOMAIN Scenarios(run.campaign) = 1..Total /\ Total \in {10, 16}
  BY <1>1, ScenariosAre DEF Total
<1> QED BY <1>1, <1>2 DEF IsScenario, Current, Plan

\* The results are not touched before the report.
LEMMA ResultsKept ==
  ASSUME CampaignShape, ResultsOK, run.pc \in {"root", "execute", "serve"},
         run'.pc # "ended", UNCHANGED <<done, faults>>,
         run'.campaign = run.campaign, run'.accepted = run.accepted
  PROVE  ResultsOK'
<1>1. /\ \A j \in DOMAIN done :
           \/ Foreseen(j, Scenarios(run.campaign)[j], done[j])
           \/ Faulted(done[j]) /\ faults > 0
      /\ faults > 0 => \E j \in DOMAIN done : Faulted(done[j])
      /\ ~run.accepted
  BY DEF ResultsOK
<1>2. \A j \in DOMAIN done' :
         \/ Foreseen(j, Scenarios(run'.campaign)[j], done'[j])
         \/ Faulted(done'[j]) /\ faults' > 0
  BY <1>1
<1>3. faults' > 0 => \E j \in DOMAIN done' : Faulted(done'[j])
  BY <1>1
<1> QED BY <1>1, <1>2, <1>3 DEF ResultsOK

\* Nor is the place of the campaign.
LEMMA ShapeKept ==
  ASSUME CampaignShape, run.pc \in {"root", "execute", "serve"}, UNCHANGED <<done, faults>>,
         run'.pc \in {"execute", "serve", "cleanup"}, DOMAIN run' = RunFields,
         run'.campaign = run.campaign, run'.n = run.n, run'.active = TRUE,
         DOMAIN request' = Workers
  PROVE  CampaignShape' /\ Current' = Current /\ Plan' = Plan
<1>1. Total' = Total /\ Current' = Current
  BY DEF Total, Current
<1>2. Plan' = Plan
  BY <1>1 DEF Plan
<1>3. /\ run.campaign \in Campaigns /\ run.n \in 1..Total /\ run.n \in Nat \ {0}
      /\ run.n <= Total + 1 /\ Listed(done) /\ Len(done) = run.n - 1 /\ faults \in Nat
  BY DEF CampaignShape
<1>4. CampaignShape'
  BY <1>1, <1>3 DEF CampaignShape
<1> QED BY <1>1, <1>2, <1>4

\* Every plan is authorised, and starts on a clean lab (create_root_seed).
LEMMA RootKeeps == ASSUME CInv, Root PROVE CInv'
<1>0. CampaignShape /\ ResultsOK /\ run.pc = "root" /\ DOMAIN run = RunFields
  BY DEF CInv, Root, At, CampaignShape
<1>1. /\ IsScenario(run.campaign, run.n, Current) /\ run.n \in Nat \ {0}
      /\ Plan = Current.plan
  BY <1>0, UnderWay
<1>2. /\ LabAt(run.n, Current, 0, Canonical(Current.mode)) /\ WellFormed(Plan)
      /\ 1 \in DOMAIN Plan
  BY <1>1, ScenarioStart
<1>3. Authorised(run.campaign, Plan)
  BY <1>2, PlanAllowed DEF Authorised
<1>4. /\ lab' = Canonical(Current.mode) /\ request' = [w \in Workers |-> Nothing]
      /\ run' = [run EXCEPT !.pc = "execute", !.i = 1, !.active = TRUE,
                   !.used = NoSlot, !.status = "failed", !.failed = Nothing,
                   !.code = Nothing, !.outcome = Nothing, !.response = Nothing]
      /\ UNCHANGED <<done, faults>>
  BY <1>3, Zenon DEF Root
<1>5. /\ DOMAIN run' = RunFields /\ run'.pc = "execute" /\ run'.i = 1 /\ run'.active = TRUE
      /\ run'.used = NoSlot /\ run'.campaign = run.campaign /\ run'.n = run.n
      /\ run'.accepted = run.accepted
  BY <1>0, <1>4 DEF RunFields
<1>6. DOMAIN request' = Workers
  BY <1>4
<1>7. CampaignShape' /\ Current' = Current /\ Plan' = Plan
  BY <1>0, <1>4, <1>5, <1>6, ShapeKept
<1>8. ResultsOK'
  BY <1>0, <1>4, <1>5, ResultsKept
<1>9. RunningOK'
  <2>1. run'.i - 1 = 0 /\ run'.i \in DOMAIN Plan'
    BY <1>2, <1>5, <1>7
  <2>2. LabAt(run'.n, Current', run'.i - 1, lab')
    BY <1>2, <1>4, <1>5, <1>7, <2>1
  <2>3. run'.used = Slot(Plan', run'.i)
    BY <1>5, FirstSlot
  <2> QED BY <1>5, <2>1, <2>2, <2>3 DEF RunningOK
<1> QED BY <1>7, <1>8, <1>9 DEF CInv

\* Every action passes the guard of the observed counts and the authorization of
\* its slot (execute, require_allows).
LEMMA ExecuteKeeps == ASSUME CInv, Execute PROVE CInv'
<1>0. /\ CampaignShape /\ ResultsOK /\ run.pc = "execute" /\ DOMAIN run = RunFields
      /\ run.active = TRUE /\ DOMAIN request = Workers
  BY DEF CInv, Execute, At, CampaignShape
<1>1. /\ IsScenario(run.campaign, run.n, Current) /\ run.n \in Nat \ {0}
      /\ Plan = Current.plan
  BY <1>0, UnderWay
<1>2. /\ run.i \in DOMAIN Plan /\ LabAt(run.n, Current, run.i - 1, lab)
      /\ run.used = Slot(Plan, run.i)
  BY <1>0 DEF CInv, RunningOK
<1>3. WellFormed(Plan) /\ run.i \in Nat \ {0}
  BY <1>1, <1>2, ScenarioStart
<1>4. lab.sequence = run.i - 1
  BY <1>2, ScenarioLab
<1>5. RequireAllows(Authorization(run.campaign, Plan, run.i), Envelope(Plan, run.i),
                    EvaluatedAt, run.used)
  BY <1>2, <1>3, PlanAllowed
<1>6. /\ Authenticate(Worker, Step.session)
      /\ run' = [run EXCEPT !.pc = "serve", !.used.requests = @ + 1,
                            !.used.writes = @ + IF IsWrite(Step) THEN 1 ELSE 0]
      /\ UNCHANGED <<done, faults>>
  BY <1>4, <1>5, Zenon DEF Execute
<1>7. lab' = lab /\ request' = [request EXCEPT ![Worker] = Step.session]
  BY <1>6 DEF Authenticate
<1>8. Slot(Plan, run.i + 1) = [requests |-> run.used.requests + 1,
                               writes |-> run.used.writes + (IF IsWrite(Step) THEN 1 ELSE 0)]
  BY <1>2, <1>3, NextSlot DEF Step
<1>9. /\ DOMAIN run.used = {"requests", "writes"}
      /\ run.used = [f \in {"requests", "writes"} |-> run.used[f]]
  BY <1>2 DEF Slot
<1>10. /\ DOMAIN run' = RunFields /\ run'.pc = "serve" /\ run'.i = run.i /\ run'.active = TRUE
       /\ run'.campaign = run.campaign /\ run'.n = run.n /\ run'.accepted = run.accepted
  BY <1>0, <1>6 DEF RunFields
<1>11. run'.used = Slot(Plan, run.i + 1)
  <2> DEFINE w == IF IsWrite(Step) THEN 1 ELSE 0
  <2>1. run' = [run EXCEPT !.pc = "serve", !.used.requests = @ + 1, !.used.writes = @ + w]
    BY <1>6
  <2> HIDE DEF w
  <2>2. run'.used = [[run.used EXCEPT !.requests = run.used.requests + 1]
                               EXCEPT !.writes = run.used.writes + w]
    BY <1>0, <1>9, <2>1 DEF RunFields
  <2>3. run'.used = [requests |-> run.used.requests + 1, writes |-> run.used.writes + w]
    BY <1>9, <2>2
  <2> QED BY <1>8, <2>3 DEF w
<1>12. DOMAIN request' = Workers /\ request'[Worker] = Step.session
  BY <1>0, <1>7, FaultsAssumption
<1>13. CampaignShape' /\ Current' = Current /\ Plan' = Plan
  BY <1>0, <1>6, <1>10, <1>12, ShapeKept
<1>14. ResultsOK'
  BY <1>0, <1>6, <1>10, ResultsKept
<1>15. RunningOK'
  <2>1. Step' = Step
    BY <1>10, <1>13 DEF Step
  <2>2. run'.i \in DOMAIN Plan' /\ LabAt(run'.n, Current', run'.i - 1, lab')
    BY <1>2, <1>7, <1>10, <1>13
  <2>3. run'.used = Slot(Plan', run'.i + 1) /\ request'[Worker] = Step'.session
    BY <1>10, <1>11, <1>12, <1>13, <2>1
  <2> QED BY <1>10, <2>2, <2>3 DEF RunningOK
<1> QED BY <1>13, <1>14, <1>15 DEF CInv

\* Every step takes the lab where the plan has it, and the last one to the
\* outcome and the response that are foreseen.
LEMMA ServeKeeps == ASSUME CInv, Serve PROVE CInv'
<1>0. /\ CampaignShape /\ ResultsOK /\ run.pc = "serve" /\ DOMAIN run = RunFields
      /\ run.active = TRUE /\ DOMAIN request = Workers /\ UNCHANGED <<done, faults>>
  BY DEF CInv, Serve, At, CampaignShape
<1>1. /\ IsScenario(run.campaign, run.n, Current) /\ run.n \in Nat \ {0}
      /\ Plan = Current.plan
  BY <1>0, UnderWay
<1>2. /\ run.i \in DOMAIN Plan /\ LabAt(run.n, Current, run.i - 1, lab)
      /\ run.used = Slot(Plan, run.i + 1) /\ request[Worker] = Step.session
  BY <1>0 DEF CInv, RunningOK
<1>3. Len(Plan) \in Nat /\ run.i \in 1..Len(Plan)
  BY <1>1, <1>2, ScenarioStart
<1>4. IsLab(lab) /\ lab.sequence = run.i - 1
  BY <1>2, ScenarioLab
<1>5. Effect(lab, Step, lab') /\ request' = [request EXCEPT ![Worker] = Nothing]
  <2>1. DOMAIN lab = LabFields /\ lab = [f \in LabFields |-> lab[f]]
    BY <1>4 DEF IsLab
  <2>2. lab.sequence \in Nat
    BY <1>3, <1>4
  <2>3. Handled /\ lab'.sequence = lab.sequence + 1
    BY DEF Serve
  <2> QED BY <1>2, <2>1, <2>2, <2>3, HandledEffect
<1>6. Step = Current.plan[run.i] /\ DOMAIN request' = Workers
  BY <1>0, <1>1, <1>5 DEF Step
<1>7. CASE run.i # Len(Plan)
  <2>1. run' = [run EXCEPT !.pc = "execute", !.i = @ + 1]
    BY <1>7 DEF Serve
  <2>2. /\ DOMAIN run' = RunFields /\ run'.pc = "execute" /\ run'.i = run.i + 1
        /\ run'.active = TRUE /\ run'.used = run.used
        /\ run'.campaign = run.campaign /\ run'.n = run.n /\ run'.accepted = run.accepted
    BY <1>0, <2>1 DEF RunFields
  <2>3. CampaignShape' /\ Current' = Current /\ Plan' = Plan
    BY <1>0, <1>6, <2>2, ShapeKept
  <2>4. ResultsOK'
    BY <1>0, <2>2, ResultsKept
  <2>5. LabAt(run.n, Current, run.i, lab')
    <3>1. run.i < Len(Current.plan) /\ run.i \in DOMAIN Current.plan
      BY <1>1, <1>2, <1>3, <1>7
    <3> QED BY <1>1, <1>2, <1>5, <1>6, <3>1, ScenarioStep
  <2>6. RunningOK'
    <3>1. run'.i - 1 = run.i /\ run'.i \in DOMAIN Plan'
      <4>1. DOMAIN Plan = 1..Len(Plan)
        BY <1>1, ScenarioStart
      <4> QED BY <1>3, <1>7, <2>2, <2>3, <4>1
    <3>2. LabAt(run'.n, Current', run'.i - 1, lab')
      BY <2>2, <2>3, <2>5, <3>1
    <3>3. run'.used = Slot(Plan', run'.i)
      BY <1>2, <2>2, <2>3
    <3> QED BY <2>2, <3>1, <3>2, <3>3 DEF RunningOK
  <2> QED BY <2>3, <2>4, <2>6 DEF CInv
<1>8. CASE run.i = Len(Plan)
  <2> DEFINE o == Outcome(lab')
             q == Response(lab, lab')
             same == o = Current.outcome
             st == IF same THEN "succeeded" ELSE "failed"
             fl == IF same THEN Nothing ELSE run.i
             cd == IF same THEN Nothing ELSE "ORACLE_EXPECTATION_MISMATCH"
  <2>1. run' = [run EXCEPT !.pc = "cleanup", !.outcome = o, !.response = q,
                  !.status = st, !.failed = fl, !.code = cd]
    BY <1>8, Zenon DEF Serve
  <2>t. PICK t : t = [status |-> st, failed |-> fl, code |-> cd,
                      outcome |-> o, response |-> q, final |-> lab']
    OBVIOUS
  <2>2. Foreseen(run.n, Current, t)
    <3>1. EndsIn(run.n, Current, lab, lab')
      BY <1>1, <1>2, <1>5, <1>6, <1>8, ScenarioEnd
    <3>2. o = IF OracleViolated(lab') THEN "VIOLATED"
              ELSE IF Step.kind \in {"read", "masked"} THEN "SATISFIED" ELSE "INCONCLUSIVE"
      BY Zenon DEF Outcome
    <3>3. q = IF Step.kind = "read" /\ Step.arg # Tenant(Step.session)
                   /\ lab'.disclosure = lab.disclosure THEN 403 ELSE 200
      BY Zenon DEF Response
    <3>4. run.i = Len(Current.plan)
      BY <1>1, <1>8
    <3> HIDE DEF o, q
    <3> QED BY <1>1, <1>6, <2>t, <3>1, <3>2, <3>3, <3>4, EndForeseen
  <2> HIDE DEF o, q, st, fl, cd, same
  <2>3. /\ DOMAIN run' = RunFields /\ run'.pc = "cleanup" /\ run'.active = TRUE
        /\ run'.campaign = run.campaign /\ run'.n = run.n /\ run'.accepted = run.accepted
        /\ run'.status = st /\ run'.failed = fl /\ run'.code = cd
        /\ run'.outcome = o /\ run'.response = q
    BY <1>0, <2>1 DEF RunFields
  <2>4. CampaignShape' /\ Current' = Current /\ Plan' = Plan
    BY <1>0, <1>6, <2>3, ShapeKept
  <2>5. ResultsOK'
    BY <1>0, <2>3, ResultsKept
  <2>6. Result' = t
    BY <2>t, <2>3 DEF Result
  <2>7. RunningOK'
    BY <2>2, <2>3, <2>4, <2>6 DEF RunningOK
  <2> QED BY <2>4, <2>5, <2>7 DEF CInv
<1> QED BY <1>7, <1>8

\* A failed step is a fault, and so is a campaign without a root.
LEMMA FaultKeeps == ASSUME CInv, Fault PROVE CInv'
<1>0. /\ CampaignShape /\ ResultsOK /\ DOMAIN run = RunFields /\ DOMAIN request = Workers
      /\ faults \in Nat /\ faults' = faults + 1 /\ UNCHANGED <<lab, request, done>>
      /\ run.pc \in {"root", "execute", "serve"}
  BY DEF CInv, Fault, Failing, At, CampaignShape, vars
<1>1. /\ IsScenario(run.campaign, run.n, Current) /\ run.n \in Nat \ {0}
      /\ Plan = Current.plan /\ Total \in Nat /\ run.n <= Total
  BY <1>0, UnderWay
<1>2. /\ \A j \in DOMAIN done :
           \/ Foreseen(j, Scenarios(run.campaign)[j], done[j])
           \/ Faulted(done[j]) /\ faults > 0
      /\ ~run.accepted
  BY <1>0 DEF ResultsOK
<1>3. faults' \in Nat /\ faults' > 0 /\ (faults > 0 => faults' > 0)
  BY <1>0
<1>4. /\ run.campaign \in Campaigns /\ run.n \in 1..Total /\ run.n <= Total + 1
      /\ Listed(done) /\ Len(done) = run.n - 1
  BY <1>0 DEF CampaignShape
<1>5. \A j \in DOMAIN done' :
         \/ Foreseen(j, Scenarios(run.campaign)[j], done'[j])
         \/ Faulted(done'[j]) /\ faults' > 0
  BY <1>0, <1>2, <1>3
<1>6. CASE run.pc \in {"execute", "serve"}
  <2>1. \E code \in {"ACTION_FAILED", "STEP_TIMEOUT"} :
          run' = [run EXCEPT !.pc = "cleanup", !.status = "failed", !.failed = run.i,
                             !.code = code]
    BY <1>6 DEF Fault, StepFails, At
  <2>2. /\ DOMAIN run' = RunFields /\ run'.pc = "cleanup" /\ run'.active = TRUE
        /\ run'.campaign = run.campaign /\ run'.n = run.n /\ run'.accepted = run.accepted
        /\ run'.status = "failed" /\ run'.code \in {"ACTION_FAILED", "STEP_TIMEOUT"}
    <3>1. run.active = TRUE
      BY <1>0, <1>6 DEF CampaignShape
    <3> QED BY <1>0, <2>1, <3>1 DEF RunFields
  <2>3. Total' = Total
    BY <2>2 DEF Total
  <2>4. Faulted(Result')
    BY <2>2 DEF Faulted, Result
  <2>5. CampaignShape'
    BY <1>0, <1>1, <1>3, <1>4, <2>2, <2>3 DEF CampaignShape
  <2>6. RunningOK'
    BY <1>3, <2>2, <2>4 DEF RunningOK
  <2>7. ResultsOK'
    BY <1>2, <1>5, <2>2, <2>4 DEF ResultsOK
  <2> QED BY <2>5, <2>6, <2>7 DEF CInv
<1>7. CASE run.pc = "root"
  <2>1. run' = [run EXCEPT !.pc = "ended"]
    BY <1>7 DEF Fault, StepFails, At, Raise
  <2>2. /\ DOMAIN run' = RunFields /\ run'.pc = "ended"
        /\ run'.campaign = run.campaign /\ run'.n = run.n /\ run'.accepted = run.accepted
    BY <1>0, <2>1 DEF RunFields
  <2>3. Total' = Total
    BY <2>2 DEF Total
  <2>5. CampaignShape'
    BY <1>0, <1>1, <1>3, <1>4, <2>2, <2>3 DEF CampaignShape
  <2>6. RunningOK'
    BY <2>2 DEF RunningOK
  <2>7. ResultsOK'
    <3>1. ~run'.accepted /\ ~(faults' = 0)
      BY <1>2, <1>3, <2>2
    <3> QED BY <1>5, <2>2, <3>1 DEF ResultsOK
  <2> QED BY <2>5, <2>6, <2>7 DEF CInv
<1> QED BY <1>0, <1>6, <1>7

\* The kernel's finally keeps what came of the scenario, and its own failure is a fault.
LEMMA CleanUpKeeps == ASSUME CInv, CleanUp PROVE CInv'
<1>0. /\ CampaignShape /\ ResultsOK /\ DOMAIN run = RunFields /\ DOMAIN request = Workers
      /\ run.pc = "cleanup" /\ UNCHANGED <<lab, request>>
      /\ faults \in Nat /\ Listed(done) /\ Len(done) = run.n - 1
      /\ run.campaign \in Campaigns
  BY DEF CInv, CleanUp, At, CampaignShape, vars
<1>1. /\ IsScenario(run.campaign, run.n, Current) /\ run.n \in Nat \ {0}
      /\ Total \in Nat /\ run.n <= Total
  BY <1>0, UnderWay
<1>2. Foreseen(run.n, Current, Result) \/ (Faulted(Result) /\ faults > 0)
  BY <1>0 DEF CInv, RunningOK
<1>3. /\ \A j \in DOMAIN done :
           \/ Foreseen(j, Scenarios(run.campaign)[j], done[j])
           \/ Faulted(done[j]) /\ faults > 0
      /\ faults > 0 => (\E j \in DOMAIN done : Faulted(done[j])) \/ Faulted(Result)
      /\ ~run.accepted
  BY <1>0 DEF ResultsOK
<1>4. PICK r : /\ done' = Append(done, r)
               /\ \/ r = Result /\ faults' = faults
                  \/ Faulted(r) /\ faults' = faults + 1
  <2>1. [Result EXCEPT !.status = "cleanup_failed",
                       !.failed = IF @ = Nothing THEN 0 ELSE @].status = "cleanup_failed"
    BY DEF Result
  <2>2. Faulted([Result EXCEPT !.status = "cleanup_failed",
                               !.failed = IF @ = Nothing THEN 0 ELSE @])
    BY <2>1, Zenon DEF Faulted
  <2> QED BY <2>2, Zenon DEF CleanUp, Failing
<1>5. /\ Listed(done') /\ Len(done') = run.n /\ DOMAIN done' = 1..run.n
      /\ done'[run.n] = r /\ DOMAIN done = 1..(run.n - 1)
      /\ \A j \in 1..(run.n - 1) : done'[j] = done[j]
  <2>1. /\ Listed(Append(done, r)) /\ DOMAIN Append(done, r) = 1..(Len(done) + 1)
        /\ Len(Append(done, r)) = Len(done) + 1 /\ Append(done, r)[Len(done) + 1] = r
        /\ \A j \in DOMAIN done : Append(done, r)[j] = done[j]
    BY <1>0, ListedAppend
  <2>2. DOMAIN done = 1..(run.n - 1)
    BY <1>0, ListedIsFunction
  <2>3. Len(done) + 1 = run.n
    BY <1>0, <1>1
  <2> QED BY <1>4, <2>1, <2>2, <2>3
<1>6. faults' \in Nat /\ (faults > 0 => faults' > 0) /\ (faults' = faults + 1 => faults' > 0)
  BY <1>0, <1>4
<1>7. /\ DOMAIN run' = RunFields /\ run'.campaign = run.campaign /\ run'.n = run.n + 1
      /\ ~run'.active /\ run'.accepted = run.accepted
      /\ run'.pc = IF run.n = Total THEN "report" ELSE "root"
  <2>1. run' = [run EXCEPT !.active = FALSE, !.n = @ + 1, !.pc =
                  IF run.n = Total THEN "report" ELSE "root"]
    BY DEF CleanUp, Total
  <2> QED BY <1>0, <2>1 DEF RunFields
<1>8. Total' = Total
  BY <1>7 DEF Total
<1>9. CampaignShape'
  <2>1. run'.pc \in {"report", "root"} /\ run'.active = FALSE
    <3>1. run'.active = FALSE
      BY <1>0 DEF CleanUp, RunFields
    <3> QED BY <1>7, <3>1
  <2>2. /\ run'.pc = "root" => run'.n \in 1..Total
        /\ run'.pc = "report" => run'.n = Total + 1
        /\ run'.n \in Nat \ {0} /\ run'.n <= Total + 1 /\ Len(done') = run'.n - 1
    BY <1>1, <1>5, <1>7
  <2>3. /\ run'.pc \in {"root", "execute", "serve", "cleanup"} => run'.n \in 1..Total'
        /\ run'.pc = "report" => run'.n = Total' + 1
        /\ run'.n \in Nat \ {0} /\ run'.n <= Total' + 1
    BY <1>8, <2>1, <2>2
  <2>4. run'.active = (run'.pc \in {"execute", "serve", "cleanup"}) \/ run'.pc = "ended"
    <3>1. (run'.pc \in {"execute", "serve", "cleanup"}) = FALSE
      BY <2>1
    <3> QED BY <2>1, <3>1, Zenon
  <2>5. DOMAIN request' = Workers /\ run'.campaign \in Campaigns
        /\ run'.pc \in {"root", "execute", "serve", "cleanup", "report", "ended"}
    BY <1>0, <1>7, <2>1
  <2> QED BY <1>5, <1>6, <1>7, <2>2, <2>3, <2>4, <2>5 DEF CampaignShape
<1>10. RunningOK'
  BY <1>7 DEF RunningOK
<1>11. \A j \in DOMAIN done' :
         \/ Foreseen(j, Scenarios(run'.campaign)[j], done'[j])
         \/ Faulted(done'[j]) /\ faults' > 0
  <2> TAKE j \in DOMAIN done'
  <2>1. CASE j = run.n
    BY <1>2, <1>4, <1>5, <1>6, <1>7, <2>1 DEF Current
  <2>2. CASE j # run.n
    <3>1. j \in DOMAIN done /\ done'[j] = done[j]
      BY <1>1, <1>5, <2>2
    <3> QED BY <1>3, <1>6, <1>7, <3>1
  <2> QED BY <2>1, <2>2
<1>12. faults' > 0 => \E j \in DOMAIN done' : Faulted(done'[j])
  <2>1. CASE Faulted(r)
    BY <1>1, <1>5, <2>1
  <2>2. CASE ~Faulted(r) /\ faults' > 0
    <3>1. faults > 0 /\ ~Faulted(Result)
      BY <1>4, <2>2
    <3>2. PICK j \in DOMAIN done : Faulted(done[j])
      BY <1>3, <3>1
    <3>3. j \in DOMAIN done' /\ done'[j] = done[j]
      BY <1>1, <1>5
    <3> QED BY <3>2, <3>3
  <2> QED BY <2>1, <2>2
<1>13. ResultsOK'
  BY <1>3, <1>7, <1>11, <1>12 DEF ResultsOK
<1> QED BY <1>9, <1>10, <1>13 DEF CInv

\* The report accepts a campaign exactly when nothing has failed
\* (VerificationReport.accepted, _validate_receipt).
LEMMA AcceptedFaultless ==
  ASSUME CampaignShape, Len(done) = Total,
         \A j \in DOMAIN done :
           \/ Foreseen(j, Scenarios(run.campaign)[j], done[j])
           \/ Faulted(done[j]) /\ faults > 0,
         faults > 0 => \E j \in DOMAIN done : Faulted(done[j])
  PROVE  Accepted <=> faults = 0
<1>1. /\ faults \in Nat /\ DOMAIN done = 1..Total /\ Total \in {10, 16}
      /\ DOMAIN Scenarios(run.campaign) = 1..Total /\ run.campaign \in Campaigns
      /\ VulnerableRuns = 5 /\ PatchedRun = 6
  BY ListedIsFunction, ScenariosAre DEF CampaignShape, Total, VulnerableRuns, PatchedRun
<1>2. ASSUME Accepted, faults > 0 PROVE FALSE
  <2>1. PICK j \in DOMAIN done : Faulted(done[j])
    BY <1>2
  <2>2. CASE j = PatchedRun
    BY <1>2, <2>1, <2>2 DEF Accepted, Blocked, Faulted
  <2>3. CASE j # PatchedRun
    BY <1>2, <2>1, <2>3 DEF Accepted, Reproduced, Faulted
  <2> QED BY <2>2, <2>3
<1>3. ASSUME faults = 0 PROVE Accepted
  <2>1. \A j \in DOMAIN done : Foreseen(j, Scenarios(run.campaign)[j], done[j])
    BY <1>3
  <2>2. \A j \in 1..5 :
          done[j] = [status |-> "succeeded", failed |-> Nothing, code |-> Nothing,
                     outcome |-> "VIOLATED", response |-> 200,
                     final |-> ChainLab("vulnerable", 8)]
    <3> TAKE j \in 1..5
    <3>1. j \in DOMAIN done /\ j <= PatchedRun /\ j < PatchedRun
      BY <1>1
    <3>2. Foreseen(j, Scenarios(run.campaign)[j], done[j])
      BY <2>1, <3>1
    <3> QED BY <3>1, <3>2, Zenon DEF Foreseen
  <2>3. done[6] = [status |-> "failed", failed |-> 8, code |-> "ORACLE_EXPECTATION_MISMATCH",
                   outcome |-> "SATISFIED", response |-> 403,
                   final |-> ChainLab("patched", 8)]
    <3>1. 6 \in DOMAIN done /\ 6 <= PatchedRun /\ ~(6 < PatchedRun)
      BY <1>1
    <3>2. Foreseen(6, Scenarios(run.campaign)[6], done[6])
      BY <2>1, <3>1
    <3> QED BY <3>1, <3>2, Zenon DEF Foreseen
  <2>4. Deterministic
    BY <1>1, <2>2 DEF Deterministic
  <2>5. ASSUME NEW j \in DOMAIN done, j # 6 PROVE Reproduced(j)
    <3>1. CASE j \in 1..5
      <4>1. /\ Scenarios(run.campaign)[j].outcome = "VIOLATED"
            /\ Scenarios(run.campaign)[j].response = 200
        BY <1>1, <3>1, PlansAreWellFormed
      <4>2. /\ done[j].status = "succeeded" /\ done[j].outcome = "VIOLATED"
            /\ done[j].response = 200
        BY <2>2, <3>1
      <4> QED BY <4>1, <4>2 DEF Reproduced
    <3>2. CASE j \notin 1..5
      <4>1. ~(j <= PatchedRun)
        BY <1>1, <2>5, <3>2
      <4>2. Foreseen(j, Scenarios(run.campaign)[j], done[j])
        BY <2>1
      <4> QED BY <4>1, <4>2 DEF Foreseen, Reproduced
    <3> QED BY <3>1, <3>2
  <2>6. Blocked(done[6])
    <3>1. Len(Chain) = 8
      <4>1. Extended(Chain, Read("a_old", "B"))
        BY ExtendedSetup DEF Chain
      <4> QED BY <4>1 DEF Extended
    <3> QED BY <2>3, <3>1 DEF Blocked
  <2> QED BY <1>1, <2>4, <2>5, <2>6 DEF Accepted, Total
<1> QED BY <1>1, <1>2, <1>3

\* The report is on every scenario, or the guard of the campaign has tripped.
LEMMA ReportKeeps == ASSUME CInv, Report PROVE CInv'
<1>0. /\ CampaignShape /\ ResultsOK /\ DOMAIN run = RunFields /\ DOMAIN request = Workers
      /\ run.pc = "report" /\ UNCHANGED <<lab, request, done>> /\ faults \in Nat
      /\ Listed(done) /\ Len(done) = run.n - 1 /\ run.n = Total + 1
      /\ run.n \in Nat \ {0} /\ run.campaign \in Campaigns /\ ~run.active
  BY DEF CInv, Report, At, CampaignShape, vars
<1>1. Total \in Nat /\ Len(done) = Total
  <2>1. Total \in {10, 16}
    BY <1>0, ScenariosAre DEF Total
  <2> QED BY <1>0, <2>1
<1>2. /\ \A j \in DOMAIN done :
           \/ Foreseen(j, Scenarios(run.campaign)[j], done[j])
           \/ Faulted(done[j]) /\ faults > 0
      /\ faults > 0 => \E j \in DOMAIN done : Faulted(done[j])
      /\ ~run.accepted
  BY <1>0 DEF ResultsOK
<1>3. Accepted <=> faults = 0
  BY <1>0, <1>1, <1>2, AcceptedFaultless
<1>4. /\ DOMAIN run' = RunFields /\ run'.pc = "ended" /\ run'.n = run.n
      /\ run'.campaign = run.campaign /\ ~run'.active /\ faults' \in Nat
      /\ run'.accepted <=> faults' = 0
      /\ faults > 0 => faults' > 0
  <2>1. CASE run' = [run EXCEPT !.pc = "ended", !.accepted = Accepted] /\ faults' = faults
    <3> DEFINE v == Accepted
    <3>1. v <=> faults = 0
      BY <1>3
    <3>2. run' = [run EXCEPT !.pc = "ended", !.accepted = v]
      BY <2>1
    <3> HIDE DEF v
    <3>3. /\ DOMAIN run' = RunFields /\ run'.pc = "ended" /\ run'.n = run.n
          /\ run'.campaign = run.campaign /\ run'.active = run.active
          /\ run'.accepted = v
      BY <1>0, <3>2 DEF RunFields
    <3> QED BY <1>0, <2>1, <3>1, <3>3
  <2>2. CASE Raise /\ Failing
    <3>1. /\ DOMAIN run' = RunFields /\ run'.pc = "ended" /\ run'.n = run.n
          /\ run'.campaign = run.campaign /\ run'.active = run.active
          /\ run'.accepted = run.accepted
      BY <1>0, <2>2 DEF RunFields, Raise
    <3>2. faults' = faults + 1
      BY <2>2 DEF Failing
    <3>3. faults' \in Nat /\ faults' > 0 /\ ~(faults' = 0)
      BY <1>0, <3>2
    <3> QED BY <1>0, <1>2, <3>1, <3>3
  <2> QED BY <2>1, <2>2, Zenon DEF Report
<1>5. Total' = Total
  BY <1>4 DEF Total
<1>6. CampaignShape'
  <2>1. run'.n <= Total + 1
    BY <1>0, <1>1, <1>4
  <2> QED BY <1>0, <1>4, <1>5, <2>1 DEF CampaignShape
<1>7. RunningOK'
  BY <1>4 DEF RunningOK
<1>8. ResultsOK'
  <2>1. \A j \in DOMAIN done' :
         \/ Foreseen(j, Scenarios(run'.campaign)[j], done'[j])
         \/ Faulted(done'[j]) /\ faults' > 0
    BY <1>0, <1>2, <1>4
  <2>2. Len(done') = Total'
    BY <1>0, <1>1, <1>5
  <2> QED BY <1>4, <2>1, <2>2 DEF ResultsOK
<1> QED BY <1>6, <1>7, <1>8 DEF CInv

\* A campaign starts with its first scenario.
LEMMA CInvInit == ChainInit => CInv
<1> SUFFICES ASSUME ChainInit PROVE CInv
  OBVIOUS
<1>1. PICK c \in Campaigns :
        run = [pc |-> "root", campaign |-> c, n |-> 1, i |-> 1, active |-> FALSE,
               used |-> NoSlot, status |-> "failed", failed |-> Nothing,
               code |-> Nothing, outcome |-> Nothing, response |-> Nothing,
               accepted |-> FALSE]
  BY DEF ChainInit
<1>2. done = <<>> /\ faults = 0 /\ DOMAIN request = Workers
  BY DEF ChainInit
<1>3. Total \in {10, 16}
  BY <1>1, ScenariosAre DEF Total
<1>4. Listed(done) /\ Len(done) = 0 /\ DOMAIN done = {}
  BY <1>2, ListedEmpty
<1>5. /\ DOMAIN run = RunFields /\ run.pc = "root" /\ run.campaign \in Campaigns
      /\ run.n = 1 /\ run.active = FALSE /\ run.accepted = FALSE
  BY <1>1 DEF RunFields
<1>6. CampaignShape
  <2>1. /\ run.pc \in {"root", "execute", "serve", "cleanup"} => run.n \in 1..Total
        /\ run.pc = "report" => run.n = Total + 1
        /\ run.n \in Nat \ {0} /\ run.n <= Total + 1 /\ Len(done) = run.n - 1
    BY <1>3, <1>4, <1>5
  <2>2. run.active = (run.pc \in {"execute", "serve", "cleanup"}) \/ run.pc = "ended"
    <3>1. (run.pc \in {"execute", "serve", "cleanup"}) = FALSE
      BY <1>5
    <3> QED BY <1>5, <3>1, Zenon
  <2>3. faults \in Nat
        /\ run.pc \in {"root", "execute", "serve", "cleanup", "report", "ended"}
    BY <1>2, <1>5
  <2> QED BY <1>2, <1>4, <1>5, <2>1, <2>2, <2>3 DEF CampaignShape
<1>7. RunningOK
  BY <1>5 DEF RunningOK
<1>8. ResultsOK
  BY <1>2, <1>4, <1>5 DEF ResultsOK
<1> QED BY <1>6, <1>7, <1>8 DEF CInv

\* And every step keeps it.
LEMMA CInvNext == CInv /\ [ChainNext]_chainVars => CInv'
<1> SUFFICES ASSUME CInv, [ChainNext]_chainVars PROVE CInv'
  OBVIOUS
<1>1. CASE Root
  BY <1>1, RootKeeps
<1>2. CASE Execute
  BY <1>2, ExecuteKeeps
<1>3. CASE Serve
  BY <1>3, ServeKeeps
<1>4. CASE CleanUp
  BY <1>4, CleanUpKeeps
<1>5. CASE Report
  BY <1>5, ReportKeeps
<1>6. CASE Fault
  BY <1>6, FaultKeeps
<1>7. CASE UNCHANGED chainVars
  <2>1. lab' = lab /\ request' = request /\ run' = run /\ done' = done /\ faults' = faults
    BY <1>7 DEF chainVars, vars
  <2>2. /\ Total' = Total /\ Current' = Current /\ Result' = Result
    BY <2>1 DEF Total, Current, Result
  <2>3. Plan' = Plan
    BY <2>2 DEF Plan
  <2>4. Step' = Step
    BY <2>1, <2>3 DEF Step
  <2>5. CampaignShape'
    BY <2>1, <2>2 DEF CInv, CampaignShape
  <2>6. RunningOK'
    BY <2>1, <2>2, <2>3, <2>4 DEF CInv, RunningOK
  <2>7. ResultsOK'
    BY <2>1, <2>2 DEF CInv, ResultsOK
  <2> QED BY <2>5, <2>6, <2>7 DEF CInv
<1> QED BY <1>1, <1>2, <1>3, <1>4, <1>5, <1>6, <1>7 DEF ChainNext, Progress

\* Wherever a campaign is, its lab is where the plan takes it and its results are
\* those foreseen, or something has failed (observed_chain_qualification,
\* verify_foundation).
THEOREM CampaignInvariance == ChainSpec => []CInv
<1>1. ChainInit => CInv
  BY CInvInit
<1>2. CInv /\ [ChainNext]_chainVars => CInv'
  BY CInvNext
<1> QED BY <1>1, <1>2, PTL DEF ChainSpec

\* The evidence of the patched lab differs from the other in its last piece only.
LEMMA LastPieceDiffers ==
  EvidenceAt("patched", 8) \cup {"disclosed"} = EvidenceAt("vulnerable", 8) \cup {"blocked"}
<1> DEFINE setup == {SetupEvidence[j] : j \in 1..7}
<1>1. EvidenceAt("patched", 8) = setup \cup {"blocked"}
  BY DEF EvidenceAt, LastEvidence
<1>2. EvidenceAt("vulnerable", 8) = setup \cup {"disclosed"}
  BY DEF EvidenceAt, LastEvidence
<1> HIDE DEF setup
<1> QED BY <1>1, <1>2

\* What a foreseen result leaves in the lab.
LEMMA ForeseenLab ==
  ASSUME NEW c, NEW n, NEW s, IsScenario(c, n, s), NEW r, Foreseen(n, s, r)
  PROVE  /\ OracleViolated(r.final) <=> n <= VulnerableRuns
         /\ r.final.sequence = Len(s.plan)
<1>1. n \in Int /\ PatchedRun = 6 /\ VulnerableRuns = 5
  BY ScenariosAre DEF IsScenario, PatchedRun, VulnerableRuns
<1>2. CASE n <= PatchedRun
  <2> DEFINE mode == IF n < PatchedRun THEN "vulnerable" ELSE "patched"
  <2>1. r.final = ChainLab(mode, 8)
    BY <1>2 DEF Foreseen
  <2>2. LabIs(r.final, mode, 8)
    BY <2>1, ChainLabIs
  <2>3. /\ r.final.sequence = 8
        /\ r.final.disclosure = IF n < PatchedRun THEN 8 ELSE Nothing
    BY <2>2 DEF LabIs
  <2>4. Len(s.plan) = 8
    <3>1. s.plan = Chain
      BY <1>2, PlansAreWellFormed DEF IsScenario
    <3>2. Extended(Chain, Read("a_old", "B"))
      BY ExtendedSetup DEF Chain
    <3> QED BY <3>1, <3>2 DEF Extended
  <2>5. 8 # Nothing
    BY NothingAssumption
  <2>6. n < PatchedRun <=> n <= VulnerableRuns
    BY <1>1
  <2> QED BY <2>3, <2>4, <2>5, <2>6 DEF OracleViolated
<1>3. CASE ~(n <= PatchedRun)
  <2>1. ~(n <= VulnerableRuns)
    BY <1>1, <1>3
  <2> QED BY <1>3, <2>1 DEF Foreseen, OracleViolated
<1> QED BY <1>2, <1>3

\* The report is sound wherever the invariant holds.
LEMMA ReportFromInvariant == CInv => ReportSound
<1> SUFFICES ASSUME CInv PROVE ReportSound
  OBVIOUS
<1>1. AcceptsExactly
  BY DEF CInv, ResultsOK, AcceptsExactly, Ended, At
<1>2. ASSUME Ended, run.accepted
      PROVE  /\ ~run.active
             /\ \A i \in DOMAIN done :
                  /\ OracleViolated(done[i].final) <=> i <= VulnerableRuns
                  /\ done[i].final.sequence = Len(Scenarios(run.campaign)[i].plan)
             /\ done[PatchedRun].final.outcomes \cup {"disclosed"} =
                  done[1].final.outcomes \cup {"blocked"}
  <2>1. /\ run.pc = "ended" /\ faults = 0 /\ ~run.active /\ Len(done) = Total
        /\ run.campaign \in Campaigns /\ Listed(done)
    BY <1>2 DEF CInv, CampaignShape, ResultsOK, Ended, At
  <2>2. /\ DOMAIN done = 1..Total /\ Total \in {10, 16} /\ PatchedRun = 6
        /\ DOMAIN Scenarios(run.campaign) = 1..Total
    BY <2>1, ListedIsFunction, ScenariosAre DEF Total, PatchedRun, VulnerableRuns
  <2>3. ASSUME NEW j \in DOMAIN done
        PROVE  Foreseen(j, Scenarios(run.campaign)[j], done[j])
    <3>1. ~(faults > 0)
      BY <2>1
    <3> QED BY <3>1 DEF CInv, ResultsOK
  <2>4. ASSUME NEW j \in DOMAIN done
        PROVE  /\ OracleViolated(done[j].final) <=> j <= VulnerableRuns
               /\ done[j].final.sequence = Len(Scenarios(run.campaign)[j].plan)
    <3>1. IsScenario(run.campaign, j, Scenarios(run.campaign)[j])
      BY <2>1, <2>2 DEF IsScenario
    <3> QED BY <2>3, <3>1, ForeseenLab
  <2>5. done[1].final = ChainLab("vulnerable", 8)
    <3>1. 1 \in DOMAIN done /\ 1 <= PatchedRun /\ 1 < PatchedRun
      BY <2>2
    <3> QED BY <2>3, <3>1 DEF Foreseen
  <2>6. done[PatchedRun].final = ChainLab("patched", 8)
    <3>1. PatchedRun \in DOMAIN done /\ PatchedRun <= PatchedRun /\ ~(PatchedRun < PatchedRun)
      BY <2>2
    <3> QED BY <2>3, <3>1 DEF Foreseen
  <2>7. /\ done[1].final.outcomes = EvidenceAt("vulnerable", 8)
        /\ done[PatchedRun].final.outcomes = EvidenceAt("patched", 8)
    <3>1. LabIs(done[1].final, "vulnerable", 8) /\ LabIs(done[PatchedRun].final, "patched", 8)
      BY <2>5, <2>6, ChainLabIs
    <3> QED BY <3>1 DEF LabIs
  <2> QED BY <2>1, <2>4, <2>7, LastPieceDiffers
<1>3. AcceptedMeansReproduced
  BY <1>2 DEF AcceptedMeansReproduced
<1> QED BY <1>1, <1>3 DEF ReportSound

\* The report accepts exactly the campaigns in which nothing failed, and an accepted
\* one stands on five disclosures, a patched lab that went the same way and kept the
\* document, and controls that kept it (verify_foundation, _validate_receipt).
THEOREM ReportSafety == ChainSpec => []ReportSound
<1>1. ChainSpec => []CInv
  BY CampaignInvariance
<1>2. CInv => ReportSound
  BY ReportFromInvariant
<1> QED BY <1>1, <1>2, PTL
================================================================================
