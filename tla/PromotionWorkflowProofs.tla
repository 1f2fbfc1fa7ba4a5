---------------------- MODULE PromotionWorkflowProofs ----------------------
(***************************************************************************)
(* Proofs about the promotion workflow, for all batches, limits, widths,   *)
(* identifiers and bounds.                                                 *)
(*                                                                         *)
(* An allocation is always in one of four places: on record (Actives and   *)
(* cleanup), in hand of the call that had it accepted or captured, waiting *)
(* for its release, or released.  The places are disjoint, so a release    *)
(* takes exactly one allocation out of custody.  What is in hand, and what *)
(* the call has still to try, is a part of the provisional reservations    *)
(* of the search; the search has reserved all of them on a valid ledger,   *)
(* so the commit loop can charge any part of them (Room).                  *)
(*                                                                         *)
(* The M4 search over the workflow keeps a second invariant (SInv).  A     *)
(* stage that commits as many worlds as its beam is wide has lost none on  *)
(* the way (Course), so the port holds only what is paid for, and the best *)
(* ghost, which every order of selection puts first (Top), is among it and *)
(* goes on to the next stage; the third stage has room for it alone.       *)
(***************************************************************************)
EXTENDS SearchQualification, SearchCampaignProofs

-----------------------------------------------------------------------------
(* The invariant.                                                          *)

\* Where the lines of the coroutine leave its locals.
Shape ==
  /\ At("idle") => run = Idle(run.outcome)
  /\ run.at \in {"allocating", "capturing"} => run.todo # <<>> /\ run.drop = {}
  /\ At("capturing") <=> run.current # None
  /\ At("releasing") => run.drop # {}
  /\ At("releasing") /\ run.after # "next" => run.todo = <<>>
  /\ At("releasing") /\ run.after = "end" => run.accepted = <<>>
  /\ At("closing") => run.todo = <<>> /\ run.accepted = <<>> /\ run.drop # {}
  /\ ~At("closing") => run.kept = {}

\* The world in hand counts as accepted while it is captured.
InHand ==
  IF At("capturing")
  THEN Append(run.accepted, [candidate |-> Request, allocation |-> run.current])
  ELSE run.accepted

Left == IF At("capturing") THEN Rest ELSE run.todo

\* What the workflow has on record.
Records ==
  /\ \A id \in AllocationIds : active[id] # None => active[id].allocation_id = id
  /\ \A a, b \in Actives : a.sibling_identity = b.sibling_identity => a = b
  /\ identities = IdentitiesOf(Actives \cup cleanup)
  /\ LedgerBacked

Unused(a) ==
  /\ active[a.allocation_id] = None
  /\ a.sibling_identity \notin IdentitiesOf(Actives)

\* What is in hand can be committed: it collides with nothing committed or about
\* to be, and every world is the one that was asked for.
Committable(acc) ==
  /\ \A i \in DOMAIN acc : /\ Unused(acc[i].allocation)
                          /\ acc[i].allocation.purpose = Purpose(acc[i].candidate)
  /\ \A i, j \in DOMAIN acc : i # j =>
       /\ acc[i].allocation.allocation_id # acc[j].allocation.allocation_id
       /\ acc[i].allocation.sibling_identity # acc[j].allocation.sibling_identity

CandidatesOf(acc) == [i \in DOMAIN acc |-> acc[i].candidate]

\* A ledger charged with a sequence of candidates.
ChargedWith(from, cs) == from \o [i \in 1..Len(cs) |-> Reservation(cs[i], Len(from) + i)]

\* The ledger has room for what is in hand and for all that is still to be tried.
Room(acc, todo) == LedgerValid(ChargedWith(ledger, CandidatesOf(acc) \o todo))

\* On record, in hand, or waiting for release.
Separate(acc, out) ==
  /\ AcceptedAllocations(acc) \cap (Actives \cup cleanup) = {}
  /\ out \cap (Actives \cup cleanup) = {}
  /\ out \cap AcceptedAllocations(acc) = {}

Fine(todo, acc, out) == Committable(acc) /\ Room(acc, todo) /\ Separate(acc, out)

\* While close runs, what it has neither kept nor still to release is released.
ClosingOK ==
  At("closing") =>
    /\ run.kept \cup run.drop \subseteq Actives \cup cleanup
    /\ run.kept \cap run.drop = {}
    /\ (Actives \cup cleanup) \ (run.kept \cup run.drop) \subseteq released

\* Every allocation that was given is held or gone, and not both.
Balanced(held, given, gone) ==
  /\ given \in SUBSET Allocation
  /\ given = held \cup gone
  /\ held \cap gone = {}
  /\ IsFiniteSet(given)
  /\ \A a \in given : a.serial <= Cardinality(given)

IInv ==
  /\ TypeOK
  /\ Shape
  /\ Records
  /\ Fine(Left, InHand, IF At("closing") THEN {} ELSE run.drop)
  /\ ClosingOK
  /\ Balanced(Held, handed, released)
  /\ run.outcome # "overrun"

-----------------------------------------------------------------------------
(* Parts of a sequence of candidates.                                      *)

LEMMA SameSequence ==
  ASSUME NEW C, NEW s \in Seq(C), NEW t \in Seq(C), Len(s) = Len(t),
         \A i \in 1..Len(s) : s[i] = t[i]
  PROVE  s = t
OBVIOUS

LEMMA ConcatOf ==
  ASSUME NEW C, NEW s \in Seq(C), NEW t \in Seq(C)
  PROVE  /\ s \o t \in Seq(C) /\ Len(s \o t) = Len(s) + Len(t)
         /\ \A i \in 1..Len(s) + Len(t) :
              (s \o t)[i] = IF i <= Len(s) THEN s[i] ELSE t[i - Len(s)]
         /\ \A i \in 1..Len(s) : (s \o t)[i] = s[i]
         /\ \A i \in 1..Len(t) : (s \o t)[Len(s) + i] = t[i]
<1> DEFINE x == s \o t
<1>1. /\ x \in Seq(C) /\ Len(x) = Len(s) + Len(t) /\ Len(s) \in Nat /\ Len(t) \in Nat
      /\ \A i \in 1..Len(s) + Len(t) : x[i] = IF i <= Len(s) THEN s[i] ELSE t[i - Len(s)]
  OBVIOUS
<1> HIDE DEF x
<1>2. \A i \in 1..Len(s) : x[i] = s[i]
  BY <1>1
<1>3. ASSUME NEW i \in 1..Len(t) PROVE x[Len(s) + i] = t[i]
  <2> DEFINE k == Len(s) + i
  <2>1. k \in 1..Len(s) + Len(t) /\ ~(k <= Len(s)) /\ k - Len(s) = i
    BY <1>1
  <2> HIDE DEF k
  <2>2. x[k] = t[i]
    BY <1>1, <2>1
  <2> QED
    BY <2>2 DEF k
<1> QED
  BY <1>1, <1>2, <1>3 DEF x

IsPart(t, s) == \E p : Places(p, t, s) /\ \A i \in 1..Len(t) : t[i] = s[p[i]]

LEMMA PartSame ==
  ASSUME NEW C, NEW s \in Seq(C)
  PROVE  IsPart(s, s)
<1> DEFINE p == [i \in 1..Len(s) |-> i]
<1>1. Places(p, s, s) /\ \A i \in 1..Len(s) : s[i] = s[p[i]]
  BY DEF Places
<1> HIDE DEF p
<1> QED
  BY <1>1 DEF IsPart

LEMMA PartNone ==
  ASSUME NEW C, NEW s \in Seq(C)
  PROVE  IsPart(<<>>, s)
<1> DEFINE p == [i \in 1..0 |-> i]
           none == <<>>
<1>1. Len(none) = 0 /\ \A i : i \notin 1..0
  OBVIOUS
<1>2. p \in [1..0 -> 1..Len(s)]
  BY <1>1
<1> HIDE DEF p, none
<1>3. Places(p, none, s) /\ \A i \in 1..Len(none) : none[i] = s[p[i]]
  BY <1>1, <1>2 DEF Places
<1> QED
  BY <1>3 DEF IsPart, none

LEMMA PartOfPart ==
  ASSUME NEW C, NEW s \in Seq(C), NEW t \in Seq(C), NEW u \in Seq(C), IsPart(t, s), IsPart(u, t)
  PROVE  IsPart(u, s)
<1>1. PICK p : Places(p, t, s) /\ \A i \in 1..Len(t) : t[i] = s[p[i]]
  BY DEF IsPart
<1>2. PICK q : Places(q, u, t) /\ \A i \in 1..Len(u) : u[i] = t[q[i]]
  BY DEF IsPart
<1> DEFINE r == [i \in 1..Len(u) |-> p[q[i]]]
<1>3. p \in [1..Len(t) -> 1..Len(s)] /\ q \in [1..Len(u) -> 1..Len(t)]
  BY <1>1, <1>2 DEF Places
<1>4. r \in [1..Len(u) -> 1..Len(s)]
  BY <1>3
<1>5. \A i, j \in 1..Len(u) : i < j => r[i] < r[j]
  BY <1>1, <1>2, <1>3 DEF Places
<1>6. \A i \in 1..Len(u) : u[i] = s[r[i]]
  BY <1>1, <1>2, <1>3
<1> HIDE DEF r
<1>7. Places(r, u, s)
  BY <1>4, <1>5 DEF Places
<1> QED
  BY <1>6, <1>7 DEF IsPart

LEMMA PartTail ==
  ASSUME NEW C, NEW s \in Seq(C), s # <<>>
  PROVE  IsPart(Tail(s), s)
<1> DEFINE t == Tail(s)
           p == [i \in 1..Len(t) |-> i + 1]
<1>1. Len(s) \in Nat /\ Len(s) # 0 /\ Len(t) = Len(s) - 1 /\ \A i \in 1..Len(t) : t[i] = s[i + 1]
  OBVIOUS
<1> HIDE DEF t
<1>2. p \in [1..Len(t) -> 1..Len(s)] /\ \A i, j \in 1..Len(t) : i < j => p[i] < p[j]
  BY <1>1
<1>3. \A i \in 1..Len(t) : t[i] = s[p[i]]
  BY <1>1
<1> HIDE DEF p
<1>4. Places(p, t, s)
  BY <1>2 DEF Places
<1> QED
  BY <1>3, <1>4 DEF IsPart, t

LEMMA PartSuffix ==
  ASSUME NEW C, NEW s \in Seq(C), NEW n \in 1..Len(s)
  PROVE  SubSeq(s, n, Len(s)) \in Seq(C) /\ IsPart(SubSeq(s, n, Len(s)), s)
<1> DEFINE t == SubSeq(s, n, Len(s))
           p == [i \in 1..Len(t) |-> i + n - 1]
<1>1. /\ Len(s) \in Nat /\ n \in Nat /\ t \in Seq(C) /\ Len(t) = Len(s) - n + 1
      /\ \A i \in 1..Len(t) : t[i] = s[i + n - 1]
  OBVIOUS
<1> HIDE DEF t
<1>2. p \in [1..Len(t) -> 1..Len(s)] /\ \A i, j \in 1..Len(t) : i < j => p[i] < p[j]
  BY <1>1
<1>3. \A i \in 1..Len(t) : t[i] = s[p[i]]
  BY <1>1
<1> HIDE DEF p
<1>4. Places(p, t, s)
  BY <1>2 DEF Places
<1> QED
  BY <1>1, <1>3, <1>4 DEF IsPart, t

LEMMA PartRemoved ==
  ASSUME NEW C, NEW s \in Seq(C), NEW n \in 1..Len(s)
  PROVE  /\ RemoveAt(s, n) \in Seq(C) /\ IsPart(RemoveAt(s, n), s)
         /\ Len(RemoveAt(s, n)) = Len(s) - 1
         /\ \A i \in 1..Len(RemoveAt(s, n)) :
              RemoveAt(s, n)[i] = IF i < n THEN s[i] ELSE s[i + 1]
<1> DEFINE t == RemoveAt(s, n)
           p == [i \in 1..Len(t) |-> IF i < n THEN i ELSE i + 1]
<1>1. /\ Len(s) \in Nat /\ n \in Nat /\ t \in Seq(C) /\ Len(t) = Len(s) - 1
      /\ \A i \in 1..Len(t) : t[i] = IF i < n THEN s[i] ELSE s[i + 1]
  <2> DEFINE a == SubSeq(s, 1, n - 1)
             b == SubSeq(s, n + 1, Len(s))
  <2>1. Len(s) \in Nat /\ n \in Nat
    OBVIOUS
  <2>2. a \in Seq(C) /\ Len(a) = n - 1 /\ \A i \in 1..Len(a) : a[i] = s[i]
    OBVIOUS
  <2>3. b \in Seq(C) /\ Len(b) = Len(s) - n /\ \A i \in 1..Len(b) : b[i] = s[i + n]
    OBVIOUS
  <2>4. t = a \o b
    BY DEF RemoveAt
  <2> HIDE DEF a, b, t
  <2>5. /\ t \in Seq(C) /\ Len(t) = Len(a) + Len(b)
        /\ \A i \in 1..Len(a) + Len(b) : t[i] = IF i <= Len(a) THEN a[i] ELSE b[i - Len(a)]
    <3> DEFINE x == a \o b
    <3>1. /\ x \in Seq(C) /\ Len(x) = Len(a) + Len(b)
          /\ \A i \in 1..Len(a) + Len(b) : x[i] = IF i <= Len(a) THEN a[i] ELSE b[i - Len(a)]
      <4>1. a \in Seq(C) /\ b \in Seq(C)
        BY <2>2, <2>3
      <4> QED
        BY <4>1, ConcatOf
    <3>2. t = x
      BY <2>4
    <3> HIDE DEF x
    <3> QED
      BY <3>1, <3>2
  <2>6. ASSUME NEW i \in 1..Len(t) PROVE t[i] = IF i < n THEN s[i] ELSE s[i + 1]
    <3>1. CASE i < n
      <4>1. i \in 1..Len(a) /\ i <= Len(a)
        BY <2>1, <2>2, <2>5, <3>1
      <4> QED
        BY <2>2, <2>5, <3>1, <4>1
    <3>2. CASE ~(i < n)
      <4> DEFINE k == i - Len(a)
      <4>1. ~(i <= Len(a)) /\ k \in 1..Len(b) /\ k + n = i + 1
        BY <2>1, <2>2, <2>3, <2>5, <3>2
      <4>2. t[i] = b[k]
        BY <2>5, <4>1
      <4> HIDE DEF k
      <4>3. b[k] = s[k + n]
        BY <2>3, <4>1
      <4> QED
        BY <3>2, <4>1, <4>2, <4>3
    <3> QED
      BY <3>1, <3>2
  <2> QED
    BY <2>1, <2>2, <2>3, <2>5, <2>6 DEF t
<1> HIDE DEF t
<1>2. p \in [1..Len(t) -> 1..Len(s)] /\ \A i, j \in 1..Len(t) : i < j => p[i] < p[j]
  BY <1>1
<1>3. \A i \in 1..Len(t) : t[i] = s[p[i]]
  BY <1>1
<1> HIDE DEF p
<1>4. Places(p, t, s)
  BY <1>2 DEF Places
<1> QED
  BY <1>1, <1>3, <1>4 DEF IsPart, t

\* Parts of two sequences make up a part of their concatenation.
LEMMA PartConcat ==
  ASSUME NEW C, NEW s \in Seq(C), NEW t \in Seq(C), NEW u \in Seq(C), NEW v \in Seq(C),
         IsPart(u, s), IsPart(v, t)
  PROVE  IsPart(u \o v, s \o t)
<1>1. PICK p : Places(p, u, s) /\ \A i \in 1..Len(u) : u[i] = s[p[i]]
  BY DEF IsPart
<1>2. PICK q : Places(q, v, t) /\ \A i \in 1..Len(v) : v[i] = t[q[i]]
  BY DEF IsPart
<1> DEFINE x == s \o t
           y == u \o v
           r == [i \in 1..Len(y) |-> IF i <= Len(u) THEN p[i] ELSE Len(s) + q[i - Len(u)]]
<1>3. p \in [1..Len(u) -> 1..Len(s)] /\ q \in [1..Len(v) -> 1..Len(t)]
  BY <1>1, <1>2 DEF Places
<1>4. /\ Len(s) \in Nat /\ Len(t) \in Nat /\ Len(u) \in Nat /\ Len(v) \in Nat
      /\ Len(x) = Len(s) + Len(t) /\ Len(y) = Len(u) + Len(v)
      /\ \A i \in 1..Len(s) : x[i] = s[i]
      /\ \A i \in 1..Len(t) : x[Len(s) + i] = t[i]
      /\ \A i \in 1..Len(y) : y[i] = IF i <= Len(u) THEN u[i] ELSE v[i - Len(u)]
  BY ConcatOf
<1> HIDE DEF x, y
<1>5. \A i \in 1..Len(y) :
        (i \in 1..Len(u) /\ i <= Len(u)) \/ (i - Len(u) \in 1..Len(v) /\ ~(i <= Len(u)))
  <2>1. Len(u) \in Nat /\ Len(v) \in Nat /\ Len(y) = Len(u) + Len(v)
    BY <1>4
  <2>2. \A a, b \in Nat : \A i \in 1..(a + b) :
          (i \in 1..a /\ i <= a) \/ (i - a \in 1..b /\ ~(i <= a))
    OBVIOUS
  <2> QED
    BY <2>1, <2>2, Zenon
<1>6. r \in [1..Len(y) -> 1..Len(x)]
  <2>1. ASSUME NEW i \in 1..Len(y)
        PROVE  (IF i <= Len(u) THEN p[i] ELSE Len(s) + q[i - Len(u)]) \in 1..Len(x)
    <3>1. CASE i <= Len(u)
      <4>1. p[i] \in 1..Len(s)
        BY <1>3, <1>5, <3>1
      <4> QED
        BY <1>4, <3>1, <4>1
    <3>2. CASE ~(i <= Len(u))
      <4>1. q[i - Len(u)] \in 1..Len(t)
        BY <1>3, <1>5, <3>2
      <4> QED
        BY <1>4, <3>2, <4>1
    <3> QED
      BY <3>1, <3>2
  <2> QED
    BY <2>1
<1>7. ASSUME NEW i \in 1..Len(y), NEW j \in 1..Len(y), i < j PROVE r[i] < r[j]
  <2>1. CASE j <= Len(u)
    <3>1. i \in 1..Len(u) /\ j \in 1..Len(u) /\ i <= Len(u)
      BY <1>4, <1>7, <2>1
    <3>2. p[i] < p[j]
      BY <1>1, <1>7, <3>1 DEF Places
    <3> QED
      BY <2>1, <3>1, <3>2
  <2>2. CASE i <= Len(u) /\ ~(j <= Len(u))
    <3>1. i \in 1..Len(u) /\ j - Len(u) \in 1..Len(v)
      BY <1>4, <1>5, <2>2
    <3>2. p[i] \in 1..Len(s) /\ q[j - Len(u)] \in 1..Len(t)
      BY <1>3, <3>1
    <3> QED
      BY <1>4, <2>2, <3>2
  <2>3. CASE ~(i <= Len(u))
    <3> DEFINE k == i - Len(u)
               m == j - Len(u)
    <3>1. ~(j <= Len(u)) /\ k \in 1..Len(v) /\ m \in 1..Len(v) /\ k < m
      BY <1>4, <1>5, <1>7, <2>3
    <3>2. r[i] = Len(s) + q[k] /\ r[j] = Len(s) + q[m]
      BY <2>3, <3>1
    <3> HIDE DEF k, m
    <3>3. q[k] < q[m] /\ q[k] \in 1..Len(t) /\ q[m] \in 1..Len(t)
      BY <1>2, <1>3, <3>1 DEF Places
    <3> HIDE DEF r
    <3> QED
      BY <1>4, <3>2, <3>3
  <2> QED
    BY <1>4, <1>7, <2>1, <2>2, <2>3
<1>8. ASSUME NEW i \in 1..Len(y) PROVE y[i] = x[r[i]]
  <2>1. CASE i \in 1..Len(u) /\ i <= Len(u)
    <3>1. p[i] \in 1..Len(s) /\ u[i] = s[p[i]]
      BY <1>1, <1>3, <2>1
    <3> QED
      BY <1>4, <2>1, <3>1
  <2>2. CASE i - Len(u) \in 1..Len(v) /\ ~(i <= Len(u))
    <3> DEFINE k == i - Len(u)
    <3>1. r[i] = Len(s) + q[k] /\ y[i] = v[k] /\ k \in 1..Len(v)
      BY <1>4, <2>2
    <3> HIDE DEF k, r
    <3>2. q[k] \in 1..Len(t) /\ v[k] = t[q[k]]
      BY <1>2, <1>3, <3>1
    <3> QED
      BY <1>4, <3>1, <3>2
  <2> QED
    BY <1>5, <2>1, <2>2
<1> HIDE DEF r
<1>9. Places(r, y, x)
  BY <1>6, <1>7 DEF Places
<1> QED
  BY <1>8, <1>9 DEF IsPart, x, y
-----------------------------------------------------------------------------
(* Charging a sequence of candidates to a ledger.                          *)

LEMMA CandidatesChargeable ==
  /\ Chargeable(Candidates)
  /\ \A B \in Batches : IsBatch(B) /\ B \in SUBSET Candidates
<1>1. \A B \in Batches : IsBatch(B) /\ B \in SUBSET Candidates
  BY BatchesAssumption DEF Candidates
<1>2. \A c \in Candidates : \E B \in Batches : c \in B
  BY DEF Candidates
<1> QED
  BY <1>1, <1>2 DEF IsBatch, Chargeable

LEMMA ChargedWithType ==
  ASSUME NEW C, Chargeable(C), NEW l \in Seq(BudgetReservation(C)), NEW cs \in Seq(C)
  PROVE  /\ ChargedWith(l, cs) \in Seq(BudgetReservation(C))
         /\ Len(ChargedWith(l, cs)) = Len(l) + Len(cs)
         /\ \A i \in 1..Len(l) : ChargedWith(l, cs)[i] = l[i]
         /\ \A i \in 1..Len(cs) :
              ChargedWith(l, cs)[Len(l) + i] = Reservation(cs[i], Len(l) + i)
<1> DEFINE S == BudgetReservation(C)
           m == [i \in 1..Len(cs) |-> Reservation(cs[i], Len(l) + i)]
<1>1. Len(l) \in Nat /\ Len(cs) \in Nat /\ \A i \in 1..Len(cs) : cs[i] \in C
  OBVIOUS
<1>2. \A i \in 1..Len(cs) : Reservation(cs[i], Len(l) + i) \in S
  <2> TAKE i \in 1..Len(cs)
  <2>1. Len(l) + i \in Nat /\ cs[i] \in C
    BY <1>1
  <2> QED
    BY <2>1, ReservationType
<1>3. m \in Seq(S) /\ Len(m) = Len(cs)
  <2> HIDE DEF S
  <2> QED
    BY <1>1, <1>2
<1>4. \A i \in 1..Len(cs) : m[i] = Reservation(cs[i], Len(l) + i)
  OBVIOUS
<1>5. ChargedWith(l, cs) = l \o m
  BY DEF ChargedWith
<1>6. l \in Seq(S)
  OBVIOUS
<1> DEFINE x == l \o m
<1> HIDE DEF m, S
<1>7. /\ x \in Seq(S) /\ Len(x) = Len(l) + Len(m)
      /\ \A i \in 1..Len(l) : x[i] = l[i]
      /\ \A i \in 1..Len(m) : x[Len(l) + i] = m[i]
  <2>1. l \in Seq(S) /\ m \in Seq(S)
    BY <1>3, <1>6
  <2> QED
    BY <2>1, ConcatOf
<1>8. ChargedWith(l, cs) = x
  BY <1>5
<1> HIDE DEF x
<1> QED
  BY <1>3, <1>4, <1>7, <1>8 DEF S

\* What of a sequence of affordable candidates is left out frees its share only.
LEMMA PartFits ==
  ASSUME NEW C, Chargeable(C), NEW l \in Seq(BudgetReservation(C)),
         NEW s \in Seq(C), NEW t \in Seq(C), IsPart(t, s),
         \A i \in 1..Len(l) : l[i].sequence = i,
         LedgerValid(ChargedWith(l, s))
  PROVE  LedgerValid(ChargedWith(l, t))
<1>1. PICK p : Places(p, t, s) /\ \A i \in 1..Len(t) : t[i] = s[p[i]]
  BY DEF IsPart
<1> DEFINE x == ChargedWith(l, s)
           y == ChargedWith(l, t)
           n == Len(l)
           q == [i \in 1..Len(y) |-> IF i <= n THEN i ELSE n + p[i - n]]
<1>2. p \in [1..Len(t) -> 1..Len(s)]
  BY <1>1 DEF Places
<1>3. /\ x \in Seq(BudgetReservation(C)) /\ Len(x) = n + Len(s)
      /\ \A i \in 1..n : x[i] = l[i]
      /\ \A i \in 1..Len(s) : x[n + i] = Reservation(s[i], n + i)
  BY ChargedWithType
<1>4. /\ y \in Seq(BudgetReservation(C)) /\ Len(y) = n + Len(t)
      /\ \A i \in 1..n : y[i] = l[i]
      /\ \A i \in 1..Len(t) : y[n + i] = Reservation(t[i], n + i)
  BY ChargedWithType
<1>5. n \in Nat /\ Len(s) \in Nat /\ Len(t) \in Nat
  OBVIOUS
<1>6. LedgerValid(x) /\ \A i \in 1..n : l[i].sequence = i
  OBVIOUS
<1> HIDE DEF x, y, n
<1>7. ASSUME NEW i \in 1..Len(y)
      PROVE  (i \in 1..n /\ i <= n) \/ (i - n \in 1..Len(t) /\ ~(i <= n) /\ n + (i - n) = i)
  BY <1>4, <1>5
<1>8. q \in [1..Len(y) -> 1..Len(x)]
  <2> SUFFICES ASSUME NEW i \in 1..Len(y)
               PROVE  (IF i <= n THEN i ELSE n + p[i - n]) \in 1..Len(x)
    OBVIOUS
  <2>1. CASE i \in 1..n /\ i <= n
    BY <1>3, <1>5, <2>1
  <2>2. CASE i - n \in 1..Len(t) /\ ~(i <= n)
    <3>1. p[i - n] \in 1..Len(s)
      BY <1>2, <2>2
    <3> QED
      BY <1>3, <1>5, <2>2, <3>1
  <2> QED
    BY <1>7, <2>1, <2>2
<1>9. ASSUME NEW i \in 1..Len(y), NEW j \in 1..Len(y), i < j PROVE q[i] < q[j]
  <2>1. CASE j <= n
    BY <1>4, <1>5, <1>9, <2>1
  <2>2. CASE i <= n /\ ~(j <= n)
    <3>1. j - n \in 1..Len(t)
      BY <1>7, <2>2
    <3>2. p[j - n] \in 1..Len(s)
      BY <1>2, <3>1
    <3> QED
      BY <1>4, <1>5, <2>2, <3>2
  <2>3. CASE ~(i <= n)
    <3> DEFINE k == i - n
               m == j - n
    <3>1. ~(j <= n) /\ k \in 1..Len(t) /\ m \in 1..Len(t) /\ k < m
      BY <1>4, <1>5, <1>7, <1>9, <2>3
    <3>2. q[i] = n + p[k] /\ q[j] = n + p[m]
      BY <2>3, <3>1
    <3> HIDE DEF k, m
    <3>3. p[k] < p[m] /\ p[k] \in 1..Len(s) /\ p[m] \in 1..Len(s)
      BY <1>1, <1>2, <3>1 DEF Places
    <3> HIDE DEF q
    <3> QED
      BY <1>5, <3>2, <3>3
  <2> QED
    BY <1>4, <1>5, <1>9, <2>1, <2>2, <2>3
<1>10. ASSUME NEW i \in 1..Len(y)
       PROVE  /\ y[i].sequence = i
              /\ y[i].candidate_id = x[q[i]].candidate_id
              /\ y[i].target_tier = x[q[i]].target_tier
              /\ y[i].cost = x[q[i]].cost
  <2>1. CASE i \in 1..n /\ i <= n
    <3>1. q[i] = i /\ y[i] = l[i] /\ x[i] = l[i]
      BY <1>3, <1>4, <2>1
    <3> HIDE DEF q
    <3> QED
      BY <1>6, <2>1, <3>1
  <2>2. CASE i - n \in 1..Len(t) /\ ~(i <= n) /\ n + (i - n) = i
    <3> DEFINE k == i - n
    <3>1. q[i] = n + p[k] /\ y[i] = Reservation(t[k], i) /\ k \in 1..Len(t)
      BY <1>4, <2>2
    <3> HIDE DEF k, q
    <3>2. p[k] \in 1..Len(s) /\ t[k] = s[p[k]]
      BY <1>1, <1>2, <3>1
    <3>3. x[q[i]] = Reservation(t[k], q[i])
      BY <1>3, <3>1, <3>2
    <3> QED
      BY <3>1, <3>3 DEF Reservation
  <2> QED
    BY <1>7, <2>1, <2>2
<1>11. Places(q, y, x)
  <2> HIDE DEF q
  <2> QED
    BY <1>8, <1>9 DEF Places
<1> HIDE DEF q
<1>12. LedgerValid(y)
  BY <1>3, <1>4, <1>6, <1>10, <1>11, FewerFit
<1> QED
  BY <1>12 DEF y

\* Every candidate of an affordable sequence can be reserved in its turn.
LEMMA ChargedInTurn ==
  ASSUME NEW C, Chargeable(C), NEW l \in Seq(BudgetReservation(C)), NEW cs \in Seq(C),
         \A i \in 1..Len(l) : l[i].sequence = i,
         LedgerValid(ChargedWith(l, cs)), NEW n \in 1..Len(cs)
  PROVE  CanReserve(ChargedWith(l, SubSeq(cs, 1, n - 1)), cs[n])
<1> DEFINE a == SubSeq(cs, 1, n - 1)
           b == SubSeq(cs, 1, n)
           x == ChargedWith(l, a)
           y == ChargedWith(l, b)
<1>1. n \in Nat /\ Len(cs) \in Nat /\ n >= 1 /\ n <= Len(cs) /\ Len(l) \in Nat /\ cs[n] \in C
  OBVIOUS
<1>2. a \in Seq(C) /\ Len(a) = n - 1 /\ \A i \in 1..Len(a) : a[i] = cs[i]
  BY <1>1
<1>3. b \in Seq(C) /\ Len(b) = n /\ \A i \in 1..Len(b) : b[i] = cs[i]
  BY <1>1
<1> HIDE DEF a, b
<1>4. ASSUME NEW t \in Seq(C), Len(t) <= Len(cs), \A i \in 1..Len(t) : t[i] = cs[i]
      PROVE  LedgerValid(ChargedWith(l, t))
  <2> DEFINE p == [i \in 1..Len(t) |-> i]
  <2>1. p \in [1..Len(t) -> 1..Len(cs)] /\ \A i, j \in 1..Len(t) : i < j => p[i] < p[j]
    BY <1>1, <1>4
  <2>2. \A i \in 1..Len(t) : t[i] = cs[p[i]]
    BY <1>4
  <2> HIDE DEF p
  <2>3. IsPart(t, cs)
    BY <2>1, <2>2 DEF IsPart, Places
  <2> QED
    BY <2>3, PartFits
<1>5. LedgerValid(x) /\ LedgerValid(y)
  BY <1>1, <1>2, <1>3, <1>4
<1>6. /\ x \in Seq(BudgetReservation(C)) /\ Len(x) = Len(l) + (n - 1)
      /\ \A i \in 1..Len(l) : x[i] = l[i]
      /\ \A i \in 1..(n - 1) : x[Len(l) + i] = Reservation(a[i], Len(l) + i)
  <2>1. /\ x \in Seq(BudgetReservation(C)) /\ Len(x) = Len(l) + Len(a)
        /\ \A i \in 1..Len(l) : x[i] = l[i]
        /\ \A i \in 1..Len(a) : x[Len(l) + i] = Reservation(a[i], Len(l) + i)
    BY <1>2, ChargedWithType
  <2> HIDE DEF x
  <2>2. Len(a) = n - 1
    BY <1>2
  <2> QED
    BY <2>1, <2>2
<1>7. /\ y \in Seq(BudgetReservation(C)) /\ Len(y) = Len(l) + n
      /\ \A i \in 1..Len(l) : y[i] = l[i]
      /\ \A i \in 1..n : y[Len(l) + i] = Reservation(b[i], Len(l) + i)
  BY <1>3, ChargedWithType
<1> HIDE DEF x, y
<1>8. y = Reserve(x, cs[n])
  <2> DEFINE new == Reservation(cs[n], Len(x) + 1)
             z == Append(x, new)
  <2>1. new \in BudgetReservation(C)
    BY <1>1, <1>6, ReservationType
  <2> HIDE DEF new
  <2>2. /\ z \in Seq(BudgetReservation(C)) /\ Len(z) = Len(x) + 1 /\ z[Len(x) + 1] = new
        /\ \A i \in 1..Len(x) : z[i] = x[i]
    BY <1>6, <2>1
  <2> HIDE DEF z
  <2>3. Len(z) = Len(y)
    BY <1>1, <1>6, <1>7, <2>2
  <2>4. ASSUME NEW i \in 1..Len(y) PROVE y[i] = z[i]
    <3>1. CASE i \in 1..Len(l)
      <4>1. i \in 1..Len(x)
        BY <1>1, <1>6, <3>1
      <4> QED
        BY <1>6, <1>7, <2>2, <3>1, <4>1
    <3>2. CASE i - Len(l) \in 1..(n - 1)
      <4> DEFINE k == i - Len(l)
      <4>1. i \in 1..Len(x) /\ i = Len(l) + k /\ k \in 1..(n - 1) /\ k \in 1..n
        BY <1>1, <1>6, <1>7, <3>2
      <4> HIDE DEF k
      <4>2. a[k] = b[k]
        BY <1>2, <1>3, <4>1
      <4>3. x[i] = Reservation(a[k], i) /\ y[i] = Reservation(b[k], i)
        BY <1>6, <1>7, <4>1
      <4> QED
        BY <2>2, <4>1, <4>2, <4>3
    <3>3. CASE i = Len(l) + n
      <4>1. i = Len(x) + 1 /\ n \in 1..n
        BY <1>1, <1>6, <3>3
      <4>2. y[i] = Reservation(b[n], i) /\ b[n] = cs[n]
        BY <1>3, <1>7, <3>3, <4>1
      <4> QED
        BY <2>2, <4>1, <4>2 DEF new
    <3> QED
      BY <1>1, <1>7, <3>1, <3>2, <3>3
  <2>5. y = z
    BY <1>7, <2>2, <2>3, <2>4, SameSequence
  <2> QED
    BY <2>5 DEF Reserve, z, new
<1>9. CanReserve(x, cs[n])
  BY <1>1, <1>5, <1>6, <1>8, ReserveValid
<1> QED
  BY <1>9 DEF x, a
-----------------------------------------------------------------------------
(* Room in the ledger.                                                     *)

LEMMA CandidatesOfType ==
  ASSUME NEW acc \in Seq(Acceptance)
  PROVE  /\ CandidatesOf(acc) \in Seq(Candidates) /\ Len(CandidatesOf(acc)) = Len(acc)
         /\ \A i \in 1..Len(acc) : CandidatesOf(acc)[i] = acc[i].candidate
<1>1. \A i \in 1..Len(acc) : acc[i].candidate \in Candidates
  <2>1. \A i \in 1..Len(acc) : acc[i] \in Acceptance
    OBVIOUS
  <2> QED
    BY <2>1 DEF Acceptance
<1>2. DOMAIN acc = 1..Len(acc) /\ Len(acc) \in Nat
  OBVIOUS
<1> QED
  BY <1>1, <1>2 DEF CandidatesOf

LEMMA CandidatesPart ==
  ASSUME NEW acc \in Seq(Acceptance), NEW some \in Seq(Acceptance), IsPart(some, acc)
  PROVE  IsPart(CandidatesOf(some), CandidatesOf(acc))
<1>1. PICK p : Places(p, some, acc) /\ \A i \in 1..Len(some) : some[i] = acc[p[i]]
  BY DEF IsPart
<1>2. p \in [1..Len(some) -> 1..Len(acc)]
  BY <1>1 DEF Places
<1> DEFINE s == CandidatesOf(acc)
           t == CandidatesOf(some)
<1>3. /\ Len(s) = Len(acc) /\ \A i \in 1..Len(acc) : s[i] = acc[i].candidate
      /\ Len(t) = Len(some) /\ \A i \in 1..Len(some) : t[i] = some[i].candidate
  BY CandidatesOfType
<1> HIDE DEF s, t
<1>4. Places(p, t, s)
  BY <1>1, <1>3 DEF Places
<1>5. \A i \in 1..Len(t) : t[i] = s[p[i]]
  BY <1>1, <1>2, <1>3
<1> QED
  BY <1>4, <1>5 DEF IsPart, s, t

\* The entries of a ledger with room are numbered in order.
LEMMA RoomNumbers ==
  ASSUME NEW l \in Seq(BudgetReservation(Candidates)), NEW cs \in Seq(Candidates),
         LedgerValid(ChargedWith(l, cs))
  PROVE  \A i \in 1..Len(l) : l[i].sequence = i
<1> DEFINE x == ChargedWith(l, cs)
<1>1. /\ x \in Seq(BudgetReservation(Candidates)) /\ Len(x) = Len(l) + Len(cs)
      /\ \A i \in 1..Len(l) : x[i] = l[i]
  BY CandidatesChargeable, ChargedWithType
<1>2. LedgerValid(x) /\ Len(l) \in Nat /\ Len(cs) \in Nat
  OBVIOUS
<1> HIDE DEF x
<1>3. \A i \in 1..Len(l) : i \in DOMAIN x
  BY <1>1, <1>2
<1> QED
  BY <1>1, <1>2, <1>3 DEF LedgerValid

\* A part of what there is room for has room.
LEMMA RoomLess ==
  ASSUME NEW l \in Seq(BudgetReservation(Candidates)),
         NEW acc \in Seq(Acceptance), NEW some \in Seq(Acceptance), IsPart(some, acc),
         NEW todo \in Seq(Candidates), NEW rest \in Seq(Candidates), IsPart(rest, todo),
         LedgerValid(ChargedWith(l, CandidatesOf(acc) \o todo))
  PROVE  LedgerValid(ChargedWith(l, CandidatesOf(some) \o rest))
<1>1. CandidatesOf(acc) \in Seq(Candidates) /\ CandidatesOf(some) \in Seq(Candidates)
  BY CandidatesOfType
<1>2. IsPart(CandidatesOf(some), CandidatesOf(acc))
  BY CandidatesPart
<1> DEFINE s == CandidatesOf(acc) \o todo
           t == CandidatesOf(some) \o rest
<1>3. IsPart(t, s)
  BY <1>1, <1>2, PartConcat
<1>4. s \in Seq(Candidates) /\ t \in Seq(Candidates)
  BY <1>1, ConcatOf
<1>5. LedgerValid(ChargedWith(l, s))
  OBVIOUS
<1> HIDE DEF s, t
<1>6. \A i \in 1..Len(l) : l[i].sequence = i
  BY <1>4, <1>5, RoomNumbers
<1>7. LedgerValid(ChargedWith(l, t))
  BY <1>3, <1>4, <1>5, <1>6, CandidatesChargeable, PartFits
<1> QED
  BY <1>7 DEF t

\* The first candidate to be tried may move to the ones in hand.
LEMMA TakeFirst ==
  ASSUME NEW acc \in Seq(Acceptance), NEW todo \in Seq(Candidates), todo # <<>>,
         NEW x \in Acceptance, x.candidate = Head(todo)
  PROVE  CandidatesOf(Append(acc, x)) \o Tail(todo) = CandidatesOf(acc) \o todo
<1> DEFINE more == Append(acc, x)
           rest == Tail(todo)
           s == CandidatesOf(acc)
           t == CandidatesOf(more)
           u == s \o todo
           v == t \o rest
<1>1. /\ more \in Seq(Acceptance) /\ Len(more) = Len(acc) + 1
      /\ more[Len(acc) + 1] = x /\ \A i \in 1..Len(acc) : more[i] = acc[i]
  OBVIOUS
<1>2. /\ rest \in Seq(Candidates) /\ Len(todo) \in Nat /\ Len(todo) # 0
      /\ Len(rest) = Len(todo) - 1 /\ \A i \in 1..Len(rest) : rest[i] = todo[i + 1]
      /\ x.candidate = todo[1] /\ Len(acc) \in Nat
  OBVIOUS
<1> HIDE DEF more, rest
<1>3. /\ s \in Seq(Candidates) /\ Len(s) = Len(acc)
      /\ \A i \in 1..Len(acc) : s[i] = acc[i].candidate
      /\ t \in Seq(Candidates) /\ Len(t) = Len(more)
      /\ \A i \in 1..Len(more) : t[i] = more[i].candidate
  BY <1>1, CandidatesOfType
<1> HIDE DEF s, t
<1>4. /\ u \in Seq(Candidates) /\ Len(u) = Len(s) + Len(todo)
      /\ \A i \in 1..Len(s) : u[i] = s[i]
      /\ \A i \in 1..Len(todo) : u[Len(s) + i] = todo[i]
  <2>1. s \in Seq(Candidates) /\ todo \in Seq(Candidates)
    BY <1>3
  <2> QED
    BY <2>1, ConcatOf
<1>5. /\ v \in Seq(Candidates) /\ Len(v) = Len(t) + Len(rest)
      /\ \A i \in 1..Len(t) : v[i] = t[i]
      /\ \A i \in 1..Len(rest) : v[Len(t) + i] = rest[i]
  <2>1. t \in Seq(Candidates) /\ rest \in Seq(Candidates)
    BY <1>2, <1>3
  <2> QED
    BY <2>1, ConcatOf
<1> HIDE DEF u, v
<1>6. Len(v) = Len(u)
  BY <1>1, <1>2, <1>3, <1>4, <1>5
<1>7. ASSUME NEW i \in 1..Len(u) PROVE u[i] = v[i]
  <2> DEFINE n == Len(acc)
  <2>1. n \in Nat /\ Len(s) = n /\ Len(t) = n + 1 /\ Len(more) = n + 1
        /\ Len(todo) \in Nat /\ Len(u) = n + Len(todo)
    BY <1>1, <1>2, <1>3, <1>4
  <2>2. i <= n \/ i = n + 1 \/ i >= n + 2
    BY <2>1
  <2>3. CASE i <= n
    <3>1. i \in 1..n /\ i \in 1..(n + 1)
      BY <2>1, <2>3
    <3>2. u[i] = acc[i].candidate
      BY <1>3, <1>4, <2>1, <3>1
    <3>3. v[i] = more[i].candidate
      BY <1>3, <1>5, <2>1, <3>1
    <3> QED
      BY <1>1, <3>1, <3>2, <3>3
  <2>4. CASE i = n + 1
    <3>1. i \in 1..(n + 1) /\ 1 \in 1..Len(todo)
      BY <1>2, <2>1, <2>4
    <3>2. u[i] = todo[1]
      BY <1>4, <2>1, <2>4, <3>1
    <3>3. v[i] = more[i].candidate
      BY <1>3, <1>5, <2>1, <3>1
    <3> QED
      BY <1>1, <1>2, <2>4, <3>2, <3>3
  <2>5. CASE i >= n + 2
    <3> DEFINE k == i - (n + 1)
    <3>1. k \in 1..Len(rest) /\ k + 1 \in 1..Len(todo) /\ i = Len(t) + k /\ i = Len(s) + (k + 1)
      BY <1>2, <2>1, <2>5
    <3> HIDE DEF k
    <3>2. v[i] = rest[k] /\ u[i] = todo[k + 1]
      BY <1>4, <1>5, <3>1
    <3> QED
      BY <1>2, <3>1, <3>2
  <2> QED
    BY <2>2, <2>3, <2>4, <2>5
<1>8. u = v
  BY <1>4, <1>5, <1>6, <1>7, SameSequence
<1> QED
  BY <1>8 DEF u, v, s, t, more, rest

\* Nothing more to try.
LEMMA ConcatNone ==
  ASSUME NEW C, NEW s \in Seq(C)
  PROVE  s \o <<>> = s
OBVIOUS

\* A minimum of a set of numbers is one of them.
LEMMA MinOf ==
  ASSUME NEW S \in SUBSET Nat, S # {}
  PROVE  Min(S) \in S
<1>1. PICK n \in S : \A m \in S : ~(<<m, n>> \in OpToRel(<, Nat))
  BY NatLessThanWellFounded, WFMin
<1>2. \A m \in S : n =< m
  <2> TAKE m \in S
  <2>1. m \in Nat /\ n \in Nat
    OBVIOUS
  <2>2. m < n => <<m, n>> \in OpToRel(<, Nat)
    BY <2>1 DEF OpToRel
  <2>3. ~(m < n)
    BY <1>1, <2>2, Zenon
  <2> QED
    BY <2>1, <2>3
<1> QED
  BY <1>2 DEF Min

LEMMA PendingIsPart ==
  ASSUME NEW todo \in Seq(Candidates)
  PROVE  Pending(todo) \in Seq(Candidates) /\ IsPart(Pending(todo), todo)
<1> DEFINE open == {i \in DOMAIN todo : MayAllocate(todo[i])}
           n == Min(open)
<1>1. CASE open = {}
  <2>1. Pending(todo) = <<>>
    BY <1>1 DEF Pending
  <2> QED
    BY <2>1, PartNone
<1>2. CASE open # {}
  <2>1. open \in SUBSET Nat /\ open \subseteq 1..Len(todo)
    OBVIOUS
  <2>2. Pending(todo) = SubSeq(todo, n, Len(todo))
    BY <1>2 DEF Pending
  <2> HIDE DEF open
  <2>3. n \in 1..Len(todo)
    BY <1>2, <2>1, MinOf
  <2> HIDE DEF n
  <2> QED
    BY <2>2, <2>3, PartSuffix
<1> QED
  BY <1>1, <1>2

LEMMA PartFront ==
  ASSUME NEW C, NEW s \in Seq(C), NEW x \in C
  PROVE  IsPart(s, Append(s, x))
<1> DEFINE t == Append(s, x)
           p == [i \in 1..Len(s) |-> i]
<1>1. Len(s) \in Nat /\ Len(t) = Len(s) + 1 /\ \A i \in 1..Len(s) : t[i] = s[i]
  OBVIOUS
<1> HIDE DEF t
<1>2. p \in [1..Len(s) -> 1..Len(t)] /\ \A i, j \in 1..Len(s) : i < j => p[i] < p[j]
  BY <1>1
<1>3. \A i \in 1..Len(s) : s[i] = t[p[i]]
  BY <1>1
<1> HIDE DEF p
<1> QED
  BY <1>2, <1>3 DEF IsPart, Places, t

\* The search has charged its reservations one after the other.
LEMMA ReservationsCharged ==
  ASSUME TypeOK, LedgerValid(ledger), NEW B \in SUBSET Candidates, IsBatch(B)
  PROVE  /\ Reservations(B) \in Seq(Candidates)
         /\ \A i \in 1..Len(Reservations(B)) : Reservations(B)[i] \in B
         /\ ChargedWith(ledger, Reservations(B)) = Search(B, ledger).ledger
         /\ LedgerValid(ChargedWith(ledger, Reservations(B)))
<1> DEFINE l == ledger
           m == Search(B, ledger).ledger
           cs == Reservations(B)
           S == BudgetReservation(Candidates)
           pick(i) == CHOOSE c \in B : c.candidate_id = m[Len(l) + i].candidate_id
<1>1. l \in Seq(S) /\ Len(l) \in Nat
  BY DEF TypeOK
<1>2. IsBatch(B) /\ B \in SUBSET Candidates /\ Chargeable(Candidates)
  BY CandidatesChargeable
<1>3. m \in Seq(S) /\ Grown(l, m, B)
  BY <1>1, <1>2, SearchGrows
<1>4. cs = [i \in 1..(Len(m) - Len(l)) |-> pick(i)]
  BY DEF Reservations
<1> DEFINE n == Len(m) - Len(l)
<1>5. n \in Nat /\ Len(m) \in Nat /\ Len(m) = Len(l) + n
  BY <1>1, <1>3 DEF Grown
<1>6. ASSUME NEW i \in 1..n
      PROVE  pick(i) \in B /\ m[Len(l) + i] = Reservation(pick(i), Len(l) + i)
  <2> DEFINE k == Len(l) + i
  <2>1. k \in Len(l)+1..Len(m)
    BY <1>1, <1>5
  <2>2. PICK c \in B : m[k] = Reservation(c, k)
    BY <1>3, <2>1 DEF Grown
  <2>3. m[k].candidate_id = c.candidate_id
    BY <2>2 DEF Reservation
  <2> HIDE DEF m, k
  <2>4. \A d \in B : d.candidate_id = m[k].candidate_id => d = c
    BY <1>2, <2>3 DEF IsBatch
  <2>5. (CHOOSE d \in B : d.candidate_id = m[k].candidate_id) = c
    BY <2>3, <2>4
  <2> QED
    BY <2>2, <2>5 DEF k
<1> HIDE DEF pick, m, n, l
<1>7. cs \in Seq(Candidates) /\ Len(cs) = n /\ \A i \in 1..n : cs[i] = pick(i)
  <2>1. cs = [i \in 1..n |-> pick(i)]
    BY <1>4 DEF n
  <2>2. \A i \in 1..n : pick(i) \in Candidates
    BY <1>2, <1>6
  <2> HIDE DEF cs
  <2> QED
    BY <1>5, <2>1, <2>2
<1> HIDE DEF cs
<1> DEFINE y == ChargedWith(l, cs)
<1>8. /\ y \in Seq(S) /\ Len(y) = Len(l) + Len(cs)
      /\ \A i \in 1..Len(l) : y[i] = l[i]
      /\ \A i \in 1..Len(cs) : y[Len(l) + i] = Reservation(cs[i], Len(l) + i)
  BY <1>1, <1>2, <1>7, ChargedWithType
<1> HIDE DEF y, S
<1>9. ASSUME NEW i \in 1..Len(y) PROVE y[i] = m[i]
  <2>1. CASE i <= Len(l)
    <3>1. i \in 1..Len(l)
      BY <1>1, <2>1
    <3> QED
      BY <1>3, <1>8, <3>1 DEF Grown
  <2>2. CASE ~(i <= Len(l))
    <3> DEFINE k == i - Len(l)
    <3>1. k \in 1..n /\ i = Len(l) + k
      BY <1>1, <1>5, <1>7, <1>8, <2>2
    <3> HIDE DEF k
    <3> QED
      BY <1>6, <1>7, <1>8, <3>1
  <2> QED
    BY <2>1, <2>2
<1>10. y = m
  <2>1. Len(y) = Len(m)
    BY <1>5, <1>7, <1>8
  <2> QED
    BY <1>3, <1>8, <1>9, <2>1, SameSequence
<1>11. LedgerValid(m)
  BY <1>3 DEF Grown
<1>12. \A i \in 1..Len(cs) : cs[i] \in B
  BY <1>6, <1>7
<1> QED
  BY <1>7, <1>10, <1>11, <1>12 DEF y, m, l, cs

\* The commit loop reaches its end when there is room for what it commits.
LEMMA Charging ==
  ASSUME TypeOK, NEW acc \in Seq(Acceptance),
         LedgerValid(ChargedWith(ledger, CandidatesOf(acc)))
  PROVE  /\ \A i \in 1..Len(acc) : Affords(acc, i)
         /\ Charged(acc, Len(acc)) = ChargedWith(ledger, CandidatesOf(acc))
<1> DEFINE cs == CandidatesOf(acc)
           l == ledger
<1>1. /\ cs \in Seq(Candidates) /\ Len(cs) = Len(acc) /\ Len(acc) \in Nat
      /\ \A i \in 1..Len(acc) : cs[i] = acc[i].candidate
  BY CandidatesOfType
<1>2. l \in Seq(BudgetReservation(Candidates)) /\ Len(l) \in Nat
  BY DEF TypeOK
<1>3. LedgerValid(ChargedWith(l, cs))
  OBVIOUS
<1> HIDE DEF cs, l
<1>4. ASSUME NEW n \in 0..Len(acc)
      PROVE  Charged(acc, n) = ChargedWith(l, SubSeq(cs, 1, n))
  <2> DEFINE t == SubSeq(cs, 1, n)
             a == [i \in 1..n |-> Reservation(acc[i].candidate, Len(l) + i)]
             b == [i \in 1..Len(t) |-> Reservation(t[i], Len(l) + i)]
  <2>1. Len(t) = n /\ \A i \in 1..n : t[i] = acc[i].candidate
    BY <1>1
  <2> HIDE DEF t
  <2>2. a = b
    BY <2>1
  <2>3. Charged(acc, n) = l \o a /\ ChargedWith(l, t) = l \o b
    BY DEF Charged, ChargedWith, l
  <2> QED
    BY <2>2, <2>3 DEF t
<1>5. ASSUME NEW i \in 1..Len(acc) PROVE Affords(acc, i)
  <2>1. \A k \in 1..Len(l) : l[k].sequence = k
    BY <1>1, <1>2, <1>3, RoomNumbers
  <2>2. i \in 1..Len(cs) /\ i - 1 \in 0..Len(acc)
    BY <1>1
  <2>3. CanReserve(ChargedWith(l, SubSeq(cs, 1, i - 1)), cs[i])
    BY <1>1, <1>2, <1>3, <2>1, <2>2, CandidatesChargeable, ChargedInTurn
  <2>4. Charged(acc, i - 1) = ChargedWith(l, SubSeq(cs, 1, i - 1))
    BY <1>4, <2>2
  <2> QED
    BY <1>1, <2>3, <2>4 DEF Affords
<1>6. Charged(acc, Len(acc)) = ChargedWith(l, cs)
  <2>1. SubSeq(cs, 1, Len(acc)) = cs
    BY <1>1
  <2>2. Len(acc) \in 0..Len(acc)
    BY <1>1
  <2>3. Charged(acc, Len(acc)) = ChargedWith(l, SubSeq(cs, 1, Len(acc)))
    BY <1>4, <2>2
  <2> QED
    BY <2>1, <2>3, Zenon
<1> QED
  BY <1>5, <1>6 DEF cs, l
-----------------------------------------------------------------------------
(* What is in hand.                                                        *)

LEMMA AcceptedOf ==
  ASSUME NEW acc \in Seq(Acceptance)
  PROVE  /\ AcceptedAllocations(acc) \in SUBSET Allocation
         /\ \A i \in 1..Len(acc) : /\ acc[i] \in Acceptance
                                  /\ acc[i].allocation \in AcceptedAllocations(acc)
                                  /\ acc[i].allocation \in Allocation
                                  /\ acc[i].candidate \in Candidates
         /\ \A a \in AcceptedAllocations(acc) : \E i \in 1..Len(acc) : acc[i].allocation = a
<1>1. DOMAIN acc = 1..Len(acc) /\ \A i \in 1..Len(acc) : acc[i] \in Acceptance
  OBVIOUS
<1> QED
  BY <1>1 DEF Acceptance, AcceptedAllocations

LEMMA AcceptedNone ==
  /\ <<>> \in Seq(Acceptance) /\ <<>> \in Seq(Candidates)
  /\ AcceptedAllocations(<<>>) = {}
  /\ \A acc : acc = <<>> => DOMAIN acc = {}
BY DEF AcceptedAllocations

LEMMA AcceptedAppend ==
  ASSUME NEW acc \in Seq(Acceptance), NEW x \in Acceptance
  PROVE  /\ Append(acc, x) \in Seq(Acceptance)
         /\ AcceptedAllocations(Append(acc, x)) = AcceptedAllocations(acc) \cup {x.allocation}
<1> DEFINE more == Append(acc, x)
<1>1. /\ more \in Seq(Acceptance) /\ Len(acc) \in Nat /\ Len(more) = Len(acc) + 1
      /\ more[Len(acc) + 1] = x /\ \A i \in 1..Len(acc) : more[i] = acc[i]
      /\ DOMAIN acc = 1..Len(acc) /\ DOMAIN more = 1..Len(more)
  OBVIOUS
<1> HIDE DEF more
<1>2. \A i \in DOMAIN more : i \in DOMAIN acc \/ i = Len(acc) + 1
  BY <1>1
<1>3. DOMAIN acc \subseteq DOMAIN more /\ Len(acc) + 1 \in DOMAIN more
  BY <1>1
<1>4. ASSUME NEW a \in AcceptedAllocations(more)
      PROVE  a \in AcceptedAllocations(acc) \cup {x.allocation}
  BY <1>1, <1>2 DEF AcceptedAllocations
<1>5. ASSUME NEW a \in AcceptedAllocations(acc) \cup {x.allocation}
      PROVE  a \in AcceptedAllocations(more)
  BY <1>1, <1>3 DEF AcceptedAllocations
<1> QED
  BY <1>1, <1>4, <1>5 DEF more

LEMMA AcceptedRemoved ==
  ASSUME NEW acc \in Seq(Acceptance), NEW n \in 1..Len(acc)
  PROVE  /\ AcceptedAllocations(acc) =
              AcceptedAllocations(RemoveAt(acc, n)) \cup {acc[n].allocation}
         /\ \A a \in AcceptedAllocations(RemoveAt(acc, n)) :
              \E j \in DOMAIN acc \ {n} : acc[j].allocation = a
<1> DEFINE few == RemoveAt(acc, n)
<1>1. /\ few \in Seq(Acceptance) /\ Len(few) = Len(acc) - 1
      /\ \A i \in 1..Len(few) : few[i] = IF i < n THEN acc[i] ELSE acc[i + 1]
  BY PartRemoved
<1>2. /\ Len(acc) \in Nat /\ n \in Nat /\ DOMAIN acc = 1..Len(acc)
  OBVIOUS
<1> HIDE DEF few
<1>3. DOMAIN few = 1..Len(few) /\ Len(few) \in Nat
  BY <1>1
<1>4. ASSUME NEW i \in DOMAIN few PROVE \E j \in DOMAIN acc \ {n} : few[i] = acc[j]
  <2>1. CASE i < n
    <3>1. i \in DOMAIN acc \ {n}
      BY <1>1, <1>2, <1>3, <2>1
    <3> QED
      BY <1>1, <1>3, <2>1, <3>1
  <2>2. CASE ~(i < n)
    <3>1. i + 1 \in DOMAIN acc \ {n}
      BY <1>1, <1>2, <1>3, <2>2
    <3> QED
      BY <1>1, <1>3, <2>2, <3>1
  <2> QED
    BY <2>1, <2>2
<1>5. ASSUME NEW j \in DOMAIN acc, j # n PROVE \E i \in DOMAIN few : few[i] = acc[j]
  <2>1. CASE j < n
    <3>1. j \in DOMAIN few
      BY <1>1, <1>2, <1>3, <2>1
    <3> QED
      BY <1>1, <1>3, <2>1, <3>1
  <2>2. CASE ~(j < n)
    <3> DEFINE i == j - 1
    <3>1. i \in DOMAIN few /\ ~(i < n) /\ i + 1 = j
      BY <1>1, <1>2, <1>3, <1>5, <2>2
    <3> HIDE DEF i
    <3> QED
      BY <1>1, <1>3, <3>1
  <2> QED
    BY <2>1, <2>2
<1>6. ASSUME NEW a \in AcceptedAllocations(few) PROVE a \in AcceptedAllocations(acc)
  BY <1>4 DEF AcceptedAllocations
<1>7. ASSUME NEW a \in AcceptedAllocations(acc)
      PROVE  a \in AcceptedAllocations(few) \cup {acc[n].allocation}
  BY <1>5 DEF AcceptedAllocations
<1>8. acc[n].allocation \in AcceptedAllocations(acc)
  BY <1>2 DEF AcceptedAllocations
<1>9. ASSUME NEW a \in AcceptedAllocations(few)
      PROVE  \E j \in DOMAIN acc \ {n} : acc[j].allocation = a
  BY <1>4 DEF AcceptedAllocations
<1> QED
  BY <1>6, <1>7, <1>8, <1>9 DEF few

\* A part of what can be committed can be committed.
LEMMA CommittablePart ==
  ASSUME NEW acc \in Seq(Acceptance), NEW some \in Seq(Acceptance), IsPart(some, acc),
         Committable(acc)
  PROVE  Committable(some)
<1>1. PICK p : Places(p, some, acc) /\ \A i \in 1..Len(some) : some[i] = acc[p[i]]
  BY DEF IsPart
<1>2. DOMAIN acc = 1..Len(acc) /\ DOMAIN some = 1..Len(some)
  OBVIOUS
<1>3. /\ p \in [DOMAIN some -> DOMAIN acc]
      /\ \A i \in DOMAIN some : some[i] = acc[p[i]]
  BY <1>1, <1>2 DEF Places
<1>4. ASSUME NEW i \in DOMAIN some, NEW j \in DOMAIN some, i # j PROVE p[i] # p[j]
  <2>1. i \in Nat /\ j \in Nat /\ (i < j \/ j < i)
    BY <1>2, <1>4
  <2>2. \A k \in DOMAIN some : p[k] \in Nat
    BY <1>2, <1>3
  <2>3. p[i] < p[j] \/ p[j] < p[i]
    BY <1>1, <1>2, <2>1 DEF Places
  <2> QED
    BY <2>2, <2>3
<1>5. \A i \in DOMAIN some : Unused(some[i].allocation)
                             /\ some[i].allocation.purpose = Purpose(some[i].candidate)
  BY <1>3 DEF Committable
<1>6. \A i, j \in DOMAIN some : i # j =>
        /\ some[i].allocation.allocation_id # some[j].allocation.allocation_id
        /\ some[i].allocation.sibling_identity # some[j].allocation.sibling_identity
  <2> TAKE i, j \in DOMAIN some
  <2> HAVE i # j
  <2>1. p[i] \in DOMAIN acc /\ p[j] \in DOMAIN acc /\ p[i] # p[j]
    BY <1>3, <1>4
  <2> QED
    BY <1>3, <2>1 DEF Committable
<1> QED
  BY <1>5, <1>6 DEF Committable

LEMMA IdleFields ==
  ASSUME NEW o \in {"none", "returned", "raised", "overrun"}
  PROVE  /\ Idle(o) \in Run
         /\ Idle(o).at = "idle" /\ Idle(o).todo = <<>> /\ Idle(o).accepted = <<>>
         /\ Idle(o).current = None /\ Idle(o).drop = {} /\ Idle(o).kept = {}
         /\ Idle(o).after = "end" /\ Idle(o).outcome = o
BY AcceptedNone DEF Idle, Run, Points, Afters

-----------------------------------------------------------------------------
(* The steps of advance.  A step starts in a consistent state and ends up  *)
(* with todo to be tried, acc in hand, retained added to the record and    *)
(* out to be released; Books says that these account for every allocation. *)

Books(todo, acc, retained, out) ==
  /\ TypeOK /\ Records
  /\ todo \in Seq(Candidates) /\ acc \in Seq(Acceptance)
  /\ retained \in SUBSET Allocation /\ out \in SUBSET Allocation
  /\ Fine(todo, acc, retained \cup out)
  /\ out \cap retained = {}
  /\ Balanced(Actives \cup cleanup \cup AcceptedAllocations(acc) \cup retained \cup out,
              handed', released')
  /\ released \subseteq released'
  /\ advances' \in Nat

Retain(retained) ==
  /\ cleanup' = cleanup \cup retained
  /\ identities' = identities \cup IdentitiesOf(retained)
  /\ UNCHANGED <<ledger, active>>

LEMMA Identities ==
  ASSUME NEW A \in SUBSET Allocation, NEW B \in SUBSET Allocation
  PROVE  /\ IdentitiesOf(A) \in SUBSET SiblingIdentities
         /\ IdentitiesOf(A \cup B) = IdentitiesOf(A) \cup IdentitiesOf(B)
<1>1. \A a \in A : a.sibling_identity \in SiblingIdentities
  BY DEF Allocation
<1> QED
  BY <1>1 DEF IdentitiesOf

LEMMA ActivesType ==
  ASSUME TypeOK
  PROVE  /\ Actives \in SUBSET Allocation
         /\ \A id \in AllocationIds : active[id] # None => active[id] \in Actives
         /\ \A a \in Actives : \E id \in AllocationIds : active[id] = a
BY DEF TypeOK, Actives

\* The call waits for one of its callbacks, or ends without a commit.
LEMMA Waits ==
  ASSUME NEW todo, NEW acc, NEW retained, NEW out,
         Books(todo, acc, retained, out), Retain(retained),
         (run \in Run)', Shape', run'.at # "closing", run'.outcome # "overrun",
         Left' = todo, InHand' = acc, run'.drop = out
  PROVE  IInv'
<1> USE DEF Books, Retain
<1>1. Actives' = Actives /\ ledger' = ledger /\ active' = active
  BY DEF Actives
<1>2. Actives \in SUBSET Allocation /\ cleanup \in SUBSET Allocation
  BY ActivesType DEF TypeOK
<1>3. /\ handed' \in SUBSET Allocation /\ released' \in SUBSET Allocation
      /\ identities' \in SUBSET SiblingIdentities
  BY Identities DEF Balanced, TypeOK
<1>4. TypeOK'
  BY <1>1, <1>2, <1>3 DEF TypeOK
<1>5. Records'
  <2>1. identities' = IdentitiesOf(Actives' \cup cleanup')
    <3>1. identities = IdentitiesOf(Actives \cup cleanup)
      BY DEF Records
    <3>2. Actives' \cup cleanup' = (Actives \cup cleanup) \cup retained
      BY <1>1
    <3>3. Actives \cup cleanup \in SUBSET Allocation
      BY <1>2
    <3> QED
      BY <3>1, <3>2, <3>3, Identities
  <2>2. LedgerBacked'
    <3>1. \A i \in DOMAIN ledger :
            \E a \in Actives \cup released : a.purpose = <<ledger[i].candidate_id, ledger[i].target_tier>>
      BY DEF Records, LedgerBacked
    <3>2. \A a \in Actives :
            \E i \in DOMAIN ledger : a.purpose = <<ledger[i].candidate_id, ledger[i].target_tier>>
      BY DEF Records, LedgerBacked
    <3>3. \A a \in Actives \cup released : a \in Actives' \cup released'
      BY <1>1
    <3> QED
      BY <1>1, <3>1, <3>2, <3>3 DEF LedgerBacked
  <2> QED
    BY <1>1, <2>1, <2>2 DEF Records
<1>6. Fine(Left, InHand, IF At("closing") THEN {} ELSE run.drop)'
  <2>1. Committable(acc) /\ Room(acc, todo) /\ Separate(acc, retained \cup out)
    BY DEF Fine
  <2>2. Committable(InHand)'
    BY <1>1, <2>1 DEF Committable, Unused
  <2>3. Room(InHand, Left)'
    BY <1>1, <2>1 DEF Room
  <2>4. Separate(InHand, run.drop)'
    BY <1>1, <2>1 DEF Separate
  <2> QED
    BY <2>2, <2>3, <2>4 DEF Fine, At
<1>7. ClosingOK'
  BY DEF ClosingOK, At
<1>8. Balanced(Held, handed, released)'
  <2>1. AcceptedAllocations(acc) =
          AcceptedAllocations(run'.accepted) \cup ({run'.current} \ {None})
    <3>1. CASE run'.at = "capturing"
      <4> DEFINE x == [candidate |-> Request', allocation |-> run'.current]
      <4>1. run'.todo \in Seq(Candidates) /\ run'.todo # <<>> /\ run'.accepted \in Seq(Acceptance)
        BY <3>1 DEF Shape, At, Run
      <4>2. run'.current \in Allocation /\ run'.current # None
        BY <3>1, NoneAssumption DEF Shape, At, Run
      <4>3. Request' \in Candidates
        BY <4>1 DEF Request
      <4>4. x \in Acceptance /\ x.allocation = run'.current
        BY <4>2, <4>3 DEF Acceptance
      <4>5. acc = Append(run'.accepted, x)
        BY <3>1 DEF InHand, At
      <4> HIDE DEF x
      <4>6. AcceptedAllocations(acc) = AcceptedAllocations(run'.accepted) \cup {x.allocation}
        BY <4>1, <4>4, <4>5, AcceptedAppend
      <4> QED
        BY <4>2, <4>4, <4>6
    <3>2. CASE run'.at # "capturing"
      <4>1. run'.current = None
        BY <3>2 DEF Shape, At
      <4>2. acc = run'.accepted
        BY <3>2 DEF InHand, At
      <4> QED
        BY <4>1, <4>2
    <3> QED
      BY <3>1, <3>2
  <2>2. Held' = Actives \cup cleanup \cup AcceptedAllocations(acc) \cup retained \cup out
    BY <1>1, <2>1 DEF Held, At
  <2> QED
    BY <2>2 DEF Balanced
<1> QED
  BY <1>4, <1>5, <1>6, <1>7, <1>8 DEF IInv

\* Less is left to be tried.
LEMMA BooksLess ==
  ASSUME NEW todo, NEW acc, NEW retained, NEW out, Books(todo, acc, retained, out),
         NEW rest \in Seq(Candidates), IsPart(rest, todo)
  PROVE  Books(rest, acc, retained, out)
<1>1. acc \in Seq(Acceptance) /\ todo \in Seq(Candidates) /\ Room(acc, todo)
  BY DEF Books, Fine
<1>2. IsPart(acc, acc)
  BY <1>1, PartSame
<1>3. ledger \in Seq(BudgetReservation(Candidates))
  BY DEF Books, TypeOK
<1>4. Room(acc, rest)
  BY <1>1, <1>2, <1>3, RoomLess DEF Room
<1> QED
  BY <1>4 DEF Books, Fine

\* All that was accepted is to be released.
LEMMA BooksDropped ==
  ASSUME NEW todo, NEW acc, NEW retained, Books(todo, acc, retained, {})
  PROVE  Books(<<>>, <<>>, retained, AcceptedAllocations(acc))
<1> DEFINE none == <<>>
           out == AcceptedAllocations(acc)
<1>1. acc \in Seq(Acceptance) /\ todo \in Seq(Candidates) /\ Room(acc, todo)
  BY DEF Books, Fine
<1>2. /\ none \in Seq(Acceptance) /\ none \in Seq(Candidates)
      /\ AcceptedAllocations(none) = {} /\ DOMAIN none = {}
  BY AcceptedNone
<1>3. IsPart(none, acc) /\ IsPart(none, todo)
  BY <1>1, PartNone
<1>4. out \in SUBSET Allocation
  BY <1>1, AcceptedOf
<1>5. ledger \in Seq(BudgetReservation(Candidates))
  BY DEF Books, TypeOK
<1> HIDE DEF none
<1>6. Room(none, none)
  BY <1>1, <1>2, <1>3, <1>5, RoomLess DEF Room
<1>7. Committable(none)
  BY <1>2 DEF Committable
<1>8. Separate(acc, retained)
  BY DEF Books, Fine
<1>9. Separate(none, retained \cup out) /\ out \cap retained = {}
  BY <1>2, <1>8 DEF Separate
<1>10. Balanced(Actives \cup cleanup \cup AcceptedAllocations(none) \cup retained \cup out,
                handed', released')
  BY <1>2 DEF Books
<1>11. Books(none, none, retained, out)
  BY <1>2, <1>4, <1>6, <1>7, <1>9, <1>10 DEF Books, Fine
<1> QED
  BY <1>11 DEF none

LEMMA Asks ==
  ASSUME NEW todo, NEW acc, NEW retained,
         Books(todo, acc, retained, {}), Retain(retained), todo # <<>>,
         run' = [Idle("none") EXCEPT !.at = "allocating", !.todo = todo, !.accepted = acc]
  PROVE  IInv'
<1>1. todo \in Seq(Candidates) /\ acc \in Seq(Acceptance)
  BY DEF Books
<1>2. /\ run'.at = "allocating" /\ run'.todo = todo /\ run'.accepted = acc /\ run'.current = None
      /\ run'.drop = {} /\ run'.kept = {} /\ run'.after = "end" /\ run'.outcome = "none"
  BY DEF Idle
<1>3. run' \in Run
  BY <1>1 DEF Idle, Run, Points, Afters
<1>4. Shape'
  BY <1>2 DEF Shape, At
<1>5. Left' = todo /\ InHand' = acc
  BY <1>2 DEF Left, InHand, At
<1> QED
  BY <1>2, <1>3, <1>4, <1>5, Waits

LEMMA Drops ==
  ASSUME NEW todo, NEW acc, NEW retained, NEW out, NEW after \in Afters,
         Books(todo, acc, retained, out), Retain(retained), out # {},
         after # "next" => todo = <<>>, after = "end" => acc = <<>>,
         ReleaseThen(out, after, todo, acc)
  PROVE  IInv'
<1>1. todo \in Seq(Candidates) /\ acc \in Seq(Acceptance) /\ out \in SUBSET Allocation
  BY DEF Books
<1>2. run' = [Idle("none") EXCEPT !.at = "releasing", !.drop = out, !.after = after,
                                  !.todo = todo, !.accepted = acc]
  BY DEF ReleaseThen
<1>3. /\ run'.at = "releasing" /\ run'.todo = todo /\ run'.accepted = acc /\ run'.current = None
      /\ run'.drop = out /\ run'.kept = {} /\ run'.after = after /\ run'.outcome = "none"
  BY <1>2 DEF Idle
<1>4. run' \in Run
  BY <1>1, <1>2 DEF Idle, Run, Points, Afters
<1>5. Shape'
  BY <1>3 DEF Shape, At
<1>6. Left' = todo /\ InHand' = acc
  BY <1>3 DEF Left, InHand, At
<1> QED
  BY <1>3, <1>4, <1>5, <1>6, Waits

LEMMA Raises ==
  ASSUME NEW retained, Books(<<>>, <<>>, retained, {}), Retain(retained), run' = Idle("raised")
  PROVE  IInv'
<1> DEFINE none == <<>>
<1>1. /\ run' \in Run
      /\ run'.at = "idle" /\ run'.todo = none /\ run'.accepted = none
      /\ run'.current = None /\ run'.drop = {} /\ run'.kept = {}
      /\ run'.after = "end" /\ run'.outcome = "raised"
  BY IdleFields
<1>2. Shape'
  BY <1>1 DEF Shape, At
<1>3. Left' = none /\ InHand' = none
  BY <1>1 DEF Left, InHand, At
<1>4. Books(none, none, retained, {})
  OBVIOUS
<1> HIDE DEF none
<1> QED
  BY <1>1, <1>2, <1>3, <1>4, Waits

LEMMA Aborts ==
  ASSUME NEW todo, NEW acc, NEW retained,
         Books(todo, acc, retained, {}), Retain(retained), Abort(acc)
  PROVE  IInv'
<1>1. Books(<<>>, <<>>, retained, AcceptedAllocations(acc))
  BY BooksDropped
<1>2. CASE acc = <<>>
  <2>1. AcceptedAllocations(acc) = {}
    BY <1>2, AcceptedNone
  <2>2. Books(<<>>, <<>>, retained, {})
    BY <1>1, <2>1
  <2>3. run' = Idle("raised")
    BY <1>2 DEF Abort
  <2> QED
    BY <2>2, <2>3, Raises
<1>3. CASE acc # <<>>
  <2>1. acc \in Seq(Acceptance)
    BY DEF Books
  <2>2. 1 \in 1..Len(acc)
    BY <1>3, <2>1
  <2>3. AcceptedAllocations(acc) # {}
    BY <2>1, <2>2, AcceptedOf
  <2>4. ReleaseThen(AcceptedAllocations(acc), "end", <<>>, <<>>)
    BY <1>3 DEF Abort
  <2> DEFINE none == <<>>
             out == AcceptedAllocations(acc)
             after == "end"
  <2>5. /\ Books(none, none, retained, out) /\ out # {} /\ ReleaseThen(out, after, none, none)
        /\ after \in Afters /\ (after # "next" => none = <<>>) /\ (after = "end" => none = <<>>)
    BY <1>1, <2>3, <2>4 DEF Afters
  <2> HIDE DEF none, out, after
  <2> QED
    BY <2>5, Drops
<1> QED
  BY <1>2, <1>3

LEMMA NothingCharged ==
  ASSUME NEW l \in Seq(BudgetReservation(Candidates))
  PROVE  ChargedWith(l, CandidatesOf(<<>>) \o <<>>) = l
<1> DEFINE none == <<>>
           S == BudgetReservation(Candidates)
           m == [i \in 1..0 |-> Reservation(none[i], Len(l) + i)]
<1>1. CandidatesOf(none) \o none = none
  BY DEF CandidatesOf
<1>2. ChargedWith(l, none) = l \o m
  BY DEF ChargedWith
<1>3. m = <<>>
  OBVIOUS
<1>4. l \in Seq(S)
  OBVIOUS
<1> HIDE DEF m, S
<1>5. l \o m = l
  BY <1>3, <1>4
<1> QED
  BY <1>1, <1>2, <1>5

\* All that is in hand is put on record.
LEMMA Recorded ==
  ASSUME NEW acc \in Seq(Acceptance), TypeOK, Records, Committable(acc),
         active' = [id \in AllocationIds |->
                      IF \E a \in AcceptedAllocations(acc) : a.allocation_id = id
                      THEN CHOOSE a \in AcceptedAllocations(acc) : a.allocation_id = id
                      ELSE active[id]]
  PROVE  /\ active' \in [AllocationIds -> Allocation \cup {None}]
         /\ Actives' = Actives \cup AcceptedAllocations(acc)
         /\ \A id \in AllocationIds : active'[id] # None => active'[id].allocation_id = id
         /\ \A a, b \in Actives' : a.sibling_identity = b.sibling_identity => a = b
<1> DEFINE K == AcceptedAllocations(acc)
<1>1. /\ K \in SUBSET Allocation
      /\ \A a \in K : \E i \in 1..Len(acc) : acc[i].allocation = a
      /\ DOMAIN acc = 1..Len(acc)
  BY AcceptedOf
<1>2. /\ active' = [id \in AllocationIds |-> IF \E a \in K : a.allocation_id = id
                                            THEN CHOOSE a \in K : a.allocation_id = id
                                            ELSE active[id]]
  OBVIOUS
<1> HIDE DEF K
<1>3. \A a \in K : /\ a.allocation_id \in AllocationIds /\ a # None
                   /\ Unused(a)
  <2> TAKE a \in K
  <2>1. PICK i \in DOMAIN acc : acc[i].allocation = a
    BY <1>1
  <2>2. a \in Allocation
    BY <1>1
  <2>3. a.allocation_id \in AllocationIds /\ a # None
    BY <2>2, NoneAssumption DEF Allocation
  <2> QED
    BY <2>1, <2>3 DEF Committable
<1>4. ASSUME NEW a \in K, NEW b \in K,
             a.allocation_id = b.allocation_id \/ a.sibling_identity = b.sibling_identity
      PROVE  a = b
  <2>1. PICK i \in DOMAIN acc : acc[i].allocation = a
    BY <1>1
  <2>2. PICK j \in DOMAIN acc : acc[j].allocation = b
    BY <1>1
  <2> QED
    BY <1>4, <2>1, <2>2 DEF Committable
<1>5. ASSUME NEW a \in K PROVE active'[a.allocation_id] = a
  <2>1. (CHOOSE b \in K : b.allocation_id = a.allocation_id) = a
    BY <1>4
  <2> QED
    BY <1>2, <1>3, <2>1
<1>6. ASSUME NEW id \in AllocationIds
      PROVE  active'[id] = active[id] \/ (active'[id] \in K /\ active'[id].allocation_id = id)
  <2>1. CASE \E a \in K : a.allocation_id = id
    <3>1. PICK a \in K : a.allocation_id = id
      BY <2>1
    <3> QED
      BY <1>5, <3>1
  <2>2. CASE ~\E a \in K : a.allocation_id = id
    BY <1>2, <2>2
  <2> QED
    BY <2>1, <2>2
<1>7. /\ active \in [AllocationIds -> Allocation \cup {None}]
      /\ \A id \in AllocationIds : active[id] # None => active[id].allocation_id = id
      /\ \A a, b \in Actives : a.sibling_identity = b.sibling_identity => a = b
  BY DEF TypeOK, Records
<1>8. /\ \A id \in AllocationIds : active[id] # None => active[id] \in Actives
      /\ \A a \in Actives : \E id \in AllocationIds : active[id] = a /\ a # None
  BY DEF Actives
<1>9. active' \in [AllocationIds -> Allocation \cup {None}]
  <2>1. \A id \in AllocationIds : active'[id] \in Allocation \cup {None}
    BY <1>1, <1>6, <1>7
  <2>2. active' = [id \in AllocationIds |-> active'[id]]
    BY <1>2
  <2> QED
    BY <2>1, <2>2
<1>10. Actives' = Actives \cup K
  <2>1. ASSUME NEW a \in Actives' PROVE a \in Actives \cup K
    <3>1. PICK id \in AllocationIds : active'[id] = a /\ a # None
      BY DEF Actives
    <3> QED
      BY <1>6, <1>8, <3>1
  <2>2. ASSUME NEW a \in K PROVE a \in Actives'
    <3>1. active'[a.allocation_id] = a /\ a.allocation_id \in AllocationIds /\ a # None
      BY <1>3, <1>5
    <3> QED
      BY <3>1 DEF Actives
  <2>3. ASSUME NEW a \in Actives PROVE a \in Actives'
    <3>1. PICK id \in AllocationIds : active[id] = a /\ a # None
      BY <1>8
    <3>2. ~\E b \in K : b.allocation_id = id
      BY <1>3, <3>1 DEF Unused
    <3>3. active'[id] = a
      BY <1>2, <3>1, <3>2
    <3> QED
      BY <3>1, <3>3 DEF Actives
  <2> QED
    BY <2>1, <2>2, <2>3
<1>11. \A id \in AllocationIds : active'[id] # None => active'[id].allocation_id = id
  BY <1>6, <1>7
<1>12. \A a, b \in Actives \cup K : a.sibling_identity = b.sibling_identity => a = b
  <2>1. \A a \in K, b \in Actives : a.sibling_identity # b.sibling_identity
    BY <1>3 DEF Unused, IdentitiesOf
  <2> QED
    BY <1>4, <1>7, <2>1
<1> QED
  BY <1>9, <1>10, <1>11, <1>12 DEF K

LEMMA Commits ==
  ASSUME NEW todo, NEW acc, NEW retained, Books(todo, acc, retained, {}),
         cleanup' = cleanup \cup retained, Commit(acc, retained)
  PROVE  IInv'
<1> DEFINE K == AcceptedAllocations(acc)
           none == <<>>
           cs == CandidatesOf(acc)
<1>1. /\ acc \in Seq(Acceptance) /\ todo \in Seq(Candidates) /\ Committable(acc)
      /\ Room(acc, todo) /\ Separate(acc, retained) /\ TypeOK /\ Records
      /\ retained \in SUBSET Allocation
  BY DEF Books, Fine
<1>2. ledger \in Seq(BudgetReservation(Candidates)) /\ Chargeable(Candidates)
  BY <1>1, CandidatesChargeable DEF TypeOK
<1>3. /\ none \in Seq(Acceptance) /\ none \in Seq(Candidates) /\ DOMAIN none = {}
      /\ AcceptedAllocations(none) = {}
  BY AcceptedNone
<1>4. /\ cs \in Seq(Candidates) /\ Len(cs) = Len(acc)
      /\ \A i \in 1..Len(acc) : cs[i] = acc[i].candidate
  BY <1>1, CandidatesOfType
<1>5. LedgerValid(ChargedWith(ledger, cs))
  <2>1. IsPart(acc, acc) /\ IsPart(none, todo)
    BY <1>1, PartSame, PartNone
  <2> HIDE DEF none, cs
  <2>2. LedgerValid(ChargedWith(ledger, CandidatesOf(acc) \o none))
    BY <1>1, <1>2, <1>3, <2>1, RoomLess DEF Room
  <2>3. cs \o none = cs
    BY <1>4, ConcatNone DEF none
  <2> QED
    BY <2>2, <2>3 DEF cs
<1>6. /\ \A i \in 1..Len(acc) : Affords(acc, i)
      /\ Charged(acc, Len(acc)) = ChargedWith(ledger, cs)
  BY <1>1, <1>5, Charging
<1>7. DOMAIN acc = 1..Len(acc) /\ Len(acc) \in Nat
  BY <1>1
<1>8. \A i \in 1..Len(acc) : \A j \in 1..i : Affords(acc, j)
  <2>1. \A i \in 1..Len(acc) : \A j \in 1..i : j \in 1..Len(acc)
    BY <1>7
  <2> QED
    BY <1>6, <2>1
<1> HIDE DEF cs
<1>9. /\ active' = [id \in AllocationIds |->
                      IF \E a \in K : a.allocation_id = id
                      THEN CHOOSE a \in K : a.allocation_id = id ELSE active[id]]
      /\ identities' = identities \cup IdentitiesOf(K \cup retained)
      /\ ledger' = ChargedWith(ledger, cs)
      /\ run' = Idle("returned")
  <2> DEFINE Reached(i) == \A j \in 1..i : Affords(acc, j)
             kept == {acc[i].allocation : i \in {j \in DOMAIN acc : Reached(j)}}
             ok == Reached(Len(acc))
  <2>1. /\ active' = [id \in AllocationIds |->
                        IF \E a \in kept : a.allocation_id = id
                        THEN CHOOSE a \in kept : a.allocation_id = id ELSE active[id]]
        /\ identities' = identities \cup IdentitiesOf(kept \cup retained)
        /\ ledger' = IF ok THEN Charged(acc, Len(acc)) ELSE ledger
        /\ run' = Idle(IF ok THEN "returned" ELSE "overrun")
    BY DEF Commit
  <2>2. ok
    BY <1>6
  <2>3. {j \in DOMAIN acc : Reached(j)} = DOMAIN acc
    BY <1>7, <1>8
  <2>4. kept = K
    BY <2>3 DEF AcceptedAllocations
  <2> HIDE DEF kept, ok, K
  <2> QED
    BY <1>6, <2>1, <2>2, <2>4
<1>10. /\ active' \in [AllocationIds -> Allocation \cup {None}]
       /\ Actives' = Actives \cup K
       /\ \A id \in AllocationIds : active'[id] # None => active'[id].allocation_id = id
       /\ \A a, b \in Actives' : a.sibling_identity = b.sibling_identity => a = b
  BY <1>1, <1>9, Recorded
<1>11. /\ K \in SUBSET Allocation /\ Actives \in SUBSET Allocation /\ cleanup \in SUBSET Allocation
       /\ \A a \in K : \E i \in 1..Len(acc) : acc[i].allocation = a
       /\ \A i \in 1..Len(acc) : acc[i].allocation \in K
  BY <1>1, AcceptedOf, ActivesType DEF TypeOK
<1>12. \A i \in 1..Len(acc) : acc[i].allocation.purpose = Purpose(acc[i].candidate)
  BY <1>1, <1>7 DEF Committable
<1> HIDE DEF K
<1>13. /\ handed' \in SUBSET Allocation /\ released' \in SUBSET Allocation
       /\ released \subseteq released' /\ advances' \in Nat
       /\ Balanced(Actives \cup cleanup \cup K \cup retained \cup {}, handed', released')
  BY DEF Books, Balanced, K
<1>14. identities' = IdentitiesOf(Actives' \cup cleanup') /\ identities' \in SUBSET SiblingIdentities
  <2>1. identities = IdentitiesOf(Actives \cup cleanup)
    BY <1>1 DEF Records
  <2>2. Actives' \cup cleanup' = (Actives \cup cleanup) \cup (K \cup retained)
    BY <1>10
  <2>3. /\ Actives \cup cleanup \in SUBSET Allocation /\ K \cup retained \in SUBSET Allocation
        /\ Actives' \cup cleanup' \in SUBSET Allocation
    BY <1>1, <1>11, <2>2
  <2> QED
    BY <1>9, <2>1, <2>2, <2>3, Identities
<1>15. /\ run' \in Run
       /\ run'.at = "idle" /\ run'.todo = none /\ run'.accepted = none
       /\ run'.current = None /\ run'.drop = {} /\ run'.kept = {}
       /\ run'.after = "end" /\ run'.outcome = "returned"
  BY <1>9, IdleFields
<1>16. /\ ledger' \in Seq(BudgetReservation(Candidates)) /\ Len(ledger') = Len(ledger) + Len(acc)
       /\ \A i \in 1..Len(ledger) : ledger'[i] = ledger[i]
       /\ \A i \in 1..Len(acc) : ledger'[Len(ledger) + i] = Reservation(cs[i], Len(ledger) + i)
  <2> DEFINE l == ledger
             x == ChargedWith(l, cs)
  <2>1. /\ l \in Seq(BudgetReservation(Candidates))
        /\ cs \in Seq(Candidates)
    BY <1>2, <1>4
  <2> HIDE DEF l
  <2>2. /\ x \in Seq(BudgetReservation(Candidates)) /\ Len(x) = Len(l) + Len(cs)
        /\ \A i \in 1..Len(l) : x[i] = l[i]
        /\ \A i \in 1..Len(cs) : x[Len(l) + i] = Reservation(cs[i], Len(l) + i)
    BY <1>2, <2>1, ChargedWithType
  <2>3. ledger' = x
    BY <1>9 DEF l
  <2>4. Len(cs) = Len(acc)
    BY <1>4
  <2> HIDE DEF x
  <2> QED
    BY <2>2, <2>3, <2>4 DEF l
<1>17. TypeOK'
  BY <1>1, <1>10, <1>11, <1>13, <1>14, <1>15, <1>16 DEF TypeOK
<1>18. LedgerBacked'
  <2>1. Len(ledger) \in Nat /\ DOMAIN ledger = 1..Len(ledger) /\ DOMAIN ledger' = 1..Len(ledger')
    BY <1>2, <1>16
  <2>2. \A i \in 1..Len(acc) :
          acc[i].allocation.purpose = <<ledger'[Len(ledger) + i].candidate_id,
                                        ledger'[Len(ledger) + i].target_tier>>
    <3> TAKE i \in 1..Len(acc)
    <3>1. ledger'[Len(ledger) + i] = Reservation(acc[i].candidate, Len(ledger) + i)
      BY <1>4, <1>16
    <3>2. \A c, n : /\ Reservation(c, n).candidate_id = c.candidate_id
                     /\ Reservation(c, n).target_tier = NextTier[c.tier]
      BY DEF Reservation
    <3>3. /\ ledger'[Len(ledger) + i].candidate_id = acc[i].candidate.candidate_id
          /\ ledger'[Len(ledger) + i].target_tier = NextTier[acc[i].candidate.tier]
      BY <3>1, <3>2, Zenon
    <3>4. acc[i].allocation.purpose = Purpose(acc[i].candidate)
      BY <1>12
    <3> QED
      BY <3>3, <3>4, Zenon DEF Purpose
  <2>3. \A i \in DOMAIN ledger :
          \E a \in Actives \cup released : a.purpose = <<ledger[i].candidate_id, ledger[i].target_tier>>
    BY <1>1 DEF Records, LedgerBacked
  <2>4. \A a \in Actives :
          \E i \in DOMAIN ledger : a.purpose = <<ledger[i].candidate_id, ledger[i].target_tier>>
    BY <1>1 DEF Records, LedgerBacked
  <2>5. ASSUME NEW i \in DOMAIN ledger'
        PROVE  \E a \in Actives' \cup released' :
                 a.purpose = <<ledger'[i].candidate_id, ledger'[i].target_tier>>
    <3>1. CASE i <= Len(ledger)
      <4>1. i \in DOMAIN ledger /\ ledger'[i] = ledger[i]
        BY <1>16, <2>1, <3>1
      <4>2. PICK a \in Actives \cup released :
                   a.purpose = <<ledger[i].candidate_id, ledger[i].target_tier>>
        BY <2>3, <4>1
      <4> QED
        BY <1>10, <1>13, <4>1, <4>2
    <3>2. CASE ~(i <= Len(ledger))
      <4> DEFINE k == i - Len(ledger)
      <4>1. k \in 1..Len(acc) /\ i = Len(ledger) + k
        BY <1>7, <1>16, <2>1, <3>2
      <4> HIDE DEF k
      <4> QED
        BY <1>10, <1>11, <2>2, <4>1
    <3> QED
      BY <3>1, <3>2
  <2>6. ASSUME NEW a \in Actives'
        PROVE  \E i \in DOMAIN ledger' :
                 a.purpose = <<ledger'[i].candidate_id, ledger'[i].target_tier>>
    <3>1. CASE a \in Actives
      <4>1. PICK i \in DOMAIN ledger : a.purpose = <<ledger[i].candidate_id, ledger[i].target_tier>>
        BY <2>4, <3>1
      <4>2. i \in DOMAIN ledger' /\ ledger'[i] = ledger[i]
        BY <1>7, <1>16, <2>1
      <4> QED
        BY <4>1, <4>2
    <3>2. CASE a \in K
      <4>1. PICK i \in 1..Len(acc) : acc[i].allocation = a
        BY <1>11, <3>2
      <4>2. Len(ledger) + i \in DOMAIN ledger'
        BY <1>7, <1>16, <2>1
      <4> QED
        BY <2>2, <4>1, <4>2
    <3> QED
      BY <1>10, <3>1, <3>2
  <2> QED
    BY <2>5, <2>6 DEF LedgerBacked
<1>19. Records'
  BY <1>10, <1>14, <1>18 DEF Records
<1>20. Shape'
  BY <1>9, <1>15 DEF Shape, At
<1>21. Left' = none /\ InHand' = none
  BY <1>15 DEF Left, InHand, At
<1>22. Fine(Left, InHand, IF At("closing") THEN {} ELSE run.drop)'
  <2>1. LedgerValid(ChargedWith(ledger', CandidatesOf(none) \o none))
    BY <1>5, <1>9, <1>16, NothingCharged
  <2> HIDE DEF none
  <2>2. Committable(InHand)'
    BY <1>3, <1>21 DEF Committable
  <2>3. Room(InHand, Left)'
    BY <1>21, <2>1 DEF Room
  <2>4. Separate(InHand, run.drop)'
    BY <1>3, <1>15, <1>21 DEF Separate
  <2> QED
    BY <1>15, <2>2, <2>3, <2>4 DEF Fine, At
<1>23. ClosingOK'
  BY <1>15 DEF ClosingOK, At
<1>24. Balanced(Held, handed, released)'
  <2>1. AcceptedAllocations(run'.accepted) = {}
    BY <1>3, <1>15
  <2>2. Held' = Actives \cup cleanup \cup K \cup retained \cup {}
    BY <1>10, <1>15, <2>1 DEF Held, At
  <2> QED
    BY <1>13, <2>2 DEF Balanced
<1> QED
  BY <1>15, <1>17, <1>19, <1>20, <1>22, <1>23, <1>24 DEF IInv

\* The end of an iteration of advance.
LEMMA Continues ==
  ASSUME NEW todo, NEW acc, NEW retained,
         Books(todo, acc, retained, {}), Continue(todo, acc, retained)
  PROVE  IInv'
<1>1. cleanup' = cleanup \cup retained
  BY DEF Continue
<1>2. CASE Pending(todo) = <<>>
  BY <1>1, <1>2, Commits DEF Continue
<1>3. CASE Pending(todo) # <<>>
  <2> DEFINE next == Pending(todo)
  <2>1. todo \in Seq(Candidates)
    BY DEF Books
  <2>2. next \in Seq(Candidates) /\ IsPart(next, todo)
    BY <2>1, PendingIsPart
  <2>3. /\ run' = [Idle("none") EXCEPT !.at = "allocating", !.todo = next, !.accepted = acc]
        /\ Retain(retained) /\ next # <<>>
    BY <1>1, <1>3 DEF Continue, Retain
  <2> HIDE DEF next
  <2>4. Books(next, acc, retained, {})
    BY <2>2, BooksLess
  <2> QED
    BY <2>3, <2>4, Asks
<1> QED
  BY <1>2, <1>3

\* What is in hand, and what the workflow answers for while close does not run.
LEMMA HandType ==
  ASSUME TypeOK, Shape
  PROVE  /\ InHand \in Seq(Acceptance) /\ Left \in Seq(Candidates)
         /\ run.at # "closing" =>
              Held = Actives \cup cleanup \cup AcceptedAllocations(InHand) \cup run.drop
<1>1. run.accepted \in Seq(Acceptance) /\ run.todo \in Seq(Candidates)
  BY DEF TypeOK, Run
<1>2. CASE At("capturing")
  <2> DEFINE x == [candidate |-> Request, allocation |-> run.current]
  <2>1. run.todo # <<>> /\ run.current \in Allocation /\ run.current # None
    BY <1>2, NoneAssumption DEF TypeOK, Run, Shape, At
  <2>2. Request \in Candidates /\ Rest \in Seq(Candidates)
    BY <1>1, <2>1 DEF Request, Rest
  <2>3. x \in Acceptance /\ x.allocation = run.current
    BY <2>1, <2>2 DEF Acceptance
  <2>4. InHand = Append(run.accepted, x) /\ Left = Rest
    BY <1>2 DEF InHand, Left
  <2> HIDE DEF x
  <2>5. /\ InHand \in Seq(Acceptance)
        /\ AcceptedAllocations(InHand) = AcceptedAllocations(run.accepted) \cup {run.current}
    BY <1>1, <2>3, <2>4, AcceptedAppend
  <2>6. run.at # "closing"
    BY <1>2 DEF At
  <2> QED
    BY <2>1, <2>2, <2>4, <2>5, <2>6 DEF Held, At
<1>3. CASE ~At("capturing")
  <2>1. InHand = run.accepted /\ Left = run.todo /\ run.current = None
    BY <1>3 DEF InHand, Left, Shape
  <2> QED
    BY <1>1, <2>1 DEF Held, At
<1> QED
  BY <1>2, <1>3

\* A step that hands nothing over divides what was to be released.
LEMMA Divides ==
  ASSUME IInv, ~At("closing"), NEW retained, NEW out, NEW gone,
         retained \cup out \cup gone = run.drop,
         retained \cap out = {}, retained \cap gone = {}, out \cap gone = {},
         handed' = handed, released' = released \cup gone, advances' \in Nat
  PROVE  Books(Left, InHand, retained, out)
<1>1. /\ InHand \in Seq(Acceptance) /\ Left \in Seq(Candidates) /\ TypeOK /\ Records
      /\ Held = Actives \cup cleanup \cup AcceptedAllocations(InHand) \cup run.drop
  BY HandType DEF IInv, At
<1>2. Committable(InHand) /\ Room(InHand, Left) /\ Separate(InHand, run.drop)
  BY DEF IInv, Fine
<1>3. Balanced(Held, handed, released) /\ run.drop \in SUBSET Allocation
  BY DEF IInv, TypeOK, Run
<1> DEFINE hand == AcceptedAllocations(InHand)
           rec == Actives \cup cleanup
<1>4. hand \cap rec = {} /\ run.drop \cap rec = {} /\ run.drop \cap hand = {}
  BY <1>2 DEF Separate
<1>5. Separate(InHand, retained \cup out)
  BY <1>4 DEF Separate
<1>6. Fine(Left, InHand, retained \cup out)
  BY <1>2, <1>5 DEF Fine
<1>7. Balanced(Actives \cup cleanup \cup hand \cup retained \cup out, handed', released')
  <2> DEFINE new == Actives \cup cleanup \cup hand \cup retained \cup out
  <2>1. Held = new \cup gone /\ new \cap gone = {}
    BY <1>1, <1>4
  <2> HIDE DEF new
  <2>2. handed = new \cup (released \cup gone) /\ new \cap (released \cup gone) = {}
    BY <1>3, <2>1 DEF Balanced
  <2>3. Balanced(new, handed', released')
    BY <1>3, <2>2 DEF Balanced
  <2> QED
    BY <2>3 DEF new
<1>8. released \subseteq released'
  OBVIOUS
<1> QED
  BY <1>1, <1>3, <1>6, <1>7, <1>8 DEF Books

LEMMA HandAtRest ==
  ASSUME IInv, At("idle") \/ At("closing")
  PROVE  InHand = <<>> /\ Left = <<>> /\ LedgerValid(ledger)
<1>1. run.todo = <<>> /\ run.accepted = <<>> /\ ~At("capturing")
  BY DEF IInv, Shape, At, Idle
<1>2. InHand = <<>> /\ Left = <<>>
  BY <1>1 DEF InHand, Left
<1>3. Room(<<>>, <<>>) /\ ledger \in Seq(BudgetReservation(Candidates))
  BY <1>2 DEF IInv, Fine, TypeOK
<1>4. LedgerValid(ledger)
  BY <1>3, NothingCharged DEF Room
<1> QED
  BY <1>2, <1>4

LEMMA AdvanceStep ==
  ASSUME IInv, NEW B \in SUBSET Candidates, IsBatch(B), AdvanceWith(B)
  PROVE  IInv'
<1> DEFINE none == <<>>
           todo == Reservations(B)
<1>1. InHand = none /\ Left = none /\ LedgerValid(ledger) /\ TypeOK
  BY HandAtRest DEF AdvanceWith, IInv
<1>2. run.drop = {} /\ ~At("closing")
  BY DEF IInv, Shape, AdvanceWith, At, Idle
<1>3. handed' = handed /\ released' = released \cup {} /\ advances' \in Nat
  BY <1>1 DEF AdvanceWith, TypeOK
<1>4. Books(none, none, {}, {})
  <2>1. Books(Left, InHand, {}, {})
    BY <1>2, <1>3, Divides
  <2> QED
    BY <1>1, <2>1
<1>5. /\ todo \in Seq(Candidates) /\ LedgerValid(ChargedWith(ledger, todo))
  BY <1>1, ReservationsCharged
<1> HIDE DEF todo
<1>6. CandidatesOf(none) \o todo = todo
  <2>1. CandidatesOf(none) = <<>>
    BY DEF CandidatesOf
  <2> QED
    BY <1>5, <2>1
<1> HIDE DEF none
<1>7. Room(none, todo)
  BY <1>5, <1>6 DEF Room
<1>8. Books(todo, none, {}, {})
  BY <1>4, <1>5, <1>7 DEF Books, Fine
<1>9. Continue(todo, none, {})
  BY DEF AdvanceWith, todo, none
<1> QED
  BY <1>8, <1>9, Continues

-----------------------------------------------------------------------------
(* The answers of the allocator.                                           *)

LEMMA NewAllocation ==
  ASSUME IInv, NEW a \in Allocation, a.serial = Cardinality(handed) + 1
  PROVE  /\ a \notin handed /\ a \notin Held
         /\ IsFiniteSet(handed \cup {a})
         /\ \A b \in handed \cup {a} : b.serial <= Cardinality(handed \cup {a})
<1>1. Balanced(Held, handed, released)
  BY DEF IInv
<1>2. IsFiniteSet(handed) /\ Cardinality(handed) \in Nat
      /\ \A b \in handed : b.serial <= Cardinality(handed)
  BY <1>1, FS_CardinalityType DEF Balanced
<1>3. a \notin handed
  BY <1>2
<1>4. IsFiniteSet(handed \cup {a}) /\ Cardinality(handed \cup {a}) = Cardinality(handed) + 1
  BY <1>2, <1>3, FS_AddElement
<1>5. \A b \in handed : b.serial \in Nat
  <2>1. \A b \in handed : b \in Allocation
    BY <1>1 DEF Balanced
  <2> QED
    BY <2>1, BoundsAssumption DEF Allocation
<1>6. \A b \in handed \cup {a} : b.serial <= Cardinality(handed \cup {a})
  BY <1>2, <1>4, <1>5
<1> QED
  BY <1>1, <1>3, <1>4, <1>6 DEF Balanced

\* The allocation that was handed over, and some of what was in hand, are to be
\* retained or released.
LEMMA Arrives ==
  ASSUME IInv, At("allocating"), NEW a \in Allocation, a.serial = Cardinality(handed) + 1,
         handed' = handed \cup {a}, released' = released, advances' = advances,
         NEW some \in Seq(Acceptance), IsPart(some, run.accepted), NEW retained, NEW out,
         AcceptedAllocations(some) \cup retained \cup out =
           AcceptedAllocations(run.accepted) \cup {a},
         retained \cap out = {}, AcceptedAllocations(some) \cap (retained \cup out) = {}
  PROVE  Books(Rest, some, retained, out)
<1>1. /\ TypeOK /\ Shape /\ Records
      /\ InHand = run.accepted /\ Left = run.todo /\ run.drop = {} /\ run.todo # <<>>
  BY DEF IInv, Shape, InHand, Left, At
<1>2. /\ InHand \in Seq(Acceptance) /\ Left \in Seq(Candidates)
      /\ Held = Actives \cup cleanup \cup AcceptedAllocations(InHand) \cup run.drop
  BY <1>1, HandType DEF At
<1>3. Committable(InHand) /\ Room(InHand, Left) /\ Separate(InHand, run.drop)
  BY DEF IInv, Fine, At
<1>4. Rest \in Seq(Candidates) /\ IsPart(Rest, run.todo)
  BY <1>1, <1>2, PartTail DEF Rest
<1>5. Committable(some)
  BY <1>1, <1>2, <1>3, CommittablePart
<1>6. Room(some, Rest)
  <2>1. ledger \in Seq(BudgetReservation(Candidates))
    BY <1>1 DEF TypeOK
  <2> QED
    BY <1>1, <1>2, <1>3, <1>4, <2>1, RoomLess DEF Room
<1> DEFINE rec == Actives \cup cleanup
           hand == AcceptedAllocations(run.accepted)
           stay == AcceptedAllocations(some)
<1>7. Held = rec \cup hand /\ hand \cap rec = {}
  BY <1>1, <1>2, <1>3 DEF Separate
<1>8. a \notin handed /\ a \notin Held
  BY NewAllocation
<1>9. stay \cup retained \cup out = hand \cup {a} /\ stay \cap (retained \cup out) = {}
  OBVIOUS
<1>10. /\ hand \in SUBSET Allocation /\ Actives \in SUBSET Allocation
       /\ cleanup \in SUBSET Allocation
  BY <1>1, <1>2, AcceptedOf, ActivesType DEF TypeOK
<1>11. Balanced(Actives \cup cleanup \cup stay \cup retained \cup out, handed', released')
  <2> DEFINE new == Actives \cup cleanup \cup stay \cup retained \cup out
  <2>1. new = Held \cup {a}
    BY <1>7, <1>9
  <2> HIDE DEF new
  <2>2. Balanced(Held, handed, released)
    BY DEF IInv
  <2>3. handed' = new \cup released' /\ new \cap released' = {}
    BY <1>8, <2>1, <2>2 DEF Balanced
  <2>4. handed' \in SUBSET Allocation
    BY <2>2 DEF Balanced
  <2>5. IsFiniteSet(handed') /\ \A b \in handed' : b.serial <= Cardinality(handed')
    BY NewAllocation
  <2>6. Balanced(new, handed', released')
    BY <2>3, <2>4, <2>5 DEF Balanced
  <2> QED
    BY <2>6 DEF new
<1>12. Separate(some, retained \cup out)
  BY <1>7, <1>8, <1>9 DEF Separate
<1>13. retained \in SUBSET Allocation /\ out \in SUBSET Allocation
  BY <1>9, <1>10
<1>14. advances' \in Nat /\ released \subseteq released'
  BY <1>1 DEF TypeOK
<1> HIDE DEF stay, hand, rec
<1>15. Fine(Rest, some, retained \cup out)
  BY <1>5, <1>6, <1>12 DEF Fine
<1> QED
  BY <1>1, <1>4, <1>11, <1>13, <1>14, <1>15 DEF Books, stay

\* An accepted allocation is in hand while it is captured.
LEMMA Accepts ==
  ASSUME IInv, At("allocating"), NEW a \in Allocation, a.serial = Cardinality(handed) + 1,
         handed' = handed \cup {a}, UNCHANGED <<released, advances>>,
         UNCHANGED <<ledger, active, cleanup, identities>>,
         a.allocation_id \notin RetainedIds, Collided(a) = {}, ~Violates(a),
         run' = [run EXCEPT !.at = "capturing", !.current = a]
  PROVE  IInv'
<1> DEFINE acc == run.accepted
           x == [candidate |-> Request, allocation |-> a]
           more == Append(acc, x)
           rest == Rest
           hand == AcceptedAllocations(acc)
<1>1. /\ TypeOK /\ Shape /\ Records /\ run \in Run
      /\ InHand = acc /\ Left = run.todo /\ run.drop = {} /\ run.kept = {} /\ run.todo # <<>>
      /\ run.at = "allocating"
  BY DEF IInv, TypeOK, Shape, InHand, Left, At
<1>2. /\ acc \in Seq(Acceptance) /\ run.todo \in Seq(Candidates)
      /\ Held = Actives \cup cleanup \cup hand
  BY <1>1, HandType
<1>3. Committable(acc) /\ Room(acc, run.todo) /\ Separate(acc, {})
  BY <1>1 DEF IInv, Fine, At
<1>4. Request \in Candidates /\ Request = Head(run.todo) /\ rest \in Seq(Candidates)
      /\ rest = Tail(run.todo)
  BY <1>1, <1>2 DEF Request, Rest
<1>5. x \in Acceptance /\ x.candidate = Request /\ x.allocation = a
  BY <1>4 DEF Acceptance
<1> HIDE DEF x, rest
<1>6. more \in Seq(Acceptance) /\ AcceptedAllocations(more) = hand \cup {a}
  BY <1>2, <1>5, AcceptedAppend
<1>7. a \notin handed /\ a \notin Held
  BY NewAllocation
<1>8. Actives \in SUBSET Allocation /\ cleanup \in SUBSET Allocation
  BY <1>1, ActivesType DEF TypeOK
<1>9. Unused(a)
  <2>1. a.allocation_id \in AllocationIds
    BY DEF Allocation
  <2>2. active[a.allocation_id] # None =>
          /\ active[a.allocation_id] \in Actives
          /\ active[a.allocation_id].allocation_id = a.allocation_id
    BY <1>1, <2>1, ActivesType DEF Records
  <2>3. active[a.allocation_id] = None
    BY <2>2 DEF RetainedIds
  <2>4. a.sibling_identity \notin identities
    BY DEF Violates
  <2>5. identities = IdentitiesOf(Actives \cup cleanup)
    BY <1>1 DEF Records
  <2>6. a.sibling_identity \notin IdentitiesOf(Actives)
    BY <2>4, <2>5 DEF IdentitiesOf
  <2> QED
    BY <2>3, <2>6 DEF Unused
<1>10. Committable(more)
  <2>1. a.purpose = Purpose(Request)
    BY DEF Violates
  <2>2. \A i \in DOMAIN acc : acc[i].allocation.allocation_id # a.allocation_id
    BY DEF Collided
  <2>3. \A i \in DOMAIN acc : acc[i].allocation.sibling_identity # a.sibling_identity
    BY DEF Violates, IdentitiesOf, AcceptedAllocations
  <2>4. /\ Len(acc) \in Nat /\ Len(more) = Len(acc) + 1 /\ more[Len(acc) + 1] = x
        /\ \A i \in 1..Len(acc) : more[i] = acc[i]
        /\ DOMAIN acc = 1..Len(acc) /\ DOMAIN more = 1..Len(more)
    BY <1>2, <1>5
  <2> HIDE DEF more, acc
  <2>5. \A i \in DOMAIN more : (i \in DOMAIN acc /\ more[i] = acc[i])
                               \/ (i = Len(acc) + 1 /\ more[i] = x)
    BY <2>4
  <2>6. \A i \in DOMAIN more : /\ Unused(more[i].allocation)
                               /\ more[i].allocation.purpose = Purpose(more[i].candidate)
    BY <1>3, <1>5, <1>9, <2>1, <2>5 DEF Committable
  <2>7. \A i, j \in DOMAIN more : i # j =>
          /\ more[i].allocation.allocation_id # more[j].allocation.allocation_id
          /\ more[i].allocation.sibling_identity # more[j].allocation.sibling_identity
    BY <1>3, <1>5, <2>2, <2>3, <2>5 DEF Committable
  <2> QED
    BY <2>6, <2>7 DEF Committable
<1>11. Room(more, rest)
  <2>1. CandidatesOf(more) \o rest = CandidatesOf(acc) \o run.todo
    <3> DEFINE todo == run.todo
    <3>1. /\ acc \in Seq(Acceptance) /\ todo \in Seq(Candidates) /\ todo # <<>>
          /\ x \in Acceptance /\ x.candidate = Head(todo)
      BY <1>1, <1>2, <1>4, <1>5
    <3> HIDE DEF acc, todo
    <3>2. CandidatesOf(Append(acc, x)) \o Tail(todo) = CandidatesOf(acc) \o todo
      BY <3>1, TakeFirst
    <3> QED
      BY <1>4, <3>2 DEF todo
  <2> QED
    BY <1>3, <2>1 DEF Room
<1> DEFINE none == {}
<1>12. Books(rest, more, none, none)
  <2> HIDE DEF more
  <2>1. Separate(more, none \cup none)
    BY <1>2, <1>3, <1>6, <1>7 DEF Separate
  <2>2. Fine(rest, more, none \cup none)
    BY <1>10, <1>11, <2>1 DEF Fine
  <2> DEFINE new == Actives \cup cleanup \cup AcceptedAllocations(more) \cup none \cup none
  <2>3. new = Held \cup {a}
    BY <1>2, <1>6
  <2> HIDE DEF new
  <2>4. Balanced(Held, handed, released)
    BY DEF IInv
  <2>5. handed' = new \cup released' /\ new \cap released' = {}
        /\ handed' \in SUBSET Allocation
    BY <1>7, <2>3, <2>4 DEF Balanced
  <2>6. IsFiniteSet(handed') /\ \A b \in handed' : b.serial <= Cardinality(handed')
    BY NewAllocation
  <2>7. Balanced(new, handed', released')
    BY <2>5, <2>6 DEF Balanced
  <2>8. advances' \in Nat /\ released \subseteq released'
    BY <1>1 DEF TypeOK
  <2> QED
    BY <1>1, <1>4, <1>6, <2>2, <2>7, <2>8 DEF Books, new
<1>13. Retain(none)
  BY DEF Retain, IdentitiesOf
<1>14. /\ run'.at = "capturing" /\ run'.todo = run.todo /\ run'.accepted = acc
       /\ run'.current = a /\ run'.drop = {} /\ run'.kept = {} /\ run'.after = run.after
       /\ run'.outcome = run.outcome
  BY <1>1 DEF Run
<1>15. (run \in Run)'
  BY <1>1 DEF Run, Points
<1>16. Shape'
  BY <1>1, <1>14, NoneAssumption DEF Shape, At
<1>17. Left' = rest /\ InHand' = more
  <2>1. Request' = Request /\ Rest' = rest
    BY <1>4, <1>14 DEF Request, Rest
  <2> QED
    BY <1>14, <2>1 DEF Left, InHand, At, x
<1>18. run'.outcome # "overrun" /\ run'.at # "closing" /\ run'.drop = none
  BY <1>14 DEF IInv
<1> HIDE DEF more, none
<1> QED
  BY <1>12, <1>13, <1>15, <1>16, <1>17, <1>18, Waits

LEMMA RetainNothing ==
  ASSUME UNCHANGED <<ledger, active, cleanup, identities>>
  PROVE  Retain({})
BY DEF Retain, IdentitiesOf

LEMMA AllocatedStep ==
  ASSUME IInv, NEW a \in Allocation, AllocatedAs(a)
  PROVE  IInv'
<1> DEFINE acc == run.accepted
           rest == Rest
           hand == AcceptedAllocations(acc)
           none == {}
           only == {a}
<1>1. /\ At("allocating") /\ a.serial = Cardinality(handed) + 1 /\ handed' = handed \cup {a}
      /\ released' = released /\ advances' = advances
  BY DEF AllocatedAs
<1>2. TypeOK /\ Shape /\ InHand = acc /\ run.drop = {}
  BY <1>1 DEF IInv, Shape, InHand, At
<1>3. /\ acc \in Seq(Acceptance) /\ IsPart(acc, acc)
      /\ Held = Actives \cup cleanup \cup hand /\ Committable(acc)
  <2>1. acc \in Seq(Acceptance) /\ Held = Actives \cup cleanup \cup hand
    BY <1>1, <1>2, HandType DEF At
  <2> QED
    BY <1>1, <1>2, <2>1, PartSame DEF IInv, Fine
<1>4. a \notin hand
  BY <1>1, <1>3, NewAllocation
<1> HIDE DEF acc, rest
<1>5. CASE a.allocation_id \in RetainedIds /\ Continue(Rest, run.accepted, {a})
  <2>1. Books(rest, acc, only, none)
    BY <1>1, <1>3, <1>4, Arrives DEF acc, rest
  <2>2. Continue(rest, acc, only)
    BY <1>5 DEF acc, rest
  <2> HIDE DEF only
  <2> QED
    BY <2>1, <2>2, Continues
<1>6. CASE /\ \E i \in Collided(a) :
                ReleaseThen({run.accepted[i].allocation, a}, "next", Rest, RemoveAt(run.accepted, i))
           /\ UNCHANGED <<ledger, active, cleanup, identities>>
  <2>1. PICK i \in Collided(a) :
               ReleaseThen({acc[i].allocation, a}, "next", rest, RemoveAt(acc, i))
    BY <1>6 DEF acc, rest
  <2>2. i \in 1..Len(acc) /\ i \in DOMAIN acc
    BY <1>3 DEF Collided, acc
  <2> DEFINE few == RemoveAt(acc, i)
             b == acc[i].allocation
             out == {b, a}
             after == "next"
  <2>3. few \in Seq(Acceptance) /\ IsPart(few, acc)
    BY <1>3, <2>2, PartRemoved
  <2>4. /\ hand = AcceptedAllocations(few) \cup {b}
        /\ \A c \in AcceptedAllocations(few) : \E j \in DOMAIN acc \ {i} : acc[j].allocation = c
    BY <1>3, <2>2, AcceptedRemoved
  <2>5. b \notin AcceptedAllocations(few)
    BY <1>3, <2>2, <2>4 DEF Committable
  <2>6. ReleaseThen(out, after, rest, few) /\ out # {} /\ after \in Afters
    BY <2>1 DEF Afters
  <2> HIDE DEF few, b
  <2>7. /\ AcceptedAllocations(few) \cup none \cup out = hand \cup {a}
        /\ none \cap out = {} /\ AcceptedAllocations(few) \cap (none \cup out) = {}
    BY <1>4, <2>4, <2>5
  <2> HIDE DEF out, none, hand
  <2>8. Books(rest, few, none, out)
    BY <1>1, <2>3, <2>7, Arrives DEF acc, rest, hand
  <2>9. Retain(none)
    BY <1>6, RetainNothing DEF none
  <2>10. (after # "next" => rest = <<>>) /\ (after = "end" => few = <<>>)
    OBVIOUS
  <2> HIDE DEF after
  <2> QED
    BY <2>6, <2>8, <2>9, <2>10, Drops
<1>7. CASE /\ a.allocation_id \notin RetainedIds
           /\ Collided(a) = {}
           /\ IF Violates(a) THEN ReleaseThen({a}, "next", Rest, run.accepted)
              ELSE run' = [run EXCEPT !.at = "capturing", !.current = a]
           /\ UNCHANGED <<ledger, active, cleanup, identities>>
  <2>1. CASE Violates(a)
    <3> DEFINE after == "next"
    <3>1. Books(rest, acc, none, only)
      BY <1>1, <1>3, <1>4, Arrives DEF acc, rest
    <3>2. Retain(none)
      BY <1>7, RetainNothing
    <3>3. /\ ReleaseThen(only, after, rest, acc) /\ only # {} /\ after \in Afters
          /\ (after # "next" => rest = <<>>) /\ (after = "end" => acc = <<>>)
      BY <1>7, <2>1 DEF Afters, acc, rest
    <3> HIDE DEF only, none, after
    <3> QED
      BY <3>1, <3>2, <3>3, Drops
  <2>2. CASE ~Violates(a)
    BY <1>1, <1>7, <2>2, Accepts
  <2> QED
    BY <2>1, <2>2
<1> QED
  BY <1>5, <1>6, <1>7 DEF AllocatedAs

LEMMA AllocationFailsStep ==
  ASSUME IInv, AllocationFails
  PROVE  IInv'
<1> DEFINE none == {}
           rest == Rest
           acc == run.accepted
<1>1. /\ ~At("closing") /\ InHand = acc /\ Left = run.todo /\ run.drop = none
      /\ run.todo # <<>> /\ TypeOK /\ Shape
  BY DEF IInv, Shape, InHand, Left, At, AllocationFails
<1>2. handed' = handed /\ released' = released \cup none /\ advances' \in Nat
  BY <1>1 DEF AllocationFails, TypeOK
<1>3. Books(Left, InHand, none, none)
  BY <1>1, <1>2, Divides
<1>4. rest \in Seq(Candidates) /\ IsPart(rest, run.todo)
  BY <1>1, HandType, PartTail DEF Rest
<1>5. Continue(rest, acc, none)
  BY DEF AllocationFails
<1> HIDE DEF none, rest, acc
<1>6. Books(rest, acc, none, none)
  BY <1>1, <1>3, <1>4, BooksLess
<1> QED
  BY <1>5, <1>6, Continues DEF none

LEMMA AllocationCancelledStep ==
  ASSUME IInv, AllocationCancelled
  PROVE  IInv'
<1> DEFINE none == {}
<1>1. /\ ~At("closing") /\ InHand = run.accepted /\ run.drop = none /\ TypeOK
  BY DEF IInv, Shape, InHand, At, AllocationCancelled
<1>2. handed' = handed /\ released' = released \cup none /\ advances' \in Nat
  BY <1>1 DEF AllocationCancelled, TypeOK
<1>3. Books(Left, InHand, none, none)
  BY <1>1, <1>2, Divides
<1>4. Retain(none)
  BY RetainNothing DEF AllocationCancelled
<1>5. Abort(InHand)
  BY <1>1 DEF AllocationCancelled
<1> HIDE DEF none
<1> QED
  BY <1>3, <1>4, <1>5, Aborts DEF none

-----------------------------------------------------------------------------
(* The answers of the capture callback, and the releases of advance.       *)

LEMMA CapturedStep ==
  ASSUME IInv, Captured
  PROVE  IInv'
<1> DEFINE none == {}
<1>1. /\ ~At("closing") /\ run.drop = none /\ TypeOK
      /\ Left = Rest
      /\ InHand = Append(run.accepted, [candidate |-> Request, allocation |-> run.current])
  BY DEF IInv, Shape, InHand, Left, At, Captured
<1>2. handed' = handed /\ released' = released \cup none /\ advances' \in Nat
  BY <1>1 DEF Captured, TypeOK
<1>3. Books(Left, InHand, none, none)
  BY <1>1, <1>2, Divides
<1>4. Continue(Left, InHand, none)
  BY <1>1 DEF Captured
<1> HIDE DEF none
<1> QED
  BY <1>3, <1>4, Continues DEF none

\* The allocation that was not captured is to be released.
LEMMA Uncaptured ==
  ASSUME IInv, At("capturing"), handed' = handed, released' = released, advances' \in Nat
  PROVE  Books(Rest, run.accepted, {}, {run.current})
<1> DEFINE acc == run.accepted
           x == [candidate |-> Request, allocation |-> run.current]
           more == Append(acc, x)
           rest == Rest
           cur == run.current
           none == {}
<1>1. /\ TypeOK /\ Shape /\ Records /\ ~At("closing") /\ run.drop = none /\ run.todo # <<>>
      /\ InHand = more /\ Left = rest
  BY DEF IInv, Shape, InHand, Left, At
<1>2. /\ acc \in Seq(Acceptance) /\ run.todo \in Seq(Candidates) /\ cur \in Allocation
      /\ rest \in Seq(Candidates)
  BY <1>1, HandType, NoneAssumption DEF TypeOK, Run, Shape, At
<1>3. x \in Acceptance /\ x.allocation = cur
  <2>1. Request \in Candidates
    BY <1>1, <1>2 DEF Request
  <2> QED
    BY <1>2, <2>1 DEF Acceptance
<1> HIDE DEF x, rest
<1>4. more \in Seq(Acceptance) /\ AcceptedAllocations(more) = AcceptedAllocations(acc) \cup {cur}
  BY <1>2, <1>3, AcceptedAppend
<1>5. IsPart(acc, more)
  BY <1>2, <1>3, PartFront
<1>6. /\ Len(acc) \in Nat /\ Len(more) = Len(acc) + 1 /\ more[Len(acc) + 1] = x
      /\ DOMAIN more = 1..Len(more) /\ \A i \in 1..Len(acc) : more[i] = acc[i]
  BY <1>2, <1>3
<1> HIDE DEF more, acc, cur, none
<1>7. Books(Left, InHand, none, none)
  <2>1. none \cup none \cup none = run.drop /\ none \cap none = {}
    BY <1>1 DEF none
  <2>2. released' = released \cup none
    BY DEF none
  <2> QED
    BY <1>1, <2>1, <2>2, Divides
<1>8. Books(rest, more, none, none)
  BY <1>1, <1>7
<1>9. Committable(more) /\ Room(more, rest) /\ Separate(more, {})
  BY <1>8 DEF Books, Fine, none
<1>10. Committable(acc)
  BY <1>2, <1>4, <1>5, <1>9, CommittablePart
<1>11. Room(acc, rest)
  <2>1. ledger \in Seq(BudgetReservation(Candidates))
    BY <1>1 DEF TypeOK
  <2>2. IsPart(rest, rest)
    BY <1>2, PartSame
  <2> QED
    BY <1>2, <1>4, <1>5, <1>9, <2>1, <2>2, RoomLess DEF Room
<1>12. cur \notin AcceptedAllocations(acc)
  <2> SUFFICES ASSUME cur \in AcceptedAllocations(acc) PROVE FALSE
    OBVIOUS
  <2>1. PICK i \in 1..Len(acc) : acc[i].allocation = cur
    BY <1>2, AcceptedOf
  <2>2. /\ i \in DOMAIN more /\ Len(acc) + 1 \in DOMAIN more /\ i # Len(acc) + 1
        /\ more[i].allocation = cur /\ more[Len(acc) + 1].allocation = cur
    BY <1>3, <1>6, <2>1
  <2> QED
    BY <1>9, <2>2 DEF Committable
<1> DEFINE out == {cur}
<1>13. Separate(acc, none \cup out)
  BY <1>4, <1>9, <1>12 DEF Separate, none
<1>14. Fine(rest, acc, none \cup out)
  BY <1>10, <1>11, <1>13 DEF Fine
<1>15. Balanced(Actives \cup cleanup \cup AcceptedAllocations(acc) \cup none \cup out,
                handed', released')
  <2>1. Actives \cup cleanup \cup AcceptedAllocations(acc) \cup none \cup out =
          Actives \cup cleanup \cup AcceptedAllocations(more) \cup none \cup none
    BY <1>4 DEF none
  <2> QED
    BY <1>8, <2>1 DEF Books
<1>16. out \in SUBSET Allocation /\ none \in SUBSET Allocation /\ out \cap none = {}
  BY <1>2 DEF none
<1> HIDE DEF out
<1>17. Books(rest, acc, none, out)
  BY <1>1, <1>2, <1>14, <1>15, <1>16 DEF Books
<1> QED
  BY <1>17 DEF rest, acc, none, out, cur

LEMMA CaptureFailsStep ==
  ASSUME IInv, CaptureFails
  PROVE  IInv'
<1> DEFINE none == {}
           out == {run.current}
           after == "next"
           rest == Rest
           acc == run.accepted
<1>1. advances' \in Nat
  BY DEF CaptureFails, IInv, TypeOK
<1>2. Books(rest, acc, none, out)
  BY <1>1, Uncaptured DEF CaptureFails
<1>3. Retain(none)
  BY RetainNothing DEF CaptureFails
<1>4. /\ ReleaseThen(out, after, rest, acc) /\ out # {} /\ after \in Afters
      /\ (after # "next" => rest = <<>>) /\ (after = "end" => acc = <<>>)
  BY DEF CaptureFails, Afters
<1> HIDE DEF none, out, after, rest, acc
<1> QED
  BY <1>2, <1>3, <1>4, Drops

LEMMA CaptureCancelledStep ==
  ASSUME IInv, CaptureCancelled
  PROVE  IInv'
<1> DEFINE none == {}
           out == {run.current}
           after == "abort"
           rest == Rest
           acc == run.accepted
           nil == <<>>
<1>1. advances' \in Nat
  BY DEF CaptureCancelled, IInv, TypeOK
<1>2. Books(rest, acc, none, out)
  BY <1>1, Uncaptured DEF CaptureCancelled
<1>3. Retain(none)
  BY RetainNothing DEF CaptureCancelled
<1>4. /\ ReleaseThen(out, after, nil, acc) /\ out # {} /\ after \in Afters
      /\ (after # "next" => nil = <<>>) /\ (after = "end" => acc = <<>>)
  BY DEF CaptureCancelled, Afters
<1>5. nil \in Seq(Candidates) /\ IsPart(nil, rest)
  <2>1. rest \in Seq(Candidates)
    BY <1>2 DEF Books
  <2> QED
    BY <2>1, PartNone, AcceptedNone
<1> HIDE DEF none, out, after, rest, acc, nil
<1>6. Books(nil, acc, none, out)
  BY <1>2, <1>5, BooksLess
<1> QED
  BY <1>3, <1>4, <1>6, Drops

LEMMA DropStep ==
  ASSUME IInv, At("releasing"), NEW a \in run.drop, NEW retained, NEW gone,
         retained \cup gone = {a}, retained \cap gone = {}, DropNext(a, retained),
         handed' = handed, released' = released \cup gone, advances' = advances
  PROVE  IInv'
<1>1. /\ TypeOK /\ Shape /\ ~At("closing") /\ InHand = run.accepted /\ Left = run.todo
      /\ run \in Run /\ run.current = None /\ run.kept = {} /\ run.at = "releasing"
      /\ advances' \in Nat
  BY DEF IInv, Shape, InHand, Left, At, TypeOK
<1> DEFINE out == run.drop \ {a}
           none == {}
<1>2. /\ retained \cup out \cup gone = run.drop
      /\ retained \cap out = {} /\ out \cap gone = {}
  OBVIOUS
<1> HIDE DEF out
<1>3. Books(Left, InHand, retained, out)
  BY <1>1, <1>2, Divides
<1>4. CASE run.drop = {a}
  <2>1. out = none /\ Released(retained)
    BY <1>4 DEF DropNext, out
  <2>2. Books(Left, InHand, retained, none)
    BY <1>3, <2>1
  <2>3. CASE run.after = "next"
    <3>1. Continue(Left, InHand, retained)
      BY <1>1, <2>1, <2>3 DEF Released
    <3> QED
      BY <2>2, <3>1, Continues
  <2>4. CASE run.after = "abort"
    <3>1. Retain(retained) /\ Abort(InHand)
      BY <1>1, <2>1, <2>4 DEF Released, Retain
    <3> QED
      BY <2>2, <3>1, Aborts
  <2>5. CASE run.after = "end"
    <3>1. Retain(retained) /\ run' = Idle("raised")
      BY <2>1, <2>5 DEF Released, Retain
    <3>2. Left = <<>> /\ InHand = <<>>
      BY <1>1, <2>5 DEF Shape, At
    <3>3. Books(<<>>, <<>>, retained, {})
      BY <2>2, <3>2
    <3> QED
      BY <3>1, <3>3, Raises
  <2>6. run.after \in Afters
    BY <1>1 DEF Run
  <2> QED
    BY <2>3, <2>4, <2>5, <2>6 DEF Afters
<1>5. CASE run.drop # {a}
  <2>1. run' = [run EXCEPT !.drop = out] /\ Retain(retained)
    BY <1>5 DEF DropNext, Retain, out
  <2>2. out \in SUBSET Allocation /\ out # {}
    BY <1>1, <1>5 DEF Run, out
  <2>3. /\ run'.at = "releasing" /\ run'.todo = run.todo /\ run'.accepted = run.accepted
        /\ run'.current = None /\ run'.drop = out /\ run'.kept = {} /\ run'.after = run.after
        /\ run'.outcome = run.outcome
    BY <1>1, <2>1 DEF Run
  <2>4. (run \in Run)'
    BY <1>1, <2>1, <2>2 DEF Run
  <2>5. Shape'
    BY <1>1, <2>2, <2>3 DEF Shape, At
  <2>6. Left' = Left /\ InHand' = InHand
    BY <1>1, <2>3 DEF Left, InHand, At
  <2>7. run'.at # "closing" /\ run'.outcome # "overrun"
    BY <2>3 DEF IInv
  <2> QED
    BY <1>3, <2>1, <2>3, <2>4, <2>5, <2>6, <2>7, Waits
<1> QED
  BY <1>4, <1>5

LEMMA ReleaseCancelledStep ==
  ASSUME IInv, ReleaseCancelled
  PROVE  IInv'
<1> DEFINE none == {}
           retained == run.drop
<1>1. /\ TypeOK /\ Shape /\ ~At("closing") /\ InHand = run.accepted /\ run \in Run
      /\ Left = run.todo
  BY DEF IInv, Shape, InHand, Left, At, TypeOK, ReleaseCancelled
<1>2. handed' = handed /\ released' = released \cup none /\ advances' \in Nat
  BY <1>1 DEF ReleaseCancelled, TypeOK
<1>3. retained \cup none \cup none = run.drop /\ retained \cap none = {} /\ none \cap none = {}
  OBVIOUS
<1>4. Retain(retained)
  BY DEF ReleaseCancelled, Retain
<1> HIDE DEF none, retained
<1>5. Books(Left, InHand, retained, none)
  BY <1>1, <1>2, <1>3, Divides
<1>6. CASE run.after = "end"
  <2>1. Left = <<>> /\ InHand = <<>> /\ run' = Idle("raised")
    BY <1>1, <1>6 DEF Shape, At, ReleaseCancelled
  <2>2. Books(<<>>, <<>>, retained, {})
    BY <1>5, <2>1 DEF none
  <2> QED
    BY <1>4, <2>1, <2>2, Raises
<1>7. CASE run.after # "end"
  <2>1. Abort(InHand)
    BY <1>1, <1>7 DEF ReleaseCancelled
  <2> QED
    BY <1>4, <1>5, <2>1, Aborts DEF none
<1> QED
  BY <1>6, <1>7

-----------------------------------------------------------------------------
(* close.                                                                  *)

\* close has reached the end of its releases, or was cut.
LEMMA Replaces ==
  ASSUME TypeOK, Records, LedgerValid(ledger),
         NEW kept \in SUBSET (Actives \cup cleanup), NEW o \in {"returned", "raised"},
         (Actives \cup cleanup) \ kept \subseteq released', released \subseteq released',
         Balanced(kept, handed', released'), ReplaceRetained(kept, o),
         ledger' = ledger, advances' \in Nat
  PROVE  IInv'
<1> DEFINE none == <<>>
<1>1. /\ active' = [id \in AllocationIds |-> IF active[id] \in kept THEN active[id] ELSE None]
      /\ cleanup' = cleanup \cap kept /\ identities' = IdentitiesOf(kept) /\ run' = Idle(o)
  BY DEF ReplaceRetained
<1>2. /\ Actives \in SUBSET Allocation /\ cleanup \in SUBSET Allocation
      /\ active \in [AllocationIds -> Allocation \cup {None}]
      /\ ledger \in Seq(BudgetReservation(Candidates))
  BY ActivesType DEF TypeOK
<1>3. None \notin kept
  BY <1>2, NoneAssumption
<1>4. Actives' = Actives \cap kept
  <2>1. ASSUME NEW a \in Actives' PROVE a \in Actives \cap kept
    <3>1. PICK id \in AllocationIds : active'[id] = a /\ a # None
      BY DEF Actives
    <3> QED
      BY <1>1, <3>1 DEF Actives
  <2>2. ASSUME NEW a \in Actives \cap kept PROVE a \in Actives'
    <3>1. PICK id \in AllocationIds : active[id] = a /\ a # None
      BY DEF Actives
    <3>2. active'[id] = a
      BY <1>1, <3>1
    <3> QED
      BY <3>1, <3>2 DEF Actives
  <2> QED
    BY <2>1, <2>2
<1>5. Actives' \cup cleanup' = kept
  BY <1>1, <1>4
<1>6. active' \in [AllocationIds -> Allocation \cup {None}]
  BY <1>1, <1>2
<1>7. /\ run' \in Run
      /\ run'.at = "idle" /\ run'.todo = none /\ run'.accepted = none
      /\ run'.current = None /\ run'.drop = {} /\ run'.kept = {}
      /\ run'.after = "end" /\ run'.outcome = o
  BY <1>1, IdleFields
<1>8. /\ none \in Seq(Acceptance) /\ none \in Seq(Candidates) /\ DOMAIN none = {}
      /\ AcceptedAllocations(none) = {}
  BY AcceptedNone
<1>9. handed' \in SUBSET Allocation /\ released' \in SUBSET Allocation
  BY DEF Balanced
<1>10. TypeOK'
  <2>1. kept \in SUBSET Allocation
    BY <1>2
  <2>2. identities' \in SUBSET SiblingIdentities
    BY <1>1, <2>1, Identities
  <2> QED
    BY <1>1, <1>2, <1>6, <1>7, <1>9, <2>2 DEF TypeOK
<1>11. LedgerBacked'
  <2>1. /\ \A i \in DOMAIN ledger :
             \E a \in Actives \cup released : a.purpose = <<ledger[i].candidate_id, ledger[i].target_tier>>
        /\ \A a \in Actives :
             \E i \in DOMAIN ledger : a.purpose = <<ledger[i].candidate_id, ledger[i].target_tier>>
    BY DEF Records, LedgerBacked
  <2>2. \A a \in Actives \cup released : a \in Actives' \cup released'
    BY <1>4
  <2> QED
    BY <1>4, <2>1, <2>2 DEF LedgerBacked
<1>12. Records'
  <2>1. \A id \in AllocationIds : active'[id] # None => active'[id].allocation_id = id
    BY <1>1 DEF Records
  <2>2. \A a, b \in Actives' : a.sibling_identity = b.sibling_identity => a = b
    BY <1>4 DEF Records
  <2> QED
    BY <1>1, <1>5, <1>11, <2>1, <2>2 DEF Records
<1>13. Shape'
  BY <1>1, <1>7 DEF Shape, At
<1>14. Left' = none /\ InHand' = none
  BY <1>7 DEF Left, InHand, At
<1>15. Fine(Left, InHand, IF At("closing") THEN {} ELSE run.drop)'
  <2>1. LedgerValid(ChargedWith(ledger', CandidatesOf(none) \o none))
    BY <1>2, NothingCharged
  <2> HIDE DEF none
  <2>2. Committable(InHand)'
    BY <1>8, <1>14 DEF Committable
  <2>3. Room(InHand, Left)'
    BY <1>14, <2>1 DEF Room
  <2>4. Separate(InHand, run.drop)'
    BY <1>7, <1>8, <1>14 DEF Separate
  <2> QED
    BY <1>7, <2>2, <2>3, <2>4 DEF Fine, At
<1>16. ClosingOK'
  BY <1>7 DEF ClosingOK, At
<1>17. Balanced(Held, handed, released)'
  <2>1. AcceptedAllocations(run'.accepted) = {}
    BY <1>7, <1>8
  <2>2. Held' = kept
    BY <1>5, <1>7, <2>1 DEF Held, At
  <2> QED
    BY <2>2
<1> QED
  BY <1>7, <1>10, <1>12, <1>13, <1>15, <1>16, <1>17 DEF IInv

\* close waits for a release.
LEMMA Closes ==
  ASSUME TypeOK, Records, LedgerValid(ledger), NEW kept, NEW drop, drop # {},
         kept \cup drop \subseteq Actives \cup cleanup, kept \cap drop = {},
         (Actives \cup cleanup) \ (kept \cup drop) \subseteq released',
         released \subseteq released', Balanced(kept \cup drop, handed', released'),
         UNCHANGED <<ledger, active, cleanup, identities>>, advances' \in Nat,
         (run \in Run)', run'.at = "closing", run'.todo = <<>>, run'.accepted = <<>>,
         run'.current = None, run'.drop = drop, run'.kept = kept, run'.outcome # "overrun"
  PROVE  IInv'
<1> DEFINE none == <<>>
<1>1. Actives' = Actives
  BY DEF Actives
<1>2. handed' \in SUBSET Allocation /\ released' \in SUBSET Allocation
  BY DEF Balanced
<1>3. TypeOK'
  BY <1>2 DEF TypeOK
<1>4. Records'
  <2>1. LedgerBacked'
    <3>1. /\ \A i \in DOMAIN ledger :
               \E a \in Actives \cup released : a.purpose = <<ledger[i].candidate_id, ledger[i].target_tier>>
          /\ \A a \in Actives :
               \E i \in DOMAIN ledger : a.purpose = <<ledger[i].candidate_id, ledger[i].target_tier>>
      BY DEF Records, LedgerBacked
    <3>2. \A a \in Actives \cup released : a \in Actives' \cup released'
      BY <1>1
    <3> QED
      BY <1>1, <3>1, <3>2 DEF LedgerBacked
  <2> QED
    BY <1>1, <2>1 DEF Records
<1>5. Shape'
  BY DEF Shape, At
<1>6. /\ DOMAIN none = {} /\ AcceptedAllocations(none) = {}
      /\ ledger \in Seq(BudgetReservation(Candidates))
  BY AcceptedNone DEF TypeOK
<1>7. Left' = none /\ InHand' = none
  BY DEF Left, InHand, At
<1>8. Fine(Left, InHand, IF At("closing") THEN {} ELSE run.drop)'
  <2>1. LedgerValid(ChargedWith(ledger', CandidatesOf(none) \o none))
    BY <1>6, NothingCharged
  <2> HIDE DEF none
  <2>2. Committable(InHand)'
    BY <1>6, <1>7 DEF Committable
  <2>3. Room(InHand, Left)'
    BY <1>7, <2>1 DEF Room
  <2>4. Separate(InHand, {})'
    BY <1>6, <1>7 DEF Separate
  <2> QED
    BY <2>2, <2>3, <2>4 DEF Fine, At
<1>9. ClosingOK'
  BY <1>1 DEF ClosingOK
<1>10. Balanced(Held, handed, released)'
  <2>1. Held' = kept \cup drop
    BY DEF Held, At
  <2> QED
    BY <2>1
<1> QED
  BY <1>3, <1>4, <1>5, <1>8, <1>9, <1>10 DEF IInv

LEMMA CloseStep ==
  ASSUME IInv, Close
  PROVE  IInv'
<1> DEFINE rec == Actives \cup cleanup
           none == {}
           o == "returned"
<1>1. /\ TypeOK /\ Records /\ LedgerValid(ledger) /\ InHand = <<>> /\ run.drop = {}
      /\ run.at = "idle" /\ ledger' = ledger /\ handed' = handed /\ released' = released
      /\ advances' \in Nat
  BY HandAtRest DEF IInv, Shape, At, Idle, Close, TypeOK
<1>2. Balanced(rec, handed', released')
  <2>1. Held = rec
    BY <1>1, HandType, AcceptedNone DEF IInv
  <2>2. Balanced(Held, handed, released)
    BY DEF IInv
  <2> QED
    BY <1>1, <2>1, <2>2
<1>3. Actives \in SUBSET Allocation /\ cleanup \in SUBSET Allocation
  BY <1>1, ActivesType DEF TypeOK
<1>4. CASE rec = {}
  <2>1. ReplaceRetained(none, o) /\ o \in {"returned", "raised"}
    BY <1>4 DEF Close
  <2>2. none \in SUBSET rec /\ rec \ none \subseteq released'
    BY <1>4
  <2>3. Balanced(none, handed', released')
    BY <1>2, <1>4
  <2> HIDE DEF none, o
  <2> QED
    BY <1>1, <2>1, <2>2, <2>3, Replaces
<1>5. CASE rec # {}
  <2>1. /\ run' = [Idle("none") EXCEPT !.at = "closing", !.drop = rec]
        /\ UNCHANGED <<active, cleanup, identities>>
    BY <1>5 DEF Close
  <2>2. /\ run'.at = "closing" /\ run'.todo = <<>> /\ run'.accepted = <<>> /\ run'.current = None
        /\ run'.drop = rec /\ run'.kept = none /\ run'.outcome = "none"
    BY <2>1 DEF Idle
  <2>3. run' \in Run
    <3> DEFINE d == rec
    <3>1. d \in SUBSET Allocation /\ run' = [Idle("none") EXCEPT !.at = "closing", !.drop = d]
      BY <1>3, <2>1
    <3>2. <<>> \in Seq(Candidates) /\ <<>> \in Seq(Acceptance)
      BY AcceptedNone
    <3> HIDE DEF d
    <3> QED
      BY <3>1, <3>2 DEF Idle, Run, Points, Afters
  <2> DEFINE drop == rec
  <2>4. none \cup drop = rec /\ none \cap drop = {} /\ drop # {}
    BY <1>5
  <2>5. Balanced(none \cup drop, handed', released')
    BY <1>2, <2>4
  <2>6. none \cup drop \subseteq Actives \cup cleanup
        /\ (Actives \cup cleanup) \ (none \cup drop) \subseteq released'
    BY <2>4
  <2>7. run'.drop = drop /\ run'.outcome # "overrun"
    BY <2>2
  <2> HIDE DEF drop, none
  <2> QED
    BY <1>1, <2>1, <2>2, <2>3, <2>4, <2>5, <2>6, <2>7, Closes
<1> QED
  BY <1>4, <1>5

\* One release of close is over: kept grows by what it could not release.
LEMMA CloseNextStep ==
  ASSUME IInv, At("closing"), NEW a \in run.drop, NEW more, NEW gone,
         more \cup gone = {a}, more \cap gone = {},
         CloseNext(a, run.kept \cup more), handed' = handed, released' = released \cup gone,
         ledger' = ledger, advances' = advances
  PROVE  IInv'
<1> DEFINE rec == Actives \cup cleanup
           kept == run.kept \cup more
           drop == run.drop \ {a}
           o == "returned"
<1>1. /\ TypeOK /\ Records /\ LedgerValid(ledger) /\ run \in Run /\ advances' \in Nat
      /\ run.todo = <<>> /\ run.accepted = <<>> /\ run.current = None /\ run.at = "closing"
      /\ Held = run.kept \cup run.drop /\ Balanced(Held, handed, released)
      /\ run.outcome # "overrun"
  BY HandAtRest DEF IInv, Shape, At, Held, TypeOK
<1>2. /\ run.kept \cup run.drop \subseteq rec /\ run.kept \cap run.drop = {}
      /\ rec \ (run.kept \cup run.drop) \subseteq released
  BY DEF IInv, ClosingOK
<1>3. /\ kept \cup drop \subseteq rec /\ kept \cap drop = {}
      /\ rec \ (kept \cup drop) \subseteq released' /\ released \subseteq released'
      /\ Held = (kept \cup drop) \cup gone /\ (kept \cup drop) \cap gone = {}
  BY <1>1, <1>2
<1>4. CloseNext(a, kept)
  OBVIOUS
<1>5. kept \in SUBSET Allocation /\ drop \in SUBSET Allocation
  <2>1. rec \in SUBSET Allocation
    BY <1>1, ActivesType DEF TypeOK
  <2> QED
    BY <1>3, <2>1
<1> HIDE DEF kept
<1>6. Balanced(kept \cup drop, handed', released')
  <2> DEFINE held == kept \cup drop
  <2>1. Held = held \cup gone /\ held \cap gone = {}
    BY <1>3
  <2> HIDE DEF held
  <2>2. handed = held \cup (released \cup gone) /\ held \cap (released \cup gone) = {}
    BY <1>1, <2>1 DEF Balanced
  <2>3. Balanced(held, handed', released')
    BY <1>1, <2>2 DEF Balanced
  <2> QED
    BY <2>3 DEF held
<1>7. CASE run.drop = {a}
  <2>1. drop = {}
    BY <1>7
  <2>2. kept \in SUBSET (Actives \cup cleanup) /\ (Actives \cup cleanup) \ kept \subseteq released'
        /\ Balanced(kept, handed', released')
    BY <1>3, <1>6, <2>1
  <2>3. ReplaceRetained(kept, o) /\ o \in {"returned", "raised"}
    BY <1>4, <1>7 DEF CloseNext
  <2> HIDE DEF o
  <2> QED
    BY <1>1, <1>3, <2>2, <2>3, Replaces
<1>8. CASE run.drop # {a}
  <2>1. /\ run' = [run EXCEPT !.drop = drop, !.kept = kept]
        /\ UNCHANGED <<active, cleanup, identities>> /\ drop # {}
    BY <1>4, <1>8 DEF CloseNext
  <2>2. /\ run'.at = "closing" /\ run'.todo = <<>> /\ run'.accepted = <<>> /\ run'.current = None
        /\ run'.drop = drop /\ run'.kept = kept /\ run'.outcome # "overrun"
    BY <1>1, <2>1 DEF Run
  <2>3. (run \in Run)'
    BY <1>1, <1>5, <2>1 DEF Run
  <2> HIDE DEF drop
  <2> QED
    BY <1>1, <1>3, <1>6, <2>1, <2>2, <2>3, Closes
<1> QED
  BY <1>7, <1>8

LEMMA CloseCancelledStep ==
  ASSUME IInv, CloseCancelled
  PROVE  IInv'
<1> DEFINE rec == Actives \cup cleanup
           kept == run.kept \cup run.drop
           o == "raised"
<1>1. /\ TypeOK /\ Records /\ LedgerValid(ledger) /\ advances' \in Nat
      /\ Held = kept /\ Balanced(Held, handed, released)
      /\ handed' = handed /\ released' = released /\ ledger' = ledger
  BY HandAtRest DEF IInv, At, Held, TypeOK, CloseCancelled
<1>2. kept \in SUBSET (Actives \cup cleanup) /\ (Actives \cup cleanup) \ kept \subseteq released'
  BY <1>1 DEF IInv, ClosingOK, CloseCancelled
<1>3. Balanced(kept, handed', released') /\ released \subseteq released'
  BY <1>1
<1>4. ReplaceRetained(kept, o) /\ o \in {"returned", "raised"}
  BY DEF CloseCancelled
<1> HIDE DEF kept, o
<1> QED
  BY <1>1, <1>2, <1>3, <1>4, Replaces

-----------------------------------------------------------------------------
(* The invariant holds.                                                    *)

LEMMA InitIInv == Init => IInv
<1> SUFFICES ASSUME Init PROVE IInv
  OBVIOUS
<1> DEFINE none == <<>>
<1>1. /\ ledger = none /\ active = [id \in AllocationIds |-> None] /\ cleanup = {}
      /\ identities = {} /\ run = Idle("none") /\ advances = 0 /\ handed = {} /\ released = {}
  BY DEF Init
<1>2. /\ run \in Run /\ run.at = "idle" /\ run.todo = none /\ run.accepted = none
      /\ run.current = None /\ run.drop = {} /\ run.kept = {}
      /\ run.after = "end" /\ run.outcome = "none"
  BY <1>1, IdleFields
<1>3. /\ none \in Seq(BudgetReservation(Candidates)) /\ DOMAIN none = {} /\ Len(none) = 0
      /\ AcceptedAllocations(none) = {}
  BY AcceptedNone
<1>4. Actives = {}
  BY <1>1 DEF Actives
<1>5. TypeOK
  BY <1>1, <1>2, <1>3 DEF TypeOK
<1>6. Shape
  BY <1>1, <1>2 DEF Shape, At
<1>7. Records
  BY <1>1, <1>3, <1>4 DEF Records, LedgerBacked, IdentitiesOf
<1>8. InHand = none /\ Left = none
  BY <1>2 DEF InHand, Left, At
<1>9. LedgerValid(none)
  <2>1. \A r \in Resources : Spent(none, r) = 0
    <3>1. \A r : [i \in DOMAIN none |-> none[i].cost[r]] = <<>>
      BY <1>3
    <3> QED
      BY <3>1, TotalEmpty DEF Spent
  <2>2. \A t \in Tiers : Worlds(none, t) = 0
    <3>1. \A t : [i \in DOMAIN none |-> IF none[i].target_tier = t THEN 1 ELSE 0] = <<>>
      BY <1>3
    <3> QED
      BY <3>1, TotalEmpty DEF Worlds
  <2>3. /\ \A r \in Resources : Limits.resources[r] \in Nat
        /\ \A t \in Tiers : Limits.worlds[t] \in Nat
    BY LimitsAssumption
  <2> HIDE DEF none
  <2> QED
    BY <1>3, <2>1, <2>2, <2>3 DEF LedgerValid
<1>10. LedgerValid(ChargedWith(ledger, CandidatesOf(none) \o none))
  BY <1>1, <1>3, <1>9, NothingCharged
<1> HIDE DEF none
<1>11. Fine(Left, InHand, IF At("closing") THEN {} ELSE run.drop)
  <2>1. Committable(InHand)
    BY <1>3, <1>8 DEF Committable
  <2>2. Room(InHand, Left)
    BY <1>8, <1>10 DEF Room
  <2>3. Separate(InHand, run.drop)
    BY <1>2, <1>3, <1>8 DEF Separate
  <2> QED
    BY <1>2, <2>1, <2>2, <2>3 DEF Fine, At
<1>12. ClosingOK
  BY <1>2 DEF ClosingOK, At
<1>13. Balanced(Held, handed, released)
  <2>1. Held = {}
    BY <1>1, <1>2, <1>3, <1>4 DEF Held, At
  <2> QED
    BY <1>1, <2>1, FS_EmptySet DEF Balanced
<1> QED
  BY <1>2, <1>5, <1>6, <1>7, <1>11, <1>12, <1>13 DEF IInv

LEMMA NextIInv == IInv /\ [Next]_vars => IInv'
<1> SUFFICES ASSUME IInv, [Next]_vars PROVE IInv'
  OBVIOUS
<1>1. CASE Advance
  <2>1. PICK B \in Batches : AdvanceWith(B)
    BY <1>1 DEF Advance
  <2> QED
    BY <2>1, AdvanceStep, CandidatesChargeable
<1>2. CASE Close
  BY <1>2, CloseStep
<1>3. CASE Allocated
  <2>1. PICK a \in Allocation : AllocatedAs(a)
    BY <1>3 DEF Allocated
  <2> QED
    BY <2>1, AllocatedStep
<1>4. CASE AllocationFails
  BY <1>4, AllocationFailsStep
<1>5. CASE Captured
  BY <1>5, CapturedStep
<1>6. CASE CaptureFails
  BY <1>6, CaptureFailsStep
<1>7. CASE ReleaseConfirmed
  <2>1. PICK a \in run.drop : /\ At("releasing") /\ DropNext(a, {})
                             /\ released' = released \cup {a} /\ UNCHANGED <<advances, handed>>
    BY <1>7 DEF ReleaseConfirmed
  <2> DEFINE retained == {}
             gone == {a}
  <2>2. /\ retained \cup gone = {a} /\ retained \cap gone = {} /\ DropNext(a, retained)
        /\ released' = released \cup gone
    BY <2>1
  <2> HIDE DEF retained, gone
  <2> QED
    BY <2>1, <2>2, DropStep
<1>8. CASE ReleaseFails
  <2>1. PICK a \in run.drop : /\ At("releasing") /\ DropNext(a, {a})
                             /\ UNCHANGED <<advances, handed, released>>
    BY <1>8 DEF ReleaseFails
  <2> DEFINE retained == {a}
             gone == {}
  <2>2. /\ retained \cup gone = {a} /\ retained \cap gone = {} /\ DropNext(a, retained)
        /\ released' = released \cup gone
    BY <2>1
  <2> HIDE DEF retained, gone
  <2> QED
    BY <2>1, <2>2, DropStep
<1>9. CASE CloseConfirmed
  <2>1. PICK a \in run.drop : /\ At("closing") /\ CloseNext(a, run.kept)
                             /\ released' = released \cup {a}
                             /\ UNCHANGED <<ledger, advances, handed>>
    BY <1>9 DEF CloseConfirmed
  <2> DEFINE more == {}
             gone == {a}
  <2>2. /\ more \cup gone = {a} /\ more \cap gone = {} /\ run.kept \cup more = run.kept
        /\ released' = released \cup gone
    BY <2>1
  <2> HIDE DEF more, gone
  <2>3. CloseNext(a, run.kept \cup more)
    BY <2>1, <2>2
  <2> QED
    BY <2>1, <2>2, <2>3, CloseNextStep
<1>10. CASE CloseFails
  <2>1. PICK a \in run.drop : /\ At("closing") /\ CloseNext(a, run.kept \cup {a})
                             /\ UNCHANGED <<ledger, advances, handed, released>>
    BY <1>10 DEF CloseFails
  <2> DEFINE more == {a}
             gone == {}
  <2>2. /\ more \cup gone = {a} /\ more \cap gone = {} /\ CloseNext(a, run.kept \cup more)
        /\ released' = released \cup gone
    BY <2>1
  <2> HIDE DEF more, gone
  <2> QED
    BY <2>1, <2>2, CloseNextStep
<1>11. CASE AllocationCancelled
  BY <1>11, AllocationCancelledStep
<1>12. CASE CaptureCancelled
  BY <1>12, CaptureCancelledStep
<1>13. CASE ReleaseCancelled
  BY <1>13, ReleaseCancelledStep
<1>14. CASE CloseCancelled
  BY <1>14, CloseCancelledStep
<1>15. CASE UNCHANGED vars
  <2>1. /\ ledger' = ledger /\ active' = active /\ cleanup' = cleanup /\ identities' = identities
        /\ run' = run /\ advances' = advances /\ handed' = handed /\ released' = released
    BY <1>15 DEF vars
  <2>2. Actives' = Actives
    BY <2>1 DEF Actives
  <2>3. TypeOK' /\ Shape' /\ ClosingOK' /\ (run.outcome # "overrun")'
    BY <2>1, <2>2 DEF IInv, TypeOK, Shape, ClosingOK, At
  <2>4. Records'
    BY <2>1, <2>2 DEF IInv, Records, LedgerBacked
  <2>5. InHand' = InHand /\ Left' = Left
    BY <2>1 DEF InHand, Left, Request, Rest, At
  <2>6. Fine(Left, InHand, IF At("closing") THEN {} ELSE run.drop)'
    BY <2>1, <2>2, <2>5 DEF IInv, Fine, Committable, Unused, Room, Separate, At
  <2>7. Held' = Held
    BY <2>1, <2>2 DEF Held, At
  <2>8. Balanced(Held, handed, released)'
    BY <2>1, <2>7 DEF IInv, Balanced
  <2> QED
    BY <2>3, <2>4, <2>6, <2>8 DEF IInv
<1> QED
  BY <1>1, <1>2, <1>3, <1>4, <1>5, <1>6, <1>7, <1>8, <1>9, <1>10, <1>11, <1>12, <1>13, <1>14,
     <1>15 DEF Next, Answered, Interrupted

LEMMA Invariance == Spec => []IInv
<1>1. Init => IInv
  BY InitIInv
<1>2. IInv /\ [Next]_vars => IInv'
  BY NextIInv
<1> QED
  BY <1>1, <1>2, PTL DEF Spec

-----------------------------------------------------------------------------
(* What the workflow promises.                                             *)

\* An affordable ledger: its start is valid when it has room for more.
LEMMA AffordableLedger == IInv => CommitSound
<1> SUFFICES ASSUME IInv PROVE CommitSound
  OBVIOUS
<1> DEFINE nil == <<>>
<1>1. /\ InHand \in Seq(Acceptance) /\ Left \in Seq(Candidates)
      /\ ledger \in Seq(BudgetReservation(Candidates)) /\ Room(InHand, Left)
  BY HandType DEF IInv, Fine, TypeOK
<1>2. /\ nil \in Seq(Acceptance) /\ nil \in Seq(Candidates)
  BY AcceptedNone
<1>3. IsPart(nil, InHand) /\ IsPart(nil, Left)
  BY <1>1, PartNone
<1> HIDE DEF nil
<1>4. LedgerValid(ChargedWith(ledger, CandidatesOf(nil) \o nil))
  BY <1>1, <1>2, <1>3, RoomLess DEF Room
<1>5. LedgerValid(ledger)
  BY <1>1, <1>4, NothingCharged DEF nil
<1> QED
  BY <1>5 DEF CommitSound, Affordable, IInv, Records

\* reserve never raises in the commit loop, the committed ledger respects the
\* limits, and ledger and worlds back each other (WorldWorkflow.advance).
THEOREM CommitSafety == Spec => []CommitSound
<1>1. IInv => CommitSound
  BY AffordableLedger
<1> QED
  BY <1>1, Invariance, PTL

LEMMA DistinctSiblings == IInv => IdentitiesSound
<1> SUFFICES ASSUME IInv PROVE IdentitiesSound
  OBVIOUS
<1>1. InHand \in Seq(Acceptance) /\ Committable(InHand) /\ TypeOK /\ Shape /\ Records
      /\ run.accepted \in Seq(Acceptance)
  BY HandType DEF IInv, Fine, TypeOK, Run
<1> DEFINE hand == AcceptedAllocations(InHand)
<1>2. AcceptedAllocations(run.accepted) \subseteq hand
  <2>1. CASE At("capturing")
    <3> DEFINE x == [candidate |-> Request, allocation |-> run.current]
    <3>1. run.todo \in Seq(Candidates) /\ run.todo # <<>> /\ run.current \in Allocation
      BY <1>1, <2>1 DEF TypeOK, Run, Shape, At
    <3>2. x \in Acceptance
      BY <3>1 DEF Acceptance, Request
    <3>3. InHand = Append(run.accepted, x)
      BY <2>1 DEF InHand
    <3> HIDE DEF x
    <3> QED
      BY <1>1, <3>2, <3>3, AcceptedAppend
  <2>2. CASE ~At("capturing")
    BY <2>2 DEF InHand
  <2> QED
    BY <2>1, <2>2
<1>3. \A a \in hand : \E i \in DOMAIN InHand : InHand[i].allocation = a
  BY DEF AcceptedAllocations
<1>4. ASSUME NEW a \in hand, NEW b \in hand,
             a.allocation_id = b.allocation_id \/ a.sibling_identity = b.sibling_identity
      PROVE  a = b
  BY <1>1, <1>3, <1>4 DEF Committable
<1>5. ASSUME NEW a \in Actives, NEW b \in Actives,
             a.allocation_id = b.allocation_id \/ a.sibling_identity = b.sibling_identity
      PROVE  a = b
  <2>1. \A c \in Actives : active[c.allocation_id] = c
    BY <1>1 DEF Records, Actives
  <2> QED
    BY <1>1, <1>5, <2>1 DEF Records
<1>6. ASSUME NEW a \in hand, NEW b \in Actives
      PROVE  a.allocation_id # b.allocation_id /\ a.sibling_identity # b.sibling_identity
  <2>1. Unused(a)
    BY <1>1, <1>3 DEF Committable
  <2>2. active[b.allocation_id] = b /\ b # None
    BY <1>1 DEF Records, Actives
  <2> QED
    BY <2>1, <2>2 DEF Unused, IdentitiesOf
<1>7. SiblingsDistinct
  BY <1>2, <1>4, <1>5, <1>6 DEF SiblingsDistinct
<1> QED
  BY <1>1, <1>7 DEF IdentitiesSound, Records

\* Live siblings share neither identifier nor identity, and the identities in use
\* are those of the worlds on record (_validate_allocation, _replace_retained).
THEOREM IdentitySafety == Spec => []IdentitiesSound
<1>1. IInv => IdentitiesSound
  BY DistinctSiblings
<1> QED
  BY <1>1, Invariance, PTL

\* A step hands over a new allocation, releases one that is held, or neither.
LEMMA Custodial ==
  ASSUME IInv, [Next]_vars
  PROVE  \/ handed' = handed /\ released' = released
         \/ /\ released' = released
            /\ \E a \in Allocation : a \notin handed /\ handed' = handed \cup {a}
         \/ /\ handed' = handed
            /\ \E a \in Held : released' = released \cup {a}
<1>1. CASE Advance \/ Close \/ AllocationFails \/ Captured \/ CaptureFails \/ ReleaseFails
           \/ CloseFails \/ Interrupted \/ UNCHANGED vars
  BY <1>1 DEF Advance, AdvanceWith, Close, AllocationFails, Captured, CaptureFails, ReleaseFails,
              CloseFails, Interrupted, AllocationCancelled, CaptureCancelled, ReleaseCancelled,
              CloseCancelled, vars
<1>2. CASE Allocated
  <2>1. PICK a \in Allocation : /\ a.serial = Cardinality(handed) + 1
                               /\ handed' = handed \cup {a} /\ released' = released
    BY <1>2 DEF Allocated, AllocatedAs
  <2>2. a \notin handed
    BY <2>1, NewAllocation
  <2> QED
    BY <2>1, <2>2
<1>3. CASE ReleaseConfirmed \/ CloseConfirmed
  <2>1. PICK a \in run.drop : released' = released \cup {a} /\ handed' = handed
    BY <1>3 DEF ReleaseConfirmed, CloseConfirmed
  <2>2. a \in Held
    BY DEF Held
  <2> QED
    BY <2>1, <2>2
<1> QED
  BY <1>1, <1>2, <1>3 DEF Next, Answered

\* The workflow implements an owner of compensating cleanup: an allocation it was
\* handed stays in its hands until its one confirmed release (advance, close and
\* their except branches).
THEOREM WorkflowImplementsCustody == Spec => KeepsCustody
<1>1. Init => Owner!Init
  <2> SUFFICES ASSUME Init PROVE Owner!Init
    OBVIOUS
  <2>1. IInv
    BY InitIInv
  <2>2. handed = {} /\ released = {}
    BY DEF Init
  <2> QED
    BY <2>1, <2>2 DEF Owner!Init, IInv, Balanced
<1>2. IInv /\ IInv' /\ [Next]_vars => [Owner!Next]_(Owner!vars)
  <2> SUFFICES ASSUME IInv, IInv', [Next]_vars PROVE [Owner!Next]_(Owner!vars)
    OBVIOUS
  <2>1. Held = handed \ released /\ Held \cup released = handed /\ handed \in SUBSET Allocation
    BY DEF IInv, Balanced
  <2>2. Held' = handed' \ released' /\ Held' \cap released' = {}
    BY DEF IInv, Balanced
  <2>3. CASE handed' = handed /\ released' = released
    BY <2>1, <2>2, <2>3 DEF Owner!vars
  <2>4. CASE /\ released' = released
             /\ \E a \in Allocation : a \notin handed /\ handed' = handed \cup {a}
    <3>1. PICK a \in Allocation : a \notin handed /\ handed' = handed \cup {a}
      BY <2>4
    <3>2. a \notin Held \cup released /\ Held' = Held \cup {a}
      BY <2>1, <2>2, <2>4, <3>1
    <3> QED
      BY <2>4, <3>2 DEF Owner!Next, Owner!Receive
  <2>5. CASE /\ handed' = handed
             /\ \E a \in Held : released' = released \cup {a}
    <3>1. PICK a \in Held : released' = released \cup {a}
      BY <2>5
    <3>2. a \in Allocation /\ Held' = Held \ {a}
      BY <2>1, <2>2, <2>5, <3>1
    <3> QED
      BY <3>1, <3>2 DEF Owner!Next, Owner!Release
  <2> QED
    BY <2>3, <2>4, <2>5, Custodial
<1> QED
  BY <1>1, <1>2, Invariance, PTL DEF Spec, KeepsCustody, Owner!Spec

-----------------------------------------------------------------------------
(* What a stage of the M4 search reserves.                                 *)

\* Every ghost costs the same.
UnitCost == [llm_calls |-> 0, target_requests |-> 1, write_requests |-> 1, cpu_seconds |-> 1]

LEMMA GhostOf ==
  ASSUME NEW id, NEW tier
  PROVE  /\ Retier(Ghost(id), tier).candidate_id = id
         /\ Retier(Ghost(id), tier).tier = tier
         /\ Retier(Ghost(id), tier).state_fingerprint = id
         /\ Retier(Ghost(id), tier).priority = Scores[id]
         /\ Retier(Ghost(id), tier).promotion_cost = UnitCost
         /\ Retier(Ghost(id), tier).gates = Ghost(id).gates
         /\ \A other : Retier(Retier(Ghost(id), tier), other) = Retier(Ghost(id), other)
         /\ Ghost(id) = Retier(Ghost(id), "GHOST")
<1> DEFINE gates == Ghost(id).gates
           made(t) == [candidate_id |-> id, tier |-> t, state_fingerprint |-> id,
                       diversity_key |-> Families[id], priority |-> Scores[id],
                       promotion_cost |-> UnitCost, gates |-> gates]
<1>1. Ghost(id) = made("GHOST")
  BY DEF Ghost, UnitCost
<1> HIDE DEF gates
<1>2. \A t : \A u : [made(t) EXCEPT !.tier = u] = made(u)
  OBVIOUS
<1>3. \A t : Retier(Ghost(id), t) = made(t)
  BY <1>1, <1>2 DEF Retier
<1>4. \A t : \A u : Retier(Retier(Ghost(id), t), u) = made(u)
  BY <1>2, <1>3 DEF Retier
<1> QED
  BY <1>1, <1>3, <1>4 DEF gates

\* The gates do not stop a ghost at any tier.
LEMMA GhostPasses ==
  ASSUME NEW id, NEW target
  PROVE  Denials(Ghost(id).gates, target) = {}
<1> DEFINE g == Ghost(id).gates
<1>1. /\ g.in_scope /\ g.policy_outcome = "ALLOW" /\ g.reversible /\ g.capable /\ g.new_facts
      /\ g.faithful /\ g.deterministic /\ g.evidence /\ g.fragments_bound /\ g.action_plan
      /\ g.observations /\ g.oracle /\ g.snapshot_capable
  BY DEF Ghost
<1> HIDE DEF g
<1> DEFINE always ==
             [OUT_OF_SCOPE |-> ~g.in_scope,
              POLICY_DENIED |-> g.policy_outcome = "DENY",
              NON_REVERSIBLE_ACTION_NOT_APPROVED |->
                ~g.approved /\ (g.policy_outcome = "REQUIRE_APPROVAL" \/ ~g.reversible),
              UNSUPPORTED_ADAPTER_CAPABILITY |-> ~g.capable,
              NO_NEW_FACTS |-> ~g.new_facts,
              LOW_FIDELITY_WITHOUT_CALIBRATION_PATH |-> ~g.faithful,
              REPEATED_NONDETERMINISM |-> ~g.deterministic]
           materialized ==
             [MISSING_EVIDENCE |-> ~g.evidence \/ ~g.fragments_bound,
              MISSING_ACTION_PLAN |-> ~g.action_plan,
              MISSING_EXPECTED_OBSERVATION |-> ~g.observations,
              MISSING_MACHINE_ORACLE |-> ~g.oracle,
              MISSING_SNAPSHOT_CAPABILITY |-> ~g.snapshot_capable]
<1>2. \A r \in DOMAIN always : ~always[r]
  <2>1. /\ ~always.OUT_OF_SCOPE /\ ~always.POLICY_DENIED
        /\ ~always.NON_REVERSIBLE_ACTION_NOT_APPROVED
        /\ ~always.UNSUPPORTED_ADAPTER_CAPABILITY /\ ~always.NO_NEW_FACTS
        /\ ~always.LOW_FIDELITY_WITHOUT_CALIBRATION_PATH /\ ~always.REPEATED_NONDETERMINISM
    BY <1>1
  <2>2. DOMAIN always = {"OUT_OF_SCOPE", "POLICY_DENIED", "NON_REVERSIBLE_ACTION_NOT_APPROVED",
                         "UNSUPPORTED_ADAPTER_CAPABILITY", "NO_NEW_FACTS",
                         "LOW_FIDELITY_WITHOUT_CALIBRATION_PATH", "REPEATED_NONDETERMINISM"}
    OBVIOUS
  <2> HIDE DEF always
  <2> QED
    BY <2>1, <2>2
<1>3. \A r \in DOMAIN materialized : ~materialized[r]
  <2>1. /\ ~materialized.MISSING_EVIDENCE /\ ~materialized.MISSING_ACTION_PLAN
        /\ ~materialized.MISSING_EXPECTED_OBSERVATION
        /\ ~materialized.MISSING_MACHINE_ORACLE /\ ~materialized.MISSING_SNAPSHOT_CAPABILITY
    BY <1>1
  <2>2. DOMAIN materialized = {"MISSING_EVIDENCE", "MISSING_ACTION_PLAN",
                               "MISSING_EXPECTED_OBSERVATION", "MISSING_MACHINE_ORACLE",
                               "MISSING_SNAPSHOT_CAPABILITY"}
    OBVIOUS
  <2> HIDE DEF materialized
  <2> QED
    BY <2>1, <2>2
<1>4. Denials(g, target) = {r \in DOMAIN always : always[r]}
        \cup (IF target = "MATERIALIZED" THEN {r \in DOMAIN materialized : materialized[r]}
              ELSE {})
  BY DEF Denials
<1> HIDE DEF always, materialized
<1>5. Denials(g, target) = {}
  BY <1>2, <1>3, <1>4
<1> QED
  BY <1>5 DEF g

\* A stage submits a batch, every candidate passes the gates and stands for a state
\* of its own.
LEMMA StageBatch ==
  ASSUME NEW tier \in {"GHOST", "REPLAY", "SIMULATED"}, NEW B,
         B \subseteq {Retier(c, tier) : c \in Ghosts}, B # {}
  PROVE  /\ IsBatch(B) /\ B \in SUBSET Candidates
         /\ \A c \in B : \E id \in Ids : c = Retier(Ghost(id), tier)
         /\ \A c \in B : c.tier = tier /\ c.promotion_cost = UnitCost
         /\ Contenders(B) = B
<1> DEFINE All == {Retier(c, tier) : c \in Ghosts}
<1>1. All \in Batches
  BY GhostsAssumption
<1>2. IsBatch(All) /\ All \in SUBSET Candidates
  BY <1>1, CandidatesChargeable
<1>3. \A c \in B : \E id \in Ids : c = Retier(Ghost(id), tier)
  BY DEF Ghosts
<1>4. B \subseteq All
  OBVIOUS
<1> HIDE DEF All
<1>5. IsFiniteSet(B)
  BY <1>2, <1>4, FS_Subset DEF IsBatch
<1>6. IsBatch(B)
  BY <1>2, <1>4, <1>5 DEF IsBatch
<1>7. \A c \in B : c.tier = tier /\ c.promotion_cost = UnitCost
  BY <1>3, GhostOf
<1>8. Eligible(B) = B
  <2>1. ASSUME NEW c \in B PROVE Denials(c.gates, NextTier[c.tier]) = {}
    BY <1>3, GhostOf, GhostPasses
  <2> QED
    BY <2>1 DEF Eligible
<1>9. ASSUME NEW c \in B PROVE Winner(B, c) = c
  <2>1. \A d \in B : d.state_fingerprint = c.state_fingerprint => d = c
    BY <1>3, GhostOf
  <2>2. Twins(B, c) = {c}
    BY <2>1 DEF Twins
  <2> QED
    BY <2>2 DEF Winner
<1>10. Contenders(B) = B
  BY <1>8, <1>9 DEF Contenders, Winners
<1> QED
  BY <1>2, <1>3, <1>4, <1>6, <1>7, <1>10

\* The ghost every stage ranks first.
Top == CHOOSE id \in Ids : \A other \in Ids \ {id} : Before(Ghost(id), Ghost(other))

LEMMA TopOf ==
  /\ Top \in Ids
  /\ \A tier : \A other \in Ids \ {Top} : Before(Retier(Ghost(Top), tier), Retier(Ghost(other), tier))
<1> DEFINE tier == "GHOST"
           B == {Retier(c, tier) : c \in Ghosts}
<1>1. IsBatch(B)
  BY GhostsAssumption, BatchesAssumption
<1>2. B = {Ghost(id) : id \in Ids}
  BY GhostOf DEF Ghosts
<1> HIDE DEF B
<1>3. StrictOrder(B, Ranking(B)) /\ IsFiniteSet(B) /\ B # {}
  BY <1>1, RankingOrder DEF IsBatch
<1>4. PICK c \in B : \A d \in B \ {c} : <<c, d>> \in Ranking(B)
  BY <1>3, First
<1>5. PICK id \in Ids : c = Ghost(id)
  BY <1>2
<1>6. ASSUME NEW other \in Ids \ {id} PROVE Before(Ghost(id), Ghost(other))
  <2>1. Ghost(other) \in B /\ Ghost(other) # Ghost(id)
    BY <1>2, GhostOf
  <2> QED
    BY <1>4, <1>5, <2>1 DEF Ranking
<1>7. Top \in Ids /\ \A other \in Ids \ {Top} : Before(Ghost(Top), Ghost(other))
  BY <1>6 DEF Top
<1>8. ASSUME NEW other \in Ids \ {Top}, NEW level
      PROVE  Before(Retier(Ghost(Top), level), Retier(Ghost(other), level))
  <2>1. Before(Retier(Ghost(Top), tier), Retier(Ghost(other), tier))
    BY <1>7, GhostOf
  <2> QED
    BY <2>1, GhostOf DEF Before
<1> QED
  BY <1>7, <1>8

\* What a stage reserves is not more than its beam is wide.
LEMMA WithinWidth ==
  ASSUME TypeOK, LedgerValid(ledger), NEW B \in SUBSET Candidates, IsBatch(B),
         NEW tier \in DOMAIN NextTier, \A c \in B : c.tier = tier
  PROVE  Len(Reservations(B)) \in Nat /\ Len(Reservations(B)) <= Width[NextTier[tier]]
<1> DEFINE W == Width[NextTier[tier]]
           C == Candidates
           cs == Reservations(B)
           m == Search(B, ledger).ledger
           n == Len(ledger)
           T(b) == Taken(b, Contenders(B))
<1>1. W \in Nat /\ \A c \in B : Width[NextTier[c.tier]] = W
  BY WidthAssumption
<1>2. Chargeable(C) /\ B \in SUBSET C /\ ledger \in Seq(BudgetReservation(C))
  BY CandidatesChargeable DEF TypeOK
<1> HIDE DEF W, C
<1>3. PICK b : FinalBeam(C, B, W, ledger, b)
  BY <1>1, <1>2, SearchJudged
<1>4. /\ Contenders(B) \in SUBSET B /\ IsFiniteSet(B)
  BY ContendersOf DEF IsBatch
<1>5. T(b) \in SUBSET B /\ IsFiniteSet(T(b)) /\ Cardinality(T(b)) \in Nat
  <2>1. T(b) \in SUBSET B
    BY <1>4 DEF Taken
  <2> QED
    BY <1>4, <2>1, FS_Subset, FS_CardinalityType
<1>6. Cardinality(T(b)) <= W
  BY <1>3 DEF FinalBeam, Judged
<1>7. /\ m = b.ledger /\ LedgerValid(m)
      /\ \A k \in n+1..Len(m) : \E c \in T(b) : m[k] = Reservation(c, k)
  BY <1>3 DEF FinalBeam, Judged, Grown
<1>8. cs \in Seq(C) /\ ChargedWith(ledger, cs) = m
  BY ReservationsCharged DEF C
<1>9. Len(m) = n + Len(cs) /\ n \in Nat /\ Len(cs) \in Nat /\ DOMAIN m = 1..Len(m)
  <2> HIDE DEF m, cs
  <2>1. m \in Seq(BudgetReservation(C)) /\ Len(m) = n + Len(cs)
    BY <1>2, <1>8, ChargedWithType
  <2> QED
    BY <1>2, <1>8, <2>1
<1> HIDE DEF T, m, cs, n
<1> DEFINE K == n+1..Len(m)
           f == [k \in K |-> CHOOSE c \in T(b) : m[k] = Reservation(c, k)]
<1>10. \A k \in K : f[k] \in T(b) /\ m[k] = Reservation(f[k], k)
  BY <1>7
<1>11. ASSUME NEW i \in K, NEW j \in K, f[i] = f[j] PROVE i = j
  <2>1. m[i].candidate_id = m[j].candidate_id /\ m[i].target_tier = m[j].target_tier
    <3> DEFINE c == f[i]
    <3>1. m[i] = Reservation(c, i) /\ m[j] = Reservation(c, j)
      BY <1>10, <1>11
    <3> HIDE DEF c, f
    <3> QED
      BY <3>1 DEF Reservation
  <2>2. i \in DOMAIN m /\ j \in DOMAIN m
    BY <1>9
  <2> QED
    BY <1>7, <2>1, <2>2 DEF LedgerValid
<1>12. f \in Injection(K, T(b))
  <2>1. f \in [K -> T(b)]
    BY <1>10
  <2> HIDE DEF f
  <2> QED
    BY <1>11, <2>1 DEF Injection, IsInjective
<1>13. Cardinality(K) <= Cardinality(T(b))
  <2> HIDE DEF f, K
  <2> QED
    BY <1>5, <1>12, FS_Injection
<1>14. Cardinality(K) = Len(cs)
  <2>1. n + 1 \in Int /\ Len(m) \in Int
    BY <1>9
  <2>2. Cardinality(K) = IF n + 1 > Len(m) THEN 0 ELSE Len(m) - (n + 1) + 1
    BY <2>1, FS_Interval
  <2> HIDE DEF K
  <2> QED
    BY <1>9, <2>2
<1>15. Len(cs) \in Nat /\ Len(cs) <= W
  <2> HIDE DEF K, f
  <2> QED
    BY <1>1, <1>5, <1>6, <1>9, <1>13, <1>14
<1> QED
  BY <1>15 DEF cs, W

\* A stage that reserves anything reserves the world of its best ghost.
LEMMA BestReserved ==
  ASSUME TypeOK, LedgerValid(ledger), NEW tier \in {"GHOST", "REPLAY", "SIMULATED"}, NEW B,
         B \subseteq {Retier(c, tier) : c \in Ghosts}, Retier(Ghost(Top), tier) \in B,
         ~Reserved(ledger, Top, NextTier[tier]), ~(0 >= Width[NextTier[tier]]),
         Reservations(B) # <<>>
  PROVE  \E i \in 1..Len(Reservations(B)) : Reservations(B)[i] = Retier(Ghost(Top), tier)
<1> DEFINE best == Retier(Ghost(Top), tier)
           C == Candidates
           l == ledger
           cs == Reservations(B)
           m == Search(B, l).ledger
           o == Order(B)
           N == Len(Order(B))
<1>1. /\ IsBatch(B) /\ B \in SUBSET C /\ Contenders(B) = B
      /\ \A c \in B : \E id \in Ids : c = Retier(Ghost(id), tier)
      /\ \A c \in B : c.tier = tier /\ c.promotion_cost = UnitCost
  BY StageBatch
<1>2. Chargeable(C) /\ l \in Seq(BudgetReservation(C)) /\ Len(l) \in Nat
  BY CandidatesChargeable DEF TypeOK
<1>3. best \in B /\ best.candidate_id = Top /\ best.tier = tier
  BY GhostOf
<1>4. \A d \in B \ {best} : Before(best, d)
  <2> TAKE d \in B \ {best}
  <2>1. PICK id \in Ids : d = Retier(Ghost(id), tier)
    BY <1>1
  <2>2. id # Top
    BY <2>1
  <2> QED
    BY <2>1, <2>2, TopOf
<1> HIDE DEF best, C, l
<1>5. \A d \in B \ {best} : SelectedBefore(B, best, d)
  <2>1. Leads(B, best)
    BY <1>4 DEF Leads
  <2> TAKE d \in B \ {best}
  <2>2. CASE Leads(B, d)
    <3>1. Leads(B, best) = Leads(B, d)
      BY <2>1, <2>2
    <3> QED
      BY <1>4, <3>1 DEF SelectedBefore
  <2>3. CASE ~Leads(B, d)
    BY <2>1, <2>3 DEF SelectedBefore
  <2> QED
    BY <2>2, <2>3
<1>6. /\ N \in Nat /\ \A n \in 1..N : o[n] \in B
      /\ \E i \in 1..N : o[i] = best
      /\ \A i, j \in 1..N : i < j => o[i] # o[j] /\ ~SelectedBefore(B, o[j], o[i])
  BY <1>1, <1>3, OrderOf, Selection
<1> HIDE DEF o, N
<1>7. 1 \in 1..N /\ o[1] = best
  <2>1. PICK i \in 1..N : o[i] = best
    BY <1>6
  <2>2. 1 \in 1..N /\ (i = 1 \/ 1 < i)
    BY <1>6
  <2>3. CASE 1 < i
    BY <1>5, <1>6, <2>1, <2>2, <2>3
  <2> QED
    BY <2>1, <2>2, <2>3
<1>8. PICK f \in [0..N -> BeamState(C, B)] : SearchRun(B, l, f)
  BY <1>1, <1>2, SearchRuns DEF N
<1>9. /\ f[0].ledger = l /\ f[0].promoted = 0
      /\ \A n \in 1..N : f[n] = Consider(f[n - 1], o[n])
      /\ m = f[N].ledger
  BY <1>8 DEF SearchRun, N, o
<1> DEFINE target == NextTier[tier]
           Kept(b) == \E k \in Len(l)+1..Len(b.ledger) : b.ledger[k] = Reservation(best, k)
           Stuck(b) == b.ledger = l /\ ~Fits(l, target, UnitCost)
           X == {b \in BeamState(C, B) : Kept(b) \/ Stuck(b)}
<1>10. \A c \in B : NextTier[c.tier] = target /\ c.promotion_cost = UnitCost
  BY <1>1
<1>11. ~Reserved(l, best.candidate_id, target) /\ ~(0 >= Width[target])
  BY <1>3 DEF l
<1> HIDE DEF target, m
<1>12. f[1] \in X
  <2> DEFINE b == f[0]
             next == f[1]
  <2>1. b \in BeamState(C, B) /\ b.ledger = l /\ b.promoted = 0 /\ next = Consider(b, best)
    BY <1>6, <1>7, <1>8, <1>9
  <2> HIDE DEF b, next
  <2>2. next \in BeamState(C, B) /\ (TurnedAway(b, best, next) \/ TakenOn(b, best, next))
    BY <1>1, <1>2, <1>3, <2>1, ConsiderOne
  <2>3. CASE TurnedAway(b, best, next)
    <3>1. next.ledger = l /\ ~CanReserve(l, best)
      BY <1>3, <1>10, <1>11, <2>1, <2>3 DEF TurnedAway
    <3>2. ~Fits(l, target, UnitCost)
      BY <1>3, <1>10, <1>11, <3>1 DEF CanReserve
    <3> QED
      BY <2>2, <3>1, <3>2 DEF next
  <2>4. CASE TakenOn(b, best, next)
    <3> DEFINE r == Reservation(best, Len(l) + 1)
               k == Len(l) + 1
               x == next.ledger
    <3>1. x = Append(l, r)
      BY <2>1, <2>4 DEF TakenOn, Reserve
    <3> HIDE DEF x
    <3>2. Len(x) = k /\ x[k] = r /\ k \in Len(l)+1..Len(x)
      <4> HIDE DEF r
      <4> QED
        BY <1>2, <3>1
    <3>3. Kept(next)
      BY <3>2 DEF x
    <3> QED
      BY <2>2, <3>3 DEF next
  <2> QED
    BY <2>2, <2>3, <2>4
<1>13. ASSUME NEW n \in 1..N, NEW p \in 0..N, p = n - 1, f[p] \in X PROVE f[n] \in X
  <2> DEFINE b == f[p]
             next == f[n]
             c == o[n]
  <2>1. b \in BeamState(C, B) /\ next = Consider(b, c) /\ c \in B /\ (Kept(b) \/ Stuck(b))
    BY <1>6, <1>9, <1>13
  <2> HIDE DEF b, next, c
  <2>2. next \in BeamState(C, B) /\ (TurnedAway(b, c, next) \/ TakenOn(b, c, next))
    BY <1>1, <1>2, <2>1, ConsiderOne
  <2>3. CASE TurnedAway(b, c, next)
    BY <2>1, <2>2, <2>3 DEF TurnedAway, next
  <2>4. CASE TakenOn(b, c, next)
    <3> DEFINE y == b.ledger
               x == next.ledger
               r == Reservation(c, Len(y) + 1)
    <3>1. x = Append(y, r) /\ Fits(y, target, UnitCost)
      BY <1>10, <2>1, <2>4 DEF TakenOn, Reserve, CanReserve
    <3>2. y \in Seq(BudgetReservation(C))
      BY <2>1 DEF BeamState
    <3>3. PICK k \in Len(l)+1..Len(y) : y[k] = Reservation(best, k)
      BY <2>1, <3>1
    <3> HIDE DEF x, y, r
    <3>4. k \in Len(l)+1..Len(x) /\ x[k] = y[k]
      BY <1>2, <3>1, <3>2
    <3>5. Kept(next)
      BY <3>3, <3>4 DEF x
    <3> QED
      BY <2>2, <3>5 DEF next
  <2> QED
    BY <2>2, <2>3, <2>4
<1>14. f[N] \in X
  <2> DEFINE M == N - 1
             g == [n \in 0..M |-> f[n + 1]]
  <2>1. M \in Nat /\ g[0] = f[1] /\ g[M] = f[N]
    BY <1>6, <1>7
  <2>2. ASSUME NEW n \in 1..M, g[n - 1] \in X PROVE g[n] \in X
    <3>1. g[n - 1] = f[n] /\ g[n] = f[n + 1] /\ n \in 0..N /\ n + 1 \in 1..N /\ n = (n + 1) - 1
      BY <1>6, <2>1
    <3> HIDE DEF X, g
    <3> QED
      BY <1>13, <2>2, <3>1
  <2> HIDE DEF M, g, X
  <2>3. \A n \in 0..M : g[n] \in X
    BY <1>12, <2>1, <2>2, StaysIn
  <2> QED
    BY <2>1, <2>3
<1>15. /\ cs \in Seq(C) /\ ChargedWith(l, cs) = m /\ \A i \in 1..Len(cs) : cs[i] \in B
  BY <1>1, ReservationsCharged DEF C, l, m
<1>16. cs # <<>>
  OBVIOUS
<1> HIDE DEF cs
<1>17. /\ Len(m) = Len(l) + Len(cs) /\ Len(cs) \in Nat
       /\ \A i \in 1..Len(cs) : m[Len(l) + i] = Reservation(cs[i], Len(l) + i)
  BY <1>2, <1>15, ChargedWithType
<1>18. Len(cs) # 0
  BY <1>15, <1>16
<1>19. PICK k \in Len(l)+1..Len(m) : m[k] = Reservation(best, k)
  <2>1. m # l
    BY <1>2, <1>17, <1>18
  <2>2. Kept(f[N])
    BY <1>9, <1>14, <2>1
  <2> QED
    BY <1>9, <2>2
<1> DEFINE i == k - Len(l)
<1>20. i \in 1..Len(cs) /\ k = Len(l) + i
  BY <1>2, <1>17
<1> HIDE DEF i
<1>21. Reservation(cs[i], k) = Reservation(best, k)
  BY <1>17, <1>19, <1>20
<1>22. cs[i].candidate_id = best.candidate_id
  BY <1>21 DEF Reservation
<1>23. cs[i] = best
  BY <1>1, <1>3, <1>15, <1>20, <1>22 DEF IsBatch
<1> QED
  BY <1>20, <1>23 DEF best, cs

-----------------------------------------------------------------------------
(* The M4 search over the workflow: its invariant.  While an advance runs, *)
(* each world that is there, and the best candidate of the stage, is       *)
(* accounted for by what the call has in hand and still has to try; what   *)
(* it commits pays for them, and the best ghost goes on to the next stage. *)

Pairs == {c.candidate_id : c \in Candidates} \X Tiers

Level == Len(host.batches)

Best == Retier(Ghost(Top), Stages[Level])

SearchShape ==
  /\ DOMAIN port = {"envs", "receipts", "released", "peak"}
  /\ DOMAIN host = {"pc", "batches", "done", "mark", "pending", "raised"}
  /\ IsFiniteSet(port.envs) /\ port.receipts \in Seq(AllocationIds)
  /\ host.mark \in Nat
  /\ host.batches \in Seq(SUBSET Candidates) /\ Level \in 1..3
  /\ host.done \in Seq(Seq(Pairs)) /\ host.pending \in Seq(Pairs)

\* A stage searches some of the ghosts, the best of them always.
BatchOK == Best \in Batch /\ Batch \subseteq {Retier(c, Stages[Level]) : c \in Ghosts}

\* The first n reservations are for the worlds of the first stages.
PaidFor(n, stages) ==
  \A i \in 1..n : \E k \in 1..stages : ledger[i].target_tier = NextTier[Stages[k]]

Aims(acc) == {Purpose(acc[i].candidate) : i \in DOMAIN acc}

\* Each world the stage asks for is one of its reservations; as long as none of them
\* has failed, the port holds the worlds in hand and no other.
Course(mark, given, envs, todo, acc) ==
  /\ \A i \in 1..Len(todo) : todo[i] \in Batch
  /\ \A i \in 1..Len(acc) : acc[i].candidate \in Batch
  /\ Cardinality(given) + Len(todo) <= mark + Width[Target]
  /\ Cardinality(envs) + Len(todo) <= Width[Target]
  /\ Len(acc) + Len(todo) <= Width[Target]
  /\ Len(acc) + Len(todo) = Width[Target] =>
       /\ envs \subseteq Aims(acc)
       /\ \/ \E i \in 1..Len(acc) : acc[i].candidate = Best
          \/ \E i \in 1..Len(todo) : todo[i] = Best

\* A full stage has paid for the worlds that are there, the best one's among them.
Complete ==
  Len(ledger) = host.mark + Width[Target] =>
    /\ Cardinality(handed) <= Len(ledger)
    /\ port.envs \subseteq {Promotions(host.mark)[i] : i \in 1..Len(ledger) - host.mark}
    /\ \E i \in 1..Len(ledger) - host.mark : Promotions(host.mark)[i] = Purpose(Best)

Working ==
  /\ ~At("closing") /\ PaidFor(Len(ledger), Level) /\ host.mark <= Len(ledger)
  /\ ~At("idle") => Len(ledger) = host.mark /\ Course(host.mark, handed, port.envs, Left, InHand)
  /\ At("releasing") => Len(InHand) + Len(Left) < Width[Target]
  /\ At("idle") /\ run.outcome = "returned" => Complete

StageOK ==
  HostAt({"open", "stage"}) =>
    /\ At("idle") /\ BatchOK /\ port.envs = {}
    /\ Cardinality(handed) <= Len(ledger) /\ PaidFor(Len(ledger), Level - 1)

RunningOK == HostAt({"running"}) => BatchOK /\ Working

ReleaseOK ==
  HostAt({"release"}) =>
    /\ At("idle") /\ BatchOK /\ PaidFor(Len(ledger), Level)
    /\ port.envs \subseteq {host.pending[i] : i \in 1..Len(host.pending)}
    /\ host.done # <<>>
    /\ \E i \in DOMAIN Last(host.done) : Last(host.done)[i] = Purpose(Best)
    /\ Cardinality(handed) <= Len(ledger)
    /\ Level = 3 => Last(ledger).candidate_id = Top

\* A search that is closed without an exception has gone through its stages.
ClosedOK ==
  /\ HostAt({"close"}) => At("idle")
  /\ HostAt({"closing"}) => At("idle") \/ At("closing")
  /\ HostAt({"close", "closing"}) /\ ~host.raised =>
       Cardinality(handed) <= Len(ledger) /\ Last(ledger).candidate_id = Top
  /\ HostAt({"qualified"}) =>
       /\ port.envs = {} /\ Len(port.receipts) = Len(ledger)
       /\ Cardinality(handed) <= Len(ledger) /\ Last(ledger).candidate_id = Top

Pictures == Len(port.receipts) + (IF At("capturing") THEN 1 ELSE 0)

WorldsOK ==
  /\ worlds \ {Root} \subseteq port.envs
  /\ worlds \ {Root} \subseteq {a.allocation_id : a \in Held}
  /\ Root \in worlds => HostAt({"failed"}) /\ worlds = {Root}
  /\ Cardinality(port.envs) <= Width["REPLAY"]
  /\ Pictures <= Cardinality(handed)

SInv == SearchShape /\ StageOK /\ RunningOK /\ ReleaseOK /\ ClosedOK /\ WorldsOK

-----------------------------------------------------------------------------
(* A step of an advance in a stage.                                        *)

LEMMA StageFacts ==
  ASSUME SearchShape
  PROVE  /\ Stages[Level] \in {"GHOST", "REPLAY", "SIMULATED"}
         /\ Target = NextTier[Stages[Level]] /\ Target \in Tiers \ {"GHOST"}
         /\ Width["REPLAY"] \in Nat /\ Width["REPLAY"] >= 1
         /\ Width[Target] \in Nat /\ Width[Target] >= 1 /\ Width[Target] <= Width["REPLAY"]
         /\ Level \in Nat
         /\ Level < 3 => Level + 1 \in 1..3 /\ Stages[Level + 1] = Target
         /\ Level = 3 => Width[Target] = 1
         /\ \A k \in 1..(Level - 1) : NextTier[Stages[k]] # Target
         /\ Batch \in SUBSET Candidates
<1>1. host.batches \in Seq(SUBSET Candidates) /\ Level = Len(host.batches) /\ Level \in 1..3
  BY DEF SearchShape, Level
<1>2. Target = NextTier[Stages[Level]]
  BY DEF Target, Level
<1>3. /\ Width["REPLAY"] \in Nat /\ Width["SIMULATED"] \in 1..Width["REPLAY"]
      /\ Width["MATERIALIZED"] = 1
  <2>1. "GHOST" \in DOMAIN NextTier /\ NextTier["GHOST"] = "REPLAY"
    BY DEF NextTier
  <2> QED
    BY <2>1, WidthAssumption, WidthsAssumption
<1>4. /\ Stages[1] = "GHOST" /\ Stages[2] = "REPLAY" /\ Stages[3] = "SIMULATED"
      /\ NextTier["GHOST"] = "REPLAY" /\ NextTier["REPLAY"] = "SIMULATED"
      /\ NextTier["SIMULATED"] = "MATERIALIZED"
  BY DEF Stages, NextTier
<1>5. Batch \in SUBSET Candidates
  <2> DEFINE s == host.batches
             S == SUBSET Candidates
  <2>1. s \in Seq(S) /\ Len(s) \in 1..3
    BY <1>1
  <2> HIDE DEF s, S
  <2>2. Len(s) \in 1..Len(s) /\ \A i \in 1..Len(s) : s[i] \in S
    BY <2>1
  <2>3. s[Len(s)] \in S
    BY <2>2
  <2> QED
    BY <2>3 DEF s, S, Batch, Last
<1>6. /\ "REPLAY" \in Tiers /\ "SIMULATED" \in Tiers /\ "MATERIALIZED" \in Tiers
  BY DEF Tiers
<1> HIDE DEF Level
<1>7. Level = 1 \/ Level = 2 \/ Level = 3
  BY <1>1
<1>8. CASE Level = 1
  BY <1>2, <1>3, <1>4, <1>5, <1>6, <1>8
<1>9. CASE Level = 2
  <2>1. \A k \in 1..(Level - 1) : k = 1
    BY <1>9
  <2> QED
    BY <1>2, <1>3, <1>4, <1>5, <1>6, <1>9, <2>1
<1>10. CASE Level = 3
  <2>1. \A k \in 1..(Level - 1) : k = 1 \/ k = 2
    BY <1>10
  <2> QED
    BY <1>2, <1>3, <1>4, <1>5, <1>6, <1>10, <2>1
<1> QED
  BY <1>7, <1>8, <1>9, <1>10

LEMMA BatchFacts ==
  ASSUME SearchShape, BatchOK
  PROVE  /\ IsBatch(Batch) /\ Batch \in SUBSET Candidates /\ Best \in Batch
         /\ \A c \in Batch : /\ \E id \in Ids : c = Retier(Ghost(id), Stages[Level])
                             /\ c.tier = Stages[Level] /\ NextTier[c.tier] = Target
         /\ Best.candidate_id = Top /\ Purpose(Best) = <<Top, Target>>
<1> DEFINE tier == Stages[Level]
           B == Batch
<1>1. tier \in {"GHOST", "REPLAY", "SIMULATED"} /\ Target = NextTier[tier]
  BY StageFacts
<1>2. B \subseteq {Retier(c, tier) : c \in Ghosts} /\ Best \in B
  BY DEF BatchOK
<1>3. Best = Retier(Ghost(Top), tier)
  BY DEF Best
<1> HIDE DEF tier, B
<1>4. /\ IsBatch(B) /\ B \in SUBSET Candidates
      /\ \A c \in B : (\E id \in Ids : c = Retier(Ghost(id), tier)) /\ c.tier = tier
  BY <1>1, <1>2, StageBatch
<1>5. Best.candidate_id = Top
  BY <1>3, GhostOf
<1> QED
  BY <1>1, <1>2, <1>4, <1>5 DEF tier, B, Purpose

LEMMA SameStage ==
  ASSUME host'.batches = host.batches
  PROVE  Level' = Level /\ Batch' = Batch /\ Target' = Target /\ Best' = Best
<1>1. Level' = Level /\ Batch' = Batch
  BY DEF Level, Batch
<1> QED
  BY <1>1 DEF Level, Target, Best, Batch, Last

\* Passing over what the gates stop leaves a part, or all of it.
LEMMA PendingOf ==
  ASSUME NEW todo \in Seq(Candidates)
  PROVE  /\ Pending(todo) \in Seq(Candidates) /\ Len(Pending(todo)) <= Len(todo)
         /\ \A i \in 1..Len(Pending(todo)) : \E j \in 1..Len(todo) : Pending(todo)[i] = todo[j]
         /\ Len(Pending(todo)) = Len(todo) => Pending(todo) = todo
<1> DEFINE open == {i \in DOMAIN todo : MayAllocate(todo[i])}
           n == Min(open)
<1>1. Len(todo) \in Nat
  OBVIOUS
<1>2. CASE open = {}
  <2>1. Pending(todo) = <<>>
    BY <1>2 DEF Pending
  <2> HIDE DEF open
  <2> QED
    BY <1>1, <2>1
<1>3. CASE open # {}
  <2>1. open \in SUBSET Nat /\ open \subseteq 1..Len(todo)
    OBVIOUS
  <2>2. Pending(todo) = SubSeq(todo, n, Len(todo))
    BY <1>3 DEF Pending
  <2> HIDE DEF open
  <2>3. n \in 1..Len(todo)
    BY <1>3, <2>1, MinOf
  <2> HIDE DEF n
  <2> DEFINE t == SubSeq(todo, n, Len(todo))
  <2>4. /\ t \in Seq(Candidates) /\ Len(t) = Len(todo) - n + 1
        /\ \A i \in 1..Len(t) : t[i] = todo[i + n - 1]
    BY <1>1, <2>3
  <2> HIDE DEF t
  <2>5. \A i \in 1..Len(t) : i + n - 1 \in 1..Len(todo)
    BY <1>1, <2>3, <2>4
  <2>6. Len(t) = Len(todo) => t = todo
    <3>1. SUFFICES ASSUME Len(t) = Len(todo) PROVE t = todo
      OBVIOUS
    <3>2. n = 1
      BY <1>1, <2>3, <2>4, <3>1
    <3>3. \A i \in 1..Len(t) : t[i] = todo[i]
      BY <2>4, <3>2
    <3> QED
      BY <2>4, <3>1, <3>3, SameSequence
  <2>7. Pending(todo) = t
    BY <2>2 DEF t
  <2> QED
    BY <1>1, <2>3, <2>4, <2>5, <2>6, <2>7
<1> QED
  BY <1>2, <1>3

\* A step of an advance has todo to be tried and acc in hand.
Calls(todo, acc) ==
  /\ TypeOK /\ SearchShape /\ BatchOK /\ PaidFor(Len(ledger), Level)
  /\ host'.batches = host.batches /\ host'.mark = Len(ledger)
  /\ todo \in Seq(Candidates) /\ acc \in Seq(Acceptance)
  /\ IsFiniteSet(handed') /\ IsFiniteSet(port'.envs)
  /\ Course(Len(ledger), handed', port'.envs, todo, acc)

\* Some of the worlds a stage asks for have failed.
LEMMA CallsLess ==
  ASSUME NEW todo, NEW acc, Calls(todo, acc),
         NEW rest \in Seq(Candidates), NEW some \in Seq(Acceptance),
         Len(rest) <= Len(todo), Len(rest) + Len(some) < Width[Target],
         \A i \in 1..Len(rest) : rest[i] \in Batch,
         \A i \in 1..Len(some) : some[i].candidate \in Batch
  PROVE  Calls(rest, some)
<1> DEFINE W == Width[Target]
           g == Cardinality(handed')
           e == Cardinality(port'.envs)
           b == Len(ledger)
<1>1. /\ Len(rest) \in Nat /\ Len(some) \in Nat /\ Len(todo) \in Nat /\ W \in Nat /\ b \in Nat
      /\ todo \in Seq(Candidates)
  BY StageFacts DEF Calls, TypeOK
<1>2. /\ g + Len(todo) <= b + W /\ e + Len(todo) <= W /\ g \in Nat /\ e \in Nat
  BY FS_CardinalityType DEF Calls, Course
<1> HIDE DEF g, e, b, W
<1>3. /\ g + Len(rest) <= b + W /\ e + Len(rest) <= W /\ Len(some) + Len(rest) <= W
      /\ Len(some) + Len(rest) # W
  BY <1>1, <1>2 DEF W
<1>4. Course(b, handed', port'.envs, rest, some)
  BY <1>3 DEF Course, g, e, b, W
<1> QED
  BY <1>4 DEF Calls, b

\* The call waits for a callback with all of this in hand.
LEMMA StageWaits ==
  ASSUME NEW todo, NEW acc, Calls(todo, acc), ledger' = ledger,
         Left' = todo, InHand' = acc, run'.at \in {"allocating", "capturing", "releasing"},
         run'.at = "releasing" => Len(todo) + Len(acc) < Width[Target]
  PROVE  Working'
<1>1. Level' = Level /\ Batch' = Batch /\ Target' = Target /\ Best' = Best
  BY SameStage DEF Calls
<1>2. host'.mark = Len(ledger') /\ Len(ledger') \in Nat
  BY DEF Calls, TypeOK
<1>3. PaidFor(Len(ledger), Level)'
  BY <1>1 DEF Calls, PaidFor
<1>4. Course(host.mark, handed, port.envs, Left, InHand)'
  BY <1>1, <1>2 DEF Calls, Course, Aims
<1>5. (Len(InHand) + Len(Left))' = Len(todo) + Len(acc)
  BY DEF Calls
<1> QED
  BY <1>1, <1>2, <1>3, <1>4, <1>5 DEF Working, At

LEMMA StageAsks ==
  ASSUME NEW todo, NEW acc, Calls(todo, acc), ledger' = ledger,
         run' = [Idle("none") EXCEPT !.at = "allocating", !.todo = todo, !.accepted = acc]
  PROVE  Working' /\ run'.at # "capturing"
<1>1. run'.at = "allocating" /\ run'.todo = todo /\ run'.accepted = acc
  BY DEF Idle
<1>2. Left' = todo /\ InHand' = acc
  BY <1>1 DEF Left, InHand, At
<1> QED
  BY <1>1, <1>2, StageWaits

LEMMA StageReleases ==
  ASSUME NEW todo, NEW acc, NEW out, NEW after, Calls(todo, acc), ledger' = ledger,
         ReleaseThen(out, after, todo, acc), Len(todo) + Len(acc) < Width[Target]
  PROVE  Working' /\ run'.at # "capturing"
<1>1. run'.at = "releasing" /\ run'.todo = todo /\ run'.accepted = acc
  BY DEF Idle, ReleaseThen
<1>2. Left' = todo /\ InHand' = acc
  BY <1>1 DEF Left, InHand, At
<1> QED
  BY <1>1, <1>2, StageWaits

LEMMA StageRaises ==
  ASSUME NEW todo, NEW acc, Calls(todo, acc), ledger' = ledger, run' = Idle("raised")
  PROVE  Working' /\ run'.at # "capturing"
<1>1. run'.at = "idle" /\ run'.outcome = "raised"
  BY DEF Idle
<1>2. Level' = Level /\ Target' = Target
  BY SameStage DEF Calls
<1>3. host'.mark = Len(ledger') /\ Len(ledger') \in Nat
  BY DEF Calls, TypeOK
<1>4. PaidFor(Len(ledger), Level)'
  BY <1>2 DEF Calls, PaidFor
<1> QED
  BY <1>1, <1>2, <1>3, <1>4 DEF Working, At

LEMMA StageAborts ==
  ASSUME NEW todo, NEW acc, Calls(todo, acc), ledger' = ledger, NEW some, Abort(some)
  PROVE  Working' /\ run'.at # "capturing"
<1>1. CASE some = <<>>
  BY <1>1, StageRaises DEF Abort
<1>2. CASE some # <<>>
  <2> DEFINE nil == <<>>
             after == "end"
             out == AcceptedAllocations(some)
  <2>1. ReleaseThen(out, after, nil, nil)
    BY <1>2 DEF Abort
  <2>2. nil \in Seq(Candidates) /\ nil \in Seq(Acceptance) /\ Len(nil) = 0 /\ 1..0 = {}
    BY AcceptedNone
  <2>3. 0 < Width[Target] /\ Len(todo) \in Nat
    BY StageFacts DEF Calls
  <2> HIDE DEF nil, after, out
  <2>4. Calls(nil, nil)
    <3>1. Len(nil) <= Len(todo) /\ Len(nil) + Len(nil) < Width[Target]
      BY <2>2, <2>3
    <3> QED
      BY <2>2, <3>1, CallsLess
  <2>5. Len(nil) + Len(nil) < Width[Target]
    BY <2>2, <2>3
  <2> QED
    BY <2>1, <2>4, <2>5, StageReleases
<1> QED
  BY <1>1, <1>2

\* What an advance commits pays for the worlds it has in hand, one by one.
LEMMA StageCommits ==
  ASSUME NEW todo, NEW acc, NEW retained, Calls(todo, acc),
         Commit(acc, retained), run'.outcome # "overrun"
  PROVE  Working' /\ run'.at # "capturing"
<1> DEFINE W == Width[Target]
           l == ledger
           m == ledger'
           n == Len(acc)
           S == BudgetReservation(Candidates)
           x == [i \in 1..n |-> Reservation(acc[i].candidate, Len(l) + i)]
<1>1. /\ l \in Seq(S) /\ Len(l) \in Nat /\ n \in Nat /\ Len(todo) \in Nat /\ W \in Nat /\ W >= 1
      /\ todo \in Seq(Candidates)
  BY StageFacts DEF Calls, TypeOK
<1>2. \A i \in 1..n : acc[i].candidate \in Batch /\ acc[i].candidate \in Candidates
                      /\ acc[i] \in Acceptance
  BY AcceptedOf DEF Calls, Course
<1>3. /\ Level' = Level /\ Batch' = Batch /\ Target' = Target /\ Best' = Best
      /\ host'.mark = Len(l)
  BY SameStage DEF Calls
<1>4. m = l \o x /\ run' = Idle("returned")
  BY DEF Commit, Charged, Idle
<1>5. x \in Seq(S) /\ Len(x) = n /\ \A i \in 1..n : x[i] = Reservation(acc[i].candidate, Len(l) + i)
  <2>1. \A i \in 1..n : Reservation(acc[i].candidate, Len(l) + i) \in S
    <3> TAKE i \in 1..n
    <3> DEFINE k == Len(l) + i
               c == acc[i].candidate
    <3>1. k \in Nat /\ c \in Candidates
      BY <1>1, <1>2
    <3> HIDE DEF k, c
    <3>2. Reservation(c, k) \in S
      BY <3>1, CandidatesChargeable, ReservationType
    <3> QED
      BY <3>2 DEF k, c
  <2> HIDE DEF S
  <2> QED
    BY <1>1, <2>1
<1> HIDE DEF x, S
<1>6. /\ m \in Seq(S) /\ Len(m) = Len(l) + n
      /\ \A i \in 1..Len(l) : m[i] = l[i]
      /\ \A i \in 1..n : m[Len(l) + i] = Reservation(acc[i].candidate, Len(l) + i)
  <2> DEFINE y == l \o x
  <2>1. /\ y \in Seq(S) /\ Len(y) = Len(l) + Len(x)
        /\ \A i \in 1..Len(l) : y[i] = l[i]
        /\ \A i \in 1..Len(x) : y[Len(l) + i] = x[i]
    <3>1. l \in Seq(S) /\ x \in Seq(S)
      BY <1>1, <1>5
    <3> HIDE DEF l
    <3> QED
      BY <3>1, ConcatOf
  <2>2. m = y
    BY <1>4
  <2> HIDE DEF y
  <2> QED
    BY <1>5, <2>1, <2>2
<1>7. \A i \in 1..n : /\ m[Len(l) + i].target_tier = Target
                      /\ m[Len(l) + i].candidate_id = acc[i].candidate.candidate_id
                      /\ Purpose(acc[i].candidate) = <<acc[i].candidate.candidate_id, Target>>
  <2> TAKE i \in 1..n
  <2> DEFINE c == acc[i].candidate
             k == Len(l) + i
  <2>1. NextTier[c.tier] = Target
    BY <1>2, BatchFacts DEF Calls
  <2>2. m[k] = Reservation(c, k)
    BY <1>6
  <2> HIDE DEF c, k, m
  <2>3. m[k].target_tier = Target /\ m[k].candidate_id = c.candidate_id
    BY <2>1, <2>2 DEF Reservation
  <2> QED
    BY <2>1, <2>3 DEF Purpose, c, k
<1>8. PaidFor(Len(ledger), Level)'
  <2>1. ASSUME NEW i \in 1..Len(m)
        PROVE  \E k \in 1..Level : m[i].target_tier = NextTier[Stages[k]]
    <3>1. CASE i <= Len(l)
      <4>1. i \in 1..Len(l)
        BY <1>1, <3>1
      <4> QED
        BY <1>6, <4>1 DEF Calls, PaidFor
    <3>2. CASE ~(i <= Len(l))
      <4> DEFINE j == i - Len(l)
      <4>1. j \in 1..n /\ i = Len(l) + j
        BY <1>1, <1>6, <3>2
      <4> HIDE DEF j
      <4>2. Target = NextTier[Stages[Level]] /\ Level \in 1..Level
        BY StageFacts DEF Calls, SearchShape
      <4> QED
        BY <1>7, <4>1, <4>2
    <3> QED
      BY <3>1, <3>2
  <2> QED
    BY <1>3, <2>1 DEF PaidFor
<1> DEFINE p == Promotions(host.mark)'
<1>9. \A i \in 1..Len(m) - Len(l) : p[i] = <<m[Len(l) + i].candidate_id, m[Len(l) + i].target_tier>>
  BY <1>3 DEF Promotions
<1>10. /\ Len(m) - Len(l) = n /\ \A i \in 1..n : p[i] = Purpose(acc[i].candidate)
  <2>1. Len(m) - Len(l) = n
    BY <1>1, <1>6
  <2> QED
    BY <1>7, <1>9, <2>1
<1> HIDE DEF p
<1>11. Complete'
  <2>1. SUFFICES ASSUME Len(m) = Len(l) + W
        PROVE  /\ Cardinality(handed') <= Len(m)
               /\ port'.envs \subseteq {p[i] : i \in 1..n}
               /\ \E i \in 1..n : p[i] = Purpose(Best)
    BY <1>3, <1>10 DEF Complete, p
  <2>2. n = W
    BY <1>1, <1>6, <2>1
  <2>3. /\ Cardinality(handed') + Len(todo) <= Len(l) + W /\ n + Len(todo) <= W
        /\ n + Len(todo) = W =>
              /\ port'.envs \subseteq Aims(acc)
              /\ \/ \E i \in 1..n : acc[i].candidate = Best
                 \/ \E i \in 1..Len(todo) : todo[i] = Best
    BY DEF Calls, Course
  <2>4. Len(todo) = 0
    BY <1>1, <2>2, <2>3
  <2>5. n + Len(todo) = W /\ 1..Len(todo) = {}
    BY <1>1, <2>2, <2>4
  <2>6. Cardinality(handed') \in Nat
    BY FS_CardinalityType DEF Calls
  <2>7. Cardinality(handed') <= Len(m)
    <3> DEFINE g == Cardinality(handed')
    <3> HIDE DEF g
    <3>1. g + 0 <= Len(l) + W /\ g \in Nat
      BY <2>3, <2>4, <2>6 DEF g
    <3> QED
      BY <1>1, <2>1, <3>1 DEF g
  <2>8. port'.envs \subseteq {p[i] : i \in 1..n}
    <3>1. DOMAIN acc = 1..n
      BY DEF Calls
    <3> QED
      BY <1>10, <2>3, <2>5, <3>1 DEF Aims
  <2>9. \E i \in 1..n : p[i] = Purpose(Best)
    BY <1>10, <2>3, <2>5
  <2> QED
    BY <2>7, <2>8, <2>9
<1>12. run'.at = "idle" /\ run'.outcome = "returned"
  BY <1>4 DEF Idle
<1>13. host'.mark <= Len(m)
  BY <1>1, <1>3, <1>6
<1> QED
  BY <1>8, <1>11, <1>12, <1>13 DEF Working, At

LEMMA StageContinues ==
  ASSUME NEW todo, NEW acc, NEW retained, Calls(todo, acc),
         Continue(todo, acc, retained), run'.outcome # "overrun"
  PROVE  Working' /\ run'.at # "capturing"
<1>1. CASE Pending(todo) = <<>>
  BY <1>1, StageCommits DEF Continue
<1>2. CASE Pending(todo) # <<>>
  <2> DEFINE next == Pending(todo)
             W == Width[Target]
  <2>1. todo \in Seq(Candidates) /\ acc \in Seq(Acceptance) /\ W \in Nat
    BY StageFacts DEF Calls
  <2>2. /\ next \in Seq(Candidates) /\ Len(next) <= Len(todo)
        /\ \A i \in 1..Len(next) : \E j \in 1..Len(todo) : next[i] = todo[j]
        /\ Len(next) = Len(todo) => next = todo
    BY <2>1, PendingOf
  <2>3. /\ run' = [Idle("none") EXCEPT !.at = "allocating", !.todo = next, !.accepted = acc]
        /\ ledger' = ledger
    BY <1>2 DEF Continue
  <2>4. /\ \A i \in 1..Len(todo) : todo[i] \in Batch
        /\ \A i \in 1..Len(acc) : acc[i].candidate \in Batch
        /\ Len(acc) + Len(todo) <= W
    BY DEF Calls, Course
  <2> HIDE DEF next, W
  <2>5. Calls(next, acc)
    <3>1. CASE Len(next) = Len(todo)
      BY <2>2, <3>1
    <3>2. CASE Len(next) # Len(todo)
      <4>1. Len(next) + Len(acc) < W
        BY <2>1, <2>2, <2>4, <3>2
      <4> QED
        BY <2>1, <2>2, <2>4, <4>1, CallsLess DEF W
    <3> QED
      BY <3>1, <3>2
  <2> QED
    BY <2>3, <2>5, StageAsks
<1> QED
  BY <1>1, <1>2

-----------------------------------------------------------------------------
(* The worlds of the port while something of the search goes on.           *)

\* Nothing was forked, nothing was released.
LEMMA WorldsStay ==
  ASSUME IInv, IInv', SearchShape, WorldsOK, handed' = handed, released' = released,
         worlds' = worlds, port'.envs = port.envs, Pictures' \in Int, Pictures' <= Pictures,
         ~HostAt({"failed"})
  PROVE  WorldsOK'
<1>1. Held' = Held
  BY DEF IInv, Balanced
<1>2. Root \notin worlds
  BY DEF WorldsOK
<1>3. Pictures' <= Cardinality(handed')
  <2> DEFINE g == Cardinality(handed)
             p == Pictures
             q == Pictures'
  <2>1. Pictures \in Int
    BY DEF SearchShape, Pictures
  <2>2. p <= g /\ q <= p /\ g \in Nat /\ Cardinality(handed') = g /\ p \in Int /\ q \in Int
    BY <2>1, FS_CardinalityType DEF IInv, Balanced, WorldsOK
  <2> HIDE DEF g, p, q
  <2>3. q <= g
    BY <2>2
  <2> QED
    BY <2>2, <2>3 DEF q
<1> QED
  BY <1>1, <1>2, <1>3 DEF WorldsOK

\* A picture is one of a world in hand.
LEMMA NoPicture ==
  ASSUME SearchShape, port'.receipts = port.receipts, run'.at # "capturing"
  PROVE  Pictures' \in Int /\ Pictures' <= Pictures
<1>1. Len(port.receipts) \in Nat
  BY DEF SearchShape
<1>2. Pictures' = Len(port.receipts)
  <2>1. ~At("capturing")' /\ Len(port'.receipts) = Len(port.receipts)
    BY DEF At
  <2> QED
    BY <1>1, <2>1 DEF Pictures
<1> DEFINE q == Pictures'
           n == Len(port.receipts)
<1>3. q = n /\ n \in Nat
  BY <1>1, <1>2
<1>4. Pictures = n + (IF At("capturing") THEN 1 ELSE 0)
  BY DEF Pictures
<1> HIDE DEF q, n
<1>5. q \in Int /\ q <= Pictures
  BY <1>3, <1>4
<1> QED
  BY <1>5 DEF q

\* A world that is gone has been released, or was not there.
LEMMA Departs ==
  ASSUME IInv, IInv', SearchShape, WorldsOK, NEW id, Gone(id), handed' = handed,
         \A b \in released' : b \in released \/ b.allocation_id = id,
         run'.at # "capturing", ~HostAt({"failed"})
  PROVE  /\ WorldsOK' /\ IsFiniteSet(port'.envs) /\ DOMAIN port' = DOMAIN port
         /\ port'.envs \in SUBSET (port.envs \ {id}) /\ port'.receipts = port.receipts
<1>1. /\ DOMAIN port' = DOMAIN port /\ port'.envs = port.envs \ {id}
      /\ port'.receipts = port.receipts /\ worlds' \subseteq worlds
      /\ worlds' \cap {id} \cap port.envs = {}
  BY DEF Gone, SearchShape
<1>2. IsFiniteSet(port'.envs) /\ Cardinality(port'.envs) <= Cardinality(port.envs)
      /\ Cardinality(port'.envs) \in Nat /\ Cardinality(port.envs) \in Nat
  BY <1>1, FS_Subset, FS_CardinalityType DEF SearchShape
<1>3. /\ Held = handed \ released /\ Held' = handed' \ released'
  BY DEF IInv, Balanced
<1>4. Root \notin worlds'
  BY <1>1 DEF WorldsOK
<1>5. worlds' \ {Root} \subseteq port'.envs
  BY <1>1 DEF WorldsOK
<1>6. worlds' \ {Root} \subseteq {a.allocation_id : a \in Held'}
  <2> SUFFICES ASSUME NEW w \in worlds' \ {Root} PROVE \E a \in Held' : a.allocation_id = w
    OBVIOUS
  <2>1. PICK a \in Held : a.allocation_id = w
    BY <1>1 DEF WorldsOK
  <2>2. w # id
    BY <1>1, <1>5
  <2> QED
    BY <1>3, <2>1, <2>2
<1>7. Pictures' <= Cardinality(handed')
  <2>1. Pictures' <= Pictures /\ Pictures' \in Int
    BY <1>1, NoPicture
  <2>2. Pictures \in Int /\ Pictures <= Cardinality(handed) /\ Cardinality(handed) \in Nat
    BY FS_CardinalityType DEF Pictures, SearchShape, WorldsOK, IInv, Balanced
  <2> DEFINE g == Cardinality(handed)
             p == Pictures
             q == Pictures'
  <2>3. p <= g /\ q <= p /\ g \in Nat /\ Cardinality(handed') = g /\ p \in Int /\ q \in Int
    BY <2>1, <2>2
  <2> HIDE DEF g, p, q
  <2>4. q <= g
    BY <2>3
  <2> QED
    BY <2>3, <2>4 DEF q
<1>8. Width["REPLAY"] \in Nat
  BY StageFacts
<1>9. Cardinality(port'.envs) <= Width["REPLAY"]
  <2> DEFINE e == Cardinality(port.envs)
             d == Cardinality(port'.envs)
  <2>1. d <= e /\ e <= Width["REPLAY"] /\ d \in Nat /\ e \in Nat
    BY <1>2 DEF WorldsOK
  <2> HIDE DEF d, e
  <2>2. d <= Width["REPLAY"]
    BY <1>8, <2>1
  <2> QED
    BY <2>2 DEF d
<1>10. WorldsOK'
  BY <1>4, <1>5, <1>6, <1>7, <1>9 DEF WorldsOK
<1> QED
  BY <1>1, <1>2, <1>10

LEMMA ShapeStays ==
  ASSUME SearchShape, host' = host, DOMAIN port' = DOMAIN port, IsFiniteSet(port'.envs),
         port'.receipts \in Seq(AllocationIds)
  PROVE  SearchShape'
BY DEF SearchShape, Level

LEMMA StaysRunning ==
  ASSUME SInv, HostAt({"running"}), host' = host, SearchShape', Working', WorldsOK'
  PROVE  SInv'
<1>1. host'.batches = host.batches /\ host.pc = "running" /\ host'.pc = "running"
  BY DEF HostAt
<1>2. Level' = Level /\ Batch' = Batch /\ Target' = Target /\ Best' = Best
  BY <1>1, SameStage
<1>3. BatchOK'
  BY <1>2 DEF SInv, RunningOK, BatchOK
<1>4. RunningOK' /\ StageOK' /\ ReleaseOK' /\ ClosedOK'
  BY <1>1, <1>3 DEF RunningOK, StageOK, ReleaseOK, ClosedOK, HostAt
<1> QED
  BY <1>4 DEF SInv

\* The allocator was not asked: the call goes on with what it has.
LEMMA CallsOn ==
  ASSUME IInv, IInv', SearchShape, BatchOK, Working, ~At("idle"), host' = host,
         handed' = handed, port'.envs \in SUBSET port.envs
  PROVE  Calls(Left, InHand) /\ Working /\ host.mark = Len(ledger)
<1>1. TypeOK /\ Left \in Seq(Candidates) /\ InHand \in Seq(Acceptance)
  BY HandType DEF IInv
<1>2. /\ Len(ledger) = host.mark /\ Course(host.mark, handed, port.envs, Left, InHand)
      /\ PaidFor(Len(ledger), Level)
  BY DEF Working
<1>3. /\ IsFiniteSet(port'.envs) /\ Cardinality(port'.envs) <= Cardinality(port.envs)
      /\ Cardinality(port'.envs) \in Nat /\ Cardinality(port.envs) \in Nat
      /\ IsFiniteSet(handed')
  BY FS_Subset, FS_CardinalityType DEF SearchShape, IInv, Balanced
<1>4. Len(Left) \in Nat /\ Width[Target] \in Nat
  BY <1>1, StageFacts
<1>5. Cardinality(port'.envs) + Len(Left) <= Width[Target]
  <2> DEFINE d == Cardinality(port'.envs)
             e == Cardinality(port.envs)
             n == Len(Left)
  <2>1. e + n <= Width[Target] /\ d <= e /\ d \in Nat /\ e \in Nat /\ n \in Nat
    BY <1>2, <1>3, <1>4 DEF Course
  <2> HIDE DEF d, e, n
  <2>2. d + n <= Width[Target]
    BY <1>4, <2>1
  <2> QED
    BY <2>2 DEF d, n
<1>6. Course(Len(ledger), handed', port'.envs, Left, InHand)
  BY <1>2, <1>5 DEF Course
<1> QED
  BY <1>1, <1>2, <1>3, <1>6 DEF Calls

\* A release is over, or has failed, while an advance runs.
LEMMA StageDrops ==
  ASSUME Calls(Left, InHand), IInv, Working, At("releasing"), run'.outcome # "overrun",
         NEW b, NEW retained, DropNext(b, retained)
  PROVE  Working' /\ run'.at # "capturing"
<1>1. Left = run.todo /\ InHand = run.accepted /\ run \in Run
  BY DEF Left, InHand, At, IInv, TypeOK
<1>2. CASE run.drop = {b}
  <2>1. Released(retained)
    BY <1>2 DEF DropNext
  <2>2. CASE run.after = "next"
    <3>1. Continue(Left, InHand, retained)
      BY <1>1, <2>1, <2>2 DEF Released
    <3> QED
      BY <3>1, StageContinues
  <2>3. CASE run.after = "abort"
    <3>1. Abort(run.accepted) /\ ledger' = ledger
      BY <2>1, <2>3 DEF Released
    <3> QED
      BY <3>1, StageAborts
  <2>4. CASE run.after # "next" /\ run.after # "abort"
    <3>1. run' = Idle("raised") /\ ledger' = ledger
      BY <2>1, <2>4 DEF Released
    <3> QED
      BY <3>1, StageRaises
  <2> QED
    BY <2>2, <2>3, <2>4
<1>3. CASE run.drop # {b}
  <2>1. run' = [run EXCEPT !.drop = @ \ {b}] /\ ledger' = ledger
    BY <1>3 DEF DropNext
  <2>2. run'.at = "releasing" /\ run'.todo = run.todo /\ run'.accepted = run.accepted
    BY <1>1, <2>1 DEF Run, At
  <2>3. Left' = Left /\ InHand' = InHand
    BY <1>1, <2>2 DEF Left, InHand, At
  <2>4. Len(Left) + Len(InHand) < Width[Target]
    <3> DEFINE m == Len(Left)
               n == Len(InHand)
    <3>1. n + m < Width[Target] /\ m \in Nat /\ n \in Nat /\ Width[Target] \in Nat
      BY StageFacts DEF Working, Calls
    <3> HIDE DEF m, n
    <3>2. m + n < Width[Target]
      BY <3>1
    <3> QED
      BY <3>2 DEF m, n
  <2> QED
    BY <2>1, <2>2, <2>3, <2>4, StageWaits
<1> QED
  BY <1>2, <1>3

-----------------------------------------------------------------------------
(* The callbacks, while an advance runs.                                   *)

\* The port has forked a world: the call has one request fewer, and the world may
\* be taken in hand.
LEMMA CallsAllocated ==
  ASSUME IInv, IInv', SearchShape, BatchOK, Working, host' = host, PortAllocates
  PROVE  /\ Calls(Rest, Append(run.accepted,
                               [candidate |-> Request, allocation |-> Forked(Request)]))
         /\ Request \in Batch /\ Len(Rest) = Len(run.todo) - 1
         /\ Rest \in Seq(Candidates) /\ run.accepted \in Seq(Acceptance)
         /\ \A i \in 1..Len(Rest) : Rest[i] \in Batch
         /\ \A i \in 1..Len(run.accepted) : run.accepted[i].candidate \in Batch
         /\ Len(run.accepted) + Len(Rest) < Width[Target]
         /\ Cardinality(handed') = Cardinality(handed) + 1
         /\ Cardinality(port'.envs) <= Width[Target] /\ Cardinality(port'.envs) \in Nat
<1> DEFINE a == Forked(Request)
           x == [candidate |-> Request, allocation |-> a]
           acc == run.accepted
           more == Append(acc, x)
           todo == run.todo
           W == Width[Target]
           id == Purpose(Request)
<1>1. At("allocating") /\ a \in Allocation /\ AllocatedAs(a) /\ port'.envs = port.envs \cup {id}
  BY DEF PortAllocates, SearchShape
<1>2. /\ todo \in Seq(Candidates) /\ todo # <<>> /\ acc \in Seq(Acceptance) /\ TypeOK
      /\ Left = todo /\ InHand = acc
  BY <1>1 DEF IInv, TypeOK, Run, Shape, At, Left, InHand
<1>3. /\ Len(ledger) = host.mark /\ Course(host.mark, handed, port.envs, todo, acc)
      /\ PaidFor(Len(ledger), Level)
  BY <1>1, <1>2 DEF Working, At
<1>4. /\ handed' = handed \cup {a} /\ a.serial = Cardinality(handed) + 1
  BY <1>1 DEF AllocatedAs
<1> HIDE DEF a, id, todo, acc
<1>5. /\ IsFiniteSet(handed) /\ IsFiniteSet(handed') /\ Cardinality(handed) \in Nat
      /\ Cardinality(handed') = Cardinality(handed) + 1
  <2>1. a \notin handed
    BY <1>1, <1>4, NewAllocation
  <2>2. IsFiniteSet(handed)
    BY DEF IInv, Balanced
  <2> QED
    BY <1>4, <2>1, <2>2, FS_AddElement, FS_CardinalityType
<1>6. /\ IsFiniteSet(port'.envs) /\ Cardinality(port'.envs) \in Nat
      /\ Cardinality(port.envs) \in Nat /\ Cardinality(port'.envs) <= Cardinality(port.envs) + 1
  <2> DEFINE E == port.envs
  <2>1. IsFiniteSet(E)
    BY DEF SearchShape
  <2> HIDE DEF E
  <2>2. Cardinality(E) \in Nat
    BY <2>1, FS_CardinalityType
  <2>3. /\ IsFiniteSet(E \cup {id})
        /\ Cardinality(E \cup {id}) = Cardinality(E) \/ Cardinality(E \cup {id}) = Cardinality(E) + 1
    BY <2>1, FS_AddElement
  <2> QED
    BY <1>1, <2>2, <2>3 DEF E
<1>7. /\ Request \in Candidates /\ Rest \in Seq(Candidates) /\ Len(Rest) = Len(todo) - 1
      /\ Len(todo) \in Nat /\ Len(todo) >= 1 /\ todo[1] = Request
      /\ \A i \in 1..Len(Rest) : i + 1 \in 1..Len(todo) /\ Rest[i] = todo[i + 1]
  <2> DEFINE r == Tail(todo)
             h == Head(todo)
  <2>1. /\ h \in Candidates /\ r \in Seq(Candidates) /\ Len(r) = Len(todo) - 1
        /\ Len(todo) \in Nat /\ Len(todo) >= 1 /\ todo[1] = h
        /\ \A i \in 1..Len(r) : r[i] = todo[i + 1]
    BY <1>2
  <2>2. \A i \in 1..Len(r) : i + 1 \in 1..Len(todo)
    BY <2>1
  <2> QED
    BY <2>1, <2>2 DEF Request, Rest, todo
<1>8. x \in Acceptance /\ x.candidate = Request
  BY <1>1, <1>7 DEF Acceptance
<1> HIDE DEF x
<1>9. /\ more \in Seq(Acceptance) /\ Len(more) = Len(acc) + 1 /\ Len(acc) \in Nat
      /\ more[Len(acc) + 1] = x /\ \A i \in 1..Len(acc) : more[i] = acc[i]
      /\ DOMAIN more = 1..Len(more) /\ DOMAIN acc = 1..Len(acc)
  BY <1>2, <1>8
<1>10. W \in Nat
  BY StageFacts
<1> HIDE DEF more, W
<1>11. /\ \A i \in 1..Len(todo) : todo[i] \in Batch
       /\ \A i \in 1..Len(acc) : acc[i].candidate \in Batch
       /\ Cardinality(handed) + Len(todo) <= host.mark + W
       /\ Cardinality(port.envs) + Len(todo) <= W
       /\ Len(acc) + Len(todo) <= W
       /\ Len(acc) + Len(todo) = W =>
            /\ port.envs \subseteq Aims(acc)
            /\ \/ \E i \in 1..Len(acc) : acc[i].candidate = Best
               \/ \E i \in 1..Len(todo) : todo[i] = Best
  BY <1>3 DEF Course, W
<1>12. /\ Request \in Batch /\ \A i \in 1..Len(Rest) : Rest[i] \in Batch
  BY <1>7, <1>11
<1>13. \A i \in 1..Len(more) : i \in 1..Len(acc) \/ i = Len(acc) + 1
  BY <1>9
<1>14. \A i \in 1..Len(more) : more[i].candidate \in Batch
  BY <1>8, <1>9, <1>11, <1>12, <1>13
<1>15. Cardinality(handed') + Len(Rest) <= host.mark + W
  <2>1. host.mark \in Nat
    BY DEF SearchShape
  <2> QED
    BY <1>5, <1>7, <1>10, <1>11, <2>1
<1>16. /\ Cardinality(port'.envs) + Len(Rest) <= W /\ Cardinality(port'.envs) <= W
       /\ Len(more) + Len(Rest) <= W /\ Len(acc) + Len(Rest) < W
       /\ Len(more) + Len(Rest) = Len(acc) + Len(todo)
  BY <1>6, <1>7, <1>9, <1>10, <1>11
<1>17. ASSUME Len(more) + Len(Rest) = W
       PROVE  /\ port'.envs \subseteq Aims(more)
              /\ \/ \E i \in 1..Len(more) : more[i].candidate = Best
                 \/ \E i \in 1..Len(Rest) : Rest[i] = Best
  <2>1. Len(acc) + Len(todo) = W
    BY <1>16, <1>17
  <2>2. 1..Len(acc) \subseteq 1..Len(more) /\ Len(acc) + 1 \in 1..Len(more)
    BY <1>9
  <2>3. Aims(acc) \subseteq Aims(more)
    BY <1>9, <2>2 DEF Aims
  <2>4. id \in Aims(more)
    BY <1>8, <1>9, <2>2 DEF Aims, id
  <2>5. port'.envs \subseteq Aims(more)
    BY <1>1, <1>11, <2>1, <2>3, <2>4
  <2>6. CASE \E i \in 1..Len(acc) : acc[i].candidate = Best
    BY <1>9, <2>2, <2>5, <2>6
  <2>7. CASE \E i \in 1..Len(todo) : todo[i] = Best
    <3>1. PICK i \in 1..Len(todo) : todo[i] = Best
      BY <2>7
    <3>2. CASE i = 1
      BY <1>7, <1>8, <1>9, <2>2, <2>5, <3>1, <3>2
    <3>3. CASE i # 1
      <4> DEFINE j == i - 1
      <4>1. j \in 1..Len(Rest) /\ i = j + 1
        BY <1>7, <3>3
      <4> HIDE DEF j
      <4>2. Rest[j] = Best
        BY <1>7, <3>1, <4>1
      <4> QED
        BY <2>5, <4>1, <4>2
    <3> QED
      BY <3>2, <3>3
  <2> QED
    BY <1>11, <2>1, <2>6, <2>7
<1>18. Course(Len(ledger), handed', port'.envs, Rest, more)
  BY <1>3, <1>12, <1>14, <1>15, <1>16, <1>17 DEF Course, W
<1>19. Calls(Rest, more)
  BY <1>2, <1>3, <1>5, <1>6, <1>7, <1>9, <1>18 DEF Calls
<1> QED
  BY <1>2, <1>5, <1>6, <1>7, <1>11, <1>12, <1>16, <1>19 DEF more, x, a, acc, todo, W

\* A world that was forked is held.
LEMMA Arrived ==
  ASSUME IInv, IInv', SearchShape, BatchOK, WorldsOK, Working, HostAt({"running"}),
         host' = host, PortAllocates
  PROVE  WorldsOK' /\ SearchShape'
<1> DEFINE a == Forked(Request)
           id == Purpose(Request)
<1>1. /\ At("allocating") /\ AllocatedAs(a) /\ worlds' = worlds \cup {id}
      /\ DOMAIN port' = DOMAIN port /\ port'.envs = port.envs \cup {id}
      /\ port'.receipts = port.receipts
  BY DEF PortAllocates, SearchShape
<1>2. a.allocation_id = id
  BY DEF Forked
<1>3. handed' = handed \cup {a} /\ released' = released
  BY <1>1 DEF AllocatedAs
<1>4. /\ Request \in Batch /\ Cardinality(handed') = Cardinality(handed) + 1
      /\ Cardinality(port'.envs) <= Width[Target] /\ Cardinality(port'.envs) \in Nat
  BY CallsAllocated
<1>5. id # Root
  <2>1. id[2] = Target /\ Target # "GHOST" /\ Root[2] = "GHOST"
    BY <1>4, BatchFacts, StageFacts DEF Purpose, Root
  <2> QED
    BY <2>1
<1> HIDE DEF a, id
<1>6. Root \notin worlds /\ Root \notin worlds'
  BY <1>1, <1>5 DEF WorldsOK, HostAt
<1>7. /\ Held = handed \ released /\ Held' = handed' \ released' /\ released' \subseteq handed'
      /\ a \notin handed
  <2>1. a \in Allocation /\ a.serial = Cardinality(handed) + 1
    BY <1>1 DEF AllocatedAs, PortAllocates, a
  <2> QED
    BY <2>1, NewAllocation DEF IInv, Balanced
<1>8. Held' = Held \cup {a}
  BY <1>3, <1>7 DEF IInv, Balanced
<1>9. /\ worlds' \ {Root} \subseteq port'.envs
      /\ worlds' \ {Root} \subseteq {b.allocation_id : b \in Held'}
  BY <1>1, <1>2, <1>8 DEF WorldsOK
<1>10. Cardinality(port'.envs) <= Width["REPLAY"]
  <2> DEFINE e == Cardinality(port'.envs)
  <2>1. e <= Width[Target] /\ e \in Nat
    BY <1>4
  <2> HIDE DEF e
  <2>2. e <= Width["REPLAY"]
    BY <2>1, StageFacts
  <2> QED
    BY <2>2 DEF e
<1>11. Pictures' <= Cardinality(handed')
  <2> DEFINE n == Len(port.receipts)
             g == Cardinality(handed)
             q == Pictures'
  <2>1. n \in Nat /\ g \in Nat
    BY FS_CardinalityType DEF SearchShape, IInv, Balanced
  <2>2. Pictures = n
    BY <1>1, <2>1 DEF Pictures, At
  <2>3. n <= g
    BY <2>2 DEF WorldsOK
  <2>4. q = n + (IF At("capturing")' THEN 1 ELSE 0)
    BY <1>1 DEF Pictures
  <2> HIDE DEF n, g, q
  <2>5. q <= g + 1
    BY <2>1, <2>3, <2>4
  <2> QED
    BY <1>4, <2>5 DEF q, g
<1>12. WorldsOK'
  BY <1>6, <1>9, <1>10, <1>11 DEF WorldsOK
<1>13. IsFiniteSet(port'.envs)
  <2>1. IsFiniteSet(port.envs)
    BY DEF SearchShape
  <2> QED
    BY <1>1, <2>1, FS_AddElement
<1>14. SearchShape'
  BY <1>1, <1>13, ShapeStays DEF SearchShape
<1> QED
  BY <1>12, <1>14

LEMMA PortAllocatesStep ==
  ASSUME IInv, IInv', SInv, HostAt({"running"}), host' = host, PortAllocates
  PROVE  SInv'
<1> DEFINE a == Forked(Request)
           x == [candidate |-> Request, allocation |-> a]
           acc == run.accepted
           more == Append(acc, x)
           todo == Rest
<1>1. /\ SearchShape /\ WorldsOK /\ BatchOK /\ Working
  BY DEF SInv, RunningOK
<1>2. WorldsOK' /\ SearchShape'
  BY <1>1, Arrived
<1>3. /\ Calls(todo, more) /\ todo \in Seq(Candidates) /\ acc \in Seq(Acceptance)
      /\ \A i \in 1..Len(todo) : todo[i] \in Batch
      /\ \A i \in 1..Len(acc) : acc[i].candidate \in Batch
      /\ Len(acc) + Len(todo) < Width[Target]
  BY <1>1, CallsAllocated
<1>4. AllocatedAs(a) /\ At("allocating") /\ run'.outcome # "overrun" /\ run \in Run
  BY DEF PortAllocates, IInv, TypeOK
<1> HIDE DEF a, more, todo
<1>5. Len(acc) \in Nat /\ Len(todo) \in Nat /\ Width[Target] \in Nat
  BY <1>1, <1>3, StageFacts
<1> HIDE DEF acc
<1>6. Calls(todo, acc) /\ Len(todo) + Len(acc) < Width[Target]
  BY <1>3, <1>5, CallsLess
<1>7. Working'
  <2>1. CASE Continue(Rest, run.accepted, {a})
    BY <1>4, <1>6, <2>1, StageContinues DEF todo, acc
  <2>2. CASE /\ \E i \in Collided(a) :
                  ReleaseThen({run.accepted[i].allocation, a}, "next", Rest,
                              RemoveAt(run.accepted, i))
             /\ UNCHANGED <<ledger, active, cleanup, identities>>
    <3> DEFINE few(i) == RemoveAt(acc, i)
               after == "next"
    <3>1. PICK i \in Collided(a) : ReleaseThen({acc[i].allocation, a}, after, todo, few(i))
      BY <2>2 DEF todo, acc
    <3>2. i \in 1..Len(acc)
      BY <1>3 DEF Collided, acc
    <3>3. /\ few(i) \in Seq(Acceptance) /\ Len(few(i)) = Len(acc) - 1
          /\ \A k \in 1..Len(few(i)) : few(i)[k] = IF k < i THEN acc[k] ELSE acc[k + 1]
      BY <1>3, <3>2, PartRemoved
    <3> HIDE DEF few, after
    <3>4. \A k \in 1..Len(few(i)) : few(i)[k].candidate \in Batch
      <4> TAKE k \in 1..Len(few(i))
      <4>1. k \in 1..Len(acc) /\ k + 1 \in 1..Len(acc)
        BY <1>5, <3>2, <3>3
      <4> QED
        BY <1>3, <3>3, <4>1
    <3>5. Len(todo) + Len(few(i)) < Width[Target]
      BY <1>5, <1>6, <3>3
    <3>6. Calls(todo, few(i))
      BY <1>3, <1>5, <1>6, <3>3, <3>4, <3>5, CallsLess
    <3> QED
      BY <2>2, <3>1, <3>5, <3>6, StageReleases
  <2>3. CASE ReleaseThen({a}, "next", Rest, run.accepted) /\ ledger' = ledger
    <3> DEFINE after == "next"
               out == {a}
    <3>1. ReleaseThen(out, after, todo, acc) /\ ledger' = ledger
      BY <2>3 DEF todo, acc
    <3> HIDE DEF after, out
    <3> QED
      BY <1>6, <3>1, StageReleases
  <2>4. CASE run' = [run EXCEPT !.at = "capturing", !.current = a] /\ ledger' = ledger
    <3>1. /\ run'.at = "capturing" /\ run'.current = a /\ run'.todo = run.todo
          /\ run'.accepted = run.accepted
      BY <1>4, <2>4 DEF Run
    <3>2. Request' = Request /\ Rest' = Rest
      BY <3>1 DEF Request, Rest
    <3>3. Left' = todo /\ InHand' = more
      BY <3>1, <3>2 DEF Left, InHand, At, todo, more, acc
    <3> QED
      BY <1>3, <2>4, <3>1, <3>3, StageWaits
  <2> QED
    BY <1>4, <2>1, <2>2, <2>3, <2>4 DEF AllocatedAs
<1> QED
  BY <1>2, <1>7, StaysRunning

LEMMA PortCapturesStep ==
  ASSUME IInv, IInv', SInv, HostAt({"running"}), host' = host, PortCaptures
  PROVE  SInv'
<1>1. /\ SearchShape /\ WorldsOK /\ BatchOK /\ Working
  BY DEF SInv, RunningOK
<1>2. /\ At("capturing") /\ handed' = handed /\ released' = released /\ worlds' = worlds
      /\ run'.outcome # "overrun" /\ DOMAIN port' = DOMAIN port /\ port'.envs = port.envs
      /\ port'.receipts = Append(port.receipts, run.current.allocation_id)
      /\ Continue(Left, InHand, {})
  BY <1>1 DEF PortCaptures, Captured, SearchShape, IInv, Left, InHand
<1>3. run.current \in Allocation
  BY <1>2, NoneAssumption DEF IInv, TypeOK, Run, Shape, At
<1>4. Calls(Left, InHand)
  BY <1>1, <1>2, CallsOn DEF At
<1>5. Working' /\ run'.at # "capturing"
  BY <1>2, <1>4, StageContinues
<1> DEFINE s == port.receipts
           y == run.current.allocation_id
<1>6. s \in Seq(AllocationIds) /\ y \in AllocationIds
  BY <1>1, <1>3 DEF SearchShape, Allocation
<1> HIDE DEF s, y
<1>7. Append(s, y) \in Seq(AllocationIds) /\ Len(Append(s, y)) = Len(s) + 1 /\ Len(s) \in Nat
  BY <1>6
<1>8. port'.receipts = Append(s, y)
  BY <1>2 DEF s, y
<1>9. SearchShape'
  BY <1>1, <1>2, <1>7, <1>8, ShapeStays DEF SearchShape
<1>10. Pictures' = Len(s) + 1 /\ Pictures = Len(s) + 1
  <2>1. Len(port'.receipts) = Len(s) + 1 /\ ~At("capturing")'
    BY <1>5, <1>7, <1>8 DEF At
  <2>2. Pictures' = Len(s) + 1
    BY <1>7, <2>1 DEF Pictures
  <2>3. Pictures = Len(s) + 1
    BY <1>2 DEF Pictures, s
  <2> QED
    BY <2>2, <2>3
<1>11. Pictures' \in Int /\ Pictures' <= Pictures
  BY <1>7, <1>10
<1>12. ~HostAt({"failed"})
  BY DEF HostAt
<1>13. WorldsOK'
  BY <1>1, <1>2, <1>11, <1>12, WorldsStay
<1> QED
  BY <1>5, <1>9, <1>13, StaysRunning

\* The worlds stay where they are, the call goes on or ends.
LEMMA Unmoved ==
  ASSUME IInv, IInv', SInv, HostAt({"running"}), host' = host, handed' = handed,
         released' = released, UNCHANGED <<worlds, port>>, Working', run'.at # "capturing"
  PROVE  SInv'
<1>1. SearchShape /\ WorldsOK /\ worlds' = worlds /\ port' = port
  BY DEF SInv
<1>2. SearchShape'
  BY <1>1, ShapeStays DEF SearchShape
<1>3. Pictures' \in Int /\ Pictures' <= Pictures
  BY <1>1, NoPicture
<1>4. ~HostAt({"failed"})
  BY DEF HostAt
<1>5. WorldsOK'
  BY <1>1, <1>3, <1>4, WorldsStay
<1> QED
  BY <1>2, <1>5, StaysRunning

\* A part of what a call asks for, and fewer worlds in hand.
LEMMA Fewer ==
  ASSUME IInv, SearchShape, Calls(Left, InHand), At("allocating") \/ At("capturing")
  PROVE  /\ Calls(Rest, run.accepted) /\ Calls(<<>>, run.accepted)
         /\ Len(Rest) + Len(run.accepted) < Width[Target]
         /\ Len(<<>>) + Len(run.accepted) < Width[Target]
<1> DEFINE acc == run.accepted
           todo == run.todo
           rest == Rest
           W == Width[Target]
           nil == <<>>
<1>1. todo \in Seq(Candidates) /\ todo # <<>> /\ acc \in Seq(Acceptance)
  BY DEF IInv, TypeOK, Run, Shape, At
<1>2. /\ rest \in Seq(Candidates) /\ Len(rest) = Len(todo) - 1 /\ Len(todo) \in Nat
      /\ Len(todo) >= 1 /\ \A i \in 1..Len(rest) : rest[i] = todo[i + 1]
  BY <1>1 DEF Rest
<1>3. /\ \A i \in 1..Len(Left) : Left[i] \in Batch
      /\ \A i \in 1..Len(InHand) : InHand[i].candidate \in Batch
      /\ Len(InHand) + Len(Left) <= W
      /\ Left \in Seq(Candidates) /\ InHand \in Seq(Acceptance) /\ W \in Nat
  BY StageFacts DEF Calls, Course
<1>4. nil \in Seq(Candidates) /\ Len(nil) = 0 /\ Len(acc) \in Nat
  BY <1>1, AcceptedNone
<1> HIDE DEF acc, todo, rest, W, nil
<1>5. /\ Len(rest) <= Len(Left) /\ Len(rest) + Len(acc) < W
      /\ \A i \in 1..Len(rest) : rest[i] \in Batch
      /\ \A i \in 1..Len(acc) : acc[i].candidate \in Batch
  <2>1. CASE At("allocating")
    <3>1. Left = todo /\ InHand = acc
      BY <2>1 DEF Left, InHand, At, todo, acc
    <3>2. \A i \in 1..Len(rest) : i + 1 \in 1..Len(todo)
      BY <1>2
    <3> QED
      BY <1>2, <1>3, <1>4, <3>1, <3>2
  <2>2. CASE At("capturing")
    <3> DEFINE x == [candidate |-> Request, allocation |-> run.current]
    <3>1. Left = rest /\ InHand = Append(acc, x)
      BY <2>2 DEF Left, InHand, rest, acc
    <3> HIDE DEF x
    <3>2. /\ Len(InHand) = Len(acc) + 1 /\ \A i \in 1..Len(acc) : InHand[i] = acc[i]
          /\ 1..Len(acc) \subseteq 1..Len(InHand)
      BY <1>1, <1>4, <3>1 DEF acc
    <3>3. Len(rest) \in Nat
      BY <1>2
    <3> QED
      BY <1>3, <1>4, <3>1, <3>2, <3>3
  <2> QED
    BY <2>1, <2>2
<1>6. Len(rest) \in Nat /\ Len(Left) \in Nat
  BY <1>2, <1>3
<1>7. Calls(rest, acc)
  <2>1. acc \in Seq(Acceptance)
    BY <1>1 DEF acc
  <2> QED
    BY <1>2, <1>5, <2>1, CallsLess DEF W
<1>8. Len(nil) <= Len(Left) /\ Len(nil) + Len(acc) < W /\ 1..Len(nil) = {}
  BY <1>3, <1>4, <1>5, <1>6
<1>9. Calls(nil, acc)
  <2>1. acc \in Seq(Acceptance)
    BY <1>1 DEF acc
  <2> QED
    BY <1>4, <1>5, <1>8, <2>1, CallsLess DEF W
<1> QED
  BY <1>5, <1>7, <1>8, <1>9 DEF rest, acc, nil, W

LEMMA PortFailsStep ==
  ASSUME IInv, IInv', SInv, HostAt({"running"}), host' = host, PortFails
  PROVE  SInv'
<1>1. /\ SearchShape /\ WorldsOK /\ BatchOK /\ Working
      /\ worlds' = worlds /\ port' = port /\ run'.outcome # "overrun"
  BY DEF SInv, RunningOK, PortFails, IInv
<1>2. /\ At("allocating") \/ At("capturing")
      /\ handed' = handed /\ released' = released
  BY DEF PortFails, AllocationFails, AllocationCancelled, CaptureFails, CaptureCancelled
<1>3. Calls(Left, InHand)
  BY <1>1, <1>2, CallsOn DEF At
<1>4. /\ Calls(Rest, run.accepted) /\ Calls(<<>>, run.accepted)
      /\ Len(Rest) + Len(run.accepted) < Width[Target]
      /\ Len(<<>>) + Len(run.accepted) < Width[Target]
  BY <1>1, <1>2, <1>3, Fewer
<1>5. Working' /\ run'.at # "capturing"
  <2> DEFINE next == "next"
             abort == "abort"
             nil == <<>>
             out == {run.current}
  <2>1. CASE AllocationFails
    <3>1. Continue(Rest, run.accepted, {})
      BY <2>1 DEF AllocationFails
    <3> QED
      BY <1>1, <1>4, <3>1, StageContinues
  <2>2. CASE AllocationCancelled
    <3>1. Abort(run.accepted) /\ ledger' = ledger
      BY <2>2 DEF AllocationCancelled
    <3> QED
      BY <1>4, <3>1, StageAborts
  <2>3. CASE CaptureFails
    <3>1. ReleaseThen(out, next, Rest, run.accepted) /\ ledger' = ledger
      BY <2>3 DEF CaptureFails
    <3> HIDE DEF next, out
    <3> QED
      BY <1>4, <3>1, StageReleases
  <2>4. CASE CaptureCancelled
    <3>1. ReleaseThen(out, abort, nil, run.accepted) /\ ledger' = ledger
      BY <2>4 DEF CaptureCancelled
    <3>2. Calls(nil, run.accepted) /\ Len(nil) + Len(run.accepted) < Width[Target]
      BY <1>4
    <3> HIDE DEF abort, out, nil
    <3> QED
      BY <3>1, <3>2, StageReleases
  <2> QED
    BY <2>1, <2>2, <2>3, <2>4 DEF PortFails
<1> QED
  BY <1>1, <1>2, <1>5, Unmoved

\* The world of which the release is confirmed is the one that is gone.
LEMMA SameWorld ==
  ASSUME TypeOK, NEW a \in run.drop, NEW b \in run.drop,
         run.drop = {a} \/ run'.drop = run.drop \ {a},
         \/ \E retained : DropNext(b, retained)
         \/ \E kept : CloseNext(b, kept)
  PROVE  a = b
<1>1. CASE run.drop = {b}
  BY <1>1
<1>2. CASE run.drop # {b}
  <2>1. \/ run' = [run EXCEPT !.drop = @ \ {b}]
        \/ \E kept : run' = [run EXCEPT !.drop = @ \ {b}, !.kept = kept]
    BY <1>2 DEF DropNext, CloseNext
  <2>2. run'.drop = run.drop \ {b}
    BY <2>1 DEF TypeOK, Run
  <2> QED
    BY <1>2, <2>2
<1> QED
  BY <1>1, <1>2

\* Either one world is gone and its release confirmed, or nothing has moved.
LEMMA ReleasesOf ==
  ASSUME TypeOK, PortReleases
  PROVE  /\ handed' = handed
         /\ \/ \E id : Gone(id) /\ \A b \in released' : b \in released \/ b.allocation_id = id
            \/ released' = released /\ UNCHANGED <<worlds, port>>
         /\ \/ /\ At("releasing")
               /\ \/ \E b, retained : DropNext(b, retained)
                  \/ ReleaseCancelled
            \/ /\ At("closing") /\ ledger' = ledger
               /\ \/ \E b \in run.drop : \E kept : CloseNext(b, kept)
                  \/ CloseCancelled
<1>1. PICK a \in run.drop :
        \/ /\ ReleaseConfirmed \/ CloseConfirmed
           /\ run.drop = {a} \/ run'.drop = run.drop \ {a}
           /\ Gone(a.allocation_id)
        \/ /\ ReleaseFails \/ CloseFails \/ ReleaseCancelled \/ CloseCancelled
           /\ UNCHANGED <<worlds, port>>
  BY DEF PortReleases, Stays
<1>2. CASE /\ ReleaseConfirmed \/ CloseConfirmed
           /\ run.drop = {a} \/ run'.drop = run.drop \ {a}
           /\ Gone(a.allocation_id)
  <2>1. CASE ReleaseConfirmed
    <3>1. PICK b \in run.drop : /\ At("releasing") /\ DropNext(b, {})
                               /\ released' = released \cup {b} /\ handed' = handed
      BY <2>1 DEF ReleaseConfirmed
    <3>2. a = b
      BY <1>2, <3>1, SameWorld
    <3> QED
      BY <1>2, <3>1, <3>2
  <2>2. CASE CloseConfirmed
    <3>1. PICK b \in run.drop : /\ At("closing") /\ CloseNext(b, run.kept) /\ ledger' = ledger
                               /\ released' = released \cup {b} /\ handed' = handed
      BY <2>2 DEF CloseConfirmed
    <3>2. a = b
      BY <1>2, <3>1, SameWorld
    <3> QED
      BY <1>2, <3>1, <3>2
  <2> QED
    BY <1>2, <2>1, <2>2
<1>3. CASE /\ ReleaseFails \/ CloseFails \/ ReleaseCancelled \/ CloseCancelled
           /\ UNCHANGED <<worlds, port>>
  BY <1>3 DEF ReleaseFails, CloseFails, ReleaseCancelled, CloseCancelled
<1> QED
  BY <1>1, <1>2, <1>3

LEMMA PortReleasesStep ==
  ASSUME IInv, IInv', SInv, HostAt({"running"}), host' = host, PortReleases
  PROVE  SInv'
<1>1. /\ SearchShape /\ WorldsOK /\ BatchOK /\ Working /\ TypeOK /\ run'.outcome # "overrun"
  BY DEF SInv, RunningOK, IInv
<1>2. handed' = handed /\ At("releasing") /\ ((\E b, retained : DropNext(b, retained)) \/ ReleaseCancelled)
  BY <1>1, ReleasesOf DEF Working
<1>3. port'.envs \in SUBSET port.envs
  <2>1. (\E id : Gone(id)) \/ port' = port
    BY <1>1, ReleasesOf
  <2> QED
    BY <1>1, <2>1 DEF Gone, SearchShape
<1>4. Calls(Left, InHand)
  BY <1>1, <1>2, <1>3, CallsOn DEF At
<1>5. Working' /\ run'.at # "capturing"
  <2>1. CASE \E b, retained : DropNext(b, retained)
    BY <1>1, <1>2, <1>4, <2>1, StageDrops
  <2>2. CASE ReleaseCancelled
    <3>1. ledger' = ledger /\ (run' = Idle("raised") \/ Abort(run.accepted))
      BY <2>2 DEF ReleaseCancelled
    <3> QED
      BY <1>4, <3>1, StageRaises, StageAborts
  <2> QED
    BY <1>2, <2>1, <2>2
<1>6. ~HostAt({"failed"})
  BY DEF HostAt
<1>7. CASE \E id : Gone(id) /\ \A b \in released' : b \in released \/ b.allocation_id = id
  <2>1. PICK id : Gone(id) /\ \A b \in released' : b \in released \/ b.allocation_id = id
    BY <1>7
  <2>2. /\ WorldsOK' /\ IsFiniteSet(port'.envs) /\ DOMAIN port' = DOMAIN port
        /\ port'.receipts = port.receipts
    BY <1>1, <1>2, <1>5, <1>6, <2>1, Departs
  <2>3. SearchShape'
    BY <1>1, <2>2, ShapeStays DEF SearchShape
  <2> QED
    BY <1>5, <2>2, <2>3, StaysRunning
<1>8. CASE released' = released /\ UNCHANGED <<worlds, port>>
  BY <1>2, <1>5, <1>8, Unmoved
<1> QED
  BY <1>1, <1>7, <1>8, ReleasesOf

-----------------------------------------------------------------------------
(* The callbacks, while the workflow is closed.                            *)

LEMMA StaysClosing ==
  ASSUME SInv, HostAt({"closing"}), host' = host, run'.at \in {"idle", "closing"},
         ledger' = ledger, handed' = handed, SearchShape', WorldsOK'
  PROVE  SInv'
<1>1. host.pc = "closing" /\ host'.pc = "closing" /\ Cardinality(handed') = Cardinality(handed)
  BY DEF HostAt
<1>2. ~host.raised => Cardinality(handed) <= Len(ledger) /\ Last(ledger).candidate_id = Top
  BY <1>1 DEF SInv, ClosedOK, HostAt
<1>3. ClosedOK'
  BY <1>1, <1>2 DEF ClosedOK, HostAt, At
<1>4. RunningOK' /\ StageOK' /\ ReleaseOK'
  BY <1>1 DEF RunningOK, StageOK, ReleaseOK, HostAt
<1> QED
  BY <1>3, <1>4 DEF SInv

LEMMA ClosingStep ==
  ASSUME IInv, IInv', SInv, HostAt({"closing"}), host' = host,
         PortAllocates \/ PortCaptures \/ PortReleases \/ PortFails
  PROVE  SInv'
<1>1. /\ SearchShape /\ WorldsOK /\ TypeOK /\ run \in Run
      /\ At("idle") \/ At("closing")
  BY DEF SInv, IInv, ClosedOK, TypeOK
<1>2. PortReleases
  BY <1>1 DEF PortAllocates, PortCaptures, Captured, PortFails, AllocationFails,
              AllocationCancelled, CaptureFails, CaptureCancelled, At
<1>3. /\ handed' = handed /\ ledger' = ledger /\ At("closing")
      /\ (\E b \in run.drop : \E kept : CloseNext(b, kept)) \/ CloseCancelled
  BY <1>1, <1>2, ReleasesOf DEF At
<1>4. run'.at \in {"idle", "closing"}
  <2>1. CASE \E b \in run.drop : \E kept : CloseNext(b, kept)
    <3>1. \/ \E kept : ReplaceRetained(kept, "returned")
          \/ \E b, kept : run' = [run EXCEPT !.drop = @ \ {b}, !.kept = kept]
      BY <2>1 DEF CloseNext
    <3>2. CASE \E kept : ReplaceRetained(kept, "returned")
      BY <3>2 DEF ReplaceRetained, Idle
    <3>3. CASE \E b, kept : run' = [run EXCEPT !.drop = @ \ {b}, !.kept = kept]
      BY <1>1, <1>3, <3>3 DEF Run, At
    <3> QED
      BY <3>1, <3>2, <3>3
  <2>2. CASE CloseCancelled
    BY <2>2 DEF CloseCancelled, ReplaceRetained, Idle
  <2> QED
    BY <1>3, <2>1, <2>2
<1>5. ~HostAt({"failed"}) /\ run'.at # "capturing"
  BY <1>4 DEF HostAt
<1>6. CASE \E id : Gone(id) /\ \A b \in released' : b \in released \/ b.allocation_id = id
  <2>1. PICK id : Gone(id) /\ \A b \in released' : b \in released \/ b.allocation_id = id
    BY <1>6
  <2>2. /\ WorldsOK' /\ IsFiniteSet(port'.envs) /\ DOMAIN port' = DOMAIN port
        /\ port'.receipts = port.receipts
    BY <1>1, <1>3, <1>5, <2>1, Departs
  <2>3. SearchShape'
    BY <1>1, <2>2, ShapeStays DEF SearchShape
  <2> QED
    BY <1>3, <1>4, <2>2, <2>3, StaysClosing
<1>7. CASE released' = released /\ UNCHANGED <<worlds, port>>
  <2>1. worlds' = worlds /\ port' = port /\ port'.envs = port.envs
    BY <1>7
  <2>2. SearchShape'
    BY <1>1, <2>1, ShapeStays DEF SearchShape
  <2>3. Pictures' \in Int /\ Pictures' <= Pictures
    BY <1>1, <1>5, <2>1, NoPicture
  <2>4. WorldsOK'
    BY <1>1, <1>3, <1>5, <1>7, <2>1, <2>3, WorldsStay
  <2> QED
    BY <1>3, <1>4, <2>2, <2>4, StaysClosing
<1> QED
  BY <1>1, <1>2, <1>6, <1>7, ReleasesOf

-----------------------------------------------------------------------------
(* The driver of the search.                                               *)

\* Everything but the driver stays where it is.
LEMMA Untouched ==
  ASSUME WorldsOK, UNCHANGED <<vars, worlds, port>>, ~HostAt({"failed"})
  PROVE  WorldsOK'
<1>1. Held' = Held /\ Pictures' = Pictures
  BY DEF vars, Held, At, Pictures, Actives, AcceptedAllocations
<1>2. Root \notin worlds
  BY DEF WorldsOK
<1> QED
  BY <1>1, <1>2 DEF WorldsOK, vars

LEMMA DriverShape ==
  ASSUME SearchShape, DOMAIN port' = DOMAIN port, IsFiniteSet(port'.envs),
         port'.receipts = port.receipts, DOMAIN host' = DOMAIN host, host'.mark \in Nat,
         host'.batches \in Seq(SUBSET Candidates), Len(host'.batches) \in 1..3,
         host'.done \in Seq(Seq(Pairs)), host'.pending \in Seq(Pairs)
  PROVE  SearchShape'
BY DEF SearchShape, Level

\* The driver goes to another line and takes nothing along.
LEMMA DriverMoves ==
  ASSUME SearchShape, NEW p, host' = [host EXCEPT !.pc = p], port' = port
  PROVE  /\ SearchShape' /\ host'.pc = p /\ host'.batches = host.batches
         /\ host'.done = host.done /\ host'.mark = host.mark
         /\ host'.pending = host.pending /\ host'.raised = host.raised
<1>1. /\ host'.pc = p /\ host'.batches = host.batches
      /\ host'.done = host.done /\ host'.mark = host.mark
      /\ host'.pending = host.pending /\ DOMAIN host' = DOMAIN host
  BY DEF SearchShape
<1>2. host'.raised = host.raised
  BY DEF SearchShape
<1>3. SearchShape'
  BY <1>1, DriverShape DEF SearchShape, Level
<1> QED
  BY <1>1, <1>2, <1>3

LEMMA OpenStep ==
  ASSUME SInv, Open
  PROVE  SInv'
<1>1. /\ SearchShape /\ WorldsOK /\ At("idle") /\ BatchOK /\ port.envs = {}
      /\ Cardinality(handed) <= Len(ledger) /\ PaidFor(Len(ledger), Level - 1)
  BY DEF SInv, StageOK, Open, HostAt
<1>2. /\ ledger' = ledger /\ run' = run /\ handed' = handed /\ port' = port /\ Held' = Held
      /\ Pictures' = Pictures /\ Root \notin worlds
  BY <1>1 DEF Open, vars, Held, At, Pictures, Actives, AcceptedAllocations, WorldsOK, HostAt
<1>3. PICK p \in {"stage", "failed"} :
        /\ host' = [host EXCEPT !.pc = p]
        /\ p = "stage" => worlds' = worlds
        /\ p = "failed" => worlds' \in {worlds, {Root}}
  BY DEF Open
<1>4. SearchShape' /\ host'.pc = p /\ host'.batches = host.batches
  BY <1>1, <1>2, <1>3, DriverMoves
<1>5. Level' = Level /\ Batch' = Batch /\ Best' = Best
  BY <1>4, SameStage
<1>6. BatchOK' /\ At("idle")' /\ PaidFor(Len(ledger), Level - 1)'
  BY <1>1, <1>2, <1>5 DEF BatchOK, At, PaidFor
<1>7. WorldsOK'
  <2>1. CASE worlds' = worlds
    BY <1>1, <1>2, <2>1 DEF WorldsOK
  <2>2. CASE p = "failed" /\ worlds' = {Root}
    <3>1. worlds' \ {Root} = {} /\ HostAt({"failed"})'
      BY <1>4, <2>2 DEF HostAt
    <3> QED
      BY <1>1, <1>2, <2>2, <3>1 DEF WorldsOK
  <2> QED
    BY <1>3, <2>1, <2>2
<1>8. /\ StageOK'
      /\ RunningOK' /\ ReleaseOK' /\ ClosedOK'
  BY <1>1, <1>2, <1>3, <1>4, <1>6 DEF StageOK, RunningOK, ReleaseOK, ClosedOK, HostAt
<1> QED
  BY <1>4, <1>7, <1>8 DEF SInv

\* Something was raised: the driver closes the workflow, and will not qualify.
LEMMA RaisedStep ==
  ASSUME SInv, At("idle"), ~HostAt({"failed"}), Raised, UNCHANGED <<vars, worlds, port>>
  PROVE  SInv'
<1>1. SearchShape /\ WorldsOK /\ port' = port
  BY DEF SInv
<1>2. /\ host'.pc = "close" /\ host'.batches = host.batches /\ host'.done = host.done
      /\ host'.mark = host.mark /\ host'.pending = host.pending /\ DOMAIN host' = DOMAIN host
  BY <1>1 DEF SearchShape, Raised
<1>3. host'.raised = TRUE
  BY <1>1 DEF SearchShape, Raised
<1>4. SearchShape'
  BY <1>1, <1>2, DriverShape DEF SearchShape, Level
<1>5. WorldsOK'
  BY <1>1, Untouched
<1>6. ClosedOK'
  BY <1>2, <1>3 DEF ClosedOK, HostAt, vars, At
<1>7. StageOK' /\ RunningOK' /\ ReleaseOK'
  BY <1>2 DEF StageOK, RunningOK, ReleaseOK, HostAt
<1> QED
  BY <1>4, <1>5, <1>6, <1>7 DEF SInv

\* What a stage can reserve it has not reserved before.
LEMMA StageReserves ==
  ASSUME IInv, SearchShape, BatchOK, At("idle"), PaidFor(Len(ledger), Level - 1)
  PROVE  /\ Reservations(Batch) \in Seq(Candidates)
         /\ Len(Reservations(Batch)) \in Nat /\ Len(Reservations(Batch)) <= Width[Target]
         /\ \A i \in 1..Len(Reservations(Batch)) : Reservations(Batch)[i] \in Batch
         /\ Len(Reservations(Batch)) = Width[Target] =>
              \E i \in 1..Len(Reservations(Batch)) : Reservations(Batch)[i] = Best
         /\ PaidFor(Len(ledger), Level)
<1> DEFINE cs == Reservations(Batch)
           tier == Stages[Level]
<1>1. /\ TypeOK /\ LedgerValid(ledger) /\ ledger \in Seq(BudgetReservation(Candidates))
  BY HandAtRest DEF IInv, TypeOK
<1>2. /\ tier \in {"GHOST", "REPLAY", "SIMULATED"} /\ Target = NextTier[tier]
      /\ Width[Target] \in Nat /\ Width[Target] >= 1 /\ Level \in Nat
      /\ \A k \in 1..(Level - 1) : NextTier[Stages[k]] # Target
  BY StageFacts
<1>3. /\ IsBatch(Batch) /\ Batch \in SUBSET Candidates /\ Best \in Batch
      /\ \A c \in Batch : c.tier = tier
  BY BatchFacts
<1>4. tier \in DOMAIN NextTier
  BY <1>2 DEF NextTier
<1> HIDE DEF tier
<1>5. cs \in Seq(Candidates) /\ \A i \in 1..Len(cs) : cs[i] \in Batch
  BY <1>1, <1>3, ReservationsCharged
<1>6. Len(cs) \in Nat /\ Len(cs) <= Width[Target]
  BY <1>1, <1>2, <1>3, <1>4, WithinWidth
<1>7. \A i \in 1..Len(ledger) : ledger[i].target_tier # Target
  BY <1>2 DEF PaidFor
<1>8. ~Reserved(ledger, Top, Target)
  <2>1. DOMAIN ledger = 1..Len(ledger)
    BY <1>1
  <2> QED
    BY <1>7, <2>1 DEF Reserved
<1>9. ASSUME Len(cs) = Width[Target]
      PROVE  \E i \in 1..Len(cs) : cs[i] = Best
  <2>1. cs # <<>>
    BY <1>2, <1>9
  <2>2. ~(0 >= Width[Target])
    BY <1>2
  <2>3. /\ Batch \subseteq {Retier(c, tier) : c \in Ghosts} /\ Retier(Ghost(Top), tier) \in Batch
        /\ Best = Retier(Ghost(Top), tier)
    BY <1>3 DEF BatchOK, Best, tier
  <2> QED
    BY <1>1, <1>2, <1>8, <2>1, <2>2, <2>3, BestReserved
<1>10. PaidFor(Len(ledger), Level)
  <2>1. \A k \in 1..(Level - 1) : k \in 1..Level
    BY <1>2
  <2> HIDE DEF Level
  <2> QED
    BY <2>1 DEF PaidFor
<1> QED
  BY <1>5, <1>6, <1>9, <1>10

LEMMA StageStep ==
  ASSUME IInv, IInv', SInv, Stage
  PROVE  SInv'
<1> DEFINE todo == Reservations(Batch)
           nil == <<>>
           none == {}
           W == Width[Target]
<1>1. /\ SearchShape /\ WorldsOK /\ At("idle") /\ BatchOK /\ port.envs = {} /\ TypeOK
      /\ Cardinality(handed) <= Len(ledger) /\ PaidFor(Len(ledger), Level - 1)
  BY DEF SInv, StageOK, Stage, HostAt, IInv
<1>2. /\ AdvanceWith(Batch) /\ worlds' = worlds /\ port' = port
      /\ host' = [host EXCEPT !.pc = "running", !.mark = Len(ledger)]
  BY DEF Stage
<1>3. Len(ledger) \in Nat /\ host.mark \in Nat
  BY <1>1 DEF TypeOK, SearchShape
<1>4. /\ host'.pc = "running" /\ host'.mark = Len(ledger) /\ host'.batches = host.batches
      /\ host'.done = host.done /\ host'.pending = host.pending /\ DOMAIN host' = DOMAIN host
  BY <1>1, <1>2 DEF SearchShape
<1>5. SearchShape'
  BY <1>1, <1>2, <1>3, <1>4, DriverShape DEF SearchShape, Level
<1>6. /\ todo \in Seq(Candidates) /\ Len(todo) \in Nat /\ Len(todo) <= W
      /\ \A i \in 1..Len(todo) : todo[i] \in Batch
      /\ Len(todo) = W => \E i \in 1..Len(todo) : todo[i] = Best
      /\ PaidFor(Len(ledger), Level)
  BY <1>1, StageReserves
<1>7. W \in Nat
  BY <1>1, StageFacts
<1>8. /\ handed' = handed /\ released' = released /\ Continue(todo, nil, none)
  BY <1>2 DEF AdvanceWith
<1>9. /\ nil \in Seq(Acceptance) /\ Len(nil) = 0
  OBVIOUS
<1> HIDE DEF todo, nil, none
<1>10. /\ IsFiniteSet(handed') /\ Cardinality(handed) \in Nat /\ Cardinality(handed') = Cardinality(handed)
       /\ IsFiniteSet(port'.envs) /\ Cardinality(port'.envs) = 0 /\ port'.envs = {}
  BY <1>1, <1>2, <1>8, FS_CardinalityType, FS_EmptySet DEF IInv, Balanced
<1>11. Course(Len(ledger), handed', port'.envs, todo, nil)
  <2> DEFINE g == Cardinality(handed')
             e == Cardinality(port'.envs)
             b == Len(ledger)
             n == Len(todo)
             m == Len(nil)
  <2>1. g <= b /\ e = 0 /\ m = 0 /\ n <= W /\ g \in Nat /\ b \in Nat /\ n \in Nat /\ W \in Nat
    BY <1>1, <1>3, <1>6, <1>7, <1>9, <1>10
  <2> HIDE DEF g, e, b, n, m, W
  <2>2. /\ g + n <= b + W /\ e + n <= W /\ m + n <= W /\ (m + n = W => n = W)
    BY <2>1
  <2>3. \A i \in 1..m : nil[i].candidate \in Batch
    BY <2>1
  <2> QED
    BY <1>6, <1>10, <2>2, <2>3 DEF Course, g, e, b, n, m, W
<1>12. Calls(todo, nil)
  BY <1>1, <1>4, <1>6, <1>9, <1>10, <1>11 DEF Calls
<1>13. Working' /\ run'.at # "capturing"
  BY <1>8, <1>12, StageContinues DEF IInv
<1>14. ~HostAt({"failed"})
  BY DEF Stage, HostAt
<1>15. WorldsOK'
  <2>1. Pictures' \in Int /\ Pictures' <= Pictures
    BY <1>1, <1>2, <1>13, NoPicture
  <2> QED
    BY <1>1, <1>2, <1>8, <1>14, <2>1, WorldsStay
<1>16. BatchOK'
  <2>1. Level' = Level /\ Batch' = Batch /\ Best' = Best
    BY <1>4, SameStage
  <2> QED
    BY <1>1, <2>1 DEF BatchOK
<1>17. StageOK' /\ RunningOK' /\ ReleaseOK' /\ ClosedOK'
  BY <1>4, <1>13, <1>16 DEF StageOK, RunningOK, ReleaseOK, ClosedOK, HostAt
<1> QED
  BY <1>5, <1>15, <1>17 DEF SInv

\* What a stage has added to the ledger.
LEMMA PromotionsOf ==
  ASSUME TypeOK, NEW from \in Nat, from <= Len(ledger)
  PROVE  /\ Promotions(from) \in Seq(Pairs) /\ Len(Promotions(from)) = Len(ledger) - from
         /\ Len(ledger) - from \in Nat
         /\ \A i \in 1..(Len(ledger) - from) :
              /\ from + i \in 1..Len(ledger)
              /\ Promotions(from)[i] = <<ledger[from + i].candidate_id, ledger[from + i].target_tier>>
<1> DEFINE S == BudgetReservation(Candidates)
           n == Len(ledger) - from
           pair(i) == <<ledger[from + i].candidate_id, ledger[from + i].target_tier>>
           s == [i \in 1..n |-> pair(i)]
<1>1. ledger \in Seq(S) /\ Len(ledger) \in Nat /\ n \in Nat
  BY DEF TypeOK
<1>2. \A i \in 1..n : from + i \in 1..Len(ledger)
  BY <1>1
<1>3. \A r \in S : r.candidate_id \in {c.candidate_id : c \in Candidates} /\ r.target_tier \in Tiers
  BY DEF BudgetReservation
<1>4. \A i \in 1..n : ledger[from + i] \in S
  <2>1. \A k \in 1..Len(ledger) : ledger[k] \in S
    <3> HIDE DEF S
    <3> QED
      BY <1>1
  <2> HIDE DEF S, n
  <2> QED
    BY <1>2, <2>1
<1>5. \A i \in 1..n : pair(i) \in Pairs
  <2> HIDE DEF S, n
  <2> QED
    BY <1>3, <1>4 DEF Pairs
<1> HIDE DEF n, pair
<1>6. s \in Seq(Pairs) /\ Len(s) = n /\ \A i \in 1..n : s[i] = pair(i)
  BY <1>1, <1>5
<1>7. Promotions(from) = s
  BY DEF Promotions, n, pair
<1> HIDE DEF s
<1> QED
  BY <1>1, <1>2, <1>6, <1>7 DEF n, pair

LEMMA AppendOf ==
  ASSUME NEW S, NEW s \in Seq(S), NEW x \in S
  PROVE  /\ Append(s, x) \in Seq(S) /\ Len(Append(s, x)) = Len(s) + 1 /\ Append(s, x) # <<>>
         /\ Last(Append(s, x)) = x
<1>1. /\ Append(s, x) \in Seq(S) /\ Len(Append(s, x)) = Len(s) + 1
      /\ Append(s, x)[Len(s) + 1] = x /\ Append(s, x) # <<>>
  OBVIOUS
<1> QED
  BY <1>1 DEF Last

LEMMA StagedStep ==
  ASSUME IInv, SInv, Staged
  PROVE  SInv'
<1> DEFINE promoted == Promotions(host.mark)
           W == Width[Target]
<1>1. /\ SearchShape /\ WorldsOK /\ At("idle") /\ BatchOK /\ Working /\ TypeOK
  BY DEF SInv, RunningOK, Staged, HostAt, IInv
<1>2. UNCHANGED <<vars, worlds, port>> /\ ~HostAt({"failed"})
  BY DEF Staged, HostAt
<1>3. CASE ~(run.outcome = "returned" /\ Len(promoted) = W)
  BY <1>1, <1>2, <1>3, RaisedStep DEF Staged
<1>4. CASE run.outcome = "returned" /\ Len(promoted) = W
  <2>1. host' = [host EXCEPT !.pc = "release", !.pending = promoted, !.done = Append(@, promoted)]
    BY <1>4 DEF Staged
  <2>2. /\ promoted \in Seq(Pairs) /\ Len(promoted) = Len(ledger) - host.mark
        /\ \A i \in 1..(Len(ledger) - host.mark) :
             /\ host.mark + i \in 1..Len(ledger)
             /\ promoted[i] = <<ledger[host.mark + i].candidate_id, ledger[host.mark + i].target_tier>>
    BY <1>1, PromotionsOf DEF Working, SearchShape
  <2>3. host.mark \in Nat /\ Len(ledger) \in Nat /\ W \in Nat
    BY <1>1, StageFacts DEF SearchShape, TypeOK
  <2> DEFINE n == Len(ledger) - host.mark
             x == Append(host.done, promoted)
             S == Seq(Pairs)
  <2>4. /\ Len(ledger) = host.mark + W /\ n = W
    BY <1>4, <2>2, <2>3
  <2>5. /\ Cardinality(handed) <= Len(ledger)
        /\ port.envs \subseteq {promoted[i] : i \in 1..n}
        /\ \E i \in 1..n : promoted[i] = Purpose(Best)
    BY <1>1, <1>4, <2>4 DEF Working, Complete
  <2>6. host.done \in Seq(S) /\ promoted \in S
    BY <1>1, <2>2 DEF SearchShape
  <2> HIDE DEF promoted, S
  <2>7. x \in Seq(S) /\ x # <<>> /\ Last(x) = promoted
    BY <2>6, AppendOf
  <2>8. DOMAIN promoted = 1..n
    BY <2>2, <2>6 DEF S
  <2> HIDE DEF x
  <2>9. /\ host'.pc = "release" /\ host'.pending = promoted /\ host'.done = x
        /\ host'.batches = host.batches /\ host'.mark = host.mark /\ DOMAIN host' = DOMAIN host
    BY <1>1, <2>1 DEF SearchShape, x
  <2>10. SearchShape'
    BY <1>1, <1>2, <2>2, <2>3, <2>7, <2>9, DriverShape DEF SearchShape, Level, S
  <2>11. WorldsOK'
    BY <1>1, <1>2, Untouched
  <2>12. Level' = Level /\ Batch' = Batch /\ Best' = Best
    BY <2>9, SameStage
  <2>13. /\ BatchOK' /\ PaidFor(Len(ledger), Level)' /\ At("idle")'
    BY <1>1, <1>2, <2>12 DEF BatchOK, PaidFor, Working, vars, At
  <2>14. ASSUME Level = 3 PROVE Last(ledger).candidate_id = Top
    <3>1. W = 1 /\ Purpose(Best) = <<Top, Target>>
      BY <1>1, <2>14, StageFacts, BatchFacts
    <3>2. promoted[1] = <<Top, Target>> /\ host.mark + 1 = Len(ledger) /\ 1 \in 1..n
      BY <2>3, <2>4, <2>5, <3>1
    <3>3. ledger[Len(ledger)].candidate_id = Top
      BY <2>2, <3>2
    <3> QED
      BY <3>3 DEF Last
  <2>15. Purpose(Best)' = Purpose(Best)
    BY <2>12 DEF Purpose
  <2>16. ReleaseOK'
    <3>1. \E i \in DOMAIN Last(x) : Last(x)[i] = Purpose(Best)
      BY <2>5, <2>7, <2>8
    <3>2. /\ port'.envs = port.envs /\ handed' = handed /\ ledger' = ledger
      BY <1>2 DEF vars
    <3>3. port.envs \subseteq {promoted[i] : i \in 1..Len(promoted)}
      BY <2>2, <2>5
    <3> QED
      BY <2>5, <2>7, <2>9, <2>12, <2>13, <2>14, <2>15, <3>1, <3>2, <3>3 DEF ReleaseOK
  <2>17. StageOK' /\ RunningOK' /\ ClosedOK'
    BY <2>9 DEF StageOK, RunningOK, ClosedOK, HostAt
  <2> QED
    BY <2>10, <2>11, <2>16, <2>17 DEF SInv
<1> QED
  BY <1>3, <1>4

LEMMA ReleaseStep ==
  ASSUME IInv, IInv', SInv, Release
  PROVE  SInv'
<1> DEFINE p == host.pending
           id == Head(p)
           rest == Tail(p)
<1>1. /\ SearchShape /\ WorldsOK /\ At("idle") /\ BatchOK /\ ReleaseOK /\ TypeOK
      /\ host.pc = "release" /\ p \in Seq(Pairs) /\ p # <<>>
      /\ PaidFor(Len(ledger), Level) /\ port.envs \subseteq {p[i] : i \in 1..Len(p)}
  BY DEF SInv, ReleaseOK, Release, HostAt, IInv, SearchShape
<1>2. UNCHANGED vars /\ ~HostAt({"failed"})
  BY DEF Release, HostAt
<1>3. CASE Raised /\ worlds' = worlds /\ port' = port
  BY <1>1, <1>2, <1>3, RaisedStep
<1>4. CASE Gone(id) /\ host' = [host EXCEPT !.pending = Tail(@)]
  <2>1. handed' = handed /\ released' = released /\ ledger' = ledger /\ run' = run
    BY <1>2 DEF vars
  <2>2. run'.at # "capturing"
    BY <1>1, <2>1 DEF At
  <2>3. /\ WorldsOK' /\ IsFiniteSet(port'.envs) /\ DOMAIN port' = DOMAIN port
        /\ port'.envs \in SUBSET (port.envs \ {id}) /\ port'.receipts = port.receipts
    BY <1>1, <1>2, <1>4, <2>1, <2>2, Departs
  <2>4. /\ rest \in Seq(Pairs) /\ Len(rest) = Len(p) - 1 /\ Len(p) \in Nat /\ id = p[1]
        /\ \A i \in 1..Len(rest) : rest[i] = p[i + 1]
    BY <1>1
  <2>5. /\ host'.pc = "release" /\ host'.pending = rest /\ host'.done = host.done
        /\ host'.batches = host.batches /\ host'.mark = host.mark /\ DOMAIN host' = DOMAIN host
    BY <1>1, <1>4 DEF SearchShape
  <2> HIDE DEF p, id, rest
  <2>6. SearchShape'
    BY <1>1, <2>3, <2>4, <2>5, DriverShape DEF SearchShape, Level
  <2>7. Level' = Level /\ Batch' = Batch /\ Best' = Best
    BY <2>5, SameStage
  <2>8. /\ BatchOK' /\ PaidFor(Len(ledger), Level)' /\ At("idle")' /\ Purpose(Best)' = Purpose(Best)
    BY <1>1, <2>1, <2>7 DEF BatchOK, PaidFor, At, Purpose
  <2>9. port'.envs \subseteq {rest[i] : i \in 1..Len(rest)}
    <3> SUFFICES ASSUME NEW w \in port'.envs PROVE \E i \in 1..Len(rest) : rest[i] = w
      OBVIOUS
    <3>1. PICK i \in 1..Len(p) : p[i] = w
      BY <1>1, <2>3
    <3>2. i # 1
      BY <2>3, <2>4, <3>1
    <3>3. i - 1 \in 1..Len(rest) /\ rest[i - 1] = p[i]
      BY <2>4, <3>2
    <3> QED
      BY <3>1, <3>3
  <2>10. ReleaseOK'
    BY <1>1, <2>1, <2>5, <2>7, <2>8, <2>9 DEF ReleaseOK, HostAt
  <2>11. StageOK' /\ RunningOK' /\ ClosedOK'
    BY <2>5 DEF StageOK, RunningOK, ClosedOK, HostAt
  <2> QED
    BY <2>3, <2>6, <2>10, <2>11 DEF SInv
<1> QED
  BY <1>3, <1>4 DEF Release, Stays

\* The best ghost goes on to the next stage, with others that were promoted.
LEMMA FrontierOf ==
  ASSUME SearchShape, BatchOK, Level < 3, NEW promoted,
         \E i \in DOMAIN promoted : promoted[i] = Purpose(Best)
  PROVE  /\ Retier(Ghost(Top), Target) \in Frontier(Batch, promoted, Target)
         /\ Frontier(Batch, promoted, Target) \subseteq {Retier(c, Target) : c \in Ghosts}
         /\ Frontier(Batch, promoted, Target) \in SUBSET Candidates
<1> DEFINE F == Frontier(Batch, promoted, Target)
           All == {Retier(c, Target) : c \in Ghosts}
<1>1. /\ Level + 1 \in 1..3 /\ Stages[Level + 1] = Target /\ Level \in Nat
  BY StageFacts
<1>2. Target \in {"GHOST", "REPLAY", "SIMULATED"}
  <2> HIDE DEF Level
  <2>1. Level + 1 = 1 \/ Level + 1 = 2 \/ Level + 1 = 3
    BY <1>1
  <2> QED
    BY <1>1, <2>1 DEF Stages
<1>3. Best \in Batch /\ \A c \in Batch : \E id \in Ids : c = Retier(Ghost(id), Stages[Level])
  BY BatchFacts
<1>4. Retier(Ghost(Top), Target) \in F
  <2>1. Retier(Best, Target) = Retier(Ghost(Top), Target)
    BY GhostOf DEF Best
  <2> QED
    BY <1>3, <2>1 DEF Frontier
<1>5. F \subseteq All
  <2> SUFFICES ASSUME NEW d \in F PROVE d \in All
    OBVIOUS
  <2>1. PICK c \in Batch : d = Retier(c, Target)
    BY DEF Frontier
  <2>2. PICK id \in Ids : c = Retier(Ghost(id), Stages[Level])
    BY <1>3
  <2>3. d = Retier(Ghost(id), Target)
    BY <2>1, <2>2, GhostOf
  <2> QED
    BY <2>3 DEF Ghosts
<1>6. F \in SUBSET Candidates
  <2> HIDE DEF F
  <2>1. F # {}
    BY <1>4
  <2> QED
    BY <1>2, <1>5, <2>1, StageBatch
<1> QED
  BY <1>4, <1>5, <1>6

LEMMA NextStageStep ==
  ASSUME IInv, SInv, NextStage
  PROVE  SInv'
<1>1. /\ SearchShape /\ WorldsOK /\ At("idle") /\ BatchOK /\ PaidFor(Len(ledger), Level)
      /\ host.pc = "release" /\ host.pending = <<>>
      /\ port.envs \subseteq {host.pending[i] : i \in 1..Len(host.pending)}
      /\ \E i \in DOMAIN Last(host.done) : Last(host.done)[i] = Purpose(Best)
      /\ Cardinality(handed) <= Len(ledger)
      /\ Level = 3 => Last(ledger).candidate_id = Top
  BY DEF SInv, ReleaseOK, NextStage, HostAt
<1>2. UNCHANGED <<vars, worlds, port>> /\ ~HostAt({"failed"})
  BY DEF NextStage, HostAt
<1>3. WorldsOK' /\ At("idle")' /\ ledger' = ledger /\ handed' = handed /\ port' = port
  BY <1>1, <1>2, Untouched DEF vars, At
<1>4. port.envs = {}
  BY <1>1
<1>5. Len(Stages) = 3
  BY DEF Stages
<1>6. CASE Level = 3
  <2> DEFINE p == "close"
  <2>1. host' = [host EXCEPT !.pc = p]
    BY <1>5, <1>6 DEF NextStage, Level
  <2> HIDE DEF p
  <2>2. SearchShape' /\ host'.pc = p
    BY <1>1, <1>3, <2>1, DriverMoves
  <2>3. ClosedOK'
    BY <1>1, <1>3, <1>6, <2>2 DEF ClosedOK, HostAt, p
  <2>4. StageOK' /\ RunningOK' /\ ReleaseOK'
    BY <2>2 DEF StageOK, RunningOK, ReleaseOK, HostAt, p
  <2> QED
    BY <1>3, <2>2, <2>3, <2>4 DEF SInv
<1>7. CASE Level # 3
  <2> DEFINE F == Frontier(Batch, Last(host.done), Target)
             x == Append(host.batches, F)
             S == SUBSET Candidates
  <2>1. host' = [host EXCEPT !.pc = "stage", !.batches = Append(@, F)]
    BY <1>5, <1>7 DEF NextStage, Level
  <2>2. Level < 3 /\ Level \in Nat /\ Level + 1 \in 1..3 /\ Stages[Level + 1] = Target
    BY <1>1, <1>7, StageFacts DEF SearchShape
  <2>3. Retier(Ghost(Top), Target) \in F /\ F \subseteq {Retier(c, Target) : c \in Ghosts} /\ F \in S
    BY <1>1, <2>2, FrontierOf
  <2>4. host.batches \in Seq(S)
    BY <1>1 DEF SearchShape
  <2> HIDE DEF F, S
  <2>5. x \in Seq(S) /\ Len(x) = Level + 1 /\ Last(x) = F
    BY <2>3, <2>4, AppendOf DEF Level
  <2> HIDE DEF x
  <2>6. /\ host'.pc = "stage" /\ host'.batches = x /\ host'.done = host.done
        /\ host'.mark = host.mark /\ host'.pending = host.pending /\ DOMAIN host' = DOMAIN host
    BY <1>1, <2>1 DEF SearchShape, x
  <2>7. SearchShape'
    BY <1>1, <1>3, <2>2, <2>5, <2>6, DriverShape DEF SearchShape, S
  <2>8. Level' = Level + 1 /\ Batch' = F
    BY <2>5, <2>6 DEF Level, Batch
  <2>9. Best' = Retier(Ghost(Top), Target)
    BY <2>2, <2>8 DEF Best
  <2>10. BatchOK'
    BY <2>2, <2>3, <2>8, <2>9 DEF BatchOK
  <2>11. PaidFor(Len(ledger), Level - 1)'
    <3>1. Level' - 1 = Level
      BY <2>2, <2>8
    <3> QED
      BY <1>1, <1>3, <3>1 DEF PaidFor
  <2>12. StageOK'
    BY <1>1, <1>3, <1>4, <2>10, <2>11 DEF StageOK
  <2>13. RunningOK' /\ ReleaseOK' /\ ClosedOK'
    BY <2>6 DEF RunningOK, ReleaseOK, ClosedOK, HostAt
  <2> QED
    BY <1>3, <2>7, <2>12, <2>13 DEF SInv
<1> QED
  BY <1>6, <1>7

LEMMA CloseWorkflowStep ==
  ASSUME IInv, IInv', SInv, CloseWorkflow
  PROVE  SInv'
<1> DEFINE p == "closing"
<1>1. /\ SearchShape /\ WorldsOK /\ host.pc = "close"
      /\ ~host.raised => Cardinality(handed) <= Len(ledger) /\ Last(ledger).candidate_id = Top
  BY DEF SInv, ClosedOK, CloseWorkflow, HostAt
<1>2. /\ ledger' = ledger /\ handed' = handed /\ released' = released /\ worlds' = worlds
      /\ port' = port /\ ~HostAt({"failed"})
  BY DEF CloseWorkflow, Close, HostAt
<1>3. At("idle")' \/ At("closing")'
  <2>1. \/ run' = Idle("returned")
        \/ run' = [Idle("none") EXCEPT !.at = "closing", !.drop = Actives \cup cleanup]
    BY DEF CloseWorkflow, Close, ReplaceRetained
  <2>2. run'.at = "idle" \/ run'.at = "closing"
    <3>1. CASE run' = Idle("returned")
      BY <3>1 DEF Idle
    <3>2. CASE run' # Idle("returned")
      <4> DEFINE out == Actives \cup cleanup
      <4>1. run' = [Idle("none") EXCEPT !.at = "closing", !.drop = out]
        BY <2>1, <3>2
      <4> HIDE DEF out
      <4> QED
        BY <4>1 DEF Idle
    <3> QED
      BY <3>1, <3>2
  <2> QED
    BY <2>2 DEF At
<1>4. run'.at # "capturing"
  BY <1>3 DEF At
<1>5. WorldsOK'
  <2>1. Pictures' \in Int /\ Pictures' <= Pictures
    BY <1>1, <1>2, <1>4, NoPicture
  <2> QED
    BY <1>1, <1>2, <2>1, WorldsStay
<1>6. host' = [host EXCEPT !.pc = p]
  BY DEF CloseWorkflow
<1> HIDE DEF p
<1>7. SearchShape' /\ host'.pc = p /\ host'.raised = host.raised
  BY <1>1, <1>2, <1>6, DriverMoves
<1>8. ClosedOK'
  BY <1>1, <1>2, <1>3, <1>7 DEF ClosedOK, HostAt, p
<1>9. StageOK' /\ RunningOK' /\ ReleaseOK'
  BY <1>7 DEF StageOK, RunningOK, ReleaseOK, HostAt, p
<1> QED
  BY <1>5, <1>7, <1>8, <1>9 DEF SInv

\* A receipt that is closed shows each reservation once.
LEMMA ReceiptsPaid ==
  ASSUME TypeOK, SearchShape, ReceiptClosed
  PROVE  Len(port.receipts) = Len(ledger)
<1> DEFINE r == port.receipts
           paid == [i \in DOMAIN ledger |-> <<ledger[i].candidate_id, ledger[i].target_tier>>]
<1>1. r = paid
  BY DEF ReceiptClosed
<1>2. DOMAIN paid = DOMAIN ledger
  OBVIOUS
<1>3. r \in Seq(AllocationIds) /\ ledger \in Seq(BudgetReservation(Candidates))
  BY DEF TypeOK, SearchShape
<1> HIDE DEF r, paid
<1>4. DOMAIN r = 1..Len(r) /\ DOMAIN ledger = 1..Len(ledger) /\ Len(r) \in Nat /\ Len(ledger) \in Nat
  BY <1>3
<1>5. Len(r) = Len(ledger)
  BY <1>1, <1>2, <1>4
<1> QED
  BY <1>5 DEF r

LEMMA FinishStep ==
  ASSUME IInv, SInv, Finish
  PROVE  SInv'
<1>1. /\ SearchShape /\ WorldsOK /\ host.pc = "closing" /\ TypeOK
      /\ ~host.raised => Cardinality(handed) <= Len(ledger) /\ Last(ledger).candidate_id = Top
  BY DEF SInv, ClosedOK, Finish, HostAt, IInv
<1>2. UNCHANGED <<vars, worlds, port>> /\ ~HostAt({"failed"})
  BY DEF Finish, HostAt
<1>3. WorldsOK' /\ ledger' = ledger /\ handed' = handed /\ port' = port
  BY <1>1, <1>2, Untouched DEF vars
<1>4. PICK p \in {"qualified", "failed"} :
        /\ host' = [host EXCEPT !.pc = p]
        /\ p = "qualified" => ~host.raised /\ port.envs = {} /\ ReceiptClosed
  BY DEF Finish
<1>5. SearchShape' /\ host'.pc = p
  BY <1>1, <1>3, <1>4, DriverMoves
<1>6. ClosedOK'
  <2>1. CASE p = "qualified"
    <3>1. /\ port.envs = {} /\ Len(port.receipts) = Len(ledger)
          /\ Cardinality(handed) <= Len(ledger) /\ Last(ledger).candidate_id = Top
      BY <1>1, <1>4, <2>1, ReceiptsPaid
    <3> QED
      BY <1>3, <1>5, <2>1, <3>1 DEF ClosedOK, HostAt
  <2>2. CASE p = "failed"
    BY <1>5, <2>2 DEF ClosedOK, HostAt
  <2> QED
    BY <1>4, <2>1, <2>2
<1>7. StageOK' /\ RunningOK' /\ ReleaseOK'
  BY <1>4, <1>5 DEF StageOK, RunningOK, ReleaseOK, HostAt
<1> QED
  BY <1>3, <1>5, <1>6, <1>7 DEF SInv

-----------------------------------------------------------------------------
(* The search keeps both invariants.                                       *)

LEMMA InitSearch == SInit => IInv /\ SInv
<1> SUFFICES ASSUME SInit PROVE IInv /\ SInv
  OBVIOUS
<1> DEFINE nil == <<>>
           B == <<Ghosts>>
           S == SUBSET Candidates
<1>1. IInv
  BY InitIInv DEF SInit
<1>2. /\ handed = {} /\ released = {} /\ ledger = nil /\ run = Idle("none") /\ worlds = {}
  BY DEF SInit, Init
<1>3. /\ DOMAIN port = {"envs", "receipts", "released", "peak"}
      /\ port.envs = {} /\ port.receipts = nil
      /\ DOMAIN host = {"pc", "batches", "done", "mark", "pending", "raised"}
      /\ host.pc = "open" /\ host.batches = B /\ host.done = nil /\ host.mark = 0 /\ host.pending = nil
  BY DEF SInit
<1>4. Top \in Ids /\ Stages[1] = "GHOST"
  BY TopOf DEF Stages
<1>5. Ghosts = {Retier(c, "GHOST") : c \in Ghosts}
  BY GhostOf DEF Ghosts
<1>6. Ghosts \in S
  <2>1. Ghosts # {}
    BY <1>4 DEF Ghosts
  <2> QED
    BY <1>5, <2>1, StageBatch
<1>7. Retier(Ghost(Top), "GHOST") \in Ghosts
  BY <1>4, GhostOf DEF Ghosts
<1> HIDE DEF S
<1>8. B \in Seq(S) /\ Len(B) = 1 /\ B[1] = Ghosts
  BY <1>6
<1>9. /\ nil \in Seq(AllocationIds) /\ nil \in Seq(Pairs) /\ nil \in Seq(Seq(Pairs)) /\ Len(nil) = 0
  OBVIOUS
<1> HIDE DEF nil, B
<1>10. Level = 1 /\ Batch = Ghosts
  BY <1>3, <1>8 DEF Level, Batch, Last
<1>11. SearchShape
  BY <1>3, <1>8, <1>9, <1>10, FS_EmptySet DEF SearchShape, S
<1>12. BatchOK
  BY <1>4, <1>5, <1>7, <1>10 DEF BatchOK, Best
<1>13. Cardinality(handed) = 0 /\ Cardinality(port.envs) = 0
  BY <1>2, <1>3, FS_EmptySet
<1>14. run.at = "idle"
  BY <1>2 DEF Idle
<1>15. StageOK
  <2>1. Cardinality(handed) <= Len(ledger)
    BY <1>2, <1>9, <1>13
  <2>2. PaidFor(Len(ledger), Level - 1)
    BY <1>2, <1>9 DEF PaidFor
  <2> QED
    BY <1>3, <1>12, <1>14, <2>1, <2>2 DEF StageOK, At
<1>16. WorldsOK
  <2>1. Width["REPLAY"] \in Nat
    BY <1>11, StageFacts
  <2>2. Pictures = 0
    BY <1>3, <1>9, <1>14 DEF Pictures, At
  <2> QED
    BY <1>2, <1>3, <1>13, <2>1, <2>2 DEF WorldsOK
<1>17. RunningOK /\ ReleaseOK /\ ClosedOK
  BY <1>3 DEF RunningOK, ReleaseOK, ClosedOK, HostAt
<1> QED
  BY <1>1, <1>11, <1>15, <1>16, <1>17 DEF SInv

LEMMA NextSearchIInv == IInv /\ SInv /\ [SNext]_svars => IInv'
<1> SUFFICES ASSUME IInv, SInv, [SNext]_svars PROVE IInv'
  OBVIOUS
<1>1. CASE UNCHANGED vars
  BY <1>1, NextIInv
<1>2. CASE Stage
  <2>1. AdvanceWith(Batch)
    BY <1>2 DEF Stage
  <2>2. IsBatch(Batch) /\ Batch \in SUBSET Candidates
    BY <1>2, BatchFacts DEF Stage, SInv, StageOK, HostAt
  <2> QED
    BY <2>1, <2>2, AdvanceStep
<1>3. CASE PortAllocates
  <2>1. Forked(Request) \in Allocation /\ AllocatedAs(Forked(Request))
    BY <1>3 DEF PortAllocates
  <2> QED
    BY <2>1, AllocatedStep
<1>4. CASE PortCaptures \/ PortReleases \/ PortFails \/ CloseWorkflow
  <2>1. Next
    BY <1>4 DEF PortCaptures, PortReleases, PortFails, CloseWorkflow, Next, Answered, Interrupted
  <2> QED
    BY <2>1, NextIInv
<1>5. CASE Open \/ Staged \/ Release \/ NextStage \/ Finish
  <2>1. UNCHANGED vars
    BY <1>5 DEF Open, Staged, Release, NextStage, Finish
  <2> QED
    BY <1>1, <2>1
<1> QED
  BY <1>1, <1>2, <1>3, <1>4, <1>5 DEF SNext, Callback, svars

LEMMA NextSInv == IInv /\ IInv' /\ SInv /\ [SNext]_svars => SInv'
<1> SUFFICES ASSUME IInv, IInv', SInv, [SNext]_svars PROVE SInv'
  OBVIOUS
<1>1. CASE Open
  BY <1>1, OpenStep
<1>2. CASE Stage
  BY <1>2, StageStep
<1>3. CASE Callback
  <2>1. CASE HostAt({"running"})
    BY <1>3, <2>1, PortAllocatesStep, PortCapturesStep, PortReleasesStep, PortFailsStep DEF Callback
  <2>2. CASE HostAt({"closing"})
    BY <1>3, <2>2, ClosingStep DEF Callback
  <2> QED
    BY <1>3, <2>1, <2>2 DEF Callback, HostAt
<1>4. CASE Staged
  BY <1>4, StagedStep
<1>5. CASE Release
  BY <1>5, ReleaseStep
<1>6. CASE NextStage
  BY <1>6, NextStageStep
<1>7. CASE CloseWorkflow
  BY <1>7, CloseWorkflowStep
<1>8. CASE Finish
  BY <1>8, FinishStep
<1>9. CASE UNCHANGED svars
  <2>1. /\ ledger' = ledger /\ run' = run /\ handed' = handed /\ released' = released
        /\ active' = active /\ cleanup' = cleanup
        /\ worlds' = worlds /\ port' = port /\ host' = host
    BY <1>9 DEF svars, vars
  <2>2. Level' = Level /\ Batch' = Batch /\ Target' = Target /\ Best' = Best
    BY <2>1, SameStage
  <2>3. /\ Held' = Held /\ Left' = Left /\ InHand' = InHand /\ Pictures' = Pictures
    BY <2>1 DEF Held, Left, InHand, Request, Rest, At, Pictures, Actives, AcceptedAllocations
  <2>4. SearchShape' /\ BatchOK' = BatchOK
    BY <2>1, <2>2 DEF SInv, SearchShape, BatchOK
  <2>5. StageOK' /\ ReleaseOK' /\ ClosedOK' /\ WorldsOK'
    BY <2>1, <2>2, <2>3, <2>4 DEF SInv, StageOK, ReleaseOK, ClosedOK, WorldsOK, HostAt, At,
                                  PaidFor, Purpose
  <2>6. RunningOK'
    <3>1. Complete' = Complete
      BY <2>1, <2>2 DEF Complete, Promotions, Purpose
    <3>2. Working' = Working
      BY <2>1, <2>2, <2>3, <3>1 DEF Working, PaidFor, Course, Aims, At
    <3> QED
      BY <2>1, <2>4, <3>2 DEF SInv, RunningOK, HostAt
  <2> QED
    BY <2>4, <2>5, <2>6 DEF SInv
<1> QED
  BY <1>1, <1>2, <1>3, <1>4, <1>5, <1>6, <1>7, <1>8, <1>9 DEF SNext

LEMMA SearchInvariance == SSpec => [](IInv /\ SInv)
<1>1. SInit => IInv /\ SInv
  BY InitSearch
<1>2. (IInv /\ SInv) /\ [SNext]_svars => (IInv /\ SInv)'
  BY NextSearchIInv, NextSInv
<1> QED
  BY <1>1, <1>2, PTL DEF SSpec

\* Nothing scores better than the ghost every stage ranks first.
LEMMA TopScores == \A c \in Ghosts : Scores[Top] >= c.priority
<1> DEFINE tier == "GHOST"
           All == {Retier(c, tier) : c \in Ghosts}
<1>1. IsBatch(All)
  BY GhostsAssumption, BatchesAssumption
<1>2. \A id \in Ids : Retier(Ghost(id), tier) \in All /\ Ghost(id) = Retier(Ghost(id), tier)
  BY GhostOf DEF Ghosts
<1> HIDE DEF All
<1>3. \A id \in Ids : Scores[id] \in Int
  BY <1>1, <1>2, GhostOf DEF IsBatch
<1> SUFFICES ASSUME NEW id \in Ids PROVE Scores[Top] >= Ghost(id).priority
  BY DEF Ghosts
<1>4. Ghost(id).priority = Scores[id] /\ Top \in Ids
  BY <1>2, GhostOf, TopOf
<1>5. CASE id = Top
  BY <1>3, <1>4, <1>5
<1>6. CASE id # Top
  <2>1. Before(Retier(Ghost(Top), tier), Retier(Ghost(id), tier))
    BY <1>6, TopOf
  <2>2. Scores[Top] > Scores[id] \/ Scores[Top] = Scores[id]
    BY <2>1, GhostOf DEF Before
  <2> QED
    BY <1>3, <1>4, <2>2
<1> QED
  BY <1>5, <1>6

LEMMA QualifiedSearch == IInv /\ SInv => SearchQualified
<1> SUFFICES ASSUME IInv, SInv PROVE SearchQualified
  OBVIOUS
<1>1. SearchShape /\ WorldsOK /\ TypeOK
  BY DEF SInv, IInv
<1>2. PaidAndGone
  <2> SUFFICES ASSUME HostAt({"qualified"})
               PROVE  /\ worlds = {} /\ port.envs = {} /\ LedgerValid(ledger)
                      /\ Cardinality(handed) = Len(ledger)
                      /\ \A c \in Ghosts : Scores[Last(ledger).candidate_id] >= c.priority
    BY DEF PaidAndGone
  <2>1. /\ port.envs = {} /\ Len(port.receipts) = Len(ledger)
        /\ Cardinality(handed) <= Len(ledger) /\ Last(ledger).candidate_id = Top
    BY DEF SInv, ClosedOK
  <2>2. worlds = {}
    <3>1. Root \notin worlds
      BY <1>1 DEF WorldsOK, HostAt
    <3> QED
      BY <1>1, <2>1, <3>1 DEF WorldsOK
  <2>3. LedgerValid(ledger)
    BY AffordableLedger DEF CommitSound, Affordable
  <2>4. Cardinality(handed) = Len(ledger)
    <3> DEFINE g == Cardinality(handed)
               n == Len(ledger)
               p == Pictures
    <3>1. g \in Nat /\ n \in Nat
      BY <1>1, FS_CardinalityType DEF IInv, Balanced, TypeOK
    <3>2. p \in Int /\ n <= p
      BY <2>1, <3>1 DEF Pictures
    <3>3. p <= g /\ g <= n
      BY <1>1, <2>1 DEF WorldsOK
    <3> HIDE DEF g, n, p
    <3>4. g = n
      BY <3>1, <3>2, <3>3
    <3> QED
      BY <3>4 DEF g, n
  <2> QED
    BY <2>1, <2>2, <2>3, <2>4, TopScores
<1>3. WorldsHeld
  <2>1. Width["REPLAY"] \in Nat /\ Width["REPLAY"] >= 1
    BY <1>1, StageFacts
  <2>2. Cardinality(worlds) <= Width["REPLAY"]
    <3>1. CASE Root \in worlds
      <4>1. worlds = {Root}
        BY <1>1, <3>1 DEF WorldsOK
      <4>2. Cardinality(worlds) = 1
        BY <4>1, FS_Singleton
      <4> QED
        BY <2>1, <4>2
    <3>2. CASE Root \notin worlds
      <4> DEFINE E == port.envs
                 e == Cardinality(E)
                 w == Cardinality(worlds)
      <4>1. worlds \subseteq E /\ IsFiniteSet(E) /\ e <= Width["REPLAY"]
        BY <1>1, <3>2 DEF WorldsOK, SearchShape
      <4>2. w <= e /\ w \in Nat /\ e \in Nat
        <5> HIDE DEF E
        <5> QED
          BY <4>1, FS_Subset, FS_CardinalityType
      <4> HIDE DEF e, w
      <4>3. w <= Width["REPLAY"]
        BY <2>1, <4>1, <4>2
      <4> QED
        BY <4>3 DEF w
    <3> QED
      BY <3>1, <3>2
  <2> QED
    BY <1>1, <2>2 DEF WorldsHeld, WorldsOK
<1> QED
  BY <1>2, <1>3 DEF SearchQualified

\* A search that qualifies has destroyed every world it made, has paid for each of
\* them once, and has ended with the best of the ghosts it started from; whatever
\* fails on the way, a world that is still there is on record, and there are never
\* more of them than the first beam is wide (_execute_materialized_search, the port).
THEOREM SearchSafety == SSpec => []SearchQualified
<1>1. IInv /\ SInv => SearchQualified
  BY QualifiedSearch
<1> QED
  BY <1>1, SearchInvariance, PTL
=============================================================================
