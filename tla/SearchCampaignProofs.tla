------------------------ MODULE SearchCampaignProofs ------------------------
(***************************************************************************)
(* What the search controller computes, for every batch, ledger, limit and *)
(* width: sums over a ledger, the ranking and its selection order, and the *)
(* beam.  The sum and the beam are recursive functions; each is shown to   *)
(* exist once (Recursion), after which its equations are all a proof uses. *)
(*                                                                         *)
(* And what successive calls of it promise their caller, for every         *)
(* sequence of batches.  The argument: while the beam runs, Judged relates *)
(* its state to the set of candidates considered so far; the selection     *)
(* order considers every contender once (Selection), so at the end of a    *)
(* call Judged speaks of the whole batch, and the promises are read off it.*)
(***************************************************************************)
EXTENDS SearchCampaign, FiniteSetTheorems, WellFoundedInduction, TLAPS

-----------------------------------------------------------------------------
(* Induction on the natural numbers.                                       *)

\* A set that holds zero and the successor of what it holds has all numbers.
LEMMA SetInduction ==
  ASSUME NEW T, 0 \in T, \A n \in Nat : n \in T => n + 1 \in T
  PROVE  Nat \subseteq T
<1> DEFINE missing == Nat \ T
<1>1. SUFFICES ASSUME missing # {} PROVE FALSE
  OBVIOUS
<1>2. PICK n \in missing : \A m \in missing : ~(<<m, n>> \in OpToRel(<, Nat))
  BY <1>1, NatLessThanWellFounded, WFMin
<1>3. n \in Nat /\ n # 0 /\ n - 1 \in Nat
  OBVIOUS
<1>4. n - 1 \notin missing
  <2>1. SUFFICES ASSUME n - 1 \in missing PROVE FALSE
    OBVIOUS
  <2>2. <<n - 1, n>> \in OpToRel(<, Nat)
    <3>1. n - 1 < n
      BY <1>3
    <3> QED
      BY <1>3, <3>1 DEF OpToRel
  <2> QED
    BY <1>2, <2>1, <2>2
<1> QED
  BY <1>3, <1>4

\* A sequence of steps that start in X and cannot leave it stay in X.
LEMMA StaysIn ==
  ASSUME NEW f, NEW N \in Nat, NEW X, f[0] \in X,
         \A n \in 1..N : f[n - 1] \in X => f[n] \in X
  PROVE  \A n \in 0..N : f[n] \in X
<1> DEFINE T == {n \in Nat : n \in 0..N => f[n] \in X}
<1>1. 0 \in T
  OBVIOUS
<1>2. \A n \in Nat : n \in T => n + 1 \in T
  <2> TAKE n \in Nat
  <2> HAVE n \in T
  <2>1. SUFFICES ASSUME n + 1 \in 0..N PROVE f[n + 1] \in X
    OBVIOUS
  <2>2. n \in 0..N /\ n + 1 \in 1..N /\ (n + 1) - 1 = n
    BY <2>1
  <2> QED
    BY <2>2
<1>3. Nat \subseteq T
  <2> HIDE DEF T
  <2> QED
    BY <1>1, <1>2, SetInduction
<1> QED
  BY <1>3

Solves(f, b, N, G) == f[0] = b /\ \A n \in 1..N : f[n] = G[<<f[n - 1], n>>]

\* A recursion on 0..N whose step maps X to X has a solution.
LEMMA Recursion ==
  ASSUME NEW X, NEW b \in X, NEW N \in Nat, NEW G \in [X \X (1..N) -> X]
  PROVE  \E f \in [0..N -> X] : Solves(f, b, N, G)
<1> DEFINE T == {M \in Nat : M <= N => \E f \in [0..M -> X] : Solves(f, b, M, G)}
<1>1. 0 \in T
  <2> DEFINE f == [n \in 0..0 |-> b]
  <2>1. f \in [0..0 -> X] /\ Solves(f, b, 0, G)
    BY DEF Solves
  <2> QED
    BY <2>1
<1>2. \A M \in Nat : M \in T => M + 1 \in T
  <2> TAKE M \in Nat
  <2> HAVE M \in T
  <2>1. SUFFICES ASSUME M + 1 <= N PROVE \E f \in [0..M+1 -> X] : Solves(f, b, M + 1, G)
    OBVIOUS
  <2>2. PICK f \in [0..M -> X] : Solves(f, b, M, G)
    BY <2>1
  <2> DEFINE g == [n \in 0..M+1 |-> IF n = M + 1 THEN G[<<f[M], M + 1>>] ELSE f[n]]
  <2>3. G[<<f[M], M + 1>>] \in X
    BY <2>1
  <2>4. g \in [0..M+1 -> X]
    BY <2>3
  <2>5. \A n \in 1..M : g[n] = f[n] /\ g[n - 1] = f[n - 1]
    OBVIOUS
  <2>6. g[M + 1] = G[<<f[M], M + 1>>] /\ g[(M + 1) - 1] = f[M] /\ g[0] = f[0]
    OBVIOUS
  <2>7. \A n \in 1..M+1 : n \in 1..M \/ n = M + 1
    OBVIOUS
  <2>8. Solves(g, b, M + 1, G)
    <3> HIDE DEF g
    <3>1. ASSUME NEW n \in 1..M+1 PROVE g[n] = G[<<g[n - 1], n>>]
      <4>1. CASE n \in 1..M
        BY <4>1, <2>2, <2>5 DEF Solves
      <4>2. CASE n = M + 1
        BY <4>2, <2>6
      <4> QED
        BY <2>7, <4>1, <4>2
    <3> QED
      BY <3>1, <2>2, <2>6 DEF Solves
  <2> QED
    BY <2>4, <2>8
<1>3. Nat \subseteq T
  <2> HIDE DEF T
  <2> QED
    BY <1>1, <1>2, SetInduction
<1>4. N \in T
  BY <1>3
<1> QED
  BY <1>4

-----------------------------------------------------------------------------
(* Totals.                                                                 *)

Sums(f, numbers) ==
  f[0] = 0 /\ \A n \in 1..Len(numbers) : f[n] = f[n - 1] + numbers[n]

\* A total is the last of the partial sums.
LEMMA PartialSums ==
  ASSUME NEW numbers \in Seq(Nat)
  PROVE  \E f \in [0..Len(numbers) -> Nat] :
           Sums(f, numbers) /\ Total(numbers) = f[Len(numbers)]
<1> DEFINE N == Len(numbers)
           Step(f) == [n \in 0..N |-> IF n = 0 THEN 0 ELSE f[n - 1] + numbers[n]]
           upTo == CHOOSE f : f = Step(f)
           G == [p \in Nat \X (1..N) |-> p[1] + numbers[p[2]]]
<1>1. N \in Nat /\ \A n \in 1..N : numbers[n] \in Nat
  OBVIOUS
<1>2. G \in [Nat \X (1..N) -> Nat]
  <2> SUFFICES ASSUME NEW x \in Nat, NEW n \in 1..N PROVE x + numbers[n] \in Nat
    OBVIOUS
  <2> QED
    BY <1>1
<1>3. PICK f \in [0..N -> Nat] : Solves(f, 0, N, G)
  <2>1. 0 \in Nat /\ N \in Nat
    BY <1>1
  <2> HIDE DEF G, N
  <2> QED
    BY <1>2, <2>1, Recursion
<1>4. \A n \in 1..N : n - 1 \in 0..N /\ f[n - 1] \in Nat
  <2> HIDE DEF N
  <2> QED
    BY <1>1
<1>5. \A n \in 1..N : G[<<f[n - 1], n>>] = f[n - 1] + numbers[n]
  BY <1>4
<1>6. f = Step(f)
  <2>1. \A n \in 0..N : f[n] = IF n = 0 THEN 0 ELSE f[n - 1] + numbers[n]
    <3> HIDE DEF G, N
    <3>1. \A n \in 0..N : n = 0 \/ n \in 1..N
      BY <1>1
    <3>2. \A n \in 1..N : n # 0
      BY <1>1
    <3>3. f[0] = 0 /\ \A n \in 1..N : f[n] = f[n - 1] + numbers[n]
      BY <1>3, <1>5 DEF Solves
    <3> QED
      BY <3>1, <3>2, <3>3
  <2> QED
    BY <2>1
<1>7. upTo = Step(upTo)
  BY <1>6
<1>8. DOMAIN upTo = 0..N /\ Sums(upTo, numbers)
  <2> HIDE DEF upTo
  <2>1. \A n \in 0..N : upTo[n] = IF n = 0 THEN 0 ELSE upTo[n - 1] + numbers[n]
    BY <1>7
  <2>2. DOMAIN upTo = 0..N
    BY <1>7
  <2> QED
    BY <1>1, <2>1, <2>2 DEF Sums
<1>9. \A n \in 0..N : upTo[n] \in Nat
  <2> HIDE DEF upTo
  <2>1. upTo[0] \in Nat
    BY <1>8 DEF Sums
  <2>2. \A n \in 1..N : upTo[n - 1] \in Nat => upTo[n] \in Nat
    BY <1>1, <1>8 DEF Sums
  <2> HIDE DEF N
  <2> QED
    BY <1>1, <2>1, <2>2, StaysIn
<1>10. upTo \in [0..N -> Nat]
  <2>1. upTo = [n \in 0..N |-> upTo[n]]
    <3> HIDE DEF N
    <3> QED
      BY <1>7
  <2> HIDE DEF upTo
  <2> QED
    BY <1>9, <2>1
<1>11. Total(numbers) = upTo[N]
  BY DEF Total
<1> QED
  BY <1>8, <1>10, <1>11

LEMMA TotalType ==
  ASSUME NEW numbers \in Seq(Nat)
  PROVE  Total(numbers) \in Nat
BY PartialSums

\* Partial sums do not decrease.
LEMMA SumsGrow ==
  ASSUME NEW numbers \in Seq(Nat), NEW f \in [0..Len(numbers) -> Nat], Sums(f, numbers),
         NEW k \in 0..Len(numbers), NEW m \in k..Len(numbers)
  PROVE  f[k] <= f[m]
<1> DEFINE T == {d \in Nat : k + d <= Len(numbers) => f[k] <= f[k + d]}
<1>1. 0 \in T
  OBVIOUS
<1>2. \A d \in Nat : d \in T => d + 1 \in T
  <2> TAKE d \in Nat
  <2> HAVE d \in T
  <2>1. SUFFICES ASSUME k + (d + 1) <= Len(numbers) PROVE f[k] <= f[k + (d + 1)]
    OBVIOUS
  <2>2. k + (d + 1) \in 1..Len(numbers) /\ (k + (d + 1)) - 1 = k + d
    BY <2>1
  <2>3. f[k + (d + 1)] = f[k + d] + numbers[k + (d + 1)]
    BY <2>2 DEF Sums
  <2>4. numbers[k + (d + 1)] \in Nat /\ f[k] \in Nat /\ f[k + d] \in Nat
    BY <2>2
  <2> QED
    BY <2>1, <2>3, <2>4
<1>3. m - k \in T
  <2>1. Nat \subseteq T
    <3> HIDE DEF T
    <3> QED
      BY <1>1, <1>2, SetInduction
  <2> QED
    BY <2>1
<1> QED
  BY <1>3

\* Two sequences have the same partial sums up to where they agree.
LEMMA SumsAgree ==
  ASSUME NEW s \in Seq(Nat), NEW f, Sums(f, s),
         NEW t \in Seq(Nat), NEW g, Sums(g, t),
         NEW n \in Nat, n <= Len(s), n <= Len(t), \A i \in 1..n : s[i] = t[i]
  PROVE  f[n] = g[n]
<1> DEFINE T == {m \in Nat : m <= n => f[m] = g[m]}
<1>1. 0 \in T
  BY DEF Sums
<1>2. \A m \in Nat : m \in T => m + 1 \in T
  <2> TAKE m \in Nat
  <2> HAVE m \in T
  <2>1. SUFFICES ASSUME m + 1 <= n PROVE f[m + 1] = g[m + 1]
    OBVIOUS
  <2>2. m + 1 \in 1..Len(s) /\ m + 1 \in 1..Len(t) /\ (m + 1) - 1 = m /\ m + 1 \in 1..n
    BY <2>1
  <2>3. f[m + 1] = f[m] + s[m + 1] /\ g[m + 1] = g[m] + t[m + 1]
    BY <2>2 DEF Sums
  <2> QED
    BY <2>1, <2>2, <2>3
<1>3. n \in T
  <2>1. Nat \subseteq T
    <3> HIDE DEF T
    <3> QED
      BY <1>1, <1>2, SetInduction
  <2> QED
    BY <2>1
<1> QED
  BY <1>3

LEMMA TotalEmpty == Total(<<>>) = 0
<1>1. <<>> \in Seq(Nat) /\ Len(<<>>) = 0
  OBVIOUS
<1> QED
  BY <1>1, PartialSums DEF Sums

LEMMA TotalAppend ==
  ASSUME NEW s \in Seq(Nat), NEW x \in Nat
  PROVE  Total(Append(s, x)) = Total(s) + x
<1> DEFINE t == Append(s, x)
<1>1. t \in Seq(Nat) /\ Len(t) = Len(s) + 1 /\ t[Len(s) + 1] = x /\ Len(s) \in Nat
      /\ \A i \in 1..Len(s) : t[i] = s[i]
  OBVIOUS
<1> HIDE DEF t
<1>2. PICK f : Sums(f, s) /\ Total(s) = f[Len(s)]
  BY PartialSums
<1>3. PICK g : Sums(g, t) /\ Total(t) = g[Len(t)]
  BY <1>1, PartialSums
<1>4. f[Len(s)] = g[Len(s)]
  <2> DEFINE n == Len(s)
  <2>1. n \in Nat /\ n <= Len(s) /\ n <= Len(t) /\ \A i \in 1..n : s[i] = t[i]
    BY <1>1
  <2>2. Sums(f, s) /\ Sums(g, t) /\ t \in Seq(Nat)
    BY <1>1, <1>2, <1>3
  <2> HIDE DEF n
  <2>3. f[n] = g[n]
    BY <2>1, <2>2, SumsAgree
  <2> QED
    BY <2>3 DEF n
<1>5. g[Len(s) + 1] = g[(Len(s) + 1) - 1] + t[Len(s) + 1]
  BY <1>1, <1>3 DEF Sums
<1> QED
  BY <1>1, <1>2, <1>3, <1>4, <1>5 DEF t

\* The places of t in s: t is s without some of its elements.
Places(p, t, s) ==
  /\ p \in [1..Len(t) -> 1..Len(s)]
  /\ \A i, j \in 1..Len(t) : i < j => p[i] < p[j]

\* What is picked out of a sequence of numbers adds up to no more than all of it.
LEMMA TotalWithin ==
  ASSUME NEW s \in Seq(Nat), NEW t \in Seq(Nat), NEW p, Places(p, t, s),
         \A i \in 1..Len(t) : t[i] <= s[p[i]]
  PROVE  Total(t) <= Total(s)
<1>1. PICK f \in [0..Len(s) -> Nat] : Sums(f, s) /\ Total(s) = f[Len(s)]
  BY PartialSums
<1>2. PICK g \in [0..Len(t) -> Nat] : Sums(g, t) /\ Total(t) = g[Len(t)]
  BY PartialSums
<1> DEFINE at(n) == IF n = 0 THEN 0 ELSE p[n]
           T == {n \in Nat : n <= Len(t) => g[n] <= f[at(n)]}
<1>3. 0 \in T
  BY <1>1, <1>2 DEF Sums
<1>4. \A n \in Nat : n \in T => n + 1 \in T
  <2> TAKE n \in Nat
  <2> HAVE n \in T
  <2>1. SUFFICES ASSUME n + 1 <= Len(t) PROVE g[n + 1] <= f[p[n + 1]]
    OBVIOUS
  <2>2. n + 1 \in 1..Len(t) /\ (n + 1) - 1 = n /\ n \in 0..Len(t)
    BY <2>1
  <2>3. p[n + 1] \in 1..Len(s) /\ at(n) \in 0..Len(s) /\ at(n) < p[n + 1]
    <3>1. p[n + 1] \in 1..Len(s) /\ Len(s) \in Nat
      <4>1. p \in [1..Len(t) -> 1..Len(s)]
        BY DEF Places
      <4> QED
        BY <2>2, <4>1
    <3>2. CASE n = 0
      BY <3>1, <3>2
    <3>3. CASE n # 0
      <4>1. n \in 1..Len(t) /\ n < n + 1
        BY <2>2, <3>3
      <4>2. p[n] \in 1..Len(s) /\ p[n] < p[n + 1]
        BY <2>2, <4>1 DEF Places
      <4> QED
        BY <3>1, <3>3, <4>2
    <3> QED
      BY <3>2, <3>3
  <2> DEFINE k == at(n)
             m == p[n + 1]
  <2>4. g[n] <= f[k] /\ g[n + 1] = g[n] + t[n + 1] /\ t[n + 1] <= s[m]
    BY <1>2, <2>1, <2>2 DEF Sums
  <2> HIDE DEF k, m
  <2>5. k \in 0..Len(s) /\ m \in 1..Len(s) /\ k < m
    BY <2>3 DEF k, m
  <2>6. m - 1 \in 0..Len(s) /\ m - 1 \in k..Len(s) /\ Len(s) \in Nat
    BY <2>5
  <2>7. f[m] = f[m - 1] + s[m]
    BY <1>1, <2>5 DEF Sums
  <2>8. f[k] <= f[m - 1]
    BY <1>1, <2>5, <2>6, SumsGrow
  <2>9. g[n] \in Nat /\ f[k] \in Nat /\ f[m - 1] \in Nat /\ t[n + 1] \in Nat /\ s[m] \in Nat
    <3>1. n + 1 \in 1..Len(t) /\ m \in 1..Len(s)
      BY <2>2, <2>5
    <3>2. t[n + 1] \in Nat /\ s[m] \in Nat
      BY <3>1
    <3> QED
      BY <1>1, <1>2, <2>2, <2>5, <2>6, <3>2
  <2>10. g[n + 1] <= f[m]
    <3>1. \A a, b, c, d, e \in Nat : a <= b /\ b <= c /\ d <= e => a + d <= c + e
      OBVIOUS
    <3>2. g[n] + t[n + 1] <= f[m - 1] + s[m]
      BY <2>4, <2>8, <2>9, <3>1, Zenon
    <3> QED
      BY <2>4, <2>7, <3>2, Zenon
  <2> QED
    BY <2>10 DEF m
<1>5. g[Len(t)] <= f[at(Len(t))]
  <2>1. Nat \subseteq T
    <3> HIDE DEF T
    <3> QED
      BY <1>3, <1>4, SetInduction
  <2> QED
    BY <2>1
<1>6. at(Len(t)) \in 0..Len(s) /\ Len(s) \in at(Len(t))..Len(s)
      /\ Len(t) \in 0..Len(t) /\ Len(s) \in 0..Len(s)
  <2>1. Len(t) \in Nat /\ Len(s) \in Nat
    OBVIOUS
  <2>2. Len(t) # 0 => p[Len(t)] \in 1..Len(s)
    <3>1. Len(t) # 0 => Len(t) \in 1..Len(t)
      BY <2>1
    <3> QED
      BY <3>1 DEF Places
  <2> QED
    BY <2>1, <2>2
<1> HIDE DEF at
<1>7. f[at(Len(t))] <= f[Len(s)]
  BY <1>1, <1>6, SumsGrow
<1>8. g[Len(t)] \in Nat /\ f[at(Len(t))] \in Nat /\ f[Len(s)] \in Nat
  BY <1>1, <1>2, <1>6
<1> QED
  BY <1>1, <1>2, <1>5, <1>7, <1>8

-----------------------------------------------------------------------------
(* Strict total orders on a finite set, and the ranks they give.           *)

StrictOrder(S, R) ==
  /\ \A c \in S : <<c, c>> \notin R
  /\ \A c, d \in S : c # d => <<c, d>> \in R \/ <<d, c>> \in R
  /\ \A c, d, e \in S : <<c, d>> \in R /\ <<d, e>> \in R => <<c, e>> \in R

Below(S, R, c) == {d \in S \ {c} : <<d, c>> \in R}

\* Ranks are below the size of the set, and no two elements share one.
LEMMA RankInjective ==
  ASSUME NEW S, IsFiniteSet(S), NEW R, StrictOrder(S, R)
  PROVE  [c \in S |-> Cardinality(Below(S, R, c))] \in Injection(S, 0..Cardinality(S) - 1)
<1> DEFINE rank == [c \in S |-> Cardinality(Below(S, R, c))]
<1>1. Cardinality(S) \in Nat
  BY FS_CardinalityType
<1>2. ASSUME NEW c \in S
      PROVE  /\ IsFiniteSet(Below(S, R, c)) /\ Cardinality(Below(S, R, c)) \in Nat
             /\ Cardinality(Below(S, R, c)) <= Cardinality(S) - 1
  <2>1. IsFiniteSet(S \ {c}) /\ Cardinality(S \ {c}) = Cardinality(S) - 1
    BY FS_RemoveElement
  <2>2. Below(S, R, c) \in SUBSET (S \ {c})
    BY DEF Below
  <2>3. IsFiniteSet(Below(S, R, c)) /\ Cardinality(Below(S, R, c)) <= Cardinality(S \ {c})
    BY <2>1, <2>2, FS_Subset
  <2> QED
    BY <2>1, <2>3, FS_CardinalityType
<1>3. rank \in [S -> 0..Cardinality(S) - 1]
  BY <1>1, <1>2
<1>4. ASSUME NEW c \in S, NEW d \in S, <<c, d>> \in R
      PROVE  rank[c] # rank[d]
  <2>1. Below(S, R, c) \in SUBSET Below(S, R, d)
    BY <1>4 DEF StrictOrder, Below
  <2>2. c \in Below(S, R, d) /\ c \notin Below(S, R, c)
    BY <1>4 DEF StrictOrder, Below
  <2>3. Cardinality(Below(S, R, c)) # Cardinality(Below(S, R, d))
    BY <1>2, <2>1, <2>2, FS_Subset
  <2> QED
    BY <2>3
<1>5. \A c, d \in S : rank[c] = rank[d] => c = d
  <2> HIDE DEF rank
  <2> QED
    BY <1>4 DEF StrictOrder
<1> HIDE DEF rank
<1>6. rank \in Injection(S, 0..Cardinality(S) - 1)
  BY <1>3, <1>5 DEF Injection, IsInjective
<1> QED
  BY <1>6 DEF rank

\* Every rank is taken.
LEMMA RankTaken ==
  ASSUME NEW S, IsFiniteSet(S), NEW R, StrictOrder(S, R), NEW i \in 1..Cardinality(S)
  PROVE  \E c \in S : Cardinality(Below(S, R, c)) = i - 1
<1> DEFINE rank == [c \in S |-> Cardinality(Below(S, R, c))]
           n == Cardinality(S)
<1>1. n \in Nat
  BY FS_CardinalityType
<1>2. rank \in Injection(S, 0..n - 1)
  BY RankInjective
<1>3. IsFiniteSet(0..n - 1) /\ Cardinality(0..n - 1) = n
  <2>1. 0 \in Int /\ n - 1 \in Int
    BY <1>1
  <2>2. IsFiniteSet(0..n - 1) /\ Cardinality(0..n - 1) = IF 0 > n - 1 THEN 0 ELSE n - 1 - 0 + 1
    BY <2>1, FS_Interval
  <2> QED
    BY <1>1, <2>2
<1>4. rank \in Surjection(S, 0..n - 1)
  <2> HIDE DEF rank
  <2> QED
    BY <1>2, <1>3, FS_Injection
<1>5. \A k \in 0..n - 1 : \E c \in S : rank[c] = k
  BY <1>4 DEF Surjection
<1>6. i - 1 \in 0..n - 1
  BY <1>1
<1> QED
  BY <1>5, <1>6

\* There is a first element.
LEMMA First ==
  ASSUME NEW S, IsFiniteSet(S), NEW R, StrictOrder(S, R), S # {}
  PROVE  \E c \in S : \A d \in S \ {c} : <<c, d>> \in R
<1>1. Cardinality(S) \in Nat /\ Cardinality(S) # 0
  BY FS_CardinalityType, FS_EmptySet
<1>2. 1 \in 1..Cardinality(S)
  BY <1>1
<1>3. PICK c \in S : Cardinality(Below(S, R, c)) = 1 - 1
  BY <1>2, RankTaken
<1>4. Below(S, R, c) = {}
  <2>1. Below(S, R, c) \in SUBSET S
    BY DEF Below
  <2>2. IsFiniteSet(Below(S, R, c))
    BY <2>1, FS_Subset
  <2> QED
    BY <1>3, <2>2, FS_EmptySet
<1> QED
  BY <1>4 DEF StrictOrder, Below

-----------------------------------------------------------------------------
(* The rankings of the candidates of a batch.                              *)

Ranking(S)   == {p \in S \X S : Before(p[1], p[2])}
Selecting(S) == {p \in S \X S : SelectedBefore(S, p[1], p[2])}

LEMMA RankingOrder ==
  ASSUME NEW B, IsBatch(B), NEW S \in SUBSET B
  PROVE  StrictOrder(S, Ranking(S))
<1>1. \A c \in B : c.priority \in Int /\ Digest[c.candidate_id] \in Int
  BY DEF IsBatch
<1>2. \A c, d \in B : c # d => Digest[c.candidate_id] # Digest[d.candidate_id]
  BY DEF IsBatch
<1>3. \A c, d \in S : <<c, d>> \in Ranking(S) <=> Before(c, d)
  BY DEF Ranking
<1>4. \A c \in S : ~Before(c, c)
  BY <1>1 DEF Before
<1>5. \A c, d \in S : c # d => Before(c, d) \/ Before(d, c)
  BY <1>1, <1>2 DEF Before
<1>6. \A c, d, e \in S : Before(c, d) /\ Before(d, e) => Before(c, e)
  BY <1>1 DEF Before
<1> QED
  BY <1>3, <1>4, <1>5, <1>6 DEF StrictOrder

LEMMA SelectingOrder ==
  ASSUME NEW B, IsBatch(B), NEW S \in SUBSET B
  PROVE  StrictOrder(S, Selecting(S))
<1>1. StrictOrder(S, Ranking(S))
  BY RankingOrder
<1>2. \A c, d \in S : <<c, d>> \in Ranking(S) <=> Before(c, d)
  BY DEF Ranking
<1>3. \A c, d \in S : <<c, d>> \in Selecting(S) <=> SelectedBefore(S, c, d)
  BY DEF Selecting
<1>4. \A c \in S : ~Before(c, c)
  BY <1>1, <1>2 DEF StrictOrder
<1>5. \A c, d \in S : c # d => Before(c, d) \/ Before(d, c)
  BY <1>1, <1>2 DEF StrictOrder
<1>6. \A c, d, e \in S : Before(c, d) /\ Before(d, e) => Before(c, e)
  BY <1>1, <1>2 DEF StrictOrder
<1>7. \A c \in S : Leads(S, c) \in BOOLEAN
  BY DEF Leads
<1>8. \A c \in S : ~SelectedBefore(S, c, c)
  BY <1>4 DEF SelectedBefore
<1>9. \A c, d \in S : c # d => SelectedBefore(S, c, d) \/ SelectedBefore(S, d, c)
  BY <1>5, <1>7, Zenon DEF SelectedBefore
<1>10. \A c, d, e \in S :
         SelectedBefore(S, c, d) /\ SelectedBefore(S, d, e) => SelectedBefore(S, c, e)
  BY <1>6, <1>7, Zenon DEF SelectedBefore
<1> QED
  BY <1>3, <1>8, <1>9, <1>10 DEF StrictOrder

\* One candidate of each state stands for it, and it is the best of them.
LEMMA WinnerOf ==
  ASSUME NEW B, IsBatch(B), NEW S \in SUBSET B, NEW c \in S
  PROVE  /\ Winner(S, c) \in Twins(S, c)
         /\ \A e \in Twins(S, c) \ {Winner(S, c)} : Before(Winner(S, c), e)
<1> DEFINE T == Twins(S, c)
<1>1. T \in SUBSET B /\ c \in T
  BY DEF Twins
<1>2. IsFiniteSet(T)
  BY <1>1, FS_Subset DEF IsBatch
<1> HIDE DEF T
<1>3. StrictOrder(T, Ranking(T))
  BY <1>1, RankingOrder
<1>4. PICK d \in T : \A e \in T \ {d} : <<d, e>> \in Ranking(T)
  BY <1>1, <1>2, <1>3, First
<1>5. \A e \in T \ {d} : Before(d, e)
  BY <1>4 DEF Ranking
<1> QED
  BY <1>5 DEF Winner, T

\* The selection order runs through the set.
LEMMA SelectionOrderOf ==
  ASSUME NEW B, IsBatch(B), NEW S \in SUBSET B
  PROVE  /\ Cardinality(S) \in Nat
         /\ SelectionOrder(S) \in [1..Cardinality(S) -> S]
         /\ \A i \in 1..Cardinality(S) :
              Cardinality(Below(S, Selecting(S), SelectionOrder(S)[i])) = i - 1
<1>1. IsFiniteSet(S)
  BY FS_Subset DEF IsBatch
<1>2. \A c \in S : Below(S, Selecting(S), c) = {d \in S \ {c} : SelectedBefore(S, d, c)}
  BY DEF Below, Selecting
<1>3. ASSUME NEW i \in 1..Cardinality(S)
      PROVE  /\ SelectionOrder(S)[i] \in S
             /\ Cardinality(Below(S, Selecting(S), SelectionOrder(S)[i])) = i - 1
  <2>1. PICK c \in S : Cardinality(Below(S, Selecting(S), c)) = i - 1
    BY <1>1, RankTaken, SelectingOrder
  <2>2. Cardinality({d \in S \ {c} : SelectedBefore(S, d, c)}) = i - 1
    BY <1>2, <2>1
  <2>3. SelectionOrder(S)[i] =
          CHOOSE x \in S : Cardinality({d \in S \ {x} : SelectedBefore(S, d, x)}) = i - 1
    BY DEF SelectionOrder
  <2> DEFINE x == SelectionOrder(S)[i]
  <2>4. x \in S /\ Cardinality({d \in S \ {x} : SelectedBefore(S, d, x)}) = i - 1
    BY <2>2, <2>3
  <2> QED
    BY <1>2, <2>4
<1>4. SelectionOrder(S) \in [1..Cardinality(S) -> S]
  BY <1>3 DEF SelectionOrder
<1> QED
  BY <1>1, <1>3, <1>4, FS_CardinalityType
-----------------------------------------------------------------------------
(* The ledger.                                                             *)

Chargeable(C) ==
  \A c \in C : c.tier \in DOMAIN NextTier /\ c.promotion_cost \in [Resources -> Nat]

Costs(ledger, r) == [i \in DOMAIN ledger |-> ledger[i].cost[r]]

Marks(ledger, tier) == [i \in DOMAIN ledger |-> IF ledger[i].target_tier = tier THEN 1 ELSE 0]

LEMMA ReservationType ==
  ASSUME NEW C, Chargeable(C), NEW c \in C, NEW n \in Nat
  PROVE  /\ Reservation(c, n) \in BudgetReservation(C)
         /\ NextTier[c.tier] \in Tiers
<1>1. NextTier[c.tier] \in Tiers
  <2>1. c.tier \in {"GHOST", "REPLAY", "SIMULATED"}
    BY DEF Chargeable, NextTier
  <2> QED
    BY <2>1 DEF NextTier, Tiers
<1> QED
  BY <1>1 DEF Reservation, BudgetReservation

LEMMA LedgerNumbers ==
  ASSUME NEW C, Chargeable(C), NEW l \in Seq(BudgetReservation(C))
  PROVE  /\ \A r \in Resources : Costs(l, r) \in Seq(Nat) /\ Len(Costs(l, r)) = Len(l)
         /\ \A t \in Tiers : Marks(l, t) \in Seq(Nat) /\ Len(Marks(l, t)) = Len(l)
<1>1. DOMAIN l = 1..Len(l) /\ Len(l) \in Nat
  OBVIOUS
<1>2. \A i \in 1..Len(l) : l[i] \in BudgetReservation(C)
  OBVIOUS
<1>3. \A i \in 1..Len(l) : l[i].cost \in [Resources -> Nat]
  <2> TAKE i \in 1..Len(l)
  <2>1. l[i].cost \in {c.promotion_cost : c \in C}
    BY <1>2 DEF BudgetReservation
  <2> QED
    BY <2>1 DEF Chargeable
<1>4. ASSUME NEW r \in Resources PROVE Costs(l, r) \in Seq(Nat) /\ Len(Costs(l, r)) = Len(l)
  BY <1>1, <1>3 DEF Costs
<1>5. ASSUME NEW t \in Tiers PROVE Marks(l, t) \in Seq(Nat) /\ Len(Marks(l, t)) = Len(l)
  BY <1>1 DEF Marks
<1> QED
  BY <1>4, <1>5

LEMMA LedgerTotals ==
  ASSUME NEW C, Chargeable(C), NEW l \in Seq(BudgetReservation(C))
  PROVE  /\ \A r \in Resources : Spent(l, r) = Total(Costs(l, r)) /\ Spent(l, r) \in Nat
         /\ \A t \in Tiers : Worlds(l, t) = Total(Marks(l, t)) /\ Worlds(l, t) \in Nat
<1>1. \A r : Spent(l, r) = Total(Costs(l, r))
  BY DEF Spent, Costs
<1>2. \A t : Worlds(l, t) = Total(Marks(l, t))
  BY DEF Worlds, Marks
<1> QED
  BY <1>1, <1>2, LedgerNumbers, TotalType

\* A ledger is valid when its entries, renumbered, are taken from a valid one.
LEMMA FewerFit ==
  ASSUME NEW C, Chargeable(C),
         NEW l \in Seq(BudgetReservation(C)), NEW m \in Seq(BudgetReservation(C)),
         LedgerValid(l), NEW p, Places(p, m, l),
         \A i \in 1..Len(m) : /\ m[i].sequence = i
                             /\ m[i].candidate_id = l[p[i]].candidate_id
                             /\ m[i].target_tier = l[p[i]].target_tier
                             /\ m[i].cost = l[p[i]].cost
  PROVE  LedgerValid(m)
<1>1. DOMAIN m = 1..Len(m) /\ DOMAIN l = 1..Len(l) /\ Len(m) \in Nat /\ Len(l) \in Nat
  OBVIOUS
<1>2. p \in [1..Len(m) -> 1..Len(l)]
  BY DEF Places
<1>3. \A i, j \in 1..Len(m) : p[i] = p[j] => i = j
  <2> TAKE i, j \in 1..Len(m)
  <2>1. i \in Int /\ j \in Int /\ p[i] \in Int /\ p[j] \in Int
    BY <1>1, <1>2
  <2>2. (i < j => p[i] < p[j]) /\ (j < i => p[j] < p[i])
    BY DEF Places
  <2> QED
    BY <2>1, <2>2
<1>4. ASSUME NEW i \in DOMAIN m, NEW j \in DOMAIN m,
             m[i].candidate_id = m[j].candidate_id, m[i].target_tier = m[j].target_tier
      PROVE  i = j
  <2>1. p[i] \in DOMAIN l /\ p[j] \in DOMAIN l
    BY <1>1, <1>2
  <2>2. p[i] = p[j]
    BY <1>1, <1>4, <2>1 DEF LedgerValid
  <2> QED
    BY <1>1, <1>3, <2>2
<1>5. ASSUME NEW r \in Resources PROVE Spent(m, r) <= Limits.resources[r]
  <2>1. /\ Costs(l, r) \in Seq(Nat) /\ Len(Costs(l, r)) = Len(l)
        /\ Costs(m, r) \in Seq(Nat) /\ Len(Costs(m, r)) = Len(m)
    BY LedgerNumbers
  <2>2. Places(p, Costs(m, r), Costs(l, r))
    BY <2>1 DEF Places
  <2>3. \A i \in 1..Len(m) : Costs(m, r)[i] = Costs(l, r)[p[i]]
    BY <1>1, <1>2 DEF Costs
  <2>4. \A i \in 1..Len(m) : Costs(m, r)[i] \in Nat
    BY <2>1
  <2>5. \A i \in 1..Len(Costs(m, r)) : Costs(m, r)[i] <= Costs(l, r)[p[i]]
    BY <2>1, <2>3, <2>4
  <2>6. Total(Costs(m, r)) <= Total(Costs(l, r))
    BY <2>1, <2>2, <2>5, TotalWithin
  <2>7. Spent(l, r) <= Limits.resources[r]
    BY DEF LedgerValid
  <2>8. Spent(m, r) <= Spent(l, r) /\ Spent(m, r) \in Nat /\ Spent(l, r) \in Nat
    BY <2>6, LedgerTotals
  <2>9. Limits.resources[r] \in Nat
    BY LimitsAssumption
  <2> QED
    BY <2>7, <2>8, <2>9
<1>6. ASSUME NEW t \in Tiers PROVE Worlds(m, t) <= Limits.worlds[t]
  <2>1. /\ Marks(l, t) \in Seq(Nat) /\ Len(Marks(l, t)) = Len(l)
        /\ Marks(m, t) \in Seq(Nat) /\ Len(Marks(m, t)) = Len(m)
    BY LedgerNumbers
  <2>2. Places(p, Marks(m, t), Marks(l, t))
    BY <2>1 DEF Places
  <2>3. \A i \in 1..Len(m) : Marks(m, t)[i] = Marks(l, t)[p[i]]
    BY <1>1, <1>2 DEF Marks
  <2>4. \A i \in 1..Len(m) : Marks(m, t)[i] \in Nat
    BY <2>1
  <2>5. \A i \in 1..Len(Marks(m, t)) : Marks(m, t)[i] <= Marks(l, t)[p[i]]
    BY <2>1, <2>3, <2>4
  <2>6. Total(Marks(m, t)) <= Total(Marks(l, t))
    BY <2>1, <2>2, <2>5, TotalWithin
  <2>7. Worlds(l, t) <= Limits.worlds[t]
    BY DEF LedgerValid
  <2>8. Worlds(m, t) <= Worlds(l, t) /\ Worlds(m, t) \in Nat /\ Worlds(l, t) \in Nat
    BY <2>6, LedgerTotals
  <2>9. Limits.worlds[t] \in Nat
    BY LimitsAssumption
  <2> QED
    BY <2>7, <2>8, <2>9
<1> QED
  BY <1>1, <1>4, <1>5, <1>6 DEF LedgerValid

\* What one more reservation costs.
LEMMA ReserveTotals ==
  ASSUME NEW C, Chargeable(C), NEW l \in Seq(BudgetReservation(C)), NEW c \in C
  PROVE  /\ Reserve(l, c) \in Seq(BudgetReservation(C))
         /\ \A r \in Resources : Spent(Reserve(l, c), r) = Spent(l, r) + c.promotion_cost[r]
         /\ \A t \in Tiers : Worlds(Reserve(l, c), t) =
                               Worlds(l, t) + (IF t = NextTier[c.tier] THEN 1 ELSE 0)
<1> DEFINE new == Reservation(c, Len(l) + 1)
           m == Append(l, new)
<1>1. Len(l) \in Nat /\ Len(l) + 1 \in Nat
  OBVIOUS
<1>2. new \in BudgetReservation(C)
  BY <1>1, ReservationType
<1>3. new.cost = c.promotion_cost /\ new.target_tier = NextTier[c.tier]
  BY DEF Reservation
<1> HIDE DEF new
<1>4. /\ m \in Seq(BudgetReservation(C)) /\ DOMAIN m = 1..Len(l) + 1 /\ m[Len(l) + 1] = new
      /\ DOMAIN l = 1..Len(l) /\ Len(m) = Len(l) + 1 /\ \A i \in 1..Len(l) : m[i] = l[i]
  BY <1>2
<1> HIDE DEF m
<1>5. ASSUME NEW r \in Resources PROVE Spent(m, r) = Spent(l, r) + c.promotion_cost[r]
  <2>1. /\ Costs(l, r) \in Seq(Nat) /\ Costs(m, r) \in Seq(Nat)
        /\ Len(Costs(l, r)) = Len(l) /\ Len(Costs(m, r)) = Len(l) + 1
    BY <1>4, LedgerNumbers
  <2>2. c.promotion_cost[r] \in Nat
    BY DEF Chargeable
  <2>3. \A i \in 1..Len(l) : Costs(m, r)[i] = Costs(l, r)[i]
    BY <1>1, <1>4 DEF Costs
  <2>4. Costs(m, r)[Len(l) + 1] = c.promotion_cost[r]
    BY <1>1, <1>3, <1>4 DEF Costs
  <2>5. Costs(m, r) = Append(Costs(l, r), c.promotion_cost[r])
    BY <1>1, <2>1, <2>2, <2>3, <2>4
  <2>6. Total(Costs(m, r)) = Total(Costs(l, r)) + c.promotion_cost[r]
    BY <2>1, <2>2, <2>5, TotalAppend
  <2> QED
    BY <1>4, <2>6, LedgerTotals
<1>6. ASSUME NEW t \in Tiers
      PROVE  Worlds(m, t) = Worlds(l, t) + (IF t = NextTier[c.tier] THEN 1 ELSE 0)
  <2> DEFINE x == IF t = NextTier[c.tier] THEN 1 ELSE 0
  <2>1. /\ Marks(l, t) \in Seq(Nat) /\ Marks(m, t) \in Seq(Nat)
        /\ Len(Marks(l, t)) = Len(l) /\ Len(Marks(m, t)) = Len(l) + 1
    BY <1>4, LedgerNumbers
  <2>2. x \in Nat
    OBVIOUS
  <2>3. \A i \in 1..Len(l) : Marks(m, t)[i] = Marks(l, t)[i]
    BY <1>1, <1>4 DEF Marks
  <2>4. Marks(m, t)[Len(l) + 1] = x
    BY <1>1, <1>3, <1>4 DEF Marks
  <2> HIDE DEF x
  <2>5. Marks(m, t) = Append(Marks(l, t), x)
    BY <1>1, <2>1, <2>2, <2>3, <2>4
  <2>6. Total(Marks(m, t)) = Total(Marks(l, t)) + x
    BY <2>1, <2>2, <2>5, TotalAppend
  <2> QED
    BY <1>4, <2>6, LedgerTotals DEF x
<1> QED
  BY <1>4, <1>5, <1>6 DEF Reserve, m, new

\* A valid ledger takes one more reservation exactly when it stays valid.
LEMMA ReserveValid ==
  ASSUME NEW C, Chargeable(C), NEW l \in Seq(BudgetReservation(C)), NEW c \in C,
         LedgerValid(l)
  PROVE  CanReserve(l, c) <=> LedgerValid(Reserve(l, c))
<1> DEFINE tier == NextTier[c.tier]
           m == Reserve(l, c)
<1>1. Len(l) \in Nat /\ DOMAIN l = 1..Len(l) /\ Chargeable(C)
  OBVIOUS
<1>2. tier \in Tiers
  BY <1>1, ReservationType
<1>3. /\ m \in Seq(BudgetReservation(C)) /\ DOMAIN m = 1..Len(l) + 1
      /\ m[Len(l) + 1] = Reservation(c, Len(l) + 1) /\ \A i \in 1..Len(l) : m[i] = l[i]
  BY ReserveTotals, ReservationType DEF Reserve
<1>4. /\ m[Len(l) + 1].candidate_id = c.candidate_id /\ m[Len(l) + 1].target_tier = tier
      /\ m[Len(l) + 1].sequence = Len(l) + 1
  BY <1>3 DEF Reservation
<1>5. /\ \A r \in Resources : Spent(m, r) = Spent(l, r) + c.promotion_cost[r]
      /\ \A t \in Tiers : Worlds(m, t) = Worlds(l, t) + (IF t = tier THEN 1 ELSE 0)
  BY ReserveTotals
<1> HIDE DEF m, tier
<1>6. Fits(l, tier, c.promotion_cost) <=>
        /\ \A r \in Resources : Spent(m, r) <= Limits.resources[r]
        /\ \A t \in Tiers : Worlds(m, t) <= Limits.worlds[t]
  BY <1>5 DEF Fits
<1>7. \A i \in DOMAIN m : i \in DOMAIN l \/ i = Len(l) + 1
  BY <1>1, <1>3
<1>8. \A i \in DOMAIN l : i \in DOMAIN m /\ i # Len(l) + 1 /\ m[i] = l[i]
  BY <1>1, <1>3
<1>9. Len(l) + 1 \in DOMAIN m
  BY <1>1, <1>3
<1>10. \A i \in DOMAIN m : m[i].sequence = i
  BY <1>4, <1>7, <1>8 DEF LedgerValid
<1>11. ~Reserved(l, c.candidate_id, tier) <=>
         \A i, j \in DOMAIN m :
           /\ m[i].candidate_id = m[j].candidate_id
           /\ m[i].target_tier = m[j].target_tier
           => i = j
  <2>1. ASSUME ~Reserved(l, c.candidate_id, tier), NEW i \in DOMAIN m, NEW j \in DOMAIN m,
               m[i].candidate_id = m[j].candidate_id, m[i].target_tier = m[j].target_tier
        PROVE  i = j
    <3>1. \A k \in DOMAIN l : ~(l[k].candidate_id = c.candidate_id /\ l[k].target_tier = tier)
      BY <2>1 DEF Reserved
    <3>2. CASE i \in DOMAIN l /\ j \in DOMAIN l
      BY <1>8, <2>1, <3>2 DEF LedgerValid
    <3>3. CASE i = Len(l) + 1 /\ j \in DOMAIN l
      BY <1>4, <1>8, <2>1, <3>1, <3>3
    <3>4. CASE i \in DOMAIN l /\ j = Len(l) + 1
      BY <1>4, <1>8, <2>1, <3>1, <3>4
    <3> QED
      BY <1>7, <3>2, <3>3, <3>4
  <2>2. ASSUME Reserved(l, c.candidate_id, tier)
        PROVE  \E i, j \in DOMAIN m :
                 /\ m[i].candidate_id = m[j].candidate_id
                 /\ m[i].target_tier = m[j].target_tier
                 /\ i # j
    BY <1>4, <1>8, <1>9, <2>2 DEF Reserved
  <2> QED
    BY <2>1, <2>2
<1>12. CanReserve(l, c) <=>
         ~Reserved(l, c.candidate_id, tier) /\ Fits(l, tier, c.promotion_cost)
  BY DEF CanReserve, tier
<1>13. LedgerValid(m) <=>
         /\ ~Reserved(l, c.candidate_id, tier)
         /\ Fits(l, tier, c.promotion_cost)
  <2> HIDE <1>4, <1>5, <1>7, <1>8
  <2> QED
    BY <1>6, <1>10, <1>11 DEF LedgerValid
<1> QED
  BY <1>12, <1>13 DEF m
-----------------------------------------------------------------------------
(* The beam.                                                               *)

BeamRun(f, start, order) ==
  /\ f[0] = start
  /\ \A n \in 1..Len(order) : f[n] = Consider(f[n - 1], order[n])
  /\ Beam(start, order) = f[Len(order)]

\* The beam is what the last of its steps leaves.
LEMMA BeamSteps ==
  ASSUME NEW X, NEW S, NEW start \in X, NEW order \in Seq(S),
         \A b \in X, c \in S : Consider(b, c) \in X
  PROVE  \E f \in [0..Len(order) -> X] : BeamRun(f, start, order)
<1> DEFINE N == Len(order)
           Step(f) == [n \in 0..N |-> IF n = 0 THEN start ELSE After(f[n - 1], order[n])]
           beam == CHOOSE f : f = Step(f)
           G == [p \in X \X (1..N) |-> Consider(p[1], order[p[2]])]
<1>1. N \in Nat /\ \A n \in 1..N : order[n] \in S
  OBVIOUS
<1>2. \A b, c : After(b, c) = Consider(b, c)
  BY DEF After
<1>3. G \in [X \X (1..N) -> X]
  <2> HIDE DEF N
  <2>1. \A x \in X, n \in 1..N : Consider(x, order[n]) \in X
    BY <1>1
  <2> QED
    BY <2>1
<1>4. PICK f \in [0..N -> X] : Solves(f, start, N, G)
  <2> HIDE DEF G, N
  <2> QED
    BY <1>1, <1>3, Recursion
<1>5. \A n \in 1..N : n - 1 \in 0..N /\ f[n - 1] \in X
  <2> HIDE DEF N
  <2> QED
    BY <1>1
<1>6. \A n \in 1..N : G[<<f[n - 1], n>>] = After(f[n - 1], order[n])
  <2> HIDE DEF N
  <2> QED
    BY <1>2, <1>5
<1>7. f = Step(f)
  <2>1. \A n \in 0..N : f[n] = IF n = 0 THEN start ELSE After(f[n - 1], order[n])
    <3> HIDE DEF G, N
    <3>1. \A n \in 0..N : n = 0 \/ n \in 1..N
      BY <1>1
    <3>2. \A n \in 1..N : n # 0
      BY <1>1
    <3>3. f[0] = start /\ \A n \in 1..N : f[n] = After(f[n - 1], order[n])
      BY <1>4, <1>6 DEF Solves
    <3> QED
      BY <3>1, <3>2, <3>3
  <2> HIDE DEF N
  <2> QED
    BY <2>1
<1>8. beam = Step(beam)
  <2> HIDE DEF Step
  <2> QED
    BY <1>7
<1>9. /\ DOMAIN beam = 0..N /\ beam[0] = start
      /\ \A n \in 1..N : beam[n] = Consider(beam[n - 1], order[n])
  <2> HIDE DEF beam, N
  <2>1. \A n \in 0..N : beam[n] = IF n = 0 THEN start ELSE After(beam[n - 1], order[n])
    BY <1>8
  <2>2. DOMAIN beam = 0..N
    BY <1>8
  <2>3. \A n \in 1..N : n \in 0..N /\ n # 0
    BY <1>1
  <2>4. 0 \in 0..N
    BY <1>1
  <2> QED
    BY <1>2, <2>1, <2>2, <2>3, <2>4
<1>10. \A n \in 0..N : beam[n] \in X
  <2> HIDE DEF beam, N
  <2>1. \A n \in 1..N : beam[n - 1] \in X => beam[n] \in X
    BY <1>1, <1>9
  <2>2. beam[0] \in X
    BY <1>9
  <2> QED
    BY <1>1, <2>1, <2>2, StaysIn
<1>11. beam \in [0..N -> X]
  <2> HIDE DEF beam, N
  <2>1. beam = [n \in 0..N |-> beam[n]]
    BY <1>8
  <2> HIDE DEF Step
  <2> QED
    BY <1>10, <2>1
<1>12. Beam(start, order) = beam[N]
  BY DEF Beam
<1> HIDE DEF beam
<1> QED
  BY <1>9, <1>11, <1>12 DEF BeamRun

Decided == {{"BEAM_CAPACITY"}, {"ALREADY_PROMOTED"}, {"BUDGET_EXCEEDED"}, {"PROMOTED"}}

Outcomes(B) == Decided \cup {Gated(B)[c] : c \in B}

BeamState(C, B) ==
  [ledger : Seq(BudgetReservation(C)), promoted : Nat, reasons : [B -> Outcomes(B)]]

\* The consideration of one candidate: its verdict, and what that does to the beam.
TurnedAway(b, c, next) ==
  LET tier == NextTier[c.tier] IN
    /\ next.ledger = b.ledger /\ next.promoted = b.promoted
    /\ \/ b.promoted >= Width[tier] /\ next.reasons[c] = {"BEAM_CAPACITY"}
       \/ /\ Reserved(b.ledger, c.candidate_id, tier)
          /\ next.reasons[c] = {"ALREADY_PROMOTED"}
       \/ /\ ~Reserved(b.ledger, c.candidate_id, tier) /\ ~CanReserve(b.ledger, c)
          /\ next.reasons[c] = {"BUDGET_EXCEEDED"}

TakenOn(b, c, next) ==
  /\ ~(b.promoted >= Width[NextTier[c.tier]]) /\ CanReserve(b.ledger, c)
  /\ next.reasons[c] = {"PROMOTED"}
  /\ next.ledger = Reserve(b.ledger, c) /\ next.promoted = b.promoted + 1

LEMMA ConsiderOne ==
  ASSUME NEW C, Chargeable(C), NEW B \in SUBSET C, NEW b \in BeamState(C, B), NEW c \in B
  PROVE  /\ Consider(b, c) \in BeamState(C, B)
         /\ \A d \in B \ {c} : Consider(b, c).reasons[d] = b.reasons[d]
         /\ TurnedAway(b, c, Consider(b, c)) \/ TakenOn(b, c, Consider(b, c))
<1> DEFINE tier == NextTier[c.tier]
           decided(reason) == [b EXCEPT !.reasons[c] = {reason}]
           charged == [decided("PROMOTED") EXCEPT !.promoted = @ + 1, !.ledger = Reserve(@, c)]
<1>1. /\ b.ledger \in Seq(BudgetReservation(C)) /\ b.promoted \in Nat
      /\ b.reasons \in [B -> Outcomes(B)]
      /\ b = [ledger |-> b.ledger, promoted |-> b.promoted, reasons |-> b.reasons]
  BY DEF BeamState
<1>2. ASSUME NEW reason, {reason} \in Outcomes(B)
      PROVE  /\ decided(reason) \in BeamState(C, B)
             /\ decided(reason).ledger = b.ledger /\ decided(reason).promoted = b.promoted
             /\ decided(reason).reasons[c] = {reason}
             /\ \A d \in B \ {c} : decided(reason).reasons[d] = b.reasons[d]
  <2> DEFINE marked == [b.reasons EXCEPT ![c] = {reason}]
  <2>1. marked \in [B -> Outcomes(B)] /\ marked[c] = {reason}
        /\ \A d \in B \ {c} : marked[d] = b.reasons[d]
    <3> DEFINE old == b.reasons
               S == Outcomes(B)
    <3>1. old \in [B -> S] /\ {reason} \in S
      BY <1>1, <1>2
    <3> HIDE DEF old, S
    <3>2. /\ [old EXCEPT ![c] = {reason}] \in [B -> S]
          /\ [old EXCEPT ![c] = {reason}][c] = {reason}
          /\ \A d \in B \ {c} : [old EXCEPT ![c] = {reason}][d] = old[d]
      BY <3>1
    <3> QED
      BY <3>2 DEF old, S
  <2>2. decided(reason) = [ledger |-> b.ledger, promoted |-> b.promoted, reasons |-> marked]
    <3>1. decided(reason) = [b EXCEPT !.reasons = marked]
      OBVIOUS
    <3> HIDE DEF marked, decided
    <3> QED
      BY <1>1, <3>1
  <2> HIDE DEF marked, decided
  <2> QED
    BY <1>1, <2>1, <2>2 DEF BeamState
<1>3. /\ charged \in BeamState(C, B)
      /\ charged.ledger = Reserve(b.ledger, c) /\ charged.promoted = b.promoted + 1
      /\ charged.reasons[c] = {"PROMOTED"}
      /\ \A d \in B \ {c} : charged.reasons[d] = b.reasons[d]
  <2>1. Reserve(b.ledger, c) \in Seq(BudgetReservation(C))
    BY <1>1, ReserveTotals
  <2> DEFINE x == decided("PROMOTED")
  <2>2. /\ x \in BeamState(C, B) /\ x.ledger = b.ledger /\ x.promoted = b.promoted
        /\ x.reasons[c] = {"PROMOTED"} /\ \A d \in B \ {c} : x.reasons[d] = b.reasons[d]
    <3> HIDE DEF decided
    <3>1. {"PROMOTED"} \in Outcomes(B)
      BY DEF Outcomes, Decided
    <3> QED
      BY <1>2, <3>1, Zenon
  <2> HIDE DEF x
  <2>3. charged = [x EXCEPT !.promoted = @ + 1, !.ledger = Reserve(@, c)]
    BY DEF x
  <2>4. charged = [ledger |-> Reserve(b.ledger, c), promoted |-> b.promoted + 1,
                   reasons |-> x.reasons]
    <3>1. x = [ledger |-> x.ledger, promoted |-> x.promoted, reasons |-> x.reasons]
      BY <2>2 DEF BeamState
    <3> HIDE DEF charged
    <3> QED
      BY <2>2, <2>3, <3>1
  <2>5. x.reasons \in [B -> Outcomes(B)]
    BY <2>2 DEF BeamState
  <2> HIDE DEF charged
  <2> QED
    BY <1>1, <2>1, <2>2, <2>4, <2>5 DEF BeamState
<1> DEFINE next == Consider(b, c)
<1>4. \/ b.promoted >= Width[tier] /\ next = decided("BEAM_CAPACITY")
      \/ /\ ~(b.promoted >= Width[tier]) /\ Reserved(b.ledger, c.candidate_id, tier)
         /\ next = decided("ALREADY_PROMOTED")
      \/ /\ ~(b.promoted >= Width[tier]) /\ ~Reserved(b.ledger, c.candidate_id, tier)
         /\ ~CanReserve(b.ledger, c) /\ next = decided("BUDGET_EXCEEDED")
      \/ /\ ~(b.promoted >= Width[tier]) /\ CanReserve(b.ledger, c) /\ next = charged
  <2> HIDE DEF decided
  <2> QED
    BY DEF Consider, decided
<1> HIDE DEF decided, charged
<1>5. /\ {"BEAM_CAPACITY"} \in Outcomes(B) /\ {"ALREADY_PROMOTED"} \in Outcomes(B)
      /\ {"BUDGET_EXCEEDED"} \in Outcomes(B)
  BY DEF Outcomes, Decided
<1> DEFINE Good(n) == n \in BeamState(C, B) /\ \A d \in B \ {c} : n.reasons[d] = b.reasons[d]
<1>6. CASE b.promoted >= Width[tier] /\ next = decided("BEAM_CAPACITY")
  <2>1. /\ Good(decided("BEAM_CAPACITY"))
        /\ decided("BEAM_CAPACITY").ledger = b.ledger
        /\ decided("BEAM_CAPACITY").promoted = b.promoted
        /\ decided("BEAM_CAPACITY").reasons[c] = {"BEAM_CAPACITY"}
    BY <1>2, <1>5
  <2> HIDE DEF next
  <2>2. Good(next) /\ TurnedAway(b, c, next)
    BY <1>6, <2>1 DEF TurnedAway
  <2> QED
    BY <2>2 DEF next
<1>7. CASE /\ ~(b.promoted >= Width[tier]) /\ Reserved(b.ledger, c.candidate_id, tier)
           /\ next = decided("ALREADY_PROMOTED")
  <2>1. /\ Good(decided("ALREADY_PROMOTED"))
        /\ decided("ALREADY_PROMOTED").ledger = b.ledger
        /\ decided("ALREADY_PROMOTED").promoted = b.promoted
        /\ decided("ALREADY_PROMOTED").reasons[c] = {"ALREADY_PROMOTED"}
    BY <1>2, <1>5
  <2> HIDE DEF next
  <2>2. Good(next) /\ TurnedAway(b, c, next)
    BY <1>7, <2>1 DEF TurnedAway
  <2> QED
    BY <2>2 DEF next
<1>8. CASE /\ ~(b.promoted >= Width[tier]) /\ ~Reserved(b.ledger, c.candidate_id, tier)
           /\ ~CanReserve(b.ledger, c) /\ next = decided("BUDGET_EXCEEDED")
  <2>1. /\ Good(decided("BUDGET_EXCEEDED"))
        /\ decided("BUDGET_EXCEEDED").ledger = b.ledger
        /\ decided("BUDGET_EXCEEDED").promoted = b.promoted
        /\ decided("BUDGET_EXCEEDED").reasons[c] = {"BUDGET_EXCEEDED"}
    BY <1>2, <1>5
  <2> HIDE DEF next
  <2>2. Good(next) /\ TurnedAway(b, c, next)
    BY <1>8, <2>1 DEF TurnedAway
  <2> QED
    BY <2>2 DEF next
<1>9. CASE ~(b.promoted >= Width[tier]) /\ CanReserve(b.ledger, c) /\ next = charged
  <2> HIDE DEF next
  <2>1. Good(next) /\ TakenOn(b, c, next)
    BY <1>3, <1>9 DEF TakenOn
  <2> QED
    BY <2>1 DEF next
<1> QED
  BY <1>4, <1>6, <1>7, <1>8, <1>9

\* A ledger extended by reservations of candidates of B, valid as a whole.
Grown(from, ledger, B) ==
  /\ Len(from) <= Len(ledger)
  /\ \A i \in 1..Len(from) : ledger[i] = from[i]
  /\ \A i \in Len(from)+1..Len(ledger) : \E c \in B : ledger[i] = Reservation(c, i)
  /\ LedgerValid(ledger)

LEMMA ReserveGrows ==
  ASSUME NEW C, Chargeable(C), NEW B \in SUBSET C, NEW from \in Seq(BudgetReservation(C)),
         NEW l \in Seq(BudgetReservation(C)), Grown(from, l, B), NEW c \in B, CanReserve(l, c)
  PROVE  Grown(from, Reserve(l, c), B)
<1> DEFINE m == Reserve(l, c)
<1>1. LedgerValid(m)
  BY ReserveValid DEF Grown
<1>2. /\ Len(from) \in Nat /\ Len(l) \in Nat /\ Len(m) = Len(l) + 1
      /\ m[Len(l) + 1] = Reservation(c, Len(l) + 1) /\ \A i \in 1..Len(l) : m[i] = l[i]
  BY ReservationType DEF Reserve
<1> HIDE DEF m
<1>3. Len(from) <= Len(m) /\ \A i \in 1..Len(from) : m[i] = from[i]
  BY <1>2 DEF Grown
<1>4. ASSUME NEW i \in Len(from)+1..Len(m) PROVE \E d \in B : m[i] = Reservation(d, i)
  <2>1. (i \in Len(from)+1..Len(l) /\ i \in 1..Len(l)) \/ i = Len(l) + 1
    BY <1>2
  <2> QED
    BY <1>2, <2>1 DEF Grown
<1> QED
  BY <1>1, <1>3, <1>4 DEF Grown, m
-----------------------------------------------------------------------------
(* The search.                                                             *)

Contenders(B) == Winners(Eligible(B))

Order(B) == SelectionOrder(Contenders(B))

LEMMA ContendersOf ==
  ASSUME NEW B, IsBatch(B)
  PROVE  Eligible(B) \in SUBSET B /\ Contenders(B) \in SUBSET Eligible(B)
<1>1. Eligible(B) \in SUBSET B
  BY DEF Eligible
<1>2. ASSUME NEW c \in Eligible(B) PROVE Winner(Eligible(B), c) \in Eligible(B)
  <2>1. Winner(Eligible(B), c) \in Twins(Eligible(B), c)
    BY <1>1, WinnerOf
  <2> QED
    BY <2>1 DEF Twins
<1> QED
  BY <1>1, <1>2 DEF Contenders, Winners

LEMMA OrderOf ==
  ASSUME NEW B, IsBatch(B)
  PROVE  /\ Order(B) \in Seq(Contenders(B)) /\ Len(Order(B)) = Cardinality(Contenders(B))
         /\ Order(B) \in Seq(B)
<1>1. Contenders(B) \in SUBSET B
  BY ContendersOf
<1>2. /\ Cardinality(Contenders(B)) \in Nat
      /\ Order(B) \in [1..Cardinality(Contenders(B)) -> Contenders(B)]
  BY <1>1, SelectionOrderOf DEF Order
<1>3. Order(B) \in [1..Cardinality(Contenders(B)) -> B]
  BY <1>1, <1>2
<1> QED
  BY <1>2, <1>3

\* A search is a run of its beam.
SearchRun(B, ledger, f) ==
  /\ f[0] = [ledger |-> ledger, promoted |-> 0, reasons |-> Gated(B)]
  /\ \A n \in 1..Len(Order(B)) : f[n] = Consider(f[n - 1], Order(B)[n])
  /\ Search(B, ledger) = [reasons |-> f[Len(Order(B))].reasons,
                          ledger |-> f[Len(Order(B))].ledger]

LEMMA SearchRuns ==
  ASSUME NEW C, Chargeable(C), NEW B \in SUBSET C, IsBatch(B),
         NEW l \in Seq(BudgetReservation(C))
  PROVE  \E f \in [0..Len(Order(B)) -> BeamState(C, B)] : SearchRun(B, l, f)
<1> DEFINE start == [ledger |-> l, promoted |-> 0, reasons |-> Gated(B)]
           X == BeamState(C, B)
           beam == Beam(start, Order(B))
<1>1. start \in X
  <2>1. Gated(B) \in [B -> Outcomes(B)]
    <3>1. \A c \in B : Gated(B)[c] \in Outcomes(B)
      BY DEF Outcomes
    <3>2. Gated(B) = [c \in B |-> Gated(B)[c]]
      BY DEF Gated
    <3> QED
      BY <3>1, <3>2
  <2> QED
    BY <2>1 DEF BeamState
<1>2. Order(B) \in Seq(B)
  BY OrderOf
<1>3. \A b \in X, c \in B : Consider(b, c) \in X
  BY ConsiderOne
<1>4. Search(B, l) = [reasons |-> beam.reasons, ledger |-> beam.ledger]
  BY DEF Search, Order, Contenders
<1> HIDE DEF start, X
<1>5. PICK f \in [0..Len(Order(B)) -> X] : BeamRun(f, start, Order(B))
  BY <1>1, <1>2, <1>3, BeamSteps
<1> HIDE DEF beam
<1>6. SearchRun(B, l, f)
  BY <1>4, <1>5 DEF BeamRun, SearchRun, start, beam
<1> QED
  BY <1>6 DEF X

\* A search extends a valid ledger to a valid one, by reservations of its batch.
LEMMA SearchGrows ==
  ASSUME NEW C, Chargeable(C), NEW B \in SUBSET C, IsBatch(B),
         NEW l \in Seq(BudgetReservation(C)), LedgerValid(l)
  PROVE  /\ Search(B, l).ledger \in Seq(BudgetReservation(C))
         /\ Grown(l, Search(B, l).ledger, B)
<1> DEFINE N == Len(Order(B))
           X == {b \in BeamState(C, B) : Grown(l, b.ledger, B)}
<1>1. PICK f \in [0..N -> BeamState(C, B)] : SearchRun(B, l, f)
  BY SearchRuns
<1>2. N \in Nat /\ \A n \in 1..N : Order(B)[n] \in B
  BY OrderOf
<1>3. f[0] \in X
  <2>1. f[0].ledger = l
    BY <1>1 DEF SearchRun
  <2>2. Grown(l, l, B)
    BY DEF Grown
  <2> QED
    BY <1>1, <1>2, <2>1, <2>2
<1>4. ASSUME NEW n \in 1..N, f[n - 1] \in X PROVE f[n] \in X
  <2> DEFINE b == f[n - 1]
             c == Order(B)[n]
  <2>1. f[n] = Consider(b, c)
    BY <1>1 DEF SearchRun
  <2>2. b \in BeamState(C, B) /\ Grown(l, b.ledger, B) /\ c \in B
    BY <1>2, <1>4
  <2> HIDE DEF b, c
  <2>3. Consider(b, c) \in BeamState(C, B)
        /\ (TurnedAway(b, c, Consider(b, c)) \/ TakenOn(b, c, Consider(b, c)))
    BY <2>2, ConsiderOne
  <2>4. CASE TurnedAway(b, c, Consider(b, c))
    BY <2>1, <2>2, <2>3, <2>4 DEF TurnedAway
  <2>5. CASE TakenOn(b, c, Consider(b, c))
    <3>1. b.ledger \in Seq(BudgetReservation(C))
      BY <2>2 DEF BeamState
    <3>2. Grown(l, Reserve(b.ledger, c), B)
      BY <2>2, <2>5, <3>1, ReserveGrows DEF TakenOn
    <3> QED
      BY <2>1, <2>3, <2>5, <3>2 DEF TakenOn
  <2> QED
    BY <2>3, <2>4, <2>5
<1>5. f[N] \in X
  <2> HIDE DEF N, X
  <2>1. \A n \in 1..N : f[n - 1] \in X => f[n] \in X
    BY <1>4
  <2>2. \A n \in 0..N : f[n] \in X
    BY <1>2, <1>3, <2>1, StaysIn
  <2> QED
    BY <1>2, <2>2
<1>6. Search(B, l).ledger = f[N].ledger
  BY <1>1 DEF SearchRun
<1> QED
  BY <1>5, <1>6 DEF BeamState

-----------------------------------------------------------------------------
(* The selection order.                                                    *)

\* It holds every contender, and each comes after those selected before it.
LEMMA Selection ==
  ASSUME NEW B, IsBatch(B)
  PROVE  /\ \A c \in Contenders(B) : \E i \in 1..Len(Order(B)) : Order(B)[i] = c
         /\ \A i, j \in 1..Len(Order(B)) :
              i < j => /\ Order(B)[i] # Order(B)[j]
                       /\ ~SelectedBefore(Contenders(B), Order(B)[j], Order(B)[i])
<1> DEFINE S == Contenders(B)
           R == Selecting(S)
           N == Cardinality(S)
           o == Order(B)
<1>1. S \in SUBSET B /\ IsFiniteSet(S)
  <2>1. S \in SUBSET B
    BY ContendersOf
  <2> QED
    BY <2>1, FS_Subset DEF IsBatch
<1> HIDE DEF S
<1>2. StrictOrder(S, R)
  BY <1>1, SelectingOrder
<1>3. N \in Nat /\ \A i \in 1..N : o[i] \in S /\ Cardinality(Below(S, R, o[i])) = i - 1
  <2>1. /\ N \in Nat /\ SelectionOrder(S) \in [1..N -> S]
        /\ \A i \in 1..N : Cardinality(Below(S, R, SelectionOrder(S)[i])) = i - 1
    BY <1>1, SelectionOrderOf
  <2> QED
    BY <2>1 DEF Order, S
<1>4. Len(o) = N
  BY OrderOf DEF S
<1> HIDE DEF o
<1>5. ASSUME NEW c \in S PROVE \E i \in 1..N : o[i] = c
  <2> DEFINE rank == [x \in S |-> Cardinality(Below(S, R, x))]
  <2>1. rank \in Injection(S, 0..N - 1)
    BY <1>1, <1>2, RankInjective
  <2>2. rank[c] \in 0..N - 1 /\ \A d \in S : rank[d] = rank[c] => d = c
    <3> HIDE DEF rank
    <3> QED
      BY <2>1 DEF Injection, IsInjective
  <2>3. rank[c] + 1 \in 1..N /\ (rank[c] + 1) - 1 = rank[c]
    <3> HIDE DEF rank
    <3> QED
      BY <1>3, <2>2
  <2>4. rank[o[rank[c] + 1]] = rank[c] /\ o[rank[c] + 1] \in S
    <3> DEFINE i == rank[c] + 1
    <3>1. o[i] \in S /\ Cardinality(Below(S, R, o[i])) = i - 1
      BY <1>3, <2>3
    <3>2. rank[o[i]] = Cardinality(Below(S, R, o[i]))
      BY <3>1
    <3> HIDE DEF rank
    <3> QED
      BY <2>3, <3>1, <3>2
  <2> QED
    BY <2>2, <2>3, <2>4
<1>6. ASSUME NEW i \in 1..N, NEW j \in 1..N, i < j
      PROVE  o[i] # o[j] /\ ~SelectedBefore(S, o[j], o[i])
  <2>1. i \in Int /\ j \in Int /\ i - 1 # j - 1
    BY <1>3, <1>6
  <2>2. o[i] # o[j]
    BY <1>3, <2>1
  <2>3. ASSUME <<o[j], o[i]>> \in R PROVE FALSE
    <3>1. Below(S, R, o[j]) \in SUBSET Below(S, R, o[i])
      BY <1>2, <1>3, <2>3 DEF StrictOrder, Below
    <3>2. Below(S, R, o[i]) \in SUBSET S
      BY DEF Below
    <3>3. IsFiniteSet(Below(S, R, o[i]))
      BY <1>1, <3>2, FS_Subset
    <3>4. Cardinality(Below(S, R, o[j])) <= Cardinality(Below(S, R, o[i]))
      BY <3>1, <3>3, FS_Subset
    <3>5. j - 1 <= i - 1
      BY <1>3, <3>4
    <3> QED
      BY <1>6, <2>1, <3>5
  <2>4. SelectedBefore(S, o[j], o[i]) => <<o[j], o[i]>> \in R
    BY <1>3 DEF Selecting
  <2> QED
    BY <2>2, <2>3, <2>4
<1> QED
  BY <1>4, <1>5, <1>6 DEF S, o
-----------------------------------------------------------------------------
(* The beam, with the candidates of S considered.                          *)

Taken(b, S) == {c \in S : b.reasons[c] = {"PROMOTED"}}

Judged(B, W, from, b, S) ==
  /\ \A c \in B \ S : b.reasons[c] = Gated(B)[c]
  /\ \A c \in S : b.reasons[c] \in Decided
  /\ b.promoted = Cardinality(Taken(b, S)) /\ b.promoted <= W
  /\ \A c \in S : b.reasons[c] = {"BEAM_CAPACITY"} => b.promoted >= W
  /\ \A c \in S : b.reasons[c] = {"ALREADY_PROMOTED"} =>
                    Reserved(from, c.candidate_id, NextTier[c.tier])
  /\ \A c \in S : b.reasons[c] = {"BUDGET_EXCEEDED"} =>
                    ~Fits(b.ledger, NextTier[c.tier], c.promotion_cost)
  /\ \A c \in Taken(b, S) :
       \E k \in Len(from)+1..Len(b.ledger) : b.ledger[k] = Reservation(c, k)
  /\ \A k \in Len(from)+1..Len(b.ledger) :
       \E c \in Taken(b, S) : b.ledger[k] = Reservation(c, k)
  /\ \A c, d \in S : b.reasons[c] = {"BEAM_CAPACITY"} /\ b.reasons[d] = {"PROMOTED"} =>
                       ~SelectedBefore(Contenders(B), c, d)

\* A candidate that is turned away.
LEMMA JudgedTurnedAway ==
  ASSUME NEW C, Chargeable(C), NEW B \in SUBSET C, IsBatch(B), NEW W \in Nat,
         \A c \in B : Width[NextTier[c.tier]] = W,
         NEW from \in Seq(BudgetReservation(C)), NEW b \in BeamState(C, B),
         Grown(from, b.ledger, B),
         NEW S \in SUBSET B, Judged(B, W, from, b, S), NEW c \in B \ S,
         \A d \in S : ~SelectedBefore(Contenders(B), c, d),
         NEW next \in BeamState(C, B), \A d \in B \ {c} : next.reasons[d] = b.reasons[d],
         TurnedAway(b, c, next)
  PROVE  Judged(B, W, from, next, S \cup {c})
<1> DEFINE tier == NextTier[c.tier]
<1>1. next.ledger = b.ledger /\ next.promoted = b.promoted
  BY DEF TurnedAway
<1>2. \A d \in S : d # c /\ next.reasons[d] = b.reasons[d]
  OBVIOUS
<1>3. \/ next.reasons[c] = {"BEAM_CAPACITY"} /\ b.promoted >= W
      \/ next.reasons[c] = {"ALREADY_PROMOTED"} /\ Reserved(from, c.candidate_id, tier)
      \/ next.reasons[c] = {"BUDGET_EXCEEDED"} /\ ~Fits(b.ledger, tier, c.promotion_cost)
  <2>1. CASE Reserved(b.ledger, c.candidate_id, tier) /\ next.reasons[c] = {"ALREADY_PROMOTED"}
    <3>1. PICK k \in DOMAIN b.ledger : /\ b.ledger[k].candidate_id = c.candidate_id
                                       /\ b.ledger[k].target_tier = tier
      BY <2>1 DEF Reserved
    <3>2. /\ k \in Nat /\ Len(from) \in Nat /\ Len(b.ledger) \in Nat
          /\ DOMAIN b.ledger = 1..Len(b.ledger) /\ DOMAIN from = 1..Len(from)
      BY DEF BeamState
    <3>3. CASE k \in Len(from)+1..Len(b.ledger)
      <4>1. PICK d \in Taken(b, S) : b.ledger[k] = Reservation(d, k)
        BY <3>3 DEF Judged
      <4>2. d \in B /\ d # c /\ d.candidate_id = c.candidate_id
        BY <1>2, <3>1, <4>1 DEF Taken, Reservation
      <4> QED
        BY <4>2 DEF IsBatch
    <3>4. CASE k \in 1..Len(from)
      <4>1. b.ledger[k] = from[k]
        BY <3>4 DEF Grown
      <4> QED
        BY <2>1, <3>1, <3>2, <3>4, <4>1 DEF Reserved
    <3> QED
      BY <3>1, <3>2, <3>3, <3>4
  <2> QED
    BY <2>1 DEF TurnedAway, CanReserve
<1>4. Taken(next, S \cup {c}) = Taken(b, S)
  BY <1>2, <1>3 DEF Taken
<1>5. next.reasons[c] \in Decided
  BY <1>3 DEF Decided
<1> HIDE DEF tier
<1>6. \A d, e \in S \cup {c} :
        next.reasons[d] = {"BEAM_CAPACITY"} /\ next.reasons[e] = {"PROMOTED"} =>
          ~SelectedBefore(Contenders(B), d, e)
  <2>1. SUFFICES ASSUME NEW d \in S \cup {c}, NEW e \in S,
                        next.reasons[d] = {"BEAM_CAPACITY"}, next.reasons[e] = {"PROMOTED"}
                 PROVE  ~SelectedBefore(Contenders(B), d, e)
    BY <1>3
  <2>2. CASE d \in S
    BY <1>2, <2>1, <2>2 DEF Judged
  <2>3. CASE d = c
    BY <2>1, <2>3
  <2> QED
    BY <2>2, <2>3
<1>7. /\ \A d \in B \ (S \cup {c}) : next.reasons[d] = Gated(B)[d]
      /\ \A d \in S \cup {c} : next.reasons[d] \in Decided
  BY <1>2, <1>5 DEF Judged
<1>8. \A d \in S \cup {c} :
        /\ next.reasons[d] = {"BEAM_CAPACITY"} => b.promoted >= W
        /\ next.reasons[d] = {"ALREADY_PROMOTED"} =>
             Reserved(from, d.candidate_id, NextTier[d.tier])
        /\ next.reasons[d] = {"BUDGET_EXCEEDED"} =>
             ~Fits(b.ledger, NextTier[d.tier], d.promotion_cost)
  <2> TAKE d \in S \cup {c}
  <2>1. CASE d \in S
    BY <1>2, <2>1 DEF Judged
  <2>2. CASE d = c
    BY <1>3, <2>2 DEF tier
  <2> QED
    BY <2>1, <2>2
<1>9. /\ b.promoted = Cardinality(Taken(b, S)) /\ b.promoted <= W
      /\ \A d \in Taken(b, S) :
           \E k \in Len(from)+1..Len(b.ledger) : b.ledger[k] = Reservation(d, k)
      /\ \A k \in Len(from)+1..Len(b.ledger) :
           \E d \in Taken(b, S) : b.ledger[k] = Reservation(d, k)
  BY DEF Judged
<1> DEFINE T == S \cup {c}
           K == Len(from)+1..Len(b.ledger)
<1>10. Taken(next, T) = Taken(b, S)
  BY <1>4
<1>11. /\ next.promoted = Cardinality(Taken(next, T)) /\ next.promoted <= W
       /\ \A d \in Taken(next, T) : \E k \in K : next.ledger[k] = Reservation(d, k)
       /\ \A k \in K : \E d \in Taken(next, T) : next.ledger[k] = Reservation(d, k)
  <2> HIDE DEF T
  <2> QED
    <3> DEFINE p == next.promoted
               m == next.ledger
               U == Taken(next, T)
    <3>1. p = b.promoted /\ m = b.ledger /\ U = Taken(b, S)
      BY <1>1, <1>10
    <3> HIDE DEF p, m, U, K
    <3>2. p = Cardinality(U) /\ p <= W
      BY <1>9, <3>1
    <3>3. \A d \in U : \E k \in K : m[k] = Reservation(d, k)
      BY <1>9, <3>1 DEF K
    <3>4. \A k \in K : \E d \in U : m[k] = Reservation(d, k)
      BY <1>9, <3>1 DEF K
    <3> QED
      BY <3>2, <3>3, <3>4 DEF p, m, U
<1>12. K = Len(from)+1..Len(next.ledger)
  BY <1>1
<1>13. \A d \in T :
        /\ next.reasons[d] = {"BEAM_CAPACITY"} => next.promoted >= W
        /\ next.reasons[d] = {"BUDGET_EXCEEDED"} =>
             ~Fits(next.ledger, NextTier[d.tier], d.promotion_cost)
  BY <1>1, <1>8
<1> HIDE DEF K
<1> HIDE <1>1, <1>2, <1>3, <1>4, <1>9
<1> QED
  BY <1>6, <1>7, <1>8, <1>11, <1>12, <1>13 DEF Judged

\* A candidate that is promoted.
LEMMA JudgedTakenOn ==
  ASSUME NEW C, Chargeable(C), NEW B \in SUBSET C, IsBatch(B), NEW W \in Nat,
         \A c \in B : Width[NextTier[c.tier]] = W,
         NEW from \in Seq(BudgetReservation(C)), NEW b \in BeamState(C, B),
         Grown(from, b.ledger, B),
         NEW S \in SUBSET B, Judged(B, W, from, b, S), NEW c \in B \ S,
         NEW next \in BeamState(C, B), \A d \in B \ {c} : next.reasons[d] = b.reasons[d],
         TakenOn(b, c, next)
  PROVE  Judged(B, W, from, next, S \cup {c})
<1> DEFINE l == b.ledger
           m == next.ledger
<1>1. /\ ~(b.promoted >= W) /\ b.promoted \in Nat /\ next.promoted = b.promoted + 1
      /\ next.reasons[c] = {"PROMOTED"}
  BY DEF TakenOn, BeamState
<1>2. \A d \in S : d # c /\ next.reasons[d] = b.reasons[d]
  OBVIOUS
<1>3. /\ Len(from) \in Nat /\ Len(l) \in Nat /\ Len(from) <= Len(l) /\ Len(m) = Len(l) + 1
      /\ m[Len(l) + 1] = Reservation(c, Len(l) + 1) /\ \A k \in 1..Len(l) : m[k] = l[k]
  <2>1. l \in Seq(BudgetReservation(C)) /\ m = Append(l, Reservation(c, Len(l) + 1))
    BY DEF BeamState, TakenOn, Reserve
  <2> QED
    BY <2>1, ReservationType DEF Grown
<1>4. Taken(next, S \cup {c}) = Taken(b, S) \cup {c} /\ c \notin Taken(b, S)
  BY <1>1, <1>2 DEF Taken
<1>5. b.promoted + 1 = Cardinality(Taken(b, S) \cup {c}) /\ b.promoted + 1 <= W
  <2>1. Taken(b, S) \in SUBSET B
    BY DEF Taken
  <2>2. IsFiniteSet(Taken(b, S))
    BY <2>1, FS_Subset DEF IsBatch
  <2>3. Cardinality(Taken(b, S) \cup {c}) = Cardinality(Taken(b, S)) + 1
    BY <1>4, <2>2, FS_AddElement
  <2> QED
    BY <1>1, <2>3 DEF Judged
<1>6. /\ \A d \in B \ (S \cup {c}) : next.reasons[d] = Gated(B)[d]
      /\ \A d \in S \cup {c} : next.reasons[d] \in Decided
  BY <1>1, <1>2 DEF Judged, Decided
<1>7. \A d \in S : ~(next.reasons[d] = {"BEAM_CAPACITY"})
  BY <1>1, <1>2 DEF Judged
<1>8. \A d \in S \cup {c} : next.reasons[d] = {"ALREADY_PROMOTED"} =>
                              Reserved(from, d.candidate_id, NextTier[d.tier])
  BY <1>1, <1>2 DEF Judged
<1>9. \A d \in S \cup {c} : next.reasons[d] = {"BUDGET_EXCEEDED"} =>
                              ~Fits(m, NextTier[d.tier], d.promotion_cost)
  <2>1. SUFFICES ASSUME NEW d \in S, next.reasons[d] = {"BUDGET_EXCEEDED"},
                        Fits(m, NextTier[d.tier], d.promotion_cost)
                 PROVE  Fits(l, NextTier[d.tier], d.promotion_cost)
    BY <1>1, <1>2 DEF Judged
  <2>2. l \in Seq(BudgetReservation(C)) /\ m = Reserve(l, c) /\ c \in C /\ d \in C
    BY DEF BeamState, TakenOn
  <2>3. /\ \A r \in Resources : Spent(m, r) = Spent(l, r) + c.promotion_cost[r]
        /\ \A t \in Tiers : Worlds(m, t) = Worlds(l, t) + (IF t = NextTier[c.tier] THEN 1 ELSE 0)
    <3> DEFINE q == Reserve(l, c)
    <3> HIDE DEF l, m
    <3>0. Chargeable(C) /\ l \in Seq(BudgetReservation(C)) /\ c \in C
      BY <2>2
    <3>1. /\ q \in Seq(BudgetReservation(C))
          /\ \A r \in Resources : Spent(q, r) = Spent(l, r) + c.promotion_cost[r]
          /\ \A t \in Tiers : Worlds(q, t) = Worlds(l, t) + (IF t = NextTier[c.tier] THEN 1 ELSE 0)
      <4>1. ASSUME NEW r \in Resources PROVE Spent(q, r) = Spent(l, r) + c.promotion_cost[r]
        BY <3>0, ReserveTotals
      <4>2. ASSUME NEW t \in Tiers PROVE Worlds(q, t) = Worlds(l, t) + (IF t = NextTier[c.tier] THEN 1 ELSE 0)
        BY <3>0, ReserveTotals
      <4>3. q \in Seq(BudgetReservation(C))
        BY <3>0, ReserveTotals
      <4> QED BY <4>1, <4>2, <4>3
    <3>2. m = q
      BY <2>2
    <3> HIDE DEF q, m, l
    <3> QED
      BY <3>1, <3>2
  <2> HIDE DEF l, m
  <2>4. /\ \A r \in Resources : Spent(l, r) \in Nat
        /\ \A t \in Tiers : Worlds(l, t) \in Nat
    BY <2>2, LedgerTotals
  <2>5. \A r \in Resources : /\ c.promotion_cost[r] \in Nat /\ d.promotion_cost[r] \in Nat
                             /\ Limits.resources[r] \in Nat
    BY <2>2, LimitsAssumption DEF Chargeable
  <2>6. \A t \in Tiers : Limits.worlds[t] \in Nat
    BY LimitsAssumption
  <2>7. ASSUME NEW r \in Resources
        PROVE  Spent(l, r) + d.promotion_cost[r] <= Limits.resources[r]
    <3>1. Spent(m, r) + d.promotion_cost[r] <= Limits.resources[r]
      BY <2>1 DEF Fits
    <3>2. \A x, y, z, u \in Nat : (x + y) + z <= u => x + z <= u
      OBVIOUS
    <3> QED
      BY <2>3, <2>4, <2>5, <3>1, <3>2, Zenon
  <2>8. ASSUME NEW t \in Tiers
        PROVE  Worlds(l, t) + (IF t = NextTier[d.tier] THEN 1 ELSE 0) <= Limits.worlds[t]
    <3> DEFINE x == IF t = NextTier[d.tier] THEN 1 ELSE 0
               y == IF t = NextTier[c.tier] THEN 1 ELSE 0
    <3>1. Worlds(m, t) + x <= Limits.worlds[t]
      BY <2>1 DEF Fits
    <3>2. x \in Nat /\ y \in Nat
      OBVIOUS
    <3>3. Worlds(m, t) = Worlds(l, t) + y
      BY <2>3
    <3> HIDE DEF x, y
    <3>4. Worlds(l, t) + x <= Limits.worlds[t]
      BY <2>4, <2>6, <3>1, <3>2, <3>3
    <3> QED
      BY <3>4 DEF x
  <2> QED
    BY <2>7, <2>8 DEF Fits
<1>10. \A d \in Taken(b, S) \cup {c} : \E k \in Len(from)+1..Len(m) : m[k] = Reservation(d, k)
  <2> TAKE d \in Taken(b, S) \cup {c}
  <2>1. CASE d = c
    <3>1. Len(l) + 1 \in Len(from)+1..Len(m)
      BY <1>3
    <3> QED
      BY <1>3, <2>1, <3>1
  <2>2. CASE d \in Taken(b, S)
    <3>1. PICK k \in Len(from)+1..Len(l) : l[k] = Reservation(d, k)
      BY <2>2 DEF Judged
    <3>2. k \in Len(from)+1..Len(m) /\ k \in 1..Len(l)
      BY <1>3
    <3> QED
      BY <1>3, <3>1, <3>2
  <2> QED
    BY <2>1, <2>2
<1>11. \A k \in Len(from)+1..Len(m) : \E d \in Taken(b, S) \cup {c} : m[k] = Reservation(d, k)
  <2> TAKE k \in Len(from)+1..Len(m)
  <2>1. k = Len(l) + 1 \/ (k \in Len(from)+1..Len(l) /\ k \in 1..Len(l))
    BY <1>3
  <2>2. CASE k = Len(l) + 1
    BY <1>3, <2>2
  <2>3. CASE k \in Len(from)+1..Len(l) /\ k \in 1..Len(l)
    <3>1. PICK d \in Taken(b, S) : l[k] = Reservation(d, k)
      BY <2>3 DEF Judged
    <3> QED
      BY <1>3, <2>3, <3>1
  <2> QED
    BY <2>1, <2>2, <2>3
<1>12. \A d \in S \cup {c} : ~(next.reasons[d] = {"BEAM_CAPACITY"})
  BY <1>1, <1>7
<1> QED
  BY <1>1, <1>4, <1>5, <1>6, <1>8, <1>9, <1>10, <1>11, <1>12 DEF Judged
-----------------------------------------------------------------------------
(* The call.                                                               *)

FinalBeam(C, B, W, from, b) ==
  /\ b \in BeamState(C, B) /\ Grown(from, b.ledger, B)
  /\ Judged(B, W, from, b, Contenders(B))
  /\ Search(B, from) = [reasons |-> b.reasons, ledger |-> b.ledger]

\* The outcome of a call is that of a beam with every contender considered.
LEMMA SearchJudged ==
  ASSUME NEW C, Chargeable(C), NEW B \in SUBSET C, IsBatch(B), NEW W \in Nat,
         \A c \in B : Width[NextTier[c.tier]] = W,
         NEW from \in Seq(BudgetReservation(C)), LedgerValid(from)
  PROVE  \E b : FinalBeam(C, B, W, from, b)
<1> DEFINE N == Len(Order(B))
           o == Order(B)
           S(n) == {o[i] : i \in 1..n}
           Good(b, n) == /\ b \in BeamState(C, B) /\ Grown(from, b.ledger, B)
                         /\ Judged(B, W, from, b, S(n))
<1>1. PICK f \in [0..N -> BeamState(C, B)] : SearchRun(B, from, f)
  BY SearchRuns
<1>2. N \in Nat /\ \A n \in 1..N : o[n] \in Contenders(B) /\ o[n] \in B
  BY OrderOf, ContendersOf
<1>3. /\ \A c \in Contenders(B) : \E i \in 1..N : o[i] = c
      /\ \A i, j \in 1..N : i < j => o[i] # o[j] /\ ~SelectedBefore(Contenders(B), o[j], o[i])
  BY Selection
<1>4. Good(f[0], 0)
  <2>1. /\ f[0] \in BeamState(C, B) /\ f[0].ledger = from /\ f[0].promoted = 0
        /\ f[0].reasons = Gated(B)
    BY <1>1, <1>2 DEF SearchRun
  <2>2. Grown(from, from, B)
    BY DEF Grown
  <2>3. S(0) = {}
    OBVIOUS
  <2> HIDE DEF S
  <2>4. Taken(f[0], {}) = {} /\ Cardinality({}) = 0
    BY FS_EmptySet DEF Taken
  <2>5. Len(from) \in Nat
    OBVIOUS
  <2>6. Judged(B, W, from, f[0], {})
    BY <2>1, <2>4, <2>5 DEF Judged
  <2> QED
    BY <2>1, <2>2, <2>3, <2>6
<1>5. ASSUME NEW n \in 1..N, Good(f[n - 1], n - 1) PROVE Good(f[n], n)
  <2> DEFINE b == f[n - 1]
             c == o[n]
             next == f[n]
             P == S(n - 1)
  <2>1. /\ next = Consider(b, c) /\ c \in B
        /\ b \in BeamState(C, B) /\ Grown(from, b.ledger, B) /\ Judged(B, W, from, b, P)
    BY <1>1, <1>2, <1>5 DEF SearchRun
  <2>2. S(n) = P \cup {c}
    <3>1. \A i : i \in 1..n <=> i \in 1..n-1 \/ i = n
      OBVIOUS
    <3> HIDE DEF o
    <3> QED
      BY <3>1
  <2>3. /\ P \in SUBSET B /\ c \in B \ P
        /\ \A d \in P : ~SelectedBefore(Contenders(B), c, d)
    <3>1. ASSUME NEW d \in P
          PROVE  d \in B /\ d # c /\ ~SelectedBefore(Contenders(B), c, d)
      <4>1. PICK i \in 1..n-1 : d = o[i]
        OBVIOUS
      <4>2. i \in 1..N /\ i < n
        BY <1>2
      <4> QED
        BY <1>2, <1>3, <4>1, <4>2
    <3> QED
      BY <2>1, <3>1
  <2> HIDE DEF b, c, next, P, S
  <2>4. /\ next \in BeamState(C, B) /\ \A d \in B \ {c} : next.reasons[d] = b.reasons[d]
        /\ TurnedAway(b, c, next) \/ TakenOn(b, c, next)
    BY <2>1, ConsiderOne
  <2>5. CASE TurnedAway(b, c, next)
    <3>1. Judged(B, W, from, next, P \cup {c})
      BY <2>1, <2>3, <2>4, <2>5, JudgedTurnedAway
    <3>2. Grown(from, next.ledger, B)
      BY <2>1, <2>5 DEF TurnedAway
    <3> QED
      BY <2>2, <2>4, <3>1, <3>2 DEF next
  <2>6. CASE TakenOn(b, c, next)
    <3>1. Judged(B, W, from, next, P \cup {c})
      BY <2>1, <2>3, <2>4, <2>6, JudgedTakenOn
    <3>2. b.ledger \in Seq(BudgetReservation(C))
      BY <2>1 DEF BeamState
    <3>3. Grown(from, next.ledger, B)
      BY <2>1, <2>6, <3>2, ReserveGrows DEF TakenOn
    <3> QED
      BY <2>2, <2>4, <3>1, <3>3 DEF next
  <2> QED
    BY <2>4, <2>5, <2>6
<1>6. Good(f[N], N)
  <2> DEFINE T == {n \in Nat : n \in 0..N => Good(f[n], n)}
  <2>1. 0 \in T
    BY <1>4
  <2>2. \A n \in Nat : n \in T => n + 1 \in T
    <3> TAKE n \in Nat
    <3> HAVE n \in T
    <3>1. SUFFICES ASSUME n + 1 \in 0..N PROVE Good(f[n + 1], n + 1)
      OBVIOUS
    <3>2. n \in 0..N /\ n + 1 \in 1..N /\ (n + 1) - 1 = n
      BY <1>2, <3>1
    <3>3. Good(f[n], n)
      BY <3>2
    <3> HIDE DEF Good
    <3> QED
      BY <1>5, <3>2, <3>3
  <2>3. Nat \subseteq T
    <3> HIDE DEF T
    <3> QED
      BY <2>1, <2>2, SetInduction
  <2>4. N \in T /\ N \in 0..N
    BY <1>2, <2>3
  <2> HIDE DEF Good
  <2> QED
    BY <2>4
<1>7. S(N) = Contenders(B)
  BY <1>2, <1>3
<1>8. Search(B, from) = [reasons |-> f[N].reasons, ledger |-> f[N].ledger]
  BY <1>1 DEF SearchRun
<1> QED
  BY <1>6, <1>7, <1>8 DEF FinalBeam
-----------------------------------------------------------------------------
(* What the decisions say.                                                 *)

\* The candidates that the gates and the deduplication decide are not decided by
\* the beam.
LEMMA GatedReasons ==
  ASSUME NEW B, IsBatch(B), NEW c \in B \ Contenders(B)
  PROVE  Gated(B)[c] # {} /\ Gated(B)[c] \notin Decided
<1>1. Gated(B)[c] = IF c \notin Eligible(B) THEN Denials(c.gates, NextTier[c.tier])
                    ELSE {DuplicateReason(Winner(Eligible(B), c), c)}
  BY DEF Gated, Contenders
<1>2. CASE c \in Eligible(B)
  <2>1. Gated(B)[c] = {"DOMINATED_BY_CHEAPER_WORLD"} \/ Gated(B)[c] = {"DUPLICATE_STATE"}
    BY <1>1, <1>2 DEF DuplicateReason
  <2> QED
    BY <2>1 DEF Decided
<1>3. CASE c \notin Eligible(B)
  <2> DEFINE D == Denials(c.gates, NextTier[c.tier])
  <2>1. D # {} /\ Gated(B)[c] = D
    BY <1>1, <1>3 DEF Eligible
  <2>2. /\ "BEAM_CAPACITY" \notin D /\ "ALREADY_PROMOTED" \notin D
        /\ "BUDGET_EXCEEDED" \notin D /\ "PROMOTED" \notin D
    BY DEF Denials
  <2> HIDE DEF D
  <2> QED
    BY <2>1, <2>2 DEF Decided
<1> QED
  BY <1>2, <1>3

\* The best of a state stands for it.
LEMMA ContenderIsBest ==
  ASSUME NEW B, IsBatch(B), NEW c \in Contenders(B), NEW d \in Eligible(B) \ {c},
         d.state_fingerprint = c.state_fingerprint
  PROVE  Before(c, d) /\ d \notin Contenders(B)
<1> DEFINE S == Eligible(B)
<1>1. S \in SUBSET B
  BY DEF Eligible
<1> HIDE DEF S
<1>2. ASSUME NEW x \in Contenders(B)
      PROVE  x \in S /\ \A y \in S \ {x} :
                          y.state_fingerprint = x.state_fingerprint => Before(x, y)
  <2>1. PICK z \in S : x = Winner(S, z)
    BY DEF Contenders, Winners, S
  <2>2. x \in Twins(S, z) /\ \A y \in Twins(S, z) \ {x} : Before(x, y)
    BY <1>1, <2>1, WinnerOf
  <2> QED
    BY <2>2 DEF Twins
<1>3. c \in B /\ d \in B /\ Before(c, d)
  BY <1>1, <1>2 DEF S
<1>4. ~Before(d, c)
  <2>1. /\ c.priority \in Int /\ Digest[c.candidate_id] \in Int
        /\ d.priority \in Int /\ Digest[d.candidate_id] \in Int
    BY <1>3 DEF IsBatch
  <2> QED
    BY <1>3, <2>1 DEF Before
<1> QED
  BY <1>2, <1>3, <1>4 DEF S
-----------------------------------------------------------------------------
(* The campaign.                                                           *)

\* All candidates of the batches that may be submitted.
Submitted == UNION {B \in Submissions : IsBatch(B)}

History == Seq(BudgetReservation(Submitted))

\* The ledger is a valid one, left by the last call for the batch and the ledger
\* it was given.
CampaignInv ==
  /\ spent \in History /\ before \in History /\ LedgerValid(spent) /\ LedgerValid(before)
  /\ batch = {} => spent = before
  /\ batch # {} => /\ IsBatch(batch) /\ batch \in SUBSET Submitted
                   /\ spent = Search(batch, before).ledger
                   /\ reasons = Search(batch, before).reasons

LEMMA SubmittedChargeable == Chargeable(Submitted)
BY DEF Chargeable, Submitted, IsBatch

LEMMA EmptyLedger == <<>> \in History /\ LedgerValid(<<>>)
<1> DEFINE l == <<>>
<1>1. DOMAIN l = {} /\ l \in History
  BY DEF History
<1>2. \A r : Costs(l, r) = <<>>
  BY DEF Costs
<1>3. \A t : Marks(l, t) = <<>>
  BY DEF Marks
<1>4. /\ \A r \in Resources : Spent(l, r) = 0 /\ Limits.resources[r] \in Nat
      /\ \A t \in Tiers : Worlds(l, t) = 0 /\ Limits.worlds[t] \in Nat
  <2>1. /\ \A r : Spent(l, r) = Total(Costs(l, r))
        /\ \A t : Worlds(l, t) = Total(Marks(l, t))
    BY DEF Spent, Worlds, Costs, Marks
  <2> HIDE DEF l
  <2> QED
    BY <1>2, <1>3, <2>1, TotalEmpty, LimitsAssumption
<1> QED
  BY <1>1, <1>4 DEF LedgerValid

LEMMA CampaignInvariant == CampaignSpec => []CampaignInv
<1>1. CampaignInit => CampaignInv
  BY EmptyLedger DEF CampaignInit, CampaignInv
<1>2. ASSUME CampaignInv, [Submit]_campaign PROVE CampaignInv'
  <2>1. CASE Submit
    <3>1. PICK B \in Submissions :
            /\ IsBatch(B) /\ batch' = B /\ before' = spent
            /\ spent' = Search(B, spent).ledger /\ reasons' = Search(B, spent).reasons
      BY <2>1 DEF Submit
    <3>2. B # {} /\ B \in SUBSET Submitted /\ IsBatch(B)
      BY <3>1 DEF Submitted, IsBatch
    <3>3. spent \in Seq(BudgetReservation(Submitted)) /\ LedgerValid(spent)
      BY <1>2 DEF CampaignInv, History
    <3>4. /\ Search(B, spent).ledger \in Seq(BudgetReservation(Submitted))
          /\ LedgerValid(Search(B, spent).ledger)
      BY <3>2, <3>3, SubmittedChargeable, SearchGrows DEF Grown
    <3>5. LedgerValid(spent') /\ LedgerValid(before') /\ IsBatch(batch')
      BY <3>1, <3>2, <3>3, <3>4
    <3> QED
      BY <3>1, <3>2, <3>3, <3>4, <3>5 DEF CampaignInv, History
  <2>2. CASE UNCHANGED campaign
    BY <1>2, <2>2 DEF CampaignInv, campaign
  <2> QED
    BY <1>2, <2>1, <2>2 DEF Submit
<1> QED
  BY <1>1, <1>2, PTL DEF CampaignSpec
\* The last call, as a beam with every contender considered.
LastCall(b) ==
  /\ IsBatch(batch) /\ TargetTier \in Tiers /\ Width[TargetTier] \in Nat
  /\ \A c \in batch : NextTier[c.tier] = TargetTier
  /\ b \in BeamState(Submitted, batch) /\ Grown(before, b.ledger, batch)
  /\ Judged(batch, Width[TargetTier], before, b, Contenders(batch))
  /\ spent = b.ledger /\ reasons = b.reasons

LEMMA LastCallOf ==
  ASSUME CampaignInv, batch # {}
  PROVE  \E b : LastCall(b)
<1> DEFINE W == Width[TargetTier]
<1>1. /\ IsBatch(batch) /\ batch \in SUBSET Submitted /\ before \in History
      /\ LedgerValid(before)
      /\ spent = Search(batch, before).ledger /\ reasons = Search(batch, before).reasons
  BY DEF CampaignInv
<1>2. \A c \in batch : NextTier[c.tier] = TargetTier
  BY <1>1 DEF TargetTier, IsBatch
<1>3. TargetTier \in Tiers /\ W \in Nat
  <2>1. PICK c \in batch : c.tier \in DOMAIN NextTier
    BY <1>1 DEF IsBatch
  <2>2. TargetTier = NextTier[c.tier] /\ c \in Submitted
    BY <1>1, <1>2
  <2>3. Width[NextTier[c.tier]] \in Nat
    BY <2>1, WidthAssumption
  <2>4. NextTier[c.tier] \in Tiers
    BY <2>1 DEF NextTier, Tiers
  <2> QED
    BY <2>2, <2>3, <2>4
<1>4. \A c \in batch : Width[NextTier[c.tier]] = W
  BY <1>2
<1> HIDE DEF W
<1>5. PICK b : FinalBeam(Submitted, batch, W, before, b)
  BY <1>1, <1>3, <1>4, SubmittedChargeable, SearchJudged DEF History
<1>6. LastCall(b)
  BY <1>1, <1>2, <1>3, <1>5 DEF FinalBeam, LastCall, W
<1> QED
  BY <1>6

\* The beam decides the contenders, and nobody else.
LEMMA BeamDecides ==
  ASSUME NEW b, LastCall(b)
  PROVE  /\ \A c \in Contenders(batch) : c \in batch /\ reasons[c] \in Decided
         /\ \A c \in batch \ Contenders(batch) : reasons[c] # {} /\ reasons[c] \notin Decided
         /\ Promoted = Taken(b, Contenders(batch))
<1>1. Contenders(batch) \in SUBSET batch
  BY ContendersOf DEF LastCall
<1>2. \A c \in Contenders(batch) : c \in batch /\ reasons[c] \in Decided
  BY <1>1 DEF LastCall, Judged
<1>3. ASSUME NEW c \in batch \ Contenders(batch)
      PROVE  reasons[c] # {} /\ reasons[c] \notin Decided
  <2>1. reasons[c] = Gated(batch)[c]
    BY <1>3 DEF LastCall, Judged
  <2> QED
    BY <2>1, GatedReasons DEF LastCall
<1>4. {"PROMOTED"} \in Decided
  BY DEF Decided
<1>5. Promoted = Taken(b, Contenders(batch))
  BY <1>2, <1>3, <1>4 DEF Promoted, Taken, LastCall
<1> QED
  BY <1>2, <1>3, <1>5

LEMMA CampaignLedger ==
  ASSUME CampaignInv
  PROVE  LedgerSound
<1> DEFINE K == Len(before)+1..Len(spent)
<1>1. LedgerValid(spent) /\ IsPrefix(before, spent)
  <2>1. spent \in Seq(BudgetReservation(Submitted)) /\ before \in Seq(BudgetReservation(Submitted))
    BY DEF CampaignInv, History
  <2>2. CASE batch = {}
    BY <2>1, <2>2 DEF CampaignInv, IsPrefix
  <2>3. CASE batch # {}
    <3>1. PICK b : LastCall(b)
      BY <2>3, LastCallOf
    <3>2. /\ Len(before) <= Len(spent)
          /\ \A i \in 1..Len(before) : spent[i] = before[i]
      BY <3>1 DEF LastCall, Grown
    <3> QED
      BY <2>1, <3>2 DEF IsPrefix, CampaignInv
  <2> QED
    BY <2>2, <2>3
<1>2. ASSUME batch # {}
      PROVE  /\ DOMAIN reasons = batch /\ \A c \in batch : reasons[c] # {}
             /\ {[candidate_id |-> c.candidate_id, target_tier |-> TargetTier,
                  cost |-> c.promotion_cost] : c \in Promoted}
                  = {[candidate_id |-> spent[i].candidate_id,
                      target_tier |-> spent[i].target_tier, cost |-> spent[i].cost] : i \in K}
             /\ Cardinality(Promoted) <= Width[TargetTier]
             /\ BudgetVerdictsStand
  <2>1. PICK b : LastCall(b)
    BY <1>2, LastCallOf
  <2>2. /\ \A c \in Contenders(batch) : c \in batch /\ reasons[c] \in Decided
        /\ \A c \in batch \ Contenders(batch) : reasons[c] # {} /\ reasons[c] \notin Decided
        /\ Promoted = Taken(b, Contenders(batch))
    BY <2>1, BeamDecides
  <2>3. DOMAIN reasons = batch
    BY <2>1 DEF LastCall, BeamState
  <2>4. \A c \in batch : reasons[c] # {}
    BY <2>2 DEF Decided
  <2>5. Cardinality(Promoted) <= Width[TargetTier]
    BY <2>1, <2>2 DEF LastCall, Judged
  <2>6. BudgetVerdictsStand
    <3>1. {"BUDGET_EXCEEDED"} \in Decided /\ {"ALREADY_PROMOTED"} \in Decided
      BY DEF Decided
    <3>2. ASSUME NEW c \in batch, reasons[c] \in Decided
          PROVE  c \in Contenders(batch) /\ NextTier[c.tier] = TargetTier
      BY <2>1, <2>2, <3>2 DEF LastCall
    <3>3. \A c \in Contenders(batch) :
            /\ reasons[c] = {"BUDGET_EXCEEDED"} =>
                 ~Fits(spent, NextTier[c.tier], c.promotion_cost)
            /\ reasons[c] = {"ALREADY_PROMOTED"} =>
                 Reserved(before, c.candidate_id, NextTier[c.tier])
      BY <2>1 DEF LastCall, Judged
    <3> QED
      BY <3>1, <3>2, <3>3 DEF BudgetVerdictsStand
  <2>7. /\ \A c \in Promoted : \E k \in K : spent[k] = Reservation(c, k)
        /\ \A k \in K : \E c \in Promoted : spent[k] = Reservation(c, k)
    BY <2>1, <2>2 DEF LastCall, Judged
  <2>8. \A c \in Promoted : NextTier[c.tier] = TargetTier
    BY <2>1 DEF LastCall, Promoted
  <2> HIDE DEF K
  <2> DEFINE charge(c) == [candidate_id |-> c.candidate_id, target_tier |-> TargetTier,
                           cost |-> c.promotion_cost]
             entry(k) == [candidate_id |-> spent[k].candidate_id,
                          target_tier |-> spent[k].target_tier, cost |-> spent[k].cost]
  <2>9. \A c \in Promoted, k \in K : spent[k] = Reservation(c, k) => charge(c) = entry(k)
    BY <2>8 DEF Reservation
  <2> HIDE DEF charge, entry
  <2>10. {charge(c) : c \in Promoted} = {entry(k) : k \in K}
    BY <2>7, <2>9
  <2> QED
    BY <2>3, <2>4, <2>5, <2>6, <2>10 DEF charge, entry
<1>3. DecisionsMatchLedger
  BY <1>2 DEF DecisionsMatchLedger
<1>4. BudgetVerdictsStand
  <2>1. CASE batch = {}
    BY <2>1 DEF BudgetVerdictsStand
  <2> QED
    BY <1>2, <2>1
<1> QED
  BY <1>1, <1>3, <1>4 DEF LedgerSound

\* Between calls, the ledger of any history of calls is within every limit, was
\* only ever extended, and charges each candidate and tier once; the last call
\* charged exactly what it promoted, within the width; and what it refused for
\* budget does not fit what it left (TieredSearchController.advance).
THEOREM CampaignLedgerSound == CampaignSpec => []LedgerSound
BY CampaignInvariant, CampaignLedger, PTL

LEMMA CampaignBeam ==
  ASSUME CampaignInv
  PROVE  BeamSound
<1> DEFINE S == Contenders(batch)
           Wanting(c) == reasons[c] = {"BEAM_CAPACITY"}
<1>1. CASE batch = {}
  BY <1>1 DEF BeamSound, OneWorldPerState, BeamOrder, BestFirst, DiversityFirst, Promoted
<1>2. CASE batch # {}
  <2>1. PICK b : LastCall(b)
    BY <1>2, LastCallOf
  <2>2. IsBatch(batch) /\ S \in SUBSET batch /\ S \in SUBSET Eligible(batch)
    BY <2>1, ContendersOf DEF LastCall
  <2>3. Promoted \in SUBSET S
    BY <2>1, BeamDecides DEF Taken
  <2>4. \A c \in batch : Wanting(c) => c \in S
    BY <2>1, BeamDecides DEF Decided
  <2>5. Standing = S
    BY DEF Standing, Contenders
  <2>6. \A c \in S, d \in Promoted : Wanting(c) => ~SelectedBefore(S, c, d)
    BY <2>1, <2>3 DEF LastCall, Judged, Promoted
  <2>7. OneWorldPerState
    <3>1. ASSUME NEW c \in Promoted, NEW d \in Eligible(batch) \ {c},
                 d.state_fingerprint = c.state_fingerprint
          PROVE  Before(c, d) /\ d \notin Promoted
      <4>1. c \in Contenders(batch)
        BY <2>3
      <4>2. Before(c, d) /\ d \notin Contenders(batch)
        BY <2>2, <3>1, <4>1, ContenderIsBest
      <4> QED
        BY <2>3, <4>2
    <3> QED
      BY <3>1 DEF OneWorldPerState
  <2> HIDE DEF S
  <2>8. /\ \A c \in S : ~Before(c, c)
        /\ \A c, d \in S : c # d => Before(c, d) \/ Before(d, c)
        /\ \A c, d, e \in S : Before(c, d) /\ Before(d, e) => Before(c, e)
    <3>1. StrictOrder(S, Ranking(S))
      BY <2>2, RankingOrder
    <3> QED
      BY <3>1 DEF StrictOrder, Ranking
  <2>9. \A c, d \in S : c # d => SelectedBefore(S, c, d) \/ SelectedBefore(S, d, c)
    <3>1. StrictOrder(S, Selecting(S))
      BY <2>2, SelectingOrder
    <3> QED
      BY <3>1 DEF StrictOrder, Selecting
  \* Whoever leads its bucket has nobody ahead, and the others have somebody.
  <2>10. \A c \in S : Leads(S, c) <=> Ahead(c) = {}
    BY <2>5, <2>8 DEF Leads, Ahead
  <2>11. ASSUME NEW c \in batch, Wanting(c), NEW d \in Promoted
         PROVE  c \in S /\ d \in S /\ SelectedBefore(S, d, c)
    <3>1. c \in S /\ d \in S /\ c # d
      <4>1. reasons[c] # {"PROMOTED"} /\ reasons[d] = {"PROMOTED"}
        BY <2>11 DEF Promoted
      <4> QED
        BY <2>3, <2>4, <2>11, <4>1
    <3> QED
      BY <2>6, <2>9, <2>11, <3>1
  <2>12. BestFirst
    <3>1. ASSUME NEW c \in batch, Wanting(c), NEW d \in Promoted
          PROVE  Before(d, c) \/ (Ahead(c) # {} /\ Ahead(d) = {})
      BY <2>10, <2>11, <3>1 DEF SelectedBefore
    <3> QED
      BY <3>1 DEF BestFirst
  <2>13. DiversityFirst
    <3>1. ASSUME NEW c \in Promoted, NEW d \in Promoted, c # d,
                 c.diversity_key = d.diversity_key, NEW e \in batch, Wanting(e)
          PROVE  Ahead(e) # {}
      <4>1. c \in S /\ d \in S /\ e \in S
        BY <2>11, <3>1
      <4>2. SelectedBefore(S, c, e) /\ SelectedBefore(S, d, e)
        BY <2>11, <3>1
      <4>3. ~Leads(S, c) \/ ~Leads(S, d)
        <5>1. ~Before(c, d) \/ ~Before(d, c)
          BY <2>8, <4>1
        <5> QED
          BY <3>1, <4>1, <5>1 DEF Leads
      <4>4. ~Leads(S, e)
        <5>1. Leads(S, e) \in BOOLEAN /\ Leads(S, c) \in BOOLEAN /\ Leads(S, d) \in BOOLEAN
          BY DEF Leads
        <5> QED
          BY <4>2, <4>3, <5>1, Zenon DEF SelectedBefore
      <4> QED
        BY <2>10, <4>1, <4>4
    <3> QED
      BY <3>1 DEF DiversityFirst
  <2> QED
    BY <2>7, <2>12, <2>13 DEF BeamSound, BeamOrder
<1> QED
  BY <1>1, <1>2

\* Whatever batch was submitted, at most one eligible candidate of a state was
\* promoted and it is the best of them; nobody was left out for want of width
\* while a worse one was promoted, but for the turn of the diversity buckets
\* (TieredSearchController._deduplicate, _ranked and _diverse_order).
THEOREM CampaignBeamSound == CampaignSpec => []BeamSound
BY CampaignInvariant, CampaignBeam, PTL
=============================================================================
