------------------------- MODULE CheckpointStoreProofs -------------------------
(***************************************************************************)
(* Proofs about the checkpoint store, for any number of stores, providers  *)
(* and generations, of failed calls and of killed processes, when no two   *)
(* processes commit the same checkpoint (OneWriter).  Run                  *)
(* checkpoint_rollback_race shows that the assumption is needed.           *)
(*                                                                         *)
(* With one writer, what a call read of its generation stays true until    *)
(* the same call changes it (Looked, Read); so a shard a stage call        *)
(* answers for is absent or its own (Blamed), and nothing of its own is    *)
(* left out of that account (Answered).                                    *)
(***************************************************************************)
EXTENDS CheckpointStore, TLAPS

\* No two processes commit the same checkpoint.
OneWriter == \A s, t \in Stores : s # t => MayStage[s] \cap MayStage[t] = {}

Stagers == {"look", "put", "create", "fill", "check"}
Pcs     == Stagers \cup {"idle", "rollback", "capture", "swap", "load"}
Frame   == [pc : Pcs, gen : Generations \cup {Nothing}, at : DOMAIN Providers,
            existed : BOOLEAN, made : BOOLEAN, created : Seq(Kept),
            next : {"none", "staged", "swap", "loaded"},
            want : Generations \cup {Nothing}, poisoned : BOOLEAN,
            failed : Generations \cup {Nothing}, leaky : BOOLEAN,
            life : 1..(crashes + 1)]

Staging(s)  == store[s].pc \in Stagers \cup {"rollback", "capture"}
               /\ store[s].next = "staged"
Promised(g) == g \in staged \/ g = active

\* What the locals of a call mean at each of its lines.
Shape(s) ==
  /\ store[s].failed # Nothing => store[s].poisoned
  /\ ~At(s, "idle") => ~store[s].poisoned
  /\ store[s].leaky => store[s].poisoned \/ At(s, "rollback")
  /\ store[s].pc \in Stagers \cup {"rollback"} => store[s].next = "staged"
  /\ At(s, "capture") => store[s].next # "none" /\ store[s].gen \in Generations
  /\ At(s, "swap") => store[s].next = "swap"
  /\ At(s, "idle") => store[s].next = "none"
  /\ At(s, "load") => store[s].next # "staged"
  /\ ~At(s, "idle") /\ store[s].next = "staged" => store[s].gen \in MayStage[s]
  /\ store[s].pc \in {"capture", "swap"} /\ store[s].next = "swap" =>
       store[s].gen \in MayStage[s]
  /\ store[s].pc \in Stagers =>
       \A i \in DOMAIN store[s].created :
         \E j \in 1..(store[s].at - 1) : store[s].created[i] = Providers[j]

\* What the pre-read found is so still, except for what the call did itself.
Looked(s) ==
  /\ store[s].pc \in {"put", "create"} =>
       (store[s].existed <=> There(s) # Nothing)
  /\ At(s, "create") /\ Here(s) \in {"rabbitmq", "browser_session"} => ~store[s].existed
  /\ At(s, "fill") => ~store[s].existed
  /\ store[s].pc \in {"fill", "check"} =>
       /\ There(s) # Nothing
       /\ store[s].made <=> ~store[s].existed
       /\ store[s].made => There(s).by = Me(s)

\* What a stage call answers for is absent or its own, and never anything that
\* the pointer or an earlier stage call has promised.
Blamed(s) ==
  Staging(s) =>
    /\ \A i \in DOMAIN store[s].created :
         LET x == shard[store[s].created[i]][store[s].gen]
         IN  x # Nothing => x.by = Me(s)
    /\ Promised(store[s].gen) =>
         /\ store[s].created = <<>>
         /\ store[s].pc \in Stagers \ {"look"} => store[s].existed

\* What capture has read so far is still exact.
ReadExact(s) ==
  /\ At(s, "capture") /\ store[s].next \in {"staged", "swap"} =>
       \A i \in 1..(store[s].at - 1) : Exact(shard[Providers[i]][store[s].gen])
  /\ At(s, "swap") => Complete(store[s].gen)

\* A shard of this process is promised, or some call answers for it.
Answered(s) ==
  \A g \in Generations, p \in Kept :
    g \notin staged /\ shard[p][g] # Nothing /\ shard[p][g].by = Me(s) =>
      \/ store[s].poisoned /\ (store[s].leaky \/ g # store[s].failed)
      \/ /\ Staging(s) /\ g = store[s].gen
         /\ \/ store[s].leaky
            \/ \E i \in DOMAIN store[s].created : store[s].created[i] = p
            \/ store[s].pc \in {"fill", "check"} /\ p = Here(s) /\ store[s].made

StoreOK(s) == Shape(s) /\ Looked(s) /\ Blamed(s) /\ ReadExact(s) /\ Answered(s)

Types == /\ shard \in [Kept -> [Generations -> Shard \cup {Nothing}]]
         /\ active \in Generations \cup {Nothing}
         /\ staged \subseteq Generations
         /\ faults \in 0..MaxFaults /\ crashes \in 0..MaxCrashes
         /\ store \in [Stores -> Frame]

\* No shard is signed by a process still to come.
Signed == \A p \in Kept, g \in Generations :
            shard[p][g] # Nothing => shard[p][g].by[2] <= store[shard[p][g].by[1]].life

IInv == /\ Types
        /\ Signed
        /\ VisibleComplete /\ StagedStaysComplete
        /\ \A s \in Stores : StoreOK(s)
-------------------------------------------------------------------------------
(* What a step of one store leaves alone. *)

\* A step of s changes its own locals and its own generations.
Effect(s) ==
  /\ \A t \in Stores : t # s => store'[t] = store[t]
  /\ \A p \in Kept, g \in Generations :
       \/ shard'[p][g] = shard[p][g]
       \/ /\ g \in MayStage[s]
          /\ shard'[p][g] = Nothing \/ shard'[p][g].by[1] = s
  /\ active' = active \/ active' \in MayStage[s]
  /\ staged \subseteq staged'
  /\ \A g \in staged' : g \in staged \/ g \in MayStage[s]

LEMMA Kinds ==
  /\ DOMAIN Providers = 1..Len(Providers) /\ Len(Providers) \in Nat /\ Len(Providers) >= 1
  /\ \A i \in DOMAIN Providers : Providers[i] \in Kept
  /\ \A p \in Kept : \E i \in DOMAIN Providers : Providers[i] = p
  /\ \A p \in Kept : p \in OneStep \cup Files \cup {"rabbitmq"}
  /\ \A i, j \in DOMAIN Providers : Providers[i] = Providers[j] => i = j
BY ProvidersAssumption DEF Kept, Range

\* With one writer, a step of s leaves what holds of the other stores.
LEMMA Elsewhere ==
  ASSUME IInv, OneWriter, NEW s \in Stores, Effect(s), NEW t \in Stores, t # s
  PROVE  StoreOK(t)'
<1>1. store'[t] = store[t] /\ StoreOK(t) /\ store[t] \in Frame
  BY DEF Effect, IInv, Types
<1>2. \A g \in MayStage[t] : g \notin MayStage[s] /\ g \in Generations
  BY StoresAssumption DEF OneWriter
<1>3. \A p \in Kept, g \in MayStage[t] : shard'[p][g] = shard[p][g]
  BY <1>2 DEF Effect
<1>4. \A g \in MayStage[t] : Promised(g)' => Promised(g)
  BY <1>2 DEF Effect, Promised
<1>5. Shape(t)'
  BY <1>1 DEF StoreOK, Shape, At
<1>6. Looked(t)'
  <2>1. CASE At(t, "idle") \/ At(t, "load") \/ At(t, "swap") \/ At(t, "capture")
    BY <2>1, <1>1 DEF Looked, At
  <2>2. CASE store[t].pc \in Stagers \cup {"rollback"}
    <3>1. store[t].gen \in MayStage[t]
      BY <2>2, <1>1 DEF StoreOK, Shape, At, Stagers
    <3>2. Here(t)' = Here(t) /\ Here(t) \in Kept /\ Me(t)' = Me(t)
      BY <1>1, Kinds DEF Here, Me, Frame
    <3>3. There(t)' = There(t)
      BY <1>1, <1>3, <3>1, <3>2 DEF There
    <3> QED BY <1>1, <3>2, <3>3 DEF StoreOK, Looked, At
  <2> QED BY <2>1, <2>2, <1>1 DEF At, Frame, Pcs
<1>7. Blamed(t)'
  <2> SUFFICES ASSUME Staging(t) PROVE Blamed(t)'
    BY <1>1 DEF Blamed, Staging
  <2>1. store[t].gen \in MayStage[t]
    BY <1>1 DEF StoreOK, Shape, Staging, At, Stagers
  <2>2. \A i \in DOMAIN store[t].created : store[t].created[i] \in Kept
    BY <1>1 DEF Frame
  <2>3. Me(t)' = Me(t)
    BY <1>1 DEF Me
  <2>4. \A i \in DOMAIN store[t].created :
          shard'[store[t].created[i]][store[t].gen] = shard[store[t].created[i]][store[t].gen]
    BY <2>1, <2>2, <1>3
  <2>5. Blamed(t)
    BY <1>1 DEF StoreOK
  <2>6. Promised(store[t].gen)' => Promised(store[t].gen)
    BY <1>1, <1>4, <2>1 DEF Promised
  <2> QED BY <1>1, <2>3, <2>4, <2>5, <2>6 DEF Blamed
<1>8. ReadExact(t)'
  <2> SUFFICES ASSUME store[t].pc \in {"capture", "swap"}, store[t].gen \in MayStage[t]
               PROVE  ReadExact(t)'
    BY <1>1 DEF StoreOK, Shape, ReadExact, At
  <2>1. Complete(store[t].gen) => Complete(store[t].gen)'
    BY <1>1, <1>3 DEF Complete
  <2>2. \A i \in 1..(store[t].at - 1) :
          shard'[Providers[i]][store[t].gen] = shard[Providers[i]][store[t].gen]
    <3>1. \A i \in 1..(store[t].at - 1) : i \in DOMAIN Providers
      BY <1>1, Kinds DEF Frame
    <3> QED BY <3>1, Kinds, <1>3
  <2> QED BY <1>1, <2>1, <2>2 DEF StoreOK, ReadExact, At, Exact
<1>9. Answered(t)'
  <2> SUFFICES ASSUME NEW g \in Generations, NEW p \in Kept,
                      g \notin staged', shard'[p][g] # Nothing, shard'[p][g].by = Me(t)
               PROVE  \/ store[t].poisoned /\ (store[t].leaky \/ g # store[t].failed)
                      \/ /\ Staging(t) /\ g = store[t].gen
                         /\ \/ store[t].leaky
                            \/ \E i \in DOMAIN store[t].created : store[t].created[i] = p
                            \/ store[t].pc \in {"fill", "check"} /\ p = Here(t) /\ store[t].made
    BY <1>1 DEF Answered, Staging, Here, Me
  <2>1. shard'[p][g] = shard[p][g] /\ g \notin staged
    BY DEF Effect, Me
  <2> QED BY <1>1, <2>1 DEF StoreOK, Answered
<1> QED BY <1>5, <1>6, <1>7, <1>8, <1>9 DEF StoreOK

LEMMA Calls ==
  ASSUME IInv, NEW s \in Stores
  PROVE  /\ store[s] \in Frame /\ StoreOK(s)
         /\ store[s].gen \in Generations \cup {Nothing}
         /\ store[s].at \in 1..Len(Providers) /\ Len(Providers) \in Nat
         /\ Here(s) \in Kept
         /\ store[s].created \in Seq(Kept)
         /\ store[s].life \in 1..(crashes + 1) /\ crashes \in Nat
         /\ store[s].existed \in BOOLEAN /\ store[s].made \in BOOLEAN
         /\ store[s].poisoned \in BOOLEAN /\ store[s].leaky \in BOOLEAN
         /\ store[s].pc \in Pcs
         /\ store[s].next \in {"none", "staged", "swap", "loaded"}
BY Kinds DEF IInv, Types, Frame, Here

LEMMA BlamedLater ==
  ASSUME NEW s,
         \A i \in DOMAIN store'[s].created :
           shard'[store'[s].created[i]][store'[s].gen] # Nothing =>
             shard'[store'[s].created[i]][store'[s].gen].by = Me(s)',
         store'[s].gen \in staged' \/ store'[s].gen = active' =>
           /\ store'[s].created = <<>>
           /\ store'[s].pc \in Stagers \ {"look"} => store'[s].existed
  PROVE  Blamed(s)'
BY DEF Blamed, Promised

LEMMA Framed == ASSUME IInv, NEW s \in Stores PROVE store[s] \in Frame
BY DEF IInv, Types

\* A step that touches no shard, pointer or promise.
LEMMA Quiet ==
  ASSUME IInv, OneWriter, NEW s \in Stores, NEW q,
         UNCHANGED <<shard, active, staged>>,
         store' = [store EXCEPT ![s] = q], q \in Frame', q.life >= store[s].life,
         faults' \in 0..MaxFaults, crashes' \in 0..MaxCrashes, crashes' >= crashes,
         StoreOK(s)'
  PROVE  IInv'
<1>1. store \in [Stores -> Frame] /\ store'[s] = q
      /\ \A t \in Stores : t # s => store'[t] = store[t]
  BY DEF IInv, Types
<1>2. Effect(s)
  BY <1>1 DEF Effect
<1>3. Types'
  <2>1. \A t \in Stores : store[t] \in Frame'
    BY <1>1, BoundsAssumption DEF IInv, Types, Frame
  <2>2. store' \in [Stores -> Frame']
    BY <1>1, <2>1
  <2> QED BY <2>2 DEF IInv, Types
<1>4. Signed'
  <2> SUFFICES ASSUME NEW p \in Kept, NEW g \in Generations, shard[p][g] # Nothing
               PROVE  shard[p][g].by[2] <= store'[shard[p][g].by[1]].life
    BY DEF Signed
  <2>1. shard[p][g] \in Shard
    BY DEF IInv, Types
  <2>2. /\ shard[p][g].by[1] \in Stores /\ shard[p][g].by[2] \in Int
        /\ shard[p][g].by[2] <= store[shard[p][g].by[1]].life
    BY <2>1, BoundsAssumption DEF Shard, Lives, IInv, Signed
  <2>3. \A t \in Stores : store[t].life \in Int /\ store'[t].life \in Int
    BY <1>3, BoundsAssumption DEF IInv, Types, Frame
  <2>4. \A t \in Stores : store'[t].life >= store[t].life
    BY <1>1, <2>3
  <2> QED BY <2>2, <2>3, <2>4
<1>5. VisibleComplete' /\ StagedStaysComplete'
  BY DEF IInv, VisibleComplete, StagedStaysComplete, Complete
<1>6. \A t \in Stores : StoreOK(t)'
  BY <1>2, Elsewhere
<1> QED BY <1>3, <1>4, <1>5, <1>6 DEF IInv

LEMMA Bounds ==
  ASSUME IInv, Fault \/ NoFault, UNCHANGED crashes
  PROVE  /\ faults' \in 0..MaxFaults /\ crashes' \in 0..MaxCrashes /\ crashes' >= crashes
         /\ Frame' = Frame
<1>1. faults \in 0..MaxFaults /\ crashes \in 0..MaxCrashes
  BY DEF IInv, Types
<1> QED BY <1>1, BoundsAssumption DEF Fault, NoFault, Frame

\* The same of a step that writes or deletes the shard at hand, which nobody
\* has been promised.
LEMMA Writes ==
  ASSUME IInv, OneWriter, NEW s \in Stores, NEW q, NEW p \in Kept, NEW x,
         x = Nothing \/ (x \in Shard /\ x.by = Me(s)),
         store[s].gen \in MayStage[s], ~Promised(store[s].gen),
         shard' = [shard EXCEPT ![p][store[s].gen] = x],
         UNCHANGED <<active, staged, crashes>>, Fault \/ NoFault,
         store' = [store EXCEPT ![s] = q], q \in Frame, q.life = store[s].life,
         StoreOK(s)'
  PROVE  IInv'
<1> DEFINE G == store[s].gen
<1>1. store \in [Stores -> Frame] /\ store'[s] = q
      /\ \A t \in Stores : t # s => store'[t] = store[t]
  BY DEF IInv, Types
<1>2. G \in Generations
  BY StoresAssumption
<1>3. \A r \in Kept, g \in Generations :
        shard'[r][g] = IF r = p /\ g = G THEN x ELSE shard[r][g]
  BY <1>2 DEF IInv, Types
<1>4. Effect(s)
  <2>1. x = Nothing \/ x.by[1] = s
    BY DEF Me
  <2> QED BY <1>1, <1>3, <2>1 DEF Effect
<1>5. Types'
  <2>1. store' \in [Stores -> Frame]
    BY <1>1
  <2>2. shard' \in [Kept -> [Generations -> Shard \cup {Nothing}]]
    BY <1>2 DEF IInv, Types
  <2> QED BY <2>1, <2>2, Bounds DEF IInv, Types
<1>6. Signed'
  <2> SUFFICES ASSUME NEW r \in Kept, NEW g \in Generations, shard'[r][g] # Nothing
               PROVE  shard'[r][g].by[2] <= store'[shard'[r][g].by[1]].life
    BY DEF Signed
  <2>1. CASE r = p /\ g = G
    <3>1. shard'[r][g] = x /\ x.by = <<s, store[s].life>>
      BY <2>1, <1>3 DEF Me
    <3>2. store'[s].life = store[s].life /\ store[s].life \in Int
      BY <1>1, Calls
    <3> QED BY <3>1, <3>2
  <2>2. CASE ~(r = p /\ g = G)
    <3>1. shard'[r][g] = shard[r][g]
      BY <2>2, <1>3
    <3>2. shard[r][g] \in Shard
      BY <3>1 DEF IInv, Types
    <3>3. shard[r][g].by[1] \in Stores /\ shard[r][g].by[2] <= store[shard[r][g].by[1]].life
      BY <3>1, <3>2 DEF Shard, IInv, Signed
    <3>4. \A t \in Stores : store'[t].life = store[t].life
      BY <1>1
    <3> QED BY <3>1, <3>3, <3>4
  <2> QED BY <2>1, <2>2
<1>7. \A g \in Generations : Promised(g) /\ Complete(g) => Complete(g)'
  BY <1>3 DEF Complete, Exact
<1>8. VisibleComplete' /\ StagedStaysComplete'
  BY <1>7 DEF IInv, Types, VisibleComplete, StagedStaysComplete, Promised
<1>9. \A t \in Stores : StoreOK(t)'
  BY <1>4, Elsewhere
<1> QED BY <1>5, <1>6, <1>8, <1>9 DEF IInv

\* The steps that end a call, or begin its roll-back, by what they leave behind.
LEMMA Returns ==
  ASSUME IInv, NEW s \in Stores, Return(s), UNCHANGED <<shard, crashes>>,
         ~store[s].poisoned,
         Staging(s) => store[s].gen \in staged',
         staged \subseteq staged'
  PROVE  /\ StoreOK(s)' /\ store' = [store EXCEPT ![s] = Fresh(store[s].life)]
         /\ Fresh(store[s].life) \in Frame
         /\ Fresh(store[s].life).life = store[s].life
<1> DEFINE q == Fresh(store[s].life)
<1>1. store' = [store EXCEPT ![s] = q] /\ store \in [Stores -> Frame]
  BY DEF Return, IInv, Types
<1>2. store'[s] = q
  BY <1>1
<1>3. q \in Frame
  <2>1. 1 \in DOMAIN Providers /\ <<>> \in Seq(Kept) /\ "idle" \in Pcs
        /\ store[s].life \in 1..(crashes + 1)
    BY Kinds, Calls DEF Pcs
  <2> QED BY <2>1 DEF Fresh, Frame
<1>4. /\ q.pc = "idle" /\ ~q.poisoned /\ q.failed = Nothing /\ ~q.leaky
      /\ q.life = store[s].life /\ q.next = "none"
  BY DEF Fresh
<1> HIDE DEF q
<1>5. Shape(s)' /\ Looked(s)' /\ Blamed(s)' /\ ReadExact(s)'
  BY <1>2, <1>4 DEF Shape, Looked, Blamed, ReadExact, At, Staging, Stagers
<1>6. Answered(s)'
  BY <1>2, <1>4, Calls DEF Answered, StoreOK, Me, Staging
<1> QED BY <1>1, <1>3, <1>4, <1>5, <1>6 DEF StoreOK, q

LEMMA Poisons ==
  ASSUME IInv, NEW s \in Stores, Poison(s), UNCHANGED <<shard, staged, crashes>>,
         ~store[s].poisoned,
         Staging(s) => At(s, "rollback") /\ store[s].created = <<>>
  PROVE  /\ StoreOK(s)'
         /\ \E q \in Frame : store' = [store EXCEPT ![s] = q] /\ q.life = store[s].life
<1> DEFINE b == IF store[s].next = "staged" THEN store[s].gen ELSE Nothing
           q == [Fresh(store[s].life) EXCEPT !.poisoned = TRUE, !.leaky = store[s].leaky,
                                             !.failed = b]
<1>1. store' = [store EXCEPT ![s] = q] /\ store \in [Stores -> Frame]
  BY DEF Poison, IInv, Types
<1>2. store'[s] = q
  BY <1>1
<1>3. q \in Frame /\ b \in Generations \cup {Nothing}
  <2>1. 1 \in DOMAIN Providers /\ <<>> \in Seq(Kept) /\ "idle" \in Pcs
        /\ store[s].life \in 1..(crashes + 1) /\ store[s].leaky \in BOOLEAN
        /\ b \in Generations \cup {Nothing}
    BY Kinds, Calls DEF Pcs
  <2> HIDE DEF b
  <2>2. Fresh(store[s].life) \in Frame
    BY <2>1 DEF Fresh, Frame
  <2> QED BY <2>1, <2>2 DEF Frame
<1>4. /\ q.pc = "idle" /\ q.poisoned /\ q.failed = b /\ (q.leaky <=> store[s].leaky)
      /\ q.life = store[s].life /\ q.next = "none"
  <2> HIDE DEF b
  <2> QED BY Calls DEF Fresh
<1>5. (b # Nothing /\ Staging(s) => b = store[s].gen)
  OBVIOUS
<1>6. Staging(s) => b = store[s].gen
  BY DEF Staging
<1> HIDE DEF q, b
<1>7. Shape(s)' /\ Looked(s)' /\ Blamed(s)' /\ ReadExact(s)'
  BY <1>2, <1>4 DEF Shape, Looked, Blamed, ReadExact, At, Staging, Stagers
<1>8. Answered(s)'
  <2>1. ~ \E i \in DOMAIN <<>> : TRUE
    OBVIOUS
  <2> QED BY <1>2, <1>4, <1>6, <2>1, Calls DEF Answered, StoreOK, Me, Staging, At
<1> QED BY <1>1, <1>3, <1>4, <1>7, <1>8 DEF StoreOK

LEMMA RollsBack ==
  ASSUME IInv, NEW s \in Stores, NEW created \in Seq(Kept), RollBackFrom(s, created),
         UNCHANGED <<active, staged, crashes>>, Staging(s),
         \A i \in DOMAIN created :
           LET x == shard'[created[i]][store[s].gen] IN x # Nothing => x.by = Me(s),
         Promised(store[s].gen) => created = <<>>,
         \A g \in Generations, p \in Kept :
           g \notin staged /\ shard'[p][g] # Nothing /\ shard'[p][g].by = Me(s) =>
             g = store[s].gen /\ \E i \in DOMAIN created : created[i] = p
  PROVE  /\ StoreOK(s)'
         /\ \E q \in Frame : store' = [store EXCEPT ![s] = q] /\ q.life = store[s].life
<1> DEFINE q == [store[s] EXCEPT !.pc = "rollback", !.created = created]
<1>1. store' = [store EXCEPT ![s] = q] /\ store \in [Stores -> Frame]
  BY DEF RollBackFrom, IInv, Types
<1>2. store'[s] = q
  BY <1>1
<1>3. q \in Frame
  <2>1. store[s] \in Frame /\ "rollback" \in Pcs
    BY Calls DEF Pcs
  <2> QED BY <2>1 DEF Frame
<1>4. /\ q.pc = "rollback" /\ q.created = created /\ q.gen = store[s].gen
      /\ q.life = store[s].life /\ q.next = store[s].next
      /\ (q.poisoned <=> store[s].poisoned) /\ q.failed = store[s].failed
  BY Framed DEF Frame
<1> HIDE DEF q
<1>5. Shape(s)' /\ Looked(s)' /\ ReadExact(s)'
  BY <1>2, <1>4, Calls DEF StoreOK, Shape, Looked, ReadExact, At, Staging, Stagers
<1>6. Blamed(s)'
  BY <1>2, <1>4 DEF Blamed, Promised, Staging, Me, Stagers
<1>7. Answered(s)'
  BY <1>2, <1>4 DEF Answered, Staging, Me
<1> QED BY <1>1, <1>3, <1>4, <1>5, <1>6, <1>7 DEF StoreOK

LEMMA PromisedWhole ==
  ASSUME IInv, NEW g \in Generations, Promised(g)
  PROVE  Complete(g) /\ \A p \in Kept : shard[p][g] # Nothing
BY NothingAssumption DEF IInv, Promised, VisibleComplete, StagedStaysComplete, Complete, Exact

\* What a stager that fails is blamed for is absent or this call's own, also when
\* the shard was created and the reply lost.
LEMMA Blames ==
  ASSUME IInv, NEW s \in Stores, store[s].pc \in Stagers \ {"look"}, NEW x,
         \/ shard' = shard
         \/ /\ ~store[s].existed /\ x.by = Me(s)
            /\ shard' = [shard EXCEPT ![Here(s)][store[s].gen] = x]
  PROVE  LET c == BlameStager(s)
         IN  /\ c \in Seq(Kept)
             /\ \A i \in DOMAIN c :
                  shard'[c[i]][store[s].gen] # Nothing =>
                    shard'[c[i]][store[s].gen].by = Me(s)
             /\ Promised(store[s].gen) => c = <<>>
             /\ \A g \in Generations, p \in Kept :
                  g \notin staged /\ shard'[p][g] # Nothing /\ shard'[p][g].by = Me(s) =>
                    g = store[s].gen /\ \E i \in DOMAIN c : c[i] = p
<1> DEFINE G == store[s].gen
           c == BlameStager(s)
           d == store[s].created
<1>1. /\ G \in Generations /\ Here(s) \in Kept /\ d \in Seq(Kept)
      /\ Staging(s) /\ ~store[s].poisoned /\ ~store[s].leaky
  BY Calls, StoresAssumption DEF StoreOK, Shape, At, Staging, Stagers
<1>2. \A p \in Kept, g \in Generations :
        shard'[p][g] = shard[p][g] \/ (~store[s].existed /\ p = Here(s) /\ g = G /\ shard'[p][g] = x)
  BY <1>1 DEF IInv, Types
<1>3. \A i \in DOMAIN d : d[i] \in Kept /\ (shard[d[i]][G] # Nothing => shard[d[i]][G].by = Me(s))
  <2>1. Blamed(s)
    BY Calls DEF StoreOK
  <2> QED BY <1>1, <2>1 DEF Blamed
<1>4. Promised(G) => d = <<>> /\ store[s].existed
  BY <1>1, Calls DEF StoreOK, Blamed
<1>5. \A g \in Generations, p \in Kept :
        g \notin staged /\ shard[p][g] # Nothing /\ shard[p][g].by = Me(s) =>
          /\ g = G
          /\ (\E i \in DOMAIN d : d[i] = p) \/ (p = Here(s) /\ ~store[s].existed)
  BY <1>1, Calls DEF StoreOK, Answered, Looked
<1>6. CASE store[s].existed
  <2>1. c = d
    BY <1>6 DEF BlameStager
  <2>2. \A p \in Kept, g \in Generations : shard'[p][g] = shard[p][g]
    BY <1>2, <1>6
  <2> HIDE DEF c, d
  <2> QED BY <1>1, <1>3, <1>4, <1>5, <1>6, <2>1, <2>2 DEF c
<1>7. CASE ~store[s].existed
  <2>1. c = Append(d, Here(s))
    BY <1>7 DEF BlameStager
  <2>2. shard[Here(s)][G] # Nothing => shard[Here(s)][G].by = Me(s)
    BY <1>7, <1>1, Calls DEF StoreOK, Looked, There, At, Stagers
  <2> HIDE DEF c, d
  <2>3. /\ c \in Seq(Kept) /\ Len(d) \in Nat /\ DOMAIN d = 1..Len(d) /\ DOMAIN c = 1..(Len(d) + 1)
        /\ c[Len(d) + 1] = Here(s) /\ \A i \in DOMAIN d : i \in DOMAIN c /\ c[i] = d[i]
    BY <2>1, <1>1
  <2>4. \A i \in DOMAIN c : i \in DOMAIN d \/ i = Len(d) + 1
    BY <2>3
  <2>5. \A p \in Kept : shard[p][G] # Nothing /\ (p = Here(s) \/ \E i \in DOMAIN d : d[i] = p)
                          => shard[p][G].by = Me(s)
    BY <1>3, <2>2
  <2>6. \A p \in Kept : shard'[p][G] # Nothing /\ (p = Here(s) \/ \E i \in DOMAIN d : d[i] = p)
                          => shard'[p][G].by = Me(s)
    BY <1>1, <1>2, <2>5
  <2>7. \A i \in DOMAIN c : shard'[c[i]][G] # Nothing => shard'[c[i]][G].by = Me(s)
    BY <2>3, <2>4, <2>6, <1>1, <1>3
  <2>8. ~Promised(G)
    BY <1>4, <1>7
  <2>9. \A g \in Generations, p \in Kept :
          g \notin staged /\ shard'[p][g] # Nothing /\ shard'[p][g].by = Me(s) =>
            g = G /\ \E i \in DOMAIN c : c[i] = p
    <3> SUFFICES ASSUME NEW g \in Generations, NEW p \in Kept, g \notin staged,
                        shard'[p][g] # Nothing, shard'[p][g].by = Me(s)
                 PROVE  g = G /\ \E i \in DOMAIN c : c[i] = p
      OBVIOUS
    <3>1. g = G /\ (p = Here(s) \/ \E i \in DOMAIN d : d[i] = p)
      BY <1>2, <1>5
    <3>2. Len(d) + 1 \in DOMAIN c
      BY <2>3
    <3> QED BY <3>1, <3>2, <2>3
  <2> QED BY <2>3, <2>7, <2>8, <2>9 DEF c
<1> QED BY <1>6, <1>7

LEMMA StagerFailsStep ==
  ASSUME IInv, OneWriter, NEW s \in Stores, store[s].pc \in Stagers \ {"look"},
         StagerFails(s), Fault \/ NoFault, UNCHANGED <<shard, active, staged, crashes>>
  PROVE  IInv'
<1>1. Staging(s) /\ BlameStager(s) \in Seq(Kept) /\ RollBackFrom(s, BlameStager(s))
  BY Blames, Calls DEF StoreOK, Shape, Staging, Stagers, StagerFails
<1>2. /\ StoreOK(s)'
      /\ \E q \in Frame : store' = [store EXCEPT ![s] = q] /\ q.life = store[s].life
  BY <1>1, Blames, RollsBack
<1>3. PICK q \in Frame : store' = [store EXCEPT ![s] = q] /\ q.life = store[s].life
  BY <1>2
<1>4. q \in Frame' /\ q.life >= store[s].life
  BY <1>3, Bounds, Calls
<1> QED BY <1>2, <1>3, <1>4, Bounds, Quiet

\* The same when nothing was tried, or the shard is another's.
LEMMA KeepsStep ==
  ASSUME IInv, OneWriter, NEW s \in Stores, Staging(s),
         store[s].pc \in {"look", "check", "capture"}, At(s, "check") => ~store[s].made,
         RollBackFrom(s, store[s].created), Fault \/ NoFault,
         UNCHANGED <<shard, active, staged, crashes>>
  PROVE  IInv'
<1>1. ~store[s].leaky /\ ~store[s].poisoned /\ store[s].created \in Seq(Kept)
  BY Calls DEF StoreOK, Shape, At
<1>2. /\ \A i \in DOMAIN store[s].created :
            LET x == shard'[store[s].created[i]][store[s].gen] IN x # Nothing => x.by = Me(s)
      /\ Promised(store[s].gen) => store[s].created = <<>>
  BY Calls DEF StoreOK, Blamed
<1>3. \A g \in Generations, p \in Kept :
        g \notin staged /\ shard'[p][g] # Nothing /\ shard'[p][g].by = Me(s) =>
          g = store[s].gen /\ \E i \in DOMAIN store[s].created : store[s].created[i] = p
  BY <1>1, Calls DEF StoreOK, Answered, At
<1>4. /\ StoreOK(s)'
      /\ \E q \in Frame : store' = [store EXCEPT ![s] = q] /\ q.life = store[s].life
  BY <1>1, <1>2, <1>3, RollsBack
<1>5. PICK q \in Frame : store' = [store EXCEPT ![s] = q] /\ q.life = store[s].life
  BY <1>4
<1>6. q \in Frame' /\ q.life >= store[s].life
  BY <1>5, Bounds, Calls
<1> QED BY <1>4, <1>5, <1>6, Bounds, Quiet

LEMMA ReturnStep ==
  ASSUME IInv, OneWriter, NEW s \in Stores, Return(s), ~store[s].poisoned, ~Staging(s),
         Fault \/ NoFault, UNCHANGED <<shard, active, staged, crashes>>
  PROVE  IInv'
<1>1. /\ StoreOK(s)' /\ store' = [store EXCEPT ![s] = Fresh(store[s].life)]
      /\ Fresh(store[s].life) \in Frame' /\ Fresh(store[s].life).life >= store[s].life
  BY Returns, Bounds, Calls
<1> QED BY <1>1, Bounds, Quiet

LEMMA PoisonStep ==
  ASSUME IInv, OneWriter, NEW s \in Stores, Poison(s), ~store[s].poisoned,
         Staging(s) => At(s, "rollback") /\ store[s].created = <<>>,
         Fault \/ NoFault, UNCHANGED <<shard, active, staged, crashes>>
  PROVE  IInv'
<1>1. PICK q \in Frame : store' = [store EXCEPT ![s] = q] /\ q.life = store[s].life
  BY Poisons
<1>2. StoreOK(s)'
  BY Poisons
<1>3. q \in Frame' /\ q.life >= store[s].life
  BY <1>1, Bounds, Calls
<1> QED BY <1>1, <1>2, <1>3, Bounds, Quiet
-------------------------------------------------------------------------------
(* The actions. *)

LEMMA StageStep ==
  ASSUME IInv, OneWriter, NEW s \in Stores, NEW g \in Generations, Stage(s, g)
  PROVE  IInv'
<1> DEFINE q == [store[s] EXCEPT !.pc = "look", !.gen = g, !.at = 1,
                                 !.created = <<>>, !.next = "staged"]
<1>0. store \in [Stores -> Frame] /\ UNCHANGED <<shard, active, staged, faults, crashes>>
      /\ At(s, "idle") /\ ~store[s].poisoned /\ g \in MayStage[s]
  BY DEF IInv, Types, Stage
<1>1. store' = [store EXCEPT ![s] = q]
  BY <1>0 DEF Stage
<1>f. Frame' = Frame /\ q \in Frame
  <2>1. store[s] \in Frame /\ g \in Generations /\ 1 \in DOMAIN Providers /\ <<>> \in Seq(Kept)
        /\ "look" \in Pcs
    BY Calls, Kinds DEF Pcs, Stagers
  <2> QED BY <2>1, <1>0 DEF Frame
<1>2. /\ q.life = store[s].life
      /\ q.pc = "look" /\ q.gen = g /\ q.at = 1 /\ q.created = <<>> /\ q.next = "staged"
      /\ q.poisoned = store[s].poisoned /\ q.failed = store[s].failed /\ q.leaky = store[s].leaky
  BY Framed DEF Frame
<1>3. store'[s] = q
  BY <1>0, <1>1
<1> HIDE DEF q
<1>4. StoreOK(s)'
  <2>1. Shape(s)'
    BY <1>0, <1>2, <1>3, Calls DEF StoreOK, Shape, At, Stagers
  <2>2. Looked(s)' /\ ReadExact(s)' /\ Blamed(s)'
    BY <1>2, <1>3 DEF Looked, ReadExact, Blamed, At, Staging
  <2>3. Answered(s)'
    <3>1. \A h \in Generations, p \in Kept :
            ~(h \notin staged /\ shard[p][h] # Nothing /\ shard[p][h].by = Me(s))
      BY <1>0, Calls DEF StoreOK, Answered, At, Staging, Stagers
    <3>2. Me(s)' = Me(s)
      BY <1>2, <1>3 DEF Me
    <3> QED BY <1>0, <3>1, <3>2 DEF Answered
  <2> QED BY <2>1, <2>2, <2>3 DEF StoreOK
<1>5. faults' \in 0..MaxFaults /\ crashes' \in 0..MaxCrashes /\ crashes' >= crashes
  BY <1>0, BoundsAssumption DEF IInv, Types
<1>6. q.life >= store[s].life
  BY <1>2, Calls
<1> QED BY <1>0, <1>1, <1>f, <1>4, <1>5, <1>6, Quiet

LEMMA LookStep ==
  ASSUME IInv, OneWriter, NEW s \in Stores, Look(s)
  PROVE  IInv'
<1>0. /\ At(s, "look") /\ UNCHANGED <<shard, active, staged, crashes>> /\ (Fault \/ NoFault)
      /\ Staging(s) /\ ~store[s].poisoned /\ store[s].gen \in Generations
  BY Calls, StoresAssumption DEF Look, StoreOK, Shape, At, Staging, Stagers
<1>1. CASE RollBackFrom(s, store[s].created)
  BY <1>0, <1>1, KeepsStep DEF At
<1>2. CASE store' = [store EXCEPT ![s].pc = "put", ![s].existed = There(s) # Nothing]
  <2> DEFINE e == (There(s) # Nothing)
             q == [store[s] EXCEPT !.pc = "put", !.existed = e]
  <2>1. store' = [store EXCEPT ![s] = q] /\ store'[s] = q
    BY <1>2 DEF IInv, Types
  <2>2. q \in Frame
    <3>1. store[s] \in Frame /\ "put" \in Pcs /\ e \in BOOLEAN
      BY Calls DEF Pcs, Stagers
    <3> HIDE DEF e
    <3> QED BY <3>1 DEF Frame
  <2>3. /\ q.pc = "put" /\ (q.existed <=> e) /\ q.at = store[s].at /\ q.gen = store[s].gen
        /\ q.created = store[s].created /\ q.next = store[s].next /\ q.life = store[s].life
        /\ (q.poisoned <=> store[s].poisoned) /\ q.failed = store[s].failed
        /\ (q.leaky <=> store[s].leaky)
    <3> HIDE DEF e
    <3> QED BY Framed, ZenonT(60) DEF Frame
  <2> HIDE DEF q, e
  <2>4. Shape(s)'
    BY <1>0, <2>1, <2>3, Calls DEF StoreOK, Shape, At, Stagers
  <2>5. Looked(s)'
    BY <1>0, <2>1, <2>3 DEF Looked, At, There, Here, e
  <2>6. Blamed(s)'
    <3>1. Promised(store[s].gen) => e
      BY <1>0, PromisedWhole, Calls DEF There, e
    <3>2. Me(s)' = Me(s)
      BY <2>1, <2>3 DEF Me
    <3>3. /\ \A i \in DOMAIN store[s].created :
               shard[store[s].created[i]][store[s].gen] # Nothing =>
                 shard[store[s].created[i]][store[s].gen].by = Me(s)
          /\ Promised(store[s].gen) => store[s].created = <<>>
      BY <1>0, Calls DEF StoreOK, Blamed
    <3>4. store[s].gen \in staged' \/ store[s].gen = active' => store[s].created = <<>> /\ e
      BY <1>0, <3>1, <3>3 DEF Promised
    <3>5. store'[s].gen = store[s].gen /\ store'[s].created = store[s].created
          /\ (store'[s].existed <=> e) /\ shard' = shard
      BY <1>0, <2>1, <2>3
    <3> QED BY <3>2, <3>3, <3>4, <3>5, BlamedLater
  <2>7. ReadExact(s)' /\ Answered(s)'
    BY <1>0, <2>1, <2>3, Calls DEF StoreOK, ReadExact, Answered, Staging, Me, At, Stagers
  <2>8. StoreOK(s)' /\ q \in Frame' /\ q.life >= store[s].life
    BY <1>0, <2>2, <2>3, <2>4, <2>5, <2>6, <2>7, Bounds, Calls DEF StoreOK
  <2> QED BY <1>0, <2>1, <2>8, Quiet, Bounds
<1> QED BY <1>1, <1>2 DEF Look

\* Only the line and what the stager made of the shard change.
Moved(s, q) ==
  /\ store' = [store EXCEPT ![s] = q] /\ store'[s] = q
  /\ q.at = store[s].at /\ q.gen = store[s].gen /\ q.created = store[s].created
  /\ q.next = store[s].next /\ q.life = store[s].life
  /\ q.existed <=> store[s].existed
  /\ q.poisoned <=> store[s].poisoned
  /\ q.failed = store[s].failed
  /\ q.leaky <=> store[s].leaky

\* A step between two lines of a stager.
LEMMA Moves ==
  ASSUME IInv, OneWriter, NEW s \in Stores, NEW q \in Frame,
         store[s].pc \in Stagers, q.pc \in Stagers \ {"look"},
         Moved(s, q), store[s].pc # "look",
         UNCHANGED <<active, staged>>,
         \A p \in Kept, g \in Generations :
           \/ shard'[p][g] = shard[p][g]
           \/ /\ p = Here(s) /\ g = store[s].gen /\ shard'[p][g].by = Me(s)
              /\ q.pc \in {"fill", "check"} /\ q.made,
         store[s].pc \in {"fill", "check"} /\ store[s].made => q.pc \in {"fill", "check"} /\ q.made,
         Looked(s)'
  PROVE  StoreOK(s)'
<1>1. /\ store'[s] = q
      /\ q.at = store[s].at /\ q.gen = store[s].gen /\ q.created = store[s].created
      /\ q.next = store[s].next /\ q.life = store[s].life
      /\ (q.existed <=> store[s].existed) /\ (q.poisoned <=> store[s].poisoned)
      /\ q.failed = store[s].failed /\ (q.leaky <=> store[s].leaky)
  BY DEF Moved
<1>2. Staging(s) /\ ~store[s].poisoned /\ store[s].gen \in Generations /\ Here(s) \in Kept
  BY Calls, StoresAssumption DEF StoreOK, Shape, At, Staging, Stagers
<1>3. Shape(s)'
  BY <1>1, <1>2, Calls DEF StoreOK, Shape, At, Stagers, Staging
<1>4. Blamed(s)'
  <2>1. \A i \in DOMAIN store[s].created : store[s].created[i] \in Kept
    BY Calls
  <2>2. Me(s)' = Me(s)
    BY <1>1 DEF Me
  <2>3. /\ \A i \in DOMAIN store[s].created :
             shard[store[s].created[i]][store[s].gen] # Nothing =>
               shard[store[s].created[i]][store[s].gen].by = Me(s)
        /\ Promised(store[s].gen) => store[s].created = <<>> /\ store[s].existed
    BY <1>2, Calls DEF StoreOK, Blamed
  <2>4. \A i \in DOMAIN store[s].created :
          shard'[store[s].created[i]][store[s].gen] # Nothing =>
            shard'[store[s].created[i]][store[s].gen].by = Me(s)
    BY <1>2, <2>1, <2>3
  <2>5. store[s].gen \in staged' \/ store[s].gen = active' =>
          store[s].created = <<>> /\ store[s].existed
    BY <2>3 DEF Promised
  <2>6. store'[s].gen = store[s].gen /\ store'[s].created = store[s].created
        /\ (store'[s].existed <=> store[s].existed)
    BY <1>1
  <2> QED BY <2>2, <2>4, <2>5, <2>6, BlamedLater
<1>5. ReadExact(s)'
  BY <1>1 DEF ReadExact, At, Stagers
<1>6. Answered(s)'
  <2> SUFFICES ASSUME NEW g \in Generations, NEW p \in Kept, g \notin staged,
                      shard'[p][g] # Nothing, shard'[p][g].by = Me(s)
               PROVE  /\ g = store[s].gen
                      /\ \/ \E i \in DOMAIN store[s].created : store[s].created[i] = p
                         \/ q.pc \in {"fill", "check"} /\ p = Here(s) /\ q.made
    BY <1>1, <1>2 DEF Answered, Staging, Me, Here, Stagers
  <2>1. CASE shard'[p][g] = shard[p][g]
    BY <2>1, <1>2, Calls DEF StoreOK, Answered, Shape, At, Stagers
  <2> QED BY <2>1
<1> QED BY <1>3, <1>4, <1>5, <1>6 DEF StoreOK

LEMMA Marked ==
  ASSUME IInv, NEW s \in Stores, NEW pc \in Stagers \ {"look"},
         store' = [store EXCEPT ![s].pc = pc, ![s].made = TRUE]
  PROVE  \E q \in Frame : Moved(s, q) /\ q.pc = pc /\ q.made
<1> DEFINE q == [store[s] EXCEPT !.pc = pc, !.made = TRUE]
<1>1. store[s] \in Frame /\ pc \in Pcs
  BY Calls DEF Pcs, Stagers
<1>2. q \in Frame /\ store' = [store EXCEPT ![s] = q] /\ store'[s] = q
  BY <1>1 DEF Frame, IInv, Types
<1>3. /\ q.pc = pc /\ q.made
      /\ q.at = store[s].at /\ q.gen = store[s].gen /\ q.created = store[s].created
      /\ q.next = store[s].next /\ q.life = store[s].life
      /\ (q.existed <=> store[s].existed) /\ (q.poisoned <=> store[s].poisoned)
      /\ q.failed = store[s].failed /\ (q.leaky <=> store[s].leaky)
  BY <1>1 DEF Frame
<1> HIDE DEF q
<1> QED BY <1>2, <1>3 DEF Moved

LEMMA Unmarked ==
  ASSUME IInv, NEW s \in Stores, NEW pc \in Stagers \ {"look"},
         store' = [store EXCEPT ![s].pc = pc, ![s].made = FALSE]
  PROVE  \E q \in Frame : Moved(s, q) /\ q.pc = pc /\ ~q.made
<1> DEFINE q == [store[s] EXCEPT !.pc = pc, !.made = FALSE]
<1>1. store[s] \in Frame /\ pc \in Pcs
  BY Calls DEF Pcs, Stagers
<1>2. q \in Frame /\ store' = [store EXCEPT ![s] = q] /\ store'[s] = q
  BY <1>1 DEF Frame, IInv, Types
<1>3. /\ q.pc = pc /\ ~q.made
      /\ q.at = store[s].at /\ q.gen = store[s].gen /\ q.created = store[s].created
      /\ q.next = store[s].next /\ q.life = store[s].life
      /\ (q.existed <=> store[s].existed) /\ (q.poisoned <=> store[s].poisoned)
      /\ q.failed = store[s].failed /\ (q.leaky <=> store[s].leaky)
  BY <1>1 DEF Frame
<1> HIDE DEF q
<1> QED BY <1>2, <1>3 DEF Moved

LEMMA Went ==
  ASSUME IInv, NEW s \in Stores, NEW pc \in Stagers \ {"look"}, Goto(s, pc)
  PROVE  \E q \in Frame : Moved(s, q) /\ q.pc = pc /\ (q.made <=> store[s].made)
<1> DEFINE q == [store[s] EXCEPT !.pc = pc]
<1>1. store[s] \in Frame /\ pc \in Pcs
  BY Calls DEF Pcs, Stagers
<1>2. q \in Frame /\ store' = [store EXCEPT ![s] = q] /\ store'[s] = q
  BY <1>1 DEF Frame, IInv, Types, Goto
<1>3. /\ q.pc = pc /\ (q.made <=> store[s].made)
      /\ q.at = store[s].at /\ q.gen = store[s].gen /\ q.created = store[s].created
      /\ q.next = store[s].next /\ q.life = store[s].life
      /\ (q.existed <=> store[s].existed) /\ (q.poisoned <=> store[s].poisoned)
      /\ q.failed = store[s].failed /\ (q.leaky <=> store[s].leaky)
  BY <1>1 DEF Frame
<1> HIDE DEF q
<1> QED BY <1>2, <1>3 DEF Moved

LEMMA Signing ==
  ASSUME IInv, NEW s \in Stores, NEW n \in 0..2, NEW x, x = [by |-> Me(s), copies |-> n]
  PROVE  x \in Shard /\ x.by = Me(s) /\ x # Nothing
<1>1. Me(s) \in Stores \X Lives
  <2>1. store[s].life \in 1..(crashes + 1) /\ crashes \in 0..MaxCrashes
    BY Calls DEF IInv, Types
  <2> QED BY <2>1, BoundsAssumption DEF Me, Lives
<1>2. x \in Shard
  BY <1>1 DEF Shard
<1> QED BY <1>2, NothingAssumption

LEMMA MoveStep ==
  ASSUME IInv, OneWriter, NEW s \in Stores, NEW q \in Frame,
         store[s].pc \in Stagers \ {"look"}, q.pc \in Stagers \ {"look"},
         Moved(s, q),
         UNCHANGED <<shard, active, staged, crashes>>, Fault \/ NoFault,
         store[s].pc \in {"fill", "check"} /\ store[s].made => q.pc \in {"fill", "check"} /\ q.made,
         Looked(s)'
  PROVE  IInv'
<1>1. StoreOK(s)'
  BY Moves
<1>2. q \in Frame' /\ q.life >= store[s].life
  BY Bounds, Calls DEF Moved
<1> QED BY <1>1, <1>2, Quiet, Bounds DEF Moved

LEMMA WriteStep ==
  ASSUME IInv, OneWriter, NEW s \in Stores, NEW q \in Frame, NEW x \in Shard,
         store[s].pc \in {"put", "create", "fill"}, q.pc \in {"fill", "check"}, q.made,
         Moved(s, q),
         x.by = Me(s), Write(s, x), ~store[s].existed,
         UNCHANGED <<active, staged, crashes>>, Fault \/ NoFault
  PROVE  IInv'
<1>1. /\ store' = [store EXCEPT ![s] = q] /\ store'[s] = q
      /\ q.at = store[s].at /\ q.gen = store[s].gen /\ q.created = store[s].created
      /\ q.next = store[s].next /\ q.life = store[s].life
      /\ (q.existed <=> store[s].existed) /\ (q.poisoned <=> store[s].poisoned)
      /\ q.failed = store[s].failed /\ (q.leaky <=> store[s].leaky)
  BY DEF Moved
<1>2. /\ Staging(s) /\ store[s].gen \in Generations /\ Here(s) \in Kept
      /\ store[s].gen \in MayStage[s] /\ ~Promised(store[s].gen)
  BY Calls, StoresAssumption DEF StoreOK, Shape, Blamed, At, Staging, Stagers
<1>3. shard' = [shard EXCEPT ![Here(s)][store[s].gen] = x] /\ x # Nothing
  BY NothingAssumption DEF Write
<1>4. \A p \in Kept, g \in Generations :
        shard'[p][g] = IF p = Here(s) /\ g = store[s].gen THEN x ELSE shard[p][g]
  BY <1>2, <1>3 DEF IInv, Types
<1>5. Here(s)' = Here(s) /\ There(s)' = x /\ Me(s)' = Me(s)
  BY <1>1, <1>2, <1>4 DEF Here, There, Me
<1>6. Looked(s)'
  BY <1>1, <1>3, <1>5 DEF Looked, At
<1>7. StoreOK(s)'
  BY <1>4, <1>6, Moves DEF Stagers
<1> QED BY <1>1, <1>2, <1>3, <1>7, Writes

LEMMA LostReplyStep ==
  ASSUME IInv, OneWriter, NEW s \in Stores, NEW x \in Shard,
         store[s].pc \in {"put", "create"}, There(s) = Nothing,
         x.by = Me(s), Write(s, x), StagerFails(s), Fault,
         UNCHANGED <<active, staged, crashes>>
  PROVE  IInv'
<1>1. ~store[s].existed
  BY Calls DEF StoreOK, Looked
<1>2. /\ Staging(s) /\ store[s].gen \in Generations /\ Here(s) \in Kept
      /\ store[s].gen \in MayStage[s] /\ ~Promised(store[s].gen)
  BY <1>1, Calls, StoresAssumption DEF StoreOK, Shape, Blamed, At, Staging, Stagers
<1>3. shard' = [shard EXCEPT ![Here(s)][store[s].gen] = x]
  BY DEF Write
<1>4. BlameStager(s) \in Seq(Kept) /\ RollBackFrom(s, BlameStager(s))
  BY <1>1, <1>3, Blames DEF Stagers, StagerFails
<1>5. /\ StoreOK(s)'
      /\ \E q \in Frame : store' = [store EXCEPT ![s] = q] /\ q.life = store[s].life
  <2>1. store[s].pc \in Stagers \ {"look"}
    BY DEF Stagers
  <2> QED BY <1>1, <1>2, <1>3, <1>4, <2>1, Blames, RollsBack
<1>6. PICK q \in Frame : store' = [store EXCEPT ![s] = q] /\ q.life = store[s].life
  BY <1>5
<1> QED BY <1>2, <1>3, <1>5, <1>6, Writes

\* A stager that finds the shard goes on to read it back.
LEMMA ExistingStep ==
  ASSUME IInv, OneWriter, NEW s \in Stores, store[s].pc \in {"put", "create"},
         There(s) # Nothing,
         store' = [store EXCEPT ![s].pc = "check", ![s].made = FALSE],
         UNCHANGED <<shard, active, staged, crashes>>, Fault \/ NoFault
  PROVE  IInv'
<1>1. PICK q \in Frame : Moved(s, q) /\ q.pc = "check" /\ ~q.made
  <2>1. "check" \in Stagers \ {"look"}
    BY DEF Stagers
  <2> QED BY <2>1, Unmarked
<1>2. Here(s)' = Here(s) /\ There(s)' = There(s)
  BY <1>1 DEF Here, There, Moved
<1>3. Looked(s)'
  BY <1>1, <1>2, Calls DEF StoreOK, Looked, At, Moved
<1>4. store[s].pc \in Stagers \ {"look"} /\ q.pc \in Stagers \ {"look"}
  BY <1>1 DEF Stagers
<1>5. store[s].pc \notin {"fill", "check"}
  OBVIOUS
<1> QED BY <1>1, <1>3, <1>4, <1>5, MoveStep

LEMMA PutRowStep ==
  ASSUME IInv, OneWriter, NEW s \in Stores, PutRow(s)
  PROVE  IInv'
<1> DEFINE New == [by |-> Me(s), copies |-> 1]
<1>0. /\ At(s, "put") /\ UNCHANGED <<active, staged, crashes>> /\ (Fault \/ NoFault)
      /\ store[s].pc = "put" /\ store[s].pc \in Stagers \ {"look"}
      /\ "check" \in Stagers \ {"look"}
  BY DEF PutRow, At, Stagers
<1>n. 1 \in 0..2
  OBVIOUS
<1>s. New \in Shard /\ New.by = Me(s)
  BY <1>n, Signing
<1>1. CASE There(s) = Nothing /\ Write(s, New)
           /\ store' = [store EXCEPT ![s].pc = "check", ![s].made = TRUE]
  <2>1. ~store[s].existed
    BY <1>0, <1>1, Calls DEF StoreOK, Looked
  <2> HIDE DEF New
  <2> QED BY <1>0, <1>1, <1>s, <2>1, Marked, WriteStep
<1>2. CASE There(s) # Nothing /\ UNCHANGED shard /\ NoFault
           /\ store' = [store EXCEPT ![s].pc = "check", ![s].made = FALSE]
  BY <1>0, <1>2, ExistingStep
<1>3. CASE There(s) = Nothing /\ Write(s, New) /\ Fault /\ StagerFails(s)
  <2> HIDE DEF New
  <2> QED BY <1>0, <1>3, <1>s, LostReplyStep
<1>4. CASE UNCHANGED shard /\ Fault /\ StagerFails(s)
  BY <1>0, <1>4, StagerFailsStep
<1> QED BY <1>1, <1>2, <1>3, <1>4 DEF PutRow

LEMMA LookAgainStep ==
  ASSUME IInv, OneWriter, NEW s \in Stores, LookAgain(s)
  PROVE  IInv'
<1>0. /\ At(s, "put") /\ UNCHANGED <<shard, active, staged, crashes>> /\ (Fault \/ NoFault)
      /\ store[s].pc = "put" /\ store[s].pc \in Stagers \ {"look"}
      /\ "create" \in Stagers \ {"look"}
  BY DEF LookAgain, At, Stagers
<1>1. CASE Here(s) \in Files \ {"browser_session"} /\ Goto(s, "create")
  <2>1. PICK q \in Frame : Moved(s, q) /\ q.pc = "create" /\ (q.made <=> store[s].made)
    BY <1>0, <1>1, Went
  <2>2. Here(s)' = Here(s) /\ There(s)' = There(s)
    BY <1>0, <2>1 DEF Here, There, Moved
  <2>3. Looked(s)'
    BY <1>0, <1>1, <2>1, <2>2, Calls DEF StoreOK, Looked, At, Files, Moved
  <2> QED BY <1>0, <2>1, <2>3, MoveStep
<1>2. CASE There(s) = Nothing /\ NoFault
           /\ store' = [store EXCEPT ![s].pc = "create", ![s].made = TRUE]
  <2>1. PICK q \in Frame : Moved(s, q) /\ q.pc = "create" /\ q.made
    BY <1>0, <1>2, Marked
  <2>2. Here(s)' = Here(s) /\ There(s)' = There(s)
    BY <1>0, <2>1 DEF Here, There, Moved
  <2>3. Looked(s)'
    BY <1>0, <1>2, <2>1, <2>2, Calls DEF StoreOK, Looked, At, Moved
  <2> QED BY <1>0, <2>1, <2>3, MoveStep
<1>3. CASE Readable(Here(s), There(s)) /\ NoFault
           /\ store' = [store EXCEPT ![s].pc = "check", ![s].made = FALSE]
  BY <1>0, <1>3, ExistingStep DEF Readable
<1>4. CASE StagerFails(s)
  BY <1>0, <1>4, StagerFailsStep
<1> QED BY <1>1, <1>2, <1>3, <1>4 DEF LookAgain

LEMMA CreateStep ==
  ASSUME IInv, OneWriter, NEW s \in Stores, Create(s)
  PROVE  IInv'
<1> DEFINE New == [by |-> Me(s), copies |-> 0]
<1>0. /\ At(s, "create") /\ UNCHANGED <<active, staged, crashes>> /\ (Fault \/ NoFault)
      /\ store[s].pc = "create" /\ store[s].pc \in Stagers \ {"look"}
      /\ "fill" \in Stagers \ {"look"}
  BY DEF Create, At, Stagers
<1>n. 0 \in 0..2
  OBVIOUS
<1>s. New \in Shard /\ New.by = Me(s)
  BY <1>n, Signing
<1>1. CASE There(s) = Nothing /\ Write(s, New)
           /\ store' = [store EXCEPT ![s].pc = "fill", ![s].made = TRUE]
  <2>1. ~store[s].existed
    BY <1>0, <1>1, Calls DEF StoreOK, Looked
  <2> HIDE DEF New
  <2> QED BY <1>0, <1>1, <1>s, <2>1, Marked, WriteStep
<1>2. CASE There(s) # Nothing /\ UNCHANGED shard /\ NoFault
           /\ store' = [store EXCEPT ![s].pc = "check", ![s].made = Here(s) = "browser_session"]
  <2>1. Here(s) # "browser_session"
    BY <1>0, <1>2, Calls DEF StoreOK, Looked
  <2>2. store' = [store EXCEPT ![s].pc = "check", ![s].made = FALSE]
    BY <1>2, <2>1
  <2> QED BY <1>0, <1>2, <2>2, ExistingStep
<1>3. CASE There(s) = Nothing /\ Write(s, New) /\ Fault /\ StagerFails(s)
  <2> HIDE DEF New
  <2> QED BY <1>0, <1>3, <1>s, LostReplyStep
<1>4. CASE UNCHANGED shard /\ Fault /\ StagerFails(s)
  BY <1>0, <1>4, StagerFailsStep
<1> QED BY <1>1, <1>2, <1>3, <1>4 DEF Create

LEMMA FillStep ==
  ASSUME IInv, OneWriter, NEW s \in Stores, Fill(s)
  PROVE  IInv'
<1> DEFINE New == [There(s) EXCEPT !.copies = IF @ = 2 THEN 2 ELSE @ + 1]
<1>0. /\ At(s, "fill") /\ UNCHANGED <<active, staged, crashes>> /\ (Fault \/ NoFault)
      /\ store[s].pc = "fill" /\ store[s].pc \in Stagers \ {"look"}
      /\ "check" \in Stagers \ {"look"}
  BY DEF Fill, At, Stagers
<1>w. /\ ~store[s].existed /\ store[s].made /\ There(s) # Nothing /\ There(s).by = Me(s)
      /\ store[s].gen \in Generations
  BY <1>0, Calls, StoresAssumption DEF StoreOK, Looked, Shape, At, Stagers
<1>s. New \in Shard /\ New.by = Me(s)
  <2>1. There(s) \in Shard
    BY <1>w, Calls DEF There, IInv, Types
  <2>2. There(s).copies \in 0..2
    BY <2>1 DEF Shard
  <2>3. (IF There(s).copies = 2 THEN 2 ELSE There(s).copies + 1) \in 0..2
    BY <2>2
  <2> QED BY <1>w, <2>1, <2>3 DEF Shard
<1>1. CASE Write(s, New) /\ Goto(s, "check")
  <2> HIDE DEF New
  <2> QED BY <1>0, <1>1, <1>s, <1>w, Went, WriteStep
<1>2. CASE ~Mine(s, There(s))
  BY <1>2, <1>w DEF Mine
<1>3. CASE UNCHANGED shard /\ StagerFails(s)
  BY <1>0, <1>3, StagerFailsStep
<1> QED BY <1>1, <1>2, <1>3, <1>w DEF Fill

LEMMA CheckStep ==
  ASSUME IInv, OneWriter, NEW s \in Stores, Check(s)
  PROVE  IInv'
<1> DEFINE d == store[s].created
           c == IF store[s].made THEN Append(d, Here(s)) ELSE d
<1>0. /\ At(s, "check") /\ UNCHANGED <<shard, active, staged, crashes>> /\ (Fault \/ NoFault)
      /\ store[s].pc = "check" /\ store[s].pc \in Stagers \ {"look"}
      /\ Staging(s) /\ ~store[s].poisoned /\ ~store[s].leaky
      /\ store[s].gen \in Generations /\ store[s].gen \in MayStage[s]
  BY Calls, StoresAssumption DEF Check, StoreOK, Shape, At, Staging, Stagers
<1>1. CASE StagerFails(s)
  BY <1>0, <1>1, StagerFailsStep
<1>2. CASE ~store[s].made /\ RollBackFrom(s, store[s].created)
  BY <1>0, <1>2, KeepsStep
<1>3. CASE Exact(There(s)) /\ store' = NextProvider(s, c)
  <2> DEFINE last == store[s].at = Len(Providers)
             pc == IF last THEN "capture" ELSE "look"
             at == IF last THEN 1 ELSE store[s].at + 1
             q == [store[s] EXCEPT !.pc = pc, !.at = at, !.existed = FALSE, !.made = FALSE,
                                   !.created = c]
  <2>1. store' = [store EXCEPT ![s] = q] /\ store'[s] = q
    BY <1>3 DEF NextProvider, IInv, Types
  <2>2. /\ pc \in Pcs /\ pc \in {"capture", "look"} /\ at \in DOMAIN Providers
        /\ pc = "look" => at = store[s].at + 1
        /\ pc = "capture" => at = 1
    BY Calls, Kinds DEF Pcs, Stagers
  <2>3. d \in Seq(Kept) /\ Here(s) \in Kept /\ c \in Seq(Kept)
    BY Calls
  <2> HIDE DEF c, pc, at, last
  <2>4. q \in Frame
    BY <2>2, <2>3, Framed, ZenonT(60) DEF Frame
  <2>5. /\ q.pc = pc /\ q.at = at /\ q.created = c /\ q.gen = store[s].gen
        /\ q.next = store[s].next /\ q.life = store[s].life
        /\ (q.poisoned <=> store[s].poisoned) /\ q.failed = store[s].failed
        /\ (q.leaky <=> store[s].leaky)
    BY Framed DEF Frame
  <2> HIDE DEF q
  <2>6. /\ \A i \in DOMAIN c : (\E k \in DOMAIN d : c[i] = d[k]) \/ (store[s].made /\ c[i] = Here(s))
        /\ \A k \in DOMAIN d : \E i \in DOMAIN c : c[i] = d[k]
        /\ store[s].made => \E i \in DOMAIN c : c[i] = Here(s)
        /\ ~store[s].made => c = d
    <3>1. CASE ~store[s].made
      BY <3>1 DEF c
    <3>2. CASE store[s].made
      <4>1. /\ Len(d) \in Nat /\ DOMAIN d = 1..Len(d) /\ DOMAIN c = 1..(Len(d) + 1)
            /\ c[Len(d) + 1] = Here(s) /\ \A i \in 1..Len(d) : c[i] = d[i]
        BY <3>2, <2>3 DEF c
      <4>2. \A i \in DOMAIN c : i \in DOMAIN d \/ i = Len(d) + 1
        BY <4>1
      <4>3. Len(d) + 1 \in DOMAIN c /\ \A i \in DOMAIN d : i \in DOMAIN c
        BY <4>1
      <4> HIDE DEF d
      <4> QED BY <3>2, <4>1, <4>2, <4>3
    <3> QED BY <3>1, <3>2
  <2>7. Shape(s)'
    <3>1. pc = "look" => \A i \in DOMAIN c : \E j \in 1..(at - 1) : c[i] = Providers[j]
      <4> SUFFICES ASSUME pc = "look", NEW i \in DOMAIN c
                   PROVE  \E j \in 1..(at - 1) : c[i] = Providers[j]
        OBVIOUS
      <4>1. at - 1 = store[s].at /\ store[s].at \in 1..Len(Providers)
        BY <2>2, Calls
      <4>2. CASE c[i] = Here(s)
        BY <4>1, <4>2 DEF Here
      <4>3. CASE \E k \in DOMAIN d : c[i] = d[k]
        <5>1. PICK k \in DOMAIN d : c[i] = d[k]
          BY <4>3
        <5>2. PICK j \in 1..(store[s].at - 1) : d[k] = Providers[j]
          BY <1>0, Calls DEF StoreOK, Shape
        <5>3. j \in 1..(at - 1)
          BY <4>1
        <5> QED BY <5>1, <5>2, <5>3
      <4> QED BY <2>6, <4>2, <4>3
    <3> HIDE DEF d
    <3>2. store[s].failed = Nothing /\ store[s].next = "staged"
      BY <1>0, Calls DEF StoreOK, Shape, Staging
    <3>3. pc \in Stagers => pc = "look"
      BY <2>2 DEF Stagers
    <3> QED BY <1>0, <2>1, <2>2, <2>5, <3>1, <3>2, <3>3 DEF Shape, At
  <2>8. Looked(s)' /\ ReadExact(s)'
    BY <2>1, <2>2, <2>5 DEF Looked, ReadExact, At
  <2>9. Blamed(s)'
    <3>1. Me(s)' = Me(s) /\ (Promised(store[s].gen)' <=> Promised(store[s].gen))
      BY <1>0, <2>1, <2>5 DEF Me, Promised
    <3>2. \A k \in DOMAIN d : shard[d[k]][store[s].gen] # Nothing =>
                                shard[d[k]][store[s].gen].by = Me(s)
      BY <1>0, Calls DEF StoreOK, Blamed
    <3>3. store[s].made => shard[Here(s)][store[s].gen].by = Me(s)
      BY <1>0, Calls DEF StoreOK, Looked, There
    <3>4. Promised(store[s].gen) => d = <<>> /\ ~store[s].made
      BY <1>0, Calls DEF StoreOK, Blamed, Looked
    <3> HIDE DEF d
    <3>5. \A i \in DOMAIN c : shard[c[i]][store[s].gen] # Nothing =>
                                shard[c[i]][store[s].gen].by = Me(s)
      BY <2>6, <3>2, <3>3
    <3>6. Promised(store[s].gen) => c = <<>>
      BY <2>6, <3>4
    <3> QED BY <1>0, <2>1, <2>2, <2>5, <3>1, <3>5, <3>6 DEF Blamed, Stagers
  <2>10. Answered(s)'
    <3> SUFFICES ASSUME NEW g \in Generations, NEW p \in Kept, g \notin staged,
                        shard[p][g] # Nothing, shard[p][g].by = Me(s)
                 PROVE  g = store[s].gen /\ \E i \in DOMAIN c : c[i] = p
      BY <1>0, <2>1, <2>2, <2>5 DEF Answered, Staging, Me, Stagers
    <3>1. g = store[s].gen /\ ((\E k \in DOMAIN d : d[k] = p) \/ (p = Here(s) /\ store[s].made))
      BY <1>0, Calls DEF StoreOK, Answered
    <3> HIDE DEF d
    <3> QED BY <3>1, <2>6
  <2>11. StoreOK(s)' /\ q \in Frame' /\ q.life >= store[s].life
    BY <1>0, <2>4, <2>5, <2>7, <2>8, <2>9, <2>10, Bounds, Calls DEF StoreOK
  <2> QED BY <1>0, <2>1, <2>11, Quiet, Bounds
<1> QED BY <1>1, <1>2, <1>3 DEF Check

LEMMA RollBackStep ==
  ASSUME IInv, OneWriter, NEW s \in Stores, RollBack(s)
  PROVE  /\ IInv'
         /\ \A p \in Kept, g \in Generations :
              shard[p][g] # Nothing /\ shard'[p][g] = Nothing => shard[p][g].by = Me(s)
<1> DEFINE d == store[s].created
           p == d[Len(d)]
           Rest == SubSeq(d, 1, Len(d) - 1)
           G == store[s].gen
<1>0. /\ At(s, "rollback") /\ UNCHANGED <<active, staged, crashes>> /\ (Fault \/ NoFault)
      /\ d # <<>> /\ d \in Seq(Kept)
      /\ Staging(s) /\ ~store[s].poisoned /\ store[s].failed = Nothing
      /\ G \in Generations /\ G \in MayStage[s]
  BY Calls, StoresAssumption DEF RollBack, StoreOK, Shape, At, Staging, Stagers
<1>1. /\ Len(d) \in DOMAIN d /\ p \in Kept /\ Rest \in Seq(Kept)
      /\ \A i \in DOMAIN Rest : i \in DOMAIN d /\ Rest[i] = d[i]
      /\ \A i \in DOMAIN d : i \in DOMAIN Rest \/ d[i] = p
  <2>1. Len(d) \in Nat /\ Len(d) >= 1 /\ DOMAIN d = 1..Len(d)
    BY <1>0
  <2>2. /\ Rest \in Seq(Kept) /\ DOMAIN Rest = 1..(Len(d) - 1)
        /\ \A i \in 1..(Len(d) - 1) : Rest[i] = d[i]
    BY <1>0, <2>1
  <2> HIDE DEF Rest, d
  <2>3. \A i \in DOMAIN d : i \in 1..(Len(d) - 1) \/ i = Len(d)
    BY <2>1
  <2>4. p \in Kept
    BY <1>0, <2>1
  <2> QED BY <2>1, <2>2, <2>3, <2>4
<1>2. /\ ~Promised(G)
      /\ \A i \in DOMAIN d : shard[d[i]][G] # Nothing => shard[d[i]][G].by = Me(s)
  BY <1>0, Calls DEF StoreOK, Blamed
<1>3. \A g \in Generations, r \in Kept :
        g \notin staged /\ shard[r][g] # Nothing /\ shard[r][g].by = Me(s) =>
          g = G /\ (store[s].leaky \/ \E i \in DOMAIN d : d[i] = r)
  BY <1>0, Calls DEF StoreOK, Answered, At
<1> HIDE DEF p, Rest, d
<1>4. CASE /\ shard' = [shard EXCEPT ![p][G] = Nothing]
           /\ store' = [store EXCEPT ![s].created = Rest]
  <2> DEFINE q == [store[s] EXCEPT !.created = Rest]
  <2>1. store' = [store EXCEPT ![s] = q] /\ store'[s] = q
    BY <1>4 DEF IInv, Types
  <2>2. q \in Frame
    BY <1>1, Framed DEF Frame
  <2>3. /\ q.pc = store[s].pc /\ q.created = Rest /\ q.gen = G
        /\ q.next = store[s].next /\ q.life = store[s].life
        /\ (q.poisoned <=> store[s].poisoned) /\ q.failed = store[s].failed
        /\ (q.leaky <=> store[s].leaky)
    BY Framed DEF Frame
  <2> HIDE DEF q
  <2>4. \A r \in Kept, g \in Generations :
          shard'[r][g] = IF r = p /\ g = G THEN Nothing ELSE shard[r][g]
    BY <1>0, <1>1, <1>4 DEF IInv, Types
  <2>5. Shape(s)' /\ Looked(s)' /\ ReadExact(s)'
    BY <1>0, <2>1, <2>3, Calls DEF StoreOK, Shape, Looked, ReadExact, At, Stagers, Staging
  <2>6. Blamed(s)'
    <3>1. Me(s)' = Me(s) /\ ~Promised(G)'
      BY <1>0, <1>2, <2>1, <2>3 DEF Me, Promised
    <3>2. \A i \in DOMAIN d : d[i] \in Kept
      BY <1>0
    <3>3. \A i \in DOMAIN Rest : shard'[Rest[i]][G] # Nothing => shard'[Rest[i]][G].by = Me(s)
      BY <1>0, <1>1, <1>2, <2>4, <3>2
    <3> QED BY <2>1, <2>3, <3>1, <3>3 DEF Blamed
  <2>7. Answered(s)'
    <3> SUFFICES ASSUME NEW g \in Generations, NEW r \in Kept, g \notin staged,
                        shard'[r][g] # Nothing, shard'[r][g].by = Me(s)
                 PROVE  g = G /\ (store[s].leaky \/ \E i \in DOMAIN Rest : Rest[i] = r)
      BY <1>0, <2>1, <2>3 DEF Answered, Staging, Me, Stagers
    <3>1. shard'[r][g] = shard[r][g] /\ g = G /\ r # p
      BY <1>3, <2>4
    <3>2. store[s].leaky \/ \E i \in DOMAIN d : d[i] = r
      BY <3>1, <1>3
    <3> QED BY <3>1, <3>2, <1>1
  <2>8. IInv'
    <3>1. StoreOK(s)'
      BY <2>5, <2>6, <2>7 DEF StoreOK
    <3> QED BY <1>0, <1>1, <1>2, <1>4, <2>1, <2>2, <2>3, <3>1, Writes
  <2>9. \A r \in Kept, g \in Generations :
          shard[r][g] # Nothing /\ shard'[r][g] = Nothing => shard[r][g].by = Me(s)
    BY <1>1, <1>2, <2>4 DEF p
  <2> QED BY <2>8, <2>9
<1>5. CASE /\ UNCHANGED shard
           /\ store' = [store EXCEPT ![s].created = Rest, ![s].leaky = TRUE]
  <2> DEFINE q == [store[s] EXCEPT !.created = Rest, !.leaky = TRUE]
  <2>1. store' = [store EXCEPT ![s] = q] /\ store'[s] = q
    BY <1>5 DEF IInv, Types
  <2>2. q \in Frame
    BY <1>1, Framed, ZenonT(60) DEF Frame
  <2>3. /\ q.pc = store[s].pc /\ q.created = Rest /\ q.gen = G
        /\ q.next = store[s].next /\ q.life = store[s].life
        /\ (q.poisoned <=> store[s].poisoned) /\ q.failed = store[s].failed /\ q.leaky
    BY Framed DEF Frame
  <2> HIDE DEF q
  <2>5. Shape(s)' /\ Looked(s)' /\ ReadExact(s)'
    BY <1>0, <2>1, <2>3, Calls DEF StoreOK, Shape, Looked, ReadExact, At, Stagers, Staging
  <2>6. Blamed(s)'
    <3>1. Me(s)' = Me(s) /\ ~Promised(G)'
      BY <1>0, <1>2, <2>1, <2>3 DEF Me, Promised
    <3>3. \A i \in DOMAIN Rest : shard'[Rest[i]][G] # Nothing => shard'[Rest[i]][G].by = Me(s)
      BY <1>1, <1>2, <1>5
    <3> QED BY <2>1, <2>3, <3>1, <3>3 DEF Blamed
  <2>7. Answered(s)'
    BY <1>0, <1>3, <1>5, <2>1, <2>3 DEF Answered, Staging, Me, Stagers
  <2>8. StoreOK(s)' /\ q \in Frame' /\ q.life >= store[s].life
    BY <1>0, <2>2, <2>3, <2>5, <2>6, <2>7, Bounds, Calls DEF StoreOK
  <2> QED BY <1>0, <1>5, <2>1, <2>8, Quiet, Bounds
<1> QED BY <1>4, <1>5 DEF RollBack, p, Rest, d

LEMMA RolledBackStep ==
  ASSUME IInv, OneWriter, NEW s \in Stores, RolledBack(s)
  PROVE  IInv'
<1>1. /\ At(s, "rollback") /\ store[s].created = <<>> /\ Poison(s)
      /\ UNCHANGED <<shard, active, staged, faults, crashes>> /\ ~store[s].poisoned
  BY Calls DEF RolledBack, StoreOK, Shape, At
<1> QED BY <1>1, PoisonStep DEF NoFault

\* A stage call that returns, and a swap: one more generation is promised, and it
\* is complete.
LEMMA Promises ==
  ASSUME IInv, OneWriter, NEW s \in Stores, NEW q \in Frame, q.life = store[s].life,
         store' = [store EXCEPT ![s] = q], StoreOK(s)',
         store[s].gen \in MayStage[s], Complete(store[s].gen),
         UNCHANGED <<shard, crashes>>, Fault \/ NoFault,
         active' \in {active, store[s].gen}, staged' \in {staged, staged \cup {store[s].gen}}
  PROVE  IInv'
<1>1. store \in [Stores -> Frame] /\ store'[s] = q /\ store[s].gen \in Generations
      /\ \A t \in Stores : t # s => store'[t] = store[t]
  BY StoresAssumption DEF IInv, Types
<1>2. Effect(s)
  BY <1>1 DEF Effect
<1>3. Types'
  <2>1. store' \in [Stores -> Frame']
    BY <1>1, Bounds
  <2> QED BY <1>1, <2>1, Bounds DEF IInv, Types
<1>4. Signed'
  <2> SUFFICES ASSUME NEW p \in Kept, NEW g \in Generations, shard[p][g] # Nothing
               PROVE  shard[p][g].by[2] <= store'[shard[p][g].by[1]].life
    BY DEF Signed
  <2>1. shard[p][g] \in Shard
    BY DEF IInv, Types
  <2>2. /\ shard[p][g].by[1] \in Stores
        /\ shard[p][g].by[2] <= store[shard[p][g].by[1]].life
    BY <2>1 DEF Shard, IInv, Signed
  <2>3. \A t \in Stores : store'[t].life = store[t].life
    BY <1>1
  <2> QED BY <2>2, <2>3
<1>5. \A g \in Generations : Complete(g) => Complete(g)'
  BY DEF Complete, Exact
<1>6. VisibleComplete' /\ StagedStaysComplete'
  BY <1>1, <1>5 DEF IInv, Types, VisibleComplete, StagedStaysComplete
<1>7. \A t \in Stores : StoreOK(t)'
  BY <1>2, Elsewhere
<1> QED BY <1>3, <1>4, <1>6, <1>7 DEF IInv

LEMMA CaptureStep ==
  ASSUME IInv, OneWriter, NEW s \in Stores, Capture(s)
  PROVE  IInv'
<1>0. /\ At(s, "capture") /\ UNCHANGED <<shard, active, crashes>> /\ (Fault \/ NoFault)
      /\ ~store[s].poisoned /\ ~store[s].leaky /\ store[s].failed = Nothing
      /\ store[s].gen \in Generations
      /\ store[s].next \in {"staged", "swap", "loaded"}
      /\ store[s].next \in {"staged", "swap"} => store[s].gen \in MayStage[s]
      /\ Staging(s) <=> store[s].next = "staged"
  BY Calls DEF Capture, StoreOK, Shape, At, Staging, Stagers
<1>1. CASE Exact(There(s)) /\ store[s].at < Len(Providers) /\ NoFault /\ UNCHANGED staged
           /\ store' = [store EXCEPT ![s].at = @ + 1]
  <2> DEFINE at == store[s].at + 1
             q == [store[s] EXCEPT !.at = at]
  <2>1. store' = [store EXCEPT ![s] = q] /\ store'[s] = q
    BY <1>1 DEF IInv, Types
  <2>2. at \in DOMAIN Providers /\ store[s].at \in DOMAIN Providers
        /\ \A i \in 1..(at - 1) : i \in 1..(store[s].at - 1) \/ i = store[s].at
    <3>1. store[s].at \in 1..Len(Providers) /\ Len(Providers) \in Nat
      BY Calls
    <3>2. DOMAIN Providers = 1..Len(Providers)
      BY Kinds
    <3> QED BY <1>1, <3>1, <3>2
  <2> HIDE DEF at
  <2>3. q \in Frame
    BY <2>2, Framed DEF Frame
  <2>4. /\ q.pc = store[s].pc /\ q.at = at /\ q.created = store[s].created
        /\ q.gen = store[s].gen /\ q.next = store[s].next /\ q.life = store[s].life
        /\ (q.poisoned <=> store[s].poisoned) /\ q.failed = store[s].failed
        /\ (q.leaky <=> store[s].leaky)
    BY Framed DEF Frame
  <2> HIDE DEF q
  <2>5. Shape(s)' /\ Looked(s)'
    BY <1>0, <2>1, <2>4, Calls DEF StoreOK, Shape, Looked, At, Stagers
  <2>6. Blamed(s)'
    <3> SUFFICES ASSUME Staging(s) PROVE Blamed(s)'
      BY <2>1, <2>4 DEF Staging, Blamed
    <3>1. /\ \A i \in DOMAIN store[s].created :
               shard[store[s].created[i]][store[s].gen] # Nothing =>
                 shard[store[s].created[i]][store[s].gen].by = Me(s)
          /\ Promised(store[s].gen) => store[s].created = <<>>
      BY Calls DEF StoreOK, Blamed
    <3>2. Me(s)' = Me(s) /\ store'[s].pc \notin Stagers
      BY <1>0, <2>1, <2>4 DEF Me, At, Stagers
    <3>3. store[s].gen \in staged' \/ store[s].gen = active' => store[s].created = <<>>
      BY <1>0, <1>1, <3>1 DEF Promised
    <3>4. store'[s].gen = store[s].gen /\ store'[s].created = store[s].created /\ shard' = shard
      BY <1>0, <2>1, <2>4
    <3> QED BY <3>1, <3>2, <3>3, <3>4, BlamedLater
  <2>7. ReadExact(s)'
    <3>1. store[s].next \in {"staged", "swap"} =>
            \A i \in 1..(at - 1) : Exact(shard[Providers[i]][store[s].gen])
      BY <1>0, <1>1, <2>2, Calls DEF StoreOK, ReadExact, There, Here
    <3> QED BY <1>0, <2>1, <2>4, <3>1 DEF ReadExact, At, Exact
  <2>8. Answered(s)'
    BY <1>0, <1>1, <2>1, <2>4, Calls DEF StoreOK, Answered, Staging, Me, At, Stagers
  <2>9. StoreOK(s)' /\ q \in Frame' /\ q.life >= store[s].life
    BY <1>0, <2>3, <2>4, <2>5, <2>6, <2>7, <2>8, Bounds, Calls DEF StoreOK
  <2> QED BY <1>0, <1>1, <2>1, <2>9, Quiet, Bounds
<1>2. CASE Exact(There(s)) /\ store[s].at = Len(Providers) /\ Captured(s) /\ NoFault
  <2>1. store[s].next \in {"staged", "swap"} => Complete(store[s].gen)
    <3> SUFFICES ASSUME store[s].next \in {"staged", "swap"}, NEW p \in Kept
                 PROVE  Exact(shard[p][store[s].gen])
      BY DEF Complete
    <3>1. PICK i \in DOMAIN Providers : Providers[i] = p
      BY Kinds
    <3>2. i \in 1..(store[s].at - 1) \/ i = store[s].at
      BY <1>2, Kinds
    <3> QED BY <1>0, <1>2, <3>1, <3>2, Calls DEF StoreOK, ReadExact, There, Here
  <2>2. CASE store[s].next = "staged" /\ Return(s) /\ staged' = staged \cup {store[s].gen}
    <3>1. /\ StoreOK(s)' /\ store' = [store EXCEPT ![s] = Fresh(store[s].life)]
          /\ Fresh(store[s].life) \in Frame
          /\ Fresh(store[s].life).life = store[s].life
      BY <1>0, <2>2, Returns
    <3> QED BY <1>0, <2>1, <2>2, <3>1, Promises
  <2>3. CASE store[s].next = "swap" /\ Goto(s, "swap") /\ UNCHANGED staged
    <3> DEFINE q == [store[s] EXCEPT !.pc = "swap"]
    <3>1. store' = [store EXCEPT ![s] = q] /\ store'[s] = q
      BY <2>3 DEF Goto, IInv, Types
    <3>2. q \in Frame
      <4>1. "swap" \in Pcs
        BY DEF Pcs
      <4> QED BY <4>1, Calls DEF Frame
    <3>3. /\ q.pc = "swap" /\ q.gen = store[s].gen /\ q.next = store[s].next
          /\ q.life = store[s].life /\ (q.poisoned <=> store[s].poisoned)
          /\ q.failed = store[s].failed /\ (q.leaky <=> store[s].leaky)
      BY Framed DEF Frame
    <3> HIDE DEF q
    <3>4. Shape(s)' /\ Looked(s)' /\ Blamed(s)'
      BY <1>0, <2>3, <3>1, <3>3 DEF Shape, Looked, Blamed, Staging, At, Stagers
    <3>5. ReadExact(s)'
      BY <1>0, <2>1, <2>3, <3>1, <3>3 DEF ReadExact, At, Complete, Exact
    <3>6. Answered(s)'
      BY <1>0, <2>3, <3>1, <3>3, Calls DEF StoreOK, Answered, Staging, Me
    <3>7. StoreOK(s)' /\ q \in Frame' /\ q.life >= store[s].life
      BY <1>0, <3>2, <3>3, <3>4, <3>5, <3>6, Bounds, Calls DEF StoreOK
    <3> QED BY <1>0, <2>3, <3>1, <3>7, Quiet, Bounds
  <2>4. CASE store[s].next = "loaded" /\ Return(s) /\ UNCHANGED staged
    BY <1>0, <2>4, ReturnStep
  <2>5. CASE store[s].next = "loaded" /\ Poison(s) /\ UNCHANGED staged
    BY <1>0, <2>5, PoisonStep
  <2> QED BY <1>0, <1>2, <2>2, <2>3, <2>4, <2>5 DEF Captured
<1>3. CASE CaptureFails(s) /\ UNCHANGED staged
  <2>1. CASE store[s].next = "staged"
    BY <1>0, <1>3, <2>1, KeepsStep DEF CaptureFails, At
  <2>2. CASE store[s].next # "staged"
    BY <1>0, <1>3, <2>2, PoisonStep DEF CaptureFails
  <2> QED BY <2>1, <2>2
<1> QED BY <1>1, <1>2, <1>3 DEF Capture

\* The steps of the pointer that leave it alone.
LEMMA CompareAndSwapStep ==
  ASSUME IInv, OneWriter, NEW s \in Stores, NEW g \in Generations,
         NEW e \in Generations \cup {Nothing}, CompareAndSwap(s, e, g)
  PROVE  IInv'
<1> DEFINE q == [store[s] EXCEPT !.pc = "capture", !.gen = g, !.at = 1, !.want = e,
                                 !.next = "swap"]
<1>0. /\ UNCHANGED <<shard, active, staged, crashes>> /\ NoFault
      /\ At(s, "idle") /\ ~store[s].poisoned /\ g \in MayStage[s]
  BY DEF CompareAndSwap, NoFault
<1>1. store' = [store EXCEPT ![s] = q] /\ store'[s] = q
  BY DEF CompareAndSwap, IInv, Types
<1>2. q \in Frame
  <2>1. 1 \in DOMAIN Providers /\ "capture" \in Pcs
    BY Kinds DEF Pcs
  <2> QED BY <2>1, Framed, ZenonT(60) DEF Frame
<1>3. /\ q.pc = "capture" /\ q.gen = g /\ q.at = 1 /\ q.next = "swap"
      /\ q.life = store[s].life /\ (q.poisoned <=> store[s].poisoned)
      /\ q.failed = store[s].failed /\ (q.leaky <=> store[s].leaky)
  BY Framed DEF Frame
<1> HIDE DEF q
<1>4. Shape(s)' /\ Looked(s)' /\ Blamed(s)' /\ ReadExact(s)'
  <2>1. store[s].failed = Nothing /\ ~store[s].leaky
    BY <1>0, Calls DEF StoreOK, Shape, At
  <2>2. Shape(s)'
    BY <1>0, <1>1, <1>3, <2>1 DEF Shape, At, Stagers
  <2> QED BY <1>1, <1>3, <2>2 DEF Looked, Blamed, ReadExact, Staging, At
<1>5. Answered(s)'
  BY <1>0, <1>1, <1>3, Calls DEF StoreOK, Answered, Staging, Me, At, Stagers
<1>6. StoreOK(s)' /\ q \in Frame' /\ q.life >= store[s].life
  BY <1>0, <1>2, <1>3, <1>4, <1>5, Bounds, Calls DEF StoreOK
<1> QED BY <1>0, <1>1, <1>6, Quiet, Bounds

LEMMA SwapStep ==
  ASSUME IInv, OneWriter, NEW s \in Stores, Swap(s)
  PROVE  IInv'
<1>0. /\ At(s, "swap") /\ UNCHANGED <<shard, staged, crashes>> /\ (Fault \/ NoFault)
      /\ ~store[s].poisoned /\ ~store[s].leaky /\ store[s].failed = Nothing
      /\ store[s].next = "swap" /\ ~Staging(s)
      /\ store[s].gen \in MayStage[s] /\ Complete(store[s].gen)
  BY Calls DEF Swap, StoreOK, Shape, ReadExact, At, Staging, Stagers
<1>1. CASE active' = store[s].gen
           /\ store' = [store EXCEPT ![s].pc = "load", ![s].want = store[s].gen]
  <2> DEFINE q == [store[s] EXCEPT !.pc = "load", !.want = store[s].gen]
  <2>1. store' = [store EXCEPT ![s] = q] /\ store'[s] = q
    BY <1>1 DEF IInv, Types
  <2>2. q \in Frame
    <3>1. "load" \in Pcs /\ store[s].gen \in Generations \cup {Nothing}
      BY Calls DEF Pcs
    <3> QED BY <3>1, Framed, ZenonT(60) DEF Frame
  <2>3. /\ q.pc = "load" /\ q.next = store[s].next
        /\ q.life = store[s].life /\ (q.poisoned <=> store[s].poisoned)
        /\ q.failed = store[s].failed /\ (q.leaky <=> store[s].leaky)
    BY Framed DEF Frame
  <2> HIDE DEF q
  <2>4. Shape(s)' /\ Looked(s)' /\ Blamed(s)' /\ ReadExact(s)'
    BY <1>0, <2>1, <2>3 DEF Shape, Looked, Blamed, ReadExact, Staging, At, Stagers
  <2>5. Answered(s)'
    BY <1>0, <2>1, <2>3, Calls DEF StoreOK, Answered, Staging, Me
  <2> QED BY <1>0, <1>1, <2>1, <2>2, <2>3, <2>4, <2>5, Promises DEF StoreOK
<1>2. CASE active' = store[s].gen /\ Return(s)
  <2>1. /\ StoreOK(s)' /\ store' = [store EXCEPT ![s] = Fresh(store[s].life)]
        /\ Fresh(store[s].life) \in Frame
        /\ Fresh(store[s].life).life = store[s].life
    BY <1>0, <1>2, Returns
  <2> QED BY <1>0, <1>2, <2>1, Promises
<1>3. CASE UNCHANGED active /\ Return(s)
  BY <1>0, <1>3, ReturnStep
<1> QED BY <1>1, <1>2, <1>3 DEF Swap

LEMMA LoadActiveStep ==
  ASSUME IInv, OneWriter, NEW s \in Stores, LoadActive(s)
  PROVE  IInv'
<1> DEFINE q == [store[s] EXCEPT !.pc = "load", !.want = Nothing]
<1>0. /\ UNCHANGED <<shard, active, staged, crashes>> /\ NoFault
      /\ At(s, "idle") /\ ~store[s].poisoned
  BY DEF LoadActive, NoFault
<1>1. store' = [store EXCEPT ![s] = q] /\ store'[s] = q
  BY DEF LoadActive, IInv, Types
<1>2. q \in Frame
  <2>1. "load" \in Pcs
    BY DEF Pcs
  <2> QED BY <2>1, Framed, ZenonT(60) DEF Frame
<1>3. /\ q.pc = "load" /\ q.next = store[s].next
      /\ q.life = store[s].life /\ (q.poisoned <=> store[s].poisoned)
      /\ q.failed = store[s].failed /\ (q.leaky <=> store[s].leaky)
  BY Framed DEF Frame
<1> HIDE DEF q
<1>4. Shape(s)' /\ Looked(s)' /\ Blamed(s)' /\ ReadExact(s)'
  BY <1>0, <1>1, <1>3, Calls DEF StoreOK, Shape, Looked, Blamed, ReadExact, Staging, At, Stagers
<1>5. Answered(s)'
  BY <1>0, <1>1, <1>3, Calls DEF StoreOK, Answered, Staging, Me, At, Stagers
<1>6. StoreOK(s)' /\ q \in Frame' /\ q.life >= store[s].life
  BY <1>0, <1>2, <1>3, <1>4, <1>5, Bounds, Calls DEF StoreOK
<1> QED BY <1>0, <1>1, <1>6, Quiet, Bounds

LEMMA ReadPointerStep ==
  ASSUME IInv, OneWriter, NEW s \in Stores, ReadPointer(s)
  PROVE  IInv'
<1>0. /\ At(s, "load") /\ UNCHANGED <<shard, active, staged, crashes>> /\ (Fault \/ NoFault)
      /\ ~store[s].poisoned /\ ~store[s].leaky /\ store[s].failed = Nothing /\ ~Staging(s)
  BY Calls DEF ReadPointer, StoreOK, Shape, At, Staging, Stagers
<1>1. CASE /\ active # Nothing
           /\ store' = [store EXCEPT ![s].pc = "capture", ![s].at = 1,
                           ![s].gen = active, ![s].next = "loaded"]
  <2> DEFINE q == [store[s] EXCEPT !.pc = "capture", !.at = 1, !.gen = active, !.next = "loaded"]
  <2>0. active \in Generations
    BY <1>1 DEF IInv, Types
  <2>1. store' = [store EXCEPT ![s] = q] /\ store'[s] = q
    BY <1>1 DEF IInv, Types
  <2>2. q \in Frame
    <3>1. 1 \in DOMAIN Providers /\ "capture" \in Pcs
      BY Kinds DEF Pcs
    <3> QED BY <2>0, <3>1, Framed, ZenonT(60) DEF Frame
  <2>3. /\ q.pc = "capture" /\ q.gen = active /\ q.at = 1 /\ q.next = "loaded"
        /\ q.life = store[s].life /\ (q.poisoned <=> store[s].poisoned)
        /\ q.failed = store[s].failed /\ (q.leaky <=> store[s].leaky)
    BY Framed DEF Frame
  <2> HIDE DEF q
  <2>4. Shape(s)' /\ Looked(s)' /\ Blamed(s)' /\ ReadExact(s)'
    BY <1>0, <2>0, <2>1, <2>3 DEF Shape, Looked, Blamed, ReadExact, Staging, At, Stagers
  <2>5. Answered(s)'
    BY <1>0, <2>1, <2>3, Calls DEF StoreOK, Answered, Staging, Me
  <2>6. StoreOK(s)' /\ q \in Frame' /\ q.life >= store[s].life
    BY <1>0, <2>2, <2>3, <2>4, <2>5, Bounds, Calls DEF StoreOK
  <2> QED BY <1>0, <2>1, <2>6, Quiet, Bounds
<1>2. CASE Return(s)
  BY <1>0, <1>2, ReturnStep
<1>3. CASE Poison(s)
  BY <1>0, <1>3, PoisonStep
<1> QED BY <1>1, <1>2, <1>3 DEF ReadPointer

LEMMA CrashStep ==
  ASSUME IInv, OneWriter, NEW s \in Stores, Crash(s)
  PROVE  IInv'
<1> DEFINE q == Fresh(store[s].life + 1)
<1>0. /\ UNCHANGED <<shard, active, staged, faults>> /\ crashes' = crashes + 1
      /\ crashes \in 0..MaxCrashes /\ crashes < MaxCrashes /\ faults \in 0..MaxFaults
  BY DEF Crash, IInv, Types
<1>1. store' = [store EXCEPT ![s] = q] /\ store'[s] = q
  BY DEF Crash, IInv, Types
<1>2. q \in Frame'
  <2>1. 1 \in DOMAIN Providers /\ <<>> \in Seq(Kept) /\ "idle" \in Pcs
        /\ store[s].life + 1 \in 1..(crashes' + 1)
    BY <1>0, Kinds, Calls, BoundsAssumption DEF Pcs
  <2> QED BY <2>1 DEF Fresh, Frame
<1>3. /\ q.pc = "idle" /\ ~q.poisoned /\ q.failed = Nothing /\ ~q.leaky
      /\ q.life = store[s].life + 1 /\ q.next = "none"
  BY DEF Fresh
<1> HIDE DEF q
<1>4. Shape(s)' /\ Looked(s)' /\ Blamed(s)' /\ ReadExact(s)'
  BY <1>1, <1>3 DEF Shape, Looked, Blamed, ReadExact, At, Staging, Stagers
<1>5. Answered(s)'
  <2> SUFFICES ASSUME NEW g \in Generations, NEW p \in Kept,
                      shard[p][g] # Nothing, shard[p][g].by = Me(s)'
               PROVE  FALSE
    BY <1>0 DEF Answered
  <2>1. shard[p][g].by = <<s, store[s].life + 1>>
    BY <1>1, <1>3 DEF Me
  <2>2. shard[p][g].by[2] <= store[shard[p][g].by[1]].life
    BY DEF IInv, Signed
  <2>3. store[s].life + 1 <= store[s].life
    BY <2>1, <2>2
  <2> QED BY <2>3, Calls
<1>6. q.life >= store[s].life
  BY <1>3, Calls
<1>7. crashes' \in 0..MaxCrashes /\ crashes' >= crashes
  BY <1>0, BoundsAssumption
<1> QED BY <1>0, <1>1, <1>2, <1>4, <1>5, <1>6, <1>7, Quiet DEF StoreOK
-------------------------------------------------------------------------------
(* The theorems. *)

LEMMA InitInv == Init => IInv
<1> SUFFICES ASSUME Init PROVE IInv
  OBVIOUS
<1> DEFINE q == Fresh(1)
<1>1. \A p \in Kept, g \in Generations : shard[p][g] = Nothing
  BY DEF Init
<1>2. /\ q.pc = "idle" /\ ~q.poisoned /\ q.failed = Nothing /\ ~q.leaky /\ q.next = "none"
  BY DEF Fresh
<1>3. q \in Frame
  <2>1. 1 \in DOMAIN Providers /\ <<>> \in Seq(Kept) /\ "idle" \in Pcs
        /\ 1 \in 1..(crashes + 1)
    BY Kinds DEF Pcs, Init
  <2> QED BY <2>1 DEF Fresh, Frame
<1>4. \A s \in Stores : store[s] = q
  BY DEF Init
<1> HIDE DEF q
<1>5. Types
  <2>1. store \in [Stores -> Frame]
    BY <1>3 DEF Init, q
  <2>2. shard \in [Kept -> [Generations -> Shard \cup {Nothing}]]
    BY DEF Init
  <2> QED BY <2>1, <2>2, BoundsAssumption DEF Types, Init
<1>6. Signed /\ VisibleComplete /\ StagedStaysComplete
  BY <1>1 DEF Signed, VisibleComplete, StagedStaysComplete, Init
<1>7. \A s \in Stores : StoreOK(s)
  BY <1>1, <1>2, <1>4 DEF StoreOK, Shape, Looked, Blamed, ReadExact, Answered, At, Staging, Stagers
<1> QED BY <1>5, <1>6, <1>7 DEF IInv

LEMMA NextInv == OneWriter /\ IInv /\ [Next]_vars => IInv'
<1> SUFFICES ASSUME OneWriter, IInv, [Next]_vars PROVE IInv'
  OBVIOUS
<1>1. CASE UNCHANGED vars
  <2>1. /\ shard' = shard /\ active' = active /\ store' = store /\ staged' = staged
        /\ faults' = faults /\ crashes' = crashes
    BY <1>1 DEF vars
  <2>2. Types' /\ Signed' /\ VisibleComplete' /\ StagedStaysComplete'
    BY <2>1 DEF IInv, Types, Frame, Signed, VisibleComplete, StagedStaysComplete, Complete, Exact
  <2>3. ASSUME NEW s \in Stores PROVE StoreOK(s)'
    <3>1. Shape(s)' /\ ReadExact(s)'
      BY <2>1, Calls DEF StoreOK, Shape, ReadExact, At, Complete, Exact
    <3>2. Looked(s)'
      BY <2>1, Calls DEF StoreOK, Looked, Me, There, Here, At
    <3>3. Blamed(s)'
      <4>1. Blamed(s)
        BY Calls DEF StoreOK
      <4> QED BY <2>1, <4>1 DEF Blamed, Promised, Staging, Me
    <3>4. Answered(s)'
      <4>1. Answered(s)
        BY Calls DEF StoreOK
      <4> QED BY <2>1, <4>1 DEF Answered, Staging, Me, Here
    <3> QED BY <3>1, <3>2, <3>3, <3>4 DEF StoreOK
  <2> QED BY <2>2, <2>3 DEF IInv
<1>2. ASSUME NEW s \in Stores, Step(s) PROVE IInv'
  <2>1. ASSUME NEW g \in Generations, Stage(s, g) PROVE IInv'
    BY <2>1, StageStep
  <2>2. ASSUME NEW g \in Generations, NEW e \in Generations \cup {Nothing},
               CompareAndSwap(s, e, g)
        PROVE  IInv'
    BY <2>2, CompareAndSwapStep
  <2> QED BY <1>2, <2>1, <2>2, LookStep, PutRowStep, LookAgainStep, CreateStep, FillStep,
             CheckStep, RollBackStep, RolledBackStep, CaptureStep, SwapStep, LoadActiveStep,
             ReadPointerStep, CrashStep DEF Step
<1> QED BY <1>1, <1>2 DEF Next

LEMMA Inductive == OneWriter => (Spec => []IInv)
<1> SUFFICES ASSUME OneWriter PROVE Spec => []IInv
  OBVIOUS
<1>1. IInv /\ [Next]_vars => IInv'
  BY NextInv
<1> QED BY <1>1, InitInv, PTL DEF Spec

\* What the pointer shows and what a stage call has promised stays whole in every
\* provider, and a failed stage leaves nothing of its own behind: whatever calls
\* fail and whichever processes are killed, if every checkpoint has one writer.
THEOREM GenerationsAlwaysWhole == OneWriter => (Spec => []GenerationsWhole)
<1>1. IInv => GenerationsWhole
  <2> SUFFICES ASSUME IInv PROVE GenerationsWhole
    OBVIOUS
  <2>1. TypeOK
    <3>1. ASSUME NEW s \in Stores
          PROVE  /\ store[s].at \in DOMAIN Providers /\ store[s].life \in Lives
                 /\ ~At(s, "idle") => ~store[s].poisoned
                 /\ ~At(s, "idle") /\ store[s].next = "staged" => store[s].gen \in MayStage[s]
                 /\ At(s, "look") => Range(store[s].created) \subseteq
                                       {Providers[i] : i \in 1..(store[s].at - 1)}
      <4>1. store[s].life \in Lives
        BY Calls, BoundsAssumption DEF Lives, IInv, Types
      <4>2. At(s, "look") => Range(store[s].created) \subseteq
                               {Providers[i] : i \in 1..(store[s].at - 1)}
        BY Calls DEF StoreOK, Shape, At, Stagers, Range
      <4> QED BY <4>1, <4>2, Calls, Kinds DEF StoreOK, Shape
    <3> QED BY <3>1 DEF TypeOK, IInv, Types
  <2>2. FailedStageLeavesNothing
    <3> SUFFICES ASSUME NEW s \in Stores, store[s].failed # Nothing, ~store[s].leaky,
                        store[s].failed \notin staged, NEW p \in Kept,
                        shard[p][store[s].failed] # Nothing,
                        shard[p][store[s].failed].by = Me(s)
                 PROVE  FALSE
      BY DEF FailedStageLeavesNothing
    <3>1. store[s].failed \in Generations
      BY Framed DEF Frame
    <3>2. store[s].poisoned /\ ~Staging(s)
      BY Calls DEF StoreOK, Shape, At, Staging, Stagers
    <3> QED BY <3>1, <3>2, Calls DEF StoreOK, Answered
  <2> QED BY <2>1, <2>2 DEF GenerationsWhole, IInv
<1> SUFFICES ASSUME OneWriter PROVE Spec => []GenerationsWhole
  OBVIOUS
<1> QED BY <1>1, Inductive, PTL

\* "cleanup remains safe and cannot delete a caller-owned shard": what a roll-back
\* deletes was created by the very process that rolls back.
THEOREM RollBackIsOwn == OneWriter => (Spec => RollBackDeletesOwn)
<1> DEFINE A == \A s \in Stores : At(s, "rollback") /\ store'[s] # store[s] =>
                  \A p \in Kept, g \in Generations :
                    shard[p][g] # Nothing /\ shard'[p][g] = Nothing => shard[p][g].by = Me(s)
<1> SUFFICES ASSUME OneWriter PROVE Spec => [][A]_vars
  BY DEF RollBackDeletesOwn
<1>1. IInv /\ [Next]_vars => [A]_vars
  <2> SUFFICES ASSUME IInv, Next, NEW s \in Stores, At(s, "rollback"), store'[s] # store[s],
                      NEW p \in Kept, NEW g \in Generations,
                      shard[p][g] # Nothing, shard'[p][g] = Nothing
               PROVE  shard[p][g].by = Me(s)
    OBVIOUS
  <2>1. PICK t \in Stores : Step(t)
    BY DEF Next
  <2>2. t = s
    <3> SUFFICES ASSUME t # s PROVE store'[s] = store[s]
      OBVIOUS
    <3>1. store \in [Stores -> Frame]
      BY DEF IInv, Types
    <3> QED BY <2>1, <3>1 DEF Step, Stage, Look, PutRow, LookAgain, Create, Fill, Check, RollBack,
               RolledBack, Capture, CompareAndSwap, Swap, LoadActive, ReadPointer, Crash,
               RollBackFrom, StagerFails, Goto, Return, Poison, NextProvider, Captured,
               CaptureFails
  <2>3. RollBack(s) \/ RolledBack(s) \/ Crash(s)
    BY <2>1, <2>2 DEF Step, At, Stage, Look, PutRow, LookAgain, Create, Fill, Check, Capture,
                      CompareAndSwap, Swap, LoadActive, ReadPointer
  <2>4. CASE RollBack(s)
    BY <2>4, RollBackStep
  <2>5. CASE RolledBack(s) \/ Crash(s)
    BY <2>5 DEF RolledBack, Crash
  <2> QED BY <2>3, <2>4, <2>5
<1> QED BY <1>1, Inductive, PTL DEF Spec
===============================================================================
