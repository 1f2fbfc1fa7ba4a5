------------------------ MODULE WorldManagerProofs ------------------------
(***************************************************************************)
(* Proofs about the world manager, for any sets of clients, worlds and     *)
(* handles and any adapter.  The inductive invariant IInv says what every  *)
(* suspended coroutine may still rely on when it resumes (ClientOK): the   *)
(* reservation it owns, the gate it is inside, and that the node it read   *)
(* there is still the published one.  FrameLemma carries it across the     *)
(* steps of the other coroutines; one lemma per command carries it across  *)
(* the coroutine's own.                                                    *)
(*                                                                         *)
(* The second half is about the catalog: what a step may do to a published *)
(* world, and that the deduplication pointers _rebuild_indexes writes      *)
(* always name one canonical live world for each key.  Both rest on        *)
(* StoreStep: whatever the coroutines do, the catalog changes by one       *)
(* _replace, by one _add, or not at all.                                   *)
(***************************************************************************)
EXTENDS WorldManager, FiniteSetTheorems, WellFoundedInduction, TLAPS

\* The nodes agree on everything but the deduplication pointer.
Same(m, n) ==
  /\ m.parent = n.parent           /\ m.root = n.root
  /\ m.target = n.target           /\ m.phase = n.phase
  /\ m.fingerprint = n.fingerprint /\ m.lineage = n.lineage
  /\ m.environment = n.environment /\ m.snapshot = n.snapshot
  /\ m.destroyed = n.destroyed     /\ m.revision = n.revision

\* Two nodes that agree but for the deduplication pointer (what _rebuild_indexes
\* may rewrite) differ by an update of that field.
LEMMA SameExcept ==
  ASSUME NEW m \in Node, NEW n \in Node, Same(m, n)
  PROVE  m = [n EXCEPT !.dedup = m.dedup]
BY DEF Same, Node

\* The canonical world _rebuild_indexes finds is a published identifier or None.
LEMMA CanonicalType ==
  ASSUME NEW ns, NEW ord \in Seq(WorldIds), NEW w
  PROVE  Canonical(ns, ord, w) \in WorldIds \cup {None}
<1> DEFINE twin(i) == /\ ns[ord[i]] # None
                      /\ ~ns[ord[i]].destroyed
                      /\ FingerprintKey(ns[ord[i]]) = FingerprintKey(ns[w])
           firsts == {i \in DOMAIN ord : twin(i) /\ \A j \in DOMAIN ord : twin(j) => i <= j}
           earlier == {ord[i] : i \in firsts} \ {w}
<1>1. earlier \subseteq WorldIds
  <2>1. \A i \in DOMAIN ord : ord[i] \in WorldIds
    OBVIOUS
  <2> HIDE DEF twin
  <2> QED BY <2>1
<1> HIDE DEF earlier
<1>2. earlier # {} => (CHOOSE v \in earlier : TRUE) \in earlier
  OBVIOUS
<1>3. Canonical(ns, ord, w) = IF ns[w].destroyed \/ earlier = {} THEN None
                              ELSE CHOOSE v \in earlier : TRUE
  BY DEF Canonical, earlier
<1> QED BY <1>1, <1>2, <1>3

\* Writing the deduplication pointer, as _rebuild_indexes does, keeps a node a
\* node and touches nothing else.
LEMMA DedupUpdate ==
  ASSUME NEW n \in Node, NEW d \in WorldIds \cup {None}
  PROVE  /\ [n EXCEPT !.dedup = d] \in Node
         /\ Same([n EXCEPT !.dedup = d], n)
BY DEF Node, Same

\* _rebuild_indexes publishes and removes no world and rewrites only pointers.
LEMMA RebuildFacts ==
  ASSUME NEW ns \in [WorldIds -> Node \cup {None}], NEW ord \in Seq(WorldIds),
         NEW r, r = RebuildIndexes(ns, ord)
  PROVE  /\ r \in [WorldIds -> Node \cup {None}]
         /\ \A w \in WorldIds : r[w] = None <=> ns[w] = None
         /\ \A w \in WorldIds : ns[w] # None => Same(r[w], ns[w])
<1>1. \A w \in WorldIds : ns[w] # None =>
        /\ [ns[w] EXCEPT !.dedup = Canonical(ns, ord, w)] \in Node
        /\ Same([ns[w] EXCEPT !.dedup = Canonical(ns, ord, w)], ns[w])
  BY CanonicalType, DedupUpdate
<1> QED BY <1>1, NoneAssumption DEF RebuildIndexes

-----------------------------------------------------------------------------
(* The inductive invariant.                                                *)

GatePoints == {"creating", "capturing", "restoring", "destroying", "discarding"}

\* The client owns the reservation of its child, which holds environment e.
Owns(k, c, pnd, e) ==
  /\ k.child \in WorldIds
  /\ pnd[k.child] # None
  /\ pnd[k.child].owner = c
  /\ pnd[k.child].environment = e

\* The client is inside the gate of its world and what it read is current.
Inside(k, c, nds, gt) ==
  /\ k.world \in WorldIds
  /\ gt[k.world] = c
  /\ nds[k.world] # None
  /\ k.seen # None
  /\ Same(nds[k.world], k.seen)

\* What the coroutine k of client c may rely on, at each point.
ClientOK(k, c, nds, pnd, gt) ==
  /\ k.at = "idle" => k.seen = None
  /\ k.at = "waiting" =>
       /\ k.seen = None
       /\ k.world \in WorldIds /\ nds[k.world] # None
       /\ k.op \in Children => k.arg \in Labels /\ Owns(k, c, pnd, None)
       /\ k.op \notin Children => k.child = None
       /\ k.op = "transition" => k.arg \in Phases
       /\ k.op \in Commands \ {"prepare"}
  /\ k.at = "creating" => k.op \in Creations /\ Owns(k, c, pnd, None)
  /\ k.at = "capturing" => k.op \in Creations \cup Captures
  /\ (k.at = "capturing" /\ k.op \in Creations) => k.env # None /\ Owns(k, c, pnd, k.env)
  /\ k.at = "unwinding" => /\ k.env # None /\ k.seen = None /\ k.op \in Creations
                           /\ Owns(k, c, pnd, k.env)
  /\ k.at = "restoring" => k.op = "restore"
  /\ k.at = "discarding" => k.op \in Captures
  /\ k.at = "destroying" => k.op = "destroy"
  /\ (k.at \in GatePoints /\ k.op # "prepare") => Inside(k, c, nds, gt)
  /\ (k.at \in GatePoints /\ k.op = "fork") => k.arg \in Labels
  /\ k.op = "prepare" => k.seen = None /\ k.world = None
  /\ (k.at \in GatePoints /\ k.op \in Captures \cup {"destroy"})
       => k.env # None /\ k.env = nds[k.world].environment

ClientsOK == \A c \in Clients : ClientOK(client[c], c, nodes, pending, gate)

GatesOK ==
  \A w \in WorldIds : gate[w] # None =>
    /\ client[gate[w]].at \in GatePoints
    /\ client[gate[w]].op # "prepare"
    /\ client[gate[w]].world = w

\* ParentAgrees, of a node among the nodes ns.
AgreesIn(n, ns) ==
  \/ n.parent = None /\ n.lineage = <<>>
  \/ /\ n.parent # None
     /\ ns[n.parent] # None
     /\ ns[n.parent].root = n.root
     /\ ns[n.parent].target = n.target
     /\ Len(n.lineage) = Len(ns[n.parent].lineage) + 1
     /\ SubSeq(n.lineage, 1, Len(n.lineage) - 1) = ns[n.parent].lineage

NodesOK ==
  \A w \in WorldIds : nodes[w] # None =>
    /\ pending[w] = None
    /\ Coherent(nodes[w])
    /\ AgreesIn(nodes[w], nodes)

IInv ==
  /\ TypeOK
  /\ ClientsOK
  /\ GatesOK
  /\ NodesOK
  /\ ExclusiveOwnership
  /\ NamespaceIsolation
  /\ NothingLost
  /\ \A c \in Clients : client[c].result # "conflict"

\* What a step of client c leaves alone, as far as the other clients can tell.
Frame(c) ==
  /\ \A w \in WorldIds : pending'[w] = pending[w] \/ pending[w] = None \/ pending[w].owner = c
  /\ \A w \in WorldIds : gate'[w] = gate[w] \/ gate[w] \in {None, c}
  /\ \A w \in WorldIds : nodes[w] # None => nodes'[w] # None
  /\ \A w \in WorldIds : (nodes[w] # None /\ gate[w] \notin {None, c}) => Same(nodes'[w], nodes[w])
  /\ \A d \in Clients \ {c} : client'[d] = client[d]

\* Agreement but for the pointer composes: a commit followed by a rebuild.
LEMMA SameTransitive ==
  ASSUME NEW l, NEW m, NEW n, Same(l, m), Same(m, n)
  PROVE  Same(l, n)
BY DEF Same

\* What another client relies on survives a step that respects the reservations
\* and the gates of the others (the store and _world_gates are shared).
LEMMA FrameLemma ==
  ASSUME NEW c \in Clients, ClientsOK, Frame(c), NEW d \in Clients \ {c}
  PROVE  ClientOK(client'[d], d, nodes', pending', gate')
<1> DEFINE k == client[d]
<1>1. ClientOK(k, d, nodes, pending, gate)
  BY DEF ClientsOK
<1>2. client'[d] = k
  BY DEF Frame
<1> HIDE DEF k
<1>3. ASSUME NEW e, Owns(k, d, pending, e) PROVE Owns(k, d, pending', e)
  BY <1>3 DEF Owns, Frame
<1>4. ASSUME Inside(k, d, nodes, gate)
      PROVE  Inside(k, d, nodes', gate') /\ Same(nodes'[k.world], nodes[k.world])
  <2>1. k.world \in WorldIds /\ gate[k.world] = d /\ d \notin {None, c}
    BY <1>4, NoneAssumption DEF Inside
  <2>2. gate'[k.world] = d /\ Same(nodes'[k.world], nodes[k.world]) /\ nodes'[k.world] # None
    BY <1>4, <2>1 DEF Frame, Inside
  <2> QED BY <1>4, <2>1, <2>2, SameTransitive DEF Inside
<1>5. k.world \in WorldIds /\ nodes[k.world] # None => nodes'[k.world] # None
  BY DEF Frame
<1>6. ASSUME k.at \in GatePoints, k.op \in Captures \cup {"destroy"}
      PROVE  k.env # None /\ k.env = nodes'[k.world].environment
  <2>1. Inside(k, d, nodes, gate) /\ k.env # None /\ k.env = nodes[k.world].environment
    BY <1>1, <1>6 DEF ClientOK, Captures
  <2> QED BY <1>4, <2>1 DEF Same
<1> QED BY <1>1, <1>2, <1>3, <1>4, <1>5, <1>6 DEF ClientOK

\* One coroutine runs at a time: it is enough to look at the one that moved.
LEMMA ClientsStep ==
  ASSUME NEW c \in Clients, ClientsOK, Frame(c),
         ClientOK(client'[c], c, nodes', pending', gate')
  PROVE  ClientsOK'
<1>1. \A d \in Clients : ClientOK(client'[d], d, nodes', pending', gate')
  BY FrameLemma
<1> QED BY <1>1 DEF ClientsOK

-----------------------------------------------------------------------------
(* What the operations of the store do.                                    *)

\* The validators of WorldNode do not look at the deduplication pointer.
LEMMA CoherentSame ==
  ASSUME NEW m, NEW n, Same(m, n), Coherent(n)
  PROVE  Coherent(m)
BY DEF Same, Coherent

\* _replace writes the new node with the next revision and leaves every other
\* world as it was, pointers aside.
LEMMA ReplaceFacts ==
  ASSUME StoreTypeOK, NEW w \in WorldIds, NEW n \in Node, nodes[w] # None, Replace(w, n)
  PROVE  /\ StoreTypeOK'
         /\ pending' = pending
         /\ nodes'[w] # None
         /\ Same(nodes'[w], [n EXCEPT !.revision = n.revision + 1])
         /\ \A v \in WorldIds \ {w} : /\ nodes'[v] = None <=> nodes[v] = None
                                      /\ nodes[v] # None => Same(nodes'[v], nodes[v])
<1> DEFINE m == [n EXCEPT !.revision = n.revision + 1]
           ns == [nodes EXCEPT ![w] = m]
<1>1. m \in Node
  BY DEF Node
<1>2. m # None
  BY <1>1, NoneAssumption
<1> HIDE DEF m
<1>3. ns \in [WorldIds -> Node \cup {None}] /\ ns[w] = m /\ \A v \in WorldIds \ {w} : ns[v] = nodes[v]
  BY <1>1 DEF StoreTypeOK
<1>4. nodes' = RebuildIndexes(ns, order) /\ UNCHANGED <<order, pending>>
  BY DEF Replace, m
<1> HIDE DEF ns
<1>5. order \in Seq(WorldIds)
  BY DEF StoreTypeOK
<1>6. /\ nodes' \in [WorldIds -> Node \cup {None}]
      /\ \A v \in WorldIds : nodes'[v] = None <=> ns[v] = None
      /\ \A v \in WorldIds : ns[v] # None => Same(nodes'[v], ns[v])
  BY <1>3, <1>4, <1>5, RebuildFacts
<1>7. Same(nodes'[w], m) /\ nodes'[w] # None
  BY <1>2, <1>3, <1>6
<1>8. StoreTypeOK'
  BY <1>4, <1>6 DEF StoreTypeOK
<1> QED BY <1>3, <1>4, <1>6, <1>7, <1>8 DEF m

\* _add publishes the node, consumes the reservation and leaves every other
\* world as it was, pointers aside.
LEMMA AddFacts ==
  ASSUME StoreTypeOK, NEW w \in WorldIds, NEW n \in Node, Add(w, n)
  PROVE  /\ StoreTypeOK'
         /\ pending' = [pending EXCEPT ![w] = None]
         /\ nodes'[w] # None
         /\ Same(nodes'[w], n)
         /\ \A v \in WorldIds \ {w} : /\ nodes'[v] = None <=> nodes[v] = None
                                      /\ nodes[v] # None => Same(nodes'[v], nodes[v])
<1> DEFINE ns == [nodes EXCEPT ![w] = n]
           ord == Append(order, w)
<1>1. n # None
  BY NoneAssumption
<1>2. ns \in [WorldIds -> Node \cup {None}] /\ ns[w] = n /\ \A v \in WorldIds \ {w} : ns[v] = nodes[v]
  BY DEF StoreTypeOK
<1>3. ord \in Seq(WorldIds)
  BY DEF StoreTypeOK
<1>4. nodes' = RebuildIndexes(ns, ord) /\ order' = ord /\ pending' = [pending EXCEPT ![w] = None]
  BY DEF Add
<1> HIDE DEF ns, ord
<1>5. /\ nodes' \in [WorldIds -> Node \cup {None}]
      /\ \A v \in WorldIds : nodes'[v] = None <=> ns[v] = None
      /\ \A v \in WorldIds : ns[v] # None => Same(nodes'[v], ns[v])
  BY <1>2, <1>3, <1>4, RebuildFacts
<1>6. pending' \in [WorldIds -> Reservation \cup {None}]
  BY <1>4 DEF StoreTypeOK
<1>7. StoreTypeOK'
  BY <1>3, <1>4, <1>5, <1>6 DEF StoreTypeOK
<1> QED BY <1>1, <1>2, <1>4, <1>5, <1>7

\* Parents keep what _validate_parent checks of their children.
LEMMA AgreementKept ==
  ASSUME NEW n, AgreesIn(n, nodes),
         n.parent = None \/ (nodes'[n.parent] # None /\ nodes'[n.parent].root = nodes[n.parent].root
                             /\ nodes'[n.parent].target = nodes[n.parent].target
                             /\ nodes'[n.parent].lineage = nodes[n.parent].lineage),
         NEW m, Same(m, n)
  PROVE  AgreesIn(m, nodes')
BY DEF AgreesIn, Same

\* A step that leaves the published nodes alone keeps them well formed.
LEMMA NodesKept ==
  ASSUME NodesOK, UNCHANGED nodes, \A w \in WorldIds : nodes[w] # None => pending'[w] = None
  PROVE  NodesOK'
BY DEF NodesOK

\* _replace keeps the published nodes coherent and in agreement with parents.
LEMMA NodesReplaced ==
  ASSUME StoreTypeOK, NodesOK, NEW w \in WorldIds, NEW n \in Node, nodes[w] # None,
         Replace(w, n)
  PROVE  NodesOK'
<1> USE DEF StoreTypeOK
<1>1. Replaceable(w, n)
  BY DEF Replace
<1>2. Coherent(n) /\ AgreesIn(n, nodes)
  BY <1>1 DEF Replaceable, ParentAgrees, AgreesIn
<1> DEFINE m == [n EXCEPT !.revision = n.revision + 1]
<1>3. Coherent(m) /\ AgreesIn(m, nodes)
  BY <1>2 DEF Coherent, AgreesIn, Node
<1>4. /\ nodes[w].root = m.root
      /\ nodes[w].target = m.target
      /\ nodes[w].lineage = m.lineage
  BY <1>1 DEF Replaceable, Node
<1>5. pending' = pending /\ Same(nodes'[w], m) /\ nodes'[w] # None
  BY ReplaceFacts
<1>6. \A v \in WorldIds \ {w} : /\ nodes'[v] = None <=> nodes[v] = None
                                /\ nodes[v] # None => Same(nodes'[v], nodes[v])
  BY ReplaceFacts
<1> HIDE DEF m
<1>7. \A v \in WorldIds : nodes[v] # None =>
        /\ nodes'[v] # None
        /\ nodes'[v].root = nodes[v].root
        /\ nodes'[v].target = nodes[v].target
        /\ nodes'[v].lineage = nodes[v].lineage
  BY <1>4, <1>5, <1>6 DEF Same
<1>8. ASSUME NEW v \in WorldIds, nodes'[v] # None
      PROVE  pending'[v] = None /\ Coherent(nodes'[v]) /\ AgreesIn(nodes'[v], nodes')
  <2> DEFINE k == IF v = w THEN m ELSE nodes[v]
  <2>1. Same(nodes'[v], k) /\ Coherent(k) /\ AgreesIn(k, nodes) /\ pending[v] = None
    BY <1>3, <1>5, <1>6, <1>8 DEF NodesOK
  <2>2. k.parent = None \/ (k.parent \in WorldIds /\ nodes[k.parent] # None)
    <3>1. k.parent \in WorldIds \cup {None}
      BY <1>6, <1>8 DEF m, Node
    <3> QED BY <2>1, <3>1 DEF AgreesIn
  <2> HIDE DEF k
  <2>3. Coherent(nodes'[v])
    BY <2>1, CoherentSame
  <2>4. AgreesIn(nodes'[v], nodes')
    BY <1>7, <2>1, <2>2, AgreementKept
  <2> QED BY <1>5, <2>1, <2>3, <2>4
<1> QED BY <1>8 DEF NodesOK

\* _add keeps the published nodes coherent and in agreement with parents.
LEMMA NodesAdded ==
  ASSUME StoreTypeOK, NodesOK, NEW w \in WorldIds, NEW n \in Node, nodes[w] = None,
         Add(w, n)
  PROVE  NodesOK'
<1> USE DEF StoreTypeOK
<1>1. Coherent(n) /\ AgreesIn(n, nodes)
  BY DEF Add, Addable, ParentAgrees, AgreesIn
<1>2. pending' = [pending EXCEPT ![w] = None] /\ Same(nodes'[w], n)
  BY AddFacts
<1>3. \A v \in WorldIds \ {w} : /\ nodes'[v] = None <=> nodes[v] = None
                                /\ nodes[v] # None => Same(nodes'[v], nodes[v])
  BY AddFacts
<1>4. \A v \in WorldIds : nodes[v] # None =>
        /\ nodes'[v] # None
        /\ nodes'[v].root = nodes[v].root
        /\ nodes'[v].target = nodes[v].target
        /\ nodes'[v].lineage = nodes[v].lineage
  BY <1>3 DEF Same
<1>5. ASSUME NEW v \in WorldIds, nodes'[v] # None
      PROVE  pending'[v] = None /\ Coherent(nodes'[v]) /\ AgreesIn(nodes'[v], nodes')
  <2> DEFINE k == IF v = w THEN n ELSE nodes[v]
  <2>1. Same(nodes'[v], k) /\ Coherent(k) /\ AgreesIn(k, nodes)
    BY <1>1, <1>2, <1>3, <1>5 DEF NodesOK
  <2>2. k.parent = None \/ (k.parent \in WorldIds /\ nodes[k.parent] # None)
    <3>1. k.parent \in WorldIds \cup {None}
      BY <1>3, <1>5 DEF Node
    <3> QED BY <2>1, <3>1 DEF AgreesIn
  <2>3. pending'[v] = None
    BY <1>2, <1>3, <1>5 DEF NodesOK
  <2> HIDE DEF k
  <2>4. Coherent(nodes'[v])
    BY <2>1, CoherentSame
  <2>5. AgreesIn(nodes'[v], nodes')
    BY <1>4, <2>1, <2>2, AgreementKept
  <2> QED BY <2>3, <2>4, <2>5
<1> QED BY <1>5 DEF NodesOK

-----------------------------------------------------------------------------
(* Ownership of environments.                                              *)

\* A step that changes at most what world w holds, and only to drop it (a
\* release, a burial), keeps ownership exclusive and loses nothing.
LEMMA OwnershipKept ==
  ASSUME ExclusiveOwnership, NothingLost, NEW w \in WorldIds,
         \A v \in WorldIds \ {w} : Held(v)' = Held(v),
         \/ Held(w)' = Held(w) /\ unconfirmed' = unconfirmed
         \/ Held(w)' = None /\ unconfirmed' = unconfirmed \ {Held(w)}
  PROVE  ExclusiveOwnership' /\ NothingLost'
<1>1. \A v \in WorldIds : Held(v)' # None => Held(v)' = Held(v)
  OBVIOUS
<1>2. ExclusiveOwnership'
  BY <1>1 DEF ExclusiveOwnership
<1>3. NothingLost'
  <2>1. \A h \in unconfirmed' : h \in unconfirmed /\ (Held(w)' # Held(w) => h # Held(w))
    OBVIOUS
  <2> QED BY <2>1 DEF NothingLost
<1> QED BY <1>2, <1>3

\* A step that makes world w hold the claimable handle h (_claim_environment)
\* keeps ownership exclusive.
LEMMA OwnershipClaimed ==
  ASSUME ExclusiveOwnership, NothingLost, unconfirmed \subseteq Handles,
         NEW w \in WorldIds, NEW h \in Handles,
         Claimable(w, h), Held(w) = None, Held(w)' = h,
         \A v \in WorldIds \ {w} : Held(v)' = Held(v),
         unconfirmed' = unconfirmed \cup {h}
  PROVE  ExclusiveOwnership' /\ NothingLost'
<1>1. \A v \in WorldIds \ {w} : Held(v) # None =>
        IdentityDisjoint(h, Held(v)) /\ IdentityDisjoint(Held(v), h)
  BY DEF Claimable, Holders, IdentityDisjoint
<1>2. ASSUME NEW u \in WorldIds, NEW v \in WorldIds, u # v, Held(u)' # None, Held(v)' # None
      PROVE  IdentityDisjoint(Held(u)', Held(v)')
  <2>1. CASE u = w
    BY <1>1, <1>2, <2>1
  <2>2. CASE v = w
    BY <1>1, <1>2, <2>2
  <2>3. CASE u # w /\ v # w
    BY <1>2, <2>3 DEF ExclusiveOwnership
  <2> QED BY <2>1, <2>2, <2>3
<1>3. ExclusiveOwnership'
  BY <1>2 DEF ExclusiveOwnership
<1>4. NothingLost'
  BY NoneAssumption DEF NothingLost
<1> QED BY <1>3, <1>4

\* A step that publishes no environment keeps the namespaces apart.
LEMMA IsolationKept ==
  ASSUME NamespaceIsolation,
         \A v \in WorldIds : (nodes'[v] # None /\ nodes'[v].environment # None) =>
            nodes[v] # None /\ nodes'[v].environment = nodes[v].environment
  PROVE  NamespaceIsolation'
BY DEF NamespaceIsolation

\* The namespace check of _add keeps the namespaces of published worlds apart.
LEMMA IsolationAdded ==
  ASSUME StoreTypeOK, NamespaceIsolation, NEW w \in WorldIds, NEW n \in Node,
         nodes[w] = None, Add(w, n)
  PROVE  NamespaceIsolation'
<1>1. Same(nodes'[w], n) /\ nodes'[w] # None
  BY AddFacts
<1>2. \A v \in WorldIds \ {w} : /\ nodes'[v] = None <=> nodes[v] = None
                                /\ nodes[v] # None => Same(nodes'[v], nodes[v])
  BY AddFacts
<1>3. n.environment # None => NamespaceFree(w, n.environment)
  BY DEF Add, Addable
<1>4. \A v \in WorldIds \ {w} :
        (n.environment # None /\ nodes[v] # None /\ nodes[v].environment # None) =>
           /\ NamespaceDisjoint(n.environment, nodes[v].environment)
           /\ NamespaceDisjoint(nodes[v].environment, n.environment)
  BY <1>3 DEF NamespaceFree, Holders, Held, NamespaceDisjoint
<1>5. ASSUME NEW u \in WorldIds, NEW v \in WorldIds, u # v,
             nodes'[u] # None, nodes'[v] # None,
             nodes'[u].environment # None, nodes'[v].environment # None
      PROVE  NamespaceDisjoint(nodes'[u].environment, nodes'[v].environment)
  <2>1. CASE u = w
    BY <1>1, <1>2, <1>4, <1>5, <2>1 DEF Same
  <2>2. CASE v = w
    BY <1>1, <1>2, <1>4, <1>5, <2>2 DEF Same
  <2>3. CASE u # w /\ v # w
    BY <1>2, <1>5, <2>3 DEF NamespaceIsolation, Same
  <2> QED BY <2>1, <2>2, <2>3
<1> QED BY <1>5 DEF NamespaceIsolation

-----------------------------------------------------------------------------
(* Gates.                                                                  *)

\* Client c stays where it is with respect to the gates (async with).
LEMMA GatesKept ==
  ASSUME TypeOK, GatesOK, NEW c \in Clients, UNCHANGED gate,
         \A d \in Clients \ {c} : client'[d] = client[d],
         client[c].at \notin GatePoints
         \/ /\ client'[c].at \in GatePoints
            /\ client'[c].op = client[c].op
            /\ client'[c].world = client[c].world
         \/ client[c].op = "prepare"
  PROVE  GatesOK'
<1>1. \A w \in WorldIds : gate[w] # None => gate[w] \in Clients
  BY DEF TypeOK
<1> QED BY <1>1 DEF GatesOK

\* Leaving a gate, as async with does on every exit, keeps the gates consistent.
LEMMA GatesLeft ==
  ASSUME TypeOK, GatesOK, NEW c \in Clients, ReleaseGate(c),
         \A d \in Clients \ {c} : client'[d] = client[d]
  PROVE  GatesOK' /\ gate' \in [WorldIds -> Clients \cup {None}]
<1>1. \A w \in WorldIds : gate[w] # None => gate[w] \in Clients
  BY DEF TypeOK
<1>2. \A w \in WorldIds : gate'[w] # None => gate'[w] = gate[w] /\ gate[w] # c
  BY DEF ReleaseGate
<1>3. GatesOK'
  BY <1>1, <1>2 DEF GatesOK
<1> QED BY <1>3 DEF ReleaseGate, TypeOK

\* Passing a free gate keeps the gates consistent.
LEMMA GatesEntered ==
  ASSUME TypeOK, GatesOK, NEW c \in Clients, NEW w \in WorldIds,
         gate[w] = None, gate' = [gate EXCEPT ![w] = c],
         \A d \in Clients \ {c} : client'[d] = client[d],
         client[c].at = "waiting",
         client'[c].at \in GatePoints, client'[c].op # "prepare", client'[c].world = w
  PROVE  GatesOK' /\ gate' \in [WorldIds -> Clients \cup {None}]
<1>1. \A v \in WorldIds : gate[v] # None => gate[v] \in Clients \ {c}
  BY DEF TypeOK, GatesOK, GatePoints
<1>2. gate'[w] = c /\ \A v \in WorldIds \ {w} : gate'[v] = gate[v]
  BY DEF TypeOK
<1>3. GatesOK'
  BY <1>1, <1>2 DEF GatesOK
<1> QED BY <1>3 DEF TypeOK

-----------------------------------------------------------------------------
(* One lemma for each action: it preserves the inductive invariant.        *)

StoreOK ==
  /\ StoreTypeOK
  /\ NodesOK
  /\ ExclusiveOwnership
  /\ NamespaceIsolation
  /\ NothingLost
  /\ unconfirmed \subseteq Handles

\* A step that only makes or gives back a reservation without environment
\* (_reserve_world, _release_world before a claim) keeps the store consistent.
LEMMA ReservationStep ==
  ASSUME StoreOK, UNCHANGED <<nodes, order, unconfirmed>>,
         NEW w \in WorldIds, NEW r \in Reservation \cup {None},
         r # None => r.environment = None,
         nodes[w] = None, pending[w] # None => pending[w].environment = None,
         pending' = [pending EXCEPT ![w] = r]
  PROVE  StoreOK'
<1>1. StoreTypeOK'
  BY DEF StoreOK, StoreTypeOK
<1>2. pending'[w] = r /\ \A v \in WorldIds \ {w} : pending'[v] = pending[v]
  BY DEF StoreOK, StoreTypeOK
<1>3. \A v \in WorldIds : Held(v)' = Held(v)
  BY <1>2 DEF Held
<1>4. NodesOK'
  BY <1>2, NodesKept DEF StoreOK, NodesOK
<1>5. ExclusiveOwnership' /\ NothingLost'
  BY <1>3, OwnershipKept DEF StoreOK
<1>6. NamespaceIsolation'
  BY IsolationKept DEF StoreOK
<1> QED BY <1>1, <1>4, <1>5, <1>6 DEF StoreOK

\* A step that does not touch the catalog keeps it consistent.
LEMMA StoreUnchanged ==
  ASSUME StoreOK, UNCHANGED <<nodes, order, pending, unconfirmed>>
  PROVE  StoreOK'
<1>1. \A v \in WorldIds : Held(v)' = Held(v)
  BY DEF Held
<1>2. NodesOK'
  BY NodesKept DEF StoreOK, NodesOK
<1>3. ExclusiveOwnership' /\ NothingLost'
  BY <1>1 DEF StoreOK, ExclusiveOwnership, NothingLost
<1> QED BY <1>2, <1>3, IsolationKept DEF StoreOK, StoreTypeOK

Running ==
  /\ StoreOK
  /\ client \in [Clients -> Coroutine]
  /\ gate \in [WorldIds -> Clients \cup {None}]
  /\ calls \in Nat
  /\ ClientsOK
  /\ GatesOK
  /\ \A c \in Clients : client[c].result # "conflict"

\* The invariant, regrouped into the part about the catalog and the rest.
LEMMA IInvRunning == IInv <=> Running
BY DEF IInv, Running, StoreOK, TypeOK

\* The obligations of a step of client c, which becomes the coroutine k.
LEMMA StepRunning ==
  ASSUME Running, NEW c \in Clients, NEW k \in Coroutine,
         StoreOK', client' = [client EXCEPT ![c] = k],
         gate' \in [WorldIds -> Clients \cup {None}], calls' \in Nat,
         GatesOK', Frame(c), k.result # "conflict",
         ClientOK(k, c, nodes', pending', gate')
  PROVE  Running'
<1>1. client'[c] = k /\ client' \in [Clients -> Coroutine]
  BY DEF Running
<1>2. ClientsOK'
  BY <1>1, ClientsStep DEF Running
<1>3. \A d \in Clients : client'[d].result # "conflict"
  BY <1>1 DEF Running
<1> QED BY <1>1, <1>2, <1>3 DEF Running

\* A finished command leaves a coroutine value.
LEMMA IdleType ==
  ASSUME NEW result \in {"none", "returned", "raised", "conflict"}
  PROVE  Idle(result) \in Coroutine
BY DEF Idle, Coroutine, Points

\* A finished command relies on nothing.
LEMMA IdleOK ==
  ASSUME NEW result, NEW c, NEW nds, NEW pnd, NEW gt
  PROVE  ClientOK(Idle(result), c, nds, pnd, gt)
<1>1. Idle(result).at = "idle" /\ Idle(result).op = None /\ Idle(result).seen = None
      /\ Idle(result).world = None
  BY DEF Idle
<1> QED BY <1>1 DEF ClientOK, GatePoints

\* Entering a command leaves every shared variable but a reservation alone.
LEMMA StartStep ==
  ASSUME Running, NEW c \in Clients, NEW op \in Commands, NEW point \in Points,
         NEW w \in WorldIds \cup {None}, NEW child \in WorldIds \cup {None},
         NEW arg \in Args \cup {None}, NEW wanted \in Snapshots \cup {None},
         Start(c, op, point, w, child, arg, wanted),
         StoreOK',
         \A v \in WorldIds : pending'[v] = pending[v] \/ pending[v] = None,
         \/ /\ point = "creating" /\ op = "prepare" /\ w = None
            /\ child \in WorldIds /\ pending'[child] = [owner |-> c, environment |-> None]
         \/ /\ point = "waiting" /\ op # "prepare" /\ w \in WorldIds /\ nodes[w] # None
            /\ op = "transition" => arg \in Phases
            /\ \/ /\ op \in Children /\ arg \in Labels /\ child \in WorldIds
                  /\ pending'[child] = [owner |-> c, environment |-> None]
               \/ op \notin Children /\ child = None
  PROVE  Running'
<1> DEFINE k == [at |-> point, op |-> op, world |-> w, child |-> child, arg |-> arg,
                 wanted |-> wanted, env |-> None, seen |-> None, result |-> "none"]
<1>1. k \in Coroutine
  BY DEF Coroutine
<1>2. /\ client' = [client EXCEPT ![c] = k]
      /\ client[c].at = "idle"
      /\ UNCHANGED <<nodes, order, gate, unconfirmed>>
      /\ calls' = calls + 1
  BY DEF Start, At
<1>3. /\ k.at = point /\ k.op = op /\ k.world = w /\ k.child = child /\ k.arg = arg
      /\ k.env = None /\ k.seen = None /\ k.result = "none"
  OBVIOUS
<1> HIDE DEF k
<1>4. client'[c] = k /\ \A d \in Clients \ {c} : client'[d] = client[d]
  BY <1>2 DEF Running
<1>5. Frame(c)
  BY <1>2, <1>4 DEF Frame, Same
<1>6. GatesOK'
  <2>1. client[c].at \notin GatePoints
    BY <1>2 DEF GatePoints
  <2>2. \A v \in WorldIds : gate[v] # None => gate[v] \in Clients
    BY DEF Running
  <2> QED BY <1>2, <1>4, <2>1, <2>2 DEF Running, GatesOK
<1>7. ClientOK(k, c, nodes', pending', gate')
  <2>1. \A x \in WorldIds : pending'[x] = [owner |-> c, environment |-> None] =>
          pending'[x] # None
    <3>1. [owner |-> c, environment |-> None] \in Reservation
      BY DEF Reservation
    <3> QED BY <3>1, NoneAssumption
  <2>2. CASE point = "creating" /\ op = "prepare" /\ w = None
    <3>1. Owns(k, c, pending', None)
      BY <1>3, <2>1, <2>2 DEF Owns
    <3> QED BY <1>3, <2>2, <3>1
        DEF ClientOK, GatePoints, Creations, Captures, Children, Commands
  <2>3. CASE point = "waiting"
    <3>1. op \in Children => Owns(k, c, pending', None)
      BY <1>3, <2>1, <2>3 DEF Owns
    <3> QED BY <1>2, <1>3, <2>3, <3>1 DEF ClientOK, GatePoints
  <2> QED BY <2>2, <2>3
<1>8. calls' \in Nat /\ gate' \in [WorldIds -> Clients \cup {None}]
  BY <1>2 DEF Running
<1> QED BY <1>1, <1>2, <1>3, <1>5, <1>6, <1>7, <1>8, StepRunning

\* _reserve_world takes an identity nobody has and touches no other.
LEMMA ReserveFacts ==
  ASSUME StoreOK, NEW w \in WorldIds, NEW c \in Clients, ReserveWorld(w, c),
         UNCHANGED <<nodes, order, unconfirmed>>
  PROVE  /\ StoreOK'
         /\ pending'[w] = [owner |-> c, environment |-> None]
         /\ \A v \in WorldIds : pending'[v] = pending[v] \/ pending[v] = None
<1> DEFINE r == [owner |-> c, environment |-> None]
<1>1. r \in Reservation /\ r.environment = None
  BY DEF Reservation
<1>2. pending' = [pending EXCEPT ![w] = r] /\ nodes[w] = None /\ pending[w] = None
  BY DEF ReserveWorld, Available
<1> HIDE DEF r
<1>3. StoreOK'
  BY <1>1, <1>2, ReservationStep
<1>4. pending'[w] = r /\ \A v \in WorldIds \ {w} : pending'[v] = pending[v]
  BY <1>2 DEF StoreOK, StoreTypeOK
<1> QED BY <1>2, <1>3, <1>4 DEF r

\* Every call preserves the invariant: what prepare, fork, create_ghost and the
\* others do before their first await.
LEMMA CallStep ==
  ASSUME Running, NEW c \in Clients, Call(c)
  PROVE  Running'
<1>0. StoreOK
  BY DEF Running
<1>1. CASE CallPrepare(c)
  <2>1. PICK w \in WorldIds, target \in Targets :
          ReserveWorld(w, c) /\ Start(c, "prepare", "creating", None, w, target, None)
    BY <1>1 DEF CallPrepare
  <2>2. UNCHANGED <<nodes, order, unconfirmed>>
    BY <2>1 DEF Start
  <2>3. /\ StoreOK'
        /\ pending'[w] = [owner |-> c, environment |-> None]
        /\ \A v \in WorldIds : pending'[v] = pending[v] \/ pending[v] = None
    BY <1>0, <2>1, <2>2, ReserveFacts
  <2> QED BY <2>1, <2>3, StartStep DEF Points, Commands, Args
<1>2. CASE CallChild(c)
  <2>1. PICK op \in Children, parent \in WorldIds, w \in WorldIds, label \in Labels :
          /\ nodes[parent] # None
          /\ ReserveWorld(w, c)
          /\ Start(c, op, "waiting", parent, w, label, None)
    BY <1>2 DEF CallChild
  <2>2. UNCHANGED <<nodes, order, unconfirmed>>
    BY <2>1 DEF Start
  <2>3. /\ StoreOK'
        /\ pending'[w] = [owner |-> c, environment |-> None]
        /\ \A v \in WorldIds : pending'[v] = pending[v] \/ pending[v] = None
    BY <1>0, <2>1, <2>2, ReserveFacts
  <2>4. op \in Commands /\ op # "prepare" /\ op # "transition"
    BY DEF Children, Commands
  <2> QED BY <2>1, <2>3, <2>4, StartStep DEF Points, Args
<1>3. ASSUME NEW w \in WorldIds, nodes[w] # None, UNCHANGED pending,
             NEW op \in Commands \ (Children \cup {"prepare"}),
             NEW arg \in Args \cup {None}, NEW wanted \in Snapshots \cup {None},
             op = "transition" => arg \in Phases,
             Start(c, op, "waiting", w, None, arg, wanted)
      PROVE  Running'
  <2>1. StoreOK'
    BY <1>0, <1>3, StoreUnchanged DEF Start
  <2> QED BY <1>3, <2>1, StartStep DEF Points
<1>4. CASE CallSnapshot(c)
  BY <1>3, <1>4 DEF CallSnapshot, Commands, Children
<1>5. CASE CallRestore(c)
  BY <1>3, <1>5 DEF CallRestore, Commands, Children
<1>6. CASE CallDestroy(c)
  BY <1>3, <1>6 DEF CallDestroy, Commands, Children
<1>7. CASE CallTransition(c)
  BY <1>3, <1>7, CallsAssumption DEF CallTransition, Commands, Children, Args
<1> QED BY <1>1, <1>2, <1>4, <1>5, <1>6, <1>7 DEF Call

\* _release_world keeps the store consistent when the reservation has no
\* environment or its destruction has just been confirmed.
LEMMA ReleaseFacts ==
  ASSUME StoreOK, NEW w \in WorldIds, pending[w] # None, ReleaseWorld(w),
         UNCHANGED <<nodes, order>>,
         \/ pending[w].environment = None /\ unconfirmed' = unconfirmed
         \/ unconfirmed' = unconfirmed \ {pending[w].environment}
  PROVE  StoreOK' /\ \A v \in WorldIds \ {w} : pending'[v] = pending[v]
<1>1. nodes[w] = None
  BY DEF StoreOK, NodesOK
<1>2. pending'[w] = None /\ \A v \in WorldIds \ {w} : pending'[v] = pending[v]
  BY DEF ReleaseWorld, StoreOK, StoreTypeOK
<1>3. /\ Held(w) = pending[w].environment
      /\ Held(w)' = None
      /\ \A v \in WorldIds \ {w} : Held(v)' = Held(v)
  BY <1>1, <1>2 DEF Held
<1>4. StoreTypeOK'
  BY DEF ReleaseWorld, StoreOK, StoreTypeOK
<1>5. NodesOK'
  BY <1>2, NodesKept DEF StoreOK, NodesOK
<1>6. ExclusiveOwnership' /\ NothingLost'
  BY <1>3, OwnershipKept DEF StoreOK
<1>7. NamespaceIsolation'
  BY IsolationKept DEF StoreOK
<1> QED BY <1>2, <1>4, <1>5, <1>6, <1>7 DEF StoreOK

\* _replace keeps the catalog consistent when it keeps the environment or drops
\* one whose destruction has just been confirmed.
LEMMA ReplaceStore ==
  ASSUME StoreOK, NEW w \in WorldIds, NEW n \in Node, nodes[w] # None, Replace(w, n),
         \/ n.environment = nodes[w].environment /\ unconfirmed' = unconfirmed
         \/ n.environment = None /\ unconfirmed' = unconfirmed \ {nodes[w].environment}
  PROVE  StoreOK'
<1> USE DEF StoreOK
<1>1. /\ StoreTypeOK' /\ pending' = pending /\ nodes'[w] # None
      /\ nodes'[w].environment = n.environment
  <2>1. Same(nodes'[w], [n EXCEPT !.revision = n.revision + 1])
    BY ReplaceFacts
  <2>2. [n EXCEPT !.revision = n.revision + 1].environment = n.environment
    BY DEF Node
  <2> QED BY <2>1, <2>2, ReplaceFacts DEF Same
<1>2. \A v \in WorldIds \ {w} : /\ nodes'[v] = None <=> nodes[v] = None
                                /\ nodes[v] # None => nodes'[v].environment = nodes[v].environment
  BY ReplaceFacts DEF Same
<1>3. /\ Held(w) = nodes[w].environment
      /\ Held(w)' = n.environment
      /\ \A v \in WorldIds \ {w} : Held(v)' = Held(v)
  BY <1>1, <1>2 DEF Held
<1>4. NodesOK'
  BY NodesReplaced
<1>5. ExclusiveOwnership' /\ NothingLost'
  BY <1>3, OwnershipKept
<1>6. NamespaceIsolation'
  BY <1>1, <1>2, IsolationKept
<1> QED BY <1>1, <1>4, <1>5, <1>6

\* _add moves the environment from the reservation to the node.
LEMMA AddStore ==
  ASSUME StoreOK, NEW w \in WorldIds, NEW n \in Node, nodes[w] = None, pending[w] # None,
         Add(w, n), UNCHANGED unconfirmed
  PROVE  StoreOK'
<1> USE DEF StoreOK
<1>1. /\ StoreTypeOK' /\ nodes'[w] # None
      /\ nodes'[w].environment = n.environment
      /\ pending' = [pending EXCEPT ![w] = None]
  BY AddFacts DEF Same
<1>2. \A v \in WorldIds \ {w} : /\ nodes'[v] = None <=> nodes[v] = None
                                /\ nodes[v] # None => nodes'[v].environment = nodes[v].environment
                                /\ pending'[v] = pending[v]
  BY <1>1, AddFacts DEF Same, StoreTypeOK
<1>3. n.environment = pending[w].environment
  BY DEF Add, Addable
<1>4. \A v \in WorldIds : Held(v)' = Held(v)
  BY <1>1, <1>2, <1>3 DEF Held
<1>5. NodesOK'
  BY NodesAdded
<1>6. ExclusiveOwnership' /\ NothingLost'
  BY <1>4, OwnershipKept
<1>7. NamespaceIsolation'
  BY IsolationAdded
<1> QED BY <1>1, <1>5, <1>6, <1>7

-----------------------------------------------------------------------------

\* Ending a command preserves the invariant when its last change does.
LEMMA FinishStep ==
  ASSUME Running, NEW c \in Clients, NEW result \in {"returned", "raised"},
         Finish(c, result), StoreOK', GatesOK', calls' \in Nat,
         gate' \in [WorldIds -> Clients \cup {None}], Frame(c)
  PROVE  Running'
<1>1. Idle(result) \in Coroutine /\ Idle(result).result # "conflict"
  BY IdleType DEF Idle
<1> QED BY <1>1, IdleOK, StepRunning DEF Finish

\* What the invariant says of one client.
LEMMA ClientType ==
  ASSUME Running, NEW c \in Clients
  PROVE  /\ client[c] \in Coroutine
         /\ ClientOK(client[c], c, nodes, pending, gate)
         /\ \A w \in WorldIds : gate[w] # None => gate[w] \in Clients
BY DEF Running, ClientsOK

\* A command refused at the gate gives back its reservation and nothing else.
LEMMA RefusedStep ==
  ASSUME Running, NEW c \in Clients, Refused(c) \/ Cancelled(c)
  PROVE  Running'
<1> DEFINE w == client[c].child
<1>1. /\ client[c].at = "waiting" /\ Finish(c, "raised")
      /\ UNCHANGED <<nodes, order, gate, calls, unconfirmed>>
      /\ w # None => ReleaseWorld(w)
      /\ w = None => UNCHANGED pending
  BY DEF Refused, Cancelled, GateFree, TurnedAway, At
<1>2. \A d \in Clients \ {c} : client'[d] = client[d]
  BY <1>1 DEF Finish, Running
<1>3. w # None => Owns(client[c], c, pending, None)
  BY <1>1, ClientType DEF ClientOK
<1> HIDE DEF w
<1>4. StoreOK' /\ \A v \in WorldIds : pending'[v] = pending[v] \/ pending[v].owner = c
  <2>1. CASE w = None
    BY <1>1, <2>1, StoreUnchanged DEF Running
  <2>2. CASE w # None
    <3>1. w \in WorldIds /\ pending[w] # None /\ pending[w].owner = c /\ pending[w].environment = None
      BY <1>3, <2>2 DEF Owns, w
    <3> QED BY <1>1, <2>2, <3>1, ReleaseFacts DEF Running
  <2> QED BY <2>1, <2>2
<1>5. Frame(c)
  BY <1>1, <1>2, <1>4 DEF Frame, Same
<1>6. GatesOK'
  <2>1. client[c].at \notin GatePoints
    BY <1>1 DEF GatePoints
  <2> QED BY <1>1, <1>2, <2>1, ClientType DEF GatesOK, Running
<1> QED BY <1>1, <1>4, <1>5, <1>6, FinishStep DEF Running

\* The frame of a step that leaves the gate and touches only its own reservation.
LEMMA LeavingFrame ==
  ASSUME Running, NEW c \in Clients, ReleaseGate(c), UNCHANGED nodes,
         \A d \in Clients \ {c} : client'[d] = client[d],
         \A v \in WorldIds : pending'[v] = pending[v] \/ pending[v].owner = c
  PROVE  Frame(c) /\ GatesOK' /\ gate' \in [WorldIds -> Clients \cup {None}]
<1>1. TypeOK /\ GatesOK
  BY IInvRunning DEF IInv
<1>2. GatesOK' /\ gate' \in [WorldIds -> Clients \cup {None}]
  BY <1>1, GatesLeft
<1>3. \A w \in WorldIds : gate'[w] = gate[w] \/ gate[w] = c
  BY DEF ReleaseGate
<1> QED BY <1>2, <1>3 DEF Frame, Same

\* A failed adapter.prepare or adapter.fork leaves no trace in the catalog.
LEMMA CreationFailsStep ==
  ASSUME Running, NEW c \in Clients, CreationFails(c)
  PROVE  Running'
<1> DEFINE w == client[c].child
<1>1. /\ client[c].at = "creating" /\ Finish(c, "raised") /\ ReleaseGate(c) /\ ReleaseWorld(w)
      /\ UNCHANGED <<nodes, order, calls, unconfirmed>>
  BY DEF CreationFails, At
<1>2. Owns(client[c], c, pending, None)
  BY <1>1, ClientType DEF ClientOK
<1>3. w \in WorldIds /\ pending[w] # None /\ pending[w].owner = c /\ pending[w].environment = None
  BY <1>2 DEF Owns
<1>4. \A d \in Clients \ {c} : client'[d] = client[d]
  BY <1>1 DEF Finish, Running
<1> HIDE DEF w
<1>5. StoreOK' /\ \A v \in WorldIds \ {w} : pending'[v] = pending[v]
  BY <1>1, <1>3, ReleaseFacts DEF Running
<1>6. Frame(c) /\ GatesOK' /\ gate' \in [WorldIds -> Clients \cup {None}]
  BY <1>1, <1>3, <1>4, <1>5, LeavingFrame
<1> QED BY <1>1, <1>5, <1>6, FinishStep DEF Running

\* A confirmed destruction frees the identity (_cleanup_reserved_or_raise).
LEMMA UnwoundStep ==
  ASSUME Running, NEW c \in Clients, Unwound(c) \/ Quarantine(c)
  PROVE  Running'
<1> DEFINE w == client[c].child
<1>1. /\ client[c].at = "unwinding" /\ Finish(c, "raised")
      /\ UNCHANGED <<nodes, order, gate, calls>>
      /\ \/ ReleaseWorld(w) /\ unconfirmed' = unconfirmed \ {client[c].env}
         \/ UNCHANGED <<pending, unconfirmed>>
  BY DEF Unwound, Quarantine, At
<1>2. Owns(client[c], c, pending, client[c].env)
  BY <1>1, ClientType DEF ClientOK
<1>3. /\ w \in WorldIds /\ pending[w] # None /\ pending[w].owner = c
      /\ pending[w].environment = client[c].env
  BY <1>2 DEF Owns
<1>4. \A d \in Clients \ {c} : client'[d] = client[d]
  BY <1>1 DEF Finish, Running
<1> HIDE DEF w
<1>5. StoreOK' /\ \A v \in WorldIds \ {w} : pending'[v] = pending[v]
  BY <1>1, <1>3, ReleaseFacts, StoreUnchanged DEF Running
<1>6. Frame(c)
  BY <1>1, <1>3, <1>4, <1>5 DEF Frame, Same
<1>7. GatesOK'
  <2>1. client[c].at \notin GatePoints
    BY <1>1 DEF GatePoints
  <2> QED BY <1>1, <1>4, <2>1, ClientType DEF GatesOK, Running
<1> QED BY <1>1, <1>5, <1>6, <1>7, FinishStep DEF Running

\* Updating the fields of a coroutine yields a coroutine.
LEMMA CoroutineUpdate ==
  ASSUME NEW k \in Coroutine, NEW point \in Points, NEW n \in Node \cup {None},
         NEW e \in Handles \cup {None}
  PROVE  [k EXCEPT !.at = point, !.seen = n, !.env = e] \in Coroutine
<1> DEFINE Places == WorldIds \cup {None}
           Nodes == Node \cup {None}
           Envs == Handles \cup {None}
<1> HIDE DEF Nodes, Envs
<1>1. Coroutine = [at : Points, op : Commands \cup {None}, world : Places, child : Places,
                   arg : Args \cup {None}, wanted : Snapshots \cup {None}, env : Envs,
                   seen : Nodes, result : {"none", "returned", "raised", "conflict"}]
  BY DEF Coroutine, Nodes, Envs
<1>2. n \in Nodes /\ e \in Envs
  BY DEF Nodes, Envs
<1> QED BY <1>1, <1>2

\* Passing the gate: the node read there is the current one.
LEMMA EnterStep ==
  ASSUME Running, NEW c \in Clients, GateFree(c),
         NEW point \in {"creating", "capturing", "restoring", "destroying"},
         Hold(c, point), UNCHANGED <<nodes, order, pending, calls, unconfirmed>>,
         \/ client[c].op = "fork" /\ point = "creating"
         \/ client[c].op = "snapshot" /\ point = "capturing"
            /\ nodes[client[c].world].environment # None
         \/ client[c].op = "restore" /\ point = "restoring"
            /\ nodes[client[c].world].environment # None
         \/ client[c].op = "destroy" /\ point = "destroying"
            /\ nodes[client[c].world].environment # None
  PROVE  Running'
<1> DEFINE w == client[c].world
           env == IF client[c].op = "fork" THEN None ELSE nodes[w].environment
           k == [client[c] EXCEPT !.at = point, !.seen = nodes[w], !.env = env]
<1>1. /\ client[c] \in Coroutine
      /\ client[c].at = "waiting" /\ gate[w] = None
      /\ w \in WorldIds /\ nodes[w] # None
      /\ client[c].op \in Children => client[c].arg \in Labels /\ Owns(client[c], c, pending, None)
      /\ client[c].op # "prepare"
  BY ClientType DEF GateFree, At, ClientOK
<1>2. nodes[w] \in Node /\ nodes[w].environment \in Handles \cup {None}
  BY <1>1 DEF Running, StoreOK, StoreTypeOK, Node
<1>3. k \in Coroutine
  <2>1. env \in Handles \cup {None} /\ point \in Points /\ nodes[w] \in Node \cup {None}
    BY <1>2 DEF Points
  <2> QED BY <1>1, <2>1, CoroutineUpdate
<1>4. /\ k.at = point /\ k.seen = nodes[w] /\ k.env = env /\ k.op = client[c].op
      /\ k.world = w /\ k.child = client[c].child /\ k.arg = client[c].arg
      /\ k.result = client[c].result
  BY <1>1 DEF Coroutine
<1>5. client' = [client EXCEPT ![c] = k] /\ gate' = [gate EXCEPT ![w] = c]
  BY DEF Hold
<1> HIDE DEF k
<1>6. client'[c] = k /\ \A d \in Clients \ {c} : client'[d] = client[d]
  BY <1>5 DEF Running
<1>7. gate'[w] = c /\ \A v \in WorldIds \ {w} : gate'[v] = gate[v]
  BY <1>1, <1>5 DEF Running
<1> HIDE DEF w
<1>8. TypeOK /\ GatesOK
  BY IInvRunning DEF IInv
<1>9. point \in GatePoints
  BY DEF GatePoints
<1>10. GatesOK' /\ gate' \in [WorldIds -> Clients \cup {None}]
  BY <1>1, <1>4, <1>5, <1>6, <1>8, <1>9, GatesEntered
<1>11. Frame(c)
  BY <1>1, <1>6, <1>7 DEF Frame, Same
<1>12. Inside(k, c, nodes', gate')
  BY <1>1, <1>2, <1>4, <1>7, NoneAssumption DEF Inside, Same
<1>13. k.op \in Children => k.arg \in Labels /\ Owns(k, c, pending', None)
  BY <1>1, <1>4 DEF Owns
<1>14. ClientOK(k, c, nodes', pending', gate')
  <2>1. k.op \in Captures \cup {"destroy"} => k.env # None /\ k.env = nodes'[k.world].environment
    BY <1>4 DEF Captures, w, env
  <2> QED BY <1>1, <1>4, <1>12, <1>13, <2>1
      DEF ClientOK, GatePoints, Creations, Captures, Children
<1>15. StoreOK'
  BY StoreUnchanged DEF Running
<1>16. k.result # "conflict"
  BY <1>4 DEF Running
<1> QED BY <1>3, <1>5, <1>10, <1>11, <1>14, <1>15, <1>16, StepRunning DEF Running

\* Moving on to the next await inside the gate.
LEMMA GotoStep ==
  ASSUME Running, NEW c \in Clients, NEW point \in {"capturing", "discarding"},
         client[c].at \in {"restoring", "capturing"},
         client[c].op \in Captures,
         Goto(c, point), UNCHANGED <<nodes, order, pending, gate, calls, unconfirmed>>
  PROVE  Running'
<1> DEFINE k == [client[c] EXCEPT !.at = point]
<1>1. client[c] \in Coroutine /\ ClientOK(client[c], c, nodes, pending, gate)
  BY ClientType
<1>2. k \in Coroutine
  BY <1>1 DEF Coroutine, Points
<1>3. /\ k.at = point /\ k.seen = client[c].seen /\ k.env = client[c].env /\ k.op = client[c].op
      /\ k.world = client[c].world /\ k.child = client[c].child /\ k.arg = client[c].arg
      /\ k.result = client[c].result
  BY <1>1 DEF Coroutine
<1>4. client' = [client EXCEPT ![c] = k]
  BY DEF Goto
<1> HIDE DEF k
<1>5. client'[c] = k /\ \A d \in Clients \ {c} : client'[d] = client[d]
  BY <1>4 DEF Running
<1>6. client[c].at \in GatePoints /\ k.at \in GatePoints /\ client[c].op # "prepare"
      /\ client[c].op # "fork" /\ client[c].op \notin Creations
  BY <1>3 DEF GatePoints, Captures, Creations
<1>7. Inside(k, c, nodes', gate')
  BY <1>1, <1>3, <1>6 DEF ClientOK, Inside
<1>8. ClientOK(k, c, nodes', pending', gate')
  BY <1>1, <1>3, <1>6, <1>7 DEF ClientOK, GatePoints
<1>9. GatesOK'
  <2>1. TypeOK /\ GatesOK
    BY IInvRunning DEF IInv
  <2> QED BY <1>3, <1>5, <1>6, <2>1, GatesKept
<1>10. Frame(c)
  BY <1>5 DEF Frame, Same
<1>11. StoreOK'
  BY StoreUnchanged DEF Running
<1>12. k.result # "conflict"
  BY <1>3 DEF Running
<1> QED BY <1>2, <1>4, <1>8, <1>9, <1>10, <1>11, <1>12, StepRunning DEF Running

\* The except branch of a creation, whose reservation holds the handle h.
LEMMA UnwindStep ==
  ASSUME Running, NEW c \in Clients, NEW h \in Handles, Unwind(c, h),
         client[c].at \in {"creating", "capturing"}, client[c].op \in Creations,
         UNCHANGED <<nodes, order, calls>>, StoreOK',
         client[c].child \in WorldIds, pending'[client[c].child] # None,
         pending'[client[c].child].owner = c, pending'[client[c].child].environment = h,
         \A v \in WorldIds : pending'[v] = pending[v] \/ pending[v].owner = c
  PROVE  Running'
<1> DEFINE k == [client[c] EXCEPT !.at = "unwinding", !.env = h, !.world = None,
                                  !.arg = None, !.seen = None]
<1>1. client[c] \in Coroutine
  BY ClientType
<1>2. k \in Coroutine
  BY <1>1 DEF Coroutine, Points
<1>3. /\ k.at = "unwinding" /\ k.seen = None /\ k.env = h /\ k.op = client[c].op
      /\ k.world = None /\ k.child = client[c].child
      /\ k.result = client[c].result
  BY <1>1 DEF Coroutine
<1>4. client' = [client EXCEPT ![c] = k] /\ ReleaseGate(c)
  BY DEF Unwind
<1> HIDE DEF k
<1>5. client'[c] = k /\ \A d \in Clients \ {c} : client'[d] = client[d]
  BY <1>4 DEF Running
<1>6. Frame(c) /\ GatesOK' /\ gate' \in [WorldIds -> Clients \cup {None}]
  BY <1>4, <1>5, LeavingFrame
<1>7. ClientOK(k, c, nodes', pending', gate')
  BY <1>3, NoneAssumption DEF ClientOK, GatePoints, Owns
<1>8. k.result # "conflict"
  BY <1>3 DEF Running
<1> QED BY <1>2, <1>4, <1>6, <1>7, <1>8, StepRunning DEF Running

\* A failed first snapshot starts the unwinding of an owned environment.
LEMMA SetupFailsStep ==
  ASSUME Running, NEW c \in Clients, SetupFails(c)
  PROVE  Running'
<1>1. /\ client[c].at = "capturing" /\ client[c].op \in Creations
      /\ client[c].env # None /\ Owns(client[c], c, pending, client[c].env)
  BY ClientType DEF SetupFails, Capturing, At, ClientOK
<1>2. client[c].env \in Handles
  BY <1>1, ClientType DEF Coroutine
<1>3. StoreOK'
  BY StoreUnchanged DEF SetupFails, Running
<1> QED BY <1>1, <1>2, <1>3, UnwindStep DEF SetupFails, Owns

\* The claim of a returned handle preserves the invariant, whatever the adapter
\* returned (_claim_environment before any cleanup).
LEMMA EnvironmentReturnedStep ==
  ASSUME Running, NEW c \in Clients, EnvironmentReturned(c)
  PROVE  Running'
<1>0. client[c].at = "creating" /\ client[c].child \in WorldIds
  BY ClientType DEF EnvironmentReturned, At, ClientOK, Owns
<1> PICK w \in WorldIds : w = client[c].child
  BY <1>0
<1>1. PICK h \in Handles :
        /\ client[c].at = "creating"
        /\ ClaimEnvironment(w, h)
        /\ unconfirmed' = unconfirmed \cup {h}
        /\ \/ /\ client' = [client EXCEPT ![c] = [@ EXCEPT !.at = "capturing", !.env = h]]
              /\ UNCHANGED gate
           \/ Unwind(c, h)
        /\ UNCHANGED <<nodes, order, calls>>
  BY DEF EnvironmentReturned, At
<1>2. /\ client[c] \in Coroutine /\ client[c].op \in Creations
      /\ Owns(client[c], c, pending, None)
      /\ client[c].op # "prepare" => Inside(client[c], c, nodes, gate)
      /\ client[c].op = "fork" => client[c].arg \in Labels
      /\ client[c].op = "prepare" => client[c].seen = None /\ client[c].world = None
  BY <1>1, ClientType DEF ClientOK, GatePoints
<1>3. w \in WorldIds /\ pending[w] # None /\ pending[w].owner = c /\ pending[w].environment = None
  BY <1>2 DEF Owns
<1>4. pending[w] \in Reservation /\ nodes[w] = None
  BY <1>3 DEF Running, StoreOK, StoreTypeOK, NodesOK
<1>5. /\ Claimable(w, h)
      /\ pending' = [pending EXCEPT ![w] = [pending[w] EXCEPT !.environment = h]]
  BY <1>1 DEF ClaimEnvironment
<1>6. [pending[w] EXCEPT !.environment = h] \in Reservation
  BY <1>4 DEF Reservation
<1>7. /\ pending'[w] # None /\ pending'[w].owner = c /\ pending'[w].environment = h
      /\ \A v \in WorldIds \ {w} : pending'[v] = pending[v]
      /\ pending' \in [WorldIds -> Reservation \cup {None}]
  BY <1>3, <1>4, <1>5, <1>6, NoneAssumption DEF Running, StoreOK, StoreTypeOK, Reservation
<1>8. /\ Held(w) = None /\ Held(w)' = h
      /\ \A v \in WorldIds \ {w} : Held(v)' = Held(v)
  <2>1. UNCHANGED nodes
    BY <1>1
  <2>2. Held(w) = None
    BY <1>3, <1>4 DEF Held
  <2>3. Held(w)' = h
    BY <1>4, <1>7, <2>1 DEF Held
  <2>4. \A v \in WorldIds \ {w} : Held(v)' = Held(v)
    BY <1>7, <2>1 DEF Held
  <2> QED BY <2>2, <2>3, <2>4
<1>9. StoreOK'
  <2>1. ExclusiveOwnership' /\ NothingLost'
    <3>1. ExclusiveOwnership /\ NothingLost /\ unconfirmed \subseteq Handles
          /\ unconfirmed' = unconfirmed \cup {h}
      BY <1>1 DEF Running, StoreOK
    <3> QED BY <1>3, <1>5, <1>8, <3>1, OwnershipClaimed
  <2>2. NamespaceIsolation'
    BY <1>1, IsolationKept DEF Running, StoreOK
  <2>3. NodesOK'
    BY <1>1, <1>4, <1>7, NodesKept DEF Running, StoreOK, NodesOK
  <2> QED BY <1>1, <1>7, <2>1, <2>2, <2>3 DEF Running, StoreOK, StoreTypeOK
<1>10. CASE Unwind(c, h)
  BY <1>1, <1>2, <1>3, <1>7, <1>9, <1>10, UnwindStep
<1>11. CASE UNCHANGED gate /\ client' = [client EXCEPT ![c] = [@ EXCEPT !.at = "capturing", !.env = h]]
  <2> DEFINE k == [client[c] EXCEPT !.at = "capturing", !.env = h]
  <2>1. k \in Coroutine
    BY <1>2 DEF Coroutine, Points
  <2>2. /\ k.at = "capturing" /\ k.seen = client[c].seen /\ k.env = h /\ k.op = client[c].op
        /\ k.world = client[c].world /\ k.child = w /\ k.arg = client[c].arg
        /\ k.result = client[c].result
    BY <1>2 DEF Coroutine
  <2>3. client' = [client EXCEPT ![c] = k]
    BY <1>11
  <2> HIDE DEF k
  <2>4. client'[c] = k /\ \A d \in Clients \ {c} : client'[d] = client[d]
    BY <2>3 DEF Running
  <2>5. Frame(c)
    BY <1>1, <1>3, <1>7, <1>11, <2>4 DEF Frame, Same
  <2>6. GatesOK'
    <3>1. TypeOK /\ GatesOK
      BY IInvRunning DEF IInv
    <3>2. k.at \in GatePoints
      BY <2>2 DEF GatePoints
    <3> QED BY <1>11, <2>2, <2>4, <3>1, <3>2, GatesKept
  <2>7. Owns(k, c, pending', h) /\ h # None
    BY <1>3, <1>7, <2>2, NoneAssumption DEF Owns
  <2>8. k.op # "prepare" => Inside(k, c, nodes', gate')
    BY <1>1, <1>2, <1>11, <2>2 DEF Inside
  <2>9. ClientOK(k, c, nodes', pending', gate')
    BY <1>2, <2>2, <2>7, <2>8 DEF ClientOK, GatePoints, Creations, Captures
  <2>10. k.result # "conflict" /\ gate' \in [WorldIds -> Clients \cup {None}] /\ calls' \in Nat
    BY <1>1, <1>11, <2>2 DEF Running
  <2> QED BY <1>9, <2>1, <2>3, <2>5, <2>6, <2>9, <2>10, StepRunning
<1> QED BY <1>1, <1>10, <1>11

-----------------------------------------------------------------------------
(* Publication.                                                            *)

\* The node of create_ghost is a well-formed node.
LEMMA GhostType ==
  ASSUME StoreTypeOK, NEW w \in WorldIds, nodes[w] # None, NEW label \in Labels
  PROVE  GhostOf(w, label) \in Node
<1>1. nodes[w] \in Node
  BY DEF StoreTypeOK
<1>2. Append(nodes[w].lineage, label) \in Seq(Labels)
  BY <1>1 DEF Node
<1> DEFINE lin == Append(nodes[w].lineage, label)
<1>3. lin \in Seq(Labels) /\ "GHOST" \in Phases
  BY <1>2 DEF Phases
<1>4. nodes[w].root \in Roots /\ nodes[w].target \in Targets /\ nodes[w].fingerprint \in Contents
  BY <1>1 DEF Node
<1> HIDE DEF lin
<1>5. GhostOf(w, label) =
        [parent |-> w, root |-> nodes[w].root, target |-> nodes[w].target, phase |-> "GHOST",
         fingerprint |-> nodes[w].fingerprint, lineage |-> lin,
         environment |-> None, snapshot |-> None, dedup |-> None, destroyed |-> FALSE,
         revision |-> 0]
  BY DEF GhostOf, lin
<1> QED BY <1>3, <1>4, <1>5 DEF Node

\* A child published by client c: nobody else can be inside its gate.
LEMMA AddFrame ==
  ASSUME Running, NEW c \in Clients, NEW w \in WorldIds, NEW n \in Node,
         nodes[w] = None, pending[w] # None, pending[w].owner = c, Add(w, n),
         \A v \in WorldIds : gate'[v] = gate[v] \/ gate[v] \in {None, c},
         \A d \in Clients \ {c} : client'[d] = client[d]
  PROVE  Frame(c)
<1>1. /\ pending' = [pending EXCEPT ![w] = None]
      /\ \A v \in WorldIds \ {w} : /\ nodes'[v] = None <=> nodes[v] = None
                                   /\ nodes[v] # None => Same(nodes'[v], nodes[v])
  BY AddFacts DEF Running, StoreOK
<1>2. \A v \in WorldIds : nodes[v] # None => v # w
  OBVIOUS
<1> QED BY <1>1, <1>2 DEF Frame, Running, StoreOK, StoreTypeOK

\* Publishing a ghost preserves the invariant (create_ghost).
LEMMA CreateGhostStep ==
  ASSUME Running, NEW c \in Clients, CreateGhost(c)
  PROVE  Running'
<1> DEFINE n == GhostOf(client[c].world, client[c].arg)
<1>0. /\ client[c].at = "waiting" /\ client[c].op = "create_ghost"
      /\ client[c].child \in WorldIds /\ client[c].world \in WorldIds
      /\ nodes[client[c].world] # None /\ client[c].arg \in Labels
      /\ Owns(client[c], c, pending, None)
  BY ClientType DEF CreateGhost, GateFree, At, ClientOK, Children, Owns
<1> PICK w \in WorldIds : w = client[c].child
  BY <1>0
<1>1. pending[w] # None /\ pending[w].owner = c /\ nodes[w] = None
  BY <1>0 DEF Owns, Running, StoreOK, NodesOK
<1>2. n \in Node
  BY <1>0, GhostType DEF Running, StoreOK
<1>3. Add(w, n) /\ Finish(c, "returned") /\ UNCHANGED <<gate, calls, unconfirmed>>
  BY DEF CreateGhost
<1> HIDE DEF n
<1>4. StoreOK'
  BY <1>1, <1>2, <1>3, AddStore DEF Running
<1>5. \A d \in Clients \ {c} : client'[d] = client[d]
  BY <1>3 DEF Finish, Running
<1>6. Frame(c)
  BY <1>1, <1>2, <1>3, <1>5, AddFrame
<1>7. GatesOK'
  <2>1. client[c].at \notin GatePoints
    BY <1>0 DEF GatePoints
  <2> QED BY <1>3, <1>5, <2>1, ClientType DEF GatesOK, Running
<1> QED BY <1>3, <1>4, <1>6, <1>7, FinishStep DEF Running

\* The node of prepare and fork is a well-formed node.
LEMMA CreatedType ==
  ASSUME Running, NEW c \in Clients, NEW s \in Snapshots, Capturing(c, Creations)
  PROVE  CreatedNode(c, s) \in Node
<1>1. /\ client[c] \in Coroutine /\ client[c].at = "capturing" /\ client[c].op \in Creations
      /\ client[c].op = "fork" => /\ client[c].seen # None
                                  /\ client[c].arg \in Labels
  BY ClientType DEF Capturing, At, ClientOK, GatePoints, Inside
<1>2. client[c].world \in WorldIds \cup {None} /\ client[c].env \in Handles \cup {None}
      /\ client[c].seen \in Node \cup {None}
  BY <1>1 DEF Coroutine
<1> DEFINE lin == IF client[c].op = "fork" THEN Append(client[c].seen.lineage, client[c].arg)
                  ELSE <<>>
<1>3. lin \in Seq(Labels)
  <2>1. CASE client[c].op = "fork"
    <3>1. client[c].seen.lineage \in Seq(Labels)
      BY <1>1, <1>2, <2>1 DEF Node
    <3> QED BY <1>1, <2>1, <3>1
  <2>2. CASE client[c].op # "fork"
    BY <2>2
  <2> QED BY <2>1, <2>2
<1> HIDE DEF lin
<1>4. CreatedNode(c, s) =
        [parent |-> client[c].world, root |-> s.root, target |-> s.target, phase |-> "ACTIVE",
         fingerprint |-> s.content, lineage |-> lin,
         environment |-> client[c].env, snapshot |-> s, dedup |-> None, destroyed |-> FALSE,
         revision |-> 0]
  BY DEF CreatedNode, lin
<1>5. s.root \in Roots /\ s.target \in Targets /\ s.content \in Contents
  BY DEF Snapshots
<1> QED BY <1>2, <1>3, <1>4, <1>5 DEF Node, Phases

\* Publishing a prepared or forked world preserves the invariant.
LEMMA PublishStep ==
  ASSUME Running, NEW c \in Clients, Publish(c)
  PROVE  Running'
<1>1. PICK s \in Snapshots :
        /\ Capturing(c, Creations)
        /\ Add(client[c].child, CreatedNode(c, s))
        /\ ReleaseGate(c)
        /\ Finish(c, "returned")
        /\ UNCHANGED <<calls, unconfirmed>>
  BY DEF Publish
<1>2. client[c].child \in WorldIds /\ Owns(client[c], c, pending, client[c].env)
  BY <1>1, ClientType DEF Capturing, At, ClientOK, Owns
<1> PICK w \in WorldIds : w = client[c].child
  BY <1>2
<1>3. pending[w] # None /\ pending[w].owner = c /\ nodes[w] = None
  BY <1>2 DEF Owns, Running, StoreOK, NodesOK
<1>4. CreatedNode(c, s) \in Node
  BY <1>1, CreatedType
<1>5. StoreOK'
  BY <1>1, <1>3, <1>4, AddStore DEF Running
<1>6. \A d \in Clients \ {c} : client'[d] = client[d]
  BY <1>1 DEF Finish, Running
<1>7. \A v \in WorldIds : gate'[v] = gate[v] \/ gate[v] \in {None, c}
  BY <1>1 DEF ReleaseGate
<1>8. Frame(c)
  BY <1>1, <1>3, <1>4, <1>6, <1>7, AddFrame
<1>9. GatesOK' /\ gate' \in [WorldIds -> Clients \cup {None}]
  <2>1. TypeOK /\ GatesOK
    BY IInvRunning DEF IInv
  <2> QED BY <1>1, <1>6, <2>1, GatesLeft
<1> QED BY <1>1, <1>5, <1>8, <1>9, FinishStep DEF Running

-----------------------------------------------------------------------------
(* Replacement.                                                            *)

\* A replacement inside a gate, or by whoever finds it free, disturbs no other client.
LEMMA ReplaceFrame ==
  ASSUME Running, NEW c \in Clients, NEW w \in WorldIds, NEW n \in Node, nodes[w] # None,
         gate[w] \in {None, c}, Replace(w, n),
         \A v \in WorldIds : gate'[v] = gate[v] \/ gate[v] \in {None, c},
         \A d \in Clients \ {c} : client'[d] = client[d]
  PROVE  Frame(c)
<1>1. /\ pending' = pending /\ nodes'[w] # None
      /\ \A v \in WorldIds \ {w} : /\ nodes'[v] = None <=> nodes[v] = None
                                   /\ nodes[v] # None => Same(nodes'[v], nodes[v])
  BY ReplaceFacts DEF Running, StoreOK
<1> QED BY <1>1 DEF Frame

\* Replacement by a command that passes the gate without an await.
LEMMA PassingStep ==
  ASSUME Running, NEW c \in Clients, GateFree(c), NEW n \in Node,
         Replace(client[c].world, n),
         n.environment = nodes[client[c].world].environment,
         Finish(c, "returned"), UNCHANGED <<gate, calls, unconfirmed>>
  PROVE  Running'
<1>1. /\ client[c].at = "waiting" /\ gate[client[c].world] = None
      /\ client[c].world \in WorldIds /\ nodes[client[c].world] # None
  BY ClientType DEF GateFree, At, ClientOK
<1> PICK w \in WorldIds : w = client[c].world
  BY <1>1
<1>2. StoreOK'
  BY <1>1, ReplaceStore DEF Running
<1>3. \A d \in Clients \ {c} : client'[d] = client[d]
  BY DEF Finish, Running
<1>4. Frame(c)
  BY <1>1, <1>3, ReplaceFrame
<1>5. GatesOK'
  <2>1. client[c].at \notin GatePoints
    BY <1>1 DEF GatePoints
  <2> QED BY <1>3, <2>1, ClientType DEF GatesOK, Running
<1> QED BY <1>2, <1>4, <1>5, FinishStep DEF Running

\* transition preserves the invariant.
LEMMA TransitionStep ==
  ASSUME Running, NEW c \in Clients, Transition(c)
  PROVE  Running'
<1> DEFINE n == [nodes[client[c].world] EXCEPT !.phase = client[c].arg]
<1>1. /\ client[c].world \in WorldIds /\ nodes[client[c].world] # None
      /\ client[c].arg \in Phases
  BY ClientType DEF Transition, GateFree, At, ClientOK
<1>2. nodes[client[c].world] \in Node
  BY <1>1 DEF Running, StoreOK, StoreTypeOK
<1>3. n \in Node /\ n.environment = nodes[client[c].world].environment
  BY <1>1, <1>2 DEF Node
<1>4. /\ GateFree(c) /\ Replace(client[c].world, n) /\ Finish(c, "returned")
      /\ UNCHANGED <<gate, calls, unconfirmed>>
  BY DEF Transition
<1> HIDE DEF n
<1> QED BY <1>3, <1>4, PassingStep

\* destroy of a world without an environment preserves the invariant.
LEMMA DestroyBareStep ==
  ASSUME Running, NEW c \in Clients, DestroyBare(c)
  PROVE  Running'
<1> DEFINE n == [nodes[client[c].world] EXCEPT !.destroyed = TRUE]
<1>1. /\ client[c].at = "waiting"
      /\ client[c].world \in WorldIds /\ nodes[client[c].world] # None
  BY ClientType DEF DestroyBare, GateFree, At, ClientOK
<1>2. nodes[client[c].world] \in Node
  BY <1>1 DEF Running, StoreOK, StoreTypeOK
<1>3. n \in Node /\ n.environment = nodes[client[c].world].environment
  BY <1>1, <1>2 DEF Node
<1>4. /\ GateFree(c) /\ Finish(c, "returned")
      /\ Replace(client[c].world, n) \/ UNCHANGED storeVars
      /\ UNCHANGED <<gate, calls, unconfirmed>>
  BY DEF DestroyBare
<1> HIDE DEF n
<1>5. CASE Replace(client[c].world, n)
  BY <1>3, <1>4, <1>5, PassingStep
<1>6. CASE UNCHANGED storeVars
  <2>1. \A d \in Clients \ {c} : client'[d] = client[d]
    BY <1>4 DEF Finish, Running
  <2>2. Frame(c)
    BY <1>4, <1>6, <2>1 DEF Frame, Same, storeVars
  <2>3. GatesOK'
    <3>1. client[c].at \notin GatePoints
      BY <1>1 DEF GatePoints
    <3> QED BY <1>4, <2>1, <3>1, ClientType DEF GatesOK, Running
  <2>4. StoreOK'
    BY <1>4, <1>6, StoreUnchanged DEF Running, storeVars
  <2> QED BY <1>4, <2>2, <2>3, <2>4, FinishStep DEF Running
<1> QED BY <1>4, <1>5, <1>6

\* A commit inside the gate: the node derived from the one read there still
\* fits the catalog, so the revision check cannot fail.
LEMMA CommitStep ==
  ASSUME Running, NEW c \in Clients, NEW n \in Node, NEW result \in {"returned", "raised"},
         client[c].at \in GatePoints, client[c].op # "prepare",
         Commit(c, n, result),
         Coherent(n),
         n.revision = client[c].seen.revision, n.parent = client[c].seen.parent,
         n.root = client[c].seen.root, n.target = client[c].seen.target,
         n.lineage = client[c].seen.lineage,
         client[c].seen.destroyed => n.destroyed,
         \/ n.environment = client[c].seen.environment /\ unconfirmed' = unconfirmed
         \/ /\ n.destroyed /\ n.environment = None
            /\ unconfirmed' = unconfirmed \ {client[c].seen.environment}
  PROVE  Running'
<1>1. Inside(client[c], c, nodes, gate)
  BY ClientType DEF ClientOK
<1>2. client[c].world \in WorldIds
  BY <1>1 DEF Inside
<1> PICK w \in WorldIds : w = client[c].world
  BY <1>2
<1>3. nodes[w] # None /\ gate[w] = c /\ Same(nodes[w], client[c].seen)
  BY <1>1 DEF Inside
<1>4. ParentAgrees(n)
  <2>1. AgreesIn(nodes[w], nodes)
    BY <1>3 DEF Running, StoreOK, NodesOK
  <2>2. /\ nodes[w].parent = n.parent /\ nodes[w].root = n.root
        /\ nodes[w].target = n.target /\ nodes[w].lineage = n.lineage
    BY <1>3 DEF Same
  <2> QED BY <2>1, <2>2 DEF AgreesIn, ParentAgrees
<1>5. Replaceable(w, n)
  BY <1>3, <1>4 DEF Replaceable, Same
<1>6. /\ Replace(w, n) /\ Finish(c, result) /\ ReleaseGate(c) /\ UNCHANGED calls
  BY <1>5 DEF Commit
<1>7. StoreOK'
  BY <1>3, <1>6, ReplaceStore DEF Running, Same
<1>8. \A d \in Clients \ {c} : client'[d] = client[d]
  BY <1>6 DEF Finish, Running
<1>9. \A v \in WorldIds : gate'[v] = gate[v] \/ gate[v] \in {None, c}
  BY <1>6 DEF ReleaseGate
<1>10. Frame(c)
  BY <1>3, <1>6, <1>8, <1>9, ReplaceFrame
<1>11. GatesOK' /\ gate' \in [WorldIds -> Clients \cup {None}]
  <2>1. TypeOK /\ GatesOK
    BY IInvRunning DEF IInv
  <2> QED BY <1>6, <1>8, <2>1, GatesLeft
<1> QED BY <1>6, <1>7, <1>10, <1>11, FinishStep DEF Running

\* The commits after adapter.destroy, confirmed or failed, preserve the invariant.
LEMMA DestructionStep ==
  ASSUME Running, NEW c \in Clients, Discarded(c) \/ DiscardFails(c) \/ Destroyed(c)
  PROVE  Running'
<1> DEFINE k == client[c]
<1>1. /\ k.at \in {"discarding", "destroying"} /\ k.at \in GatePoints /\ k.op # "prepare"
      /\ k.env # None /\ k.env = nodes[k.world].environment
      /\ Inside(k, c, nodes, gate)
  BY ClientType DEF Discarded, DiscardFails, Destroyed, At, ClientOK, GatePoints, Captures
<1>2. k.seen \in Node
  BY <1>1, ClientType DEF Coroutine, Inside
<1>3. k.seen.environment = k.env /\ Coherent(k.seen)
  <2>1. Coherent(nodes[k.world]) /\ Same(nodes[k.world], k.seen)
    BY <1>1 DEF Inside, Running, StoreOK, NodesOK
  <2> QED BY <1>1, <2>1 DEF Same, Coherent
<1> HIDE DEF k
<1>4. CASE Discarded(c) \/ Destroyed(c)
  <2> DEFINE n == Buried(k.seen)
  <2>1. /\ n \in Node /\ n.destroyed /\ n.environment = None
        /\ n.revision = k.seen.revision /\ n.parent = k.seen.parent
        /\ n.root = k.seen.root /\ n.target = k.seen.target /\ n.lineage = k.seen.lineage
    BY <1>2 DEF Buried, Node
  <2>2. Coherent(n)
    BY <1>2, <1>3 DEF Buried, Node, Coherent
  <2>3. /\ Commit(c, n, "raised") \/ Commit(c, n, "returned")
        /\ unconfirmed' = unconfirmed \ {k.env}
    BY <1>4 DEF Discarded, Destroyed, k
  <2> HIDE DEF n
  <2> QED BY <1>1, <1>3, <2>1, <2>2, <2>3, CommitStep DEF k
<1>5. CASE DiscardFails(c)
  <2> DEFINE n == [k.seen EXCEPT !.phase = "BLOCKED"]
  <2>1. /\ n \in Node /\ n.destroyed = k.seen.destroyed /\ n.environment = k.seen.environment
        /\ n.revision = k.seen.revision /\ n.parent = k.seen.parent
        /\ n.root = k.seen.root /\ n.target = k.seen.target /\ n.lineage = k.seen.lineage
    BY <1>2 DEF Node, Phases
  <2>2. Coherent(n)
    BY <1>2, <1>3 DEF Node, Coherent
  <2>3. Commit(c, n, "raised") /\ UNCHANGED unconfirmed
    BY <1>5 DEF DiscardFails, k
  <2> HIDE DEF n
  <2> QED BY <1>1, <2>1, <2>2, <2>3, CommitStep DEF k
<1> QED BY <1>4, <1>5

\* The commit of a snapshot or a restore preserves the invariant.
LEMMA CapturedStep ==
  ASSUME Running, NEW c \in Clients, Captured(c)
  PROVE  Running'
<1> DEFINE k == client[c]
<1>1. PICK s \in Snapshots :
        /\ Capturing(c, Captures)
        /\ ValidSnapshot(s, k.seen.target, k.env, k.seen.root)
        /\ Commit(c, [k.seen EXCEPT !.snapshot = s, !.fingerprint = s.content], "returned")
        /\ UNCHANGED unconfirmed
  BY DEF Captured
<1>2. /\ k.at \in GatePoints /\ k.op # "prepare"
      /\ k.env # None /\ k.env = nodes[k.world].environment
      /\ Inside(k, c, nodes, gate)
  BY <1>1, ClientType DEF Capturing, At, ClientOK, GatePoints, Captures
<1>3. k.seen \in Node
  BY <1>2, ClientType DEF Coroutine, Inside
<1>4. k.seen.environment = k.env /\ Coherent(k.seen)
  <2>1. Coherent(nodes[k.world]) /\ Same(nodes[k.world], k.seen)
    BY <1>2 DEF Inside, Running, StoreOK, NodesOK
  <2> QED BY <1>2, <2>1 DEF Same, Coherent
<1> DEFINE n == [k.seen EXCEPT !.snapshot = s, !.fingerprint = s.content]
<1>5. Commit(c, n, "returned")
  BY <1>1
<1> HIDE DEF k
<1>6. s.content \in Contents
  BY DEF Snapshots
<1>7. /\ n \in Node /\ n.destroyed = k.seen.destroyed /\ n.environment = k.seen.environment
      /\ n.revision = k.seen.revision /\ n.parent = k.seen.parent
      /\ n.root = k.seen.root /\ n.target = k.seen.target /\ n.lineage = k.seen.lineage
      /\ n.snapshot = s /\ n.fingerprint = s.content /\ n.phase = k.seen.phase
  BY <1>3, <1>6 DEF Node
<1> HIDE DEF n
<1>8. Coherent(n)
  BY <1>1, <1>4, <1>7, NoneAssumption DEF Coherent, ValidSnapshot
<1> QED BY <1>1, <1>2, <1>5, <1>7, <1>8, CommitStep DEF k

\* A failed destroy leaves the world and its environment as they were.
LEMMA DestroyFailsStep ==
  ASSUME Running, NEW c \in Clients, DestroyFails(c)
  PROVE  Running'
<1>1. /\ ReleaseGate(c) /\ Finish(c, "raised")
      /\ UNCHANGED <<nodes, order, pending, calls, unconfirmed>>
  BY DEF DestroyFails
<1>2. \A d \in Clients \ {c} : client'[d] = client[d]
  BY <1>1 DEF Finish, Running
<1>3. Frame(c) /\ GatesOK' /\ gate' \in [WorldIds -> Clients \cup {None}]
  BY <1>1, <1>2, LeavingFrame
<1>4. StoreOK'
  BY <1>1, StoreUnchanged DEF Running
<1> QED BY <1>1, <1>3, <1>4, FinishStep DEF Running

\* Every command that passes the gate to await the adapter preserves the invariant.
LEMMA EnterAnyStep ==
  ASSUME Running, NEW c \in Clients,
         EnterFork(c) \/ EnterSnapshot(c) \/ EnterRestore(c) \/ EnterDestroy(c)
  PROVE  Running'
<1>1. CASE EnterFork(c)
  BY <1>1, EnterStep DEF EnterFork
<1>2. CASE EnterSnapshot(c)
  BY <1>2, EnterStep DEF EnterSnapshot
<1>3. CASE EnterRestore(c)
  BY <1>3, EnterStep DEF EnterRestore
<1>4. CASE EnterDestroy(c)
  BY <1>4, EnterStep DEF EnterDestroy
<1> QED BY <1>1, <1>2, <1>3, <1>4

\* The awaits that change nothing shared preserve the invariant.
LEMMA MoveStep ==
  ASSUME Running, NEW c \in Clients, Restored(c) \/ CaptureFails(c)
  PROVE  Running'
<1>1. CASE Restored(c)
  <2>1. client[c].at = "restoring" /\ client[c].op \in Captures
    BY <1>1, ClientType DEF Restored, At, ClientOK, Captures
  <2> QED BY <1>1, <2>1, GotoStep DEF Restored
<1>2. CASE CaptureFails(c)
  <2>1. client[c].at \in {"restoring", "capturing"} /\ client[c].op \in Captures
    BY <1>2, ClientType DEF CaptureFails, Capturing, At, ClientOK, Captures
  <2> QED BY <1>2, <2>1, GotoStep DEF CaptureFails
<1> QED BY <1>1, <1>2

-----------------------------------------------------------------------------
(* The theorems.                                                           *)

\* The empty catalog of a new manager satisfies the invariant.
LEMMA InitRunning == Init => Running
<1> SUFFICES ASSUME Init PROVE Running
  OBVIOUS
<1> USE DEF Init, StoreInit
<1>1. StoreOK
  <2>1. \A w \in WorldIds : nodes[w] = None /\ pending[w] = None /\ Held(w) = None
    BY DEF Held
  <2>2. StoreTypeOK
    BY DEF StoreTypeOK
  <2> QED BY <2>1, <2>2
      DEF StoreOK, NodesOK, ExclusiveOwnership, NamespaceIsolation, NothingLost
<1>2. ClientsOK
  BY IdleOK DEF ClientsOK
<1>3. client \in [Clients -> Coroutine]
  BY IdleType
<1>4. \A c \in Clients : client[c].result # "conflict"
  BY DEF Idle
<1> QED BY <1>1, <1>2, <1>3, <1>4 DEF Running, GatesOK

\* Every step of every coroutine preserves the invariant.
LEMMA NextRunning == Running /\ [Next]_vars => Running'
<1> SUFFICES ASSUME Running, [Next]_vars PROVE Running'
  OBVIOUS
<1>1. ASSUME NEW c \in Clients, Step(c) PROVE Running'
  BY <1>1, RefusedStep, CreateGhostStep, EnterAnyStep, DestroyBareStep, TransitionStep,
     EnvironmentReturnedStep, CreationFailsStep, PublishStep, SetupFailsStep, UnwoundStep,
     MoveStep, CapturedStep, DestructionStep, DestroyFailsStep
  DEF Step, Progress
<1>2. CASE UNCHANGED vars
  <2>1. StoreOK'
    BY <1>2, StoreUnchanged DEF vars, Running
  <2>2. ClientsOK' /\ GatesOK'
    BY <1>2 DEF vars, Running, ClientsOK, GatesOK
  <2> QED BY <1>2, <2>1, <2>2 DEF vars, Running
<1> QED BY <1>1, <1>2, CallStep DEF Next, Quiescent

\* The inductive invariant holds in every reachable state, whatever the adapter
\* answers and however the commands interleave.
THEOREM Invariance == Spec => []IInv
<1>1. Init => IInv
  BY InitRunning, IInvRunning
<1>2. IInv /\ [Next]_vars => IInv'
  <2> SUFFICES ASSUME IInv, [Next]_vars PROVE IInv'
    OBVIOUS
  <2>1. Running'
    BY NextRunning, IInvRunning
  <2> QED BY <2>1 DEF IInv, Running, StoreOK, TypeOK
<1> QED BY <1>1, <1>2, PTL DEF Spec

\* Type correctness of the manager's and the store's state.
THEOREM TypeCorrectness == Spec => []TypeOK
<1>1. IInv => TypeOK
  BY DEF IInv
<1> QED BY <1>1, Invariance, PTL

\* No two worlds ever hold environments with a common identity, and every
\* environment once claimed stays recorded until its destruction is confirmed.
THEOREM OwnershipSafety == Spec => [](ExclusiveOwnership /\ NothingLost)
<1>1. IInv => ExclusiveOwnership /\ NothingLost
  BY DEF IInv
<1> QED BY <1>1, Invariance, PTL

\* Published worlds never share a namespace component.
THEOREM IsolationSafety == Spec => []NamespaceIsolation
<1>1. IInv => NamespaceIsolation
  BY DEF IInv
<1> QED BY <1>1, Invariance, PTL

\* Every adapter.destroy in flight is for the caller's own environment, once.
THEOREM DestructionSafety == Spec => []DestroysOnlyItsOwn
<1>1. IInv => DestroysOnlyItsOwn
  <2> SUFFICES ASSUME IInv, NEW c \in Clients, client[c].at \in DestroyPoints
               PROVE  /\ client[c].env # None
                      /\ Held(Subject(c)) = client[c].env
                      /\ \A d \in Clients \ {c} :
                           client[d].at \in DestroyPoints => client[d].env # client[c].env
    BY DEF DestroysOnlyItsOwn
  <2>1. Running
    BY IInvRunning
  <2>2. ASSUME NEW d \in Clients, client[d].at \in DestroyPoints
        PROVE  /\ client[d].env # None /\ client[d].env \in Handles
               /\ Subject(d) \in WorldIds /\ Held(Subject(d)) = client[d].env
               /\ client[d].at = "unwinding" =>
                    /\ nodes[Subject(d)] = None /\ pending[Subject(d)].owner = d
                    /\ client[d].child = Subject(d)
               /\ client[d].at # "unwinding" => nodes[Subject(d)] # None /\ gate[Subject(d)] = d
    <3>1. client[d].env \in Handles \cup {None}
      BY <2>1, ClientType DEF Coroutine
    <3>2. CASE client[d].at = "unwinding"
      <4>1. client[d].env # None /\ Owns(client[d], d, pending, client[d].env)
        BY <2>1, <3>2, ClientType DEF ClientOK
      <4>2. nodes[client[d].child] = None
        BY <2>1, <4>1 DEF Owns, Running, StoreOK, NodesOK
      <4> QED BY <3>1, <3>2, <4>1, <4>2 DEF Subject, At, Held, Owns
    <3>3. CASE client[d].at # "unwinding"
      <4>1. client[d].at \in {"destroying", "discarding"}
        BY <2>2, <3>3 DEF DestroyPoints
      <4>2. client[d].env # None /\ client[d].env = nodes[client[d].world].environment
            /\ Inside(client[d], d, nodes, gate)
        BY <2>1, <4>1, ClientType DEF ClientOK, GatePoints, Captures
      <4> QED BY <3>1, <3>3, <4>2 DEF Subject, At, Held, Inside
    <3> QED BY <3>2, <3>3
  <2>3. ASSUME NEW d \in Clients \ {c}, client[d].at \in DestroyPoints
        PROVE  client[d].env # client[c].env
    <3>1. Subject(c) # Subject(d)
      BY <2>2, <2>3
    <3>2. IdentityDisjoint(Held(Subject(c)), Held(Subject(d)))
      BY <2>2, <2>3, <3>1 DEF IInv, ExclusiveOwnership
    <3> QED BY <2>2, <2>3, <3>2 DEF IdentityDisjoint
  <2> QED BY <2>2, <2>3
<1> QED BY <1>1, Invariance, PTL

\* What a command read inside the gate is still current when it commits, so
\* no command ends with a revision conflict.
THEOREM CommitSafety == Spec => []NoStaleCommit
<1>1. IInv => NoStaleCommit
  <2> SUFFICES ASSUME IInv, NEW c \in Clients, client[c].seen # None
               PROVE  nodes[client[c].world]
                        = [client[c].seen EXCEPT !.dedup = nodes[client[c].world].dedup]
    BY DEF NoStaleCommit, IInv
  <2>1. Running
    BY IInvRunning
  <2>2. /\ client[c] \in Coroutine /\ ClientOK(client[c], c, nodes, pending, gate)
    BY <2>1, ClientType
  <2>3. client[c].at \in GatePoints /\ client[c].op # "prepare"
    BY <2>2 DEF ClientOK, GatePoints, Coroutine, Points
  <2>4. Inside(client[c], c, nodes, gate)
    BY <2>2, <2>3 DEF ClientOK
  <2>5. client[c].seen \in Node /\ nodes[client[c].world] \in Node
    BY <2>1, <2>2, <2>4 DEF Coroutine, Inside, Running, StoreOK, StoreTypeOK
  <2> QED BY <2>4, <2>5, SameExcept DEF Inside
<1> QED BY <1>1, Invariance, PTL

-----------------------------------------------------------------------------
(* The catalog.                                                            *)

\* Every step of the manager changes the catalog by one _replace of a published
\* world, by one _add of an identity not yet published, or not at all.
Replacing == \E w \in WorldIds, n \in Node : nodes[w] # None /\ Replace(w, n)
Adding    == \E w \in WorldIds, n \in Node : nodes[w] = None /\ Add(w, n)
Keeping   == UNCHANGED <<nodes, order>>

\* A commit inside the gate replaces a published world, or changes nothing.
LEMMA CommitReplaces ==
  ASSUME Running, NEW c \in Clients, NEW n \in Node, NEW result,
         client[c].at \in GatePoints, client[c].op # "prepare", Commit(c, n, result)
  PROVE  Replacing \/ Keeping
<1>1. client[c].world \in WorldIds /\ nodes[client[c].world] # None
  BY ClientType DEF ClientOK, Inside
<1> QED BY <1>1 DEF Commit, Replacing, Keeping, storeVars

\* The commands that end inside the gate without an adapter call.
LEMMA PassingReplaces ==
  ASSUME Running, NEW c \in Clients, Transition(c) \/ DestroyBare(c)
  PROVE  Replacing \/ Keeping
<1> DEFINE w == client[c].world
<1>1. /\ w \in WorldIds /\ nodes[w] # None
      /\ client[c].op = "transition" => client[c].arg \in Phases
  BY ClientType DEF Transition, DestroyBare, GateFree, At, ClientOK
<1>2. nodes[w] \in Node
  BY <1>1 DEF Running, StoreOK, StoreTypeOK
<1>3. CASE Transition(c)
  <2>1. [nodes[w] EXCEPT !.phase = client[c].arg] \in Node
    BY <1>1, <1>2, <1>3 DEF Transition, Node
  <2> QED BY <1>1, <1>3, <2>1 DEF Transition, Replacing
<1>4. CASE DestroyBare(c)
  <2>1. [nodes[w] EXCEPT !.destroyed = TRUE] \in Node
    BY <1>2 DEF Node
  <2> QED BY <1>1, <1>4, <2>1 DEF DestroyBare, Replacing, Keeping, storeVars
<1> QED BY <1>3, <1>4

\* The commits after an awaited adapter call.
LEMMA AwaitedReplaces ==
  ASSUME Running, NEW c \in Clients,
         Captured(c) \/ Discarded(c) \/ DiscardFails(c) \/ Destroyed(c)
  PROVE  Replacing \/ Keeping
<1> DEFINE k == client[c]
<1>1. /\ k.at \in {"capturing", "discarding", "destroying"}
      /\ k.at = "capturing" => k.op \in Captures
  BY DEF Captured, Discarded, DiscardFails, Destroyed, Capturing, At
<1>2. k.at \in GatePoints /\ k.op # "prepare" /\ Inside(k, c, nodes, gate)
  BY <1>1, ClientType DEF ClientOK, GatePoints, Captures
<1>3. k.seen \in Node
  BY <1>2, ClientType DEF Coroutine, Inside
<1> HIDE DEF k
<1>4. CASE Captured(c)
  <2>1. PICK s \in Snapshots :
          Commit(c, [k.seen EXCEPT !.snapshot = s, !.fingerprint = s.content], "returned")
    BY <1>4 DEF Captured, k
  <2>2. s.content \in Contents
    BY DEF Snapshots
  <2>3. [k.seen EXCEPT !.snapshot = s, !.fingerprint = s.content] \in Node
    BY <1>3, <2>2 DEF Node
  <2> QED BY <1>2, <2>1, <2>3, CommitReplaces DEF k
<1>5. CASE Discarded(c) \/ Destroyed(c)
  <2>1. Buried(k.seen) \in Node
    BY <1>3 DEF Buried, Node
  <2> QED BY <1>2, <1>5, <2>1, CommitReplaces DEF Discarded, Destroyed, k
<1>6. CASE DiscardFails(c)
  <2>1. [k.seen EXCEPT !.phase = "BLOCKED"] \in Node
    BY <1>3 DEF Node, Phases
  <2> QED BY <1>2, <1>6, <2>1, CommitReplaces DEF DiscardFails, k
<1> QED BY <1>4, <1>5, <1>6

\* The publications: create_ghost, and the end of prepare and fork.
LEMMA PublicationAdds ==
  ASSUME Running, NEW c \in Clients, CreateGhost(c) \/ Publish(c)
  PROVE  Adding
<1>1. CASE CreateGhost(c)
  <2>1. /\ client[c].world \in WorldIds /\ nodes[client[c].world] # None
        /\ client[c].arg \in Labels /\ Owns(client[c], c, pending, None)
    BY <1>1, ClientType DEF CreateGhost, GateFree, At, ClientOK, Children
  <2>2. GhostOf(client[c].world, client[c].arg) \in Node
    BY <2>1, GhostType DEF Running, StoreOK
  <2>3. client[c].child \in WorldIds /\ nodes[client[c].child] = None
    BY <2>1 DEF Owns, Running, StoreOK, NodesOK
  <2> QED BY <1>1, <2>2, <2>3 DEF CreateGhost, Adding
<1>2. CASE Publish(c)
  <2>1. PICK s \in Snapshots : Capturing(c, Creations) /\ Add(client[c].child, CreatedNode(c, s))
    BY <1>2 DEF Publish
  <2>2. CreatedNode(c, s) \in Node
    BY <2>1, CreatedType
  <2>3. Owns(client[c], c, pending, client[c].env)
    BY <2>1, ClientType DEF Capturing, At, ClientOK
  <2>4. client[c].child \in WorldIds /\ nodes[client[c].child] = None
    BY <2>3 DEF Owns, Running, StoreOK, NodesOK
  <2> QED BY <2>1, <2>2, <2>4 DEF Adding
<1> QED BY <1>1, <1>2

\* The steps that await, wait, fail or only reserve leave the catalog alone.
LEMMA OtherStepsKeep ==
  ASSUME NEW c \in Clients,
         \/ Call(c) \/ Cancelled(c) \/ Refused(c)
         \/ EnterFork(c) \/ EnterSnapshot(c) \/ EnterRestore(c) \/ EnterDestroy(c)
         \/ EnvironmentReturned(c) \/ CreationFails(c) \/ SetupFails(c)
         \/ Unwound(c) \/ Quarantine(c)
         \/ Restored(c) \/ CaptureFails(c) \/ DestroyFails(c)
  PROVE  Keeping
<1>1. CASE Call(c)
  BY <1>1 DEF Call, CallPrepare, CallChild, CallSnapshot, CallRestore, CallDestroy,
              CallTransition, Start, Keeping
<1>2. CASE Cancelled(c) \/ Refused(c)
  BY <1>2 DEF Cancelled, Refused, TurnedAway, Keeping
<1>3. CASE EnterFork(c) \/ EnterSnapshot(c) \/ EnterRestore(c) \/ EnterDestroy(c)
  BY <1>3 DEF EnterFork, EnterSnapshot, EnterRestore, EnterDestroy, Keeping
<1>4. CASE EnvironmentReturned(c) \/ CreationFails(c) \/ SetupFails(c)
  BY <1>4 DEF EnvironmentReturned, CreationFails, SetupFails, Keeping
<1>5. CASE \/ Unwound(c) \/ Quarantine(c) \/ Restored(c) \/ CaptureFails(c) \/ DestroyFails(c)
  BY <1>5 DEF Unwound, Quarantine, Restored, CaptureFails, DestroyFails, Keeping
<1> QED BY <1>1, <1>2, <1>3, <1>4, <1>5

\* Every step of the manager changes the catalog by one _replace, by one _add, or
\* not at all.
LEMMA StoreStep ==
  ASSUME Running, [Next]_vars
  PROVE  Replacing \/ Adding \/ Keeping
<1>1. ASSUME NEW c \in Clients, Call(c) \/ Step(c)
      PROVE  Replacing \/ Adding \/ Keeping
  BY <1>1, PassingReplaces, AwaitedReplaces, PublicationAdds, OtherStepsKeep DEF Step, Progress
<1>2. CASE UNCHANGED vars
  BY <1>2 DEF vars, Keeping
<1> QED BY <1>1, <1>2 DEF Next, Quiescent

-----------------------------------------------------------------------------
(* What a step may do to a published world.                                *)

\* What WorldHistory says of one world, of its node before and after a step.
Continues(n, m) ==
  /\ m # None
  /\ <<m.parent, m.root, m.target, m.lineage>> = <<n.parent, n.root, n.target, n.lineage>>
  /\ n.destroyed => m.destroyed
  /\ m.environment = n.environment \/ (m.destroyed /\ m.environment = None)
  /\ m = [n EXCEPT !.dedup = m.dedup] \/ m.revision = n.revision + 1

\* A node rewritten by _rebuild_indexes alone continues.
LEMMA SameContinues ==
  ASSUME NEW n \in Node, NEW m \in Node, Same(m, n)
  PROVE  Continues(n, m)
<1>1. m = [n EXCEPT !.dedup = m.dedup]
  BY SameExcept
<1> QED BY <1>1, NoneAssumption DEF Continues, Same

\* _replace continues the world it writes and every other one.
LEMMA ReplaceContinues ==
  ASSUME StoreTypeOK, NEW w \in WorldIds, NEW n \in Node, nodes[w] # None, Replace(w, n),
         NEW v \in WorldIds, nodes[v] # None
  PROVE  Continues(nodes[v], nodes'[v])
<1>1. /\ StoreTypeOK' /\ nodes'[w] # None
      /\ Same(nodes'[w], [n EXCEPT !.revision = n.revision + 1])
      /\ v # w => nodes'[v] # None /\ Same(nodes'[v], nodes[v])
  BY ReplaceFacts
<1>2. nodes[v] \in Node /\ nodes'[v] \in Node
  BY <1>1 DEF StoreTypeOK
<1>3. CASE v # w
  BY <1>1, <1>2, <1>3, SameContinues
<1>4. CASE v = w
  <2>1. Replaceable(w, n)
    BY DEF Replace
  <2> DEFINE m == [n EXCEPT !.revision = n.revision + 1]
  <2>2. /\ m.parent = n.parent /\ m.root = n.root /\ m.target = n.target
        /\ m.lineage = n.lineage /\ m.destroyed = n.destroyed
        /\ m.environment = n.environment /\ m.revision = n.revision + 1
    BY DEF Node
  <2>3. Same(nodes'[v], m)
    BY <1>1, <1>4
  <2> HIDE DEF m
  <2>4. n.environment = nodes[v].environment \/ (n.destroyed /\ n.environment = None)
    BY <1>4, <2>1 DEF Replaceable
  <2> QED BY <1>1, <1>4, <2>1, <2>2, <2>3, <2>4 DEF Continues, Same, Replaceable
<1> QED BY <1>3, <1>4

\* _add continues every world already published.
LEMMA AddContinues ==
  ASSUME StoreTypeOK, NEW w \in WorldIds, NEW n \in Node, nodes[w] = None, Add(w, n),
         NEW v \in WorldIds, nodes[v] # None
  PROVE  Continues(nodes[v], nodes'[v])
<1>1. v # w
  OBVIOUS
<1>2. StoreTypeOK' /\ nodes'[v] # None /\ Same(nodes'[v], nodes[v])
  BY <1>1, AddFacts
<1>3. nodes[v] \in Node /\ nodes'[v] \in Node
  BY <1>2 DEF StoreTypeOK
<1> QED BY <1>2, <1>3, SameContinues

\* A published world never loses its node, its identity or its environment, a
\* destroyed one stays destroyed, and every change but a recomputed pointer raises
\* its revision by one: what the revision check of _replace is there to detect.
THEOREM HistorySafety == Spec => WorldHistory
<1>1. ASSUME IInv, [Next]_vars, NEW w \in WorldIds, nodes[w] # None
      PROVE  Continues(nodes[w], nodes'[w])
  <2>1. Running /\ StoreTypeOK /\ nodes[w] \in Node
    BY <1>1, IInvRunning DEF IInv, TypeOK, StoreTypeOK
  <2>2. CASE Replacing
    BY <1>1, <2>1, <2>2, ReplaceContinues DEF Replacing
  <2>3. CASE Adding
    BY <1>1, <2>1, <2>3, AddContinues DEF Adding
  <2>4. CASE Keeping
    <3>1. nodes'[w] = nodes[w]
      BY <2>4 DEF Keeping
    <3>2. Continues(nodes[w], nodes[w])
      BY <2>1, SameContinues DEF Same
    <3> QED BY <3>1, <3>2
  <2> QED BY <1>1, <2>1, <2>2, <2>3, <2>4, StoreStep
<1>2. IInv /\ [Next]_vars =>
        [\A w \in WorldIds : nodes[w] # None =>
           LET n == nodes[w]  m == nodes'[w] IN
             /\ m # None
             /\ <<m.parent, m.root, m.target, m.lineage>>
                  = <<n.parent, n.root, n.target, n.lineage>>
             /\ n.destroyed => m.destroyed
             /\ m.environment = n.environment \/ (m.destroyed /\ m.environment = None)
             /\ m = [n EXCEPT !.dedup = m.dedup] \/ m.revision = n.revision + 1]_vars
  BY <1>1 DEF Continues
<1> QED BY <1>2, Invariance, PTL DEF Spec, WorldHistory

-----------------------------------------------------------------------------
(* The deduplication pointers.                                             *)

\* The published live worlds with the key of world w (what _rebuild_indexes scans).
Twin(ns, u, w) == /\ ns[u] # None
                  /\ ~ns[u].destroyed
                  /\ FingerprintKey(ns[u]) = FingerprintKey(ns[w])

\* Canonical reads only what _rebuild_indexes does not write.
LEMMA CanonicalSame ==
  ASSUME NEW ns \in [WorldIds -> Node \cup {None}], NEW ms \in [WorldIds -> Node \cup {None}],
         NEW ord \in Seq(WorldIds), NEW w \in WorldIds, ns[w] # None,
         \A v \in WorldIds : ms[v] = None <=> ns[v] = None,
         \A v \in WorldIds : ns[v] # None => Same(ms[v], ns[v])
  PROVE  Canonical(ms, ord, w) = Canonical(ns, ord, w)
<1>1. \A v \in WorldIds : Twin(ms, v, w) <=> Twin(ns, v, w)
  BY DEF Twin, FingerprintKey, Same
<1>2. \A i \in DOMAIN ord : ord[i] \in WorldIds
  OBVIOUS
<1>3. \A i \in DOMAIN ord : Twin(ms, ord[i], w) <=> Twin(ns, ord[i], w)
  BY <1>1, <1>2
<1> DEFINE firsts(f) == {i \in DOMAIN ord : /\ Twin(f, ord[i], w)
                                            /\ \A j \in DOMAIN ord : Twin(f, ord[j], w) => i <= j}
           earlier(f) == {ord[i] : i \in firsts(f)} \ {w}
           canonical(f) == IF f[w].destroyed \/ earlier(f) = {} THEN None
                           ELSE CHOOSE v \in earlier(f) : TRUE
<1>4. firsts(ms) = firsts(ns)
  BY <1>3
<1>5. earlier(ms) = earlier(ns)
  BY <1>4
<1>6. ms[w].destroyed = ns[w].destroyed
  BY DEF Same
<1>7. Canonical(ms, ord, w) = canonical(ms) /\ Canonical(ns, ord, w) = canonical(ns)
  BY DEF Canonical, Twin
<1> HIDE DEF earlier
<1>8. canonical(ms) = canonical(ns)
  BY <1>5, <1>6
<1> QED BY <1>7, <1>8

\* A non-empty set of natural numbers has a least element.
LEMMA LeastElement ==
  ASSUME NEW T \in SUBSET Nat, T # {}
  PROVE  \E m \in T : \A j \in T : m <= j
<1>1. PICK m \in T : \A j \in T : <<j, m>> \notin OpToRel(<, Nat)
  BY NatLessThanWellFounded, WFMin
<1>2. \A j \in T : ~(j < m)
  BY <1>1 DEF OpToRel
<1> QED BY <1>2

\* The earliest published live world with a key is canonical for all of them.
LEMMA EarliestTwin ==
  ASSUME NEW ns \in [WorldIds -> Node \cup {None}], NEW ord \in Seq(WorldIds),
         NEW w \in WorldIds, Twin(ns, w, w), \E i \in DOMAIN ord : ord[i] = w
  PROVE  \E v \in WorldIds :
           /\ Twin(ns, v, w)
           /\ \A u \in WorldIds : Twin(ns, u, w) =>
                Canonical(ns, ord, u) = IF u = v THEN None ELSE v
<1> DEFINE T == {i \in DOMAIN ord : Twin(ns, ord[i], w)}
<1>1. T \in SUBSET Nat /\ T # {}
  OBVIOUS
<1>2. PICK m \in T : \A j \in T : m <= j
  BY <1>1, LeastElement
<1>3. \A i \in DOMAIN ord : ord[i] \in WorldIds /\ i \in Nat
  OBVIOUS
<1>4. ord[m] \in WorldIds /\ Twin(ns, ord[m], w) /\ m \in DOMAIN ord
  BY <1>2, <1>3
<1>5. ASSUME NEW u \in WorldIds, Twin(ns, u, w)
      PROVE  Canonical(ns, ord, u) = IF u = ord[m] THEN None ELSE ord[m]
  <2> DEFINE firsts == {i \in DOMAIN ord : /\ Twin(ns, ord[i], u)
                                           /\ \A j \in DOMAIN ord : Twin(ns, ord[j], u) => i <= j}
             earlier == {ord[i] : i \in firsts} \ {u}
  <2>1. \A i \in DOMAIN ord : Twin(ns, ord[i], u) <=> i \in T
    BY <1>5 DEF Twin
  <2>2. firsts = {m}
    <3>1. m \in firsts
      BY <1>2, <1>4, <2>1
    <3>2. \A i \in firsts : i <= m /\ m <= i /\ i \in Nat /\ m \in Nat
      BY <1>2, <1>3, <1>4, <2>1
    <3> QED BY <3>1, <3>2
  <2>3. earlier = {ord[m]} \ {u}
    BY <2>2
  <2>4. Canonical(ns, ord, u) = IF ns[u].destroyed \/ earlier = {} THEN None
                                ELSE CHOOSE v \in earlier : TRUE
    BY DEF Canonical, Twin
  <2> HIDE DEF earlier
  <2>5. ~ns[u].destroyed
    BY <1>5 DEF Twin
  <2>6. CASE u = ord[m]
    BY <2>3, <2>4, <2>5, <2>6
  <2>7. CASE u # ord[m]
    <3>1. earlier = {ord[m]}
      BY <2>3, <2>7
    <3>2. (CHOOSE v \in earlier : TRUE) = ord[m]
      BY <3>1
    <3> QED BY <2>4, <2>5, <2>7, <3>1, <3>2
  <2> QED BY <2>6, <2>7
<1> QED BY <1>4, <1>5

\* The order lists exactly the published worlds, and every pointer is what
\* _rebuild_indexes computes from the current catalog.
Listed   == \A w \in WorldIds : nodes[w] # None <=> \E i \in DOMAIN order : order[i] = w
Computed == \A w \in WorldIds : nodes[w] # None => nodes[w].dedup = Canonical(nodes, order, w)

\* After _rebuild_indexes every pointer is the computed one.
LEMMA RebuildComputes ==
  ASSUME NEW ns \in [WorldIds -> Node \cup {None}], NEW ord \in Seq(WorldIds),
         nodes' = RebuildIndexes(ns, ord), order' = ord
  PROVE  Computed'
<1> PICK r : r = RebuildIndexes(ns, ord)
  OBVIOUS
<1>1. /\ r \in [WorldIds -> Node \cup {None}]
      /\ \A w \in WorldIds : r[w] = None <=> ns[w] = None
      /\ \A w \in WorldIds : ns[w] # None => Same(r[w], ns[w])
  BY RebuildFacts
<1>2. ASSUME NEW w \in WorldIds, r[w] # None
      PROVE  r[w].dedup = Canonical(r, ord, w)
  <2>1. ns[w] # None /\ ns[w] \in Node
    BY <1>1, <1>2
  <2>2. Canonical(r, ord, w) = Canonical(ns, ord, w)
    BY <1>1, <2>1, CanonicalSame
  <2>3. r[w] = [ns[w] EXCEPT !.dedup = Canonical(ns, ord, w)]
    BY <2>1 DEF RebuildIndexes
  <2>4. r[w].dedup = Canonical(ns, ord, w)
    BY <2>1, <2>3 DEF Node
  <2> QED BY <2>2, <2>4
<1> QED BY <1>2 DEF Computed

\* Raising the revision, as _replace does, keeps a node a node.
LEMMA RevisionUpdate ==
  ASSUME NEW n \in Node
  PROVE  [n EXCEPT !.revision = n.revision + 1] \in Node
BY DEF Node

\* The catalog stays listed and its pointers computed, whatever the step.
LEMMA CatalogKept ==
  ASSUME StoreTypeOK, Listed, Computed, Replacing \/ Adding \/ Keeping
  PROVE  Listed' /\ Computed'
<1> USE DEF StoreTypeOK
<1>1. CASE Replacing
  <2>1. PICK w \in WorldIds, n \in Node : nodes[w] # None /\ Replace(w, n)
    BY <1>1 DEF Replacing
  <2> DEFINE m == [n EXCEPT !.revision = n.revision + 1]
             ns == [nodes EXCEPT ![w] = m]
  <2>2. m \in Node
    BY RevisionUpdate
  <2>3. nodes' = RebuildIndexes(ns, order) /\ order' = order
    BY <2>1 DEF Replace
  <2> HIDE DEF m
  <2>4. ns \in [WorldIds -> Node \cup {None}]
    BY <2>2
  <2>5. \A v \in WorldIds : nodes'[v] = None <=> nodes[v] = None
    BY <2>1, ReplaceFacts
  <2> HIDE DEF ns
  <2>6. Computed'
    BY <2>3, <2>4, RebuildComputes
  <2> QED BY <2>3, <2>5, <2>6 DEF Listed
<1>2. CASE Adding
  <2>1. PICK w \in WorldIds, n \in Node : nodes[w] = None /\ Add(w, n)
    BY <1>2 DEF Adding
  <2> DEFINE ns == [nodes EXCEPT ![w] = n]
             ord == Append(order, w)
  <2>2. nodes' = RebuildIndexes(ns, ord) /\ order' = ord
    BY <2>1 DEF Add
  <2>3. ns \in [WorldIds -> Node \cup {None}] /\ ord \in Seq(WorldIds)
    OBVIOUS
  <2>4. nodes'[w] # None /\ \A v \in WorldIds \ {w} : nodes'[v] = None <=> nodes[v] = None
    BY <2>1, AddFacts
  <2>5. \A v \in WorldIds :
          (\E i \in DOMAIN ord : ord[i] = v) <=> v = w \/ \E i \in DOMAIN order : order[i] = v
    <3>1. /\ DOMAIN ord = 1 .. Len(order) + 1 /\ DOMAIN order = 1 .. Len(order)
          /\ Len(order) \in Nat /\ ord[Len(order) + 1] = w
          /\ \A i \in DOMAIN order : ord[i] = order[i]
      OBVIOUS
    <3> HIDE DEF ord
    <3> QED BY <3>1
  <2> HIDE DEF ns, ord
  <2>6. Computed'
    BY <2>2, <2>3, RebuildComputes
  <2> QED BY <2>2, <2>4, <2>5, <2>6 DEF Listed
<1>3. CASE Keeping
  BY <1>3 DEF Keeping, Listed, Computed
<1> QED BY <1>1, <1>2, <1>3

\* Computed pointers are coherent: one canonical live world for each key.
LEMMA PointersCoherent ==
  ASSUME StoreTypeOK, Listed, Computed
  PROVE  DedupCoherent
<1> USE DEF StoreTypeOK
<1>1. ASSUME NEW w \in WorldIds, nodes[w] # None, nodes[w].destroyed
      PROVE  nodes[w].dedup = None
  BY <1>1 DEF Computed, Canonical
<1>2. ASSUME NEW w \in WorldIds, nodes[w] # None, ~nodes[w].destroyed
      PROVE  /\ nodes[w].dedup # None =>
                  LET v == nodes[w].dedup IN
                    /\ v # w /\ nodes[v] # None /\ ~nodes[v].destroyed /\ nodes[v].dedup = None
                    /\ FingerprintKey(nodes[v]) = FingerprintKey(nodes[w])
             /\ Cardinality({v \in WorldIds : /\ nodes[v] # None
                                              /\ ~nodes[v].destroyed
                                              /\ nodes[v].dedup = None
                                              /\ FingerprintKey(nodes[v])
                                                   = FingerprintKey(nodes[w])}) = 1
  <2>1. Twin(nodes, w, w) /\ \E i \in DOMAIN order : order[i] = w
    BY <1>2 DEF Twin, Listed
  <2>2. PICK v \in WorldIds :
          /\ Twin(nodes, v, w)
          /\ \A u \in WorldIds : Twin(nodes, u, w) =>
               Canonical(nodes, order, u) = IF u = v THEN None ELSE v
    BY <2>1, EarliestTwin
  <2>3. \A u \in WorldIds : Twin(nodes, u, w) =>
          nodes[u].dedup = IF u = v THEN None ELSE v
    BY <2>2 DEF Computed, Twin
  <2>4. v # None
    BY NoneAssumption
  <2>5. nodes[w].dedup = None \/ (nodes[w].dedup = v /\ v # w)
    BY <2>1, <2>3
  <2>6. nodes[v].dedup = None
    BY <2>2, <2>3
  <2> DEFINE Live == {u \in WorldIds : Twin(nodes, u, w) /\ nodes[u].dedup = None}
  <2>7. Live = {v}
    BY <2>2, <2>3, <2>4, <2>6
  <2>8. Cardinality(Live) = 1
    BY <2>7, FS_Singleton
  <2>9. Live = {u \in WorldIds : /\ nodes[u] # None
                                 /\ ~nodes[u].destroyed
                                 /\ nodes[u].dedup = None
                                 /\ FingerprintKey(nodes[u]) = FingerprintKey(nodes[w])}
    BY DEF Twin
  <2> HIDE DEF Live
  <2> QED BY <2>2, <2>5, <2>6, <2>8, <2>9 DEF Twin
<1> QED BY <1>1, <1>2 DEF DedupCoherent

\* The catalog is well formed and its deduplication pointers name, for each key,
\* the one canonical live world, after every command and every failure.
THEOREM CatalogSafety == Spec => []CatalogSound
<1>1. Init => IInv /\ Listed /\ Computed
  <2>1. Init => IInv
    BY InitRunning, IInvRunning
  <2>2. Init => Listed /\ Computed
    BY DEF Init, StoreInit, Listed, Computed
  <2> QED BY <2>1, <2>2
<1>2. (IInv /\ Listed /\ Computed) /\ [Next]_vars => (IInv /\ Listed /\ Computed)'
  <2> SUFFICES ASSUME IInv, Listed, Computed, [Next]_vars
               PROVE  IInv' /\ Listed' /\ Computed'
    OBVIOUS
  <2>1. Running /\ StoreTypeOK
    BY IInvRunning DEF IInv, TypeOK
  <2>2. Running'
    BY <2>1, NextRunning
  <2>3. IInv'
    BY <2>2 DEF IInv, Running, StoreOK, TypeOK
  <2>4. Listed' /\ Computed'
    BY <2>1, StoreStep, CatalogKept
  <2> QED BY <2>3, <2>4
<1>3. IInv /\ Listed /\ Computed => CatalogSound
  BY PointersCoherent DEF IInv, TypeOK, CatalogSound
<1> QED BY <1>1, <1>2, <1>3, PTL DEF Spec

\* Environments are never shared and never forgotten.
THEOREM OwnershipTheorem == Spec => []Ownership
<1>1. IInv => Ownership
  BY DEF IInv, Ownership
<1> QED BY <1>1, Invariance, PTL
=============================================================================
