----------------------------- MODULE WorldStore -----------------------------
(***************************************************************************)
(* The manager-owned catalog of worlds (packages/worlds: store.py and      *)
(* models.py).  The catalog keeps the published nodes in the order of      *)
(* their publication and the pending reservations: identities that are     *)
(* taken but not yet visible.  Every mutation is synchronous on one event  *)
(* loop, so each operator below is one indivisible change.                 *)
(*                                                                         *)
(* Data abstraction.  An environment handle is a record of the fields the  *)
(* store compares.  A snapshot manifest keeps its root, its source         *)
(* environment, its target and its content; the state fingerprint is       *)
(* derived from the content hashes by a collision-free digest, so the      *)
(* content stands for both.  The adapter pin and the capability manifest   *)
(* of every node are the manager's own, hence constant.                    *)
(***************************************************************************)
EXTENDS Naturals, Sequences, FiniteSets

CONSTANTS WorldIds,    \* world identifiers
          Clients,     \* coroutines that may own a reservation
          Handles,     \* environment handles an adapter can return
          Targets, Roots, Contents,
          Labels,      \* transition labels that make up a lineage
          None         \* Python's None

EnvIds == {h.environment_id : h \in Handles}

Snapshots == [root : Roots, source : EnvIds, target : Targets, content : Contents]

Phases == {"PROPOSED", "GHOST", "REPLAY", "SIMULATED", "MATERIALIZING", "ACTIVE",
           "BLOCKED", "FROZEN", "FRAGMENT_EXTRACTED", "COMPOSITION_CANDIDATE",
           "REPLAYED", "VERIFIED", "REJECTED", "PRUNED"}

LegalTransitions ==
  [PROPOSED              |-> {"GHOST"},
   GHOST                 |-> {"PRUNED", "REPLAY"},
   REPLAY                |-> {"PRUNED", "SIMULATED"},
   SIMULATED             |-> {"PRUNED", "MATERIALIZING"},
   MATERIALIZING         |-> {"ACTIVE", "BLOCKED"},
   ACTIVE                |-> {"FROZEN"},
   FROZEN                |-> {"FRAGMENT_EXTRACTED"},
   FRAGMENT_EXTRACTED    |-> {"COMPOSITION_CANDIDATE"},
   COMPOSITION_CANDIDATE |-> {"REPLAYED"},
   REPLAYED              |-> {"VERIFIED", "REJECTED"},
   BLOCKED               |-> {},
   PRUNED                |-> {},
   VERIFIED              |-> {},
   REJECTED              |-> {}]

ForkablePhases == {"ACTIVE", "FROZEN"}

Node == [parent      : WorldIds \cup {None},
         root        : Roots,
         target      : Targets,
         phase       : Phases,
         fingerprint : Contents,
         lineage     : Seq(Labels),
         environment : Handles \cup {None},
         snapshot    : Snapshots \cup {None},
         dedup       : WorldIds \cup {None},
         destroyed   : BOOLEAN,
         revision    : Nat]

Reservation == [owner : Clients, environment : Handles \cup {None}]

\* None is a value of its own: Python's None is no identifier, handle or model.
ASSUME NoneAssumption ==
  /\ None \notin WorldIds
  /\ None \notin Clients
  /\ None \notin Handles
  /\ None \notin Snapshots
  /\ None \notin Node
  /\ None \notin Reservation

VARIABLES nodes,    \* _nodes: the published node of each world, or None
          order,    \* the insertion order of the _nodes dictionary
          pending   \* _pending_worlds: the reservation of each world, or None

storeVars == <<nodes, order, pending>>

StoreTypeOK ==
  /\ nodes   \in [WorldIds -> Node \cup {None}]
  /\ order   \in Seq(WorldIds)
  /\ pending \in [WorldIds -> Reservation \cup {None}]

StoreInit ==
  /\ nodes   = [w \in WorldIds |-> None]
  /\ order   = <<>>
  /\ pending = [w \in WorldIds |-> None]

-----------------------------------------------------------------------------
(* Environment ownership.                                                  *)

\* The environment a world holds: its node's, or its reservation's.
Held(w) ==
  IF nodes[w] # None THEN nodes[w].environment
  ELSE IF pending[w] # None THEN pending[w].environment
  ELSE None

Holders(w) == {v \in WorldIds \ {w} : Held(v) # None}

IdentityDisjoint(a, b) ==
  /\ a.environment_id # b.environment_id
  /\ a.opaque_ref # b.opaque_ref

NamespaceDisjoint(a, b) == a.namespace \cap b.namespace = {}

\* What _claim_environment requires of a handle returned to world w.
Claimable(w, h) == \A v \in Holders(w) : IdentityDisjoint(h, Held(v))

\* What _validate_reserved_namespace requires of it.
NamespaceFree(w, h) == \A v \in Holders(w) : NamespaceDisjoint(h, Held(v))

-----------------------------------------------------------------------------
(* Reservations.                                                           *)

Available(w) == nodes[w] = None /\ pending[w] = None

ReserveWorld(w, c) ==
  /\ Available(w)
  /\ pending' = [pending EXCEPT ![w] = [owner |-> c, environment |-> None]]

ClaimEnvironment(w, h) ==
  /\ Claimable(w, h)
  /\ pending' = [pending EXCEPT ![w].environment = h]

ReleaseWorld(w) == pending' = [pending EXCEPT ![w] = None]

-----------------------------------------------------------------------------
(* Publication and replacement.                                            *)

\* The node validators of WorldNode (lineage_is_unique, coherent_live_shape).
Coherent(n) ==
  /\ \A i, j \in DOMAIN n.lineage : n.lineage[i] = n.lineage[j] => i = j
  /\ n.destroyed => n.environment = None
  /\ (n.phase = "ACTIVE" /\ ~n.destroyed) => (n.environment # None /\ n.snapshot # None)
  /\ (n.environment # None /\ n.snapshot # None)
       => n.snapshot.source = n.environment.environment_id
  /\ n.snapshot # None => /\ n.snapshot.target = n.target
                          /\ n.snapshot.root = n.root
                          /\ n.snapshot.content = n.fingerprint

ParentAgrees(n) ==
  \/ n.parent = None /\ n.lineage = <<>>
  \/ /\ n.parent # None
     /\ nodes[n.parent] # None
     /\ nodes[n.parent].root = n.root
     /\ nodes[n.parent].target = n.target
     /\ Len(n.lineage) = Len(nodes[n.parent].lineage) + 1
     /\ SubSeq(n.lineage, 1, Len(n.lineage) - 1) = nodes[n.parent].lineage

ParentLive(n) == n.parent # None => ~nodes[n.parent].destroyed

FingerprintKey(n) == <<n.root, n.target, n.fingerprint>>

\* The earliest published live world with the key of w, when it precedes w.
Canonical(ns, ord, w) ==
  LET twin(i) == /\ ns[ord[i]] # None
                 /\ ~ns[ord[i]].destroyed
                 /\ FingerprintKey(ns[ord[i]]) = FingerprintKey(ns[w])
      firsts == {i \in DOMAIN ord : twin(i) /\ \A j \in DOMAIN ord : twin(j) => i <= j}
      earlier == {ord[i] : i \in firsts} \ {w}
  IN  IF ns[w].destroyed \/ earlier = {} THEN None ELSE CHOOSE v \in earlier : TRUE

\* Mutant of RebuildIndexes: a pointer that has been computed is kept.
ExtendIndexes(ns, ord) ==
  [w \in WorldIds |-> IF ns[w] = None \/ ns[w].dedup # None THEN ns[w]
                      ELSE [ns[w] EXCEPT !.dedup = Canonical(ns, ord, w)]]

\* _rebuild_indexes: every node's deduplication pointer is computed afresh.
RebuildIndexes(ns, ord) ==
  [w \in WorldIds |-> IF ns[w] = None THEN None
                      ELSE [ns[w] EXCEPT !.dedup = Canonical(ns, ord, w)]]

Addable(w, n) ==
  /\ Coherent(n)
  /\ n.parent # w
  /\ ParentAgrees(n)
  /\ ParentLive(n)
  /\ n.environment = pending[w].environment
  /\ n.environment # None => /\ Claimable(w, n.environment)
                             /\ NamespaceFree(w, n.environment)

Add(w, n) ==
  /\ Addable(w, n)
  /\ order' = Append(order, w)
  /\ nodes' = RebuildIndexes([nodes EXCEPT ![w] = n], Append(order, w))
  /\ pending' = [pending EXCEPT ![w] = None]

Replaceable(w, n) ==
  LET existing == nodes[w] IN
    /\ Coherent(n)
    /\ existing.revision = n.revision
    /\ existing.parent = n.parent
    /\ existing.root = n.root
    /\ existing.target = n.target
    /\ existing.lineage = n.lineage
    /\ existing.destroyed => n.destroyed
    /\ existing.environment = None => n.environment = None
    /\ (existing.environment # None /\ n.environment = None) => n.destroyed
    /\ (existing.environment # None /\ n.environment # None)
         => existing.environment = n.environment
    /\ ParentAgrees(n)

\* Mutant of Replace: the revision is not raised.
ReplaceSilently(w, n) ==
  /\ Replaceable(w, n)
  /\ nodes' = RebuildIndexes([nodes EXCEPT ![w] = n], order)
  /\ UNCHANGED <<order, pending>>

Replace(w, n) ==
  /\ Replaceable(w, n)
  /\ nodes' = RebuildIndexes([nodes EXCEPT ![w] = [n EXCEPT !.revision = @ + 1]], order)
  /\ UNCHANGED <<order, pending>>
=============================================================================
