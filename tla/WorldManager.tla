---------------------------- MODULE WorldManager ----------------------------
(***************************************************************************)
(* The world manager (packages/worlds: manager.py) driven by concurrent    *)
(* clients of one event loop, over an environment adapter it does not      *)
(* trust.  A client runs one lifecycle coroutine at a time; a step of the  *)
(* model is what the coroutine does between two awaits.                    *)
(*                                                                         *)
(* The adapter is external.  Each awaited adapter call either answers,     *)
(* with any value of the right model, or fails: an exception, a reply of   *)
(* the wrong shape, the deadline of _bounded, a cancellation of the        *)
(* client, or a capability manifest that no longer matches the pin.  All   *)
(* failures take the same except branch, so one action stands for them.    *)
(***************************************************************************)
EXTENDS WorldStore

CONSTANTS Operations,   \* the lifecycle commands the clients issue
          Destinations, \* the phases they ask transition for
          MaxCalls      \* bound: the number of commands issued in a behaviour

ASSUME CallsAssumption == MaxCalls \in Nat /\ Destinations \subseteq Phases

ASSUME ArgumentAssumption == None \notin Targets \cup Labels \cup Phases

VARIABLES client,       \* the coroutine each client is running
          gate,         \* _world_gates: the client inside each world's gate
          calls,        \* commands issued so far
          unconfirmed   \* history: handles claimed whose destruction no adapter
                        \* call has confirmed

vars == <<nodes, order, pending, client, gate, calls, unconfirmed>>

Points == {"idle",        \* no command, or the last one has finished
           "waiting",     \* for the gate of a retained world
           "creating",    \* awaiting adapter.prepare or adapter.fork
           "capturing",   \* awaiting adapter.snapshot
           "restoring",   \* awaiting adapter.restore
           "destroying",  \* awaiting adapter.destroy for destroy
           "discarding",  \* awaiting adapter.destroy after a failed capture
           "unwinding"}   \* awaiting adapter.destroy for a reservation

Creations == {"prepare", "fork"}
Captures  == {"snapshot", "restore"}
Children  == {"fork", "create_ghost"}
Commands  == {"prepare", "fork", "create_ghost", "snapshot", "restore", "destroy",
              "transition"}

Args == Targets \cup Labels \cup Phases

Coroutine == [at     : Points,
              op     : Commands \cup {None},
              world  : WorldIds \cup {None},    \* the gated world
              child  : WorldIds \cup {None},    \* the reserved identity
              arg    : Args \cup {None},        \* target, label or destination
              wanted : Snapshots \cup {None},   \* the manifest to restore
              env    : Handles \cup {None},     \* the environment in hand
              seen   : Node \cup {None},        \* the node read inside the gate
              result : {"none", "returned", "raised", "conflict"}]

Idle(result) ==
  [at |-> "idle", op |-> None, world |-> None, child |-> None, arg |-> None,
   wanted |-> None, env |-> None, seen |-> None, result |-> result]

TypeOK ==
  /\ StoreTypeOK
  /\ client \in [Clients -> Coroutine]
  /\ gate \in [WorldIds -> Clients \cup {None}]
  /\ calls \in Nat
  /\ unconfirmed \in SUBSET Handles

Init ==
  /\ StoreInit
  /\ client = [c \in Clients |-> Idle("none")]
  /\ gate = [w \in WorldIds |-> None]
  /\ calls = 0
  /\ unconfirmed = {}

-----------------------------------------------------------------------------
(* Entering a command: everything before the first await.                  *)

At(c, point) == client[c].at = point

Finish(c, result) == client' = [client EXCEPT ![c] = Idle(result)]

Goto(c, point) == client' = [client EXCEPT ![c].at = point]

Start(c, op, point, w, child, arg, wanted) ==
  /\ At(c, "idle")
  /\ op \in Operations
  /\ calls < MaxCalls
  /\ calls' = calls + 1
  /\ client' = [client EXCEPT ![c] =
                 [at |-> point, op |-> op, world |-> w, child |-> child, arg |-> arg,
                  wanted |-> wanted, env |-> None, seen |-> None, result |-> "none"]]
  /\ UNCHANGED <<nodes, order, gate, unconfirmed>>

CallPrepare(c) ==
  \E w \in WorldIds, target \in Targets :
    /\ ReserveWorld(w, c)
    /\ Start(c, "prepare", "creating", None, w, target, None)

CallChild(c) ==
  \E op \in Children, parent, w \in WorldIds, label \in Labels :
    /\ nodes[parent] # None
    /\ ReserveWorld(w, c)
    /\ Start(c, op, "waiting", parent, w, label, None)

CallSnapshot(c) ==
  \E w \in WorldIds :
    /\ nodes[w] # None
    /\ Start(c, "snapshot", "waiting", w, None, None, None)
    /\ UNCHANGED pending

CallRestore(c) ==
  \E w \in WorldIds, s \in Snapshots :
    /\ nodes[w] # None
    /\ Start(c, "restore", "waiting", w, None, None, s)
    /\ UNCHANGED pending

CallDestroy(c) ==
  \E w \in WorldIds :
    /\ nodes[w] # None
    /\ Start(c, "destroy", "waiting", w, None, None, None)
    /\ UNCHANGED pending

CallTransition(c) ==
  \E w \in WorldIds, phase \in Destinations :
    /\ nodes[w] # None
    /\ Start(c, "transition", "waiting", w, None, phase, None)
    /\ UNCHANGED pending

-----------------------------------------------------------------------------
(* The gate of a world.  async with releases it on every exit.             *)

\* Mutant of GateFree: the command does not take the gate.
GateIgnored(c) == At(c, "waiting")

GateFree(c) == At(c, "waiting") /\ gate[client[c].world] = None

\* Mutant of ReleaseGate: an acquired gate is never released.
GateKept(c) == UNCHANGED gate

ReleaseGate(c) ==
  gate' = [w \in WorldIds |-> IF gate[w] = c THEN None ELSE gate[w]]

\* The coroutine passes the gate, reads the node and awaits at the point.
Hold(c, point) ==
  /\ gate' = [gate EXCEPT ![client[c].world] = c]
  /\ client' = [client EXCEPT ![c] =
                 [@ EXCEPT !.at = point,
                           !.seen = nodes[client[c].world],
                           !.env = IF client[c].op = "fork" THEN None
                                   ELSE nodes[client[c].world].environment]]

\* A command that ends before its first adapter call gives back its reservation,
\* if it has one, and nothing else.
TurnedAway(c) ==
  /\ Finish(c, "raised")
  /\ IF client[c].child = None THEN UNCHANGED pending ELSE ReleaseWorld(client[c].child)
  /\ UNCHANGED <<nodes, order, gate, calls, unconfirmed>>

\* The client is cancelled while it queues for the gate.
Cancelled(c) == At(c, "waiting") /\ TurnedAway(c)

\* The command's checks or _check_pin raise inside the gate.
Refused(c) == GateFree(c) /\ TurnedAway(c)

GhostOf(w, label) ==
  [parent |-> w, root |-> nodes[w].root, target |-> nodes[w].target, phase |-> "GHOST",
   fingerprint |-> nodes[w].fingerprint, lineage |-> Append(nodes[w].lineage, label),
   environment |-> None, snapshot |-> None, dedup |-> None, destroyed |-> FALSE,
   revision |-> 0]

CreateGhost(c) ==
  /\ GateFree(c)
  /\ client[c].op = "create_ghost"
  /\ Add(client[c].child, GhostOf(client[c].world, client[c].arg))
  /\ Finish(c, "returned")
  /\ UNCHANGED <<gate, calls, unconfirmed>>

EnterFork(c) ==
  LET parent == nodes[client[c].world] IN
    /\ GateFree(c)
    /\ client[c].op = "fork"
    /\ ~parent.destroyed
    /\ parent.snapshot # None
    /\ parent.phase \in ForkablePhases
    /\ Hold(c, "creating")
    /\ UNCHANGED <<nodes, order, pending, calls, unconfirmed>>

EnterSnapshot(c) ==
  LET n == nodes[client[c].world] IN
    /\ GateFree(c)
    /\ client[c].op = "snapshot"
    /\ ~n.destroyed
    /\ n.environment # None
    /\ Hold(c, "capturing")
    /\ UNCHANGED <<nodes, order, pending, calls, unconfirmed>>

\* _validate_snapshot, without the pins.
ValidSnapshot(s, target, env, root) ==
  /\ s.target = target
  /\ s.source = env.environment_id
  /\ s.root = root

EnterRestore(c) ==
  LET n == nodes[client[c].world] IN
    /\ GateFree(c)
    /\ client[c].op = "restore"
    /\ ~n.destroyed
    /\ n.environment # None
    /\ n.phase # "PRUNED"
    /\ ValidSnapshot(client[c].wanted, n.target, n.environment, n.root)
    /\ Hold(c, "restoring")
    /\ UNCHANGED <<nodes, order, pending, calls, unconfirmed>>

EnterDestroy(c) ==
  LET n == nodes[client[c].world] IN
    /\ GateFree(c)
    /\ client[c].op = "destroy"
    /\ ~n.destroyed
    /\ n.environment # None
    /\ Hold(c, "destroying")
    /\ UNCHANGED <<nodes, order, pending, calls, unconfirmed>>

\* A destroyed world is returned as it is; one without an environment needs no
\* adapter call.
DestroyBare(c) ==
  LET w == client[c].world IN
    /\ GateFree(c)
    /\ client[c].op = "destroy"
    /\ \/ nodes[w].destroyed /\ UNCHANGED storeVars
       \/ /\ ~nodes[w].destroyed
          /\ nodes[w].environment = None
          /\ Replace(w, [nodes[w] EXCEPT !.destroyed = TRUE])
    /\ Finish(c, "returned")
    /\ UNCHANGED <<gate, calls, unconfirmed>>

Transition(c) ==
  LET w == client[c].world IN
    /\ GateFree(c)
    /\ client[c].op = "transition"
    /\ ~nodes[w].destroyed
    /\ client[c].arg \in LegalTransitions[nodes[w].phase]
    /\ Replace(w, [nodes[w] EXCEPT !.phase = client[c].arg])
    /\ Finish(c, "returned")
    /\ UNCHANGED <<gate, calls, unconfirmed>>

-----------------------------------------------------------------------------
(* Creating a world: prepare and fork after the adapter has been called.   *)

\* The except branch of a creation that owns its environment: the gate is left
\* and, with it, everything that was read inside.
Unwind(c, h) ==
  /\ client' = [client EXCEPT ![c] = [@ EXCEPT !.at = "unwinding", !.env = h, !.world = None,
                                               !.arg = None, !.seen = None]]
  /\ ReleaseGate(c)

\* The returned handle is claimed; if its namespace overlaps, it is unwound.
EnvironmentReturned(c) ==
  LET w == client[c].child IN
    \E h \in Handles :
      /\ At(c, "creating")
      /\ ClaimEnvironment(w, h)
      /\ unconfirmed' = unconfirmed \cup {h}
      /\ \/ /\ NamespaceFree(w, h)
            /\ client' = [client EXCEPT ![c] = [@ EXCEPT !.at = "capturing", !.env = h]]
            /\ UNCHANGED gate
         \/ ~NamespaceFree(w, h) /\ Unwind(c, h)
      /\ UNCHANGED <<nodes, order, calls>>

\* Mutant of CreationFails: a handle that belongs to another world is cleaned up.
CreationCleansUp(c) ==
  /\ At(c, "creating")
  /\ \E h \in Handles : Unwind(c, h)
  /\ UNCHANGED <<nodes, order, pending, calls, unconfirmed>>

\* No handle, or one whose identity belongs to another world: it is left to
\* whoever owns it and only the reservation goes.
CreationFails(c) ==
  /\ At(c, "creating")
  /\ ReleaseWorld(client[c].child)
  /\ ReleaseGate(c)
  /\ Finish(c, "raised")
  /\ UNCHANGED <<nodes, order, calls, unconfirmed>>

\* The node prepare or fork builds from the first snapshot of its environment.
CreatedNode(c, s) ==
  LET k == client[c] IN
    [parent |-> k.world, root |-> s.root, target |-> s.target, phase |-> "ACTIVE",
     fingerprint |-> s.content,
     lineage |-> IF k.op = "fork" THEN Append(k.seen.lineage, k.arg) ELSE <<>>,
     environment |-> k.env, snapshot |-> s, dedup |-> None, destroyed |-> FALSE,
     revision |-> 0]

FirstSnapshotValid(c, s) ==
  LET k == client[c] IN
    IF k.op = "fork" THEN ValidSnapshot(s, k.seen.target, k.env, k.seen.root)
    ELSE ValidSnapshot(s, k.arg, k.env, s.root)

Capturing(c, ops) == At(c, "capturing") /\ client[c].op \in ops

Publish(c) ==
  \E s \in Snapshots :
    /\ Capturing(c, Creations)
    /\ FirstSnapshotValid(c, s)
    /\ Add(client[c].child, CreatedNode(c, s))
    /\ ReleaseGate(c)
    /\ Finish(c, "returned")
    /\ UNCHANGED <<calls, unconfirmed>>

\* A failed or invalid first snapshot, or a node the store refuses to add.
SetupFails(c) ==
  /\ Capturing(c, Creations)
  /\ Unwind(c, client[c].env)
  /\ UNCHANGED <<nodes, order, pending, calls, unconfirmed>>

\* _cleanup_reserved_or_raise: the identity is free again only once the
\* adapter has destroyed the environment; otherwise the entry stays.
Unwound(c) ==
  /\ At(c, "unwinding")
  /\ ReleaseWorld(client[c].child)
  /\ unconfirmed' = unconfirmed \ {client[c].env}
  /\ Finish(c, "raised")
  /\ UNCHANGED <<nodes, order, gate, calls>>

\* Mutant of Quarantine: the reservation is released although cleanup failed.
ReleasedAnyway(c) ==
  /\ At(c, "unwinding")
  /\ ReleaseWorld(client[c].child)
  /\ Finish(c, "raised")
  /\ UNCHANGED <<nodes, order, gate, calls, unconfirmed>>

Quarantine(c) ==
  /\ At(c, "unwinding")
  /\ Finish(c, "raised")
  /\ UNCHANGED <<nodes, order, pending, gate, calls, unconfirmed>>

-----------------------------------------------------------------------------
(* Commands on a retained environment: snapshot, restore and destroy.      *)

\* The commit of a node derived from the one read inside the gate.
Commit(c, n, result) ==
  /\ IF Replaceable(client[c].world, n)
     THEN Replace(client[c].world, n) /\ Finish(c, result)
     ELSE UNCHANGED storeVars /\ Finish(c, "conflict")
  /\ ReleaseGate(c)
  /\ UNCHANGED calls

Restored(c) ==
  /\ At(c, "restoring")
  /\ Goto(c, "capturing")
  /\ UNCHANGED <<nodes, order, pending, gate, calls, unconfirmed>>

Captured(c) ==
  LET k == client[c] IN
    \E s \in Snapshots :
      /\ Capturing(c, Captures)
      /\ ValidSnapshot(s, k.seen.target, k.env, k.seen.root)
      /\ k.op = "restore" => s.content = k.wanted.content
      /\ Commit(c, [k.seen EXCEPT !.snapshot = s, !.fingerprint = s.content], "returned")
      /\ UNCHANGED unconfirmed

\* The world is no longer trusted: its environment is to be destroyed.
CaptureFails(c) ==
  /\ At(c, "restoring") \/ Capturing(c, Captures)
  /\ Goto(c, "discarding")
  /\ UNCHANGED <<nodes, order, pending, gate, calls, unconfirmed>>

\* The node as it is written after its environment has been destroyed.
Buried(n) == [n EXCEPT !.destroyed = TRUE, !.environment = None]

Discarded(c) ==
  /\ At(c, "discarding")
  /\ Commit(c, Buried(client[c].seen), "raised")
  /\ unconfirmed' = unconfirmed \ {client[c].env}

DiscardFails(c) ==
  /\ At(c, "discarding")
  /\ Commit(c, [client[c].seen EXCEPT !.phase = "BLOCKED"], "raised")
  /\ UNCHANGED unconfirmed

Destroyed(c) ==
  /\ At(c, "destroying")
  /\ Commit(c, Buried(client[c].seen), "returned")
  /\ unconfirmed' = unconfirmed \ {client[c].env}

DestroyFails(c) ==
  /\ At(c, "destroying")
  /\ ReleaseGate(c)
  /\ Finish(c, "raised")
  /\ UNCHANGED <<nodes, order, pending, calls, unconfirmed>>

-----------------------------------------------------------------------------

Call(c) ==
  \/ CallPrepare(c)  \/ CallChild(c)   \/ CallSnapshot(c)
  \/ CallRestore(c)  \/ CallDestroy(c) \/ CallTransition(c)

Progress(c) ==
  \/ Refused(c)      \/ CreateGhost(c)   \/ EnterFork(c)    \/ EnterSnapshot(c)
  \/ EnterRestore(c) \/ EnterDestroy(c)  \/ DestroyBare(c)  \/ Transition(c)
  \/ EnvironmentReturned(c)               \/ CreationFails(c)
  \/ Publish(c)      \/ SetupFails(c)    \/ Unwound(c)      \/ Quarantine(c)
  \/ Restored(c)     \/ Captured(c)      \/ CaptureFails(c)
  \/ Discarded(c)    \/ DiscardFails(c)  \/ Destroyed(c)    \/ DestroyFails(c)

Step(c) == Progress(c) \/ Cancelled(c)

\* Every command has finished and no client issues a further one.
Quiescent ==
  /\ \A c \in Clients : At(c, "idle")
  /\ UNCHANGED vars

Next == (\E c \in Clients : Call(c) \/ Step(c)) \/ Quiescent

Spec == Init /\ [][Next]_vars

\* The event loop keeps running every ready coroutine and _bounded ends every
\* adapter call; nothing obliges a caller to cancel its command.
FairSpec == Spec /\ \A c \in Clients : WF_vars(Progress(c))

-----------------------------------------------------------------------------
(* Safety.                                                                 *)

\* No two worlds, published or reserved, hold environments with a common
\* identifier or opaque reference, whatever handles the adapter returns
\* (_claim_environment, README of packages/worlds).
ExclusiveOwnership ==
  \A v, w \in WorldIds :
    (v # w /\ Held(v) # None /\ Held(w) # None) => IdentityDisjoint(Held(v), Held(w))

\* No two published worlds share a component of their namespaces
\* (_validate_reserved_namespace, _assert_unique_live_environment).
NamespaceIsolation ==
  \A v, w \in WorldIds :
    (/\ v # w /\ nodes[v] # None /\ nodes[w] # None
     /\ nodes[v].environment # None /\ nodes[w].environment # None)
      => NamespaceDisjoint(nodes[v].environment, nodes[w].environment)

\* An environment the manager has claimed stays recorded, by a node or by a
\* reservation, until the adapter has confirmed its destruction
\* (_cleanup_reserved_or_raise and the BLOCKED branches of snapshot and restore).
NothingLost == \A h \in unconfirmed : \E w \in WorldIds : Held(w) = h

\* Environments are never shared and never forgotten, whatever handles the adapter
\* returns and however the commands interleave.
Ownership == ExclusiveOwnership /\ NamespaceIsolation /\ NothingLost

\* A client awaiting adapter.destroy destroys the environment of its own world,
\* and no second client is destroying that environment.
DestroyPoints == {"destroying", "discarding", "unwinding"}
Subject(c) == IF At(c, "unwinding") THEN client[c].child ELSE client[c].world
DestroysOnlyItsOwn ==
  \A c \in Clients :
    client[c].at \in DestroyPoints =>
      /\ client[c].env # None
      /\ Held(Subject(c)) = client[c].env
      /\ \A d \in Clients \ {c} : client[d].at \in DestroyPoints => client[d].env # client[c].env

\* The per-world gate makes the revision check redundant: between the read
\* inside the gate and the commit nobody replaces the node, so no command ever
\* ends with RevisionConflict, and only the deduplication pointer may differ.
NoStaleCommit ==
  \A c \in Clients :
    /\ client[c].result # "conflict"
    /\ client[c].seen # None =>
         nodes[client[c].world] = [client[c].seen EXCEPT !.dedup = nodes[client[c].world].dedup]

\* _rebuild_indexes leaves exactly one canonical live world for each key, and
\* every other live world with the key points to it.
DedupCoherent ==
  \A w \in WorldIds : nodes[w] # None =>
    /\ nodes[w].destroyed => nodes[w].dedup = None
    /\ nodes[w].dedup # None =>
         LET v == nodes[w].dedup IN
           /\ v # w /\ nodes[v] # None /\ ~nodes[v].destroyed /\ nodes[v].dedup = None
           /\ FingerprintKey(nodes[v]) = FingerprintKey(nodes[w])
    /\ ~nodes[w].destroyed =>
         Cardinality({v \in WorldIds : /\ nodes[v] # None
                                       /\ ~nodes[v].destroyed
                                       /\ nodes[v].dedup = None
                                       /\ FingerprintKey(nodes[v]) = FingerprintKey(nodes[w])}) = 1

\* The catalog is well formed, its deduplication pointers included
\* (_rebuild_indexes).
CatalogSound == TypeOK /\ DedupCoherent

\* A published world never loses its node, its identity or its environment, a
\* destroyed one stays destroyed, and every change but a recomputed
\* deduplication pointer raises the revision by one (_replace).
WorldHistory ==
  [][\A w \in WorldIds : nodes[w] # None =>
       LET n == nodes[w]  m == nodes'[w] IN
         /\ m # None
         /\ <<m.parent, m.root, m.target, m.lineage>> = <<n.parent, n.root, n.target, n.lineage>>
         /\ n.destroyed => m.destroyed
         /\ m.environment = n.environment \/ (m.destroyed /\ m.environment = None)
         /\ m = [n EXCEPT !.dedup = m.dedup] \/ m.revision = n.revision + 1]_vars

(* Liveness.                                                               *)

\* Every command ends: no gate is left locked and no wait is circular.
CommandsFinish == \A c \in Clients : ~At(c, "idle") ~> At(c, "idle")

(* A statement of the documentation the code does not keep.                *)

\* packages/worlds/README.md: a namespace-overlap loser is cleaned up "without
\* touching or blocking winner commits": an environment that has passed the
\* namespace check can be published.
WinnerCommits ==
  \A c \in Clients : \A s \in Snapshots :
    (Capturing(c, Creations) /\ FirstSnapshotValid(c, s) /\ Coherent(CreatedNode(c, s)))
      => Addable(client[c].child, CreatedNode(c, s))

=============================================================================
