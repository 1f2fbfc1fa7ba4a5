------------------------------ MODULE ComposeAdapter ------------------------------
(***************************************************************************)
(* The fixed Docker Compose adapter (adapters/environments/docker_compose/ *)
(* .../adapter.py): worlds as Compose projects, behind a registry and one  *)
(* asyncio.Lock per world.                                                 *)
(*                                                                         *)
(* Every operation is a route of docker commands.  The code between two    *)
(* commands runs at once, so a step here is one command and what the       *)
(* coroutine does when it returns; any command may fail, pass its deadline *)
(* or be cancelled, with some of its effect done.                          *)
(***************************************************************************)
EXTENDS Integers, Sequences, FiniteSets

CONSTANTS
  Clients,    \* coroutines that call the adapter
  Envs,       \* environment identities (_MAX_ISSUED_ENVIRONMENTS of them)
  Snaps,      \* snapshot identities (_MAX_ISSUED_SNAPSHOTS of them)
  Images,     \* what the fixed image tag may point to
  Markers,    \* the states a materialization may ask for
  Real,       \* the real-provider profile
  MaxStarts,  \* bound on operations
  MaxRetags,  \* bound on rebuilds of the image
  None

ASSUME ProfileAssumption == Real \in BOOLEAN
ASSUME BoundsAssumption  == MaxStarts \in Nat /\ MaxRetags \in Nat
ASSUME NoneAssumption    == None \notin Clients \cup Envs \cup Snaps \cup Images

VARIABLES
  tag,     \* the image the fixed tag points to
  live,    \* _live: the image each registered world is pinned to
  known,   \* the handles that were returned to a caller (history)
  snaps,   \* _snapshots
  issued,  \* _issued_environment_ids and _issued_snapshot_ids
  proj,    \* the Compose projects as docker has them
  lock,    \* operation_lock: its holder
  ops,     \* the operation of each client
  spent,   \* operations and rebuilds so far (bound)
  undone   \* projects whose compensating down failed (history)
vars == <<tag, live, known, snaps, issued, proj, lock, ops, spent, undone>>

\* A world starts from the baseline; "mixed" is what a write that broke off leaves.
Contents == {"baseline", "mixed"} \cup Markers

\* late: a write in the container that outlived the docker command it came from.
Gone == [st |-> "absent", image |-> None, content |-> "baseline", late |-> {}]

Route ==
  [prepare     |-> <<"version", "image", "up", "health">>,
   fork        |-> <<"version", "image", "up", "health", "import", "verify">>,
   snapshot    |-> <<"lock", "health", "export">>,
   restore     |-> <<"lock", "image", "down", "up", "health", "import", "verify">>,
   destroy     |-> IF Real THEN <<"lock", "down", "inventory">> ELSE <<"lock", "down">>,
   materialize |-> <<"lock", "health", "before", "mutate", "health", "after">>]

Idle == [op |-> "idle", n |-> 0, env |-> None, snap |-> None, image |-> None,
         marker |-> "baseline"]

Init == /\ tag \in Images
        /\ live = [e \in Envs |-> None] /\ known = {}
        /\ snaps = [s \in Snaps |-> None] /\ issued = {}
        /\ proj = [e \in Envs |-> Gone]
        /\ lock = [e \in Envs |-> None]
        /\ ops = [c \in Clients |-> Idle]
        /\ spent = [starts |-> 0, retags |-> 0] /\ undone = {}
-------------------------------------------------------------------------------
Running(o)  == o.op \in DOMAIN Route /\ o.n \in DOMAIN Route[o.op]
Undoing(o)  == o.op \in {"prepare", "fork", "restore"} /\ o.n = 0
Command(o)  == Route[o.op][o.n]

Final(o)    == o.n = Len(Route[o.op])
At(c, cmds) == Running(ops[c]) /\ Command(ops[c]) \in cmds
Registered(e) == live[e] # None

\* What a failing command has to clean up behind it.
Compensated(o) ==
  \/ o.op \in {"prepare", "fork"} /\ o.env # None
  \/ o.op = "restore" /\ Command(o) \in {"down", "up", "health", "import", "verify"}

\* The operation returned; an exception leaves the client Idle.
Returned == [Idle EXCEPT !.op = "returned"]

Released(c) == [e \in Envs |-> IF lock[e] = c THEN None ELSE lock[e]]

\* The command is done and so is the code up to the next one; o is the operation
\* as that code leaves it.
Proceed(c, o) ==
  IF Final(ops[c])
  THEN ops' = [ops EXCEPT ![c] = Returned] /\ lock' = Released(c)
  ELSE ops' = [ops EXCEPT ![c] = [o EXCEPT !.n = @ + 1]] /\ UNCHANGED lock

\* Mutant of Raise: a failed import leaves the child it was for.
RaiseWithoutUndo(c) ==
  /\ IF Compensated(ops[c]) /\ Command(ops[c]) \notin {"import", "verify"}
     THEN ops' = [ops EXCEPT ![c].n = 0] /\ UNCHANGED lock
     ELSE ops' = [ops EXCEPT ![c] = Idle] /\ lock' = Released(c)
  /\ live' = IF ops[c].op = "fork" /\ ops[c].env # None
             THEN [live EXCEPT ![ops[c].env] = None] ELSE live

\* Mutant of Raise: the lock outlives a failed operation.
RaiseHoldingLock(c) ==
  /\ ops' = [ops EXCEPT ![c] = Idle]
  /\ UNCHANGED <<live, lock>>

\* An exception: a fork is taken off the registry, then the project goes down.
Raise(c) ==
  /\ IF Compensated(ops[c])
     THEN ops' = [ops EXCEPT ![c].n = 0] /\ UNCHANGED lock
     ELSE ops' = [ops EXCEPT ![c] = Idle] /\ lock' = Released(c)
  /\ live' = IF ops[c].op = "fork" /\ ops[c].env # None
             THEN [live EXCEPT ![ops[c].env] = None] ELSE live
-------------------------------------------------------------------------------
(* A call *)

\* The checks before the first await; a failing one raises and changes nothing.
Start(c) ==
  /\ ~Running(ops[c]) /\ ~Undoing(ops[c])
  /\ spent.starts < MaxStarts
  /\ \E o \in [op : DOMAIN Route, n : {1}, env : known \cup {None},
               snap : Snaps \cup {None}, image : {None}, marker : Contents] :
       /\ o.op \in {"prepare", "fork"} <=> o.env = None
       /\ o.env # None => Registered(o.env)
       /\ o.op \in {"fork", "restore"} <=> o.snap # None
       /\ o.snap # None => snaps[o.snap] # None
       /\ IF o.op = "materialize" THEN Real /\ o.marker \in Markers
                                  ELSE o.marker = "baseline"
       /\ ops' = [ops EXCEPT ![c] = o]
  /\ spent' = [spent EXCEPT !.starts = @ + 1]
  /\ UNCHANGED <<tag, live, known, snaps, issued, proj, lock, undone>>

\* Mutant of Free: every call has a lock of its own.
FreeAlways(e) == TRUE

Free(e) == lock[e] = None

\* _require_same_live and the rest of what is checked with the lock held.
StillOwned(o) ==
  /\ Registered(o.env)
  /\ o.op = "snapshot" => Snaps \ issued # {}
  /\ o.op = "restore" =>
       snaps[o.snap].env = o.env /\ snaps[o.snap].image = live[o.env]

\* o with the lock, and the snapshot identity it was issued.
Granted(o, s) == [o EXCEPT !.n = 2, !.snap = s]

\* The lock is granted; destroy returns quietly when the world has gone.
Enter(c) ==
  LET o == ops[c]
  IN  /\ At(c, {"lock"}) /\ Free(o.env)
      /\ IF StillOwned(o)
         THEN /\ lock' = [lock EXCEPT ![o.env] = c]
              /\ \E s \in IF o.op = "snapshot" THEN Snaps \ issued ELSE {o.snap} :
                   /\ ops' = [ops EXCEPT ![c] = Granted(o, s)]
                   /\ issued' = IF o.op = "snapshot" THEN issued \cup {s} ELSE issued
         ELSE /\ ops' = [ops EXCEPT ![c] = Idle]
              /\ UNCHANGED <<lock, issued>>
      /\ UNCHANGED <<tag, live, known, snaps, proj, spent, undone>>
-------------------------------------------------------------------------------
(* The commands *)

\* _require_docker; _require_image, and the identity of a new world with it.
Inspect(c) ==
  LET o == ops[c]
      new == o.op \in {"prepare", "fork"} /\ Command(o) = "image"
      fits == IF o.op = "restore" THEN tag = live[o.env]
              ELSE o.op = "fork" => tag = snaps[o.snap].image
  IN  /\ At(c, {"version", "image"})
      /\ Command(o) = "image" => fits
      /\ \E e \in IF new THEN Envs \ issued ELSE {o.env} :
           /\ issued' = IF new THEN issued \cup {e} ELSE issued
           /\ Proceed(c, [o EXCEPT !.env = e,
                                   !.image = IF Command(o) = "image" THEN tag ELSE @])
      /\ UNCHANGED <<tag, live, known, snaps, proj, spent, undone>>

\* up: fresh containers of the tagged image, on whatever volumes there are.
Up(c) ==
  LET o == ops[c]
  IN  /\ At(c, {"up"})
      /\ \E x \in IF proj[o.env].st = "absent" THEN {"baseline"}
                  ELSE {"baseline", proj[o.env].content} :
           proj' = [proj EXCEPT ![o.env] =
                      [st |-> "up", image |-> tag, content |-> x, late |-> {}]]
      /\ Proceed(c, o)
      /\ UNCHANGED <<tag, live, known, snaps, issued, spent, undone>>

\* Mutant of Healthy: the image of the running container is not compared.
HealthyAnyImage(o) == proj[o.env].st = "up"

Healthy(o) ==
  /\ proj[o.env].st = "up"
  /\ proj[o.env].image = IF o.op \in {"prepare", "fork"} THEN o.image ELSE live[o.env]

\* The last step of _create_world registers the world; prepare returns it.
Health(c) ==
  LET o == ops[c]
      new == o.op \in {"prepare", "fork"}
  IN  /\ At(c, {"health"}) /\ Healthy(o)
      /\ live' = IF new THEN [live EXCEPT ![o.env] = o.image] ELSE live
      /\ known' = IF o.op = "prepare" THEN known \cup {o.env} ELSE known
      /\ Proceed(c, o)
      /\ UNCHANGED <<tag, snaps, issued, proj, spent, undone>>

\* import and mutate: the bridge in the container writes, and says that it did.
\* That a world which is no fork is refused after the write (adapter.py:357) is left
\* out: here such a call may succeed, or fail like any other.
Target(o) == IF o.op = "materialize" THEN o.marker ELSE snaps[o.snap].content

Write(c) ==
  LET o == ops[c]
  IN  /\ At(c, {"import", "mutate"}) /\ proj[o.env].st = "up"
      /\ \E x \in {Target(o), "mixed"} :
           proj' = [proj EXCEPT ![o.env].content = x]
      /\ Proceed(c, o)
      /\ UNCHANGED <<tag, live, known, snaps, issued, spent, undone>>

\* Mutant of Expected: an import is believed without reading it back.
ExpectedAfterMutate(o) ==
  CASE Command(o) = "before" -> {"baseline"}
    [] Command(o) = "after"  -> {o.marker}
    [] OTHER                 -> Contents

\* What an export must show: the archive that was imported, the baseline before a
\* materialization, its marker after it.
Expected(o) ==
  CASE Command(o) = "verify" -> {Target(o)}
    [] Command(o) = "before" -> {"baseline"}
    [] Command(o) = "after"  -> {o.marker}
    [] OTHER                 -> Contents

\* Every export; a snapshot stores it and a fork returns its world.
Export(c) ==
  LET o == ops[c]
      p == proj[o.env]
  IN  /\ At(c, {"export", "verify", "before", "after"})
      /\ p.st = "up" /\ p.content \in Expected(o)
      /\ snaps' = IF o.op # "snapshot" THEN snaps
                  ELSE [snaps EXCEPT ![o.snap] =
                          [env |-> o.env, image |-> live[o.env],
                           content |-> p.content, ran |-> p.image]]
      /\ known' = IF o.op = "fork" THEN known \cup {o.env} ELSE known
      /\ Proceed(c, o)
      /\ UNCHANGED <<tag, live, issued, proj, spent, undone>>

\* What a command leaves that did not succeed: all of its effect, some or none.
DownResults(e) ==
  IF proj[e].st = "absent" THEN {Gone}
  ELSE {Gone, [proj[e] EXCEPT !.st = "partial", !.late = {}]}

\* down returns; only the inventory of the real profile sees what is left.
Down(c) ==
  LET o == ops[c]
  IN  /\ At(c, {"down"})
      /\ \E p \in DownResults(o.env) : proj' = [proj EXCEPT ![o.env] = p]
      /\ live' = IF o.op = "destroy" /\ Final(o)
                 THEN [live EXCEPT ![o.env] = None] ELSE live
      /\ Proceed(c, o)
      /\ UNCHANGED <<tag, known, snaps, issued, spent, undone>>

Inventory(c) ==
  LET o == ops[c]
  IN  /\ At(c, {"inventory"}) /\ proj[o.env].st = "absent"
      /\ live' = [live EXCEPT ![o.env] = None]
      /\ Proceed(c, o)
      /\ UNCHANGED <<tag, known, snaps, issued, proj, spent, undone>>
-------------------------------------------------------------------------------
(* Failures *)

\* The projects a command may leave that failed, was killed or was cancelled.  A
\* killed client does not stop the bridge in the container.
Leaves(o) ==
  LET p == proj[o.env]
  IN  CASE Command(o) = "up" ->
             {p} \cup {[st |-> s, image |-> tag, content |-> "baseline", late |-> {}]
                         : s \in {"partial", "up"}}
        [] Command(o) = "down" -> {p} \cup DownResults(o.env)
        [] Command(o) \in {"import", "mutate"} /\ p.st = "up" ->
             {p} \cup {[p EXCEPT !.content = x] : x \in {"mixed", Target(o)}}
                 \cup {[p EXCEPT !.late = @ \cup {Target(o)}]}
        [] OTHER -> {p}

\* A command fails, answers what the code does not accept, passes its deadline or
\* the caller is cancelled while it runs.
Break(c) ==
  LET o == ops[c]
  IN  /\ Running(o)
      /\ IF o.env = None THEN UNCHANGED proj
         ELSE \E p \in Leaves(o) : proj' = [proj EXCEPT ![o.env] = p]
      /\ Raise(c)
      /\ UNCHANGED <<tag, known, snaps, issued, spent, undone>>

\* _compensating_down suppresses whatever goes wrong in it, its own deadline and
\* a second cancellation included.
Undo(c) ==
  LET e == ops[c].env
  IN  /\ Undoing(ops[c])
      /\ \E p \in {proj[e]} \cup DownResults(e) :
           /\ proj' = [proj EXCEPT ![e] = p]
           /\ undone' = IF p.st = "absent" THEN undone ELSE undone \cup {e}
      /\ ops' = [ops EXCEPT ![c] = Idle]
      /\ lock' = Released(c)
      /\ UNCHANGED <<tag, live, known, snaps, issued, spent>>

\* A write that was given up reaches the providers after all.
LateWrite ==
  \E e \in Envs : \E x \in proj[e].late :
    /\ proj[e].st = "up"
    /\ proj' = [proj EXCEPT ![e].content = x, ![e].late = @ \ {x}]
    /\ UNCHANGED <<tag, live, known, snaps, issued, lock, ops, spent, undone>>

\* Somebody rebuilds the image.
Retag ==
  /\ spent.retags < MaxRetags
  /\ \E i \in Images \ {tag} : tag' = i
  /\ spent' = [spent EXCEPT !.retags = @ + 1]
  /\ UNCHANGED <<live, known, snaps, issued, proj, lock, ops, undone>>

Works(c) == \/ Enter(c) \/ Inspect(c) \/ Up(c) \/ Health(c) \/ Write(c)
            \/ Export(c) \/ Down(c) \/ Inventory(c) \/ Break(c) \/ Undo(c)

Next == (\E c \in Clients : Start(c) \/ Works(c)) \/ LateWrite \/ Retag

Spec == Init /\ [][Next]_vars
\* Every command has a deadline, and so has the compensation; the wait for a lock
\* has none, but an asyncio.Lock is granted in order.
FairSpec == /\ Spec
            /\ \A c \in Clients : /\ WF_vars(~At(c, {"lock"}) /\ Works(c))
                                  /\ SF_vars(Enter(c))
-------------------------------------------------------------------------------
(* Properties. *)

Operation == [op : DOMAIN Route \cup {"idle", "returned"}, n : 0..7, env : Envs \cup {None},
              snap : Snaps \cup {None}, image : Images \cup {None},
              marker : Contents]

\* Types of the registry, the docker engine and the operations.
TypeOK ==
  /\ tag \in Images /\ live \in [Envs -> Images \cup {None}]
  /\ known \subseteq Envs /\ issued \subseteq Envs \cup Snaps
  /\ snaps \in [Snaps -> [env : Envs, image : Images, content : Contents,
                           ran : Images] \cup {None}]
  /\ proj \in [Envs -> [st : {"absent", "partial", "up"},
                         image : Images \cup {None}, content : Contents,
                         late : SUBSET Contents]]
  /\ lock \in [Envs -> Clients \cup {None}] /\ ops \in [Clients -> Operation]
  /\ spent \in [starts : 0..MaxStarts, retags : 0..MaxRetags]
  /\ undone \subseteq Envs

\* Past the wait for its lock an operation has its project to itself, a fork that
\* is still importing into an unpublished world included.
Working(c) == Undoing(ops[c]) \/ (Running(ops[c]) /\ ~At(c, {"lock"}))
Exclusive ==
  \A c, d \in Clients :
    c # d /\ Working(c) /\ Working(d) /\ ops[c].env = ops[d].env => ops[c].env = None

\* The locks of the registry do what they are for (operation_lock).
LocksSound == TypeOK /\ Exclusive

\* Nothing is left in docker that no one answers for: a project belongs to a
\* registered world, to an operation at work on it, or its clean-up failed.
Answered ==
  \A e \in Envs :
    proj[e].st # "absent" =>
      Registered(e) \/ e \in undone \/ \E c \in Clients : Working(c) /\ ops[c].env = e

\* The registry lets go of a world a caller knows only when its project is gone,
\* and no waiting operation brings it back.
HeldUntilGone ==
  Real => \A e \in known : ~Registered(e) => proj[e].st = "absent"

\* No project is forgotten, neither one that was never finished nor one that is
\* being taken down (_compensating_down, destroy).
Accounted == Answered /\ HeldUntilGone

\* An archive was exported by the very image its manifest is bound to, whatever
\* was rebuilt, restored or left half done since the world was created.
ArchivesPinned ==
  \A s \in Snaps : snaps[s] # None => snaps[s].ran = snaps[s].image

\* A fork or a restore that returns left the world in the state of the snapshot,
\* on its image; a materialization in the state that was asked for.
ExactOnReturn ==
  [][\A c \in Clients : Running(ops[c]) /\ ops'[c] = Returned =>
       LET o == ops[c]
       IN  /\ o.op \in {"fork", "restore"} =>
                /\ proj'[o.env].content = snaps[o.snap].content
                /\ proj'[o.env].image = snaps[o.snap].image
           /\ o.op = "materialize" => proj'[o.env].content = o.marker]_vars

\* Every operation ends: no lock is kept, no clean-up waits for ever.
OperationsEnd == \A c \in Clients : []<>~(Running(ops[c]) \/ Undoing(ops[c]))
===============================================================================
