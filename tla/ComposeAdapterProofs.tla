------------------------- MODULE ComposeAdapterProofs -------------------------
(***************************************************************************)
(* Proofs about the Docker Compose adapter, for any number of clients,     *)
(* worlds, snapshots and images.  The argument is about ownership: past    *)
(* the wait for its lock an operation holds the lock of a registered world *)
(* (Holds), or works on an identity that no caller knows yet (Creates), so *)
(* that no two operations at work share a project.  What a health check    *)
(* saw of an image is therefore still true at the export or the return     *)
(* that relies on it, whatever the other operations, rebuilds and late     *)
(* writes do in between.                                                   *)
(***************************************************************************)
EXTENDS ComposeAdapter, TLAPS

Creator(o) == o.op \in {"prepare", "fork"}
Locker(o)  == o.op \in {"snapshot", "restore", "destroy", "materialize"}

\* An operation that makes a world: its identity is new, and no caller has it.
Creates(o) ==
  /\ o.n \in 0..(IF o.op = "fork" THEN 6 ELSE 4)
  /\ o.n \in {1, 2} <=> o.env = None
  /\ o.env # None => o.env \in issued \ known
  /\ o.n >= 3 => o.image \in Images
  /\ o.op = "fork" => o.snap \in Snaps /\ snaps[o.snap] # None
  /\ o.op = "fork" /\ o.n >= 3 => o.image = snaps[o.snap].image
  /\ o.op = "fork" /\ o.n >= 5 =>
       proj[o.env].image = o.image /\ Registered(o.env)

\* An operation on a world that a caller knows: past the wait the lock is its own
\* and the world is registered.
Holds(c, o) ==
  /\ o.env \in known
  /\ o.n \in 0..(CASE o.op = "snapshot" -> 3 [] o.op = "restore" -> 7
                   [] o.op = "destroy" -> 3 [] o.op = "materialize" -> 6)
  /\ o.n = 0 => o.op = "restore"
  /\ o.n # 1 => lock[o.env] = c /\ Registered(o.env)
  /\ o.op = "restore" =>
       /\ o.snap \in Snaps /\ snaps[o.snap] # None
       /\ o.n # 1 => snaps[o.snap].image = live[o.env]
       /\ o.n >= 6 => proj[o.env].image = live[o.env]
  /\ o.op = "snapshot" /\ o.n # 1 =>
       /\ o.snap \in Snaps \cap issued /\ snaps[o.snap] = None
       /\ o.n >= 3 => proj[o.env].image = live[o.env]

ClientOK(c) == /\ Creator(ops[c]) => Creates(ops[c])
               /\ Locker(ops[c]) => Holds(c, ops[c])

\* No two operations were given the same new identity.
Apart(c, d) ==
  /\ Creator(ops[c]) /\ Creator(ops[d]) /\ ops[c].env = ops[d].env => ops[c].env = None
  /\ /\ ops[c].op = "snapshot" /\ ops[c].n # 1
     /\ ops[d].op = "snapshot" /\ ops[d].n # 1
     => ops[c].snap # ops[d].snap

\* Archives have an identity that was issued, and never change.
Archived == /\ known \subseteq issued
            /\ \A s \in Snaps : snaps[s] # None => s \in issued
            /\ ArchivesPinned

IInv == /\ TypeOK
        /\ Archived
        /\ \A c \in Clients : ClientOK(c)
        /\ \A c, d \in Clients : c # d => Apart(c, d)
-------------------------------------------------------------------------------
(* The routes. *)

\* Where each command stands in its route.
LEMMA Positions ==
  ASSUME NEW o, Running(o)
  PROVE  /\ o.op = "prepare" =>
              \/ o.n = 1 /\ Command(o) = "version" /\ ~Final(o)
              \/ o.n = 2 /\ Command(o) = "image" /\ ~Final(o)
              \/ o.n = 3 /\ Command(o) = "up" /\ ~Final(o)
              \/ o.n = 4 /\ Command(o) = "health" /\ Final(o)
         /\ o.op = "fork" =>
              \/ o.n = 1 /\ Command(o) = "version" /\ ~Final(o)
              \/ o.n = 2 /\ Command(o) = "image" /\ ~Final(o)
              \/ o.n = 3 /\ Command(o) = "up" /\ ~Final(o)
              \/ o.n = 4 /\ Command(o) = "health" /\ ~Final(o)
              \/ o.n = 5 /\ Command(o) = "import" /\ ~Final(o)
              \/ o.n = 6 /\ Command(o) = "verify" /\ Final(o)
         /\ o.op = "snapshot" =>
              \/ o.n = 1 /\ Command(o) = "lock" /\ ~Final(o)
              \/ o.n = 2 /\ Command(o) = "health" /\ ~Final(o)
              \/ o.n = 3 /\ Command(o) = "export" /\ Final(o)
         /\ o.op = "restore" =>
              \/ o.n = 1 /\ Command(o) = "lock" /\ ~Final(o)
              \/ o.n = 2 /\ Command(o) = "image" /\ ~Final(o)
              \/ o.n = 3 /\ Command(o) = "down" /\ ~Final(o)
              \/ o.n = 4 /\ Command(o) = "up" /\ ~Final(o)
              \/ o.n = 5 /\ Command(o) = "health" /\ ~Final(o)
              \/ o.n = 6 /\ Command(o) = "import" /\ ~Final(o)
              \/ o.n = 7 /\ Command(o) = "verify" /\ Final(o)
         /\ o.op = "destroy" =>
              \/ o.n = 1 /\ Command(o) = "lock" /\ ~Final(o)
              \/ o.n = 2 /\ Command(o) = "down" /\ (Final(o) <=> ~Real)
              \/ o.n = 3 /\ Command(o) = "inventory" /\ Final(o) /\ Real
         /\ o.op = "materialize" =>
              \/ o.n = 1 /\ Command(o) = "lock" /\ ~Final(o)
              \/ o.n = 2 /\ Command(o) = "health" /\ ~Final(o)
              \/ o.n = 3 /\ Command(o) = "before" /\ ~Final(o)
              \/ o.n = 4 /\ Command(o) = "mutate" /\ ~Final(o)
              \/ o.n = 5 /\ Command(o) = "health" /\ ~Final(o)
              \/ o.n = 6 /\ Command(o) = "after" /\ Final(o)
         /\ Creator(o) \/ Locker(o)
<1>1. CASE o.op = "prepare"
  <2>1. Route["prepare"] = <<"version", "image", "up", "health">>
    BY DEF Route
  <2>2. o.n \in 1..4
    BY <1>1, <2>1 DEF Running
  <2> QED BY <1>1, <2>1, <2>2 DEF Command, Final, Creator
<1>2. CASE o.op = "fork"
  <2>1. Route["fork"] = <<"version", "image", "up", "health", "import", "verify">>
    BY DEF Route
  <2>2. o.n \in 1..6
    BY <1>2, <2>1 DEF Running
  <2> QED BY <1>2, <2>1, <2>2 DEF Command, Final, Creator
<1>3. CASE o.op = "snapshot"
  <2>1. Route["snapshot"] = <<"lock", "health", "export">>
    BY DEF Route
  <2>2. o.n \in 1..3
    BY <1>3, <2>1 DEF Running
  <2> QED BY <1>3, <2>1, <2>2 DEF Command, Final, Locker
<1>4. CASE o.op = "restore"
  <2>1. Route["restore"] =
          <<"lock", "image", "down", "up", "health", "import", "verify">>
    BY DEF Route
  <2>2. o.n \in 1..7
    BY <1>4, <2>1 DEF Running
  <2> QED BY <1>4, <2>1, <2>2 DEF Command, Final, Locker
<1>5. CASE o.op = "destroy" /\ Real
  <2>1. Route["destroy"] = <<"lock", "down", "inventory">>
    BY <1>5 DEF Route
  <2>2. o.n \in 1..3
    BY <1>5, <2>1 DEF Running
  <2> QED BY <1>5, <2>1, <2>2 DEF Command, Final, Locker
<1>6. CASE o.op = "destroy" /\ ~Real
  <2>1. Route["destroy"] = <<"lock", "down">>
    BY <1>6 DEF Route
  <2>2. o.n \in 1..2
    BY <1>6, <2>1 DEF Running
  <2> QED BY <1>6, <2>1, <2>2 DEF Command, Final, Locker
<1>7. CASE o.op = "materialize"
  <2>1. Route["materialize"] =
          <<"lock", "health", "before", "mutate", "health", "after">>
    BY DEF Route
  <2>2. o.n \in 1..6
    BY <1>7, <2>1 DEF Running
  <2> QED BY <1>7, <2>1, <2>2 DEF Command, Final, Locker
<1>8. o.op \in {"prepare", "fork", "snapshot", "restore", "destroy", "materialize"}
  BY DEF Running, Route
<1> QED BY <1>1, <1>2, <1>3, <1>4, <1>5, <1>6, <1>7, <1>8 DEF Creator, Locker
-------------------------------------------------------------------------------
(* Ownership. *)

\* An operation at work owns its world one way or the other.
LEMMA AtWork ==
  ASSUME IInv, NEW c \in Clients, Working(c)
  PROVE  \/ Creator(ops[c]) /\ Creates(ops[c])
         \/ Locker(ops[c]) /\ Holds(c, ops[c]) /\ ops[c].n # 1
<1>1. ClientOK(c)
  BY DEF IInv
<1>2. CASE Undoing(ops[c])
  BY <1>1, <1>2 DEF Undoing, Creator, Locker, ClientOK
<1>3. CASE Running(ops[c]) /\ ~At(c, {"lock"})
  <2>1. Locker(ops[c]) => ops[c].n # 1
    BY <1>3, Positions DEF At, Locker
  <2>2. Creator(ops[c]) \/ Locker(ops[c])
    BY <1>3, Positions
  <2> QED BY <1>1, <2>1, <2>2 DEF ClientOK
<1> QED BY <1>2, <1>3 DEF Working

\* No two operations at work share a project (operation_lock).
LEMMA Exclusivity == IInv => Exclusive
<1> SUFFICES ASSUME IInv, NEW c \in Clients, NEW d \in Clients, c # d,
                    Working(c), Working(d), ops[c].env = ops[d].env
             PROVE  ops[c].env = None
  BY DEF Exclusive
<1>1. /\ \/ Creator(ops[c]) /\ Creates(ops[c])
         \/ Locker(ops[c]) /\ Holds(c, ops[c]) /\ ops[c].n # 1
      /\ \/ Creator(ops[d]) /\ Creates(ops[d])
         \/ Locker(ops[d]) /\ Holds(d, ops[d]) /\ ops[d].n # 1
  BY AtWork
<1>2. Apart(c, d)
  BY DEF IInv
<1> QED BY <1>1, <1>2 DEF Apart, Creates, Holds

\* What a step of c may do to everyone else: it gives up only its own lock, and
\* touches only the world it works on and the archive it was issued.
Local(c) ==
  /\ \A d \in Clients : d # c => ops'[d] = ops[d]
  /\ \A e \in Envs : lock[e] # None /\ lock[e] # c => lock'[e] = lock[e]
  /\ \A e \in Envs : e # ops[c].env \/ ~Working(c) =>
       live'[e] = live[e] /\ proj'[e].image = proj[e].image
  /\ issued \subseteq issued' /\ known \subseteq known'
  /\ \A e \in known' : e \in known \/ (Creator(ops[c]) /\ e = ops[c].env)
  /\ \A s \in Snaps : snaps'[s] = snaps[s] \/ (/\ ops[c].op = "snapshot" /\ ops[c].n # 1
                                              /\ s = ops[c].snap)

LEMMA Others ==
  ASSUME IInv, NEW c \in Clients, Local(c), NEW d \in Clients, d # c
  PROVE  ClientOK(d)'
<1> PICK o : o = ops[d]
  OBVIOUS
<1>1. ops'[d] = o /\ ClientOK(d) /\ Apart(c, d) /\ ClientOK(c)
  BY DEF Local, IInv
<1>2. issued \subseteq issued' /\ known \subseteq known' /\ known \subseteq issued
  BY DEF Local, IInv, Archived
<1>3. \A s \in Snaps : snaps[s] # None => snaps'[s] = snaps[s]
  <2>1. ops[c].op = "snapshot" /\ ops[c].n # 1 => snaps[ops[c].snap] = None
    BY <1>1 DEF ClientOK, Locker, Holds
  <2> QED BY <2>1 DEF Local
<1>4. known \subseteq Envs
  BY DEF IInv, TypeOK
<1>5. ASSUME Creator(o) PROVE Creates(o)'
  <2>1. Creates(o)
    BY <1>1, <1>5 DEF ClientOK
  <2>2. o.env # None => o.env \notin known'
    <3>1. ASSUME o.env # None, o.env = ops[c].env PROVE ~Creator(ops[c])
      BY <1>1, <1>5, <3>1 DEF Apart
    <3> QED BY <2>1, <3>1 DEF Local, Creates
  <2>3. o.op = "fork" => snaps'[o.snap] = snaps[o.snap]
    BY <1>3, <2>1 DEF Creates
  <2>4. ASSUME o.op = "fork", o.n >= 5
        PROVE  proj'[o.env].image = proj[o.env].image /\ live'[o.env] = live[o.env]
    <3>1. o.env # None /\ o.env \notin known
      BY <2>1, <2>4 DEF Creates
    <3>2. ~(o.env = ops[c].env /\ Working(c))
      <4>1. ASSUME Working(c), o.env = ops[c].env PROVE FALSE
        <5>1. CASE Creator(ops[c])
          BY <1>1, <1>5, <3>1, <4>1, <5>1 DEF Apart
        <5>2. CASE Locker(ops[c]) /\ Holds(c, ops[c])
          BY <3>1, <4>1, <5>2 DEF Holds
        <5> QED BY <4>1, <5>1, <5>2, AtWork
      <4> QED BY <4>1
    <3>3. o.env \in Envs
      <4>1. o.env \in Envs \cup {None}
        BY DEF IInv, TypeOK, Operation
      <4> QED BY <3>1, <4>1
    <3> QED BY <3>2, <3>3 DEF Local
  <2> QED BY <1>2, <2>1, <2>2, <2>3, <2>4 DEF Creates, Registered
<1>6. ASSUME Locker(o) PROVE Holds(d, o)'
  <2>1. Holds(d, o)
    BY <1>1, <1>6 DEF ClientOK
  <2>2. o.env \in Envs /\ o.env \in known'
    BY <1>2, <1>4, <2>1 DEF Holds
  <2>3. ASSUME o.n # 1
        PROVE  /\ lock'[o.env] = d
               /\ live'[o.env] = live[o.env] /\ proj'[o.env].image = proj[o.env].image
    <3>1. lock[o.env] = d /\ lock[o.env] # None
      BY <2>1, <2>3, NoneAssumption DEF Holds
    <3>2. ~(o.env = ops[c].env /\ Working(c))
      <4>1. ASSUME Working(c), o.env = ops[c].env PROVE FALSE
        <5>1. CASE Creator(ops[c]) /\ Creates(ops[c])
          <6>1. o.env \in known /\ o.env # None
            BY <2>1, <1>4, NoneAssumption DEF Holds
          <6> QED BY <4>1, <5>1, <6>1 DEF Creates
        <5>2. CASE Locker(ops[c]) /\ Holds(c, ops[c]) /\ ops[c].n # 1
          BY <3>1, <4>1, <5>2 DEF Holds
        <5> QED BY <4>1, <5>1, <5>2, AtWork
      <4> QED BY <4>1
    <3> QED BY <2>2, <3>1, <3>2 DEF Local
  <2>4. o.op = "restore" => snaps'[o.snap] = snaps[o.snap]
    BY <1>3, <2>1 DEF Holds
  <2>5. ASSUME o.op = "snapshot", o.n # 1
        PROVE  snaps'[o.snap] = snaps[o.snap] /\ o.snap \in issued'
    <3>1. o.snap \in Snaps \cap issued
      BY <2>1, <2>5 DEF Holds
    <3>2. ops[c].op = "snapshot" /\ ops[c].n # 1 => ops[c].snap # o.snap
      BY <1>1, <2>5 DEF Apart
    <3> QED BY <1>2, <3>1, <3>2 DEF Local
  <2>6. o.n # 1 => lock'[o.env] = d /\ live'[o.env] # None
    BY <2>1, <2>3 DEF Holds, Registered
  <2>7. o.op = "restore" =>
          /\ o.snap \in Snaps /\ snaps'[o.snap] # None
          /\ o.n # 1 => snaps'[o.snap].image = live'[o.env]
          /\ o.n >= 6 => proj'[o.env].image = live'[o.env]
    <3>1. o.n \in Int
      BY DEF IInv, TypeOK, Operation
    <3>2. o.n >= 6 => o.n # 1
      BY <3>1
    <3> QED BY <2>1, <2>3, <2>4, <3>2 DEF Holds
  <2>8. o.op = "snapshot" /\ o.n # 1 =>
          /\ o.snap \in Snaps \cap issued' /\ snaps'[o.snap] = None
          /\ o.n >= 3 => proj'[o.env].image = live'[o.env]
    BY <2>1, <2>3, <2>5 DEF Holds
  <2> QED BY <2>1, <2>2, <2>6, <2>7, <2>8 DEF Holds, Registered
<1> QED BY <1>1, <1>5, <1>6 DEF ClientOK

\* What the identities of c's operation become.
Fresh(c) ==
  /\ Creator(ops'[c]) => \/ Creator(ops[c]) /\ ops'[c].env = ops[c].env
                         \/ ops'[c].env = None
                         \/ ops'[c].env \notin issued
  /\ ops'[c].op = "snapshot" /\ ops'[c].n # 1 =>
       \/ ops[c].op = "snapshot" /\ ops[c].n # 1 /\ ops'[c].snap = ops[c].snap
       \/ ops'[c].snap \notin issued

LEMMA StillApart ==
  ASSUME IInv, NEW c \in Clients, Local(c), Fresh(c)
  PROVE  \A x, y \in Clients : x # y => Apart(x, y)'
<1>1. \A x, y \in Clients : x # y => Apart(x, y)
  BY DEF IInv
<1>2. ASSUME NEW d \in Clients, d # c PROVE Apart(c, d)' /\ Apart(d, c)'
  <2>1. ops'[d] = ops[d] /\ ClientOK(d) /\ Apart(c, d)
    BY <1>1, <1>2 DEF Local, IInv
  <2>2. Creator(ops[d]) => ops[d].env = None \/ ops[d].env \in issued
    BY <2>1 DEF ClientOK, Creates
  <2>3. ops[d].op = "snapshot" /\ ops[d].n # 1 => ops[d].snap \in issued
    BY <2>1 DEF ClientOK, Holds, Locker
  <2> QED BY <2>1, <2>2, <2>3 DEF Apart, Fresh
<1>3. ASSUME NEW x \in Clients, NEW y \in Clients, x # y, x # c, y # c
      PROVE  Apart(x, y)'
  BY <1>1, <1>3 DEF Local, Apart
<1> QED BY <1>2, <1>3
-------------------------------------------------------------------------------
(* What the pieces of a step do to the operation of its client. *)

\* The step of c keeps everything in order: what remains to show of an action.
InOrder(c) == TypeOK' /\ Archived' /\ Local(c) /\ Fresh(c) /\ ClientOK(c)'

LEMMA Kept ==
  ASSUME IInv, NEW c \in Clients, InOrder(c)
  PROVE  IInv'
<1>1. \A d \in Clients : ClientOK(d)'
  BY Others DEF InOrder
<1>2. \A x, y \in Clients : x # y => Apart(x, y)'
  BY StillApart DEF InOrder
<1> QED BY <1>1, <1>2 DEF InOrder, IInv

\* The fields of an operation.
LEMMA Typed ==
  ASSUME TypeOK, NEW c \in Clients
  PROVE  /\ ops[c] \in Operation
         /\ ops[c].op \in DOMAIN Route \cup {"idle", "returned"} /\ ops[c].n \in 0..7
         /\ ops[c].env \in Envs \cup {None} /\ ops[c].snap \in Snaps \cup {None}
         /\ ops[c].image \in Images \cup {None} /\ ops[c].marker \in Contents
BY DEF TypeOK, Operation

\* o goes on as p.
Same(o, p) == /\ p.op = o.op /\ p.env = o.env /\ p.snap = o.snap
              /\ p.image = o.image /\ p.marker = o.marker

\* Another client's locks are left to it.
LockStep(c) == /\ lock' \in [Envs -> Clients \cup {None}]
               /\ \A e \in Envs : lock[e] # None /\ lock[e] # c => lock'[e] = lock[e]

LEMMA IdleOperation == Idle \in Operation /\ Returned \in Operation
                       /\ Returned.op = "returned" /\ Idle.op = "idle"
BY DEF Idle, Returned, Operation, Contents

LEMMA ReleasedLocks ==
  ASSUME TypeOK, NEW c \in Clients, lock' = Released(c)
  PROVE  LockStep(c)
BY DEF TypeOK, Released, LockStep

\* The code after a command that succeeded.
LEMMA Proceeded ==
  ASSUME TypeOK, NEW c \in Clients, Running(ops[c]),
         NEW o \in Operation, o.op = ops[c].op, o.n = ops[c].n, Proceed(c, o)
  PROVE  /\ \A d \in Clients : d # c => ops'[d] = ops[d]
         /\ ops' \in [Clients -> Operation] /\ LockStep(c)
         /\ \/ Final(ops[c]) /\ ops'[c] = Returned
            \/ /\ ~Final(ops[c]) /\ Same(o, ops'[c]) /\ ops'[c].n = ops[c].n + 1
               /\ lock' = lock
<1>1. ops \in [Clients -> Operation] /\ lock \in [Envs -> Clients \cup {None}]
  BY DEF TypeOK
<1>2. CASE Final(ops[c])
  <2>1. ops' = [ops EXCEPT ![c] = Returned] /\ lock' = Released(c)
    BY <1>2 DEF Proceed
  <2> QED BY <1>1, <1>2, <2>1, IdleOperation, ReleasedLocks
<1>3. CASE ~Final(ops[c])
  <2>1. o.n + 1 \in 0..7
    BY <1>3, Positions DEF Creator, Locker
  <2> PICK p : p = [o EXCEPT !.n = o.n + 1]
    OBVIOUS
  <2>2. p \in Operation /\ Same(o, p) /\ p.n = o.n + 1
    BY <2>1 DEF Operation, Same
  <2>3. ops' = [ops EXCEPT ![c] = p] /\ lock' = lock
    BY <1>3 DEF Proceed
  <2> QED BY <1>1, <1>3, <2>2, <2>3 DEF LockStep
<1> QED BY <1>2, <1>3

\* The code after a command that failed.
LEMMA Raised ==
  ASSUME TypeOK, NEW c \in Clients, Raise(c)
  PROVE  /\ \A d \in Clients : d # c => ops'[d] = ops[d]
         /\ ops' \in [Clients -> Operation] /\ LockStep(c)
         /\ \/ ~Compensated(ops[c]) /\ ops'[c] = Idle
            \/ /\ Compensated(ops[c]) /\ Same(ops[c], ops'[c]) /\ ops'[c].n = 0
               /\ lock' = lock
<1>1. ops \in [Clients -> Operation] /\ lock \in [Envs -> Clients \cup {None}]
  BY DEF TypeOK
<1>2. CASE ~Compensated(ops[c])
  <2>1. ops' = [ops EXCEPT ![c] = Idle] /\ lock' = Released(c)
    BY <1>2 DEF Raise
  <2> QED BY <1>1, <1>2, <2>1, IdleOperation, ReleasedLocks
<1>3. CASE Compensated(ops[c])
  <2> PICK p : p = [ops[c] EXCEPT !.n = 0]
    OBVIOUS
  <2>2. p \in Operation /\ Same(ops[c], p) /\ p.n = 0
    BY Typed DEF Operation, Same
  <2>3. ops' = [ops EXCEPT ![c] = p] /\ lock' = lock
    BY <1>3 DEF Raise
  <2> QED BY <1>1, <1>3, <2>2, <2>3 DEF LockStep
<1> QED BY <1>2, <1>3

\* An operation that returned or raised asks nothing more.
LEMMA Over ==
  ASSUME NEW c \in Clients, ops'[c] = Idle \/ ops'[c] = Returned
  PROVE  ClientOK(c)' /\ Fresh(c)
BY IdleOperation DEF ClientOK, Fresh, Creator, Locker
-------------------------------------------------------------------------------
(* The invariant. *)

LEMMA InvInit == Init => IInv
<1> SUFFICES ASSUME Init PROVE IInv
  OBVIOUS
<1>1. \A c \in Clients : ops[c] = Idle
  BY DEF Init
<1>2. TypeOK
  <2>1. proj \in [Envs -> [st : {"absent", "partial", "up"}, image : Images \cup {None},
                           content : Contents, late : SUBSET Contents]]
    BY DEF Init, Gone, Contents
  <2>2. ops \in [Clients -> Operation]
    BY IdleOperation DEF Init
  <2>3. spent \in [starts : 0..MaxStarts, retags : 0..MaxRetags]
    BY BoundsAssumption DEF Init
  <2> QED BY <2>1, <2>2, <2>3 DEF Init, TypeOK
<1>3. Archived
  BY DEF Init, Archived, ArchivesPinned
<1>4. ASSUME NEW c \in Clients PROVE ~Creator(ops[c]) /\ ~Locker(ops[c])
  BY <1>1, IdleOperation DEF Creator, Locker
<1> QED BY <1>2, <1>3, <1>4 DEF IInv, ClientOK, Apart, Locker

LEMMA StartInOrder == ASSUME IInv, NEW c \in Clients, Start(c) PROVE InOrder(c)
<1> PICK o \in [op : DOMAIN Route, n : {1}, env : known \cup {None},
                snap : Snaps \cup {None}, image : {None}, marker : Contents] :
      /\ o.op \in {"prepare", "fork"} <=> o.env = None
      /\ o.op \in {"fork", "restore"} <=> o.snap # None
      /\ o.snap # None => snaps[o.snap] # None
      /\ ops' = [ops EXCEPT ![c] = o]
  BY DEF Start
<1>1. TypeOK /\ ops \in [Clients -> Operation] /\ known \subseteq Envs
  BY DEF IInv, TypeOK
<1>2. o \in Operation /\ o.n = 1 /\ o.env \in known \cup {None} /\ o.snap \in Snaps \cup {None}
  BY <1>1 DEF Operation
<1>3. ops'[c] = o /\ (\A d \in Clients : d # c => ops'[d] = ops[d])
      /\ ops' \in [Clients -> Operation]
  BY <1>1, <1>2
<1>4. UNCHANGED <<tag, live, known, snaps, issued, proj, lock, undone>>
  BY DEF Start
<1>5. spent' \in [starts : 0..MaxStarts, retags : 0..MaxRetags]
  BY <1>1, BoundsAssumption DEF Start, TypeOK
<1>6. TypeOK'
  BY <1>1, <1>3, <1>4, <1>5 DEF TypeOK
<1>7. Local(c)
  BY <1>3, <1>4 DEF Local
<1>8. Fresh(c)
  BY <1>2, <1>3 DEF Fresh, Creator
<1>9. ClientOK(c)'
  BY <1>2, <1>3, <1>4 DEF ClientOK, Creates, Holds, Creator, Locker
<1>10. Archived'
  BY <1>4 DEF IInv, Archived, ArchivesPinned
<1> QED BY <1>6, <1>7, <1>8, <1>9, <1>10 DEF InOrder

\* The operation that was granted its lock.
LEMMA GrantedOperation ==
  ASSUME NEW o \in Operation, NEW s \in Snaps \cup {None}
  PROVE  /\ Granted(o, s) \in Operation /\ Granted(o, s).op = o.op
         /\ Granted(o, s).env = o.env /\ Granted(o, s).n = 2 /\ Granted(o, s).snap = s
<1> PICK q : q = Granted(o, s)
  OBVIOUS
<1> DEFINE Ops == DOMAIN Route \cup {"idle", "returned"}
           Worlds == Envs \cup {None}
           Archives == Snaps \cup {None}
           Tags == Images \cup {None}
<1>1. Operation = [op : Ops, n : 0..7, env : Worlds, snap : Archives, image : Tags,
                   marker : Contents]
  BY DEF Operation
<1>2. 2 \in 0..7
  OBVIOUS
<1> HIDE DEF Ops, Worlds, Archives, Tags
<1>3. s \in Archives
  BY DEF Archives
<1>4. q \in Operation
  BY <1>1, <1>2, <1>3 DEF Granted
<1>5. q.op = o.op /\ q.env = o.env /\ q.n = 2 /\ q.snap = s
  BY <1>1 DEF Granted
<1> QED BY <1>4, <1>5

LEMMA EnterInOrder == ASSUME IInv, NEW c \in Clients, Enter(c) PROVE InOrder(c)
<1> PICK o : o = ops[c]
  OBVIOUS
<1>1. TypeOK /\ Archived /\ ClientOK(c) /\ o \in Operation
  BY Typed DEF IInv
<1>2. Running(o) /\ Command(o) = "lock" /\ Free(o.env)
  BY DEF Enter, At
<1>3. Locker(o) /\ o.n = 1
  BY <1>2, Positions DEF Creator, Locker
<1>4. Holds(c, o) /\ o.env \in Envs /\ o.env \in known /\ lock[o.env] = None
  BY <1>1, <1>2, <1>3 DEF ClientOK, Holds, TypeOK, Free
<1>5. UNCHANGED <<tag, live, known, snaps, proj, spent, undone>>
  BY DEF Enter
<1>6. ops \in [Clients -> Operation] /\ lock \in [Envs -> Clients \cup {None}]
  BY <1>1 DEF TypeOK
<1>7. CASE StillOwned(o)
  <2> PICK s \in IF o.op = "snapshot" THEN Snaps \ issued ELSE {o.snap} :
        /\ ops' = [ops EXCEPT ![c] = Granted(o, s)]
        /\ issued' = IF o.op = "snapshot" THEN issued \cup {s} ELSE issued
    BY <1>7 DEF Enter
  <2> PICK q : q = Granted(o, s)
    OBVIOUS
  <2>1. lock' = [lock EXCEPT ![o.env] = c]
    BY <1>7 DEF Enter
  <2>13. s \in Snaps \cup {None}
    BY <1>1, Typed
  <2>2. q \in Operation /\ q.op = o.op /\ q.env = o.env /\ q.n = 2 /\ q.snap = s
    BY <1>1, <2>13, GrantedOperation
  <2>3. ops' = [ops EXCEPT ![c] = q]
    OBVIOUS
  <2>4. ops'[c] = q /\ (\A d \in Clients : d # c => ops'[d] = ops[d])
        /\ ops' \in [Clients -> Operation]
    BY <1>6, <2>2, <2>3
  <2>5. issued \subseteq issued' /\ issued' \subseteq Envs \cup Snaps
    BY <1>1 DEF TypeOK
  <2>6. LockStep(c) /\ lock'[o.env] = c
    BY <1>4, <1>6, <2>1 DEF LockStep
  <2>7. TypeOK'
    BY <1>1, <1>5, <2>4, <2>5, <2>6 DEF TypeOK, LockStep
  <2>8. Local(c)
    BY <1>5, <2>4, <2>5, <2>6 DEF Local, LockStep
  <2>9. Fresh(c)
    BY <1>3, <2>2, <2>4 DEF Fresh, Creator, Locker
  <2>10. Holds(c, q)'
    <3>1. q.op = "restore" => /\ s = o.snap /\ o.snap \in Snaps /\ snaps[o.snap] # None
                              /\ snaps[o.snap].image = live[o.env]
      BY <1>4, <1>7, <2>2 DEF Holds, StillOwned
    <3>2. q.op = "snapshot" => s \in Snaps \cap issued' /\ snaps[s] = None
      BY <1>1, <2>2 DEF Archived
    <3>3. Registered(o.env) /\ o.env \in known
      BY <1>4, <1>7 DEF StillOwned
    <3>4. q.op \in {"snapshot", "restore", "destroy", "materialize"}
      BY <1>3, <2>2 DEF Locker
    <3> QED BY <1>5, <2>2, <2>6, <3>1, <3>2, <3>3, <3>4 DEF Holds, Registered
  <2>11. ClientOK(c)'
    BY <1>3, <2>2, <2>4, <2>10 DEF ClientOK, Creator, Locker
  <2>12. Archived'
    BY <1>1, <1>5, <2>5 DEF Archived, ArchivesPinned
  <2> QED BY <2>7, <2>8, <2>9, <2>11, <2>12 DEF InOrder
<1>8. CASE ~StillOwned(o)
  <2>1. ops' = [ops EXCEPT ![c] = Idle] /\ UNCHANGED <<lock, issued>>
    BY <1>8 DEF Enter
  <2>2. ops'[c] = Idle /\ (\A d \in Clients : d # c => ops'[d] = ops[d])
        /\ ops' \in [Clients -> Operation]
    BY <1>6, <2>1, IdleOperation
  <2>3. TypeOK'
    BY <1>1, <1>5, <2>1, <2>2 DEF TypeOK
  <2>4. Local(c)
    BY <1>5, <2>1, <2>2 DEF Local
  <2>5. Archived'
    BY <1>1, <1>5, <2>1 DEF Archived, ArchivesPinned
  <2> QED BY <2>2, <2>3, <2>4, <2>5, Over DEF InOrder
<1> QED BY <1>7, <1>8

LEMMA InspectInOrder == ASSUME IInv, NEW c \in Clients, Inspect(c) PROVE InOrder(c)
<1> PICK o : o = ops[c]
  OBVIOUS
<1> PICK new \in BOOLEAN : new = (Creator(o) /\ Command(o) = "image")
  OBVIOUS
<1>1. TypeOK /\ Archived /\ ClientOK(c) /\ o \in Operation
  BY Typed DEF IInv
<1>2. Running(o) /\ Command(o) \in {"version", "image"}
  BY DEF Inspect, At
<1> PICK e \in IF new THEN Envs \ issued ELSE {o.env} :
      /\ issued' = IF new THEN issued \cup {e} ELSE issued
      /\ Proceed(c, [o EXCEPT !.env = e,
                              !.image = IF Command(o) = "image" THEN tag ELSE @])
  BY DEF Inspect, Creator
<1> PICK p : p = [o EXCEPT !.env = e, !.image = IF Command(o) = "image" THEN tag ELSE @]
  OBVIOUS
<1>3. UNCHANGED <<tag, live, known, snaps, proj, spent, undone>>
  BY DEF Inspect
<1>4. e \in Envs \cup {None} /\ (new => e \in Envs \ issued) /\ (~new => e = o.env)
  BY <1>1, Typed
<1>5. tag \in Images
  BY <1>1 DEF TypeOK
<1>6. /\ p \in Operation /\ p.op = o.op /\ p.n = o.n /\ p.env = e /\ p.snap = o.snap
      /\ Command(o) = "image" => p.image = tag
  BY <1>1, <1>4, <1>5 DEF Operation
<1>7. /\ \A d \in Clients : d # c => ops'[d] = ops[d]
      /\ ops' \in [Clients -> Operation] /\ LockStep(c)
      /\ \/ Final(o) /\ ops'[c] = Returned
         \/ /\ ~Final(o) /\ Same(p, ops'[c]) /\ ops'[c].n = o.n + 1
            /\ lock' = lock
  BY <1>1, <1>2, <1>6, Proceeded
<1>8. issued \subseteq issued' /\ issued' \subseteq Envs \cup Snaps
  BY <1>1, <1>4 DEF TypeOK
<1>9. TypeOK'
  BY <1>1, <1>3, <1>7, <1>8 DEF TypeOK, LockStep
<1>10. Local(c)
  BY <1>3, <1>7, <1>8 DEF Local, LockStep
<1>11. Archived'
  BY <1>1, <1>3, <1>8 DEF Archived, ArchivesPinned
<1>12. ~Final(o)
  BY <1>2, Positions DEF Creator, Locker
<1> PICK q : q = ops'[c]
  OBVIOUS
<1>13. q.op = o.op /\ q.env = e /\ q.snap = o.snap /\ q.n = o.n + 1 /\ q.image = p.image
       /\ lock' = lock
  BY <1>6, <1>7, <1>12 DEF Same
<1>14. Fresh(c)
  <2>1. Creator(q) => q.env = o.env \/ q.env \notin issued
    BY <1>4, <1>13
  <2>2. q.op # "snapshot"
    BY <1>2, <1>13, Positions
  <2> QED BY <1>13, <2>1, <2>2 DEF Fresh, Creator
<1>15. ASSUME Creator(o) PROVE Creates(q)'
  <2>1. Creates(o)
    BY <1>1, <1>15 DEF ClientOK
  <2>2. \/ o.n = 1 /\ Command(o) = "version"
        \/ o.n = 2 /\ Command(o) = "image"
    BY <1>2, <1>15, Positions DEF Creator
  <2>3. new <=> o.n = 2
    <3>1. Command(o) = "image" <=> o.n = 2
      BY <2>2
    <3> QED BY <1>15, <3>1, Zenon
  <2>4. o.env = None
    BY <2>1, <2>2 DEF Creates
  <2>5. q.env = None <=> q.n \in {1, 2}
    BY <1>4, <1>13, <2>2, <2>3, <2>4, NoneAssumption
  <2>6. q.env # None => q.env \in issued' \ known'
    BY <1>1, <1>3, <1>4, <1>13, <2>3, <2>4 DEF Archived
  <2>7. q.op = "fork" /\ q.n >= 3 => q.image = snaps[q.snap].image
    <3>1. ASSUME o.op = "fork", o.n = 2 PROVE tag = snaps[o.snap].image
      BY <2>2, <3>1 DEF Inspect
    <3> QED BY <1>6, <1>13, <2>2, <3>1
  <2>8. q.n >= 3 => q.image \in Images
    BY <1>5, <1>6, <1>13, <2>2
  <2> QED BY <1>3, <1>13, <1>15, <2>1, <2>2, <2>5, <2>6, <2>7, <2>8 DEF Creates, Creator
<1>16. ASSUME Locker(o) PROVE Holds(c, q)'
  <2>1. Holds(c, o)
    BY <1>1, <1>16 DEF ClientOK
  <2>2. o.op = "restore" /\ o.n = 2
    BY <1>2, <1>16, Positions DEF Locker
  <2>3. e = o.env
    BY <1>4, <1>16 DEF Creator, Locker
  <2> QED BY <1>3, <1>13, <2>1, <2>2, <2>3 DEF Holds, Registered
<1>17. ClientOK(c)'
  BY <1>13, <1>15, <1>16 DEF ClientOK, Creator, Locker
<1> QED BY <1>9, <1>10, <1>11, <1>14, <1>17 DEF InOrder
-------------------------------------------------------------------------------
(* The commands of an operation at work. *)

\* What a command may touch: its own project and registration, and the archive
\* identity its snapshot was issued.
OwnOnly(c) ==
  /\ issued' = issued
  /\ \A e \in Envs : e # ops[c].env => live'[e] = live[e] /\ proj'[e].image = proj[e].image
  /\ known \subseteq known' /\ known' \subseteq Envs
  /\ \A e \in known' : e \in known \/ (Creator(ops[c]) /\ e = ops[c].env)
  /\ \A s \in Snaps : snaps'[s] = snaps[s] \/ (/\ ops[c].op = "snapshot" /\ ops[c].n # 1
                                              /\ s = ops[c].snap)

\* A command that succeeded goes on with the next one or returns.
LEMMA Progress ==
  ASSUME IInv, NEW c \in Clients, Running(ops[c]), Command(ops[c]) # "lock",
         Proceed(c, ops[c]), OwnOnly(c)
  PROVE  /\ Local(c) /\ Fresh(c) /\ Working(c)
         /\ ops' \in [Clients -> Operation] /\ lock' \in [Envs -> Clients \cup {None}]
         /\ \/ Final(ops[c]) /\ ops'[c] = Returned
            \/ /\ ~Final(ops[c]) /\ Same(ops[c], ops'[c]) /\ ops'[c].n = ops[c].n + 1
               /\ lock' = lock
<1>1. TypeOK /\ ops[c] \in Operation
  BY Typed DEF IInv
<1>2. /\ \A d \in Clients : d # c => ops'[d] = ops[d]
      /\ ops' \in [Clients -> Operation] /\ LockStep(c)
      /\ \/ Final(ops[c]) /\ ops'[c] = Returned
         \/ /\ ~Final(ops[c]) /\ Same(ops[c], ops'[c]) /\ ops'[c].n = ops[c].n + 1
            /\ lock' = lock
  BY <1>1, Proceeded
<1>3. Working(c)
  BY DEF Working, At
<1>4. Local(c)
  BY <1>2, <1>3 DEF Local, LockStep, OwnOnly
<1>5. Fresh(c)
  <2>1. ops[c].op = "snapshot" => ops[c].n # 1
    BY Positions
  <2> QED BY <1>2, <2>1, IdleOperation DEF Fresh, Same, Creator
<1> QED BY <1>2, <1>3, <1>4, <1>5 DEF LockStep

LEMMA UpInOrder == ASSUME IInv, NEW c \in Clients, Up(c) PROVE InOrder(c)
<1> PICK o : o = ops[c]
  OBVIOUS
<1>1. TypeOK /\ Archived /\ ClientOK(c) /\ o \in Operation
  BY Typed DEF IInv
<1>2. Running(o) /\ Command(o) = "up" /\ Proceed(c, o)
  BY DEF Up, At
<1>3. \/ o.op = "prepare" /\ o.n = 3
      \/ o.op = "fork" /\ o.n = 3
      \/ o.op = "restore" /\ o.n = 4
  BY <1>2, Positions DEF Creator, Locker
<1>4. o.env \in Envs
  BY <1>1, <1>3, Typed DEF ClientOK, Creates, Holds, Creator, Locker, TypeOK
<1>5. UNCHANGED <<tag, live, known, snaps, issued, spent, undone>>
  BY DEF Up
<1> PICK x \in IF proj[o.env].st = "absent" THEN {"baseline"}
               ELSE {"baseline", proj[o.env].content} :
      proj' = [proj EXCEPT ![o.env] = [st |-> "up", image |-> tag, content |-> x, late |-> {}]]
  BY DEF Up
<1>6. OwnOnly(c)
  BY <1>1, <1>4, <1>5 DEF OwnOnly, TypeOK
<1>7. /\ Local(c) /\ Fresh(c)
      /\ ops' \in [Clients -> Operation] /\ lock' \in [Envs -> Clients \cup {None}]
      /\ \/ Final(o) /\ ops'[c] = Returned
         \/ ~Final(o) /\ Same(o, ops'[c]) /\ ops'[c].n = o.n + 1 /\ lock' = lock
  BY <1>2, <1>6, Progress
<1>8. x \in Contents
  BY <1>1, <1>4 DEF TypeOK, Contents
<1>9. TypeOK'
  BY <1>1, <1>4, <1>5, <1>7, <1>8 DEF TypeOK
<1>10. Archived'
  BY <1>1, <1>5 DEF Archived, ArchivesPinned
<1> PICK q : q = ops'[c]
  OBVIOUS
<1>11. Same(o, q) /\ q.n = o.n + 1 /\ lock' = lock
  BY <1>2, <1>3, <1>7, Positions
<1>12. ClientOK(c)'
  BY <1>1, <1>3, <1>5, <1>11 DEF ClientOK, Creates, Holds, Same, Creator, Locker, Registered
<1> QED BY <1>7, <1>9, <1>10, <1>12 DEF InOrder

LEMMA HealthInOrder == ASSUME IInv, NEW c \in Clients, Health(c) PROVE InOrder(c)
<1> PICK o : o = ops[c]
  OBVIOUS
<1>1. TypeOK /\ Archived /\ ClientOK(c) /\ o \in Operation
  BY Typed DEF IInv
<1>2. Running(o) /\ Command(o) = "health" /\ Proceed(c, o) /\ Healthy(o)
  BY DEF Health, At
<1>3. \/ o.op = "prepare" /\ o.n = 4 /\ Final(o)
      \/ o.op = "fork" /\ o.n = 4 /\ ~Final(o)
      \/ o.op = "snapshot" /\ o.n = 2 /\ ~Final(o)
      \/ o.op = "restore" /\ o.n = 5 /\ ~Final(o)
      \/ o.op = "materialize" /\ o.n \in {2, 5} /\ ~Final(o)
  BY <1>2, Positions DEF Creator, Locker
<1>4. o.env \in Envs
  BY <1>1, <1>3, Typed DEF ClientOK, Creates, Holds, Creator, Locker, TypeOK
<1>5. UNCHANGED <<tag, snaps, issued, proj, spent, undone>>
  BY DEF Health
<1>6. /\ live' = IF Creator(o) THEN [live EXCEPT ![o.env] = o.image] ELSE live
      /\ known' = IF o.op = "prepare" THEN known \cup {o.env} ELSE known
  BY DEF Health, Creator
<1>7. OwnOnly(c)
  BY <1>1, <1>4, <1>5, <1>6 DEF OwnOnly, TypeOK, Creator
<1>8. /\ Local(c) /\ Fresh(c)
      /\ ops' \in [Clients -> Operation] /\ lock' \in [Envs -> Clients \cup {None}]
      /\ \/ Final(o) /\ ops'[c] = Returned
         \/ ~Final(o) /\ Same(o, ops'[c]) /\ ops'[c].n = o.n + 1 /\ lock' = lock
  BY <1>2, <1>7, Progress
<1>9. TypeOK'
  <2>1. o.image \in Images \cup {None}
    BY <1>1, Typed
  <2> QED BY <1>1, <1>4, <1>5, <1>6, <1>8, <2>1 DEF TypeOK
<1>10. Archived'
  <2>1. o.op = "prepare" => o.env \in issued
    BY <1>1, <1>3 DEF ClientOK, Creates, Creator
  <2> QED BY <1>1, <1>5, <1>6, <2>1 DEF Archived, ArchivesPinned
<1> PICK q : q = ops'[c]
  OBVIOUS
<1>11. ClientOK(c)'
  <2>1. CASE o.op = "prepare"
    BY <1>3, <1>8, <2>1, Over
  <2>2. CASE o.op # "prepare"
    <3>1. Same(o, q) /\ q.n = o.n + 1 /\ lock' = lock
      BY <1>3, <1>8, <2>2
    <3>2. proj[o.env].image = IF o.op = "fork" THEN o.image ELSE live[o.env]
      BY <1>2, <1>3, <2>2 DEF Healthy
    <3>3. CASE o.op = "fork"
      <4>1. Creates(o)
        BY <1>1, <3>3 DEF ClientOK, Creator
      <4>2. o.image # None
        BY <1>3, <3>3, <4>1, NoneAssumption DEF Creates
      <4>3. live'[o.env] = o.image /\ known' = known
        BY <1>1, <1>4, <1>6, <2>2, <3>3 DEF TypeOK, Creator
      <4> QED BY <1>3, <1>5, <3>1, <3>2, <3>3, <4>1, <4>2, <4>3
              DEF ClientOK, Creates, Same, Creator, Locker, Registered
    <3>4. CASE o.op # "fork"
      <4>1. live' = live /\ known' = known
        BY <1>6, <2>2, <3>4 DEF Creator
      <4> QED BY <1>1, <1>3, <1>5, <2>2, <3>1, <3>2, <3>4, <4>1
              DEF ClientOK, Holds, Same, Creator, Locker, Registered
    <3> QED BY <3>3, <3>4
  <2> QED BY <2>1, <2>2
<1> QED BY <1>8, <1>9, <1>10, <1>11 DEF InOrder

\* What a bridge writes is a content it was asked for.
LEMMA Targets ==
  ASSUME IInv, NEW c \in Clients, Running(ops[c]),
         Command(ops[c]) \in {"import", "mutate"}
  PROVE  Target(ops[c]) \in Contents
<1> PICK o : o = ops[c]
  OBVIOUS
<1>1. TypeOK /\ ClientOK(c) /\ o.marker \in Contents
  BY Typed DEF IInv
<1>2. \/ o.op = "fork" /\ o.n = 5
      \/ o.op = "restore" /\ o.n = 6
      \/ o.op = "materialize"
  BY Positions DEF Creator, Locker
<1>3. CASE o.op = "materialize"
  BY <1>1, <1>3 DEF Target
<1>4. CASE o.op # "materialize"
  <2>1. o.snap \in Snaps /\ snaps[o.snap] # None
    BY <1>1, <1>2, <1>4 DEF ClientOK, Creates, Holds, Creator, Locker
  <2>2. snaps[o.snap].content \in Contents
    BY <1>1, <2>1 DEF TypeOK
  <2> QED BY <1>4, <2>2 DEF Target
<1> QED BY <1>3, <1>4

LEMMA WriteInOrder == ASSUME IInv, NEW c \in Clients, Write(c) PROVE InOrder(c)
<1> PICK o : o = ops[c]
  OBVIOUS
<1>1. TypeOK /\ Archived /\ ClientOK(c) /\ o \in Operation
  BY Typed DEF IInv
<1>2. Running(o) /\ Command(o) \in {"import", "mutate"} /\ Proceed(c, o)
  BY DEF Write, At
<1>3. \/ o.op = "fork" /\ o.n = 5 /\ ~Final(o)
      \/ o.op = "restore" /\ o.n = 6 /\ ~Final(o)
      \/ o.op = "materialize" /\ o.n = 4 /\ ~Final(o)
  BY <1>2, Positions DEF Creator, Locker
<1>4. o.env \in Envs
  BY <1>1, <1>3, Typed DEF ClientOK, Creates, Holds, Creator, Locker, TypeOK
<1>5. UNCHANGED <<tag, live, known, snaps, issued, spent, undone>>
  BY DEF Write
<1> PICK x \in {Target(o), "mixed"} : proj' = [proj EXCEPT ![o.env].content = x]
  BY DEF Write
<1>6. /\ x \in Contents
      /\ proj' \in [Envs -> [st : {"absent", "partial", "up"},
                            image : Images \cup {None}, content : Contents,
                            late : SUBSET Contents]]
      /\ \A e \in Envs : proj'[e].image = proj[e].image
  <2>1. x \in Contents
    BY <1>2, Targets DEF Contents
  <2>2. proj[o.env] \in [st : {"absent", "partial", "up"}, image : Images \cup {None},
                         content : Contents, late : SUBSET Contents]
    BY <1>1, <1>4 DEF TypeOK
  <2>3. [proj[o.env] EXCEPT !.content = x]
          \in [st : {"absent", "partial", "up"}, image : Images \cup {None},
               content : Contents, late : SUBSET Contents]
    BY <2>1, <2>2
  <2>4. [proj[o.env] EXCEPT !.content = x].image = proj[o.env].image
    BY <2>2
  <2> QED BY <1>1, <1>4, <2>3, <2>4 DEF TypeOK
<1>7. OwnOnly(c)
  BY <1>1, <1>4, <1>5, <1>6 DEF OwnOnly, TypeOK
<1>8. /\ Local(c) /\ Fresh(c)
      /\ ops' \in [Clients -> Operation] /\ lock' \in [Envs -> Clients \cup {None}]
      /\ \/ Final(o) /\ ops'[c] = Returned
         \/ ~Final(o) /\ Same(o, ops'[c]) /\ ops'[c].n = o.n + 1 /\ lock' = lock
  BY <1>2, <1>7, Progress
<1>9. TypeOK'
  BY <1>1, <1>5, <1>6, <1>8 DEF TypeOK
<1>10. Archived'
  BY <1>1, <1>5 DEF Archived, ArchivesPinned
<1> PICK q : q = ops'[c]
  OBVIOUS
<1>11. Same(o, q) /\ q.n = o.n + 1 /\ lock' = lock
  BY <1>3, <1>8
<1>12. proj'[o.env].image = proj[o.env].image
  BY <1>4, <1>6
<1>13. ClientOK(c)'
  <2>1. CASE o.op = "fork"
    BY <1>1, <1>3, <1>5, <1>11, <1>12, <2>1
       DEF ClientOK, Creates, Same, Creator, Locker, Registered
  <2>2. CASE o.op # "fork"
    BY <1>1, <1>3, <1>5, <1>11, <1>12, <2>2
       DEF ClientOK, Holds, Same, Creator, Locker, Registered
  <2> QED BY <2>1, <2>2
<1> QED BY <1>8, <1>9, <1>10, <1>13 DEF InOrder

LEMMA ExportInOrder == ASSUME IInv, NEW c \in Clients, Export(c) PROVE InOrder(c)
<1> PICK o : o = ops[c]
  OBVIOUS
<1>1. TypeOK /\ Archived /\ ClientOK(c) /\ o \in Operation
  BY Typed DEF IInv
<1>2. Running(o) /\ Command(o) \in {"export", "verify", "before", "after"} /\ Proceed(c, o)
  BY DEF Export, At
<1>3. \/ o.op = "snapshot" /\ o.n = 3 /\ Final(o)
      \/ o.op = "fork" /\ o.n = 6 /\ Final(o)
      \/ o.op = "restore" /\ o.n = 7 /\ Final(o)
      \/ o.op = "materialize" /\ o.n = 3 /\ ~Final(o)
      \/ o.op = "materialize" /\ o.n = 6 /\ Final(o)
  BY <1>2, Positions DEF Creator, Locker
<1>4. o.env \in Envs
  BY <1>1, <1>3, Typed DEF ClientOK, Creates, Holds, Creator, Locker, TypeOK
<1>5. UNCHANGED <<tag, live, issued, proj, spent, undone>>
  BY DEF Export
<1> PICK a : a = [env |-> o.env, image |-> live[o.env],
                content |-> proj[o.env].content, ran |-> proj[o.env].image]
  OBVIOUS
<1>6. /\ snaps' = IF o.op # "snapshot" THEN snaps ELSE [snaps EXCEPT ![o.snap] = a]
      /\ known' = IF o.op = "fork" THEN known \cup {o.env} ELSE known
  BY DEF Export
<1>12. o.op = "snapshot" => /\ o.snap \in Snaps \cap issued /\ live[o.env] \in Images
                            /\ proj[o.env].image = live[o.env]
  BY <1>1, <1>3, <1>4 DEF ClientOK, Holds, Locker, Registered, TypeOK
<1>13. o.op = "fork" => o.env \in issued
  BY <1>1, <1>3, <1>4, NoneAssumption DEF ClientOK, Creates, Creator
<1>14. o.op = "snapshot" => a \in [env : Envs, image : Images, content : Contents,
                                   ran : Images] /\ a.ran = a.image
  BY <1>1, <1>4, <1>12 DEF TypeOK
<1>7. OwnOnly(c)
  <2>1. \A s \in Snaps : snaps'[s] = snaps[s] \/ (/\ o.op = "snapshot" /\ o.n # 1
                                                 /\ s = o.snap)
    BY <1>1, <1>3, <1>6 DEF TypeOK
  <2> QED BY <1>1, <1>4, <1>5, <1>6, <2>1 DEF OwnOnly, TypeOK, Creator
<1>8. /\ Local(c) /\ Fresh(c)
      /\ ops' \in [Clients -> Operation] /\ lock' \in [Envs -> Clients \cup {None}]
      /\ \/ Final(o) /\ ops'[c] = Returned
         \/ ~Final(o) /\ Same(o, ops'[c]) /\ ops'[c].n = o.n + 1 /\ lock' = lock
  BY <1>2, <1>7, Progress
<1>9. TypeOK'
  <2>1. snaps' \in [Snaps -> [env : Envs, image : Images, content : Contents,
                              ran : Images] \cup {None}]
    BY <1>1, <1>6, <1>12, <1>14 DEF TypeOK
  <2> QED BY <1>1, <1>4, <1>5, <1>6, <1>8, <2>1 DEF TypeOK
<1>10. Archived'
  <2>1. ASSUME NEW s \in Snaps, snaps'[s] # None
        PROVE  s \in issued /\ snaps'[s].ran = snaps'[s].image
    <3>1. CASE o.op = "snapshot" /\ s = o.snap
      BY <1>1, <1>6, <1>12, <1>14, <3>1 DEF TypeOK
    <3>2. CASE ~(o.op = "snapshot" /\ s = o.snap)
      BY <1>1, <1>6, <2>1, <3>2 DEF Archived, ArchivesPinned, TypeOK
    <3> QED BY <3>1, <3>2
  <2> QED BY <1>1, <1>5, <1>6, <1>13, <2>1 DEF Archived, ArchivesPinned
<1> PICK q : q = ops'[c]
  OBVIOUS
<1>11. ClientOK(c)'
  <2>1. CASE Final(o)
    BY <1>8, <2>1, Over
  <2>2. CASE ~Final(o)
    <3>1. Same(o, q) /\ q.n = o.n + 1 /\ lock' = lock
      BY <1>8, <2>2
    <3> QED BY <1>1, <1>3, <1>5, <1>6, <2>2, <3>1
            DEF ClientOK, Holds, Same, Creator, Locker, Registered
  <2> QED BY <2>1, <2>2
<1> QED BY <1>8, <1>9, <1>10, <1>11 DEF InOrder

\* The projects a down may leave (docker compose down --volumes).
LEMMA DownTypes ==
  ASSUME TypeOK, NEW e \in Envs, NEW p \in DownResults(e)
  PROVE  p \in [st : {"absent", "partial", "up"}, image : Images \cup {None},
                content : Contents, late : SUBSET Contents]
<1> DEFINE Project == [st : {"absent", "partial", "up"}, image : Images \cup {None},
                       content : Contents, late : SUBSET Contents]
<1> PICK x : x = proj[e]
  OBVIOUS
<1> PICK y : y = [x EXCEPT !.st = "partial"]
  OBVIOUS
<1> PICK z : z = [y EXCEPT !.late = {}]
  OBVIOUS
<1>1. x \in Project
  BY DEF TypeOK
<1>2. y \in Project
  BY <1>1
<1>3. z \in Project
  BY <1>2
<1>4. Gone \in Project
  BY DEF Gone, Contents
<1>5. p = Gone \/ p = z
  BY DEF DownResults
<1> QED BY <1>3, <1>4, <1>5

LEMMA DownInOrder == ASSUME IInv, NEW c \in Clients, Down(c) PROVE InOrder(c)
<1> PICK o : o = ops[c]
  OBVIOUS
<1>1. TypeOK /\ Archived /\ ClientOK(c) /\ o \in Operation
  BY Typed DEF IInv
<1>2. Running(o) /\ Command(o) = "down" /\ Proceed(c, o)
  BY DEF Down, At
<1>3. \/ o.op = "restore" /\ o.n = 3 /\ ~Final(o)
      \/ o.op = "destroy" /\ o.n = 2
  BY <1>2, Positions DEF Creator, Locker
<1>4. o.env \in Envs
  BY <1>1, <1>3, Typed DEF ClientOK, Creates, Holds, Creator, Locker, TypeOK
<1>5. UNCHANGED <<tag, known, snaps, issued, spent, undone>>
  BY DEF Down
<1> PICK p \in DownResults(o.env) : proj' = [proj EXCEPT ![o.env] = p]
  BY DEF Down
<1>6. live' = IF o.op = "destroy" /\ Final(o) THEN [live EXCEPT ![o.env] = None] ELSE live
  BY DEF Down
<1>7. OwnOnly(c)
  BY <1>1, <1>4, <1>5, <1>6 DEF OwnOnly, TypeOK
<1>8. /\ Local(c) /\ Fresh(c)
      /\ ops' \in [Clients -> Operation] /\ lock' \in [Envs -> Clients \cup {None}]
      /\ \/ Final(o) /\ ops'[c] = Returned
         \/ ~Final(o) /\ Same(o, ops'[c]) /\ ops'[c].n = o.n + 1 /\ lock' = lock
  BY <1>2, <1>7, Progress
<1>9. TypeOK'
  <2>1. proj' \in [Envs -> [st : {"absent", "partial", "up"},
                            image : Images \cup {None}, content : Contents,
                            late : SUBSET Contents]]
    BY <1>1, <1>4, DownTypes DEF TypeOK
  <2>2. live' \in [Envs -> Images \cup {None}]
    BY <1>1, <1>6 DEF TypeOK
  <2> QED BY <1>1, <1>5, <1>8, <2>1, <2>2 DEF TypeOK
<1>10. Archived'
  BY <1>1, <1>5 DEF Archived, ArchivesPinned
<1> PICK q : q = ops'[c]
  OBVIOUS
<1>11. ClientOK(c)'
  <2>1. CASE Final(o)
    BY <1>8, <2>1, Over
  <2>2. CASE ~Final(o)
    <3>1. Same(o, q) /\ q.n = o.n + 1 /\ lock' = lock /\ live' = live
      BY <1>6, <1>8, <2>2
    <3> QED BY <1>1, <1>3, <1>5, <2>2, <3>1
            DEF ClientOK, Holds, Same, Creator, Locker, Registered
  <2> QED BY <2>1, <2>2
<1> QED BY <1>8, <1>9, <1>10, <1>11 DEF InOrder

LEMMA InventoryInOrder ==
  ASSUME IInv, NEW c \in Clients, Inventory(c) PROVE InOrder(c)
<1> PICK o : o = ops[c]
  OBVIOUS
<1>1. TypeOK /\ Archived /\ ClientOK(c) /\ o \in Operation
  BY Typed DEF IInv
<1>2. Running(o) /\ Command(o) = "inventory" /\ Proceed(c, o)
  BY DEF Inventory, At
<1>3. o.op = "destroy" /\ o.n = 3 /\ Final(o)
  BY <1>2, Positions DEF Creator, Locker
<1>4. o.env \in Envs
  BY <1>1, <1>3, Typed DEF ClientOK, Creates, Holds, Creator, Locker, TypeOK
<1>5. /\ UNCHANGED <<tag, known, snaps, issued, proj, spent, undone>>
      /\ live' = [live EXCEPT ![o.env] = None]
  BY DEF Inventory
<1>7. OwnOnly(c)
  BY <1>1, <1>4, <1>5 DEF OwnOnly, TypeOK
<1>8. /\ Local(c) /\ Fresh(c)
      /\ ops' \in [Clients -> Operation] /\ lock' \in [Envs -> Clients \cup {None}]
      /\ ops'[c] = Returned
  BY <1>2, <1>3, <1>7, Progress
<1>9. TypeOK'
  BY <1>1, <1>5, <1>8 DEF TypeOK
<1>10. Archived'
  BY <1>1, <1>5 DEF Archived, ArchivesPinned
<1> QED BY <1>8, <1>9, <1>10, Over DEF InOrder
-------------------------------------------------------------------------------
(* Failures. *)

\* The projects a command may leave that did not succeed.
LEMMA LeavesTypes ==
  ASSUME IInv, NEW c \in Clients, Running(ops[c]), ops[c].env \in Envs,
         NEW p \in Leaves(ops[c])
  PROVE  p \in [st : {"absent", "partial", "up"}, image : Images \cup {None},
                content : Contents, late : SUBSET Contents]
<1> PICK o : o = ops[c]
  OBVIOUS
<1> PICK x : x = proj[o.env]
  OBVIOUS
<1>1. TypeOK /\ tag \in Images
  BY DEF IInv, TypeOK
<1>2. x \in [st : {"absent", "partial", "up"}, image : Images \cup {None},
             content : Contents, late : SUBSET Contents]
  BY <1>1 DEF TypeOK
<1>3. CASE Command(o) = "up"
  <2>1. p \in {x} \cup {[st |-> t, image |-> tag, content |-> "baseline", late |-> {}]
                          : t \in {"partial", "up"}}
    BY <1>3 DEF Leaves
  <2> QED BY <1>1, <1>2, <2>1 DEF Contents
<1>4. CASE Command(o) = "down"
  <2>1. p \in {x} \cup DownResults(o.env)
    BY <1>4 DEF Leaves
  <2> QED BY <1>1, <1>2, <2>1, DownTypes
<1>5. CASE Command(o) \in {"import", "mutate"} /\ x.st = "up"
  <2>1. Target(o) \in Contents /\ "mixed" \in Contents
    BY <1>5, Targets DEF Contents
  <2>2. \/ p = x
        \/ \E y \in {"mixed", Target(o)} : p = [x EXCEPT !.content = y]
        \/ p = [x EXCEPT !.late = x.late \cup {Target(o)}]
    BY <1>5 DEF Leaves
  <2> QED BY <1>2, <2>1, <2>2
<1>6. CASE ~(Command(o) \in {"up", "down"} \/ (Command(o) \in {"import", "mutate"} /\ x.st = "up"))
  <2>1. p = x
    BY <1>6 DEF Leaves
  <2> QED BY <1>2, <2>1
<1> QED BY <1>3, <1>4, <1>5, <1>6

LEMMA BreakInOrder == ASSUME IInv, NEW c \in Clients, Break(c) PROVE InOrder(c)
<1> PICK o : o = ops[c]
  OBVIOUS
<1>1. TypeOK /\ Archived /\ ClientOK(c) /\ o \in Operation
  BY Typed DEF IInv
<1>2. Running(o) /\ Raise(c)
  BY DEF Break
<1>3. UNCHANGED <<tag, known, snaps, issued, spent, undone>>
  BY DEF Break
<1>4. o.env \in Envs \cup {None}
  BY <1>1, Typed
<1>5. live' = IF o.op = "fork" /\ o.env # None THEN [live EXCEPT ![o.env] = None] ELSE live
  BY <1>2 DEF Raise
<1>6. /\ \A d \in Clients : d # c => ops'[d] = ops[d]
      /\ ops' \in [Clients -> Operation] /\ LockStep(c)
      /\ \/ ~Compensated(o) /\ ops'[c] = Idle
         \/ Compensated(o) /\ Same(o, ops'[c]) /\ ops'[c].n = 0 /\ lock' = lock
  BY <1>1, <1>2, Raised
<1>7. /\ proj' \in [Envs -> [st : {"absent", "partial", "up"},
                            image : Images \cup {None}, content : Contents,
                            late : SUBSET Contents]]
      /\ \A e \in Envs : e # o.env => proj'[e] = proj[e]
      /\ ~Working(c) => proj' = proj
  <2>1. CASE o.env = None
    BY <1>1, <2>1 DEF Break, TypeOK
  <2>2. CASE o.env # None
    <3> PICK p \in Leaves(o) : proj' = [proj EXCEPT ![o.env] = p]
      BY <2>2 DEF Break
    <3>1. o.env \in Envs
      BY <1>4, <2>2
    <3>2. p \in [st : {"absent", "partial", "up"}, image : Images \cup {None},
                 content : Contents, late : SUBSET Contents]
      BY <1>2, <3>1, LeavesTypes
    <3>3. ~Working(c) => p = proj[o.env]
      BY <1>2 DEF Working, At, Leaves
    <3> QED BY <1>1, <3>1, <3>2, <3>3 DEF TypeOK
  <2> QED BY <2>1, <2>2
<1>8. ~Working(c) => live' = live
  <2>1. o.op = "fork" => Working(c)
    BY <1>2, Positions DEF Working, At
  <2> QED BY <1>5, <2>1
<1>9. TypeOK'
  <2>1. live' \in [Envs -> Images \cup {None}]
    BY <1>1, <1>5 DEF TypeOK
  <2> QED BY <1>1, <1>3, <1>6, <1>7, <2>1 DEF TypeOK, LockStep
<1>10. Local(c)
  <2>1. \A e \in Envs : e # o.env \/ ~Working(c) =>
          live'[e] = live[e] /\ proj'[e].image = proj[e].image
    BY <1>5, <1>7, <1>8
  <2> QED BY <1>3, <1>6, <2>1 DEF Local, LockStep
<1>11. Archived'
  BY <1>1, <1>3 DEF Archived, ArchivesPinned
<1>12. CASE ~Compensated(o)
  BY <1>6, <1>9, <1>10, <1>11, <1>12, Over DEF InOrder
<1>13. CASE Compensated(o)
  <2> PICK q : q = ops'[c]
    OBVIOUS
  <2>1. Same(o, q) /\ q.n = 0 /\ lock' = lock
    BY <1>6, <1>13
  <2>2. \/ Creator(o) /\ o.env # None
        \/ o.op = "restore" /\ o.n # 1
    <3>1. CASE o.op \in {"prepare", "fork"} /\ o.env # None
      BY <3>1 DEF Creator
    <3>2. CASE o.op = "restore" /\ Command(o) \in {"down", "up", "health", "import", "verify"}
      BY <1>2, <3>2, Positions
    <3> QED BY <1>13, <3>1, <3>2 DEF Compensated
  <2>3. Fresh(c)
    BY <2>1, <2>2 DEF Fresh, Same, Creator
  <2>4. ClientOK(c)'
    <3>1. CASE Creator(o) /\ o.env # None
      BY <1>1, <1>3, <2>1, <3>1 DEF ClientOK, Creates, Same, Creator, Locker
    <3>2. CASE o.op = "restore" /\ o.n # 1
      <4>1. live' = live
        BY <1>5, <3>2
      <4> QED BY <1>1, <1>3, <2>1, <3>2, <4>1
              DEF ClientOK, Holds, Same, Creator, Locker, Registered
    <3> QED BY <2>2, <3>1, <3>2
  <2> QED BY <1>9, <1>10, <1>11, <2>3, <2>4 DEF InOrder
<1> QED BY <1>12, <1>13

LEMMA UndoInOrder == ASSUME IInv, NEW c \in Clients, Undo(c) PROVE InOrder(c)
<1> PICK o : o = ops[c]
  OBVIOUS
<1>1. TypeOK /\ Archived /\ ClientOK(c)
  BY DEF IInv
<1>2. Undoing(o) /\ Working(c)
  BY DEF Undo, Working
<1>3. o.env \in Envs
  BY <1>1, <1>2, Typed, NoneAssumption
     DEF Undoing, ClientOK, Creates, Holds, Creator, Locker, TypeOK
<1>4. UNCHANGED <<tag, live, known, snaps, issued, spent>>
  BY DEF Undo
<1> PICK p \in {proj[o.env]} \cup DownResults(o.env) :
      /\ proj' = [proj EXCEPT ![o.env] = p]
      /\ undone' = IF p.st = "absent" THEN undone ELSE undone \cup {o.env}
  BY DEF Undo
<1>5. ops' = [ops EXCEPT ![c] = Idle] /\ lock' = Released(c)
  BY DEF Undo
<1>6. /\ ops'[c] = Idle /\ (\A d \in Clients : d # c => ops'[d] = ops[d])
      /\ ops' \in [Clients -> Operation] /\ LockStep(c)
  BY <1>1, <1>5, IdleOperation, ReleasedLocks DEF TypeOK
<1>7. proj' \in [Envs -> [st : {"absent", "partial", "up"},
                          image : Images \cup {None}, content : Contents,
                          late : SUBSET Contents]]
  BY <1>1, <1>3, DownTypes DEF TypeOK
<1>8. TypeOK'
  BY <1>1, <1>3, <1>4, <1>6, <1>7 DEF TypeOK, LockStep
<1>9. Local(c)
  BY <1>1, <1>2, <1>3, <1>4, <1>6 DEF Local, LockStep, TypeOK
<1>10. Archived'
  BY <1>1, <1>4 DEF Archived, ArchivesPinned
<1> QED BY <1>6, <1>8, <1>9, <1>10, Over DEF InOrder
-------------------------------------------------------------------------------
(* Steps of nobody's. *)

\* The environment changes no operation, no registration and no image.
LEMMA Background ==
  ASSUME IInv, TypeOK', UNCHANGED <<live, known, snaps, issued, lock, ops>>,
         \A e \in Envs : proj'[e].image = proj[e].image
  PROVE  IInv'
<1>1. \A c \in Clients : ClientOK(c)'
  <2>1. ASSUME NEW c \in Clients PROVE ClientOK(c)'
    <3> PICK o : o = ops[c]
      OBVIOUS
    <3>1. TypeOK /\ ClientOK(c) /\ known \subseteq Envs
      BY DEF IInv, TypeOK
    <3>2. o.env \in Envs \cup {None}
      BY <3>1, Typed
    <3>3. CASE Creator(o)
      <4>1. Creates(o)
        BY <3>1, <3>3 DEF ClientOK
      <4>2. o.n \in Int /\ (o.n >= 5 => o.env \in Envs)
        BY <3>2, <4>1 DEF Creates
      <4> QED BY <3>3, <4>1, <4>2 DEF ClientOK, Creates, Creator, Locker, Registered
    <3>4. CASE Locker(o)
      BY <3>1, <3>4 DEF ClientOK, Holds, Creator, Locker, Registered
    <3> QED BY <3>3, <3>4 DEF ClientOK
  <2> QED BY <2>1
<1>2. Archived'
  BY DEF IInv, Archived, ArchivesPinned
<1>3. \A c, d \in Clients : c # d => Apart(c, d)'
  BY DEF IInv, Apart
<1> QED BY <1>1, <1>2, <1>3 DEF IInv

LEMMA LateWriteKeeps == ASSUME IInv, LateWrite PROVE IInv'
<1> PICK e \in Envs : \E x \in proj[e].late :
      proj' = [proj EXCEPT ![e].content = x, ![e].late = proj[e].late \ {x}]
  BY DEF LateWrite
<1> PICK x \in proj[e].late :
      proj' = [proj EXCEPT ![e].content = x, ![e].late = proj[e].late \ {x}]
  OBVIOUS
<1>1. TypeOK /\ UNCHANGED <<tag, live, known, snaps, issued, lock, ops, spent, undone>>
  BY DEF LateWrite, IInv
<1>2. /\ proj' \in [Envs -> [st : {"absent", "partial", "up"},
                            image : Images \cup {None}, content : Contents,
                            late : SUBSET Contents]]
      /\ \A f \in Envs : proj'[f].image = proj[f].image
  BY <1>1 DEF TypeOK
<1>3. TypeOK'
  BY <1>1, <1>2 DEF TypeOK
<1> QED BY <1>1, <1>2, <1>3, Background

LEMMA RetagKeeps == ASSUME IInv, Retag PROVE IInv'
<1>1. TypeOK /\ UNCHANGED <<live, known, snaps, issued, proj, lock, ops, undone>>
  BY DEF Retag, IInv
<1>2. tag' \in Images /\ spent' \in [starts : 0..MaxStarts, retags : 0..MaxRetags]
  BY <1>1, BoundsAssumption DEF Retag, TypeOK
<1>3. TypeOK'
  BY <1>1, <1>2 DEF TypeOK
<1> QED BY <1>1, <1>3, Background

LEMMA InvNext == IInv /\ [Next]_vars => IInv'
<1> SUFFICES ASSUME IInv, [Next]_vars PROVE IInv'
  OBVIOUS
<1>1. CASE \E c \in Clients : Start(c)
  BY <1>1, StartInOrder, Kept
<1>2. CASE \E c \in Clients : Works(c)
  BY <1>2, EnterInOrder, InspectInOrder, UpInOrder, HealthInOrder, WriteInOrder,
     ExportInOrder, DownInOrder, InventoryInOrder, BreakInOrder, UndoInOrder, Kept
     DEF Works
<1>3. CASE LateWrite
  BY <1>3, LateWriteKeeps
<1>4. CASE Retag
  BY <1>4, RetagKeeps
<1>5. CASE UNCHANGED vars
  BY <1>5 DEF vars, IInv, TypeOK, Archived, ArchivesPinned, ClientOK, Apart, Creates,
              Holds, Creator, Locker, Registered
<1> QED BY <1>1, <1>2, <1>3, <1>4, <1>5 DEF Next

LEMMA Invariance == Spec => []IInv
BY InvInit, InvNext, PTL DEF Spec
-------------------------------------------------------------------------------
(* Theorems. *)

\* Past the wait for its lock an operation has its project to itself, whatever
\* fails or is cancelled (operation_lock, _create_world).
THEOREM LockSafety == Spec => []LocksSound
<1>1. ASSUME IInv PROVE LocksSound
  BY <1>1, Exclusivity DEF IInv, LocksSound
<1> QED BY <1>1, Invariance, PTL

\* An archive was exported by the image its manifest is bound to (snapshot).
THEOREM ArchiveSafety == Spec => []ArchivesPinned
<1>1. ASSUME IInv PROVE ArchivesPinned
  BY <1>1 DEF IInv, Archived
<1> QED BY <1>1, Invariance, PTL

\* A fork or a restore that returns left the world as the snapshot has it, on its
\* image; a materialization left the state that was asked for.
THEOREM ReturnSafety == Spec => ExactOnReturn
<1>1. ASSUME IInv, Next, NEW c \in Clients, Running(ops[c]), ops'[c] = Returned
      PROVE  LET o == ops[c]
             IN  /\ o.op \in {"fork", "restore"} =>
                      /\ proj'[o.env].content = snaps[o.snap].content
                      /\ proj'[o.env].image = snaps[o.snap].image
                 /\ o.op = "materialize" => proj'[o.env].content = o.marker
  <2> PICK o : o = ops[c]
    OBVIOUS
  <2>1. TypeOK /\ ClientOK(c) /\ ops[c] # Returned /\ ops \in [Clients -> Operation]
    BY <1>1, IdleOperation DEF IInv, TypeOK, Running, Route
  <2>2. ASSUME NEW d \in Clients, d # c, InOrder(d) PROVE FALSE
    BY <1>1, <2>1, <2>2 DEF InOrder, Local
  <2>3. CASE \E d \in Clients : Start(d)
    <3> PICK d \in Clients : Start(d)
      BY <2>3
    <3>1. d # c
      BY <1>1 DEF Start
    <3> QED BY <1>1, <2>2, <3>1, StartInOrder
  <2>4. CASE \E d \in Clients : Works(d)
    <3>1. ASSUME NEW d \in Clients, Works(d) PROVE InOrder(d)
      BY <1>1, <3>1, EnterInOrder, InspectInOrder, UpInOrder, HealthInOrder, WriteInOrder,
         ExportInOrder, DownInOrder, InventoryInOrder, BreakInOrder, UndoInOrder DEF Works
    <3>2. Works(c)
      BY <2>2, <2>4, <3>1
    <3>3. ~Break(c)
      BY <1>1, <2>1, IdleOperation, Raised DEF Break, Same, Running, Route
    <3>4. ~Undo(c)
      BY <1>1, <2>1, IdleOperation DEF Undo
    <3>5. ~Enter(c)
      <4>1. ASSUME Enter(c) PROVE ops'[c].op # "returned"
        <5>1. CASE ops' = [ops EXCEPT ![c] = Idle]
          BY <2>1, <5>1, IdleOperation
        <5>2. CASE \E s \in Snaps \cup {None} : ops' = [ops EXCEPT ![c] = Granted(ops[c], s)]
          <6> PICK s \in Snaps \cup {None} : ops' = [ops EXCEPT ![c] = Granted(ops[c], s)]
            BY <5>2
          <6>1. ops'[c].op = ops[c].op
            BY <2>1, GrantedOperation
          <6> QED BY <1>1, <6>1 DEF Running, Route
        <5>3. ops[c].snap \in Snaps \cup {None}
          BY <2>1, Typed
        <5> QED BY <4>1, <5>1, <5>2, <5>3 DEF Enter
      <4> QED BY <1>1, <4>1, IdleOperation
    <3>6. CASE Export(c)
      <4>1. proj' = proj /\ proj[o.env].content \in Expected(o)
            /\ Command(o) \in {"export", "verify", "before", "after"}
        BY <3>6 DEF Export, At
      <4>2. CASE o.op = "fork"
        <5>1. o.n = 6 /\ Command(o) = "verify"
          BY <1>1, <4>1, <4>2, Positions
        <5>2. proj[o.env].image = snaps[o.snap].image
          BY <2>1, <4>2, <5>1 DEF ClientOK, Creates, Creator
        <5> QED BY <4>1, <4>2, <5>1, <5>2 DEF Expected, Target
      <4>3. CASE o.op = "restore"
        <5>1. o.n = 7 /\ Command(o) = "verify"
          BY <1>1, <4>1, <4>3, Positions
        <5>2. proj[o.env].image = snaps[o.snap].image
          BY <2>1, <4>3, <5>1 DEF ClientOK, Holds, Locker
        <5> QED BY <4>1, <4>3, <5>1, <5>2 DEF Expected, Target
      <4>4. CASE o.op = "materialize"
        <5>1. Final(o)
          <6>1. Proceed(c, o)
            BY <3>6 DEF Export
          <6> QED BY <1>1, <2>1, <6>1, Proceeded, IdleOperation DEF Same, Running, Route
        <5>2. Command(o) = "after"
          BY <1>1, <4>4, <5>1, Positions
        <5> QED BY <4>1, <4>4, <5>2 DEF Expected
      <4> QED BY <4>2, <4>3, <4>4
    <3>7. CASE Inspect(c) \/ Up(c) \/ Health(c) \/ Write(c) \/ Down(c) \/ Inventory(c)
      <4>1. /\ Command(o) \in {"version", "image", "up", "health", "import", "mutate",
                               "down", "inventory"}
            /\ \E p \in Operation : p.op = o.op /\ p.n = o.n /\ Proceed(c, p)
        <5>1. CASE Inspect(c)
          <6> PICK e \in Envs \cup {None} :
                Proceed(c, [o EXCEPT !.env = e,
                              !.image = IF Command(o) = "image" THEN tag ELSE o.image])
            BY <2>1, <5>1, Typed DEF Inspect
          <6> PICK p : p = [o EXCEPT !.env = e,
                              !.image = IF Command(o) = "image" THEN tag ELSE o.image]
            OBVIOUS
          <6>2. o \in Operation /\ tag \in Images
            BY <2>1 DEF TypeOK
          <6>1. p \in Operation /\ p.op = o.op /\ p.n = o.n
            BY <6>2 DEF Operation
          <6> QED BY <5>1, <6>1 DEF Inspect, At
        <5>2. CASE Up(c) \/ Health(c) \/ Write(c) \/ Down(c) \/ Inventory(c)
          BY <2>1, <5>2 DEF Up, Health, Write, Down, Inventory, At
        <5> QED BY <3>7, <5>1, <5>2
      <4>2. Final(o)
        BY <1>1, <2>1, <4>1, Proceeded, IdleOperation DEF Same, Running, Route
      <4>3. o.op \notin {"fork", "restore", "materialize"}
        BY <1>1, <4>1, <4>2, Positions
      <4> QED BY <4>3
    <3> QED BY <3>2, <3>3, <3>4, <3>5, <3>6, <3>7 DEF Works
  <2>5. CASE LateWrite \/ Retag
    BY <1>1, <2>1, <2>5 DEF LateWrite, Retag
  <2> QED BY <1>1, <2>3, <2>4, <2>5 DEF Next
<1>2. ASSUME IInv, [Next]_vars
      PROVE  [\A c \in Clients : Running(ops[c]) /\ ops'[c] = Returned =>
                LET o == ops[c]
                IN  /\ o.op \in {"fork", "restore"} =>
                         /\ proj'[o.env].content = snaps[o.snap].content
                         /\ proj'[o.env].image = snaps[o.snap].image
                    /\ o.op = "materialize" => proj'[o.env].content = o.marker]_vars
  BY <1>1, <1>2
<1> QED BY <1>2, Invariance, PTL DEF Spec, ExactOnReturn
-------------------------------------------------------------------------------
(* Projects that someone answers for, in the real-provider profile. *)

\* After the step of c, someone answers for the world it was about.
OwnAccounted(c) ==
  ops[c].env \in Envs =>
    /\ proj'[ops[c].env].st # "absent" =>
         \/ live'[ops[c].env] # None \/ ops[c].env \in undone'
         \/ Working(c)' /\ ops'[c].env = ops[c].env
    /\ ops[c].env \in known' /\ live'[ops[c].env] = None =>
         proj'[ops[c].env].st = "absent"

\* What a step of c leaves alone.
Elsewhere(c) ==
  /\ \A d \in Clients : d # c => ops'[d] = ops[d]
  /\ undone \subseteq undone'
  /\ \A e \in Envs : e # ops[c].env => live'[e] = live[e] /\ proj'[e].st = proj[e].st
  /\ \A e \in known' : e \in known \/ e = ops[c].env

LEMMA StillAccounted ==
  ASSUME Real, Accounted, NEW c \in Clients, Elsewhere(c), known' \subseteq Envs,
         \/ OwnAccounted(c)
         \/ ~Working(c) /\ live' = live /\ proj' = proj /\ known' = known
  PROVE  Accounted'
<1>1. ASSUME NEW e \in Envs, proj'[e].st # "absent"
      PROVE  live'[e] # None \/ e \in undone' \/ \E d \in Clients : Working(d)' /\ ops'[d].env = e
  <2>1. \A d \in Clients : d # c => (Working(d) => Working(d)')
    BY DEF Elsewhere, Working, Undoing, Running, At, Command
  <2>2. CASE e = ops[c].env /\ OwnAccounted(c)
    BY <1>1, <2>2 DEF OwnAccounted
  <2>3. CASE ~(e = ops[c].env /\ OwnAccounted(c))
    <3>1. live'[e] = live[e] /\ proj'[e].st = proj[e].st
      BY <2>3 DEF Elsewhere
    <3>2. live[e] # None \/ e \in undone \/ \E d \in Clients : Working(d) /\ ops[d].env = e
      BY <1>1, <3>1 DEF Accounted, Answered, Registered
    <3>3. ASSUME NEW d \in Clients, Working(d), ops[d].env = e
          PROVE  Working(d)' /\ ops'[d].env = e
      BY <2>1, <2>3, <3>3 DEF Elsewhere
    <3> QED BY <3>1, <3>2, <3>3 DEF Elsewhere
  <2> QED BY <2>2, <2>3
<1>2. ASSUME NEW e \in known', live'[e] = None PROVE proj'[e].st = "absent"
  <2>1. CASE e = ops[c].env /\ OwnAccounted(c)
    BY <1>2, <2>1 DEF OwnAccounted
  <2>2. CASE e # ops[c].env
    BY <1>2, <2>2 DEF Elsewhere, Accounted, HeldUntilGone, Registered
  <2>3. CASE live' = live /\ proj' = proj /\ known' = known
    BY <1>2, <2>3 DEF Accounted, HeldUntilGone, Registered
  <2> QED BY <2>1, <2>2, <2>3
<1> QED BY <1>1, <1>2 DEF Accounted, Answered, HeldUntilGone, Registered

\* The same, for a step that keeps the operations in order.
LEMMA Settles ==
  ASSUME Real, Accounted, NEW c \in Clients, InOrder(c), undone \subseteq undone',
         \A e \in Envs : e # ops[c].env => proj'[e] = proj[e],
         \/ OwnAccounted(c)
         \/ ~Working(c) /\ live' = live /\ proj' = proj /\ known' = known
  PROVE  Accounted'
<1>1. known' \subseteq Envs
  BY DEF InOrder, TypeOK
<1>2. Elsewhere(c)
  BY DEF InOrder, Local, Elsewhere
<1> QED BY <1>1, <1>2, StillAccounted

\* A world under construction is not known, and one that a lock is held for is
\* registered.
LEMMA Held ==
  ASSUME IInv, NEW c \in Clients, Working(c), ops[c].env \in Envs
  PROVE  \/ Creator(ops[c]) /\ Creates(ops[c]) /\ ops[c].env \notin known
         \/ Locker(ops[c]) /\ live[ops[c].env] # None
<1>1. ops[c].env # None
  BY NoneAssumption
<1> QED BY <1>1, AtWork DEF Creates, Holds, Registered

LEMMA RegisteredAccounted ==
  ASSUME NEW c \in Clients, ops[c].env \in Envs => live'[ops[c].env] # None
  PROVE  OwnAccounted(c)
BY DEF OwnAccounted

LEMMA StartAccounted ==
  ASSUME Real, IInv, Accounted, NEW c \in Clients, Start(c) PROVE Accounted'
<1>1. UNCHANGED <<live, proj, known, undone>> /\ ~Working(c)
  BY DEF Start, Working
<1> QED BY <1>1, StartInOrder, Settles

LEMMA EnterAccounted ==
  ASSUME Real, IInv, Accounted, NEW c \in Clients, Enter(c) PROVE Accounted'
<1>1. UNCHANGED <<live, proj, known, undone>>
  BY DEF Enter
<1>2. ~Working(c)
  <2>1. At(c, {"lock"})
    BY DEF Enter
  <2>2. ~Undoing(ops[c])
    BY <2>1, Positions DEF At, Undoing
  <2> QED BY <2>1, <2>2 DEF Working
<1> QED BY <1>1, <1>2, EnterInOrder, Settles

\* The identity of a new world is issued before there is a project.
LEMMA InspectAccounted ==
  ASSUME Real, IInv, Accounted, NEW c \in Clients, Inspect(c) PROVE Accounted'
<1>1. UNCHANGED <<live, proj, known, undone>>
  BY DEF Inspect
<1>2. Working(c) /\ Running(ops[c]) /\ Command(ops[c]) \in {"version", "image"}
  BY DEF Inspect, At, Working
<1>3. OwnAccounted(c)
  <2>1. CASE Creator(ops[c])
    <3>1. ops[c].n \in {1, 2}
      BY <1>2, <2>1, Positions DEF Creator
    <3>2. ops[c].env = None
      BY <2>1, <3>1 DEF IInv, ClientOK, Creates
    <3> QED BY <3>2, NoneAssumption DEF OwnAccounted
  <2>2. CASE ~Creator(ops[c])
    BY <1>1, <1>2, <2>2, Held, RegisteredAccounted
  <2> QED BY <2>1, <2>2
<1> QED BY <1>1, <1>3, InspectInOrder, Settles

\* A project that comes up is an operation's that goes on.
LEMMA UpAccounted ==
  ASSUME Real, IInv, Accounted, NEW c \in Clients, Up(c) PROVE Accounted'
<1> PICK o : o = ops[c]
  OBVIOUS
<1>1. UNCHANGED <<live, known, undone>>
  BY DEF Up
<1>2. Running(o) /\ Command(o) = "up" /\ Working(c) /\ Proceed(c, o)
  BY DEF Up, At, Working
<1>3. \A e \in Envs : e # o.env => proj'[e] = proj[e]
  BY DEF Up, IInv, TypeOK
<1>4. OwnAccounted(c)
  <2>1. CASE o.env \in Envs /\ Creator(o)
    <3>1. TypeOK /\ o \in Operation /\ o.n = 3 /\ ~Final(o)
      BY <1>2, <2>1, Typed, Positions DEF IInv, Creator
    <3>2. Same(o, ops'[c]) /\ ops'[c].n = 4
      BY <1>2, <3>1, Proceeded
    <3>3. o.op \in {"prepare", "fork"} /\ Route["prepare"][4] = "health"
          /\ Route["fork"][4] = "health" /\ DOMAIN Route["prepare"] = 1..4
          /\ DOMAIN Route["fork"] = 1..6
      BY <2>1 DEF Creator, Route
    <3>4. Working(c)'
      BY <3>2, <3>3 DEF Same, Working, Running, At, Command, Route
    <3>5. o.env \notin known
      BY <1>2, <2>1, Held DEF Creator, Locker
    <3> QED BY <1>1, <3>2, <3>4, <3>5 DEF OwnAccounted, Same
  <2>2. CASE o.env \in Envs /\ ~Creator(o)
    BY <1>1, <1>2, <2>2, Held, RegisteredAccounted
  <2>3. CASE o.env \notin Envs
    BY <2>3 DEF OwnAccounted
  <2> QED BY <2>1, <2>2, <2>3
<1> QED BY <1>1, <1>3, <1>4, UpInOrder, Settles

\* A healthy new world is registered.
LEMMA HealthAccounted ==
  ASSUME Real, IInv, Accounted, NEW c \in Clients, Health(c) PROVE Accounted'
<1> PICK o : o = ops[c]
  OBVIOUS
<1>1. UNCHANGED <<proj, undone>> /\ Working(c) /\ Running(o) /\ Command(o) = "health"
  BY DEF Health, At, Working
<1>2. live' = IF Creator(o) THEN [live EXCEPT ![o.env] = o.image] ELSE live
  BY DEF Health, Creator
<1>3. OwnAccounted(c)
  <2>1. CASE o.env \in Envs /\ Creator(o)
    <3>1. o.n = 4
      BY <1>1, <2>1, Positions DEF Creator
    <3>2. o.image \in Images /\ live \in [Envs -> Images \cup {None}]
      BY <2>1, <3>1 DEF IInv, TypeOK, ClientOK, Creates
    <3>3. live'[o.env] # None
      BY <1>2, <2>1, <3>2, NoneAssumption
    <3> QED BY <3>3, RegisteredAccounted
  <2>2. CASE o.env \in Envs /\ ~Creator(o)
    BY <1>1, <1>2, <2>2, Held, RegisteredAccounted
  <2>3. CASE o.env \notin Envs
    BY <2>3 DEF OwnAccounted
  <2> QED BY <2>1, <2>2, <2>3
<1> QED BY <1>1, <1>3, HealthInOrder, Settles

\* Who writes or exports works on a registered world.
LEMMA WriteAccounted ==
  ASSUME Real, IInv, Accounted, NEW c \in Clients, Write(c) \/ Export(c) PROVE Accounted'
<1> PICK o : o = ops[c]
  OBVIOUS
<1>1. UNCHANGED <<live, undone>> /\ Working(c) /\ Running(o) /\ InOrder(c)
  BY WriteInOrder, ExportInOrder DEF Write, Export, At, Working
<1>2. Command(o) \in {"import", "mutate", "export", "verify", "before", "after"}
  BY DEF Write, Export, At
<1>3. \A e \in Envs : e # o.env => proj'[e] = proj[e]
  BY DEF Write, Export, IInv, TypeOK
<1>4. OwnAccounted(c)
  <2>1. CASE o.env \in Envs /\ Creator(o)
    <3>1. o.op = "fork" /\ o.n >= 5
      BY <1>1, <1>2, <2>1, Positions DEF Creator
    <3>2. live[o.env] # None
      BY <2>1, <3>1 DEF IInv, ClientOK, Creates, Registered
    <3> QED BY <1>1, <3>2, RegisteredAccounted
  <2>2. CASE o.env \in Envs /\ ~Creator(o)
    BY <1>1, <2>2, Held, RegisteredAccounted
  <2>3. CASE o.env \notin Envs
    BY <2>3 DEF OwnAccounted
  <2> QED BY <2>1, <2>2, <2>3
<1> QED BY <1>1, <1>3, <1>4, Settles

\* A down of its own makes nobody forget the world: in the real-provider profile
\* destroy has the inventory before it.
LEMMA DownAccounted ==
  ASSUME Real, IInv, Accounted, NEW c \in Clients, Down(c) PROVE Accounted'
<1> PICK o : o = ops[c]
  OBVIOUS
<1>1. UNCHANGED undone /\ Working(c) /\ Running(o) /\ Command(o) = "down"
  BY DEF Down, At, Working
<1>2. \A e \in Envs : e # o.env => proj'[e] = proj[e]
  BY DEF Down, IInv, TypeOK
<1>3. ~Creator(o) /\ live' = live
  BY <1>1, Positions DEF Down, Creator
<1>4. OwnAccounted(c)
  BY <1>1, <1>3, Held, RegisteredAccounted
<1> QED BY <1>1, <1>2, <1>4, DownInOrder, Settles

LEMMA InventoryAccounted ==
  ASSUME Real, IInv, Accounted, NEW c \in Clients, Inventory(c) PROVE Accounted'
<1> PICK o : o = ops[c]
  OBVIOUS
<1>1. UNCHANGED <<proj, known, undone>> /\ proj[o.env].st = "absent"
  BY DEF Inventory
<1>2. Running(o) /\ Command(o) = "inventory"
  BY DEF Inventory, At
<1>3. o.op = "destroy" /\ o.n = 3
  BY <1>2, Positions DEF Creator, Locker
<1>4. o.env \in known
  BY <1>3 DEF IInv, ClientOK, Locker, Holds
<1>5. OwnAccounted(c)
  BY <1>1, <1>4 DEF OwnAccounted
<1> QED BY <1>1, <1>5, InventoryInOrder, Settles

\* A failing command leaves the clean-up of a new world to its own operation.
LEMMA BreakAccounted ==
  ASSUME Real, IInv, Accounted, NEW c \in Clients, Break(c) PROVE Accounted'
<1> PICK o : o = ops[c]
  OBVIOUS
<1>1. UNCHANGED <<known, undone>> /\ Running(o) /\ Raise(c)
  BY DEF Break
<1>2. \A e \in Envs : e # o.env => proj'[e] = proj[e]
  BY DEF Break, IInv, TypeOK
<1>3. CASE o.env \in Envs /\ Creator(o)
  <2>1. Working(c)
    BY <1>1, <1>3, Positions DEF Creator, Working, At
  <2>2. o.env \notin known
    BY <1>3, <2>1, Held DEF Creator, Locker
  <2>3. Compensated(o) /\ o.op \in {"prepare", "fork"}
    BY <1>3, NoneAssumption DEF Compensated, Creator
  <2>4. Same(o, ops'[c]) /\ ops'[c].n = 0
    BY <1>1, <2>3, Raised DEF IInv
  <2>5. Working(c)'
    BY <2>3, <2>4 DEF Same, Working, Undoing
  <2>6. OwnAccounted(c)
    BY <1>1, <2>2, <2>4, <2>5 DEF OwnAccounted, Same
  <2> QED BY <1>1, <1>2, <2>6, BreakInOrder, Settles
<1>4. CASE o.env \in Envs /\ ~Creator(o)
  <2>1. live' = live
    BY <1>1, <1>4 DEF Raise, Creator
  <2>2. CASE Working(c)
    <3>1. OwnAccounted(c)
      BY <1>4, <2>1, <2>2, Held, RegisteredAccounted
    <3> QED BY <1>1, <1>2, <3>1, BreakInOrder, Settles
  <2>3. CASE ~Working(c)
    <3>1. Command(o) = "lock"
      BY <1>1, <2>3 DEF Working, At
    <3>2. proj' = proj
      <4>1. \A p \in Leaves(o) : p = proj[o.env]
        BY <3>1 DEF Leaves
      <4> QED BY <1>4, <4>1, NoneAssumption DEF Break, IInv, TypeOK
    <3> QED BY <1>1, <2>1, <2>3, <3>2, BreakInOrder, Settles
  <2> QED BY <2>2, <2>3
<1>5. CASE o.env \notin Envs
  <2>1. OwnAccounted(c)
    BY <1>5 DEF OwnAccounted
  <2> QED BY <1>1, <1>2, <2>1, BreakInOrder, Settles
<1> QED BY <1>3, <1>4, <1>5

\* A clean-up that fails is on record; nobody knows the world it was for, or the
\* world is still registered.
LEMMA UndoAccounted ==
  ASSUME Real, IInv, Accounted, NEW c \in Clients, Undo(c) PROVE Accounted'
<1> PICK o : o = ops[c]
  OBVIOUS
<1>1. UNCHANGED <<live, known>> /\ Working(c)
  BY DEF Undo, Working
<1> PICK p \in {proj[o.env]} \cup DownResults(o.env) :
      /\ proj' = [proj EXCEPT ![o.env] = p]
      /\ undone' = IF p.st = "absent" THEN undone ELSE undone \cup {o.env}
  BY DEF Undo
<1>2. \A e \in Envs : e # o.env => proj'[e] = proj[e]
  BY DEF IInv, TypeOK
<1>3. CASE o.env \in Envs /\ Creator(o)
  <2>1. o.env \notin known
    BY <1>1, <1>3, Held DEF Creator, Locker
  <2>2. proj'[o.env].st # "absent" => o.env \in undone'
    BY <1>3 DEF IInv, TypeOK
  <2>3. OwnAccounted(c)
    BY <1>1, <2>1, <2>2 DEF OwnAccounted
  <2> QED BY <1>1, <1>2, <2>3, UndoInOrder, Settles
<1>4. CASE o.env \notin Envs \/ ~Creator(o)
  <2>1. OwnAccounted(c)
    BY <1>1, <1>4, Held, RegisteredAccounted
  <2> QED BY <1>1, <1>2, <2>1, UndoInOrder, Settles
<1> QED BY <1>3, <1>4

LEMMA AccountedNext == Real /\ IInv /\ Accounted /\ [Next]_vars => Accounted'
<1> SUFFICES ASSUME Real, IInv, Accounted, [Next]_vars PROVE Accounted'
  OBVIOUS
<1>1. CASE \E c \in Clients : Start(c)
  BY <1>1, StartAccounted
<1>2. CASE \E c \in Clients : Works(c)
  BY <1>2, EnterAccounted, InspectAccounted, UpAccounted, HealthAccounted, WriteAccounted,
     DownAccounted, InventoryAccounted, BreakAccounted, UndoAccounted DEF Works
<1>3. CASE LateWrite \/ Retag \/ UNCHANGED vars
  <2>1. UNCHANGED <<live, known, ops, undone>>
    BY <1>3 DEF LateWrite, Retag, vars
  <2>2. \A e \in Envs : proj'[e].st = proj[e].st
    <3>1. CASE LateWrite
      <4> PICK e \in Envs : \E x \in proj[e].late :
            proj' = [proj EXCEPT ![e].content = x, ![e].late = proj[e].late \ {x}]
        BY <3>1 DEF LateWrite
      <4> QED BY DEF IInv, TypeOK
    <3>2. CASE ~LateWrite
      BY <1>3, <3>2 DEF Retag, vars
    <3> QED BY <3>1, <3>2
  <2>3. \A c \in Clients : Working(c)' <=> Working(c)
    BY <2>1 DEF Working, Undoing, Running, At, Command
  <2>4. known \subseteq Envs
    BY DEF IInv, TypeOK
  <2>5. Answered'
    BY <2>1, <2>2, <2>3 DEF Accounted, Answered, Registered
  <2>6. HeldUntilGone'
    BY <2>1, <2>2, <2>4 DEF Accounted, HeldUntilGone, Registered
  <2> QED BY <2>5, <2>6 DEF Accounted
<1> QED BY <1>1, <1>2, <1>3 DEF Next

\* In the real-provider profile nothing is left in docker that no one answers for
\* (_compensating_down, destroy).
THEOREM AccountedAlways == Spec => [](Real => Accounted)
<1>1. Init => Accounted
  BY DEF Init, Accounted, Answered, HeldUntilGone, Gone
<1>2. IInv /\ (Real => Accounted) /\ [Next]_vars => (Real => Accounted)'
  BY AccountedNext
<1> QED BY <1>1, <1>2, Invariance, PTL DEF Spec
===============================================================================
