------------------------------ MODULE InProcessLab ------------------------------
(***************************************************************************)
(* InProcessLabEnvironment: the lab run inside the process, one action at  *)
(* a time, for the replay kernel and the telemetry runtime                 *)
(* (adapters/environments/in_process_lab/.../environment.py).              *)
(*                                                                         *)
(* One asyncio.Lock serialises the calls.  Only execute_observed suspends  *)
(* while it holds the lock, and env.phase is "executing" exactly then: a   *)
(* guard env.phase # "executing" is the wait for the lock, and every other *)
(* call is one step.  The action itself runs in a task of its own, whose   *)
(* handler works on the lab in a thread that a cancellation cannot stop.   *)
(***************************************************************************)
EXTENDS Integers, Sequences, FiniteSets

CONSTANTS
  Envelopes,  \* action envelopes
  Key,        \* Key[e]: the idempotency key
  Permit,     \* Permit[e]: the budget slot the policy authorised e for, Nothing if none
  Writes,     \* the envelopes that are write requests
  MaxRuns,    \* bound on resets
  Nothing

Keys     == {Key[e] : e \in Envelopes}
Slots    == [requests : Nat, writes : Nat]
States   == Seq(Envelopes)
TaskIds  == (0..MaxRuns) \X Nat   \* the run and the slot in it
Receipts == [run : 0..MaxRuns, of : Envelopes, before : States, after : States]

ASSUME KeyAssumption    == DOMAIN Key = Envelopes
ASSUME PermitAssumption == /\ Permit \in [Envelopes -> Slots \cup {Nothing}]
                           /\ Writes \subseteq Envelopes
ASSUME RunsAssumption   == MaxRuns \in Nat
ASSUME NothingAssumption ==
  Nothing \notin Slots /\ Nothing \notin TaskIds /\ Nothing \notin Receipts

VARIABLES
  lab,       \* the actions the current LabState has recorded, in order
  env,       \* the attributes of the environment
  tasks,     \* the executions that have a task
  receipts,  \* what execute_observed committed in this run (history)
  issued     \* the receipts claimed, ever (history)
envVars == <<lab, env, tasks, receipts, issued>>

NoSpend == [requests |-> 0, writes |-> 0]
NoCache == [k \in Keys |-> Nothing]

Init == /\ lab = <<>>
        /\ env = [run |-> 0, active |-> FALSE, phase |-> "none",
                  inflight |-> Nothing, cache |-> NoCache, claims |-> {},
                  used |-> NoSpend, last |-> Nothing]
        /\ tasks = {} /\ receipts = <<>> /\ issued = <<>>
-------------------------------------------------------------------------------
Task == CHOOSE t \in tasks : t.id = env.inflight
Settled(t) == t.st = "settled"

\* Mutant of Recoverable: whatever was in flight is forgotten at once.
RecoverableAlways == env.phase # "executing"

\* _recover_settled_inflight lets a call through: there is no task, or the one
\* that was given up is done.
Recoverable == \/ env.phase = "none"
               \/ env.phase = "settling" /\ Settled(Task)

\* The reference is dropped; a task that is not done lives on without it.
Forgotten == {t \in tasks : t.id # env.inflight \/ ~Settled(t)}

\* Mutant of Cleared: a new run inherits the receipts of the last one.
ClearedKeepsCache(e) == [e EXCEPT !.claims = {}]

Cleared(e) == [e EXCEPT !.cache = NoCache, !.claims = {}]

Recovered(e) == [e EXCEPT !.phase = "none", !.inflight = Nothing]

\* reset and create_root_seed: a new LabState and a new run.
Activate ==
  /\ lab' = <<>>
  /\ env' = [Cleared(Recovered(env)) EXCEPT
               !.active = TRUE, !.run = @ + 1, !.used = NoSpend,
               !.last = Nothing]
  /\ tasks' = Forgotten
  /\ receipts' = <<>>
  /\ UNCHANGED issued

Reset == env.run < MaxRuns /\ Recoverable /\ Activate

\* cleanup: the lab itself is left as it is.
Cleanup ==
  /\ Recoverable
  /\ env' = [Cleared(Recovered(env)) EXCEPT !.active = FALSE]
  /\ tasks' = Forgotten
  /\ UNCHANGED <<lab, receipts, issued>>
-------------------------------------------------------------------------------
(* execute_observed *)

Known(e)    == env.cache[Key[e]] # Nothing
Conflict(e) == Known(e) /\ env.cache[Key[e]].of # e

\* The registry knows the action and its authorisation names this very slot.
Admitted(e) ==
  /\ env.phase = "none" /\ env.active /\ ~Known(e)
  /\ Permit[e] = env.used

\* The action was executed before in this run: its receipt is the answer.
Repeat(e) ==
  /\ env.phase = "none" /\ env.active /\ Known(e) /\ ~Conflict(e)
  /\ env' = [env EXCEPT !.last = e]
  /\ UNCHANGED <<lab, tasks, receipts, issued>>

\* The slot is spent before anything runs, and stays spent.
Reserve(e) ==
  LET id == <<env.run, env.used.requests>>
  IN  /\ Admitted(e)
      /\ env' = [env EXCEPT
                   !.phase = "executing", !.inflight = id,
                   !.used.requests = @ + 1,
                   !.used.writes = IF e \in Writes THEN @ + 1 ELSE @]
      /\ tasks' = tasks \cup {[id |-> id, of |-> e, before |-> lab,
                               st |-> "queued", ok |-> FALSE,
                               cancelled |-> FALSE]}
      /\ UNCHANGED <<lab, receipts, issued>>

\* The task ended well: the receipt is cached and the lock given back.
Commit ==
  LET r == [run |-> env.run, of |-> Task.of, before |-> Task.before,
            after |-> lab]
  IN  /\ env.phase = "executing" /\ Settled(Task) /\ Task.ok
      /\ env' = [Recovered(env) EXCEPT !.cache[Key[r.of]] = r, !.last = r.of]
      /\ tasks' = Forgotten
      /\ receipts' = Append(receipts, r)
      /\ UNCHANGED <<lab, issued>>

\* Mutant of Poison: a failed execution leaves the run open.
PoisonNothing ==
  /\ env' = Recovered(env)
  /\ tasks' = Forgotten
  /\ UNCHANGED <<lab, receipts, issued>>

\* The run is given up; a task that is not done is cancelled and stays.
Poison ==
  /\ env' = [env EXCEPT !.active = FALSE, !.phase = "settling"]
  /\ tasks' = (tasks \ {Task}) \cup {IF Settled(Task) THEN Task
                                      ELSE [Task EXCEPT !.cancelled = TRUE]}
  /\ UNCHANGED <<lab, receipts, issued>>

\* The task failed: an unexpected status, no evidence, an exception.
Fail == /\ env.phase = "executing" /\ Settled(Task) /\ ~Task.ok
        /\ Poison

\* The deadline of the action passes first.
Timeout == env.phase = "executing" /\ ~Settled(Task) /\ Poison

\* The caller is cancelled, perhaps when the task is already done.
Abandon == env.phase = "executing" /\ Poison

\* claim_runtime_observation, for a receipt a caller may hold.
Claim(r) ==
  /\ env.phase = "none" /\ env.active
  /\ env.cache[Key[r.of]] = r /\ r \notin env.claims
  /\ env' = [env EXCEPT !.claims = @ \cup {r}]
  /\ issued' = Append(issued, r)
  /\ UNCHANGED <<lab, tasks, receipts>>
-------------------------------------------------------------------------------
(* The task: the ASGI application and its handler thread. *)

Becomes(t, u) == tasks' = (tasks \ {t}) \cup {u}

\* The handler changes whatever lab the application holds by then.
Effect(t) ==
  /\ t.st = "queued"
  /\ lab' = Append(lab, t.of)
  /\ Becomes(t, [t EXCEPT !.st = "applied"])
  /\ UNCHANGED <<env, receipts, issued>>

\* The task ends.  A cancelled one ends badly, whatever its handler did; so does
\* one whose action did not append exactly its own evidence.
Settle(t) ==
  /\ t.st \in {"queued", "applied"}
  /\ \E ok \in BOOLEAN :
       /\ ok => lab = Append(t.before, t.of) /\ ~t.cancelled
       /\ Becomes(t, [t EXCEPT !.st = "settled", !.ok = ok])
  /\ UNCHANGED <<lab, env, receipts, issued>>

TaskStep == \E t \in tasks : Effect(t) \/ Settle(t)

Held == {env.cache[k] : k \in Keys} \cup {issued[i] : i \in DOMAIN issued}

Next == \/ Reset \/ Cleanup
        \/ \E e \in Envelopes : Repeat(e) \/ Reserve(e)
        \/ Commit \/ Fail \/ Timeout \/ Abandon
        \/ \E r \in Held \ {Nothing} : Claim(r)
        \/ TaskStep

Spec == Init /\ [][Next]_envVars
-------------------------------------------------------------------------------
(* Properties. *)

TaskRecord == [id : TaskIds, of : Envelopes, before : States,
           st : {"queued", "applied", "settled"}, ok : BOOLEAN,
           cancelled : BOOLEAN]

\* Types; while an action is in flight its task exists.
EnvTypeOK ==
  /\ lab \in States
  /\ env \in [run : 0..MaxRuns, active : BOOLEAN,
              phase : {"none", "executing", "settling"},
              inflight : TaskIds \cup {Nothing},
              cache : [Keys -> Receipts \cup {Nothing}],
              claims : SUBSET Receipts, used : Slots,
              last : Envelopes \cup {Nothing}]
  /\ tasks \subseteq TaskRecord
  /\ receipts \in Seq(Receipts) /\ issued \in Seq(Receipts)
  /\ env.phase = "none" <=> env.inflight = Nothing
  /\ env.phase # "none" => \E t \in tasks : t.id = env.inflight

\* While the run is open and nothing is in flight, the lab has recorded exactly
\* the committed actions: no effect is lost, doubled or left from a failure.
LabIsCommitted ==
  env.active /\ env.phase = "none" =>
    lab = [i \in DOMAIN receipts |-> receipts[i].of]

\* The receipts of a run are a chain from the clean root, each starting in the
\* state the one before it ended in, and the i-th holds budget slot i - 1.
ReceiptsChain ==
  \A i \in DOMAIN receipts :
    /\ receipts[i].before = (IF i = 1 THEN <<>> ELSE receipts[i - 1].after)
    /\ receipts[i].after = Append(receipts[i].before, receipts[i].of)
    /\ Permit[receipts[i].of].requests = i - 1

\* The lab and the receipts tell the same story (execute, _commit_success).
RunCommitted == LabIsCommitted /\ ReceiptsChain

\* An execution that was given up never touches the lab of a later run.
NoLateEffect ==
  [][\A t \in tasks : t.st = "queued" /\ Len(lab') > Len(lab) /\ t \notin tasks'
       => t.id[1] = env.run]_envVars

\* One key has at most one effect on a lab, however its caller retries.
EachKeyOnce ==
  \A i, j \in DOMAIN lab : Key[lab[i]] = Key[lab[j]] => i = j

\* No receipt is claimed twice, across clean-ups and resets.
ClaimedOnce == \A i, j \in DOMAIN issued : issued[i] = issued[j] => i = j

\* Neither an effect nor a receipt is had twice, however callers retry
\* (execute_observed, claim_runtime_observation).
OnceOnly == EachKeyOnce /\ ClaimedOnce
===============================================================================
