------------------------------ MODULE ReplayKernel ------------------------------
(***************************************************************************)
(* ReplayKernel.replay over the in-process lab                             *)
(* (packages/replay/.../kernel.py): reset to the pinned root, execute the  *)
(* plan step by step, stop at the first failure, always clean up.          *)
(*                                                                         *)
(* The kernel is one coroutine.  It suspends only while an action is in    *)
(* flight, and only there can its step timeout or a cancellation from      *)
(* outside reach it.  The environment is "an untrusted boundary": a call   *)
(* to it may also raise for reasons of its own.                            *)
(***************************************************************************)
EXTENDS InProcessLab

CONSTANTS
  Plans,       \* plans: the envelopes of their steps, in order
  MaxReplays   \* bound on calls of replay

\* The names of the boundaries of a replay, which no step of a plan may use.
Boundaries == {"preflight", "root", "environment", "cleanup"}

ASSUME PlansAssumption ==
  \A p \in Plans : /\ p \in Seq(Envelopes) /\ p # <<>>
                   /\ \A i, j \in DOMAIN p : Key[p[i]] = Key[p[j]] => i = j
                   /\ \A i \in DOMAIN p : p[i] \notin Boundaries
ASSUME ReplaysAssumption == MaxReplays \in Nat
ASSUME NoResultAssumption == Nothing \notin Plans \cup {<<>>} \cup Envelopes \cup Boundaries

Verdicts == {"allowed", "mismatch"}
Roots    == {"canonical", "diverged", "unsupported", "other"}

VARIABLES
  plan,     \* the plan that is replayed, and replayed again
  verdict,  \* verdict[i]: what the oracles of step i will say
  replay,   \* the locals of the running replay
  answer,   \* how the last replay ended
  replays
kernelVars == <<plan, verdict, replay, answer, replays>>
vars == <<envVars, kernelVars>>

Idle == [pc |-> "idle", root |-> Nothing, i |-> 0, steps |-> <<>>,
         status |-> "failed", failed |-> Nothing, before |-> Nothing,
         rootAt |-> Nothing, final |-> Nothing, cancelled |-> FALSE]

KernelInit ==
  /\ Init
  /\ plan \in Plans /\ verdict \in [DOMAIN plan -> Verdicts]
  /\ replay = Idle /\ answer = Nothing /\ replays = 0
-------------------------------------------------------------------------------
Result(id, status, before, after) ==
  [id |-> id, status |-> status, before |-> before, after |-> after]
Failure(id) == Result(id, "failed", Nothing, Nothing)
Skipped(i)  == Result(plan[i], "skipped", Nothing, Nothing)

UnchangedKernel == UNCHANGED <<plan, verdict, answer, replays>>

\* An exception of the environment ends the run at the boundary called id.
Boundary(id, status) ==
  replay' = [replay EXCEPT !.pc = "cleanup", !.status = status, !.failed = id,
                 !.steps = Append(@, Failure(id))]

\* replay: the preflight compares the identifiers of plan and root.
Begin(root) ==
  /\ replay.pc = "idle" /\ replays < MaxReplays
  /\ replays' = replays + 1
  /\ answer' = Nothing
  /\ replay' = IF root = "other"
          THEN [Idle EXCEPT !.pc = "cleanup", !.root = root,
                            !.steps = <<Failure("preflight")>>,
                            !.failed = "preflight"]
          ELSE [Idle EXCEPT !.pc = "reset", !.root = root]
  /\ UNCHANGED <<envVars, plan, verdict>>

\* The reset of the environment, and the check of what it restored.
ResetRoot ==
  /\ replay.pc = "reset"
  /\ \/ /\ replay.root # "unsupported" /\ Reset
        /\ replay' = IF replay.root = "diverged"
                THEN [replay EXCEPT !.pc = "cleanup", !.status = "root_diverged",
                               !.failed = "root", !.rootAt = <<>>,
                               !.final = <<>>,
                               !.steps = <<Result("root", "failed", <<>>, Nothing)>>]
                ELSE [replay EXCEPT !.pc = "before", !.i = 1, !.rootAt = <<>>,
                               !.final = <<>>]
     \/ /\ replay.root = "unsupported" \/ ~Recoverable
        /\ Boundary("environment", "failed") /\ UNCHANGED envVars
     \/ /\ Boundary("environment", "failed")
        /\ UNCHANGED envVars \/ (replay.root # "unsupported" /\ Reset)
  /\ UnchangedKernel

\* What a step that did not pass leaves to do: a last capture, unless the state
\* after it is known.
StepFails == replay' = [replay EXCEPT !.pc = "recover"]

CaptureBefore ==
  /\ replay.pc = "before"
  /\ \/ env.phase = "none" /\ replay' = [replay EXCEPT !.pc = "execute", !.before = lab]
     \/ StepFails
  /\ UNCHANGED envVars /\ UnchangedKernel

\* The call of execute, up to the suspension or the refusal.  The reset left no
\* receipt and no two steps share a key, so none is answered from the cache.
ExecuteStep ==
  /\ replay.pc = "execute"
  /\ \/ Reserve(plan[replay.i]) /\ replay' = [replay EXCEPT !.pc = "wait"]
     \/ StepFails /\ UNCHANGED envVars
  /\ UnchangedKernel

\* The deadline of the step cancels the call, and with it the execution.
StepTimeout == replay.pc = "wait" /\ Abandon /\ StepFails /\ UnchangedKernel

\* execute returns or raises.
ExecuteReturns ==
  /\ replay.pc = "wait"
  /\ \/ Commit /\ replay' = [replay EXCEPT !.pc = "after"]
     \/ (Fail \/ Timeout) /\ StepFails
  /\ UnchangedKernel

\* The task that replays is cancelled from outside.
CancelReplay ==
  /\ replay.pc = "wait" /\ Abandon
  /\ replay' = [replay EXCEPT !.pc = "cleanup", !.cancelled = TRUE]
  /\ UnchangedKernel

\* The last result and those of the steps that are not tried any more.
Stop(result) ==
  replay' = [replay EXCEPT !.pc = "cleanup", !.failed = plan[replay.i],
          !.steps = @ \o <<result>>
                    \o [j \in 1..(Len(plan) - replay.i) |-> Skipped(replay.i + j)],
          !.final = IF result.after # Nothing THEN result.after ELSE result.before]

\* The capture after the action, and the oracles, which never suspend.  The step
\* fails with the state after it known when a verdict is not an expected one or
\* when an oracle raises.
CaptureAfter ==
  /\ replay.pc = "after"
  /\ LET last   == replay.i = Len(plan)
         Passed == Result(plan[replay.i], "passed", replay.before, lab)
     IN  \/ /\ env.phase = "none" /\ verdict[replay.i] = "allowed"
            /\ replay' = [replay EXCEPT !.pc = IF last THEN "cleanup" ELSE "before",
                              !.status = IF last THEN "succeeded" ELSE @,
                              !.i = IF last THEN @ ELSE @ + 1,
                              !.steps = Append(@, Passed), !.final = lab,
                              !.before = Nothing]
         \/ env.phase = "none" /\ Stop(Result(plan[replay.i], "failed", replay.before, lab))
         \/ StepFails
  /\ UNCHANGED envVars /\ UnchangedKernel

\* _best_effort_capture; without it the last known state stands in.
Recover ==
  /\ replay.pc = "recover"
  /\ LET known == IF replay.before # Nothing THEN replay.before ELSE replay.final
     IN  \/ env.phase = "none" /\ Stop(Result(plan[replay.i], "failed", known, lab))
         \/ Stop(Result(plan[replay.i], "failed", known, Nothing))
  /\ UNCHANGED envVars /\ UnchangedKernel

\* What replay gives to its caller: a result, or the cancellation.
Ended(cleanupFailed) ==
  LET r == IF cleanupFailed
           THEN [replay EXCEPT !.status = "cleanup_failed",
                          !.steps = Append(@, Failure("cleanup")),
                          !.failed = IF @ = Nothing THEN "cleanup" ELSE @]
           ELSE replay
  IN  [kind |-> IF replay.cancelled THEN "cancelled" ELSE "result",
       dirty |-> cleanupFailed, status |-> r.status, steps |-> r.steps,
       failed |-> r.failed, root |-> r.rootAt, final |-> r.final]

\* Mutant of CleanUp: a run that failed is left as it is.
CleanUpSuccess ==
  /\ replay.pc = "cleanup"
  /\ IF replay.status = "succeeded" THEN Cleanup ELSE UNCHANGED envVars
  /\ answer' = Ended(FALSE) /\ replay' = Idle /\ UNCHANGED <<plan, verdict, replays>>

\* Mutant of CleanUp: it waits until the environment has settled.
CleanUpWaits ==
  /\ replay.pc = "cleanup" /\ Cleanup
  /\ answer' = Ended(FALSE) /\ replay' = Idle /\ UNCHANGED <<plan, verdict, replays>>

\* The finally clause, and the construction of the result.
CleanUp ==
  /\ replay.pc = "cleanup"
  /\ \/ Cleanup /\ answer' = Ended(FALSE)
     \/ UNCHANGED envVars /\ answer' = Ended(TRUE)
  /\ replay' = Idle
  /\ UNCHANGED <<plan, verdict, replays>>
-------------------------------------------------------------------------------
KernelStep ==
  \/ ResetRoot \/ CaptureBefore \/ ExecuteStep \/ ExecuteReturns \/ StepTimeout
  \/ CaptureAfter \/ Recover \/ CleanUp

KernelNext ==
  \/ \E root \in Roots : Begin(root)
  \/ KernelStep \/ CancelReplay
  \/ TaskStep /\ UNCHANGED kernelVars

KernelSpec == KernelInit /\ [][KernelNext]_vars

\* asyncio resumes a ready coroutine, and a step's deadline does pass; that the
\* handler ever ends is not assumed.
FairKernelSpec == KernelSpec /\ WF_vars(KernelStep)
-------------------------------------------------------------------------------
(* Properties. *)

Prefix(n) == SubSeq(plan, 1, n)
StepIds   == {plan[i] : i \in DOMAIN plan}
Place(id) == CHOOSE i \in DOMAIN plan : plan[i] = id
Ids       == StepIds \cup Boundaries
Statuses  == {"succeeded", "failed", "root_diverged", "cleanup_failed"}
Finished  == answer # Nothing /\ answer.kind = "result"

\* Types; during a replay, the environment is executing exactly while the kernel
\* waits for it.
KernelTypeOK ==
  /\ EnvTypeOK
  /\ replay.i \in 0..Len(plan) /\ replay.status \in Statuses
  /\ \A i \in DOMAIN replay.steps : replay.steps[i].id \in Ids
  /\ replay.pc \in {"before", "execute", "wait", "after", "recover"} => replay.i >= 1
  /\ replay.pc # "idle" => (env.phase = "executing" <=> replay.pc = "wait")

\* ReplayRunResult.action_log_matches_step_results: replay never builds a result
\* that the validator of its own model would refuse.
Accepted(r) ==
  LET ids     == [i \in DOMAIN r.steps |-> r.steps[i].id]
      Bad     == {i \in DOMAIN r.steps : r.steps[i].status = "failed"}
  IN  /\ \A i, j \in DOMAIN ids : ids[i] = ids[j] => i = j
      /\ IF r.status = "succeeded"
         THEN /\ ids # <<>> /\ r.failed = Nothing
              /\ \A i \in DOMAIN r.steps : r.steps[i].status = "passed"
              /\ r.root # Nothing /\ r.final # Nothing
         ELSE /\ \E i \in Bad : /\ \A j \in Bad : i <= j
                                /\ r.failed = ids[i]
                                /\ r.status = "root_diverged" => ids[i] = "root"
              /\ r.status = "cleanup_failed" <=> \E i \in Bad : ids[i] = "cleanup"
      /\ \A i \in DOMAIN ids : ids[i] \in StepIds =>
           i \in DOMAIN plan /\ \A j \in 1..i : ids[j] = plan[j]
ResultAccepted == Finished => Accepted(answer)

\* Every state a result reports is one the plan leads to: a step started from
\* all steps before it and nothing else, and a passed one added exactly itself,
\* whatever an earlier replay left unsettled.
FingerprintsExact ==
  Finished => \A i \in DOMAIN answer.steps :
    LET s == answer.steps[i]
    IN  s.id \in StepIds /\ s.status # "skipped" =>
          /\ s.before = Prefix(Place(s.id) - 1)
          /\ s.after \in {Prefix(Place(s.id))} \cup
               (IF s.status = "passed" THEN {} ELSE {Nothing, s.before})

\* Success means that every oracle was content and that the lab went through the
\* whole plan, each step once.
SuccessIsWholePlan ==
  Finished /\ answer.status = "succeeded" =>
    /\ \A i \in DOMAIN plan : verdict[i] = "allowed"
    /\ Len(answer.steps) = Len(plan) /\ lab = plan

\* The result is one its own model accepts, and a success stands for the whole
\* plan (the validators of ReplayRunResult, replay).
ResultSound == KernelTypeOK /\ ResultAccepted /\ SuccessIsWholePlan

\* After a replay whose clean-up did not fail, cancelled or not, the environment
\* is closed and nothing is left in flight.
CleanReturn ==
  answer # Nothing => /\ env.phase # "executing"
                      /\ ~answer.dirty => ~env.active /\ env.phase = "none"

\* A replay returns a result that its own model accepts, that reports only
\* states its plan leads to, and that leaves nothing open (ReplayKernel.replay).
ReplaySound == ResultSound /\ FingerprintsExact /\ CleanReturn

\* A replay comes to its end, even when the handler of an action never does.
ReplayReturns == replay.pc # "idle" ~> replay.pc = "idle"
===============================================================================
