---------------------------- MODULE MaterializedRun ----------------------------
(***************************************************************************)
(* MaterializedLabDockerRuntime: one scenario of the lab application, run  *)
(* in a Compose project of its own that is torn down whatever happens      *)
(* (adapters/environments/docker_compose/.../materialized_lab_runtime.py). *)
(*                                                                         *)
(* The host talks to docker one command at a time; each may fail, pass its *)
(* deadline or be cancelled.  The process it starts in the container runs  *)
(* by itself, and runs on when the docker client it was started with is    *)
(* gone.  The checkpoint store is used through its promise (Generations):  *)
(* CheckpointStore shows what keeps it.                                    *)
(***************************************************************************)
EXTENDS Integers, Sequences, FiniteSets

CONSTANTS
  Writes,      \* the actions whose method is not GET, HEAD or OPTIONS
  Primary,     \* the action sequence that discloses the document
  Images,      \* what "materialized-lab" may be tagged with
  Revision(_), \* the source revision an image is labelled with
  Marker,      \* the revision the requests are for
  MaxMishaps,   \* bound on commands and steps that fail
  MaxRebuilds, \* bound on retagged images
  None

VARIABLES
  built,     \* the image the tag names now
  call,      \* the host's run call
  projects,  \* the Compose projects that docker still has
  box,       \* the process in the container
  disk,      \* the checkpoint store in the project's volumes
  mishaps, rebuilds
rvars == <<built, call, projects, box, disk, mishaps, rebuilds>>

NoCall == [pc |-> "idle", req |-> None, project |-> 0, image |-> None,
           bound |-> FALSE, output |-> None, failed |-> FALSE,
           raised |-> FALSE, dirty |-> FALSE]
NoBox  == [pc |-> "off", req |-> None, at |-> 1, lab |-> <<>>,
           writes |-> 0, current |-> None, initial |-> None, steps |-> <<>>]
Blank  == [active |-> None, whole |-> {}]

RunInit == /\ built \in Images /\ call = NoCall /\ projects = {} /\ box = NoBox
           /\ disk = Blank /\ mishaps = 0 /\ rebuilds = 0

Mishap   == mishaps < MaxMishaps /\ mishaps' = mishaps + 1
NoMishap == UNCHANGED mishaps
CallAt(pc)  == call.pc = pc
-------------------------------------------------------------------------------
(* Requests and receipts. *)

WritesBefore(actions, i) ==
  Cardinality({j \in 1..(i - 1) : actions[j] \in Writes})

\* A request carries, with each action, the budget its authorization is for.
ClosedBytes(req) ==
  /\ Len(req.actions) \in 1..8 /\ Len(req.budget) = Len(req.actions)
  /\ Cardinality({req.actions[i] : i \in DOMAIN req.actions}) = Len(req.actions)
  /\ \A i \in DOMAIN req.actions :
       req.budget[i] = [requests |-> i - 1, writes |-> WritesBefore(req.actions, i)]
  /\ (req.scenario = "primary_patched") = (req.mode = "patched")

\* A checkpoint is its content: the mode and what the lab has been through.
LabCheckpoint(mode, lab) == [mode |-> mode, lab |-> lab]

Verdict(c) == IF c.mode = "vulnerable" /\ c.lab = Primary
              THEN "VIOLATED" ELSE "NOT_VIOLATED"
Status(c)  == IF c.mode = "patched" /\ c.lab = Primary THEN 403 ELSE 200

StepBound(step) ==
  /\ step.after.lab # <<>>
  /\ step.after.lab[Len(step.after.lab)] = step.action
  /\ step.verdict = Verdict(step.after)

\* _closed: the steps are the actions asked for, each starts where the one
\* before ended, and the first and the last are the run's ends.
Closed(r) ==
  /\ Revision(r.image) = r.req.marker
  /\ Len(r.steps) = Len(r.req.actions)
  /\ \A i \in DOMAIN r.steps : /\ r.steps[i].action = r.req.actions[i]
                               /\ StepBound(r.steps[i])
  /\ r.steps[1].before = r.initial
  /\ \A i \in 1..(Len(r.steps) - 1) : r.steps[i].after = r.steps[i + 1].before
  /\ r.steps[Len(r.steps)].after = r.final

Receipt == [req |-> call.req, image |-> call.image, project |-> call.project,
            initial |-> call.output.initial, steps |-> call.output.steps,
            final |-> call.output.final]
-------------------------------------------------------------------------------
(* The process in the container. *)

Exit(code) == box' = [box EXCEPT !.pc = code]
Dies       == Mishap /\ Exit("exit70")

\* The promise of the store: a generation is staged whole or not at all, and
\* the pointer moves from the generation named to one that is whole.
Staged(g)       == [disk EXCEPT !.whole = @ \cup {g}]
Swapped(d, g)   == [d EXCEPT !.active = g]
MaySwap(from)   == disk.active = from

\* A fresh application; its first checkpoint becomes the visible one.
Boot ==
  LET c == LabCheckpoint(box.req.mode, <<>>)
  IN  /\ box.pc = "boot"
      /\ \/ /\ MaySwap(None) /\ disk' = Swapped(Staged(c), c)
            /\ box' = [box EXCEPT !.pc = "load", !.current = c, !.initial = c]
            /\ NoMishap
         \/ disk' \in {disk, Staged(c), Swapped(Staged(c), c)} /\ Dies
      /\ UNCHANGED <<built, call, projects, rebuilds>>

\* The application continues from what the store shows, when that is what the
\* step before left and the budget is the one the action was authorized for.
Load ==
  /\ box.pc = "load" /\ box.at <= Len(box.req.actions)
  /\ \/ /\ disk.active = box.current
        /\ box.req.budget[box.at] = [requests |-> box.at - 1, writes |-> box.writes]
        /\ box' = [box EXCEPT !.pc = "act", !.lab = disk.active.lab]
        /\ NoMishap
     \/ Dies
  /\ UNCHANGED <<built, call, projects, disk, rebuilds>>

\* The action over ASGI.  A deadline, a status that was not admitted or a
\* second evidence record ends the process before anything is staged.
Act ==
  /\ box.pc = "act"
  /\ \/ /\ box' = [box EXCEPT !.pc = "commit",
                              !.lab = Append(@, box.req.actions[box.at])]
        /\ NoMishap
     \/ Dies
  /\ UNCHANGED <<built, call, projects, disk, rebuilds>>

Commit ==
  LET a == box.req.actions[box.at]
      c == LabCheckpoint(box.current.mode, box.lab)
  IN  /\ box.pc = "commit"
      /\ \/ /\ MaySwap(box.current) /\ disk' = Swapped(Staged(c), c)
            /\ box' = [box EXCEPT !.pc = "load", !.at = @ + 1, !.current = c,
                 !.writes = IF a \in Writes THEN @ + 1 ELSE @,
                 !.steps = Append(@, [action |-> a, before |-> box.current,
                             after |-> c, verdict |-> Verdict(c)])]
            /\ NoMishap
         \/ disk' \in {disk, Staged(c), Swapped(Staged(c), c)} /\ Dies
      /\ UNCHANGED <<built, call, projects, rebuilds>>

Exit0 ==
  /\ box.pc = "load" /\ box.at > Len(box.req.actions)
  /\ Exit("exit0")
  /\ UNCHANGED <<built, call, projects, disk, mishaps, rebuilds>>
-------------------------------------------------------------------------------
(* The host. *)

\* A command that passes its deadline is noted; one that exits with an error,
\* and a cancellation, are raised at once.  Both lead to the clean-up.
Broken == \E raised \in BOOLEAN :
            call' = [call EXCEPT !.pc = "down", !.raised = raised,
                                 !.failed = ~raised]

Run(req) ==
  /\ CallAt("idle") /\ ClosedBytes(req)
  /\ call' = [NoCall EXCEPT !.pc = "up", !.req = req, !.project = call.project + 1]
  /\ UNCHANGED <<built, projects, box, disk, mishaps, rebuilds>>

Up ==
  /\ CallAt("up")
  /\ \/ /\ projects' = projects \cup {call.project} /\ disk' = Blank
        /\ call' = [call EXCEPT !.pc = "bind", !.image = built]
        /\ NoMishap
     \/ /\ projects' \in {projects, projects \cup {call.project}}
        /\ Mishap /\ Broken /\ UNCHANGED disk
  /\ UNCHANGED <<built, box, rebuilds>>

\* _executed_image_binding inspects the containers that run, not the tag.
ImageBinding ==
  /\ CallAt("bind")
  /\ \/ /\ Revision(call.image) = call.req.marker
        /\ call' = [call EXCEPT !.pc = "exec", !.bound = TRUE] /\ NoMishap
     \/ /\ Revision(call.image) # call.req.marker
        /\ call' = [call EXCEPT !.pc = "down", !.raised = TRUE] /\ NoMishap
     \/ Mishap /\ Broken
  /\ UNCHANGED <<built, projects, box, disk, rebuilds>>

Exec ==
  /\ CallAt("exec")
  /\ box' = [NoBox EXCEPT !.pc = "boot", !.req = call.req]
  /\ call' = [call EXCEPT !.pc = "wait"]
  /\ UNCHANGED <<built, projects, disk, mishaps, rebuilds>>

\* The process has ended, or docker or the caller gives up waiting for it.
Executed ==
  /\ CallAt("wait")
  /\ \/ /\ box.pc = "exit0" /\ NoMishap
        /\ call' = [call EXCEPT !.pc = "down", !.output =
             [initial |-> box.initial, steps |-> box.steps, final |-> box.current]]
     \/ /\ box.pc = "exit70" /\ NoMishap
        /\ call' = [call EXCEPT !.pc = "down", !.raised = TRUE]
     \/ Mishap /\ Broken
  /\ UNCHANGED <<built, projects, box, disk, rebuilds>>

\* The finally block; a cancellation of down is taken for its failure.
Down ==
  /\ CallAt("down")
  /\ \/ /\ projects' = projects \ {call.project} /\ box' = NoBox /\ disk' = Blank
        /\ call' = [call EXCEPT !.pc = "inventory"] /\ NoMishap
     \/ /\ \/ UNCHANGED <<projects, box, disk>>
           \/ projects' = projects \ {call.project} /\ box' = NoBox /\ disk' = Blank
        /\ Mishap /\ call' = [call EXCEPT !.pc = "end", !.dirty = TRUE]
  /\ UNCHANGED <<built, rebuilds>>

\* _assert_project_clean
Inventory ==
  /\ CallAt("inventory")
  /\ \/ /\ call' = [call EXCEPT !.pc = "end", !.dirty = call.project \in projects]
        /\ NoMishap
     \/ Mishap /\ call' = [call EXCEPT !.pc = "end", !.dirty = TRUE]
  /\ UNCHANGED <<built, projects, box, disk, rebuilds>>

\* What raised on its way through the finally block goes on; the notes only
\* count when nothing did.
RunOutcome ==
  CASE call.raised              -> "raised"
    [] ~call.raised /\ call.dirty -> "cleanup failed"
    [] OTHER -> IF call.failed \/ call.output = None THEN "failed closed"
                ELSE IF Closed(Receipt) THEN "receipt" ELSE "failed closed"

Rebuild ==
  /\ rebuilds < MaxRebuilds /\ rebuilds' = rebuilds + 1
  /\ built' \in Images \ {built}
  /\ UNCHANGED <<call, projects, box, disk, mishaps>>

Container == Boot \/ Load \/ Act \/ Commit \/ Exit0
Host      == Up \/ ImageBinding \/ Exec \/ Executed \/ Down \/ Inventory
===============================================================================
