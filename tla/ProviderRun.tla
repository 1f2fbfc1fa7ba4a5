------------------------------ MODULE ProviderRun ------------------------------
(***************************************************************************)
(* run_m5_materialized_provider (docker_compose/.../adapter.py): a scenario *)
(* replayed on the state of six real providers, from a world forked for it *)
(* and put back and destroyed before the receipt is returned.  The bridge  *)
(* (real_provider_bridge.py) is a process in the world's container: it     *)
(* writes one provider after another, and a docker client that gives up    *)
(* does not stop it.  The world's life cycle is that of ComposeAdapter,    *)
(* here one step per call.                                                 *)
(***************************************************************************)
EXTENDS Integers, Sequences, FiniteSets

CONSTANTS
  Providers,   \* in the order _restore writes them
  Winner,      \* the marker of the M4 winner's state
  MaxMishaps, None

VARIABLES
  prov,    \* the host's call
  worlds,  \* worlds that exist: "root" and "fork"
  value,   \* value[p]: what provider p of the fork holds
  bridge,  \* the bridge process in the fork's container
  mishaps
pvars == <<prov, worlds, value, bridge, mishaps>>

Seed == <<0, "seed">>
All(v) == [p \in 1..Len(Providers) |-> v]

NoProv   == [pc |-> "idle", req |-> None, kept |-> None, steps |-> <<>>,
             final |-> None, receipt |-> None, raised |-> FALSE]
NoBridge == [job |-> "none", pc |-> "off", next |-> 1, step |-> 1,
             acts |-> <<>>, before |-> None, target |-> None, steps |-> <<>>]

ProvInit == /\ prov = NoProv /\ worlds = {} /\ value = All(Seed)
            /\ bridge = NoBridge

ProvMishap == mishaps < MaxMishaps /\ mishaps' = mishaps + 1
PcAt(pc)  == prov.pc = pc
Go(pc)    == prov' = [prov EXCEPT !.pc = pc]
\* Whatever is raised, the finally block destroys the fork and then the root.
Raise     == prov' = [prov EXCEPT !.pc = "destroy_fork", !.raised = TRUE]
-------------------------------------------------------------------------------
(* The bridge. *)

\* _m5_marker: derived from the action, never from what the world holds.
MarkerOf(i, a) == <<i, a>>

StartBridge(job, target) ==
  bridge' = [NoBridge EXCEPT !.job = job, !.pc = "write", !.target = target,
                             !.before = value, !.acts = prov.req.actions]

BridgeDies == ProvMishap /\ bridge' = [bridge EXCEPT !.pc = "failed"]

\* _restore: one provider after the other, each read back by its import.
BridgeWrite ==
  /\ bridge.pc = "write" /\ bridge.next <= Len(Providers)
  /\ \/ /\ value' = [value EXCEPT ![bridge.next] = bridge.target[bridge.next]]
        /\ bridge' = [bridge EXCEPT !.next = @ + 1] /\ UNCHANGED mishaps
     \/ BridgeDies /\ UNCHANGED value
  /\ UNCHANGED <<prov, worlds>>

\* A mutation or an import ends when the whole archive reads back as written;
\* a replay goes on to the next action, before being what it finds.
BridgeRead ==
  LET acts == bridge.acts
      Done == bridge.job # "replay" \/ bridge.step = Len(acts)
      New  == IF bridge.job = "replay"
              THEN Append(bridge.steps, [action |-> acts[bridge.step],
                     before |-> bridge.before, after |-> value])
              ELSE <<>>
  IN  /\ bridge.pc = "write" /\ bridge.next > Len(Providers)
      /\ \/ /\ bridge.job # "replay" => value = bridge.target
            /\ bridge.job = "replay" => value # bridge.before
            /\ bridge' = IF Done THEN [bridge EXCEPT !.pc = "ok", !.steps = New]
                         ELSE [bridge EXCEPT !.steps = New, !.step = @ + 1,
                                 !.next = 1, !.before = value,
                                 !.target = All(MarkerOf(bridge.step + 1,
                                                         acts[bridge.step + 1]))]
            /\ UNCHANGED mishaps
         \/ BridgeDies
      /\ UNCHANGED <<prov, worlds, value>>
-------------------------------------------------------------------------------
(* The host. *)

\* prepare, snapshot and fork; what a failed call made is undone by the adapter.
Prepare(req) ==
  /\ PcAt("idle")
  /\ \/ /\ worlds' = worlds \cup {"root"} /\ UNCHANGED mishaps
        /\ prov' = [NoProv EXCEPT !.pc = "fork", !.req = req]
     \/ /\ ProvMishap /\ UNCHANGED worlds
        /\ prov' = [NoProv EXCEPT !.pc = "end", !.req = req, !.raised = TRUE]
  /\ UNCHANGED <<value, bridge>>

Fork ==
  /\ PcAt("fork")
  /\ \/ /\ worlds' = worlds \cup {"fork"} /\ value' = All(Seed)
        /\ Go("winner") /\ UNCHANGED mishaps
     \/ ProvMishap /\ Raise /\ UNCHANGED <<worlds, value>>
  /\ UNCHANGED bridge

\* A bridge command is started; the client waits for its end or gives up.
Command ==
  /\ \/ PcAt("winner") /\ StartBridge("mutate", All(Winner)) /\ Go("await_winner")
     \/ /\ PcAt("replay") /\ Go("await_replay")
        /\ StartBridge("replay", All(MarkerOf(1, prov.req.actions[1])))
     \/ PcAt("put_back") /\ StartBridge("import", prov.kept) /\ Go("await_import")
  /\ UNCHANGED <<worlds, value, mishaps>>

NextPc == [await_winner |-> "baseline", await_replay |-> "final",
           await_import |-> "restored"]

Answered ==
  /\ prov.pc \in DOMAIN NextPc
  /\ \/ /\ bridge.pc = "ok" /\ UNCHANGED mishaps
        /\ prov' = [prov EXCEPT !.pc = NextPc[prov.pc],
             !.steps = IF bridge.job = "replay" THEN bridge.steps ELSE @]
     \/ bridge.pc = "failed" /\ Raise /\ UNCHANGED mishaps
     \/ ProvMishap /\ Raise
  /\ UNCHANGED <<worlds, value, bridge>>

\* The winner's state is there, exactly as its M4 receipt says.
Baseline ==
  /\ PcAt("baseline")
  /\ \/ /\ IF value = All(Winner)
           THEN prov' = [prov EXCEPT !.pc = "replay", !.kept = value] ELSE Raise
        /\ UNCHANGED mishaps
     \/ ProvMishap /\ Raise
  /\ UNCHANGED <<worlds, value, bridge>>

FinalState ==
  /\ PcAt("final")
  /\ \/ /\ IF value = prov.steps[Len(prov.steps)].after
           THEN prov' = [prov EXCEPT !.pc = "put_back", !.final = value] ELSE Raise
        /\ UNCHANGED mishaps
     \/ ProvMishap /\ Raise
  /\ UNCHANGED <<worlds, value, bridge>>

\* receipt_is_closed
ProviderClosed(r) ==
  /\ Len(r.steps) = Len(r.req.actions)
  /\ \A i \in DOMAIN r.steps : /\ r.steps[i].action = r.req.actions[i]
                               /\ r.steps[i].before # r.steps[i].after
  /\ r.steps[1].before = All(Winner)
  /\ \A i \in 1..(Len(r.steps) - 1) : r.steps[i].after = r.steps[i + 1].before
  /\ r.final = r.steps[Len(r.steps)].after
  /\ r.restored = All(Winner)

\* The receipt that says "destroyed" is built before anything is destroyed.
Restored ==
  LET r == [req |-> prov.req, steps |-> prov.steps, final |-> prov.final,
            restored |-> value]
  IN  /\ PcAt("restored")
      /\ \/ /\ IF value = prov.kept /\ ProviderClosed(r)
               THEN prov' = [prov EXCEPT !.pc = "destroy_fork", !.receipt = r]
               ELSE Raise
            /\ UNCHANGED mishaps
         \/ ProvMishap /\ Raise
      /\ UNCHANGED <<worlds, value, bridge>>

\* destroy raises when it cannot remove the world, and the root's turn comes
\* all the same.
DestroyFork ==
  /\ PcAt("destroy_fork")
  /\ \/ /\ worlds' = worlds \ {"fork"} /\ bridge' = NoBridge
        /\ Go("destroy_root") /\ UNCHANGED mishaps
     \/ /\ "fork" \in worlds /\ ProvMishap /\ UNCHANGED <<worlds, bridge>>
        /\ prov' = [prov EXCEPT !.pc = "destroy_root", !.raised = TRUE]
  /\ UNCHANGED value

\* Mutant of DestroyRoot: what destroy raises is swallowed.
DestroyRootQuiet ==
  /\ PcAt("destroy_root")
  /\ \/ worlds' = worlds \ {"root"} /\ Go("end") /\ UNCHANGED mishaps
     \/ ProvMishap /\ Go("end") /\ UNCHANGED worlds
  /\ UNCHANGED <<value, bridge>>

DestroyRoot ==
  /\ PcAt("destroy_root")
  /\ \/ worlds' = worlds \ {"root"} /\ Go("end") /\ UNCHANGED mishaps
     \/ /\ ProvMishap /\ UNCHANGED worlds
        /\ prov' = [prov EXCEPT !.pc = "end", !.raised = TRUE]
  /\ UNCHANGED <<value, bridge>>

Bridge   == BridgeWrite \/ BridgeRead
ProvHost == \/ Fork \/ Command \/ Answered \/ Baseline \/ FinalState \/ Restored
            \/ DestroyFork \/ DestroyRoot
===============================================================================
