# StateWeaver: verification project

TLA+ models of the parts of StateWeaver that carry its own logic, model-checked
with TLC on small instances and, for most of them, proved with TLAPS for every
value of the constants. Module, action and field names follow the Python source;
`PROJECT.json` maps every definition to the lines it translates, lists the hazards
of the code with the properties that cover each, and names one mutant for every
property: a change to the model that a plausible bug would make, and that the
property must catch.

    tlc -config worlds.cfg MCWorldManager.tla     # one run
    tlapm WorldManagerProofs.tla                  # the proofs of one component

## 1. The system

StateWeaver explores the states of an application as *worlds*: candidates are
ranked cheaply, promoted tier by tier (ghost, replay, simulated, materialized)
under a hard budget, materialized by an environment adapter, and whatever was
found is made a plan and replayed from a clean root. What a qualification shows
is written into receipts, and receipts are collected in an evidence bundle that a
verifier reads again.

| Component | State it keeps | Operations | Interacts with | Correct when |
|---|---|---|---|---|
| World manager (`packages/worlds`) | catalog of nodes, reservations, deduplication indexes, one gate per world | prepare, fork, create_ghost, snapshot, restore, destroy, transition | awaits an environment adapter; called by concurrent coroutines | no environment has two owners, none is forgotten before its destruction is confirmed, no commit is stale |
| Search controller (`packages/search`) | none; the budget ledger is passed in and returned | advance | called by the workflow | selection is best first within diversity; eight limits hold over all calls |
| Promotion workflow (`workflows/world`) | committed ledger, active allocations, pending clean-ups, sibling identities, one lock | advance, close | calls the search; awaits allocator, capture and release callbacks | every allocation is released exactly once; the ledger matches the worlds |
| Materialized search (`apps/cli/.../materialized_search_qualification.py`) | the worlds of the stage, the port's table | three calls of advance, close | promotion workflow, Compose adapter | no world is left; the winner is the best ghost |
| Lab (`labs/multitenant-saas`) | sessions, invitations, job queue, cache, clock, evidence | HTTP handlers, the queue, reset, sealed checkpoints | the target application of the adapters | the oracle reports only a whole chain; checkpoints are exact |
| In-process lab adapter (`adapters/environments/in_process_lab`) | the run, its receipts, budget slots, the action in flight, one lock | reset, execute_observed, capture, claim, cleanup | lab through ASGI in a thread; policy authorisations | an open run shows exactly its committed actions, each once |
| Replay kernel (`packages/replay`) | one run's step records | replay, replay_many | an environment adapter and oracles | a result reports only states the plan leads to; clean-up always runs |
| Chain replay (`apps/cli`: foundation, m5_plan, observed_chain_qualification) | the scenarios and what they ended in | two campaigns of replays | policy, replay kernel, lab | accepted exactly when every scenario ended where it should |
| Runtime observation (`adapters/telemetry/.../runtime.py`, `runtime_qualification.py`) | ledger of observations, a lock, the poisoned flag | observe, verify; the M3 driver | the in-process adapter, beside its other callers | each action observed once, nothing after an uncertain execution |
| Checkpoint bridge (`docker_compose/real_provider_bridge.py`) | shards in six providers, one pointer in PostgreSQL | load_active, stage, capture, compare_and_swap; export, restore | provider clients; other processes | what is visible is complete everywhere |
| Compose adapter (`docker_compose/adapter.py`, `runner.py`) | registry of live worlds and snapshots, a lock per world | prepare, fork, snapshot, restore, materialize, destroy, the M5 provider run | Docker through a process runner | no project is forgotten; archives and restores are exact |
| Materialized lab runtime, materialized chain qualification | one container run, its receipts; the runs retained | run; the ten runs of the plan, twice | Compose runner, checkpoint bridge, lab | the runs do not overlap; a composite receipt stands for the whole plan |
| Policy (`packages/policy`) | none; verdicts bind a snapshot of scope and budget | evaluate, authorize | called before every action | nothing outside scope or budget is authorised |
| Evidence bundle (`packages/evidence`: collector, verify, acceptance; `apps/cli/.../evidence.py`) | the directory of one run id | collect, verify | receipts of all of the above; other collectors | only what one collection wrote is declared valid |
| Hosted qualification (producer and consumer) | one receipt | bind, admit | the attestation service | the search and the replays in a receipt are of one revision and one set of runs; the producer sees to the same of the live test |
| Compiler, admission, contracts, telemetry ingest, twin, extractor, reporting, API, web, benchmark, candidate tools | files, or none | builders, renderers, drivers | read-only consumers of the above | data transformation |

### What is hard

* **Interleaving.** Concurrency is cooperative (asyncio) in the packages, so
  state read before an `await` may be stale after it; the world manager awaits
  its adapter up to four times in one command. The lab's handlers run in a
  thread pool, the checkpoint bridge is used by separate processes, and collectors
  share a directory, so there any two calls may interleave.
* **Failure and cancellation.** Every awaited call may raise, time out, answer
  with the wrong object or be cancelled, and so may the compensation that
  follows. Nothing created may be forgotten, nothing may be destroyed on behalf
  of somebody else.
* **Effects that outlive their call.** A handler thread goes on after its
  action timed out; a `docker exec` goes on after its client was killed.
* **Untrusted answers.** Adapters and allocators may return an identity that is
  already in use; an image tag may be rebuilt at any time; a bundle may be changed
  while it is read.
* **Budgets.** Several limits bind at once, across calls; a provisional
  reservation may fail to commit.
* **Documents that repeat each other.** A receipt put together from two genuine
  ones satisfies most of the checks that are local to one part.

`PROJECT.json` "hazards" lists each of these at the line where it bites.

## 2. The modules

An MC module gives the constants of its component small values; a `.cfg` names
the properties of one run. `A <- B`: B extends A; `==>`: implements;
`-->`: instantiates.

    WorldStore <- WorldManager <- WorldManagerProofs

    BeamSearch <- SearchCampaign                 (--> MCSearch)
    BeamSearch <- PromotionWorkflow ==> Custody
                  PromotionWorkflow <- SearchQualification <- MCSearch
    SearchCampaign <- SearchCampaignProofs
    SearchQualification, SearchCampaignProofs <- PromotionWorkflowProofs

    InProcessLab <- ReplayKernel ==> InProcessLab  ------+
         +------ <- RuntimeObservation ==> InProcessLab  +- MCInProcess
                    RuntimeObservation <- RuntimeQualification
    ReplayKernel, RuntimeQualification <- InProcessProofs

    LabState, Policy <- ChainReplay
    MaterializedRun  <- ChainQualification (--> ProviderRun)
    ChainReplay, ChainQualification <- MCChains, ChainProofs

    CheckpointStore <- CheckpointStoreProofs
    ComposeAdapter  <- ComposeAdapterProofs

    FoundationProof, HostedAdmission, AcceptanceResults
                        <- BundleContents <- AcceptanceBundle <- MCEvidence
    AcceptanceBundle <- AcceptanceBundleProofs

**WorldStore, WorldManager.** `nodes`, `order` and `pending` are the store's
dictionaries; the operators of WorldStore are its methods. `client[c]` is the
stack frame of the coroutine client c runs: the point it awaits at, the node it
has seen, the handle it was given. `gate` holds the per-world locks. One action
is what a coroutine does between two awaits. The adapter answers with any handle
of `Handles`, whoever owns it, or fails; all failures take one except branch.
`unconfirmed` is a history variable: the handles claimed whose destruction no
adapter call has confirmed.

**BeamSearch, SearchCampaign.** The whole of `advance` is an operator (gates,
deduplication by state, rotation of the diversity buckets, width, budget); the
ledger is a sequence of reservations and `LedgerValid` the limits. SearchCampaign
lets a caller submit any batch any number of times.

**PromotionWorkflow, Custody.** `run` is the frame of the one call inside the
lock: what it has accepted, what it still has to release, what it has failed to.
Custody is the abstract promise: each resource handed over is held until its one
release. PromotionWorkflow implements it (`KeepsCustody == Owner!Spec`, with
`held` mapped to everything the workflow's record or current frame names). The
dictionaries only iterated over to release their values are sets.

**SearchQualification** extends PromotionWorkflow: its port answers the
workflow's callbacks with worlds of the adapter, and its driver destroys a
stage's worlds through that port while the workflow still has them on record. A
fork that is no allocation of the model (`PortAllocates` asks) is one the bounds of a
run leave out. `GhostsAssumption` says that what the three stages submit is among the
batches the workflow takes, `WidthsAssumption` that the beams narrow to one world, as
the policy of the search has it.

**LabState.** One LabState and the requests in flight. A request authenticates
in one critical section and acts in another, as `app.py` does; between the two
the lab may be reset or restored. Times are seconds after the epoch, evidence is
its length and the set of outcomes it records, a checkpoint is a record of the
parts the code writes out, and `FromCheckpoint` reads them back one by one.

**Policy, ChainReplay.** Policy is the stateless evaluator. ChainReplay builds
the plans of the two campaigns as the code does, authorises every action against
a budget slot, and replays each scenario on a lab of its own: its steps are
LabState's own actions. A step may fail before, during or after its action.

**InProcessLab.** `env` holds the attributes of InProcessLabEnvironment; a task
of `tasks` is an execution with its handler thread, which can be queued, have
had its effect, or be settled. Only `execute_observed` suspends inside the lock,
so every other call is one step. `lab` is the sequence of actions the present
LabState has recorded: two labs are equal when the same actions led to them.

**ReplayKernel** extends InProcessLab: its coroutine calls the environment's own
actions (reset, execute, capture, clean-up), so the two are checked composed.
`replay` holds its locals, `answer` the result or the exception the caller got.

**RuntimeObservation, RuntimeQualification** extend InProcessLab too. `ctl` is the
controller (lock, ledger, poisoned), `obs[o]` the frame of one call of observe,
`started` and `results` the history of what was started and returned. The
environment is not the controller's alone: other callers execute, reset, clean up
and claim between its waits. RuntimeQualification is the M3 driver over it.

**CheckpointStore.** Each call to a provider is a step. `shard[p][g]` says who
created the shard and how often its bytes are there; `store[s]` is the frame of
the process, with the list `created` that the roll-back goes through. A kill
drops the frame and starts the process again.

**ComposeAdapter.** Each docker command is a step, taken from the route of its
operation; a command that fails may have had part of its effect. `proj` is what
docker has, `live` and `snaps` what the registry has, `undone` the projects whose
compensating down failed. `LateWrite` is an exec that goes on in the container
after its client was killed. Health's two reads are one step. The diagnosis of a
failed start only reads and is left out, and so is the refusal of a materialization
of a world that is no fork, which comes after the write (`adapter.py:357`): the model
lets such a call succeed, or fail at that point like any other.

**MaterializedRun, ProviderRun, ChainQualification.** One scenario in a container
of its own, one scenario on the providers alone, and the driver that runs the plan
through either. `box` and `bridge` are the processes in the containers, which run
on when the docker client they were started with is gone. MaterializedRun uses
the checkpoint store through its promise (a set of whole generations), which is
what CheckpointStore's `GenerationsWhole` establishes.

**FoundationProof, HostedAdmission, AcceptanceResults, BundleContents,
AcceptanceBundle.** Documents are records of what they were derived from, and a
digest is the value it is computed from, so a check of a digest compares what the
two documents say. FoundationProof and HostedAdmission hold what the producers
write and what the collector demands; BundleContents what every file of a bundle
holds; AcceptanceBundle the processes: collectors that make, write and seal a
directory file by file, fail, clean up or die, a verifier that reads it file by
file and derives it again, and others that change a file, remove one or seal the
manifest over what there is (`MaxMeddling` times).

## 3. The runs

| Run | Question | Bounds |
|---|---|---|
| `worlds` | Who owns which environment, who may destroy it, are commits, deduplication and histories coherent over all seven commands, and does every command end? | 2 clients, 3 worlds, 3 commands, four handles of which one reuses an identifier and one overlaps a namespace: enough for a winner, a loser and a command on either |
| `worlds_winner_blocked` | Finding 1 | 2 clients, 2 commands |
| `promotion_custody` | Is an allocation ever lost, released twice or unpaid, and is everything released in the end? | 2 advances, 3 hand-overs, 2 allocation and sibling identities, so that both kinds of reuse happen |
| `search` | Selection and ledger over any sequence of batches; the M4 search from four ghosts to one winner | campaign: 6 candidates with shared buckets and states, limits that bind; M4: beams of 2, 1 and 1, a failure or cancellation at every fork, materialization and destruction |
| `lab_state` | Does the oracle report only whole chains, are queue, cache and checkpoints coherent? | 2 requests in flight, 9 evidences (a whole chain), the clock past session expiry |
| `in_process` | One environment and whoever uses it: any callers, the replay kernel, observers, the M3 driver | 4 envelopes (a retry, a conflicting retry, a read, another write), 2 runs, 2 plans of 3 steps, 2 observers with 3 calls |
| `chains` | The campaigns on labs of this process; the two docker qualifications | in process: the code's own plans, times and budget slots, one failure anywhere; docker: four runs of three kinds, 2 faults, 3 images, 1 rebuild, 2 providers |
| `materialized_leftover` | Finding 3 | as `chains` |
| `checkpoint_store` | Is what is visible complete, does a failed stage clean up exactly its own? | 2 processes that commit different checkpoints (the same one: Finding 2), 4 providers (one of each kind), a fault and a kill at any point |
| `checkpoint_rollback_race` | Finding 2 | 2 providers, no fault |
| `compose_adapter` | Is any project forgotten, are archives and restores exact, does every operation end? | 2 callers, 2 worlds, 2 snapshots, 2 images, 4 operations, a rebuild |
| `evidence` | What is declared valid, can a collection hurt another, does a finished bundle verify? | 14 inputs for a single collector, four of them hosted receipts of parts of several workflows, and two races of two; 3 workflows (two attempts of one revision), 3 versions, 3 changes by others |

Bounds are constants named Max... in the modules and stop only new calls, never
a call that has started. `worlds` needs a third command to act on what two others
did to the same world. `evidence` needs three changes by others: a
file that is changed, a manifest sealed over the result, and a file removed again
at another moment of the same verification.

Three runs put two or more systems over one set of modules: a variable of the MC
module (`caller` in MCSearch, `way` in MCChains, `user` in MCInProcess) chooses
at the start which of them moves. In MCInProcess that is the point: it is the same
environment, used in four ways.

Deadlock checking is off where the system stops once its calls are used up.
WorldManager has an explicit stuttering end (`Quiescent`), PromotionWorkflow and
LabState never stop; these are checked for deadlock. Symmetry is used only in
`lab_state`, over the workers, which no operator orders.

Session lifetime is a parameter: 120 s in `lab_state` (an hour in the code) so
that expiry falls inside the bounded clock, and the code's own value in `chains`.
The two processes of `checkpoint_store` commit different checkpoints, as the
stores of one project do; two processes that commit the same one are what
`checkpoint_rollback_race` is about. `compose_adapter` runs the real-provider
profile: in the fixed profile `destroy` has no inventory, and takes a world off the
registry on the word of `docker compose down`.

Invariants that belong together are one property with named parts; those that
include the type invariant of their module say so in the definition.

### Fairness

* WorldManager: weak fairness of every client's progress. The event loop runs
  ready coroutines and `_bounded` ends every adapter call. Nothing obliges a
  caller to issue or cancel a command.
* PromotionWorkflow: callbacks answer, the caller keeps calling `close`, and a
  release that is retried is confirmed in the end (strong fairness of that one
  step). Without the last, `EverythingReleased` is false and rightly so.
* SearchQualification: the driver and the port's bounded calls go on.
* ReplayKernel, RuntimeQualification: weak fairness of the kernel's or the
  driver's own steps, which include the step timeout. That a handler ever ends is
  not assumed.
* ChainReplay, ChainQualification: the drivers go on, and the processes they wait
  for end or pass their deadline; no fault is obliged to happen or to stop.
* ComposeAdapter: every command and every compensation has a deadline
  (weak fairness; that the runner reaps what passes its deadline is thus assumed,
  and `OperationsEnd` is about the locks), and asyncio.Lock is granted in the order of the requests, so
  nobody waits for ever (strong fairness of entering; the queue itself is not
  modelled).
* AcceptanceBundle, CheckpointStore: none. A process that takes no more steps is
  one that was killed.

### Findings

1. `worlds_winner_blocked`: README of `packages/worlds` says a namespace loser
   is cleaned up without blocking winner commits; the namespace re-check at
   publication also looks at pending losers.
2. `checkpoint_rollback_race`: the comment in `stage` says its roll-back cannot
   delete a caller-owned shard; between its own read and the one inside the
   RabbitMQ stager another process can create the queue.
3. `materialized_leftover`: a test is named after the rule that a clean-up failure
   takes precedence over an execution failure; a run whose docker command exits
   with an error, or that is cancelled, reports that and not the project that its
   clean-up left behind.

Differences that are visible in the models without a run of their own: a
failed capture whose clean-up fails too moves an ACTIVE world to BLOCKED, an edge
the lifecycle diagram of `ARCHITECTURE.md` does not have (`DiscardFails` in
WorldManager); a cancelled replay drops the failure of its clean-up, which
the comment at `kernel.py:132` calls visible (`CleanUp` in ReplayKernel); and the
compensating down of a failed create suppresses every failure (`adapter.py:637`),
after which the project is in nobody's registry (`undone` in ComposeAdapter).

What the evidence models show that a reader might not expect: the verifier does
not observe a runtime receipt again when it was removed between the first reading
and the reproduction, so a receipt that does not reproduce can pass if it is there at
the readings only (the second case of `BundleIsGenuine`; it takes three changes, and
came to light when the stronger statement could not be proved); two changes that undo one another between the readings go
unnoticed; two negative controls of a foundation proof whose names are exchanged
are found by the collector's derivation and not by the validator alone; the time of
an authorisation in a proof is bounded by the root's clock only; the marker of the
M3 receipt inside a bundle is not compared again by the collector. The limitations text
of a hosted admission (`hosted_qualification.py:91`) speaks of M2 through M5 "for one
exact SHA". For M4 and M5 the consumer makes sure of that. For the live test (M2) it
does not: `HostedDockerQualificationReceipt` compares no field of that part with the
marker, and only the producer compares `commit.txt` (`cli/hosted_qualification.py:262`).
So a receipt whose M2 part is of another revision passes `ReceiptValid`, and the bundle
made of it is declared valid; two of the inputs of `evidence` have the live test of
another workflow, one of another revision. That such a receipt is not met with rests on
the attestation, which is verified once, when the admission is made, and vouches for
what the producer built (`docker-compose-live.yml`). A receipt the producer built may
still hold the M2 directory of another attempt at the same revision. `OneWorkflowAt`
states exactly this. Self-verification at the
end of a collection is one step, and its failure leaves the directory, which no
verifier then accepts (`BundleIsGenuine`).

## 4. The proofs

Everything proved holds for every value of the constants that satisfies the named
assumptions of the modules (types, and that the null value is none of the values it
is compared with). TLC evaluates the assumptions in every run.

**World manager.** `WorldManagerProofs`: `TypeOK`, `ExclusiveOwnership`,
`NothingLost`, `NamespaceIsolation`, `DestroysOnlyItsOwn` and `NoStaleCommit`.
`ExclusiveOwnership` is not inductive by itself: the claim of a handle is checked
against the nodes and the reservations at one moment, and the node is published
later. `IInv` adds what ties the two (`ClientOK`): a coroutine past its claim
owns the reservation of the world it creates and remembers the handle recorded
there; a coroutine past its gate is the one the gate names; and the handle a
coroutine is destroying is the one its world holds. `Frame` states which parts of
the catalog a step leaves alone; each action has one lemma. A second part adds
`WorldHistory`, `CatalogSound` and `Ownership` from `StoreStep`: whatever the
coroutines do, the catalog changes by one `_replace`, one `_add`, or not at all.
The deduplication pointers need two more invariants, `Listed` (every node is in
the creation order) and `Computed` (every pointer is the one `_rebuild_indexes`
computes); that exactly one canonical world exists follows from the first position
in the order, found by well-founded induction on the naturals.

**Search.** `SearchCampaignProofs` begins with the operators of one search call, for any
batch, ledger, limit and width. The sum over a ledger and the beam are recursive
functions; `Recursion` shows, by induction on the natural numbers in its set form
(`SetInduction`), that such a function exists and satisfies its equation, and the
rest uses only the equations. Sums of a ledger add up over its parts, a ledger that
grew by what fits stays valid, the ranking is a strict order (`RankInjective`), and
the selection order lists every contender once. The second half proves
`LedgerSound` and `BeamSound` over any sequence of calls: `Judged` relates the state
of the beam to the candidates it has considered so far, the selection order considers
all of them, and so at the end of a call `Judged` speaks of the whole batch. The
assumption on the width (`WidthAssumption`) is the model's own field constraint.

**Promotion workflow.** `PromotionWorkflowProofs`: `CommitSound`, `IdentitiesSound`
and `KeepsCustody`, the last as the implementation of `Custody`, initial states and
every step. An allocation is in one of four places: on record, in hand of the call
that had it accepted or captured, waiting for its release, or released. The places
are disjoint, so a release takes exactly one out of custody and an identity in use
belongs to one live world. That the commit loop can pay for what it commits is
`Room`: what the call has in hand or still to try is a part of the reservations the
search made provisionally on a valid ledger, and any part of them fits.

**M4 search.** The second half of the same module proves `SearchQualified`
(`SearchSafety`) for any ghosts, scores, families, limits and any beams that narrow to
one world. That a qualified search ends with the best ghost, and has destroyed
and paid for every world, spans three calls of the workflow, with failures and
cancellations at every wait, so `SInv` follows each stage through its call. What the
call has in hand and still has to try is never more than the beam is wide, and while it
is as many, nothing has been lost on the way: the port holds only worlds in hand, and
the best candidate is among the two (`Course`). The driver accepts a stage
only when it has added as many reservations as the beam is wide; then the worlds of the
port are those of the reservations, and one is the best candidate's (`Complete`). That
it was asked for at all is `BestReserved`: it comes first in every selection
order (`TopOf`), all costs are equal, so if the ledger cannot take it, it can take
nothing. `WithinWidth` bounds what a stage asks for. The last stage is one world wide,
so the last reservation is the best ghost's. `WorldsOK` is the other half: the port has
on record every world that is there, and so has the workflow, also while the driver
takes them away behind its back (`Departs`). The M4 driver is shown to keep the
workflow's `IInv` as well (`NextSearchIInv`).

**In-process lab, observation and replay.** `InProcessProofs` begins with
`RunCommitted`, `OnceOnly` and `NoLateEffect` of InProcessLab. There is at most one
task (`OneTask`), because a reset or an execution goes ahead only when the last task
is done, and that task belongs to the current run while something is in flight
(`InFlight`). The rest of `IInv` ties the counters, the cache and the receipts to
what the lab has recorded.

Three callers of that lab follow, each shown to use it as its `Spec` allows, so that
all of the above holds under it. *Observation*: `ObservationSound` from `OInv`: the
call that holds the lock is the only one that starts or records anything (`LockOK`),
its key is neither started nor recorded when it begins (`FreshCall`), and what is
started is either its own or has poisoned the controller. *Qualification*:
RuntimeQualification implements the observation, and `QualifiedChain` says that its
receipts are the chain: the loop's last receipt is the end state of the claimed ones,
and every observation starts where the lab then is. *Replay*: `ReplaySound` from
`KInv`. At step i of its plan the results so far are those of the first i - 1 steps,
all passed (`Replaying`), and the lab of the open run holds exactly these actions
(`Position`); an action that times out or fails leaves the environment settling, so
what is captured afterwards is the state before the step or after it, or nothing.
A run therefore ends in one of three ways (`Outcome`: at a boundary, at a step, at
the end), and each of the three, with a failed clean-up appended or not, is a result
that the validator accepts. That no step of a plan bears the name of a boundary
(`PlansAssumption`) is what `ReplayPlan` checks; without it a failed step named
`cleanup` would make a result its own model refuses.

**Lab.** The first part of `ChainProofs`: `SynchronisationTimely`, `DisclosureNeedsWholeChain`,
`CheckpointExact`, `OneRecordPerChange`. The invariant `LabOK` speaks of one lab
value: a job is pending exactly until it is due, so looking at the queue never
finds work and a deferral outlasts the window (`Served`); and every mark of the
chain was recorded in the lab that carries it (`Evident`), so that a disclosure has
its whole history in the same lab, whatever resets and restores came between.

**Materialized qualifications.** The second part of `ChainProofs`: `QualifiedSound`
and `RunsDoNotOverlap`, for any plan whose actions are listed (`PlansAssumption`:
`M5ExecutionPlan` holds tuples), any providers, images and rebuilds, and any number
of failures. `QInv` follows a run from both its ends. After each of its steps the
process in the container shows what the actions so far make of a fresh application
(`BoxOK`), and that is what the output of its call says (`CallOK`). On the host, a
call that is to return without an error has nothing left behind it (`Tidy`,
`ProvTidy`), and only such a call lets the driver go on; the docker client may give
up on a process that still runs, but then the call does not return. What the driver
has retained so far is of the one image the first receipt names (`QualOK`).

**Replay campaigns.** The third part of `ChainProofs`: `ReportSound`, for any number of
faults at any step, any session lifetime and either campaign. `CInv` says of a scenario
under way that its lab is where its plan takes it, and of a result that it is the
foreseen one (`Foreseen`) or shows that something outside the scenario failed
(`Faulted`). For the chain itself the lab after k steps has a closed form, `ChainLab`,
in both modes; one lemma per step takes it one further, and the eighth discloses or
is blocked. For the controls a closed form per plan would repeat the code; `PlanLab`
keeps only what a plan cannot have done (no mark of the chain without the action that
leaves it, no clock but the one the plan sets), and `Barred` that every control lacks an
action the disclosure needs, reads as somebody else, or is too late. The plans are well
formed (`WellFormed`), so the policy allows each of their actions in the slot that is
its own (`PlanAllowed`), and neither the authorization nor the guard of the observed
counts ever refuses one. A faulted result fits neither what a run nor what the patched
lab must show, which is the other half of `AcceptsExactly`.

**Compose adapter.** `ComposeAdapterProofs`: `LocksSound`, `ArchivesPinned`,
`ExactOnReturn`, and `Accounted` for the real-provider profile. Past the wait for
its lock an operation holds the lock of a registered world (`Holds`) or works on an
identity no caller knows yet (`Creates`); `Apart` says no two operations were
issued the same identity. What a health check saw of an image is therefore still
true at the export or the return that relies on it. `Accounted` is inductive with
them: one step settles for the world it was about (`OwnAccounted`) and leaves the
rest alone (`Elsewhere`).

**Checkpoint store.** `CheckpointStoreProofs`: `GenerationsWhole` and
`RollBackDeletesOwn`, both under `OneWriter`: no two processes commit the same
checkpoint. A generation is the hash of its checkpoint, so the code does not exclude
that they do, and the run checkpoint_rollback_race shows what happens then; the
theorems say that nothing else is needed, whatever calls fail and whichever
processes are killed. With one writer what a call read of its generation stays true
until the same call changes it (`Looked`, `ReadExact`). So a shard in `created` is
absent or the call's own, and the list is empty when the generation is visible or
promised already (`Blamed`); and an own shard of an unpromised generation is in the
list, or is the one at hand, or is left of a roll-back that could not delete it
(`Answered`). `Elsewhere` shows once that a step of one store keeps all of this for
the others. `Signed`, that no shard is signed by a process still to come, is what a
kill needs.

**Evidence bundle.** `AcceptanceBundleProofs`: `NothingOverwritten`, `FinishedVerifies`,
`BundleIsGenuine` and `NothingPassesUnproved`, for any number of collectors, whatever
they are given, and however often others change the directory. The first three, and the
half of the last that is about the results (`ResultsSafety`), need no assumption on the
constants. `Directory` is about the
collectors: whoever is at work made the directory and nobody else has it (`Owned`),
until it is sealed it holds exactly what its collector has written (`Progress`), and
then it stays as it is until others change it (`SealedWhole`). `Verifying` adds the
verifier. A reading is only judged when it is coherent, and a coherent reading is the
bundle of the collection it speaks of (`CoherentIsABundle`): this is where every file
is derived again from two of them. That the receipt observed is the one in the bundle
is `Observed`. Others replace what a collector wrote and put nothing back, so of two
looks at the receipt that differ the earlier saw the collector's own; the second
reading is compared with the first, and both with what was observed between. `Finishing`
and `Untouched` say the same of a bundle nobody changed, and `FinishedHolds` that what
a collector found whole itself a verifier of its version finds whole.
`ResultsProved` goes through the rows of the results for each set of receipts.
A second part is `PartsGenuine`, a fact about documents and not about steps: of any
number of versions and workflows, what the programs write is accepted; a proof put
together of parts of two is accepted only if some version could have written it; and of
a receipt put together so, the search and the replays are of one workflow.
For the foundation proof (`ProofsAccepted`, `SplicesFound`) the argument is that a
scenario at a place of a proof has little freedom (`Fits`): the place fixes which
scenario it is, through the last answer, the mode of the root and the distinctness of
ids and runs, which is a statement about cardinalities (`CountImages`, `FiveRuns`,
`DistinctControls`); the document's plan or the authorisations fix its calls; and the
plan and the root fix the rest (`SameScenario`, `OtherPart`). Only the time of an
authorisation is left, and `Written` leaves it out. The one assumption is that a root has
a number to compare that time with (`VersionsAssumption`). For the hosted receipt
(`AdmissionsAreSound`) each directory but M2 is tied to the next one, so a mixture is
of one workflow but for M2, which nothing in the receipt ties to a workflow or a
revision; and a run with one part of another has the signature it had
(`WitnessPassed`). The third part is about the bundle: the hosted receipt in a bundle
found valid is valid for its marker (`BundleIsGenuine`), and so of one workflow at that
revision in the search and the replays (`HostedIsWhole`, `GenuineIsWhole`).

Out of the prover's reach, and left to TLC: liveness and ENABLED
(`CommandsFinish`, `EverythingReleased`, `M4Ends`, `ReplaysEnd`, `ChainsEnd`,
`OperationsEnd`). Every safety invariant and every action property of the passing runs
is a theorem, under the assumptions named above.

## 5. What is not modelled, and why

* Data: digests, canonical JSON, archive formats, wording of errors, the audit
  history the workflow builds from a result, HTTP routing, oracle diagnostics
  (`_last_result`), the differences of two captures in an observation. Where a
  check compares digests the model compares what they are computed from.
* Hash collisions and forged attestations: the attestation service is asked and
  believed, as the code does.
* The order of waiters in asyncio.Lock: any waiter may be next, which allows more
  behaviours than the code has.
* Adapters are assumed to honour cancellation in the world manager: a call that
  the deadline has cut returns no handle later. ComposeAdapter shows what the real
  adapter does with such a call (`Accounted`).
* The replay kernel's calls other than execute never suspend with the in-process
  lab, so they are single steps.
* Docker, the providers, the ASGI framework and the oracles of a plan are
  external; their answers are choices.
* Chain compiler, chain admission, semantic twin, source extractor, telemetry
  ingest, contracts, reporting, reality and semantic evidence: deterministic
  functions from one document to another, called once, without state, concurrency
  or failure handling of their own. A model of them would be a second
  implementation.
* API and web render a saved run; the benchmark runs one system after another in
  processes it waits for; the candidate tools build and hash archives.

## 6. What the project would take up next

* A smaller lock model with a queue of waiters, so that `OperationsEnd` needs weak
  fairness only.
