# HexeAiNode: a TLA+ verification project

HexeAiNode is an AI node of the Hexe platform: a FastAPI service
(`src/ai_node`) that registers with a Core, declares capabilities, accepts
AI tasks from clients, queues them, runs them on cloud or local (GPU) providers
under budgets, produces images and trains LoRA models, and reports results and
usage.  Paths below are relative to `src/ai_node` unless they start with `docs/` or `scripts/`;
`API` stands for `runtime/node_control_api.py`.  `PROJECT.json` writes the same paths
from one directory further up (`src/src/ai_node/...`).

The project models the parts of the node where work can be lost, done twice, started
out of order, overspent, sent to the wrong side or left hanging.  TLC checks every
module on small instances; TLAPS proves every safety property that a run checks, and
the refinements, for every value of the constants.

## 1. Inventory

| Component | State it keeps | Operations | Hard behaviour | Correct when |
|---|---|---|---|---|
| Execution queue (`runtime/execution_queue.py`) | job records, one heap, active count, dispatcher and retry task per queue, running tasks, expiry timer, state file | enqueue, poll, acknowledge, cancel, deadline monitor, dispatch, retry, run, expire, stop, load | the dispatcher awaits a thread between choosing and starting a job; cancellation; restarts | no job lost, duplicated, started twice, stuck, or started over a better one |
| Lane admission (API:16552) | none of its own; reads the queue's records in a worker thread | decide whether a vision or image job may start | two dispatchers decide about each other on stale answers | lanes do not deadlock |
| Budget manager (`runtime/budget_manager.py`) | policy, usage per grant, provider budgets, pending usage summaries, in one JSON file | reserve, finalize, release, cache and refresh policy, flush | concurrent executions, period change in flight, lost answers, crash | limits hold, everything is settled once, no usage is lost |
| Task execution (`runtime/task_execution_service.py`) | life cycle of an execution | execute | failure and cancellation at each await | every exit settles the reservation; the provider is inside what everyone allows |
| Idempotency store (`execution/idempotency.py`) | records, pending futures, file | execute, prune | concurrent requests with one key, crash | one answer per key |
| Onboarding, life cycle, trust (`runtime/onboarding_runtime.py`, `lifecycle/`, `runtime/bootstrap_*.py`, `trust/`) | life-cycle state, run id, pending session, identity and trust files | start, cancel, register, poll finalize, time out, restart setup | threads, stale runs, late approvals | a cancelled run changes nothing; trust fits the identity |
| Capability declaration and governance (`runtime/capability_declaration_runner.py`, health job) | accepted profile, governance bundle, recovery record | declare, refresh, recover, degrade | overlapping requests, staleness, bounded restarts | operational only when declared; recovery ends |
| Local scheduler, GPU residency (`runtime/local_scheduler_*.py`, `runtime/service_manager.py`, `scripts/comfyui-control.sh`) | resident models, sessions, leases, desired states, transition lock | request, release, switch, idle close | lock, lost updates, loads outside the lock | room made for ComfyUI is kept; vision comes back |
| Provider runtime, router, pricing (`providers/`) | registry, adapters, price snapshot and overrides | refresh, benchmark, execute with fallback, save prices | overlapping refreshes and saves | operator's prices win; routing stays inside the boundary |
| Prompt registry (`prompts/`, `execution/gateway.py`) | prompt services, versions, status | register, edit, authorize, delete | edits while executions wait | authorization used is consistent |
| Image studio (API 2880-15000) | `profile.json`, job files, output directories, ComfyUI's queue, retention records | batches, reviews, trainings, manual images, body depth | event loop, thread pool and dispatch thread write the same files; crash; ComfyUI forgets | images arrive once, checkpoints and photos are never lost |
| Internal scheduler (`runtime/internal_scheduler.py`) | job entries, tasks, file | register, start, run, stop | raising jobs, failing saves | every job runs again and again |
| Client usage (`persistence/client_usage_store.py`) | usage rollups (SQLite) | seed, record, summarise | interrupted seeding, four queries beside writes | nothing counted twice |
| Lease execution (`runtime/lease_execution_mode.py`) | lease, heartbeat | run once | - | not wired into the node: not modelled |
| Telemetry, notifications, family memory, frontend, other scripts | - | - | publication and data | not modelled |

How they interact.  An HTTP handler of the node control API looks up the idempotency
store, rewrites the request for a queue or executes it directly.  Either way the task
execution service authorises it against the prompt registry, resolves a provider,
reserves the cost with the budget manager, sends it through the router, settles, records
the usage of the client and flushes summaries to Core.  The queue's dispatchers call the
API's admission provider in a worker thread; that provider reads the queue's records
back and asks the residency scheduler for the GPU.  Onboarding stores the trust that
the capability runner declares with.  The internal scheduler's jobs drive the GPU checks,
the LoRA dispatcher and the recovery of the MQTT channel.  Queue and budget code runs on
one event loop; the service manager and the image studio are also entered from threads.

`PROJECT.json` lists every component, also those that are not modelled with the
reason, and every hazard with its line and the properties that cover it.

## 2. Modules

| Module | Models | Composed in |
|---|---|---|
| `ExecutionQueue` | `ExecutionQueueService` | `LaneAdmission`; runs of `MCExecutionQueue` |
| `JobLifecycle` | what the queue promises a client about a job (abstract) | `ExecutionQueue!ImplementsLifecycle` |
| `LaneAdmission` | the queue with `_execution_queue_lane_admission` | `MCLaneAdmission` |
| `InternalScheduler` | the recurring jobs | `MCLaneAdmission` |
| `BudgetedExecution` | `BudgetManager` under `TaskExecutionService.execute` | `Accounting` |
| `ClientUsage` | the usage rollups and their seeding | `Accounting` |
| `Sums` | totals over finite sets | the two above |
| `Accounting` | budgets and usage side by side | `MCBudgetedExecution` |
| `NodeLifecycle` | the states and the table of legal transitions | extended by the next three |
| `TrustLifecycle` | what onboarding promises the rest of the node (abstract) | `Onboarding`, `NodeControl` |
| `Onboarding` | bootstrap client, timeout thread, registration runs, setup API | `MCOnboarding` |
| `NodeControl` | declaration, governance, health, recovery, start-up | `MCNodeControl` |
| `LocalScheduler` | `plan_local_scheduler_request`, pure | `GpuResidency` |
| `GpuResidency` | the service manager's GPU operations | `MCGpuResidency` |
| `Idempotency`, `PromptRegistry`, `ProviderRuntime`, `PricingCatalog` | one store or service each | `Serving` |
| `Routing` | the rules on where a task may run, pure | `Serving` |
| `Serving` | a call from the client to the adapter | `MCServing` |
| `AvatarBatches`, `LoraTraining`, `ImageJobs`, `BodyDepth` | the parts of the image studio | `ImageStudio` |
| `ImageStudio` | the parts side by side | `MCImageStudio` |
| `*Proofs` | theorems, section 4 | - |

Each module also holds, directly before the definition concerned, small mutated
forms of it ("A mutant: ...").  No specification uses them; they are the plausible bugs
that `PROJECT.json` substitutes to show that each property can fail.

**Composition of unrelated parts.**  `ImageStudio`, `Accounting` and
`MCLaneAdmission` hold components whose properties say nothing of each other's state.
In each behaviour one part is at work and the others rest, so the state space is the sum
of the parts and not their product.

### ExecutionQueue, JobLifecycle, LaneAdmission

No body of `async with self._lock` awaits anything, so the lock is never contended on
the event loop, and a step is the code between two awaits that really suspend: the
admission thread, the retry sleep, the runner, and the first step of a new task.

| Variable | Code |
|---|---|
| `jobs` | `self._jobs`; `absent` is an id not issued yet, `deleted` one whose record is gone |
| `heap` | `self._queues`, as sets; the heap order is `Before` (`_queue_entry`: rank, deadline, sequence) |
| `active`, `retry`, `task`, `timer` | `_active_counts`, `_blocked_retry_tasks`, `_running_tasks` with the state of each task, `_record_expiry_handle` |
| `disp` | `_dispatcher_tasks`, with the local variables of `_dispatch_loop` and the answer of the admission thread |
| `nextSeq`, `disk` | `_sequence`, the state file |
| `now`, `phase`, `restarts`, `runs` | wall clock; process life; number of restarts; history of runner starts |

Each public method, each segment of `_dispatch_loop`, `_retry_blocked_dispatch` and
`_run_job`, the timer, stop, crash and load is an action.  The deadline monitor is part
of every operation that calls it.  A task cancelled before its first step becomes `dead`:
asyncio then never enters its handlers.  Payloads, results and error texts are left out;
times are small numbers and `Never` is infinity.  `ExecutionQueue` lets the admission
provider answer anything; `LaneAdmission` gives it the node's rule, computed from the
records when the thread reads them and used when the dispatcher resumes.

### BudgetedExecution, ClientUsage

`policy`, `usage`, `spend` and `pending` are the budget state file (every method saves
it whole and replaces it atomically, hence one variable for memory and disk); `exec` is
the control state of each task id, by which reservations are keyed as in the code.
Money is in `1/UnitsPerCent` cents so that the rounding up of grant charges is real.  A
summary's `queued_at` is a counter; pending summaries are a set ordered by it (the oldest
unsent goes first, those of one settlement in any order).  A flush works on a copy, over
several awaits, and stops after `FlushLimit` summaries.  `SumOver` (`Sums`) is a recursive
function with a weight function because the folds of the community modules take
operators, of which nothing can be proved.  `ClientUsage` has each transaction of the
store as a step, with the seeding from log and metrics split where a crash may fall:
`startup` is the set of the steps the start still has to do, which `IsNext` puts into the
code's order (models in any order of their names).

### Onboarding, TrustLifecycle, NodeControl

A call to Core is two steps, question and answer.  Registration runs are told apart
by their run id; `inflight`, `runId` and `allowDup` are the fields of
`OnboardingRuntime`.  `transition_to` and API handlers are atomic.  `TrustLifecycle`
merges the five onboarding states into one and forgets identities and runs;
`Onboarding` is shown to implement it and `NodeControl` is composed with it, in its turn
shown to move the life cycle only as it allows.  A profile, a bundle or a trust state is
known by the number of the approval it came from.  The runner's own `_status` record is
left out.  `overtaken` and `stranded` are histories of the two exceptions the properties
name.

### LocalScheduler, GpuResidency

Threads (client jobs, admission threads, operators, background jobs) go through request,
plan, unload, load and answer under the transition lock; leases, the Web UI, prompts and
trainings work outside it.  `reader` is a status poll between its read and its write of
the desired state.  The vision runtime is stopped, up without its model, or up with it:
the ready command of `scripts/comfyui-control.sh` starts ComfyUI, and goes through the
gate that sends the other models away, only if the container does not answer, and the
gate's file holds the vision model back only if that runtime was up.  Scripts fail at
any step, and a stop that fails while the lease is taken leaves its model where it is.
Left out: text model switches outside the lock (revert job,
benchmark), the CPU image runtime, the training lane's requests, the restart target, the
progress listener; one idle limit stands for both, and the idle close only releases the
model (`runtime/service_manager.py:1372`: session and lease stay).

### Serving and its parts

`call` is a client's call, `work` the executions in order of admission, `task` the
refreshes and benchmarks of the provider runtime, `given` the history of answers per
key.  A scenario fixes the two calls, the prompt and how many steps operators, peers and
faults may take.  The queue's start and the budget's refusal are nondeterministic here
(`ExecutionQueue` and `BudgetedExecution` are exact about them).  Task families and
capabilities beyond text, image and vision, structured output, model overrides, features
and timeouts are left out; each cloud model is its own pricing family; a failing write
of prune itself is left out.

### The image studio

`AvatarBatches`: seed and jitter batches, poses, epoch reviews, the torso's, previews,
in one `profile` written by handlers, GETs and the dispatch thread, with stale copies;
the torso has one pose and no `next`.  The loops over the previews and the batches are
recursive functions over `0..MaxSeeds`: every image of a batch has a seed of its own, so
that no batch is longer.  `LoraTraining`: uploads, the launch of the
trainer, taking stock, finalisation, crashes; legacy jobs without a directory in the
profile and reuse of process ids are left out.  `ImageJobs`: the latest manual job,
direct executions, retention records, cleanup; `reused` is the history of the images saved
at a path whose old record was still to be dropped.  `BodyDepth`: generation and import of
body photos.  The thread pool is one thread per module.  Left out: progress display,
sidecar metadata of LoRA files, the number of images per prompt, images without a record
that cleanup takes for weather images, and the other edits of a profile.

## 3. Runs

| Run | Bounds | Shows |
|---|---|---|
| `queue_core` | 3 jobs, 2 queues with 1 slot, clock 0..1, no restart; urgent, spillover and cancellable requests | heaps, slots, wake-ups and start order are right under every interleaving |
| `queue_restart` | 2 jobs, 2 restarts, clock 0..1, torn files | no replay, queued jobs survive, the queue implements `JobLifecycle` |
| `lane_progress` | 2 jobs over 3 queues, 1 restart; 2 recurring jobs, 2 failing saves | vision and image lanes do not block each other for good, started jobs end, recurring jobs keep running |
| `budget` | 2 tasks with 2 attempts, 2 grants, 1 provider budget, 2 periods, costs below and above the estimate and missing, 2 summaries per flush; 2 models, 1 fault for the usage | reservations add up, limits hold, each execution is charged once, no summary is lost, no call is counted twice (810,000 states) |
| `onboarding` | 3 runs, 2 identities, 2 failing polls, 2 approvals | runs own the registration, are silent when cancelled and end; trust fits the identity; `TrustLifecycle` is implemented |
| `node_control` | 2 requests and the start-up, 2 approvals, 1 restart | operational means declared, declaring is served, the life cycle is kept, recovery ends |
| `gpu_residency` | 2 threads (one of clients, one of background jobs), a 12 GiB card, 1 failing script, operators | a vision model sent away for ComfyUI is still away at the grant (1.7 million states) |
| `gpu_returns` | the same without operators and failures, overlapping status polls | the vision model comes back; every operation ends |
| `image_studio` | 17 stories of the batches, 7 of trainings, 5 of images, 2 events of body depth | at most one image of the batches in flight, images arrive, checkpoints and photos are kept, trainings settle, images are fresh, delivered images keep their records (290,000 states) |
| `serving` | 2 calls in 15 scenarios, 1 local and 2 cloud models, 2 refreshes, 4 executions | one answer per key, every call ends, provider inside the boundary, admissions exact, operator's prices kept (290,000 states) |
| `cancel_before_start`, `local_only_fallback` | as small as the counterexample | violations, section 6 |

Why the bounds are enough to make the cases happen.  Three jobs are needed for a head to
be overtaken while a third one occupies or frees the slot; two queues for rerouting; one
slot makes every start contend.  Two clock instants put jobs before and after their
deadlines and expiry.  Two restarts let a recovered job be interrupted again.  In `budget`
the estimates (1 and 3) and the limits (3) are such that the two tasks fit one after the
other, depending on the actual cost, but never together; three summaries can be pending,
so that `FlushLimit` cuts a flush off.  Three registration runs let a cancelled, a
superseded and a current one overlap.  The card's sizes make ComfyUI and the vision model
exclude each other, let the two models fit together, and give a training everything.  In
`image_studio` and `serving` each story pairs the operations that read and write the same
state, with one fault.  `PROJECT.json` names a mutant for every property: each run finds
the mutant it should.

Deadlock is checked in the queue, lane and GPU runs; the others switch it off because
their scenarios may be exhausted.  Symmetry (job ids) is used in the queue runs, none of
which has a liveness property.

Fairness, and why the code justifies it:

- `LaneFairness`: start-up, dispatchers, retry tasks, admission threads and runners (the
  event loop runs every ready task, sleeps end, threads return, providers have timeouts);
  strong fairness only of a positive answer of the lane rule, whose one free part is
  that the residency scheduler becomes ready again and again.
- `Onboarding`: runs (HTTP timeouts), the monitor thread, the passing of time.
- `NodeControl`: answers of Core or their timeouts, start-up, the periodic health job.
- `GpuResidency`: threads, the lock (strong: no thread is kept out for ever), the two
  interval jobs, processes and timers.
- `AvatarBatches`: the dispatch thread comes back, refreshes end, ComfyUI can be read
  and renders; `LoraTraining`: the polling page, handlers, trainers and reaped children;
  `InternalScheduler`: the tasks of the jobs; `Serving`: each stage of a call ends.
- Nothing is assumed of clients, operators, Core's answers, crashes or faults.

## 4. Proofs

Everything below holds for every value of the constants (any number of jobs, tasks,
threads, runs, grants, keys, limits, bounds), from the named assumptions in the modules,
which say only that bounds are numbers, names differ and sets of tasks and jobs are
finite.  Each strengthened invariant was checked with TLC, as an invariant of the
component's run, before it was proved.

| Module | Theorem | States | Argument |
|---|---|---|---|
| `ExecutionQueueProofs` | `TypeCorrect` | `TypeOK` | one case per action |
| | `QueueInvariant`, `HeapsAreExact`, `ConcurrencyRespected` | `QueueInv`, `QueueEntriesMatch`, `SlotsAccounted` | the slot test survives the await because a dispatcher that asks still has a free slot (`SlotHeldWhileAsking`: only it increments the count); an end frees a slot that was counted because a record with a task is `running` (`TasksAreRunning`: the monitor cannot move it) |
| | `NoLostWakeup` | `NoStalledQueue` | whatever adds to a heap or frees a slot wakes a dispatcher; a dispatcher leaves an empty heap, a full queue or a retry |
| | `NoReplay` | `AtMostOnce`, if writes do not fail | `RunsInv`: the file equals the records, and what can still be started has not been |
| | `HeadsStart` | `StartsInOrder` | the re-check of the head after the await, with `QueueInv` |
| | `QueuedSurvivesRestart` | `RestartKeepsQueued`, if writes do not fail | `RunsInv`, and what load does with a recoverable queued record |
| | `RefinesLifecycle` | `ImplementsLifecycle`, if writes do not fail | every step maps to a step of `JobLifecycle` or a stutter; `StartedInv`: a completed job or one whose task has begun was started |
| | `LanesImplementQueue`, `LanesKeepQueue` | `LaneSpec => Spec`; the queue's invariants for the composed system | every answer of the lane rule, however stale, is an answer of the open admission provider |
| `BudgetedExecutionProofs` | `TypeCorrect`, `TotalsAreExact` | `TypeOK`, `ReservationsAddUp` | laws of finite sums; no settlement ever meets the clamp at zero |
| | `LimitsKept` | `WithinLimits` | `LimitInv`: while nobody overcharges, an answered cost is at most the estimate, so that settling never raises used plus reserved; rounding up to cents keeps this |
| `BudgetAccountsProofs` | `SummariesKept` | `UsageReported` | `ReportInv`: stamps grow, (grant, stamp) names one summary, a flush's copy holds only summaries delivered or pending, what it marks as sent was delivered |
| | `ChargesRecorded` | `SpendRecorded` | `SpendInv`: a reservation is of an execution under way in its own period, unless something was interrupted (`HoldsFit`) |
| | `BudgetsUnaffected` | `AccountingSpec => Spec` | a step of the accounts is one of the budgets or leaves them alone: all of the above holds of the composition |
| | `CallsCountedOnce` | `UsageCountedOnce` | `UsageInv`: what is in the rollups, still to be seeded and still to be recorded never exceeds what was executed, and equals what is owed while nothing failed; what a summary has read was true then |
| `OnboardingProofs` | `TypeCorrect`, `RegistrationHasOwner`, `CancelledRunsAreSilent` | `TypeOK`, `RegistrationOwned`, `CancelledRunIsSilent` | `SetupInv`: ids beyond the current run are unused, the slot is taken by the current run only and while it works |
| | `TrustMatchesIdentity` | `TrustFitsIdentity` | `TrustInv`: the node id in memory is that of the file, and no duplicate-identity reset is allowed while there is trust or the current run polls |
| | `RefinesTrustLifecycle` | `ImplementsTrustLifecycle` | step by step from `SetupInv` and the numbering of approvals |
| `NodeControlProofs` | `TypeCorrect`, `OperationalMeansDeclared`, `DeclaringIsUnderWay`, `LifecycleKept` | `TypeOK`, `OperationalIsDeclared`, `DeclaringIsServed`, `KeepsTrustLifecycle` | `ProcessInv` (who may run in which phase of the process) and `DeclaredInv` (an operation past a point has obtained what that point needs, unless it was overtaken) |
| `GpuResidencyProofs` | `TypeCorrect`, `RoomKept` | `TypeOK`, `RoomMadeIsKept` | whoever is between plan and answer holds the lock (`LockHeld`), every load of the vision model needs the lock, and leases and gates only send models away |
| `ServingProofs` | `OperatorPriceWins` | `OperatorPriceKept` | with the types of snapshots in flight |
| | `AdmissionsExact` | `AdmissionsAccounted` | `Steady`: counter and cardinalities move together in every step |
| | `OneAnswerPerKey` | `AnswersAgree` | `StoreInv`: who operates under a key owns its future and has no record yet; answers given are the record's |
| | `BoundariesHold` | `SelectedInBoundary` | `Bounded`: rewriting a request for a queue keeps it as narrow as the client's, and a chosen provider is inside the scope of the authorisation it was chosen with |
| `ImageStudioProofs` | `RendersLimited` | `OneRenderInFlight` | `BatchesInv`: a refresh holds the lock from its first scan to its last write-back, and while it is between its look at the queue and its dispatch the batches' images in the queue were all there when it looked; the scan submits only into room it has just counted, the dispatch fills the room of its look and a batch that submits stops the next ones from using a stale look |
| | `ModelsKept` | `TrainedModelsKept` | `TrainInv`: whoever finalises a training holds every checkpoint ahead of it or in the profile, and the process that writes them is gone; what profile.json says is copied is there |
| | `ImagesFresh` | `DeliveredIsFresh` | `ImageInv`: a job is known by the time of its prompt and its image is not older, in the file and in what a poll is about to write back; nothing is newer than the clock |
| | `RecordsStay` | `DeliveredIsRecorded` | `RecordInv` with the times of `ImageInv`: an image at a path whose record is still to be dropped was saved there afterwards and is marked (`PendingMarked`), any other image keeps the record it was delivered with, and nothing delivered is newer than the clock |
| | `PhotosKept` | `BodyPhotosKept` | `BodyInv`: while a depth map waits to be imported its photo is there in another file, older or imported itself (`OthersStandIn`); names grow with each job, so that no import overwrites the file of another |

Two kinds of recursive definitions are proved about: the sums of the accounts, and the
loops of `AvatarBatches` over previews and batches.  Induction theorems of the library take
operators as parameters, so the laws are proved by a minimal counterexample.  For the sums
strict inclusion of finite sets is well founded, hence a law that fails for some subset
fails for a minimal one, which one unfolding refutes; for the loops the same is said once
of sets of numbers (lemma `Induction` of `ImageStudioProofs`), first to show that the
function exists, then that each of its steps keeps the limit.

Assumptions of note: `BatchesAssumption` says that a profile to start from has no more
submitted images than `Limit` (a new profile has none), and `ModelsAssumption` and
`TrainingsAssumption` only that models, counts and stories have their types.

The hypothesis `~SaveMayFail` of three theorems is what the code needs: an outcome whose
write failed is forgotten by a crash (section 6).  With `SaveMayFail` free hold
`TypeCorrect`, `QueueInvariant`, `HeapsAreExact`, `ConcurrencyRespected`, `NoLostWakeup`
and `HeadsStart`, torn files included.

Only model-checked, and why:

- liveness (`LanesDoNotDeadlock`, `RunningEnds`, `JobsKeepRunning`, `CancelledRunsEnd`,
  `ConnectingEnds`, `RecoveryEnds`, `VisionReturns`, `OperationsEnd`, `ImagesArrive`,
  `TrainingsSettle`, `EveryCallEnds`): fairness and ENABLED are out of the prover's reach.

`OneRenderInFlight` has the hypothesis that no request for ComfyUI's queue failed
(`blinds # "was"`): the code takes a failed request for an empty queue, and then does
submit beyond the limit.

## 5. Not modelled

`PROJECT.json` gives the reason per component.  Lease execution is not wired into the
node.  Telemetry and notifications are fire and forget.  Family memory is a store with
filters.  Of the modelled components: training, audio and CPU lanes; diagnostics; denial
history and the budget declaration; the settlement of a fallback execution on the
provider that was reserved; changes of budget settings inside a period; request parsing
and the building of ComfyUI workflows; HTTP and docker themselves.

## 6. Disagreements between code and documentation

With a run each (`findings` in `PROJECT.json`):

1. `cancel_before_start`: cancelling a job between its dispatch and its task's first
   step leaves it `running` for ever and its slot occupied.
2. `local_only_fallback`: the router falls back to the cloud for a `local_only` task whose
   local provider fails.

Seen while modelling, without a run.  `communication.md` is
`docs/json-schemas/client-node-v2/communication.md`.

Queue and lanes:

- A rerouted job keeps the deadline it has missed and is expired by the next monitor pass
  in the cloud queue (`communication.md:545-546`).
- The deadline is checked by polls and retries only, so a job may start after its
  `deadline_at` (`communication.md:545`).
- Recovery does not refresh `expires_at`: a job that fails because of a restart may be
  deleted in the same start (`communication.md:554`).
- A failed write of the state file is only logged; after a crash the job is replayed
  (`communication.md:556-557`).
- A graceful stop cancels running jobs that do not support cancellation
  (`communication.md:573-574`).
- Two dispatchers may admit a vision and an image job together, from answers that are
  stale when used (API:16558; `docs/local-llm-runtime.md:332`).
- Wait-budget spillover overrides a request's own `local_only` (API:15565).

Budgets and execution:

- A cancelled execution keeps its reservation, and so does one cut off by a crash after
  it was saved (`runtime/budget_manager.py:457`; `docs/task-details.md:483`).
- A queued request whose own mode conflicts with the prompt's (`local_only` naming openai
  under a `cloud_only` prompt) is rewritten to `cloud_only` and runs in the cloud, while a
  direct call is refused (API:15063, 15342-15360).
  `docs/ai-node/execution-client-contract.md:53`: "An empty intersection fails with
  `prompt_routing_policy_conflict`; it never silently falls back";
  `docs/task-details.md:925`: "A queued `local_only` job must remain local-only even if it
  waits".
- Disjoint approved and preferred providers make an empty list, which approves everyone.
- The local image and vision paths skip the prompt's authorisation.
- After a failed write of an idempotency record its key stays pending
  (`execution/idempotency.py:107`); a record that was not written is executed again after
  a crash.

Providers and prices:

- A second manual save of a price never changes it, because the first price in the YAML
  file wins (`docs/runtime.md:34`).
- A refresh whose cloud `list_models` raises installs no router; overlapping refreshes may
  install the older one; after a restart there are no adapters until a refresh.

Image studio and GPU:

- The idle close of the Visual Runtime releases the model only; session and lease stay
  (`docs/local-llm-runtime.md:186-190`).
- A ComfyUI whose container is already running is made ready without its gate
  (`scripts/comfyui-control.sh:612-626`), so that it is granted with the vision model
  loaded when both fit (`docs/configuration.md:78`, "unloads the vision runtime before
  GPU ComfyUI startup/model work"; `docs/task-details.md:1005`; but
  `docs/task-details.md:2294` and `docs/local-llm-runtime.md:211-214` allow it).
- The GPU lease is held although the stop of a model failed
  (`runtime/service_manager.py:2484-2495`).
- Text model switches of benchmarks and of the revert job run outside the transition
  lock (API:16055, 16187; `docs/local-llm-runtime.md:207-210`).
- Cleanup and the deletion of an image drop retention records by path, after the file:
  an image saved at that path in between loses its own record, and a `long_term` one
  its lifetime with it (API:12297-12301, 12702-12720;
  `docs/ai-node/execution-client-contract.md:253`).
- A stale write-back may strand an image as `rendered_pending_import`
  (API:10031, 10192-10195; `docs/ai-node/ui-redesign.md:158`).
- A crash in the middle of copying a checkpoint leaves a torn copy that counts as the
  newer file (API:5944; `docs/task-details.md:1331-1332`), and a handler that raises after
  taking stock loses "completed" (`docs/task-details.md:1334-1336`).
- `profile.json` is edited without a lock: saving a profile rebuilds its metadata,
  refinements write stale metadata after their waits, setting and deleting the primary
  image race (API:2880-3172, 7050-7370).
- A cut-out prompt lost by a stop of ComfyUI is not submitted again (API:6820); the
  torso's dataset output is looked for in another folder (API:9996); `next` ignores the
  limit of cut-outs.

Usage and recurring jobs:

- A crash while seeding loses the rest of the history; a failing `record_execution` is
  swallowed; the four queries of a summary are not one transaction; benchmark calls are
  attributed to the historical client by a later seeding.
- A save of the scheduler's own state that raises ends the job until the next start; a
  task that died makes `stop_all` raise, so that later jobs are not recorded as stopped; a
  cancelled job leaves its thread running; a new health schedule applies after the current
  sleep (`docs/internal-scheduler-compliance.md`).

## 7. Plan

1. Liveness stays with TLC; larger instances of `lane_progress`, `serving` and
   `image_studio` would say more about it.
2. The edits of a profile outside the batches (metadata, primary image), as a further
   part of the image studio, with the lost updates section 6 names.
3. The runner's own status record in `NodeControl`.
4. Lease execution, should the node ever run it.
