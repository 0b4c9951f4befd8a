# A verification of Summon's durable core

Summon dispatches work to external CLI and API agents from one machine: single
dispatches, manifests, councils, missions, deliberations, background jobs, and
a swarm of external workers.  Many operating-system processes share state
through files, any of them may be suspended or die at any point, and every
dispatch may cost money.  What must not go wrong is the same everywhere: no
spend is repeated silently, no stale process speaks for its successor, nothing
acknowledged is forgotten.

This directory holds TLA+ models of the code that carries those promises, TLC
runs that check them on small instances, and TLAPS proofs of the main results
for every size.  All source paths are under `src/skills/summon/scripts/` unless
they say otherwise.

- [The system](#the-system)
- [The modules](#the-modules)
- [The runs](#the-runs)
- [The proofs](#the-proofs)
- [What was found](#what-was-found)
- [What is not modelled](#what-is-not-modelled)
- [The plan](#the-plan)

## The system

### Components, their state and their operations

| Component | Durable state | Operations | Hard behaviour | What makes it correct |
|---|---|---|---|---|
| Run directory (`_rundir.py`) | `owner.lock`, lease sidecars, `generation.txt`, `journal-gN.jsonl`, `gN-<stage>.json` | acquire (with stale break), renew, release, append, read, repair, carry forward | processes interleave between any two file operations; a suspended owner is deposed and wakes up; death in mid-write; power loss | one owner's appends are acknowledged at a time; acknowledged records survive; generations and segments are not shared; replay in append order |
| Swarm coordinator (`_swarm_coordinator.py`) | one journal; the state is its replay: tasks, claims, workers, messages, artifacts, seen messages | register, claim, renew, message, publish, complete, fail, block, release, cancel, ack, cancelled/indeterminate, human recovery, close, workspace admission | leases expire under a moving clock; stale workers; retries and lost answers; recovery in two records | one active attempt; uncertain spend is retried only by a human's decision; dependencies; outcomes final; idempotent messages |
| Swarm wire protocol (`_swarm_protocol.py`) | none | validate and encode one frame | none (pure) | framing |
| Workspace fabric (`_workspace_*.py`) | workspace events in the swarm journal, private blobs | admit a turn, advance a delivery, hold, dead-letter, settle, reserve budget | obligations that outlive their claim; uncertainty that a terminal state must not erase | reservations cover every obligation; no delivery is lost |
| Mission engine (`_mission.py`) | a run-directory journal | plan, start, checkpoint, replan, block, finish, resume | resume after a crash between budget, governor and journal | every launch is budgeted, and settled once |
| Mission budget (`_mission_budget.py`) | sealed `budget.json` under `budget.lock` | configure, reserve a launch, report usage, settle, reap dead owners, cancel | schedulers race for the last slice; crash between launch and settlement; late settlement | reserved plus spent never exceeds the budget; uncertain attempts stay charged |
| Resource governor (`_resource_governor.py`) | per-user registry of leases | try-acquire, launch, renew, release, reap | capacity limit; decisions on old hardware samples; stale leases and reused process ids; releases that fail | never above capacity; the memory floor; a live process keeps its lease; slots come back |
| Lock files (in ten modules) | one file each, created exclusively, with the owner's pid and token | create, write, judge stale, guard, look again, remove, leave | death between creation and write; suspension before a removal | one owner at a time; nobody removes a lock he did not judge; a dead owner's lock goes away |
| Manifest fan-out (`_manifest.py`) | result file per job | schedule, cap, retry, skip if done | thread pool with caps and dependencies | every job once; caps respected; no job starves |
| Job control and background jobs (`_job_control.py`, `_jobs.py`, `_background.py`) | command log, control seal, heartbeat and job record per job | queue, replay, append a transition, salvage, publish; spawn and finish a job | retries replay the log at another time; files lost or damaged; a cancel races containment, finalization and the next attempt | a cancel ends the job; what stopped one attempt is known to the next; deadlines granted stay granted; every job ends |
| Job resume (`_job_resume.py`, `_job_continuation.py`) | ledger with one claim per source, launch record, result | reserve, claim the child's launch, gate, claim the provider, register, reap, seal, repair, reconcile | several resumers; a crash or an uncertain Popen on either side of either launch | one successor and one provider run per source; what is said about contact is true; a sealed claim stays |
| Hook bridge (`_hook_bridge.py`) | `hook_state.json` beside the command log | evaluate a hook event, mark emitted, deny | racing hook processes of one agent, killed at any step; a log that was lost | a steer is emitted at most once; a cancel keeps denying |
| Breaker, liveness, progress (`_breaker.py`, `_liveness.py`, `_progress_judge.py`) | in memory, mirrored in the command log | evaluate at a checkpoint, observe, resync | restart in the middle of the ladder; appends that are refused | breaker, control and log agree on the level |
| Council (`_council.py`) | run directory, stage files | stages, quorum, chair, resume | carry forward across generations | every ballot counted once |
| Deliberation (`_deliberation*.py`) | run-directory journal, command inbox | turns, human command batches, recovery | crash between a batch and its transition | replay equals the live state |
| Fleet (`_fleet_*.py`) | sealed approvals; per approval a ledger, its staged successor, an anchor and a marker | approve, revoke, prune, reserve, claim the launch, register, reap, settle, give up | four file replacements per transition, any of which may fail; replay or deletion of files; the approval pruned under a running dispatch | approved ceilings; no used slot comes back; crashes are recovered; a result never denies contact falsely |
| Conversation rooms (`_conversation*.py`, `_chat_*.py`) | room journal | open, message, start and finish a turn | a provider process between two durable events | no turn is repeated silently |
| Executor, stream, backends, CLI, rosters, evidence, telemetry, context, worktrees, installation, UIs | files of their own, none shared with the above | | straight-line code around one process | |

`PROJECT.json` lists all of them with their files and what is said about each.

### How they interact

The run directory is underneath everything durable: coordinator, mission,
council, deliberation and conversation call `acquire_owner`, (most of them)
`journal_repair`, append through `journal_append_encoded`, and `release_owner`.
The swarm coordinator takes the lock, replays the whole journal, applies one
operation and releases the lock, for every operation.  Workspace records are
written by the workspace runtime into the coordinator's journal, through the
same append.  The mission engine reserves in the budget file and in the
governor's registry before it launches through the manifest runner, which runs
the executor; job control, hooks, breaker and liveness act on a running executor
from outside.  Three owners of a ledger hand the executor a launch control, whose
callbacks bracket the start of a provider process: the continuation of a job, a
fleet dispatch, and a conversation.

### The hazards

`PROJECT.json` lists each hazard at the line where it bites, with the
properties that would notice.  They come in four kinds: **stale actors**
(leases, deposed owners, old claims), **steps torn apart** (two records, a
created-but-empty lock, a half-written line), **repetition** (retries,
duplicates, late answers), and **counters** (generations, attempts, renewals).

## The modules

```
TaskLedger  <--- refines ---  SwarmCoordinator  <--- EXTENDS ---  SwarmFrames
                                   ^                                  ^
                          MCSwarmCoordinator     MCSwarmFrames, SwarmCoordinatorProofs

RunDir         <---  RunDirProofs, MCRunDir
MissionBudget  <---  MissionBudgetProofs, MCMissionBudget

SingleUse   <--- refines ---  JobResume       <---  JobResumeProofs, MCJobResume
ControlLog  <--- EXTENDS ---  JobControl      <---  ControlProofs, MCJobControl
            <--- EXTENDS ---  HookBridge      <---  ControlProofs, MCHookBridge
LockFile          <---  LockFileProofs, MCLockFile
ResourceGovernor  <---  ResourceGovernorProofs, MCResourceGovernor
FleetDispatch     <---  FleetDispatchProofs, MCFleetDispatch
```

### SwarmCoordinator

One action per operation of the coordinator.  Since each operation holds the
owner lock from its replay to its append, an operation is one step; the
exception is the human recovery of an active claim, which appends two records
(`BeginRecovery`, `FinishRecovery`) and may stop in between
(`InterruptRecovery`), while `recovering` says that the lock is held.

| TLA+ | code |
|---|---|
| `attempts`, `terminal`, `retryAuthorized`, `uncertainSpend` | fields of `state["tasks"][t]`; `attempts` is the length of the list |
| `claimStatus` ... `renewals` | fields of `state["claims"][c]`; a claim id is `<<task, attempt>>`, since ids are checked fresh and attempts are consecutive |
| `delivery` | the state of the claim's workspace delivery, in five classes |
| `now` | what `_now_ms` returns: any reading of `Clock`, forwards or backwards |
| `authorized` | history: the `retry_authorized` records |
| guards `ClaimCommon`, `ClaimForUpdate`, `Terminable`, ... | `_claim_common`, `_claim_for_update`, and the refusals of `_apply_record`, which is applied to a copy of the state before every append |

A refused operation changes nothing and is no step.  Worker and generation in
a frame are any values, so stale and foreign frames are among those refused.

`TaskLedger` is what a user of the coordinator is promised per task, without
claims, leases and clocks; `Ledger == INSTANCE TaskLedger WITH ...` maps the
coordinator to it.

### SwarmFrames

The wire side: message ids, the recorded response, retries, delay and loss.
A frame once sent may arrive at any time in the replay window; hence no
variable for the network.  `Deliver` applies a frame (effect, message id and
response are one journal record) and the answer may be lost; `Redeliver`
answers the same frame again from the record, also after the run was closed.

### RunDir

One action per file operation.  `pc[p]` says where process `p` stands in
`acquire_owner`, `journal_repair`, `journal_append_encoded` or `release_owner`.
Everything may interleave; `Lapse` is a lease running out (the owner was
suspended), `Die` the death of a process, possibly in the middle of a write,
`PowerLoss` the death of all with the loss of what was not synced.

| TLA+ | code |
|---|---|
| `lockNonce`, `lockWritten` | the bytes of `owner.lock`: whose they are, and whether they are there yet |
| `generationFile`, `staged` | `generation.txt`; the generations among the names `gN-*` |
| `segment`, `synced`, `inode` | the lines of `journal-gN.jsonl`, how many are synced, and how often the file was replaced under writers that had it open |
| `leaseLive` | nonces whose later expiry, of lock and sidecar, is in the future |
| `nonce`, `lastGeneration`, `judged`, `opened`, ... | local variables |
| `acknowledged` | history: the appends that returned without an error |

Assumed of the file system: a created, renamed or removed name persists (so
`generation.txt`, written to a synced temporary file and renamed, is durable);
`fsync` of a file persists its contents; a lost write leaves nothing or a
partial line.  Assumed of the callers: `journal_repair` follows
`acquire_owner`, as in coordinator, council, mission and deliberation resume.

### MissionBudget

One action per operation on `budget.json`: each runs under `budget.lock` and
replaces the file at its end, after `_recompute_summary` has reaped the
reservations of dead owners (`Store`).  Between the operations stand the steps
of the callers: a foreground dispatch reserves and runs (`Launch`), a background
launcher reserves, spawns the job and ends (`Spawn`, `Exit`), a manifest's pool
reserves, spawns, waits and settles what the child left (`PoolSettles`), and the
child reserves the same key again, which only reads (`Recheck`).

| TLA+ | code |
|---|---|
| `record[i]` | `state["attempts"][i]`: status, owner, reservation, tokens, whether a total was ever reported (`observation_scope`), `unknown_spend` |
| `cap`, `unknownSpend`, `forced` | `caps.max_work_tokens`, `unknown_spend` and `forced_exhausted` of the state |
| `Physical[a]` | the attempt id in the envelope, which may be another than the one reserved; then both are settled (`Settle`, `Supersede`) |
| `stage`, `runner`, `alive` | where the attempt stands in its caller, the process that carries it out, and which processes live |
| `used`, `granted`, `allowance`, `orphans` | history: what was really spent and granted, for the properties |

Assumed: `budget.lock` excludes; a dead process is recognised as dead and a
living one as living (pid and birth token); an envelope that says that the
provider was not contacted is right; unknown spend is always fatal to a capped
mission (no caller passes `fail_closed_on_unknown_spend=False`).

### LockFile

The lock files of `_mission_budget`, `_resource_governor`, `run_subagent` (of an
output and of a worktree), `_conversation`, `_hook_bridge`, `_telemetry`,
`_builder` (two), `_jobs` and `_chat_launch_guard`, one action per file operation.
They are one algorithm under different rules, so a rule is a record and a variable
that never changes: what makes a lock stale (dead owner, age, or both), whether a
lock without contents ever is, what guards its removal (nothing, an OS lock, a
companion directory), whether the contender reads again before it removes, and
whether the owner removes only its own.

| TLA+ | code |
|---|---|
| `lock`, `written`, `owner` | the file by its creator's token, and whether the marker is in it yet |
| `old`, `guardOld` | the age of the file, or of the guard directory, is past the threshold |
| `guard` | who holds the OS lock, or whose companion directory exists |
| `seen[p]` | the lock that `p` judged stale, before it takes the guard, looks again, and removes |

`Write` goes to the file that was created: when another process has meanwhile
replaced it, the marker is lost with it.  A waiter that gives up is a process that
takes no further step.  Left out: the 24 hours after which an output lock expires
under a live owner, and reused pids.

### ResourceGovernor

One action per operation on the registry (each under its lock).  Between them are
the steps of `acquire_slot`: `Probe` takes a sample of the hardware without the
lock, `TryAcquireLease` decides on it later.  `Tick` ages leases and deadlines.

| TLA+ | code |
|---|---|
| `lease[u]` | the registry's entry: age, time left, state |
| `process[p]`, `birthKnown` | what `_process_alive` can find out: dead, alive, or another process under the same pid, told apart where births are known |
| `sample[u]` | memory (or `None` when it cannot be measured), CPU and disk, as last probed |
| `resident` | workers in memory, orphans of a dead process included |
| `Admitted`, `PendingRam` | the policy of `evaluate_capacity`, memory counted in workers |

### JobResume and SingleUse

The ledger of one finished job holds at most one claim; every change of it is a
read, a check and an atomic replacement under an OS lock, hence a step.  The callers of
`jobs resume` go through reservation, launch lock, record, claim, Popen, pid and
confirmation step by step, and may die between any two; so does the successor,
through gate, provider claim, provider start, registration, reap, result and seal.

| TLA+ | code |
|---|---|
| `claim` | `parent_phase`, `gate_phase`, `provider_phase`, `provider_contacted` and the request of the claim |
| `record`, `result` | the successor's launch record and result file, as far as `job_status` tells them apart |
| `call`, `seen`, `launchLock` | where a caller stands, what it read of the claim, who holds the launch lock |
| `child`, `says` | where the successor stands, what the envelope it prepares says of contact |
| `runs` | history: provider processes ever started |

`SingleUse` is the promise about the session handle: used once, never after it was
reported unspent, and reported truly; a report that nothing was spent may be taken
back to try again.  `HandleUsedOnce` is its refinement by `JobResume`.

### ControlLog and JobControl

`ControlLog` has the command log (`log`, empty when there is none; `made` counts the
commands ever made) and its operators: what a valid log is, which appends are refused,
the level at which any number of its commands leaves the breaker.  `JobControl` is a job process with its attempts:
each builds its `RuntimeControl` from log, seal and heartbeat
(`Load`, `Salvaged`), then polls: refresh, checkpoint and breaker, handoff,
publish, decide.  The provider reports, closes its output or exits, or never does;
an operator queues extensions, steering and a cancel; one file may be lost or
damaged.

| TLA+ | code |
|---|---|
| `rt` | the fields of `RuntimeControl`: generation applied, deadlines, cancel, level, constrained, stopped, untrusted |
| `breaker` | the level in `GraduatedBreaker`, which is another object and must agree |
| `seal`, `beat` | the control seal and the heartbeat, `Damaged` when they do not authenticate |
| `Replayed` | the loop of `_refresh_locked` over the commands that were not applied yet; a recursive function, since it is proved about |
| `pc` | where the read loop of `_drive_process_loop` (or the loop after the output was closed) stands |
| `seen`, `promised`, `refused` | history: what stopped attempts knew, the latest deadline gone by, when another attempt was refused |

Signals and the progress judge are any verdict.  A command's authentication is its
identity: `id` numbers commands in the order they were made, so a log that was lost and begun
again is another log.

### HookBridge

Hook processes of one agent, each reading the log (`Read`), evaluating under the
lock of `hook_state.json` (`Evaluate`) and printing its answer (`Answer`) in steps of
their own, while commands are queued and the log may be lost.  `file` is
`hook_state.json`: the highest generation seen, the sticky stop and the emitted
generations.  Initial states, steps and types are called `HookInit`, `HookNext`,
`HookTypeOK`, for `ControlProofs` extends this module and `JobControl`.

### FleetDispatch

The dispatch ledger of one approval, write by write.  An operation holds the store
lock (`op`) from its first read to its last write, recovers and examines what
it finds, decides, and replaces staged ledger, anchor, ledger and anchor again.  It
may fail before any of them (`Fail`) or lose its process (`Die`).  The
compare-and-swaps of the callbacks, of `_indeterminate` and of `finalize` are
the rows of three tables (`Callbacks`, `Doubt`, `Settle`): where the dispatcher
stands, the phase expected, the phase written, and what it says of contact.

| TLA+ | code |
|---|---|
| `disk.ledger`, `.staged`, `.anchor`, `.marker` | the ledger file, its `.pending` successor, the anchor with its `clean` or `prepared` state, the initialization marker |
| a digest | the content: `gen` makes every ledger new |
| `at[d]`, `round[d]` | where the dispatcher stands between `prepare`, the callbacks of the executor, `finalize` and `failure`, and which of the attempts at reconciling it is in |
| `approval` | active, revoked or expired, or compacted away by a write for another approval (`_prune_terminal`) |
| `child[d]`, `answer[d]` | the provider process, and what the result says of contact |
| `acked`, `past` | history: phases that were reported as durable, ledgers that were on disk |

`get_claim` followed by the transition it suggests are two operations under two
locks in the code and one in the model; the claim is changed by its own dispatcher
only, so nothing of the claim changes in between.  `Tamper` deletes one of ledger, anchor
and marker while another of them is left, or puts an earlier, authentic ledger
back, in its place or in that of its successor; the documents promise nothing
when all three are gone.

## The runs

TLC finishes every passing run without an error.  In most modules the type invariant is
checked as the first conjunct of the module's main invariant (`Inv`, `RunDirInv`,
`BudgetInv`, `LockInv`, `GovernorInv`, `ResumeInv`, `ControlInv`, `HookInv`, `FleetInv`).

| Run | Instance | What it shows |
|---|---|---|
| `swarm` | 2 tasks (one waits for the other, one has deliveries), 2 workers, 2 claims in all, 1 artifact, clock 0..1 | the inductive invariant; one active attempt; no silent respend; dependencies; cancellation; closing; stale workers harmless; records that agree; every task can move on; outcomes final; refinement of `TaskLedger` |
| `swarm_frames` | 4 messages, 1 worker, 2 attempts, 1 renewal, 1 artifact, clock 0..1, no skew | exactly-once effects; answers that hold |
| `rundir` | 2 processes, 2 ownership periods of up to 2 records, 1 crash | acknowledged records are durable; acknowledgements are fenced |
| `budget` | 2 attempts (one under a key of its own), a pool and 2 processes, caps 1 and 2, reservations 0 and 1, 1 token per attempt, 1 death | the invariant that is proved; no overbooking while owners live; holds stand; settled spend shows; exhaustion is final |
| `budget_overbooked` | the same | a violation: the [finding](#what-was-found) |
| `locks` | 10 rules, 3 processes, 2 deaths, the file created twice | where the rule removes nothing or removes under an OS lock: exclusion; where it covers blank files: the lock of a dead process goes away |
| `governor` | 2 threads of 2 processes, 1 or 2 slots, memory for 2 workers and a floor of 1, leases of 1 tick and a longest life of 2, 1 death | capacity; memory floor; live owners keep leases; slots come back |
| `resume` | 2 callers, 2 requests, up to 2 successors, 3 faults | one successor; sealed claims; the handle used once (refinement of `SingleUse`); what ended is reported |
| `job_control` | enforcing breaker with stop, 3 commands, 2 attempts, 1 damaged file, clock 0..2 | cancel and containment survive into later attempts; levels agree; deadlines stand |
| `job_live` | shadow breaker, 2 commands, 2 attempts and a repair, 1 damaged file | a cancel ends the job; every job ends |
| `hook_bridge` | 2 hooks, 3 commands, 3 events, 1 lost log | steering is emitted at most once; a cancel keeps denying |
| `fleet` | 2 dispatchers, 3 approvals with one ceiling of 1 each, 1 failure or death, 1 tampering | ceilings; decisions only on the latest ledger; recovery; true denials; dispatches end and settle |

**Why the bounds are enough.**  Hazards of a claim involve it and its
successor: two attempts, and two readings of the clock with a lease of one, so
that a lease can be live, expired, or revived by a clock set back.  A second
task matters only as a dependency.  Four messages suffice for claim, renewal,
ending and the claim after it, each repeated.  In the run directory a hazard
needs a deposed owner and its successor; what a third period could add to the fencing
of acknowledgements is covered by the theorem.  `Tries` is 3 in the code; a
further iteration only re-reads.  In the budget two attempts compete for a cap
of one, or fill a cap of two that is then tightened.  The
race of a lock file needs an owner, a contender that is suspended before its removal, and
the creator of the new lock in between.  In the governor a second slot lets both
threads run at once, against the memory floor.  For the continuation one fault
each may hit the caller, its successor and the repair.  A level of the breaker above
`Steering` needs two transitions, and the third command is a cancel or an extension.  In the fleet the second
dispatcher is the one that must not get the slot of the first.
Limits of the code made small are `MaxAttempts`, `MaxLease`, `MaxRenewals`,
`MaxCommands`, `MaxBreaker`, `Retries`, `Budget`, `MaxExtension`, `TTL`,
`Lifetime` and `Wait`; bounds of the models are `Clock`, `Horizon`,
`MaxNonces`, `MaxRecords`, `MaxCrashes`, `Tries`, `MaxUse`, `MaxLocks`, `MaxDeaths`,
`MaxFaults`, `MaxMade`, `MaxEvents`, `MaxLost`, `MaxTampers`, and the constraint
`MCTwoClaims`.  The proofs lift them where they exist.

**Symmetry** is used over workers, processes, hooks and message ids in runs of
safety properties only; no module picks one of them with `CHOOSE`.

**Fairness.**  Safety runs assume none.  The runs with liveness properties
assume what the scheduler of the operating system gives, and nothing of
operators, agents, workers and providers:

- `locks`: time passes; a process that was not killed goes on, and asks again
  after a refusal.
- `governor`: time passes and a live thread polls (`acquire_slot` sleeps
  `poll_interval_sec`), which reaps.  Workers need not end, releases need not succeed.
- `resume`: a call once made runs to its end, and somebody repeats it (the
  user, or `jobs` listing); the successor need not do anything.
- `job_live`: the job process runs.  `Reap` is strongly fair: once the
  provider reported, the grace for its exit elapses, although each poll in
  between disables the step.  The provider may go on for ever and time may
  stop; `JobEnds` speaks of executions in which it passed the longest runtime.
- `fleet`: a dispatcher and the operation under the lock go on; a child is
  stopped at its deadline; the lock is handed on, but only to some contender, and
  `EveryDispatchSettles` holds since each dispatcher operates finitely often.

"Can still move" is stated with guards and `ENABLED` instead (`EveryTaskCanMove`), for
workers are external.  Deadlock is checked except in `budget` and
`budget_overbooked` (processes end), `locks` (tokens are used up) and
`hook_bridge` (events are used up).

**Mutants.**  Next to an operator `X` stands `X_Y`, `X` with a plausible
defect: a dropped guard, a missing fence, an off-by-one.  For every property of
a passing run one of them violates it.

## The proofs

`SwarmCoordinatorProofs` proves, from the assumptions on the constants alone:

- `Invariance`: `Spec => []Inv`.  `Inv` is inductive: to the safety properties
  it adds that claims are issued in order, that the outcome of a task is
  explained by its latest claim (`OutcomeExplained`), that a pending retry
  authorisation belongs to the latest claim (`RetryIsPending`), and that a
  recovery window is still undecided.  `NoSilentRespend` is not inductive
  without the middle two: what allows the next claim is the task's `terminal`
  and `retryAuthorized`, and only they tie it to the claim that spent.
- `TypeCorrect`, `MutualExclusion`, `SpendIsAuthorized`,
  `DependenciesRespected`, `CancellationRespected`, `ClosureIsSafe` follow.
- `StaleWorkersAreHarmless` and `OutcomesAreFinal` are the action properties.
- `Refinement`: `Spec => LedgerSpec`, each action a step of the ledger or a
  stutter.
- `RecordsTell`: `Spec => []RecordsAgree`, inductive on top of `Inv`.
- `OnlyTwoDeadEnds`: `Spec => []NoThirdDeadEnd`, what `EveryTaskCanMove` says of the
  guards.  On top of `Inv` it needs `Numbered`: the lease generation of an attempt is its
  number, for otherwise the next claim could ask for a generation out of range, and an
  active claim is held by a registered worker, for otherwise nobody could end it.
- `FramesImplementCoordinator`: `FramesSpec => Spec`, so all of the above holds with
  messages that are repeated, late or never answered.
- `EffectsHappenOnce` and `AnswersAreKept`: `FramesSpec => []ExactlyOnce`, and
  `[]AnswersHold`.  A frame is recorded in the step that brings it into effect
  (`RecordsInEffect`), and no step of the coordinator takes that effect back: outcomes
  are final, and attempts, renewals and artifacts are never fewer.  `ExactlyOnce`
  counts: each step of the coordinator adds one effect and, in the same step, the
  message it was recorded for, which was new.

`RunDirProofs` proves `AcksAreFenced`: `Spec => []AcksFenced`, by the inductive
invariant `FenceInv`: the lock, when there is one, is the newest ever created
(whoever unlinks, even the wrong lock, only makes it absent), so an owner whose
bytes are in it has no successor.  `RunDirInvariance` is `Spec => []RunDirInv`,
and `AckedDurable` with it.  Every number in use was drawn, and each acquisition
has its own (`Numbered`); a segment is that of an acquisition (`SegmentsOwned`);
and, while no generation has been handed out twice, `Intact`: the segment
of an owner that may still append is replaced by nobody and has no torn tail
(`OwnersUndisturbed`), and an acknowledged line is among the synced lines of its
segment and in every replacement in progress (`AcknowledgedSaved`).
`GenerationsUnique` is the hypothesis of that part only, because observation 3
breaks it.

`MissionBudgetProofs` proves `BudgetInvariance`: `Spec => []BudgetInv`.  To types
and `SettledSpendShows` the invariant adds that nothing is used before it runs
and that only an attempt's own telemetry establishes a total; without the second
the settlement of the superseded key could hide the spend of the other one.
`SettledSpendIsShown` follows; `HoldsStand` and `ExhaustionStands` are the action
properties.  What is proved holds for any number of attempts and processes, and any
finite set of keys.

`NothingIsOverbooked` is `Spec => []NoOverbooking`, and compares two sums: what the
attempts take up, and what the ledger is charged with when the next one asks.  `Backed`
ties them: the reservation of an attempt under way whose reserving process lives is in
the ledger, undiminished.  So every attempt finds a record of the ledger that is charged
at least what it takes up, its reservation while it runs and its telemetry when it has
ended, and no two find the same one (`SumsMapped`, `AdmittedFits`); no step but an
admission makes an attempt take up more (`NobodyTakesMore`).  For `ExhaustionStands`
`MarksKept` says that a mark in a record is a mark in the ledger; the known work only
grows and the cap is only tightened.  The sums are folds over finite sets, and the
library's induction theorems cannot be instantiated; `NumberInduction` and
`SubsetInduction` are stated of a set of cases instead, and proved by its least
exception, which is enough for what `SumFunction` computes (`SumsExist`,
`SumsAnyOrder`).

`LockFileProofs` proves `LockInvariance`: `Spec => []LockInv`, for any set of
rules out of `RepositoryRules`, the ten of the code.  Tokens are numbered as they
are drawn, so a token names one owner (`TokensKnown`); a live process in its
section finds its token in the file (`OwnersHold`); and who is about to remove a
lock holds the OS lock and saw under it that the owner is dead
(`RemoversGuarded`), without which exclusion is not inductive.  `Exclusion`
follows.  All of it is said of the cautious rules; observation 6 is about the others.

`ResourceGovernorProofs` proves `GovernorInvariance`: `Spec => []GovernorInv`,
and with it `CapacityHeld` and `FloorHeld`, for any finite set of users.  Only
`TryAcquireLease` adds a lease; it reaps first and counts what is left, and the
reap leaves every entitled worker, whose owner's birth is known and whose lease
has not reached its longest life.  For the memory floor `LeasesFit` says that the
registry, stale leases included, never asks for more than there is.
`CapacityIsHeld` follows; `LiveOwnersKeepLeases` is the action property.

`ControlProofs` proves `HookInvariance`: `Spec => []HookInv`.  The state file
marks places of the log, and the agent is given commands; every version of the
log that a hook still holds, lost ones included, has a command in the same place
(`OnePlace`), what was given or is about to be given has its place marked
(`PlaceMarked`), and it is given by one hook (`GivenByOne`).
`CancelledForGood` is the action property.

Of the jobs `ControlProofs` proves `JobTypeCorrect`, `JobControlCorrect`,
`KnowledgeKept` and `DeadlineKept`: `Spec => []TypeOK`, `[]ControlInv`,
`[]KnowledgeSurvives` and `[]DeadlineStands`, for any number of commands, breaker
transitions, retries and extensions, any deadlines, and an enforcing breaker or not, the
last three up to the first fault and after it.
None of the last three is inductive: they relate the runtime control of an attempt to
what earlier attempts knew, and between the attempts that knowledge exists only in
files.  The inductive invariant `JobInv` says where it is.

- The log is the reference: `HardAfter`, `Contained`, `StopAsked` and `LevelAt` say
  what a log alone comes to, and `Trusts(r, l)` that the runtime control `r` is what a
  beginning of `l` comes to.  The lemmas on `Replayed` prove that replaying keeps it so,
  whatever was sealed before and from whichever generation on.
- `Intact(l)` says that runtime control, seal, heartbeat and history all go back to log
  `l`: whatever one of them asserts, `l` asserts.  This is what makes a later attempt
  arrive at the same deadlines, since extensions are judged by the time they were made.
- Without a fault (`NoFault`) the state is intact with respect to the sealed commands,
  and the log begins with them.  So the one loss that may come leaves either the log, and
  then the state is `Intact(log)`, or seal and heartbeat.
- In the second case (`Lost`) the seal has a first command that a log begun instead cannot
  repeat, so nobody trusts that log, and containment is in the seal, a cancel in seal or
  heartbeat (`CancelKept`), or in the new log of which the heartbeat says that it is not
  to be trusted, which makes `Salvaged` look.
- `Levelled`, that breaker, control and log agree on the level, is needed for each of
  the others: from another level no transition could be appended.

The proof goes by what a step does to the copies, not by actions: `StepWays` sorts the
actions into `Thinking` (memory only), `Reading` (the log may grow and is replayed),
`Resting` (the log may grow, the heartbeat be written), `Ending`, `Load` and `Damage`,
and one lemma for each of these and for each part of the invariant follows.

`JobResumeProofs` proves `ResumeInvariance`: `Spec => []ResumeInv`.  A caller
past its look at the claim holds the launch lock (`LockHolders`); once a
successor is started the claim is never again one that can be launched
(`LaunchOnce`); the successor's place fits the provider's phase (`BoundaryKept`),
and the phase fits the runs that were and what is said of them (`LedgerTrue`).
`SealStands` is the action property, `ContinuationIsSingleUse` the refinement:
`Spec => HandleUsedOnce`.

`FleetDispatchProofs` proves `FleetInvariance`: `Spec => []FleetInv`, for any
finite set of dispatchers, any ceilings, and any number of faults and of files
deleted or put back.  `CeilingsHold` speaks of processes, the code counts claims
in a file, and the file may be an old one.  Between them stands `LatestIsSound`: the
ledger the anchor knows, or is prepared for, remembers whatever a dispatcher was
told and whoever may launch, and is itself within the ceilings.  An operation
decides on that ledger only, since it compares what it read with the anchor
(`AsWritten`), or on an empty one when nobody was ever told anything
(`NothingForgotten`).  `InPlace` ties the place of a dispatcher to its child and to
what it was told.  `DenialsHold` says of every ledger ever written that whom it
denies will never launch; `DenialIsTrue` looks at the ledger of the moment and is
not inductive, because an old one may be put back.  `DecisionsOnLatest` and
`DenialsAreTrue` follow.

What the proofs assume of the constants stands in the `ASSUME`s of the modules, which
TLC evaluates on the instances: sets that are counted are finite, bounds are natural
numbers, and a value that stands for "none" is none of the others.

Model-checked only:

- the second half of `EveryTaskCanMove`, which uses `ENABLED`: that the operations are
  enabled where the guards of `Movable` hold;
- all that is about liveness (`LeftLockFreed`, `SlotComesBack`, `EndedIsReported`,
  `CancelStops`, `JobEnds`, `EveryDispatchSettles`);
- that the history variables mean what their comments say, which is a matter of reading.

Every other property that a passing run checks is proved, and the first half of
`EveryTaskCanMove` too.

## What was found

**The finding.**  *The last slice of a budget is granted twice* (run
`budget_overbooked`, `_mission_budget.py` 770).  A reservation belongs to the
launcher, which ends once the background job runs; the next operation calls the
running attempt abandoned, and another launch is admitted.

**Observed divergences.**  The following disagree with a document, a comment or the
name of a function as well.  Those with a property in parentheses have it in their
module, where checking it gives the counterexample; the project keeps no run for them.

1. A failed task that is claimed again cannot be ended
   (`CancelOutcomeAccepted`; `_swarm_coordinator.py` 1683 and 3146, against
   `docs/SUMMON_SWARM_PROTOCOL.md`, step 6).  Its outcome stays on record, and
   every record that would end the new attempt is refused, as are recovery and
   close.  Needs `max_attempts >= 2`.
2. An acknowledged cancellation can end as a release (`CancelEndsAsPromised`;
   line 3335), or as a failure, and the task is worked on again.
3. A generation can be owned twice (`OneWriterPerSegment`; `_rundir.py` 372,
   against the comment at 612), so a segment can have two writers.  One
   ownership period later the same stalled acquirer sets `generation.txt` back, and its
   acknowledged records are replayed before older ones.
4. A deposed owner can tear an older segment (`OnlyNewestTorn`; line 722,
   against 883), after which the journal is unreadable and is never repaired.
   3 and 4 need a process suspended for longer than a lease at one instruction.
5. An interrupted attempt is counted as nothing (`InterruptedFailClosed`;
   `_mission_budget.py` 449, against `README.md` 1197 of the repository): its hold is given
   back, no unknown spend is marked, and launches go on.
6. Lock files that are removed without an OS lock around the second look can be taken from
   a live owner (`MutualExclusion` without `Cautious`): by a contender suspended
   between its judgement and its rename (`_resource_governor.py` 690, against
   1118; locks of the budget, of hooks and of worktrees are alike), through a guard
   directory judged abandoned (`run_subagent.py` 291, against 232), or by age alone
   (`_telemetry.py` 706).
7. A process killed between the creation of a room's append lock and the write
   of its marker leaves a lock that nobody may remove (`LeftLockFreed` for
   `AppendLock`; `_conversation.py` 727, against 652).
8. A worker of a live process loses its slot after 24 hours, however it renews
   (`LongRunKeepsSlot`; `_resource_governor.py` 793, against 1241).
9. The estimate of a worker that has long been running is subtracted although its memory
   is in the sample (`ResidentNotSubtracted`; 841, against 839): the lease keeps the state
   `launching` or is never moved on.
10. A cancel during the finalization of a provider that does not exit becomes a
    retryable error, and the next attempt contacts the provider before it looks
    (`CancelIsFinal`; `_executor.py` 4379, against `README.md` 1200 of `src/`).
11. An extension that was granted is not honoured by the decision whether there
    is runtime left for another attempt (`ExtensionHonoured`; `_job_control.py`
    1007, against `README.md` 501).
12. Two hooks that evaluate their snapshots in the other order than they read them
    deny a tool call for a rollback of the log that did not happen
    (`NoFalseRollback`; `_hook_bridge.py` 518, against 542).
13. After two faults in the life of one continuation, the repair of its claim
    may be refused to everybody for good (the second disjunct of `EndedIsReported`).
14. Pruning a revoked approval hides the lifecycle of a dispatch that had
    launched under it (the exceptions of `EveryDispatchSettles`;
    `_fleet_approval.py` 938; the test at `test_phase1_fleet_dispatch.py` 737
    revokes without pruning).

Meant to be so, and part of the properties: a fleet dispatcher that dies leaves
its claim active for ever, an indeterminate claim keeps its slot, and a crash
between the first marker and the first anchor fails closed.
`queue_breaker_transition` of `_job_control.py` has no caller outside the tests, and
no action.

Two limits of `KnowledgeSurvives` became visible when its proof was attempted, and TLC
confirmed both under larger bounds than `job_control` has (four transitions, two retries
and a budget of 5; four transitions and a budget of 4).  A breaker
that is back at healthy contains nothing any more, so the containment that once stopped an
attempt need not be known after that (`seen` forgets it in `CheckpointStep`).  And an
attempt that does not trust its log decides a containment in memory only: the heartbeat
is throttled (`publish`, `_job_control.py` 1518) and not forced before the attempt is
stopped (`_executor.py` 4152), so the next attempt may begin without it.  The property
counts the containment by attempts that trust their log.  `LevelsAgree`,
`KnowledgeSurvives` and `DeadlineStands` are about at most one fault in the life of a
job; with the log and then the seal lost nothing is left to know it from.

`AckedDurable` is conditional on `GenerationsUnique`, which observation 3 breaks.
It says that nothing else endangers acknowledged records.

A call repeated after a lost answer is recognised by its message id only through
`claim()`, which rebuilds the recorded frame.  The other helpers stamp a new one
from the clock, and the retry is refused; `SwarmFrames` repeats the frame itself.

Two dead ends of the coordinator are no disagreement with a document and are
part of `EveryTaskCanMove`: a task out of attempts after a release or a pardon,
and a task whose dependency ended other than completed.  Runs with such tasks
cannot be closed.

## What is not modelled

Of the modelled parts: posted messages, the byte and record limits of the
journal with their reserve, economics and supervisor-budget records,
`carry_forward`, the contents of stage files, and the checks of digests and
request fences (a frame of the model carries the right digest).  A re-read of
the journal after the append, by which the coordinator notices concurrent
writers, is left out: it turns an acknowledgement into an error, never the
reverse.  The `mtime` comparison before a stale break is left out too: bytes
carry a fresh nonce, so equal bytes are the same lock.

Of the budget: the money cap, which the code treats as it treats the token cap;
the cancel commands that exhaustion puts into the queues of other jobs; and the
seals.  That `budget.lock` excludes is assumed there and looked at in `LockFile`
(observation 6).

Of the governor: the probes, other programs' use of memory, and workers that
outgrow their estimate.  Of job control: listing, waiting for and
cleaning up jobs, and why a signal triggers.  Of the continuation: how a source
qualifies, and chains of continuations.  Of the hook bridge: the installation of
hooks.  Of the fleet: the reservation without an activation (the same steps with
fewer checks), limits of 4096 claims and of bytes, and the contents of approvals,
activations and receipts.

Authentication is left out of every model: a forged file is one that is refused.
Where a refused file matters it is `Damaged`, missing or `Tamper`ed with.

Most of the code is none of this: construction of command lines, parsing of
output, presentation, configuration and text transformation are pure functions or
straight-line I/O around one process, and have no behaviour that TLC or a proof would
show more of than a test.  Of the other stateful components (mission engine,
manifest, council, deliberation, conversation turns, workspace runtime)
`PROJECT.json` says what is planned.

## The plan

In this order; each module with its MC module, runs and mutants.

1. *(done)* `SwarmCoordinator`, `TaskLedger` and their proofs.
2. *(done)* `SwarmFrames`.
3. *(done)* `RunDir`, `RunDirProofs`.
4. *(done)* `MissionBudget`, `MissionBudgetProofs`.  To come: the abstract
   account that reserves and settles, refined as long as owners live, and the
   stale-lock race of `budget.lock`.
5. *(done)* `LockFile`, `ResourceGovernor`.
6. *(done)* `JobResume`, `SingleUse`.
7. *(done)* `ControlLog`, `JobControl`, `HookBridge`; the breaker is part of them.
8. *(done)* `FleetDispatch`.
9. `Mission`: 4, 5 and the run directory composed.  `Manifest` with liveness
   under weak fairness of the pool's threads.
10. `SwarmOnRunDir`: the coordinator's operations as acquire, replay, append,
    release on `RunDir`, to show under which of its properties an operation is
    the single step `SwarmCoordinator` takes it for.  `SwarmCapacity`.
11. `DeliberationRecovery`, `Council`, `ConversationTurn`, `WorkspaceDelivery`.
12. Proofs: *(done)* the invariants of `RunDir`, `LockFile`, `ResourceGovernor`,
    `HookBridge`, `JobControl`, `JobResume` and `FleetDispatch`, `RecordsAgree`, the refinement of
    `SingleUse`, `ExactlyOnce` and `AnswersHold` of `SwarmFrames`, `NoOverbooking` and
    `ExhaustionIsFinal` of `MissionBudget`: every safety property that a passing run
    checks, of `EveryTaskCanMove` what does not use `ENABLED`.
