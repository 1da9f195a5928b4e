# Verification of Code Brain

TLA+ models of the parts of Code Brain in which processes share files: the two
work queues, the audit log, the decision log, worker dispatch, the completion
guard, memory sync, the route floor and the episodic index. TLC checks them on
small instances; all safety properties but two of the episodic index are proved with
TLAPS for every value of the constants. All paths are relative to the repository; `ai_core/`
stands for `.ai/runtime/src/ai_core/`.

## 1. The system

Code Brain is a repository-local memory and automation layer for coding agents.
There is no central server. Hooks (one short-lived process per host event), an MCP
server, the `ai` command line and background loops read and write files under
`.ai/`, and coordinate by `flock`ed lock files, by `os.replace` and by leases
written into the files. Git carries `.ai/memory` to other clones. Whatever can go
wrong goes wrong between two processes, or between two file operations of one
that dies.

### Inventory

| Component (source) | State | Operations | Interacts with | What makes it correct |
|---|---|---|---|---|
| Job queue (`worker/scheduler.py`) | JSON files in `queue/`, `processing/`, `dead/`, the archive; the recovery state | enqueue, lease_next, complete, fail, recover_expired, sweep_if_due, archive_dead | queue_lock, audit log | no job lost or run twice; a revoked lease is worth nothing; attempts bounded; every job settles |
| Loop requests (`loop_engineering.py`) | JSON files in `inbox/`, `processing/`, `done/`, `dead/` | submit, claim, record_verdict, record_acceptance, complete, fail, recover_expired | queue_lock, route floor, plan state, decision log (distill), loopd | the same, and `done` only behind both gates |
| Queue lock, worker lock (`worker/lock.py`) | a flocked file; a pid file | queue_lock; WorkerLock, clear_worker_lock | both queues | mutual exclusion |
| Audit log (`memory.py`, `audit_repair.py`, check in `doctor.py`) | current file, sealed segments, index | append_audit with rotation and index, rebuild_audit_index, repair_audit_chain | every component appends; doctor, rollups, episodes and sync read | chain unbroken, nothing acknowledged lost, repair never hides a loss |
| Decision log (`memory.py`) | `decisions.jsonl`, its copies in other clones | append_decision, forget_decision, trim, the live filter | git union merge, hooks, MCP, recommendations | no append lost, the forgotten stays hidden, the newest status counts |
| Worker dispatch (`loopd.py`, `worker_registry.py`, `worker_launch.py`, `tmux_adapter.py`) | append-only registry, heartbeats | dispatch_once, recovery_tick, set_state, release_for_request | loop requests, tmux | one request per worker, no worker lost |
| Completion guard (`completion_guard.py`, `loop_continuation.py`) | per session: a ledger of edits and checks, a baseline, a stall row, a budget of continuations, notices | observe_tool_event, begin_request, guard_directive, continuation_directive, reset_counter | hooks, plan state, acceptance ledger | bounded continuation; verification not older than the last mutation; old debt blamed on nobody |
| Route floor (`route_floor.py`, `task_router.py`) | statistics and floor per category | record_outcome | loop requests | every outcome counted, floor moves with hysteresis |
| Plan state (`plan_state.py`) | a checklist file | write_plan, mark_step | loop requests, completion guard | no step lost |
| Memory sync (`memory_sync.py`) | sync lock, commits of `.ai/memory` | sync_once: lock, commit, fetch, rebase, push | git, audit log, decision log | one cycle at a time; only memory is published; no broken audit lineage leaves the machine |
| Private files (`private_write.py`) | - | atomic replacement, append, locks, TTL markers | everything | a reader sees an old or a new file |
| Episodic memory (`episodic_memory.py`, `episodic_runtime.py`), rollups (`audit_fold.py`) | derived indexes | build, read, forget | audit log | derived data agrees with the log |
| Storage lifecycle, process janitor | prunable caches; a registry of children | prune, cleanup | - | nothing referenced is pruned; no foreign pid is killed |
| Hooks, MCP, CLI, doctor, search, recommendations, policy, redaction, sandbox, autoresearch | caches, an SQLite index | calls to the above; text and ranking | all | mostly pure computation and I/O |

The hard behaviours are: deaths between rename, write and unlink; leases that
expire while their holder works on; late answers; sweeps racing with answers;
rotation moving records while an index and links name their old place; repairs of
half-done work; unlocked look-ups before a locked write; git merges that respect
no lock. `PROJECT.json` lists each at its line under `hazards`.

## 2. Modules

| Module | Models | Checked by |
|---|---|---|
| `WorkQueue` | the job queue, one action per file operation | `MCWorkQueue`: `WorkQueueAborts`, `WorkQueueLive`, `WorkQueuePoison` |
| `JobQueue` | what the job queue promises its callers (abstract) | refined by `WorkQueue` (`ImplementsJobQueue`) |
| `WorkQueueProofs` | TLAPS proofs about `WorkQueue`: its invariants; its refinement of `JobQueue` | `tlapm` |
| `LoopRequests` | the loop request queue, one action per file operation | `MCLoopRequests`: `LoopRequestsAborts`, `LoopRequestsStranded` |
| `AuditLog` | the audit log, its repair and the doctor's check | `MCAuditLog`: `AuditLog`, `AuditLogSealed`, `AuditLogLoss` |
| `DecisionLog` | the decision log, its readers, and merges | `MCDecisionLog`: `DecisionLog`, `DecisionLogReborn` |
| `CompletionGuard` | the Stop guard, the plan continuation and their budget | `MCRuntime`: `Runtime` |
| `WorkerDispatch` | loopd, the worker registry and the workers | `MCRuntime`: `Runtime` |
| `MemorySync` | one machine's sync cycles beside a user and other machines | `MCRuntime`: `Runtime` |
| `RouteFloor` | the learned floor of the model tiers | `MCRuntime`: `Runtime` |
| `EpisodicIndex` | building the episodic index over the audit log | `MCRuntime`: `Runtime`, `RuntimeGap` |
| `AuditLogProofs`, `DecisionLogProofs`, `LoopRequestsProofs`, `CompletionGuardProofs`, `WorkerDispatchProofs`, `RouteFloorProofs` | TLAPS proofs about these | `tlapm` |
| `MemoryProofs` | TLAPS proofs about `MemorySync` and `EpisodicIndex` | `tlapm` |

Operators called `Bug_...` are the mutated forms of the definitions below them
and take no part in the specifications; they show that each property depends on
the code it is about.

### WorkQueue

`dir[d][j]` is the file of job `j` in directory `d`, absent (`NoFile`), a record
(lease, attempts, maximum) or `Torn`: `write_job` uses `Path.write_text`, which
truncates and then writes, so a death inside it leaves a file that is not JSON.
`lock` is the holder of `queue_lock`, `pc` the stage of each process, `op` the
local variables of the call inside the lock. Calls with several file operations
are as many actions: `LeaseRename`, `LeaseRead` (which truncates), `WriteBack`,
`LeaseReply`; `Fail` ... `FailUnlink`; the sweep walks over the files with
`ScanKeep`, `ScanExpired`, `ScanUnlink`, `ScanFails`. `Abort` is the death of the
holder, or an exception (`append_audit` and every write may raise) at any of
these points: the lock is released and the files stay. `LeaseCall` is
`lease_next` as the polling loop calls it, behind `sweep_if_due`, whose look at
the recovery state is outside the lock (`due` says the state is older than the
interval).

Left out: the payload, `attempt_history`, `status` and time stamps (no decision
reads them), the content of audit events, statistics. A missing and a null
`lease_id` are both `NoLease`. Failing `flock` calls, which the Windows branch
ignores, are not modelled.

`JobQueue` is the promise: `Submit`, `Lease` (in the order of the names within a
priority, at most `max` times), `Finish`, `Bury`, `TakeBack`. Under the mapping a
job is leased when the lease is in its file, not when the file is renamed.

### LoopRequests

The same layout. Differences in the code, and so in the model: files are written
atomically (`_write_json`), so nothing is ever torn; `claim` sweeps in the same
critical section (`RecoverBegin` to `ScanDone`, then the claim); a request carries
a verdict and an acceptance result, which survive recovery and requeue;
`record_acceptance` runs the commands before it takes the lock (`AcceptanceRun`,
`AcceptanceRecord`, with the lease compared only at the end); a transient failure
below the limit puts the request back.

Lease ids are drawn per request here (`issued[r]`), globally in `WorkQueue`;
both stand for ids that never repeat. `distill` and the statistics are other
components. Workers may call anything with any lease a claim ever returned.

### AuditLog

`text[f]` is the sequence of lines of a file; the files are the segments and,
last, the current file. A hash is a number drawn when a line first exists, so
equal texts have equal hashes, and the digest of a file is the sequence of its
lines' hashes. All writers hold the audit transaction lock from their first read
to their last write, so a single variable `call` stands for whoever holds it.
`AppendBegin` decides about the rotation as `_rotate_audit_chain_locked` does,
`Seal` writes the segment (or recognises that it exists), `Replace` puts the
marker in place of the current file, `AppendWrite`/`AppendTorn` write the record,
`IndexRow`/`IndexAfterRotation` update the index. Records are written with
`ensure_ascii=False`, so a death inside `_write_all` may leave the whole record but for
its newline, a line that is not JSON (`junk`), or one that is cut inside a multi-byte
character (`mangled`). A file with a mangled line does not decode: `Unreadable(f)`. As
in the code, `AppendBegin` then raises before it writes anything (`memory.py:88-91`),
`FullIndex` skips the file (`memory.py:1258`), `RepairBegin` refuses
(`audit_repair.py:182`) and the doctor rejects it (`doctor.py:1557`); that lasts until
the operator cuts the tail off (`TailCut`, which is no code of the repository).

`Repair...` walks over the files as `repair_audit_chain` does, `RepairSkip` being its
`continue`. `Damage...` is a change from outside (two lines swapped, one removed, a segment removed).
`DoctorAccepts` is `_check_audit_chain_snapshot`.

Left out: year boundaries, several files with one segment number (a divergent
sync), legacy records without hashes, the cap of the index, and readers that list
the files without the lock.

### DecisionLog

`log` is the sequence of lines. A row has a number (the order of writing), an id,
and a kind: decision, failure, retired failure (status stale or refuted) or
tombstone; or it is damaged: `torn` (not JSON) or `mangled` (cut inside a
multi-byte character, so that the file does not decode). `open` says that the
last line has no newline, as after an append that died; the next row is glued to
it. `AppendRead` is what `append_decision` looks up without the lock; `AppendWrite`
to `TrimReplace` is `append_jsonl`; `ForgetRead`/`ForgetRewrite` is
`forget_decision`. `Parsed` is `read_jsonl_all`, `Live` is `live_decision_records`.
`UnionMerge` puts any rows of an older copy (`peer`) back, above or below, at any
moment and without the lock, which is what `merge=union` in `.ai/.gitattributes`
may do; git itself is external.

Left out: `expires_at`, contents, order and limits of what is surfaced, the
rotation notice; two random ids never coincide; the two unlocked look-ups of
`append_decision` are one step; a line cut off exactly at its end is not
distinguished. A merge only brings back rows this copy had; rows that are new to
it behave like appends.

### CompletionGuard

`tree` is the working tree, a small content for each of a code file and a
document; `Flaw` says which content shows broken syntax, a marker or a conflict.
`ToolRuns` is a tool call of a session (an edit, a check, or both in one command),
`ToolObserved` the post-tool hook that enters it in `ledger`, later and in any
order: the hooks are processes. `PromptCapture`, `PromptStore`, `PromptReset` are
the UserPromptSubmit hook: the debt is captured before the lock of the state file,
then stored, and the budget is another file. `StopBegin` to `LetGo` follow a Stop
hook through `handle_hook`: the continuation first, the guard behind it; each
reads without a lock (`ContinuationReads`, `GuardReads`), counts in the stall row
under the lock of the state file (`Stall`), and counts against the budget under
another lock (`Bump`). `GuardReads` applies `detect`: `Proved` is the comparison
of the last check with the last edit, and `First` the order of the signals.
`baselines` keeps the newest `BaselineCap` of all sessions, and they expire.

Which call edits and which checks, and whether it succeeded, is an input: the
recognition of commands and exit codes is pattern matching. An edit whose payload
does not tell its path is an input too (`told`), and makes the ledger incomplete.
Static checks and tests are one level, since no rule tells them apart. Left out:
the caps of 40 dirty files, 40 paths and 32 rows, `reset_session` (no caller),
state files that cannot be written (the guard then lets go), Kiro's way of asking.

### WorkerDispatch

`registry[w]` is the record that the fold of `workers.jsonl` returns. Every update
is two steps: `FoldRecord` (a copy of the folded record with the new state, kept in
`call[p].rec`) and `AppendRecord`; in between anybody may append. `dispatch_once`
goes over the inbox it listed (`DispatchBegin`) request by request: `DispatchSkip`,
or `Select`, `Claim`, one of `Inject`, `InjectFails` and `EnterFails`, then `Book` and
`Beat`. `tmux_adapter.inject` types the text first and sends Enter afterwards
(lines 111-119): when tmux refuses the pane nothing was typed (`InjectFails`), but when
Enter fails, or the call that typed the text timed out, the worker has the text (`Tell`)
and `dispatch_once` skips the booking all the same (`EnterFails`, `loopd.py:268-270`).
`unbooked` remembers such leases, and those of a call killed between the typing and the
record of its worker. `DispatchSkip` has no guard beyond the listing: it stands for a
request that is gone, parked or gated, and for the capability, the directory, the risk
tier and the pane of the workers, none of which is a variable. `recovery_tick`
judges the workers it listed (`Judge`), then takes expired leases back
(`RecoverEnd`). `FailTransient`, `ReleaseList`, `ReleaseOne` are the transient
failure of a request, which frees its holder after the queue lock was released.
`Kill` ends any of these between two steps.

The queue is what `LoopRequests` shows of it: a directory and a number of claims,
which is also the identity of the lease, and every call is one step under its
lock. Workers act on what was typed into their pane (`told`), as long as the lease
is good. Ranking among idle workers is left open, so the routing, the quota and
the families tried do not appear; a worker is launched once.

### MemorySync

The branch is `base` commits shared with the remote and the commits `ahead` of
them, of memory or of code; `known` is what was fetched. One action is one git command
or one system call on the lock file. `_acquire_sync_lock` is `LockStat`, `LockOwner`,
`LockInode`, `LockSteal`, `LockCreate` (`os.open` with `O_EXCL`: the file is there, and
empty), `LockToken` (`os.write` of the token) or `LockTokenFails`;
`_release_sync_lock` is `LockRelease` and `LockUnlink`. Between creation and token the
file names no owner (`Stealable`), so once it is two minutes old another process may
take it over; `agedEmpty` remembers that a lock file grew old in this state.
`CommitMemory` runs under the audit lock with its second preflight and is one step;
`CommitFails` is its error path. `RebaseDone` joins two lineages into one that is valid
or not, unless there is nothing to put on top. `RebaseConflict` and `RebaseAbort` are
apart, so that a cycle killed between them leaves the rebase behind, with a detached
HEAD; a rebase that git refuses goes through the abort too (`RebaseRefused`, lines
447-448). `Push` sends the branch as it is then, commits behind the check included. The
environment is a user who edits, commits, pushes and repairs, hooks that write memory,
and other machines.

Left out: the remaining git commands and their failures (of which the code makes an
error, and the cycle ends), the option that confirms a private remote, a pid that was
given to another process, `peer_sync_summary`.

### RouteFloor

`record_outcome` is `Load` (read, count, decide), `AppendOutcome`, and the three
steps of `_write_state`: `TmpOpen`, `TmpWrite`, `Replace`. All calls use one name
for the temporary file; `handle` follows an open file through renames by others.
`Decided` is `route_decide` on the counters of the code; `replay` is the history of
each category under the rule that the head of `route_floor.py` states (`Rule`), taken
from the outcomes themselves. `FloorKnobsAssumption` records that the minimum sample
and the cooldown do not exceed the winning streak (all three are 6, lines 41-44): with
larger ones the code would hold a floor longer than its head says. An exception between
these steps, as `append_audit` may raise behind a move of the floor, ends the call like a
kill and is covered by it.

### EpisodicIndex

`rows[k]` are the blocks on disk of tier `k`, `meta` the metadata. One action is
one write of `build`: `SealWindow`, `SealHigher`, `CompactTier`, `WriteMeta`, and
the removal of metadata and tiers before a forced rebuild (`ForceBegin`,
`ResetTier`). `load_audit_corpus` takes no lock and is two steps: `LoadBegin` reads the
log, `LoadEnds` finds that it is still what was read. It raises `EpisodicRuntimeError`
when a hook appended or rotated in between (`episodic_runtime.py:302-321`), or when a
hook died in an append or a rotation and a row is torn or the files do not link
(`SourceTorn`; 175-179, 229): `LoadRefused`. `build_audit_index` does not catch that,
so the call ends there, before it looked at the index; `SourceMended` is the repair by
hand. `BuildBegin` is the comparisons at the start, each with the exception it raises;
`Repeats` and `WriteGap` are the handlers of `build_audit_index`. A block is the sequence of its
events, so digests and summaries are exact. `Only` filters the rows that compaction
keeps. `PowersAssumption` restates two rules of arithmetic about `^`, which the provers
do not know; it restricts no constant, and TLC evaluates it. Left out: a tier row torn by a
death inside its append, which `_read_tier_blocks` answers with `IndexIntegrityError`, that
is with `Repeats` and a rebuild; reading the index for prompts beyond the question whether `assemble` accepts it, tombstones, the hook's
cache, a change of the fanout.

### MCRuntime

These five share no variable. Two of them do call each other in the code, but
through files whose content the other does not look into: the guard reads the
plan, which `CompletionGuard` has; `_finish` of the loop queue hands outcomes to
the floor, which are `Reports` here; dispatch reads the floor only for its ranking.
So they are checked side by side: a behaviour of `MCRuntime` is one of one of them
(`part`), and the others rest.

## 3. Runs

| Run | Instance | Shows |
|---|---|---|
| `work_queue_aborts` | 2 jobs, 2 processes, 2 attempts, 1 death; 1.9 M states | `TypeOK`; `NeverLost`; `BoundedAttempts`; `OneHome` and `ClosedOnce` while nobody died; `NoRevokedClose`; `ImplementsJobQueue` up to the first death |
| `work_queue_live` | 2 jobs of two priorities, 1 process, 2 attempts | `EveryJobSettles` |
| `work_queue_poison` (violated) | 1 attempt, 1 death | `ExpiredLeasesAreTakenBack` fails: a torn file stops all sweeps |
| `loop_requests` | 1 request with both gates, 2 processes, 2 attempts, 1 death; 0.18 M states | `TypeOK`; `NeverLost`; `OneHome` and `DoneWasApproved` while nobody died; `BoundedClaims`; `NoRevokedWrite`; `EveryRequestSettles` |
| `loop_requests_stranded` (violated) | 1 process, 1 death | `ProcessingEnds` fails: a claim that dies after its rename strands the request |
| `audit_log` | 4 events of sizes 1 and 2, files of 3 units, 2 deaths, 1 damage; 0.68 M states | `TypeOK`; `WritersSatisfyDoctor`; `IndexTrue`; `AckedReadable`; `RepairRelinks` |
| `audit_log_sealed_twice` (violated) | 1 death, no damage | `SealedOnce` fails: a crash in a rotation and a shorter next line seal the events twice |
| `audit_log_loss_relinked` (violated) | no death, 1 damage | `LossIsRefused` fails: the loss of the newest segment is repaired over |
| `decision_log` | 4 rows of 2 ids, 2 processes, files of 2 rows, 1 death, 1 merge; 1.2 M states | `TypeOK`; `AckedSurvives`; `ForgottenStaysHidden`; `BodyErased`; `RetiredStaysRetired` |
| `decision_log_reborn` (violated) | no death | `NeverReborn` fails: a failure is superseded while it is forgotten |
| `runtime` | the five components of `MCRuntime` in scenes, see below; 2.7 M states | the properties listed below |
| `episodic_gap` (violated) | 2 calls, 2 events | `GapMeansLoss` fails: a call with an older corpus records a loss that never was |

`runtime` checks, for each component:

- `CompletionGuard`: `CleanMeansChecked` (a stop that is let go as finished was
  checked after the last edit, on what the files hold now), `OldDebtNotBlamed`,
  `BudgetHolds`, `StallYields`. Scenes: two calls and an outside edit over two
  files, in every order of their hooks; two sessions with debt, room for one
  baseline, and time; two hooks with a plan of two steps, four stops and a budget
  of two; one hook with alternating evidence over two requests, where a stop may be
  past its stall row when the next request begins.
- `WorkerDispatch`: `BusyMeansTold`, `NoCollision`, `NotDoubleBooked`. Scenes: one
  dispatcher and one ticker with transient faults, expiry and a kill; two requests and
  two workers with a kill, once with expiring leases and once with old heartbeats; one
  request and two workers with both; two dispatchers; a gated request among three.
- `MemorySync`: `OneCycle`, `NeverHalfMerged`, `PushesValidAudit` with two
  processes, two cycles, one user commit, one foreign push and one kill.
- `RouteFloor`: `FloorPaid`, `FloorFollowsRule`. Scenes: eight outcomes of one
  recorder, which is up, down and up again; three outcomes of two recorders on two
  categories; the same on one, with a kill.
- `EpisodicIndex`: `NothingForgotten`, `CrashSafe`, `IndexLogarithmic` with a fanout
  of two. Scenes: eleven events (three tiers) and a kill; two calls, four events and
  a kill; a source that shrinks twice with a kill; two calls and a source that shrinks.
  The kill is that of a call, or of a hook inside its append (`SourceTorn`).

The constants of the code are scaled down with their order kept: `MaxStall` 1 (2 in
the code), `MaxContinuations` 2 (8), `BaselineCap` 1 (8), `ClaimLimit` 2 (5),
`UpLosses` 2, `DownWins` 3, `MinN` 3 and `Cooldown` 3 (2, 6, 6 and 6), the smoothed
share 80 % (85 %), the fanout 2 (10). With the constants of the code as with these,
`MIN_N` and the cooldown decide nothing: a streak of `DOWN_WINS` inside the window
implies both. Splitting a component's bounds into scenes keeps each hazard deep
enough where the product of all bounds would not finish.

Why the bounds are enough. Conflicts in the queues are about one job and two
callers; a second job shows the order of leases and that a sweep goes on (or does
not) behind another file; two attempts show both sides of the comparison with the
maximum; with one death every pair of file operations is cut apart, and recovery
from it runs to the end. The loop queue treats each request alone, apart from the
order of claims, so one request carries all the interplay of gates, leases and
requeues. Four events over files of three units give two rotations, with a long
line that must rotate and a short one that still fits; two deaths let a repair
die after the crash it repairs. Four rows over files of two give two trims, one
of which can drop a tombstone. Symmetry is used for processes in runs without
liveness only.

Where a property says "while nobody died" (`aborts = 0`), deaths do break it and
that is a behaviour of the code: between the write of a target and the unlink of
its source a job has two files, and it may be run again. `NeverLost`,
`BoundedAttempts`, `BoundedClaims` and the fencing properties hold with deaths.

`CHECK_DEADLOCK FALSE` is set for the decision log and for `MCRuntime`, where bounds
on rows, calls, cycles or outcomes end every behaviour and a real process would
simply have nothing to do.

What the properties leave out, and why:

- `AckedReadable` has two parts. An acknowledged event stays in the log as a whole line,
  but for one per torn append, which is glued to the tail. And the file it is in stays
  readable, but for the current file while its tail is torn inside a character: then the
  events of the current file are there, and no reader gets at them. The second part says
  how far that can go: never into a segment, and never with anything behind the tail.
- `StallYields` is about one hook at a time without the continuation, and does not count
  for a request the stop that was past its stall row when the request began
  (`refused[s].before`).
- `NotDoubleBooked` is about one dispatcher, at most one process that recovers and no
  transient fault (`release_for_request` may free a worker that was given the request
  again: this hazard no property covers). Processes may be killed and Enter may fail; a
  worker may then hold an `unbooked` lease besides the new one, and no other.
- `OneCycle` and `NeverHalfMerged` hold until a process is killed, or stands for two
  minutes between the creation of its lock file and the token in it (`agedEmpty`).
- `PushesValidAudit` is about cycles that did not overlap, `FloorFollowsRule` about calls
  that neither overlap nor die.
- `CrashSafe` is about a source that never shrank, calls that did not overlap, and calls
  that could load the events: one that cannot (`LoadRefused`) raises, whatever was killed
  before it.

Each condition is needed: the code does break the property without it, and section 5
says how. (The overlap after a kill needs three cycles, of which `runtime` has two; there
the condition is `agedEmpty` only, and the theorem covers the rest.) `BudgetHolds`,
`CleanMeansChecked`, `OldDebtNotBlamed`, `BusyMeansTold`, `NoCollision`, `FloorPaid`,
`NothingForgotten` and `IndexLogarithmic` hold without any condition.

### Fairness

`WorkQueue`: the worker loop polls `lease_next` for ever, and a process waiting
in `flock` gets the lock in the end although others take it in between, so
`LeaseCall`, the start of the sweep and `LeaseTake` are strongly fair; a call that
holds the lock goes on (weak fairness of `Step`); time passes (`SweepComesDue`,
`LeaseExpires`). Nobody has to answer: no fairness on `Complete`, `Fail`,
`Enqueue`, and none on `RecoverBegin` outside a poll. `LoopRequests`: a claim for
any request is tried again and again (strongly fair), calls that began go on,
leases expire. The kernel's `flock` queue and the polling loops justify this;
liveness properties of deaths are stated for behaviours in which nobody died, or
are the violated ones. The modules of `MCRuntime` state no fairness: their
properties are safety properties. Nothing in the code would justify more for the
guard and for sync, whose steps come from outside; that a stale worker becomes idle
again is a liveness property the code does not have.

## 4. Proofs

`WorkQueueProofs` proves, for any set of jobs, priorities, processes and any
bounds satisfying the named assumptions of `WorkQueue`:

- `TypeCorrect`: `Spec => []TypeOK`;
- `MutualExclusion`: a process is in a critical section exactly when it holds the lock;
- `FencedLeases`: `Spec => NoRevokedClose`, no close is accepted under a lease
  that a recovery took back;
- `NoJobLost`: `Spec => []NeverLost`, wherever processes die.

None of these is inductive alone. The invariant is
`IInv == TypeOK /\ LockInv /\ StageInv /\ LeaseInv`. `LockInv` ties stages to the
lock, so that only one call has local variables that matter. `StageInv` says what
the holder may rely on: before an unlink the target exists (hence `NeverLost`);
while a lease is being written its id is the newest and on no file; what a sweep
is removing has an expired lease. `LeaseInv` says pending files carry no lease,
a lease is on one processing file at most and on none once revoked: a revoked
lease can therefore never be matched by `HoldsLease`, which is `FencedLeases`.
There is one lemma per action, and under it one step per conjunct.

The module goes on from there with `KInv`, about what the files add up to, and proves:

- `AttemptsBounded` (`[]BoundedAttempts`): `RecordInv` counts. What is handed out next
  has at least as many attempts in its file as leases were told, and fewer than the
  maximum; a record being written never has fewer than the file it replaces.
- `OneFile` (`[]OneHome`): `HomeInv`, while nobody died two files of a job are the two
  ends of the move that the holder of the lock is in the middle of.
- `ClosedByOne` (`[]ClosedOnce`): `ClosedInv`, a closed job has no pending file, and a
  processing file only while the answer that closed it still has to unlink it.
- `FilesImplementJobQueue`: `Spec => ImplementsJobQueue`, the refinement. Each of the
  file operations maps to a step of `JobQueue` or to a stutter: the lease is the write
  of the record, not the rename; the finish is the write of the target, not the unlink.
  `OrderInv` carries the priority from the choice of the file to that write, and
  `CopyInv` what the holder has read and not written yet. Up to the first death, as the
  property says: a death in a move leaves two files, which `JobQueue` does not have.

`LoopRequestsProofs` proves the six safety properties of the run for any requests,
processes and bounds: `TypeCorrect`, `NoRequestLost`, `OneDirectory`, `ClaimsBounded`,
`DoneApproved`, `RevokedNeverWrites`. `FileInv` is the heart: a file in the inbox has
as many attempts behind it as leases were drawn and no lease; one in processing has
no lease or the newest one, and that was not revoked; one in done has passed its
gates. It is about every directory because a death may leave a request in two.
`SaidInv` (while nobody died, every file tells the last word of the reviewer and of
the commands) makes the gates of `DoneInv` those of the last word.

`CompletionGuardProofs`:

- `BudgetBounded` (`[]BudgetHolds`). The property counts refusals, the code a counter;
  `BudgetInv` says they are the same number, whichever of many hooks counted last.
- `CleanWasChecked` (`CleanMeansChecked`). `LedgerInv` relates a row of the ledger,
  which has sequence numbers only, to what the session was shown: a check that is not
  older in the row than the last edit was shown after that edit, with the same binding.
- `OldDebtForgiven` (`OldDebtNotBlamed`). `DebtInv`: a baseline that is stored, being
  stored or evicted is one of the tree at the start of its session's request.
- `StallBounded` (`[]StallYields`). `StallOk` compares the stall row, which the hook
  counts first, with the refusals, which it counts later under another lock: between
  the two the row is one ahead, and it is never behind unless the notice of the cap is
  out, after which nobody is refused. The attempt to prove it without `before` failed
  for a reason that TLC then showed: a stop past its stall row when the next request
  begins is counted for the new request and leaves it one refusal more.

`WorkerDispatchProofs`:

- `WorkersNeverCollide` (`[]NoCollision`) for any workers, requests, processes and
  kills. `CallInv` is what a caller carries from `Select` to `Inject`; `LeaseInv` is the
  argument: a lease is the number of a claim of its request, and one that somebody is
  about to type was typed by nobody and is about to be typed by nobody else. It
  survives an unlocked registry because the registry plays no part in it.
- `BusyWasTold` (`[]BusyMeansTold`). `ToldInv` says the same of the records that are
  folded and not yet appended, which may be appended in any order.
- `NobodyDoubleBooked` (`NotDoubleBooked`). `OrderInv`, under the condition of the
  property: between injection and its record a worker is shown idle and booked by the
  one dispatcher; what it holds besides is `unbooked`, because every way out of a call
  behind the typing (Enter fails, a kill before or after the fold) puts the lease there;
  a judge only writes idle over the busy record it has seen, of a worker that holds
  nothing else. It needs at most one process that recovers, and the property says so
  since this proof: of two, one may append an old verdict after the worker was freed by
  the other and given the next request.

`MemoryProofs` proves, of memory sync, `CyclesExclude` (`[]OneCycle`),
`NeverCommitsHalfMerged` (`[]NeverHalfMerged`) and `LineagesPushedValid`
(`[]PushesValidAudit`) for any number of processes, cycles, commits and kills. `LockInv`:
until somebody was killed or stood still over an empty lock file, the file belongs to the
one process that created it, be it without its token yet or in its cycle, and nobody is
about to steal it. `LineageInv`: behind its checks a cycle may rely on a valid lineage,
because nobody else is in a cycle and only a rebase changes it. `RebaseInv`: a stopped
rebase is that of the one cycle, on its way to the abort, so that none is there when a
cycle commits.

Of the episodic index it proves, for any fanout, number of tiers, growth and shrinking
of the source, calls and kills:

- `SealedIsCovered` (`[]NothingForgotten`) and `IndexStaysSmall` (`IndexLogarithmic`).
  Neither is inductive: what compaction may drop depends on the shape of the tiers.
  `IndexInv` says that there are numbers `lo[k]`, `hi[k]` such that the rows of a tier
  on disk are exactly the blocks from the one to the other (`Laid`), that a tier nests
  in the one above it (`Nested`: it begins no later than the children of the last
  parent and ends where the parents end, or further), and that the blocks are those of
  one source and cover what is sealed (`Sound`, `Genuine`, `Covered`). For the call
  that holds the lock, `Work` adds how far it came: which windows are `Missing`
  (`MissingIs`, `WindowPlace`: the next one appended is the first behind the rows, or
  one below them), which parents are complete (`CompleteIs`), and which rows compaction
  drops (`KeptIs`, `Drops`). The steps are `Quiet` or `Builds`, so that each action has
  one short lemma. One case took the proof to be seen: a call killed between
  compaction and the write of the metadata leaves the old watermark; the next call seals
  windows again that lie *below* the compacted rows, finds the tier out of order when
  it reads it, and rebuilds by force. The ELSE of `Reaches` is this case.
- `KilledCallsRecover` (`[]CrashSafe`). `SteadyInv`: while the source never shrank and
  no two calls overlapped, nothing was raised by a call that had loaded the events, at
  most one call runs, the events it loaded are a `Prefix` of the source, and rows (`Fits`) and metadata (`Marked`) agree
  with it, whatever was left half done; each of the comparisons at the start of `build`
  then succeeds, and a forced rebuild leaves an ordered index behind.

`RouteFloorProofs`:

- `FloorOnRecord` (`[]FloorPaid`). `PaidInv` says of every state there is, in either
  file or in the hands of a call, that its tiers **and** its running streaks are paid
  for by outcomes on record, the one a call is about to append included. A state that
  is overwritten, torn or old is therefore never worth more than the record.
- `FloorByRule` (`[]FloorFollowsRule`). `FollowsInv`: while calls do not overlap the
  state that goes through the temporary file `Agrees` with the outcomes since the last
  move, counter by counter (`streak` is the run of wins at their end, `lossStreak` the
  losses behind the last win). `DecidesByRule` is the lemma that the conditions of
  `route_decide` are then those of the rule; it uses `FloorKnobsAssumption`.

`DecisionLogProofs`, for any ids, processes, writes, deaths and merges, and whatever the
two sizes at which a file is trimmed; `Basic` is the types and the lock:

- `TypeCorrect` (`[]TypeOK`).
- `AckedStays` (`[]AckedSurvives`). `AckInv` is the property for the file and for what
  the holder of the lock carries from its read to its write: a forget holds what it
  does not drop, a trim remembers what it leaves out.
- `BodiesAreErased`, `ForgottenIsHidden` (`[]BodyErased`, `[]ForgottenStaysHidden`).
  `ForgetInv` says `Buried` of both copies: no row of a forgotten id but what a merge put
  back, no second row with the number of a tombstone (without which a trim could not
  tell that it drops one), and the tombstone itself unless a trim dropped it.
- `RetiredStays` (`[]RetiredStaysRetired`). `Followed`: behind a failure that was
  retired later comes a record of the same id. A merge above, a row appended, a damaged
  line leave it so; that a trim and a forget do is `StoriedPicked`, since what they write
  `Inherits` from the file: behind a row they keep they keep all that count. `AppendsInv`
  is about the unlocked look-up: two calls that append one id both supersede a failure.

`OnlyIs` is the lemma about the filter that the trim, the forget and the readers share:
the rows it returns, that their order is that of the file and that none is left out.

`AuditLogProofs`, for any sizes of lines, file limit, events, segments, deaths and
changes from outside; `Basic` holds the types and what a call is about in each stage:

- `TypeCorrect` (`[]TypeOK`): every hash in a file is one that was drawn, so that a
  fresh one is on no line.
- `RepairIsSound` (`[]RepairRelinks`). `RepairInv`: while a repair has met no error the
  files behind it are whole and it knows the link of the last of them. `RewrittenIs` is
  the lemma about `_rewrite_chain`: the new lines are chained and the first has its
  link, whatever was wrong with the old ones. It is also what makes a repair that died
  half way harmless, since nothing is assumed of the files a repair has yet to reach.
- `AckedStaysReadable` (`[]AckedReadable`). `AckInv` counts with the property what a call
  is about to return for, and a torn line as one event that can still be lost: a tear
  pays for it before the next append glues itself to it, or before the operator cuts it
  off. `TailInv`: a mangled line is the last one of the current file, it is torn, and
  while it is there no call has the lock. It rests on the
  decoding at the start of every append: without it (`Bug_AppendBegin`) a rotation seals
  the undecodable file.
- `DoctorIsSatisfied` (`[]WritersSatisfyDoctor`). `Sound` says in which sense a log is in
  order while a rotation has written the segment and not replaced the current file:
  two files then hold the same events, and the current one need not have its link.
- `IndexStaysTrue` (`[]IndexTrue`). `IndexInv`: before its row is written a call is behind
  by exactly that row, unless it rotated, and then it rebuilds. `IndexGrows` shows that
  an appended record is the last of a rebuild, by `NthIsPlace` (the places of records
  are numbered without gaps) and the order of files and lines.

Only model-checked: liveness under fairness, which is out of the provers' reach here,
and the runs that expect a violation. Every safety property of a passing run is a
theorem. What is filtered in `AuditLog`, `DecisionLog` and `EpisodicIndex` is a function
of positions there: the n-th row is the one with n places up to its own, so that nothing
recursive stands between the model and the provers; a line is `Stale` when it, or one above it in the same run of lines, is `Wrong`.

## 5. Where code and text disagree

1. `worker/scheduler.py:131`: a file torn by a death inside `write_job` makes every
   later sweep raise before it reaches the files behind it (`work_queue_poison`).
2. `loop_engineering.py:170`: a claim that dies between rename and write leaves a
   request that is never recovered (`loop_requests_stranded`).
3. `memory.py:1120`: the crash between segment and replacement is idempotent only
   if the next append rotates (`audit_log_sealed_twice`).
4. `audit_repair.py:241`: the loss of the newest segment leaves no gap and is
   repaired over (`audit_log_loss_relinked`).
5. `memory.py:540`: a superseded failure is written under a tombstoned id, and the
   caller is told ok (`decision_log_reborn`).
6. `episodic_runtime.py:469`: a call that loaded an older corpus takes a newer index
   for a loss of the source and records a history gap (`episodic_gap`).

Seen while modelling, without a run of their own:

- A loop request whose requeue or recovery dies after the inbox copy was written
  has two files with a pass verdict; a later fail verdict on one is lost when the
  other is claimed. This is why `DoneWasApproved` asks that nobody died.
- After the crash of item 3 a repair links the current file to its own sealed copy
  and reports ok, and the doctor then rejects the duplicate ids.
- `repair_audit_chain` skips a file without a marker but links the next one to the
  file before it.
- The trim treats a tombstone like any row; a clone that never saw it can then
  bring the forgotten row back. `agent_recommend` and `federated` look for
  tombstones in a tail of 200 rows only.
- The continuation and the guard write different fingerprints for the same plan into
  one stall row, so with both (or with two hooks) the stall bound of
  `completion_guard.py:32-40` is never reached and only the budget ends the refusals.
- The strength a check needs is that of the last edit, not of the strongest: code
  edited first and a document last need the check of a document.
- A torn append cut inside a multi-byte character makes every later `append_audit` raise,
  in every hook, the index rebuild skip the current file and the repair refuse it, until
  somebody cuts the tail off by hand; nothing in the repository does.
- `release_for_request` may free a worker that was just given the request again. With two
  dispatchers, after a kill between injection and `set_state`, or after an Enter that
  fails behind the typed text (which the code books as never delivered), an idle worker
  may hold a lease and get another request. `set_state` comes before the heartbeat: a
  tick in between marks the worker stale, and nothing makes it idle again.
- A lock file of memory sync without its token counts as ownerless, so it is taken over
  after two minutes although its creator lives, against `memory_sync.py:233-235` ("stolen
  only when its recorded process is no longer alive"). After a kill two processes may both
  judge the lock stale and run at once, against 310-311 ("cannot race").
- `git push` also pushes what was committed behind the check of the commits ahead, against
  `memory_sync.py:13-15` (code is never pushed). The rebase before that check rewrites the
  user's unpushed code commits, and holds only the push back.
- A cycle killed inside its rebase leaves a detached HEAD, on which the next one commits.
  Memory that hooks made dirty, or another tracked file, makes the rebase refuse, which is
  reported as a conflict.
- While hooks append, `load_audit_corpus` raises "audit source changed while reading", and
  `build_audit_index` hands that exception on.
- Two `mark_step` calls at once lose one step. Two `record_outcome` calls lose an
  outcome, and a torn `route-floors.json` sends all floors back to their base.
- A kill between the forced rebuild and the gap file loses the gap for ever. A source
  that shrank and grew past the watermark with other events raises `SourceTamperError`,
  which `build_audit_index` does not catch; nor the `IndexIntegrityError` of `assemble`,
  which reads the index without its lock.
- A row cut inside a multi-byte character makes `read_jsonl_all` return nothing at
  all until the line is trimmed away.

## 6. Plan

Done: the modules of section 2 and the proofs of section 4. Next, in this order:

1. Proofs: `MCRuntime` as a whole, each part's theorems carried over to its behaviours;
   that the steps of a scene stay within the bounds that the runs name.
2. `WorkerDispatch` over `LoopRequests` itself, in place of the queue's summary.
3. Memory sync over two clones, composed with `DecisionLog`: rows new to a clone,
   the rebase against a forget or a trim.
4. Unlocked readers of the audit log during rotations; several files with one
   segment number.
5. Reading the episodic index: the partition that `assemble` promises, tombstones.
6. Storage lifecycle and process janitor, as far as they hold state.

## 7. Not modelled

Search, embedding and ranking, redaction, policies, secret scanning, sandboxing,
rendering, the language server and tmux wrappers are computations on text or
wrappers around external programs; a model would restate them. Hooks, MCP and the
command line only call the components above; of the hook handler the order of the
two Stop directives is in `CompletionGuard`. These text processors are most of the
source by size, so the share of the lines that the modules cover is small, and would
stay so if every stateful component were modelled. The defences of `private_write.py`
against links, modes and foreign owners guard each single file operation and have
no state of their own. Autoresearch, evaluations, kits and scripts are batch
programs. `WorkerLock` has no caller in the repository besides the status and
clear commands.

## 8. Running

    tlc -config WorkQueueAborts.cfg MCWorkQueue.tla      # and likewise the others
    tlc -config Runtime.cfg MCRuntime.tla
    tlapm WorkQueueProofs.tla                            # and the other proof modules
