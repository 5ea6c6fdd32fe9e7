# A TLA+ verification of the MEZO AI Control Plane

MEZO accepts engineering tasks over HTTP or Telegram, stores them in PostgreSQL,
hands them to workers through Redis, runs each of them through a workflow of
planning, tool, test and review stages, and prepares a draft pull request. This
directory holds TLA+ models of the parts whose correctness depends on the order
in which things happen, the TLC configurations that check them on small
instances, and TLAPS proofs of every safety property the passing runs check,
for every value of the constants.

Paths below are relative to `src/src/mezo_control_plane/` unless they start with
`docs/` or `tests/`.

## Inventory

| Component | State | Operations | What is hard |
|---|---|---|---|
| Redis queue (`queue/`) | four ready lists; inflight, lease and expiry records; delayed retries with a due index; dead letters; tombstones; deduplication keys | enqueue, claim, renew, acknowledge, schedule a retry, promote, bury, approve, replay, cancel, recover | leases that expire while their owner works; recovery in four calls; read-modify-write of dead letters |
| Worker runtime (`worker/runtime.py`, `failure_delivery.py`) | one `_execute` call per claimed message, two events each, the `_active` table, local cancellation signals | claim, execute, renew, record, dispatch a failure, drain | a lease lost while the handler runs; an exception at every await; shutdown |
| Durable gateway (`worker/durable_execution.py`, `database/base.py`) | `tasks.state`, attempts, evidence rows unique by hash | record claim, success, failure, interruption; read the state for recovery | a repeated evidence row aborts its transaction |
| Task service (`application/tasks.py`, `database/repositories.py`) | none of its own | create (insert, enqueue, transition), cancel (read, commit, tombstone), retry | the worker runs between any two of these steps |
| Workflow engine (`orchestrator/engine.py`, `checkpoints.py`) | checkpoints per task; a `WorkflowRun` per engine with its rounds and fingerprints | resume, skip, run a stage, checkpoint, correct | crash after a checkpoint; two engines on one task; correction loops |
| Task record (`orchestrator/state_machine.py`, `workflow.py`) | state and audit trail in memory | guarded transition, plan, authorize paths | plan awaits a model between two transitions; repeated keys; not consulted by the task service |
| Model calls (`agents/runtime.py`, `model_router/router.py`, `providers/`) | agent call budget; semaphore and circuit breaker per provider | invoke, route, request, retry, fall back | both shared by concurrent calls; cancellation at every await; nested retries |
| Policies, approvals (`policies/`) | approval records, used marks | decide, add, consume | single use, expiry, binding to an action; two lists of risk flags |
| Telegram (`telegram/`) | seen updates, rate windows, used nonces | handle an update, verify a callback, restart | duplicated updates, eviction, expiry edges |
| GitHub branch (`github/client.py`) | none of its own; the branch at GitHub | create a branch, create a commit | check and update several requests apart; late and lost requests |
| GitHub App (`github/app_auth.py`, `webhooks.py`) | token cache, replay store | get, invalidate, verify | concurrent refresh, expiry, repeated deliveries |
| Tools, sandbox (`tools/`, `sandbox/`) | files, processes | apply a patch with rollback, run a command with a deadline | a step of several failing; threads and processes that outlive their await |
| Repository acquisition (`repository_intelligence/acquisition.py`) | a destination directory | init, fetch, checkout, validate | git processes that outlive a timeout |
| Skills, repository analysis, prompts, embeddings | none that outlives a call | data transformation | nothing a model checker reaches |
| HTTP API, observability (`api/`) | rate-limit windows | parse, authorise, limit, time out | cancels a call of the task service half-way |

How they interact: the task service writes PostgreSQL and then calls the
producer; a worker claims from Redis, and writes PostgreSQL before every change
of the message in Redis; lease recovery reads PostgreSQL through the gateway's
`state` and changes Redis; cancellation writes PostgreSQL, then a tombstone in
Redis, then sets the event of a local execution; the workflow engine runs inside
a worker's handler and shares only its checkpoint store with other engines. Model
calls, tools, the task record, approvals, policies and the checkout are used from
there and share no state with one another; the Telegram surface calls the task
service, GitHub is reached with a cached installation token.

What makes each part correct:

* queue: no message is lost by a script; its delivery records agree; a renewed
  lease is kept; a tombstone and an administrator's decision are final; a dead
  letter is replayed once; what has left the queue stays away;
* worker, gateway, task service: PostgreSQL first, Redis second; a message that
  has left Redis is accounted for in PostgreSQL; every message is settled;
* workflow: stages come in order, a stage is recorded once for an input, the
  correction budget binds, every run ends;
* model calls: permits come back, the breaker's fields agree, a fallback is earned
  and, from Gemini and Qwen, recorded, cancelled calls send nothing (Qwen: at most one request), calls
  end;
* tools and checkout: a patch is applied whole or not at all unless its rollback fails,
  every tool call ends unless its process ignores SIGTERM,
  a returned directory holds its commit and keeps it;
* record, approvals, policies: the audit trail is the path taken, plan returns only
  if the record passed there, a consumed approval is answered for by its record,
  the strongest effect wins, critical risk is never simply allowed;
* GitHub, Telegram: a commit call is a compare-and-set with truthful answers,
  refreshes collapse, replays are spaced, updates, rates and callbacks keep their
  bounds.

## Modules

| Module | Models | Uses |
|---|---|---|
| `RedisQueue` | `queue/`: all Lua scripts and the multi-call operations | instance of `DeliveryContract` |
| `DeliveryContract` | abstract: what producers and workers may rely on | |
| `RedisQueueProofs` | invariants of `RedisQueue` | `RedisQueue`, TLAPS |
| `RedisQueueStepProofs` | what no step of `RedisQueue` does; single replay; `RedisQueue` implements `DeliveryContract` | `RedisQueueProofs` |
| `ControlPlaneProofs` | the queue's promises and the contract for the composed system; PostgreSQL before Redis; nothing forgotten | `ControlPlane`, `RedisQueueStepProofs` |
| `ControlPlane` | `application/tasks.py`, `worker/`, the gateway, composed with the queue | extends `RedisQueue` |
| `WorkflowEngine` | `orchestrator/engine.py`, `checkpoints.py` | |
| `ModelRouting` | `agents/runtime.py`, `model_router/router.py`, `providers/gemini.py`, `qwen.py`, `resilience.py` | |
| `WorkspaceTools` | `tools/registry.py`, `builtins.py`, `filesystem.py`, the command runner of `sandbox/manager.py` | |
| `TaskLifecycle` | `orchestrator/state_machine.py`, `workflow.py` | |
| `ApprovalStore`, `PolicyDecisions` | `policies/` | |
| `RepositoryAcquisition` | `repository_intelligence/acquisition.py` | |
| `GitHubBranch` | `create_branch` and `create_commit` of `github/client.py` | instance of `BranchLog` |
| `BranchLog` | abstract: what a writer of an agent branch may rely on | |
| `TokenCache`, `WebhookReplay` | `github/app_auth.py`, `webhooks.py` | |
| `TelegramSurface` | `telegram/bot.py`, `security.py`, `transport.py` | |
| `WorkflowProofs` | the checkpoints, the correction budget, winding down | `WorkflowEngine`, TLAPS |
| `RoutingProofs` | fallback, cancellation, breakers, permits, progress of a call | `ModelRouting`, TLAPS |
| `ExecutionProofs` | task record, approvals, policies, checkout, patches | those modules, TLAPS |
| `BranchProofs` | `GitHubBranch` implements `BranchLog` | `GitHubBranch`, TLAPS |
| `AdapterProofs` | token cache, replay store, Telegram surface | those modules, TLAPS |
| `MCRedisQueue`, `MCControlPlane`, `MCWorkflowEngine` | symmetry sets and constants for TLC | |
| `MCExecution`, `MCAdapters` | the small components side by side for TLC | extend them all |

**RedisQueue.** Every hash, list, sorted set or set of Redis is a variable with
its name in the code. A Lua script is one action (`Enqueue`, `Claim` and
`ClaimNone`, `Acknowledge`, `RenewLease`, `ScheduleFailure`, `PromoteDue`,
`Finalize`, `Cancel`, `RecoverOne` and `RecoverRenewed`, `ReplayScript`). Lease
recovery, approval and replay make several calls, so each is one action per call,
and what was read is kept in `passes[r]` or `operators[o]`: other clients act in
between. `RecoveryAborts` and `OperatorGivesUp` end such a sequence half way. The
clients of this module are as general as its interface: a worker may acknowledge
or renew any delivery it ever got, and dispatch its failure once, whenever it
likes. Four things are abstract. The JSON envelope is a record with the fields
the scripts look at. A task's snapshot state is `live` or one of the terminal
ones. An owner token is the number of the delivery. And time: a deadline is
running until it has passed; a recovery pass reads the clock once, and a deadline
written later (by a claim or a renewal) is later than that reading, which
`PassesOutrun` expresses. That assumes a visibility timeout longer than clock
skew plus one call, as the defaults give. Metric counters and listings are left out.
The variables `deliveries`, `acked`, `dispatched` and `issued` are history or
what the workers remember.

**DeliveryContract.** The queue as its clients see it, without lists, hashes and
indexes: which messages were accepted and for what (`tickets`), which are still in the
queue's care (`held`), the deliveries in order (`handed`), which messages have an owner
(`owned`), what was acknowledged, handed back and cancelled. An owner is always the
newest delivery; a message leaves the queue's care only when its owner settles it, when
it is moot (its task was cancelled, or was over when it was accepted) or when a recovery
was told that it is finished (`closing`); what was let go is delivered again only if a
delivery hands it back. The mapping at the end of `RedisQueue` is `Tickets`, `Custody` (in a
ready list, in flight, delayed or buried), `Handed`, `Leased` and `Closing` (a recovery pass
about to run its script after it read a terminal state); the rest are the queue's own
variables.

**ControlPlane.** Each action is one transaction, one Redis call or the code
between two awaits. `exec[k]` is the `_execute` call of delivery `k`; its `pc`
names the await it is in, `lost` and `stop` are its two events, `renewing` its
renewal loop. `Proceed` is the straight path; `HandlerRaises`, `OwnershipNoticed`
and `ExecutionCallFails` lead into the `except` branches, where `Fails` chooses
the class of the failure as the code does (a lost lease wins). `calls[c]` is a
task service call. A transaction that would insert an evidence row with a known
hash fails (`Recorded`). Faults, bounded by `MaxFaults`: a call raises before
(`ExecutionCallFails`, `CallFails`, `RecoveryFails`, `RenewalLost`) or after
(`AckReplyLost`) its effect, a worker dies (`WorkerCrashes`) or is drained
(`Shutdown`, `DrainCancels`, `Restart`). `Tracked` is `_active` with its key, the
message id. `halted` are the maintenance loops that have ended: `_maintenance_loop`
catches `QueueInfrastructureError` only, and recovery reads the durable state outside
any `try`, so an error of that read (`RecoveryFails`) ends the loop with its promotions
until the process is started again (`LoopRestarts`). A claim in flight when draining
starts still returns (`draining` is then `claiming`). `MayRetry` and `MayBury` are the
retry policy: the dispatcher passes no first failure, so its elapsed budget is exceeded
only by the retry-after of a rate limit.

**WorkflowEngine.** A run alternates between its loop, the listing of the store,
the handler and the append; other engines and crashes come between any two. A
payload is a version number (equal versions have equal hashes); a handler may
change it, ask for a correction with or without a finding, stop, or be denied.

**ModelRouting.** `call[c]` is one `TypedAgent.invoke`; its `pc` names the await:
the semaphore (`waiting`), the HTTP request, the pause before a Gemini retry. The
head of the router's loops is `Conclude`, `SkipOverBudget` or `EnterProvider`;
`AnswerGemini` and `AnswerQwen` differ as the providers do (who retries, which
failures count against the breaker, who looks at the event again). `CallOther` and
`AnswerOther` are any other implementation of the `ModelProvider` protocol (as in
`tests/test_model_router.py`): it may raise `ProviderUnavailable`, which the router
leaves without evidence (`Unavailable`). `Abandon` cancels
the coroutine at an await. `late` counts requests sent after cancellation.

**WorkspaceTools.** One call of `ToolRegistry.execute`. A patch reads every file,
then writes one operation at a time, each in a thread; a failing operation, or a
cancellation, starts the rollback. `strays` are operations whose await was cancelled
while the thread goes on. An operation of the rollback may raise (`RestoreFails`, which
sets `broken`) or be cancelled (`RestoreInterrupted`, which sets `interrupted`). A command
is its process, a child it may leave with or without the output pipes, the cancellation
event and the timeout. A process exits by itself or not; SIGTERM, which `Terminate`
sends to a leader that still runs, ends it unless it ignores it (`stubborn`).

**TaskLifecycle.** The table `_ALLOWED` as a function; a key is the edge with its
evidence, or one a caller chose. `plan` is two steps with the model call in between.
Each step holds the whole of `transition`.

**ApprovalStore, PolicyDecisions.** `add` and `consume` run under a lock without an
await, so each is a step. `decide` is its loop, a step per rule: TLC starts it
with every request and rule list within the bounds, the proof with rule lists of any
length. The flags are the fields of `RiskInput`; a rule is its effect and the conditions of
`_matches` that the request fails.

**RepositoryAcquisition.** One destination, calls one after the other. `leftover`
are git processes whose call timed out; they finish at any time, with or without
effect.

**GitHubBranch, BranchLog.** A commit is its ancestors and the changes in its tree;
the branch is the list of the commits it pointed to. The PATCH that updates the
reference travels in `wire` and may be lost or carried out after its caller gave
up. `BranchLog` is a log with compare-and-set: a request is applied once or not at
all, "published" and "refused" are truthful, "unknown" promises nothing. The mapping
turns each commit of the branch into the set of changes it holds (`Snapshots`), each
call into its request (`Requests`) and the updates in `wire` whose caller has gone into
late requests (`LateRequests`).

**TokenCache, WebhookReplay, TelegramSurface.** The lock of the cache is its holder
(`Exchanging`) and its queue. Clocks count the moments the code tells apart. A
Telegram handler is split at the task service call and at the reply; a restart
forgets what the process remembers, as the code does. A rate bucket is a sequence;
`Outdated` is the prefix the `popleft` loop of `_allow` takes from it, up to the
first entry that is still in the window. `SurfaceAssumption` says that a callback
carries a nonce and that the chat's bucket is nobody's user bucket, which the code
ensures with the prefixes of its keys.

## Runs

| Run | Instance | What it shows |
|---|---|---|
| `leases` | 1 message, 3 deliveries, 2 attempts, 2 recovery passes, 1 administrator | delivery records agree, leases are backed by a delivery, recovery acts only on reads that still hold, renewals win, a running lease changes hands only after a reported failure, decisions survive a second burial, no script loses the message or brings it back |
| `dead_letters` | 3 messages, 2 priorities, live and failed snapshots, 1 administrator | tombstones are final, replays are single |
| `two_operators` | 2 administrators, violation | a stale approval erases the replay mark |
| `plane_faults` | 1 task, 2 deliveries, 2 attempts, recovery, 1 fault | PostgreSQL before Redis, nothing forgotten, every step allowed by the contract with producers and workers (a refinement) |
| `plane_cancellation` | 3 requests, 2 messages of 1 task, 2 deliveries | nothing forgotten when submissions, cancellations and retries race executions |
| `plane_progress` | 2 attempts, 3 deliveries, recovery, 1 fault | every message settles through retries, lost leases, crashes and errors, while a maintenance loop runs |
| `reexecution` | 1 fault, violation | a raising acknowledgement re-executes a completed task |
| `workflow` | 2 engines from the skills stage on, a corrective round, 1 restart, no handler for the security review | stages in order and not recorded twice, corrections budgeted, runs end |
| `corrections_untested` | 1 engine, 1 corrective round, violation | an unchanged payload is not tested again after a correction |
| `draft_blocked` | 1 restart, violation | a blocking verification is resumed past |
| `execution` | 2 model calls on a route that may be unavailable, a Gemini and a Qwen route, the last two with 1 permit each; a patch of up to 2 files on 2 paths, or a command; a record with 3 transitions; 1 approval used twice; 1 risk flag and 2 rules; 3 acquisitions of 2 commits | the properties of the six modules around the execution of a task |
| `adapters` | 2 writers with 2 calls each and an outside push; 3 token callers; 2 deliveries over 5 moments; 4 updates, one button pressed twice, 1 restart | the branch refinement, and the properties of the other adapters |

`execution` and `adapters` put components side by side that share no state. A
behaviour runs one of them, chosen at the start (`focus`), so the state space is the
sum and not the product of theirs.

Bounds. Every script touches one message, apart from the heads a claim drops, so
one message with several deliveries shows every interplay around a lease, and two
lists with three messages show the claim that drops some heads and takes
another. Three deliveries allow an original, a redelivery and a stale owner at
once; two recovery passes are needed for one to act on what the other changed;
two attempts give both a retry and an exhausted budget; three messages are needed
for one dead letter to be replayed twice. In the liveness runs `MaxClaims` is at
least the number of deliveries the attempt budget allows, so that the bound never
stops a delivery that is due (`Settles` would fail if it did). Two payload versions
tell an effective correction from an idle one. Two calls on one permit make one
wait; a breaker threshold of two with zero or one earlier failures reaches every
breaker state; a second route is needed for a fallback, a third for one that leaves no
evidence, and one tight route for a skip. `max_retries` of the router is 0, its default and the value every caller in the
repository uses; retries happen in the Gemini provider. Two files in a patch name one path twice or fail between two writes. Three
transitions are enough for plan's two and one of another caller between or around
them. A commit call needs a rival writer and an outside push to meet a moved head,
and a second call to meet its own late update. Three token callers make a holder,
a waiter and one cancelled in between. With four updates and a memory of two an
update can be evicted and come back. Symmetry is used only in runs without liveness
properties. Deadlock is not checked: a queue with every message settled, and a
task whose runs have all ended, may stop, and so may a component whose bounded
inputs are used up.

Fairness. `FairPlaneSpec` assumes that worker processes take their own steps
(their event loops run; a handler that hangs is cut off by its deadline), that
lease deadlines and due times pass, and that the maintenance loops which have not
halted come round. It does not assume that a halted loop is started again; `Settles`
therefore excepts the states in which none runs. It assumes nothing of callers, renewals, faults, or of
a handler succeeding. `FairSpec` of the engine assumes that a run that was
started takes its next step and that handlers return. `RoutingFairness` assumes that
requests are answered (every one has a timeout) and that ready calls are resumed.
`ToolsFairness` assumes that threads finish, that the timeout of `asyncio.wait` elapses
and that SIGTERM ends a process that does not ignore it. It does not assume that a process
exits by itself, nor that one which ignores the signal ever ends: the code waits for that
one without a timeout, and `ToolCallsEnd` excepts it.
`TokensFairness` assumes that an exchange returns or raises and that the lock wakes
its waiters in order, as `asyncio.Lock` does. Nothing is assumed of cancellations,
clocks or callers.

## Proofs

Each safety property is a theorem `Spec => []P` (or `Spec => P` for an action
property), proved from an inductive invariant with one lemma or one step per action.
An inductive invariant was checked with TLC on the instance of the component's run
before it was proved (`RateInv` for the instants up to a bound). The sizes of the instances disappear: sets of tasks, workers, callers
and engines are arbitrary (not even finite), budgets and bounds any numbers.

`RedisQueueProofs` and `RedisQueueStepProofs` prove, for any number of tasks,
messages, workers, recovery processes and administrators, any attempt budget and
any number of deliveries: `TypeOK`, `IndexesAgree`, `CopiesAgree`, `LeaseBacked`,
`RetryWellFormed` and `RecoveryReadsCurrent` as invariants, and `LiveLeaseKept`,
`DecisionKept`, `TombstoneFinal`, `NoMessageLost` and `GoneStaysGone` as action properties. The assumptions are `ConstantsAssumption` (sizes are numbers) and
`NilAssumption` (the missing entry is not an entry).

All rest on one inductive invariant, `IInv`. None of the listed invariants is
inductive alone. `RetryWellFormed` and `LeaseBacked` depend on what a recovery
pass read several calls ago. `PassesSound` carries that: a message a pass may
still take has not had its deadline rewritten since the clock reading, so if its
lease is still there, so is the envelope the pass read. That is the argument why
re-checking the score inside the script is enough, although everything else it
uses is stale. `DeliveredCopiesLive` says that whatever was delivered had a live
snapshot, so retries and dead letters stay deliverable. `OperatorsSound` says that
an administrator's stale copy differs from the record at most in its approval
and replay mark; eligibility therefore survives concurrent writers (`OriginsKept`)
although the replay mark does not (`two_operators`).
The proof has one lemma per action and combines them in `Inductive`. `NoMessageLost`
needs one more fact, `TaskIndexSound`: the message a cancellation drops the retry of
belongs to the cancelled task. `LiveLeaseKept` needs `SoleCopy`: until a delivery of it
reports a failure, a message is in one place of one list, or leased, or waiting for a
retry, so no claim finds a second copy to lease. After such a report it may, since
`schedule_failure` stores the retry while the lease still runs; that is the exception
the property makes. `SingleReplayAlways` has the hypothesis that there is
one administrator, without which `two_operators` refutes it; `ReplaysMarked` then says
that the administrator's copy is the record on file, and that the origin of every
replayed message is marked.

`QueueImplementsContract` shows that the scripts keep `DeliveryContract`. Each operation
maps to a step of the contract or to one its clients do not see (the lemmas that end in
`Maps`, combined in `StepMaps`). It takes one invariant more, `NewestOwns`: the lease of a
message is that of its newest delivery. That is why comparing the token in the
acknowledgement script is enough to keep a stale owner from settling what was handed to
another worker, and comparing the worker alone is not (the mutant of `Owns`). Recovery is the
delicate step: it may let a message go only if the message is moot or its own pass was told
that it is finished, although envelope, lease and durable state were read in earlier
calls; `PassesSound` again says why. `GoneStaysGoneAlways` follows from the contract: a
message that has left the queue comes back only by the first failure report of one of its
deliveries, never by a recovery pass, a promotion or a replay.

`ControlPlaneProofs` carries the queue's results over to the composed system. Every step
of the task service, a worker, a fault or a maintenance loop is a step the queue allows
or leaves it alone (the lemma `PlaneUsesQueue`), on the assumption that the queue's
environment may enqueue every snapshot state, since a resubmission enqueues the row's
present state. The
queue's guarantees, action properties included, follow for the composed system
(`PlaneKeepsQueuePromises`), and so does the contract (`PlaneImplementsContract`): the two
refinements compose.
`DurableFirstAlways` proves `DurableFirst`. Its inductive invariant `PlaneIInv` says
what each `_execute` call has committed at each of its awaits; the point is that an
execution which has dispatched can no longer change its failure, and that the
only acknowledgement whose reply can be lost comes after the result was recorded.
`NothingForgottenAlways` (same hypothesis) needs `AccountInv` on top of
it. A message may leave Redis by an acknowledgement, a claim that meets a terminal
snapshot, a recovery that read a terminal row, or a tombstone, and each has its part:
a tombstone follows a committed cancellation (`RevokedFirst`), a terminal row has its
evidence, also as a recovery pass read it some calls ago (`TerminalBacked`), and a failed
delivery is acknowledged only after its retry or dead letter was stored
(`SettlingHeld`). Evidence is never taken back (`RecordsGrow`).

`WorkflowProofs`: `PathBacked` and `RecordedOnce` need that every run stands at a stage
the stored checkpoints lead to (`OnPath` in `EngineInv`), which has to survive other
engines' appends and the skip of a stage that is already stored; a duplicate is
excluded because `append` looks at the store again, not because `List` did. For
`CorrectionsBudgeted`, `BudgetInv` adds the round that was counted and whose checkpoint
may still come. It has the hypothesis that no run is started in the corrective stage:
its checkpoint would be stored without having been counted. No caller in the repository
does that. `RunsWindDown` is the part of `RunsEnd` that needs no fairness: `Fuel` counts
three steps per stage that is left and eight stages per corrective round that is left, and
every step of a run, also one that skips what another engine stored, uses some of it up,
unless its process dies. The order of the stages enters through `StagesLeftNext`.

`RoutingProofs`: `CallsSound` says of one call, whatever the others do, that its
evidence is in chain order and not ahead of its route, that every earlier candidate was
over budget, has failed on the record, or is a provider of another class that called
itself unavailable (`Explained`), and how many requests it may still send once it is cancelled;
`FallbackEarned` and `CancellationHeeded` follow. `BreakerConsistent` is inductive with
the type of the breakers. `PermitsConserved` needs that a permit's holders are finite in
number, since any number of calls may exist, and is proved by counting along each
operation. `CallsAdvance` is the part of `CallsEnd` that needs no fairness: route, attempt,
try and await of a call grow in lexicographic order, each within its bound, so retries in
the router around retries in the provider never form a loop.

`BranchProofs` proves `BranchSpec => ImplementsBranchLog`. Heads descend from each other
(`HeadsDescend`), and a commit holds the changes of its ancestors, so GitHub's
fast-forward rule means that the head a caller compared with is still the current one
(`FastForwardIsBase`): that is why a check several requests before the update is
enough. `CallsBuilt` and `WireBuilt` say what each call and each travelling update was
built on, `AskedOnce` that a commit is asked for once, by the call that made it. Each request then maps to a
step of the log or to a stutter (the lemmas that end in `Maps`).

`ExecutionProofs` proves five components from their own assumptions. For
`CheckoutKept` the inductive invariant says that a call passes the emptiness check
only while every process left over is an `init`, which touches no commit, and that
a returned directory lets no call in again. For `GrantsAccountable` it adds that a
consumed one-time approval is in `_used`. For `AuditChained` and `PlanBacked` it
adds that a default key tells which edge was taken (`KeysTell`), so that a plan that
meets a repeated key may conclude that the record passed there, and uses of the table
only that `received` is never re-entered and precedes `context_ready`, which precedes
`planned`. For `AllOrNothing`, `PatchInv` follows the patch through its phases: while it
reads, what was read is on the disk; while it writes, a path holds what the last file
done so far makes of it, or its original (`WriteSound`; a patch may name a path twice, and
the rollback must not take the first write for the original); while it restores, what
was restored stays so, also when the operation after it raises (`BrokenStep`: a rollback
restores a path once, so a failing operation spoils none restored before). Strays exist
only in cancelled calls, about which it says nothing. For `StrongestWins`, `PolicyInv` is the invariant of the loop in `decide`: the effect is
the strongest of the mandatory one and those of the rules examined, and rules are left
unexamined only after a deny, which nothing outranks. That critical risk is never simply
allowed compares the two lists of flags.

`AdapterProofs` proves `RefreshesCollapse` for any number of callers, and
`ReplaysSpaced` for any ttl; the latter needs that the claim behind an event is held
for the full ttl or the ttl has passed (`ClaimHeld`). For the Telegram surface,
`UpdatesInv` says that the bounded queue is the newest stretch of the updates handled and
that the set which is asked holds just that; evicting is sound because no update is twice
in the queue. `CallbackInv` says that a callback being decided, or decided in this life,
stays used for as long as it can be verified; the purge in `verify` and the expiry check
compare with the same bound, and at the moment of expiry both still count. `RateInv` says
that at every instant from now on a bucket holds a live charge for each allowed update
that is still in the window. It has to speak of future instants, or it would not survive
the clock; that the purge takes nothing which counts now or later is `PurgeKeeps`.

Only model-checked: liveness under fairness (`Settles`, `RunsEnd`, `CallsEnd`,
`ToolCallsEnd`, `GetsEnd`), which is out of the proof system's reach; of `RunsEnd` and `CallsEnd`
the safety half is proved. The type invariants say what the variables hold; those of the queue, the
workflow engine, the task record and the checkout are proved with the rest, `CopiesAgree`
is proved and has no run of its own. A bound that TLC needs (`MaxTime`, `MaxHandled`, `MaxClaims`, `MaxFaults` and
the like) is any number in the proofs.

## Disagreements with the documents and tests

1. `two_operators`: `approve_replay` writes back a record it read earlier and can
   erase `replayed_message_id`; a dead letter is then replayed twice.
2. `reexecution`: `docs/architecture/queue-consistency.md` promises that a failed
   acknowledgement does not lead to another execution; an acknowledgement that
   raises does, since the general exception handler records a failure and
   reschedules.
3. `corrections_untested`: `docs/workflow.md:9` says that corrective rounds return
   through tests and skills before review; when a round leaves the payload unchanged,
   `List` skips all three as duplicates and the run goes on to the security review.
4. `draft_blocked`: `docs/workflow.md` says that draft preparation is unreachable
   after a blocking verification; a run restarted after its checkpoint resumes there.

The models also reach these states, for which no run is kept:

* `create_task`'s last transition writes `queued` over what a fast worker or a
  cancellation wrote (`MarkQueued`); `record_failure` writes `queued` over
  `cancelled`;
* a failed claim transaction schedules a retry and acknowledges the delivery,
  although `docs/architecture/queue-consistency.md` leaves it unacknowledged;
* a worker that claims a message it is still finishing drops the older call from
  `_active` (`Tracked`);
* an attempt whose provider is unavailable is not in the evidence (`Unavailable`),
  although `docs/architecture/phases-03-06.md:50` says that routing records each attempt;
* a rollback whose own operation raises leaves the later files as the patch made them and
  one file perhaps truncated (`RestoreFails`), and a cancelled patch whose thread finishes
  after the rollback leaves the file changed (`StrayRuns`), although `docs/tools.md:10`
  says that failures restore original content;
* a command whose leader ignores SIGTERM never returns from its timeout (`HeldByLeader`);
* a PostgreSQL error during lease recovery ends the maintenance loop of the process
  (`RecoveryFails`);
* a command whose leader has exited while a child holds the pipes is not signalled
  on timeout (`Terminate`), although `docs/tools.md` says that the group is;
* a callback pressed by a role that may not decide is used up (`Handle`).

## Not modelled

Metrics, heartbeats, worker registration and process wiring hold no state that a
decision depends on. `record_recovery` has no caller, attempt rows are never read,
and `TaskService.decide` needs approval states that no modelled part sets. The tables
of `database/control_records.py` have no reader or writer. Skills, repository
analysis, prompts and embeddings transform data; the skill cache has no caller.
Path and network policies are inputs of `WorkspaceTools`; draft pull requests and
comments are single requests. The replay store of webhooks is one instance: a restart
forgets its claims, and `ReplaysSpaced` does not speak of that. `PROJECT.json` gives the status of each part, and its
hazards without a property say why there is none.

## Plan

Done: the queue, the delivery path, the workflow engine, the components around the
execution of a task, the adapters; every invariant and action property of the passing runs
and the two refinements (branch log, delivery contract) proved. What is left:

1. The safety halves of the other liveness properties: no waiter of the token lock is
   lost (its queue is filtered with `SelectSeq`, a recursive definition), and a bound on the
   deliveries of a message, which stale failure reports may make larger than the attempt
   budget.
2. The approval stage of the workflow composed with `ApprovalStore` and
   `TaskService.decide`, once a part of the repository sets the approval states.
