---------------------------- MODULE ControlPlane ----------------------------
(***************************************************************************)
(* The whole delivery path of one task: TaskService (application/tasks.py) *)
(* writes PostgreSQL and enqueues, WorkerRuntime._execute runs a claimed   *)
(* delivery, SqlAlchemyExecutionGateway commits what happened, and         *)
(* QueueFailureDispatcher reschedules or dead-letters a failure.           *)
(*                                                                         *)
(* RedisQueue supplies the Redis side: every step here is one PostgreSQL   *)
(* transaction, or one Redis call, or the code between two awaits.  The    *)
(* owner token of a delivery also names the _execute call that handles it. *)
(*                                                                         *)
(* Faults (bounded by MaxFaults): a call raises, with or without having    *)
(* taken effect; a worker process dies or is shut down; a recovery pass    *)
(* stops half way, and with it its maintenance loop when PostgreSQL failed *)
(* it: _maintenance_loop survives a QueueInfrastructureError and nothing   *)
(* else.  A recoverer is the maintenance loop of some worker process.      *)
(***************************************************************************)
EXTENDS RedisQueue, FiniteSets

CONSTANTS
  Clients,          \* callers of TaskService; bound: one call each
  Inputs,           \* bound: calls and expiries that occur in a behaviour
  Capacity,         \* WorkerRuntime concurrency
  HandlerFailures,  \* failures the execution handler may raise
  Outputs,          \* outputs the execution handler may return
  MaxFaults         \* bound: faults in a behaviour

\* Summaries of an ExecutionFailure.  An exception classify_failure does not
\* know is summarised by its type, so each kind is a summary of its own.
Failures == {"infrastructure", "permanent", "rate limited", "timeout", "ownership", "terminal",
             "integrity"}

Retryable(f) == f # "permanent"

ASSUME PlaneAssumption ==
  /\ Capacity \in Nat \ {0}
  /\ MaxFaults \in Nat
  /\ Inputs \subseteq {"create", "cancel", "retry", "dedupe expiry"}
  /\ HandlerFailures \subseteq {"infrastructure", "permanent", "rate limited"}
  /\ Nil \notin Workers

Terminal == {"completed", "failed", "cancelled"}
DurableStates == {"absent", "received", "queued", "executing"} \cup Terminal

\* One _execute call.  "lost" and "stop" are its two events, "renewing" tells
\* whether its renewal loop is still running.
Stages == {"none", "claimed", "running", "succeeding", "acking", "refused", "interrupting",
           "failing", "scheduling", "burying", "settling", "done"}

Execution == [pc: Stages, failure: Failures \cup {Nil}, lost: BOOLEAN, stop: BOOLEAN,
              renewing: BOOLEAN]

NoExecution == [pc |-> "none", failure |-> Nil, lost |-> FALSE, stop |-> FALSE,
                renewing |-> FALSE]

\* One TaskService call, with the snapshot create_task hands to the producer.
Call == [pc: {"idle", "returned", "stored", "accepted", "cancelling", "tombstoning", "retrying"},
         task: Tasks \cup {Nil}, snap: SnapshotStates]

NoCall == [pc |-> "idle", task |-> Nil, snap |-> "live"]

VARIABLES
  taskState,  \* tasks.state
  evidence,   \* evidence rows: <<task, kind, summary>>, unique by hash
  exec,       \* _execute calls, by owner token
  signals,    \* CancellationService._local_signals of each worker process
  draining,   \* shutdown of each worker: "no", "claiming" (a claim may be in flight) or "yes"
  halted,     \* maintenance loops an exception has ended
  calls,      \* TaskService calls in progress
  revoked,    \* tasks whose cancellation was ever committed (history)
  faults      \* faults so far

durableVars == <<taskState, evidence>>
runtimeVars == <<draining, halted>>
processVars == <<exec, signals, runtimeVars>>
planeVars == <<taskState, evidence, exec, signals, draining, halted, calls, revoked, faults>>
allVars == <<vars, planeVars>>

PlaneInit ==
  /\ Init
  /\ taskState = [t \in Tasks |-> "absent"]
  /\ evidence = {}
  /\ exec = [k \in 1 .. MaxClaims |-> NoExecution]
  /\ signals = [w \in Workers |-> [t \in Tasks |-> 0]]
  /\ draining = [w \in Workers |-> "no"]
  /\ halted = {}
  /\ calls = [c \in Clients |-> NoCall]
  /\ revoked = {}
  /\ faults = 0

Fault == faults < MaxFaults /\ faults' = faults + 1

-----------------------------------------------------------------------------
(* TaskService                                                             *)

Returned(c) == calls' = [calls EXCEPT ![c] = [NoCall EXCEPT !.pc = "returned"]]

Snapshot(state) == IF state \in Terminal THEN state ELSE "live"

\* TaskRepository.transition writes whatever state it is given.
Transition(t, state) == taskState' = [taskState EXCEPT ![t] = state]

\* create_task, the insert: a known idempotency key returns the row there is.
CreateTask(c, t) ==
  /\ "create" \in Inputs
  /\ calls[c].pc = "idle"
  /\ taskState' = [taskState EXCEPT ![t] = IF @ = "absent" THEN "received" ELSE @]
  /\ calls' = [calls EXCEPT ![c] = [pc |-> "stored", task |-> t,
                                    snap |-> Snapshot(taskState'[t])]]
  /\ UNCHANGED <<vars, evidence, processVars, revoked, faults>>

\* create_task, the enqueue: accepted, or a duplicate, or an error.
EnqueueTask(c, m, p) ==
  /\ calls[c].pc = "stored"
  /\ Enqueue(calls[c].task, m, p, calls[c].snap)
  /\ calls' = [calls EXCEPT ![c].pc = "accepted"]
  /\ UNCHANGED <<durableVars, processVars, revoked, faults>>

EnqueueDuplicate(c) ==
  /\ calls[c].pc = "stored"
  /\ dedupe[calls[c].task] # Nil
  /\ Returned(c)
  /\ UNCHANGED <<vars, durableVars, processVars, revoked, faults>>

\* create_task, the transition of an accepted task.
MarkQueued(c) ==
  /\ calls[c].pc = "accepted"
  /\ Transition(calls[c].task, "queued")
  /\ Returned(c)
  /\ UNCHANGED <<vars, evidence, processVars, revoked, faults>>

\* cancel_task and retry_task read the row first.
ReadTask(c, t, pc, allowed) ==
  /\ calls[c].pc = "idle"
  /\ taskState[t] \in allowed
  /\ calls' = [calls EXCEPT ![c] = [NoCall EXCEPT !.pc = pc, !.task = t]]
  /\ UNCHANGED <<vars, durableVars, processVars, revoked, faults>>

CancelRead(c, t) ==
  /\ "cancel" \in Inputs
  /\ ReadTask(c, t, "cancelling", DurableStates \ {"absent", "completed", "failed"})

RetryRead(c, t) ==
  /\ "retry" \in Inputs
  /\ ReadTask(c, t, "retrying", {"failed", "cancelled"})

CancelDurable(c) ==
  /\ calls[c].pc = "cancelling"
  /\ Transition(calls[c].task, "cancelled")
  /\ revoked' = revoked \cup {calls[c].task}
  /\ calls' = [calls EXCEPT ![c].pc = "tombstoning"]
  /\ UNCHANGED <<vars, evidence, processVars, faults>>

\* CancellationService.cancel: the tombstone, then the event of the execution
\* registered in the process that serves the call (host), if it serves one.
CancelDelivery(c, host) ==
  LET t == calls[c].task
      known == t \in cancelled \/ taskIndex[t] # Nil \/ dlqTaskIndex[t] # Nil
      signalled == IF host # Nil /\ known THEN signals[host][t] ELSE 0
  IN /\ calls[c].pc = "tombstoning"
     /\ Cancel(t) \/ ((t \in cancelled \/ ~ known) /\ UNCHANGED vars)
     /\ exec' = [k \in DOMAIN exec |-> IF k = signalled THEN [exec[k] EXCEPT !.stop = TRUE]
                                                       ELSE exec[k]]
     /\ Returned(c)
     /\ UNCHANGED <<durableVars, signals, runtimeVars, revoked, faults>>

\* retry_task puts the row back to queued; it enqueues nothing.
RetryWrite(c) ==
  /\ calls[c].pc = "retrying"
  /\ Transition(calls[c].task, "queued")
  /\ Returned(c)
  /\ UNCHANGED <<vars, evidence, processVars, revoked, faults>>

\* A call to PostgreSQL or Redis raises, or the API process ends.
CallFails(c) ==
  /\ calls[c].pc \notin {"idle", "returned"}
  /\ Fault
  /\ Returned(c)
  /\ UNCHANGED <<vars, durableVars, processVars, revoked>>

-----------------------------------------------------------------------------
(* WorkerRuntime                                                           *)

Live(k) == exec[k].pc \notin {"none", "done"}

\* _active maps a message to the last _execute call started for it; finished
\* calls are pruned.
Tracked(w) ==
  {k \in Tokens : /\ Live(k)
                  /\ deliveries[k].worker = w
                  /\ \A j \in Tokens : j > k /\ deliveries[j].worker = w =>
                       deliveries[j].env.mid # deliveries[k].env.mid}

At(k, pc) == exec[k].pc = pc

\* Mutant of Ended: the renewal loop is not cancelled.
EndedRenewing(k) ==
  /\ exec' = [exec EXCEPT ![k].pc = "done"]
  /\ signals' = [signals EXCEPT ![deliveries[k].worker][deliveries[k].env.task] = 0]

\* finally: the local signal of the task goes, whichever call registered it.
Ended(k) ==
  /\ exec' = [exec EXCEPT ![k].pc = "done", ![k].renewing = FALSE]
  /\ signals' = [signals EXCEPT ![deliveries[k].worker][deliveries[k].env.task] = 0]

GoTo(k, pc) == exec' = [exec EXCEPT ![k].pc = pc] /\ UNCHANGED signals

\* except BaseException: a lost lease overrides the failure's own class.
Fails(k, f) ==
  /\ exec' = [exec EXCEPT ![k].pc = "failing",
                          ![k].failure = IF exec[k].lost THEN "ownership" ELSE f]
  /\ UNCHANGED signals

\* run: claim while fewer than Capacity tracked calls, and start _execute.  A
\* claim in flight when the shutdown begins still starts its execution.
ClaimDelivery(w, p) ==
  /\ draining[w] # "yes"
  /\ Cardinality(Tracked(w)) < Capacity
  /\ Claim(w, p)
  /\ exec' = [exec EXCEPT ![Len(deliveries')] = [@ EXCEPT !.pc = "claimed", !.renewing = TRUE]]
  /\ signals' = [signals EXCEPT ![w][Head(ready[p]).task] = Len(deliveries')]
  /\ draining' = [draining EXCEPT ![w] = IF @ = "no" THEN "no" ELSE "yes"]
  /\ UNCHANGED <<durableVars, halted, calls, revoked, faults>>

DropWithdrawn == ClaimNone /\ (\E w \in Workers : draining[w] # "yes") /\ UNCHANGED planeVars

\* A transaction that adds an evidence row; an identical row is an
\* IntegrityError, and the transaction is rolled back.
Recorded(item) == item \notin evidence /\ evidence' = evidence \cup {item}

ClaimEvidence(k) ==
  <<deliveries[k].env.task, "queue-claim",
    <<deliveries[k].env.mid, deliveries[k].worker, deliveries[k].env.attempt>>>>
Evidence(k, kind, summary) == <<deliveries[k].env.task, kind, summary>>

\* record_claim, and the exceptions it raises.
RecordClaim(k) ==
  LET t == deliveries[k].env.task
  IN /\ At(k, "claimed")
     /\ \/ /\ taskState[t] \notin Terminal
           /\ Recorded(ClaimEvidence(k))
           /\ Transition(t, "executing")
           /\ GoTo(k, "running")
        \/ /\ taskState[t] \in Terminal
           /\ Fails(k, "terminal")
           /\ UNCHANGED durableVars
        \/ /\ taskState[t] \notin Terminal
           /\ ClaimEvidence(k) \in evidence
           /\ Fails(k, "integrity")
           /\ UNCHANGED durableVars
     /\ UNCHANGED <<vars, runtimeVars, calls, revoked, faults>>

\* The handler raises, or the execution deadline passes.
HandlerRaises(k, f) ==
  /\ At(k, "running")
  /\ Fails(k, f)
  /\ UNCHANGED <<vars, durableVars, runtimeVars, calls, revoked, faults>>

\* The lost lease wakes _execute, which cancels the handler.
OwnershipNoticed(k) ==
  /\ exec[k].lost
  /\ HandlerRaises(k, "ownership")

\* Mutant of HandlerReturns: acknowledge first, record afterwards.
HandlerReturnsAcking(k) ==
  /\ At(k, "running")
  /\ GoTo(k, IF exec[k].lost \/ exec[k].stop THEN "interrupting" ELSE "acking")
  /\ UNCHANGED <<vars, durableVars, runtimeVars, calls, revoked, faults>>

\* The handler returns; set events turn the result into a CancelledError.
HandlerReturns(k) ==
  /\ At(k, "running")
  /\ GoTo(k, IF exec[k].lost \/ exec[k].stop THEN "interrupting" ELSE "succeeding")
  /\ UNCHANGED <<vars, durableVars, runtimeVars, calls, revoked, faults>>

\* record_success, and the exceptions it raises.
RecordSuccess(k, output) ==
  LET t == deliveries[k].env.task
      result == Evidence(k, "execution-result", output)
  IN /\ At(k, "succeeding")
     /\ \/ /\ taskState[t] # "cancelled"
           /\ Recorded(result)
           /\ Transition(t, "completed")
           /\ GoTo(k, "acking")
        \/ /\ taskState[t] = "cancelled"
           /\ Fails(k, "terminal")
           /\ UNCHANGED durableVars
        \/ /\ taskState[t] # "cancelled"
           /\ result \in evidence
           /\ Fails(k, "integrity")
           /\ UNCHANGED durableVars
     /\ UNCHANGED <<vars, runtimeVars, calls, revoked, faults>>

\* acknowledge returns False, and changes nothing.
AckRefused(k) == (~ Owns(k) \/ deliveries[k].env.task \in cancelled) /\ UNCHANGED vars

\* acknowledge after the success was recorded.
AcknowledgeSuccess(k) ==
  /\ At(k, "acking")
  /\ \/ Acknowledge(k) /\ Ended(k)
     \/ AckRefused(k) /\ GoTo(k, "refused")
  /\ UNCHANGED <<durableVars, runtimeVars, calls, revoked, faults>>

\* acknowledge takes effect, but its reply is lost.
AckReplyLost(k) ==
  /\ At(k, "acking")
  /\ Fault
  /\ Acknowledge(k)
  /\ Fails(k, "infrastructure")
  /\ UNCHANGED <<durableVars, runtimeVars, calls, revoked>>

\* record_interrupted.
Requeued(t) ==
  taskState' = [taskState EXCEPT ![t] = IF @ \in Terminal THEN @ ELSE "queued"]

Interrupted(k, reason) ==
  /\ Recorded(Evidence(k, "execution-interrupted", reason))
  /\ Requeued(deliveries[k].env.task)
  /\ Ended(k)

RecordRefused(k) ==
  /\ At(k, "refused")
  /\ \/ Interrupted(k, "redis-acknowledgement-failed")
     \/ /\ Evidence(k, "execution-interrupted", "redis-acknowledgement-failed") \in evidence
        /\ Fails(k, "integrity")
        /\ UNCHANGED durableVars
  /\ UNCHANGED <<vars, runtimeVars, calls, revoked, faults>>

RecordInterrupted(k) ==
  /\ At(k, "interrupting")
  /\ \/ Interrupted(k, "cancelled-or-ownership-lost")
     \/ /\ Evidence(k, "execution-interrupted", "cancelled-or-ownership-lost") \in evidence
        /\ Ended(k)
        /\ UNCHANGED durableVars
  /\ UNCHANGED <<vars, runtimeVars, calls, revoked, faults>>

\* record_failure; a repeated failure cannot be recorded and ends the call.
RecordFailure(k) ==
  LET failure == Evidence(k, "execution-failure", exec[k].failure)
  IN /\ At(k, "failing")
     /\ \/ /\ Recorded(failure)
           /\ Transition(deliveries[k].env.task,
                         IF Retryable(exec[k].failure) THEN "queued" ELSE "failed")
           /\ GoTo(k, "scheduling")
        \/ failure \in evidence /\ Ended(k) /\ UNCHANGED durableVars
     /\ UNCHANGED <<vars, runtimeVars, calls, revoked, faults>>

\* QueueFailureDispatcher: schedule_failure ...  The dispatcher passes no
\* first failure, so the elapsed budget is exceeded only by the retry-after
\* of a rate limit.
MayBury(k) == ~ Retryable(exec[k].failure) \/ ~ WithinBudget(deliveries[k].env.attempt + 1)
              \/ exec[k].failure = "rate limited"
MayRetry(k) == Retryable(exec[k].failure) /\ WithinBudget(deliveries[k].env.attempt + 1)

\* Mutant of DispatchRetry: a retry is decided but not stored.
DispatchRetryUnstored(k) ==
  /\ At(k, "scheduling")
  /\ GoTo(k, IF MayRetry(k) THEN "settling" ELSE "burying")
  /\ UNCHANGED <<vars, durableVars, runtimeVars, calls, revoked, faults>>

DispatchRetry(k) ==
  LET env == deliveries[k].env
  IN /\ At(k, "scheduling")
     /\ \/ MayRetry(k) /\ ScheduleFailure(k) /\ GoTo(k, "settling")
        \/ /\ MayRetry(k)
           /\ env.task \in cancelled \/ delayed[env.mid] # Nil
           /\ GoTo(k, "settling")
           /\ UNCHANGED vars
        \/ MayBury(k) /\ GoTo(k, "burying") /\ UNCHANGED vars
     /\ UNCHANGED <<durableVars, runtimeVars, calls, revoked, faults>>

\* ... or the dead letter ...
DispatchDeadLetter(k) ==
  /\ At(k, "burying")
  /\ \/ Finalize(k, Retryable(exec[k].failure))
     \/ dlq[deliveries[k].env.mid] # Nil /\ UNCHANGED vars
  /\ GoTo(k, "settling")
  /\ UNCHANGED <<durableVars, runtimeVars, calls, revoked, faults>>

\* ... and the acknowledgement, whatever it returns.
DispatchAck(k) ==
  /\ At(k, "settling")
  /\ Acknowledge(k) \/ AckRefused(k)
  /\ Ended(k)
  /\ UNCHANGED <<durableVars, runtimeVars, calls, revoked, faults>>

\* The PostgreSQL or Redis call a live execution waits for raises.  A call
\* that took effect before raising is that call followed by this one.
ExecutionCallFails(k) ==
  /\ Live(k) /\ ~ At(k, "running")
  /\ Fault
  /\ IF exec[k].pc \in {"claimed", "succeeding", "acking", "refused"}
       THEN Fails(k, "infrastructure")
       ELSE Ended(k)
  /\ UNCHANGED <<vars, durableVars, runtimeVars, calls, revoked>>

\* _renewal_loop: the renewal succeeds; a set event ends the loop.
Renew(k) ==
  /\ exec[k].renewing
  /\ RenewLease(k)
  /\ exec' = [exec EXCEPT ![k].renewing = ~ exec[k].stop]
  /\ UNCHANGED <<durableVars, signals, runtimeVars, calls, revoked, faults>>

\* _renewal_loop: the renewal is refused, or Redis cannot be reached.
RenewalLost(k) ==
  /\ exec[k].renewing
  /\ \/ AckRefused(k) /\ UNCHANGED faults
     \/ Fault /\ UNCHANGED vars
  /\ exec' = [exec EXCEPT ![k].lost = TRUE, ![k].stop = TRUE, ![k].renewing = FALSE]
  /\ UNCHANGED <<durableVars, signals, runtimeVars, calls, revoked>>

\* A worker process dies and is started again.
WorkerCrashes(w) ==
  /\ \E k \in Tokens : Live(k) /\ deliveries[k].worker = w
  /\ Fault
  /\ exec' = [k \in DOMAIN exec |->
                IF k \in Tokens /\ deliveries[k].worker = w
                  THEN [exec[k] EXCEPT !.pc = "done", !.renewing = FALSE] ELSE exec[k]]
  /\ signals' = [signals EXCEPT ![w] = [t \in Tasks |-> 0]]
  /\ draining' = [draining EXCEPT ![w] = "no"]
  /\ UNCHANGED <<vars, durableVars, halted, calls, revoked>>

\* shutdown begins: no claim but one already in flight.
Shutdown(w) ==
  /\ draining[w] = "no"
  /\ Fault
  /\ draining' = [draining EXCEPT ![w] = "claiming"]
  /\ UNCHANGED <<vars, durableVars, exec, signals, halted, calls, revoked>>

\* The drain timeout cancels a tracked call: a CancelledError is recorded as
\* an interruption unless it arrives in an exception handler.
DrainCancels(w, k) ==
  /\ draining[w] # "no"
  /\ k \in Tracked(w)
  /\ IF exec[k].pc \in {"claimed", "running", "succeeding", "acking", "refused"}
       THEN GoTo(k, "interrupting")
       ELSE Ended(k)
  /\ UNCHANGED <<vars, durableVars, runtimeVars, calls, revoked, faults>>

\* Nothing tracked is left: the process ends with every other call it still
\* runs, and is started again.
Restart(w) ==
  /\ draining[w] # "no"
  /\ Tracked(w) = {}
  /\ exec' = [k \in DOMAIN exec |->
                IF k \in Tokens /\ deliveries[k].worker = w
                  THEN [exec[k] EXCEPT !.pc = "done", !.renewing = FALSE] ELSE exec[k]]
  /\ signals' = [signals EXCEPT ![w] = [t \in Tasks |-> 0]]
  /\ draining' = [draining EXCEPT ![w] = "no"]
  /\ UNCHANGED <<vars, durableVars, halted, calls, revoked, faults>>

\* The process of a halted maintenance loop is restarted, and the loop with it.
LoopRestarts(r) ==
  /\ r \in halted
  /\ halted' = halted \ {r}
  /\ UNCHANGED <<vars, durableVars, exec, signals, draining, calls, revoked, faults>>

-----------------------------------------------------------------------------
Serve ==
  \/ \E c \in Clients, t \in Tasks : CreateTask(c, t)
  \/ \E c \in Clients, m \in Messages, p \in Priorities : EnqueueTask(c, m, p)
  \/ \E c \in Clients : EnqueueDuplicate(c)
  \/ \E c \in Clients : MarkQueued(c)
  \/ \E c \in Clients, t \in Tasks : CancelRead(c, t)
  \/ \E c \in Clients : CancelDurable(c)
  \/ \E c \in Clients, host \in Workers \cup {Nil} : CancelDelivery(c, host)
  \/ \E c \in Clients, t \in Tasks : RetryRead(c, t)
  \/ \E c \in Clients : RetryWrite(c)
  \/ \E c \in Clients : CallFails(c)

\* The steps of one _execute call that nothing outside it decides.
Proceed(k) ==
  \/ RecordClaim(k)
  \/ HandlerReturns(k)
  \/ \E output \in Outputs : RecordSuccess(k, output)
  \/ AcknowledgeSuccess(k)
  \/ RecordRefused(k)
  \/ RecordInterrupted(k)
  \/ RecordFailure(k)
  \/ DispatchRetry(k)
  \/ DispatchDeadLetter(k)
  \/ DispatchAck(k)

Execute ==
  \/ \E w \in Workers, p \in Priorities : ClaimDelivery(w, p)
  \/ DropWithdrawn
  \/ \E k \in Tokens : Proceed(k)
  \/ \E k \in Tokens, f \in HandlerFailures \cup {"timeout"} : HandlerRaises(k, f)
  \/ \E k \in Tokens : OwnershipNoticed(k)
  \/ \E k \in Tokens : AckReplyLost(k)
  \/ \E k \in Tokens : ExecutionCallFails(k)
  \/ \E k \in Tokens : Renew(k)
  \/ \E k \in Tokens : RenewalLost(k)

Operate ==
  \/ \E w \in Workers : WorkerCrashes(w)
  \/ \E w \in Workers : Shutdown(w)
  \/ \E w \in Workers, k \in Tokens : DrainCancels(w, k)
  \/ \E w \in Workers : Restart(w)
  \/ \E r \in Recoverers : LoopRestarts(r)

\* Some maintenance loop still runs.  Its operations are an argument of the
\* runtime: where no loop recovers leases, they only promote and none halts.
LoopRuns == Recoverers = {} \/ Recoverers \ halted # {}

\* The clock, and the promotion that loop comes to.
Maintain(m) ==
  /\ \/ LeaseExpires(m)
     \/ DelayElapses(m)
     \/ LoopRuns /\ PromoteDue(m)
  /\ UNCHANGED planeVars

DedupeEnds(t) == "dedupe expiry" \in Inputs /\ DedupeExpires(t) /\ UNCHANGED planeVars

\* A recovery pass; the durable state it asks for is the task's row.
RecoverLeases(r) ==
  /\ r \notin halted
  /\ \/ Discover(r)
     \/ \E m \in Messages : ReadEnvelope(r, m)
     \/ ReadLease(r)
     \/ ReadDurable(r, passes[r].env # Nil /\ taskState[passes[r].env.task] \in Terminal)
     \/ RecoverRenewed(r)
     \/ RecoverOne(r)
  /\ UNCHANGED planeVars

\* A call of the pass raises.  A Redis error is a QueueInfrastructureError, and
\* the loop comes round again; an error of the durable read leaves the loop.
RecoveryFails(r) ==
  /\ Fault
  /\ RecoveryAborts(r)
  /\ halted' = IF passes[r].pc = "durable" /\ passes[r].env # Nil THEN halted \cup {r} ELSE halted
  /\ UNCHANGED <<durableVars, exec, signals, draining, calls, revoked>>

PlaneNext ==
  \/ Serve
  \/ Execute
  \/ Operate
  \/ \E m \in Messages : Maintain(m)
  \/ \E t \in Tasks : DedupeEnds(t)
  \/ \E r \in Recoverers : RecoverLeases(r)
  \/ \E r \in Recoverers : RecoveryFails(r)

PlaneSpec == PlaneInit /\ [][PlaneNext]_allVars

\* What the workers' event loops run without waiting for anybody.
WorkerProgress ==
  \/ \E w \in Workers, p \in Priorities : ClaimDelivery(w, p)
  \/ DropWithdrawn
  \/ \E k \in Tokens : Proceed(k)
  \/ \E w \in Workers, k \in Tokens : DrainCancels(w, k)
  \/ \E w \in Workers : Restart(w)

\* Worker processes run (a handler is cut off by its deadline), the clock
\* advances, and the maintenance loops that have not halted come round.
\* Callers, renewals, faults and whoever restarts a process with a halted
\* loop owe nothing.
PlaneFairness ==
  /\ WF_allVars(WorkerProgress)
  /\ \A m \in Messages : WF_allVars(Maintain(m))
  /\ \A r \in Recoverers : WF_allVars(RecoverLeases(r))

FairPlaneSpec == PlaneSpec /\ PlaneFairness

-----------------------------------------------------------------------------
(* Properties                                                              *)

\* Every durable row, execution and call has its declared shape.
PlaneTypeOK ==
  /\ taskState \in [Tasks -> DurableStates]
  /\ exec \in [1 .. MaxClaims -> Execution]
  /\ signals \in [Workers -> [Tasks -> 0 .. MaxClaims]]
  /\ draining \in [Workers -> {"no", "claiming", "yes"}]
  /\ halted \subseteq Recoverers
  /\ calls \in [Clients -> Call]
  /\ revoked \subseteq Tasks
  /\ faults \in 0 .. MaxFaults

HasResult(t) == \E output \in Outputs : <<t, "execution-result", output>> \in evidence
HasFailure(t, f) == <<t, "execution-failure", f>> \in evidence

\* PostgreSQL is committed before Redis is changed: a delivery that was
\* rescheduled or dead-lettered has its failure on record, and one that was
\* acknowledged has its result or its failure on record, whatever call raised
\* or process died in between.
DurableFirst ==
  /\ \A k \in dispatched : HasFailure(deliveries[k].env.task, exec[k].failure)
  /\ \A k \in acked : \/ HasResult(deliveries[k].env.task)
                      \/ HasFailure(deliveries[k].env.task, exec[k].failure)

\* A message that is in none of the Redis structures any more is accounted for
\* in PostgreSQL by a result, a permanent failure or a cancellation of its
\* task: a crash, a lost reply or a lease that changes hands never makes a
\* submitted task disappear without a trace.
NothingForgotten ==
  \A m \in Messages : issued[m] # Nil /\ ~ Located(m) =>
    \/ issued[m].snap # "live"
    \/ issued[m].task \in revoked
    \/ HasResult(issued[m].task)
    \/ HasFailure(issued[m].task, "permanent")

Pending(m) == InReady(m) \/ inflight[m] # Nil \/ delayed[m] # Nil

\* A message waiting, leased or delayed is eventually acknowledged, buried in
\* the dead-letter queue or dropped: executions that die, lose their lease or
\* cannot record the same failure twice are picked up by lease recovery, and
\* the attempt budget ends every retry chain.  Only a PostgreSQL error in the
\* durable read of every maintenance loop may leave it where it is, until a
\* loop is started again: a Redis error costs one pass and no more.
Settles == \A m \in Messages : Pending(m) ~> (~ Pending(m) \/ ~ LoopRuns)

Running(k) == exec[k].pc = "running"

\* docs/architecture/queue-consistency.md: when the acknowledgement of a
\* recorded success fails, the task is not executed again.
NotExecutedAgain ==
  [][\A k \in Tokens : Running(k)' /\ ~ Running(k) =>
       ~ HasResult(deliveries[k].env.task)]_allVars

-----------------------------------------------------------------------------
(* The inductive invariant behind DurableFirst                             *)

ResultRecorded(k) == HasResult(deliveries[k].env.task)
FailureRecorded(k) == HasFailure(deliveries[k].env.task, exec[k].failure)

\* What an _execute call has committed by the time it reaches each await.
ExecutionSound(k) ==
  /\ exec[k].pc \in {"scheduling", "burying", "settling"} => FailureRecorded(k)
  /\ k \in dispatched => exec[k].pc \in {"settling", "done"} /\ FailureRecorded(k)
  /\ exec[k].pc = "acking" => ResultRecorded(k)
  /\ k \in acked => ResultRecorded(k) \/ (exec[k].pc = "done" /\ FailureRecorded(k))

PlaneIInv ==
  /\ exec \in [1 .. MaxClaims -> Execution]
  /\ Len(deliveries) <= MaxClaims
  /\ \A k \in Tokens : ExecutionSound(k)
=============================================================================
