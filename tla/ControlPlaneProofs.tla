------------------------- MODULE ControlPlaneProofs -------------------------
(* The task service, the workers and the maintenance loops use the queue   *)
(* only as RedisQueue allows, so what is proved of the queue holds of the  *)
(* composed system.                                                        *)
EXTENDS ControlPlane, RedisQueueStepProofs

USE DEF leaseVars, retryVars, deadVars, ingressVars, indexVars, workerVars,
        recoveryReadsOnly, Tokens

\* A call in progress knows its task and a state the producer accepts.
CallsSound ==
  \A c \in Clients : calls[c].pc \notin {"idle", "returned"} =>
    calls[c].task \in Tasks /\ calls[c].snap \in SnapshotStates

-----------------------------------------------------------------------------
LEMMA CallsSoundStep ==
  ASSUME CallsSound, calls \in [Clients -> Call], PlaneNext
  PROVE  CallsSound' /\ calls' \in [Clients -> Call]
<1> USE DEF CallsSound, Call, NoCall
<1>1. ASSUME NEW c \in Clients, NEW t \in Tasks, CreateTask(c, t)
      PROVE  CallsSound' /\ calls' \in [Clients -> Call]
  <2>1. Snapshot(taskState'[t]) \in SnapshotStates
    BY DEF Snapshot, Terminal, SnapshotStates
  <2> QED
    BY <1>1, <2>1 DEF CreateTask
<1>2. ASSUME NEW c \in Clients, NEW t \in Tasks, CancelRead(c, t) \/ RetryRead(c, t)
      PROVE  CallsSound' /\ calls' \in [Clients -> Call]
  <2>1. PICK pc \in {"cancelling", "retrying"} :
          calls' = [calls EXCEPT ![c] = [NoCall EXCEPT !.pc = pc, !.task = t]]
    BY <1>2 DEF CancelRead, RetryRead, ReadTask
  <2>2. /\ [NoCall EXCEPT !.pc = pc, !.task = t] \in Call
        /\ [NoCall EXCEPT !.pc = pc, !.task = t].task = t
        /\ [NoCall EXCEPT !.pc = pc, !.task = t].snap = "live"
    BY DEF SnapshotStates
  <2> QED
    BY <2>1, <2>2 DEF SnapshotStates
<1>3. ASSUME NEW c \in Clients, Returned(c)
      PROVE  CallsSound' /\ calls' \in [Clients -> Call]
  BY <1>3 DEF Returned, SnapshotStates
<1>4. ASSUME NEW c \in Clients, CancelDurable(c)
      PROVE  CallsSound' /\ calls' \in [Clients -> Call]
  BY <1>4 DEF CancelDurable
<1>5. ASSUME NEW c \in Clients, NEW m \in Messages, NEW p \in Priorities, EnqueueTask(c, m, p)
      PROVE  CallsSound' /\ calls' \in [Clients -> Call]
  BY <1>5 DEF EnqueueTask
<1>6. ASSUME calls' = calls
      PROVE  CallsSound' /\ calls' \in [Clients -> Call]
  BY <1>6
<1> HIDE DEF CallsSound, Call, NoCall
<1>7. CASE Serve
  BY <1>1, <1>2, <1>3, <1>4, <1>5, <1>7
  DEF Serve, EnqueueDuplicate, MarkQueued, CancelDelivery, RetryWrite, CallFails
<1>8. CASE Execute
  <2>1. calls' = calls
    BY <1>8 DEF Execute, Proceed, ClaimDelivery, DropWithdrawn, planeVars, RecordClaim,
       HandlerRaises, OwnershipNoticed, HandlerReturns, RecordSuccess, AcknowledgeSuccess,
       AckReplyLost, RecordRefused, RecordInterrupted, RecordFailure, DispatchRetry,
       DispatchDeadLetter, DispatchAck, ExecutionCallFails, Renew, RenewalLost
  <2> QED
    BY <1>6, <2>1
<1>9. CASE Operate
  BY <1>6, <1>9 DEF Operate, WorkerCrashes, Shutdown, DrainCancels, Restart, LoopRestarts
<1> QED
  BY <1>6, <1>7, <1>8, <1>9
  DEF PlaneNext, Maintain, DedupeEnds, RecoverLeases, RecoveryFails, planeVars

LEMMA CallsSoundAlways == PlaneSpec => [](CallsSound /\ calls \in [Clients -> Call])
<1>1. PlaneInit => CallsSound /\ calls \in [Clients -> Call]
  BY DEF PlaneInit, CallsSound, Call, NoCall, SnapshotStates
<1>2. CallsSound /\ calls \in [Clients -> Call] /\ [PlaneNext]_allVars
        => CallsSound' /\ (calls \in [Clients -> Call])'
  <2> SUFFICES ASSUME CallsSound, calls \in [Clients -> Call], [PlaneNext]_allVars
               PROVE  CallsSound' /\ calls' \in [Clients -> Call]
    OBVIOUS
  <2>1. CASE UNCHANGED allVars
    BY <2>1 DEF allVars, planeVars, CallsSound
  <2> QED
    BY <2>1, CallsSoundStep
<1> QED
  BY <1>1, <1>2, PTL DEF PlaneSpec

-----------------------------------------------------------------------------
(* Every step of the control plane is a step of the queue or leaves it     *)
(* alone                                                                   *)

LEMMA ServeQueue ==
  ASSUME EnqueueStates = SnapshotStates, CallsSound, Serve
  PROVE  [Next]_vars
<1>1. ASSUME NEW c \in Clients, NEW m \in Messages, NEW p \in Priorities, EnqueueTask(c, m, p)
      PROVE  Next
  <2>1. calls[c].task \in Tasks /\ calls[c].snap \in EnqueueStates
    BY <1>1 DEF EnqueueTask, CallsSound
  <2> QED
    BY <1>1, <2>1 DEF EnqueueTask, Next, Produce
<1>2. ASSUME NEW c \in Clients, NEW host \in Workers \cup {Nil}, CancelDelivery(c, host)
      PROVE  Next \/ UNCHANGED vars
  <2>1. calls[c].task \in Tasks
    BY <1>2 DEF CancelDelivery, CallsSound
  <2> QED
    BY <1>2, <2>1 DEF CancelDelivery, Next
<1>3. Next \/ UNCHANGED vars
  BY <1>1, <1>2 DEF Serve, CreateTask, EnqueueDuplicate, MarkQueued, CancelRead, RetryRead,
     ReadTask, CancelDurable, RetryWrite, CallFails
<1> QED
  BY <1>3

LEMMA ExecuteQueue ==
  ASSUME Execute
  PROVE  [Next]_vars
<1>1. ASSUME NEW w \in Workers, NEW p \in Priorities, ClaimDelivery(w, p)
      PROVE  Next
  BY <1>1 DEF ClaimDelivery, Next, Consume
<1>2. ASSUME DropWithdrawn
      PROVE  Next
  BY <1>2 DEF DropWithdrawn, Next, Consume
<1>3. ASSUME NEW k \in Tokens, Acknowledge(k)
      PROVE  Next
  BY <1>3 DEF Next, Consume
<1>4. ASSUME NEW k \in Tokens, RenewLease(k)
      PROVE  Next
  BY <1>4 DEF Next, Consume
<1>5. ASSUME NEW k \in Tokens, DispatchRetry(k)
      PROVE  Next \/ UNCHANGED vars
  BY <1>5 DEF DispatchRetry, Next, Retry
<1>6. ASSUME NEW k \in Tokens, DispatchDeadLetter(k)
      PROVE  Next \/ UNCHANGED vars
  <2>1. Retryable(exec[k].failure) \in BOOLEAN
    BY DEF Retryable
  <2> QED
    BY <1>6, <2>1 DEF DispatchDeadLetter, Next, Bury
<1>7. ASSUME NEW k \in Tokens, Proceed(k)
      PROVE  Next \/ UNCHANGED vars
  BY <1>3, <1>5, <1>6, <1>7
  DEF Proceed, RecordClaim, HandlerReturns, RecordSuccess, AcknowledgeSuccess, AckRefused,
      RecordRefused, RecordInterrupted, RecordFailure, DispatchAck
<1>8. ASSUME NEW k \in Tokens,
             \/ \E f \in HandlerFailures \cup {"timeout"} : HandlerRaises(k, f)
             \/ OwnershipNoticed(k) \/ AckReplyLost(k) \/ ExecutionCallFails(k)
             \/ Renew(k) \/ RenewalLost(k)
      PROVE  Next \/ UNCHANGED vars
  BY <1>3, <1>4, <1>8
  DEF HandlerRaises, OwnershipNoticed, AckReplyLost, ExecutionCallFails, Renew, RenewalLost,
      AckRefused
<1>9. Next \/ UNCHANGED vars
  BY <1>1, <1>2, <1>7, <1>8 DEF Execute
<1> QED
  BY <1>9

LEMMA MaintainQueue ==
  ASSUME \/ \E m \in Messages : Maintain(m)
         \/ \E t \in Tasks : DedupeEnds(t)
         \/ \E r \in Recoverers : RecoverLeases(r) \/ RecoveryFails(r)
  PROVE  Next
<1>1. ASSUME NEW m \in Messages, Maintain(m)
      PROVE  Next
  BY <1>1 DEF Maintain, Next, Consume, Retry
<1>2. ASSUME NEW t \in Tasks, DedupeEnds(t)
      PROVE  Next
  BY <1>2 DEF DedupeEnds, Next, Produce
<1>3. ASSUME NEW r \in Recoverers, RecoverLeases(r) \/ RecoveryFails(r)
      PROVE  Next
  <2>1. (passes[r].env # Nil /\ taskState[passes[r].env.task] \in Terminal) \in BOOLEAN
    OBVIOUS
  <2> QED
    BY <1>3, <2>1 DEF RecoverLeases, RecoveryFails, Next, Recover
<1> QED
  BY <1>1, <1>2, <1>3

\* The steps of the task service, the workers and the maintenance loops are
\* steps of the queue, so what holds of every behaviour of the queue holds of
\* the control plane.
LEMMA PlaneUsesQueue ==
  ASSUME EnqueueStates = SnapshotStates
  PROVE  PlaneSpec => Spec
<1>1. PlaneInit => Init
  BY DEF PlaneInit
<1>2. CallsSound /\ [PlaneNext]_allVars => [Next]_vars
  <2> SUFFICES ASSUME CallsSound, [PlaneNext]_allVars
               PROVE  [Next]_vars
    OBVIOUS
  <2>1. CASE Operate
    BY <2>1 DEF Operate, WorkerCrashes, Shutdown, DrainCancels, Restart, LoopRestarts
  <2>2. CASE UNCHANGED allVars
    BY <2>2 DEF allVars
  <2> QED
    BY <2>1, <2>2, ServeQueue, ExecuteQueue, MaintainQueue DEF PlaneNext
<1> QED
  BY <1>1, <1>2, CallsSoundAlways, PTL DEF PlaneSpec, Spec

\* The queue's guarantees hold of the whole control plane while workers crash,
\* drain and retry: the three delivery records agree, no script loses a
\* message, unexpired leases are kept, retries stay well formed and within
\* budget, a recovery pass writes back what is still current, an operator's
\* decision is kept, a tombstone is final, and what has left the queue comes
\* back only with a failure its delivery reports.
THEOREM PlaneKeepsQueuePromises ==
  ASSUME EnqueueStates = SnapshotStates
  PROVE  PlaneSpec => /\ []IndexesAgree /\ []LeaseBacked
                      /\ []RetryWellFormed /\ []RecoveryReadsCurrent
                      /\ NoMessageLost /\ LiveLeaseKept
                      /\ DecisionKept /\ TombstoneFinal /\ GoneStaysGone
BY PlaneUsesQueue, IndexesAgreeAlways, LeaseBackedAlways, RetryWellFormedAlways,
   RecoveryReadsCurrentAlways, NoMessageLostAlways, LiveLeaseKeptAlways, DecisionKeptAlways,
   TombstoneFinalAlways, GoneStaysGoneAlways, PTL

\* The control plane's producers, workers and recovery, composed, keep the
\* delivery contract: an execution that lost its lease settles nothing, and a
\* message is let go only when its owner settled it, its task was withdrawn or
\* recovery found its task finished.
THEOREM PlaneImplementsContract ==
  ASSUME EnqueueStates = SnapshotStates
  PROVE  PlaneSpec => ImplementsContract
BY PlaneUsesQueue, QueueImplementsContract, PTL

-----------------------------------------------------------------------------
(* PostgreSQL before Redis                                                 *)

LEMMA EvidenceGrows ==
  ASSUME evidence \subseteq evidence', NEW t, NEW f
  PROVE  /\ HasResult(t) => HasResult(t)'
         /\ HasFailure(t, f) => HasFailure(t, f)'
BY DEF HasResult, HasFailure

\* An execution that stays where it is, or ends, keeps what it committed.
LEMMA SoundKept ==
  ASSUME NEW k, ExecutionSound(k), evidence \subseteq evidence',
         deliveries'[k] = deliveries[k],
         exec'[k].failure = exec[k].failure,
         exec'[k].pc = exec[k].pc \/ exec'[k].pc = "done",
         k \in dispatched' <=> k \in dispatched,
         k \in acked' <=> k \in acked
  PROVE  ExecutionSound(k)'
<1>1. /\ ResultRecorded(k) => ResultRecorded(k)'
      /\ FailureRecorded(k) => FailureRecorded(k)'
  BY EvidenceGrows DEF ResultRecorded, FailureRecorded
<1> QED
  BY <1>1 DEF ExecutionSound

\* Before its failure is recorded an execution has dispatched nothing, so it
\* may change its failure and go anywhere but to a dispatching step.
LEMMA SoundMoved ==
  ASSUME NEW k, ExecutionSound(k), evidence \subseteq evidence',
         deliveries'[k] = deliveries[k],
         exec[k].pc \notin {"settling", "done"},
         exec'[k].pc \notin {"scheduling", "burying", "settling", "acking"},
         k \in dispatched' => k \in dispatched,
         k \in acked' => k \in acked \/ ResultRecorded(k)
  PROVE  ExecutionSound(k)'
<1>1. ResultRecorded(k) => ResultRecorded(k)'
  BY EvidenceGrows DEF ResultRecorded
<1> QED
  BY <1>1 DEF ExecutionSound

\* A step of one execution: the others stay as they are.
LEMMA OneMoves ==
  ASSUME PlaneIInv, NEW k \in Tokens, evidence \subseteq evidence', deliveries' = deliveries,
         exec' \in [1 .. MaxClaims -> Execution],
         \A j \in Tokens \ {k} : /\ exec'[j].pc = exec[j].pc
                                 /\ exec'[j].failure = exec[j].failure
                                 /\ j \in dispatched' <=> j \in dispatched
                                 /\ j \in acked' <=> j \in acked,
         ExecutionSound(k)'
  PROVE  PlaneIInv'
<1>1. ASSUME NEW j \in Tokens, j # k
      PROVE  ExecutionSound(j)'
  BY <1>1, SoundKept DEF PlaneIInv
<1> QED
  BY <1>1 DEF PlaneIInv

\* A step that moves no execution.
LEMMA NoneMoves ==
  ASSUME PlaneIInv, evidence \subseteq evidence',
         UNCHANGED <<deliveries, acked, dispatched>>,
         exec' \in [1 .. MaxClaims -> Execution],
         \A j \in Tokens : /\ exec'[j].pc = exec[j].pc \/ exec'[j].pc = "done"
                           /\ exec'[j].failure = exec[j].failure
  PROVE  PlaneIInv'
<1>1. ASSUME NEW j \in Tokens
      PROVE  ExecutionSound(j)'
  BY <1>1, SoundKept DEF PlaneIInv
<1> QED
  BY <1>1 DEF PlaneIInv

\* The three ways an execution moves: to another await, into the exception
\* handler, to its end.
LEMMA MoveShapes ==
  ASSUME exec \in [1 .. MaxClaims -> Execution], NEW k \in 1 .. MaxClaims
  PROVE  /\ \A pc \in Stages : GoTo(k, pc) =>
              /\ exec' \in [1 .. MaxClaims -> Execution]
              /\ exec'[k].pc = pc /\ exec'[k].failure = exec[k].failure
              /\ \A j \in (1 .. MaxClaims) \ {k} : exec'[j] = exec[j]
         /\ \A f \in Failures : Fails(k, f) =>
              /\ exec' \in [1 .. MaxClaims -> Execution]
              /\ exec'[k].pc = "failing"
              /\ \A j \in (1 .. MaxClaims) \ {k} : exec'[j] = exec[j]
         /\ Ended(k) =>
              /\ exec' \in [1 .. MaxClaims -> Execution]
              /\ exec'[k].pc = "done" /\ exec'[k].failure = exec[k].failure
              /\ \A j \in (1 .. MaxClaims) \ {k} : exec'[j] = exec[j]
<1>1. exec[k] \in Execution
  OBVIOUS
<1>2. ASSUME NEW pc \in Stages, GoTo(k, pc)
      PROVE  /\ exec' \in [1 .. MaxClaims -> Execution]
             /\ exec'[k].pc = pc /\ exec'[k].failure = exec[k].failure
             /\ \A j \in (1 .. MaxClaims) \ {k} : exec'[j] = exec[j]
  BY <1>1, <1>2 DEF GoTo, Execution
<1>3. ASSUME NEW f \in Failures, Fails(k, f)
      PROVE  /\ exec' \in [1 .. MaxClaims -> Execution]
             /\ exec'[k].pc = "failing"
             /\ \A j \in (1 .. MaxClaims) \ {k} : exec'[j] = exec[j]
  BY <1>1, <1>3 DEF Fails, Execution, Failures, Stages
<1>4. ASSUME Ended(k)
      PROVE  /\ exec' \in [1 .. MaxClaims -> Execution]
             /\ exec'[k].pc = "done" /\ exec'[k].failure = exec[k].failure
             /\ \A j \in (1 .. MaxClaims) \ {k} : exec'[j] = exec[j]
  BY <1>1, <1>4 DEF Ended, Execution, Stages
<1> QED
  BY <1>2, <1>3, <1>4

Early == Stages \ {"scheduling", "burying", "settling", "acking", "done"}

LEMMA GoToSound ==
  ASSUME PlaneIInv, NEW k \in Tokens, deliveries \in Seq(Delivery),
         evidence \subseteq evidence', UNCHANGED <<deliveries, acked, dispatched>>,
         NEW pc \in Early, GoTo(k, pc), exec[k].pc \notin {"settling", "done"}
  PROVE  PlaneIInv'
<1>1. k \in 1 .. MaxClaims /\ Tokens \subseteq 1 .. MaxClaims
  BY ConstantsAssumption DEF PlaneIInv
<1>2. /\ exec' \in [1 .. MaxClaims -> Execution]
      /\ exec'[k].pc = pc
      /\ \A j \in (1 .. MaxClaims) \ {k} : exec'[j] = exec[j]
  BY <1>1, MoveShapes DEF PlaneIInv, Early
<1>3. ExecutionSound(k)'
  BY <1>2, SoundMoved DEF PlaneIInv, Early
<1> QED
  BY <1>1, <1>2, <1>3, OneMoves

LEMMA FailsSound ==
  ASSUME PlaneIInv, NEW k \in Tokens, deliveries \in Seq(Delivery),
         evidence \subseteq evidence', UNCHANGED <<deliveries, dispatched>>,
         acked' = acked \/ (acked' = acked \cup {k} /\ exec[k].pc = "acking"),
         NEW f \in Failures, Fails(k, f), exec[k].pc \notin {"settling", "done"}
  PROVE  PlaneIInv'
<1>1. k \in 1 .. MaxClaims /\ Tokens \subseteq 1 .. MaxClaims
  BY ConstantsAssumption DEF PlaneIInv
<1>2. /\ exec' \in [1 .. MaxClaims -> Execution]
      /\ exec'[k].pc = "failing"
      /\ \A j \in (1 .. MaxClaims) \ {k} : exec'[j] = exec[j]
  BY <1>1, MoveShapes DEF PlaneIInv
<1>3. exec[k].pc = "acking" => ResultRecorded(k)
  BY DEF PlaneIInv, ExecutionSound
<1>4. ExecutionSound(k)'
  BY <1>2, <1>3, SoundMoved DEF PlaneIInv
<1> QED
  BY <1>1, <1>2, <1>4, OneMoves

LEMMA EndedSound ==
  ASSUME PlaneIInv, NEW k \in Tokens, deliveries \in Seq(Delivery),
         evidence \subseteq evidence', UNCHANGED <<deliveries, dispatched>>, Ended(k),
         \/ acked' = acked
         \/ acked' = acked \cup {k} /\ exec[k].pc \in {"acking", "settling"}
  PROVE  PlaneIInv'
<1>1. k \in 1 .. MaxClaims /\ Tokens \subseteq 1 .. MaxClaims
  BY ConstantsAssumption DEF PlaneIInv
<1>2. /\ exec' \in [1 .. MaxClaims -> Execution]
      /\ exec'[k].pc = "done" /\ exec'[k].failure = exec[k].failure
      /\ \A j \in (1 .. MaxClaims) \ {k} : exec'[j] = exec[j]
  BY <1>1, MoveShapes DEF PlaneIInv
<1>3. ExecutionSound(k)'
  <2>1. CASE acked' = acked
    BY <1>2, <2>1, SoundKept DEF PlaneIInv
  <2>2. CASE acked' = acked \cup {k} /\ exec[k].pc \in {"acking", "settling"}
    <3>1. /\ ResultRecorded(k) => ResultRecorded(k)'
          /\ FailureRecorded(k) => FailureRecorded(k)'
      BY <1>2, EvidenceGrows DEF ResultRecorded, FailureRecorded
    <3> QED
      BY <1>2, <2>2, <3>1 DEF PlaneIInv, ExecutionSound
  <2> QED
    BY <2>1, <2>2
<1> QED
  BY <1>1, <1>2, <1>3, OneMoves

\* The dispatcher's moves, all made with the failure on record.
LEMMA DispatchSound ==
  ASSUME PlaneIInv, NEW k \in Tokens, deliveries \in Seq(Delivery),
         evidence \subseteq evidence', UNCHANGED <<deliveries, acked>>,
         NEW pc \in {"scheduling", "burying", "settling"}, GoTo(k, pc), FailureRecorded(k)',
         exec[k].pc \in {"failing", "scheduling", "burying"},
         \/ dispatched' = dispatched
         \/ dispatched' = dispatched \cup {k} /\ pc = "settling"
  PROVE  PlaneIInv'
<1>1. k \in 1 .. MaxClaims /\ Tokens \subseteq 1 .. MaxClaims
  BY ConstantsAssumption DEF PlaneIInv
<1>2. /\ exec' \in [1 .. MaxClaims -> Execution]
      /\ exec'[k].pc = pc
      /\ \A j \in (1 .. MaxClaims) \ {k} : exec'[j] = exec[j]
  BY <1>1, MoveShapes DEF PlaneIInv, Stages
<1>3. ResultRecorded(k) => ResultRecorded(k)'
  BY EvidenceGrows DEF ResultRecorded
<1>4. ExecutionSound(k)'
  BY <1>2, <1>3 DEF PlaneIInv, ExecutionSound
<1> QED
  BY <1>1, <1>2, <1>4, OneMoves

-----------------------------------------------------------------------------
LEMMA ProceedSound ==
  ASSUME TypeOK, PlaneIInv, NEW k \in Tokens, Proceed(k)
  PROVE  PlaneIInv'
<1> USE DEF At
<1>0. deliveries \in Seq(Delivery)
  BY DEF TypeOK
<1>1. CASE RecordClaim(k)
  <2>1. /\ evidence \subseteq evidence'
        /\ UNCHANGED <<deliveries, acked, dispatched>>
        /\ exec[k].pc = "claimed"
        /\ GoTo(k, "running") \/ Fails(k, "terminal") \/ Fails(k, "integrity")
    BY <1>1 DEF RecordClaim, Recorded, durableVars, vars
  <2> QED
    BY <1>0, <2>1, GoToSound, FailsSound DEF Early, Stages, Failures
<1>2. CASE HandlerReturns(k)
  <2>1. /\ evidence' = evidence
        /\ UNCHANGED <<deliveries, acked, dispatched>>
        /\ exec[k].pc = "running"
        /\ GoTo(k, "interrupting") \/ GoTo(k, "succeeding")
    BY <1>2 DEF HandlerReturns, durableVars, vars
  <2> QED
    BY <1>0, <2>1, GoToSound DEF Early, Stages
<1>3. ASSUME NEW output \in Outputs, RecordSuccess(k, output)
      PROVE  PlaneIInv'
  <2>1. /\ evidence \subseteq evidence'
        /\ UNCHANGED <<deliveries, acked, dispatched>>
        /\ exec[k].pc = "succeeding"
    BY <1>3 DEF RecordSuccess, Recorded, durableVars, vars
  <2>2. CASE Fails(k, "terminal") \/ Fails(k, "integrity")
    BY <1>0, <2>1, <2>2, FailsSound DEF Failures
  <2>3. CASE Recorded(Evidence(k, "execution-result", output)) /\ GoTo(k, "acking")
    <3>1. k \in 1 .. MaxClaims /\ Tokens \subseteq 1 .. MaxClaims
      BY <1>0, ConstantsAssumption DEF PlaneIInv
    <3>2. /\ exec' \in [1 .. MaxClaims -> Execution]
          /\ exec'[k].pc = "acking"
          /\ \A j \in (1 .. MaxClaims) \ {k} : exec'[j] = exec[j]
      BY <2>3, <3>1, MoveShapes DEF PlaneIInv, Stages
    <3>3. ResultRecorded(k)'
      BY <2>1, <2>3 DEF Recorded, Evidence, ResultRecorded, HasResult
    <3>4. ExecutionSound(k)'
      BY <2>1, <3>2, <3>3 DEF PlaneIInv, ExecutionSound
    <3> QED
      BY <2>1, <3>1, <3>2, <3>4, OneMoves
  <2> QED
    BY <1>3, <2>2, <2>3 DEF RecordSuccess
<1>4. CASE AcknowledgeSuccess(k)
  <2>1. exec[k].pc = "acking" /\ evidence' = evidence
    BY <1>4 DEF AcknowledgeSuccess, durableVars
  <2>2. CASE Acknowledge(k) /\ Ended(k)
    BY <1>0, <2>1, <2>2, EndedSound DEF Acknowledge
  <2>3. CASE AckRefused(k) /\ GoTo(k, "refused")
    BY <1>0, <2>1, <2>3, GoToSound DEF AckRefused, vars, Early, Stages
  <2> QED
    BY <1>4, <2>2, <2>3 DEF AcknowledgeSuccess
<1>5. CASE RecordRefused(k) \/ RecordInterrupted(k)
  <2>1. /\ evidence \subseteq evidence'
        /\ UNCHANGED <<deliveries, acked, dispatched>>
        /\ exec[k].pc \in {"refused", "interrupting"}
        /\ Ended(k) \/ Fails(k, "integrity")
    BY <1>5 DEF RecordRefused, RecordInterrupted, Interrupted, Recorded, durableVars, vars
  <2> QED
    BY <1>0, <2>1, EndedSound, FailsSound DEF Failures
<1>6. CASE RecordFailure(k)
  <2>1. /\ evidence \subseteq evidence'
        /\ UNCHANGED <<deliveries, acked, dispatched>>
        /\ exec[k].pc = "failing"
    BY <1>6 DEF RecordFailure, Recorded, durableVars, vars
  <2>2. CASE Ended(k)
    BY <1>0, <2>1, <2>2, EndedSound
  <2>3. CASE Recorded(Evidence(k, "execution-failure", exec[k].failure)) /\ GoTo(k, "scheduling")
    <3>1. k \in 1 .. MaxClaims
      BY <1>0, ConstantsAssumption DEF PlaneIInv
    <3>2. exec'[k].failure = exec[k].failure
      BY <2>3, <3>1, MoveShapes DEF PlaneIInv, Stages
    <3>3. FailureRecorded(k)'
      BY <2>1, <2>3, <3>2 DEF Recorded, Evidence, FailureRecorded, HasFailure
    <3> QED
      BY <1>0, <2>1, <2>3, <3>3, DispatchSound
  <2> QED
    BY <1>6, <2>2, <2>3 DEF RecordFailure
<1>7. CASE DispatchRetry(k) \/ DispatchDeadLetter(k)
  <2>1. PICK pc \in {"burying", "settling"} :
          /\ evidence' = evidence
          /\ UNCHANGED <<deliveries, acked>>
          /\ exec[k].pc \in {"scheduling", "burying"}
          /\ GoTo(k, pc)
          /\ \/ dispatched' = dispatched
             \/ dispatched' = dispatched \cup {k} /\ pc = "settling"
    BY <1>7 DEF DispatchRetry, DispatchDeadLetter, ScheduleFailure, Finalize, durableVars, vars
  <2>2. k \in 1 .. MaxClaims
    BY <1>0, ConstantsAssumption DEF PlaneIInv
  <2>3. exec'[k].failure = exec[k].failure
    BY <2>1, <2>2, MoveShapes DEF PlaneIInv, Stages
  <2>4. FailureRecorded(k)'
    BY <2>1, <2>3 DEF PlaneIInv, ExecutionSound, FailureRecorded, HasFailure
  <2> QED
    BY <1>0, <2>1, <2>4, DispatchSound
<1>8. CASE DispatchAck(k)
  BY <1>0, <1>8, EndedSound DEF DispatchAck, Acknowledge, AckRefused, durableVars, vars
<1> QED
  BY <1>1, <1>2, <1>3, <1>4, <1>5, <1>6, <1>7, <1>8 DEF Proceed

\* A claim starts an execution that has neither dispatched nor acknowledged.
LEMMA ClaimSound ==
  ASSUME TypeOK, PlaneIInv, NEW w \in Workers, NEW p \in Priorities, ClaimDelivery(w, p)
  PROVE  PlaneIInv'
<1>1. /\ Len(deliveries) < MaxClaims /\ Len(deliveries) \in Nat
      /\ deliveries' = Append(deliveries, [env |-> Head(ready[p]), worker |-> w])
      /\ UNCHANGED <<acked, dispatched, evidence>>
  BY DEF ClaimDelivery, Claim, TypeOK, durableVars
<1>2. PICK n \in Nat : n = Len(deliveries) + 1
  BY <1>1
<1>3. /\ Len(deliveries') = n
      /\ \A j \in Tokens : deliveries'[j] = deliveries[j] /\ j \in 1 .. MaxClaims /\ j # n
      /\ n \in 1 .. MaxClaims /\ n \notin acked /\ n \notin dispatched
      /\ Tokens' = Tokens \cup {n}
  BY <1>1, <1>2, ConstantsAssumption DEF TypeOK
<1>4. exec' = [exec EXCEPT ![n] = [@ EXCEPT !.pc = "claimed", !.renewing = TRUE]]
  BY <1>3 DEF ClaimDelivery
<1>5. exec \in [1 .. MaxClaims -> Execution] /\ exec[n] \in Execution
  BY <1>3 DEF PlaneIInv
<1>6. [exec[n] EXCEPT !.pc = "claimed", !.renewing = TRUE] \in Execution
      /\ [exec[n] EXCEPT !.pc = "claimed", !.renewing = TRUE].pc = "claimed"
  BY <1>5 DEF Execution, Stages
<1>7. /\ exec' \in [1 .. MaxClaims -> Execution]
      /\ exec'[n].pc = "claimed"
      /\ \A j \in Tokens : exec'[j] = exec[j]
  BY <1>3, <1>4, <1>5, <1>6
<1>8. ASSUME NEW j \in Tokens
      PROVE  ExecutionSound(j)'
  BY <1>1, <1>3, <1>7, SoundKept DEF PlaneIInv
<1>9. ExecutionSound(n)'
  BY <1>1, <1>3, <1>7 DEF ExecutionSound
<1>10. Len(deliveries') <= MaxClaims
  BY <1>3
<1> QED
  BY <1>3, <1>7, <1>8, <1>9, <1>10 DEF PlaneIInv

LEMMA ExecuteSound ==
  ASSUME TypeOK, PlaneIInv, Execute
  PROVE  PlaneIInv'
<1> USE DEF At
<1>0. deliveries \in Seq(Delivery) /\ Tokens \subseteq 1 .. MaxClaims
  BY ConstantsAssumption DEF TypeOK, PlaneIInv
<1>1. CASE DropWithdrawn
  BY <1>0, <1>1, NoneMoves DEF DropWithdrawn, ClaimNone, planeVars, PlaneIInv
<1>2. ASSUME NEW k \in Tokens, NEW f \in HandlerFailures \cup {"timeout", "ownership"},
             HandlerRaises(k, f)
      PROVE  PlaneIInv'
  <2>1. f \in Failures
    BY PlaneAssumption DEF Failures
  <2> QED
    BY <1>0, <1>2, <2>1, FailsSound DEF HandlerRaises, durableVars, vars
<1>3. ASSUME NEW k \in Tokens, AckReplyLost(k)
      PROVE  PlaneIInv'
  BY <1>0, <1>3, FailsSound DEF AckReplyLost, Acknowledge, durableVars, Failures
<1>4. ASSUME NEW k \in Tokens, ExecutionCallFails(k)
      PROVE  PlaneIInv'
  <2>1. /\ UNCHANGED <<deliveries, acked, dispatched, evidence>>
        /\ \/ Ended(k)
           \/ Fails(k, "infrastructure") /\ exec[k].pc \notin {"settling", "done"}
    BY <1>4 DEF ExecutionCallFails, durableVars, vars
  <2> QED
    BY <1>0, <2>1, EndedSound, FailsSound DEF Failures
<1>5. ASSUME NEW k \in Tokens, Renew(k) \/ RenewalLost(k)
      PROVE  PlaneIInv'
  <2>1. UNCHANGED <<deliveries, acked, dispatched, evidence>>
    BY <1>5 DEF Renew, RenewLease, RenewalLost, AckRefused, durableVars, vars
  <2>2. exec[k] \in Execution
    BY <1>0 DEF PlaneIInv
  <2>3. CASE Renew(k)
    <3>1. exec' = [exec EXCEPT ![k].renewing = ~ exec[k].stop]
      BY <2>3 DEF Renew
    <3>2. /\ exec' \in [1 .. MaxClaims -> Execution]
          /\ \A j \in Tokens : exec'[j].pc = exec[j].pc /\ exec'[j].failure = exec[j].failure
      BY <1>0, <2>2, <3>1 DEF PlaneIInv, Execution
    <3> QED
      BY <2>1, <3>2, NoneMoves
  <2>4. CASE RenewalLost(k)
    <3>1. exec' = [exec EXCEPT ![k].lost = TRUE, ![k].stop = TRUE, ![k].renewing = FALSE]
      BY <2>4 DEF RenewalLost
    <3>2. /\ exec' \in [1 .. MaxClaims -> Execution]
          /\ \A j \in Tokens : exec'[j].pc = exec[j].pc /\ exec'[j].failure = exec[j].failure
      BY <1>0, <2>2, <3>1 DEF PlaneIInv, Execution
    <3> QED
      BY <2>1, <3>2, NoneMoves
  <2> QED
    BY <1>5, <2>3, <2>4
<1> QED
  BY <1>1, <1>2, <1>3, <1>4, <1>5, ClaimSound, ProceedSound DEF Execute, OwnershipNoticed

LEMMA OperateSound ==
  ASSUME TypeOK, PlaneIInv, Operate
  PROVE  PlaneIInv'
<1>0. deliveries \in Seq(Delivery) /\ Tokens \subseteq 1 .. MaxClaims
  BY ConstantsAssumption DEF TypeOK, PlaneIInv
<1>1. UNCHANGED <<deliveries, acked, dispatched, evidence>>
  BY DEF Operate, WorkerCrashes, Shutdown, DrainCancels, Restart, LoopRestarts, durableVars, vars
<1>2. ASSUME NEW w \in Workers, WorkerCrashes(w) \/ Restart(w)
      PROVE  PlaneIInv'
  <2>1. \A k \in 1 .. MaxClaims : exec[k] \in Execution
    BY DEF PlaneIInv
  <2>2. exec' = [k \in DOMAIN exec |->
                   IF k \in Tokens /\ deliveries[k].worker = w
                     THEN [exec[k] EXCEPT !.pc = "done", !.renewing = FALSE] ELSE exec[k]]
    BY <1>2 DEF WorkerCrashes, Restart
  <2>3. /\ exec' \in [1 .. MaxClaims -> Execution]
        /\ \A k \in Tokens : /\ exec'[k].pc = exec[k].pc \/ exec'[k].pc = "done"
                             /\ exec'[k].failure = exec[k].failure
    BY <1>0, <2>1, <2>2 DEF PlaneIInv, Execution, Stages
  <2> QED
    BY <1>1, <2>3, NoneMoves
<1>3. ASSUME NEW w \in Workers, Shutdown(w)
      PROVE  PlaneIInv'
  BY <1>1, <1>3, NoneMoves DEF Shutdown, PlaneIInv
<1>4. ASSUME NEW w \in Workers, NEW k \in Tokens, DrainCancels(w, k)
      PROVE  PlaneIInv'
  BY <1>0, <1>1, <1>4, EndedSound, GoToSound DEF DrainCancels, Early, Stages
<1>5. ASSUME NEW r \in Recoverers, LoopRestarts(r)
      PROVE  PlaneIInv'
  BY <1>1, <1>5, NoneMoves DEF LoopRestarts, PlaneIInv
<1> QED
  BY <1>2, <1>3, <1>4, <1>5 DEF Operate

\* Steps of others change neither executions nor evidence nor the deliveries'
\* bookkeeping; a cancellation may set the event of one execution.
LEMMA OthersSound ==
  ASSUME TypeOK, PlaneIInv,
         \/ Serve
         \/ \E m \in Messages : Maintain(m)
         \/ \E t \in Tasks : DedupeEnds(t)
         \/ \E r \in Recoverers : RecoverLeases(r) \/ RecoveryFails(r)
  PROVE  PlaneIInv'
<1>1. UNCHANGED <<deliveries, acked, dispatched, evidence>>
  BY DEF Serve, CreateTask, EnqueueTask, Enqueue, EnqueueDuplicate, MarkQueued, CancelRead,
     RetryRead, ReadTask, CancelDurable, CancelDelivery, Cancel, RetryWrite, CallFails, Maintain,
     LeaseExpires, DelayElapses, PromoteDue, DedupeEnds, DedupeExpires, RecoverLeases, Discover,
     ReadEnvelope, ReadLease, ReadDurable, RecoverRenewed, RecoverOne, RecoveryFails,
     RecoveryAborts, vars, durableVars, planeVars
<1>2. ASSUME NEW c \in Clients, NEW host \in Workers \cup {Nil}, CancelDelivery(c, host)
      PROVE  PlaneIInv'
  <2>1. PICK signalled :
          exec' = [k \in DOMAIN exec |-> IF k = signalled THEN [exec[k] EXCEPT !.stop = TRUE]
                                                          ELSE exec[k]]
    BY <1>2 DEF CancelDelivery
  <2>2. \A k \in 1 .. MaxClaims : exec[k] \in Execution
    BY DEF PlaneIInv
  <2>3. /\ exec' \in [1 .. MaxClaims -> Execution]
        /\ \A k \in 1 .. MaxClaims : exec'[k].pc = exec[k].pc /\ exec'[k].failure = exec[k].failure
    BY <2>1, <2>2 DEF PlaneIInv, Execution
  <2>4. Tokens \subseteq 1 .. MaxClaims
    BY ConstantsAssumption DEF TypeOK, PlaneIInv
  <2> QED
    BY <1>1, <2>3, <2>4, NoneMoves
<1>3. CASE exec' = exec
  BY <1>1, <1>3, NoneMoves DEF PlaneIInv
<1> QED
  BY <1>2, <1>3
  DEF Serve, CreateTask, EnqueueTask, EnqueueDuplicate, MarkQueued, CancelRead, RetryRead,
      ReadTask, CancelDurable, RetryWrite, CallFails, Maintain, DedupeEnds, RecoverLeases,
      RecoveryFails, processVars, planeVars

LEMMA PlaneIInvAlways ==
  ASSUME EnqueueStates = SnapshotStates
  PROVE  PlaneSpec => []PlaneIInv
<1>1. PlaneInit => PlaneIInv
  BY ConstantsAssumption
  DEF PlaneInit, Init, PlaneIInv, NoExecution, Execution, Stages, ExecutionSound
<1>2. TypeOK /\ PlaneIInv /\ [PlaneNext]_allVars => PlaneIInv'
  <2> SUFFICES ASSUME TypeOK, PlaneIInv, [PlaneNext]_allVars
               PROVE  PlaneIInv'
    OBVIOUS
  <2>1. CASE UNCHANGED allVars
    BY <2>1, NoneMoves DEF allVars, vars, planeVars, PlaneIInv
  <2> QED
    BY <2>1, ExecuteSound, OperateSound, OthersSound DEF PlaneNext
<1> QED
  BY <1>1, <1>2, PlaneUsesQueue, TypeCorrect, PTL DEF PlaneSpec

\* PostgreSQL is committed before Redis is changed, for any number of tasks,
\* workers, requests and faults: what was rescheduled or dead-lettered has its
\* failure on record, and what was acknowledged its failure or its result.
THEOREM DurableFirstAlways ==
  ASSUME EnqueueStates = SnapshotStates
  PROVE  PlaneSpec => []DurableFirst
<1>1. TypeOK /\ PlaneIInv => DurableFirst
  BY DEF TypeOK, PlaneIInv, ExecutionSound, ResultRecorded, FailureRecorded, DurableFirst
<1> QED
  BY <1>1, PlaneIInvAlways, PlaneUsesQueue, TypeCorrect, PTL

-----------------------------------------------------------------------------
(* Nothing is forgotten                                                    *)

\* What PostgreSQL has to show for a task that is no longer in the queue.
Accounted(t) == t \in revoked \/ HasResult(t) \/ HasFailure(t, "permanent")

\* Only a committed cancellation leads to a tombstone.
RevokedFirst ==
  /\ cancelled \subseteq revoked
  /\ \A c \in Clients : calls[c].pc = "tombstoning" => calls[c].task \in revoked

\* A terminal row has its evidence, also for a recovery pass that read it.
TerminalBacked ==
  /\ \A t \in Tasks : taskState[t] \in Terminal => Accounted(t)
  /\ \A r \in Recoverers : passes[r].pc = "script" /\ passes[r].terminal =>
       passes[r].env # Nil /\ Accounted(passes[r].env.task)

\* A failed delivery about to be acknowledged has left its message behind.
SettlingHeld ==
  \A k \in Tokens : /\ exec[k].pc = "settling" /\ Owns(k)
                    /\ deliveries[k].env.task \notin cancelled
                    => Held(deliveries[k].env.mid)

LEMMA RecordsGrow ==
  ASSUME [PlaneNext]_allVars
  PROVE  /\ evidence \subseteq evidence' /\ revoked \subseteq revoked'
         /\ \A t : Accounted(t) => Accounted(t)'
<1>1. ASSUME Serve
      PROVE  evidence \subseteq evidence' /\ revoked \subseteq revoked'
  BY <1>1 DEF Serve, CreateTask, EnqueueTask, EnqueueDuplicate, MarkQueued, CancelRead, RetryRead,
     ReadTask, CancelDurable, CancelDelivery, RetryWrite, CallFails, durableVars
<1>2. ASSUME Execute
      PROVE  evidence \subseteq evidence' /\ revoked \subseteq revoked'
  <2>1. revoked' = revoked
    BY <1>2 DEF Execute, Proceed, ClaimDelivery, DropWithdrawn, planeVars, RecordClaim,
       HandlerRaises, OwnershipNoticed, HandlerReturns, RecordSuccess, AcknowledgeSuccess,
       AckReplyLost, RecordRefused, RecordInterrupted, RecordFailure, DispatchRetry,
       DispatchDeadLetter, DispatchAck, ExecutionCallFails, Renew, RenewalLost
  <2>2. evidence \subseteq evidence'
    BY <1>2 DEF Execute, Proceed, ClaimDelivery, DropWithdrawn, planeVars, RecordClaim,
       HandlerRaises, OwnershipNoticed, HandlerReturns, RecordSuccess, AcknowledgeSuccess,
       AckReplyLost, RecordRefused, RecordInterrupted, RecordFailure, DispatchRetry,
       DispatchDeadLetter, DispatchAck, ExecutionCallFails, Renew, RenewalLost, Interrupted,
       Recorded, durableVars
  <2> QED
    BY <2>1, <2>2
<1>3. ASSUME Operate
      PROVE  evidence \subseteq evidence' /\ revoked \subseteq revoked'
  BY <1>3 DEF Operate, WorkerCrashes, Shutdown, DrainCancels, Restart, LoopRestarts, durableVars
<1>4. evidence \subseteq evidence' /\ revoked \subseteq revoked'
  BY <1>1, <1>2, <1>3
  DEF PlaneNext, Maintain, DedupeEnds, RecoverLeases, RecoveryFails, planeVars, allVars, durableVars
<1> QED
  BY <1>4, EvidenceGrows DEF Accounted

LEMMA RevokedFirstStep ==
  ASSUME RevokedFirst, CallsSound, calls \in [Clients -> Call], [PlaneNext]_allVars
  PROVE  RevokedFirst'
<1> USE DEF RevokedFirst
<1>0. revoked \subseteq revoked'
  BY RecordsGrow
<1>1. ASSUME NEW c \in Clients, NEW t \in Tasks, CreateTask(c, t)
      PROVE  RevokedFirst'
  BY <1>0, <1>1 DEF CreateTask, vars
<1>2. ASSUME NEW c \in Clients, NEW t \in Tasks, CancelRead(c, t) \/ RetryRead(c, t)
      PROVE  RevokedFirst'
  <2>1. PICK pc \in {"cancelling", "retrying"} :
          calls' = [calls EXCEPT ![c] = [NoCall EXCEPT !.pc = pc, !.task = t]]
    BY <1>2 DEF CancelRead, RetryRead, ReadTask
  <2>2. [NoCall EXCEPT !.pc = pc, !.task = t].pc = pc
    BY DEF NoCall
  <2>3. cancelled' = cancelled
    BY <1>2 DEF CancelRead, RetryRead, ReadTask, vars
  <2> QED
    BY <1>0, <2>1, <2>2, <2>3
<1>3. ASSUME NEW c \in Clients, Returned(c), cancelled' \subseteq revoked'
      PROVE  RevokedFirst'
  <2>1. [NoCall EXCEPT !.pc = "returned"].pc = "returned"
    BY DEF NoCall
  <2> QED
    BY <1>0, <1>3, <2>1 DEF Returned
<1>4. ASSUME NEW c \in Clients, CancelDurable(c)
      PROVE  RevokedFirst'
  <2>1. calls' = [calls EXCEPT ![c].pc = "tombstoning"] /\ revoked' = revoked \cup {calls[c].task}
        /\ cancelled' = cancelled
    BY <1>4 DEF CancelDurable, vars
  <2>2. calls[c] \in Call
    OBVIOUS
  <2>3. calls'[c].task = calls[c].task /\ \A d \in Clients \ {c} : calls'[d] = calls[d]
    BY <2>1, <2>2 DEF Call
  <2> QED
    BY <2>1, <2>3
<1>5. ASSUME NEW c \in Clients, NEW m \in Messages, NEW p \in Priorities, EnqueueTask(c, m, p)
      PROVE  RevokedFirst'
  <2>1. calls' = [calls EXCEPT ![c].pc = "accepted"] /\ cancelled' = cancelled
    BY <1>5 DEF EnqueueTask, Enqueue
  <2>2. calls[c] \in Call
    OBVIOUS
  <2>3. calls'[c].pc = "accepted" /\ \A d \in Clients \ {c} : calls'[d] = calls[d]
    BY <2>1, <2>2 DEF Call
  <2> QED
    BY <1>0, <2>1, <2>3
<1>6. ASSUME NEW c \in Clients, NEW host \in Workers \cup {Nil}, CancelDelivery(c, host)
      PROVE  RevokedFirst'
  <2>1. calls[c].task \in revoked /\ Returned(c)
    BY <1>6 DEF CancelDelivery
  <2>2. cancelled' \subseteq cancelled \cup {calls[c].task}
    BY <1>6 DEF CancelDelivery, Cancel, vars
  <2> QED
    BY <1>0, <1>3, <2>1, <2>2
<1>7. ASSUME NEW c \in Clients, EnqueueDuplicate(c) \/ MarkQueued(c) \/ RetryWrite(c) \/ CallFails(c)
      PROVE  RevokedFirst'
  <2>1. Returned(c) /\ cancelled' = cancelled
    BY <1>7 DEF EnqueueDuplicate, MarkQueued, RetryWrite, CallFails, vars
  <2> QED
    BY <1>0, <1>3, <2>1
<1>8. CASE calls' = calls /\ cancelled' = cancelled
  BY <1>0, <1>8
<1> HIDE DEF RevokedFirst
<1>9. CASE Serve
  BY <1>1, <1>2, <1>4, <1>5, <1>6, <1>7, <1>9 DEF Serve
<1>10. CASE Execute
  <2>1. calls' = calls
    BY <1>10 DEF Execute, Proceed, ClaimDelivery, DropWithdrawn, planeVars, RecordClaim,
       HandlerRaises, OwnershipNoticed, HandlerReturns, RecordSuccess, AcknowledgeSuccess,
       AckReplyLost, RecordRefused, RecordInterrupted, RecordFailure, DispatchRetry,
       DispatchDeadLetter, DispatchAck, ExecutionCallFails, Renew, RenewalLost
  <2>2. cancelled' = cancelled
    BY <1>10 DEF Execute, Proceed, ClaimDelivery, Claim, DropWithdrawn, ClaimNone, RecordClaim,
       HandlerRaises, OwnershipNoticed, HandlerReturns, RecordSuccess, AcknowledgeSuccess,
       AckReplyLost, RecordRefused, RecordInterrupted, RecordFailure, DispatchRetry,
       DispatchDeadLetter, DispatchAck, ExecutionCallFails, Renew, RenewalLost, AckRefused,
       Acknowledge, RenewLease, ScheduleFailure, Finalize, vars
  <2> QED
    BY <1>8, <2>1, <2>2
<1>11. CASE Operate
  BY <1>8, <1>11 DEF Operate, WorkerCrashes, Shutdown, DrainCancels, Restart, LoopRestarts, vars
<1> QED
  BY <1>8, <1>9, <1>10, <1>11
  DEF PlaneNext, Maintain, LeaseExpires, DelayElapses, PromoteDue, DedupeEnds, DedupeExpires,
      RecoverLeases, Discover, ReadEnvelope, ReadLease, ReadDurable, RecoverRenewed, RecoverOne,
      RecoveryFails, RecoveryAborts, planeVars, allVars, vars

\* record_success, record_failure and cancel_task write a terminal row together
\* with what accounts for it.
LEMMA TerminalBackedStep ==
  ASSUME TypeOK, PlaneIInv, TerminalBacked, CallsSound, RevokedFirst, [PlaneNext]_allVars,
         taskState \in [Tasks -> DurableStates]
  PROVE  TerminalBacked' /\ taskState' \in [Tasks -> DurableStates]
<1>0. \A t : Accounted(t) => Accounted(t)'
  BY RecordsGrow
<1>1. ASSUME NEW t \in Tasks, NEW state \in DurableStates, Transition(t, state), passes' = passes,
             state \in Terminal => Accounted(t)'
      PROVE  TerminalBacked' /\ taskState' \in [Tasks -> DurableStates]
  BY <1>0, <1>1 DEF Transition, TerminalBacked
<1>2. ASSUME taskState' = taskState, passes' = passes
      PROVE  TerminalBacked' /\ taskState' \in [Tasks -> DurableStates]
  BY <1>0, <1>2 DEF TerminalBacked
<1>3. CASE Serve
  <2>1. passes' = passes
    BY <1>3 DEF Serve, CreateTask, EnqueueTask, Enqueue, EnqueueDuplicate, MarkQueued, CancelRead,
       RetryRead, ReadTask, CancelDurable, CancelDelivery, Cancel, RetryWrite, CallFails, vars
  <2>2. ASSUME NEW c \in Clients, NEW t \in Tasks, CreateTask(c, t)
        PROVE  TerminalBacked' /\ taskState' \in [Tasks -> DurableStates]
    <3>1. taskState' = [taskState EXCEPT ![t] = IF @ = "absent" THEN "received" ELSE @]
      BY <2>2 DEF CreateTask
    <3> QED
      BY <1>0, <2>1, <3>1 DEF TerminalBacked, DurableStates, Terminal
  <2>3. ASSUME NEW c \in Clients, MarkQueued(c) \/ RetryWrite(c)
        PROVE  TerminalBacked' /\ taskState' \in [Tasks -> DurableStates]
    <3>1. calls[c].task \in Tasks /\ Transition(calls[c].task, "queued")
      BY <2>3 DEF MarkQueued, RetryWrite, CallsSound
    <3> QED
      BY <1>1, <2>1, <3>1 DEF DurableStates, Terminal
  <2>4. ASSUME NEW c \in Clients, CancelDurable(c)
        PROVE  TerminalBacked' /\ taskState' \in [Tasks -> DurableStates]
    <3>1. calls[c].task \in Tasks /\ Transition(calls[c].task, "cancelled")
      BY <2>4 DEF CancelDurable, CallsSound
    <3>2. calls[c].task \in revoked'
      BY <2>4 DEF CancelDurable
    <3>3. PICK t \in Tasks : t = calls[c].task
      BY <3>1
    <3>4. Accounted(t)'
      BY <3>2, <3>3 DEF Accounted
    <3> QED
      BY <1>1, <2>1, <3>1, <3>3, <3>4 DEF DurableStates, Terminal
  <2> QED
    BY <1>2, <1>3, <2>1, <2>2, <2>3, <2>4
    DEF Serve, EnqueueTask, EnqueueDuplicate, CancelRead, RetryRead, ReadTask, CancelDelivery,
        CallFails, durableVars
<1>4. ASSUME NEW k \in Tokens, Proceed(k)
      PROVE  TerminalBacked' /\ taskState' \in [Tasks -> DurableStates]
  <2>1. PICK t \in Tasks : t = deliveries[k].env.task
    BY DeliveryType
  <2>2. passes' = passes /\ deliveries' = deliveries
    BY <1>4 DEF Proceed, RecordClaim, HandlerReturns, RecordSuccess, AcknowledgeSuccess,
       RecordRefused, RecordInterrupted, RecordFailure, DispatchRetry, DispatchDeadLetter,
       DispatchAck, AckRefused, Acknowledge, ScheduleFailure, Finalize, vars
  <2>3. CASE RecordClaim(k)
    <3>1. Transition(t, "executing") \/ taskState' = taskState
      BY <2>1, <2>3 DEF RecordClaim, durableVars
    <3> QED
      BY <1>1, <1>2, <2>2, <3>1 DEF DurableStates, Terminal
  <2>4. ASSUME NEW output \in Outputs, RecordSuccess(k, output)
        PROVE  TerminalBacked' /\ taskState' \in [Tasks -> DurableStates]
    <3>1. \/ taskState' = taskState
          \/ Transition(t, "completed") /\ evidence' = evidence \cup {<<t, "execution-result", output>>}
      BY <2>1, <2>4 DEF RecordSuccess, Recorded, Evidence, durableVars
    <3>2. CASE Transition(t, "completed") /\ evidence' = evidence \cup {<<t, "execution-result", output>>}
      <4>1. HasResult(t)'
        BY <3>2 DEF HasResult
      <4>2. Accounted(t)'
        BY <4>1 DEF Accounted
      <4> QED
        BY <1>1, <2>2, <3>2, <4>2 DEF DurableStates, Terminal
    <3> QED
      BY <1>2, <2>2, <3>1, <3>2
  <2>5. CASE RecordRefused(k) \/ RecordInterrupted(k)
    <3>1. \/ taskState' = taskState
          \/ taskState' = [taskState EXCEPT ![t] = IF @ \in Terminal THEN @ ELSE "queued"]
      BY <2>1, <2>5 DEF RecordRefused, RecordInterrupted, Interrupted, Requeued, durableVars
    <3>2. CASE taskState' = [taskState EXCEPT ![t] = IF @ \in Terminal THEN @ ELSE "queued"]
      BY <1>0, <2>2, <3>2 DEF TerminalBacked, DurableStates, Terminal
    <3> QED
      BY <1>2, <2>2, <3>1, <3>2
  <2>6. CASE RecordFailure(k)
    <3>1. \/ taskState' = taskState
          \/ Transition(t, "queued")
          \/ /\ Transition(t, "failed") /\ exec[k].failure = "permanent"
             /\ evidence' = evidence \cup {<<t, "execution-failure", exec[k].failure>>}
      BY <2>1, <2>6 DEF RecordFailure, Recorded, Evidence, durableVars, Retryable
    <3>2. CASE Transition(t, "failed") /\ exec[k].failure = "permanent"
               /\ evidence' = evidence \cup {<<t, "execution-failure", exec[k].failure>>}
      <4>1. HasFailure(t, "permanent")'
        BY <3>2 DEF HasFailure
      <4>2. Accounted(t)'
        BY <4>1 DEF Accounted
      <4> QED
        BY <1>1, <2>2, <3>2, <4>2 DEF DurableStates, Terminal
    <3> QED
      BY <1>1, <1>2, <2>2, <3>1, <3>2 DEF DurableStates, Terminal
  <2> QED
    BY <1>2, <1>4, <2>2, <2>3, <2>4, <2>5, <2>6
    DEF Proceed, HandlerReturns, AcknowledgeSuccess, DispatchRetry, DispatchDeadLetter, DispatchAck,
        durableVars
<1>5. ASSUME NEW w \in Workers, NEW p \in Priorities, ClaimDelivery(w, p)
      PROVE  TerminalBacked' /\ taskState' \in [Tasks -> DurableStates]
  <2>1. taskState' = taskState /\ \A r \in Recoverers : passes'[r] = [passes[r] EXCEPT !.due = @ \ {Head(ready[p]).mid}]
    BY <1>5 DEF ClaimDelivery, Claim, PassesOutrun, durableVars
  <2>2. \A r \in Recoverers : passes[r] \in Pass
    BY DEF TypeOK
  <2>3. \A r \in Recoverers : passes'[r].pc = passes[r].pc /\ passes'[r].terminal = passes[r].terminal
                              /\ passes'[r].env = passes[r].env
    BY <2>1, <2>2 DEF Pass
  <2> QED
    BY <1>0, <2>1, <2>3 DEF TerminalBacked
<1>6. ASSUME NEW k \in Tokens, Renew(k)
      PROVE  TerminalBacked' /\ taskState' \in [Tasks -> DurableStates]
  <2>1. taskState' = taskState /\ \A r \in Recoverers : passes'[r] = [passes[r] EXCEPT !.due = @ \ {deliveries[k].env.mid}]
    BY <1>6 DEF Renew, RenewLease, PassesOutrun, durableVars
  <2>2. \A r \in Recoverers : passes[r] \in Pass
    BY DEF TypeOK
  <2>3. \A r \in Recoverers : passes'[r].pc = passes[r].pc /\ passes'[r].terminal = passes[r].terminal
                              /\ passes'[r].env = passes[r].env
    BY <2>1, <2>2 DEF Pass
  <2> QED
    BY <1>0, <2>1, <2>3 DEF TerminalBacked
<1>7. CASE Execute
  <2>1. ASSUME NEW k \in Tokens,
             \/ \E f \in HandlerFailures \cup {"timeout"} : HandlerRaises(k, f)
             \/ OwnershipNoticed(k) \/ AckReplyLost(k) \/ ExecutionCallFails(k)
             \/ RenewalLost(k)
        PROVE  taskState' = taskState /\ passes' = passes
    BY <2>1 DEF HandlerRaises, OwnershipNoticed, AckReplyLost, ExecutionCallFails, RenewalLost,
       AckRefused, Acknowledge, durableVars, vars
  <2>2. DropWithdrawn => taskState' = taskState /\ passes' = passes
    BY DEF DropWithdrawn, ClaimNone, planeVars
  <2> QED
    BY <1>2, <1>4, <1>5, <1>6, <1>7, <2>1, <2>2 DEF Execute
<1>8. CASE Operate \/ (\E m \in Messages : Maintain(m)) \/ (\E t \in Tasks : DedupeEnds(t)) \/ UNCHANGED allVars
  <2>1. taskState' = taskState /\ passes' = passes
    BY <1>8 DEF Operate, WorkerCrashes, Shutdown, DrainCancels, Restart, LoopRestarts, Maintain, LeaseExpires,
       DelayElapses, PromoteDue, DedupeEnds, DedupeExpires, planeVars, allVars, durableVars, vars
  <2> QED
    BY <1>2, <2>1
<1>9. ASSUME NEW r \in Recoverers, RecoverLeases(r) \/ RecoveryFails(r)
      PROVE  TerminalBacked' /\ taskState' \in [Tasks -> DurableStates]
  <2>1. taskState' = taskState
    BY <1>9 DEF RecoverLeases, RecoveryFails, planeVars, durableVars
  <2>2. passes[r] \in Pass /\ passes \in [Recoverers -> Pass]
    BY DEF TypeOK
  <2>3. ASSUME NEW pass, passes' = [passes EXCEPT ![r] = pass],
               pass.pc = "script" /\ pass.terminal => pass.env # Nil /\ Accounted(pass.env.task)
        PROVE  TerminalBacked'
    BY <1>0, <2>1, <2>2, <2>3 DEF TerminalBacked
  <2>4. CASE ReadDurable(r, passes[r].env # Nil /\ taskState[passes[r].env.task] \in Terminal)
    <3> DEFINE terminal == passes[r].env # Nil /\ taskState[passes[r].env.task] \in Terminal
               pass == [passes[r] EXCEPT !.pc = "script", !.terminal = terminal]
    <3>1. passes' = [passes EXCEPT ![r] = pass]
      BY <2>2, <2>4 DEF ReadDurable
    <3>2. pass.env = passes[r].env /\ pass.terminal = terminal
      BY <2>2 DEF Pass
    <3>3. terminal => pass.env # Nil /\ Accounted(pass.env.task)
      <4>1. passes[r].env # Nil => passes[r].env.task \in Tasks
        BY <2>2 DEF Pass, Envelope
      <4> QED
        BY <3>2, <4>1 DEF TerminalBacked
    <3> HIDE DEF pass, terminal
    <3> QED
      BY <2>1, <2>3, <3>1, <3>2, <3>3
  <2>5. ASSUME NEW pass, passes' = [passes EXCEPT ![r] = pass], pass.pc # "script"
        PROVE  TerminalBacked'
    BY <2>3, <2>5
  <2>6. CASE Discover(r) \/ (\E m \in Messages : ReadEnvelope(r, m)) \/ ReadLease(r) \/ RecoveryAborts(r)
    <3>1. PICK pass : passes' = [passes EXCEPT ![r] = pass] /\ pass.pc # "script"
      <4>1. CASE Discover(r)
        <5>1. [IdlePass EXCEPT !.pc = "scan", !.todo = Expired, !.due = Expired].pc = "scan"
          BY DEF IdlePass
        <5> QED
          BY <4>1, <5>1 DEF Discover
      <4>2. ASSUME NEW m \in Messages, ReadEnvelope(r, m)
            PROVE  \E pass : passes' = [passes EXCEPT ![r] = pass] /\ pass.pc # "script"
        <5>1. [passes[r] EXCEPT !.pc = "lease", !.cur = m, !.env = inflight[m]].pc = "lease"
          BY <2>2 DEF Pass
        <5>2. passes' = [passes EXCEPT ![r] = [passes[r] EXCEPT !.pc = "lease", !.cur = m, !.env = inflight[m]]]
          BY <2>2, <4>2 DEF ReadEnvelope
        <5> QED
          BY <5>1, <5>2
      <4>3. CASE ReadLease(r)
        <5>1. PICK leased : passes' = [passes EXCEPT ![r] = [passes[r] EXCEPT !.pc = "durable", !.leased = leased]]
          BY <2>2, <4>3 DEF ReadLease
        <5>2. [passes[r] EXCEPT !.pc = "durable", !.leased = leased].pc = "durable"
          BY <2>2 DEF Pass
        <5> QED
          BY <5>1, <5>2
      <4>4. CASE RecoveryAborts(r)
        <5>1. IdlePass.pc = "idle"
          BY DEF IdlePass
        <5> QED
          BY <4>4, <5>1 DEF RecoveryAborts
      <4> QED
        BY <2>6, <4>1, <4>2, <4>3, <4>4
    <3> QED
      BY <2>1, <2>5, <3>1
  <2>7. CASE RecoverRenewed(r) \/ RecoverOne(r)
    <3>1. CandidateDone(r)
      BY <2>7 DEF RecoverRenewed, RecoverOne
    <3>2. PICK pass : passes' = [passes EXCEPT ![r] = pass] /\ pass.pc # "script"
      <4> DEFINE rest == passes[r].todo \ {passes[r].cur}
                 more == [IdlePass EXCEPT !.pc = "scan", !.todo = rest, !.due = @ \cup passes[r].due]
      <4>1. IdlePass.pc = "idle" /\ more.pc = "scan"
        BY DEF IdlePass
      <4>2. passes' = [passes EXCEPT ![r] = IdlePass] \/ passes' = [passes EXCEPT ![r] = more]
        BY <3>1 DEF CandidateDone
      <4> QED
        BY <4>1, <4>2
    <3> QED
      BY <2>1, <2>5, <3>2
  <2> QED
    BY <1>9, <2>1, <2>4, <2>6, <2>7 DEF RecoverLeases, RecoveryFails
<1> QED
  BY <1>3, <1>7, <1>8, <1>9 DEF PlaneNext

\* Executions start to settle, and deliveries are acknowledged, in these
\* actions only.
LEMMA SettlingFrom ==
  ASSUME TypeOK, PlaneIInv, [PlaneNext]_allVars, NEW k \in Tokens'
  PROVE  /\ exec'[k].pc = "settling" =>
              /\ k \in Tokens
              /\ exec[k].pc = "settling" \/ DispatchRetry(k) \/ DispatchDeadLetter(k)
         /\ k \in acked' \ acked => /\ k \in Tokens /\ Acknowledge(k)
                                    /\ exec[k].pc \in {"acking", "settling"}
<1> DEFINE Settles1 == exec'[k].pc = "settling" =>
                         /\ k \in Tokens
                         /\ exec[k].pc = "settling" \/ DispatchRetry(k) \/ DispatchDeadLetter(k)
           Acks1 == k \in acked' \ acked => /\ k \in Tokens /\ Acknowledge(k)
                                            /\ exec[k].pc \in {"acking", "settling"}
<1> SUFFICES Settles1 /\ Acks1
  OBVIOUS
<1>0. /\ deliveries \in Seq(Delivery) /\ Tokens \subseteq 1 .. MaxClaims
      /\ exec \in [1 .. MaxClaims -> Execution] /\ \A j \in 1 .. MaxClaims : exec[j] \in Execution
      /\ acked \subseteq Tokens
  BY ConstantsAssumption DEF TypeOK, PlaneIInv
<1>1. ASSUME deliveries' = deliveries, acked' = acked,
             \A j \in Tokens : exec'[j].pc = exec[j].pc \/ exec'[j].pc # "settling"
      PROVE  Settles1 /\ Acks1
  BY <1>1
<1>2. ASSUME NEW j \in Tokens, NEW pc \in Stages \ {"settling"}, GoTo(j, pc), deliveries' = deliveries, acked' = acked
      PROVE  Settles1 /\ Acks1
  <2>1. exec'[j].pc = pc /\ \A i \in (1 .. MaxClaims) \ {j} : exec'[i] = exec[i]
    BY <1>0, <1>2, MoveShapes
  <2> QED
    BY <1>0, <1>1, <1>2, <2>1
<1>3. ASSUME NEW j \in Tokens, NEW f \in Failures, Fails(j, f), deliveries' = deliveries,
             acked' = acked \/ (acked' = acked \cup {j} /\ Acknowledge(j) /\ exec[j].pc = "acking")
      PROVE  Settles1 /\ Acks1
  <2>1. exec'[j].pc = "failing" /\ \A i \in (1 .. MaxClaims) \ {j} : exec'[i] = exec[i]
    BY <1>0, <1>3, MoveShapes
  <2> QED
    BY <1>0, <1>3, <2>1
<1>4. ASSUME NEW j \in Tokens, Ended(j), deliveries' = deliveries,
             \/ acked' = acked
             \/ acked' = acked \cup {j} /\ Acknowledge(j) /\ exec[j].pc \in {"acking", "settling"}
      PROVE  Settles1 /\ Acks1
  <2>1. exec'[j].pc = "done" /\ \A i \in (1 .. MaxClaims) \ {j} : exec'[i] = exec[i]
    BY <1>0, <1>4, MoveShapes
  <2> QED
    BY <1>0, <1>4, <2>1
<1>5. ASSUME NEW j \in Tokens, DispatchRetry(j) \/ DispatchDeadLetter(j)
      PROVE  Settles1 /\ Acks1
  <2>1. PICK pc \in {"burying", "settling"} :
          GoTo(j, pc) /\ deliveries' = deliveries /\ acked' = acked
    BY <1>5 DEF DispatchRetry, DispatchDeadLetter, ScheduleFailure, Finalize, vars
  <2>2. \A i \in (1 .. MaxClaims) \ {j} : exec'[i] = exec[i]
    BY <1>0, <2>1, MoveShapes DEF Stages
  <2> QED
    BY <1>0, <1>5, <2>1, <2>2
<1> HIDE DEF Settles1, Acks1
<1>6. ASSUME NEW j \in Tokens, Proceed(j)
      PROVE  Settles1 /\ Acks1
  <2> USE DEF At
  <2>1. CASE RecordClaim(j) \/ HandlerReturns(j)
    <3>1. /\ deliveries' = deliveries /\ acked' = acked
          /\ \/ GoTo(j, "running") \/ GoTo(j, "interrupting") \/ GoTo(j, "succeeding")
             \/ Fails(j, "terminal") \/ Fails(j, "integrity")
      BY <2>1 DEF RecordClaim, HandlerReturns, vars
    <3> QED
      BY <1>2, <1>3, <3>1 DEF Stages, Failures
  <2>2. ASSUME NEW output \in Outputs, RecordSuccess(j, output)
        PROVE  Settles1 /\ Acks1
    <3>1. /\ deliveries' = deliveries /\ acked' = acked
          /\ GoTo(j, "acking") \/ Fails(j, "terminal") \/ Fails(j, "integrity")
      BY <2>2 DEF RecordSuccess, vars
    <3> QED
      BY <1>2, <1>3, <3>1 DEF Stages, Failures
  <2>3. CASE AcknowledgeSuccess(j)
    <3>1. CASE Acknowledge(j) /\ Ended(j)
      BY <1>4, <2>3, <3>1 DEF AcknowledgeSuccess, Acknowledge
    <3>2. CASE AckRefused(j) /\ GoTo(j, "refused")
      BY <1>2, <3>2 DEF AckRefused, vars, Stages
    <3> QED
      BY <2>3, <3>1, <3>2 DEF AcknowledgeSuccess
  <2>4. CASE RecordRefused(j) \/ RecordInterrupted(j) \/ RecordFailure(j)
    <3>1. /\ deliveries' = deliveries /\ acked' = acked
          /\ Ended(j) \/ Fails(j, "integrity") \/ GoTo(j, "scheduling")
      BY <2>4 DEF RecordRefused, RecordInterrupted, RecordFailure, Interrupted, vars
    <3> QED
      BY <1>2, <1>3, <1>4, <3>1 DEF Stages, Failures
  <2>5. CASE DispatchAck(j)
    <3>1. CASE Acknowledge(j)
      BY <1>4, <2>5, <3>1 DEF DispatchAck, Acknowledge
    <3>2. CASE AckRefused(j)
      BY <1>4, <2>5, <3>2 DEF DispatchAck, AckRefused, vars
    <3> QED
      BY <2>5, <3>1, <3>2 DEF DispatchAck
  <2> QED
    BY <1>5, <1>6, <2>1, <2>2, <2>3, <2>4, <2>5 DEF Proceed
<1>7. ASSUME NEW w \in Workers, NEW p \in Priorities, ClaimDelivery(w, p)
      PROVE  Settles1 /\ Acks1
  <2>1. /\ Len(deliveries) < MaxClaims /\ Len(deliveries) \in Nat /\ acked' = acked
        /\ deliveries' = Append(deliveries, [env |-> Head(ready[p]), worker |-> w])
    BY <1>0, <1>7 DEF ClaimDelivery, Claim
  <2>2. PICK n \in Nat : n = Len(deliveries) + 1
    BY <2>1
  <2>3. Len(deliveries') = n /\ n \in 1 .. MaxClaims /\ Tokens' = Tokens \cup {n}
    BY <1>0, <2>1, <2>2, ConstantsAssumption
  <2>4. exec' = [exec EXCEPT ![n] = [exec[n] EXCEPT !.pc = "claimed", !.renewing = TRUE]]
    BY <1>0, <1>7, <2>3 DEF ClaimDelivery
  <2>5. [exec[n] EXCEPT !.pc = "claimed", !.renewing = TRUE].pc = "claimed"
    BY <1>0, <2>3 DEF Execution
  <2>6. exec'[n].pc = "claimed" /\ \A j \in Tokens : j # n => exec'[j] = exec[j]
    BY <1>0, <2>3, <2>4, <2>5
  <2> QED
    BY <2>1, <2>3, <2>6 DEF Settles1, Acks1
<1>8. CASE Execute
  <2>1. ASSUME NEW j \in Tokens, NEW f \in HandlerFailures \cup {"timeout", "ownership"}, HandlerRaises(j, f)
        PROVE  Settles1 /\ Acks1
    <3>1. f \in Failures
      BY PlaneAssumption DEF Failures
    <3> QED
      BY <1>3, <2>1, <3>1 DEF HandlerRaises, vars
  <2>2. ASSUME NEW j \in Tokens, AckReplyLost(j)
        PROVE  Settles1 /\ Acks1
    BY <1>3, <2>2 DEF AckReplyLost, Acknowledge, Failures, At
  <2>3. ASSUME NEW j \in Tokens, ExecutionCallFails(j)
        PROVE  Settles1 /\ Acks1
    <3>1. deliveries' = deliveries /\ acked' = acked /\ (Ended(j) \/ Fails(j, "infrastructure"))
      BY <2>3 DEF ExecutionCallFails, vars
    <3> QED
      BY <1>3, <1>4, <3>1 DEF Failures
  <2>4. ASSUME NEW j \in Tokens, Renew(j) \/ RenewalLost(j)
        PROVE  Settles1 /\ Acks1
    <3>1. deliveries' = deliveries /\ acked' = acked
      BY <2>4 DEF Renew, RenewLease, RenewalLost, AckRefused, vars
    <3>2. exec[j] \in Execution
      BY <1>0
    <3>3. CASE Renew(j)
      <4>1. exec' = [exec EXCEPT ![j].renewing = ~ exec[j].stop]
        BY <3>3 DEF Renew
      <4>2. \A i \in Tokens : exec'[i].pc = exec[i].pc
        BY <1>0, <3>2, <4>1 DEF Execution
      <4> QED
        BY <1>1, <3>1, <4>2
    <3>4. CASE RenewalLost(j)
      <4>1. exec' = [exec EXCEPT ![j].lost = TRUE, ![j].stop = TRUE, ![j].renewing = FALSE]
        BY <3>4 DEF RenewalLost
      <4>2. \A i \in Tokens : exec'[i].pc = exec[i].pc
        BY <1>0, <3>2, <4>1 DEF Execution
      <4> QED
        BY <1>1, <3>1, <4>2
    <3> QED
      BY <2>4, <3>3, <3>4
  <2>5. CASE DropWithdrawn
    BY <1>1, <2>5 DEF DropWithdrawn, ClaimNone, planeVars
  <2> QED
    BY <1>6, <1>7, <1>8, <2>1, <2>2, <2>3, <2>4, <2>5 DEF Execute, OwnershipNoticed
<1>9. CASE Operate
  <2>1. deliveries' = deliveries /\ acked' = acked
    BY <1>9 DEF Operate, WorkerCrashes, Shutdown, DrainCancels, Restart, LoopRestarts, vars
  <2>2. ASSUME NEW w \in Workers, WorkerCrashes(w) \/ Restart(w)
        PROVE  Settles1 /\ Acks1
    <3>1. exec' = [j \in DOMAIN exec |->
                     IF j \in Tokens /\ deliveries[j].worker = w
                       THEN [exec[j] EXCEPT !.pc = "done", !.renewing = FALSE] ELSE exec[j]]
      BY <2>2 DEF WorkerCrashes, Restart
    <3>2. \A j \in Tokens : exec'[j].pc = exec[j].pc \/ exec'[j].pc = "done"
      BY <1>0, <3>1 DEF Execution
    <3> QED
      BY <1>1, <2>1, <3>2
  <2>3. ASSUME NEW w \in Workers, Shutdown(w)
        PROVE  Settles1 /\ Acks1
    BY <1>1, <2>1, <2>3 DEF Shutdown
  <2>4. ASSUME NEW w \in Workers, NEW j \in Tokens, DrainCancels(w, j)
        PROVE  Settles1 /\ Acks1
    <3>1. GoTo(j, "interrupting") \/ Ended(j)
      BY <2>4 DEF DrainCancels
    <3> QED
      BY <1>2, <1>4, <2>1, <3>1 DEF Stages
  <2>5. ASSUME NEW r \in Recoverers, LoopRestarts(r)
        PROVE  Settles1 /\ Acks1
    BY <1>1, <2>1, <2>5 DEF LoopRestarts
  <2> QED
    BY <1>9, <2>2, <2>3, <2>4, <2>5 DEF Operate
<1>10. ASSUME NEW c \in Clients, NEW host \in Workers \cup {Nil}, CancelDelivery(c, host)
       PROVE  Settles1 /\ Acks1
  <2>1. PICK signalled :
          exec' = [j \in DOMAIN exec |-> IF j = signalled THEN [exec[j] EXCEPT !.stop = TRUE]
                                                          ELSE exec[j]]
    BY <1>10 DEF CancelDelivery
  <2>2. \A j \in 1 .. MaxClaims : exec'[j].pc = exec[j].pc
    BY <1>0, <2>1 DEF Execution
  <2>3. deliveries' = deliveries /\ acked' = acked
    BY <1>10 DEF CancelDelivery, Cancel, vars
  <2> QED
    BY <1>0, <1>1, <2>2, <2>3
<1>11. ASSUME exec' = exec, deliveries' = deliveries, acked' = acked
       PROVE  Settles1 /\ Acks1
  BY <1>1, <1>11
<1>12. CASE Serve
  BY <1>10, <1>11, <1>12
  DEF Serve, CreateTask, EnqueueTask, Enqueue, EnqueueDuplicate, MarkQueued, CancelRead, RetryRead,
      ReadTask, CancelDurable, RetryWrite, CallFails, processVars, vars
<1>13. CASE UNCHANGED allVars
  BY <1>11, <1>13 DEF allVars, planeVars, vars
<1> QED
  BY <1>8, <1>9, <1>11, <1>12, <1>13
  DEF PlaneNext, Maintain, LeaseExpires, DelayElapses, PromoteDue, DedupeEnds, DedupeExpires,
      RecoverLeases, Discover, ReadEnvelope, ReadLease, ReadDurable, RecoverRenewed, RecoverOne,
      RecoveryFails, RecoveryAborts, processVars, planeVars

\* A worker acknowledges a failed delivery only while a copy of its message
\* waits elsewhere, and nobody else can take that copy under its lease.
LEMMA SettlingHeldStep ==
  ASSUME IInv, TaskIndexSound, PlaneIInv, SettlingHeld, [Next]_vars, [PlaneNext]_allVars
  PROVE  SettlingHeld'
<1>0. TypeOK
  BY DEF IInv
<1> SUFFICES ASSUME NEW k \in Tokens', exec'[k].pc = "settling", Owns(k)',
                    (deliveries[k].env.task \notin cancelled)'
             PROVE  Held(deliveries[k].env.mid)'
  BY DEF SettlingHeld
<1>1. /\ k \in Tokens
      /\ exec[k].pc = "settling" \/ DispatchRetry(k) \/ DispatchDeadLetter(k)
  BY <1>0, SettlingFrom
<1>2. deliveries'[k] = deliveries[k]
  BY <1>0, <1>1, DeliveriesKept
<1>3. PICK m \in Messages : m = deliveries[k].env.mid
  BY <1>0, <1>1, DeliveryType
<1>4. SUFFICES Held(m)'
  BY <1>2, <1>3 DEF Held, InReady
<1>5. CASE exec[k].pc = "settling"
  <2>1. Owns(k) /\ (Held(deliveries[k].env.mid) => Held(deliveries[k].env.mid)')
    BY <1>1, <1>2, HeldKept
  <2>2. deliveries[k].env.task \notin cancelled
    BY <1>2, TombstonesKept
  <2>3. Held(deliveries[k].env.mid)'
    BY <1>1, <1>5, <2>1, <2>2 DEF SettlingHeld
  <2> QED
    BY <1>2, <1>3, <2>3 DEF Held, InReady
<1>6. CASE DispatchRetry(k) /\ exec[k].pc # "settling"
  <2>1. CASE ScheduleFailure(k)
    <3>1. NextAttempt(deliveries[k].env) # Nil
      BY <1>0, <1>1, DeliveryType, NextAttemptType, NilAssumption
    <3>2. delayed'[m] # Nil
      BY <1>0, <1>3, <2>1, <3>1 DEF ScheduleFailure, TypeOK
    <3> QED
      BY <3>2 DEF Held
  <2>2. CASE UNCHANGED vars
    <3>1. k \in 1 .. MaxClaims /\ exec \in [1 .. MaxClaims -> Execution]
      BY <1>0, <1>1, ConstantsAssumption DEF PlaneIInv, TypeOK
    <3>2. GoTo(k, "burying") => exec'[k].pc = "burying"
      BY <3>1, MoveShapes DEF Stages
    <3>3. deliveries[k].env.task \in cancelled \/ delayed[m] # Nil
      BY <1>3, <1>6, <2>2, <3>2 DEF DispatchRetry, ScheduleFailure, vars
    <3>4. delayed'[m] # Nil
      BY <2>2, <3>3 DEF vars
    <3> QED
      BY <3>4 DEF Held
  <2> QED
    BY <1>6, <2>1, <2>2 DEF DispatchRetry
<1>7. CASE DispatchDeadLetter(k) /\ exec[k].pc # "settling"
  <2> DEFINE letter == [env |-> deliveries[k].env, eligible |-> Retryable(exec[k].failure),
                        approval |-> "pending", replayed |-> Nil]
  <2>1. letter # Nil
    <3>1. Retryable(exec[k].failure) \in BOOLEAN
      BY DEF Retryable
    <3> QED
      BY <1>0, <1>1, <3>1, DeliveryType, DeadLetterType, NilAssumption
  <2>2. dlq'[m] # Nil
    BY <1>0, <1>3, <1>7, <2>1 DEF DispatchDeadLetter, Finalize, TypeOK, vars
  <2> QED
    BY <2>2 DEF Held
<1> QED
  BY <1>1, <1>5, <1>6, <1>7

\* What leaves the queue for good is accounted for.
LEMMA ForgottenStep ==
  ASSUME IInv, TaskIndexSound, PlaneIInv, RevokedFirst', TerminalBacked, SettlingHeld,
         NothingForgotten, [NoMessageLostStep]_vars, [Next]_vars, [PlaneNext]_allVars
  PROVE  NothingForgotten'
<1>0. TypeOK
  BY DEF IInv
<1> SUFFICES ASSUME NEW m \in Messages, issued'[m] # Nil, ~ Located(m)', issued'[m].snap = "live"
             PROVE  Accounted(issued[m].task)'
  BY DEF NothingForgotten, Accounted
<1>1. \A t : Accounted(t) => Accounted(t)'
  BY RecordsGrow
<1>2. issued[m] # Nil /\ issued'[m] = issued[m]
  BY IssuedOnce DEF Located
<1>3. PICK t : t = issued[m].task
  OBVIOUS
<1>4. SUFFICES Accounted(t)'
  BY <1>2, <1>3 DEF Accounted, HasResult, HasFailure
<1>5. CASE ~ Located(m)
  BY <1>1, <1>2, <1>3, <1>5 DEF NothingForgotten, Accounted
<1>6. CASE Located(m)
  <2>1. vars' # vars
    BY <1>6 DEF vars, Located, InReady
  <2>2. MayVanish(m)
    BY <1>6, <2>1 DEF NoMessageLostStep
  <2>3. CASE t \in cancelled'
    BY <2>3 DEF RevokedFirst, Accounted
  <2>4. ASSUME NEW k \in acked' \ acked, deliveries[k].env.mid = m
        PROVE  Accounted(t)'
    <3>1. k \in Tokens' /\ k \in Tokens /\ Acknowledge(k) /\ exec[k].pc \in {"acking", "settling"}
      <4>1. acked' \subseteq Tokens'
        BY <1>0, NextIInv DEF IInv, TypeOK
      <4> QED
        BY <1>0, <2>4, <4>1, SettlingFrom
    <3>2. deliveries[k].env.task = t
      BY <1>3, <2>4, <3>1 DEF IInv, CopiesAgree, DeliveredAgree, Genuine
    <3>3. CASE exec[k].pc = "acking"
      <4>1. HasResult(t)
        BY <3>1, <3>2, <3>3 DEF PlaneIInv, ExecutionSound, ResultRecorded
      <4> QED
        BY <1>1, <4>1 DEF Accounted
    <3>4. CASE exec[k].pc = "settling"
      <4>1. Held(m)
        BY <2>4, <3>1, <3>4 DEF SettlingHeld, Acknowledge
      <4>2. Located(m)'
        BY <3>1, <4>1 DEF Acknowledge, Held, Located, InReady
      <4> QED
        BY <4>2
    <3> QED
      BY <3>1, <3>3, <3>4
  <2>5. ASSUME NEW r \in Recoverers, passes[r].pc = "script", passes[r].cur = m, passes[r].terminal
        PROVE  Accounted(t)'
    <3>1. passes[r].env # Nil /\ Accounted(passes[r].env.task)
      BY <2>5 DEF TerminalBacked
    <3>2. passes[r].env.task = t
      BY <1>3, <2>5, <3>1 DEF IInv, PassesSound, PassSound, Genuine
    <3> QED
      BY <1>1, <3>1, <3>2
  <2> QED
    BY <1>2, <1>3, <2>2, <2>3, <2>4, <2>5 DEF MayVanish
<1> QED
  BY <1>5, <1>6

AccountInv ==
  /\ RevokedFirst /\ TerminalBacked /\ taskState \in [Tasks -> DurableStates]
  /\ SettlingHeld /\ NothingForgotten

\* No submitted task disappears without a trace, for any number of tasks,
\* workers, recoveries, calls and faults: a message that is in none of the
\* Redis structures any more has a result, a permanent failure or a
\* cancellation of its task in PostgreSQL.
THEOREM NothingForgottenAlways ==
  ASSUME EnqueueStates = SnapshotStates
  PROVE  PlaneSpec => []NothingForgotten
<1>1. PlaneInit => AccountInv
  <2> SUFFICES ASSUME PlaneInit PROVE AccountInv
    OBVIOUS
  <2>1. Tokens = {}
    BY DEF PlaneInit, Init
  <2> QED
    BY <2>1 DEF PlaneInit, Init, AccountInv, RevokedFirst, TerminalBacked, SettlingHeld,
       NothingForgotten, NoCall, IdlePass, DurableStates, Terminal
<1>2. /\ IInv /\ TaskIndexSound /\ PlaneIInv /\ CallsSound /\ calls \in [Clients -> Call]
      /\ AccountInv /\ [NoMessageLostStep]_vars /\ [Next]_vars /\ [PlaneNext]_allVars
      => AccountInv'
  <2> SUFFICES ASSUME IInv, TaskIndexSound, PlaneIInv, CallsSound, calls \in [Clients -> Call],
                      AccountInv, [NoMessageLostStep]_vars, [Next]_vars, [PlaneNext]_allVars
               PROVE  AccountInv'
    OBVIOUS
  <2>0. /\ TypeOK /\ RevokedFirst /\ TerminalBacked /\ taskState \in [Tasks -> DurableStates]
        /\ SettlingHeld /\ NothingForgotten
    BY DEF IInv, AccountInv
  <2>1. RevokedFirst'
    BY <2>0, RevokedFirstStep
  <2>2. TerminalBacked' /\ taskState' \in [Tasks -> DurableStates]
    BY <2>0, TerminalBackedStep
  <2>3. SettlingHeld'
    BY <2>0, SettlingHeldStep
  <2>4. NothingForgotten'
    BY <2>0, <2>1, ForgottenStep
  <2> QED
    BY <2>1, <2>2, <2>3, <2>4 DEF AccountInv
<1>3. AccountInv => NothingForgotten
  BY DEF AccountInv
<1> QED
  BY <1>1, <1>2, <1>3, PlaneUsesQueue, PlaneIInvAlways, CallsSoundAlways, Inductive,
     TaskIndexAlways, NoMessageLostAlways, PTL
  DEF PlaneSpec, NoMessageLost, Spec
=============================================================================
