----------------------------- MODULE RedisQueue -----------------------------
(***************************************************************************)
(* The Redis delivery coordinator of src/mezo_control_plane/queue: four    *)
(* priority lists, the inflight and lease hashes with the lease-expiry     *)
(* index, delayed retries with their due index, the dead-letter hash, the  *)
(* cancellation tombstones and the deduplication keys.                     *)
(*                                                                         *)
(* Every Lua script is one atomic action.  Operations that make several    *)
(* Redis calls (lease recovery, replay approval, replay) are one action    *)
(* per call, with the values read so far kept in the caller's state.       *)
(*                                                                         *)
(* Clients are as general as the interface allows: a worker may renew or   *)
(* acknowledge any delivery it was ever handed, and reschedule or          *)
(* dead-letter it once, at any time, also after its lease was lost.        *)
(*                                                                         *)
(* Time.  A lease deadline and a retry's due time are "running" until the  *)
(* environment lets them pass.  A recovery pass reads the clock once; the  *)
(* leases it may take are those whose deadline had passed at that reading. *)
(* A claim or a renewal writes a deadline one visibility period in the     *)
(* future, later than any clock reading taken before it (visibility is     *)
(* assumed to exceed clock skew plus the latency of one call).             *)
(***************************************************************************)
EXTENDS Integers, Sequences

CONSTANTS
  Tasks,            \* task identities
  Messages,         \* message identities (uuid4, so the supply is the bound)
  Workers,          \* consumers
  Recoverers,       \* processes running LeaseRecovery.recover_expired
  Operators,        \* administrators approving and replaying dead letters
  LowestPriority,   \* priorities are 0 (critical) .. LowestPriority
  EnqueueStates,    \* states of the task snapshots handed to the producer
  MaximumAttempts,  \* RetryPolicy.maximum_attempts
  MaxClaims,        \* bound: deliveries made in a behaviour
  Nil

SnapshotStates == {"live", "completed", "failed", "cancelled"}

ASSUME ConstantsAssumption ==
  /\ LowestPriority \in Nat
  /\ MaximumAttempts \in Nat \ {0}
  /\ MaxClaims \in Nat
  /\ EnqueueStates \subseteq SnapshotStates

Priorities == 0 .. LowestPriority

\* A queue message: the JSON envelope of TaskProducer.enqueue.  "snap" is the
\* state inside its task_json; every non-terminal state is "live".
Envelope == [mid: Messages, task: Tasks, snap: SnapshotStates,
             prio: Priorities, attempt: Nat]

\* ClaimedTask: what a worker was handed.  The owner token is the delivery's
\* index in the sequence of deliveries (a fresh uuid per claim in the code).
Delivery == [env: Envelope, worker: Workers]

Lease == [token: Nat \ {0}, worker: Workers, task: Tasks]

\* A DeadLetterRecord.  The hash is keyed by message id.
DeadLetter == [env: Envelope, eligible: BOOLEAN,
               approval: {"pending", "approved", "denied"},
               replayed: Messages \cup {Nil}]

\* The payload "{}" that _recover_one sends when it read no envelope or lease.
EmptyPayload == [mid |-> Nil, task |-> Nil, snap |-> Nil, prio |-> Nil, attempt |-> 0]

\* A message's identity at the moment it was first pushed.
Identity == [task: Tasks, snap: SnapshotStates, prio: Priorities,
             origin: Messages \cup {Nil}]

\* One call of recover_expired: the candidates still to do, the leases whose
\* deadline its clock reading had passed, and what it read of the current one.
Pass == [pc: {"idle", "scan", "lease", "durable", "script"}, todo: SUBSET Messages,
         due: SUBSET Messages, cur: Messages \cup {Nil}, env: Envelope \cup {Nil},
         leased: BOOLEAN, terminal: BOOLEAN]

IdlePass == [pc |-> "idle", todo |-> {}, due |-> {}, cur |-> Nil,
             env |-> Nil, leased |-> FALSE, terminal |-> FALSE]

\* One call of approve_replay or replay, with the record it read.
Operation == [pc: {"idle", "approving", "replaying"}, mid: Messages \cup {Nil},
              record: DeadLetter \cup {Nil}, verdict: {"pending", "approved", "denied"}]

IdleOperator == [pc |-> "idle", mid |-> Nil, record |-> Nil, verdict |-> "pending"]

\* Nothing in the hashes is mistaken for a missing entry.
ASSUME NilAssumption ==
  /\ Nil \notin Messages \cup Tasks
  /\ Nil \notin Envelope
  /\ Nil \notin Lease
  /\ Nil \notin DeadLetter
  /\ Nil \notin Identity
  /\ Nil # EmptyPayload

VARIABLES
  ready,        \* ready:<priority> lists
  inflight,     \* inflight hash
  leases,       \* leases hash
  leaseExpiry,  \* lease-expiry index: "none", "running" or "passed"
  delayed,      \* delayed hash (the retry's envelope)
  delayedDue,   \* delayed-due index: "none", "waiting" or "due"
  dlq,          \* dlq hash
  dlqTaskIndex, \* dlq-task-index hash
  taskIndex,    \* task-index hash
  dedupe,       \* dedupe:<key> strings, one key per task
  cancelled,    \* cancelled set (tombstones)
  deliveries,   \* every ClaimedTask handed out, in order
  acked,        \* tokens whose acknowledge returned True
  dispatched,   \* tokens whose failure was rescheduled or dead-lettered
  issued,       \* identity under which each message id was first pushed
  passes,       \* recovery passes in progress
  operators     \* approvals and replays in progress

indexVars == <<taskIndex, dedupe>>
ingressVars == <<taskIndex, dedupe, issued>>
leaseVars == <<inflight, leases, leaseExpiry>>
retryVars == <<delayed, delayedDue>>
deadVars == <<dlq, dlqTaskIndex>>
workerVars == <<deliveries, acked, dispatched>>
vars == <<ready, inflight, leases, leaseExpiry, delayed, delayedDue, dlq,
          dlqTaskIndex, taskIndex, dedupe, cancelled, deliveries, acked,
          dispatched, issued, passes, operators>>

Init ==
  /\ ready = [p \in Priorities |-> <<>>]
  /\ inflight = [m \in Messages |-> Nil]
  /\ leases = [m \in Messages |-> Nil]
  /\ leaseExpiry = [m \in Messages |-> "none"]
  /\ delayed = [m \in Messages |-> Nil]
  /\ delayedDue = [m \in Messages |-> "none"]
  /\ dlq = [m \in Messages |-> Nil]
  /\ dlqTaskIndex = [t \in Tasks |-> Nil]
  /\ taskIndex = [t \in Tasks |-> Nil]
  /\ dedupe = [t \in Tasks |-> Nil]
  /\ cancelled = {}
  /\ deliveries = <<>>
  /\ acked = {}
  /\ dispatched = {}
  /\ issued = [m \in Messages |-> Nil]
  /\ passes = [r \in Recoverers |-> IdlePass]
  /\ operators = [o \in Operators |-> IdleOperator]

-----------------------------------------------------------------------------
(* Producer                                                                *)

\* A push onto the tail of a priority list.
Pushed(p, env) == [ready EXCEPT ![p] = Append(@, env)]

\* enqueue of task t at priority p: nothing but a metric changes while the
\* dedupe key lives, otherwise key, task index and message appear together.
Enqueue(t, m, p, s) ==
  /\ issued[m] = Nil
  /\ dedupe[t] = Nil
  /\ dedupe' = [dedupe EXCEPT ![t] = m]
  /\ taskIndex' = [taskIndex EXCEPT ![t] = m]
  /\ ready' = Pushed(p, [mid |-> m, task |-> t, snap |-> s, prio |-> p, attempt |-> 0])
  /\ issued' = [issued EXCEPT ![m] = [task |-> t, snap |-> s, prio |-> p, origin |-> Nil]]
  /\ UNCHANGED <<leaseVars, retryVars, deadVars, cancelled, workerVars, passes, operators>>

\* The dedupe key's 86400 second expiry.
DedupeExpires(t) ==
  /\ dedupe[t] # Nil
  /\ dedupe' = [dedupe EXCEPT ![t] = Nil]
  /\ UNCHANGED <<ready, leaseVars, retryVars, deadVars, taskIndex, cancelled, workerVars,
                 issued, passes, operators>>

-----------------------------------------------------------------------------
(* Consumer                                                                *)

\* Mutant of Withdrawn: the tombstone is not consulted.
WithdrawnByState(env) == env.snap # "live"

\* What the claim, promotion and recovery scripts refuse to deliver.
Withdrawn(env) == env.task \in cancelled \/ env.snap # "live"

Backlog == {p \in Priorities : ready[p] # <<>>}
Deliverable == {p \in Backlog : ~ Withdrawn(Head(ready[p]))}

\* The script pops one head per priority, most urgent first, until one is
\* deliverable; popped heads that are withdrawn lose their delivery records.
PopHeads(popped) ==
  ready' = [p \in Priorities |-> IF p \in popped THEN Tail(ready[p]) ELSE ready[p]]

HeadsDropped(popped) == {Head(ready[p]).mid : p \in popped}

\* Mutant of PassesOutrun: the recovery script does not recheck the score.
PassesUnaware(m) == passes

\* Passes whose captured clock reading precedes a deadline just written.
PassesOutrun(m) == [r \in Recoverers |-> [passes[r] EXCEPT !.due = @ \ {m}]]

\* claim returning the head of priority p to worker w.
Claim(w, p) ==
  /\ Len(deliveries) < MaxClaims
  /\ p \in Deliverable
  /\ \A q \in Deliverable : p <= q
  /\ LET env == Head(ready[p])
         m == env.mid
         token == Len(deliveries) + 1
         dropped == HeadsDropped({q \in Backlog : q < p})
     IN /\ PopHeads({q \in Backlog : q <= p})
        /\ inflight' = [n \in Messages |-> IF n = m THEN env
                                           ELSE IF n \in dropped THEN Nil ELSE inflight[n]]
        /\ leases' = [n \in Messages |->
                        IF n = m THEN [token |-> token, worker |-> w, task |-> env.task]
                        ELSE IF n \in dropped THEN Nil ELSE leases[n]]
        /\ leaseExpiry' = [n \in Messages |-> IF n = m THEN "running"
                                              ELSE IF n \in dropped THEN "none" ELSE leaseExpiry[n]]
        /\ deliveries' = Append(deliveries, [env |-> env, worker |-> w])
        /\ passes' = PassesOutrun(m)
  /\ UNCHANGED <<retryVars, deadVars, ingressVars, cancelled, acked, dispatched, operators>>

\* claim returning None after dropping the withdrawn head of every list.
ClaimNone ==
  /\ Backlog # {}
  /\ Deliverable = {}
  /\ LET dropped == HeadsDropped(Backlog)
     IN /\ PopHeads(Backlog)
        /\ inflight' = [n \in Messages |-> IF n \in dropped THEN Nil ELSE inflight[n]]
        /\ leases' = [n \in Messages |-> IF n \in dropped THEN Nil ELSE leases[n]]
        /\ leaseExpiry' = [n \in Messages |-> IF n \in dropped THEN "none" ELSE leaseExpiry[n]]
  /\ UNCHANGED <<retryVars, deadVars, ingressVars, cancelled, workerVars, passes, operators>>

Tokens == 1 .. Len(deliveries)

\* Mutant of Owns: the owner token is not compared.
OwnsByWorker(k) ==
  LET lease == leases[deliveries[k].env.mid]
  IN lease # Nil /\ lease.worker = deliveries[k].worker

\* The lease of delivery k's message is still the one delivery k was given.
Owns(k) ==
  LET lease == leases[deliveries[k].env.mid]
  IN lease # Nil /\ lease.token = k /\ lease.worker = deliveries[k].worker

\* Mutants of LeaseRemoved: one of the three records is left behind.
LeaseStaysIndexed(m) ==
  /\ inflight' = [inflight EXCEPT ![m] = Nil]
  /\ leases' = [leases EXCEPT ![m] = Nil]
  /\ UNCHANGED leaseExpiry
LeaseStaysHeld(m) ==
  /\ inflight' = [inflight EXCEPT ![m] = Nil]
  /\ leaseExpiry' = [leaseExpiry EXCEPT ![m] = "none"]
  /\ UNCHANGED leases

\* HDEL inflight, HDEL leases, ZREM lease-expiry.
LeaseRemoved(m) ==
  /\ inflight' = [inflight EXCEPT ![m] = Nil]
  /\ leases' = [leases EXCEPT ![m] = Nil]
  /\ leaseExpiry' = [leaseExpiry EXCEPT ![m] = "none"]

\* acknowledge returning True; its other results change nothing.
Acknowledge(k) ==
  /\ Owns(k)
  /\ deliveries[k].env.task \notin cancelled
  /\ LeaseRemoved(deliveries[k].env.mid)
  /\ acked' = acked \cup {k}
  /\ UNCHANGED <<ready, retryVars, deadVars, ingressVars, cancelled, deliveries, dispatched,
                 passes, operators>>

\* renew_lease returning True; its other results change nothing.
RenewLease(k) ==
  /\ Owns(k)
  /\ deliveries[k].env.task \notin cancelled
  /\ leaseExpiry' = [leaseExpiry EXCEPT ![deliveries[k].env.mid] = "running"]
  /\ passes' = PassesOutrun(deliveries[k].env.mid)
  /\ UNCHANGED <<ready, inflight, leases, retryVars, deadVars, ingressVars, cancelled,
                 workerVars, operators>>

\* A lease deadline passes.
LeaseExpires(m) ==
  /\ leaseExpiry[m] = "running"
  /\ leaseExpiry' = [leaseExpiry EXCEPT ![m] = "passed"]
  /\ UNCHANGED <<ready, inflight, leases, retryVars, deadVars, ingressVars, cancelled,
                 workerVars, passes, operators>>

-----------------------------------------------------------------------------
(* Retry scheduler                                                         *)

\* Mutant of WithinBudget: off by one.
WithinBudgetInclusive(attempt) == attempt <= MaximumAttempts

\* RetryPolicy.decide for a retryable failure: is the numbered attempt still
\* within the attempt budget?  The elapsed budget (which only a long
\* retry-after can exceed) is the caller's choice between a retry and a dead
\* letter.
WithinBudget(attempt) == attempt < MaximumAttempts

NextAttempt(env) == [env EXCEPT !.attempt = @ + 1]

\* schedule_failure for delivery k, storing the retry.  Without budget it
\* makes no Redis call; with a tombstone or an entry already there the script
\* changes nothing.
ScheduleFailure(k) ==
  LET env == deliveries[k].env
  IN /\ k \notin dispatched
     /\ WithinBudget(env.attempt + 1)
     /\ env.task \notin cancelled
     /\ delayed[env.mid] = Nil
     /\ delayed' = [delayed EXCEPT ![env.mid] = NextAttempt(env)]
     /\ delayedDue' = [delayedDue EXCEPT ![env.mid] = "waiting"]
     /\ dispatched' = dispatched \cup {k}
     /\ UNCHANGED <<ready, leaseVars, deadVars, ingressVars, cancelled, deliveries, acked,
                    passes, operators>>

\* A retry's due time passes.
DelayElapses(m) ==
  /\ delayedDue[m] = "waiting"
  /\ delayedDue' = [delayedDue EXCEPT ![m] = "due"]
  /\ UNCHANGED <<ready, leaseVars, delayed, deadVars, ingressVars, cancelled, workerVars,
                 passes, operators>>

\* Mutant of PromoteDue: the retry is removed but never pushed.
PromoteDueUnpushed(m) ==
  /\ delayedDue[m] = "due"
  /\ delayedDue' = [delayedDue EXCEPT ![m] = "none"]
  /\ delayed' = [delayed EXCEPT ![m] = Nil]
  /\ UNCHANGED <<ready, leaseVars, deadVars, ingressVars, cancelled, workerVars, passes, operators>>

\* promote_due for one due id; a batch is that many of these in a row.  Ids
\* without a record and withdrawn retries are dropped, others are pushed.
PromoteDue(m) ==
  /\ delayedDue[m] = "due"
  /\ delayedDue' = [delayedDue EXCEPT ![m] = "none"]
  /\ delayed' = [delayed EXCEPT ![m] = Nil]
  /\ ready' = IF delayed[m] = Nil \/ Withdrawn(delayed[m])
                THEN ready
                ELSE Pushed(delayed[m].prio, delayed[m])
  /\ UNCHANGED <<leaseVars, deadVars, ingressVars, cancelled, workerVars, passes, operators>>

-----------------------------------------------------------------------------
(* Dead-letter queue                                                       *)

\* Mutant of Finalize: HSET in place of HSETNX.
FinalizeOverwrites(k, eligible) ==
  LET env == deliveries[k].env
  IN /\ k \notin dispatched
     /\ dlq' = [dlq EXCEPT ![env.mid] = [env |-> env, eligible |-> eligible,
                                         approval |-> "pending", replayed |-> Nil]]
     /\ dlqTaskIndex' = [dlqTaskIndex EXCEPT ![env.task] = env.mid]
     /\ dispatched' = dispatched \cup {k}
     /\ UNCHANGED <<ready, leaseVars, retryVars, ingressVars, cancelled, deliveries, acked,
                    passes, operators>>

\* finalize for delivery k; an existing record of the message is kept.
Finalize(k, eligible) ==
  LET env == deliveries[k].env
  IN /\ k \notin dispatched
     /\ dlq[env.mid] = Nil
     /\ dlq' = [dlq EXCEPT ![env.mid] = [env |-> env, eligible |-> eligible,
                                         approval |-> "pending", replayed |-> Nil]]
     /\ dlqTaskIndex' = [dlqTaskIndex EXCEPT ![env.task] = env.mid]
     /\ dispatched' = dispatched \cup {k}
     /\ UNCHANGED <<ready, leaseVars, retryVars, ingressVars, cancelled, deliveries, acked,
                    passes, operators>>

\* approve_replay and replay begin by reading the record of message m.
ReadRecord(o, m, pc, verdict) ==
  /\ operators[o].pc = "idle"
  /\ dlq[m] # Nil
  /\ operators' = [operators EXCEPT ![o] = [pc |-> pc, mid |-> m, record |-> dlq[m],
                                            verdict |-> verdict]]
  /\ UNCHANGED <<ready, leaseVars, retryVars, deadVars, ingressVars, cancelled, workerVars, passes>>

ApproveRead(o, m, verdict) == ReadRecord(o, m, "approving", verdict)

ReplayRead(o, m) == ReadRecord(o, m, "replaying", "pending")

OperatorDone(o) == operators' = [operators EXCEPT ![o] = IdleOperator]

\* approve_replay's second call: the record read earlier is written back.
ApproveWrite(o) ==
  /\ operators[o].pc = "approving"
  /\ dlq' = [dlq EXCEPT ![operators[o].mid] =
                          [operators[o].record EXCEPT !.approval = operators[o].verdict]]
  /\ OperatorDone(o)
  /\ UNCHANGED <<ready, leaseVars, retryVars, dlqTaskIndex, ingressVars, cancelled, workerVars,
                 passes>>

\* Mutant of ReplayAllowed: the replay mark is not looked at.
ReplayAllowedAgain(record) ==
  /\ record.eligible
  /\ record.approval = "approved"
  /\ record.env.task \notin cancelled
  /\ record.env.snap \notin {"completed", "cancelled"}

\* The replay script's checks, on the record as it is now.
ReplayAllowed(record) ==
  /\ record.replayed = Nil
  /\ record.eligible
  /\ record.approval = "approved"
  /\ record.env.task \notin cancelled
  /\ record.env.snap \notin {"completed", "cancelled"}

\* replay's second call, succeeding under the fresh message id m.  It writes
\* back the record it read before the script ran.
ReplayScript(o, m) ==
  /\ operators[o].pc = "replaying"
  /\ issued[m] = Nil
  /\ LET old == operators[o].mid
         env == dlq[old].env
     IN /\ ReplayAllowed(dlq[old])
        /\ dlq' = [dlq EXCEPT ![old] = [operators[o].record EXCEPT !.replayed = m]]
        /\ ready' = Pushed(env.prio, [env EXCEPT !.mid = m])
        /\ issued' = [issued EXCEPT ![m] = [task |-> env.task, snap |-> env.snap,
                                            prio |-> env.prio, origin |-> old]]
  /\ OperatorDone(o)
  /\ UNCHANGED <<leaseVars, retryVars, dlqTaskIndex, indexVars, cancelled, workerVars, passes>>

\* A refused replay, or a Redis error in either second call.
OperatorGivesUp(o) ==
  /\ operators[o].pc # "idle"
  /\ OperatorDone(o)
  /\ UNCHANGED <<ready, leaseVars, retryVars, deadVars, ingressVars, cancelled, workerVars, passes>>

-----------------------------------------------------------------------------
(* Cancellation                                                            *)

\* cancel creating the tombstone of task t and dropping the delayed retry of
\* the message the task index names.
Cancel(t) ==
  /\ t \notin cancelled
  /\ taskIndex[t] # Nil \/ dlqTaskIndex[t] # Nil
  /\ cancelled' = cancelled \cup {t}
  /\ delayed' = [m \in Messages |-> IF m = taskIndex[t] THEN Nil ELSE delayed[m]]
  /\ delayedDue' = [m \in Messages |-> IF m = taskIndex[t] THEN "none" ELSE delayedDue[m]]
  /\ UNCHANGED <<ready, leaseVars, deadVars, ingressVars, workerVars, passes, operators>>

-----------------------------------------------------------------------------
(* Lease recovery                                                          *)

Expired == {m \in Messages : leaseExpiry[m] = "passed"}

recoveryReadsOnly == <<ready, leaseVars, retryVars, deadVars, ingressVars, cancelled,
                       workerVars, operators>>

\* recover_expired reads the clock and lists the expired leases.
Discover(r) ==
  /\ passes[r].pc = "idle"
  /\ Expired # {}
  /\ passes' = [passes EXCEPT ![r] = [IdlePass EXCEPT !.pc = "scan", !.todo = Expired,
                                                      !.due = Expired]]
  /\ UNCHANGED recoveryReadsOnly

\* _recover_one: HGET inflight ...
ReadEnvelope(r, m) ==
  /\ passes[r].pc = "scan"
  /\ m \in passes[r].todo
  /\ passes' = [passes EXCEPT ![r] = [@ EXCEPT !.pc = "lease", !.cur = m, !.env = inflight[m]]]
  /\ UNCHANGED recoveryReadsOnly

\* ... HGET leases ...
ReadLease(r) ==
  /\ passes[r].pc = "lease"
  /\ passes' = [passes EXCEPT ![r] = [@ EXCEPT !.pc = "durable",
                                               !.leased = leases[passes[r].cur] # Nil]]
  /\ UNCHANGED recoveryReadsOnly

\* ... and the durable state, asked for only when there was an envelope.
ReadDurable(r, terminal) ==
  /\ passes[r].pc = "durable"
  /\ passes[r].env = Nil => ~ terminal
  /\ passes' = [passes EXCEPT ![r] = [@ EXCEPT !.pc = "script", !.terminal = terminal]]
  /\ UNCHANGED recoveryReadsOnly

\* The payload _recover_one built from what it read.
Rebuilt(pass) == pass.env # Nil /\ pass.leased
RecoveryExhausted(pass) == Rebuilt(pass) /\ ~ WithinBudget(pass.env.attempt + 1)
RetryPayload(pass) == IF Rebuilt(pass) THEN NextAttempt(pass.env) ELSE EmptyPayload

\* The pass moves on to its next candidate, or ends.
CandidateDone(r) ==
  LET rest == passes[r].todo \ {passes[r].cur}
  IN passes' = [passes EXCEPT ![r] =
                  IF rest = {} THEN IdlePass
                  ELSE [IdlePass EXCEPT !.pc = "scan", !.todo = rest, !.due = @ \cup passes[r].due]]

\* The script finds no index entry, or a deadline later than the pass's clock.
RecoverRenewed(r) ==
  /\ passes[r].pc = "script"
  /\ leaseExpiry[passes[r].cur] = "none" \/ passes[r].cur \notin passes[r].due
  /\ CandidateDone(r)
  /\ UNCHANGED recoveryReadsOnly

\* Mutant of RecoverOne: the script relies on what the pass read and looks
\* neither at the deadline nor at the lease again.
RecoverOneUnchecked(r) ==
  LET pass == passes[r]
      m == pass.cur
      retry == Rebuilt(pass) /\ ~ pass.terminal /\ delayed[m] = Nil
  IN /\ pass.pc = "script"
     /\ LeaseRemoved(m)
     /\ delayed' = IF retry THEN [delayed EXCEPT ![m] = RetryPayload(pass)] ELSE delayed
     /\ delayedDue' = IF retry THEN [delayedDue EXCEPT ![m] = "waiting"] ELSE delayedDue
     /\ CandidateDone(r)
     /\ UNCHANGED <<ready, deadVars, ingressVars, cancelled, workerVars, operators>>

\* The script takes the expired lease: it removes the delivery records and
\* then drops, dead-letters or reschedules the message.
RecoverOne(r) ==
  LET pass == passes[r]
      m == pass.cur
      item == inflight[m]
      orphan == leases[m] = Nil \/ item = Nil
      drop == orphan \/ pass.terminal \/ Withdrawn(item)
      bury == ~ drop /\ RecoveryExhausted(pass)
      retry == ~ drop /\ ~ bury /\ delayed[m] = Nil
  IN /\ pass.pc = "script"
     /\ leaseExpiry[m] # "none" /\ m \in pass.due
     /\ LeaseRemoved(m)
     /\ dlq' = IF bury /\ dlq[m] = Nil
                 THEN [dlq EXCEPT ![m] = [env |-> NextAttempt(pass.env), eligible |-> TRUE,
                                          approval |-> "pending", replayed |-> Nil]]
                 ELSE dlq
     /\ dlqTaskIndex' = IF bury THEN [dlqTaskIndex EXCEPT ![item.task] = m] ELSE dlqTaskIndex
     /\ delayed' = IF retry THEN [delayed EXCEPT ![m] = RetryPayload(pass)] ELSE delayed
     /\ delayedDue' = IF retry THEN [delayedDue EXCEPT ![m] = "waiting"] ELSE delayedDue
     /\ CandidateDone(r)
     /\ UNCHANGED <<ready, ingressVars, cancelled, workerVars, operators>>

\* A Redis or database error, or the end of the process, in mid-pass.
RecoveryAborts(r) ==
  /\ passes[r].pc # "idle"
  /\ passes' = [passes EXCEPT ![r] = IdlePass]
  /\ UNCHANGED recoveryReadsOnly

-----------------------------------------------------------------------------
Produce ==
  \/ \E t \in Tasks, m \in Messages, p \in Priorities, s \in EnqueueStates : Enqueue(t, m, p, s)
  \/ \E t \in Tasks : DedupeExpires(t)

Consume ==
  \/ \E w \in Workers, p \in Priorities : Claim(w, p)
  \/ ClaimNone
  \/ \E k \in Tokens : Acknowledge(k)
  \/ \E k \in Tokens : RenewLease(k)
  \/ \E m \in Messages : LeaseExpires(m)

Retry ==
  \/ \E k \in Tokens : ScheduleFailure(k)
  \/ \E m \in Messages : DelayElapses(m)
  \/ \E m \in Messages : PromoteDue(m)

Bury ==
  \/ \E k \in Tokens, eligible \in BOOLEAN : Finalize(k, eligible)
  \/ \E o \in Operators, m \in Messages, verdict \in {"approved", "denied"} :
       ApproveRead(o, m, verdict)
  \/ \E o \in Operators : ApproveWrite(o)
  \/ \E o \in Operators, m \in Messages : ReplayRead(o, m)
  \/ \E o \in Operators, m \in Messages : ReplayScript(o, m)
  \/ \E o \in Operators : OperatorGivesUp(o)

Recover ==
  \/ \E r \in Recoverers : Discover(r)
  \/ \E r \in Recoverers, m \in Messages : ReadEnvelope(r, m)
  \/ \E r \in Recoverers : ReadLease(r)
  \/ \E r \in Recoverers, terminal \in BOOLEAN : ReadDurable(r, terminal)
  \/ \E r \in Recoverers : RecoverRenewed(r)
  \/ \E r \in Recoverers : RecoverOne(r)
  \/ \E r \in Recoverers : RecoveryAborts(r)

Next ==
  \/ Produce
  \/ Consume
  \/ Retry
  \/ Bury
  \/ \E t \in Tasks : Cancel(t)
  \/ Recover

Spec == Init /\ [][Next]_vars

-----------------------------------------------------------------------------
(* Properties                                                              *)

\* Every hash, list and index holds records of its declared shape.
TypeOK ==
  /\ ready \in [Priorities -> Seq(Envelope)]
  /\ inflight \in [Messages -> Envelope \cup {Nil}]
  /\ leases \in [Messages -> Lease \cup {Nil}]
  /\ leaseExpiry \in [Messages -> {"none", "running", "passed"}]
  /\ delayed \in [Messages -> Envelope \cup {Nil, EmptyPayload}]
  /\ delayedDue \in [Messages -> {"none", "waiting", "due"}]
  /\ dlq \in [Messages -> DeadLetter \cup {Nil}]
  /\ dlqTaskIndex \in [Tasks -> Messages \cup {Nil}]
  /\ taskIndex \in [Tasks -> Messages \cup {Nil}]
  /\ dedupe \in [Tasks -> Messages \cup {Nil}]
  /\ cancelled \subseteq Tasks
  /\ deliveries \in Seq(Delivery)
  /\ acked \subseteq Tokens
  /\ dispatched \subseteq Tokens
  /\ issued \in [Messages -> Identity \cup {Nil}]
  /\ passes \in [Recoverers -> Pass]
  /\ operators \in [Operators -> Operation]

\* Each of the three delivery records of a message (inflight, lease, expiry
\* index) exists exactly when the others do, and a delayed retry exists
\* exactly when its due index does: no script leaves an entry the others
\* cannot find (an orphan lease is never recovered, an orphan retry never
\* promoted).
IndexesAgree ==
  \A m \in Messages :
    /\ inflight[m] = Nil <=> leases[m] = Nil
    /\ leases[m] = Nil <=> leaseExpiry[m] = "none"
    /\ delayed[m] = Nil <=> delayedDue[m] = "none"

InReady(m) == \E p \in Priorities : \E i \in DOMAIN ready[p] : ready[p][i].mid = m

Genuine(env) ==
  /\ issued[env.mid] # Nil
  /\ issued[env.mid].task = env.task
  /\ issued[env.mid].snap = env.snap
  /\ issued[env.mid].prio = env.prio

ReadyAgree ==
  \A p \in Priorities : \A i \in DOMAIN ready[p] :
    ready[p][i].prio = p /\ Genuine(ready[p][i])

StoredAgree ==
  \A m \in Messages :
    /\ inflight[m] # Nil => inflight[m].mid = m /\ Genuine(inflight[m])
    /\ delayed[m] # Nil => delayed[m].mid = m /\ Genuine(delayed[m])
    /\ dlq[m] # Nil => dlq[m].env.mid = m /\ Genuine(dlq[m].env)

DeliveredAgree ==
  \A k \in Tokens : Genuine(deliveries[k].env) /\ deliveries[k].env.snap = "live"

\* Through claims, retries, recovery and dead-lettering an envelope keeps the
\* identity it was issued with and stays filed under its own message id and
\* priority; and nothing with a terminal task snapshot is ever delivered.
CopiesAgree == ReadyAgree /\ StoredAgree /\ DeliveredAgree

\* The lease of a message names a delivery of that very envelope which has
\* not been acknowledged: renewals and recoveries never leave a lease that no
\* worker can own, and an acknowledged delivery never holds a lease again.
LeaseBacked ==
  \A m \in Messages : leases[m] # Nil =>
    /\ leases[m].token \in Tokens \ acked
    /\ deliveries[leases[m].token].env = inflight[m]
    /\ deliveries[leases[m].token].worker = leases[m].worker
    /\ leases[m].task = inflight[m].task

\* Every delayed retry can be promoted and is within the attempt budget: lease
\* recovery never stores the empty payload, and neither it nor the retry
\* scheduler schedules an attempt the policy forbids.
RetryWellFormed ==
  \A m \in Messages : delayed[m] # Nil =>
    /\ delayed[m] \in Envelope
    /\ delayed[m].attempt \in 1 .. MaximumAttempts - 1

\* What a recovery pass read before its script is still true when the script
\* takes the lease: a pass acts on a stale envelope only where it changes
\* nothing.
RecoveryReadsCurrent ==
  \A r \in Recoverers :
    /\ passes[r].pc = "script"
    /\ passes[r].cur \in passes[r].due
    /\ leases[passes[r].cur] # Nil
    => passes[r].env = inflight[passes[r].cur] /\ passes[r].leased

\* A message is somewhere from which it is delivered, retried or replayed.
Located(m) == InReady(m) \/ inflight[m] # Nil \/ delayed[m] # Nil \/ dlq[m] # Nil

MayVanish(m) ==
  \/ issued[m].task \in cancelled'
  \/ issued[m].snap # "live"
  \/ \E k \in acked' \ acked : deliveries[k].env.mid = m
  \/ \E r \in Recoverers : /\ passes[r].pc = "script"
                           /\ passes[r].cur = m
                           /\ passes[r].terminal

NoMessageLostStep == \A m \in Messages : Located(m) /\ ~ Located(m)' => MayVanish(m)

\* No script loses a message: it leaves the queue only through its owner's
\* acknowledgement, a cancelled or terminal task, or a recovery that read a
\* terminal durable state.
NoMessageLost == [][NoMessageLostStep]_vars

\* A delivery of the message has been rescheduled or dead-lettered, so a second
\* copy of the message may be on its way while the first is still leased.
Reported(m) == \E k \in dispatched : deliveries[k].env.mid = m

LiveLeaseKeptStep ==
  \A m \in Messages : leaseExpiry[m] = "running" =>
    /\ leases'[m] = Nil => leases[m].token \in acked' \/ Withdrawn(inflight[m])
    /\ leases'[m] # Nil /\ leases'[m] # leases[m] => Reported(m)

\* A lease whose deadline has not passed is removed only by its owner's
\* acknowledgement or because its task was withdrawn (a renewal wins over a
\* recovery pass that had already listed the lease as expired), and it is
\* handed to another delivery only after a delivery of the message has
\* reported a failure: recovery, promotion, resubmission and replay on their
\* own never put a second copy of a leased message up for delivery.
LiveLeaseKept == [][LiveLeaseKeptStep]_vars

GoneStaysGoneStep ==
  \A m \in Messages : issued[m] # Nil /\ ~ Located(m) /\ Located(m)' =>
    \E k \in Tokens : deliveries[k].env.mid = m /\ k \notin dispatched /\ k \in dispatched'

\* A message that has left the queue comes back only by a failure that one of
\* its deliveries reports for the first time: recovery passes with stale reads,
\* promotions, replays and resubmissions never bring it back.
GoneStaysGone == [][GoneStaysGoneStep]_vars

TombstoneFinalStep ==
  \A m \in Messages : issued'[m] # Nil /\ issued'[m].task \in cancelled =>
    /\ issued[m] # Nil =>
         /\ leases[m] = Nil => leases'[m] = Nil
         /\ delayed[m] = Nil => delayed'[m] = Nil
         /\ ~ InReady(m) => ~ InReady(m)'
    /\ issued[m] = Nil => issued'[m].origin = Nil

\* A tombstone is final: no new lease, retry or list entry of a message of a
\* cancelled task appears after it, and no dead letter of it is replayed.
TombstoneFinal == [][TombstoneFinalStep]_vars

\* A dead letter is replayed at most once.
SingleReplay ==
  \A m, n \in Messages :
    /\ issued[m] # Nil /\ issued[n] # Nil
    /\ issued[m].origin # Nil
    /\ issued[m].origin = issued[n].origin
    => m = n

DecisionKeptStep ==
  \A m \in Messages : dlq[m] # Nil /\ dlq'[m] # dlq[m] =>
    \E o \in Operators : operators[o].mid = m /\ operators'[o] = IdleOperator

\* A dead letter changes only through an administrator's own write: burying
\* its message again, by a worker or by recovery, keeps the approval decision
\* and the replay mark already recorded.
DecisionKept == [][DecisionKeptStep]_vars

-----------------------------------------------------------------------------
(* The inductive invariant behind the theorems of RedisQueueProofs         *)

\* Retries and dead letters were delivered, so their snapshots are live.
DeliveredCopiesLive ==
  \A m \in Messages :
    /\ delayed[m] # Nil => delayed[m].snap = "live"
    /\ dlq[m] # Nil => dlq[m].env.snap = "live"

Reading(pass) == pass.pc \in {"lease", "durable", "script"}

\* A lease a pass may take was not claimed or renewed since the pass read the
\* clock, so what the pass has read of it is what is there.
PassSound(r) ==
  LET pass == passes[r]
  IN /\ \A m \in pass.due : leaseExpiry[m] # "running"
     /\ Reading(pass) => pass.cur \in Messages
     /\ pass.env # Nil =>
          pass.env.mid = pass.cur /\ Genuine(pass.env) /\ pass.env.snap = "live"
     /\ Reading(pass) /\ pass.cur \in pass.due /\ leases[pass.cur] # Nil =>
          /\ pass.env = inflight[pass.cur]
          /\ pass.pc # "lease" => pass.leased

PassesSound == \A r \in Recoverers : PassSound(r)

\* An administrator's copy of a record differs from the stored one at most in
\* the approval and the replay mark.
OperatorsSound ==
  \A o \in Operators :
    LET op == operators[o]
    IN op.pc # "idle" =>
         /\ op.mid \in Messages
         /\ op.record # Nil
         /\ dlq[op.mid] # Nil
         /\ op.record.env = dlq[op.mid].env
         /\ op.record.eligible = dlq[op.mid].eligible

\* A replayed message comes from a record that is still there.
OriginsKept ==
  \A m \in Messages : issued[m] # Nil /\ issued[m].origin # Nil =>
    dlq[issued[m].origin] # Nil /\ dlq[issued[m].origin].eligible

IInv ==
  /\ TypeOK
  /\ IndexesAgree
  /\ CopiesAgree
  /\ LeaseBacked
  /\ RetryWellFormed
  /\ DeliveredCopiesLive
  /\ PassesSound
  /\ OperatorsSound
  /\ OriginsKept

\* The task index names a message of that very task, so that cancelling a
\* task drops no retry but its own.
TaskIndexSound ==
  \A t \in Tasks : taskIndex[t] # Nil =>
    issued[taskIndex[t]] # Nil /\ issued[taskIndex[t]].task = t

\* The message has at most one entry in the ready lists.
ListedOnce(m) ==
  \A p, q \in Priorities : \A i \in DOMAIN ready[p], j \in DOMAIN ready[q] :
    ready[p][i].mid = m /\ ready[q][j].mid = m => p = q /\ i = j

Sole(m) ==
  /\ leases[m] # Nil => delayed[m] = Nil /\ ~ InReady(m)
  /\ delayed[m] # Nil => ~ InReady(m)
  /\ ListedOnce(m)

\* Until one of its deliveries reports a failure a message exists once: in one
\* place of one list, or leased, or waiting for a retry.
SoleCopy == \A m \in Messages : Reported(m) \/ Sole(m)

-----------------------------------------------------------------------------
(* The contract with producers and workers                                 *)

\* How the queue's records appear to its clients.
Accepted == {m \in Messages : issued[m] # Nil}
Tickets == [m \in Accepted |-> [task |-> issued[m].task, live |-> issued[m].snap = "live"]]
Handed == [k \in Tokens |-> [mid |-> deliveries[k].env.mid, worker |-> deliveries[k].worker]]
Custody == {m \in Messages : Located(m)}
Leased == {m \in Messages : leases[m] # Nil}
Closing ==
  {m \in Messages : \E r \in Recoverers :
     passes[r].pc = "script" /\ passes[r].cur = m /\ passes[r].terminal}

Contract == INSTANCE DeliveryContract WITH
  tickets <- Tickets, held <- Custody, handed <- Handed, owned <- Leased,
  settled <- acked, returned <- dispatched, revoked <- cancelled, closing <- Closing

\* The scripts keep the contract of DeliveryContract: the token comparison in
\* acknowledge and the overwritten lease of a second claim leave one owner per
\* message, its newest delivery, and stale reads of recovery passes, repeated
\* burials and racing retries let no accepted message go but a settled,
\* cancelled or finished one.
ImplementsContract == Contract!ContractSpec

\* The lease of a message is that of its newest delivery.
NewestOwns ==
  \A m \in Messages : leases[m] # Nil =>
    \A j \in Tokens : deliveries[j].env.mid = m => j <= leases[m].token
=============================================================================
