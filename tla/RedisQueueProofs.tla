-------------------------- MODULE RedisQueueProofs --------------------------
(* Proofs that RedisQueue keeps its invariants for every value of its     *)
(* constants.                                                              *)
EXTENDS RedisQueue, TLAPS

USE DEF leaseVars, retryVars, deadVars, ingressVars, indexVars, workerVars,
        recoveryReadsOnly, Tokens

-----------------------------------------------------------------------------
(* Types of the values the actions build                                   *)

LEMMA PushedType ==
  ASSUME TypeOK, NEW p \in Priorities, NEW env \in Envelope
  PROVE  Pushed(p, env) \in [Priorities -> Seq(Envelope)]
BY DEF TypeOK, Pushed

LEMMA NextAttemptType ==
  ASSUME NEW env \in Envelope
  PROVE  /\ NextAttempt(env) \in Envelope
         /\ NextAttempt(env).mid = env.mid
         /\ NextAttempt(env).task = env.task
         /\ NextAttempt(env).snap = env.snap
         /\ NextAttempt(env).prio = env.prio
         /\ NextAttempt(env).attempt = env.attempt + 1
BY DEF NextAttempt, Envelope

LEMMA DeliveryType ==
  ASSUME TypeOK, NEW k \in Tokens
  PROVE  /\ deliveries[k] \in Delivery
         /\ deliveries[k].env \in Envelope
         /\ deliveries[k].env.mid \in Messages
         /\ deliveries[k].env.task \in Tasks
<1>1. deliveries[k] \in Delivery
  BY DEF TypeOK
<1> QED
  BY <1>1 DEF Delivery, Envelope

LEMMA IdleTypes == IdlePass \in Pass /\ IdleOperator \in Operation
BY DEF IdlePass, Pass, IdleOperator, Operation

LEMMA ReadyType ==
  ASSUME TypeOK, NEW p \in Priorities, NEW i \in DOMAIN ready[p]
  PROVE  ready[p][i] \in Envelope /\ ready[p][i].mid \in Messages
<1>1. ready[p][i] \in Envelope
  BY DEF TypeOK
<1> QED
  BY <1>1 DEF Envelope

LEMMA HeadType ==
  ASSUME TypeOK, NEW p \in Priorities, ready[p] # <<>>
  PROVE  /\ Head(ready[p]) \in Envelope
         /\ Tail(ready[p]) \in Seq(Envelope)
         /\ Len(ready[p]) > 0
         /\ Head(ready[p]) = ready[p][1]
         /\ Len(Tail(ready[p])) = Len(ready[p]) - 1
         /\ \A i \in DOMAIN Tail(ready[p]) : /\ Tail(ready[p])[i] = ready[p][i + 1]
                                             /\ i + 1 \in DOMAIN ready[p]
BY DEF TypeOK

LEMMA PopHeadsType ==
  ASSUME TypeOK, NEW popped, popped \subseteq Backlog, PopHeads(popped)
  PROVE  ready' \in [Priorities -> Seq(Envelope)]
<1> SUFFICES ASSUME NEW p \in Priorities
             PROVE  (IF p \in popped THEN Tail(ready[p]) ELSE ready[p]) \in Seq(Envelope)
  BY DEF PopHeads
<1>1. CASE p \in popped
  BY <1>1, HeadType DEF Backlog
<1>2. CASE p \notin popped
  BY <1>2 DEF TypeOK
<1> QED BY <1>1, <1>2

LEMMA DeadLetterType ==
  ASSUME NEW env \in Envelope, NEW eligible \in BOOLEAN
  PROVE  [env |-> env, eligible |-> eligible, approval |-> "pending", replayed |-> Nil]
           \in DeadLetter
BY DEF DeadLetter

LEMMA RecordType ==
  ASSUME NEW record \in DeadLetter
  PROVE  /\ \A v \in {"pending", "approved", "denied"} :
              /\ [record EXCEPT !.approval = v] \in DeadLetter
              /\ [record EXCEPT !.approval = v].env = record.env
              /\ [record EXCEPT !.approval = v].eligible = record.eligible
         /\ \A m \in Messages :
              /\ [record EXCEPT !.replayed = m] \in DeadLetter
              /\ [record EXCEPT !.replayed = m].env = record.env
              /\ [record EXCEPT !.replayed = m].eligible = record.eligible
         /\ record.env \in Envelope
BY DEF DeadLetter

LEMMA PassFields ==
  ASSUME NEW pass \in Pass
  PROVE  /\ pass.todo \subseteq Messages
         /\ pass.due \subseteq Messages
         /\ pass.cur \in Messages \cup {Nil}
         /\ pass.env \in Envelope \cup {Nil}
         /\ pass.leased \in BOOLEAN
         /\ pass.terminal \in BOOLEAN
BY DEF Pass

LEMMA PassesOutrunType ==
  ASSUME TypeOK, NEW m
  PROVE  PassesOutrun(m) \in [Recoverers -> Pass]
<1>1. \A pass \in Pass : [pass EXCEPT !.due = @ \ {m}] \in Pass
  BY DEF Pass
<1> QED
  BY <1>1 DEF TypeOK, PassesOutrun

LEMMA CandidateDoneType ==
  ASSUME TypeOK, NEW r \in Recoverers, CandidateDone(r)
  PROVE  passes' \in [Recoverers -> Pass]
<1> DEFINE rest == passes[r].todo \ {passes[r].cur}
<1>1. passes[r].todo \subseteq Messages /\ passes[r].due \subseteq Messages
  BY PassFields DEF TypeOK
<1>2. [IdlePass EXCEPT !.pc = "scan", !.todo = rest, !.due = @ \cup passes[r].due] \in Pass
  BY <1>1 DEF IdlePass, Pass
<1> QED
  BY <1>2, IdleTypes DEF CandidateDone, TypeOK

-----------------------------------------------------------------------------
(* Each action preserves the inductive invariant: producer                 *)

LEMMA PushedCopies ==
  ASSUME TypeOK, NEW p \in Priorities, NEW env \in Envelope, NEW q \in Priorities,
         NEW i \in DOMAIN Pushed(p, env)[q]
  PROVE  \/ i \in DOMAIN ready[q] /\ Pushed(p, env)[q][i] = ready[q][i]
         \/ q = p /\ Pushed(p, env)[q][i] = env
BY DEF TypeOK, Pushed

\* A push of a genuine envelope onto the list of its own priority.
LEMMA PushedAgree ==
  ASSUME TypeOK, ReadyAgree, NEW env \in Envelope, ready' = Pushed(env.prio, env),
         (Genuine(env))', \A n \in Messages : issued[n] # Nil => issued'[n] = issued[n]
  PROVE  ReadyAgree'
<1> SUFFICES ASSUME NEW q \in Priorities, NEW i \in DOMAIN ready'[q]
             PROVE  (ready[q][i].prio = q /\ Genuine(ready[q][i]))'
  BY DEF ReadyAgree
<1> DEFINE e == ready'[q][i]
<1>1. env.prio \in Priorities
  BY DEF Envelope
<1>2. \/ i \in DOMAIN ready[q] /\ e = ready[q][i]
      \/ q = env.prio /\ e = env
  BY <1>1, PushedCopies
<1>3. CASE i \in DOMAIN ready[q] /\ e = ready[q][i]
  BY <1>3, ReadyType DEF ReadyAgree, Genuine
<1>4. CASE q = env.prio /\ e = env
  BY <1>4
<1> QED
  BY <1>2, <1>3, <1>4

LEMMA EnqueueStep ==
  ASSUME IInv, NEW t \in Tasks, NEW m \in Messages, NEW p \in Priorities,
         NEW s \in EnqueueStates, Enqueue(t, m, p, s)
  PROVE  IInv'
<1> DEFINE env == [mid |-> m, task |-> t, snap |-> s, prio |-> p, attempt |-> 0]
           new == [task |-> t, snap |-> s, prio |-> p, origin |-> Nil]
<1> USE DEF IInv
<1>1. env \in Envelope /\ new \in Identity
  BY ConstantsAssumption DEF Envelope, Identity
<1>2. TypeOK'
  BY <1>1, PushedType DEF Enqueue, TypeOK
<1>3. issued'[m] = new /\ \A n \in Messages \ {m} : issued'[n] = issued[n]
  BY DEF Enqueue, TypeOK
<1>4. \A n \in Messages : issued[n] # Nil => issued'[n] = issued[n]
  BY <1>3 DEF Enqueue
<1>5. CopiesAgree'
  <2> USE DEF CopiesAgree
  <2>1. ReadyAgree'
    <3>1. (Genuine(env))'
      BY <1>1, <1>3, NilAssumption DEF Genuine
    <3> QED
      BY <1>1, <1>4, <3>1, PushedAgree DEF Enqueue
  <2>2. StoredAgree'
    BY <1>4 DEF Enqueue, StoredAgree, Genuine
  <2>3. DeliveredAgree'
    BY <1>4, DeliveryType DEF Enqueue, DeliveredAgree, Genuine
  <2> QED
    BY <2>1, <2>2, <2>3
<1>6. PassesSound'
  BY <1>4 DEF PassesSound, PassSound, Genuine, Enqueue, Reading
<1>7. OriginsKept'
  BY <1>1, <1>3 DEF OriginsKept, Enqueue
<1> QED
  BY <1>2, <1>5, <1>6, <1>7
  DEF Enqueue, IndexesAgree, LeaseBacked, RetryWellFormed, DeliveredCopiesLive, OperatorsSound

LEMMA DedupeExpiresStep ==
  ASSUME IInv, NEW t \in Tasks, DedupeExpires(t)
  PROVE  IInv'
<1>1. TypeOK'
  BY DEF IInv, DedupeExpires, TypeOK
<1> QED
  BY <1>1 DEF IInv, DedupeExpires, IndexesAgree, CopiesAgree, ReadyAgree, StoredAgree, DeliveredAgree, Genuine, LeaseBacked,
              RetryWellFormed, DeliveredCopiesLive, PassesSound, PassSound, OperatorsSound,
              OriginsKept

-----------------------------------------------------------------------------
(* Consumer                                                                *)

LEMMA AcknowledgeStep ==
  ASSUME IInv, NEW k \in Tokens, Acknowledge(k)
  PROVE  IInv'
<1> USE DEF IInv
<1> DEFINE m == deliveries[k].env.mid
<1>1. m \in Messages
  BY DeliveryType
<1>2. TypeOK'
  BY <1>1 DEF Acknowledge, LeaseRemoved, TypeOK
<1>3. IndexesAgree'
  BY <1>1 DEF Acknowledge, LeaseRemoved, TypeOK, IndexesAgree
<1>4. CopiesAgree'
  BY <1>1 DEF Acknowledge, LeaseRemoved, TypeOK, CopiesAgree, ReadyAgree, StoredAgree, DeliveredAgree, Genuine
<1>5. LeaseBacked'
  <2> SUFFICES ASSUME NEW n \in Messages, leases'[n] # Nil
               PROVE  /\ leases'[n].token \in Tokens \ acked'
                      /\ deliveries[leases'[n].token].env = inflight'[n]
                      /\ deliveries[leases'[n].token].worker = leases'[n].worker
                      /\ leases'[n].task = inflight'[n].task
    BY DEF LeaseBacked, Acknowledge
  <2>1. n # m /\ leases'[n] = leases[n] /\ inflight'[n] = inflight[n]
    BY <1>1 DEF Acknowledge, LeaseRemoved, TypeOK
  <2>2. leases[n].token # k
    BY <2>1 DEF LeaseBacked, CopiesAgree, StoredAgree, IndexesAgree
  <2> QED
    BY <2>1, <2>2 DEF LeaseBacked, Acknowledge
<1>6. PassesSound'
  BY <1>1 DEF Acknowledge, LeaseRemoved, TypeOK, PassesSound, PassSound, Genuine, Reading
<1> QED
  BY <1>2, <1>3, <1>4, <1>5, <1>6
  DEF Acknowledge, RetryWellFormed, DeliveredCopiesLive, OperatorsSound, OriginsKept

LEMMA RenewLeaseStep ==
  ASSUME IInv, NEW k \in Tokens, RenewLease(k)
  PROVE  IInv'
<1> USE DEF IInv
<1> DEFINE m == deliveries[k].env.mid
<1>1. m \in Messages
  BY DeliveryType
<1>2. TypeOK'
  BY <1>1, PassesOutrunType DEF RenewLease, TypeOK
<1>3. IndexesAgree'
  BY <1>1 DEF RenewLease, TypeOK, IndexesAgree, Owns
<1>4. PassesSound'
  <2> SUFFICES ASSUME NEW r \in Recoverers
               PROVE  PassSound(r)'
    BY DEF PassesSound
  <2>1. /\ passes'[r].due = passes[r].due \ {m}
        /\ passes'[r].pc = passes[r].pc
        /\ passes'[r].cur = passes[r].cur
        /\ passes'[r].env = passes[r].env
        /\ passes'[r].leased = passes[r].leased
    BY DEF RenewLease, PassesOutrun, TypeOK, Pass
  <2>2. PassSound(r)
    BY DEF PassesSound
  <2> QED
    BY <1>1, <2>1, <2>2 DEF PassSound, Reading, RenewLease, TypeOK, Genuine
<1> QED
  BY <1>2, <1>3, <1>4
  DEF RenewLease, CopiesAgree, ReadyAgree, StoredAgree, DeliveredAgree, Genuine, LeaseBacked, RetryWellFormed, DeliveredCopiesLive,
      OperatorsSound, OriginsKept

LEMMA LeaseExpiresStep ==
  ASSUME IInv, NEW m \in Messages, LeaseExpires(m)
  PROVE  IInv'
<1> USE DEF IInv
<1>1. TypeOK'
  BY DEF LeaseExpires, TypeOK
<1>2. IndexesAgree'
  BY DEF LeaseExpires, TypeOK, IndexesAgree
<1>3. PassesSound'
  BY DEF LeaseExpires, TypeOK, PassesSound, PassSound, Genuine, Reading
<1> QED
  BY <1>1, <1>2, <1>3
  DEF LeaseExpires, CopiesAgree, ReadyAgree, StoredAgree, DeliveredAgree, Genuine, LeaseBacked,
      RetryWellFormed, DeliveredCopiesLive, OperatorsSound, OriginsKept

\* Popping heads keeps every remaining entry filed where it was.
LEMMA PopHeadsAgree ==
  ASSUME TypeOK, ReadyAgree, NEW popped, popped \subseteq Backlog, PopHeads(popped),
         issued' = issued
  PROVE  ReadyAgree'
<1> SUFFICES ASSUME NEW q \in Priorities, NEW i \in DOMAIN ready'[q]
             PROVE  (ready[q][i].prio = q /\ Genuine(ready[q][i]))'
  BY DEF ReadyAgree
<1>1. ready'[q] = IF q \in popped THEN Tail(ready[q]) ELSE ready[q]
  BY DEF PopHeads
<1>2. PICK j \in DOMAIN ready[q] : ready'[q][i] = ready[q][j]
  BY <1>1, HeadType DEF Backlog
<1> QED
  BY <1>2 DEF ReadyAgree, Genuine

LEMMA ClaimNoneStep ==
  ASSUME IInv, ClaimNone
  PROVE  IInv'
<1> USE DEF IInv
<1> DEFINE dropped == HeadsDropped(Backlog)
<1>1. /\ inflight' = [n \in Messages |-> IF n \in dropped THEN Nil ELSE inflight[n]]
      /\ leases' = [n \in Messages |-> IF n \in dropped THEN Nil ELSE leases[n]]
      /\ leaseExpiry' = [n \in Messages |-> IF n \in dropped THEN "none" ELSE leaseExpiry[n]]
      /\ PopHeads(Backlog)
  BY DEF ClaimNone
<1> HIDE DEF dropped
<1>2. TypeOK'
  BY <1>1, PopHeadsType DEF ClaimNone, TypeOK
<1>3. IndexesAgree'
  BY <1>1 DEF ClaimNone, IndexesAgree
<1>4. CopiesAgree'
  <2>1. ReadyAgree'
    BY <1>1, PopHeadsAgree DEF ClaimNone, CopiesAgree
  <2> QED
    BY <1>1, <2>1 DEF ClaimNone, CopiesAgree, StoredAgree, DeliveredAgree, Genuine
<1>5. LeaseBacked'
  BY <1>1 DEF ClaimNone, LeaseBacked
<1>6. PassesSound'
  BY <1>1 DEF ClaimNone, PassesSound, PassSound, Genuine, Reading, TypeOK, Pass
<1> QED
  BY <1>2, <1>3, <1>4, <1>5, <1>6
  DEF ClaimNone, RetryWellFormed, DeliveredCopiesLive, OperatorsSound, OriginsKept

LEMMA ClaimStep ==
  ASSUME IInv, NEW w \in Workers, NEW p \in Priorities, Claim(w, p)
  PROVE  IInv'
<1> USE DEF IInv
<1> DEFINE env == Head(ready[p])
           m == env.mid
           token == Len(deliveries) + 1
           dropped == HeadsDropped({q \in Backlog : q < p})
           popped == {q \in Backlog : q <= p}
           lease == [token |-> token, worker |-> w, task |-> env.task]
<1>1. /\ inflight' = [n \in Messages |-> IF n = m THEN env
                                         ELSE IF n \in dropped THEN Nil ELSE inflight[n]]
      /\ leases' = [n \in Messages |-> IF n = m THEN lease
                                       ELSE IF n \in dropped THEN Nil ELSE leases[n]]
      /\ leaseExpiry' = [n \in Messages |-> IF n = m THEN "running"
                                            ELSE IF n \in dropped THEN "none" ELSE leaseExpiry[n]]
      /\ deliveries' = Append(deliveries, [env |-> env, worker |-> w])
      /\ passes' = PassesOutrun(m)
      /\ PopHeads(popped) /\ popped \subseteq Backlog
      /\ UNCHANGED <<retryVars, deadVars, ingressVars, cancelled, acked, dispatched, operators>>
  BY DEF Claim
<1>2. /\ env \in Envelope /\ m \in Messages /\ env.task \in Tasks
      /\ env.snap = "live" /\ Genuine(env)
  <2>1. p \in Backlog /\ env.snap = "live"
    BY DEF Claim, Deliverable, Withdrawn
  <2>2. env \in Envelope /\ Genuine(env)
    BY <2>1, HeadType DEF Backlog, CopiesAgree, ReadyAgree
  <2> QED
    BY <2>1, <2>2 DEF Envelope
<1>3. token \in Nat \ {0} /\ lease \in Lease /\ [env |-> env, worker |-> w] \in Delivery
  BY <1>2 DEF TypeOK, Lease, Delivery
<1>4. /\ deliveries' \in Seq(Delivery)
      /\ Len(deliveries') = token
      /\ deliveries'[token] = [env |-> env, worker |-> w]
      /\ \A k \in Tokens : deliveries'[k] = deliveries[k]
  BY <1>1, <1>3 DEF TypeOK
<1> HIDE DEF env, m, token, dropped, popped, lease
<1>5. TypeOK'
  BY <1>1, <1>2, <1>3, <1>4, PopHeadsType, PassesOutrunType DEF TypeOK
<1>6. IndexesAgree'
  BY <1>1, <1>2, <1>3, NilAssumption DEF IndexesAgree
<1>7. CopiesAgree'
  <2>1. ReadyAgree'
    BY <1>1, PopHeadsAgree DEF CopiesAgree
  <2>2. StoredAgree'
    BY <1>1, <1>2 DEF CopiesAgree, StoredAgree, Genuine, m
  <2>3. DeliveredAgree'
    BY <1>1, <1>2, <1>3, <1>4 DEF CopiesAgree, DeliveredAgree, Genuine, m, token
  <2> QED
    BY <2>1, <2>2, <2>3 DEF CopiesAgree
<1>8. LeaseBacked'
  <2> SUFFICES ASSUME NEW n \in Messages, leases'[n] # Nil
               PROVE  /\ leases'[n].token \in Tokens' \ acked
                      /\ deliveries'[leases'[n].token].env = inflight'[n]
                      /\ deliveries'[leases'[n].token].worker = leases'[n].worker
                      /\ leases'[n].task = inflight'[n].task
    BY <1>1 DEF LeaseBacked
  <2>1. CASE n = m
    BY <1>1, <1>2, <1>3, <1>4, <2>1 DEF lease, TypeOK, token
  <2>2. CASE n # m
    BY <1>1, <1>4, <2>2 DEF LeaseBacked, TypeOK, token
  <2> QED
    BY <2>1, <2>2
<1>9. PassesSound'
  <2> SUFFICES ASSUME NEW r \in Recoverers
               PROVE  PassSound(r)'
    BY DEF PassesSound
  <2>1. /\ passes'[r].due = passes[r].due \ {m}
        /\ passes'[r].pc = passes[r].pc
        /\ passes'[r].cur = passes[r].cur
        /\ passes'[r].env = passes[r].env
        /\ passes'[r].leased = passes[r].leased
        /\ passes[r].due \subseteq Messages
    BY <1>1 DEF PassesOutrun, TypeOK, Pass
  <2>2. PassSound(r)
    BY DEF PassesSound
  <2> QED
    BY <1>1, <1>2, <2>1, <2>2 DEF PassSound, Reading, Genuine
<1> QED
  BY <1>1, <1>5, <1>6, <1>7, <1>8, <1>9
  DEF RetryWellFormed, DeliveredCopiesLive, OperatorsSound, OriginsKept

-----------------------------------------------------------------------------
(* Retry scheduler                                                         *)

LEMMA ScheduleFailureStep ==
  ASSUME IInv, NEW k \in Tokens, ScheduleFailure(k)
  PROVE  IInv'
<1> USE DEF IInv
<1> DEFINE env == deliveries[k].env
           next == NextAttempt(env)
<1>1. /\ env \in Envelope /\ env.mid \in Messages /\ Genuine(env) /\ env.snap = "live"
      /\ env.attempt \in Nat
  BY DeliveryType DEF CopiesAgree, DeliveredAgree, Envelope
<1>2. /\ next \in Envelope
      /\ next.mid = env.mid /\ next.task = env.task /\ next.snap = env.snap
      /\ next.prio = env.prio /\ next.attempt = env.attempt + 1
  BY <1>1, NextAttemptType
<1>3. /\ delayed' = [delayed EXCEPT ![env.mid] = next]
      /\ delayedDue' = [delayedDue EXCEPT ![env.mid] = "waiting"]
      /\ dispatched' = dispatched \cup {k}
      /\ env.attempt + 1 < MaximumAttempts
      /\ UNCHANGED <<ready, leaseVars, deadVars, ingressVars, cancelled, deliveries, acked,
                     passes, operators>>
  BY DEF ScheduleFailure, WithinBudget
<1> HIDE DEF env, next
<1>4. TypeOK'
  BY <1>1, <1>2, <1>3 DEF TypeOK
<1>5. IndexesAgree'
  BY <1>1, <1>2, <1>3, NilAssumption DEF IndexesAgree, TypeOK
<1>6. StoredAgree'
  BY <1>1, <1>2, <1>3 DEF CopiesAgree, StoredAgree, Genuine, TypeOK
<1>7. RetryWellFormed'
  BY <1>1, <1>2, <1>3, ConstantsAssumption DEF RetryWellFormed, TypeOK
<1>8. DeliveredCopiesLive'
  BY <1>1, <1>2, <1>3 DEF DeliveredCopiesLive, TypeOK
<1> QED
  BY <1>3, <1>4, <1>5, <1>6, <1>7, <1>8
  DEF CopiesAgree, ReadyAgree, DeliveredAgree, Genuine, LeaseBacked, PassesSound, PassSound,
      OperatorsSound, OriginsKept

LEMMA DelayElapsesStep ==
  ASSUME IInv, NEW m \in Messages, DelayElapses(m)
  PROVE  IInv'
<1> USE DEF IInv
<1>1. TypeOK'
  BY DEF DelayElapses, TypeOK
<1>2. IndexesAgree'
  BY DEF DelayElapses, TypeOK, IndexesAgree
<1> QED
  BY <1>1, <1>2
  DEF DelayElapses, CopiesAgree, ReadyAgree, StoredAgree, DeliveredAgree, Genuine, LeaseBacked,
      RetryWellFormed, DeliveredCopiesLive, PassesSound, PassSound, OperatorsSound,
      OriginsKept

LEMMA PromoteDueStep ==
  ASSUME IInv, NEW m \in Messages, PromoteDue(m)
  PROVE  IInv'
<1> USE DEF IInv
<1>1. delayed[m] # Nil => delayed[m] \in Envelope /\ Genuine(delayed[m])
  BY DEF RetryWellFormed, CopiesAgree, StoredAgree
<1>2. ready' = ready \/ (delayed[m] # Nil /\ ready' = Pushed(delayed[m].prio, delayed[m]))
  BY DEF PromoteDue
<1>3. ready' \in [Priorities -> Seq(Envelope)] /\ ReadyAgree'
  <2>1. issued' = issued
    BY DEF PromoteDue
  <2>2. CASE ready' = ready
    BY <2>1, <2>2 DEF TypeOK, CopiesAgree, ReadyAgree, Genuine
  <2>3. CASE delayed[m] # Nil /\ ready' = Pushed(delayed[m].prio, delayed[m])
    <3>1. PICK env \in Envelope : env = delayed[m]
      BY <1>1, <2>3
    <3>2. env.prio \in Priorities /\ Genuine(env) /\ ready' = Pushed(env.prio, env)
      BY <1>1, <2>3, <3>1 DEF Envelope
    <3>3. (Genuine(env))'
      BY <2>1, <3>2 DEF Genuine
    <3> QED
      BY <2>1, <3>2, <3>3, PushedType, PushedAgree DEF CopiesAgree
  <2> QED
    BY <1>2, <2>2, <2>3
<1>4. TypeOK'
  BY <1>3 DEF PromoteDue, TypeOK
<1>5. IndexesAgree'
  BY DEF PromoteDue, TypeOK, IndexesAgree
<1>6. StoredAgree' /\ RetryWellFormed' /\ DeliveredCopiesLive'
  BY DEF PromoteDue, TypeOK, CopiesAgree, StoredAgree, Genuine, RetryWellFormed,
         DeliveredCopiesLive
<1> QED
  BY <1>3, <1>4, <1>5, <1>6
  DEF PromoteDue, CopiesAgree, DeliveredAgree, Genuine, LeaseBacked, PassesSound, PassSound,
      OperatorsSound, OriginsKept

-----------------------------------------------------------------------------
(* Dead-letter queue and cancellation                                      *)

LEMMA FinalizeStep ==
  ASSUME IInv, NEW k \in Tokens, NEW eligible \in BOOLEAN, Finalize(k, eligible)
  PROVE  IInv'
<1> USE DEF IInv
<1> DEFINE env == deliveries[k].env
           record == [env |-> env, eligible |-> eligible, approval |-> "pending",
                      replayed |-> Nil]
<1>1. /\ env \in Envelope /\ env.mid \in Messages /\ env.task \in Tasks
      /\ Genuine(env) /\ env.snap = "live"
  BY DeliveryType DEF CopiesAgree, DeliveredAgree
<1>2. record \in DeadLetter /\ record.env = env
  BY <1>1, DeadLetterType
<1>3. /\ dlq[env.mid] = Nil
      /\ dlq' = [dlq EXCEPT ![env.mid] = record]
      /\ dlqTaskIndex' = [dlqTaskIndex EXCEPT ![env.task] = env.mid]
      /\ dispatched' = dispatched \cup {k}
      /\ UNCHANGED <<ready, leaseVars, retryVars, ingressVars, cancelled, deliveries, acked,
                     passes, operators>>
  BY DEF Finalize
<1> HIDE DEF env, record
<1>4. TypeOK'
  BY <1>1, <1>2, <1>3 DEF TypeOK
<1>5. StoredAgree' /\ DeliveredCopiesLive'
  BY <1>1, <1>2, <1>3 DEF CopiesAgree, StoredAgree, DeliveredCopiesLive, Genuine, TypeOK
<1>6. OperatorsSound' /\ OriginsKept'
  BY <1>1, <1>3 DEF OperatorsSound, OriginsKept, TypeOK
<1> QED
  BY <1>3, <1>4, <1>5, <1>6
  DEF IndexesAgree, CopiesAgree, ReadyAgree, DeliveredAgree, Genuine, LeaseBacked,
      RetryWellFormed, PassesSound, PassSound

LEMMA ReadRecordStep ==
  ASSUME IInv, NEW o \in Operators, NEW m \in Messages, NEW pc \in {"approving", "replaying"},
         NEW verdict \in {"pending", "approved", "denied"}, ReadRecord(o, m, pc, verdict)
  PROVE  IInv'
<1> USE DEF IInv
<1> DEFINE op == [pc |-> pc, mid |-> m, record |-> dlq[m], verdict |-> verdict]
<1>1. op \in Operation
  BY DEF Operation, TypeOK, ReadRecord
<1>2. TypeOK'
  BY <1>1 DEF ReadRecord, TypeOK
<1>3. OperatorsSound'
  BY <1>1 DEF ReadRecord, TypeOK, OperatorsSound
<1> QED
  BY <1>2, <1>3
  DEF ReadRecord, IndexesAgree, CopiesAgree, ReadyAgree, StoredAgree, DeliveredAgree, Genuine,
      LeaseBacked, RetryWellFormed, DeliveredCopiesLive, PassesSound, PassSound, OriginsKept

\* Writing back an administrator's copy leaves every record's envelope and
\* eligibility as they were.
LEMMA WriteBackSound ==
  ASSUME IInv, NEW o \in Operators, operators[o].pc # "idle", NEW record \in DeadLetter,
         record.env = operators[o].record.env,
         record.eligible = operators[o].record.eligible,
         dlq' = [dlq EXCEPT ![operators[o].mid] = record]
  PROVE  /\ dlq' \in [Messages -> DeadLetter \cup {Nil}]
         /\ \A m \in Messages : dlq[m] = Nil <=> dlq'[m] = Nil
         /\ \A m \in Messages : dlq[m] # Nil =>
              dlq'[m].env = dlq[m].env /\ dlq'[m].eligible = dlq[m].eligible
BY NilAssumption DEF IInv, TypeOK, OperatorsSound

LEMMA ApproveWriteStep ==
  ASSUME IInv, NEW o \in Operators, ApproveWrite(o)
  PROVE  IInv'
<1> USE DEF IInv
<1> DEFINE record == [operators[o].record EXCEPT !.approval = operators[o].verdict]
<1>1. /\ operators[o].record \in DeadLetter
      /\ operators[o].verdict \in {"pending", "approved", "denied"}
  BY DEF ApproveWrite, OperatorsSound, TypeOK, Operation
<1>2. /\ record \in DeadLetter
      /\ record.env = operators[o].record.env
      /\ record.eligible = operators[o].record.eligible
  BY <1>1, RecordType
<1>3. /\ dlq' \in [Messages -> DeadLetter \cup {Nil}]
      /\ \A m \in Messages : dlq[m] = Nil <=> dlq'[m] = Nil
      /\ \A m \in Messages : dlq[m] # Nil =>
           dlq'[m].env = dlq[m].env /\ dlq'[m].eligible = dlq[m].eligible
  BY <1>2, WriteBackSound DEF ApproveWrite
<1>4. operators' = [operators EXCEPT ![o] = IdleOperator]
  BY DEF ApproveWrite, OperatorDone
<1>5. TypeOK'
  BY <1>3, <1>4, IdleTypes DEF ApproveWrite, TypeOK
<1>6. OperatorsSound'
  BY <1>3, <1>4 DEF OperatorsSound, TypeOK, IdleOperator
<1>7. StoredAgree' /\ DeliveredCopiesLive' /\ OriginsKept'
  BY <1>3 DEF ApproveWrite, CopiesAgree, StoredAgree, Genuine, DeliveredCopiesLive,
              OriginsKept, TypeOK, Identity
<1> QED
  BY <1>5, <1>6, <1>7
  DEF ApproveWrite, IndexesAgree, CopiesAgree, ReadyAgree, DeliveredAgree, Genuine, LeaseBacked,
      RetryWellFormed, PassesSound, PassSound

LEMMA ReplayScriptStep ==
  ASSUME IInv, NEW o \in Operators, NEW m \in Messages, ReplayScript(o, m)
  PROVE  IInv'
<1> USE DEF IInv
<1> DEFINE old == operators[o].mid
           record == [operators[o].record EXCEPT !.replayed = m]
<1>1. /\ operators[o].record \in DeadLetter
      /\ old \in Messages /\ dlq[old] \in DeadLetter /\ dlq[old].env \in Envelope
      /\ dlq[old].eligible
      /\ dlq[old].env.snap = "live"
  BY RecordType DEF ReplayScript, ReplayAllowed, OperatorsSound, TypeOK, Operation,
                    DeliveredCopiesLive
<1>2. PICK env \in Envelope : env = [dlq[old].env EXCEPT !.mid = m]
  BY <1>1 DEF Envelope
<1>3. /\ env.mid = m /\ env.task = dlq[old].env.task /\ env.snap = dlq[old].env.snap
      /\ env.prio = dlq[old].env.prio /\ env.task \in Tasks /\ env.snap \in SnapshotStates
      /\ env.prio \in Priorities
  BY <1>1, <1>2 DEF Envelope
<1>4. PICK new \in Identity : new = [task |-> env.task, snap |-> env.snap, prio |-> env.prio,
                                     origin |-> old]
  BY <1>1, <1>3 DEF Identity
<1>5. /\ ready' = Pushed(env.prio, env)
      /\ issued[m] = Nil
      /\ issued' = [issued EXCEPT ![m] = new]
      /\ dlq' = [dlq EXCEPT ![old] = record]
      /\ operators' = [operators EXCEPT ![o] = IdleOperator]
      /\ operators[o].pc # "idle"
      /\ UNCHANGED <<leaseVars, retryVars, dlqTaskIndex, indexVars, cancelled, workerVars, passes>>
  BY <1>2, <1>3, <1>4 DEF ReplayScript, OperatorDone
<1>6. /\ record \in DeadLetter
      /\ record.env = operators[o].record.env
      /\ record.eligible = operators[o].record.eligible
  BY <1>1, RecordType
<1> HIDE DEF record
<1>7. /\ dlq' \in [Messages -> DeadLetter \cup {Nil}]
      /\ \A n \in Messages : dlq[n] = Nil <=> dlq'[n] = Nil
      /\ \A n \in Messages : dlq[n] # Nil =>
           dlq'[n].env = dlq[n].env /\ dlq'[n].eligible = dlq[n].eligible
  BY <1>5, <1>6, WriteBackSound
<1>8. /\ issued' \in [Messages -> Identity \cup {Nil}]
      /\ issued'[m] = new
      /\ \A n \in Messages \ {m} : issued'[n] = issued[n]
      /\ \A n \in Messages : issued[n] # Nil => issued'[n] = issued[n]
  BY <1>5 DEF TypeOK
<1>9. TypeOK'
  BY <1>3, <1>5, <1>7, <1>8, PushedType, IdleTypes DEF TypeOK
<1>10. ReadyAgree'
  <2>1. (Genuine(env))'
    BY <1>3, <1>4, <1>8, NilAssumption DEF Genuine
  <2> QED
    BY <1>3, <1>5, <1>8, <2>1, PushedAgree DEF CopiesAgree
<1>11. StoredAgree' /\ DeliveredCopiesLive'
  BY <1>5, <1>7, <1>8 DEF CopiesAgree, StoredAgree, Genuine, DeliveredCopiesLive
<1>12. DeliveredAgree'
  BY <1>5, <1>8, DeliveryType DEF CopiesAgree, DeliveredAgree, Genuine
<1>13. PassesSound'
  BY <1>5, <1>8 DEF PassesSound, PassSound, Genuine, Reading, TypeOK, Pass, Envelope
<1>14. OperatorsSound'
  BY <1>5, <1>7 DEF OperatorsSound, TypeOK, IdleOperator
<1>15. OriginsKept'
  <2> SUFFICES ASSUME NEW n \in Messages, issued'[n] # Nil, issued'[n].origin # Nil
               PROVE  dlq'[issued'[n].origin] # Nil /\ dlq'[issued'[n].origin].eligible
    BY DEF OriginsKept
  <2>1. CASE n = m
    <3>1. issued'[n].origin = old /\ dlq[old] # Nil
      BY <1>1, <1>4, <1>8, <2>1, NilAssumption
    <3> QED
      BY <1>1, <1>7, <3>1
  <2>2. CASE n # m
    <3>1. issued'[n] = issued[n] /\ issued[n] \in Identity
      BY <1>8, <2>2 DEF TypeOK
    <3>2. issued[n].origin \in Messages
      BY <3>1 DEF Identity
    <3>3. dlq[issued[n].origin] # Nil /\ dlq[issued[n].origin].eligible
      BY <3>1 DEF OriginsKept
    <3> QED
      BY <1>7, <3>1, <3>2, <3>3
  <2> QED
    BY <2>1, <2>2
<1> QED
  BY <1>5, <1>9, <1>10, <1>11, <1>12, <1>13, <1>14, <1>15
  DEF CopiesAgree, IndexesAgree, LeaseBacked, RetryWellFormed

LEMMA OperatorGivesUpStep ==
  ASSUME IInv, NEW o \in Operators, OperatorGivesUp(o)
  PROVE  IInv'
<1> USE DEF IInv
<1>1. TypeOK'
  BY IdleTypes DEF OperatorGivesUp, OperatorDone, TypeOK
<1>2. OperatorsSound'
  BY DEF OperatorGivesUp, OperatorDone, TypeOK, OperatorsSound, IdleOperator
<1> QED
  BY <1>1, <1>2
  DEF OperatorGivesUp, IndexesAgree, CopiesAgree, ReadyAgree, StoredAgree, DeliveredAgree,
      Genuine, LeaseBacked, RetryWellFormed, DeliveredCopiesLive, PassesSound, PassSound,
      OriginsKept

LEMMA CancelStep ==
  ASSUME IInv, NEW t \in Tasks, Cancel(t)
  PROVE  IInv'
<1> USE DEF IInv
<1>1. TypeOK'
  BY DEF Cancel, TypeOK
<1>2. IndexesAgree'
  BY DEF Cancel, IndexesAgree
<1>3. StoredAgree' /\ RetryWellFormed' /\ DeliveredCopiesLive'
  BY DEF Cancel, CopiesAgree, StoredAgree, Genuine, RetryWellFormed, DeliveredCopiesLive
<1> QED
  BY <1>1, <1>2, <1>3
  DEF Cancel, CopiesAgree, ReadyAgree, DeliveredAgree, Genuine, LeaseBacked, PassesSound,
      PassSound, OperatorsSound, OriginsKept

-----------------------------------------------------------------------------
(* Lease recovery                                                          *)

\* A step that only moves one pass to another sound state keeps the invariant.
LEMMA PassMoves ==
  ASSUME IInv, NEW r \in Recoverers, NEW pass \in Pass,
         passes' = [passes EXCEPT ![r] = pass],
         UNCHANGED recoveryReadsOnly,
         PassSound(r)'
  PROVE  IInv'
<1> USE DEF IInv
<1>1. TypeOK'
  BY DEF TypeOK
<1>2. PassesSound'
  <2> SUFFICES ASSUME NEW q \in Recoverers, q # r
               PROVE  PassSound(q)'
    BY DEF PassesSound
  <2>1. passes'[q] = passes[q]
    BY DEF TypeOK
  <2> QED
    BY <2>1 DEF PassesSound, PassSound, Genuine
<1> QED
  BY <1>1, <1>2
  DEF IndexesAgree, CopiesAgree, ReadyAgree, StoredAgree, DeliveredAgree, Genuine, LeaseBacked,
      RetryWellFormed, DeliveredCopiesLive, OperatorsSound, OriginsKept

LEMMA DiscoverStep ==
  ASSUME IInv, NEW r \in Recoverers, Discover(r)
  PROVE  IInv'
<1> USE DEF IInv
<1>1. PICK pass \in Pass : pass = [IdlePass EXCEPT !.pc = "scan", !.todo = Expired,
                                                   !.due = Expired]
  BY DEF IdlePass, Pass, Expired
<1>2. /\ pass.pc = "scan" /\ pass.due = Expired /\ pass.env = Nil
      /\ passes' = [passes EXCEPT ![r] = pass] /\ passes'[r] = pass
      /\ UNCHANGED recoveryReadsOnly
  BY <1>1 DEF IdlePass, Discover, TypeOK
<1>3. PassSound(r)'
  BY <1>2 DEF PassSound, Reading, Expired
<1> QED
  BY <1>2, <1>3, PassMoves

LEMMA ReadEnvelopeStep ==
  ASSUME IInv, NEW r \in Recoverers, NEW m \in Messages, ReadEnvelope(r, m)
  PROVE  IInv'
<1> USE DEF IInv
<1>1. passes[r] \in Pass /\ inflight[m] \in Envelope \cup {Nil}
  BY DEF TypeOK
<1>2. PICK pass \in Pass : pass = [passes[r] EXCEPT !.pc = "lease", !.cur = m,
                                                    !.env = inflight[m]]
  BY <1>1 DEF Pass
<1>3. /\ pass.pc = "lease" /\ pass.cur = m /\ pass.env = inflight[m]
      /\ pass.due = passes[r].due
      /\ passes' = [passes EXCEPT ![r] = pass] /\ passes'[r] = pass
      /\ UNCHANGED recoveryReadsOnly
  BY <1>1, <1>2 DEF ReadEnvelope, TypeOK, Pass
<1>4. inflight[m] # Nil =>
        inflight[m].mid = m /\ Genuine(inflight[m]) /\ inflight[m].snap = "live"
  BY DEF CopiesAgree, StoredAgree, LeaseBacked, IndexesAgree, DeliveredAgree
<1>5. PassSound(r)'
  BY <1>3, <1>4 DEF PassSound, PassesSound, Reading, Genuine
<1> QED
  BY <1>3, <1>5, PassMoves

LEMMA ReadLeaseStep ==
  ASSUME IInv, NEW r \in Recoverers, ReadLease(r)
  PROVE  IInv'
<1> USE DEF IInv
<1>1. passes[r] \in Pass /\ (leases[passes[r].cur] # Nil) \in BOOLEAN
  BY DEF TypeOK
<1>2. PICK pass \in Pass : pass = [passes[r] EXCEPT !.pc = "durable",
                                                    !.leased = leases[passes[r].cur] # Nil]
  BY <1>1 DEF Pass
<1>3. /\ pass.pc = "durable" /\ (leases[passes[r].cur] # Nil => pass.leased)
      /\ pass.due = passes[r].due /\ pass.cur = passes[r].cur /\ pass.env = passes[r].env
      /\ passes' = [passes EXCEPT ![r] = pass] /\ passes'[r] = pass
      /\ passes[r].pc = "lease"
      /\ UNCHANGED recoveryReadsOnly
  BY <1>1, <1>2 DEF ReadLease, TypeOK, Pass
<1>4. PassSound(r)'
  BY <1>3 DEF PassSound, PassesSound, Reading, Genuine
<1> QED
  BY <1>3, <1>4, PassMoves

LEMMA ReadDurableStep ==
  ASSUME IInv, NEW r \in Recoverers, NEW terminal \in BOOLEAN, ReadDurable(r, terminal)
  PROVE  IInv'
<1> USE DEF IInv
<1>1. passes[r] \in Pass
  BY DEF TypeOK
<1>2. PICK pass \in Pass : pass = [passes[r] EXCEPT !.pc = "script", !.terminal = terminal]
  BY <1>1 DEF Pass
<1>3. /\ pass.pc = "script" /\ pass.leased = passes[r].leased
      /\ pass.due = passes[r].due /\ pass.cur = passes[r].cur /\ pass.env = passes[r].env
      /\ passes' = [passes EXCEPT ![r] = pass] /\ passes'[r] = pass
      /\ passes[r].pc = "durable"
      /\ UNCHANGED recoveryReadsOnly
  BY <1>1, <1>2 DEF ReadDurable, TypeOK, Pass
<1>4. PassSound(r)'
  BY <1>3 DEF PassSound, PassesSound, Reading, Genuine
<1> QED
  BY <1>3, <1>4, PassMoves

LEMMA RecoveryAbortsStep ==
  ASSUME IInv, NEW r \in Recoverers, RecoveryAborts(r)
  PROVE  IInv'
<1>1. PICK pass \in Pass : pass = IdlePass
  BY IdleTypes
<1>2. passes' = [passes EXCEPT ![r] = pass] /\ passes'[r] = pass /\ UNCHANGED recoveryReadsOnly
  BY <1>1 DEF RecoveryAborts, IInv, TypeOK
<1>3. PassSound(r)'
  BY <1>1, <1>2 DEF PassSound, Reading, IdlePass
<1> QED
  BY <1>2, <1>3, PassMoves

\* Where a pass stands once a candidate is done.
LEMMA CandidateDoneShape ==
  ASSUME IInv, NEW r \in Recoverers, CandidateDone(r)
  PROVE  \E pass \in Pass :
           /\ passes' = [passes EXCEPT ![r] = pass] /\ passes'[r] = pass
           /\ pass.pc \in {"idle", "scan"} /\ pass.env = Nil /\ pass.due \subseteq passes[r].due
<1> DEFINE rest == passes[r].todo \ {passes[r].cur}
<1>1. passes[r].todo \subseteq Messages /\ passes[r].due \subseteq Messages
  BY PassFields DEF IInv, TypeOK
<1>2. CASE rest = {}
  BY <1>2, IdleTypes DEF CandidateDone, IdlePass, IInv, TypeOK
<1>3. CASE rest # {}
  <2>1. PICK pass \in Pass :
          pass = [IdlePass EXCEPT !.pc = "scan", !.todo = rest, !.due = @ \cup passes[r].due]
    BY <1>1 DEF IdlePass, Pass
  <2>2. pass.pc = "scan" /\ pass.env = Nil /\ pass.due = passes[r].due
    BY <2>1 DEF IdlePass
  <2> QED
    BY <1>3, <2>1, <2>2 DEF CandidateDone, IInv, TypeOK
<1> QED
  BY <1>2, <1>3

LEMMA RecoverRenewedStep ==
  ASSUME IInv, NEW r \in Recoverers, RecoverRenewed(r)
  PROVE  IInv'
<1>1. CandidateDone(r) /\ UNCHANGED recoveryReadsOnly
  BY DEF RecoverRenewed
<1>2. PICK pass \in Pass :
        /\ passes' = [passes EXCEPT ![r] = pass] /\ passes'[r] = pass
        /\ pass.pc \in {"idle", "scan"} /\ pass.env = Nil /\ pass.due \subseteq passes[r].due
  BY <1>1, CandidateDoneShape
<1>3. PassSound(r)'
  BY <1>1, <1>2 DEF PassSound, PassesSound, Reading, IInv
<1> QED
  BY <1>1, <1>2, <1>3, PassMoves

LEMMA RecoverOneStep ==
  ASSUME IInv, NEW r \in Recoverers, RecoverOne(r)
  PROVE  IInv'
<1> USE DEF IInv
<1> DEFINE m == passes[r].cur
           drop == leases[m] = Nil \/ inflight[m] = Nil \/ passes[r].terminal
                     \/ Withdrawn(inflight[m])
           bury == ~ drop /\ RecoveryExhausted(passes[r])
           retry == ~ drop /\ ~ bury /\ delayed[m] = Nil
<1>1. m \in Messages /\ m \in passes[r].due /\ passes[r].pc = "script" /\ PassSound(r)
  BY DEF RecoverOne, PassesSound, PassSound, Reading
<1>2. /\ inflight' = [inflight EXCEPT ![m] = Nil]
      /\ leases' = [leases EXCEPT ![m] = Nil]
      /\ leaseExpiry' = [leaseExpiry EXCEPT ![m] = "none"]
      /\ UNCHANGED <<ready, ingressVars, cancelled, workerVars, operators>>
      /\ CandidateDone(r)
  BY DEF RecoverOne, LeaseRemoved
\* The envelope the pass read is the one it now takes out of the inflight hash.
<1>3. ~ drop => /\ passes[r].env = inflight[m] /\ Rebuilt(passes[r])
                /\ passes[r].env \in Envelope /\ passes[r].env.mid = m
                /\ Genuine(passes[r].env) /\ passes[r].env.snap = "live"
  BY <1>1 DEF PassSound, Reading, Rebuilt, TypeOK
<1>4. PICK next : /\ next = NextAttempt(passes[r].env)
                  /\ ~ drop => /\ next \in Envelope /\ next.mid = m /\ next.snap = "live"
                               /\ Genuine(next) /\ next.attempt = passes[r].env.attempt + 1
  BY <1>3, NextAttemptType DEF Genuine
<1>5. /\ dlq' = IF bury /\ dlq[m] = Nil
                  THEN [dlq EXCEPT ![m] = [env |-> next, eligible |-> TRUE,
                                           approval |-> "pending", replayed |-> Nil]]
                  ELSE dlq
      /\ dlqTaskIndex' = IF bury THEN [dlqTaskIndex EXCEPT ![inflight[m].task] = m]
                                 ELSE dlqTaskIndex
      /\ delayed' = IF retry THEN [delayed EXCEPT ![m] = next] ELSE delayed
      /\ delayedDue' = IF retry THEN [delayedDue EXCEPT ![m] = "waiting"] ELSE delayedDue
  BY <1>3, <1>4 DEF RecoverOne, RetryPayload
<1>6. retry => next.attempt \in 1 .. MaximumAttempts - 1
  BY <1>3, <1>4, ConstantsAssumption
  DEF RecoveryExhausted, WithinBudget, Envelope
<1>7. bury => inflight[m].task \in Tasks
  BY <1>3 DEF Envelope
<1>8. bury => [env |-> next, eligible |-> TRUE, approval |-> "pending", replayed |-> Nil]
                \in DeadLetter
  BY <1>4, DeadLetterType
<1> HIDE DEF drop, bury, retry
<1>9. \A n \in Messages : dlq[n] # Nil => dlq'[n] = dlq[n]
  BY <1>1, <1>5 DEF TypeOK
<1>10. (retry => ~ drop) /\ (bury => ~ drop) /\ (retry => delayed[m] = Nil)
  BY DEF bury, retry
<1>11. PICK pass \in Pass :
         /\ passes' = [passes EXCEPT ![r] = pass] /\ passes'[r] = pass
         /\ pass.pc \in {"idle", "scan"} /\ pass.env = Nil /\ pass.due \subseteq passes[r].due
  BY <1>2, CandidateDoneShape
<1> HIDE DEF m
<1>12. TypeOK'
  BY <1>1, <1>2, <1>4, <1>5, <1>7, <1>8, <1>10, <1>11 DEF TypeOK
<1>13. IndexesAgree'
  BY <1>1, <1>2, <1>4, <1>5, <1>10, NilAssumption DEF IndexesAgree, TypeOK
<1>14. StoredAgree'
  BY <1>1, <1>2, <1>4, <1>5, <1>10 DEF CopiesAgree, StoredAgree, Genuine, TypeOK
<1>15. RetryWellFormed'
  BY <1>1, <1>4, <1>5, <1>6, <1>10 DEF RetryWellFormed, TypeOK
<1>16. DeliveredCopiesLive'
  BY <1>1, <1>4, <1>5, <1>10 DEF DeliveredCopiesLive, TypeOK
<1>17. PassesSound'
  <2> SUFFICES ASSUME NEW q \in Recoverers
               PROVE  PassSound(q)'
    BY DEF PassesSound
  <2>1. PassSound(q)
    BY DEF PassesSound
  <2>2. CASE q = r
    BY <1>1, <1>2, <1>11, <2>1, <2>2 DEF PassSound, Reading, TypeOK
  <2>3. CASE q # r
    <3>1. passes'[q] = passes[q]
      BY <1>11, <2>3 DEF TypeOK
    <3> QED
      BY <1>1, <1>2, <2>1, <3>1 DEF PassSound, Reading, Genuine, TypeOK
  <2> QED
    BY <2>2, <2>3
<1>18. LeaseBacked'
  BY <1>1, <1>2 DEF LeaseBacked, TypeOK
<1>19. OperatorsSound' /\ OriginsKept'
  BY <1>2, <1>9 DEF OperatorsSound, OriginsKept, TypeOK, Identity
<1> QED
  BY <1>2, <1>12, <1>13, <1>14, <1>15, <1>16, <1>17, <1>18, <1>19
  DEF CopiesAgree, ReadyAgree, DeliveredAgree, Genuine

-----------------------------------------------------------------------------
(* The inductive invariant and what follows from it                        *)

LEMMA InitIInv == Init => IInv
BY DEF Init, IInv, TypeOK, IndexesAgree, CopiesAgree, ReadyAgree, StoredAgree, DeliveredAgree,
       LeaseBacked, RetryWellFormed, DeliveredCopiesLive, PassesSound, PassSound, Reading,
       OperatorsSound, OriginsKept, IdlePass, IdleOperator, Pass, Operation

\* Every step of the queue keeps the inductive invariant.
LEMMA NextIInv == IInv /\ [Next]_vars => IInv'
<1> SUFFICES ASSUME IInv, [Next]_vars
             PROVE  IInv'
  OBVIOUS
<1>1. CASE Produce
  BY <1>1, EnqueueStep, DedupeExpiresStep DEF Produce
<1>2. CASE Consume
  BY <1>2, ClaimStep, ClaimNoneStep, AcknowledgeStep, RenewLeaseStep, LeaseExpiresStep
  DEF Consume
<1>3. CASE Retry
  BY <1>3, ScheduleFailureStep, DelayElapsesStep, PromoteDueStep DEF Retry
<1>4. CASE Bury
  <2>1. ASSUME NEW o \in Operators, NEW m \in Messages,
               NEW verdict \in {"approved", "denied"}, ApproveRead(o, m, verdict)
        PROVE  IInv'
    BY <2>1, ReadRecordStep DEF ApproveRead
  <2>2. ASSUME NEW o \in Operators, NEW m \in Messages, ReplayRead(o, m)
        PROVE  IInv'
    BY <2>2, ReadRecordStep DEF ReplayRead
  <2> QED
    BY <1>4, <2>1, <2>2, FinalizeStep, ApproveWriteStep, ReplayScriptStep, OperatorGivesUpStep
    DEF Bury
<1>5. CASE \E t \in Tasks : Cancel(t)
  BY <1>5, CancelStep
<1>6. CASE Recover
  BY <1>6, DiscoverStep, ReadEnvelopeStep, ReadLeaseStep, ReadDurableStep, RecoverRenewedStep,
     RecoverOneStep, RecoveryAbortsStep
  DEF Recover
<1>7. CASE UNCHANGED vars
  BY <1>7 DEF vars, IInv, TypeOK, IndexesAgree, CopiesAgree, ReadyAgree, StoredAgree,
              DeliveredAgree, Genuine, LeaseBacked, RetryWellFormed, DeliveredCopiesLive,
              PassesSound, PassSound, OperatorsSound, OriginsKept
<1> QED
  BY <1>1, <1>2, <1>3, <1>4, <1>5, <1>6, <1>7 DEF Next

LEMMA Inductive == Spec => []IInv
BY InitIInv, NextIInv, PTL DEF Spec

\* Every record in Redis and in the hands of its clients has its declared
\* shape, for any number of tasks, messages, workers and recoverers.
THEOREM TypeCorrect == Spec => []TypeOK
<1>1. IInv => TypeOK
  BY DEF IInv
<1> QED
  BY <1>1, Inductive, PTL

\* The scripts keep the inflight, lease and expiry records together, and the
\* delayed records with their due index.
THEOREM IndexesAgreeAlways == Spec => []IndexesAgree
<1>1. IInv => IndexesAgree
  BY DEF IInv
<1> QED
  BY <1>1, Inductive, PTL

\* No copy of a message ever changes identity or list, and nothing with a
\* terminal snapshot is delivered.
THEOREM CopiesAgreeAlways == Spec => []CopiesAgree
<1>1. IInv => CopiesAgree
  BY DEF IInv
<1> QED
  BY <1>1, Inductive, PTL

\* Every lease belongs to one unacknowledged delivery of the inflight envelope.
THEOREM LeaseBackedAlways == Spec => []LeaseBacked
<1>1. IInv => LeaseBacked
  BY DEF IInv
<1> QED
  BY <1>1, Inductive, PTL

\* Every stored retry is promotable and within the attempt budget.
THEOREM RetryWellFormedAlways == Spec => []RetryWellFormed
<1>1. IInv => RetryWellFormed
  BY DEF IInv
<1> QED
  BY <1>1, Inductive, PTL

\* A recovery script that takes a lease acts on what its pass read of it.
THEOREM RecoveryReadsCurrentAlways == Spec => []RecoveryReadsCurrent
<1>1. IInv => RecoveryReadsCurrent
  BY DEF IInv, PassesSound, PassSound, Reading, RecoveryReadsCurrent
<1> QED
  BY <1>1, Inductive, PTL

-----------------------------------------------------------------------------
(* Action properties                                                       *)

\* Messages whose heads are dropped by a claim are withdrawn.
LEMMA DroppedWithdrawn ==
  ASSUME IInv, NEW popped, popped \subseteq Backlog,
         \A q \in popped : Withdrawn(Head(ready[q])),
         NEW m \in Messages, m \in HeadsDropped(popped)
  PROVE  /\ issued[m] # Nil
         /\ issued[m].task \in cancelled \/ issued[m].snap # "live"
         /\ inflight[m] # Nil => Withdrawn(inflight[m])
<1>1. PICK q \in popped : m = Head(ready[q]).mid
  BY DEF HeadsDropped
<1>2. q \in Priorities /\ Genuine(Head(ready[q])) /\ Withdrawn(Head(ready[q]))
  BY HeadType DEF Backlog, IInv, CopiesAgree, ReadyAgree
<1>3. inflight[m] # Nil => inflight[m].mid = m /\ Genuine(inflight[m])
  BY DEF IInv, CopiesAgree, StoredAgree
<1> QED
  BY <1>1, <1>2, <1>3 DEF Genuine, Withdrawn
=============================================================================
