------------------------ MODULE RedisQueueStepProofs ------------------------
(* Proofs of what no step of RedisQueue may do: lose a message, revive a   *)
(* cancelled one, overwrite a decision.                                    *)
EXTENDS RedisQueueProofs

USE DEF leaseVars, retryVars, deadVars, ingressVars, indexVars, workerVars,
        recoveryReadsOnly, Tokens

-----------------------------------------------------------------------------
(* Dead letters                                                            *)

\* Burying a message again, by a worker or by recovery, never changes the
\* record an administrator has decided on: finalize and the recovery script
\* store a record only where there is none.
THEOREM DecisionKeptAlways == Spec => DecisionKept
<1>1. IInv /\ [Next]_vars => [DecisionKeptStep]_vars
  <2> SUFFICES ASSUME IInv, Next, NEW m \in Messages, dlq[m] # Nil, dlq'[m] # dlq[m]
               PROVE  \E o \in Operators : operators[o].mid = m /\ operators'[o] = IdleOperator
    BY DEF DecisionKeptStep
  <2> DEFINE Decided == \E o \in Operators : operators[o].mid = m /\ operators'[o] = IdleOperator
  <2>1. ASSUME NEW k \in Tokens, NEW eligible \in BOOLEAN, Finalize(k, eligible)
        PROVE  FALSE
    BY <2>1 DEF Finalize, IInv, TypeOK
  <2>2. ASSUME NEW r \in Recoverers, RecoverOne(r)
        PROVE  FALSE
    BY <2>2 DEF RecoverOne, IInv, TypeOK
  <2>3. ASSUME NEW o \in Operators, ApproveWrite(o)
        PROVE  Decided
    BY <2>3 DEF ApproveWrite, OperatorDone, IInv, TypeOK
  <2>4. ASSUME NEW o \in Operators, NEW n \in Messages, ReplayScript(o, n)
        PROVE  Decided
    BY <2>4 DEF ReplayScript, OperatorDone, IInv, TypeOK
  <2>5. dlq' # dlq
    OBVIOUS
  <2> HIDE DEF Decided
  <2>6. Decided
    BY <2>1, <2>2, <2>3, <2>4, <2>5
    DEF Next, Produce, Consume, Retry, Bury, Recover, Enqueue, DedupeExpires, Claim, ClaimNone,
        Acknowledge, RenewLease, LeaseExpires, ScheduleFailure, DelayElapses, PromoteDue,
        ApproveRead, ReplayRead, ReadRecord, OperatorGivesUp, Cancel, Discover, ReadEnvelope,
        ReadLease, ReadDurable, RecoverRenewed, RecoveryAborts
  <2> QED
    BY <2>6 DEF Decided
<1> QED
  BY <1>1, Inductive, PTL DEF DecisionKept, Spec

\* What a lone administrator relies on: the record it read is the stored one,
\* and every replayed record carries its mark.
ReplaysMarked ==
  /\ SingleReplay
  /\ \A m \in Messages : issued[m] # Nil /\ issued[m].origin # Nil =>
       dlq[issued[m].origin] # Nil /\ dlq[issued[m].origin].replayed # Nil
  /\ \A o \in Operators : operators[o].pc # "idle" => operators[o].record = dlq[operators[o].mid]

\* With one administrator nobody writes between a read and the write it
\* leads to.
LEMMA ReplaysMarkedStep ==
  ASSUME \A o, p \in Operators : o = p, IInv, ReplaysMarked, [Next]_vars
  PROVE  ReplaysMarked'
<1> USE DEF ReplaysMarked, SingleReplay
<1>1. /\ dlq \in [Messages -> DeadLetter \cup {Nil}] /\ issued \in [Messages -> Identity \cup {Nil}]
      /\ operators \in [Operators -> Operation] /\ deliveries \in Seq(Delivery)
      /\ \A m \in Messages : issued[m] # Nil => issued[m].origin \in Messages \cup {Nil}
      /\ \A o \in Operators : operators[o].pc # "idle" =>
           operators[o].mid \in Messages /\ dlq[operators[o].mid] \in DeadLetter
  BY DEF IInv, TypeOK, OperatorsSound, Identity
<1>2. Nil \notin DeadLetter /\ Nil \notin Messages
  BY NilAssumption
<1>3. ASSUME NEW m \in Messages, dlq[m] = Nil, NEW letter \in DeadLetter, letter.replayed = Nil,
             dlq' = [dlq EXCEPT ![m] = letter], UNCHANGED <<issued, operators>>
      PROVE  ReplaysMarked'
  <2>1. \A o \in Operators : operators[o].pc # "idle" => operators[o].mid # m
    BY <1>1, <1>2, <1>3
  <2> QED
    BY <1>1, <1>2, <1>3, <2>1
<1>4. ASSUME NEW t \in Tasks, NEW m \in Messages, NEW p \in Priorities, NEW s \in EnqueueStates,
             Enqueue(t, m, p, s)
      PROVE  ReplaysMarked'
  <2>1. issued' = [issued EXCEPT ![m] = [task |-> t, snap |-> s, prio |-> p, origin |-> Nil]]
        /\ UNCHANGED <<dlq, operators>>
    BY <1>4 DEF Enqueue
  <2> QED
    BY <1>1, <2>1
<1>5. ASSUME NEW k \in Tokens, NEW eligible \in BOOLEAN, Finalize(k, eligible)
      PROVE  ReplaysMarked'
  <2> DEFINE env == deliveries[k].env
             letter == [env |-> env, eligible |-> eligible, approval |-> "pending", replayed |-> Nil]
  <2>1. env \in Envelope /\ env.mid \in Messages
    BY DeliveryType DEF IInv
  <2>2. letter \in DeadLetter /\ letter.replayed = Nil
    BY <2>1 DEF DeadLetter
  <2>3. dlq[env.mid] = Nil /\ dlq' = [dlq EXCEPT ![env.mid] = letter] /\ UNCHANGED <<issued, operators>>
    BY <1>5 DEF Finalize
  <2> HIDE DEF letter, env
  <2> QED
    BY <1>3, <2>1, <2>2, <2>3
<1>6. ASSUME NEW r \in Recoverers, RecoverOne(r)
      PROVE  ReplaysMarked'
  <2> DEFINE m == passes[r].cur
             letter == [env |-> NextAttempt(passes[r].env), eligible |-> TRUE,
                        approval |-> "pending", replayed |-> Nil]
  <2>1. UNCHANGED <<issued, operators>> /\ m \in Messages
    BY <1>6 DEF RecoverOne, IInv, PassesSound, PassSound, Reading
  <2>2. dlq' = dlq \/ (dlq[m] = Nil /\ dlq' = [dlq EXCEPT ![m] = letter])
    BY <1>6 DEF RecoverOne
  <2>3. CASE dlq' = dlq
    BY <2>1, <2>3
  <2>4. CASE dlq' # dlq
    <3>1. letter \in DeadLetter
      <4>1. passes[r].env # Nil
        BY <1>6, <2>4 DEF RecoverOne, RecoveryExhausted, Rebuilt
      <4>2. passes[r].env \in Envelope
        BY <4>1 DEF IInv, TypeOK, Pass
      <4> QED
        BY <4>2, NextAttemptType, DeadLetterType
    <3>2. letter.replayed = Nil
      OBVIOUS
    <3> HIDE DEF letter, m
    <3> QED
      BY <1>3, <2>1, <2>2, <2>4, <3>1, <3>2
  <2> QED
    BY <2>3, <2>4
<1>7. ASSUME NEW o \in Operators, NEW m \in Messages, NEW pc \in {"approving", "replaying"}, NEW verdict,
             ReadRecord(o, m, pc, verdict)
      PROVE  ReplaysMarked'
  BY <1>1, <1>7 DEF ReadRecord
<1>8. ASSUME NEW o \in Operators, ApproveWrite(o)
      PROVE  ReplaysMarked'
  <2> DEFINE old == operators[o].mid
             new == [operators[o].record EXCEPT !.approval = operators[o].verdict]
  <2>1. old \in Messages /\ operators[o].record = dlq[old] /\ dlq[old] \in DeadLetter
    BY <1>1, <1>8 DEF ApproveWrite
  <2>2. new.replayed = dlq[old].replayed /\ new # Nil
    <3>1. operators[o].verdict \in {"pending", "approved", "denied"}
      BY <1>1 DEF Operation
    <3>2. new \in DeadLetter /\ new.replayed = dlq[old].replayed
      BY <2>1, <3>1 DEF DeadLetter
    <3> QED
      BY <1>2, <3>2
  <2>3. dlq' = [dlq EXCEPT ![old] = new] /\ issued' = issued
        /\ operators' = [operators EXCEPT ![o] = IdleOperator]
    BY <1>8 DEF ApproveWrite, OperatorDone
  <2> HIDE DEF new
  <2>4. \A p \in Operators : operators'[p].pc = "idle"
    BY <1>1, <2>3 DEF IdleOperator
  <2> QED
    BY <1>1, <2>1, <2>2, <2>3, <2>4
<1>9. ASSUME NEW o \in Operators, NEW m \in Messages, ReplayScript(o, m)
      PROVE  ReplaysMarked'
  <2> DEFINE old == operators[o].mid
             new == [operators[o].record EXCEPT !.replayed = m]
             id == [task |-> dlq[old].env.task, snap |-> dlq[old].env.snap,
                    prio |-> dlq[old].env.prio, origin |-> old]
  <2>1. old \in Messages /\ operators[o].record = dlq[old] /\ dlq[old] \in DeadLetter
    BY <1>1, <1>9 DEF ReplayScript
  <2>2. new.replayed = m /\ new # Nil
    <3>1. new \in DeadLetter /\ new.replayed = m
      BY <2>1 DEF DeadLetter
    <3> QED
      BY <1>2, <3>1
  <2>3. dlq' = [dlq EXCEPT ![old] = new] /\ issued' = [issued EXCEPT ![m] = id]
        /\ operators' = [operators EXCEPT ![o] = IdleOperator]
    BY <1>9 DEF ReplayScript, OperatorDone
  <2>4. id.origin = old
    OBVIOUS
  <2>5. \A n \in Messages : issued[n] # Nil => issued[n].origin # old
    BY <1>9, <2>1, <1>2 DEF ReplayScript, ReplayAllowed
  <2> HIDE DEF new, id
  <2>6. \A p \in Operators : operators'[p].pc = "idle"
    BY <1>1, <2>3 DEF IdleOperator
  <2>7. \A n \in Messages : issued'[n] = IF n = m THEN id ELSE issued[n]
    BY <1>1, <2>3
  <2>8. \A n \in Messages : dlq'[n] = IF n = old THEN new ELSE dlq[n]
    BY <1>1, <2>3
  <2>9. SingleReplay'
    BY <2>4, <2>5, <2>7
  <2>10. \A n \in Messages : issued'[n] # Nil /\ issued'[n].origin # Nil =>
           dlq'[issued'[n].origin] # Nil /\ dlq'[issued'[n].origin].replayed # Nil
    BY <1>1, <1>2, <2>1, <2>2, <2>4, <2>7, <2>8
  <2> QED
    BY <2>6, <2>9, <2>10
<1>10. ASSUME NEW o \in Operators, OperatorGivesUp(o)
       PROVE  ReplaysMarked'
  BY <1>1, <1>10 DEF OperatorGivesUp, OperatorDone, IdleOperator
<1>11. CASE UNCHANGED <<dlq, issued, operators>>
  BY <1>11
<1> HIDE DEF ReplaysMarked, SingleReplay
<1> QED
  BY <1>4, <1>5, <1>6, <1>7, <1>8, <1>9, <1>10, <1>11
  DEF Next, Produce, Consume, Retry, Bury, Recover, DedupeExpires, Claim, ClaimNone,
      Acknowledge, RenewLease, LeaseExpires, ScheduleFailure, DelayElapses, PromoteDue,
      ApproveRead, ReplayRead, Cancel, Discover, ReadEnvelope,
      ReadLease, ReadDurable, RecoverRenewed, RecoveryAborts, vars

\* With a single administrator a dead letter is replayed at most once, however
\* its approvals, replays and failures follow each other and however often
\* workers and recovery bury its message again.  (Two administrators can undo
\* each other's mark: the run two_operators shows it.)
THEOREM SingleReplayAlways ==
  ASSUME \A o, p \in Operators : o = p
  PROVE  Spec => []SingleReplay
<1>1. Init => ReplaysMarked
  BY DEF Init, ReplaysMarked, SingleReplay, IdleOperator
<1>2. IInv /\ ReplaysMarked /\ [Next]_vars => ReplaysMarked'
  BY ReplaysMarkedStep
<1>3. ReplaysMarked => SingleReplay
  BY DEF ReplaysMarked
<1> QED
  BY <1>1, <1>2, <1>3, Inductive, PTL DEF Spec

-----------------------------------------------------------------------------
(* The ready lists                                                         *)

\* A push keeps every message in the lists and adds the one pushed.
LEMMA PushedKeeps ==
  ASSUME TypeOK, NEW p \in Priorities, NEW env \in Envelope, ready' = Pushed(p, env),
         NEW m
  PROVE  InReady(m)' <=> InReady(m) \/ m = env.mid
<1>1. InReady(m)' => InReady(m) \/ m = env.mid
  BY PushedCopies DEF InReady
<1>2. ASSUME InReady(m)
      PROVE  InReady(m)'
  <2>0. PICK q \in Priorities : \E i \in DOMAIN ready[q] : ready[q][i].mid = m
    BY <1>2 DEF InReady
  <2>1. PICK i \in DOMAIN ready[q] : ready[q][i].mid = m
    BY <2>0
  <2>2. i \in DOMAIN ready'[q] /\ ready'[q][i] = ready[q][i]
    BY <2>1 DEF Pushed, TypeOK
  <2> QED
    BY <2>1, <2>2 DEF InReady
<1>3. ASSUME m = env.mid
      PROVE  InReady(m)'
  <2>1. Len(ready[p]) + 1 \in DOMAIN ready'[p] /\ ready'[p][Len(ready[p]) + 1] = env
    BY DEF Pushed, TypeOK
  <2> QED
    BY <1>3, <2>1 DEF InReady
<1> QED
  BY <1>1, <1>2, <1>3

\* A pop adds nothing and takes only the heads popped.
LEMMA PopHeadsKeeps ==
  ASSUME TypeOK, NEW popped, popped \subseteq Backlog, PopHeads(popped), NEW m
  PROVE  /\ InReady(m)' => InReady(m)
         /\ InReady(m) => InReady(m)' \/ m \in HeadsDropped(popped)
<1>0. \A q \in Priorities : ready'[q] = IF q \in popped THEN Tail(ready[q]) ELSE ready[q]
  BY DEF PopHeads
<1>1. ASSUME InReady(m)'
      PROVE  InReady(m)
  <2>0. PICK q \in Priorities : \E i \in DOMAIN ready'[q] : ready'[q][i].mid = m
    BY <1>1 DEF InReady
  <2>1. PICK i \in DOMAIN ready'[q] : ready'[q][i].mid = m
    BY <2>0
  <2>2. \E j \in DOMAIN ready[q] : ready'[q][i] = ready[q][j]
    <3>1. CASE q \notin popped
      BY <1>0, <2>1, <3>1
    <3>2. CASE q \in popped
      <4>1. i \in DOMAIN Tail(ready[q]) /\ ready'[q][i] = Tail(ready[q])[i]
        BY <1>0, <2>1, <3>2
      <4>2. i + 1 \in DOMAIN ready[q] /\ Tail(ready[q])[i] = ready[q][i + 1]
        BY <3>2, <4>1, HeadType DEF Backlog
      <4> QED
        BY <4>1, <4>2
    <3> QED
      BY <3>1, <3>2
  <2> QED
    BY <2>1, <2>2 DEF InReady
<1>2. ASSUME InReady(m), m \notin HeadsDropped(popped)
      PROVE  InReady(m)'
  <2>0. PICK q \in Priorities : \E i \in DOMAIN ready[q] : ready[q][i].mid = m
    BY <1>2 DEF InReady
  <2>1. PICK i \in DOMAIN ready[q] : ready[q][i].mid = m
    BY <2>0
  <2>2. CASE q \notin popped
    BY <1>0, <2>1, <2>2 DEF InReady
  <2>3. CASE q \in popped
    <3>1. ready[q] # <<>> /\ Head(ready[q]) = ready[q][1]
      BY <2>3, HeadType DEF Backlog
    <3>2. i # 1
      BY <1>2, <2>1, <2>3, <3>1 DEF HeadsDropped
    <3>3. i - 1 \in DOMAIN Tail(ready[q]) /\ Tail(ready[q])[i - 1] = ready[q][i]
      BY <2>1, <3>1, <3>2 DEF TypeOK
    <3> QED
      BY <1>0, <2>1, <2>3, <3>3 DEF InReady
  <2> QED
    BY <2>2, <2>3
<1> QED
  BY <1>1, <1>2

-----------------------------------------------------------------------------
(* Tombstones                                                              *)

\* The script that pops a head pops a message filed under its own identity.
LEMMA HeadGenuine ==
  ASSUME IInv, NEW p \in Backlog
  PROVE  /\ Head(ready[p]) \in Envelope
         /\ Head(ready[p]).mid \in Messages
         /\ Genuine(Head(ready[p]))
<1>1. /\ p \in Priorities /\ ready[p] # <<>>
      /\ TypeOK /\ ReadyAgree
  BY DEF Backlog, IInv, CopiesAgree
<1>2. Head(ready[p]) \in Envelope /\ Head(ready[p]) = ready[p][1] /\ 1 \in DOMAIN ready[p]
  BY <1>1, HeadType DEF TypeOK
<1> QED
  BY <1>1, <1>2 DEF ReadyAgree, Envelope

\* A tombstone is final: claims, retries, promotions and recoveries of a
\* cancelled task's messages, and replays of its dead letters, stop with it.
THEOREM TombstoneFinalAlways == Spec => TombstoneFinal
<1>1. IInv /\ [Next]_vars => [TombstoneFinalStep]_vars
  <2> SUFFICES ASSUME IInv, Next, NEW m \in Messages, issued'[m] # Nil,
                      issued'[m].task \in cancelled
               PROVE  /\ issued[m] # Nil =>
                           /\ leases[m] = Nil => leases'[m] = Nil
                           /\ delayed[m] = Nil => delayed'[m] = Nil
                           /\ ~ InReady(m) => ~ InReady(m)'
                      /\ issued[m] = Nil => issued'[m].origin = Nil
    BY DEF TombstoneFinalStep
  <2> DEFINE Final == /\ issued[m] # Nil =>
                           /\ leases[m] = Nil => leases'[m] = Nil
                           /\ delayed[m] = Nil => delayed'[m] = Nil
                           /\ ~ InReady(m) => ~ InReady(m)'
                      /\ issued[m] = Nil => issued'[m].origin = Nil
  <2>0. TypeOK
    BY DEF IInv
  <2>1. ASSUME NEW t \in Tasks, NEW n \in Messages, NEW p \in Priorities,
               NEW s \in EnqueueStates, Enqueue(t, n, p, s)
        PROVE  Final
    <3> DEFINE env == [mid |-> n, task |-> t, snap |-> s, prio |-> p, attempt |-> 0]
    <3>1. env \in Envelope
      BY ConstantsAssumption DEF Envelope
    <3>2. issued[m] # Nil => m # n
      BY <2>1 DEF Enqueue
    <3>3. issued[m] = Nil => issued'[m].origin = Nil
      BY <2>0, <2>1 DEF Enqueue, TypeOK
    <3>4. m # n => (InReady(m)' <=> InReady(m))
      BY <2>0, <2>1, <3>1, PushedKeeps DEF Enqueue
    <3> QED
      BY <2>1, <3>2, <3>3, <3>4 DEF Enqueue
  <2>2. ASSUME NEW w \in Workers, NEW p \in Priorities, Claim(w, p)
        PROVE  Final
    <3> DEFINE head == Head(ready[p])
    <3>1. p \in Backlog /\ ~ Withdrawn(head)
      BY <2>2 DEF Claim, Deliverable
    <3>2. Genuine(head) /\ head.mid \in Messages
      BY <3>1, HeadGenuine
    <3>3. issued' = issued
      BY <2>2 DEF Claim
    <3>4. m # head.mid
      BY <3>1, <3>2, <3>3 DEF Genuine, Withdrawn
    <3>5. leases[m] = Nil => leases'[m] = Nil
      BY <2>2, <3>4 DEF Claim
    <3>6. InReady(m)' => InReady(m)
      <4>1. {q \in Backlog : q <= p} \subseteq Backlog
        OBVIOUS
      <4> QED
        BY <2>0, <2>2, <4>1, PopHeadsKeeps DEF Claim
    <3> QED
      BY <2>2, <3>3, <3>5, <3>6 DEF Claim
  <2>3. ASSUME ClaimNone
        PROVE  Final
    <3>1. InReady(m)' => InReady(m)
      BY <2>0, <2>3, PopHeadsKeeps DEF ClaimNone
    <3> QED
      BY <2>3, <3>1 DEF ClaimNone
  <2>4. ASSUME NEW k \in Tokens, ScheduleFailure(k)
        PROVE  Final
    <3>1. Genuine(deliveries[k].env)
      BY DEF IInv, CopiesAgree, DeliveredAgree
    <3>2. m # deliveries[k].env.mid
      BY <2>4, <3>1 DEF ScheduleFailure, Genuine
    <3> QED
      BY <2>0, <2>4, <3>2 DEF ScheduleFailure, TypeOK, InReady
  <2>5. ASSUME NEW n \in Messages, PromoteDue(n)
        PROVE  Final
    <3>1. CASE ready' = ready
      BY <2>0, <2>5, <3>1 DEF PromoteDue, TypeOK, InReady
    <3>2. CASE ready' # ready
      <4>1. /\ delayed[n] # Nil /\ ~ Withdrawn(delayed[n])
            /\ ready' = Pushed(delayed[n].prio, delayed[n])
        BY <2>5, <3>2 DEF PromoteDue
      <4>2. delayed[n].mid = n /\ Genuine(delayed[n]) /\ delayed[n] \in Envelope
        BY <4>1 DEF IInv, CopiesAgree, StoredAgree, RetryWellFormed
      <4>3. m # n
        BY <2>5, <4>1, <4>2 DEF PromoteDue, Withdrawn, Genuine
      <4>4. InReady(m)' <=> InReady(m)
        BY <2>0, <4>1, <4>2, <4>3, PushedKeeps DEF Envelope
      <4> QED
        BY <2>0, <2>5, <4>4 DEF PromoteDue, TypeOK
    <3> QED
      BY <3>1, <3>2
  <2>6. ASSUME NEW o \in Operators, NEW n \in Messages, ReplayScript(o, n)
        PROVE  Final
    <3> DEFINE env == dlq[operators[o].mid].env
    <3>1. dlq[operators[o].mid] \in DeadLetter
      BY <2>0, <2>6 DEF ReplayScript, IInv, OperatorsSound, TypeOK
    <3>2. env \in Envelope /\ env.task \notin cancelled
      BY <2>6, <3>1 DEF ReplayScript, ReplayAllowed, DeadLetter
    <3>3. m # n
      BY <2>0, <2>6, <3>2 DEF ReplayScript, TypeOK
    <3>4. [env EXCEPT !.mid = n] \in Envelope /\ [env EXCEPT !.mid = n].mid = n
          /\ env.prio \in Priorities
      BY <3>2 DEF Envelope
    <3>5. InReady(m)' <=> InReady(m)
      BY <2>0, <2>6, <3>3, <3>4, PushedKeeps DEF ReplayScript
    <3>6. issued'[m] = issued[m]
      BY <2>0, <2>6, <3>3 DEF ReplayScript, TypeOK
    <3> QED
      BY <2>6, <3>5, <3>6 DEF ReplayScript
  <2>7. ASSUME NEW r \in Recoverers, RecoverOne(r)
        PROVE  Final
    <3> DEFINE n == passes[r].cur
    <3>1. issued' = issued /\ ready' = ready
      BY <2>7 DEF RecoverOne
    <3>2. leases[m] = Nil => leases'[m] = Nil
      BY <2>0, <2>7 DEF RecoverOne, LeaseRemoved, TypeOK
    <3>3. ASSUME delayed'[m] # delayed[m]
          PROVE  FALSE
      <4>1. m = n /\ inflight[n] # Nil /\ ~ Withdrawn(inflight[n])
        BY <2>0, <2>7, <3>3 DEF RecoverOne, TypeOK
      <4>2. inflight[m].mid = m /\ Genuine(inflight[m])
        BY <4>1 DEF IInv, CopiesAgree, StoredAgree
      <4> QED
        BY <3>1, <4>1, <4>2 DEF Genuine, Withdrawn
    <3> QED
      BY <3>1, <3>2, <3>3 DEF InReady
  <2>8. ASSUME NEW t \in Tasks, Cancel(t)
        PROVE  Final
    BY <2>8 DEF Cancel, InReady
  <2>9. ASSUME NEW k \in Tokens, Acknowledge(k)
        PROVE  Final
    BY <2>0, <2>9 DEF Acknowledge, LeaseRemoved, TypeOK, InReady
  <2>10. ASSUME UNCHANGED <<ready, leases, delayed, issued>>
         PROVE  Final
    BY <2>10 DEF InReady
  <2> HIDE DEF Final
  <2>11. Final
    BY <2>1, <2>2, <2>3, <2>4, <2>5, <2>6, <2>7, <2>8, <2>9, <2>10
    DEF Next, Produce, Consume, Retry, Bury, Recover, DedupeExpires, RenewLease, LeaseExpires,
        DelayElapses, Finalize, ApproveRead, ReplayRead, ReadRecord, ApproveWrite,
        OperatorGivesUp, Discover, ReadEnvelope, ReadLease, ReadDurable, RecoverRenewed,
        RecoveryAborts
  <2> QED
    BY <2>11 DEF Final
<1> QED
  BY <1>1, Inductive, PTL DEF TombstoneFinal, Spec

-----------------------------------------------------------------------------
(* No message is lost                                                      *)

\* Only an enqueue writes the index, under a message id not used before.
LEMMA TaskIndexAlways == Spec => []TaskIndexSound
<1>1. Init => TaskIndexSound
  BY DEF Init, TaskIndexSound
<1>2. IInv /\ TaskIndexSound /\ [Next]_vars => TaskIndexSound'
  <2> SUFFICES ASSUME TypeOK, TaskIndexSound, [Next]_vars
               PROVE  TaskIndexSound'
    BY DEF IInv
  <2>1. ASSUME NEW t \in Tasks, NEW n \in Messages, NEW p \in Priorities,
               NEW s \in EnqueueStates, Enqueue(t, n, p, s)
        PROVE  TaskIndexSound'
    <3> DEFINE identity == [task |-> t, snap |-> s, prio |-> p, origin |-> Nil]
    <3>1. identity \in Identity /\ identity.task = t
      BY ConstantsAssumption DEF Identity
    <3>2. issued' = [issued EXCEPT ![n] = identity] /\ taskIndex' = [taskIndex EXCEPT ![t] = n]
          /\ issued[n] = Nil
      BY <2>1 DEF Enqueue
    <3> HIDE DEF identity
    <3> QED
      BY <3>1, <3>2, NilAssumption DEF TaskIndexSound, TypeOK
  <2>2. ASSUME NEW o \in Operators, NEW n \in Messages, ReplayScript(o, n)
        PROVE  TaskIndexSound'
    BY <2>2 DEF ReplayScript, TaskIndexSound, TypeOK
  <2>3. ASSUME UNCHANGED <<taskIndex, issued>>
        PROVE  TaskIndexSound'
    BY <2>3 DEF TaskIndexSound
  <2> QED
    BY <2>1, <2>2, <2>3
    DEF Next, Produce, Consume, Retry, Bury, Recover, DedupeExpires, Claim, ClaimNone,
        Acknowledge, RenewLease, LeaseExpires, ScheduleFailure, DelayElapses, PromoteDue,
        Finalize, ApproveRead, ReplayRead, ReadRecord, ApproveWrite, OperatorGivesUp, Cancel,
        Discover, ReadEnvelope, ReadLease, ReadDurable, RecoverRenewed, RecoverOne,
        RecoveryAborts, vars
<1> QED
  BY <1>1, <1>2, Inductive, PTL DEF Spec

\* No script loses a message: what leaves the lists, the leases, the retries
\* and the dead letters was acknowledged by its owner, cancelled or terminal.
THEOREM NoMessageLostAlways == Spec => NoMessageLost
<1>1. IInv /\ TaskIndexSound /\ [Next]_vars => [NoMessageLostStep]_vars
  <2> SUFFICES ASSUME IInv, TaskIndexSound, Next, NEW m \in Messages, Located(m), ~ Located(m)'
               PROVE  MayVanish(m)
    BY DEF NoMessageLostStep
  <2>0. TypeOK
    BY DEF IInv
  <2>1. ASSUME NEW t \in Tasks, NEW n \in Messages, NEW p \in Priorities,
               NEW s \in EnqueueStates, Enqueue(t, n, p, s)
        PROVE  FALSE
    <3> DEFINE env == [mid |-> n, task |-> t, snap |-> s, prio |-> p, attempt |-> 0]
    <3>1. env \in Envelope
      BY ConstantsAssumption DEF Envelope
    <3>2. InReady(m) => InReady(m)'
      BY <2>0, <2>1, <3>1, PushedKeeps DEF Enqueue
    <3> QED
      BY <2>1, <3>2 DEF Enqueue, Located
  <2>2. ASSUME NEW w \in Workers, NEW p \in Priorities, Claim(w, p)
        PROVE  MayVanish(m)
    <3> DEFINE head == Head(ready[p])
               lower == {q \in Backlog : q < p}
               popped == {q \in Backlog : q <= p}
    <3>1. p \in Backlog /\ p \in Int /\ Backlog \subseteq Int
      BY <2>2 DEF Claim, Deliverable, Backlog, Priorities
    <3>2. head \in Envelope /\ head # Nil
      BY <3>1, HeadGenuine, NilAssumption
    <3>3. m # head.mid
      BY <2>2, <3>2 DEF Claim, Located
    <3>4. m \in HeadsDropped(popped) => m \in HeadsDropped(lower)
      BY <3>1, <3>3 DEF HeadsDropped
    <3>5. InReady(m) => InReady(m)' \/ m \in HeadsDropped(popped)
      BY <2>0, <2>2, PopHeadsKeeps DEF Claim
    <3>6. m \in HeadsDropped(lower)
      BY <2>2, <3>3, <3>4, <3>5 DEF Claim, Located
    <3>7. \A q \in lower : Withdrawn(Head(ready[q]))
      BY <2>2 DEF Claim, Deliverable, Backlog, Priorities
    <3>8. issued[m].task \in cancelled \/ issued[m].snap # "live"
      BY <3>6, <3>7, DroppedWithdrawn
    <3> QED
      BY <2>2, <3>8 DEF Claim, MayVanish
  <2>3. ASSUME ClaimNone
        PROVE  MayVanish(m)
    <3>1. InReady(m) => InReady(m)' \/ m \in HeadsDropped(Backlog)
      BY <2>0, <2>3, PopHeadsKeeps DEF ClaimNone
    <3>2. m \in HeadsDropped(Backlog)
      BY <2>3, <3>1 DEF ClaimNone, Located
    <3>3. \A q \in Backlog : Withdrawn(Head(ready[q]))
      BY <2>3 DEF ClaimNone, Deliverable
    <3>4. issued[m].task \in cancelled \/ issued[m].snap # "live"
      BY <3>2, <3>3, DroppedWithdrawn
    <3> QED
      BY <2>3, <3>4 DEF ClaimNone, MayVanish
  <2>4. ASSUME NEW k \in Tokens, Acknowledge(k)
        PROVE  MayVanish(m)
    <3>1. m = deliveries[k].env.mid
      BY <2>0, <2>4 DEF Acknowledge, LeaseRemoved, Located, InReady, TypeOK
    <3>2. k \in acked' \ acked
      BY <2>4, <3>1 DEF Acknowledge, Owns, IInv, LeaseBacked
    <3> QED
      BY <3>1, <3>2 DEF MayVanish
  <2>5. ASSUME NEW k \in Tokens, ScheduleFailure(k)
        PROVE  FALSE
    <3>1. NextAttempt(deliveries[k].env) # Nil /\ deliveries[k].env.mid \in Messages
      BY <2>0, DeliveryType, NextAttemptType, NilAssumption
    <3> QED
      BY <2>0, <2>5, <3>1 DEF ScheduleFailure, Located, InReady, TypeOK
  <2>6. ASSUME NEW n \in Messages, PromoteDue(n)
        PROVE  MayVanish(m)
    <3>1. CASE ready' = ready
      <4>1. m = n /\ delayed[m] # Nil
        BY <2>0, <2>6, <3>1 DEF PromoteDue, Located, InReady, TypeOK
      <4>2. Genuine(delayed[m]) /\ delayed[m].mid = m /\ delayed[m] \in Envelope
        BY <4>1 DEF IInv, CopiesAgree, StoredAgree, RetryWellFormed
      <4>3. Pushed(delayed[m].prio, delayed[m]) # ready
        <5>1. delayed[m].prio \in Priorities
          BY <4>2 DEF Envelope
        <5>2. Len(Pushed(delayed[m].prio, delayed[m])[delayed[m].prio])
                = Len(ready[delayed[m].prio]) + 1
          BY <2>0, <4>2, <5>1 DEF Pushed, TypeOK
        <5>3. Len(ready[delayed[m].prio]) \in Nat
          BY <2>0, <5>1 DEF TypeOK
        <5> QED
          BY <5>2, <5>3
      <4>4. Withdrawn(delayed[m])
        BY <2>6, <3>1, <4>1, <4>3 DEF PromoteDue
      <4> QED
        BY <2>6, <4>2, <4>4 DEF PromoteDue, Withdrawn, Genuine, MayVanish
    <3>2. CASE ready' # ready
      <4>1. delayed[n] # Nil /\ ready' = Pushed(delayed[n].prio, delayed[n])
        BY <2>6, <3>2 DEF PromoteDue
      <4>2. delayed[n].mid = n /\ delayed[n] \in Envelope /\ delayed[n].prio \in Priorities
        BY <4>1 DEF IInv, CopiesAgree, StoredAgree, RetryWellFormed, Envelope
      <4>3. InReady(m)' <=> InReady(m) \/ m = n
        BY <2>0, <4>1, <4>2, PushedKeeps
      <4> QED
        BY <2>0, <2>6, <4>3 DEF PromoteDue, Located, TypeOK
    <3> QED
      BY <3>1, <3>2
  <2>7. ASSUME NEW k \in Tokens, NEW eligible \in BOOLEAN, Finalize(k, eligible)
        PROVE  FALSE
    <3> DEFINE record == [env |-> deliveries[k].env, eligible |-> eligible,
                          approval |-> "pending", replayed |-> Nil]
    <3>1. record # Nil
      BY <2>0, DeliveryType, DeadLetterType, NilAssumption
    <3> QED
      BY <2>0, <2>7, <3>1 DEF Finalize, Located, InReady, TypeOK
  <2>8. ASSUME NEW o \in Operators, ApproveWrite(o)
        PROVE  FALSE
    <3>1. operators[o].record \in DeadLetter
          /\ operators[o].verdict \in {"pending", "approved", "denied"}
      BY <2>0, <2>8 DEF ApproveWrite, IInv, OperatorsSound, TypeOK, Operation
    <3>2. [operators[o].record EXCEPT !.approval = operators[o].verdict] # Nil
      BY <3>1, RecordType, NilAssumption
    <3> QED
      BY <2>0, <2>8, <3>2 DEF ApproveWrite, Located, InReady, TypeOK
  <2>9. ASSUME NEW o \in Operators, NEW n \in Messages, ReplayScript(o, n)
        PROVE  FALSE
    <3> DEFINE env == dlq[operators[o].mid].env
    <3>1. operators[o].record \in DeadLetter /\ dlq[operators[o].mid] \in DeadLetter
      BY <2>0, <2>9 DEF ReplayScript, IInv, OperatorsSound, TypeOK, Operation
    <3>2. [operators[o].record EXCEPT !.replayed = n] # Nil
      BY <3>1, RecordType, NilAssumption
    <3>3. [env EXCEPT !.mid = n] \in Envelope /\ env.prio \in Priorities
      BY <3>1 DEF DeadLetter, Envelope
    <3>4. InReady(m) => InReady(m)'
      BY <2>0, <2>9, <3>3, PushedKeeps DEF ReplayScript
    <3> QED
      BY <2>0, <2>9, <3>2, <3>4 DEF ReplayScript, Located, TypeOK
  <2>10. ASSUME NEW t \in Tasks, Cancel(t)
         PROVE  MayVanish(m)
    <3>1. m = taskIndex[t]
      BY <2>10 DEF Cancel, Located, InReady
    <3>2. issued[m].task = t
      BY <3>1, NilAssumption DEF TaskIndexSound
    <3> QED
      BY <2>10, <3>2 DEF Cancel, MayVanish
  <2>11. ASSUME NEW r \in Recoverers, RecoverOne(r)
         PROVE  MayVanish(m)
    <3>1. m = passes[r].cur
      BY <2>0, <2>11 DEF RecoverOne, LeaseRemoved, Located, InReady, TypeOK
    <3>2. leaseExpiry[m] # "none" /\ passes[r].pc = "script" /\ m \in passes[r].due
      BY <2>11, <3>1 DEF RecoverOne
    <3>3. leases[m] # Nil /\ inflight[m] # Nil
      BY <3>2 DEF IInv, IndexesAgree
    <3>4. inflight[m].mid = m /\ Genuine(inflight[m])
      BY <3>3 DEF IInv, CopiesAgree, StoredAgree
    <3>5. passes[r].env = inflight[m] /\ passes[r].leased /\ passes[r].env \in Envelope
      BY <2>0, <3>1, <3>2, <3>3 DEF IInv, PassesSound, PassSound, Reading, TypeOK
    <3>6. NextAttempt(passes[r].env) # Nil /\ RetryPayload(passes[r]) # Nil
      BY <3>5, NextAttemptType, NilAssumption DEF RetryPayload
    <3>7. CASE passes[r].terminal
      BY <3>1, <3>2, <3>7 DEF MayVanish
    <3>8. CASE Withdrawn(inflight[m])
      BY <2>11, <3>4, <3>8 DEF RecoverOne, Withdrawn, Genuine, MayVanish
    <3>9. CASE ~ passes[r].terminal /\ ~ Withdrawn(inflight[m]) /\ RecoveryExhausted(passes[r])
      <4>1. [env |-> NextAttempt(passes[r].env), eligible |-> TRUE, approval |-> "pending",
             replayed |-> Nil] # Nil
        BY <3>5, NextAttemptType, DeadLetterType, NilAssumption
      <4>2. dlq'[m] # Nil
        BY <2>0, <2>11, <3>1, <3>3, <3>9, <4>1 DEF RecoverOne, TypeOK
      <4> QED
        BY <4>2 DEF Located
    <3>10. CASE ~ passes[r].terminal /\ ~ Withdrawn(inflight[m]) /\ ~ RecoveryExhausted(passes[r])
      <4>1. delayed'[m] # Nil
        BY <2>0, <2>11, <3>1, <3>3, <3>6, <3>10 DEF RecoverOne, TypeOK
      <4> QED
        BY <4>1 DEF Located
    <3> QED
      BY <3>7, <3>8, <3>9, <3>10
  <2>12. ASSUME UNCHANGED <<ready, inflight, delayed, dlq>>
         PROVE  FALSE
    BY <2>12 DEF Located, InReady
  <2> QED
    BY <2>1, <2>2, <2>3, <2>4, <2>5, <2>6, <2>7, <2>8, <2>9, <2>10, <2>11, <2>12
    DEF Next, Produce, Consume, Retry, Bury, Recover, DedupeExpires, RenewLease, LeaseExpires,
        DelayElapses, ApproveRead, ReplayRead, ReadRecord, OperatorGivesUp, Discover,
        ReadEnvelope, ReadLease, ReadDurable, RecoverRenewed, RecoveryAborts
<1> QED
  BY <1>1, Inductive, TaskIndexAlways, PTL DEF NoMessageLost, Spec

-----------------------------------------------------------------------------
(* A retry waits while its delivery is still leased                        *)

\* A message is somewhere other than with the worker that leases it.
Held(m) == InReady(m) \/ delayed[m] # Nil \/ dlq[m] # Nil

\* Message ids are issued once, together with a list entry.
LEMMA IssuedOnce ==
  ASSUME IInv, [Next]_vars, NEW m \in Messages
  PROVE  /\ issued[m] # Nil => issued'[m] = issued[m]
         /\ issued[m] = Nil /\ issued'[m] # Nil => InReady(m)'
<1>0. TypeOK
  BY DEF IInv
<1>1. ASSUME NEW t \in Tasks, NEW n \in Messages, NEW p \in Priorities,
             NEW s \in EnqueueStates, Enqueue(t, n, p, s)
      PROVE  /\ issued[m] # Nil => issued'[m] = issued[m]
             /\ issued'[m] # issued[m] => InReady(m)'
  <2> DEFINE env == [mid |-> n, task |-> t, snap |-> s, prio |-> p, attempt |-> 0]
  <2>1. env \in Envelope /\ env.mid = n
    BY ConstantsAssumption DEF Envelope
  <2>2. ready' = Pushed(p, env) /\ issued[n] = Nil
        /\ \A x \in Messages : x # n => issued'[x] = issued[x]
    BY <1>0, <1>1 DEF Enqueue, TypeOK
  <2> HIDE DEF env
  <2>3. InReady(n)'
    BY <1>0, <2>1, <2>2, PushedKeeps
  <2> QED
    BY <2>2, <2>3
<1>2. ASSUME NEW o \in Operators, NEW n \in Messages, ReplayScript(o, n)
      PROVE  /\ issued[m] # Nil => issued'[m] = issued[m]
             /\ issued'[m] # issued[m] => InReady(m)'
  <2> DEFINE old == dlq[operators[o].mid].env
             env == [old EXCEPT !.mid = n]
  <2>1. old \in Envelope
    BY <1>0, <1>2 DEF ReplayScript, IInv, OperatorsSound, TypeOK, DeadLetter
  <2>2. env \in Envelope /\ env.mid = n /\ old.prio \in Priorities
    BY <2>1 DEF Envelope
  <2>3. ready' = Pushed(old.prio, env) /\ issued[n] = Nil
        /\ \A x \in Messages : x # n => issued'[x] = issued[x]
    BY <1>0, <1>2 DEF ReplayScript, TypeOK
  <2> HIDE DEF env, old
  <2>4. InReady(n)'
    BY <1>0, <2>2, <2>3, PushedKeeps
  <2> QED
    BY <2>3, <2>4
<1>3. CASE issued' = issued
  BY <1>3
<1> QED
  BY <1>1, <1>2, <1>3
  DEF Next, Produce, Consume, Retry, Bury, Recover, DedupeExpires, Claim, ClaimNone,
      Acknowledge, RenewLease, LeaseExpires, ScheduleFailure, DelayElapses, PromoteDue,
      Finalize, ApproveRead, ReplayRead, ReadRecord, ApproveWrite, OperatorGivesUp, Cancel,
      Discover, ReadEnvelope, ReadLease, ReadDurable, RecoverRenewed, RecoverOne,
      RecoveryAborts, vars

\* What was delivered stays as it was delivered.
LEMMA DeliveriesKept ==
  ASSUME IInv, [Next]_vars, NEW k \in Tokens
  PROVE  deliveries'[k] = deliveries[k]
<1>1. ASSUME NEW w \in Workers, NEW p \in Priorities, Claim(w, p)
      PROVE  deliveries'[k] = deliveries[k]
  <2>1. [env |-> Head(ready[p]), worker |-> w] \in Delivery
    BY <1>1, HeadGenuine DEF Claim, Deliverable, Delivery
  <2> QED
    BY <1>1, <2>1 DEF Claim, IInv, TypeOK
<1>2. deliveries' = deliveries \/ \E w \in Workers, p \in Priorities : Claim(w, p)
  BY DEF Next, Produce, Consume, Retry, Bury, Recover, Enqueue, DedupeExpires, ClaimNone,
     Acknowledge, RenewLease, LeaseExpires, ScheduleFailure, DelayElapses, PromoteDue,
     Finalize, ApproveRead, ReplayRead, ReadRecord, ApproveWrite, ReplayScript, OperatorGivesUp,
     Cancel, Discover, ReadEnvelope, ReadLease, ReadDurable, RecoverRenewed, RecoverOne,
     RecoveryAborts, vars
<1> QED
  BY <1>1, <1>2

-----------------------------------------------------------------------------
(* One copy of a message until a delivery reports a failure                *)

\* What no list holds and nobody leases: an id that was not yet issued.
LEMMA FreshNowhere ==
  ASSUME IInv, NEW m \in Messages, issued[m] = Nil
  PROVE  leases[m] = Nil /\ delayed[m] = Nil /\ ~ InReady(m)
<1>1. inflight[m] = Nil /\ delayed[m] = Nil
  BY DEF IInv, CopiesAgree, StoredAgree, Genuine
<1>2. ~ InReady(m)
  BY DEF IInv, CopiesAgree, ReadyAgree, Genuine, InReady
<1> QED
  BY <1>1, <1>2 DEF IInv, IndexesAgree

\* A push leaves one entry of a message that had at most one, unless it pushes
\* a message that is already listed.
LEMMA PushedOnce ==
  ASSUME TypeOK, NEW p \in Priorities, NEW env \in Envelope, ready' = Pushed(p, env),
         NEW m, ListedOnce(m), m = env.mid => ~ InReady(m)
  PROVE  ListedOnce(m)'
<1>1. ASSUME NEW q \in Priorities, NEW i \in DOMAIN ready'[q], ready'[q][i].mid = m
      PROVE  \/ i \in DOMAIN ready[q] /\ ready[q][i].mid = m
             \/ q = p /\ i = Len(ready[p]) + 1 /\ m = env.mid
  BY <1>1 DEF TypeOK, Pushed
<1>2. \A q \in Priorities : \A i \in DOMAIN ready[q] : ready[q][i].mid = m => m # env.mid
  BY DEF InReady
<1> QED
  BY <1>1, <1>2 DEF ListedOnce

\* A pop keeps at most one entry, and none of a message whose only one it took.
LEMMA PopHeadsOnce ==
  ASSUME TypeOK, NEW popped, popped \subseteq Backlog, PopHeads(popped), NEW m, ListedOnce(m)
  PROVE  /\ ListedOnce(m)'
         /\ m \in HeadsDropped(popped) => ~ InReady(m)'
<1>0. \A q \in Priorities : ready'[q] = IF q \in popped THEN Tail(ready[q]) ELSE ready[q]
  BY DEF PopHeads
<1> DEFINE shift(q) == IF q \in popped THEN 1 ELSE 0
<1>1. ASSUME NEW q \in Priorities, NEW i \in DOMAIN ready'[q]
      PROVE  i \in Nat \ {0} /\ i + shift(q) \in DOMAIN ready[q] /\ ready'[q][i] = ready[q][i + shift(q)]
  <2>1. CASE q \notin popped
    BY <1>0, <1>1, <2>1 DEF TypeOK
  <2>2. CASE q \in popped
    <3>1. ready[q] # <<>> /\ ready'[q] = Tail(ready[q])
      BY <1>0, <2>2 DEF Backlog
    <3> QED
      BY <1>1, <2>2, <3>1, HeadType
  <2> QED
    BY <2>1, <2>2
<1>2. ListedOnce(m)'
  <2> SUFFICES ASSUME NEW p \in Priorities, NEW q \in Priorities, NEW i \in DOMAIN ready'[p],
                      NEW j \in DOMAIN ready'[q], ready'[p][i].mid = m, ready'[q][j].mid = m
               PROVE  p = q /\ i = j
    BY DEF ListedOnce
  <2>1. p = q /\ i + shift(p) = j + shift(q)
    BY <1>1 DEF ListedOnce
  <2> QED
    BY <1>1, <2>1
<1>3. ASSUME m \in HeadsDropped(popped), InReady(m)'
      PROVE  FALSE
  <2>1. PICK p \in popped : m = Head(ready[p]).mid
    BY <1>3 DEF HeadsDropped
  <2>2. p \in Priorities /\ 1 \in DOMAIN ready[p] /\ ready[p][1].mid = m
    BY <2>1, HeadType DEF Backlog, TypeOK
  <2>3. PICK q \in Priorities : \E i \in DOMAIN ready'[q] : ready'[q][i].mid = m
    BY <1>3 DEF InReady
  <2>4. PICK i \in DOMAIN ready'[q] : ready'[q][i].mid = m
    BY <2>3
  <2>5. q = p /\ i + shift(q) = 1
    BY <1>1, <2>2, <2>4 DEF ListedOnce
  <2> QED
    BY <1>1, <2>1, <2>5
<1> QED
  BY <1>2, <1>3

\* Only the script of a recovery pass changes what the clients or the other
\* parts of the queue can see.
LEMMA RecoverySteps ==
  ASSUME Recover
  PROVE  \/ UNCHANGED recoveryReadsOnly
         \/ \E r \in Recoverers : RecoverOne(r)
<1>1. CASE \E r \in Recoverers : Discover(r)
  BY <1>1 DEF Discover
<1>2. CASE \E r \in Recoverers, m \in Messages : ReadEnvelope(r, m)
  BY <1>2 DEF ReadEnvelope
<1>3. CASE \E r \in Recoverers : ReadLease(r)
  BY <1>3 DEF ReadLease
<1>4. CASE \E r \in Recoverers, terminal \in BOOLEAN : ReadDurable(r, terminal)
  BY <1>4 DEF ReadDurable
<1>5. CASE \E r \in Recoverers : RecoverRenewed(r)
  BY <1>5 DEF RecoverRenewed
<1>6. CASE \E r \in Recoverers : RecoveryAborts(r)
  BY <1>6 DEF RecoveryAborts
<1> QED
  BY <1>1, <1>2, <1>3, <1>4, <1>5, <1>6 DEF Recover

\* A message stays reported.
LEMMA ReportedKept ==
  ASSUME IInv, [Next]_vars, NEW m \in Messages, Reported(m)
  PROVE  Reported(m)'
<1>1. PICK k \in dispatched : deliveries[k].env.mid = m
  BY DEF Reported
<1>2. k \in Tokens /\ deliveries'[k] = deliveries[k]
  BY DeliveriesKept DEF IInv, TypeOK
<1>3. dispatched \subseteq dispatched'
  <2>1. CASE Produce \/ Consume
    BY <2>1 DEF Produce, Consume, Enqueue, DedupeExpires, Claim, ClaimNone, Acknowledge,
       RenewLease, LeaseExpires
  <2>2. CASE Retry
    BY <2>2 DEF Retry, ScheduleFailure, DelayElapses, PromoteDue
  <2>3. CASE Bury
    BY <2>3 DEF Bury, Finalize, ApproveRead, ReplayRead, ReadRecord, ApproveWrite, ReplayScript,
       OperatorGivesUp
  <2>4. CASE \E t \in Tasks : Cancel(t)
    BY <2>4 DEF Cancel
  <2>5. CASE Recover
    BY <2>5, RecoverySteps DEF RecoverOne
  <2>6. CASE UNCHANGED vars
    BY <2>6 DEF vars
  <2> QED
    BY <2>1, <2>2, <2>3, <2>4, <2>5, <2>6 DEF Next
<1> QED
  BY <1>1, <1>2, <1>3 DEF Reported

\* A message that only loses records keeps at most one copy.
LEMMA SoleShrinks ==
  ASSUME NEW m \in Messages, Sole(m), ready' = ready, leases'[m] \in {Nil, leases[m]},
         delayed'[m] \in {Nil, delayed[m]}
  PROVE  Sole(m)'
<1>1. InReady(m)' <=> InReady(m)
  BY DEF InReady
<1>2. ListedOnce(m)'
  BY DEF Sole, ListedOnce
<1> QED
  BY <1>1, <1>2 DEF Sole

\* A fresh id enters with its only copy.
LEMMA SolePushed ==
  ASSUME IInv, NEW p \in Priorities, NEW env \in Envelope, issued[env.mid] = Nil,
         ready' = Pushed(p, env), UNCHANGED <<leases, delayed>>,
         NEW m \in Messages, Sole(m)
  PROVE  Sole(m)'
<1>0. TypeOK /\ env.mid \in Messages
  BY DEF IInv, Envelope
<1>1. leases[env.mid] = Nil /\ delayed[env.mid] = Nil /\ ~ InReady(env.mid)
  BY <1>0, FreshNowhere
<1>2. ListedOnce(m)'
  BY <1>0, <1>1, PushedOnce DEF Sole
<1>3. InReady(m)' <=> InReady(m) \/ m = env.mid
  BY <1>0, PushedKeeps
<1> QED
  BY <1>1, <1>2, <1>3 DEF Sole

\* A claim moves the one copy of a message from its list to its lease.
LEMMA SolePopped ==
  ASSUME IInv, NEW w \in Workers, NEW p \in Priorities, Claim(w, p), NEW m \in Messages, Sole(m)
  PROVE  Sole(m)'
<1> DEFINE popped == {q \in Backlog : q <= p}
           dropped == HeadsDropped({q \in Backlog : q < p})
<1>0. TypeOK /\ popped \subseteq Backlog /\ PopHeads(popped) /\ p \in popped
  BY DEF IInv, Claim, Deliverable, Backlog, Priorities
<1>1. ListedOnce(m)' /\ (m \in HeadsDropped(popped) => ~ InReady(m)')
  BY <1>0, PopHeadsOnce DEF Sole
<1>2. InReady(m)' => InReady(m)
  BY <1>0, PopHeadsKeeps
<1>3. delayed' = delayed
  BY DEF Claim
<1>4. CASE m = Head(ready[p]).mid
  <2>1. m \in HeadsDropped(popped)
    BY <1>0, <1>4 DEF HeadsDropped
  <2>2. InReady(m)
    BY <1>0, <1>4, HeadType DEF InReady, Backlog, TypeOK
  <2> QED
    BY <1>1, <1>3, <2>1, <2>2 DEF Sole
<1>5. CASE m # Head(ready[p]).mid
  <2>1. leases'[m] \in {Nil, leases[m]}
    BY <1>5 DEF Claim
  <2> QED
    BY <1>1, <1>2, <1>3, <2>1 DEF Sole
<1> QED
  BY <1>4, <1>5

\* Recovery moves it from the lease to the delayed retries, promotion from
\* there to a list.
LEMMA SoleMoves ==
  ASSUME IInv, NEW m \in Messages, Sole(m)
  PROVE  /\ \A r \in Recoverers : RecoverOne(r) => Sole(m)'
         /\ \A n \in Messages : PromoteDue(n) => Sole(m)'
<1>0. TypeOK
  BY DEF IInv
<1>1. ASSUME NEW r \in Recoverers, RecoverOne(r)
      PROVE  Sole(m)'
  <2>1. ready' = ready /\ \A n \in Messages : leases'[n] = IF n = passes[r].cur THEN Nil ELSE leases[n]
    BY <1>0, <1>1 DEF RecoverOne, LeaseRemoved, TypeOK
  <2>2. CASE m # passes[r].cur
    <3>1. delayed'[m] = delayed[m]
      BY <1>0, <1>1, <2>2 DEF RecoverOne, TypeOK
    <3> QED
      BY <2>1, <2>2, <3>1, SoleShrinks
  <2>3. CASE m = passes[r].cur
    <3>1. leases[m] # Nil
      BY <1>1, <2>3 DEF RecoverOne, IInv, IndexesAgree
    <3>2. ~ InReady(m)' /\ leases'[m] = Nil
      BY <2>1, <2>3, <3>1 DEF Sole, InReady
    <3>3. ListedOnce(m)'
      BY <2>1 DEF Sole, ListedOnce
    <3> QED
      BY <3>2, <3>3 DEF Sole
  <2> QED
    BY <2>2, <2>3
<1>2. ASSUME NEW n \in Messages, PromoteDue(n)
      PROVE  Sole(m)'
  <2>1. /\ delayed[n] \in Envelope /\ delayed[n].mid = n /\ delayed[n].prio \in Priorities
        /\ delayed[n] # Nil
    BY <1>2 DEF PromoteDue, IInv, IndexesAgree, CopiesAgree, StoredAgree, RetryWellFormed, Envelope
  <2>2. leases' = leases /\ \A x \in Messages : delayed'[x] = IF x = n THEN Nil ELSE delayed[x]
    BY <1>0, <1>2 DEF PromoteDue, TypeOK
  <2>3. CASE ready' = ready
    BY <2>2, <2>3, SoleShrinks
  <2>4. CASE ready' = Pushed(delayed[n].prio, delayed[n])
    <3>1. m = n => ~ InReady(m) /\ leases[m] = Nil
      BY <2>1 DEF Sole
    <3>2. ListedOnce(m)'
      BY <1>0, <2>1, <2>4, <3>1, PushedOnce DEF Sole
    <3>3. InReady(m)' <=> InReady(m) \/ m = n
      BY <1>0, <2>1, <2>4, PushedKeeps
    <3> QED
      BY <2>2, <3>1, <3>2, <3>3 DEF Sole
  <2> QED
    BY <1>2, <2>3, <2>4 DEF PromoteDue
<1> QED
  BY <1>1, <1>2

\* No operation makes a second copy of a message, except that a worker that
\* reports a failure does.
LEMMA SoleCopyStep ==
  ASSUME IInv, SoleCopy, [Next]_vars
  PROVE  SoleCopy'
<1> SUFFICES ASSUME NEW m \in Messages, ~ Reported(m)'
             PROVE  Sole(m)'
  BY DEF SoleCopy
<1>0. TypeOK
  BY DEF IInv
<1>1. Sole(m)
  BY ReportedKept DEF SoleCopy
<1>2. CASE Produce
  <2>1. ASSUME NEW t \in Tasks, NEW n \in Messages, NEW p \in Priorities, NEW s \in EnqueueStates,
               Enqueue(t, n, p, s)
        PROVE  Sole(m)'
    <3> DEFINE env == [mid |-> n, task |-> t, snap |-> s, prio |-> p, attempt |-> 0]
    <3>1. env \in Envelope /\ env.mid = n
      BY ConstantsAssumption DEF Envelope
    <3>2. ready' = Pushed(p, env) /\ issued[n] = Nil /\ UNCHANGED <<leases, delayed>>
      BY <2>1 DEF Enqueue
    <3> HIDE DEF env
    <3> QED
      BY <1>1, <3>1, <3>2, SolePushed
  <2>2. ASSUME NEW t \in Tasks, DedupeExpires(t)
        PROVE  Sole(m)'
    BY <1>1, <2>2, SoleShrinks DEF DedupeExpires
  <2> QED
    BY <1>2, <2>1, <2>2 DEF Produce
<1>3. CASE Consume
  <2>1. ASSUME ClaimNone
        PROVE  Sole(m)'
    <3>1. ListedOnce(m)' /\ (InReady(m)' => InReady(m))
      BY <1>0, <1>1, <2>1, PopHeadsOnce, PopHeadsKeeps DEF ClaimNone, Sole
    <3>2. delayed' = delayed /\ leases'[m] \in {Nil, leases[m]}
      BY <2>1 DEF ClaimNone
    <3> QED
      BY <1>1, <3>1, <3>2 DEF Sole
  <2>2. ASSUME NEW k \in Tokens, Acknowledge(k)
        PROVE  Sole(m)'
    <3>1. ready' = ready /\ delayed' = delayed /\ leases'[m] \in {Nil, leases[m]}
      BY <1>0, <2>2 DEF Acknowledge, LeaseRemoved, TypeOK
    <3> QED
      BY <1>1, <3>1, SoleShrinks
  <2>3. CASE UNCHANGED <<ready, leases, delayed>>
    BY <1>1, <2>3, SoleShrinks
  <2> QED
    BY <1>1, <1>3, <2>1, <2>2, <2>3, SolePopped DEF Consume, RenewLease, LeaseExpires
<1>4. CASE Retry
  <2>1. ASSUME NEW k \in Tokens, ScheduleFailure(k)
        PROVE  Sole(m)'
    <3>1. deliveries[k].env.mid # m
      BY <2>1 DEF ScheduleFailure, Reported
    <3>2. UNCHANGED <<ready, leases>> /\ delayed'[m] = delayed[m]
      BY <1>0, <2>1, <3>1 DEF ScheduleFailure, TypeOK
    <3> QED
      BY <1>1, <3>2, SoleShrinks
  <2>2. CASE UNCHANGED <<ready, leases, delayed>>
    BY <1>1, <2>2, SoleShrinks
  <2> QED
    BY <1>1, <1>4, <2>1, <2>2, SoleMoves DEF Retry, DelayElapses
<1>5. CASE Bury
  <2>1. ASSUME NEW o \in Operators, NEW n \in Messages, ReplayScript(o, n)
        PROVE  Sole(m)'
    <3> DEFINE old == dlq[operators[o].mid].env
               env == [old EXCEPT !.mid = n]
    <3>1. old \in Envelope
      BY <1>0, <2>1 DEF ReplayScript, IInv, OperatorsSound, TypeOK, DeadLetter
    <3>2. env \in Envelope /\ env.mid = n /\ old.prio \in Priorities
      BY <3>1 DEF Envelope
    <3>3. ready' = Pushed(old.prio, env) /\ issued[n] = Nil /\ UNCHANGED <<leases, delayed>>
      BY <2>1 DEF ReplayScript
    <3> HIDE DEF env, old
    <3> QED
      BY <1>1, <3>2, <3>3, SolePushed
  <2>2. CASE UNCHANGED <<ready, leases, delayed>>
    BY <1>1, <2>2, SoleShrinks
  <2> QED
    BY <1>5, <2>1, <2>2
    DEF Bury, Finalize, ApproveRead, ReplayRead, ReadRecord, ApproveWrite, OperatorGivesUp
<1>6. ASSUME NEW t \in Tasks, Cancel(t)
      PROVE  Sole(m)'
  BY <1>1, <1>6, SoleShrinks DEF Cancel
<1>7. CASE Recover
  <2>1. CASE UNCHANGED recoveryReadsOnly
    BY <1>1, <2>1, SoleShrinks
  <2> QED
    BY <1>1, <1>7, <2>1, RecoverySteps, SoleMoves
<1>8. CASE UNCHANGED vars
  BY <1>1, <1>8, SoleShrinks DEF vars
<1> QED
  BY <1>2, <1>3, <1>4, <1>5, <1>6, <1>7, <1>8 DEF Next

\* A lease whose deadline has not passed is removed only by its owner's
\* acknowledgement or the withdrawal of its task (a renewal wins over
\* recovery), and replaced by another delivery's only after a delivery of the
\* message reported a failure.
THEOREM LiveLeaseKeptAlways == Spec => LiveLeaseKept
<1>1. IInv /\ SoleCopy /\ [Next]_vars => [LiveLeaseKeptStep]_vars
  <2> DEFINE Kept(m) == /\ leases'[m] = Nil => leases[m].token \in acked' \/ Withdrawn(inflight[m])
                        /\ leases'[m] # Nil /\ leases'[m] # leases[m] => Reported(m)
  <2> SUFFICES ASSUME IInv, SoleCopy, Next, NEW m \in Messages, leaseExpiry[m] = "running"
               PROVE  Kept(m)
    BY DEF LiveLeaseKeptStep
  <2>0. TypeOK
    BY DEF IInv
  <2>1. leases[m] # Nil /\ inflight[m] # Nil
    BY DEF IInv, IndexesAgree
  <2>2. ASSUME NEW w \in Workers, NEW p \in Priorities, Claim(w, p)
        PROVE  Kept(m)
    <3> DEFINE popped == {q \in Backlog : q < p}
    <3>1. p \in Backlog /\ Head(ready[p]) \in Envelope
      BY <2>2, HeadGenuine DEF Claim, Deliverable
    <3>2. CASE m = Head(ready[p]).mid
      <4>1. InReady(m)
        BY <2>0, <3>1, <3>2, HeadType DEF InReady, Backlog, TypeOK
      <4>2. Reported(m)
        BY <2>1, <4>1 DEF SoleCopy, Sole
      <4>3. [token |-> Len(deliveries) + 1, worker |-> w, task |-> Head(ready[p]).task] \in Lease
        BY <2>0, <3>1 DEF Lease, Envelope, TypeOK
      <4>4. leases'[m] # Nil
        BY <2>2, <3>2, <4>3, NilAssumption DEF Claim
      <4> QED
        BY <4>2, <4>4
    <3>3. CASE m # Head(ready[p]).mid
      <4>1. \A q \in popped : Withdrawn(Head(ready[q]))
        BY <2>2 DEF Claim, Deliverable, Backlog, Priorities
      <4>2. leases'[m] = IF m \in HeadsDropped(popped) THEN Nil ELSE leases[m]
        BY <2>2, <3>3 DEF Claim
      <4> QED
        BY <2>1, <4>1, <4>2, DroppedWithdrawn
    <3> QED
      BY <3>2, <3>3
  <2>3. ASSUME ClaimNone
        PROVE  Kept(m)
    <3>1. leases'[m] = IF m \in HeadsDropped(Backlog) THEN Nil ELSE leases[m]
      BY <2>3 DEF ClaimNone
    <3>2. \A q \in Backlog : Withdrawn(Head(ready[q]))
      BY <2>3 DEF ClaimNone, Deliverable
    <3> QED
      BY <2>1, <3>1, <3>2, DroppedWithdrawn
  <2>4. ASSUME NEW k \in Tokens, Acknowledge(k)
        PROVE  Kept(m)
    BY <2>0, <2>1, <2>4, DeliveryType DEF Acknowledge, LeaseRemoved, Owns, TypeOK
  <2>5. ASSUME NEW r \in Recoverers, RecoverOne(r)
        PROVE  Kept(m)
    BY <2>0, <2>1, <2>5 DEF RecoverOne, LeaseRemoved, IInv, TypeOK, PassesSound, PassSound
  <2>6. CASE leases' = leases
    BY <2>1, <2>6
  <2> HIDE DEF Kept
  <2>7. CASE Produce
    BY <2>6, <2>7 DEF Produce, Enqueue, DedupeExpires
  <2>8. CASE Consume
    BY <2>2, <2>3, <2>4, <2>6, <2>8 DEF Consume, RenewLease, LeaseExpires
  <2>9. CASE Retry
    BY <2>6, <2>9 DEF Retry, ScheduleFailure, DelayElapses, PromoteDue
  <2>10. CASE Bury
    BY <2>6, <2>10 DEF Bury, Finalize, ApproveRead, ReplayRead, ReadRecord, ApproveWrite,
       ReplayScript, OperatorGivesUp
  <2>11. CASE \E t \in Tasks : Cancel(t)
    BY <2>6, <2>11 DEF Cancel
  <2>12. CASE Recover
    BY <2>5, <2>6, <2>12, RecoverySteps
  <2> QED
    BY <2>7, <2>8, <2>9, <2>10, <2>11, <2>12 DEF Next
<1>2. Init => SoleCopy
  BY DEF Init, SoleCopy, Sole, ListedOnce, InReady
<1>3. IInv /\ SoleCopy /\ [Next]_vars => SoleCopy'
  BY SoleCopyStep
<1> QED
  BY <1>1, <1>2, <1>3, Inductive, PTL DEF LiveLeaseKept, Spec

\* No operation removes a tombstone.
LEMMA TombstonesKept == [Next]_vars => cancelled \subseteq cancelled'
BY DEF Next, Produce, Consume, Retry, Bury, Recover, Enqueue, DedupeExpires, Claim, ClaimNone,
   Acknowledge, RenewLease, LeaseExpires, ScheduleFailure, DelayElapses, PromoteDue,
   Finalize, ApproveRead, ReplayRead, ReadRecord, ApproveWrite, ReplayScript, OperatorGivesUp,
   Cancel, Discover, ReadEnvelope, ReadLease, ReadDurable, RecoverRenewed, RecoverOne,
   RecoveryAborts, vars

\* While a delivery keeps its lease, nobody else can take its message out of
\* the lists, so the copy its worker left there stays.
LEMMA HeldKept ==
  ASSUME IInv, TaskIndexSound, [Next]_vars, NEW k \in Tokens, Owns(k)',
         deliveries[k].env.task \notin cancelled'
  PROVE  Owns(k) /\ (Held(deliveries[k].env.mid) => Held(deliveries[k].env.mid)')
<1>0. TypeOK
  BY DEF IInv
<1>1. PICK m \in Messages : m = deliveries[k].env.mid
  BY <1>0, DeliveryType
<1>2. deliveries'[k] = deliveries[k] /\ k \in Nat /\ k # Len(deliveries) + 1
  BY <1>0, DeliveriesKept DEF TypeOK
<1>3. leases'[m] # Nil /\ leases'[m].token = k /\ leases'[m].worker = deliveries[k].worker
  BY <1>1, <1>2 DEF Owns
<1>4. SUFFICES leases'[m] = leases[m] /\ (Held(m) => Held(m)')
  BY <1>1, <1>2, <1>3 DEF Owns, Held, InReady
<1>5. Genuine(deliveries[k].env) /\ deliveries[k].env.task = issued[m].task
  BY <1>1 DEF IInv, CopiesAgree, DeliveredAgree, Genuine
<1> DEFINE Goal == leases'[m] = leases[m] /\ (Held(m) => Held(m)')
<1>6. ASSUME NEW t \in Tasks, NEW n \in Messages, NEW p \in Priorities,
             NEW s \in EnqueueStates, Enqueue(t, n, p, s)
      PROVE  Goal
  <2> DEFINE env == [mid |-> n, task |-> t, snap |-> s, prio |-> p, attempt |-> 0]
  <2>1. env \in Envelope
    BY ConstantsAssumption DEF Envelope
  <2>2. InReady(m) => InReady(m)'
    BY <1>0, <1>6, <2>1, PushedKeeps DEF Enqueue
  <2> QED
    BY <1>6, <2>2 DEF Enqueue, Held
<1>7. ASSUME NEW w \in Workers, NEW p \in Priorities, Claim(w, p)
      PROVE  Goal
  <2> DEFINE head == Head(ready[p])
             lower == {q \in Backlog : q < p}
             popped == {q \in Backlog : q <= p}
             lease == [token |-> Len(deliveries) + 1, worker |-> w, task |-> head.task]
  <2>1. /\ leases'[m] = IF m = head.mid THEN lease
                        ELSE IF m \in HeadsDropped(lower) THEN Nil ELSE leases[m]
        /\ PopHeads(popped) /\ UNCHANGED <<delayed, dlq>>
        /\ p \in Backlog /\ p \in Int /\ Backlog \subseteq Int
    BY <1>7 DEF Claim, Deliverable, Backlog, Priorities
  <2>2. m # head.mid /\ m \notin HeadsDropped(lower)
    BY <1>2, <1>3, <2>1
  <2>3. m \notin HeadsDropped(popped)
    <3>1. p \in Int /\ Backlog \subseteq Int
      BY <2>1, Zenon
    <3>2. \A q \in Int : q <= p => q < p \/ q = p
      BY <3>1
    <3>3. \A q \in popped : q \in lower \/ q = p
      BY <3>1, <3>2, Zenon
    <3> QED
      BY <2>2, <3>3, Zenon DEF HeadsDropped
  <2>4. InReady(m) => InReady(m)'
    BY <1>0, <2>1, <2>3, PopHeadsKeeps
  <2> QED
    BY <2>1, <2>2, <2>4 DEF Held
<1>8. ASSUME ClaimNone
      PROVE  Goal
  <2>1. /\ leases'[m] = IF m \in HeadsDropped(Backlog) THEN Nil ELSE leases[m]
        /\ PopHeads(Backlog) /\ UNCHANGED <<delayed, dlq>>
    BY <1>8 DEF ClaimNone
  <2>2. InReady(m) => InReady(m)'
    BY <1>0, <1>3, <2>1, PopHeadsKeeps
  <2> QED
    BY <1>3, <2>1, <2>2 DEF Held
<1>9. ASSUME NEW j \in Tokens, Acknowledge(j)
      PROVE  Goal
  <2>1. leases'[deliveries[j].env.mid] = Nil
    BY <1>0, <1>9, DeliveryType DEF Acknowledge, LeaseRemoved, TypeOK
  <2> QED
    BY <1>0, <1>3, <1>9, <2>1 DEF Acknowledge, LeaseRemoved, TypeOK, Held, InReady
<1>10. ASSUME NEW j \in Tokens, ScheduleFailure(j)
       PROVE  Goal
  <2>1. NextAttempt(deliveries[j].env) # Nil /\ deliveries[j].env.mid \in Messages
    BY <1>0, DeliveryType, NextAttemptType, NilAssumption
  <2> QED
    BY <1>0, <1>10, <2>1 DEF ScheduleFailure, Held, InReady, TypeOK
<1>11. ASSUME NEW n \in Messages, PromoteDue(n)
       PROVE  Goal
  <2>1. CASE m = n /\ delayed[m] # Nil
    <3>1. Genuine(delayed[m]) /\ delayed[m].mid = m /\ delayed[m] \in Envelope /\ delayed[m].snap = "live"
      BY <2>1 DEF IInv, CopiesAgree, StoredAgree, RetryWellFormed, DeliveredCopiesLive
    <3>2. ~ Withdrawn(delayed[m]) /\ delayed[m].prio \in Priorities
      BY <1>5, <1>11, <3>1 DEF PromoteDue, Withdrawn, Genuine, Envelope
    <3>3. ready' = Pushed(delayed[m].prio, delayed[m]) /\ leases' = leases
      BY <1>11, <2>1, <3>2 DEF PromoteDue
    <3>4. InReady(m)'
      BY <1>0, <3>1, <3>2, <3>3, PushedKeeps
    <3> QED
      BY <3>3, <3>4 DEF Held
  <2>2. CASE m # n \/ delayed[m] = Nil
    <3>1. InReady(m) => InReady(m)'
      <4>1. CASE ready' = ready
        BY <4>1 DEF InReady
      <4>2. CASE ready' # ready
        <5>1. delayed[n] # Nil /\ ready' = Pushed(delayed[n].prio, delayed[n])
          BY <1>11, <4>2 DEF PromoteDue
        <5>2. delayed[n] \in Envelope /\ delayed[n].prio \in Priorities
          BY <5>1 DEF IInv, RetryWellFormed, Envelope
        <5> QED
          BY <1>0, <5>1, <5>2, PushedKeeps
      <4> QED
        BY <4>1, <4>2
    <3> QED
      BY <1>0, <1>11, <2>2, <3>1 DEF PromoteDue, Held, TypeOK
  <2> QED
    BY <2>1, <2>2
<1>12. ASSUME NEW j \in Tokens, NEW eligible \in BOOLEAN, Finalize(j, eligible)
       PROVE  Goal
  <2> DEFINE record == [env |-> deliveries[j].env, eligible |-> eligible,
                        approval |-> "pending", replayed |-> Nil]
  <2>1. record # Nil
    BY <1>0, DeliveryType, DeadLetterType, NilAssumption
  <2> QED
    BY <1>0, <1>12, <2>1 DEF Finalize, Held, InReady, TypeOK
<1>13. ASSUME NEW o \in Operators, ApproveWrite(o)
       PROVE  Goal
  <2>1. operators[o].record \in DeadLetter
        /\ operators[o].verdict \in {"pending", "approved", "denied"}
    BY <1>0, <1>13 DEF ApproveWrite, IInv, OperatorsSound, TypeOK, Operation
  <2>2. [operators[o].record EXCEPT !.approval = operators[o].verdict] # Nil
    BY <2>1, RecordType, NilAssumption
  <2> QED
    BY <1>0, <1>13, <2>2 DEF ApproveWrite, Held, InReady, TypeOK
<1>14. ASSUME NEW o \in Operators, NEW n \in Messages, ReplayScript(o, n)
       PROVE  Goal
  <2> DEFINE env == dlq[operators[o].mid].env
  <2>1. operators[o].record \in DeadLetter /\ dlq[operators[o].mid] \in DeadLetter
    BY <1>0, <1>14 DEF ReplayScript, IInv, OperatorsSound, TypeOK, Operation
  <2>2. [operators[o].record EXCEPT !.replayed = n] # Nil
    BY <2>1, RecordType, NilAssumption
  <2>3. [env EXCEPT !.mid = n] \in Envelope /\ env.prio \in Priorities
    BY <2>1 DEF DeadLetter, Envelope
  <2>4. InReady(m) => InReady(m)'
    BY <1>0, <1>14, <2>3, PushedKeeps DEF ReplayScript
  <2> QED
    BY <1>0, <1>14, <2>2, <2>4 DEF ReplayScript, Held, TypeOK
<1>15. ASSUME NEW t \in Tasks, Cancel(t)
       PROVE  Goal
  <2>1. m # taskIndex[t]
    BY <1>5, <1>15, NilAssumption DEF Cancel, TaskIndexSound
  <2> QED
    BY <1>0, <1>15, <2>1 DEF Cancel, Held, InReady, TypeOK
<1>16. ASSUME NEW r \in Recoverers, RecoverOne(r)
       PROVE  Goal
  <2>1. m # passes[r].cur
    BY <1>0, <1>3, <1>16 DEF RecoverOne, LeaseRemoved, TypeOK
  <2>2. /\ leases'[m] = leases[m] /\ delayed'[m] = delayed[m] /\ dlq'[m] = dlq[m] /\ ready' = ready
    BY <1>0, <1>16, <2>1 DEF RecoverOne, LeaseRemoved, TypeOK
  <2> QED
    BY <2>2 DEF Held, InReady
<1>17. ASSUME UNCHANGED <<ready, leases, delayed, dlq>>
       PROVE  Goal
  BY <1>17 DEF Held, InReady
<1> HIDE DEF Goal
<1>18. Goal
  BY <1>6, <1>7, <1>8, <1>9, <1>10, <1>11, <1>12, <1>13, <1>14, <1>15, <1>16, <1>17
  DEF Next, Produce, Consume, Retry, Bury, Recover, DedupeExpires, RenewLease, LeaseExpires,
      DelayElapses, ApproveRead, ReplayRead, ReadRecord, OperatorGivesUp, Discover, ReadEnvelope,
      ReadLease, ReadDurable, RecoverRenewed, RecoveryAborts, vars
<1> QED
  BY <1>18 DEF Goal

-----------------------------------------------------------------------------
(* The contract with producers and workers                                 *)

\* What the clients see does not change, apart from what recoveries are told.
LEMMA Unseen ==
  ASSUME UNCHANGED <<Tickets, Custody, Handed, Leased, acked, dispatched, cancelled>>
  PROVE  Contract!ContractNext
<1>1. Closing' \in SUBSET Messages
  BY DEF Closing
<1> QED
  BY <1>1 DEF Contract!ContractNext, Contract!Report

LEMMA SameTickets ==
  ASSUME issued' = issued
  PROVE  Tickets' = Tickets /\ Accepted' = Accepted
BY DEF Tickets, Accepted

LEMMA SameHanded ==
  ASSUME deliveries' = deliveries
  PROVE  Handed' = Handed
BY DEF Handed

LEMMA SameLeased ==
  ASSUME leases' = leases
  PROVE  Leased' = Leased
BY DEF Leased

LEMMA SameClosing ==
  ASSUME passes' = passes
  PROVE  Closing' = Closing
BY DEF Closing

LEMMA MootMessages ==
  ASSUME NEW m \in Messages, issued[m] # Nil
  PROVE  /\ m \in Contract!Moot <=> issued[m].task \in cancelled \/ issued[m].snap # "live"
         /\ m \in DOMAIN Tickets /\ Tickets[m].task = issued[m].task
BY DEF Contract!Moot, Tickets, Accepted

LEMMA HandedTokens ==
  ASSUME TypeOK
  PROVE  /\ DOMAIN Handed = Tokens
         /\ \A k \in Tokens : Handed[k].mid = deliveries[k].env.mid
BY DEF Handed

\* Requests that change what recovery passes, administrators or clocks know.
LEMMA UnseenSteps ==
  ASSUME UNCHANGED <<issued, deliveries, leases, ready, inflight, delayed, dlq, acked, dispatched,
                     cancelled>>
  PROVE  Contract!ContractNext
<1>1. Custody' = Custody
  BY DEF Custody, Located, InReady
<1> QED
  BY <1>1, Unseen, SameTickets, SameHanded, SameLeased

\* A message is accepted under a fresh id.
LEMMA AcceptMaps ==
  ASSUME TypeOK, NEW m \in Messages, NEW id \in Identity, issued[m] = Nil,
         issued' = [issued EXCEPT ![m] = id],
         \A n \in Messages : Located(n)' <=> Located(n) \/ n = m,
         UNCHANGED <<deliveries, leases, passes, acked, dispatched, cancelled>>
  PROVE  Contract!ContractNext
<1>1. id # Nil /\ id.task \in Tasks
  BY NilAssumption DEF Identity
<1>2. \A n \in Messages : issued'[n] = IF n = m THEN id ELSE issued[n]
  BY DEF TypeOK
<1>3. Accepted' = Accepted \cup {m} /\ m \notin Accepted /\ DOMAIN Tickets = Accepted
  BY <1>1, <1>2 DEF Accepted, Tickets
<1>4. Tickets' = [n \in Accepted \cup {m} |->
                    IF n = m THEN [task |-> id.task, live |-> (id.snap = "live")] ELSE Tickets[n]]
  BY <1>2, <1>3 DEF Tickets
<1>5. Custody' = Custody \cup {m}
  BY DEF Custody
<1>6. Contract!Accept(m, id.task, id.snap = "live")
  BY <1>3, <1>4, <1>5, SameHanded, SameLeased, SameClosing DEF Contract!Accept
<1>7. (id.snap = "live") \in BOOLEAN
  OBVIOUS
<1> QED
  BY <1>1, <1>6, <1>7 DEF Contract!ContractNext

LEMMA EnqueueMaps ==
  ASSUME IInv, NEW t \in Tasks, NEW m \in Messages, NEW p \in Priorities, NEW s \in EnqueueStates,
         Enqueue(t, m, p, s)
  PROVE  Contract!ContractNext
<1> DEFINE env == [mid |-> m, task |-> t, snap |-> s, prio |-> p, attempt |-> 0]
           id == [task |-> t, snap |-> s, prio |-> p, origin |-> Nil]
<1>0. TypeOK
  BY DEF IInv
<1>1. env \in Envelope /\ env.mid = m /\ id \in Identity
  BY ConstantsAssumption DEF Envelope, Identity
<1>2. ready' = Pushed(p, env) /\ issued[m] = Nil /\ issued' = [issued EXCEPT ![m] = id]
      /\ UNCHANGED <<inflight, delayed, dlq, deliveries, leases, passes, acked, dispatched, cancelled>>
  BY DEF Enqueue
<1> HIDE DEF env, id
<1>3. \A n \in Messages : InReady(n)' <=> InReady(n) \/ n = m
  BY <1>0, <1>1, <1>2, PushedKeeps
<1>4. \A n \in Messages : Located(n)' <=> Located(n) \/ n = m
  BY <1>2, <1>3 DEF Located
<1> QED
  BY <1>0, <1>1, <1>2, <1>4, AcceptMaps

LEMMA ReplayMaps ==
  ASSUME IInv, NEW o \in Operators, NEW m \in Messages, ReplayScript(o, m)
  PROVE  Contract!ContractNext
<1> DEFINE old == operators[o].mid
           env == dlq[old].env
           new == [env EXCEPT !.mid = m]
           mark == [operators[o].record EXCEPT !.replayed = m]
           id == [task |-> env.task, snap |-> env.snap, prio |-> env.prio, origin |-> old]
<1>0. TypeOK
  BY DEF IInv
<1>1. old \in Messages /\ operators[o].record \in DeadLetter /\ dlq[old] \in DeadLetter
  BY <1>0 DEF ReplayScript, IInv, OperatorsSound, TypeOK, Operation
<1>2. mark # Nil /\ dlq[old] # Nil
  BY <1>1, RecordType, NilAssumption
<1>3. new \in Envelope /\ new.mid = m /\ env.prio \in Priorities /\ id \in Identity
  BY <1>1 DEF DeadLetter, Envelope, Identity
<1>4. /\ ready' = Pushed(env.prio, new) /\ issued[m] = Nil /\ issued' = [issued EXCEPT ![m] = id]
      /\ dlq' = [dlq EXCEPT ![old] = mark]
      /\ UNCHANGED <<inflight, delayed, deliveries, leases, passes, acked, dispatched, cancelled>>
  BY DEF ReplayScript
<1> HIDE DEF env, id, new, mark
<1>5. \A n \in Messages : InReady(n)' <=> InReady(n) \/ n = m
  BY <1>0, <1>3, <1>4, PushedKeeps
<1>6. \A n \in Messages : dlq'[n] = Nil <=> dlq[n] = Nil
  BY <1>0, <1>1, <1>2, <1>4 DEF TypeOK
<1>7. \A n \in Messages : Located(n)' <=> Located(n) \/ n = m
  BY <1>4, <1>5, <1>6 DEF Located
<1> QED
  BY <1>0, <1>3, <1>4, <1>7, AcceptMaps

\* A delivery whose failure is stored comes back into the queue's care.
LEMMA ReturnMaps ==
  ASSUME TypeOK, NEW k \in Tokens, k \notin dispatched, dispatched' = dispatched \cup {k},
         \A n \in Messages : Located(n)' <=> Located(n) \/ n = deliveries[k].env.mid,
         UNCHANGED <<issued, deliveries, leases, passes, acked, cancelled>>
  PROVE  Contract!ContractNext
<1>1. Custody' = Custody \cup {deliveries[k].env.mid}
  BY DeliveryType DEF Custody
<1>2. Contract!Return(k)
  BY <1>1, HandedTokens, SameTickets, SameHanded, SameLeased, SameClosing DEF Contract!Return
<1> QED
  BY <1>2, HandedTokens DEF Contract!ContractNext

LEMMA ScheduleMaps ==
  ASSUME IInv, NEW k \in Tokens, ScheduleFailure(k)
  PROVE  Contract!ContractNext
<1> DEFINE m == deliveries[k].env.mid
<1>0. TypeOK
  BY DEF IInv
<1>1. NextAttempt(deliveries[k].env) # Nil /\ m \in Messages
  BY <1>0, DeliveryType, NextAttemptType, NilAssumption
<1>2. \A n \in Messages : delayed'[n] = IF n = m THEN NextAttempt(deliveries[k].env) ELSE delayed[n]
  BY <1>0, <1>1 DEF ScheduleFailure, TypeOK
<1>3. \A n \in Messages : Located(n)' <=> Located(n) \/ n = m
  BY <1>1, <1>2 DEF ScheduleFailure, Located, InReady
<1> QED
  BY <1>0, <1>3, ReturnMaps DEF ScheduleFailure

LEMMA FinalizeMaps ==
  ASSUME IInv, NEW k \in Tokens, NEW eligible \in BOOLEAN, Finalize(k, eligible)
  PROVE  Contract!ContractNext
<1> DEFINE m == deliveries[k].env.mid
           letter == [env |-> deliveries[k].env, eligible |-> eligible,
                      approval |-> "pending", replayed |-> Nil]
<1>0. TypeOK
  BY DEF IInv
<1>1. letter # Nil /\ m \in Messages
  BY <1>0, DeliveryType, DeadLetterType, NilAssumption
<1>2. \A n \in Messages : dlq'[n] = IF n = m THEN letter ELSE dlq[n]
  BY <1>0, <1>1 DEF Finalize, TypeOK
<1> HIDE DEF letter
<1>3. \A n \in Messages : Located(n)' <=> Located(n) \/ n = m
  BY <1>1, <1>2 DEF Finalize, Located, InReady
<1> QED
  BY <1>0, <1>3, ReturnMaps DEF Finalize

LEMMA ApproveMaps ==
  ASSUME IInv, NEW o \in Operators, ApproveWrite(o)
  PROVE  Contract!ContractNext
<1> DEFINE old == operators[o].mid
           new == [operators[o].record EXCEPT !.approval = operators[o].verdict]
<1>0. TypeOK
  BY DEF IInv
<1>1. old \in Messages /\ dlq[old] # Nil /\ operators[o].record \in DeadLetter
      /\ operators[o].verdict \in {"pending", "approved", "denied"}
  BY <1>0 DEF ApproveWrite, IInv, OperatorsSound, TypeOK, Operation
<1>2. new # Nil
  BY <1>1, RecordType, NilAssumption
<1>3. dlq' = [dlq EXCEPT ![old] = new]
      /\ UNCHANGED <<ready, inflight, delayed, issued, deliveries, leases, acked, dispatched, cancelled>>
  BY DEF ApproveWrite
<1> HIDE DEF new
<1>4. \A n \in Messages : dlq'[n] = Nil <=> dlq[n] = Nil
  BY <1>0, <1>1, <1>2, <1>3 DEF TypeOK
<1>5. Custody' = Custody
  BY <1>3, <1>4 DEF Custody, Located, InReady
<1> QED
  BY <1>3, <1>5, Unseen, SameTickets, SameHanded, SameLeased

\* A claim meets withdrawn heads on its way; it may let them go.
LEMMA ClaimNoneMaps ==
  ASSUME IInv, IndexesAgree', ClaimNone
  PROVE  Contract!ContractNext
<1> DEFINE dropped == HeadsDropped(Backlog)
<1>0. TypeOK
  BY DEF IInv
<1>1. /\ PopHeads(Backlog)
      /\ \A n \in Messages : inflight'[n] = IF n \in dropped THEN Nil ELSE inflight[n]
      /\ \A n \in Messages : leases'[n] = IF n \in dropped THEN Nil ELSE leases[n]
      /\ UNCHANGED <<delayed, dlq, issued, deliveries, passes, acked, dispatched, cancelled>>
  BY DEF ClaimNone
<1>2. \A n \in Messages \cap dropped : issued[n] # Nil /\ n \in Contract!Moot
  <2>1. \A q \in Backlog : Withdrawn(Head(ready[q]))
    BY DEF ClaimNone, Deliverable
  <2> QED
    BY <2>1, DroppedWithdrawn, MootMessages
<1>3. \A n \in Messages : /\ InReady(n)' => InReady(n)
                          /\ InReady(n) => InReady(n)' \/ n \in dropped
  BY <1>0, <1>1, PopHeadsKeeps
<1> HIDE DEF dropped
<1>4. Leased' \subseteq Leased /\ Leased \ Leased' \subseteq Contract!Moot
  BY <1>1, <1>2 DEF Leased
<1>5. Custody' \subseteq Custody /\ Custody \ Custody' \subseteq Contract!Moot
  BY <1>1, <1>2, <1>3 DEF Custody, Located
<1>6. Leased' \subseteq Custody'
  BY DEF IndexesAgree, Leased, Custody, Located
<1>7. Contract!Discard
  BY <1>1, <1>4, <1>5, <1>6, SameTickets, SameHanded, SameClosing
  DEF Contract!Discard, Contract!LetGo
<1> QED
  BY <1>7 DEF Contract!ContractNext

LEMMA Indexed ==
  ASSUME NEW S, NEW n \in Nat, NEW f \in [1 .. n -> S]
  PROVE  f \in Seq(S) /\ Len(f) = n
OBVIOUS

LEMMA AppendIsFunction ==
  ASSUME NEW S, NEW s \in Seq(S), NEW x \in S
  PROVE  Append(s, x) = [k \in 1 .. Len(s) + 1 |-> IF k = Len(s) + 1 THEN x ELSE s[k]]
<1> DEFINE f == [k \in 1 .. Len(s) + 1 |-> IF k = Len(s) + 1 THEN x ELSE s[k]]
<1>1. /\ Len(s) \in Nat /\ Append(s, x) \in Seq(S) /\ Len(Append(s, x)) = Len(s) + 1
      /\ \A k \in 1 .. Len(s) : Append(s, x)[k] = s[k] /\ s[k] \in S
      /\ Append(s, x)[Len(s) + 1] = x
  OBVIOUS
<1>2. f \in [1 .. Len(s) + 1 -> S]
  BY <1>1
<1>3. f \in Seq(S) /\ Len(f) = Len(s) + 1
  BY <1>1, <1>2, Indexed
<1>4. \A k \in 1 .. Len(s) + 1 : f[k] = Append(s, x)[k]
  BY <1>1
<1> HIDE DEF f
<1>5. f = Append(s, x)
  BY <1>1, <1>3, <1>4
<1> QED
  BY <1>5 DEF f

LEMMA HandedAppended ==
  ASSUME TypeOK, NEW d \in Delivery, deliveries' = Append(deliveries, d)
  PROVE  Handed' = Append(Handed, [mid |-> d.env.mid, worker |-> d.worker])
<1> DEFINE n == Len(deliveries)
           new == [mid |-> d.env.mid, worker |-> d.worker]
           Seen == [mid: Messages, worker: Workers]
<1>1. deliveries \in Seq(Delivery) /\ n \in Nat
  BY DEF TypeOK
<1>2. /\ deliveries' \in Seq(Delivery) /\ Len(deliveries') = n + 1
      /\ \A k \in 1 .. n : deliveries'[k] = deliveries[k]
      /\ deliveries'[n + 1] = d
  BY <1>1
<1>3. \A k \in 1 .. n : [mid |-> deliveries[k].env.mid, worker |-> deliveries[k].worker] \in Seen
  <2> TAKE k \in 1 .. n
  <2>1. deliveries[k] \in Delivery
    BY <1>1
  <2> QED
    BY <2>1 DEF Delivery, Envelope
<1>4. Handed \in [1 .. n -> Seen]
  BY <1>3 DEF Handed
<1>5. Handed \in Seq(Seen) /\ Len(Handed) = n
  <2> HIDE DEF Seen, n
  <2> QED
    BY <1>1, <1>4, Indexed
<1>6. new \in Seen
  BY DEF Delivery, Envelope
<1>7. Handed' = [k \in 1 .. n + 1 |-> IF k = n + 1 THEN new ELSE Handed[k]]
  BY <1>1, <1>2 DEF Handed
<1>8. Append(Handed, new) = [k \in 1 .. n + 1 |-> IF k = n + 1 THEN new ELSE Handed[k]]
  <2> HIDE DEF new, Seen, n
  <2> QED
    BY <1>5, <1>6, AppendIsFunction
<1> QED
  BY <1>7, <1>8

LEMMA ClaimMaps ==
  ASSUME IInv, IndexesAgree', NEW w \in Workers, NEW p \in Priorities, Claim(w, p)
  PROVE  Contract!ContractNext
<1> DEFINE head == Head(ready[p])
           m == head.mid
           lower == {q \in Backlog : q < p}
           popped == {q \in Backlog : q <= p}
           dropped == HeadsDropped(lower)
           lease == [token |-> Len(deliveries) + 1, worker |-> w, task |-> head.task]
           delivery == [env |-> head, worker |-> w]
<1>0. TypeOK
  BY DEF IInv
<1>1. p \in Backlog /\ p \in Int /\ Backlog \subseteq Int /\ popped \subseteq Backlog
      /\ ~ Withdrawn(head)
  BY DEF Claim, Deliverable, Backlog, Priorities
<1>2. head \in Envelope /\ head # Nil /\ m \in Messages /\ Genuine(head) /\ head.task \in Tasks
  BY <1>1, HeadGenuine, NilAssumption DEF Envelope
<1>3. delivery \in Delivery /\ lease # Nil
  <2>1. Len(deliveries) + 1 \in Nat \ {0}
    BY <1>0 DEF TypeOK
  <2>2. lease \in Lease
    BY <1>2, <2>1 DEF Lease
  <2> QED
    BY <1>2, <2>2, NilAssumption DEF Delivery
<1>4. /\ PopHeads(popped)
      /\ \A n \in Messages : inflight'[n] = IF n = m THEN head ELSE IF n \in dropped THEN Nil ELSE inflight[n]
      /\ \A n \in Messages : leases'[n] = IF n = m THEN lease ELSE IF n \in dropped THEN Nil ELSE leases[n]
      /\ deliveries' = Append(deliveries, delivery)
      /\ passes' = PassesOutrun(m)
      /\ UNCHANGED <<delayed, dlq, issued, acked, dispatched, cancelled>>
  BY DEF Claim
<1>5. \A n \in Messages \cap dropped : issued[n] # Nil /\ n \in Contract!Moot
  <2>1. \A q \in lower : Withdrawn(Head(ready[q]))
    BY DEF Claim, Deliverable, Backlog, Priorities
  <2> QED
    BY <2>1, DroppedWithdrawn, MootMessages
<1>6. \A n \in Messages : /\ InReady(n)' => InReady(n)
                          /\ InReady(n) => InReady(n)' \/ n \in dropped \/ n = m
  <2>1. \A n \in HeadsDropped(popped) : n \in dropped \/ n = m
    BY <1>1 DEF HeadsDropped
  <2> QED
    BY <1>0, <1>1, <1>4, <2>1, PopHeadsKeeps
<1>7. InReady(m)
  <2>1. ready[p] # <<>> /\ ready[p] \in Seq(Envelope)
    BY <1>0, <1>1 DEF Backlog, TypeOK
  <2>2. 1 \in DOMAIN ready[p] /\ ready[p][1] = head
    BY <2>1
  <2> QED
    BY <2>2 DEF InReady
<1>8. m \in Custody \cap (DOMAIN Tickets \ Contract!Moot)
  <2>1. issued[m] # Nil /\ ~ (issued[m].task \in cancelled \/ issued[m].snap # "live")
    BY <1>1, <1>2 DEF Genuine, Withdrawn
  <2> QED
    BY <1>2, <1>7, <2>1, MootMessages DEF Custody, Located
<1>9. Handed' = Append(Handed, [mid |-> m, worker |-> w])
  BY <1>0, <1>3, <1>4, HandedAppended
<1>10. Closing' = Closing
  <2>1. \A r \in Recoverers : /\ passes'[r].pc = passes[r].pc /\ passes'[r].cur = passes[r].cur
                              /\ passes'[r].terminal = passes[r].terminal
    BY <1>0, <1>4 DEF PassesOutrun, TypeOK, Pass
  <2> QED
    BY <2>1 DEF Closing
<1> HIDE DEF dropped, lease, head
<1>11. /\ m \in Leased' /\ Leased' \subseteq Leased \cup {m}
       /\ Leased \ Leased' \subseteq Contract!Moot
  BY <1>2, <1>3, <1>4, <1>5 DEF Leased
<1>12. Custody' \subseteq Custody /\ Custody \ Custody' \subseteq Contract!Moot
  BY <1>2, <1>4, <1>5, <1>6, <1>7 DEF Custody, Located
<1>13. Leased' \subseteq Custody'
  BY DEF IndexesAgree, Leased, Custody, Located
<1> HIDE DEF m
<1>14. Contract!Deliver(w, m)
  BY <1>4, <1>8, <1>9, <1>10, <1>11, <1>12, <1>13, SameTickets DEF Contract!Deliver, Contract!LetGo
<1>15. m \in Messages
  BY <1>2
<1> QED
  BY <1>14, <1>15 DEF Contract!ContractNext

\* Only the owner settles, and the owner is the newest delivery.
LEMMA AcknowledgeMaps ==
  ASSUME IInv, NewestOwns, IndexesAgree', NEW k \in Tokens, Acknowledge(k)
  PROVE  Contract!ContractNext
<1> DEFINE m == deliveries[k].env.mid
<1>0. TypeOK
  BY DEF IInv
<1>1. m \in Messages /\ issued[m] # Nil /\ issued[m].task = deliveries[k].env.task
  BY <1>0, DeliveryType DEF IInv, CopiesAgree, DeliveredAgree, Genuine
<1>2. leases[m] # Nil /\ leases[m].token = k /\ deliveries[k].env.task \notin cancelled
  BY DEF Acknowledge, Owns
<1>3. k \notin acked
  BY <1>1, <1>2 DEF IInv, LeaseBacked
<1>4. /\ \A n \in Messages : leases'[n] = IF n = m THEN Nil ELSE leases[n]
      /\ \A n \in Messages : n # m => inflight'[n] = inflight[n]
      /\ inflight'[m] = Nil
      /\ acked' = acked \cup {k}
      /\ UNCHANGED <<ready, delayed, dlq, issued, deliveries, dispatched, passes, cancelled>>
  BY <1>0, <1>1 DEF Acknowledge, LeaseRemoved, TypeOK
<1>5. Contract!Newest(k)
  BY <1>0, <1>1, <1>2, HandedTokens DEF Contract!Newest, NewestOwns
<1>6. m \in Leased \cap DOMAIN Tickets /\ Tickets[m].task \notin cancelled
  BY <1>1, <1>2, MootMessages DEF Leased
<1>7. Leased' = Leased \ {m}
  BY <1>1, <1>4 DEF Leased
<1>8. Custody' \subseteq Custody /\ Custody \ Custody' \subseteq {m}
  BY <1>4 DEF Custody, Located, InReady
<1>9. Leased' \subseteq Custody'
  BY DEF IndexesAgree, Leased, Custody, Located
<1>10. Handed[k].mid = m /\ k \in DOMAIN Handed
  BY <1>0, HandedTokens
<1> HIDE DEF m
<1>11. Contract!Settle(k)
  BY <1>3, <1>4, <1>5, <1>6, <1>7, <1>8, <1>9, <1>10, SameTickets, SameHanded, SameClosing
  DEF Contract!Settle, Contract!LetGo
<1> QED
  BY <1>10, <1>11 DEF Contract!ContractNext

LEMMA PromoteMaps ==
  ASSUME IInv, IndexesAgree', NEW m \in Messages, PromoteDue(m)
  PROVE  Contract!ContractNext
<1>0. TypeOK
  BY DEF IInv
<1>1. /\ delayed[m] # Nil /\ delayed[m] \in Envelope /\ delayed[m].mid = m
      /\ Genuine(delayed[m]) /\ delayed[m].prio \in Priorities /\ issued[m] # Nil
  BY DEF PromoteDue, IInv, IndexesAgree, CopiesAgree, StoredAgree, RetryWellFormed, Genuine, Envelope
<1>2. /\ \A n \in Messages : delayed'[n] = IF n = m THEN Nil ELSE delayed[n]
      /\ UNCHANGED <<inflight, leases, dlq, issued, deliveries, passes, acked, dispatched, cancelled>>
  BY <1>0 DEF PromoteDue, TypeOK
<1>3. CASE Withdrawn(delayed[m])
  <2>1. ready' = ready
    BY <1>3 DEF PromoteDue
  <2>2. m \in Contract!Moot
    BY <1>1, <1>3, MootMessages DEF Genuine, Withdrawn
  <2>3. Custody' \subseteq Custody /\ Custody \ Custody' \subseteq {m}
    BY <1>2, <2>1 DEF Custody, Located, InReady
  <2>4. Leased' = Leased /\ Leased' \subseteq Custody'
    BY <1>2 DEF IndexesAgree, Leased, Custody, Located
  <2>5. Contract!Discard
    BY <1>2, <2>2, <2>3, <2>4, SameTickets, SameHanded, SameClosing
    DEF Contract!Discard, Contract!LetGo
  <2> QED
    BY <2>5 DEF Contract!ContractNext
<1>4. CASE ~ Withdrawn(delayed[m])
  <2>1. ready' = Pushed(delayed[m].prio, delayed[m])
    BY <1>1, <1>4 DEF PromoteDue
  <2>2. \A n \in Messages : InReady(n)' <=> InReady(n) \/ n = m
    BY <1>0, <1>1, <2>1, PushedKeeps
  <2>3. Custody' = Custody
    BY <1>1, <1>2, <2>2 DEF Custody, Located
  <2> QED
    BY <1>2, <2>3, Unseen, SameTickets, SameHanded, SameLeased
<1> QED
  BY <1>3, <1>4

LEMMA CancelMaps ==
  ASSUME IInv, TaskIndexSound, IndexesAgree', NEW t \in Tasks, Cancel(t)
  PROVE  Contract!ContractNext
<1> DEFINE m == taskIndex[t]
<1>1. /\ t \notin cancelled /\ cancelled' = cancelled \cup {t}
      /\ \A n \in Messages : delayed'[n] = IF n = m THEN Nil ELSE delayed[n]
      /\ UNCHANGED <<ready, inflight, leases, dlq, issued, deliveries, passes, acked, dispatched>>
  BY DEF Cancel
<1>2. Custody' \subseteq Custody /\ \A n \in Custody \ Custody' : n = m
  BY <1>1 DEF Custody, Located, InReady
<1>3. ASSUME NEW n \in Messages, n = m
      PROVE  n \in DOMAIN Tickets /\ Tickets[n].task = t
  BY <1>3, NilAssumption, MootMessages DEF TaskIndexSound
<1>4. Custody \ Custody' \subseteq {n \in DOMAIN Tickets : Tickets[n].task = t}
  BY <1>2, <1>3 DEF Custody
<1>5. Leased' = Leased /\ Leased' \subseteq Custody'
  BY <1>1 DEF IndexesAgree, Leased, Custody, Located
<1>6. Contract!Revoke(t)
  BY <1>1, <1>2, <1>4, <1>5, SameTickets, SameHanded, SameClosing
  DEF Contract!Revoke, Contract!LetGo
<1> QED
  BY <1>6 DEF Contract!ContractNext

\* Recovery takes the message from a silent owner and, unless it is withdrawn
\* or was read as finished, files it again.
LEMMA RecoverMaps ==
  ASSUME IInv, IndexesAgree', NEW r \in Recoverers, RecoverOne(r)
  PROVE  Contract!ContractNext
<1>0. TypeOK
  BY DEF IInv
<1>11. PICK m \in Messages : m = passes[r].cur
  BY DEF RecoverOne, IInv, PassesSound, PassSound, Reading
<1>1. /\ passes[r].pc = "script" /\ m \in Messages /\ m \in passes[r].due
      /\ leases[m] # Nil /\ inflight[m] # Nil
  BY <1>11 DEF RecoverOne, IInv, IndexesAgree
<1>2. inflight[m].mid = m /\ Genuine(inflight[m]) /\ issued[m] # Nil
  BY <1>1 DEF IInv, CopiesAgree, StoredAgree, Genuine
<1>3. passes[r].env = inflight[m] /\ passes[r].leased /\ passes[r].env \in Envelope
  BY <1>0, <1>1, <1>11 DEF IInv, PassesSound, PassSound, Reading, TypeOK
<1>4. /\ \A n \in Messages : leases'[n] = IF n = m THEN Nil ELSE leases[n]
      /\ \A n \in Messages : n # m => /\ inflight'[n] = inflight[n] /\ delayed'[n] = delayed[n]
                                      /\ dlq'[n] = dlq[n]
      /\ UNCHANGED <<ready, issued, deliveries, acked, dispatched, cancelled>>
  BY <1>0, <1>1, <1>11 DEF RecoverOne, LeaseRemoved, TypeOK
<1>5. Located(m)' \/ m \in Contract!Moot \cup Closing
  <2>1. CASE passes[r].terminal
    BY <1>1, <1>11, <2>1 DEF Closing
  <2>2. CASE Withdrawn(inflight[m])
    BY <1>1, <1>2, <2>2, MootMessages DEF Genuine, Withdrawn
  <2>3. CASE ~ passes[r].terminal /\ ~ Withdrawn(inflight[m]) /\ RecoveryExhausted(passes[r])
    <3>1. [env |-> NextAttempt(passes[r].env), eligible |-> TRUE, approval |-> "pending",
           replayed |-> Nil] # Nil
      BY <1>3, NextAttemptType, DeadLetterType, NilAssumption
    <3>2. dlq'[m] # Nil
      BY <1>0, <1>1, <1>11, <2>3, <3>1 DEF RecoverOne, TypeOK
    <3> QED
      BY <3>2 DEF Located
  <2>4. CASE ~ passes[r].terminal /\ ~ Withdrawn(inflight[m]) /\ ~ RecoveryExhausted(passes[r])
    <3>1. RetryPayload(passes[r]) # Nil
      BY <1>3, NextAttemptType, NilAssumption DEF RetryPayload
    <3>2. delayed'[m] # Nil
      BY <1>0, <1>1, <1>11, <2>4, <3>1 DEF RecoverOne, TypeOK
    <3> QED
      BY <3>2 DEF Located
  <2> QED
    BY <2>1, <2>2, <2>3, <2>4
<1>6. Custody' \subseteq Custody /\ Custody \ Custody' \subseteq {m} \cap (Contract!Moot \cup Closing)
  BY <1>1, <1>4, <1>5 DEF Custody, Located, InReady
<1>7. Leased' = Leased \ {m} /\ m \in Leased
  BY <1>1, <1>4 DEF Leased
<1>8. Leased' \subseteq Custody'
  BY DEF IndexesAgree, Leased, Custody, Located
<1>9. Closing' \subseteq Closing
  <2>1. \A s \in Recoverers : s # r => passes'[s] = passes[s]
    BY <1>0 DEF RecoverOne, CandidateDone, TypeOK
  <2>2. passes'[r].pc # "script"
    BY <1>0 DEF RecoverOne, CandidateDone, TypeOK, IdlePass
  <2> QED
    BY <2>1, <2>2 DEF Closing
<1>10. Contract!Lapse(m)
  BY <1>4, <1>6, <1>7, <1>8, <1>9, SameTickets, SameHanded DEF Contract!Lapse, Contract!LetGo
<1> QED
  BY <1>10 DEF Contract!ContractNext

\* Every operation of the queue is a step of the contract or invisible to the
\* clients.
LEMMA StepMaps ==
  ASSUME IInv, IInv', TaskIndexSound, NewestOwns, [Next]_vars
  PROVE  [Contract!ContractNext]_(Contract!contract)
<1>0. IndexesAgree'
  BY DEF IInv
<1>1. CASE Produce
  BY <1>1, EnqueueMaps, UnseenSteps DEF Produce, DedupeExpires
<1>2. CASE Consume
  BY <1>0, <1>2, ClaimMaps, ClaimNoneMaps, AcknowledgeMaps, UnseenSteps
  DEF Consume, RenewLease, LeaseExpires
<1>3. CASE Retry
  BY <1>0, <1>3, ScheduleMaps, PromoteMaps, UnseenSteps DEF Retry, DelayElapses
<1>4. CASE Bury
  BY <1>4, FinalizeMaps, ApproveMaps, ReplayMaps, UnseenSteps
  DEF Bury, ApproveRead, ReplayRead, ReadRecord, OperatorGivesUp
<1>5. CASE \E t \in Tasks : Cancel(t)
  BY <1>0, <1>5, CancelMaps
<1>6. CASE Recover
  <2>1. CASE UNCHANGED recoveryReadsOnly
    BY <2>1, UnseenSteps
  <2>2. CASE \E r \in Recoverers : RecoverOne(r)
    BY <1>0, <2>2, RecoverMaps
  <2> QED
    BY <1>6, <2>1, <2>2, RecoverySteps
<1>7. CASE UNCHANGED vars
  BY <1>7, UnseenSteps DEF vars
<1> QED
  BY <1>1, <1>2, <1>3, <1>4, <1>5, <1>6, <1>7 DEF Next

\* A claim gives the lease to the delivery it makes; nothing else hands one
\* out.
LEMMA NewestOwnsStep ==
  ASSUME IInv, NewestOwns, [Next]_vars
  PROVE  NewestOwns'
<1>0. TypeOK
  BY DEF IInv
<1>1. ASSUME NEW w \in Workers, NEW p \in Priorities, Claim(w, p)
      PROVE  NewestOwns'
  <2> DEFINE head == Head(ready[p])
             n == Len(deliveries)
             lease == [token |-> n + 1, worker |-> w, task |-> head.task]
             delivery == [env |-> head, worker |-> w]
  <2>1. delivery \in Delivery
    BY <1>1, HeadGenuine DEF Claim, Deliverable, Delivery
  <2>2. /\ n \in Nat /\ Len(deliveries') = n + 1 /\ deliveries'[n + 1] = delivery
        /\ \A k \in 1 .. n : deliveries'[k] = deliveries[k]
    BY <1>0, <1>1, <2>1 DEF Claim, TypeOK
  <2>3. \A m \in Messages :
          leases'[m] = IF m = head.mid THEN lease
                       ELSE IF m \in HeadsDropped({q \in Backlog : q < p}) THEN Nil ELSE leases[m]
    BY <1>1 DEF Claim
  <2>4. \A m \in Messages : leases[m] # Nil => leases[m].token \in Nat
    BY <1>0, NilAssumption DEF TypeOK, Lease
  <2> HIDE DEF n
  <2>5. lease.token = n + 1 /\ delivery.env.mid = head.mid
    OBVIOUS
  <2> HIDE DEF lease, delivery, head
  <2>6. SUFFICES ASSUME NEW m \in Messages, leases'[m] # Nil, NEW j \in 1 .. n + 1,
                        deliveries'[j].env.mid = m
                 PROVE  j <= leases'[m].token
    BY <2>2 DEF NewestOwns
  <2>7. CASE m = head.mid
    <3>1. leases'[m].token = n + 1
      BY <2>3, <2>5, <2>7
    <3> QED
      BY <2>2, <2>6, <3>1
  <2>8. CASE m # head.mid
    <3>1. leases'[m] = leases[m]
      BY <2>3, <2>6, <2>8
    <3>2. j # n + 1
      BY <2>2, <2>5, <2>6, <2>8
    <3>3. j \in 1 .. n
      BY <2>2, <3>2
    <3>4. deliveries[j].env.mid = m
      BY <2>2, <2>6, <3>3
    <3>5. j \in Tokens
      BY <3>3 DEF Tokens, n
    <3> QED
      BY <2>6, <3>1, <3>4, <3>5 DEF NewestOwns
  <2> QED
    BY <2>7, <2>8
<1>2. ASSUME deliveries' = deliveries, \A m \in Messages : leases'[m] \in {Nil, leases[m]}
      PROVE  NewestOwns'
  BY <1>2 DEF NewestOwns
<1>3. ASSUME ClaimNone \/ (\E k \in Tokens : Acknowledge(k)) \/ (\E r \in Recoverers : RecoverOne(r))
      PROVE  NewestOwns'
  <2>1. deliveries' = deliveries /\ \A m \in Messages : leases'[m] \in {Nil, leases[m]}
    BY <1>0, <1>3 DEF ClaimNone, Acknowledge, RecoverOne, LeaseRemoved, TypeOK
  <2> QED
    BY <1>2, <2>1
<1>4. CASE UNCHANGED <<deliveries, leases>>
  BY <1>2, <1>4
<1>5. CASE Produce \/ Retry \/ Bury \/ (\E t \in Tasks : Cancel(t)) \/ UNCHANGED vars
  <2>1. CASE Produce
    <3>1. CASE \E t \in Tasks, m \in Messages, p \in Priorities, s \in EnqueueStates :
                 Enqueue(t, m, p, s)
      <4>1. UNCHANGED <<deliveries, leases>>
        BY <3>1, Zenon DEF Enqueue
      <4> QED
        BY <1>4, <4>1
    <3>2. CASE \E t \in Tasks : DedupeExpires(t)
      BY <1>4, <3>2 DEF DedupeExpires
    <3> QED
      BY <2>1, <3>1, <3>2 DEF Produce
  <2>2. CASE Retry
    BY <1>4, <2>2 DEF Retry, ScheduleFailure, DelayElapses, PromoteDue
  <2>3. CASE Bury
    BY <1>4, <2>3 DEF Bury, Finalize, ApproveRead, ReplayRead, ReadRecord, ApproveWrite,
       ReplayScript, OperatorGivesUp
  <2>4. CASE \E t \in Tasks : Cancel(t)
    BY <1>4, <2>4 DEF Cancel
  <2>5. CASE UNCHANGED vars
    BY <1>4, <2>5 DEF vars
  <2> QED
    BY <1>5, <2>1, <2>2, <2>3, <2>4, <2>5
<1>6. CASE Consume
  BY <1>1, <1>3, <1>4, <1>6 DEF Consume, RenewLease, LeaseExpires
<1>7. CASE Recover
  <2>1. CASE UNCHANGED recoveryReadsOnly
    BY <1>4, <2>1
  <2> QED
    BY <1>3, <1>7, <2>1, RecoverySteps
<1> QED
  BY <1>5, <1>6, <1>7 DEF Next

\* The Redis queue keeps the contract of DeliveryContract with its producers
\* and workers, for any number of them: what was accepted is delivered by one
\* owner at a time, settled by the newest delivery only, and let go only when
\* it was settled, cancelled or finished.
THEOREM QueueImplementsContract == Spec => ImplementsContract
<1>1. Init => NewestOwns
  BY DEF Init, NewestOwns
<1>2. IInv /\ NewestOwns /\ [Next]_vars => NewestOwns'
  BY NewestOwnsStep
<1>3. Init => Contract!ContractInit
  <2> SUFFICES ASSUME Init PROVE Contract!ContractInit
    OBVIOUS
  <2>1. Tickets = [m \in {} |-> m] /\ Leased = {}
    BY DEF Init, Tickets, Accepted, Leased
  <2>2. Custody = {}
    BY DEF Init, Custody, Located, InReady
  <2>3. Handed = <<>>
    BY DEF Init, Handed
  <2>4. Closing = {}
    BY DEF Init, Closing, IdlePass
  <2> QED
    BY <2>1, <2>2, <2>3, <2>4 DEF Init, Contract!ContractInit
<1>4. IInv /\ IInv' /\ TaskIndexSound /\ NewestOwns /\ [Next]_vars
        => [Contract!ContractNext]_(Contract!contract)
  BY StepMaps
<1> QED
  BY <1>1, <1>2, <1>3, <1>4, Inductive, TaskIndexAlways, PTL
  DEF Spec, ImplementsContract, Contract!ContractSpec

-----------------------------------------------------------------------------
(* What the contract says of a message that has left the queue             *)

\* Follows from the contract, whose Accept takes fresh messages only and whose
\* Return is a delivery's first.
THEOREM GoneStaysGoneAlways == Spec => GoneStaysGone
<1>1. Init => NewestOwns
  BY DEF Init, NewestOwns
<1>2. IInv /\ NewestOwns /\ [Next]_vars => NewestOwns'
  BY NewestOwnsStep
<1>3. IInv /\ IInv' /\ TaskIndexSound /\ NewestOwns /\ [Next]_vars => GoneStaysGoneStep
  <2> SUFFICES ASSUME IInv, IInv', TaskIndexSound, NewestOwns, [Next]_vars,
                      NEW m \in Messages, issued[m] # Nil, ~ Located(m), Located(m)'
               PROVE  \E k \in Tokens : /\ deliveries[k].env.mid = m
                                        /\ k \notin dispatched /\ k \in dispatched'
    BY DEF GoneStaysGoneStep
  <2>1. m \notin Custody /\ m \in Custody' /\ m \in DOMAIN Tickets
    BY DEF Custody, Tickets, Accepted
  <2>2. [Contract!ContractNext]_(Contract!contract)
    BY StepMaps
  <2>3. ~ (Custody' \subseteq Custody)
    BY <2>1
  <2>4. ASSUME NEW n \in Messages, NEW t \in Tasks, NEW live \in BOOLEAN, Contract!Accept(n, t, live)
        PROVE  FALSE
    BY <2>1, <2>4 DEF Contract!Accept
  <2>5. ASSUME NEW k \in DOMAIN Handed, Contract!Return(k)
        PROVE  \E j \in Tokens : deliveries[j].env.mid = m /\ j \notin dispatched /\ j \in dispatched'
    <3>1. k \in Tokens /\ Handed[k].mid = deliveries[k].env.mid
      BY <2>5 DEF Handed
    <3>2. k \notin dispatched /\ k \in dispatched' /\ Custody' = Custody \cup {Handed[k].mid}
      BY <2>5 DEF Contract!Return
    <3> QED
      BY <2>1, <3>1, <3>2
  <2>6. CASE UNCHANGED Contract!contract
    BY <2>3, <2>6 DEF Contract!contract
  <2>7. ~ \E w \in Workers, n \in Messages : Contract!Deliver(w, n)
    BY <2>3 DEF Contract!Deliver, Contract!LetGo
  <2>8. ~ Contract!Discard /\ ~ \E t \in Tasks : Contract!Revoke(t)
    BY <2>3 DEF Contract!Discard, Contract!Revoke, Contract!LetGo
  <2>9. ~ \E k \in DOMAIN Handed : Contract!Settle(k)
    BY <2>3 DEF Contract!Settle, Contract!LetGo
  <2>10. ~ (\E n \in Messages : Contract!Lapse(n)) /\ ~ Contract!Report
    BY <2>3 DEF Contract!Lapse, Contract!Report, Contract!LetGo
  <2> QED
    BY <2>2, <2>4, <2>5, <2>6, <2>7, <2>8, <2>9, <2>10 DEF Contract!ContractNext
<1> QED
  BY <1>1, <1>2, <1>3, Inductive, TaskIndexAlways, PTL DEF Spec, GoneStaysGone
=============================================================================
