--------------------------- MODULE ExecutionProofs ---------------------------
(***************************************************************************)
(* Theorems about the task record, the approval store, the repository       *)
(* checkout, the workspace tools and the policy engine, for every value of  *)
(* their constants.                                                         *)
(***************************************************************************)
EXTENDS TaskLifecycle, ApprovalStore, RepositoryAcquisition, WorkspaceTools, PolicyDecisions,
        FiniteSetTheorems, TLAPS

-----------------------------------------------------------------------------
(* RepositoryAcquisition. *)

(* Why a returned directory stays as it is: a call gets past the emptiness  *)
(* check only before any git process has written, so that whatever earlier  *)
(* calls left running is an init, which changes no commit; and a directory  *)
(* that was returned lets no further call in.                               *)
OnlyInits == \A p \in leftover : p.command = "init"

AcquisitionInv ==
  /\ AcquisitionTypeOK
  /\ ~destination.git => OnlyInits
  /\ acquire.pc # "idle" => OnlyInits /\ acquire.sha # NoSha
  /\ acquire.pc \in {"fetch", "checkout", "validate"} => destination.git
  /\ acquire.pc = "validate" => destination.head = acquire.sha /\ destination.tree = acquire.sha
  /\ delivered # NoSha => /\ destination.git /\ acquire.pc = "idle" /\ OnlyInits
                          /\ destination.head = delivered /\ destination.tree = delivered

(* What a git process leaves is a directory again, and a repository stays    *)
(* one.                                                                     *)
LEMMA EffectTyped ==
  ASSUME AcquisitionTypeOK, NEW p \in Process
  PROVE  /\ GitEffect(p) \in [git: BOOLEAN, objects: SUBSET Shas, head: AnySha,
                              tree: AnySha \cup {"partial"}]
         /\ destination.git => GitEffect(p).git
<1> USE DEF AcquisitionTypeOK, Process, Commands, AnySha
<1>1. CASE p.command = "init"
  BY <1>1 DEF GitEffect
<1>2. CASE p.command = "fetch"
  BY <1>2 DEF GitEffect
<1>3. CASE p.command = "checkout"
  BY <1>3 DEF GitEffect
<1> QED
  BY <1>1, <1>2, <1>3

(* A git process that stops half-way leaves a directory that is a            *)
(* repository if it was one.                                                *)
LEMMA PartlyTyped ==
  ASSUME AcquisitionTypeOK, NEW d \in PartlyDone
  PROVE  /\ d \in [git: BOOLEAN, objects: SUBSET Shas, head: AnySha,
                   tree: AnySha \cup {"partial"}]
         /\ d.git = destination.git
<1> USE DEF AcquisitionTypeOK, AnySha
<1>1. CASE d = destination
  BY <1>1
<1>2. CASE d = [destination EXCEPT !.tree = IF Current.command = "checkout" THEN "partial" ELSE @]
  <2>1. CASE Current.command = "checkout"
    BY <1>2, <2>1
  <2>2. CASE Current.command # "checkout"
    BY <1>2, <2>2
  <2> QED BY <2>1, <2>2
<1> QED
  BY <1>1, <1>2 DEF PartlyDone

(* The argument above is inductive over every step of acquire and of the    *)
(* git processes it left behind.                                            *)
LEMMA AcquisitionStep == AcquisitionInv /\ [AcquisitionNext]_acquisition => AcquisitionInv'
<1> SUFFICES ASSUME AcquisitionInv, [AcquisitionNext]_acquisition
             PROVE  AcquisitionInv'
  OBVIOUS
<1> USE AcquisitionAssumption DEF AcquisitionInv, AcquisitionTypeOK, OnlyInits, AnySha, Commands, Process
<1>1. ASSUME NEW sha \in Shas, NEW acceptable \in BOOLEAN, StartAcquire(sha, acceptable)
      PROVE  AcquisitionInv'
  BY <1>1 DEF StartAcquire, Prepared
<1>2. CASE GitSucceeds
  <2>1. CASE acquire.pc = "init"
    BY <1>2, <2>1 DEF GitSucceeds, GitEffect, Current, Following
  <2>2. CASE acquire.pc = "fetch"
    BY <1>2, <2>2 DEF GitSucceeds, GitEffect, Current, Following
  <2>3. CASE acquire.pc = "checkout"
    BY <1>2, <2>3 DEF GitSucceeds, GitEffect, Current, Following
  <2> QED
    BY <1>2, <2>1, <2>2, <2>3 DEF GitSucceeds
<1>3. CASE GitFails
  <2>1. acquire.pc \in Commands /\ acquire' = [acquire EXCEPT !.pc = "idle", !.sha = NoSha]
        /\ leftover' = leftover /\ delivered' = delivered
    BY <1>3 DEF GitFails, Closed
  <2>2. destination' \in [git: BOOLEAN, objects: SUBSET Shas, head: AnySha,
                          tree: AnySha \cup {"partial"}]
    BY <1>3, <2>1, EffectTyped, PartlyTyped DEF GitFails, Current
  <2> QED
    BY <2>1, <2>2
<1>4. CASE TimesOut
  <2>1. acquire.pc \in Commands /\ acquire' = [acquire EXCEPT !.pc = "idle", !.sha = NoSha]
        /\ leftover' = leftover \cup {Current} /\ delivered' = delivered
    BY <1>4 DEF TimesOut, Closed
  <2>2. /\ destination' \in [git: BOOLEAN, objects: SUBSET Shas, head: AnySha,
                             tree: AnySha \cup {"partial"}]
        /\ destination'.git = destination.git
    BY <1>4, <2>1, PartlyTyped DEF TimesOut
  <2>3. Current \in Process /\ Current.command = acquire.pc
    BY <2>1 DEF Current
  <2> QED
    BY <2>1, <2>2, <2>3
<1>5. CASE LeftoverEnds
  <2>1. PICK p \in leftover : /\ destination' \in {destination, GitEffect(p)}
                              /\ leftover' = leftover \ {p}
                              /\ acquire' = acquire /\ delivered' = delivered
    BY <1>5 DEF LeftoverEnds
  <2>2. CASE p.command = "init"
    <3>1. GitEffect(p) = [destination EXCEPT !.git = TRUE]
      BY <2>2 DEF GitEffect
    <3> QED
      BY <2>1, <2>2, <3>1
  <2>3. CASE p.command # "init"
    <3>1. destination.git /\ acquire.pc = "idle" /\ delivered = NoSha
      BY <2>1, <2>3
    <3>2. /\ GitEffect(p) \in [git: BOOLEAN, objects: SUBSET Shas, head: AnySha,
                                tree: AnySha \cup {"partial"}]
          /\ destination.git => GitEffect(p).git
      BY EffectTyped
    <3>3. destination'.git
      BY <2>1, <3>1, <3>2
    <3> QED
      BY <2>1, <3>1, <3>2, <3>3
  <2> QED
    BY <2>2, <2>3
<1>6. ASSUME NEW acceptable \in BOOLEAN, Validate(acceptable)
      PROVE  AcquisitionInv'
  BY <1>6 DEF Validate, Closed
<1>7. CASE UNCHANGED acquisition
  BY <1>7 DEF acquisition
<1> QED
  BY <1>1, <1>2, <1>3, <1>4, <1>5, <1>6, <1>7 DEF AcquisitionNext

(* A directory acquire returned holds the commit it was asked for and keeps *)
(* it, for any number of calls, commits and git processes left running.     *)
THEOREM CheckoutKeptAlways == AcquisitionSpec => [](AcquisitionTypeOK /\ CheckoutKept)
<1>1. AcquisitionInit => AcquisitionInv
  BY AcquisitionAssumption
  DEF AcquisitionInit, AcquisitionInv, AcquisitionTypeOK, OnlyInits, AnySha, Commands, Process
<1>2. AcquisitionInv => AcquisitionTypeOK /\ CheckoutKept
  BY DEF AcquisitionInv, CheckoutKept
<1> QED
  BY <1>1, <1>2, AcquisitionStep, PTL DEF AcquisitionSpec

-----------------------------------------------------------------------------
(* ApprovalStore. *)

(* A one-time approval that was consumed is in _used, which is what keeps    *)
(* it from being consumed again.                                            *)
OnceUsed == \A g \in grants : records[g.id].one_time => g.id \in used

ApprovalsInv == GrantsAccountable /\ OnceUsed

(* No step of the store lets a consumed approval lose its justification.    *)
LEMMA ApprovalsStep == ApprovalsInv /\ [ApprovalsNext]_approvals => ApprovalsInv'
<1> SUFFICES ASSUME ApprovalsInv, [ApprovalsNext]_approvals
             PROVE  ApprovalsInv'
  OBVIOUS
<1> USE DEF ApprovalsInv, GrantsAccountable, OnceUsed
<1>1. ASSUME NEW a \in ApprovalIds, NEW r \in ApprovalRecord, Add(a, r)
      PROVE  ApprovalsInv'
  BY <1>1 DEF Add, Addable
<1>2. ASSUME NEW a \in ApprovalIds, NEW subject \in Subjects, NEW diff \in AnyDiff,
             NEW scope \in SUBSET Scopes, NEW role \in ActorRoles,
             Consume(a, subject, diff, scope, role)
      PROVE  ApprovalsInv'
  <2> DEFINE g0 == [id |-> a, number |-> Cardinality(grants) + 1, moment |-> moment,
                    subject |-> subject, diff |-> diff, scope |-> scope, role |-> role]
  <2>1. /\ grants' = grants \cup {g0} /\ records' = records
        /\ used' = IF records[a].one_time THEN used \cup {a} ELSE used
    BY <1>2 DEF Consume, UsedAfterwards
  <2>2. Consumable(a, subject, diff, scope, role)
    BY <1>2 DEF Consume
  <2>3. records[a].one_time => \A h \in grants : h.id # a
    BY <2>2 DEF Consumable
  <2>4. /\ g0.id = a /\ g0.moment = moment /\ g0.subject = subject
        /\ g0.diff = diff /\ g0.scope = scope /\ g0.role = role
    OBVIOUS
  <2>5. OnceUsed'
    BY <2>1, <2>4
  <2> HIDE DEF g0
  <2>6. ASSUME NEW g \in grants'
        PROVE  /\ g.id \in DOMAIN records /\ records[g.id].approved
               /\ g.moment < records[g.id].expires
               /\ records[g.id].diff \in {NoDiff, g.diff}
               /\ g.subject = records[g.id].subject /\ g.scope \subseteq records[g.id].scope
               /\ records[g.id].role \in {"owner", g.role}
    <3>1. CASE g \in grants
      BY <3>1
    <3>2. CASE g = g0
      BY <3>2, <2>2, <2>4 DEF Consumable
    <3> QED BY <2>1, <3>1, <3>2
  <2>7. ASSUME NEW g \in grants', records[g.id].one_time, NEW h \in grants', h.id = g.id
        PROVE  h = g
    BY <2>1, <2>3, <2>4, <2>7
  <2> QED
    BY <2>1, <2>5, <2>6, <2>7
<1>3. CASE MomentPasses
  BY <1>3 DEF MomentPasses
<1>4. CASE UNCHANGED approvals
  BY <1>4 DEF approvals
<1> QED
  BY <1>1, <1>2, <1>3, <1>4 DEF ApprovalsNext

(* Whatever approvals are added, used or expire, in any order and number,   *)
(* the records on file answer for every use, and a one-time approval was    *)
(* used once.                                                               *)
THEOREM GrantsAccountableAlways == ApprovalsSpec => []GrantsAccountable
<1>1. ApprovalsInit => ApprovalsInv
  BY DEF ApprovalsInit, ApprovalsInv, GrantsAccountable, OnceUsed
<1>2. ApprovalsInv => GrantsAccountable
  BY DEF ApprovalsInv
<1> QED
  BY <1>1, <1>2, ApprovalsStep, PTL DEF ApprovalsSpec
-----------------------------------------------------------------------------
(* TaskLifecycle. *)

DefaultKeys == States \X States \X (Evidence \cup {""})
ChosenKeys == Keys \X {"chosen"}
Event == [source: States, target: States, key: DefaultKeys \cup ChosenKeys]

(* A default key tells which edge was taken, which lets plan conclude from  *)
(* a repeated key that the record passed there.                             *)
KeysTell ==
  \A i \in DOMAIN audit : audit[i].key \in DefaultKeys =>
    audit[i].source = audit[i].key[1] /\ audit[i].target = audit[i].key[2]

(* plan waits for the model only after the record became context_ready.     *)
PlanStarted ==
  planner = "awaiting" => \E i \in DOMAIN audit : audit[i].target = "context_ready"

LifecycleInv == LifecycleTypeOK /\ AuditChained /\ KeysTell /\ PlanStarted /\ PlanBacked

(* The part of the transition table the argument needs: a task is received  *)
(* only at its start, becomes context_ready from there and planned from     *)
(* context_ready.                                                           *)
LEMMA TableFacts ==
  /\ States = {"received", "validated", "awaiting_approval", "queued", "planning",
               "context_ready", "planned", "approval_required", "executing", "testing",
               "guarding", "verifying", "reviewing", "fixing", "ready_for_pr", "pr_opened",
               "completed", "failed", "cancelled"}
  /\ \A s \in States : /\ ALLOWED[s] \subseteq States
                       /\ "received" \notin ALLOWED[s]
                       /\ "context_ready" \in ALLOWED[s] => s = "received"
                       /\ "planned" \in ALLOWED[s] => s = "context_ready"
<1>1. States = {"received", "validated", "awaiting_approval", "queued", "planning",
               "context_ready", "planned", "approval_required", "executing", "testing",
               "guarding", "verifying", "reviewing", "fixing", "ready_for_pr", "pr_opened",
               "completed", "failed", "cancelled"}
  BY DEF States, ALLOWED
<1>2. ASSUME NEW s \in States
      PROVE  /\ ALLOWED[s] \subseteq States
             /\ "received" \notin ALLOWED[s]
             /\ "context_ready" \in ALLOWED[s] => s = "received"
             /\ "planned" \in ALLOWED[s] => s = "context_ready"
  BY <1>1 DEF ALLOWED
<1> QED
  BY <1>1, <1>2

(* transition keeps the trail a path: with a key that names the edge or was *)
(* chosen by the caller, a step of it appends the edge it takes or nothing. *)
LEMMA TakeKeeps ==
  ASSUME LifecycleTypeOK, AuditChained, KeysTell, start' = start,
         NEW target \in States, NEW key \in DefaultKeys \cup ChosenKeys,
         key \in DefaultKeys => key[1] = state /\ key[2] = target,
         Take(target, key)
  PROVE  /\ state' \in States /\ audit' \in Seq(Event)
         /\ AuditChained' /\ KeysTell'
         /\ \A i \in DOMAIN audit : i \in DOMAIN audit' /\ audit'[i] = audit[i]
         /\ ~Repeated(key) /\ ~Raises(target, key) =>
              /\ Len(audit') \in DOMAIN audit' /\ audit'[Len(audit')].target = target
              /\ \A i \in DOMAIN audit : i < Len(audit')
<1>0. audit \in Seq(Event) /\ state \in States /\ start \in States
  BY LifecycleAssumption DEF LifecycleTypeOK, Event, DefaultKeys, ChosenKeys
<1>1. CASE ~Moves(target, key)
  <2>1. state' = state /\ audit' = audit
    BY <1>1 DEF Take
  <2>2. AuditChained'
    BY <2>1 DEF AuditChained
  <2>3. KeysTell'
    BY <2>1 DEF KeysTell
  <2>4. Repeated(key) \/ Raises(target, key)
    BY <1>1 DEF Moves, Raises
  <2> QED
    BY <1>0, <2>1, <2>2, <2>3, <2>4
<1>2. CASE Moves(target, key)
  <2> DEFINE e == [source |-> state, target |-> target, key |-> key]
             n == Len(audit) + 1
  <2>1. state' = target /\ audit' = Append(audit, e)
    BY <1>2 DEF Take, Recorded
  <2>2. e \in Event /\ e.source = state /\ e.target = target /\ e.key = key
    BY <1>0 DEF Event
  <2>3. ~Repeated(key) /\ target \in ALLOWED[state]
    BY <1>2 DEF Moves
  <2> HIDE DEF e
  <2>4. /\ audit' \in Seq(Event) /\ Len(audit') = n /\ n \in Nat
        /\ DOMAIN audit = 1 .. Len(audit) /\ DOMAIN audit' = 1 .. n
        /\ audit'[n] = e
        /\ \A i \in DOMAIN audit : audit'[i] = audit[i] /\ i < n /\ i \in DOMAIN audit'
    BY <1>0, <2>1, <2>2
  <2>5. AuditChained'
    <3>1. state' = IF audit' = <<>> THEN start' ELSE audit'[Len(audit')].target
      BY <2>1, <2>2, <2>4
    <3>2. ASSUME NEW i \in DOMAIN audit'
          PROVE  /\ audit'[i].source = IF i = 1 THEN start ELSE audit'[i - 1].target
                 /\ audit'[i].target \in ALLOWED[audit'[i].source]
                 /\ \A j \in DOMAIN audit' : audit'[i].key = audit'[j].key => i = j
      <4>1. CASE i # n
        BY <2>2, <2>3, <2>4, <4>1 DEF AuditChained, Repeated
      <4>2. CASE i = n
        <5>1. audit'[i].source = IF i = 1 THEN start ELSE audit'[i - 1].target
          BY <1>0, <2>2, <2>4, <4>2 DEF AuditChained
        <5>2. \A j \in DOMAIN audit' : audit'[i].key = audit'[j].key => i = j
          BY <2>2, <2>3, <2>4, <4>2 DEF Repeated
        <5> QED
          BY <2>2, <2>3, <2>4, <4>2, <5>1, <5>2
      <4> QED
        BY <4>1, <4>2
    <3> QED
      BY <3>1, <3>2 DEF AuditChained
  <2>6. KeysTell'
    <3> SUFFICES ASSUME NEW i \in DOMAIN audit', audit'[i].key \in DefaultKeys
                 PROVE  /\ audit'[i].source = audit'[i].key[1]
                        /\ audit'[i].target = audit'[i].key[2]
      BY DEF KeysTell
    <3>1. CASE i # n
      <4>1. Len(audit) \in Nat
        BY <1>0
      <4>2. i \in DOMAIN audit /\ audit'[i] = audit[i]
        BY <2>4, <3>1, <4>1
      <4> QED
        BY <4>2 DEF KeysTell
    <3>2. CASE i = n
      BY <2>2, <2>4, <3>2
    <3> QED
      BY <3>1, <3>2
  <2> QED
    BY <1>0, <2>1, <2>2, <2>4, <2>5, <2>6
<1> QED
  BY <1>1, <1>2

(* No key a caller chooses is the default key of an edge.                    *)
LEMMA KeysDiffer ==
  \A k \in Keys : <<k, "chosen">> \in ChosenKeys /\ <<k, "chosen">> \notin DefaultKeys
<1>1. ASSUME NEW k, NEW A, NEW B, NEW C, <<k, "chosen">> \in A \X B \X C
      PROVE  FALSE
  BY <1>1
<1>2. \A k \in Keys : <<k, "chosen">> \in ChosenKeys
  BY DEF ChosenKeys
<1> QED
  BY <1>1, <1>2 DEF DefaultKeys

(* What plan learns from a key that is known already.                       *)
LEMMA RepeatedTells ==
  ASSUME KeysTell, state \in States, NEW target \in States, NEW evidence \in Evidence,
         Repeated(DefaultKey(target, evidence))
  PROVE  \E i \in DOMAIN audit : audit[i].target = target
<1> DEFINE key == DefaultKey(target, evidence)
<1>1. key \in DefaultKeys /\ key[2] = target
  BY DEF DefaultKey, DefaultKeys
<1>2. PICK i \in DOMAIN audit : audit[i].key = key
  BY DEF Repeated
<1> QED
  BY <1>1, <1>2 DEF KeysTell

(* A record is planned only after it was context_ready in its own trail, if *)
(* it was so at all.                                                        *)
LEMMA PlannedLater ==
  ASSUME LifecycleTypeOK, AuditChained,
         NEW i \in DOMAIN audit, audit[i].target = "context_ready",
         NEW j \in DOMAIN audit, audit[j].target = "planned"
  PROVE  i < j
<1>0. audit \in Seq(Event) /\ start \in States
  BY LifecycleAssumption DEF LifecycleTypeOK, Event, DefaultKeys, ChosenKeys
<1>1. /\ audit \in Seq(Event) /\ start \in States
      /\ \A k \in DOMAIN audit : audit[k].source \in States /\ audit[k].target \in States
  <2>1. \A k \in DOMAIN audit : audit[k] \in Event
    BY <1>0
  <2> QED
    BY <1>0, <2>1 DEF Event
<1>2. audit[i].source = "received"
  <2>1. audit[i].source \in States /\ "context_ready" \in ALLOWED[audit[i].source]
    BY <1>1 DEF AuditChained
  <2> QED
    BY <2>1, TableFacts
<1>3. i = 1
  <2>1. ASSUME i # 1 PROVE FALSE
    <3>1. i - 1 \in DOMAIN audit /\ audit[i - 1].target = "received"
      BY <1>1, <1>2, <2>1 DEF AuditChained
    <3>2. "received" \in ALLOWED[audit[i - 1].source]
      BY <3>1 DEF AuditChained
    <3> QED
      BY <1>1, <3>1, <3>2, TableFacts
  <2> QED BY <2>1
<1> QED
  BY <1>1, <1>3

(* Every caller keeps the trail a path, and plan's two transitions stay     *)
(* backed by it, whatever the others do while it waits.                     *)
LEMMA LifecycleStep == LifecycleInv /\ [LifecycleNext]_record => LifecycleInv'
<1> SUFFICES ASSUME LifecycleInv, [LifecycleNext]_record
             PROVE  LifecycleInv'
  OBVIOUS
<1>0. /\ LifecycleTypeOK /\ AuditChained /\ KeysTell /\ PlanStarted /\ PlanBacked
      /\ state \in States /\ start \in StartStates
      /\ planner \in {"idle", "awaiting", "done", "raised"}
  BY DEF LifecycleInv, LifecycleTypeOK
<1> DEFINE Kept == \A i \in DOMAIN audit : i \in DOMAIN audit' /\ audit'[i] = audit[i]
<1>1. ASSUME start' = start, state' \in States, audit' \in Seq(Event),
             planner' \in {"idle", "awaiting", "done", "raised"}
      PROVE  LifecycleTypeOK'
  BY <1>0, <1>1 DEF LifecycleTypeOK, Event, DefaultKeys, ChosenKeys
<1>2. ASSUME planner' = planner, Kept
      PROVE  PlanStarted' /\ PlanBacked'
  BY <1>0, <1>2 DEF PlanStarted, PlanBacked
<1>2a. ASSUME start' = start, state' = state, audit' = audit
       PROVE  AuditChained' /\ KeysTell'
  <2>1. AuditChained'
    BY <1>0, <1>2a DEF AuditChained
  <2>2. KeysTell'
    BY <1>0, <1>2a DEF KeysTell
  <2> QED
    BY <2>1, <2>2
<1>3. ASSUME NEW target \in States, NEW key \in DefaultKeys \cup ChosenKeys,
             key \in DefaultKeys => key[1] = state /\ key[2] = target,
             Take(target, key), UNCHANGED <<start, planner>>
      PROVE  LifecycleInv'
  BY <1>0, <1>1, <1>2, <1>3, TakeKeeps DEF LifecycleInv
<1>4. ASSUME NEW target \in States, NEW evidence \in Evidence \cup {""}
      PROVE  /\ DefaultKey(target, evidence) \in DefaultKeys \cup ChosenKeys
             /\ DefaultKey(target, evidence)[1] = state
             /\ DefaultKey(target, evidence)[2] = target
  BY <1>0, <1>4 DEF DefaultKey, DefaultKeys
<1>5. ASSUME NEW target \in States, NEW evidence \in Evidence \cup {""},
             Transition(target, DefaultKey(target, evidence))
      PROVE  LifecycleInv'
  BY <1>3, <1>4, <1>5 DEF Transition
<1>6. ASSUME NEW target \in States, NEW key \in Keys, Transition(target, <<key, "chosen">>)
      PROVE  LifecycleInv'
  <2>1. <<key, "chosen">> \in ChosenKeys /\ <<key, "chosen">> \notin DefaultKeys
    BY KeysDiffer
  <2> QED
    BY <1>3, <1>6, <2>1 DEF Transition
<1>7. CASE PlanBegins
  <2> DEFINE key == DefaultKey("context_ready", "repository-context-built")
  <2>1. /\ Take("context_ready", key) /\ start' = start
        /\ planner' = IF Raises("context_ready", key) THEN "raised" ELSE "awaiting"
    BY <1>7 DEF PlanBegins
  <2>2. "context_ready" \in States /\ "repository-context-built" \in Evidence
    BY TableFacts, LifecycleAssumption
  <2>3. key \in DefaultKeys \cup ChosenKeys /\ key[1] = state /\ key[2] = "context_ready"
    BY <1>4, <2>2
  <2>4. Repeated(key) => \E i \in DOMAIN audit : audit[i].target = "context_ready"
    BY <1>0, <2>2, RepeatedTells
  <2> HIDE DEF key
  <2>5. /\ state' \in States /\ audit' \in Seq(Event) /\ AuditChained' /\ KeysTell' /\ Kept
        /\ ~Repeated(key) /\ ~Raises("context_ready", key) =>
             \E i \in DOMAIN audit' : audit'[i].target = "context_ready"
    BY <1>0, <2>1, <2>2, <2>3, TakeKeeps
  <2>6. PlanStarted' /\ PlanBacked'
    BY <2>1, <2>4, <2>5 DEF PlanStarted, PlanBacked
  <2> QED
    BY <1>1, <2>1, <2>5, <2>6 DEF LifecycleInv
<1>8. CASE PlanEnds
  <2> DEFINE key == DefaultKey("planned", "plan-generated")
  <2>1. /\ Take("planned", key) /\ start' = start /\ planner = "awaiting"
        /\ planner' = IF Raises("planned", key) THEN "raised" ELSE "done"
    BY <1>8 DEF PlanEnds
  <2>2. "planned" \in States /\ "plan-generated" \in Evidence
    BY TableFacts, LifecycleAssumption
  <2>3. key \in DefaultKeys \cup ChosenKeys /\ key[1] = state /\ key[2] = "planned"
    BY <1>4, <2>2
  <2>4. Repeated(key) => \E j \in DOMAIN audit : audit[j].target = "planned"
    BY <1>0, <2>2, RepeatedTells
  <2>5. PICK i \in DOMAIN audit : audit[i].target = "context_ready"
    BY <1>0, <2>1 DEF PlanStarted
  <2> HIDE DEF key
  <2>6. /\ state' \in States /\ audit' \in Seq(Event) /\ AuditChained' /\ KeysTell' /\ Kept
        /\ ~Repeated(key) /\ ~Raises("planned", key) =>
             \E j \in DOMAIN audit' : i < j /\ audit'[j].target = "planned"
    BY <1>0, <2>1, <2>2, <2>3, TakeKeeps
  <2>7. Repeated(key) => \E j \in DOMAIN audit' : i < j /\ audit'[j].target = "planned"
    BY <1>0, <2>4, <2>5, <2>6, PlannedLater
  <2>8. PlanStarted' /\ PlanBacked'
    BY <2>1, <2>5, <2>6, <2>7 DEF PlanStarted, PlanBacked
  <2> QED
    BY <1>1, <2>1, <2>6, <2>8 DEF LifecycleInv
<1>9. CASE PlanRaises
  <2>1. /\ start' = start /\ state' = state /\ audit' = audit /\ planner' = "raised"
    BY <1>9 DEF PlanRaises
  <2> QED
    BY <1>0, <2>1, <1>2a DEF LifecycleInv, LifecycleTypeOK, PlanStarted, PlanBacked
<1>10. ASSUME NEW protected \in BOOLEAN, AuthorizePaths(protected)
       PROVE  LifecycleInv'
  <2>1. "approval_required" \in States /\ "executing" \in States
    BY TableFacts
  <2> DEFINE approval == DefaultKey("approval_required", "human-approval-required")
             execute == DefaultKey("executing", "execution-authorized")
  <2>4. /\ approval \in DefaultKeys \cup ChosenKeys
        /\ approval[1] = state /\ approval[2] = "approval_required"
        /\ execute \in DefaultKeys \cup ChosenKeys
        /\ execute[1] = state /\ execute[2] = "executing"
    BY <1>4, <2>1, LifecycleAssumption
  <2>5. /\ UNCHANGED <<start, planner>>
        /\ IF protected THEN Take("approval_required", approval) ELSE Take("executing", execute)
    BY <1>10 DEF AuthorizePaths
  <2> HIDE DEF approval, execute
  <2>2. CASE protected
    BY <1>3, <2>1, <2>4, <2>5, <2>2
  <2>3. CASE ~protected
    BY <1>3, <2>1, <2>4, <2>5, <2>3
  <2> QED BY <2>2, <2>3
<1>11. CASE UNCHANGED record
  <2>1. /\ start' = start /\ state' = state /\ audit' = audit /\ planner' = planner
    BY <1>11 DEF record
  <2> QED
    BY <1>0, <2>1, <1>2a DEF LifecycleInv, LifecycleTypeOK, PlanStarted, PlanBacked
<1> QED
  BY <1>5, <1>6, <1>7, <1>8, <1>9, <1>10, <1>11 DEF LifecycleNext

(* The audit trail of a task record is the path it took, for any number of  *)
(* callers, keys and evidence texts.                                        *)
THEOREM AuditTrailSound == LifecycleSpec => [](LifecycleTypeOK /\ AuditChained /\ PlanBacked)
<1>1. LifecycleInit => LifecycleInv
  BY LifecycleAssumption
  DEF LifecycleInit, LifecycleInv, LifecycleTypeOK, AuditChained, KeysTell, PlanStarted, PlanBacked
<1>2. LifecycleInv => LifecycleTypeOK /\ AuditChained /\ PlanBacked
  BY DEF LifecycleInv
<1> QED
  BY <1>1, <1>2, LifecycleStep, PTL DEF LifecycleSpec

(* plan returns only when the record went through both of its transitions,  *)
(* whatever other callers did to the record while it awaited the model.     *)
THEOREM PlanBackedAlways == LifecycleSpec => []PlanBacked
BY AuditTrailSound, PTL

-----------------------------------------------------------------------------
(* WorkspaceTools. *)

Values == Contents \cup {Absent, Nil, "binary"}

Job ==
  [pc: {"idle", "read", "write", "restore", "wait", "reap", "done", "raised"},
   files: Seq(PatchFile), at: Nat \ {0}, temp: BOOLEAN, interrupted: BOOLEAN,
   broken: BOOLEAN, reason: {"none", "refused", "error", "cancelled", "timeout"},
   originals: [Paths -> Values]]

ToolsTyped ==
  /\ job \in Job
  /\ disk \in [Paths -> Values] /\ temps \in [Paths -> Values]

Result(file) == IF file.delete THEN Absent ELSE file.content

(* File i is the last of the first k that names p. *)
LastNaming(i, p, k) ==
  /\ i \in 1 .. k /\ job.files[i].path = p
  /\ \A j \in 1 .. k : job.files[j].path = p => j <= i

Unstarted ==
  job.pc = "idle" =>
    /\ job.files = <<>> /\ job.at = 1 /\ ~job.temp
    /\ \A p \in Paths : job.originals[p] = Nil /\ temps[p] = Absent

(* Reading: what was read is what is on the disk. *)
ReadSound ==
  job.pc = "read" =>
    /\ job.at <= Len(job.files) /\ ~job.temp
    /\ \A p \in Paths : job.originals[p] \in {Nil, disk[p]} /\ temps[p] = Absent
    /\ \A i \in 1 .. job.at - 1 : job.originals[job.files[i].path] = disk[job.files[i].path]

(* Writing: a path has what the last file done so far makes of it, or still *)
(* its original; the one temporary is the current file's.                   *)
WriteSound ==
  job.pc = "write" =>
    /\ job.at <= Len(job.files)
    /\ \A p \in Touched :
         \/ /\ disk[p] = job.originals[p]
            /\ \A j \in 1 .. job.at - 1 : job.files[j].path # p
         \/ \E i \in 1 .. job.at - 1 : LastNaming(i, p, job.at - 1) /\ disk[p] = Result(job.files[i])
    /\ job.temp => ~File.delete /\ File.content # Nil
    /\ \A p \in Paths : temps[p] = IF job.temp /\ p = File.path THEN File.content ELSE Absent

(* Restoring, unless the call was cancelled: what was restored stays so. *)
RestoreSound ==
  job.pc = "restore" /\ ~job.interrupted =>
    /\ job.at <= Len(job.files) + 1
    /\ \A i \in 1 .. job.at - 1 : disk[job.files[i].path] = job.originals[job.files[i].path]

EndSound ==
  /\ job.pc = "done" /\ ~job.interrupted /\ job.files # <<>> =>
       /\ \A p \in Touched :
            \E i \in 1 .. Len(job.files) :
              LastNaming(i, p, Len(job.files)) /\ disk[p] = Result(job.files[i])
       /\ \A p \in Paths : temps[p] = Absent
  /\ job.pc = "raised" /\ ~job.interrupted =>
       \A i \in DOMAIN job.files : HasOriginal(i) \/ (job.broken /\ i >= job.at)

PatchInv ==
  /\ ToolsTyped
  /\ job.pc \in {"idle", "read", "write"} => ~job.interrupted
  /\ job.pc \in {"idle", "wait", "reap"} => job.files = <<>>
  /\ ~job.interrupted => strays = {}
  /\ Unstarted /\ ReadSound /\ WriteSound /\ RestoreSound /\ EndSound

(* The call's fields, each with its type. *)
LEMMA JobFields ==
  ASSUME ToolsTyped
  PROVE  /\ job.pc \in {"idle", "read", "write", "restore", "wait", "reap", "done", "raised"}
         /\ job.files \in Seq(PatchFile) /\ Len(job.files) \in Nat
         /\ DOMAIN job.files = 1 .. Len(job.files)
         /\ job.at \in Nat /\ job.at >= 1
         /\ job.temp \in BOOLEAN /\ job.interrupted \in BOOLEAN
         /\ job.originals \in [Paths -> Values]
         /\ \A i \in 1 .. Len(job.files) : job.files[i] \in PatchFile
<1>1. job \in Job
  BY DEF ToolsTyped
<1>2. job.files \in Seq(PatchFile)
  BY <1>1 DEF Job
<1>3. Len(job.files) \in Nat /\ DOMAIN job.files = 1 .. Len(job.files)
      /\ \A i \in 1 .. Len(job.files) : job.files[i] \in PatchFile
  BY <1>2
<1> QED
  BY <1>1, <1>2, <1>3 DEF Job

(* The fields of a file of a patch. *)
LEMMA FileFields ==
  ASSUME NEW file \in PatchFile
  PROVE  /\ file.path \in Paths /\ file.delete \in BOOLEAN
         /\ file.content \in {Nil, "new", "binary"} /\ file.content \in Values
         /\ Result(file) \in Values
BY DEF PatchFile, Values, Result, Contents, Absent

(* Ending as raised keeps everything but the call's outcome. *)
LEMMA RaiseStep ==
  ASSUME PatchInv, NEW reason \in {"none", "refused", "error", "cancelled", "timeout"},
         Raise(reason), UNCHANGED <<disk, temps, strays>>,
         ~job.interrupted => \A p \in Touched : job.originals[p] \in {Nil, disk[p]}
  PROVE  PatchInv'
<1>1. job \in Job
  BY DEF PatchInv, ToolsTyped
<1>2. /\ job' \in Job /\ job'.pc = "raised" /\ job'.files = job.files
      /\ job'.interrupted = job.interrupted /\ job'.originals = job.originals
  BY <1>1 DEF Raise, Job
<1>3. ~job'.interrupted => \A i \in DOMAIN job'.files : HasOriginal(i)'
  BY <1>2 DEF Touched, HasOriginal
<1> QED
  BY <1>2, <1>3 DEF PatchInv, ToolsTyped, Unstarted, ReadSound, WriteSound, RestoreSound, EndSound

(* A call that starts. *)
LEMMA SubmitStep ==
  ASSUME ToolsAssumption, PatchInv, Submit
  PROVE  PatchInv'
<1>1. job \in Job /\ job.pc = "idle" /\ job.files = <<>> /\ job.at = 1 /\ ~job.temp /\ ~job.interrupted
  BY DEF PatchInv, ToolsTyped, Unstarted, Submit
<1>2. Touched = {}
  BY <1>1 DEF Touched
<1>3. ASSUME NEW reason \in {"refused", "error"}, Raise(reason), UNCHANGED <<disk, temps, strays>>
      PROVE  PatchInv'
  BY <1>2, <1>3, RaiseStep
<1>4. ASSUME NEW files \in Patches, job' = [job EXCEPT !.pc = "read", !.files = files],
             UNCHANGED <<disk, temps, strays>>
      PROVE  PatchInv'
  <2>1. PICK n \in 1 .. MaxFiles : files \in [1 .. n -> PatchFile]
    BY <1>4 DEF Patches
  <2>2. n \in Nat /\ n >= 1
    BY <2>1 DEF ToolsAssumption
  <2>3. files \in Seq(PatchFile) /\ Len(files) = n
    BY <2>1, <2>2
  <2>4. /\ job' \in Job /\ job'.pc = "read" /\ job'.files = files /\ job'.at = job.at
        /\ job'.temp = job.temp /\ job'.interrupted = job.interrupted /\ job'.originals = job.originals
    BY <1>1, <1>4, <2>3 DEF Job
  <2>5. ReadSound'
    BY <1>1, <1>4, <2>2, <2>3, <2>4 DEF ReadSound, PatchInv, Unstarted
  <2> QED
    BY <1>1, <1>4, <2>4, <2>5 DEF PatchInv, ToolsTyped, Unstarted, WriteSound, RestoreSound, EndSound
<1>5. ASSUME job' = [job EXCEPT !.pc = "wait"], UNCHANGED <<disk, temps, strays>>
      PROVE  PatchInv'
  <2>1. /\ job' \in Job /\ job'.pc = "wait" /\ job'.files = <<>> /\ job'.interrupted = job.interrupted
    BY <1>1, <1>5 DEF Job
  <2> QED
    BY <1>1, <1>5, <2>1 DEF PatchInv, ToolsTyped, Unstarted, ReadSound, WriteSound, RestoreSound, EndSound
<1> QED
  BY <1>3, <1>4, <1>5 DEF Submit, Refuse, StartPatch, StartCommand

(* Reading a file records what is on the disk, or ends the call. *)
LEMMA ReadStep ==
  ASSUME PatchInv, ReadContext
  PROVE  PatchInv'
<1> DEFINE file == job.files[job.at]
           original == disk[file.path]
           last == job.at = Len(job.files)
<1>1. /\ job \in Job /\ job.pc = "read" /\ ~job.interrupted /\ strays = {}
      /\ disk \in [Paths -> Values] /\ temps \in [Paths -> Values]
  BY DEF PatchInv, ToolsTyped, ReadContext
<1>2. /\ job.at <= Len(job.files) /\ job.temp = FALSE
      /\ \A p \in Paths : job.originals[p] \in {Nil, disk[p]} /\ temps[p] = Absent
      /\ \A i \in 1 .. job.at - 1 : job.originals[job.files[i].path] = disk[job.files[i].path]
  BY <1>1, JobFields DEF PatchInv, ReadSound
<1>3. /\ job.files \in Seq(PatchFile) /\ Len(job.files) \in Nat
      /\ DOMAIN job.files = 1 .. Len(job.files)
      /\ job.at \in Nat /\ job.at >= 1 /\ job.originals \in [Paths -> Values]
      /\ \A i \in 1 .. Len(job.files) : job.files[i] \in PatchFile
  BY JobFields DEF PatchInv
<1>4. file.path \in Paths /\ job.at \in 1 .. Len(job.files)
      /\ \A i \in 1 .. Len(job.files) : job.files[i].path \in Paths
  BY <1>2, <1>3, FileFields
<1>5. Touched \subseteq Paths
  BY <1>3, <1>4 DEF Touched
<1>6. UNCHANGED <<disk, temps, strays>>
  BY DEF ReadContext
<1>7. CASE Raise("error")
  BY <1>2, <1>5, <1>6, <1>7, RaiseStep
<1>8. CASE job' = [job EXCEPT !.originals[file.path] = original,
                              !.pc = IF last THEN "write" ELSE "read",
                              !.at = IF last THEN 1 ELSE @ + 1]
  <2> DEFINE originals == [job.originals EXCEPT ![file.path] = original]
             at == IF last THEN 1 ELSE job.at + 1
             pc == IF last THEN "write" ELSE "read"
  <2>1. original \in Values
    BY <1>1, <1>4
  <2>2. /\ originals \in [Paths -> Values] /\ originals[file.path] = original
        /\ \A p \in Paths : p # file.path => originals[p] = job.originals[p]
    BY <1>3, <1>4, <2>1
  <2>3. at \in Nat \ {0} /\ pc \in {"read", "write"}
    BY <1>3
  <2>4. job' = [job EXCEPT !.originals = originals, !.pc = pc, !.at = at]
    BY <1>1, <1>8
  <2> HIDE DEF originals, at, pc
  <2>5. /\ job' \in Job /\ job'.pc = pc /\ job'.at = at /\ job'.files = job.files
        /\ job'.temp = job.temp /\ job'.interrupted = job.interrupted /\ job'.originals = originals
    BY <1>1, <2>2, <2>3, <2>4 DEF Job
  <2>6. \A p \in Paths : originals[p] \in {Nil, disk[p]}
    BY <1>2, <2>2
  <2>7. \A i \in 1 .. job.at : originals[job.files[i].path] = disk[job.files[i].path]
    <3> SUFFICES ASSUME NEW i \in 1 .. job.at
                 PROVE  originals[job.files[i].path] = disk[job.files[i].path]
      OBVIOUS
    <3>1. CASE job.files[i].path = file.path
      BY <2>2, <3>1
    <3>2. CASE job.files[i].path # file.path
      <4>1. i \in 1 .. job.at - 1 /\ i \in 1 .. Len(job.files)
        BY <1>2, <1>3, <3>2
      <4> QED
        BY <1>2, <1>4, <2>2, <3>2, <4>1
    <3> QED
      BY <3>1, <3>2
  <2>8. Touched' = Touched
    BY <2>5 DEF Touched
  <2>9. CASE last
    <3>1. pc = "write" /\ at = 1
      BY <2>9 DEF pc, at
    <3>2. \A p \in Touched : originals[p] = disk[p]
      BY <1>3, <2>7, <2>9 DEF Touched
    <3>3. WriteSound'
      BY <1>2, <1>3, <1>4, <1>6, <2>5, <2>8, <3>1, <3>2 DEF WriteSound
    <3> QED
      BY <1>1, <1>6, <2>5, <3>1, <3>3
         DEF PatchInv, ToolsTyped, Unstarted, ReadSound, RestoreSound, EndSound
  <2>10. CASE ~last
    <3>1. pc = "read" /\ at = job.at + 1
      BY <2>10 DEF pc, at
    <3>2. at <= Len(job.files) /\ at - 1 = job.at
      BY <1>2, <1>3, <2>10, <3>1
    <3>3. ReadSound'
      BY <1>2, <1>6, <2>5, <2>6, <2>7, <3>1, <3>2 DEF ReadSound
    <3> QED
      BY <1>1, <1>6, <2>5, <3>1, <3>3
         DEF PatchInv, ToolsTyped, Unstarted, WriteSound, RestoreSound, EndSound
  <2> QED
    BY <2>9, <2>10
<1> QED
  BY <1>7, <1>8 DEF ReadContext
(* What WriteStep does to the disk: a file is deleted or replaced in one    *)
(* operation, and a replacement is prepared beside it first.                *)
LEMMA WriteEffect ==
  ASSUME PatchInv, WriteStep
  PROVE  \/ /\ ~File.delete /\ ~job.temp /\ File.content # Nil
            /\ disk' = disk /\ temps' = [temps EXCEPT ![File.path] = File.content]
            /\ job' = [job EXCEPT !.temp = TRUE]
         \/ /\ disk' = [disk EXCEPT ![File.path] = Result(File)]
            /\ temps' \in [Paths -> Values]
            /\ \A p \in Paths : temps'[p] = Absent
            /\ job' = IF job.at = Len(job.files) THEN [job EXCEPT !.pc = "done", !.temp = FALSE]
                                                 ELSE [job EXCEPT !.at = @ + 1, !.temp = FALSE]
<1>1. /\ job.pc = "write" /\ job.at <= Len(job.files) /\ ~ContentMissing
      /\ IF NothingToUnlink THEN UNCHANGED <<disk, temps>> ELSE Effect(Awaited)
      /\ job' = Advanced
  BY DEF WriteStep, Writing
<1>2. /\ job.temp \in BOOLEAN /\ job.at \in 1 .. Len(job.files)
      /\ disk \in [Paths -> Values] /\ temps \in [Paths -> Values]
  BY <1>1, JobFields DEF PatchInv, ToolsTyped
<1>3. PICK f \in PatchFile : f = File
  BY <1>2, JobFields DEF PatchInv, File
<1>4. /\ f.path \in Paths /\ f.delete \in BOOLEAN
      /\ f.content \in {Nil, "new", "binary"} /\ f.content \in Values
  BY FileFields
<1>5. /\ job.temp => ~f.delete /\ f.content # Nil
      /\ \A p \in Paths : temps[p] = IF job.temp /\ p = f.path THEN f.content ELSE Absent
      /\ ~f.delete => f.content # Nil
  BY <1>1, <1>3 DEF PatchInv, WriteSound, ContentMissing
<1>6. PICK o : o = Awaited
  OBVIOUS
<1>7. /\ o.op = IF f.delete THEN "unlink" ELSE IF job.temp THEN "replace" ELSE "write_temp"
      /\ o.path = f.path
      /\ o.content = IF f.delete THEN Absent ELSE f.content
  BY <1>1, <1>3, <1>6 DEF Awaited
<1>8. /\ IF o.op = "unlink" /\ disk[o.path] = Absent THEN UNCHANGED <<disk, temps>> ELSE Effect(o)
      /\ job' = IF o.op = "write_temp" THEN [job EXCEPT !.temp = TRUE]
                ELSE IF job.at = Len(job.files) THEN [job EXCEPT !.pc = "done", !.temp = FALSE]
                ELSE [job EXCEPT !.at = @ + 1, !.temp = FALSE]
  BY <1>1, <1>6 DEF NothingToUnlink, Advanced
<1>9. CASE f.delete
  <2>1. o.op = "unlink" /\ ~job.temp
    BY <1>5, <1>7, <1>9
  <2>2. CASE disk[f.path] = Absent
    <3>1. disk' = disk /\ temps' = temps
      BY <1>7, <1>8, <2>1, <2>2
    <3>2. disk = [disk EXCEPT ![f.path] = Absent]
      BY <1>2, <1>4, <2>2
    <3> QED
      BY <1>2, <1>3, <1>5, <1>8, <1>9, <2>1, <3>1, <3>2 DEF Result
  <2>3. CASE disk[f.path] # Absent
    <3>1. Effect(o)
      BY <1>7, <1>8, <2>3
    <3>2. disk' = [disk EXCEPT ![f.path] = Absent] /\ temps' = temps
      BY <1>7, <2>1, <3>1 DEF Effect
    <3> QED
      BY <1>2, <1>3, <1>5, <1>8, <1>9, <2>1, <3>2 DEF Result
  <2> QED
    BY <2>2, <2>3
<1>10. CASE ~f.delete /\ ~job.temp
  <2>1. o.op = "write_temp" /\ o.content = f.content
    BY <1>7, <1>10
  <2>2. Effect(o)
    BY <1>8, <2>1
  <2>3. disk' = disk /\ temps' = [temps EXCEPT ![f.path] = f.content]
    BY <1>7, <2>1, <2>2 DEF Effect
  <2> QED
    BY <1>3, <1>5, <1>8, <1>10, <2>1, <2>3
<1>11. CASE ~f.delete /\ job.temp
  <2>1. o.op = "replace"
    BY <1>7, <1>11
  <2>2. temps[f.path] = f.content /\ f.content # Absent
    BY <1>4, <1>5, <1>11 DEF Absent
  <2>3. Effect(o)
    BY <1>8, <2>1
  <2>4. disk' = [disk EXCEPT ![f.path] = f.content] /\ temps' = [temps EXCEPT ![f.path] = Absent]
    BY <1>7, <2>1, <2>2, <2>3 DEF Effect
  <2>5. temps' \in [Paths -> Values] /\ \A p \in Paths : temps'[p] = Absent
    BY <1>2, <1>4, <1>5, <2>4 DEF Values
  <2> QED
    BY <1>3, <1>8, <1>11, <2>1, <2>4, <2>5 DEF Result
<1> QED
  BY <1>4, <1>9, <1>10, <1>11

(* A write done leaves the current file the last one to name its path. *)
LEMMA WriteStepSound ==
  ASSUME PatchInv, WriteStep
  PROVE  PatchInv'
<1>1. /\ job \in Job /\ job.pc = "write" /\ ~job.interrupted /\ strays = {} /\ strays' = strays
      /\ disk \in [Paths -> Values] /\ temps \in [Paths -> Values]
  BY DEF PatchInv, ToolsTyped, WriteStep, Writing
<1>2. /\ job.files \in Seq(PatchFile) /\ Len(job.files) \in Nat
      /\ DOMAIN job.files = 1 .. Len(job.files)
      /\ job.at \in Nat /\ job.at >= 1 /\ job.at <= Len(job.files)
      /\ \A i \in 1 .. Len(job.files) : job.files[i] \in PatchFile
  BY <1>1, JobFields DEF PatchInv, WriteSound
<1>3. PICK f \in PatchFile : f = job.files[job.at] /\ f = File
  BY <1>2 DEF File
<1>4. f.path \in Paths /\ Result(f) \in Values /\ f.content \in Values
  BY FileFields
<1>5. \A p \in Touched :
         \/ /\ disk[p] = job.originals[p]
            /\ \A j \in 1 .. job.at - 1 : job.files[j].path # p
         \/ \E i \in 1 .. job.at - 1 : LastNaming(i, p, job.at - 1) /\ disk[p] = Result(job.files[i])
  BY <1>1 DEF PatchInv, WriteSound
<1>6. Touched \subseteq Paths
  BY <1>2, FileFields DEF Touched
<1>7. CASE /\ ~File.delete /\ ~job.temp /\ File.content # Nil
           /\ disk' = disk /\ temps' = [temps EXCEPT ![File.path] = File.content]
           /\ job' = [job EXCEPT !.temp = TRUE]
  <2>1. /\ job' \in Job /\ job'.pc = "write" /\ job'.at = job.at /\ job'.files = job.files
        /\ job'.temp = TRUE /\ job'.interrupted = job.interrupted /\ job'.originals = job.originals
    BY <1>1, <1>7 DEF Job
  <2>2. Touched' = Touched /\ File' = f
    BY <1>3, <2>1 DEF Touched, File
  <2>3. \A i, p, k : LastNaming(i, p, k)' <=> LastNaming(i, p, k)
    BY <2>1 DEF LastNaming
  <2>4. \A p \in Paths : temps[p] = Absent
    BY <1>1, <1>7 DEF PatchInv, WriteSound
  <2>5. temps' \in [Paths -> Values] /\ \A p \in Paths : temps'[p] = IF p = f.path THEN f.content ELSE Absent
    BY <1>1, <1>3, <1>4, <1>7, <2>4
  <2>6. WriteSound'
    BY <1>2, <1>3, <1>5, <1>7, <2>1, <2>2, <2>3, <2>5 DEF WriteSound
  <2> QED
    BY <1>1, <1>7, <2>1, <2>5, <2>6
       DEF PatchInv, ToolsTyped, Unstarted, ReadSound, RestoreSound, EndSound
<1>8. CASE /\ disk' = [disk EXCEPT ![File.path] = Result(File)]
           /\ temps' \in [Paths -> Values]
           /\ \A p \in Paths : temps'[p] = Absent
           /\ job' = IF job.at = Len(job.files) THEN [job EXCEPT !.pc = "done", !.temp = FALSE]
                                                ELSE [job EXCEPT !.at = @ + 1, !.temp = FALSE]
  <2>1. /\ disk' \in [Paths -> Values] /\ disk'[f.path] = Result(f)
        /\ \A p \in Paths : p # f.path => disk'[p] = disk[p]
    BY <1>1, <1>3, <1>4, <1>8
  <2>2. /\ job' \in Job /\ job'.files = job.files /\ job'.temp = FALSE
        /\ job'.interrupted = job.interrupted /\ job'.originals = job.originals
        /\ IF job.at = Len(job.files) THEN job'.pc = "done" ELSE job'.pc = "write" /\ job'.at = job.at + 1
    <3>1. CASE job.at = Len(job.files)
      <4>1. job' = [job EXCEPT !.pc = "done", !.temp = FALSE]
        BY <1>8, <3>1
      <4> QED
        BY <1>1, <3>1, <4>1 DEF Job
    <3>2. CASE job.at # Len(job.files)
      <4>1. job' = [job EXCEPT !.at = job.at + 1, !.temp = FALSE]
        BY <1>8, <3>2
      <4>2. job.at + 1 \in Nat \ {0}
        BY <1>2
      <4> QED
        BY <1>1, <3>2, <4>1, <4>2 DEF Job
    <3> QED
      BY <3>1, <3>2
  <2>3. Touched' = Touched /\ \A i, p, k : LastNaming(i, p, k)' <=> LastNaming(i, p, k)
    BY <2>2 DEF Touched, LastNaming
  <2>4. ASSUME NEW p \in Touched
        PROVE  \/ /\ disk'[p] = job.originals[p]
                  /\ \A j \in 1 .. job.at : job.files[j].path # p
               \/ \E i \in 1 .. job.at : LastNaming(i, p, job.at) /\ disk'[p] = Result(job.files[i])
    <3>1. CASE p = f.path
      <4>1. job.at \in 1 .. job.at /\ LastNaming(job.at, p, job.at)
        BY <1>2, <1>3, <3>1 DEF LastNaming
      <4> QED
        BY <1>3, <2>1, <3>1, <4>1
    <3>2. CASE p # f.path
      <4>1. disk'[p] = disk[p]
        BY <1>6, <2>1, <3>2
      <4>2. 1 .. job.at = (1 .. job.at - 1) \cup {job.at}
        BY <1>2
      <4>3. \A i \in 1 .. job.at - 1 : LastNaming(i, p, job.at - 1) => LastNaming(i, p, job.at)
        BY <1>3, <3>2, <4>2 DEF LastNaming
      <4> QED
        BY <1>3, <1>5, <3>2, <4>1, <4>2, <4>3
    <3> QED
      BY <3>1, <3>2
  <2>5. CASE job.at # Len(job.files)
    <3>1. job'.pc = "write" /\ job'.at = job.at + 1
      BY <2>2, <2>5
    <3>2. job'.at <= Len(job'.files) /\ job'.at - 1 = job.at
      BY <1>2, <2>2, <2>5, <3>1
    <3>3. WriteSound'
      BY <1>8, <2>2, <2>3, <2>4, <3>1, <3>2 DEF WriteSound
    <3> QED
      BY <1>1, <1>8, <2>1, <2>2, <3>1, <3>3
         DEF PatchInv, ToolsTyped, Unstarted, ReadSound, RestoreSound, EndSound
  <2>6. CASE job.at = Len(job.files)
    <3>1. job'.pc = "done"
      BY <2>2, <2>6
    <3>2. ASSUME NEW p \in Touched
          PROVE  \E i \in 1 .. Len(job.files) :
                   LastNaming(i, p, Len(job.files)) /\ disk'[p] = Result(job.files[i])
      <4>1. ~\A j \in 1 .. job.at : job.files[j].path # p
        BY <1>2, <2>6 DEF Touched
      <4> QED
        BY <2>4, <2>6, <4>1
    <3>3. EndSound'
      BY <1>8, <2>2, <2>3, <3>1, <3>2 DEF EndSound
    <3> QED
      BY <1>1, <1>8, <2>1, <2>2, <3>1, <3>3
         DEF PatchInv, ToolsTyped, Unstarted, ReadSound, WriteSound, RestoreSound
  <2> QED
    BY <2>5, <2>6
<1> QED
  BY <1>7, <1>8, WriteEffect
(* The call as a rollback finds it. *)
LEMMA RolledBackShape ==
  ASSUME job \in Job
  PROVE  \A interrupted \in BOOLEAN :
           /\ RolledBack(interrupted) \in Job
           /\ RolledBack(interrupted).pc = "restore" /\ RolledBack(interrupted).at = 1
           /\ RolledBack(interrupted).files = job.files
           /\ RolledBack(interrupted).interrupted = interrupted
<1>1. PICK one \in Nat \ {0} : one = 1
  OBVIOUS
<1>2. /\ RolledBack(TRUE) \in Job /\ RolledBack(TRUE).pc = "restore" /\ RolledBack(TRUE).at = 1
      /\ RolledBack(TRUE).files = job.files /\ RolledBack(TRUE).interrupted = TRUE
  <2>1. RolledBack(TRUE) = [job EXCEPT !.pc = "restore", !.at = one, !.interrupted = TRUE]
    BY <1>1 DEF RolledBack
  <2> QED
    BY <1>1, <2>1 DEF Job
<1>3. /\ RolledBack(FALSE) \in Job /\ RolledBack(FALSE).pc = "restore" /\ RolledBack(FALSE).at = 1
      /\ RolledBack(FALSE).files = job.files /\ RolledBack(FALSE).interrupted = FALSE
  <2>1. RolledBack(FALSE) = [job EXCEPT !.pc = "restore", !.at = one, !.interrupted = FALSE]
    BY <1>1 DEF RolledBack
  <2> QED
    BY <1>1, <2>1 DEF Job
<1> QED
  BY <1>2, <1>3

(* The rollback starts: nothing is restored yet. *)
LEMMA RollbackStep ==
  ASSUME PatchInv, Writing, NEW interrupted \in BOOLEAN, job' = RolledBack(interrupted),
         disk' \in [Paths -> Values], temps' \in [Paths -> Values],
         interrupted \/ strays' = strays
  PROVE  PatchInv'
<1>1. job \in Job /\ job.pc = "write" /\ ~job.interrupted /\ strays = {} /\ Len(job.files) \in Nat
  BY JobFields DEF PatchInv, ToolsTyped, Writing
<1>2. /\ job' \in Job /\ job'.pc = "restore" /\ job'.at = 1 /\ job'.files = job.files
      /\ job'.interrupted = interrupted
  BY <1>1, RolledBackShape
<1>3. RestoreSound'
  BY <1>1, <1>2 DEF RestoreSound
<1> QED
  BY <1>1, <1>2, <1>3 DEF PatchInv, ToolsTyped, Unstarted, ReadSound, WriteSound, EndSound

(* Whatever a thread's operation does, every path keeps some content. *)
LEMMA ContentTyped ==
  ASSUME ToolsTyped, NEW o, o.path \in Paths, o.content \in Values, Effect(o)
  PROVE  disk' \in [Paths -> Values] /\ temps' \in [Paths -> Values]
<1>1. /\ disk \in [Paths -> Values] /\ temps \in [Paths -> Values] /\ Absent \in Values
      /\ temps[o.path] \in Values
  BY DEF ToolsTyped, Values
<1>2. CASE o.op = "write_temp"
  BY <1>1, <1>2 DEF Effect
<1>3. CASE o.op = "replace" /\ temps[o.path] # Absent
  BY <1>1, <1>3 DEF Effect
<1>4. CASE o.op = "unlink"
  BY <1>1, <1>4 DEF Effect
<1>5. CASE o.op = "restore"
  BY <1>1, <1>5 DEF Effect
<1>6. CASE ~(o.op \in {"write_temp", "unlink", "restore"} \/ (o.op = "replace" /\ temps[o.path] # Absent))
  BY <1>1, <1>6 DEF Effect
<1> QED
  BY <1>2, <1>3, <1>4, <1>5, <1>6

(* The operation awaited is one of this patch. *)
LEMMA AwaitedTyped ==
  ASSUME ToolsTyped, job.at <= Len(job.files)
  PROVE  Awaited.path = File.path /\ Awaited.path \in Paths /\ Awaited.content \in Values
<1>1. job.at \in 1 .. Len(job.files) /\ job.originals \in [Paths -> Values]
  BY JobFields
<1>2. PICK f \in PatchFile : f = File
  BY <1>1, JobFields DEF File
<1>3. f.path \in Paths /\ f.content \in Values /\ Absent \in Values /\ job.originals[f.path] \in Values
  BY <1>1, FileFields DEF Values
<1>4. CASE job.pc = "restore"
  <2>1. Awaited.path = f.path /\ Awaited.content = job.originals[f.path]
    BY <1>2, <1>4 DEF Awaited
  <2> QED
    BY <1>2, <1>3, <2>1
<1>5. CASE job.pc # "restore"
  <2>1. Awaited.path = f.path /\ Awaited.content = IF f.delete THEN Absent ELSE f.content
    BY <1>2, <1>5 DEF Awaited
  <2> QED
    BY <1>2, <1>3, <2>1
<1> QED
  BY <1>4, <1>5

(* One path is restored, or had been, or there is nothing to remove. *)
LEMMA RestoreStepSound ==
  ASSUME PatchInv, RestoreStep
  PROVE  PatchInv'
<1>1. /\ job \in Job /\ job.pc = "restore" /\ strays' = strays
      /\ disk \in [Paths -> Values] /\ temps \in [Paths -> Values]
      /\ ToolsTyped
      /\ ~job.interrupted => strays = {}
  BY DEF PatchInv, ToolsTyped, RestoreStep, Restoring
<1>2. /\ Len(job.files) \in Nat /\ DOMAIN job.files = 1 .. Len(job.files)
      /\ job.at \in Nat /\ job.at >= 1 /\ job.at <= Len(job.files)
      /\ \A i \in 1 .. Len(job.files) : job.files[i] \in PatchFile
      /\ job.originals \in [Paths -> Values]
  BY <1>1, JobFields DEF RestoreStep, Restoring
<1>3. PICK f \in PatchFile : f = job.files[job.at] /\ f = File
  BY <1>2 DEF File
<1>4. PICK p \in Paths : p = f.path
  BY FileFields
<1>5. /\ job' \in Job /\ job'.pc = "restore" /\ job'.at = job.at + 1 /\ job'.files = job.files
      /\ job'.interrupted = job.interrupted /\ job'.originals = job.originals
  <2>1. job' = [job EXCEPT !.at = job.at + 1] /\ job.at + 1 \in Nat \ {0}
    BY <1>2 DEF RestoreStep
  <2> QED
    BY <1>1, <2>1 DEF Job
<1>6. disk' \in [Paths -> Values] /\ temps' \in [Paths -> Values]
  <2>1. PICK o : o = Awaited
    OBVIOUS
  <2>2. o.path \in Paths /\ o.content \in Values
    BY <1>1, <1>2, <2>1, AwaitedTyped
  <2>3. Effect(o) \/ UNCHANGED <<disk, temps>>
    BY <2>1 DEF RestoreStep
  <2> QED
    BY <1>1, <2>2, <2>3, ContentTyped
<1>7. CASE job.interrupted
  BY <1>1, <1>5, <1>6, <1>7
     DEF PatchInv, ToolsTyped, Unstarted, ReadSound, WriteSound, RestoreSound, EndSound
<1>8. CASE ~job.interrupted
  <2>1. \A i \in 1 .. job.at - 1 : disk[job.files[i].path] = job.originals[job.files[i].path]
    BY <1>1, <1>8 DEF PatchInv, RestoreSound
  <2>2. /\ disk'[p] = job.originals[p]
        /\ \A q \in Paths : q # p => disk'[q] = disk[q]
    <3>1. CASE AlreadyRestored
      <4>1. disk' = disk
        BY <3>1 DEF RestoreStep
      <4>2. PICK i \in 1 .. job.at - 1 : job.files[i].path = p
        BY <1>3, <1>4, <3>1 DEF AlreadyRestored
      <4> QED
        BY <2>1, <4>1, <4>2
    <3>2. CASE ~AlreadyRestored
      <4>1. PICK o : o = Awaited
        OBVIOUS
      <4>2. /\ o.op = IF job.originals[p] = Absent THEN "unlink" ELSE "restore"
            /\ o.path = p /\ o.content = job.originals[p]
        BY <1>1, <1>3, <1>4, <4>1 DEF Awaited
      <4>3. IF o.op = "unlink" /\ disk[o.path] = Absent THEN UNCHANGED <<disk, temps>> ELSE Effect(o)
        BY <3>2, <4>1 DEF RestoreStep, NothingToUnlink
      <4>4. CASE o.op = "unlink" /\ disk[p] = Absent
        BY <4>2, <4>3, <4>4
      <4>5. CASE o.op = "unlink" /\ disk[p] # Absent
        <5>1. Effect(o) /\ o.op = "unlink"
          BY <4>2, <4>3, <4>5
        <5>2. disk' = [disk EXCEPT ![p] = Absent]
          BY <4>2, <5>1 DEF Effect
        <5> QED
          BY <1>1, <4>2, <4>5, <5>2
      <4>6. CASE o.op = "restore"
        <5>1. Effect(o)
          BY <4>3, <4>6
        <5>2. disk' = [disk EXCEPT ![p] = job.originals[p]]
          BY <4>2, <4>6, <5>1 DEF Effect
        <5> QED
          BY <1>1, <5>2
      <4> QED
        BY <4>2, <4>4, <4>5, <4>6
    <3> QED
      BY <3>1, <3>2
  <2>3. ASSUME NEW i \in 1 .. job.at
        PROVE  disk'[job.files[i].path] = job.originals[job.files[i].path]
    <3>1. CASE job.files[i].path = p
      BY <2>2, <3>1
    <3>2. CASE job.files[i].path # p
      <4>1. i \in 1 .. job.at - 1 /\ i \in 1 .. Len(job.files)
        <5>1. i # job.at
          BY <1>3, <1>4, <3>2
        <5> QED
          BY <1>2, <5>1
      <4>2. job.files[i].path \in Paths
        BY <1>2, <4>1, FileFields
      <4> QED
        BY <2>1, <2>2, <3>2, <4>1, <4>2
    <3> QED
      BY <3>1, <3>2
  <2>4. job'.at <= Len(job'.files) + 1 /\ job'.at - 1 = job.at
    BY <1>2, <1>5
  <2>5. RestoreSound'
    BY <1>5, <2>3, <2>4 DEF RestoreSound
  <2> QED
    BY <1>1, <1>5, <1>6, <2>5 DEF PatchInv, ToolsTyped, Unstarted, ReadSound, WriteSound, EndSound
<1> QED
  BY <1>7, <1>8
(* A cancelled call promises nothing more than well-formed files. *)
LEMMA CancelledStep ==
  ASSUME PatchInv, job' \in Job, disk' \in [Paths -> Values], temps' \in [Paths -> Values],
         job'.interrupted = TRUE, job'.pc \in {"restore", "done", "raised"}
  PROVE  PatchInv'
BY DEF PatchInv, ToolsTyped, Unstarted, ReadSound, WriteSound, RestoreSound, EndSound

(* An operation of the rollback raises: it touches no path that was rolled  *)
(* back before.                                                             *)
LEMMA BrokenStep ==
  ASSUME PatchInv, RestoreFails
  PROVE  PatchInv'
<1>1. /\ job \in Job /\ disk \in [Paths -> Values] /\ temps \in [Paths -> Values] /\ ToolsTyped
      /\ job.pc = "restore" /\ job.at <= Len(job.files) /\ ~AlreadyRestored
  BY DEF PatchInv, ToolsTyped, RestoreFails, Restoring
<1>2. /\ job' \in Job /\ job'.pc = "raised" /\ job'.broken = TRUE /\ job'.at = job.at
      /\ job'.files = job.files /\ job'.originals = job.originals
      /\ job'.interrupted = job.interrupted
  BY <1>1 DEF RestoreFails, Job
<1>3. /\ Len(job.files) \in Nat /\ DOMAIN job.files = 1 .. Len(job.files) /\ job.at \in Nat
      /\ \A i \in 1 .. Len(job.files) : job.files[i] \in PatchFile
  BY <1>1, JobFields
<1>4. Awaited.path = File.path /\ File.path \in Paths
  BY <1>1, AwaitedTyped
<1>5. disk' = disk \/ disk' = [disk EXCEPT ![File.path] = "empty"]
  BY <1>4 DEF RestoreFails
<1>6. /\ disk' \in [Paths -> Values]
      /\ \A p \in Paths : p # File.path => disk'[p] = disk[p]
  BY <1>1, <1>4, <1>5 DEF Values, Contents
<1>7. ASSUME ~job.interrupted, NEW i \in DOMAIN job.files, i < job.at
      PROVE  HasOriginal(i)'
  <2>1. i \in 1 .. job.at - 1 /\ job.files[i].path \in Paths
    BY <1>3, <1>7, FileFields
  <2>2. disk[job.files[i].path] = job.originals[job.files[i].path]
    BY <1>1, <1>7, <2>1 DEF PatchInv, RestoreSound
  <2>3. job.files[i].path # File.path
    BY <1>1, <2>1 DEF AlreadyRestored
  <2> QED
    BY <1>2, <1>6, <2>1, <2>2, <2>3 DEF HasOriginal
<1>8. EndSound'
  BY <1>2, <1>3, <1>7 DEF EndSound
<1>9. temps' = temps /\ strays' = strays
  BY DEF RestoreFails
<1> QED
  BY <1>1, <1>2, <1>6, <1>8, <1>9
     DEF PatchInv, ToolsTyped, Unstarted, ReadSound, WriteSound, RestoreSound

(* Any operation may fail or be cancelled at its await. *)
LEMMA FaultsStep ==
  ASSUME PatchInv, PatchFaults
  PROVE  PatchInv'
<1>0. job \in Job /\ disk \in [Paths -> Values] /\ temps \in [Paths -> Values] /\ ToolsTyped
  BY DEF PatchInv, ToolsTyped
<1>1. CASE ReadFails
  <2>1. \A p \in Touched : job.originals[p] \in {Nil, disk[p]}
    <3>1. Touched \subseteq Paths
      BY JobFields, FileFields DEF PatchInv, Touched
    <3> QED
      BY <1>1, <3>1 DEF ReadFails, PatchInv, ReadSound
  <2> QED
    BY <1>1, <2>1, RaiseStep DEF ReadFails
<1>2. CASE WriteFails
  <2>1. Awaited.path \in Paths
    BY <1>0, <1>2, AwaitedTyped DEF WriteFails, Writing
  <2>2. disk' \in [Paths -> Values] /\ temps' \in [Paths -> Values]
    BY <1>0, <1>2, <2>1 DEF WriteFails, Values, Contents
  <2> QED
    BY <1>2, <2>2, RollbackStep DEF WriteFails
<1>3. CASE WriteInterrupted
  <2>1. PICK o : o = Awaited
    OBVIOUS
  <2>2. o.path \in Paths /\ o.content \in Values
    BY <1>0, <1>3, <2>1, AwaitedTyped DEF WriteInterrupted, Writing
  <2>3. Effect(o) \/ UNCHANGED <<disk, temps>>
    BY <1>3, <2>1 DEF WriteInterrupted, Disowned
  <2>4. disk' \in [Paths -> Values] /\ temps' \in [Paths -> Values]
    BY <1>0, <2>2, <2>3, ContentTyped
  <2> QED
    BY <1>3, <2>4, RollbackStep DEF WriteInterrupted
<1>4. CASE RestoreFails
  BY <1>4, BrokenStep
<1>5. CASE RestoreInterrupted
  <2>1. /\ job' \in Job /\ job'.interrupted = TRUE /\ job'.pc = "raised"
    BY <1>0, <1>5 DEF RestoreInterrupted, Job
  <2>2. PICK o : o = Awaited
    OBVIOUS
  <2>3. o.path \in Paths /\ o.content \in Values
    BY <1>0, <1>5, <2>2, AwaitedTyped DEF RestoreInterrupted, Restoring
  <2>4. Effect(o) \/ UNCHANGED <<disk, temps>>
    BY <1>5, <2>2 DEF RestoreInterrupted, Disowned
  <2>5. disk' \in [Paths -> Values] /\ temps' \in [Paths -> Values]
    BY <1>0, <2>3, <2>4, ContentTyped
  <2> QED
    BY <2>1, <2>5, CancelledStep
<1> QED
  BY <1>1, <1>2, <1>3, <1>4, <1>5 DEF PatchFaults

(* The patch goes on, or its rollback does. *)
LEMMA ProgressStep ==
  ASSUME PatchInv, PatchProgress
  PROVE  PatchInv'
<1>1. CASE RejectContentless
  BY <1>1, RollbackStep DEF RejectContentless, PatchInv, ToolsTyped
<1>2. CASE Restored
  <2>1. ~job.interrupted => \A p \in Touched : job.originals[p] \in {Nil, disk[p]}
    <3> SUFFICES ASSUME ~job.interrupted, NEW p \in Touched
                 PROVE  job.originals[p] = disk[p]
      OBVIOUS
    <3>1. Len(job.files) \in Nat /\ DOMAIN job.files = 1 .. Len(job.files) /\ job.at \in Nat
      BY JobFields DEF PatchInv
    <3>2. PICK i \in 1 .. Len(job.files) : job.files[i].path = p
      BY <3>1 DEF Touched
    <3>3. i \in 1 .. job.at - 1
      BY <1>2, <3>1, <3>2 DEF Restored
    <3> QED
      BY <1>2, <3>2, <3>3 DEF Restored, PatchInv, RestoreSound
  <2> QED
    BY <1>2, <2>1, RaiseStep DEF Restored
<1> QED
  BY <1>1, <1>2, ReadStep, WriteStepSound, RestoreStepSound DEF PatchProgress

(* A command leaves the files of the patch alone. *)
LEMMA CommandStep ==
  ASSUME PatchInv, CommandProgress \/ CommandEvents \/ CommandInterrupted \/ UNCHANGED tools
  PROVE  PatchInv'
<1>0. job \in Job /\ disk \in [Paths -> Values] /\ temps \in [Paths -> Values]
  BY DEF PatchInv, ToolsTyped
<1>1. CASE UNCHANGED <<job, disk, temps, strays>>
  <2>1. Touched' = Touched /\ File' = File /\ \A i, p, k : LastNaming(i, p, k)' <=> LastNaming(i, p, k)
    BY <1>1 DEF Touched, File, LastNaming
  <2>2. WriteSound' /\ EndSound'
    BY <1>1, <2>1 DEF PatchInv, WriteSound, EndSound, HasOriginal
  <2> QED
    BY <1>1, <2>2 DEF PatchInv, ToolsTyped, Unstarted, ReadSound, RestoreSound
<1>2. CASE Collect
  <2>1. /\ job' \in Job /\ job'.pc = "done" /\ job'.files = job.files /\ job.files = <<>>
        /\ job'.interrupted = job.interrupted
    BY <1>0, <1>2 DEF Collect, Job, PatchInv
  <2> QED
    BY <1>2, <2>1 DEF Collect, PatchInv, ToolsTyped, Unstarted, ReadSound, WriteSound, RestoreSound, EndSound
<1>3. CASE Terminate
  <2>1. /\ job' \in Job /\ job'.pc = "reap" /\ job'.files = job.files /\ job.files = <<>>
        /\ job'.interrupted = job.interrupted
    BY <1>0, <1>3 DEF Terminate, WaitReason, Job, PatchInv
  <2> QED
    BY <1>3, <2>1
       DEF Terminate, PatchInv, ToolsTyped, Unstarted, ReadSound, WriteSound, RestoreSound, EndSound
<1>4. CASE Reap
  <2>1. Touched = {} /\ job.reason \in {"none", "refused", "error", "cancelled", "timeout"}
    BY <1>0, <1>4 DEF Reap, PatchInv, Touched, Job
  <2> QED
    BY <1>4, <2>1, RaiseStep DEF Reap
<1>5. CASE CommandInterrupted
  <2>1. job' \in Job /\ job'.pc = "raised" /\ job'.interrupted = TRUE
    BY <1>0, <1>5 DEF CommandInterrupted, Job
  <2> QED
    BY <1>0, <1>5, <2>1, CancelledStep DEF CommandInterrupted
<1> QED
  BY <1>1, <1>2, <1>3, <1>4, <1>5
     DEF CommandProgress, CommandEvents, ProcessSteps, SignalEnds, CancellationSet, TimeoutElapses,
         tools

(* What a cancelled await leaves running is an operation of this patch. *)
StraysTyped == \A o \in strays : o.path \in Paths /\ o.content \in Values

(* Only a cancelled write or restore adds to the strays. *)
LEMMA StraysStep ==
  ASSUME PatchInv, StraysTyped, [ToolsNext]_tools
  PROVE  StraysTyped'
<1>1. \/ strays' \subseteq strays
      \/ (Writing \/ Restoring) /\ strays' = strays \cup {Awaited}
  BY DEF ToolsNext, tools, Submit, Refuse, StartPatch, StartCommand, PatchProgress, ReadContext,
     WriteStep, RejectContentless, RestoreStep, Restored, PatchFaults, ReadFails, WriteFails,
     WriteInterrupted, RestoreFails, RestoreInterrupted, Disowned, StrayRuns, CommandProgress,
     Collect, Terminate, Reap, CommandEvents, ProcessSteps, SignalEnds, CancellationSet,
     TimeoutElapses, CommandInterrupted
<1>2. CASE (Writing \/ Restoring) /\ strays' = strays \cup {Awaited}
  <2>1. Awaited.path \in Paths /\ Awaited.content \in Values
    BY <1>2, AwaitedTyped DEF PatchInv, Writing, Restoring
  <2> QED
    BY <1>2, <2>1 DEF StraysTyped
<1> QED
  BY <1>1, <1>2 DEF StraysTyped

(* A stray runs only in a call that was cancelled. *)
LEMMA StrayStep ==
  ASSUME PatchInv, StraysTyped, StrayRuns
  PROVE  PatchInv'
<1>1. PICK o \in strays : Effect(o) /\ UNCHANGED job
  BY DEF StrayRuns
<1>2. job.interrupted /\ ToolsTyped
  BY <1>1 DEF PatchInv
<1>3. disk' \in [Paths -> Values] /\ temps' \in [Paths -> Values]
  BY <1>1, <1>2, ContentTyped DEF StraysTyped
<1> QED
  BY <1>1, <1>2, <1>3
     DEF PatchInv, ToolsTyped, Unstarted, ReadSound, WriteSound, RestoreSound, EndSound

(* Every step keeps the invariant. *)
LEMMA PatchStep == PatchInv /\ StraysTyped /\ [ToolsNext]_tools => PatchInv'
BY ToolsAssumption, SubmitStep, ProgressStep, FaultsStep, StrayStep, CommandStep DEF ToolsNext

(* The last file naming a path is the one Patched goes by. *)
LEMMA LastIsPatched ==
  ASSUME ToolsTyped, NEW p, NEW i \in 1 .. Len(job.files), LastNaming(i, p, Len(job.files))
  PROVE  Patched(p) = Result(job.files[i])
<1> DEFINE mine == {j \in DOMAIN job.files : job.files[j].path = p}
           last == CHOOSE j \in mine : \A k \in mine : k <= j
<1>1. DOMAIN job.files = 1 .. Len(job.files) /\ Len(job.files) \in Nat
  BY JobFields
<1>2. i \in mine /\ \A k \in mine : k <= i
  BY <1>1 DEF LastNaming
<1>3. last \in mine /\ \A k \in mine : k <= last
  BY <1>2
<1>4. last = i
  <2>1. last <= i /\ i <= last /\ last \in 1 .. Len(job.files)
    BY <1>1, <1>2, <1>3
  <2> HIDE DEF last
  <2> QED
    BY <1>1, <2>1
<1> QED
  <2>1. Patched(p) = IF job.files[last].delete THEN Absent ELSE job.files[last].content
    BY DEF Patched
  <2> HIDE DEF last
  <2> QED
    BY <1>4, <2>1 DEF Result

(* For any workspace, any patch and any failure of its operations, a patch  *)
(* that ends without having been cancelled is applied as a whole or not at  *)
(* all, unless its rollback itself fails, and then the files rolled back    *)
(* before have their original content.                                      *)
THEOREM AllOrNothingAlways == ToolsSpec => []AllOrNothing
<1> DEFINE Inv == PatchInv /\ StraysTyped
<1>1. ToolsInit => Inv
  BY DEF ToolsInit, PatchInv, ToolsTyped, StraysTyped, Unstarted, ReadSound, WriteSound, RestoreSound,
     EndSound, Job, Values, Contents, Absent
<1>2. Inv /\ [ToolsNext]_tools => Inv'
  BY PatchStep, StraysStep
<1>3. Inv => AllOrNothing
  <2> SUFFICES ASSUME PatchInv, ~job.interrupted, job.files # <<>>
               PROVE  /\ (job.pc = "done") => \A p \in Touched : disk[p] = Patched(p) /\ temps[p] = Absent
                      /\ (job.pc = "raised") =>
                           \A i \in DOMAIN job.files : HasOriginal(i) \/ (job.broken /\ i >= job.at)
    BY DEF AllOrNothing
  <2>1. Touched \subseteq Paths
    BY JobFields, FileFields DEF PatchInv, Touched
  <2>2. ASSUME job.pc = "done", NEW p \in Touched
        PROVE  disk[p] = Patched(p) /\ temps[p] = Absent
    <3>1. PICK i \in 1 .. Len(job.files) : LastNaming(i, p, Len(job.files)) /\ disk[p] = Result(job.files[i])
      BY <2>2 DEF PatchInv, EndSound
    <3>2. Patched(p) = Result(job.files[i])
      BY <3>1, LastIsPatched DEF PatchInv
    <3> QED
      BY <2>1, <2>2, <3>1, <3>2 DEF PatchInv, EndSound
  <2> QED
    BY <2>2 DEF PatchInv, EndSound
<1> QED
  BY <1>1, <1>2, <1>3, PTL DEF ToolsSpec

-----------------------------------------------------------------------------
(* PolicyDecisions. *)

LEMMA RiskTyped ==
  ASSUME NEW flags
  PROVE  assess_risk(flags) \in {"low", "medium", "high", "critical"}
BY DEF assess_risk

(* What assess_risk calls critical has a mandatory effect of its own. *)
LEMMA CriticalMandatory ==
  ASSUME NEW r \in Request, assess_risk(r.flags) = "critical"
  PROVE  mandatory_effect(r) # "allow"
BY DEF assess_risk, mandatory_effect

LEMMA RuleSetsAreSequences ==
  ASSUME NEW rules \in RuleSets
  PROVE  rules \in Seq(Rule)
<1>1. PICK n \in 0 .. MaxRules : rules \in [1 .. n -> Rule]
  BY DEF RuleSets
<1> QED
  BY <1>1, PolicyAssumption DEF PolicyAssumption

LEMMA HarmlessRequest == Harmless \in Request
<1>1. Cardinality({}) = 0
  BY FS_EmptySet
<1> QED
  BY <1>1, PolicyAssumption DEF PolicyAssumption, Harmless, Request

LEMMA PolicyInitial == PolicyInit => PolicyInv
BY HarmlessRequest DEF PolicyInit, PolicyInv, PolicyTypeOK, Ruling, Effects

(* Each rule adds its effect if it matches. *)
LEMMA OneMoreExamined ==
  ASSUME NEW n \in Nat
  PROVE  EffectsAmong(n + 1) = EffectsAmong(n) \cup
           (IF matches(ruling.rules[n + 1]) THEN {ruling.rules[n + 1].effect} ELSE {})
BY DEF EffectsAmong

LEMMA ExamineKeeps == PolicyInv /\ ExamineRule => PolicyInv'
<1> SUFFICES ASSUME PolicyInv, ExamineRule, NEW n, n = ruling.at PROVE PolicyInv'
  OBVIOUS
<1> DEFINE rule == ruling.rules[n + 1]
           next == [ruling EXCEPT
                      !.at = n + 1,
                      !.strongest = IF matches(rule) THEN Strengthened(ruling.strongest, rule.effect)
                                    ELSE ruling.strongest,
                      !.pc = IF matches(rule) /\ rule.effect = "deny" THEN "risk" ELSE "rules"]
<1>1. /\ ruling \in Ruling /\ ruling.pc = "rules" /\ n \in Nat /\ n < Len(ruling.rules)
      /\ ruling.rules \in Seq(Rule) /\ ruling.strongest \in Effects
  BY DEF PolicyInv, PolicyTypeOK, Ruling, ExamineRule
<1>2. rule \in Rule /\ rule.effect \in Effects /\ n + 1 <= Len(ruling.rules) /\ n + 1 \in Nat
  <2>1. n + 1 \in 1 .. Len(ruling.rules)
    BY <1>1
  <2>2. rule \in Rule
    BY <1>1, <2>1
  <2> QED
    BY <2>1, <2>2, <1>1 DEF Rule
<1>3. ruling' = next
  BY <1>1 DEF ExamineRule
<1>4. Strengthened(ruling.strongest, rule.effect) \in Effects
  BY <1>1, <1>2 DEF Strengthened, Effects
<1> HIDE DEF rule
<1>5. /\ ruling'.at = n + 1 /\ ruling'.rules = ruling.rules /\ ruling'.request = ruling.request
      /\ ruling'.risk = ruling.risk
      /\ ruling'.strongest = IF matches(rule) THEN Strengthened(ruling.strongest, rule.effect)
                             ELSE ruling.strongest
      /\ ruling'.pc = IF matches(rule) /\ rule.effect = "deny" THEN "risk" ELSE "rules"
  BY <1>1, <1>3 DEF Ruling
<1>6. PolicyTypeOK'
  BY <1>1, <1>2, <1>3, <1>4 DEF PolicyTypeOK, Ruling
<1>7. EffectsAmong(ruling.at)' = EffectsAmong(n) \cup (IF matches(rule) THEN {rule.effect} ELSE {})
  <2>1. EffectsAmong(ruling.at)' = EffectsAmong(n + 1)
    BY <1>5 DEF EffectsAmong
  <2> QED
    BY <1>1, <2>1, OneMoreExamined DEF rule
<1>8. /\ (ruling.strongest = "deny") <=> ("deny" \in EffectsAmong(n))
      /\ (ruling.strongest = "allow") <=> (EffectsAmong(n) = {"allow"})
  BY <1>1 DEF PolicyInv
<1>9. EffectsAmong(n) # {}
  BY DEF EffectsAmong
<1> DEFINE seen == EffectsAmong(n)
           now == EffectsAmong(ruling.at)'
<1> HIDE DEF seen, now, next
<1>10. /\ (ruling'.strongest = "deny") <=> ("deny" \in now)
       /\ (ruling'.strongest = "allow") <=> (now = {"allow"})
  <2>1. /\ (ruling.strongest = "deny") <=> ("deny" \in seen)
        /\ (ruling.strongest = "allow") <=> (seen = {"allow"})
        /\ seen # {} /\ now = seen \cup (IF matches(rule) THEN {rule.effect} ELSE {})
    BY <1>7, <1>8, <1>9 DEF seen, now
  <2>2. CASE ~ matches(rule)
    BY <1>5, <2>1, <2>2
  <2>3. CASE matches(rule)
    <3>1. now = seen \cup {rule.effect} /\ ruling'.strongest = Strengthened(ruling.strongest, rule.effect)
      BY <1>5, <2>1, <2>3
    <3>2. CASE rule.effect = "deny"
      BY <3>1, <3>2 DEF Strengthened
    <3>3. CASE rule.effect = "approval"
      BY <2>1, <3>1, <3>3 DEF Strengthened
    <3>4. CASE rule.effect = "allow"
      BY <2>1, <3>1, <3>4 DEF Strengthened
    <3> QED
      BY <1>2, <3>2, <3>3, <3>4 DEF Effects
  <2> QED
    BY <2>2, <2>3
<1>11. ruling'.pc \in {"risk", "decided"} => ruling'.strongest = "deny"
  BY <1>5 DEF Strengthened
<1> QED
  BY <1>2, <1>5, <1>6, <1>10, <1>11 DEF PolicyInv, now

LEMMA PolicyStep == PolicyInv /\ [PolicyNext]_ruling => PolicyInv'
<1> SUFFICES ASSUME PolicyInv, [PolicyNext]_ruling PROVE PolicyInv'
  OBVIOUS
<1>0. ruling \in Ruling
  BY DEF PolicyInv, PolicyTypeOK
<1>1. ASSUME NEW request \in Request, NEW rules \in RuleSets, ruling.pc = "idle", Decide(request, rules)
      PROVE  PolicyInv'
  <2>1. rules \in Seq(Rule) /\ Len(rules) \in Nat /\ mandatory_effect(request) \in Effects
    BY RuleSetsAreSequences DEF mandatory_effect, Effects
  <2>2. /\ ruling'.pc = "rules" /\ ruling'.at = 0 /\ ruling'.rules = rules
        /\ ruling'.request = request /\ ruling'.strongest = mandatory_effect(request)
    BY <1>0, <1>1 DEF Ruling, Decide, PolicyInv
  <2>3. PolicyTypeOK'
    BY <1>0, <1>1, <2>1 DEF PolicyTypeOK, Ruling, Decide
  <2>4. EffectsAmong(ruling.at)' = {mandatory_effect(request)}
    BY <2>2 DEF EffectsAmong
  <2>5. /\ (ruling'.strongest = "deny") <=> ("deny" \in EffectsAmong(ruling.at)')
        /\ (ruling'.strongest = "allow") <=> (EffectsAmong(ruling.at)' = {"allow"})
    <3> HIDE DEF EffectsAmong
    <3> QED
      BY <2>2, <2>4
  <2> QED
    BY <2>1, <2>2, <2>3, <2>5 DEF PolicyInv
<1>2. CASE RulesExhausted
  <2>1. /\ ruling'.pc = "risk" /\ ruling'.at = ruling.at /\ ruling'.rules = ruling.rules
        /\ ruling'.request = ruling.request /\ ruling'.strongest = ruling.strongest
        /\ ruling.pc = "rules" /\ ruling.at = Len(ruling.rules)
    BY <1>0, <1>2 DEF Ruling, RulesExhausted
  <2>2. PolicyTypeOK'
    BY <1>0, <1>2 DEF PolicyTypeOK, Ruling, RulesExhausted
  <2>3. EffectsAmong(ruling.at)' = EffectsAmong(ruling.at)
    BY <2>1 DEF EffectsAmong
  <2> QED
    BY <2>1, <2>2, <2>3 DEF PolicyInv
<1>3. CASE AssessRisk
  <2>1. /\ ruling'.pc = "decided" /\ ruling'.at = ruling.at /\ ruling'.rules = ruling.rules
        /\ ruling'.request = ruling.request /\ ruling'.strongest = ruling.strongest
        /\ ruling'.risk = assess_risk(ruling.request.flags) /\ ruling.pc = "risk"
    BY <1>0, <1>3 DEF Ruling, AssessRisk
  <2>2. PolicyTypeOK'
    BY <1>0, <1>3, RiskTyped DEF PolicyTypeOK, Ruling, AssessRisk
  <2>3. EffectsAmong(ruling.at)' = EffectsAmong(ruling.at)
    BY <2>1 DEF EffectsAmong
  <2> QED
    BY <2>1, <2>2, <2>3 DEF PolicyInv
<1>4. CASE UNCHANGED ruling
  <2>1. EffectsAmong(ruling.at)' = EffectsAmong(ruling.at)
    BY <1>4 DEF EffectsAmong
  <2> QED
    BY <1>4, <2>1 DEF PolicyInv, PolicyTypeOK
<1> QED
  BY <1>1, <1>2, <1>3, <1>4, ExamineKeeps DEF PolicyNext

(* The decision of PolicyEngine.decide is the strongest of the mandatory    *)
(* effect and the effects of all matching rules, for any number of rules in *)
(* any order, and a critical risk is never simply allowed.                  *)
THEOREM StrongestWinsAlways == PolicySpec => []StrongestWins
<1>1. PolicyInv => StrongestWins
  <2> SUFFICES ASSUME PolicyInv, ruling.pc = "decided" PROVE StrongestWins
    BY DEF StrongestWins
  <2> DEFINE whole == EffectsAmong(Len(ruling.rules))
             seen == EffectsAmong(ruling.at)
  <2>1. /\ (ruling.strongest = "deny") <=> ("deny" \in seen)
        /\ (ruling.strongest = "allow") <=> (seen = {"allow"})
        /\ ruling.at = Len(ruling.rules) \/ ruling.strongest = "deny"
    BY DEF PolicyInv
  <2>2. ruling.at \in Nat /\ Len(ruling.rules) \in Nat /\ ruling.at <= Len(ruling.rules) /\ ruling.request \in Request
    BY DEF PolicyInv, PolicyTypeOK, Ruling
  <2>3. seen \subseteq whole
    BY <2>2 DEF EffectsAmong
  <2>4. ruling.risk = "critical" => mandatory_effect(ruling.request) # "allow"
    BY <2>2, CriticalMandatory DEF PolicyInv
  <2>5. mandatory_effect(ruling.request) \in seen
    BY DEF EffectsAmong
  <2> HIDE DEF whole, seen
  <2>6. /\ (ruling.strongest = "deny") <=> ("deny" \in whole)
        /\ (ruling.strongest = "allow") <=> (whole = {"allow"})
    <3>1. CASE ruling.strongest = "deny"
      BY <2>1, <2>3, <3>1
    <3>2. CASE ruling.strongest # "deny"
      BY <2>1, <3>2 DEF whole, seen
    <3> QED
      BY <3>1, <3>2
  <2> QED
    BY <2>1, <2>4, <2>5, <2>6 DEF StrongestWins, whole
<1> QED
  BY <1>1, PolicyInitial, PolicyStep, PTL DEF PolicySpec
=============================================================================
