---------------------------- MODULE TaskLifecycle ----------------------------
(***************************************************************************)
(* The task record as orchestrator/state_machine.py moves it, with the      *)
(* callers in orchestrator/workflow.py: plan, which awaits the model between *)
(* two transitions, and authorize_paths. Other callers may move the record   *)
(* while plan waits.                                                        *)
(***************************************************************************)
EXTENDS Naturals, Sequences

CONSTANTS
  StartStates,   \* states of the records looked at
  Evidence,      \* evidence texts, among them the ones plan and authorize_paths give
  Keys,          \* idempotency keys callers choose themselves
  MaxEvents      \* bound: audit events

(* _ALLOWED *)
ALLOWED ==
  [received |-> {"validated", "context_ready", "failed", "cancelled"},
   validated |-> {"queued", "awaiting_approval", "failed", "cancelled"},
   awaiting_approval |-> {"queued", "failed", "cancelled"},
   queued |-> {"planning", "failed", "cancelled"},
   planning |-> {"executing", "awaiting_approval", "failed", "cancelled"},
   context_ready |-> {"planned", "failed", "cancelled"},
   planned |-> {"approval_required", "executing", "failed", "cancelled"},
   approval_required |-> {"executing", "cancelled", "failed"},
   executing |-> {"testing", "verifying", "failed", "cancelled"},
   testing |-> {"guarding", "fixing", "failed", "cancelled"},
   guarding |-> {"reviewing", "fixing", "failed", "cancelled"},
   verifying |-> {"reviewing", "executing", "failed"},
   reviewing |-> {"executing", "fixing", "ready_for_pr", "failed", "cancelled"},
   fixing |-> {"executing", "failed", "cancelled"},
   ready_for_pr |-> {"pr_opened", "completed", "failed"},
   pr_opened |-> {"completed", "failed", "cancelled"},
   completed |-> {}, failed |-> {}, cancelled |-> {}]

States == DOMAIN ALLOWED

ASSUME LifecycleAssumption ==
  /\ StartStates \subseteq States /\ MaxEvents \in Nat
  /\ {"repository-context-built", "plan-generated", "human-approval-required",
      "execution-authorized"} \subseteq Evidence

VARIABLES
  start,     \* the state the record was created with
  state,     \* TaskRecord.state
  audit,     \* audit_events: [source, target, key]
  planner    \* the plan call: idle, awaiting the model, done or raised

record == <<start, state, audit, planner>>

(* The default key names the edge and its evidence, "" when there is none. *)
DefaultKey(target, evidence) == <<state, target, evidence>>

LifecycleTypeOK ==
  /\ start \in StartStates /\ state \in States
  /\ audit \in Seq([source: States, target: States,
                    key: (States \X States \X (Evidence \cup {""})) \cup (Keys \X {"chosen"})])
  /\ planner \in {"idle", "awaiting", "done", "raised"}

LifecycleInit == start \in StartStates /\ state = start /\ audit = <<>> /\ planner = "idle"

Repeated(key) == \E i \in DOMAIN audit : audit[i].key = key

(* transition: a known key changes nothing, an edge that is not in the      *)
(* table raises.                                                            *)
Moves(target, key) == ~Repeated(key) /\ target \in ALLOWED[state]
RaisesNever(target, key) == FALSE
Raises(target, key) == ~Repeated(key) /\ target \notin ALLOWED[state]

RecordedAfter(target, key) ==
  audit' = Append(audit, [source |-> target, target |-> target, key |-> key])
Recorded(target, key) ==
  audit' = Append(audit, [source |-> state, target |-> target, key |-> key])

Take(target, key) ==
  IF Moves(target, key) THEN state' = target /\ Recorded(target, key)
  ELSE UNCHANGED <<state, audit>>

Room == Len(audit) < MaxEvents

Transition(target, key) ==
  /\ Room
  /\ Take(target, key)
  /\ UNCHANGED <<start, planner>>

(* plan up to the model call, and after it; a model call that raises leaves *)
(* the record where it is.                                                  *)
PlanBegins ==
  LET key == DefaultKey("context_ready", "repository-context-built") IN
  /\ planner \in {"idle", "raised"} /\ Room
  /\ Take("context_ready", key)
  /\ planner' = IF Raises("context_ready", key) THEN "raised" ELSE "awaiting"
  /\ UNCHANGED start

PlanEnds ==
  LET key == DefaultKey("planned", "plan-generated") IN
  /\ planner = "awaiting" /\ Room
  /\ Take("planned", key)
  /\ planner' = IF Raises("planned", key) THEN "raised" ELSE "done"
  /\ UNCHANGED start

PlanRaises == planner = "awaiting" /\ planner' = "raised" /\ UNCHANGED <<start, state, audit>>

AuthorizePaths(protected) ==
  /\ Room
  /\ IF protected
     THEN Take("approval_required", DefaultKey("approval_required", "human-approval-required"))
     ELSE Take("executing", DefaultKey("executing", "execution-authorized"))
  /\ UNCHANGED <<start, planner>>

LifecycleNext ==
  \/ \E target \in States :
       \/ \E evidence \in Evidence \cup {""} : Transition(target, DefaultKey(target, evidence))
       \/ \E key \in Keys : Transition(target, <<key, "chosen">>)
  \/ PlanBegins \/ PlanEnds \/ PlanRaises
  \/ \E protected \in BOOLEAN : AuthorizePaths(protected)

LifecycleSpec == LifecycleInit /\ [][LifecycleNext]_record

-----------------------------------------------------------------------------
(* The audit trail is the path the record took: it starts where the record  *)
(* was created, every event starts where the one before it ended, the last  *)
(* ends in the current state, and no key was honoured twice.                *)
AuditChained ==
  /\ \A i \in DOMAIN audit :
       /\ audit[i].source = IF i = 1 THEN start ELSE audit[i - 1].target
       /\ audit[i].target \in ALLOWED[audit[i].source]
       /\ \A j \in DOMAIN audit : audit[i].key = audit[j].key => i = j
  /\ state = IF audit = <<>> THEN start ELSE audit[Len(audit)].target

(* plan returns only if the record passed through both of its transitions,  *)
(* although other callers move or end the task while plan awaits the model. *)
(* That a repeated key returns silently does not weaken it: the table never *)
(* comes back to the states plan leaves, so its own keys are never repeated.*)
PlanBacked ==
  planner = "done" =>
    \E i, j \in DOMAIN audit :
      i < j /\ audit[i].target = "context_ready" /\ audit[j].target = "planned"
=============================================================================
