----------------------------- MODULE MCExecution -----------------------------
(* What surrounds the execution of a task inside one process, for TLC: model *)
(* routing, workspace tools, the task record, approvals, policies and the    *)
(* repository checkout. The components share no state, so a behaviour runs   *)
(* one of them (focus) while the others stay in their initial state.         *)
EXTENDS ModelRouting, WorkspaceTools, TaskLifecycle, ApprovalStore, PolicyDecisions,
        RepositoryAcquisition

CONSTANTS other, gemini, qwen

OtherThenBoth == <<other, gemini, qwen>>

VARIABLE focus

allVars == <<focus, routing, tools, record, approvals, ruling, acquisition>>

ExecutionInit ==
  /\ focus \in {"routing", "tools", "lifecycle", "approvals", "policies", "acquisition"}
  /\ RoutingInit /\ ToolsInit /\ LifecycleInit /\ ApprovalsInit /\ PolicyInit
  /\ AcquisitionInit
  /\ focus # "lifecycle" => start = "received"
  /\ focus # "routing" => model_calls = 0 /\ \A p \in Providers : breaker[p].failures = 0

ExecutionNext ==
  /\ UNCHANGED focus
  /\ \/ focus = "routing" /\ RoutingNext /\ UNCHANGED <<tools, record, approvals, ruling, acquisition>>
     \/ focus = "tools" /\ ToolsNext /\ UNCHANGED <<routing, record, approvals, ruling, acquisition>>
     \/ focus = "lifecycle" /\ LifecycleNext /\ UNCHANGED <<routing, tools, approvals, ruling, acquisition>>
     \/ focus = "approvals" /\ ApprovalsNext /\ UNCHANGED <<routing, tools, record, ruling, acquisition>>
     \/ focus = "policies" /\ PolicyNext /\ UNCHANGED <<routing, tools, record, approvals, acquisition>>
     \/ focus = "acquisition" /\ AcquisitionNext /\ UNCHANGED <<routing, tools, record, approvals, ruling>>

ExecutionSpec ==
  ExecutionInit /\ [][ExecutionNext]_allVars /\ RoutingFairness /\ ToolsFairness
=============================================================================
