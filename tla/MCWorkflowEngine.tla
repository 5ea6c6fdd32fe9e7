-------------------------- MODULE MCWorkflowEngine --------------------------
(* Model-checking instances of WorkflowEngine.                             *)
EXTENDS WorkflowEngine

\* Every stage has a handler, as in the end-to-end tests.
AllStages == [e \in Engines |-> WorkingStages]

\* Nobody registered a handler for the security review.
UpToReview == [e \in Engines |-> WorkingStages \ {"security_review"}]
=============================================================================
