--------------------------- MODULE WorkflowEngine ---------------------------
(***************************************************************************)
(* ResumableWorkflowEngine.run and the checkpoint store, for one task.     *)
(*                                                                         *)
(* Several engines may run the task at once (a redelivered message), each  *)
(* with its own WorkflowRun.  A step ends at an await: the store's calls   *)
(* and the stage handler.  A payload is represented by a version; equal    *)
(* versions are payloads with equal hashes.                                *)
(***************************************************************************)
EXTENDS Integers, Sequences, FiniteSets

CONSTANTS
  Engines,             \* processes running the workflow of the task
  StartStage,          \* WorkflowRun.stage as the caller created it
  Handled,             \* stages each engine has a registered handler for
  Correcting,          \* stages whose handler may require a correction
  Changing,            \* stages whose handler may change the payload
  Findings,            \* normalised findings
  max_corrective_rounds,
  repeat_limit,
  MaxVersion,          \* bound: payload versions
  MaxRestarts,         \* bound: crashes and repeated runs
  Nil

ORDER == <<"receive", "validate", "build_context", "plan", "evaluate_risk", "obtain_approval",
           "create_branch", "provision_sandbox", "execute_tools", "run_tests", "run_skills",
           "blind_review", "security_review", "final_verification", "prepare_draft_pr",
           "completed">>

Ordered == {ORDER[i] : i \in DOMAIN ORDER}
WorkingStages == (Ordered \ {"completed"}) \cup {"corrective_round"}
Ends == {"completed", "failed", "cancelled"}

ASSUME EngineAssumption ==
  /\ StartStage \in WorkingStages
  /\ Handled \in [Engines -> SUBSET WorkingStages] /\ Correcting \subseteq WorkingStages
  /\ Changing \subseteq WorkingStages
  /\ max_corrective_rounds \in Nat /\ repeat_limit \in Nat \ {0}
  /\ MaxVersion \in Nat /\ MaxRestarts \in Nat

Position(stage) == CHOOSE i \in DOMAIN ORDER : ORDER[i] = stage

\* _next_stage; it is never asked for the successor of an end.
NextStage(stage) ==
  IF stage = "corrective_round" THEN "run_tests" ELSE ORDER[Position(stage) + 1]

\* A checkpoint: its sequence number is its place in the store.  "blocking"
\* and "by" are history fields: the requires_correction of the result behind
\* it, and the engine that stored it.
Checkpoint == [stage: WorkingStages, input: 0 .. MaxVersion, blocking: BOOLEAN, by: Engines]

\* A WorkflowRun and the local variables of run.
Run == [pc: {"idle", "loop", "handler", "append", "ended"},
        stage: WorkingStages \cup Ends, payload: 0 .. MaxVersion, input: 0 .. MaxVersion,
        existing: Nat, correct: BOOLEAN, finding: Findings \cup {Nil},
        rounds: Nat, prints: [Findings -> Nat]]

NewRun == [pc |-> "idle", stage |-> StartStage, payload |-> 0, input |-> 0, existing |-> 0,
           correct |-> FALSE, finding |-> Nil, rounds |-> 0, prints |-> [f \in Findings |-> 0]]

VARIABLES
  checkpoints,  \* the store's checkpoints of the task
  runs,         \* one WorkflowRun per engine
  cancel,       \* the cancellation event
  restarts      \* crashes and repeated runs so far

vars == <<checkpoints, runs, cancel, restarts>>

Init ==
  /\ checkpoints = <<>>
  /\ runs = [e \in Engines |-> NewRun]
  /\ cancel = FALSE
  /\ restarts = 0

At(e, pc) == runs[e].pc = pc

\* The local variables of one round of the loop go out of scope.
Settled(run) ==
  [run EXCEPT !.input = 0, !.existing = 0, !.correct = FALSE, !.finding = Nil]

GoTo(e, pc, stage) ==
  runs' = [runs EXCEPT ![e] = Settled([@ EXCEPT !.pc = pc, !.stage = stage])]

\* Mutant of Resume: off by one.
ResumeSkipping(e) ==
  /\ At(e, "idle")
  /\ GoTo(e, "loop", IF checkpoints = <<>> THEN runs[e].stage
                     ELSE NextStage(NextStage(checkpoints[Len(checkpoints)].stage)))
  /\ UNCHANGED <<checkpoints, cancel, restarts>>

\* run: resume after the latest checkpoint.
Resume(e) ==
  /\ At(e, "idle")
  /\ GoTo(e, "loop", IF checkpoints = <<>> THEN runs[e].stage
                     ELSE NextStage(checkpoints[Len(checkpoints)].stage))
  /\ UNCHANGED <<checkpoints, cancel, restarts>>

\* The loop's condition and early exits; the deadline may have passed.
Loop(e) ==
  LET stage == runs[e].stage
  IN /\ At(e, "loop")
     /\ \/ stage \in Ends /\ GoTo(e, "ended", stage)
        \/ stage \notin Ends /\ cancel /\ GoTo(e, "ended", "cancelled")
        \/ stage \notin Ends /\ ~ cancel /\ stage \notin Handled[e] /\ GoTo(e, "ended", "failed")
     /\ UNCHANGED <<checkpoints, cancel, restarts>>

DeadlinePasses(e) ==
  /\ At(e, "loop")
  /\ runs[e].stage \notin Ends /\ ~ cancel
  /\ GoTo(e, "ended", "failed")
  /\ UNCHANGED <<checkpoints, cancel, restarts>>

\* Mutant of Checkpointed: only the latest checkpoint is compared.
CheckpointedLast(stage, input) ==
  LET last == checkpoints[Len(checkpoints)]
  IN checkpoints # <<>> /\ last.stage = stage /\ last.input = input

Checkpointed(stage, input) ==
  \E i \in DOMAIN checkpoints : checkpoints[i].stage = stage /\ checkpoints[i].input = input

\* Mutant of List: a duplicate does not advance the run.
ListStuck(e) ==
  LET run == runs[e]
  IN /\ At(e, "loop") /\ run.stage \notin Ends /\ ~ cancel /\ run.stage \in Handled[e]
     /\ runs' = [runs EXCEPT ![e] =
          IF Checkpointed(run.stage, run.payload)
            THEN [run EXCEPT !.pc = "loop"]
            ELSE [run EXCEPT !.pc = "handler", !.input = run.payload,
                             !.existing = Len(checkpoints)]]
     /\ UNCHANGED <<checkpoints, cancel, restarts>>

\* The store is listed: a stage done with this payload is skipped, otherwise
\* its handler is called.  The checks of the loop are made with it: a
\* cancellation in between would only be seen in the next round.
List(e) ==
  LET run == runs[e]
  IN /\ At(e, "loop") /\ run.stage \notin Ends /\ ~ cancel /\ run.stage \in Handled[e]
     /\ runs' = [runs EXCEPT ![e] =
          IF Checkpointed(run.stage, run.payload)
            THEN [run EXCEPT !.pc = "loop", !.stage = NextStage(run.stage)]
            ELSE [run EXCEPT !.pc = "handler", !.input = run.payload,
                             !.existing = Len(checkpoints)]]
     /\ UNCHANGED <<checkpoints, cancel, restarts>>

\* The handler returns; its output may change the payload.
HandlerReturns(e, version, correct, finding) ==
  /\ At(e, "handler")
  /\ version \in {runs[e].payload, runs[e].payload + 1} \cap (0 .. MaxVersion)
  /\ version # runs[e].payload => runs[e].stage \in Changing
  /\ correct => runs[e].stage \in Correcting
  /\ finding # Nil => correct
  /\ runs' = [runs EXCEPT ![e].pc = "append", ![e].payload = version,
                          ![e].correct = correct, ![e].finding = finding]
  /\ UNCHANGED <<checkpoints, cancel, restarts>>

\* It raises or reports a pending approval (the stage is kept), or the
\* approval was denied.
HandlerStops(e, denied) ==
  /\ At(e, "handler")
  /\ GoTo(e, "ended", IF denied THEN "failed" ELSE runs[e].stage)
  /\ UNCHANGED <<checkpoints, cancel, restarts>>

\* _record_findings.
Counted(run) ==
  [f \in Findings |-> IF run.correct /\ f = run.finding THEN run.prints[f] + 1 ELSE run.prints[f]]
Repeated(run) == run.correct /\ run.finding # Nil /\ Counted(run)[run.finding] >= repeat_limit

\* Mutant of Advanced: corrective rounds are not counted.
AdvancedUncounted(run) ==
  [run EXCEPT !.pc = "loop", !.stage = IF run.correct THEN "corrective_round"
                                       ELSE NextStage(run.stage)]

\* Where the run goes once its checkpoint is stored.
Advanced(run) ==
  LET exhausted == run.correct /\ run.rounds >= max_corrective_rounds
      counted == [run EXCEPT !.prints = Counted(run)]
  IN IF Repeated(run) \/ exhausted
       THEN [counted EXCEPT !.pc = "ended", !.stage = "failed"]
     ELSE IF run.correct
       THEN [counted EXCEPT !.pc = "loop", !.stage = "corrective_round", !.rounds = @ + 1]
     ELSE [run EXCEPT !.pc = "loop", !.stage = NextStage(run.stage)]

\* append: an equal checkpoint is kept, a gap in the sequence is an error.
AppendCheckpoint(e) ==
  LET run == runs[e]
      known == Checkpointed(run.stage, run.input)
      contiguous == run.existing = Len(checkpoints)
  IN /\ At(e, "append")
     /\ checkpoints' = IF known \/ ~ contiguous THEN checkpoints
                       ELSE Append(checkpoints, [stage |-> run.stage, input |-> run.input,
                                                 blocking |-> run.correct, by |-> e])
     /\ runs' = [runs EXCEPT ![e] = IF known \/ contiguous THEN Settled(Advanced(run))
                                    ELSE Settled([run EXCEPT !.pc = "ended"])]
     /\ UNCHANGED <<cancel, restarts>>

\* The cancellation event is set.
CancelWorkflow ==
  /\ ~ cancel
  /\ cancel' = TRUE
  /\ UNCHANGED <<checkpoints, runs, restarts>>

Restarting == restarts < MaxRestarts /\ restarts' = restarts + 1

\* The engine's process dies; the task is run again with a new WorkflowRun.
Crash(e) ==
  /\ runs[e].pc # "idle"
  /\ Restarting
  /\ runs' = [runs EXCEPT ![e] = NewRun]
  /\ UNCHANGED <<checkpoints, cancel>>

\* The caller runs the same WorkflowRun again (after an approval, say).
RunAgain(e) ==
  /\ At(e, "ended")
  /\ Restarting
  /\ runs' = [runs EXCEPT ![e].pc = "idle"]
  /\ UNCHANGED <<checkpoints, cancel>>

Step(e) ==
  \/ Resume(e)
  \/ Loop(e)
  \/ List(e)
  \/ \E version \in 0 .. MaxVersion, correct \in BOOLEAN, finding \in Findings \cup {Nil} :
       HandlerReturns(e, version, correct, finding)
  \/ AppendCheckpoint(e)

Next ==
  \/ \E e \in Engines : Step(e)
  \/ \E e \in Engines : DeadlinePasses(e)
  \/ \E e \in Engines, denied \in BOOLEAN : HandlerStops(e, denied)
  \/ \E e \in Engines : Crash(e)
  \/ \E e \in Engines : RunAgain(e)
  \/ CancelWorkflow

Spec == Init /\ [][Next]_vars

\* A run that was started keeps going; handlers return.
FairSpec == Spec /\ \A e \in Engines : WF_vars(Step(e))

-----------------------------------------------------------------------------
(* Properties                                                              *)

\* Checkpoints and runs have their declared shape.
TypeOK ==
  /\ checkpoints \in Seq(Checkpoint)
  /\ runs \in [Engines -> Run]
  /\ cancel \in BOOLEAN
  /\ restarts \in 0 .. MaxRestarts

StageOf(i) == checkpoints[i].stage

\* The stored stages follow the order: a checkpoint of a stage comes after one
\* of the stage before it (for a corrective round, one of a stage that may ask
\* for it), although engines race, crash, resume in the middle and skip what
\* is done.  In particular no branch is created before the approval stage was
\* passed.  It orders the stages of the whole store, whatever their payloads:
\* whether a stage is done again after a correction is CorrectionRetested.
PathBacked ==
  \A i \in DOMAIN checkpoints : i > 1 /\ StageOf(i) # StartStage =>
    \E j \in 1 .. i - 1 :
      IF StageOf(i) = "corrective_round" THEN StageOf(j) \in Correcting
      ELSE NextStage(StageOf(j)) = StageOf(i)

\* Two engines running the task at once record a stage for a payload once.
RecordedOnce ==
  \A i, j \in DOMAIN checkpoints :
    StageOf(i) = StageOf(j) /\ checkpoints[i].input = checkpoints[j].input => i = j

\* No engine stores more corrective rounds than its WorkflowRuns allow, although
\* the payload changes, duplicates are skipped and a resumed run goes on where
\* another one corrected.
CorrectionsBudgeted ==
  \A e \in Engines :
    Cardinality({i \in DOMAIN checkpoints : StageOf(i) = "corrective_round"
                                              /\ checkpoints[i].by = e})
      <= max_corrective_rounds * (1 + restarts)

\* Every run ends: correction loops, skipped duplicates and racing engines
\* never keep it going for ever.
RunsEnd == \A e \in Engines : runs[e].pc # "idle" ~> runs[e].pc \in {"idle", "ended"}

\* docs/workflow.md: corrective rounds return through tests and skills before
\* review.  An engine that has a review or anything after it in hand finds
\* both stages checkpointed after the last correction.
CorrectionRetested ==
  \A e \in Engines :
    /\ At(e, "handler")
    /\ runs[e].stage \in {"blind_review", "security_review", "final_verification",
                          "prepare_draft_pr"}
    => \A i \in DOMAIN checkpoints : StageOf(i) = "corrective_round" =>
         \A stage \in {"run_tests", "run_skills"} :
           \E j \in i + 1 .. Len(checkpoints) : StageOf(j) = stage

\* docs/workflow.md: draft pull request preparation is unreachable when the
\* verification returned a blocking result.
DraftUnblocked ==
  \A e \in Engines : At(e, "handler") /\ runs[e].stage = "prepare_draft_pr" =>
    \A i \in DOMAIN checkpoints :
      StageOf(i) = "final_verification" /\ checkpoints[i].blocking =>
        \E j \in i + 1 .. Len(checkpoints) : StageOf(j) = "final_verification"
=============================================================================
