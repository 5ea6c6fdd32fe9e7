---------------------------- MODULE WorkflowProofs ----------------------------
(***************************************************************************)
(* Theorems about ResumableWorkflowEngine, for any number of engines that    *)
(* race on one task, any handlers, limits and restarts.                     *)
(***************************************************************************)
EXTENDS WorkflowEngine, FiniteSetTheorems, TLAPS

(* The stage was reached from one of the first n checkpoints. *)
Backed(stage, n) ==
  \E j \in 1 .. n :
    IF stage = "corrective_round" THEN StageOf(j) \in Correcting ELSE NextStage(StageOf(j)) = stage

Reached(stage) == stage = StartStage \/ stage \in Ends \/ Backed(stage, Len(checkpoints))

(* A run is where the stored checkpoints lead. *)
OnPath(run) ==
  /\ run.pc \in {"handler", "append"} => run.stage \in WorkingStages
  /\ run.pc = "append" /\ run.correct => run.stage \in Correcting
  /\ Reached(run.stage)

EngineInv == TypeOK /\ PathBacked /\ RecordedOnce /\ \A e \in Engines : OnPath(runs[e])

-----------------------------------------------------------------------------
(* The order of the stages. *)

LEMMA NextStageOrdered ==
  ASSUME NEW stage \in WorkingStages
  PROVE  NextStage(stage) \in Ordered
<1>1. DOMAIN ORDER = 1 .. 16
  BY DEF ORDER
<1>2. CASE stage = "corrective_round"
  <2>1. ORDER[10] = "run_tests" /\ 10 \in DOMAIN ORDER
    BY <1>1 DEF ORDER
  <2> QED
    BY <1>2, <2>1 DEF NextStage, Ordered
<1>3. CASE stage # "corrective_round"
  <2>1. stage \in Ordered /\ stage # "completed"
    BY <1>3 DEF WorkingStages
  <2>2. \E i \in DOMAIN ORDER : ORDER[i] = stage
    BY <2>1 DEF Ordered
  <2>3. Position(stage) \in DOMAIN ORDER /\ ORDER[Position(stage)] = stage
    BY <2>2 DEF Position
  <2>4. ORDER[16] = "completed"
    BY DEF ORDER
  <2>5. Position(stage) + 1 \in DOMAIN ORDER
    BY <1>1, <2>1, <2>3, <2>4
  <2> QED
    BY <1>3, <2>5 DEF NextStage, Ordered
<1> QED
  BY <1>2, <1>3

LEMMA OrderedStages ==
  /\ Ordered \subseteq WorkingStages \cup Ends
  /\ "corrective_round" \notin Ordered /\ "corrective_round" \in WorkingStages
  /\ WorkingStages \cap Ends = {} /\ "corrective_round" \notin Ends
<1>1. Ordered = {"receive", "validate", "build_context", "plan", "evaluate_risk", "obtain_approval",
                 "create_branch", "provision_sandbox", "execute_tools", "run_tests", "run_skills",
                 "blind_review", "security_review", "final_verification", "prepare_draft_pr", "completed"}
  <2>1. DOMAIN ORDER = 1 .. 16
    BY DEF ORDER
  <2> QED
    BY <2>1 DEF Ordered, ORDER
<1> QED
  BY <1>1 DEF WorkingStages, Ends

-----------------------------------------------------------------------------
(* What the helpers make of a run. *)

LEMMA SettledTyped ==
  ASSUME NEW run \in Run
  PROVE  /\ Settled(run) \in Run
         /\ Settled(run).pc = run.pc /\ Settled(run).stage = run.stage
         /\ Settled(run).rounds = run.rounds
<1>1. 0 \in 0 .. MaxVersion
  BY EngineAssumption
<1>2. Settled(run) \in Run
  BY <1>1 DEF Settled, Run
<1>3. Settled(run).pc = run.pc /\ Settled(run).stage = run.stage /\ Settled(run).rounds = run.rounds
  BY DEF Settled, Run
<1> QED
  BY <1>2, <1>3

(* After its checkpoint a run fails, starts a counted correction or goes on. *)
LEMMA AdvancedTyped ==
  ASSUME NEW run \in Run, run.stage \in WorkingStages
  PROVE  LET n == Settled(Advanced(run))
         IN  /\ n \in Run
             /\ \/ n.pc = "ended" /\ n.stage = "failed" /\ n.rounds = run.rounds
                \/ /\ n.pc = "loop" /\ n.stage = "corrective_round" /\ run.correct
                   /\ n.rounds = run.rounds + 1 /\ run.rounds < max_corrective_rounds
                \/ n.pc = "loop" /\ n.stage = NextStage(run.stage) /\ n.rounds = run.rounds
<1> DEFINE counted == [run EXCEPT !.prints = Counted(run)]
           f == [counted EXCEPT !.pc = "ended", !.stage = "failed"]
           g == [counted EXCEPT !.pc = "loop", !.stage = "corrective_round", !.rounds = @ + 1]
           h == [run EXCEPT !.pc = "loop", !.stage = NextStage(run.stage)]
<1>1. Counted(run) \in [Findings -> Nat]
  BY DEF Counted, Run
<1>2. /\ "failed" \in WorkingStages \cup Ends /\ "corrective_round" \in WorkingStages \cup Ends
      /\ NextStage(run.stage) \in WorkingStages \cup Ends
  BY NextStageOrdered, OrderedStages DEF Ends
<1>2a. counted \in Run /\ counted.rounds = run.rounds
  BY <1>1 DEF Run
<1> HIDE DEF counted
<1>3. /\ f \in Run /\ f.pc = "ended" /\ f.stage = "failed" /\ f.rounds = run.rounds
  BY <1>2, <1>2a DEF Run
<1>4. g \in Run /\ g.pc = "loop" /\ g.stage = "corrective_round" /\ g.rounds = run.rounds + 1
  <2>1. counted.rounds + 1 \in Nat
    BY <1>2a DEF Run
  <2>2. PICK r \in Nat : r = counted.rounds + 1
    BY <2>1
  <2>3. g = [counted EXCEPT !.pc = "loop", !.stage = "corrective_round", !.rounds = r]
    BY <2>2
  <2> HIDE DEF g
  <2> QED
    BY <1>2, <1>2a, <2>2, <2>3 DEF Run
<1>5. h \in Run /\ h.pc = "loop" /\ h.stage = NextStage(run.stage) /\ h.rounds = run.rounds
  BY <1>2 DEF Run
<1>6. \/ Advanced(run) = f
      \/ Advanced(run) = g /\ run.correct /\ ~(run.rounds >= max_corrective_rounds)
      \/ Advanced(run) = h
  BY DEF Advanced, counted
<1>7. run.rounds \in Nat /\ max_corrective_rounds \in Nat
  BY EngineAssumption DEF Run
<1> HIDE DEF f, g, h
<1>8. /\ Settled(f) \in Run /\ Settled(f).pc = f.pc /\ Settled(f).stage = f.stage /\ Settled(f).rounds = f.rounds
      /\ Settled(g) \in Run /\ Settled(g).pc = g.pc /\ Settled(g).stage = g.stage /\ Settled(g).rounds = g.rounds
      /\ Settled(h) \in Run /\ Settled(h).pc = h.pc /\ Settled(h).stage = h.stage /\ Settled(h).rounds = h.rounds
  BY <1>3, <1>4, <1>5, SettledTyped
<1> QED
  BY <1>3, <1>4, <1>5, <1>6, <1>7, <1>8

-----------------------------------------------------------------------------
(* Each step keeps the invariant. *)

(* A step that moves one run and stores nothing. *)
LEMMA RunMoves ==
  ASSUME EngineInv, NEW e \in Engines, NEW n \in Run, runs' = [runs EXCEPT ![e] = n], OnPath(n),
         checkpoints' = checkpoints, cancel' = cancel, restarts' \in 0 .. MaxRestarts
  PROVE  EngineInv'
<1>1. TypeOK'
  BY DEF EngineInv, TypeOK
<1>2. PathBacked' /\ RecordedOnce'
  BY DEF EngineInv, PathBacked, RecordedOnce, StageOf
<1>3. \A d \in Engines : runs'[d] = IF d = e THEN n ELSE runs[d]
  BY DEF EngineInv, TypeOK
<1>4. ASSUME NEW d \in Engines
      PROVE  OnPath(runs[d])'
  BY <1>3 DEF EngineInv, OnPath, Reached, Backed, StageOf
<1> QED
  BY <1>1, <1>2, <1>4 DEF EngineInv

(* A checkpoint leads to the stage after it. *)
LEMMA NextReached ==
  ASSUME EngineInv, NEW i \in DOMAIN checkpoints
  PROVE  StageOf(i) \in WorkingStages /\ NextStage(StageOf(i)) \in Ordered /\ Reached(NextStage(StageOf(i)))
<1>1. i \in 1 .. Len(checkpoints) /\ checkpoints[i] \in Checkpoint
  BY DEF EngineInv, TypeOK
<1>2. StageOf(i) \in WorkingStages
  BY <1>1 DEF Checkpoint, StageOf
<1>3. NextStage(StageOf(i)) \in Ordered /\ NextStage(StageOf(i)) # "corrective_round"
  BY <1>2, NextStageOrdered, OrderedStages
<1> QED
  BY <1>1, <1>2, <1>3 DEF Reached, Backed

LEMMA WentTo ==
  ASSUME EngineInv, NEW e \in Engines, NEW pc \in {"loop", "ended"}, NEW stage \in WorkingStages \cup Ends,
         Reached(stage), GoTo(e, pc, stage), UNCHANGED <<checkpoints, cancel, restarts>>
  PROVE  EngineInv'
<1>1. runs[e] \in Run /\ restarts \in 0 .. MaxRestarts
  BY DEF EngineInv, TypeOK
<1> DEFINE m == [runs[e] EXCEPT !.pc = pc, !.stage = stage]
           n == Settled(m)
<1>2. m \in Run /\ m.pc = pc /\ m.stage = stage
  BY <1>1 DEF Run
<1>3. runs' = [runs EXCEPT ![e] = n]
  BY DEF GoTo
<1> HIDE DEF m
<1>3a. n \in Run /\ n.pc = pc /\ n.stage = stage
  BY <1>2, SettledTyped
<1> HIDE DEF n
<1>4. OnPath(n)
  BY <1>3a DEF OnPath
<1> QED
  BY <1>1, <1>3, <1>3a, <1>4, RunMoves

(* The checkpoint of a handled stage is stored, or an equal one was. *)
LEMMA StoredKept ==
  ASSUME EngineInv, NEW e \in Engines, AppendCheckpoint(e)
  PROVE  EngineInv'
<1> DEFINE run == runs[e]
           known == Checkpointed(run.stage, run.input)
           contiguous == run.existing = Len(checkpoints)
           stored == [stage |-> run.stage, input |-> run.input, blocking |-> run.correct, by |-> e]
<1>1. /\ run \in Run /\ run.pc = "append" /\ run.stage \in WorkingStages /\ OnPath(run)
      /\ restarts \in 0 .. MaxRestarts /\ restarts' = restarts /\ cancel' = cancel
      /\ Len(checkpoints) \in Nat /\ DOMAIN checkpoints = 1 .. Len(checkpoints)
  BY DEF EngineInv, TypeOK, AppendCheckpoint, At, OnPath
<1>2. CASE ~known /\ ~contiguous
  <2> DEFINE n == Settled([run EXCEPT !.pc = "ended"])
  <2>1. [run EXCEPT !.pc = "ended"] \in Run /\ [run EXCEPT !.pc = "ended"].pc = "ended"
        /\ [run EXCEPT !.pc = "ended"].stage = run.stage
    BY <1>1 DEF Run
  <2>2. n \in Run /\ n.pc = "ended" /\ n.stage = run.stage
    BY <2>1, SettledTyped
  <2>3. runs' = [runs EXCEPT ![e] = n] /\ checkpoints' = checkpoints
    BY <1>2 DEF AppendCheckpoint
  <2> HIDE DEF n
  <2>4. OnPath(n)
    BY <1>1, <2>2 DEF OnPath
  <2> QED
    BY <1>1, <2>2, <2>3, <2>4, RunMoves
<1>3. CASE known
  <2> DEFINE n == Settled(Advanced(run))
  <2>1. /\ n \in Run
        /\ \/ n.pc = "ended" /\ n.stage = "failed"
           \/ n.pc = "loop" /\ n.stage = "corrective_round" /\ run.correct
           \/ n.pc = "loop" /\ n.stage = NextStage(run.stage)
    BY <1>1, AdvancedTyped
  <2>2. runs' = [runs EXCEPT ![e] = n] /\ checkpoints' = checkpoints
    BY <1>3 DEF AppendCheckpoint
  <2>3. PICK i \in DOMAIN checkpoints : StageOf(i) = run.stage
    BY <1>3 DEF Checkpointed, StageOf
  <2>4. Reached(NextStage(run.stage))
    BY <2>3, NextReached
  <2>5. run.correct => Reached("corrective_round")
    BY <1>1, <2>3 DEF OnPath, Reached, Backed
  <2>6. Reached("failed")
    BY DEF Reached, Ends
  <2> HIDE DEF n
  <2>7. OnPath(n)
    BY <2>1, <2>4, <2>5, <2>6 DEF OnPath
  <2> QED
    BY <1>1, <2>1, <2>2, <2>7, RunMoves
<1>4. CASE ~known /\ contiguous
  <2> DEFINE n == Settled(Advanced(run))
             last == Len(checkpoints) + 1
  <2>1. /\ n \in Run
        /\ \/ n.pc = "ended" /\ n.stage = "failed"
           \/ n.pc = "loop" /\ n.stage = "corrective_round" /\ run.correct
           \/ n.pc = "loop" /\ n.stage = NextStage(run.stage)
    BY <1>1, AdvancedTyped
  <2>2. runs' = [runs EXCEPT ![e] = n] /\ checkpoints' = Append(checkpoints, stored)
    BY <1>4 DEF AppendCheckpoint
  <2>3. stored \in Checkpoint /\ stored.stage = run.stage /\ stored.input = run.input
    BY <1>1 DEF Checkpoint, Run
  <2> HIDE DEF n, stored
  <2>4. /\ checkpoints' \in Seq(Checkpoint) /\ Len(checkpoints') = last /\ DOMAIN checkpoints' = 1 .. last
        /\ \A i \in 1 .. Len(checkpoints) : checkpoints'[i] = checkpoints[i]
        /\ checkpoints'[last] = stored
    BY <2>2, <2>3 DEF EngineInv, TypeOK
  <2>5. TypeOK'
    BY <1>1, <2>1, <2>2, <2>4 DEF EngineInv, TypeOK
  <2>6. \A i \in 1 .. Len(checkpoints) : StageOf(i)' = StageOf(i)
    BY <2>4 DEF StageOf
  <2>7. checkpoints'[last].stage = run.stage
    BY <2>3, <2>4
  <2>8. ASSUME NEW stage, NEW m \in 0 .. Len(checkpoints), Backed(stage, m)
        PROVE  Backed(stage, m)'
    BY <1>1, <2>6, <2>8 DEF Backed
  <2>9. ASSUME NEW stage, Reached(stage)
        PROVE  Reached(stage)'
    BY <1>1, <2>4, <2>6, <2>9 DEF Reached, Backed
  <2>10. PathBacked'
    <3> SUFFICES ASSUME NEW i \in 1 .. last, i > 1, checkpoints'[i].stage # StartStage
                 PROVE  \E j \in 1 .. i - 1 :
                          IF checkpoints'[i].stage = "corrective_round" THEN checkpoints'[j].stage \in Correcting
                          ELSE NextStage(checkpoints'[j].stage) = checkpoints'[i].stage
      BY <2>4 DEF PathBacked, StageOf
    <3>1. CASE i \in 1 .. Len(checkpoints)
      <4>1. checkpoints'[i] = checkpoints[i] /\ i \in DOMAIN checkpoints
        BY <1>1, <2>4, <3>1
      <4>2. PICK j \in 1 .. i - 1 :
              IF StageOf(i) = "corrective_round" THEN StageOf(j) \in Correcting
              ELSE NextStage(StageOf(j)) = StageOf(i)
        BY <4>1 DEF EngineInv, PathBacked, StageOf
      <4>3. checkpoints'[j] = checkpoints[j]
        BY <1>1, <2>4, <3>1
      <4> QED
        BY <4>1, <4>2, <4>3 DEF StageOf
    <3>2. CASE i = last
      <4>1. Backed(run.stage, Len(checkpoints))
        BY <1>1, <2>7, <3>2, OrderedStages DEF OnPath, Reached
      <4>2. PICK j \in 1 .. Len(checkpoints) :
              IF run.stage = "corrective_round" THEN StageOf(j) \in Correcting
              ELSE NextStage(StageOf(j)) = run.stage
        BY <4>1 DEF Backed
      <4>3. checkpoints'[j] = checkpoints[j] /\ j \in 1 .. i - 1
        BY <1>1, <2>4, <3>2
      <4> QED
        BY <2>7, <3>2, <4>2, <4>3 DEF StageOf
    <3> QED
      BY <1>1, <3>1, <3>2
  <2>11. RecordedOnce'
    <3>1. \A i \in 1 .. Len(checkpoints) : ~(checkpoints[i].stage = run.stage /\ checkpoints[i].input = run.input)
      BY <1>1, <1>4 DEF Checkpointed
    <3> SUFFICES ASSUME NEW i \in 1 .. last, NEW j \in 1 .. last,
                        checkpoints'[i].stage = checkpoints'[j].stage,
                        checkpoints'[i].input = checkpoints'[j].input
                 PROVE  i = j
      BY <2>4 DEF RecordedOnce, StageOf
    <3>2. CASE i \in 1 .. Len(checkpoints) /\ j \in 1 .. Len(checkpoints)
      BY <1>1, <2>4, <3>2 DEF EngineInv, RecordedOnce, StageOf
    <3>3. CASE i = last /\ j = last
      BY <3>3
    <3>4. CASE i = last /\ j \in 1 .. Len(checkpoints)
      BY <2>3, <2>4, <3>1, <3>4
    <3>5. CASE j = last /\ i \in 1 .. Len(checkpoints)
      BY <2>3, <2>4, <3>1, <3>5
    <3> QED
      BY <1>1, <3>2, <3>3, <3>4, <3>5
  <2>12. PICK next : next = NextStage(run.stage)
    OBVIOUS
  <2>12a. Reached("failed")' /\ Reached(next)' /\ (run.correct => Reached("corrective_round")')
    <3>1. next # "corrective_round"
      BY <1>1, <2>12, NextStageOrdered, OrderedStages
    <3>2. last \in 1 .. Len(checkpoints') /\ checkpoints'[last].stage = run.stage
      BY <1>1, <2>4, <2>7
    <3>3. Backed(next, Len(checkpoints))'
      BY <2>12, <3>1, <3>2 DEF Backed, StageOf
    <3>4. run.correct => Backed("corrective_round", Len(checkpoints))'
      BY <1>1, <3>2 DEF Backed, StageOf, OnPath
    <3> QED
      BY <3>3, <3>4 DEF Reached, Ends
  <2>13. \A d \in Engines : runs'[d] = IF d = e THEN n ELSE runs[d]
    BY <2>2 DEF EngineInv, TypeOK
  <2>14. ASSUME NEW d \in Engines
         PROVE  OnPath(runs[d])'
    <3>1. CASE d = e
      <4>1. runs'[d] = n
        BY <2>13, <3>1
      <4>2. Reached(runs[d].stage)'
        BY <2>1, <2>12, <2>12a, <4>1 DEF Reached
      <4> QED
        BY <2>1, <4>1, <4>2 DEF OnPath
    <3>2. CASE d # e
      <4>1. OnPath(runs[d]) /\ runs'[d] = runs[d]
        BY <2>13, <3>2 DEF EngineInv
      <4>2. Reached(runs[d].stage)'
        BY <2>9, <4>1 DEF OnPath, Reached
      <4> QED
        BY <4>1, <4>2 DEF OnPath
    <3> QED
      BY <3>1, <3>2
  <2> QED
    BY <2>5, <2>10, <2>11, <2>14 DEF EngineInv
<1> QED
  BY <1>2, <1>3, <1>4

LEMMA ListKept ==
  ASSUME EngineInv, NEW e \in Engines, List(e)
  PROVE  EngineInv'
<1> DEFINE run == runs[e]
           skip == [run EXCEPT !.pc = "loop", !.stage = NextStage(run.stage)]
           enter == [run EXCEPT !.pc = "handler", !.input = run.payload, !.existing = Len(checkpoints)]
<1>1. /\ run \in Run /\ run.stage \in WorkingStages /\ OnPath(run) /\ Len(checkpoints) \in Nat
      /\ restarts \in 0 .. MaxRestarts /\ UNCHANGED <<checkpoints, cancel, restarts>>
  BY DEF EngineInv, TypeOK, List, Run
<1>2. CASE Checkpointed(run.stage, run.payload)
  <2>1. PICK i \in DOMAIN checkpoints : StageOf(i) = run.stage
    BY <1>2 DEF Checkpointed, StageOf
  <2>2. Reached(NextStage(run.stage)) /\ NextStage(run.stage) \in WorkingStages \cup Ends
    BY <2>1, NextReached, OrderedStages
  <2>3. skip \in Run /\ skip.pc = "loop" /\ skip.stage = NextStage(run.stage)
    BY <1>1, <2>2 DEF Run
  <2>4. runs' = [runs EXCEPT ![e] = skip]
    BY <1>2 DEF List
  <2> HIDE DEF skip
  <2>5. OnPath(skip)
    BY <2>2, <2>3 DEF OnPath
  <2> QED
    BY <1>1, <2>3, <2>4, <2>5, RunMoves
<1>3. CASE ~Checkpointed(run.stage, run.payload)
  <2>1. enter \in Run /\ enter.pc = "handler" /\ enter.stage = run.stage
    BY <1>1 DEF Run
  <2>2. runs' = [runs EXCEPT ![e] = enter]
    BY <1>3 DEF List
  <2> HIDE DEF enter
  <2>3. OnPath(enter)
    BY <1>1, <2>1 DEF OnPath
  <2> QED
    BY <1>1, <2>1, <2>2, <2>3, RunMoves
<1> QED
  BY <1>2, <1>3

LEMMA HandledKept ==
  ASSUME EngineInv, NEW e \in Engines, NEW version \in 0 .. MaxVersion, NEW correct \in BOOLEAN,
         NEW finding \in Findings \cup {Nil}, HandlerReturns(e, version, correct, finding)
  PROVE  EngineInv'
<1> DEFINE n == [runs[e] EXCEPT !.pc = "append", !.payload = version, !.correct = correct, !.finding = finding]
<1>1. /\ runs[e] \in Run /\ OnPath(runs[e]) /\ runs[e].pc = "handler" /\ restarts \in 0 .. MaxRestarts
      /\ correct => runs[e].stage \in Correcting
      /\ UNCHANGED <<checkpoints, cancel, restarts>>
  BY DEF EngineInv, TypeOK, HandlerReturns, At
<1>2. n \in Run /\ n.pc = "append" /\ n.stage = runs[e].stage /\ n.correct = correct
  BY <1>1 DEF Run
<1>3. runs' = [runs EXCEPT ![e] = n]
  BY <1>1 DEF HandlerReturns, EngineInv, TypeOK
<1> HIDE DEF n
<1>4. OnPath(n)
  BY <1>1, <1>2 DEF OnPath
<1> QED
  BY <1>1, <1>2, <1>3, <1>4, RunMoves

LEMMA EngineStep == EngineInv /\ [Next]_vars => EngineInv'
<1> SUFFICES ASSUME EngineInv, [Next]_vars PROVE EngineInv'
  OBVIOUS
<1>1. \A e \in Engines : runs[e] \in Run /\ runs[e].stage \in WorkingStages \cup Ends /\ Reached(runs[e].stage)
  BY DEF EngineInv, TypeOK, Run, OnPath
<1>2. /\ \A stage \in Ends : Reached(stage)
      /\ "failed" \in Ends /\ "cancelled" \in Ends
  BY DEF Reached, Ends
<1>3. ASSUME NEW e \in Engines, Resume(e)
      PROVE  EngineInv'
  <2>1. CASE checkpoints = <<>>
    BY <1>1, <1>3, <2>1, WentTo DEF Resume
  <2>2. CASE checkpoints # <<>>
    <3> DEFINE stage == NextStage(checkpoints[Len(checkpoints)].stage)
    <3>1. Len(checkpoints) \in DOMAIN checkpoints
      BY <2>2 DEF EngineInv, TypeOK
    <3>2. Reached(stage) /\ stage \in WorkingStages \cup Ends
      BY <3>1, NextReached, OrderedStages DEF StageOf
    <3>3. GoTo(e, "loop", stage) /\ UNCHANGED <<checkpoints, cancel, restarts>>
      BY <1>3, <2>2 DEF Resume
    <3>4. PICK next : next = stage
      OBVIOUS
    <3>5. GoTo(e, "loop", next) /\ Reached(next) /\ next \in WorkingStages \cup Ends
      BY <3>2, <3>3, <3>4
    <3> QED
      BY <3>3, <3>5, WentTo
  <2> QED
    BY <2>1, <2>2
<1>4. ASSUME NEW e \in Engines, NEW stage \in Ends \cup {runs[e].stage}, GoTo(e, "ended", stage),
             UNCHANGED <<checkpoints, cancel, restarts>>
      PROVE  EngineInv'
  BY <1>1, <1>2, <1>4, WentTo
<1>5. ASSUME NEW e \in Engines, Loop(e) \/ DeadlinePasses(e)
      PROVE  EngineInv'
  <2>1. /\ \E stage \in Ends \cup {runs[e].stage} : GoTo(e, "ended", stage)
        /\ UNCHANGED <<checkpoints, cancel, restarts>>
    BY <1>2, <1>5 DEF Loop, DeadlinePasses
  <2> QED
    BY <1>4, <2>1
<1>6. ASSUME NEW e \in Engines, NEW denied \in BOOLEAN, HandlerStops(e, denied)
      PROVE  EngineInv'
  <2>1. /\ \E stage \in Ends \cup {runs[e].stage} : GoTo(e, "ended", stage)
        /\ UNCHANGED <<checkpoints, cancel, restarts>>
    BY <1>2, <1>6 DEF HandlerStops
  <2> QED
    BY <1>4, <2>1
<1>7. ASSUME NEW e \in Engines, Crash(e)
      PROVE  EngineInv'
  <2>1. NewRun \in Run /\ OnPath(NewRun)
    <3>1. 0 \in 0 .. MaxVersion /\ [f \in Findings |-> 0] \in [Findings -> Nat] /\ StartStage \in WorkingStages
      BY EngineAssumption
    <3>2. NewRun \in Run
      BY <3>1 DEF NewRun, Run
    <3> QED
      BY <3>2 DEF NewRun, OnPath, Reached
  <2>2. restarts' \in 0 .. MaxRestarts
    BY <1>7, EngineAssumption DEF Crash, Restarting, EngineInv, TypeOK
  <2> QED
    BY <1>7, <2>1, <2>2, RunMoves DEF Crash
<1>8. ASSUME NEW e \in Engines, RunAgain(e)
      PROVE  EngineInv'
  <2> DEFINE n == [runs[e] EXCEPT !.pc = "idle"]
  <2>1. n \in Run /\ n.pc = "idle" /\ n.stage = runs[e].stage
    BY <1>1 DEF Run
  <2>2. runs' = [runs EXCEPT ![e] = n]
    BY <1>8 DEF RunAgain
  <2> HIDE DEF n
  <2>3. OnPath(n)
    BY <1>1, <2>1 DEF OnPath
  <2>4. restarts' \in 0 .. MaxRestarts
    BY <1>8, EngineAssumption DEF RunAgain, Restarting, EngineInv, TypeOK
  <2> QED
    BY <1>8, <2>1, <2>2, <2>3, <2>4, RunMoves DEF RunAgain
<1>9. CASE CancelWorkflow \/ UNCHANGED vars
  BY <1>9 DEF CancelWorkflow, vars, EngineInv, TypeOK, PathBacked, RecordedOnce, OnPath, Reached, Backed, StageOf
<1> QED
  BY <1>3, <1>5, <1>6, <1>7, <1>8, <1>9, ListKept, HandledKept, StoredKept DEF Next, Step

LEMMA EngineInvAlways == Spec => []EngineInv
<1>1. Init => EngineInv
  <2> SUFFICES ASSUME Init PROVE EngineInv
    OBVIOUS
  <2>1. NewRun \in Run /\ OnPath(NewRun)
    <3>1. 0 \in 0 .. MaxVersion /\ [f \in Findings |-> 0] \in [Findings -> Nat] /\ StartStage \in WorkingStages
      BY EngineAssumption
    <3>2. NewRun \in Run
      BY <3>1 DEF NewRun, Run
    <3> QED
      BY <3>2 DEF NewRun, OnPath, Reached
  <2> QED
    <3>1. checkpoints = <<>> /\ runs = [e \in Engines |-> NewRun] /\ cancel = FALSE /\ restarts = 0
      BY DEF Init
    <3>2. TypeOK
      <4>1. checkpoints \in Seq(Checkpoint) /\ restarts \in 0 .. MaxRestarts
        BY <3>1, EngineAssumption
      <4>2. runs \in [Engines -> Run]
        BY <2>1, <3>1
      <4>3. cancel \in BOOLEAN
        BY <3>1
      <4> QED
        BY <4>1, <4>2, <4>3 DEF TypeOK
    <3>3. PathBacked /\ RecordedOnce
      BY <3>1 DEF PathBacked, RecordedOnce
    <3> QED
      BY <2>1, <3>1, <3>2, <3>3 DEF EngineInv
<1> QED
  BY <1>1, EngineStep, PTL DEF Spec

(* Checkpoints and runs keep their declared shape: in particular the engine  *)
(* never asks for the stage after an end.                                   *)
THEOREM WorkflowTyped == Spec => []TypeOK
<1>1. EngineInv => TypeOK
  BY DEF EngineInv
<1> QED
  BY <1>1, EngineInvAlways, PTL

(* No stage is skipped, however many engines race on the task, crash, resume  *)
(* and pass over what others stored.                                        *)
THEOREM PathBackedAlways == Spec => []PathBacked
<1>1. EngineInv => PathBacked
  BY DEF EngineInv
<1> QED
  BY <1>1, EngineInvAlways, PTL

(* A stage is recorded once for a payload, for any number of engines. *)
THEOREM RecordedOnceAlways == Spec => []RecordedOnce
<1>1. EngineInv => RecordedOnce
  BY DEF EngineInv
<1> QED
  BY <1>1, EngineInvAlways, PTL

-----------------------------------------------------------------------------
(* The budget of corrective rounds. *)

Corrections(e) ==
  {i \in DOMAIN checkpoints : StageOf(i) = "corrective_round" /\ checkpoints[i].by = e}

(* A round that was counted and whose checkpoint may still come. *)
Pending(run) ==
  IF run.stage = "corrective_round" /\ run.pc \in {"loop", "handler", "append"} THEN 1 ELSE 0

(* Every stored round was counted by its WorkflowRun; a crash forgets at most *)
(* one WorkflowRun's count.                                                 *)
BudgetInv ==
  \A e \in Engines :
    /\ runs[e].rounds <= max_corrective_rounds
    /\ Cardinality(Corrections(e)) + Pending(runs[e]) <= runs[e].rounds + max_corrective_rounds * restarts

LEMMA Times ==
  ASSUME NEW m \in Nat, NEW r \in Nat
  PROVE  m * r \in Nat /\ m * (r + 1) = m * r + m /\ m * (1 + r) = m * r + m
  OBVIOUS

LEMMA CorrectionsFinite ==
  ASSUME TypeOK, NEW e
  PROVE  IsFiniteSet(Corrections(e)) /\ Cardinality(Corrections(e)) \in Nat
<1>1. Len(checkpoints) \in Nat /\ DOMAIN checkpoints = 1 .. Len(checkpoints)
  BY DEF TypeOK
<1>2. IsFiniteSet(1 .. Len(checkpoints))
  BY <1>1, FS_Interval
<1>3. Corrections(e) \subseteq 1 .. Len(checkpoints)
  BY <1>1 DEF Corrections
<1>4. IsFiniteSet(Corrections(e))
  BY <1>2, <1>3, FS_Subset
<1> QED
  BY <1>4, FS_CardinalityType

(* A step that moves one run and stores nothing. *)
LEMMA BudgetMoves ==
  ASSUME EngineInv, BudgetInv, NEW e \in Engines, NEW n, runs' = [runs EXCEPT ![e] = n],
         checkpoints' = checkpoints, restarts' \in {restarts, restarts + 1},
         n.rounds \in Nat, n.rounds <= max_corrective_rounds,
         Pending(n) + runs[e].rounds + max_corrective_rounds * restarts
           <= Pending(runs[e]) + n.rounds + max_corrective_rounds * restarts'
  PROVE  BudgetInv'
<1>1. restarts \in Nat /\ max_corrective_rounds \in Nat /\ restarts' \in Nat
  BY EngineAssumption DEF EngineInv, TypeOK
<1> DEFINE b == max_corrective_rounds * restarts
           c == max_corrective_rounds * restarts'
<1>2. b \in Nat /\ c \in Nat /\ b <= c
  <2>1. b \in Nat /\ max_corrective_rounds * (restarts + 1) = b + max_corrective_rounds
    BY <1>1, Times
  <2>2. c = b \/ c = b + max_corrective_rounds
    <3>1. CASE restarts' = restarts
      BY <3>1
    <3>2. CASE restarts' = restarts + 1
      BY <2>1, <3>2
    <3> QED
      BY <3>1, <3>2
  <2> HIDE DEF b, c
  <2> QED
    BY <1>1, <2>1, <2>2
<1>3. \A d \in Engines : runs'[d] = IF d = e THEN n ELSE runs[d]
  BY DEF EngineInv, TypeOK
<1>4. \A run : Pending(run) \in {0, 1}
  BY DEF Pending
<1> SUFFICES ASSUME NEW d \in Engines
             PROVE  /\ runs'[d].rounds <= max_corrective_rounds
                    /\ Cardinality(Corrections(d)') + Pending(runs'[d]) <= runs'[d].rounds + c
  BY DEF BudgetInv, Pending
<1>5. Corrections(d)' = Corrections(d)
  BY DEF Corrections, StageOf
<1>6. Cardinality(Corrections(d)) \in Nat
  BY CorrectionsFinite DEF EngineInv
<1>7. /\ runs[d].rounds <= max_corrective_rounds /\ runs[d].rounds \in Nat
      /\ Cardinality(Corrections(d)) + Pending(runs[d]) <= runs[d].rounds + b
  BY DEF BudgetInv, EngineInv, TypeOK, Run
<1>8. Pending(n) + runs[e].rounds + b <= Pending(runs[e]) + n.rounds + c
  OBVIOUS
<1> HIDE DEF b, c
<1>9. CASE d = e
  BY <1>2, <1>3, <1>4, <1>5, <1>6, <1>7, <1>8, <1>9
<1>10. CASE d # e
  BY <1>2, <1>3, <1>4, <1>5, <1>6, <1>7, <1>10
<1> QED
  BY <1>9, <1>10

LEMMA StoredBudgeted ==
  ASSUME EngineInv, BudgetInv, NEW e \in Engines, AppendCheckpoint(e)
  PROVE  BudgetInv'
<1> DEFINE run == runs[e]
           known == Checkpointed(run.stage, run.input)
           contiguous == run.existing = Len(checkpoints)
           stored == [stage |-> run.stage, input |-> run.input, blocking |-> run.correct, by |-> e]
           b == max_corrective_rounds * restarts
<1>1. /\ run \in Run /\ run.pc = "append" /\ run.stage \in WorkingStages /\ run.rounds \in Nat
      /\ restarts \in Nat /\ restarts' = restarts /\ max_corrective_rounds \in Nat
      /\ Len(checkpoints) \in Nat /\ DOMAIN checkpoints = 1 .. Len(checkpoints)
      /\ run.rounds <= max_corrective_rounds
  BY EngineAssumption DEF EngineInv, TypeOK, AppendCheckpoint, At, OnPath, Run, BudgetInv
<1>2. b \in Nat
  BY <1>1, Times
<1>3. \A r : Pending(r) \in {0, 1}
  BY DEF Pending
<1>4. CASE ~known /\ ~contiguous
  <2> DEFINE m == [run EXCEPT !.pc = "ended"]
             n == Settled(m)
  <2>1. m \in Run /\ m.pc = "ended" /\ m.rounds = run.rounds
    BY <1>1 DEF Run
  <2>2. runs' = [runs EXCEPT ![e] = n] /\ checkpoints' = checkpoints
    BY <1>4 DEF AppendCheckpoint
  <2> HIDE DEF m
  <2>3. n.pc = "ended" /\ n.rounds = run.rounds
    BY <2>1, SettledTyped
  <2> HIDE DEF n
  <2>4. Pending(n) = 0
    BY <2>3 DEF Pending
  <2> HIDE DEF b
  <2>5. Pending(n) + run.rounds + b <= Pending(run) + n.rounds + b
    BY <1>1, <1>2, <1>3, <2>3, <2>4
  <2> QED
    BY <1>1, <2>2, <2>3, <2>5, BudgetMoves DEF b
<1>5. CASE known \/ contiguous
  <2> DEFINE n == Settled(Advanced(run))
  <2>1. \/ n.pc = "ended" /\ n.stage = "failed" /\ n.rounds = run.rounds
        \/ /\ n.pc = "loop" /\ n.stage = "corrective_round" /\ run.correct
           /\ n.rounds = run.rounds + 1 /\ run.rounds < max_corrective_rounds
        \/ n.pc = "loop" /\ n.stage = NextStage(run.stage) /\ n.rounds = run.rounds
    BY <1>1, AdvancedTyped
  <2>2. runs' = [runs EXCEPT ![e] = n]
    BY <1>5 DEF AppendCheckpoint
  <2>3. NextStage(run.stage) # "corrective_round"
    BY <1>1, NextStageOrdered, OrderedStages
  <2> HIDE DEF n
  <2>4. n.rounds \in Nat /\ n.rounds <= max_corrective_rounds /\ Pending(n) + run.rounds <= n.rounds
    BY <1>1, <2>1, <2>3 DEF Pending
  <2>5. CASE known
    <3>1. checkpoints' = checkpoints
      BY <2>5 DEF AppendCheckpoint
    <3> HIDE DEF b
    <3>2. Pending(n) + run.rounds + b <= Pending(run) + n.rounds + b
      BY <1>1, <1>2, <1>3, <2>4
    <3> QED
      BY <1>1, <2>2, <2>4, <3>1, <3>2, BudgetMoves DEF b
  <2>6. CASE ~known /\ contiguous
    <3> DEFINE last == Len(checkpoints) + 1
    <3>1. checkpoints' = Append(checkpoints, stored) /\ checkpoints \in Seq(Checkpoint)
      BY <2>6 DEF AppendCheckpoint, EngineInv, TypeOK
    <3>2. stored.stage = run.stage /\ stored.by = e
      OBVIOUS
    <3> HIDE DEF stored, b
    <3>3. /\ DOMAIN checkpoints' = 1 .. last
          /\ \A i \in 1 .. Len(checkpoints) : checkpoints'[i] = checkpoints[i]
          /\ checkpoints'[last] = stored
      BY <3>1
    <3>4. ASSUME NEW d \in Engines
          PROVE  /\ Cardinality(Corrections(d)) \in Nat
                 /\ d # e \/ run.stage # "corrective_round" => Corrections(d)' = Corrections(d)
                 /\ d = e /\ run.stage = "corrective_round" =>
                      Cardinality(Corrections(d)') = Cardinality(Corrections(d)) + 1
      <4>1. IsFiniteSet(Corrections(d)) /\ Cardinality(Corrections(d)) \in Nat
        BY CorrectionsFinite DEF EngineInv
      <4>2. last \notin Corrections(d)
        BY <1>1 DEF Corrections
      <4>3. d # e \/ run.stage # "corrective_round" => Corrections(d)' = Corrections(d)
        BY <1>1, <3>2, <3>3 DEF Corrections, StageOf
      <4>4. d = e /\ run.stage = "corrective_round" => Corrections(d)' = Corrections(d) \cup {last}
        BY <1>1, <3>2, <3>3 DEF Corrections, StageOf
      <4>5. Cardinality(Corrections(d) \cup {last}) = Cardinality(Corrections(d)) + 1
        BY <4>1, <4>2, FS_AddElement
      <4> QED
        BY <4>1, <4>3, <4>4, <4>5
    <3>5. \A d \in Engines : runs'[d] = IF d = e THEN n ELSE runs[d]
      BY <2>2 DEF EngineInv, TypeOK
    <3> SUFFICES ASSUME NEW d \in Engines
                 PROVE  /\ runs'[d].rounds <= max_corrective_rounds
                        /\ Cardinality(Corrections(d)') + Pending(runs'[d]) <= runs'[d].rounds + b
      BY <1>1 DEF BudgetInv, Pending, b
    <3>6. /\ runs[d].rounds <= max_corrective_rounds /\ runs[d].rounds \in Nat
          /\ Cardinality(Corrections(d)) + Pending(runs[d]) <= runs[d].rounds + b
      BY DEF BudgetInv, EngineInv, TypeOK, Run, b
    <3>7. CASE d # e
      BY <3>4, <3>5, <3>6, <3>7
    <3>8. CASE d = e /\ run.stage = "corrective_round"
      <4>1. Pending(run) = 1
        BY <1>1, <3>8 DEF Pending
      <4>2. /\ Cardinality(Corrections(d)') = Cardinality(Corrections(d)) + 1
            /\ Cardinality(Corrections(d)) \in Nat
        BY <3>4, <3>8
      <4>3. runs'[d] = n /\ Cardinality(Corrections(d)) + 1 <= run.rounds + b
        BY <3>5, <3>6, <3>8, <4>1
      <4>4. Pending(n) \in {0, 1}
        BY <1>3
      <4>5. run.rounds \in Nat
        BY <1>1
      <4> QED
        BY <1>2, <2>4, <4>2, <4>3, <4>4, <4>5
    <3>9. CASE d = e /\ run.stage # "corrective_round"
      <4>1. Corrections(d)' = Corrections(d) /\ Cardinality(Corrections(d)) \in Nat
        BY <3>4, <3>9
      <4>2. runs'[d] = n /\ Cardinality(Corrections(d)) + Pending(run) <= run.rounds + b
        BY <3>5, <3>6, <3>9
      <4>3. Pending(n) \in {0, 1} /\ Pending(run) \in {0, 1}
        BY <1>3
      <4>4. run.rounds \in Nat
        BY <1>1
      <4> HIDE DEF run
      <4> QED
        BY <1>2, <2>4, <4>1, <4>2, <4>3, <4>4
    <3> QED
      BY <3>7, <3>8, <3>9
  <2> QED
    BY <1>5, <2>5, <2>6
<1> QED
  BY <1>4, <1>5

LEMMA BudgetStep ==
  ASSUME StartStage # "corrective_round", EngineInv, BudgetInv, [Next]_vars
  PROVE  BudgetInv'
<1> DEFINE b == max_corrective_rounds * restarts
<1>1. /\ restarts \in Nat /\ max_corrective_rounds \in Nat /\ b \in Nat
      /\ max_corrective_rounds * (restarts + 1) = b + max_corrective_rounds
  BY EngineAssumption, Times DEF EngineInv, TypeOK
<1>2. \A e \in Engines : /\ runs[e] \in Run /\ runs[e].rounds \in Nat /\ OnPath(runs[e])
                         /\ runs[e].rounds <= max_corrective_rounds /\ Pending(runs[e]) \in {0, 1}
  BY DEF EngineInv, TypeOK, Run, BudgetInv, Pending
<1>3. ASSUME NEW e \in Engines, NEW n, runs' = [runs EXCEPT ![e] = n], checkpoints' = checkpoints,
             restarts' = restarts, n.rounds = runs[e].rounds, Pending(n) \in {0, Pending(runs[e])}
      PROVE  BudgetInv'
  <2>1. Pending(n) + runs[e].rounds + b <= Pending(runs[e]) + n.rounds + b
    BY <1>1, <1>2, <1>3
  <2> QED
    BY <1>1, <1>2, <1>3, <2>1, BudgetMoves
<1>4. ASSUME NEW e \in Engines, NEW pc \in {"loop", "ended"}, NEW stage \in WorkingStages \cup Ends,
             GoTo(e, pc, stage), UNCHANGED <<checkpoints, cancel, restarts>>,
             pc = "ended" \/ stage # "corrective_round"
      PROVE  BudgetInv'
  <2> DEFINE m == [runs[e] EXCEPT !.pc = pc, !.stage = stage]
             n == Settled(m)
  <2>1. m \in Run /\ m.pc = pc /\ m.stage = stage /\ m.rounds = runs[e].rounds
    BY <1>2 DEF Run
  <2>2. runs' = [runs EXCEPT ![e] = n]
    BY <1>4 DEF GoTo
  <2> HIDE DEF m
  <2>3. n.pc = pc /\ n.stage = stage /\ n.rounds = runs[e].rounds
    BY <2>1, SettledTyped
  <2> HIDE DEF n
  <2>4. Pending(n) = 0
    BY <1>4, <2>3 DEF Pending
  <2> QED
    BY <1>3, <1>4, <2>2, <2>3, <2>4
<1>5. ASSUME NEW e \in Engines, Resume(e)
      PROVE  BudgetInv'
  <2> DEFINE stage == IF checkpoints = <<>> THEN runs[e].stage
                      ELSE NextStage(checkpoints[Len(checkpoints)].stage)
  <2>1. stage \in WorkingStages \cup Ends /\ stage # "corrective_round"
    <3>1. CASE checkpoints = <<>>
      <4>1. Len(checkpoints) = 0 /\ Reached(runs[e].stage) /\ runs[e].stage \in WorkingStages \cup Ends
        BY <1>2, <3>1 DEF OnPath, Run
      <4> QED
        BY <3>1, <4>1, OrderedStages DEF Reached, Backed
    <3>2. CASE checkpoints # <<>>
      <4>1. Len(checkpoints) \in DOMAIN checkpoints
        BY <3>2 DEF EngineInv, TypeOK
      <4> QED
        BY <3>2, <4>1, NextReached, OrderedStages DEF StageOf
    <3> QED
      BY <3>1, <3>2
  <2>2. GoTo(e, "loop", stage) /\ UNCHANGED <<checkpoints, cancel, restarts>>
    BY <1>5 DEF Resume
  <2>3. PICK next : next = stage
    OBVIOUS
  <2>4. GoTo(e, "loop", next) /\ next \in WorkingStages \cup Ends /\ next # "corrective_round"
    BY <2>1, <2>2, <2>3
  <2> QED
    BY <1>4, <2>2, <2>4
<1>6. ASSUME NEW e \in Engines, Loop(e) \/ DeadlinePasses(e) \/ \E denied \in BOOLEAN : HandlerStops(e, denied)
      PROVE  BudgetInv'
  <2>1. /\ \E stage \in WorkingStages \cup Ends : GoTo(e, "ended", stage)
        /\ UNCHANGED <<checkpoints, cancel, restarts>>
    <3>1. "failed" \in WorkingStages \cup Ends /\ "cancelled" \in WorkingStages \cup Ends
          /\ runs[e].stage \in WorkingStages \cup Ends
      BY <1>2 DEF Ends, Run
    <3> QED
      BY <1>6, <3>1 DEF Loop, DeadlinePasses, HandlerStops
  <2> QED
    BY <1>4, <2>1
<1>7. ASSUME NEW e \in Engines, List(e)
      PROVE  BudgetInv'
  <2> DEFINE run == runs[e]
             skip == [run EXCEPT !.pc = "loop", !.stage = NextStage(run.stage)]
             enter == [run EXCEPT !.pc = "handler", !.input = run.payload, !.existing = Len(checkpoints)]
  <2>1. run.pc = "loop" /\ run.stage \in WorkingStages /\ UNCHANGED <<checkpoints, cancel, restarts>>
    BY <1>2, <1>7 DEF List, At, Run
  <2>2. runs' = [runs EXCEPT ![e] = skip] \/ runs' = [runs EXCEPT ![e] = enter]
    BY <1>7 DEF List
  <2>3. skip.rounds = run.rounds /\ skip.stage = NextStage(run.stage)
    BY <1>2 DEF Run
  <2>4. enter.rounds = run.rounds /\ enter.stage = run.stage /\ enter.pc = "handler"
    BY <1>2 DEF Run
  <2> HIDE DEF skip, enter
  <2>5. Pending(skip) = 0
    BY <2>1, <2>3, NextStageOrdered, OrderedStages DEF Pending
  <2>6. Pending(enter) = Pending(run)
    BY <2>1, <2>4 DEF Pending
  <2> QED
    BY <1>3, <2>1, <2>2, <2>3, <2>4, <2>5, <2>6
<1>8. ASSUME NEW e \in Engines, NEW version \in 0 .. MaxVersion, NEW correct \in BOOLEAN,
             NEW finding \in Findings \cup {Nil}, HandlerReturns(e, version, correct, finding)
      PROVE  BudgetInv'
  <2> DEFINE n == [runs[e] EXCEPT !.pc = "append", !.payload = version, !.correct = correct, !.finding = finding]
  <2>1. runs' = [runs EXCEPT ![e] = n] /\ runs[e].pc = "handler" /\ UNCHANGED <<checkpoints, cancel, restarts>>
    BY <1>2, <1>8 DEF HandlerReturns, EngineInv, TypeOK, At
  <2>2. n.pc = "append" /\ n.stage = runs[e].stage /\ n.rounds = runs[e].rounds
    BY <1>2 DEF Run
  <2> HIDE DEF n
  <2>3. Pending(n) = Pending(runs[e])
    BY <2>1, <2>2 DEF Pending
  <2> QED
    BY <1>3, <2>1, <2>2, <2>3
<1>9. ASSUME NEW e \in Engines, Crash(e)
      PROVE  BudgetInv'
  <2>1. NewRun.rounds = 0 /\ Pending(NewRun) = 0
    BY DEF NewRun, Pending
  <2>2. runs' = [runs EXCEPT ![e] = NewRun] /\ checkpoints' = checkpoints /\ restarts' = restarts + 1
    BY <1>9 DEF Crash, Restarting
  <2>3. Pending(NewRun) + runs[e].rounds + b
          <= Pending(runs[e]) + NewRun.rounds + max_corrective_rounds * restarts'
    BY <1>1, <1>2, <2>1, <2>2
  <2>4. NewRun.rounds \in Nat /\ NewRun.rounds <= max_corrective_rounds
    BY <1>1, <2>1
  <2>5. PICK n : n = NewRun
    OBVIOUS
  <2> QED
    BY <2>2, <2>3, <2>4, <2>5, BudgetMoves
<1>10. ASSUME NEW e \in Engines, RunAgain(e)
       PROVE  BudgetInv'
  <2> DEFINE n == [runs[e] EXCEPT !.pc = "idle"]
  <2>1. n.pc = "idle" /\ n.rounds = runs[e].rounds
    BY <1>2 DEF Run
  <2>2. runs' = [runs EXCEPT ![e] = n] /\ checkpoints' = checkpoints /\ restarts' = restarts + 1
    BY <1>10 DEF RunAgain, Restarting
  <2> HIDE DEF n
  <2>3. Pending(n) = 0
    BY <2>1 DEF Pending
  <2>4. Pending(n) + runs[e].rounds + b
          <= Pending(runs[e]) + n.rounds + max_corrective_rounds * restarts'
    BY <1>1, <1>2, <2>1, <2>2, <2>3
  <2> QED
    BY <1>1, <1>2, <2>1, <2>2, <2>4, BudgetMoves
<1>11. CASE CancelWorkflow \/ UNCHANGED vars
  BY <1>11 DEF CancelWorkflow, vars, BudgetInv, Corrections, StageOf, Pending
<1> QED
  BY <1>5, <1>6, <1>7, <1>8, <1>9, <1>10, <1>11, StoredBudgeted DEF Next, Step

(* No engine stores more corrective rounds than its WorkflowRuns were allowed *)
(* to start, for a caller that does not itself start a run in the corrective  *)
(* stage: such a round would be stored without having been counted.          *)
THEOREM CorrectionsBudgetedAlways ==
  ASSUME StartStage # "corrective_round"
  PROVE  Spec => []CorrectionsBudgeted
<1>1. Init => BudgetInv
  <2> SUFFICES ASSUME Init, NEW e \in Engines
               PROVE  /\ runs[e].rounds <= max_corrective_rounds
                      /\ Cardinality(Corrections(e)) + Pending(runs[e])
                           <= runs[e].rounds + max_corrective_rounds * restarts
    BY DEF BudgetInv
  <2>1. Corrections(e) = {} /\ runs[e] = NewRun /\ restarts = 0
    BY DEF Init, Corrections
  <2>2. Cardinality(Corrections(e)) = 0
    BY <2>1, FS_EmptySet
  <2>3. NewRun.rounds = 0 /\ Pending(NewRun) = 0
    BY DEF NewRun, Pending
  <2> QED
    BY <2>1, <2>2, <2>3, EngineAssumption
<1>2. EngineInv /\ BudgetInv => CorrectionsBudgeted
  <2> SUFFICES ASSUME EngineInv, BudgetInv, NEW e \in Engines
               PROVE  Cardinality(Corrections(e)) <= max_corrective_rounds * (1 + restarts)
    BY DEF CorrectionsBudgeted, Corrections
  <2> DEFINE b == max_corrective_rounds * restarts
  <2>1. restarts \in Nat /\ max_corrective_rounds \in Nat
    BY EngineAssumption DEF EngineInv, TypeOK
  <2>2. b \in Nat /\ max_corrective_rounds * (1 + restarts) = b + max_corrective_rounds
    BY <2>1, Times
  <2>3. Cardinality(Corrections(e)) \in Nat /\ Pending(runs[e]) \in {0, 1} /\ runs[e].rounds \in Nat
    BY CorrectionsFinite DEF EngineInv, Pending, TypeOK, Run
  <2>4. /\ runs[e].rounds <= max_corrective_rounds
        /\ Cardinality(Corrections(e)) + Pending(runs[e]) <= runs[e].rounds + b
    BY DEF BudgetInv
  <2> HIDE DEF b
  <2> QED
    BY <2>1, <2>2, <2>3, <2>4
<1>3. EngineInv /\ BudgetInv /\ [Next]_vars => BudgetInv'
  BY BudgetStep
<1> QED
  BY <1>1, <1>2, <1>3, EngineInvAlways, PTL DEF Spec
-----------------------------------------------------------------------------
(* A run winds down: the safety half of RunsEnd. *)

(* Stages a run still has before it, if nothing asks for a correction. *)
StagesLeft(stage) ==
  IF stage \in Ends THEN 0
  ELSE IF stage = "corrective_round" THEN 7 ELSE 16 - Position(stage)

Awake(run) == run.pc \in {"loop", "handler", "append"}

(* The steps a run may still take: three per stage, and a corrective round   *)
(* takes a run back by fewer than eight stages.                             *)
Fuel(run) ==
  IF Awake(run)
  THEN 3 * (8 * (max_corrective_rounds - run.rounds) + StagesLeft(run.stage))
         + (IF run.pc = "loop" THEN 3 ELSE IF run.pc = "handler" THEN 2 ELSE 1)
  ELSE 0

MaxFuel == 3 * (8 * max_corrective_rounds + 15) + 3

RoundsHeld == \A e \in Engines : runs[e].rounds <= max_corrective_rounds

WindDownStep ==
  \A e \in Engines : Awake(runs[e]) /\ runs'[e] # runs[e] =>
    \/ Fuel(runs'[e]) < Fuel(runs[e])
    \/ runs'[e] = NewRun /\ restarts' = restarts + 1

LEMMA StagesLeftNext ==
  ASSUME NEW stage \in WorkingStages
  PROVE  /\ StagesLeft(stage) \in 1 .. 15
         /\ StagesLeft(NextStage(stage)) = StagesLeft(stage) - 1
<1>1. /\ DOMAIN ORDER = 1 .. 16
      /\ ORDER[10] = "run_tests" /\ ORDER[16] = "completed"
  BY DEF ORDER
<1>2. \A i, j \in 1 .. 16 : ORDER[i] = ORDER[j] => i = j
  BY DEF ORDER
<1>3. \A i \in 1 .. 16 : Position(ORDER[i]) = i
  <2> SUFFICES ASSUME NEW i \in 1 .. 16 PROVE Position(ORDER[i]) = i
    OBVIOUS
  <2>1. Position(ORDER[i]) \in 1 .. 16 /\ ORDER[Position(ORDER[i])] = ORDER[i]
    BY <1>1 DEF Position
  <2> QED
    BY <1>2, <2>1
<1>4. \A i \in 1 .. 16 : StagesLeft(ORDER[i]) = 16 - i
  <2> SUFFICES ASSUME NEW i \in 1 .. 16 PROVE StagesLeft(ORDER[i]) = 16 - i
    OBVIOUS
  <2>1. ORDER[i] \in Ordered
    BY <1>1 DEF Ordered
  <2>2. CASE i = 16
    BY <1>1, <2>2 DEF StagesLeft, Ends
  <2>3. CASE i # 16
    <3>1. ORDER[i] # "completed"
      BY <1>1, <1>2, <2>3
    <3>2. ORDER[i] \in WorkingStages
      BY <2>1, <3>1 DEF WorkingStages
    <3>3. ORDER[i] \notin Ends /\ ORDER[i] # "corrective_round"
      BY <2>1, <3>2, OrderedStages
    <3> QED
      BY <1>3, <3>3 DEF StagesLeft
  <2> QED
    BY <2>2, <2>3
<1>5. CASE stage = "corrective_round"
  <2>1. StagesLeft(stage) = 7
    BY <1>5, OrderedStages DEF StagesLeft
  <2>2. NextStage(stage) = ORDER[10]
    BY <1>1, <1>5 DEF NextStage
  <2>3. StagesLeft(ORDER[10]) = 6
    BY <1>4
  <2> QED
    BY <2>1, <2>2, <2>3
<1>6. CASE stage # "corrective_round"
  <2>1. stage \in Ordered /\ stage # "completed"
    BY <1>6 DEF WorkingStages
  <2>2. PICK i \in 1 .. 16 : ORDER[i] = stage
    BY <1>1, <2>1 DEF Ordered
  <2>3. i \in 1 .. 15
    BY <1>1, <2>1, <2>2
  <2>4. NextStage(stage) = ORDER[i + 1]
    BY <1>3, <1>6, <2>2 DEF NextStage
  <2>5. StagesLeft(stage) = 16 - i /\ StagesLeft(ORDER[i + 1]) = 16 - (i + 1)
    BY <1>4, <2>2, <2>3
  <2> QED
    BY <2>3, <2>4, <2>5
<1> QED
  BY <1>5, <1>6

(* What a step makes of the pc, the stage and the rounds of one run. *)
RunMove(a, b) ==
  \/ a.pc \in {"loop", "handler", "append"} /\ b.pc = "ended" /\ b.rounds = a.rounds
  \/ a.pc = "idle" /\ b.pc = "loop" /\ b.rounds = a.rounds
  \/ a.pc \in {"loop", "append"} /\ b.pc = "loop" /\ b.rounds = a.rounds
       /\ a.stage \in WorkingStages /\ b.stage = NextStage(a.stage)
  \/ /\ <<a.pc, b.pc>> \in {<<"loop", "handler">>, <<"handler", "append">>}
     /\ a.stage \in WorkingStages /\ b.stage = a.stage /\ b.rounds = a.rounds
  \/ /\ a.pc = "append" /\ b.pc = "loop" /\ a.stage \in WorkingStages
     /\ b.stage = "corrective_round" /\ b.rounds = a.rounds + 1 /\ a.rounds < max_corrective_rounds

LEMMA RunMovesOn ==
  ASSUME EngineInv, [Next]_vars, NEW e \in Engines
  PROVE  \/ runs'[e] = runs[e]
         \/ RunMove(runs[e], runs'[e])
         \/ runs'[e] = NewRun /\ restarts' = restarts + 1
         \/ runs[e].pc = "ended" /\ runs'[e] = [runs[e] EXCEPT !.pc = "idle"]
<1>1. /\ runs \in [Engines -> Run] /\ runs[e] \in Run
      /\ runs[e].pc \in {"handler", "append"} => runs[e].stage \in WorkingStages
  BY DEF EngineInv, TypeOK, OnPath
<1>2. ASSUME NEW d \in Engines, NEW n, runs' = [runs EXCEPT ![d] = n], runs'[e] # runs[e]
      PROVE  d = e /\ runs'[e] = n
  BY <1>1, <1>2
<1>3. ASSUME NEW d \in Engines, NEW pc \in {"loop", "ended"}, NEW stage \in WorkingStages \cup Ends,
             GoTo(d, pc, stage), runs'[e] # runs[e]
      PROVE  d = e /\ runs'[e].pc = pc /\ runs'[e].stage = stage /\ runs'[e].rounds = runs[e].rounds
  <2> DEFINE m == [runs[d] EXCEPT !.pc = pc, !.stage = stage]
  <2>1. d = e /\ runs'[e] = Settled(m)
    BY <1>2, <1>3 DEF GoTo
  <2>2. m \in Run /\ m.pc = pc /\ m.stage = stage /\ m.rounds = runs[e].rounds
    BY <1>1, <2>1 DEF Run
  <2> HIDE DEF m
  <2> QED
    BY <2>1, <2>2, SettledTyped
<1> SUFFICES ASSUME runs'[e] # runs[e]
             PROVE  \/ RunMove(runs[e], runs'[e])
                    \/ runs'[e] = NewRun /\ restarts' = restarts + 1
                    \/ runs[e].pc = "ended" /\ runs'[e] = [runs[e] EXCEPT !.pc = "idle"]
  OBVIOUS
<1>4. ASSUME NEW d \in Engines, Resume(d)
      PROVE  RunMove(runs[e], runs'[e])
  <2> DEFINE stage == IF checkpoints = <<>> THEN runs[d].stage
                      ELSE NextStage(checkpoints[Len(checkpoints)].stage)
  <2>1. stage \in WorkingStages \cup Ends
    <3>1. CASE checkpoints = <<>>
      BY <1>1, <3>1 DEF Run
    <3>2. CASE checkpoints # <<>>
      <4>1. Len(checkpoints) \in DOMAIN checkpoints
        BY <3>2 DEF EngineInv, TypeOK
      <4> QED
        BY <3>2, <4>1, NextReached, OrderedStages DEF StageOf
    <3> QED
      BY <3>1, <3>2
  <2>2. GoTo(d, "loop", stage) /\ runs[d].pc = "idle"
    BY <1>4 DEF Resume, At
  <2> HIDE DEF stage
  <2>3. d = e /\ runs'[e].pc = "loop" /\ runs'[e].rounds = runs[e].rounds
    BY <1>3, <2>1, <2>2
  <2> QED
    BY <2>2, <2>3 DEF RunMove
<1>5. ASSUME NEW d \in Engines, NEW stage \in WorkingStages \cup Ends, GoTo(d, "ended", stage),
             runs[d].pc \in {"loop", "handler"}
      PROVE  RunMove(runs[e], runs'[e])
  BY <1>3, <1>5 DEF RunMove
<1>6. \A d \in Engines : runs[d].stage \in WorkingStages \cup Ends
  BY <1>1 DEF Run
<1>7. "failed" \in Ends /\ "cancelled" \in Ends
  BY DEF Ends
<1>8. ASSUME NEW d \in Engines, Loop(d) \/ DeadlinePasses(d)
      PROVE  RunMove(runs[e], runs'[e])
  <2>1. runs[d].pc = "loop" /\ \E stage \in WorkingStages \cup Ends : GoTo(d, "ended", stage)
    BY <1>6, <1>7, <1>8 DEF Loop, DeadlinePasses, At
  <2> QED
    BY <1>5, <2>1
<1>9. ASSUME NEW d \in Engines, NEW denied \in BOOLEAN, HandlerStops(d, denied)
      PROVE  RunMove(runs[e], runs'[e])
  <2>1. runs[d].pc = "handler" /\ \E stage \in WorkingStages \cup Ends : GoTo(d, "ended", stage)
    BY <1>6, <1>7, <1>9 DEF HandlerStops, At
  <2> QED
    BY <1>5, <2>1
<1>10. ASSUME NEW d \in Engines, List(d)
       PROVE  RunMove(runs[e], runs'[e])
  <2> DEFINE skip == [runs[d] EXCEPT !.pc = "loop", !.stage = NextStage(runs[d].stage)]
             enter == [runs[d] EXCEPT !.pc = "handler", !.input = runs[d].payload,
                                      !.existing = Len(checkpoints)]
  <2>1. \E n \in {skip, enter} : runs' = [runs EXCEPT ![d] = n]
    BY <1>10 DEF List
  <2>2. d = e /\ runs'[e] \in {skip, enter}
    BY <1>2, <2>1
  <2>3. runs[d].pc = "loop" /\ runs[d].stage \in WorkingStages
    BY <1>6, <1>10 DEF List, At
  <2>4. /\ skip.pc = "loop" /\ skip.stage = NextStage(runs[d].stage) /\ skip.rounds = runs[d].rounds
        /\ enter.pc = "handler" /\ enter.stage = runs[d].stage /\ enter.rounds = runs[d].rounds
    BY <1>1, <2>2 DEF Run
  <2> HIDE DEF skip, enter
  <2>5. CASE runs'[e] = skip
    BY <2>2, <2>3, <2>4, <2>5 DEF RunMove
  <2>6. CASE runs'[e] = enter
    BY <2>2, <2>3, <2>4, <2>6 DEF RunMove
  <2> QED
    BY <2>2, <2>5, <2>6
<1>11. ASSUME NEW d \in Engines, NEW version \in 0 .. MaxVersion, NEW correct \in BOOLEAN,
              NEW finding \in Findings \cup {Nil}, HandlerReturns(d, version, correct, finding)
       PROVE  RunMove(runs[e], runs'[e])
  <2> DEFINE n == [runs[d] EXCEPT !.pc = "append", !.payload = version, !.correct = correct,
                                  !.finding = finding]
  <2>1. runs' = [runs EXCEPT ![d] = n] /\ runs[d].pc = "handler"
    BY <1>1, <1>11 DEF HandlerReturns, At
  <2>2. d = e /\ runs'[e] = n
    BY <1>2, <2>1
  <2>3. n.pc = "append" /\ n.stage = runs[e].stage /\ n.rounds = runs[e].rounds
    BY <1>1, <2>2 DEF Run
  <2> HIDE DEF n
  <2> QED
    BY <1>1, <2>1, <2>2, <2>3 DEF RunMove
<1>12. ASSUME NEW d \in Engines, AppendCheckpoint(d)
       PROVE  RunMove(runs[e], runs'[e])
  <2> DEFINE stop == [runs[d] EXCEPT !.pc = "ended"]
  <2>1. /\ runs[d].pc = "append"
        /\ \E n \in {Settled(Advanced(runs[d])), Settled(stop)} : runs' = [runs EXCEPT ![d] = n]
    BY <1>12 DEF AppendCheckpoint, At
  <2>2. d = e /\ runs'[e] \in {Settled(Advanced(runs[d])), Settled(stop)}
    BY <1>2, <2>1
  <2>3. stop \in Run /\ stop.pc = "ended" /\ stop.rounds = runs[e].rounds
    BY <1>1, <2>2 DEF Run
  <2> HIDE DEF stop
  <2>4. CASE runs'[e] = Settled(stop)
    BY <2>1, <2>2, <2>3, <2>4, SettledTyped DEF RunMove
  <2>5. CASE runs'[e] = Settled(Advanced(runs[e]))
    BY <1>1, <2>1, <2>2, <2>5, AdvancedTyped DEF RunMove
  <2> QED
    BY <2>2, <2>4, <2>5
<1>13. ASSUME NEW d \in Engines, Crash(d)
       PROVE  runs'[e] = NewRun /\ restarts' = restarts + 1
  BY <1>2, <1>13 DEF Crash, Restarting
<1>14. ASSUME NEW d \in Engines, RunAgain(d)
       PROVE  runs[e].pc = "ended" /\ runs'[e] = [runs[e] EXCEPT !.pc = "idle"]
  BY <1>2, <1>14 DEF RunAgain, At
<1>15. ~ (CancelWorkflow \/ UNCHANGED vars)
  BY DEF CancelWorkflow, vars
<1> QED
  BY <1>4, <1>8, <1>9, <1>10, <1>11, <1>12, <1>13, <1>14, <1>15 DEF Next, Step

(* The measure is what its name says. *)
LEMMA FuelBounded ==
  ASSUME NEW run \in Run, run.rounds <= max_corrective_rounds
  PROVE  Fuel(run) \in 0 .. MaxFuel /\ (Awake(run) => Fuel(run) > 0)
<1>1. run.rounds \in Nat /\ max_corrective_rounds \in Nat /\ run.stage \in WorkingStages \cup Ends
  BY EngineAssumption DEF Run
<1>2. StagesLeft(run.stage) \in 0 .. 15
  <2>1. CASE run.stage \in Ends
    BY <2>1 DEF StagesLeft
  <2> QED
    BY <1>1, <2>1, StagesLeftNext
<1> QED
  BY <1>1, <1>2 DEF Fuel, MaxFuel

LEMMA FuelSpent ==
  ASSUME NEW a \in Run, NEW b \in Run, a.rounds <= max_corrective_rounds, RunMove(a, b)
  PROVE  b.rounds <= max_corrective_rounds /\ (Awake(a) => Fuel(b) < Fuel(a))
<1>1. a.rounds \in Nat /\ b.rounds \in Nat /\ max_corrective_rounds \in Nat
  BY EngineAssumption DEF Run
<1>2. b.rounds <= max_corrective_rounds
  BY <1>1 DEF RunMove
<1>3. Awake(a) => Fuel(a) > 0 /\ Fuel(a) \in Nat
  BY FuelBounded
<1> SUFFICES ASSUME Awake(a) PROVE Fuel(b) < Fuel(a)
  BY <1>2
<1>4. CASE b.pc = "ended"
  <2>1. Fuel(b) = 0
    BY <1>4 DEF Fuel, Awake
  <2> QED
    BY <1>3, <2>1
<1>5. CASE b.pc # "ended"
  <2>1. a.stage \in WorkingStages
    BY <1>5 DEF RunMove, Awake
  <2>2. StagesLeft(a.stage) \in 1 .. 15 /\ StagesLeft(NextStage(a.stage)) = StagesLeft(a.stage) - 1
    BY <2>1, StagesLeftNext
  <2>3. StagesLeft("corrective_round") = 7
    BY OrderedStages DEF StagesLeft
  <2>4. CASE a.pc \in {"loop", "append"} /\ b.pc = "loop" /\ b.rounds = a.rounds
             /\ b.stage = NextStage(a.stage)
    BY <1>1, <2>2, <2>4 DEF Fuel, Awake
  <2>5. CASE <<a.pc, b.pc>> \in {<<"loop", "handler">>, <<"handler", "append">>}
             /\ b.stage = a.stage /\ b.rounds = a.rounds
    BY <1>1, <2>2, <2>5 DEF Fuel, Awake
  <2>6. CASE a.pc = "append" /\ b.pc = "loop" /\ b.stage = "corrective_round"
             /\ b.rounds = a.rounds + 1 /\ a.rounds < max_corrective_rounds
    BY <1>1, <2>2, <2>3, <2>6 DEF Fuel, Awake
  <2> QED
    BY <1>5, <2>4, <2>5, <2>6 DEF RunMove, Awake
<1> QED
  BY <1>4, <1>5

(* No run goes on for ever, whatever its handlers answer and whatever other   *)
(* engines store meanwhile: each of its own steps uses up some of a measure   *)
(* bounded by the correction budget, until it ends or its process dies. With  *)
(* the fairness of FairSpec that is RunsEnd.                                 *)
THEOREM RunsWindDown ==
  Spec => /\ [](\A e \in Engines : Fuel(runs[e]) \in 0 .. MaxFuel)
          /\ [][WindDownStep]_vars
<1>1. Init => RoundsHeld
  BY EngineAssumption DEF Init, NewRun, RoundsHeld
<1>2. EngineInv /\ EngineInv' /\ RoundsHeld /\ [Next]_vars => RoundsHeld' /\ WindDownStep
  <2> SUFFICES ASSUME EngineInv, EngineInv', RoundsHeld, [Next]_vars, NEW e \in Engines
               PROVE  /\ runs'[e].rounds <= max_corrective_rounds
                      /\ Awake(runs[e]) /\ runs'[e] # runs[e] =>
                           \/ Fuel(runs'[e]) < Fuel(runs[e])
                           \/ runs'[e] = NewRun /\ restarts' = restarts + 1
    BY DEF RoundsHeld, WindDownStep
  <2>1. runs[e] \in Run /\ runs'[e] \in Run /\ runs[e].rounds <= max_corrective_rounds
    BY DEF EngineInv, TypeOK, RoundsHeld
  <2>2. CASE runs'[e] = runs[e]
    BY <2>1, <2>2
  <2>3. CASE RunMove(runs[e], runs'[e])
    BY <2>1, <2>3, FuelSpent
  <2>4. CASE runs'[e] = NewRun /\ restarts' = restarts + 1
    BY <2>4, EngineAssumption DEF NewRun
  <2>5. CASE runs[e].pc = "ended" /\ runs'[e] = [runs[e] EXCEPT !.pc = "idle"]
    BY <2>1, <2>5 DEF Run, Awake
  <2> QED
    BY <2>2, <2>3, <2>4, <2>5, RunMovesOn
<1>3. EngineInv /\ RoundsHeld => \A e \in Engines : Fuel(runs[e]) \in 0 .. MaxFuel
  BY FuelBounded DEF EngineInv, TypeOK, RoundsHeld
<1> QED
  BY <1>1, <1>2, <1>3, EngineInvAlways, PTL DEF Spec
=============================================================================
