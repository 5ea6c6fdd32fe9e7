--------------------------- MODULE WorkspaceTools ---------------------------
(***************************************************************************)
(* One tool call on a task's workspace: ToolRegistry.execute in front of   *)
(* FilesystemTools.apply_patch and CommandRunner.run.                       *)
(*                                                                         *)
(* apply_patch hands every file operation to a thread. Cancelling the call  *)
(* does not stop a thread that has started, so an operation may take effect *)
(* after the rollback that was meant to undo it (strays). Directories and   *)
(* file modes are left out; the read-only tools change nothing.             *)
(***************************************************************************)
EXTENDS Naturals, Sequences

CONSTANTS
  Paths,       \* files of the workspace a patch may name
  Existing,    \* the ones there at the start
  Protected,   \* FilesystemPolicy.protected_paths among them
  MaxFiles,    \* bound: files in one patch
  Nil

ASSUME ToolsAssumption == Existing \subseteq Paths /\ Protected \subseteq Paths
                          /\ MaxFiles \in Nat \ {0}

Absent == "absent"
Contents == {"empty", "old", "new"}

\* The registered tools that change the workspace (builtins.py) and whether
\* they need an approval id.
ApprovalRequired == [apply_patch |-> TRUE, run_command |-> TRUE, run_tests |-> FALSE]
Tools == DOMAIN ApprovalRequired

\* A StructuredPatchFile; base and content are Nil where the field is None.
PatchFile == [path: Paths, base: {Nil, "empty", "old"}, content: {Nil, "new", "binary"},
              delete: {FALSE}]
             \cup [path: Paths, base: {Nil, "empty", "old"}, content: {Nil}, delete: {TRUE}]

VARIABLES
  job,      \* the call: its program counter, input and local variables
  disk,     \* content of each path
  temps,    \* content of each path's .mezo-tmp file
  strays,   \* operations of cancelled awaits that still run in their thread
  process   \* the command's process group

tools == <<job, disk, temps, strays, process>>

Operation == [op: {"write_temp", "replace", "unlink", "restore"}, path: Paths,
              content: Contents \cup {Absent}]

Patches == UNION {[1 .. n -> PatchFile] : n \in 1 .. MaxFiles}

ToolsTypeOK ==
  /\ job.pc \in {"idle", "read", "write", "restore", "wait", "reap", "done", "raised"}
  /\ job.files \in Patches \cup {<<>>}
  /\ job.at \in 1 .. MaxFiles + 1
  /\ job.temp \in BOOLEAN /\ job.interrupted \in BOOLEAN /\ job.broken \in BOOLEAN
  /\ job.reason \in {"none", "refused", "error", "cancelled", "timeout"}
  /\ job.originals \in [Paths -> Contents \cup {Absent, Nil}]
  /\ disk \in [Paths -> Contents \cup {Absent}]
  /\ temps \in [Paths -> Contents \cup {Absent}]
  /\ strays \subseteq Operation
  /\ process \in [leader: {"none", "running", "exited"},
                  child: {"none", "attached", "detached", "gone"},
                  cancelled: BOOLEAN, late: BOOLEAN, signalled: BOOLEAN, stubborn: BOOLEAN]

ToolsInit ==
  /\ job = [pc |-> "idle", files |-> <<>>, at |-> 1, temp |-> FALSE, interrupted |-> FALSE,
             broken |-> FALSE, reason |-> "none", originals |-> [p \in Paths |-> Nil]]
  /\ disk = [p \in Paths |-> IF p \in Existing THEN "old" ELSE Absent]
  /\ temps = [p \in Paths |-> Absent]
  /\ strays = {}
  /\ process = [leader |-> "none", child |-> "none", cancelled |-> FALSE, late |-> FALSE,
                signalled |-> FALSE, stubborn |-> FALSE]

Raise(reason) == job' = [job EXCEPT !.pc = "raised", !.reason = reason]

-----------------------------------------------------------------------------
(* ToolRegistry.execute: the checks before the executor, in its order. *)
Refused(tool, permitted, approval_id) ==
  ~permitted \/ (ApprovalRequired[tool] /\ ~approval_id)

Refuse(tool, permitted, approval_id) ==
  /\ job.pc = "idle" /\ Refused(tool, permitted, approval_id)
  /\ Raise("refused")
  /\ UNCHANGED <<disk, temps, strays, process>>

(* apply_patch up to its first await: size limit and path policy. *)
StartPatch(permitted, approval_id, files, small, approved) ==
  /\ job.pc = "idle" /\ ~Refused("apply_patch", permitted, approval_id)
  /\ IF small /\ (approved \/ \A i \in DOMAIN files : files[i].path \notin Protected)
     THEN job' = [job EXCEPT !.pc = "read", !.files = files]
     ELSE Raise("error")
  /\ UNCHANGED <<disk, temps, strays, process>>

Hash(original) == IF original = Absent THEN "empty" ELSE original

(* Every file is read and compared before the first write. *)
ReadContext ==
  LET file == job.files[job.at]
      original == disk[file.path]
      last == job.at = Len(job.files)
  IN  /\ job.pc = "read"
      /\ IF file.base \notin {Nil, Hash(original)} \/ file.content = "binary"
         THEN Raise("error")
         ELSE job' = [job EXCEPT !.originals[file.path] = original,
                                   !.pc = IF last THEN "write" ELSE "read",
                                   !.at = IF last THEN 1 ELSE @ + 1]
      /\ UNCHANGED <<disk, temps, strays, process>>

ReadFails ==
  /\ job.pc = "read"
  /\ Raise("error")
  /\ UNCHANGED <<disk, temps, strays, process>>

-----------------------------------------------------------------------------
(* The write loop. *)
File == job.files[job.at]

Writing == job.pc = "write" /\ job.at <= Len(job.files)

\* The operation the call awaits.
Awaited ==
  IF job.pc = "restore"
  THEN LET p == File.path
       IN  [op |-> IF job.originals[p] = Absent THEN "unlink" ELSE "restore",
            path |-> p, content |-> job.originals[p]]
  ELSE [op |-> IF File.delete THEN "unlink" ELSE IF job.temp THEN "replace" ELSE "write_temp",
        path |-> File.path, content |-> IF File.delete THEN Absent ELSE File.content]

\* Nothing to await: the file to remove is not there.
NothingToUnlink == Awaited.op = "unlink" /\ disk[Awaited.path] = Absent

\* What an operation does to the disk; a replace or an unlink whose file has
\* gone raises and changes nothing.
Effect(o) ==
  CASE o.op = "write_temp" -> /\ temps' = [temps EXCEPT ![o.path] = o.content]
                              /\ UNCHANGED disk
    [] o.op = "replace" /\ temps[o.path] # Absent ->
                              /\ disk' = [disk EXCEPT ![o.path] = temps[o.path]]
                              /\ temps' = [temps EXCEPT ![o.path] = Absent]
    [] o.op = "unlink" -> disk' = [disk EXCEPT ![o.path] = Absent] /\ UNCHANGED temps
    [] o.op = "restore" -> disk' = [disk EXCEPT ![o.path] = o.content] /\ UNCHANGED temps
    [] OTHER -> UNCHANGED <<disk, temps>>

Advanced ==
  IF Awaited.op = "write_temp" THEN [job EXCEPT !.temp = TRUE]
  ELSE IF job.at = Len(job.files) THEN [job EXCEPT !.pc = "done", !.temp = FALSE]
  ELSE [job EXCEPT !.at = @ + 1, !.temp = FALSE]

ContentMissing == ~File.delete /\ File.content = Nil

WriteStep ==
  /\ Writing /\ ~ContentMissing
  /\ IF NothingToUnlink THEN UNCHANGED <<disk, temps>> ELSE Effect(Awaited)
  /\ job' = Advanced
  /\ UNCHANGED <<strays, process>>

\* The except branch starts to restore the files that were read, in the order
\* they were read first.
RolledBackFrom(interrupted) ==
  [job EXCEPT !.pc = "restore", !.interrupted = interrupted]

RolledBack(interrupted) ==
  [job EXCEPT !.pc = "restore", !.at = 1, !.interrupted = interrupted]

\* A file has neither content nor delete.
RejectContentless ==
  /\ Writing /\ ContentMissing
  /\ job' = RolledBack(FALSE)
  /\ UNCHANGED <<disk, temps, strays, process>>

\* A thread operation raises; a temporary may be left half written.
WriteFails ==
  /\ Writing /\ ~ContentMissing /\ ~NothingToUnlink
  /\ job' = RolledBack(FALSE)
  /\ \/ UNCHANGED temps
     \/ Awaited.op = "write_temp" /\ temps' = [temps EXCEPT ![Awaited.path] = "empty"]
  /\ UNCHANGED <<disk, strays, process>>

\* The call is cancelled at an await: the thread has finished, has yet to
\* finish, or never starts.
Disowned ==
  \/ Effect(Awaited) /\ UNCHANGED strays
  \/ strays' = strays \cup {Awaited} /\ UNCHANGED <<disk, temps>>
  \/ UNCHANGED <<disk, temps, strays>>

WriteInterrupted ==
  /\ Writing /\ ~ContentMissing /\ ~NothingToUnlink
  /\ job' = RolledBack(TRUE)
  /\ Disowned
  /\ UNCHANGED process

StrayRuns ==
  \E o \in strays :
    /\ Effect(o)
    /\ strays' = strays \ {o}
    /\ UNCHANGED <<job, process>>

-----------------------------------------------------------------------------
(* The rollback. *)
Restoring == job.pc = "restore" /\ job.at <= Len(job.files)

\* originals has one entry per path.
AlreadyRestored == \E i \in 1 .. job.at - 1 : job.files[i].path = File.path

RestoreStep ==
  /\ Restoring
  /\ IF AlreadyRestored \/ NothingToUnlink THEN UNCHANGED <<disk, temps>> ELSE Effect(Awaited)
  /\ job' = [job EXCEPT !.at = @ + 1]
  /\ UNCHANGED <<strays, process>>

Restored ==
  /\ job.pc = "restore" /\ job.at > Len(job.files)
  /\ Raise("error")
  /\ UNCHANGED <<disk, temps, strays, process>>

\* Nothing guards the rollback: an operation of it that raises ends it there,
\* with the later files as they were. write_bytes truncates before it writes.
RestoreFails ==
  /\ Restoring /\ ~AlreadyRestored /\ ~NothingToUnlink
  /\ job' = [job EXCEPT !.pc = "raised", !.reason = "error", !.broken = TRUE]
  /\ \/ UNCHANGED disk
     \/ Awaited.op = "restore" /\ disk' = [disk EXCEPT ![Awaited.path] = "empty"]
  /\ UNCHANGED <<temps, strays, process>>

\* The rollback is cancelled at an await.
RestoreInterrupted ==
  /\ Restoring /\ ~AlreadyRestored /\ ~NothingToUnlink
  /\ job' = [job EXCEPT !.pc = "raised", !.reason = "cancelled", !.interrupted = TRUE]
  /\ Disowned
  /\ UNCHANGED process

-----------------------------------------------------------------------------
(* CommandRunner.run. The process may leave a child behind, which keeps the *)
(* output pipes open (attached) or not (detached), and may ignore SIGTERM   *)
(* (stubborn).                                                              *)

\* The executable, working directory, environment and network checks.
StartCommand(tool, permitted, approval_id, acceptable, stubborn) ==
  /\ job.pc = "idle" /\ ~Refused(tool, permitted, approval_id)
  /\ IF acceptable
     THEN /\ job' = [job EXCEPT !.pc = "wait"]
          /\ process' = [process EXCEPT !.leader = "running", !.stubborn = stubborn]
     ELSE Raise("error") /\ UNCHANGED process
  /\ UNCHANGED <<disk, temps, strays>>

CommunicateDone == process.leader = "exited" /\ process.child # "attached"

\* What the processes do of their own accord; nothing obliges them to.
ProcessSteps ==
  /\ \/ /\ process.leader = "running" /\ process.child = "none"
        /\ \E child \in {"attached", "detached"} : process' = [process EXCEPT !.child = child]
     \/ /\ process.leader = "running"
        /\ process' = [process EXCEPT !.leader = "exited"]
     \/ /\ process.child \in {"attached", "detached"}
        /\ process' = [process EXCEPT !.child = "gone"]
  /\ UNCHANGED <<job, disk, temps, strays>>

\* SIGTERM ends a leader that does not ignore it.
SignalEnds ==
  /\ process.leader = "running" /\ process.signalled /\ ~process.stubborn
  /\ process' = [process EXCEPT !.leader = "exited"]
  /\ UNCHANGED <<job, disk, temps, strays>>

CancellationSet ==
  /\ job.pc = "wait" /\ ~process.cancelled
  /\ process' = [process EXCEPT !.cancelled = TRUE]
  /\ UNCHANGED <<job, disk, temps, strays>>

\* The timeout of asyncio.wait.
TimeoutElapses ==
  /\ job.pc = "wait" /\ ~process.late
  /\ process' = [process EXCEPT !.late = TRUE]
  /\ UNCHANGED <<job, disk, temps, strays>>

Collect ==
  /\ job.pc = "wait" /\ CommunicateDone
  /\ job' = [job EXCEPT !.pc = "done"]
  /\ UNCHANGED <<disk, temps, strays, process>>

WaitReason == IF process.cancelled THEN "cancelled" ELSE "timeout"

\* communicate is not among the finished: signal the group, then wait for the
\* process. An exited leader is not signalled, and neither is its group.
TerminateUnsignalled ==
  /\ job.pc = "wait" /\ ~CommunicateDone /\ (process.cancelled \/ process.late)
  /\ job' = [job EXCEPT !.pc = "reap", !.reason = WaitReason]
  /\ UNCHANGED <<disk, temps, strays, process>>

Terminate ==
  /\ job.pc = "wait" /\ ~CommunicateDone /\ (process.cancelled \/ process.late)
  /\ job' = [job EXCEPT !.pc = "reap", !.reason = WaitReason]
  /\ process' = [process EXCEPT !.signalled = (process.leader = "running")]
  /\ UNCHANGED <<disk, temps, strays>>

\* process.wait has no timeout.
Reap ==
  /\ job.pc = "reap" /\ process.leader = "exited"
  /\ Raise(job.reason)
  /\ UNCHANGED <<disk, temps, strays, process>>

\* The job's own task is cancelled; nothing signals the process.
CommandInterrupted ==
  /\ job.pc \in {"wait", "reap"}
  /\ job' = [job EXCEPT !.pc = "raised", !.reason = "cancelled", !.interrupted = TRUE]
  /\ UNCHANGED <<disk, temps, strays, process>>

-----------------------------------------------------------------------------
PatchProgress == ReadContext \/ WriteStep \/ RejectContentless \/ RestoreStep \/ Restored
PatchFaults == ReadFails \/ WriteFails \/ WriteInterrupted \/ RestoreFails \/ RestoreInterrupted
CommandProgress == Collect \/ Terminate \/ Reap
CommandEvents == ProcessSteps \/ SignalEnds \/ CancellationSet \/ TimeoutElapses

Submit ==
  /\ job.pc = "idle"
  /\ \E permitted, approval_id \in BOOLEAN :
       \/ \E tool \in Tools : Refuse(tool, permitted, approval_id)
       \/ \E small, approved \in BOOLEAN, files \in Patches :
            StartPatch(permitted, approval_id, files, small, approved)
       \/ \E tool \in Tools \ {"apply_patch"}, acceptable, stubborn \in BOOLEAN :
            StartCommand(tool, permitted, approval_id, acceptable, stubborn)

ToolsNext ==
  \/ Submit
  \/ PatchProgress \/ PatchFaults \/ StrayRuns
  \/ CommandProgress \/ CommandEvents \/ CommandInterrupted

ToolsSpec == ToolsInit /\ [][ToolsNext]_tools

(* Threads finish, the event loop resumes what is ready, a timeout elapses   *)
(* and SIGTERM ends a process that does not ignore it. A process need not    *)
(* exit by itself.                                                           *)
ToolsFairness ==
  /\ WF_tools(PatchProgress) /\ WF_tools(CommandProgress)
  /\ WF_tools(TimeoutElapses) /\ WF_tools(SignalEnds)

FairToolsSpec == ToolsSpec /\ ToolsFairness

-----------------------------------------------------------------------------
\* What the patch makes of a path: the last file naming it decides.
Patched(p) ==
  LET mine == {i \in DOMAIN job.files : job.files[i].path = p}
      last == CHOOSE i \in mine : \A j \in mine : j <= i
  IN  IF job.files[last].delete THEN Absent ELSE job.files[last].content

Touched == {job.files[i].path : i \in DOMAIN job.files}

\* File i was not read yet, or has the content it had when it was read.
HasOriginal(i) ==
  LET p == job.files[i].path IN job.originals[p] \in {Nil, disk[p]}

(* A patch that ends without having been cancelled is applied to every file *)
(* it names, with no temporary left, or to none of them, also when it names *)
(* a file twice and when any of its operations fails (apply_patch). Only an *)
(* operation of the rollback that itself raises leaves the patch half done, *)
(* and then every file that comes before it has its original content.       *)
AllOrNothing ==
  (~job.interrupted /\ job.files # <<>>) =>
    /\ (job.pc = "done") => \A p \in Touched : disk[p] = Patched(p) /\ temps[p] = Absent
    /\ (job.pc = "raised") =>
         \A i \in DOMAIN job.files : HasOriginal(i) \/ (job.broken /\ i >= job.at)

\* The call waits, for as long as it takes, for a process that ignored the
\* signal.
HeldByLeader ==
  job.pc = "reap" /\ process.leader = "running" /\ process.signalled /\ process.stubborn

(* Every tool call ends: a patch or its rollback whatever operation fails,   *)
(* and a command although its process need not exit by itself, because the   *)
(* timeout elapses and the signal ends the process. The one exception is a   *)
(* process that ignores SIGTERM, which run awaits without a limit.           *)
ToolCallsEnd == (job.pc # "idle") ~> (job.pc \in {"done", "raised"} \/ HeldByLeader)
=============================================================================
