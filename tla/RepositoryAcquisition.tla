------------------------ MODULE RepositoryAcquisition ------------------------
(***************************************************************************)
(* RepositoryAcquirer.acquire on one destination directory, called again    *)
(* after it failed, perhaps for another commit. A call runs git init, fetch *)
(* and checkout one after the other. A timeout or a cancellation ends the   *)
(* call and not the git process it waits for (leftover).                    *)
(***************************************************************************)
EXTENDS Naturals

CONSTANTS
  Shas,          \* base commits
  MaxAcquires,   \* bound: calls of acquire
  NoSha

ASSUME AcquisitionAssumption == NoSha \notin Shas /\ MaxAcquires \in Nat

Commands == {"init", "fetch", "checkout"}

Process == [command: Commands, sha: Shas]

VARIABLES
  acquire,      \* the call: its step and base_sha, and the calls made so far
  destination,  \* [git, objects, head, tree]: the directory's content
  leftover,     \* git processes nobody waits for
  delivered     \* history: the commit of a call that returned the directory

acquisition == <<acquire, destination, leftover, delivered>>

AnySha == Shas \cup {NoSha}

(* tree is "partial" while a checkout writes the files. *)
AcquisitionTypeOK ==
  /\ acquire \in [pc: {"idle", "validate"} \cup Commands, sha: AnySha, calls: 0 .. MaxAcquires]
  /\ destination \in [git: BOOLEAN, objects: SUBSET Shas, head: AnySha,
                      tree: AnySha \cup {"partial"}]
  /\ leftover \subseteq Process
  /\ delivered \in AnySha

AcquisitionInit ==
  /\ acquire = [pc |-> "idle", sha |-> NoSha, calls |-> 0]
  /\ destination = [git |-> FALSE, objects |-> {}, head |-> NoSha, tree |-> NoSha]
  /\ leftover = {}
  /\ delivered = NoSha

-----------------------------------------------------------------------------
(* Allowlist, URL and SHA checks raise before anything happens; then the    *)
(* destination must be empty.                                               *)
PreparedAnyhow(acceptable) == acceptable
Prepared(acceptable) == acceptable /\ ~destination.git

StartAcquire(sha, acceptable) ==
  /\ acquire.pc = "idle" /\ acquire.calls < MaxAcquires
  /\ acquire' = IF Prepared(acceptable)
                THEN [pc |-> "init", sha |-> sha, calls |-> acquire.calls + 1]
                ELSE [acquire EXCEPT !.calls = @ + 1]
  /\ UNCHANGED <<destination, leftover, delivered>>

(* What a git process does to the directory. A fetch without a repository   *)
(* or a checkout without the commit fails and changes nothing.              *)
GitEffect(process) ==
  CASE process.command = "init" -> [destination EXCEPT !.git = TRUE]
    [] process.command = "fetch" /\ destination.git ->
         [destination EXCEPT !.objects = @ \cup {process.sha}]
    [] process.command = "checkout" /\ process.sha \in destination.objects ->
         [destination EXCEPT !.head = process.sha, !.tree = process.sha]
    [] OTHER -> destination

Current == [command |-> acquire.pc, sha |-> acquire.sha]

Following(command) ==
  CASE command = "init" -> "fetch" [] command = "fetch" -> "checkout"
    [] command = "checkout" -> "validate"

GitSucceeds ==
  /\ acquire.pc \in Commands
  /\ acquire.pc = "checkout" => acquire.sha \in destination.objects
  /\ destination' = GitEffect(Current)
  /\ acquire' = [acquire EXCEPT !.pc = Following(@)]
  /\ UNCHANGED <<leftover, delivered>>

Closed == [acquire EXCEPT !.pc = "idle", !.sha = NoSha]

(* A checkout that stops half-way leaves a part of the files. *)
PartlyDone == {destination, [destination EXCEPT !.tree = IF Current.command = "checkout"
                                                         THEN "partial" ELSE @]}

(* A non-zero exit code. *)
GitFails ==
  /\ acquire.pc \in Commands
  /\ destination' \in PartlyDone \cup {GitEffect(Current)}
  /\ acquire' = Closed
  /\ UNCHANGED <<leftover, delivered>>

(* wait_for times out, or the call is cancelled; git goes on. *)
TimesOut ==
  /\ acquire.pc \in Commands
  /\ destination' \in PartlyDone
  /\ leftover' = leftover \cup {Current}
  /\ acquire' = Closed
  /\ UNCHANGED delivered

LeftoverEnds ==
  \E process \in leftover :
    /\ destination' \in {destination, GitEffect(process)}
    /\ leftover' = leftover \ {process}
    /\ UNCHANGED <<acquire, delivered>>

(* _validate_checkout: file and byte limits, escaping links. *)
Validate(acceptable) ==
  /\ acquire.pc = "validate"
  /\ delivered' = IF acceptable THEN acquire.sha ELSE delivered
  /\ acquire' = Closed
  /\ UNCHANGED <<destination, leftover>>

AcquisitionNext ==
  \/ \E sha \in Shas, acceptable \in BOOLEAN : StartAcquire(sha, acceptable)
  \/ GitSucceeds \/ GitFails \/ TimesOut \/ LeftoverEnds
  \/ \E acceptable \in BOOLEAN : Validate(acceptable)

AcquisitionSpec == AcquisitionInit /\ [][AcquisitionNext]_acquisition

-----------------------------------------------------------------------------
(* A directory that was returned holds the commit it was asked for, whole,  *)
(* and keeps it: no git process of an earlier call that timed out, perhaps  *)
(* for another commit, and no later call changes it (acquire).              *)
CheckoutKept ==
  delivered # NoSha => destination.head = delivered /\ destination.tree = delivered
=============================================================================
