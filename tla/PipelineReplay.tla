--------------------------- MODULE PipelineReplay ---------------------------
(***************************************************************************)
(* scripts/replay_grh_pipeline.mjs: processes that each replay one snapshot *)
(* into the same state directory, one file-system call at a time wherever  *)
(* another process, or a later one, can see the difference.                *)
(*                                                                         *)
(* A call on the state directory may fail, without effect (at most         *)
(* MaxFaults in a behaviour); a process may be killed between two calls    *)
(* (at most MaxCrashes).  The lock files of a killed process stay: nothing *)
(* in the program removes them, an operator may (at most MaxClears).       *)
(***************************************************************************)
EXTENDS PipelineRules, FiniteSets, Sequences

CONSTANTS MaxFaults, MaxCrashes, MaxClears

ASSUME BoundsAssumption == {MaxFaults, MaxCrashes, MaxClears} \subseteq Nat

VARIABLES
  locks,        \* lock files: the run that made each, None when there is none
  versions,     \* versions/<key>: the run whose bundle it holds, or None
  pending,      \* versions/.pending-<key>-<run>: "none", "unowned" or "owned"
  activations,  \* activations/<key>.json, or None
  pointer,      \* last-known-good.json, or None
  drafts,       \* the .tmp files there are: <<file, run>>
  backup,       \* last-known-good.json.<run>.bak, or None
  receipts,     \* runs/<run>.json: its disposition, or None
  at,           \* where each process stands
  key,          \* the identity it replays
  run,          \* its pipelineRun, None before it is planned
  head,         \* its activationHead
  file,         \* what atomicWriteJson is writing for it
  held,         \* lockReleases, last acquired first
  workspace,    \* the processes whose workspace is there
  failure,      \* the code of caughtFailure, or None
  unclean,      \* cleanupFailures
  answer,       \* what its caller is told in the end, or None
  faults, crashes, clears

directory == <<locks, versions, pending, activations, pointer, drafts, backup, receipts>>
process == <<at, key, run, head, file, held, workspace, failure, unclean, answer>>
bounds == <<faults, crashes, clears>>
vars == <<directory, process, bounds>>

TargetLock == <<"target">>
SnapshotLock(k) == <<"snapshot", k.asOf, k.file>>
LockName == {TargetLock} \cup {SnapshotLock(k) : k \in Identity}

\* what names a publication everywhere: its identity and the run that built it
Ref(k, r) == [key |-> k, run |-> r]
Own(r) == Ref(key[r], r)

\* activations/<key>.json: the run that built the version, and what it followed
Reference == [key : Identity, run : Run]
Activation == [run : Run, previous : Reference \cup {None}]

\* the digests a replay computes follow from its identity: one stands for all
TheDigest == CHOOSE d \in Digest : TRUE

\* what last-known-good.json says is published
PublicationAt(ref) ==
  IF ref = None THEN None ELSE [key |-> ref.key, bundle |-> TheDigest, run |-> ref.run]

BlockedCode == {"DUPLICATE_STATE_INVALID", "LOCKED", "ROLLBACK_BLOCKED", "SOURCE_CONFLICT"}
Code == BlockedCode \cup
  {"SOURCE_INVALID", "STATE_INVALID", "ARTIFACT_INVALID", "RECEIPT_FAILED", "CLEANUP_FAILED",
   "PROMOTION_FAILED"}

\* null is no object and no string; a digest exists
ASSUME NullAssumption == None \notin Reference /\ None \notin Activation /\ None \notin Code
ASSUME DigestAssumption == Digest # {}

Over == {"over", "killed"}
Swapping == {"replace", "bringBack", "discard", "withdraw", "reinstate"}
Promoting == {"promote", "draft", "rename", "setAside", "dropDraft"} \cup Swapping
Building == {"extract", "profile", "validate", "prepare", "sweep"}
Opening == {"begin", "target", "snapshot", "undo", "plan", "ledger", "decide"}
Closing == {"receipt", "cleanWorkspace", "cleanPending", "release"}

\* the files promotion writes with atomicWriteJson, in this order
OrderReversed == <<"pointer", "activation">>
Order == <<"activation", "pointer">>

Init ==
  /\ locks = [n \in LockName |-> None]
  /\ versions = [k \in Identity |-> None]
  /\ pending = [r \in Run |-> "none"]
  /\ activations = [k \in Identity |-> None]
  /\ pointer = None
  /\ drafts = {}
  /\ backup = [r \in Run |-> None]
  /\ receipts = [r \in Run |-> None]
  /\ at = [r \in Run |-> "begin"]
  /\ key \in [Run -> Identity]
  /\ run = [r \in Run |-> None]
  /\ head = [r \in Run |-> None]
  /\ file = [r \in Run |-> Order[1]]
  /\ held = [r \in Run |-> <<>>]
  /\ workspace = {}
  /\ failure = [r \in Run |-> None]
  /\ unclean = [r \in Run |-> {}]
  /\ answer = [r \in Run |-> None]
  /\ faults = 0
  /\ crashes = 0
  /\ clears = 0

-----------------------------------------------------------------------------
Goto(r, place) == at' = [at EXCEPT ![r] = place]

\* throw: the catch block comes next
Throw(r, code) ==
  /\ failure' = [failure EXCEPT ![r] = code]
  /\ Goto(r, "receipt")

\* a call on the state directory fails
Fault ==
  /\ faults < MaxFaults
  /\ faults' = faults + 1
  /\ UNCHANGED <<crashes, clears>>

\* the run after an event, with the receipt of the stage it completes
After(x, event) ==
  IF x = None THEN None
  ELSE IF event \in DOMAIN Simple THEN Transition(x, event, None, None)
  ELSE Transition(x, event, Receipt(x, Completion[event].stage, "SUCCEEDED", TheDigest, None), None)

\* the run goes through these events, or a refused one throws
Advance(r, next, place) ==
  IF next = None
  THEN Throw(r, "STATE_INVALID") /\ UNCHANGED run
  ELSE run' = [run EXCEPT ![r] = next] /\ Goto(r, place) /\ UNCHANGED failure

-----------------------------------------------------------------------------
(* Locks. *)

\* the manifest, the source and the processors are captured and verified
Begin(r) ==
  /\ at[r] = "begin"
  /\ \/ Goto(r, "target") /\ UNCHANGED failure
     \/ Throw(r, "SOURCE_INVALID")
  /\ UNCHANGED <<directory, key, run, head, file, held, workspace, unclean, answer, bounds>>

NextLock(r) == IF at[r] = "target" THEN TargetLock ELSE SnapshotLock(key[r])

\* 'wx': the file must not be there
LockFree(n) == locks[n] = None

\* lockReleases.push
HeldOnly(r, n) == <<n>>
HeldWith(r, n) == <<n>> \o held[r]

TakeLockWaits(r) ==
  /\ at[r] \in {"target", "snapshot"}
  /\ LockFree(NextLock(r))
  /\ locks' = [locks EXCEPT ![NextLock(r)] = r]
  /\ held' = [held EXCEPT ![r] = HeldWith(r, NextLock(r))]
  /\ Goto(r, IF at[r] = "target" THEN "snapshot" ELSE "plan")
  /\ UNCHANGED <<versions, pending, activations, pointer, drafts, backup, receipts>>
  /\ UNCHANGED <<key, run, head, file, workspace, failure, unclean, answer, bounds>>

\* open(lockFile, 'wx'), and nobody waits for a lock
TakeLock(r) ==
  /\ at[r] \in {"target", "snapshot"}
  /\ IF LockFree(NextLock(r))
     THEN /\ locks' = [locks EXCEPT ![NextLock(r)] = r]
          /\ held' = [held EXCEPT ![r] = HeldWith(r, NextLock(r))]
          /\ Goto(r, IF at[r] = "target" THEN "snapshot" ELSE "plan")
          /\ UNCHANGED failure
     ELSE /\ Throw(r, "LOCKED")
          /\ UNCHANGED <<locks, held>>
  /\ UNCHANGED <<versions, pending, activations, pointer, drafts, backup, receipts>>
  /\ UNCHANGED <<key, run, head, file, workspace, unclean, answer, bounds>>

\* the file cannot be opened, or is created and its content not written; one
\* whose identity cannot be read stays
TakeLockFails(r) ==
  /\ at[r] \in {"target", "snapshot"}
  /\ LockFree(NextLock(r))
  /\ Fault
  /\ \/ Throw(r, "STATE_INVALID") /\ UNCHANGED locks
     \/ /\ locks' = [locks EXCEPT ![NextLock(r)] = r]
        /\ \/ Goto(r, "undo") /\ UNCHANGED failure
           \/ Throw(r, "STATE_INVALID")
  /\ UNCHANGED <<versions, pending, activations, pointer, drafts, backup, receipts>>
  /\ UNCHANGED <<key, run, head, file, held, workspace, unclean, answer>>

NotHeld(r) == {n \in LockName : locks[n] = r /\ n \notin {held[r][i] : i \in DOMAIN held[r]}}

\* the created file is removed, or stays when that fails too
UndoLock(r) ==
  /\ at[r] = "undo"
  /\ \/ /\ locks' = [n \in LockName |-> IF n \in NotHeld(r) THEN None ELSE locks[n]]
        /\ UNCHANGED bounds
     \/ Fault /\ UNCHANGED locks
  /\ Throw(r, "STATE_INVALID")
  /\ UNCHANGED <<versions, pending, activations, pointer, drafts, backup, receipts>>
  /\ UNCHANGED <<key, run, head, file, held, workspace, unclean, answer>>

-----------------------------------------------------------------------------
(* Planning, and the inspection of what earlier runs left. *)

\* the active publication has this source under another approval
OtherApproval(k, ref) ==
  /\ ref # None
  /\ ref.key.asOf = k.asOf
  /\ ref.key.sha = k.sha
  /\ ref.key.approval # k.approval

PlanRun(r) ==
  /\ at[r] = "plan"
  /\ LET code == PlanCode(key[r], PublicationAt(pointer))
     IN  CASE OtherApproval(key[r], pointer) -> Throw(r, "DUPLICATE_STATE_INVALID") /\ UNCHANGED run
           [] ~OtherApproval(key[r], pointer) /\ code = "SOURCE_ROLLBACK_BLOCKED" ->
                Throw(r, "ROLLBACK_BLOCKED") /\ UNCHANGED run
           [] ~OtherApproval(key[r], pointer) /\ code = "SOURCE_CONFLICT_BLOCKED" ->
                Throw(r, "SOURCE_CONFLICT") /\ UNCHANGED run
           [] ~OtherApproval(key[r], pointer) /\ code = "RUN_PLANNED" ->
                Advance(r, PlannedRun(r, key[r], PublicationAt(pointer)), "ledger")
  /\ UNCHANGED <<directory, key, head, file, held, workspace, unclean, answer, bounds>>

Recorded == {k \in Identity : activations[k] # None}

\* one root, each other record follows one nobody else follows, the walk from
\* the only head meets them all: the records in a row, up to the head
Chain(newest) ==
  \E row \in [1 .. Cardinality(Recorded) -> Recorded] :
    /\ Recorded = {row[i] : i \in DOMAIN row}
    /\ \A i \in DOMAIN row :
         activations[row[i]].previous =
           (IF i = 1 THEN None ELSE Ref(row[i - 1], activations[row[i - 1]].run))
    /\ newest = Ref(row[Cardinality(Recorded)], activations[row[Cardinality(Recorded)]].run)

IntactVersions(newest) ==
  /\ \A r \in Run : pending[r] = "none"
  /\ \A d \in drafts : d[1] # "activation"
  /\ \A k \in Identity :
       IF activations[k] = None THEN versions[k] = None ELSE versions[k] = activations[k].run

\* nothing in versions/ or activations/ but one activation per version, each of
\* the run that built it, in a chain that ends in the last-known-good
Intact(newest) ==
  /\ \A r \in Run : pending[r] = "none"
  /\ \A d \in drafts : d[1] # "activation"
  /\ \A k \in Identity :
       IF activations[k] = None THEN versions[k] = None ELSE versions[k] = activations[k].run
  /\ IF Recorded = {} THEN newest = None ELSE newest # None /\ Chain(newest)

Seen(r) ==
  LET active == run[r].lastKnownGood
  IN  IF active = None THEN None ELSE Ref(active.key, active.run)

CheckLedger(r) ==
  /\ at[r] = "ledger"
  /\ IF Intact(Seen(r))
     THEN /\ head' = [head EXCEPT ![r] = Seen(r)]
          /\ Advance(r, After(run[r], "ACQUIRE_LOCK"), "decide")
     ELSE /\ Throw(r, "DUPLICATE_STATE_INVALID")
          /\ UNCHANGED <<run, head>>
  /\ UNCHANGED <<directory, key, file, held, workspace, unclean, answer, bounds>>

\* a read fails
ReadFails(r) ==
  /\ at[r] \in {"plan", "ledger", "decide"}
  /\ Fault
  /\ \/ Throw(r, "STATE_INVALID")
     \/ at[r] # "plan" /\ Throw(r, "DUPLICATE_STATE_INVALID")
  /\ UNCHANGED <<directory, key, run, head, file, held, workspace, unclean, answer>>

\* the version of this identity is not there
StartExtract(r) ==
  /\ at[r] = "decide"
  /\ versions[key[r]] = None
  /\ Advance(r, After(run[r], "START_EXTRACT"), "extract")
  /\ UNCHANGED <<directory, key, head, file, held, workspace, unclean, answer, bounds>>

\* it is, and it is the active one: the receipt of the replay is written
MarkDuplicate(r) ==
  /\ at[r] = "decide"
  /\ versions[key[r]] # None
  /\ LET stored == PublicationAt(Ref(key[r], versions[key[r]]))
         marked == Transition(run[r], "MARK_DUPLICATE",
                     Receipt(run[r], "DUPLICATE", "DUPLICATE", stored.bundle, stored.run), stored)
     IN  IF run[r].lastKnownGood # stored
         THEN /\ Throw(r, "DUPLICATE_STATE_INVALID")
              /\ UNCHANGED <<run, receipts, bounds>>
         ELSE \/ /\ Advance(r, marked, "release")
                 /\ receipts' = [receipts EXCEPT ![r] = "duplicate"]
                 /\ UNCHANGED bounds
              \/ /\ marked # None
                 /\ Fault
                 /\ run' = [run EXCEPT ![r] = marked]
                 /\ Throw(r, "RECEIPT_FAILED")
                 /\ UNCHANGED receipts
  /\ UNCHANGED <<locks, versions, pending, activations, pointer, drafts, backup>>
  /\ UNCHANGED <<key, head, file, held, workspace, unclean, answer>>

-----------------------------------------------------------------------------
(* Building the bundle in a private workspace. *)

\* captures are staged in a new workspace
Extract(r) ==
  /\ at[r] = "extract"
  /\ workspace' = workspace \cup {r}
  /\ Advance(r, After(After(run[r], "COMPLETE_EXTRACT"), "START_PROFILE"), "profile")
  /\ UNCHANGED <<directory, key, head, file, held, unclean, answer, bounds>>

Profile(r) ==
  /\ at[r] = "profile"
  /\ Advance(r, After(After(run[r], "COMPLETE_PROFILE"), "START_VALIDATE"), "validate")
  /\ UNCHANGED <<directory, key, head, file, held, workspace, unclean, answer, bounds>>

Validate(r) ==
  /\ at[r] = "validate"
  /\ Advance(r, After(run[r], "COMPLETE_VALIDATE"), "prepare")
  /\ UNCHANGED <<directory, key, head, file, held, workspace, unclean, answer, bounds>>

\* the source changes, the extractor fails, the artifacts break their contract;
\* the source of a duplicate is looked at again too
BuildFails(r) ==
  /\ \/ at[r] \in {"extract", "profile", "validate", "prepare"}
     \/ at[r] = "decide" /\ versions[key[r]] # None
  /\ Throw(r, "ARTIFACT_INVALID")
  /\ workspace' \in {workspace} \cup (IF at[r] = "extract" THEN {workspace \cup {r}} ELSE {})
  /\ UNCHANGED <<directory, key, run, head, file, held, unclean, answer, bounds>>

\* START_PUBLISH; the bundle is written into a pending directory of its own
Prepare(r) ==
  /\ at[r] = "prepare"
  /\ pending' = [pending EXCEPT ![r] = "owned"]
  /\ Advance(r, After(run[r], "START_PUBLISH"), "sweep")
  /\ UNCHANGED <<locks, versions, activations, pointer, drafts, backup, receipts>>
  /\ UNCHANGED <<key, head, file, held, workspace, unclean, answer, bounds>>

\* it cannot be made, or claimed, or filled
PrepareFails(r) ==
  /\ at[r] = "prepare"
  /\ Fault
  /\ run' = [run EXCEPT ![r] = After(run[r], "START_PUBLISH")]
  /\ \E left \in {"none", "unowned", "owned"} : pending' = [pending EXCEPT ![r] = left]
  /\ Throw(r, "STATE_INVALID")
  /\ UNCHANGED <<locks, versions, activations, pointer, drafts, backup, receipts>>
  /\ UNCHANGED <<key, head, file, held, workspace, unclean, answer>>

\* the workspace goes before anything is promoted
Sweep(r) ==
  /\ at[r] = "sweep"
  /\ \/ /\ workspace' = workspace \ {r}
        /\ Goto(r, "promote")
        /\ UNCHANGED <<failure, bounds>>
     \/ /\ Fault
        /\ Throw(r, "CLEANUP_FAILED")
        /\ UNCHANGED workspace
  /\ UNCHANGED <<directory, key, run, head, file, held, unclean, answer>>

-----------------------------------------------------------------------------
(* Promotion: the version, its activation, the last-known-good. *)

\* rename(pending, version), which must not be there
Promote(r) ==
  /\ at[r] = "promote"
  /\ IF versions[key[r]] = None
     THEN /\ versions' = [versions EXCEPT ![key[r]] = r]
          /\ pending' = [pending EXCEPT ![r] = "none"]
          /\ file' = [file EXCEPT ![r] = Order[1]]
          /\ Goto(r, "draft")
          /\ UNCHANGED failure
     ELSE /\ Throw(r, "PROMOTION_FAILED")
          /\ UNCHANGED <<versions, pending, file>>
  /\ UNCHANGED <<locks, activations, pointer, drafts, backup, receipts>>
  /\ UNCHANGED <<key, run, head, held, workspace, unclean, answer, bounds>>

\* it fails, or writing a temporary file does
PromoteFails(r) ==
  /\ at[r] \in {"promote", "draft"}
  /\ Fault
  /\ Throw(r, "PROMOTION_FAILED")
  /\ UNCHANGED <<directory, key, run, head, file, held, workspace, unclean, answer>>

Content(r) == IF file[r] = "activation" THEN activations[key[r]] ELSE pointer

\* what the file atomicWriteJson writes for r becomes
SetFile(r, content) ==
  IF file[r] = "activation"
  THEN activations' = [activations EXCEPT ![key[r]] = content] /\ UNCHANGED pointer
  ELSE pointer' = content /\ UNCHANGED activations

NewContent(r) ==
  IF file[r] = "activation"
  THEN [run |-> r, previous |-> head[r]]
  ELSE Own(r)

\* atomicWriteJson returns: the last-known-good is next, or all is done
Written(r) ==
  IF file[r] = Order[1]
  THEN /\ file' = [file EXCEPT ![r] = Order[2]]
       /\ Goto(r, "draft")
       /\ UNCHANGED <<run, failure>>
  ELSE /\ Advance(r, After(run[r], "COMPLETE_PUBLISH"), "release")
       /\ UNCHANGED file

WriteDraft(r) ==
  /\ at[r] = "draft"
  /\ drafts' = drafts \cup {<<file[r], r>>}
  /\ Goto(r, "rename")
  /\ UNCHANGED <<locks, versions, pending, activations, pointer, backup, receipts>>
  /\ UNCHANGED <<key, run, head, file, held, workspace, failure, unclean, answer, bounds>>

RenameDraft(r) ==
  /\ at[r] = "rename"
  /\ drafts' = drafts \ {<<file[r], r>>}
  /\ SetFile(r, NewContent(r))
  /\ Written(r)
  /\ UNCHANGED <<locks, versions, pending, backup, receipts>>
  /\ UNCHANGED <<key, head, held, workspace, unclean, answer, bounds>>

\* the direct rename fails: where there is something to replace it is set aside
RenameFails(r) ==
  /\ at[r] = "rename"
  /\ Fault
  /\ Goto(r, IF Content(r) = None THEN "dropDraft" ELSE "setAside")
  /\ UNCHANGED <<directory, key, run, head, file, held, workspace, failure, unclean, answer>>

\* rename(target, backup); when it fails, or the lstat before, nothing has changed
SetAside(r) ==
  /\ at[r] = "setAside"
  /\ \/ /\ backup' = [backup EXCEPT ![r] = Content(r)]
        /\ SetFile(r, None)
        /\ Goto(r, "replace")
        /\ UNCHANGED bounds
     \/ /\ Fault
        /\ Goto(r, "dropDraft")
        /\ UNCHANGED <<backup, activations, pointer>>
  /\ UNCHANGED <<locks, versions, pending, drafts, receipts>>
  /\ UNCHANGED <<key, run, head, file, held, workspace, failure, unclean, answer>>

\* rename(temporary, target)
Replace(r) ==
  /\ at[r] = "replace"
  /\ \/ /\ drafts' = drafts \ {<<file[r], r>>}
        /\ SetFile(r, NewContent(r))
        /\ Goto(r, "discard")
        /\ UNCHANGED bounds
     \/ /\ Fault
        /\ Goto(r, "bringBack")
        /\ UNCHANGED <<drafts, activations, pointer>>
  /\ UNCHANGED <<locks, versions, pending, backup, receipts>>
  /\ UNCHANGED <<key, run, head, file, held, workspace, failure, unclean, answer>>

BringBackForgets(r) ==
  /\ at[r] \in {"bringBack", "reinstate"}
  /\ backup' = [backup EXCEPT ![r] = None]
  /\ Goto(r, "dropDraft")
  /\ UNCHANGED <<locks, versions, pending, activations, pointer, drafts, receipts>>
  /\ UNCHANGED <<key, run, head, file, held, workspace, failure, unclean, answer, bounds>>

\* rename(backup, target), after a replacement that failed or was withdrawn
BringBack(r) ==
  /\ at[r] \in {"bringBack", "reinstate"}
  /\ \/ /\ SetFile(r, backup[r])
        /\ backup' = [backup EXCEPT ![r] = None]
        /\ UNCHANGED bounds
     \/ Fault /\ UNCHANGED <<backup, activations, pointer>>
  /\ Goto(r, "dropDraft")
  /\ UNCHANGED <<locks, versions, pending, drafts, receipts>>
  /\ UNCHANGED <<key, run, head, file, held, workspace, failure, unclean, answer>>

\* unlink(backup)
Discard(r) ==
  /\ at[r] = "discard"
  /\ \/ /\ backup' = [backup EXCEPT ![r] = None]
        /\ Written(r)
        /\ UNCHANGED bounds
     \/ /\ Fault
        /\ Goto(r, "withdraw")
        /\ UNCHANGED <<backup, run, file, failure>>
  /\ UNCHANGED <<locks, versions, pending, activations, pointer, drafts, receipts>>
  /\ UNCHANGED <<key, head, held, workspace, unclean, answer>>

\* unlink(target)
Withdraw(r) ==
  /\ at[r] = "withdraw"
  /\ \/ /\ SetFile(r, None)
        /\ Goto(r, "reinstate")
        /\ UNCHANGED bounds
     \/ /\ Fault
        /\ Goto(r, "dropDraft")
        /\ UNCHANGED <<activations, pointer>>
  /\ UNCHANGED <<locks, versions, pending, drafts, backup, receipts>>
  /\ UNCHANGED <<key, run, head, file, held, workspace, failure, unclean, answer>>

\* unlink(temporary), whose failure is ignored, and the error goes on
DropDraft(r) ==
  /\ at[r] = "dropDraft"
  /\ \/ drafts' = drafts \ {<<file[r], r>>} /\ UNCHANGED bounds
     \/ <<file[r], r>> \in drafts /\ Fault /\ UNCHANGED drafts
  /\ Throw(r, "PROMOTION_FAILED")
  /\ UNCHANGED <<locks, versions, pending, activations, pointer, backup, receipts>>
  /\ UNCHANGED <<key, run, head, file, held, workspace, unclean, answer>>

-----------------------------------------------------------------------------
(* The catch and finally blocks. *)

FailedAlways(x, code) ==
  IF x = None \/ x.state \in Terminal THEN x
  ELSE Transition(x, "FAIL", Receipt(x, StageOf[x.state], "FAILED", None, None), None)

\* the run after a failure: FAILED or BLOCKED, unless it is over already
Failed(x, code) ==
  IF x = None \/ x.state \in Terminal THEN x
  ELSE LET blocked == code \in BlockedCode
           next == Transition(x, IF blocked THEN "BLOCK" ELSE "FAIL",
                     Receipt(x, StageOf[x.state], IF blocked THEN "BLOCKED" ELSE "FAILED", None, None),
                     None)
       IN  IF next = None THEN x ELSE next

Disposition(r) == IF failure[r] \in BlockedCode THEN "blocked" ELSE "failed"

\* runs/<run>.json is written; when that fails there is no receipt of this failure
RecordFailure(r) ==
  /\ at[r] = "receipt"
  /\ run' = [run EXCEPT ![r] = Failed(@, failure[r])]
  /\ \/ receipts' = [receipts EXCEPT ![r] = Disposition(r)] /\ UNCHANGED bounds
     \/ Fault /\ UNCHANGED receipts
  /\ Goto(r, "cleanWorkspace")
  /\ UNCHANGED <<locks, versions, pending, activations, pointer, drafts, backup>>
  /\ UNCHANGED <<key, head, file, held, workspace, failure, unclean, answer>>

NotClean(r, what) == unclean' = [unclean EXCEPT ![r] = @ \cup {what}]

CleanWorkspace(r) ==
  /\ at[r] = "cleanWorkspace"
  /\ Goto(r, "cleanPending")
  /\ \/ workspace' = workspace \ {r} /\ UNCHANGED <<unclean, bounds>>
     \/ r \in workspace /\ Fault /\ NotClean(r, "workspace") /\ UNCHANGED workspace
  /\ UNCHANGED <<directory, key, run, head, file, held, failure, answer>>

\* only a pending directory the run owns is removed
CleanPending(r) ==
  /\ at[r] = "cleanPending"
  /\ Goto(r, "release")
  /\ CASE pending[r] = "none" -> UNCHANGED <<pending, unclean, bounds>>
       [] pending[r] = "unowned" -> NotClean(r, "pending") /\ UNCHANGED <<pending, bounds>>
       [] pending[r] = "owned" ->
            \/ pending' = [pending EXCEPT ![r] = "none"] /\ UNCHANGED <<unclean, bounds>>
            \/ Fault /\ NotClean(r, "pending") /\ UNCHANGED pending
  /\ UNCHANGED <<locks, versions, activations, pointer, drafts, backup, receipts>>
  /\ UNCHANGED <<key, run, head, file, held, workspace, failure, answer>>

\* the locks are released last acquired first, each one if it is still the file
\* this process made (it is: only the locks of processes that are over are ever
\* cleared); a failure does not keep the others from release
Release(r) ==
  /\ at[r] = "release"
  /\ held[r] # <<>>
  /\ held' = [held EXCEPT ![r] = Tail(@)]
  /\ \/ /\ locks[Head(held[r])] = r
        /\ locks' = [locks EXCEPT ![Head(held[r])] = None]
        /\ UNCHANGED <<unclean, bounds>>
     \/ /\ Fault
        /\ NotClean(r, "lock")
        /\ UNCHANGED locks
  /\ UNCHANGED <<versions, pending, activations, pointer, drafts, backup, receipts>>
  /\ UNCHANGED <<at, key, run, head, file, workspace, failure, answer>>

ToldFailed(r) ==
  IF failure[r] # None \/ "lock" \in unclean[r] THEN Disposition(r)
  ELSE IF run[r].state = "DUPLICATE" THEN "duplicate" ELSE "promoted"

\* "unreleased": the error of the lock's release, thrown after a success
Told(r) ==
  IF failure[r] # None THEN Disposition(r)
  ELSE IF "lock" \in unclean[r] THEN "unreleased"
  ELSE IF run[r].state = "DUPLICATE" THEN "duplicate" ELSE "promoted"

\* with nothing left to release: the result, or the error.  A failure's receipt is
\* written again when something was left behind; a run that succeeded but for the
\* release of its locks is reported as an error, and so is its receipt
Report(r) ==
  /\ at[r] = "release"
  /\ held[r] = <<>>
  /\ Goto(r, "over")
  /\ answer' = [answer EXCEPT ![r] = Told(r)]
  /\ IF unclean[r] = {} THEN UNCHANGED <<receipts, bounds>>
     ELSE \/ receipts' = [receipts EXCEPT ![r] = Disposition(r)] /\ UNCHANGED bounds
          \/ Fault /\ UNCHANGED receipts
  /\ UNCHANGED <<locks, versions, pending, activations, pointer, drafts, backup>>
  /\ UNCHANGED <<key, run, head, file, held, workspace, failure, unclean>>

-----------------------------------------------------------------------------
(* The environment. *)

Kill(r) ==
  /\ crashes < MaxCrashes
  /\ at[r] \notin Over \cup {"begin"}
  /\ crashes' = crashes + 1
  /\ Goto(r, "killed")
  /\ UNCHANGED <<directory, key, run, head, file, held, workspace, failure, unclean, answer, faults, clears>>

\* an operator removes the lock files of a process that is over
ClearLocks(r) ==
  /\ clears < MaxClears
  /\ at[r] \in Over
  /\ \E n \in LockName : locks[n] = r
  /\ clears' = clears + 1
  /\ locks' = [n \in LockName |-> IF locks[n] = r THEN None ELSE locks[n]]
  /\ UNCHANGED <<versions, pending, activations, pointer, drafts, backup, receipts>>
  /\ UNCHANGED <<process, faults, crashes>>

Step(r) ==
  \/ TakeLock(r) \/ TakeLockFails(r) \/ UndoLock(r)
  \/ PlanRun(r) \/ CheckLedger(r) \/ ReadFails(r)
  \/ StartExtract(r) \/ MarkDuplicate(r)
  \/ Extract(r) \/ Profile(r) \/ Validate(r) \/ BuildFails(r)
  \/ Prepare(r) \/ PrepareFails(r) \/ Sweep(r)
  \/ Promote(r) \/ PromoteFails(r) \/ WriteDraft(r) \/ RenameDraft(r) \/ RenameFails(r)
  \/ SetAside(r) \/ Replace(r) \/ BringBack(r) \/ Discard(r) \/ Withdraw(r) \/ DropDraft(r)
  \/ RecordFailure(r) \/ CleanWorkspace(r) \/ CleanPending(r) \/ Release(r) \/ Report(r)

Next == \E r \in Run : Begin(r) \/ Step(r) \/ Kill(r) \/ ClearLocks(r)

Spec == Init /\ [][Next]_vars

\* a process that has begun is scheduled until it is over or killed
FairSpec == Spec /\ \A r \in Run : WF_vars(Step(r))

-----------------------------------------------------------------------------
TypeOK ==
  /\ locks \in [LockName -> Run \cup {None}]
  /\ versions \in [Identity -> Run \cup {None}]
  /\ pending \in [Run -> {"none", "unowned", "owned"}]
  /\ activations \in [Identity -> Activation \cup {None}]
  /\ pointer \in Reference \cup {None}
  /\ drafts \subseteq {"activation", "pointer"} \X Run
  /\ backup \in [Run -> Reference \cup {None}]
  /\ receipts \in [Run -> {None, "duplicate", "failed", "blocked"}]
  /\ at \in [Run -> Opening \cup Building \cup Promoting \cup Closing \cup Over]
  /\ key \in [Run -> Identity]
  /\ run \in [Run -> RunRecord \cup {None}]
  /\ \A r \in Run : run[r] # None => run[r].id = r /\ run[r].key = key[r]
  /\ head \in [Run -> Reference \cup {None}]
  /\ file \in [Run -> {"activation", "pointer"}]
  /\ held \in [Run -> Seq(LockName)]
  /\ \A r \in Run : held[r] \in {<<>>, <<TargetLock>>, <<SnapshotLock(key[r]), TargetLock>>}
  /\ workspace \subseteq Run
  /\ failure \in [Run -> Code \cup {None}]
  /\ unclean \in [Run -> SUBSET {"workspace", "pending", "lock"}]
  /\ answer \in [Run -> {None, "promoted", "duplicate", "failed", "blocked", "unreleased"}]
  /\ faults \in 0 .. MaxFaults
  /\ crashes \in 0 .. MaxCrashes
  /\ clears \in 0 .. MaxClears

(* At every instant, after any failed call and any kill, the               *)
(* last-known-good names a bundle that is wholly there and its activation: *)
(* version, activation and pointer are three renames, in this order.       *)
PointerNamesWholeVersion ==
  pointer # None =>
    /\ versions[pointer.key] = pointer.run
    /\ activations[pointer.key] # None
    /\ activations[pointer.key].run = pointer.run

(* A run that ends without publishing (failed, blocked or duplicate)       *)
(* leaves the last-known-good it was planned against: nobody moved it      *)
(* meanwhile, and a replacement that fails is taken back ("promocion       *)
(* atomica al last-known-good", "byte-estable" after a duplicate).         *)
LastKnownGoodKept ==
  \A r \in Run :
    /\ at[r] \in Closing
    /\ run[r] # None
    /\ run[r].state # "PUBLISHED"
    /\ locks[TargetLock] = r
    => pointer = Seen(r)

(* What was published outlives whatever a later run meets: with no run     *)
(* under way there is a last-known-good again ("promocion atomica al       *)
(* last-known-good", "nunca se modifica hasta completar PUBLISH").         *)
LastKnownGoodSurvives ==
  /\ \A r \in Run : at[r] \in {"begin"} \cup Over
  /\ \E r \in Run : run[r] # None /\ run[r].state = "PUBLISHED"
  => pointer # None

\* the processes that may still write, or remove what they wrote
MayWrite(r) ==
  \/ at[r] \in {"decide"} \cup Building \cup Promoting
  \/ at[r] \in Closing /\ pending[r] = "owned"

\* what an interrupted or failed promotion may leave
Inconsistent ==
  \/ \E r \in Run : pending[r] # "none" \/ <<"activation", r>> \in drafts
  \/ \E k \in Identity : versions[k] # None /\ activations[k] = None
  \/ \E k \in Identity :
       activations[k] # None /\ (pointer = None \/ activations[k].previous = pointer)

Broken == Inconsistent /\ \A r \in Run : ~MayWrite(r)

(* Fail closed: once a run left the directory inconsistent (a version      *)
(* without its activation, an activation the last-known-good does not end  *)
(* in, a temporary file or pending directory, a lost last-known-good) no   *)
(* later run is let in, and none of this changes any more: an orphan is    *)
(* never activated and a lost pointer never recreated.                     *)
FailClosed ==
  [][Broken => Broken' /\ UNCHANGED <<versions, activations, pointer>>]_vars

(* Runs whose file-system calls succeed leave nothing behind, whatever     *)
(* their outcome and however they overlap: no lock, pending directory,     *)
(* temporary file, backup or workspace, and a directory the next run       *)
(* accepts ("cero locks, residuos y workspaces activos al cierre").        *)
NothingLeftBehind ==
  /\ faults = 0
  /\ \A r \in Run : at[r] \in {"begin", "over"}
  =>
  /\ \A n \in LockName : locks[n] = None
  /\ \A r \in Run : pending[r] = "none" /\ backup[r] = None
  /\ drafts = {}
  /\ workspace = {}
  /\ Intact(pointer)

(* The state machine of the foundation never refuses a step of the runner: *)
(* without a failed call no run ends in STATE_INVALID, and the state of    *)
(* the run a process ends with is the one its caller is told.              *)
AnswerMatchesRun ==
  \A r \in Run :
    /\ failure[r] = "STATE_INVALID" => faults > 0
    /\ at[r] = "over" =>
         /\ answer[r] = "promoted" => run[r].state = "PUBLISHED"
         /\ answer[r] = "duplicate" => run[r].state = "DUPLICATE"
         /\ answer[r] = "unreleased" => run[r].state \in {"PUBLISHED", "DUPLICATE"}
         /\ answer[r] = "blocked" => run[r] = None \/ run[r].state = "BLOCKED"
         /\ answer[r] = "failed" =>
              run[r] = None \/ run[r].state = "FAILED" \/ failure[r] = "RECEIPT_FAILED"

(* Nobody waits: a process that reaches the locks ends, also when another  *)
(* was killed holding them.                                                *)
EveryRunEnds == \A r \in Run : at[r] = "target" ~> at[r] \in Over

-----------------------------------------------------------------------------
(* The promise, and how the files realise it. *)

Swapper == {r \in Run : at[r] \in Swapping /\ file[r] = "pointer"}

\* the replacements that will never be final, and that no run has followed
Lost == {r \in Run : backup[r] # None /\ \A k \in Recorded : activations[k].previous # Own(r)}

\* the publication that counts: the last-known-good, or the one set aside until
\* its replacement is final
Active ==
  IF Swapper # {} THEN backup[CHOOSE r \in Swapper : TRUE]
  ELSE IF pointer # None THEN pointer
  ELSE IF Lost # {} THEN backup[CHOOSE r \in Lost : TRUE]
  ELSE None

ActiveRun == IF Active = None THEN None ELSE Active.run

\* the runs whose activation is the active one or was followed by another
EverActive ==
  {r \in Run :
     \/ ActiveRun = r
     \/ \E k \in Recorded : activations[k].previous = Own(r)}

Register == INSTANCE SnapshotRegister WITH active <- ActiveRun, published <- EverActive

(* Every behaviour with at most two failed calls is one of the register:   *)
(* publications take effect at one instant each and never go back, a run   *)
(* publishes at most once and before its caller is answered, and the       *)
(* answer agrees with what became of its snapshot.                         *)
ImplementsRegister == Register!Spec
=============================================================================
