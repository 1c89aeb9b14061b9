---------------------------- MODULE PipelineRules ----------------------------
(***************************************************************************)
(* The pure decisions of shared/grh-pipeline-foundation.cjs: which snapshot *)
(* a run may replace, which event with which receipt takes a run to which  *)
(* state, and what a well-formed run looks like.                           *)
(*                                                                         *)
(* An identity stands for what the idempotency key is the digest of: the   *)
(* cut-off date, the digest of the source, that of the approval manifest,  *)
(* that of the processors.  A digest is equal when what it digests is.     *)
(* Only LOCAL_REPLAY into LOCAL_STATE is planned: any other scope is       *)
(* refused before the decisions modelled here.                             *)
(***************************************************************************)
EXTENDS Naturals

CONSTANTS
  Run,       \* run ids
  Identity,  \* what may be replayed: [asOf, sha, approval, processor, file]
  Digest,    \* digests of extracted data and of bundles
  None

ASSUME IdentityAssumption == \A k \in Identity : k.asOf \in Nat
ASSUME NoneAssumption == None \notin Identity \cup Digest \cup Run

Slot == {"lock", "extract", "profile", "validate", "publish", "duplicate", "failure"}
Stage == {"LOCK", "EXTRACT", "PROFILE", "VALIDATE", "PUBLISH"}
Terminal == {"PUBLISHED", "DUPLICATE", "FAILED", "BLOCKED"}
RunState == {"PLANNED", "LOCKED", "EXTRACTING", "EXTRACTED", "PROFILING", "PROFILED",
             "VALIDATING", "VALIDATED", "PUBLISHING"} \cup Terminal

\* what a last-known-good says is published, and the run that published it
Publication == [key : Identity, bundle : Digest, run : Run]

\* a run in any state, the failure it may record, and the receipt of a stage
Failure == [stage : Stage, outcome : {"FAILED", "BLOCKED"}]

RunRecord ==
  [id : Run, key : Identity, state : RunState, receipts : SUBSET Slot,
   extract : Digest \cup {None}, candidate : Digest \cup {None}, published : Digest \cup {None},
   lastKnownGood : Publication \cup {None}, failure : Failure \cup {None}]

StageReceipt ==
  [run : Run, key : Identity, stage : Stage \cup {"DUPLICATE"},
   outcome : {"SUCCEEDED", "DUPLICATE", "FAILED", "BLOCKED"},
   input : Identity \cup {k.sha : k \in Identity} \cup Digest \cup {None},
   output : Digest \cup {None}, evidence : Run \cup {None}]

\* null is no object
ASSUME RecordAssumption ==
  None \notin Publication /\ None \notin Failure /\ None \notin RunRecord /\ None \notin StageReceipt

-----------------------------------------------------------------------------
(* Planning. *)

Older(k, published) == published # None /\ k.asOf < published.key.asOf

ConflictingProcessors(k, published) ==
  published # None /\ k.asOf = published.key.asOf /\ k.processor # published.key.processor

\* the same date from another source
Conflicting(k, published) ==
  published # None /\ k.asOf = published.key.asOf /\ k.sha # published.key.sha

PlanCode(k, published) ==
  IF Older(k, published) THEN "SOURCE_ROLLBACK_BLOCKED"
  ELSE IF Conflicting(k, published) THEN "SOURCE_CONFLICT_BLOCKED"
  ELSE "RUN_PLANNED"

PlannedRunOfActive(id, k, published) ==
  [id |-> IF published = None THEN id ELSE published.run, key |-> k, state |-> "PLANNED",
   receipts |-> {}, extract |-> None, candidate |-> None, published |-> None,
   lastKnownGood |-> published, failure |-> None]

PlannedRun(id, k, published) ==
  [id |-> id, key |-> k, state |-> "PLANNED", receipts |-> {},
   extract |-> None, candidate |-> None, published |-> None,
   lastKnownGood |-> published, failure |-> None]

-----------------------------------------------------------------------------
(* Inspection of a run. *)

\* the stage a run that is not over is in
StageOf ==
  [PLANNED |-> "LOCK", LOCKED |-> "EXTRACT", EXTRACTING |-> "EXTRACT",
   EXTRACTED |-> "PROFILE", PROFILING |-> "PROFILE", PROFILED |-> "VALIDATE",
   VALIDATING |-> "VALIDATE", VALIDATED |-> "PUBLISH", PUBLISHING |-> "PUBLISH"]

\* the receipts a run in each stage has
Done ==
  [LOCK |-> {}, EXTRACT |-> {"lock"}, PROFILE |-> {"lock", "extract"},
   VALIDATE |-> {"lock", "extract", "profile"},
   PUBLISH |-> {"lock", "extract", "profile", "validate"}]

\* exactly these receipts, and exactly the results they bring
BaseProgress(r, slots) ==
  /\ r.receipts = slots
  /\ r.extract # None <=> "extract" \in slots
  /\ r.candidate # None <=> "profile" \in slots
  /\ r.published # None <=> "publish" \in slots
  /\ r.failure # None <=> "failure" \in slots

PublishedProgress(r) ==
  /\ BaseProgress(r, Done["PUBLISH"] \cup {"publish"})
  /\ r.published = r.candidate
  /\ r.lastKnownGood = [key |-> r.key, bundle |-> r.published, run |-> r.id]

DuplicateProgress(r) ==
  /\ BaseProgress(r, {"lock", "duplicate"})
  /\ r.lastKnownGood # None
  /\ r.lastKnownGood.key = r.key

FailedProgressBare(r) ==
  r.failure # None /\ BaseProgress(r, Done[r.failure.stage])

FailedProgress(r) ==
  /\ r.failure # None
  /\ BaseProgress(r, Done[r.failure.stage] \cup {"failure"})
  /\ r.failure.outcome = r.state

InspectRun(r) ==
  /\ PlanCode(r.key, r.lastKnownGood) = "RUN_PLANNED"
  /\ r.state \in DOMAIN StageOf => BaseProgress(r, Done[StageOf[r.state]])
  /\ r.state = "PUBLISHED" => PublishedProgress(r)
  /\ r.state = "DUPLICATE" => DuplicateProgress(r)
  /\ r.state \in {"FAILED", "BLOCKED"} => FailedProgress(r)

-----------------------------------------------------------------------------
(* Transitions. *)

Simple ==
  [START_EXTRACT |-> [from |-> "LOCKED", to |-> "EXTRACTING"],
   START_PROFILE |-> [from |-> "EXTRACTED", to |-> "PROFILING"],
   START_VALIDATE |-> [from |-> "PROFILED", to |-> "VALIDATING"],
   START_PUBLISH |-> [from |-> "VALIDATED", to |-> "PUBLISHING"]]

Completion ==
  [ACQUIRE_LOCK |-> [from |-> "PLANNED", to |-> "LOCKED", stage |-> "LOCK", slot |-> "lock"],
   COMPLETE_EXTRACT |->
     [from |-> "EXTRACTING", to |-> "EXTRACTED", stage |-> "EXTRACT", slot |-> "extract"],
   COMPLETE_PROFILE |->
     [from |-> "PROFILING", to |-> "PROFILED", stage |-> "PROFILE", slot |-> "profile"],
   COMPLETE_VALIDATE |->
     [from |-> "VALIDATING", to |-> "VALIDATED", stage |-> "VALIDATE", slot |-> "validate"],
   COMPLETE_PUBLISH |->
     [from |-> "PUBLISHING", to |-> "PUBLISHED", stage |-> "PUBLISH", slot |-> "publish"]]

RunEvent == DOMAIN Simple \cup DOMAIN Completion \cup {"MARK_DUPLICATE", "FAIL", "BLOCK"}

\* what a receipt of a stage must be given: a key, a source, or a digest
ExpectedInput(r, stage) ==
  CASE stage \in {"LOCK", "DUPLICATE"} -> r.key
    [] stage = "EXTRACT" -> r.key.sha
    [] stage = "PROFILE" -> r.extract
    [] stage \in {"VALIDATE", "PUBLISH"} -> r.candidate

ReceiptFor(r, receipt, stage, outcome) ==
  /\ receipt # None
  /\ receipt.run = r.id
  /\ receipt.key = r.key
  /\ receipt.stage = stage
  /\ receipt.outcome = outcome
  /\ receipt.input = ExpectedInput(r, stage)

\* the run a step leads to, None when it is refused
Checked(r) == IF InspectRun(r) THEN r ELSE None

SimpleStep(r, event, receipt) ==
  IF receipt = None /\ r.state = Simple[event].from
  THEN Checked([r EXCEPT !.state = Simple[event].to])
  ELSE None

SameBundleUnchecked(r, receipt) == TRUE

\* the bundle validated and the one published are the candidate
SameBundle(r, receipt) ==
  receipt.stage \in {"VALIDATE", "PUBLISH"} => receipt.output = r.candidate

Completed(r, c, receipt) ==
  [r EXCEPT
    !.state = c.to,
    !.receipts = @ \cup {c.slot},
    !.extract = IF c.stage = "EXTRACT" THEN receipt.output ELSE @,
    !.candidate = IF c.stage = "PROFILE" THEN receipt.output ELSE @,
    !.published = IF c.stage = "PUBLISH" THEN receipt.output ELSE @,
    !.lastKnownGood =
      IF c.stage = "PUBLISH"
      THEN [key |-> r.key, bundle |-> receipt.output, run |-> r.id] ELSE @]

CompletionStep(r, event, receipt) ==
  LET c == Completion[event]
  IN  IF /\ r.state = c.from
         /\ ReceiptFor(r, receipt, c.stage, "SUCCEEDED")
         /\ SameBundle(r, receipt)
      THEN Checked(Completed(r, c, receipt))
      ELSE None

DuplicateStepUnbound(r, receipt, existing) ==
  IF /\ r.state = "LOCKED"
     /\ ReceiptFor(r, receipt, "DUPLICATE", "DUPLICATE")
     /\ existing # None
     /\ existing = r.lastKnownGood
     /\ existing.key = r.key
  THEN Checked([r EXCEPT !.state = "DUPLICATE", !.receipts = @ \cup {"duplicate"}])
  ELSE None

\* the receipt's evidence is the publication's own receipt
DuplicateStep(r, receipt, existing) ==
  IF /\ r.state = "LOCKED"
     /\ ReceiptFor(r, receipt, "DUPLICATE", "DUPLICATE")
     /\ existing # None
     /\ existing = r.lastKnownGood
     /\ existing.key = r.key
     /\ receipt.output = existing.bundle
     /\ receipt.evidence = existing.run
  THEN Checked([r EXCEPT !.state = "DUPLICATE", !.receipts = @ \cup {"duplicate"}])
  ELSE None

FailureStep(r, event, receipt) ==
  LET outcome == IF event = "FAIL" THEN "FAILED" ELSE "BLOCKED"
      stage == StageOf[r.state]
  IN  IF ReceiptFor(r, receipt, stage, outcome)
      THEN Checked([r EXCEPT !.state = outcome, !.receipts = @ \cup {"failure"},
                             !.failure = [stage |-> stage, outcome |-> outcome]])
      ELSE None

Transition(r, event, receipt, existing) ==
  IF ~InspectRun(r) \/ r.state \in Terminal THEN None
  ELSE IF event \in DOMAIN Simple THEN SimpleStep(r, event, receipt)
  ELSE IF event \in DOMAIN Completion THEN CompletionStep(r, event, receipt)
  ELSE IF event = "MARK_DUPLICATE" THEN DuplicateStep(r, receipt, existing)
  ELSE FailureStep(r, event, receipt)

-----------------------------------------------------------------------------
(* Receipts. *)

\* only a success or a duplicate has an output; the evidence of a duplicate
\* names the run whose publication receipt it is the digest of, other
\* evidence is not looked at
WellFormedReceipt(receipt) ==
  /\ receipt.output = None <=> receipt.outcome \in {"FAILED", "BLOCKED"}
  /\ receipt.stage = "DUPLICATE" <=> receipt.outcome = "DUPLICATE"
  /\ receipt.evidence = None <=> receipt.stage # "DUPLICATE"

Receipt(r, stage, outcome, output, evidence) ==
  [run |-> r.id, key |-> r.key, stage |-> stage, outcome |-> outcome,
   input |-> ExpectedInput(r, stage), output |-> output, evidence |-> evidence]
=============================================================================
