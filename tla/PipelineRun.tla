----------------------------- MODULE PipelineRun -----------------------------
(***************************************************************************)
(* One run in the hands of any caller of the pipeline foundation: it plans *)
(* against some last-known-good and offers every event with every receipt, *)
(* its own or another run's, in every order.                               *)
(***************************************************************************)
EXTENDS PipelineRules

VARIABLES
  run,       \* the run, None before it is planned
  prior,     \* the last-known-good it was planned against
  accepted   \* the receipts accepted, in no order

vars == <<run, prior, accepted>>

Self == CHOOSE id \in Run : TRUE

ASSUME SelfAssumption == Run # {}

Init ==
  /\ run = None
  /\ prior \in [key : Identity, bundle : Digest, run : Run \ {Self}] \cup {None}
  /\ accepted = {}

PlanRun(k) ==
  /\ run = None
  /\ PlanCode(k, prior) = "RUN_PLANNED"
  /\ run' = PlannedRun(Self, k, prior)
  /\ UNCHANGED <<prior, accepted>>

\* any receipt, of this run or another, of this identity or another, on any input
OfferedReceipt ==
  LET foreign == {k \in Identity : k # run.key}
      keys == {run.key} \cup (IF foreign = {} THEN {} ELSE {CHOOSE k \in foreign : TRUE})
  IN  {receipt \in [run : Run, key : keys, stage : Stage \cup {"DUPLICATE"},
                     outcome : {"SUCCEEDED", "DUPLICATE", "FAILED", "BLOCKED"},
                     input : Digest \cup {run.key, run.key.sha},
                     output : Digest \cup {None}, evidence : Run \cup {None}] :
         WellFormedReceipt(receipt)}

Offer(event, receipt, existing) ==
  /\ LET next == Transition(run, event, receipt, existing)
     IN  next # None /\ run' = next
  /\ accepted' = IF receipt = None THEN accepted ELSE accepted \cup {receipt}
  /\ UNCHANGED prior

Step ==
  \/ \E event \in DOMAIN Simple : Offer(event, None, None)
  \/ \E receipt \in OfferedReceipt :
       \/ \E event \in RunEvent \ DOMAIN Simple : Offer(event, receipt, prior)
       \/ Offer("MARK_DUPLICATE", receipt, None)

Next ==
  \/ \E k \in Identity : PlanRun(k)
  \/ run # None /\ Step

Spec == Init /\ [][Next]_vars

-----------------------------------------------------------------------------
TypeOK ==
  /\ prior \in Publication \cup {None}
  /\ \A receipt \in accepted : WellFormedReceipt(receipt)
  /\ run # None =>
       /\ run.id = Self
       /\ run.key \in Identity
       /\ run.state \in RunState
       /\ run.receipts \subseteq Slot
       /\ run.lastKnownGood \in Publication \cup {None}

Accepted(stage) == {receipt \in accepted : receipt.stage = stage /\ receipt.outcome = "SUCCEEDED"}

(* What is published was extracted, profiled and validated by this very    *)
(* run, each stage once and on the result of the one before: no order of   *)
(* events, no receipt of another run or stage, publishes a bundle that was *)
(* not validated ("solo COMPLETE_PUBLISH con entrada y salida iguales al   *)
(* bundle validado crea el nuevo LKG").                                    *)
PublishedWasValidated ==
  run # None /\ run.state = "PUBLISHED" =>
    \E extract, profile, validate, publish \in accepted :
      /\ Accepted("EXTRACT") = {extract}
      /\ Accepted("PROFILE") = {profile}
      /\ Accepted("VALIDATE") = {validate}
      /\ Accepted("PUBLISH") = {publish}
      /\ extract.input = run.key.sha
      /\ profile.input = extract.output
      /\ validate.input = profile.output
      /\ validate.output = profile.output
      /\ publish.input = validate.output
      /\ publish.output = validate.output
      /\ run.lastKnownGood.bundle = publish.output

(* The last-known-good of a run is the one it was planned against until it *)
(* is PUBLISHED, and a published one never goes back to an earlier cut-off *)
(* date nor to another source of the same date.                            *)
LastKnownGoodUntilPublished ==
  run # None =>
    /\ run.state # "PUBLISHED" => run.lastKnownGood = prior
    /\ prior # None =>
         /\ run.key.asOf >= prior.key.asOf
         /\ run.key.asOf = prior.key.asOf => run.key.sha = prior.key.sha

(* A run marked duplicate is what was already published, by another run,   *)
(* and nothing of it was extracted.                                        *)
DuplicateIsThePublication ==
  run # None /\ run.state = "DUPLICATE" =>
    /\ prior # None
    /\ prior.key = run.key
    /\ \E receipt \in accepted :
         receipt.stage = "DUPLICATE" /\ receipt.output = prior.bundle /\ receipt.evidence = prior.run
    /\ Accepted("EXTRACT") = {}

(* Whatever stage a run is in, its failure can still be recorded, as FAILED *)
(* and as BLOCKED: the transition table and the inspection of a run agree, *)
(* so the runner never meets failure_transition_not_recorded.              *)
FailureCanBeRecorded ==
  run # None /\ run.state \notin Terminal =>
    \A event \in {"FAIL", "BLOCK"} :
      LET outcome == IF event = "FAIL" THEN "FAILED" ELSE "BLOCKED"
      IN  Transition(run, event, Receipt(run, StageOf[run.state], outcome, None, None), None) # None
=============================================================================
