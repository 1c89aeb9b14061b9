-------------------------- MODULE PipelineRunProofs --------------------------
(***************************************************************************)
(* What a run of the pipeline foundation promises its callers, proved for  *)
(* any identities, digests and runs.                                       *)
(*                                                                         *)
(* The inductive invariant adds to the three properties what makes them    *)
(* survive a step: the foundation inspects every run before and after a    *)
(* transition, so the receipts a run has are those of its state; and for   *)
(* each receipt it has, exactly one was accepted, whose input and output   *)
(* are what the run carries on.                                            *)
(***************************************************************************)
EXTENDS PipelineRun, TLAPS

RunType ==
  [id : {Self}, key : Identity, state : RunState, receipts : SUBSET Slot,
   extract : Digest \cup {None}, candidate : Digest \cup {None}, published : Digest \cup {None},
   lastKnownGood : Publication \cup {None},
   failure : [stage : Stage, outcome : {"FAILED", "BLOCKED"}] \cup {None}]

\* the run has the receipt of this slot, so one was accepted, with this input
\* and output; it has not, so none was
Once(slot, stage, input, output) ==
  IF slot \in run.receipts
  THEN \E receipt \in accepted :
         /\ Accepted(stage) = {receipt}
         /\ receipt.input = input
         /\ receipt.output = output
  ELSE Accepted(stage) = {}

\* each stage worked on the result of the one before
Chained ==
  /\ Once("extract", "EXTRACT", run.key.sha, run.extract)
  /\ Once("profile", "PROFILE", run.extract, run.candidate)
  /\ Once("validate", "VALIDATE", run.candidate, run.candidate)
  /\ Once("publish", "PUBLISH", run.candidate, run.candidate)

PlannedOnPrior ==
  /\ PlanCode(run.key, prior) = "RUN_PLANNED"
  /\ run.state # "PUBLISHED" => run.lastKnownGood = prior

DuplicateOfPrior ==
  "duplicate" \in run.receipts =>
    /\ prior # None
    /\ prior.key = run.key
    /\ \E receipt \in accepted :
         receipt.stage = "DUPLICATE" /\ receipt.output = prior.bundle /\ receipt.evidence = prior.run

IInv ==
  /\ prior \in Publication \cup {None}
  /\ \A receipt \in accepted : WellFormedReceipt(receipt)
  /\ run = None => accepted = {}
  /\ run # None =>
       /\ run \in RunType
       /\ InspectRun(run)
       /\ Chained
       /\ PlannedOnPrior
       /\ DuplicateOfPrior

-----------------------------------------------------------------------------
\* from a state its event starts from, with a receipt made for it, to a run
\* that was inspected again
Taken(r, event, receipt, existing, next) ==
  /\ InspectRun(r)
  /\ InspectRun(next)
  /\ r.state \notin Terminal
  /\ \/ /\ event \in DOMAIN Simple
        /\ receipt = None
        /\ r.state = Simple[event].from
        /\ next = [r EXCEPT !.state = Simple[event].to]
     \/ /\ event \in DOMAIN Completion
        /\ r.state = Completion[event].from
        /\ ReceiptFor(r, receipt, Completion[event].stage, "SUCCEEDED")
        /\ SameBundle(r, receipt)
        /\ next = Completed(r, Completion[event], receipt)
     \/ /\ event = "MARK_DUPLICATE"
        /\ r.state = "LOCKED"
        /\ ReceiptFor(r, receipt, "DUPLICATE", "DUPLICATE")
        /\ existing # None
        /\ existing = r.lastKnownGood
        /\ existing.key = r.key
        /\ receipt.output = existing.bundle
        /\ receipt.evidence = existing.run
        /\ next = [r EXCEPT !.state = "DUPLICATE", !.receipts = @ \cup {"duplicate"}]
     \/ \E outcome \in {"FAILED", "BLOCKED"} :
        /\ event \in {"FAIL", "BLOCK"}
        /\ ReceiptFor(r, receipt, StageOf[r.state], outcome)
        /\ next = [r EXCEPT !.state = outcome, !.receipts = @ \cup {"failure"},
                            !.failure = [stage |-> StageOf[r.state], outcome |-> outcome]]

(* A step that is not refused is one of four kinds, between inspected runs. *)
LEMMA TransitionTaken ==
  ASSUME NEW r, NEW event \in RunEvent, NEW receipt, NEW existing,
         Transition(r, event, receipt, existing) # None
  PROVE  Taken(r, event, receipt, existing, Transition(r, event, receipt, existing))
<1> DEFINE next == Transition(r, event, receipt, existing)
<1>1. InspectRun(r) /\ r.state \notin Terminal
  BY DEF Transition
<1>2. CASE event \in DOMAIN Simple
  <2>1. next = SimpleStep(r, event, receipt)
    BY <1>1, <1>2 DEF Transition
  <2> QED BY <1>1, <1>2, <2>1 DEF SimpleStep, Checked, Taken
<1>3. CASE event \in DOMAIN Completion /\ event \notin DOMAIN Simple
  <2>1. next = CompletionStep(r, event, receipt)
    BY <1>1, <1>3 DEF Transition
  <2> QED BY <1>1, <1>3, <2>1 DEF CompletionStep, Checked, Taken
<1>4. CASE event = "MARK_DUPLICATE"
  <2>1. next = DuplicateStep(r, receipt, existing)
    BY <1>1, <1>4 DEF Transition, Simple, Completion
  <2> QED BY <1>1, <1>4, <2>1 DEF DuplicateStep, Checked, Taken
<1>5. CASE event \in {"FAIL", "BLOCK"}
  <2>1. next = FailureStep(r, event, receipt)
    BY <1>1, <1>5 DEF Transition, Simple, Completion
  <2>2. \E outcome \in {"FAILED", "BLOCKED"} :
          /\ ReceiptFor(r, receipt, StageOf[r.state], outcome)
          /\ next = Checked([r EXCEPT !.state = outcome, !.receipts = @ \cup {"failure"},
                                      !.failure = [stage |-> StageOf[r.state], outcome |-> outcome]])
    BY <1>5, <2>1 DEF FailureStep
  <2> QED BY <1>1, <1>5, <2>2 DEF Checked, Taken
<1> QED BY <1>2, <1>3, <1>4, <1>5 DEF RunEvent

-----------------------------------------------------------------------------
(* The invariant holds of every initial state. *)
LEMMA InitInv == Init => IInv
BY DEF Init, IInv, Publication

(* Planning starts a run without receipts, on the publication it found. *)
LEMMA PlanInv ==
  ASSUME IInv, NEW k \in Identity, PlanRun(k)
  PROVE  IInv'
<1>1. run' = PlannedRun(Self, k, prior) /\ prior' = prior /\ accepted' = accepted /\ run = None
  BY DEF PlanRun
<1>2. PlanCode(k, prior) = "RUN_PLANNED"
  BY DEF PlanRun
<1>3. accepted = {} /\ prior \in Publication \cup {None}
  BY <1>1 DEF IInv
<1>4. /\ run'.id = Self
      /\ run'.key = k
      /\ run'.state = "PLANNED"
      /\ run'.receipts = {}
      /\ run'.extract = None
      /\ run'.candidate = None
      /\ run'.published = None
      /\ run'.lastKnownGood = prior
      /\ run'.failure = None
  BY <1>1 DEF PlannedRun
<1>5. run' \in RunType
  BY <1>1, <1>3 DEF PlannedRun, RunType, RunState
<1>6. InspectRun(run')
  BY <1>2, <1>4 DEF InspectRun, BaseProgress, StageOf, Done
<1>7. Chained'
  BY <1>1, <1>3, <1>4 DEF Chained, Once, Accepted
<1>8. PlannedOnPrior' /\ DuplicateOfPrior'
  BY <1>1, <1>2, <1>4 DEF PlannedOnPrior, DuplicateOfPrior
<1> QED BY <1>1, <1>3, <1>5, <1>6, <1>7, <1>8 DEF IInv

-----------------------------------------------------------------------------
(* A step that completes no stage leaves the chain of the stages alone. *)
LEMMA ChainKept ==
  ASSUME Chained,
         \A stage \in {"EXTRACT", "PROFILE", "VALIDATE", "PUBLISH"} : Accepted(stage)' = Accepted(stage),
         accepted \subseteq accepted',
         run'.key = run.key, run'.extract = run.extract, run'.candidate = run.candidate,
         \A slot \in {"extract", "profile", "validate", "publish"} :
           slot \in run'.receipts <=> slot \in run.receipts
  PROVE  Chained'
BY DEF Chained, Once

(* Starting a stage changes the state only. *)
LEMMA SimpleInv ==
  ASSUME IInv, run # None, NEW event \in DOMAIN Simple, Offer(event, None, None)
  PROVE  IInv'
<1>1. /\ run' = Transition(run, event, None, None)
      /\ run' # None
      /\ accepted' = accepted
      /\ prior' = prior
  BY DEF Offer
<1>2. Taken(run, event, None, None, run')
  BY <1>1, TransitionTaken DEF RunEvent
<1>3. /\ InspectRun(run')
      /\ run.state \notin Terminal
      /\ run' = [run EXCEPT !.state = Simple[event].to]
  BY <1>2 DEF Taken, Simple, Completion
<1>4. run \in RunType /\ Chained /\ PlannedOnPrior /\ DuplicateOfPrior
  BY DEF IInv
<1>5. Simple[event].to \in RunState \ Terminal
  BY DEF Simple, RunState, Terminal
<1>6. /\ run'.state = Simple[event].to
      /\ run'.key = run.key
      /\ run'.receipts = run.receipts
      /\ run'.extract = run.extract
      /\ run'.candidate = run.candidate
      /\ run'.lastKnownGood = run.lastKnownGood
  BY <1>3, <1>4 DEF RunType
<1>7. run' \in RunType
  BY <1>3, <1>4, <1>5 DEF RunType, RunState
<1>8. Chained'
  BY <1>1, <1>4, <1>6, ChainKept DEF Accepted
<1>9. PlannedOnPrior'
  BY <1>1, <1>3, <1>4, <1>6 DEF PlannedOnPrior, Terminal
<1>10. DuplicateOfPrior'
  BY <1>1, <1>4, <1>6 DEF DuplicateOfPrior
<1> QED BY <1>1, <1>3, <1>7, <1>8, <1>9, <1>10 DEF IInv

(* The receipt that completes a stage is the only one of its stage, and    *)
(* works on the result the stage before it left in the run.                *)
LEMMA CompletionInv ==
  ASSUME IInv, run # None, NEW event \in DOMAIN Completion, NEW receipt \in OfferedReceipt,
         Offer(event, receipt, prior)
  PROVE  IInv'
<1>1. /\ run' = Transition(run, event, receipt, prior)
      /\ run' # None
      /\ prior' = prior
  BY DEF Offer
<1>2. Taken(run, event, receipt, prior, run')
  BY <1>1, TransitionTaken DEF RunEvent
<1>3. /\ InspectRun(run)
      /\ InspectRun(run')
      /\ run.state \notin Terminal
      /\ run.state = Completion[event].from
      /\ ReceiptFor(run, receipt, Completion[event].stage, "SUCCEEDED")
      /\ SameBundle(run, receipt)
      /\ run' = Completed(run, Completion[event], receipt)
  BY <1>2 DEF Taken, Simple, Completion
<1>4. run \in RunType /\ Chained /\ PlannedOnPrior /\ DuplicateOfPrior
  BY DEF IInv
<1>5. /\ WellFormedReceipt(receipt)
      /\ receipt.run \in Run
      /\ receipt.output \in Digest \cup {None}
  BY DEF OfferedReceipt
<1>6. /\ receipt # None
      /\ receipt.run = run.id
      /\ receipt.stage = Completion[event].stage
      /\ receipt.outcome = "SUCCEEDED"
      /\ receipt.input = ExpectedInput(run, Completion[event].stage)
  BY <1>3 DEF ReceiptFor
<1>7. receipt.output \in Digest
  BY <1>5, <1>6 DEF WellFormedReceipt
<1>8. accepted' = accepted \cup {receipt}
  BY <1>6 DEF Offer
<1>9. /\ run'.state = Completion[event].to
      /\ run'.key = run.key
      /\ run'.receipts = run.receipts \cup {Completion[event].slot}
      /\ run'.extract = IF receipt.stage = "EXTRACT" THEN receipt.output ELSE run.extract
      /\ run'.candidate = IF receipt.stage = "PROFILE" THEN receipt.output ELSE run.candidate
      /\ receipt.stage # "PUBLISH" => run'.lastKnownGood = run.lastKnownGood
  BY <1>3, <1>4, <1>6 DEF Completed, RunType
<1>10. run' \in RunType
  <2>1. [key |-> run.key, bundle |-> receipt.output, run |-> run.id] \in Publication
    BY <1>4, <1>5, <1>6, <1>7 DEF RunType, Publication
  <2>2. Completion[event].to \in RunState /\ Completion[event].slot \in Slot
    BY DEF Completion, RunState, Terminal, Slot
  <2> QED BY <1>3, <1>4, <1>7, <2>1, <2>2 DEF Completed, RunType
<1>11. \A stage \in {"EXTRACT", "PROFILE", "VALIDATE", "PUBLISH"} :
         Accepted(stage)' = IF stage = receipt.stage THEN Accepted(stage) \cup {receipt} ELSE Accepted(stage)
  BY <1>6, <1>8 DEF Accepted
<1>12. Chained'
  <2>1. CASE event = "ACQUIRE_LOCK"
    <3>1. receipt.stage = "LOCK" /\ Completion[event].slot = "lock"
      BY <1>6, <2>1 DEF Completion
    <3> QED BY <1>4, <1>8, <1>9, <1>11, <3>1, ChainKept
  <2>2. CASE event = "COMPLETE_EXTRACT"
    <3>1. receipt.stage = "EXTRACT" /\ Completion[event].slot = "extract" /\ run.receipts = {"lock"}
      BY <1>3, <1>6, <2>2 DEF Completion, InspectRun, StageOf, Done, BaseProgress
    <3>2. receipt.input = run.key.sha
      BY <1>6, <2>2 DEF Completion, ExpectedInput
    <3> QED BY <1>4, <1>8, <1>9, <1>11, <3>1, <3>2 DEF Chained, Once
  <2>3. CASE event = "COMPLETE_PROFILE"
    <3>1. receipt.stage = "PROFILE" /\ Completion[event].slot = "profile"
          /\ run.receipts = {"lock", "extract"}
      BY <1>3, <1>6, <2>3 DEF Completion, InspectRun, StageOf, Done, BaseProgress
    <3>2. receipt.input = run.extract
      BY <1>6, <2>3 DEF Completion, ExpectedInput
    <3> QED BY <1>4, <1>8, <1>9, <1>11, <3>1, <3>2 DEF Chained, Once
  <2>4. CASE event = "COMPLETE_VALIDATE"
    <3>1. receipt.stage = "VALIDATE" /\ Completion[event].slot = "validate"
          /\ run.receipts = {"lock", "extract", "profile"}
      BY <1>3, <1>6, <2>4 DEF Completion, InspectRun, StageOf, Done, BaseProgress
    <3>2. receipt.input = run.candidate /\ receipt.output = run.candidate
      BY <1>3, <1>6, <2>4, <3>1 DEF Completion, ExpectedInput, SameBundle
    <3> QED BY <1>4, <1>8, <1>9, <1>11, <3>1, <3>2 DEF Chained, Once
  <2>5. CASE event = "COMPLETE_PUBLISH"
    <3>1. receipt.stage = "PUBLISH" /\ Completion[event].slot = "publish"
          /\ run.receipts = {"lock", "extract", "profile", "validate"}
      BY <1>3, <1>6, <2>5 DEF Completion, InspectRun, StageOf, Done, BaseProgress
    <3>2. receipt.input = run.candidate /\ receipt.output = run.candidate
      BY <1>3, <1>6, <2>5, <3>1 DEF Completion, ExpectedInput, SameBundle
    <3> QED BY <1>4, <1>8, <1>9, <1>11, <3>1, <3>2 DEF Chained, Once
  <2> QED BY <2>1, <2>2, <2>3, <2>4, <2>5 DEF Completion
<1>13. PlannedOnPrior'
  <2>1. receipt.stage = "PUBLISH" => run'.state = "PUBLISHED"
    BY <1>6, <1>9 DEF Completion
  <2> QED BY <1>1, <1>3, <1>4, <1>9, <2>1 DEF PlannedOnPrior, Terminal
<1>14. DuplicateOfPrior'
  <2>1. Completion[event].slot # "duplicate"
    BY DEF Completion
  <2> QED BY <1>1, <1>4, <1>8, <1>9, <2>1 DEF DuplicateOfPrior
<1> QED BY <1>1, <1>3, <1>5, <1>8, <1>10, <1>12, <1>13, <1>14 DEF IInv

(* A duplicate is marked with the receipt of the publication it repeats. *)
LEMMA DuplicateInv ==
  ASSUME IInv, run # None, NEW receipt \in OfferedReceipt, NEW existing,
         Offer("MARK_DUPLICATE", receipt, existing)
  PROVE  IInv'
<1>1. /\ run' = Transition(run, "MARK_DUPLICATE", receipt, existing)
      /\ run' # None
      /\ prior' = prior
  BY DEF Offer
<1>2. Taken(run, "MARK_DUPLICATE", receipt, existing, run')
  BY <1>1, TransitionTaken DEF RunEvent
<1>3. /\ InspectRun(run')
      /\ run.state = "LOCKED"
      /\ ReceiptFor(run, receipt, "DUPLICATE", "DUPLICATE")
      /\ existing # None
      /\ existing = run.lastKnownGood
      /\ existing.key = run.key
      /\ receipt.output = existing.bundle
      /\ receipt.evidence = existing.run
      /\ run' = [run EXCEPT !.state = "DUPLICATE", !.receipts = @ \cup {"duplicate"}]
  BY <1>2 DEF Taken, Simple, Completion
<1>4. run \in RunType /\ Chained /\ PlannedOnPrior /\ DuplicateOfPrior
  BY DEF IInv
<1>5. /\ receipt # None
      /\ receipt.stage = "DUPLICATE"
      /\ receipt.outcome = "DUPLICATE"
      /\ WellFormedReceipt(receipt)
  BY <1>3 DEF ReceiptFor, OfferedReceipt
<1>6. accepted' = accepted \cup {receipt}
  BY <1>5 DEF Offer
<1>7. /\ run'.state = "DUPLICATE"
      /\ run'.key = run.key
      /\ run'.receipts = run.receipts \cup {"duplicate"}
      /\ run'.extract = run.extract
      /\ run'.candidate = run.candidate
      /\ run'.lastKnownGood = run.lastKnownGood
  BY <1>3, <1>4 DEF RunType
<1>8. run' \in RunType
  BY <1>3, <1>4 DEF RunType, RunState, Terminal, Slot
<1>9. Chained'
  <2>1. \A stage \in {"EXTRACT", "PROFILE", "VALIDATE", "PUBLISH"} : Accepted(stage)' = Accepted(stage)
    BY <1>5, <1>6 DEF Accepted
  <2> QED BY <1>4, <1>6, <1>7, <2>1, ChainKept
<1>10. prior = run.lastKnownGood
  BY <1>3, <1>4 DEF PlannedOnPrior
<1>11. PlannedOnPrior' /\ DuplicateOfPrior'
  BY <1>1, <1>3, <1>4, <1>5, <1>6, <1>7, <1>10 DEF PlannedOnPrior, DuplicateOfPrior
<1> QED BY <1>1, <1>3, <1>5, <1>6, <1>8, <1>9, <1>11 DEF IInv

(* A failure ends the run and changes nothing it carries. *)
LEMMA FailureInv ==
  ASSUME IInv, run # None, NEW event \in {"FAIL", "BLOCK"}, NEW receipt \in OfferedReceipt,
         Offer(event, receipt, prior)
  PROVE  IInv'
<1>1. /\ run' = Transition(run, event, receipt, prior)
      /\ run' # None
      /\ prior' = prior
  BY DEF Offer
<1>2. Taken(run, event, receipt, prior, run')
  BY <1>1, TransitionTaken DEF RunEvent
<1>3. PICK outcome \in {"FAILED", "BLOCKED"} :
        /\ ReceiptFor(run, receipt, StageOf[run.state], outcome)
        /\ run' = [run EXCEPT !.state = outcome, !.receipts = @ \cup {"failure"},
                              !.failure = [stage |-> StageOf[run.state], outcome |-> outcome]]
  BY <1>2 DEF Taken, Simple, Completion
<1>4. /\ InspectRun(run')
      /\ run.state \notin Terminal
  BY <1>2 DEF Taken
<1>5. run \in RunType /\ Chained /\ PlannedOnPrior /\ DuplicateOfPrior
  BY DEF IInv
<1>6. /\ receipt # None
      /\ receipt.outcome = outcome
      /\ WellFormedReceipt(receipt)
  BY <1>3 DEF ReceiptFor, OfferedReceipt
<1>7. accepted' = accepted \cup {receipt}
  BY <1>6 DEF Offer
<1>8. /\ run'.state = outcome
      /\ run'.key = run.key
      /\ run'.receipts = run.receipts \cup {"failure"}
      /\ run'.extract = run.extract
      /\ run'.candidate = run.candidate
      /\ run'.lastKnownGood = run.lastKnownGood
  BY <1>3, <1>5 DEF RunType
<1>9. run' \in RunType
  <2>1. run.state \in RunState \ Terminal
    BY <1>4, <1>5 DEF RunType
  <2>2. StageOf[run.state] \in Stage
    BY <2>1 DEF RunState, Terminal, StageOf, Stage
  <2>3. [stage |-> StageOf[run.state], outcome |-> outcome]
          \in [stage : Stage, outcome : {"FAILED", "BLOCKED"}]
    BY <2>2
  <2> QED BY <1>3, <1>5, <2>3 DEF RunType, RunState, Terminal, Slot
<1>10. Chained'
  <2>1. \A stage \in {"EXTRACT", "PROFILE", "VALIDATE", "PUBLISH"} : Accepted(stage)' = Accepted(stage)
    BY <1>6, <1>7 DEF Accepted
  <2> QED BY <1>5, <1>7, <1>8, <2>1, ChainKept
<1>11. PlannedOnPrior'
  BY <1>1, <1>4, <1>5, <1>8 DEF PlannedOnPrior, Terminal
<1>12. DuplicateOfPrior'
  BY <1>1, <1>5, <1>7, <1>8 DEF DuplicateOfPrior
<1> QED BY <1>1, <1>4, <1>6, <1>7, <1>9, <1>10, <1>11, <1>12 DEF IInv

(* Every step of a caller keeps the invariant. *)
LEMMA StepInv == IInv /\ [Next]_vars => IInv'
<1> SUFFICES ASSUME IInv, [Next]_vars PROVE IInv'
  OBVIOUS
<1>1. CASE \E k \in Identity : PlanRun(k)
  BY <1>1, PlanInv
<1>2. CASE run # None /\ Step
  <2>1. CASE \E event \in DOMAIN Simple : Offer(event, None, None)
    BY <1>2, <2>1, SimpleInv
  <2>2. ASSUME NEW receipt \in OfferedReceipt, NEW event \in RunEvent \ DOMAIN Simple,
               Offer(event, receipt, prior)
        PROVE  IInv'
    <3>1. CASE event \in DOMAIN Completion
      BY <1>2, <2>2, <3>1, CompletionInv
    <3>2. CASE event = "MARK_DUPLICATE"
      BY <1>2, <2>2, <3>2, DuplicateInv
    <3>3. CASE event \in {"FAIL", "BLOCK"}
      BY <1>2, <2>2, <3>3, FailureInv
    <3> QED BY <2>2, <3>1, <3>2, <3>3 DEF RunEvent
  <2>3. ASSUME NEW receipt \in OfferedReceipt, Offer("MARK_DUPLICATE", receipt, None)
        PROVE  IInv'
    BY <1>2, <2>3, DuplicateInv
  <2> QED BY <1>2, <2>1, <2>2, <2>3 DEF Step
<1>3. CASE UNCHANGED vars
  BY <1>3 DEF vars, IInv, Chained, Once, Accepted, PlannedOnPrior, DuplicateOfPrior
<1> QED BY <1>1, <1>2, <1>3 DEF Next

(* The inductive invariant holds in every reachable state, whatever the    *)
(* caller offers.                                                          *)
THEOREM RunInvariant == Spec => []IInv
BY InitInv, StepInv, PTL DEF Spec

-----------------------------------------------------------------------------
(* Every variable keeps its type: the run stays this caller's run, of one  *)
(* identity, in a known state.                                             *)
THEOREM RunTypeCorrect == Spec => []TypeOK
<1>1. IInv => TypeOK
  BY DEF IInv, TypeOK, RunType
<1> QED BY <1>1, RunInvariant, PTL

(* Whatever events and receipts a caller offers, in whatever order, a      *)
(* published bundle was extracted, profiled and validated by this run, each *)
(* stage on the result of the one before.                                  *)
THEOREM PublicationValidated == Spec => []PublishedWasValidated
<1>1. ASSUME IInv, run # None, run.state = "PUBLISHED"
      PROVE  \E extract, profile, validate, publish \in accepted :
               /\ Accepted("EXTRACT") = {extract}
               /\ Accepted("PROFILE") = {profile}
               /\ Accepted("VALIDATE") = {validate}
               /\ Accepted("PUBLISH") = {publish}
               /\ extract.input = run.key.sha
               /\ profile.input = extract.output
               /\ validate.input = profile.output
               /\ validate.output = profile.output
               /\ publish.input = validate.output
               /\ publish.output = validate.output
               /\ run.lastKnownGood.bundle = publish.output
  <2>1. PublishedProgress(run)
    BY <1>1 DEF IInv, InspectRun
  <2>2. {"extract", "profile", "validate", "publish"} \subseteq run.receipts
    BY <2>1 DEF PublishedProgress, BaseProgress, Done
  <2>3. run.lastKnownGood.bundle = run.candidate
    BY <2>1 DEF PublishedProgress
  <2>4. Chained
    BY <1>1 DEF IInv
  <2>5. PICK extract \in accepted :
          Accepted("EXTRACT") = {extract} /\ extract.input = run.key.sha /\ extract.output = run.extract
    BY <2>2, <2>4 DEF Chained, Once
  <2>6. PICK profile \in accepted :
          Accepted("PROFILE") = {profile} /\ profile.input = run.extract /\ profile.output = run.candidate
    BY <2>2, <2>4 DEF Chained, Once
  <2>7. PICK validate \in accepted :
          Accepted("VALIDATE") = {validate} /\ validate.input = run.candidate /\ validate.output = run.candidate
    BY <2>2, <2>4 DEF Chained, Once
  <2>8. PICK publish \in accepted :
          Accepted("PUBLISH") = {publish} /\ publish.input = run.candidate /\ publish.output = run.candidate
    BY <2>2, <2>4 DEF Chained, Once
  <2> WITNESS extract \in accepted, profile \in accepted, validate \in accepted, publish \in accepted
  <2> QED BY <2>3, <2>5, <2>6, <2>7, <2>8
<1>2. IInv => PublishedWasValidated
  BY <1>1 DEF PublishedWasValidated
<1> QED BY <1>2, RunInvariant, PTL

(* The last-known-good of a run is the one it was planned against until it *)
(* publishes, and what it publishes never goes back to an earlier date nor *)
(* to another source of the same date.                                     *)
THEOREM LastKnownGoodKeptByRun == Spec => []LastKnownGoodUntilPublished
<1>1. ASSUME IInv, run # None, prior # None
      PROVE  /\ run.key.asOf >= prior.key.asOf
             /\ run.key.asOf = prior.key.asOf => run.key.sha = prior.key.sha
  <2>1. ~Older(run.key, prior) /\ ~Conflicting(run.key, prior)
    BY <1>1 DEF IInv, PlannedOnPrior, PlanCode
  <2>2. run.key.asOf \in Nat /\ prior.key.asOf \in Nat
    BY <1>1, IdentityAssumption DEF IInv, RunType, Publication
  <2> QED BY <1>1, <2>1, <2>2 DEF Older, Conflicting
<1>2. IInv => LastKnownGoodUntilPublished
  BY <1>1 DEF IInv, PlannedOnPrior, LastKnownGoodUntilPublished
<1> QED BY <1>2, RunInvariant, PTL

(* A run marked duplicate repeats the publication it was planned against,  *)
(* with that publication's receipt, and nothing of it was extracted.       *)
THEOREM DuplicateRepeatsPublication == Spec => []DuplicateIsThePublication
<1>1. ASSUME IInv, run # None, run.state = "DUPLICATE"
      PROVE  DuplicateIsThePublication
  <2>1. run.receipts = {"lock", "duplicate"}
    BY <1>1 DEF IInv, InspectRun, DuplicateProgress, BaseProgress
  <2>2. Accepted("EXTRACT") = {}
    BY <1>1, <2>1 DEF IInv, Chained, Once
  <2> QED BY <1>1, <2>1, <2>2 DEF IInv, DuplicateOfPrior, DuplicateIsThePublication
<1>2. IInv => DuplicateIsThePublication
  BY <1>1 DEF DuplicateIsThePublication
<1> QED BY <1>2, RunInvariant, PTL

(* The receipt a run asks for the failure of its stage is for it.          *)
LEMMA FailureReceipt ==
  ASSUME NEW r \in RunType, r.state \notin Terminal, NEW outcome \in {"FAILED", "BLOCKED"}
  PROVE  ReceiptFor(r, Receipt(r, StageOf[r.state], outcome, None, None), StageOf[r.state], outcome)
<1> DEFINE stage == StageOf[r.state]
           receipt == Receipt(r, stage, outcome, None, None)
<1>1. stage \in Stage
  BY DEF RunType, RunState, Terminal, StageOf, Stage
<1>2. Self \in Run
  BY SelfAssumption DEF Self
<1>3. ExpectedInput(r, stage) \in Identity \cup {k.sha : k \in Identity} \cup Digest \cup {None}
  <2>1. /\ stage = "LOCK" => ExpectedInput(r, stage) = r.key
        /\ stage = "EXTRACT" => ExpectedInput(r, stage) = r.key.sha
        /\ stage = "PROFILE" => ExpectedInput(r, stage) = r.extract
        /\ stage \in {"VALIDATE", "PUBLISH"} => ExpectedInput(r, stage) = r.candidate
    BY DEF ExpectedInput
  <2>2. r.key \in Identity /\ r.extract \in Digest \cup {None} /\ r.candidate \in Digest \cup {None}
    BY DEF RunType
  <2> HIDE DEF stage
  <2> QED BY <1>1, <2>1, <2>2 DEF Stage
<1>4. receipt \in StageReceipt
  <2> DEFINE input == ExpectedInput(r, stage)
  <2>1. r.id \in Run /\ r.key \in Identity
    BY <1>2 DEF RunType
  <2>2. receipt = [run |-> r.id, key |-> r.key, stage |-> stage, outcome |-> outcome,
                   input |-> input, output |-> None, evidence |-> None]
    BY DEF Receipt
  <2> HIDE DEF input, stage, receipt
  <2> QED BY <1>1, <1>3, <2>1, <2>2 DEF StageReceipt, input
<1>5. receipt # None
  BY <1>4, RecordAssumption
<1> QED BY <1>5 DEF ReceiptFor, Receipt

(* Whatever stage a run is in, its failure is taken, as FAILED and as      *)
(* BLOCKED: the run it leads to passes inspection, since it has exactly    *)
(* the receipts its failed stage comes after.                              *)
THEOREM FailureIsRecorded == Spec => []FailureCanBeRecorded
<1>1. ASSUME IInv, run # None, run.state \notin Terminal, NEW event \in {"FAIL", "BLOCK"}
      PROVE  LET outcome == IF event = "FAIL" THEN "FAILED" ELSE "BLOCKED"
             IN  Transition(run, event, Receipt(run, StageOf[run.state], outcome, None, None), None) # None
  <2> DEFINE outcome == IF event = "FAIL" THEN "FAILED" ELSE "BLOCKED"
             stage == StageOf[run.state]
             receipt == Receipt(run, stage, outcome, None, None)
             failed == [stage |-> stage, outcome |-> outcome]
             next == [run EXCEPT !.state = outcome, !.receipts = @ \cup {"failure"}, !.failure = failed]
  <2>1. run \in RunType /\ InspectRun(run)
    BY <1>1 DEF IInv
  <2>2. /\ run.state \in DOMAIN StageOf /\ stage \in Stage
        /\ outcome \in {"FAILED", "BLOCKED"}
    BY <1>1, <2>1 DEF RunType, RunState, Terminal, StageOf, Stage
  <2>3. BaseProgress(run, Done[stage]) /\ "publish" \notin Done[stage] /\ "failure" \notin Done[stage]
    BY <2>1, <2>2 DEF InspectRun, Stage, Done
  <2>4. ReceiptFor(run, receipt, stage, outcome)
    BY <1>1, <2>1, <2>2, FailureReceipt
  <2>5. failed \in Failure /\ failed.stage = stage /\ failed.outcome = outcome
    BY <2>2 DEF Failure
  <2> HIDE DEF failed
  <2>6. /\ next.id = run.id /\ next.key = run.key /\ next.state = outcome
        /\ next.receipts = run.receipts \cup {"failure"}
        /\ next.extract = run.extract /\ next.candidate = run.candidate
        /\ next.published = run.published /\ next.lastKnownGood = run.lastKnownGood
        /\ next.failure = failed
    BY <2>1 DEF RunType
  <2>7. next # None
    <3>1. next \in RunRecord
      <4>1. Self \in Run
        BY SelfAssumption DEF Self
      <4>2. outcome \in RunState /\ "failure" \in Slot
        BY <2>2 DEF RunState, Terminal, Slot
      <4>3. run \in RunRecord
        BY <2>1, <4>1 DEF RunType, RunRecord, Failure
      <4> HIDE DEF outcome
      <4> QED BY <2>5, <4>2, <4>3 DEF RunRecord
    <3> QED BY <3>1, RecordAssumption
  <2> HIDE DEF next, outcome, stage, receipt
  <2>8. InspectRun(next)
    <3>1. next.failure # None /\ next.failure.stage = stage /\ next.failure.outcome = outcome
      BY <2>5, <2>6, RecordAssumption
    <3>2. BaseProgress(next, Done[stage] \cup {"failure"})
      BY <2>3, <2>6, <3>1 DEF BaseProgress
    <3>3. FailedProgress(next)
      BY <2>6, <3>1, <3>2 DEF FailedProgress
    <3>4. outcome \notin DOMAIN StageOf /\ outcome \notin {"PUBLISHED", "DUPLICATE"}
      BY <2>2 DEF StageOf
    <3>5. PlanCode(next.key, next.lastKnownGood) = "RUN_PLANNED"
      BY <2>1, <2>6 DEF InspectRun
    <3> QED BY <2>6, <3>3, <3>4, <3>5 DEF InspectRun
  <2>9. FailureStep(run, event, receipt) = next
    BY <2>4, <2>8 DEF FailureStep, Checked, next, failed, outcome, stage
  <2>10. Transition(run, event, receipt, None) = next
    <3>1. event \notin DOMAIN Simple /\ event \notin DOMAIN Completion /\ event # "MARK_DUPLICATE"
      BY DEF Simple, Completion
    <3> QED BY <1>1, <2>1, <2>9, <3>1 DEF Transition
  <2> QED BY <2>7, <2>10 DEF receipt, stage, outcome
<1>2. IInv => FailureCanBeRecorded
  BY <1>1 DEF FailureCanBeRecorded
<1> QED BY <1>2, RunInvariant, PTL
=============================================================================
