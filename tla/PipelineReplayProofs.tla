------------------------ MODULE PipelineReplayProofs ------------------------
(***************************************************************************)
(* What replays into one state directory leave in it, proved for any       *)
(* processes, identities and digests and any number of failed calls, kills *)
(* and removed locks.                                                      *)
(*                                                                         *)
(* The argument has six layers, each resting on those before it.  RunOK:   *)
(* where a process stands says exactly what its run record is, so no       *)
(* transition the runner asks for is refused.  HeldOK: between the second  *)
(* lock and the release a process holds both lock files, so one alone is   *)
(* inside for its snapshot.  TablesOK: version, activation and pointer are *)
(* written in this order and nothing un-writes the first two.  KInv: what  *)
(* became of the last-known-good while its replacement is tried, and how   *)
(* many calls must have failed to get there.  Tidy, of histories without a *)
(* failed call or a kill: what a process may leave is named by where it    *)
(* stands, and is nothing once it has ended.  RInv: whom each activation   *)
(* follows, and which publication counts while files are moved; with it    *)
(* the files implement the register.                                       *)
(***************************************************************************)
EXTENDS PipelineReplay, FiniteSetTheorems, SequenceTheorems, TLAPS

-----------------------------------------------------------------------------
(* The run records. *)

\* the state of the run of a process that stands here
StateAt(place) ==
  IF place = "ledger" THEN "PLANNED"
  ELSE IF place = "decide" THEN "LOCKED"
  ELSE IF place = "extract" THEN "EXTRACTING"
  ELSE IF place = "profile" THEN "PROFILING"
  ELSE IF place = "validate" THEN "VALIDATING"
  ELSE IF place = "prepare" THEN "VALIDATED"
  ELSE "PUBLISHING"

\* a run that is not over, planned on this publication
RunIn(id, k, known, state) ==
  [id |-> id, key |-> k, state |-> state, receipts |-> Done[StageOf[state]],
   extract |-> IF "extract" \in Done[StageOf[state]] THEN TheDigest ELSE None,
   candidate |-> IF "profile" \in Done[StageOf[state]] THEN TheDigest ELSE None,
   published |-> None, lastKnownGood |-> known, failure |-> None]

PublishedRun(id, k) ==
  [id |-> id, key |-> k, state |-> "PUBLISHED", receipts |-> Done["PUBLISH"] \cup {"publish"},
   extract |-> TheDigest, candidate |-> TheDigest, published |-> TheDigest,
   lastKnownGood |-> [key |-> k, bundle |-> TheDigest, run |-> id], failure |-> None]

DuplicateRun(id, k, known) ==
  [id |-> id, key |-> k, state |-> "DUPLICATE", receipts |-> {"lock", "duplicate"},
   extract |-> None, candidate |-> None, published |-> None,
   lastKnownGood |-> known, failure |-> None]

\* a run that failed in this state
EndedRun(id, k, known, state, outcome) ==
  [id |-> id, key |-> k, state |-> outcome, receipts |-> Done[StageOf[state]] \cup {"failure"},
   extract |-> IF "extract" \in Done[StageOf[state]] THEN TheDigest ELSE None,
   candidate |-> IF "profile" \in Done[StageOf[state]] THEN TheDigest ELSE None,
   published |-> None, lastKnownGood |-> known,
   failure |-> [stage |-> StageOf[state], outcome |-> outcome]]

\* planning lets a run of this identity follow this publication
MayFollow(k, known) ==
  /\ known \in Publication \cup {None}
  /\ PlanCode(k, known) = "RUN_PLANNED"

InState(r, state) ==
  /\ run[r] = RunIn(r, key[r], run[r].lastKnownGood, state)
  /\ MayFollow(key[r], run[r].lastKnownGood)

InProgress(r) == \E state \in DOMAIN StageOf : InState(r, state)

\* its receipt could not be written
UnrecordedDuplicate(r) == failure[r] = "RECEIPT_FAILED" /\ run[r].state = "DUPLICATE"

RunOK(r) ==
  /\ at[r] \in {"begin", "target", "snapshot", "undo", "plan"} => run[r] = None
  /\ at[r] \in {"ledger", "decide"} \cup Building \cup Promoting => run[r] # None /\ InState(r, StateAt(at[r]))
  /\ at[r] \in Opening \cup Building \cup Promoting => failure[r] = None
  /\ at[r] = "receipt" =>
       /\ failure[r] # None
       /\ run[r] = None \/ InProgress(r) \/ UnrecordedDuplicate(r)
  /\ at[r] \in {"cleanWorkspace", "cleanPending"} => failure[r] # None
  /\ at[r] \in {"cleanWorkspace", "cleanPending", "release", "over"} =>
       IF failure[r] = None THEN run[r] # None /\ run[r].state \in {"PUBLISHED", "DUPLICATE"}
       ELSE \/ run[r] = None
            \/ run[r].state = (IF failure[r] \in BlockedCode THEN "BLOCKED" ELSE "FAILED")
            \/ UnrecordedDuplicate(r)
  /\ at[r] = "undo" \/ failure[r] = "STATE_INVALID" => faults > 0
  /\ at[r] = "over" => answer[r] = Told(r)

-----------------------------------------------------------------------------
(* The locks. *)

HeldBy(r) == {held[r][i] : i \in DOMAIN held[r]}

\* between the second lock and the end of the promotion
Inside == {"plan", "ledger", "decide"} \cup Building \cup Promoting

HeldOK(r) ==
  /\ at[r] \in {"begin", "target", "over"} => held[r] = <<>>
  /\ at[r] = "snapshot" => held[r] = <<TargetLock>>
  /\ at[r] \in Inside => held[r] = <<SnapshotLock(key[r]), TargetLock>>
  /\ at[r] \notin Over => \A n \in HeldBy(r) : locks[n] = r

-----------------------------------------------------------------------------
(* Version, activation, pointer. *)

Whole(ref) ==
  /\ versions[ref.key] = ref.run
  /\ activations[ref.key] # None
  /\ activations[ref.key].run = ref.run

\* how far the promotion of a process has come
PromotionOK(r) ==
  /\ at[r] \in {"draft", "rename"} /\ file[r] = "activation" =>
       versions[key[r]] = r /\ activations[key[r]] = None
  /\ at[r] \in {"draft", "rename", "setAside"} \cup Swapping /\ file[r] = "pointer" => Whole(Own(r))
  /\ at[r] \in {"setAside"} \cup Swapping => file[r] = "pointer"

TablesOK ==
  /\ pointer # None => Whole(pointer)
  /\ \A k \in Identity : activations[k] # None => versions[k] = activations[k].run
  /\ \A r \in Run : backup[r] # None => Whole(backup[r])
  /\ \A r \in Run : PromotionOK(r)

IInv == TypeOK /\ (\A r \in Run : RunOK(r) /\ HeldOK(r)) /\ TablesOK

-----------------------------------------------------------------------------
(* The last-known-good while a run tries to replace it. *)

PointerKept(r) ==
  run[r] # None /\ run[r].state # "PUBLISHED" /\ locks[TargetLock] = r =>
    /\ at[r] \in {"ledger", "decide", "promote", "draft", "rename", "setAside"} \cup Building =>
         pointer = Seen(r)
    /\ at[r] = "setAside" => pointer # None
    /\ at[r] \in {"replace", "bringBack", "reinstate"} =>
         pointer = None /\ backup[r] = Seen(r) /\ Seen(r) # None
    /\ at[r] \in {"discard", "withdraw"} =>
         pointer = Own(r) /\ backup[r] = Seen(r) /\ Seen(r) # None
    /\ at[r] \in {"setAside", "replace", "discard"} => faults >= 1
    /\ at[r] \in {"bringBack", "withdraw", "reinstate"} => faults >= 2
    /\ at[r] \in {"dropDraft"} \cup Closing => pointer = Seen(r) \/ faults >= 3

\* what a run looked at when it was let in is what it follows
HeadKept(r) ==
  at[r] \in {"decide"} \cup Building \cup Promoting => head[r] = Seen(r)

\* a pending directory is made when the bundle is written
PendingKept(r) ==
  at[r] \in Opening \cup {"extract", "profile", "validate", "prepare"} => pending[r] = "none"

-----------------------------------------------------------------------------
(* Without a failed call and a kill. *)

Unharmed == faults = 0 /\ \A r \in Run : at[r] # "killed"

\* between the activation of a run and its pointer
Linking(r) == at[r] \in {"draft", "rename"} /\ file[r] = "pointer"

ChainedTo(newest) ==
  IF Recorded = {} THEN newest = None ELSE newest # None /\ Chain(newest)

\* nothing is a process's that its place does not account for
LocksTidy(r) == \A n \in LockName : locks[n] = r => n \in HeldBy(r)

FilesTidy(r) ==
  /\ pending[r] # "none" =>
       /\ pending[r] = "owned"
       /\ at[r] \in {"sweep", "promote", "receipt", "cleanWorkspace", "cleanPending"}
  /\ backup[r] = None
  /\ \A f \in {"activation", "pointer"} :
       <<f, r>> \in drafts => at[r] = "rename" /\ file[r] = f
  /\ r \in workspace =>
       at[r] \in {"profile", "validate", "prepare", "sweep", "receipt", "cleanWorkspace"}
  /\ at[r] \notin {"setAside", "dropDraft"} \cup Swapping

\* a version without its activation is one being promoted
OrphansTidy ==
  \A k \in Identity :
    versions[k] # None /\ activations[k] = None =>
      \E r \in Run : key[r] = k /\ at[r] \in {"draft", "rename"} /\ file[r] = "activation"

\* the activations are a chain, up to the last-known-good or to its successor
ChainTidy ==
  /\ \A r \in Run : Linking(r) => ChainedTo(Own(r))
  /\ (\A r \in Run : ~Linking(r)) => ChainedTo(pointer)

Tidy == (\A r \in Run : LocksTidy(r) /\ FilesTidy(r)) /\ OrphansTidy /\ ChainTidy

-----------------------------------------------------------------------------
(* Lemmas about the foundation's decisions on these records. *)

(* There is a digest, and it is not null. *)
LEMMA TheDigestIs == TheDigest \in Digest /\ TheDigest # None
BY DigestAssumption, NoneAssumption DEF TheDigest

(* Run records that agree on every field are the same.                     *)
LEMMA SameRecord ==
  ASSUME NEW r \in RunRecord, NEW s \in RunRecord,
         r.id = s.id, r.key = s.key, r.state = s.state, r.receipts = s.receipts,
         r.extract = s.extract, r.candidate = s.candidate, r.published = s.published,
         r.lastKnownGood = s.lastKnownGood, r.failure = s.failure
  PROVE  r = s
BY DEF RunRecord

(* A stage before PUBLISH writes its slot and its result.                  *)
LEMMA CompletedIs ==
  ASSUME NEW r \in RunRecord, NEW c, NEW receipt, NEW next \in RunRecord,
         c.to \in RunState, c.slot \in Slot, c.stage # "PUBLISH", receipt.output = TheDigest,
         next.id = r.id, next.key = r.key, next.state = c.to,
         next.receipts = r.receipts \cup {c.slot},
         next.extract = (IF c.stage = "EXTRACT" THEN TheDigest ELSE r.extract),
         next.candidate = (IF c.stage = "PROFILE" THEN TheDigest ELSE r.candidate),
         next.published = r.published, next.lastKnownGood = r.lastKnownGood, next.failure = r.failure
  PROVE  Completed(r, c, receipt) = next
<1> DEFINE slots == r.receipts \cup {c.slot}
           extract == IF c.stage = "EXTRACT" THEN TheDigest ELSE r.extract
           candidate == IF c.stage = "PROFILE" THEN TheDigest ELSE r.candidate
           done == [r EXCEPT !.state = c.to, !.receipts = slots, !.extract = extract,
                             !.candidate = candidate, !.published = r.published,
                             !.lastKnownGood = r.lastKnownGood]
<1>1. Completed(r, c, receipt) = done
  BY DEF Completed
<1>7. /\ slots \in SUBSET Slot
      /\ extract \in Digest \cup {None}
      /\ candidate \in Digest \cup {None}
  BY TheDigestIs DEF RunRecord
<1>2. done \in RunRecord
  <2> HIDE DEF slots, extract, candidate
  <2> QED BY <1>7 DEF RunRecord
<1>3. /\ done.id = r.id
      /\ done.key = r.key
      /\ done.state = c.to
      /\ done.receipts = r.receipts \cup {c.slot}
      /\ done.extract = IF c.stage = "EXTRACT" THEN TheDigest ELSE r.extract
      /\ done.candidate = IF c.stage = "PROFILE" THEN TheDigest ELSE r.candidate
      /\ done.published = r.published
      /\ done.lastKnownGood = r.lastKnownGood
      /\ done.failure = r.failure
  BY DEF RunRecord
<1> HIDE DEF done
<1>4. done.receipts = next.receipts
  BY <1>3
<1>5. done.extract = next.extract /\ done.candidate = next.candidate
  BY <1>3
<1>6. /\ done.id = next.id
      /\ done.key = next.key
      /\ done.state = next.state
      /\ done.published = next.published
      /\ done.lastKnownGood = next.lastKnownGood
      /\ done.failure = next.failure
  BY <1>3
<1> QED BY <1>1, <1>2, <1>4, <1>5, <1>6, SameRecord, Zenon

(* A run on its way is a run record. *)
LEMMA RunInIsRecord ==
  ASSUME NEW id \in Run, NEW k \in Identity, NEW known \in Publication \cup {None},
         NEW state \in DOMAIN StageOf
  PROVE  RunIn(id, k, known, state) \in RunRecord /\ RunIn(id, k, known, state) # None
<1>1. state \in RunState /\ StageOf[state] \in Stage
  BY DEF StageOf, RunState, Stage
<1>2. Done[StageOf[state]] \in SUBSET Slot
  BY <1>1 DEF Stage, Done, Slot
<1>3. RunIn(id, k, known, state) \in RunRecord
  BY <1>1, <1>2, TheDigestIs DEF RunIn, RunRecord
<1> QED BY <1>3, RecordAssumption

(* A run on its way passes inspection: it has the receipts and results of  *)
(* the stages its state comes after.                                       *)
LEMMA RunInInspected ==
  ASSUME NEW id, NEW k, NEW known, MayFollow(k, known), NEW state \in DOMAIN StageOf
  PROVE  InspectRun(RunIn(id, k, known, state))
<1> DEFINE r == RunIn(id, k, known, state)
<1>1. /\ r.key = k
      /\ r.state = state
      /\ r.receipts = Done[StageOf[state]]
      /\ r.extract = IF "extract" \in Done[StageOf[state]] THEN TheDigest ELSE None
      /\ r.candidate = IF "profile" \in Done[StageOf[state]] THEN TheDigest ELSE None
      /\ r.published = None
      /\ r.lastKnownGood = known
      /\ r.failure = None
  BY DEF RunIn
<1>2. /\ state \notin {"PUBLISHED", "DUPLICATE", "FAILED", "BLOCKED"}
      /\ StageOf[state] \in Stage
  BY DEF StageOf, Stage
<1>3. "publish" \notin Done[StageOf[state]] /\ "failure" \notin Done[StageOf[state]]
  BY <1>2 DEF Stage, Done
<1> HIDE DEF r
<1>4. BaseProgress(r, Done[StageOf[state]])
  BY <1>1, <1>3, TheDigestIs DEF BaseProgress
<1>5. PlanCode(r.key, r.lastKnownGood) = "RUN_PLANNED"
  BY <1>1 DEF MayFollow
<1>6. InspectRun(r)
  BY <1>1, <1>2, <1>4, <1>5 DEF InspectRun
<1> QED BY <1>6 DEF r

(* Starting a stage takes a run to the stage's state. *)
LEMMA StartTaken ==
  ASSUME NEW id \in Run, NEW k \in Identity, NEW known, MayFollow(k, known),
         NEW event \in DOMAIN Simple
  PROVE  After(RunIn(id, k, known, Simple[event].from), event) = RunIn(id, k, known, Simple[event].to)
<1> DEFINE r == RunIn(id, k, known, Simple[event].from)
           next == RunIn(id, k, known, Simple[event].to)
<1>1. /\ Simple[event].from \in DOMAIN StageOf
      /\ Simple[event].to \in DOMAIN StageOf
      /\ Simple[event].from \notin Terminal
      /\ StageOf[Simple[event].to] = StageOf[Simple[event].from]
  BY DEF Simple, StageOf, Terminal
<1>2. InspectRun(r) /\ InspectRun(next) /\ r # None
  BY <1>1, RunInInspected, RunInIsRecord DEF MayFollow
<1>3. r.state = Simple[event].from /\ [r EXCEPT !.state = Simple[event].to] = next
  BY <1>1 DEF RunIn
<1> HIDE DEF r, next
<1>4. Transition(r, event, None, None) = next
  BY <1>1, <1>2, <1>3 DEF Transition, SimpleStep, Checked
<1> QED BY <1>2, <1>4 DEF After, r, next

(* A receipt made for a run is one for it, and is not null. *)
LEMMA ReceiptIsFor ==
  ASSUME NEW id \in Run, NEW k \in Identity, NEW known \in Publication \cup {None},
         NEW state \in DOMAIN StageOf,
         NEW stage \in Stage \cup {"DUPLICATE"},
         NEW outcome \in {"SUCCEEDED", "DUPLICATE", "FAILED", "BLOCKED"},
         NEW output \in Digest \cup {None}, NEW evidence \in Run \cup {None}
  PROVE  LET r == RunIn(id, k, known, state)
         IN  ReceiptFor(r, Receipt(r, stage, outcome, output, evidence), stage, outcome)
<1> DEFINE r == RunIn(id, k, known, state)
           receipt == Receipt(r, stage, outcome, output, evidence)
<1>1. /\ r.id = id
      /\ r.key = k
      /\ r.extract \in Digest \cup {None}
      /\ r.candidate \in Digest \cup {None}
  BY TheDigestIs DEF RunIn
<1> HIDE DEF r
<1>2. ExpectedInput(r, stage) \in Identity \cup {j.sha : j \in Identity} \cup Digest \cup {None}
  <2>1. CASE stage \in {"LOCK", "DUPLICATE"}
    BY <1>1, <2>1 DEF ExpectedInput
  <2>2. CASE stage = "EXTRACT"
    BY <1>1, <2>2 DEF ExpectedInput
  <2>3. CASE stage = "PROFILE"
    BY <1>1, <2>3 DEF ExpectedInput
  <2>4. CASE stage \in {"VALIDATE", "PUBLISH"}
    BY <1>1, <2>4 DEF ExpectedInput
  <2> QED BY <2>1, <2>2, <2>3, <2>4 DEF Stage
<1>3. receipt \in StageReceipt
  BY <1>1, <1>2 DEF Receipt, StageReceipt
<1>4. receipt # None
  BY <1>3, RecordAssumption
<1>5. ReceiptFor(r, receipt, stage, outcome)
  BY <1>4 DEF ReceiptFor, Receipt
<1> QED BY <1>5 DEF r

(* Completing a stage takes a run on its way to the next state.            *)
LEMMA CompletionTaken ==
  ASSUME NEW id \in Run, NEW k \in Identity, NEW known, MayFollow(k, known),
         NEW event \in DOMAIN Completion \ {"COMPLETE_PUBLISH"}
  PROVE  After(RunIn(id, k, known, Completion[event].from), event)
           = RunIn(id, k, known, Completion[event].to)
<1> DEFINE c == Completion[event]
           r == RunIn(id, k, known, c.from)
           next == RunIn(id, k, known, c.to)
           receipt == Receipt(r, c.stage, "SUCCEEDED", TheDigest, None)
<1>1. /\ c.from \in DOMAIN StageOf
      /\ c.to \in DOMAIN StageOf
      /\ c.from \notin Terminal
      /\ c.stage \in Stage
      /\ c.stage # "PUBLISH"
      /\ event \notin DOMAIN Simple
      /\ event \in DOMAIN Completion
  BY DEF Completion, StageOf, Terminal, Stage, Simple
<1>2. InspectRun(r) /\ InspectRun(next) /\ r # None
  BY <1>1, RunInInspected, RunInIsRecord DEF MayFollow
<1>3. ReceiptFor(r, receipt, c.stage, "SUCCEEDED")
  BY <1>1, TheDigestIs, ReceiptIsFor DEF MayFollow
<1>4. receipt.output = TheDigest /\ receipt.stage = c.stage
  BY DEF Receipt
<1>5. r.state = c.from
  BY DEF RunIn
<1>6. c.stage = "VALIDATE" => r.candidate = TheDigest
  BY DEF RunIn, Completion, StageOf, Done
<1>7. Completed(r, c, receipt) = next
  <2>1. /\ event = "ACQUIRE_LOCK" => c = [from |-> "PLANNED", to |-> "LOCKED", stage |-> "LOCK", slot |-> "lock"]
        /\ event = "COMPLETE_EXTRACT" =>
             c = [from |-> "EXTRACTING", to |-> "EXTRACTED", stage |-> "EXTRACT", slot |-> "extract"]
        /\ event = "COMPLETE_PROFILE" =>
             c = [from |-> "PROFILING", to |-> "PROFILED", stage |-> "PROFILE", slot |-> "profile"]
        /\ event = "COMPLETE_VALIDATE" =>
             c = [from |-> "VALIDATING", to |-> "VALIDATED", stage |-> "VALIDATE", slot |-> "validate"]
    BY DEF Completion
  <2>2. event \in {"ACQUIRE_LOCK", "COMPLETE_EXTRACT", "COMPLETE_PROFILE", "COMPLETE_VALIDATE"}
    BY DEF Completion
  <2>3. r \in RunRecord /\ next \in RunRecord
    BY <1>1, RunInIsRecord DEF MayFollow
  <2>4. /\ c.to \in RunState
        /\ c.slot \in Slot
        /\ c.slot \in {"lock", "extract", "profile", "validate"}
    BY <2>1, <2>2 DEF RunState, Slot
  <2>5. Done[StageOf[c.to]] = Done[StageOf[c.from]] \cup {c.slot}
    BY <2>1, <2>2 DEF StageOf, Done
  <2>6. /\ c.stage = "EXTRACT" <=> c.slot = "extract"
        /\ c.stage = "PROFILE" <=> c.slot = "profile"
    BY <2>1, <2>2
  <2>7. /\ next.id = r.id
        /\ next.key = r.key
        /\ next.state = c.to
        /\ next.receipts = r.receipts \cup {c.slot}
        /\ next.extract = IF c.stage = "EXTRACT" THEN TheDigest ELSE r.extract
        /\ next.candidate = IF c.stage = "PROFILE" THEN TheDigest ELSE r.candidate
        /\ next.published = r.published
        /\ next.lastKnownGood = r.lastKnownGood
        /\ next.failure = r.failure
    BY <2>5, <2>6 DEF RunIn
  <2> HIDE DEF r, next, c, receipt
  <2> QED BY <1>1, <1>4, <2>3, <2>4, <2>7, CompletedIs
<1> HIDE DEF r, next, receipt
<1>8. SameBundle(r, receipt)
  BY <1>1, <1>4, <1>6 DEF SameBundle
<1>9. CompletionStep(r, event, receipt) = next
  BY <1>2, <1>3, <1>5, <1>7, <1>8 DEF CompletionStep, Checked
<1>10. Transition(r, event, receipt, None) = next
  BY <1>1, <1>2, <1>5, <1>9 DEF Transition
<1>11. After(r, event) = Transition(r, event, receipt, None)
  BY <1>1, <1>2 DEF After, receipt
<1> QED BY <1>10, <1>11 DEF r, next

(* Planning the very publication a run makes, or the one it repeats, is    *)
(* never refused: no identity is older than itself or conflicts with it.   *)
LEMMA OwnPublicationFollows ==
  ASSUME NEW k \in Identity, NEW published, published.key = k
  PROVE  PlanCode(k, published) = "RUN_PLANNED"
<1>1. k.asOf \in Nat
  BY IdentityAssumption
<1>2. ~(k.asOf < k.asOf)
  BY <1>1
<1> QED BY <1>2 DEF PlanCode, Older, Conflicting

(* Completing PUBLISH publishes what the run validated.                    *)
LEMMA PublishTaken ==
  ASSUME NEW id \in Run, NEW k \in Identity, NEW known, MayFollow(k, known)
  PROVE  /\ After(RunIn(id, k, known, "PUBLISHING"), "COMPLETE_PUBLISH") = PublishedRun(id, k)
         /\ PublishedRun(id, k) \in RunRecord
         /\ PublishedRun(id, k) # None
<1> DEFINE r == RunIn(id, k, known, "PUBLISHING")
           next == PublishedRun(id, k)
           c == [from |-> "PUBLISHING", to |-> "PUBLISHED", stage |-> "PUBLISH", slot |-> "publish"]
           receipt == Receipt(r, "PUBLISH", "SUCCEEDED", TheDigest, None)
<1>1. /\ Completion["COMPLETE_PUBLISH"] = c
      /\ "COMPLETE_PUBLISH" \in DOMAIN Completion
      /\ "COMPLETE_PUBLISH" \notin DOMAIN Simple
  BY DEF Completion, Simple
<1>2. "PUBLISHING" \in DOMAIN StageOf /\ "PUBLISHING" \notin Terminal
  BY DEF StageOf, Terminal
<1>3. InspectRun(r) /\ r # None
  BY <1>2, RunInInspected, RunInIsRecord DEF MayFollow
<1>4. ReceiptFor(r, receipt, "PUBLISH", "SUCCEEDED")
  BY <1>2, TheDigestIs, ReceiptIsFor DEF MayFollow, Stage
<1>5. receipt.output = TheDigest /\ receipt.stage = "PUBLISH"
  BY DEF Receipt
<1>6. /\ r.id = id
      /\ r.key = k
      /\ r.state = "PUBLISHING"
      /\ r.candidate = TheDigest
  BY DEF RunIn, StageOf, Done
<1>7. Done[StageOf["PUBLISHING"]] = Done["PUBLISH"] /\ "extract" \in Done["PUBLISH"]
  BY DEF StageOf, Done
<1>8. [key |-> k, bundle |-> TheDigest, run |-> id] \in Publication
  BY TheDigestIs DEF Publication
<1>9. next \in RunRecord /\ next # None
  <2>1. next \in RunRecord
    BY <1>8, TheDigestIs DEF PublishedRun, RunRecord, RunState, Terminal, Done, Slot
  <2> QED BY <2>1, RecordAssumption
<1>15. Completed(r, c, receipt) = next
  <2>1. r \in RunRecord
    BY <1>2, RunInIsRecord DEF MayFollow
  <2> DEFINE slots == Done["PUBLISH"] \cup {"publish"}
             lkg == [key |-> k, bundle |-> TheDigest, run |-> id]
             done == [r EXCEPT !.state = "PUBLISHED", !.receipts = slots, !.extract = TheDigest,
                               !.candidate = TheDigest, !.published = TheDigest, !.lastKnownGood = lkg]
  <2>2. /\ done \in RunRecord
        /\ done.id = id
        /\ done.key = k
        /\ done.state = "PUBLISHED"
        /\ done.receipts = slots
        /\ done.extract = TheDigest
        /\ done.candidate = TheDigest
        /\ done.published = TheDigest
        /\ done.lastKnownGood = lkg
        /\ done.failure = None
    <3>1. r.failure = None
      BY DEF RunIn
    <3>2. slots \in SUBSET Slot /\ lkg \in Publication /\ "PUBLISHED" \in RunState
      BY <1>8 DEF Done, Slot, RunState, Terminal
    <3> HIDE DEF r, slots, lkg
    <3>3. done \in RunRecord
      BY <2>1, <3>2, TheDigestIs DEF RunRecord
    <3> QED BY <1>6, <2>1, <3>1, <3>3 DEF RunRecord
  <2>4. Completed(r, c, receipt) = done
    <3>1. /\ r.receipts = Done["PUBLISH"]
          /\ r.extract = TheDigest
      BY <1>7 DEF RunIn
    <3>2. c.to = "PUBLISHED" /\ c.slot = "publish" /\ c.stage = "PUBLISH"
      OBVIOUS
    <3> HIDE DEF r, c, receipt
    <3> QED BY <1>5, <1>6, <3>1, <3>2 DEF Completed
  <2>3. /\ next.id = id
        /\ next.key = k
        /\ next.state = "PUBLISHED"
        /\ next.receipts = Done["PUBLISH"] \cup {"publish"}
        /\ next.extract = TheDigest
        /\ next.candidate = TheDigest
        /\ next.published = TheDigest
        /\ next.lastKnownGood = [key |-> k, bundle |-> TheDigest, run |-> id]
        /\ next.failure = None
    BY DEF PublishedRun
  <2> HIDE DEF done, next
  <2>5. done = next
    BY <1>9, <2>2, <2>3, SameRecord
  <2> QED BY <2>4, <2>5
<1>10. InspectRun(next)
  <2>1. /\ next.id = id
        /\ next.key = k
        /\ next.state = "PUBLISHED"
        /\ next.receipts = Done["PUBLISH"] \cup {"publish"}
        /\ next.extract = TheDigest
        /\ next.candidate = TheDigest
        /\ next.published = TheDigest
        /\ next.lastKnownGood = [key |-> k, bundle |-> TheDigest, run |-> id]
        /\ next.failure = None
    BY DEF PublishedRun
  <2> HIDE DEF next
  <2>2. PlanCode(next.key, next.lastKnownGood) = "RUN_PLANNED"
    BY <2>1, OwnPublicationFollows
  <2>3. PublishedProgress(next)
    BY <2>1, TheDigestIs DEF PublishedProgress, BaseProgress, Done
  <2> QED BY <2>1, <2>2, <2>3 DEF InspectRun, StageOf
<1> HIDE DEF r, next, receipt, c
<1>11. SameBundle(r, receipt)
  BY <1>5, <1>6 DEF SameBundle
<1>12. CompletionStep(r, "COMPLETE_PUBLISH", receipt) = next
  BY <1>1, <1>4, <1>6, <1>10, <1>11, <1>15 DEF CompletionStep, Checked, c
<1>13. Transition(r, "COMPLETE_PUBLISH", receipt, None) = next
  BY <1>1, <1>2, <1>3, <1>6, <1>12 DEF Transition
<1>14. After(r, "COMPLETE_PUBLISH") = Transition(r, "COMPLETE_PUBLISH", receipt, None)
  BY <1>1, <1>3 DEF After, receipt, c
<1> QED BY <1>9, <1>13, <1>14 DEF r, next

(* A run that finds its own identity active is marked its duplicate.       *)
LEMMA DuplicateTaken ==
  ASSUME NEW id \in Run, NEW k \in Identity, NEW known \in Publication, known.key = k
  PROVE  LET r == RunIn(id, k, known, "LOCKED")
             receipt == Receipt(r, "DUPLICATE", "DUPLICATE", known.bundle, known.run)
         IN  /\ Transition(r, "MARK_DUPLICATE", receipt, known) = DuplicateRun(id, k, known)
             /\ DuplicateRun(id, k, known) \in RunRecord
             /\ DuplicateRun(id, k, known) # None
<1> DEFINE r == RunIn(id, k, known, "LOCKED")
           next == DuplicateRun(id, k, known)
           receipt == Receipt(r, "DUPLICATE", "DUPLICATE", known.bundle, known.run)
<1>1. /\ "LOCKED" \in DOMAIN StageOf
      /\ "LOCKED" \notin Terminal
      /\ "MARK_DUPLICATE" \notin DOMAIN Simple
      /\ "MARK_DUPLICATE" \notin DOMAIN Completion
      /\ "DUPLICATE" \notin DOMAIN StageOf
  BY DEF StageOf, Terminal, Simple, Completion
<1>2. MayFollow(k, known)
  BY OwnPublicationFollows DEF MayFollow
<1>3. InspectRun(r)
  BY <1>1, <1>2, RunInInspected
<1>4. ReceiptFor(r, receipt, "DUPLICATE", "DUPLICATE")
  BY <1>1, ReceiptIsFor DEF Publication
<1>5. receipt.output = known.bundle /\ receipt.evidence = known.run
  BY DEF Receipt
<1>6. r.state = "LOCKED" /\ r.lastKnownGood = known /\ r.key = k
  BY DEF RunIn
<1>7. [r EXCEPT !.state = "DUPLICATE", !.receipts = @ \cup {"duplicate"}] = next
  <2> DEFINE done == [r EXCEPT !.state = "DUPLICATE", !.receipts = @ \cup {"duplicate"}]
  <2>1. r \in RunRecord /\ next \in RunRecord
    BY <1>1, RunInIsRecord DEF DuplicateRun, RunRecord, RunState, Terminal, Slot
  <2>2. /\ r.id = id
        /\ r.key = k
        /\ r.receipts = {"lock"}
        /\ r.extract = None
        /\ r.candidate = None
        /\ r.published = None
        /\ r.lastKnownGood = known
        /\ r.failure = None
    BY DEF RunIn, StageOf, Done
  <2>3. /\ next.id = id
        /\ next.key = k
        /\ next.state = "DUPLICATE"
        /\ next.receipts = {"lock", "duplicate"}
        /\ next.extract = None
        /\ next.candidate = None
        /\ next.published = None
        /\ next.lastKnownGood = known
        /\ next.failure = None
    BY DEF DuplicateRun
  <2> HIDE DEF r, next
  <2>4. done \in RunRecord
    BY <2>1 DEF RunRecord, RunState, Terminal, Slot
  <2>5. /\ done.id = id
        /\ done.key = k
        /\ done.state = "DUPLICATE"
        /\ done.receipts = {"lock"} \cup {"duplicate"}
        /\ done.extract = None
        /\ done.candidate = None
        /\ done.published = None
        /\ done.lastKnownGood = known
        /\ done.failure = None
    BY <2>1, <2>2 DEF RunRecord
  <2>6. {"lock"} \cup {"duplicate"} = {"lock", "duplicate"}
    OBVIOUS
  <2> HIDE DEF done
  <2>7. done.receipts = next.receipts
    BY <2>3, <2>5, <2>6
  <2>8. done = next
    BY <2>1, <2>3, <2>4, <2>5, <2>7, SameRecord
  <2> QED BY <2>8 DEF done
<1>8. known # None
  BY RecordAssumption
<1>9. next \in RunRecord /\ next # None
  <2>1. next \in RunRecord
    BY DEF DuplicateRun, RunRecord, RunState, Terminal, Slot
  <2> QED BY <2>1, RecordAssumption
<1>10. InspectRun(next)
  <2>1. /\ next.key = k
        /\ next.state = "DUPLICATE"
        /\ next.receipts = {"lock", "duplicate"}
        /\ next.extract = None
        /\ next.candidate = None
        /\ next.published = None
        /\ next.lastKnownGood = known
        /\ next.failure = None
    BY DEF DuplicateRun
  <2> HIDE DEF next
  <2>2. PlanCode(next.key, next.lastKnownGood) = "RUN_PLANNED"
    BY <2>1, OwnPublicationFollows
  <2>3. DuplicateProgress(next)
    BY <1>8, <2>1 DEF DuplicateProgress, BaseProgress
  <2> QED BY <1>1, <2>1, <2>2, <2>3 DEF InspectRun
<1> HIDE DEF r, next, receipt
<1>11. DuplicateStep(r, receipt, known) = next
  BY <1>4, <1>5, <1>6, <1>7, <1>8, <1>10 DEF DuplicateStep, Checked
<1>12. Transition(r, "MARK_DUPLICATE", receipt, known) = next
  BY <1>1, <1>3, <1>6, <1>11 DEF Transition
<1> QED BY <1>9, <1>12 DEF r, next, receipt

(* A run on its way can be recorded as FAILED or BLOCKED, whatever the     *)
(* code.                                                                   *)
LEMMA FailureTaken ==
  ASSUME NEW id \in Run, NEW k \in Identity, NEW known, MayFollow(k, known),
         NEW state \in DOMAIN StageOf, NEW code
  PROVE  LET outcome == IF code \in BlockedCode THEN "BLOCKED" ELSE "FAILED"
         IN  /\ Failed(RunIn(id, k, known, state), code) = EndedRun(id, k, known, state, outcome)
             /\ EndedRun(id, k, known, state, outcome) \in RunRecord
             /\ EndedRun(id, k, known, state, outcome) # None
<1> DEFINE r == RunIn(id, k, known, state)
           outcome == IF code \in BlockedCode THEN "BLOCKED" ELSE "FAILED"
           event == IF code \in BlockedCode THEN "BLOCK" ELSE "FAIL"
           next == EndedRun(id, k, known, state, outcome)
           receipt == Receipt(r, StageOf[state], outcome, None, None)
<1>1. /\ state \notin Terminal
      /\ state \in RunState
      /\ StageOf[state] \in Stage
      /\ event \notin DOMAIN Simple
      /\ event \notin DOMAIN Completion
      /\ event # "MARK_DUPLICATE"
      /\ outcome = IF event = "FAIL" THEN "FAILED" ELSE "BLOCKED"
      /\ outcome \in {"FAILED", "BLOCKED"}
      /\ outcome \notin DOMAIN StageOf
  BY DEF StageOf, Terminal, RunState, Stage, Simple, Completion
<1>2. InspectRun(r) /\ r # None
  BY RunInInspected, RunInIsRecord DEF MayFollow
<1>3. ReceiptFor(r, receipt, StageOf[state], outcome)
  BY <1>1, ReceiptIsFor DEF MayFollow
<1>4. r.state = state
  BY DEF RunIn
<1>6. /\ next.id = id
      /\ next.key = k
      /\ next.state = outcome
      /\ next.receipts = Done[StageOf[state]] \cup {"failure"}
      /\ next.extract = IF "extract" \in Done[StageOf[state]] THEN TheDigest ELSE None
      /\ next.candidate = IF "profile" \in Done[StageOf[state]] THEN TheDigest ELSE None
      /\ next.published = None
      /\ next.lastKnownGood = known
      /\ next.failure = [stage |-> StageOf[state], outcome |-> outcome]
  BY DEF EndedRun
<1>7. [stage |-> StageOf[state], outcome |-> outcome] \in Failure
  BY <1>1 DEF Failure
<1>8. next \in RunRecord /\ next # None
  <2>1. Done[StageOf[state]] \cup {"failure"} \in SUBSET Slot
    BY <1>1 DEF Stage, Done, Slot
  <2>2. outcome \in RunState
    BY <1>1 DEF RunState, Terminal
  <2>3. next \in RunRecord
    BY <1>7, <2>1, <2>2, TheDigestIs DEF EndedRun, RunRecord, MayFollow
  <2> QED BY <2>3, RecordAssumption
<1>5. [r EXCEPT !.state = outcome, !.receipts = @ \cup {"failure"},
                !.failure = [stage |-> StageOf[state], outcome |-> outcome]] = next
  <2> DEFINE failed == [stage |-> StageOf[state], outcome |-> outcome]
             done == [r EXCEPT !.state = outcome, !.receipts = @ \cup {"failure"}, !.failure = failed]
  <2>1. r \in RunRecord
    BY RunInIsRecord DEF MayFollow
  <2>2. /\ r.id = id
        /\ r.key = k
        /\ r.receipts = Done[StageOf[state]]
        /\ r.extract = IF "extract" \in Done[StageOf[state]] THEN TheDigest ELSE None
        /\ r.candidate = IF "profile" \in Done[StageOf[state]] THEN TheDigest ELSE None
        /\ r.published = None
        /\ r.lastKnownGood = known
    BY DEF RunIn
  <2> HIDE DEF r, outcome, failed
  <2>3. outcome \in RunState /\ "failure" \in Slot /\ failed \in Failure
    BY <1>1, <1>7 DEF RunState, Terminal, Slot, failed
  <2>4. done \in RunRecord
    BY <2>1, <2>3 DEF RunRecord
  <2>5. /\ done.id = r.id
        /\ done.key = r.key
        /\ done.state = outcome
        /\ done.receipts = r.receipts \cup {"failure"}
        /\ done.extract = r.extract
        /\ done.candidate = r.candidate
        /\ done.published = r.published
        /\ done.lastKnownGood = r.lastKnownGood
        /\ done.failure = failed
    BY <2>1 DEF RunRecord
  <2> HIDE DEF next, done
  <2>6. done.receipts = next.receipts
    BY <1>6, <2>2, <2>5
  <2>7. done = next
    BY <1>6, <1>8, <2>2, <2>4, <2>5, <2>6, SameRecord DEF failed
  <2> QED BY <2>7 DEF done, failed
<1>9. InspectRun(next)
  <2>1. "publish" \notin Done[StageOf[state]]
    BY <1>1 DEF Stage, Done
  <2>2. next.failure # None /\ next.failure.stage = StageOf[state] /\ next.failure.outcome = outcome
    BY <1>6, <1>7, RecordAssumption
  <2>3. FailedProgress(next)
    BY <1>6, <2>1, <2>2, TheDigestIs DEF FailedProgress, BaseProgress
  <2> QED BY <1>1, <1>6, <2>3 DEF InspectRun, MayFollow
<1> HIDE DEF r, next, receipt
<1>10. FailureStep(r, event, receipt) = next
  BY <1>1, <1>3, <1>4, <1>5, <1>9 DEF FailureStep, Checked
<1>11. Transition(r, event, receipt, None) = next
  BY <1>1, <1>2, <1>4, <1>10 DEF Transition
<1>12. Failed(r, code) = next
  <2>1. Failed(r, code) = LET next2 == Transition(r, event, receipt, None) IN IF next2 = None THEN r ELSE next2
    BY <1>1, <1>2, <1>4 DEF Failed, receipt
  <2> QED BY <1>8, <1>11, <2>1
<1> QED BY <1>8, <1>12 DEF r, next

(* The steps of the runner, each the next of the foundation's table.       *)
LEMMA RunnerTaken ==
  ASSUME NEW id \in Run, NEW k \in Identity, NEW known, MayFollow(k, known)
  PROVE  /\ After(RunIn(id, k, known, "PLANNED"), "ACQUIRE_LOCK") = RunIn(id, k, known, "LOCKED")
         /\ After(RunIn(id, k, known, "LOCKED"), "START_EXTRACT") = RunIn(id, k, known, "EXTRACTING")
         /\ After(After(RunIn(id, k, known, "EXTRACTING"), "COMPLETE_EXTRACT"), "START_PROFILE")
              = RunIn(id, k, known, "PROFILING")
         /\ After(After(RunIn(id, k, known, "PROFILING"), "COMPLETE_PROFILE"), "START_VALIDATE")
              = RunIn(id, k, known, "VALIDATING")
         /\ After(RunIn(id, k, known, "VALIDATING"), "COMPLETE_VALIDATE") = RunIn(id, k, known, "VALIDATED")
         /\ After(RunIn(id, k, known, "VALIDATED"), "START_PUBLISH") = RunIn(id, k, known, "PUBLISHING")
<1>1. \A event \in DOMAIN Simple :
        After(RunIn(id, k, known, Simple[event].from), event) = RunIn(id, k, known, Simple[event].to)
  BY StartTaken
<1>2. \A event \in DOMAIN Completion \ {"COMPLETE_PUBLISH"} :
        After(RunIn(id, k, known, Completion[event].from), event)
          = RunIn(id, k, known, Completion[event].to)
  BY CompletionTaken
<1>3. /\ DOMAIN Simple = {"START_EXTRACT", "START_PROFILE", "START_VALIDATE", "START_PUBLISH"}
      /\ Simple["START_EXTRACT"].from = "LOCKED" /\ Simple["START_EXTRACT"].to = "EXTRACTING"
      /\ Simple["START_PROFILE"].from = "EXTRACTED" /\ Simple["START_PROFILE"].to = "PROFILING"
      /\ Simple["START_VALIDATE"].from = "PROFILED" /\ Simple["START_VALIDATE"].to = "VALIDATING"
      /\ Simple["START_PUBLISH"].from = "VALIDATED" /\ Simple["START_PUBLISH"].to = "PUBLISHING"
  BY DEF Simple
<1>4. /\ "ACQUIRE_LOCK" \in DOMAIN Completion \ {"COMPLETE_PUBLISH"}
      /\ "COMPLETE_EXTRACT" \in DOMAIN Completion \ {"COMPLETE_PUBLISH"}
      /\ "COMPLETE_PROFILE" \in DOMAIN Completion \ {"COMPLETE_PUBLISH"}
      /\ "COMPLETE_VALIDATE" \in DOMAIN Completion \ {"COMPLETE_PUBLISH"}
      /\ Completion["ACQUIRE_LOCK"].from = "PLANNED" /\ Completion["ACQUIRE_LOCK"].to = "LOCKED"
      /\ Completion["COMPLETE_EXTRACT"].from = "EXTRACTING" /\ Completion["COMPLETE_EXTRACT"].to = "EXTRACTED"
      /\ Completion["COMPLETE_PROFILE"].from = "PROFILING" /\ Completion["COMPLETE_PROFILE"].to = "PROFILED"
      /\ Completion["COMPLETE_VALIDATE"].from = "VALIDATING" /\ Completion["COMPLETE_VALIDATE"].to = "VALIDATED"
  BY DEF Completion
<1>5. /\ After(RunIn(id, k, known, "LOCKED"), "START_EXTRACT") = RunIn(id, k, known, "EXTRACTING")
      /\ After(RunIn(id, k, known, "EXTRACTED"), "START_PROFILE") = RunIn(id, k, known, "PROFILING")
      /\ After(RunIn(id, k, known, "PROFILED"), "START_VALIDATE") = RunIn(id, k, known, "VALIDATING")
      /\ After(RunIn(id, k, known, "VALIDATED"), "START_PUBLISH") = RunIn(id, k, known, "PUBLISHING")
  BY <1>1, <1>3
<1>6. /\ After(RunIn(id, k, known, "PLANNED"), "ACQUIRE_LOCK") = RunIn(id, k, known, "LOCKED")
      /\ After(RunIn(id, k, known, "EXTRACTING"), "COMPLETE_EXTRACT") = RunIn(id, k, known, "EXTRACTED")
      /\ After(RunIn(id, k, known, "PROFILING"), "COMPLETE_PROFILE") = RunIn(id, k, known, "PROFILED")
      /\ After(RunIn(id, k, known, "VALIDATING"), "COMPLETE_VALIDATE") = RunIn(id, k, known, "VALIDATED")
  BY <1>2, <1>4
<1> QED BY <1>5, <1>6

-----------------------------------------------------------------------------
(* What a process does with its run record. *)

Going(r, state) == RunIn(r, key[r], run[r].lastKnownGood, state)

\* a run on its way to here, recorded in this state
Entered(r, place, state) ==
  /\ at' = [at EXCEPT ![r] = place]
  /\ run' = [run EXCEPT ![r] = Going(r, state)]
  /\ failure' = failure
  /\ Going(r, state) \in RunRecord
  /\ Going(r, state) # None
  /\ MayFollow(key[r], run[r].lastKnownGood)

\* or an error that leaves it as it is
Thrown(r, codes) ==
  /\ at' = [at EXCEPT ![r] = "receipt"]
  /\ run' = run
  /\ \E code \in codes : failure' = [failure EXCEPT ![r] = code]

(* Where a process stands says which run record it has.                    *)
LEMMA RunAt ==
  ASSUME IInv, NEW r \in Run, NEW place \in {"ledger", "decide"} \cup Building \cup Promoting,
         at[r] = place
  PROVE  /\ run[r] = Going(r, StateAt(place))
         /\ MayFollow(key[r], run[r].lastKnownGood)
         /\ key[r] \in Identity
         /\ \A state \in DOMAIN StageOf : Going(r, state) \in RunRecord /\ Going(r, state) # None
<1>1. InState(r, StateAt(place)) /\ key[r] \in Identity
  BY DEF IInv, RunOK, TypeOK
<1>2. MayFollow(key[r], run[r].lastKnownGood)
  BY <1>1 DEF InState
<1>3. \A state \in DOMAIN StageOf : Going(r, state) \in RunRecord /\ Going(r, state) # None
  BY <1>1, <1>2, RunInIsRecord DEF MayFollow, Going
<1> QED BY <1>1, <1>2, <1>3 DEF InState, Going

(* A run is planned on the publication it found, or refused.               *)
LEMMA PlanRuns ==
  ASSUME IInv, NEW r \in Run, PlanRun(r)
  PROVE  \/ Thrown(r, {"DUPLICATE_STATE_INVALID", "ROLLBACK_BLOCKED", "SOURCE_CONFLICT"})
         \/ /\ at' = [at EXCEPT ![r] = "ledger"]
            /\ run' = [run EXCEPT ![r] = RunIn(r, key[r], PublicationAt(pointer), "PLANNED")]
            /\ failure' = failure
            /\ RunIn(r, key[r], PublicationAt(pointer), "PLANNED") \in RunRecord
            /\ RunIn(r, key[r], PublicationAt(pointer), "PLANNED") # None
            /\ MayFollow(key[r], PublicationAt(pointer))
            /\ pointer # None => PublicationAt(pointer) # None
<1> DEFINE code == PlanCode(key[r], PublicationAt(pointer))
           other == OtherApproval(key[r], pointer)
           planned == RunIn(r, key[r], PublicationAt(pointer), "PLANNED")
<1>1. /\ pointer \in Reference \cup {None}
      /\ key[r] \in Identity
  BY DEF IInv, TypeOK
<1>2. /\ PublicationAt(pointer) \in Publication \cup {None}
      /\ pointer # None => PublicationAt(pointer) # None
  <2>1. ASSUME pointer # None
        PROVE  PublicationAt(pointer) \in Publication
    BY <1>1, <2>1, TheDigestIs DEF PublicationAt, Reference, Publication
  <2> QED BY <2>1, RecordAssumption DEF PublicationAt
<1>3. PlannedRun(r, key[r], PublicationAt(pointer)) = planned
  BY DEF PlannedRun, RunIn, StageOf, Done
<1>4. "PLANNED" \in DOMAIN StageOf
  BY DEF StageOf
<1>5. planned \in RunRecord /\ planned # None
  BY <1>1, <1>2, <1>4, RunInIsRecord
<1>6. code \in {"SOURCE_ROLLBACK_BLOCKED", "SOURCE_CONFLICT_BLOCKED", "RUN_PLANNED"}
  BY DEF PlanCode
<1> HIDE DEF code, planned
<1>7. CASE other
  BY <1>6, <1>7 DEF PlanRun, Throw, Goto, Thrown, code
<1>8. CASE ~other /\ code = "SOURCE_ROLLBACK_BLOCKED"
  BY <1>8 DEF PlanRun, Throw, Goto, Thrown, code
<1>9. CASE ~other /\ code = "SOURCE_CONFLICT_BLOCKED"
  BY <1>9 DEF PlanRun, Throw, Goto, Thrown, code
<1>10. CASE ~other /\ code = "RUN_PLANNED"
  <2>1. Advance(r, planned, "ledger")
    BY <1>3, <1>10 DEF PlanRun, code
  <2> QED BY <1>2, <1>5, <1>10, <2>1 DEF Advance, Goto, MayFollow, code, planned
<1> QED BY <1>6, <1>7, <1>8, <1>9, <1>10

(* From where a process stands the foundation takes the step the runner    *)
(* asks for.                                                               *)
LEMMA AdvanceTaken ==
  ASSUME IInv, NEW r \in Run,
         NEW place \in {"ledger", "decide", "extract", "profile", "validate", "prepare"},
         at[r] = place
  PROVE  LET next == CASE place = "ledger" -> After(run[r], "ACQUIRE_LOCK")
                       [] place = "decide" -> After(run[r], "START_EXTRACT")
                       [] place = "extract" -> After(After(run[r], "COMPLETE_EXTRACT"), "START_PROFILE")
                       [] place = "profile" -> After(After(run[r], "COMPLETE_PROFILE"), "START_VALIDATE")
                       [] place = "validate" -> After(run[r], "COMPLETE_VALIDATE")
                       [] place = "prepare" -> After(run[r], "START_PUBLISH")
             state == CASE place = "ledger" -> "LOCKED"
                        [] place = "decide" -> "EXTRACTING"
                        [] place = "extract" -> "PROFILING"
                        [] place = "profile" -> "VALIDATING"
                        [] place = "validate" -> "VALIDATED"
                        [] place = "prepare" -> "PUBLISHING"
         IN  /\ next = Going(r, state)
             /\ next \in RunRecord
             /\ next # None
             /\ MayFollow(key[r], run[r].lastKnownGood)
<1>1. place \in {"ledger", "decide"} \cup Building \cup Promoting
  BY DEF Building
<1>2. /\ run[r] = Going(r, StateAt(place))
      /\ MayFollow(key[r], run[r].lastKnownGood)
      /\ key[r] \in Identity
      /\ \A state \in DOMAIN StageOf : Going(r, state) \in RunRecord /\ Going(r, state) # None
  BY <1>1, RunAt
<1>3. \A state \in {"PLANNED", "LOCKED", "EXTRACTING", "PROFILING", "VALIDATING", "VALIDATED", "PUBLISHING"} :
        state \in DOMAIN StageOf
  BY DEF StageOf
<1>4. /\ After(Going(r, "PLANNED"), "ACQUIRE_LOCK") = Going(r, "LOCKED")
      /\ After(Going(r, "LOCKED"), "START_EXTRACT") = Going(r, "EXTRACTING")
      /\ After(After(Going(r, "EXTRACTING"), "COMPLETE_EXTRACT"), "START_PROFILE") = Going(r, "PROFILING")
      /\ After(After(Going(r, "PROFILING"), "COMPLETE_PROFILE"), "START_VALIDATE") = Going(r, "VALIDATING")
      /\ After(Going(r, "VALIDATING"), "COMPLETE_VALIDATE") = Going(r, "VALIDATED")
      /\ After(Going(r, "VALIDATED"), "START_PUBLISH") = Going(r, "PUBLISHING")
  BY <1>2, RunnerTaken DEF Going
<1>5. CASE place = "ledger"
  BY <1>2, <1>3, <1>4, <1>5 DEF StateAt
<1>6. CASE place = "decide"
  BY <1>2, <1>3, <1>4, <1>6 DEF StateAt
<1>7. CASE place = "extract"
  BY <1>2, <1>3, <1>4, <1>7 DEF StateAt
<1>8. CASE place = "profile"
  BY <1>2, <1>3, <1>4, <1>8 DEF StateAt
<1>9. CASE place = "validate"
  BY <1>2, <1>3, <1>4, <1>9 DEF StateAt
<1>10. CASE place = "prepare"
  BY <1>2, <1>3, <1>4, <1>10 DEF StateAt
<1> QED BY <1>5, <1>6, <1>7, <1>8, <1>9, <1>10

(* The steps that take a run to its next stage.                            *)
LEMMA AdvanceRuns ==
  ASSUME IInv, NEW r \in Run
  PROVE  /\ CheckLedger(r) =>
              Entered(r, "decide", "LOCKED") \/ Thrown(r, {"DUPLICATE_STATE_INVALID"})
         /\ StartExtract(r) => Entered(r, "extract", "EXTRACTING")
         /\ Extract(r) => Entered(r, "profile", "PROFILING")
         /\ Profile(r) => Entered(r, "validate", "VALIDATING")
         /\ Validate(r) => Entered(r, "prepare", "VALIDATED")
         /\ Prepare(r) => Entered(r, "sweep", "PUBLISHING")
         /\ PrepareFails(r) =>
              /\ at' = [at EXCEPT ![r] = "receipt"]
              /\ run' = [run EXCEPT ![r] = Going(r, "PUBLISHING")]
              /\ failure' = [failure EXCEPT ![r] = "STATE_INVALID"]
              /\ Going(r, "PUBLISHING") \in RunRecord
              /\ Going(r, "PUBLISHING") # None
              /\ MayFollow(key[r], run[r].lastKnownGood)
<1>1. ASSUME CheckLedger(r)
      PROVE  Entered(r, "decide", "LOCKED") \/ Thrown(r, {"DUPLICATE_STATE_INVALID"})
  <2>1. at[r] = "ledger"
    BY <1>1 DEF CheckLedger
  <2>2. /\ After(run[r], "ACQUIRE_LOCK") = Going(r, "LOCKED")
        /\ Going(r, "LOCKED") \in RunRecord
        /\ Going(r, "LOCKED") # None
        /\ MayFollow(key[r], run[r].lastKnownGood)
    BY <2>1, AdvanceTaken
  <2>3. CASE Intact(Seen(r))
    BY <1>1, <2>2, <2>3 DEF CheckLedger, Advance, Goto, Entered
  <2>4. CASE ~Intact(Seen(r))
    BY <1>1, <2>4 DEF CheckLedger, Throw, Goto, Thrown
  <2> QED BY <2>3, <2>4
<1>2. ASSUME StartExtract(r)
      PROVE  Entered(r, "extract", "EXTRACTING")
  <2>1. at[r] = "decide"
    BY <1>2 DEF StartExtract
  <2>2. /\ After(run[r], "START_EXTRACT") = Going(r, "EXTRACTING")
        /\ Going(r, "EXTRACTING") \in RunRecord
        /\ Going(r, "EXTRACTING") # None
        /\ MayFollow(key[r], run[r].lastKnownGood)
    BY <2>1, AdvanceTaken
  <2> QED BY <1>2, <2>2 DEF StartExtract, Advance, Goto, Entered
<1>3. ASSUME Extract(r)
      PROVE  Entered(r, "profile", "PROFILING")
  <2>1. at[r] = "extract"
    BY <1>3 DEF Extract
  <2>2. /\ After(After(run[r], "COMPLETE_EXTRACT"), "START_PROFILE") = Going(r, "PROFILING")
        /\ Going(r, "PROFILING") \in RunRecord
        /\ Going(r, "PROFILING") # None
        /\ MayFollow(key[r], run[r].lastKnownGood)
    BY <2>1, AdvanceTaken
  <2> QED BY <1>3, <2>2 DEF Extract, Advance, Goto, Entered
<1>4. ASSUME Profile(r)
      PROVE  Entered(r, "validate", "VALIDATING")
  <2>1. at[r] = "profile"
    BY <1>4 DEF Profile
  <2>2. /\ After(After(run[r], "COMPLETE_PROFILE"), "START_VALIDATE") = Going(r, "VALIDATING")
        /\ Going(r, "VALIDATING") \in RunRecord
        /\ Going(r, "VALIDATING") # None
        /\ MayFollow(key[r], run[r].lastKnownGood)
    BY <2>1, AdvanceTaken
  <2> QED BY <1>4, <2>2 DEF Profile, Advance, Goto, Entered
<1>5. ASSUME Validate(r)
      PROVE  Entered(r, "prepare", "VALIDATED")
  <2>1. at[r] = "validate"
    BY <1>5 DEF Validate
  <2>2. /\ After(run[r], "COMPLETE_VALIDATE") = Going(r, "VALIDATED")
        /\ Going(r, "VALIDATED") \in RunRecord
        /\ Going(r, "VALIDATED") # None
        /\ MayFollow(key[r], run[r].lastKnownGood)
    BY <2>1, AdvanceTaken
  <2> QED BY <1>5, <2>2 DEF Validate, Advance, Goto, Entered
<1>6. ASSUME at[r] = "prepare"
      PROVE  /\ After(run[r], "START_PUBLISH") = Going(r, "PUBLISHING")
             /\ Going(r, "PUBLISHING") \in RunRecord
             /\ Going(r, "PUBLISHING") # None
             /\ MayFollow(key[r], run[r].lastKnownGood)
  BY <1>6, AdvanceTaken
<1>7. ASSUME Prepare(r)
      PROVE  Entered(r, "sweep", "PUBLISHING")
  <2>1. at[r] = "prepare"
    BY <1>7 DEF Prepare
  <2> QED BY <1>6, <1>7, <2>1 DEF Prepare, Advance, Goto, Entered
<1>8. ASSUME PrepareFails(r)
      PROVE  /\ at' = [at EXCEPT ![r] = "receipt"]
             /\ run' = [run EXCEPT ![r] = Going(r, "PUBLISHING")]
             /\ failure' = [failure EXCEPT ![r] = "STATE_INVALID"]
             /\ Going(r, "PUBLISHING") \in RunRecord
             /\ Going(r, "PUBLISHING") # None
             /\ MayFollow(key[r], run[r].lastKnownGood)
  <2>1. at[r] = "prepare"
    BY <1>8 DEF PrepareFails
  <2> QED BY <1>6, <1>8, <2>1 DEF PrepareFails, Throw, Goto
<1> QED BY <1>1, <1>2, <1>3, <1>4, <1>5, <1>7, <1>8

(* A run that finds its version there is a duplicate, or an error.         *)
LEMMA DuplicateRuns ==
  ASSUME IInv, NEW r \in Run, MarkDuplicate(r)
  PROVE  \/ Thrown(r, {"DUPLICATE_STATE_INVALID"}) /\ receipts' = receipts /\ faults' = faults
         \/ \E next \in RunRecord :
              /\ next # None
              /\ next.id = r
              /\ next.key = key[r]
              /\ next.state = "DUPLICATE"
              /\ next.lastKnownGood = run[r].lastKnownGood
              /\ run' = [run EXCEPT ![r] = next]
              /\ \/ /\ at' = [at EXCEPT ![r] = "release"]
                    /\ failure' = failure
                    /\ receipts' = [receipts EXCEPT ![r] = "duplicate"]
                    /\ faults' = faults
                 \/ /\ at' = [at EXCEPT ![r] = "receipt"]
                    /\ failure' = [failure EXCEPT ![r] = "RECEIPT_FAILED"]
                    /\ receipts' = receipts
                    /\ Fault
<1> DEFINE stored == PublicationAt(Ref(key[r], versions[key[r]]))
           marked == Transition(run[r], "MARK_DUPLICATE",
                       Receipt(run[r], "DUPLICATE", "DUPLICATE", stored.bundle, stored.run), stored)
           next == DuplicateRun(r, key[r], stored)
<1>1. at[r] = "decide" /\ versions[key[r]] # None
  BY DEF MarkDuplicate
<1>2. /\ key[r] \in Identity
      /\ versions[key[r]] \in Run
      /\ run[r] = Going(r, "LOCKED")
  <2>1. key[r] \in Identity /\ versions[key[r]] \in Run
    BY <1>1 DEF IInv, TypeOK
  <2> QED BY <1>1, <2>1, RunAt DEF StateAt
<1>3. /\ stored \in Publication
      /\ stored.key = key[r]
  <2>1. Ref(key[r], versions[key[r]]) \in Reference
    BY <1>2 DEF Ref, Reference
  <2>2. stored = [key |-> key[r], bundle |-> TheDigest, run |-> versions[key[r]]]
    BY <2>1, NullAssumption DEF PublicationAt, Ref
  <2> QED BY <1>2, <2>2, TheDigestIs DEF Publication
<1> HIDE DEF stored
<1>4. CASE run[r].lastKnownGood # stored
  BY <1>4 DEF MarkDuplicate, Throw, Goto, Thrown, bounds, stored
<1>5. CASE run[r].lastKnownGood = stored
  <2>1. run[r] = RunIn(r, key[r], stored, "LOCKED")
    BY <1>2, <1>5 DEF Going
  <2>2. /\ marked = next
        /\ next \in RunRecord
        /\ next # None
    BY <1>2, <1>3, <2>1, DuplicateTaken
  <2>3. /\ next.id = r
        /\ next.key = key[r]
        /\ next.state = "DUPLICATE"
        /\ next.lastKnownGood = run[r].lastKnownGood
    BY <1>5 DEF DuplicateRun
  <2> HIDE DEF marked, next
  <2>4. /\ run' = [run EXCEPT ![r] = next]
        /\ \/ /\ at' = [at EXCEPT ![r] = "release"]
              /\ failure' = failure
              /\ receipts' = [receipts EXCEPT ![r] = "duplicate"]
              /\ faults' = faults
           \/ /\ at' = [at EXCEPT ![r] = "receipt"]
              /\ failure' = [failure EXCEPT ![r] = "RECEIPT_FAILED"]
              /\ receipts' = receipts
              /\ Fault
    BY <1>5, <2>2 DEF MarkDuplicate, Advance, Throw, Goto, bounds, stored, marked
  <2> QED BY <2>2, <2>3, <2>4
<1> QED BY <1>4, <1>5

(* The last write of a promotion publishes the run; the one before leaves  *)
(* the pointer to write.                                                   *)
LEMMA WrittenRuns ==
  ASSUME IInv, NEW r \in Run, at[r] \in Promoting, Written(r)
  PROVE  /\ failure' = failure
         /\ \/ /\ file[r] = "activation"
               /\ file' = [file EXCEPT ![r] = "pointer"]
               /\ at' = [at EXCEPT ![r] = "draft"]
               /\ run' = run
            \/ /\ file[r] = "pointer"
               /\ file' = file
               /\ at' = [at EXCEPT ![r] = "release"]
               /\ run' = [run EXCEPT ![r] = PublishedRun(r, key[r])]
               /\ PublishedRun(r, key[r]) \in RunRecord
               /\ PublishedRun(r, key[r]) # None
<1>1. file[r] \in {"activation", "pointer"}
  BY DEF IInv, TypeOK
<1>2. Order[1] = "activation" /\ Order[2] = "pointer"
  BY DEF Order
<1>3. CASE file[r] = "activation"
  BY <1>2, <1>3 DEF Written, Goto
<1>4. CASE file[r] = "pointer"
  <2>1. StateAt(at[r]) = "PUBLISHING"
    BY DEF Promoting, Swapping, StateAt
  <2>2. run[r] = RunIn(r, key[r], run[r].lastKnownGood, "PUBLISHING")
        /\ MayFollow(key[r], run[r].lastKnownGood) /\ key[r] \in Identity
    BY <2>1, RunAt DEF Going
  <2>3. /\ After(run[r], "COMPLETE_PUBLISH") = PublishedRun(r, key[r])
        /\ PublishedRun(r, key[r]) \in RunRecord
        /\ PublishedRun(r, key[r]) # None
    BY <2>2, PublishTaken
  <2>4. Advance(r, After(run[r], "COMPLETE_PUBLISH"), "release") /\ file' = file
    BY <1>2, <1>4 DEF Written
  <2> QED BY <1>4, <2>3, <2>4 DEF Advance, Goto
<1> QED BY <1>1, <1>3, <1>4

(* A failure is recorded in a run that was under way.                      *)
LEMMA FailureRuns ==
  ASSUME IInv, NEW r \in Run, at[r] = "receipt"
  PROVE  LET next == Failed(run[r], failure[r])
         IN  /\ run[r] = None <=> next = None
             /\ run[r] # None =>
                  /\ next \in RunRecord
                  /\ next.id = r
                  /\ next.key = key[r]
                  /\ next.lastKnownGood = run[r].lastKnownGood
                  /\ \/ next.state = IF failure[r] \in BlockedCode THEN "BLOCKED" ELSE "FAILED"
                     \/ failure[r] = "RECEIPT_FAILED" /\ next.state = "DUPLICATE"
<1> DEFINE next == Failed(run[r], failure[r])
<1>1. /\ run[r] = None \/ InProgress(r) \/ UnrecordedDuplicate(r)
      /\ key[r] \in Identity
      /\ run[r] \in RunRecord \cup {None}
      /\ run[r] # None => run[r].id = r /\ run[r].key = key[r]
  BY DEF IInv, RunOK, TypeOK
<1>2. CASE run[r] = None
  BY <1>2 DEF Failed
<1>3. CASE run[r] # None /\ InProgress(r)
  <2>1. PICK state \in DOMAIN StageOf : InState(r, state)
    BY <1>3 DEF InProgress
  <2>2. run[r] = RunIn(r, key[r], run[r].lastKnownGood, state) /\ MayFollow(key[r], run[r].lastKnownGood)
    BY <2>1 DEF InState
  <2> DEFINE outcome == IF failure[r] \in BlockedCode THEN "BLOCKED" ELSE "FAILED"
             ended == EndedRun(r, key[r], run[r].lastKnownGood, state, outcome)
  <2>3. /\ next = ended
        /\ ended \in RunRecord
        /\ ended # None
    BY <1>1, <2>2, FailureTaken
  <2>4. /\ ended.id = r
        /\ ended.key = key[r]
        /\ ended.lastKnownGood = run[r].lastKnownGood
        /\ ended.state = outcome
    BY DEF EndedRun
  <2> HIDE DEF next, ended
  <2> QED BY <1>3, <2>3, <2>4 DEF next
<1>4. CASE run[r] # None /\ UnrecordedDuplicate(r)
  <2>1. next = run[r]
    BY <1>4 DEF Failed, UnrecordedDuplicate, Terminal
  <2> QED BY <1>1, <1>4, <2>1 DEF UnrecordedDuplicate
<1> QED BY <1>1, <1>2, <1>3, <1>4

-----------------------------------------------------------------------------
(* Every variable keeps its type. *)

Moves(r) == Begin(r) \/ Step(r) \/ Kill(r) \/ ClearLocks(r)

(* The two locks differ, and are taken and released in this order.         *)
LEMMA LockOrder ==
  ASSUME NEW k
  PROVE  /\ TargetLock # SnapshotLock(k)
         /\ <<TargetLock>> \o <<>> = <<TargetLock>>
         /\ <<SnapshotLock(k)>> \o <<TargetLock>> = <<SnapshotLock(k), TargetLock>>
         /\ Head(<<SnapshotLock(k), TargetLock>>) = SnapshotLock(k)
         /\ Tail(<<SnapshotLock(k), TargetLock>>) = <<TargetLock>>
         /\ Head(<<TargetLock>>) = TargetLock
         /\ Tail(<<TargetLock>>) = <<>>
<1>1. Len(TargetLock) = 1 /\ Len(SnapshotLock(k)) = 3
  BY DEF TargetLock, SnapshotLock
<1>2. TargetLock # SnapshotLock(k)
  BY <1>1
<1> DEFINE t == TargetLock
           s == SnapshotLock(k)
<1> HIDE DEF t, s
<1>3. <<t>> \o <<>> = <<t>>
  OBVIOUS
<1>5. <<s>> \o <<t>> = <<s, t>>
  <2> DEFINE joined == <<s>> \o <<t>>
             both == <<s, t>>
  <2>1. joined \in Seq({s, t}) /\ both \in Seq({s, t})
    BY ConcatProperties
  <2>2. Len(joined) = 2 /\ joined[1] = s /\ joined[2] = t
    OBVIOUS
  <2>3. Len(both) = 2 /\ both[1] = s /\ both[2] = t
    OBVIOUS
  <2> HIDE DEF joined, both
  <2>4. joined = both
    BY <2>1, <2>2, <2>3, SeqEqual
  <2> QED BY <2>4 DEF joined, both
<1>4. Head(<<s, t>>) = s /\ Tail(<<s, t>>) = <<t>> /\ Head(<<t>>) = t /\ Tail(<<t>>) = <<>>
  OBVIOUS
<1> QED BY <1>2, <1>3, <1>4, <1>5 DEF t, s

(* What a process holds, lock by lock.                                     *)
LEMMA HeldLocks ==
  ASSUME NEW r
  PROVE  /\ held[r] = <<>> => HeldBy(r) = {}
         /\ held[r] = <<TargetLock>> => HeldBy(r) = {TargetLock}
         /\ held[r] = <<SnapshotLock(key[r]), TargetLock>> =>
              HeldBy(r) = {SnapshotLock(key[r]), TargetLock}
<1> DEFINE t == TargetLock
           s == SnapshotLock(key[r])
<1> HIDE DEF t, s
<1>1. held[r] = <<>> => HeldBy(r) = {}
  BY DEF HeldBy
<1>2. held[r] = <<t>> => HeldBy(r) = {t}
  BY DEF HeldBy
<1>3. held[r] = <<s, t>> => HeldBy(r) = {s, t}
  <2> SUFFICES ASSUME held[r] = <<s, t>> PROVE HeldBy(r) = {s, t}
    OBVIOUS
  <2>1. DOMAIN held[r] = {1, 2} /\ held[r][1] = s /\ held[r][2] = t
    OBVIOUS
  <2> QED BY <2>1 DEF HeldBy
<1> QED BY <1>1, <1>2, <1>3 DEF t, s

(* The run of each process stays its own.                                  *)
LEMMA RunTypes ==
  ASSUME IInv, NEW r \in Run, Moves(r)
  PROVE  /\ run' \in [Run -> RunRecord \cup {None}]
         /\ \A q \in Run : run'[q] # None => run'[q].id = q /\ run'[q].key = key[q]
         /\ key' = key
<1>1. /\ run \in [Run -> RunRecord \cup {None}]
      /\ \A q \in Run : run[q] # None => run[q].id = q /\ run[q].key = key[q]
  BY DEF IInv, TypeOK
<1>2. \A state : Going(r, state).id = r /\ Going(r, state).key = key[r]
  BY DEF Going, RunIn
<1>3. ASSUME NEW place, NEW state, Entered(r, place, state)
      PROVE  /\ run' \in [Run -> RunRecord \cup {None}]
             /\ \A q \in Run : run'[q] # None => run'[q].id = q /\ run'[q].key = key[q]
  BY <1>1, <1>2, <1>3 DEF Entered
<1>4. key' = key
  BY DEF Moves, Begin, Step, Kill, ClearLocks, process, TakeLock, TakeLockFails, UndoLock, PlanRun,
         CheckLedger, ReadFails, StartExtract, MarkDuplicate, Extract, Profile, Validate, BuildFails,
         Prepare, PrepareFails, Sweep, Promote, PromoteFails, WriteDraft, RenameDraft, RenameFails,
         SetAside, Replace, BringBack, Discard, Withdraw, DropDraft, RecordFailure, CleanWorkspace,
         CleanPending, Release, Report
<1>5. CASE PlanRun(r)
  <2>1. /\ RunIn(r, key[r], PublicationAt(pointer), "PLANNED").id = r
        /\ RunIn(r, key[r], PublicationAt(pointer), "PLANNED").key = key[r]
    BY DEF RunIn
  <2> QED BY <1>1, <1>4, <1>5, <2>1, PlanRuns DEF Thrown
<1>6. CASE CheckLedger(r)
  <2>1. Entered(r, "decide", "LOCKED") \/ run' = run
    BY <1>6, AdvanceRuns DEF Thrown
  <2> QED BY <1>1, <1>3, <1>4, <2>1
<1>7. CASE StartExtract(r) \/ Extract(r) \/ Profile(r) \/ Validate(r) \/ Prepare(r)
  BY <1>3, <1>4, <1>7, AdvanceRuns
<1>8. CASE PrepareFails(r)
  BY <1>1, <1>2, <1>4, <1>8, AdvanceRuns
<1>9. CASE MarkDuplicate(r)
  BY <1>1, <1>4, <1>9, DuplicateRuns DEF Thrown
<1>10. CASE RenameDraft(r) \/ Discard(r)
  <2>1. at[r] \in Promoting /\ (Written(r) \/ run' = run)
    BY <1>10 DEF RenameDraft, Discard, Promoting, Swapping
  <2>2. PublishedRun(r, key[r]).id = r /\ PublishedRun(r, key[r]).key = key[r]
    BY DEF PublishedRun
  <2> QED BY <1>1, <1>4, <2>1, <2>2, WrittenRuns
<1>11. CASE RecordFailure(r)
  <2> DEFINE next == Failed(run[r], failure[r])
  <2>1. at[r] = "receipt" /\ run' = [run EXCEPT ![r] = next]
    BY <1>11 DEF RecordFailure
  <2>2. /\ next \in RunRecord \cup {None}
        /\ next # None => next.id = r /\ next.key = key[r]
    BY <2>1, FailureRuns
  <2> HIDE DEF next
  <2> QED BY <1>1, <1>4, <2>1, <2>2
<1>12. CASE run' = run
  BY <1>1, <1>4, <1>12
<1>13. \/ PlanRun(r) \/ CheckLedger(r) \/ StartExtract(r) \/ Extract(r) \/ Profile(r) \/ Validate(r)
       \/ Prepare(r) \/ PrepareFails(r) \/ MarkDuplicate(r) \/ RenameDraft(r) \/ Discard(r)
       \/ RecordFailure(r) \/ run' = run
  BY DEF Moves, Begin, Step, Kill, ClearLocks, process, TakeLock, TakeLockFails, UndoLock, ReadFails,
         BuildFails, Sweep, Promote, PromoteFails, WriteDraft, RenameFails, SetAside, Replace,
         BringBack, Withdraw, DropDraft, CleanWorkspace, CleanPending, Release, Report
<1> QED BY <1>5, <1>6, <1>7, <1>8, <1>9, <1>10, <1>11, <1>12, <1>13

\* every place a process may stand
Place == Opening \cup Building \cup Promoting \cup Closing \cup Over

(* Where a process goes and the error it carries are of their types.       *)
LEMMA PlaceTypes ==
  ASSUME IInv, NEW r \in Run, Moves(r)
  PROVE  /\ at' \in [Run -> Place]
         /\ failure' \in [Run -> Code \cup {None}]
<1>1. at \in [Run -> Place] /\ failure \in [Run -> Code \cup {None}]
  BY DEF IInv, TypeOK, Place
<1>2. ASSUME NEW place \in Place, Goto(r, place)
      PROVE  at' \in [Run -> Place]
  BY <1>1, <1>2 DEF Goto
<1>3. ASSUME NEW code \in Code, Throw(r, code)
      PROVE  at' \in [Run -> Place] /\ failure' \in [Run -> Code \cup {None}]
  BY <1>1, <1>3 DEF Throw, Goto, Place, Closing
<1>4. ASSUME NEW codes \in SUBSET Code, Thrown(r, codes)
      PROVE  at' \in [Run -> Place] /\ failure' \in [Run -> Code \cup {None}]
  BY <1>1, <1>4 DEF Thrown, Place, Closing
<1>5. ASSUME NEW place \in Place, NEW state, Entered(r, place, state)
      PROVE  at' \in [Run -> Place] /\ failure' \in [Run -> Code \cup {None}]
  BY <1>1, <1>5 DEF Entered
<1>6. /\ {"target", "snapshot", "undo", "plan", "ledger", "decide", "extract", "profile", "validate",
          "prepare", "sweep", "promote", "draft", "rename", "setAside", "replace", "bringBack", "discard",
          "withdraw", "reinstate", "dropDraft", "receipt", "cleanWorkspace", "cleanPending", "release",
          "over", "killed"} \subseteq Place
      /\ {"DUPLICATE_STATE_INVALID", "LOCKED", "ROLLBACK_BLOCKED", "SOURCE_CONFLICT", "SOURCE_INVALID",
          "STATE_INVALID", "ARTIFACT_INVALID", "RECEIPT_FAILED", "CLEANUP_FAILED", "PROMOTION_FAILED"}
           \subseteq Code
  BY DEF Place, Opening, Building, Promoting, Swapping, Closing, Over, Code, BlockedCode
<1>7. CASE PlanRun(r)
  BY <1>1, <1>4, <1>6, <1>7, PlanRuns
<1>8. CASE CheckLedger(r)
  <2>1. Entered(r, "decide", "LOCKED") \/ Thrown(r, {"DUPLICATE_STATE_INVALID"})
    BY <1>8, AdvanceRuns
  <2> QED BY <1>4, <1>5, <1>6, <2>1
<1>9. CASE StartExtract(r) \/ Extract(r) \/ Profile(r) \/ Validate(r) \/ Prepare(r)
  BY <1>5, <1>6, <1>9, AdvanceRuns
<1>10. CASE PrepareFails(r)
  BY <1>3, <1>6, <1>10 DEF PrepareFails
<1>11. CASE MarkDuplicate(r)
  <2>1. \/ Thrown(r, {"DUPLICATE_STATE_INVALID"})
        \/ at' = [at EXCEPT ![r] = "release"] /\ failure' = failure
        \/ at' = [at EXCEPT ![r] = "receipt"] /\ failure' = [failure EXCEPT ![r] = "RECEIPT_FAILED"]
    BY <1>11, DuplicateRuns
  <2> QED BY <1>1, <1>4, <1>6, <2>1
<1>12. CASE RenameDraft(r) \/ Discard(r)
  <2>1. \/ at[r] \in Promoting /\ Written(r)
        \/ Goto(r, "withdraw") /\ failure' = failure
    BY <1>12 DEF RenameDraft, Discard, Promoting, Swapping
  <2> QED BY <1>1, <1>2, <1>6, <2>1, WrittenRuns
<1>13. CASE TakeLock(r) \/ TakeLockFails(r) \/ UndoLock(r)
  BY <1>1, <1>2, <1>3, <1>6, <1>13 DEF TakeLock, TakeLockFails, UndoLock
<1>14. CASE Begin(r) \/ ReadFails(r) \/ BuildFails(r) \/ Sweep(r)
  BY <1>1, <1>2, <1>3, <1>6, <1>14 DEF Begin, ReadFails, BuildFails, Sweep
<1>15. CASE Promote(r) \/ PromoteFails(r) \/ WriteDraft(r)
  BY <1>1, <1>2, <1>3, <1>6, <1>15 DEF Promote, PromoteFails, WriteDraft
<1>16. CASE RenameFails(r) \/ SetAside(r) \/ Replace(r)
  BY <1>1, <1>2, <1>3, <1>6, <1>16 DEF RenameFails, SetAside, Replace
<1>17. CASE BringBack(r) \/ Withdraw(r) \/ DropDraft(r)
  BY <1>1, <1>2, <1>3, <1>6, <1>17 DEF BringBack, Withdraw, DropDraft
<1>18. CASE RecordFailure(r) \/ CleanWorkspace(r) \/ CleanPending(r) \/ Report(r)
  BY <1>1, <1>2, <1>6, <1>18 DEF RecordFailure, CleanWorkspace, CleanPending, Report
<1>19. CASE Release(r)
  BY <1>1, <1>19 DEF Release
<1>20. CASE Kill(r) \/ ClearLocks(r)
  BY <1>1, <1>2, <1>6, <1>20 DEF Kill, ClearLocks, process
<1> QED BY <1>7, <1>8, <1>9, <1>10, <1>11, <1>12, <1>13, <1>14, <1>15, <1>16, <1>17, <1>18, <1>19, <1>20
        DEF Moves, Step

(* What a run refers to is a reference.                                    *)
LEMMA References ==
  ASSUME IInv, NEW r \in Run
  PROVE  /\ Own(r) \in Reference
         /\ run[r] # None => Seen(r) \in Reference \cup {None}
         /\ run[r] # None => (Seen(r) = None <=> run[r].lastKnownGood = None)
<1>1. key[r] \in Identity /\ (run[r] # None => run[r] \in RunRecord)
  BY DEF IInv, TypeOK
<1>2. Own(r) \in Reference
  BY <1>1 DEF Own, Ref, Reference
<1>3. ASSUME run[r] # None
      PROVE  Seen(r) \in Reference \cup {None} /\ (Seen(r) = None <=> run[r].lastKnownGood = None)
  <2>1. run[r].lastKnownGood \in Publication \cup {None}
    BY <1>1, <1>3 DEF RunRecord
  <2>2. ASSUME run[r].lastKnownGood # None
        PROVE  Seen(r) \in Reference
    BY <2>1, <2>2 DEF Seen, Publication, Reference, Ref
  <2> QED BY <2>1, <2>2, NullAssumption DEF Seen
<1> QED BY <1>2, <1>3

(* The lock files and what processes hold of them.                         *)
LEMMA LockTypes ==
  ASSUME IInv, NEW r \in Run, Moves(r)
  PROVE  /\ locks' \in [LockName -> Run \cup {None}]
         /\ held' \in [Run -> Seq(LockName)]
         /\ \A q \in Run : held'[q] \in {<<>>, <<TargetLock>>, <<SnapshotLock(key[q]), TargetLock>>}
<1>1. /\ locks \in [LockName -> Run \cup {None}]
      /\ held \in [Run -> Seq(LockName)]
      /\ \A q \in Run : held[q] \in {<<>>, <<TargetLock>>, <<SnapshotLock(key[q]), TargetLock>>}
      /\ key \in [Run -> Identity]
      /\ at \in [Run -> Place]
  BY DEF IInv, TypeOK, Place
<1>2. /\ TargetLock \in LockName
      /\ \A q \in Run : SnapshotLock(key[q]) \in LockName
  BY <1>1 DEF LockName
<1>3. NextLock(r) \in LockName
  BY <1>2 DEF NextLock
<1>4. ASSUME at[r] \in {"target", "snapshot"}
      PROVE  HeldWith(r, NextLock(r)) =
               IF at[r] = "target" THEN <<TargetLock>> ELSE <<SnapshotLock(key[r]), TargetLock>>
  <2>1. CASE at[r] = "target"
    <3>1. held[r] = <<>>
      BY <2>1 DEF IInv, HeldOK
    <3> QED BY <2>1, <3>1, LockOrder DEF HeldWith, NextLock
  <2>2. CASE at[r] = "snapshot"
    <3>1. held[r] = <<TargetLock>>
      BY <2>2 DEF IInv, HeldOK
    <3> QED BY <2>2, <3>1, LockOrder DEF HeldWith, NextLock
  <2> QED BY <1>4, <2>1, <2>2
<1>5. CASE TakeLock(r)
  <2>1. /\ at[r] \in {"target", "snapshot"}
        /\ \/ /\ locks' = [locks EXCEPT ![NextLock(r)] = r]
              /\ held' = [held EXCEPT ![r] = HeldWith(r, NextLock(r))]
           \/ locks' = locks /\ held' = held
    BY <1>5 DEF TakeLock
  <2>2. HeldWith(r, NextLock(r)) \in {<<TargetLock>>, <<SnapshotLock(key[r]), TargetLock>>}
    BY <1>4, <2>1
  <2>3. HeldWith(r, NextLock(r)) \in Seq(LockName)
    BY <1>2, <2>2
  <2> HIDE DEF HeldWith
  <2> QED BY <1>1, <1>3, <2>1, <2>2, <2>3
<1>6. CASE TakeLockFails(r)
  BY <1>1, <1>3, <1>6 DEF TakeLockFails
<1>7. CASE UndoLock(r)
  BY <1>1, <1>7 DEF UndoLock
<1>8. CASE Release(r)
  <2>1. Head(held[r]) \in LockName
    BY <1>1, <1>2, <1>8, LockOrder DEF Release
  <2>2. Tail(held[r]) \in {<<>>, <<TargetLock>>}
    BY <1>1, <1>8, LockOrder DEF Release
  <2>3. <<TargetLock>> \in Seq(LockName) /\ <<>> \in Seq(LockName)
    BY <1>2
  <2>4. Tail(held[r]) \in Seq(LockName)
    BY <2>2, <2>3
  <2> QED BY <1>1, <1>8, <2>1, <2>2, <2>4 DEF Release
<1>9. CASE ClearLocks(r)
  BY <1>1, <1>9 DEF ClearLocks, process
<1>10. CASE locks' = locks /\ held' = held
  BY <1>1, <1>10
<1> QED BY <1>5, <1>6, <1>7, <1>8, <1>9, <1>10
        DEF Moves, Begin, Step, Kill, PlanRun, directory,
            CheckLedger, ReadFails, StartExtract, MarkDuplicate, Extract, Profile, Validate, BuildFails,
            Prepare, PrepareFails, Sweep, Promote, PromoteFails, WriteDraft, RenameDraft, RenameFails,
            SetAside, Replace, BringBack, Discard, Withdraw, DropDraft, RecordFailure, CleanWorkspace,
            CleanPending, Report

(* Only a promotion writes versions, activations and the pointer, and what *)
(* it writes there is its own.                                             *)
LEMMA TableTypes ==
  ASSUME IInv, NEW r \in Run, Moves(r)
  PROVE  /\ versions' \in [Identity -> Run \cup {None}]
         /\ activations' \in [Identity -> Activation \cup {None}]
         /\ pointer' \in Reference \cup {None}
         /\ backup' \in [Run -> Reference \cup {None}]
<1>1. /\ versions \in [Identity -> Run \cup {None}]
      /\ activations \in [Identity -> Activation \cup {None}]
      /\ pointer \in Reference \cup {None}
      /\ backup \in [Run -> Reference \cup {None}]
      /\ key \in [Run -> Identity]
      /\ head[r] \in Reference \cup {None}
      /\ file[r] \in {"activation", "pointer"}
  BY DEF IInv, TypeOK
<1>2. [run |-> r, previous |-> head[r]] \in Activation /\ Own(r) \in Reference
  BY <1>1, References DEF Activation
<1>3. ASSUME SetFile(r, NewContent(r))
      PROVE  activations' \in [Identity -> Activation \cup {None}] /\ pointer' \in Reference \cup {None}
  BY <1>1, <1>2, <1>3 DEF SetFile, NewContent
<1>4. ASSUME SetFile(r, None)
      PROVE  activations' \in [Identity -> Activation \cup {None}] /\ pointer' \in Reference \cup {None}
  BY <1>1, <1>4 DEF SetFile
<1>5. CASE Promote(r)
  BY <1>1, <1>5 DEF Promote
<1>6. CASE RenameDraft(r)
  BY <1>1, <1>3, <1>6 DEF RenameDraft
<1>7. CASE SetAside(r)
  <2>1. file[r] = "pointer"
    BY <1>7 DEF SetAside, IInv, TablesOK, PromotionOK
  <2> QED BY <1>1, <1>4, <1>7, <2>1 DEF SetAside, Content
<1>8. CASE Replace(r)
  BY <1>1, <1>3, <1>8 DEF Replace
<1>9. CASE BringBack(r)
  <2>1. file[r] = "pointer"
    BY <1>9 DEF BringBack, Swapping, IInv, TablesOK, PromotionOK
  <2> QED BY <1>1, <1>9, <2>1 DEF BringBack, SetFile
<1>10. CASE Discard(r) \/ Withdraw(r)
  BY <1>1, <1>4, <1>10 DEF Discard, Withdraw
<1>11. CASE UNCHANGED <<versions, activations, pointer, backup>>
  BY <1>1, <1>11
<1> QED BY <1>5, <1>6, <1>7, <1>8, <1>9, <1>10, <1>11
        DEF Moves, Begin, Step, Kill, ClearLocks, TakeLock, TakeLockFails, UndoLock, PlanRun, directory,
            CheckLedger, ReadFails, StartExtract, MarkDuplicate, Extract, Profile, Validate, BuildFails,
            Prepare, PrepareFails, Sweep, PromoteFails, WriteDraft, RenameFails, DropDraft,
            RecordFailure, CleanWorkspace, CleanPending, Release, Report

(* The other files, and what a process remembers.                          *)
LEMMA OtherTypes ==
  ASSUME IInv, NEW r \in Run, Moves(r)
  PROVE  /\ pending' \in [Run -> {"none", "unowned", "owned"}]
         /\ drafts' \subseteq {"activation", "pointer"} \X Run
         /\ receipts' \in [Run -> {None, "duplicate", "failed", "blocked"}]
         /\ head' \in [Run -> Reference \cup {None}]
         /\ file' \in [Run -> {"activation", "pointer"}]
         /\ workspace' \subseteq Run
         /\ unclean' \in [Run -> SUBSET {"workspace", "pending", "lock"}]
         /\ answer' \in [Run -> {None, "promoted", "duplicate", "failed", "blocked", "unreleased"}]
<1>1. /\ pending \in [Run -> {"none", "unowned", "owned"}]
      /\ drafts \subseteq {"activation", "pointer"} \X Run
      /\ receipts \in [Run -> {None, "duplicate", "failed", "blocked"}]
      /\ head \in [Run -> Reference \cup {None}]
      /\ file \in [Run -> {"activation", "pointer"}]
      /\ workspace \subseteq Run
      /\ unclean \in [Run -> SUBSET {"workspace", "pending", "lock"}]
      /\ answer \in [Run -> {None, "promoted", "duplicate", "failed", "blocked", "unreleased"}]
  BY DEF IInv, TypeOK
<1>2. pending' \in [Run -> {"none", "unowned", "owned"}]
  BY <1>1
      DEF Moves, Begin, Step, Kill, ClearLocks, process, directory, TakeLock, TakeLockFails, UndoLock, PlanRun,
         CheckLedger, ReadFails, StartExtract, MarkDuplicate, Extract, Profile, Validate, BuildFails,
         Prepare, PrepareFails, Sweep, Promote, PromoteFails, WriteDraft, RenameDraft, RenameFails,
         SetAside, Replace, BringBack, Discard, Withdraw, DropDraft, RecordFailure, CleanWorkspace,
         CleanPending, Release, Report
<1>3. drafts' \subseteq {"activation", "pointer"} \X Run
  <2>1. CASE WriteDraft(r)
    BY <1>1, <2>1 DEF WriteDraft
  <2>2. CASE drafts' \subseteq drafts
    BY <1>1, <2>2
  <2> QED BY <2>1, <2>2
      DEF Moves, Begin, Step, Kill, ClearLocks, process, directory, TakeLock, TakeLockFails, UndoLock, PlanRun,
         CheckLedger, ReadFails, StartExtract, MarkDuplicate, Extract, Profile, Validate, BuildFails,
         Prepare, PrepareFails, Sweep, Promote, PromoteFails, RenameDraft, RenameFails,
         SetAside, Replace, BringBack, Discard, Withdraw, DropDraft, RecordFailure, CleanWorkspace,
         CleanPending, Release, Report
<1>4. receipts' \in [Run -> {None, "duplicate", "failed", "blocked"}]
  BY <1>1
      DEF Moves, Begin, Step, Kill, ClearLocks, process, directory, TakeLock, TakeLockFails, UndoLock, PlanRun,
         CheckLedger, ReadFails, StartExtract, MarkDuplicate, Extract, Profile, Validate, BuildFails,
         Prepare, PrepareFails, Sweep, Promote, PromoteFails, WriteDraft, RenameDraft, RenameFails,
         SetAside, Replace, BringBack, Discard, Withdraw, DropDraft, RecordFailure, CleanWorkspace,
         CleanPending, Release, Report, Disposition
<1>5. head' \in [Run -> Reference \cup {None}]
  <2>1. CASE CheckLedger(r)
    <3>1. run[r] # None
      BY <2>1 DEF CheckLedger, IInv, RunOK
    <3> QED BY <1>1, <2>1, <3>1, References DEF CheckLedger
  <2>2. CASE head' = head
    BY <1>1, <2>2
  <2> QED BY <2>1, <2>2
       DEF Moves, Begin, Step, Kill, ClearLocks, process, TakeLock, TakeLockFails, UndoLock, PlanRun,
         ReadFails, StartExtract, MarkDuplicate, Extract, Profile, Validate, BuildFails,
         Prepare, PrepareFails, Sweep, Promote, PromoteFails, WriteDraft, RenameDraft, RenameFails,
         SetAside, Replace, BringBack, Discard, Withdraw, DropDraft, RecordFailure, CleanWorkspace,
         CleanPending, Release, Report
<1>6. file' \in [Run -> {"activation", "pointer"}]
  <2>1. Order[1] = "activation" /\ Order[2] = "pointer"
    BY DEF Order
  <2>2. CASE Promote(r)
    BY <1>1, <2>1, <2>2 DEF Promote
  <2>3. CASE RenameDraft(r) \/ Discard(r)
    BY <1>1, <2>1, <2>3 DEF RenameDraft, Discard, Written
  <2>4. CASE file' = file
    BY <1>1, <2>4
  <2> QED BY <2>2, <2>3, <2>4
       DEF Moves, Begin, Step, Kill, ClearLocks, process, TakeLock, TakeLockFails, UndoLock, PlanRun,
         CheckLedger, ReadFails, StartExtract, MarkDuplicate, Extract, Profile, Validate, BuildFails,
         Prepare, PrepareFails, Sweep, PromoteFails, WriteDraft, RenameFails,
         SetAside, Replace, BringBack, Withdraw, DropDraft, RecordFailure, CleanWorkspace,
         CleanPending, Release, Report
<1>7. workspace' \subseteq Run
  BY <1>1 DEF Moves, Begin, Step, Kill, ClearLocks, process, TakeLock, TakeLockFails, UndoLock, PlanRun,
         CheckLedger, ReadFails, StartExtract, MarkDuplicate, Extract, Profile, Validate, BuildFails,
         Prepare, PrepareFails, Sweep, Promote, PromoteFails, WriteDraft, RenameDraft, RenameFails,
         SetAside, Replace, BringBack, Discard, Withdraw, DropDraft, RecordFailure, CleanWorkspace,
         CleanPending, Release, Report
<1>8. unclean' \in [Run -> SUBSET {"workspace", "pending", "lock"}]
  <2>1. ASSUME NEW what \in {"workspace", "pending", "lock"}, NotClean(r, what)
        PROVE  unclean' \in [Run -> SUBSET {"workspace", "pending", "lock"}]
    BY <1>1, <2>1 DEF NotClean
  <2>2. CASE CleanWorkspace(r)
    BY <1>1, <2>1, <2>2 DEF CleanWorkspace
  <2>3. CASE CleanPending(r)
    BY <1>1, <2>1, <2>3 DEF CleanPending
  <2>4. CASE Release(r)
    BY <1>1, <2>1, <2>4 DEF Release
  <2>5. CASE unclean' = unclean
    BY <1>1, <2>5
  <2> QED BY <2>2, <2>3, <2>4, <2>5
      DEF Moves, Begin, Step, Kill, ClearLocks, process, TakeLock, TakeLockFails, UndoLock, PlanRun,
         CheckLedger, ReadFails, StartExtract, MarkDuplicate, Extract, Profile, Validate, BuildFails,
         Prepare, PrepareFails, Sweep, Promote, PromoteFails, WriteDraft, RenameDraft, RenameFails,
         SetAside, Replace, BringBack, Discard, Withdraw, DropDraft, RecordFailure, 
         Report
<1>9. answer' \in [Run -> {None, "promoted", "duplicate", "failed", "blocked", "unreleased"}]
  BY <1>1 DEF Moves, Begin, Step, Kill, ClearLocks, process, TakeLock, TakeLockFails, UndoLock, PlanRun,
         CheckLedger, ReadFails, StartExtract, MarkDuplicate, Extract, Profile, Validate, BuildFails,
         Prepare, PrepareFails, Sweep, Promote, PromoteFails, WriteDraft, RenameDraft, RenameFails,
         SetAside, Replace, BringBack, Discard, Withdraw, DropDraft, RecordFailure, CleanWorkspace,
         CleanPending, Release, Report, Told, Disposition
<1> QED BY <1>2, <1>3, <1>4, <1>5, <1>6, <1>7, <1>8, <1>9

(* Calls fail, processes are killed and locks cleared within the bounds.   *)
LEMMA BoundTypes ==
  ASSUME IInv, NEW r \in Run, Moves(r)
  PROVE  /\ faults' \in 0 .. MaxFaults
         /\ crashes' \in 0 .. MaxCrashes
         /\ clears' \in 0 .. MaxClears
         /\ faults' >= faults
<1>1. /\ faults \in 0 .. MaxFaults
      /\ crashes \in 0 .. MaxCrashes
      /\ clears \in 0 .. MaxClears
      /\ {MaxFaults, MaxCrashes, MaxClears} \subseteq Nat
      /\ pending[r] \in {"none", "unowned", "owned"}
  BY BoundsAssumption DEF IInv, TypeOK
<1>2. CASE Fault
  BY <1>1, <1>2 DEF Fault
<1>3. CASE UNCHANGED bounds
  BY <1>1, <1>3 DEF bounds
<1>4. CASE Kill(r)
  BY <1>1, <1>4 DEF Kill
<1>5. CASE ClearLocks(r)
  BY <1>1, <1>5 DEF ClearLocks
<1>6. CASE CleanPending(r)
  BY <1>1, <1>2, <1>3, <1>6 DEF CleanPending, bounds
<1> QED BY <1>2, <1>3, <1>4, <1>5, <1>6
    DEF Moves, Begin, Step, TakeLock, TakeLockFails, UndoLock, PlanRun,
         CheckLedger, ReadFails, StartExtract, MarkDuplicate, Extract, Profile, Validate, BuildFails,
         Prepare, PrepareFails, Sweep, Promote, PromoteFails, WriteDraft, RenameDraft, RenameFails,
         SetAside, Replace, BringBack, Discard, Withdraw, DropDraft, RecordFailure, CleanWorkspace,
         Release, Report

(* A step of one process leaves what belongs to another.                   *)
LEMMA OthersKept ==
  ASSUME IInv, NEW r \in Run, Moves(r), NEW q \in Run, q # r
  PROVE  /\ at'[q] = at[q]
         /\ run'[q] = run[q]
         /\ failure'[q] = failure[q]
         /\ unclean'[q] = unclean[q]
         /\ answer'[q] = answer[q]
         /\ held'[q] = held[q]
         /\ head'[q] = head[q]
         /\ file'[q] = file[q]
         /\ pending'[q] = pending[q]
         /\ backup'[q] = backup[q]
         /\ key' = key
<1>1. /\ at \in [Run -> Place]
      /\ run \in [Run -> RunRecord \cup {None}]
      /\ failure \in [Run -> Code \cup {None}]
      /\ unclean \in [Run -> SUBSET {"workspace", "pending", "lock"}]
      /\ answer \in [Run -> {None, "promoted", "duplicate", "failed", "blocked", "unreleased"}]
      /\ held \in [Run -> Seq(LockName)]
      /\ head \in [Run -> Reference \cup {None}]
      /\ file \in [Run -> {"activation", "pointer"}]
      /\ pending \in [Run -> {"none", "unowned", "owned"}]
      /\ backup \in [Run -> Reference \cup {None}]
  BY DEF IInv, TypeOK, Place
<1>2. at'[q] = at[q] /\ run'[q] = run[q] /\ failure'[q] = failure[q]
  <2>1. ASSUME NEW place, Goto(r, place)
        PROVE  at'[q] = at[q]
    BY <1>1, <2>1 DEF Goto
  <2>2. ASSUME NEW code, Throw(r, code)
        PROVE  at'[q] = at[q] /\ failure'[q] = failure[q]
    BY <1>1, <2>2 DEF Throw, Goto
  <2>3. ASSUME NEW next, NEW place, Advance(r, next, place)
        PROVE  at'[q] = at[q] /\ run'[q] = run[q] /\ failure'[q] = failure[q]
    BY <1>1, <2>1, <2>2, <2>3 DEF Advance
  <2>4. ASSUME Written(r)
        PROVE  at'[q] = at[q] /\ run'[q] = run[q] /\ failure'[q] = failure[q]
    BY <1>1, <2>1, <2>3, <2>4 DEF Written
  <2>5. CASE Begin(r) \/ TakeLock(r) \/ TakeLockFails(r) \/ UndoLock(r)
    BY <1>1, <2>1, <2>2, <2>3, <2>4, <2>5 DEF Begin, TakeLock, TakeLockFails, UndoLock
  <2>6. CASE CheckLedger(r) \/ ReadFails(r) \/ StartExtract(r)
    BY <1>1, <2>1, <2>2, <2>3, <2>4, <2>6 DEF CheckLedger, ReadFails, StartExtract
  <2>7. CASE MarkDuplicate(r) \/ Extract(r) \/ Profile(r) \/ Validate(r)
    BY <1>1, <2>1, <2>2, <2>3, <2>4, <2>7 DEF MarkDuplicate, Extract, Profile, Validate
  <2>8. CASE BuildFails(r) \/ Prepare(r) \/ PrepareFails(r) \/ Sweep(r)
    BY <1>1, <2>1, <2>2, <2>3, <2>4, <2>8 DEF BuildFails, Prepare, PrepareFails, Sweep
  <2>9. CASE Promote(r) \/ PromoteFails(r) \/ WriteDraft(r) \/ RenameDraft(r)
    BY <1>1, <2>1, <2>2, <2>3, <2>4, <2>9 DEF Promote, PromoteFails, WriteDraft, RenameDraft
  <2>10. CASE RenameFails(r) \/ SetAside(r) \/ Replace(r) \/ BringBack(r)
    BY <1>1, <2>1, <2>2, <2>3, <2>4, <2>10 DEF RenameFails, SetAside, Replace, BringBack
  <2>11. CASE Discard(r) \/ Withdraw(r) \/ DropDraft(r) \/ RecordFailure(r)
    BY <1>1, <2>1, <2>2, <2>3, <2>4, <2>11 DEF Discard, Withdraw, DropDraft, RecordFailure
  <2>12. CASE CleanWorkspace(r) \/ CleanPending(r) \/ Release(r) \/ Report(r)
    BY <1>1, <2>1, <2>2, <2>3, <2>4, <2>12 DEF CleanWorkspace, CleanPending, Release, Report
  <2>13. CASE Kill(r) \/ ClearLocks(r)
    BY <1>1, <2>1, <2>2, <2>3, <2>4, <2>13 DEF Kill, ClearLocks, process
  <2>14. CASE PlanRun(r)
    <3>1. \/ Thrown(r, {"DUPLICATE_STATE_INVALID", "ROLLBACK_BLOCKED", "SOURCE_CONFLICT"})
          \/ /\ at' = [at EXCEPT ![r] = "ledger"]
             /\ run' = [run EXCEPT ![r] = RunIn(r, key[r], PublicationAt(pointer), "PLANNED")]
             /\ failure' = failure
      BY <2>14, PlanRuns
    <3>2. CASE Thrown(r, {"DUPLICATE_STATE_INVALID", "ROLLBACK_BLOCKED", "SOURCE_CONFLICT"})
      BY <1>1, <3>2 DEF Thrown
    <3> QED BY <1>1, <3>1, <3>2
  <2> QED BY <2>5, <2>6, <2>7, <2>8, <2>9, <2>10, <2>11, <2>12, <2>13, <2>14 DEF Moves, Step
<1>5. unclean'[q] = unclean[q]
  BY <1>1
      DEF Moves, Begin, Step, Kill, ClearLocks, process, directory, TakeLock, TakeLockFails, UndoLock, PlanRun,
         CheckLedger, ReadFails, StartExtract, MarkDuplicate, Extract, Profile, Validate, BuildFails,
         Prepare, PrepareFails, Sweep, Promote, PromoteFails, WriteDraft, RenameDraft, RenameFails,
         SetAside, Replace, BringBack, Discard, Withdraw, DropDraft, RecordFailure, CleanWorkspace,
         CleanPending, Release, Report, NotClean
<1>6. answer'[q] = answer[q]
  BY <1>1
      DEF Moves, Begin, Step, Kill, ClearLocks, process, directory, TakeLock, TakeLockFails, UndoLock, PlanRun,
         CheckLedger, ReadFails, StartExtract, MarkDuplicate, Extract, Profile, Validate, BuildFails,
         Prepare, PrepareFails, Sweep, Promote, PromoteFails, WriteDraft, RenameDraft, RenameFails,
         SetAside, Replace, BringBack, Discard, Withdraw, DropDraft, RecordFailure, CleanWorkspace,
         CleanPending, Release, Report
<1>7. held'[q] = held[q]
  BY <1>1
      DEF Moves, Begin, Step, Kill, ClearLocks, process, directory, TakeLock, TakeLockFails, UndoLock, PlanRun,
         CheckLedger, ReadFails, StartExtract, MarkDuplicate, Extract, Profile, Validate, BuildFails,
         Prepare, PrepareFails, Sweep, Promote, PromoteFails, WriteDraft, RenameDraft, RenameFails,
         SetAside, Replace, BringBack, Discard, Withdraw, DropDraft, RecordFailure, CleanWorkspace,
         CleanPending, Release, Report
<1>8. head'[q] = head[q]
  BY <1>1
      DEF Moves, Begin, Step, Kill, ClearLocks, process, directory, TakeLock, TakeLockFails, UndoLock, PlanRun,
         CheckLedger, ReadFails, StartExtract, MarkDuplicate, Extract, Profile, Validate, BuildFails,
         Prepare, PrepareFails, Sweep, Promote, PromoteFails, WriteDraft, RenameDraft, RenameFails,
         SetAside, Replace, BringBack, Discard, Withdraw, DropDraft, RecordFailure, CleanWorkspace,
         CleanPending, Release, Report
<1>9. file'[q] = file[q]
  BY <1>1
      DEF Moves, Begin, Step, Kill, ClearLocks, process, directory, TakeLock, TakeLockFails, UndoLock, PlanRun,
         CheckLedger, ReadFails, StartExtract, MarkDuplicate, Extract, Profile, Validate, BuildFails,
         Prepare, PrepareFails, Sweep, Promote, PromoteFails, WriteDraft, RenameDraft, RenameFails,
         SetAside, Replace, BringBack, Discard, Withdraw, DropDraft, RecordFailure, CleanWorkspace,
         CleanPending, Release, Report, Written
<1>10. pending'[q] = pending[q]
  BY <1>1
      DEF Moves, Begin, Step, Kill, ClearLocks, process, directory, TakeLock, TakeLockFails, UndoLock, PlanRun,
         CheckLedger, ReadFails, StartExtract, MarkDuplicate, Extract, Profile, Validate, BuildFails,
         Prepare, PrepareFails, Sweep, Promote, PromoteFails, WriteDraft, RenameDraft, RenameFails,
         SetAside, Replace, BringBack, Discard, Withdraw, DropDraft, RecordFailure, CleanWorkspace,
         CleanPending, Release, Report
<1>11. backup'[q] = backup[q]
  BY <1>1
      DEF Moves, Begin, Step, Kill, ClearLocks, process, directory, TakeLock, TakeLockFails, UndoLock, PlanRun,
         CheckLedger, ReadFails, StartExtract, MarkDuplicate, Extract, Profile, Validate, BuildFails,
         Prepare, PrepareFails, Sweep, Promote, PromoteFails, WriteDraft, RenameDraft, RenameFails,
         SetAside, Replace, BringBack, Discard, Withdraw, DropDraft, RecordFailure, CleanWorkspace,
         CleanPending, Release, Report
<1>12. key' = key
  BY RunTypes
<1> QED BY <1>2, <1>5, <1>6, <1>7, <1>8, <1>9, <1>10, <1>11, <1>12

(* The steps between the locks, before the snapshot's lock is taken and    *)
(* after they are released, in which order they can be.                    *)
LEMMA PlacesFollow ==
  ASSUME IInv, NEW r \in Run, Moves(r)
  PROVE  /\ at'[r] \in Inside => at[r] \in Inside \/ (TakeLock(r) /\ at[r] = "snapshot")
         /\ at'[r] = "target" => at[r] = "begin"
         /\ at'[r] = "snapshot" => TakeLock(r) /\ at[r] = "target"
         /\ at'[r] = "over" => at[r] = "over" \/ held[r] = <<>>
         /\ at'[r] # "begin"
         /\ at[r] \in Over => at'[r] = at[r]
         /\ at'[r] \in Opening => at[r] \in Opening
         /\ at'[r] \in {"decide"} \cup Building \cup Promoting =>
              at[r] \in {"decide"} \cup Building \cup Promoting \/ CheckLedger(r)
         /\ at'[r] \in Opening \cup {"extract", "profile", "validate", "prepare"} =>
              at[r] \in Opening \cup {"extract", "profile", "validate", "prepare"}
         /\ at'[r] \in {"draft", "rename", "setAside"} \cup Swapping =>
              \/ Promote(r) \/ WriteDraft(r) \/ RenameDraft(r) \/ RenameFails(r) \/ SetAside(r)
              \/ Replace(r) \/ BringBack(r) \/ Discard(r) \/ Withdraw(r)
<1>1. at \in [Run -> Place]
  BY DEF IInv, TypeOK, Place
<1>2. ASSUME NEW place, Goto(r, place)
      PROVE  at'[r] = place
  BY <1>1, <1>2 DEF Goto
<1>3. ASSUME NEW code, Throw(r, code)
      PROVE  at'[r] = "receipt"
  BY <1>2, <1>3 DEF Throw
<1>4. ASSUME NEW next, NEW place, Advance(r, next, place)
      PROVE  at'[r] \in {"receipt", place}
  BY <1>2, <1>3, <1>4 DEF Advance
<1>5. ASSUME Written(r)
      PROVE  at'[r] \in {"receipt", "draft", "release"}
  BY <1>2, <1>4, <1>5 DEF Written
<1>6. CASE PlanRun(r)
  <2>1. at'[r] \in {"receipt", "ledger"}
    BY <1>1, <1>6, PlanRuns DEF Thrown
  <2>2. at[r] = "plan"
    BY <1>6 DEF PlanRun
  <2> QED BY <2>1, <2>2 DEF Inside, Building, Promoting, Swapping, Over, Opening
<1>7. CASE Begin(r) \/ TakeLock(r) \/ TakeLockFails(r)
  BY <1>1, <1>2, <1>3, <1>4, <1>5, <1>7
      DEF Begin, TakeLock, TakeLockFails, Inside, Building, Promoting, Swapping, Over, Opening
<1>8. CASE UndoLock(r) \/ CheckLedger(r) \/ ReadFails(r)
  BY <1>1, <1>2, <1>3, <1>4, <1>5, <1>8
      DEF UndoLock, CheckLedger, ReadFails, Inside, Building, Promoting, Swapping, Over, Opening
<1>9. CASE StartExtract(r) \/ MarkDuplicate(r) \/ Extract(r)
  BY <1>1, <1>2, <1>3, <1>4, <1>5, <1>9
      DEF StartExtract, MarkDuplicate, Extract, Inside, Building, Promoting, Swapping, Over, Opening
<1>10. CASE Profile(r) \/ Validate(r) \/ BuildFails(r)
  BY <1>1, <1>2, <1>3, <1>4, <1>5, <1>10
      DEF Profile, Validate, BuildFails, Inside, Building, Promoting, Swapping, Over, Opening
<1>11. CASE Prepare(r) \/ PrepareFails(r) \/ Sweep(r)
  BY <1>1, <1>2, <1>3, <1>4, <1>5, <1>11
      DEF Prepare, PrepareFails, Sweep, Inside, Building, Promoting, Swapping, Over, Opening
<1>12. CASE Promote(r) \/ PromoteFails(r) \/ WriteDraft(r)
  BY <1>1, <1>2, <1>3, <1>4, <1>5, <1>12
      DEF Promote, PromoteFails, WriteDraft, Inside, Building, Promoting, Swapping, Over, Opening
<1>13. CASE RenameDraft(r) \/ RenameFails(r) \/ SetAside(r)
  BY <1>1, <1>2, <1>3, <1>4, <1>5, <1>13
      DEF RenameDraft, RenameFails, SetAside, Inside, Building, Promoting, Swapping, Over, Opening
<1>14. CASE Replace(r) \/ BringBack(r) \/ Discard(r)
  BY <1>1, <1>2, <1>3, <1>4, <1>5, <1>14
      DEF Replace, BringBack, Discard, Inside, Building, Promoting, Swapping, Over, Opening
<1>15. CASE Withdraw(r) \/ DropDraft(r) \/ RecordFailure(r)
  BY <1>1, <1>2, <1>3, <1>4, <1>5, <1>15
      DEF Withdraw, DropDraft, RecordFailure, Inside, Building, Promoting, Swapping, Over, Opening
<1>16. CASE CleanWorkspace(r) \/ CleanPending(r) \/ Release(r)
  BY <1>1, <1>2, <1>3, <1>4, <1>5, <1>16
      DEF CleanWorkspace, CleanPending, Release, Inside, Building, Promoting, Swapping, Over, Opening
<1>17. CASE Report(r) \/ Kill(r) \/ ClearLocks(r)
  BY <1>1, <1>2, <1>3, <1>4, <1>5, <1>17
      DEF Report, Kill, ClearLocks, process, Inside, Building, Promoting, Swapping, Over, Opening
<1> QED BY <1>6, <1>7, <1>8, <1>9, <1>10, <1>11, <1>12, <1>13, <1>14, <1>15, <1>16, <1>17 DEF Moves, Step

(* Both locks stay with the process that holds them: only their holder     *)
(* removes them, or an operator once it is over.                           *)
LEMMA HeldKept ==
  ASSUME IInv, NEW r \in Run, Moves(r), NEW q \in Run
  PROVE  /\ at'[q] \in {"begin", "target", "over"} => held'[q] = <<>>
         /\ at'[q] = "snapshot" => held'[q] = <<TargetLock>>
         /\ at'[q] \in Inside => held'[q] = <<SnapshotLock(key[q]), TargetLock>>
         /\ at'[q] \notin Over => \A n \in {held'[q][i] : i \in DOMAIN held'[q]} : locks'[n] = q
<1> DEFINE HeldNext == {held'[q][i] : i \in DOMAIN held'[q]}
<1>1. /\ locks \in [LockName -> Run \cup {None}]
      /\ held \in [Run -> Seq(LockName)]
      /\ held[q] \in {<<>>, <<TargetLock>>, <<SnapshotLock(key[q]), TargetLock>>}
      /\ held[r] \in {<<>>, <<TargetLock>>, <<SnapshotLock(key[r]), TargetLock>>}
      /\ key \in [Run -> Identity]
      /\ HeldOK(q)
      /\ HeldOK(r)
  BY DEF IInv, TypeOK
<1>2. TargetLock \in LockName /\ SnapshotLock(key[r]) \in LockName /\ NextLock(r) \in LockName
  BY <1>1 DEF LockName, NextLock
<1>3. HeldBy(q) \subseteq LockName
  BY <1>1, HeldLocks DEF LockName
<1>4. None \notin Run
  BY NoneAssumption
<1>5. CASE q # r
  <2>1. held'[q] = held[q] /\ at'[q] = at[q]
    BY <1>5, OthersKept
  <2>2. ASSUME at[q] \notin Over, NEW n \in HeldBy(q)
        PROVE  locks'[n] = q
    <3>1. locks[n] = q /\ n \in LockName
      BY <1>1, <1>3, <2>2 DEF HeldOK
    <3>2. CASE TakeLock(r) \/ TakeLockFails(r)
      BY <1>1, <1>2, <1>4, <3>1, <3>2 DEF TakeLock, TakeLockFails, LockFree
    <3>3. CASE UndoLock(r)
      BY <1>1, <1>5, <3>1, <3>3 DEF UndoLock, NotHeld
    <3>4. CASE Release(r)
      BY <1>1, <1>5, <3>1, <3>4 DEF Release
    <3>5. CASE ClearLocks(r)
      BY <1>1, <1>5, <3>1, <3>5 DEF ClearLocks
    <3>6. CASE locks' = locks
      BY <3>1, <3>6
    <3> QED BY <3>2, <3>3, <3>4, <3>5, <3>6
        DEF Moves, Begin, Step, Kill, PlanRun, directory,
            CheckLedger, ReadFails, StartExtract, MarkDuplicate, Extract, Profile, Validate, BuildFails,
            Prepare, PrepareFails, Sweep, Promote, PromoteFails, WriteDraft, RenameDraft, RenameFails,
            SetAside, Replace, BringBack, Discard, Withdraw, DropDraft, RecordFailure, CleanWorkspace,
            CleanPending, Report
  <2>3. HeldNext = HeldBy(q)
    BY <2>1 DEF HeldBy
  <2> QED BY <1>1, <2>1, <2>2, <2>3 DEF HeldOK
<1>6. CASE q = r
  <2>1. CASE TakeLock(r) /\ LockFree(NextLock(r))
    <3>1. /\ locks' = [locks EXCEPT ![NextLock(r)] = r]
          /\ held' = [held EXCEPT ![r] = HeldWith(r, NextLock(r))]
          /\ at[r] \in {"target", "snapshot"}
          /\ at' = [at EXCEPT ![r] = IF at[r] = "target" THEN "snapshot" ELSE "plan"]
          /\ at \in [Run -> Place]
      BY <2>1 DEF TakeLock, Goto, IInv, TypeOK, Place
    <3>2. held'[r] = HeldWith(r, NextLock(r)) /\ locks'[NextLock(r)] = r
      BY <1>1, <1>2, <3>1
    <3>3. CASE at[r] = "target"
      <4>1. NextLock(r) = TargetLock /\ held[r] = <<>> /\ at'[r] = "snapshot"
        BY <1>1, <3>1, <3>3 DEF NextLock, HeldOK
      <4>2. held'[r] = <<TargetLock>>
        BY <3>2, <4>1, LockOrder DEF HeldWith
      <4>3. {held'[r][i] : i \in DOMAIN held'[r]} = {TargetLock}
        BY <4>2
      <4> QED BY <1>6, <3>2, <4>1, <4>2, <4>3 DEF Inside, Building, Promoting, Swapping
    <3>4. CASE at[r] = "snapshot"
      <4>1. NextLock(r) = SnapshotLock(key[r]) /\ held[r] = <<TargetLock>> /\ at'[r] = "plan"
        BY <1>1, <3>1, <3>4 DEF NextLock, HeldOK
      <4>2. held'[r] = <<SnapshotLock(key[r]), TargetLock>>
        BY <3>2, <4>1, LockOrder DEF HeldWith
      <4>3. {held'[r][i] : i \in DOMAIN held'[r]} = {SnapshotLock(key[r]), TargetLock}
        <5> DEFINE s == SnapshotLock(key[r])
                   t == TargetLock
        <5> HIDE DEF s, t
        <5>1. held'[r] = <<s, t>>
          BY <4>2 DEF s, t
        <5>2. DOMAIN held'[r] = {1, 2} /\ held'[r][1] = s /\ held'[r][2] = t
          BY <5>1
        <5>3. {held'[r][i] : i \in DOMAIN held'[r]} = {s, t}
          BY <5>2
        <5> QED BY <5>3 DEF s, t
      <4>4. locks[TargetLock] = r /\ TargetLock # SnapshotLock(key[r])
        <5>1. HeldBy(r) = {TargetLock}
          BY <4>1, HeldLocks
        <5> QED BY <1>1, <3>4, <5>1, LockOrder DEF HeldOK, Over
      <4>5. locks'[TargetLock] = r
        BY <1>1, <1>2, <3>1, <4>1, <4>4
      <4> QED BY <1>6, <3>2, <4>1, <4>2, <4>3, <4>5
    <3> QED BY <3>1, <3>3, <3>4
  <2>2. CASE Release(r)
    <3>1. /\ at'[r] = at[r]
          /\ at[r] = "release"
          /\ held' = [held EXCEPT ![r] = Tail(@)]
          /\ held[r] # <<>>
          /\ locks' = locks \/ locks' = [locks EXCEPT ![Head(held[r])] = None]
      BY <2>2 DEF Release
    <3>2. CASE held[r] = <<TargetLock>>
      <4>1. held'[r] = <<>>
        BY <1>1, <3>1, <3>2, LockOrder
      <4>2. {held'[r][i] : i \in DOMAIN held'[r]} = {}
        BY <4>1
      <4> QED BY <1>6, <3>1, <4>1, <4>2 DEF Inside, Building, Promoting, Swapping
    <3>3. CASE held[r] = <<SnapshotLock(key[r]), TargetLock>>
      <4>1. held'[r] = <<TargetLock>> /\ Head(held[r]) = SnapshotLock(key[r])
        BY <1>1, <3>1, <3>3, LockOrder
      <4>2. {held'[r][i] : i \in DOMAIN held'[r]} = {TargetLock}
        BY <4>1
      <4>3. locks[TargetLock] = r /\ TargetLock # SnapshotLock(key[r])
        <5>1. HeldBy(r) = {SnapshotLock(key[r]), TargetLock}
          BY <3>3, HeldLocks
        <5> QED BY <1>1, <3>1, <5>1, LockOrder DEF HeldOK, Over
      <4>4. locks'[TargetLock] = r
        BY <1>1, <1>2, <3>1, <4>1, <4>3
      <4> QED BY <1>6, <3>1, <4>1, <4>2, <4>4 DEF Inside, Building, Promoting, Swapping
    <3> QED BY <1>1, <3>1, <3>2, <3>3
  <2>3. CASE ~(TakeLock(r) /\ LockFree(NextLock(r))) /\ ~Release(r)
    <3>1. held' = held
      BY <2>3 DEF Moves, Begin, Step, Kill, ClearLocks, process, TakeLock, TakeLockFails, UndoLock, PlanRun,
            CheckLedger, ReadFails, StartExtract, MarkDuplicate, Extract, Profile, Validate, BuildFails,
            Prepare, PrepareFails, Sweep, Promote, PromoteFails, WriteDraft, RenameDraft, RenameFails,
            SetAside, Replace, BringBack, Discard, Withdraw, DropDraft, RecordFailure, CleanWorkspace,
            CleanPending, Report
    <3>2. TakeLock(r) => at'[r] = "receipt"
      <4>1. TakeLock(r) => Throw(r, "LOCKED")
        BY <2>3 DEF TakeLock
      <4>2. at \in [Run -> Place]
        BY DEF IInv, TypeOK, Place
      <4> QED BY <4>1, <4>2 DEF Throw, Goto
    <3>3. /\ at'[r] \in Inside => at[r] \in Inside
          /\ at'[r] = "target" => at[r] = "begin"
          /\ at'[r] # "snapshot"
          /\ at'[r] = "over" => at[r] = "over" \/ held[r] = <<>>
          /\ at'[r] # "begin"
          /\ at[r] \in Over => at'[r] = at[r]
      BY <3>2, PlacesFollow DEF Inside, Building, Promoting, Swapping
    <3>4. ASSUME at'[r] \notin Over, NEW n \in HeldBy(r)
          PROVE  locks'[n] = r
      <4>1. locks[n] = r /\ n \in LockName /\ at[r] \notin Over
        BY <1>1, <1>3, <1>6, <3>3, <3>4 DEF HeldOK
      <4>2. CASE TakeLock(r) \/ TakeLockFails(r)
        <5>1. locks' = locks \/ (LockFree(NextLock(r)) /\ locks' = [locks EXCEPT ![NextLock(r)] = r])
          BY <4>2 DEF TakeLock, TakeLockFails
        <5> QED BY <1>1, <1>2, <4>1, <5>1
      <4>3. CASE UndoLock(r)
        BY <1>1, <3>4, <4>1, <4>3 DEF UndoLock, NotHeld, HeldBy
      <4>4. ~ClearLocks(r)
        BY <4>1 DEF ClearLocks
      <4>5. CASE locks' = locks
        BY <4>1, <4>5
      <4> QED BY <2>3, <4>2, <4>3, <4>4, <4>5
          DEF Moves, Begin, Step, Kill, PlanRun, directory,
              CheckLedger, ReadFails, StartExtract, MarkDuplicate, Extract, Profile, Validate, BuildFails,
              Prepare, PrepareFails, Sweep, Promote, PromoteFails, WriteDraft, RenameDraft, RenameFails,
              SetAside, Replace, BringBack, Discard, Withdraw, DropDraft, RecordFailure, CleanWorkspace,
              CleanPending, Report
    <3>5. HeldNext = HeldBy(r)
      BY <1>6, <3>1 DEF HeldBy
    <3>6. /\ at[r] \in {"begin", "over"} => held[r] = <<>>
          /\ at[r] \in Inside => held[r] = <<SnapshotLock(key[r]), TargetLock>>
      BY <1>1 DEF HeldOK
    <3> QED BY <1>6, <3>1, <3>3, <3>4, <3>5, <3>6
  <2> QED BY <2>1, <2>2, <2>3
<1> QED BY <1>5, <1>6

(* A record of a run on its way keeps the publication it was planned on.   *)
LEMMA GoingIs ==
  ASSUME NEW r, NEW state
  PROVE  /\ Going(r, state).lastKnownGood = run[r].lastKnownGood
         /\ Going(r, state).state = state
         /\ Going(r, state).id = r
         /\ Going(r, state).key = key[r]
BY DEF Going, RunIn

(* A process that goes on has the run record of where it gets to.          *)
LEMMA EnteredFits ==
  ASSUME IInv, NEW r \in Run, NEW place \in {"decide"} \cup Building,
         Entered(r, place, StateAt(place)), failure[r] = None, key' = key
  PROVE  RunOK(r)'
<1>1. /\ at'[r] = place
      /\ run'[r] = Going(r, StateAt(place))
      /\ failure'[r] = None
  BY DEF Entered, IInv, TypeOK
<1>2. run'[r] # None /\ run'[r] = RunIn(r, key'[r], run'[r].lastKnownGood, StateAt(at'[r]))
  BY <1>1, GoingIs DEF Entered, Going
<1>3. MayFollow(key'[r], run'[r].lastKnownGood)
  BY <1>1, GoingIs DEF Entered
<1>4. InState(r, StateAt(at[r]))'
  BY <1>2, <1>3 DEF InState
<1>5. None # "STATE_INVALID"
  BY NullAssumption DEF Code
<1> QED BY <1>1, <1>2, <1>4, <1>5 DEF RunOK, Building

(* A process that goes on with the record it has is where it fits.         *)
LEMMA StayFits ==
  ASSUME IInv, NEW r \in Run, NEW place,
         at' = [at EXCEPT ![r] = place], run' = run, failure' = failure, key' = key,
         \/ place \in {"target", "snapshot", "plan"} /\ at[r] \in {"begin", "target", "snapshot"}
         \/ place = "undo" /\ at[r] \in {"target", "snapshot"} /\ faults' > 0
         \/ place \in Promoting /\ at[r] \in Promoting \cup {"sweep"}
  PROVE  RunOK(r)'
<1>1. at'[r] = place /\ run'[r] = run[r] /\ failure'[r] = failure[r] /\ key'[r] = key[r]
  BY DEF IInv, TypeOK
<1>2. failure[r] = None
  BY DEF IInv, RunOK, Opening, Building
<1>3. None # "STATE_INVALID"
  BY NullAssumption DEF Code
<1>4. CASE place \in {"target", "snapshot", "plan", "undo"}
  <2>1. run[r] = None
    BY <1>4 DEF IInv, RunOK, Promoting, Swapping
  <2> QED BY <1>1, <1>2, <1>3, <1>4, <2>1 DEF RunOK, Building, Promoting, Swapping, Opening
<1>5. CASE place \in Promoting /\ at[r] \in Promoting \cup {"sweep"}
  <2>1. run[r] # None /\ InState(r, StateAt(at[r]))
    BY <1>5 DEF IInv, RunOK, Building
  <2>2. StateAt(at[r]) = "PUBLISHING" /\ StateAt(place) = "PUBLISHING"
    BY <1>5 DEF StateAt, Promoting, Swapping
  <2>3. InState(r, StateAt(at[r]))'
    BY <1>1, <2>1, <2>2 DEF InState
  <2> QED BY <1>1, <1>2, <1>3, <1>5, <2>1, <2>3 DEF RunOK, Building, Promoting, Swapping, Opening
<1> QED BY <1>4, <1>5

(* A process that throws still has a run a failure can be recorded in.     *)
LEMMA ThrowFits ==
  ASSUME IInv, NEW r \in Run, NEW code \in Code,
         at[r] \in Opening \cup Building \cup Promoting,
         at' = [at EXCEPT ![r] = "receipt"], run' = run,
         failure' = [failure EXCEPT ![r] = code], key' = key,
         code = "STATE_INVALID" => faults' > 0
  PROVE  RunOK(r)'
<1>1. at'[r] = "receipt" /\ run'[r] = run[r] /\ failure'[r] = code /\ key'[r] = key[r]
  BY DEF IInv, TypeOK
<1>2. code # None
  BY NullAssumption
<1>3. run[r] = None \/ InProgress(r)
  <2>1. CASE at[r] \in {"begin", "target", "snapshot", "undo", "plan"}
    BY <2>1 DEF IInv, RunOK
  <2>2. CASE at[r] \in {"ledger", "decide"} \cup Building \cup Promoting
    <3>1. InState(r, StateAt(at[r]))
      BY <2>2 DEF IInv, RunOK
    <3>2. StateAt(at[r]) \in DOMAIN StageOf
      BY <2>2 DEF StateAt, StageOf
    <3> QED BY <3>1, <3>2 DEF InProgress
  <2> QED BY <2>1, <2>2 DEF Opening
<1>4. run'[r] = None \/ InProgress(r)'
  BY <1>1, <1>3 DEF InProgress, InState
<1> QED BY <1>1, <1>2, <1>4 DEF RunOK, Building, Promoting, Swapping, Opening

(* What happens in the catch and finally blocks keeps the outcome.         *)
LEMMA ClosingFits ==
  ASSUME IInv, NEW r \in Run, NEW place,
         at' = [at EXCEPT ![r] = place], run' = run, failure' = failure, key' = key,
         faults' \in Nat, faults' >= faults,
         \/ at[r] = "cleanWorkspace" /\ place = "cleanPending"
         \/ at[r] = "cleanPending" /\ place = "release"
         \/ at[r] = "release" /\ place = "release"
         \/ at[r] = "release" /\ place = "over" /\ answer'[r] = Told(r) /\ unclean' = unclean
  PROVE  RunOK(r)'
<1>1. at'[r] = place /\ run'[r] = run[r] /\ failure'[r] = failure[r] /\ key'[r] = key[r]
  BY DEF IInv, TypeOK
<1>2. faults \in Nat /\ faults' \in Nat /\ faults' >= faults
  BY BoundsAssumption DEF IInv, TypeOK
<1>3. RunOK(r)
  BY DEF IInv
<1>4. place \in {"cleanPending", "release", "over"} /\ at[r] \in {"cleanWorkspace", "cleanPending", "release"}
  OBVIOUS
<1>5. IF failure[r] = None THEN run[r] # None /\ run[r].state \in {"PUBLISHED", "DUPLICATE"}
      ELSE \/ run[r] = None
           \/ run[r].state = (IF failure[r] \in BlockedCode THEN "BLOCKED" ELSE "FAILED")
           \/ UnrecordedDuplicate(r)
  BY <1>3, <1>4 DEF RunOK
<1>6. place = "over" => answer'[r] = Told(r)'
  BY <1>1 DEF Told, Disposition
<1>7. failure'[r] = "STATE_INVALID" => faults' > 0
  <2>1. failure[r] = "STATE_INVALID" => faults > 0
    BY <1>3 DEF RunOK
  <2> QED BY <1>1, <1>2, <2>1
<1>8. place = "cleanPending" => failure'[r] # None
  BY <1>1, <1>3 DEF RunOK
<1> QED BY <1>1, <1>4, <1>5, <1>6, <1>7, <1>8
        DEF RunOK, UnrecordedDuplicate, Building, Promoting, Swapping, Opening

(* After its own step a process has the run record of where it stands.     *)
LEMMA OwnRunKept ==
  ASSUME IInv, NEW r \in Run, Moves(r)
  PROVE  RunOK(r)'
<1>1. /\ at \in [Run -> Place]
      /\ run \in [Run -> RunRecord \cup {None}]
      /\ failure \in [Run -> Code \cup {None}]
      /\ key' = key
      /\ faults \in Nat
      /\ faults' \in Nat
      /\ faults' >= faults
  BY BoundsAssumption, BoundTypes, RunTypes DEF IInv, TypeOK, Place
<1>2. {"DUPLICATE_STATE_INVALID", "LOCKED", "ROLLBACK_BLOCKED", "SOURCE_CONFLICT", "SOURCE_INVALID",
       "STATE_INVALID", "ARTIFACT_INVALID", "RECEIPT_FAILED", "CLEANUP_FAILED", "PROMOTION_FAILED"}
        \subseteq Code
  BY DEF Code, BlockedCode
<1>3. Fault => faults' > 0
  BY <1>1 DEF Fault
<1>5. ASSUME at[r] \in Opening \cup Building \cup Promoting, NEW code \in Code,
             Throw(r, code), run' = run, code = "STATE_INVALID" => faults' > 0
      PROVE  RunOK(r)'
  BY <1>1, <1>5, ThrowFits DEF Throw, Goto
<1>6. ASSUME NEW place, Goto(r, place), run' = run, failure' = failure,
             \/ place \in {"target", "snapshot", "plan"} /\ at[r] \in {"begin", "target", "snapshot"}
             \/ place = "undo" /\ at[r] \in {"target", "snapshot"} /\ faults' > 0
             \/ place \in Promoting /\ at[r] \in Promoting \cup {"sweep"}
      PROVE  RunOK(r)'
  BY <1>1, <1>6, StayFits DEF Goto
<1>7. at[r] \in Opening \cup Building \cup Promoting => failure[r] = None
  BY DEF IInv, RunOK
<1>8. CASE Begin(r)
  BY <1>2, <1>5, <1>6, <1>8 DEF Begin, Opening
<1>9. CASE TakeLock(r)
  BY <1>2, <1>5, <1>6, <1>9 DEF TakeLock, Opening
<1>10. CASE TakeLockFails(r)
  BY <1>2, <1>3, <1>5, <1>6, <1>10 DEF TakeLockFails, Opening
<1>11. CASE UndoLock(r)
  <2>1. faults > 0 /\ at[r] = "undo"
    BY <1>11 DEF UndoLock, IInv, RunOK
  <2>2. faults' > 0
    BY <1>1, <2>1
  <2> QED BY <1>2, <1>5, <1>11, <2>1, <2>2 DEF UndoLock, Opening
<1>12. CASE PlanRun(r)
  <2>1. at[r] = "plan"
    BY <1>12 DEF PlanRun
  <2>2. CASE Thrown(r, {"DUPLICATE_STATE_INVALID", "ROLLBACK_BLOCKED", "SOURCE_CONFLICT"})
    <3>1. PICK code \in {"DUPLICATE_STATE_INVALID", "ROLLBACK_BLOCKED", "SOURCE_CONFLICT"} :
            failure' = [failure EXCEPT ![r] = code]
      BY <2>2 DEF Thrown
    <3> QED BY <1>1, <1>2, <2>1, <2>2, <3>1, ThrowFits DEF Thrown, Opening
  <2>3. CASE /\ at' = [at EXCEPT ![r] = "ledger"]
             /\ run' = [run EXCEPT ![r] = RunIn(r, key[r], PublicationAt(pointer), "PLANNED")]
             /\ failure' = failure
             /\ RunIn(r, key[r], PublicationAt(pointer), "PLANNED") # None
             /\ MayFollow(key[r], PublicationAt(pointer))
    <3> DEFINE planned == RunIn(r, key[r], PublicationAt(pointer), "PLANNED")
    <3>1. at'[r] = "ledger" /\ run'[r] = planned /\ failure'[r] = None /\ key'[r] = key[r]
      BY <1>1, <1>7, <2>1, <2>3 DEF Opening
    <3>2. planned.lastKnownGood = PublicationAt(pointer)
      BY DEF RunIn
    <3>3. InState(r, StateAt(at[r]))'
      BY <2>3, <3>1, <3>2 DEF InState, StateAt
    <3>4. None # "STATE_INVALID"
      BY NullAssumption DEF Code
    <3> QED BY <2>3, <3>1, <3>3, <3>4 DEF RunOK, Building, Promoting, Swapping, Opening
  <2> QED BY <1>12, <2>2, <2>3, PlanRuns
<1>13. CASE CheckLedger(r)
  <2>1. at[r] = "ledger"
    BY <1>13 DEF CheckLedger
  <2>2. CASE Entered(r, "decide", "LOCKED")
    <3>1. StateAt("decide") = "LOCKED"
      BY DEF StateAt
    <3> QED BY <1>1, <1>7, <2>1, <2>2, <3>1, EnteredFits DEF Opening
  <2>3. CASE Thrown(r, {"DUPLICATE_STATE_INVALID"})
    BY <1>1, <1>2, <2>1, <2>3, ThrowFits DEF Thrown, Opening
  <2> QED BY <1>13, <2>2, <2>3, AdvanceRuns
<1>14. CASE ReadFails(r)
  BY <1>2, <1>3, <1>5, <1>14 DEF ReadFails, Opening
<1>15. CASE StartExtract(r)
  <2>1. at[r] = "decide" /\ Entered(r, "extract", "EXTRACTING") /\ StateAt("extract") = "EXTRACTING"
    BY <1>15, AdvanceRuns DEF StartExtract, StateAt
  <2> QED BY <1>1, <1>7, <2>1, EnteredFits DEF Opening, Building
<1>16. CASE MarkDuplicate(r)
  <2>1. at[r] = "decide"
    BY <1>16 DEF MarkDuplicate
  <2>2. CASE Thrown(r, {"DUPLICATE_STATE_INVALID"})
    BY <1>1, <1>2, <2>1, <2>2, ThrowFits DEF Thrown, Opening
  <2>3. CASE ~Thrown(r, {"DUPLICATE_STATE_INVALID"})
    <3>1. PICK next \in RunRecord :
            /\ next # None
            /\ next.state = "DUPLICATE"
            /\ run' = [run EXCEPT ![r] = next]
            /\ \/ at' = [at EXCEPT ![r] = "release"] /\ failure' = failure
               \/ at' = [at EXCEPT ![r] = "receipt"] /\ failure' = [failure EXCEPT ![r] = "RECEIPT_FAILED"]
      BY <1>16, <2>3, DuplicateRuns
    <3>2. /\ run'[r] = next
          /\ \/ at'[r] = "release" /\ failure'[r] = None
             \/ at'[r] = "receipt" /\ failure'[r] = "RECEIPT_FAILED"
      BY <1>1, <1>7, <2>1, <3>1 DEF Opening
    <3>3. None # "STATE_INVALID" /\ "RECEIPT_FAILED" # None
      BY <1>2, NullAssumption
    <3> QED BY <3>1, <3>2, <3>3
         DEF RunOK, UnrecordedDuplicate, Building, Promoting, Swapping, Opening
  <2> QED BY <2>2, <2>3
<1>17. CASE Extract(r)
  <2>1. at[r] = "extract" /\ Entered(r, "profile", "PROFILING") /\ StateAt("profile") = "PROFILING"
    BY <1>17, AdvanceRuns DEF Extract, StateAt
  <2> QED BY <1>1, <1>7, <2>1, EnteredFits DEF Building
<1>18. CASE Profile(r)
  <2>1. at[r] = "profile" /\ Entered(r, "validate", "VALIDATING") /\ StateAt("validate") = "VALIDATING"
    BY <1>18, AdvanceRuns DEF Profile, StateAt
  <2> QED BY <1>1, <1>7, <2>1, EnteredFits DEF Building
<1>19. CASE Validate(r)
  <2>1. at[r] = "validate" /\ Entered(r, "prepare", "VALIDATED") /\ StateAt("prepare") = "VALIDATED"
    BY <1>19, AdvanceRuns DEF Validate, StateAt
  <2> QED BY <1>1, <1>7, <2>1, EnteredFits DEF Building
<1>20. CASE Prepare(r)
  <2>1. at[r] = "prepare" /\ Entered(r, "sweep", "PUBLISHING") /\ StateAt("sweep") = "PUBLISHING"
    BY <1>20, AdvanceRuns DEF Prepare, StateAt
  <2> QED BY <1>1, <1>7, <2>1, EnteredFits DEF Building
<1>21. CASE BuildFails(r)
  BY <1>2, <1>5, <1>21 DEF BuildFails, Opening, Building
<1>22. CASE PrepareFails(r)
  <2>1. at[r] = "prepare" /\ Fault
    BY <1>22 DEF PrepareFails
  <2>2. /\ at' = [at EXCEPT ![r] = "receipt"]
        /\ run' = [run EXCEPT ![r] = Going(r, "PUBLISHING")]
        /\ failure' = [failure EXCEPT ![r] = "STATE_INVALID"]
        /\ Going(r, "PUBLISHING") # None
        /\ MayFollow(key[r], run[r].lastKnownGood)
    BY <1>22, AdvanceRuns
  <2>3. at'[r] = "receipt" /\ run'[r] = Going(r, "PUBLISHING") /\ failure'[r] = "STATE_INVALID" /\ key'[r] = key[r]
    BY <1>1, <2>2
  <2>4. InState(r, "PUBLISHING")'
    <3>1. run'[r].lastKnownGood = run[r].lastKnownGood
      BY <2>3, GoingIs
    <3> QED BY <2>2, <2>3, <3>1 DEF InState, Going
  <2>5. InProgress(r)'
    BY <2>4 DEF InProgress, StageOf
  <2>6. "STATE_INVALID" # None
    BY <1>2, NullAssumption
  <2> QED BY <1>3, <2>1, <2>3, <2>5, <2>6 DEF RunOK, Building, Promoting, Swapping, Opening
<1>23. CASE Sweep(r)
  BY <1>2, <1>5, <1>6, <1>23 DEF Sweep, Building, Promoting
<1>24. CASE Promote(r)
  BY <1>2, <1>5, <1>6, <1>24 DEF Promote, Promoting
<1>25. CASE PromoteFails(r)
  BY <1>2, <1>5, <1>25 DEF PromoteFails, Promoting
<1>26. CASE WriteDraft(r)
  BY <1>6, <1>26 DEF WriteDraft, Promoting
<1>27. ASSUME at[r] \in Promoting, Written(r)
       PROVE  RunOK(r)'
  <2>1. CASE at' = [at EXCEPT ![r] = "draft"] /\ run' = run /\ failure' = failure
    BY <1>6, <1>27, <2>1 DEF Goto, Promoting
  <2>2. CASE /\ failure' = failure
             /\ at' = [at EXCEPT ![r] = "release"]
             /\ run' = [run EXCEPT ![r] = PublishedRun(r, key[r])]
             /\ PublishedRun(r, key[r]) # None
    <3>1. /\ at'[r] = "release"
          /\ failure'[r] = None
          /\ run'[r] = PublishedRun(r, key[r])
      BY <1>1, <1>7, <1>27, <2>2
    <3>2. PublishedRun(r, key[r]).state = "PUBLISHED"
      BY DEF PublishedRun
    <3>3. None # "STATE_INVALID"
      BY NullAssumption DEF Code
    <3> QED BY <2>2, <3>1, <3>2, <3>3 DEF RunOK, Building, Promoting, Swapping, Opening
  <2> QED BY <1>27, <2>1, <2>2, WrittenRuns
<1>28. CASE RenameDraft(r)
  BY <1>27, <1>28 DEF RenameDraft, Promoting
<1>29. CASE RenameFails(r)
  BY <1>6, <1>29 DEF RenameFails, Promoting
<1>30. CASE SetAside(r) \/ Replace(r)
  BY <1>6, <1>30 DEF SetAside, Replace, Promoting, Swapping
<1>31. CASE BringBack(r) \/ Withdraw(r)
  BY <1>6, <1>31 DEF BringBack, Withdraw, Promoting, Swapping
<1>32. CASE Discard(r)
  BY <1>6, <1>27, <1>32 DEF Discard, Promoting, Swapping
<1>33. CASE DropDraft(r)
  BY <1>2, <1>5, <1>33 DEF DropDraft, Promoting
<1>34. CASE RecordFailure(r)
  <2>1. /\ at[r] = "receipt"
        /\ at' = [at EXCEPT ![r] = "cleanWorkspace"]
        /\ run' = [run EXCEPT ![r] = Failed(run[r], failure[r])]
        /\ failure' = failure
    BY <1>34 DEF RecordFailure, Goto
  <2>2. /\ at'[r] = "cleanWorkspace"
        /\ run'[r] = Failed(run[r], failure[r])
        /\ failure'[r] = failure[r]
    BY <1>1, <2>1
  <2>3. failure[r] # None /\ (failure[r] = "STATE_INVALID" => faults > 0)
    BY <2>1 DEF IInv, RunOK
  <2>4. failure[r] = "STATE_INVALID" => faults' > 0
    BY <1>1, <2>3
  <2>5. \/ run'[r] = None
        \/ run'[r].state = (IF failure'[r] \in BlockedCode THEN "BLOCKED" ELSE "FAILED")
        \/ UnrecordedDuplicate(r)'
    BY <2>1, <2>2, FailureRuns DEF UnrecordedDuplicate
  <2> QED BY <2>2, <2>3, <2>4, <2>5 DEF RunOK, Building, Promoting, Swapping, Opening
<1>35. CASE CleanWorkspace(r)
  BY <1>1, <1>35, ClosingFits DEF CleanWorkspace, Goto
<1>36. CASE CleanPending(r)
  BY <1>1, <1>36, ClosingFits DEF CleanPending, Goto
<1>37. CASE Release(r)
  <2>1. at[r] = "release" /\ at' = [at EXCEPT ![r] = "release"]
    BY <1>1, <1>37 DEF Release
  <2> QED BY <1>1, <1>37, <2>1, ClosingFits DEF Release
<1>38. CASE Report(r)
  <2>1. answer'[r] = Told(r)
    BY <1>38 DEF Report, IInv, TypeOK
  <2> QED BY <1>1, <1>38, <2>1, ClosingFits DEF Report, Goto
<1>39. CASE Kill(r)
  <2>1. at'[r] = "killed" /\ run' = run /\ failure' = failure
    BY <1>1, <1>39 DEF Kill, Goto
  <2>2. failure[r] = "STATE_INVALID" => faults > 0
    BY DEF IInv, RunOK
  <2>3. failure'[r] = "STATE_INVALID" => faults' > 0
    BY <1>1, <2>1, <2>2
  <2> QED BY <2>1, <2>3 DEF RunOK, Building, Promoting, Swapping, Opening
<1>40. CASE ClearLocks(r)
  <2>1. /\ at' = at
        /\ run' = run
        /\ failure' = failure
        /\ unclean' = unclean
        /\ answer' = answer
        /\ faults' = faults
        /\ at[r] \in Over
    BY <1>40 DEF ClearLocks, process
  <2>2. RunOK(r)
    BY DEF IInv
  <2> QED BY <1>1, <2>1, <2>2
      DEF RunOK, InProgress, InState, UnrecordedDuplicate, Told, Disposition, Over, Building, Promoting, Swapping, Opening
<1> QED BY <1>8, <1>9, <1>10, <1>11, <1>12, <1>13, <1>14, <1>15, <1>16, <1>17, <1>18, <1>19, <1>20,
           <1>21, <1>22, <1>23, <1>24, <1>25, <1>26, <1>28, <1>29, <1>30, <1>31, <1>32, <1>33, <1>34, <1>35,
           <1>36, <1>37, <1>38, <1>39, <1>40 DEF Moves, Step

(* Where each process stands says what its run record is, after any step.  *)
LEMMA RunKept ==
  ASSUME IInv, NEW r \in Run, Moves(r), NEW q \in Run
  PROVE  RunOK(q)'
<1>1. /\ key' = key
      /\ RunOK(q)
      /\ faults \in Nat
      /\ faults' \in Nat
      /\ faults' >= faults
  BY BoundsAssumption, BoundTypes, RunTypes DEF IInv, TypeOK
<1>4. CASE q # r
  <2>1. /\ at'[q] = at[q]
        /\ run'[q] = run[q]
        /\ failure'[q] = failure[q]
        /\ unclean'[q] = unclean[q]
        /\ answer'[q] = answer[q]
        /\ key'[q] = key[q]
    BY <1>1, <1>4, OthersKept
  <2>2. \A state : InState(q, state)' <=> InState(q, state)
    BY <2>1 DEF InState
  <2>3. InProgress(q)' <=> InProgress(q)
    BY <2>2 DEF InProgress
  <2>4. UnrecordedDuplicate(q)' <=> UnrecordedDuplicate(q)
    BY <2>1 DEF UnrecordedDuplicate
  <2>5. Told(q)' = Told(q)
    BY <2>1 DEF Told, Disposition
  <2>6. faults > 0 => faults' > 0
    BY <1>1
  <2>7. InState(q, StateAt(at[q]))' <=> InState(q, StateAt(at[q]))
    BY <2>1, <2>2 DEF InState
  <2> QED BY <1>1, <2>1, <2>3, <2>4, <2>5, <2>6, <2>7 DEF RunOK
<1>5. CASE q = r
  BY <1>5, OwnRunKept
<1> QED BY <1>4, <1>5

(* What a step does to the files of a promotion: nothing, or one rename.   *)
LEMMA TablesMove ==
  ASSUME IInv, NEW r \in Run, Moves(r)
  PROVE  \/ UNCHANGED <<versions, activations, pointer, backup>>
         \/ /\ Promote(r)
            /\ versions[key[r]] = None
            /\ versions' = [versions EXCEPT ![key[r]] = r]
            /\ UNCHANGED <<activations, pointer, backup>>
         \/ /\ RenameDraft(r)
            /\ file[r] = "activation"
            /\ activations' = [activations EXCEPT ![key[r]] = [run |-> r, previous |-> head[r]]]
            /\ UNCHANGED <<versions, pointer, backup>>
         \/ /\ RenameDraft(r) \/ Replace(r)
            /\ file[r] = "pointer"
            /\ pointer' = Own(r)
            /\ UNCHANGED <<versions, activations, backup>>
         \/ /\ SetAside(r)
            /\ pointer' = None
            /\ backup' = [backup EXCEPT ![r] = pointer]
            /\ UNCHANGED <<versions, activations>>
         \/ /\ BringBack(r)
            /\ pointer' = backup[r]
            /\ backup' = [backup EXCEPT ![r] = None]
            /\ UNCHANGED <<versions, activations>>
         \/ /\ Discard(r)
            /\ backup' = [backup EXCEPT ![r] = None]
            /\ UNCHANGED <<versions, activations, pointer>>
         \/ /\ Withdraw(r)
            /\ pointer' = None
            /\ UNCHANGED <<versions, activations, backup>>
<1>1. file[r] \in {"activation", "pointer"}
  BY DEF IInv, TypeOK
<1>2. at[r] \in {"setAside"} \cup Swapping => file[r] = "pointer"
  BY DEF IInv, TablesOK, PromotionOK
<1>3. CASE Promote(r)
  BY <1>3 DEF Promote
<1>4. CASE RenameDraft(r)
  BY <1>1, <1>4 DEF RenameDraft, SetFile, NewContent
<1>5. CASE SetAside(r)
  <2>1. file[r] = "pointer"
    BY <1>2, <1>5 DEF SetAside
  <2> QED BY <1>5, <2>1 DEF SetAside, SetFile, Content
<1>6. CASE Replace(r)
  <2>1. file[r] = "pointer"
    BY <1>2, <1>6 DEF Replace, Swapping
  <2> QED BY <1>6, <2>1 DEF Replace, SetFile, NewContent
<1>7. CASE BringBack(r)
  <2>1. file[r] = "pointer"
    BY <1>2, <1>7 DEF BringBack, Swapping
  <2> QED BY <1>7, <2>1 DEF BringBack, SetFile
<1>8. CASE Discard(r)
  BY <1>8 DEF Discard
<1>9. CASE Withdraw(r)
  <2>1. file[r] = "pointer"
    BY <1>2, <1>9 DEF Withdraw, Swapping
  <2> QED BY <1>9, <2>1 DEF Withdraw, SetFile
<1>10. CASE UNCHANGED <<versions, activations, pointer, backup>>
  BY <1>10
<1> QED BY <1>3, <1>4, <1>5, <1>6, <1>7, <1>8, <1>9, <1>10
        DEF Moves, Begin, Step, Kill, ClearLocks, TakeLock, TakeLockFails, UndoLock, PlanRun, directory,
            CheckLedger, ReadFails, StartExtract, MarkDuplicate, Extract, Profile, Validate, BuildFails,
            Prepare, PrepareFails, Sweep, PromoteFails, WriteDraft, RenameFails, DropDraft,
            RecordFailure, CleanWorkspace, CleanPending, Release, Report

(* A version or an activation that is there stays as it is.                *)
LEMMA TablesOnlyGrow ==
  ASSUME IInv, NEW r \in Run, Moves(r), NEW k \in Identity
  PROVE  /\ versions[k] # None => versions'[k] = versions[k]
         /\ activations[k] # None => activations'[k] = activations[k]
<1>1. /\ versions \in [Identity -> Run \cup {None}]
      /\ activations \in [Identity -> Activation \cup {None}]
      /\ key[r] \in Identity
  BY DEF IInv, TypeOK
<1>2. RenameDraft(r) /\ file[r] = "activation" => activations[key[r]] = None
  BY DEF RenameDraft, IInv, TablesOK, PromotionOK
<1> QED BY <1>1, <1>2, TablesMove

(* A publication that is wholly there stays so.                            *)
LEMMA WholeKept ==
  ASSUME IInv, NEW r \in Run, Moves(r), NEW ref \in Reference, Whole(ref)
  PROVE  versions'[ref.key] = ref.run /\ activations'[ref.key] # None /\ activations'[ref.key].run = ref.run
<1>1. ref.key \in Identity /\ ref.run \in Run
  BY DEF Reference
<1>2. versions[ref.key] # None
  BY <1>1, NoneAssumption DEF Whole
<1> QED BY <1>1, <1>2, TablesOnlyGrow DEF Whole

(* How far each promotion has come, and that what the pointer names is     *)
(* wholly there, after any step.                                           *)
LEMMA TablesKept ==
  ASSUME IInv, NEW r \in Run, Moves(r)
  PROVE  TablesOK'
<1>1. /\ versions \in [Identity -> Run \cup {None}]
      /\ activations \in [Identity -> Activation \cup {None}]
      /\ pointer \in Reference \cup {None}
      /\ backup \in [Run -> Reference \cup {None}]
      /\ key \in [Run -> Identity]
      /\ key' = key
      /\ at \in [Run -> Place]
      /\ file \in [Run -> {"activation", "pointer"}]
      /\ head[r] \in Reference \cup {None}
      /\ TablesOK
  BY RunTypes DEF IInv, TypeOK, Place
<1>2. None \notin Run
  BY NoneAssumption
<1>3. \A q \in Run : Own(q) \in Reference /\ Own(q).key = key[q] /\ Own(q).run = q
  BY <1>1 DEF Own, Ref, Reference
<1>4. [run |-> r, previous |-> head[r]] \in Activation
  BY <1>1 DEF Activation
<1>5. [run |-> r, previous |-> head[r]] # None
  BY <1>4, NullAssumption
<1>6. \A ref \in Reference : Whole(ref) => Whole(ref)'
  BY WholeKept DEF Whole
<1>7. pointer' # None => Whole(pointer)'
  <2>1. pointer' \in Reference \cup {None}
    BY TableTypes
  <2>2. ASSUME pointer' # None
        PROVE  \E ref \in Reference : pointer' = ref /\ Whole(ref)
    <3>1. (RenameDraft(r) \/ Replace(r)) /\ file[r] = "pointer" => Whole(Own(r))
      BY <1>1 DEF RenameDraft, Replace, TablesOK, PromotionOK, Swapping
    <3>2. backup[r] # None => Whole(backup[r])
      BY <1>1 DEF TablesOK
    <3>3. pointer # None => Whole(pointer)
      BY <1>1 DEF TablesOK
    <3>4. \/ pointer' \in {pointer, None, backup[r]}
          \/ (RenameDraft(r) \/ Replace(r)) /\ file[r] = "pointer" /\ pointer' = Own(r)
      BY TablesMove
    <3> QED BY <2>1, <2>2, <3>1, <3>2, <3>3, <3>4
  <2> QED BY <1>6, <2>2 DEF Whole
<1>8. ASSUME NEW k \in Identity, activations'[k] # None
      PROVE  versions'[k] = activations'[k].run
  <2>1. CASE activations[k] # None
    <3>1. versions[k] = activations[k].run /\ activations[k].run \in Run
      BY <1>1, <2>1 DEF TablesOK, Activation
    <3> QED BY <1>2, <2>1, <3>1, TablesOnlyGrow
  <2>2. CASE activations[k] = None
    <3>1. RenameDraft(r) /\ file[r] = "activation" /\ k = key[r] /\ activations'[k].run = r /\ versions' = versions
      BY <1>1, <1>8, <2>2, TablesMove
    <3>2. versions[key[r]] = r
      BY <1>1, <3>1 DEF TablesOK, PromotionOK, RenameDraft
    <3> QED BY <3>1, <3>2
  <2> QED BY <2>1, <2>2
<1>9. ASSUME NEW q \in Run, backup'[q] # None
      PROVE  Whole(backup[q])'
  <2>1. backup'[q] \in {backup[q], pointer}
    BY <1>1, <1>9, TablesMove
  <2>2. backup'[q] \in Reference /\ Whole(backup'[q])
    BY <1>1, <1>9, <2>1 DEF TablesOK
  <2> QED BY <1>6, <2>2 DEF Whole
<1>10. ASSUME NEW q \in Run
       PROVE  PromotionOK(q)'
  <2>1. Own(q)' = Own(q)
    BY <1>1 DEF Own
  <2>2. PromotionOK(q)
    BY <1>1 DEF TablesOK
  <2>3. Whole(Own(q)) => Whole(Own(q))'
    <3>1. ASSUME Whole(Own(q))
          PROVE  versions'[key[q]] = q /\ activations'[key[q]] # None /\ activations'[key[q]].run = q
      BY <1>3, <3>1, WholeKept
    <3> QED BY <1>1, <1>3, <2>1, <3>1 DEF Whole
  <2>4. CASE q # r
    <3>1. at'[q] = at[q] /\ file'[q] = file[q]
      BY <2>4, OthersKept
    <3>2. ASSUME versions[key[q]] = q, activations[key[q]] = None
          PROVE  versions'[key[q]] = q /\ activations'[key[q]] = None
      <4>1. versions'[key[q]] = q
        BY <1>1, <1>2, <3>2, TablesOnlyGrow
      <4>2. RenameDraft(r) /\ file[r] = "activation" => versions[key[r]] = r
        BY <1>1 DEF RenameDraft, TablesOK, PromotionOK
      <4>3. activations'[key[q]] = None
        BY <1>1, <2>4, <3>2, <4>2, TablesMove
      <4> QED BY <4>1, <4>3
    <3> QED BY <1>1, <2>2, <2>3, <3>1, <3>2 DEF PromotionOK
  <2>5. CASE q = r
    <3>1. CASE Promote(r)
      <4>1. /\ at'[r] \in {"draft", "receipt"}
            /\ at'[r] = "draft" => /\ file'[r] = "activation"
                                   /\ versions[key[r]] = None
                                   /\ versions'[key[r]] = r
                                   /\ activations' = activations
        BY <1>1, <3>1 DEF Promote, Goto, Throw, Order
      <4>2. versions[key[r]] = None => activations[key[r]] = None
        BY <1>1, <1>2 DEF TablesOK, Activation
      <4> QED BY <1>1, <2>5, <4>1, <4>2 DEF PromotionOK, Swapping
    <3>2. CASE WriteDraft(r)
      <4>1. at[r] = "draft" /\ at'[r] = "rename" /\ file' = file /\ versions' = versions /\ activations' = activations
        BY <1>1, <3>2 DEF WriteDraft, Goto
      <4> QED BY <1>1, <2>2, <2>3, <2>5, <4>1 DEF PromotionOK, Swapping
    <3>3. CASE RenameDraft(r)
      <4>1. at[r] = "rename" /\ Written(r)
        BY <3>3 DEF RenameDraft
      <4>2. CASE /\ file[r] = "activation"
                 /\ file' = [file EXCEPT ![r] = "pointer"]
                 /\ at' = [at EXCEPT ![r] = "draft"]
        <5>1. at'[r] = "draft" /\ file'[r] = "pointer"
          BY <1>1, <4>2
        <5>2. versions[key[r]] = r
          BY <2>2, <2>5, <4>1, <4>2 DEF PromotionOK
        <5>3. activations'[key[r]] = [run |-> r, previous |-> head[r]] /\ versions' = versions
          BY <1>1, <3>3, <4>2 DEF RenameDraft, SetFile, NewContent
        <5>4. activations'[key[r]] # None /\ activations'[key[r]].run = r
          BY <1>5, <5>3
        <5>5. Whole(Own(r))'
          BY <1>3, <2>1, <2>5, <5>2, <5>3, <5>4 DEF Whole
        <5> QED BY <2>5, <5>1, <5>5 DEF PromotionOK, Swapping
      <4>3. CASE at' = [at EXCEPT ![r] = "release"]
        BY <1>1, <2>5, <4>3 DEF PromotionOK, Swapping
      <4> QED BY <4>1, <4>2, <4>3, WrittenRuns DEF Promoting
    <3>4. CASE RenameFails(r)
      <4>1. /\ at[r] = "rename"
            /\ at'[r] \in {"dropDraft", "setAside"}
            /\ at'[r] = "setAside" => Content(r) # None
            /\ file' = file
        BY <1>1, <3>4 DEF RenameFails, Goto
      <4>2. at'[r] = "setAside" => file[r] = "pointer"
        BY <1>1, <2>2, <2>5, <4>1 DEF Content, PromotionOK
      <4> QED BY <2>2, <2>3, <2>5, <4>1, <4>2 DEF PromotionOK, Swapping
    <3>5. CASE Discard(r)
      <4>1. at[r] = "discard" /\ file[r] = "pointer"
        BY <2>2, <2>5, <3>5 DEF Discard, PromotionOK, Swapping
      <4>2. at'[r] = "release" \/ (at'[r] = "withdraw" /\ file' = file)
        <5>1. CASE Written(r)
          <6>1. at' = [at EXCEPT ![r] = "release"]
            BY <4>1, <5>1, WrittenRuns DEF Promoting, Swapping
          <6> QED BY <1>1, <6>1
        <5>2. CASE Goto(r, "withdraw") /\ file' = file
          BY <1>1, <5>2 DEF Goto
        <5> QED BY <3>5, <5>1, <5>2 DEF Discard
      <4> QED BY <2>2, <2>3, <2>5, <4>1, <4>2 DEF PromotionOK, Swapping
    <3>6. CASE SetAside(r) \/ Replace(r) \/ BringBack(r) \/ Withdraw(r)
      <4>1. /\ at[r] \in {"setAside"} \cup Swapping
            /\ at'[r] \in {"dropDraft"} \cup Swapping
            /\ file' = file
        BY <1>1, <3>6 DEF SetAside, Replace, BringBack, Withdraw, Goto, Swapping
      <4> QED BY <2>2, <2>3, <2>5, <4>1 DEF PromotionOK, Swapping
    <3>7. CASE at'[r] \notin {"draft", "rename", "setAside"} \cup Swapping
      BY <2>5, <3>7 DEF PromotionOK
    <3> QED BY <3>1, <3>2, <3>3, <3>4, <3>5, <3>6, <3>7, PlacesFollow
  <2> QED BY <2>4, <2>5
<1> QED BY <1>7, <1>8, <1>9, <1>10 DEF TablesOK

(* Every step keeps the invariant. *)
LEMMA StepKeeps ==
  ASSUME IInv, [Next]_vars
  PROVE  IInv'
<1>1. ASSUME NEW r \in Run, Moves(r)
      PROVE  IInv'
  <2>1. TypeOK'
    <3>1. \A q \in Run : held'[q] \in {<<>>, <<TargetLock>>, <<SnapshotLock(key'[q]), TargetLock>>}
      BY <1>1, LockTypes, RunTypes
    <3>2. \A q \in Run : run'[q] # None => run'[q].id = q /\ run'[q].key = key'[q]
      BY <1>1, RunTypes
    <3>3. /\ at' \in [Run -> Place]
          /\ failure' \in [Run -> Code \cup {None}]
      BY <1>1, PlaceTypes
    <3>4. key' \in [Run -> Identity] /\ run' \in [Run -> RunRecord \cup {None}]
      BY <1>1, RunTypes DEF IInv, TypeOK
    <3>5. /\ locks' \in [LockName -> Run \cup {None}]
          /\ held' \in [Run -> Seq(LockName)]
      BY <1>1, LockTypes
    <3>6. /\ versions' \in [Identity -> Run \cup {None}]
          /\ activations' \in [Identity -> Activation \cup {None}]
          /\ pointer' \in Reference \cup {None}
          /\ backup' \in [Run -> Reference \cup {None}]
      BY <1>1, TableTypes
    <3>7. /\ pending' \in [Run -> {"none", "unowned", "owned"}]
          /\ drafts' \subseteq {"activation", "pointer"} \X Run
          /\ receipts' \in [Run -> {None, "duplicate", "failed", "blocked"}]
          /\ head' \in [Run -> Reference \cup {None}]
          /\ file' \in [Run -> {"activation", "pointer"}]
          /\ workspace' \subseteq Run
          /\ unclean' \in [Run -> SUBSET {"workspace", "pending", "lock"}]
          /\ answer' \in [Run -> {None, "promoted", "duplicate", "failed", "blocked", "unreleased"}]
      BY <1>1, OtherTypes
    <3>8. faults' \in 0 .. MaxFaults /\ crashes' \in 0 .. MaxCrashes /\ clears' \in 0 .. MaxClears
      BY <1>1, BoundTypes
    <3> QED BY <3>1, <3>2, <3>3, <3>4, <3>5, <3>6, <3>7, <3>8 DEF TypeOK, Place
  <2>2. ASSUME NEW q \in Run
        PROVE  RunOK(q)' /\ HeldOK(q)'
    <3>1. HeldOK(q)'
      <4>1. key' = key
        BY <1>1, RunTypes
      <4> QED BY <1>1, <4>1, HeldKept DEF HeldOK, HeldBy
    <3> QED BY <1>1, <3>1, RunKept
  <2>3. TablesOK'
    BY <1>1, TablesKept
  <2> QED BY <2>1, <2>2, <2>3 DEF IInv
<1>2. CASE UNCHANGED vars
  <2> USE DEF vars, directory, process, bounds
  <2>1. TypeOK'
    BY <1>2 DEF IInv, TypeOK
  <2>2. ASSUME NEW q \in Run
        PROVE  RunOK(q)' /\ HeldOK(q)'
    <3>1. RunOK(q) /\ HeldOK(q)
      BY DEF IInv
    <3>2. HeldOK(q)'
      BY <1>2, <3>1 DEF HeldOK, HeldBy
    <3>3. RunOK(q)'
      BY <1>2, <3>1 DEF RunOK, InProgress, InState, UnrecordedDuplicate, Told, Disposition
    <3> QED BY <3>2, <3>3
  <2>3. TablesOK'
    BY <1>2 DEF IInv, TablesOK, PromotionOK, Whole, Own
  <2> QED BY <2>1, <2>2, <2>3 DEF IInv
<1> QED BY <1>1, <1>2 DEF Next, Moves

(* The invariant holds at first. *)
LEMMA InitKeeps ==
  ASSUME Init
  PROVE  IInv
<1>1. TypeOK
  BY BoundsAssumption DEF Init, TypeOK, Opening, Order
<1>2. ASSUME NEW q \in Run
      PROVE  RunOK(q) /\ HeldOK(q)
  <2>1. None # "STATE_INVALID"
    BY NullAssumption DEF Code
  <2>2. RunOK(q)
    BY <2>1 DEF Init, RunOK, Building, Promoting, Swapping
  <2>3. HeldBy(q) = {}
    BY HeldLocks DEF Init
  <2> QED BY <2>2, <2>3 DEF Init, HeldOK, Inside, Building, Promoting, Swapping
<1>3. TablesOK
  BY DEF Init, TablesOK, PromotionOK, Swapping
<1> QED BY <1>1, <1>2, <1>3 DEF IInv

(* The invariant of any number of processes replaying into one directory.  *)
THEOREM Invariance == Spec => []IInv
<1>1. Init => IInv
  BY InitKeeps
<1>2. IInv /\ [Next]_vars => IInv'
  BY StepKeeps
<1> QED BY <1>1, <1>2, PTL DEF Spec

(* Every variable keeps its type. *)
THEOREM Types == Spec => []TypeOK
<1>1. IInv => TypeOK
  BY DEF IInv
<1> QED BY <1>1, Invariance, PTL

(* At every instant, after any failed call and any kill, the               *)
(* last-known-good names a bundle that is wholly there and its activation. *)
THEOREM PointerNames == Spec => []PointerNamesWholeVersion
<1>1. IInv => PointerNamesWholeVersion
  BY DEF IInv, TablesOK, Whole, PointerNamesWholeVersion
<1> QED BY <1>1, Invariance, PTL

(* The foundation never refuses a step of the runner, and the state a run  *)
(* ends in is the one its caller is told.                                  *)
THEOREM AnswerMatches == Spec => []AnswerMatchesRun
<1>1. ASSUME IInv
      PROVE  AnswerMatchesRun
  <2> SUFFICES ASSUME NEW r \in Run
               PROVE  /\ failure[r] = "STATE_INVALID" => faults > 0
                      /\ at[r] = "over" =>
                           /\ answer[r] = "promoted" => run[r].state = "PUBLISHED"
                           /\ answer[r] = "duplicate" => run[r].state = "DUPLICATE"
                           /\ answer[r] = "unreleased" => run[r].state \in {"PUBLISHED", "DUPLICATE"}
                           /\ answer[r] = "blocked" => run[r] = None \/ run[r].state = "BLOCKED"
                           /\ answer[r] = "failed" =>
                                run[r] = None \/ run[r].state = "FAILED" \/ failure[r] = "RECEIPT_FAILED"
    BY DEF AnswerMatchesRun
  <2>1. RunOK(r)
    BY <1>1 DEF IInv
  <2>2. "RECEIPT_FAILED" \notin BlockedCode
    BY DEF BlockedCode
  <2>3. CASE at[r] = "over" /\ failure[r] = None
    <3>1. answer[r] = IF "lock" \in unclean[r] THEN "unreleased"
                      ELSE IF run[r].state = "DUPLICATE" THEN "duplicate" ELSE "promoted"
      BY <2>1, <2>3 DEF RunOK, Told
    <3>2. run[r].state \in {"PUBLISHED", "DUPLICATE"}
      BY <2>1, <2>3 DEF RunOK
    <3> QED BY <2>1, <2>3, <3>1, <3>2 DEF RunOK
  <2>4. CASE at[r] = "over" /\ failure[r] # None
    <3>1. answer[r] = IF failure[r] \in BlockedCode THEN "blocked" ELSE "failed"
      BY <2>1, <2>4 DEF RunOK, Told, Disposition
    <3>2. \/ run[r] = None
          \/ run[r].state = (IF failure[r] \in BlockedCode THEN "BLOCKED" ELSE "FAILED")
          \/ failure[r] = "RECEIPT_FAILED"
      BY <2>1, <2>4 DEF RunOK, UnrecordedDuplicate
    <3> QED BY <2>1, <2>2, <3>1, <3>2 DEF RunOK
  <2>5. CASE at[r] # "over"
    BY <2>1, <2>5 DEF RunOK
  <2> QED BY <2>3, <2>4, <2>5
<1> QED BY <1>1, Invariance, PTL

-----------------------------------------------------------------------------
(* The last-known-good. *)

(* What a run was planned on stays until it publishes. *)
LEMMA SeenKept ==
  ASSUME IInv, NEW r \in Run, Moves(r), NEW q \in Run
  PROVE  /\ run[q] = None => run'[q] = None \/ (q = r /\ PlanRun(r))
         /\ run[q] # None =>
              /\ run'[q] # None
              /\ \/ run'[q].state = "PUBLISHED"
                 \/ run'[q].lastKnownGood = run[q].lastKnownGood
              /\ run[q].state = "PUBLISHED" => run'[q].state = "PUBLISHED"
<1>1. CASE q # r
  BY <1>1, OthersKept
<1>2. CASE q = r
  <2>1. run \in [Run -> RunRecord \cup {None}]
    BY DEF IInv, TypeOK
  <2>2. ASSUME at[r] \in {"ledger", "decide"} \cup Building \cup Promoting
        PROVE  run[r] # None /\ run[r].state # "PUBLISHED"
    <3>1. run[r] # None /\ InState(r, StateAt(at[r]))
      BY <2>2 DEF IInv, RunOK
    <3>2. run[r].state = StateAt(at[r])
      BY <3>1 DEF InState, RunIn
    <3>3. StateAt(at[r]) # "PUBLISHED"
      BY DEF StateAt
    <3> QED BY <3>1, <3>2, <3>3
  <2>3. ASSUME NEW place, NEW state, Entered(r, place, state),
               at[r] \in {"ledger", "decide"} \cup Building \cup Promoting
        PROVE  run[r] # None /\ run'[r] # None /\ run'[r].lastKnownGood = run[r].lastKnownGood
               /\ run[r].state # "PUBLISHED"
    BY <2>1, <2>2, <2>3, GoingIs DEF Entered
  <2>4. CASE run' = run
    BY <1>2, <2>4
  <2>5. CASE PlanRun(r)
    <3>1. run[r] = None
      BY <2>5 DEF PlanRun, IInv, RunOK
    <3> QED BY <1>2, <2>5, <3>1
  <2>6. CASE CheckLedger(r)
    <3>1. at[r] = "ledger"
      BY <2>6 DEF CheckLedger
    <3>2. Entered(r, "decide", "LOCKED") \/ run' = run
      BY <2>6, AdvanceRuns DEF Thrown
    <3> QED BY <1>2, <2>3, <2>4, <3>1, <3>2
  <2>7. CASE StartExtract(r) \/ Extract(r) \/ Profile(r) \/ Validate(r) \/ Prepare(r)
    <3>1. at[r] \in {"ledger", "decide"} \cup Building \cup Promoting
      BY <2>7 DEF StartExtract, Extract, Profile, Validate, Prepare, Building
    <3>2. \E place, state : Entered(r, place, state)
      BY <2>7, AdvanceRuns
    <3> QED BY <1>2, <2>3, <3>1, <3>2
  <2>8. CASE PrepareFails(r)
    <3>1. at[r] \in {"ledger", "decide"} \cup Building \cup Promoting
      BY <2>8 DEF PrepareFails, Building
    <3>2. run' = [run EXCEPT ![r] = Going(r, "PUBLISHING")] /\ Going(r, "PUBLISHING") # None
      BY <2>8, AdvanceRuns
    <3> QED BY <1>2, <2>1, <2>2, <3>1, <3>2, GoingIs
  <2>9. CASE MarkDuplicate(r)
    <3>1. at[r] = "decide"
      BY <2>9 DEF MarkDuplicate
    <3>2. CASE ~(run' = run)
      <4>1. PICK next \in RunRecord :
              /\ next # None
              /\ next.lastKnownGood = run[r].lastKnownGood
              /\ run' = [run EXCEPT ![r] = next]
        BY <2>9, <3>2, DuplicateRuns DEF Thrown
      <4> QED BY <1>2, <2>1, <2>2, <3>1, <4>1
    <3> QED BY <2>4, <3>2
  <2>10. CASE RenameDraft(r) \/ Discard(r)
    <3>1. at[r] \in Promoting
      BY <2>10 DEF RenameDraft, Discard, Promoting, Swapping
    <3>2. \/ run' = run
          \/ /\ run' = [run EXCEPT ![r] = PublishedRun(r, key[r])]
             /\ PublishedRun(r, key[r]) # None
      BY <2>10, <3>1, WrittenRuns DEF RenameDraft, Discard
    <3>3. PublishedRun(r, key[r]).state = "PUBLISHED"
      BY DEF PublishedRun
    <3> QED BY <1>2, <2>1, <2>2, <3>1, <3>2, <3>3
  <2>11. CASE RecordFailure(r)
    <3>1. at[r] = "receipt" /\ run' = [run EXCEPT ![r] = Failed(run[r], failure[r])]
      BY <2>11 DEF RecordFailure
    <3>2. run'[r] = Failed(run[r], failure[r])
      BY <2>1, <3>1
    <3>3. run[r] # None => run[r].state # "PUBLISHED"
      <4>1. run[r] = None \/ InProgress(r) \/ UnrecordedDuplicate(r)
        BY <3>1 DEF IInv, RunOK
      <4>2. InProgress(r) => run[r].state # "PUBLISHED"
        <5>1. ASSUME NEW state \in DOMAIN StageOf, InState(r, state)
              PROVE  run[r].state = state
          BY <5>1 DEF InState, RunIn
        <5>2. "PUBLISHED" \notin DOMAIN StageOf
          BY DEF StageOf
        <5> QED BY <5>1, <5>2 DEF InProgress
      <4> QED BY <4>1, <4>2 DEF UnrecordedDuplicate
    <3> QED BY <1>2, <3>1, <3>2, <3>3, FailureRuns
  <2> QED BY <2>4, <2>5, <2>6, <2>7, <2>8, <2>9, <2>10, <2>11
       DEF Moves, Begin, Step, Kill, ClearLocks, process, TakeLock, TakeLockFails, UndoLock, ReadFails,
           BuildFails, Sweep, Promote, PromoteFails, WriteDraft, RenameFails, SetAside, Replace, BringBack,
           Withdraw, DropDraft, CleanWorkspace, CleanPending, Release, Report
<1> QED BY <1>1, <1>2

(* The lock file of the state directory belongs to the one process inside. *)
LEMMA TargetLockHeld ==
  ASSUME IInv, NEW r \in Run, at[r] \in Inside
  PROVE  locks[TargetLock] = r /\ locks[SnapshotLock(key[r])] = r
<1>1. HeldOK(r) /\ at[r] \notin Over
  BY DEF IInv, Inside, Building, Promoting, Swapping, Over
<1>2. HeldBy(r) = {SnapshotLock(key[r]), TargetLock}
  BY <1>1, HeldLocks DEF HeldOK
<1> QED BY <1>1, <1>2 DEF HeldOK

(* Only the process inside the lock of the state directory writes there,   *)
(* and no step makes its lock another's.                                   *)
LEMMA OneInside ==
  ASSUME IInv, NEW r \in Run, Moves(r), NEW q \in Run, q # r
  PROVE  /\ locks'[TargetLock] = q => locks[TargetLock] = q
         /\ locks[TargetLock] = q => UNCHANGED <<versions, activations, pointer, backup>>
<1>1. /\ locks \in [LockName -> Run \cup {None}]
      /\ TargetLock \in LockName
      /\ key[r] \in Identity
      /\ held[r] \in {<<>>, <<TargetLock>>, <<SnapshotLock(key[r]), TargetLock>>}
  BY DEF IInv, TypeOK, LockName
<1>2. None \notin Run
  BY NoneAssumption
<1>3. locks'[TargetLock] = q => locks[TargetLock] = q
  <2>0. SnapshotLock(key[r]) \in LockName /\ NextLock(r) \in LockName
    BY <1>1 DEF LockName, NextLock
  <2>1. CASE TakeLock(r) \/ TakeLockFails(r)
    BY <1>1, <2>0, <2>1 DEF TakeLock, TakeLockFails
  <2>2. CASE UndoLock(r) \/ ClearLocks(r)
    BY <1>1, <1>2, <2>2 DEF UndoLock, ClearLocks
  <2>3. CASE Release(r)
    <3>1. Head(held[r]) \in LockName
      BY <1>1, <2>0, <2>3, LockOrder DEF Release
    <3> QED BY <1>1, <1>2, <2>3, <3>1 DEF Release
  <2>4. CASE locks' = locks
    BY <2>4
  <2> QED BY <2>1, <2>2, <2>3, <2>4
      DEF Moves, Begin, Step, Kill, PlanRun, directory,
          CheckLedger, ReadFails, StartExtract, MarkDuplicate, Extract, Profile, Validate, BuildFails,
          Prepare, PrepareFails, Sweep, Promote, PromoteFails, WriteDraft, RenameDraft, RenameFails,
          SetAside, Replace, BringBack, Discard, Withdraw, DropDraft, RecordFailure, CleanWorkspace,
          CleanPending, Report
<1>4. ASSUME locks[TargetLock] = q
      PROVE  UNCHANGED <<versions, activations, pointer, backup>>
  <2>1. at[r] \notin Promoting
    BY <1>4, TargetLockHeld DEF Inside
  <2> QED BY <2>1, TablesMove
       DEF Promote, RenameDraft, Replace, SetAside, BringBack, Discard, Withdraw, Promoting, Swapping
<1> QED BY <1>3, <1>4

(* Whatever a step does to the pointer while its replacement is tried, what *)
(* was published is where PointerKept says, unless three calls failed.     *)
LEMMA PointerStep ==
  ASSUME IInv, \A q \in Run : PointerKept(q), NEW r \in Run, Moves(r), NEW q \in Run
  PROVE  PointerKept(q)'
<1>1. /\ at \in [Run -> Place]
      /\ run \in [Run -> RunRecord \cup {None}]
      /\ key' = key
      /\ file[r] \in {"activation", "pointer"}
      /\ pointer \in Reference \cup {None}
      /\ backup \in [Run -> Reference \cup {None}]
      /\ locks \in [LockName -> Run \cup {None}]
      /\ faults \in Nat
      /\ faults' \in Nat
      /\ faults' >= faults
  BY BoundsAssumption, BoundTypes, RunTypes DEF IInv, TypeOK, Place
<1>2. ASSUME NEW p \in Run, run[p] # None, run'[p] # None, run'[p].lastKnownGood = run[p].lastKnownGood
      PROVE  Seen(p)' = Seen(p)
  BY <1>2 DEF Seen
<1>3. Own(q)' = Own(q)
  BY <1>1 DEF Own
<1> SUFFICES ASSUME run'[q] # None, run'[q].state # "PUBLISHED", locks'[TargetLock] = q
             PROVE  PointerKept(q)'
  BY DEF PointerKept
<1>4. CASE q # r
  <2>1. /\ at'[q] = at[q]
        /\ run'[q] = run[q]
        /\ backup'[q] = backup[q]
        /\ locks[TargetLock] = q
        /\ pointer' = pointer
    BY <1>4, OthersKept, OneInside
  <2>2. Seen(q)' = Seen(q)
    BY <1>2, <2>1
  <2>3. \A n \in {1, 2, 3} : faults >= n => faults' >= n
    BY <1>1
  <2>4. PointerKept(q)
    OBVIOUS
  <2> QED BY <1>3, <2>1, <2>2, <2>3, <2>4 DEF PointerKept
<1>5. CASE q = r /\ PlanRun(r)
  <2>1. /\ at'[r] = "ledger"
        /\ run'[r] = RunIn(r, key[r], PublicationAt(pointer), "PLANNED")
        /\ pointer # None => PublicationAt(pointer) # None
    <3>1. run[r] = None
      BY <1>5 DEF PlanRun, IInv, RunOK
    <3> QED BY <1>1, <1>5, <3>1, PlanRuns DEF Thrown
  <2>2. run'[r].lastKnownGood = PublicationAt(pointer)
    BY <2>1 DEF RunIn
  <2>3. Seen(r)' = pointer
    <3>1. CASE pointer = None
      BY <2>2, <3>1 DEF Seen, PublicationAt
    <3>2. CASE pointer # None
      <4>1. Seen(r)' = Ref(PublicationAt(pointer).key, PublicationAt(pointer).run)
        BY <2>1, <2>2, <3>2 DEF Seen
      <4>2. PublicationAt(pointer).key = pointer.key /\ PublicationAt(pointer).run = pointer.run
        BY <3>2 DEF PublicationAt
      <4> QED BY <1>1, <3>2, <4>1, <4>2 DEF Ref, Reference
    <3> QED BY <3>1, <3>2
  <2>4. pointer' = pointer
    BY <1>5 DEF PlanRun, directory
  <2> QED BY <1>5, <2>1, <2>3, <2>4 DEF PointerKept, Building, Closing
<1>6. CASE q = r /\ ~PlanRun(r)
  <2>1. /\ run[r] # None
        /\ run'[r].lastKnownGood = run[r].lastKnownGood
        /\ run[r].state # "PUBLISHED"
    BY <1>6, SeenKept
  <2>2. Seen(r)' = Seen(r) /\ Own(r)' = Own(r)
    BY <1>2, <1>3, <1>6, <2>1
  <2>3. at[r] \notin {"begin", "target", "snapshot", "undo", "plan"}
    BY <2>1 DEF IInv, RunOK
  <2>4. locks[TargetLock] = r
    <3>1. CASE Release(r)
      <4>1. locks' = locks \/ locks' = [locks EXCEPT ![Head(held[r])] = None]
        BY <3>1 DEF Release
      <4>2. Head(held[r]) \in LockName /\ TargetLock \in LockName
        <5>1. /\ held[r] \in {<<>>, <<TargetLock>>, <<SnapshotLock(key[r]), TargetLock>>}
              /\ key[r] \in Identity
              /\ held[r] # <<>>
          BY <3>1 DEF IInv, TypeOK, Release
        <5> QED BY <5>1, LockOrder DEF LockName
      <4> QED BY <1>1, <1>6, <4>1, <4>2, NoneAssumption
    <3>2. CASE ClearLocks(r)
      BY <1>1, <1>6, <3>2, NoneAssumption DEF ClearLocks, LockName
    <3>3. ~TakeLock(r) /\ ~TakeLockFails(r) /\ ~UndoLock(r)
      BY <2>3 DEF TakeLock, TakeLockFails, UndoLock
    <3>4. CASE locks' = locks
      BY <1>6, <3>4
    <3> QED BY <1>6, <3>1, <3>2, <3>3, <3>4
        DEF Moves, Begin, Step, Kill, PlanRun, directory,
            CheckLedger, ReadFails, StartExtract, MarkDuplicate, Extract, Profile, Validate, BuildFails,
            Prepare, PrepareFails, Sweep, Promote, PromoteFails, WriteDraft, RenameDraft, RenameFails,
            SetAside, Replace, BringBack, Discard, Withdraw, DropDraft, RecordFailure, CleanWorkspace,
            CleanPending, Report
  <2> DEFINE Quiet == {"ledger", "decide", "promote", "draft", "rename", "setAside"} \cup Building
             Closed == {"dropDraft"} \cup Closing
  <2>5. /\ at[r] \in Quiet => pointer = Seen(r)
        /\ at[r] = "setAside" => pointer # None
        /\ at[r] \in {"replace", "bringBack", "reinstate"} =>
             pointer = None /\ backup[r] = Seen(r) /\ Seen(r) # None
        /\ at[r] \in {"discard", "withdraw"} =>
             pointer = Own(r) /\ backup[r] = Seen(r) /\ Seen(r) # None
        /\ at[r] \in {"setAside", "replace", "discard"} => faults >= 1
        /\ at[r] \in {"bringBack", "withdraw", "reinstate"} => faults >= 2
        /\ at[r] \in Closed => pointer = Seen(r) \/ faults >= 3
    BY <2>1, <2>4 DEF PointerKept
  <2>6. Fault => faults' = faults + 1
    BY DEF Fault
  <2>7. ASSUME pointer' = pointer, at[r] \in Quiet \cup Closed,
               at'[r] \in (Quiet \ {"setAside"}) \cup Closed \cup Over, at'[r] \in Quiet => at[r] \in Quiet
        PROVE  PointerKept(q)'
    <3>1. faults >= 3 => faults' >= 3
      BY <1>1
    <3> QED BY <1>6, <2>2, <2>5, <2>7, <3>1 DEF PointerKept, Building, Closing, Over
  <2>8. ASSUME NEW place, Goto(r, place)
        PROVE  at'[r] = place
    BY <1>1, <2>8 DEF Goto
  <2>9. ASSUME NEW code, Throw(r, code)
        PROVE  at'[r] = "receipt"
    BY <2>8, <2>9 DEF Throw
  <2>10. ASSUME NEW next, NEW place, Advance(r, next, place)
         PROVE  at'[r] \in {"receipt", place}
    BY <2>8, <2>9, <2>10 DEF Advance
  <2>11. CASE CheckLedger(r) \/ ReadFails(r) \/ StartExtract(r) \/ MarkDuplicate(r)
    BY <2>3, <2>7, <2>8, <2>9, <2>10, <2>11
       DEF CheckLedger, ReadFails, StartExtract, MarkDuplicate, directory, Building, Closing
  <2>12. CASE Extract(r) \/ Profile(r) \/ Validate(r) \/ BuildFails(r)
    BY <2>3, <2>7, <2>8, <2>9, <2>10, <2>12
       DEF Extract, Profile, Validate, BuildFails, directory, Building, Closing
  <2>13. CASE Prepare(r) \/ PrepareFails(r) \/ Sweep(r) \/ Promote(r) \/ PromoteFails(r)
    BY <2>3, <2>7, <2>8, <2>9, <2>10, <2>13
       DEF Prepare, PrepareFails, Sweep, Promote, PromoteFails, directory, Building, Closing
  <2>14. CASE WriteDraft(r) \/ DropDraft(r)
    BY <2>7, <2>8, <2>9, <2>14 DEF WriteDraft, DropDraft, Building, Closing
  <2>15. CASE RecordFailure(r) \/ CleanWorkspace(r) \/ CleanPending(r) \/ Release(r) \/ Report(r)
    BY <1>1, <2>7, <2>8, <2>15
       DEF RecordFailure, CleanWorkspace, CleanPending, Release, Report, directory, Building, Closing, Over
  <2>16. CASE Kill(r) \/ ClearLocks(r)
    <3>1. at'[r] \in Over
      BY <1>1, <2>8, <2>16 DEF Kill, ClearLocks, process, Over
    <3> QED BY <1>6, <3>1 DEF PointerKept, Building, Closing, Over
  <2>17. CASE RenameDraft(r)
    <3>1. at[r] = "rename" /\ Written(r) /\ SetFile(r, NewContent(r))
      BY <2>17 DEF RenameDraft
    <3>2. CASE file[r] = "activation" /\ at' = [at EXCEPT ![r] = "draft"]
      <4>1. at'[r] = "draft" /\ pointer' = pointer
        BY <1>1, <3>1, <3>2 DEF SetFile
      <4> QED BY <2>7, <3>1, <4>1 DEF Building
    <3>3. ~(run' = [run EXCEPT ![r] = PublishedRun(r, key[r])])
      BY <1>1, <1>6 DEF PublishedRun
    <3> QED BY <3>1, <3>2, <3>3, WrittenRuns DEF Promoting
  <2>18. CASE RenameFails(r)
    <3>1. /\ at[r] = "rename"
          /\ Fault
          /\ pointer' = pointer
          /\ backup' = backup
          /\ at'[r] = IF Content(r) = None THEN "dropDraft" ELSE "setAside"
      BY <2>8, <2>18 DEF RenameFails, directory
    <3>2. at'[r] = "setAside" => pointer # None
      <4>1. file[r] = "activation" => activations[key[r]] = None
        BY <3>1 DEF IInv, TablesOK, PromotionOK
      <4> QED BY <1>1, <3>1, <4>1 DEF Content
    <3>3. faults' >= 1
      BY <1>1, <2>6, <3>1
    <3> QED BY <1>6, <2>2, <2>5, <3>1, <3>2, <3>3 DEF PointerKept, Building, Closing
  <2>19. CASE SetAside(r)
    <3>1. at[r] = "setAside"
      BY <2>19 DEF SetAside
    <3>2. \/ at'[r] = "replace" /\ pointer' = None /\ backup'[r] = pointer
          \/ at'[r] = "dropDraft" /\ pointer' = pointer
      <4>1. file[r] = "pointer"
        BY <3>1 DEF IInv, TablesOK, PromotionOK
      <4> QED BY <1>1, <2>8, <2>19, <4>1 DEF SetAside, SetFile, Content
    <3>3. faults' >= 1
      BY <1>1, <2>5, <3>1
    <3> QED BY <1>6, <2>2, <2>5, <3>1, <3>2, <3>3 DEF PointerKept, Building, Closing
  <2>20. CASE Replace(r)
    <3>1. at[r] = "replace" /\ backup' = backup
      BY <2>20 DEF Replace
    <3>2. \/ at'[r] = "discard" /\ pointer' = Own(r)
          \/ at'[r] = "bringBack" /\ pointer' = pointer /\ Fault
      <4>1. file[r] = "pointer"
        BY <3>1 DEF IInv, TablesOK, PromotionOK, Swapping
      <4> QED BY <1>1, <2>8, <2>20, <4>1 DEF Replace, SetFile, NewContent
    <3>3. faults' >= 1 /\ (Fault => faults' >= 2)
      BY <1>1, <2>5, <2>6, <3>1
    <3> QED BY <1>6, <2>2, <2>5, <3>1, <3>2, <3>3 DEF PointerKept, Building, Closing
  <2>21. CASE BringBack(r)
    <3>1. at[r] \in {"bringBack", "reinstate"} /\ at'[r] = "dropDraft"
      BY <2>8, <2>21 DEF BringBack
    <3>2. pointer' = backup[r] \/ Fault
      <4>1. file[r] = "pointer"
        BY <3>1 DEF IInv, TablesOK, PromotionOK, Swapping
      <4> QED BY <2>21, <4>1 DEF BringBack, SetFile
    <3>3. Fault => faults' >= 3
      BY <1>1, <2>5, <2>6, <3>1
    <3> QED BY <1>6, <2>2, <2>5, <3>1, <3>2, <3>3 DEF PointerKept, Building, Closing
  <2>22. CASE Discard(r)
    <3>1. at[r] = "discard" /\ pointer' = pointer
      BY <2>22 DEF Discard
    <3>2. CASE Fault /\ at'[r] = "withdraw" /\ backup' = backup
      <4>1. faults' >= 2
        BY <1>1, <2>5, <2>6, <3>1, <3>2
      <4> QED BY <1>6, <2>2, <2>5, <3>1, <3>2, <4>1 DEF PointerKept, Building, Closing
    <3>3. ~(run' = [run EXCEPT ![r] = PublishedRun(r, key[r])])
      BY <1>1, <1>6 DEF PublishedRun
    <3>4. file[r] = "pointer"
      BY <3>1 DEF IInv, TablesOK, PromotionOK, Swapping
    <3>5. ~Written(r)
      BY <3>1, <3>3, <3>4, WrittenRuns DEF Promoting, Swapping
    <3> QED BY <2>8, <2>22, <3>2, <3>5 DEF Discard
  <2>23. CASE Withdraw(r)
    <3>1. at[r] = "withdraw" /\ backup' = backup
      BY <2>23 DEF Withdraw
    <3>2. \/ at'[r] = "reinstate" /\ pointer' = None
          \/ at'[r] = "dropDraft" /\ Fault
      <4>1. file[r] = "pointer"
        BY <3>1 DEF IInv, TablesOK, PromotionOK, Swapping
      <4> QED BY <2>8, <2>23, <4>1 DEF Withdraw, SetFile
    <3>3. faults' >= 2 /\ (Fault => faults' >= 3)
      BY <1>1, <2>5, <2>6, <3>1
    <3> QED BY <1>6, <2>2, <2>5, <3>1, <3>2, <3>3 DEF PointerKept, Building, Closing
  <2>24. ~Begin(r) /\ ~TakeLock(r) /\ ~TakeLockFails(r) /\ ~UndoLock(r)
    BY <2>3 DEF Begin, TakeLock, TakeLockFails, UndoLock
  <2> QED BY <1>6, <2>11, <2>12, <2>13, <2>14, <2>15, <2>16, <2>17, <2>18, <2>19, <2>20, <2>21, <2>22,
             <2>23, <2>24 DEF Moves, Step
<1> QED BY <1>4, <1>5, <1>6

(* What a run looked at when it was let in is what it follows, and its     *)
(* pending directory comes with its bundle.                                *)
LEMMA HeadStep ==
  ASSUME IInv, \A q \in Run : HeadKept(q) /\ PendingKept(q), NEW r \in Run, Moves(r), NEW q \in Run
  PROVE  HeadKept(q)' /\ PendingKept(q)'
<1>1. /\ at \in [Run -> Place]
      /\ head \in [Run -> Reference \cup {None}]
      /\ pending \in [Run -> {"none", "unowned", "owned"}]
      /\ RunOK(q)'
  BY RunKept DEF IInv, TypeOK, Place
<1>2. ASSUME run[q] # None, run'[q] # None, run'[q].lastKnownGood = run[q].lastKnownGood
      PROVE  Seen(q)' = Seen(q)
  BY <1>2 DEF Seen
<1>3. CASE q # r
  <2>1. /\ at'[q] = at[q]
        /\ run'[q] = run[q]
        /\ head'[q] = head[q]
        /\ pending'[q] = pending[q]
    BY <1>3, OthersKept
  <2>2. run[q] # None => Seen(q)' = Seen(q)
    BY <1>2, <2>1
  <2>3. at[q] \in {"decide"} \cup Building \cup Promoting => run[q] # None
    BY DEF IInv, RunOK
  <2> QED BY <2>1, <2>2, <2>3 DEF HeadKept, PendingKept
<1>4. CASE q = r
  <2> DEFINE In == {"decide"} \cup Building \cup Promoting
             Early == Opening \cup {"extract", "profile", "validate", "prepare"}
  <2>1. ASSUME at'[r] \in In
        PROVE  run'[r] # None /\ run'[r].state # "PUBLISHED"
    <3>1. run'[r] # None /\ InState(r, StateAt(at[r]))'
      BY <1>1, <1>4, <2>1 DEF RunOK
    <3>2. run'[r].state = StateAt(at'[r])
      BY <3>1 DEF InState, RunIn
    <3>3. StateAt(at'[r]) # "PUBLISHED"
      BY DEF StateAt
    <3> QED BY <3>1, <3>2, <3>3
  <2>2. HeadKept(r)'
    <3> SUFFICES ASSUME at'[r] \in In PROVE head'[r] = Seen(r)'
      BY DEF HeadKept
    <3>1. CASE CheckLedger(r)
      <4>1. run[r] # None /\ at[r] = "ledger"
        BY <3>1 DEF CheckLedger, IInv, RunOK
      <4>2. Seen(r)' = Seen(r)
        BY <1>2, <1>4, <2>1, <4>1, SeenKept
      <4>3. head'[r] = Seen(r)
        <5>1. CASE Intact(Seen(r))
          BY <1>1, <3>1, <5>1 DEF CheckLedger
        <5>2. CASE ~Intact(Seen(r))
          <6>1. at'[r] = "receipt"
            BY <1>1, <3>1, <5>2 DEF CheckLedger, Throw, Goto
          <6> QED BY <6>1 DEF Building, Promoting, Swapping
        <5> QED BY <5>1, <5>2
      <4> QED BY <4>2, <4>3
    <3>2. CASE ~CheckLedger(r)
      <4>1. head' = head
        BY <3>2 DEF Moves, Begin, Step, Kill, ClearLocks, process, TakeLock, TakeLockFails, UndoLock, PlanRun,
             ReadFails, StartExtract, MarkDuplicate, Extract, Profile, Validate, BuildFails,
             Prepare, PrepareFails, Sweep, Promote, PromoteFails, WriteDraft, RenameDraft, RenameFails,
             SetAside, Replace, BringBack, Discard, Withdraw, DropDraft, RecordFailure, CleanWorkspace,
             CleanPending, Release, Report
      <4>2. at[r] \in In
        BY <3>2, PlacesFollow
      <4>3. run[r] # None
        BY <4>2 DEF IInv, RunOK
      <4>4. Seen(r)' = Seen(r)
        BY <1>2, <1>4, <2>1, <4>3, SeenKept
      <4> QED BY <4>1, <4>2, <4>4 DEF HeadKept
    <3> QED BY <3>1, <3>2
  <2>3. PendingKept(r)'
    <3> SUFFICES ASSUME at'[r] \in Early PROVE pending'[r] = "none"
      BY DEF PendingKept
    <3>1. at[r] \in Early
      BY PlacesFollow
    <3>2. pending[r] = "none"
      BY <3>1 DEF PendingKept
    <3>3. ~Prepare(r) /\ ~PrepareFails(r)
      <4>1. Prepare(r) => at'[r] \in {"sweep", "receipt"}
        BY <1>1 DEF Prepare, Advance, Goto, Throw
      <4>2. PrepareFails(r) => at'[r] = "receipt"
        BY <1>1 DEF PrepareFails, Goto, Throw
      <4> QED BY <4>1, <4>2 DEF Opening
    <3>4. CASE Promote(r) \/ CleanPending(r)
      BY <1>1, <3>1, <3>2, <3>4 DEF Promote, CleanPending
    <3>5. CASE pending' = pending
      BY <3>2, <3>5
    <3> QED BY <3>3, <3>4, <3>5
        DEF Moves, Begin, Step, Kill, ClearLocks, directory, TakeLock, TakeLockFails, UndoLock, PlanRun,
             CheckLedger, ReadFails, StartExtract, MarkDuplicate, Extract, Profile, Validate, BuildFails,
             Sweep, PromoteFails, WriteDraft, RenameDraft, RenameFails,
             SetAside, Replace, BringBack, Discard, Withdraw, DropDraft, RecordFailure, CleanWorkspace,
             Release, Report
  <2> QED BY <1>4, <2>2, <2>3
<1> QED BY <1>3, <1>4

KInv ==
  /\ IsFiniteSet(Recorded)
  /\ \A r \in Run : PointerKept(r) /\ HeadKept(r) /\ PendingKept(r)

(* Activations are added one at a time.                                    *)
LEMMA RecordedStep ==
  ASSUME IInv, NEW r \in Run, Moves(r)
  PROVE  Recorded' = Recorded \/ Recorded' = Recorded \cup {key[r]}
<1>1. activations \in [Identity -> Activation \cup {None}] /\ key[r] \in Identity /\ head[r] \in Reference \cup {None}
  BY DEF IInv, TypeOK
<1>2. [run |-> r, previous |-> head[r]] # None
  <2>1. [run |-> r, previous |-> head[r]] \in Activation
    BY <1>1 DEF Activation
  <2> QED BY <2>1, NullAssumption
<1>3. CASE activations' = activations
  BY <1>3 DEF Recorded
<1>4. CASE activations' = [activations EXCEPT ![key[r]] = [run |-> r, previous |-> head[r]]]
  <2>1. \A k \in Identity : activations'[k] # None <=> activations[k] # None \/ k = key[r]
    BY <1>1, <1>2, <1>4
  <2> QED BY <1>1, <2>1 DEF Recorded
<1> QED BY <1>3, <1>4, TablesMove

(* Every step keeps what became of the last-known-good.                    *)
LEMMA KeptStep ==
  ASSUME IInv, KInv, [Next]_vars
  PROVE  KInv'
<1>1. ASSUME NEW r \in Run, Moves(r)
      PROVE  KInv'
  <2>1. IsFiniteSet(Recorded)'
    <3>1. IsFiniteSet(Recorded \cup {key[r]})
      BY FS_AddElement DEF KInv
    <3> QED BY <1>1, <3>1, RecordedStep DEF KInv
  <2>2. \A q \in Run : PointerKept(q)'
    BY <1>1, PointerStep DEF KInv
  <2>3. \A q \in Run : HeadKept(q)' /\ PendingKept(q)'
    BY <1>1, HeadStep DEF KInv
  <2> QED BY <2>1, <2>2, <2>3 DEF KInv
<1>2. CASE UNCHANGED vars
  <2> USE DEF vars, directory, process, bounds
  <2>1. Recorded' = Recorded
    BY <1>2 DEF Recorded
  <2>2. \A q \in Run : (PointerKept(q) => PointerKept(q)') /\ (HeadKept(q) => HeadKept(q)')
                       /\ (PendingKept(q) => PendingKept(q)')
    BY <1>2 DEF PointerKept, HeadKept, PendingKept, Seen, Own
  <2> QED BY <2>1, <2>2 DEF KInv
<1> QED BY <1>1, <1>2 DEF Next, Moves

(* What became of the last-known-good, at every instant.                   *)
THEOREM KeptInvariance == Spec => [](IInv /\ KInv)
<1>1. Init => IInv
  BY InitKeeps
<1>2. ASSUME Init
      PROVE  KInv
  <2>1. Recorded = {}
    BY <1>2 DEF Init, Recorded
  <2>2. ASSUME NEW r \in Run
        PROVE  PointerKept(r) /\ HeadKept(r) /\ PendingKept(r)
    BY <1>2 DEF Init, PointerKept, HeadKept, PendingKept, Building, Promoting, Swapping
  <2> QED BY <2>1, <2>2, FS_EmptySet DEF KInv
<1>3. IInv /\ KInv /\ [Next]_vars => (IInv /\ KInv)'
  BY StepKeeps, KeptStep
<1> QED BY <1>1, <1>2, <1>3, PTL DEF Spec

(* A run that ends without publishing leaves the last-known-good it was    *)
(* planned against, however other runs and kills interleave, unless three  *)
(* calls of its promotion failed: the direct rename, the replacement or    *)
(* the removal of the backup, and the way back.                            *)
THEOREM LastKnownGoodIsKept == Spec => [](faults <= 2 => LastKnownGoodKept)
<1>1. ASSUME IInv, KInv, faults <= 2
      PROVE  LastKnownGoodKept
  <2> SUFFICES ASSUME NEW r \in Run, at[r] \in Closing, run[r] # None, run[r].state # "PUBLISHED",
                      locks[TargetLock] = r
               PROVE  pointer = Seen(r)
    BY DEF LastKnownGoodKept
  <2>1. pointer = Seen(r) \/ faults >= 3
    BY <1>1 DEF KInv, PointerKept
  <2>2. faults \in Nat
    BY <1>1, BoundsAssumption DEF IInv, TypeOK
  <2> QED BY <1>1, <2>1, <2>2
<1>2. IInv /\ KInv => (faults <= 2 => LastKnownGoodKept)
  BY <1>1
<1> QED BY <1>2, KeptInvariance, PTL

-----------------------------------------------------------------------------
(* Fail closed. *)

(* In a chain no activation follows its head: the records in a row are all *)
(* different, and each follows the one before it.                          *)
LEMMA HeadIsLast ==
  ASSUME IsFiniteSet(Recorded), NEW newest \in Reference, Chain(newest), NEW k \in Recorded
  PROVE  activations[k].previous # newest
<1> DEFINE n == Cardinality(Recorded)
<1>1. n \in Nat
  BY FS_CardinalityType
<1>2. PICK row \in [1 .. n -> Recorded] :
        /\ Recorded = {row[i] : i \in DOMAIN row}
        /\ \A i \in DOMAIN row :
             activations[row[i]].previous =
               (IF i = 1 THEN None ELSE Ref(row[i - 1], activations[row[i - 1]].run))
        /\ newest = Ref(row[n], activations[row[n]].run)
  BY DEF Chain
<1> HIDE DEF n
<1>3. row \in Injection(1 .. n, Recorded)
  <2>1. row \in Surjection(1 .. n, Recorded)
    BY <1>2 DEF Surjection
  <2>2. IsFiniteSet(1 .. n) /\ Cardinality(1 .. n) = n
    BY <1>1, FS_Interval
  <2> QED BY <2>1, <2>2, FS_SurjSameCardinalityImpliesInj DEF n
<1>4. \A i, j \in 1 .. n : row[i] = row[j] => i = j
  BY <1>3 DEF Injection, IsInjective
<1>5. PICK i \in 1 .. n : k = row[i]
  BY <1>2
<1>6. newest # None
  BY NullAssumption
<1>7. CASE i = 1
  BY <1>2, <1>5, <1>6, <1>7
<1>8. CASE i # 1
  <2>1. i - 1 \in 1 .. n /\ n \in 1 .. n /\ i - 1 # n
    BY <1>1, <1>5, <1>8
  <2>2. row[i - 1] # row[n]
    BY <1>4, <2>1
  <2>3. Ref(row[i - 1], activations[row[i - 1]].run).key = row[i - 1]
    BY DEF Ref
  <2>4. newest.key = row[n]
    BY <1>2 DEF Ref
  <2> QED BY <1>2, <1>5, <1>8, <2>2, <2>3, <2>4
<1> QED BY <1>7, <1>8

(* A directory the next run accepts is not inconsistent.                   *)
LEMMA IntactIsConsistent ==
  ASSUME IInv, KInv, Intact(pointer)
  PROVE  ~Inconsistent
<1>1. pointer \in Reference \cup {None} /\ versions \in [Identity -> Run \cup {None}]
  BY DEF IInv, TypeOK
<1>2. ASSUME NEW k \in Identity, activations[k] # None
      PROVE  pointer # None /\ activations[k].previous # pointer
  <2>1. k \in Recorded
    BY <1>2 DEF Recorded
  <2>2. pointer # None /\ Chain(pointer)
    BY <2>1 DEF Intact
  <2> QED BY <1>1, <2>1, <2>2, HeadIsLast DEF KInv
<1>3. \A k \in Identity : activations[k] = None => versions[k] = None
  BY DEF Intact
<1>4. \A r \in Run : pending[r] = "none" /\ <<"activation", r>> \notin drafts
  BY DEF Intact
<1> QED BY <1>2, <1>3, <1>4 DEF Inconsistent

(* Once no process may write in an inconsistent directory, none ever does. *)
LEMMA BrokenStays ==
  ASSUME IInv, KInv, Broken, NEW r \in Run, Moves(r)
  PROVE  Broken' /\ UNCHANGED <<versions, activations, pointer>>
<1>1. /\ at \in [Run -> Place]
      /\ pending \in [Run -> {"none", "unowned", "owned"}]
      /\ RunOK(r)
      /\ PendingKept(r)
  BY DEF IInv, KInv, TypeOK, Place
<1>2. /\ at[r] \notin {"decide"} \cup Building \cup Promoting
      /\ at[r] \in Closing => pending[r] # "owned"
  BY DEF Broken, MayWrite
<1>3. UNCHANGED <<versions, activations, pointer>>
  BY <1>2, TablesMove
     DEF Promote, RenameDraft, Replace, SetAside, BringBack, Discard, Withdraw, Promoting, Swapping
<1>4. CheckLedger(r) => at'[r] = "receipt"
  <2> SUFFICES ASSUME CheckLedger(r) PROVE at'[r] = "receipt"
    OBVIOUS
  <2>1. at[r] = "ledger"
    BY DEF CheckLedger
  <2>2. run[r] # None /\ run[r].state # "PUBLISHED"
    BY <1>1, <2>1 DEF RunOK, InState, RunIn, StateAt
  <2>3. pointer = Seen(r)
    <3>1. locks[TargetLock] = r
      BY <2>1, TargetLockHeld DEF Inside
    <3> QED BY <2>1, <2>2, <3>1 DEF KInv, PointerKept
  <2>4. ~Intact(Seen(r))
    BY <2>3, IntactIsConsistent DEF Broken
  <2> QED BY <1>1, <2>4 DEF CheckLedger, Throw, Goto
<1>5. pending' = pending
  BY <1>1, <1>2 DEF Moves, Begin, Step, Kill, ClearLocks, directory, TakeLock, TakeLockFails, UndoLock, PlanRun,
     CheckLedger, ReadFails, StartExtract, MarkDuplicate, Extract, Profile, Validate, BuildFails,
     Prepare, PrepareFails, Sweep, Promote, PromoteFails, WriteDraft, RenameDraft, RenameFails,
     SetAside, Replace, BringBack, Discard, Withdraw, DropDraft, RecordFailure, CleanWorkspace,
     CleanPending, Release, Report, Building, Promoting, Swapping, Closing
<1>6. drafts' = drafts
  BY <1>2 DEF Moves, Begin, Step, Kill, ClearLocks, directory, TakeLock, TakeLockFails, UndoLock, PlanRun,
     CheckLedger, ReadFails, StartExtract, MarkDuplicate, Extract, Profile, Validate, BuildFails,
     Prepare, PrepareFails, Sweep, Promote, PromoteFails, WriteDraft, RenameDraft, RenameFails,
     SetAside, Replace, BringBack, Discard, Withdraw, DropDraft, RecordFailure, CleanWorkspace,
     CleanPending, Release, Report, Building, Promoting, Swapping, Closing
<1>7. ASSUME NEW q \in Run
      PROVE  ~MayWrite(q)'
  <2>1. CASE q # r
    <3>1. at'[q] = at[q] /\ pending'[q] = pending[q]
      BY <2>1, OthersKept
    <3> QED BY <3>1 DEF Broken, MayWrite
  <2>2. CASE q = r
    <3>1. at'[r] \notin {"decide"} \cup Building \cup Promoting
      BY <1>2, <1>4, PlacesFollow DEF Building, Promoting, Swapping
    <3>2. pending[r] = "owned" => at'[r] \notin Closing
      <4>1. at[r] \in Opening => pending[r] = "none"
        BY <1>1 DEF PendingKept
      <4>2. at[r] \in Over => at'[r] \in Over
        BY PlacesFollow
      <4> QED BY <1>1, <1>2, <4>1, <4>2 DEF Place, Closing, Over
    <3> QED BY <1>5, <2>2, <3>1, <3>2 DEF MayWrite
  <2> QED BY <2>1, <2>2
<1>8. Inconsistent'
  <2>1. Inconsistent
    BY DEF Broken
  <2> QED BY <1>3, <1>5, <1>6, <2>1 DEF Inconsistent
<1> QED BY <1>3, <1>7, <1>8 DEF Broken

(* Fail closed: once a run left the directory inconsistent, whichever way, *)
(* no later run is let in and what is there stays as it is: an orphan is   *)
(* never activated and a lost pointer never made up.                       *)
THEOREM FailsClosed == Spec => FailClosed
<1>1. ASSUME IInv, KInv, [Next]_vars
      PROVE  [Broken => Broken' /\ UNCHANGED <<versions, activations, pointer>>]_vars
  <2>1. ASSUME NEW r \in Run, Moves(r), Broken
        PROVE  Broken' /\ UNCHANGED <<versions, activations, pointer>>
    BY <1>1, <2>1, BrokenStays
  <2> QED BY <1>1, <2>1 DEF Next, Moves
<1>2. IInv /\ KInv /\ [Next]_vars => [Broken => Broken' /\ UNCHANGED <<versions, activations, pointer>>]_vars
  BY <1>1
<1> QED BY <1>2, KeptInvariance, PTL DEF Spec, FailClosed

-----------------------------------------------------------------------------
(* Nothing is left behind. *)

(* A process that was harmed stays so. *)
LEMMA UnharmedBefore ==
  ASSUME IInv, NEW r \in Run, Moves(r), Unharmed'
  PROVE  Unharmed /\ faults' = faults /\ ~Fault
<1>1. faults \in Nat /\ faults' \in Nat /\ faults' >= faults
  BY BoundsAssumption, BoundTypes DEF IInv, TypeOK
<1>2. ASSUME NEW q \in Run, at[q] = "killed"
      PROVE  at'[q] = "killed"
  <2>1. CASE q # r
    BY <1>2, <2>1, OthersKept
  <2>2. CASE q = r
    BY <1>2, <2>2, PlacesFollow DEF Over
  <2> QED BY <2>1, <2>2
<1>3. \A q \in Run : at[q] # "killed"
  BY <1>2 DEF Unharmed
<1>4. faults' = 0
  BY DEF Unharmed
<1> QED BY <1>1, <1>3, <1>4 DEF Unharmed, Fault

(* A lock file of a run that was not harmed is one it holds.               *)
LEMMA LocksTidyKept ==
  ASSUME IInv, \A p \in Run : LocksTidy(p), NEW r \in Run, Moves(r), ~Fault, NEW q \in Run
  PROVE  LocksTidy(q)'
<1>1. /\ locks \in [LockName -> Run \cup {None}]
      /\ held \in [Run -> Seq(LockName)]
      /\ held[r] \in {<<>>, <<TargetLock>>, <<SnapshotLock(key[r]), TargetLock>>}
      /\ TargetLock \in LockName
      /\ SnapshotLock(key[r]) \in LockName
      /\ NextLock(r) \in LockName
      /\ HeldOK(r)
  BY DEF IInv, TypeOK, LockName, NextLock
<1>2. q # None
  BY NoneAssumption
<1> SUFFICES ASSUME NEW n \in LockName, locks'[n] = q
             PROVE  n \in {held'[q][i] : i \in DOMAIN held'[q]}
  BY DEF LocksTidy, HeldBy
<1>3. locks[n] = q => n \in {held[q][i] : i \in DOMAIN held[q]}
  BY DEF LocksTidy, HeldBy
<1>4. CASE TakeLock(r) /\ LockFree(NextLock(r))
  <2>1. /\ locks' = [locks EXCEPT ![NextLock(r)] = r]
        /\ held' = [held EXCEPT ![r] = HeldWith(r, NextLock(r))]
        /\ at[r] \in {"target", "snapshot"}
    BY <1>4 DEF TakeLock
  <2>2. CASE q # r
    <3>1. held'[q] = held[q] /\ locks[n] = q
      BY <1>1, <2>1, <2>2
    <3> QED BY <1>3, <3>1
  <2>3. CASE q = r /\ at[r] = "target"
    <3>1. NextLock(r) = TargetLock /\ held[r] = <<>>
      BY <1>1, <2>3 DEF NextLock, HeldOK
    <3>2. held'[r] = <<TargetLock>>
      BY <1>1, <2>1, <3>1, LockOrder DEF HeldWith
    <3>3. n = TargetLock
      BY <1>1, <1>3, <2>1, <2>3, <3>1
    <3> QED BY <2>3, <3>2, <3>3
  <2>4. CASE q = r /\ at[r] = "snapshot"
    <3>1. NextLock(r) = SnapshotLock(key[r]) /\ held[r] = <<TargetLock>>
      BY <1>1, <2>4 DEF NextLock, HeldOK
    <3>2. held'[r] = <<SnapshotLock(key[r]), TargetLock>>
      BY <1>1, <2>1, <3>1, LockOrder DEF HeldWith
    <3>3. n = TargetLock \/ n = SnapshotLock(key[r])
      BY <1>1, <1>3, <2>1, <2>4, <3>1
    <3>4. held'[r][1] = SnapshotLock(key[r]) /\ held'[r][2] = TargetLock /\ DOMAIN held'[r] = {1, 2}
      <4> DEFINE s == SnapshotLock(key[r])
                 t == TargetLock
      <4> HIDE DEF s, t
      <4>1. held'[r] = <<s, t>>
        BY <3>2 DEF s, t
      <4>2. held'[r][1] = s /\ held'[r][2] = t /\ DOMAIN held'[r] = {1, 2}
        BY <4>1
      <4> QED BY <4>2 DEF s, t
    <3> QED BY <2>4, <3>3, <3>4
  <2> QED BY <2>1, <2>2, <2>3, <2>4
<1>5. CASE Release(r)
  <2>1. /\ locks' = [locks EXCEPT ![Head(held[r])] = None]
        /\ held' = [held EXCEPT ![r] = Tail(@)]
        /\ held[r] # <<>>
    BY <1>5 DEF Release
  <2>2. Head(held[r]) \in LockName
    BY <1>1, <2>1, LockOrder
  <2>3. locks[n] = q /\ n # Head(held[r])
    BY <1>1, <1>2, <2>1, <2>2
  <2>4. CASE q # r
    BY <1>1, <1>3, <2>1, <2>3, <2>4
  <2>5. CASE q = r /\ held[r] = <<TargetLock>>
    <3>1. HeldBy(r) = {TargetLock} /\ Head(held[r]) = TargetLock
      BY <2>5, HeldLocks, LockOrder
    <3> QED BY <1>3, <2>3, <2>5, <3>1 DEF HeldBy
  <2>6. CASE q = r /\ held[r] = <<SnapshotLock(key[r]), TargetLock>>
    <3>1. /\ HeldBy(r) = {SnapshotLock(key[r]), TargetLock}
          /\ Head(held[r]) = SnapshotLock(key[r])
          /\ Tail(held[r]) = <<TargetLock>>
      BY <2>6, HeldLocks, LockOrder
    <3>2. n = TargetLock
      BY <1>3, <2>3, <2>6, <3>1 DEF HeldBy
    <3>3. held'[r] = <<TargetLock>>
      BY <1>1, <2>1, <3>1
    <3> QED BY <2>6, <3>2, <3>3
  <2> QED BY <1>1, <2>1, <2>4, <2>5, <2>6
<1>6. CASE UndoLock(r) \/ ClearLocks(r)
  <2>1. held' = held /\ locks[n] = q
    BY <1>1, <1>2, <1>6 DEF UndoLock, ClearLocks, process
  <2> QED BY <1>3, <2>1
<1>7. ~TakeLockFails(r)
  BY DEF TakeLockFails
<1>8. CASE locks' = locks /\ held' = held
  BY <1>3, <1>8
<1>9. TakeLock(r) /\ ~LockFree(NextLock(r)) => locks' = locks /\ held' = held
  BY DEF TakeLock
<1> QED BY <1>4, <1>5, <1>6, <1>7, <1>8, <1>9
        DEF Moves, Begin, Step, Kill, PlanRun, directory,
            CheckLedger, ReadFails, StartExtract, MarkDuplicate, Extract, Profile, Validate, BuildFails,
            Prepare, PrepareFails, Sweep, Promote, PromoteFails, WriteDraft, RenameDraft, RenameFails,
            SetAside, Replace, BringBack, Discard, Withdraw, DropDraft, RecordFailure, CleanWorkspace,
            CleanPending, Report

(* The other files are ones the place of their process accounts for.       *)
LEMMA FilesTidyKept ==
  ASSUME IInv, \A p \in Run : FilesTidy(p), NEW r \in Run, Moves(r), ~Fault, at'[r] # "killed",
         NEW q \in Run
  PROVE  FilesTidy(q)'
<1>1. /\ at \in [Run -> Place]
      /\ pending \in [Run -> {"none", "unowned", "owned"}]
      /\ backup \in [Run -> Reference \cup {None}]
      /\ file \in [Run -> {"activation", "pointer"}]
      /\ FilesTidy(r)
      /\ FilesTidy(q)
  BY DEF IInv, TypeOK, Place
<1>2. at[r] \notin {"setAside", "dropDraft"} \cup Swapping
  BY <1>1 DEF FilesTidy
<1>3. CASE q # r
  <2>1. /\ at'[q] = at[q]
        /\ file'[q] = file[q]
        /\ pending'[q] = pending[q]
        /\ backup'[q] = backup[q]
    BY <1>3, OthersKept
  <2>2. \A f \in {"activation", "pointer"} : <<f, q>> \in drafts' => <<f, q>> \in drafts
    <3>1. CASE WriteDraft(r)
      BY <1>3, <3>1 DEF WriteDraft
    <3>2. CASE drafts' \subseteq drafts
      BY <3>2
    <3> QED BY <3>1, <3>2
       DEF Moves, Begin, Step, Kill, ClearLocks, directory, TakeLock, TakeLockFails, UndoLock, PlanRun,
     CheckLedger, ReadFails, StartExtract, MarkDuplicate, Extract, Profile, Validate, BuildFails,
     Prepare, PrepareFails, Sweep, Promote, PromoteFails, RenameDraft, RenameFails,
     SetAside, Replace, BringBack, Discard, Withdraw, DropDraft, RecordFailure, CleanWorkspace,
     CleanPending, Release, Report
  <2>3. q \in workspace' => q \in workspace
    <3>1. CASE Extract(r)
      BY <1>3, <3>1 DEF Extract
    <3>2. CASE BuildFails(r)
      <4>1. workspace' = workspace \/ workspace' = workspace \cup {r}
        BY <3>2 DEF BuildFails
      <4> QED BY <1>3, <4>1
    <3>3. CASE Sweep(r) \/ CleanWorkspace(r)
      BY <3>3 DEF Sweep, CleanWorkspace
    <3>4. CASE workspace' = workspace
      BY <3>4
    <3> QED BY <3>1, <3>2, <3>3, <3>4
       DEF Moves, Begin, Step, Kill, ClearLocks, process, TakeLock, TakeLockFails, UndoLock, PlanRun,
     CheckLedger, ReadFails, StartExtract, MarkDuplicate, Profile, Validate,
     Prepare, PrepareFails, Promote, PromoteFails, WriteDraft, RenameDraft, RenameFails,
     SetAside, Replace, BringBack, Discard, Withdraw, DropDraft, RecordFailure,
     CleanPending, Release, Report
  <2> QED BY <1>1, <2>1, <2>2, <2>3 DEF FilesTidy
<1>4. CASE q = r
  <2>1. ASSUME NEW place, Goto(r, place)
        PROVE  at'[r] = place
    BY <1>1, <2>1 DEF Goto
  <2>2. ASSUME NEW code, Throw(r, code)
        PROVE  at'[r] = "receipt"
    BY <2>1, <2>2 DEF Throw
  <2>3. ASSUME NEW next, NEW place, Advance(r, next, place)
        PROVE  at'[r] \in {"receipt", place}
    BY <2>1, <2>2, <2>3 DEF Advance
  <2>4. ASSUME Written(r)
        PROVE  at'[r] \in {"receipt", "draft", "release"}
    BY <2>1, <2>3, <2>4 DEF Written
  <2>5. CASE Begin(r) \/ TakeLock(r) \/ UndoLock(r) \/ ClearLocks(r)
    BY <1>1, <1>4, <2>1, <2>2, <2>5
       DEF Begin, TakeLock, UndoLock, ClearLocks, FilesTidy, directory, process, Swapping, Over
  <2>6. CASE PlanRun(r)
    <3>1. at[r] = "plan" /\ at'[r] \in {"receipt", "ledger"}
      BY <1>1, <2>6, PlanRuns DEF Thrown, PlanRun
    <3> QED BY <1>1, <1>4, <2>6, <3>1 DEF PlanRun, FilesTidy, directory, Swapping
  <2>7. CASE CheckLedger(r) \/ StartExtract(r)
    BY <1>1, <1>4, <2>1, <2>2, <2>3, <2>7 DEF CheckLedger, StartExtract, FilesTidy, directory, Swapping
  <2>8. CASE MarkDuplicate(r)
    BY <1>1, <1>4, <2>1, <2>2, <2>3, <2>8 DEF MarkDuplicate, FilesTidy, directory, Swapping
  <2>9. CASE Extract(r)
    BY <1>1, <1>4, <2>3, <2>9 DEF Extract, FilesTidy, directory, Swapping
  <2>10. CASE Profile(r) \/ Validate(r)
    BY <1>1, <1>4, <2>3, <2>10 DEF Profile, Validate, FilesTidy, directory, Swapping
  <2>11. CASE BuildFails(r)
    BY <1>1, <1>4, <2>2, <2>11 DEF BuildFails, FilesTidy, directory, Swapping
  <2>12. CASE Prepare(r)
    BY <1>1, <1>4, <2>3, <2>12 DEF Prepare, FilesTidy, directory, Swapping
  <2>13. CASE Sweep(r)
    BY <1>1, <1>4, <2>1, <2>13 DEF Sweep, FilesTidy, directory, Swapping
  <2>14. CASE Promote(r)
    BY <1>1, <1>4, <2>1, <2>2, <2>14 DEF Promote, FilesTidy, directory, Swapping
  <2>15. CASE WriteDraft(r)
    BY <1>1, <1>4, <2>1, <2>15 DEF WriteDraft, FilesTidy, directory, Swapping
  <2>16. CASE RenameDraft(r)
    <3>1. \A f \in {"activation", "pointer"} : <<f, r>> \notin drafts'
      BY <1>1, <2>16 DEF RenameDraft, FilesTidy
    <3> QED BY <1>1, <1>4, <2>4, <2>16, <3>1 DEF RenameDraft, FilesTidy, directory, Swapping
  <2>17. CASE RecordFailure(r) \/ CleanWorkspace(r) \/ CleanPending(r)
    BY <1>1, <1>4, <2>1, <2>17 DEF RecordFailure, CleanWorkspace, CleanPending, FilesTidy, directory, Swapping
  <2>18. CASE Release(r) \/ Report(r)
    BY <1>1, <1>4, <2>1, <2>18 DEF Release, Report, FilesTidy, directory, Swapping
  <2>19. ~Kill(r)
    BY <2>1 DEF Kill
  <2>20. ~TakeLockFails(r) /\ ~ReadFails(r) /\ ~PrepareFails(r) /\ ~PromoteFails(r) /\ ~RenameFails(r)
    BY DEF TakeLockFails, ReadFails, PrepareFails, PromoteFails, RenameFails
  <2>21. ~SetAside(r) /\ ~Replace(r) /\ ~BringBack(r) /\ ~Discard(r) /\ ~Withdraw(r) /\ ~DropDraft(r)
    BY <1>2 DEF SetAside, Replace, BringBack, Discard, Withdraw, DropDraft, Swapping
  <2> QED BY <2>5, <2>6, <2>7, <2>8, <2>9, <2>10, <2>11, <2>12, <2>13, <2>14, <2>15, <2>16, <2>17, <2>18,
             <2>19, <2>20, <2>21 DEF Moves, Step
<1> QED BY <1>3, <1>4

(* A version without its activation is one that is being promoted.         *)
LEMMA OrphansTidyKept ==
  ASSUME IInv, OrphansTidy, NEW r \in Run, FilesTidy(r), Moves(r), ~Fault, at'[r] # "killed"
  PROVE  OrphansTidy'
<1>1. /\ at \in [Run -> Place]
      /\ file \in [Run -> {"activation", "pointer"}]
      /\ activations \in [Identity -> Activation \cup {None}]
      /\ versions \in [Identity -> Run \cup {None}]
      /\ key \in [Run -> Identity]
      /\ head[r] \in Reference \cup {None}
  BY DEF IInv, TypeOK, Place
<1>2. key' = key
  BY DEF Moves, Begin, Step, Kill, ClearLocks, process, TakeLock, TakeLockFails, UndoLock, PlanRun,
     CheckLedger, ReadFails, StartExtract, MarkDuplicate, Extract, Profile, Validate, BuildFails,
     Prepare, PrepareFails, Sweep, Promote, PromoteFails, WriteDraft, RenameDraft, RenameFails,
     SetAside, Replace, BringBack, Discard, Withdraw, DropDraft, RecordFailure, CleanWorkspace,
     CleanPending, Release, Report
<1> SUFFICES ASSUME NEW k \in Identity, versions'[k] # None, activations'[k] = None
             PROVE  \E q \in Run : key[q] = k /\ at'[q] \in {"draft", "rename"} /\ file'[q] = "activation"
  BY <1>2 DEF OrphansTidy
<1>3. activations[k] = None
  BY <1>1, TablesOnlyGrow
<1>4. ASSUME NEW q \in Run, q # r, key[q] = k, at[q] \in {"draft", "rename"}, file[q] = "activation"
      PROVE  key[q] = k /\ at'[q] \in {"draft", "rename"} /\ file'[q] = "activation"
  BY <1>4, OthersKept
<1>5. CASE Promote(r) /\ versions[key[r]] = None
  <2>1. at'[r] = "draft" /\ file'[r] = "activation" /\ versions' = [versions EXCEPT ![key[r]] = r]
    BY <1>1, <1>5 DEF Promote, Goto, Order
  <2>2. CASE k = key[r]
    BY <2>1, <2>2
  <2>3. CASE k # key[r]
    <3>1. versions[k] # None /\ at[r] = "promote"
      BY <1>1, <1>5, <2>1, <2>3 DEF Promote
    <3>2. PICK q \in Run : key[q] = k /\ at[q] \in {"draft", "rename"} /\ file[q] = "activation"
      BY <1>3, <3>1 DEF OrphansTidy
    <3> QED BY <1>4, <2>3, <3>2
  <2> QED BY <2>2, <2>3
<1>6. CASE versions' = versions
  <2>1. PICK q \in Run : key[q] = k /\ at[q] \in {"draft", "rename"} /\ file[q] = "activation"
    BY <1>3, <1>6 DEF OrphansTidy
  <2>2. CASE q # r
    BY <1>4, <2>1, <2>2
  <2>3. CASE q = r
    <3>1. ~RenameDraft(r)
      <4> SUFFICES ASSUME RenameDraft(r) PROVE FALSE
        OBVIOUS
      <4>1. activations' = [activations EXCEPT ![key[r]] = [run |-> r, previous |-> head[r]]]
        BY <2>1, <2>3 DEF RenameDraft, SetFile, NewContent
      <4>2. [run |-> r, previous |-> head[r]] \in Activation
        BY <1>1 DEF Activation
      <4>3. activations'[k] = [run |-> r, previous |-> head[r]]
        BY <1>1, <2>1, <2>3, <4>1
      <4> QED BY <4>2, <4>3, NullAssumption
    <3>2. WriteDraft(r) => at'[r] = "rename" /\ file'[r] = file[r]
      BY <1>1 DEF WriteDraft, Goto
    <3>3. Kill(r) => at'[r] = "killed"
      BY <1>1 DEF Kill, Goto
    <3>4. ClearLocks(r) => at' = at /\ file' = file
      BY DEF ClearLocks, process
    <3> QED BY <2>1, <2>3, <3>1, <3>2, <3>3, <3>4
       DEF Moves, Begin, Step, TakeLock, TakeLockFails, UndoLock, PlanRun,
     CheckLedger, ReadFails, StartExtract, MarkDuplicate, Extract, Profile, Validate, BuildFails,
     Prepare, PrepareFails, Sweep, Promote, PromoteFails, RenameFails,
     SetAside, Replace, BringBack, Discard, Withdraw, DropDraft, RecordFailure, CleanWorkspace,
     CleanPending, Release, Report
  <2> QED BY <2>2, <2>3
<1> QED BY <1>5, <1>6, TablesMove

(* A record that follows the last one of the chain is its new end.         *)
LEMMA ChainGrows ==
  ASSUME IInv, KInv, NEW r \in Run, activations[key[r]] = None, ChainedTo(head[r]),
         activations' = [activations EXCEPT ![key[r]] = [run |-> r, previous |-> head[r]]],
         key' = key
  PROVE  ChainedTo(Own(r))'
<1>1. /\ activations \in [Identity -> Activation \cup {None}]
      /\ key[r] \in Identity
      /\ head[r] \in Reference \cup {None}
      /\ IsFiniteSet(Recorded)
      /\ Recorded \subseteq Identity
  BY DEF IInv, KInv, TypeOK, Recorded
<1> DEFINE k == key[r]
           n == Cardinality(Recorded)
           link == [run |-> r, previous |-> head[r]]
           new == Ref(k, r)
<1>2. link # None /\ new # None
  <2>1. link \in Activation /\ new \in Reference
    BY <1>1 DEF Activation, Reference, Ref
  <2> QED BY <2>1, NullAssumption
<1>3. /\ k \in Identity
      /\ k \notin Recorded
      /\ activations'[k] = link
      /\ \A j \in Recorded : activations'[j] = activations[j]
  BY <1>1 DEF Recorded
<1>4. Recorded' = Recorded \cup {k}
  BY <1>1, <1>2 DEF Recorded
<1>5. n \in Nat /\ Cardinality(Recorded') = n + 1
  BY <1>1, <1>3, <1>4, FS_CardinalityType, FS_AddElement
<1>6. Own(r)' = new
  BY DEF Own
<1>7. link.run = r /\ link.previous = head[r]
  OBVIOUS
<1> HIDE DEF k, n, link, new
<1>8. CASE Recorded = {}
  <2>1. n = 0 /\ head[r] = None
    BY <1>8, FS_EmptySet DEF n, ChainedTo
  <2> DEFINE row == [i \in 1 .. 1 |-> k]
  <2>2. /\ row \in [1 .. n + 1 -> Recorded']
        /\ Recorded' = {row[i] : i \in DOMAIN row}
    BY <1>4, <1>8, <2>1
  <2>3. ASSUME NEW i \in DOMAIN row
        PROVE  activations'[row[i]].previous =
                 (IF i = 1 THEN None ELSE Ref(row[i - 1], activations'[row[i - 1]].run))
    BY <1>3, <1>7, <2>1
  <2>4. new = Ref(row[n + 1], activations'[row[n + 1]].run)
    BY <1>3, <1>7, <2>1 DEF new
  <2> QED BY <1>2, <1>4, <1>5, <1>6, <2>2, <2>3, <2>4 DEF ChainedTo, Chain
<1>9. CASE Recorded # {}
  <2>1. Chain(head[r])
    BY <1>9 DEF ChainedTo
  <2>2. PICK row \in [1 .. n -> Recorded] :
          /\ Recorded = {row[i] : i \in DOMAIN row}
          /\ \A i \in DOMAIN row :
               activations[row[i]].previous =
                 (IF i = 1 THEN None ELSE Ref(row[i - 1], activations[row[i - 1]].run))
          /\ head[r] = Ref(row[n], activations[row[n]].run)
    BY <2>1 DEF Chain, n
  <2>3. n # 0 /\ n \in 1 .. n /\ DOMAIN row = 1 .. n
    <3>1. n # 0
      BY <1>1, <1>9, FS_EmptySet DEF n
    <3> QED BY <1>5, <3>1
  <2> DEFINE longer == [i \in 1 .. n + 1 |-> IF i = n + 1 THEN k ELSE row[i]]
  <2>4. /\ DOMAIN longer = 1 .. n + 1
        /\ longer[n + 1] = k
        /\ \A i \in 1 .. n : longer[i] = row[i]
        /\ longer \in [1 .. n + 1 -> Recorded']
    BY <1>4, <1>5, <2>3
  <2> HIDE DEF longer
  <2>5. Recorded' = {longer[i] : i \in DOMAIN longer}
    <3>1. ASSUME NEW j \in Recorded
          PROVE  \E i \in DOMAIN longer : j = longer[i]
      BY <1>5, <2>2, <2>3, <2>4
    <3>2. k \in {longer[i] : i \in DOMAIN longer}
      BY <1>5, <2>4
    <3> QED BY <1>4, <2>4, <3>1, <3>2
  <2>6. ASSUME NEW i \in DOMAIN longer
        PROVE  activations'[longer[i]].previous =
                 (IF i = 1 THEN None ELSE Ref(longer[i - 1], activations'[longer[i - 1]].run))
    <3>1. CASE i = n + 1
      <4>1. i # 1 /\ i - 1 = n /\ longer[i] = k /\ longer[i - 1] = row[n] /\ row[n] \in Recorded
        BY <1>5, <2>3, <2>4, <3>1
      <4>2. activations'[row[n]].run = activations[row[n]].run
        BY <1>3, <4>1
      <4> QED BY <1>3, <1>7, <2>2, <4>1, <4>2
    <3>2. CASE i # n + 1
      <4>1. i \in 1 .. n /\ longer[i] = row[i] /\ row[i] \in Recorded
        BY <1>5, <2>3, <2>4, <3>2
      <4>2. i # 1 => i - 1 \in 1 .. n /\ longer[i - 1] = row[i - 1] /\ row[i - 1] \in Recorded
        BY <1>5, <2>3, <2>4, <4>1
      <4>3. activations'[row[i]] = activations[row[i]]
        BY <1>3, <4>1
      <4>4. i # 1 => activations'[row[i - 1]] = activations[row[i - 1]]
        BY <1>3, <4>2
      <4> QED BY <2>2, <2>3, <4>1, <4>2, <4>3, <4>4
    <3> QED BY <3>1, <3>2
  <2>7. new = Ref(longer[n + 1], activations'[longer[n + 1]].run)
    BY <1>3, <1>7, <2>4 DEF new
  <2> QED BY <1>2, <1>4, <1>5, <1>6, <2>4, <2>5, <2>6, <2>7 DEF ChainedTo, Chain
<1> QED BY <1>8, <1>9

(* The activations stay a chain, that ends in the last-known-good or in    *)
(* the version its promotion has activated.                                *)
LEMMA ChainTidyKept ==
  ASSUME IInv, KInv, ChainTidy, NEW r \in Run, FilesTidy(r), Moves(r), ~Fault, at'[r] # "killed"
  PROVE  ChainTidy'
<1>1. /\ at \in [Run -> Place]
      /\ file \in [Run -> {"activation", "pointer"}]
      /\ at[r] \notin {"setAside", "dropDraft"} \cup Swapping
      /\ RunOK(r)
      /\ PromotionOK(r)
      /\ PointerKept(r)
      /\ HeadKept(r)
  BY DEF IInv, KInv, TypeOK, TablesOK, FilesTidy, Place
<1>2. key' = key
  BY DEF Moves, Begin, Step, Kill, ClearLocks, process, TakeLock, TakeLockFails, UndoLock, PlanRun,
     CheckLedger, ReadFails, StartExtract, MarkDuplicate, Extract, Profile, Validate, BuildFails,
     Prepare, PrepareFails, Sweep, Promote, PromoteFails, WriteDraft, RenameDraft, RenameFails,
     SetAside, Replace, BringBack, Discard, Withdraw, DropDraft, RecordFailure, CleanWorkspace,
     CleanPending, Release, Report
<1>3. ASSUME NEW q \in Run, q # r
      PROVE  Linking(q)' <=> Linking(q)
  BY <1>3, OthersKept DEF Linking
<1>4. ASSUME at[r] = "rename", NEW q \in Run, q # r
      PROVE  ~Linking(q)'
  <2>1. locks[TargetLock] = r
    BY <1>4, TargetLockHeld DEF Inside, Promoting
  <2>2. Linking(q) => locks[TargetLock] = q
    BY TargetLockHeld DEF Linking, Inside, Promoting
  <2> QED BY <1>3, <1>4, <2>1, <2>2
<1>5. CASE RenameDraft(r) /\ file[r] = "activation"
  <2>1. /\ at[r] = "rename"
        /\ activations' = [activations EXCEPT ![key[r]] = [run |-> r, previous |-> head[r]]]
        /\ Linking(r)'
        /\ ~Linking(r)
        /\ activations[key[r]] = None
    BY <1>1, <1>5 DEF RenameDraft, SetFile, NewContent, Written, Order, Goto, Linking, PromotionOK
  <2>2. head[r] = pointer
    <3>1. run[r] # None /\ run[r].state # "PUBLISHED"
      BY <1>1, <2>1 DEF RunOK, InState, RunIn, StateAt, Promoting
    <3>2. locks[TargetLock] = r
      BY <2>1, TargetLockHeld DEF Inside, Promoting
    <3> QED BY <1>1, <2>1, <3>1, <3>2 DEF PointerKept, HeadKept, Promoting
  <2>3. \A q \in Run : ~Linking(q)
    BY <1>3, <1>4, <2>1
  <2>4. ChainedTo(head[r])
    BY <2>2, <2>3 DEF ChainTidy
  <2>5. ChainedTo(Own(r))'
    BY <1>2, <2>1, <2>4, ChainGrows
  <2> QED BY <1>4, <2>1, <2>5 DEF ChainTidy
<1>6. CASE RenameDraft(r) /\ file[r] = "pointer"
  <2>1. /\ at[r] = "rename"
        /\ activations' = activations
        /\ pointer' = Own(r)
        /\ Linking(r)
    BY <1>6 DEF RenameDraft, SetFile, NewContent, Linking
  <2>2. at'[r] \in {"receipt", "release"}
    BY <1>1, <1>6 DEF RenameDraft, Written, Order, Advance, Throw, Goto
  <2>3. \A q \in Run : ~Linking(q)'
    BY <1>4, <2>1, <2>2 DEF Linking
  <2>4. ChainedTo(Own(r))
    BY <2>1 DEF ChainTidy
  <2>5. ChainedTo(pointer)'
    BY <2>1, <2>4 DEF ChainedTo, Chain, Recorded
  <2> QED BY <2>3, <2>5 DEF ChainTidy
<1>7. CASE ~RenameDraft(r)
  <2>1. activations' = activations /\ pointer' = pointer
    BY <1>1, <1>7, TablesMove DEF SetAside, Replace, BringBack, Withdraw, Swapping
  <2>2. Linking(r)' <=> Linking(r)
    <3>1. CASE Promote(r)
      BY <1>1, <3>1 DEF Promote, Linking, Goto, Throw, Order
    <3>2. CASE WriteDraft(r)
      BY <1>1, <3>2 DEF WriteDraft, Linking, Goto
    <3>3. CASE Kill(r)
      BY <1>1, <3>3 DEF Kill, Goto
    <3>4. CASE at[r] \notin {"draft", "rename", "promote"}
      <4>1. at'[r] \notin {"draft", "rename"}
        BY <1>1, <1>7, <3>4, PlacesFollow
           DEF Promote, WriteDraft, RenameFails, SetAside, Replace, BringBack, Discard, Withdraw, Swapping
      <4> QED BY <3>4, <4>1 DEF Linking
    <3>5. CASE ClearLocks(r)
      BY <3>5 DEF ClearLocks, process, Linking
    <3> QED BY <1>7, <3>1, <3>2, <3>3, <3>4, <3>5
       DEF Moves, Begin, Step, TakeLock, TakeLockFails, UndoLock, PlanRun,
     CheckLedger, ReadFails, StartExtract, MarkDuplicate, Extract, Profile, Validate, BuildFails,
     Prepare, PrepareFails, Sweep, PromoteFails, RenameFails,
     SetAside, Replace, BringBack, Discard, Withdraw, DropDraft, RecordFailure, CleanWorkspace,
     CleanPending, Release, Report
  <2>3. \A q \in Run : Linking(q)' <=> Linking(q)
    BY <1>3, <2>2
  <2>4. \A q \in Run : ChainedTo(Own(q)) => ChainedTo(Own(q))'
    BY <1>2, <2>1 DEF ChainedTo, Chain, Recorded, Own
  <2>5. ChainedTo(pointer) => ChainedTo(pointer)'
    BY <2>1 DEF ChainedTo, Chain, Recorded
  <2> QED BY <2>3, <2>4, <2>5 DEF ChainTidy
<1> QED BY <1>1, <1>5, <1>6, <1>7

(* Without a failed call and a kill, every file and lock there is belongs  *)
(* to a process whose place accounts for it, at every instant.             *)
THEOREM TidyInvariance == Spec => [](IInv /\ KInv /\ (Unharmed => Tidy))
<1>1. ASSUME Init
      PROVE  Tidy
  <2>1. ASSUME NEW r \in Run
        PROVE  LocksTidy(r) /\ FilesTidy(r) /\ ~Linking(r)
    <3>1. \A n \in LockName : locks[n] # r
      BY <1>1, NoneAssumption DEF Init
    <3> QED BY <1>1, <3>1 DEF Init, LocksTidy, FilesTidy, Linking, Swapping
  <2>2. OrphansTidy
    BY <1>1 DEF Init, OrphansTidy
  <2>3. ChainedTo(pointer)
    BY <1>1 DEF Init, ChainedTo, Recorded
  <2> QED BY <2>1, <2>2, <2>3 DEF Tidy, ChainTidy
<1>2. ASSUME IInv, KInv, Unharmed => Tidy, [Next]_vars, Unharmed'
      PROVE  Tidy'
  <2>1. ASSUME NEW r \in Run, Moves(r)
        PROVE  Tidy'
    <3>1. Unharmed /\ ~Fault /\ Tidy
      BY <1>2, <2>1, UnharmedBefore
    <3>2. at'[r] # "killed"
      BY <1>2 DEF Unharmed
    <3>3. \A q \in Run : LocksTidy(q)'
      BY <1>2, <2>1, <3>1, LocksTidyKept DEF Tidy
    <3>4. \A q \in Run : FilesTidy(q)'
      BY <1>2, <2>1, <3>1, <3>2, FilesTidyKept DEF Tidy
    <3>5. OrphansTidy'
      BY <1>2, <2>1, <3>1, <3>2, OrphansTidyKept DEF Tidy
    <3>6. ChainTidy'
      BY <1>2, <2>1, <3>1, <3>2, ChainTidyKept DEF Tidy
    <3> QED BY <3>3, <3>4, <3>5, <3>6 DEF Tidy
  <2>2. CASE UNCHANGED vars
    <3> USE <2>2 DEF vars, directory, process, bounds
    <3>1. Tidy
      BY <1>2 DEF Unharmed
    <3>2. \A q \in Run : (LocksTidy(q) => LocksTidy(q)') /\ (FilesTidy(q) => FilesTidy(q)')
      BY DEF LocksTidy, HeldBy, FilesTidy
    <3>3. OrphansTidy => OrphansTidy'
      BY DEF OrphansTidy
    <3>4. ChainTidy => ChainTidy'
      <4>1. /\ ChainedTo(pointer) => ChainedTo(pointer)'
            /\ \A r \in Run : ChainedTo(Own(r)) => ChainedTo(Own(r))'
        BY DEF ChainedTo, Chain, Recorded, Own
      <4>2. \A r \in Run : Linking(r)' <=> Linking(r)
        BY DEF Linking
      <4> QED BY <4>1, <4>2 DEF ChainTidy
    <3> QED BY <3>1, <3>2, <3>3, <3>4 DEF Tidy
  <2> QED BY <1>2, <2>1, <2>2 DEF Next, Moves
<1>3. IInv /\ KInv /\ (Unharmed => Tidy) /\ [Next]_vars => (Unharmed => Tidy)'
  BY <1>2
<1>4. Init => (Unharmed => Tidy)
  BY <1>1
<1> QED BY <1>3, <1>4, KeptInvariance, PTL DEF Spec

(* Runs whose calls succeed leave nothing behind, whatever their outcome   *)
(* and however many overlap: no lock, no pending directory, temporary file *)
(* backup or workspace, and a directory the next run accepts.              *)
THEOREM NothingIsLeft == Spec => []NothingLeftBehind
<1>1. ASSUME IInv, KInv, Unharmed => Tidy, faults = 0, \A r \in Run : at[r] \in {"begin", "over"}
      PROVE  /\ \A n \in LockName : locks[n] = None
             /\ \A r \in Run : pending[r] = "none" /\ backup[r] = None
             /\ drafts = {}
             /\ workspace = {}
             /\ Intact(pointer)
  <2>1. Tidy
    BY <1>1 DEF Unharmed
  <2>2. /\ locks \in [LockName -> Run \cup {None}]
        /\ drafts \subseteq {"activation", "pointer"} \X Run
        /\ workspace \subseteq Run
    BY <1>1 DEF IInv, TypeOK
  <2>3. ASSUME NEW n \in LockName
        PROVE  locks[n] = None
    <3> SUFFICES ASSUME NEW q \in Run, locks[n] = q PROVE FALSE
      BY <2>2
    <3>1. n \in HeldBy(q)
      BY <2>1 DEF Tidy, LocksTidy
    <3>2. held[q] = <<>>
      BY <1>1 DEF IInv, HeldOK
    <3>3. HeldBy(q) = {}
      BY <3>2, HeldLocks
    <3> QED BY <3>1, <3>3
  <2>4. ASSUME NEW r \in Run
        PROVE  /\ pending[r] = "none" /\ backup[r] = None /\ r \notin workspace
               /\ \A f \in {"activation", "pointer"} : <<f, r>> \notin drafts
    BY <1>1, <2>1 DEF Tidy, FilesTidy
  <2>5. drafts = {} /\ workspace = {}
    <3>1. ASSUME NEW d \in drafts
          PROVE  FALSE
      <4>1. PICK f \in {"activation", "pointer"}, r \in Run : d = <<f, r>>
        BY <2>2
      <4> QED BY <2>4, <4>1
    <3> QED BY <2>2, <2>4, <3>1
  <2>6. ASSUME NEW k \in Identity
        PROVE  IF activations[k] = None THEN versions[k] = None ELSE versions[k] = activations[k].run
    <3>1. activations[k] = None => versions[k] = None
      BY <1>1, <2>1 DEF Tidy, OrphansTidy
    <3> QED BY <1>1, <3>1 DEF IInv, TablesOK
  <2>7. ChainedTo(pointer)
    <3>1. \A r \in Run : ~Linking(r)
      BY <1>1 DEF Linking
    <3> QED BY <2>1, <3>1 DEF Tidy, ChainTidy
  <2>8. Intact(pointer)
    BY <2>4, <2>5, <2>6, <2>7 DEF Intact, ChainedTo
  <2> QED BY <2>3, <2>4, <2>5, <2>8
<1>2. IInv /\ KInv /\ (Unharmed => Tidy) => NothingLeftBehind
  BY <1>1 DEF NothingLeftBehind
<1> QED BY <1>2, TidyInvariance, PTL
-----------------------------------------------------------------------------
(* The register. *)

\* activated before some other run
Follows(ref) == \E k \in Recorded : activations[k].previous = ref

\* its publication is final: it published, or was killed in the middle of it
Settled(r) == at[r] = "killed" \/ (run[r] # None /\ run[r].state = "PUBLISHED")

\* let in, and not yet on its way out
Within == {"decide"} \cup Building \cup Promoting

\* it follows what it was planned on, which was published
PlannedOK(r) ==
  /\ run[r] # None /\ run[r].state # "PUBLISHED" /\ Seen(r) # None =>
       Whole(Seen(r)) /\ Seen(r).run \in EverActive
  /\ run[r] # None /\ run[r].state = "DUPLICATE" => Seen(r) # None /\ Seen(r).key = key[r]
  /\ at[r] # "over" => answer[r] = None

\* its activation follows it, and is the first where there was none
ActivationOK(r) ==
  /\ at[r] \in Within /\ Seen(r) = None => \A k \in Recorded : activations[k].run = r
  /\ at[r] \in {"draft", "rename", "setAside"} \cup Swapping /\ file[r] = "pointer" =>
       activations[key[r]].previous = Seen(r)

\* what it set aside is there until the replacement is final, or it was killed
\* first: then another run has followed it, or the directory is lost
BackupOK(r) ==
  backup[r] # None =>
    /\ at[r] \in Swapping \cup {"killed"}
    /\ activations[key[r]] = [run |-> r, previous |-> backup[r]]
    /\ at[r] = "killed" /\ pointer # None => pointer = Own(r) \/ Follows(Own(r))
    /\ \A q \in Run \ {r} : backup[q] # None => Follows(Own(q)) \/ Follows(Own(r))

Lineage ==
  /\ \A k \in Identity : versions[k] # None => key[versions[k]] = k
  /\ \A r \in Run : PlannedOK(r) /\ ActivationOK(r) /\ BackupOK(r)

\* who was ever active is who published, or was killed when it had
SettledOK ==
  /\ \A r \in EverActive : Settled(r)
  /\ \A r \in Run : run[r] # None /\ run[r].state = "PUBLISHED" => r \in EverActive

RInv == Lineage /\ SettledOK

(* A publication that is wholly there is named after the run that built it. *)
LEMMA WholeIsOwn ==
  ASSUME IInv, Lineage, NEW ref \in Reference, Whole(ref)
  PROVE  ref = Own(ref.run) /\ ref.run \in Run
<1>1. ref.key \in Identity /\ ref.run \in Run /\ ref = [key |-> ref.key, run |-> ref.run]
  BY DEF Reference
<1>2. versions[ref.key] = ref.run /\ ref.run # None
  BY <1>1, NoneAssumption DEF Whole
<1>3. key[ref.run] = ref.key
  BY <1>1, <1>2 DEF Lineage
<1> QED BY <1>1, <1>3 DEF Own, Ref

(* Different runs publish under different names.                           *)
LEMMA OwnIsUnique ==
  ASSUME NEW r, NEW q, Own(r) = Own(q)
  PROVE  r = q
BY DEF Own, Ref

(* Who was ever active, in terms of the files alone.                       *)
LEMMA EverIs ==
  /\ \A r \in Run : r \in EverActive <=> (Active # None /\ Active.run = r) \/ Follows(Own(r))
  /\ EverActive \subseteq Run
BY NoneAssumption DEF EverActive, ActiveRun, Follows

(* One process at most has the last-known-good set aside.                  *)
LEMMA OneSwaps ==
  ASSUME IInv, NEW r \in Run, at[r] \in Swapping
  PROVE  /\ Swapper = {r}
         /\ \A q \in Run : q # r => at[q] \notin Inside
         /\ locks[TargetLock] = r
<1>1. \A q \in Run : at[q] \in Inside => locks[TargetLock] = q
  BY TargetLockHeld
<1>2. \A q \in Run : at[q] \in Swapping => at[q] \in Inside
  BY DEF Inside, Promoting
<1>3. file[r] = "pointer"
  BY DEF IInv, TablesOK, PromotionOK
<1> QED BY <1>1, <1>2, <1>3 DEF Swapper

\* which publication counts, case by case
ActiveCases ==
  /\ \A r \in Run : at[r] \in Swapping => Active = backup[r]
  /\ (\A r \in Run : at[r] \notin Swapping) =>
       /\ pointer # None => Active = pointer
       /\ \A r \in Run : pointer = None /\ backup[r] # None /\ ~Follows(Own(r)) => Active = backup[r]
       /\ pointer = None /\ (\A r \in Run : backup[r] = None) => Active = None

BackupsOK == \A r \in Run : BackupOK(r)

(* The publication that counts is the last-known-good or one set aside.    *)
LEMMA ActiveIs == IInv /\ BackupsOK => ActiveCases
<1> SUFFICES ASSUME IInv, BackupsOK
             PROVE  ActiveCases
  OBVIOUS
<1>1. ASSUME NEW r \in Run, at[r] \in Swapping
      PROVE  Active = backup[r]
  <2>1. Swapper = {r}
    BY <1>1, OneSwaps
  <2>2. (CHOOSE q \in {r} : TRUE) = r
    OBVIOUS
  <2> QED BY <2>1, <2>2 DEF Active
<1>2. ASSUME \A r \in Run : at[r] \notin Swapping
      PROVE  Swapper = {}
  BY <1>2 DEF Swapper
<1>3. ASSUME \A r \in Run : at[r] \notin Swapping, NEW r \in Run, pointer = None, backup[r] # None, ~Follows(Own(r))
      PROVE  Active = backup[r]
  <2>1. r \in Lost
    BY <1>3 DEF Lost, Follows
  <2>2. ASSUME NEW q \in Run, q # r, backup[q] # None
        PROVE  Follows(Own(q))
    <3>1. BackupOK(q)
      BY DEF BackupsOK
    <3> QED BY <1>3, <2>2, <3>1 DEF BackupOK
  <2>3. Lost = {r}
    BY <2>1, <2>2 DEF Lost, Follows
  <2>4. (CHOOSE q \in {r} : TRUE) = r
    OBVIOUS
  <2> QED BY <1>2, <1>3, <2>3, <2>4 DEF Active
<1>4. ASSUME \A r \in Run : at[r] \notin Swapping, pointer = None, \A r \in Run : backup[r] = None
      PROVE  Active = None
  <2>1. Lost = {}
    BY <1>4 DEF Lost
  <2> QED BY <1>2, <1>4, <2>1 DEF Active
<1>5. ASSUME \A r \in Run : at[r] \notin Swapping, pointer # None
      PROVE  Active = pointer
  BY <1>2, <1>5 DEF Active
<1> QED BY <1>1, <1>3, <1>4, <1>5 DEF ActiveCases

(* The same, after a step.                                                 *)
LEMMA ActiveIsNext == (IInv /\ BackupsOK)' => ActiveCases'
BY ActiveIs, PTL

(* A run is published by the last call of its promotion only, and is a     *)
(* duplicate by the inspection of the stored version only.                 *)
LEMMA StateStep ==
  ASSUME IInv, NEW r \in Run, Moves(r), run'[r] # None
  PROVE  /\ run'[r].state = "PUBLISHED" =>
              \/ run[r] # None /\ run[r].state = "PUBLISHED"
              \/ at[r] \in {"rename", "discard"} /\ file[r] = "pointer" /\ at'[r] = "release"
         /\ run'[r].state = "DUPLICATE" =>
              \/ run[r] # None /\ run[r].state = "DUPLICATE"
              \/ MarkDuplicate(r)
<1>1. run \in [Run -> RunRecord \cup {None}] /\ at \in [Run -> Place]
  BY DEF IInv, TypeOK, Place
<1>2. ASSUME NEW place, NEW state \in {"LOCKED", "EXTRACTING", "PROFILING", "VALIDATING", "VALIDATED", "PUBLISHING"},
             Entered(r, place, state)
      PROVE  run'[r].state = state
  BY <1>1, <1>2, GoingIs DEF Entered
<1>3. CASE run' = run
  BY <1>3
<1>4. CASE PlanRun(r)
  <2>1. RunIn(r, key[r], PublicationAt(pointer), "PLANNED").state = "PLANNED"
    BY DEF RunIn
  <2> QED BY <1>1, <1>3, <1>4, <2>1, PlanRuns DEF Thrown
<1>5. CASE CheckLedger(r)
  <2>1. Entered(r, "decide", "LOCKED") \/ run' = run
    BY <1>5, AdvanceRuns DEF Thrown
  <2> QED BY <1>2, <1>3, <2>1
<1>6. CASE StartExtract(r) \/ Extract(r) \/ Profile(r) \/ Validate(r) \/ Prepare(r)
  BY <1>2, <1>6, AdvanceRuns
<1>7. CASE PrepareFails(r)
  BY <1>1, <1>7, AdvanceRuns, GoingIs
<1>8. CASE MarkDuplicate(r)
  BY <1>1, <1>3, <1>8, DuplicateRuns DEF Thrown
<1>9. CASE RenameDraft(r) \/ Discard(r)
  <2>1. at[r] \in Promoting /\ at[r] \in {"rename", "discard"}
    BY <1>9 DEF RenameDraft, Discard, Promoting, Swapping
  <2>2. Written(r) \/ run' = run
    BY <1>9 DEF RenameDraft, Discard
  <2>3. CASE Written(r)
    <3>1. \/ run' = run
          \/ /\ file[r] = "pointer"
             /\ at' = [at EXCEPT ![r] = "release"]
             /\ run' = [run EXCEPT ![r] = PublishedRun(r, key[r])]
      BY <2>1, <2>3, WrittenRuns
    <3>2. PublishedRun(r, key[r]).state = "PUBLISHED"
      BY DEF PublishedRun
    <3> QED BY <1>1, <1>3, <2>1, <3>1, <3>2
  <2> QED BY <1>3, <2>2, <2>3
<1>10. CASE RecordFailure(r)
  <2>1. at[r] = "receipt" /\ run'[r] = Failed(run[r], failure[r])
    BY <1>1, <1>10 DEF RecordFailure
  <2>2. run[r] # None /\ (InProgress(r) \/ UnrecordedDuplicate(r))
    BY <2>1, FailureRuns DEF IInv, RunOK
  <2>3. CASE UnrecordedDuplicate(r)
    <3>1. run'[r] = run[r]
      BY <2>1, <2>2, <2>3 DEF Failed, UnrecordedDuplicate, Terminal
    <3> QED BY <2>2, <3>1
  <2>4. CASE InProgress(r)
    <3>1. PICK state \in DOMAIN StageOf : InState(r, state)
      BY <2>4 DEF InProgress
    <3> DEFINE outcome == IF failure[r] \in BlockedCode THEN "BLOCKED" ELSE "FAILED"
               ended == EndedRun(r, key[r], run[r].lastKnownGood, state, outcome)
    <3>2. /\ run[r] = RunIn(r, key[r], run[r].lastKnownGood, state)
          /\ MayFollow(key[r], run[r].lastKnownGood)
          /\ key[r] \in Identity
      BY <3>1 DEF InState, IInv, TypeOK
    <3>3. Failed(run[r], failure[r]) = ended
      BY <3>2, FailureTaken
    <3>4. ended.state = outcome
      BY DEF EndedRun
    <3> HIDE DEF ended
    <3> QED BY <2>1, <3>3, <3>4
  <2> QED BY <2>2, <2>3, <2>4
<1> QED BY <1>3, <1>4, <1>5, <1>6, <1>7, <1>8, <1>9, <1>10
    DEF Moves, Begin, Step, Kill, ClearLocks, process, TakeLock, TakeLockFails, UndoLock, ReadFails,
        BuildFails, Sweep, Promote, PromoteFails, WriteDraft, RenameFails, SetAside, Replace, BringBack,
        Withdraw, DropDraft, CleanWorkspace, CleanPending, Release, Report

(* What a process that moves the last-known-good can rely on.              *)
LEMMA PromoterKnows ==
  ASSUME IInv, KInv, Lineage, NEW r \in Run, at[r] \in Promoting
  PROVE  /\ run[r] # None /\ run[r].state = "PUBLISHING" /\ ~Settled(r)
         /\ locks[TargetLock] = r
         /\ head[r] = Seen(r)
         /\ \A q \in Run : q # r => at[q] \notin Inside
         /\ at[r] \in {"promote", "draft", "rename", "setAside"} => pointer = Seen(r)
         /\ at[r] = "setAside" => pointer # None
         /\ at[r] \in {"replace", "bringBack", "reinstate"} =>
              pointer = None /\ backup[r] = Seen(r) /\ Seen(r) # None
         /\ at[r] \in {"discard", "withdraw"} =>
              pointer = Own(r) /\ backup[r] = Seen(r) /\ Seen(r) # None
         /\ at[r] \in {"bringBack", "withdraw", "reinstate"} => faults >= 2
         /\ Seen(r) \in Reference \cup {None}
         /\ Seen(r) # None => Whole(Seen(r)) /\ Seen(r) = Own(Seen(r).run) /\ Seen(r).run \in EverActive
<1>1. run[r] # None /\ InState(r, "PUBLISHING")
  BY DEF IInv, RunOK, StateAt, Promoting, Swapping
<1>2. run[r].state = "PUBLISHING" /\ at[r] # "killed"
  BY <1>1 DEF InState, RunIn, Promoting, Swapping
<1>3. locks[TargetLock] = r
  BY TargetLockHeld DEF Inside
<1>4. \A q \in Run : q # r => at[q] \notin Inside
  BY <1>3, TargetLockHeld
<1>5. PointerKept(r) /\ HeadKept(r)
  BY DEF KInv
<1>6. head[r] = Seen(r) /\ head[r] \in Reference \cup {None}
  BY <1>5 DEF HeadKept, IInv, TypeOK
<1>7. Seen(r) # None => Whole(Seen(r)) /\ Seen(r).run \in EverActive
  BY <1>1, <1>2 DEF Lineage, PlannedOK
<1>8. Seen(r) # None => Seen(r) = Own(Seen(r).run)
  BY <1>6, <1>7, WholeIsOwn
<1> QED BY <1>1, <1>2, <1>3, <1>4, <1>5, <1>6, <1>7, <1>8 DEF PointerKept, Settled

(* The first publication finds nothing set aside.                          *)
LEMMA FirstFindsNothing ==
  ASSUME IInv, KInv, Lineage, NEW r \in Run, at[r] \in {"promote", "draft", "rename", "setAside"}, pointer = None
  PROVE  \A q \in Run : backup[q] = None
<1>1. at[r] \in Within /\ Seen(r) = None
  BY PromoterKnows DEF Within, Promoting
<1>2. \A k \in Recorded : activations[k].run = r
  BY <1>1 DEF Lineage, ActivationOK
<1>3. ASSUME NEW q \in Run, backup[q] # None
      PROVE  FALSE
  <2>1. BackupOK(q) /\ key[q] \in Identity
    BY DEF Lineage, IInv, TypeOK
  <2>2. activations[key[q]] = [run |-> q, previous |-> backup[q]] /\ at[q] \in Swapping \cup {"killed"}
    BY <1>3, <2>1 DEF BackupOK
  <2>3. backup[q] \in Reference
    BY <1>3 DEF IInv, TypeOK
  <2>4. activations[key[q]] # None
    BY <2>2, <2>3, NullAssumption DEF Activation
  <2>5. q = r
    BY <1>2, <2>1, <2>2, <2>4 DEF Recorded
  <2> QED BY <2>2, <2>5 DEF Swapping
<1> QED BY <1>3

(* Activations are followed for good.                                      *)
LEMMA FollowsKept ==
  ASSUME IInv, KInv, NEW r \in Run, Moves(r), NEW ref
  PROVE  /\ Follows(ref) => Follows(ref)'
         /\ activations' = activations => (Follows(ref)' <=> Follows(ref))
         /\ (RenameDraft(r) /\ file[r] = "activation") =>
              (Follows(ref)' <=> Follows(ref) \/ ref = head[r])
<1>1. \A k \in Identity : activations[k] # None => activations'[k] = activations[k]
  BY TablesOnlyGrow
<1>2. Follows(ref) => \E k \in Recorded : activations[k].previous = ref
  BY DEF Follows
<1>3. Follows(ref) => Follows(ref)'
  BY <1>1 DEF Follows, Recorded
<1>4. activations' = activations => (Follows(ref)' <=> Follows(ref))
  BY DEF Follows, Recorded
<1>5. ASSUME RenameDraft(r), file[r] = "activation"
      PROVE  Follows(ref)' <=> Follows(ref) \/ ref = head[r]
  <2>1. /\ activations \in [Identity -> Activation \cup {None}]
        /\ key[r] \in Identity
        /\ head[r] \in Reference \cup {None}
    BY DEF IInv, TypeOK
  <2>2. [run |-> r, previous |-> head[r]] # None
    BY <2>1, NullAssumption DEF Activation
  <2>3. activations' = [activations EXCEPT ![key[r]] = [run |-> r, previous |-> head[r]]]
    BY <1>5 DEF RenameDraft, SetFile, NewContent
  <2>4. activations[key[r]] = None
    BY <1>5 DEF RenameDraft, IInv, TablesOK, PromotionOK
  <2>5. /\ activations'[key[r]] = [run |-> r, previous |-> head[r]]
        /\ \A k \in Identity : k # key[r] => activations'[k] = activations[k]
    BY <2>1, <2>3
  <2> QED BY <2>1, <2>2, <2>4, <2>5 DEF Follows, Recorded
<1> QED BY <1>3, <1>4, <1>5

(* Where a process at the swap of the last-known-good can go.              *)
LEMMA SwapMoves ==
  ASSUME IInv, KInv, Lineage, NEW r \in Run, Moves(r), at[r] \in Swapping, faults' <= 2
  PROVE  \/ /\ at[r] = "replace" /\ Replace(r) /\ at'[r] \in Swapping
            /\ UNCHANGED <<versions, activations, backup>>
         \/ /\ at[r] \in {"bringBack", "reinstate"} /\ BringBack(r) /\ at'[r] = "dropDraft"
            /\ pointer' = backup[r] /\ backup' = [backup EXCEPT ![r] = None]
            /\ UNCHANGED <<versions, activations>>
         \/ /\ at[r] = "discard" /\ Discard(r) /\ at'[r] \in {"release", "receipt"}
            /\ backup' = [backup EXCEPT ![r] = None] /\ Written(r) /\ file[r] = "pointer"
            /\ UNCHANGED <<versions, activations, pointer>>
         \/ /\ at[r] = "discard" /\ Discard(r) /\ at'[r] = "withdraw"
            /\ UNCHANGED <<versions, activations, pointer, backup>>
         \/ /\ at[r] = "withdraw" /\ Withdraw(r) /\ at'[r] = "reinstate"
            /\ pointer' = None
            /\ UNCHANGED <<versions, activations, backup>>
         \/ /\ Kill(r) /\ at'[r] = "killed"
            /\ UNCHANGED <<versions, activations, pointer, backup>>
<1>1. /\ at \in [Run -> Place]
      /\ faults \in Nat
      /\ file[r] = "pointer"
  BY BoundsAssumption DEF IInv, TypeOK, Place, TablesOK, PromotionOK
<1>2. at[r] \in {"bringBack", "withdraw", "reinstate"} => faults >= 2
  BY PromoterKnows DEF Promoting
<1>3. ASSUME Fault
      PROVE  at[r] \notin {"bringBack", "withdraw", "reinstate"}
  BY <1>1, <1>2, <1>3 DEF Fault
<1>4. CASE Replace(r)
  BY <1>1, <1>4 DEF Replace, SetFile, Goto, Swapping
<1>5. CASE BringBack(r)
  BY <1>1, <1>3, <1>5 DEF BringBack, SetFile, Goto
<1>6. CASE Discard(r)
  <2>1. Written(r) => at'[r] \in {"release", "receipt"}
    BY <1>1, <1>6 DEF Written, Order, Advance, Throw, Goto
  <2> QED BY <1>1, <1>6, <2>1 DEF Discard, Goto
<1>7. CASE Withdraw(r)
  BY <1>1, <1>3, <1>7 DEF Withdraw, SetFile, Goto
<1>8. CASE Kill(r)
  BY <1>1, <1>8 DEF Kill, Goto, directory
<1> QED BY <1>4, <1>5, <1>6, <1>7, <1>8
    DEF Moves, Step, Begin, ClearLocks, TakeLock, TakeLockFails, UndoLock, PlanRun, CheckLedger, ReadFails,
        StartExtract, MarkDuplicate, Extract, Profile, Validate, BuildFails, Prepare, PrepareFails, Sweep,
        Promote, PromoteFails, WriteDraft, RenameDraft, RenameFails, SetAside, DropDraft,
        RecordFailure, CleanWorkspace, CleanPending, Release, Report, Swapping, Over

(* What a run was planned on stays what was published, and only a caller   *)
(* whose run is over has been answered.                                    *)
LEMMA PlannedKept ==
  ASSUME IInv, KInv, RInv, NEW r \in Run, Moves(r), NEW q \in Run, EverActive \subseteq EverActive'
  PROVE  PlannedOK(q)'
<1>0. /\ PlannedOK(q)
      /\ pointer \in Reference \cup {None}
      /\ at \in [Run -> Place]
      /\ answer \in [Run -> {None, "promoted", "duplicate", "failed", "blocked", "unreleased"}]
      /\ key' = key
      /\ key[q] \in Identity
  BY RunTypes DEF IInv, TypeOK, RInv, Lineage, Place
<1>1. ASSUME run[q] # None, run'[q] # None, run'[q].state # "PUBLISHED"
      PROVE  Seen(q)' = Seen(q) /\ run[q].state # "PUBLISHED"
  BY <1>1, SeenKept DEF Seen
<1>2. ASSUME run[q] = None, run'[q] # None
      PROVE  /\ q = r /\ PlanRun(r) /\ Seen(q)' = pointer
             /\ run'[q].state # "DUPLICATE" /\ pointer' = pointer
  <2>1. q = r /\ PlanRun(r)
    BY <1>2, SeenKept
  <2>2. /\ run' = [run EXCEPT ![r] = RunIn(r, key[r], PublicationAt(pointer), "PLANNED")]
        /\ pointer # None => PublicationAt(pointer) # None
    BY <1>2, <2>1, PlanRuns DEF Thrown
  <2>3. run'[r] = RunIn(r, key[r], PublicationAt(pointer), "PLANNED")
    BY <2>2 DEF IInv, TypeOK
  <2>4. run'[r].lastKnownGood = PublicationAt(pointer) /\ run'[r].state = "PLANNED"
    BY <2>3 DEF RunIn
  <2>5. CASE pointer = None
    BY <2>1, <2>4, <2>5 DEF Seen, PublicationAt, PlanRun, directory
  <2>6. CASE pointer # None
    <3>1. Seen(r)' = Ref(PublicationAt(pointer).key, PublicationAt(pointer).run)
      BY <2>2, <2>4, <2>6 DEF Seen
    <3>2. PublicationAt(pointer).key = pointer.key /\ PublicationAt(pointer).run = pointer.run
      BY <2>6 DEF PublicationAt
    <3> QED BY <1>0, <2>1, <2>4, <2>6, <3>1, <3>2 DEF Ref, Reference, PlanRun, directory
  <2> QED BY <2>5, <2>6
<1>3. ASSUME run'[q] # None, run'[q].state # "PUBLISHED", Seen(q)' # None
      PROVE  Whole(Seen(q))' /\ Seen(q).run' \in EverActive'
  <2>1. CASE run[q] # None
    <3>1. Seen(q)' = Seen(q) /\ Whole(Seen(q)) /\ Seen(q).run \in EverActive
      BY <1>0, <1>1, <1>3, <2>1 DEF PlannedOK
    <3>2. Seen(q) \in Reference
      <4>1. run[q].lastKnownGood # None
        BY <1>3, <3>1 DEF Seen
      <4>2. run[q].lastKnownGood \in Publication
        BY <2>1, <4>1 DEF IInv, TypeOK, RunRecord
      <4> QED BY <4>1, <4>2 DEF Seen, Ref, Reference, Publication
    <3>3. Whole(Seen(q))'
      BY <3>1, <3>2, WholeKept DEF Whole
    <3> QED BY <3>1, <3>3
  <2>2. CASE run[q] = None
    <3>1. /\ q = r /\ PlanRun(r) /\ Seen(q)' = pointer /\ pointer' = pointer
          /\ UNCHANGED <<versions, activations>>
      BY <1>2, <1>3, <2>2 DEF PlanRun, directory
    <3>2. pointer # None /\ Whole(pointer)
      BY <1>3, <3>1 DEF IInv, TablesOK
    <3>3. \A s \in Run : at[s] \notin Swapping
      <4>1. at[r] \in Inside /\ at[r] \notin Swapping
        BY <3>1 DEF PlanRun, Inside, Swapping
      <4> QED BY <4>1, OneSwaps
    <3>4. Active = pointer
      BY <3>2, <3>3, ActiveIs DEF RInv, Lineage, BackupsOK, ActiveCases
    <3>5. pointer.run \in EverActive
      BY <1>0, <3>2, <3>4, EverIs DEF Reference
    <3> QED BY <3>1, <3>2, <3>5 DEF Whole
  <2> QED BY <2>1, <2>2
<1>4. ASSUME run'[q] # None, run'[q].state = "DUPLICATE"
      PROVE  Seen(q)' # None /\ Seen(q).key' = key'[q]
  <2>1. CASE run[q] # None /\ run[q].state = "DUPLICATE"
    BY <1>0, <1>1, <1>4, <2>1 DEF PlannedOK
  <2>2. CASE run[q] = None
    BY <1>2, <1>4, <2>2
  <2>3. CASE run[q] # None /\ run[q].state # "DUPLICATE"
    <3>1. q = r
      BY <1>4, <2>3, OthersKept
    <3>2. MarkDuplicate(r)
      BY <1>4, <2>3, <3>1, StateStep
    <3>3. run[r].lastKnownGood = PublicationAt(Ref(key[r], versions[key[r]]))
      <4>1. run' # run
        BY <1>4, <2>3
      <4> QED BY <3>2, <4>1 DEF MarkDuplicate
    <3>4. Ref(key[r], versions[key[r]]) \in Reference
      BY <1>0, <3>1, <3>2 DEF MarkDuplicate, Ref, Reference, IInv, TypeOK
    <3>5. /\ PublicationAt(Ref(key[r], versions[key[r]])).key = key[r]
          /\ PublicationAt(Ref(key[r], versions[key[r]])) # None
      <4>1. TheDigest \in Digest
        BY TheDigestIs
      <4>2. PublicationAt(Ref(key[r], versions[key[r]])) =
              [key |-> key[r], bundle |-> TheDigest, run |-> versions[key[r]]]
        BY <3>4, NullAssumption DEF PublicationAt, Ref
      <4>3. [key |-> key[r], bundle |-> TheDigest, run |-> versions[key[r]]] \in Publication
        BY <3>4, <4>1 DEF Ref, Reference, Publication
      <4> QED BY <4>2, <4>3, RecordAssumption
    <3>6. Seen(r) = Ref(key[r], run[r].lastKnownGood.run)
      BY <3>3, <3>5 DEF Seen
    <3>7. Seen(r) # None /\ Seen(r).key = key[r]
      <4>1. run[r].lastKnownGood \in Publication
        BY <2>3, <3>1, <3>3, <3>5 DEF IInv, TypeOK, RunRecord
      <4>2. Seen(r) \in Reference
        BY <1>0, <3>1, <3>6, <4>1 DEF Publication, Ref, Reference
      <4> QED BY <3>6, <4>2, NullAssumption DEF Ref
    <3> QED BY <1>0, <1>1, <1>4, <2>3, <3>1, <3>7
  <2> QED BY <2>1, <2>2, <2>3
<1>5. at'[q] # "over" => answer'[q] = None
  <2>1. CASE q # r
    BY <1>0, <2>1, OthersKept DEF PlannedOK
  <2>2. CASE q = r /\ Report(r)
    BY <1>0, <2>2 DEF Report, Goto
  <2>3. CASE q = r /\ ~Report(r)
    <3>1. answer' = answer
      BY <2>3 DEF Moves, Begin, Step, Kill, ClearLocks, process, TakeLock, TakeLockFails, UndoLock, PlanRun,
         CheckLedger, ReadFails, StartExtract, MarkDuplicate, Extract, Profile, Validate, BuildFails,
         Prepare, PrepareFails, Sweep, Promote, PromoteFails, WriteDraft, RenameDraft, RenameFails,
         SetAside, Replace, BringBack, Discard, Withdraw, DropDraft, RecordFailure, CleanWorkspace,
         CleanPending, Release
    <3>2. at[r] = "over" => at'[r] = "over"
      BY PlacesFollow DEF Over
    <3> QED BY <1>0, <2>3, <3>1, <3>2 DEF PlannedOK
  <2> QED BY <2>1, <2>2, <2>3
<1> QED BY <1>3, <1>4, <1>5 DEF PlannedOK

(* Each activation follows what its run was planned on.                    *)
LEMMA ActivationKept ==
  ASSUME IInv, KInv, RInv, NEW r \in Run, Moves(r), NEW q \in Run
  PROVE  ActivationOK(q)'
<1>0. /\ ActivationOK(q)
      /\ activations \in [Identity -> Activation \cup {None}]
      /\ at \in [Run -> Place]
      /\ file \in [Run -> {"activation", "pointer"}]
      /\ head[r] \in Reference \cup {None}
      /\ key' = key
      /\ key \in [Run -> Identity]
      /\ RunOK(q)'
  BY RunTypes, RunKept DEF IInv, TypeOK, RInv, Lineage, Place
<1>1. ASSUME at'[q] \in Within, run[q] # None
      PROVE  Seen(q)' = Seen(q)
  <2>1. run'[q] # None /\ InState(q, StateAt(at[q]))'
    BY <1>0, <1>1 DEF RunOK, Within
  <2>2. run'[q].state = StateAt(at'[q])
    BY <2>1 DEF InState, RunIn
  <2>3. run'[q].state # "PUBLISHED"
    BY <2>2 DEF StateAt
  <2> QED BY <1>1, <2>1, <2>3, SeenKept DEF Seen
<1>2. CASE q # r
  <2>1. ASSUME at'[q] \in Within
        PROVE  /\ at[q] = at'[q] /\ file'[q] = file[q] /\ activations' = activations
               /\ Recorded' = Recorded /\ Seen(q)' = Seen(q)
    <3>1. at[q] = at'[q] /\ file'[q] = file[q]
      BY <1>2, OthersKept
    <3>2. locks[TargetLock] = q
      BY <2>1, <3>1, TargetLockHeld DEF Within, Inside
    <3>3. activations' = activations
      BY <1>2, <3>2, OneInside
    <3>4. run[q] # None
      BY <2>1, <3>1 DEF IInv, RunOK, Within
    <3> QED BY <1>1, <2>1, <3>1, <3>3, <3>4 DEF Recorded
  <2> QED BY <1>0, <2>1 DEF ActivationOK, Within, Promoting
<1>3. CASE q = r
  <2>1. ASSUME at'[r] \in Within, Seen(r)' = None, NEW k \in Recorded'
        PROVE  activations'[k].run = r
    <3>1. CASE CheckLedger(r)
      <4>1. at[r] = "ledger" /\ activations' = activations
        BY <3>1 DEF CheckLedger, directory
      <4>2. run[r] # None
        BY <4>1 DEF IInv, RunOK
      <4>3. Seen(r) = None
        BY <1>1, <1>3, <2>1, <4>2
      <4>4. Intact(Seen(r))
        BY <1>0, <2>1, <3>1 DEF CheckLedger, Throw, Goto, Within, Building, Promoting, Swapping
      <4>5. Recorded = {}
        BY <4>3, <4>4 DEF Intact
      <4> QED BY <2>1, <4>1, <4>5 DEF Recorded
    <3>2. CASE ~CheckLedger(r)
      <4>1. at[r] \in Within
        BY <2>1, <3>2, PlacesFollow DEF Within
      <4>2. run[r] # None
        BY <4>1 DEF IInv, RunOK, Within
      <4>3. Seen(r) = None
        BY <1>1, <1>3, <2>1, <4>2
      <4>4. \A l \in Recorded : activations[l].run = r
        BY <1>0, <1>3, <4>1, <4>3 DEF ActivationOK
      <4>5. activations' = activations
            \/ activations' = [activations EXCEPT ![key[r]] = [run |-> r, previous |-> head[r]]]
        BY TablesMove
      <4>6. [run |-> r, previous |-> head[r]].run = r
        OBVIOUS
      <4> QED BY <1>0, <2>1, <4>4, <4>5, <4>6 DEF Recorded
    <3> QED BY <3>1, <3>2
  <2> DEFINE Linked == {"draft", "rename", "setAside"} \cup Swapping
  <2>2. ASSUME at'[r] \in Linked, file'[r] = "pointer"
        PROVE  activations'[key[r]].previous = Seen(r)'
    <3>1. \/ Promote(r) \/ WriteDraft(r) \/ RenameDraft(r) \/ RenameFails(r) \/ SetAside(r)
          \/ Replace(r) \/ BringBack(r) \/ Discard(r) \/ Withdraw(r)
      BY <2>2, PlacesFollow
    <3>2. at[r] \in Promoting
      BY <3>1 DEF Promote, WriteDraft, RenameDraft, RenameFails, SetAside, Replace, BringBack,
                  Discard, Withdraw, Promoting, Swapping
    <3>3. Seen(r)' = Seen(r)
      <4>1. at'[r] \in Within /\ run[r] # None
        BY <2>2, <3>2 DEF Within, Promoting, IInv, RunOK
      <4> QED BY <1>1, <1>3, <4>1
    <3>4. head[r] = Seen(r)
      BY <3>2, PromoterKnows DEF RInv
    <3>5. CASE Promote(r)
      <4>1. at'[r] = "draft" => file'[r] = "activation"
        BY <1>0, <3>5 DEF Promote, Goto, Throw, Order
      <4>2. at'[r] \in {"draft", "receipt"}
        BY <1>0, <3>5 DEF Promote, Goto, Throw
      <4> QED BY <2>2, <4>1, <4>2 DEF Swapping
    <3>6. CASE RenameDraft(r) /\ file[r] = "activation"
      BY <1>0, <3>3, <3>4, <3>6 DEF RenameDraft, SetFile, NewContent
    <3>7. CASE RenameDraft(r) /\ file[r] = "pointer"
      <4>1. at'[r] \in {"receipt", "release"}
        BY <1>0, <3>7 DEF RenameDraft, Written, Order, Advance, Throw, Goto
      <4> QED BY <2>2, <4>1 DEF Swapping
    <3>8. CASE WriteDraft(r) \/ RenameFails(r) \/ SetAside(r) \/ Replace(r) \/ BringBack(r) \/ Withdraw(r) \/ Discard(r)
      <4>1. at[r] \in Linked
        BY <3>8 DEF WriteDraft, RenameFails, SetAside, Replace, BringBack, Discard, Withdraw, Swapping
      <4>2. file[r] = "pointer"
        <5>1. CASE WriteDraft(r) \/ RenameFails(r) \/ SetAside(r) \/ Replace(r) \/ BringBack(r) \/ Withdraw(r)
          BY <2>2, <5>1 DEF WriteDraft, RenameFails, SetAside, Replace, BringBack, Withdraw
        <5>2. CASE Discard(r)
          BY <5>2 DEF Discard, IInv, TablesOK, PromotionOK, Swapping
        <5> QED BY <3>8, <5>1, <5>2
      <4>3. activations' = activations
        BY <3>8, <4>2
            DEF WriteDraft, RenameFails, SetAside, Replace, BringBack, Discard, Withdraw, SetFile, directory
      <4>4. activations[key[r]].previous = Seen(r)
        BY <1>0, <1>3, <4>1, <4>2 DEF ActivationOK
      <4> QED BY <3>3, <4>3, <4>4
    <3> QED BY <1>0, <3>1, <3>5, <3>6, <3>7, <3>8 DEF RenameDraft, IInv, TypeOK
  <2> QED BY <1>0, <1>3, <2>1, <2>2 DEF ActivationOK
<1> QED BY <1>2, <1>3

(* A last-known-good that is set aside comes back, or its successor is     *)
(* followed, unless a kill lost it: at most two calls may have failed.     *)
LEMMA BackupKept ==
  ASSUME IInv, KInv, RInv, NEW r \in Run, Moves(r), faults' <= 2, NEW q \in Run
  PROVE  BackupOK(q)'
<1>0. /\ \A p \in Run : BackupOK(p)
      /\ Lineage
      /\ activations \in [Identity -> Activation \cup {None}]
      /\ backup \in [Run -> Reference \cup {None}]
      /\ pointer \in Reference \cup {None}
      /\ at \in [Run -> Place]
      /\ key' = key
      /\ key \in [Run -> Identity]
  BY RunTypes DEF IInv, TypeOK, RInv, Lineage, Place
<1>1. \A p \in Run : Follows(Own(p)) => Follows(Own(p))' /\ Own(p)' = Own(p)
  BY <1>0, FollowsKept DEF Own
<1>2. \A p \in Run : Own(p)' = Own(p)
  BY <1>0 DEF Own
<1>3. at[r] \in Promoting => ~Settled(r) /\ ~Follows(Own(r))
  <2>1. at[r] \in Promoting => ~Settled(r)
    BY <1>0, PromoterKnows
  <2>2. Follows(Own(r)) => r \in EverActive
    BY EverIs
  <2> QED BY <2>1, <2>2 DEF RInv, SettledOK
<1>4. ASSUME NEW p \in Run, backup[p] # None
      PROVE  /\ activations[key[p]] = [run |-> p, previous |-> backup[p]]
             /\ activations'[key[p]] = [run |-> p, previous |-> backup[p]]
  <2>1. activations[key[p]] = [run |-> p, previous |-> backup[p]]
    BY <1>0, <1>4 DEF BackupOK
  <2>2. activations[key[p]] # None /\ key[p] \in Identity
    BY <1>0, <1>4, <2>1, NullAssumption DEF Activation
  <2> QED BY <2>1, <2>2, TablesOnlyGrow
\* a backup is made by the one call that sets the last-known-good aside
<1>5. ASSUME NEW p \in Run, backup'[p] # None, backup[p] = None
      PROVE  /\ p = r /\ SetAside(r) /\ at[r] = "setAside" /\ at'[r] = "replace"
             /\ backup'[r] = Seen(r) /\ pointer = Seen(r) /\ pointer # None /\ pointer' = None
             /\ activations' = activations
             /\ activations[key[r]] = [run |-> r, previous |-> Seen(r)]
             /\ \A s \in Run : s # r /\ backup[s] # None => Follows(Own(s))
  <2>1. p = r
    BY <1>5, OthersKept
  <2>2. SetAside(r) /\ pointer' = None /\ backup' = [backup EXCEPT ![r] = pointer] /\ activations' = activations
    BY <1>0, <1>5, <2>1, TablesMove
  <2>3. at[r] = "setAside" /\ at[r] \in Promoting
    BY <2>2 DEF SetAside, Promoting
  <2>4. pointer = Seen(r) /\ pointer # None /\ \A s \in Run : s # r => at[s] \notin Inside
    BY <1>0, <2>3, PromoterKnows
  <2>5. file[r] = "pointer" /\ Whole(Own(r))
    BY <2>3 DEF IInv, TablesOK, PromotionOK
  <2>6. activations[key[r]].previous = Seen(r)
    BY <1>0, <2>3, <2>5 DEF Lineage, ActivationOK
  <2>7. activations[key[r]] = [run |-> r, previous |-> Seen(r)]
    <3>1. activations[key[r]] # None /\ activations[key[r]].run = r
      BY <2>5 DEF Whole, Own, Ref
    <3>2. activations[key[r]] \in Activation
      BY <1>0, <3>1
    <3> QED BY <2>6, <3>1, <3>2 DEF Activation
  <2>8. Follows(Seen(r))
    <3>1. key[r] \in Recorded
      BY <1>0, <2>5 DEF Recorded, Whole, Own, Ref
    <3> QED BY <2>6, <3>1 DEF Follows
  <2>9. ASSUME NEW s \in Run, s # r, backup[s] # None
        PROVE  Follows(Own(s))
    <3>1. at[s] = "killed"
      BY <1>0, <2>4, <2>9 DEF BackupOK, Inside, Promoting
    <3>2. pointer = Own(s) \/ Follows(Own(s))
      BY <1>0, <2>4, <2>9, <3>1 DEF BackupOK
    <3> QED BY <2>4, <2>8, <3>2
  <2>10. at'[r] = "replace"
    <3>1. backup' # backup
      BY <1>5, <2>1
    <3> QED BY <1>0, <2>2, <3>1 DEF SetAside, Goto
  <2> QED BY <1>0, <2>1, <2>2, <2>3, <2>4, <2>7, <2>9, <2>10
<1> SUFFICES ASSUME backup'[q] # None
             PROVE  /\ at'[q] \in Swapping \cup {"killed"}
                    /\ activations'[key[q]] = [run |-> q, previous |-> backup'[q]]
                    /\ at'[q] = "killed" /\ pointer' # None => pointer' = Own(q) \/ Follows(Own(q))'
                    /\ \A p \in Run \ {q} : backup'[p] # None => Follows(Own(p))' \/ Follows(Own(q))'
  BY <1>0, <1>2 DEF BackupOK
<1>6. ASSUME NEW p \in Run \ {q}, backup'[p] # None
      PROVE  Follows(Own(p))' \/ Follows(Own(q))'
  <2>1. CASE backup[p] # None /\ backup[q] # None
    <3>1. Follows(Own(p)) \/ Follows(Own(q))
      BY <1>0, <2>1 DEF BackupOK
    <3> QED BY <1>1, <3>1
  <2>2. CASE backup[q] = None
    <3>1. q = r
      BY <1>5, <2>2
    <3>2. backup[p] # None
      BY <1>5, <1>6, <3>1
    <3>3. Follows(Own(p))
      BY <1>5, <2>2, <3>1, <3>2
    <3> QED BY <1>1, <3>3
  <2>3. CASE backup[p] = None
    <3>1. p = r
      BY <1>5, <1>6, <2>3
    <3>2. backup[q] # None
      BY <1>5, <1>6, <3>1
    <3>3. Follows(Own(q))
      BY <1>5, <1>6, <2>3, <3>1, <3>2
    <3> QED BY <1>1, <3>3
  <2> QED BY <2>1, <2>2, <2>3
<1>7. CASE backup[q] = None
  <2>1. /\ q = r /\ at'[r] = "replace" /\ backup'[r] = Seen(r)
        /\ activations'[key[r]] = [run |-> r, previous |-> Seen(r)]
    BY <1>5, <1>7
  <2> QED BY <1>6, <2>1 DEF Swapping
<1>8. CASE backup[q] # None /\ q # r
  <2>1. at'[q] = at[q] /\ backup'[q] = backup[q]
    BY <1>8, OthersKept
  <2>2. at[q] \in Swapping \cup {"killed"} /\ activations'[key[q]] = [run |-> q, previous |-> backup'[q]]
    BY <1>0, <1>4, <1>8, <2>1 DEF BackupOK
  <2>3. ASSUME at'[q] = "killed", pointer' # None
        PROVE  pointer' = Own(q) \/ Follows(Own(q))'
    <3>1. pointer # None => pointer = Own(q) \/ Follows(Own(q))
      BY <1>0, <1>8, <2>1, <2>3 DEF BackupOK
    <3>2. CASE pointer' = pointer
      BY <1>1, <2>3, <3>1, <3>2
    <3>3. CASE pointer' # pointer /\ RenameDraft(r)
      <4>1. at[r] = "rename" /\ at[r] \in Promoting /\ file[r] = "pointer"
        BY <3>3, TablesMove DEF RenameDraft, Promoting, SetFile, SetAside, Replace, BringBack, Withdraw
      <4>2. pointer = Seen(r)
        BY <1>0, <4>1, PromoterKnows
      <4>3. pointer # None
        BY <1>0, <1>8, <4>1, FirstFindsNothing
      <4>4. Follows(Seen(r))
        <5>1. activations[key[r]].previous = Seen(r)
          BY <1>0, <4>1 DEF Lineage, ActivationOK
        <5>2. activations[key[r]] # None
          BY <4>1 DEF IInv, TablesOK, PromotionOK, Whole, Own, Ref
        <5> QED BY <1>0, <5>1, <5>2 DEF Follows, Recorded
      <4> QED BY <1>1, <3>1, <4>2, <4>3, <4>4
    <3>4. CASE pointer' # pointer /\ ~RenameDraft(r)
      <4>1. Replace(r) \/ BringBack(r)
        BY <2>3, <3>4, TablesMove
      <4>2. at[r] \in {"replace", "bringBack", "reinstate"} /\ at[r] \in Promoting
        BY <4>1 DEF Replace, BringBack, Promoting, Swapping
      <4>3. backup[r] # None
        BY <1>0, <4>2, PromoterKnows
      <4>4. Follows(Own(q)) \/ Follows(Own(r))
        BY <1>0, <1>8, <4>3 DEF BackupOK
      <4> QED BY <1>1, <1>3, <4>2, <4>4
    <3> QED BY <3>2, <3>3, <3>4
  <2> QED BY <1>6, <2>1, <2>2, <2>3
<1>9. CASE backup[q] # None /\ q = r
  <2>1. at[r] \in Swapping \cup {"killed"}
    BY <1>0, <1>9 DEF BackupOK
  <2>2. CASE at[r] = "killed"
    <3>1. /\ at'[r] = "killed"
          /\ UNCHANGED <<versions, activations, pointer, backup>>
      <4>1. at'[r] = "killed"
        BY <2>2, PlacesFollow DEF Over
      <4> QED BY <2>2, <4>1, TablesMove
              DEF Promote, RenameDraft, Replace, SetAside, BringBack, Discard, Withdraw
    <3>2. pointer # None => pointer = Own(r) \/ Follows(Own(r))
      BY <1>0, <1>9, <2>2 DEF BackupOK
    <3> QED BY <1>1, <1>4, <1>6, <1>9, <3>1, <3>2
  <2>3. CASE at[r] \in Swapping
    <3>1. at[r] \in Promoting
      BY <2>3 DEF Promoting
    <3>2. /\ at'[r] \in Swapping \cup {"killed"}
          /\ backup' = backup
          /\ at'[r] = "killed" => pointer' = pointer
      <4>1. backup' # [backup EXCEPT ![r] = None]
        BY <1>0, <1>9
      <4> QED BY <1>0, <2>3, <4>1, SwapMoves DEF Swapping
    <3>3. pointer # None => pointer = Own(r)
      BY <1>0, <2>3, <3>1, PromoterKnows DEF Swapping
    <3>4. at'[r] = "killed" /\ pointer' # None => pointer' = Own(r)
      BY <3>2, <3>3
    <3> QED BY <1>4, <1>6, <1>9, <3>2, <3>4
  <2> QED BY <2>1, <2>2, <2>3
<1> QED BY <1>7, <1>8, <1>9

\* the instants at which a publication becomes the active one
Publishes(r) ==
  \/ RenameDraft(r) /\ file[r] = "pointer"
  \/ Discard(r) /\ at'[r] = "release"
  \/ Kill(r) /\ at[r] \in {"discard", "withdraw"}

(* The last call of a promotion is never refused by the state machine.     *)
LEMMA PublishingEnds ==
  ASSUME IInv, NEW r \in Run, at[r] \in {"rename", "discard"}, file[r] = "pointer", Written(r)
  PROVE  at'[r] = "release" /\ run'[r] # None /\ run'[r].state = "PUBLISHED"
<1>1. /\ at' = [at EXCEPT ![r] = "release"]
      /\ run' = [run EXCEPT ![r] = PublishedRun(r, key[r])]
      /\ PublishedRun(r, key[r]) # None
  BY WrittenRuns DEF Promoting, Swapping
<1>2. PublishedRun(r, key[r]).state = "PUBLISHED"
  BY DEF PublishedRun
<1> QED BY <1>1, <1>2 DEF IInv, TypeOK

(* At those instants the publication of a run takes the place of the one   *)
(* it was planned on.                                                      *)
LEMMA PublishStep ==
  ASSUME IInv, KInv, RInv, NEW r \in Run, Moves(r), faults' <= 2, Publishes(r),
         IInv', BackupsOK'
  PROVE  /\ at[r] \in Promoting
         /\ Settled(r)'
         /\ Active = Seen(r)
         /\ Active' = Own(r)
         /\ activations' = activations
         /\ Seen(r) # None => Follows(Seen(r))
<1>0. /\ Lineage
      /\ \A q \in Run : BackupOK(q)
      /\ activations \in [Identity -> Activation \cup {None}]
      /\ backup \in [Run -> Reference \cup {None}]
      /\ at \in [Run -> Place]
      /\ key' = key
      /\ key \in [Run -> Identity]
  BY RunTypes DEF IInv, TypeOK, RInv, Lineage, Place
<1>1. at[r] \in Promoting
  BY DEF Publishes, RenameDraft, Discard, Promoting, Swapping
<1>2. \A q \in Run : q # r => at[q] \notin Inside /\ at'[q] = at[q]
  BY <1>0, <1>1, PromoterKnows, OthersKept
<1>3. Own(r) # None /\ Own(r) \in Reference
  BY <1>0, NullAssumption DEF Own, Ref, Reference
<1>4. ActiveCases
  BY <1>0, ActiveIs DEF BackupsOK
<1>5. ActiveCases'
  BY ActiveIsNext
<1>6. CASE RenameDraft(r) /\ file[r] = "pointer"
  <2>1. at[r] = "rename" /\ Written(r) /\ pointer' = Own(r) /\ activations' = activations
    BY <1>6 DEF RenameDraft, SetFile, NewContent
  <2>2. at'[r] = "release" /\ Settled(r)'
    BY <1>6, <2>1, PublishingEnds DEF Settled
  <2>3. \A q \in Run : at[q] \notin Swapping /\ at'[q] \notin Swapping
    BY <1>2, <2>1, <2>2 DEF Inside, Promoting, Swapping
  <2>4. pointer = Seen(r)
    BY <1>0, <1>1, <2>1, PromoterKnows
  <2>5. Active = Seen(r)
    BY <1>0, <1>4, <2>1, <2>3, <2>4, FirstFindsNothing DEF ActiveCases
  <2>6. Active' = Own(r)
    BY <1>3, <1>5, <2>1, <2>3 DEF ActiveCases
  <2>7. activations[key[r]].previous = Seen(r) /\ key[r] \in Recorded
    <3>1. activations[key[r]] # None
      BY <1>6, <2>1 DEF IInv, TablesOK, PromotionOK, Whole, Own, Ref
    <3> QED BY <1>0, <1>6, <2>1, <3>1 DEF Lineage, ActivationOK, Recorded
  <2> QED BY <1>1, <2>1, <2>2, <2>5, <2>6, <2>7 DEF Follows
<1>7. CASE ~RenameDraft(r)
  <2>1. at[r] \in {"discard", "withdraw"}
    BY <1>7 DEF Publishes, Discard
  <2>2. at[r] \in Swapping /\ pointer = Own(r) /\ backup[r] = Seen(r) /\ Seen(r) # None
    BY <1>0, <1>1, <2>1, PromoterKnows DEF Swapping
  <2>3. pointer' = pointer /\ activations' = activations
    BY <1>7 DEF Publishes, Discard, Kill, directory
  <2>4. at'[r] \notin Swapping /\ Settled(r)'
    <3>1. CASE Kill(r)
      BY <1>0, <3>1 DEF Kill, Goto, Settled, Swapping
    <3>2. CASE Discard(r) /\ at'[r] = "release"
      <4>1. at[r] = "discard" /\ file[r] = "pointer"
        BY <2>2, <3>2 DEF Discard, IInv, TablesOK, PromotionOK
      <4>2. Written(r)
        BY <1>0, <3>2 DEF Discard, Goto
      <4> QED BY <3>2, <4>1, <4>2, PublishingEnds DEF Settled, Swapping
    <3> QED BY <1>7, <3>1, <3>2 DEF Publishes
  <2>5. Active = Seen(r)
    BY <1>4, <2>2 DEF ActiveCases
  <2>6. Active' = Own(r)
    <3>1. \A q \in Run : at'[q] \notin Swapping
      BY <1>2, <2>4 DEF Inside, Promoting
    <3> QED BY <1>3, <1>5, <2>2, <2>3, <3>1 DEF ActiveCases
  <2>7. Follows(Seen(r))
    <3>1. activations[key[r]] = [run |-> r, previous |-> Seen(r)]
      BY <1>0, <2>2 DEF BackupOK
    <3>2. activations[key[r]] # None
      BY <1>0, <2>2, <3>1, NullAssumption DEF Activation
    <3> QED BY <1>0, <3>1, <3>2 DEF Follows, Recorded
  <2> QED BY <1>1, <2>3, <2>4, <2>5, <2>6, <2>7
<1> QED BY <1>6, <1>7 DEF Publishes, RenameDraft, Discard

(* Everywhere else the same publication stays the active one, wherever the *)
(* calls of a replacement have put it meanwhile.                           *)
LEMMA OtherStep ==
  ASSUME IInv, KInv, RInv, NEW r \in Run, Moves(r), faults' <= 2, ~Publishes(r), IInv', BackupsOK'
  PROVE  Active' = Active
<1>0. /\ Lineage
      /\ activations \in [Identity -> Activation \cup {None}]
      /\ backup \in [Run -> Reference \cup {None}]
      /\ at \in [Run -> Place]
      /\ file[r] \in {"activation", "pointer"}
      /\ key' = key
  BY RunTypes DEF IInv, TypeOK, RInv, Lineage, Place
<1>1. ActiveCases
  BY <1>0, ActiveIs DEF BackupsOK, Lineage
<1>2. ActiveCases'
  BY ActiveIsNext
<1>3. ASSUME at[r] \in Promoting, NEW q \in Run, q # r
      PROVE  at[q] \notin Swapping /\ at'[q] \notin Swapping
  <2>1. at[q] \notin Inside
    BY <1>0, <1>3, PromoterKnows
  <2> QED BY <1>3, <2>1, OthersKept DEF Inside, Promoting
<1>4. CASE at[r] \in Swapping
  <2>0. at[r] \in Promoting
    BY <1>4 DEF Promoting
  <2>1. Active = backup[r]
    BY <1>1, <1>4 DEF ActiveCases
  <2>2. CASE at'[r] \in Swapping /\ backup' = backup
    BY <1>2, <2>1, <2>2 DEF ActiveCases
  <2>3. CASE at'[r] = "dropDraft" /\ pointer' = backup[r] /\ at[r] \in {"bringBack", "reinstate"}
    <3>1. backup[r] # None
      BY <1>0, <2>0, <2>3, PromoterKnows
    <3>2. \A q \in Run : at'[q] \notin Swapping
      BY <1>3, <2>0, <2>3 DEF Swapping
    <3> QED BY <1>2, <2>1, <2>3, <3>1, <3>2 DEF ActiveCases
  <2>4. CASE at[r] = "discard" /\ Discard(r) /\ Written(r) /\ file[r] = "pointer"
    BY <2>4, PublishingEnds DEF Publishes
  <2>5. CASE Kill(r) /\ at'[r] = "killed" /\ UNCHANGED <<activations, pointer, backup>>
    <3>1. at[r] \in {"replace", "bringBack", "reinstate"}
      BY <1>4, <2>5 DEF Publishes, Swapping
    <3>2. pointer = None /\ backup[r] # None /\ ~Settled(r)
      BY <1>0, <2>0, <3>1, PromoterKnows
    <3>3. ~Follows(Own(r))
      BY <3>2, EverIs DEF RInv, SettledOK
    <3>4. ~Follows(Own(r))'
      BY <1>0, <2>5, <3>3 DEF Follows, Recorded, Own
    <3>5. \A q \in Run : at'[q] \notin Swapping
      BY <1>3, <2>0, <2>5 DEF Swapping
    <3> QED BY <1>2, <2>1, <2>5, <3>2, <3>4, <3>5 DEF ActiveCases
  <2>6. "withdraw" \in Swapping /\ "reinstate" \in Swapping
    BY DEF Swapping
  <2> QED BY <1>0, <1>4, <2>2, <2>3, <2>4, <2>5, <2>6, SwapMoves
<1>5. CASE at[r] \notin Swapping /\ SetAside(r) /\ ~UNCHANGED <<activations, pointer, backup>>
  <2>1. at[r] = "setAside" /\ at[r] \in Promoting
    BY <1>5 DEF SetAside, Promoting
  <2>2. pointer # None
    BY <1>0, <2>1, PromoterKnows
  <2>3. backup' = [backup EXCEPT ![r] = pointer] /\ at'[r] \in Swapping
    <3>1. Content(r) = pointer
      BY <2>1 DEF IInv, TablesOK, PromotionOK, Content
    <3> QED BY <1>0, <1>5, <3>1 DEF SetAside, Goto, Swapping
  <2>4. Active = pointer
    BY <1>1, <1>3, <1>5, <2>1, <2>2 DEF ActiveCases
  <2>5. Active' = backup'[r]
    BY <1>2, <2>3 DEF ActiveCases
  <2> QED BY <1>0, <2>3, <2>4, <2>5
<1>6. CASE at[r] \notin Swapping /\ RenameDraft(r)
  <2>1. file[r] = "activation" /\ at[r] = "rename" /\ at[r] \in Promoting
    BY <1>0, <1>6 DEF Publishes, RenameDraft, Promoting
  <2>2. at'[r] = "draft" /\ UNCHANGED <<pointer, backup>>
    BY <1>0, <1>6, <2>1 DEF RenameDraft, SetFile, Written, Order, Goto
  <2>3. \A q \in Run : at[q] \notin Swapping /\ at'[q] \notin Swapping
    BY <1>3, <1>6, <2>1, <2>2 DEF Swapping
  <2>4. CASE pointer = None
    <3>1. \A q \in Run : backup[q] = None
      BY <1>0, <2>1, <2>4, FirstFindsNothing
    <3>2. Active = None
      BY <1>1, <2>3, <2>4, <3>1 DEF ActiveCases
    <3>3. Active' = None
      BY <1>2, <2>2, <2>3, <2>4, <3>1 DEF ActiveCases
    <3> QED BY <3>2, <3>3
  <2>5. CASE pointer # None
    BY <1>1, <1>2, <2>2, <2>3, <2>5 DEF ActiveCases
  <2> QED BY <2>4, <2>5
<1>7. CASE at[r] \notin Swapping /\ ~RenameDraft(r) /\ UNCHANGED <<activations, pointer, backup>>
  <2>1. at'[r] \notin Swapping
    <3> SUFFICES ASSUME at'[r] \in Swapping PROVE FALSE
      OBVIOUS
    <3>1. \/ Promote(r) \/ WriteDraft(r) \/ RenameFails(r) \/ SetAside(r)
          \/ Replace(r) \/ BringBack(r) \/ Discard(r) \/ Withdraw(r)
      BY <1>7, PlacesFollow
    <3>2. ~Replace(r) /\ ~BringBack(r) /\ ~Discard(r) /\ ~Withdraw(r)
      BY <1>7 DEF Replace, BringBack, Discard, Withdraw, Swapping
    <3>3. Promote(r) => at'[r] \in {"draft", "receipt"}
      BY <1>0 DEF Promote, Goto, Throw
    <3>4. WriteDraft(r) \/ RenameFails(r) => at'[r] \in {"rename", "dropDraft", "setAside"}
      BY <1>0 DEF WriteDraft, RenameFails, Goto
    <3>5. SetAside(r) => at'[r] = "dropDraft"
      <4>1. ASSUME SetAside(r), backup' = [backup EXCEPT ![r] = Content(r)]
            PROVE  FALSE
        <5>1. at[r] = "setAside" /\ at[r] \in Promoting /\ Content(r) = pointer
          BY <4>1 DEF SetAside, Promoting, IInv, TablesOK, PromotionOK, Content
        <5>2. pointer # None
          BY <1>0, <5>1, PromoterKnows
        <5>3. backup[r] # None
          BY <1>0, <1>7, <4>1, <5>1, <5>2
        <5>4. BackupOK(r)
          BY <1>0 DEF Lineage
        <5> QED BY <5>1, <5>3, <5>4 DEF BackupOK, Swapping
      <4> QED BY <1>0, <4>1 DEF SetAside, Goto
    <3> QED BY <3>1, <3>2, <3>3, <3>4, <3>5 DEF Swapping
  <2>2. \A q \in Run : at'[q] \in Swapping <=> at[q] \in Swapping
    BY <1>7, <2>1, OthersKept
  <2>3. CASE \E q \in Run : at[q] \in Swapping
    BY <1>1, <1>2, <1>7, <2>2, <2>3 DEF ActiveCases
  <2>4. CASE \A q \in Run : at[q] \notin Swapping
    <3>1. Swapper = {} /\ Swapper' = {}
      BY <2>2, <2>4 DEF Swapper
    <3>2. Lost' = Lost
      BY <1>0, <1>7 DEF Lost, Recorded, Own
    <3> QED BY <1>7, <3>1, <3>2 DEF Active
  <2> QED BY <2>3, <2>4
<1>8. at[r] \in Swapping \/ SetAside(r) \/ RenameDraft(r) \/ UNCHANGED <<activations, pointer, backup>>
  BY TablesMove DEF Replace, BringBack, Discard, Withdraw, Swapping
<1> QED BY <1>4, <1>5, <1>6, <1>7, <1>8

(* The publications that were ever active are as many as before, and one   *)
(* more at the instants at which one is published.                         *)
LEMMA EverStep ==
  ASSUME IInv, KInv, RInv, NEW r \in Run, Moves(r), faults' <= 2, IInv', BackupsOK'
  PROVE  /\ ~Publishes(r) => Active' = Active /\ EverActive' = EverActive
         /\ Publishes(r) => EverActive' = EverActive \cup {r} /\ r \notin EverActive /\ Settled(r)'
<1>0. /\ Lineage
      /\ key' = key
      /\ activations \in [Identity -> Activation \cup {None}]
      /\ head[r] \in Reference \cup {None}
  BY RunTypes DEF RInv, IInv, TypeOK
<1>1. /\ \A q \in Run : q \in EverActive <=> (Active # None /\ Active.run = q) \/ Follows(Own(q))
      /\ \A q \in Run : q \in EverActive' <=> (Active' # None /\ (Active').run = q) \/ Follows(Own(q))'
      /\ EverActive \subseteq Run /\ EverActive' \subseteq Run
  <2>1. /\ \A q \in Run : q \in EverActive' <=> (Active' # None /\ (Active').run = q) \/ Follows(Own(q))'
        /\ EverActive' \subseteq Run
    BY NoneAssumption DEF EverActive, ActiveRun, Follows
  <2> QED BY <2>1, EverIs
<1>2. \A q \in Run : Own(q)' = Own(q) /\ Own(q) # None /\ Own(q).run = q
  BY <1>0, NullAssumption DEF Own, Ref, Reference, IInv, TypeOK
<1>3. CASE Publishes(r)
  <2>1. /\ at[r] \in Promoting /\ Settled(r)' /\ Active = Seen(r) /\ Active' = Own(r)
        /\ activations' = activations /\ (Seen(r) # None => Follows(Seen(r)))
    BY <1>3, PublishStep
  <2>2. \A q \in Run : Follows(Own(q))' <=> Follows(Own(q))
    BY <1>2, <2>1, FollowsKept
  <2>3. \A q \in Run : q \in EverActive <=> Follows(Own(q))
    <3>1. Seen(r) # None => Seen(r) = Own(Seen(r).run)
      BY <1>0, <2>1, PromoterKnows
    <3> QED BY <1>1, <2>1, <3>1
  <2>4. r \notin EverActive
    <3>1. ~Settled(r)
      BY <1>0, <2>1, PromoterKnows
    <3> QED BY <3>1 DEF RInv, SettledOK
  <2>5. \A q \in Run : q \in EverActive' <=> q = r \/ q \in EverActive
    BY <1>1, <1>2, <2>1, <2>2, <2>3
  <2> QED BY <1>1, <1>3, <2>1, <2>4, <2>5
<1>4. CASE ~Publishes(r)
  <2>1. Active' = Active
    BY <1>4, OtherStep
  <2>2. CASE RenameDraft(r) /\ file[r] = "activation"
    <3>1. at[r] = "rename" /\ at[r] \in Promoting
      BY <2>2 DEF RenameDraft, Promoting
    <3>2. head[r] = Seen(r) /\ (Seen(r) # None => Seen(r) = Own(Seen(r).run) /\ Seen(r).run \in EverActive)
      BY <1>0, <3>1, PromoterKnows
    <3>3. \A q \in Run : Follows(Own(q))' <=> Follows(Own(q)) \/ Own(q) = head[r]
      BY <1>2, <2>2, FollowsKept
    <3>4. \A q \in Run : Own(q) = head[r] => q \in EverActive
      BY <1>2, <3>2
    <3>5. \A q \in Run : q \in EverActive' <=> q \in EverActive
      BY <1>1, <2>1, <3>3, <3>4
    <3> QED BY <1>1, <1>4, <2>1, <3>5
  <2>3. CASE activations' = activations
    <3>1. \A q \in Run : Follows(Own(q))' <=> Follows(Own(q))
      BY <1>2, <2>3, FollowsKept
    <3>2. \A q \in Run : q \in EverActive' <=> q \in EverActive
      BY <1>1, <2>1, <3>1
    <3> QED BY <1>1, <1>4, <2>1, <3>2
  <2> QED BY <2>2, <2>3, TablesMove
<1> QED BY <1>3, <1>4

(* What was published stays so, and whoever published is among the ever    *)
(* active.                                                                 *)
LEMMA SettledStep ==
  ASSUME IInv, KInv, RInv, NEW r \in Run, Moves(r), faults' <= 2, IInv', BackupsOK'
  PROVE  SettledOK' /\ EverActive \subseteq EverActive'
<1>1. /\ ~Publishes(r) => EverActive' = EverActive
      /\ Publishes(r) => EverActive' = EverActive \cup {r} /\ Settled(r)'
  BY EverStep
<1>2. ASSUME NEW q \in Run, Settled(q)
      PROVE  Settled(q)'
  <2>1. CASE at[q] = "killed"
    <3>1. at'[q] = "killed"
      BY <2>1, OthersKept, PlacesFollow DEF Over
    <3> QED BY <3>1 DEF Settled
  <2>2. CASE run[q] # None /\ run[q].state = "PUBLISHED"
    BY <2>2, SeenKept DEF Settled
  <2> QED BY <1>2, <2>1, <2>2 DEF Settled
<1>3. \A q \in EverActive' : Settled(q)'
  BY <1>1, <1>2, EverIs DEF RInv, SettledOK
<1>4. ASSUME NEW q \in Run, run'[q] # None, run'[q].state = "PUBLISHED"
      PROVE  q \in EverActive'
  <2>1. CASE run[q] # None /\ run[q].state = "PUBLISHED"
    BY <1>1, <2>1 DEF RInv, SettledOK
  <2>2. CASE ~(run[q] # None /\ run[q].state = "PUBLISHED")
    <3>1. q = r
      BY <1>4, <2>2, OthersKept
    <3>2. at[r] \in {"rename", "discard"} /\ file[r] = "pointer" /\ at'[r] = "release"
      BY <1>4, <2>2, <3>1, StateStep
    <3>3. RenameDraft(r) \/ Discard(r)
      <4>1. at \in [Run -> Place]
        BY DEF IInv, TypeOK, Place
      <4>2. ~RenameFails(r) /\ ~Kill(r) /\ ~ClearLocks(r)
        BY <3>2, <4>1 DEF RenameFails, Kill, ClearLocks, Goto, Over
      <4> QED BY <3>2, <4>2
          DEF Moves, Step, Begin, TakeLock, TakeLockFails, UndoLock, PlanRun, CheckLedger, ReadFails,
              StartExtract, MarkDuplicate, Extract, Profile, Validate, BuildFails, Prepare, PrepareFails, Sweep,
              Promote, PromoteFails, WriteDraft, SetAside, Replace, BringBack, Withdraw, DropDraft,
              RecordFailure, CleanWorkspace, CleanPending, Release, Report
    <3> QED BY <1>1, <3>1, <3>2, <3>3 DEF Publishes
  <2> QED BY <2>1, <2>2
<1> QED BY <1>1, <1>3, <1>4 DEF SettledOK

(* With at most two failed calls every step keeps what ties the register   *)
(* to the files.                                                           *)
LEMMA RegisterKept ==
  ASSUME IInv, KInv, RInv, IInv', faults' <= 2, [Next]_vars
  PROVE  RInv'
<1>1. ASSUME NEW r \in Run, Moves(r)
      PROVE  RInv'
  <2>1. \A q \in Run : BackupOK(q)'
    BY <1>1, BackupKept
  <2>2. BackupsOK'
    BY <2>1 DEF BackupsOK
  <2>3. SettledOK' /\ EverActive \subseteq EverActive'
    BY <1>1, <2>2, SettledStep
  <2>4. \A q \in Run : PlannedOK(q)' /\ ActivationOK(q)'
    BY <1>1, <2>3, PlannedKept, ActivationKept
  <2>5. ASSUME NEW k \in Identity, versions'[k] # None
        PROVE  key'[versions'[k]] = k
    <3>1. /\ key' = key
          /\ versions \in [Identity -> Run \cup {None}]
          /\ versions[k] # None => key[versions[k]] = k
      BY <1>1, RunTypes DEF IInv, TypeOK, RInv, Lineage
    <3>2. versions' = versions \/ versions' = [versions EXCEPT ![key[r]] = r]
      BY <1>1, TablesMove
    <3> QED BY <2>5, <3>1, <3>2
  <2> QED BY <2>1, <2>3, <2>4, <2>5 DEF RInv, Lineage
<1>2. CASE UNCHANGED vars
  <2> USE <1>2 DEF vars, directory, process, bounds
  <2>1. /\ \A ref : Follows(ref)' <=> Follows(ref)
        /\ \A r \in Run : Seen(r)' = Seen(r) /\ Own(r)' = Own(r)
        /\ \A ref : Whole(ref)' <=> Whole(ref)
    BY DEF Follows, Recorded, Seen, Own, Whole
  <2>2. Active' = Active
    BY DEF Active, Swapper, Lost, Recorded, Own
  <2>3. EverActive' = EverActive
    BY <2>2 DEF EverActive, ActiveRun, Recorded, Own
  <2>4. ASSUME NEW r \in Run
        PROVE  /\ PlannedOK(r) => PlannedOK(r)'
               /\ ActivationOK(r) => ActivationOK(r)'
               /\ BackupOK(r) => BackupOK(r)'
    <3>1. PlannedOK(r) => PlannedOK(r)'
      BY <2>3 DEF PlannedOK, Seen, Whole
    <3>2. ActivationOK(r) => ActivationOK(r)'
      BY DEF ActivationOK, Seen, Recorded
    <3>3. BackupOK(r) => BackupOK(r)'
      BY DEF BackupOK, Follows, Recorded, Own
    <3> QED BY <3>1, <3>2, <3>3
  <2>5. SettledOK'
    BY <2>3 DEF RInv, SettledOK, Settled
  <2> QED BY <2>4, <2>5 DEF RInv, Lineage
<1> QED BY <1>1, <1>2 DEF Next, Moves

(* Nothing was published at first.                                         *)
LEMMA NothingPublished ==
  ASSUME Init
  PROVE  RInv /\ Active = None /\ EverActive = {}
<1>1. Recorded = {} /\ Swapper = {} /\ Lost = {}
  BY DEF Init, Recorded, Swapper, Swapping, Lost
<1>2. Active = None
  BY <1>1 DEF Active, Init
<1>3. EverActive = {}
  BY <1>1, <1>2, NoneAssumption DEF EverActive, ActiveRun
<1>4. ASSUME NEW r \in Run
      PROVE  PlannedOK(r) /\ ActivationOK(r) /\ BackupOK(r)
  BY DEF Init, PlannedOK, ActivationOK, BackupOK, Within, Building, Promoting, Swapping
<1>5. Lineage
  BY <1>4 DEF Init, Lineage
<1>6. SettledOK
  BY <1>3 DEF Init, SettledOK
<1> QED BY <1>2, <1>3, <1>5, <1>6 DEF RInv

(* The third inductive invariant: while at most two calls have failed,     *)
(* each activation follows what its run was planned on, what is set aside  *)
(* is accounted for, and the runs that were ever active are those that     *)
(* published or were killed when they had.                                 *)
THEOREM RegisterInvariance == Spec => [](IInv /\ KInv /\ (faults <= 2 => RInv))
<1>1. Init => RInv
  BY NothingPublished
<1>2. ASSUME IInv, KInv, faults <= 2 => RInv, IInv', [Next]_vars, faults' <= 2
      PROVE  RInv'
  <2>1. faults <= 2
    <3>1. faults \in Nat /\ faults' \in Nat
      BY <1>2, BoundsAssumption DEF IInv, TypeOK
    <3>2. faults' >= faults
      <4>1. UNCHANGED vars \/ \E r \in Run : Moves(r)
        BY <1>2 DEF Next, Moves
      <4>2. UNCHANGED vars => faults' = faults
        BY DEF vars, bounds
      <4> QED BY <1>2, <3>1, <4>1, <4>2, BoundTypes
    <3> QED BY <1>2, <3>1, <3>2
  <2> QED BY <1>2, <2>1, RegisterKept
<1>3. IInv /\ KInv /\ (faults <= 2 => RInv) /\ IInv' /\ [Next]_vars => (faults <= 2 => RInv)'
  BY <1>2
<1> QED BY <1>1, <1>3, KeptInvariance, PTL DEF Spec

(* Where a publication becomes the active one, the register publishes.     *)
LEMMA RegisterPublishes ==
  ASSUME IInv, KInv, RInv, IInv', RInv', faults' <= 2, NEW r \in Run, Moves(r), Publishes(r)
  PROVE  Register!Publish(r)
<1>1. BackupsOK'
  BY DEF RInv, Lineage, BackupsOK
<1>2. /\ at[r] \in Promoting /\ Active = Seen(r) /\ Active' = Own(r)
      /\ EverActive' = EverActive \cup {r} /\ r \notin EverActive
  BY <1>1, PublishStep, EverStep
<1>3. /\ run[r] # None /\ Seen(r) \in Reference \cup {None}
      /\ Seen(r) # None => Seen(r) = Own(Seen(r).run)
  BY <1>2, PromoterKnows DEF RInv
<1>4. answer[r] = None
  BY <1>2 DEF RInv, Lineage, PlannedOK, Promoting, Swapping
<1>5. UNCHANGED <<key, answer>>
  BY RunTypes DEF Publishes, RenameDraft, Discard, Kill
<1>6. MayFollow(key[r], run[r].lastKnownGood)
  BY <1>2, RunAt
<1>7. ActiveRun' = r
  BY <1>2, <1>5, NullAssumption DEF ActiveRun, Own, Ref, Reference, IInv, TypeOK
<1>8. PlanCode(key[r], Register!Shown) = "RUN_PLANNED"
  <2>1. CASE Seen(r) = None
    <3>1. ActiveRun = None
      BY <1>2, <2>1 DEF ActiveRun
    <3>2. Register!Shown = None
      BY <3>1 DEF Register!Shown
    <3> QED BY <3>2 DEF PlanCode, Older, Conflicting
  <2>2. CASE Seen(r) # None
    <3>1. run[r].lastKnownGood # None
      BY <2>2 DEF Seen
    <3>2. Seen(r) = Ref(run[r].lastKnownGood.key, run[r].lastKnownGood.run)
      BY <3>1 DEF Seen
    <3>3. ActiveRun = Seen(r).run /\ ActiveRun # None
      BY <1>2, <1>3, <2>2, NoneAssumption DEF ActiveRun, Reference
    <3>4. key[ActiveRun] = Seen(r).key /\ Seen(r).key = run[r].lastKnownGood.key
      <4>1. key[Seen(r).run] = Seen(r).key
        BY <1>3, <2>2 DEF Own, Ref
      <4> QED BY <3>2, <3>3, <4>1 DEF Ref
    <3>5. /\ Register!Shown = [key |-> key[ActiveRun], bundle |-> TheDigest, run |-> ActiveRun]
          /\ Register!Shown.key = run[r].lastKnownGood.key
      BY <3>3, <3>4 DEF Register!Shown, TheDigest
    <3>6. PlanCode(key[r], run[r].lastKnownGood) = "RUN_PLANNED"
      BY <1>6 DEF MayFollow
    <3> QED BY <3>1, <3>5, <3>6 DEF PlanCode, Older, Conflicting
  <2> QED BY <2>1, <2>2
<1>9. Register!PlanCode(key[r], Register!Shown) = PlanCode(key[r], Register!Shown)
  BY DEF Register!PlanCode, Register!Older, Register!Conflicting, PlanCode, Older, Conflicting
<1> QED BY <1>2, <1>4, <1>5, <1>7, <1>8, <1>9 DEF Register!Publish

(* What a caller is told is what the register may answer.                  *)
LEMMA RegisterAnswers ==
  ASSUME IInv, KInv, RInv, IInv', RInv', faults' <= 2, NEW r \in Run, Report(r)
  PROVE  Register!Answer(r)
<1>1. /\ at[r] = "release" /\ answer' = [answer EXCEPT ![r] = Told(r)] /\ key' = key
      /\ RunOK(r) /\ PlannedOK(r)
  BY DEF Report, IInv, RInv, Lineage
<1>2. answer[r] = None
  BY <1>1 DEF PlannedOK
<1>3. ActiveRun' = ActiveRun /\ EverActive' = EverActive
  <2>1. ~Publishes(r)
    BY <1>1 DEF Publishes, RenameDraft, Discard
  <2>2. Moves(r)
    BY DEF Moves, Step
  <2>3. BackupsOK'
    BY DEF RInv, Lineage, BackupsOK
  <2>4. Active' = Active /\ EverActive' = EverActive
    BY <2>1, <2>2, <2>3, EverStep
  <2> QED BY <2>4 DEF ActiveRun
<1>4. ASSUME run[r] # None, run[r].state = "DUPLICATE"
      PROVE  r \notin EverActive /\ \E s \in EverActive : key[s] = key[r]
  <2>1. r \notin EverActive
    BY <1>1, <1>4 DEF RInv, SettledOK, Settled
  <2>2. /\ Seen(r) # None /\ Seen(r).key = key[r]
        /\ Whole(Seen(r)) /\ Seen(r).run \in EverActive
    BY <1>1, <1>4 DEF PlannedOK
  <2>3. Seen(r) \in Reference
    <3>1. run[r].lastKnownGood # None
      BY <2>2 DEF Seen
    <3>2. run[r].lastKnownGood \in Publication
      BY <1>4, <3>1 DEF IInv, TypeOK, RunRecord
    <3> QED BY <3>1, <3>2 DEF Seen, Ref, Reference, Publication
  <2>4. Seen(r) = Own(Seen(r).run)
    BY <2>2, <2>3, WholeIsOwn DEF RInv
  <2>5. key[Seen(r).run] = key[r]
    BY <2>2, <2>4 DEF Own, Ref
  <2> QED BY <2>1, <2>2, <2>5
<1>5. CASE failure[r] # None
  <2>1. ~Settled(r)
    <3>1. \/ run[r] = None
          \/ run[r].state = (IF failure[r] \in BlockedCode THEN "BLOCKED" ELSE "FAILED")
          \/ run[r].state = "DUPLICATE"
      BY <1>1, <1>5 DEF RunOK, UnrecordedDuplicate
    <3> QED BY <1>1, <3>1 DEF Settled
  <2>2. r \notin EverActive
    BY <2>1 DEF RInv, SettledOK
  <2>3. Told(r) \in {"failed", "blocked"}
    BY <1>5 DEF Told, Disposition
  <2> QED BY <1>1, <1>2, <1>3, <2>2, <2>3 DEF Register!Answer
<1>6. CASE failure[r] = None
  <2>1. run[r] # None /\ run[r].state \in {"PUBLISHED", "DUPLICATE"}
    BY <1>1, <1>6 DEF RunOK
  <2>2. run[r].state = "PUBLISHED" => r \in EverActive
    BY <2>1 DEF RInv, SettledOK
  <2>3. CASE "lock" \in unclean[r]
    <3>1. Told(r) = "unreleased"
      BY <1>6, <2>3 DEF Told
    <3>2. \E s \in EverActive : key[s] = key[r]
      BY <1>4, <2>1, <2>2
    <3> QED BY <1>1, <1>2, <1>3, <3>1, <3>2 DEF Register!Answer, Register!SamePublished
  <2>4. CASE "lock" \notin unclean[r] /\ run[r].state = "DUPLICATE"
    <3>1. Told(r) = "duplicate"
      BY <1>6, <2>4 DEF Told
    <3> QED BY <1>1, <1>2, <1>3, <1>4, <2>1, <2>4, <3>1 DEF Register!Answer, Register!SamePublished
  <2>5. CASE "lock" \notin unclean[r] /\ run[r].state = "PUBLISHED"
    <3>1. Told(r) = "promoted"
      BY <1>6, <2>5 DEF Told
    <3> QED BY <1>1, <1>2, <1>3, <2>2, <2>5, <3>1 DEF Register!Answer
  <2> QED BY <2>1, <2>3, <2>4, <2>5
<1> QED BY <1>5, <1>6

(* Every step of the runner is one of the register, or changes nothing it  *)
(* shows.                                                                  *)
LEMMA RegisterStep ==
  ASSUME IInv, KInv, RInv, IInv', RInv', faults' <= 2, [Next]_vars
  PROVE  [Register!Next]_Register!vars
<1>1. ASSUME NEW r \in Run, Moves(r)
      PROVE  [Register!Next]_Register!vars
  <2>1. CASE Publishes(r)
    BY <1>1, <2>1, RegisterPublishes DEF Register!Next
  <2>2. CASE Report(r)
    BY <2>2, RegisterAnswers DEF Register!Next
  <2>3. CASE ~Publishes(r) /\ ~Report(r)
    <3>1. BackupsOK'
      BY DEF RInv, Lineage, BackupsOK
    <3>2. Active' = Active /\ EverActive' = EverActive
      BY <1>1, <2>3, <3>1, EverStep
    <3>3. ActiveRun' = ActiveRun
      BY <3>2 DEF ActiveRun
    <3>4. key' = key
      BY <1>1, RunTypes
    <3>5. answer' = answer
      BY <1>1, <2>3
      DEF Moves, Begin, Step, Kill, ClearLocks, process, TakeLock, TakeLockFails, UndoLock, PlanRun,
          CheckLedger, ReadFails, StartExtract, MarkDuplicate, Extract, Profile, Validate, BuildFails,
          Prepare, PrepareFails, Sweep, Promote, PromoteFails, WriteDraft, RenameDraft, RenameFails,
          SetAside, Replace, BringBack, Discard, Withdraw, DropDraft, RecordFailure, CleanWorkspace,
          CleanPending, Release
    <3> QED BY <3>2, <3>3, <3>4, <3>5 DEF Register!vars
  <2> QED BY <2>1, <2>2, <2>3
<1>2. CASE UNCHANGED vars
  <2>1. Active' = Active
    BY <1>2 DEF vars, directory, process, bounds, Active, Swapper, Lost, Recorded, Own
  <2>2. ActiveRun' = ActiveRun /\ EverActive' = EverActive
    BY <1>2, <2>1 DEF vars, directory, process, bounds, EverActive, ActiveRun, Recorded, Own
  <2> QED BY <1>2, <2>2 DEF vars, directory, process, bounds, Register!vars
<1> QED BY <1>1, <1>2 DEF Next, Moves

(* Replays into one state directory implement the register, as long as at  *)
(* most two calls have failed and whatever is killed or cleared: one       *)
(* publication counts at every instant, it is replaced in an instant by    *)
(* one that may follow it, once per run and before its caller is answered, *)
(* and the answer agrees with what became of the snapshot.                 *)
THEOREM RegisterIsImplemented == Spec /\ [](faults <= 2) => ImplementsRegister
<1>1. Init => Register!Init
  <2> SUFFICES ASSUME Init PROVE Register!Init
    OBVIOUS
  <2>1. Active = None /\ EverActive = {}
    BY NothingPublished
  <2>2. ActiveRun = None
    BY <2>1 DEF ActiveRun
  <2> QED BY <2>1, <2>2 DEF Init, Register!Init
<1>2. IInv /\ KInv /\ RInv /\ IInv' /\ RInv' /\ (faults <= 2)' /\ [Next]_vars => [Register!Next]_Register!vars
  BY RegisterStep
<1> QED BY <1>1, <1>2, RegisterInvariance, PTL DEF Spec, ImplementsRegister, Register!Spec
=============================================================================
