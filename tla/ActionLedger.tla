---------------------------- MODULE ActionLedger ----------------------------
(***************************************************************************)
(* The GRH action ledger of one tenant: the store functions                *)
(* createCommitment and transitionCommitment of                            *)
(* api/lib/grh-action-ledger-store.js together with the PostgreSQL         *)
(* transactions they run on the tables of                                  *)
(* prisma/migrations/20260811190000_grh_action_ledger.                     *)
(*                                                                         *)
(* A call in progress has two halves that fail independently: pc is where  *)
(* the JavaScript function stands, tx is where its database session        *)
(* stands.  A session whose COMMIT was sent goes on without its caller.    *)
(* What a transaction wrote becomes visible, all at once, in Commit.       *)
(***************************************************************************)
EXTENDS LedgerRules, FiniteSets

CONSTANTS
  Proc,            \* slots for concurrent calls (serverless invocations)
  MaxDay,          \* the last day the model's clock reaches
  MaxCommitments   \* MAX_COMMITMENTS (100 in the code)

ASSUME SizeAssumption ==
  MaxDay \in Nat /\ MaxCommitments \in Nat \ {0} /\ IsFiniteSet(CommitmentId)

VARIABLES
  row,      \* the table grh_action_commitments, by id (version 0: no row)
  events,   \* the table grh_action_commitment_events, in sequence, by commitment
  today,    \* the day of the clock the store and the database share
  pc,       \* where each call stands
  tx,       \* where its database session stands
  req,      \* its request
  began,    \* the day its transaction began: CURRENT_TIMESTAMP of what it writes
  past,     \* dueOnIsPast, as normalization computed it
  snap,     \* version of the target row in the snapshot (0: no row)
  conflict, \* the transaction failed with P2034
  reply,    \* what the call answered
  known,    \* history: the very request was recorded when the call arrived
  effect    \* history: the transaction of this call has committed

vars == <<row, events, today, pc, tx, req, began, past, snap, conflict, reply, known, effect>>
tables == <<row, events>>
callVars == <<req, began, past, known>>

Success == {"created", "transitioned", "replayed"}
Refusal == {"INPUT_INVALID", "COMMITMENT_ALREADY_EXISTS", "CAPACITY_REACHED", "COMMAND_COLLISION",
            "VERSION_CONFLICT", "COMMITMENT_NOT_FOUND", "TRANSITION_INVALID",
            "ASSIGNEE_ROLE_DENIED", "OWNERSHIP_DENIED"}
Reply == Success \cup Refusal \cup {"DATA_INVALID", "DATABASE_UNAVAILABLE"}

Present(c) == row[c].version # 0

-----------------------------------------------------------------------------
(* What the queries of the store read. *)

\* commandRows: the event of the tenant with this command id
Recorded(id) == \E c \in CommitmentId : \E i \in DOMAIN events[c] : events[c][i].req.id = id
RecordedAs(r) == \E c \in CommitmentId : \E i \in DOMAIN events[c] : events[c][i].req = r

\* Mutant of EvidenceTaken: a canceled commitment frees its evidence.
EvidenceTakenLive(e) == \E c \in CommitmentId : row[c].state \in Live /\ row[c].evidence = e

\* sourceRows, and the unique index on the same columns: a commitment for the
\* same evidence and priority
EvidenceTaken(e) == \E c \in CommitmentId : Present(c) /\ row[c].evidence = e

\* tenantCommitmentCountRows
Count == Cardinality({c \in CommitmentId : Present(c)})

\* Mutant of ReplayReply: the payload digest is not compared.
ReplayReplyById(r) == IF Recorded(r.id) THEN "replayed" ELSE "none"

\* replayRowOrCollision followed by commitmentWithEvents; "none" when no event
\* has the command id
ReplayReply(r) ==
  IF ~Recorded(r.id) THEN "none"
  ELSE IF ~RecordedAs(r) THEN "COMMAND_COLLISION"
  ELSE IF \E c \in CommitmentId : /\ Len(events[c]) > MaxEvents
                                  /\ \E i \in DOMAIN events[c] : events[c][i].req = r
       THEN "DATA_INVALID"
  ELSE "replayed"

-----------------------------------------------------------------------------
(* The decisions of the store. *)

\* The dates and the creator's role, rejected before any query.
Refused(r) ==
  IF IsCreate(r)
  THEN \/ r.role # "INTENDENTE"
       \/ AsOf[r.evidence] > today
       \/ r.due > today + Horizon
       \/ r.due < AsOf[r.evidence]
  ELSE r.command = "reschedule" /\ r.due > today + Horizon

PastDue(r) == r.command \in {"create", "reschedule"} /\ r.due < today

\* Mutant of CreateReply: the date is judged before the replay is looked for.
CreateReplyDateFirst(r, isPast) ==
  IF isPast THEN "INPUT_INVALID"
  ELSE IF ReplayReply(r) # "none" THEN ReplayReply(r)
  ELSE IF EvidenceTaken(r.evidence) THEN "COMMITMENT_ALREADY_EXISTS"
  ELSE IF Count >= MaxCommitments THEN "CAPACITY_REACHED"
  ELSE "none"

\* Mutant of CreateReply: off by one, room for one commitment too many.
CreateReplyOneMore(r, isPast) ==
  IF ReplayReply(r) # "none" THEN ReplayReply(r)
  ELSE IF isPast THEN "INPUT_INVALID"
  ELSE IF EvidenceTaken(r.evidence) THEN "COMMITMENT_ALREADY_EXISTS"
  ELSE IF Count > MaxCommitments THEN "CAPACITY_REACHED"
  ELSE "none"

\* createCommitment under the tenant lock, in the order of its early returns
CreateReply(r, isPast) ==
  IF ReplayReply(r) # "none" THEN ReplayReply(r)
  ELSE IF isPast THEN "INPUT_INVALID"
  ELSE IF EvidenceTaken(r.evidence) THEN "COMMITMENT_ALREADY_EXISTS"
  ELSE IF Count >= MaxCommitments THEN "CAPACITY_REACHED"
  ELSE "none"

-----------------------------------------------------------------------------
(* Who waits for whom in the database. *)

\* Mutant of TenantLockable: the tenant row is read without FOR UPDATE.
TenantUnlocked == TRUE

\* A create holds the tenant row FOR UPDATE from its first query to the end of
\* its session; a transition holds it FOR KEY SHARE once the foreign key of its
\* event was checked.  The first excludes both; the second only the first.
HoldsTenant(q) == tx[q] \in {"tenant", "written"} /\ IsCreate(req[q])
TenantLockable == \A q \in Proc : ~HoldsTenant(q) /\ tx[q] # "written"
TenantShareable(p) == \A q \in Proc \ {p} : ~HoldsTenant(q)

\* Mutant of HoldsRow: the first query already locks, shared, what the second
\* locks exclusively.
HoldsRowFromSnapshot(q, c) ==
  tx[q] \in {"snapshot", "row", "entered", "written"} /\ ~IsCreate(req[q]) /\ req[q].commitment = c

\* lockedCommitmentRows takes the row FOR UPDATE until the session ends
HoldsRow(q, c) == tx[q] \in {"row", "entered", "written"} /\ ~IsCreate(req[q]) /\ req[q].commitment = c
RowLockable(c) == \A q \in Proc : ~HoldsRow(q, c)

\* an open session whose event has its entry in the index (tenant_id, command_id)
HoldsEntry(q, id) == tx[q] \in {"entered", "written"} /\ req[q].id = id

\* Mutant of CommandInsertable: the index is unique within a commitment only.
CommandInsertableThere(p) ==
  /\ \A c \in CommitmentId \cap {req[p].commitment} :
       \A i \in DOMAIN events[c] : events[c][i].req.id # req[p].id
  /\ \A q \in Proc \ {p} : ~(HoldsEntry(q, req[p].id) /\ req[q].commitment = req[p].commitment)

\* An insertion waits for another open insertion of the same command id, and
\* the unique index refuses one that is committed.
CommandInsertable(p) ==
  /\ ~Recorded(req[p].id)
  /\ \A q \in Proc \ {p} : ~HoldsEntry(q, req[p].id)

\* The one cycle these waits can close: a create holds the tenant row and waits
\* for the index entry of a transition with its command id, which waits for the
\* tenant row.
InCycle(create, transition) ==
  /\ tx[create] = "tenant" /\ tx[transition] = "entered"
  /\ req[create].id = req[transition].id
Deadlocked(p) == \E q \in Proc : InCycle(p, q) \/ InCycle(q, p)

-----------------------------------------------------------------------------
(* The steps of a call. *)

Init ==
  /\ row = [c \in CommitmentId |-> NoRow]
  /\ events = [c \in CommitmentId |-> << >>]
  /\ today = 0
  /\ pc = [p \in Proc |-> "idle"]
  /\ tx = [p \in Proc |-> "none"]
  /\ req = [p \in Proc |-> CHOOSE r \in Request : TRUE]
  /\ began = [p \in Proc |-> 0]
  /\ past = [p \in Proc |-> FALSE]
  /\ snap = [p \in Proc |-> 0]
  /\ conflict = [p \in Proc |-> FALSE]
  /\ reply = [p \in Proc |-> "none"]
  /\ known = [p \in Proc |-> FALSE]
  /\ effect = [p \in Proc |-> FALSE]

\* The endpoint lists before it calls transitionCommitment and answers 404 for a
\* commitment the list lacks.  It compares no version: a caller may quote one
\* that does not exist yet.
Listed(r) == IF IsCreate(r) THEN TRUE ELSE Present(r.commitment)

Answer(p, answer) ==
  /\ pc' = [pc EXCEPT ![p] = "answered"]
  /\ reply' = [reply EXCEPT ![p] = answer]

\* The store is called: the input is normalized and, if it is not refused, the
\* transaction opened with BEGIN.  Its first query comes in a later step.
Call(p, r) ==
  /\ pc[p] = "idle" /\ tx[p] = "none" /\ Listed(r)
  /\ req' = [req EXCEPT ![p] = r]
  /\ began' = [began EXCEPT ![p] = today]
  /\ past' = [past EXCEPT ![p] = PastDue(r)]
  /\ known' = [known EXCEPT ![p] = RecordedAs(r)]
  /\ effect' = [effect EXCEPT ![p] = FALSE]
  /\ \/ Refused(r) /\ Answer(p, "INPUT_INVALID")
     \/ ~Refused(r) /\ pc' = [pc EXCEPT ![p] = "called"] /\ UNCHANGED reply
  /\ UNCHANGED <<tables, today, tx, snap, conflict>>

\* createCommitment locks the tenant row, runs its checks, which only another
\* create could disturb, and inserts the commitment.
CreateLock(p) ==
  /\ pc[p] = "called" /\ IsCreate(req[p]) /\ TenantLockable
  /\ LET refusal == CreateReply(req[p], past[p]) IN
       \/ /\ refusal # "none"
          /\ Answer(p, refusal)
          /\ UNCHANGED tx
       \/ /\ refusal = "none"
          /\ pc' = [pc EXCEPT ![p] = "inTx"]
          /\ tx' = [tx EXCEPT ![p] = "tenant"]
          /\ UNCHANGED reply
  /\ UNCHANGED <<tables, today, callVars, snap, conflict, effect>>

\* insertEvent: the entry in the command index, then the foreign keys, which
\* the locks the session holds already cover.
CreateWrite(p) ==
  /\ pc[p] = "inTx" /\ tx[p] = "tenant" /\ CommandInsertable(p)
  /\ tx' = [tx EXCEPT ![p] = "written"]
  /\ UNCHANGED <<tables, today, pc, callVars, snap, conflict, reply, effect>>

\* The first query of transitionCommitment takes the snapshot of its
\* Serializable transaction and looks for a replay in it.
TransitionSnapshot(p) ==
  /\ pc[p] = "called" /\ ~IsCreate(req[p])
  /\ LET replay == ReplayReply(req[p]) IN
       \/ /\ replay # "none" \/ past[p]
          /\ Answer(p, IF replay # "none" THEN replay ELSE "INPUT_INVALID")
          /\ UNCHANGED <<tx, snap>>
       \/ /\ replay = "none" /\ ~past[p]
          /\ pc' = [pc EXCEPT ![p] = "inTx"]
          /\ tx' = [tx EXCEPT ![p] = "snapshot"]
          /\ snap' = [snap EXCEPT ![p] = row[req[p].commitment].version]
          /\ UNCHANGED reply
  /\ UNCHANGED <<tables, today, callVars, conflict, effect>>

\* SELECT ... FOR UPDATE: a row the snapshot does not hold is not found, a row
\* changed since is a serialization failure (only Abort is left to the call).
TransitionLock(p) ==
  LET c == req[p].commitment IN
  /\ pc[p] = "inTx" /\ tx[p] = "snapshot"
  /\ snap[p] = 0 \/ (RowLockable(c) /\ row[c].version = snap[p])
  /\ LET refusal == IF snap[p] = 0 THEN "COMMITMENT_NOT_FOUND" ELSE TransitionReply(row[c], req[p]) IN
       \/ /\ refusal # "none"
          /\ Answer(p, refusal)
          /\ tx' = [tx EXCEPT ![p] = "none"]
       \/ /\ refusal = "none"
          /\ tx' = [tx EXCEPT ![p] = "row"]
          /\ UNCHANGED <<pc, reply>>
  /\ UNCHANGED <<tables, today, callVars, snap, conflict, effect>>

\* updateCommitment, and insertEvent up to its entry in the command index.
TransitionEnter(p) ==
  /\ pc[p] = "inTx" /\ tx[p] = "row" /\ CommandInsertable(p)
  /\ tx' = [tx EXCEPT ![p] = "entered"]
  /\ UNCHANGED <<tables, today, pc, callVars, snap, conflict, reply, effect>>

\* insertEvent ends with its foreign keys, the tenant's among them; then the
\* read-back of the timeline, which rolls everything back when it is too long.
TransitionWrite(p) ==
  /\ pc[p] = "inTx" /\ tx[p] = "entered" /\ TenantShareable(p)
  /\ \/ /\ Len(events[req[p].commitment]) >= MaxEvents
        /\ Answer(p, "DATA_INVALID")
        /\ tx' = [tx EXCEPT ![p] = "none"]
     \/ /\ Len(events[req[p].commitment]) < MaxEvents
        /\ tx' = [tx EXCEPT ![p] = "written"]
        /\ UNCHANGED <<pc, reply>>
  /\ UNCHANGED <<tables, today, callVars, snap, conflict, effect>>

\* The database makes the writes of p's session visible.
Commit(p) ==
  /\ tx[p] = "written"
  /\ LET r == req[p] IN
       \E c \in CommitmentId :
         /\ IF IsCreate(r) THEN ~Present(c) ELSE c = r.commitment
         /\ row' = [row EXCEPT ![c] = IF IsCreate(r) THEN NewRow(r) ELSE UpdatedRow(@, r)]
         /\ events' = [events EXCEPT ![c] = Append(@, NewEvent(r, row[c], began[p]))]
  /\ tx' = [tx EXCEPT ![p] = "none"]
  /\ effect' = [effect EXCEPT ![p] = TRUE]

CommitAnswered(p) ==
  /\ pc[p] = "inTx"
  /\ Commit(p)
  /\ Answer(p, IF IsCreate(req[p]) THEN "created" ELSE "transitioned")
  /\ UNCHANGED <<today, callVars, snap, conflict>>

\* COMMIT succeeds but its acknowledgement does not reach the store.
CommitUnheard(p) ==
  /\ pc[p] = "inTx"
  /\ Commit(p)
  /\ pc' = [pc EXCEPT ![p] = "recovering"]
  /\ conflict' = [conflict EXCEPT ![p] = FALSE]
  /\ UNCHANGED <<today, callVars, snap, reply>>

\* The connection fails while COMMIT is on its way: the store recovers, the
\* database will still commit (CommitOrphan) or roll back (Rollback).
Disconnect(p) ==
  /\ pc[p] = "inTx" /\ tx[p] = "written"
  /\ pc' = [pc EXCEPT ![p] = "recovering"]
  /\ conflict' = [conflict EXCEPT ![p] = FALSE]
  /\ UNCHANGED <<tables, today, tx, callVars, snap, reply, effect>>

CommitOrphan(p) ==
  /\ pc[p] # "inTx"
  /\ Commit(p)
  /\ UNCHANGED <<today, pc, callVars, snap, conflict, reply>>

Rollback(p) ==
  /\ pc[p] # "inTx" /\ tx[p] = "written"
  /\ tx' = [tx EXCEPT ![p] = "none"]
  /\ UNCHANGED <<tables, today, pc, callVars, snap, conflict, reply, effect>>

\* Any database error that ends the transaction without effect: a write
\* conflict Prisma reports as P2034, a unique violation, a deadlock, maxWait or
\* the timeout of transactionOptions, no connection.
Abort(p) ==
  /\ pc[p] \in {"called", "inTx"}
  /\ pc' = [pc EXCEPT ![p] = "recovering"]
  /\ tx' = [tx EXCEPT ![p] = "none"]
  /\ \E isP2034 \in BOOLEAN : conflict' = [conflict EXCEPT ![p] = isP2034]
  /\ UNCHANGED <<tables, today, callVars, snap, reply, effect>>

\* Mutant of FinalReply: any failed transaction is called a conflict.
FinalReplyConflict(p) == "VERSION_CONFLICT"

FinalReply(p) == IF conflict[p] THEN "VERSION_CONFLICT" ELSE "DATABASE_UNAVAILABLE"

\* recoverCreateRace and recoverTransitionRace: was the command recorded after
\* all?  A read that fails answers DATABASE_UNAVAILABLE.
RecoverCommand(p) ==
  /\ pc[p] = "recovering"
  /\ LET replay == ReplayReply(req[p]) IN
       \/ replay # "none" /\ Answer(p, replay)
       \/ replay = "none" /\ ~IsCreate(req[p]) /\ Answer(p, FinalReply(p))
       \/ /\ replay = "none" /\ IsCreate(req[p])
          /\ pc' = [pc EXCEPT ![p] = "recoveringSource"]
          /\ UNCHANGED reply
       \/ Answer(p, "DATABASE_UNAVAILABLE")
  /\ UNCHANGED <<tables, today, tx, callVars, snap, conflict, effect>>

\* recoverCreateRace goes on, in a second read outside any transaction.
RecoverSource(p) ==
  /\ pc[p] = "recoveringSource"
  /\ \/ EvidenceTaken(req[p].evidence) /\ Answer(p, "COMMITMENT_ALREADY_EXISTS")
     \/ ~EvidenceTaken(req[p].evidence) /\ Answer(p, FinalReply(p))
     \/ Answer(p, "DATABASE_UNAVAILABLE")
  /\ UNCHANGED <<tables, today, tx, callVars, snap, conflict, effect>>

\* The answer leaves the store and the slot is free again.
Return(p) ==
  /\ pc[p] = "answered"
  /\ pc' = [pc EXCEPT ![p] = "idle"]
  /\ reply' = [reply EXCEPT ![p] = "none"]
  /\ snap' = [snap EXCEPT ![p] = 0]
  /\ conflict' = [conflict EXCEPT ![p] = FALSE]
  /\ UNCHANGED <<tables, today, tx, callVars, effect>>

\* The serverless process is stopped.  Its session is rolled back unless the
\* COMMIT was already on its way.
Die(p) ==
  /\ pc[p] # "idle"
  /\ pc' = [pc EXCEPT ![p] = "idle"]
  /\ tx' = [tx EXCEPT ![p] = IF @ = "written" THEN @ ELSE "none"]
  /\ reply' = [reply EXCEPT ![p] = "none"]
  /\ snap' = [snap EXCEPT ![p] = 0]
  /\ conflict' = [conflict EXCEPT ![p] = FALSE]
  /\ UNCHANGED <<tables, today, callVars, effect>>

NextDay ==
  /\ today < MaxDay
  /\ today' = today + 1
  /\ UNCHANGED <<tables, pc, tx, callVars, snap, conflict, reply, effect>>

Step(p) ==
  \/ CreateLock(p)
  \/ CreateWrite(p)
  \/ TransitionSnapshot(p)
  \/ TransitionLock(p)
  \/ TransitionEnter(p)
  \/ TransitionWrite(p)
  \/ CommitAnswered(p)
  \/ CommitUnheard(p)
  \/ Disconnect(p)
  \/ CommitOrphan(p)
  \/ Rollback(p)
  \/ Abort(p)
  \/ RecoverCommand(p)
  \/ RecoverSource(p)
  \/ Return(p)

Next ==
  \/ \E p \in Proc : \E r \in Request : Call(p, r)
  \/ \E p \in Proc : Step(p)
  \/ \E p \in Proc : Die(p)
  \/ NextDay

Spec == Init /\ [][Next]_vars

\* An error the database raises of its own accord: the row changed since the
\* snapshot, the command id is already in the unique index, or the deadlock
\* detector (deadlock_timeout) picks a session of the cycle.
MustAbort(p) ==
  \/ tx[p] = "snapshot" /\ snap[p] # 0 /\ row[req[p].commitment].version # snap[p]
  \/ tx[p] \in {"tenant", "row"} /\ Recorded(req[p].id)
  \/ Deadlocked(p)

\* Fairness: the database serves lock waits in turn (SF); the event loop goes on,
\* the database raises its own errors and ends every session whose COMMIT was
\* sent (WF).  No timeout of transactionOptions is assumed to fire.
ServedInTurn(p) ==
  \/ CreateLock(p)
  \/ CreateWrite(p)
  \/ TransitionLock(p)
  \/ TransitionEnter(p)
  \/ TransitionWrite(p)

GoesOn(p) ==
  \/ TransitionSnapshot(p)
  \/ MustAbort(p) /\ Abort(p)
  \/ CommitAnswered(p)
  \/ CommitOrphan(p)
  \/ Rollback(p)
  \/ RecoverCommand(p)
  \/ RecoverSource(p)
  \/ Return(p)

Fairness == \A p \in Proc : SF_vars(ServedInTurn(p)) /\ WF_vars(GoesOn(p))

FairSpec == Spec /\ Fairness

-----------------------------------------------------------------------------
(* Properties. *)

\* Every variable keeps its type.
TypeOK ==
  /\ row \in [CommitmentId -> Row]
  /\ events \in [CommitmentId -> Seq(Event)]
  /\ today \in 0 .. MaxDay
  /\ pc \in [Proc -> {"idle", "called", "inTx", "recovering", "recoveringSource", "answered"}]
  /\ tx \in [Proc -> {"none", "tenant", "snapshot", "row", "entered", "written"}]
  /\ req \in [Proc -> Request]
  /\ began \in [Proc -> 0 .. MaxDay]
  /\ past \in [Proc -> BOOLEAN]
  /\ snap \in [Proc -> Nat]
  /\ conflict \in [Proc -> BOOLEAN]
  /\ reply \in [Proc -> Reply \cup {"none"}]
  /\ known \in [Proc -> BOOLEAN]
  /\ effect \in [Proc -> BOOLEAN]

\* Whatever calls race, fail and are retried, each row and its timeline satisfy
\* what the inspector of every list demands of them, the order in time apart: one
\* that did not would turn each later GET, POST and PATCH of the tenant into a
\* 503, for good.  And the checks of the store alone keep them within the CHECK
\* constraints of the tables, which never turn a call into a 503 either.
RecordsAreAccepted ==
  \A c \in CommitmentId : Present(c) =>
    /\ InspectTimeline(row[c], events[c])
    /\ RowCheck(row[c]) /\ \A i \in DOMAIN events[c] : EventCheck(events[c][i])

\* The inspector also demands that a timeline never goes back in time
\* (api/lib/grh-action-ledger-contract.js:317-319).  An event carries the instant
\* its transaction began, and a caller may quote a version that another call,
\* begun later, is about to record.
TimelinesRise == \A c \in CommitmentId : TimesRise(events[c])

\* A command takes effect at most once, in one commitment: retries, twins in
\* flight and sessions that outlive their caller never repeat it.
CommandAppliedOnce ==
  \A c, d \in CommitmentId : \A i \in DOMAIN events[c] : \A j \in DOMAIN events[d] :
    events[c][i].req.id = events[d][j].req.id => c = d /\ i = j

\* Concurrent creates never exceed the capacity of the tenant, which listing
\* answers with DATA_INVALID.
CapacityRespected == Count <= MaxCommitments

\* The same evidence and priority is never committed to twice; the projection
\* rejects a list with two current commitments for a priority.
OneCommitmentPerEvidence ==
  \A c, d \in CommitmentId :
    Present(c) /\ Present(d) /\ row[c].evidence = row[d].evidence => c = d

\* An answer of success means the very request of the call is in the ledger.
SuccessIsRecorded ==
  \A p \in Proc : reply[p] \in Success => RecordedAs(req[p])

\* A refusal (a definite 4xx) means the transaction of the call has had no
\* effect and never will.  COMMITMENT_ALREADY_EXISTS is the exception: it only
\* says that the evidence is taken, possibly by the call itself.
RefusalHasNoEffect ==
  \A p \in Proc :
    /\ reply[p] \in Refusal \ {"COMMITMENT_ALREADY_EXISTS"} => ~effect[p] /\ tx[p] = "none"
    /\ reply[p] = "COMMITMENT_ALREADY_EXISTS" => EvidenceTaken(req[p].evidence)

\* A command recorded before its retry arrives is answered as a replay, or not
\* at all: never with an expired date, a reached capacity, a duplicate or a
\* version conflict that its own first delivery caused.
RecordedRetryIsReplayed ==
  \A p \in Proc : known[p] /\ pc[p] = "answered" => reply[p] \in {"replayed", "DATABASE_UNAVAILABLE"}

\* Only the user who claimed a commitment, in its assignee's role, blocks,
\* resumes or completes it, over the whole recorded history.
OnlyTheClaimerWorks ==
  \A c \in CommitmentId : \A i \in DOMAIN events[c] :
    events[c][i].req.command \in {"block", "resume", "complete"} =>
      \E k \in 1 .. (i-1) : /\ events[c][k].req.command = "claim"
                            /\ events[c][k].req.role = row[c].assignee
                            /\ events[c][k].req.actor = events[c][i].req.actor

\* A retry of the very command that created a commitment is answered as a
\* replay, never as a duplicate of itself
\* (docs/GRH_ACTION_LEDGER_CANDIDATE_SMOKE.md:52).  recoverCreateRace looks for
\* the command and for the evidence in two reads; a commit between them breaks
\* this.
RetryNeverDuplicatesItself ==
  \A p \in Proc : reply[p] = "COMMITMENT_ALREADY_EXISTS" => ~RecordedAs(req[p])

\* Every call is answered, and its slot freed, without any timeout: the cycle of
\* the tenant row and the command index is cut by the deadlock detector, and the
\* tenant lock, the commitment locks and the command index close no other, which
\* this fairness would leave standing.
EveryCallEnds == \A p \in Proc : pc[p] # "idle" ~> pc[p] = "idle"

-----------------------------------------------------------------------------
(* Refinement. *)

Taken == UNION {{events[c][i].req : i \in DOMAIN events[c]} : c \in CommitmentId}

\* what an answer tells the caller of its request
Meaning(answer) ==
  CASE answer \in Success -> "done"
    [] answer \in Refusal \ {"COMMITMENT_ALREADY_EXISTS"} -> "refused"
    [] OTHER -> "unsure"

Told(p) ==
  CASE pc[p] = "idle" -> IF tx[p] = "written" THEN "left" ELSE "gone"
    [] pc[p] = "answered" -> Meaning(reply[p])
    [] OTHER -> "waiting"

Service == INSTANCE LedgerService
  WITH taken <- Taken, asked <- req, told <- [p \in Proc |-> Told(p)]

\* The transactions implement an atomic ledger that takes each command at most
\* once, never one it has refused, and says done only of one it has taken.
ServiceSpec == Service!Spec

=============================================================================
