------------------------- MODULE ActionLedgerProofs -------------------------
(***************************************************************************)
(* Machine-checked theorems about ActionLedger, for every number of calls, *)
(* commitments, requests and days.  IInv says what locks protect and what  *)
(* an answer means; HInv adds what timelines, claims and retries rest on,  *)
(* and carries the refinement of LedgerService.                            *)
(***************************************************************************)
EXTENDS ActionLedger, FiniteSetTheorems, TLAPS

-----------------------------------------------------------------------------
(* The inductive invariant. *)

\* A session past its checks still stands on the facts it checked: its locks
\* have kept them true.
SessionOK ==
  \A p \in Proc :
    LET r == req[p] IN
    /\ tx[p] = "tenant" => pc[p] = "inTx" /\ IsCreate(r)
    /\ tx[p] \in {"snapshot", "row", "entered"} => pc[p] = "inTx" /\ ~IsCreate(r)
    /\ tx[p] \in {"row", "entered", "written"} /\ ~IsCreate(r) =>
         TransitionReply(row[r.commitment], r) = "none"
    /\ tx[p] \in {"entered", "written"} => ~Recorded(r.id)
    /\ HoldsTenant(p) => ~EvidenceTaken(r.evidence) /\ Count < MaxCommitments

\* Locks and the command index exclude each other's sessions.
LockOK ==
  \A p, q \in Proc : p # q =>
    /\ HoldsTenant(p) => ~HoldsTenant(q) /\ tx[q] # "written"
    /\ HoldsEntry(p, req[p].id) => ~HoldsEntry(q, req[p].id)
    /\ \A c \in CommitmentId : ~(HoldsRow(p, c) /\ HoldsRow(q, c))

-----------------------------------------------------------------------------
(* Lemmas about the rules. *)

\* What RequestAssumption says of one request.
LEMMA RequestFields ==
  ASSUME NEW r \in Request
  PROVE  /\ r.command \in Command /\ r.id \in CommandId /\ r.actor \in User /\ r.role \in Role
         /\ r.expected \in Nat /\ r.due \in Nat /\ r.outcome \in Outcome \cup {None}
         /\ IsCreate(r) => r.evidence \in Evidence /\ r.assignee \in AssigneeRole /\ r.commitment = None
         /\ ~IsCreate(r) => r.commitment \in CommitmentId
BY RequestAssumption DEF RequestShape

\* A transition the rules allow leads from one state of a row to another.
LEMMA AllowedTransition ==
  ASSUME NEW r \in Request, ~IsCreate(r), NEW rw \in Row, TransitionReply(rw, r) = "none"
  PROVE  /\ rw.version # 0 /\ rw.version = r.expected
         /\ rw.state \in Live /\ rw.state \in From(r.command)
         /\ To(r.command, rw.state) \in State
<1>1. r.command \in Command
  BY RequestFields
<1>2. rw.version # 0 /\ rw.version = r.expected /\ TransitionRefusal(rw, r) = "none"
  BY DEF TransitionReply
<1>3. rw.state \in From(r.command)
  BY <1>2 DEF TransitionRefusal
<1> QED
  BY <1>1, <1>2, <1>3 DEF From, To, Command, Live, State, IsCreate

\* insertCommitment writes a row.
LEMMA NewRowType ==
  ASSUME NEW r \in Request, IsCreate(r)
  PROVE  NewRow(r) \in Row
BY RequestFields DEF NewRow, Row, State

\* updateCommitment writes a row, one version further, for the same evidence.
LEMMA UpdatedRowType ==
  ASSUME NEW r \in Request, ~IsCreate(r), NEW rw \in Row, TransitionReply(rw, r) = "none"
  PROVE  UpdatedRow(rw, r) \in Row /\ UpdatedRow(rw, r).version = rw.version + 1
         /\ UpdatedRow(rw, r).evidence = rw.evidence
<1>1. To(r.command, rw.state) \in State
  BY AllowedTransition
<1>2. r.actor \in User /\ r.due \in Nat /\ r.outcome \in Outcome \cup {None}
  BY RequestFields
<1>3. /\ (IF r.command = "claim" THEN r.actor ELSE rw.owner) \in User \cup {None}
      /\ (IF r.command = "reschedule" THEN r.due ELSE rw.due) \in Nat
      /\ (IF r.command = "complete" THEN r.outcome ELSE None) \in Outcome \cup {None}
      /\ rw.version + 1 \in Nat
  BY <1>2 DEF Row
<1> QED
  BY <1>1, <1>3 DEF UpdatedRow, Row

\* insertEvent writes an event that carries the request.
LEMMA NewEventType ==
  ASSUME NEW r \in Request, NEW rw \in Row, NEW day \in Nat,
         ~IsCreate(r) => TransitionReply(rw, r) = "none"
  PROVE  NewEvent(r, rw, day) \in Event /\ NewEvent(r, rw, day).req = r
<1>1. r.expected + 1 \in Nat
  BY RequestFields
<1>2. CASE IsCreate(r)
  BY <1>1, <1>2 DEF NewEvent, Event, To, IsCreate, State
<1>3. CASE ~IsCreate(r)
  <2>1. rw.state \in State /\ To(r.command, rw.state) \in State
    BY <1>3, AllowedTransition DEF Live, State
  <2> QED
    BY <1>1, <1>3, <2>1 DEF NewEvent, Event
<1> QED
  BY <1>2, <1>3

-----------------------------------------------------------------------------
(* What Commit does to the tables. *)

\* A commit changes one row and appends one event, that of its request.
LEMMA CommitEffect ==
  ASSUME TypeOK, SessionOK, NEW p \in Proc, Commit(p)
  PROVE  \E c \in CommitmentId, rw \in Row, e \in Event :
           /\ row' = [row EXCEPT ![c] = rw]
           /\ events' = [events EXCEPT ![c] = Append(@, e)]
           /\ e.req = req[p]
           /\ rw.version # 0
           /\ IsCreate(req[p]) => ~Present(c) /\ rw.evidence = req[p].evidence
           /\ ~IsCreate(req[p]) => /\ c = req[p].commitment /\ Present(c)
                                   /\ rw.evidence = row[c].evidence
<1> DEFINE r == req[p]
<1>1. PICK c \in CommitmentId :
        /\ IF IsCreate(r) THEN ~Present(c) ELSE c = r.commitment
        /\ row' = [row EXCEPT ![c] = IF IsCreate(r) THEN NewRow(r) ELSE UpdatedRow(@, r)]
        /\ events' = [events EXCEPT ![c] = Append(@, NewEvent(r, row[c], began[p]))]
  BY DEF Commit
<1>2. /\ r \in Request /\ row[c] \in Row /\ began[p] \in Nat
      /\ row \in [CommitmentId -> Row] /\ tx[p] = "written"
  BY SizeAssumption DEF TypeOK, Commit
<1>3. ~IsCreate(r) => TransitionReply(row[c], r) = "none"
  BY <1>1, <1>2 DEF SessionOK
<1>4. NewEvent(r, row[c], began[p]) \in Event /\ NewEvent(r, row[c], began[p]).req = r
  BY <1>2, <1>3, NewEventType
<1>5. CASE IsCreate(r)
  <2>1. NewRow(r) \in Row /\ NewRow(r).version # 0 /\ NewRow(r).evidence = r.evidence
    BY <1>2, <1>5, NewRowType DEF NewRow
  <2>2. row' = [row EXCEPT ![c] = NewRow(r)]
    BY <1>1, <1>5
  <2> QED
    BY <1>1, <1>4, <1>5, <2>1, <2>2
<1>6. CASE ~IsCreate(r)
  <2>1. UpdatedRow(row[c], r) \in Row /\ UpdatedRow(row[c], r).version # 0
        /\ UpdatedRow(row[c], r).evidence = row[c].evidence
    BY <1>2, <1>3, <1>6, UpdatedRowType DEF Row
  <2>2. row' = [row EXCEPT ![c] = UpdatedRow(row[c], r)]
    BY <1>1, <1>2, <1>6
  <2>3. Present(c)
    BY <1>2, <1>3, <1>6, AllowedTransition DEF Present
  <2> QED
    BY <1>1, <1>4, <1>6, <2>1, <2>2, <2>3
<1> QED
  BY <1>5, <1>6

\* Only the request that is committed becomes recorded.
LEMMA RecordedAfter ==
  ASSUME events \in [CommitmentId -> Seq(Event)], NEW c \in CommitmentId, NEW e \in Event,
         events' = [events EXCEPT ![c] = Append(@, e)]
  PROVE  /\ events' \in [CommitmentId -> Seq(Event)]
         /\ \A id : Recorded(id)' <=> Recorded(id) \/ id = e.req.id
         /\ \A r : RecordedAs(r)' <=> RecordedAs(r) \/ r = e.req
<1>1. events'[c] = Append(events[c], e) /\ events[c] \in Seq(Event)
  OBVIOUS
<1>2. /\ DOMAIN events'[c] = 1 .. Len(events[c]) + 1
      /\ DOMAIN events[c] = 1 .. Len(events[c])
      /\ events'[c][Len(events[c]) + 1] = e
      /\ \A i \in DOMAIN events[c] : events'[c][i] = events[c][i]
      /\ Len(events[c]) \in Nat
  BY <1>1
<1>3. \A d \in CommitmentId : d # c => events'[d] = events[d]
  OBVIOUS
<1>4. \A d \in CommitmentId : \A i \in DOMAIN events'[d] :
         \/ i \in DOMAIN events[d] /\ events'[d][i] = events[d][i]
         \/ d = c /\ events'[d][i] = e
  BY <1>2, <1>3
<1>5. \A d \in CommitmentId : \A i \in DOMAIN events[d] :
         i \in DOMAIN events'[d] /\ events'[d][i] = events[d][i]
  BY <1>2, <1>3
<1>6. Len(events[c]) + 1 \in DOMAIN events'[c]
  BY <1>2
<1>7. events' \in [CommitmentId -> Seq(Event)]
  BY <1>1
<1>8. ASSUME NEW id PROVE Recorded(id)' <=> Recorded(id) \/ id = e.req.id
  BY <1>2, <1>4, <1>5, <1>6 DEF Recorded
<1>9. ASSUME NEW r PROVE RecordedAs(r)' <=> RecordedAs(r) \/ r = e.req
  BY <1>2, <1>4, <1>5, <1>6 DEF RecordedAs
<1> QED
  BY <1>7, <1>8, <1>9

-----------------------------------------------------------------------------
(* Type correctness. *)

\* The empty ledger has the types of TypeOK.
LEMMA InitType == Init => TypeOK
<1> SUFFICES ASSUME Init PROVE TypeOK
  OBVIOUS
<1>1. (CHOOSE r \in Request : TRUE) \in Request
  BY RequestAssumption
<1>2. NoRow \in Row
  BY DEF NoRow, Row
<1> QED
  BY <1>1, <1>2, SizeAssumption DEF Init, TypeOK

\* The answers of the store are replies.
LEMMA ReplyTypes ==
  /\ \A r : ReplayReply(r) \in Reply \cup {"none"}
  /\ \A r, isPast : CreateReply(r, isPast) \in Reply \cup {"none"}
  /\ \A rw, r : TransitionReply(rw, r) \in Reply \cup {"none"}
  /\ \A p : FinalReply(p) \in Reply
<1>1. \A r : ReplayReply(r) \in Reply \cup {"none"}
  BY DEF ReplayReply, Reply, Success, Refusal
<1>2. \A r, isPast : CreateReply(r, isPast) \in Reply \cup {"none"}
  BY <1>1 DEF CreateReply, Reply, Success, Refusal
<1>3. \A rw, r : TransitionReply(rw, r) \in Reply \cup {"none"}
  BY DEF TransitionReply, TransitionRefusal, Reply, Success, Refusal
<1>4. \A p : FinalReply(p) \in Reply
  BY DEF FinalReply, Reply, Success, Refusal
<1> QED
  BY <1>1, <1>2, <1>3, <1>4

\* Commit keeps the types of what it writes.
LEMMA CommitType ==
  ASSUME TypeOK, SessionOK, NEW p \in Proc, Commit(p)
  PROVE  /\ row' \in [CommitmentId -> Row]
         /\ events' \in [CommitmentId -> Seq(Event)]
         /\ tx' \in [Proc -> {"none", "tenant", "snapshot", "row", "entered", "written"}]
         /\ effect' \in [Proc -> BOOLEAN]
<1>1. row \in [CommitmentId -> Row] /\ events \in [CommitmentId -> Seq(Event)]
  BY DEF TypeOK
<1>2. PICK c \in CommitmentId, rw \in Row, e \in Event :
        /\ row' = [row EXCEPT ![c] = rw]
        /\ events' = [events EXCEPT ![c] = Append(@, e)]
  BY CommitEffect
<1>3. events' \in [CommitmentId -> Seq(Event)]
  BY <1>1, <1>2, RecordedAfter
<1> QED
  BY <1>1, <1>2, <1>3 DEF TypeOK, Commit

\* Answering keeps the types of pc and reply.
LEMMA AnswerType ==
  ASSUME TypeOK, NEW p \in Proc, NEW answer \in Reply \cup {"none"}, Answer(p, answer)
  PROVE  /\ pc' \in [Proc -> {"idle", "called", "inTx", "recovering", "recoveringSource", "answered"}]
         /\ reply' \in [Proc -> Reply \cup {"none"}]
BY DEF TypeOK, Answer

\* No step breaks a type.
LEMMA TypeStep == TypeOK /\ SessionOK /\ [Next]_vars => TypeOK'
<1> SUFFICES ASSUME TypeOK, SessionOK, [Next]_vars PROVE TypeOK'
  OBVIOUS
<1> USE ReplyTypes DEF tables, callVars
<1>1. ASSUME NEW p \in Proc, NEW r \in Request, Call(p, r) PROVE TypeOK'
  BY <1>1 DEF TypeOK, Call, Answer, PastDue, RecordedAs, Reply, Refusal
<1>2. ASSUME NEW p \in Proc, CreateLock(p) PROVE TypeOK'
  BY <1>2 DEF TypeOK, CreateLock, Answer
<1>3. ASSUME NEW p \in Proc, TransitionSnapshot(p) PROVE TypeOK'
  <2>1. row[req[p].commitment].version \in Nat
    BY <1>3, RequestFields DEF TypeOK, Row, TransitionSnapshot
  <2>2. CASE pc' = [pc EXCEPT ![p] = "inTx"] /\ UNCHANGED reply
    BY <1>3, <2>1, <2>2 DEF TypeOK, TransitionSnapshot
  <2>3. CASE /\ Answer(p, IF ReplayReply(req[p]) # "none" THEN ReplayReply(req[p]) ELSE "INPUT_INVALID")
             /\ UNCHANGED <<tx, snap>>
    <3>1. (IF ReplayReply(req[p]) # "none" THEN ReplayReply(req[p]) ELSE "INPUT_INVALID") \in Reply \cup {"none"}
      BY DEF Reply, Refusal
    <3> QED
      BY <1>3, <2>3, <3>1, AnswerType DEF TypeOK, TransitionSnapshot
  <2> QED
    BY <1>3, <2>2, <2>3 DEF TransitionSnapshot
<1>4. ASSUME NEW p \in Proc, TransitionLock(p) PROVE TypeOK'
  <2>1. PICK answer \in Reply \cup {"none"} :
          \/ Answer(p, answer) /\ tx' = [tx EXCEPT ![p] = "none"]
          \/ UNCHANGED <<pc, reply>> /\ tx' = [tx EXCEPT ![p] = "row"]
    BY <1>4 DEF TransitionLock, Reply, Refusal
  <2>2. UNCHANGED <<tables, today, callVars, snap, conflict, effect>>
    BY <1>4 DEF TransitionLock
  <2>3. CASE Answer(p, answer) /\ tx' = [tx EXCEPT ![p] = "none"]
    BY <2>2, <2>3, AnswerType DEF TypeOK
  <2>4. CASE UNCHANGED <<pc, reply>> /\ tx' = [tx EXCEPT ![p] = "row"]
    BY <2>2, <2>4 DEF TypeOK
  <2> QED
    BY <2>1, <2>3, <2>4
<1>5. ASSUME NEW p \in Proc, TransitionWrite(p) PROVE TypeOK'
  BY <1>5 DEF TypeOK, TransitionWrite, Answer, Reply
<1>18. ASSUME NEW p \in Proc, CreateWrite(p) \/ TransitionEnter(p) PROVE TypeOK'
  BY <1>18 DEF TypeOK, CreateWrite, TransitionEnter
<1>6. ASSUME NEW p \in Proc, CommitAnswered(p) PROVE TypeOK'
  BY <1>6, CommitType DEF TypeOK, CommitAnswered, Answer, Reply, Success
<1>7. ASSUME NEW p \in Proc, CommitUnheard(p) PROVE TypeOK'
  BY <1>7, CommitType DEF TypeOK, CommitUnheard
<1>8. ASSUME NEW p \in Proc, Disconnect(p) PROVE TypeOK'
  BY <1>8 DEF TypeOK, Disconnect
<1>9. ASSUME NEW p \in Proc, CommitOrphan(p) PROVE TypeOK'
  BY <1>9, CommitType DEF TypeOK, CommitOrphan
<1>10. ASSUME NEW p \in Proc, Rollback(p) PROVE TypeOK'
  BY <1>10 DEF TypeOK, Rollback
<1>11. ASSUME NEW p \in Proc, Abort(p) PROVE TypeOK'
  BY <1>11 DEF TypeOK, Abort
<1>12. ASSUME NEW p \in Proc, RecoverCommand(p) PROVE TypeOK'
  <2>1. PICK answer \in Reply \cup {"none"} :
          Answer(p, answer) \/ (pc' = [pc EXCEPT ![p] = "recoveringSource"] /\ UNCHANGED reply)
    <3>1. /\ ReplayReply(req[p]) \in Reply \cup {"none"} /\ FinalReply(p) \in Reply \cup {"none"}
          /\ "DATABASE_UNAVAILABLE" \in Reply \cup {"none"}
      BY DEF Reply
    <3>2. \/ Answer(p, ReplayReply(req[p])) \/ Answer(p, FinalReply(p))
          \/ Answer(p, "DATABASE_UNAVAILABLE")
          \/ pc' = [pc EXCEPT ![p] = "recoveringSource"] /\ UNCHANGED reply
      BY <1>12 DEF RecoverCommand
    <3> QED
      BY <3>1, <3>2
  <2>2. UNCHANGED <<tables, today, tx, callVars, snap, conflict, effect>>
    BY <1>12 DEF RecoverCommand
  <2>3. CASE Answer(p, answer)
    BY <2>2, <2>3, AnswerType DEF TypeOK
  <2>4. CASE pc' = [pc EXCEPT ![p] = "recoveringSource"] /\ UNCHANGED reply
    BY <2>2, <2>4 DEF TypeOK
  <2> QED
    BY <2>1, <2>3, <2>4
<1>13. ASSUME NEW p \in Proc, RecoverSource(p) PROVE TypeOK'
  <2>1. PICK answer \in Reply \cup {"none"} : Answer(p, answer)
    BY <1>13 DEF RecoverSource, Reply, Refusal
  <2>2. UNCHANGED <<tables, today, tx, callVars, snap, conflict, effect>>
    BY <1>13 DEF RecoverSource
  <2> QED
    BY <2>1, <2>2, AnswerType DEF TypeOK
<1>14. ASSUME NEW p \in Proc, Return(p) PROVE TypeOK'
  BY <1>14 DEF TypeOK, Return
<1>15. ASSUME NEW p \in Proc, Die(p) PROVE TypeOK'
  BY <1>15 DEF TypeOK, Die
<1>16. CASE NextDay
  BY <1>16, SizeAssumption DEF TypeOK, NextDay
<1>17. CASE UNCHANGED vars
  BY <1>17 DEF TypeOK, vars
<1> QED
  BY <1>1, <1>2, <1>3, <1>4, <1>5, <1>6, <1>7, <1>8, <1>9, <1>10, <1>11, <1>12, <1>13,
     <1>14, <1>15, <1>16, <1>17, <1>18 DEF Next, Step

-----------------------------------------------------------------------------
(* The locks and the sessions that hold them. *)

\* A session ends, begins to read, or stays as it is; the tables do too.
Calm ==
  /\ UNCHANGED tables
  /\ \A q \in Proc :
       \/ tx'[q] = "none"
       \/ tx'[q] = "snapshot" /\ pc'[q] = "inTx" /\ req'[q] = req[q] /\ ~IsCreate(req[q])
       \/ /\ tx'[q] = tx[q] /\ req'[q] = req[q]
          /\ tx[q] \in {"tenant", "snapshot", "row", "entered"} => pc'[q] = "inTx"

\* A step that writes nothing and locks nothing keeps the facts sessions stand on.
LEMMA CalmStep ==
  ASSUME SessionOK, LockOK, Calm
  PROVE  SessionOK' /\ LockOK'
<1>1. \A id : Recorded(id)' <=> Recorded(id)
  BY DEF Calm, tables, Recorded
<1>2. \A e : EvidenceTaken(e)' <=> EvidenceTaken(e)
  BY DEF Calm, tables, EvidenceTaken, Present
<1>3. Count' = Count /\ row' = row
  BY DEF Calm, tables, Count, Present
<1>4. SessionOK'
  BY <1>1, <1>2, <1>3 DEF SessionOK, HoldsTenant, Calm
<1>5. LockOK'
  BY DEF LockOK, HoldsRow, HoldsTenant, HoldsEntry, Calm
<1> QED
  BY <1>4, <1>5

\* A create that locked the tenant row and passed its checks.
LEMMA CreateLockStep ==
  ASSUME TypeOK, SessionOK, LockOK, NEW p \in Proc, CreateLock(p), CreateReply(req[p], past[p]) = "none"
  PROVE  SessionOK' /\ LockOK'
<1>1. /\ IsCreate(req[p]) /\ TenantLockable /\ req' = req /\ row' = row /\ events' = events
      /\ tx' = [tx EXCEPT ![p] = "tenant"] /\ pc' = [pc EXCEPT ![p] = "inTx"]
  BY DEF CreateLock, tables, callVars, Answer
<1>2. ReplayReply(req[p]) = "none" /\ ~EvidenceTaken(req[p].evidence) /\ ~(Count >= MaxCommitments)
  BY DEF CreateReply
<1>4. Count < MaxCommitments
  <2>1. IsFiniteSet({c \in CommitmentId : Present(c)})
    BY SizeAssumption, FS_Subset
  <2> QED
    BY <1>2, <2>1, FS_CardinalityType, SizeAssumption DEF Count
<1>5. /\ \A id : Recorded(id)' <=> Recorded(id)
      /\ \A e : EvidenceTaken(e)' <=> EvidenceTaken(e)
      /\ Count' = Count
  BY <1>1 DEF Recorded, EvidenceTaken, Present, Count
<1>6. /\ \A q \in Proc : q # p => tx'[q] = tx[q] /\ pc'[q] = pc[q]
      /\ tx'[p] = "tenant" /\ pc'[p] = "inTx"
  BY <1>1 DEF TypeOK
<1>7. SessionOK'
  BY <1>1, <1>4, <1>2, <1>5, <1>6 DEF SessionOK, HoldsTenant
<1>8. \A c \in CommitmentId : ~HoldsRow(p, c)'
  BY <1>1, RequestFields, NullAssumption DEF HoldsRow, TypeOK
<1>9. \A q \in Proc : q # p => ~HoldsTenant(q) /\ tx[q] # "written"
  BY <1>1 DEF TenantLockable
<1>10. LockOK'
  BY <1>1, <1>6, <1>8, <1>9 DEF LockOK, HoldsRow, HoldsTenant, HoldsEntry
<1> QED
  BY <1>7, <1>10

\* A transition that locked its row and passed its checks.
LEMMA RowLockStep ==
  ASSUME TypeOK, SessionOK, LockOK, NEW p \in Proc, TransitionLock(p), tx' = [tx EXCEPT ![p] = "row"]
  PROVE  SessionOK' /\ LockOK'
<1>1. req' = req /\ row' = row /\ events' = events /\ tx[p] = "snapshot" /\ pc[p] = "inTx"
  BY DEF TransitionLock, tables, callVars
<1>2. tx'[p] = "row" /\ \A q \in Proc : q # p => tx'[q] = tx[q]
  BY DEF TypeOK
<1>3. /\ pc' = pc
      /\ TransitionReply(row[req[p].commitment], req[p]) = "none"
      /\ RowLockable(req[p].commitment)
  BY <1>2 DEF TransitionLock, Answer, TypeOK
<1>4. /\ \A id : Recorded(id)' <=> Recorded(id)
      /\ \A e : EvidenceTaken(e)' <=> EvidenceTaken(e)
      /\ Count' = Count
  BY <1>1 DEF Recorded, EvidenceTaken, Present, Count
<1>5. SessionOK'
  BY <1>1, <1>2, <1>3, <1>4 DEF SessionOK, HoldsTenant
<1>6. LockOK'
  BY <1>1, <1>2, <1>3 DEF SessionOK, LockOK, HoldsRow, HoldsTenant, HoldsEntry, RowLockable
<1> QED
  BY <1>5, <1>6

\* A session whose event got its entry in the command index.
LEMMA EntryStep ==
  ASSUME TypeOK, SessionOK, LockOK, NEW p \in Proc, CreateWrite(p) \/ TransitionEnter(p)
  PROVE  SessionOK' /\ LockOK'
<1>1. /\ req' = req /\ row' = row /\ events' = events /\ pc' = pc /\ CommandInsertable(p)
      /\ pc[p] = "inTx"
  BY DEF CreateWrite, TransitionEnter, tables, callVars
<1>2. /\ \/ tx[p] = "tenant" /\ tx'[p] = "written" /\ IsCreate(req[p])
         \/ tx[p] = "row" /\ tx'[p] = "entered" /\ ~IsCreate(req[p])
      /\ \A q \in Proc : q # p => tx'[q] = tx[q]
  BY DEF CreateWrite, TransitionEnter, TypeOK, SessionOK
<1>3. /\ \A id : Recorded(id)' <=> Recorded(id)
      /\ \A e : EvidenceTaken(e)' <=> EvidenceTaken(e)
      /\ Count' = Count
  BY <1>1 DEF Recorded, EvidenceTaken, Present, Count
<1>4. SessionOK'
  BY <1>1, <1>2, <1>3 DEF SessionOK, HoldsTenant, CommandInsertable
<1>5. LockOK'
  BY <1>1, <1>2 DEF LockOK, HoldsRow, HoldsTenant, HoldsEntry, CommandInsertable
<1> QED
  BY <1>4, <1>5

\* A transition that has written all it writes.
LEMMA WriteStep ==
  ASSUME TypeOK, SessionOK, LockOK, NEW p \in Proc, TransitionWrite(p), tx' = [tx EXCEPT ![p] = "written"]
  PROVE  SessionOK' /\ LockOK'
<1>1. /\ req' = req /\ row' = row /\ events' = events /\ tx[p] = "entered" /\ pc[p] = "inTx"
      /\ TenantShareable(p)
  BY DEF TransitionWrite, tables, callVars
<1>2. tx'[p] = "written" /\ \A q \in Proc : q # p => tx'[q] = tx[q]
  BY DEF TypeOK
<1>3. pc' = pc /\ ~IsCreate(req[p])
  BY <1>1, <1>2 DEF TransitionWrite, TypeOK, SessionOK
<1>4. /\ \A id : Recorded(id)' <=> Recorded(id)
      /\ \A e : EvidenceTaken(e)' <=> EvidenceTaken(e)
      /\ Count' = Count
  BY <1>1 DEF Recorded, EvidenceTaken, Present, Count
<1>5. SessionOK'
  BY <1>1, <1>2, <1>3, <1>4 DEF SessionOK, HoldsTenant
<1>6. LockOK'
  BY <1>1, <1>2, <1>3 DEF LockOK, HoldsRow, HoldsTenant, HoldsEntry, TenantShareable
<1> QED
  BY <1>5, <1>6

\* A commit: its locks kept everyone else's facts true.
LEMMA CommitStep ==
  ASSUME TypeOK, SessionOK, LockOK, NEW p \in Proc, Commit(p), UNCHANGED req,
         \A q \in Proc : q # p => pc'[q] = pc[q]
  PROVE  SessionOK' /\ LockOK'
<1>1. PICK c \in CommitmentId, rw \in Row, e \in Event :
           /\ row' = [row EXCEPT ![c] = rw]
           /\ events' = [events EXCEPT ![c] = Append(@, e)]
           /\ e.req = req[p]
           /\ rw.version # 0
           /\ IsCreate(req[p]) => ~Present(c) /\ rw.evidence = req[p].evidence
           /\ ~IsCreate(req[p]) => /\ c = req[p].commitment /\ Present(c)
                                   /\ rw.evidence = row[c].evidence
  BY CommitEffect
<1>2. /\ tx[p] = "written" /\ tx'[p] = "none" /\ req' = req
      /\ \A q \in Proc : q # p => tx'[q] = tx[q] /\ pc'[q] = pc[q]
  BY DEF Commit, TypeOK
<1>3. \A id : Recorded(id)' <=> Recorded(id) \/ id = req[p].id
  BY <1>1, RecordedAfter DEF TypeOK
<1>4. \A d \in CommitmentId : d # c => row'[d] = row[d]
  BY <1>1 DEF TypeOK
<1>5. ASSUME NEW q \in Proc
      PROVE  /\ tx'[q] = "tenant" => pc'[q] = "inTx" /\ IsCreate(req'[q])
             /\ tx'[q] \in {"snapshot", "row", "entered"} => pc'[q] = "inTx" /\ ~IsCreate(req'[q])
  BY <1>2 DEF SessionOK
<1>6. ASSUME NEW q \in Proc, tx'[q] \in {"row", "entered", "written"}, ~IsCreate(req'[q])
      PROVE  TransitionReply(row'[req'[q].commitment], req'[q]) = "none"
  <2>1. q # p /\ tx[q] = tx'[q] /\ req[q] \in Request
    BY <1>2, <1>6 DEF TypeOK
  <2>2. TransitionReply(row[req[q].commitment], req[q]) = "none" /\ req[q].commitment \in CommitmentId
    BY <1>2, <1>6, <2>1, RequestFields DEF SessionOK
  <2>3. req[q].commitment # c
    <3>1. CASE IsCreate(req[p])
      <4>1. Present(req[q].commitment)
        BY <2>1, <2>2, <1>2, <1>6, AllowedTransition DEF Present, TypeOK
      <4> QED
        BY <4>1, <3>1, <1>1
    <3>2. CASE ~IsCreate(req[p])
      BY <3>2, <1>1, <1>2, <1>6, <2>1 DEF LockOK, HoldsRow
    <3> QED
      BY <3>1, <3>2
  <2> QED
    BY <1>2, <1>4, <2>2, <2>3
<1>7. ASSUME NEW q \in Proc, tx'[q] \in {"entered", "written"}
      PROVE  ~Recorded(req[q].id)'
  <2>1. q # p /\ tx[q] \in {"entered", "written"} /\ req' = req
    BY <1>2, <1>7
  <2>2. ~Recorded(req[q].id) /\ req[q].id # req[p].id
    BY <1>2, <2>1 DEF SessionOK, LockOK, HoldsEntry
  <2>3. ~(\E d \in CommitmentId : \E i \in DOMAIN events'[d] : events'[d][i].req.id = req[q].id)
    BY <1>3, <2>2 DEF Recorded
  <2> QED
    BY <2>1, <2>3 DEF Recorded
<1>8. ASSUME NEW q \in Proc, HoldsTenant(q)'
      PROVE  ~EvidenceTaken(req[q].evidence)' /\ Count' < MaxCommitments
  <2>1. q # p /\ HoldsTenant(q) /\ req' = req
    BY <1>2, <1>8 DEF HoldsTenant
  <2> QED
    BY <1>2, <2>1 DEF LockOK
<1>9. SessionOK'
  BY <1>2, <1>5, <1>6, <1>7, <1>8 DEF SessionOK
<1>10. LockOK'
  BY <1>2 DEF LockOK, HoldsRow, HoldsTenant, HoldsEntry
<1> QED
  BY <1>9, <1>10

-----------------------------------------------------------------------------
(* The ledger. *)

LedgerOK == CommandAppliedOnce /\ OneCommitmentPerEvidence /\ CapacityRespected

\* What a commit adds is a command no event has, and a create adds a row whose
\* evidence no row has while there is room for one.
LEMMA CommitKeepsLedger ==
  ASSUME TypeOK, SessionOK, LedgerOK, NEW p \in Proc, Commit(p)
  PROVE  LedgerOK'
<1>1. PICK c \in CommitmentId, rw \in Row, e \in Event :
           /\ row' = [row EXCEPT ![c] = rw]
           /\ events' = [events EXCEPT ![c] = Append(@, e)]
           /\ e.req = req[p]
           /\ rw.version # 0
           /\ IsCreate(req[p]) => ~Present(c) /\ rw.evidence = req[p].evidence
           /\ ~IsCreate(req[p]) => /\ c = req[p].commitment /\ Present(c)
                                   /\ rw.evidence = row[c].evidence
  BY CommitEffect
<1>2. /\ tx[p] = "written" /\ ~Recorded(req[p].id)
      /\ IsCreate(req[p]) => ~EvidenceTaken(req[p].evidence) /\ Count < MaxCommitments
  BY DEF Commit, SessionOK, HoldsTenant
<1>3. /\ row'[c] = rw /\ \A d \in CommitmentId : d # c => row'[d] = row[d]
      /\ events'[c] = Append(events[c], e) /\ events[c] \in Seq(Event)
      /\ \A d \in CommitmentId : d # c => events'[d] = events[d]
  BY <1>1 DEF TypeOK
<1>4. CommandAppliedOnce'
  <2>1. \A i \in DOMAIN events'[c] :
          \/ i \in DOMAIN events[c] /\ events'[c][i] = events[c][i]
          \/ i = Len(events[c]) + 1 /\ events'[c][i] = e
    BY <1>3
  <2>2. \A d \in CommitmentId : \A i \in DOMAIN events[d] : events[d][i].req.id # req[p].id
    BY <1>2 DEF Recorded
  <2>3. ASSUME NEW d \in CommitmentId, NEW i \in DOMAIN events'[d]
        PROVE  \/ i \in DOMAIN events[d] /\ events'[d][i] = events[d][i]
               \/ d = c /\ i = Len(events[c]) + 1 /\ events'[d][i].req.id = req[p].id
    BY <1>1, <1>3, <2>1
  <2> QED
    BY <2>2, <2>3 DEF LedgerOK, CommandAppliedOnce
<1>5. OneCommitmentPerEvidence'
  BY <1>1, <1>2, <1>3 DEF LedgerOK, OneCommitmentPerEvidence, EvidenceTaken, Present
<1>6. CapacityRespected'
  <2> DEFINE Rows == {d \in CommitmentId : Present(d)}
  <2>1. IsFiniteSet(Rows) /\ Count = Cardinality(Rows) /\ Count' = Cardinality(Rows')
    BY SizeAssumption, FS_Subset DEF Count
  <2>2. Cardinality(Rows) \in Nat
    BY <2>1, FS_CardinalityType
  <2>3. Rows' = Rows \cup {c}
    BY <1>1, <1>3 DEF Present
  <2>4. CASE IsCreate(req[p])
    <3>1. c \notin Rows
      BY <1>1, <2>4
    <3>2. Cardinality(Rows') = Cardinality(Rows) + 1
      BY <2>1, <2>3, <3>1, FS_AddElement
    <3> QED
      BY <1>2, <2>1, <2>2, <2>4, <3>2, SizeAssumption DEF CapacityRespected
  <2>5. CASE ~IsCreate(req[p])
    <3>1. Rows' = Rows
      BY <1>1, <2>3, <2>5
    <3> QED
      BY <2>1, <3>1 DEF LedgerOK, CapacityRespected
  <2> QED
    BY <2>4, <2>5
<1> QED
  BY <1>4, <1>5, <1>6 DEF LedgerOK

\* A step that leaves the tables alone keeps what holds of them.
LEMMA UnchangedLedger ==
  ASSUME LedgerOK, UNCHANGED tables
  PROVE  LedgerOK'
BY DEF LedgerOK, CommandAppliedOnce, OneCommitmentPerEvidence, CapacityRespected, Count,
       Present, tables

-----------------------------------------------------------------------------
(* The answers. *)

\* What the answer to a call, and the state it is answered from, say about the
\* ledger.
Truthful(p) ==
  /\ pc[p] # "answered" => reply[p] = "none"
  /\ pc[p] \in {"idle", "called", "inTx"} => ~conflict[p]
  /\ pc[p] \in {"called", "inTx"} => ~effect[p]
  /\ pc[p] = "called" => tx[p] = "none"
  /\ effect[p] => RecordedAs(req[p]) /\ tx[p] = "none"
  /\ conflict[p] => ~effect[p] /\ tx[p] = "none"
  /\ reply[p] \in Success => RecordedAs(req[p])
  /\ reply[p] \in Refusal \ {"COMMITMENT_ALREADY_EXISTS"} => ~effect[p] /\ tx[p] = "none"
  /\ reply[p] = "COMMITMENT_ALREADY_EXISTS" => EvidenceTaken(req[p].evidence)

AnswerOK == \A p \in Proc : Truthful(p)

\* What was recorded stays recorded, and evidence stays taken.
OnlyMore ==
  /\ \A r : RecordedAs(r) => RecordedAs(r)'
  /\ \A e : EvidenceTaken(e) => EvidenceTaken(e)'

\* Leaving the tables alone forgets nothing.
LEMMA UnchangedOnlyMore == UNCHANGED tables => OnlyMore
BY DEF tables, OnlyMore, RecordedAs, EvidenceTaken, Present

\* A commit forgets nothing and records its request.
LEMMA CommitOnlyMore ==
  ASSUME TypeOK, SessionOK, NEW p \in Proc, Commit(p), UNCHANGED req
  PROVE  OnlyMore /\ RecordedAs(req[p])'
<1>1. PICK c \in CommitmentId, rw \in Row, e \in Event :
           /\ row' = [row EXCEPT ![c] = rw]
           /\ events' = [events EXCEPT ![c] = Append(@, e)]
           /\ e.req = req[p]
           /\ rw.version # 0
           /\ IsCreate(req[p]) => ~Present(c) /\ rw.evidence = req[p].evidence
           /\ ~IsCreate(req[p]) => /\ c = req[p].commitment /\ Present(c)
                                   /\ rw.evidence = row[c].evidence
  BY CommitEffect
<1>2. \A r : RecordedAs(r)' <=> RecordedAs(r) \/ r = req[p]
  BY <1>1, RecordedAfter DEF TypeOK
<1>3. row'[c] = rw /\ \A d \in CommitmentId : d # c => row'[d] = row[d]
  BY <1>1 DEF TypeOK
<1>4. ASSUME NEW e2, EvidenceTaken(e2) PROVE EvidenceTaken(e2)'
  <2>1. PICK d \in CommitmentId : Present(d) /\ row[d].evidence = e2
    BY <1>4 DEF EvidenceTaken
  <2>2. row'[d].version # 0 /\ row'[d].evidence = e2
    BY <1>1, <1>3, <2>1 DEF Present
  <2> QED
    BY <2>2 DEF EvidenceTaken, Present
<1>5. RecordedAs(req[p])'
  <2>1. \E d \in CommitmentId : \E i \in DOMAIN events'[d] : events'[d][i].req = req[p]
    BY <1>2 DEF RecordedAs
  <2> QED
    BY <2>1 DEF RecordedAs
<1> QED
  BY <1>2, <1>4, <1>5 DEF OnlyMore

\* A call whose own state does not change keeps what it was told.
LEMMA BystanderStep ==
  ASSUME NEW q \in Proc, Truthful(q), OnlyMore,
         pc'[q] = pc[q], tx'[q] = tx[q], req'[q] = req[q], conflict'[q] = conflict[q],
         reply'[q] = reply[q], effect'[q] = effect[q]
  PROVE  Truthful(q)'
<1>1. RecordedAs(req[q]) => RecordedAs(req[q])'
  <2> SUFFICES ASSUME RecordedAs(req[q]) PROVE RecordedAs(req[q])'
    OBVIOUS
  <2>1. \E d \in CommitmentId : \E i \in DOMAIN events'[d] : events'[d][i].req = req[q]
    BY DEF OnlyMore, RecordedAs
  <2> QED BY <2>1 DEF RecordedAs
<1>2. EvidenceTaken(req[q].evidence) => EvidenceTaken(req[q].evidence)'
  <2> SUFFICES ASSUME EvidenceTaken(req[q].evidence) PROVE EvidenceTaken(req[q].evidence)'
    OBVIOUS
  <2>1. \E d \in CommitmentId : row'[d].version # 0 /\ row'[d].evidence = req[q].evidence
    BY DEF OnlyMore, EvidenceTaken, Present
  <2> QED BY <2>1 DEF EvidenceTaken, Present
<1> QED BY <1>1, <1>2 DEF Truthful

\* What the replies of the queries say.
LEMMA ReplayMeans ==
  ASSUME NEW r
  PROVE  /\ ReplayReply(r) \in Success => RecordedAs(r)
         /\ ReplayReply(r) \in Refusal => Recorded(r.id) /\ ~RecordedAs(r)
         /\ ReplayReply(r) # "COMMITMENT_ALREADY_EXISTS"
BY DEF ReplayReply, Success, Refusal

\* What the replies under the tenant lock say of the tables.
LEMMA CreateMeans ==
  ASSUME NEW r, NEW isPast
  PROVE  /\ CreateReply(r, isPast) \in Success => RecordedAs(r)
         /\ CreateReply(r, isPast) = "COMMITMENT_ALREADY_EXISTS" => EvidenceTaken(r.evidence)
<1>1. CASE ReplayReply(r) # "none"
  BY <1>1, ReplayMeans DEF CreateReply
<1>2. CASE ReplayReply(r) = "none"
  BY <1>2 DEF CreateReply, Success
<1> QED
  BY <1>1, <1>2

\* Under the row lock only refusals and "none" are possible.
LEMMA TransitionMeans ==
  ASSUME NEW rw, NEW r
  PROVE  TransitionReply(rw, r) \in (Refusal \ {"COMMITMENT_ALREADY_EXISTS"}) \cup {"none"}
BY DEF TransitionReply, TransitionRefusal, Refusal

\* Everyone but p keeps what it was told.
LEMMA OthersKeep ==
  ASSUME AnswerOK, OnlyMore, NEW p \in Proc, Truthful(p)',
         \A q \in Proc : q # p =>
           /\ pc'[q] = pc[q] /\ tx'[q] = tx[q] /\ req'[q] = req[q]
           /\ conflict'[q] = conflict[q] /\ reply'[q] = reply[q] /\ effect'[q] = effect[q]
  PROVE  AnswerOK'
<1>1. ASSUME NEW q \in Proc PROVE Truthful(q)'
  <2>1. CASE q = p
    BY <2>1
  <2>2. CASE q # p
    BY <2>2, BystanderStep DEF AnswerOK
  <2> QED
    BY <2>1, <2>2
<1> QED
  BY <1>1 DEF AnswerOK

\* A call is answered truthfully.
LEMMA AnswerTruthful ==
  ASSUME NEW p \in Proc, TypeOK, Truthful(p), NEW answer, Answer(p, answer),
         UNCHANGED <<tables, req, effect, conflict>>, tx'[p] = tx[p] \/ tx'[p] = "none",
         answer \in Success => RecordedAs(req[p]),
         answer \in Refusal \ {"COMMITMENT_ALREADY_EXISTS"} => ~effect[p] /\ tx'[p] = "none",
         answer = "COMMITMENT_ALREADY_EXISTS" => EvidenceTaken(req[p].evidence)
  PROVE  Truthful(p)'
<1>1. pc'[p] = "answered" /\ reply'[p] = answer
  BY DEF Answer, TypeOK
<1>2. RecordedAs(req[p])' = RecordedAs(req[p])
  BY DEF RecordedAs, tables
<1>3. EvidenceTaken(req[p].evidence)' = EvidenceTaken(req[p].evidence)
  BY DEF EvidenceTaken, Present, tables
<1> QED
  BY <1>1, <1>2, <1>3 DEF Truthful

\* A call that is not answered yet, or not any more, has been told nothing.
LEMMA UntoldTruthful ==
  ASSUME NEW p \in Proc, Truthful(p), UNCHANGED <<tables, req, effect>>,
         pc'[p] # "answered", reply'[p] = "none",
         pc'[p] \in {"idle", "called", "inTx"} => ~conflict'[p],
         pc'[p] \in {"called", "inTx"} => ~effect[p],
         pc'[p] = "called" => tx'[p] = "none",
         effect[p] => tx'[p] = "none",
         conflict'[p] => ~effect[p] /\ tx'[p] = "none"
  PROVE  Truthful(p)'
<1>1. RecordedAs(req[p])' = RecordedAs(req[p])
  BY DEF RecordedAs, tables
<1> QED
  BY <1>1 DEF Truthful, Success, Refusal

\* No step makes an answer already given untrue, nor gives an untrue one.
LEMMA AnswerStep ==
  ASSUME TypeOK, SessionOK, AnswerOK, [Next]_vars
  PROVE  AnswerOK'
<1> USE DEF tables, callVars
<1>1. ASSUME NEW p \in Proc, NEW r \in Request, Call(p, r) PROVE AnswerOK'
  <2>1. OnlyMore
    BY <1>1, UnchangedOnlyMore DEF Call
  <2>2. Truthful(p)'
    BY <1>1, <2>1 DEF AnswerOK, Truthful, Call, Answer, TypeOK, Success, Refusal
  <2> QED
    BY <1>1, <2>1, <2>2, OthersKeep DEF Call, Answer, TypeOK
<1>2. ASSUME NEW p \in Proc, CreateLock(p) PROVE AnswerOK'
  <2>1. OnlyMore
    BY <1>2, UnchangedOnlyMore DEF CreateLock
  <2>2. Truthful(p)'
    <3>1. /\ Truthful(p) /\ tx[p] = "none" /\ ~effect[p] /\ ~conflict[p] /\ reply[p] = "none"
          /\ UNCHANGED <<tables, req, effect, conflict>>
      BY <1>2 DEF AnswerOK, Truthful, CreateLock
    <3>2. CASE Answer(p, CreateReply(req[p], past[p])) /\ UNCHANGED tx
      BY <3>1, <3>2, CreateMeans, AnswerTruthful
    <3>3. CASE pc' = [pc EXCEPT ![p] = "inTx"] /\ UNCHANGED reply
      BY <3>1, <3>3, UntoldTruthful DEF TypeOK
    <3> QED
      BY <1>2, <3>2, <3>3 DEF CreateLock
  <2> QED
    BY <1>2, <2>1, <2>2, OthersKeep DEF CreateLock, Answer, TypeOK
<1>3. ASSUME NEW p \in Proc, TransitionSnapshot(p) PROVE AnswerOK'
  <2>1. OnlyMore
    BY <1>3, UnchangedOnlyMore DEF TransitionSnapshot
  <2>2. Truthful(p)'
    <3>1. /\ Truthful(p) /\ tx[p] = "none" /\ ~effect[p] /\ ~conflict[p] /\ reply[p] = "none"
          /\ UNCHANGED <<tables, req, effect, conflict>>
      BY <1>3 DEF AnswerOK, Truthful, TransitionSnapshot
    <3>2. CASE Answer(p, ReplayReply(req[p])) /\ UNCHANGED tx
      BY <3>1, <3>2, ReplayMeans, AnswerTruthful
    <3>3. CASE Answer(p, "INPUT_INVALID") /\ UNCHANGED tx
      BY <3>1, <3>3, AnswerTruthful DEF Success
    <3>4. CASE pc' = [pc EXCEPT ![p] = "inTx"] /\ UNCHANGED reply
      BY <3>1, <3>4, UntoldTruthful DEF TypeOK
    <3> QED
      BY <1>3, <3>2, <3>3, <3>4 DEF TransitionSnapshot
  <2> QED
    BY <1>3, <2>1, <2>2, OthersKeep DEF TransitionSnapshot, Answer, TypeOK
<1>4. ASSUME NEW p \in Proc, TransitionLock(p) PROVE AnswerOK'
  <2>1. OnlyMore
    BY <1>4, UnchangedOnlyMore DEF TransitionLock
  <2>2. Truthful(p)'
    <3>1. /\ Truthful(p) /\ ~effect[p] /\ ~conflict[p] /\ reply[p] = "none" /\ pc[p] = "inTx"
          /\ UNCHANGED <<tables, req, effect, conflict>>
      BY <1>4 DEF AnswerOK, Truthful, TransitionLock
    <3>2. ASSUME NEW answer \in Refusal \ {"COMMITMENT_ALREADY_EXISTS"}, Answer(p, answer),
                 tx' = [tx EXCEPT ![p] = "none"]
          PROVE  Truthful(p)'
      <4>1. tx'[p] = "none" /\ answer \notin Success
        BY <3>2 DEF TypeOK, Success, Refusal
      <4> QED
        BY <3>1, <3>2, <4>1, AnswerTruthful
    <3>3. CASE UNCHANGED <<pc, reply>>
      BY <3>1, <3>3, UntoldTruthful
    <3> QED
      BY <1>4, <3>2, <3>3, TransitionMeans DEF TransitionLock, Refusal
  <2> QED
    BY <1>4, <2>1, <2>2, OthersKeep DEF TransitionLock, Answer, TypeOK
<1>5. ASSUME NEW p \in Proc, TransitionWrite(p) PROVE AnswerOK'
  <2>1. OnlyMore
    BY <1>5, UnchangedOnlyMore DEF TransitionWrite
  <2>2. Truthful(p)'
    BY <1>5, <2>1 DEF AnswerOK, Truthful, TransitionWrite, Answer, TypeOK, Success, Refusal
  <2> QED
    BY <1>5, <2>1, <2>2, OthersKeep DEF TransitionWrite, Answer, TypeOK
<1>17. ASSUME NEW p \in Proc, CreateWrite(p) \/ TransitionEnter(p) PROVE AnswerOK'
  <2>1. OnlyMore
    BY <1>17, UnchangedOnlyMore DEF CreateWrite, TransitionEnter
  <2>2. Truthful(p)'
    <3>1. /\ Truthful(p) /\ ~effect[p] /\ ~conflict[p] /\ reply[p] = "none" /\ pc[p] = "inTx"
          /\ UNCHANGED <<tables, pc, req, effect, conflict, reply>>
      BY <1>17 DEF AnswerOK, Truthful, CreateWrite, TransitionEnter
    <3> QED
      BY <3>1, UntoldTruthful
  <2> QED
    BY <1>17, <2>1, <2>2, OthersKeep DEF CreateWrite, TransitionEnter, TypeOK
<1>6. ASSUME NEW p \in Proc, CommitAnswered(p) PROVE AnswerOK'
  <2>1. Commit(p) /\ req' = req /\ OnlyMore /\ RecordedAs(req[p])'
    BY <1>6, CommitOnlyMore DEF CommitAnswered
  <2>2. Truthful(p)'
    BY <1>6, <2>1 DEF AnswerOK, Truthful, CommitAnswered, Commit, Answer, TypeOK, Success, Refusal
  <2> QED
    BY <1>6, <2>1, <2>2, OthersKeep DEF CommitAnswered, Commit, Answer, TypeOK
<1>7. ASSUME NEW p \in Proc, CommitUnheard(p) PROVE AnswerOK'
  <2>1. Commit(p) /\ req' = req /\ OnlyMore /\ RecordedAs(req[p])'
    BY <1>7, CommitOnlyMore DEF CommitUnheard
  <2>2. Truthful(p)'
    BY <1>7, <2>1 DEF AnswerOK, Truthful, CommitUnheard, Commit, Answer, TypeOK, Success, Refusal
  <2> QED
    BY <1>7, <2>1, <2>2, OthersKeep DEF CommitUnheard, Commit, Answer, TypeOK
<1>8. ASSUME NEW p \in Proc, Disconnect(p) PROVE AnswerOK'
  <2>1. OnlyMore
    BY <1>8, UnchangedOnlyMore DEF Disconnect
  <2>2. Truthful(p)'
    BY <1>8, <2>1 DEF AnswerOK, Truthful, Disconnect, Answer, TypeOK, Success, Refusal
  <2> QED
    BY <1>8, <2>1, <2>2, OthersKeep DEF Disconnect, Answer, TypeOK
<1>9. ASSUME NEW p \in Proc, CommitOrphan(p) PROVE AnswerOK'
  <2>1. Commit(p) /\ req' = req /\ OnlyMore /\ RecordedAs(req[p])'
    BY <1>9, CommitOnlyMore DEF CommitOrphan
  <2>2. Truthful(p)'
    <3>1. /\ Truthful(p) /\ tx[p] = "written" /\ tx'[p] = "none" /\ effect'[p]
          /\ pc[p] # "inTx" /\ UNCHANGED <<pc, conflict, reply, req>>
      BY <1>9 DEF AnswerOK, CommitOrphan, Commit, TypeOK
    <3>2. /\ pc[p] # "called" /\ ~conflict[p]
          /\ reply[p] \notin Refusal \ {"COMMITMENT_ALREADY_EXISTS"}
      BY <3>1 DEF Truthful
    <3> QED
      BY <2>1, <3>1, <3>2 DEF Truthful, OnlyMore, EvidenceTaken, Present
  <2> QED
    BY <1>9, <2>1, <2>2, OthersKeep DEF CommitOrphan, Commit, Answer, TypeOK
<1>10. ASSUME NEW p \in Proc, Rollback(p) PROVE AnswerOK'
  <2>1. OnlyMore
    BY <1>10, UnchangedOnlyMore DEF Rollback
  <2>2. Truthful(p)'
    <3>1. Truthful(p) /\ tx'[p] = "none" /\ UNCHANGED <<tables, req, effect, conflict, pc, reply>>
      BY <1>10 DEF AnswerOK, Rollback, TypeOK
    <3> QED
      BY <3>1 DEF Truthful, RecordedAs, EvidenceTaken, Present
  <2> QED
    BY <1>10, <2>1, <2>2, OthersKeep DEF Rollback, Answer, TypeOK
<1>11. ASSUME NEW p \in Proc, Abort(p) PROVE AnswerOK'
  <2>1. OnlyMore
    BY <1>11, UnchangedOnlyMore DEF Abort
  <2>2. Truthful(p)'
    BY <1>11, <2>1 DEF AnswerOK, Truthful, Abort, Answer, TypeOK, Success, Refusal
  <2> QED
    BY <1>11, <2>1, <2>2, OthersKeep DEF Abort, Answer, TypeOK
<1>12. ASSUME NEW p \in Proc, RecoverCommand(p) PROVE AnswerOK'
  <2>1. OnlyMore
    BY <1>12, UnchangedOnlyMore DEF RecoverCommand
  <2>2. Truthful(p)'
    <3>1. /\ Truthful(p) /\ UNCHANGED <<tables, tx, req, effect, conflict>>
          /\ pc[p] = "recovering" /\ reply[p] = "none"
      BY <1>12 DEF AnswerOK, Truthful, RecoverCommand
    <3>2. CASE Answer(p, ReplayReply(req[p])) /\ ReplayReply(req[p]) # "none"
      <4>1. ReplayReply(req[p]) \in Refusal => ~effect[p] /\ tx[p] = "none"
        BY <3>1, ReplayMeans DEF Truthful, SessionOK, TypeOK
      <4> QED
        BY <3>1, <3>2, <4>1, ReplayMeans, AnswerTruthful
    <3>3. CASE Answer(p, FinalReply(p))
      <4>1. FinalReply(p) \notin Success \cup {"COMMITMENT_ALREADY_EXISTS"}
            /\ (FinalReply(p) \in Refusal => ~effect[p] /\ tx[p] = "none")
        BY <3>1 DEF FinalReply, Truthful, Success, Refusal
      <4> QED
        BY <3>1, <3>3, <4>1, AnswerTruthful
    <3>4. CASE Answer(p, "DATABASE_UNAVAILABLE")
      BY <3>1, <3>4, AnswerTruthful DEF Success, Refusal
    <3>5. CASE pc' = [pc EXCEPT ![p] = "recoveringSource"] /\ UNCHANGED reply
      <4>1. pc'[p] = "recoveringSource"
        BY <3>5 DEF TypeOK
      <4> QED
        BY <3>1, <3>5, <4>1, UntoldTruthful DEF Truthful
    <3> QED
      BY <1>12, <3>2, <3>3, <3>4, <3>5 DEF RecoverCommand
  <2> QED
    BY <1>12, <2>1, <2>2, OthersKeep DEF RecoverCommand, Answer, TypeOK
<1>13. ASSUME NEW p \in Proc, RecoverSource(p) PROVE AnswerOK'
  <2>1. OnlyMore
    BY <1>13, UnchangedOnlyMore DEF RecoverSource
  <2>2. Truthful(p)'
    <3>1. /\ Truthful(p) /\ UNCHANGED <<tables, tx, req, effect, conflict>>
          /\ pc[p] = "recoveringSource" /\ reply[p] = "none"
      BY <1>13 DEF AnswerOK, Truthful, RecoverSource
    <3>2. CASE Answer(p, "COMMITMENT_ALREADY_EXISTS") /\ EvidenceTaken(req[p].evidence)
      BY <3>1, <3>2, AnswerTruthful DEF Success
    <3>3. CASE Answer(p, FinalReply(p))
      <4>1. FinalReply(p) \notin Success \cup {"COMMITMENT_ALREADY_EXISTS"}
            /\ (FinalReply(p) \in Refusal => ~effect[p] /\ tx[p] = "none")
        BY <3>1 DEF FinalReply, Truthful, Success, Refusal
      <4> QED
        BY <3>1, <3>3, <4>1, AnswerTruthful
    <3>4. CASE Answer(p, "DATABASE_UNAVAILABLE")
      BY <3>1, <3>4, AnswerTruthful DEF Success, Refusal
    <3> QED
      BY <1>13, <3>2, <3>3, <3>4 DEF RecoverSource
  <2> QED
    BY <1>13, <2>1, <2>2, OthersKeep DEF RecoverSource, Answer, TypeOK
<1>14. ASSUME NEW p \in Proc, Return(p) PROVE AnswerOK'
  <2>1. OnlyMore
    BY <1>14, UnchangedOnlyMore DEF Return
  <2>2. Truthful(p)'
    <3>1. /\ Truthful(p) /\ UNCHANGED <<tables, tx, req, effect>>
          /\ pc'[p] = "idle" /\ reply'[p] = "none" /\ ~conflict'[p]
      BY <1>14 DEF AnswerOK, Return, TypeOK
    <3> QED
      BY <3>1, UntoldTruthful DEF Truthful
  <2> QED
    BY <1>14, <2>1, <2>2, OthersKeep DEF Return, Answer, TypeOK
<1>15. ASSUME NEW p \in Proc, Die(p) PROVE AnswerOK'
  <2>1. OnlyMore
    BY <1>15, UnchangedOnlyMore DEF Die
  <2>2. Truthful(p)'
    <3>1. /\ Truthful(p) /\ UNCHANGED <<tables, req, effect>>
          /\ pc'[p] = "idle" /\ reply'[p] = "none" /\ ~conflict'[p]
          /\ tx'[p] = IF tx[p] = "written" THEN tx[p] ELSE "none"
      BY <1>15 DEF AnswerOK, Die, TypeOK
    <3> QED
      BY <3>1, UntoldTruthful DEF Truthful
  <2> QED
    BY <1>15, <2>1, <2>2, OthersKeep DEF Die, Answer, TypeOK
<1>16. CASE NextDay \/ UNCHANGED vars
  <2>1. UNCHANGED <<tables, pc, tx, req, conflict, reply, effect>>
    BY <1>16 DEF NextDay, vars
  <2> QED
    BY <2>1 DEF AnswerOK, Truthful, RecordedAs, EvidenceTaken, Present
<1> QED
  BY <1>1, <1>2, <1>3, <1>4, <1>5, <1>6, <1>7, <1>8, <1>9, <1>10, <1>11, <1>12, <1>13,
     <1>14, <1>15, <1>16, <1>17 DEF Next, Step

-----------------------------------------------------------------------------
(* The invariant. *)

IInv == TypeOK /\ SessionOK /\ LockOK /\ LedgerOK /\ AnswerOK

\* IInv holds of the empty ledger.
LEMMA InitInv == Init => IInv
<1> SUFFICES ASSUME Init PROVE IInv
  OBVIOUS
<1>1. TypeOK
  BY InitType
<1>2. SessionOK /\ LockOK
  BY DEF Init, SessionOK, LockOK, HoldsRow, HoldsTenant, HoldsEntry
<1>3. ASSUME NEW c \in CommitmentId PROVE ~Present(c) /\ DOMAIN events[c] = {}
  <2>1. row[c] = NoRow /\ events[c] = << >>
    BY DEF Init
  <2>2. NoRow.version = 0
    BY DEF NoRow
  <2> QED
    BY <2>1, <2>2 DEF Present
<1>4. CapacityRespected
  <2>1. {c \in CommitmentId : Present(c)} = {}
    BY <1>3
  <2> QED
    BY <2>1, FS_EmptySet, SizeAssumption DEF CapacityRespected, Count
<1>5. LedgerOK
  BY <1>3, <1>4 DEF LedgerOK, CommandAppliedOnce, OneCommitmentPerEvidence
<1>6. AnswerOK
  BY DEF Init, AnswerOK, Truthful, Success, Refusal
<1> QED
  BY <1>1, <1>2, <1>5, <1>6 DEF IInv

\* No step takes from a session what its locks protect.
LEMMA SessionStep ==
  ASSUME TypeOK, SessionOK, LockOK, AnswerOK, [Next]_vars
  PROVE  SessionOK' /\ LockOK'
<1> USE DEF tables, callVars
<1>1. ASSUME NEW p \in Proc, NEW r \in Request, Call(p, r) PROVE SessionOK' /\ LockOK'
  <2>1. Calm
    BY <1>1 DEF Calm, Call, Answer, TypeOK, SessionOK
  <2> QED
    BY <2>1, CalmStep
<1>2. ASSUME NEW p \in Proc, CreateLock(p) PROVE SessionOK' /\ LockOK'
  <2>1. CASE CreateReply(req[p], past[p]) = "none"
    BY <1>2, <2>1, CreateLockStep
  <2>2. CASE CreateReply(req[p], past[p]) # "none"
    <3>1. Calm
      BY <1>2, <2>2 DEF Calm, CreateLock, Answer, TypeOK, AnswerOK, Truthful, SessionOK
    <3> QED
      BY <3>1, CalmStep
  <2> QED
    BY <2>1, <2>2
<1>3. ASSUME NEW p \in Proc, TransitionSnapshot(p) PROVE SessionOK' /\ LockOK'
  <2>1. Calm
    BY <1>3 DEF Calm, TransitionSnapshot, Answer, TypeOK, AnswerOK, Truthful, SessionOK
  <2> QED
    BY <2>1, CalmStep
<1>4. ASSUME NEW p \in Proc, TransitionLock(p) PROVE SessionOK' /\ LockOK'
  <2>1. CASE tx' = [tx EXCEPT ![p] = "row"]
    BY <1>4, <2>1, RowLockStep
  <2>2. CASE tx' = [tx EXCEPT ![p] = "none"]
    <3>1. Calm
      BY <1>4, <2>2 DEF Calm, TransitionLock, Answer, TypeOK, SessionOK
    <3> QED
      BY <3>1, CalmStep
  <2> QED
    BY <1>4, <2>1, <2>2 DEF TransitionLock
<1>5. ASSUME NEW p \in Proc, TransitionWrite(p) PROVE SessionOK' /\ LockOK'
  <2>1. CASE tx' = [tx EXCEPT ![p] = "written"]
    BY <1>5, <2>1, WriteStep
  <2>2. CASE tx' = [tx EXCEPT ![p] = "none"]
    <3>1. Calm
      BY <1>5, <2>2 DEF Calm, TransitionWrite, Answer, TypeOK, SessionOK
    <3> QED
      BY <3>1, CalmStep
  <2> QED
    BY <1>5, <2>1, <2>2 DEF TransitionWrite
<1>17. ASSUME NEW p \in Proc, CreateWrite(p) \/ TransitionEnter(p) PROVE SessionOK' /\ LockOK'
  BY <1>17, EntryStep
<1>6. ASSUME NEW p \in Proc, CommitAnswered(p) PROVE SessionOK' /\ LockOK'
  BY <1>6, CommitStep DEF CommitAnswered, Answer, TypeOK
<1>7. ASSUME NEW p \in Proc, CommitUnheard(p) PROVE SessionOK' /\ LockOK'
  BY <1>7, CommitStep DEF CommitUnheard, Answer, TypeOK
<1>8. ASSUME NEW p \in Proc, Disconnect(p) PROVE SessionOK' /\ LockOK'
  <2>1. Calm
    BY <1>8 DEF Calm, Disconnect, TypeOK, SessionOK
  <2> QED
    BY <2>1, CalmStep
<1>9. ASSUME NEW p \in Proc, CommitOrphan(p) PROVE SessionOK' /\ LockOK'
  BY <1>9, CommitStep DEF CommitOrphan, Answer, TypeOK
<1>10. ASSUME NEW p \in Proc, Rollback(p) PROVE SessionOK' /\ LockOK'
  <2>1. Calm
    BY <1>10 DEF Calm, Rollback, TypeOK, SessionOK
  <2> QED
    BY <2>1, CalmStep
<1>11. ASSUME NEW p \in Proc, Abort(p) PROVE SessionOK' /\ LockOK'
  <2>1. Calm
    BY <1>11 DEF Calm, Abort, TypeOK, SessionOK
  <2> QED
    BY <2>1, CalmStep
<1>12. ASSUME NEW p \in Proc, RecoverCommand(p) PROVE SessionOK' /\ LockOK'
  <2>1. Calm
    BY <1>12 DEF Calm, RecoverCommand, Answer, TypeOK, SessionOK
  <2> QED
    BY <2>1, CalmStep
<1>13. ASSUME NEW p \in Proc, RecoverSource(p) PROVE SessionOK' /\ LockOK'
  <2>1. Calm
    BY <1>13 DEF Calm, RecoverSource, Answer, TypeOK, SessionOK
  <2> QED
    BY <2>1, CalmStep
<1>14. ASSUME NEW p \in Proc, Return(p) PROVE SessionOK' /\ LockOK'
  <2>1. Calm
    BY <1>14 DEF Calm, Return, TypeOK, SessionOK
  <2> QED
    BY <2>1, CalmStep
<1>15. ASSUME NEW p \in Proc, Die(p) PROVE SessionOK' /\ LockOK'
  <2>1. Calm
    BY <1>15 DEF Calm, Die, TypeOK, SessionOK
  <2> QED
    BY <2>1, CalmStep
<1>16. CASE NextDay \/ UNCHANGED vars
  <2>1. Calm
    BY <1>16 DEF Calm, NextDay, vars, SessionOK
  <2> QED
    BY <2>1, CalmStep
<1> QED
  BY <1>1, <1>2, <1>3, <1>4, <1>5, <1>6, <1>7, <1>8, <1>9, <1>10, <1>11, <1>12, <1>13,
     <1>14, <1>15, <1>16, <1>17 DEF Next, Step

\* Only a commit changes the tables.
LEMMA OnlyCommitWrites ==
  ASSUME [Next]_vars
  PROVE  UNCHANGED tables \/ \E p \in Proc : Commit(p)
BY DEF Next, Step, vars, tables, Call, CreateLock, CreateWrite, TransitionSnapshot, TransitionLock,
       TransitionEnter, TransitionWrite, CommitAnswered, CommitUnheard, Disconnect, CommitOrphan, Rollback,
       Abort, RecoverCommand, RecoverSource, Return, Die, NextDay

\* IInv is inductive.
LEMMA StepInv == IInv /\ [Next]_vars => IInv'
<1> SUFFICES ASSUME IInv, [Next]_vars PROVE IInv'
  OBVIOUS
<1>1. TypeOK'
  BY TypeStep DEF IInv
<1>2. SessionOK' /\ LockOK'
  BY SessionStep DEF IInv
<1>3. LedgerOK'
  BY OnlyCommitWrites, CommitKeepsLedger, UnchangedLedger DEF IInv
<1>4. AnswerOK'
  BY AnswerStep DEF IInv
<1> QED
  BY <1>1, <1>2, <1>3, <1>4 DEF IInv

\* IInv holds in every state of every behaviour.
THEOREM Invariant == Spec => []IInv
<1>1. Init => IInv
  BY InitInv
<1>2. IInv /\ [Next]_vars => IInv'
  BY StepInv
<1> QED
  BY <1>1, <1>2, PTL DEF Spec

-----------------------------------------------------------------------------
(* What it means for callers. *)

\* Every variable keeps its type.
THEOREM TypeCorrect == Spec => []TypeOK
<1>1. IInv => TypeOK
  BY DEF IInv
<1> QED
  BY <1>1, Invariant, PTL

\* A command takes effect at most once, however often it is sent, whatever its
\* sessions and callers do.
THEOREM AppliedOnce == Spec => []CommandAppliedOnce
<1>1. IInv => CommandAppliedOnce
  BY DEF IInv, LedgerOK
<1> QED
  BY <1>1, Invariant, PTL

\* Two commitments never answer the same evidence and priority.
THEOREM EvidenceOnce == Spec => []OneCommitmentPerEvidence
<1>1. IInv => OneCommitmentPerEvidence
  BY DEF IInv, LedgerOK
<1> QED
  BY <1>1, Invariant, PTL

\* The tenant never has more commitments than listing accepts.
THEOREM CapacityKept == Spec => []CapacityRespected
<1>1. IInv => CapacityRespected
  BY DEF IInv, LedgerOK
<1> QED
  BY <1>1, Invariant, PTL

\* Success is only answered to a call whose very request is recorded.
THEOREM SuccessRecorded == Spec => []SuccessIsRecorded
<1>1. IInv => SuccessIsRecorded
  BY DEF IInv, AnswerOK, Truthful, SuccessIsRecorded
<1> QED
  BY <1>1, Invariant, PTL

\* A definite refusal is only answered to a call that has changed nothing and
\* never will.
THEOREM RefusalWithoutEffect == Spec => []RefusalHasNoEffect
<1>1. IInv => RefusalHasNoEffect
  BY DEF IInv, AnswerOK, Truthful, RefusalHasNoEffect
<1> QED
  BY <1>1, Invariant, PTL

-----------------------------------------------------------------------------
(* Timelines and the rows they belong to. *)

\* What appending does to a timeline.
LEMMA AppendFacts ==
  ASSUME NEW s \in Seq(Event), NEW e \in Event
  PROVE  /\ Append(s, e) \in Seq(Event) /\ Len(s) \in Nat
         /\ DOMAIN s = 1 .. Len(s)
         /\ Len(Append(s, e)) = Len(s) + 1
         /\ DOMAIN Append(s, e) = 1 .. Len(s) + 1
         /\ \A i \in 1 .. Len(s) : Append(s, e)[i] = s[i]
         /\ Append(s, e)[Len(s) + 1] = e
OBVIOUS

\* The event of an allowed transition is one the CHECK constraint lists.
LEMMA TransitionListed ==
  ASSUME NEW r \in Request, ~IsCreate(r), NEW rw \in Row, TransitionReply(rw, r) = "none",
         NEW day \in Nat
  PROVE  EventCheck(NewEvent(r, rw, day))
<1>1. /\ r.command \in Command \ {"create"} /\ rw.state \in From(r.command)
      /\ r.command = "complete" <=> r.outcome \in Outcome
  BY RequestAssumption, RequestFields, AllowedTransition DEF IsCreate
<1>2. <<r.command, rw.state, To(r.command, rw.state)>> \in ListedTransition
  BY <1>1 DEF ListedTransition, From, To, Command, Live
<1> QED
  BY <1>1, <1>2 DEF EventCheck, NewEvent, IsCreate

\* So is the event of a create.
LEMMA CreateListed ==
  ASSUME NEW r \in Request, IsCreate(r), NEW rw, NEW day \in Nat
  PROVE  EventCheck(NewEvent(r, rw, day)) /\ NewEvent(r, rw, day).result = 1
<1>1. r.command = "create" /\ r.expected = 0 /\ r.outcome = None
  BY RequestAssumption DEF IsCreate
<1>2. r.outcome \notin Outcome
  BY <1>1, NullAssumption
<1>3. <<"create", None, "OPEN">> \in ListedTransition
  BY DEF ListedTransition
<1> QED
  BY <1>1, <1>2, <1>3 DEF EventCheck, NewEvent, IsCreate, To

\* A create leaves a row and a timeline the inspector accepts.
LEMMA CreateInspected ==
  ASSUME NEW r \in Request, IsCreate(r), NEW rw \in Row, NEW day \in Nat,
         r.due >= AsOf[r.evidence]
  PROVE  /\ InspectTimeline(NewRow(r), Append(<< >>, NewEvent(r, rw, day)))
         /\ RowCheck(NewRow(r))
<1> DEFINE e == NewEvent(r, rw, day)
           s == Append(<< >>, e)
<1>1. e \in Event /\ e.req = r /\ EventCheck(e) /\ e.result = 1 /\ e.to = "OPEN"
  BY NewEventType, CreateListed DEF NewEvent, To, IsCreate
<1>2. << >> \in Seq(Event) /\ Len(<< >>) = 0
  OBVIOUS
<1>3. s \in Seq(Event) /\ Len(s) = 1 /\ DOMAIN s = 1 .. 1 /\ s[1] = e
  BY <1>1, <1>2, AppendFacts
<1>4. RowCheck(NewRow(r))
  BY RequestFields DEF RowCheck, NewRow
<1>5. SetsDue(s[1]) /\ s[1].req.due = NewRow(r).due
  BY <1>1, <1>3 DEF SetsDue, IsCreate, NewRow
<1>6. InspectTimeline(NewRow(r), s)
  BY <1>1, <1>3, <1>5, LimitAssumption DEF InspectTimeline, NewRow
<1> QED
  BY <1>4, <1>6

\* A transition keeps the row and the timeline of its commitment in agreement.
LEMMA TransitionInspected ==
  ASSUME NEW r \in Request, ~IsCreate(r), NEW rw \in Row, NEW s \in Seq(Event), NEW day \in Nat,
         InspectTimeline(rw, s), TransitionReply(rw, r) = "none",
         Len(s) < MaxEvents
  PROVE  InspectTimeline(UpdatedRow(rw, r), Append(s, NewEvent(r, rw, day)))
<1> DEFINE e == NewEvent(r, rw, day)
           n == Len(s)
           t == Append(s, e)
           new == UpdatedRow(rw, r)
<1>1. /\ e \in Event /\ e.req = r /\ EventCheck(e) /\ e.from = rw.state
      /\ e.to = To(r.command, rw.state) /\ e.result = r.expected + 1
  BY NewEventType, TransitionListed DEF NewEvent
<1>2. /\ t \in Seq(Event) /\ n \in Nat /\ DOMAIN s = 1 .. n /\ Len(t) = n + 1
      /\ DOMAIN t = 1 .. n + 1 /\ t[n + 1] = e
      /\ \A i \in 1 .. n : t[i] = s[i]
  BY <1>1, AppendFacts
<1>3. /\ rw.version >= 1 /\ n \in 1 .. MaxEvents
      /\ \A i \in DOMAIN s : s[i].result = i /\ EventCheck(s[i])
      /\ \A i \in 2 .. n : s[i].from = s[i-1].to
      /\ s[n].result = rw.version /\ s[n].to = rw.state
  BY DEF InspectTimeline
<1>4. /\ new.version = rw.version + 1 /\ rw.version \in Nat /\ rw.version = r.expected
      /\ new.state = To(r.command, rw.state)
      /\ new.due = IF r.command = "reschedule" THEN r.due ELSE rw.due
      /\ new.outcome = IF r.command = "complete" THEN r.outcome ELSE None
  BY AllowedTransition DEF UpdatedRow, Row
<1>5. n = rw.version /\ n + 1 = e.result
  BY <1>1, <1>2, <1>3, <1>4
<1>6. \A i \in DOMAIN t : t[i].result = i /\ EventCheck(t[i])
  BY <1>1, <1>2, <1>3, <1>5
<1>7. \A i \in 2 .. n + 1 : t[i].from = t[i-1].to
  <2> SUFFICES ASSUME NEW i \in 2 .. n + 1 PROVE t[i].from = t[i-1].to
    OBVIOUS
  <2>1. CASE i = n + 1
    <3>1. t[i] = e /\ i - 1 = n /\ t[i-1] = s[n]
      BY <1>2, <1>3, <2>1
    <3> QED
      BY <1>1, <1>3, <3>1
  <2>2. CASE i # n + 1
    <3>1. i \in 2 .. n /\ i - 1 \in 1 .. n /\ i \in 1 .. n
      BY <1>2, <2>2
    <3> QED
      BY <1>2, <1>3, <3>1
  <2> QED
    BY <2>1, <2>2
<1>8. \E i \in DOMAIN t : /\ SetsDue(t[i]) /\ t[i].req.due = new.due
                          /\ \A j \in (i+1) .. Len(t) : ~SetsDue(t[j])
  <2>1. CASE r.command = "reschedule"
    <3>1. SetsDue(t[n + 1]) /\ t[n + 1].req.due = new.due
      BY <1>1, <1>2, <1>4, <2>1 DEF SetsDue
    <3>2. n + 1 \in DOMAIN t /\ \A j \in (n + 1 + 1) .. Len(t) : ~SetsDue(t[j])
      BY <1>2
    <3> QED
      BY <3>1, <3>2
  <2>2. CASE r.command # "reschedule"
    <3>1. PICK i \in DOMAIN s : /\ SetsDue(s[i]) /\ s[i].req.due = rw.due
                                /\ \A j \in (i+1) .. n : ~SetsDue(s[j])
      BY DEF InspectTimeline
    <3>2. ~SetsDue(e)
      BY <1>1, <2>2 DEF SetsDue, IsCreate
    <3>3. i \in DOMAIN t /\ SetsDue(t[i]) /\ t[i].req.due = new.due
      BY <1>2, <1>4, <2>2, <3>1
    <3>4. \A j \in (i+1) .. Len(t) : ~SetsDue(t[j])
      <4> SUFFICES ASSUME NEW j \in (i+1) .. n + 1 PROVE ~SetsDue(t[j])
        BY <1>2
      <4>1. CASE j = n + 1
        BY <1>2, <3>2, <4>1
      <4>2. CASE j # n + 1
        BY <1>2, <3>1, <4>2
      <4> QED
        BY <4>1, <4>2
    <3> QED
      BY <3>3, <3>4
  <2> QED
    BY <2>1, <2>2
<1>9. IF new.state = "COMPLETED"
      THEN t[Len(t)].req.command = "complete" /\ t[Len(t)].req.outcome = new.outcome
      ELSE new.outcome = None
  <2>1. new.state = "COMPLETED" <=> r.command = "complete"
    <3>1. rw.state \in Live /\ r.command \in Command
      BY AllowedTransition, RequestFields
    <3> QED
      BY <1>4, <3>1 DEF To, Live, Command
  <2> QED
    BY <1>1, <1>2, <1>4, <2>1
<1>10. t[Len(t)].result = new.version /\ t[Len(t)].to = new.state
  BY <1>1, <1>2, <1>4, <1>5
<1>11. new.version >= 1 /\ Len(t) \in 1 .. MaxEvents
  BY <1>2, <1>3, <1>4, LimitAssumption
<1> QED
  BY <1>2, <1>6, <1>7, <1>8, <1>9, <1>10, <1>11 DEF InspectTimeline

\* A transition keeps the row within the CHECK constraints.
LEMMA TransitionChecked ==
  ASSUME NEW r \in Request, ~IsCreate(r), NEW rw \in Row, RowCheck(rw),
         TransitionReply(rw, r) = "none", r.command = "reschedule" => r.due >= AsOf[rw.evidence]
  PROVE  RowCheck(UpdatedRow(rw, r))
<1> DEFINE new == UpdatedRow(rw, r)
<1>1. /\ new.version = rw.version + 1 /\ rw.version \in Nat /\ new.assignee = rw.assignee
      /\ new.evidence = rw.evidence /\ new.state = To(r.command, rw.state)
      /\ new.owner = (IF r.command = "claim" THEN r.actor ELSE rw.owner)
      /\ new.due = (IF r.command = "reschedule" THEN r.due ELSE rw.due)
      /\ new.outcome = (IF r.command = "complete" THEN r.outcome ELSE None)
  BY DEF UpdatedRow, Row
<1>2. /\ r.command \in Command \ {"create"} /\ rw.state \in From(r.command) /\ r.actor # None
      /\ r.command = "complete" => r.outcome \in Outcome
  BY RequestAssumption, RequestFields, AllowedTransition, NullAssumption DEF IsCreate
<1>3. new.due >= AsOf[new.evidence] /\ new.version >= 1 /\ new.assignee \in AssigneeRole
  BY <1>1 DEF RowCheck
<1>4. CASE r.command = "claim"
  BY <1>1, <1>2, <1>3, <1>4 DEF RowCheck, To
<1>5. CASE r.command \in {"block", "resume"}
  BY <1>1, <1>2, <1>3, <1>5 DEF RowCheck, To, From
<1>6. CASE r.command = "complete"
  BY <1>1, <1>2, <1>3, <1>6 DEF RowCheck, To, From
<1>7. CASE r.command = "reschedule"
  BY <1>1, <1>2, <1>3, <1>7 DEF RowCheck, To, From, Live
<1>8. CASE r.command = "cancel"
  BY <1>1, <1>2, <1>3, <1>8 DEF RowCheck, To, From, Live
<1> QED
  BY <1>2, <1>4, <1>5, <1>6, <1>7, <1>8 DEF Command

-----------------------------------------------------------------------------
(* Records, owners and calls that are under way. *)

\* normalization lets r through on this day
InOrder(r, day) ==
  IF IsCreate(r)
  THEN /\ r.role = "INTENDENTE"
       /\ AsOf[r.evidence] <= day
       /\ r.due <= day + Horizon
       /\ r.due >= AsOf[r.evidence]
  ELSE r.command = "reschedule" => r.due <= day + Horizon

\* A row and its timeline are written together, by requests that were in order
\* on their day.
CommitmentOK(c) ==
  /\ ~Present(c) => row[c] = NoRow /\ events[c] = << >>
  /\ Present(c) => /\ InspectTimeline(row[c], events[c]) /\ RowCheck(row[c])
                   /\ row[c].evidence \in Evidence /\ AsOf[row[c].evidence] <= today
  /\ \A i \in DOMAIN events[c] :
       /\ InOrder(events[c][i].req, today)
       /\ IF IsCreate(events[c][i].req) THEN row[c].evidence = events[c][i].req.evidence
          ELSE events[c][i].req.commitment = c

HistoryOK == \A c \in CommitmentId : CommitmentOK(c)

\* a claim by user u, in the role of the assignee, is on the timeline
Claimed(c, u) ==
  \E k \in DOMAIN events[c] : /\ events[c][k].req.command = "claim"
                              /\ events[c][k].req.role = row[c].assignee
                              /\ events[c][k].req.actor = u

\* Only claimers work, and only claimers are owners.
ClaimOK ==
  /\ OnlyTheClaimerWorks
  /\ \A c \in CommitmentId, u \in User : row[c].owner = u => Claimed(c, u)

\* the request of p may still be decided, or take effect
Open(p) == pc[p] \in {"called", "inTx", "recovering", "recoveringSource"} \/ tx[p] # "none"

\* What normalization and the list before it say of a transition under way.
TransitionOK(p) ==
  LET r == req[p]
      c == req[p].commitment IN
  /\ Present(c) /\ AsOf[row[c].evidence] <= began[p]
  /\ tx[p] = "snapshot" => /\ snap[p] \in 1 .. row[c].version
                           /\ snap[p] = row[c].version => r \notin Taken
  /\ tx[p] = "written" => Len(events[c]) < MaxEvents

\* What holds of any call until it is answered and its session has ended.
OpenCallOK(p) ==
  /\ InOrder(req[p], today) /\ began[p] <= today
  /\ past[p] <=> req[p].command \in {"create", "reschedule"} /\ req[p].due < began[p]
  /\ tx[p] # "none" => ~past[p] /\ ~known[p]
  /\ pc[p] = "recoveringSource" => ~known[p] /\ IsCreate(req[p])
  /\ ~IsCreate(req[p]) => TransitionOK(p)

CallOK == \A p \in Proc : Open(p) => OpenCallOK(p)

\* What was recorded when a call arrived is still recorded.
KnownOK == \A p \in Proc : known[p] => req[p] \in Taken

\* How the tables change: a row stays for its evidence, and its version rises
\* with every event.
Grows ==
  /\ today <= today'
  /\ Taken \subseteq Taken'
  /\ \A c \in CommitmentId :
       \/ row'[c] = row[c] /\ events'[c] = events[c]
       \/ /\ row'[c].version > row[c].version
          /\ Present(c) => row'[c].evidence = row[c].evidence
  /\ \A r \in Taken' \ Taken : ~IsCreate(r) => row'[r.commitment].version > row[r.commitment].version

\* The clock does not go back.
LEMMA TodayRises ==
  ASSUME TypeOK, [Next]_vars
  PROVE  today' \in Nat /\ today \in Nat /\ today <= today'
<1>1. today' = today \/ today' = today + 1
  BY DEF Next, Step, vars, Call, CreateLock, CreateWrite, TransitionSnapshot, TransitionLock,
         TransitionEnter, TransitionWrite, CommitAnswered, CommitUnheard, Disconnect, CommitOrphan, Rollback,
         Abort, RecoverCommand, RecoverSource, Return, Die, NextDay
<1> QED
  BY <1>1, SizeAssumption DEF TypeOK

\* Refused is the refusal of what is not in order today.
LEMMA RefusedIs ==
  ASSUME today \in Nat, NEW r \in Request
  PROVE  Refused(r) <=> ~InOrder(r, today)
<1>1. r.due \in Nat /\ Horizon \in Nat /\ (IsCreate(r) => AsOf[r.evidence] \in Nat)
  BY RequestFields, LimitAssumption
<1> QED
  BY <1>1 DEF Refused, InOrder

\* What was in order stays in order.
LEMMA OrderLasts ==
  ASSUME NEW r \in Request, NEW m \in Nat, NEW n \in Nat, m <= n, InOrder(r, m)
  PROVE  InOrder(r, n)
<1>1. r.due \in Nat /\ Horizon \in Nat /\ (IsCreate(r) => AsOf[r.evidence] \in Nat)
  BY RequestFields, LimitAssumption
<1> QED
  BY <1>1 DEF InOrder

\* The requests in the ledger are those some event carries.
LEMMA TakenIs ==
  /\ \A r : RecordedAs(r) <=> r \in Taken
  /\ \A r : (r \in Taken' <=> \E c \in CommitmentId : \E i \in DOMAIN events'[c] : events'[c][i].req = r)
  /\ \A r : r \in Taken => Recorded(r.id)
BY DEF RecordedAs, Taken, Recorded

\* A commit, in full.
LEMMA CommitDetail ==
  ASSUME TypeOK, NEW p \in Proc, Commit(p)
  PROVE  \E c \in CommitmentId :
           /\ IF IsCreate(req[p]) THEN ~Present(c) ELSE c = req[p].commitment
           /\ row'[c] = IF IsCreate(req[p]) THEN NewRow(req[p]) ELSE UpdatedRow(row[c], req[p])
           /\ events'[c] = Append(events[c], NewEvent(req[p], row[c], began[p]))
           /\ \A d \in CommitmentId \ {c} : row'[d] = row[d] /\ events'[d] = events[d]
BY DEF Commit, TypeOK

\* What is known of the session that commits.
LEMMA CommitterFacts ==
  ASSUME TypeOK, SessionOK, CallOK, NEW p \in Proc, Commit(p)
  PROVE  /\ req[p] \in Request /\ began[p] \in Nat /\ today \in Nat /\ ~Recorded(req[p].id)
         /\ InOrder(req[p], today) /\ began[p] <= today /\ ~past[p] /\ ~known[p]
         /\ req[p].command = "reschedule" => req[p].due >= began[p]
         /\ ~IsCreate(req[p]) =>
              /\ TransitionReply(row[req[p].commitment], req[p]) = "none"
              /\ TransitionOK(p) /\ Len(events[req[p].commitment]) < MaxEvents
<1>1. /\ tx[p] = "written" /\ req[p] \in Request /\ began[p] \in Nat /\ today \in Nat
      /\ OpenCallOK(p)
  BY SizeAssumption DEF Commit, TypeOK, CallOK, Open
<1>2. req[p].due \in Nat
  BY <1>1, RequestFields
<1> QED
  BY <1>1, <1>2 DEF SessionOK, OpenCallOK, TransitionOK

\* A commit leaves its commitment in order.
LEMMA CommitLeavesOrder ==
  ASSUME TypeOK, TypeOK', SessionOK, HistoryOK, CallOK, NEW p \in Proc, Commit(p),
         today <= today'
  PROVE  HistoryOK'
<1> DEFINE r == req[p]
<1>1. PICK c \in CommitmentId :
        /\ IF IsCreate(r) THEN ~Present(c) ELSE c = r.commitment
        /\ row'[c] = IF IsCreate(r) THEN NewRow(r) ELSE UpdatedRow(row[c], r)
        /\ events'[c] = Append(events[c], NewEvent(r, row[c], began[p]))
        /\ \A d \in CommitmentId \ {c} : row'[d] = row[d] /\ events'[d] = events[d]
  BY CommitDetail
<1>2. /\ r \in Request /\ began[p] \in Nat /\ today \in Nat /\ today' \in Nat
      /\ InOrder(r, today) /\ began[p] <= today
      /\ r.command = "reschedule" => r.due >= began[p]
      /\ ~IsCreate(r) => /\ TransitionReply(row[r.commitment], r) = "none"
                         /\ TransitionOK(p) /\ Len(events[r.commitment]) < MaxEvents
      /\ \A d \in CommitmentId : events[d] \in Seq(Event) /\ row[d] \in Row
  BY CommitterFacts, SizeAssumption DEF TypeOK
<1> HIDE DEF r
<1> DEFINE e == NewEvent(r, row[c], began[p])
<1>3. e \in Event /\ e.req = r
  BY <1>1, <1>2, NewEventType DEF NewEvent
<1>4. ASSUME NEW d \in CommitmentId, NEW i \in DOMAIN events[d]
      PROVE  InOrder(events[d][i].req, today')
  <2>1. events[d][i] \in Event /\ InOrder(events[d][i].req, today)
    BY <1>2 DEF HistoryOK, CommitmentOK
  <2>2. events[d][i].req \in Request
    BY <2>1 DEF Event
  <2> QED
    BY <1>2, <2>1, <2>2, OrderLasts
<1>5. InOrder(e.req, today')
  BY <1>2, <1>3, OrderLasts
<1>6. ASSUME NEW d \in CommitmentId \ {c} PROVE CommitmentOK(d)'
  <2>1. row'[d] = row[d] /\ events'[d] = events[d]
    BY <1>1
  <2>2. CommitmentOK(d)
    BY DEF HistoryOK
  <2>3. Present(d) => AsOf[row[d].evidence] <= today'
    BY <1>2, <2>2, LimitAssumption DEF CommitmentOK
  <2> QED
    BY <1>4, <2>1, <2>2, <2>3 DEF CommitmentOK, Present
<1>7. CASE IsCreate(r)
  <2>1. /\ events[c] = << >> /\ row'[c] = NewRow(r) /\ events'[c] = Append(<< >>, e)
    BY <1>1, <1>7 DEF HistoryOK, CommitmentOK
  <2>2. r.due >= AsOf[r.evidence] /\ AsOf[r.evidence] <= today /\ AsOf[r.evidence] \in Nat
        /\ r.evidence \in Evidence
    BY <1>2, <1>7, RequestFields, LimitAssumption DEF InOrder
  <2>3. InspectTimeline(NewRow(r), Append(<< >>, e)) /\ RowCheck(NewRow(r))
    BY <1>2, <1>7, <2>2, CreateInspected
  <2>4. << >> \in Seq(Event) /\ Len(<< >>) = 0
    OBVIOUS
  <2>5. DOMAIN events'[c] = 1 .. 1 /\ events'[c][1] = e
    BY <1>3, <2>1, <2>4, AppendFacts
  <2>6. NewRow(r).version # 0 /\ NewRow(r).evidence = r.evidence
    BY DEF NewRow
  <2>7. CommitmentOK(c)'
    BY <1>2, <1>3, <1>5, <1>7, <2>1, <2>2, <2>3, <2>5, <2>6 DEF CommitmentOK, Present
  <2> QED
    BY <1>6, <2>7 DEF HistoryOK
<1>8. CASE ~IsCreate(r)
  <2>1. /\ row'[c] = UpdatedRow(row[c], r) /\ events'[c] = Append(events[c], e)
        /\ TransitionReply(row[c], r) = "none" /\ Len(events[c]) < MaxEvents /\ r.commitment = c
    BY <1>1, <1>2, <1>8
  <2>2. Present(c) /\ AsOf[row[c].evidence] <= began[p]
    BY <1>2, <1>8, <2>1, AllowedTransition DEF TransitionOK, r
  <2>3. /\ InspectTimeline(row[c], events[c]) /\ RowCheck(row[c])
        /\ row[c].evidence \in Evidence /\ AsOf[row[c].evidence] <= today
        /\ \A i \in DOMAIN events[c] :
             IF IsCreate(events[c][i].req) THEN row[c].evidence = events[c][i].req.evidence
             ELSE events[c][i].req.commitment = c
    BY <2>2 DEF HistoryOK, CommitmentOK
  <2>4. AsOf[row[c].evidence] \in Nat /\ r.due \in Nat
    BY <1>2, <2>3, LimitAssumption, RequestFields
  <2>5. InspectTimeline(row'[c], events'[c])
    BY <1>2, <1>8, <2>1, <2>2, <2>3, TransitionInspected
  <2>6. RowCheck(row'[c])
    BY <1>2, <1>8, <2>1, <2>2, <2>3, <2>4, TransitionChecked
  <2>7. row'[c].evidence = row[c].evidence /\ row'[c].version # 0
    BY <1>2, <1>8, <2>1, UpdatedRowType DEF Row
  <2>8. \A i \in DOMAIN events'[c] :
          \/ i \in DOMAIN events[c] /\ events'[c][i] = events[c][i]
          \/ events'[c][i] = e
    BY <1>2, <1>3, <2>1, AppendFacts
  <2>9. CommitmentOK(c)'
    BY <1>2, <1>3, <1>4, <1>5, <1>8, <2>1, <2>3, <2>4, <2>5, <2>6, <2>7, <2>8 DEF CommitmentOK, Present
  <2> QED
    BY <1>6, <2>9 DEF HistoryOK
<1> QED
  BY <1>7, <1>8

\* Time alone puts nothing out of order.
LEMMA OrderKept ==
  ASSUME TypeOK, HistoryOK, UNCHANGED tables, today' \in Nat, today <= today'
  PROVE  HistoryOK'
<1> SUFFICES ASSUME NEW c \in CommitmentId PROVE CommitmentOK(c)'
  BY DEF HistoryOK
<1>1. CommitmentOK(c) /\ today \in Nat /\ events[c] \in Seq(Event)
  BY SizeAssumption DEF HistoryOK, TypeOK
<1>2. ASSUME NEW i \in DOMAIN events[c]
      PROVE  InOrder(events[c][i].req, today')
  <2>1. events[c][i] \in Event /\ InOrder(events[c][i].req, today)
    BY <1>1 DEF CommitmentOK
  <2>2. events[c][i].req \in Request
    BY <2>1 DEF Event
  <2> QED
    BY <1>1, <2>1, <2>2, OrderLasts
<1>3. Present(c) => AsOf[row[c].evidence] <= today'
  BY <1>1, LimitAssumption DEF CommitmentOK
<1> QED
  BY <1>1, <1>2, <1>3 DEF CommitmentOK, Present, tables

\* A commit lets the ledger grow, by its own request.
LEMMA CommitGrows ==
  ASSUME TypeOK, SessionOK, CallOK, NEW p \in Proc, Commit(p), today <= today'
  PROVE  Grows /\ \A r : r \in Taken' <=> r \in Taken \/ r = req[p]
<1> DEFINE r == req[p]
<1>1. PICK c \in CommitmentId :
        /\ IF IsCreate(r) THEN ~Present(c) ELSE c = r.commitment
        /\ row'[c] = IF IsCreate(r) THEN NewRow(r) ELSE UpdatedRow(row[c], r)
        /\ events'[c] = Append(events[c], NewEvent(r, row[c], began[p]))
        /\ \A d \in CommitmentId \ {c} : row'[d] = row[d] /\ events'[d] = events[d]
  BY CommitDetail
<1>2. /\ r \in Request /\ row[c] \in Row
      /\ ~IsCreate(r) => TransitionReply(row[c], r) = "none"
  BY <1>1, CommitterFacts DEF TypeOK
<1>3. ASSUME NEW t PROVE t \in Taken' <=> t \in Taken \/ t = r
  <2>1. PICK b \in CommitmentId, rw \in Row, e \in Event :
          events' = [events EXCEPT ![b] = Append(@, e)] /\ e.req = r
    BY CommitEffect
  <2>2. RecordedAs(t)' <=> RecordedAs(t) \/ t = r
    BY <2>1, RecordedAfter DEF TypeOK
  <2>3. (\E d \in CommitmentId : \E i \in DOMAIN events'[d] : events'[d][i].req = t)
          <=> RecordedAs(t) \/ t = r
    BY <2>2 DEF RecordedAs
  <2> QED
    BY <2>3, TakenIs
<1>4. /\ row'[c].version > row[c].version
      /\ Present(c) => row'[c].evidence = row[c].evidence
  <2>1. CASE IsCreate(r)
    <3>1. row[c].version = 0 /\ row'[c].version = 1
      BY <1>1, <2>1 DEF Present, NewRow
    <3> QED
      BY <1>1, <2>1, <3>1
  <2>2. CASE ~IsCreate(r)
    <3>1. /\ row'[c].version = row[c].version + 1 /\ row'[c].evidence = row[c].evidence
          /\ row[c].version \in Nat
      BY <1>1, <1>2, <2>2, UpdatedRowType DEF Row
    <3> QED
      BY <3>1
  <2> QED
    BY <2>1, <2>2
<1>5. \A t \in Taken' \ Taken : ~IsCreate(t) => row'[t.commitment].version > row[t.commitment].version
  BY <1>1, <1>3, <1>4
<1>6. Taken \subseteq Taken'
  BY <1>3
<1> QED
  BY <1>1, <1>3, <1>4, <1>5, <1>6 DEF Grows

\* So does a step that leaves the tables alone.
LEMMA CalmGrows ==
  ASSUME UNCHANGED tables, today <= today'
  PROVE  Grows /\ Taken' = Taken
<1>1. row' = row /\ events' = events /\ Taken' = Taken
  BY DEF tables, Taken
<1> QED
  BY <1>1 DEF Grows

-----------------------------------------------------------------------------
(* Who works on a commitment. *)

\* A claim stays on the timeline, and so does the role it was made in.
LEMMA ClaimLasts ==
  ASSUME NEW c \in CommitmentId, NEW u, Claimed(c, u), row'[c].assignee = row[c].assignee,
         \A i \in DOMAIN events[c] : i \in DOMAIN events'[c] /\ events'[c][i] = events[c][i]
  PROVE  Claimed(c, u)'
<1>1. \E k \in DOMAIN events'[c] : /\ events'[c][k].req.command = "claim"
                                   /\ events'[c][k].req.role = row'[c].assignee
                                   /\ events'[c][k].req.actor = u
  BY DEF Claimed
<1> QED
  BY <1>1 DEF Claimed

\* A commit lets only the claimer work, and makes an owner only of a claimer.
LEMMA CommitKeepsClaims ==
  ASSUME TypeOK, SessionOK, HistoryOK, ClaimOK, CallOK, NEW p \in Proc, Commit(p)
  PROVE  ClaimOK'
<1> DEFINE r == req[p]
<1>1. PICK c \in CommitmentId :
        /\ IF IsCreate(r) THEN ~Present(c) ELSE c = r.commitment
        /\ row'[c] = IF IsCreate(r) THEN NewRow(r) ELSE UpdatedRow(row[c], r)
        /\ events'[c] = Append(events[c], NewEvent(r, row[c], began[p]))
        /\ \A d \in CommitmentId \ {c} : row'[d] = row[d] /\ events'[d] = events[d]
  BY CommitDetail
<1>2. /\ r \in Request /\ row[c] \in Row /\ events[c] \in Seq(Event) /\ began[p] \in Nat
      /\ ~IsCreate(r) => TransitionReply(row[c], r) = "none"
      /\ r.command \in Command /\ r.actor \in User
  BY <1>1, CommitterFacts, RequestFields DEF TypeOK
<1> HIDE DEF r
<1> DEFINE e == NewEvent(r, row[c], began[p])
           n == Len(events[c])
<1>3. e \in Event /\ e.req = r
  BY <1>2, NewEventType
<1>4. /\ n \in Nat /\ DOMAIN events[c] = 1 .. n /\ DOMAIN events'[c] = 1 .. n + 1
      /\ events'[c][n + 1] = e /\ \A i \in 1 .. n : events'[c][i] = events[c][i]
  BY <1>1, <1>2, <1>3, AppendFacts
<1> HIDE DEF e, n
<1>5. \/ row'[c].assignee = row[c].assignee
      \/ IsCreate(r) /\ n = 0 /\ row'[c].owner = None
  <2>1. CASE IsCreate(r)
    <3>1. events[c] = << >>
      BY <1>1, <2>1 DEF HistoryOK, CommitmentOK
    <3>2. row'[c].owner = None
      BY <1>1, <2>1 DEF NewRow
    <3> QED
      BY <2>1, <3>1, <3>2 DEF n
  <2>2. CASE ~IsCreate(r)
    BY <1>1, <1>2, <2>2 DEF UpdatedRow, Row
  <2> QED
    BY <2>1, <2>2
<1>6. ASSUME ~IsCreate(r), r.command = "claim"
      PROVE  /\ row'[c].owner = r.actor
             /\ \E k \in DOMAIN events'[c] : /\ events'[c][k].req.command = "claim"
                                              /\ events'[c][k].req.role = row'[c].assignee
                                              /\ events'[c][k].req.actor = r.actor
  <2>1. row'[c].owner = r.actor /\ row'[c].assignee = row[c].assignee
    BY <1>1, <1>2, <1>6 DEF UpdatedRow, Row
  <2>2. r.role = row[c].assignee
    BY <1>2, <1>6 DEF TransitionReply, TransitionRefusal
  <2> QED
    BY <1>3, <1>4, <1>6, <2>1, <2>2
<1>7. ASSUME NEW d \in CommitmentId, NEW u \in User, row'[d].owner = u PROVE Claimed(d, u)'
  <2>0. u # None
    BY NullAssumption
  <2>1. CASE d # c
    <3>1. row'[d] = row[d] /\ events'[d] = events[d]
      BY <1>1, <2>1
    <3>2. Claimed(d, u)
      BY <1>7, <3>1 DEF ClaimOK
    <3> QED
      BY <3>1, <3>2 DEF Claimed
  <2>2. CASE d = c
    <3>1. ~IsCreate(r)
      BY <1>1, <1>7, <2>0, <2>2 DEF NewRow
    <3>2. CASE r.command = "claim"
      <4>1. u = r.actor
        BY <1>6, <1>7, <2>2, <3>1, <3>2
      <4> QED
        BY <1>6, <2>2, <3>1, <3>2, <4>1 DEF Claimed
    <3>3. CASE r.command # "claim"
      <4>1. row'[c].owner = row[c].owner /\ row'[c].assignee = row[c].assignee
        BY <1>1, <1>2, <3>1, <3>3 DEF UpdatedRow, Row
      <4>2. Claimed(c, u)
        BY <1>7, <2>2, <4>1 DEF ClaimOK
      <4>3. Claimed(c, u)'
        BY <1>4, <4>1, <4>2, ClaimLasts
      <4> QED
        BY <2>2, <4>3
    <3> QED
      BY <3>2, <3>3
  <2> QED
    BY <2>1, <2>2
<1>8. ASSUME NEW d \in CommitmentId, NEW i \in DOMAIN events'[d],
             events'[d][i].req.command \in {"block", "resume", "complete"}
      PROVE  \E k \in 1 .. (i-1) : /\ events'[d][k].req.command = "claim"
                                   /\ events'[d][k].req.role = row'[d].assignee
                                   /\ events'[d][k].req.actor = events'[d][i].req.actor
  <2>1. CASE d # c
    <3>1. row'[d] = row[d] /\ events'[d] = events[d]
      BY <1>1, <2>1
    <3> QED
      BY <1>8, <3>1 DEF ClaimOK, OnlyTheClaimerWorks
  <2>2. CASE d = c /\ i # n + 1
    <3>1. i \in 1 .. n /\ n > 0 /\ events'[d][i] = events[c][i] /\ row'[c].assignee = row[c].assignee
      BY <1>4, <1>5, <2>2
    <3>2. PICK k \in 1 .. (i-1) : /\ events[c][k].req.command = "claim"
                                  /\ events[c][k].req.role = row[c].assignee
                                  /\ events[c][k].req.actor = events[c][i].req.actor
      BY <1>4, <1>8, <2>2, <3>1 DEF ClaimOK, OnlyTheClaimerWorks
    <3>3. k \in 1 .. n
      BY <1>4, <3>1
    <3> QED
      BY <1>4, <2>2, <3>1, <3>2, <3>3
  <2>3. CASE d = c /\ i = n + 1
    <3>1. r.command \in {"block", "resume", "complete"} /\ ~IsCreate(r)
      BY <1>3, <1>4, <1>8, <2>3 DEF IsCreate
    <3>2. row[c].owner = r.actor
      BY <1>2, <3>1 DEF TransitionReply, TransitionRefusal
    <3>3. Claimed(c, r.actor) /\ row'[c].assignee = row[c].assignee
      BY <1>2, <1>5, <3>1, <3>2 DEF ClaimOK
    <3>4. PICK k \in 1 .. n : /\ events[c][k].req.command = "claim"
                              /\ events[c][k].req.role = row[c].assignee
                              /\ events[c][k].req.actor = r.actor
      BY <1>4, <3>3 DEF Claimed
    <3>5. k \in 1 .. (i-1)
      BY <1>4, <2>3
    <3> QED
      BY <1>3, <1>4, <2>3, <3>3, <3>4, <3>5
  <2> QED
    BY <2>1, <2>2, <2>3
<1> QED
  BY <1>7, <1>8 DEF ClaimOK, OnlyTheClaimerWorks

-----------------------------------------------------------------------------
(* Calls that are under way. *)

\* A call keeps what normalization and its queries made certain, provided that
\* its session has checked what it now stands for.
LEMMA OpenLasts ==
  ASSUME TypeOK, TypeOK', Grows, NEW q \in Proc, OpenCallOK(q),
         req'[q] = req[q], began'[q] = began[q], past'[q] = past[q], known'[q] = known[q],
         tx'[q] # "none" => ~past[q] /\ ~known[q],
         pc'[q] = "recoveringSource" => ~known[q] /\ IsCreate(req[q]),
         ~IsCreate(req[q]) /\ tx'[q] = "snapshot" =>
           /\ snap'[q] \in 1 .. row'[req[q].commitment].version
           /\ snap'[q] = row'[req[q].commitment].version => req[q] \notin Taken',
         ~IsCreate(req[q]) /\ tx'[q] = "written" => Len(events'[req[q].commitment]) < MaxEvents
  PROVE  OpenCallOK(q)'
<1> DEFINE r == req[q]
           c == r.commitment
<1>1. r \in Request /\ today \in Nat /\ today' \in Nat /\ began[q] \in Nat /\ today <= today'
  BY SizeAssumption DEF TypeOK, Grows
<1>2. /\ InOrder(r, today) /\ began[q] <= today
      /\ past[q] <=> r.command \in {"create", "reschedule"} /\ r.due < began[q]
  BY DEF OpenCallOK
<1>3. InOrder(r, today') /\ began[q] <= today'
  BY <1>1, <1>2, OrderLasts
<1>4. ASSUME ~IsCreate(r) PROVE TransitionOK(q)'
  <2>1. /\ c \in CommitmentId /\ row[c] \in Row /\ row'[c] \in Row
        /\ row[c].version \in Nat /\ row'[c].version \in Nat
    BY <1>1, <1>4, RequestFields DEF TypeOK, Row
  <2>2. Present(c) /\ AsOf[row[c].evidence] <= began[q]
    BY <1>4 DEF OpenCallOK, TransitionOK
  <2>3. \/ row'[c] = row[c] /\ events'[c] = events[c]
        \/ row'[c].version > row[c].version /\ row'[c].evidence = row[c].evidence
    BY <2>1, <2>2 DEF Grows
  <2>4. row'[c].version # 0 /\ AsOf[row'[c].evidence] <= began[q]
    BY <2>1, <2>2, <2>3 DEF Present
  <2> HIDE DEF r, c
  <2>5. req'[q] = r /\ r.commitment = c
    BY DEF r, c
  <2>6. /\ tx'[q] = "snapshot" => /\ snap'[q] \in 1 .. row'[c].version
                                  /\ snap'[q] = row'[c].version => r \notin Taken'
        /\ tx'[q] = "written" => Len(events'[c]) < MaxEvents
    BY <1>4 DEF r, c
  <2> QED
    BY <2>4, <2>5, <2>6 DEF TransitionOK, Present
<1> QED
  BY <1>2, <1>3, <1>4 DEF OpenCallOK

\* A call whose session a step leaves alone, or ends, keeps it too.
LEMMA BystanderOpen ==
  ASSUME TypeOK, TypeOK', Grows, NEW q \in Proc, OpenCallOK(q),
         req'[q] = req[q], began'[q] = began[q], past'[q] = past[q], known'[q] = known[q],
         tx'[q] = "none" \/ (tx'[q] = tx[q] /\ snap'[q] = snap[q]),
         pc'[q] = "recoveringSource" => pc[q] = "recoveringSource",
         tx[q] = "written" /\ ~IsCreate(req[q]) =>
           tx'[q] = "none" \/ events'[req[q].commitment] = events[req[q].commitment]
  PROVE  OpenCallOK(q)'
<1> DEFINE r == req[q]
           c == r.commitment
<1>1. r \in Request /\ (~IsCreate(r) => c \in CommitmentId)
  BY RequestFields DEF TypeOK
<1>2. ASSUME ~IsCreate(r), tx'[q] = "snapshot"
      PROVE  /\ snap'[q] \in 1 .. row'[c].version
             /\ snap'[q] = row'[c].version => r \notin Taken'
  <2>1. /\ snap'[q] = snap[q] /\ snap[q] \in 1 .. row[c].version
        /\ snap[q] = row[c].version => r \notin Taken
    BY <1>2 DEF OpenCallOK, TransitionOK
  <2>2. row[c] \in Row /\ row'[c] \in Row
    BY <1>1, <1>2 DEF TypeOK
  <2>3. row[c].version \in Nat /\ row'[c].version \in Nat
    BY <2>2 DEF Row
  <2>4. row'[c].version >= row[c].version
    BY <1>1, <1>2, <2>3 DEF Grows
  <2>5. r \in Taken' \ Taken => row'[c].version > row[c].version
    BY <1>2 DEF Grows
  <2> QED
    BY <2>1, <2>3, <2>4, <2>5
<1>3. /\ tx'[q] # "none" => ~past[q] /\ ~known[q]
      /\ pc'[q] = "recoveringSource" => ~known[q] /\ IsCreate(r)
      /\ ~IsCreate(r) /\ tx'[q] = "written" => Len(events'[c]) < MaxEvents
  BY DEF OpenCallOK, TransitionOK
<1> QED
  BY <1>2, <1>3, OpenLasts

\* A recorded request is answered as a replay: its timeline is never too long.
LEMMA RetryReplayed ==
  ASSUME TypeOK, HistoryOK, NEW r, r \in Taken
  PROVE  ReplayReply(r) = "replayed"
<1>1. Recorded(r.id) /\ RecordedAs(r)
  BY TakenIs
<1>2. ASSUME NEW c \in CommitmentId, NEW i \in DOMAIN events[c] PROVE ~(Len(events[c]) > MaxEvents)
  <2>1. CASE Present(c)
    <3>1. Len(events[c]) \in 1 .. MaxEvents
      BY <2>1 DEF HistoryOK, CommitmentOK, InspectTimeline
    <3> QED
      BY <3>1, LimitAssumption
  <2>2. CASE ~Present(c)
    BY <1>2, <2>2 DEF HistoryOK, CommitmentOK
  <2> QED
    BY <2>1, <2>2
<1> QED
  BY <1>1, <1>2 DEF ReplayReply

\* What no query finds is not recorded.
LEMMA NotReplayed ==
  ASSUME NEW r, ReplayReply(r) = "none"
  PROVE  r \notin Taken
BY TakenIs DEF ReplayReply

\* A recorded request is never out of order.
LEMMA RecordedInOrder ==
  ASSUME TypeOK, HistoryOK, NEW r \in Request, r \in Taken
  PROVE  ~Refused(r)
<1>1. PICK c \in CommitmentId : \E i \in DOMAIN events[c] : events[c][i].req = r
  BY TakenIs DEF RecordedAs
<1>2. InOrder(r, today) /\ today \in Nat
  BY <1>1, SizeAssumption DEF HistoryOK, CommitmentOK, TypeOK
<1> QED
  BY <1>2, RefusedIs

\* The request of a call that normalization lets through.
LEMMA CallOpens ==
  ASSUME TypeOK, HistoryOK, NEW p \in Proc, NEW r \in Request, Call(p, r), ~Refused(r)
  PROVE  OpenCallOK(p)'
<1>1. /\ req'[p] = r /\ began'[p] = today /\ past'[p] = PastDue(r) /\ tx'[p] = "none"
      /\ pc'[p] = "called" /\ today' = today /\ UNCHANGED tables /\ Listed(r)
  BY DEF Call, TypeOK
<1>2. today \in Nat /\ InOrder(r, today)
  BY SizeAssumption, RefusedIs DEF TypeOK
<1>3. past'[p] <=> r.command \in {"create", "reschedule"} /\ r.due < today
  BY <1>1 DEF PastDue
<1>4. ASSUME ~IsCreate(r) PROVE TransitionOK(p)'
  <2> DEFINE c == r.commitment
  <2>1. c \in CommitmentId /\ Present(c)
    BY <1>1, <1>4, RequestFields DEF Listed
  <2>2. AsOf[row[c].evidence] <= today
    BY <2>1 DEF HistoryOK, CommitmentOK
  <2> HIDE DEF c
  <2>3. row'[c] = row[c] /\ req'[p].commitment = c
    BY <1>1 DEF tables, c
  <2> QED
    BY <1>1, <2>1, <2>2, <2>3 DEF TransitionOK, Present
<1>5. InOrder(req'[p], today') /\ began'[p] <= today'
  BY <1>1, <1>2
<1> QED
  BY <1>1, <1>3, <1>4, <1>5 DEF OpenCallOK

\* Every step lets the ledger grow.
LEMMA EveryStepGrows ==
  ASSUME TypeOK, SessionOK, CallOK, [Next]_vars
  PROVE  Grows
BY OnlyCommitWrites, TodayRises, CommitGrows, CalmGrows

\* The calls a step of p does not touch keep what they stand on.
LEMMA OthersOpen ==
  ASSUME TypeOK, TypeOK', LockOK, CallOK, Grows, NEW p \in Proc, Open(p)' => OpenCallOK(p)',
         UNCHANGED tables \/ Commit(p),
         \A q \in Proc : q # p =>
           /\ pc'[q] = pc[q] /\ tx'[q] = tx[q] /\ req'[q] = req[q] /\ snap'[q] = snap[q]
           /\ began'[q] = began[q] /\ past'[q] = past[q] /\ known'[q] = known[q]
  PROVE  CallOK'
<1> SUFFICES ASSUME NEW q \in Proc, q # p, Open(q)' PROVE OpenCallOK(q)'
  BY DEF CallOK
<1>1. OpenCallOK(q)
  BY DEF Open, CallOK
<1>2. ASSUME tx[q] = "written", ~IsCreate(req[q])
      PROVE  events'[req[q].commitment] = events[req[q].commitment]
  <2>1. CASE UNCHANGED tables
    BY <2>1 DEF tables
  <2>2. CASE Commit(p)
    <3>1. PICK c \in CommitmentId :
            /\ IF IsCreate(req[p]) THEN ~Present(c) ELSE c = req[p].commitment
            /\ \A d \in CommitmentId \ {c} : events'[d] = events[d]
      BY <2>2, CommitDetail
    <3>2. tx[p] = "written" /\ ~IsCreate(req[p]) /\ req[q] \in Request
      BY <1>2, <2>2 DEF Commit, LockOK, HoldsTenant, TypeOK
    <3>3. req[q].commitment \in CommitmentId /\ req[q].commitment # c
      BY <1>2, <3>1, <3>2, RequestFields DEF LockOK, HoldsRow
    <3> QED
      BY <3>1, <3>3
  <2> QED
    BY <2>1, <2>2
<1> QED
  BY <1>1, <1>2, BystanderOpen

\* A step of p that ends its session, or leaves it as it is.
LEMMA SameOpen ==
  ASSUME TypeOK, TypeOK', LockOK, CallOK, Grows, NEW p \in Proc,
         UNCHANGED <<tables, req, began, past, known>>, Open(p)' => Open(p),
         \/ tx' = [tx EXCEPT ![p] = "none"]
         \/ tx' = tx /\ (tx[p] = "snapshot" => snap' = snap),
         pc'[p] = "recoveringSource" => pc[p] = "recoveringSource",
         \A q \in Proc : q # p => pc'[q] = pc[q] /\ snap'[q] = snap[q]
  PROVE  CallOK'
<1>1. ASSUME Open(p)' PROVE OpenCallOK(p)'
  <2>1. OpenCallOK(p)
    BY <1>1 DEF CallOK
  <2>2. tx'[p] = "none" \/ tx'[p] = tx[p]
    BY DEF TypeOK
  <2>3. row' = row /\ events' = events /\ Taken' = Taken
    BY DEF tables, Taken
  <2>4. ~IsCreate(req[p]) /\ tx'[p] = "snapshot" =>
           /\ snap'[p] \in 1 .. row'[req[p].commitment].version
           /\ snap'[p] = row'[req[p].commitment].version => req[p] \notin Taken'
    BY <2>1, <2>3 DEF OpenCallOK, TransitionOK, TypeOK
  <2> QED
    BY <2>1, <2>2, <2>3, <2>4, OpenLasts DEF OpenCallOK, TransitionOK
<1>2. \A q \in Proc : q # p => tx'[q] = tx[q]
  BY DEF TypeOK
<1> QED
  BY <1>1, <1>2, OthersOpen

\* A commit of p, whatever becomes of its caller.
LEMMA CommitOpen ==
  ASSUME TypeOK, TypeOK', LockOK, CallOK, Grows, NEW p \in Proc, Commit(p),
         UNCHANGED <<req, began, past, known, snap>>, pc'[p] # "recoveringSource" \/ pc' = pc,
         \A q \in Proc : q # p => pc'[q] = pc[q]
  PROVE  CallOK'
<1>1. tx[p] = "written" /\ tx'[p] = "none" /\ \A q \in Proc : q # p => tx'[q] = tx[q]
  BY DEF Commit, TypeOK
<1>2. OpenCallOK(p)
  BY <1>1 DEF CallOK, Open
<1>3. OpenCallOK(p)'
  BY <1>1, <1>2, BystanderOpen
<1> QED
  BY <1>1, <1>3, OthersOpen

\* Calls under way stay on the facts they were let through on.
LEMMA CallStep ==
  ASSUME TypeOK, TypeOK', SessionOK, LockOK, HistoryOK, CallOK, KnownOK, AnswerOK, [Next]_vars
  PROVE  CallOK'
<1>0. Grows
  BY EveryStepGrows
<1>1. ASSUME NEW p \in Proc, NEW r \in Request, Call(p, r) PROVE CallOK'
  <2>1. ASSUME Open(p)' PROVE OpenCallOK(p)'
    <3>1. ~Refused(r)
      BY <1>1, <2>1 DEF Call, Answer, Open, TypeOK
    <3> QED
      BY <1>1, <3>1, CallOpens
  <2>2. UNCHANGED tables /\ \A q \in Proc : q # p =>
           /\ pc'[q] = pc[q] /\ tx'[q] = tx[q] /\ req'[q] = req[q] /\ snap'[q] = snap[q]
           /\ began'[q] = began[q] /\ past'[q] = past[q] /\ known'[q] = known[q]
    BY <1>1 DEF Call, Answer, TypeOK
  <2> QED
    BY <1>0, <2>1, <2>2, OthersOpen
<1>2. ASSUME NEW p \in Proc, CreateLock(p) PROVE CallOK'
  <2>1. IsCreate(req[p]) /\ OpenCallOK(p) /\ UNCHANGED <<tables, callVars, snap>>
    BY <1>2 DEF CreateLock, CallOK, Open
  <2>2. ASSUME CreateReply(req[p], past[p]) = "none"
        PROVE  ~past[p] /\ ~known[p]
    <3>1. ReplayReply(req[p]) = "none" /\ ~past[p]
      BY <2>2 DEF CreateReply
    <3> QED
      BY <3>1, NotReplayed DEF KnownOK
  <2>3. tx'[p] # "none" => ~past[p] /\ ~known[p]
    BY <1>2, <2>1, <2>2 DEF CreateLock, OpenCallOK, TypeOK
  <2>4. pc'[p] # "recoveringSource"
    BY <1>2 DEF CreateLock, Answer, TypeOK
  <2>5. OpenCallOK(p)'
    BY <1>0, <2>1, <2>3, <2>4, OpenLasts DEF callVars
  <2>6. \A q \in Proc : q # p => pc'[q] = pc[q] /\ tx'[q] = tx[q]
    BY <1>2 DEF CreateLock, Answer, TypeOK
  <2> QED
    BY <1>0, <2>1, <2>5, <2>6, OthersOpen DEF callVars
<1>3. ASSUME NEW p \in Proc, TransitionSnapshot(p) PROVE CallOK'
  <2> DEFINE c == req[p].commitment
  <2>1. /\ ~IsCreate(req[p]) /\ OpenCallOK(p) /\ UNCHANGED <<tables, callVars>> /\ tx[p] = "none"
        /\ c \in CommitmentId
    BY <1>3, RequestFields DEF TransitionSnapshot, CallOK, Open, AnswerOK, Truthful, TypeOK
  <2>2. ASSUME ReplayReply(req[p]) = "none", ~past[p], snap'[p] = row[c].version,
               pc'[p] = "inTx", tx'[p] = "snapshot"
        PROVE  OpenCallOK(p)'
    <3>1. req[p] \notin Taken /\ ~known[p]
      BY <2>2, NotReplayed DEF KnownOK
    <3>2. row[c].version \in 1 .. row[c].version
      BY <2>1 DEF OpenCallOK, TransitionOK, Present, TypeOK, Row
    <3>3. row' = row /\ events' = events /\ Taken' = Taken
      BY <2>1 DEF tables, Taken
    <3> QED
      BY <1>0, <2>1, <2>2, <3>1, <3>2, <3>3, OpenLasts DEF callVars
  <2>3. \/ pc'[p] = "answered" /\ tx'[p] = "none"
        \/ /\ ReplayReply(req[p]) = "none" /\ ~past[p] /\ snap'[p] = row[c].version
           /\ pc'[p] = "inTx" /\ tx'[p] = "snapshot"
    BY <1>3, <2>1 DEF TransitionSnapshot, Answer, TypeOK
  <2>4. Open(p)' => OpenCallOK(p)'
    BY <2>2, <2>3 DEF Open
  <2>5. \A q \in Proc : q # p => pc'[q] = pc[q] /\ tx'[q] = tx[q] /\ snap'[q] = snap[q]
    BY <1>3 DEF TransitionSnapshot, Answer, TypeOK
  <2> QED
    BY <1>0, <2>1, <2>4, <2>5, OthersOpen DEF callVars
<1>4. ASSUME NEW p \in Proc, TransitionLock(p) PROVE CallOK'
  <2>1. /\ OpenCallOK(p) /\ UNCHANGED <<tables, callVars, snap>> /\ tx[p] = "snapshot"
        /\ pc'[p] # "recoveringSource" /\ tx'[p] \in {"none", "row"}
    BY <1>4 DEF TransitionLock, CallOK, Open, Answer, TypeOK
  <2>2. OpenCallOK(p)'
    BY <1>0, <2>1, OpenLasts DEF OpenCallOK, callVars
  <2>3. \A q \in Proc : q # p => pc'[q] = pc[q] /\ tx'[q] = tx[q]
    BY <1>4 DEF TransitionLock, Answer, TypeOK
  <2> QED
    BY <1>0, <2>1, <2>2, <2>3, OthersOpen DEF callVars
<1>5. ASSUME NEW p \in Proc, TransitionWrite(p) PROVE CallOK'
  <2>1. /\ OpenCallOK(p) /\ UNCHANGED <<tables, callVars, snap>> /\ tx[p] = "entered"
        /\ pc'[p] # "recoveringSource" /\ tx'[p] \in {"none", "written"}
        /\ tx'[p] = "written" => Len(events[req[p].commitment]) < MaxEvents
    BY <1>5 DEF TransitionWrite, CallOK, Open, Answer, TypeOK
  <2>2. OpenCallOK(p)'
    BY <1>0, <2>1, OpenLasts DEF OpenCallOK, callVars, tables
  <2>3. \A q \in Proc : q # p => pc'[q] = pc[q] /\ tx'[q] = tx[q]
    BY <1>5 DEF TransitionWrite, Answer, TypeOK
  <2> QED
    BY <1>0, <2>1, <2>2, <2>3, OthersOpen DEF callVars
<1>17. ASSUME NEW p \in Proc, CreateWrite(p) \/ TransitionEnter(p) PROVE CallOK'
  <2>1. /\ OpenCallOK(p) /\ UNCHANGED <<tables, callVars, snap, pc>> /\ tx[p] # "none"
        /\ (tx'[p] = "written" /\ IsCreate(req[p])) \/ tx'[p] = "entered"
    BY <1>17 DEF CreateWrite, TransitionEnter, CallOK, Open, SessionOK, TypeOK
  <2>2. OpenCallOK(p)'
    BY <1>0, <2>1, OpenLasts DEF OpenCallOK, callVars, tables
  <2>3. \A q \in Proc : q # p => tx'[q] = tx[q]
    BY <1>17 DEF CreateWrite, TransitionEnter, TypeOK
  <2> QED
    BY <1>0, <2>1, <2>2, <2>3, OthersOpen DEF callVars
<1>6. ASSUME NEW p \in Proc, CommitAnswered(p) PROVE CallOK'
  BY <1>0, <1>6, CommitOpen DEF CommitAnswered, Answer, callVars, TypeOK
<1>7. ASSUME NEW p \in Proc, CommitUnheard(p) PROVE CallOK'
  BY <1>0, <1>7, CommitOpen DEF CommitUnheard, callVars, TypeOK
<1>8. ASSUME NEW p \in Proc, Disconnect(p) PROVE CallOK'
  BY <1>0, <1>8, SameOpen DEF Disconnect, callVars, Open, TypeOK
<1>9. ASSUME NEW p \in Proc, CommitOrphan(p) PROVE CallOK'
  BY <1>0, <1>9, CommitOpen DEF CommitOrphan, callVars
<1>10. ASSUME NEW p \in Proc, Rollback(p) PROVE CallOK'
  BY <1>0, <1>10, SameOpen DEF Rollback, callVars, Open, TypeOK
<1>11. ASSUME NEW p \in Proc, Abort(p) PROVE CallOK'
  <2>1. /\ UNCHANGED <<tables, req, began, past, known, snap>> /\ tx' = [tx EXCEPT ![p] = "none"]
        /\ pc[p] \in {"called", "inTx"} /\ pc'[p] = "recovering"
        /\ \A q \in Proc : q # p => pc'[q] = pc[q]
    BY <1>11 DEF Abort, callVars, TypeOK
  <2> QED
    BY <1>0, <2>1, SameOpen DEF Open
<1>12. ASSUME NEW p \in Proc, RecoverCommand(p) PROVE CallOK'
  <2>1. /\ OpenCallOK(p) /\ UNCHANGED <<tables, callVars, tx, snap>>
    BY <1>12 DEF RecoverCommand, CallOK, Open
  <2>2. ASSUME pc'[p] = "recoveringSource" PROVE ~known[p] /\ IsCreate(req[p])
    <3>1. ReplayReply(req[p]) = "none" /\ IsCreate(req[p])
      BY <1>12, <2>2 DEF RecoverCommand, Answer, TypeOK
    <3> QED
      BY <3>1, NotReplayed DEF KnownOK
  <2>3. row' = row /\ events' = events /\ Taken' = Taken
    BY <2>1 DEF tables, Taken
  <2>4. OpenCallOK(p)'
    BY <1>0, <2>1, <2>2, <2>3, OpenLasts DEF OpenCallOK, TransitionOK, callVars
  <2>5. \A q \in Proc : q # p => pc'[q] = pc[q]
    BY <1>12 DEF RecoverCommand, Answer, TypeOK
  <2> QED
    BY <1>0, <2>1, <2>4, <2>5, OthersOpen DEF callVars
<1>13. ASSUME NEW p \in Proc, RecoverSource(p) PROVE CallOK'
  <2>1. /\ UNCHANGED <<tables, callVars, tx, snap>> /\ pc[p] = "recoveringSource"
        /\ \A q \in Proc : q # p => pc'[q] = pc[q]
    BY <1>13 DEF RecoverSource, Answer, TypeOK
  <2> QED
    BY <1>0, <2>1, SameOpen DEF callVars, Open
<1>14. ASSUME NEW p \in Proc, Return(p) PROVE CallOK'
  <2>1. /\ UNCHANGED <<tables, callVars, tx>> /\ tx[p] # "snapshot"
        /\ pc'[p] = "idle" /\ \A q \in Proc : q # p => pc'[q] = pc[q] /\ snap'[q] = snap[q]
    BY <1>14 DEF Return, SessionOK, TypeOK
  <2> QED
    BY <1>0, <2>1, SameOpen DEF callVars, Open
<1>15. ASSUME NEW p \in Proc, Die(p) PROVE CallOK'
  <2>1. /\ UNCHANGED <<tables, req, began, past, known>>
        /\ pc'[p] = "idle" /\ \A q \in Proc : q # p => pc'[q] = pc[q] /\ snap'[q] = snap[q]
    BY <1>15 DEF Die, callVars, TypeOK
  <2>2. CASE tx[p] = "written"
    <3>1. tx' = tx
      BY <1>15, <2>2 DEF Die, TypeOK
    <3> QED
      BY <1>0, <2>1, <2>2, <3>1, SameOpen DEF Open
  <2>3. CASE tx[p] # "written"
    <3>1. tx' = [tx EXCEPT ![p] = "none"] /\ tx'[p] = "none"
      BY <1>15, <2>3 DEF Die, TypeOK
    <3> QED
      BY <1>0, <2>1, <3>1, SameOpen DEF Open
  <2> QED
    BY <2>2, <2>3
<1>16. CASE NextDay \/ UNCHANGED vars
  <2>1. UNCHANGED <<tables, callVars, pc, tx, snap>>
    BY <1>16 DEF NextDay, vars, tables, callVars
  <2> SUFFICES ASSUME NEW q \in Proc, Open(q)' PROVE OpenCallOK(q)'
    BY DEF CallOK
  <2>2. OpenCallOK(q)
    BY <2>1 DEF CallOK, Open
  <2> QED
    BY <1>0, <2>1, <2>2, BystanderOpen DEF callVars, tables
<1> QED
  BY <1>1, <1>2, <1>3, <1>4, <1>5, <1>6, <1>7, <1>8, <1>9, <1>10, <1>11, <1>12, <1>13,
     <1>14, <1>15, <1>16, <1>17 DEF Next, Step

-----------------------------------------------------------------------------
(* Retries. *)

\* What was recorded when a call arrived stays recorded.
LEMMA KnownStep ==
  ASSUME TypeOK, KnownOK, Grows, [Next]_vars
  PROVE  KnownOK'
<1> USE DEF callVars
<1>1. \A t : t \in Taken => t \in Taken'
  BY DEF Grows
<1>2. CASE \E p \in Proc, r \in Request : Call(p, r)
  <2>1. PICK p \in Proc, r \in Request : Call(p, r)
    BY <1>2
  <2>2. /\ req'[p] = r /\ (known'[p] => r \in Taken)
        /\ \A q \in Proc : q # p => req'[q] = req[q] /\ known'[q] = known[q]
    BY <2>1, TakenIs DEF Call, TypeOK
  <2> QED
    BY <1>1, <2>2 DEF KnownOK
<1>3. CASE UNCHANGED <<req, known>>
  BY <1>1, <1>3 DEF KnownOK
<1>4. UNCHANGED <<req, known>> \/ \E p \in Proc, r \in Request : Call(p, r)
  BY DEF Next, Step, vars, CreateLock, CreateWrite, TransitionSnapshot, TransitionLock,
         TransitionEnter, TransitionWrite,
         CommitAnswered, CommitUnheard, Disconnect, CommitOrphan, Rollback, Abort,
         RecoverCommand, RecoverSource, Return, Die, NextDay
<1> QED
  BY <1>2, <1>3, <1>4

\* The retry of a recorded command gets no answer but that of a replay.
LEMMA RetryStep ==
  ASSUME TypeOK, SessionOK, HistoryOK, CallOK, KnownOK, AnswerOK, RecordedRetryIsReplayed,
         [Next]_vars
  PROVE  RecordedRetryIsReplayed'
<1> USE DEF callVars, tables
<1> DEFINE Fine(p) == known'[p] /\ pc'[p] = "answered" => reply'[p] \in {"replayed", "DATABASE_UNAVAILABLE"}
           Others(p) == \A q \in Proc : q # p => /\ pc'[q] = pc[q] /\ known'[q] = known[q]
                                                 /\ reply'[q] = reply[q]
<1>0. ASSUME NEW p \in Proc, Fine(p), Others(p) PROVE RecordedRetryIsReplayed'
  BY <1>0 DEF RecordedRetryIsReplayed
<1>a. \A p \in Proc : known[p] => ReplayReply(req[p]) = "replayed"
  BY RetryReplayed DEF KnownOK
<1>b. \A p \in Proc : tx[p] # "none" \/ pc[p] = "recoveringSource" => ~known[p]
  BY DEF CallOK, OpenCallOK, Open
<1>1. ASSUME NEW p \in Proc, NEW r \in Request, Call(p, r) PROVE RecordedRetryIsReplayed'
  <2>1. Others(p) /\ (known'[p] <=> r \in Taken) /\ (pc'[p] = "answered" => Refused(r))
    BY <1>1, TakenIs DEF Call, Answer, TypeOK
  <2>2. Fine(p)
    BY <2>1, RecordedInOrder
  <2> QED
    BY <1>0, <2>1, <2>2
<1>2. ASSUME NEW p \in Proc, CreateLock(p) PROVE RecordedRetryIsReplayed'
  <2>1. Others(p) /\ known' = known
        /\ (pc'[p] = "answered" => reply'[p] = CreateReply(req[p], past[p]))
    BY <1>2 DEF CreateLock, Answer, TypeOK
  <2>2. Fine(p)
    BY <1>a, <2>1 DEF CreateReply
  <2> QED
    BY <1>0, <2>1, <2>2
<1>3. ASSUME NEW p \in Proc, TransitionSnapshot(p) PROVE RecordedRetryIsReplayed'
  <2>1. Others(p) /\ known' = known
        /\ (pc'[p] = "answered" => reply'[p] = IF ReplayReply(req[p]) # "none" THEN ReplayReply(req[p]) ELSE "INPUT_INVALID")
    BY <1>3 DEF TransitionSnapshot, Answer, TypeOK
  <2>2. Fine(p)
    BY <1>a, <2>1
  <2> QED
    BY <1>0, <2>1, <2>2
<1>4. ASSUME NEW p \in Proc, TransitionLock(p) PROVE RecordedRetryIsReplayed'
  <2>1. Others(p) /\ known' = known /\ tx[p] # "none"
    BY <1>4 DEF TransitionLock, Answer, TypeOK
  <2> QED
    BY <1>0, <1>b, <2>1
<1>5. ASSUME NEW p \in Proc, TransitionWrite(p) PROVE RecordedRetryIsReplayed'
  <2>1. Others(p) /\ known' = known /\ tx[p] # "none"
    BY <1>5 DEF TransitionWrite, Answer, TypeOK
  <2> QED
    BY <1>0, <1>b, <2>1
<1>6. ASSUME NEW p \in Proc, CommitAnswered(p) PROVE RecordedRetryIsReplayed'
  <2>1. Others(p) /\ known' = known /\ tx[p] # "none"
    BY <1>6 DEF CommitAnswered, Commit, Answer, TypeOK
  <2> QED
    BY <1>0, <1>b, <2>1
<1>7. ASSUME NEW p \in Proc, RecoverCommand(p) PROVE RecordedRetryIsReplayed'
  <2>1. Others(p) /\ known' = known
    BY <1>7 DEF RecoverCommand, Answer, TypeOK
  <2>2. Fine(p)
    BY <1>7, <1>a DEF RecoverCommand, Answer, TypeOK
  <2> QED
    BY <1>0, <2>1, <2>2
<1>8. ASSUME NEW p \in Proc, RecoverSource(p) PROVE RecordedRetryIsReplayed'
  <2>1. Others(p) /\ known' = known /\ pc[p] = "recoveringSource"
    BY <1>8 DEF RecoverSource, Answer, TypeOK
  <2> QED
    BY <1>0, <1>b, <2>1
<1>9. ASSUME NEW p \in Proc,
             CommitUnheard(p) \/ Disconnect(p) \/ Abort(p) \/ Return(p) \/ Die(p)
      PROVE  RecordedRetryIsReplayed'
  <2>1. Others(p) /\ pc'[p] # "answered"
    BY <1>9 DEF CommitUnheard, Disconnect, Abort, Return, Die, TypeOK
  <2> QED
    BY <1>0, <2>1
<1>10. ASSUME NEW p \in Proc,
              CreateWrite(p) \/ TransitionEnter(p) \/ CommitOrphan(p) \/ Rollback(p)
       PROVE  RecordedRetryIsReplayed'
  <2>1. UNCHANGED <<pc, known, reply>>
    BY <1>10 DEF CreateWrite, TransitionEnter, CommitOrphan, Rollback
  <2> QED
    BY <2>1 DEF RecordedRetryIsReplayed
<1>11. CASE NextDay \/ UNCHANGED vars
  <2>1. UNCHANGED <<pc, known, reply>>
    BY <1>11 DEF NextDay, vars
  <2> QED
    BY <2>1 DEF RecordedRetryIsReplayed
<1> QED
  BY <1>1, <1>2, <1>3, <1>4, <1>5, <1>6, <1>7, <1>8, <1>9, <1>10, <1>11 DEF Next, Step

-----------------------------------------------------------------------------
(* The invariant, with the history of the ledger. *)

HInv == IInv /\ HistoryOK /\ ClaimOK /\ CallOK /\ KnownOK /\ RecordedRetryIsReplayed

\* HInv holds of the empty ledger.
LEMMA InitHistory == Init => HInv
<1> SUFFICES ASSUME Init PROVE HInv
  OBVIOUS
<1>1. IInv
  BY InitInv
<1>2. NoRow.version = 0 /\ NoRow.owner = None /\ DOMAIN << >> = {}
  BY DEF NoRow
<1>3. HistoryOK
  BY <1>2 DEF Init, HistoryOK, CommitmentOK, Present
<1>4. ClaimOK
  BY <1>2, NullAssumption DEF Init, ClaimOK, OnlyTheClaimerWorks
<1>5. CallOK /\ KnownOK /\ RecordedRetryIsReplayed
  BY DEF Init, CallOK, Open, KnownOK, RecordedRetryIsReplayed
<1> QED
  BY <1>1, <1>3, <1>4, <1>5 DEF HInv

\* HInv is inductive.
LEMMA StepHistory == HInv /\ [Next]_vars => HInv'
<1> SUFFICES ASSUME HInv, [Next]_vars PROVE HInv'
  OBVIOUS
<1>1. IInv' /\ TypeOK /\ SessionOK /\ LockOK /\ AnswerOK /\ TypeOK'
  BY StepInv DEF HInv, IInv
<1>2. today' \in Nat /\ today <= today'
  BY <1>1, TodayRises
<1>3. HistoryOK'
  BY <1>1, <1>2, OnlyCommitWrites, CommitLeavesOrder, OrderKept DEF HInv
<1>4. ClaimOK'
  <2>1. CASE UNCHANGED tables
    BY <2>1 DEF HInv, ClaimOK, OnlyTheClaimerWorks, Claimed, tables
  <2> QED
    BY <1>1, <2>1, OnlyCommitWrites, CommitKeepsClaims DEF HInv
<1>5. CallOK'
  BY <1>1, CallStep DEF HInv
<1>6. KnownOK' /\ RecordedRetryIsReplayed'
  BY <1>1, EveryStepGrows, KnownStep, RetryStep DEF HInv
<1> QED
  BY <1>1, <1>3, <1>4, <1>5, <1>6 DEF HInv

\* HInv holds in every state of every behaviour.
THEOREM History == Spec => []HInv
<1>1. Init => HInv
  BY InitHistory
<1>2. HInv /\ [Next]_vars => HInv'
  BY StepHistory
<1> QED
  BY <1>1, <1>2, PTL DEF Spec

\* Each row and its timeline satisfy what every list demands of them, the order
\* in time apart, and the CHECK constraints of the tables never fail.
THEOREM RecordsAccepted == Spec => []RecordsAreAccepted
<1>1. HInv => RecordsAreAccepted
  BY DEF HInv, HistoryOK, CommitmentOK, RecordsAreAccepted, InspectTimeline
<1> QED
  BY <1>1, History, PTL

\* Work on a commitment is only recorded of a user who claimed it in the role
\* of its assignee.
THEOREM ClaimerWorks == Spec => []OnlyTheClaimerWorks
<1>1. HInv => OnlyTheClaimerWorks
  BY DEF HInv, ClaimOK
<1> QED
  BY <1>1, History, PTL

\* The retry of a recorded command is replayed or not answered at all.
THEOREM RetryIsReplayed == Spec => []RecordedRetryIsReplayed
<1>1. HInv => RecordedRetryIsReplayed
  BY DEF HInv
<1> QED
  BY <1>1, History, PTL

-----------------------------------------------------------------------------
(* The order of timelines in time, when callers wait for what they quote. *)

\* a transition quotes a version its commitment has already reached
QuotesReached(r) == ~IsCreate(r) => r.expected <= row[r.commitment].version

\* Callers that take the version from a list, as the page does, quote no other.
CallersQuoteReached == [][\A p \in Proc, r \in Request : Call(p, r) => QuotesReached(r)]_vars

Busy(p) == pc[p] # "idle" \/ tx[p] # "none"

\* A transition that would still find the version it quotes began after all its
\* commitment's events did.
BeganAfter(p) ==
  LET r == req[p]
      c == req[p].commitment IN
  ~IsCreate(r) =>
    /\ r.expected <= row[c].version
    /\ r.expected = row[c].version => \A i \in DOMAIN events[c] : events[c][i].at <= began[p]

TimeInv ==
  /\ TimelinesRise
  /\ \A c \in CommitmentId : \A i \in DOMAIN events[c] : events[c][i].at <= today
  /\ \A p \in Proc : Busy(p) => BeganAfter(p)

\* Only Call changes what a call asks for, and when it began.
LEMMA OnlyCallAsks ==
  ASSUME TypeOK, [Next]_vars
  PROVE  \/ \E p \in Proc, r \in Request : Call(p, r)
         \/ UNCHANGED <<req, began>> /\ \A p \in Proc : Busy(p)' => Busy(p)
<1> USE DEF callVars, Busy, TypeOK
<1>1. ASSUME NEW p \in Proc, Step(p) \/ Die(p)
      PROVE  UNCHANGED <<req, began>> /\ \A q \in Proc : Busy(q)' => Busy(q)
  <2>1. UNCHANGED <<req, began>>
    BY <1>1 DEF Step, CreateLock, CreateWrite, TransitionSnapshot, TransitionLock, TransitionEnter,
       TransitionWrite, CommitAnswered, CommitUnheard, Disconnect, CommitOrphan, Rollback, Abort,
       RecoverCommand, RecoverSource, Return, Die
  <2>2. Busy(p) /\ \A q \in Proc : q # p => pc'[q] = pc[q] /\ tx'[q] = tx[q]
    BY <1>1 DEF Step, CreateLock, CreateWrite, TransitionSnapshot, TransitionLock, TransitionEnter,
       TransitionWrite, CommitAnswered, CommitUnheard, Disconnect, CommitOrphan, Rollback, Abort,
       RecoverCommand, RecoverSource, Return, Die, Answer, Commit
  <2> QED
    BY <2>1, <2>2
<1>2. CASE NextDay \/ UNCHANGED vars
  BY <1>2 DEF NextDay, vars
<1> QED
  BY <1>1, <1>2 DEF Next

\* A call arrives: everything that is recorded began before it.
LEMMA CallBeganAfter ==
  ASSUME TypeOK, TimeInv, NEW p \in Proc, NEW r \in Request, Call(p, r), QuotesReached(r)
  PROVE  TimeInv'
<1>1. /\ UNCHANGED tables /\ today' = today /\ req'[p] = r /\ began'[p] = today
      /\ \A q \in Proc : q # p => /\ req'[q] = req[q] /\ began'[q] = began[q]
                                  /\ pc'[q] = pc[q] /\ tx'[q] = tx[q]
  BY DEF Call, Answer, TypeOK
<1>2. TimelinesRise'
  BY <1>1 DEF TimeInv, TimelinesRise, tables
<1>3. BeganAfter(p)'
  <2>1. ~IsCreate(r) => r.commitment \in CommitmentId
    BY RequestFields
  <2> QED
    BY <1>1, <2>1 DEF BeganAfter, QuotesReached, TimeInv, tables
<1>4. \A q \in Proc : q # p /\ Busy(q)' => BeganAfter(q)'
  BY <1>1 DEF BeganAfter, Busy, TimeInv, tables
<1> QED
  BY <1>1, <1>2, <1>3, <1>4 DEF TimeInv, tables

\* Events carry the day they began.
LEMMA EventDays ==
  ASSUME TypeOK, NEW c \in CommitmentId, NEW i \in DOMAIN events[c]
  PROVE  i \in Nat /\ events[c][i].at \in Nat
<1>1. events[c] \in Seq(Event) /\ i \in 1 .. Len(events[c])
  BY DEF TypeOK
<1>2. events[c][i] \in Event
  BY <1>1
<1> QED
  BY <1>1, <1>2 DEF Event

\* A commit adds an event that began no earlier than those before it.
LEMMA CommitBeganAfter ==
  ASSUME TypeOK, TypeOK', SessionOK, HistoryOK, CallOK, TimeInv, today <= today', today' \in Nat,
         NEW p \in Proc, Commit(p),
         UNCHANGED <<req, began>>, \A q \in Proc : Busy(q)' => Busy(q)
  PROVE  TimeInv'
<1> DEFINE r == req[p]
<1>1. PICK c \in CommitmentId :
        /\ IF IsCreate(r) THEN ~Present(c) ELSE c = r.commitment
        /\ row'[c] = IF IsCreate(r) THEN NewRow(r) ELSE UpdatedRow(row[c], r)
        /\ events'[c] = Append(events[c], NewEvent(r, row[c], began[p]))
        /\ \A d \in CommitmentId \ {c} : row'[d] = row[d] /\ events'[d] = events[d]
  BY CommitDetail
<1> DEFINE e == NewEvent(r, row[c], began[p])
           n == Len(events[c])
<1>2. /\ e.at = began[p] /\ began[p] \in Nat /\ today \in Nat /\ began[p] <= today
      /\ events[c] \in Seq(Event) /\ r \in Request
      /\ n \in Nat /\ DOMAIN events[c] = 1 .. n /\ DOMAIN events'[c] = 1 .. n + 1
      /\ Len(events'[c]) = n + 1 /\ events'[c][n + 1] = e
      /\ \A i \in 1 .. n : events'[c][i] = events[c][i]
  BY <1>1, CommitterFacts DEF NewEvent, TypeOK
<1>3. \A i \in 1 .. n : events[c][i].at <= began[p]
  <2>1. CASE IsCreate(r)
    BY <1>1, <1>2, <2>1 DEF HistoryOK, CommitmentOK
  <2>2. CASE ~IsCreate(r)
    <3>1. r.expected = row[c].version
      BY <1>1, <2>2, CommitterFacts DEF TransitionReply
    <3> QED
      BY <1>1, <1>2, <2>2, <3>1 DEF TimeInv, Busy, BeganAfter, Commit
  <2> QED
    BY <2>1, <2>2
<1>4. \A d \in CommitmentId : \A i \in DOMAIN events'[d] : events'[d][i].at <= today'
  <2> SUFFICES ASSUME NEW d \in CommitmentId, NEW i \in DOMAIN events'[d]
               PROVE  events'[d][i].at <= today'
    OBVIOUS
  <2>1. CASE i \in DOMAIN events[d] /\ events'[d][i] = events[d][i]
    <3>1. events[d][i].at \in Nat /\ events[d][i].at <= today
      BY <2>1, EventDays DEF TimeInv
    <3> QED
      BY <1>2, <2>1, <3>1
  <2>2. CASE d = c /\ events'[d][i] = e
    BY <1>2, <2>2
  <2>3. d = c => i \in 1 .. n \/ i = n + 1
    BY <1>2
  <2> QED
    BY <1>1, <1>2, <2>1, <2>2, <2>3
<1>5. TimelinesRise'
  <2>1. TimesRise(events'[c])
    <3> SUFFICES ASSUME NEW i \in 2 .. n + 1 PROVE events'[c][i-1].at <= events'[c][i].at
      BY <1>2 DEF TimesRise
    <3>1. CASE i = n + 1
      BY <1>2, <1>3, <3>1
    <3>2. CASE i \in 2 .. n
      <4>0. i \in 1 .. n /\ i - 1 \in 1 .. n
        BY <3>2
      <4>1. events'[c][i-1] = events[c][i-1] /\ events'[c][i] = events[c][i]
        BY <1>2, <4>0
      <4>2. events[c][i-1].at <= events[c][i].at
        <5>1. TimesRise(events[c])
          BY DEF TimeInv, TimelinesRise
        <5>2. i \in 2 .. Len(events[c])
          BY <3>2
        <5> QED
          BY <5>1, <5>2 DEF TimesRise
      <4> QED
        BY <4>1, <4>2
    <3> QED
      BY <1>2, <3>1, <3>2
  <2> QED
    BY <1>1, <2>1 DEF TimeInv, TimelinesRise
<1>6. ASSUME NEW q \in Proc, Busy(q)', ~IsCreate(req[q]) PROVE BeganAfter(q)'
  <2> DEFINE d == req[q].commitment
  <2>1. BeganAfter(q) /\ req[q] \in Request /\ d \in CommitmentId /\ req[q].expected \in Nat
    BY <1>6, RequestFields DEF TimeInv, TypeOK
  <2>2. CASE d # c
    <3>1. row'[d] = row[d] /\ events'[d] = events[d]
      BY <1>1, <2>1, <2>2
    <3> QED
      BY <2>1, <3>1 DEF BeganAfter
  <2>3. CASE d = c
    <3>1. /\ req[q].expected <= row[c].version /\ row[c].version \in Nat
          /\ req[q].expected >= 1
      BY <1>6, <2>1, <2>3, RequestAssumption DEF BeganAfter, TypeOK, Row
    <3>2. row'[c].version = row[c].version + 1
      <4>0. Present(c) /\ row[c] \in Row
        BY <2>1, <3>1 DEF Present, TypeOK
      <4>1. ~IsCreate(r) /\ row'[c] = UpdatedRow(row[c], r) /\ row[c] \in Row
        BY <1>1, <4>0
      <4>2. TransitionReply(row[c], r) = "none"
        <5>1. c = r.commitment
          BY <1>1, <4>1
        <5>2. TransitionReply(row[r.commitment], r) = "none"
          BY <4>1, CommitterFacts
        <5> QED
          BY <5>1, <5>2
      <4> QED
        BY <1>2, <4>1, <4>2, UpdatedRowType
    <3> QED
      BY <1>1, <2>1, <2>3, <3>1, <3>2 DEF BeganAfter
  <2> QED
    BY <2>2, <2>3
<1> QED
  BY <1>4, <1>5, <1>6 DEF TimeInv, BeganAfter

\* TimeInv is kept by every step whose calls quote what is reached.
LEMMA StepTime ==
  ASSUME HInv, HInv', TimeInv, [Next]_vars,
         \A p \in Proc, r \in Request : Call(p, r) => QuotesReached(r)
  PROVE  TimeInv'
<1>1. TypeOK /\ TypeOK' /\ SessionOK /\ HistoryOK /\ CallOK
  BY DEF HInv, IInv
<1>2. today' \in Nat /\ today \in Nat /\ today <= today'
  BY <1>1, TodayRises
<1>3. CASE \E p \in Proc, r \in Request : Call(p, r)
  BY <1>1, <1>3, CallBeganAfter
<1>4. CASE UNCHANGED <<req, began>> /\ \A p \in Proc : Busy(p)' => Busy(p)
  <2>1. CASE UNCHANGED tables
    <3>1. \A c \in CommitmentId : \A i \in DOMAIN events[c] : events[c][i].at \in Nat
      BY <1>1, EventDays
    <3>2. \A c \in CommitmentId : \A i \in DOMAIN events[c] : events[c][i].at <= today'
      BY <1>2, <3>1 DEF TimeInv
    <3> QED
      BY <1>4, <2>1, <3>2 DEF TimeInv, TimelinesRise, BeganAfter, tables
  <2>2. CASE \E p \in Proc : Commit(p)
    BY <1>1, <1>2, <1>4, <2>2, CommitBeganAfter
  <2> QED
    BY <2>1, <2>2, OnlyCommitWrites
<1> QED
  BY <1>1, <1>3, <1>4, OnlyCallAsks

\* While callers quote only versions that a list can have shown them, no
\* timeline goes back in time, whatever races, waits and orphans there are: it
\* is a caller running ahead of the ledger that makes one unreadable.
THEOREM TimelinesInOrder == Spec /\ CallersQuoteReached => []TimelinesRise
<1>1. Init => TimeInv
  BY DEF Init, TimeInv, TimelinesRise, TimesRise, Busy
<1>2. HInv /\ HInv' /\ TimeInv /\ [Next]_vars
        /\ [\A p \in Proc, r \in Request : Call(p, r) => QuotesReached(r)]_vars => TimeInv'
  <2> SUFFICES ASSUME HInv, HInv', TimeInv, [Next]_vars,
                      [\A p \in Proc, r \in Request : Call(p, r) => QuotesReached(r)]_vars
               PROVE  TimeInv'
    OBVIOUS
  <2>1. CASE \A p \in Proc, r \in Request : Call(p, r) => QuotesReached(r)
    BY <2>1, StepTime
  <2>2. CASE UNCHANGED vars
    BY <2>2 DEF vars, TimeInv, TimelinesRise, BeganAfter, Busy
  <2> QED
    BY <2>1, <2>2
<1>3. TimeInv => TimelinesRise
  BY DEF TimeInv
<1> QED
  BY <1>1, <1>2, <1>3, History, PTL DEF Spec, CallersQuoteReached

-----------------------------------------------------------------------------
(* The transactions implement the atomic ledger. *)

\* what each call has been told, for LedgerService
Heard == [p \in Proc |-> Told(p)]

\* The rules are the same on both sides.
LEMMA SameRules ==
  ASSUME NEW r, NEW rw
  PROVE  /\ Service!IsCreate(r) <=> IsCreate(r)
         /\ Service!TransitionReply(rw, r) = TransitionReply(rw, r)
         /\ Service!NewRow(r) = NewRow(r) /\ Service!UpdatedRow(rw, r) = UpdatedRow(rw, r)
         /\ Service!NoRow = NoRow
<1>1. /\ Service!IsCreate(r) <=> IsCreate(r)
      /\ Service!NewRow(r) = NewRow(r) /\ Service!NoRow = NoRow
  BY DEF Service!IsCreate, IsCreate, Service!NewRow, NewRow, Service!NoRow, NoRow
<1>2. Service!To(r.command, rw.state) = To(r.command, rw.state)
  BY DEF Service!To, To
<1>3. Service!UpdatedRow(rw, r) = UpdatedRow(rw, r)
  BY <1>2 DEF Service!UpdatedRow, UpdatedRow
<1>4. Service!From(r.command) = From(r.command)
  BY DEF Service!From, From, Service!Live, Live
<1>5. Service!TransitionRefusal(rw, r) = TransitionRefusal(rw, r)
  BY <1>4 DEF Service!TransitionRefusal, TransitionRefusal
<1> QED
  BY <1>1, <1>3, <1>5 DEF Service!TransitionReply, TransitionReply

\* So is the counting.
LEMMA SameCount ==
  ASSUME NEW S
  PROVE  Service!Cardinality(S) = Cardinality(S)
BY DEF Service!Cardinality, Cardinality

\* What a call has been told, by where it stands.
LEMMA ToldIs ==
  ASSUME NEW p \in Proc
  PROVE  /\ pc[p] = "idle" => Told(p) = IF tx[p] = "written" THEN "left" ELSE "gone"
         /\ pc[p] = "answered" => Told(p) = Meaning(reply[p])
         /\ pc[p] \notin {"idle", "answered"} => Told(p) = "waiting"
         /\ pc'[p] = "idle" => Told(p)' = IF tx'[p] = "written" THEN "left" ELSE "gone"
         /\ pc'[p] = "answered" => Told(p)' = Meaning(reply'[p])
         /\ pc'[p] \notin {"idle", "answered"} => Told(p)' = "waiting"
BY DEF Told

\* What an answer tells.
LEMMA MeaningIs ==
  ASSUME NEW answer
  PROVE  /\ Meaning(answer) \in {"done", "refused", "unsure"}
         /\ Meaning(answer) = "done" <=> answer \in Success
         /\ Meaning(answer) = "refused" <=> answer \in Refusal \ {"COMMITMENT_ALREADY_EXISTS"}
<1>1. CASE answer \in Success
  BY <1>1 DEF Meaning, Success, Refusal
<1>2. CASE answer \in Refusal \ {"COMMITMENT_ALREADY_EXISTS"}
  BY <1>2 DEF Meaning, Success, Refusal
<1>3. CASE answer \notin Success /\ answer \notin Refusal \ {"COMMITMENT_ALREADY_EXISTS"}
  BY <1>3 DEF Meaning
<1> QED
  BY <1>1, <1>2, <1>3

\* A step of p tells nobody else anything.
LEMMA HeardBy ==
  ASSUME NEW p \in Proc,
         \A q \in Proc : q # p => pc'[q] = pc[q] /\ tx'[q] = tx[q] /\ reply'[q] = reply[q]
  PROVE  Heard' = [Heard EXCEPT ![p] = Told(p)']
<1>1. \A q \in Proc : q # p => Told(q)' = Told(q)
  BY DEF Told
<1> QED
  BY <1>1 DEF Heard

\* Telling p what it already knew is not a step of the service.
LEMMA SilentStep ==
  ASSUME NEW p \in Proc, UNCHANGED tables, UNCHANGED req, Told(p)' = Told(p),
         \A q \in Proc : q # p => pc'[q] = pc[q] /\ tx'[q] = tx[q] /\ reply'[q] = reply[q]
  PROVE  [Service!Next]_Service!vars
<1>1. Heard' = Heard
  BY HeardBy DEF Heard
<1>2. Taken' = Taken /\ row' = row
  BY DEF tables, Taken
<1> QED
  BY <1>1, <1>2 DEF Service!vars, Heard

\* An answer that the ledger bears out tells the caller.
LEMMA TellStep ==
  ASSUME TypeOK, AnswerOK, TypeOK', AnswerOK', NEW p \in Proc, NEW answer, Answer(p, answer),
         UNCHANGED tables, UNCHANGED req, pc[p] \notin {"idle", "answered"},
         \A q \in Proc : q # p => tx'[q] = tx[q],
         answer \in Success => req[p] \in Taken,
         answer \in Refusal \ {"COMMITMENT_ALREADY_EXISTS"} => req[p] \notin Taken
  PROVE  [Service!Next]_Service!vars
<1>1. /\ pc'[p] = "answered" /\ reply'[p] = answer
      /\ \A q \in Proc : q # p => pc'[q] = pc[q] /\ reply'[q] = reply[q]
  BY DEF Answer, TypeOK
<1> DEFINE t == Meaning(answer)
<1>2. Told(p)' = t
  BY <1>1, ToldIs
<1>3. Heard[p] = "waiting"
  BY ToldIs DEF Heard
<1>4. Heard' = [Heard EXCEPT ![p] = t]
  BY <1>1, <1>2, HeardBy
<1>5. Taken' = Taken /\ row' = row
  BY DEF tables, Taken
<1>6. Service!Tell(p, t)
  BY <1>3, <1>4, <1>5, MeaningIs DEF Service!Tell, Heard
<1>7. t \in Service!Answers
  BY MeaningIs DEF Service!Answers
<1> QED
  BY <1>6, <1>7 DEF Service!Next

\* A caller that goes, leaving its request behind or not, leaves.
LEMMA LeaveStep ==
  ASSUME TypeOK, AnswerOK, TypeOK', AnswerOK', NEW p \in Proc, UNCHANGED tables, UNCHANGED req,
         pc'[p] = "idle", pc[p] # "idle" \/ (tx[p] = "written" /\ tx'[p] = "none"),
         tx'[p] = "written" => tx[p] = "written",
         \A q \in Proc : q # p => pc'[q] = pc[q] /\ tx'[q] = tx[q] /\ reply'[q] = reply[q]
  PROVE  [Service!Next]_Service!vars
<1>1. Told(p)' = IF tx'[p] = "written" THEN "left" ELSE "gone"
  BY ToldIs
<1>2. Heard' = [Heard EXCEPT ![p] = Told(p)']
  BY HeardBy
<1>3. Heard[p] = Told(p) /\ Told(p) # "gone"
  BY ToldIs, MeaningIs DEF Heard
<1>4. Told(p) = "refused" => tx[p] = "none"
  BY ToldIs, MeaningIs DEF AnswerOK, Truthful
<1>5. Taken' = Taken /\ row' = row
  BY DEF tables, Taken
<1>6. Service!Leave(p)
  BY <1>1, <1>2, <1>3, <1>4, <1>5 DEF Service!Leave, Heard
<1> QED
  BY <1>6 DEF Service!Next

\* A commit takes the request, and its caller hears of it or not.
LEMMA TakeStep ==
  ASSUME HInv, HInv', NEW p \in Proc, Commit(p), today <= today', UNCHANGED req,
         \/ Told(p)' = Told(p)
         \/ Told(p) = "waiting" /\ Told(p)' = "done"
         \/ Told(p) = "left" /\ Told(p)' = "gone",
         \A q \in Proc : q # p => pc'[q] = pc[q] /\ reply'[q] = reply[q]
  PROVE  [Service!Next]_Service!vars
<1> DEFINE r == req[p]
<1>1. TypeOK /\ SessionOK /\ AnswerOK /\ HistoryOK /\ CallOK
  BY DEF HInv, IInv
<1>2. /\ tx[p] = "written" /\ \A q \in Proc : q # p => tx'[q] = tx[q]
  BY <1>1 DEF Commit, TypeOK
<1>3. Heard' = [Heard EXCEPT ![p] = Told(p)'] /\ Heard[p] = Told(p)
  BY <1>2, HeardBy DEF Heard
<1>4. Told(p) \notin {"refused", "gone"}
  BY <1>1, <1>2, ToldIs, MeaningIs DEF AnswerOK, Truthful
<1>5. \A t \in Taken : t.id # r.id
  BY <1>1, <1>2, TakenIs DEF SessionOK
<1>6. Taken' = Taken \cup {r}
  BY <1>1, CommitGrows
<1>7. PICK c \in CommitmentId :
        /\ IF IsCreate(r) THEN ~Present(c) ELSE c = r.commitment
        /\ row' = [row EXCEPT ![c] = IF IsCreate(r) THEN NewRow(r) ELSE UpdatedRow(@, r)]
  BY DEF Commit
<1>8. Service!Allowed(r, c)
  <2>1. CASE IsCreate(r)
    <3>1. row[c] = NoRow
      BY <1>1, <1>7, <2>1 DEF HistoryOK, CommitmentOK
    <3>2. ~EvidenceTaken(r.evidence) /\ Count < MaxCommitments
      BY <1>1, <1>2, <2>1 DEF SessionOK, HoldsTenant
    <3>3. \A d \in CommitmentId : row[d].version # 0 => row[d].evidence # r.evidence
      BY <3>2 DEF EvidenceTaken, Present
    <3>4. Cardinality({d \in CommitmentId : row[d].version # 0}) < MaxCommitments
      BY <3>2 DEF Count, Present
    <3>5. Service!IsCreate(r) /\ row[c] = Service!NoRow
      BY <2>1, <3>1, SameRules
    <3> QED
      BY <3>3, <3>4, <3>5, SameCount DEF Service!Allowed
  <2>2. CASE ~IsCreate(r)
    <3>1. c = r.commitment /\ TransitionReply(row[c], r) = "none"
      BY <1>1, <1>2, <1>7, <2>2 DEF SessionOK
    <3> QED
      BY <2>2, <3>1, SameRules DEF Service!Allowed
  <2> QED
    BY <2>1, <2>2
<1>9. row' = [row EXCEPT ![c] = IF Service!IsCreate(r) THEN Service!NewRow(r)
                                ELSE Service!UpdatedRow(row[c], r)]
  BY <1>1, <1>7, SameRules DEF TypeOK
<1>10. \/ Heard' = Heard
       \/ Heard[p] = "waiting" /\ Heard' = [Heard EXCEPT ![p] = "done"]
       \/ Heard[p] = "left" /\ Heard' = [Heard EXCEPT ![p] = "gone"]
  BY <1>3 DEF Heard
<1>11. Service!Take(p)
  BY <1>3, <1>4, <1>5, <1>6, <1>8, <1>9, <1>10 DEF Service!Take, Heard
<1> QED
  BY <1>11 DEF Service!Next

\* Every step of the transactions is a step of the service, or none.
LEMMA RefinementStep == HInv /\ HInv' /\ [Next]_vars => [Service!Next]_Service!vars
<1> SUFFICES ASSUME HInv, HInv', [Next]_vars PROVE [Service!Next]_Service!vars
  OBVIOUS
<1>0. /\ TypeOK /\ SessionOK /\ AnswerOK /\ HistoryOK /\ CallOK /\ TypeOK' /\ AnswerOK'
      /\ today <= today'
  BY TodayRises DEF HInv, IInv
<1>a. \A p \in Proc : Truthful(p) /\ (Open(p) => OpenCallOK(p))
  BY <1>0 DEF AnswerOK, CallOK
<1> USE DEF callVars
<1>1. ASSUME NEW p \in Proc, NEW r \in Request, Call(p, r) PROVE [Service!Next]_Service!vars
  <2>1. /\ pc[p] = "idle" /\ tx[p] = "none" /\ req' = [req EXCEPT ![p] = r] /\ UNCHANGED tables
        /\ \A q \in Proc : q # p => pc'[q] = pc[q] /\ tx'[q] = tx[q] /\ reply'[q] = reply[q]
    BY <1>0, <1>1 DEF Call, Answer, TypeOK
  <2>2. \/ Refused(r) /\ pc'[p] = "answered" /\ reply'[p] = "INPUT_INVALID"
        \/ pc'[p] = "called"
    BY <1>0, <1>1 DEF Call, Answer, TypeOK
  <2>3. Heard[p] = "gone" /\ Heard' = [Heard EXCEPT ![p] = Told(p)']
    BY <2>1, ToldIs, HeardBy DEF Heard
  <2>4. Refused(r) => r \notin Taken
    BY <1>0, RecordedInOrder
  <2>5. Told(p)' = "waiting" \/ (Told(p)' = "refused" /\ r \notin Taken)
    <3>1. Meaning("INPUT_INVALID") = "refused"
      BY MeaningIs DEF Refusal
    <3> QED
      BY <2>2, <2>4, <3>1, ToldIs
  <2>6. Taken' = Taken /\ row' = row
    BY <2>1 DEF tables, Taken
  <2>7. Service!Ask(p, r)
    BY <2>1, <2>3, <2>5, <2>6 DEF Service!Ask, Heard
  <2> QED
    BY <2>7 DEF Service!Next
<1>2. ASSUME NEW p \in Proc, CreateLock(p) PROVE [Service!Next]_Service!vars
  <2> DEFINE a == CreateReply(req[p], past[p])
  <2>1. /\ pc[p] = "called" /\ tx[p] = "none" /\ UNCHANGED <<tables, req>>
        /\ \A q \in Proc : q # p => pc'[q] = pc[q] /\ tx'[q] = tx[q] /\ reply'[q] = reply[q]
    BY <1>0, <1>2, <1>a DEF CreateLock, Answer, TypeOK, Truthful
  <2>2. CASE a = "none"
    <3>1. pc'[p] = "inTx"
      BY <1>0, <1>2, <2>2 DEF CreateLock, TypeOK
    <3> QED
      BY <2>1, <3>1, ToldIs, SilentStep
  <2>3. CASE a # "none"
    <3>1. Answer(p, a)
      BY <1>2, <2>3 DEF CreateLock
    <3>2. a \in Success => req[p] \in Taken
      BY CreateMeans, TakenIs
    <3>3. a \in Refusal => req[p] \notin Taken
      BY ReplayMeans, NotReplayed, TakenIs DEF CreateReply
    <3> QED
      BY <1>0, <2>1, <3>1, <3>2, <3>3, TellStep
  <2> QED
    BY <2>2, <2>3
<1>3. ASSUME NEW p \in Proc, TransitionSnapshot(p) PROVE [Service!Next]_Service!vars
  <2> DEFINE y == ReplayReply(req[p])
             a == IF y # "none" THEN y ELSE "INPUT_INVALID"
  <2>1. /\ pc[p] = "called" /\ UNCHANGED <<tables, req>>
        /\ \A q \in Proc : q # p => pc'[q] = pc[q] /\ tx'[q] = tx[q] /\ reply'[q] = reply[q]
    BY <1>0, <1>3 DEF TransitionSnapshot, Answer, TypeOK
  <2>2. CASE pc'[p] = "inTx"
    BY <2>1, <2>2, ToldIs, SilentStep
  <2>3. CASE Answer(p, a)
    <3>1. a \in Success => req[p] \in Taken
      BY ReplayMeans, TakenIs DEF Success
    <3>2. a \in Refusal => req[p] \notin Taken
      BY ReplayMeans, NotReplayed, TakenIs
    <3> QED
      BY <1>0, <2>1, <2>3, <3>1, <3>2, TellStep
  <2> QED
    BY <1>0, <1>3, <2>2, <2>3 DEF TransitionSnapshot, TypeOK
<1>4. ASSUME NEW p \in Proc, TransitionLock(p) PROVE [Service!Next]_Service!vars
  <2> DEFINE c == req[p].commitment
             a == IF snap[p] = 0 THEN "COMMITMENT_NOT_FOUND" ELSE TransitionReply(row[c], req[p])
  <2>1. /\ pc[p] = "inTx" /\ tx[p] = "snapshot" /\ UNCHANGED <<tables, req>>
        /\ \A q \in Proc : q # p => pc'[q] = pc[q] /\ tx'[q] = tx[q] /\ reply'[q] = reply[q]
    BY <1>0, <1>4 DEF TransitionLock, Answer, TypeOK
  <2>2. CASE UNCHANGED <<pc, reply>>
    BY <2>1, <2>2, ToldIs, SilentStep
  <2>3. CASE Answer(p, a) /\ a # "none"
    <3>1. OpenCallOK(p) /\ ~IsCreate(req[p])
      BY <1>0, <1>a, <2>1 DEF Open, SessionOK
    <3>2. snap[p] # 0 /\ req[p] \notin Taken
      BY <1>4, <2>1, <3>1 DEF OpenCallOK, TransitionOK, TransitionLock
    <3>3. a \in Refusal
      BY <2>3, TransitionMeans DEF Refusal
    <3>4. a \notin Success
      BY <3>3 DEF Success, Refusal
    <3> QED
      BY <1>0, <2>1, <2>3, <3>2, <3>4, TellStep
  <2> QED
    BY <1>4, <2>2, <2>3 DEF TransitionLock
<1>5. ASSUME NEW p \in Proc, TransitionWrite(p) PROVE [Service!Next]_Service!vars
  <2>1. /\ pc[p] = "inTx" /\ UNCHANGED <<tables, req>>
        /\ \A q \in Proc : q # p => pc'[q] = pc[q] /\ tx'[q] = tx[q] /\ reply'[q] = reply[q]
        /\ UNCHANGED <<pc, reply>> \/ Answer(p, "DATA_INVALID")
    BY <1>0, <1>5 DEF TransitionWrite, Answer, TypeOK
  <2>2. "DATA_INVALID" \notin Success \cup Refusal
    BY DEF Success, Refusal
  <2> QED
    BY <1>0, <2>1, <2>2, ToldIs, SilentStep, TellStep
<1>6. ASSUME NEW p \in Proc, CommitAnswered(p) PROVE [Service!Next]_Service!vars
  <2>1. /\ pc[p] = "inTx" /\ Commit(p) /\ UNCHANGED req
        /\ pc'[p] = "answered" /\ reply'[p] \in Success
        /\ \A q \in Proc : q # p => pc'[q] = pc[q] /\ reply'[q] = reply[q]
    BY <1>0, <1>6 DEF CommitAnswered, Answer, TypeOK, Success
  <2>2. Told(p) = "waiting" /\ Told(p)' = "done"
    BY <2>1, ToldIs, MeaningIs
  <2> QED
    BY <1>0, <2>1, <2>2, TakeStep
<1>7. ASSUME NEW p \in Proc, CommitUnheard(p) PROVE [Service!Next]_Service!vars
  <2>1. /\ pc[p] = "inTx" /\ Commit(p) /\ UNCHANGED req /\ pc'[p] = "recovering"
        /\ \A q \in Proc : q # p => pc'[q] = pc[q] /\ reply'[q] = reply[q]
    BY <1>0, <1>7 DEF CommitUnheard, TypeOK
  <2>2. Told(p) = "waiting" /\ Told(p)' = "waiting"
    BY <2>1, ToldIs
  <2> QED
    BY <1>0, <2>1, <2>2, TakeStep
<1>8. ASSUME NEW p \in Proc, Disconnect(p) PROVE [Service!Next]_Service!vars
  <2>1. /\ pc[p] = "inTx" /\ pc'[p] = "recovering" /\ UNCHANGED <<tables, req, tx, reply>>
        /\ \A q \in Proc : q # p => pc'[q] = pc[q]
    BY <1>0, <1>8 DEF Disconnect, TypeOK
  <2> QED
    BY <2>1, ToldIs, SilentStep
<1>9. ASSUME NEW p \in Proc, CommitOrphan(p) PROVE [Service!Next]_Service!vars
  <2>1. /\ Commit(p) /\ UNCHANGED <<req, pc, reply>> /\ tx[p] = "written" /\ tx'[p] = "none"
    BY <1>0, <1>9 DEF CommitOrphan, Commit, TypeOK
  <2>2. Told(p)' = Told(p) \/ (Told(p) = "left" /\ Told(p)' = "gone")
    BY <2>1, ToldIs
  <2> QED
    BY <1>0, <2>1, <2>2, TakeStep
<1>10. ASSUME NEW p \in Proc, Rollback(p) PROVE [Service!Next]_Service!vars
  <2>1. /\ UNCHANGED <<tables, req, pc, reply>> /\ tx[p] = "written" /\ tx'[p] = "none"
        /\ \A q \in Proc : q # p => tx'[q] = tx[q]
    BY <1>0, <1>10 DEF Rollback, TypeOK
  <2>2. CASE pc[p] = "idle"
    BY <1>0, <2>1, <2>2, LeaveStep
  <2>3. CASE pc[p] # "idle"
    BY <2>1, <2>3, ToldIs, SilentStep
  <2> QED
    BY <2>2, <2>3
<1>11. ASSUME NEW p \in Proc, Abort(p) PROVE [Service!Next]_Service!vars
  <2>1. /\ pc[p] \in {"called", "inTx"} /\ pc'[p] = "recovering" /\ UNCHANGED <<tables, req, reply>>
        /\ \A q \in Proc : q # p => pc'[q] = pc[q] /\ tx'[q] = tx[q]
    BY <1>0, <1>11 DEF Abort, TypeOK
  <2> QED
    BY <2>1, ToldIs, SilentStep
<1>12. ASSUME NEW p \in Proc, RecoverCommand(p) PROVE [Service!Next]_Service!vars
  <2>1. /\ pc[p] = "recovering" /\ UNCHANGED <<tables, req, tx>>
        /\ \A q \in Proc : q # p => pc'[q] = pc[q] /\ reply'[q] = reply[q]
    BY <1>0, <1>12 DEF RecoverCommand, Answer, TypeOK
  <2>2. CASE pc'[p] = "recoveringSource"
    BY <2>1, <2>2, ToldIs, SilentStep
  <2>3. PICK a : (Answer(p, a) \/ pc'[p] = "recoveringSource")
                 /\ (a \in Success => req[p] \in Taken) /\ (a \in Refusal => req[p] \notin Taken)
    <3>1. /\ "DATABASE_UNAVAILABLE" \notin Success \cup Refusal
          /\ FinalReply(p) \notin Success
      BY DEF FinalReply, Success, Refusal
    <3>2. ReplayReply(req[p]) \in Success => req[p] \in Taken
      BY ReplayMeans, TakenIs
    <3>3. ReplayReply(req[p]) \in Refusal \cup {"none"} => req[p] \notin Taken
      BY ReplayMeans, NotReplayed, TakenIs
    <3>4. \/ Answer(p, ReplayReply(req[p])) \/ Answer(p, "DATABASE_UNAVAILABLE")
          \/ ReplayReply(req[p]) = "none" /\ Answer(p, FinalReply(p))
          \/ pc'[p] = "recoveringSource"
      BY <1>0, <1>12 DEF RecoverCommand, TypeOK
    <3> QED
      BY <3>1, <3>2, <3>3, <3>4
  <2>4. CASE Answer(p, a)
    BY <1>0, <2>1, <2>3, <2>4, TellStep
  <2> QED
    BY <2>2, <2>3, <2>4
<1>13. ASSUME NEW p \in Proc, RecoverSource(p) PROVE [Service!Next]_Service!vars
  <2>1. /\ pc[p] = "recoveringSource" /\ UNCHANGED <<tables, req, tx>> /\ IsCreate(req[p])
    BY <1>a, <1>13 DEF RecoverSource, Open, OpenCallOK
  <2>2. ~EvidenceTaken(req[p].evidence) => req[p] \notin Taken
    <3> SUFFICES ASSUME req[p] \in Taken PROVE EvidenceTaken(req[p].evidence)
      OBVIOUS
    <3>1. PICK c \in CommitmentId : \E i \in DOMAIN events[c] : events[c][i].req = req[p]
      BY TakenIs DEF RecordedAs
    <3>2. row[c].evidence = req[p].evidence /\ Present(c)
      BY <1>0, <2>1, <3>1 DEF HistoryOK, CommitmentOK
    <3> QED
      BY <3>2 DEF EvidenceTaken
  <2>3. /\ "DATABASE_UNAVAILABLE" \notin Success \cup Refusal /\ "COMMITMENT_ALREADY_EXISTS" \notin Success
        /\ FinalReply(p) \notin Success
    BY DEF FinalReply, Success, Refusal
  <2>4. \/ Answer(p, "COMMITMENT_ALREADY_EXISTS") \/ Answer(p, "DATABASE_UNAVAILABLE")
        \/ ~EvidenceTaken(req[p].evidence) /\ Answer(p, FinalReply(p))
    BY <1>13 DEF RecoverSource
  <2>5. CASE Answer(p, "COMMITMENT_ALREADY_EXISTS")
    BY <1>0, <2>1, <2>3, <2>5, TellStep
  <2>6. CASE Answer(p, "DATABASE_UNAVAILABLE")
    BY <1>0, <2>1, <2>3, <2>6, TellStep
  <2>7. CASE ~EvidenceTaken(req[p].evidence) /\ Answer(p, FinalReply(p))
    BY <1>0, <2>1, <2>2, <2>3, <2>7, TellStep
  <2> QED
    BY <2>4, <2>5, <2>6, <2>7
<1>14. ASSUME NEW p \in Proc, Return(p) \/ Die(p) PROVE [Service!Next]_Service!vars
  <2>1. /\ pc[p] # "idle" /\ pc'[p] = "idle" /\ UNCHANGED <<tables, req>>
        /\ tx'[p] = "written" => tx[p] = "written"
        /\ \A q \in Proc : q # p => pc'[q] = pc[q] /\ tx'[q] = tx[q] /\ reply'[q] = reply[q]
    BY <1>0, <1>14 DEF Return, Die, TypeOK
  <2> QED
    BY <1>0, <2>1, LeaveStep
<1>16. ASSUME NEW p \in Proc, CreateWrite(p) \/ TransitionEnter(p) PROVE [Service!Next]_Service!vars
  <2>1. /\ pc[p] = "inTx" /\ UNCHANGED <<tables, req, pc, reply>>
        /\ \A q \in Proc : q # p => tx'[q] = tx[q]
    BY <1>0, <1>16 DEF CreateWrite, TransitionEnter, TypeOK
  <2> QED
    BY <2>1, ToldIs, SilentStep
<1>15. CASE NextDay \/ UNCHANGED vars
  <2>1. UNCHANGED <<row, events, req, pc, tx, reply>>
    BY <1>15 DEF NextDay, vars, tables
  <2>2. Heard' = Heard /\ Taken' = Taken
    BY <2>1 DEF Heard, Told, Taken
  <2> QED
    BY <2>1, <2>2 DEF Service!vars, Heard
<1> QED
  BY <1>1, <1>2, <1>3, <1>4, <1>5, <1>6, <1>7, <1>8, <1>9, <1>10, <1>11, <1>12, <1>13,
     <1>14, <1>15, <1>16 DEF Next, Step

\* The empty ledger is the one the service starts from.
LEMMA RefinementInit == Init => Service!Init
<1> SUFFICES ASSUME Init PROVE Service!Init
  OBVIOUS
<1>1. TypeOK
  BY InitType
<1>2. row = [c \in CommitmentId |-> Service!NoRow]
  BY SameRules DEF Init
<1>3. Taken = {}
  BY DEF Init, Taken
<1>4. [p \in Proc |-> Told(p)] = [p \in Proc |-> "gone"]
  BY ToldIs DEF Init
<1> QED
  BY <1>1, <1>2, <1>3, <1>4 DEF Service!Init, TypeOK

\* The transactions implement the atomic ledger.
THEOREM Refinement == Spec => ServiceSpec
<1>1. Init => Service!Init
  BY RefinementInit
<1>2. HInv /\ HInv' /\ [Next]_vars => [Service!Next]_Service!vars
  BY RefinementStep
<1> QED
  BY <1>1, <1>2, History, PTL DEF Spec, ServiceSpec, Service!Spec

=============================================================================
