----------------------- MODULE FinancePublicationProofs -----------------------
(***************************************************************************)
(* What the publication of workforce finance promises, proved for any      *)
(* calls, operations, entities, artifacts and settings of the clock.       *)
(*                                                                         *)
(* The argument is the lock.  From TakeActivation to the end of its        *)
(* transaction a call is alone, so what it read of the events and rows     *)
(* still holds when it commits: no event matched its request, and the row  *)
(* it inserted comes last of all in the readers' order.                    *)
(*                                                                         *)
(* The refinement of PublicationService rests on the same invariant: the   *)
(* commit is the step that publishes, whether or not its caller still      *)
(* waits, and a reuse is told under the lock, while what was found active  *)
(* still is.                                                               *)
(***************************************************************************)
EXTENDS FinancePublication, TLAPS

\* what the call has found out, and nobody else can undo
Found(p) ==
  LET call == publishing[p]
  IN  /\ call.phase \in {"inserting", "checking", "committing", "left"} => Matching(call.request) = {}
      /\ call.phase \in {"checking", "committing", "left"} =>
           /\ call.row.entity = call.request.entity
           /\ call.row.artifact = call.request.artifact
      /\ call.phase \in {"committing", "left"} => Latest(call.row, rows \cup {call.row})
      /\ call.phase \in {"reusing", "replying", "created", "reused"} => call.request \in events
      /\ call.phase \in {"replying", "created", "reused"} =>
           \E r \in rows : r.entity = call.request.entity /\ r.artifact = call.request.artifact
      /\ call.phase = "replying" => \E r \in rows : Latest(r, rows) /\ r.entity = call.request.entity

\* the rows are those published, each under an event of its own
Recorded ==
  /\ \A r \in rows : \E e \in events : e.entity = r.entity
  /\ PublishedOnce
  /\ ReadersGetTheLastPublished

FinanceInv == FinanceTypeOK /\ Recorded /\ \A p \in Publisher : Found(p)

-----------------------------------------------------------------------------
LEMMA FinanceInitInv == FinanceInit => FinanceInv
<1> SUFFICES ASSUME FinanceInit PROVE FinanceInv
  OBVIOUS
<1> USE PublicationAssumption DEF FinanceInit, NoPublication
<1>1. FinanceTypeOK
  BY DEF FinanceTypeOK, PublishPhase, Locked
<1>2. Recorded
  BY DEF Recorded, PublishedOnce, ReadersGetTheLastPublished
<1>3. \A p \in Publisher : Found(p)
  BY DEF Found
<1> QED BY <1>1, <1>2, <1>3 DEF FinanceInv

\* a row is told from Nothing: it has an entity that is one
LEMMA OneHolder ==
  ASSUME FinanceTypeOK, NEW p \in Publisher, NEW q \in Publisher,
         publishing[p].phase \in Locked, publishing[q].phase \in Locked
  PROVE  p = q
BY DEF FinanceTypeOK

(* What every step does that leaves the tables alone: one call goes on,    *)
(* with or without the lock.                                               *)
LEMMA TablesKept ==
  ASSUME FinanceInv, NEW p \in Publisher, UNCHANGED <<rows, events, published>>,
         FinanceTypeOK', \A q \in Publisher \ {p} : publishing'[q] = publishing[q],
         Found(p)'
  PROVE  FinanceInv'
<1>1. Recorded'
  BY DEF FinanceInv, Recorded, PublishedOnce, ReadersGetTheLastPublished, Latest
<1>2. ASSUME NEW q \in Publisher PROVE Found(q)'
  <2>1. CASE q = p
    BY <2>1
  <2>2. CASE q # p
    BY <2>2 DEF FinanceInv, Found, Matching, Latest
  <2> QED BY <2>1, <2>2
<1> QED BY <1>1, <1>2 DEF FinanceInv

\* the call p alone is somewhere else
Moved(p, phase, row) ==
  /\ publishing'[p].phase = phase
  /\ publishing'[p].request = publishing[p].request
  /\ publishing'[p].row = row
  /\ publishing'[p] = [phase |-> phase, request |-> publishing[p].request, row |-> row]
  /\ \A q \in Publisher \ {p} : publishing'[q] = publishing[q]
  /\ publishing' = [q \in Publisher |-> publishing'[q]]

LEMMA GotoCall ==
  ASSUME FinanceTypeOK, NEW p \in Publisher, NEW phase, Goto(p, phase)
  PROVE  Moved(p, phase, publishing[p].row)
BY DEF FinanceTypeOK, Goto, Moved

LEMMA EndCall ==
  ASSUME FinanceTypeOK, NEW p \in Publisher, NEW phase, EndPublication(p, phase)
  PROVE  Moved(p, phase, Nothing)
BY DEF FinanceTypeOK, EndPublication, Moved

\* the type of the calls, one by one
CallTypeOK(p) ==
  /\ publishing[p] \in [phase : PublishPhase, request : Request \cup {Nothing}, row : Row \cup {Nothing}]
  /\ activation = p <=> publishing[p].phase \in Locked
  /\ publishing[p].row # Nothing <=> publishing[p].phase \in {"checking", "committing", "left"}
  /\ publishing[p].request = Nothing <=> publishing[p].phase = "idle"

LEMMA TypeOfCalls ==
  ASSUME publishing = [q \in Publisher |-> publishing[q]],
         clock \in 0 .. ClockHorizon, setbacks \in 0 .. MaxSetbacks,
         rows \subseteq Row, events \subseteq Request, published \in Seq(Row),
         activation \in Publisher \cup {Nothing},
         \A q \in Publisher : CallTypeOK(q)
  PROVE  FinanceTypeOK
BY DEF FinanceTypeOK, CallTypeOK

LEMMA CallsOfType ==
  ASSUME FinanceTypeOK PROVE \A q \in Publisher : CallTypeOK(q)
BY DEF FinanceTypeOK, CallTypeOK

(* A call that goes on with the lock it has, or without as before.         *)
LEMMA GotoType ==
  ASSUME FinanceTypeOK, NEW p \in Publisher, NEW phase \in PublishPhase,
         Goto(p, phase), UNCHANGED activation,
         phase \in Locked <=> publishing[p].phase \in Locked,
         phase \in {"checking", "committing", "left"} <=>
           publishing[p].phase \in {"checking", "committing", "left"},
         phase # "idle", publishing[p].phase # "idle"
  PROVE  FinanceTypeOK'
<1>1. Moved(p, phase, publishing[p].row) /\ \A q \in Publisher : CallTypeOK(q)
  BY GotoCall, CallsOfType
<1>2. ASSUME NEW q \in Publisher PROVE CallTypeOK(q)'
  <2>1. CASE q = p
    BY <1>1, <2>1 DEF CallTypeOK, Moved
  <2>2. CASE q # p
    BY <1>1, <2>2 DEF CallTypeOK, Moved
  <2> QED BY <2>1, <2>2
<1>3. UNCHANGED <<clock, setbacks, rows, events, published>>
  BY DEF Goto
<1> QED BY <1>1, <1>2, <1>3 DEF FinanceTypeOK, CallTypeOK, Moved

LEMMA EndType ==
  ASSUME FinanceTypeOK, NEW p \in Publisher, NEW phase \in {"failed", "reused"},
         EndPublication(p, phase), publishing[p].phase # "idle"
  PROVE  FinanceTypeOK'
<1> USE PublicationAssumption
<1>1. phase \in PublishPhase \ Locked /\ phase \notin {"idle", "checking", "committing", "left"}
  BY DEF PublishPhase, Locked
<1>2. activation' = IF activation = p THEN Nothing ELSE activation
  BY DEF EndPublication
<1>3. Moved(p, phase, Nothing) /\ \A q \in Publisher : CallTypeOK(q)
  BY EndCall, CallsOfType
<1>4. ASSUME NEW q \in Publisher PROVE CallTypeOK(q)'
  <2>1. CASE q = p
    BY <1>1, <1>2, <1>3, <2>1 DEF CallTypeOK, Moved
  <2>2. CASE q # p
    BY <1>2, <1>3, <2>2 DEF CallTypeOK, Moved
  <2> QED BY <2>1, <2>2
<1>5. UNCHANGED <<clock, setbacks, rows, events, published>>
  BY DEF EndPublication
<1> QED BY <1>2, <1>3, <1>4, <1>5 DEF FinanceTypeOK, CallTypeOK, Moved

(* A transaction that ends without a row.                                  *)
LEMMA EndInv ==
  ASSUME FinanceInv, NEW p \in Publisher, NEW phase \in {"failed", "reused"},
         EndPublication(p, phase), publishing[p].phase # "idle",
         phase = "reused" => publishing[p].phase = "replying"
  PROVE  FinanceInv'
<1>1. FinanceTypeOK'
  BY EndType DEF FinanceInv
<1>2. UNCHANGED <<rows, events, published>>
  BY DEF EndPublication
<1>3. Moved(p, phase, Nothing) /\ Found(p)
  BY EndCall DEF FinanceInv
<1>4. Found(p)'
  BY <1>2, <1>3 DEF Found, Moved
<1> QED BY <1>1, <1>2, <1>3, <1>4, TablesKept DEF Moved
-----------------------------------------------------------------------------
LEMMA BeginInv ==
  ASSUME FinanceInv, NEW p \in Publisher, NEW request \in Request, BeginPublication(p, request)
  PROVE  FinanceInv'
<1> USE PublicationAssumption
<1>1. /\ publishing'[p] = [phase |-> "locking", request |-> request, row |-> Nothing]
      /\ \A q \in Publisher \ {p} : publishing'[q] = publishing[q]
      /\ publishing' = [q \in Publisher |-> publishing'[q]]
      /\ UNCHANGED <<clock, setbacks, rows, events, activation, published>>
  BY DEF FinanceInv, FinanceTypeOK, BeginPublication
<1>2. request # Nothing
  OBVIOUS
<1>3. ASSUME NEW q \in Publisher PROVE CallTypeOK(q)'
  <2>1. CASE q = p
    BY <1>1, <1>2, <2>1, CallsOfType DEF FinanceInv, CallTypeOK, PublishPhase, Locked, BeginPublication
  <2>2. CASE q # p
    BY <1>1, <2>2, CallsOfType DEF FinanceInv, CallTypeOK
  <2> QED BY <2>1, <2>2
<1>4. FinanceTypeOK'
  BY <1>1, <1>3 DEF FinanceInv, FinanceTypeOK, CallTypeOK
<1>5. Found(p)'
  BY <1>1 DEF Found
<1> QED BY <1>1, <1>4, <1>5, TablesKept

LEMMA TakeInv ==
  ASSUME FinanceInv, NEW p \in Publisher, TakeActivation(p)
  PROVE  FinanceInv'
<1> USE PublicationAssumption DEF FinanceInv
<1>1. Goto(p, "finding") /\ activation = Nothing /\ activation' = p /\ publishing[p].phase = "locking"
  BY DEF TakeActivation, ActivationFree
<1>2. UNCHANGED <<clock, setbacks, rows, events, published>>
  BY <1>1 DEF Goto
<1>3. Moved(p, "finding", publishing[p].row) /\ \A q \in Publisher : CallTypeOK(q)
  BY <1>1, GotoCall, CallsOfType
<1>4. ASSUME NEW q \in Publisher PROVE CallTypeOK(q)'
  <2>1. CASE q = p
    BY <1>1, <1>3, <2>1 DEF CallTypeOK, Moved, PublishPhase, Locked
  <2>2. CASE q # p
    BY <1>1, <1>3, <2>2 DEF CallTypeOK, Moved
  <2> QED BY <2>1, <2>2
<1>5. FinanceTypeOK'
  BY <1>1, <1>2, <1>3, <1>4 DEF FinanceTypeOK, CallTypeOK, Moved
<1>6. Found(p)'
  BY <1>3 DEF Found, Moved
<1> QED BY <1>2, <1>3, <1>5, <1>6, TablesKept DEF Moved

LEMMA FindInv ==
  ASSUME FinanceInv, NEW p \in Publisher, Find(p)
  PROVE  FinanceInv'
<1> USE DEF FinanceInv
<1>1. CASE Matching(publishing[p].request) = {} /\ Goto(p, "inserting") /\ UNCHANGED activation
  <2>1. FinanceTypeOK'
    BY <1>1, GotoType DEF Find, PublishPhase, Locked
  <2>2. UNCHANGED <<rows, events, published>>
    BY <1>1 DEF Goto
  <2>3. Moved(p, "inserting", publishing[p].row)
    BY <1>1, GotoCall
  <2>4. Found(p)'
    BY <1>1, <2>2, <2>3 DEF Found, Matching, Moved
  <2> QED BY <2>1, <2>2, <2>3, <2>4, TablesKept DEF Moved
<1>2. CASE /\ Matching(publishing[p].request) = {publishing[p].request}
           /\ Goto(p, "reusing") /\ UNCHANGED activation
  <2>1. FinanceTypeOK'
    BY <1>2, GotoType DEF Find, PublishPhase, Locked
  <2>2. UNCHANGED <<rows, events, published>>
    BY <1>2 DEF Goto
  <2>3. publishing[p].request \in events
    BY <1>2 DEF Matching
  <2>4. Moved(p, "reusing", publishing[p].row)
    BY <1>2, GotoCall
  <2>5. Found(p)'
    BY <2>2, <2>3, <2>4 DEF Found, Moved
  <2> QED BY <2>1, <2>2, <2>4, <2>5, TablesKept DEF Moved
<1>3. CASE EndPublication(p, "failed")
  BY <1>3, EndInv DEF Find
<1> QED BY <1>1, <1>2, <1>3 DEF Find

LEMMA ReuseInv ==
  ASSUME FinanceInv, NEW p \in Publisher, Reuse(p)
  PROVE  FinanceInv'
<1> USE DEF FinanceInv
<1>1. PICK r \in rows :
        /\ Latest(r, rows)
        /\ IF r.entity = publishing[p].request.entity /\ r.artifact = publishing[p].request.artifact
           THEN Goto(p, "replying") /\ UNCHANGED activation
           ELSE EndPublication(p, "failed")
  BY DEF Reuse
<1>2. CASE EndPublication(p, "failed")
  BY <1>2, EndInv DEF Reuse
<1>3. CASE /\ r.entity = publishing[p].request.entity
           /\ r.artifact = publishing[p].request.artifact
           /\ Goto(p, "replying") /\ UNCHANGED activation
  <2>1. FinanceTypeOK'
    BY <1>3, GotoType DEF Reuse, PublishPhase, Locked
  <2>2. UNCHANGED <<rows, events, published>>
    BY <1>3 DEF Goto
  <2>3. Latest(r, rows)'
    BY <1>1, <2>2 DEF Latest
  <2>4. publishing[p].request \in events
    BY DEF Reuse, Found
  <2>5. Moved(p, "replying", publishing[p].row)
    BY <1>3, GotoCall
  <2>6. Found(p)'
    BY <1>3, <2>2, <2>3, <2>4, <2>5 DEF Found, Moved
  <2> QED BY <2>1, <2>2, <2>5, <2>6, TablesKept DEF Moved
<1> QED BY <1>1, <1>2, <1>3

LEMMA InsertInv ==
  ASSUME FinanceInv, NEW p \in Publisher, Insert(p)
  PROVE  FinanceInv'
<1> USE PublicationAssumption DEF FinanceInv
<1>1. PICK id \in RowId \ Taken :
        publishing' = [publishing EXCEPT ![p].phase = "checking",
                         ![p].row = [id |-> id, entity |-> publishing[p].request.entity,
                                     artifact |-> publishing[p].request.artifact, createdAt |-> clock]]
  BY DEF Insert
<1> DEFINE new == [id |-> id, entity |-> publishing[p].request.entity,
                   artifact |-> publishing[p].request.artifact, createdAt |-> clock]
<1>2. /\ publishing'[p] = [phase |-> "checking", request |-> publishing[p].request, row |-> new]
      /\ \A q \in Publisher \ {p} : publishing'[q] = publishing[q]
      /\ publishing' = [q \in Publisher |-> publishing'[q]]
  <2>1. publishing'[p] = [[publishing[p] EXCEPT !.phase = "checking"] EXCEPT !.row = new]
    BY <1>1 DEF FinanceTypeOK
  <2>2. publishing[p] = [phase |-> publishing[p].phase, request |-> publishing[p].request,
                         row |-> publishing[p].row]
    BY DEF FinanceTypeOK
  <2>3. publishing'[p] = [phase |-> "checking", request |-> publishing[p].request, row |-> new]
    BY <2>1, <2>2
  <2> QED BY <1>1, <2>3 DEF FinanceTypeOK
<1>3. UNCHANGED <<clock, setbacks, rows, events, activation, published>>
  BY DEF Insert
<1>4. publishing[p].phase = "inserting"
  BY DEF Insert
<1>5. publishing[p].request \in Request /\ new \in Row /\ new # Nothing
  <2>1. publishing[p].request \in Request
    BY <1>4 DEF FinanceTypeOK
  <2>2. new \in Row
    BY <2>1 DEF FinanceTypeOK, Row, Request
  <2>3. new # Nothing
    BY <2>2
  <2> QED BY <2>1, <2>2, <2>3
<1>6. ASSUME NEW q \in Publisher PROVE CallTypeOK(q)'
  <2>1. CASE q = p
    BY <1>2, <1>3, <1>4, <1>5, <2>1, CallsOfType DEF CallTypeOK, PublishPhase, Locked
  <2>2. CASE q # p
    BY <1>2, <1>3, <2>2, CallsOfType DEF CallTypeOK
  <2> QED BY <2>1, <2>2
<1>7. FinanceTypeOK'
  BY <1>2, <1>3, <1>6 DEF FinanceTypeOK, CallTypeOK
<1>8. Found(p)'
  <2>1. /\ publishing'[p].phase = "checking"
        /\ publishing'[p].request = publishing[p].request
        /\ publishing'[p].row.entity = publishing[p].request.entity
        /\ publishing'[p].row.artifact = publishing[p].request.artifact
    BY <1>2
  <2>2. Matching(publishing[p].request) = {}
    BY <1>4 DEF Found
  <2>3. (Matching(publishing[p].request) = {})'
    BY <1>3, <2>1, <2>2 DEF Matching
  <2> QED BY <2>1, <2>3 DEF Found
<1> QED BY <1>2, <1>3, <1>7, <1>8, TablesKept

LEMMA CheckActiveInv ==
  ASSUME FinanceInv, NEW p \in Publisher, CheckActive(p)
  PROVE  FinanceInv'
<1> USE DEF FinanceInv
<1>1. CASE EndPublication(p, "failed")
  BY <1>1, EndInv DEF CheckActive
<1>2. CASE /\ Latest(publishing[p].row, rows \cup {publishing[p].row})
           /\ Goto(p, "committing") /\ UNCHANGED activation
  <2>1. FinanceTypeOK'
    BY <1>2, GotoType DEF CheckActive, PublishPhase, Locked
  <2>2. UNCHANGED <<rows, events, published>>
    BY <1>2 DEF Goto
  <2>3. Moved(p, "committing", publishing[p].row)
    BY <1>2, GotoCall
  <2>4. /\ Matching(publishing[p].request) = {}
        /\ publishing[p].row.entity = publishing[p].request.entity
        /\ publishing[p].row.artifact = publishing[p].request.artifact
    BY DEF CheckActive, Found
  <2>5. Found(p)'
    BY <1>2, <2>2, <2>3, <2>4 DEF Found, Matching, Latest, Moved
  <2> QED BY <2>1, <2>2, <2>3, <2>5, TablesKept DEF Moved
<1> QED BY <1>1, <1>2 DEF CheckActive

(* A call is told of a failure while its COMMIT runs: it keeps the lock.   *)
LEMMA LeaveInv ==
  ASSUME FinanceInv, NEW p \in Publisher, LeavePublication(p)
  PROVE  FinanceInv'
<1> USE DEF FinanceInv
<1>1. Goto(p, "left") /\ UNCHANGED activation /\ publishing[p].phase = "committing"
  BY DEF LeavePublication
<1>2. FinanceTypeOK'
  BY <1>1, GotoType DEF PublishPhase, Locked
<1>3. UNCHANGED <<rows, events, published>>
  BY <1>1 DEF Goto
<1>4. Moved(p, "left", publishing[p].row)
  BY <1>1, GotoCall
<1>5. Found(p)'
  BY <1>1, <1>3, <1>4 DEF Found, Matching, Latest, Moved
<1> QED BY <1>2, <1>3, <1>4, <1>5, TablesKept DEF Moved

(* The one step that changes the tables.  The others that are under way    *)
(* are not past the lock, so all they know is what stays true of tables    *)
(* that grow; p's row becomes the last published and the latest.           *)
LEMMA CommitInv ==
  ASSUME FinanceInv, NEW p \in Publisher, NEW answer \in {"created", "failed"},
         CommitPublication(p, answer)
  PROVE  FinanceInv'
<1> USE PublicationAssumption
<1> DEFINE row == publishing[p].row
           request == publishing[p].request
<1>1. /\ publishing[p].phase \in {"committing", "left"}
      /\ rows' = rows \cup {row}
      /\ events' = events \cup {request}
      /\ published' = Append(published, row)
      /\ activation' = IF activation = p THEN Nothing ELSE activation
      /\ UNCHANGED <<clock, setbacks>>
  BY DEF CommitPublication
<1>2. /\ publishing'[p] = [phase |-> answer, request |-> request, row |-> Nothing]
      /\ \A q \in Publisher \ {p} : publishing'[q] = publishing[q]
      /\ publishing' = [q \in Publisher |-> publishing'[q]]
  BY DEF FinanceInv, FinanceTypeOK, CommitPublication
<1>3. /\ row \in Row /\ request \in Request
      /\ row.entity = request.entity /\ row.artifact = request.artifact
      /\ Matching(request) = {}
      /\ Latest(row, rows \cup {row})
  BY <1>1 DEF FinanceInv, FinanceTypeOK, Found
<1>4. FinanceTypeOK'
  <2>1. ASSUME NEW q \in Publisher PROVE CallTypeOK(q)'
    <3>1. CASE q = p
      BY <1>1, <1>2, <3>1, CallsOfType DEF FinanceInv, CallTypeOK, PublishPhase, Locked
    <3>2. CASE q # p
      BY <1>1, <1>2, <3>2, CallsOfType DEF FinanceInv, CallTypeOK
    <3> QED BY <3>1, <3>2
  <2>2. published' \in Seq(Row)
    BY <1>1, <1>3 DEF FinanceInv, FinanceTypeOK
  <2> QED BY <1>1, <1>2, <1>3, <2>1, <2>2 DEF FinanceInv, FinanceTypeOK, CallTypeOK
<1>5. Recorded'
  <2>1. \A r \in rows' : \E e \in events' : e.entity = r.entity
    BY <1>1, <1>3 DEF FinanceInv, Recorded
  <2>2. PublishedOnce'
    <3>1. \A e \in events : e.entity # request.entity /\ e.operation # request.operation
      BY <1>3 DEF Matching
    <3>2. \A r \in rows : r.entity # row.entity
      BY <1>3, <3>1 DEF FinanceInv, Recorded
    <3> QED BY <1>1, <3>1, <3>2 DEF FinanceInv, Recorded, PublishedOnce
  <2>3. ReadersGetTheLastPublished'
    <3>1. published'[Len(published')] = row
      BY <1>1, <1>3 DEF FinanceInv, FinanceTypeOK
    <3> QED BY <1>1, <1>3, <3>1 DEF ReadersGetTheLastPublished
  <2> QED BY <2>1, <2>2, <2>3 DEF Recorded
<1>6. ASSUME NEW q \in Publisher PROVE Found(q)'
  <2>1. CASE q = p
    BY <1>1, <1>2, <1>3, <2>1 DEF Found
  <2>2. CASE q # p
    <3>1. publishing[q].phase \notin Locked
      BY <1>1, <2>2, OneHolder DEF FinanceInv, Locked
    <3>2. Found(q) /\ publishing'[q] = publishing[q]
      BY <1>2, <2>2 DEF FinanceInv
    <3>3. rows \subseteq rows' /\ events \subseteq events'
      BY <1>1
    <3> HIDE DEF row, request
    <3> QED BY <3>1, <3>2, <3>3 DEF Found, Locked
  <2> QED BY <2>1, <2>2
<1> QED BY <1>4, <1>5, <1>6 DEF FinanceInv

LEMMA ClockInv ==
  ASSUME FinanceInv, ClockTick \/ SetBack
  PROVE  FinanceInv'
<1>1. UNCHANGED <<rows, events, activation, publishing, published>>
  BY DEF ClockTick, SetBack
<1>2. FinanceTypeOK'
  BY <1>1, PublicationAssumption DEF FinanceInv, FinanceTypeOK, ClockTick, SetBack
<1> QED BY <1>1, <1>2 DEF FinanceInv, Recorded, PublishedOnce, ReadersGetTheLastPublished,
                          Found, Matching, Latest

LEMMA FinanceStepInv == FinanceInv /\ [FinanceNext]_financeVars => FinanceInv'
<1> SUFFICES ASSUME FinanceInv, [FinanceNext]_financeVars PROVE FinanceInv'
  OBVIOUS
<1>1. CASE ClockTick \/ SetBack
  BY <1>1, ClockInv
<1>2. ASSUME NEW p \in Publisher, NEW request \in Request, BeginPublication(p, request)
      PROVE  FinanceInv'
  BY <1>2, BeginInv
<1>3. ASSUME NEW p \in Publisher, TakeActivation(p) \/ Find(p) \/ Reuse(p) \/ Insert(p) \/ CheckActive(p)
      PROVE  FinanceInv'
  BY <1>3, TakeInv, FindInv, ReuseInv, InsertInv, CheckActiveInv
<1>4. ASSUME NEW p \in Publisher, CommitPublication(p, "created") \/ CommitPublication(p, "failed")
      PROVE  FinanceInv'
  BY <1>4, CommitInv
<1>5. ASSUME NEW p \in Publisher, CommitReuse(p) PROVE FinanceInv'
  BY <1>5, EndInv DEF CommitReuse
<1>6. ASSUME NEW p \in Publisher, FailPublication(p) \/ RollBackLeft(p) PROVE FinanceInv'
  BY <1>6, EndInv DEF FailPublication, RollBackLeft
<1>8. ASSUME NEW p \in Publisher, LeavePublication(p) PROVE FinanceInv'
  BY <1>8, LeaveInv
<1>7. CASE UNCHANGED financeVars
  BY <1>7 DEF financeVars, FinanceInv, FinanceTypeOK, Recorded, PublishedOnce,
              ReadersGetTheLastPublished, Found, Matching, Latest
<1> QED BY <1>1, <1>2, <1>3, <1>4, <1>5, <1>6, <1>7, <1>8 DEF FinanceNext

LEMMA FinanceAlwaysInv == FinanceSpec => []FinanceInv
BY FinanceInitInv, FinanceStepInv, PTL DEF FinanceSpec

-----------------------------------------------------------------------------
(* The tenant's activation lock has one holder, which is the call between  *)
(* taking it and the end of its transaction, and only that one has a row   *)
(* that is not committed yet.                                              *)
THEOREM OneActivationAtATime == FinanceSpec => []FinanceTypeOK
<1>1. FinanceInv => FinanceTypeOK
  BY DEF FinanceInv
<1> QED BY <1>1, FinanceAlwaysInv, PTL

(* Readers get the snapshot whose publication committed last, whatever the *)
(* clock did.                                                              *)
THEOREM TheLastIsRead == FinanceSpec => []ReadersGetTheLastPublished
<1>1. FinanceInv => ReadersGetTheLastPublished
  BY DEF FinanceInv, Recorded
<1> QED BY <1>1, FinanceAlwaysInv, PTL

(* An operation and an entity are published at most once.                  *)
THEOREM NeverTwice == FinanceSpec => []PublishedOnce
<1>1. FinanceInv => PublishedOnce
  BY DEF FinanceInv, Recorded
<1> QED BY <1>1, FinanceAlwaysInv, PTL

(* What a caller is told is true of what was published.                    *)
THEOREM TrulyAnswered == FinanceSpec => []AnswersAreTrue
<1>1. FinanceInv => AnswersAreTrue
  BY DEF FinanceInv, Found, AnswersAreTrue
<1> QED BY <1>1, FinanceAlwaysInv, PTL
-----------------------------------------------------------------------------
(* The refinement.  Readers' order is total on rows, so what they get is   *)
(* known once one latest row is; and of a call all that shows is what it   *)
(* asked and was told.                                                     *)
LEMMA OneLatest ==
  ASSUME NEW table \in SUBSET Row, NEW r \in table, NEW s \in table,
         Latest(r, table), Latest(s, table)
  PROVE  r = s
<1>1. ASSUME NEW row \in Row PROVE row.createdAt \in Nat /\ row.id \in Nat
  <2>1. row.id \in RowId
    BY DEF Row
  <2>2. row.createdAt \in 0 .. ClockHorizon
    BY DEF Row
  <2>3. row.id \in Nat
    BY <2>1, PublicationAssumption
  <2>4. ClockHorizon \in Nat
    BY PublicationAssumption
  <2> QED BY <2>2, <2>3, <2>4
<1> QED BY <1>1 DEF Latest, Before

LEMMA WhatReadersGet ==
  ASSUME rows \subseteq Row, NEW r \in rows, Latest(r, rows)
  PROVE  Current = [entity |-> r.entity, artifact |-> r.artifact]
<1> DEFINE last == CHOOSE s \in rows : Latest(s, rows)
<1>1. last \in rows /\ Latest(last, rows)
  OBVIOUS
<1>2. last = r
  BY <1>1, OneLatest
<1> QED BY <1>2 DEF Current

\* what p asked and was told
Answered(p) == publishing[p].phase \in {"created", "reused", "failed", "left"}

LEMMA WhatIsTold ==
  ASSUME NEW p \in Publisher
  PROVE  /\ Asked[p] = publishing[p].request
         /\ Answered(p) => Told[p] = publishing[p].phase
         /\ ~Answered(p) => Told[p] = "waiting"
BY DEF Asked, Told, Answered

LEMMA ToldOf ==
  ASSUME NEW p \in Publisher,
         \A q \in Publisher \ {p} : publishing'[q] = publishing[q],
         publishing'[p].request = publishing[p].request
  PROVE  /\ Asked' = Asked
         /\ Answered(p)' => Told' = [Told EXCEPT ![p] = publishing'[p].phase]
         /\ ~Answered(p) /\ ~Answered(p)' => Told' = Told
<1> DEFINE said(call) == IF call.phase \in {"created", "reused", "failed", "left"} THEN call.phase ELSE "waiting"
<1>1. Told = [q \in Publisher |-> said(publishing[q])] /\ Told' = [q \in Publisher |-> said(publishing'[q])]
  BY DEF Told
<1>2. Asked = [q \in Publisher |-> publishing[q].request] /\ Asked' = [q \in Publisher |-> publishing'[q].request]
  BY DEF Asked
<1>3. Asked' = Asked
  <2>1. \A q \in Publisher : publishing'[q].request = publishing[q].request
    OBVIOUS
  <2> QED BY <1>2, <2>1
<1>4. \A q \in Publisher \ {p} : said(publishing'[q]) = said(publishing[q])
  OBVIOUS
<1>5. ASSUME Answered(p)' PROVE Told' = [Told EXCEPT ![p] = publishing'[p].phase]
  <2>1. said(publishing'[p]) = publishing'[p].phase
    BY <1>5 DEF Answered
  <2> HIDE DEF said
  <2> QED BY <1>1, <1>4, <2>1
<1>6. ASSUME ~Answered(p), ~Answered(p)' PROVE Told' = Told
  <2>1. said(publishing'[p]) = "waiting" /\ said(publishing[p]) = "waiting"
    BY <1>6 DEF Answered
  <2> HIDE DEF said
  <2> QED BY <1>1, <1>4, <2>1
<1> QED BY <1>3, <1>5, <1>6

\* a call that goes on unanswered while the tables stay: nothing shows
LEMMA SilentStep ==
  ASSUME FinanceInv, NEW p \in Publisher, NEW phase \in PublishPhase, NEW row,
         Moved(p, phase, row), UNCHANGED <<rows, events>>,
         phase \notin {"created", "reused", "failed", "left"}, ~Answered(p)
  PROVE  [Service!Next]_Service!serviceVars
<1>1. Asked' = Asked /\ Told' = Told
  BY ToldOf DEF Moved, Answered
<1>2. Current' = Current
  BY DEF Current, Latest
<1> QED BY <1>1, <1>2 DEF Service!serviceVars

\* a transaction that ends without a row and is not a reuse: a failure
LEMMA FailStep ==
  ASSUME FinanceInv, NEW p \in Publisher, EndPublication(p, "failed"),
         publishing[p].phase # "idle", ~Answered(p) \/ publishing[p].phase = "left"
  PROVE  Service!Next
<1>1. Moved(p, "failed", Nothing) /\ UNCHANGED <<rows, events>>
  BY EndCall DEF FinanceInv, EndPublication
<1>2. Asked' = Asked /\ Told' = [Told EXCEPT ![p] = "failed"]
  BY <1>1, ToldOf DEF Moved, Answered
<1>3. Current' = Current
  BY <1>1 DEF Current, Latest
<1>4. Asked[p] # Nothing /\ Told[p] \in {"waiting", "left"}
  BY WhatIsTold DEF FinanceInv, FinanceTypeOK, Answered
<1>5. Service!Fail(p)
  BY <1>1, <1>2, <1>3, <1>4 DEF Service!Fail
<1> QED BY <1>5 DEF Service!Next

\* a caller that gives up on a COMMIT leaves its call behind
LEMMA LeaveStep ==
  ASSUME FinanceInv, NEW p \in Publisher, LeavePublication(p)
  PROVE  Service!Next
<1>1. Goto(p, "left") /\ publishing[p].phase = "committing"
  BY DEF LeavePublication
<1>2. Moved(p, "left", publishing[p].row) /\ UNCHANGED <<rows, events>>
  BY <1>1, GotoCall DEF FinanceInv, Goto
<1>3. Asked' = Asked /\ Told' = [Told EXCEPT ![p] = "left"]
  BY <1>2, ToldOf DEF Moved, Answered
<1>4. Current' = Current
  BY <1>2 DEF Current, Latest
<1>5. Asked[p] # Nothing /\ Told[p] = "waiting"
  BY <1>1, WhatIsTold DEF FinanceInv, FinanceTypeOK, Answered
<1>6. Service!Leave(p)
  BY <1>2, <1>3, <1>4, <1>5 DEF Service!Leave
<1> QED BY <1>6 DEF Service!Next

LEMMA AskStep ==
  ASSUME FinanceInv, NEW p \in Publisher, NEW request \in Request, BeginPublication(p, request)
  PROVE  Service!Next
<1>1. /\ publishing'[p] = [phase |-> "locking", request |-> request, row |-> Nothing]
      /\ \A q \in Publisher \ {p} : publishing'[q] = publishing[q]
      /\ publishing[p].phase = "idle" /\ UNCHANGED <<rows, events>>
  BY DEF FinanceInv, FinanceTypeOK, BeginPublication
<1>2. Asked[p] = Nothing
  BY <1>1, WhatIsTold DEF FinanceInv, FinanceTypeOK
<1>3. Asked' = [Asked EXCEPT ![p] = request]
  <2>1. publishing'[p].request = request
    BY <1>1
  <2> QED BY <1>1, <2>1 DEF Asked
<1>4. Told' = Told
  <2> DEFINE said(call) == IF call.phase \in {"created", "reused", "failed", "left"} THEN call.phase ELSE "waiting"
  <2>1. said(publishing'[p]) = said(publishing[p])
    BY <1>1
  <2>2. \A q \in Publisher : said(publishing'[q]) = said(publishing[q])
    BY <1>1, <2>1
  <2>3. Told = [q \in Publisher |-> said(publishing[q])] /\ Told' = [q \in Publisher |-> said(publishing'[q])]
    BY DEF Told
  <2> HIDE DEF said
  <2> QED BY <2>2, <2>3
<1>5. Current' = Current
  BY <1>1 DEF Current, Latest
<1>6. Service!Ask(p, request)
  BY <1>1, <1>2, <1>3, <1>4, <1>5 DEF Service!Ask
<1>7. request \in Service!Request
  BY DEF Request, Service!Request
<1> QED BY <1>6, <1>7 DEF Service!Next

\* the commit of a publication: the lock made it the next and the latest
LEMMA PublishStep ==
  ASSUME FinanceInv, FinanceInv', NEW p \in Publisher, NEW answer \in {"created", "failed"},
         CommitPublication(p, answer)
  PROVE  Service!Next
<1> DEFINE row == publishing[p].row
           request == publishing[p].request
<1>1. /\ publishing[p].phase = "committing" \/ (publishing[p].phase = "left" /\ answer = "failed")
      /\ rows' = rows \cup {row} /\ events' = events \cup {request}
  BY DEF CommitPublication
<1>2. /\ publishing'[p] = [phase |-> answer, request |-> request, row |-> Nothing]
      /\ \A q \in Publisher \ {p} : publishing'[q] = publishing[q]
  BY DEF FinanceInv, FinanceTypeOK, CommitPublication
<1>3. /\ row.entity = request.entity /\ row.artifact = request.artifact
      /\ Matching(request) = {} /\ Latest(row, rows \cup {row})
  BY <1>1 DEF FinanceInv, Found
<1>4. \A t \in events : t.operation # request.operation /\ t.entity # request.entity
  BY <1>3 DEF Matching
<1>5. Asked' = Asked /\ Told' = [Told EXCEPT ![p] = answer]
  BY <1>2, ToldOf DEF Answered
<1>6. /\ Asked[p] = request /\ request # Nothing
      /\ Told[p] = "waiting" \/ (Told[p] = "left" /\ answer = "failed")
  BY <1>1, WhatIsTold DEF Answered, FinanceInv, FinanceTypeOK
<1>7. Current' = [entity |-> request.entity, artifact |-> request.artifact]
  <2>1. rows' \subseteq Row /\ row \in rows' /\ Latest(row, rows')
    BY <1>1, <1>3 DEF FinanceInv, FinanceTypeOK
  <2>2. \A s \in rows' : Latest(s, rows') => s = row
    BY <2>1, OneLatest
  <2>3. (CHOOSE s \in rows' : Latest(s, rows')) = row
    BY <2>1, <2>2
  <2>4. (CHOOSE s \in rows : Latest(s, rows))' = row
    BY <2>3 DEF Latest, Before
  <2> QED BY <1>3, <2>1, <2>4 DEF Current
<1>8. Service!Publish(p, answer)
  BY <1>1, <1>4, <1>5, <1>6, <1>7 DEF Service!Publish, Service!Content
<1> QED BY <1>8 DEF Service!Next

\* a reuse is told while its publication is what readers get
LEMMA ReuseStep ==
  ASSUME FinanceInv, NEW p \in Publisher, CommitReuse(p)
  PROVE  Service!Next
<1> DEFINE request == publishing[p].request
<1>1. publishing[p].phase = "replying" /\ EndPublication(p, "reused")
  BY DEF CommitReuse
<1>2. Moved(p, "reused", Nothing) /\ UNCHANGED <<rows, events>>
  BY <1>1, EndCall DEF FinanceInv, EndPublication
<1>3. Asked' = Asked /\ Told' = [Told EXCEPT ![p] = "reused"]
  BY <1>2, ToldOf DEF Moved, Answered
<1>4. Asked[p] = request /\ Told[p] = "waiting" /\ request \in events
  BY <1>1, WhatIsTold DEF Answered, FinanceInv, Found
<1>5. Current = [entity |-> request.entity, artifact |-> request.artifact]
  <2>1. PICK r \in rows : Latest(r, rows) /\ r.entity = request.entity
    BY <1>1 DEF FinanceInv, Found
  <2>2. PICK s \in rows : s.entity = request.entity /\ s.artifact = request.artifact
    BY <1>1 DEF FinanceInv, Found
  <2>3. r = s
    BY <2>1, <2>2 DEF FinanceInv, Recorded, PublishedOnce
  <2> QED BY <2>1, <2>2, <2>3, WhatReadersGet DEF FinanceInv, FinanceTypeOK
<1>6. Current' = Current
  BY <1>2 DEF Current, Latest
<1>7. Service!Reuse(p)
  BY <1>2, <1>3, <1>4, <1>5, <1>6 DEF Service!Reuse, Service!Content
<1> QED BY <1>7 DEF Service!Next

\* the steps of a call between its first and its last
LEMMA InnerStep ==
  ASSUME FinanceInv, NEW p \in Publisher,
         TakeActivation(p) \/ Find(p) \/ Reuse(p) \/ Insert(p) \/ CheckActive(p)
  PROVE  [Service!Next]_Service!serviceVars
<1>0. publishing[p].phase # "idle" /\ ~Answered(p)
  BY DEF TakeActivation, Find, Reuse, Insert, CheckActive, Answered
<1>1. ASSUME NEW phase \in {"finding", "inserting", "reusing", "replying", "committing"}, Goto(p, phase)
      PROVE  [Service!Next]_Service!serviceVars
  <2>1. Moved(p, phase, publishing[p].row) /\ UNCHANGED <<rows, events>>
    BY <1>1, GotoCall DEF FinanceInv, Goto
  <2>2. phase \in PublishPhase /\ phase \notin {"created", "reused", "failed", "left"}
    BY DEF PublishPhase
  <2> QED BY <1>0, <2>1, <2>2, SilentStep
<1>2. ASSUME EndPublication(p, "failed") PROVE [Service!Next]_Service!serviceVars
  BY <1>0, <1>2, FailStep
<1>3. ASSUME Insert(p) PROVE [Service!Next]_Service!serviceVars
  <2>1. /\ publishing'[p].phase = "checking" /\ publishing'[p].request = publishing[p].request
        /\ \A q \in Publisher \ {p} : publishing'[q] = publishing[q]
        /\ UNCHANGED <<rows, events>>
    <3>1. PICK id \in RowId \ Taken :
            publishing' = [publishing EXCEPT ![p].phase = "checking",
                             ![p].row = [id |-> id, entity |-> publishing[p].request.entity,
                                         artifact |-> publishing[p].request.artifact, createdAt |-> clock]]
      BY <1>3 DEF Insert
    <3>2. publishing[p] = [phase |-> publishing[p].phase, request |-> publishing[p].request,
                           row |-> publishing[p].row]
      BY DEF FinanceInv, FinanceTypeOK
    <3>3. publishing'[p].phase = "checking" /\ publishing'[p].request = publishing[p].request
      BY <3>1, <3>2 DEF FinanceInv, FinanceTypeOK
    <3> QED BY <1>3, <3>1, <3>3 DEF Insert, FinanceInv, FinanceTypeOK
  <2>2. Asked' = Asked /\ Told' = Told
    BY <1>0, <2>1, ToldOf DEF Answered
  <2>3. Current' = Current
    BY <2>1 DEF Current, Latest
  <2> QED BY <2>1, <2>2, <2>3 DEF Service!serviceVars
<1>4. CASE TakeActivation(p)
  BY <1>1, <1>4 DEF TakeActivation
<1>5. CASE Find(p)
  BY <1>1, <1>2, <1>5 DEF Find
<1>6. CASE Reuse(p)
  BY <1>1, <1>2, <1>6 DEF Reuse
<1>7. CASE CheckActive(p)
  BY <1>1, <1>2, <1>7 DEF CheckActive
<1> QED BY <1>3, <1>4, <1>5, <1>6, <1>7

LEMMA ServiceInit == FinanceInit => Service!Init
<1> SUFFICES ASSUME FinanceInit PROVE Service!Init
  OBVIOUS
<1>1. Current = Nothing
  BY DEF FinanceInit, Current
<1>2. Asked = [p \in Publisher |-> Nothing]
  BY DEF FinanceInit, NoPublication, Asked
<1>3. Told = [p \in Publisher |-> "waiting"]
  BY DEF FinanceInit, NoPublication, Told
<1> QED BY <1>1, <1>2, <1>3 DEF FinanceInit, Service!Init

LEMMA ServiceStep ==
  FinanceInv /\ FinanceInv' /\ [FinanceNext]_financeVars => [Service!Next]_Service!serviceVars
<1> SUFFICES ASSUME FinanceInv, FinanceInv', [FinanceNext]_financeVars
             PROVE  [Service!Next]_Service!serviceVars
  OBVIOUS
<1>1. CASE ClockTick \/ SetBack \/ UNCHANGED financeVars
  <2>1. UNCHANGED <<rows, events, publishing>>
    BY <1>1 DEF ClockTick, SetBack, financeVars
  <2>2. Current' = Current /\ Asked' = Asked /\ Told' = Told
    BY <2>1 DEF Current, Latest, Asked, Told
  <2> QED BY <2>1, <2>2 DEF Service!serviceVars
<1>2. ASSUME NEW p \in Publisher, NEW request \in Request, BeginPublication(p, request)
      PROVE  Service!Next
  BY <1>2, AskStep
<1>3. ASSUME NEW p \in Publisher, TakeActivation(p) \/ Find(p) \/ Reuse(p) \/ Insert(p) \/ CheckActive(p)
      PROVE  [Service!Next]_Service!serviceVars
  BY <1>3, InnerStep
<1>4. ASSUME NEW p \in Publisher, CommitPublication(p, "created") \/ CommitPublication(p, "failed")
      PROVE  Service!Next
  BY <1>4, PublishStep
<1>5. ASSUME NEW p \in Publisher, CommitReuse(p) PROVE Service!Next
  BY <1>5, ReuseStep
<1>6. ASSUME NEW p \in Publisher, FailPublication(p) \/ RollBackLeft(p) PROVE Service!Next
  BY <1>6, FailStep DEF FailPublication, RollBackLeft, Answered
<1>7. ASSUME NEW p \in Publisher, LeavePublication(p) PROVE Service!Next
  BY <1>7, LeaveStep
<1> QED BY <1>1, <1>2, <1>3, <1>4, <1>5, <1>6, <1>7 DEF FinanceNext

(* To readers and callers a publication is one step: what readers get      *)
(* changes only by it, it happens once for an operation and an entity, also *)
(* when its caller was told of a failure before and called again, and a    *)
(* reuse is told only while it is what readers get.                        *)
THEOREM PublicationIsAtomic == FinanceSpec => ImplementsService
<1>1. FinanceInit => Service!Init
  BY ServiceInit
<1>2. FinanceInv /\ FinanceInv' /\ [FinanceNext]_financeVars => [Service!Next]_Service!serviceVars
  BY ServiceStep
<1> QED BY <1>1, <1>2, FinanceAlwaysInv, PTL DEF FinanceSpec, ImplementsService, Service!Spec
=============================================================================
