-------------------------- MODULE LedgerDeskProofs --------------------------
(***************************************************************************)
(* What pages and handlers may rely on, proved for any users, invocations, *)
(* commitments, briefs and forms.                                          *)
(*                                                                         *)
(* Two arguments, one per half of the module.  Identity: a command id      *)
(* belongs to one dialog, and whatever still travels under the id of a     *)
(* dialog is what that dialog would repeat.  History: rows only move       *)
(* forward, a recorded request stays visible in them, and what a page read *)
(* of its commitment (the assignee, the owner once there is one) is still  *)
(* so when its request arrives.                                            *)
(***************************************************************************)
EXTENDS LedgerDesk, TLAPS

-----------------------------------------------------------------------------
(* Identity. *)

Busy(p) == at[p] # "free"

\* where an invocation stands says what its store call may have been told
ServerOK(p) ==
  /\ at[p] = "free" => told[p] \in {"gone", "left"}
  /\ at[p] \in {"sent", "admitted"} => told[p] = "gone"
  /\ at[p] = "store" => told[p] \in {"waiting", "done", "refused", "unsure"}
  /\ at[p] = "recorded" => told[p] = "done"
  /\ at[p] = "answered" => told[p] # "left"
  /\ Busy(p) => body[p] \in RequestShape
  /\ Busy(p) /\ told[p] # "gone" => asked[p] = body[p]
  /\ told[p] = "done" => asked[p] \in taken
  /\ at[p] \in {"admitted", "store", "recorded"} => contract[p].brief \in Evidence
  /\ at[p] = "answered" /\ answer[p] = "ok" => contract[p].brief \in Evidence /\ told[p] = "done"
  /\ at[p] = "answered" /\ answer[p] \in {"denied", "stale"} => told[p] = "gone"
  /\ at[p] = "answered" /\ answer[p] = "refused" => told[p] = "refused"

\* every id in use was drawn, and is one user's
IdsOK ==
  /\ \A p \in Proc : Busy(p) => body[p].id \in ids
  /\ \A p \in Proc : told[p] # "gone" => asked[p].id \in ids
  /\ \A r \in taken : r.id \in ids
  /\ \A u \in User : dialog[u] # None => dialog[u].id \in ids
  /\ \A u, v \in User : u # v /\ dialog[u] # None =>
       /\ dialog[v] # None => dialog[v].id # dialog[u].id
       /\ sending[v] # None => sending[v].id # dialog[u].id

\* the invocations under way for one command id carry one request
OneBody == \A p, q \in Proc : Busy(p) /\ Busy(q) /\ body[p].id = body[q].id => body[p] = body[q]

\* a mutation a page awaits is the one its invocation carries, and no other page's
SendingOK(u) ==
  sending[u] # None =>
    /\ Busy(sending[u].to)
    /\ body[sending[u].to] = sending[u].body
    /\ sending[u].body.id = sending[u].id
    /\ \A v \in User : v # u /\ sending[v] # None => sending[v].to # sending[u].to

\* a frozen dialog repeats what may still travel under its id
FrozenOK(u) ==
  dialog[u] # None /\ dialog[u].replay # None =>
    /\ dialog[u].replay.id = dialog[u].id
    /\ \A p \in Proc : Busy(p) /\ body[p].id = dialog[u].id => body[p] = dialog[u].replay

\* only the mutation its page awaits travels under the id of an editable dialog
EditableOK(u) ==
  dialog[u] # None /\ dialog[u].replay = None =>
    \A p \in Proc : Busy(p) /\ body[p].id = dialog[u].id => sending[u] # None /\ sending[u].to = p

\* and only that one may have been recorded
UncommittedOK(u) ==
  dialog[u] # None /\ dialog[u].replay = None /\ ~dialog[u].doubled =>
    /\ \A r \in taken : r.id = dialog[u].id =>
         /\ sending[u] # None /\ r = sending[u].body
         /\ told[sending[u].to] \notin {"gone", "refused"}
    /\ \A p \in Proc : ~Busy(p) /\ told[p] # "gone" => asked[p].id # dialog[u].id

PageOK(u) == SendingOK(u) /\ FrozenOK(u) /\ EditableOK(u) /\ UncommittedOK(u)

IInv == TypeOK /\ (\A p \in Proc : ServerOK(p)) /\ IdsOK /\ OneBody /\ (\A u \in User : PageOK(u))

-----------------------------------------------------------------------------
(* History. *)

\* what was read of these rows is still so
Earlier(rows) ==
  \A c \in CommitmentId :
    IF rows[c].version = 0 THEN rows[c].state = "ABSENT"
    ELSE /\ row[c].version # 0
         /\ row[c].assignee = rows[c].assignee
         /\ rows[c].owner # None => row[c].owner = rows[c].owner

\* its caller was entitled to it by what it had read, and still is
Entitled(command, c, user) ==
  /\ c \in CommitmentId
  /\ row[c].version # 0
  /\ command = "claim" => row[c].assignee = RoleOf[user]
  /\ command \in {"block", "resume", "complete"} => row[c].owner = user
  /\ command \in {"reschedule", "cancel"} => RoleOf[user] = "INTENDENTE"

Justified(r) ==
  ~IsCreate(r) => Entitled(r.command, r.commitment, r.actor) /\ r.role = RoleOf[r.actor]

\* a recorded request shows in the rows
ShownIn(r, rows) ==
  IF IsCreate(r)
  THEN \E c \in CommitmentId : rows[c].version # 0 /\ rows[c].evidence = r.evidence
  ELSE r.commitment \in CommitmentId /\ rows[r.commitment].version > r.expected

\* an unclaimed commitment has no owner, and who claimed one owns it
RowsOK ==
  /\ \A c \in CommitmentId : /\ row[c].version = 0 => row[c].state = "ABSENT"
                             /\ row[c].state = "OPEN" => row[c].owner = None
  /\ \A r \in taken : ShownIn(r, row)
  /\ \A r \in taken : r.command = "claim" => row[r.commitment].owner = r.actor

ReadOK ==
  /\ \A u \in User : seen[u] # None => Earlier(seen[u].rows)
  /\ \A p \in Proc : at[p] = "answered" /\ answer[p] = "ok" =>
       Earlier(contract[p].rows) /\ ShownIn(body[p], contract[p].rows)

\* a request is denied only because another user has claimed its commitment
GateOK ==
  /\ \A u \in User : dialog[u] # None =>
       /\ dialog[u].command # "create" => Entitled(dialog[u].command, dialog[u].commitment, u)
       /\ dialog[u].replay # None => Justified(dialog[u].replay)
  /\ \A p \in Proc : Busy(p) => Justified(body[p])
  /\ \A p \in Proc : at[p] = "answered" /\ answer[p] = "denied" =>
       /\ body[p].command = "claim"
       /\ row[body[p].commitment].owner \notin {None, body[p].actor}

HInv == RowsOK /\ ReadOK /\ GateOK

-----------------------------------------------------------------------------
(* Lemmas about the rules. *)

\* The rules lead from one state of a row to another.
LEMMA TransitionTypes ==
  ASSUME NEW r \in RequestShape, ~IsCreate(r), NEW rw \in Row, TransitionReply(rw, r) = "none"
  PROVE  /\ UpdatedRow(rw, r) \in Row
         /\ UpdatedRow(rw, r).version = rw.version + 1
         /\ rw.version # 0 /\ rw.version = r.expected
         /\ UpdatedRow(rw, r).evidence = rw.evidence
         /\ UpdatedRow(rw, r).assignee = rw.assignee
         /\ UpdatedRow(rw, r).owner = IF r.command = "claim" THEN r.actor ELSE rw.owner
         /\ r.command = "claim" => rw.state = "OPEN"
         /\ UpdatedRow(rw, r).state = "OPEN" => rw.state = "OPEN" /\ r.command # "claim"
<1>1. /\ r.command \in Command /\ r.actor \in User /\ r.due \in Nat /\ r.outcome \in Outcome \cup {None}
  BY DEF RequestShape
<1>2. rw.version # 0 /\ rw.version = r.expected /\ TransitionRefusal(rw, r) = "none"
  BY DEF TransitionReply
<1>3. rw.state \in From(r.command)
  BY <1>2 DEF TransitionRefusal
<1>4. /\ To(r.command, rw.state) \in State \cup {"ABSENT"}
      /\ r.command = "claim" => rw.state = "OPEN"
      /\ To(r.command, rw.state) = "OPEN" => rw.state = "OPEN" /\ r.command # "claim"
  BY <1>1, <1>3 DEF From, To, Command, Live, State, IsCreate
<1>5. /\ (IF r.command = "claim" THEN r.actor ELSE rw.owner) \in User \cup {None}
      /\ (IF r.command = "reschedule" THEN r.due ELSE rw.due) \in Nat
      /\ (IF r.command = "complete" THEN r.outcome ELSE None) \in Outcome \cup {None}
      /\ rw.version + 1 \in Nat
  BY <1>1 DEF Row
<1>6. /\ UpdatedRow(rw, r).version = rw.version + 1
      /\ UpdatedRow(rw, r).evidence = rw.evidence
      /\ UpdatedRow(rw, r).assignee = rw.assignee
      /\ UpdatedRow(rw, r).owner = IF r.command = "claim" THEN r.actor ELSE rw.owner
      /\ UpdatedRow(rw, r).state = To(r.command, rw.state)
  BY DEF UpdatedRow, Row
<1>7. UpdatedRow(rw, r) \in Row
  <2> DEFINE state == To(r.command, rw.state)
             owner == IF r.command = "claim" THEN r.actor ELSE rw.owner
             due == IF r.command = "reschedule" THEN r.due ELSE rw.due
             outcome == IF r.command = "complete" THEN r.outcome ELSE None
             version == rw.version + 1
  <2>1. /\ state \in State \cup {"ABSENT"} /\ owner \in User \cup {None}
        /\ due \in Nat /\ outcome \in Outcome \cup {None} /\ version \in Nat
    BY <1>4, <1>5
  <2>2. UpdatedRow(rw, r) = [rw EXCEPT !.state = state, !.owner = owner, !.due = due,
                                       !.outcome = outcome, !.version = version]
    BY DEF UpdatedRow
  <2> HIDE DEF state, owner, due, outcome, version
  <2> QED BY <2>1, <2>2 DEF Row
<1> QED BY <1>2, <1>4, <1>6, <1>7

\* insertCommitment writes a row.
LEMMA NewRowTypes ==
  ASSUME NEW r \in RequestShape
  PROVE  NewRow(r) \in Row
BY DEF NewRow, Row, State, RequestShape

\* The answer a dialog asks for is a request under the id of the dialog, and a
\* frozen one is repeated.
LEMMA BodyShape ==
  ASSUME TypeOK, NEW u \in User, NEW form \in Form, dialog[u] # None, seen[u] # None
  PROVE  /\ BodyToSend(u, form) \in RequestShape
         /\ dialog[u].replay # None => BodyToSend(u, form) = dialog[u].replay
         /\ dialog[u].replay = None =>
              /\ BodyToSend(u, form).id = dialog[u].id
              /\ BodyToSend(u, form).command = dialog[u].command
              /\ dialog[u].command # "create" =>
                   /\ BodyToSend(u, form).commitment = dialog[u].commitment
                   /\ BodyToSend(u, form).actor = u
                   /\ BodyToSend(u, form).role = RoleOf[u]
<1>1. /\ dialog[u] \in Dialog
      /\ seen[u] \in [rows : [CommitmentId -> Row], brief : Evidence]
      /\ form \in FormShape
      /\ RoleOf[u] \in Role
  BY FormAssumption, SessionAssumption DEF TypeOK
<1> DEFINE d == dialog[u]
           due == IF d.command = "reschedule" THEN form.due ELSE 0
           outcome == IF d.command = "complete" THEN form.outcome ELSE None
<1>2. /\ d.command \in Command /\ d.id \in CommandId /\ d.commitment \in CommitmentId \cup {None}
      /\ d.expected \in Nat /\ d.replay \in RequestShape \cup {None}
      /\ seen[u].brief \in Evidence /\ form.assignee \in AssigneeRole /\ form.due \in Nat
      /\ form.outcome \in Outcome
  BY <1>1 DEF Dialog, FormShape
<1>3. CreateRequest(d.id, u, RoleOf[u], seen[u].brief, form.assignee, form.due) \in RequestShape
  BY <1>1, <1>2 DEF CreateRequest, RequestShape, Command
<1>4. due \in Nat /\ outcome \in Outcome \cup {None}
  BY <1>2
<1>5. TransitionRequest(d.command, d.id, u, RoleOf[u], d.commitment, d.expected, due, outcome) \in RequestShape
  BY <1>1, <1>2, <1>4 DEF TransitionRequest, RequestShape
<1>6. NewBody(u, form) \in RequestShape
  BY <1>3, <1>5 DEF NewBody
<1>7. /\ NewBody(u, form).id = d.id
      /\ NewBody(u, form).command = d.command
      /\ d.command # "create" => /\ NewBody(u, form).commitment = d.commitment
                                 /\ NewBody(u, form).actor = u
                                 /\ NewBody(u, form).role = RoleOf[u]
  BY DEF NewBody, CreateRequest, TransitionRequest
<1> QED BY <1>2, <1>6, <1>7 DEF BodyToSend

-----------------------------------------------------------------------------
(* What the store does to the rows. *)

Grows ==
  \A c \in CommitmentId : row[c].version # 0 =>
    /\ row'[c].version # 0 /\ row'[c].version >= row[c].version
    /\ row'[c].assignee = row[c].assignee
    /\ row'[c].evidence = row[c].evidence

\* The store judges a request by the rules of the ledger.
LEMMA SameRules ==
  ASSUME NEW r, NEW rw
  PROVE  /\ Store!IsCreate(r) <=> IsCreate(r)
         /\ Store!TransitionReply(rw, r) = TransitionReply(rw, r)
         /\ Store!NewRow(r) = NewRow(r) /\ Store!UpdatedRow(rw, r) = UpdatedRow(rw, r)
         /\ Store!NoRow = NoRow
<1>1. /\ Store!IsCreate(r) <=> IsCreate(r)
      /\ Store!NewRow(r) = NewRow(r) /\ Store!NoRow = NoRow
  BY DEF Store!IsCreate, IsCreate, Store!NewRow, NewRow, Store!NoRow, NoRow
<1>2. Store!To(r.command, rw.state) = To(r.command, rw.state)
  BY DEF Store!To, To
<1>3. Store!UpdatedRow(rw, r) = UpdatedRow(rw, r)
  BY <1>2 DEF Store!UpdatedRow, UpdatedRow
<1>4. Store!From(r.command) = From(r.command)
  BY DEF Store!From, From, Store!Live, Live
<1>5. Store!TransitionRefusal(rw, r) = TransitionRefusal(rw, r)
  BY <1>4 DEF Store!TransitionRefusal, TransitionRefusal
<1> QED BY <1>1, <1>3, <1>5 DEF Store!TransitionReply, TransitionReply

\* The store takes a request nobody recorded under its id, and changes one row.
LEMMA TakeIs ==
  ASSUME TypeOK, NEW p \in Proc, Store!Take(p)
  PROVE  /\ told[p] \notin {"refused", "gone"}
         /\ asked' = asked
         /\ taken' = taken \cup {asked[p]}
         /\ \A t \in taken : t.id # asked[p].id
         /\ \/ told' = told
            \/ told[p] = "waiting" /\ told' = [told EXCEPT ![p] = "done"]
            \/ told[p] = "left" /\ told' = [told EXCEPT ![p] = "gone"]
         /\ \E c \in CommitmentId, rw \in Row :
              /\ row' = [row EXCEPT ![c] = rw]
              /\ rw.version # 0
              /\ IF IsCreate(asked[p])
                 THEN /\ row[c].version = 0
                      /\ rw.owner = None /\ rw.evidence = asked[p].evidence
                 ELSE /\ c = asked[p].commitment /\ row[c].version # 0
                      /\ rw.version = row[c].version + 1 /\ row[c].version = asked[p].expected
                      /\ rw.evidence = row[c].evidence /\ rw.assignee = row[c].assignee
                      /\ rw.owner = IF asked[p].command = "claim" THEN asked[p].actor ELSE row[c].owner
                      /\ asked[p].command = "claim" => row[c].state = "OPEN"
                      /\ rw.state = "OPEN" => row[c].state = "OPEN" /\ asked[p].command # "claim"
<1> DEFINE r == asked[p]
<1>1. r \in RequestShape /\ row \in [CommitmentId -> Row]
  BY DEF TypeOK
<1>2. PICK c \in CommitmentId :
        /\ Store!Allowed(r, c)
        /\ row' = [row EXCEPT ![c] = IF IsCreate(r) THEN NewRow(r) ELSE UpdatedRow(row[c], r)]
  BY SameRules DEF Store!Take
<1>3. CASE IsCreate(r)
  <2>1. /\ row[c].version = 0
        /\ row' = [row EXCEPT ![c] = NewRow(r)]
    BY <1>2, <1>3, SameRules DEF Store!Allowed, NoRow
  <2>2. /\ NewRow(r).version # 0
        /\ NewRow(r).owner = None
        /\ NewRow(r).evidence = r.evidence
    BY DEF NewRow
  <2>3. NewRow(r) \in Row
    BY <1>1, NewRowTypes
  <2> QED BY <1>3, <2>1, <2>2, <2>3 DEF Store!Take
<1>4. CASE ~IsCreate(r)
  <2>1. /\ c = r.commitment /\ TransitionReply(row[c], r) = "none"
        /\ row' = [row EXCEPT ![c] = UpdatedRow(row[c], r)]
        /\ row[c] \in Row
    BY <1>1, <1>2, <1>4, SameRules DEF Store!Allowed
  <2>2. row[c].version \in Nat
    BY <2>1 DEF Row
  <2> DEFINE rw == UpdatedRow(row[c], r)
  <2>3. /\ rw \in Row
        /\ rw.version = row[c].version + 1 /\ rw.version # 0
        /\ row[c].version # 0 /\ row[c].version = r.expected
        /\ rw.evidence = row[c].evidence /\ rw.assignee = row[c].assignee
        /\ rw.owner = IF r.command = "claim" THEN r.actor ELSE row[c].owner
        /\ r.command = "claim" => row[c].state = "OPEN"
        /\ rw.state = "OPEN" => row[c].state = "OPEN" /\ r.command # "claim"
    BY <1>1, <1>4, <2>1, <2>2, TransitionTypes
  <2>4. row' = [row EXCEPT ![c] = rw]
    BY <2>1
  <2> HIDE DEF rw
  <2> QED BY <1>4, <2>1, <2>3, <2>4 DEF Store!Take
<1> QED BY <1>3, <1>4

\* The slot of an invocation is freed, and with it its store call, that may go
\* on unless it was refused.
LEMMA FreeIs ==
  ASSUME TypeOK, NEW p \in Proc, Free(p)
  PROVE  /\ UNCHANGED <<row, taken, asked>>
         /\ at' = [at EXCEPT ![p] = "free"] /\ body' = [body EXCEPT ![p] = None]
         /\ answer' = [answer EXCEPT ![p] = "down"] /\ contract' = [contract EXCEPT ![p] = NoContract]
         /\ \/ told[p] = "gone" /\ told' = told
            \/ told[p] # "gone" /\ told' = [told EXCEPT ![p] = "gone"]
            \/ told[p] \notin {"gone", "refused"} /\ told' = [told EXCEPT ![p] = "left"]
BY DEF Free, Set, store, Store!Leave

-----------------------------------------------------------------------------
(* Types. *)

Contract == [rows : [CommitmentId -> Row], brief : Evidence \cup {None}]
Shown == [rows : [CommitmentId -> Row], brief : Evidence]
Ear == {"done", "refused", "unsure", "waiting", "left", "gone"}
Stand == {"free", "sent", "admitted", "store", "recorded", "answered"}

StoreTyped ==
  /\ row \in [CommitmentId -> Row] /\ taken \subseteq RequestShape
  /\ asked \in [Proc -> RequestShape] /\ told \in [Proc -> Ear]

ServerTyped ==
  /\ at \in [Proc -> Stand] /\ body \in [Proc -> RequestShape \cup {None}]
  /\ answer \in [Proc -> Answer] /\ contract \in [Proc -> Contract]

PageTyped ==
  /\ seen \in [User -> Shown \cup {None}] /\ dialog \in [User -> Dialog \cup {None}]
  /\ sending \in [User -> Sending \cup {None}] /\ notice \in [User -> RequestShape \cup {None}]
  /\ ids \subseteq CommandId

\* The types of the store, the invocations, the pages and the brief.
LEMMA TypesAre == TypeOK <=> StoreTyped /\ ServerTyped /\ PageTyped /\ brief \in Evidence
<1>1. Store!Answers \cup {"waiting", "left", "gone"} = Ear
  BY DEF Store!Answers, Ear
<1> QED BY <1>1 DEF TypeOK, StoreTyped, ServerTyped, PageTyped, Contract, Shown, Stand

\* The same of the next state.
LEMMA TypesAreNext == TypeOK' <=> StoreTyped' /\ ServerTyped' /\ PageTyped' /\ brief' \in Evidence
<1>1. Store!Answers \cup {"waiting", "left", "gone"} = Ear
  BY DEF Store!Answers, Ear
<1> QED BY <1>1 DEF TypeOK, StoreTyped, ServerTyped, PageTyped, Contract, Shown, Stand

\* An empty contract is one.
LEMMA NoContractType == NoContract \in Contract
BY DEF NoContract, NoRow, Row, Contract

\* The initial states have the types.
LEMMA InitType == Init => TypeOK
<1> SUFFICES ASSUME Init PROVE TypeOK
  OBVIOUS
<1>1. NoRow \in Row /\ Store!NoRow = NoRow
  BY SameRules DEF NoRow, Row
<1>2. /\ row \in [CommitmentId -> Row] /\ taken = {} /\ asked \in [Proc -> RequestShape]
      /\ told = [p \in Proc |-> "gone"]
  BY <1>1, RequestAssumption DEF Init, Store!Init
<1> QED BY <1>2, TypesAre, NoContractType
        DEF Init, StoreTyped, ServerTyped, PageTyped, Ear, Stand, Answer

\* A step of a page keeps the types.
LEMMA PageTypes ==
  ASSUME TypeOK, \A p \in Proc : ServerOK(p), NEW u \in User, PageStep(u)
  PROVE  TypeOK'
<1> USE DEF Set
<1>0. StoreTyped /\ ServerTyped /\ PageTyped /\ brief \in Evidence
  BY TypesAre
<1>1. CASE Load(u)
  <2>1. [rows |-> row, brief |-> brief] \in Shown
    BY <1>0 DEF StoreTyped, Shown
  <2>2. seen' \in [User -> Shown \cup {None}]
    BY <1>0, <1>1, <2>1 DEF Load, PageTyped
  <2> QED BY <1>0, <1>1, <2>2, TypesAreNext DEF Load, StoreTyped, ServerTyped, PageTyped, store, server
<1>2. CASE \E command \in Command, c \in CommitmentId \cup {None} : OpenDialog(u, command, c)
  <2>1. PICK command \in Command, c \in CommitmentId \cup {None} : OpenDialog(u, command, c)
    BY <1>2
  <2>2. PICK id \in CommandId \ ids :
          /\ dialog' = [dialog EXCEPT ![u] =
               [command |-> command, id |-> id, commitment |-> c,
                expected |-> IF c = None THEN 0 ELSE seen[u].rows[c].version,
                replay |-> None, doubled |-> FALSE]]
          /\ ids' = ids \cup {id}
    BY <2>1 DEF OpenDialog
  <2>3. (IF c = None THEN 0 ELSE seen[u].rows[c].version) \in Nat
    <3>1. c # None => seen[u].rows[c] \in Row
      BY <1>0, <2>1 DEF OpenDialog, PageTyped, Shown
    <3> QED BY <3>1 DEF Row
  <2> DEFINE d == [command |-> command, id |-> id, commitment |-> c,
                   expected |-> IF c = None THEN 0 ELSE seen[u].rows[c].version,
                   replay |-> None, doubled |-> FALSE]
  <2>4. d \in Dialog
    BY <2>3 DEF Dialog
  <2>5. dialog' = [dialog EXCEPT ![u] = d]
    BY <2>2
  <2> HIDE DEF d
  <2>6. /\ dialog' \in [User -> Dialog \cup {None}]
        /\ notice' \in [User -> RequestShape \cup {None}]
        /\ ids' \subseteq CommandId
        /\ UNCHANGED <<store, brief, server, seen, sending>>
    <3>1. notice' = [notice EXCEPT ![u] = None] /\ UNCHANGED <<store, brief, server, seen, sending>>
      BY <2>1 DEF OpenDialog
    <3>2. /\ dialog \in [User -> Dialog \cup {None}] /\ ids \subseteq CommandId
          /\ notice \in [User -> RequestShape \cup {None}]
      BY <1>0 DEF PageTyped
    <3>3. dialog' \in [User -> Dialog \cup {None}]
      BY <2>4, <2>5, <3>2
    <3> QED BY <2>2, <3>1, <3>2, <3>3
  <2> QED BY <1>0, <2>6, TypesAreNext
          DEF StoreTyped, ServerTyped, PageTyped, store, server
<1>3. CASE CloseDialog(u)
  BY <1>0, <1>3, TypesAreNext DEF CloseDialog, StoreTyped, ServerTyped, PageTyped, store, server
<1>4. CASE \E p \in Proc, form \in Form : Submit(u, p, form)
  <2>1. PICK p \in Proc, form \in Form : Submit(u, p, form)
    BY <1>4
  <2> DEFINE b == BodyToSend(u, form)
             s == [to |-> p, id |-> dialog[u].id, body |-> b]
  <2>2. b \in RequestShape
    BY <2>1, BodyShape DEF Submit
  <2>3. dialog[u].id \in CommandId
    BY <1>0, <2>1 DEF Submit, PageTyped, Dialog
  <2>4. s \in Sending
    BY <2>2, <2>3 DEF Sending
  <2>5. sending' = [sending EXCEPT ![u] = s] /\ body' = [body EXCEPT ![p] = b]
    BY <2>1 DEF Submit
  <2> HIDE DEF s, b
  <2> QED BY <1>0, <2>1, <2>2, <2>4, <2>5, TypesAreNext
          DEF Submit, StoreTyped, ServerTyped, PageTyped, Stand, store
<1>5. ASSUME sending[u] # None, Unconfirmed(u)
      PROVE  /\ dialog' \in [User -> Dialog \cup {None}]
             /\ notice' \in [User -> RequestShape \cup {None}]
             /\ seen' = seen
  <2>1. sending[u].body \in RequestShape
    BY <1>0, <1>5 DEF PageTyped, Sending
  <2>2. dialog[u] # None => [dialog[u] EXCEPT !.replay = sending[u].body] \in Dialog
    BY <1>0, <2>1 DEF PageTyped, Dialog
  <2> QED BY <1>0, <1>5, <2>1, <2>2 DEF PageTyped, Unconfirmed
<1>6. CASE Lose(u)
  BY <1>0, <1>5, <1>6, TypesAreNext DEF Lose, StoreTyped, ServerTyped, PageTyped, store, server
<1>7. CASE Reload(u)
  BY <1>0, <1>7, TypesAreNext DEF Reload, StoreTyped, ServerTyped, PageTyped, store, server
<1>8. CASE Deliver(u)
  <2> DEFINE p == sending[u].to
  <2>1. /\ p \in Proc
        /\ sending[u] # None
        /\ at[p] = "answered"
        /\ Free(p)
        /\ \/ answer[p] = "ok" /\ Accepted(u, p)
           \/ answer[p] # "ok" /\ Ambiguous(answer[p]) /\ Unconfirmed(u)
           \/ answer[p] # "ok" /\ ~Ambiguous(answer[p]) /\ Rejected(u, answer[p])
        /\ sending' = [sending EXCEPT ![u] = None]
        /\ UNCHANGED <<brief, ids>>
    BY <1>0, <1>8 DEF Deliver, PageTyped, Sending
  <2>2. /\ dialog' \in [User -> Dialog \cup {None}]
        /\ notice' \in [User -> RequestShape \cup {None}]
        /\ seen' \in [User -> Shown \cup {None}]
    <3>1. CASE answer[p] = "ok" /\ Accepted(u, p)
      <4>1. contract[p] \in Contract /\ contract[p].brief \in Evidence
        BY <1>0, <2>1, <3>1 DEF ServerTyped, ServerOK
      <4>2. contract[p] \in Shown
        BY <4>1 DEF Contract, Shown
      <4> QED BY <1>0, <3>1, <4>2 DEF Accepted, PageTyped
    <3>2. CASE Unconfirmed(u)
      BY <1>0, <1>5, <2>1, <3>2 DEF PageTyped
    <3>3. CASE Rejected(u, answer[p])
      <4>1. dialog[u] # None => [dialog[u] EXCEPT !.doubled = TRUE] \in Dialog
        BY <1>0 DEF PageTyped, Dialog
      <4> QED BY <1>0, <3>3, <4>1 DEF Rejected, PageTyped
    <3> QED BY <2>1, <3>1, <3>2, <3>3
  <2>3. /\ StoreTyped'
        /\ at' \in [Proc -> Stand] /\ body' \in [Proc -> RequestShape \cup {None}]
        /\ answer' \in [Proc -> Answer] /\ contract' \in [Proc -> Contract]
    BY <1>0, <2>1, FreeIs, NoContractType DEF StoreTyped, ServerTyped, Ear, Stand, Answer
  <2> QED BY <1>0, <2>1, <2>2, <2>3, TypesAreNext DEF PageTyped, ServerTyped
<1> QED BY <1>1, <1>2, <1>3, <1>4, <1>6, <1>7, <1>8 DEF PageStep

\* So does a step of an invocation, or of the store for it.
LEMMA ServerTypes ==
  ASSUME TypeOK, \A q \in Proc : ServerOK(q), NEW p \in Proc, ServerStep(p)
  PROVE  TypeOK'
<1> USE DEF Set, Reply
<1>0. StoreTyped /\ ServerTyped /\ PageTyped /\ brief \in Evidence
  BY TypesAre
<1>1. UNCHANGED page => PageTyped'
  BY <1>0 DEF PageTyped, page
<1>2. UNCHANGED store => StoreTyped'
  BY <1>0 DEF StoreTyped, store
<1>3. UNCHANGED server => ServerTyped'
  BY <1>0 DEF ServerTyped, server
<1>4. CASE Arrive(p)
  <2>1. /\ UNCHANGED <<store, brief, page>> /\ body' = body
        /\ at' \in {[at EXCEPT ![p] = "answered"], [at EXCEPT ![p] = "admitted"]}
        /\ \/ answer' = answer
           \/ \E a \in {"down", "stale", "denied"} : answer' = [answer EXCEPT ![p] = a]
        /\ contract' = [contract EXCEPT ![p].brief = brief]
    BY <1>4 DEF Arrive
  <2>2. at' \in [Proc -> Stand]
    BY <1>0, <2>1 DEF ServerTyped, Stand
  <2>3. answer' \in [Proc -> Answer]
    BY <1>0, <2>1 DEF ServerTyped, Answer, Denial
  <2>4. contract' \in [Proc -> Contract]
    BY <1>0, <2>1 DEF ServerTyped, Contract
  <2> QED BY <1>0, <1>1, <1>2, <2>1, <2>2, <2>3, <2>4, TypesAreNext DEF ServerTyped
<1>5. CASE CallStore(p)
  <2>1. body[p] \in RequestShape
    BY <1>5 DEF CallStore, ServerOK, Busy
  <2>2. StoreTyped'
    BY <1>0, <1>5, <2>1 DEF CallStore, Store!Ask, StoreTyped, Ear
  <2>3. ServerTyped'
    BY <1>0, <1>5 DEF CallStore, ServerTyped, Stand
  <2> QED BY <1>0, <1>1, <1>5, <2>2, <2>3, TypesAreNext DEF CallStore
<1>6. CASE StoreTakes(p)
  <2>1. Store!Take(p)
    BY <1>6 DEF StoreTakes
  <2>2. row' \in [CommitmentId -> Row]
    <3>1. \E c \in CommitmentId, rw \in Row : row' = [row EXCEPT ![c] = rw]
      BY <2>1, TakeIs
    <3> QED BY <1>0, <3>1 DEF StoreTyped
  <2>3. taken' \subseteq RequestShape /\ asked' = asked
    BY <1>0, <2>1, TakeIs DEF StoreTyped
  <2>4. told' \in [Proc -> Ear]
    <3>1. \/ told' = told
          \/ told' = [told EXCEPT ![p] = "done"]
          \/ told' = [told EXCEPT ![p] = "gone"]
      BY <2>1, TakeIs
    <3> QED BY <1>0, <3>1 DEF StoreTyped, Ear
  <2> QED BY <1>0, <1>1, <1>3, <1>6, <2>2, <2>3, <2>4, TypesAreNext DEF StoreTakes, StoreTyped
<1>7. CASE StoreTells(p) \/ StoreForgets(p)
  <2>1. StoreTyped'
    BY <1>0, <1>7 DEF StoreTells, StoreForgets, Store!Tell, Store!Leave, Store!Answers, StoreTyped, Ear
  <2> QED BY <1>0, <1>1, <1>3, <1>7, <2>1, TypesAreNext DEF StoreTells, StoreForgets
<1>8. CASE Conclude(p)
  <2>1. StoreAnswer(p) \subseteq Answer
    BY DEF StoreAnswer, Answer, Denial
  <2>2. ServerTyped'
    BY <1>0, <1>8, <2>1 DEF Conclude, ServerTyped, Stand
  <2> QED BY <1>0, <1>1, <1>2, <1>8, <2>2, TypesAreNext DEF Conclude
<1>9. CASE ListAgain(p)
  <2>1. contract' \in [Proc -> Contract]
    <3>1. contract[p] \in Contract /\ row \in [CommitmentId -> Row]
      BY <1>0 DEF ServerTyped, StoreTyped
    <3>2. [contract[p] EXCEPT !.rows = row] \in Contract
      BY <3>1 DEF Contract
    <3>3. contract' = contract \/ contract' = [contract EXCEPT ![p] = [contract[p] EXCEPT !.rows = row]]
      BY <1>9 DEF ListAgain
    <3> QED BY <1>0, <3>2, <3>3 DEF ServerTyped
  <2>2. ServerTyped'
    BY <1>0, <1>9, <2>1 DEF ListAgain, ServerTyped, Stand, Answer
  <2> QED BY <1>0, <1>1, <1>2, <1>9, <2>2, TypesAreNext DEF ListAgain
<1>10. CASE Die(p)
  <2>1. ServerTyped'
    BY <1>0, <1>10 DEF Die, ServerTyped, Stand, Answer
  <2> QED BY <1>0, <1>1, <1>2, <1>10, <2>1, TypesAreNext DEF Die
<1>11. CASE Unheard(p)
  <2>1. StoreTyped' /\ ServerTyped'
    BY <1>0, <1>11, FreeIs, NoContractType DEF Unheard, StoreTyped, ServerTyped, Ear, Stand, Answer
  <2> QED BY <1>0, <1>1, <1>11, <2>1, TypesAreNext DEF Unheard
<1> QED BY <1>4, <1>5, <1>6, <1>7, <1>8, <1>9, <1>10, <1>11 DEF ServerStep

\* Every step keeps the types.
LEMMA TypeStep ==
  ASSUME TypeOK, \A p \in Proc : ServerOK(p), [Next]_vars
  PROVE  TypeOK'
<1>0. StoreTyped /\ ServerTyped /\ PageTyped /\ brief \in Evidence
  BY TypesAre
<1>1. ASSUME UNCHANGED <<store, server, page>>, brief' \in Evidence
      PROVE  TypeOK'
  BY <1>0, <1>1, TypesAreNext DEF StoreTyped, ServerTyped, PageTyped, store, server, page
<1>2. ASSUME NEW e \in Evidence, Publish(e)
      PROVE  TypeOK'
  BY <1>1, <1>2 DEF Publish
<1>3. CASE UNCHANGED vars
  BY <1>0, <1>1, <1>3 DEF vars
<1> QED BY <1>2, <1>3, PageTypes, ServerTypes DEF Next

-----------------------------------------------------------------------------
(* Where an invocation stands, and its store call. *)

\* What nobody touches stays as it is, whatever is recorded meanwhile.
LEMMA SlotKept ==
  ASSUME NEW q \in Proc, ServerOK(q), taken \subseteq taken',
         at'[q] = at[q], body'[q] = body[q], answer'[q] = answer[q], contract'[q] = contract[q],
         asked'[q] = asked[q], told'[q] = told[q]
  PROVE  ServerOK(q)'
BY DEF ServerOK, Busy

\* A step of an invocation leaves the others alone.
LEMMA ServerFrame ==
  ASSUME TypeOK, NEW p \in Proc, ServerStep(p), NEW q \in Proc, q # p
  PROVE  /\ taken \subseteq taken'
         /\ at'[q] = at[q] /\ body'[q] = body[q] /\ answer'[q] = answer[q]
         /\ contract'[q] = contract[q] /\ asked'[q] = asked[q] /\ told'[q] = told[q]
<1> USE DEF Set, Reply
<1>0. StoreTyped /\ ServerTyped
  BY TypesAre
<1>1. CASE Arrive(p)
  BY <1>0, <1>1 DEF ServerTyped, Arrive, store
<1>2. CASE CallStore(p)
  BY <1>0, <1>2 DEF StoreTyped, ServerTyped, CallStore, Store!Ask
<1>3. CASE StoreTakes(p)
  <2>1. taken \subseteq taken' /\ asked' = asked /\ told'[q] = told[q]
    BY <1>0, <1>3, TakeIs DEF StoreTyped, StoreTakes
  <2> QED BY <1>3, <2>1 DEF StoreTakes, server
<1>4. CASE StoreTells(p) \/ StoreForgets(p)
  BY <1>0, <1>4 DEF StoreTyped, StoreTells, StoreForgets, Store!Tell, Store!Leave, server
<1>5. CASE Conclude(p) \/ ListAgain(p) \/ Die(p)
  BY <1>0, <1>5 DEF ServerTyped, Conclude, ListAgain, Die, store
<1>6. CASE Unheard(p)
  BY <1>0, <1>6, FreeIs DEF StoreTyped, ServerTyped, Unheard
<1> QED BY <1>1, <1>2, <1>3, <1>4, <1>5, <1>6 DEF ServerStep

\* A freed slot is in order.
LEMMA FreedOK ==
  ASSUME TypeOK, NEW p \in Proc, ServerOK(p), Free(p)
  PROVE  ServerOK(p)'
<1>1. StoreTyped /\ ServerTyped
  BY TypesAre
<1>2. at'[p] = "free" /\ told'[p] \in {"gone", "left"} /\ taken' = taken
  BY <1>1, FreeIs DEF StoreTyped, ServerTyped
<1> QED BY <1>2 DEF ServerOK, Busy

\* A step of a page touches at most the invocation it sends to, or hears from.
LEMMA PageFrame ==
  ASSUME TypeOK, NEW u \in User, PageStep(u), NEW q \in Proc
  PROVE  /\ taken' = taken
         /\ \/ /\ at'[q] = at[q] /\ body'[q] = body[q] /\ answer'[q] = answer[q]
               /\ contract'[q] = contract[q] /\ asked'[q] = asked[q] /\ told'[q] = told[q]
            \/ \E form \in Form : Submit(u, q, form)
            \/ Deliver(u) /\ q = sending[u].to
<1> USE DEF Set
<1>0. StoreTyped /\ ServerTyped /\ PageTyped
  BY TypesAre
<1>1. CASE Load(u) \/ CloseDialog(u) \/ Lose(u) \/ Reload(u)
  BY <1>1 DEF Load, CloseDialog, Lose, Reload, store, server
<1>2. CASE \E command \in Command, c \in CommitmentId \cup {None} : OpenDialog(u, command, c)
  BY <1>2 DEF OpenDialog, store, server
<1>3. CASE \E p \in Proc, form \in Form : Submit(u, p, form)
  <2>1. PICK p \in Proc, form \in Form : Submit(u, p, form)
    BY <1>3
  <2>2. CASE p = q
    BY <2>1, <2>2 DEF Submit, store
  <2>3. CASE p # q
    BY <1>0, <2>1, <2>3 DEF Submit, store, ServerTyped
  <2> QED BY <2>2, <2>3
<1>4. CASE Deliver(u)
  <2>1. sending[u] # None /\ sending[u].to \in Proc /\ Free(sending[u].to)
    BY <1>0, <1>4 DEF Deliver, PageTyped, Sending
  <2>2. CASE q = sending[u].to
    BY <1>4, <2>1, <2>2, FreeIs
  <2>3. CASE q # sending[u].to
    <3> DEFINE p == sending[u].to
    <3>1. p \in Proc /\ Free(p) /\ q # p
      BY <2>1, <2>3
    <3> HIDE DEF p
    <3> QED BY <1>0, <3>1, FreeIs DEF StoreTyped, ServerTyped
  <2> QED BY <2>2, <2>3
<1> QED BY <1>1, <1>2, <1>3, <1>4 DEF PageStep

\* A step of an invocation leaves it where its store call allows.
LEMMA ServerOwn ==
  ASSUME TypeOK, NEW p \in Proc, ServerOK(p), ServerStep(p)
  PROVE  ServerOK(p)'
<1> USE DEF Set, Reply
<1>0. StoreTyped /\ ServerTyped /\ brief \in Evidence
  BY TypesAre
<1>1. CASE Arrive(p)
  <2>1. /\ at[p] = "sent" /\ UNCHANGED <<store, body>>
        /\ \/ at'[p] = "answered" /\ answer'[p] \in {"down", "stale", "denied"}
           \/ at'[p] = "admitted"
        /\ contract'[p].brief = brief
    <3>1. contract[p] \in Contract
      BY <1>0 DEF ServerTyped
    <3>2. contract'[p] = [contract[p] EXCEPT !.brief = brief]
      BY <1>0, <1>1 DEF Arrive, ServerTyped
    <3>3. contract'[p].brief = brief
      BY <3>1, <3>2 DEF Contract
    <3> QED BY <1>0, <1>1, <3>3 DEF Arrive, ServerTyped
  <2> QED BY <1>0, <2>1 DEF ServerOK, Busy, store
<1>2. CASE CallStore(p)
  <2>1. /\ at[p] = "admitted" /\ at'[p] = "store"
        /\ asked'[p] = body[p] /\ told'[p] \in {"waiting", "refused"}
        /\ UNCHANGED <<taken, body, answer, contract>>
    BY <1>0, <1>2 DEF CallStore, Store!Ask, StoreTyped, ServerTyped
  <2> QED BY <2>1 DEF ServerOK, Busy
<1>3. CASE StoreTakes(p)
  <2>1. /\ told[p] \notin {"refused", "gone"}
        /\ asked' = asked /\ asked[p] \in taken' /\ taken \subseteq taken'
        /\ \/ told'[p] = told[p]
           \/ told[p] = "waiting" /\ told'[p] = "done"
           \/ told[p] = "left" /\ told'[p] = "gone"
    BY <1>0, <1>3, TakeIs DEF StoreTakes, StoreTyped
  <2>2. UNCHANGED <<at, body, answer, contract>>
    BY <1>3 DEF StoreTakes, server
  <2> QED BY <2>1, <2>2 DEF ServerOK, Busy
<1>4. CASE StoreTells(p)
  <2>1. /\ at[p] = "store" /\ told[p] = "waiting"
        /\ told'[p] \in {"done", "refused", "unsure"}
        /\ told'[p] = "done" => asked[p] \in taken
        /\ UNCHANGED <<asked, taken, at, body, answer, contract>>
    BY <1>0, <1>4 DEF StoreTells, Store!Tell, Store!Answers, StoreTyped, server
  <2> QED BY <2>1 DEF ServerOK, Busy
<1>5. CASE StoreForgets(p)
  <2>1. /\ at[p] = "free" /\ told'[p] \in {"gone", "left"}
        /\ UNCHANGED <<asked, taken, at, body, answer, contract>>
    BY <1>0, <1>5 DEF StoreForgets, Store!Leave, StoreTyped, server
  <2> QED BY <2>1 DEF ServerOK, Busy
<1>6. CASE Conclude(p)
  <2>1. /\ at[p] = "store" /\ told[p] # "waiting"
        /\ UNCHANGED <<asked, taken, told, body, contract>>
        /\ \/ told[p] = "done" /\ at'[p] = "recorded"
           \/ /\ at'[p] = "answered"
              /\ answer'[p] \in {"refused", "down", "exists"}
              /\ answer'[p] = "refused" => told[p] = "refused"
    BY <1>0, <1>6 DEF Conclude, StoreAnswer, ServerTyped, store
  <2> QED BY <2>1 DEF ServerOK, Busy
<1>7. CASE ListAgain(p)
  <2>1. /\ at[p] = "recorded" /\ at'[p] = "answered" /\ answer'[p] \in {"ok", "down"}
        /\ UNCHANGED <<asked, taken, told, body>>
    BY <1>0, <1>7 DEF ListAgain, ServerTyped, store
  <2>2. contract'[p].brief = contract[p].brief
    <3>1. contract[p] \in Contract
      BY <1>0 DEF ServerTyped
    <3>2. contract'[p] = contract[p] \/ contract'[p] = [contract[p] EXCEPT !.rows = row]
      BY <1>0, <1>7 DEF ListAgain, ServerTyped
    <3> QED BY <3>1, <3>2 DEF Contract
  <2> QED BY <2>1, <2>2 DEF ServerOK, Busy
<1>8. CASE Die(p)
  <2>1. /\ at[p] \in {"sent", "admitted", "store", "recorded"}
        /\ at'[p] = "answered" /\ answer'[p] = "down"
        /\ UNCHANGED <<asked, taken, told, body, contract>>
    BY <1>0, <1>8 DEF Die, ServerTyped, store
  <2> QED BY <2>1 DEF ServerOK, Busy
<1>9. CASE Unheard(p)
  BY <1>9, FreedOK DEF Unheard
<1> QED BY <1>1, <1>2, <1>3, <1>4, <1>5, <1>6, <1>7, <1>8, <1>9 DEF ServerStep

\* So does every step.
LEMMA ServerKept ==
  ASSUME TypeOK, \A p \in Proc : ServerOK(p), [Next]_vars, NEW q \in Proc
  PROVE  ServerOK(q)'
<1>1. ASSUME NEW u \in User, PageStep(u)
      PROVE  ServerOK(q)'
  <2>1. CASE \E form \in Form : Submit(u, q, form)
    <3>1. PICK form \in Form : Submit(u, q, form)
      BY <2>1
    <3>2. BodyToSend(u, form) \in RequestShape
      BY <3>1, BodyShape DEF Submit
    <3>3. /\ at'[q] = "sent" /\ body'[q] = BodyToSend(u, form) /\ told[q] = "gone"
          /\ UNCHANGED <<taken, asked, told>>
      <4>1. ServerTyped
        BY TypesAre
      <4> QED BY <3>1, <4>1 DEF Submit, Set, store, ServerTyped
    <3> QED BY <3>2, <3>3 DEF ServerOK, Busy
  <2>2. CASE Deliver(u) /\ q = sending[u].to
    BY <2>2, FreedOK DEF Deliver
  <2> QED BY <1>1, <2>1, <2>2, PageFrame, SlotKept
<1>2. ASSUME NEW p \in Proc, ServerStep(p)
      PROVE  ServerOK(q)'
  <2>1. CASE q = p
    BY <1>2, <2>1, ServerOwn
  <2>2. CASE q # p
    BY <1>2, <2>2, ServerFrame, SlotKept
  <2> QED BY <2>1, <2>2
<1>3. CASE UNCHANGED <<store, server>>
  BY <1>3, SlotKept DEF store, server
<1> QED BY <1>1, <1>2, <1>3 DEF Next, Publish, vars

-----------------------------------------------------------------------------
(* Whose a command id is, and what travels under it. *)

Identities == IdsOK /\ OneBody /\ \A u \in User : PageOK(u)

\* While no page changes and no slot is freed or filled, only the store moves.
LEMMA StoreMoves ==
  ASSUME TypeOK, NEW p \in Proc, ServerStep(p), ~Unheard(p)
  PROVE  /\ UNCHANGED <<body, dialog, sending, ids>>
         /\ \A q \in Proc : Busy(q)' <=> Busy(q)
         /\ \A q \in Proc : ~Busy(q) => asked'[q] = asked[q]
         /\ \/ UNCHANGED <<taken, asked, told>>
            \/ CallStore(p) \/ StoreTakes(p) \/ StoreTells(p) \/ StoreForgets(p)
<1> USE DEF Set, Reply, Busy
<1>0. StoreTyped /\ ServerTyped
  BY TypesAre
<1>1. CASE Arrive(p)
  BY <1>0, <1>1 DEF Arrive, ServerTyped, store, page
<1>2. CASE CallStore(p)
  BY <1>0, <1>2 DEF CallStore, Store!Ask, StoreTyped, ServerTyped, page
<1>3. CASE StoreTakes(p) \/ StoreTells(p) \/ StoreForgets(p)
  BY <1>3, TakeIs DEF StoreTakes, StoreTells, StoreForgets, Store!Tell, Store!Leave, server, page
<1>4. CASE Conclude(p) \/ ListAgain(p) \/ Die(p)
  BY <1>0, <1>4 DEF Conclude, ListAgain, Die, ServerTyped, store, page
<1> QED BY <1>1, <1>2, <1>3, <1>4 DEF ServerStep

\* A step of the store or of an invocation keeps the ids.
LEMMA StoreKeepsIdentities ==
  ASSUME TypeOK, \A q \in Proc : ServerOK(q), Identities, NEW p \in Proc, ServerStep(p), ~Unheard(p)
  PROVE  Identities'
<1>0. StoreTyped /\ ServerTyped
  BY TypesAre
<1>1. /\ UNCHANGED <<body, dialog, sending, ids>>
      /\ \A q \in Proc : Busy(q)' <=> Busy(q)
      /\ \A q \in Proc : ~Busy(q) => asked'[q] = asked[q]
  BY StoreMoves
<1>2. OneBody'
  BY <1>1 DEF Identities, OneBody
<1>3. ASSUME NEW u \in User
      PROVE  SendingOK(u)' /\ FrozenOK(u)' /\ EditableOK(u)'
  <2>1. SendingOK(u) /\ FrozenOK(u) /\ EditableOK(u)
    BY DEF Identities, PageOK
  <2>2. sending[u] # None => sending[u].to \in Proc
    BY DEF TypeOK, Sending
  <2> QED BY <1>1, <2>1, <2>2 DEF SendingOK, FrozenOK, EditableOK
<1>4. CASE UNCHANGED <<taken, asked, told>>
  <2>1. IdsOK'
    BY <1>1, <1>4 DEF Identities, IdsOK
  <2>2. \A u \in User : UncommittedOK(u)'
    BY <1>1, <1>4 DEF Identities, PageOK, UncommittedOK
  <2> QED BY <1>2, <1>3, <2>1, <2>2 DEF Identities, PageOK
<1>5. CASE CallStore(p)
  <2>1. /\ at[p] = "admitted" /\ Busy(p) /\ told[p] = "gone"
        /\ asked' = [asked EXCEPT ![p] = body[p]]
        /\ taken' = taken
        /\ \/ told' = [told EXCEPT ![p] = "waiting"]
           \/ told' = [told EXCEPT ![p] = "refused"]
    BY <1>5 DEF CallStore, Store!Ask, Busy
  <2>2. IdsOK'
    <3>1. \A q \in Proc : told'[q] # "gone" => asked'[q].id \in ids
      BY <1>0, <2>1 DEF Identities, IdsOK, StoreTyped
    <3> QED BY <1>1, <2>1, <3>1 DEF Identities, IdsOK
  <2>3. ASSUME NEW u \in User
        PROVE  UncommittedOK(u)'
    <3>1. UncommittedOK(u)
      BY DEF Identities, PageOK
    <3>2. sending[u] # None => sending[u].to \in Proc
      BY DEF TypeOK, Sending
    <3>3. \A q \in Proc : told[q] \notin {"gone", "refused"} => told'[q] \notin {"gone", "refused"}
      BY <1>0, <2>1 DEF StoreTyped
    <3>4. \A q \in Proc : ~Busy(q)' => told'[q] = told[q] /\ asked'[q] = asked[q]
      BY <1>0, <1>1, <2>1 DEF StoreTyped
    <3> QED BY <1>1, <2>1, <3>1, <3>2, <3>3, <3>4 DEF UncommittedOK
  <2> QED BY <1>2, <1>3, <2>2, <2>3 DEF Identities, PageOK
<1>6. CASE StoreTakes(p)
  <2>1. /\ told[p] \notin {"refused", "gone"}
        /\ asked' = asked
        /\ taken' = taken \cup {asked[p]}
        /\ \A q \in Proc : q # p => told'[q] = told[q]
        /\ \/ told'[p] = told[p]
           \/ told[p] = "waiting" /\ told'[p] = "done"
           \/ told[p] = "left" /\ told'[p] = "gone"
    BY <1>0, <1>6, TakeIs DEF StoreTakes, StoreTyped
  <2>2. IdsOK'
    <3>1. asked[p].id \in ids
      BY <2>1 DEF Identities, IdsOK
    <3>2. \A q \in Proc : told'[q] # "gone" => told[q] # "gone"
      BY <2>1
    <3> QED BY <1>1, <2>1, <3>1, <3>2 DEF Identities, IdsOK
  <2>3. ASSUME NEW u \in User
        PROVE  UncommittedOK(u)'
    <3> SUFFICES ASSUME dialog[u] # None, dialog[u].replay = None, ~dialog[u].doubled
                 PROVE  /\ \A r \in taken' : r.id = dialog[u].id =>
                              /\ sending[u] # None /\ r = sending[u].body
                              /\ told'[sending[u].to] \notin {"gone", "refused"}
                        /\ \A q \in Proc : ~Busy(q) /\ told'[q] # "gone" => asked[q].id # dialog[u].id
      BY <1>1, <2>1 DEF UncommittedOK
    <3>1. UncommittedOK(u) /\ SendingOK(u) /\ EditableOK(u)
      BY DEF Identities, PageOK
    <3>2. sending[u] # None => sending[u].to \in Proc /\ Busy(sending[u].to)
      BY <3>1 DEF TypeOK, Sending, SendingOK
    <3>3. told[p] = "left" => ~Busy(p)
      BY DEF ServerOK, Busy, TypeOK
    <3>4. ASSUME asked[p].id = dialog[u].id
          PROVE  sending[u] # None /\ sending[u].to = p /\ asked[p] = sending[u].body
      <4>1. Busy(p)
        BY <2>1, <3>1, <3>4 DEF UncommittedOK
      <4>2. asked[p] = body[p]
        BY <2>1, <4>1 DEF ServerOK
      <4> QED BY <3>1, <3>4, <4>1, <4>2 DEF EditableOK, SendingOK
    <3>5. ASSUME NEW q \in Proc, Busy(q), told[q] \notin {"gone", "refused"}
          PROVE  told'[q] \notin {"gone", "refused"}
      BY <2>1, <3>3, <3>5
    <3>6. \A r \in taken : r.id = dialog[u].id =>
            /\ sending[u] # None /\ r = sending[u].body
            /\ told'[sending[u].to] \notin {"gone", "refused"}
      BY <3>1, <3>2, <3>5 DEF UncommittedOK
    <3>7. asked[p].id = dialog[u].id =>
            /\ sending[u] # None /\ asked[p] = sending[u].body
            /\ told'[sending[u].to] \notin {"gone", "refused"}
      BY <2>1, <3>2, <3>4, <3>5
    <3>8. \A q \in Proc : told'[q] # "gone" => told[q] # "gone"
      BY <2>1
    <3> QED BY <2>1, <3>1, <3>6, <3>7, <3>8 DEF UncommittedOK
  <2> QED BY <1>2, <1>3, <2>2, <2>3 DEF Identities, PageOK
<1>7. CASE StoreTells(p) \/ StoreForgets(p)
  <2>1. /\ UNCHANGED <<taken, asked>>
        /\ told[p] # "gone"
        /\ \A q \in Proc : q # p => told'[q] = told[q]
        /\ \/ Busy(p) /\ told'[p] # "gone" /\ (told'[p] = "refused" => asked[p] \notin taken)
           \/ ~Busy(p)
    BY <1>0, <1>7 DEF StoreTells, StoreForgets, Store!Tell, Store!Leave, Store!Answers, StoreTyped, Busy
  <2>2. IdsOK'
    BY <1>1, <2>1 DEF Identities, IdsOK
  <2>3. ASSUME NEW u \in User
        PROVE  UncommittedOK(u)'
    <3>1. UncommittedOK(u) /\ SendingOK(u)
      BY DEF Identities, PageOK
    <3>2. sending[u] # None => sending[u].to \in Proc /\ Busy(sending[u].to)
      BY <3>1 DEF TypeOK, Sending, SendingOK
    <3>3. ASSUME NEW r \in taken, sending[u] # None, r = sending[u].body,
                 told[sending[u].to] \notin {"gone", "refused"}
          PROVE  told'[sending[u].to] \notin {"gone", "refused"}
      <4>1. sending[u].to = p => asked[p] = r
        BY <3>1, <3>2, <3>3 DEF ServerOK, SendingOK
      <4> QED BY <2>1, <3>2, <3>3, <4>1
    <3>4. \A q \in Proc : told'[q] # "gone" => told[q] # "gone"
      BY <2>1
    <3> QED BY <1>1, <2>1, <3>1, <3>3, <3>4 DEF UncommittedOK
  <2> QED BY <1>2, <1>3, <2>2, <2>3 DEF Identities, PageOK
<1> QED BY <1>4, <1>5, <1>6, <1>7, StoreMoves

\* Nothing of the kind moves.
LEMMA SameIdentities ==
  ASSUME Identities, UNCHANGED <<at, body, taken, asked, told, dialog, sending, ids>>
  PROVE  Identities'
<1>1. ASSUME NEW u \in User
      PROVE  PageOK(u)'
  <2>1. PageOK(u)
    BY DEF Identities
  <2> QED BY <2>1 DEF PageOK, SendingOK, FrozenOK, EditableOK, UncommittedOK, Busy
<1>2. IdsOK' /\ OneBody'
  BY DEF Identities, IdsOK, OneBody, Busy
<1> QED BY <1>1, <1>2 DEF Identities

\* A slot nobody listens to is freed: no dialog was waiting for it.
LEMMA UnheardKeepsIdentities ==
  ASSUME TypeOK, \A q \in Proc : ServerOK(q), Identities, NEW p \in Proc, Unheard(p)
  PROVE  Identities'
<1>0. StoreTyped /\ ServerTyped
  BY TypesAre
<1>1. /\ Busy(p) /\ ~Busy(p)' /\ UNCHANGED <<taken, asked, dialog, sending, ids>>
      /\ \A q \in Proc : q # p => (Busy(q)' <=> Busy(q)) /\ body'[q] = body[q] /\ told'[q] = told[q]
      /\ told'[p] # "gone" => told[p] # "gone"
      /\ \A u \in User : sending[u] # None => sending[u].to # p
  BY <1>0, FreeIs DEF Unheard, Heard, Busy, StoreTyped, ServerTyped, page
<1>2. IdsOK' /\ OneBody'
  BY <1>1 DEF Identities, IdsOK, OneBody
<1>3. ASSUME NEW u \in User
      PROVE  PageOK(u)'
  <2>1. SendingOK(u) /\ FrozenOK(u) /\ EditableOK(u) /\ UncommittedOK(u)
    BY DEF Identities, PageOK
  <2>2. sending[u] # None => sending[u].to \in Proc /\ sending[u].to # p
    BY <1>1 DEF TypeOK, Sending
  <2>3. SendingOK(u)' /\ FrozenOK(u)' /\ EditableOK(u)'
    BY <1>1, <2>1, <2>2 DEF SendingOK, FrozenOK, EditableOK
  <2>4. UncommittedOK(u)'
    <3> SUFFICES ASSUME dialog[u] # None, dialog[u].replay = None, ~dialog[u].doubled
                 PROVE  /\ \A r \in taken : r.id = dialog[u].id =>
                              /\ sending[u] # None /\ r = sending[u].body
                              /\ told'[sending[u].to] \notin {"gone", "refused"}
                        /\ \A q \in Proc : ~Busy(q)' /\ told'[q] # "gone" => asked[q].id # dialog[u].id
      BY <1>1 DEF UncommittedOK
    <3>1. told'[p] # "gone" => asked[p].id # dialog[u].id
      <4>1. told[p] # "gone" => asked[p] = body[p]
        BY <1>1 DEF ServerOK
      <4>2. body[p].id # dialog[u].id
        BY <1>1, <2>1, <2>2 DEF EditableOK
      <4> QED BY <1>1, <4>1, <4>2
    <3> QED BY <1>1, <2>1, <2>2, <3>1 DEF UncommittedOK
  <2> QED BY <2>3, <2>4 DEF PageOK
<1> QED BY <1>2, <1>3 DEF Identities

\* What becomes of the dialog of a page that no longer awaits what it sent to p:
\* it is another's, or frozen with what was sent, or told that it was refused for
\* good.
Settled(u, p) ==
  \/ dialog'[u] = None
  \/ /\ dialog[u] # None /\ dialog[u].id # sending[u].id
     /\ dialog'[u] = dialog[u]
  \/ /\ dialog[u] # None /\ dialog[u].id = sending[u].id
     /\ \/ dialog'[u] = [dialog[u] EXCEPT !.replay = sending[u].body]
        \/ dialog'[u] = [dialog[u] EXCEPT !.doubled = TRUE] /\ at'[p] = "free"
        \/ dialog'[u] = dialog[u] /\ at'[p] = "free" /\ told[p] \in {"gone", "refused"}

\* A page stops waiting.
LEMMA SettledKeepsIdentities ==
  ASSUME TypeOK, \A q \in Proc : ServerOK(q), Identities, NEW u \in User, sending[u] # None,
         NEW p \in Proc, p = sending[u].to,
         UNCHANGED <<taken, asked, ids>>,
         sending' = [sending EXCEPT ![u] = None],
         \A v \in User : v # u => dialog'[v] = dialog[v],
         \A q \in Proc : q # p =>
           (Busy(q)' <=> Busy(q)) /\ body'[q] = body[q] /\ told'[q] = told[q],
         Busy(p)' => body'[p] = body[p],
         told'[p] # "gone" => told[p] \notin {"gone", "refused"} \/ Busy(p)',
         told'[p] # "gone" => told[p] # "gone",
         Settled(u, p)
  PROVE  Identities'
<1>0. PageTyped
  BY TypesAre
<1> DEFINE b == sending[u].body
<1>1. /\ p \in Proc /\ b \in RequestShape /\ b # None
  BY <1>0, NoRequestAssumption DEF PageTyped, Sending
<1>2. Busy(p) /\ body[p] = b /\ b.id = sending[u].id
  BY DEF Identities, PageOK, SendingOK
<1>3. \A v \in User : v # u /\ sending[v] # None => sending[v].to # p
  BY DEF Identities, PageOK, SendingOK
<1>4. sending'[u] = None /\ \A v \in User : v # u => sending'[v] = sending[v]
  BY <1>0 DEF PageTyped
<1>5. /\ \A q \in Proc : Busy(q)' => Busy(q) /\ body'[q] = body[q]
      /\ \A q \in Proc : told'[q] # "gone" => told[q] # "gone"
      /\ \A q \in Proc : q # p => (Busy(q)' <=> Busy(q)) /\ body'[q] = body[q] /\ told'[q] = told[q]
      /\ told'[p] # "gone" => told[p] \notin {"gone", "refused"} \/ Busy(p)'
  BY <1>2
<1>6. told[p] # "gone" => asked[p] = b
  BY <1>1, <1>2 DEF ServerOK
<1>7. dialog[u] # None => dialog[u] \in Dialog
  BY <1>0 DEF PageTyped
<1>8. dialog'[u] # None => dialog[u] # None /\ dialog'[u].id = dialog[u].id
  BY <1>7 DEF Settled, Dialog, Busy
<1>9. /\ dialog[u] # None /\ dialog'[u] # None
      /\ dialog[u].id = sending[u].id
      => \/ dialog'[u].replay = b
         \/ dialog'[u].replay = dialog[u].replay /\ dialog'[u].doubled /\ ~Busy(p)'
         \/ dialog'[u] = dialog[u] /\ ~Busy(p)' /\ told[p] \in {"gone", "refused"}
  <2> SUFFICES ASSUME dialog[u] # None, dialog'[u] # None, dialog[u].id = sending[u].id
               PROVE  \/ dialog'[u].replay = b
                      \/ dialog'[u].replay = dialog[u].replay /\ dialog'[u].doubled /\ ~Busy(p)'
                      \/ dialog'[u] = dialog[u] /\ ~Busy(p)' /\ told[p] \in {"gone", "refused"}
    OBVIOUS
  <2>1. /\ [dialog[u] EXCEPT !.replay = b].replay = b
        /\ [dialog[u] EXCEPT !.doubled = TRUE].doubled
        /\ [dialog[u] EXCEPT !.doubled = TRUE].replay = dialog[u].replay
    BY <1>7 DEF Dialog
  <2> QED BY <2>1 DEF Settled, Busy
<1>10. dialog'[u] # None /\ dialog[u].id # sending[u].id => dialog'[u] = dialog[u]
  BY <1>8 DEF Settled
<1> HIDE DEF b
<1>11. IdsOK'
  <2>1. \A q \in Proc : Busy(q)' => body'[q].id \in ids
    BY <1>5 DEF Identities, IdsOK
  <2>2. \A v, w \in User : v # w /\ dialog'[v] # None =>
          /\ dialog[v] # None /\ dialog'[v].id = dialog[v].id
          /\ dialog'[w] # None => dialog[w] # None /\ dialog'[w].id = dialog[w].id
          /\ sending'[w] # None => sending[w] # None /\ sending'[w] = sending[w]
    BY <1>4, <1>8
  <2>3. \A v, w \in User : v # w /\ dialog'[v] # None =>
          /\ dialog'[w] # None => dialog'[w].id # dialog'[v].id
          /\ sending'[w] # None => sending'[w].id # dialog'[v].id
    BY <2>2 DEF Identities, IdsOK
  <2>4. \A v \in User : dialog'[v] # None => dialog'[v].id \in ids
    BY <1>8 DEF Identities, IdsOK
  <2>5. \A q \in Proc : told'[q] # "gone" => asked'[q].id \in ids
    BY <1>5 DEF Identities, IdsOK
  <2> QED BY <2>1, <2>3, <2>4, <2>5 DEF Identities, IdsOK
<1>12. OneBody'
  BY <1>5 DEF Identities, OneBody
<1>13. ASSUME NEW v \in User, v # u
       PROVE  PageOK(v)'
  <2>1. SendingOK(v) /\ FrozenOK(v) /\ EditableOK(v) /\ UncommittedOK(v)
    BY DEF Identities, PageOK
  <2>2. dialog'[v] = dialog[v] /\ sending'[v] = sending[v]
    BY <1>4, <1>13
  <2>3. sending[v] # None => sending[v].to \in Proc /\ sending[v].to # p
    BY <1>0, <1>3, <1>13 DEF PageTyped, Sending
  <2>4. dialog[v] # None => b.id # dialog[v].id
    BY <1>2, <1>13 DEF Identities, IdsOK
  <2>5. SendingOK(v)'
    BY <1>3, <1>4, <1>5, <2>1, <2>2, <2>3 DEF SendingOK
  <2>6. FrozenOK(v)' /\ EditableOK(v)'
    BY <1>5, <2>1, <2>2 DEF FrozenOK, EditableOK
  <2>7. UncommittedOK(v)'
    <3>1. \A q \in Proc : ~Busy(q)' /\ told'[q] # "gone" => (~Busy(q) /\ told[q] # "gone") \/ asked[q] = b
      BY <1>5, <1>6
    <3> QED BY <1>5, <2>1, <2>2, <2>3, <2>4, <3>1 DEF UncommittedOK
  <2> QED BY <2>5, <2>6, <2>7 DEF PageOK
<1>14. PageOK(u)'
  <2>1. SendingOK(u) /\ FrozenOK(u) /\ EditableOK(u) /\ UncommittedOK(u)
    BY DEF Identities, PageOK
  <2>2. SendingOK(u)'
    BY <1>4 DEF SendingOK
  <2> SUFFICES ASSUME dialog'[u] # None PROVE FrozenOK(u)' /\ EditableOK(u)' /\ UncommittedOK(u)'
    BY <2>2 DEF PageOK, FrozenOK, EditableOK, UncommittedOK
  <2>3. dialog[u] # None /\ dialog'[u].id = dialog[u].id
    BY <1>8
  <2>4. ASSUME dialog[u].replay = None, NEW q \in Proc, Busy(q), body[q].id = dialog[u].id
        PROVE  q = p /\ dialog[u].id = sending[u].id
    BY <1>2, <2>1, <2>3, <2>4 DEF EditableOK
  <2>5. ASSUME dialog[u].replay = None, ~dialog[u].doubled
        PROVE  /\ \A r \in taken : r.id = dialog[u].id =>
                    dialog[u].id = sending[u].id /\ told[p] \notin {"gone", "refused"}
               /\ \A q \in Proc : ~Busy(q) /\ told[q] # "gone" => asked[q].id # dialog[u].id
    BY <1>2, <2>1, <2>3, <2>5 DEF UncommittedOK, b
  <2>6. CASE dialog[u].id # sending[u].id
    <3>1. dialog'[u] = dialog[u]
      BY <1>10, <2>6
    <3>2. FrozenOK(u)' /\ EditableOK(u)'
      BY <1>5, <2>1, <2>4, <2>6, <3>1 DEF FrozenOK, EditableOK
    <3>3. UncommittedOK(u)'
      <4>1. \A q \in Proc : ~Busy(q)' /\ told'[q] # "gone" => (~Busy(q) /\ told[q] # "gone") \/ asked[q] = b
        BY <1>5, <1>6
      <4> QED BY <1>2, <2>5, <2>6, <3>1, <4>1 DEF UncommittedOK
    <3> QED BY <3>2, <3>3
  <2>7. CASE dialog[u].id = sending[u].id /\ dialog'[u].replay = b
    <3>1. \A q \in Proc : Busy(q) /\ body[q].id = dialog[u].id => body[q] = b
      BY <1>1, <1>2, <2>7 DEF Identities, OneBody
    <3> QED BY <1>1, <1>2, <1>5, <2>3, <2>7, <3>1 DEF FrozenOK, EditableOK, UncommittedOK
  <2>8. CASE /\ dialog[u].id = sending[u].id
             /\ dialog'[u].replay = dialog[u].replay /\ dialog'[u].doubled /\ ~Busy(p)'
    <3>1. FrozenOK(u)'
      BY <1>5, <2>1, <2>3, <2>8 DEF FrozenOK
    <3>2. EditableOK(u)'
      <4>1. dialog[u].replay = None => \A q \in Proc : Busy(q)' => body[q].id # dialog[u].id
        BY <1>5, <2>4, <2>8
      <4> QED BY <1>5, <2>3, <2>8, <4>1 DEF EditableOK
    <3> QED BY <2>8, <3>1, <3>2 DEF UncommittedOK
  <2>9. CASE /\ dialog[u].id = sending[u].id
             /\ dialog'[u] = dialog[u] /\ ~Busy(p)' /\ told[p] \in {"gone", "refused"}
    <3>1. FrozenOK(u)' /\ EditableOK(u)'
      <4>1. dialog[u].replay = None => \A q \in Proc : Busy(q)' => body[q].id # dialog[u].id
        BY <1>5, <2>4, <2>9
      <4> QED BY <1>5, <2>1, <2>9, <4>1 DEF FrozenOK, EditableOK
    <3>2. \A q \in Proc : ~Busy(q)' /\ told'[q] # "gone" => ~Busy(q) /\ told[q] # "gone"
      BY <1>5, <2>9
    <3>3. UncommittedOK(u)'
      BY <2>5, <2>9, <3>2 DEF UncommittedOK
    <3> QED BY <3>1, <3>3
  <2> QED BY <1>9, <2>3, <2>6, <2>7, <2>8, <2>9
<1> QED BY <1>11, <1>12, <1>13, <1>14 DEF Identities

\* The answer arrives, or the page gives up waiting for it.
LEMMA HeardKeepsIdentities ==
  ASSUME TypeOK, \A q \in Proc : ServerOK(q), Identities, NEW u \in User, Deliver(u) \/ Lose(u)
  PROVE  Identities'
<1>0. StoreTyped /\ ServerTyped /\ PageTyped
  BY TypesAre
<1>1. PICK p \in Proc : p = sending[u].to
  BY <1>0 DEF Deliver, Lose, PageTyped, Sending
<1>2. sending[u] # None /\ Busy(p)
  BY <1>1 DEF Deliver, Lose, Identities, PageOK, SendingOK
<1>3. \A v \in User : v # u => dialog'[v] = dialog[v]
  BY <1>0 DEF PageTyped, Deliver, Lose, Accepted, Unconfirmed, Rejected, Set
<1>4. Unconfirmed(u) => Settled(u, p)
  BY <1>0 DEF PageTyped, Unconfirmed, Settled, Set
<1>5. CASE Lose(u)
  <2>1. UNCHANGED <<taken, asked, ids, at, body, told>> /\ sending' = [sending EXCEPT ![u] = None]
    BY <1>5 DEF Lose, store, server, Set
  <2> QED BY <1>1, <1>2, <1>3, <1>4, <1>5, <2>1, SettledKeepsIdentities DEF Lose, Busy
<1>6. CASE Deliver(u)
  <2>1. /\ at[p] = "answered" /\ Free(p) /\ ids' = ids
        /\ sending' = [sending EXCEPT ![u] = None]
        /\ \/ answer[p] = "ok" /\ Accepted(u, p)
           \/ answer[p] # "ok" /\ Ambiguous(answer[p]) /\ Unconfirmed(u)
           \/ answer[p] # "ok" /\ ~Ambiguous(answer[p]) /\ Rejected(u, answer[p])
    BY <1>1, <1>6 DEF Deliver, Set
  <2>2. /\ UNCHANGED <<taken, asked>> /\ at'[p] = "free"
        /\ \A q \in Proc : q # p =>
             (Busy(q)' <=> Busy(q)) /\ body'[q] = body[q] /\ told'[q] = told[q]
        /\ told'[p] # "gone" => told[p] \notin {"gone", "refused"}
    BY <1>0, <2>1, FreeIs DEF StoreTyped, ServerTyped, Busy
  <2>3. Settled(u, p)
    <3>1. CASE Accepted(u, p)
      BY <1>0, <3>1 DEF Accepted, Settled, PageTyped, Set
    <3>2. CASE answer[p] # "ok" /\ ~Ambiguous(answer[p]) /\ Rejected(u, answer[p])
      <4>1. answer[p] # "exists" => told[p] \in {"gone", "refused"}
        BY <2>1, <3>2 DEF ServerOK, Ambiguous, Denial
      <4> QED BY <1>0, <2>2, <3>2, <4>1 DEF Rejected, Settled, PageTyped, Set
    <3> QED BY <1>4, <2>1, <3>1, <3>2
  <2> QED BY <1>1, <1>2, <1>3, <2>1, <2>2, <2>3, SettledKeepsIdentities DEF Busy
<1> QED BY <1>5, <1>6

\* A dialog is closed, by its user or with its page: nothing else depends on it.
LEMMA ClosedKeepsIdentities ==
  ASSUME TypeOK, Identities, NEW u \in User, CloseDialog(u) \/ Reload(u)
  PROVE  Identities'
<1>0. PageTyped
  BY TypesAre
<1>1. /\ UNCHANGED <<taken, asked, told, at, body, ids>>
      /\ dialog' = [dialog EXCEPT ![u] = None]
      /\ sending' = sending \/ sending' = [sending EXCEPT ![u] = None]
  BY DEF CloseDialog, Reload, store, server, Set
<1>2. /\ \A v \in User : dialog'[v] # None => v # u /\ dialog'[v] = dialog[v] /\ sending'[v] = sending[v]
      /\ \A v \in User : sending'[v] # None => sending'[v] = sending[v]
      /\ \A v \in User : v # u => sending'[v] = sending[v]
  BY <1>0, <1>1 DEF PageTyped
<1>3. OneBody'
  BY <1>1 DEF Identities, OneBody, Busy
<1>4. IdsOK'
  BY <1>1, <1>2 DEF Identities, IdsOK, Busy
<1>5. ASSUME NEW v \in User
      PROVE  PageOK(v)'
  <2>1. SendingOK(v) /\ FrozenOK(v) /\ EditableOK(v) /\ UncommittedOK(v)
    BY DEF Identities, PageOK
  <2>2. SendingOK(v)'
    BY <1>1, <1>2, <2>1 DEF SendingOK, Busy
  <2>3. CASE dialog'[v] = None
    BY <2>2, <2>3 DEF PageOK, FrozenOK, EditableOK, UncommittedOK
  <2>4. CASE dialog'[v] # None
    <3>1. dialog'[v] = dialog[v] /\ sending'[v] = sending[v]
      BY <1>2, <2>4
    <3>2. FrozenOK(v)' /\ EditableOK(v)' /\ UncommittedOK(v)'
      BY <1>1, <2>1, <3>1 DEF FrozenOK, EditableOK, UncommittedOK, Busy
    <3> QED BY <2>2, <3>2 DEF PageOK
  <2> QED BY <2>3, <2>4
<1> QED BY <1>3, <1>4, <1>5 DEF Identities

\* A dialog opens under an id that nothing bears.
LEMMA OpenedKeepsIdentities ==
  ASSUME TypeOK, Identities, NEW u \in User, NEW command, NEW c, OpenDialog(u, command, c)
  PROVE  Identities'
<1>0. PageTyped
  BY TypesAre
<1>1. PICK id \in CommandId \ ids :
        /\ dialog' = [dialog EXCEPT ![u] =
             [command |-> command, id |-> id, commitment |-> c,
              expected |-> IF c = None THEN 0 ELSE seen[u].rows[c].version,
              replay |-> None, doubled |-> FALSE]]
        /\ ids' = ids \cup {id}
  BY DEF OpenDialog, Set
<1>2. /\ dialog'[u].id = id /\ dialog'[u].replay = None
      /\ \A v \in User : v # u => dialog'[v] = dialog[v]
      /\ UNCHANGED <<taken, asked, told, at, body, sending>>
  BY <1>0, <1>1 DEF OpenDialog, PageTyped, store, server
<1>3. OneBody'
  BY <1>2 DEF Identities, OneBody, Busy
<1>4. \A v \in User : sending[v] # None => sending[v].id \in ids
  <2>1. ASSUME NEW v \in User, sending[v] # None
        PROVE  sending[v].id \in ids
    <3>1. sending[v].to \in Proc
      BY <1>0, <2>1 DEF PageTyped, Sending
    <3>2. SendingOK(v)
      BY DEF Identities, PageOK
    <3> QED BY <2>1, <3>1, <3>2 DEF SendingOK, Identities, IdsOK
  <2> QED BY <2>1
<1>5. IdsOK'
  <2>1. \A v \in User : dialog'[v] # None => dialog'[v].id \in ids'
    BY <1>1, <1>2 DEF Identities, IdsOK
  <2>2. ASSUME NEW v \in User, NEW w \in User, v # w, dialog'[v] # None
        PROVE  /\ dialog'[w] # None => dialog'[w].id # dialog'[v].id
               /\ sending'[w] # None => sending'[w].id # dialog'[v].id
    <3>1. dialog[v] # None => dialog[v].id \in ids
      BY DEF Identities, IdsOK
    <3>2. dialog[w] # None => dialog[w].id \in ids
      BY DEF Identities, IdsOK
    <3>3. CASE v = u
      BY <1>1, <1>2, <1>4, <2>2, <3>2, <3>3
    <3>4. CASE v # u
      <4>1. dialog'[v] = dialog[v]
        BY <1>2, <3>4
      <4>2. w # u => dialog'[w] = dialog[w]
        BY <1>2
      <4>3. /\ dialog[w] # None => dialog[w].id # dialog[v].id
            /\ sending[w] # None => sending[w].id # dialog[v].id
        BY <2>2, <4>1 DEF Identities, IdsOK
      <4> QED BY <1>1, <1>2, <2>2, <3>1, <4>1, <4>2, <4>3
    <3> QED BY <3>3, <3>4
  <2>3. /\ \A q \in Proc : Busy(q)' => body'[q].id \in ids'
        /\ \A q \in Proc : told'[q] # "gone" => asked'[q].id \in ids'
        /\ \A r \in taken' : r.id \in ids'
    BY <1>1, <1>2 DEF Identities, IdsOK, Busy
  <2> QED BY <2>1, <2>2, <2>3 DEF IdsOK
<1>6. ASSUME NEW v \in User
      PROVE  PageOK(v)'
  <2>1. SendingOK(v) /\ FrozenOK(v) /\ EditableOK(v) /\ UncommittedOK(v)
    BY DEF Identities, PageOK
  <2>2. SendingOK(v)'
    BY <1>2, <2>1 DEF SendingOK, Busy
  <2>3. CASE v = u
    <3>1. /\ \A q \in Proc : Busy(q) => body[q].id # id
          /\ \A q \in Proc : told[q] # "gone" => asked[q].id # id
          /\ \A r \in taken : r.id # id
      BY <1>1 DEF Identities, IdsOK
    <3>2. FrozenOK(v)' /\ EditableOK(v)' /\ UncommittedOK(v)'
      BY <1>2, <2>3, <3>1 DEF FrozenOK, EditableOK, UncommittedOK, Busy
    <3> QED BY <2>2, <3>2 DEF PageOK
  <2>4. CASE v # u
    <3>1. FrozenOK(v)' /\ EditableOK(v)' /\ UncommittedOK(v)'
      BY <1>2, <2>1, <2>4 DEF FrozenOK, EditableOK, UncommittedOK, Busy
    <3> QED BY <2>2, <3>1 DEF PageOK
  <2> QED BY <2>3, <2>4
<1> QED BY <1>3, <1>5, <1>6 DEF Identities

\* What is submitted travels under the id of its dialog alone, or repeats what does.
LEMMA SubmitKeepsIdentities ==
  ASSUME TypeOK, Identities, NEW u \in User, NEW p \in Proc, NEW form \in Form, Submit(u, p, form)
  PROVE  Identities'
<1>0. ServerTyped /\ PageTyped
  BY TypesAre
<1> DEFINE b == BodyToSend(u, form)
           d == dialog[u]
<1>1. /\ d # None /\ sending[u] = None /\ at[p] = "free" /\ told[p] = "gone"
      /\ sending' = [sending EXCEPT ![u] = [to |-> p, id |-> d.id, body |-> b]]
      /\ at' = [at EXCEPT ![p] = "sent"] /\ body' = [body EXCEPT ![p] = b]
      /\ UNCHANGED <<taken, asked, told, dialog, ids>>
  BY DEF Submit, Set, store
<1>2. /\ d.replay # None => b = d.replay
      /\ d.replay = None => b.id = d.id
  BY BodyShape DEF Submit
<1> HIDE DEF b
<1>3. SendingOK(u) /\ FrozenOK(u) /\ EditableOK(u) /\ UncommittedOK(u)
  BY DEF Identities, PageOK
<1>4. b.id = d.id
  BY <1>1, <1>2, <1>3 DEF FrozenOK
<1>5. /\ Busy(p)' /\ ~Busy(p) /\ body'[p] = b
      /\ \A q \in Proc : q # p => (Busy(q)' <=> Busy(q)) /\ body'[q] = body[q]
      /\ \A q \in Proc : Busy(q)' => Busy(q) \/ q = p
      /\ \A q \in Proc : Busy(q) => Busy(q)' /\ body'[q] = body[q]
      /\ sending'[u].to = p /\ sending'[u].id = d.id /\ sending'[u].body = b /\ sending'[u] # None
      /\ \A v \in User : v # u => sending'[v] = sending[v]
  <2>1. [to |-> p, id |-> d.id, body |-> b] # None
    <3>1. b \in RequestShape /\ d.id \in CommandId
      BY <1>0, <1>1, BodyShape DEF Submit, b, PageTyped, Dialog
    <3> QED BY <3>1, NoRequestAssumption DEF Sending
  <2> QED BY <1>0, <1>1, <2>1 DEF ServerTyped, PageTyped, Busy
<1>6. \A q \in Proc : Busy(q) /\ body[q].id = d.id => body[q] = b
  BY <1>1, <1>2, <1>3 DEF FrozenOK, EditableOK
<1>7. OneBody'
  BY <1>4, <1>5, <1>6 DEF Identities, OneBody
<1>8. d.id \in ids
  BY <1>1 DEF Identities, IdsOK
<1>9. IdsOK'
  <2>1. \A q \in Proc : Busy(q)' => body'[q].id \in ids
    BY <1>4, <1>5, <1>8 DEF Identities, IdsOK
  <2>2. ASSUME NEW v \in User, NEW w \in User, v # w, dialog[v] # None, sending'[w] # None
        PROVE  sending'[w].id # dialog[v].id
    <3>1. CASE w = u
      BY <1>1, <1>5, <2>2, <3>1 DEF Identities, IdsOK
    <3>2. CASE w # u
      BY <1>5, <2>2, <3>2 DEF Identities, IdsOK
    <3> QED BY <3>1, <3>2
  <2> QED BY <1>1, <2>1, <2>2 DEF Identities, IdsOK
<1>10. \A v \in User : sending[v] # None => sending[v].to \in Proc /\ sending[v].to # p
  <2>1. ASSUME NEW v \in User, sending[v] # None
        PROVE  sending[v].to \in Proc /\ sending[v].to # p
    <3>1. Busy(sending[v].to)
      BY <2>1 DEF Identities, PageOK, SendingOK
    <3> QED BY <1>0, <1>5, <2>1, <3>1 DEF PageTyped, Sending
  <2> QED BY <2>1
<1>11. PageOK(u)'
  <2>1. SendingOK(u)'
    BY <1>4, <1>5, <1>10 DEF SendingOK, Busy
  <2>2. FrozenOK(u)'
    BY <1>1, <1>2, <1>3, <1>5, <1>6 DEF FrozenOK
  <2>3. EditableOK(u)'
    BY <1>1, <1>3, <1>5 DEF EditableOK
  <2>4. UncommittedOK(u)'
    BY <1>1, <1>3, <1>5 DEF UncommittedOK
  <2> QED BY <2>1, <2>2, <2>3, <2>4 DEF PageOK
<1>12. ASSUME NEW v \in User, v # u
       PROVE  PageOK(v)'
  <2>1. SendingOK(v) /\ FrozenOK(v) /\ EditableOK(v) /\ UncommittedOK(v)
    BY DEF Identities, PageOK
  <2>2. sending'[v] = sending[v] /\ dialog'[v] = dialog[v]
    BY <1>1, <1>5, <1>12
  <2>3. dialog[v] # None => b.id # dialog[v].id
    BY <1>1, <1>4, <1>12 DEF Identities, IdsOK
  <2>4. SendingOK(v)'
    <3>1. sending[v] # None => /\ at'[sending[v].to] # "free"
                               /\ body'[sending[v].to] = body[sending[v].to]
      BY <1>5, <1>10, <2>1 DEF SendingOK, Busy
    <3>2. sending[v] # None => \A w \in User : w # v /\ sending'[w] # None => sending'[w].to # sending[v].to
      BY <1>5, <1>10, <2>1 DEF SendingOK
    <3> QED BY <2>1, <2>2, <3>1, <3>2 DEF SendingOK, Busy
  <2>5. FrozenOK(v)' /\ EditableOK(v)'
    BY <1>5, <2>1, <2>2, <2>3 DEF FrozenOK, EditableOK
  <2>6. UncommittedOK(v)'
    BY <1>1, <1>5, <2>1, <2>2 DEF UncommittedOK
  <2> QED BY <2>4, <2>5, <2>6 DEF PageOK
<1> QED BY <1>7, <1>9, <1>11, <1>12 DEF Identities

\* Every step keeps the ids.
LEMMA IdentitiesKept ==
  ASSUME TypeOK, \A p \in Proc : ServerOK(p), Identities, [Next]_vars
  PROVE  Identities'
<1>1. ASSUME NEW u \in User, PageStep(u)
      PROVE  Identities'
  <2>1. CASE Load(u)
    BY <2>1, SameIdentities DEF Load, store, server
  <2> QED BY <1>1, <2>1, OpenedKeepsIdentities, ClosedKeepsIdentities, SubmitKeepsIdentities,
             HeardKeepsIdentities DEF PageStep
<1>2. ASSUME NEW p \in Proc, ServerStep(p)
      PROVE  Identities'
  BY <1>2, StoreKeepsIdentities, UnheardKeepsIdentities
<1>3. CASE UNCHANGED <<store, server, page>>
  BY <1>3, SameIdentities DEF store, server, page
<1> QED BY <1>1, <1>2, <1>3 DEF Next, Publish, vars

-----------------------------------------------------------------------------
(* The theorems about identity. *)

\* Initially nothing is under way and no id is drawn.
LEMMA InitHolds == Init => IInv
<1> SUFFICES ASSUME Init PROVE IInv
  OBVIOUS
<1>1. TypeOK
  BY InitType
<1>2. /\ at = [p \in Proc |-> "free"] /\ told = [p \in Proc |-> "gone"] /\ taken = {}
      /\ dialog = [u \in User |-> None] /\ sending = [u \in User |-> None]
  BY DEF Init, Store!Init
<1>3. \A p \in Proc : ServerOK(p)
  BY <1>2 DEF ServerOK, Busy
<1>4. IdsOK /\ OneBody
  BY <1>2 DEF IdsOK, OneBody, Busy
<1>5. \A u \in User : PageOK(u)
  BY <1>2 DEF PageOK, SendingOK, FrozenOK, EditableOK, UncommittedOK
<1> QED BY <1>1, <1>3, <1>4, <1>5 DEF IInv

\* Every step keeps all of it.
LEMMA StepHolds ==
  ASSUME IInv, [Next]_vars
  PROVE  IInv'
<1>1. TypeOK'
  BY TypeStep DEF IInv
<1>2. \A q \in Proc : ServerOK(q)'
  BY ServerKept DEF IInv
<1>3. Identities'
  BY IdentitiesKept DEF IInv, Identities
<1> QED BY <1>1, <1>2, <1>3 DEF IInv, Identities

\* A command id belongs to one dialog, and what still travels under it is what
\* that dialog would repeat: the inductive invariant of this half.
THEOREM Invariance == Spec => []IInv
BY InitHolds, StepHolds, PTL DEF Spec

\* Pages, invocations and the store keep their types.
THEOREM Types == Spec => []TypeOK
<1>1. IInv => TypeOK
  BY DEF IInv
<1> QED BY <1>1, Invariance, PTL

\* A user who changes the fields of a dialog starts nothing that could collide
\* with what was sent before under the same command id.
THEOREM Editable == Spec => []EditableIsUncommitted
<1>1. IInv => EditableIsUncommitted
  <2> SUFFICES ASSUME IInv, NEW u \in User, dialog[u] # None,
                      sending[u] = None \/ sending[u].id # dialog[u].id,
                      dialog[u].replay = None, ~dialog[u].doubled
               PROVE  /\ \A r \in taken : r.id # dialog[u].id
                      /\ \A p \in Proc : at[p] # "free" \/ told[p] # "gone" =>
                           IF at[p] = "free" THEN asked[p].id # dialog[u].id
                           ELSE body[p].id # dialog[u].id \/ ~Pending(p)
    BY DEF EditableIsUncommitted
  <2>1. SendingOK(u) /\ EditableOK(u) /\ UncommittedOK(u)
    BY DEF IInv, PageOK
  <2>2. \A r \in taken : r.id # dialog[u].id
    BY <2>1 DEF SendingOK, UncommittedOK
  <2>3. ASSUME NEW p \in Proc, at[p] # "free"
        PROVE  body[p].id # dialog[u].id
    BY <2>1, <2>3 DEF EditableOK, SendingOK, Busy
  <2>4. ASSUME NEW p \in Proc, at[p] = "free", told[p] # "gone"
        PROVE  asked[p].id # dialog[u].id
    BY <2>1, <2>4 DEF UncommittedOK, Busy
  <2> QED BY <2>2, <2>3, <2>4
<1> QED BY <1>1, Invariance, PTL

\* Two invocations that may both still reach the store under one command id
\* carry one request.
THEOREM OneRequest == Spec => []OneRequestPerCommand
<1>1. IInv => OneRequestPerCommand
  BY DEF IInv, OneBody, Busy, OneRequestPerCommand
<1> QED BY <1>1, Invariance, PTL

-----------------------------------------------------------------------------
(* The theorems about history. *)

\* a commitment that has an owner keeps it
OwnersStay ==
  \A c \in CommitmentId : row[c].version # 0 /\ row[c].owner # None => row'[c].owner = row[c].owner

\* Only the store's transactions change what is recorded.
LEMMA RowsStay ==
  ASSUME TypeOK, (\E u \in User : PageStep(u)) \/ (\E p \in Proc : ServerStep(p) /\ ~StoreTakes(p))
  PROVE  UNCHANGED <<row, taken>>
<1>1. ASSUME NEW u \in User, PageStep(u)
      PROVE  UNCHANGED <<row, taken>>
  <2>1. CASE Deliver(u)
    <3>1. sending[u].to \in Proc /\ Free(sending[u].to)
      BY <2>1, TypesAre DEF Deliver, PageTyped, Sending
    <3> QED BY <3>1, FreeIs
  <2> QED BY <1>1, <2>1 DEF PageStep, Load, OpenDialog, CloseDialog, Submit, Lose, Reload, store
<1>2. ASSUME NEW p \in Proc, ServerStep(p), ~StoreTakes(p)
      PROVE  UNCHANGED <<row, taken>>
  <2>1. CASE Unheard(p)
    BY <2>1, FreeIs DEF Unheard
  <2> QED BY <1>2, <2>1 DEF ServerStep, Arrive, CallStore, StoreTells, StoreForgets, Conclude, ListAgain,
                            Die, Store!Ask, Store!Tell, Store!Leave, store
<1> QED BY <1>1, <1>2

\* What the store takes it keeps, and nobody loses a commitment by it.
LEMMA TakeKeepsRows ==
  ASSUME TypeOK, RowsOK, NEW p \in Proc, Store!Take(p)
  PROVE  Grows /\ OwnersStay /\ RowsOK'
<1> DEFINE r == asked[p]
<1>1. /\ row \in [CommitmentId -> Row] /\ r \in RequestShape /\ taken \subseteq RequestShape
  BY DEF TypeOK
<1>2. /\ asked' = asked /\ taken' = taken \cup {r}
  BY TakeIs
<1>3. PICK c \in CommitmentId, rw \in Row :
        /\ row' = [row EXCEPT ![c] = rw]
        /\ rw.version # 0
        /\ IF IsCreate(r)
           THEN /\ row[c].version = 0
                /\ rw.owner = None /\ rw.evidence = r.evidence
           ELSE /\ c = r.commitment /\ row[c].version # 0
                /\ rw.version = row[c].version + 1 /\ row[c].version = r.expected
                /\ rw.evidence = row[c].evidence /\ rw.assignee = row[c].assignee
                /\ rw.owner = IF r.command = "claim" THEN r.actor ELSE row[c].owner
                /\ r.command = "claim" => row[c].state = "OPEN"
                /\ rw.state = "OPEN" => row[c].state = "OPEN" /\ r.command # "claim"
  BY TakeIs
<1>4. row'[c] = rw /\ \A d \in CommitmentId : d # c => row'[d] = row[d]
  BY <1>1, <1>3
<1>5. \A d \in CommitmentId : row[d].version \in Nat
  BY <1>1 DEF Row
<1> HIDE DEF r
<1>6. Grows
  <2>1. row[c].version # 0 => /\ rw.version # 0 /\ rw.version >= row[c].version
                              /\ rw.assignee = row[c].assignee /\ rw.evidence = row[c].evidence
    BY <1>3, <1>5
  <2> QED BY <1>4, <1>5, <2>1 DEF Grows
<1>7. OwnersStay
  <2>1. row[c].version # 0 /\ row[c].owner # None => rw.owner = row[c].owner
    BY <1>3 DEF RowsOK
  <2> QED BY <1>4, <2>1 DEF OwnersStay
<1>8. \A d \in CommitmentId : /\ row'[d].version = 0 => row'[d].state = "ABSENT"
                              /\ row'[d].state = "OPEN" => row'[d].owner = None
  <2>1. rw.state = "OPEN" => rw.owner = None
    BY <1>3 DEF RowsOK
  <2> QED BY <1>3, <1>4, <2>1 DEF RowsOK
<1>9. ASSUME NEW t \in taken
      PROVE  /\ ShownIn(t, row')
             /\ t.command = "claim" => row'[t.commitment].owner = t.actor
  <2>1. ShownIn(t, row)
    BY DEF RowsOK
  <2>2. t.expected \in Nat /\ t.actor \in User
    BY <1>1 DEF RequestShape
  <2>3. CASE IsCreate(t)
    BY <1>6, <2>1, <2>3 DEF ShownIn, Grows, IsCreate
  <2>4. CASE ~IsCreate(t)
    <3>1. /\ t.commitment \in CommitmentId /\ row[t.commitment].version > t.expected
      BY <2>1, <2>4 DEF ShownIn
    <3>2. row[t.commitment].version # 0
      BY <1>5, <2>2, <3>1
    <3>3. row'[t.commitment].version >= row[t.commitment].version /\ row'[t.commitment].version \in Nat
      BY <1>3, <1>4, <1>5, <1>6, <3>1, <3>2 DEF Grows, Row
    <3>4. ShownIn(t, row')
      BY <1>5, <2>2, <2>4, <3>1, <3>3 DEF ShownIn
    <3>5. t.command = "claim" => row[t.commitment].owner = t.actor /\ t.actor # None
      BY <2>2, NullAssumption DEF RowsOK
    <3> QED BY <1>7, <3>1, <3>2, <3>4, <3>5 DEF OwnersStay
  <2> QED BY <2>3, <2>4
<1>10. /\ ShownIn(r, row')
       /\ r.command = "claim" => row'[r.commitment].owner = r.actor
  <2>1. CASE IsCreate(r)
    BY <1>3, <1>4, <2>1 DEF ShownIn, IsCreate
  <2>2. CASE ~IsCreate(r)
    BY <1>3, <1>4, <1>5, <2>2 DEF ShownIn
  <2> QED BY <2>1, <2>2
<1> QED BY <1>2, <1>6, <1>7, <1>8, <1>9, <1>10 DEF RowsOK

\* Entitled and Justified, of the rows of the next state
StillEntitled(command, c, user) ==
  /\ c \in CommitmentId
  /\ row'[c].version # 0
  /\ command = "claim" => row'[c].assignee = RoleOf[user]
  /\ command \in {"block", "resume", "complete"} => row'[c].owner = user
  /\ command \in {"reschedule", "cancel"} => RoleOf[user] = "INTENDENTE"

StillJustified(r) ==
  ~IsCreate(r) => StillEntitled(r.command, r.commitment, r.actor) /\ r.role = RoleOf[r.actor]

\* What was read, and what entitled a caller, stays so when the rows move.
LEMMA TakeKeepsHistory ==
  ASSUME TypeOK, \A q \in Proc : ServerOK(q), HInv, NEW p \in Proc, StoreTakes(p)
  PROVE  HInv'
<1>1. Grows /\ OwnersStay /\ RowsOK'
  BY TakeKeepsRows DEF StoreTakes, HInv
<1>2. UNCHANGED <<at, body, answer, contract, seen, dialog>>
  BY DEF StoreTakes, server, page
<1>3. ASSUME NEW rows, Earlier(rows), NEW c \in CommitmentId
      PROVE  IF rows[c].version = 0 THEN rows[c].state = "ABSENT"
             ELSE /\ row'[c].version # 0
                  /\ row'[c].assignee = rows[c].assignee
                  /\ rows[c].owner # None => row'[c].owner = rows[c].owner
  BY <1>1, <1>3 DEF Earlier, Grows, OwnersStay
<1>4. ReadOK'
  BY <1>2, <1>3 DEF HInv, ReadOK, Earlier, ShownIn, IsCreate
<1>5. ASSUME NEW command, NEW c, NEW user \in User, Entitled(command, c, user)
      PROVE  StillEntitled(command, c, user)
  BY <1>1, <1>5, NullAssumption DEF Entitled, StillEntitled, Grows, OwnersStay
<1>6. ASSUME NEW r \in RequestShape, Justified(r)
      PROVE  StillJustified(r)
  BY <1>5, <1>6 DEF Justified, StillJustified, RequestShape
<1>7. GateOK'
  <2>1. ASSUME NEW u \in User, dialog[u] # None
        PROVE  /\ dialog[u].command # "create" => StillEntitled(dialog[u].command, dialog[u].commitment, u)
               /\ dialog[u].replay # None => StillJustified(dialog[u].replay)
    <3>1. dialog[u] \in Dialog
      BY <2>1, TypesAre DEF PageTyped
    <3>2. dialog[u].command # "create" => Entitled(dialog[u].command, dialog[u].commitment, u)
      BY <2>1 DEF HInv, GateOK
    <3>3. dialog[u].replay # None => Justified(dialog[u].replay) /\ dialog[u].replay \in RequestShape
      BY <2>1, <3>1 DEF HInv, GateOK, Dialog
    <3> QED BY <1>5, <1>6, <3>2, <3>3
  <2>2. ASSUME NEW q \in Proc, Busy(q)
        PROVE  StillJustified(body[q])
    BY <1>6, <2>2 DEF HInv, GateOK, ServerOK
  <2>3. ASSUME NEW q \in Proc, at[q] = "answered", answer[q] = "denied"
        PROVE  body[q].command = "claim" /\ row'[body[q].commitment].owner \notin {None, body[q].actor}
    <3>1. /\ Justified(body[q]) /\ body[q].command = "claim"
          /\ row[body[q].commitment].owner \notin {None, body[q].actor}
      BY <2>3 DEF HInv, GateOK, Busy
    <3>2. body[q].commitment \in CommitmentId /\ row[body[q].commitment].version # 0
      BY <3>1 DEF Justified, Entitled, IsCreate
    <3> QED BY <1>1, <3>1, <3>2 DEF OwnersStay
  <2>4. \A u \in User : dialog'[u] # None =>
          /\ dialog'[u].command # "create" => Entitled(dialog[u].command, dialog[u].commitment, u)'
          /\ dialog'[u].replay # None => Justified(dialog[u].replay)'
    BY <1>2, <2>1 DEF StillEntitled, StillJustified, Entitled, Justified
  <2>5. \A q \in Proc : Busy(q)' => Justified(body[q])'
    BY <1>2, <2>2 DEF StillEntitled, StillJustified, Entitled, Justified, Busy
  <2>6. \A q \in Proc : at'[q] = "answered" /\ answer'[q] = "denied" =>
          /\ body'[q].command = "claim"
          /\ row'[body'[q].commitment].owner \notin {None, body'[q].actor}
    BY <1>2, <2>3
  <2> QED BY <2>4, <2>5, <2>6 DEF GateOK
<1> QED BY <1>1, <1>4, <1>7 DEF HInv

\* While the rows stay, only what is new has to be looked at.
LEMMA QuietHistory ==
  ASSUME HInv, UNCHANGED <<row, taken>>,
         \A u \in User : seen'[u] # None => seen'[u] = seen[u] \/ Earlier(seen'[u].rows),
         \A u \in User : dialog'[u] # None =>
           \/ dialog'[u] = dialog[u]
           \/ /\ dialog'[u].command # "create" => Entitled(dialog'[u].command, dialog'[u].commitment, u)
              /\ dialog'[u].replay # None => Justified(dialog'[u].replay),
         \A q \in Proc : at'[q] # "free" => (at[q] # "free" /\ body'[q] = body[q]) \/ Justified(body'[q]),
         \A q \in Proc : at'[q] = "answered" =>
           \/ /\ at[q] = "answered" /\ answer'[q] = answer[q] /\ body'[q] = body[q]
              /\ contract'[q] = contract[q]
           \/ /\ answer'[q] = "ok" => Earlier(contract'[q].rows) /\ ShownIn(body'[q], contract'[q].rows)
              /\ answer'[q] = "denied" => /\ body'[q].command = "claim"
                                          /\ row[body'[q].commitment].owner \notin {None, body'[q].actor}
  PROVE  HInv'
<1>1. RowsOK'
  BY DEF HInv, RowsOK, ShownIn, IsCreate
<1>2. ReadOK'
  <2>1. \A u \in User : seen'[u] # None => Earlier(seen'[u].rows)
    BY DEF HInv, ReadOK
  <2>2. \A q \in Proc : at'[q] = "answered" /\ answer'[q] = "ok" =>
          Earlier(contract'[q].rows) /\ ShownIn(body'[q], contract'[q].rows)
    BY DEF HInv, ReadOK
  <2> QED BY <2>1, <2>2 DEF ReadOK, Earlier, ShownIn, IsCreate
<1>3. GateOK'
  <2>1. \A u \in User : dialog'[u] # None =>
          /\ dialog'[u].command # "create" => Entitled(dialog'[u].command, dialog'[u].commitment, u)
          /\ dialog'[u].replay # None => Justified(dialog'[u].replay)
    BY DEF HInv, GateOK
  <2>2. \A q \in Proc : at'[q] # "free" => Justified(body'[q])
    BY DEF HInv, GateOK, Busy
  <2>3. \A q \in Proc : at'[q] = "answered" /\ answer'[q] = "denied" =>
          /\ body'[q].command = "claim"
          /\ row'[body'[q].commitment].owner \notin {None, body'[q].actor}
    BY DEF HInv, GateOK
  <2> QED BY <2>1, <2>2, <2>3 DEF GateOK, Entitled, Justified, IsCreate, Busy
<1> QED BY <1>1, <1>2, <1>3 DEF HInv

\* A step of a page keeps the history: it offers what it may do by what it shows.
LEMMA PageKeepsHistory ==
  ASSUME TypeOK, Identities, HInv, NEW u \in User, PageStep(u)
  PROVE  HInv'
<1> USE DEF Set
<1>0. StoreTyped /\ ServerTyped /\ PageTyped
  BY TypesAre
<1>1. UNCHANGED <<row, taken>>
  BY RowsStay
<1>2. \A q \in Proc : \/ /\ at'[q] = at[q] /\ body'[q] = body[q] /\ answer'[q] = answer[q]
                         /\ contract'[q] = contract[q]
                      \/ at'[q] = "free"
                      \/ \E form \in Form : Submit(u, q, form)
  <2>1. ASSUME NEW q \in Proc, Deliver(u), q = sending[u].to
        PROVE  at'[q] = "free"
    BY <1>0, <2>1, FreeIs DEF Deliver, ServerTyped
  <2> QED BY <2>1, PageFrame
<1>3. ASSUME NEW q \in Proc, NEW form \in Form, Submit(u, q, form)
      PROVE  at'[q] = "sent" /\ Justified(body'[q])
  <2>1. dialog[u] # None /\ at'[q] = "sent" /\ body'[q] = BodyToSend(u, form)
    BY <1>0, <1>3 DEF Submit, ServerTyped
  <2>2. CASE dialog[u].replay # None
    BY <1>3, <2>1, <2>2, BodyShape DEF Submit, HInv, GateOK
  <2>3. CASE dialog[u].replay = None
    <3>1. /\ BodyToSend(u, form).command = dialog[u].command
          /\ dialog[u].command # "create" =>
               /\ BodyToSend(u, form).commitment = dialog[u].commitment
               /\ BodyToSend(u, form).actor = u
               /\ BodyToSend(u, form).role = RoleOf[u]
      BY <1>3, <2>3, BodyShape DEF Submit
    <3>2. dialog[u].command # "create" => Entitled(dialog[u].command, dialog[u].commitment, u)
      BY <2>1 DEF HInv, GateOK
    <3> QED BY <2>1, <3>1, <3>2 DEF Justified, IsCreate
  <2> QED BY <2>2, <2>3
<1>4. \A v \in User : seen'[v] # None => seen'[v] = seen[v] \/ Earlier(seen'[v].rows)
  <2>1. CASE Load(u)
    <3>1. Earlier(row)
      BY DEF HInv, RowsOK, Earlier
    <3> QED BY <1>0, <2>1, <3>1 DEF Load, PageTyped
  <2>2. CASE Deliver(u)
    <3>1. CASE seen' = seen
      BY <3>1
    <3>2. CASE seen' # seen
      <4>1. PICK p \in Proc : p = sending[u].to
        BY <1>0, <2>2 DEF Deliver, PageTyped, Sending
      <4>2. at[p] = "answered" /\ answer[p] = "ok" /\ Accepted(u, p)
        BY <2>2, <3>2, <4>1 DEF Deliver, Unconfirmed, Rejected
      <4>3. Earlier(contract[p].rows)
        BY <4>2 DEF HInv, ReadOK
      <4> QED BY <1>0, <4>2, <4>3 DEF Accepted, PageTyped
    <3> QED BY <3>1, <3>2
  <2>3. CASE Reload(u)
    BY <1>0, <2>3 DEF Reload, PageTyped
  <2> QED BY <2>1, <2>2, <2>3 DEF PageStep, OpenDialog, CloseDialog, Submit, Lose, Unconfirmed
<1>5. \A v \in User : dialog'[v] # None =>
        \/ dialog'[v] = dialog[v]
        \/ /\ dialog'[v].command # "create" => Entitled(dialog'[v].command, dialog'[v].commitment, v)
           /\ dialog'[v].replay # None => Justified(dialog'[v].replay)
  <2>1. ASSUME NEW command \in Command, NEW c \in CommitmentId \cup {None}, OpenDialog(u, command, c)
        PROVE  /\ \A v \in User : v # u => dialog'[v] = dialog[v]
               /\ dialog'[u].command # "create" => Entitled(dialog'[u].command, dialog'[u].commitment, u)
               /\ dialog'[u].replay = None
    <3>1. /\ seen[u] # None
          /\ IF command = "create" THEN c = None ELSE c \in CommitmentId /\ Available(u, c, command)
          /\ dialog'[u].command = command /\ dialog'[u].commitment = c /\ dialog'[u].replay = None
          /\ \A v \in User : v # u => dialog'[v] = dialog[v]
      BY <1>0, <2>1 DEF OpenDialog, PageTyped
    <3>2. ASSUME command # "create"
          PROVE  Entitled(command, c, u)
      <4> DEFINE rw == seen[u].rows[c]
      <4>1. /\ rw.state \in From(command)
            /\ CASE command = "claim" -> rw.owner = None /\ rw.assignee = RoleOf[u]
                 [] command \in {"block", "resume", "complete"} -> rw.owner = u
                 [] OTHER -> RoleOf[u] = "INTENDENTE"
        BY <3>1, <3>2 DEF Available
      <4>2. rw.state # "ABSENT"
        BY <4>1 DEF From, Live
      <4>3. Earlier(seen[u].rows) /\ c \in CommitmentId
        BY <3>1, <3>2 DEF HInv, ReadOK
      <4>4. /\ row[c].version # 0 /\ row[c].assignee = rw.assignee
            /\ rw.owner # None => row[c].owner = rw.owner
        BY <4>2, <4>3 DEF Earlier
      <4>5. u # None
        BY NullAssumption
      <4> HIDE DEF rw
      <4>6. command = "claim" => row[c].assignee = RoleOf[u]
        BY <4>1, <4>4
      <4>7. command \in {"block", "resume", "complete"} => row[c].owner = u
        BY <4>1, <4>4, <4>5
      <4>8. command \in {"reschedule", "cancel"} => RoleOf[u] = "INTENDENTE"
        BY <4>1
      <4> QED BY <4>3, <4>4, <4>6, <4>7, <4>8 DEF Entitled
    <3> QED BY <3>1, <3>2
  <2>2. ASSUME sending[u] # None, Unconfirmed(u)
        PROVE  /\ \A v \in User : v # u => dialog'[v] = dialog[v]
               /\ dialog'[u] # None /\ dialog'[u] # dialog[u] =>
                    /\ dialog'[u].command # "create" => Entitled(dialog'[u].command, dialog'[u].commitment, u)
                    /\ dialog'[u].replay # None => Justified(dialog'[u].replay)
    <3>1. Justified(sending[u].body)
      <4>1. PICK p \in Proc : p = sending[u].to
        BY <1>0, <2>2 DEF PageTyped, Sending
      <4>2. Busy(p) /\ body[p] = sending[u].body
        BY <2>2, <4>1 DEF Identities, PageOK, SendingOK
      <4> QED BY <4>2 DEF HInv, GateOK
    <3>2. ASSUME dialog'[u] # None, dialog'[u] # dialog[u]
          PROVE  dialog[u] # None /\ dialog'[u] = [dialog[u] EXCEPT !.replay = sending[u].body]
      BY <1>0, <2>2, <3>2 DEF Unconfirmed, PageTyped
    <3>3. ASSUME dialog'[u] # None, dialog'[u] # dialog[u]
          PROVE  /\ dialog'[u].command = dialog[u].command /\ dialog'[u].commitment = dialog[u].commitment
                 /\ dialog'[u].replay = sending[u].body
      BY <1>0, <3>2, <3>3 DEF PageTyped, Dialog
    <3>4. dialog[u] # None /\ dialog[u].command # "create" =>
            Entitled(dialog[u].command, dialog[u].commitment, u)
      BY DEF HInv, GateOK
    <3> QED BY <1>0, <2>2, <3>1, <3>2, <3>3, <3>4 DEF Unconfirmed, PageTyped
  <2>3. ASSUME NEW code, Rejected(u, code)
        PROVE  /\ \A v \in User : v # u => dialog'[v] = dialog[v]
               /\ dialog'[u] # None /\ dialog'[u] # dialog[u] =>
                    /\ dialog'[u].command # "create" => Entitled(dialog'[u].command, dialog'[u].commitment, u)
                    /\ dialog'[u].replay # None => Justified(dialog'[u].replay)
    <3>1. ASSUME dialog'[u] # None, dialog'[u] # dialog[u]
          PROVE  dialog[u] # None /\ dialog'[u] = [dialog[u] EXCEPT !.doubled = TRUE]
      BY <1>0, <2>3, <3>1 DEF Rejected, PageTyped
    <3>2. ASSUME dialog'[u] # None, dialog'[u] # dialog[u]
          PROVE  /\ dialog'[u].command = dialog[u].command /\ dialog'[u].commitment = dialog[u].commitment
                 /\ dialog'[u].replay = dialog[u].replay
      BY <1>0, <3>1, <3>2 DEF PageTyped, Dialog
    <3> QED BY <1>0, <2>3, <3>1, <3>2 DEF Rejected, PageTyped, HInv, GateOK
  <2>4. CASE \E command \in Command, c \in CommitmentId \cup {None} : OpenDialog(u, command, c)
    BY <2>1, <2>4
  <2>5. CASE Deliver(u)
    <3>1. CASE Accepted(u, sending[u].to)
      BY <1>0, <3>1 DEF Accepted, PageTyped
    <3> QED BY <2>2, <2>3, <2>5, <3>1 DEF Deliver
  <2>6. CASE Lose(u)
    BY <2>2, <2>6 DEF Lose
  <2>7. CASE CloseDialog(u) \/ Reload(u)
    BY <1>0, <2>7 DEF CloseDialog, Reload, PageTyped
  <2> QED BY <2>4, <2>5, <2>6, <2>7 DEF PageStep, Load, Submit
<1>6. \A q \in Proc : at'[q] # "free" => (at[q] # "free" /\ body'[q] = body[q]) \/ Justified(body'[q])
  BY <1>2, <1>3
<1>7. \A q \in Proc : at'[q] = "answered" =>
        /\ at[q] = "answered" /\ answer'[q] = answer[q] /\ body'[q] = body[q]
        /\ contract'[q] = contract[q]
  BY <1>2, <1>3
<1> QED BY <1>1, <1>4, <1>5, <1>6, <1>7, QuietHistory

\* The check of the handler denies a justified request to nobody but the one who
\* wants to claim what another has.
LEMMA DeniedClaim ==
  ASSUME NEW r \in RequestShape, Justified(r), ~IsCreate(r),
         row[r.commitment].version = 0 \/ ~TransitionActorAllowed(row[r.commitment], r)
  PROVE  r.command = "claim" /\ row[r.commitment].owner \notin {None, r.actor}
<1>1. /\ row[r.commitment].version # 0
      /\ r.command = "claim" => row[r.commitment].assignee = RoleOf[r.actor]
      /\ r.command \in {"block", "resume", "complete"} => row[r.commitment].owner = r.actor
      /\ r.command \in {"reschedule", "cancel"} => RoleOf[r.actor] = "INTENDENTE"
      /\ r.role = RoleOf[r.actor]
  BY DEF Justified, Entitled
<1>2. r.command \in {"claim", "block", "resume", "complete", "reschedule", "cancel"}
  BY DEF RequestShape, Command, IsCreate
<1> DEFINE rw == row[r.commitment]
<1>3. r.command \in {"block", "resume", "complete"} => TransitionActorAllowed(rw, r)
  BY <1>1 DEF TransitionActorAllowed
<1>4. r.command \in {"reschedule", "cancel"} => TransitionActorAllowed(rw, r)
  BY <1>1 DEF TransitionActorAllowed
<1>5. r.command = "claim" => (TransitionActorAllowed(rw, r) <=> rw.owner \in {None, r.actor})
  BY <1>1 DEF TransitionActorAllowed
<1> HIDE DEF rw
<1> QED BY <1>1, <1>2, <1>3, <1>4, <1>5 DEF rw

\* A step of an invocation keeps the history: what it denies cannot be recorded,
\* and the list it answers with was read after its request was.
LEMMA ServerKeepsHistory ==
  ASSUME TypeOK, \A q \in Proc : ServerOK(q), HInv, NEW p \in Proc, ServerStep(p)
  PROVE  HInv'
<1> USE DEF Set, Reply
<1>0. StoreTyped /\ ServerTyped /\ PageTyped
  BY TypesAre
<1>1. CASE StoreTakes(p)
  BY <1>1, TakeKeepsHistory
<1>2. CASE ~StoreTakes(p)
  <2>1. UNCHANGED <<row, taken>>
    BY <1>2, RowsStay
  <2>2. UNCHANGED page
    BY DEF ServerStep, Arrive, CallStore, StoreTakes, StoreTells, StoreForgets, Conclude, ListAgain, Die, Unheard
  <2>3. \A q \in Proc : q # p => /\ at'[q] = at[q] /\ body'[q] = body[q]
                                 /\ answer'[q] = answer[q] /\ contract'[q] = contract[q]
    BY ServerFrame
  <2>4. /\ at'[p] # "free" => at[p] # "free" /\ body'[p] = body[p]
        /\ at'[p] = "answered" =>
             \/ /\ at[p] = "answered" /\ answer'[p] = answer[p] /\ body'[p] = body[p]
                /\ contract'[p] = contract[p]
             \/ /\ answer'[p] = "ok" => Earlier(contract'[p].rows) /\ ShownIn(body'[p], contract'[p].rows)
                /\ answer'[p] = "denied" => /\ body'[p].command = "claim"
                                            /\ row[body'[p].commitment].owner \notin {None, body'[p].actor}
    <3>1. CASE Arrive(p)
      <4>1. /\ at[p] = "sent" /\ body'[p] = body[p]
            /\ at'[p] = "answered" =>
                 \/ answer'[p] \in {"down", "stale"}
                 \/ /\ answer'[p] = "denied" /\ ~IsCreate(body[p])
                    /\ \/ row[body[p].commitment].version = 0
                       \/ ~TransitionActorAllowed(row[body[p].commitment], body[p])
        BY <1>0, <3>1 DEF Arrive, ServerTyped
      <4>2. body[p] \in RequestShape /\ Justified(body[p])
        BY <4>1 DEF ServerOK, HInv, GateOK, Busy
      <4>3. at'[p] = "answered" /\ answer'[p] = "denied" =>
              body[p].command = "claim" /\ row[body[p].commitment].owner \notin {None, body[p].actor}
        BY <4>1, <4>2, DeniedClaim
      <4> QED BY <4>1, <4>3
    <3>2. CASE CallStore(p)
      BY <1>0, <3>2 DEF CallStore, ServerTyped
    <3>3. CASE StoreTells(p) \/ StoreForgets(p)
      BY <3>3 DEF StoreTells, StoreForgets, server
    <3>4. CASE Conclude(p)
      BY <1>0, <3>4 DEF Conclude, StoreAnswer, ServerTyped
    <3>5. CASE ListAgain(p)
      <4>1. /\ at[p] = "recorded" /\ body'[p] = body[p] /\ at'[p] = "answered"
            /\ \/ answer'[p] = "ok" /\ contract' = [contract EXCEPT ![p].rows = row]
               \/ answer'[p] = "down"
        BY <1>0, <3>5 DEF ListAgain, ServerTyped
      <4>2. ASSUME answer'[p] = "ok"
            PROVE  contract'[p].rows = row
        <5>1. contract[p] \in Contract
          BY <1>0 DEF ServerTyped
        <5>2. contract'[p] = [contract[p] EXCEPT !.rows = row]
          BY <1>0, <4>1, <4>2 DEF ServerTyped
        <5> QED BY <5>1, <5>2 DEF Contract
      <4>3. body[p] \in taken
        BY <4>1 DEF ServerOK, Busy
      <4>4. Earlier(row) /\ ShownIn(body[p], row)
        BY <4>3 DEF HInv, RowsOK, Earlier
      <4> QED BY <4>1, <4>2, <4>4
    <3>6. CASE Die(p)
      BY <1>0, <3>6 DEF Die, ServerTyped
    <3>7. CASE Unheard(p)
      BY <1>0, <3>7, FreeIs DEF Unheard, ServerTyped
    <3> QED BY <1>2, <3>1, <3>2, <3>3, <3>4, <3>5, <3>6, <3>7 DEF ServerStep
  <2> QED BY <2>1, <2>2, <2>3, <2>4, QuietHistory DEF page
<1> QED BY <1>1, <1>2

\* Initially nothing is recorded, read or under way.
LEMMA HistoryInit == Init => HInv
<1> SUFFICES ASSUME Init PROVE HInv
  OBVIOUS
<1>1. /\ row = [c \in CommitmentId |-> NoRow] /\ taken = {}
      /\ at = [p \in Proc |-> "free"] /\ seen = [u \in User |-> None] /\ dialog = [u \in User |-> None]
  BY SameRules DEF Init, Store!Init
<1>2. RowsOK
  BY <1>1 DEF RowsOK, NoRow
<1>3. ReadOK /\ GateOK
  BY <1>1 DEF ReadOK, GateOK, Busy
<1> QED BY <1>2, <1>3 DEF HInv

\* Every step keeps the history.
LEMMA HistoryStep ==
  ASSUME IInv, HInv, [Next]_vars
  PROVE  HInv'
<1>1. TypeOK /\ (\A q \in Proc : ServerOK(q)) /\ Identities
  BY DEF IInv, Identities
<1>2. CASE UNCHANGED <<store, server, page>>
  <2>1. UNCHANGED <<row, taken, at, body, answer, contract, seen, dialog>>
    BY <1>2 DEF store, server, page
  <2>2. \A q \in Proc : at'[q] # "free" => at[q] # "free" /\ body'[q] = body[q]
    BY <2>1
  <2> QED BY <2>1, <2>2, QuietHistory
<1> QED BY <1>1, <1>2, PageKeepsHistory, ServerKeepsHistory DEF Next, Publish, vars

\* What was read stays true of the commitments, what is recorded stays visible,
\* and every request under way was offered to one who was entitled to it.
THEOREM HistoryInvariance == Spec => [](IInv /\ HInv)
<1>1. Init => IInv /\ HInv
  BY InitHolds, HistoryInit
<1>2. IInv /\ HInv /\ [Next]_vars => (IInv /\ HInv)'
  BY StepHolds, HistoryStep
<1> QED BY <1>1, <1>2, PTL DEF Spec

\* A mutation answered with the contract is recorded, and the contract shows it,
\* whatever was recorded meanwhile.
THEOREM ReadsOwnWrites == Spec => []ReadYourWrites
<1>1. IInv /\ HInv => ReadYourWrites
  <2> SUFFICES ASSUME IInv, HInv, NEW p \in Proc, at[p] = "answered", answer[p] = "ok"
               PROVE  /\ body[p] \in taken
                      /\ ShownIn(body[p], contract[p].rows)
    BY DEF ReadYourWrites, ShownIn
  <2>1. body[p] \in taken
    BY DEF IInv, ServerOK, Busy
  <2>2. ShownIn(body[p], contract[p].rows)
    BY DEF HInv, ReadOK
  <2> QED BY <2>1, <2>2
<1> QED BY <1>1, HistoryInvariance, PTL

\* A request the handler denies on its own reading of the list is not recorded:
\* the repetition of one that is reaches the store.
THEOREM DeniedIsNotRecorded == Spec => []GateAdmitsReplays
<1>1. HInv => GateAdmitsReplays
  <2> SUFFICES ASSUME HInv, NEW p \in Proc, at[p] = "answered", answer[p] = "denied"
               PROVE  body[p] \notin taken
    BY DEF GateAdmitsReplays
  <2>1. /\ body[p].command = "claim"
        /\ row[body[p].commitment].owner # body[p].actor
    BY DEF HInv, GateOK
  <2> QED BY <2>1 DEF HInv, RowsOK
<1> QED BY <1>1, HistoryInvariance, PTL
=============================================================================
