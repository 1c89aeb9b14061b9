----------------------------- MODULE LedgerDesk -----------------------------
(***************************************************************************)
(* The way to the action ledger: the page of js/grh-action-ledger.js, one  *)
(* per user, and the handler of api/grh-action-ledger.js, one invocation   *)
(* per request, on top of the store as LedgerService promises it           *)
(* (ActionLedger implements that promise).                                 *)
(*                                                                         *)
(* A page may lose the answer of an invocation that goes on without it; an *)
(* invocation may be stopped anywhere; the published brief may change      *)
(* between any two steps.                                                  *)
(***************************************************************************)
EXTENDS LedgerRules, FiniteSets

CONSTANTS
  Proc,            \* invocations of the handler that may overlap
  MaxCommitments,  \* MAX_COMMITMENTS
  RoleOf,          \* the role in each user's session
  Form             \* what may be entered in the fields of the dialog

ASSUME SessionAssumption == RoleOf \in [User -> Role]

VARIABLES
  row, taken, asked, told,   \* the store, as in LedgerService
  brief,    \* the evidence the published artifacts hold now
  at,       \* where each invocation stands
  body,     \* the request it was sent
  answer,   \* the status and code it answers
  contract, \* the brief it read and the commitments it answers with
  seen,     \* the contract a page shows, None before it is loaded
  dialog,   \* the open dialog of a page, or None
  sending,  \* the mutation a page awaits, or None
  notice,   \* the request whose outcome the open dialog calls unconfirmed, or None
  ids       \* the command ids drawn so far

store == <<row, taken, asked, told>>
server == <<at, body, answer, contract>>
page == <<seen, dialog, sending, notice, ids>>
vars == <<store, brief, server, page>>

Store == INSTANCE LedgerService

\* 4xx answers with a receipt; "down" is any 5xx
Denial == {"refused", "denied", "stale", "exists"}
Answer == {"ok", "down"} \cup Denial

FormShape == [assignee : AssigneeRole, due : Nat, outcome : Outcome]

\* a mutation a page awaits
Sending == [to : Proc, id : CommandId, body : RequestShape]

\* the fields offer what their validation accepts; null is no object
ASSUME FormAssumption == Form \subseteq FormShape
ASSUME NoRequestAssumption == None \notin RequestShape /\ None \notin Sending

NoContract == [rows |-> [c \in CommitmentId |-> NoRow], brief |-> None]

Init ==
  /\ asked = [p \in Proc |-> CHOOSE r \in Request : TRUE]
  /\ Store!Init
  /\ brief \in Evidence
  /\ at = [p \in Proc |-> "free"]
  /\ body = [p \in Proc |-> None]
  /\ answer = [p \in Proc |-> "down"]
  /\ contract = [p \in Proc |-> NoContract]
  /\ seen = [u \in User |-> None]
  /\ dialog = [u \in User |-> None]
  /\ sending = [u \in User |-> None]
  /\ notice = [u \in User |-> None]
  /\ ids = {}

-----------------------------------------------------------------------------
(* The page. *)

Set(f, u, x) == f' = [f EXCEPT ![u] = x]

\* GET: the first load, while nothing can be pending.
Load(u) ==
  /\ seen[u] = None
  /\ Set(seen, u, [rows |-> row, brief |-> brief])
  /\ UNCHANGED <<store, brief, server, dialog, sending, notice, ids>>

\* suggestions[].available: the current brief has no commitment yet
Suggested(u) ==
  /\ RoleOf[u] = "INTENDENTE"
  /\ Cardinality({c \in CommitmentId : seen[u].rows[c].version # 0}) < MaxCommitments
  /\ \A c \in CommitmentId :
       seen[u].rows[c].version # 0 => seen[u].rows[c].evidence # seen[u].brief

\* availableTransitions of a commitment, for the caller
Available(u, c, command) ==
  LET rw == seen[u].rows[c] IN
  /\ rw.state \in From(command)
  /\ CASE command = "claim" -> rw.owner = None /\ rw.assignee = RoleOf[u]
       [] command \in {"block", "resume", "complete"} -> rw.owner = u
       [] OTHER -> RoleOf[u] = "INTENDENTE"

\* openCreateDialog and openTransitionDialog draw the command id the dialog
\* keeps until it closes.  "doubled": history, it was told ALREADY_EXISTS.
OpenDialog(u, command, c) ==
  /\ seen[u] # None /\ dialog[u] = None
  /\ IF command = "create" THEN c = None /\ Suggested(u)
     ELSE c \in CommitmentId /\ Available(u, c, command)
  /\ \E id \in CommandId \ ids :
       /\ Set(dialog, u, [command |-> command, id |-> id, commitment |-> c,
                          expected |-> IF c = None THEN 0 ELSE seen[u].rows[c].version,
                          replay |-> None, doubled |-> FALSE])
       /\ ids' = ids \cup {id}
  /\ Set(notice, u, None)
  /\ UNCHANGED <<store, brief, server, seen, sending>>

\* closeDialog, by the user; a mutation under way goes on.
CloseDialog(u) ==
  /\ dialog[u] # None
  /\ Set(dialog, u, None) /\ Set(notice, u, None)
  /\ UNCHANGED <<store, brief, server, seen, sending, ids>>

\* buildPostBody and buildPatchBody, from the fields as they are now
NewBody(u, form) ==
  LET d == dialog[u] IN
  IF d.command = "create"
  THEN CreateRequest(d.id, u, RoleOf[u], seen[u].brief, form.assignee, form.due)
  ELSE TransitionRequest(d.command, d.id, u, RoleOf[u], d.commitment, d.expected,
                         IF d.command = "reschedule" THEN form.due ELSE 0,
                         IF d.command = "complete" THEN form.outcome ELSE None)

\* Mutant of BodyToSend: a retry is built from the fields again.
BodyRebuilt(u, form) == NewBody(u, form)

\* a frozen request is repeated as it is
BodyToSend(u, form) ==
  IF dialog[u].replay # None THEN dialog[u].replay ELSE NewBody(u, form)

\* submitMutation up to the fetch
Submit(u, p, form) ==
  /\ dialog[u] # None /\ seen[u] # None /\ sending[u] = None
  /\ at[p] = "free" /\ told[p] = "gone"
  /\ Set(sending, u, [to |-> p, id |-> dialog[u].id, body |-> BodyToSend(u, form)])
  /\ Set(at, p, "sent") /\ Set(body, p, BodyToSend(u, form))
  /\ UNCHANGED <<store, brief, answer, contract, seen, dialog, notice, ids>>

\* The part of submitMutation's catch that freezes the request when its outcome
\* is ambiguous, for the dialog that sent it; the message goes to whatever
\* dialog is open by then.
Unconfirmed(u) ==
  LET d == dialog[u] IN
  /\ Set(dialog, u, IF d # None /\ d.id = sending[u].id
                    THEN [d EXCEPT !.replay = sending[u].body] ELSE d)
  /\ Set(notice, u, IF d = None THEN None ELSE sending[u].body)
  /\ UNCHANGED seen

\* A verified 4xx leaves the dialog as it is, with another message.
Rejected(u, code) ==
  LET d == dialog[u] IN
  /\ Set(dialog, u, IF d # None /\ d.id = sending[u].id /\ code = "exists"
                    THEN [d EXCEPT !.doubled = TRUE] ELSE d)
  /\ Set(notice, u, None)
  /\ UNCHANGED seen

\* Whatever dialog is open is closed, and the answered contract shown.
Accepted(u, p) ==
  /\ Set(dialog, u, None) /\ Set(notice, u, None)
  /\ Set(seen, u, contract[p])

\* Mutant of Ambiguous: only a missing answer leaves the outcome open.
AmbiguousIfLost(status) == FALSE

\* requestContract: a mutation's outcome is settled by a contract or by a 4xx
\* with a receipt only
Ambiguous(status) == status \notin {"ok"} \cup Denial

\* The slot of an invocation is free again; a session it left in the database
\* may still take effect.
Free(p) ==
  /\ Set(at, p, "free") /\ Set(body, p, None)
  /\ Set(answer, p, "down") /\ Set(contract, p, NoContract)
  /\ (told[p] = "gone" /\ UNCHANGED store) \/ Store!Leave(p)

\* The answer arrives.
Deliver(u) ==
  /\ sending[u] # None
  /\ LET p == sending[u].to IN
       /\ at[p] = "answered"
       /\ \/ answer[p] = "ok" /\ Accepted(u, p)
          \/ answer[p] # "ok" /\ Ambiguous(answer[p]) /\ Unconfirmed(u)
          \/ answer[p] # "ok" /\ ~Ambiguous(answer[p]) /\ Rejected(u, answer[p])
       /\ Free(p)
  /\ Set(sending, u, None)
  /\ UNCHANGED <<brief, ids>>

\* No answer arrives, or one the page cannot read.
Lose(u) ==
  /\ sending[u] # None
  /\ Unconfirmed(u)
  /\ Set(sending, u, None)
  /\ UNCHANGED <<store, brief, server, ids>>

\* The page is left or reloaded: also what an expired session does.
Reload(u) ==
  /\ Set(seen, u, None) /\ Set(dialog, u, None) /\ Set(sending, u, None) /\ Set(notice, u, None)
  /\ UNCHANGED <<store, brief, server, ids>>

-----------------------------------------------------------------------------
(* The handler. *)

Heard(p) == \E u \in User : sending[u] # None /\ sending[u].to = p

Reply(p, a) == Set(at, p, "answered") /\ Set(answer, p, a)

\* Mutant of TransitionActorAllowed: a claim needs an unowned commitment.
ClaimOfUnowned(rw, r) ==
  CASE r.command = "claim" -> r.role = rw.assignee /\ rw.owner = None
    [] r.command \in {"block", "resume", "complete"} -> rw.owner = r.actor
    [] OTHER -> r.role = "INTENDENTE"

\* transitionActorAllowed: unlike the store's rules it admits the repetition of
\* a command that is already recorded
TransitionActorAllowed(rw, r) ==
  CASE r.command = "claim" -> r.role = rw.assignee /\ rw.owner \in {None, r.actor}
    [] r.command \in {"block", "resume", "complete"} -> rw.owner = r.actor
    [] OTHER -> r.role = "INTENDENTE"

\* The brief is read; a POST is compared with it, a PATCH with the list it
\* reads.  Either reading may fail.
Arrive(p) ==
  LET r == body[p] IN
  /\ at[p] = "sent"
  /\ \/ Reply(p, "down")
     \/ IsCreate(r) /\ r.evidence # brief /\ Reply(p, "stale")
     \/ ~IsCreate(r) /\ row[r.commitment].version = 0 /\ Reply(p, "denied")
     \/ ~IsCreate(r) /\ ~TransitionActorAllowed(row[r.commitment], r) /\ Reply(p, "denied")
     \/ /\ IF IsCreate(r) THEN r.evidence = brief
           ELSE row[r.commitment].version # 0 /\ TransitionActorAllowed(row[r.commitment], r)
        /\ Set(at, p, "admitted") /\ UNCHANGED answer
  /\ contract' = [contract EXCEPT ![p].brief = brief]
  /\ UNCHANGED <<store, brief, body, page>>

CallStore(p) ==
  /\ at[p] = "admitted"
  /\ Store!Ask(p, body[p])
  /\ Set(at, p, "store")
  /\ UNCHANGED <<brief, body, answer, contract, page>>

\* The store's transaction takes effect, possibly when nobody awaits it.
StoreTakes(p) ==
  /\ Store!Take(p)
  /\ UNCHANGED <<brief, server, page>>

StoreTells(p) ==
  /\ at[p] = "store"
  /\ \E t \in Store!Answers : Store!Tell(p, t)
  /\ UNCHANGED <<brief, server, page>>

\* A session left behind ends without effect.
StoreForgets(p) ==
  /\ at[p] = "free" /\ told[p] = "left"
  /\ Store!Leave(p)
  /\ UNCHANGED <<brief, server, page>>

\* respondStoreError: what the handler may answer when the store threw
StoreAnswer(p) ==
  IF told[p] = "refused" THEN {"refused"}
  ELSE {"down"} \cup
       IF IsCreate(body[p]) /\ \E c \in CommitmentId : /\ row[c].version # 0
                                                       /\ row[c].evidence = body[p].evidence
       THEN {"exists"} ELSE {}

\* Mutant of Conclude: a call whose fate is open passes for recorded.
ConcludeRecorded(p) ==
  /\ at[p] = "store" /\ told[p] # "waiting"
  /\ \/ told[p] # "refused" /\ Set(at, p, "recorded") /\ UNCHANGED answer
     \/ told[p] # "done" /\ \E a \in StoreAnswer(p) : Reply(p, a)
  /\ UNCHANGED <<store, brief, body, contract, page>>

Conclude(p) ==
  /\ at[p] = "store" /\ told[p] # "waiting"
  /\ \/ told[p] = "done" /\ Set(at, p, "recorded") /\ UNCHANGED answer
     \/ told[p] # "done" /\ \E a \in StoreAnswer(p) : Reply(p, a)
  /\ UNCHANGED <<store, brief, body, contract, page>>

\* The list is read again and projected; when that fails the answer is a 503
\* although the request took effect.
ListAgain(p) ==
  /\ at[p] = "recorded"
  /\ \/ Reply(p, "ok") /\ contract' = [contract EXCEPT ![p].rows = row]
     \/ Reply(p, "down") /\ UNCHANGED contract
  /\ UNCHANGED <<store, brief, body, page>>

\* The platform stops the invocation and answers a 5xx in its place.
Die(p) ==
  /\ at[p] \in {"sent", "admitted", "store", "recorded"}
  /\ Reply(p, "down")
  /\ UNCHANGED <<store, brief, body, contract, page>>

\* Nobody awaits the answer, or the request never got here.
Unheard(p) ==
  /\ at[p] \in {"sent", "answered"} /\ ~Heard(p)
  /\ Free(p)
  /\ UNCHANGED <<brief, page>>

\* New artifacts are published and pinned.
Publish(e) ==
  /\ brief # e /\ brief' = e
  /\ UNCHANGED <<store, server, page>>

PageStep(u) ==
  \/ Load(u)
  \/ \E command \in Command, c \in CommitmentId \cup {None} : OpenDialog(u, command, c)
  \/ CloseDialog(u)
  \/ \E p \in Proc, form \in Form : Submit(u, p, form)
  \/ Deliver(u)
  \/ Lose(u)
  \/ Reload(u)

ServerStep(p) ==
  \/ Arrive(p)
  \/ CallStore(p)
  \/ StoreTakes(p)
  \/ StoreTells(p)
  \/ StoreForgets(p)
  \/ Conclude(p)
  \/ ListAgain(p)
  \/ Die(p)
  \/ Unheard(p)

Next ==
  \/ \E u \in User : PageStep(u)
  \/ \E p \in Proc : ServerStep(p)
  \/ \E e \in Evidence : Publish(e)

Spec == Init /\ [][Next]_vars

-----------------------------------------------------------------------------
(* Properties. *)

Dialog == [command : Command, id : CommandId, commitment : CommitmentId \cup {None},
           expected : Nat, replay : RequestShape \cup {None}, doubled : BOOLEAN]

\* Every variable keeps its type.
TypeOK ==
  /\ row \in [CommitmentId -> Row] /\ taken \subseteq RequestShape /\ asked \in [Proc -> RequestShape]
  /\ told \in [Proc -> Store!Answers \cup {"waiting", "left", "gone"}]
  /\ brief \in Evidence
  /\ at \in [Proc -> {"free", "sent", "admitted", "store", "recorded", "answered"}]
  /\ body \in [Proc -> RequestShape \cup {None}]
  /\ answer \in [Proc -> Answer]
  /\ contract \in [Proc -> [rows : [CommitmentId -> Row], brief : Evidence \cup {None}]]
  /\ seen \in [User -> [rows : [CommitmentId -> Row], brief : Evidence] \cup {None}]
  /\ dialog \in [User -> Dialog \cup {None}]
  /\ sending \in [User -> Sending \cup {None}]
  /\ notice \in [User -> RequestShape \cup {None}]
  /\ ids \subseteq CommandId

\* A request that may take effect later: it is on its way to the store or in it.
Pending(p) == at[p] \in {"sent", "admitted"} \/ told[p] \in {"waiting", "unsure", "left"}

\* A dialog whose fields can still be edited has changed nothing and will not:
\* every command it was ever sent under its id was refused for good, so that
\* entering something else under the same id cannot collide with itself.
\* (ALREADY_EXISTS is not such a refusal: see ActionLedger.)
EditableIsUncommitted ==
  \A u \in User :
    LET d == dialog[u] IN
    d # None /\ (sending[u] = None \/ sending[u].id # d.id) =>
      d.replay # None \/ d.doubled \/
      /\ \A r \in taken : r.id # d.id
      /\ \A p \in Proc : at[p] # "free" \/ told[p] # "gone" =>
           IF at[p] = "free" THEN asked[p].id # d.id ELSE body[p].id # d.id \/ ~Pending(p)

\* What a page sends under one command id is one request once its outcome is in
\* doubt: no two different requests of an id are ever both able to take effect.
OneRequestPerCommand ==
  \A p, q \in Proc :
    /\ at[p] \in {"sent", "admitted", "store"} /\ at[q] \in {"sent", "admitted", "store"}
    /\ body[p].id = body[q].id
    => body[p] = body[q]

\* The handler's own check, made on a list that is stale when the store is
\* called, never denies a request that is recorded: the repetition of a claim,
\* a completion or a cancellation reaches the store, which replays it.
GateAdmitsReplays ==
  \A p \in Proc : at[p] = "answered" /\ answer[p] = "denied" => body[p] \notin taken

\* A contract answered to a mutation shows its effect.
ReadYourWrites ==
  \A p \in Proc : at[p] = "answered" /\ answer[p] = "ok" =>
    /\ body[p] \in taken
    /\ IF IsCreate(body[p])
       THEN \E c \in CommitmentId : /\ contract[p].rows[c].version # 0
                                    /\ contract[p].rows[c].evidence = body[p].evidence
       ELSE contract[p].rows[body[p].commitment].version > body[p].expected

\* While the dialog says that an outcome could not be confirmed and asks to
\* repeat the same command, submitting repeats that command
\* (tests/grh-action-ledger.e2e.mjs:753).
RetryRepeatsTheUncertain ==
  [][\A u \in User : notice[u] # None /\ sending[u] = None /\ sending'[u] # None
       => sending'[u].body = notice[u]]_vars

=============================================================================
