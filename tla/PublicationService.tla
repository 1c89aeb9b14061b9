-------------------------- MODULE PublicationService --------------------------
(***************************************************************************)
(* What publishing workforce finance promises a tenant: what readers get   *)
(* changes in single steps, each made by one call, whose operation and     *)
(* entity no call published before; only a call whose very request is      *)
(* published, and is what readers get when it is told, is told of a reuse; *)
(* and a call that is told of a failure may have published, or may have    *)
(* been left behind and still publish, once, unless its operation or its   *)
(* entity is published first.                                              *)
(* Locks, statements, the table, its clock and its order are not visible.  *)
(***************************************************************************)
CONSTANTS Publisher, Operation, Entity, Snapshot, Nothing

VARIABLES
  current,  \* what readers get, Nothing before the first publication
  taken,    \* the requests that were published
  asked,    \* what each call asks for, Nothing before it does
  told      \* what it was told, "waiting" before; "left": of a failure, while it goes on

serviceVars == <<current, taken, asked, told>>

Request == [operation : Operation, entity : Entity, artifact : Snapshot]

\* what readers see of a publication
Content(published) == [entity |-> published.entity, artifact |-> published.artifact]

Init ==
  /\ current = Nothing
  /\ taken = {}
  /\ asked = [p \in Publisher |-> Nothing]
  /\ told = [p \in Publisher |-> "waiting"]

Ask(p, request) ==
  /\ asked[p] = Nothing
  /\ asked' = [asked EXCEPT ![p] = request]
  /\ UNCHANGED <<current, taken, told>>

Publish(p, answer) ==
  /\ asked[p] # Nothing
  /\ told[p] = "waiting" \/ (told[p] = "left" /\ answer = "failed")
  /\ \A t \in taken : t.operation # asked[p].operation /\ t.entity # asked[p].entity
  /\ current' = Content(asked[p])
  /\ taken' = taken \cup {asked[p]}
  /\ told' = [told EXCEPT ![p] = answer]
  /\ UNCHANGED asked

Reuse(p) ==
  /\ told[p] = "waiting"
  /\ asked[p] \in taken /\ current = Content(asked[p])
  /\ told' = [told EXCEPT ![p] = "reused"]
  /\ UNCHANGED <<current, taken, asked>>

Leave(p) ==
  /\ asked[p] # Nothing /\ told[p] = "waiting"
  /\ told' = [told EXCEPT ![p] = "left"]
  /\ UNCHANGED <<current, taken, asked>>

Fail(p) ==
  /\ asked[p] # Nothing /\ told[p] \in {"waiting", "left"}
  /\ told' = [told EXCEPT ![p] = "failed"]
  /\ UNCHANGED <<current, taken, asked>>

Next == \E p \in Publisher :
  \/ \E request \in Request : Ask(p, request)
  \/ \E answer \in {"created", "failed"} : Publish(p, answer)
  \/ Reuse(p)
  \/ Leave(p)
  \/ Fail(p)

Spec == Init /\ [][Next]_serviceVars
=============================================================================
