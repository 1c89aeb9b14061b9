------------------------- MODULE DirectoryAccessProofs -------------------------
(***************************************************************************)
(* What the audit trail of the directory promises, proved for any users,   *)
(* assignments, directories and connections.                               *)
(*                                                                         *)
(* The inductive invariant ties the three places the trail is spread over: *)
(* a month's committed rows are numbered without gaps, the connection that *)
(* holds the month's lock carries the very next row, and a request that is *)
(* under way, turned away at once or left to its COMMIT has no row, while  *)
(* an answered one has the row of its answer.  Request ids are never given *)
(* twice.                                                                  *)
(*                                                                         *)
(* A second invariant, ShownInv, is about what is shown: the scope of a    *)
(* request covers no unit its facts did not give, and every cursor given   *)
(* out stands in its list right after the pages that were seen before it.  *)
(***************************************************************************)
EXTENDS DirectoryAccess, FiniteSetTheorems, SequenceTheorems, NaturalsInduction,
        WellFoundedInduction, TLAPS

Field == {"id", "phase", "query", "at", "scope", "outcome", "status", "items", "next", "event"}

Shaped(r) == r = [f \in Field |-> r[f]]

\* the row an entry of the chain of month m stands after
Follows(e, m) ==
  IF e.sequence = 1 THEN e.previous = 0
  ELSE \E d \in InMonth(m) : d.sequence + 1 = e.sequence /\ d.id = e.previous

ChainOK(m) ==
  /\ IsFiniteSet(InMonth(m))
  /\ {e.sequence : e \in InMonth(m)} = 1 .. Cardinality(InMonth(m))
  /\ \A e \in InMonth(m) : Follows(e, m)

\* the row a connection is about to commit
NextRow(c) ==
  LET event == request[c].event
  IN  /\ event.month \in 1 .. month
      /\ holder[event.month] = c
      /\ event.sequence = Cardinality(InMonth(event.month)) + 1
      /\ Follows(event, event.month)

Rows(c) == {e \in log : e.id = request[c].id}

\* what a request is to be answered with agrees with what goes on record
Verdict(c) ==
  /\ \/ request[c].status \in {200, 404} /\ request[c].outcome = "ALLOWED"
     \/ request[c].status \in {400, 403, 409, 503} /\ request[c].outcome = "DENIED"
  /\ request[c].status = 503 => request[c].items = <<>>

\* the row the connection is about to commit, as it will stand in the log
RowOf(c, row) ==
  /\ row.id = request[c].id /\ row.month = request[c].event.month
  /\ row.sequence = request[c].event.sequence /\ row.previous = request[c].event.previous
  /\ row.outcome \in {"ALLOWED", "DENIED"}

Recorded(c) ==
  LET r == request[c]
  IN  \/ /\ r.status \in {200, 404}
         /\ \E e \in Rows(c) : Rows(c) = {e} /\ e.outcome = "ALLOWED" /\ e.scope = r.scope
                              /\ e.count = Len(r.items)
      \/ r.status \in {400, 403, 409} /\ \E e \in Rows(c) : Rows(c) = {e} /\ e.outcome = "DENIED"
      \/ r.status = 503 /\ r.items = <<>> /\ (Rows(c) = {} \/ \E e \in Rows(c) : Rows(c) = {e})

RequestOK(c) ==
  /\ Shaped(request[c])
  /\ request[c].phase \in RequestPhase
  /\ request[c].scope \in (SUBSET Unit) \cup {Null}
  /\ request[c].scope # {}
  /\ request[c].status \in {0, 200, 400, 401, 403, 404, 409, 503}
  /\ request[c].id \in 0 .. started
  /\ request[c].phase # "idle" => request[c].id # 0
  /\ request[c].phase \in {"refused", "deciding", "reading", "chaining", "committing", "left"} =>
       Rows(c) = {}
  /\ request[c].phase \in {"refused", "left"} =>
       request[c].status \notin {200, 404} /\ request[c].items = <<>>
  /\ request[c].phase \in {"chaining", "committing"} => Verdict(c)
  /\ request[c].phase = "chaining" => request[c].event.month \in 1 .. month
  /\ request[c].phase \in {"committing", "left"} => NextRow(c)
  /\ request[c].phase = "left" => RowOf(c, request[c].event)
  /\ request[c].phase = "answered" => Recorded(c)

WorldOK ==
  /\ standing \in BOOLEAN
  /\ granted \subseteq Assignment
  /\ working \subseteq Unit
  /\ source \in Artifact
  /\ month \in 1 .. MaxMonth
  /\ started \in Nat

TrailOK ==
  /\ holder \in [1 .. MaxMonth -> Conn \cup {Null}]
  /\ \A m \in 1 .. MaxMonth : holder[m] # Null =>
       request[holder[m]].phase \in {"committing", "left"} /\ request[holder[m]].event.month = m
  /\ \A e \in log : e.month \in 1 .. month /\ e.outcome \in {"ALLOWED", "DENIED"} /\ e.id \in 1 .. started
  /\ \A m \in 1 .. MaxMonth : ChainOK(m)

IdsDiffer ==
  \A c, d \in Conn : c # d /\ request[c].id = request[d].id => request[c].id = 0

DirectoryInv ==
  /\ WorldOK
  /\ TrailOK
  /\ request = [c \in Conn |-> request[c]]
  /\ \A c \in Conn : RequestOK(c)
  /\ IdsDiffer

-----------------------------------------------------------------------------
LEMMA DirectoryInitInv == DirectoryInit => DirectoryInv
<1> SUFFICES ASSUME DirectoryInit PROVE DirectoryInv
  OBVIOUS
<1> USE DirectoryAssumption DEF DirectoryInit
<1>1. WorldOK
  BY DEF WorldOK
<1>2. TrailOK
  <2>1. ASSUME NEW m \in 1 .. MaxMonth PROVE ChainOK(m)
    <3>1. InMonth(m) = {}
      BY DEF InMonth
    <3>2. IsFiniteSet(InMonth(m)) /\ Cardinality(InMonth(m)) = 0
      BY <3>1, FS_EmptySet
    <3> QED BY <3>1, <3>2 DEF ChainOK
  <2> QED BY <2>1 DEF TrailOK
<1>3. ASSUME NEW c \in Conn PROVE RequestOK(c)
  <2>1. request[c] = NoRequest /\ Shaped(NoRequest)
    BY DEF NoRequest, Shaped, Field
  <2>2. /\ NoRequest.phase = "idle" /\ NoRequest.id = 0 /\ NoRequest.status = 0
        /\ NoRequest.scope = Null /\ Null # {}
    BY DEF NoRequest
  <2> QED BY <2>1, <2>2 DEF RequestOK, RequestPhase
<1> QED BY <1>1, <1>2, <1>3 DEF DirectoryInv, IdsDiffer, NoRequest

-----------------------------------------------------------------------------
(* Steps that leave the trail alone.                                       *)

LEMMA ChainKept ==
  ASSUME NEW m, UNCHANGED log
  PROVE  /\ InMonth(m)' = InMonth(m)
         /\ ChainOK(m) => ChainOK(m)'
         /\ \A e : Follows(e, m) => Follows(e, m)'
<1>1. InMonth(m)' = InMonth(m)
  BY DEF InMonth
<1>2. ASSUME NEW e, Follows(e, m) PROVE Follows(e, m)'
  BY <1>1, <1>2 DEF Follows
<1> QED BY <1>1, <1>2 DEF ChainOK

LEMMA TrailKept ==
  ASSUME DirectoryInv, NEW c \in Conn, UNCHANGED audit,
         month' \in 1 .. MaxMonth, month' >= month, started' \in Nat, started' >= started,
         \/ request[c].phase \notin {"committing", "left"}
         \/ request'[c].phase = "left" /\ request'[c].event.month = request[c].event.month,
         \A d \in Conn \ {c} : request'[d] = request[d]
  PROVE  TrailOK' /\ \A d \in Conn \ {c} : RequestOK(d)'
<1> USE DEF audit
<1>1. TrailOK'
  <2>1. /\ holder' \in [1 .. MaxMonth -> Conn \cup {Null}]
        /\ \A m \in 1 .. MaxMonth : ChainOK(m)'
    BY ChainKept DEF DirectoryInv, TrailOK
  <2>2. ASSUME NEW m \in 1 .. MaxMonth, holder[m] # Null
        PROVE  request'[holder[m]].phase \in {"committing", "left"} /\ request'[holder[m]].event.month = m
    BY <2>2 DEF DirectoryInv, TrailOK
  <2>3. \A e \in log : e.month \in 1 .. month' /\ e.outcome \in {"ALLOWED", "DENIED"} /\ e.id \in 1 .. started'
    BY DEF DirectoryInv, TrailOK, WorldOK
  <2> QED BY <2>1, <2>2, <2>3 DEF TrailOK
<1>2. ASSUME NEW d \in Conn \ {c} PROVE RequestOK(d)'
  <2>1. RequestOK(d) /\ request'[d] = request[d] /\ 1 .. month \subseteq 1 .. month'
        /\ 0 .. started \subseteq 0 .. started'
    BY DEF DirectoryInv, WorldOK
  <2>2. Rows(d)' = Rows(d)
    BY <2>1 DEF Rows
  <2>3. Verdict(d) => Verdict(d)'
    BY <2>1 DEF Verdict
  <2>4. NextRow(d) => NextRow(d)'
    BY <2>1, ChainKept DEF NextRow
  <2>5. /\ Recorded(d) => Recorded(d)'
        /\ RowOf(d, request[d].event) => RowOf(d, request[d].event)'
    BY <2>1, <2>2 DEF Recorded, RowOf
  <2> QED BY <2>1, <2>2, <2>3, <2>4, <2>5 DEF RequestOK
<1> QED BY <1>1, <1>2

LEMMA WorldInv ==
  ASSUME DirectoryInv, Change \/ EndMonth \/ UNCHANGED directoryVars
  PROVE  DirectoryInv'
<1> USE DEF Change, EndMonth, directoryVars, world, audit, bounds
<1>1. WorldOK' /\ month' >= month /\ UNCHANGED <<audit, request, started>>
  <2>1. WorldOK /\ MaxMonth \in Nat
    BY DirectoryAssumption DEF DirectoryInv
  <2>2. CASE EndMonth
    BY <2>1, <2>2 DEF WorldOK
  <2>3. CASE Change
    <3>1. CASE \E a \in Assignment : granted' = (granted \ {a}) \cup ({a} \ granted)
      BY <2>1, <2>3, <3>1 DEF WorldOK
    <3>2. CASE \E u \in Unit : working' = (working \ {u}) \cup ({u} \ working)
      BY <2>1, <2>3, <3>2 DEF WorldOK
    <3>3. CASE standing' = ~ standing /\ UNCHANGED <<granted, working, source>>
      <4>1. standing' \in BOOLEAN
        BY <3>3
      <4> QED BY <2>1, <2>3, <3>3, <4>1 DEF WorldOK
    <3>4. CASE source' \in Artifact /\ UNCHANGED <<standing, granted, working>>
      BY <2>1, <2>3, <3>4 DEF WorldOK
    <3> QED BY <2>3, <3>1, <3>2, <3>3, <3>4
  <2>4. CASE UNCHANGED directoryVars
    BY <2>1, <2>4 DEF WorldOK
  <2> QED BY <2>2, <2>3, <2>4
<1>2. TrailOK'
  <2>1. \A m \in 1 .. MaxMonth : ChainOK(m)'
    BY <1>1, ChainKept DEF DirectoryInv, TrailOK
  <2>2. \A e \in log' : e.month \in 1 .. month' /\ e.outcome \in {"ALLOWED", "DENIED"} /\ e.id \in 1 .. started'
    BY <1>1 DEF DirectoryInv, TrailOK, WorldOK
  <2>3. UNCHANGED <<holder, request>>
    BY <1>1
  <2>4. /\ holder' \in [1 .. MaxMonth -> Conn \cup {Null}]
        /\ \A m \in 1 .. MaxMonth : holder'[m] # Null =>
             request'[holder'[m]].phase \in {"committing", "left"} /\ request'[holder'[m]].event.month = m
    BY <2>3 DEF DirectoryInv, TrailOK
  <2> QED BY <2>1, <2>2, <2>4 DEF TrailOK
<1>3. ASSUME NEW c \in Conn PROVE RequestOK(c)'
  <2>1. RequestOK(c) /\ 1 .. month \subseteq 1 .. month'
    BY <1>1 DEF DirectoryInv, WorldOK
  <2>2. NextRow(c) => NextRow(c)'
    BY <1>1, <2>1, ChainKept DEF NextRow
  <2>3. /\ Rows(c)' = Rows(c)
        /\ Verdict(c) => Verdict(c)'
    BY <1>1 DEF Rows, Verdict
  <2>4. /\ Recorded(c) => Recorded(c)'
        /\ RowOf(c, request[c].event) => RowOf(c, request[c].event)'
    BY <1>1, <2>3 DEF Recorded, RowOf
  <2> QED BY <1>1, <2>1, <2>2, <2>3, <2>4 DEF RequestOK
<1> QED BY <1>1, <1>2, <1>3 DEF DirectoryInv, IdsDiffer

-----------------------------------------------------------------------------
(* The steps of a request before its row is written.                       *)

(* What Start leaves in the request.                                       *)
LEMMA StartResult ==
  ASSUME DirectoryInv, NEW c \in Conn, NEW query, NEW staticAllowed \in BOOLEAN,
         Start(c, query, staticAllowed)
  PROVE  /\ request' = [d \in Conn |-> request'[d]]
         /\ \A d \in Conn \ {c} : request'[d] = request[d]
         /\ Shaped(request'[c])
         /\ request'[c].id = started + 1 /\ request'[c].scope = Null
         /\ request'[c].items = <<>> /\ request'[c].next = Null
         /\ \/ /\ request'[c].phase = "deciding" /\ request'[c].status = 0
               /\ request'[c].query = query
            \/ /\ request'[c].phase = "chaining" /\ request'[c].status = 403
               /\ request'[c].outcome = "DENIED"
               /\ request'[c].event.month = month
<1> DEFINE event == [month |-> month, sequence |-> 0, previous |-> 0]
           new == [NoRequest EXCEPT !.id = started + 1, !.query = query]
           allowed == [new EXCEPT !.phase = "deciding"]
           denied == [new EXCEPT !.phase = "chaining", !.outcome = "DENIED", !.status = 403,
                                 !.event = event]
<1>1. /\ request' = [request EXCEPT ![c] = IF staticAllowed THEN allowed ELSE denied]
      /\ request = [d \in Conn |-> request[d]]
  BY DEF Start, DirectoryInv
<1>2. event.month = month
  OBVIOUS
<1> HIDE DEF event
<1>3. /\ Shaped(NoRequest) /\ NoRequest.scope = Null /\ NoRequest.status = 0
      /\ NoRequest.items = <<>> /\ NoRequest.next = Null
  BY DEF NoRequest, Shaped, Field
<1>4. /\ Shaped(new) /\ new.id = started + 1 /\ new.query = query
      /\ new.scope = Null /\ new.status = 0 /\ new.items = <<>> /\ new.next = Null
  BY <1>3 DEF Shaped, Field
<1> HIDE DEF new
<1>5. /\ Shaped(allowed) /\ allowed.id = started + 1 /\ allowed.query = query
      /\ allowed.scope = Null /\ allowed.status = 0 /\ allowed.items = <<>> /\ allowed.next = Null
      /\ allowed.phase = "deciding"
  BY <1>4 DEF Shaped, Field
<1>6. /\ Shaped(denied) /\ denied.id = started + 1
      /\ denied.scope = Null /\ denied.items = <<>> /\ denied.next = Null
      /\ denied.phase = "chaining" /\ denied.status = 403 /\ denied.outcome = "DENIED"
      /\ denied.event = event
  <2>1. ASSUME NEW phase, NEW outcome, NEW status
        PROVE  Shaped([new EXCEPT !.phase = phase, !.outcome = outcome, !.status = status, !.event = event])
    BY <1>4 DEF Shaped, Field
  <2>2. denied.id = started + 1 /\ denied.scope = Null /\ denied.items = <<>> /\ denied.next = Null
    BY <1>4 DEF Shaped, Field
  <2>3. /\ denied.phase = "chaining" /\ denied.status = 403 /\ denied.outcome = "DENIED"
        /\ denied.event = event
    BY <1>4 DEF Shaped, Field
  <2>4. Shaped(denied)
    BY ONLY <2>1
  <2> HIDE DEF denied
  <2> QED BY <2>2, <2>3, <2>4
<1> HIDE DEF allowed, denied
<1>7. CASE staticAllowed
  <2>1. request'[c] = allowed /\ \A d \in Conn \ {c} : request'[d] = request[d]
    BY <1>1, <1>7
  <2> QED BY <1>1, <1>5, <2>1
<1>8. CASE ~ staticAllowed
  <2>1. request'[c] = denied /\ \A d \in Conn \ {c} : request'[d] = request[d]
    BY <1>1, <1>8
  <2>2. request'[c].event.month = month
    BY <1>2, <1>6, <2>1
  <2> QED BY <1>1, <1>6, <2>1, <2>2
<1> QED BY <1>7, <1>8

LEMMA StartInv ==
  ASSUME DirectoryInv, NEW c \in Conn, NEW query \in Query, NEW staticAllowed \in BOOLEAN,
         Start(c, query, staticAllowed)
  PROVE  DirectoryInv'
<1>1. /\ WorldOK' /\ started' = started + 1 /\ started \in Nat /\ month \in 1 .. MaxMonth
      /\ UNCHANGED <<month, audit>> /\ request[c].phase \notin {"committing", "left"}
  <2>1. /\ UNCHANGED <<world, audit>> /\ started' = started + 1
        /\ request[c].phase \in {"idle", "refused", "answered"}
    BY DEF Start, Free
  <2> QED BY <2>1 DEF DirectoryInv, WorldOK, world
<1>2. /\ request' = [d \in Conn |-> request'[d]]
      /\ \A d \in Conn \ {c} : request'[d] = request[d]
  BY StartResult
<1>3. /\ Shaped(request'[c])
      /\ request'[c].id = started + 1
      /\ request'[c].scope = Null
      /\ \/ request'[c].phase = "deciding" /\ request'[c].status = 0
         \/ /\ request'[c].phase = "chaining" /\ request'[c].status = 403
            /\ request'[c].outcome = "DENIED"
            /\ request'[c].event.month = month
  BY StartResult
<1>4. TrailOK' /\ \A d \in Conn \ {c} : RequestOK(d)'
  BY <1>1, <1>2, TrailKept DEF DirectoryInv, WorldOK
<1>5. RequestOK(c)'
  <2>1. Rows(c)' = {}
    BY <1>1, <1>3 DEF Rows, DirectoryInv, TrailOK, audit
  <2>2. started + 1 \in 0 .. started' /\ started + 1 # 0 /\ month \in 1 .. month' /\ Null # {}
    BY <1>1, DirectoryAssumption
  <2> QED BY <1>3, <2>1, <2>2 DEF RequestOK, RequestPhase, Verdict
<1>6. IdsDiffer'
  BY <1>1, <1>2, <1>3 DEF IdsDiffer, DirectoryInv, RequestOK
<1> QED BY <1>1, <1>2, <1>4, <1>5, <1>6 DEF DirectoryInv

(* A request turned away at once.                                          *)
LEMMA RefuseResult ==
  ASSUME DirectoryInv, NEW c \in Conn, NEW status \in RefusedAtOnce, Refuse(c, status)
  PROVE  /\ request' = [d \in Conn |-> request'[d]]
         /\ \A d \in Conn \ {c} : request'[d] = request[d]
         /\ Shaped(request'[c]) /\ request'[c].phase = "refused"
         /\ request'[c].id = started + 1 /\ request'[c].status = status
         /\ request'[c].scope = Null /\ request'[c].items = <<>> /\ request'[c].next = Null
<1> DEFINE new == [NoRequest EXCEPT !.id = started + 1, !.phase = "refused", !.status = status]
<1>1. request' = [request EXCEPT ![c] = new] /\ request = [d \in Conn |-> request[d]]
  BY DEF Refuse, DirectoryInv
<1>2. /\ Shaped(NoRequest) /\ NoRequest.scope = Null
      /\ NoRequest.items = <<>> /\ NoRequest.next = Null
  BY DEF NoRequest, Shaped, Field
<1>3. /\ new.phase = "refused" /\ new.id = started + 1 /\ new.status = status
      /\ new.scope = Null /\ new.items = <<>> /\ new.next = Null
  BY <1>2 DEF Shaped, Field
<1>4. ASSUME NEW id, NEW answer
      PROVE  Shaped([NoRequest EXCEPT !.id = id, !.phase = "refused", !.status = answer])
  BY <1>2 DEF Shaped, Field
<1>5. Shaped(new)
  BY <1>4
<1> HIDE DEF new
<1>6. /\ request' = [d \in Conn |-> request'[d]] /\ request'[c] = new
      /\ \A d \in Conn \ {c} : request'[d] = request[d]
  BY <1>1
<1> QED BY <1>3, <1>5, <1>6

LEMMA RefuseInv ==
  ASSUME DirectoryInv, NEW c \in Conn, NEW status \in RefusedAtOnce, Refuse(c, status)
  PROVE  DirectoryInv'
<1>1. /\ WorldOK' /\ started' = started + 1 /\ started \in Nat /\ month \in 1 .. MaxMonth
      /\ UNCHANGED <<month, audit>> /\ request[c].phase \notin {"committing", "left"}
  <2>1. /\ UNCHANGED <<world, audit>> /\ started' = started + 1
        /\ request[c].phase \in {"idle", "refused", "answered"}
    BY DEF Refuse, Free
  <2> QED BY <2>1 DEF DirectoryInv, WorldOK, world
<1>2. /\ request' = [d \in Conn |-> request'[d]]
      /\ \A d \in Conn \ {c} : request'[d] = request[d]
      /\ Shaped(request'[c]) /\ request'[c].phase = "refused"
      /\ request'[c].id = started + 1 /\ request'[c].status = status
      /\ request'[c].scope = Null /\ request'[c].items = <<>>
  BY RefuseResult
<1>3. TrailOK' /\ \A d \in Conn \ {c} : RequestOK(d)'
  BY <1>1, <1>2, TrailKept DEF DirectoryInv, WorldOK
<1>4. RequestOK(c)'
  <2>1. Rows(c)' = {}
    BY <1>1, <1>2 DEF Rows, DirectoryInv, TrailOK, audit
  <2>2. started + 1 \in 0 .. started' /\ started + 1 # 0 /\ Null # {}
    BY <1>1, DirectoryAssumption
  <2> QED BY <1>2, <2>1, <2>2 DEF RequestOK, RequestPhase, RefusedAtOnce
<1>5. IdsDiffer'
  BY <1>1, <1>2 DEF IdsDiffer, DirectoryInv, RequestOK
<1> QED BY <1>1, <1>2, <1>3, <1>4, <1>5 DEF DirectoryInv

(* What Audit leaves in the request.                                       *)
LEMMA AuditResult ==
  ASSUME DirectoryInv, NEW c \in Conn, NEW outcome, NEW status, NEW items, NEW next,
         Audit(c, outcome, status, items, next)
  PROVE  /\ request' = [d \in Conn |-> request'[d]]
         /\ \A d \in Conn \ {c} : request'[d] = request[d]
         /\ Shaped(request'[c])
         /\ request'[c].phase = "chaining" /\ request'[c].outcome = outcome
         /\ request'[c].status = status /\ request'[c].items = items
         /\ request'[c].event.month = month
         /\ request'[c].id = request[c].id /\ request'[c].scope = request[c].scope
         /\ request'[c].next = next
         /\ request'[c].at = IF items = <<>> THEN Null ELSE request[c].at
<1> DEFINE at == IF items = <<>> THEN Null ELSE request[c].at
           event == [month |-> month, sequence |-> 0, previous |-> 0]
           new == [request[c] EXCEPT !.phase = "chaining", !.query = Null, !.outcome = outcome,
                     !.status = status, !.items = items, !.next = next, !.at = at, !.event = event]
<1>1. /\ request = [d \in Conn |-> request[d]]
      /\ Shaped(request[c])
  BY DEF DirectoryInv, RequestOK
<1>2. request' = [request EXCEPT ![c] = new]
  BY <1>1 DEF Audit, Shaped, Field
<1>3. /\ Shaped(new)
      /\ new.phase = "chaining" /\ new.outcome = outcome /\ new.status = status
      /\ new.items = items /\ new.event = event
      /\ new.id = request[c].id /\ new.scope = request[c].scope
      /\ new.next = next /\ new.at = at
  <2> HIDE DEF at, event
  <2> QED BY <1>1 DEF Shaped, Field
<1>4. event.month = month
  OBVIOUS
<1>5. request'[c] = new /\ \A d \in Conn \ {c} : request'[d] = request[d]
  <2> HIDE DEF new
  <2> QED BY <1>1, <1>2
<1> HIDE DEF new, event
<1> QED BY <1>1, <1>2, <1>3, <1>4, <1>5

(* A verdict on a request under way goes to the chain.                     *)
LEMMA AuditInv ==
  ASSUME DirectoryInv, NEW c \in Conn, NEW outcome, NEW status, NEW items, NEW next,
         Audit(c, outcome, status, items, next),
         request[c].phase \in {"deciding", "reading"},
         UNCHANGED <<world, audit, started>>,
         \/ status \in {200, 404} /\ outcome = "ALLOWED"
         \/ status \in {400, 403, 409} /\ outcome = "DENIED"
         \/ status = 503 /\ outcome = "DENIED" /\ items = <<>>
  PROVE  DirectoryInv'
<1>1. WorldOK' /\ UNCHANGED <<audit, month, started>>
  BY DEF DirectoryInv, WorldOK, world
<1>2. /\ request' = [d \in Conn |-> request'[d]]
      /\ \A d \in Conn \ {c} : request'[d] = request[d]
      /\ Shaped(request'[c])
      /\ request'[c].phase = "chaining" /\ request'[c].outcome = outcome
      /\ request'[c].status = status /\ request'[c].items = items
      /\ request'[c].event.month = month
      /\ request'[c].id = request[c].id /\ request'[c].scope = request[c].scope
  BY AuditResult
<1>3. TrailOK' /\ \A d \in Conn \ {c} : RequestOK(d)'
  BY <1>1, <1>2, TrailKept DEF DirectoryInv, WorldOK
<1>4. RequestOK(c)'
  <2>1. RequestOK(c) /\ month \in 1 .. month
    BY DEF DirectoryInv, WorldOK
  <2>2. Rows(c)' = {}
    BY <1>1, <1>2, <2>1 DEF Rows, RequestOK, audit
  <2>3. Verdict(c)'
    BY <1>2 DEF Verdict
  <2> QED BY <1>1, <1>2, <2>1, <2>2, <2>3 DEF RequestOK, RequestPhase
<1>5. IdsDiffer'
  BY <1>2 DEF IdsDiffer, DirectoryInv
<1> QED BY <1>1, <1>2, <1>3, <1>4, <1>5 DEF DirectoryInv

(* The scope a decision gives is of units, and never empty.                *)
LEMMA ScopeGiven ==
  ASSUME DirectoryInv, ~ TenantWide, NEW a \in Assignment, Eligible(a)
  PROVE  Reach \in SUBSET Unit /\ Reach # {}
<1>1. ASSUME NEW b \in Assignment PROVE CodesOf(b) \subseteq Unit
  BY DirectoryAssumption DEF CodesOf, DirectoryInv, WorldOK
<1>2. ScopeOf[a].kind # "TENANT" /\ ScopeOf[a].unit \in working /\ ScopeOf[a].unit \in Unit
  BY DirectoryAssumption DEF TenantWide, Eligible
<1>3. ScopeOf[a].unit \in CodesOf(a)
  BY <1>2, DirectoryAssumption DEF CodesOf
<1> QED BY <1>1, <1>3 DEF Reach

Grants(c) ==
  request' = [request EXCEPT
    ![c].phase = "reading", ![c].at = [standing |-> standing, granted |-> granted, working |-> working],
    ![c].scope = IF TenantWide THEN Null ELSE Reach]

(* What a favourable decision leaves in the request.                       *)
LEMMA GrantsResult ==
  ASSUME DirectoryInv, NEW c \in Conn, Grants(c)
  PROVE  /\ request' = [d \in Conn |-> request'[d]]
         /\ \A d \in Conn \ {c} : request'[d] = request[d]
         /\ Shaped(request'[c])
         /\ request'[c].phase = "reading"
         /\ request'[c].scope = IF TenantWide THEN Null ELSE Reach
         /\ request'[c].at = [standing |-> standing, granted |-> granted, working |-> working]
         /\ request'[c].id = request[c].id /\ request'[c].status = request[c].status
         /\ request'[c].query = request[c].query /\ request'[c].items = request[c].items
         /\ request'[c].next = request[c].next
<1> DEFINE scope == IF TenantWide THEN Null ELSE Reach
           at == [standing |-> standing, granted |-> granted, working |-> working]
           new == [request[c] EXCEPT !.phase = "reading", !.at = at, !.scope = scope]
<1>1. /\ request = [d \in Conn |-> request[d]]
      /\ Shaped(request[c])
  BY DEF DirectoryInv, RequestOK
<1>2. request' = [request EXCEPT ![c].phase = "reading", ![c].at = at, ![c].scope = scope]
  BY DEF Grants
<1> HIDE DEF scope, at
<1>3. request' = [request EXCEPT ![c] = new]
  BY <1>1, <1>2 DEF Shaped, Field
<1>4. /\ Shaped(new)
      /\ new.phase = "reading" /\ new.scope = scope /\ new.at = at /\ new.id = request[c].id
      /\ new.status = request[c].status /\ new.query = request[c].query
      /\ new.items = request[c].items /\ new.next = request[c].next
  BY <1>1 DEF Shaped, Field
<1> HIDE DEF new
<1>5. /\ request'[c] = new
      /\ request' = [d \in Conn |-> request'[d]]
      /\ \A d \in Conn \ {c} : request'[d] = request[d]
  BY <1>1, <1>3
<1> QED BY <1>4, <1>5 DEF scope, at

LEMMA DecideInv ==
  ASSUME DirectoryInv, NEW c \in Conn, Decide(c)
  PROVE  DirectoryInv'
<1>1. CASE Audit(c, "DENIED", 503, <<>>, Null) \/ Audit(c, "DENIED", 403, <<>>, Null)
  BY <1>1, AuditInv DEF Decide, bounds
<1>2. CASE (\E a \in Assignment : Eligible(a)) /\ Grants(c)
  <2> DEFINE scope == IF TenantWide THEN Null ELSE Reach
  <2>1. scope \in (SUBSET Unit) \cup {Null} /\ scope # {}
    <3>1. Null # {}
      BY DirectoryAssumption
    <3>2. CASE TenantWide
      BY <3>1, <3>2
    <3>3. CASE ~ TenantWide
      BY <1>2, <3>3, ScopeGiven
    <3> QED BY <3>2, <3>3
  <2>2. /\ request' = [d \in Conn |-> request'[d]]
        /\ \A d \in Conn \ {c} : request'[d] = request[d]
        /\ Shaped(request'[c])
        /\ request'[c].phase = "reading" /\ request'[c].scope = scope
        /\ request'[c].id = request[c].id /\ request'[c].status = request[c].status
    BY <1>2, GrantsResult
  <2> HIDE DEF scope
  <2>3. WorldOK' /\ UNCHANGED <<audit, month, started>> /\ request[c].phase = "deciding"
    BY DEF Decide, DirectoryInv, WorldOK, world, bounds
  <2>4. TrailOK' /\ \A d \in Conn \ {c} : RequestOK(d)'
    BY <2>2, <2>3, TrailKept DEF DirectoryInv, WorldOK
  <2>5. RequestOK(c)'
    <3>1. Rows(c)' = {}
      BY <2>2, <2>3 DEF Rows, DirectoryInv, RequestOK, audit
    <3>2. RequestOK(c)
      BY DEF DirectoryInv
    <3> QED BY <2>1, <2>2, <2>3, <3>1, <3>2 DEF RequestOK, RequestPhase
  <2>6. IdsDiffer'
    BY <2>2 DEF IdsDiffer, DirectoryInv
  <2> QED BY <2>2, <2>3, <2>4, <2>5, <2>6 DEF DirectoryInv
<1> QED BY <1>1, <1>2 DEF Decide, Grants

LEMMA ReadInv ==
  ASSUME DirectoryInv, NEW c \in Conn, Read(c) \/ ReadFails(c)
  PROVE  DirectoryInv'
<1>1. /\ request[c].phase \in {"deciding", "reading"}
      /\ UNCHANGED <<world, audit, started>>
  BY DEF Read, ReadFails, bounds
<1>2. CASE Audit(c, "DENIED", 503, <<>>, Null)
  BY <1>1, <1>2, AuditInv
<1>3. ASSUME NEW status \in {400, 403}, Audit(c, "DENIED", status, <<>>, Null) PROVE DirectoryInv'
  BY <1>1, <1>3, AuditInv
<1>4. ASSUME NEW query, NEW scope, ReadList(c, query, scope) PROVE DirectoryInv'
  BY <1>1, <1>4, AuditInv DEF ReadList
<1>5. ASSUME NEW query, NEW scope, ReadPerson(c, query, scope) PROVE DirectoryInv'
  <2> DEFINE found == Named(source, scope, query.legajo)
  <2>1. CASE Audit(c, "ALLOWED", 404, <<>>, Null)
    BY <1>1, <2>1, AuditInv
  <2>2. CASE Audit(c, "ALLOWED", 200, found, Null)
    <3> HIDE DEF found
    <3> QED BY <1>1, <2>2, AuditInv
  <2>3. CASE Audit(c, "DENIED", 409, <<>>, Null)
    BY <1>1, <2>3, AuditInv
  <2> QED BY <1>5, <2>1, <2>2, <2>3 DEF ReadPerson
<1> QED BY <1>2, <1>3, <1>4, <1>5 DEF Read, ReadFails, Refused

-----------------------------------------------------------------------------
(* The row.                                                                *)

(* The last row of a chain bears its length.                               *)
LEMMA LastBearsLength ==
  ASSUME NEW m, ChainOK(m), InMonth(m) # {}
  PROVE  /\ LastOf(m) \in InMonth(m)
         /\ LastOf(m).sequence = Cardinality(InMonth(m))
         /\ Cardinality(InMonth(m)) \in Nat \ {0}
<1> DEFINE rows == InMonth(m)
           n == Cardinality(rows)
<1>1. n \in Nat /\ n # 0
  BY FS_CardinalityType, FS_EmptySet DEF ChainOK
<1>2. \A e \in rows : e.sequence \in 1 .. n
  BY DEF ChainOK
<1>3. PICK e \in rows : e.sequence = n
  BY <1>1 DEF ChainOK
<1>4. \E x \in rows : \A d \in rows : d.sequence <= x.sequence
  BY <1>1, <1>2, <1>3
<1>5. LastOf(m) \in rows /\ \A d \in rows : d.sequence <= LastOf(m).sequence
  BY <1>4 DEF LastOf
<1> HIDE DEF rows, n
<1>6. LastOf(m).sequence = n
  BY <1>1, <1>2, <1>3, <1>5
<1> QED BY <1>1, <1>5, <1>6 DEF rows, n

LEMMA ChainInv ==
  ASSUME DirectoryInv, NEW c \in Conn, Chain(c)
  PROVE  DirectoryInv'
<1>1. /\ request = [d \in Conn |-> request[d]]
      /\ Shaped(request[c]) /\ RequestOK(c) /\ request[c].phase = "chaining"
  <2>1. request[c].phase = "chaining" /\ RequestOK(c) /\ request = [d \in Conn |-> request[d]]
    BY DEF DirectoryInv, Chain
  <2> QED BY <2>1 DEF RequestOK
<1>2. /\ request[c].event.month \in 1 .. month /\ month \in 1 .. MaxMonth
      /\ request[c].event.month \in 1 .. MaxMonth
  BY <1>1, DirectoryAssumption DEF DirectoryInv, RequestOK, WorldOK
<1>m. PICK m \in 1 .. MaxMonth : m = request[c].event.month
  BY <1>2
<1> DEFINE first == InMonth(m) = {}
           row == [month |-> m,
                   sequence |-> IF first THEN 1 ELSE LastOf(m).sequence + 1,
                   previous |-> IF first THEN 0 ELSE LastOf(m).id]
<1>e. PICK event : event = row
  OBVIOUS
<1> DEFINE new == [request[c] EXCEPT !.phase = "committing", !.event = event]
<1>3. /\ holder[m] = Null /\ holder' = [holder EXCEPT ![m] = c]
      /\ UNCHANGED <<standing, granted, working, source, month, log, started>>
      /\ request' = [request EXCEPT ![c] = new]
  <2>1. request' = [request EXCEPT ![c].phase = "committing", ![c].event = event]
    BY <1>m, <1>e DEF Chain
  <2>2. request' = [request EXCEPT ![c] = new]
    BY <1>1, <2>1 DEF Shaped, Field
  <2> QED BY <1>m, <2>2 DEF Chain, ChainFree, world, bounds
<1>4. event.month = m /\ event.sequence = Cardinality(InMonth(m)) + 1 /\ Follows(event, m)
  <2>1. ChainOK(m)
    BY <1>2 DEF DirectoryInv, TrailOK
  <2>2. CASE first
    <3>1. Cardinality(InMonth(m)) = 0
      BY <2>2, FS_EmptySet
    <3>2. event.month = m /\ event.sequence = 1 /\ event.previous = 0
      BY <1>e, <2>2
    <3> QED BY <3>1, <3>2 DEF Follows
  <2>3. CASE ~ first
    <3>1. /\ LastOf(m) \in InMonth(m) /\ LastOf(m).sequence = Cardinality(InMonth(m))
          /\ Cardinality(InMonth(m)) \in Nat \ {0}
      BY <2>1, <2>3, LastBearsLength
    <3>2. /\ event.month = m /\ event.sequence = LastOf(m).sequence + 1
          /\ event.previous = LastOf(m).id
      BY <1>e, <2>3
    <3> QED BY <3>1, <3>2 DEF Follows
  <2> QED BY <2>2, <2>3
<1>5. /\ Shaped(new)
      /\ new.phase = "committing" /\ new.event = event
      /\ new.id = request[c].id /\ new.scope = request[c].scope
      /\ new.status = request[c].status /\ new.outcome = request[c].outcome
      /\ new.items = request[c].items
  BY <1>1 DEF Shaped, Field
<1> HIDE DEF new
<1>6. /\ request' = [d \in Conn |-> request'[d]] /\ request'[c] = new
      /\ \A d \in Conn \ {c} : request'[d] = request[d]
  BY <1>1, <1>3
<1>7. TrailOK'
  <2>1. /\ holder' \in [1 .. MaxMonth -> Conn \cup {Null}]
        /\ holder'[m] = c /\ \A n \in 1 .. MaxMonth : n # m => holder'[n] = holder[n]
    BY <1>2, <1>3 DEF DirectoryInv, TrailOK
  <2>2. ASSUME NEW n \in 1 .. MaxMonth, holder'[n] # Null
        PROVE  request'[holder'[n]].phase \in {"committing", "left"} /\ request'[holder'[n]].event.month = n
    <3>1. CASE n = m
      BY <1>4, <1>5, <1>6, <2>1, <3>1
    <3>2. CASE n # m
      <4>1. holder[n] \in Conn \ {c}
        BY <1>1, <2>1, <2>2, <3>2 DEF DirectoryInv, TrailOK
      <4> QED BY <1>6, <2>1, <2>2, <3>2, <4>1 DEF DirectoryInv, TrailOK
    <3> QED BY <3>1, <3>2
  <2>3. \A n \in 1 .. MaxMonth : ChainOK(n)'
    BY <1>3, ChainKept DEF DirectoryInv, TrailOK
  <2> QED BY <1>3, <2>1, <2>2, <2>3 DEF DirectoryInv, TrailOK
<1>8. ASSUME NEW d \in Conn PROVE RequestOK(d)'
  <2>1. RequestOK(d)
    BY DEF DirectoryInv
  <2>2. Rows(d)' = Rows(d)
    BY <1>3, <1>5, <1>6 DEF Rows
  <2>3. CASE d = c
    <3>1. NextRow(c)'
      <4>1. holder'[m] = c
        BY <1>2, <1>3 DEF DirectoryInv, TrailOK
      <4>2. event.sequence = Cardinality(InMonth(m)') + 1 /\ Follows(event, m)'
        BY <1>3, <1>4, ChainKept
      <4>3. request'[c].event = event /\ event.month = m /\ m \in 1 .. month'
        BY <1>2, <1>m, <1>3, <1>4, <1>5, <1>6
      <4> QED BY <4>1, <4>2, <4>3 DEF NextRow
    <3>2. Verdict(c)'
      BY <1>1, <1>5, <1>6 DEF Verdict, RequestOK
    <3> QED BY <1>1, <1>3, <1>5, <1>6, <2>1, <2>2, <2>3, <3>1, <3>2 DEF RequestOK, RequestPhase
  <2>4. CASE d # c
    <3>1. request'[d] = request[d]
      BY <1>6, <2>4
    <3>2. NextRow(d) => NextRow(d)'
      <4> SUFFICES ASSUME NextRow(d) PROVE NextRow(d)'
        OBVIOUS
      <4>1. PICK n \in 1 .. MaxMonth : n = request[d].event.month /\ holder[n] = d /\ d # Null
        BY <1>2, DirectoryAssumption DEF NextRow
      <4>e. PICK row2 : row2 = request[d].event
        OBVIOUS
      <4>2. n # m /\ holder'[n] = d
        BY <1>3, <4>1 DEF DirectoryInv, TrailOK
      <4>3. InMonth(n)' = InMonth(n) /\ (Follows(row2, n) => Follows(row2, n)')
        BY <1>3, ChainKept
      <4>4. request'[d].event = row2 /\ row2.month = n /\ n \in 1 .. month'
        BY <1>3, <3>1, <4>1, <4>e DEF NextRow
      <4> QED BY <4>1, <4>e, <4>2, <4>3, <4>4 DEF NextRow
    <3>3. /\ (Verdict(d) => Verdict(d)') /\ (Recorded(d) => Recorded(d)')
          /\ RowOf(d, request[d].event) => RowOf(d, request[d].event)'
      BY <2>2, <3>1 DEF Verdict, Recorded, RowOf
    <3> QED BY <1>3, <2>1, <2>2, <3>1, <3>2, <3>3 DEF RequestOK
  <2> QED BY <2>3, <2>4
<1>9. WorldOK' /\ IdsDiffer'
  BY <1>3, <1>5, <1>6 DEF DirectoryInv, WorldOK, IdsDiffer
<1> QED BY <1>6, <1>7, <1>8, <1>9 DEF DirectoryInv

(* What a connection commits is the next row of its month's chain.         *)
LEMMA ChainGrows ==
  ASSUME DirectoryInv, NEW c \in Conn, NEW row, NextRow(c), RowOf(c, row),
         log' = log \cup {row}
  PROVE  \A m \in 1 .. MaxMonth :
           ChainOK(m)' /\ (m # request[c].event.month => InMonth(m)' = InMonth(m))
<1> SUFFICES ASSUME NEW m \in 1 .. MaxMonth
             PROVE  ChainOK(m)' /\ (m # request[c].event.month => InMonth(m)' = InMonth(m))
  OBVIOUS
<1>2. row.month = request[c].event.month /\ row.sequence = request[c].event.sequence
      /\ row.previous = request[c].event.previous
  BY DEF RowOf
<1>3. ChainOK(m) /\ NextRow(c)
  BY DEF DirectoryInv, TrailOK
<1>4. CASE m # request[c].event.month
  <2>1. InMonth(m)' = InMonth(m)
    BY <1>2, <1>4 DEF InMonth
  <2>2. ASSUME NEW e, Follows(e, m) PROVE Follows(e, m)'
    BY <2>1, <2>2 DEF Follows
  <2> QED BY <1>3, <2>1, <2>2 DEF ChainOK
<1>5. CASE m = request[c].event.month
  <2> DEFINE n == Cardinality(InMonth(m))
  <2>1. InMonth(m)' = InMonth(m) \cup {row}
    BY <1>2, <1>5 DEF InMonth
  <2>2. IsFiniteSet(InMonth(m)) /\ n \in Nat
    BY <1>3, FS_CardinalityType DEF ChainOK
  <2>3. row.sequence = n + 1
    BY <1>2, <1>3, <1>5 DEF NextRow
  <2>4. {e.sequence : e \in InMonth(m)} = 1 .. n
    BY <1>3 DEF ChainOK
  <2>5. row \notin InMonth(m)
    <3> HIDE DEF n
    <3>1. row \in InMonth(m) => row.sequence \in 1 .. n
      BY <2>4
    <3> QED BY <2>2, <2>3, <3>1
  <2>6. IsFiniteSet(InMonth(m)') /\ Cardinality(InMonth(m)') = n + 1
    BY <2>1, <2>2, <2>5, FS_AddElement
  <2>7. {e.sequence : e \in InMonth(m)'} = 1 .. (n + 1)
    <3>1. {e.sequence : e \in InMonth(m)'} = {e.sequence : e \in InMonth(m)} \cup {n + 1}
      BY <2>1, <2>3
    <3> HIDE DEF n
    <3> QED BY <2>2, <2>4, <3>1
  <2>8. ASSUME NEW e \in InMonth(m)' PROVE Follows(e, m)'
    <3>1. Follows(e, m)
      <4>1. CASE e \in InMonth(m)
        BY <1>3, <4>1 DEF ChainOK
      <4>2. CASE e = row
        BY <1>2, <1>3, <1>5, <4>2 DEF NextRow, Follows
      <4> QED BY <2>1, <4>1, <4>2
    <3> QED BY <2>1, <3>1 DEF Follows
  <2> HIDE DEF n
  <2> QED BY <1>5, <2>6, <2>7, <2>8 DEF ChainOK
<1> QED BY <1>4, <1>5

Released(c) == [m \in 1 .. MaxMonth |-> IF holder[m] = c THEN Null ELSE holder[m]]

(* A connection lets go of the chain, its row committed or not.            *)
LEMMA ReleasedInv ==
  ASSUME DirectoryInv, NEW c \in Conn, NEW row, UNCHANGED <<month, started>>,
         holder' = Released(c),
         request[c].phase \in {"chaining", "committing", "left"},
         request'[c].id = request[c].id,
         \A d \in Conn \ {c} : request'[d] = request[d],
         \/ UNCHANGED log
         \/ NextRow(c) /\ RowOf(c, row) /\ log' = log \cup {row}
  PROVE  /\ TrailOK'
         /\ \A d \in Conn \ {c} : RequestOK(d)'
         /\ Rows(c)' = IF log' = log THEN {} ELSE {row}
<1>1. Rows(c) = {} /\ request[c].id \in 1 .. started
  BY DEF DirectoryInv, RequestOK, WorldOK
<1>2. /\ holder' \in [1 .. MaxMonth -> Conn \cup {Null}]
      /\ \A m \in 1 .. MaxMonth : holder'[m] = IF holder[m] = c THEN Null ELSE holder[m]
  BY DEF Released, DirectoryInv, TrailOK
<1>5. TrailOK'
  <2>1. ASSUME NEW m \in 1 .. MaxMonth, holder'[m] # Null
        PROVE  request'[holder'[m]].phase \in {"committing", "left"} /\ request'[holder'[m]].event.month = m
    BY <1>2, <2>1 DEF DirectoryInv, TrailOK
  <2>2. ASSUME NEW e \in log'
        PROVE  e.month \in 1 .. month /\ e.outcome \in {"ALLOWED", "DENIED"} /\ e.id \in 1 .. started
    <3>1. CASE e \in log
      BY <3>1 DEF DirectoryInv, TrailOK
    <3>2. CASE e = row /\ NextRow(c) /\ RowOf(c, row)
      BY <1>1, <3>2 DEF NextRow, RowOf
    <3> QED BY <3>1, <3>2
  <2>3. ASSUME NEW m \in 1 .. MaxMonth PROVE ChainOK(m)'
    BY ChainKept, ChainGrows DEF DirectoryInv, TrailOK
  <2> QED BY <1>2, <2>1, <2>2, <2>3 DEF TrailOK
<1>6. ASSUME NEW d \in Conn \ {c} PROVE RequestOK(d)'
  <2>1. RequestOK(d) /\ request'[d] = request[d] /\ request[d].id # request[c].id
    BY <1>1 DEF DirectoryInv, IdsDiffer
  <2>2. Rows(d)' = Rows(d)
    BY <2>1 DEF Rows, RowOf
  <2>3. NextRow(d) => NextRow(d)'
    <3> SUFFICES ASSUME NextRow(d) PROVE NextRow(d)'
      OBVIOUS
    <3>1. PICK n \in 1 .. MaxMonth : n = request[d].event.month
      BY DirectoryAssumption DEF NextRow, DirectoryInv, WorldOK
    <3>2. PICK event : event = request[d].event
      OBVIOUS
    <3>3. holder[n] = d /\ holder'[n] = d /\ n \in 1 .. month'
      BY <1>2, <3>1 DEF NextRow
    <3>4. InMonth(n)' = InMonth(n)
      <4>1. CASE UNCHANGED log
        BY <4>1, ChainKept
      <4>2. CASE NextRow(c) /\ RowOf(c, row) /\ log' = log \cup {row}
        <5>1. n # request[c].event.month
          BY <3>3, <4>2 DEF NextRow
        <5> QED BY <4>2, <5>1, ChainGrows
      <4> QED BY <4>1, <4>2
    <3>5. Follows(event, n)'
      BY <3>1, <3>2, <3>4 DEF NextRow, Follows
    <3> QED BY <2>1, <3>1, <3>2, <3>3, <3>4, <3>5 DEF NextRow
  <2>4. /\ (Verdict(d) => Verdict(d)') /\ (Recorded(d) => Recorded(d)')
        /\ RowOf(d, request[d].event) => RowOf(d, request[d].event)'
    BY <2>1, <2>2 DEF Verdict, Recorded, RowOf
  <2> QED BY <2>1, <2>2, <2>3, <2>4 DEF RequestOK
<1>7. Rows(c)' = IF log' = log THEN {} ELSE {row}
  <2>1. CASE log' = log
    BY <1>1, <2>1 DEF Rows
  <2>2. CASE log' # log /\ log' = log \cup {row}
    BY <1>1, <2>2 DEF Rows, RowOf
  <2> QED BY <2>1, <2>2
<1> QED BY <1>5, <1>6, <1>7

LEMMA AppendedRow ==
  ASSUME NEW c \in Conn, Verdict(c)
  PROVE  RowOf(c, Appended(c))
BY DEF RowOf, Appended, Verdict

LEMMA CommitInv ==
  ASSUME DirectoryInv, NEW c \in Conn, CommitAudit(c)
  PROVE  DirectoryInv'
<1> DEFINE new == [request[c] EXCEPT !.phase = "answered", !.outcome = Null, !.next = Null, !.event = Null]
<1>1. /\ request = [d \in Conn |-> request[d]] /\ Shaped(request[c])
      /\ RequestOK(c) /\ Verdict(c) /\ NextRow(c) /\ request[c].phase = "committing"
  <2>1. request = [d \in Conn |-> request[d]] /\ RequestOK(c) /\ request[c].phase = "committing"
    BY DEF DirectoryInv, CommitAudit
  <2> QED BY <2>1 DEF RequestOK
<1>2. request' = [request EXCEPT ![c] = new]
  BY <1>1 DEF CommitAudit, Answered, Shaped, Field
<1>3. /\ Shaped(new) /\ new.phase = "answered" /\ new.id = request[c].id
      /\ new.scope = request[c].scope /\ new.status = request[c].status
      /\ new.items = request[c].items
  BY <1>1 DEF Shaped, Field
<1> HIDE DEF new
<1>4. /\ request' = [d \in Conn |-> request'[d]] /\ request'[c] = new
      /\ \A d \in Conn \ {c} : request'[d] = request[d]
  BY <1>1, <1>2
<1>5. /\ WorldOK' /\ UNCHANGED <<month, started>>
      /\ log' = log \cup {Appended(c)}
  BY DEF CommitAudit, DirectoryInv, WorldOK, world, bounds
<1>6. holder' = Released(c)
  <2>1. \A m \in 1 .. MaxMonth : holder[m] = c <=> m = request[c].event.month
    <3>1. c # Null /\ holder[request[c].event.month] = c
      BY <1>1, DirectoryAssumption DEF NextRow
    <3>2. ASSUME NEW m \in 1 .. MaxMonth, holder[m] = c PROVE m = request[c].event.month
      BY <3>1, <3>2 DEF DirectoryInv, TrailOK
    <3> QED BY <3>1, <3>2
  <2>2. holder' = [holder EXCEPT ![request[c].event.month] = Null]
    BY DEF CommitAudit
  <2> QED BY <2>1, <2>2 DEF Released, DirectoryInv, TrailOK
<1>7. /\ TrailOK' /\ \A d \in Conn \ {c} : RequestOK(d)'
      /\ Rows(c)' = IF log' = log THEN {} ELSE {Appended(c)}
  <2>1. RowOf(c, Appended(c))
    BY <1>1, AppendedRow
  <2> QED BY <1>1, <1>3, <1>4, <1>5, <1>6, <2>1, ReleasedInv
<1>8. RequestOK(c)'
  <2>1. PICK row : row = Appended(c)
    OBVIOUS
  <2>2. /\ row.id = request[c].id /\ row.outcome = request[c].outcome
        /\ row.scope = request[c].scope /\ row.count = Len(request[c].items)
    BY <2>1 DEF Appended
  <2>3. Rows(c)' = {row}
    <3>1. row \in log' /\ row \notin log
      BY <1>1, <1>5, <2>1, <2>2 DEF RequestOK, Rows
    <3> QED BY <1>7, <2>1, <3>1
  <2>4. Recorded(c)'
    BY <1>1, <1>3, <1>4, <2>2, <2>3 DEF Verdict, Recorded
  <2> QED BY <1>1, <1>3, <1>4, <1>5, <2>4 DEF RequestOK, RequestPhase
<1>9. IdsDiffer'
  BY <1>3, <1>4 DEF IdsDiffer, DirectoryInv
<1> QED BY <1>4, <1>5, <1>7, <1>8, <1>9 DEF DirectoryInv

(* What a 503 for want of the audit leaves in the request.                 *)
LEMMA UnavailableResult ==
  ASSUME DirectoryInv, NEW c \in Conn, NEW phase, NEW event, Unavailable(c, phase, event)
  PROVE  /\ request' = [d \in Conn |-> request'[d]]
         /\ \A d \in Conn \ {c} : request'[d] = request[d]
         /\ Shaped(request'[c]) /\ request'[c].phase = phase /\ request'[c].event = event
         /\ request'[c].id = request[c].id /\ request'[c].status = 503
         /\ request'[c].scope = Null /\ request'[c].items = <<>> /\ request'[c].next = Null
<1> DEFINE new == [NoRequest EXCEPT !.id = request[c].id, !.phase = phase, !.status = 503,
                                    !.event = event]
<1>1. request' = [request EXCEPT ![c] = new] /\ request = [d \in Conn |-> request[d]]
  BY DEF Unavailable, DirectoryInv
<1>2. /\ Shaped(NoRequest) /\ NoRequest.scope = Null
      /\ NoRequest.items = <<>> /\ NoRequest.next = Null
  BY DEF NoRequest, Shaped, Field
<1>3. /\ new.phase = phase /\ new.id = request[c].id /\ new.status = 503 /\ new.event = event
      /\ new.scope = Null /\ new.items = <<>> /\ new.next = Null
  BY <1>2 DEF Shaped, Field
<1>4. ASSUME NEW id, NEW status
      PROVE  Shaped([NoRequest EXCEPT !.id = id, !.phase = phase, !.status = status, !.event = event])
  BY <1>2 DEF Shaped, Field
<1>5. Shaped(new)
  BY <1>4
<1> HIDE DEF new
<1>6. /\ request' = [d \in Conn |-> request'[d]] /\ request'[c] = new
      /\ \A d \in Conn \ {c} : request'[d] = request[d]
  BY <1>1
<1> QED BY <1>3, <1>5, <1>6

(* The audit fails, or what was left of it ends.                           *)
LEMMA AppendEndsInv ==
  ASSUME DirectoryInv, NEW c \in Conn, AppendFails(c) \/ EndLeft(c)
  PROVE  DirectoryInv'
<1>1. /\ RequestOK(c) /\ request[c].phase \in {"chaining", "committing", "left"}
      /\ Unavailable(c, "answered", Null)
  BY DEF DirectoryInv, AppendFails, EndLeft
<1>2. /\ request' = [d \in Conn |-> request'[d]]
      /\ \A d \in Conn \ {c} : request'[d] = request[d]
      /\ Shaped(request'[c]) /\ request'[c].phase = "answered"
      /\ request'[c].id = request[c].id /\ request'[c].status = 503
      /\ request'[c].scope = Null /\ request'[c].items = <<>>
  BY <1>1, UnavailableResult
<1>3. PICK row : row = request[c].event
  OBVIOUS
<1>4. /\ WorldOK' /\ UNCHANGED <<month, started>>
      /\ \/ UNCHANGED log
         \/ NextRow(c) /\ RowOf(c, row) /\ log' = log \cup {row}
  <2>1. UNCHANGED <<world, started>>
    BY DEF AppendFails, EndLeft, bounds
  <2>2. \/ UNCHANGED log
        \/ NextRow(c) /\ RowOf(c, row) /\ log' = log \cup {row}
    BY <1>1, <1>3 DEF AppendFails, EndLeft, RequestOK
  <2> QED BY <2>1, <2>2 DEF DirectoryInv, WorldOK, world
<1>5. holder' = Released(c)
  BY DEF AppendFails, EndLeft, Released, DirectoryInv, TrailOK
<1>6. /\ TrailOK' /\ \A d \in Conn \ {c} : RequestOK(d)'
      /\ Rows(c)' = IF log' = log THEN {} ELSE {row}
  BY <1>1, <1>2, <1>4, <1>5, ReleasedInv
<1>7. RequestOK(c)'
  <2>1. Recorded(c)'
    BY <1>2, <1>6 DEF Recorded
  <2>2. Null # {}
    BY DirectoryAssumption
  <2>3. request[c].id \in 0 .. started /\ request[c].id # 0
    BY <1>1 DEF RequestOK
  <2> QED BY <1>2, <1>4, <2>1, <2>2, <2>3 DEF RequestOK, RequestPhase
<1>8. IdsDiffer'
  BY <1>2 DEF IdsDiffer, DirectoryInv
<1> QED BY <1>2, <1>4, <1>6, <1>7, <1>8 DEF DirectoryInv

(* A COMMIT nobody waits for any more.                                     *)
LEMMA LeaveAuditInv ==
  ASSUME DirectoryInv, NEW c \in Conn, LeaveAudit(c)
  PROVE  DirectoryInv'
<1>1. PICK row : row = Appended(c)
  OBVIOUS
<1>2. /\ RequestOK(c) /\ request[c].phase = "committing" /\ Verdict(c) /\ NextRow(c) /\ RowOf(c, row)
      /\ Unavailable(c, "left", row)
  BY <1>1, AppendedRow DEF DirectoryInv, LeaveAudit, RequestOK
<1>3. /\ request' = [d \in Conn |-> request'[d]]
      /\ \A d \in Conn \ {c} : request'[d] = request[d]
      /\ Shaped(request'[c]) /\ request'[c].phase = "left" /\ request'[c].event = row
      /\ request'[c].id = request[c].id /\ request'[c].status = 503
      /\ request'[c].scope = Null /\ request'[c].items = <<>>
  BY <1>2, UnavailableResult
<1>4. /\ WorldOK' /\ UNCHANGED <<month, started, audit, log, holder>>
  BY DEF LeaveAudit, DirectoryInv, WorldOK, world, audit
<1>5. row.month = request[c].event.month
  BY <1>2 DEF RowOf
<1>6. TrailOK' /\ \A d \in Conn \ {c} : RequestOK(d)'
  BY <1>3, <1>4, <1>5, TrailKept DEF DirectoryInv, WorldOK
<1>7. RequestOK(c)'
  <2>1. Rows(c)' = {} /\ Null # {}
    BY <1>2, <1>3, <1>4, DirectoryAssumption DEF RequestOK, Rows
  <2>2. NextRow(c)'
    <3>1. PICK n : n = request[c].event.month
      OBVIOUS
    <3>2. /\ n \in 1 .. month /\ holder[n] = c
          /\ row.sequence = Cardinality(InMonth(n)) + 1 /\ Follows(row, n)
      BY <1>2, <3>1 DEF NextRow, RowOf, Follows
    <3>3. row.sequence = Cardinality(InMonth(n)') + 1 /\ Follows(row, n)'
      BY <1>4, <3>2, ChainKept
    <3> QED BY <1>3, <1>4, <1>5, <3>1, <3>2, <3>3 DEF NextRow
  <2>3. RowOf(c, request[c].event)'
    BY <1>2, <1>3 DEF RowOf
  <2>4. request[c].id \in 0 .. started /\ request[c].id # 0
    BY <1>2 DEF RequestOK
  <2> QED BY <1>3, <1>4, <2>1, <2>2, <2>3, <2>4 DEF RequestOK, RequestPhase
<1>8. IdsDiffer'
  BY <1>3 DEF IdsDiffer, DirectoryInv
<1> QED BY <1>3, <1>4, <1>6, <1>7, <1>8 DEF DirectoryInv

-----------------------------------------------------------------------------
LEMMA DirectoryStepInv == DirectoryInv /\ [DirectoryNext]_directoryVars => DirectoryInv'
<1> SUFFICES ASSUME DirectoryInv, [DirectoryNext]_directoryVars PROVE DirectoryInv'
  OBVIOUS
<1>1. ASSUME NEW c \in Conn, NEW query \in Query, NEW staticAllowed \in BOOLEAN,
             Start(c, query, staticAllowed)
      PROVE  DirectoryInv'
  BY <1>1, StartInv
<1>2. ASSUME NEW c \in Conn, Decide(c) PROVE DirectoryInv'
  BY <1>2, DecideInv
<1>3. ASSUME NEW c \in Conn, Read(c) \/ ReadFails(c) PROVE DirectoryInv'
  BY <1>3, ReadInv
<1>4. ASSUME NEW c \in Conn, Chain(c) PROVE DirectoryInv'
  BY <1>4, ChainInv
<1>5. ASSUME NEW c \in Conn, CommitAudit(c) PROVE DirectoryInv'
  BY <1>5, CommitInv
<1>6. ASSUME NEW c \in Conn, AppendFails(c) \/ EndLeft(c) PROVE DirectoryInv'
  BY <1>6, AppendEndsInv
<1>7. ASSUME NEW c \in Conn, LeaveAudit(c) PROVE DirectoryInv'
  BY <1>7, LeaveAuditInv
<1>8. ASSUME NEW c \in Conn, NEW status \in RefusedAtOnce, Refuse(c, status) PROVE DirectoryInv'
  BY <1>8, RefuseInv
<1>9. CASE Change \/ EndMonth \/ UNCHANGED directoryVars
  BY <1>9, WorldInv
<1> QED BY <1>1, <1>2, <1>3, <1>4, <1>5, <1>6, <1>7, <1>8, <1>9 DEF DirectoryNext

LEMMA DirectoryAlwaysInv == DirectorySpec => []DirectoryInv
BY DirectoryInitInv, DirectoryStepInv, PTL DEF DirectorySpec

(* Types: the scope of a request is never empty, the lock of a month is    *)
(* with the one connection whose row is on its way into it.                *)
THEOREM DirectoryTypes == DirectorySpec => []DirectoryTypeOK
<1>1. ASSUME DirectoryInv PROVE DirectoryTypeOK
  <2>1. ASSUME NEW c \in Conn
        PROVE  /\ request[c].phase \in RequestPhase
               /\ request[c].scope \in (SUBSET Unit) \cup {Null}
               /\ request[c].scope # {}
               /\ request[c].status \in {0, 200, 400, 401, 403, 404, 409, 503}
               /\ request[c].phase \in {"committing", "left"} <=> \E m \in 1 .. MaxMonth : holder[m] = c
    <3>1. RequestOK(c) /\ c # Null /\ 1 .. month \subseteq 1 .. MaxMonth
      BY <1>1, DirectoryAssumption DEF DirectoryInv, WorldOK
    <3>2. request[c].phase \in {"committing", "left"} => \E m \in 1 .. MaxMonth : holder[m] = c
      BY <3>1 DEF RequestOK, NextRow
    <3>3. ASSUME NEW m \in 1 .. MaxMonth, holder[m] = c
          PROVE  request[c].phase \in {"committing", "left"}
      BY <1>1, <3>1, <3>3 DEF DirectoryInv, TrailOK
    <3> QED BY <3>1, <3>2, <3>3 DEF RequestOK
  <2> QED BY <1>1, <2>1 DEF DirectoryTypeOK, DirectoryInv, WorldOK, TrailOK
<1> QED BY <1>1, DirectoryAlwaysInv, PTL

(* Nobody's data, and no word on whether somebody is there, is answered    *)
(* without its committed audit row; a denial by the policy, the scope or   *)
(* the query has its row too; what the first checks turn away shows        *)
(* nothing and has none, and a 503 shows nothing and has at most one.      *)
THEOREM AnswersAreRecorded == DirectorySpec => []NothingUnrecorded
<1>1. ASSUME DirectoryInv, NEW c \in Conn, request[c].phase = "answered"
      PROVE  /\ request[c].status \in {200, 400, 403, 404, 409, 503}
             /\ request[c].status \in {200, 404} =>
                  \E e \in Rows(c) : Rows(c) = {e} /\ e.outcome = "ALLOWED"
                      /\ e.scope = request[c].scope /\ e.count = Len(request[c].items)
             /\ request[c].status \in {400, 403, 409} =>
                  \E e \in Rows(c) : Rows(c) = {e} /\ e.outcome = "DENIED"
             /\ request[c].status = 503 => request[c].items = <<>> /\ Cardinality(Rows(c)) <= 1
  <2>1. Recorded(c)
    BY <1>1 DEF DirectoryInv, RequestOK
  <2>2. Cardinality({}) <= 1
    BY FS_EmptySet
  <2>3. ASSUME NEW e PROVE Cardinality({e}) <= 1
    <3>1. Cardinality({e}) = 1
      BY FS_Singleton
    <3> QED BY <3>1
  <2>4. request[c].status = 503 => Cardinality(Rows(c)) <= 1
    BY <2>1, <2>2, <2>3 DEF Recorded
  <2> QED BY <2>1, <2>4 DEF Recorded
<1>2. ASSUME DirectoryInv, NEW c \in Conn, request[c].phase \in {"refused", "left"}
      PROVE  request[c].status \notin {200, 404} /\ request[c].items = <<>> /\ Rows(c) = {}
  BY <1>2 DEF DirectoryInv, RequestOK
<1>3. ASSUME DirectoryInv PROVE NothingUnrecorded
  <2> SUFFICES ASSUME NEW c \in Conn
               PROVE  LET r == request[c]
                          rows == Rows(c)
                      IN  /\ r.phase = "answered" =>
                               /\ r.status \in {200, 400, 403, 404, 409, 503}
                               /\ r.status \in {200, 404} =>
                                    \E e \in rows : rows = {e} /\ e.outcome = "ALLOWED"
                                        /\ e.scope = r.scope /\ e.count = Len(r.items)
                               /\ r.status \in {400, 403, 409} =>
                                    \E e \in rows : rows = {e} /\ e.outcome = "DENIED"
                               /\ r.status = 503 => r.items = <<>> /\ Cardinality(rows) <= 1
                          /\ r.phase \in {"refused", "left"} =>
                               r.status \notin {200, 404} /\ r.items = <<>> /\ rows = {}
    BY Zenon DEF NothingUnrecorded, Rows
  <2>1. CASE request[c].phase = "answered"
    BY <1>1, <1>3, <2>1
  <2>2. CASE request[c].phase # "answered"
    BY <1>2, <1>3, <2>2
  <2> QED BY <2>1, <2>2
<1> QED BY <1>3, DirectoryAlwaysInv, PTL

(* The rows of a month are one chain without gaps.                         *)
THEOREM ChainStaysWhole == DirectorySpec => []ChainIsWhole
<1>1. ASSUME DirectoryInv PROVE ChainIsWhole
  <2>1. ASSUME NEW m \in 1 .. month
        PROVE  LET rows == {e \in log : e.month = m}
               IN  /\ {e.sequence : e \in rows} = 1 .. Cardinality(rows)
                   /\ \A e \in rows :
                        IF e.sequence = 1 THEN e.previous = 0
                        ELSE \E d \in rows : d.sequence + 1 = e.sequence /\ d.id = e.previous
    <3>1. m \in 1 .. MaxMonth
      BY <1>1, DirectoryAssumption DEF DirectoryInv, WorldOK
    <3>2. ChainOK(m)
      BY <1>1, <3>1 DEF DirectoryInv, TrailOK
    <3> QED BY <3>2 DEF ChainOK, InMonth, Follows
  <2>2. ASSUME NEW c \in Conn, request[c].phase \in {"committing", "left"}, NEW e \in log,
               e.month = request[c].event.month
        PROVE  e.sequence # request[c].event.sequence
    <3> DEFINE m == request[c].event.month
    <3>1. NextRow(c)
      BY <1>1, <2>2 DEF DirectoryInv, RequestOK
    <3>2. m \in 1 .. MaxMonth
      BY <1>1, <3>1, DirectoryAssumption DEF DirectoryInv, WorldOK, NextRow
    <3>3. ChainOK(m)
      BY <1>1, <3>2 DEF DirectoryInv, TrailOK
    <3>4. e \in InMonth(m) /\ Cardinality(InMonth(m)) \in Nat
      BY <2>2, <3>3, FS_CardinalityType DEF InMonth, ChainOK
    <3>5. e.sequence \in 1 .. Cardinality(InMonth(m))
      BY <3>3, <3>4 DEF ChainOK
    <3> QED BY <3>1, <3>4, <3>5 DEF NextRow
  <2> QED BY <2>1, <2>2 DEF ChainIsWhole
<1> QED BY <1>1, DirectoryAlwaysInv, PTL
-----------------------------------------------------------------------------
(* Lists and pages.  The library's induction theorems take the induction   *)
(* hypothesis as an operator; that `first` of Selection exists and what it *)
(* holds is shown here by the least number it would fail at.               *)

(* A set of numbers that is not empty has a least one.                     *)
LEMMA LeastOf ==
  ASSUME NEW T \in SUBSET Nat, T # {}
  PROVE  \E n \in T : \A m \in T : n <= m
<1> DEFINE R == {ss \in Nat \X Nat : ss[1] < ss[2]}
<1>1. IsWellFoundedOn(R, Nat)
  <2>1. OpToRel(<, Nat) = R
    BY Zenon DEF OpToRel
  <2> QED BY <2>1, NatLessThanWellFounded, Zenon
<1>2. \E n \in T : \A m \in T : ~ (<<m, n>> \in R)
  BY <1>1, WFMin
<1>3. ASSUME NEW m \in Nat, NEW n \in Nat, m < n PROVE <<m, n>> \in R
  <2>1. <<m, n>> \in Nat \X Nat /\ <<m, n>>[1] = m /\ <<m, n>>[2] = n
    OBVIOUS
  <2> QED BY <1>3, <2>1, Zenon
<1> HIDE DEF R
<1>4. PICK n \in T : \A m \in T : ~ (<<m, n>> \in R)
  BY <1>2
<1>5. ASSUME NEW m \in T PROVE n <= m
  <2>1. m \in Nat /\ n \in Nat
    OBVIOUS
  <2>2. ~ (m < n)
    BY <1>3, <1>4, <2>1, Zenon
  <2> QED BY <2>1, <2>2
<1> QED BY <1>4, <1>5

\* the selection from the first n people, from that of one person fewer
SelectStep(people, chosen, first, n) ==
  IF n = 0 THEN <<>>
  ELSE IF people[n] \in chosen THEN Append(first[n - 1], people[n]) ELSE first[n - 1]

LEMMA SelectionExists ==
  ASSUME NEW S, NEW people \in Seq(S), NEW chosen
  PROVE  \E first : first = [n \in 0 .. Len(people) |-> SelectStep(people, chosen, first, n)]
<1> DEFINE Works(first, k) == first = [n \in 0 .. k |-> SelectStep(people, chosen, first, n)]
           fails == {k \in 0 .. Len(people) : ~ \E first : Works(first, k)}
<1> SUFFICES ASSUME fails # {} PROVE FALSE
  <2>1. Len(people) \in 0 .. Len(people)
    OBVIOUS
  <2> QED BY <2>1
<1>1. PICK k \in fails : \A m \in fails : k <= m
  <2>1. fails \in SUBSET Nat
    OBVIOUS
  <2> HIDE DEF fails
  <2> QED BY <2>1, LeastOf
<1>2. k \in 0 .. Len(people) /\ ~ \E first : Works(first, k)
  BY <1>1
<1>3. CASE k = 0
  <2> DEFINE first == [n \in 0 .. 0 |-> <<>>]
  <2>1. first = [n \in 0 .. 0 |-> SelectStep(people, chosen, first, n)]
    <3>1. \A n \in 0 .. 0 : SelectStep(people, chosen, first, n) = <<>>
      BY DEF SelectStep
    <3> QED BY <3>1
  <2> QED BY <1>2, <1>3, <2>1
<1>4. CASE k # 0
  <2>1. k - 1 \in 0 .. Len(people) /\ k - 1 \notin fails
    BY <1>1, <1>2, <1>4
  <2>2. PICK before : Works(before, k - 1)
    BY <2>1
  <2> DEFINE first == [n \in 0 .. k |-> SelectStep(people, chosen, before, n)]
  <2>3. \A n \in 0 .. k - 1 : before[n] = first[n]
    <3>1. ASSUME NEW n \in 0 .. k - 1 PROVE before[n] = SelectStep(people, chosen, before, n)
      BY <2>2
    <3>2. 0 .. k - 1 \subseteq 0 .. k
      BY <1>2
    <3> QED BY <3>1, <3>2
  <2>4. \A n \in 0 .. k : SelectStep(people, chosen, before, n) = SelectStep(people, chosen, first, n)
    <3> HIDE DEF first
    <3>1. \A n \in 0 .. k : n # 0 => n - 1 \in 0 .. k - 1
      BY <1>2
    <3> QED BY <2>3, <3>1 DEF SelectStep
  <2>5. Works(first, k)
    BY <2>4
  <2> QED BY <1>2, <2>5
<1> QED BY <1>3, <1>4

LEMMA SelectionSteps ==
  ASSUME NEW S, NEW people \in Seq(S), NEW chosen
  PROVE  \E first : /\ Selection(people, chosen) = first[Len(people)]
                    /\ \A n \in 0 .. Len(people) : first[n] = SelectStep(people, chosen, first, n)
<1> DEFINE first == CHOOSE f : f = [n \in 0 .. Len(people) |-> SelectStep(people, chosen, f, n)]
<1>1. Selection(people, chosen) = first[Len(people)]
  BY DEF Selection, SelectStep
<1>2. first = [n \in 0 .. Len(people) |-> SelectStep(people, chosen, first, n)]
  BY SelectionExists
<1> HIDE DEF first
<1>3. \A n \in 0 .. Len(people) : first[n] = SelectStep(people, chosen, first, n)
  BY <1>2
<1> QED BY <1>1, <1>3

\* the list holds, in their order, those of the first n people that are chosen, each
\* at the place of its own
InOrder(list, people, n, chosen) ==
  \E place \in [DOMAIN list -> 1 .. n] :
    /\ \A j \in DOMAIN list : list[j] = people[place[j]] /\ people[place[j]] \in chosen
    /\ \A j, k \in DOMAIN list : j < k => place[j] < place[k]
    /\ \A i \in 1 .. n : people[i] \in chosen => \E j \in DOMAIN list : place[j] = i

LEMMA OneMoreInOrder ==
  ASSUME NEW S, NEW people \in Seq(S), NEW chosen, NEW list \in Seq(chosen),
         NEW n \in 1 .. Len(people), InOrder(list, people, n - 1, chosen)
  PROVE  /\ people[n] \in chosen => InOrder(Append(list, people[n]), people, n, chosen)
         /\ people[n] \notin chosen => InOrder(list, people, n, chosen)
<1>1. PICK place \in [DOMAIN list -> 1 .. n - 1] :
        /\ \A j \in DOMAIN list : list[j] = people[place[j]] /\ people[place[j]] \in chosen
        /\ \A j, k \in DOMAIN list : j < k => place[j] < place[k]
        /\ \A i \in 1 .. n - 1 : people[i] \in chosen => \E j \in DOMAIN list : place[j] = i
  BY DEF InOrder
<1>2. /\ n \in Nat /\ n > 0 /\ 1 .. n - 1 \subseteq 1 .. n
      /\ \A i \in 1 .. n : i = n \/ i \in 1 .. n - 1
      /\ \A j \in DOMAIN list : place[j] \in 1 .. n - 1
  OBVIOUS
<1>3. CASE people[n] \notin chosen
  <2>1. place \in [DOMAIN list -> 1 .. n]
    BY <1>2
  <2>2. \A i \in 1 .. n : people[i] \in chosen => \E j \in DOMAIN list : place[j] = i
    BY <1>1, <1>2, <1>3
  <2> QED BY <1>1, <1>3, <2>1, <2>2 DEF InOrder
<1>4. CASE people[n] \in chosen
  <2>1. PICK longer : longer = Append(list, people[n])
    OBVIOUS
  <2>2. PICK k \in Nat : k = Len(list) + 1
    OBVIOUS
  <2>3. /\ DOMAIN list = 1 .. Len(list) /\ Len(list) \in Nat
        /\ DOMAIN longer = DOMAIN list \cup {k} /\ k \notin DOMAIN list
        /\ longer[k] = people[n] /\ \A j \in DOMAIN list : longer[j] = list[j] /\ j < k
    BY <2>1, <2>2
  <2> DEFINE further == [j \in DOMAIN longer |-> IF j = k THEN n ELSE place[j]]
  <2>4. /\ further[k] = n /\ \A j \in DOMAIN list : further[j] = place[j]
        /\ further \in [DOMAIN longer -> 1 .. n]
    BY <1>2, <2>3
  <2> HIDE DEF further
  <2>5. \A j \in DOMAIN longer : longer[j] = people[further[j]] /\ people[further[j]] \in chosen
    BY <1>1, <1>4, <2>3, <2>4
  <2>6. ASSUME NEW i \in DOMAIN longer, NEW j \in DOMAIN longer, i < j PROVE further[i] < further[j]
    <3>1. CASE j = k
      <4>1. i \in DOMAIN list
        BY <2>3, <2>6, <3>1
      <4> QED BY <1>2, <2>4, <3>1, <4>1
    <3>2. CASE j # k
      <4>1. i \in DOMAIN list /\ j \in DOMAIN list
        BY <2>3, <2>6, <3>2
      <4> QED BY <1>1, <2>4, <2>6, <4>1
    <3> QED BY <3>1, <3>2
  <2>7. ASSUME NEW i \in 1 .. n, people[i] \in chosen PROVE \E j \in DOMAIN longer : further[j] = i
    <3>1. CASE i = n
      BY <2>3, <2>4, <3>1
    <3>2. CASE i # n
      <4>1. PICK j \in DOMAIN list : place[j] = i
        BY <1>1, <1>2, <2>7, <3>2
      <4> QED BY <2>3, <2>4, <4>1
    <3> QED BY <3>1, <3>2
  <2>8. InOrder(longer, people, n, chosen)
    BY <2>4, <2>5, <2>6, <2>7 DEF InOrder
  <2> QED BY <1>4, <2>1, <2>8
<1> QED BY <1>3, <1>4

(* A selection is a list of the people it was to choose, all of them, each  *)
(* as often as it stands there, in their order.                            *)
LEMMA SelectionInOrder ==
  ASSUME NEW S, NEW people \in Seq(S), NEW chosen
  PROVE  /\ Selection(people, chosen) \in Seq(chosen)
         /\ InOrder(Selection(people, chosen), people, Len(people), chosen)
<1>1. PICK first : /\ Selection(people, chosen) = first[Len(people)]
                   /\ \A n \in 0 .. Len(people) : first[n] = SelectStep(people, chosen, first, n)
  BY SelectionSteps
<1> DEFINE Right(n) == first[n] \in Seq(chosen) /\ InOrder(first[n], people, n, chosen)
           fails == {n \in 0 .. Len(people) : ~ Right(n)}
<1>2. Len(people) \in 0 .. Len(people)
  OBVIOUS
<1> SUFFICES ASSUME fails # {} PROVE FALSE
  BY <1>1, <1>2
<1>3. PICK k \in fails : \A m \in fails : k <= m
  <2>1. fails \in SUBSET Nat
    OBVIOUS
  <2> HIDE DEF fails
  <2> QED BY <2>1, LeastOf
<1>4. k \in 0 .. Len(people) /\ ~ Right(k)
  BY <1>3
<1>5. CASE k = 0
  <2>1. first[k] = <<>>
    BY <1>1, <1>4, <1>5 DEF SelectStep
  <2>2. InOrder(<<>>, people, 0, chosen)
    <3>1. [j \in {} |-> 1] \in [DOMAIN <<>> -> 1 .. 0] /\ DOMAIN <<>> = {} /\ 1 .. 0 = {}
      OBVIOUS
    <3> QED BY <3>1 DEF InOrder
  <2> QED BY <1>4, <1>5, <2>1, <2>2
<1>6. CASE k # 0
  <2>1. k - 1 \in 0 .. Len(people) /\ k \in 1 .. Len(people) /\ k - 1 \notin fails
    BY <1>3, <1>4, <1>6
  <2>2. Right(k - 1)
    BY <2>1
  <2>3. first[k] = IF people[k] \in chosen THEN Append(first[k - 1], people[k]) ELSE first[k - 1]
    BY <1>1, <1>4, <1>6 DEF SelectStep
  <2>4. ASSUME NEW before \in Seq(chosen), NEW person \in chosen
        PROVE  Append(before, person) \in Seq(chosen)
    OBVIOUS
  <2>5. first[k] \in Seq(chosen)
    BY <2>2, <2>3, <2>4
  <2>6. InOrder(first[k], people, k, chosen)
    BY <2>1, <2>2, <2>3, OneMoreInOrder
  <2> QED BY <1>4, <2>5, <2>6
<1> QED BY <1>5, <1>6

(* Who is on a list is within its scope, and so is whoever a legajo names. *)
Sought(artifact, scope, organization) ==
  {person \in People(artifact, scope) : organization = Null \/ person.unit = organization}

LEMMA ListType ==
  ASSUME NEW artifact \in Artifact, NEW scope, NEW organization
  PROVE  /\ Listed(artifact, scope, organization) \in Seq(People(artifact, scope))
         /\ InOrder(Listed(artifact, scope, organization), artifact.people, Len(artifact.people),
                    Sought(artifact, scope, organization))
<1> DEFINE chosen == Sought(artifact, scope, organization)
<1>1. PICK S : artifact.people \in Seq(S)
  BY ArtifactAssumption
<1>2. /\ Listed(artifact, scope, organization) \in Seq(chosen)
      /\ InOrder(Listed(artifact, scope, organization), artifact.people, Len(artifact.people), chosen)
  BY <1>1, SelectionInOrder DEF Listed, Sought
<1>3. chosen \subseteq People(artifact, scope)
  BY DEF Sought
<1> QED BY <1>2, <1>3

LEMMA NamedType ==
  ASSUME NEW artifact \in Artifact, NEW scope, NEW legajo
  PROVE  Named(artifact, scope, legajo) \in Seq(People(artifact, scope))
<1> DEFINE chosen == {person \in People(artifact, scope) : person.legajo = legajo}
<1>1. PICK S : artifact.people \in Seq(S)
  BY ArtifactAssumption
<1>2. Named(artifact, scope, legajo) \in Seq(chosen)
  BY <1>1, SelectionInOrder DEF Named
<1>3. chosen \subseteq People(artifact, scope)
  OBVIOUS
<1> HIDE DEF chosen
<1> QED BY <1>2, <1>3

LEMMA PageType ==
  ASSUME NEW S, NEW list \in Seq(S), NEW offset \in Nat
  PROVE  Page(list, offset) \in Seq(S)
<1>1. Limit \in Nat /\ Len(list) \in Nat
  BY DirectoryAssumption
<1>2. PICK last \in 0 .. Len(list) : last = SmallerOf(offset + Limit, Len(list))
  BY <1>1 DEF SmallerOf
<1>3. \A i \in offset + 1 .. last : list[i] \in S
  BY <1>1
<1>4. SubSeq(list, offset + 1, last) \in Seq(S)
  BY <1>1, <1>3, SubSeqProperties
<1> QED BY <1>2, <1>4 DEF Page

(* A page continues the ones before it.                                    *)
LEMMA PageContinues ==
  ASSUME NEW S, NEW list \in Seq(S), NEW offset \in 0 .. Len(list)
  PROVE  SubSeq(list, 1, offset) \o Page(list, offset)
           = SubSeq(list, 1, SmallerOf(offset + Limit, Len(list)))
<1>1. Limit \in Nat /\ Len(list) \in Nat /\ offset \in Nat
  BY DirectoryAssumption
<1>2. PICK last \in offset .. Len(list) : last = SmallerOf(offset + Limit, Len(list))
  BY <1>1 DEF SmallerOf
<1>3. SubSeq(list, 1, offset) \o SubSeq(list, offset + 1, last) = SubSeq(list, 1, last)
  BY <1>1, ConcatAdjacentSubSeq
<1> QED BY <1>2, <1>3 DEF Page

-----------------------------------------------------------------------------
(* What is shown, and to the end of which list.                            *)

Covers(scope, unit) == scope = Null \/ unit \in scope

\* what a request holds was given by the facts its decision was taken on
HeldOK(c) ==
  LET r == request[c]
  IN  /\ r.phase \in {"deciding", "reading"} => r.items = <<>>
      /\ r.phase = "reading" => \A unit : Covers(r.scope, unit) => Gave(r.at, unit)
      /\ \A i \in DOMAIN r.items : Gave(r.at, r.items[i].unit)

ListOf(cursor) == Listed(cursor.from, cursor.scope, cursor.organization)

\* a cursor given out stands in its list, right after the pages seen before it
CursorOK(cursor) ==
  /\ cursor.offset \in Nat
  /\ cursor.from # Null =>
       /\ cursor.from \in Artifact
       /\ cursor.offset \in 0 .. Len(ListOf(cursor))
       /\ cursor.seen = SubSeq(ListOf(cursor), 1, cursor.offset)

WholeWalk(walk) == walk.from # Null => walk.from \in Artifact /\ walk.seen = ListOf(walk)

NextOK(next) == IF next.more THEN CursorOK(next.cursor) ELSE WholeWalk(next.cursor)

PagingOK(c) ==
  LET r == request[c]
  IN  /\ r.phase \in {"deciding", "reading"} => r.query.cursor \in cursors \cup {Null}
      /\ r.next # Null => NextOK(r.next)

ShownInv ==
  /\ \A c \in Conn : HeldOK(c) /\ PagingOK(c)
  /\ \A cursor \in cursors : CursorOK(cursor)
  /\ \A walk \in walks : WholeWalk(walk)

LEMMA ShownInitInv == DirectoryInit => ShownInv
BY DEF DirectoryInit, ShownInv, HeldOK, PagingOK, NoRequest

(* A step of one connection leaves what the others hold.                   *)
LEMMA OthersKeep ==
  ASSUME ShownInv, NEW c \in Conn, \A d \in Conn \ {c} : request'[d] = request[d],
         cursors \subseteq cursors',
         HeldOK(c)', PagingOK(c)',
         \A cursor \in cursors' : CursorOK(cursor),
         \A walk \in walks' : WholeWalk(walk)
  PROVE  ShownInv'
<1>1. ASSUME NEW d \in Conn PROVE HeldOK(d)' /\ PagingOK(d)'
  BY DEF ShownInv, HeldOK, PagingOK
<1> QED BY <1>1 DEF ShownInv

LEMMA StartShown ==
  ASSUME DirectoryInv, ShownInv, NEW c \in Conn, NEW query \in Query, NEW staticAllowed \in BOOLEAN,
         Start(c, query, staticAllowed)
  PROVE  ShownInv'
<1>1. UNCHANGED <<cursors, walks>>
  BY DEF Start
<1>2. query.cursor \in cursors \cup {Null}
  BY DEF Query
<1>3. /\ \A d \in Conn \ {c} : request'[d] = request[d]
      /\ request'[c].items = <<>> /\ request'[c].next = Null
      /\ \/ request'[c].phase = "deciding" /\ request'[c].query = query
         \/ request'[c].phase = "chaining"
  BY StartResult
<1>4. HeldOK(c)' /\ PagingOK(c)'
  BY <1>1, <1>2, <1>3 DEF HeldOK, PagingOK
<1> QED BY <1>1, <1>3, <1>4, OthersKeep DEF ShownInv

LEMMA RefuseShown ==
  ASSUME DirectoryInv, ShownInv, NEW c \in Conn, NEW status \in RefusedAtOnce, Refuse(c, status)
  PROVE  ShownInv'
<1>1. UNCHANGED <<cursors, walks>>
  BY DEF Refuse
<1>2. /\ \A d \in Conn \ {c} : request'[d] = request[d]
      /\ request'[c].phase = "refused" /\ request'[c].items = <<>> /\ request'[c].next = Null
  BY RefuseResult
<1>3. HeldOK(c)' /\ PagingOK(c)'
  BY <1>2 DEF HeldOK, PagingOK
<1> QED BY <1>1, <1>2, <1>3, OthersKeep DEF ShownInv

(* An empty answer.                                                        *)
LEMMA NothingShown ==
  ASSUME DirectoryInv, ShownInv, NEW c \in Conn, NEW outcome, NEW status,
         Audit(c, outcome, status, <<>>, Null), UNCHANGED <<cursors, walks>>
  PROVE  ShownInv'
<1>1. /\ \A d \in Conn \ {c} : request'[d] = request[d]
      /\ request'[c].phase = "chaining" /\ request'[c].items = <<>> /\ request'[c].next = Null
  BY AuditResult
<1>2. HeldOK(c)' /\ PagingOK(c)'
  BY <1>1 DEF HeldOK, PagingOK
<1> QED BY <1>1, <1>2, OthersKeep DEF ShownInv

(* The scope a decision gives covers what the assignments gave.            *)
LEMMA ScopeIsGiven ==
  ASSUME DirectoryInv, standing, NEW unit, Covers(IF TenantWide THEN Null ELSE Reach, unit)
  PROVE  Gave([standing |-> standing, granted |-> granted, working |-> working], unit)
<1>1. PICK at : at = [standing |-> standing, granted |-> granted, working |-> working]
  OBVIOUS
<1>2. at.standing = standing /\ at.granted = granted /\ at.working = working
  BY <1>1
<1>3. CASE TenantWide
  BY <1>1, <1>2, <1>3 DEF TenantWide, Eligible, Gave
<1>4. CASE ~ TenantWide
  <2>1. Reach \subseteq Unit
    <3>1. ASSUME NEW b \in Assignment PROVE CodesOf(b) \subseteq Unit
      BY DirectoryAssumption DEF CodesOf, DirectoryInv, WorldOK
    <3> QED BY <3>1 DEF Reach
  <2>2. unit \in Reach
    BY <1>4, <2>1, DirectoryAssumption DEF Covers
  <2>3. PICK a \in Assignment : Eligible(a) /\ unit \in CodesOf(a)
    BY <2>2 DEF Reach
  <2>4. /\ a \in granted
        /\ \/ ScopeOf[a].kind = "TENANT"
           \/ ScopeOf[a].kind = "ORG_UNIT" /\ ScopeOf[a].unit = unit /\ unit \in working
           \/ /\ ScopeOf[a].kind = "ORG_SUBTREE"
              /\ unit \in Below[ScopeOf[a].unit] \cap working
              /\ ScopeOf[a].unit \in working
    BY <2>3, DirectoryAssumption DEF Eligible, CodesOf
  <2> QED BY <1>1, <1>2, <2>4 DEF Gave
<1> QED BY <1>3, <1>4

LEMMA DecideShown ==
  ASSUME DirectoryInv, ShownInv, NEW c \in Conn, Decide(c)
  PROVE  ShownInv'
<1>1. UNCHANGED <<cursors, walks>> /\ request[c].phase = "deciding"
  BY DEF Decide
<1>2. CASE Audit(c, "DENIED", 503, <<>>, Null) \/ Audit(c, "DENIED", 403, <<>>, Null)
  BY <1>1, <1>2, NothingShown
<1>3. CASE standing /\ Grants(c)
  <2> DEFINE scope == IF TenantWide THEN Null ELSE Reach
             at == [standing |-> standing, granted |-> granted, working |-> working]
  <2>1. /\ \A d \in Conn \ {c} : request'[d] = request[d]
        /\ request'[c].phase = "reading" /\ request'[c].scope = scope /\ request'[c].at = at
        /\ request'[c].query = request[c].query /\ request'[c].items = request[c].items
        /\ request'[c].next = request[c].next
    BY <1>3, GrantsResult
  <2>2. \A unit : Covers(scope, unit) => Gave(at, unit)
    BY <1>3, ScopeIsGiven
  <2>3. HeldOK(c) /\ PagingOK(c)
    BY DEF ShownInv
  <2> HIDE DEF scope, at
  <2>4. HeldOK(c)' /\ PagingOK(c)'
    BY <1>1, <2>1, <2>2, <2>3 DEF HeldOK, PagingOK
  <2> QED BY <1>1, <2>1, <2>4, OthersKeep DEF ShownInv
<1> QED BY <1>2, <1>3 DEF Decide, Grants

(* What is read within the scope was given.                                *)
LEMMA ReadWasGiven ==
  ASSUME ShownInv, NEW c \in Conn, request[c].phase = "reading",
         NEW items \in Seq(People(source, request[c].scope))
  PROVE  \A i \in DOMAIN items : Gave(request[c].at, items[i].unit)
<1>1. ASSUME NEW i \in DOMAIN items PROVE Covers(request[c].scope, items[i].unit)
  <2>1. items[i] \in People(source, request[c].scope)
    OBVIOUS
  <2> QED BY <2>1 DEF People, Within, Covers
<1> QED BY <1>1 DEF ShownInv, HeldOK

LEMMA ReadPersonShown ==
  ASSUME DirectoryInv, ShownInv, NEW c \in Conn, request[c].phase = "reading",
         NEW query, ReadPerson(c, query, request[c].scope), UNCHANGED <<cursors, walks>>
  PROVE  ShownInv'
<1> DEFINE found == Named(source, request[c].scope, query.legajo)
<1>1. CASE Audit(c, "ALLOWED", 404, <<>>, Null) \/ Audit(c, "DENIED", 409, <<>>, Null)
  BY <1>1, NothingShown
<1>2. CASE Len(found) = 1 /\ Audit(c, "ALLOWED", 200, found, Null)
  <2>1. found \in Seq(People(source, request[c].scope))
    BY NamedType DEF DirectoryInv, WorldOK
  <2> HIDE DEF found
  <2>2. \A i \in DOMAIN found : Gave(request[c].at, found[i].unit)
    BY <2>1, ReadWasGiven
  <2>3. /\ \A d \in Conn \ {c} : request'[d] = request[d]
        /\ request'[c].phase = "chaining" /\ request'[c].items = found /\ request'[c].next = Null
        /\ request'[c].at = IF found = <<>> THEN Null ELSE request[c].at
    BY <1>2, AuditResult
  <2>4. PagingOK(c)'
    BY <2>3 DEF PagingOK
  <2>5. found # <<>>
    BY <1>2
  <2>6. HeldOK(c)'
    BY <2>2, <2>3, <2>5 DEF HeldOK
  <2> QED BY <2>3, <2>4, <2>6, OthersKeep DEF ShownInv
<1> QED BY <1>1, <1>2 DEF ReadPerson

LEMMA ReadListShown ==
  ASSUME DirectoryInv, ShownInv, NEW c \in Conn, request[c].phase = "reading",
         NEW query, query = request[c].query,
         query.cursor # Null => Fingerprint(query.cursor, request[c].scope, query.organization),
         ReadList(c, query, request[c].scope), UNCHANGED <<cursors, walks>>
  PROVE  ShownInv'
<1> DEFINE scope == request[c].scope
           list == Listed(source, scope, query.organization)
           offset == IF query.cursor = Null THEN 0 ELSE query.cursor.offset
           page == Page(list, offset)
           seen == IF query.cursor = Null THEN page ELSE query.cursor.seen \o page
           from == IF query.cursor = Null \/ query.cursor.from = source THEN source ELSE Null
           cursor == Cursor(offset + Limit, scope, query.organization, seen, from)
           next == [more |-> offset + Limit < Len(list), cursor |-> cursor]
<1>1. source \in Artifact /\ list \in Seq(People(source, scope)) /\ Limit \in Nat
  BY ListType, DirectoryAssumption DEF DirectoryInv, WorldOK
<1>2. query.cursor \in cursors \cup {Null}
  BY DEF ShownInv, PagingOK
<1>3. ASSUME from # Null
      PROVE  /\ from = source /\ offset \in 0 .. Len(list)
             /\ seen = SubSeq(list, 1, SmallerOf(offset + Limit, Len(list)))
  <2>1. from = source
    BY <1>3
  <2>2. CASE query.cursor = Null
    <3>1. offset = 0 /\ seen = page
      BY <2>2
    <3>2. SubSeq(list, 1, 0) = <<>> /\ Len(list) \in Nat
      BY <1>1, SubSeqEmpty
    <3> HIDE DEF list, offset, seen
    <3>3. page \in Seq(People(source, scope))
      BY <1>1, <3>1, PageType
    <3>4. offset \in 0 .. Len(list)
      BY <3>1, <3>2
    <3>5. SubSeq(list, 1, offset) \o page = SubSeq(list, 1, SmallerOf(offset + Limit, Len(list)))
      BY <1>1, <3>4, PageContinues
    <3>6. SubSeq(list, 1, offset) = <<>>
      BY <3>1, <3>2
    <3> HIDE DEF page
    <3>7. <<>> \o page = page
      BY <3>3
    <3>8. seen = SubSeq(list, 1, SmallerOf(offset + Limit, Len(list)))
      BY <3>1, <3>5, <3>6, <3>7
    <3> QED BY <2>1, <3>4, <3>8
  <2>3. CASE query.cursor # Null
    <3>1. query.cursor.from = source /\ source # Null /\ CursorOK(query.cursor)
      BY <1>2, <1>3, <2>3 DEF ShownInv
    <3>2. ListOf(query.cursor) = list
      BY <2>3, <3>1 DEF ListOf, Fingerprint
    <3>3. offset = query.cursor.offset /\ seen = query.cursor.seen \o page
      BY <2>3
    <3> HIDE DEF list
    <3>4. offset \in 0 .. Len(list) /\ query.cursor.seen = SubSeq(list, 1, offset)
      BY <3>1, <3>2, <3>3 DEF CursorOK
    <3> HIDE DEF offset
    <3>5. SubSeq(list, 1, offset) \o page = SubSeq(list, 1, SmallerOf(offset + Limit, Len(list)))
      BY <1>1, <3>4, PageContinues
    <3> QED BY <2>1, <3>3, <3>4, <3>5
  <2> QED BY <2>2, <2>3
<1>4. offset \in Nat
  BY <1>2 DEF ShownInv, CursorOK
<1>5. NextOK(next)
  <2>1. /\ cursor.from = from /\ cursor.seen = seen /\ cursor.offset = offset + Limit
        /\ cursor.scope = scope /\ cursor.organization = query.organization
    BY DEF Cursor
  <2>2. next.cursor = cursor /\ (next.more <=> offset + Limit < Len(list))
    OBVIOUS
  <2> HIDE DEF cursor, next, seen, from, offset
  <2>3. ASSUME from # Null PROVE ListOf(cursor) = list
    BY <1>3, <2>1, <2>3 DEF ListOf
  <2> HIDE DEF list
  <2>4. Len(list) \in Nat
    BY <1>1
  <2>5. ASSUME from # Null, next.more PROVE CursorOK(cursor)
    BY <1>1, <1>3, <1>4, <2>1, <2>2, <2>3, <2>4, <2>5 DEF CursorOK, SmallerOf
  <2>6. ASSUME from # Null, ~ next.more PROVE WholeWalk(cursor)
    <3>1. SmallerOf(offset + Limit, Len(list)) = Len(list)
      BY <1>1, <1>4, <2>2, <2>4, <2>6 DEF SmallerOf
    <3>2. seen = list
      BY <1>1, <1>3, <2>6, <3>1, SubSeqFull
    <3> QED BY <1>1, <1>3, <2>1, <2>3, <2>6, <3>2 DEF WholeWalk
  <2> QED BY <1>1, <1>4, <2>1, <2>2, <2>5, <2>6 DEF NextOK, CursorOK, WholeWalk
<1>6. Audit(c, "ALLOWED", 200, page, next)
  BY Zenon DEF ReadList
<1>7. page \in Seq(People(source, scope))
  <2> HIDE DEF list, offset
  <2> QED BY <1>1, <1>4, PageType
<1> HIDE DEF page, next
<1>8. \A i \in DOMAIN page : Gave(request[c].at, page[i].unit)
  BY <1>7, ReadWasGiven
<1>9. /\ \A d \in Conn \ {c} : request'[d] = request[d]
      /\ request'[c].phase = "chaining" /\ request'[c].items = page /\ request'[c].next = next
      /\ request'[c].at = IF page = <<>> THEN Null ELSE request[c].at
  BY <1>6, AuditResult
<1>10. PagingOK(c)'
  BY <1>5, <1>9 DEF PagingOK
<1>11. HeldOK(c)'
  <2>1. CASE page = <<>>
    BY <1>9, <2>1 DEF HeldOK
  <2>2. CASE page # <<>>
    BY <1>8, <1>9, <2>2 DEF HeldOK
  <2> QED BY <2>1, <2>2
<1> QED BY <1>9, <1>10, <1>11, OthersKeep DEF ShownInv

LEMMA ReadShown ==
  ASSUME DirectoryInv, ShownInv, NEW c \in Conn, Read(c) \/ ReadFails(c)
  PROVE  ShownInv'
<1>1. UNCHANGED <<cursors, walks>>
  BY DEF Read, ReadFails
<1> DEFINE query == request[c].query
           scope == request[c].scope
<1>2. CASE \E status : Audit(c, "DENIED", status, <<>>, Null)
  BY <1>1, <1>2, NothingShown
<1>3. CASE /\ request[c].phase = "reading" /\ Refused(query, scope) = 0
           /\ ReadList(c, query, scope)
  <2>1. query.cursor # Null => Fingerprint(query.cursor, scope, query.organization)
    BY <1>3 DEF Refused
  <2> QED BY <1>1, <1>3, <2>1, ReadListShown
<1>4. CASE request[c].phase = "reading" /\ ReadPerson(c, query, scope)
  BY <1>1, <1>4, ReadPersonShown
<1> QED BY <1>2, <1>3, <1>4 DEF Read, ReadFails

-----------------------------------------------------------------------------
(* The answer.                                                             *)

LEMMA ChainShown ==
  ASSUME DirectoryInv, ShownInv, NEW c \in Conn, Chain(c)
  PROVE  ShownInv'
<1>1. request[c].phase = "chaining" /\ UNCHANGED <<cursors, walks>>
  BY DEF Chain
<1>2. PICK event : request' = [request EXCEPT ![c].phase = "committing", ![c].event = event]
  BY DEF Chain
<1>3. /\ request = [d \in Conn |-> request[d]] /\ Shaped(request[c])
      /\ HeldOK(c) /\ PagingOK(c)
  BY DEF DirectoryInv, RequestOK, ShownInv
<1>4. /\ \A d \in Conn \ {c} : request'[d] = request[d]
      /\ request'[c].phase = "committing" /\ request'[c].items = request[c].items
      /\ request'[c].next = request[c].next /\ request'[c].at = request[c].at
  BY <1>2, <1>3 DEF Shaped, Field
<1>5. HeldOK(c)' /\ PagingOK(c)'
  BY <1>1, <1>3, <1>4 DEF HeldOK, PagingOK
<1> QED BY <1>1, <1>4, <1>5, OthersKeep DEF ShownInv

LEMMA AnsweredShown ==
  ASSUME DirectoryInv, ShownInv, NEW c \in Conn, Answered(c)
  PROVE  ShownInv'
<1>1. /\ request = [d \in Conn |-> request[d]] /\ Shaped(request[c])
      /\ HeldOK(c) /\ PagingOK(c)
  BY DEF DirectoryInv, RequestOK, ShownInv
<1>2. request' = [request EXCEPT ![c].phase = "answered", ![c].outcome = Null,
                                ![c].next = Null, ![c].event = Null]
  BY DEF Answered
<1>3. /\ \A d \in Conn \ {c} : request'[d] = request[d]
      /\ request'[c].phase = "answered" /\ request'[c].items = request[c].items
      /\ request'[c].next = Null /\ request'[c].at = request[c].at
  BY <1>1, <1>2 DEF Shaped, Field
<1>4. HeldOK(c)' /\ PagingOK(c)'
  BY <1>1, <1>3 DEF HeldOK, PagingOK
<1> DEFINE next == request[c].next
<1>5. /\ \/ UNCHANGED cursors
         \/ next # Null /\ next.more /\ cursors' = cursors \cup {next.cursor}
      /\ \/ UNCHANGED walks
         \/ next # Null /\ ~ next.more /\ walks' = walks \cup {next.cursor}
  BY DEF Answered
<1>6. next # Null => NextOK(next)
  BY <1>1 DEF PagingOK
<1>7. /\ cursors \subseteq cursors'
      /\ \A cursor \in cursors' : CursorOK(cursor)
      /\ \A walk \in walks' : WholeWalk(walk)
  BY <1>5, <1>6 DEF NextOK, ShownInv
<1> QED BY <1>3, <1>4, <1>7, OthersKeep

LEMMA UnavailableShown ==
  ASSUME DirectoryInv, ShownInv, NEW c \in Conn, NEW phase \in {"left", "answered"}, NEW event,
         Unavailable(c, phase, event)
  PROVE  ShownInv'
<1>1. UNCHANGED <<cursors, walks>>
  BY DEF Unavailable
<1>2. /\ \A d \in Conn \ {c} : request'[d] = request[d]
      /\ request'[c].phase = phase /\ request'[c].items = <<>> /\ request'[c].next = Null
  BY UnavailableResult
<1>3. HeldOK(c)' /\ PagingOK(c)'
  BY <1>2 DEF HeldOK, PagingOK
<1> QED BY <1>1, <1>2, <1>3, OthersKeep DEF ShownInv

LEMMA ShownStepInv ==
  DirectoryInv /\ ShownInv /\ [DirectoryNext]_directoryVars => ShownInv'
<1> SUFFICES ASSUME DirectoryInv, ShownInv, [DirectoryNext]_directoryVars PROVE ShownInv'
  OBVIOUS
<1>1. ASSUME NEW c \in Conn, NEW query \in Query, NEW staticAllowed \in BOOLEAN,
             Start(c, query, staticAllowed)
      PROVE  ShownInv'
  BY <1>1, StartShown
<1>2. ASSUME NEW c \in Conn, Decide(c) PROVE ShownInv'
  BY <1>2, DecideShown
<1>3. ASSUME NEW c \in Conn, Read(c) \/ ReadFails(c) PROVE ShownInv'
  BY <1>3, ReadShown
<1>4. ASSUME NEW c \in Conn, Chain(c) PROVE ShownInv'
  BY <1>4, ChainShown
<1>5. ASSUME NEW c \in Conn, CommitAudit(c) PROVE ShownInv'
  BY <1>5, AnsweredShown DEF CommitAudit
<1>6. ASSUME NEW c \in Conn, AppendFails(c) \/ LeaveAudit(c) \/ EndLeft(c) PROVE ShownInv'
  BY <1>6, UnavailableShown DEF AppendFails, LeaveAudit, EndLeft
<1>8. ASSUME NEW c \in Conn, NEW status \in RefusedAtOnce, Refuse(c, status) PROVE ShownInv'
  BY <1>8, RefuseShown
<1>7. CASE Change \/ EndMonth \/ UNCHANGED directoryVars
  <2>1. UNCHANGED <<request, cursors, walks>>
    BY <1>7 DEF Change, EndMonth, directoryVars
  <2> QED BY <2>1 DEF ShownInv, HeldOK, PagingOK
<1> QED BY <1>1, <1>2, <1>3, <1>4, <1>5, <1>6, <1>7, <1>8 DEF DirectoryNext

LEMMA ShownAlwaysInv == DirectorySpec => []ShownInv
BY ShownInitInv, ShownStepInv, DirectoryAlwaysInv, PTL DEF DirectorySpec

(* Whoever is shown belongs to a unit that the assignments gave, all at    *)
(* one moment between the request and its answer.                          *)
THEOREM ShownWasHeld == DirectorySpec => []WithinWhatWasHeld
<1>1. ShownInv => WithinWhatWasHeld
  BY DEF ShownInv, HeldOK, WithinWhatWasHeld
<1> QED BY <1>1, ShownAlwaysInv, PTL

(* Whoever follows the cursors to the last page over one directory has seen *)
(* its list, whole and in order.                                           *)
THEOREM WalksAreWhole == DirectorySpec => []WalkShowsTheList
<1>1. ShownInv => WalkShowsTheList
  BY DEF ShownInv, WholeWalk, ListOf, WalkShowsTheList
<1> QED BY <1>1, ShownAlwaysInv, PTL

\* who was seen is whom the scope and the filter leave of the directory, person by person
MissesNobody ==
  \A w \in walks : w.from # Null =>
    InOrder(w.seen, w.from.people, Len(w.from.people), Sought(w.from, w.scope, w.organization))

(* And that list holds every person of the directory within the scope and  *)
(* under the filter, each exactly once, in the directory's order.          *)
THEOREM WalksMissNobody == DirectorySpec => []MissesNobody
<1>1. ShownInv => MissesNobody
  BY ListType DEF ShownInv, WholeWalk, ListOf, MissesNobody
<1> QED BY <1>1, ShownAlwaysInv, PTL
=============================================================================
