--------------------------- MODULE DirectoryAccess ---------------------------
(***************************************************************************)
(* GET /api/grh-directory in mode intersect, by one user with several      *)
(* requests under way: authorizeGrhDirectoryRequest loads the user's       *)
(* assignments in one snapshot of the database, readGrhDirectory reads a   *)
(* page or one person within the scope they give, and the attempt is       *)
(* appended to the month's hash chain of security_audit_events before any  *)
(* of it is answered.  What the first checks turn away (the published      *)
(* demo, a session without the capability, no purpose, no configuration)   *)
(* is answered at once and never audited.  Meanwhile the user is           *)
(* suspended, assignments are granted and revoked, org units retired, the  *)
(* directory is published again, the month ends, statements fail, and a    *)
(* COMMIT that nobody waits for any more takes effect or not.  A person is *)
(* asked for by legajo, never with a company.                              *)
(***************************************************************************)
EXTENDS Naturals, Sequences, FiniteSets

CONSTANTS
  Conn,           \* connections of the user, one request at a time each
  Unit,           \* codes of org units
  Below,          \* by unit: it and its descendants, auth_org_unit_closure
  Assignment,     \* ids of the user's assignments
  ScopeOf,        \* theirs: [kind, unit], unit Null when kind is TENANT
  Artifact,       \* publishable directories: [sha, people], people in the order of
                  \* the list, each [name, legajo, unit]
  ConfiguredSha,  \* GRH_SOURCE_SHA256, Null when it is not set
  Filter,         \* organizations asked for, Null for all
  Limit,          \* people per page
  MaxRequests, MaxChanges, MaxFaults, MaxMonth,  \* bounds
  Null

ASSUME DirectoryAssumption ==
  /\ Below \in [Unit -> SUBSET Unit]
  /\ \A u \in Unit : u \in Below[u]
  /\ ScopeOf \in [Assignment -> [kind : {"TENANT", "ORG_UNIT", "ORG_SUBTREE"}, unit : Unit \cup {Null}]]
  /\ \A a \in Assignment : ScopeOf[a].kind = "TENANT" <=> ScopeOf[a].unit = Null
  /\ Filter \subseteq Unit \cup {Null}
  /\ {Limit, MaxMonth} \subseteq Nat \ {0}
  /\ Null \notin Conn \cup Unit
  /\ \A units \in SUBSET Unit : units # Null

\* the rows of a published directory are a list
ASSUME ArtifactAssumption ==
  \A artifact \in Artifact : artifact.people \in Seq({artifact.people[i] : i \in DOMAIN artifact.people})

VARIABLES
  standing,  \* the user and the tenant are active, as auth_user_security_states has it
  granted,   \* the assignments that are active, in their window, under an active policy and role
  working,   \* the org units that are active
  source,    \* the published directory
  month,
  log,       \* committed rows of security_audit_events
  holder,    \* by month: the connection holding its chain's advisory lock
  request,   \* by connection: the request under way or last answered
  cursors,   \* the nextCursors the user was given
  walks,     \* history: lists the user went through to the end, page by page
  started, changes, faults

audit == <<log, holder>>
world == <<standing, granted, working, source, month>>
bounds == <<started, changes, faults>>
directoryVars == <<world, audit, request, cursors, walks, bounds>>

\* `at`, history: what was granted, and to whom, when the facts were loaded
NoRequest == [id |-> 0, phase |-> "idle", query |-> Null, at |-> Null, scope |-> Null,
         outcome |-> Null, status |-> 0, items |-> <<>>, next |-> Null, event |-> Null]

\* a cursor holds its offset and, hashed, the scope and filter of its list; `seen` and
\* `from` are history: the pages before it and the directory all of them came from
Cursor(offset, scope, organization, seen, from) ==
  [offset |-> offset, scope |-> scope, organization |-> organization, seen |-> seen, from |-> from]

DirectoryInit ==
  /\ standing = TRUE
  /\ granted \in SUBSET Assignment
  /\ working = Unit
  /\ source \in Artifact
  /\ month = 1
  /\ log = {}
  /\ holder = [m \in 1 .. MaxMonth |-> Null]
  /\ request = [c \in Conn |-> NoRequest]
  /\ cursors = {}
  /\ walks = {}
  /\ started = 0 /\ changes = 0 /\ faults = 0

-----------------------------------------------------------------------------
(* What the assignments give, as the store and the evaluator see it.       *)

\* allowedOrganizationCodes of an assignment
CodesOf(a) ==
  LET scope == ScopeOf[a]
  IN  CASE scope.kind = "TENANT" -> {}
        [] scope.kind = "ORG_UNIT" -> {scope.unit}
        [] scope.kind = "ORG_SUBTREE" ->
             IF scope.unit \in working THEN Below[scope.unit] \cap working ELSE {}

\* normalizeAssignment throws on the first such one, whatever its status
Unreadable(a) == ScopeOf[a].kind = "ORG_SUBTREE" /\ CodesOf(a) = {}

\* inspectAssignment, with normalizeScopeStatus
EligibleAnywhere(a) == a \in granted

Eligible(a) == a \in granted /\ (ScopeOf[a].kind = "TENANT" \/ ScopeOf[a].unit \in working)

TenantWide == \E a \in Assignment : Eligible(a) /\ ScopeOf[a].kind = "TENANT"

\* the union of the eligible scopes
Reach == UNION {CodesOf(a) : a \in {b \in Assignment : Eligible(b)}}

-----------------------------------------------------------------------------
(* The list and the person, as buildGrhDirectorySql or responseFromSnapshot *)
(* select them.                                                            *)

Within(scope, person) == scope = Null \/ person.unit \in scope

\* the people that are among these, in the order of the list
Selection(people, chosen) ==
  LET first[n \in 0 .. Len(people)] ==
        IF n = 0 THEN <<>>
        ELSE IF people[n] \in chosen THEN Append(first[n - 1], people[n]) ELSE first[n - 1]
  IN  first[Len(people)]

People(artifact, scope) ==
  {person \in {artifact.people[i] : i \in DOMAIN artifact.people} : Within(scope, person)}

Listed(artifact, scope, organization) ==
  Selection(artifact.people,
    {person \in People(artifact, scope) : organization = Null \/ person.unit = organization})

Named(artifact, scope, legajo) ==
  Selection(artifact.people, {person \in People(artifact, scope) : person.legajo = legajo})

SmallerOf(m, n) == IF m < n THEN m ELSE n

Page(list, offset) == SubSeq(list, offset + 1, SmallerOf(offset + Limit, Len(list)))

\* decodeGrhDirectoryCursor: the cursor's fingerprint is this very list's
FingerprintOfFilter(cursor, scope, organization) == cursor.organization = organization

Fingerprint(cursor, scope, organization) ==
  cursor.scope = scope /\ cursor.organization = organization

Query ==
  {[mode |-> "list", cursor |-> cursor, organization |-> organization, legajo |-> Null] :
     cursor \in cursors \cup {Null}, organization \in Filter} \cup
  {[mode |-> "detail", cursor |-> Null, organization |-> Null, legajo |-> legajo] :
     legajo \in UNION {{artifact.people[i].legajo : i \in DOMAIN artifact.people} : artifact \in Artifact}}

-----------------------------------------------------------------------------
(* A request.  Whatever is decided is appended to the chain before it is   *)
(* answered: `status` is what will be answered then.                       *)

\* commitAudit: the clock is read, and with it the chain chosen, before anything is awaited
Audit(c, outcome, status, items, next) ==
  request' = [request EXCEPT
    ![c].phase = "chaining", ![c].query = Null, ![c].outcome = outcome, ![c].status = status,
    ![c].items = items, ![c].next = next, ![c].at = IF items = <<>> THEN Null ELSE @,
    ![c].event = [month |-> month, sequence |-> 0, previous |-> 0]]

Free(c) == request[c].phase \in {"idle", "refused", "answered"}

\* the published demo (403), the session and its capability (401, 403, 503), the purpose
\* and correlation (400), the configuration (503): one of them ends the request
RefusedAtOnce == {400, 401, 403, 503}

Refuse(c, status) ==
  /\ Free(c)
  /\ started < MaxRequests
  /\ started' = started + 1
  /\ request' = [request EXCEPT ![c] =
       [NoRequest EXCEPT !.id = started + 1, !.phase = "refused", !.status = status]]
  /\ UNCHANGED <<world, audit, cursors, walks, changes, faults>>

\* those checks passed; the tenant's boundary and the static list are the first audited ones
Start(c, query, staticAllowed) ==
  /\ Free(c)
  /\ started < MaxRequests
  /\ started' = started + 1
  /\ LET new == [NoRequest EXCEPT !.id = started + 1, !.query = query]
     IN  request' = [request EXCEPT ![c] =
           IF staticAllowed THEN [new EXCEPT !.phase = "deciding"]
           ELSE [new EXCEPT !.phase = "chaining", !.outcome = "DENIED", !.status = 403,
                            !.event = [month |-> month, sequence |-> 0, previous |-> 0]]]
  /\ UNCHANGED <<world, audit, cursors, walks, changes, faults>>

\* loadAuthorizationFacts in REPEATABLE READ, and inspectFacts
Decide(c) ==
  /\ request[c].phase = "deciding"
  /\ IF standing /\ \E a \in Assignment : Unreadable(a)
     THEN Audit(c, "DENIED", 503, <<>>, Null)
     ELSE IF ~ (standing /\ \E a \in Assignment : Eligible(a))
     THEN Audit(c, "DENIED", 403, <<>>, Null)
     ELSE request' = [request EXCEPT
            ![c].phase = "reading", ![c].at = [standing |-> standing, granted |-> granted, working |-> working],
            ![c].scope = IF TenantWide THEN Null ELSE Reach]
  /\ UNCHANGED <<world, audit, cursors, walks, bounds>>

\* checks of the query that come before anything is read
Refused(query, scope) ==
  IF query.cursor # Null /\ ~ Fingerprint(query.cursor, scope, query.organization) THEN 400
  ELSE IF scope # Null /\ query.organization # Null /\ query.organization \notin scope THEN 403
  ELSE 0

ReadList(c, query, scope) ==
  LET list == Listed(source, scope, query.organization)
      offset == IF query.cursor = Null THEN 0 ELSE query.cursor.offset
      page == Page(list, offset)
      seen == IF query.cursor = Null THEN page ELSE query.cursor.seen \o page
      from == IF query.cursor = Null \/ query.cursor.from = source THEN source ELSE Null
  IN  Audit(c, "ALLOWED", 200, page,
        [more |-> offset + Limit < Len(list),
         cursor |-> Cursor(offset + Limit, scope, query.organization, seen, from)])

ReadPerson(c, query, scope) ==
  LET found == Named(source, scope, query.legajo)
  IN  \/ Len(found) = 0 /\ Audit(c, "ALLOWED", 404, <<>>, Null)
      \/ Len(found) = 1 /\ Audit(c, "ALLOWED", 200, found, Null)
      \/ Len(found) > 1 /\ Audit(c, "DENIED", 409, <<>>, Null)

\* readGrhDirectory: one statement, or one encrypted snapshot
Read(c) ==
  /\ request[c].phase = "reading"
  /\ LET query == request[c].query
         scope == request[c].scope
         refused == Refused(query, scope)
     IN  IF refused # 0 THEN Audit(c, "DENIED", refused, <<>>, Null)
         ELSE IF ConfiguredSha # Null /\ source.sha # ConfiguredSha
         THEN Audit(c, "DENIED", 503, <<>>, Null)
         ELSE IF query.mode = "list" THEN ReadList(c, query, scope)
         ELSE ReadPerson(c, query, scope)
  /\ UNCHANGED <<world, audit, cursors, walks, bounds>>

\* the policy's or the directory's database does not answer
ReadFails(c) ==
  /\ request[c].phase \in {"deciding", "reading"}
  /\ faults < MaxFaults
  /\ faults' = faults + 1
  /\ Audit(c, "DENIED", 503, <<>>, Null)
  /\ UNCHANGED <<world, audit, cursors, walks, started, changes>>

-----------------------------------------------------------------------------
(* appendSecurityAuditEvent.                                               *)

InAnyMonth(m) == log

InMonth(m) == {e \in log : e.month = m}

\* ORDER BY chain_sequence DESC LIMIT 1
LastOf(m) == CHOOSE e \in InMonth(m) : \A d \in InMonth(m) : d.sequence <= e.sequence

ChainFree(m) == holder[m] = Null

\* the lock is taken, the last row read and the next one inserted, not yet committed:
\* nothing another connection does can come between
Chain(c) ==
  /\ request[c].phase = "chaining"
  /\ LET m == request[c].event.month
         first == InMonth(m) = {}
     IN  /\ ChainFree(m)
         /\ holder' = [holder EXCEPT ![m] = c]
         /\ request' = [request EXCEPT
              ![c].phase = "committing",
              ![c].event = [month |-> m,
                            sequence |-> IF first THEN 1 ELSE LastOf(m).sequence + 1,
                            previous |-> IF first THEN 0 ELSE LastOf(m).id]]
  /\ UNCHANGED <<world, log, cursors, walks, bounds>>

Answered(c) ==
  /\ request' = [request EXCEPT ![c].phase = "answered", ![c].outcome = Null,
                                ![c].next = Null, ![c].event = Null]
  /\ LET next == request[c].next
     IN  IF request[c].status = 200 /\ next # Null
         THEN IF next.more THEN cursors' = cursors \cup {next.cursor} /\ UNCHANGED walks
              ELSE walks' = walks \cup {next.cursor} /\ UNCHANGED cursors
         ELSE UNCHANGED <<cursors, walks>>

Appended(c) ==
  LET r == request[c]
  IN  [id |-> r.id, month |-> r.event.month, sequence |-> r.event.sequence,
       previous |-> r.event.previous, outcome |-> r.outcome, scope |-> r.scope,
       count |-> Len(r.items)]

CommitAudit(c) ==
  /\ request[c].phase = "committing"
  /\ log' = log \cup {Appended(c)}
  /\ holder' = [holder EXCEPT ![request[c].event.month] = Null]
  /\ Answered(c)
  /\ UNCHANGED <<world, bounds>>

AnsweredAnyway(c) ==
  /\ request[c].phase \in {"chaining", "committing"}
  /\ faults < MaxFaults
  /\ faults' = faults + 1
  /\ holder' = [m \in DOMAIN holder |-> IF holder[m] = c THEN Null ELSE holder[m]]
  /\ UNCHANGED log
  /\ Answered(c)
  /\ UNCHANGED <<world, started, changes>>

Unavailable(c, phase, event) ==
  /\ request' = [request EXCEPT ![c] =
       [NoRequest EXCEPT !.id = request[c].id, !.phase = phase, !.status = 503, !.event = event]]
  /\ UNCHANGED <<cursors, walks>>

\* a statement fails, the COMMIT among them: nothing of it stays
AppendFails(c) ==
  /\ request[c].phase \in {"chaining", "committing"}
  /\ faults < MaxFaults
  /\ faults' = faults + 1
  /\ holder' = [m \in DOMAIN holder |-> IF holder[m] = c THEN Null ELSE holder[m]]
  /\ Unavailable(c, "answered", Null)
  /\ UNCHANGED <<world, log, started, changes>>

\* the connection is lost after the COMMIT was sent: the 503 goes out while the database
\* may still be at it, the chain locked
LeaveAudit(c) ==
  /\ request[c].phase = "committing"
  /\ faults < MaxFaults
  /\ faults' = faults + 1
  /\ Unavailable(c, "left", Appended(c))
  /\ UNCHANGED <<world, audit, started, changes>>

\* what was left takes effect after all, or does not
EndLeft(c) ==
  /\ request[c].phase = "left"
  /\ log' \in {log, log \cup {request[c].event}}
  /\ holder' = [m \in DOMAIN holder |-> IF holder[m] = c THEN Null ELSE holder[m]]
  /\ Unavailable(c, "answered", Null)
  /\ UNCHANGED <<world, bounds>>

-----------------------------------------------------------------------------
(* The world meanwhile.                                                    *)

Change ==
  /\ changes < MaxChanges
  /\ changes' = changes + 1
  /\ \/ /\ \E a \in Assignment : granted' = (granted \ {a}) \cup ({a} \ granted)
        /\ UNCHANGED <<standing, working, source>>
     \/ /\ \E u \in Unit : working' = (working \ {u}) \cup ({u} \ working)
        /\ UNCHANGED <<standing, granted, source>>
     \/ /\ standing' = ~ standing
        /\ UNCHANGED <<granted, working, source>>
     \/ /\ \E artifact \in Artifact \ {source} : source' = artifact   \* publishGrhDirectory
        /\ UNCHANGED <<standing, granted, working>>
  /\ UNCHANGED <<month, audit, request, cursors, walks, started, faults>>

EndMonth ==
  /\ month < MaxMonth
  /\ month' = month + 1
  /\ UNCHANGED <<standing, granted, working, source, audit, request, cursors, walks, bounds>>

DirectoryNext ==
  \/ \E c \in Conn :
       \/ \E status \in RefusedAtOnce : Refuse(c, status)
       \/ \E query \in Query, staticAllowed \in BOOLEAN : Start(c, query, staticAllowed)
       \/ Decide(c) \/ Read(c) \/ ReadFails(c)
       \/ Chain(c) \/ CommitAudit(c) \/ AppendFails(c) \/ LeaveAudit(c) \/ EndLeft(c)
  \/ Change
  \/ EndMonth

DirectorySpec == DirectoryInit /\ [][DirectoryNext]_directoryVars
-----------------------------------------------------------------------------
RequestPhase ==
  {"idle", "refused", "deciding", "reading", "chaining", "committing", "left", "answered"}

DirectoryTypeOK ==
  /\ standing \in BOOLEAN
  /\ granted \subseteq Assignment
  /\ working \subseteq Unit
  /\ source \in Artifact
  /\ holder \in [1 .. MaxMonth -> Conn \cup {Null}]
  /\ \A c \in Conn :
       /\ request[c].phase \in RequestPhase
       /\ request[c].scope \in (SUBSET Unit) \cup {Null}
       /\ request[c].scope # {}
       /\ request[c].status \in {0, 200, 400, 401, 403, 404, 409, 503}
       /\ request[c].phase \in {"committing", "left"} <=>
            \E m \in 1 .. MaxMonth : holder[m] = c
  /\ \A e \in log : e.month \in 1 .. month /\ e.outcome \in {"ALLOWED", "DENIED"}

(* No personal datum, and no word on whether somebody is there, leaves     *)
(* without its committed audit row, which names the scope and the count of *)
(* what is answered; what the policy, the scope or the query refused is    *)
(* on record as denied, once, and never as allowed.  What the first checks *)
(* turned away shows nothing and is on no record, and only a 503 may leave *)
(* more on record than it told, then or later.                             *)
NothingUnrecorded ==
  \A c \in Conn :
    LET r == request[c]
        rows == {e \in log : e.id = r.id}
    IN  /\ r.phase = "answered" =>
             /\ r.status \in {200, 400, 403, 404, 409, 503}
             /\ r.status \in {200, 404} =>
                  \E e \in rows : rows = {e} /\ e.outcome = "ALLOWED" /\ e.scope = r.scope
                                 /\ e.count = Len(r.items)
             /\ r.status \in {400, 403, 409} => \E e \in rows : rows = {e} /\ e.outcome = "DENIED"
             /\ r.status = 503 => r.items = <<>> /\ Cardinality(rows) <= 1
        /\ r.phase \in {"refused", "left"} =>
             r.status \notin {200, 404} /\ r.items = <<>> /\ rows = {}

\* what was granted at that moment covers the unit
Gave(at, unit) ==
  /\ at.standing
  /\ \E a \in at.granted :
       \/ ScopeOf[a].kind = "TENANT"
       \/ ScopeOf[a].kind = "ORG_UNIT" /\ ScopeOf[a].unit = unit /\ unit \in at.working
       \/ /\ ScopeOf[a].kind = "ORG_SUBTREE"
          /\ unit \in Below[ScopeOf[a].unit] \cap at.working
          /\ ScopeOf[a].unit \in at.working

(* Whoever is shown belongs to a unit that an assignment gave at one       *)
(* moment, the same for all of them, between the request and its answer:   *)
(* scopes add up, but never across two states of the assignments, and a    *)
(* retired unit gives nothing.                                             *)
WithinWhatWasHeld ==
  \A c \in Conn : \A i \in DOMAIN request[c].items : Gave(request[c].at, request[c].items[i].unit)

(* Following nextCursor from the first page to the last over an unchanged  *)
(* directory shows everybody of the list once, in order, whatever happened *)
(* to the assignments in between and whatever filters were sent along.     *)
WalkShowsTheList ==
  \A w \in walks : w.from # Null => w.seen = Listed(w.from, w.scope, w.organization)

(* The rows of a month are numbered 1, 2, 3 ... in one chain, each after   *)
(* the one whose hash it holds, although requests append at the same time  *)
(* and a request that read the clock before the end of the month appends   *)
(* after it; the unique index on (chain_partition, chain_sequence) never   *)
(* has to refuse one.                                                      *)
ChainIsWhole ==
  /\ \A m \in 1 .. month :
       LET rows == {e \in log : e.month = m}
       IN  /\ {e.sequence : e \in rows} = 1 .. Cardinality(rows)
           /\ \A e \in rows :
                IF e.sequence = 1 THEN e.previous = 0
                ELSE \E d \in rows : d.sequence + 1 = e.sequence /\ d.id = e.previous
  /\ \A c \in Conn : request[c].phase \in {"committing", "left"} =>
       \A e \in log : e.month = request[c].event.month => e.sequence # request[c].event.sequence

(* One assignment that is active and whose scope stands is enough to be    *)
(* let in, and without one the answer is a refusal: what is retired stays  *)
(* a fact that denies ("inactive policy, role, and scope remain exact      *)
(* facts and deny with the expected reason"), it does not make the load of *)
(* the other assignments fail.                                             *)
OneStandingAssignmentSuffices ==
  [][\A c \in Conn : Decide(c) =>
       IF standing /\ \E a \in Assignment : Eligible(a) THEN request'[c].phase = "reading"
       ELSE request'[c].status = 403]_directoryVars
=============================================================================
