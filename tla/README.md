# MuniControl Junín: TLA+ models and proofs

This directory specifies parts of the MuniControl platform of the municipality
of Junín (JavaScript: `api/` serverless handlers, `shared/` decision modules,
`scripts/` operator programs, `js/` and `frontend/` pages) in TLA+, model-checks
them with TLC and proves theorems about them with TLAPS.

## 1. Inventory

| Component | Where | State it keeps | Operations | Modelled |
|---|---|---|---|---|
| Action ledger store | `api/lib/grh-action-ledger-store.js`, migration `20260811190000_grh_action_ledger` | tables of commitments and events of a tenant | list, create, transition | `ActionLedger` |
| Ledger contract and projection | `api/lib/grh-action-ledger-{contract,projection}.js` | none | inspect a list, offer transitions and suggestions | in part: `LedgerRules`, `LedgerDesk` |
| Ledger endpoint | `api/grh-action-ledger.js` | none between requests | GET, POST, PATCH | `LedgerDesk` |
| Ledger page | `js/grh-action-ledger.js` | contract shown, open dialog, request under way, frozen request | load, open, close, submit | `LedgerDesk` |
| GRH pipeline decisions | `shared/grh-pipeline-foundation.cjs` | a run (a value) | plan, transition, inspect | in part: `PipelineRules`, `PipelineRun` |
| GRH pipeline runner | `scripts/replay_grh_pipeline.mjs` | a state directory: locks, versions, activations, last-known-good | one replay per process | in part: `PipelineReplay` |
| Account lifecycle | `shared/account-lifecycle.cjs` | account, assignment, invitation, session families (values) | invitations, transitions, refresh rotation, demo provisioning | in part: `AccountLifecycle` |
| Copilot | `api/lib/municipal-copilot{,-budget}.js` | windows and in-flight counts per principal | acquire, release, the call between them | in part: `CopilotBudget` |
| Directory and finance publication | `api/lib/grh-directory-publication.js`, `…-snapshot.js`, `grh-workforce-finance-snapshot-publisher.js` | published tables, `audit_logs` | publish, read | in part: `FinancePublication`, `PublicationService` |
| Directory: authorization and reading | `api/lib/enterprise-authorization*.js`, `api/grh-directory*.js`, `api/lib/grh-directory-store.js`, `security-audit-ledger.js` | assignments, scopes, the monthly chain of audit rows | decide, list, page, person, audit | in part: `DirectoryAccess` |
| Sessions | `api/auth/*`, `api/lib/auth.js`, `js/auth-fetch.js` | signed tokens | login, verification, fetch | no: no shared state |
| Source intake | `api/source-intake.js`, `api/lib/source-intake-*.js` | audit log rows | append, list | no: one insert |
| GRH projections | about thirty pairs `api/lib/grh-*-{projection,contract}.js` | none | JSON to JSON | no: pure formatting |
| AI assistant, WhatsApp, connectors | `api/ai-analyze.js`, `api/whatsapp-*.js`, `api/external-connector.js` | none of their own | HTTP | no: I/O |
| Express backend | `backend/` | none | mostly 410 | no: retired |
| Bootstraps, release checks | `scripts/*-bootstrap*`, `shared/prisma-*` | remote databases | one-shot tools | no: I/O |
| UI, service worker, extractors | `frontend/`, `sw.js`, `scripts/*.py` | views, caches, files | | no |

**How the ledger's parts interact.** The mayor (INTENDENTE) turns a priority of
the GRH decision brief into a commitment of an administrative role; a user of
that role claims it, blocks, resumes and completes it; the mayor reschedules and
cancels. The page draws a command id when a dialog opens, sends POST or PATCH,
and shows the contract it is answered with. The handler rebuilds the brief from
the published artifacts, compares a POST with it, checks a PATCH against a list,
calls the store, lists again and answers with the projection. The store runs one
PostgreSQL transaction per command: Read Committed under a lock on the tenant
row for a create, Serializable with a lock on the commitment's row for a
transition, both ending in an event whose unique `(tenant_id, command_id)` makes
the command a fact. When the transaction throws, the store looks again, outside
of it, for the command.

**What is hard.** Commands are repeated, concurrently too; the acknowledgement
of COMMIT, the answer of the handler, or the whole function may be lost while
the database session goes on; the checks of a create hold across rows and are
kept true only by locks; a permission is checked on a list that is stale when
it is used; one malformed timeline turns every later read of the tenant into a
503; the brief may change between a request and its retry.

**How the pipeline's parts interact.** A process of `replay_grh_pipeline.mjs`
captures an approved snapshot, takes two lock files of the state directory (one
of the whole target, one of the snapshot), plans a run against
`last-known-good.json`, checks that the activation records form one chain that
ends there, builds the bundle in a private workspace, and promotes it with three
renames: the version directory, its activation record, the last-known-good.
Every step of the run goes through the pure state machine of
`grh-pipeline-foundation.cjs`, with a receipt per stage. Nothing but the files
is shared, and nothing waits: a lock that is taken refuses the run.

**What is hard** there: a call may fail or a process die between any two calls,
in `catch` and `finally` too; the fallback of `atomicWriteJson` moves the old
file aside before it has the new one in place; the release of a lock can fail
after the promotion; lock files outlive their process, and whoever removes them
lets the next run into a directory nobody cleaned.

**The other parts** share no state with these, nor with each other.

- `account-lifecycle.cjs` decides, its callers persist: a decision returns patches
  and effects (`REVOKE_ALL_SESSION_FAMILIES`, `REVOKE_SESSION_FAMILY`, counters)
  that must be applied as a whole. Hard: what an end of the account must take with
  it (open families, old credentials) must not come back by reinstatement or
  rotation, and a lost answer makes a client present an old credential.
- The copilot's gate counts, per user and tenant, calls at the provider and calls in
  two fixed windows, in a table with a limited number of entries. Hard: an entry
  may be dropped and made again while calls of its principal are out, and windows
  that start with a call meet at a border.
- A finance publication appends a row and an event to `audit_logs` in one
  transaction under advisory locks; readers take the row with the latest
  `createdAt`, which the database's clock gives. Hard: clocks are set back,
  acknowledgements are lost and publications repeated, also after another one has
  superseded them, and a COMMIT may take effect after its caller was told that it failed.
- A request to the directory loads the user's assignments in one snapshot, reads
  within the scope they give, and appends its attempt to the month's hash chain
  before anything of it is answered. What the first checks turn away (the published
  demo, the session, its capability, the context, the configuration) is answered
  without a row. Hard: assignments and units change between the
  steps and between the pages of a list, chains are shared by all requests and
  change with the month, each statement may fail, and a COMMIT may land after the 503.

`PROJECT.json` lists each hazard at its line with the properties that would catch
it.

**What makes each component correct.**

- Store: a command takes effect at most once and atomically; answers are true
  of the tables; capacity and uniqueness of evidence survive concurrency; rows
  and timelines always satisfy the readers (their order in time only while callers
  quote versions they were shown: finding 2); every call is answered.
- Endpoint: it answers success only with a contract that shows the command, and
  never denies the repetition of a recorded command.
- Page: while the outcome of a command is in doubt it can only be repeated.
- Pipeline decisions: what is published was validated by its own run, stage by
  stage; the last-known-good never goes back; any failure can be recorded.
- Pipeline runner: the last-known-good only moves to a bundle that is wholly
  there; a failed or killed run leaves a directory that later runs refuse or
  accept, never misread; the caller's answer agrees with what became of its run.
- Account lifecycle: a session that ended stays ended; a credential has one heir;
  guesses at an invitation are bounded; a demo ends when it was to.
- Copilot budget: no slot is leaked, never more calls out than the limit, never
  more than twice the limit in any stretch of a window's length.
- Finance publication: readers get what was published last; an operation is
  published once; whoever is told "created" or "reused" is told the truth.
- Directory: nothing is shown, and nothing decided, without its audit row; nobody is shown outside what the
  assignments gave at one moment; pages add up to the list; a month's rows are
  one chain.

## 2. Modules

| Module | What it is |
|---|---|
| `LedgerRules` | the rules that read no table: requests, rows, events, which transition a command makes and who may run it, what statements write, the CHECK constraints, the inspector of a timeline |
| `ActionLedger` | the store over PostgreSQL: concurrent calls, locks, snapshots, commits, failures, recovery; its properties |
| `LedgerService` | the abstract ledger: every command one atomic step, at most once, and what a caller may be told |
| `ActionLedgerProofs` | theorems about `ActionLedger` |
| `LedgerDesk`, `LedgerDeskProofs` | pages and handler over `LedgerService`, and theorems |
| `PipelineRules` | the pure decisions of a run: planning, inspection, receipts, transitions |
| `PipelineRun` | one run in the hands of any caller, who offers events and receipts in any order |
| `PipelineRunProofs` | theorems about `PipelineRun` |
| `PipelineReplay`, `PipelineReplayProofs` | processes that replay snapshots into one state directory, with failed calls, kills and cleared locks; theorems |
| `SnapshotRegister` | the abstract promise of the directory: one active publication, replaced in an instant |
| `AccountLifecycle`, `AccountLifecycleProofs` | one account under every decision of the lifecycle, and theorems |
| `CopilotBudget`, `CopilotBudgetProofs` | the budget gate with its concurrent calls, and theorems |
| `FinancePublication`, `FinancePublicationProofs` | concurrent publications statement by statement, and theorems |
| `PublicationService` | the abstract promise of a publication: one step, taken once, and what a caller may be told of it |
| `DirectoryAccess`, `DirectoryAccessProofs` | concurrent requests to the directory while the world changes, and theorems |
| `MCActionLedger`, `MCLedgerDesk`, `MCPipelineReplay`, `MCDirectory` | instances for TLC |
| `MCUnits` | the instance of the five components that share no state: `PipelineRun`, `AccountLifecycle`, `CopilotBudget`, `FinancePublication`, `DirectoryAccess` |

`ActionLedger` implements `LedgerService` under the mapping at its end
(`ServiceSpec`), and `LedgerDesk` INSTANCEs `LedgerService` for its store: what
is checked of page and handler uses only what the store was shown to promise.

### ActionLedger and the code

A call is a slot `p \in Proc` (one serverless invocation). `pc[p]` is where the
JavaScript stands, `tx[p]` where its database session stands. They are separate
because they fail separately: after `Disconnect` or `Die` a session whose COMMIT
was sent (`tx = "written"`) may still commit (`CommitOrphan`) or roll back.

| Action | Code |
|---|---|
| `Call` | `normalizeCreate`, `normalizeTransition`: refusals before any query |
| `CreateLock` | `lockedTenantRows` and everything to the insertion of the commitment: replay, past date, duplicate, capacity, in that order |
| `CreateWrite` | `insertEvent`, which may wait for its entry in the command index while the tenant row is held |
| `TransitionSnapshot` | the first query of the Serializable transaction: replay, past date |
| `TransitionLock` | `SELECT … FOR UPDATE` of the row, not found, version, `transitionFor` |
| `TransitionEnter` | `updateCommitment`, and `insertEvent` up to its entry in the command index |
| `TransitionWrite` | the foreign keys of that event, which may wait for the tenant row while the entry is held; the read-back that refuses a timeline that is too long |
| `CommitAnswered`, `CommitUnheard`, `CommitOrphan`, `Rollback` | COMMIT, its lost acknowledgement, a session without its caller |
| `Abort` | P2034, unique violation, deadlock, `maxWait`, `timeout`, no connection |
| `RecoverCommand`, `RecoverSource` | the reads of `recoverCreateRace` and `recoverTransitionRace` |
| `Return`, `Die`, `NextDay` | the answer leaves, the function is stopped, the date changes |

Locks are the guards `TenantLockable` (the row of the tenant, FOR UPDATE),
`TenantShareable` (the KEY SHARE lock that the foreign key of an inserted event
takes on it), `RowLockable` and `CommandInsertable` (the unique index on command
ids, which makes an insertion wait for another open one of the same id). `HoldsTenant`,
`HoldsRow` and `HoldsEntry` say who holds what. A transition makes its entry before
it takes the tenant row, a create the other way round, so the two can wait for each other
when they carry one command id: `InCycle`, which the deadlock detector cuts.
The payload digest is abstracted to equality of requests, which is what it
decides. Ids the store generates are fresh. `known` and `effect` are history
variables for the properties. The endpoint asks of a PATCH that a list shows its
commitment (`Listed`) and of the version it quotes nothing: a caller may quote
one that is still being written. `CURRENT_TIMESTAMP` is the instant of BEGIN (`began`); a
day of the model stands for any instant at which the time may advance.

### LedgerDesk and the code

`Load`, `OpenDialog`, `CloseDialog`, `Submit`, `Deliver`, `Lose`, `Reload` are
the page; `Arrive`, `CallStore`, `Conclude`, `ListAgain`, `Die`, `Unheard` the
handler; `StoreTakes`, `StoreTells`, `StoreForgets` the abstract store's steps;
`Publish` new artifacts. `Deliver` splits as the code does: a contract
(`Accepted`), a verified 4xx (`Rejected`), anything else (`Unconfirmed`, which
freezes the request of the dialog that sent it). Left out: the texts, the
summary, capabilities and the published demo, an expired session (the same as
`Reload`), and the handler of GET, one step because nothing depends on its
inside. The browser's fetch has no timeout, so no liveness is claimed of the page.

### PipelineRun, PipelineReplay and the code

`Transition` is `decideGrhPipelineTransition` and `InspectRun` is
`inspectPipelineRun`, with a run as a record; `receipts` is the set of slots that
are filled. An identity stands for what the idempotency key is a digest of; a
digest is equal when what it digests is. `PipelineRun` offers the state machine
more than the runner ever does; `PipelineReplay` drives the same operators as the
runner does, so `AnswerMatchesRun` also shows that the runner is never refused.

In `PipelineReplay` a process is its run id and `at[r]` where it stands between
two calls on the directory.

| Action | Code |
|---|---|
| `Begin` | captures and their verification, before any lock |
| `TakeLock`, `TakeLockFails`, `UndoLock` | `acquireLock`: exclusive creation, a lock made and not written, its removal |
| `PlanRun`, `CheckLedger`, `ReadFails` | last-known-good, `planGrhPipelineRun`, `validateActivationLedger` and `validateActiveLastKnownGood`, ACQUIRE_LOCK |
| `StartExtract`, `MarkDuplicate` | the version of this identity is there or not |
| `Extract`, `Profile`, `Validate`, `BuildFails` | the stages up to VALIDATED, and every error that is not one of the directory |
| `Prepare`, `PrepareFails`, `Sweep` | the pending directory, the removal of the workspace |
| `Promote`, `PromoteFails` | the rename into `versions/` |
| `WriteDraft`, `RenameDraft`, `RenameFails`, `SetAside`, `Replace`, `BringBack`, `Discard`, `Withdraw`, `DropDraft` | `atomicWriteJson`, call by call, first for the activation, then for the last-known-good |
| `RecordFailure` | `catch`: FAIL or BLOCK, the receipt of the failure |
| `CleanWorkspace`, `CleanPending`, `Release`, `Report` | `finally`: clean-ups, locks, the last receipt and the answer |
| `Kill`, `ClearLocks` | external: the process dies; an operator removes its lock files |

A failed call has no effect (a file is never half written, and the content of
files is never tampered with); a run that fails before `Begin`'s captures never
touches the directory and is left out. The receipts in `runs/` are written in
one step: no run reads them. Locks are cleared for processes that are over, so
the runner's check that a lock file is still its own always succeeds.

### AccountLifecycle and the code

The callers of `account-lifecycle.cjs` are not in the repository yet; the module
applies an accepted decision with all its patches and effects in one step, as
`docs/ACCOUNT_LIFECYCLE_STATE_MACHINE.md` asks of them, and does nothing on a denial.

| Action | Code |
|---|---|
| `ProvisionDemo` | `planDemoProvisioning`: duration, role, scope, separation of duties |
| `AcceptInvitation`, `GuessInvitation` | ACCEPT_INVITATION through `decideInvitationUse`, with the right digest and a wrong one |
| `Activate`, `Deactivate` | `decideAccountTransition`: COMPLETE_FIRST_LOGIN and REINSTATE; SUSPEND, EXPIRE and REVOKE with their effect |
| `Rotate`, `PresentSpent` | `decideRefreshRotation`: a successor, or reuse detected |
| `SignIn`, `SignOut`, `Govern`, `ProvisionRegular`, `AccountTick` | external: adapter, administrator, clock |

### CopilotBudget and the code

`Acquire` is the gate's `acquire`, `Release` the `finally` of
`synthesizeMunicipalAnswer`; between them a call is at the provider, and others
run. `calling[c].current` says whether the entry object a call holds is the one in
the table (`entries.get(principal) === entry`). `admitted` is history: per principal
the instants at which it was let through, and `Passed` counts those in a stretch.

### FinancePublication and the code

One action per statement of `publishGrhWorkforceFinanceSnapshot`: `BeginPublication`,
`TakeActivation` (the tenant's advisory lock; those of operation and entity nest
inside it and never wait), `Find`, `Reuse` or `Insert` and `CheckActive`,
`CommitPublication` (acknowledged or not) or `CommitReuse`; `FailPublication` any
statement that fails. `LeavePublication` is a caller that gives up a COMMIT it has sent (the
pool's `query_timeout`, a lost connection): it has been told of a failure while the session
still holds its locks, and that session commits later (`CommitPublication` from "left")
or rolls back (`RollBackLeft`). Readers are the operator `Latest`. Checks of the artifact's
content against its approval do not depend on the tables and are left out.

`PublicationService` knows only what readers get (`current`), which requests were
published (`taken`), what each call asked and was told. Its steps are `Ask`, `Publish`
(new to both operation and entity; the caller is told "created", or "failed" if the
acknowledgement is lost), `Reuse` (only while the very request is what readers get),
`Fail`, and `Leave`: told of a failure that is not decided yet, so that the publication may
still come. `ImplementsService` maps `current` to the latest row, `taken` to the events
and what a call was told to its phase: the COMMIT is the step, everything before it is
invisible. `PublishedOnce`, which says of the rows what `Publish` says of the requests, is
proved (`NeverTwice`) and not run.

### DirectoryAccess and the code

| Action | Code |
|---|---|
| `Refuse` | the checks of `authorizeGrhDirectoryRequest` before the tenant's boundary: 403 for the published demo, 401, 403 or 503 of the session and its capability, 400 of the context, 503 of the configuration; no row |
| `Start` | those passed: the tenant's boundary and the static list, whose refusal goes straight to the audit |
| `Decide` | `loadAuthorizationFacts` in one snapshot, `inspectFacts`: denied, or a scope |
| `Read`, `ReadFails` | `readGrhDirectory`: cursor, filter, source, page or person; the database does not answer |
| `Chain`, `CommitAudit`, `AppendFails` | `appendSecurityAuditEvent`: lock, last row, insert; COMMIT and the answer; any failure of which nothing stays, 503 |
| `LeaveAudit`, `EndLeft` | the connection is lost after COMMIT was sent: 503, while the session still holds the chain; it ends with its row or without |
| `Change`, `EndMonth` | external: assignments, units, the user's standing, a new publication; the clock |

An assignment is in force or not (policy, role, window and permissions are one
bit, `granted`); what matters is its scope. A hash is the id of the row it is of; a
cursor's fingerprint is the scope and filter it is a digest of. Modelled is the mode
`intersect`; in `disabled` and `shadow` the static decision alone counts. `at`,
`seen`, `from` and `walks` are history. A list or a person is a `Selection`: the records
of the published directory that pass the filter, in the directory's order.

## 3. Runs

| Run | Shows | Instance |
|---|---|---|
| `races` | one commitment per evidence, command uniqueness across commitments, truthful answers; the store implements `LedgerService` | two calls: creates for two evidences, one tried by two commands, one date beyond the horizon; one command id on two commitments; a claim, two cancelations and a completion that compete |
| `lifecycle` | rows and timelines satisfy the inspector and the CHECKs (`RecordsAreAccepted`, the order in time apart), only the claimer works, recorded creates are replayed whatever the date | the commands of a whole life, two clerks, three days |
| `waits` | every call ends, under `FairSpec`; concurrent creates respect the capacity | three creates with room for two, any deliveries of one claim, a create with the claim's command id: tenant lock, row lock and index, also in a cycle |
| `retry_finding` | finding 1 | two calls of one create |
| `order_finding` | finding 2 | a create, a claim, and a cancelation and a new date that quote version 2; two days |
| `desk` | the gate admits replays, answers show their effect; an editable dialog has changed nothing; one request per command in flight | two commands, two invocations; mayor and clerk over one brief, or the mayor alone with two briefs and two ways to fill in the fields |
| `desk_retry_finding` | finding 3 | one page, two commands |
| `replay_faults` | the last-known-good names a whole version and survives failures; answers match the run; an inconsistent directory is never built upon; runs that meet no failure leave nothing behind; `SnapshotRegister` is implemented | two processes, four snapshots, two failed calls, a kill, cleared locks |
| `replay_ends` | every replay ends, under `FairSpec` | two processes, two approvals of one source, a failed call, a kill |
| `replace_finding` | finding 4 | two processes, a failed call, a kill |
| `units` | the properties of the five separate components; publications implement `PublicationService` | see below |
| `directory_finding` | finding 5 | one connection, two assignments, one change |

The exact constants are in the `.cfg` files, the sets of requests and snapshots
in the MC modules.

**One run for five components.** What shares no state needs no interleaving:
`MCUnits` EXTENDS the five modules, its variable `unit` says which of them a
behaviour is about, and the others stay as they began, so the states add up instead
of multiplying. Each component behaves as under its own specification. The instances:

- run: two run ids, two digests, four identities (two dates; the later one also with
  other processors and with another source), every event and receipt;
- account: two families, a privileged role and a demo role, two persons, two
  attempts, lives and a demo of one tick, one rotation per family, three instants;
- budget: two principals and room for one entry, three calls, two calls per window
  of two ticks, three per quota window of three, two at once, eight instants: every
  window ends more than once, and entries are dropped with both windows over (three calls
  never reach twice the quota, so of the two halves of `BurstsAreBounded` that of the
  short window is the tight one here; `StretchesAreBounded` proves both);
- finance: three calls, two operations, entities and artifacts, two rows, a clock of two
  instants that is set back once: any two publications succeed, the third call
  retries, conflicts or comes between;
- directory: two connections, two requests, one change, one fault, two months; a
  unit below another; an assignment of the town, of a unit and of a subtree (the
  last two in force at first); three directories, one with people moved and a legajo
  shared, one of another source; one person per page.

In the same way `desk` holds two instances of the desk (`office`): both pages over one
brief and one way to fill in the fields, or the mayor's alone over two of each.

**Bounds.** `Proc` has two elements: every hazard of the store is a race of two
calls, and a third actor exists all the same, because the session a dead caller
left behind keeps its slot's request while the retries run in the other slot.
`MaxCommitments` is 1 or 2 (100 in the code), and in `waits` two creates fight for
the last place, also while a transition of what took the first is open; `MaxEvents` is small enough (2 to 4; 128 in the code) that
the limit is reached where it matters; `MaxDay` is 2 in `lifecycle`: a due date
that passes while a retry is on its way. The requests are chosen so that each of replay,
collision, duplicate, stale version and wrong role occurs. What a larger
instance could add is covered by the theorems, which hold for every size.
Calls never stop coming, so deadlock checking stays on.

Of the pipeline, two processes are enough for one to overlap another or to follow
it. The snapshots are the ways two
can be related: an earlier date, the same snapshot, other processors, another source
of the same date and, in `replay_ends`, another approval. `MaxFaults` is 2 where
the promise of the register is checked, which three break: a rename that fails,
then the replacement, then the restoration of what was set aside. `MaxCrashes`
and `MaxClears` are 1 or 0. A replay runs once, so these runs stop by nature and
are checked with `CHECK_DEADLOCK FALSE`; so do the units, where time, calls and
requests run out.

**State reduction.** Processes are symmetric in the safety runs, calls and connections
in `units`; so are command ids
and briefs in `desk`, where nothing but their equality matters.
`LiveState`, the `VIEW` of the ledger's and the desk's safety runs, leaves out the
variables of a call that is over and whose session has ended: the next `Call` (`Ask`)
sets them all before anything reads them. Runs that check liveness use neither.

**Fairness** is used in `waits` and `replay_ends` only. In `replay_ends` each
process that has begun is weakly fair, as any program that is neither killed nor
waiting; nothing in the replay waits for another process. In `waits`, the JavaScript between
two awaits and the database's own reactions are weakly fair: once nothing blocks them they happen.
Waiting for a lock is strongly fair: PostgreSQL queues waiters, so one that can
be served again and again is served. A session whose COMMIT was sent ends. No
timeout of `transactionOptions` and no lost connection is assumed to happen. `MustAbort` names
the three errors the database raises by itself: the serialization failure, the unique
violation and the deadlock. The waits can close one cycle only (`InCycle`: a create holds
the tenant row and waits for the entry of a transition with its command id, which
waits for the tenant row), and without the third error the run finds that very wait and `EveryCallEnds` fails;
all other locks are taken in an order without cycles. As a transaction that lost to another
is told 409 or 503, so is the victim of the detector.

## 4. Proofs

Every theorem holds for all values of the constants that satisfy the named
assumptions of the modules, and every property a passing run checks is proved
too, except those at the end of this section.

### The store (`ActionLedgerProofs`)

`Invariant` is the inductive invariant `IInv`; `TypeCorrect`, `AppliedOnce`,
`EvidenceOnce`, `CapacityKept`, `SuccessRecorded` and `RefusalWithoutEffect` follow
from it. None of them is inductive by itself: that a commit does not exceed the
capacity follows from a count made two steps earlier. `IInv` adds

- `SessionOK`: what a session found out before it wrote is still true (a waiting
  create still has room and free evidence, a waiting transition still is allowed
  by the row it locked, an inserted event's command is still unrecorded);
- `LockOK`: sessions that exclude each other do: a create past its checks is
  alone among writing sessions, two writing sessions have different commands,
  two transitions never hold one row;
- `AnswerOK`: what each call was told is true and stays true.

The argument has four parts, each a lemma over all actions: `TypeStep`,
`SessionStep`, `AnswerStep`, and `OnlyCommitWrites` with `CommitKeepsLedger` for
the tables. Steps that neither write nor lock are handled at once by `CalmStep`.

`History` is a second invariant, `HInv`, over the first. It adds what timelines,
claims and retries rest on:

- `HistoryOK`: a row and its timeline were written together, by requests that were in
  order on their day: the inspector, the order in time apart, and the CHECK constraints
  accept them;
- `ClaimOK`: whoever owns a commitment claimed it, in the role of its assignee, and
  only claimers worked on it;
- `CallOK`: a call under way stands on what the normalizer made certain and on the
  version it quotes; rows only move forward (`Grows`);
- `KnownOK`: what was recorded when a call arrived still is.

From it follow `RecordsAccepted`, `ClaimerWorks` and `RetryIsReplayed`.

That timelines also rise in time is not true of the code (finding 2). `TimelinesInOrder`
says of whom it is true: `Spec /\ CallersQuoteReached => []TimelinesRise`, where every call
quotes a version its commitment has reached by then, as the page does. Its invariant `TimeInv`
says that a call under way began no earlier than the events it knew of; the
version check ties the write to these.

`Refinement` is `Spec => ServiceSpec`. The mapping leaves the tables as they are; what a
caller hears (`Told`) is "waiting" while its session may still do something, and a
call whose caller is gone leaves. A commit is the service's atomic step, an answer its
telling, every other step is none of its steps.

### The desk (`LedgerDeskProofs`)

Two arguments, because the desk keeps two kinds of promise.

- Identity (`Invariance`, then `Types`, `Editable`, `OneRequest`): a command id belongs
  to one dialog of one user; whatever travels under it, in the store too, is what that
  dialog would repeat (`SendingOK`, `FrozenOK`); and only the mutation its page awaits
  travels under the id of a dialog whose fields can still be edited, and only that
  one may have been recorded (`EditableOK`, `UncommittedOK`).
- History (`HistoryInvariance`, then `ReadsOwnWrites`, `DeniedIsNotRecorded`): rows
  only move forward, and what a page or handler read stays true of the commitment
  (its assignee, and its owner once there is one), so
  the sender of a request stays entitled to it, and the handler denies one only
  because another user has claimed its commitment.

The store is `LedgerService` here; the theorem `Refinement` above is what lets the
conclusions be read of the real one.

### The pipeline

`PipelineRunProofs` proves `RunTypeCorrect`, `PublicationValidated`,
`LastKnownGoodKeptByRun`, `DuplicateRepeatsPublication` and `FailureIsRecorded`, all
from `RunInvariant`. That a published bundle was validated is not inductive: it is a
fact about receipts accepted several steps earlier. The invariant adds that the run
passes its own inspection, which ties its receipts to its state, and that for each
filled slot exactly one receipt was accepted, with the input and output the run
carries on (`Chained`). `TransitionTaken` says what a step that was not refused can be;
one lemma per kind of step keeps the invariant.

`PipelineReplayProofs` has six layers, each resting on those before it.

| Layer | What it says | Theorems |
|---|---|---|
| `RunOK` | where a process stands says exactly what its run record is: no transition the runner asks for is refused | `Types`, `AnswerMatches` |
| `HeldOK` | between the second lock and the release a process holds both lock files, so it is alone inside | |
| `TablesOK` | version, activation and pointer are written in this order, and nothing un-writes the first two | `PointerNames`, `FailsClosed` |
| `KInv` | what became of the last-known-good while its replacement is tried, and how many calls must have failed to get there | `LastKnownGoodIsKept` |
| `Tidy` | of histories without a failed call or a kill: whatever is temporary is named by the place of the process that made it, and nothing is once it has ended | `NothingIsLeft` |
| `RInv` | whom each activation follows: the publication that counts is one run's own, each run's becomes it at most once, and a backup that no activation follows is what a killed or failed replacement set aside | `RegisterInvariance`, `RegisterIsImplemented` |

The first three are one invariant (`Invariance`). `LastKnownGoodIsKept` and
`RegisterIsImplemented` say "with at most two failed calls" in their statement and put no
bound on processes, kills or removed locks; three failures break both properties, as
TLC shows with `MaxFaults = 3`. `RegisterIsImplemented` is a step-wise refinement: the lemma
`RegisterPublishes` covers the three steps at which a publication takes effect
(the rename onto the last-known-good; where the old file was set aside, its removal, or
the death of a process that has the new file in place), `RegisterAnswers` the report, and
`EverStep` says that every other step leaves `Active` and `EverActive` alone. With
more than one kill there can be several backups; the publication that counts is then
the one set aside by the run that no activation follows (`Lost`), which `RInv` shows to
be at most one.

### The separate components

| Module | Theorems | The inductive invariant adds |
|---|---|---|
| `AccountLifecycleProofs` | `AccountTypes`, `EndedForGood`, `EachHasOneHeir`, `GuessesEnd`, `DemoIsOver` | which record keeps each history: a closed or replayed family carries a revocation no step takes back, all credentials before the newest are used, the guesses are the attempt count, a demo account expires no later than planned |
| `CopilotBudgetProofs` | `BudgetTypes`, `SlotsAreKept` | the count of an entry in the table is the number of its principal's calls, so an entry that is dropped counts none and no call is ever left with an entry that is gone |
| | `StretchesAreBounded` | `BurstInv`: an entry counts the calls let through since its window began; any stretch that began before this window and ends later had at most the limit of them before it; without an entry, or once its window is over, any stretch that still touches the present had at most the limit |
| `FinancePublicationProofs` | `OneActivationAtATime`, `TheLastIsRead`, `NeverTwice`, `TrulyAnswered` | what the holder of the activation lock found out still holds: no event matches its request, the row it inserted comes last of all |
| | `PublicationIsAtomic` | the same: the refinement of `PublicationService`, one lemma per visible step (`AskStep`, `PublishStep`, `ReuseStep`, `LeaveStep`, `FailStep`) and one for the others (`InnerStep`); the readers' order has one latest row (`OneLatest`) |
| `DirectoryAccessProofs` | `DirectoryTypes`, `AnswersAreRecorded`, `ChainStaysWhole` | the holder of a month's lock, its caller still there or not, carries the very next row of its chain; a request under way, refused at once or left has no row; ids are never given twice |
| | `ShownWasHeld`, `WalksAreWhole`, `WalksMissNobody` | `ShownInv`: the scope of a request that reads covers only what the facts of its decision gave (`HeldOK`); a cursor stands in its list right behind the pages seen before it (`CursorOK`), whoever else uses it and whatever is sent along |

The first theorem of each states the module's type invariant
(`AccountTypeOK`, `BudgetTypeOK`, `FinanceTypeOK`, `DirectoryTypeOK`); like `TypeOK`
of `ActionLedger` and `PipelineRun` these are proved, for every size, and so not
checked by a run.

`BurstInv` and `ShownInv` are second invariants over the first of their module. Why the
limit of a burst is twice that of a window is seen in `BurstInv` only: a stretch as long as
a window touches at most two windows, and the calls of each are counted by an entry that
nothing drops before the window is over.

`Selection` is defined by recursion along the directory. What it returns
(`SelectionInOrder`: those it was to choose, each at its own place, all of them, in
their order) is proved without an induction theorem, which the provers cannot
instantiate: a selection that fails for some prefix fails for a shortest one
(`LeastOf`, from the well-foundedness of the natural numbers), and the prefix before
that one leads to a contradiction (`OneMoreInOrder`). `WalksMissNobody` carries it to
walks: `WalkShowsTheList` compares pages with the list, `MissesNobody` the list with the
directory.

### Assumptions

All are about constants, named in the module that declares them, and evaluated by TLC.

| Assumption | Why the code justifies it |
|---|---|
| `RequestAssumption`, `LimitAssumption`, `SizeAssumption` | requests have the shape the normalizers let through; limits and dates are natural numbers, ids are finite because rows are counted |
| `NullAssumption`, `RecordAssumption`, `NoneAssumption`, `NoRequestAssumption` | `null` is no id, code, object or request |
| `IdentityAssumption` | cut-off dates are compared as dates |
| `DigestAssumption`, `SelfAssumption`, `BoundsAssumption` | there is a digest and a run id; bounds are natural numbers |
| `SessionAssumption`, `FormAssumption` | a session has one role; a dialog's fields offer what their validation accepts |
| `ArtifactAssumption` | the records of a published directory are an array |
| `LifecycleAssumption`, `BudgetAssumption`, `PublicationAssumption`, `DirectoryAssumption` | durations and limits are natural numbers; an assignment has a unit unless it is of the whole tenant |

**Only model-checked:** liveness (`EveryCallEnds`, `EveryRunEnds`), which with fairness
and ENABLED is out of the prover's reach, and the five runs that expect a violation,
which are counterexamples. Every safety property of a passing run is a theorem.

## 5. Findings

1. `retry_finding`: `recoverCreateRace` (store, lines 672–691) looks for the
   command and then for the evidence, in two reads. If the command's own first
   delivery commits between them, its retry is answered
   `COMMITMENT_ALREADY_EXISTS` although it was recorded.
2. `order_finding`: an event carries the instant its transaction began (store, lines 592,
   616, 632), and neither `normalizeTransition` nor the endpoint asks whether the quoted
   version exists yet. A client that sends the changes of version 1 and 2 together may have
   the second begin first and read after the first has committed: its later event
   carries the earlier instant. The inspector (contract, lines 317–319) refuses such a
   timeline, so that every later list of the tenant is answered 503. The page sends one
   change at a time and cannot cause it.
3. `desk_retry_finding`: the page freezes a request on the dialog that sent it
   but writes the "repeat the same command" message on whatever dialog is open;
   that dialog's button then sends another command.
4. `replace_finding`: where the direct rename onto `last-known-good.json` fails,
   `atomicWriteJson` (runner, lines 727–729) moves the file aside first. A process
   killed there leaves no last-known-good; nothing reads the `.bak`, and every
   later run is blocked (safely: `FailClosed`) until someone renames it back by
   hand. The documents call the promotion atomic.
5. `directory_finding`: `loadAssignments` (`enterprise-authorization-store.js`)
   reads all assignments of a user, revoked ones too, and gives one of a subtree no
   organization codes once its unit is retired; `normalizeAssignment` (lines 192–194)
   throws on an assignment of a subtree without codes. So one retired unit turns every
   request of the user into a 503, although other assignments stand. The tests say
   that an inactive scope remains an exact fact and denies with its reason.

Also noted, without a claim and without a property:

- A create that took effect and is retried after the brief changed is answered 409
  EVIDENCE_STALE (the handler compares before the store can replay).
- A live commitment with 128 events can never change again.
- SUSPEND and REINSTATE take an account from FIRST_LOGIN_REQUIRED to ACTIVE without
  COMPLETE_FIRST_LOGIN (`account-lifecycle.cjs`, line 126); a document draws SUSPENDED
  only from ACTIVE, none excludes the edge.
- Two directory publishers wait for one advisory lock; nothing compares the ages of
  what they publish, so the older may be published last. The operator's procedure
  publishes one at a time.
- A directory republished between two pages of a list shows people twice or not at
  all: the cursor's fingerprint is of scope and filter. `WalkShowsTheList` therefore
  speaks of walks over one directory.

## 6. Not modelled

The map covers a small share of the repository, and by far most of the rest has no
state that several actors share, no failure handling beyond an error answer, and no
order that matters:

- pages, styles and texts (`js/`, `frontend/`, `sw.js`), apart from the ledger's page;
- the assistants and connectors (`api/ai-analyze.js`, `api/whatsapp-*.js`): prompts,
  calls to services and formatting of one request;
- about thirty projections with their contracts in `api/lib`: functions from one
  artifact to one JSON document, whose checks are of shapes and wording;
- bootstraps, smoke tests and release checks in `scripts/` and `shared/prisma-*`:
  one-shot tools whose steps are remote calls and evidence of them;
- extractors in Python: one sequential pass each over a dump;
- the retired Express backend, and the handlers of sign-in, whose tokens are signed
  and stateless.

Of the modelled components these details are left out, as `PROJECT.json` says at each:
the restore and freshness evaluations of the pipeline, the capture of a source, the
mapper of account records, the provisioning plan of tenants, the copilot's prompt and answer,
the directory's encrypted envelopes and facets.

## 7. Plan

1. Action ledger: rules, store, service, desk, with proofs and the refinement (done).
2. Pipeline: decisions, runner, register, with proofs and the refinement (done).
3. Account lifecycle, copilot budget, finance publication, directory: modules and
   proofs (done).
4. Proofs: nothing left but liveness.
5. Left to model: the connected modes of the directory (`disabled`, `shadow`) and the
   replacement of its rows by `publishGrhDirectory`, if readers ever read more than
   one statement of them.
