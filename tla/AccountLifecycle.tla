-------------------------- MODULE AccountLifecycle --------------------------
(***************************************************************************)
(* The decisions of shared/account-lifecycle.cjs on one account, with its  *)
(* assignment, invitation and session families, applied the way its        *)
(* callers must: an accepted decision is persisted with its patches and    *)
(* effects in one transaction, a denied one changes nothing.  Who calls    *)
(* what and when is open, and so is which credential of a family is        *)
(* presented: the newest, an older one whose answer was lost, a stolen     *)
(* copy.  Records are well formed and of this account and tenant: any      *)
(* other is denied before it is looked at.                                 *)
(***************************************************************************)
EXTENDS Naturals

CONSTANTS
  Family,           \* ids of session families
  Role,             \* the governed roles of the instance
  Person,           \* who may request or approve an account
  MaxAttempts,      \* maxAttempts of an invitation
  MaxDemoDuration,  \* MAX_DEMO_DURATION_MS, in ticks
  AccessLife,       \* how long the adapter lets an access session live
  RefreshLife,      \* and a refresh credential
  MaxSequence,      \* bound: rotations of one family
  AccountHorizon,   \* bound: the last tick
  Never

AccountState ==
  {"INVITED", "FIRST_LOGIN_REQUIRED", "ACTIVE", "SUSPENDED", "EXPIRED", "REVOKED"}
\* SUSPENDED, EXPIRED and REVOKED assignments are told apart by no decision
AssignmentState == {"ACTIVE", "REVOKED"}
PrivilegedRole == {"SUPER_ADMIN", "INTENDENTE", "TENANT_ADMIN", "CONTADOR"}
DataScope == {"SYNTHETIC_DEMO", "GRH_REAL"}

TransitionTargets ==
  {<<"INVITED", "ACCEPT_INVITATION", "FIRST_LOGIN_REQUIRED">>,
   <<"INVITED", "EXPIRE", "EXPIRED">>,
   <<"INVITED", "REVOKE", "REVOKED">>,
   <<"FIRST_LOGIN_REQUIRED", "COMPLETE_FIRST_LOGIN", "ACTIVE">>,
   <<"FIRST_LOGIN_REQUIRED", "SUSPEND", "SUSPENDED">>,
   <<"FIRST_LOGIN_REQUIRED", "EXPIRE", "EXPIRED">>,
   <<"FIRST_LOGIN_REQUIRED", "REVOKE", "REVOKED">>,
   <<"ACTIVE", "SUSPEND", "SUSPENDED">>,
   <<"ACTIVE", "EXPIRE", "EXPIRED">>,
   <<"ACTIVE", "REVOKE", "REVOKED">>,
   <<"SUSPENDED", "REINSTATE", "ACTIVE">>,
   <<"SUSPENDED", "EXPIRE", "EXPIRED">>,
   <<"SUSPENDED", "REVOKE", "REVOKED">>,
   <<"EXPIRED", "REVOKE", "REVOKED">>}

RevokesSessionFamilies == {"SUSPEND", "EXPIRE", "REVOKE"}

Expiry == Nat \cup {Never}

ASSUME LifecycleAssumption ==
  /\ Role # {}
  /\ MaxAttempts \in Nat \ {0}
  /\ {MaxDemoDuration, AccessLife, RefreshLife, MaxSequence, AccountHorizon} \subseteq Nat
  /\ Never \notin Nat

VARIABLES
  now,
  account,     \* state NONE before it is provisioned
  assignment,
  mfa,         \* a second factor is enrolled and verified
  invitation,
  opened,      \* the session families that exist
  family,      \* by id: [revoked, latest], latest being its latestSequence
  credential,  \* by family and sequence: [used, revoked, expiresAt]
  session,     \* by family: its access session [revoked, expiresAt]
  \* history, read by the properties only
  closed,      \* families logged out, or open when the account stopped being usable
  replayed,    \* families a spent credential of which was presented
  grants,      \* by family: the rotations granted
  guesses      \* wrong digests the invitation was compared with

sessions == <<opened, family, credential, session>>
history == <<closed, replayed, grants, guesses>>
accountVars == <<now, account, assignment, mfa, invitation, sessions, history>>

-----------------------------------------------------------------------------
(* The pure decisions.                                                     *)

\* expiryDecision: the very instant of expiry is expired
Past(expiry) == expiry # Never /\ expiry <= now

MfaSatisfied == assignment.role \in PrivilegedRole => mfa

AssignmentStands == assignment.state = "ACTIVE" /\ ~ Past(assignment.expiresAt)

AccessAllowed ==
  /\ account.state = "ACTIVE"
  /\ ~ Past(account.expiresAt)
  /\ AssignmentStands
  /\ MfaSatisfied

\* evaluateAccessSession
SessionWorks(f) ==
  /\ f \in opened
  /\ ~ session[f].revoked
  /\ ~ family[f].revoked
  /\ ~ Past(session[f].expiresAt)
  /\ AccessAllowed

InvitationUsableUncounted ==
  ~ invitation.revoked /\ ~ invitation.used /\ ~ Past(invitation.expiresAt)

\* decideInvitationUse, up to the comparison of digests
InvitationUsable ==
  /\ ~ invitation.revoked
  /\ ~ invitation.used
  /\ invitation.attemptCount < MaxAttempts
  /\ ~ invitation.locked
  /\ ~ Past(invitation.expiresAt)

\* what decideAccountTransition asks of every event
Admitted(event, target) ==
  /\ <<account.state, event, target>> \in TransitionTargets
  /\ Past(account.expiresAt) => event \in {"EXPIRE", "REVOKE"}

SpentNever(f, n) == FALSE

\* a refresh that was rotated already: presenting it again is reuse
Spent(f, n) == credential[f][n].used \/ n < family[f].latest

\* decideRefreshRotation, from the sequence check on
RotationAllowed(f, n) ==
  /\ ~ family[f].revoked
  /\ ~ Spent(f, n)
  /\ n <= family[f].latest
  /\ ~ credential[f][n].revoked
  /\ ~ Past(credential[f][n].expiresAt)
  /\ AccessAllowed

\* evaluateSeparationOfDuties
SeparateDuties(requester, approver) == requester # approver

DemoPlanReadyLong(role, scope, expiresAt, requester, approver) ==
  /\ role # "SUPER_ADMIN" /\ scope = "SYNTHETIC_DEMO" /\ expiresAt # Never /\ expiresAt > now
  /\ SeparateDuties(requester, approver)

\* planDemoProvisioning
DemoPlanReady(role, scope, expiresAt, requester, approver) ==
  /\ role # "SUPER_ADMIN"
  /\ scope = "SYNTHETIC_DEMO"
  /\ expiresAt # Never
  /\ expiresAt > now
  /\ expiresAt - now <= MaxDemoDuration
  /\ SeparateDuties(requester, approver)

-----------------------------------------------------------------------------
Absent == [revoked |-> FALSE, expiresAt |-> Never]

AccountInit ==
  /\ now = 0
  /\ account = [state |-> "NONE", expiresAt |-> Never, demoUntil |-> Never]
  /\ assignment = [state |-> "REVOKED", role |-> CHOOSE role \in Role : TRUE, expiresAt |-> Never]
  /\ mfa = FALSE
  /\ invitation = [revoked |-> TRUE, used |-> FALSE, locked |-> FALSE,
                   attemptCount |-> 0, expiresAt |-> Never]
  /\ opened = {}
  /\ family = [f \in Family |-> [revoked |-> FALSE, latest |-> 0]]
  /\ credential = [f \in Family |-> <<>>]
  /\ session = [f \in Family |-> Absent]
  /\ closed = {}
  /\ replayed = {}
  /\ grants = [f \in Family |-> 0]
  /\ guesses = 0

AccountTick ==
  /\ now < AccountHorizon
  /\ now' = now + 1
  /\ UNCHANGED <<account, assignment, mfa, invitation, sessions, history>>

\* an account with its assignment and invitation, all ending when it does
Provision(role, expiresAt, demoUntil) ==
  /\ account.state = "NONE"
  /\ account' = [state |-> "INVITED", expiresAt |-> expiresAt, demoUntil |-> demoUntil]
  /\ assignment' = [state |-> "ACTIVE", role |-> role, expiresAt |-> expiresAt]
  /\ invitation' = [revoked |-> FALSE, used |-> FALSE, locked |-> FALSE, attemptCount |-> 0,
                    expiresAt |-> IF expiresAt = Never THEN AccountHorizon ELSE expiresAt]
  /\ UNCHANGED <<now, mfa, sessions, history>>

ProvisionDemo(role, scope, expiresAt, requester, approver) ==
  /\ DemoPlanReady(role, scope, expiresAt, requester, approver)
  /\ Provision(role, expiresAt, now + MaxDemoDuration)

ProvisionRegular(role, expiresAt) == Provision(role, expiresAt, Never)

\* ACCEPT_INVITATION with the right digest, and with a wrong one
AcceptInvitation ==
  /\ Admitted("ACCEPT_INVITATION", "FIRST_LOGIN_REQUIRED")
  /\ InvitationUsable
  /\ invitation' = [invitation EXCEPT !.used = TRUE]
  /\ account' = [account EXCEPT !.state = "FIRST_LOGIN_REQUIRED"]
  /\ UNCHANGED <<now, assignment, mfa, sessions, history>>

GuessInvitation ==
  /\ Admitted("ACCEPT_INVITATION", "FIRST_LOGIN_REQUIRED")
  /\ InvitationUsable
  /\ invitation' = [invitation EXCEPT !.attemptCount = @ + 1,
                                      !.locked = invitation.attemptCount + 1 >= MaxAttempts]
  /\ guesses' = guesses + 1
  /\ UNCHANGED <<now, account, assignment, mfa, sessions, closed, replayed, grants>>

\* COMPLETE_FIRST_LOGIN, the login itself being done, and REINSTATE
Activate(event) ==
  /\ Admitted(event, "ACTIVE")
  /\ AssignmentStands
  /\ MfaSatisfied
  /\ account' = [account EXCEPT !.state = "ACTIVE"]
  /\ UNCHANGED <<now, assignment, mfa, invitation, sessions, history>>

DeactivateOnly(event, target) ==
  /\ Admitted(event, target)
  /\ target \in {"SUSPENDED", "EXPIRED", "REVOKED"}
  /\ account' = [account EXCEPT !.state = target]
  /\ closed' = closed \cup opened
  /\ UNCHANGED <<now, assignment, mfa, invitation, sessions, replayed, grants, guesses>>

\* SUSPEND, EXPIRE and REVOKE, with the effect REVOKE_ALL_SESSION_FAMILIES
Deactivate(event, target) ==
  /\ Admitted(event, target)
  /\ target \in {"SUSPENDED", "EXPIRED", "REVOKED"}
  /\ account' = [account EXCEPT !.state = target]
  /\ family' = [f \in Family |->
       IF f \in opened /\ event \in RevokesSessionFamilies
       THEN [family[f] EXCEPT !.revoked = TRUE] ELSE family[f]]
  /\ closed' = closed \cup opened
  /\ UNCHANGED <<now, assignment, mfa, invitation, opened, credential, session,
                 replayed, grants, guesses>>

(* The adapter's part, as the records it must write imply it: signing in   *)
(* opens a family with its first credential and its access session.        *)
SignIn(f) ==
  /\ f \notin opened
  /\ AccessAllowed
  /\ opened' = opened \cup {f}
  /\ credential' = [credential EXCEPT ![f] =
       [n \in {0} |-> [used |-> FALSE, revoked |-> FALSE, expiresAt |-> now + RefreshLife]]]
  /\ session' = [session EXCEPT ![f] = [revoked |-> FALSE, expiresAt |-> now + AccessLife]]
  /\ UNCHANGED <<now, account, assignment, mfa, invitation, family, history>>

\* signing out revokes the access session and the newest credential
SignOut(f) ==
  /\ f \in opened
  /\ ~ session[f].revoked
  /\ session' = [session EXCEPT ![f].revoked = TRUE]
  /\ credential' = [credential EXCEPT ![f][family[f].latest].revoked = TRUE]
  /\ closed' = closed \cup {f}
  /\ UNCHANGED <<now, account, assignment, mfa, invitation, opened, family,
                 replayed, grants, guesses>>

\* an administrator, or the person enrolling a second factor
Govern ==
  /\ \/ \E state \in AssignmentState \ {assignment.state} :
          assignment' = [assignment EXCEPT !.state = state] /\ UNCHANGED <<mfa, invitation>>
     \/ mfa' = ~ mfa /\ UNCHANGED <<assignment, invitation>>
     \/ /\ ~ invitation.revoked
        /\ invitation' = [invitation EXCEPT !.revoked = TRUE]
        /\ UNCHANGED <<assignment, mfa>>
  /\ account.state # "NONE"
  /\ UNCHANGED <<now, account, sessions, history>>

-----------------------------------------------------------------------------
(* A refresh credential with its right digest is presented.                *)

\* REFRESH_REUSE_DETECTED
PresentSpent(f, n) ==
  /\ ~ family[f].revoked
  /\ Spent(f, n)
  /\ family' = [family EXCEPT ![f].revoked = TRUE]
  /\ replayed' = replayed \cup {f}
  /\ UNCHANGED <<now, account, assignment, mfa, invitation, opened, credential, session,
                 closed, grants, guesses>>

\* REFRESH_ROTATION_ALLOWED; the adapter issues the next credential and access session
Rotate(f, n) ==
  /\ n < MaxSequence
  /\ RotationAllowed(f, n)
  /\ family' = [family EXCEPT ![f].latest = n + 1]
  /\ credential' = [credential EXCEPT ![f] =
       [k \in DOMAIN credential[f] \cup {n + 1} |->
          IF k = n + 1 THEN [used |-> FALSE, revoked |-> FALSE, expiresAt |-> now + RefreshLife]
          ELSE IF k = n THEN [credential[f][n] EXCEPT !.used = TRUE]
          ELSE credential[f][k]]]
  /\ session' = [session EXCEPT ![f] = [revoked |-> FALSE, expiresAt |-> now + AccessLife]]
  /\ grants' = [grants EXCEPT ![f] = @ + 1]
  /\ UNCHANGED <<now, account, assignment, mfa, invitation, opened, closed, replayed, guesses>>

AccountNext ==
  \/ AccountTick
  \/ \E role \in Role, expiresAt \in 1 .. AccountHorizon \cup {Never} :
       \/ ProvisionRegular(role, expiresAt)
       \/ \E scope \in DataScope, requester, approver \in Person :
            ProvisionDemo(role, scope, expiresAt, requester, approver)
  \/ AcceptInvitation
  \/ GuessInvitation
  \/ \E event \in {"COMPLETE_FIRST_LOGIN", "REINSTATE"} : Activate(event)
  \/ \E event \in RevokesSessionFamilies, target \in AccountState : Deactivate(event, target)
  \/ Govern
  \/ \E f \in Family : SignIn(f) \/ SignOut(f)
  \/ \E f \in opened : \E n \in DOMAIN credential[f] : PresentSpent(f, n) \/ Rotate(f, n)

AccountSpec == AccountInit /\ [][AccountNext]_accountVars

-----------------------------------------------------------------------------
AccountTypeOK ==
  /\ now \in Nat
  /\ account \in [state : AccountState \cup {"NONE"}, expiresAt : Expiry, demoUntil : Expiry]
  /\ assignment \in [state : AssignmentState, role : Role, expiresAt : Expiry]
  /\ mfa \in BOOLEAN
  /\ invitation \in [revoked : BOOLEAN, used : BOOLEAN, locked : BOOLEAN,
                     attemptCount : 0 .. MaxAttempts, expiresAt : Expiry]
  /\ opened \subseteq Family
  /\ family \in [Family -> [revoked : BOOLEAN, latest : Nat]]
  /\ session \in [Family -> [revoked : BOOLEAN, expiresAt : Expiry]]
  /\ \A f \in opened :
       credential[f] \in [0 .. family[f].latest -> [used : BOOLEAN, revoked : BOOLEAN, expiresAt : Nat]]
  /\ closed \subseteq opened
  /\ replayed \subseteq opened
  /\ grants \in [Family -> Nat]
  /\ guesses \in Nat

(* A session that was open when its account was suspended, expired or      *)
(* revoked, or that was signed out, is over, and so is a family of which a *)
(* credential was presented that had been exchanged already, whoever       *)
(* presented it: no later reinstatement, no rotation brings them back      *)
(* ("Suspender, vencer o revocar devuelve el efecto obligatorio            *)
(* REVOKE_ALL_SESSION_FAMILIES", "Reutilizar un refresh ya consumido ...   *)
(* revocar la familia completa").                                          *)
EndedStaysEnded ==
  \A f \in closed \cup replayed :
    ~ SessionWorks(f) /\ \A n \in DOMAIN credential[f] : ~ RotationAllowed(f, n)

(* A family has one line of heirs: each credential is exchanged at most    *)
(* once, so of a credential and its stolen copy only one ever gets a       *)
(* successor ("El refresh vigente puede rotar una sola vez").              *)
OneHeir ==
  \A f \in opened :
    /\ grants[f] = family[f].latest
    /\ \A m, n \in DOMAIN credential[f] :
         ~ credential[f][m].used /\ ~ credential[f][n].used => m = n

(* However often wrong digests are tried, at most MaxAttempts of them are  *)
(* ever compared, and after the last one the right one is refused as well. *)
GuessesAreBounded ==
  /\ guesses <= MaxAttempts
  /\ guesses = MaxAttempts => ~ InvitationUsable /\ ~ invitation.used

(* A demo account gives no access once MAX_DEMO_DURATION_MS has passed     *)
(* since it was planned, whatever was done to it, its assignment and its   *)
(* sessions meanwhile, and it can be made active no more.                  *)
DemoEndsInTime ==
  account.demoUntil # Never /\ account.demoUntil <= now =>
    /\ \A f \in Family : ~ SessionWorks(f)
    /\ \A f \in opened : \A n \in DOMAIN credential[f] : ~ RotationAllowed(f, n)
    /\ \A event \in {"ACCEPT_INVITATION", "COMPLETE_FIRST_LOGIN", "REINSTATE"},
          target \in AccountState : ~ Admitted(event, target)
=============================================================================
