------------------------ MODULE AccountLifecycleProofs ------------------------
(***************************************************************************)
(* What the account lifecycle promises, proved for any families, roles,    *)
(* persons and durations.                                                  *)
(*                                                                         *)
(* The properties speak of histories: what was closed, replayed, granted,  *)
(* guessed.  The inductive invariant says which record keeps each of them: *)
(* a closed or replayed family carries a revocation that no later step     *)
(* takes back, the grants of a family are its latest sequence and all      *)
(* credentials before it are used, the guesses are the attempt count, and  *)
(* a demo account has an expiry no later than the end it was planned with. *)
(***************************************************************************)
EXTENDS AccountLifecycle, TLAPS

FamilyStory(f) ==
  /\ f \notin opened => ~ family[f].revoked /\ family[f].latest = 0 /\ grants[f] = 0
  /\ f \in opened =>
       /\ grants[f] = family[f].latest
       /\ \A n \in 0 .. family[f].latest : n < family[f].latest => credential[f][n].used
  /\ f \in closed =>
       \/ family[f].revoked
       \/ session[f].revoked /\ credential[f][family[f].latest].revoked
  /\ f \in replayed => family[f].revoked

Families ==
  /\ credential = [f \in Family |-> credential[f]]
  /\ \A f \in Family : FamilyStory(f)

GuessesCounted ==
  /\ guesses = invitation.attemptCount
  /\ guesses = MaxAttempts => ~ invitation.used
  /\ account.state = "NONE" => guesses = 0

DemoPlanned ==
  account.demoUntil # Never =>
    account.expiresAt # Never /\ account.expiresAt <= account.demoUntil

AccountInv == AccountTypeOK /\ Families /\ GuessesCounted /\ DemoPlanned

-----------------------------------------------------------------------------
LEMMA AccountInitInv == AccountInit => AccountInv
<1> SUFFICES ASSUME AccountInit PROVE AccountInv
  OBVIOUS
<1> USE LifecycleAssumption DEF AccountInit, Expiry
<1>1. (CHOOSE role \in Role : TRUE) \in Role
  OBVIOUS
<1>2. AccountTypeOK
  <2>1. /\ account \in [state : AccountState \cup {"NONE"}, expiresAt : Expiry, demoUntil : Expiry]
        /\ assignment \in [state : AssignmentState, role : Role, expiresAt : Expiry]
    BY <1>1 DEF AssignmentState
  <2>2. invitation \in [revoked : BOOLEAN, used : BOOLEAN, locked : BOOLEAN,
                        attemptCount : 0 .. MaxAttempts, expiresAt : Expiry]
    <3>1. 0 \in 0 .. MaxAttempts
      OBVIOUS
    <3> QED BY <3>1
  <2>3. /\ family \in [Family -> [revoked : BOOLEAN, latest : Nat]]
        /\ session \in [Family -> [revoked : BOOLEAN, expiresAt : Expiry]]
        /\ grants \in [Family -> Nat]
    BY DEF Absent
  <2> QED BY <2>1, <2>2, <2>3 DEF AccountTypeOK
<1>3. Families
  BY DEF Families, FamilyStory
<1>4. GuessesCounted /\ DemoPlanned
  BY DEF GuessesCounted, DemoPlanned
<1> QED BY <1>2, <1>3, <1>4 DEF AccountInv

(* Steps that leave the families, and what is remembered of them, alone.   *)
LEMMA FamiliesKept ==
  ASSUME Families, UNCHANGED <<sessions, closed, replayed, grants>>
  PROVE  Families'
BY DEF Families, FamilyStory, sessions

LEMMA TickInv == ASSUME AccountInv, AccountTick PROVE AccountInv'
<1> USE DEF AccountInv, AccountTick, history
<1>1. AccountTypeOK'
  BY DEF AccountTypeOK, sessions
<1>2. Families'
  BY FamiliesKept
<1> QED BY <1>1, <1>2 DEF GuessesCounted, DemoPlanned

LEMMA ProvisionInv ==
  ASSUME AccountInv, NEW role \in Role, NEW expiresAt \in 1 .. AccountHorizon \cup {Never},
         NEW demoUntil \in Expiry, Provision(role, expiresAt, demoUntil),
         demoUntil # Never => expiresAt # Never /\ expiresAt <= demoUntil
  PROVE  AccountInv'
<1> USE LifecycleAssumption DEF AccountInv, Provision, history
<1>1. expiresAt \in Expiry
  BY DEF Expiry
<1>2. AccountTypeOK'
  <2>1. invitation' \in [revoked : BOOLEAN, used : BOOLEAN, locked : BOOLEAN,
                         attemptCount : 0 .. MaxAttempts, expiresAt : Expiry]
    BY <1>1 DEF Expiry
  <2>2. account' \in [state : AccountState \cup {"NONE"}, expiresAt : Expiry, demoUntil : Expiry]
    BY <1>1 DEF AccountState
  <2>3. assignment' \in [state : AssignmentState, role : Role, expiresAt : Expiry]
    BY <1>1 DEF AssignmentState
  <2> QED BY <2>1, <2>2, <2>3 DEF AccountTypeOK, sessions
<1>3. Families'
  BY FamiliesKept
<1>4. GuessesCounted'
  BY DEF GuessesCounted
<1>5. DemoPlanned'
  BY DEF DemoPlanned
<1> QED BY <1>2, <1>3, <1>4, <1>5

(* The plan of a demo keeps its expiry within MAX_DEMO_DURATION_MS.        *)
LEMMA ProvisionDemoInv ==
  ASSUME AccountInv, NEW role \in Role, NEW expiresAt \in 1 .. AccountHorizon \cup {Never},
         NEW scope, NEW requester, NEW approver,
         ProvisionDemo(role, scope, expiresAt, requester, approver)
  PROVE  AccountInv'
<1>1. now \in Nat /\ MaxDemoDuration \in Nat /\ Never \notin Nat
  BY LifecycleAssumption DEF AccountInv, AccountTypeOK
<1>2. expiresAt # Never /\ expiresAt <= now + MaxDemoDuration
  BY <1>1, LifecycleAssumption DEF ProvisionDemo, DemoPlanReady
<1>3. now + MaxDemoDuration \in Expiry
  BY <1>1 DEF Expiry
<1> QED BY <1>2, <1>3, ProvisionInv DEF ProvisionDemo

LEMMA AcceptInv == ASSUME AccountInv, AcceptInvitation PROVE AccountInv'
<1> USE LifecycleAssumption DEF AccountInv, AcceptInvitation, history
<1>1. AccountTypeOK'
  BY DEF AccountTypeOK, AccountState, sessions
<1>2. Families'
  BY FamiliesKept
<1>3. GuessesCounted'
  BY DEF GuessesCounted, InvitationUsable, AccountTypeOK
<1>4. DemoPlanned'
  BY DEF DemoPlanned, AccountTypeOK
<1> QED BY <1>1, <1>2, <1>3, <1>4

LEMMA GuessInv == ASSUME AccountInv, GuessInvitation PROVE AccountInv'
<1> USE LifecycleAssumption DEF AccountInv, GuessInvitation, InvitationUsable
<1>1. invitation.attemptCount \in 0 .. MaxAttempts /\ invitation.attemptCount < MaxAttempts
  BY DEF AccountTypeOK
<1>2. invitation' \in [revoked : BOOLEAN, used : BOOLEAN, locked : BOOLEAN,
                       attemptCount : 0 .. MaxAttempts, expiresAt : Expiry]
  <2>1. invitation.attemptCount + 1 \in 0 .. MaxAttempts
    BY <1>1
  <2>2. (invitation.attemptCount + 1 >= MaxAttempts) \in BOOLEAN
    OBVIOUS
  <2>3. invitation' = [[invitation EXCEPT !.attemptCount = invitation.attemptCount + 1]
                          EXCEPT !.locked = invitation.attemptCount + 1 >= MaxAttempts]
    BY DEF AccountTypeOK
  <2> QED BY <2>1, <2>2, <2>3 DEF AccountTypeOK
<1>3. AccountTypeOK'
  BY <1>2 DEF AccountTypeOK, sessions
<1>4. Families'
  BY FamiliesKept
<1>5. GuessesCounted'
  <2>1. invitation'.attemptCount = invitation.attemptCount + 1 /\ ~ invitation'.used
    BY DEF AccountTypeOK
  <2>2. account.state # "NONE"
    BY DEF Admitted, TransitionTargets
  <2> QED BY <2>1, <2>2 DEF GuessesCounted
<1> QED BY <1>3, <1>4, <1>5 DEF DemoPlanned

LEMMA ActivateInv == ASSUME AccountInv, NEW event, Activate(event) PROVE AccountInv'
<1> USE DEF AccountInv, Activate, history
<1>1. AccountTypeOK'
  BY DEF AccountTypeOK, AccountState, sessions
<1>2. Families'
  BY FamiliesKept
<1> QED BY <1>1, <1>2 DEF GuessesCounted, DemoPlanned, AccountTypeOK

(* All families open are closed, and revoked with it.                      *)
LEMMA DeactivateInv ==
  ASSUME AccountInv, NEW event \in RevokesSessionFamilies, NEW target \in AccountState,
         Deactivate(event, target)
  PROVE  AccountInv'
<1> USE DEF AccountInv, Deactivate
<1>1. \A f \in Family :
        /\ family'[f] \in [revoked : BOOLEAN, latest : Nat]
        /\ family'[f].latest = family[f].latest
        /\ f \in opened => family'[f].revoked
        /\ f \notin opened => family'[f] = family[f]
  BY DEF AccountTypeOK
<1>2. AccountTypeOK'
  <2>1. family' \in [Family -> [revoked : BOOLEAN, latest : Nat]]
    BY <1>1 DEF AccountTypeOK
  <2> QED BY <1>1, <2>1 DEF AccountTypeOK
<1>3. Families'
  BY <1>1 DEF Families, FamilyStory, AccountTypeOK
<1> QED BY <1>2, <1>3 DEF GuessesCounted, DemoPlanned, AccountTypeOK

LEMMA SignInInv == ASSUME AccountInv, NEW f \in Family, SignIn(f) PROVE AccountInv'
<1> USE LifecycleAssumption DEF AccountInv, SignIn, history
<1> DEFINE first == [n \in {0} |-> [used |-> FALSE, revoked |-> FALSE, expiresAt |-> now + RefreshLife]]
<1>1. credential'[f] = first /\ \A g \in Family \ {f} : credential'[g] = credential[g]
  BY DEF Families
<1>2. family[f].latest = 0 /\ f \notin closed /\ f \notin replayed /\ grants[f] = 0
  BY DEF Families, FamilyStory, AccountTypeOK
<1>3. AccountTypeOK'
  <2>1. now \in Nat /\ now + RefreshLife \in Nat /\ now + AccessLife \in Nat
    BY DEF AccountTypeOK
  <2>2. session' \in [Family -> [revoked : BOOLEAN, expiresAt : Expiry]]
    BY <2>1 DEF AccountTypeOK, Expiry
  <2>3. first \in [0 .. family[f].latest -> [used : BOOLEAN, revoked : BOOLEAN, expiresAt : Nat]]
    BY <1>2, <2>1
  <2> QED BY <1>1, <2>2, <2>3 DEF AccountTypeOK
<1>4. Families'
  <2>1. credential' = [g \in Family |-> credential'[g]]
    BY DEF Families
  <2>2. ASSUME NEW g \in Family PROVE FamilyStory(g)'
    <3>1. CASE g = f
      BY <1>2, <3>1 DEF FamilyStory
    <3>2. CASE g # f
      BY <1>1, <3>2 DEF Families, FamilyStory, AccountTypeOK
    <3> QED BY <3>1, <3>2
  <2> QED BY <2>1, <2>2 DEF Families
<1> QED BY <1>3, <1>4 DEF GuessesCounted, DemoPlanned

LEMMA SignOutInv == ASSUME AccountInv, NEW f \in Family, SignOut(f) PROVE AccountInv'
<1> USE DEF AccountInv, SignOut
<1> DEFINE last == family[f].latest
<1> DEFINE Credential == [used : BOOLEAN, revoked : BOOLEAN, expiresAt : Nat]
<1>1. last \in Nat /\ last \in 0 .. last /\ credential[f] \in [0 .. last -> Credential]
  BY DEF AccountTypeOK
<1>2. /\ credential'[f] = [credential[f] EXCEPT ![last] = [@ EXCEPT !.revoked = TRUE]]
      /\ \A g \in Family \ {f} : credential'[g] = credential[g]
  BY DEF Families
<1>3. /\ credential'[f] \in [0 .. last -> Credential]
      /\ credential'[f][last].revoked
      /\ \A n \in 0 .. last : credential'[f][n].used = credential[f][n].used
  <2> DEFINE ended == [credential[f][last] EXCEPT !.revoked = TRUE]
  <2>1. ended \in Credential /\ ended.revoked /\ ended.used = credential[f][last].used
    BY <1>1
  <2>2. credential'[f] = [n \in 0 .. last |-> IF n = last THEN ended ELSE credential[f][n]]
    BY <1>1, <1>2
  <2> HIDE DEF ended, last
  <2>3. credential'[f] \in [0 .. last -> Credential] /\ credential'[f][last] = ended
    <3> HIDE DEF Credential
    <3>1. \A n \in 0 .. last : (IF n = last THEN ended ELSE credential[f][n]) \in Credential
      BY <1>1, <2>1
    <3> QED BY <1>1, <2>2, <3>1
  <2>4. ASSUME NEW n \in 0 .. last PROVE credential'[f][n].used = credential[f][n].used
    <3>1. CASE n = last
      BY <2>1, <2>3, <3>1
    <3>2. CASE n # last
      BY <2>2, <3>2
    <3> QED BY <3>1, <3>2
  <2> QED BY <2>1, <2>3, <2>4
<1>4. AccountTypeOK'
  <2>1. \A g \in opened : credential'[g] \in [0 .. family[g].latest -> Credential]
    BY <1>2, <1>3 DEF AccountTypeOK
  <2>2. session' \in [Family -> [revoked : BOOLEAN, expiresAt : Expiry]]
    BY DEF AccountTypeOK
  <2> QED BY <2>1, <2>2 DEF AccountTypeOK
<1>5. Families'
  <2>1. credential' = [g \in Family |-> credential'[g]]
    BY DEF Families
  <2>2. ASSUME NEW g \in Family PROVE FamilyStory(g)'
    <3>1. CASE g = f
      BY <1>3, <3>1 DEF Families, FamilyStory, AccountTypeOK
    <3>2. CASE g # f
      BY <1>2, <3>2 DEF Families, FamilyStory, AccountTypeOK
    <3> QED BY <3>1, <3>2
  <2> QED BY <2>1, <2>2 DEF Families
<1> QED BY <1>4, <1>5 DEF GuessesCounted, DemoPlanned

LEMMA GovernInv == ASSUME AccountInv, Govern PROVE AccountInv'
<1> USE DEF AccountInv, Govern, history
<1>1. AccountTypeOK'
  BY DEF AccountTypeOK, sessions
<1>2. Families'
  BY FamiliesKept
<1>3. GuessesCounted'
  BY DEF GuessesCounted, AccountTypeOK
<1> QED BY <1>1, <1>2, <1>3 DEF DemoPlanned

(* A spent credential is presented: the family is revoked for good.        *)
LEMMA PresentSpentInv ==
  ASSUME AccountInv, NEW f \in opened, NEW n \in DOMAIN credential[f], PresentSpent(f, n)
  PROVE  AccountInv'
<1> USE DEF AccountInv, PresentSpent
<1>1. f \in Family
  BY DEF AccountTypeOK
<1>2. /\ family'[f] = [family[f] EXCEPT !.revoked = TRUE]
      /\ \A g \in Family \ {f} : family'[g] = family[g]
      /\ family' \in [Family -> [revoked : BOOLEAN, latest : Nat]]
  BY <1>1 DEF AccountTypeOK
<1>3. family'[f].revoked /\ \A g \in Family : family'[g].latest = family[g].latest
  BY <1>1, <1>2 DEF AccountTypeOK
<1>4. AccountTypeOK'
  BY <1>2, <1>3 DEF AccountTypeOK
<1>5. Families'
  BY <1>2, <1>3 DEF Families, FamilyStory, AccountTypeOK
<1> QED BY <1>4, <1>5 DEF GuessesCounted, DemoPlanned

(* Only the newest credential of a family that is neither closed nor       *)
(* replayed is exchanged, and it is used from then on.                     *)
LEMMA RotateInv ==
  ASSUME AccountInv, NEW f \in opened, NEW n \in DOMAIN credential[f], Rotate(f, n)
  PROVE  AccountInv'
<1> USE LifecycleAssumption DEF AccountInv, Rotate
<1> DEFINE Credential == [used : BOOLEAN, revoked : BOOLEAN, expiresAt : Nat]
<1>1. /\ f \in Family
      /\ family[f].latest \in Nat
      /\ credential[f] \in [0 .. family[f].latest -> Credential]
  BY DEF AccountTypeOK
<1>2. n = family[f].latest /\ ~ family[f].revoked /\ ~ credential[f][n].revoked
  BY <1>1 DEF RotationAllowed, Spent
<1>3. f \notin closed /\ f \notin replayed
  BY <1>1, <1>2 DEF Families, FamilyStory
<1>4. /\ ~ family'[f].revoked /\ family'[f].latest = n + 1
      /\ family' \in [Family -> [revoked : BOOLEAN, latest : Nat]]
      /\ \A g \in Family \ {f} : family'[g] = family[g]
  <2>1. family'[f] = [family[f] EXCEPT !.latest = n + 1] /\ n + 1 \in Nat
    BY <1>1, <1>2 DEF AccountTypeOK
  <2>2. family[f] \in [revoked : BOOLEAN, latest : Nat]
    BY <1>1 DEF AccountTypeOK
  <2>3. family'[f] \in [revoked : BOOLEAN, latest : Nat] /\ family'[f].latest = n + 1
        /\ family'[f].revoked = family[f].revoked
    BY <2>1, <2>2
  <2> QED BY <1>1, <1>2, <2>3 DEF AccountTypeOK
<1>5. DOMAIN credential[f] \cup {n + 1} = 0 .. n + 1
  BY <1>1, <1>2
<1>6. /\ credential'[f] =
           [k \in 0 .. n + 1 |->
              IF k = n + 1 THEN [used |-> FALSE, revoked |-> FALSE, expiresAt |-> now + RefreshLife]
              ELSE IF k = n THEN [credential[f][n] EXCEPT !.used = TRUE]
              ELSE credential[f][k]]
      /\ \A g \in Family \ {f} : credential'[g] = credential[g]
  BY <1>1, <1>5 DEF Families
<1>7. credential'[f] \in [0 .. n + 1 -> Credential]
  <2>1. now + RefreshLife \in Nat
    BY DEF AccountTypeOK
  <2>2. n \in Nat /\ n \in 0 .. family[f].latest
        /\ \A k \in 0 .. n + 1 : k # n + 1 => k \in 0 .. family[f].latest
    BY <1>1, <1>2
  <2> DEFINE issued == [used |-> FALSE, revoked |-> FALSE, expiresAt |-> now + RefreshLife]
             spent == [credential[f][n] EXCEPT !.used = TRUE]
  <2>3. issued \in Credential /\ spent \in Credential
    BY <1>1, <1>2, <2>1
  <2>4. \A k \in 0 .. n + 1 :
          (IF k = n + 1 THEN issued ELSE IF k = n THEN spent ELSE credential[f][k]) \in Credential
    <3> HIDE DEF issued, spent
    <3> QED BY <1>1, <2>2, <2>3
  <2>5. credential'[f] = [k \in 0 .. n + 1 |->
          IF k = n + 1 THEN issued ELSE IF k = n THEN spent ELSE credential[f][k]]
    BY <1>6
  <2> HIDE DEF issued, spent, Credential
  <2> QED BY <2>4, <2>5
<1>8. \A k \in 0 .. n + 1 : k < n + 1 => credential'[f][k].used
  <2>1. ASSUME NEW k \in 0 .. n + 1, k < n + 1 PROVE credential'[f][k].used
    <3>1. CASE k = n
      BY <1>1, <1>2, <1>6, <3>1
    <3>2. CASE k # n
      <4>1. k \in 0 .. family[f].latest /\ k < family[f].latest /\ k # n + 1
        BY <1>1, <1>2, <2>1, <3>2
      <4> QED BY <1>1, <1>6, <3>2, <4>1 DEF Families, FamilyStory
    <3> QED BY <3>1, <3>2
  <2> QED BY <2>1
<1>9. AccountTypeOK'
  <2>1. now + AccessLife \in Expiry
    BY DEF AccountTypeOK, Expiry
  <2>2. session' \in [Family -> [revoked : BOOLEAN, expiresAt : Expiry]]
    BY <2>1 DEF AccountTypeOK
  <2>3. grants' \in [Family -> Nat]
    BY <1>1 DEF AccountTypeOK
  <2>4. \A g \in opened : credential'[g] \in [0 .. family'[g].latest -> Credential]
    <3>1. ASSUME NEW g \in opened PROVE credential'[g] \in [0 .. family'[g].latest -> Credential]
      <4>1. CASE g = f
        <5>1. 0 .. family'[f].latest = 0 .. n + 1
          BY <1>4
        <5> QED BY <1>7, <4>1, <5>1
      <4>2. CASE g # f
        BY <1>4, <1>6, <4>2 DEF AccountTypeOK
      <4> QED BY <4>1, <4>2
    <3> QED BY <3>1
  <2> QED BY <1>4, <2>2, <2>3, <2>4 DEF AccountTypeOK
<1>10. Families'
  <2>1. credential' = [g \in Family |-> credential'[g]]
    BY DEF Families
  <2>2. ASSUME NEW g \in Family PROVE FamilyStory(g)'
    <3>1. CASE g = f
      <4>1. grants'[f] = family'[f].latest
        BY <1>1, <1>2, <1>4 DEF Families, FamilyStory, AccountTypeOK
      <4>2. \A k \in 0 .. family'[f].latest : k < family'[f].latest => credential'[f][k].used
        BY <1>4, <1>8
      <4>3. f \in opened' /\ f \notin closed' /\ f \notin replayed'
        BY <1>3
      <4> QED BY <3>1, <4>1, <4>2, <4>3 DEF FamilyStory
    <3>2. CASE g # f
      <4>1. grants'[g] = grants[g] /\ session'[g] = session[g]
        BY <1>1, <3>2 DEF AccountTypeOK
      <4> QED BY <1>4, <1>6, <3>2, <4>1 DEF Families, FamilyStory
    <3> QED BY <3>1, <3>2
  <2> QED BY <2>1, <2>2 DEF Families
<1> QED BY <1>9, <1>10 DEF GuessesCounted, DemoPlanned

LEMMA AccountStepInv == AccountInv /\ [AccountNext]_accountVars => AccountInv'
<1> SUFFICES ASSUME AccountInv, [AccountNext]_accountVars PROVE AccountInv'
  OBVIOUS
<1>1. CASE AccountTick
  BY <1>1, TickInv
<1>2. ASSUME NEW role \in Role, NEW expiresAt \in 1 .. AccountHorizon \cup {Never},
             ProvisionRegular(role, expiresAt)
      PROVE  AccountInv'
  BY <1>2, ProvisionInv DEF ProvisionRegular, Expiry
<1>3. ASSUME NEW role \in Role, NEW expiresAt \in 1 .. AccountHorizon \cup {Never},
             NEW scope \in DataScope, NEW requester \in Person, NEW approver \in Person,
             ProvisionDemo(role, scope, expiresAt, requester, approver)
      PROVE  AccountInv'
  BY <1>3, ProvisionDemoInv
<1>4. CASE AcceptInvitation
  BY <1>4, AcceptInv
<1>5. CASE GuessInvitation
  BY <1>5, GuessInv
<1>6. ASSUME NEW event, Activate(event) PROVE AccountInv'
  BY <1>6, ActivateInv
<1>7. ASSUME NEW event \in RevokesSessionFamilies, NEW target \in AccountState,
             Deactivate(event, target)
      PROVE  AccountInv'
  BY <1>7, DeactivateInv
<1>8. CASE Govern
  BY <1>8, GovernInv
<1>9. ASSUME NEW f \in Family, SignIn(f) \/ SignOut(f) PROVE AccountInv'
  BY <1>9, SignInInv, SignOutInv
<1>10. ASSUME NEW f \in opened, NEW n \in DOMAIN credential[f], PresentSpent(f, n) \/ Rotate(f, n)
       PROVE  AccountInv'
  BY <1>10, PresentSpentInv, RotateInv
<1>11. CASE UNCHANGED accountVars
  <2>1. UNCHANGED <<now, account, assignment, mfa, invitation, opened, family, credential, session,
                    closed, replayed, grants, guesses>>
    BY <1>11 DEF accountVars, sessions, history
  <2>2. AccountTypeOK'
    BY <2>1 DEF AccountInv, AccountTypeOK
  <2>3. Families'
    BY <2>1, FamiliesKept DEF AccountInv, sessions
  <2> QED BY <2>1, <2>2, <2>3 DEF AccountInv, GuessesCounted, DemoPlanned
<1> QED
  BY <1>1, <1>2, <1>3, <1>4, <1>5, <1>6, <1>7, <1>8, <1>9, <1>10, <1>11 DEF AccountNext

LEMMA AccountAlwaysInv == AccountSpec => []AccountInv
BY AccountInitInv, AccountStepInv, PTL DEF AccountSpec

-----------------------------------------------------------------------------
(* The records of the account, its invitation and its sessions keep the    *)
(* shape the lifecycle checks before it decides anything.                  *)
THEOREM AccountTypes == AccountSpec => []AccountTypeOK
<1>1. AccountInv => AccountTypeOK
  BY DEF AccountInv
<1> QED BY <1>1, AccountAlwaysInv, PTL

\* of a family, the credential that can still be exchanged is the newest one
LEMMA OnlyTheNewestRotates ==
  ASSUME AccountInv, NEW f \in opened, NEW n \in DOMAIN credential[f], RotationAllowed(f, n)
  PROVE  n = family[f].latest /\ ~ family[f].revoked /\ ~ credential[f][n].revoked
BY DEF AccountInv, AccountTypeOK, RotationAllowed, Spent

(* A session that was open when its account was suspended, expired or      *)
(* revoked, that was signed out, or a spent credential of which was        *)
(* presented, never works again, and none of its credentials is exchanged. *)
THEOREM EndedForGood == AccountSpec => []EndedStaysEnded
<1>1. ASSUME AccountInv PROVE EndedStaysEnded
  <2> SUFFICES ASSUME NEW f \in closed \cup replayed
               PROVE  ~ SessionWorks(f) /\ \A n \in DOMAIN credential[f] : ~ RotationAllowed(f, n)
    BY DEF EndedStaysEnded
  <2>1. f \in opened /\ f \in Family
    BY <1>1 DEF AccountInv, AccountTypeOK
  <2>2. family[f].revoked \/ (session[f].revoked /\ credential[f][family[f].latest].revoked)
    BY <1>1, <2>1 DEF AccountInv, Families, FamilyStory
  <2> QED BY <1>1, <2>1, <2>2, OnlyTheNewestRotates DEF SessionWorks
<1> QED BY <1>1, AccountAlwaysInv, PTL

(* Each credential is exchanged at most once: a family has one that is     *)
(* unused, and as many rotations as its latest sequence says.              *)
THEOREM EachHasOneHeir == AccountSpec => []OneHeir
<1>1. ASSUME AccountInv PROVE OneHeir
  <2> SUFFICES ASSUME NEW f \in opened
               PROVE  /\ grants[f] = family[f].latest
                      /\ \A m, n \in DOMAIN credential[f] :
                           ~ credential[f][m].used /\ ~ credential[f][n].used => m = n
    BY DEF OneHeir
  <2>1. /\ f \in Family
        /\ family[f].latest \in Nat
        /\ DOMAIN credential[f] = 0 .. family[f].latest
    BY <1>1 DEF AccountInv, AccountTypeOK
  <2>2. /\ grants[f] = family[f].latest
        /\ \A n \in 0 .. family[f].latest : n < family[f].latest => credential[f][n].used
    BY <1>1, <2>1 DEF AccountInv, Families, FamilyStory
  <2> QED BY <2>1, <2>2
<1> QED BY <1>1, AccountAlwaysInv, PTL

(* At most MaxAttempts wrong digests are ever compared with an invitation, *)
(* and after the last one it admits nobody.                                *)
THEOREM GuessesEnd == AccountSpec => []GuessesAreBounded
<1>1. ASSUME AccountInv PROVE GuessesAreBounded
  BY <1>1, LifecycleAssumption
     DEF AccountInv, AccountTypeOK, GuessesCounted, GuessesAreBounded, InvitationUsable
<1> QED BY <1>1, AccountAlwaysInv, PTL

(* A demo account gives no access after MAX_DEMO_DURATION_MS, and nothing  *)
(* makes it active again.                                                  *)
THEOREM DemoIsOver == AccountSpec => []DemoEndsInTime
<1>1. ASSUME AccountInv PROVE DemoEndsInTime
  <2> SUFFICES ASSUME account.demoUntil # Never, account.demoUntil <= now
               PROVE  /\ \A f \in Family : ~ SessionWorks(f)
                      /\ \A f \in opened : \A n \in DOMAIN credential[f] : ~ RotationAllowed(f, n)
                      /\ \A event \in {"ACCEPT_INVITATION", "COMPLETE_FIRST_LOGIN", "REINSTATE"},
                            target \in AccountState : ~ Admitted(event, target)
    BY DEF DemoEndsInTime
  <2>1. account.expiresAt # Never /\ account.expiresAt <= account.demoUntil
    BY <1>1 DEF AccountInv, DemoPlanned
  <2>2. account.expiresAt \in Nat /\ account.demoUntil \in Nat /\ now \in Nat
    BY <1>1, <2>1 DEF AccountInv, AccountTypeOK, Expiry
  <2>3. Past(account.expiresAt)
    BY <2>1, <2>2 DEF Past
  <2> QED BY <2>3 DEF SessionWorks, RotationAllowed, AccessAllowed, Admitted
<1> QED BY <1>1, AccountAlwaysInv, PTL
=============================================================================
