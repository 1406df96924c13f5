---------------------------- MODULE PeopleProofs ----------------------------
(***************************************************************************)
(* Theorems about Accounts, for any number of accounts, invites,           *)
(* challenges and requests, and about BrokerLinks, for any people, visits  *)
(* and number of changes.                                                  *)
(*                                                                         *)
(* RemovalIsComplete is inductive by itself: the foreign keys and the      *)
(* removal's transaction are all it rests on.  The others of Accounts      *)
(* follow a request through its calls: what the challenge it answers was   *)
(* about (Answered), that the invite it used up is used for good and by it *)
(* alone (Won), and that what it opens is what it should (Opened).         *)
(* Because an account id is never given twice (Known), an account once     *)
(* removed stays removed while a request still holds its id.               *)
(*                                                                         *)
(* Both properties of BrokerLinks follow a visit between two of its calls. *)
(* A visit that registered somebody and has not stored the secret yet      *)
(* still holds one that reaches SnapTrade, or that a removal has left half *)
(* way, unless its person is gone (Reaching).  A visit with a read in hand *)
(* that is older than the last forgetting was noticed by it (Noticed).     *)
(***************************************************************************)
EXTENDS Accounts, BrokerLinks, TLAPS

-----------------------------------------------------------------------------
(* Accounts and passkeys *)


\* A request holds only ids that were given to an account.
Known ==
  /\ \A i \in Invite : forUser[i] \in born \cup {NoOne}
  /\ \A r \in Request : opens[r] \in born \cup {NoOne}

Accepted == Points \ {"idle", "found", "unfit", "failed", "refused"}

\* What a request knows of the challenge it answers.
Answered ==
  \A r \in Request :
    /\ at[r] = "idle" => opens[r] = NoOne
    /\ at[r] # "idle" => /\ answers[r] \in Challenge /\ with[r] \in Challenge
                         /\ challenge[answers[r]] # "none"
    /\ at[r] \in {"invited", "fresh", "spent"} => route[r] = "register"
    /\ at[r] \in Accepted \cup {"found"} => (route[r] = "login" <=> OnInvite(r) = NoOne)
    /\ at[r] \in Accepted => challenge[answers[r]] = "deleted"

\* The request is past use_invite.
Past(r) == route[r] = "register" /\ (at[r] \in {"spent", "resolved", "saved", "done"}
                                      \/ opens[r] # NoOne)

\* An invite is used up once, and whoever got past it is the one who did.
Won ==
  /\ \A i \in Invite : usedBy[i] # NoOne => invite[i] \in {"used", "deleted"}
  /\ \A r \in Request : Past(r) => OnInvite(r) \in Invite /\ usedBy[OnInvite(r)] = r

\* Where a request has arrived, it has arrived rightly.
Opened ==
  \A r \in Request : at[r] \in {"resolved", "saved", "done"} =>
    /\ opens[r] # NoOne
    /\ route[r] = "register" /\ forUser[OnInvite(r)] # NoOne =>
         opens[r] = forUser[OnInvite(r)]
    /\ (at[r] # "resolved" \/ route[r] = "login") /\ opens[r] \in users =>
         passkey[with[r]] = opens[r]

IInv == /\ TypeOK /\ RemovalIsComplete /\ Known /\ Answered
        /\ Won /\ Opened /\ SessionHasPasskey

USE NoOneAssumption DEF Points, Ended, Goto, rows, asked, request

\* The initial states satisfy the inductive invariant.
LEMMA InitInvariant == Init => IInv
<1> SUFFICES ASSUME Init PROVE IInv
  OBVIOUS
<1>1. TypeOK
  BY DEF Init, TypeOK
<1>2. RemovalIsComplete /\ Known /\ SessionHasPasskey
  BY DEF Init, RemovalIsComplete, Known, SessionHasPasskey
<1>3. Answered /\ Won /\ Opened
  BY DEF Init, Answered, Won, Opened, Accepted, Past, OnInvite
<1> QED
  BY <1>1, <1>2, <1>3 DEF IInv

\* Removal stays complete: a foreign key guards each insertion, and what
\* remove_user takes away it takes away in one transaction.
LEMMA RemovalStep ==
  ASSUME TypeOK, RemovalIsComplete,
         [Next]_vars
  PROVE  RemovalIsComplete'
<1> USE DEF TypeOK, RemovalIsComplete
<1>1. ASSUME NEW i \in Invite, NEW target \in users \cup {NoOne},
             CreateInvite(i, target)
      PROVE  RemovalIsComplete'
  BY <1>1 DEF CreateInvite
<1>2. ASSUME NEW i \in Invite, CancelInvite(i)
      PROVE  RemovalIsComplete'
  BY <1>2 DEF CancelInvite
<1>3. ASSUME NEW i \in Invite, InviteExpires(i)
      PROVE  RemovalIsComplete'
  BY <1>3 DEF InviteExpires
<1>4. ASSUME NEW r \in Request, UseInvite(r)
      PROVE  RemovalIsComplete'
  BY <1>4 DEF UseInvite
<1>5. ASSUME NEW r \in Request, NEW a \in Account, CreateUser(r, a)
      PROVE  RemovalIsComplete'
  BY <1>5 DEF CreateUser
<1>6. ASSUME NEW r \in Request, AddCredential(r)
      PROVE  RemovalIsComplete'
  BY <1>6 DEF AddCredential
<1>7. ASSUME NEW r \in Request, StartSession(r)
      PROVE  RemovalIsComplete'
  BY <1>7 DEF StartSession
<1>8. ASSUME NEW r \in Request, EndSession(r)
      PROVE  RemovalIsComplete'
  BY <1>8 DEF EndSession
<1>9. ASSUME NEW a \in Account, EndSessionsFor(a)
      PROVE  RemovalIsComplete'
  BY <1>9 DEF EndSessionsFor
<1>10. ASSUME NEW a \in Account, RemoveUser(a)
      PROVE  RemovalIsComplete'
  BY <1>10 DEF RemoveUser
<1>11. CASE UNCHANGED <<users, session, passkey, invite, forUser>>
  BY <1>11
<1> QED
  BY <1>1, <1>2, <1>3, <1>4, <1>5, <1>6, <1>7, <1>8, <1>9, <1>10,
      <1>11
     DEF Next, vars, RegistrationOptions, Issue, LoginOptions,
      ChallengeExpires, ReadChallenge, DeleteChallenge, CheckInvite,
      CheckPasskey, FindUser, FindPasskey, CheckUser, Unverified, StoreRaises

\* Every id a request or an invite holds was once an account's.
LEMMA KnownStep ==
  ASSUME TypeOK, RemovalIsComplete, Known, Answered, Won,
         [Next]_vars
  PROVE  Known'
<1> USE DEF TypeOK, RemovalIsComplete, Known
<1>1. ASSUME NEW i \in Invite, NEW target \in users \cup {NoOne},
             CreateInvite(i, target)
      PROVE  Known'
  BY <1>1 DEF CreateInvite
<1>2. ASSUME NEW r \in Request, FindUser(r)
      PROVE  Known'
  <2>1. OnInvite(r) \in Invite
    BY <1>2 DEF FindUser, Won, Past, Answered
  <2> QED
    BY <1>2, <2>1 DEF FindUser
<1>3. ASSUME NEW r \in Request, NEW a \in Account, CreateUser(r, a)
      PROVE  Known'
  BY <1>3 DEF CreateUser
<1>4. ASSUME NEW r \in Request, FindPasskey(r)
      PROVE  Known'
  <2>1. with[r] \in Challenge
    BY <1>4 DEF FindPasskey, Answered
  <2> QED
    BY <1>4, <2>1 DEF FindPasskey
<1>5. CASE UNCHANGED <<born, forUser, opens>>
  BY <1>5
<1> QED
  BY <1>1, <1>2, <1>3, <1>4, <1>5
     DEF Next, vars, CancelInvite,
      InviteExpires, RegistrationOptions, Issue, LoginOptions,
      ChallengeExpires, ReadChallenge, DeleteChallenge, CheckInvite,
      CheckPasskey, UseInvite, AddCredential, CheckUser, StartSession,
      Unverified, StoreRaises, EndSession, EndSessionsFor, RemoveUser

\* Types.  The account found for an invite or a passkey is one because the
\* request answers a real challenge.
LEMMA TypesStep ==
  ASSUME TypeOK, Answered, Won,
         [Next]_vars
  PROVE  TypeOK'
<1> USE DEF TypeOK
<1>1. ASSUME NEW i \in Invite, NEW target \in users \cup {NoOne},
             CreateInvite(i, target)
      PROVE  TypeOK'
  BY <1>1 DEF CreateInvite
<1>2. ASSUME NEW i \in Invite, CancelInvite(i)
      PROVE  TypeOK'
  BY <1>2 DEF CancelInvite
<1>3. ASSUME NEW i \in Invite, InviteExpires(i)
      PROVE  TypeOK'
  BY <1>3 DEF InviteExpires
<1>4. ASSUME NEW i \in Invite, NEW c \in Challenge, RegistrationOptions(c, i)
      PROVE  TypeOK'
  BY <1>4 DEF RegistrationOptions, Issue
<1>5. ASSUME NEW c \in Challenge, LoginOptions(c)
      PROVE  TypeOK'
  BY <1>5 DEF LoginOptions, Issue
<1>6. ASSUME NEW c \in Challenge, ChallengeExpires(c)
      PROVE  TypeOK'
  BY <1>6 DEF ChallengeExpires
<1>7. ASSUME NEW r \in Request, NEW kind \in {"register", "login"},
             NEW c \in Challenge, NEW k \in Challenge, ReadChallenge(r, kind, c, k)
      PROVE  TypeOK'
  BY <1>7 DEF ReadChallenge, Fits
<1>8. ASSUME NEW r \in Request, DeleteChallenge(r)
      PROVE  TypeOK'
  BY <1>8 DEF DeleteChallenge
<1>9. ASSUME NEW r \in Request, CheckInvite(r)
      PROVE  TypeOK'
  BY <1>9 DEF CheckInvite
<1>10. ASSUME NEW r \in Request, CheckPasskey(r)
      PROVE  TypeOK'
  BY <1>10 DEF CheckPasskey
<1>11. ASSUME NEW r \in Request, UseInvite(r)
      PROVE  TypeOK'
  BY <1>11 DEF UseInvite
<1>12. ASSUME NEW r \in Request, FindUser(r)
      PROVE  TypeOK'
  <2>1. OnInvite(r) \in Invite
    BY <1>12 DEF FindUser, Won, Past, Answered
  <2> QED
    BY <1>12, <2>1 DEF FindUser
<1>13. ASSUME NEW r \in Request, NEW a \in Account, CreateUser(r, a)
      PROVE  TypeOK'
  BY <1>13 DEF CreateUser
<1>14. ASSUME NEW r \in Request, AddCredential(r)
      PROVE  TypeOK'
  BY <1>14 DEF AddCredential
<1>15. ASSUME NEW r \in Request, FindPasskey(r)
      PROVE  TypeOK'
  <2>1. with[r] \in Challenge
    BY <1>15 DEF FindPasskey, Answered
  <2> QED
    BY <1>15, <2>1 DEF FindPasskey
<1>16. ASSUME NEW r \in Request, CheckUser(r)
      PROVE  TypeOK'
  BY <1>16 DEF CheckUser
<1>17. ASSUME NEW r \in Request, StartSession(r)
      PROVE  TypeOK'
  BY <1>17 DEF StartSession
<1>18. ASSUME NEW r \in Request, Unverified(r)
      PROVE  TypeOK'
  BY <1>18 DEF Unverified
<1>19. ASSUME NEW r \in Request, StoreRaises(r)
      PROVE  TypeOK'
  BY <1>19 DEF StoreRaises
<1>20. ASSUME NEW r \in Request, EndSession(r)
      PROVE  TypeOK'
  BY <1>20 DEF EndSession
<1>21. ASSUME NEW a \in Account, EndSessionsFor(a)
      PROVE  TypeOK'
  BY <1>21 DEF EndSessionsFor
<1>22. ASSUME NEW a \in Account, RemoveUser(a)
      PROVE  TypeOK'
  BY <1>22 DEF RemoveUser
<1>23. CASE UNCHANGED vars
  BY <1>23 DEF vars
<1> QED
  BY <1>1, <1>2, <1>3, <1>4, <1>5, <1>6, <1>7, <1>8, <1>9, <1>10, <1>11,
      <1>12, <1>13, <1>14, <1>15, <1>16, <1>17, <1>18, <1>19, <1>20, <1>21,
      <1>22, <1>23
     DEF Next, vars

\* The challenge a request answers was issued for it and, once accepted, gone.
LEMMA AnsweredStep ==
  ASSUME TypeOK, Answered,
         [Next]_vars
  PROVE  Answered'
<1> USE DEF TypeOK, Answered, Accepted, OnInvite
<1>1. ASSUME NEW i \in Invite, NEW c \in Challenge, RegistrationOptions(c, i)
      PROVE  Answered'
  BY <1>1 DEF RegistrationOptions, Issue
<1>2. ASSUME NEW c \in Challenge, LoginOptions(c)
      PROVE  Answered'
  BY <1>2 DEF LoginOptions, Issue
<1>3. ASSUME NEW c \in Challenge, ChallengeExpires(c)
      PROVE  Answered'
  BY <1>3 DEF ChallengeExpires
<1>4. ASSUME NEW r \in Request, NEW kind \in {"register", "login"},
             NEW c \in Challenge, NEW k \in Challenge, ReadChallenge(r, kind, c, k)
      PROVE  Answered'
  BY <1>4 DEF ReadChallenge, Fits
<1>5. ASSUME NEW r \in Request, DeleteChallenge(r)
      PROVE  Answered'
  BY <1>5 DEF DeleteChallenge
<1>6. ASSUME NEW r \in Request, CheckInvite(r)
      PROVE  Answered'
  BY <1>6 DEF CheckInvite
<1>7. ASSUME NEW r \in Request, CheckPasskey(r)
      PROVE  Answered'
  BY <1>7 DEF CheckPasskey
<1>8. ASSUME NEW r \in Request, UseInvite(r)
      PROVE  Answered'
  BY <1>8 DEF UseInvite
<1>9. ASSUME NEW r \in Request, FindUser(r)
      PROVE  Answered'
  BY <1>9 DEF FindUser
<1>10. ASSUME NEW r \in Request, NEW a \in Account, CreateUser(r, a)
      PROVE  Answered'
  BY <1>10 DEF CreateUser
<1>11. ASSUME NEW r \in Request, AddCredential(r)
      PROVE  Answered'
  BY <1>11 DEF AddCredential
<1>12. ASSUME NEW r \in Request, FindPasskey(r)
      PROVE  Answered'
  BY <1>12 DEF FindPasskey
<1>13. ASSUME NEW r \in Request, CheckUser(r)
      PROVE  Answered'
  BY <1>13 DEF CheckUser
<1>14. ASSUME NEW r \in Request, StartSession(r)
      PROVE  Answered'
  BY <1>14 DEF StartSession
<1>15. ASSUME NEW r \in Request, Unverified(r)
      PROVE  Answered'
  BY <1>15 DEF Unverified
<1>16. ASSUME NEW r \in Request, StoreRaises(r)
      PROVE  Answered'
  BY <1>16 DEF StoreRaises
<1>17. CASE UNCHANGED <<at, opens, route, answers, with, challenge, about>>
  BY <1>17
<1> QED
  BY <1>1, <1>2, <1>3, <1>4, <1>5, <1>6, <1>7, <1>8, <1>9, <1>10, <1>11,
      <1>12, <1>13, <1>14, <1>15, <1>16, <1>17
     DEF Next, vars,
      CreateInvite, CancelInvite, InviteExpires, EndSession, EndSessionsFor,
      RemoveUser

\* A used invite stays used, by the request that used it.
LEMMA WonStep ==
  ASSUME TypeOK, Answered, Won,
         [Next]_vars
  PROVE  Won'
<1> USE DEF TypeOK, Answered, Accepted, Won, Past, OnInvite
<1>1. ASSUME NEW i \in Invite, NEW target \in users \cup {NoOne},
             CreateInvite(i, target)
      PROVE  Won'
  BY <1>1 DEF CreateInvite
<1>2. ASSUME NEW i \in Invite, CancelInvite(i)
      PROVE  Won'
  BY <1>2 DEF CancelInvite
<1>3. ASSUME NEW i \in Invite, InviteExpires(i)
      PROVE  Won'
  BY <1>3 DEF InviteExpires
<1>4. ASSUME NEW i \in Invite, NEW c \in Challenge, RegistrationOptions(c, i)
      PROVE  Won'
  BY <1>4 DEF RegistrationOptions, Issue
<1>5. ASSUME NEW c \in Challenge, LoginOptions(c)
      PROVE  Won'
  BY <1>5 DEF LoginOptions, Issue
<1>6. ASSUME NEW r \in Request, NEW kind \in {"register", "login"},
             NEW c \in Challenge, NEW k \in Challenge, ReadChallenge(r, kind, c, k)
      PROVE  Won'
  BY <1>6 DEF ReadChallenge, Fits
<1>7. ASSUME NEW r \in Request, DeleteChallenge(r)
      PROVE  Won'
  BY <1>7 DEF DeleteChallenge
<1>8. ASSUME NEW r \in Request, CheckInvite(r)
      PROVE  Won'
  BY <1>8 DEF CheckInvite
<1>9. ASSUME NEW r \in Request, CheckPasskey(r)
      PROVE  Won'
  BY <1>9 DEF CheckPasskey
<1>10. ASSUME NEW r \in Request, UseInvite(r)
      PROVE  Won'
  BY <1>10 DEF UseInvite
<1>11. ASSUME NEW r \in Request, FindUser(r)
      PROVE  Won'
  BY <1>11 DEF FindUser
<1>12. ASSUME NEW r \in Request, NEW a \in Account, CreateUser(r, a)
      PROVE  Won'
  BY <1>12 DEF CreateUser
<1>13. ASSUME NEW r \in Request, AddCredential(r)
      PROVE  Won'
  BY <1>13 DEF AddCredential
<1>14. ASSUME NEW r \in Request, FindPasskey(r)
      PROVE  Won'
  BY <1>14 DEF FindPasskey
<1>15. ASSUME NEW r \in Request, CheckUser(r)
      PROVE  Won'
  BY <1>15 DEF CheckUser
<1>16. ASSUME NEW r \in Request, StartSession(r)
      PROVE  Won'
  BY <1>16 DEF StartSession
<1>17. ASSUME NEW r \in Request, Unverified(r)
      PROVE  Won'
  BY <1>17 DEF Unverified
<1>18. ASSUME NEW r \in Request, StoreRaises(r)
      PROVE  Won'
  BY <1>18 DEF StoreRaises
<1>19. ASSUME NEW a \in Account, RemoveUser(a)
      PROVE  Won'
  BY <1>19 DEF RemoveUser
<1>20. CASE UNCHANGED <<usedBy, invite, at, opens, route, answers, about>>
  BY <1>20
<1> QED
  BY <1>1, <1>2, <1>3, <1>4, <1>5, <1>6, <1>7, <1>8, <1>9, <1>10, <1>11,
      <1>12, <1>13, <1>14, <1>15, <1>16, <1>17, <1>18, <1>19,
      <1>20
     DEF Next, vars, ChallengeExpires, EndSession, EndSessionsFor

\* What a request opens stays what it should be: an invite past use keeps whom
\* it was for, a passkey is never registered over, and an id never comes back.
LEMMA OpenedStep ==
  ASSUME TypeOK, RemovalIsComplete, Known, Answered, Won, Opened,
         [Next]_vars
  PROVE  Opened'
<1> USE DEF TypeOK, RemovalIsComplete, Known, Answered, Accepted, Won, Past,
      Opened, OnInvite
<1>1. ASSUME NEW i \in Invite, NEW target \in users \cup {NoOne},
             CreateInvite(i, target)
      PROVE  Opened'
  BY <1>1 DEF CreateInvite
<1>2. ASSUME NEW i \in Invite, NEW c \in Challenge, RegistrationOptions(c, i)
      PROVE  Opened'
  BY <1>2 DEF RegistrationOptions, Issue
<1>3. ASSUME NEW c \in Challenge, LoginOptions(c)
      PROVE  Opened'
  BY <1>3 DEF LoginOptions, Issue
<1>4. ASSUME NEW r \in Request, NEW kind \in {"register", "login"},
             NEW c \in Challenge, NEW k \in Challenge, ReadChallenge(r, kind, c, k)
      PROVE  Opened'
  BY <1>4 DEF ReadChallenge, Fits
<1>5. ASSUME NEW r \in Request, DeleteChallenge(r)
      PROVE  Opened'
  BY <1>5 DEF DeleteChallenge
<1>6. ASSUME NEW r \in Request, CheckInvite(r)
      PROVE  Opened'
  BY <1>6 DEF CheckInvite
<1>7. ASSUME NEW r \in Request, CheckPasskey(r)
      PROVE  Opened'
  BY <1>7 DEF CheckPasskey
<1>8. ASSUME NEW r \in Request, UseInvite(r)
      PROVE  Opened'
  BY <1>8 DEF UseInvite
<1>9. ASSUME NEW r \in Request, FindUser(r)
      PROVE  Opened'
  BY <1>9 DEF FindUser
<1>10. ASSUME NEW r \in Request, NEW a \in Account, CreateUser(r, a)
      PROVE  Opened'
  BY <1>10 DEF CreateUser
<1>11. ASSUME NEW r \in Request, AddCredential(r)
      PROVE  Opened'
  BY <1>11 DEF AddCredential
<1>12. ASSUME NEW r \in Request, FindPasskey(r)
      PROVE  Opened'
  BY <1>12 DEF FindPasskey
<1>13. ASSUME NEW r \in Request, CheckUser(r)
      PROVE  Opened'
  BY <1>13 DEF CheckUser
<1>14. ASSUME NEW r \in Request, StartSession(r)
      PROVE  Opened'
  BY <1>14 DEF StartSession
<1>15. ASSUME NEW r \in Request, Unverified(r)
      PROVE  Opened'
  BY <1>15 DEF Unverified
<1>16. ASSUME NEW r \in Request, StoreRaises(r)
      PROVE  Opened'
  BY <1>16 DEF StoreRaises
<1>17. ASSUME NEW a \in Account, RemoveUser(a)
      PROVE  Opened'
  BY <1>17 DEF RemoveUser
<1>18. CASE UNCHANGED <<at, opens, route, answers, with, about, forUser, users, passkey>>
  BY <1>18
<1> QED
  BY <1>1, <1>2, <1>3, <1>4, <1>5, <1>6, <1>7, <1>8, <1>9, <1>10, <1>11,
      <1>12, <1>13, <1>14, <1>15, <1>16, <1>17, <1>18
     DEF Next, vars,
      CancelInvite, InviteExpires, ChallengeExpires, EndSession,
      EndSessionsFor

\* A session starts with a passkey registered, and only removal takes it away.
LEMMA SessionStep ==
  ASSUME TypeOK, RemovalIsComplete, Answered, Opened, SessionHasPasskey,
         [Next]_vars
  PROVE  SessionHasPasskey'
<1> USE DEF TypeOK, RemovalIsComplete, Opened, SessionHasPasskey
<1>1. ASSUME NEW r \in Request, AddCredential(r)
      PROVE  SessionHasPasskey'
  BY <1>1 DEF AddCredential
<1>2. ASSUME NEW r \in Request, StartSession(r)
      PROVE  SessionHasPasskey'
  <2>1. with[r] \in Challenge
    BY <1>2 DEF StartSession, Answered
  <2>2. opens[r] \in users => passkey[with[r]] = opens[r]
    BY <1>2 DEF StartSession
  <2> QED
    BY <1>2, <2>1, <2>2 DEF StartSession
<1>3. ASSUME NEW r \in Request, EndSession(r)
      PROVE  SessionHasPasskey'
  BY <1>3 DEF EndSession
<1>4. ASSUME NEW a \in Account, EndSessionsFor(a)
      PROVE  SessionHasPasskey'
  BY <1>4 DEF EndSessionsFor
<1>5. ASSUME NEW a \in Account, RemoveUser(a)
      PROVE  SessionHasPasskey'
  BY <1>5 DEF RemoveUser
<1>6. CASE UNCHANGED <<session, passkey>>
  BY <1>6
<1> QED
  BY <1>1, <1>2, <1>3, <1>4, <1>5, <1>6
     DEF Next, vars, CreateInvite,
      CancelInvite, InviteExpires, RegistrationOptions, Issue, LoginOptions,
      ChallengeExpires, ReadChallenge, DeleteChallenge, CheckInvite,
      CheckPasskey, UseInvite, FindUser, CreateUser, FindPasskey, CheckUser,
      Unverified, StoreRaises

\* The inductive invariant.
LEMMA Invariant == Spec => []IInv
<1>1. IInv /\ [Next]_vars => IInv'
  BY RemovalStep, KnownStep, TypesStep, AnsweredStep, WonStep, OpenedStep,
     SessionStep DEF IInv
<1> QED
  BY <1>1, InitInvariant, PTL DEF Spec

\* Every variable of the account store and of its requests keeps its type.
THEOREM TypeCorrect == Spec => []TypeOK
<1>1. IInv => TypeOK
  BY DEF IInv
<1> QED
  BY <1>1, Invariant, PTL

\* remove_user takes someone's access away completely, whatever request was
\* half way when it ran.
THEOREM RemovalCorrect == Spec => []RemovalIsComplete
<1>1. IInv => RemovalIsComplete
  BY DEF IInv
<1> QED
  BY <1>1, Invariant, PTL

\* An invite makes at most one account and one passkey, however many requests
\* complete it at once.
THEOREM InviteCorrect == Spec => []OneWinnerPerInvite
<1>1. IInv => OneWinnerPerInvite
  <2> SUFFICES ASSUME IInv PROVE OneWinnerPerInvite
    OBVIOUS
  <2>1. \A r \in Request : Past(r) => usedBy[OnInvite(r)] = r
    BY DEF IInv, Won
  <2> QED
    BY <2>1 DEF OneWinnerPerInvite, Past
<1> QED
  BY <1>1, Invariant, PTL

\* Whoever has a session has a passkey to start the next one with.
THEOREM SessionCorrect == Spec => []SessionHasPasskey
<1>1. IInv => SessionHasPasskey
  BY DEF IInv
<1> QED
  BY <1>1, Invariant, PTL

\* A ceremony opens the account its passkey or its invite names, no other.
THEOREM OpensCorrect == Spec => []OpensItsOwn
<1>1. IInv => OpensItsOwn
  BY DEF IInv, Opened, OpensItsOwn
<1> QED
  BY <1>1, Invariant, PTL

\* An accepted challenge was issued for the ceremony and no later read can
\* accept it.
THEOREM ChallengeCorrect == Spec => []AcceptedIsDeleted
<1>1. IInv => AcceptedIsDeleted
  BY DEF IInv, Answered, Accepted, AcceptedIsDeleted, OnInvite
<1> QED
  BY <1>1, Invariant, PTL

-----------------------------------------------------------------------------
(* Brokerage links *)

\* A visit under way is somebody's, and only one that has fetched holds a read.
Placed ==
  \A r \in Visit :
    /\ stop[r] # "idle" => who[r] \in Person
    /\ stop[r] \in {"connections fetched", "accounts fetched"} <=> got[r] # Nothing

Reaching ==
  \A r \in Visit : stop[r] = "registered" /\ who[r] \in people =>
    who[r] \in registered \cup halfway

\* The forgetting is never ahead of the links, and noticed every older read.
Noticed ==
  /\ \A p \in Person : floor[p] <= now[p]
  /\ \A r \in Visit : got[r] # Nothing /\ got[r] < floor[who[r]] => who[r] \in overlapped

LinkInv == /\ LinkTypeOK /\ Placed /\ Reaching /\ SecretReaches
           /\ Noticed /\ StaleOnlyFromInHand

HIDE NoOneAssumption DEF Points, Ended, Goto, rows, asked, request
USE DEF MovesTo, store, snaptrade, cached, page

\* The initial states satisfy the inductive invariant.
LEMMA LinkInitInvariant == LinkInit => LinkInv
  BY MaxChangesAssumption
     DEF LinkInit, LinkInv, LinkTypeOK, Placed, Reaching, SecretReaches, Noticed,
         StaleOnlyFromInHand, Key, Versions, Nothing, Stops

\* No version is taken for a missing one.
LEMMA NothingIsNoVersion == Nothing \notin Versions
  BY MaxChangesAssumption DEF Nothing, Versions

\* A hit shows a version.
LEMMA HitTypes ==
  ASSUME LinkTypeOK, NEW r \in Visit, NEW k \in Key, Hit(r, k)
  PROVE  who[r] \in Person /\ cache[who[r]][k] \in Versions
  BY DEF LinkTypeOK, Hit, SignedIn

\* The two points at which a read is in hand.
LEMMA FetchedStops ==
  ASSUME NEW k \in Key
  PROVE  Fetched[k] \in {"connections fetched", "accounts fetched"}
<1>1. CASE k = "connections"
  BY <1>1 DEF Fetched
<1>2. CASE k = "accounts"
  BY <1>2 DEF Fetched
<1> QED
  BY <1>1, <1>2 DEF Key

\* A value shown leaves the page with a value, and the visit at a point of its own.
LEMMA ShowsTypes ==
  ASSUME LinkTypeOK, NEW r \in Visit, NEW k \in Key, NEW v \in Versions, Shows(r, k, v)
  PROVE  /\ shows' \in [Visit -> Versions \cup {Nothing}]
         /\ stop' = [stop EXCEPT ![r] = stop'[r]]
         /\ stop' \in [Visit -> Stops]
         /\ stop'[r] \in {"accounts", "shown"}
<1>1. shows' \in [Visit -> Versions \cup {Nothing}]
  BY DEF Shows, LinkTypeOK
<1>2. PICK next \in {"accounts", "shown"} : stop' = [stop EXCEPT ![r] = next]
  <2>1. PICK next \in (IF k = "connections" THEN {"accounts", "shown"} ELSE {"shown"}) :
          MovesTo(r, next)
    BY DEF Shows
  <2>2. next \in {"accounts", "shown"}
    BY <2>1
  <2> QED
    BY <2>1, <2>2
<1>3. stop \in [Visit -> Stops] /\ {"accounts", "shown"} \subseteq Stops
  BY DEF LinkTypeOK, Stops
<1> QED
  BY <1>1, <1>2, <1>3

\* Every step keeps the types.
LEMMA LinkTypesStep ==
  ASSUME LinkTypeOK, Placed, [LinkNext]_linkVars
  PROVE  LinkTypeOK'
<1> USE DEF LinkTypeOK
<1>1. ASSUME NEW r \in Visit, NEW p \in Person, NEW point \in Stops,
             Arrives(r, p, point)
      PROVE  LinkTypeOK'
  BY <1>1 DEF Arrives, Stops
<1>2. ASSUME NEW r \in Visit, NEW p \in Person, AdminArrives(r, p)
      PROVE  LinkTypeOK'
  BY <1>2 DEF AdminArrives, Stops
<1>3. ASSUME NEW r \in Visit, NEW p \in Person, Refresh(r, p)
      PROVE  LinkTypeOK'
  BY <1>3 DEF Refresh, Stops
<1>4. ASSUME NEW r \in Visit, NEW k \in Key, Hit(r, k)
      PROVE  LinkTypeOK'
  <2>1. who[r] \in Person /\ cache[who[r]][k] \in Versions
    BY <1>4, HitTypes
  <2>2. Shows(r, k, cache[who[r]][k])
    BY <1>4 DEF Hit
  <2> QED
    BY <1>4, <2>1, <2>2, ShowsTypes DEF Hit
<1>5. ASSUME NEW r \in Visit, NEW k \in Key, Fetch(r, k)
      PROVE  LinkTypeOK'
  <2>1. {"shown", Fetched[k]} \subseteq Stops
    BY FetchedStops DEF Stops
  <2>2. got' \in [Visit -> Versions \cup {Nothing}] /\ stop' \in [Visit -> Stops]
    BY <1>5, <2>1 DEF Fetch, HasIdentity, SignedIn
  <2> QED
    BY <1>5, <2>2 DEF Fetch
<1>6. ASSUME NEW r \in Visit, NEW k \in Key, Put(r, k)
      PROVE  LinkTypeOK'
  <2>1. Fetched[k] \in {"connections fetched", "accounts fetched"} /\ Fetched[k] # "idle"
    BY FetchedStops
  <2>2. who[r] \in Person /\ got[r] \in Versions
    BY <1>6, <2>1 DEF Put, Placed
  <2>3. Shows(r, k, got[r])
    BY <1>6 DEF Put
  <2>4. cache' \in [Person -> [Key -> Versions \cup {Nothing}]]
    BY <1>6, <2>2 DEF Put
  <2> QED
    BY <1>6, <2>2, <2>3, <2>4, ShowsTypes DEF Put
<1>7. ASSUME NEW p \in Person, NEW k \in Key, Drops(p, k)
      PROVE  LinkTypeOK'
  BY <1>7 DEF Drops
<1>8. ASSUME NEW r \in Visit, Forget(r)
      PROVE  LinkTypeOK'
  <2>1. stop' \in [Visit -> Stops]
    BY <1>8 DEF Forget, Stops
  <2>2. CASE SignedIn(r)
    <3>1. who[r] \in Person
      BY <2>2 DEF SignedIn
    <3>2. floor' \in [Person -> Versions]
      BY <1>8, <2>2, <3>1 DEF Forget
    <3>3. cache' \in [Person -> [Key -> Versions \cup {Nothing}]]
      BY <1>8, <2>2, <3>1 DEF Forget
    <3>4. overlapped' \subseteq Person
      BY <1>8, <2>2, <3>1 DEF Forget
    <3> QED
      BY <1>8, <2>1, <3>2, <3>3, <3>4 DEF Forget
  <2>3. CASE ~SignedIn(r)
    BY <1>8, <2>1, <2>3 DEF Forget
  <2> QED
    BY <2>2, <2>3
<1>9. ASSUME NEW r \in Visit,
             \/ ReadIdentity(r) \/ RegisterRefused(r) \/ OwnConnection(r)
             \/ OpenPortal(r) \/ NeverLinked(r)
      PROVE  LinkTypeOK'
  BY <1>9 DEF ReadIdentity, RegisterRefused, OwnConnection, OpenPortal, NeverLinked, Stops
<1>10. ASSUME NEW r \in Visit, Register(r)
       PROVE  LinkTypeOK'
  BY <1>10 DEF Register, Stops, Placed
<1>11. ASSUME NEW r \in Visit, StoreSecret(r)
       PROVE  LinkTypeOK'
  BY <1>11 DEF StoreSecret, Stops
<1>12. ASSUME NEW r \in Visit, DeleteAtSnapTrade(r)
       PROVE  LinkTypeOK'
  BY <1>12 DEF DeleteAtSnapTrade, Stops
<1>13. ASSUME NEW r \in Visit, RemovesUser(r)
       PROVE  LinkTypeOK'
  BY <1>13 DEF RemovesUser, Stops
<1>14. ASSUME NEW r \in Visit, PortalLinks(r)
       PROVE  LinkTypeOK'
  <2>1. who[r] \in Person
    BY <1>14 DEF PortalLinks, Placed
  <2>2. now[who[r]] + 1 \in Versions
    BY <1>14, <2>1, MaxChangesAssumption DEF PortalLinks, Versions
  <2>3. now' \in [Person -> Versions] /\ stop' \in [Visit -> Stops]
    BY <1>14, <2>2 DEF PortalLinks, Stops
  <2> QED
    BY <1>14, <2>1, <2>3 DEF PortalLinks
<1>15. ASSUME NEW r \in Visit, RemoveConnection(r)
       PROVE  LinkTypeOK'
  <2>1. who[r] \in Person
    BY <1>15 DEF RemoveConnection, HasIdentity, SignedIn
  <2>2. now[who[r]] + 1 \in Versions
    BY <1>15, <2>1, MaxChangesAssumption DEF RemoveConnection, Versions
  <2>3. now' \in [Person -> Versions] /\ stop' \in [Visit -> Stops]
    BY <1>15, <2>2 DEF RemoveConnection, Stops
  <2> QED
    BY <1>15, <2>1, <2>3 DEF RemoveConnection
<1>16. ASSUME NEW r \in Visit, ClearCaches(r)
       PROVE  LinkTypeOK'
  BY <1>16 DEF ClearCaches, Stops
<1>17. ASSUME NEW r \in Visit, Fails(r)
       PROVE  LinkTypeOK'
  BY <1>17 DEF Fails, Stops
<1>18. CASE Restart
  BY <1>18 DEF Restart, Stops
<1>19. CASE UNCHANGED linkVars
  BY <1>19 DEF linkVars
<1> HIDE DEF LinkTypeOK
<1> QED
  BY <1>1, <1>2, <1>3, <1>4, <1>5, <1>6, <1>7, <1>8, <1>9, <1>10, <1>11, <1>12, <1>13, <1>14, <1>15, <1>16, <1>17, <1>18, <1>19
     DEF LinkNext

\* What one visit does leaves the others where they were.
LEMMA OneVisit ==
  ASSUME Placed, NEW r \in Visit,
         \A q \in Visit \ {r} : stop'[q] = stop[q] /\ who'[q] = who[q] /\ got'[q] = got[q],
         stop'[r] # "idle" => who'[r] \in Person,
         stop'[r] \in {"connections fetched", "accounts fetched"} <=> got'[r] # Nothing
  PROVE  Placed'
  BY DEF Placed

\* Every step keeps a read in hand where it can be.
LEMMA PlacedStep ==
  ASSUME LinkTypeOK, Placed, [LinkNext]_linkVars
  PROVE  Placed'
<1> USE DEF LinkTypeOK, Placed
<1>1. ASSUME NEW r \in Visit, NEW p \in Person, NEW point \in Stops,
             Arrives(r, p, point)
      PROVE  Placed'
  BY <1>1 DEF Arrives
<1>2. ASSUME NEW r \in Visit, NEW p \in Person, AdminArrives(r, p)
      PROVE  Placed'
  BY <1>2 DEF AdminArrives
<1>3. ASSUME NEW r \in Visit, NEW p \in Person, Refresh(r, p)
      PROVE  Placed'
  BY <1>3 DEF Refresh
<1>4. ASSUME NEW r \in Visit, NEW k \in Key, Hit(r, k)
      PROVE  Placed'
  <2>0. who[r] \in Person /\ cache[who[r]][k] \in Versions
    BY <1>4, HitTypes
  <2>1. cache[who[r]][k] \in Versions /\ Shows(r, k, cache[who[r]][k]) /\ who[r] \in Person
    BY <1>4, <2>0 DEF Hit
  <2>2. stop' = [stop EXCEPT ![r] = stop'[r]] /\ stop'[r] \in {"accounts", "shown"}
    BY <2>1, ShowsTypes
  <2>3. got[r] = Nothing /\ got' = got /\ who' = who
    BY <1>4 DEF Hit, Key
  <2> QED
    BY <2>1, <2>2, <2>3
<1>5. ASSUME NEW r \in Visit, NEW k \in Key, Fetch(r, k)
      PROVE  Placed'
  <2>1. got[r] = Nothing /\ who' = who /\ who[r] \in Person
    BY <1>5 DEF Fetch, Key
  <2>2. Fetched[k] \in {"connections fetched", "accounts fetched"}
    BY FetchedStops
  <2>3. CASE HasIdentity(r) /\ who[r] \in registered
    <3>1. got' = [got EXCEPT ![r] = now[who[r]]] /\ stop' = [stop EXCEPT ![r] = Fetched[k]]
      BY <1>5, <2>3 DEF Fetch
    <3>2. now[who[r]] # Nothing
      BY <2>1, NothingIsNoVersion
    <3> QED
      BY <2>1, <2>2, <3>1, <3>2
  <2>4. CASE ~(HasIdentity(r) /\ who[r] \in registered)
    <3>1. got' = got /\ stop' = [stop EXCEPT ![r] = "shown"]
      BY <1>5, <2>4 DEF Fetch
    <3> QED
      BY <2>1, <3>1
  <2> QED
    BY <2>3, <2>4
<1>6. ASSUME NEW r \in Visit, NEW k \in Key, Put(r, k)
      PROVE  Placed'
  <2>1. Fetched[k] \in {"connections fetched", "accounts fetched"} /\ stop[r] = Fetched[k]
    BY <1>6, FetchedStops DEF Put
  <2>2. who[r] \in Person /\ got[r] \in Versions /\ Shows(r, k, got[r])
    BY <1>6, <2>1 DEF Put
  <2>3. stop' = [stop EXCEPT ![r] = stop'[r]] /\ stop'[r] \in {"accounts", "shown"}
    BY <2>2, ShowsTypes
  <2>4. got' = [got EXCEPT ![r] = Nothing] /\ who' = who
    BY <1>6 DEF Put
  <2> QED
    BY <2>2, <2>3, <2>4
<1>7. ASSUME NEW p \in Person, NEW k \in Key, Drops(p, k)
      PROVE  Placed'
  BY <1>7 DEF Drops
<1>8. ASSUME NEW r \in Visit, Forget(r)
      PROVE  Placed'
  BY <1>8 DEF Forget, SignedIn
<1>9. ASSUME NEW r \in Visit,
             \/ ReadIdentity(r) \/ RegisterRefused(r) \/ OwnConnection(r)
             \/ OpenPortal(r) \/ NeverLinked(r)
      PROVE  Placed'
  BY <1>9 DEF ReadIdentity, RegisterRefused, OwnConnection, OpenPortal, NeverLinked
<1>10. ASSUME NEW r \in Visit, Register(r)
       PROVE  Placed'
  BY <1>10 DEF Register
<1>11. ASSUME NEW r \in Visit, StoreSecret(r)
       PROVE  Placed'
  BY <1>11 DEF StoreSecret
<1>12. ASSUME NEW r \in Visit, DeleteAtSnapTrade(r)
       PROVE  Placed'
  BY <1>12 DEF DeleteAtSnapTrade
<1>13. ASSUME NEW r \in Visit, RemovesUser(r)
       PROVE  Placed'
  BY <1>13 DEF RemovesUser
<1>14. ASSUME NEW r \in Visit, PortalLinks(r)
       PROVE  Placed'
  BY <1>14 DEF PortalLinks
<1>15. ASSUME NEW r \in Visit, RemoveConnection(r)
       PROVE  Placed'
  BY <1>15 DEF RemoveConnection
<1>16. ASSUME NEW r \in Visit, ClearCaches(r)
       PROVE  Placed'
  BY <1>16 DEF ClearCaches
<1>17. ASSUME NEW r \in Visit, Fails(r)
       PROVE  Placed'
  BY <1>17 DEF Fails
<1>18. CASE Restart
  BY <1>18 DEF Restart
<1>19. CASE UNCHANGED linkVars
  BY <1>19 DEF linkVars
<1> HIDE DEF LinkTypeOK, Placed
<1> QED
  BY <1>1, <1>2, <1>3, <1>4, <1>5, <1>6, <1>7, <1>8, <1>9, <1>10, <1>11, <1>12, <1>13, <1>14, <1>15, <1>16, <1>17, <1>18, <1>19
     DEF LinkNext

\* Every step keeps stored secrets usable: registrations and removals are the
\* only ones that touch what a secret reaches.
LEMMA SecretStep ==
  ASSUME LinkTypeOK, Placed, Reaching, SecretReaches, [LinkNext]_linkVars
  PROVE  Reaching' /\ SecretReaches'
<1> USE DEF LinkTypeOK, Placed, Reaching, SecretReaches
<1>1. ASSUME NEW r \in Visit, Register(r)
      PROVE  Reaching' /\ SecretReaches'
  BY <1>1 DEF Register
<1>2. ASSUME NEW r \in Visit, StoreSecret(r)
      PROVE  Reaching' /\ SecretReaches'
  BY <1>2 DEF StoreSecret
<1>3. ASSUME NEW r \in Visit, DeleteAtSnapTrade(r)
      PROVE  Reaching' /\ SecretReaches'
  BY <1>3 DEF DeleteAtSnapTrade
<1>4. ASSUME NEW r \in Visit, RemovesUser(r)
      PROVE  Reaching' /\ SecretReaches'
  BY <1>4 DEF RemovesUser
<1>5. ASSUME UNCHANGED <<people, secret, registered, halfway>>,
             \A r \in Visit : stop'[r] = "registered" => stop[r] = "registered" /\ who'[r] = who[r]
      PROVE  Reaching' /\ SecretReaches'
  BY <1>5
<1>6. ASSUME NEW r \in Visit, NEW p \in Person,
             (\E point \in Stops : Arrives(r, p, point)) \/ AdminArrives(r, p) \/ Refresh(r, p)
      PROVE  Reaching' /\ SecretReaches'
  <2>1. UNCHANGED <<people, secret, registered, halfway>>
    BY <1>6 DEF Arrives, AdminArrives, Refresh
  <2>2. \A q \in Visit : stop'[q] = "registered" => stop[q] = "registered" /\ who'[q] = who[q]
    BY <1>6 DEF Arrives, AdminArrives, Refresh
  <2> QED
    BY <1>5, <2>1, <2>2
<1>7. ASSUME NEW r \in Visit, NEW k \in Key, Hit(r, k) \/ Fetch(r, k) \/ Put(r, k)
      PROVE  Reaching' /\ SecretReaches'
  <2>1. UNCHANGED <<people, secret, registered, halfway, who>>
    BY <1>7 DEF Hit, Fetch, Put
  <2>2. PICK next : next # "registered" /\ stop' = [stop EXCEPT ![r] = next]
    <3>1. CASE Hit(r, k)
      BY <3>1 DEF Hit, Shows
    <3>2. CASE Fetch(r, k)
      <4>1. Fetched[k] # "registered" /\ "shown" # "registered"
        BY FetchedStops
      <4> QED
        BY <3>2, <4>1 DEF Fetch
    <3>3. CASE Put(r, k)
      BY <3>3 DEF Put, Shows
    <3> QED
      BY <1>7, <3>1, <3>2, <3>3
  <2>3. \A q \in Visit : stop'[q] = "registered" => stop[q] = "registered" /\ who'[q] = who[q]
    BY <2>1, <2>2
  <2> QED
    BY <1>5, <2>1, <2>3
<1>8. ASSUME NEW p \in Person, NEW k \in Key, Drops(p, k)
      PROVE  Reaching' /\ SecretReaches'
  BY <1>5, <1>8 DEF Drops
<1>9. ASSUME NEW r \in Visit,
             \/ Forget(r) \/ ReadIdentity(r) \/ RegisterRefused(r) \/ OwnConnection(r)
             \/ OpenPortal(r) \/ PortalLinks(r) \/ RemoveConnection(r) \/ NeverLinked(r)
             \/ ClearCaches(r) \/ Fails(r)
      PROVE  Reaching' /\ SecretReaches'
  <2>1. CASE Forget(r) \/ ReadIdentity(r) \/ RegisterRefused(r)
    <3>1. UNCHANGED <<people, secret, registered, halfway, who>>
      BY <2>1 DEF Forget, ReadIdentity, RegisterRefused
    <3>2. \A q \in Visit : stop'[q] = "registered" => stop[q] = "registered"
      BY <2>1 DEF Forget, ReadIdentity, RegisterRefused
    <3> QED
      BY <1>5, <3>1, <3>2
  <2>2. CASE OwnConnection(r) \/ OpenPortal(r) \/ PortalLinks(r)
    <3>1. UNCHANGED <<people, secret, registered, halfway, who>>
      BY <2>2 DEF OwnConnection, OpenPortal, PortalLinks
    <3>2. \A q \in Visit : stop'[q] = "registered" => stop[q] = "registered"
      BY <2>2 DEF OwnConnection, OpenPortal, PortalLinks
    <3> QED
      BY <1>5, <3>1, <3>2
  <2>3. CASE RemoveConnection(r) \/ NeverLinked(r)
    <3>1. UNCHANGED <<people, secret, registered, halfway, who>>
      BY <2>3 DEF RemoveConnection, NeverLinked
    <3>2. \A q \in Visit : stop'[q] = "registered" => stop[q] = "registered"
      BY <2>3 DEF RemoveConnection, NeverLinked
    <3> QED
      BY <1>5, <3>1, <3>2
  <2>4. CASE ClearCaches(r) \/ Fails(r)
    <3>1. UNCHANGED <<people, secret, registered, halfway, who>>
      BY <2>4 DEF ClearCaches, Fails
    <3>2. \A q \in Visit : stop'[q] = "registered" => stop[q] = "registered"
      BY <2>4 DEF ClearCaches, Fails
    <3> QED
      BY <1>5, <3>1, <3>2
  <2> QED
    BY <1>9, <2>1, <2>2, <2>3, <2>4
<1>10. CASE Restart
  BY <1>5, <1>10 DEF Restart
<1>11. CASE UNCHANGED linkVars
  BY <1>5, <1>11 DEF linkVars
<1> HIDE DEF LinkTypeOK, Placed, Reaching, SecretReaches
<1> QED
  BY <1>1, <1>2, <1>3, <1>4, <1>6, <1>7, <1>8, <1>9, <1>10, <1>11 DEF LinkNext

\* Every step keeps every older read noticed, and so what is cached accounted for:
\* only a forgetting moves the floor, only a read and its storing bring versions.
LEMMA StaleStep ==
  ASSUME LinkTypeOK, Placed, Noticed, StaleOnlyFromInHand, [LinkNext]_linkVars
  PROVE  Noticed' /\ StaleOnlyFromInHand'
<1> USE DEF LinkTypeOK, Noticed, StaleOnlyFromInHand
<1>1. ASSUME UNCHANGED <<floor, overlapped>>, \A p \in Person : now'[p] \in Versions /\ now[p] <= now'[p],
             \A r \in Visit : got'[r] # Nothing => got'[r] = got[r] /\ who'[r] = who[r],
             \A p \in Person, k \in Key : cache'[p][k] # Nothing => cache'[p][k] = cache[p][k]
      PROVE  Noticed' /\ StaleOnlyFromInHand'
  <2>1. \A p \in Person : floor[p] <= now'[p]
    BY <1>1, MaxChangesAssumption DEF Versions
  <2>2. \A r \in Visit : got'[r] # Nothing /\ got'[r] < floor[who'[r]] => who'[r] \in overlapped
    BY <1>1
  <2>3. StaleOnlyFromInHand'
    BY <1>1
  <2> QED
    BY <1>1, <2>1, <2>2, <2>3
<1>2. ASSUME NEW r \in Visit, NEW p \in Person,
             (\E point \in Stops : Arrives(r, p, point)) \/ AdminArrives(r, p) \/ Refresh(r, p)
      PROVE  Noticed' /\ StaleOnlyFromInHand'
  <2>1. UNCHANGED <<floor, overlapped, now, got>> /\ stop[r] = "idle"
    BY <1>2 DEF Arrives, AdminArrives, Refresh
  <2>2. got[r] = Nothing
    BY <2>1 DEF Placed
  <2>3. \A q \in Visit : q # r => who'[q] = who[q]
    BY <1>2 DEF Arrives, AdminArrives, Refresh
  <2>4. \A q \in Person, k \in Key : cache'[q][k] # Nothing => cache'[q][k] = cache[q][k]
    <3>1. CASE cache' = cache
      BY <3>1
    <3>2. CASE cache' = [cache EXCEPT ![p] = [k \in Key |-> Nothing]]
      BY <3>2
    <3> QED
      BY <1>2, <3>1, <3>2 DEF Arrives, AdminArrives, Refresh
  <2>5. \A q \in Person : now'[q] \in Versions /\ now[q] <= now'[q]
    BY <2>1, MaxChangesAssumption DEF Versions
  <2> QED
    BY <1>1, <2>1, <2>2, <2>3, <2>4, <2>5
<1>3. ASSUME UNCHANGED <<floor, overlapped, cache, got, who>>, now' = now
      PROVE  Noticed' /\ StaleOnlyFromInHand'
  BY <1>3
<1>4. ASSUME NEW r \in Visit, NEW k \in Key, Hit(r, k)
      PROVE  Noticed' /\ StaleOnlyFromInHand'
  BY <1>3, <1>4 DEF Hit
<1>5. ASSUME NEW r \in Visit, NEW k \in Key, Fetch(r, k)
      PROVE  Noticed' /\ StaleOnlyFromInHand'
  <2>1. UNCHANGED <<floor, overlapped, cache, who, now>>
    BY <1>5 DEF Fetch
  <2>2. CASE HasIdentity(r) /\ who[r] \in registered
    <3>1. who[r] \in Person /\ got' = [got EXCEPT ![r] = now[who[r]]]
      BY <1>5, <2>2 DEF Fetch
    <3>2. ~(now[who[r]] < floor[who[r]])
      BY <3>1, MaxChangesAssumption DEF Versions
    <3> QED
      BY <2>1, <3>1, <3>2
  <2>3. CASE got' = got
    BY <1>3, <2>1, <2>3
  <2> QED
    BY <1>5, <2>2, <2>3 DEF Fetch
<1>6. ASSUME NEW r \in Visit, NEW k \in Key, Put(r, k)
      PROVE  Noticed' /\ StaleOnlyFromInHand'
  <2>1. UNCHANGED <<floor, overlapped, who, now>>
    BY <1>6 DEF Put
  <2>2. who[r] \in Person /\ got[r] # Nothing
    BY <1>6, FetchedStops DEF Put, Placed
  <2>3. got' = [got EXCEPT ![r] = Nothing]
    BY <1>6 DEF Put
  <2>4. cache' = [cache EXCEPT ![who[r]][k] = got[r]]
    BY <1>6 DEF Put
  <2>5. Noticed'
    BY <2>1, <2>3
  <2>6. ASSUME NEW q \in Person, NEW j \in Key, cache'[q][j] # Nothing, cache'[q][j] < floor[q]
        PROVE  q \in overlapped
    <3>1. CASE q = who[r] /\ j = k
      BY <2>2, <2>4, <2>6, <3>1
    <3>2. CASE ~(q = who[r] /\ j = k)
      BY <2>2, <2>4, <2>6, <3>2
    <3> QED
      BY <3>1, <3>2
  <2> QED
    BY <2>1, <2>5, <2>6
<1>7. ASSUME NEW p \in Person, NEW k \in Key, Drops(p, k)
      PROVE  Noticed' /\ StaleOnlyFromInHand'
  <2>1. UNCHANGED <<floor, overlapped, who, now, got>>
    BY <1>7 DEF Drops
  <2>2. \A q \in Person, j \in Key : cache'[q][j] # Nothing => cache'[q][j] = cache[q][j]
    BY <1>7 DEF Drops
  <2> QED
    BY <2>1, <2>2
<1>8. ASSUME NEW r \in Visit, Forget(r)
      PROVE  Noticed' /\ StaleOnlyFromInHand'
  <2>1. UNCHANGED <<now, got, who>>
    BY <1>8 DEF Forget
  <2>2. CASE ~SignedIn(r)
    BY <1>3, <1>8, <2>1, <2>2 DEF Forget
  <2>3. CASE SignedIn(r)
    <3>1. who[r] \in Person
      BY <2>3 DEF SignedIn
    <3>2. floor' = [floor EXCEPT ![who[r]] = now[who[r]]]
      BY <1>8, <2>3 DEF Forget
    <3>3. cache' = [cache EXCEPT ![who[r]] = [k \in Key |-> Nothing]]
      BY <1>8, <2>3 DEF Forget
    <3>4. overlapped' = IF InHand(who[r]) = {} THEN overlapped \ {who[r]}
                                                  ELSE overlapped \cup {who[r]}
      BY <1>8, <2>3 DEF Forget
    <3>5. \A p \in Person : p # who[r] => (p \in overlapped' <=> p \in overlapped)
      BY <3>4
    <3>6. \A p \in Person : floor'[p] <= now[p]
      BY <3>1, <3>2, MaxChangesAssumption DEF Versions
    <3>7. \A q \in Visit : got[q] # Nothing /\ who[q] = who[r] => who[r] \in overlapped'
      BY <3>4 DEF InHand
    <3>8. ASSUME NEW q \in Visit, got[q] # Nothing, got[q] < floor'[who[q]]
          PROVE  who[q] \in overlapped'
      <4>1. CASE who[q] = who[r]
        BY <3>7, <3>8, <4>1
      <4>2. CASE who[q] # who[r]
        <5>1. who[q] \in Person
          BY <3>8 DEF Placed, Stops
        <5>2. floor'[who[q]] = floor[who[q]]
          BY <3>2, <4>2, <5>1
        <5> QED
          BY <3>5, <3>8, <4>2, <5>1, <5>2
      <4> QED
        BY <4>1, <4>2
    <3>9. ASSUME NEW p \in Person, NEW k \in Key, cache'[p][k] # Nothing, cache'[p][k] < floor'[p]
          PROVE  p \in overlapped'
      <4>1. p # who[r]
        BY <3>1, <3>3, <3>9
      <4>2. cache'[p][k] = cache[p][k] /\ floor'[p] = floor[p]
        BY <3>2, <3>3, <4>1
      <4> QED
        BY <3>5, <3>9, <4>1, <4>2
    <3> QED
      BY <2>1, <3>6, <3>8, <3>9
  <2> QED
    BY <2>2, <2>3
<1>9. ASSUME NEW r \in Visit,
             \/ ReadIdentity(r) \/ Register(r) \/ RegisterRefused(r) \/ StoreSecret(r)
             \/ OwnConnection(r) \/ OpenPortal(r) \/ NeverLinked(r) \/ DeleteAtSnapTrade(r)
             \/ RemovesUser(r)
      PROVE  Noticed' /\ StaleOnlyFromInHand'
  <2>1. UNCHANGED <<floor, overlapped, cache, got, who, now>>
    BY <1>9 DEF ReadIdentity, Register, RegisterRefused, StoreSecret, OwnConnection,
       OpenPortal, NeverLinked, DeleteAtSnapTrade, RemovesUser
  <2> QED
    BY <1>3, <2>1
<1>10. ASSUME NEW r \in Visit, PortalLinks(r) \/ RemoveConnection(r)
       PROVE  Noticed' /\ StaleOnlyFromInHand'
  <2>1. UNCHANGED <<floor, overlapped, cache, got, who>> /\ stop[r] # "idle"
    BY <1>10 DEF PortalLinks, RemoveConnection
  <2>2. now' = [now EXCEPT ![who[r]] = @ + 1]
    BY <1>10 DEF PortalLinks, RemoveConnection
  <2>3. \A p \in Person : floor[p] <= now'[p]
    BY <2>2, MaxChangesAssumption DEF Versions
  <2> QED
    BY <2>1, <2>3
<1>11. ASSUME NEW r \in Visit, ClearCaches(r)
       PROVE  Noticed' /\ StaleOnlyFromInHand'
  <2>1. UNCHANGED <<floor, overlapped, got, who, now>>
    BY <1>11 DEF ClearCaches
  <2>2. \A p \in Person, k \in Key : cache'[p][k] # Nothing => cache'[p][k] = cache[p][k]
    BY <1>11 DEF ClearCaches
  <2> QED
    BY <2>1, <2>2
<1>12. ASSUME NEW r \in Visit, Fails(r)
       PROVE  Noticed' /\ StaleOnlyFromInHand'
  BY <1>12 DEF Fails
<1>13. CASE Restart
  BY <1>13 DEF Restart
<1>14. CASE UNCHANGED linkVars
  BY <1>3, <1>14 DEF linkVars
<1> HIDE DEF LinkTypeOK, Noticed, StaleOnlyFromInHand
<1> QED
  BY <1>2, <1>4, <1>5, <1>6, <1>7, <1>8, <1>9, <1>10, <1>11, <1>12, <1>13, <1>14 DEF LinkNext

\* The inductive invariant.
THEOREM LinkInvariant == LinkSpec => []LinkInv
<1>1. LinkInit => LinkInv
  BY LinkInitInvariant
<1>2. LinkInv /\ [LinkNext]_linkVars => LinkInv'
  BY LinkTypesStep, PlacedStep, SecretStep, StaleStep DEF LinkInv
<1> QED
  BY <1>1, <1>2, PTL DEF LinkSpec

\* The state of links, visits and caches stays within its types.
THEOREM LinkTypesCorrect == LinkSpec => []LinkTypeOK
<1>1. LinkInv => LinkTypeOK
  BY DEF LinkInv
<1> QED
  BY <1>1, LinkInvariant, PTL

\* However first links, lost answers and removals interleave (brokerages_link,
\* admin_remove), a stored secret belongs to somebody with access and reaches
\* SnapTrade, except while a removal is half way.
THEOREM SecretCorrect == LinkSpec => []SecretReaches
<1>1. LinkInv => SecretReaches
  BY DEF LinkInv
<1> QED
  BY <1>1, LinkInvariant, PTL

\* _forget_accounts leaves nothing older than the change behind, under any key:
\* only a read already in hand can bring it back.
THEOREM StaleCorrect == LinkSpec => []StaleOnlyFromInHand
<1>1. LinkInv => StaleOnlyFromInHand
  BY DEF LinkInv
<1> QED
  BY <1>1, LinkInvariant, PTL
=============================================================================
