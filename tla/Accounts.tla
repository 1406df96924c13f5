------------------------------ MODULE Accounts ------------------------------
(***************************************************************************)
(* Who may use the Portfolio: api/users.py (UserStore), the ceremonies of  *)
(* api/passkeys.py and the routes of api/app.py that drive them.           *)
(*                                                                         *)
(* A registration or a sign-in is a request thread that makes one store    *)
(* call after another, each a transaction of its own on its own            *)
(* connection: anything another request, an admin or a crash does may fall *)
(* between two of them.  What keeps the tables consistent is only what one *)
(* statement does at once: the conditional UPDATE of use_invite, the       *)
(* primary keys, the foreign keys, and remove_user's transaction.          *)
(*                                                                         *)
(* One registration ceremony makes one passkey, so the passkey registered  *)
(* against challenge c is called c.  A request makes at most one session,  *)
(* so the session request r started is called r.  Checking a WebAuthn      *)
(* response (the webauthn library) is local to the request: a response it  *)
(* rejects is a request that ends refused.                                 *)
(***************************************************************************)
EXTENDS FiniteSets

CONSTANTS Account, Invite, Challenge, Request,
          NoOne   \* None, wherever an id is expected

ASSUME NoOneAssumption == NoOne \notin Account \cup Invite \cup Challenge \cup Request

VARIABLES
  users,      \* ids in the users table
  born,       \* ids ever given to an account (token_hex(16): never twice)
  passkey,    \* credentials: the account each registered passkey opens
  invite,     \* invites: none yet, usable, expired, used up, or deleted
  forUser,    \* invites.for_user
  usedBy,     \* the request whose use_invite won
  challenge,  \* challenges: none yet, live, expired, or deleted
  about,      \* challenges.data: the invite of a REGISTER one, NoOne for LOGIN
  session,    \* user_sessions: the account of the session a request started
  at,         \* control point of a request
  route,      \* which ceremony it completes
  answers,    \* the challenge it answers
  with,       \* the passkey it presents or registers
  opens       \* the account register() or login() has arrived at

rows == <<users, born, passkey, invite, forUser, usedBy, session>>
asked == <<challenge, about>>
request == <<route, answers, with>>
vars == <<users, born, passkey, invite, forUser, usedBy, challenge, about, session,
          at, route, answers, with, opens>>

Ended == {"done", "refused", "failed"}
Points == {"idle", "found", "unfit", "consumed", "invited", "fresh", "spent",
           "resolved", "saved"} \cup Ended

Init ==
  /\ users = {} /\ born = {}
  /\ passkey = [c \in Challenge |-> NoOne] /\ session = [r \in Request |-> NoOne]
  /\ invite = [i \in Invite |-> "none"] /\ forUser = [i \in Invite |-> NoOne]
  /\ usedBy = [i \in Invite |-> NoOne]
  /\ challenge = [c \in Challenge |-> "none"] /\ about = [c \in Challenge |-> NoOne]
  /\ at = [r \in Request |-> "idle"] /\ route = [r \in Request |-> "register"]
  /\ answers = [r \in Request |-> NoOne] /\ with = [r \in Request |-> NoOne]
  /\ opens = [r \in Request |-> NoOne]

Goto(r, p) == at' = [at EXCEPT ![r] = p]
-----------------------------------------------------------------------------
(* Invites and challenges *)

\* create_invite: for somebody new, or another passkey for an account.  Its
\* own look at the account and the foreign key agree on who still exists.
CreateInvite(i, target) ==
  /\ invite[i] = "none" /\ target \in users \cup {NoOne}
  /\ invite' = [invite EXCEPT ![i] = "usable"]
  /\ forUser' = [forUser EXCEPT ![i] = target]
  /\ UNCHANGED <<users, born, passkey, usedBy, session, asked, at, request, opens>>

\* cancel_invite: DELETE ... AND used_at IS NULL
CancelInvite(i) ==
  /\ invite[i] \in {"usable", "expired"}
  /\ invite' = [invite EXCEPT ![i] = "deleted"]
  /\ UNCHANGED <<users, born, passkey, forUser, usedBy, session, asked, at, request, opens>>

InviteExpires(i) ==
  /\ invite[i] = "usable"
  /\ invite' = [invite EXCEPT ![i] = "expired"]
  /\ UNCHANGED <<users, born, passkey, forUser, usedBy, session, asked, at, request, opens>>

\* issue_challenge, which first deletes the expired ones
Issue(c, on) ==
  /\ challenge[c] = "none"
  /\ challenge' = [d \in Challenge |-> IF d = c THEN "live"
                     ELSE IF challenge[d] = "expired" THEN "deleted" ELSE challenge[d]]
  /\ about' = [about EXCEPT ![c] = on]
  /\ UNCHANGED <<rows, at, request, opens>>

\* registration_options
RegistrationOptions(c, i) ==
  /\ invite[i] = "usable" /\ forUser[i] \in users \cup {NoOne}
  /\ Issue(c, i)

\* login_options
LoginOptions(c) == Issue(c, NoOne)

ChallengeExpires(c) ==
  /\ challenge[c] = "live"
  /\ challenge' = [challenge EXCEPT ![c] = "expired"]
  /\ UNCHANGED <<rows, about, at, request, opens>>
-----------------------------------------------------------------------------
(* use_challenge, in both ceremonies: a SELECT, then a DELETE.  Only the     *)
(* DELETE opens a transaction, so another request may read in between.       *)

Fits(kind, c) == challenge[c] = "live" /\ (kind = "login" <=> about[c] = NoOne)

ReadChallenge(r, kind, c, k) ==
  /\ at[r] = "idle" /\ challenge[c] # "none"
  /\ kind = "register" => k = c
  /\ route' = [route EXCEPT ![r] = kind] /\ answers' = [answers EXCEPT ![r] = c]
  /\ with' = [with EXCEPT ![r] = k]
  /\ Goto(r, IF Fits(kind, c) THEN "found" ELSE "unfit")
  /\ UNCHANGED <<rows, asked, opens>>

DeleteChallenge(r) ==
  /\ at[r] \in {"found", "unfit"}
  /\ challenge' = [challenge EXCEPT ![answers[r]] = "deleted"]
  /\ Goto(r, IF at[r] = "found" THEN "consumed" ELSE "refused")
  /\ UNCHANGED <<rows, about, request, opens>>
-----------------------------------------------------------------------------
(* Passkeys.register *)

OnInvite(r) == about[answers[r]]

\* store.invite, then the response itself is verified
CheckInvite(r) ==
  /\ at[r] = "consumed" /\ route[r] = "register"
  /\ Goto(r, IF invite[OnInvite(r)] = "usable" THEN "invited" ELSE "refused")
  /\ UNCHANGED <<rows, asked, request, opens>>

\* store.credential: is this passkey registered already?
CheckPasskey(r) ==
  /\ at[r] = "invited"
  /\ Goto(r, IF passkey[with[r]] = NoOne THEN "fresh" ELSE "refused")
  /\ UNCHANGED <<rows, asked, request, opens>>

\* Variant: the UPDATE without "used_at IS NULL".
UseInviteAgain(r) ==
  /\ at[r] = "fresh"
  /\ IF invite[OnInvite(r)] \in {"usable", "used"}
     THEN /\ invite' = [invite EXCEPT ![OnInvite(r)] = "used"]
          /\ usedBy' = [usedBy EXCEPT ![OnInvite(r)] = r]
          /\ Goto(r, "spent")
     ELSE Goto(r, "refused") /\ UNCHANGED <<invite, usedBy>>
  /\ UNCHANGED <<users, born, passkey, forUser, session, asked, request, opens>>

\* use_invite: UPDATE ... WHERE used_at IS NULL AND expires_at > now
UseInvite(r) ==
  /\ at[r] = "fresh"
  /\ IF invite[OnInvite(r)] = "usable"
     THEN /\ invite' = [invite EXCEPT ![OnInvite(r)] = "used"]
          /\ usedBy' = [usedBy EXCEPT ![OnInvite(r)] = r]
          /\ Goto(r, "spent")
     ELSE Goto(r, "refused") /\ UNCHANGED <<invite, usedBy>>
  /\ UNCHANGED <<users, born, passkey, forUser, session, asked, request, opens>>

\* the existing account an invite was for...
FindUser(r) ==
  /\ at[r] = "spent" /\ forUser[OnInvite(r)] # NoOne
  /\ Goto(r, IF forUser[OnInvite(r)] \in users THEN "resolved" ELSE "refused")
  /\ opens' = [opens EXCEPT ![r] = forUser[OnInvite(r)]]
  /\ UNCHANGED <<rows, asked, request>>

\* ...or create_user
CreateUser(r, a) ==
  /\ at[r] = "spent" /\ forUser[OnInvite(r)] = NoOne
  /\ a \notin born
  /\ users' = users \cup {a} /\ born' = born \cup {a}
  /\ opens' = [opens EXCEPT ![r] = a]
  /\ Goto(r, "resolved")
  /\ UNCHANGED <<passkey, invite, forUser, usedBy, session, asked, request>>

\* Variant: without PRAGMA foreign_keys=ON.
AddCredentialUnchecked(r) ==
  /\ at[r] = "resolved" /\ route[r] = "register"
  /\ passkey' = [passkey EXCEPT ![with[r]] = opens[r]] /\ Goto(r, "saved")
  /\ UNCHANGED <<users, born, invite, forUser, usedBy, session, asked, request, opens>>

\* add_credential: the primary key and the foreign key must both hold
AddCredential(r) ==
  /\ at[r] = "resolved" /\ route[r] = "register"
  /\ IF opens[r] \in users /\ passkey[with[r]] = NoOne
     THEN passkey' = [passkey EXCEPT ![with[r]] = opens[r]] /\ Goto(r, "saved")
     ELSE Goto(r, "failed") /\ UNCHANGED passkey
  /\ UNCHANGED <<users, born, invite, forUser, usedBy, session, asked, request, opens>>
-----------------------------------------------------------------------------
(* Passkeys.login *)

\* store.credential: whose passkey is this?
FindPasskey(r) ==
  /\ at[r] = "consumed" /\ route[r] = "login"
  /\ IF passkey[with[r]] = NoOne
     THEN Goto(r, "refused") /\ UNCHANGED opens
     ELSE Goto(r, "resolved") /\ opens' = [opens EXCEPT ![r] = passkey[with[r]]]
  /\ UNCHANGED <<rows, asked, request>>

\* store.user, the response verified, and credential_used
CheckUser(r) ==
  /\ at[r] = "resolved" /\ route[r] = "login"
  /\ Goto(r, IF opens[r] \in users THEN "saved" ELSE "refused")
  /\ UNCHANGED <<rows, asked, request, opens>>
-----------------------------------------------------------------------------
(* What ends a request, and what ends a session *)

\* Variant: without PRAGMA foreign_keys=ON.
StartSessionUnchecked(r) ==
  /\ at[r] = "saved"
  /\ session' = [session EXCEPT ![r] = opens[r]] /\ Goto(r, "done")
  /\ UNCHANGED <<users, born, passkey, invite, forUser, usedBy, asked, request, opens>>

\* _start_session: create_session, whose foreign key must hold
StartSession(r) ==
  /\ at[r] = "saved"
  /\ IF opens[r] \in users
     THEN session' = [session EXCEPT ![r] = opens[r]] /\ Goto(r, "done")
     ELSE Goto(r, "failed") /\ UNCHANGED session
  /\ UNCHANGED <<users, born, passkey, invite, forUser, usedBy, asked, request, opens>>

\* a response that does not verify
Unverified(r) ==
  /\ \/ at[r] = "invited"
     \/ at[r] = "resolved" /\ route[r] = "login"
  /\ Goto(r, "refused")
  /\ UNCHANGED <<rows, asked, request, opens>>

\* a store call raises (the file stayed locked past its timeout), or the
\* process dies, between two calls
StoreRaises(r) ==
  /\ at[r] \notin {"idle"} \cup Ended
  /\ Goto(r, "failed")
  /\ UNCHANGED <<rows, asked, request, opens>>

\* end_session, and session() finding an expired row
EndSession(r) ==
  /\ session[r] # NoOne
  /\ session' = [session EXCEPT ![r] = NoOne]
  /\ UNCHANGED <<users, born, passkey, invite, forUser, usedBy, asked, at, request, opens>>

\* end_sessions_for
EndSessionsFor(a) ==
  /\ session' = [r \in Request |-> IF session[r] = a THEN NoOne ELSE session[r]]
  /\ UNCHANGED <<users, born, passkey, invite, forUser, usedBy, asked, at, request, opens>>

\* remove_user, one transaction
RemoveUser(a) ==
  /\ a \in users
  /\ users' = users \ {a}
  /\ session' = [r \in Request |-> IF session[r] = a THEN NoOne ELSE session[r]]
  /\ passkey' = [c \in Challenge |-> IF passkey[c] = a THEN NoOne ELSE passkey[c]]
  /\ invite' = [i \in Invite |-> IF forUser[i] = a THEN "deleted" ELSE invite[i]]
  /\ UNCHANGED <<born, forUser, usedBy, asked, at, request, opens>>

Next ==
  \/ \E i \in Invite : \/ \E target \in users \cup {NoOne} : CreateInvite(i, target)
                       \/ CancelInvite(i) \/ InviteExpires(i)
                       \/ \E c \in Challenge : RegistrationOptions(c, i)
  \/ \E c \in Challenge : LoginOptions(c) \/ ChallengeExpires(c)
  \/ \E r \in Request :
       \/ \E kind \in {"register", "login"}, c, k \in Challenge : ReadChallenge(r, kind, c, k)
       \/ DeleteChallenge(r)
       \/ CheckInvite(r) \/ CheckPasskey(r) \/ UseInvite(r) \/ FindUser(r)
       \/ \E a \in Account : CreateUser(r, a)
       \/ AddCredential(r) \/ FindPasskey(r) \/ CheckUser(r)
       \/ StartSession(r) \/ Unverified(r) \/ StoreRaises(r) \/ EndSession(r)
  \/ \E a \in Account : EndSessionsFor(a) \/ RemoveUser(a)

Spec == Init /\ [][Next]_vars
-----------------------------------------------------------------------------
TypeOK ==
  /\ users \subseteq born /\ born \subseteq Account
  /\ passkey \in [Challenge -> Account \cup {NoOne}]
  /\ session \in [Request -> Account \cup {NoOne}]
  /\ invite \in [Invite -> {"none", "usable", "expired", "used", "deleted"}]
  /\ forUser \in [Invite -> Account \cup {NoOne}]
  /\ usedBy \in [Invite -> Request \cup {NoOne}]
  /\ challenge \in [Challenge -> {"none", "live", "expired", "deleted"}]
  /\ about \in [Challenge -> Invite \cup {NoOne}]
  /\ at \in [Request -> Points] /\ route \in [Request -> {"register", "login"}]
  /\ answers \in [Request -> Challenge \cup {NoOne}]
  /\ with \in [Request -> Challenge \cup {NoOne}]
  /\ opens \in [Request -> Account \cup {NoOne}]

\* remove_user's promise, "take someone's access away completely": no session,
\* passkey or live invite of an account outlives it, and no request that was
\* half way when it went can bring one back.
RemovalIsComplete ==
  /\ \A r \in Request : session[r] \in users \cup {NoOne}
  /\ \A c \in Challenge : passkey[c] \in users \cup {NoOne}
  /\ \A i \in Invite : invite[i] \in {"usable", "expired"} => forUser[i] \in users \cup {NoOne}

\* use_invite's promise: an invite completed twice in parallel, or replayed,
\* makes one account and one passkey.  A request past use_invite is the one
\* that used the invite up, and no two of them did so on one invite.
OneWinnerPerInvite ==
  \A r, s \in Request :
    /\ route[r] = "register" /\ at[r] \in {"spent", "resolved", "saved", "done"} =>
         usedBy[OnInvite(r)] = r
    /\ r # s /\ route[r] = "register" /\ route[s] = "register"
         /\ opens[r] # NoOne /\ opens[r] = opens[s] => OnInvite(r) # OnInvite(s)

\* Whoever is signed in can sign in again: every session's account has a
\* passkey, however registration, sign-in and removal interleave.
SessionHasPasskey ==
  \A r \in Request : session[r] # NoOne => \E c \in Challenge : passkey[c] = session[r]

\* A sign-in only ever opens the account its passkey was registered to, and a
\* registration only the invite's: no step confuses two people's requests.
OpensItsOwn ==
  \A r \in Request :
    at[r] \in {"saved", "done"} =>
      /\ route[r] = "register" /\ forUser[OnInvite(r)] # NoOne =>
           opens[r] = forUser[OnInvite(r)]
      /\ opens[r] \in users => passkey[with[r]] = opens[r]

\* A challenge is accepted only if it was issued for the ceremony, and is no
\* longer in the table once a request has accepted it.
AcceptedIsDeleted ==
  \A r \in Request :
    at[r] \in Points \ ({"idle", "found", "unfit"} \cup {"failed", "refused"}) =>
      /\ challenge[answers[r]] = "deleted"
      /\ route[r] = "login" <=> about[answers[r]] = NoOne
=============================================================================
