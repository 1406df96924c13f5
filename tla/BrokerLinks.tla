----------------------------- MODULE BrokerLinks -----------------------------
(***************************************************************************)
(* Linking a brokerage through SnapTrade, and taking a link away: the      *)
(* /portfolio routes and admin_remove of api/app.py, with the identity of  *)
(* api/deps.py, the snaptrade_users rows of api/users.py and the per-user  *)
(* cache of api/usercache.py.  What a person keeps of bonds is left out.   *)
(*                                                                         *)
(* Three places know about a person's links: this site's database (who     *)
(* may sign in, the sealed secret that reaches SnapTrade), SnapTrade (who  *)
(* is registered, what is linked) and the in-memory cache.  A request      *)
(* visits them one call at a time, and any other request, a lost answer or *)
(* a restart may come in between.                                          *)
(*                                                                         *)
(* SnapTrade is external: it registers an id once, deletes everything with *)
(* the person, serves reads with the data of the moment, and may fail any  *)
(* call, before or after it took effect.  What it holds of a person is a   *)
(* version number, raised by every change.                                 *)
(***************************************************************************)
EXTENDS Integers, FiniteSets

CONSTANTS Person, Visit,  \* who, and the requests to the site
          MaxChanges,  \* bound: changes of a person's links at SnapTrade
          Nobody       \* whose request it is, before it is anybody's

ASSUME MaxChangesAssumption == MaxChanges \in Nat
ASSUME NobodyAssumption == Nobody \notin Person

VARIABLES
  people,      \* users table: who has access
  secret,      \* snaptrade_users: whose sealed secret is stored
  registered,  \* who is registered at SnapTrade
  linked,      \* who has a brokerage linked there
  now,         \* version of a person's links at SnapTrade
  halfway,     \* deleted at SnapTrade by a removal that has not removed the user
  floor,       \* version at the last _forget_accounts of a person
  overlapped,  \* persons one of whose reads was in hand at that moment
  cache,       \* balances_cache: the version held under each key, or Nothing
  stop,        \* control point of a request
  who,         \* its person: the signed-in one, or the admin's target
  got,         \* the version it has fetched and not yet cached
  since,       \* floor when its page began
  shows        \* the oldest version on its page

store == <<people, secret>>
snaptrade == <<registered, linked, now, halfway>>
cached == <<floor, overlapped, cache>>
page == <<got, since, shows>>
linkVars == <<people, secret, registered, linked, now, halfway, floor,
              overlapped, cache, stop, who, got, since, shows>>

Key == {"connections", "accounts"}
Nothing == -1
Versions == 0 .. MaxChanges
Fetched == [connections |-> "connections fetched", accounts |-> "accounts fetched"]

Stops == {"idle", "connections", "accounts", "connections fetched", "accounts fetched",
         "shown", "link", "unregistered", "registered", "identified", "portal",
         "returning", "own", "unlinked", "target", "clear", "erased", "ended"}

LinkInit ==
  /\ people = Person /\ secret = {}
  /\ registered = {} /\ linked = {} /\ halfway = {} /\ overlapped = {}
  /\ now = [p \in Person |-> 0] /\ floor = [p \in Person |-> 0]
  /\ cache = [p \in Person |-> [k \in Key |-> Nothing]]
  /\ stop = [r \in Visit |-> "idle"] /\ who = [r \in Visit |-> Nobody]
  /\ got = [r \in Visit |-> Nothing] /\ since = [r \in Visit |-> 0]
  /\ shows = [r \in Visit |-> Nothing]

MovesTo(r, p) == stop' = [stop EXCEPT ![r] = p]

\* the session, and with it the identity, is looked up afresh by every call
SignedIn(r) == who[r] \in people
HasIdentity(r) == SignedIn(r) /\ who[r] \in secret

\* The gate lets a signed-in person's request in; what it asks for is its point.
Arrives(r, p, point) ==
  /\ stop[r] = "idle" /\ p \in people
  /\ point \in {"connections", "link", "returning"}
  /\ who' = [who EXCEPT ![r] = p] /\ MovesTo(r, point)
  /\ since' = [since EXCEPT ![r] = floor[p]]
  /\ UNCHANGED <<store, snaptrade, cached, got, shows>>

\* _require_admin, then admin_remove finds the account it is asked to remove
AdminArrives(r, p) ==
  /\ stop[r] = "idle" /\ p \in people
  /\ who' = [who EXCEPT ![r] = p] /\ MovesTo(r, "target")
  /\ UNCHANGED <<store, snaptrade, cached, page>>
-----------------------------------------------------------------------------
(* Reading: _snaptrade_connections, then _cached_balances *)

\* the page has this value and moves on; with no working link, accounts are not read
Shows(r, k, v) ==
  /\ shows' = [shows EXCEPT ![r] = IF @ = Nothing \/ v < @ THEN v ELSE @]
  /\ \E next \in IF k = "connections" THEN {"accounts", "shown"} ELSE {"shown"} : MovesTo(r, next)

Hit(r, k) ==
  /\ stop[r] = k /\ SignedIn(r)
  /\ cache[who[r]][k] # Nothing
  /\ Shows(r, k, cache[who[r]][k])
  /\ UNCHANGED <<store, snaptrade, cached, who, got, since>>

\* a miss, or no session any more: SnapTrade is asked
Fetch(r, k) ==
  /\ stop[r] = k
  /\ SignedIn(r) => cache[who[r]][k] = Nothing
  /\ IF HasIdentity(r) /\ who[r] \in registered
     THEN got' = [got EXCEPT ![r] = now[who[r]]] /\ MovesTo(r, Fetched[k])
     ELSE UNCHANGED got /\ MovesTo(r, "shown")
  /\ UNCHANGED <<store, snaptrade, cached, who, since, shows>>

\* put, under the user of the session
Put(r, k) ==
  /\ stop[r] = Fetched[k]
  /\ cache' = [cache EXCEPT ![who[r]][k] = got[r]]
  /\ got' = [got EXCEPT ![r] = Nothing]
  /\ Shows(r, k, got[r])
  /\ UNCHANGED <<store, snaptrade, floor, overlapped, who, since>>

\* the TTL, or the least-recently-used bound
Drops(p, k) ==
  /\ cache[p][k] # Nothing
  /\ cache' = [cache EXCEPT ![p][k] = Nothing]
  /\ UNCHANGED <<store, snaptrade, floor, overlapped, stop, who, page>>

\* portfolio_swaps_refresh: the cache is cleared and the accounts read again
Refresh(r, p) ==
  /\ stop[r] = "idle" /\ p \in people
  /\ who' = [who EXCEPT ![r] = p] /\ MovesTo(r, "accounts")
  /\ cache' = [cache EXCEPT ![p] = [k \in Key |-> Nothing]]
  /\ since' = [since EXCEPT ![r] = floor[p]]
  /\ UNCHANGED <<store, snaptrade, floor, overlapped, got, shows>>

\* reads of p fetched and not yet in the cache
InHand(p) == {r \in Visit : who[r] = p /\ got[r] # Nothing}

\* Variant: the balances entry is popped, the connections entry forgotten.
ForgetBalances(r) ==
  /\ stop[r] \in {"returning", "unlinked"}
  /\ MovesTo(r, "ended")
  /\ IF SignedIn(r)
     THEN /\ cache' = [cache EXCEPT ![who[r]]["accounts"] = Nothing]
          /\ floor' = [floor EXCEPT ![who[r]] = now[who[r]]]
          /\ overlapped' = IF InHand(who[r]) = {} THEN overlapped \ {who[r]}
                                                  ELSE overlapped \cup {who[r]}
     ELSE UNCHANGED cached
  /\ UNCHANGED <<store, snaptrade, who, page>>

\* _forget_accounts
Forget(r) ==
  /\ stop[r] \in {"returning", "unlinked"}
  /\ MovesTo(r, "ended")
  /\ IF SignedIn(r)
     THEN /\ cache' = [cache EXCEPT ![who[r]] = [k \in Key |-> Nothing]]
          /\ floor' = [floor EXCEPT ![who[r]] = now[who[r]]]
          /\ overlapped' = IF InHand(who[r]) = {} THEN overlapped \ {who[r]}
                                                  ELSE overlapped \cup {who[r]}
     ELSE UNCHANGED cached
  /\ UNCHANGED <<store, snaptrade, who, page>>
-----------------------------------------------------------------------------
(* Linking, reconnecting and unlinking *)

\* brokerages_link reads the identity
ReadIdentity(r) ==
  /\ stop[r] = "link"
  /\ MovesTo(r, IF HasIdentity(r) THEN "identified"
             ELSE IF SignedIn(r) THEN "unregistered" ELSE "ended")
  /\ UNCHANGED <<store, snaptrade, cached, who, page>>

\* register_user: SnapTrade registers an id once.  The answer, with the only
\* copy of the secret, may be lost; the call may fail without registering.
Register(r) ==
  /\ stop[r] = "unregistered" /\ who[r] \notin registered
  /\ registered' = registered \cup {who[r]} /\ halfway' = halfway \ {who[r]}
  /\ MovesTo(r, "registered") \/ MovesTo(r, "ended")
  /\ UNCHANGED <<store, linked, now, cached, who, page>>

RegisterRefused(r) ==
  /\ stop[r] = "unregistered"
  /\ MovesTo(r, "ended")
  /\ UNCHANGED <<store, snaptrade, cached, who, page>>

\* Variant: without PRAGMA foreign_keys=ON.
StoreSecretUnchecked(r) ==
  /\ stop[r] = "registered"
  /\ secret' = secret \cup {who[r]} /\ MovesTo(r, "identified")
  /\ UNCHANGED <<people, snaptrade, cached, who, page>>

\* set_snaptrade_secret: an upsert whose foreign key must hold
StoreSecret(r) ==
  /\ stop[r] = "registered"
  /\ IF who[r] \in people
     THEN secret' = secret \cup {who[r]} /\ MovesTo(r, "identified")
     ELSE UNCHANGED secret /\ MovesTo(r, "ended")
  /\ UNCHANGED <<people, snaptrade, cached, who, page>>

\* _own_connection, for brokerages_reconnect and brokerages_remove (Arrives at
\* "link" stands for their arrival too: all three begin with the identity)
OwnConnection(r) ==
  /\ stop[r] = "link"
  /\ MovesTo(r, IF HasIdentity(r) /\ who[r] \in linked THEN "own" ELSE "ended")
  /\ UNCHANGED <<store, snaptrade, cached, who, page>>

\* portal_url, with the identity read once more
OpenPortal(r) ==
  /\ stop[r] \in {"identified", "own"}
  /\ MovesTo(r, IF HasIdentity(r) /\ who[r] \in registered THEN "portal" ELSE "ended")
  /\ UNCHANGED <<store, snaptrade, cached, who, page>>

\* the person links or repairs a brokerage in SnapTrade's portal, and is sent
\* back by it or closes the tab
PortalLinks(r) ==
  /\ stop[r] = "portal" /\ who[r] \in registered /\ now[who[r]] < MaxChanges
  /\ linked' = linked \cup {who[r]} /\ now' = [now EXCEPT ![who[r]] = @ + 1]
  /\ MovesTo(r, "returning") \/ MovesTo(r, "ended")
  /\ UNCHANGED <<store, registered, halfway, cached, who, page>>

\* remove_connection; an error, even of an answer lost after it took effect,
\* ends the request before _forget_accounts
RemoveConnection(r) ==
  /\ stop[r] = "own" /\ HasIdentity(r) /\ who[r] \in linked /\ now[who[r]] < MaxChanges
  /\ linked' \in {linked, linked \ {who[r]}}
  /\ now' = [now EXCEPT ![who[r]] = @ + 1]
  /\ MovesTo(r, "unlinked") \/ MovesTo(r, "ended")
  /\ UNCHANGED <<store, registered, halfway, cached, who, page>>
-----------------------------------------------------------------------------
(* admin_remove *)

\* snaptrade_secret(target): with none stored, SnapTrade is not asked
NeverLinked(r) ==
  /\ stop[r] = "target" /\ who[r] \notin secret
  /\ MovesTo(r, "clear")
  /\ UNCHANGED <<store, snaptrade, cached, who, page>>

\* delete_user takes effect at SnapTrade (404, "already gone", counts); its
\* answer may be lost, and then nothing more is removed
DeleteAtSnapTrade(r) ==
  /\ stop[r] = "target" /\ who[r] \in secret
  /\ registered' = registered \ {who[r]} /\ linked' = linked \ {who[r]}
  /\ halfway' = halfway \cup {who[r]}
  /\ MovesTo(r, "clear") \/ MovesTo(r, "ended")
  /\ UNCHANGED <<store, now, cached, who, page>>

\* users.remove_user, one transaction
RemovesUser(r) ==
  /\ stop[r] = "clear"
  /\ people' = people \ {who[r]} /\ secret' = secret \ {who[r]}
  /\ halfway' = halfway \ {who[r]}
  /\ MovesTo(r, "erased")
  /\ UNCHANGED <<registered, linked, now, cached, who, page>>

\* the caches of the removed person: balances and verdicts
ClearCaches(r) ==
  /\ stop[r] = "erased"
  /\ cache' = [cache EXCEPT ![who[r]] = [k \in Key |-> Nothing]]
  /\ MovesTo(r, "ended")
  /\ UNCHANGED <<store, snaptrade, floor, overlapped, who, page>>
-----------------------------------------------------------------------------
\* a call raises (SnapTrade refuses it, the database stays locked) and nothing
\* after it runs
Fails(r) ==
  /\ stop[r] \notin {"idle", "portal", "shown", "ended"}
  /\ MovesTo(r, "ended") /\ got' = [got EXCEPT ![r] = Nothing]
  /\ UNCHANGED <<store, snaptrade, cached, who, since, shows>>

\* the process is restarted: requests and caches are gone, a person in
\* SnapTrade's portal is not
Restart ==
  /\ stop' = [r \in Visit |-> IF stop[r] \in {"idle", "portal", "shown"} THEN stop[r] ELSE "ended"]
  /\ got' = [r \in Visit |-> Nothing]
  /\ cache' = [p \in Person |-> [k \in Key |-> Nothing]]
  /\ UNCHANGED <<store, snaptrade, floor, overlapped, who, since, shows>>

LinkNext ==
  \/ \E r \in Visit, p \in Person :
       \/ \E point \in Stops : Arrives(r, p, point)
       \/ AdminArrives(r, p) \/ Refresh(r, p)
  \/ \E r \in Visit, k \in Key : Hit(r, k) \/ Fetch(r, k) \/ Put(r, k)
  \/ \E p \in Person, k \in Key : Drops(p, k)
  \/ \E r \in Visit :
       \/ Forget(r)
       \/ ReadIdentity(r) \/ Register(r) \/ RegisterRefused(r) \/ StoreSecret(r)
       \/ OwnConnection(r) \/ OpenPortal(r) \/ PortalLinks(r) \/ RemoveConnection(r)
       \/ NeverLinked(r) \/ DeleteAtSnapTrade(r) \/ RemovesUser(r)
       \/ ClearCaches(r) \/ Fails(r)
  \/ Restart

LinkSpec == LinkInit /\ [][LinkNext]_linkVars
-----------------------------------------------------------------------------
LinkTypeOK ==
  /\ people \subseteq Person /\ secret \subseteq Person
  /\ registered \subseteq Person /\ linked \subseteq Person
  /\ halfway \subseteq Person /\ overlapped \subseteq Person
  /\ now \in [Person -> Versions] /\ floor \in [Person -> Versions]
  /\ cache \in [Person -> [Key -> Versions \cup {Nothing}]]
  /\ stop \in [Visit -> Stops] /\ who \in [Visit -> Person \cup {Nobody}]
  /\ got \in [Visit -> Versions \cup {Nothing}]
  /\ since \in [Visit -> Versions] /\ shows \in [Visit -> Versions \cup {Nothing}]

\* A stored secret reaches SnapTrade and belongs to somebody who has access,
\* however first links, lost answers and removals interleave.  The exception is
\* a removal that got past SnapTrade and not to the end: there the secret is
\* still stored, so that the admin can try again.
SecretReaches ==
  /\ secret \subseteq people
  /\ secret \subseteq registered \cup halfway

\* The cache holds something older than the last change of a person's links
\* only if a read that began before the change was in hand when it was made:
\* the forgetting itself leaves nothing behind, under any of the keys.
StaleOnlyFromInHand ==
  \A p \in Person, k \in Key :
    cache[p][k] # Nothing /\ cache[p][k] < floor[p] => p \in overlapped

\* _forget_accounts: "After a link changes, nothing cached from before it may
\* be shown after it."
NothingFromBefore ==
  \A r \in Visit : stop[r] = "shown" /\ shows[r] # Nothing => shows[r] >= since[r]
=============================================================================
