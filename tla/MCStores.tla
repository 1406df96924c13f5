------------------------------ MODULE MCStores ------------------------------
(***************************************************************************)
(* Small instances of the stores, caches and limiters for TLC.  They share *)
(* no state, so each is run by itself: part says which.                    *)
(***************************************************************************)
EXTENDS UserCache, Blocklist, Backup, RateLimits, BondCalendar, BondSearch

CONSTANTS u1, u2, u3, k1, k2, v1, v2, x1, x2, x3, r1, r2, c1, c2, s1, s2, p1, p2
VARIABLE part

Users == {u1, u2, u3}
Keys == {k1, k2}
Values == {v1, v2}

\* keys and values are opaque to the cache, and one thread is as good as another
Opaque == Permutations(Keys) \cup Permutations(Values) \cup Permutations({r1, r2})
          \cup Permutations({s1, s2})

MCInit ==
  /\ Init /\ ListInit /\ BackupInit /\ RateInit /\ BondInit /\ SearchInit
  /\ part \in {"cache", "blocklist", "backup", "gate", "calls", "calendar", "search"}

MCNext ==
  \/ /\ part = "cache" /\ Next
     /\ UNCHANGED <<part, listVars, backupVars, rateVars, bondVars, searchVars>>
  \/ /\ part = "blocklist" /\ ListNext
     /\ UNCHANGED <<part, vars, backupVars, rateVars, bondVars, searchVars>>
  \/ /\ part = "backup" /\ BackupNext
     /\ UNCHANGED <<part, vars, listVars, rateVars, bondVars, searchVars>>
  \/ /\ \/ part = "gate" /\ InwardNext
        \/ part = "calls" /\ OutwardNext
     /\ UNCHANGED <<part, vars, listVars, backupVars, bondVars, searchVars>>
  \/ /\ part = "calendar" /\ BondNext
     /\ UNCHANGED <<part, vars, listVars, backupVars, rateVars, searchVars>>
  \/ /\ part = "search" /\ SearchNext
     /\ UNCHANGED <<part, vars, listVars, backupVars, rateVars, bondVars>>

MCSpec ==
  MCInit /\ [][MCNext]_<<vars, listVars, backupVars, rateVars, bondVars, searchVars, part>>

\* before the first invite, and before the first screen
SomeSources == {{"jobs", "overlay"}, {"accounts"}}

-----------------------------------------------------------------------------
(* Requests: an address behind the proxy, one without it, one not expensive *)

Request(method, path, hops, peer) ==
  [method |-> method, path |-> path, hops |-> hops, peer |-> peer]
SomeRequests ==
  {Request("POST", <<"runs">>, <<"forged", "home">>, "proxy"),
   Request("GET", <<"bonds", "events">>, <<"home">>, "proxy"),
   Request("POST", <<"bonds", "portfolios", "p", "import">>, <<"home">>, "proxy"),
   Request("GET", <<"invite", "token">>, <<>>, ""),
   Request("GET", <<"runs">>, <<"home">>, "proxy")}

-----------------------------------------------------------------------------
(* Bonds: one listed under two codes and known by a name, one repaid in parts
   and with offers.  The second coupon of the first is announced late. *)

Bond1(amount) ==
  [isin |-> "RU1", short |-> "b1", mat |-> 40, face |-> 100, listed |-> TRUE,
   coupons |-> <<[day |-> 5, amount |-> 10, rate |-> 9],
                 [day |-> 25, amount |-> amount, rate |-> 9]>>,
   amort |-> <<>>, offers |-> <<>>]
Bond2 ==
  [isin |-> "RU2", short |-> "b2", mat |-> 30, face |-> 100, listed |-> FALSE,
   coupons |-> <<[day |-> 12, amount |-> 7, rate |-> None]>>,
   amort |-> <<[day |-> 30, amount |-> 60, last |-> FALSE],
               [day |-> 12, amount |-> 40, last |-> FALSE]>>,
   offers |-> <<[from |-> 14, until |-> 16, day |-> 20, price |-> 100],
                [from |-> None, until |-> None, day |-> 28, price |-> None],
                [from |-> 24, until |-> 24, day |-> None, price |-> None]>>]
TwoEditions == <<("SU1" :> Bond1(0)) @@ ("RU2" :> Bond2),
                 ("SU1" :> Bond1(10)) @@ ("RU2" :> Bond2)>>

Likely(series, words) == [series |-> series, words |-> words]
SomeMatches ==
  [n \in {"n1", "n2", "n3"} |->
     ("SU1" :> Likely(n = "n1", IF n = "n3" THEN 0 ELSE 50))
     @@ ("RU2" :> Likely(n = "n2", IF n = "n2" THEN 100 ELSE 0))]

Item(code, name, mat, qty) == [code |-> code, name |-> name, mat |-> mat, qty |-> qty]
Held(portfolio, it) ==
  [portfolio |-> portfolio, code |-> it.code, name |-> it.name, mat |-> it.mat, qty |-> it.qty]
SomeBonds ==
  {<<Held(p1, Item("SU1", None, None, 3)), Held(p1, Item("RU1", "n1", 40, 4)),
     Held(p2, Item("RU1", "n1", 40, None)), Held(p2, Item("RU2", "n2", 29, 1))>>,
   <<Held(p1, Item(None, "n1", None, 2)), Held(p2, Item("RU2", None, 30, 5)),
     Held(p2, Item(None, "n3", 1, 1))>>}
SomeFiles ==
  {<<Item("RU2", "n2", 30, 2), Item("RU2", "n2", 30, 1), Item("SU1", None, None, 0),
     Item(None, "n1", 40, None)>>}
SomePeriods ==
  {[from |-> 13, to |-> 33], [from |-> None, to |-> None]}
SomeOutages == {{}, {"list", "RU2"}}

SomeLists == <<{"new"}, {"new", "newer"}>>
=============================================================================
