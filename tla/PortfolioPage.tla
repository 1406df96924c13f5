--------------------------- MODULE PortfolioPage ---------------------------
(***************************************************************************)
(* One person's Portfolio tab, open in several browser tabs at once: the   *)
(* account read of core/portfolio.py, the Close? verdicts of               *)
(* core/service.py and the two per-user caches of api/app.py between them. *)
(*                                                                         *)
(* A read of the account is an object shared by every request that finds   *)
(* it in the balances cache: the verdicts are written onto its rows.  A    *)
(* verdict costs a chain pull, so it is cached apart, by position.         *)
(*                                                                         *)
(* The account sells puts and calls on one underlying; today is day 0, and *)
(* a contract's exp its days to expiry.  Cash is in dollars, as in Advice. *)
(***************************************************************************)
EXTENDS SwapVerdicts

CONSTANTS
  Contract,    \* what may be held short: [type, strike, exp]
  Tab,         \* the browser tabs
  Market,      \* what the providers may answer about the underlying
  Sizes,       \* the sizes a position takes at the broker
  Start,       \* what is held, and its sizes, when the tabs are opened
  BalancesTTL, SwapTTL,
  MaxClock, MaxReads, MaxRequests, MaxTrades  \* bounds: ticks, reads, requests, trades

ASSUME BoundsAssumption ==
  BalancesTTL \in Nat /\ SwapTTL \in Nat /\ MaxClock \in Nat /\ MaxReads \in Nat
ASSUME StartAssumption == DOMAIN Start \subseteq Contract /\ \A k \in DOMAIN Start : Start[k] \in Sizes

VARIABLES
  now,
  broker,    \* the contracts held at the broker and their sizes
  reads,     \* the account reads, oldest first: [at, rows]
  balances,  \* the balances cache: [read, at], or None
  swaps,     \* the swap cache: position keys to [verdict, at]
  req,       \* the request of each tab
  shown,     \* what each tab shows, by the last answer it got
  asked,     \* how many requests there have been
  trades     \* how many trades

vars == <<now, broker, reads, balances, swaps, req, shown, asked, trades>>

Idle == [phase |-> "idle"]
Puts == {k \in Contract : k.type = "put"}

Init ==
  /\ now = 0 /\ asked = 0 /\ trades = 0
  /\ broker = Start
  /\ reads = <<>> /\ balances = None /\ swaps = <<>>
  /\ req = [t \in Tab |-> Idle]
  /\ shown = [t \in Tab |-> None]

Fresh(entry, ttl) == entry # None /\ now - entry.at < ttl

\* Variant: the verdict is cached by contract alone.
KeyBySymbol(k, row) == <<k>>

\* _position_key
Key(k, row) == <<k, row.qty>>

Cached(key) == IF key \in DOMAIN swaps THEN swaps[key] ELSE None

To(t, phase) == req' = [req EXCEPT ![t].phase = phase]

\* What follows the read of the account.
AfterRead(t) == IF req[t].kind = "refresh" THEN "clear" ELSE "lookup"

-----------------------------------------------------------------------------
(* A request begins.  alone: no other was under way while it was (history).*)

Begin(t, kind, k) ==
  LET others == {u \in Tab \ {t} : req[u] # Idle}
      mine == [phase |-> "read", kind |-> kind, k |-> k, read |-> 0, todo |-> {},
               began |-> now, alone |-> others = {}, failed |-> {}]
  IN /\ req[t] = Idle /\ asked < MaxRequests
     /\ asked' = asked + 1
     /\ req' = [u \in Tab |-> IF u = t THEN mine
                              ELSE IF u \in others THEN [req[u] EXCEPT !.alone = FALSE]
                              ELSE req[u]]

OpenPage(t) ==
  /\ Begin(t, "page", None)
  /\ UNCHANGED <<now, broker, reads, balances, swaps, shown, trades>>

\* The Refresh button: the balances are dropped first.
Refresh(t) ==
  /\ Begin(t, "refresh", None)
  /\ balances' = None
  /\ UNCHANGED <<now, broker, reads, swaps, shown, trades>>

\* The panel behind a verdict the tab shows.
OpenPanel(t) ==
  /\ shown[t] # None
  /\ \E k \in DOMAIN shown[t].rows :
       shown[t].rows[k].verdict # None /\ Begin(t, "panel", k)
  /\ UNCHANGED <<now, broker, reads, balances, swaps, shown, trades>>

-----------------------------------------------------------------------------
(* _cached_balances *)

ReadCached(t) ==
  /\ req[t].phase = "read" /\ Fresh(balances, BalancesTTL)
  /\ req' = [req EXCEPT ![t].phase = AfterRead(t), ![t].read = balances.read]
  /\ UNCHANGED <<now, broker, reads, balances, swaps, shown, asked, trades>>

\* brokerage_accounts: the account, priced as it is read.
ReadBroker(t) ==
  /\ req[t].phase = "read" /\ ~Fresh(balances, BalancesTTL) /\ Len(reads) < MaxReads
  /\ \E m \in Market :
       reads' = Append(reads, [at |-> now,
                               rows |-> [k \in DOMAIN broker |-> Row(k, broker[k], m)]])
  /\ req' = [req EXCEPT ![t].phase = "store", ![t].read = Len(reads) + 1]
  /\ UNCHANGED <<now, broker, balances, swaps, shown, asked, trades>>

StoreBalances(t) ==
  /\ req[t].phase = "store"
  /\ balances' = [read |-> req[t].read, at |-> now]
  /\ To(t, AfterRead(t))
  /\ UNCHANGED <<now, broker, reads, swaps, shown, asked, trades>>

\* The broker cannot be reached: a message in place of the accounts.
BrokerFails(t) ==
  /\ req[t].phase = "read" /\ ~Fresh(balances, BalancesTTL)
  /\ req' = [req EXCEPT ![t] = Idle]
  /\ shown' = [shown EXCEPT ![t] = None]
  /\ UNCHANGED <<now, broker, reads, balances, swaps, asked, trades>>

-----------------------------------------------------------------------------
(* _stamp_swaps *)

\* Variant: a refresh keeps the cached verdicts.
KeepVerdicts(t) ==
  /\ req[t].phase = "clear"
  /\ To(t, "lookup")
  /\ UNCHANGED <<now, broker, reads, balances, swaps, shown, asked, trades>>

\* force: this person's entries are cleared.
ClearVerdicts(t) ==
  /\ req[t].phase = "clear"
  /\ To(t, "lookup")
  /\ swaps' = <<>>
  /\ UNCHANGED <<now, broker, reads, balances, shown, asked, trades>>

\* A hit is written onto the row; a row without one keeps what it holds.
Lookup(t) ==
  LET rows == reads[req[t].read].rows
      hit == {k \in DOMAIN rows : Fresh(Cached(Key(k, rows[k])), SwapTTL)}
      todo == DOMAIN rows \ hit
  IN /\ req[t].phase = "lookup"
     /\ reads' = [reads EXCEPT ![req[t].read].rows =
                    [k \in DOMAIN rows |->
                       IF k \in hit THEN [rows[k] EXCEPT !.verdict = swaps[Key(k, rows[k])].verdict]
                       ELSE rows[k]]]
     /\ req' = [req EXCEPT ![t].todo = todo, ![t].phase = IF todo = {} THEN "render" ELSE "review"]
     /\ UNCHANGED <<now, broker, balances, swaps, shown, asked, trades>>

\* A verdict and, for the properties, when it was reached.
Judged(k, row, m, same) ==
  LET new == Judge(k, row, m, same)
  IN [new EXCEPT !.verdict = [action |-> @.action, cash |-> @.cash, spot |-> @.spot, at |-> now]]

\* swap_reviews: every position is judged at what the market says now; failed
\* are the puts whose review raised, or was dropped after one that did.
ReviewAll(t) ==
  LET rows == reads[req[t].read].rows
  IN /\ req[t].phase = "review"
     /\ \E m \in Market, failed \in SUBSET (req[t].todo \cap Puts) :
          /\ \E same \in [req[t].todo -> UNION {FreshPuts(m, k) : k \in req[t].todo}] :
               /\ \A k \in req[t].todo : same[k] \in FreshPuts(m, k)
               /\ reads' = [reads EXCEPT ![req[t].read].rows =
                    [k \in DOMAIN rows |-> IF k \in req[t].todo \ failed
                                           THEN Judged(k, rows[k], m, same[k]) ELSE rows[k]]]
          /\ req' = [req EXCEPT ![t].phase = "put", ![t].failed = failed]
     /\ UNCHANGED <<now, broker, balances, swaps, shown, asked, trades>>

\* Whatever verdict each of them now holds is cached.
PutBack(t) ==
  LET rows == reads[req[t].read].rows
      put == {Key(k, rows[k]) : k \in {j \in req[t].todo : rows[j].verdict # None}}
  IN /\ req[t].phase = "put"
     /\ swaps' = [e \in DOMAIN swaps \cup put |->
                    IF e \in put THEN [verdict |-> rows[e[1]].verdict, at |-> now]
                    ELSE swaps[e]]
     /\ To(t, "render")
     /\ UNCHANGED <<now, broker, reads, balances, shown, asked, trades>>

\* The answer: the positions table, or the panel of one verdict.
Render(t) ==
  LET r == req[t]
      rows == reads[r.read].rows
      table == [rows |-> rows, read |-> r.read, began |-> r.began, kind |-> r.kind,
                sound |-> r.alone /\ r.failed = {}, panel |-> None, k |-> None]
      there == r.k \in DOMAIN rows
  IN /\ r.phase = "render"
     /\ req' = [req EXCEPT ![t] = Idle]
     /\ shown' = [shown EXCEPT ![t] =
                    IF r.kind # "panel" THEN table
                    ELSE [@ EXCEPT !.k = r.k,
                                   !.panel = IF there THEN rows[r.k].verdict ELSE None]]
     /\ UNCHANGED <<now, broker, reads, balances, swaps, asked, trades>>

-----------------------------------------------------------------------------
\* A position is opened, grown, reduced or closed at the broker.
Trade ==
  /\ \E k \in Contract :
       \/ \E n \in Sizes :
            broker' = [c \in DOMAIN broker \cup {k} |-> IF c = k THEN n ELSE broker[c]]
       \/ broker' = Restrict(broker, DOMAIN broker \ {k})
  /\ broker' # broker
  /\ trades < MaxTrades /\ trades' = trades + 1
  /\ UNCHANGED <<now, reads, balances, swaps, req, shown, asked>>

Tick ==
  /\ now < MaxClock
  /\ now' = now + 1
  /\ UNCHANGED <<broker, reads, balances, swaps, req, shown, asked, trades>>

Next ==
  \/ \E t \in Tab : \/ OpenPage(t) \/ Refresh(t) \/ OpenPanel(t)
                    \/ ReadCached(t) \/ ReadBroker(t) \/ StoreBalances(t) \/ BrokerFails(t)
                    \/ ClearVerdicts(t) \/ Lookup(t) \/ ReviewAll(t) \/ PutBack(t) \/ Render(t)
  \/ Trade \/ Tick

Spec == Init /\ [][Next]_vars

-----------------------------------------------------------------------------
\* The dollars of a verdict on the page are those of the size on its row,
\* although the size comes from the read and the verdict from a cache that
\* outlives it: the key holds the size (app.py, _position_key).
RightSize ==
  \A t \in Tab : shown[t] # None =>
    \A k \in DOMAIN shown[t].rows :
      LET row == shown[t].rows[k]
      IN Judges(row.verdict) =>
           row.verdict.cash = (IF k.type = "call" THEN row.verdict.spot ELSE k.strike) * row.qty

\* A refresh that no other request overlapped, and in which nothing failed,
\* shows the account as read and every verdict as judged since it began: no
\* cache answers for it (portfolio_swaps_refresh).
RefreshIsNew ==
  \A t \in Tab : (shown[t] # None /\ shown[t].kind = "refresh" /\ shown[t].sound) =>
    /\ reads[shown[t].read].at >= shown[t].began
    /\ \A k \in DOMAIN shown[t].rows :
         shown[t].rows[k].verdict # None => shown[t].rows[k].verdict.at >= shown[t].began

\* What portfolio_swap_detail says of itself: the panel never disagrees with
\* the cell that opened it.
PanelAgrees ==
  \A t \in Tab : (shown[t] # None /\ shown[t].panel # None) =>
    shown[t].panel.action = shown[t].rows[shown[t].k].verdict.action
=============================================================================
