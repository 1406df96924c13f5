---------------------------- MODULE SwapVerdicts ----------------------------
(***************************************************************************)
(* One row of the account, priced and judged: price_positions,             *)
(* swap_reviews and what they ask of core/service.py.  The account sells   *)
(* puts and calls on one underlying; today is day 0, and a contract's exp  *)
(* its days to expiry.                                                     *)
(*                                                                         *)
(* What the providers answer is a market m: spot, board (the price that    *)
(* comes with the chain), mark (the option at the broker), ask (of the held*)
(* put), puts (the chain, as in StrikeSelection), report (the next one),   *)
(* gated (whether the fundamentals pass), down (the chain does not load)   *)
(* and dividends (the history, as in Advice).                              *)
(***************************************************************************)
EXTENDS Advice, StrikeSelection

CONSTANTS
  Entry,       \* the entry rules, ScreenCriteria()
  Underlying,
  Picks        \* the latest refresh's candidates: a sequence of [name, yield]

\* in_life: the ex-dividends a contract expiring on exp lives through.
InLife(history, exp) == Upcoming(history, 0, exp)

\* price_positions: the stock's price and the early-assignment verdict at the
\* broker's mark.
Row(k, qty, m) ==
  [qty |-> qty, spot |-> m.spot, mark |-> m.mark, verdict |-> None,
   risk |-> Assess(k.type, k.strike, m.spot, m.mark, k.exp, 0, InLife(m.dividends, k.exp))]

\* _tenor_matched_put: the pick at the expiry nearest the held one's days.
TenorMatchedPut(puts, c, g, held) ==
  LET target == Min({Max({held, c.minDte}), c.maxDte})
      days == {k.dte : k \in {j \in puts : c.minDte <= j.dte /\ j.dte <= c.maxDte + c.tolerance}}
      PickAt(d) == LET only == [c EXCEPT !.minDte = d, !.maxDte = d, !.tolerance = 0]
                   IN SelectPut(EligibleContracts(puts, Underlying, only, g), only)
      usable == {d \in days : PickAt(d) # {}}
      nearest == CHOOSE d \in usable : \A e \in usable :
                   Gap(d, target) < Gap(e, target) \/ (Gap(d, target) = Gap(e, target) /\ d <= e)
  IN IF usable = {} THEN {None}
     ELSE {[name |-> Underlying, yield |-> k.pays] : k \in PickAt(nearest)}

\* _fresh_put_and_ask: the puts the rules may pick.  gated: the fundamentals
\* pass; down: the chain did not load.
FreshPuts(m, k) ==
  LET guard == [dates |-> [n \in {Underlying} |-> IF Entry.policy = "off" THEN NoDate ELSE m.report],
                buffer |-> Entry.buffer, policy |-> "exclude",
                excludeUnknown |-> FALSE, covers |-> NoDate]
  IN IF m.down \/ ~m.gated THEN {None} ELSE TenorMatchedPut(m.puts, Entry, guard, k.exp)

Others == BestFirst(Those(Picks, LAMBDA p : p.name # Underlying), LAMBDA p : p.yield)
MedianYield == ListMedianYield([i \in DOMAIN Picks |-> Picks[i].yield])

\* One position's verdict at market m with same the fresh put.  A put out of
\* scope is settled without a chain; a spot not known comes with the chain.
Judge(k, row, m, same) ==
  LET settled == k.exp < 1 \/ (row.spot # None /\ row.spot <= k.strike)
      pulled == ~settled /\ ~m.down
      spot == IF row.spot = None /\ pulled THEN m.board ELSE row.spot
      put == [strike |-> k.strike, days |-> k.exp, qty |-> row.qty, spot |-> spot,
              ask |-> IF pulled THEN m.ask ELSE None]
      call == [strike |-> k.strike, days |-> k.exp, qty |-> row.qty,
               spot |-> row.spot, price |-> row.mark]
      said == IF k.type = "call" THEN ReviewCoveredCall(call)
              ELSE Review(put, same, Others, MedianYield)
      seen == IF k.type = "call" THEN row.spot ELSE spot
  IN [row EXCEPT !.spot = seen,
                 !.verdict = [action |-> said.action, cash |-> said.cash,
                              spot |-> seen]]

\* Whether a verdict says anything of the cash behind the position.
Judges(v) == v # None /\ v.cash # None
=============================================================================
