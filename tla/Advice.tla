------------------------------- MODULE Advice -------------------------------
(***************************************************************************)
(* What the portfolio page says about one held option, as pure operators:  *)
(* the keep-or-swap rule (core/swap.py), the ways out (core/exits.py),     *)
(* the early-assignment verdict (core/assignment.py), the ex-dividends     *)
(* inside a contract's life (core/dividends.py) and the surface of rolls   *)
(* (core/rollgrid.py).                                                     *)
(*                                                                         *)
(* Prices are cents a share and days are integers.  With 100 shares to a   *)
(* contract, cents a share times contracts are dollars.  Yearly rates are  *)
(* per mille, rounded down.  What the code leaves None is None.            *)
(*                                                                         *)
(* A position p has short, type, strike, exp and qty.  A contract of a     *)
(* chain has type, strike, exp, bid, ask, delta, oi, vol and size; a chain *)
(* is a sequence, in the order the provider sent it.  A dividend has day,  *)
(* amount, freq and est (projected, not announced); a history is a set of  *)
(* them, no two on one day.                                                *)
(***************************************************************************)
EXTENDS Optional

CONSTANTS
  UsedUpYield, MinRatio, MinExtra, SwapCost, TopN,  \* SwapParams
  CarryRate,                                        \* per cent a year
  NoTimeValue,
  StrikeSpan, ExpiryCount, MaxStrikeRows,
  MinOpenInterest, MinVolume, MinBidSize

-----------------------------------------------------------------------------
(* core/swap.py *)

PutYield(price, strike, days) ==
  IF strike <= 0 \/ days < 1 \/ price < 0 THEN None
  ELSE (price * 365000) \div (strike * days)

\* Variant: a put past its strike is judged too.
InScopeAnywhere(old) == old.spot # None /\ old.days >= 1 /\ Given(old.ask)

\* Whether the rule has anything to say about an open put [strike, days, qty,
\* spot, ask]: out of the money, not expiring today, and with an ask.
InScope(old) ==
  old.spot # None /\ old.spot > old.strike /\ old.days >= 1 /\ Given(old.ask)

ExtraPremium(fresh, paid, cash, days) ==
  ((fresh - paid) * cash * days) \div 365000 - SwapCost

\* same is the one put the entry rules would open on this ticker, or None.
Review(old, same, others, median) ==
  LET fresh == IF same # None THEN same.yield ELSE median
      paid == PutYield(old.ask, old.strike, old.days)
      cash == old.strike * old.qty
      extra == ExtraPremium(fresh, paid, cash, old.days)
      worth == paid < UsedUpYield /\ fresh >= MinRatio * paid /\ extra >= MinExtra
  IN IF ~InScope(old) THEN [action |-> "not-applicable", cash |-> None]
     ELSE IF fresh = None THEN [action |-> "keep", cash |-> None]
     ELSE [action |-> IF worth THEN "swap" ELSE "keep", cash |-> cash,
                    fresh |-> fresh, paid |-> paid, extra |-> extra,
                    suggestions |-> IF ~worth THEN <<>>
                                    ELSE (IF same # None THEN <<same>> ELSE <<>>)
                                         \o SubSeq(others, 1, Min({TopN, Len(others)}))]

ReviewCoveredCall(call) ==
  LET rate == PutYield(call.price, call.spot, call.days)
  IN IF call.spot = None \/ (call.spot # None /\ call.spot >= call.strike)
        \/ call.days < 1 \/ ~Given(call.price)
     THEN [action |-> "not-applicable", cash |-> None]
     ELSE [action |-> IF rate >= UsedUpYield THEN "keep" ELSE "idle",
           cash |-> call.spot * call.qty]

\* The median of a sequence of yields.
ListMedianYield(yields) ==
  LET s == SortSeq(yields, LAMBDA a, b : a < b)
      n == Len(s)
  IN CASE n = 0 -> None
       [] n % 2 = 1 -> s[(n + 1) \div 2]
       [] OTHER -> (s[n \div 2] + s[n \div 2 + 1]) \div 2

-----------------------------------------------------------------------------
(* core/exits.py *)

InTheMoney(strike, spot, type) ==
  spot # None /\ (IF type = "put" THEN spot < strike ELSE spot > strike)

Intrinsic(strike, spot, qty, type) ==
  IF spot = None THEN 0
  ELSE Floor0(IF type = "put" THEN strike - spot ELSE spot - strike) * qty

\* The capital a position ties up.
Committed(p, strike, spot, own) ==
  IF ~p.short THEN own
  ELSE IF p.type = "put" THEN strike * p.qty
  ELSE (IF Given(spot) THEN spot ELSE strike) * p.qty

Match(chain, strike, exp) == Find(chain, LAMBDA c : c.strike = strike /\ c.exp = exp)

\* A row's yearly rate, on its time value.
Rate(row) ==
  IF row.collateral <= 0 \/ row.days <= 0 THEN None
  ELSE (row.extrinsic * 365000) \div (row.collateral * row.days)

\* Variant: a short is bought back at the bid.
CloseAtBid(p, c) == c.bid

\* The price p's contract can be closed at.
CloseAt(p, c) == IF p.short THEN c.ask ELSE c.bid

Keep(chain, p, spot, today) ==
  LET cur == Match(chain, p.strike, p.exp)
      own == CloseAt(p, cur) * p.qty
      time == own - Intrinsic(p.strike, spot, p.qty, p.type)
      earned == IF p.short THEN time ELSE -time
  IN IF cur = None \/ (cur # None /\ CloseAt(p, cur) = None) THEN {}
     ELSE {[kind |-> "keep", credit |-> earned, extrinsic |-> earned, days |-> p.exp - today,
            strike |-> p.strike, exp |-> p.exp, warned |-> FALSE, more |-> 0,
            collateral |-> Committed(p, p.strike, spot, own)]}

\* One roll to each later expiry that lists the strike.  Where a contract is
\* listed twice the one with the better bid is taken.
Rolls(chain, p, spot, target) ==
  LET cur == Match(chain, p.strike, p.exp)
      OpenAt(c) == IF p.short THEN c.bid ELSE c.ask
      later == {i \in DOMAIN chain : /\ chain[i].strike = target /\ chain[i].exp > p.exp
                                     /\ Given(OpenAt(chain[i])) /\ OpenAt(chain[i]) > 0}
      Bid(i) == IF chain[i].bid = None THEN 0 ELSE chain[i].bid
      best == {i \in later : \A j \in later : chain[j].exp = chain[i].exp
                                => Bid(j) < Bid(i) \/ (Bid(j) = Bid(i) /\ i <= j)}
      unwind == CloseAt(p, cur) * p.qty
      here == Intrinsic(p.strike, spot, p.qty, p.type)
      there == Intrinsic(target, spot, p.qty, p.type)
      Row(c) == LET new == OpenAt(c) * p.qty
                    sign == IF p.short THEN 1 ELSE -1
                    tied == Committed(p, target, spot, new)
                IN [kind |-> "roll", credit |-> sign * (new - unwind),
                    extrinsic |-> sign * ((new - there) - (unwind - here)),
                    days |-> c.exp - p.exp, strike |-> target, exp |-> c.exp,
                    warned |-> there > here /\ p.short, collateral |-> tied,
                    more |-> tied - Committed(p, p.strike, spot, unwind)]
  IN IF cur = None \/ (cur # None /\ CloseAt(p, cur) = None) THEN {}
     ELSE {Row(chain[i]) : i \in best}

\* The listed strike nearest the one wanted; of two as near, the lower.
NearestStrike(listed, wanted) ==
  CHOOSE k \in listed : \A j \in listed :
    Gap(k, wanted) < Gap(j, wanted) \/ (Gap(k, wanted) = Gap(j, wanted) /\ k <= j)

\* What the freed capital would earn after assignment, a row to each tenor.
WriteAfterAssignment(opposite, p, spot, today, wanted) ==
  LET written == IF p.type = "put" THEN "call" ELSE "put"
      capital == (IF p.type = "put" THEN spot ELSE p.strike) * p.qty
      listed == {opposite[i].strike : i \in {j \in DOMAIN opposite : opposite[j].type = written}}
      target == IF wanted \in listed THEN wanted ELSE NearestStrike(listed, wanted)
      rows == {i \in DOMAIN opposite :
                 /\ opposite[i].type = written /\ opposite[i].strike = target
                 /\ Given(opposite[i].bid) /\ opposite[i].exp > today}
      first == {i \in rows : \A j \in rows : opposite[j].exp = opposite[i].exp => i <= j}
  IN IF spot = None \/ listed = {} THEN {}
     ELSE {[kind |-> "assign_cc", credit |-> opposite[i].bid * p.qty,
            extrinsic |-> opposite[i].bid * p.qty, days |-> opposite[i].exp - today,
            strike |-> target, exp |-> opposite[i].exp, collateral |-> capital,
            warned |-> InTheMoney(target, spot, written), more |-> capital - p.strike * p.qty]
             : i \in first}

\* Best rate first, the rows without one last; of two as good the earlier to
\* expire: no two expire together, and that is the order they come in.
Ranked(rows) ==
  InOrder(rows, LAMBDA a, b : IF Rate(a) = Rate(b) THEN a.exp < b.exp
                              ELSE IF Rate(a) = None THEN FALSE
                              ELSE IF Rate(b) = None THEN TRUE
                              ELSE Rate(a) > Rate(b))

Compare(own, opposite, p, spot, today, rollStrike, callStrike) ==
  [alternatives |-> Ranked(Keep(own, p, spot, today) \cup Rolls(own, p, spot, rollStrike)),
   after |-> IF p.short /\ InTheMoney(p.strike, spot, p.type)
             THEN WriteAfterAssignment(opposite, p, spot, today, callStrike) ELSE {}]

-----------------------------------------------------------------------------
(* core/dividends.py *)

ScheduleDays ==
  [weekly |-> 7, monthly |-> 30, quarterly |-> 91, semiannual |-> 182, annual |-> 365]

Earliest(ds) == CHOOSE d \in ds : \A e \in ds : d.day <= e.day
Latest(ds) == CHOOSE d \in ds : \A e \in ds : e.day <= d.day

\* The announced ex-dates ahead, and the schedule projected past the last
\* regular one while it has not lapsed.
Upcoming(history, today, until) ==
  LET regular == {d \in history : d.freq \in DOMAIN ScheduleDays /\ ~d.est}
      anchor == Latest(regular)
      step == ScheduleDays[anchor.freq]
      from == Max({anchor.day + step, today + 1})
      live == regular # {} /\ anchor.day >= today - (3 * step) \div 2
      projected == {n \in from..until : (n - from) % step = 0}
  IN {d \in history : today < d.day /\ d.day <= until}
     \cup (IF live THEN {[day |-> n, amount |-> anchor.amount, freq |-> anchor.freq, est |-> TRUE]
                            : n \in projected}
           ELSE {})

\* What the dividends in one contract's life do to it.  cushion is the gap to
\* the strike net of them.
Impact(dividends, type, strike, spot, premium) ==
  LET first == Earliest(dividends)
      total == MapThenSumSet(LAMBDA d : d.amount, dividends)
      time == premium - Floor0(spot - strike)
      priced == spot # None
  IN IF dividends = {} THEN None
     ELSE [first |-> first.day, total |-> total, count |-> Cardinality(dividends),
           estimated |-> \E d \in dividends : d.est,
           cushion |-> IF ~priced THEN None
                       ELSE IF type = "put" THEN spot - total - strike
                            ELSE strike - (spot - total),
           eve |-> IF type = "call" THEN first.day - 1 ELSE None,
           likely |-> type = "call" /\ priced /\ premium # None
                      /\ spot > strike /\ time < first.amount]

-----------------------------------------------------------------------------
(* core/assignment.py *)

\* What the strike earns in days: the first order of exp(rate * t) - 1.
InterestOnStrike(strike, days) == (strike * CarryRate * Floor0(days)) \div 36500

Thin(time, gain) == time < 2 * gain

\* A call is exercised the day before an ex-date, for the dividend.
AssessCall(time, ahead) ==
  LET gain == Earliest(ahead).amount
  IN IF ahead # {} /\ time < gain THEN [risk |-> "likely", cause |-> "dividend"]
     ELSE IF ahead # {} /\ Thin(time, gain) THEN [risk |-> "possible", cause |-> "dividend"]
     ELSE IF time <= NoTimeValue THEN [risk |-> "likely", cause |-> "no-time-value"]
     ELSE [risk |-> "low", cause |-> None]

\* A put for the interest on its strike, once no dividend is ahead.
AssessPut(time, ahead, strike, exp, today) ==
  LET carry == InterestOnStrike(strike, exp - today)
      after == InterestOnStrike(strike, exp - Earliest(ahead).day)
  IN IF ahead # {} /\ time < Max({after, NoTimeValue}) THEN
            [risk |-> "possible", cause |-> "interest"]
     ELSE IF ahead # {} THEN [risk |-> "low", cause |-> None]
     ELSE IF time <= NoTimeValue THEN [risk |-> "likely", cause |-> "no-time-value"]
     ELSE IF time < carry THEN [risk |-> "likely", cause |-> "interest"]
     ELSE IF Thin(time, carry) THEN [risk |-> "possible", cause |-> "interest"]
     ELSE [risk |-> "low", cause |-> None]

Assess(type, strike, spot, price, exp, today, dividends) ==
  LET ahead == {d \in dividends : today < d.day /\ d.day <= exp}
      intrinsic == Intrinsic(strike, spot, 1, type)
  IN IF spot = None THEN None
     ELSE IF intrinsic = 0 THEN [risk |-> "low", cause |-> None]
     ELSE IF price = None THEN [risk |-> "unknown", cause |-> None]
     ELSE IF type = "call" THEN AssessCall(price - intrinsic, ahead)
     ELSE AssessPut(price - intrinsic, ahead, strike, exp, today)

-----------------------------------------------------------------------------
(* core/rollgrid.py *)

\* Why a contract's quote is not a price, or None.
LiquidityProblem(c) ==
  LET gap == c.ask - c.bid
  IN IF c.bid = None \/ c.ask = None \/ ~Given(c.bid) THEN "no bid"
     ELSE IF gap > 5 /\ gap * 200 > 30 * (c.ask + c.bid) THEN "spread"
     ELSE IF c.oi < MinOpenInterest THEN "open interest"
     ELSE IF c.vol < MinVolume THEN "volume"
     ELSE IF c.size < MinBidSize THEN "bid size"
     ELSE None

\* The strikes worth rolling to: a window around the held one, stretched to
\* the money, trimmed to MaxStrikeRows from the end further from the money.
PickStrikes(listed, held, spot) ==
  LET ks == Ascending(listed)
      n == Len(ks)
      around == IF held \in listed THEN held
                ELSE NearestStrike(listed, IF Given(spot) THEN spot ELSE held)
      money == IF Given(spot) THEN spot ELSE around
      IndexOf(k) == CHOOSE i \in 1..n : ks[i] = k
      own == IndexOf(around)
      atm == IF spot = None THEN own ELSE IndexOf(NearestStrike(listed, spot))
      loAnchor == Min({own, atm})
      hiAnchor == Max({own, atm})
      farLow(i, j) == Gap(ks[i], money) >= Gap(ks[j], money)
      trim[w \in (1..n) \X (1..n)] ==
        LET i == w[1]  j == w[2]
            low == i < loAnchor /\ (farLow(i, j) \/ j <= hiAnchor)
        IN IF j - i + 1 <= MaxStrikeRows THEN w
           ELSE IF low THEN trim[<<i + 1, j>>]
           ELSE IF j > hiAnchor THEN trim[<<i, j - 1>>]
           ELSE w
      window == trim[<<Max({1, loAnchor - StrikeSpan}), Min({n, hiAnchor + StrikeSpan})>>]
  IN IF listed = {} THEN {} ELSE {ks[i] : i \in window[1]..window[2]}

\* The surface of rolls of a position over one side of a chain, or None.  A
\* cell's credit is a share's.
Surface(own, p, spot) ==
  LET current == Match(own, p.strike, p.exp)
      ahead == {own[i].exp : i \in {j \in DOMAIN own : own[j].exp >= p.exp}}
      expiries == {e \in ahead : Cardinality({f \in ahead : f < e}) < ExpiryCount}
      quoted == {own[i].strike : i \in {j \in DOMAIN own : own[j].exp \in expiries
                                                          /\ Given(own[j].bid)}}
      strikes == PickStrikes(quoted, p.strike, spot)
      shown == {i \in DOMAIN own : own[i].strike \in strikes /\ own[i].exp \in expiries}
      \* a contract listed twice: the later row replaces the earlier
      last == {i \in shown : \A j \in shown : j > i =>
                 <<own[j].strike, own[j].exp>> # <<own[i].strike, own[i].exp>>}
      Cell(c) == [added |-> c.exp - p.exp,
                  credit |-> IF c.bid = None THEN None ELSE c.bid - current.ask,
                  perDay |-> IF c.bid = None \/ c.exp = p.exp THEN None
                             ELSE (100 * (c.bid - current.ask)) \div (c.exp - p.exp),
                  odds |-> c.delta,
                  problem |-> IF c.exp = p.exp /\ c.strike = p.strike THEN None
                              ELSE LiquidityProblem(c)]
      At(k, e) == {i \in last : own[i].strike = k /\ own[i].exp = e}
  IN IF current = None \/ (current # None /\ current.ask = None) \/ strikes = {} THEN None
     ELSE [strikes |-> strikes, expiries |-> expiries, close |-> current.ask,
           closeProblem |-> LiquidityProblem(current),
           cells |-> [ke \in {<<own[i].strike, own[i].exp>> : i \in last} |->
                        Cell(own[CHOOSE i \in At(ke[1], ke[2]) : TRUE])]]

RollGrid(chain, p, spot) == Surface(Those(chain, LAMBDA c : c.type = p.type), p, spot)
=============================================================================
