----------------------------- MODULE LadderRules -----------------------------
(***************************************************************************)
(* The rules of the covered-call ladder, core/ladder.py, as operators: the *)
(* rungs planned from a chain, the call to sell, the roll that rests on it *)
(* and the page.                                                           *)
(*                                                                         *)
(* Today is day 0 and a date its days from it.  Prices are cents a share,  *)
(* volatility and delta are per cent.  The model's value and delta of a    *)
(* call (spot, strike, days, volatility), Black-Scholes in the code, are   *)
(* parameters.                                                             *)
(*                                                                         *)
(* A plan has shares, cost, premiums, callPremiums, strike, exp, sold      *)
(* (None where no call is open), growth (per cent a month) and rungs.  A   *)
(* market is one chain pull: spot, calls (a sequence of [strike, exp, mid, *)
(* bid, ask, last, iv]), report and dividends.                             *)
(***************************************************************************)
EXTENDS Advice

CONSTANTS
  CallValue(_, _, _, _), CallDelta(_, _, _, _),
  RollMin, RollMax, OpenMin, OpenMax,  \* ROLL_DAYS, OPEN_DAYS
  MaxDays, GapDaysLeft, MaxRungs, PlanDays, ReportEvery,
  Fridays, ThirdFridays                \* the days ahead that are one

MinPremium(price) == Max({5, price \div 100})
MinRollCredit(strike) == Max({5, (15 * strike) \div 10000})
Trigger(strike) == (97 * strike + 50) \div 100

RollCredit(spot, strike, to, left, added, iv) ==
  CallValue(spot, to, left + added, iv) - CallValue(spot, strike, left, iv)

HasCall(plan) == plan.strike # None /\ plan.exp # None
RealCost(plan) == plan.cost - plan.premiums - plan.callPremiums

\* The delta a ladder starts at, by how far the price is below the real cost.
StartDelta(spot, cost) ==
  LET Below(percent) == cost > 0 /\ 100 * (cost - spot) >= percent * cost
  IN IF Below(15) THEN 15 ELSE IF Below(5) THEN 25 ELSE 40

\* for_holding: the ladder a holding needs, with the lowest call open on it.
ForHolding(h) ==
  LET open == {c \in h.calls : ~c.expired}
      low == CHOOSE c \in open : \A d \in open :
               c.strike < d.strike \/ (c.strike = d.strike /\ c.exp <= d.exp)
      Needs(strike, exp, sold) ==
        [shares |-> h.shares, cost |-> h.cost, premiums |-> 0,
         callPremiums |-> IF sold = None THEN 0 ELSE sold,
         strike |-> strike, exp |-> exp, sold |-> sold, growth |-> None, rungs |-> <<>>]
  IN IF h.shares < 100 \/ ~Given(h.cost) THEN None
     ELSE IF open # {} /\ low.strike >= h.cost THEN None
     ELSE IF open # {} THEN Needs(low.strike, low.exp, low.sold)
     ELSE IF ~Given(h.price) \/ h.price >= h.cost THEN None
     ELSE Needs(None, None, None)

-----------------------------------------------------------------------------
(* Reading the chain *)

QuoteOf(calls, strike, exp) == Find(calls, LAMBDA c : c.strike = strike /\ c.exp = exp)

MidOf(c) ==
  IF c = None THEN None
  ELSE IF Given(c.mid) THEN c.mid
  ELSE IF c.bid # None /\ Given(c.ask) THEN (c.bid + c.ask) \div 2
  ELSE IF Given(c.last) THEN c.last ELSE None

\* The open call's volatility, else the nearest to the money's, a month out.
Volatility(market, quote) ==
  LET usable == {i \in DOMAIN market.calls : Given(market.calls[i].iv) /\ market.calls[i].exp >= 21}
      Far(i) == Gap(market.calls[i].strike, market.spot)
      near == CHOOSE i \in usable : \A j \in usable :
                \/ Far(i) < Far(j)
                \/ Far(i) = Far(j) /\ market.calls[i].exp < market.calls[j].exp
                \/ Far(i) = Far(j) /\ market.calls[i].exp = market.calls[j].exp /\ i <= j
      own == IF quote = None THEN None ELSE quote.iv
  IN IF Given(own) THEN own
     ELSE IF market.spot = None \/ usable = {} THEN None
     ELSE market.calls[near].iv

\* The last expiry before the report.
Wall(expiries, report) ==
  LET before == {e \in expiries : report # None /\ e < report}
  IN IF before = {} THEN None ELSE Max(before)

AtOrAbove(calls, exp, wanted) ==
  LET listed == {calls[i].strike : i \in {j \in DOMAIN calls : calls[j].exp = exp
                                                          /\ calls[j].strike >= wanted}}
  IN IF listed = {} THEN None ELSE Min(listed)

\* A round step of about 3% of the price.
StepOf(price) ==
  LET fits == {s \in {50, 100, 250, 500, 1000, 2500, 5000, 10000} : 6 * price <= 300 * s}
  IN IF fits = {} THEN 10000 ELSE Min(fits)

\* The strikes a rung can be, carried on past the highest at its spacing.
StrikesTo(calls, top) ==
  LET far == {i \in DOMAIN calls : calls[i].exp >= OpenMin}
      listed == {calls[i].strike : i \in IF far = {} THEN DOMAIN calls ELSE far}
      last == Max(listed)
      gap == IF Cardinality(listed) > 1 THEN last - Max(listed \ {last}) ELSE StepOf(top)
  IN IF listed = {} THEN {}
     ELSE listed \cup {last + n * gap : n \in 1..((Floor0(top - last) + gap - 1) \div gap)}

-----------------------------------------------------------------------------
(* Choosing a rung and an expiry *)

\* Variant: the rung reached is forgotten.
NextRungBelow(rungs, price, reached) ==
  LET fits == {r \in Range(rungs) : r > price /\ (r = Last(rungs) \/ 97 * r > 100 * price)}
  IN IF fits = {} THEN None ELSE Min(fits)

\* The lowest rung above the price and out of its own roll zone, never below
\* the one reached.
NextRung(rungs, price, reached) ==
  LET fits == {r \in Range(rungs) : /\ r > price /\ r >= reached
                                    /\ r = Last(rungs) \/ 97 * r > 100 * price}
  IN IF fits = {} THEN None ELSE Min(fits)

\* Variant: an expiry on the day of the report is let through.
AllowedOnTheDay(e, from, report) ==
  e - from <= MaxDays /\ (IF report = None THEN TRUE ELSE e <= report)

\* An expiry a call may have.
Allowed(e, from, report) ==
  e - from <= MaxDays /\ (IF report = None THEN TRUE ELSE e < report)

\* A new call's expiry: the latest of four to six weeks, else the nearest to
\* them three weeks out or more.
OpenExpiry(expiries, start, from, report) ==
  LET ok == {e \in expiries : Allowed(e, from, report)}
      window == {e \in ok : start + OpenMin <= e /\ e <= start + OpenMax}
      later == {e \in ok : e >= start + 21}
      Off(e) == IF e < start + OpenMin THEN start + OpenMin - e ELSE e - (start + OpenMax)
  IN IF window # {} THEN Max(window)
     ELSE IF later = {} THEN None
     ELSE CHOOSE e \in later : \A f \in later :
                           Off(e) < Off(f) \/ (Off(e) = Off(f) /\ e <= f)

\* A call to sell on day start, or None.
NewCall(calls, expiries, strike, start, report, spot, iv) ==
  LET exp == OpenExpiry(expiries, start, 0, report)
      listed == AtOrAbove(calls, exp, strike)
      k == IF listed # None THEN listed ELSE strike
      quoted == IF start = 0 THEN MidOf(QuoteOf(calls, k, exp)) ELSE None
      premium == IF quoted # None THEN quoted
                 ELSE IF spot # None /\ iv # None THEN CallValue(spot, k, exp - start, iv) ELSE None
      floor == MinPremium(IF Given(spot) THEN spot ELSE k)
  IN IF exp = None THEN None
     ELSE [strike |-> k, exp |-> exp, premium |-> premium, minimum |-> floor,
           estimated |-> quoted = None,
           sells |-> IF premium = None THEN FALSE ELSE premium >= floor]

\* A share of the model's worst credit at the trigger, to the 5 cents below.
ModelLimit(strike, to, left, added, iv) ==
  LET low == Max({5, iv - 10})
      worst == Min({RollCredit(Trigger(strike), strike, to, d, added, low) :
                      d \in 1..Max({1, left})})
  IN ((worst * 85) \div 500) * 5

\* A step a roll pays for even at its worst.
Pays(strike, to, iv) == ModelLimit(strike, to, OpenMax, RollMin, iv) >= MinRollCredit(strike)

\* Above this price the roll no longer pays its limit, or None.
GapPrice(strike, to, left, added, limit, iv) ==
  LET step == Max({1, strike \div 400})
      gapFrom[s \in Nat] ==
        IF s >= 3 * to THEN None
        ELSE IF RollCredit(s, strike, to, Min({GapDaysLeft, left}), added, iv) < limit THEN s
        ELSE gapFrom[s + step]
  IN gapFrom[Trigger(strike)]

\* The roll order that rests on the open call, or why there is none.
RollOrder(plan, calls, expiries, report, iv, quote) ==
  LET higher == {r \in Range(plan.rungs) : r > plan.strike}
      lo == plan.exp + RollMin
      listed == {e \in expiries : lo <= e /\ e <= plan.exp + RollMax /\ e <= MaxDays}
      fits == {e \in listed : Allowed(e, 0, report)}
      exp == Min(fits)
      to == AtOrAbove(calls, exp, Min(higher))
      added == exp - plan.exp
      left == Max({1, plan.exp})
      floor == MinRollCredit(plan.strike)
      limit == IF iv = None THEN floor
               ELSE Max({floor, ModelLimit(plan.strike, to, left, added, iv)})
      new == QuoteOf(calls, to, exp)
      Known(a, b) == a # None /\ b # None
      Blocked(why) == [blocked |-> why, to |-> None, exp |-> None]
      byReport == IF report = None THEN FALSE ELSE listed # {} \/ lo >= report
  IN IF higher = {} THEN Blocked("target")
     ELSE IF fits = {} THEN Blocked(IF byReport THEN "report" ELSE "unlisted")
     ELSE IF to = None THEN [Blocked("no-strike") EXCEPT !.exp = exp]
     ELSE [blocked |-> None, to |-> to, exp |-> exp, added |-> added, limit |-> limit,
           gap |-> IF iv = None THEN None ELSE GapPrice(plan.strike, to, left, added, limit, iv),
           mid |-> IF Known(MidOf(new), MidOf(quote)) THEN MidOf(new) - MidOf(quote) ELSE None,
           natural |-> IF ~Known(new, quote) THEN None
                       ELSE IF Known(new.bid, quote.ask) THEN new.bid - quote.ask ELSE None]

-----------------------------------------------------------------------------
(* plan_rungs *)

\* The strike nearest the i-th of an even split; of two as near, the lower.
Nearest(between, start, target, steps, i) ==
  LET Off(s) == Gap(s * steps, start * steps + (target - start) * i)
  IN CHOOSE s \in between : \A u \in between :
       Off(s) < Off(u) \/ (Off(s) = Off(u) /\ s <= u)

\* The rungs from start on, after each step that stays below the target.
Below(start, target, steps, strikes) ==
  LET rungs[i \in Nat] ==
        LET before == IF i = 0 THEN <<start>> ELSE rungs[i - 1]
            between == {s \in strikes : Last(before) < s /\ s < target}
        IN IF i = 0 \/ between = {} THEN before
           ELSE Append(before, Nearest(between, start, target, steps, i))
  IN rungs

\* Steps from start to target, each rung a strike near an even split.
Even(start, target, steps, strikes) ==
  Append(Below(start, target, steps, strikes)[steps - 1], target)

\* Variant: only the first step is judged.
FirstPays(rungs, iv) == Pays(rungs[1], rungs[2], iv)

AllPay(rungs, iv) == \A i \in 1..(Len(rungs) - 1) : Pays(rungs[i], rungs[i + 1], iv)

\* Where the ladder starts with no call open: the strike of the delta wanted,
\* or below it the highest that pays the minimum.
StartOf(plan, market, calls, above, iv) ==
  LET spot == market.spot
      expiries == {calls[i].exp : i \in DOMAIN calls}
      exp == OpenExpiry(expiries, 0, 0, market.report)
      days == IF exp = None THEN OpenMax ELSE exp
      quoted(k) == IF exp = None THEN None ELSE MidOf(QuoteOf(calls, k, exp))
      premium(k) == IF quoted(k) # None THEN quoted(k)
                    ELSE IF iv = None THEN 0
                    ELSE CallValue(spot, k, days, iv)
      wanted == StartDelta(spot, RealCost(plan))
      Off(k) == Gap(CallDelta(spot, k, days, iv), wanted)
      aim == IF iv = None THEN Max(above)
             ELSE CHOOSE k \in above : \A j \in above :
                    Off(k) < Off(j) \/ (Off(k) = Off(j) /\ k <= j)
      paying == {k \in above : k <= aim /\ premium(k) >= MinPremium(spot)}
  IN IF paying = {} THEN [rung |-> Min(above), how |-> "price"]
     ELSE [rung |-> Max(paying),
           how |-> IF iv # None /\ Max(paying) = aim THEN "delta" ELSE "premium"]

\* The rungs from the open call, or from where to start, to the first strike
\* at or above the cost, in the fewest steps that all pay; or None.
PlanRungs(plan, market) ==
  LET calls == market.calls
      spot == market.spot
      strikes == StrikesTo(calls, plan.cost)
      target == Min({s \in strikes : s >= plan.cost})
      quote == IF HasCall(plan) THEN QuoteOf(calls, plan.strike, plan.exp) ELSE None
      iv == Volatility(market, quote)
      above == {s \in strikes : spot < s /\ s <= target}
      higher == {s \in strikes : s > spot}
      from == IF HasCall(plan) THEN [rung |-> plan.strike, how |-> "call"]
              ELSE StartOf(plan, market, calls, above, iv)
      Made(rungs, how, tight) == [rungs |-> rungs, how |-> how, iv |-> iv, tight |-> tight]
      \* about 5% of the price apart, to the nearest number of steps
      blind == Max({1, (2 * 20 * (target - from.rung) + from.rung) \div (2 * from.rung)})
      paid == {n \in 1..(MaxRungs - 1) : AllPay(Even(from.rung, target, n, strikes), iv)}
  IN IF strikes = {} \/ (spot = None /\ ~HasCall(plan)) THEN None
     ELSE IF ~HasCall(plan) /\ above = {} THEN
            Made(<<IF higher = {} THEN target ELSE Min(higher)>>, "target", FALSE)
     ELSE IF from.rung >= target THEN Made(<<from.rung>>, from.how, FALSE)
     ELSE IF iv = None THEN
            Made(Even(from.rung, target, Min({blind, MaxRungs - 1}), strikes), from.how, FALSE)
     ELSE IF paid # {} THEN Made(Even(from.rung, target, Min(paid), strikes), from.how, FALSE)
     ELSE Made(Even(from.rung, target, MaxRungs - 1, strikes), from.how, TRUE)

-----------------------------------------------------------------------------
(* The dates a plan looks ahead to *)

\* _ahead: the listed expiries, and those to come that are not listed yet.
Ahead(listed) ==
  LET end == PlanDays + OpenMax
      Next(e) == {f \in listed : f > e}
      weekly == \E e \in listed : Next(e) # {} /\ Min(Next(e)) - e = 7
  IN listed \cup {d \in IF weekly THEN Fridays ELSE ThirdFridays : d <= end}

\* _reports: a quarter apart, to past the end of the plan.
Reports(report) ==
  IF report = None THEN {}
  ELSE {report + n * ReportEvery : n \in 0..((Floor0(PlanDays + ReportEvery - report)
                                              + ReportEvery - 1) \div ReportEvery)}

-----------------------------------------------------------------------------
(* build: the page, without the plan in time *)

RungState(plan, i) ==
  IF i = Len(plan.rungs) THEN "target"
  ELSE IF HasCall(plan) /\ plan.rungs[i] = plan.strike THEN "open"
  ELSE IF HasCall(plan) /\ plan.rungs[i] < plan.strike THEN "passed"
  ELSE "ahead"

RungRow(plan, iv, i) ==
  LET r == plan.rungs[i]
      to == IF i = Len(plan.rungs) THEN None ELSE plan.rungs[i + 1]
      priced == to # None /\ iv # None
  IN [strike |-> r, state |-> RungState(plan, i), to |-> to, ifCalled |-> r - RealCost(plan),
      credit |-> IF priced THEN RollCredit(Trigger(r), r, to, GapDaysLeft, RollMin, iv) ELSE None,
      pays |-> IF priced THEN Pays(r, to, iv) ELSE None]

Build(plan, market) ==
  LET calls == market.calls
      spot == market.spot
      expiries == {calls[i].exp : i \in DOMAIN calls}
      report == market.report
      quote == IF HasCall(plan) THEN QuoteOf(calls, plan.strike, plan.exp) ELSE None
      iv == Volatility(market, quote)
      next == IF spot = None THEN plan.rungs[1] ELSE NextRung(plan.rungs, spot, 0)
      new == NewCall(calls, expiries, IF next = None THEN Last(plan.rungs) ELSE next,
                     0, report, spot, iv)
      roll == RollOrder(plan, calls, expiries, report, iv, quote)
      price == IF quote = None THEN None ELSE IF Given(quote.bid) THEN quote.bid ELSE MidOf(quote)
      dividends == {d \in market.dividends : 0 < d.day /\ d.day <= plan.exp}
      early == IF spot = None THEN None
               ELSE Assess("call", plan.strike, spot, price, plan.exp, 0, dividends)
      take == IF Given(plan.sold) THEN plan.sold \div 4 ELSE None
      cheap == IF quote = None \/ take = None THEN FALSE
               ELSE quote.ask # None /\ quote.ask <= take
      after == IF roll.blocked = "target" THEN None
               ELSE NewCall(calls, expiries, plan.strike, plan.exp, report, spot, iv)
      Shows(status, order, now, then) ==
        [rungs |-> [i \in DOMAIN plan.rungs |-> RungRow(plan, iv, i)], spot |-> spot,
         report |-> report, wall |-> Wall(expiries, report), status |-> status,
         roll |-> order, newCall |-> now, nextCall |-> then]
  IN IF ~HasCall(plan) THEN
            Shows(IF new = None THEN "wait" ELSE IF new.sells THEN "sell" ELSE "thin",
                  None, new, None)
     ELSE IF plan.exp < 0 THEN Shows("expired", None, None, None)
     ELSE Shows(IF report # None /\ plan.exp >= report THEN "spans"
                  ELSE IF roll.blocked = "target" THEN "target"
                  ELSE IF cheap THEN "take-profit"
                  ELSE IF early # None /\ early.risk = "likely" THEN "assignment"
                  ELSE IF spot # None /\ spot >= Trigger(plan.strike) THEN "roll-zone"
                  ELSE "hold",
                  roll, None, after)
=============================================================================
