----------------------------- MODULE LadderPlan -----------------------------
(***************************************************************************)
(* The call ladder of one holding, from the fields of its panel            *)
(* (api/ladder_form.py, the route of api/app.py and ladder_market of       *)
(* core/service.py) to the plan laid out in time (_project and _stretches  *)
(* of core/ladder.py).                                                     *)
(*                                                                         *)
(* The plan takes the share price to climb (or fall) steadily; PathPrice   *)
(* is its price on a day.  A call is lived at a step: the days between are *)
(* the search for the first on which something happens to it.              *)
(***************************************************************************)
EXTENDS LadderRules

CONSTANTS
  PathPrice(_, _, _),  \* the price on a day, from today's and the growth
  Form,                \* what the panel's fields may hold
  Pull,                \* what the chain may answer: markets, or None
  MaxCalls

\* What the rules count in is whole, and the limits are as the code has them.
ASSUME LimitsAssumption ==
  /\ RollMin \in Nat /\ RollMax \in Nat /\ OpenMin \in Nat /\ OpenMax \in Nat
  /\ MaxDays \in Nat /\ PlanDays \in Nat /\ ReportEvery \in Nat \ {0}
  /\ MaxRungs \in Nat \ {0, 1} /\ MaxCalls \in Nat
  /\ Fridays \subseteq Nat /\ ThirdFridays \subseteq Nat
ASSUME NoneAssumption == None \notin Int
ASSUME FormAssumption ==
  \A f \in Form : {f.cost, f.strike, f.exp} \subseteq Int \cup {None}
\* The chain is asked for with no contract past its day (min_dte=0).
ASSUME PullAssumption ==
  \A m \in Pull \ {None} :
    /\ DOMAIN m = {"spot", "calls", "report", "dividends"}
    /\ {m.spot, m.report} \subseteq Int \cup {None}
    /\ IsFiniteSet(DOMAIN m.calls)
    /\ \A i \in DOMAIN m.calls : m.calls[i].strike \in Nat /\ m.calls[i].exp \in Nat

VARIABLES
  phase,    \* "form", "error", "page", "plan" while the loop runs, "told"
  plan,
  planned,  \* what plan_rungs said of the rungs
  market,
  view,     \* the page, as Build
  lived,    \* the calls lived, oldest first
  cur,      \* the call about to be lived, or None
  start,    \* the day the next may be sold
  waited, skipped,
  reached,  \* the highest rung so far
  stop      \* why the plan ends

ladderVars == <<phase, plan, planned, market, view, lived, cur, start, waited, skipped, reached, stop>>

LadderInit ==
  /\ phase = "form" /\ plan = None /\ planned = None /\ market = None /\ view = None
  /\ lived = <<>> /\ cur = None /\ start = 0 /\ waited = 0 /\ skipped = 0
  /\ reached = 0 /\ stop = ""

-----------------------------------------------------------------------------
(* api/ladder_form.py *)

\* Whether the fields are a plan: what is wrong with them otherwise is said in
\* words.  A field left empty is None.
IsPlan(f) ==
  /\ f.shares # None /\ f.shares >= 100
  /\ f.cost # None /\ f.cost > 0
  /\ f.premiums # None => f.premiums >= 0
  /\ (f.strike = None) = (f.exp = None)
  /\ f.strike # None => f.strike > 0
  /\ f.sold # None => f.sold >= 0
  /\ f.growth # None => f.growth \in -10..10

PlanFromForm(f) ==
  LET sold == IF f.strike = None THEN None ELSE f.sold
      Or0(x) == IF x = None THEN 0 ELSE x
  IN [shares |-> f.shares, cost |-> f.cost, premiums |-> Or0(f.premiums),
      callPremiums |-> Or0(sold), strike |-> f.strike, exp |-> f.exp, sold |-> sold,
      growth |-> f.growth, rungs |-> <<>>]

\* The fields a holding's row sends to open its panel.
FormValues(p) ==
  [shares |-> p.shares, cost |-> p.cost, premiums |-> p.premiums, strike |-> p.strike,
   exp |-> p.exp, sold |-> p.sold, growth |-> p.growth]

-----------------------------------------------------------------------------
(* portfolio_ladder *)

\* A report past is not the next one.
LadderMarket(m) == [m EXCEPT !.report = IF @ # None /\ @ < 0 THEN None ELSE @]

Iv == planned.iv
Expiries == Ahead({market.calls[i].exp : i \in DOMAIN market.calls})
Growth == IF plan.growth = None THEN 1 ELSE plan.growth
At(day) == PathPrice(market.spot, Growth, day)
Value(day, strike, exp) == CallValue(At(day), strike, exp - day, Iv)

Live(how, strike, on, exp, amount, sold) ==
  [how |-> how, strike |-> strike, on |-> on, exp |-> exp, amount |-> amount, sold |-> sold,
   reports |-> 0, skipped |-> 0, wall |-> None, outcome |-> "open", ended |-> None]

\* The fields are no plan, or the chain does not load, or plans nothing.
Refused(f, m) ==
  IF ~IsPlan(f) \/ m = None THEN TRUE
  ELSE PlanRungs(PlanFromForm(f), LadderMarket(m)) = None

Refuse ==
  /\ phase = "form"
  /\ \E f \in Form, m \in Pull : Refused(f, m)
  /\ phase' = "error"
  /\ UNCHANGED <<plan, planned, market, view, lived, cur, start, waited, skipped, reached, stop>>

\* plan_rungs: the fields, with the rungs the chain plans for them.
PlanLadder ==
  /\ phase = "form"
  /\ \E f \in Form, m \in Pull \ {None} :
       /\ IsPlan(f)
       /\ \E made \in {PlanRungs(PlanFromForm(f), LadderMarket(m))} \ {None} :
            /\ plan' = [PlanFromForm(f) EXCEPT !.rungs = made.rungs]
            /\ planned' = made
       /\ market' = LadderMarket(m)
  /\ phase' = "page"
  /\ UNCHANGED <<view, lived, cur, start, waited, skipped, reached, stop>>

\* build.  Without a price or a volatility there is no plan in time.
ShowPage ==
  /\ phase = "page"
  /\ view' = Build(plan, market)
  /\ phase' = IF market.spot = None \/ planned.iv = None THEN "told" ELSE "plan"
  /\ cur' = IF HasCall(plan) /\ plan.exp >= 0
            THEN Live("open", plan.strike, 0, plan.exp, 0, plan.sold) ELSE None
  /\ UNCHANGED <<plan, planned, market, lived, start, waited, skipped, reached, stop>>

-----------------------------------------------------------------------------
(* _project, with no call open: one is sold, or the day moves on. *)

NextReport(day) ==
  LET after == {r \in Reports(market.report) : r > day}
  IN IF after = {} THEN None ELSE Min(after)
NextStrike == NextRung(plan.rungs, At(start), reached)
SaleExpiry == OpenExpiry(Expiries, start, start, NextReport(start))
Selling == phase = "plan" /\ cur = None /\ Len(lived) < MaxCalls

Told(why) ==
  /\ phase' = "told" /\ stop' = why
  /\ UNCHANGED <<plan, planned, market, view, lived, cur, start, waited, skipped, reached>>

\* The time is up, no rung is above the price, or no expiry is left.
StopSelling ==
  /\ Selling
  /\ \/ start > PlanDays /\ Told("end")
     \/ start <= PlanDays /\ NextStrike = None /\ Told("above")
     \/ /\ start <= PlanDays /\ NextStrike # None /\ SaleExpiry = None
        /\ NextReport(start) = None /\ Told("end")

Ready == Selling /\ start <= PlanDays /\ NextStrike # None

\* No expiry fits before the report: it is waited out.
WaitOutReport ==
  /\ Ready /\ SaleExpiry = None /\ NextReport(start) # None
  /\ start' = NextReport(start) + 1
  /\ waited' = waited + 1
  /\ UNCHANGED <<phase, plan, planned, market, view, lived, cur, skipped, reached, stop>>

Premium == Value(start, NextStrike, SaleExpiry)

\* The call pays under the minimum: a week goes by.
SkipWeek ==
  /\ Ready /\ SaleExpiry # None /\ Premium < MinPremium(At(start))
  /\ start' = start + 7
  /\ skipped' = skipped + 1
  /\ UNCHANGED <<phase, plan, planned, market, view, lived, cur, waited, reached, stop>>

Sell ==
  /\ Ready /\ SaleExpiry # None /\ Premium >= MinPremium(At(start))
  /\ cur' = [Live("sell", NextStrike, start, SaleExpiry, Premium, Premium) EXCEPT
               !.reports = waited, !.skipped = skipped]
  /\ waited' = 0 /\ skipped' = 0
  /\ UNCHANGED <<phase, plan, planned, market, view, lived, start, reached, stop>>

-----------------------------------------------------------------------------
(* _project, with a call: it is lived to its first event. *)

\* Where the call would roll, when, and for what; [to |-> None] if it cannot.
RollTarget(c) ==
  LET higher == {r \in Range(plan.rungs) : r > c.strike}
      report == NextReport(c.on)
      fits == {e \in Expiries : /\ c.exp + RollMin <= e /\ e <= c.exp + RollMax
                                /\ IF report = None THEN TRUE ELSE e < report}
      limit == Max({MinRollCredit(c.strike),
                    ModelLimit(c.strike, Min(higher), c.exp - c.on, Min(fits) - c.exp, Iv)})
  IN [higher |-> higher # {}, exp |-> IF higher = {} \/ fits = {} THEN None ELSE Min(fits),
      to |-> IF higher = {} THEN None ELSE Min(higher),
      limit |-> IF higher = {} \/ fits = {} THEN None ELSE limit]

Triggered(c, day) == At(day) >= Trigger(c.strike)
Credit(c, roll, day) == Value(day, roll.to, roll.exp) - Value(day, c.strike, c.exp)
RollsOn(c, roll, day) ==
  roll.exp # None /\ Triggered(c, day) /\ Credit(c, roll, day) >= roll.limit
ProfitsOn(c, day) == Given(c.sold) /\ 4 * Value(day, c.strike, c.exp) <= c.sold

\* The first day before its expiry on which the call is rolled or bought back.
EventDay(c, roll) ==
  LET days == {d \in (c.on + 1)..(c.exp - 1) : RollsOn(c, roll, d) \/ ProfitsOn(c, d)}
  IN IF days = {} THEN None ELSE Min(days)

\* The day its trigger was first reached while it could not roll, if before
\* the day it ended.
WallDay(c, roll, day) ==
  LET until == IF day = None THEN c.exp - 1 ELSE day
      hit == {d \in (c.on + 1)..until : roll.higher /\ roll.exp = None /\ Triggered(c, d)}
  IN IF hit = {} THEN None ELSE Min(hit)

Ended(c, roll, day, outcome) ==
  [c EXCEPT !.outcome = outcome, !.wall = WallDay(c, roll, day),
            !.ended = IF day = None THEN c.exp ELSE day]

Raise(c) == reached' = Max({reached, c.strike})

\* One turn of the loop.
LiveCall ==
  LET roll == RollTarget(cur)
      day == EventDay(cur, roll)
      Note(c) == lived' = Append(lived, c) /\ Raise(c)
      RollUp ==
        /\ day # None /\ RollsOn(cur, roll, day)
        /\ Note(Ended(cur, roll, day, "rolled"))
        /\ cur' = Live("roll", roll.to, day, roll.exp, Credit(cur, roll, day),
                       Value(day, roll.to, roll.exp))
        /\ UNCHANGED <<phase, start, stop>>
      TakeProfit ==
        /\ day # None /\ ~RollsOn(cur, roll, day)
        /\ Note([Ended(cur, roll, day, "profit") EXCEPT
                    !.amount = @ - Value(day, cur.strike, cur.exp)])
        /\ start' = day /\ cur' = None
        /\ UNCHANGED <<phase, stop>>
      RunPast ==
        /\ day = None /\ cur.exp > PlanDays
        /\ Note([Ended(cur, roll, day, "open") EXCEPT !.ended = None])
        /\ phase' = "told" /\ stop' = "end" /\ cur' = None
        /\ UNCHANGED start
      CallAway ==
        /\ day = None /\ cur.exp <= PlanDays /\ At(cur.exp) >= cur.strike
        /\ Note(Ended(cur, roll, day, "called"))
        /\ phase' = "told" /\ stop' = "called" /\ cur' = None
        /\ UNCHANGED start
      Expire ==
        /\ day = None /\ cur.exp <= PlanDays /\ At(cur.exp) < cur.strike
        /\ Note(Ended(cur, roll, day, "expired"))
        /\ start' = cur.exp /\ cur' = None
        /\ UNCHANGED <<phase, stop>>
  IN /\ phase = "plan" /\ cur # None /\ Len(lived) < MaxCalls
     /\ RollUp \/ TakeProfit \/ RunPast \/ CallAway \/ Expire
     /\ UNCHANGED <<plan, planned, market, view, waited, skipped>>

\* MAX_CALLS lived: the loop ends where it is.
Full == phase = "plan" /\ Len(lived) = MaxCalls /\ Told("")

LadderNext ==
  \/ Refuse \/ PlanLadder \/ ShowPage
  \/ StopSelling \/ WaitOutReport \/ SkipWeek \/ Sell \/ LiveCall \/ Full

LadderSpec == LadderInit /\ [][LadderNext]_ladderVars

-----------------------------------------------------------------------------
(* _stretches: calls sold again and again at one rung are one line. *)

\* The first n of some numbers together.
SumTo(numbers, n) ==
  LET to[i \in Nat] == IF i \in DOMAIN numbers THEN to[i - 1] + numbers[i] ELSE 0
  IN to[n]
Summed(numbers) == SumTo(numbers, Len(numbers))

Amounts(rows) == [i \in DOMAIN rows |-> rows[i].amount]

\* Variant: calls sold at different rungs are one line too.
MergesAnyRung(row, c) == c.how = "sell" /\ row.how = "sell"

Merges(row, c) == c.how = "sell" /\ row.how = "sell" /\ row.strike = c.strike

Line(i) ==
  LET c == lived[i]
  IN [how |-> c.how, strike |-> c.strike, from |-> c.on, to |-> c.exp, calls |-> 1,
      amount |-> c.amount, profits |-> IF c.outcome = "profit" THEN 1 ELSE 0,
      reports |-> c.reports, skipped |-> c.skipped,
      walls |-> IF c.wall = None THEN {} ELSE {c.wall}, shortest |-> c.exp - c.on,
      longest |-> c.exp - c.on, outcome |-> c.outcome,
      realCost |-> RealCost(plan) - SumTo(Amounts(lived), i)]

Extend(row, line) ==
  [row EXCEPT !.to = line.to, !.calls = @ + 1, !.amount = @ + line.amount,
              !.profits = @ + line.profits, !.reports = @ + line.reports,
              !.skipped = @ + line.skipped, !.walls = @ \cup line.walls,
              !.shortest = Min({@, line.shortest}), !.longest = Max({@, line.longest}),
              !.outcome = line.outcome, !.realCost = line.realCost]

\* The call lived i-th told too.
Tell(rows, i) ==
  IF rows # <<>> /\ Merges(Last(rows), lived[i])
  THEN ReplaceAt(rows, Len(rows), Extend(Last(rows), Line(i)))
  ELSE Append(rows, Line(i))

Stretches ==
  LET told[n \in Nat] == IF n \in DOMAIN lived THEN Tell(told[n - 1], n) ELSE <<>>
  IN told[Len(lived)]

-----------------------------------------------------------------------------
\* No call is held over an earnings report: neither one the plan sells or
\* rolls into, over the reports it expects a quarter apart, nor the roll order
\* and the next calls of the page, over the one announced (the wall).
NoCallSpansAReport ==
  /\ \A i \in DOMAIN lived : lived[i].how # "open" =>
       \A r \in Reports(market.report) : ~(lived[i].on < r /\ r <= lived[i].exp)
  /\ (view # None /\ market.report # None) =>
       \A call \in {view.roll, view.newCall, view.nextCall} \ {None} :
         call.exp # None => view.wall # None /\ call.exp <= view.wall

\* The ladder only climbs: whatever the price does and however the calls end,
\* no call is below the one before it, each is at a rung, and a roll is to the
\* very next.
ClimbsOnly ==
  \A i \in DOMAIN lived :
    /\ lived[i].strike \in Range(plan.rungs)
    /\ i > 1 =>
         /\ lived[i].strike >= lived[i - 1].strike
         /\ lived[i].how = "roll" =>
              ~\E r \in Range(plan.rungs) : lived[i - 1].strike < r /\ r < lived[i].strike

\* The rungs planned climb to the cost, the first of them out of the money
\* where the chain lists one, and every step between two pays for its roll at
\* the worst, unless the page warns that they are tight.
PlannedRungs ==
  (view # None /\ planned.iv # None) =>
    LET rungs == plan.rungs
    IN /\ Last(rungs) >= plan.cost
       /\ Len(rungs) <= MaxRungs
       /\ \A i \in 1..(Len(rungs) - 1) :
            rungs[i] < rungs[i + 1] /\ (planned.tight \/ view.rungs[i].pays)
       /\ (~HasCall(plan) /\ \E c \in Range(market.calls) : c.exp >= OpenMin /\ c.strike > market.spot)
            => rungs[1] > market.spot

\* What some lines say of a rung, and what the calls lived there brought in.
CallsAt(lines, r) ==
  Summed([i \in DOMAIN lines |-> IF lines[i].strike = r THEN lines[i].calls ELSE 0])
MoneyAt(rows, r) ==
  Summed([i \in DOMAIN rows |-> IF rows[i].strike = r THEN rows[i].amount ELSE 0])

\* The lines of the plan tell the calls lived: at each rung as many calls, and
\* as much money brought in, as were lived there, and the real cost of the last
\* line is what is left of the cost after all of it.
LinesTellTheCalls ==
  (phase = "told" /\ lived # <<>>) =>
    LET lines == Stretches
    IN /\ \A r \in Range(plan.rungs) :
            /\ CallsAt(lines, r) = Cardinality({i \in DOMAIN lived : lived[i].strike = r})
            /\ MoneyAt(lines, r) = MoneyAt(lived, r)
       /\ Last(lines).realCost = RealCost(plan) - Summed(Amounts(lived))
=============================================================================
