------------------------------- MODULE Panels -------------------------------
(***************************************************************************)
(* The answers that keep nothing: the verdict of a position read and then  *)
(* judged, the ways-out panel of one (exit_options of core/service.py with *)
(* the route of api/app.py), the search of one ticker (search_ticker with  *)
(* select_top_contracts of core/pipeline/select_strike.py) and the ranking *)
(* of a screen.  panel is the one answer given: each depends on what was   *)
(* asked and what the providers said, and on nothing before.               *)
(*                                                                         *)
(* Contracts are those of Advice; deltas are in hundredths.                *)
(***************************************************************************)
EXTENDS SwapVerdicts, FundamentalRank

CONSTANTS
  PanelContract,   \* positions judged, as in PortfolioPage
  PanelMarket,     \* what the providers answer about them, as in SwapVerdicts
  Held,            \* positions shown the ways out of
  Board,           \* chains of both sides: sequences of contracts
  Quote,           \* prices of the share, None where there is none
  History,         \* dividend histories
  TargetDelta, MaxAbsDelta, SearchReach, LiquidReach,
  SearchSize,      \* the n of a search
  Universe,        \* sequences of names to rank
  Scored           \* sequences of rows to order

\* None is neither a number nor a verdict.
ASSUME NothingAssumption ==
  None \notin Int /\ None # [risk |-> "likely", cause |-> "dividend"]
ASSUME ContractAssumption ==
  \A k \in PanelContract : k.type \in {"put", "call"} /\ k.strike \in Int /\ k.exp \in Int
\* Prices are numbers where there are any, and a history is finite.
ASSUME MarketAssumption ==
  \A m \in PanelMarket :
    /\ {m.spot, m.board} \subseteq Int \cup {None}
    /\ IsFiniteSet(m.dividends) /\ \A d \in m.dividends : d.day \in Int
\* A chain is a sequence of contracts, and a search asks for so many of them.
ASSUME BoardAssumption ==
  /\ TargetDelta \in Int /\ LiquidReach \in Nat /\ SearchSize \subseteq Nat
  /\ \A b \in Board : /\ Len(b) \in Nat /\ DOMAIN b = 1..Len(b)
                      /\ \A i \in DOMAIN b :
                           /\ {b[i].strike, b[i].exp} \subseteq Int
                           /\ {b[i].bid, b[i].ask, b[i].delta} \subseteq Int \cup {None}
ASSUME HeldAssumption ==
  /\ Quote \subseteq Int \cup {None}
  /\ \A p \in Held : p.short \in BOOLEAN /\ {p.strike, p.exp, p.qty} \subseteq Int
\* So is a universe, with the fields a name has in it, and a table to order.
ASSUME UniverseAssumption ==
  \A names \in Universe :
    /\ Len(names) \in Nat /\ DOMAIN names = 1..Len(names)
    /\ \A i \in DOMAIN names :
         DOMAIN names[i] = {"symbol", "sector", "metrics", "bulk", "deep", "cap", "report"}
ASSUME ScoredAssumption ==
  \A rows \in Scored :
    /\ Len(rows) \in Nat /\ DOMAIN rows = 1..Len(rows)
    /\ \A i \in DOMAIN rows : /\ {"strength", "yield"} \subseteq DOMAIN rows[i]
                              /\ {rows[i].strength, rows[i].yield} \subseteq Int \cup {None}

VARIABLE panel

PanelInit == panel = None

-----------------------------------------------------------------------------
(* A verdict: the account is read at one market and judged at another. *)

ShowVerdict ==
  \E k \in PanelContract, read \in PanelMarket, then \in PanelMarket :
    \E same \in FreshPuts(then, k) :
      panel' = [kind |-> "verdict", k |-> k, paid |-> read,
                impact |-> Impact(InLife(read.dividends, k.exp), k.type, k.strike, read.spot, read.mark),
                row |-> Judge(k, Row(k, 1, read), then, same)]

-----------------------------------------------------------------------------
(* exit_options and portfolio_exits *)

InDays(board, type, lo, hi) ==
  Those(board, LAMBDA c : c.type = type /\ lo <= c.exp /\ c.exp <= hi)

\* What the holder of a contract could sell it for: its bid, or the mid.
HoldersPrice(c) ==
  IF c = None THEN None
  ELSE IF Given(c.bid) THEN c.bid
  ELSE IF c.bid = None \/ c.ask = None THEN None
  ELSE (c.bid + c.ask) \div 2

\* The panel.  The days asked for are widened to hold the position's own; the
\* other side of the chain is pulled only past an assignment.
Exits(board, spot, history, p, minDte, maxDte, rollStrike, callStrike) ==
  LET lo == Max({1, Min({minDte, p.exp})})
      hi == Max({maxDte, p.exp})
      own == InDays(board, p.type, lo, hi)
      other == IF p.short /\ InTheMoney(p.strike, spot, p.type)
               THEN InDays(board, IF p.type = "put" THEN "call" ELSE "put", lo, hi) ELSE <<>>
      ways == Compare(own, other, p, spot, 0, rollStrike, callStrike)
      dividends == InLife(history, p.exp)
      early == Assess(p.type, p.strike, spot, HoldersPrice(Match(own, p.strike, p.exp)),
                      p.exp, 0, dividends)
  IN [kind |-> "exits", p |-> p, spot |-> spot, board |-> board,
      ways |-> ways.alternatives, after |-> ways.after,
      grid |-> IF p.short THEN RollGrid(own, p, spot) ELSE None,
      early |-> IF p.short THEN early ELSE None,
      dividend |-> IF p.short /\ early # None THEN Impact(dividends, p.type, p.strike, spot, None)
                   ELSE None]

ShowExits ==
  \E p \in Held, board \in Board, spot \in Quote, history \in History, minDte \in {1, 40} :
    \E rollStrike \in {p.strike} \cup {board[i].strike : i \in DOMAIN board} :
      panel' = Exits(board, spot, history, p, minDte, 120, rollStrike, p.strike)

\* The chain does not load: a message in the panel.
ExitsFail ==
  \E p \in Held : panel' = [kind |-> "error", p |-> p]

-----------------------------------------------------------------------------
(* search_ticker *)

\* _symbol_earnings: the per-symbol answer, or the calendar's if that fails
\* (None).
SymbolEarnings(lookup, calendar) ==
  IF Entry.policy = "off" THEN NoDate
  ELSE IF lookup # None THEN lookup
  ELSE IF calendar # None THEN calendar
  ELSE NoDate

\* A report is marked and never hides a contract.
SearchGuard(report) ==
  [dates |-> [n \in {Underlying} |-> report], buffer |-> Entry.buffer,
   policy |-> IF Entry.policy = "off" THEN "off" ELSE "flag",
   excludeUnknown |-> FALSE, covers |-> NoDate]

SignedTarget(side) == IF side = "put" THEN -TargetDelta ELSE TargetDelta
DeltaCap == Max({MaxAbsDelta, TargetDelta + SearchReach})
Off(c, side) == Gap(c.delta, SignedTarget(side))

\* Variant: a search drops what a screen would.
SearchableLiquid(c, side, g) ==
  /\ c.type = side /\ c.delta # None /\ Given(c.bid) /\ LiquidityProblem(c) = None
  /\ Gap(c.delta, 0) <= DeltaCap
  /\ InWindow([dte |-> c.exp], Entry) /\ ~Blocks(g, Underlying, c.exp)

\* _eligible_contracts with liquid_only off, and is_priceable
Searchable(c, side, g) ==
  /\ c.type = side /\ c.delta # None /\ Given(c.bid)
  /\ Gap(c.delta, 0) <= DeltaCap
  /\ InWindow([dte |-> c.exp], Entry) /\ ~Blocks(g, Underlying, c.exp)

\* select_top_contracts: in each expiry the contract nearest the target, or a
\* liquid one within reach of it; the liquid first, then the nearest; n of
\* them, by expiry.
SelectTopContracts(board, n, side, g) ==
  LET found == {i \in DOMAIN board : Searchable(board[i], side, g)}
      Closer(i, j) == Off(board[i], side) < Off(board[j], side)
                      \/ (Off(board[i], side) = Off(board[j], side) /\ i <= j)
      Nearest(S) == CHOOSE i \in S : \A j \in S : Closer(i, j)
      Poor(i) == LiquidityProblem(board[i]) # None
      First(i) == Min({j \in found : board[j].exp = board[i].exp})
      Pick(e) == LET all == {i \in found : board[i].exp = e}
                     liquid == {i \in all : ~Poor(i)}
                 IN IF liquid # {} /\ Off(board[Nearest(liquid)], side)
                                      <= Off(board[Nearest(all)], side) + LiquidReach
                    THEN Nearest(liquid) ELSE Nearest(all)
      picks == {Pick(board[i].exp) : i \in found}
      Ahead(i, j) == IF Poor(i) # Poor(j) THEN Poor(j)
                     ELSE IF Off(board[i], side) # Off(board[j], side) THEN
                            Off(board[i], side) < Off(board[j], side)
                     ELSE First(i) < First(j)
      top == {i \in picks : Cardinality({j \in picks \ {i} : Ahead(j, i)}) < n}
  IN InOrder({board[i] : i \in top}, LAMBDA a, b : a.exp < b.exp)

\* contract_yield: what the bid pays on the strike, or on the shares.
ContractYield(c, spot) ==
  IF c.type = "put" THEN PutYield(c.bid, c.strike, c.exp)
  ELSE IF Given(spot) THEN PutYield(c.bid, spot, c.exp) ELSE None

\* _spot: in the chain, by the quote endpoint, or the profile's price.
Spot(inBand, quote, profile) ==
  Find(<<inBand, quote, profile>>, LAMBDA x : x # None)

Search(board, side, spots, metrics, history, report, n) ==
  LET g == SearchGuard(report)
      spot == Spot(spots[1], spots[2], spots[3])
      chosen == SelectTopContracts(board, n, side, g)
      ahead == Upcoming(history, 0, 366)
  IN [kind |-> "search", board |-> board, side |-> side, n |-> n, spot |-> spot,
      passes |-> IF metrics = None THEN None ELSE GateReasons(metrics) = {},
      strength |-> ScoreStrength(metrics),
      nextDividend |-> IF ahead = {} THEN None ELSE Earliest(ahead),
      rows |-> [i \in DOMAIN chosen |->
                  [c |-> chosen[i], yield |-> ContractYield(chosen[i], spot),
                   status |-> Status(g, Underlying, chosen[i].exp),
                   thin |-> LiquidityProblem(chosen[i]),
                   dividends |-> InLife(history, chosen[i].exp)]]]

ShowSearch ==
  \E board \in Board, side \in {"put", "call"}, n \in SearchSize, history \in History :
    \E lookup, calendar \in {None, NoDate, 3, 20}, spot \in Quote :
      panel' = Search(board, side, <<spot, None, None>>, None, history,
                      SymbolEarnings(lookup, calendar), n)

-----------------------------------------------------------------------------
(* The funnel of a screen, and the order of its rows *)

ShowFunnel ==
  \E names \in Universe, bulkWorks \in BOOLEAN :
    LET Of(n) == CHOOSE i \in DOMAIN names : names[i].symbol = n
        g == [dates |-> [n \in {names[i].symbol : i \in DOMAIN names} |-> names[Of(n)].report],
              buffer |-> Entry.buffer, policy |-> Entry.policy,
              excludeUnknown |-> Entry.excludeUnknown, covers |-> WindowEnd(Entry)]
    IN panel' = [kind |-> "funnel", names |-> names, bulk |-> bulkWorks, guard |-> g,
                 kept |-> RateAndRank(names, bulkWorks, g, Entry.minDte)]

ShowRanking ==
  \E rows \in Scored :
    panel' = [kind |-> "ranking", of |-> rows, rows |-> Rank(rows)]

PanelNext ==
  /\ panel = None
  /\ ShowVerdict \/ ShowExits \/ ExitsFail \/ ShowSearch \/ ShowFunnel \/ ShowRanking

PanelSpec == PanelInit /\ [][PanelNext]_panel

-----------------------------------------------------------------------------
Showing(kind) == panel # None /\ panel.kind = kind

\* The opinions on one row agree.  Where a verdict judges the cash, at its
\* price there is no assignment to plan past, whatever the option costs; and
\* the early-assignment rule expects a call to be exercised for its dividend
\* exactly where the dividend's own note says so: two modules decide it, from
\* the same mark (core/swap.py, review; core/assignment.py, assess;
\* core/dividends.py, impact).
RowAgrees ==
  Showing("verdict") =>
    LET k == panel.k  row == panel.row  v == row.verdict
        risk == Row(k, 1, panel.paid).risk
    IN /\ Judges(v) => /\ ~InTheMoney(k.strike, v.spot, k.type)
                       /\ \A m \in PanelMarket :
                            Assess(k.type, k.strike, v.spot, m.mark, k.exp, 0,
                                   InLife(m.dividends, k.exp)).risk = "low"
       /\ panel.impact # None =>
            (panel.impact.likely <=> (risk # None /\ risk = [risk |-> "likely", cause |-> "dividend"]))

\* A roll costs the same in the table of ways out and in the grid beneath it,
\* which two modules price apart (core/exits.py, rolls; core/rollgrid.py,
\* build).  Of a contract listed twice each takes its own: an adjusted one shares
\* its strike and expiry with the standard one.
ListsOnce(board) ==
  \A i, j \in DOMAIN board :
    (board[i].type = board[j].type /\ board[i].strike = board[j].strike
       /\ board[i].exp = board[j].exp) => i = j

RollsMatchGrid ==
  (Showing("exits") /\ panel.grid # None /\ ListsOnce(panel.board)) =>
    \A i \in DOMAIN panel.ways :
      LET w == panel.ways[i]  at == <<w.strike, w.exp>>
      IN (w.kind = "roll" /\ at \in DOMAIN panel.grid.cells) =>
            w.credit = panel.p.qty * panel.grid.cells[at].credit

\* A search of one ticker hides no expiry for a report or for a thin market.
\* Each with a contract that has a bid under the delta cap has a row, unless n
\* others come before it: if it could show a liquid contract in reach, all n are
\* liquid and at least as near the target as that one; and the thin among them
\* are at least as near as any of its.  And a thin one is shown only where no
\* liquid one of its expiry is within reach (search_ticker and
\* select_top_contracts).
SearchHidesNothing ==
  Showing("search") =>
    LET rows == panel.rows
        Fits(c) == /\ c.type = panel.side /\ c.delta # None /\ Given(c.bid)
                   /\ Gap(c.delta, 0) <= DeltaCap /\ InWindow([dte |-> c.exp], Entry)
        From(c) == Off(c, panel.side)
        fitting == {c \in Range(panel.board) : Fits(c)}
        InReach(c) == /\ LiquidityProblem(c) = None
                      /\ \A d \in fitting : d.exp = c.exp => From(c) <= From(d) + LiquidReach
    IN \A c \in fitting :
         /\ \/ \E i \in DOMAIN rows : rows[i].c.exp = c.exp
            \/ /\ Len(rows) = panel.n
               /\ \A i \in DOMAIN rows :
                    /\ InReach(c) => rows[i].thin = None
                    /\ InReach(c) \/ rows[i].thin # None => From(rows[i].c) <= From(c)
         /\ \A i \in DOMAIN rows :
              (rows[i].c.exp = c.exp /\ rows[i].thin # None /\ LiquidityProblem(c) = None) =>
                From(c) > From(rows[i].c) + LiquidReach

\* A name the gates refuse by its cheap metrics takes no place of the deep
\* fetch: without it the screen keeps the same names (rate_and_rank).
GatedTakeNoSlot ==
  (Showing("funnel") /\ panel.bulk) =>
    LET Passes(n) == n.bulk # None /\ GateReasons(n.bulk) \subseteq CoverageReasons
    IN panel.kept = RateAndRank(Those(panel.names, Passes), TRUE, panel.guard, Entry.minDte)

\* Where enough of the field is rated, a row that cannot be is neither rewarded
\* nor punished: it is never ahead of one rated above the middle of the field
\* that pays as much, nor behind one rated below it (core/pipeline/rank.py).
UnratedInTheMiddle ==
  Showing("ranking") =>
    LET rows == panel.rows
        rated == Those(panel.of, LAMBDA r : r.strength # None)
        Above(s) == 2 * Cardinality({i \in DOMAIN rated : rated[i].strength < s}) >= Len(rated)
        Below(s) == 2 * Cardinality({i \in DOMAIN rated : rated[i].strength > s}) >= Len(rated)
    IN Len(rated) >= MinRated =>
         \A i, j \in DOMAIN rows :
           (i < j /\ rows[i].strength # rows[j].strength /\ rows[i].yield = rows[j].yield) =>
              /\ (rows[i].strength = None /\ rows[j].score # rows[i].score) => ~Above(rows[j].strength)
              /\ (rows[j].strength = None /\ rows[j].score # rows[i].score) => ~Below(rows[i].strength)
=============================================================================
