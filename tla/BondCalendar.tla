----------------------------- MODULE BondCalendar -----------------------------
(***************************************************************************)
(* The Bond calendar tab: a person's bonds are built into one calendar by  *)
(* BondCalendarService (bonds/service.py), one build at a time and cached  *)
(* by the list and its first day, then shaped to the portfolios shown      *)
(* (bonds/holdings.py) for the page, its months and its downloads.         *)
(* The exchange answers each bond's requests or does not, and changes      *)
(* between builds.  A holding is an item with its portfolio.               *)
(***************************************************************************)
EXTENDS BondEvents

CONSTANTS Person, Reader,     \* whose bonds; the threads that serve the tab
          Portfolio,
          Exchange,           \* the versions of the exchange's bonds, in time
          Today,
          Outage,             \* which bonds' requests may fail, or "list": the bond list's
          StartBonds, FileRows,   \* what a person may hold; what may be imported
          Period,             \* the periods asked for: [from, to]
          BuildTTL, ProblemTTL, MaxBuilds,   \* cache_ttl_seconds, _PROBLEM_TTL_SECONDS, _MAX_CACHED
          LastHour, MaxAsks, MaxImports   \* bounds: ticks, requests, imports

\* Lifetimes are times.
ASSUME LifetimesAssumption == BuildTTL \in Nat /\ ProblemTTL \in Nat
ASSUME NoReaderAssumption == None \notin Reader

VARIABLES
  holdings,   \* of each person, in the portfolios' order
  version,    \* of the exchange
  asked,      \* each reader's request, with the bonds it has read; or None
  builder,    \* who holds the service's lock, building; or None
  builds,     \* _cache: by list and first day, when it was built and its run (and, to
              \* state what was answered, from which list, version and outage)
  recent,     \* its keys, least recently used first
  page,     \* what the last step served, or None
  hour, asks, imports

bondVars == <<holdings, version, asked, builder, builds, recent, page, hour, asks, imports>>

-----------------------------------------------------------------------------
(* The build, and its shaping *)

Label(it) == IF it.name = None THEN it.code ELSE it.name
Labels(hs) == {Label(h) : h \in Range(hs)}

\* build_calendar, from its lines: the names not matured are looked up, then each
\* bond's events fetched; what fails is named in the problems (by its label) and
\* never breaks the rest.
Build(moex, items, from, down) ==
  LET named == ResolveNames(moex, items, Today, from, "list" \in down)
      todo == SelectSeq(named, LAMBDA it : Coded(it) /\ ~MaturedBefore(it, from))
      got(it) == IF SecOf(moex, it.code) \in down THEN None ELSE EventsFor(moex, it)
      all == FoldLeft(LAMBDA es, it : IF got(it) = None THEN es ELSE es \o got(it), <<>>, todo)
  IN [events |-> SortSeq(SelectSeq(all, LAMBDA e : from = None \/ e.date >= from),
                         LAMBDA a, b : a.date < b.date),
      problems |-> {Label(it) : it \in {x \in Range(todo) : got(x) = None}}
                   \cup {it.name : it \in {x \in Range(named) :
                                             x.code = None /\ ~MaturedBefore(x, from)}},
      known |-> named]

\* bonds_text: each bond once, without quantities
BondsOf(hs) ==
  ParseRows([i \in DOMAIN hs |->
               [code |-> hs[i].code, name |-> hs[i].name, mat |-> hs[i].mat, qty |-> None]])

\* skip_notes: how many bonds were left out as matured, and as gone
SkipNotes(hs, from) ==
  LET bonds == Range(BondsOf(hs)) IN
  [matured |-> Cardinality({b \in bonds : MaturedBefore(b, from)}),
   gone |-> Cardinality({b \in bonds : b.code = Gone /\ ~MaturedBefore(b, from)})]

\* The holdings an event belongs to: under either of its codes, else by name
Holders(e, hs) ==
  LET coded == SelectSeq(hs, LAMBDA h : Coded(h) /\ h.code \in {e.secid, e.isin})
      named == SelectSeq(hs, LAMBDA h : ~Coded(h) /\ h.name = e.name)
  IN IF coded # <<>> THEN coded ELSE named

SumQty(hs) == FoldLeft(LAMBDA q, h : AddQty(q, h.qty), None, hs)

Ident(e) == <<e.date, e.kind, e.secid>>

\* Variant: a bond built under both its codes is two events.
ShapeTwice(events, hs) ==
  LET shown == SelectSeq(events, LAMBDA e : Holders(e, hs) # <<>>) IN
  [i \in DOMAIN shown |->
     LET held == Holders(shown[i], hs) IN
     [ev |-> shown[i], qty |-> SumQty(held), total |-> TotalOf(shown[i].amount, SumQty(held)),
      holders |-> [j \in DOMAIN held |-> [portfolio |-> held[j].portfolio, qty |-> held[j].qty]]]]

\* shape: the events of the bonds shown, each once however many codes or
\* portfolios its bond is listed under, with the quantities summed
Shape(events, hs) ==
  LET shown == SelectSeq(events, LAMBDA e : Holders(e, hs) # <<>>)
      once == FoldLeft(LAMBDA kept, e :
                IF \E i \in DOMAIN kept : Ident(kept[i]) = Ident(e) THEN kept ELSE Append(kept, e),
                <<>>, shown)
  IN [i \in DOMAIN once |->
        LET held == Holders(once[i], hs) IN
        [ev |-> once[i], qty |-> SumQty(held), total |-> TotalOf(once[i].amount, SumQty(held)),
         holders |-> [j \in DOMAIN held |->
                        [portfolio |-> held[j].portfolio, qty |-> held[j].qty]]]]

\* by_portfolio: the tables' lines, one for each holder of each event
ByPortfolio(shaped) ==
  FoldLeft(LAMBDA lines, s :
             lines \o [j \in DOMAIN s.holders |->
                         [ev |-> s.ev, portfolio |-> s.holders[j].portfolio,
                          qty |-> s.holders[j].qty,
                          total |-> TotalOf(s.ev.amount, s.holders[j].qty)]], <<>>, shaped)

\* grouped_lines: coupons apart from every other event
GroupedLines(lines) ==
  <<SelectSeq(lines, LAMBDA l : l.ev.kind = "coupon"),
    SelectSeq(lines, LAMBDA l : l.ev.kind # "coupon")>>

\* ics_calendar: the identity of each entry and its reminder
IcsEntries(shaped) ==
  {[uid |-> Ident(shaped[i].ev), remind |-> shaped[i].ev.remind] : i \in DOMAIN shaped}

MonthOf(day) == day \div Month

\* monthly_cash, of one month: coupons and principal, before tax
Cash(shaped, month) ==
  FoldLeft(LAMBDA sum, s :
             IF /\ s.ev.kind \in {"coupon", "amortization", "redemption"}
                /\ s.total # None /\ MonthOf(s.ev.date) = month
             THEN sum + s.total ELSE sum, 0, shaped)

\* _month_view: the months to step through, and the one shown
MonthView(shaped, period, month, today) ==
  LET days == {shaped[i].ev.date : i \in DOMAIN shaped} \cup {today}
      first == MonthOf(IF period.from = None THEN Min(days) ELSE period.from)
      last == MonthOf(IF period.from = None THEN Max(days) ELSE period.to)
      this == MonthOf(today)
      want == IF month # None THEN month ELSE IF this \in first .. last THEN this ELSE first
      shown == Max({first, Min({want, last})})
  IN [month |-> shown,
      events |-> SelectSeq(shaped, LAMBDA s : MonthOf(s.ev.date) = shown),
      prev |-> IF shown > first THEN shown - 1 ELSE None,
      next |-> IF shown < last THEN shown + 1 ELSE None]

-----------------------------------------------------------------------------
(* The service *)

BondInit ==
  /\ holdings \in [Person -> StartBonds]
  /\ version = 1 /\ hour = 0 /\ asks = 0 /\ imports = 0
  /\ asked = [r \in Reader |-> None] /\ builder = None
  /\ builds = [k \in {} |-> None] /\ recent = <<>> /\ page = None

\* _bond_calendar, to the service's lock: the person's bonds are read now, and
\* nothing is asked for when none are shown
Ask(r, p, portfolio, period, refresh) ==
  LET mine == holdings[p]
      shown == SelectSeq(mine, LAMBDA h : portfolio = None \/ h.portfolio = portfolio) IN
  /\ asked[r] = None /\ asks < MaxAsks /\ shown # <<>>
  /\ asked' = [asked EXCEPT ![r] =
                 [hs |-> mine, bonds |-> BondsOf(mine), shown |-> shown, period |-> period, refresh |-> refresh,
                  at |-> hour]]
  /\ asks' = asks + 1 /\ page' = None
  /\ UNCHANGED <<holdings, version, builder, builds, recent, hour, imports>>

\* Variant: the cache forgets that a build starts at its first day.
BuildKeyByList(q) == <<Range(q.bonds)>>

BuildKey(q) == <<Range(q.bonds), q.period.from>>

TtlOf(run) == IF run.problems = {} THEN BuildTTL ELSE Min({BuildTTL, ProblemTTL})

Windowed(events, to) == SelectSeq(events, LAMBDA e : to = None \/ e.date <= to)

\* The build is windowed to the last day asked for, and shaped
Serve(r, built) ==
  LET q == asked[r] IN
  /\ page' = [q |-> q, built |-> built, now |-> hour,
                problems |-> built.run.problems \cap Labels(q.shown),
                notes |-> SkipNotes(q.shown, q.period.from),
                events |-> Shape(Windowed(built.run.events, q.period.to), q.shown)]
  /\ asked' = [asked EXCEPT ![r] = None]

Stale(q) ==
  IF q.refresh \/ BuildKey(q) \notin DOMAIN builds THEN TRUE
  ELSE hour - builds[BuildKey(q)].at > TtlOf(builds[BuildKey(q)].run)

\* calendar: a build that is there and young enough is served...
Reuse(r) ==
  /\ asked[r] # None /\ builder = None /\ ~Stale(asked[r])
  /\ Serve(r, builds[BuildKey(asked[r])])
  /\ recent' = Append(SelectSeq(recent, LAMBDA k : k # BuildKey(asked[r])), BuildKey(asked[r]))
  /\ UNCHANGED <<holdings, version, builder, builds, hour, asks, imports>>

\* ...or the lock is held and the list built anew...
BeginBuild(r) ==
  /\ asked[r] # None /\ builder = None /\ Stale(asked[r])
  /\ builder' = r /\ page' = None
  /\ UNCHANGED <<holdings, version, asked, builds, recent, hour, asks, imports>>

\* ...with what the exchange answers by then, and kept, the least recently used
\* builds dropped beyond MaxBuilds
EndBuild(r, down) ==
  LET q == asked[r]
      k == BuildKey(q)
      run == Build(Exchange[version], q.bonds, q.period.from, down)
      built == [at |-> hour, run |-> run, bonds |-> q.bonds, version |-> version, down |-> down]
      order == Append(SelectSeq(recent, LAMBDA j : j # k), k)
      kept == IF Len(order) > MaxBuilds THEN Tail(order) ELSE order IN
  /\ builder = r
  /\ builds' = [j \in (DOMAIN builds \cup {k}) \cap Range(kept) |->
                  IF j = k THEN built ELSE builds[j]]
  /\ recent' = kept
  /\ builder' = None
  /\ Serve(r, built)
  /\ UNCHANGED <<holdings, version, hour, asks, imports>>

\* A file replaces a portfolio's bonds: codes known before are reused, the other
\* names looked up (or not, when the exchange is down)
ImportFile(p, portfolio, rows, listDown) ==
  LET before == SelectSeq(holdings[p], LAMBDA h : h.portfolio = portfolio)
      others == SelectSeq(holdings[p], LAMBDA h : h.portfolio # portfolio)
      items == ResolveNames(Exchange[version], ReuseResolved(ReadPortfolio(rows), before), Today,
                            None, listDown) IN
  /\ imports < MaxImports /\ imports' = imports + 1
  /\ holdings' = [holdings EXCEPT ![p] = others \o
                    [i \in DOMAIN items |->
                       [portfolio |-> portfolio, code |-> items[i].code, name |-> items[i].name,
                        mat |-> items[i].mat, qty |-> items[i].qty]]]
  /\ page' = None
  /\ UNCHANGED <<version, asked, builder, builds, recent, hour, asks>>

Announce ==
  /\ version < Len(Exchange) /\ version' = version + 1 /\ page' = None
  /\ UNCHANGED <<holdings, asked, builder, builds, recent, hour, asks, imports>>

HourPasses ==
  /\ hour < LastHour /\ hour' = hour + 1 /\ page' = None
  /\ UNCHANGED <<holdings, version, asked, builder, builds, recent, asks, imports>>

BondNext ==
  \/ \E r \in Reader :
       \/ \E p \in Person, f \in Portfolio \cup {None}, period \in Period, again \in BOOLEAN :
            Ask(r, p, f, period, again)
       \/ Reuse(r) \/ BeginBuild(r)
       \/ \E down \in Outage : EndBuild(r, down)
  \/ \E p \in Person, f \in Portfolio, rows \in FileRows, listDown \in BOOLEAN :
       ImportFile(p, f, rows, listDown)
  \/ Announce \/ HourPasses

BondSpec == BondInit /\ [][BondNext]_bondVars

-----------------------------------------------------------------------------
\* The line a holding has in the list built, and the bond that is: by its code,
\* or as the build found its name.
LineOf(built, h) ==
  CHOOSE i \in DOMAIN built.bonds : ItemKey(built.bonds[i]) = ItemKey(h)

BondOf(built, h) ==
  LET code == built.run.known[LineOf(built, h)].code IN
  IF code \in {None, Gone} THEN None ELSE SecOf(Exchange[built.version], code)

Within(day, period) ==
  (period.from = None \/ day >= period.from) /\ (period.to = None \/ day <= period.to)

\* An answer comes of a build of the bonds asked for, from the first day asked
\* for, as the exchange had them; no older than its lifetime, which is short when
\* some bond failed; and built after the request, when the request was to refresh.
AnswersAreCurrent ==
  page # None =>
    LET q == page.q  built == page.built
    IN /\ Range(built.bonds) = Range(q.bonds)
       /\ built.run = Build(Exchange[built.version], built.bonds, q.period.from, built.down)
       /\ page.now - built.at <= TtlOf(built.run)
       /\ q.refresh => built.at >= q.at

\* Whatever was cached, whoever built it and whatever was asked in between, an
\* answer shows exactly the coupons that the bonds in the portfolios shown pay in
\* the period asked for, as the exchange had them at a current build; and a bond
\* that failed is asked for again before long.
AnswersAreOnesOwn ==
  /\ AnswersAreCurrent
  /\ page # None =>
      LET q == page.q  built == page.built  moex == Exchange[built.version]
          mat(h) == built.run.known[LineOf(built, h)].mat
          due(h) == /\ BondOf(built, h) # None
                    /\ mat(h) \in {None, moex[BondOf(built, h)].mat}
                    /\ ~(mat(h) # None /\ q.period.from # None /\ mat(h) < q.period.from)
          lines == {h \in Range(q.hs) : due(h)}
          bonds == {BondOf(built, h) : h \in lines}
                   \cap {BondOf(built, h) : h \in Range(q.shown)}
      IN /\ {<<page.events[i].ev.secid, page.events[i].ev.date>> :
               i \in {j \in DOMAIN page.events : page.events[j].ev.kind = "coupon"}}
            = UNION {{<<s, c.day>> : c \in {x \in Range(moex[s].coupons) : Within(x.day, q.period)}} :
                       s \in bonds \ built.down}
         /\ (\E h \in lines : BondOf(built, h) \in built.down)
              => page.now - built.at <= ProblemTTL

Mixed(q, built) ==
  \E h, g \in Range(q.hs) : Coded(h) /\ ~Coded(g) /\ BondOf(built, h) # None
                            /\ BondOf(built, h) = BondOf(built, g)

SumOf(S, F(_)) == FoldSet(LAMBDA x, sum : sum + F(x), 0, S)

\* What the views say adds up, over the portfolios holding a bond: no event is
\* listed twice, under whichever of its codes the bond was added; the quantity of
\* each is all that the portfolios shown hold of its bond; the tables' lines sum
\* to the calendar's totals; and the month views, stepped through, hold every
\* payment of the list.  It is what an event's holders are said to be, as long as
\* no bond is held both under a code and under a name not yet looked up.
AddsUp ==
  page # None /\ ~Mixed(page.q, page.built) =>
    LET q == page.q  es == page.events
        tables == ByPortfolio(es)  grouped == GroupedLines(tables)
        value(l) == IF l.total = None THEN 0 ELSE l.total
        sum(seq) == SumOf(DOMAIN seq, LAMBDA i : value(seq[i]))
        months == {MonthOf(es[i].ev.date) : i \in DOMAIN es} IN
    /\ Cardinality({e.uid : e \in IcsEntries(es)}) = Len(es)
    /\ \A i \in DOMAIN es :
         LET of == SelectSeq(q.shown, LAMBDA h : BondOf(page.built, h) = es[i].ev.secid) IN
         es[i].qty = SumQty(of)
    /\ sum(es) = sum(tables)
    /\ sum(tables) = sum(grouped[1]) + sum(grouped[2])
    /\ \A i \in DOMAIN es :
         LET view == MonthView(es, q.period, MonthOf(es[i].ev.date), Today) IN
         es[i] \in Range(view.events)
           /\ Cash(view.events, view.month) = Cash(es, view.month)
=============================================================================
