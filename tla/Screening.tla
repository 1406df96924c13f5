------------------------------ MODULE Screening ------------------------------
(***************************************************************************)
(* A screen: ScreenerService.run_screen of core/service.py with the stages *)
(* of core/pipeline/, and the chain providers it pulls from.               *)
(*                                                                         *)
(* The market is what the providers would answer: of a name its chain, its *)
(* next report, whether its company passes the fundamental gates, and      *)
(* whether its strikes all lie outside the band a batch asks for.  It does *)
(* not change; screens repeat, and share the cache of batched chains.      *)
(* Somebody may cancel a screen, and its time may run out, at any moment.  *)
(*                                                                         *)
(* A provider that answers for many names at once (mode "batch") is asked  *)
(* for lists of contracts, then for chunks of quotes, then for the names   *)
(* no quote was asked of.  Any other is asked name by name from a pool of  *)
(* threads, after (mode "prefetch") or without (mode "pool") asking which  *)
(* names have no contracts.                                                *)
(***************************************************************************)
EXTENDS StrikeSelection, FiniteSets

CONSTANTS Name,        \* tickers: stocks, and...
          Fund,        \* ...the ETFs
          Contract,    \* contracts there may be, as StrikeSelection has them
          Markets,     \* what may be true of one name
          Criteria,    \* what a screen may be asked for
          Modes,       \* how the provider is asked
          Workers,     \* max_concurrency
          Chunk,       \* snapshot_batch
          MaxScreens   \* screens run (bound)

Stock == Name \ Fund

ASSUME FundAssumption == Fund \subseteq Name
ASSUME ContractAssumption ==
  /\ Contract \subseteq [dte : Nat \ {0}, off : Nat, pays : Nat, open : BOOLEAN, liquid : BOOLEAN]
  /\ \A k \in Contract : k.liquid => k.open
ASSUME MarketAssumption ==
  Markets \subseteq [chain : SUBSET Contract, report : Nat \cup {NoDate},
                     sound : BOOLEAN, far : BOOLEAN]
ASSUME CriteriaAssumption ==
  Criteria \subseteq [minDte : Nat, maxDte : Nat, tolerance : Nat, buffer : Nat,
                      policy : Policies, excludeUnknown : BOOLEAN, blocked : SUBSET Name]
ASSUME ProviderAssumption ==
  /\ Modes \subseteq {"batch", "prefetch", "pool"}
  /\ Workers \in Nat \ {0} /\ Chunk \in Nat \ {0} /\ MaxScreens \in Nat

VARIABLES
  market, crit, mode,  \* fixed
  screens,    \* screens begun
  phase,      \* where run_screen is
  next,       \* where it goes once the pool has drained
  cancel,     \* the cancel event is set
  late,       \* the deadline has passed
  guard,
  survivors,
  pull,       \* of each name, its future in the pool
  todo,       \* names whose chain is not in the cache
  wanted,     \* quotes still to ask for: <<name, contract>>
  quotes,     \* quotes received
  fallback,   \* names still to ask for one by one
  chains,     \* chains collected ({} for none)
  complete,   \* what pull_chains says of itself
  cache,      \* batched chains on disk ({} for none)
  dropped,    \* names whose chain could not be read (history)
  fundless,   \* the list of ETFs could not be had (history)
  rows        \* the results: of each name the put and its status

fixed == <<market, crit, mode>>
batch == <<todo, wanted, quotes, fallback>>
memory == <<dropped, fundless>>
vars == <<fixed, screens, phase, next, cancel, late, guard, survivors, pull, batch,
          chains, complete, cache, memory, rows>>

Pulls == {"none", "queued", "running", "ready", "bad", "broken", "in"}
Working == {"guard", "fundamentals", "etfs", "pull", "list", "snapshots", "fallback",
            "pool", "drain", "select"}

NoPulls == [n \in Name |-> "none"]
NoChains == [n \in Name |-> {}]
Reports == [n \in Name |-> market[n].report]

Init ==
  /\ market \in [Name -> Markets] /\ crit \in Criteria /\ mode \in Modes
  /\ screens = 0 /\ phase = "idle" /\ next = "select"
  /\ cancel = FALSE /\ late = FALSE
  /\ guard = Blind(Name) /\ survivors = {}
  /\ pull = NoPulls /\ todo = {} /\ wanted = {} /\ quotes = {} /\ fallback = {}
  /\ chains = NoChains /\ complete = FALSE /\ cache = NoChains
  /\ dropped = {} /\ fundless = FALSE /\ rows = {}

Begin ==
  /\ phase \notin Working /\ screens < MaxScreens
  /\ screens' = screens + 1 /\ phase' = "guard" /\ next' = "select"
  /\ cancel' = FALSE /\ late' = FALSE
  /\ guard' = Blind(Name) /\ survivors' = {}
  /\ pull' = NoPulls /\ todo' = {} /\ wanted' = {} /\ quotes' = {} /\ fallback' = {}
  /\ chains' = NoChains /\ complete' = FALSE
  /\ dropped' = {} /\ fundless' = FALSE /\ rows' = {}
  /\ UNCHANGED <<fixed, cache>>

Cancel ==
  /\ phase \in Working /\ ~cancel /\ cancel' = TRUE
  /\ UNCHANGED <<fixed, screens, phase, next, late, guard, survivors, pull, batch,
                 chains, complete, cache, memory, rows>>

\* The deadline is set when the pull begins.
TimeRunsOut ==
  /\ phase \in {"pull", "list", "snapshots", "fallback", "pool"} /\ ~late /\ late' = TRUE
  /\ UNCHANGED <<fixed, screens, phase, next, cancel, guard, survivors, pull, batch,
                 chains, complete, cache, memory, rows>>

\* An entry of the cache outlives its TTL, or is lost.
Expire(n) ==
  /\ cache[n] # {} /\ cache' = [cache EXCEPT ![n] = {}]
  /\ UNCHANGED <<fixed, screens, phase, next, cancel, late, guard, survivors, pull, batch,
                 chains, complete, memory, rows>>

Stop == cancel \/ late

\* The cancel event is looked at when a stage ends: nothing has been collected.
StageEnds(stage, then) == phase = stage /\ phase' = IF cancel THEN "done" ELSE then

\* A provider that is asked something raises what the screen does not survive.
ProviderRaises ==
  /\ \/ phase = "guard" /\ crit.policy # "off"
     \/ phase = "fundamentals"
     \/ phase = "pull" /\ mode = "prefetch" /\ survivors # {} /\ ~late
     \/ phase = "list" /\ todo # {}
     \/ phase = "snapshots" /\ wanted # {}
     \/ phase = "fallback" /\ fallback # {}
  /\ phase' = "raised"
  /\ UNCHANGED <<fixed, screens, next, cancel, late, guard, survivors, pull, batch,
                 chains, complete, cache, memory, rows>>

LoadCalendar ==
  /\ StageEnds("guard", "fundamentals")
  /\ guard' = BuildGuard(Reports, crit)
  /\ UNCHANGED <<fixed, screens, next, cancel, late, survivors, pull, batch,
                 chains, complete, cache, memory, rows>>

\* Variant: the blocklist kept for stocks.
DropBlockedStocks(names) == {n \in names : n \in Fund \/ n \notin crit.blocked}

DropBlocked(names) == names \ crit.blocked

\* The gates, and the names no expiry of which can be clean.
ScreenFundamentals ==
  /\ StageEnds("fundamentals", "etfs")
  /\ survivors' = {n \in DropBlocked(Stock) :
                     market[n].sound /\ ~BlocksEveryExpiry(guard, n, crit.minDte)}
  /\ UNCHANGED <<fixed, screens, next, cancel, late, guard, pull, batch,
                 chains, complete, cache, memory, rows>>

\* Funds skip the fundamental stages; without their list stocks are screened.
AddFunds ==
  /\ StageEnds("etfs", "pull")
  /\ \/ survivors' = survivors \cup DropBlocked(Fund) /\ UNCHANGED fundless
     \/ UNCHANGED survivors /\ fundless' = TRUE
  /\ UNCHANGED <<fixed, screens, next, cancel, late, guard, pull, batch,
                 chains, complete, cache, dropped, rows>>

\* What a provider has for a name in the window of the screen.
Listed(n) == {k \in market[n].chain : InWindow(k, crit)}

NothingToPull ==
  /\ phase = "pull" /\ (survivors = {} \/ late)
  /\ phase' = "select" /\ complete' = (survivors = {})
  /\ UNCHANGED <<fixed, screens, next, cancel, late, guard, survivors, pull, batch,
                 chains, cache, memory, rows>>

\* pull_chains, one future for each name.  A prefetch that fails in a way of
\* its own costs only its saving.
StartPool ==
  /\ phase = "pull" /\ survivors # {} /\ ~late /\ mode # "batch"
  /\ \E targets \in {survivors, {n \in survivors : Listed(n) # {}}} :
       /\ mode = "pool" => targets = survivors
       /\ pull' = [n \in Name |-> IF n \in targets THEN "queued" ELSE "none"]
  /\ phase' = "pool"
  /\ UNCHANGED <<fixed, screens, next, cancel, late, guard, survivors, batch,
                 chains, complete, cache, memory, rows>>

Running == {n \in Name : pull[n] = "running"}

\* A thread of the pool takes the next name, whatever the main thread does.
PullStarts(n) ==
  /\ phase \in {"pool", "drain"} /\ pull[n] = "queued" /\ Cardinality(Running) < Workers
  /\ pull' = [pull EXCEPT ![n] = "running"]
  /\ UNCHANGED <<fixed, screens, phase, next, cancel, late, guard, survivors, batch,
                 chains, complete, cache, memory, rows>>

\* A chain, an error about this name, or one about the provider.
PullAnswers(n) ==
  /\ phase \in {"pool", "drain"} /\ pull[n] = "running"
  /\ \E answer \in {"ready", "bad", "broken"} : pull' = [pull EXCEPT ![n] = answer]
  /\ UNCHANGED <<fixed, screens, phase, next, cancel, late, guard, survivors, batch,
                 chains, complete, cache, memory, rows>>

\* Variant: the futures are not cancelled.
LeavePoolQueued(then) == phase' = "drain" /\ next' = then /\ UNCHANGED pull

\* Leaving the pool: what has not started never will, the rest is awaited.
LeavePool(then) ==
  /\ phase' = "drain" /\ next' = then
  /\ pull' = [n \in Name |-> IF pull[n] = "queued" THEN "none" ELSE pull[n]]

Collect(n) ==
  /\ phase = "pool" /\ pull[n] \in {"ready", "bad", "broken"}
  /\ \/ cancel /\ LeavePool("select") /\ UNCHANGED <<chains, dropped>>
     \/ ~cancel /\ pull[n] = "broken" /\ LeavePool("raised") /\ UNCHANGED <<chains, dropped>>
     \/ /\ ~cancel /\ pull[n] = "ready"
        /\ chains' = [chains EXCEPT ![n] = Listed(n)]
        /\ pull' = [pull EXCEPT ![n] = "in"]
        /\ UNCHANGED <<phase, next, dropped>>
     \/ /\ ~cancel /\ pull[n] = "bad"
        /\ dropped' = dropped \cup {n}
        /\ pull' = [pull EXCEPT ![n] = "in"]
        /\ UNCHANGED <<phase, next, chains>>
  /\ UNCHANGED <<fixed, screens, cancel, late, guard, survivors, batch,
                 complete, cache, fundless, rows>>

Awaited == {n \in Name : pull[n] \notin {"none", "in"}}

\* Variant: a time-out looks like the end.
PoolTimesOutSilently ==
  /\ phase = "pool" /\ late /\ Awaited # {} /\ LeavePool("select") /\ complete' = TRUE
  /\ UNCHANGED <<fixed, screens, cancel, late, guard, survivors, batch,
                 chains, cache, memory, rows>>

\* as_completed raises while any future is pending, answered or not.
PoolTimesOut ==
  /\ phase = "pool" /\ late /\ Awaited # {} /\ LeavePool("select")
  /\ UNCHANGED <<fixed, screens, cancel, late, guard, survivors, batch,
                 chains, complete, cache, memory, rows>>

PoolEnds ==
  /\ phase = "pool" /\ Awaited = {} /\ phase' = "select" /\ complete' = TRUE
  /\ UNCHANGED <<fixed, screens, next, cancel, late, guard, survivors, pull, batch,
                 chains, cache, memory, rows>>

Drained ==
  /\ phase = "drain" /\ Running = {} /\ phase' = next
  /\ UNCHANGED <<fixed, screens, next, cancel, late, guard, survivors, pull, batch,
                 chains, complete, cache, memory, rows>>

\* get_chains, from here to BatchEnds.  A chain in the cache is taken whole.
StartBatch ==
  /\ phase = "pull" /\ survivors # {} /\ ~late /\ mode = "batch"
  /\ chains' = [n \in Name |-> IF n \in survivors THEN cache[n] ELSE {}]
  /\ todo' = {n \in survivors : cache[n] = {}}
  /\ phase' = "list"
  /\ UNCHANGED <<fixed, screens, next, cancel, late, guard, survivors, pull, wanted, quotes,
                 fallback, complete, cache, memory, rows>>

BatchCut ==
  /\ phase \in {"list", "fallback"} /\ Stop
  /\ phase = "fallback" => fallback # {}
  /\ phase' = "select"
  /\ UNCHANGED <<fixed, screens, next, cancel, late, guard, survivors, pull, batch,
                 chains, complete, cache, memory, rows>>

Held(n) == {k \in Listed(n) : k.open}

\* The contracts with open interest, and the prices that say which strikes
\* are in the band.
AskLists ==
  /\ phase = "list" /\ ~Stop
  /\ wanted' = {q \in todo \X Contract : q[2] \in Held(q[1]) /\ ~market[q[1]].far}
  /\ fallback' = {n \in todo : market[n].far /\ Held(n) # {}}
  /\ phase' = "snapshots"
  /\ UNCHANGED <<fixed, screens, next, cancel, late, guard, survivors, pull, todo, quotes,
                 chains, complete, cache, memory, rows>>

QuotesOf(qs, n) == {q[2] : q \in {p \in qs : p[1] = n}}

\* Names follow one another in the list that is cut into chunks, so a chunk
\* ends inside one name at most.
AskQuotes ==
  /\ phase = "snapshots" /\ ~Stop
  /\ \E chunk \in SUBSET wanted :
       /\ chunk # {} /\ Cardinality(chunk) <= Chunk
       /\ Cardinality(chunk) < Chunk => chunk = wanted
       /\ Cardinality({n \in Name : /\ QuotesOf(quotes \cup chunk, n) # {}
                                    /\ QuotesOf(wanted \ chunk, n) # {}}) <= 1
       /\ quotes' = quotes \cup chunk /\ wanted' = wanted \ chunk
  /\ UNCHANGED <<fixed, screens, phase, next, cancel, late, guard, survivors, pull, todo,
                 fallback, chains, complete, cache, memory, rows>>

\* Whatever quotes came make chains, and are kept.
KeepQuotes ==
  /\ phase = "snapshots" /\ (wanted = {} \/ Stop)
  /\ LET got == [n \in Name |-> QuotesOf(quotes, n)]
     IN /\ chains' = [n \in Name |-> IF got[n] # {} THEN got[n] ELSE chains[n]]
        /\ cache' = [n \in Name |-> IF got[n] # {} THEN got[n] ELSE cache[n]]
  /\ phase' = "fallback"
  /\ UNCHANGED <<fixed, screens, next, cancel, late, guard, survivors, pull, batch,
                 complete, memory, rows>>

\* One name by itself: get_chain, or a mistake in reading its answer.
AskOne(n) ==
  /\ phase = "fallback" /\ n \in fallback /\ ~Stop
  /\ fallback' = fallback \ {n}
  /\ \/ chains' = [chains EXCEPT ![n] = Listed(n)] /\ UNCHANGED dropped
     \/ dropped' = dropped \cup {n} /\ UNCHANGED chains
  /\ UNCHANGED <<fixed, screens, phase, next, cancel, late, guard, survivors, pull, todo,
                 wanted, quotes, complete, cache, fundless, rows>>

\* Variant: a batch that was asked everything it wanted counts as complete.
BatchEndsComplete ==
  /\ phase = "fallback" /\ fallback = {} /\ phase' = "select" /\ complete' = TRUE
  /\ UNCHANGED <<fixed, screens, next, cancel, late, guard, survivors, pull, batch,
                 chains, cache, memory, rows>>

BatchEnds ==
  /\ phase = "fallback" /\ fallback = {} /\ phase' = "select" /\ complete' = ~Stop
  /\ UNCHANGED <<fixed, screens, next, cancel, late, guard, survivors, pull, batch,
                 chains, cache, memory, rows>>

Puts(n) == SelectPut(EligibleContracts(chains[n], n, crit, guard), crit)

\* A put for each name that has one; under "exclude" nothing that spans.
Select ==
  /\ phase = "select"
  /\ LET names == {n \in survivors : Puts(n) # {}}
     IN \E put \in [names -> Contract] :
          /\ \A n \in names : put[n] \in Puts(n)
          /\ rows' = {r \in {[name |-> n, put |-> put[n],
                              status |-> Status(guard, n, put[n].dte)] : n \in names} :
                        crit.policy = "exclude" => r.status # "spans"}
  /\ phase' = "done"
  /\ UNCHANGED <<fixed, screens, next, cancel, late, guard, survivors, pull, batch,
                 chains, complete, cache, memory>>

Pooled == StartPool \/ PoolTimesOut \/ PoolEnds \/ Drained
Batched == StartBatch \/ BatchCut \/ AskLists \/ AskQuotes \/ KeepQuotes \/ BatchEnds

Next ==
  \/ Begin \/ Cancel \/ TimeRunsOut \/ ProviderRaises
  \/ LoadCalendar \/ ScreenFundamentals \/ AddFunds \/ NothingToPull
  \/ Pooled \/ Batched \/ Select
  \/ \E n \in Name : Expire(n) \/ PullStarts(n) \/ PullAnswers(n) \/ Collect(n) \/ AskOne(n)

Spec == Init /\ [][Next]_vars

TypeOK ==
  /\ market \in [Name -> Markets] /\ crit \in Criteria /\ mode \in Modes
  /\ screens \in 0 .. MaxScreens /\ phase \in Working \cup {"idle", "done", "raised"}
  /\ next \in {"select", "raised"} /\ cancel \in BOOLEAN /\ late \in BOOLEAN
  /\ guard.dates \in [Name -> Nat \cup {NoDate}] /\ guard.policy \in Policies
  /\ survivors \subseteq Name /\ pull \in [Name -> Pulls] /\ Cardinality(Running) <= Workers
  /\ todo \subseteq Name /\ wanted \subseteq Name \X Contract /\ quotes \subseteq Name \X Contract
  /\ fallback \subseteq Name
  /\ chains \in [Name -> SUBSET Contract] /\ complete \in BOOLEAN
  /\ cache \in [Name -> SUBSET Contract]
  /\ dropped \subseteq Name /\ fundless \in BOOLEAN
  /\ rows \subseteq [name : Name, put : Contract, status : {"spans", "clean", "unknown"}]

(***************************************************************************)
(* Properties.  They are about the market, not about what the screen has   *)
(* heard of it.                                                            *)
(***************************************************************************)

\* The day of the next report lies in the life of put k, or close behind it.
SpansReport(n, k) == market[n].report \in 0 .. k.dte + crit.buffer

\* What the rules would let a screen sell of name n.
Sellable(n) ==
  {k \in Offered(market[n].chain, crit) : crit.policy = "exclude" => ~SpansReport(n, k)}

\* Nothing whose life spans a report reaches the results of a screen that
\* excludes it, although only a narrow calendar is fetched and the contracts
\* are known later (run_screen's last line of defence, issue #113).
NothingSpansAReport ==
  crit.policy = "exclude" => \A r \in rows : ~SpansReport(r.name, r.put)

\* Once the calendar is loaded it answers for every contract the screen may
\* look at: none is unknown (_build_guard: absence is an answer).
NothingUnknown ==
  guard.policy # "off" =>
    \A n \in Name : \A k \in Listed(n) : Status(guard, n, k.dte) # "unknown"

\* Of a blocked name nothing is fetched, kept or shown, stock or fund
\* (drop_blocked at both places names enter a screen).
BlockedLeftAlone ==
  \A n \in crit.blocked :
    /\ pull[n] = "none" /\ chains[n] = {} /\ cache[n] = {}
    /\ \A r \in rows : r.name # n

\* What a batched screen has of a name is from an earlier one.
FromCache(n) == mode = "batch" /\ n \in survivors \ todo

\* The screen did try to get the name's chain, with success.
Heard(n) ==
  /\ n \notin dropped /\ ~FromCache(n)
  /\ n \in Fund => ~fundless

\* A screen that calls itself complete shows every name that has a put it
\* would sell: however the pool, the deadline and a cancel fell, it has not
\* left one out (pull_chains: complete is False when it was cut short).
\* With a tolerance apply_earnings_blackout may leave out more.
CompleteMissesNothing ==
  phase = "done" /\ complete /\ crit.tolerance = 0 =>
    \A n \in Name \ crit.blocked :
      Heard(n) /\ (n \in Stock => market[n].sound) /\ Sellable(n) # {}
        => \E r \in rows : r.name = n

\* What is shown of a name is the put the rules select from its whole chain,
\* in a partial screen too.  A batch may be cut inside a chain.
RowsAreThePicks ==
  (mode = "batch" => complete) =>
    \A r \in rows : FromCache(r.name) \/ r.put \in SelectPut(Sellable(r.name), crit)

\* "complete is False when a deadline or cancel cut the scan short, so the
\* caller can flag the run as PARTIAL" (pull_chains.py:30-31): a pull that says
\* it is complete has the contracts of every chain it could read.  A chain
\* that was cut short in one screen is kept by _store_batch_chain, and the
\* next one takes it for the whole.
CompleteHasWholeChains ==
  complete => \A n \in survivors \ dropped : Held(n) \subseteq chains[n]

\* Once a pull is cut short no further chain is asked for, although threads
\* of the pool are still at work (the futures' cancel in pull_chains).
NothingAskedAfterCut == [][phase = "drain" => Running' \subseteq Running]_vars
=============================================================================
