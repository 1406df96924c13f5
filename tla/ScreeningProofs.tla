--------------------------- MODULE ScreeningProofs ---------------------------
(***************************************************************************)
(* Theorems about Screening, for any market, criteria, provider and number *)
(* of screens.                                                             *)
(*                                                                         *)
(* The narrow calendar is enough because of arithmetic alone once the      *)
(* guard is known to be the one built for these criteria (GuardBuilt).     *)
(* That no name on the blocklist is touched needs every stop a name makes  *)
(* between the universe and the results (Unblocked).                       *)
(*                                                                         *)
(* That a complete screen misses nothing follows each name that qualifies  *)
(* through the stages: into the screen (Entered), through the pool or the  *)
(* batch with its chain whole or its loss on record (PoolKept, BatchKept,  *)
(* CompleteIsWhole), and into the results (RowsMade).  The put it is shown *)
(* with is then a matter of the guard again, and of select_put, which      *)
(* finds one wherever there is something to sell (PutIsSelected).          *)
(***************************************************************************)
EXTENDS Screening, FiniteSetTheorems, WellFoundedInduction, TLAPS

\* TypeOK without the pool's bound.
Types ==
  /\ market \in [Name -> Markets] /\ crit \in Criteria /\ mode \in Modes
  /\ screens \in 0 .. MaxScreens /\ phase \in Working \cup {"idle", "done", "raised"}
  /\ next \in {"select", "raised"} /\ cancel \in BOOLEAN /\ late \in BOOLEAN
  /\ guard.dates \in [Name -> Nat \cup {NoDate}] /\ guard.policy \in Policies
  /\ survivors \subseteq Name /\ pull \in [Name -> Pulls]
  /\ todo \subseteq Name /\ wanted \subseteq Name \X Contract /\ quotes \subseteq Name \X Contract
  /\ fallback \subseteq Name
  /\ chains \in [Name -> SUBSET Contract] /\ complete \in BOOLEAN
  /\ cache \in [Name -> SUBSET Contract]
  /\ dropped \subseteq Name /\ fundless \in BOOLEAN
  /\ rows \subseteq [name : Name, put : Contract, status : {"spans", "clean", "unknown"}]

\* The threads at work are finitely many and no more than the pool has.
PoolBounded == IsFiniteSet(Running) /\ Cardinality(Running) <= Workers

\* The guard is blind until its calendar is loaded, for the screen's criteria.
GuardBuilt ==
  /\ phase \in {"idle", "guard", "raised"} \/ guard = BuildGuard(Reports, crit)
  /\ guard = Blind(Name) \/ guard = BuildGuard(Reports, crit)

\* What is shown was in the window, and judged by that guard.
Judged ==
  /\ rows # {} => phase = "done"
  /\ \A r \in rows : /\ InWindow(r.put, crit)
                     /\ r.status = Status(guard, r.name, r.put.dte)
                     /\ crit.policy = "exclude" => r.status # "spans"

\* No stop of a name on its way holds a blocked one.
Unblocked ==
  \A n \in crit.blocked :
    /\ n \notin survivors /\ pull[n] = "none"
    /\ n \notin todo /\ n \notin fallback
    /\ \A q \in wanted \cup quotes : q[1] # n
    /\ chains[n] = {} /\ cache[n] = {}
    /\ \A r \in rows : r.name # n

\* Nothing waits for a thread once the pool is being left.
NoneQueued == phase = "drain" => \A n \in Name : pull[n] # "queued"

\* Of name n everything that may be sold has been collected, and nothing the
\* provider does not have.
Whole(n) == Held(n) \subseteq chains[n] /\ chains[n] \subseteq Listed(n)

\* Past the universe nothing that qualifies has been left out.
Pulling == {"pull", "list", "snapshots", "fallback", "pool", "drain", "select"}
Entered ==
  /\ phase = "etfs" \/ phase \in Pulling \/ complete =>
       \A n \in Stock \ crit.blocked :
         market[n].sound /\ ~BlocksEveryExpiry(guard, n, crit.minDte) => n \in survivors
  /\ phase \in Pulling \/ complete => fundless \/ Fund \ crit.blocked \subseteq survivors

\* The pool's chains are whole or not there, and while it is not being left
\* every name is under way, has nothing, or has been dealt with.
PoolKept ==
  /\ phase \in {"pool", "drain"} => mode # "batch"
  /\ mode # "batch" => \A n \in Name : chains[n] \in {{}, Listed(n)}
  /\ phase = "pool" => \A n \in survivors :
       /\ pull[n] = "none" => Listed(n) = {}
       /\ pull[n] = "in" => n \in dropped \/ chains[n] = Listed(n)

\* The quotes a batch has and those it wants are those of the names to do;
\* what it has made of them is whole, unless it was stopped.
BatchKept ==
  /\ phase \in {"list", "snapshots", "fallback"} => mode = "batch"
  /\ phase \in {"guard", "fundamentals", "etfs", "pull", "list"} => quotes = {}
  /\ phase \in {"list", "snapshots"} => \A n \in todo : chains[n] = {}
  /\ phase = "snapshots" =>
       /\ quotes \cup wanted =
            {q \in todo \X Contract : q[2] \in Held(q[1]) /\ ~market[q[1]].far}
       /\ fallback = {n \in todo : market[n].far /\ Held(n) # {}}
  /\ phase = "fallback" /\ ~Stop =>
       \A n \in todo : Whole(n) \/ (chains[n] = {} /\ n \in fallback \cup dropped)

\* So is what a complete pull hands over, but for what earlier screens kept.
CompleteIsWhole ==
  complete =>
    /\ phase \in {"select", "done"}
    /\ \A n \in survivors : FromCache(n) \/ Whole(n) \/ (chains[n] = {} /\ n \in dropped)

\* The results are puts of the chains, and of every name that has one.
RowsMade ==
  /\ \A r \in rows : r.name \in survivors /\ r.put \in Puts(r.name)
  /\ phase = "done" /\ complete =>
       \A n \in survivors : Puts(n) # {} => \E r \in rows : r.name = n

IInv ==
  /\ Types /\ PoolBounded /\ GuardBuilt /\ Judged /\ Unblocked /\ NoneQueued
  /\ Entered /\ PoolKept /\ BatchKept /\ CompleteIsWhole /\ RowsMade

USE FundAssumption, ContractAssumption, MarketAssumption, CriteriaAssumption,
    ProviderAssumption
    DEF fixed, batch, memory

\* The market, the criteria and the provider are those of the instance.
LEMMA Same == [Next]_vars => UNCHANGED fixed
BY DEF Next, vars, Begin, Cancel, TimeRunsOut, ProviderRaises, LoadCalendar,
   ScreenFundamentals, AddFunds, NothingToPull, Pooled, Batched, Select, StartPool, PoolTimesOut,
   PoolEnds, Drained, StartBatch, BatchCut, AskLists, AskQuotes, KeepQuotes, BatchEnds,
   Expire, PullStarts, PullAnswers, Collect, AskOne

\* What select_put takes is one of the contracts offered and not blocked.
LEMMA PutsAreEligible ==
  ASSUME NEW n \in Name, NEW k \in Puts(n)
  PROVE  k \in chains[n] /\ InWindow(k, crit) /\ ~Blocks(guard, n, k.dte)
<1>1. k \in EligibleContracts(chains[n], n, crit, guard)
  BY DEF Puts, SelectPut, NearestPerExpiry
<1> QED
  BY <1>1 DEF EligibleContracts, Offered

\* A guard built from the calendar has a date for each name, or none.
LEMMA GuardTyped ==
  ASSUME market \in [Name -> Markets], crit \in Criteria
  PROVE  /\ BuildGuard(Reports, crit).dates \in [Name -> Nat \cup {NoDate}]
         /\ BuildGuard(Reports, crit).policy = crit.policy
         /\ Blind(Name).dates \in [Name -> Nat \cup {NoDate}]
         /\ Blind(Name).policy = "off"
<1>1. \A n \in Name : market[n].report \in Nat \cup {NoDate}
  OBVIOUS
<1>2. Reports \in [Name -> Nat \cup {NoDate}]
  BY <1>1 DEF Reports
<1>3. DOMAIN Reports = Name
  BY DEF Reports
<1>4. Calendar(Reports, WindowEnd(crit)) \in [Name -> Nat \cup {NoDate}]
  BY <1>2, <1>3 DEF Calendar
<1> QED
  BY <1>3, <1>4 DEF BuildGuard, Blind

\* A provider answers with contracts of the window.
LEMMA ListedTyped ==
  ASSUME market \in [Name -> Markets], NEW n \in Name
  PROVE  Listed(n) \in SUBSET Contract /\ Held(n) \in SUBSET Contract
BY DEF Listed, Held

\* The guard has one of three things to say of a contract.
LEMMA StatusTyped ==
  ASSUME NEW g, NEW n, NEW expiry
  PROVE  Status(g, n, expiry) \in {"spans", "clean", "unknown"}
BY DEF Status

\* Each variable keeps its type.
LEMMA TypesStep ==
  ASSUME Types, [Next]_vars
  PROVE  Types'
<1> USE DEF Types
<1>1. CASE Begin
  <2>1. screens' \in 0 .. MaxScreens /\ phase' \in Working
    BY <1>1 DEF Begin, Working
  <2>2. guard'.dates \in [Name -> Nat \cup {NoDate}] /\ guard'.policy \in Policies
    BY <1>1, GuardTyped DEF Begin, Policies
  <2>3. pull' \in [Name -> Pulls] /\ chains' \in [Name -> SUBSET Contract]
    BY <1>1 DEF Begin, NoPulls, NoChains, Pulls
  <2> QED
    BY <1>1, <2>1, <2>2, <2>3 DEF Begin
<1>2. CASE Cancel
  BY <1>2 DEF Cancel, Working, Pulls
<1>3. CASE TimeRunsOut
  BY <1>3 DEF TimeRunsOut, Working, Pulls
<1>4. CASE ProviderRaises
  BY <1>4 DEF ProviderRaises, Working, Pulls
<1>5. CASE LoadCalendar
  BY <1>5, GuardTyped DEF LoadCalendar, Working, Pulls, StageEnds
<1>6. CASE ScreenFundamentals
  BY <1>6 DEF ScreenFundamentals, Working, Pulls, StageEnds, DropBlocked, Stock
<1>7. CASE AddFunds
  BY <1>7 DEF AddFunds, Working, Pulls, StageEnds, DropBlocked
<1>8. CASE NothingToPull
  BY <1>8 DEF NothingToPull, Working, Pulls
<1>9. CASE StartPool
  BY <1>9 DEF StartPool, Working, Pulls
<1>10. CASE PoolTimesOut
  BY <1>10 DEF PoolTimesOut, Working, Pulls, LeavePool
<1>11. CASE PoolEnds
  BY <1>11 DEF PoolEnds, Working, Pulls
<1>12. CASE Drained
  BY <1>12 DEF Drained, Working, Pulls
<1>13. CASE StartBatch
  BY <1>13 DEF StartBatch, Working, Pulls
<1>14. CASE BatchCut
  BY <1>14 DEF BatchCut, Working, Pulls
<1>15. CASE AskLists
  BY <1>15 DEF AskLists, Working, Pulls
<1>16. CASE AskQuotes
  BY <1>16 DEF AskQuotes, Working, Pulls
<1>17. CASE KeepQuotes
  BY <1>17 DEF KeepQuotes, Working, Pulls, QuotesOf
<1>18. CASE BatchEnds
  BY <1>18 DEF BatchEnds, Working, Pulls
<1>19. CASE Select
  <2>1. UNCHANGED <<fixed, screens, next, cancel, late, guard, survivors, pull, batch,
                    chains, complete, cache, memory>> /\ phase' = "done"
    BY <1>19 DEF Select
  <2>2. ASSUME NEW r \in rows'
        PROVE  r \in [name : Name, put : Contract, status : {"spans", "clean", "unknown"}]
    BY <1>19, <2>2, StatusTyped DEF Select
  <2> QED
    BY <2>1, <2>2
<1>20. ASSUME NEW n \in Name, Expire(n)
      PROVE  Types'
  BY <1>20 DEF Expire, Working, Pulls
<1>21. ASSUME NEW n \in Name, PullStarts(n)
      PROVE  Types'
  BY <1>21 DEF PullStarts, Working, Pulls
<1>22. ASSUME NEW n \in Name, PullAnswers(n)
      PROVE  Types'
  BY <1>22 DEF PullAnswers, Working, Pulls
<1>23. ASSUME NEW n \in Name, Collect(n)
      PROVE  Types'
  <2>1. chains' \in [Name -> SUBSET Contract] /\ pull' \in [Name -> Pulls]
    <3>1. Listed(n) \in SUBSET Contract
      BY ListedTyped
    <3>2. chains' \in [Name -> SUBSET Contract]
      BY <1>23, <3>1 DEF Collect
    <3>3. pull' \in [Name -> Pulls]
      BY <1>23 DEF Collect, LeavePool, Pulls
    <3> QED
      BY <3>2, <3>3
  <2>2. /\ phase' \in Working \cup {"idle", "done", "raised"} /\ next' \in {"select", "raised"}
        /\ dropped' \subseteq Name
    BY <1>23 DEF Collect, LeavePool, Working
  <2> QED
    BY <1>23, <2>1, <2>2 DEF Collect
<1>24. ASSUME NEW n \in Name, AskOne(n)
      PROVE  Types'
  BY <1>24, ListedTyped DEF AskOne, Working, Pulls
<1>25. CASE UNCHANGED vars
  BY <1>25 DEF vars
<1> QED
  BY <1>1, <1>2, <1>3, <1>4, <1>5, <1>6, <1>7, <1>8, <1>9, <1>10,
      <1>11, <1>12, <1>13, <1>14, <1>15, <1>16, <1>17, <1>18, <1>19, <1>20,
      <1>21, <1>22, <1>23, <1>24, <1>25
     DEF Next, Pooled, Batched

\* No more threads are at work than the pool has: one starts only where there
\* is room, and everything else lets some go.
LEMMA PoolStep ==
  ASSUME Types, PoolBounded, [Next]_vars
  PROVE  PoolBounded'
<1>1. CASE Running' \subseteq Running
  BY <1>1, FS_Subset, FS_CardinalityType DEF PoolBounded
<1>2. ASSUME NEW n \in Name, PullStarts(n)
      PROVE  PoolBounded'
  <2>1. Running' = Running \cup {n}
    BY <1>2 DEF PullStarts, Running, Types
  <2>2. Cardinality(Running) < Workers
    BY <1>2 DEF PullStarts
  <2>3. IsFiniteSet(Running) /\ Cardinality(Running) \in Nat
    BY FS_CardinalityType DEF PoolBounded
  <2>4. IsFiniteSet(Running')
    BY <2>1, <2>3, FS_AddElement, Zenon
  <2>5. Cardinality(Running') = IF n \in Running THEN Cardinality(Running)
                                ELSE Cardinality(Running) + 1
    BY <2>1, <2>3, FS_AddElement, Zenon
  <2> QED
    BY <2>2, <2>3, <2>4, <2>5 DEF PoolBounded
<1>3. ASSUME NEW n \in Name, PullAnswers(n) \/ Collect(n) \/ Expire(n) \/ AskOne(n)
      PROVE  Running' \subseteq Running
  BY <1>3 DEF PullAnswers, Collect, LeavePool, Expire, AskOne, Running, Types
<1>4. CASE Begin \/ StartPool \/ PoolTimesOut
  BY <1>4, <1>1 DEF Begin, NoPulls, StartPool, PoolTimesOut, LeavePool, Running, Types
<1>5. CASE UNCHANGED pull
  BY <1>5, <1>1 DEF Running
<1> QED
  BY <1>1, <1>2, <1>3, <1>4, <1>5
     DEF Next, vars, Cancel, TimeRunsOut, ProviderRaises, LoadCalendar, ScreenFundamentals,
      AddFunds, NothingToPull, Pooled, Batched, Select, PoolEnds, Drained, StartBatch,
      BatchCut, AskLists, AskQuotes, KeepQuotes, BatchEnds

\* No screen gets past the guard stage without the guard of its criteria.
LEMMA GuardStep ==
  ASSUME Types, GuardBuilt, [Next]_vars
  PROVE  GuardBuilt'
<1>1. Reports' = Reports /\ crit' = crit
  BY Same DEF Reports
<1>2. CASE Begin \/ LoadCalendar
  BY <1>1, <1>2 DEF Begin, LoadCalendar, GuardBuilt
<1>3. CASE UNCHANGED guard /\ (phase \in {"idle", "guard", "raised"}
                              => phase' \in {"idle", "guard", "raised"})
  BY <1>1, <1>3 DEF GuardBuilt
<1> QED
  BY <1>2, <1>3
     DEF Next, vars, Cancel, TimeRunsOut, ProviderRaises, ScreenFundamentals, AddFunds,
      StageEnds, NothingToPull, Pooled, Batched, Select, StartPool, PoolTimesOut, LeavePool,
      PoolEnds, Drained, StartBatch, BatchCut, AskLists, AskQuotes, KeepQuotes, BatchEnds,
      Expire, PullStarts, PullAnswers, Collect, AskOne

\* The results are made at the end, of what the guard has judged.
LEMMA JudgedStep ==
  ASSUME Types, Judged, [Next]_vars
  PROVE  Judged'
<1>1. crit' = crit
  BY Same
<1>2. CASE Begin
  BY <1>2 DEF Begin, Judged
<1>3. CASE Select
  <2>1. guard' = guard /\ phase' = "done"
    BY <1>3 DEF Select
  <2>2. ASSUME NEW r \in rows'
        PROVE  /\ InWindow(r.put, crit)
               /\ r.status = Status(guard, r.name, r.put.dte)
               /\ crit.policy = "exclude" => r.status # "spans"
    <3>1. PICK n \in Name : \E k \in Puts(n) :
            /\ r = [name |-> n, put |-> k, status |-> Status(guard, n, k.dte)]
            /\ crit.policy = "exclude" => r.status # "spans"
      BY <1>3, <2>2 DEF Select, Types
    <3>2. PICK k \in Puts(n) :
            /\ r = [name |-> n, put |-> k, status |-> Status(guard, n, k.dte)]
            /\ crit.policy = "exclude" => r.status # "spans"
      BY <3>1
    <3> QED
      BY <3>2, PutsAreEligible
  <2> QED
    BY <1>1, <2>1, <2>2 DEF Judged
<1>4. CASE /\ UNCHANGED <<rows, guard>>
           /\ phase = "done" => phase' = "done"
  BY <1>1, <1>4 DEF Judged
<1>5. CASE LoadCalendar
  BY <1>5 DEF LoadCalendar, StageEnds, Judged
<1> QED
  BY <1>2, <1>3, <1>4, <1>5
     DEF Next, vars, Cancel, TimeRunsOut, ProviderRaises, ScreenFundamentals, AddFunds,
      StageEnds, NothingToPull, Pooled, Batched, StartPool, PoolTimesOut, LeavePool,
      PoolEnds, Drained, StartBatch, BatchCut, AskLists, AskQuotes, KeepQuotes, BatchEnds,
      Expire, PullStarts, PullAnswers, Collect, AskOne

\* A blocked name is left out where names come in, and no later stop adds one.
LEMMA UnblockedStep ==
  ASSUME Types, Unblocked, [Next]_vars
  PROVE  Unblocked'
<1> SUFFICES ASSUME NEW n \in crit.blocked
             PROVE  /\ n \notin survivors' /\ pull'[n] = "none"
                    /\ n \notin todo' /\ n \notin fallback'
                    /\ \A q \in wanted' \cup quotes' : q[1] # n
                    /\ chains'[n] = {} /\ cache'[n] = {}
                    /\ \A r \in rows' : r.name # n
  BY Same DEF Unblocked
<1> USE DEF Unblocked
<1>0. n \in Name
  BY DEF Types
<1>1. CASE Begin
  BY <1>0, <1>1 DEF Begin, NoPulls, NoChains
<1>2. CASE ScreenFundamentals \/ AddFunds
  BY <1>2 DEF ScreenFundamentals, AddFunds, DropBlocked
<1>3. CASE StartPool \/ PoolTimesOut
  BY <1>0, <1>3 DEF StartPool, PoolTimesOut, LeavePool
<1>4. CASE StartBatch \/ AskLists \/ AskQuotes
  BY <1>0, <1>4 DEF StartBatch, AskLists, AskQuotes
<1>5. CASE KeepQuotes
  BY <1>0, <1>5 DEF KeepQuotes, QuotesOf
<1>6. CASE Select
  BY <1>6 DEF Select
<1>7. ASSUME NEW m \in Name, PullStarts(m) \/ PullAnswers(m)
      PROVE  pull'[n] = "none"
  BY <1>0, <1>7 DEF PullStarts, PullAnswers, Types
<1>8. ASSUME NEW m \in Name, Collect(m)
      PROVE  pull'[n] = "none" /\ chains'[n] = {}
  BY <1>0, <1>8 DEF Collect, LeavePool, Types
<1>9. ASSUME NEW m \in Name, AskOne(m)
      PROVE  n \notin fallback' /\ chains'[n] = {}
  BY <1>0, <1>9 DEF AskOne, Types
<1>10. ASSUME NEW m \in Name, Expire(m)
       PROVE  cache'[n] = {}
  BY <1>0, <1>10 DEF Expire, Types
<1>11. CASE UNCHANGED <<survivors, pull, batch, chains, cache, rows>>
  BY <1>11
<1> QED
  BY <1>1, <1>2, <1>3, <1>4, <1>5, <1>6, <1>7, <1>8, <1>9, <1>10, <1>11
     DEF Next, vars, Cancel, TimeRunsOut, ProviderRaises, LoadCalendar, NothingToPull, Pooled,
      Batched, PoolEnds, Drained, BatchCut, BatchEnds, PullStarts, PullAnswers, Collect,
      AskOne, Expire

\* The pool is left with its queue given up, and nothing fills it again.
LEMMA QueueStep ==
  ASSUME Types, NoneQueued, [Next]_vars
  PROVE  NoneQueued'
<1>1. CASE PoolTimesOut
  BY <1>1 DEF PoolTimesOut, LeavePool, NoneQueued
<1>2. ASSUME NEW n \in Name, PullStarts(n) \/ PullAnswers(n)
      PROVE  NoneQueued'
  BY <1>2 DEF PullStarts, PullAnswers, NoneQueued, Types
<1>3. ASSUME NEW n \in Name, Collect(n)
      PROVE  NoneQueued'
  BY <1>3 DEF Collect, LeavePool, NoneQueued
<1>4. CASE phase' # "drain"
  BY <1>4 DEF NoneQueued
<1>5. CASE UNCHANGED <<phase, pull>>
  BY <1>5 DEF NoneQueued
<1> QED
  BY <1>1, <1>2, <1>3, <1>4, <1>5
     DEF Next, vars, Begin, Cancel, TimeRunsOut, ProviderRaises, LoadCalendar, StageEnds,
      ScreenFundamentals, AddFunds, NothingToPull, Pooled, Batched, Select, StartPool, PoolEnds,
      Drained, StartBatch, BatchCut, AskLists, AskQuotes, KeepQuotes, BatchEnds, Expire, AskOne,
      Types

\* What the market has for a name stays what it is.
LEMMA ListedSame ==
  ASSUME [Next]_vars, NEW n
  PROVE  Listed(n)' = Listed(n) /\ Held(n)' = Held(n) /\ market' = market /\ crit' = crit
<1>1. market' = market /\ crit' = crit
  BY Same
<1> QED
  BY <1>1 DEF Listed, Held

\* Names are left out only where the universe is made, for a reason.
LEMMA EnteredStep ==
  ASSUME Types, Entered, CompleteIsWhole, [Next]_vars
  PROVE  Entered'
<1>1. market' = market /\ crit' = crit
  BY Same
<1>2. CASE Begin \/ LoadCalendar
  BY <1>2 DEF Begin, LoadCalendar, StageEnds, Entered, Pulling, CompleteIsWhole
<1>3. CASE ScreenFundamentals
  BY <1>1, <1>3 DEF ScreenFundamentals, StageEnds, Entered, Pulling, CompleteIsWhole, DropBlocked
<1>4. CASE AddFunds
  BY <1>1, <1>4 DEF AddFunds, StageEnds, Entered, Pulling, CompleteIsWhole, DropBlocked
<1>5. CASE /\ UNCHANGED <<guard, survivors, fundless>>
           /\ phase' \in Pulling \/ complete' => phase \in Pulling \/ complete
           /\ phase' = "etfs" => phase = "etfs"
  BY <1>1, <1>5 DEF Entered
<1>6. CASE Cancel \/ TimeRunsOut \/ UNCHANGED vars
  BY <1>5, <1>6 DEF Cancel, TimeRunsOut, vars
<1>7. CASE Pooled
  BY <1>5, <1>7 DEF Pooled, StartPool, PoolTimesOut, LeavePool, PoolEnds, Drained, Pulling, Types
<1>8. CASE Batched
  BY <1>5, <1>8
     DEF Batched, StartBatch, BatchCut, AskLists, AskQuotes, KeepQuotes, BatchEnds, Pulling
<1>9. ASSUME NEW n \in Name, Expire(n) \/ PullStarts(n) \/ PullAnswers(n) \/ Collect(n) \/ AskOne(n)
      PROVE  Entered'
  BY <1>5, <1>9 DEF Expire, PullStarts, PullAnswers, Collect, LeavePool, AskOne, Pulling
<1>10. CASE ProviderRaises \/ NothingToPull \/ Select
  BY <1>5, <1>10 DEF ProviderRaises, NothingToPull, Select, Pulling
<1> QED
  BY <1>2, <1>3, <1>4, <1>6, <1>7, <1>8, <1>9, <1>10 DEF Next

\* A future of the pool brings the whole chain, or costs its name.
LEMMA PoolKeptStep ==
  ASSUME Types, PoolKept, BatchKept, [Next]_vars
  PROVE  PoolKept'
<1>1. mode' = mode /\ \A n : Listed(n)' = Listed(n)
  BY Same, ListedSame
<1>2. CASE Begin
  BY <1>2 DEF Begin, NoChains, PoolKept
<1>3. CASE StartPool
  BY <1>1, <1>3 DEF StartPool, PoolKept, Types
<1>4. ASSUME NEW m \in Name, PullStarts(m) \/ PullAnswers(m)
      PROVE  PoolKept'
  <2>1. UNCHANGED <<phase, chains, survivors, dropped>>
        /\ \A n \in Name : pull'[n] \in {"none", "in"} => pull'[n] = pull[n]
    BY <1>4 DEF PullStarts, PullAnswers, Types
  <2> QED
    BY <1>1, <2>1 DEF PoolKept, Types
<1>5. ASSUME NEW m \in Name, Collect(m)
      PROVE  PoolKept'
  <2>1. phase = "pool" /\ mode # "batch" /\ survivors' = survivors
    BY <1>5 DEF Collect, PoolKept
  <2>2. CASE phase' = "drain" /\ chains' = chains
    BY <1>1, <2>1, <2>2 DEF PoolKept
  <2>3. CASE UNCHANGED phase /\ chains' = [chains EXCEPT ![m] = Listed(m)]
             /\ pull' = [pull EXCEPT ![m] = "in"] /\ dropped' = dropped
    BY <1>1, <2>1, <2>3 DEF PoolKept, Types
  <2>4. CASE UNCHANGED <<phase, chains>> /\ dropped' = dropped \cup {m}
             /\ pull' = [pull EXCEPT ![m] = "in"]
    BY <1>1, <2>1, <2>4 DEF PoolKept, Types
  <2> QED
    BY <1>5, <2>2, <2>3, <2>4 DEF Collect, LeavePool
<1>6. CASE mode = "batch" /\ phase' \notin {"pool", "drain"}
  BY <1>1, <1>6 DEF PoolKept
<1>7. CASE chains' = chains /\ phase' \notin {"pool", "drain"}
  BY <1>1, <1>7 DEF PoolKept
<1>8. CASE PoolTimesOut
  BY <1>1, <1>8 DEF PoolTimesOut, LeavePool, PoolKept
<1>9. CASE UNCHANGED <<phase, chains, survivors, pull, dropped>>
  BY <1>1, <1>9 DEF PoolKept
<1>10. CASE Cancel \/ TimeRunsOut \/ UNCHANGED vars
  BY <1>9, <1>10 DEF Cancel, TimeRunsOut, vars
<1>11. CASE \/ ProviderRaises \/ LoadCalendar \/ ScreenFundamentals \/ AddFunds \/ NothingToPull
            \/ Select
  BY <1>7, <1>11
     DEF ProviderRaises, LoadCalendar, ScreenFundamentals, AddFunds, StageEnds, NothingToPull, Select
<1>12. CASE PoolEnds \/ Drained
  BY <1>7, <1>12 DEF PoolEnds, Drained, Types
<1>13. CASE Batched
  <2>1. mode = "batch"
    BY <1>13 DEF Batched, StartBatch, BatchCut, AskLists, AskQuotes, KeepQuotes, BatchEnds, BatchKept
  <2>2. phase' \notin {"pool", "drain"}
    BY <1>13 DEF Batched, StartBatch, BatchCut, AskLists, AskQuotes, KeepQuotes, BatchEnds
  <2> QED
    BY <1>6, <2>1, <2>2
<1>14. ASSUME NEW m \in Name, AskOne(m)
       PROVE  PoolKept'
  BY <1>6, <1>14 DEF AskOne, BatchKept
<1>15. ASSUME NEW m \in Name, Expire(m)
       PROVE  PoolKept'
  BY <1>9, <1>15 DEF Expire
<1> QED
  BY <1>2, <1>3, <1>4, <1>5, <1>8, <1>10, <1>11, <1>12, <1>13, <1>14, <1>15 DEF Next, Pooled

\* The quotes that came of a name that is quoted are its chain.
LEMMA QuotesAreWhole ==
  ASSUME Types, BatchKept, phase = "snapshots", wanted = {}, NEW n \in todo
  PROVE  QuotesOf(quotes, n) = IF market[n].far THEN {} ELSE Held(n)
<1>1. quotes = {q \in todo \X Contract : q[2] \in Held(q[1]) /\ ~market[q[1]].far}
  BY DEF BatchKept
<1>2. Held(n) \subseteq Contract
  BY ListedTyped DEF Types
<1>3. \A k \in Held(n) : ~market[n].far => <<n, k>> \in quotes
  BY <1>1, <1>2
<1>4. QuotesOf(quotes, n) \subseteq IF market[n].far THEN {} ELSE Held(n)
  BY <1>1 DEF QuotesOf
<1>5. ASSUME NEW k \in Held(n), ~market[n].far
      PROVE  k \in QuotesOf(quotes, n)
  <2>1. <<n, k>> \in {p \in quotes : p[1] = n} /\ <<n, k>>[2] = k
    BY <1>3, <1>5
  <2> QED
    BY <2>1, Zenon DEF QuotesOf
<1> QED
  BY <1>4, <1>5

\* A batch loses no name on its way from lists to quotes to chains.
LEMMA BatchKeptStep ==
  ASSUME Types, BatchKept, [Next]_vars
  PROVE  BatchKept'
<1>1. mode' = mode /\ market' = market /\ \A n : Listed(n)' = Listed(n) /\ Held(n)' = Held(n)
  BY Same, ListedSame
<1>2. CASE Begin
  BY <1>2 DEF Begin, BatchKept
<1>3. CASE StartBatch
  BY <1>1, <1>3 DEF StartBatch, BatchKept, Types
<1>4. CASE AskLists
  <2>1. quotes = {} /\ mode = "batch" /\ \A n \in todo : chains[n] = {}
    BY <1>4 DEF AskLists, BatchKept
  <2> QED
    BY <1>1, <1>4, <2>1 DEF AskLists, BatchKept
<1>5. CASE AskQuotes
  <2>1. quotes' \cup wanted' = quotes \cup wanted
    BY <1>5 DEF AskQuotes
  <2> QED
    BY <1>1, <1>5, <2>1 DEF AskQuotes, BatchKept
<1>6. CASE KeepQuotes
  <2>1. phase = "snapshots" /\ phase' = "fallback" /\ mode = "batch"
        /\ UNCHANGED <<todo, fallback, dropped, cancel, late>>
    BY <1>6 DEF KeepQuotes, BatchKept
  <2>2. ASSUME ~Stop', NEW n \in todo
        PROVE  Whole(n)' \/ (chains'[n] = {} /\ n \in fallback)
    <3>1. wanted = {}
      BY <1>6, <2>1, <2>2 DEF KeepQuotes, Stop
    <3>2. n \in Name /\ chains[n] = {}
      BY <2>1 DEF BatchKept, Types
    <3>3. QuotesOf(quotes, n) = IF market[n].far THEN {} ELSE Held(n)
      BY <2>1, <3>1, QuotesAreWhole
    <3>4. chains'[n] = QuotesOf(quotes, n)
      BY <1>6, <3>2 DEF KeepQuotes
    <3>5. Held(n) \subseteq Listed(n)
      BY DEF Held
    <3>6. CASE ~market[n].far
      BY <1>1, <3>3, <3>4, <3>5, <3>6 DEF Whole
    <3>7. CASE market[n].far /\ Held(n) = {}
      BY <1>1, <3>3, <3>4, <3>7 DEF Whole
    <3>8. CASE market[n].far /\ Held(n) # {}
      BY <2>1, <3>3, <3>4, <3>8 DEF BatchKept
    <3> QED
      BY <3>6, <3>7, <3>8
  <2> QED
    BY <1>1, <2>1, <2>2 DEF BatchKept
<1>7. ASSUME NEW m \in Name, AskOne(m)
      PROVE  BatchKept'
  <2>1. phase = "fallback" /\ phase' = phase /\ ~Stop /\ m \in fallback
        /\ fallback' = fallback \ {m} /\ UNCHANGED <<todo, cancel, late>>
    BY <1>7 DEF AskOne
  <2>2. mode = "batch" /\ \A n \in todo : Whole(n) \/ (chains[n] = {} /\ n \in fallback \cup dropped)
    BY <2>1 DEF BatchKept
  <2>3. CASE chains' = [chains EXCEPT ![m] = Listed(m)] /\ dropped' = dropped
    <3>1. Held(m) \subseteq Listed(m)
      BY DEF Held
    <3>2. Whole(m)'
      BY <1>1, <2>3, <3>1 DEF Whole, Types
    <3>3. \A n \in todo : n # m => chains'[n] = chains[n]
      BY <2>3 DEF Types
    <3>4. \A n \in todo : Whole(n)' \/ (chains'[n] = {} /\ n \in fallback' \cup dropped')
      BY <1>1, <2>1, <2>2, <2>3, <3>2, <3>3 DEF Whole
    <3> QED
      BY <1>1, <2>1, <2>2, <3>4 DEF BatchKept
  <2>4. CASE chains' = chains /\ dropped' = dropped \cup {m}
    <3>1. \A n \in todo : Whole(n)' \/ (chains'[n] = {} /\ n \in fallback' \cup dropped')
      BY <1>1, <2>1, <2>2, <2>4 DEF Whole
    <3> QED
      BY <1>1, <2>1, <2>2, <3>1 DEF BatchKept
  <2> QED
    BY <1>7, <2>3, <2>4 DEF AskOne
<1>8. CASE phase' \notin {"guard", "fundamentals", "etfs", "pull", "list", "snapshots", "fallback"}
  BY <1>8 DEF BatchKept
<1>9. CASE /\ phase' \in {"fundamentals", "etfs", "pull"} /\ quotes' = quotes
           /\ phase \in {"guard", "fundamentals", "etfs"}
  BY <1>9 DEF BatchKept
<1>10. CASE (Stop => Stop') /\ UNCHANGED <<phase, chains, todo, quotes, wanted, fallback, dropped>>
  BY <1>1, <1>10 DEF BatchKept, Whole
<1>11. CASE Cancel \/ TimeRunsOut \/ UNCHANGED vars
  BY <1>10, <1>11 DEF Cancel, TimeRunsOut, vars, Stop
<1>12. CASE LoadCalendar \/ ScreenFundamentals \/ AddFunds
  BY <1>8, <1>9, <1>12 DEF LoadCalendar, ScreenFundamentals, AddFunds, StageEnds
<1>13. CASE ProviderRaises \/ NothingToPull \/ Select \/ BatchCut \/ BatchEnds
  BY <1>8, <1>13 DEF ProviderRaises, NothingToPull, Select, BatchCut, BatchEnds
<1>14. CASE Pooled
  BY <1>8, <1>14 DEF Pooled, StartPool, PoolTimesOut, LeavePool, PoolEnds, Drained, Types
<1>15. ASSUME NEW m \in Name, Expire(m)
       PROVE  BatchKept'
  BY <1>10, <1>15 DEF Expire, Stop
<1>16. ASSUME NEW m \in Name, PullStarts(m) \/ PullAnswers(m) \/ Collect(m)
       PROVE  BatchKept'
  BY <1>8, <1>16 DEF PullStarts, PullAnswers, Collect, LeavePool
<1> QED
  BY <1>2, <1>3, <1>4, <1>5, <1>6, <1>7, <1>11, <1>12, <1>13, <1>14, <1>15, <1>16
     DEF Next, Batched

\* Each way to a complete pull has dealt with every name.
LEMMA CompleteIsWholeStep ==
  ASSUME Types, PoolKept, BatchKept, CompleteIsWhole, [Next]_vars
  PROVE  CompleteIsWhole'
<1>1. mode' = mode /\ \A n : Listed(n)' = Listed(n) /\ Held(n)' = Held(n)
  BY Same, ListedSame
<1>2. CASE Begin
  BY <1>2 DEF Begin, CompleteIsWhole
<1>3. CASE NothingToPull
  BY <1>3 DEF NothingToPull, CompleteIsWhole
<1>4. CASE PoolEnds
  <2>1. phase = "pool" /\ phase' = "select" /\ Awaited = {}
        /\ UNCHANGED <<survivors, chains, dropped, todo>>
    BY <1>4 DEF PoolEnds
  <2>2. ASSUME NEW n \in survivors
        PROVE  Whole(n)' \/ (chains'[n] = {} /\ n \in dropped')
    <3>1. n \in Name /\ pull[n] \in {"none", "in"} /\ Held(n) \subseteq Listed(n)
      BY <2>1 DEF Awaited, Types, Held
    <3>2. chains[n] \in {{}, Listed(n)}
      BY <2>1, <3>1 DEF PoolKept
    <3>3. Listed(n) = {} \/ n \in dropped \/ chains[n] = Listed(n)
      BY <2>1, <3>1 DEF PoolKept
    <3> QED
      BY <1>1, <2>1, <3>1, <3>2, <3>3 DEF Whole
  <2> QED
    BY <2>1, <2>2 DEF CompleteIsWhole
<1>5. CASE BatchEnds
  <2>1. phase = "fallback" /\ phase' = "select" /\ fallback = {} /\ (complete' => ~Stop)
        /\ UNCHANGED <<survivors, chains, dropped, todo>> /\ mode = "batch"
    BY <1>5 DEF BatchEnds, BatchKept
  <2>2. ASSUME ~Stop, NEW n \in survivors
        PROVE  FromCache(n)' \/ Whole(n)' \/ (chains'[n] = {} /\ n \in dropped')
    <3>1. CASE n \notin todo
      BY <1>1, <2>1, <3>1 DEF FromCache
    <3>2. CASE n \in todo
      BY <1>1, <2>1, <2>2, <3>2 DEF BatchKept, Whole
    <3> QED
      BY <3>1, <3>2
  <2> QED
    BY <2>1, <2>2 DEF CompleteIsWhole
<1>6. CASE complete' = complete /\ phase \notin {"select", "done"}
  BY <1>6 DEF CompleteIsWhole
<1>7. CASE UNCHANGED <<survivors, chains, dropped, todo, complete>>
           /\ (phase \in {"select", "done"} => phase' \in {"select", "done"})
  BY <1>1, <1>7 DEF CompleteIsWhole, Whole, FromCache
<1> QED
  BY <1>2, <1>3, <1>4, <1>5, <1>6, <1>7
     DEF Next, vars, Cancel, TimeRunsOut, ProviderRaises, LoadCalendar, ScreenFundamentals,
      AddFunds, StageEnds, Pooled, Batched, Select, StartPool, PoolTimesOut, LeavePool, Drained,
      StartBatch, BatchCut, AskLists, AskQuotes, KeepQuotes, Expire, PullStarts, PullAnswers,
      Collect, AskOne

\* select_put leaves out no name that has a put, and the last line of defence
\* finds nothing left to take away.
LEMMA RowsMadeStep ==
  ASSUME Types, GuardBuilt, Judged, CompleteIsWhole, RowsMade, [Next]_vars
  PROVE  RowsMade'
<1>1. crit' = crit
  BY Same
<1>2. CASE Begin
  BY <1>2 DEF Begin, RowsMade
<1>3. CASE Select
  <2>1. phase = "select" /\ UNCHANGED <<survivors, chains, guard, complete>>
    BY <1>3 DEF Select
  <2>2. \A n : Puts(n)' = Puts(n)
    BY <1>1, <2>1 DEF Puts
  <2>3. \A r \in rows' : r.name \in survivors /\ r.put \in Puts(r.name)
    BY <1>3 DEF Select
  <2>4. ASSUME NEW n \in Name, NEW k \in Puts(n), crit.policy = "exclude"
        PROVE  Status(guard, n, k.dte) # "spans"
    <3>1. guard.policy = "exclude"
      BY <2>1, <2>4, GuardTyped DEF GuardBuilt, Types
    <3> QED
      BY <3>1, PutsAreEligible DEF Blocks
  <2>5. ASSUME NEW n \in survivors, Puts(n) # {}
        PROVE  \E r \in rows' : r.name = n
    <3>1. PICK put : /\ put[n] \in Puts(n)
                     /\ LET r == [name |-> n, put |-> put[n], status |-> Status(guard, n, put[n].dte)]
                        IN (crit.policy = "exclude" => r.status # "spans") => r \in rows'
      BY <1>3, <2>5 DEF Select
    <3>2. n \in Name
      BY DEF Types
    <3> QED
      BY <2>4, <3>1, <3>2
  <2> QED
    BY <2>1, <2>2, <2>3, <2>5 DEF RowsMade
<1>4. CASE /\ rows' = rows /\ phase # "done"
           /\ phase' # "done" \/ (complete' = complete /\ phase # "select")
  BY <1>4 DEF RowsMade, Judged, CompleteIsWhole
<1>5. CASE UNCHANGED <<rows, phase, complete, survivors, chains, guard>>
  BY <1>1, <1>5 DEF RowsMade, Puts
<1> QED
  BY <1>2, <1>3, <1>4, <1>5
     DEF Next, vars, Working, Cancel, TimeRunsOut, ProviderRaises, LoadCalendar,
      ScreenFundamentals, AddFunds, StageEnds, NothingToPull, Pooled, Batched, StartPool,
      PoolTimesOut, LeavePool, PoolEnds, Drained, StartBatch, BatchCut, AskLists, AskQuotes,
      KeepQuotes, BatchEnds, Expire, PullStarts, PullAnswers, Collect, AskOne

\* The initial states satisfy the inductive invariant.
LEMMA InitInvariant == Init => IInv
<1> SUFFICES ASSUME Init PROVE IInv
  OBVIOUS
<1>1. Types
  <2>1. guard.dates \in [Name -> Nat \cup {NoDate}] /\ guard.policy \in Policies
    BY GuardTyped DEF Init, Policies
  <2>2. pull \in [Name -> Pulls] /\ chains \in [Name -> SUBSET Contract]
        /\ cache \in [Name -> SUBSET Contract]
    BY DEF Init, NoPulls, NoChains, Pulls
  <2>3. market \in [Name -> Markets] /\ crit \in Criteria /\ mode \in Modes
        /\ screens \in 0 .. MaxScreens
    BY DEF Init
  <2> QED
    BY <2>1, <2>2, <2>3 DEF Init, Types
<1>2. Running = {}
  BY DEF Init, NoPulls, Running
<1>3. PoolBounded
  BY <1>2, FS_EmptySet DEF PoolBounded
<1>4. GuardBuilt /\ Judged /\ NoneQueued
  BY DEF Init, GuardBuilt, Judged, NoneQueued
<1>5. crit.blocked \subseteq Name
  BY <1>1 DEF Types
<1>6. Unblocked
  BY <1>5 DEF Init, Unblocked, NoPulls, NoChains
<1>7. Entered /\ BatchKept /\ CompleteIsWhole /\ RowsMade
  BY DEF Init, Entered, Pulling, BatchKept, CompleteIsWhole, RowsMade
<1>8. PoolKept
  BY DEF Init, PoolKept, NoChains
<1> QED
  BY <1>1, <1>3, <1>4, <1>6, <1>7, <1>8 DEF IInv

\* Every reachable state satisfies it.
THEOREM Invariance == Spec => []IInv
<1>1. IInv /\ [Next]_vars => IInv'
  BY TypesStep, PoolStep, GuardStep, JudgedStep, UnblockedStep, QueueStep,
     EnteredStep, PoolKeptStep, BatchKeptStep, CompleteIsWholeStep, RowsMadeStep DEF IInv
<1> QED
  BY <1>1, InitInvariant, PTL DEF Spec

\* The built guard vouches for every contract of the window: what its calendar
\* has no date for does not report, and what reports is found to span.
LEMMA WindowIsCovered ==
  ASSUME Types, guard = BuildGuard(Reports, crit), crit.policy # "off",
         NEW n \in Name, NEW k \in Contract, InWindow(k, crit)
  PROVE  /\ Status(guard, n, k.dte) # "unknown"
         /\ SpansReport(n, k) <=> Status(guard, n, k.dte) = "spans"
<1>1. /\ market[n].report \in Nat \cup {NoDate} /\ k.dte \in Nat
      /\ crit.maxDte \in Nat /\ crit.tolerance \in Nat /\ crit.buffer \in Nat
  BY DEF Types
<1>2. guard.covers = WindowEnd(crit) /\ guard.buffer = crit.buffer
  BY DEF BuildGuard
<1>3. guard.dates[n] = IF market[n].report \in 0 .. WindowEnd(crit)
                       THEN market[n].report ELSE NoDate
  BY DEF BuildGuard, Calendar, Reports
<1>4. Deadline(guard, k.dte) = k.dte + crit.buffer
  BY <1>2 DEF Deadline
<1>5. k.dte + crit.buffer <= WindowEnd(crit) /\ WindowEnd(crit) \in Nat
  BY <1>1 DEF InWindow, WindowEnd
<1>6. CASE market[n].report \in 0 .. WindowEnd(crit)
  BY <1>1, <1>3, <1>4, <1>6 DEF Status, SpansReport, NoDate
<1>7. CASE market[n].report \notin 0 .. WindowEnd(crit)
  <2>1. guard.dates[n] = NoDate /\ ~SpansReport(n, k)
    BY <1>1, <1>3, <1>5, <1>7 DEF SpansReport
  <2>2. guard.covers # NoDate /\ Deadline(guard, k.dte) <= guard.covers
    BY <1>2, <1>4, <1>5 DEF NoDate
  <2> QED
    BY <2>1, <2>2 DEF Status
<1> QED
  BY <1>6, <1>7

\* Every variable keeps its type, and no more threads work than may.
THEOREM TypeCorrect == Spec => []TypeOK
<1>1. IInv => TypeOK
  BY DEF IInv, Types, PoolBounded, TypeOK
<1> QED
  BY <1>1, Invariance, PTL

\* The calendar of a screen answers for every contract it may look at.
THEOREM CalendarCorrect == Spec => []NothingUnknown
<1>1. IInv => NothingUnknown
  <2> SUFFICES ASSUME IInv, guard.policy # "off", NEW n \in Name, NEW k \in Listed(n)
               PROVE  Status(guard, n, k.dte) # "unknown"
    BY DEF NothingUnknown
  <2>1. Types /\ guard # Blind(Name)
    BY DEF IInv, Blind
  <2>2. guard = BuildGuard(Reports, crit) /\ crit.policy # "off"
    BY <2>1, GuardTyped DEF IInv, GuardBuilt, Types
  <2>3. k \in Contract /\ InWindow(k, crit)
    BY <2>1, ListedTyped DEF Types, Listed
  <2> QED
    BY <2>1, <2>2, <2>3, WindowIsCovered
<1> QED
  BY <1>1, Invariance, PTL

\* Nothing whose life spans a report is in the results of a screen that
\* excludes it.
THEOREM EarningsCorrect == Spec => []NothingSpansAReport
<1>1. IInv => NothingSpansAReport
  <2> SUFFICES ASSUME IInv, crit.policy = "exclude", NEW r \in rows
               PROVE  ~SpansReport(r.name, r.put)
    BY DEF NothingSpansAReport
  <2>1. Types /\ r.name \in Name /\ r.put \in Contract
    BY DEF IInv, Types
  <2>2. guard = BuildGuard(Reports, crit)
    BY DEF IInv, Judged, GuardBuilt
  <2>3. InWindow(r.put, crit) /\ Status(guard, r.name, r.put.dte) # "spans"
    BY DEF IInv, Judged
  <2> QED
    BY <2>1, <2>2, <2>3, WindowIsCovered
<1> QED
  BY <1>1, Invariance, PTL

\* A set of numbers that is not empty has a least one.
LEMMA LeastNumber ==
  ASSUME NEW T \in SUBSET Nat, T # {}
  PROVE  \E m \in T : \A x \in T : m <= x
<1>1. PICK m \in T : \A x \in T : ~(<<x, m>> \in OpToRel(<, Nat))
  BY NatLessThanWellFounded, WFMin, Zenon
<1>2. \A x \in T : <<x, m>> \in Nat \X Nat
  OBVIOUS
<1>3. \A x \in T : ~(x < m)
  BY <1>1, <1>2 DEF OpToRel
<1> QED
  BY <1>3

\* Contract k pays as much as something of each expiry before d.
Beats(pool, k, d) == \A j \in pool : j.dte < d => \E i \in pool : i.dte = j.dte /\ i.pays <= k.pays

\* With one that pays as much as what expires before d there is one that pays as
\* much as what expires on day d besides.
LEMMA OneExpiryMore ==
  ASSUME NEW pool, \A k \in pool : k.dte \in Nat /\ k.pays \in Nat,
         NEW d \in Nat, NEW best \in pool, Beats(pool, best, d)
  PROVE  \E k \in pool : Beats(pool, k, d + 1)
<1>1. CASE \A k \in pool : k.dte # d
  <2>1. \A k \in pool : k.dte < d + 1 => k.dte < d
    BY <1>1
  <2> QED
    BY <2>1 DEF Beats
<1>2. CASE \E k \in pool : k.dte = d
  <2> DEFINE Yields == {k.pays : k \in {i \in pool : i.dte = d}}
  <2>1. Yields \in SUBSET Nat /\ Yields # {}
    BY <1>2
  <2>2. PICK y \in Yields : \A x \in Yields : y <= x
    <3> HIDE DEF Yields
    <3> QED
      BY <2>1, LeastNumber
  <2>3. PICK low \in pool : low.dte = d /\ low.pays = y
    BY <2>2
  <2> HIDE DEF Yields
  <2>4. PICK k \in {low, best} : low.pays <= k.pays /\ best.pays <= k.pays
    <3>1. low.pays \in Nat /\ best.pays \in Nat
      OBVIOUS
    <3>2. low.pays <= best.pays \/ best.pays <= low.pays
      BY <3>1
    <3>3. low.pays <= low.pays /\ best.pays <= best.pays
      BY <3>1
    <3> QED
      BY <3>2, <3>3, Zenon
  <2>5. ASSUME NEW j \in pool, j.dte < d + 1
        PROVE  \E i \in pool : i.dte = j.dte /\ i.pays <= k.pays
    <3>1. CASE j.dte = d
      BY <2>3, <2>4, <3>1
    <3>2. CASE j.dte # d
      <4>1. j.dte < d
        <5>1. j.dte \in Nat
          OBVIOUS
        <5> QED
          BY <2>5, <3>2, <5>1
      <4>2. PICK i \in pool : i.dte = j.dte /\ i.pays <= best.pays
        BY <4>1 DEF Beats
      <4>3. i.pays \in Nat /\ best.pays \in Nat /\ k.pays \in Nat
        BY <2>4
      <4>4. i.pays <= k.pays
        BY <2>4, <4>2, <4>3
      <4> QED
        BY <4>2, <4>4
    <3> QED
      BY <3>1, <3>2
  <2> QED
    BY <2>4, <2>5 DEF Beats
<1> QED
  BY <1>1, <1>2

\* Of contracts that expire within a bound there is one that pays as much as
\* something of each expiry.
LEMMA PoolHasBest ==
  ASSUME NEW pool, pool # {}, NEW bound \in Nat,
         \A k \in pool : k.dte \in 0 .. bound /\ k.pays \in Nat
  PROVE  \E k \in pool : \A j \in pool : \E i \in pool : i.dte = j.dte /\ i.pays <= k.pays
<1> DEFINE Bad == {d \in Nat : ~ \E k \in pool : Beats(pool, k, d)}
<1>1. \A k \in pool : k.dte \in Nat /\ k.pays \in Nat
  OBVIOUS
<1>2. Bad = {}
  <2> SUFFICES ASSUME Bad # {} PROVE FALSE
    OBVIOUS
  <2>1. Bad \in SUBSET Nat
    OBVIOUS
  <2>2. PICK d \in Bad : \A e \in Bad : d <= e
    <3> HIDE DEF Bad
    <3> QED
      BY <2>1, LeastNumber
  <2>3. d \in Nat /\ ~ \E k \in pool : Beats(pool, k, d)
    BY <2>2
  <2>4. d # 0
    <3>1. PICK k \in pool : TRUE
      OBVIOUS
    <3>2. \A j \in pool : ~(j.dte < 0)
      BY <1>1
    <3>3. Beats(pool, k, 0)
      BY <3>2 DEF Beats
    <3> QED
      BY <2>3, <3>3
  <2>5. d - 1 \in Nat /\ d - 1 \notin Bad
    <3> HIDE DEF Bad
    <3> QED
      BY <2>2, <2>3, <2>4
  <2>6. PICK best \in pool : Beats(pool, best, d - 1)
    BY <2>5
  <2>7. \E k \in pool : Beats(pool, k, (d - 1) + 1)
    BY <1>1, <2>5, <2>6, OneExpiryMore
  <2>8. (d - 1) + 1 = d
    BY <2>3
  <2> QED
    BY <2>3, <2>7, <2>8
<1>3. bound + 1 \in Nat /\ \A k \in pool : k.dte < bound + 1
  OBVIOUS
<1>4. \E k \in pool : Beats(pool, k, bound + 1)
  BY <1>2, <1>3
<1> QED
  BY <1>3, <1>4 DEF Beats

\* Each expiry of what may be sold keeps one contract nearest the target.
LEMMA NearestThere ==
  ASSUME NEW ks, NEW k \in ks, \A j \in ks : j.off \in Nat
  PROVE  \E i \in NearestPerExpiry(ks) : i.dte = k.dte
<1> DEFINE Offs == {j.off : j \in {i \in ks : i.dte = k.dte}}
<1>1. Offs \in SUBSET Nat /\ Offs # {}
  OBVIOUS
<1>2. PICK o \in Offs : \A x \in Offs : o <= x
  <2> HIDE DEF Offs
  <2> QED
    BY <1>1, LeastNumber
<1>3. PICK i \in ks : i.dte = k.dte /\ i.off = o
  BY <1>2
<1>4. \A j \in ks : j.dte = i.dte => i.off <= j.off
  BY <1>2, <1>3
<1> QED
  BY <1>3, <1>4 DEF NearestPerExpiry

\* Where there is something to sell a put is selected.
LEMMA PutIsSelected ==
  ASSUME NEW ks, ks # {}, NEW c, NEW bound \in Nat,
         \A k \in ks : k.dte \in 0 .. bound /\ k.off \in Nat /\ k.pays \in Nat
  PROVE  SelectPut(ks, c) # {}
<1> DEFINE nearest == NearestPerExpiry(ks)
           inBand == {k \in nearest : InBand(k, c)}
           pool == IF inBand # {} THEN inBand ELSE nearest
<1>1. nearest # {} /\ nearest \subseteq ks
  <2>1. nearest \subseteq ks
    BY DEF NearestPerExpiry
  <2>2. \A j \in ks : j.off \in Nat
    OBVIOUS
  <2> QED
    BY <2>1, <2>2, NearestThere
<1>2. pool # {} /\ pool \subseteq ks
  <2> HIDE DEF nearest
  <2> QED
    BY <1>1
<1>3. SelectPut(ks, c) = {k \in pool : \A j \in pool : \E i \in pool : i.dte = j.dte /\ i.pays <= k.pays}
  BY DEF SelectPut
<1>4. \A k \in pool : k.dte \in 0 .. bound /\ k.pays \in Nat
  <2> HIDE DEF pool
  <2> QED
    BY <1>2
<1>5. \E k \in pool : \A j \in pool : \E i \in pool : i.dte = j.dte /\ i.pays <= k.pays
  <2> HIDE DEF pool
  <2> QED
    BY <1>2, <1>4, PoolHasBest
<1> HIDE DEF pool
<1> QED
  BY <1>3, <1>5
\* From a whole chain the screen takes for sellable what is.
LEMMA WholeChainJudged ==
  ASSUME Types, guard = BuildGuard(Reports, crit), NEW n \in Name, Whole(n)
  PROVE  EligibleContracts(chains[n], n, crit, guard) = Sellable(n)
<1>1. ASSUME NEW k
      PROVE  k \in Offered(chains[n], crit) <=> k \in Offered(market[n].chain, crit)
  <2>1. k \in market[n].chain => k \in Contract
    BY DEF Types
  <2> QED
    BY <2>1 DEF Whole, Held, Listed, Offered
<1>2. ASSUME NEW k \in Offered(market[n].chain, crit)
      PROVE  Blocks(guard, n, k.dte) <=> crit.policy = "exclude" /\ SpansReport(n, k)
  <2>1. k \in Contract /\ InWindow(k, crit)
    BY DEF Offered, Types
  <2>2. guard.policy = crit.policy
    BY GuardTyped DEF Types
  <2> QED
    BY <2>1, <2>2, WindowIsCovered DEF Blocks
<1> QED
  BY <1>1, <1>2 DEF EligibleContracts, Sellable

\* A stock one of whose puts may be sold does not fall to the guard's verdict on
\* all of them.
LEMMA SellableIsNotBlocked ==
  ASSUME Types, guard = BuildGuard(Reports, crit), crit.tolerance = 0,
         NEW n \in Name, NEW k \in Sellable(n)
  PROVE  ~BlocksEveryExpiry(guard, n, crit.minDte)
<1> SUFFICES ASSUME guard.policy = "exclude", guard.dates[n] # NoDate,
                    guard.dates[n] <= Deadline(guard, crit.minDte)
             PROVE  FALSE
  BY DEF BlocksEveryExpiry
<1>1. crit.policy = "exclude" /\ guard.buffer = crit.buffer
  BY GuardTyped DEF Types, BuildGuard
<1>2. k \in Contract /\ crit.minDte - 0 <= k.dte /\ ~SpansReport(n, k)
  BY <1>1 DEF Sellable, Offered, InWindow, Types
<1>3. /\ market[n].report \in Nat \cup {NoDate} /\ k.dte \in Nat
      /\ crit.minDte \in Nat /\ crit.buffer \in Nat
  BY <1>2 DEF Types
<1>4. guard.dates[n] = market[n].report
  BY <1>1 DEF BuildGuard, Calendar, Reports
<1> QED
  BY <1>1, <1>2, <1>3, <1>4 DEF SpansReport, Deadline, NoDate

\* What is shown of a name is the put the rules select from its whole chain.
THEOREM PicksCorrect == Spec => []RowsAreThePicks
<1>1. IInv => RowsAreThePicks
  <2> SUFFICES ASSUME IInv, mode = "batch" => complete, NEW r \in rows, ~FromCache(r.name)
               PROVE  r.put \in SelectPut(Sellable(r.name), crit)
    BY DEF RowsAreThePicks
  <2>1. Types /\ r.name \in Name /\ r.put \in Puts(r.name) /\ r.name \in survivors
    BY DEF IInv, Types, RowsMade
  <2>2. guard = BuildGuard(Reports, crit)
    BY DEF IInv, Judged, GuardBuilt
  <2>3. chains[r.name] # {}
    BY <2>1, PutsAreEligible
  <2>4. Whole(r.name)
    <3>1. CASE mode = "batch"
      BY <2>1, <2>3, <3>1 DEF IInv, CompleteIsWhole
    <3>2. CASE mode # "batch"
      BY <2>1, <2>3, <3>2 DEF IInv, PoolKept, Whole, Held
    <3> QED
      BY <3>1, <3>2
  <2>5. EligibleContracts(chains[r.name], r.name, crit, guard) = Sellable(r.name)
    BY <2>1, <2>2, <2>4, WholeChainJudged
  <2> QED
    BY <2>1, <2>5 DEF Puts
<1> QED
  BY <1>1, Invariance, PTL

\* A screen that calls itself complete shows every name that has a put it
\* would sell.
THEOREM CompleteCorrect == Spec => []CompleteMissesNothing
<1>1. IInv => CompleteMissesNothing
  <2> SUFFICES ASSUME IInv, phase = "done", complete, crit.tolerance = 0,
                      NEW n \in Name \ crit.blocked, Heard(n), n \in Stock => market[n].sound,
                      NEW k \in Sellable(n)
               PROVE  \E r \in rows : r.name = n
    BY DEF CompleteMissesNothing
  <2>1. Types /\ guard = BuildGuard(Reports, crit)
    BY DEF IInv, GuardBuilt
  <2>2. n \in survivors
    BY <2>1, SellableIsNotBlocked DEF IInv, Entered, Heard, Stock
  <2>3. Whole(n)
    BY <2>2 DEF IInv, CompleteIsWhole, Heard
  <2>4. Puts(n) = SelectPut(Sellable(n), crit)
    BY <2>1, <2>3, WholeChainJudged DEF Puts
  <2>5. crit.maxDte \in Nat /\ Sellable(n) # {}
    BY <2>1 DEF Types
  <2>6. \A i \in Sellable(n) : i.dte \in 0 .. crit.maxDte /\ i.off \in Nat /\ i.pays \in Nat
    <3> SUFFICES ASSUME NEW i \in Sellable(n)
                 PROVE  i.dte \in 0 .. crit.maxDte /\ i.off \in Nat /\ i.pays \in Nat
      OBVIOUS
    <3>1. i \in Contract /\ i.dte <= crit.maxDte + 0
      BY <2>1 DEF Sellable, Offered, InWindow, Types
    <3>2. i.dte \in Nat /\ i.off \in Nat /\ i.pays \in Nat
      BY <3>1
    <3> QED
      BY <2>5, <3>1, <3>2
  <2>7. Puts(n) # {}
    BY <2>4, <2>5, <2>6, PutIsSelected
  <2> QED
    BY <2>2, <2>7 DEF IInv, RowsMade
<1> QED
  BY <1>1, Invariance, PTL

\* Of a blocked name nothing is fetched, kept or shown.
THEOREM BlocklistCorrect == Spec => []BlockedLeftAlone
<1>1. IInv => BlockedLeftAlone
  BY DEF IInv, Unblocked, BlockedLeftAlone
<1> QED
  BY <1>1, Invariance, PTL

\* A pull that has been cut short asks for nothing more.
THEOREM CutCorrect == Spec => NothingAskedAfterCut
<1>1. IInv /\ [Next]_vars => [phase = "drain" => Running' \subseteq Running]_vars
  <2> SUFFICES ASSUME IInv, Next, phase = "drain", NEW n \in Running'
               PROVE  n \in Running
    BY DEF Running
  <2>1. n \in Name /\ pull'[n] = "running" /\ Types /\ NoneQueued
    BY DEF Running, IInv
  <2>2. \A m \in Name : ~PullStarts(m)
    BY <2>1 DEF PullStarts, NoneQueued
  <2>3. ASSUME NEW m \in Name, PullAnswers(m)
        PROVE  pull[n] = "running"
    BY <2>1, <2>3 DEF PullAnswers, Types
  <2>4. ASSUME UNCHANGED pull
        PROVE  pull[n] = "running"
    BY <2>1, <2>4
  <2>5. pull[n] = "running"
    BY <2>1, <2>2, <2>3, <2>4
       DEF Next, vars, Begin, Working, Cancel, TimeRunsOut, ProviderRaises, LoadCalendar, StageEnds,
        ScreenFundamentals, AddFunds, NothingToPull, Pooled, Batched, Select, StartPool,
        PoolTimesOut, PoolEnds, Drained, StartBatch, BatchCut, AskLists, AskQuotes, KeepQuotes,
        BatchEnds, Expire, Collect, AskOne
  <2> QED
    BY <2>1, <2>5 DEF Running
<1> QED
  BY <1>1, Invariance, PTL DEF Spec, NothingAskedAfterCut
=============================================================================
