------------------------------ MODULE BondSearch ------------------------------
(***************************************************************************)
(* BondDirectory of bonds/search.py: the exchange's list of traded bonds,  *)
(* loaded under a lock and kept ListTTL ticks; after a failure it is not   *)
(* asked for again for ListRetry ticks, and an old list is better than     *)
(* none.  A search that finds nothing in the list asks the exchange, and   *)
(* remembers MaxSearches of its answers.                                   *)
(***************************************************************************)
EXTENDS Optional

CONSTANTS Searcher, Query,
          Lists,       \* the lists the exchange has, one after another: sets of queries they answer
          Elsewhere,   \* queries its own search answers
          Short,       \* queries too short for that
          ListTTL, ListRetry, MaxSearches,
          LastSecond, MaxSearched   \* bounds: ticks, and searches

ASSUME SearchAssumption ==
  /\ ListTTL \in Nat /\ ListRetry \in Nat /\ MaxSearches \in Nat \ {0}
  /\ LastSecond \in Nat /\ MaxSearched \in Nat

\* Who fetches the list and since when, and what a search is answered
Loads == [who : Searcher, since : Nat]
Replies == [who : Searcher, what : {"from list", "from search", "nothing", "unavailable"}]

ASSUME NoneSearchAssumption == None \notin Nat /\ None \notin Loads /\ None \notin Replies

VARIABLES
  second,
  edition,    \* of the exchange's list
  held,       \* _listed: the edition held, or None
  loadedAt, failedAt,   \* _loaded_at, _failed_at (None: the last load went well)
  loading,    \* who holds the lock while the list is fetched, and since when; or None
  remembered, \* _moex_cache: queries, least recently used first, all with their answers
  doing,      \* where each searcher is
  query,      \* what each searches for
  reply,      \* what the last step answered, and whom; or None
  tries,      \* when the list was asked for, and whether it came (history)
  searched

searchVars == <<second, edition, held, loadedAt, failedAt, loading, remembered, doing, query,
                reply, tries, searched>>

SearchInit ==
  /\ second = 0 /\ edition = 1 /\ held = None /\ loadedAt = 0 /\ failedAt = None
  /\ loading = None /\ remembered = <<>> /\ tries = <<>> /\ searched = 0
  /\ doing = [s \in Searcher |-> "idle"] /\ query = [s \in Searcher |-> None]
  /\ reply = None

Young == held # None /\ second - loadedAt < ListTTL

\* Variant: a failure is forgotten, and the list asked for at every search.
MayAskAlways == TRUE

MayAsk == IF failedAt = None THEN TRUE ELSE second - failedAt >= ListRetry

\* The search of s ends with what it is answered.
Answer(s, what) ==
  /\ reply' = [who |-> s, what |-> what]
  /\ doing' = [doing EXCEPT ![s] = "idle"] /\ query' = [query EXCEPT ![s] = None]

GoesTo(s, step) ==
  doing' = [doing EXCEPT ![s] = step] /\ reply' = None /\ UNCHANGED query

\* Answering from a list (None: there is none): what it finds, else the exchange's
\* own search unless the query is too short for it
FromList(s, list) ==
  IF list # None /\ query[s] \in Lists[list] THEN Answer(s, "from list")
  ELSE IF query[s] \notin Short THEN GoesTo(s, "elsewhere")
  ELSE Answer(s, IF list = None THEN "unavailable" ELSE "nothing")

Search(s, q) ==
  /\ doing[s] = "idle" /\ searched < MaxSearched /\ searched' = searched + 1
  /\ query' = [query EXCEPT ![s] = q] /\ doing' = [doing EXCEPT ![s] = "list"]
  /\ reply' = None
  /\ UNCHANGED <<second, edition, held, loadedAt, failedAt, loading, remembered, tries>>

\* _traded, with the lock free: the list held, if young or not to be asked for yet
UseList(s) ==
  /\ doing[s] = "list" /\ loading = None /\ (Young \/ ~MayAsk)
  /\ FromList(s, held)
  /\ UNCHANGED <<second, edition, held, loadedAt, failedAt, loading, remembered, tries, searched>>

\* ...or it is fetched, the lock held meanwhile; the time is read before
BeginLoad(s) ==
  /\ doing[s] = "list" /\ loading = None /\ ~Young /\ MayAsk
  /\ loading' = [who |-> s, since |-> second]
  /\ tries' = Append(tries, [time |-> second, came |-> TRUE])
  /\ reply' = None
  /\ UNCHANGED <<second, edition, held, loadedAt, failedAt, remembered, doing, query, searched>>

Loaded(s) ==
  /\ loading # None /\ loading.who = s
  /\ held' = edition /\ loadedAt' = loading.since /\ failedAt' = None
  /\ loading' = None /\ FromList(s, edition)
  /\ UNCHANGED <<second, edition, remembered, tries, searched>>

LoadFails(s) ==
  /\ loading # None /\ loading.who = s
  /\ failedAt' = loading.since
  /\ tries' = [tries EXCEPT ![Len(tries)].came = FALSE]
  /\ loading' = None /\ FromList(s, held)
  /\ UNCHANGED <<second, edition, held, loadedAt, remembered, searched>>

FromExchange(q) == IF q \in Elsewhere THEN "from search" ELSE "nothing"

\* _search_moex, an answer remembered
Recall(s) ==
  /\ doing[s] = "elsewhere" /\ loading = None /\ query[s] \in Range(remembered)
  /\ remembered' = Append(SelectSeq(remembered, LAMBDA q : q # query[s]), query[s])
  /\ Answer(s, FromExchange(query[s]))
  /\ UNCHANGED <<second, edition, held, loadedAt, failedAt, loading, tries, searched>>

\* ...or not: the lock is let go before the exchange is asked...
AskElsewhere(s) ==
  /\ doing[s] = "elsewhere" /\ loading = None /\ query[s] \notin Range(remembered)
  /\ GoesTo(s, "asking")
  /\ UNCHANGED <<second, edition, held, loadedAt, failedAt, loading, remembered, tries, searched>>

\* ...and taken again to remember; two asking the same at once both put it
Answered(s) ==
  LET order == IF query[s] \in Range(remembered) THEN remembered
               ELSE Append(remembered, query[s]) IN
  /\ doing[s] = "asking" /\ loading = None
  /\ remembered' = IF Len(order) > MaxSearches THEN Tail(order) ELSE order
  /\ Answer(s, FromExchange(query[s]))
  /\ UNCHANGED <<second, edition, held, loadedAt, failedAt, loading, tries, searched>>

SearchFails(s) ==
  /\ doing[s] = "asking" /\ Answer(s, "unavailable")
  /\ UNCHANGED <<second, edition, held, loadedAt, failedAt, loading, remembered, tries, searched>>

NewIssues ==
  /\ edition < Len(Lists) /\ edition' = edition + 1 /\ reply' = None
  /\ UNCHANGED <<second, held, loadedAt, failedAt, loading, remembered, doing, query, tries,
                 searched>>

SecondPasses ==
  /\ second < LastSecond /\ second' = second + 1 /\ reply' = None
  /\ UNCHANGED <<edition, held, loadedAt, failedAt, loading, remembered, doing, query, tries,
                 searched>>

SearchNext ==
  \/ \E s \in Searcher : \/ \E q \in Query : Search(s, q)
                         \/ UseList(s) \/ BeginLoad(s) \/ Loaded(s) \/ LoadFails(s)
                         \/ Recall(s) \/ AskElsewhere(s) \/ Answered(s) \/ SearchFails(s)
  \/ NewIssues \/ SecondPasses

SearchSpec == SearchInit /\ [][SearchNext]_searchVars

-----------------------------------------------------------------------------
\* The exchange is asked for its list sparingly, and a list once had is not lost:
\* after a failed try the next waits ListRetry, after a good one ListTTL; while a
\* list is held no search is told that there is none; and a list past its time is
\* answered from only when a try to renew it failed less than ListRetry ago (or
\* took so long that it began longer ago than that).
ListIsLookedAfter ==
  /\ [] /\ \A i \in 2 .. Len(tries) :
            tries[i].time - tries[i - 1].time
              >= (IF tries[i - 1].came THEN ListTTL ELSE ListRetry)
        /\ (\E i \in DOMAIN tries : tries[i].came /\ (loading = None \/ i < Len(tries)))
             => held # None
  /\ [][\A s \in Searcher :
          /\ reply' = [who |-> s, what |-> "unavailable"] /\ doing[s] # "asking"
               => held = None
          /\ doing[s] = "list" /\ doing'[s] # "list" /\ ~Young /\ loading = None =>
               /\ tries # <<>> /\ ~Last(tries).came
               /\ second - Last(tries).time < ListRetry]_searchVars
=============================================================================
