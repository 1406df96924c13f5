------------------------------ MODULE Blocklist ------------------------------
(***************************************************************************)
(* BlocklistStore of api/blocklist.py: the one shared list of tickers, a   *)
(* table of the jobs database.  Anyone may edit it.  An add reads the list *)
(* before its INSERT opens a transaction, so two adds may cross; a ticker  *)
(* another add has put in meanwhile fails the whole INSERT.  A ticker is   *)
(* opaque; Misspelt are those the pattern refuses.                         *)
(***************************************************************************)
EXTENDS Optional

CONSTANTS Ticker, Misspelt, Visitor,
          MaxListed     \* MAX_ENTRIES

ASSUME ListedAssumption == MaxListed \in Nat /\ Misspelt \subseteq Ticker /\ IsFiniteSet(Ticker)
ASSUME NoAddAssumption == None \notin [have : SUBSET Ticker, new : SUBSET Ticker]

VARIABLES
  listed,   \* the rows of the table
  adding,   \* what each visitor's add has read and is about to insert, or None
  told,     \* what each visitor's last edit was answered
  crossed   \* visitors another add committed under, since they read (history)

listVars == <<listed, adding, told, crossed>>

ListInit ==
  /\ listed = {} /\ crossed = {}
  /\ adding = [v \in Visitor |-> None] /\ told = [v \in Visitor |-> "nothing"]

\* Variant: only what is listed already is counted against the cap.
RoomForSome(have, new) == Cardinality(have) < MaxListed \/ new = {}

RoomFor(have, new) == Cardinality(have) + Cardinality(new) <= MaxListed

\* parse_tickers refuses all of it for one entry that is no ticker
RefuseTypo(v, typed) ==
  /\ adding[v] = None /\ typed \cap Misspelt # {}
  /\ told' = [told EXCEPT ![v] = "not a ticker"]
  /\ UNCHANGED <<listed, adding, crossed>>

\* add, to its SELECT: what is listed already is left out, and the rest
\* refused when it would not fit
ReadList(v, typed) ==
  LET new == typed \ listed IN
  /\ adding[v] = None /\ typed # {} /\ typed \cap Misspelt = {}
  /\ IF RoomFor(listed, new)
     THEN /\ adding' = [adding EXCEPT ![v] = [have |-> listed, new |-> new]]
          /\ told' = [told EXCEPT ![v] = "nothing"]
     ELSE /\ told' = [told EXCEPT ![v] = "full"]
          /\ UNCHANGED adding
  /\ crossed' = crossed \ {v}
  /\ UNCHANGED listed

\* its INSERT, in a transaction: every ticker or, on a primary key clash, none
InsertNew(v) ==
  /\ adding[v] # None
  /\ IF adding[v].new \cap listed = {}
     THEN /\ listed' = listed \cup adding[v].new
          /\ told' = [told EXCEPT ![v] = "added"]
          /\ crossed' = crossed \cup {w \in Visitor \ {v} : adding[w] # None}
     ELSE /\ told' = [told EXCEPT ![v] = "error"]
          /\ UNCHANGED <<listed, crossed>>
  /\ adding' = [adding EXCEPT ![v] = None]

RemoveTicker(v, t) ==
  /\ adding[v] = None
  /\ listed' = listed \ {t}
  /\ told' = [told EXCEPT ![v] = "nothing"]
  /\ UNCHANGED <<adding, crossed>>

ListNext ==
  \E v \in Visitor :
    \/ \E typed \in SUBSET Ticker : RefuseTypo(v, typed) \/ ReadList(v, typed)
    \/ InsertNew(v)
    \/ \E t \in Ticker \ Misspelt : RemoveTicker(v, t)

ListSpec == ListInit /\ [][ListNext]_listVars

-----------------------------------------------------------------------------
\* One visitor alone never takes the list past its cap: an insert that leaves it
\* longer than the cap is one that another add committed under, between its read
\* and its insert.  And an insert that clashes was crossed too: nobody is
\* answered with an error for tickers they could see were not listed.
PastCapOnlyCrossing ==
  [][\A v \in Visitor :
       adding[v] # None /\ adding'[v] = None
         /\ (Cardinality(listed') > MaxListed \/ told'[v] = "error") =>
           v \in crossed]_listVars
=============================================================================
