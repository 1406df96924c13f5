------------------------- MODULE BondPortfoliosProofs -------------------------
(***************************************************************************)
(* Theorems about BondPortfolios, for any people, portfolios, names, lists *)
(* and limits.                                                             *)
(*                                                                         *)
(* What the properties do not say themselves, and rest on: an open request *)
(* is somebody's and the process is up (Opened); a row has an id that was  *)
(* given to it (Rows); and a start that finds something to move is the     *)
(* first one, before any portfolio was made (FirstStart), so that what it  *)
(* makes has neither the name of another portfolio nor is one too many.    *)
(***************************************************************************)
EXTENDS BondPortfolios, FiniteSetTheorems, TLAPS

\* A request under way is somebody's.
Opened == \A r \in Request : at[r] = "open" => up /\ me[r] \in Person

\* A row has an id given to it.
Rows == \A p \in Portfolio : owner[p] # NoOne => p \in born

\* Watchlists wait for the first start only, and nothing was made before it.
FirstStart ==
  /\ up => waiting = {}
  /\ waiting # {} => born = {}
  /\ moved # {} => waiting = {}

\* The limits, of sets that are finite; so are the watchlists' yet to be moved.
Capped ==
  /\ \A u \in Person : IsFiniteSet(Of(u)) /\ Cardinality(Of(u)) <= MaxPortfolios
  /\ \A p \in Portfolio : IsFiniteSet(Bonds(held[p])) /\ Cardinality(Bonds(held[p])) <= MaxBonds
  /\ \A u \in Person : Cardinality(Bonds(listed[u])) <= MaxBonds

Sound == TypeOK /\ Opened /\ Rows /\ FirstStart

Inv == Sound /\ NamesApart /\ Capped

USE DEF row, old, request

\* An empty portfolio is within any limit.
LEMMA NothingHeld == Bonds(Nothing) = {} /\ IsFiniteSet({}) /\ Cardinality({}) = 0
  BY FS_EmptySet DEF Bonds, Nothing

\* The initial states satisfy the inductive invariant.
LEMMA InitInvariant == Init => Inv
<1> SUFFICES ASSUME Init PROVE Inv
  OBVIOUS
<1>1. Nothing \in Holding
  BY ListsAssumption
<1>2. TypeOK
  BY <1>1 DEF Init, TypeOK, NoUndo
<1>3. Opened /\ Rows /\ FirstStart /\ NamesApart
  BY DEF Init, Opened, Rows, FirstStart, NamesApart
<1>4. ASSUME NEW u \in Person
      PROVE  Of(u) = {} /\ Cardinality(Bonds(listed[u])) <= MaxBonds
  <2>1. \A p \in Portfolio : owner[p] = NoOne
    BY DEF Init
  <2>2. Of(u) = {}
    BY <2>1, NoOneAssumption DEF Of
  <2> QED
    BY <2>2 DEF Init
<1>5. \A p \in Portfolio : Bonds(held[p]) = {}
  BY NothingHeld DEF Init
<1>6. Capped
  BY <1>4, <1>5, NothingHeld, LimitsAssumption DEF Capped
<1> QED
  BY <1>2, <1>3, <1>6 DEF Inv, Sound

\* Whoever's requests end, what is left of the requests keeps its types.
LEMMA EndTypes ==
  ASSUME TypeOK, Opened, NEW rs, EndAll(rs)
  PROVE  /\ at' \in [Request -> {"idle", "open", "ended"}]
         /\ me' \in [Request -> Person \cup {NoOne}]
         /\ on' \in [Request -> Portfolio \cup {NoOne}]
         /\ was' \in [Request -> Report \cup {NoOne}]
         /\ \A r \in Request : at'[r] = "open" => r \notin rs /\ up /\ me'[r] \in Person
  BY DEF TypeOK, Opened, EndAll

\* What a change of one portfolio, of the feeds or of nothing leaves typed.
LEMMA DropTypes ==
  ASSUME TypeOK, Rows, NEW ps, Drop(ps)
  PROVE  /\ owner' \in [Portfolio -> Person \cup {NoOne}]
         /\ name' \in [Portfolio -> Name \cup {NoOne}]
         /\ source' \in [Portfolio -> Report \cup {NoOne}]
         /\ held' \in [Portfolio -> Holding]
         /\ \A p \in Portfolio : owner'[p] = NoOne =>
              held'[p] = Nothing /\ name'[p] = NoOne /\ source'[p] = NoOne
         /\ \A p \in Portfolio : owner'[p] # NoOne => p \notin ps /\ p \in born
         /\ \A p \in Portfolio : p \notin ps =>
              owner'[p] = owner[p] /\ name'[p] = name[p] /\ held'[p] = held[p]
  BY ListsAssumption DEF TypeOK, Rows, Drop

\* What the start made: new portfolios of the people who had something to move,
\* one each, and nothing else of anybody's.
LEMMA StartMakes ==
  ASSUME TypeOK, Rows, FirstStart, Start
  PROVE  /\ owner' \in [Portfolio -> Person \cup {NoOne}]
         /\ name' \in [Portfolio -> Name \cup {NoOne}]
         /\ held' \in [Portfolio -> Holding]
         /\ born' \subseteq Portfolio
         /\ \A p \in Portfolio :
              \/ p \in born' \ born /\ owner'[p] \in waiting /\ name'[p] = LegacyName
                   /\ held'[p] = listed[owner'[p]]
              \/ owner'[p] = owner[p] /\ name'[p] = name[p] /\ held'[p] = held[p]
                   /\ p \notin born' \ born
         /\ \A p, q \in born' \ born : owner'[p] = owner'[q] => p = q
         /\ born \subseteq born'
<1> DEFINE movers == {u \in waiting : Bonds(listed[u]) # {}}
<1>1. PICK new \in Injection(movers, Portfolio \ born) :
        LET made == {new[u] : u \in movers}
            mover(p) == CHOOSE u \in movers : new[u] = p IN
        /\ born' = born \cup made
        /\ owner' = [p \in Portfolio |-> IF p \in made THEN mover(p) ELSE owner[p]]
        /\ name' = [p \in Portfolio |-> IF p \in made THEN LegacyName ELSE name[p]]
        /\ held' = [p \in Portfolio |-> IF p \in made THEN listed[mover(p)] ELSE held[p]]
  BY DEF Start
<1> DEFINE made == {new[u] : u \in movers}
           mover(p) == CHOOSE u \in movers : new[u] = p
<1>2. /\ born' = born \cup made
      /\ owner' = [p \in Portfolio |-> IF p \in made THEN mover(p) ELSE owner[p]]
      /\ name' = [p \in Portfolio |-> IF p \in made THEN LegacyName ELSE name[p]]
      /\ held' = [p \in Portfolio |-> IF p \in made THEN listed[mover(p)] ELSE held[p]]
  BY <1>1
<1>3. new \in [movers -> Portfolio \ born]
  BY DEF Injection
<1>4. \A p \in made : mover(p) \in movers /\ new[mover(p)] = p
  OBVIOUS
<1>5. movers \subseteq waiting /\ waiting \subseteq Person
  BY DEF TypeOK
<1>6. made \subseteq Portfolio /\ made \cap born = {}
  BY <1>3
<1> HIDE DEF movers, made, mover
<1>7. \A p \in Portfolio : p \in made => owner'[p] = mover(p) /\ owner'[p] \in waiting
  BY <1>2, <1>4, <1>5
<1>8. \A p, q \in made : owner'[p] = owner'[q] => p = q
  BY <1>4, <1>6, <1>7
<1>9. /\ owner' \in [Portfolio -> Person \cup {NoOne}]
      /\ name' \in [Portfolio -> Name \cup {NoOne}]
  BY <1>2, <1>4, <1>5, LimitsAssumption DEF TypeOK
<1>10. \A u \in waiting : listed[u] \in Holding
  BY <1>5, ListsAssumption DEF TypeOK
<1>11. held' \in [Portfolio -> Holding]
  BY <1>2, <1>4, <1>5, <1>10 DEF TypeOK
<1>12. \A p \in Portfolio : p \in made =>
         name'[p] = LegacyName /\ held'[p] = listed[owner'[p]]
  BY <1>2, <1>7
<1>13. \A p \in Portfolio : p \notin made =>
         owner'[p] = owner[p] /\ name'[p] = name[p] /\ held'[p] = held[p]
  BY <1>2
<1>14. born' \ born = made /\ born' \subseteq Portfolio /\ born \subseteq born'
  BY <1>2, <1>6 DEF TypeOK
<1> QED
  BY <1>7, <1>8, <1>9, <1>11, <1>12, <1>13, <1>14

\* Every step keeps the types, and what they rest on.
LEMMA TypesStep ==
  ASSUME Sound, [Next]_vars
  PROVE  Sound'
<1> USE DEF Sound
<1>1. CASE Start
  <2>1. /\ up' = TRUE /\ waiting' = {} /\ moved' = moved \cup waiting
        /\ feed' \in [Person -> Token \cup {NoOne}]
        /\ UNCHANGED <<access, source, listed, link, at, me, on, was, undo>>
    BY <1>1 DEF Start, TypeOK
  <2>2. \A p \in Portfolio : owner'[p] = NoOne =>
          held'[p] = Nothing /\ name'[p] = NoOne /\ source'[p] = NoOne
    BY <1>1, <2>1, StartMakes, NoOneAssumption DEF TypeOK
  <2>3. TypeOK'
    BY <1>1, <2>1, <2>2, StartMakes DEF TypeOK
  <2>4. Rows'
    BY <1>1, StartMakes DEF Rows
  <2> QED
    BY <2>1, <2>3, <2>4 DEF Opened, FirstStart
<1>2. CASE Stop
  <2>1. EndAll({r \in Request : at[r] = "open"})
    BY <1>2 DEF Stop
  <2>2. TypeOK'
    BY <1>2, <2>1, EndTypes DEF Stop, TypeOK
  <2>3. \A r \in Request : at'[r] # "open"
    BY <2>1 DEF EndAll, TypeOK
  <2> QED
    BY <1>2, <2>2, <2>3 DEF Stop, Opened, Rows, FirstStart
<1>3. ASSUME NEW r \in Request, NEW u \in Person, NEW p \in Portfolio \cup {NoOne}, Enter(r, u, p)
      PROVE  Sound'
  <2>1. TypeOK' /\ Opened'
    BY <1>3 DEF Enter, TypeOK, Opened
  <2> QED
    BY <1>3, <2>1 DEF Enter, Rows, FirstStart
<1>4. ASSUME NEW r \in Request, Ends(r), UNCHANGED <<up, access, old>>,
             born' \subseteq Portfolio, waiting # {} => born' = born,
             owner' \in [Portfolio -> Person \cup {NoOne}],
             name' \in [Portfolio -> Name \cup {NoOne}],
             source' \in [Portfolio -> Report \cup {NoOne}],
             held' \in [Portfolio -> Holding],
             feed' \in [Person -> Token \cup {NoOne}],
             undo' \in [Request ->
               [by : Person, to : Portfolio, key : Key, qty : Quantity \cup {NoQty}] \cup {NoUndo}],
             \A p \in Portfolio : owner'[p] = NoOne =>
               held'[p] = Nothing /\ name'[p] = NoOne /\ source'[p] = NoOne,
             \A p \in Portfolio : owner'[p] # NoOne => p \in born'
      PROVE  Sound'
  <2>1. TypeOK' /\ Opened'
    BY <1>4, EndTypes DEF Ends, TypeOK, Opened
  <2> QED
    BY <1>4, <2>1 DEF Rows, FirstStart
<1>5. ASSUME NEW r \in Request, Gives(r)
      PROVE  Sound'
  BY <1>4, <1>5 DEF Gives, TypeOK, Rows
<1>6. ASSUME NEW r \in Request, Delete(r)
      PROVE  Sound'
  <2>1. Drop({on[r]})
    BY <1>6 DEF Delete
  <2>2. UNCHANGED <<up, access, born, feed, old, undo>> /\ Ends(r)
    BY <1>6 DEF Delete
  <2> QED
    BY <1>4, <2>1, <2>2, DropTypes DEF TypeOK
<1>7. ASSUME NEW r \in Request, NEW n \in Name, Rename(r, n)
      PROVE  Sound'
  <2>1. on[r] \in Portfolio /\ owner[on[r]] # NoOne
    BY <1>7, NoOneAssumption DEF Rename, OnOne, Owns, Opened, TypeOK
  <2> QED
    BY <1>4, <1>7, <2>1 DEF Rename, TypeOK, Rows
<1>8. ASSUME NEW r \in Request, NEW n \in Name, NEW p \in Portfolio, Create(r, p, n)
      PROVE  Sound'
  <2>1. me[r] \in Person /\ p \notin born
    BY <1>8 DEF Create, OnNone, Opened
  <2>2. /\ owner' = [owner EXCEPT ![p] = me[r]] /\ name' = [name EXCEPT ![p] = n]
        /\ born' = born \cup {p} /\ Ends(r)
        /\ UNCHANGED <<up, access, source, held, feed, old, undo>>
    BY <1>8 DEF Create
  <2>3. waiting # {} => born' = born
    BY <1>8 DEF Create, OnNone, Opened, FirstStart
  <2> QED
    BY <1>4, <2>1, <2>2, <2>3, NoOneAssumption DEF TypeOK, Rows
<1>9. ASSUME NEW r \in Request, NEW k \in Key, Remove(r, k)
      PROVE  Sound'
  <2>1. on[r] \in Portfolio /\ owner[on[r]] # NoOne /\ me[r] \in Person
    BY <1>9, NoOneAssumption DEF Remove, OnOne, Owns, Opened, TypeOK
  <2>2. held[on[r]] \in Holding /\ held[on[r]][k] \in Quantity \cup {NoQty}
    BY <1>9, <2>1 DEF Remove, TypeOK, Holding
  <2>3. held' \in [Portfolio -> Holding]
    BY <1>9, <2>1, <2>2 DEF Remove, TypeOK, Holding
  <2>4. undo' \in [Request ->
          [by : Person, to : Portfolio, key : Key, qty : Quantity \cup {NoQty}] \cup {NoUndo}]
    BY <1>9, <2>1, <2>2 DEF Remove, TypeOK
  <2>5. \A p \in Portfolio : p # on[r] => held'[p] = held[p]
    BY <1>9 DEF Remove
  <2> QED
    BY <1>4, <1>9, <2>1, <2>3, <2>4, <2>5 DEF Remove, TypeOK, Rows
<1>10. ASSUME NEW r \in Request, NEW k \in Key, NEW q \in Quantity \cup {NoQty},
              OnOne(r), Owns(r), Insert(r, k, q)
       PROVE  Sound'
  <2>1. on[r] \in Portfolio /\ owner[on[r]] # NoOne
    BY <1>10, NoOneAssumption DEF OnOne, Owns, Opened, TypeOK
  <2>2. held' \in [Portfolio -> Holding]
    BY <1>10, <2>1 DEF Insert, TypeOK, Holding
  <2>3. \A p \in Portfolio : p # on[r] => held'[p] = held[p]
    BY <1>10 DEF Insert
  <2> QED
    BY <1>4, <1>10, <2>1, <2>2, <2>3 DEF Insert, TypeOK, Rows
<1>11. ASSUME NEW r \in Request, NEW k \in Key, NEW q \in Quantity, Add(r, k, q) \/ SetQty(r, k, q)
       PROVE  Sound'
  BY <1>10, <1>11 DEF Add, SetQty, Room
<1>12. ASSUME NEW r \in Request, NEW s \in Request, Restore(r, s)
       PROVE  Sound'
  <2>1. OnOne(r) /\ Owns(r) /\ undo[s].to = on[r] /\ Insert(r, undo[s].key, undo[s].qty)
    BY <1>12 DEF Restore, Room
  <2>2. undo[s] # NoUndo
    BY <2>1 DEF OnOne, NoUndo
  <2>3. undo[s].key \in Key /\ undo[s].qty \in Quantity \cup {NoQty}
    BY <2>2 DEF TypeOK
  <2> QED
    BY <1>10, <2>1, <2>3
<1>13. ASSUME NEW r \in Request, NEW h \in Lists, NEW from \in Report \cup {NoOne},
              NEW update \in BOOLEAN, Replace(r, h, from, update)
       PROVE  Sound'
  <2>1. on[r] \in Portfolio /\ owner[on[r]] # NoOne /\ h \in Holding
    BY <1>13, NoOneAssumption, ListsAssumption DEF Replace, OnOne, Owns, Opened, TypeOK
  <2> QED
    BY <1>4, <1>13, <2>1 DEF Replace, TypeOK, Rows
<1>14. ASSUME NEW r \in Request, NEW t \in Token, NewFeed(r, t)
       PROVE  Sound'
  BY <1>4, <1>14 DEF NewFeed, TypeOK, Rows
<1>15. ASSUME NEW u \in Person, Forget(u)
       PROVE  Sound'
  <2>1. Drop(Of(u))
    BY <1>15 DEF Forget
  <2>2. TypeOK' /\ Opened'
    BY <1>15, <2>1, DropTypes, ListsAssumption DEF Forget, TypeOK, Opened
  <2> QED
    BY <1>15, <2>1, <2>2, DropTypes DEF Forget, Rows, FirstStart
<1>16. CASE UNCHANGED vars
  BY <1>16 DEF vars, TypeOK, Opened, Rows, FirstStart
<1> HIDE DEF Sound
<1> QED
  BY <1>1, <1>2, <1>3, <1>5, <1>6, <1>7, <1>8, <1>9, <1>11, <1>12, <1>13, <1>14, <1>15, <1>16
     DEF Next

\* Names stay apart where nothing but whole rows goes, and where one row gets
\* a name that none of its owner's other rows has.
LEMMA NamesStep ==
  ASSUME Sound, NamesApart, [Next]_vars
  PROVE  NamesApart'
<1> USE DEF Sound, NamesApart
<1>1. CASE Start
  <2>1. \A p \in Portfolio : p \in born' \ born => waiting # {} /\ owner'[p] # NoOne
    BY <1>1, StartMakes, NoOneAssumption DEF TypeOK
  <2>2. \A p \in Portfolio : owner[p] # NoOne => waiting = {}
    BY DEF Rows, FirstStart
  <2> SUFFICES ASSUME NEW p \in Portfolio, NEW q \in Portfolio,
                      p # q, owner'[p] # NoOne, owner'[p] = owner'[q]
               PROVE  name'[p] # name'[q]
    OBVIOUS
  <2>3. CASE p \in born' \ born
    <3>1. q \notin born' \ born
      BY <1>1, <2>3, StartMakes
    <3>2. owner[q] # NoOne
      BY <1>1, <3>1, StartMakes
    <3> QED
      BY <2>1, <2>2, <2>3, <3>2
  <2>4. CASE p \notin born' \ born
    <3>1. owner[p] # NoOne /\ owner'[p] = owner[p] /\ name'[p] = name[p]
      BY <1>1, <2>4, StartMakes
    <3>2. q \notin born' \ born
      BY <2>1, <2>2, <3>1
    <3>3. owner'[q] = owner[q] /\ name'[q] = name[q]
      BY <1>1, <3>2, StartMakes
    <3> QED
      BY <3>1, <3>3
  <2> QED
    BY <2>3, <2>4
<1>2. ASSUME UNCHANGED <<owner, name>>
      PROVE  NamesApart'
  BY <1>2
<1>3. ASSUME NEW ps, Drop(ps)
      PROVE  NamesApart'
  BY <1>3, DropTypes
<1>4. ASSUME NEW r \in Request, NEW n \in Name, Rename(r, n)
      PROVE  NamesApart'
  <2>1. on[r] \in Portfolio /\ owner[on[r]] = me[r] /\ owner' = owner
    BY <1>4 DEF Rename, OnOne, Owns, TypeOK
  <2>2. name' = [name EXCEPT ![on[r]] = n]
    BY <1>4 DEF Rename
  <2>3. \A p \in Portfolio : owner[p] = me[r] /\ p # on[r] => name[p] # n
    BY <1>4 DEF Rename, NameTaken, Of
  <2> QED
    BY <2>1, <2>2, <2>3 DEF TypeOK
<1>5. ASSUME NEW r \in Request, NEW n \in Name, NEW p \in Portfolio, Create(r, p, n)
      PROVE  NamesApart'
  <2>1. owner' = [owner EXCEPT ![p] = me[r]] /\ name' = [name EXCEPT ![p] = n]
    BY <1>5 DEF Create
  <2>2. \A q \in Portfolio : owner[q] = me[r] => name[q] # n
    <3>1. me[r] \in Person
      BY <1>5 DEF Create, OnNone, Opened
    <3>2. \A q \in Portfolio : owner[q] = me[r] => q # NoOne
      BY NoOneAssumption
    <3> QED
      BY <1>5, <3>2 DEF Create, NameTaken, Of
  <2> QED
    BY <2>1, <2>2 DEF TypeOK
<1>6. ASSUME NEW r \in Request, Delete(r)
      PROVE  NamesApart'
  BY <1>3, <1>6 DEF Delete
<1>7. ASSUME NEW u \in Person, Forget(u)
      PROVE  NamesApart'
  BY <1>3, <1>7 DEF Forget
<1>8. CASE Stop \/ UNCHANGED vars
  BY <1>2, <1>8 DEF Stop, vars
<1>9. ASSUME NEW r \in Request,
             \/ Gives(r)
             \/ \E u \in Person, p \in Portfolio \cup {NoOne} : Enter(r, u, p)
             \/ \E k \in Key : Remove(r, k)
                            \/ \E q \in Quantity : Add(r, k, q) \/ SetQty(r, k, q)
             \/ \E s \in Request : Restore(r, s)
             \/ \E h \in Lists, from \in Report \cup {NoOne}, update \in BOOLEAN :
                  Replace(r, h, from, update)
             \/ \E t \in Token : NewFeed(r, t)
      PROVE  NamesApart'
  <2>1. UNCHANGED <<owner, name>>
    BY <1>9 DEF Gives, Enter, Remove, Add, SetQty, Insert, Restore, Replace, NewFeed
  <2> QED
    BY <1>2, <2>1
<1> HIDE DEF Sound, NamesApart
<1> QED
  BY <1>1, <1>4, <1>5, <1>6, <1>7, <1>8, <1>9 DEF Next

\* One more within a limit that is not reached.
LEMMA OneMore ==
  ASSUME NEW S, IsFiniteSet(S), NEW x, NEW n \in Nat, Cardinality(S) < n
  PROVE  IsFiniteSet(S \cup {x}) /\ Cardinality(S \cup {x}) <= n
<1>1. Cardinality(S) \in Nat
  BY FS_CardinalityType
<1>2. IsFiniteSet(S \cup {x})
      /\ Cardinality(S \cup {x}) = IF x \in S THEN Cardinality(S) ELSE Cardinality(S) + 1
  BY FS_AddElement
<1> QED
  BY <1>1, <1>2

\* A part of what is within a limit is within it.
LEMMA Fewer ==
  ASSUME NEW S, IsFiniteSet(S), NEW T \in SUBSET S, NEW n \in Nat, Cardinality(S) <= n
  PROVE  IsFiniteSet(T) /\ Cardinality(T) <= n
  BY FS_Subset, FS_CardinalityType

\* Everybody's portfolios stay within the limit: a creation looks, and the start
\* that moves anything is the first.
LEMMA PortfoliosStep ==
  ASSUME Sound, Capped, [Next]_vars, NEW u \in Person
  PROVE  IsFiniteSet(Of(u)') /\ Cardinality(Of(u)') <= MaxPortfolios
<1> USE DEF Sound
<1>0. IsFiniteSet(Of(u)) /\ Cardinality(Of(u)) <= MaxPortfolios /\ MaxPortfolios \in Nat
      /\ 1 <= MaxPortfolios
  BY LimitsAssumption DEF Capped
<1>1. ASSUME Of(u)' \subseteq Of(u)
      PROVE  IsFiniteSet(Of(u)') /\ Cardinality(Of(u)') <= MaxPortfolios
  BY <1>0, <1>1, Fewer
<1>2. ASSUME UNCHANGED owner
      PROVE  IsFiniteSet(Of(u)') /\ Cardinality(Of(u)') <= MaxPortfolios
  BY <1>1, <1>2 DEF Of
<1>3. CASE Start
  <2>1. CASE waiting = {}
    <3>1. \A p \in Portfolio : owner'[p] = owner[p]
      BY <1>3, <2>1, StartMakes
    <3> QED
      BY <1>1, <3>1 DEF Of
  <2>2. CASE waiting # {}
    <3>1. \A p \in Portfolio : owner[p] = NoOne
      BY <2>2 DEF Rows, FirstStart
    <3>2. \A p \in Of(u)' : p \in born' \ born /\ owner'[p] = u
      BY <1>3, <3>1, StartMakes, NoOneAssumption DEF Of
    <3>3. \A p, q \in Of(u)' : p = q
      BY <1>3, <3>2, StartMakes
    <3>4. CASE Of(u)' = {}
      BY <1>0, <3>4, FS_EmptySet
    <3>5. CASE Of(u)' # {}
      <4>1. PICK p : Of(u)' = {p}
        BY <3>3, <3>5
      <4> QED
        BY <1>0, <4>1, FS_Singleton
    <3> QED
      BY <3>4, <3>5
  <2> QED
    BY <2>1, <2>2
<1>4. ASSUME NEW r \in Request, NEW n \in Name, NEW p \in Portfolio, Create(r, p, n)
      PROVE  IsFiniteSet(Of(u)') /\ Cardinality(Of(u)') <= MaxPortfolios
  <2>1. owner' = [owner EXCEPT ![p] = me[r]] /\ Cardinality(Of(me[r])) < MaxPortfolios
    BY <1>4 DEF Create
  <2>2. CASE u = me[r]
    <3>1. Of(u)' = Of(u) \cup {p}
      BY <2>1, <2>2 DEF Of, TypeOK
    <3>2. IsFiniteSet(Of(u) \cup {p}) /\ Cardinality(Of(u) \cup {p}) <= MaxPortfolios
      BY <1>0, <2>1, <2>2, OneMore
    <3> QED
      BY <3>1, <3>2
  <2>3. CASE u # me[r]
    BY <1>1, <2>1, <2>3 DEF Of, TypeOK
  <2> QED
    BY <2>2, <2>3
<1>5. ASSUME NEW ps, Drop(ps)
      PROVE  IsFiniteSet(Of(u)') /\ Cardinality(Of(u)') <= MaxPortfolios
  <2>1. \A p \in Portfolio : owner'[p] = u => owner[p] = u
    BY <1>5, NoOneAssumption DEF Drop
  <2> QED
    BY <1>1, <2>1 DEF Of
<1>6. ASSUME NEW r \in Request, Delete(r)
      PROVE  IsFiniteSet(Of(u)') /\ Cardinality(Of(u)') <= MaxPortfolios
  BY <1>5, <1>6 DEF Delete
<1>7. ASSUME NEW v \in Person, Forget(v)
      PROVE  IsFiniteSet(Of(u)') /\ Cardinality(Of(u)') <= MaxPortfolios
  BY <1>5, <1>7 DEF Forget
<1>8. CASE Stop \/ UNCHANGED vars
  BY <1>2, <1>8 DEF Stop, vars
<1>9. ASSUME NEW r \in Request,
             \/ Gives(r)
             \/ \E v \in Person, p \in Portfolio \cup {NoOne} : Enter(r, v, p)
             \/ \E n \in Name : Rename(r, n)
             \/ \E k \in Key : Remove(r, k)
                            \/ \E q \in Quantity : Add(r, k, q) \/ SetQty(r, k, q)
             \/ \E s \in Request : Restore(r, s)
             \/ \E h \in Lists, from \in Report \cup {NoOne}, update \in BOOLEAN :
                  Replace(r, h, from, update)
             \/ \E t \in Token : NewFeed(r, t)
      PROVE  IsFiniteSet(Of(u)') /\ Cardinality(Of(u)') <= MaxPortfolios
  <2>1. UNCHANGED owner
    BY <1>9 DEF Gives, Enter, Rename, Remove, Add, SetQty, Insert, Restore, Replace, NewFeed
  <2> QED
    BY <1>2, <2>1
<1> HIDE DEF Sound
<1> QED
  BY <1>3, <1>4, <1>6, <1>7, <1>8, <1>9 DEF Next

\* Every portfolio's bonds stay within the limit: an addition looks, under the
\* transaction that makes it.
LEMMA HoldingsStep ==
  ASSUME Sound, Capped, [Next]_vars, NEW p \in Portfolio
  PROVE  IsFiniteSet(Bonds(held[p])') /\ Cardinality(Bonds(held[p])') <= MaxBonds
<1> DEFINE Now == Bonds(held[p])
<1> USE DEF Sound
<1>0. IsFiniteSet(Now) /\ Cardinality(Now) <= MaxBonds /\ MaxBonds \in Nat
  BY LimitsAssumption DEF Capped
<1>1. ASSUME Bonds(held'[p]) \subseteq Now
      PROVE  IsFiniteSet(Now') /\ Cardinality(Now') <= MaxBonds
  BY <1>0, <1>1, Fewer
<1>2. ASSUME UNCHANGED held
      PROVE  IsFiniteSet(Now') /\ Cardinality(Now') <= MaxBonds
  BY <1>1, <1>2
<1>3. CASE Start
  <2>1. CASE held'[p] = held[p]
    BY <1>1, <2>1
  <2>2. CASE held'[p] # held[p]
    <3>1. PICK u \in Person : held'[p] = listed[u]
      BY <1>3, <2>2, StartMakes DEF TypeOK
    <3>2. IsFiniteSet(Bonds(listed[u])) /\ Cardinality(Bonds(listed[u])) <= MaxBonds
      BY ListsAssumption DEF Capped, TypeOK
    <3> QED
      BY <3>1, <3>2
  <2> QED
    BY <2>1, <2>2
<1>4. ASSUME NEW ps, Drop(ps)
      PROVE  IsFiniteSet(Now') /\ Cardinality(Now') <= MaxBonds
  <2>1. held'[p] = held[p] \/ held'[p] = Nothing
    BY <1>4 DEF Drop
  <2>2. Bonds(held'[p]) \subseteq Now
    BY <2>1, NothingHeld
  <2> QED
    BY <1>1, <2>2
<1>5. ASSUME NEW r \in Request, NEW k \in Key, NEW q \in Quantity \cup {NoQty}, NEW aliases,
             OnOne(r), Room(r, k, aliases), Insert(r, k, q)
      PROVE  IsFiniteSet(Now') /\ Cardinality(Now') <= MaxBonds
  <2>1. held' = [held EXCEPT ![on[r]][k] = q]
    BY <1>5 DEF Insert
  <2>2. CASE p # on[r]
    BY <1>1, <2>1, <2>2 DEF TypeOK
  <2>3. CASE p = on[r]
    <3>1. Cardinality(Now) < MaxBonds
      BY <1>5, <2>3 DEF Room
    <3>2. held'[p] = [held[p] EXCEPT ![k] = q]
      BY <2>1, <2>3 DEF TypeOK
    <3>3. Bonds(held'[p]) \subseteq Now \cup {k}
      BY <3>2 DEF Bonds, TypeOK, Holding
    <3>4. IsFiniteSet(Now \cup {k}) /\ Cardinality(Now \cup {k}) <= MaxBonds
      BY <1>0, <3>1, OneMore
    <3> QED
      BY <1>0, <3>3, <3>4, Fewer
  <2> QED
    BY <2>2, <2>3
<1>6. ASSUME NEW r \in Request, NEW k \in Key, NEW q \in Quantity, Add(r, k, q)
      PROVE  IsFiniteSet(Now') /\ Cardinality(Now') <= MaxBonds
  BY <1>5, <1>6 DEF Add
<1>7. ASSUME NEW r \in Request, NEW s \in Request, Restore(r, s)
      PROVE  IsFiniteSet(Now') /\ Cardinality(Now') <= MaxBonds
  <2>1. OnOne(r) /\ undo[s].to = on[r] /\ Room(r, undo[s].key, {})
        /\ Insert(r, undo[s].key, undo[s].qty)
    BY <1>7 DEF Restore
  <2>2. undo[s] # NoUndo
    BY <2>1 DEF OnOne, NoUndo
  <2>3. undo[s].key \in Key /\ undo[s].qty \in Quantity \cup {NoQty}
    BY <2>2 DEF TypeOK
  <2> QED
    BY <1>5, <2>1, <2>3
<1>8. ASSUME NEW r \in Request, NEW k \in Key,
             Remove(r, k) \/ \E q \in Quantity : SetQty(r, k, q)
      PROVE  IsFiniteSet(Now') /\ Cardinality(Now') <= MaxBonds
  <2>1. PICK q : held' = [held EXCEPT ![on[r]][k] = q] /\ held[on[r]][k] # Absent
    BY <1>8 DEF Remove, SetQty, Insert
  <2>2. Bonds(held'[p]) \subseteq Now
    BY <2>1 DEF Bonds, TypeOK, Holding
  <2> QED
    BY <1>1, <2>2
<1>9. ASSUME NEW r \in Request, NEW h \in Lists, NEW from \in Report \cup {NoOne},
             NEW update \in BOOLEAN, Replace(r, h, from, update)
      PROVE  IsFiniteSet(Now') /\ Cardinality(Now') <= MaxBonds
  <2>1. held' = [held EXCEPT ![on[r]] = h] /\ Cardinality(Bonds(h)) <= MaxBonds
    BY <1>9 DEF Replace
  <2>2. held'[p] = held[p] \/ held'[p] = h
    BY <2>1 DEF TypeOK
  <2> QED
    BY <1>1, <2>1, <2>2, ListsAssumption
<1>10. ASSUME NEW r \in Request, Delete(r)
       PROVE  IsFiniteSet(Now') /\ Cardinality(Now') <= MaxBonds
  BY <1>4, <1>10 DEF Delete
<1>11. ASSUME NEW u \in Person, Forget(u)
       PROVE  IsFiniteSet(Now') /\ Cardinality(Now') <= MaxBonds
  BY <1>4, <1>11 DEF Forget
<1>12. CASE Stop \/ UNCHANGED vars
  BY <1>2, <1>12 DEF Stop, vars
<1>13. ASSUME NEW r \in Request,
              \/ Gives(r)
              \/ \E u \in Person, q \in Portfolio \cup {NoOne} : Enter(r, u, q)
              \/ \E n \in Name : Rename(r, n) \/ \E q \in Portfolio : Create(r, q, n)
              \/ \E t \in Token : NewFeed(r, t)
       PROVE  IsFiniteSet(Now') /\ Cardinality(Now') <= MaxBonds
  <2>1. UNCHANGED held
    BY <1>13 DEF Gives, Enter, Rename, Create, NewFeed
  <2> QED
    BY <1>2, <2>1
<1> HIDE DEF Sound
<1> QED
  BY <1>3, <1>6, <1>7, <1>8, <1>9, <1>10, <1>11, <1>12, <1>13 DEF Next

\* The watchlists yet to be moved stay as they were, or are forgotten.
LEMMA ListedStep ==
  ASSUME Sound, Capped, [Next]_vars, NEW u \in Person
  PROVE  Cardinality(Bonds(listed[u])') <= MaxBonds
<1>1. ASSUME NEW v \in Person, Forget(v)
      PROVE  listed'[u] = listed[u] \/ listed'[u] = Nothing
  BY <1>1 DEF Forget, Sound, TypeOK
<1>2. ASSUME NEW r \in Request,
             \/ Gives(r) \/ Delete(r)
             \/ \E v \in Person, p \in Portfolio \cup {NoOne} : Enter(r, v, p)
             \/ \E n \in Name : Rename(r, n) \/ \E p \in Portfolio : Create(r, p, n)
             \/ \E k \in Key : Remove(r, k)
                            \/ \E q \in Quantity : Add(r, k, q) \/ SetQty(r, k, q)
             \/ \E s \in Request : Restore(r, s)
             \/ \E h \in Lists, from \in Report \cup {NoOne}, update \in BOOLEAN :
                  Replace(r, h, from, update)
             \/ \E t \in Token : NewFeed(r, t)
      PROVE  UNCHANGED listed
  BY <1>2 DEF Gives, Delete, Enter, Rename, Create, Remove, Add, SetQty, Insert, Restore, Replace, NewFeed
<1>3. ASSUME Start \/ Stop \/ UNCHANGED vars
      PROVE  UNCHANGED listed
  BY <1>3 DEF Start, Stop, vars
<1>4. listed'[u] = listed[u] \/ listed'[u] = Nothing
  BY <1>1, <1>2, <1>3 DEF Next
<1> QED
  BY <1>4, NothingHeld, LimitsAssumption DEF Capped

\* The inductive invariant.
THEOREM Invariant == Spec => []Inv
<1>1. Init => Inv
  BY InitInvariant
<1>2. Inv /\ [Next]_vars => Inv'
  <2> SUFFICES ASSUME Inv, [Next]_vars PROVE Inv'
    OBVIOUS
  <2>1. Sound' /\ NamesApart'
    BY TypesStep, NamesStep DEF Inv
  <2>2. \A u \in Person : IsFiniteSet(Of(u)') /\ Cardinality(Of(u)') <= MaxPortfolios
    BY PortfoliosStep DEF Inv
  <2>3. \A p \in Portfolio : IsFiniteSet(Bonds(held[p])') /\ Cardinality(Bonds(held[p])') <= MaxBonds
    BY HoldingsStep DEF Inv
  <2>4. \A u \in Person : Cardinality(Bonds(listed[u])') <= MaxBonds
    BY ListedStep DEF Inv
  <2>5. Capped'
    BY <2>2, <2>3, <2>4 DEF Capped
  <2> QED
    BY <2>1, <2>5 DEF Inv
<1> QED
  BY <1>1, <1>2, PTL DEF Spec

\* The tables and the requests stay within their types, and a row that is gone
\* has left nothing behind.
THEOREM TablesTyped == Spec => []TypeOK
<1>1. Inv => TypeOK
  BY DEF Inv, Sound
<1> QED
  BY <1>1, Invariant, PTL

\* A person has no two portfolios of one name (_name_taken, _move_watchlists).
THEOREM NamesCorrect == Spec => []NamesApart
<1>1. Inv => NamesApart
  BY DEF Inv
<1> QED
  BY <1>1, Invariant, PTL

\* Neither a person's portfolios nor a portfolio's bonds pass their limit, whatever
\* was found free before (create, add, import, update).
THEOREM CapsCorrect == Spec => []WithinCaps
<1>1. Inv => WithinCaps
  BY DEF Inv, Capped, WithinCaps
<1> QED
  BY <1>1, Invariant, PTL

\* A portfolio changes at the hands of its owner's requests, or because the
\* owner's access is taken away (_owns, forget).
THEOREM RowsCorrect == Spec => OnlyTheirRows
<1> DEFINE Theirs == \A p \in Portfolio :
       owner[p] # NoOne /\ <<owner[p], name[p], source[p], held[p]>>'
                             # <<owner[p], name[p], source[p], held[p]>> =>
         \/ \E r \in Request : at[r] = "open" /\ at'[r] = "ended" /\ me[r] = owner[p]
         \/ owner[p] \in access \ access'
<1>1. Inv /\ [Next]_vars => [Theirs]_vars
  <2> SUFFICES ASSUME Inv, [Next]_vars, NEW p \in Portfolio, owner[p] # NoOne,
                      <<owner[p], name[p], source[p], held[p]>>'
                        # <<owner[p], name[p], source[p], held[p]>>
               PROVE  \/ \E r \in Request : at[r] = "open" /\ at'[r] = "ended" /\ me[r] = owner[p]
                      \/ owner[p] \in access \ access'
    OBVIOUS
  <2> USE DEF Inv, Sound
  <2>1. ASSUME NEW r \in Request, at[r] = "open", Ends(r), me[r] = owner[p]
        PROVE  \E q \in Request : at[q] = "open" /\ at'[q] = "ended" /\ me[q] = owner[p]
    BY <2>1 DEF Ends, EndAll
  <2>2. CASE Start
    <3>1. waiting = {}
      BY DEF Rows, FirstStart
    <3>2. owner'[p] = owner[p] /\ name'[p] = name[p] /\ held'[p] = held[p]
      BY <2>2, <3>1, StartMakes
    <3>3. source'[p] = source[p]
      BY <2>2 DEF Start
    <3> QED
      BY <3>2, <3>3
  <2>3. ASSUME NEW r \in Request, Delete(r)
        PROVE  at[r] = "open" /\ Ends(r) /\ me[r] = owner[p]
    BY <2>3 DEF Delete, OnOne, Owns, Drop
  <2>4. ASSUME NEW r \in Request, NEW n \in Name, Rename(r, n)
        PROVE  at[r] = "open" /\ Ends(r) /\ me[r] = owner[p]
    BY <2>4 DEF Rename, OnOne, Owns, TypeOK
  <2>5. ASSUME NEW r \in Request, NEW n \in Name, NEW q \in Portfolio, Create(r, q, n)
        PROVE  FALSE
    BY <2>5 DEF Create, Rows, TypeOK
  <2>6. ASSUME NEW r \in Request, NEW k \in Key,
               Remove(r, k) \/ \E q \in Quantity : Add(r, k, q) \/ SetQty(r, k, q)
        PROVE  at[r] = "open" /\ Ends(r) /\ me[r] = owner[p]
    BY <2>6 DEF Remove, Add, SetQty, Room, Insert, OnOne, Owns, TypeOK
  <2>7. ASSUME NEW r \in Request, NEW s \in Request, Restore(r, s)
        PROVE  at[r] = "open" /\ Ends(r) /\ me[r] = owner[p]
    BY <2>7 DEF Restore, Room, Insert, OnOne, Owns, TypeOK
  <2>8. ASSUME NEW r \in Request, NEW h \in Lists, NEW from \in Report \cup {NoOne},
               NEW update \in BOOLEAN, Replace(r, h, from, update)
        PROVE  at[r] = "open" /\ Ends(r) /\ me[r] = owner[p]
    BY <2>8 DEF Replace, OnOne, Owns, TypeOK
  <2>9. ASSUME NEW u \in Person, Forget(u)
        PROVE  owner[p] \in access \ access'
    BY <2>9 DEF Forget, Drop, Of
  <2>10. ASSUME NEW r \in Request,
                \/ Gives(r) \/ \E t \in Token : NewFeed(r, t)
                \/ \E u \in Person, q \in Portfolio \cup {NoOne} : Enter(r, u, q)
         PROVE  FALSE
    BY <2>10 DEF Gives, NewFeed, Enter
  <2>11. ~(Stop \/ UNCHANGED vars)
    BY DEF Stop, vars
  <2> HIDE DEF Inv, Sound
  <2> QED
    BY <2>1, <2>2, <2>3, <2>4, <2>5, <2>6, <2>7, <2>8, <2>9, <2>10, <2>11 DEF Next
<1> QED
  BY <1>1, Invariant, PTL DEF Spec, OnlyTheirRows

\* A start adds nothing for people whose watchlist an earlier start moved
\* (_move_watchlists).
THEOREM MovesCorrect == Spec => StartsMoveOnce
<1> DEFINE Once == \A u \in moved : ~up /\ up' /\ UNCHANGED access =>
       Of(u) = {p \in Portfolio : owner'[p] = u} /\ feed'[u] = feed[u]
<1>1. Inv /\ [Next]_vars => [Once]_vars
  <2> SUFFICES ASSUME Inv, [Next]_vars, NEW u \in moved, ~up, up'
               PROVE  Of(u) = {p \in Portfolio : owner'[p] = u} /\ feed'[u] = feed[u]
    OBVIOUS
  <2>1. Start
    <3>1. ASSUME NEW r \in Request,
                 \/ Gives(r) \/ Delete(r)
                 \/ \E n \in Name : Rename(r, n) \/ \E p \in Portfolio : Create(r, p, n)
                 \/ \E k \in Key : Remove(r, k)
                                \/ \E q \in Quantity : Add(r, k, q) \/ SetQty(r, k, q)
                 \/ \E s \in Request : Restore(r, s)
                 \/ \E h \in Lists, from \in Report \cup {NoOne}, update \in BOOLEAN :
                      Replace(r, h, from, update)
                 \/ \E t \in Token : NewFeed(r, t)
          PROVE  UNCHANGED up
      BY <3>1 DEF Gives, Delete, Rename, Create, Remove, Add, SetQty, Insert, Restore, Replace, NewFeed
    <3>2. ~Stop /\ ~UNCHANGED vars
      BY DEF Stop, vars
    <3>3. ASSUME NEW r \in Request, NEW v \in Person, NEW p \in Portfolio \cup {NoOne}
          PROVE  ~Enter(r, v, p)
      BY DEF Enter
    <3>4. ASSUME NEW v \in Person PROVE ~Forget(v)
      BY DEF Forget
    <3> QED
      BY <3>1, <3>2, <3>3, <3>4 DEF Next
  <2>2. waiting = {} /\ u \in Person
    BY DEF Inv, Sound, FirstStart, TypeOK
  <2>3. \A p \in Portfolio : owner'[p] = owner[p]
    BY <2>1, <2>2, StartMakes DEF Inv, Sound
  <2>4. feed'[u] = feed[u]
    BY <2>1, <2>2 DEF Start
  <2> QED
    BY <2>3, <2>4 DEF Of
<1> QED
  BY <1>1, Invariant, PTL DEF Spec, StartsMoveOnce
=============================================================================
