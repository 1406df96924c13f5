--------------------------- MODULE BondPortfolios ---------------------------
(***************************************************************************)
(* Bond portfolios: BondPortfolioStore of api/bond_portfolios.py and the   *)
(* routes of api/app.py that use it.                                       *)
(*                                                                         *)
(* A request first looks at the portfolio its address names (Enter), then  *)
(* asks MOEX or reads a file, then makes one change in a transaction taken *)
(* up front, which looks again.  Between the two, other requests change    *)
(* the tables, an admin takes the person's access away, the process dies.  *)
(*                                                                         *)
(* A bond is listed under the ISIN or under the MOEX code: two keys, each  *)
(* the other's alias.  A list that is imported names a bond under one of   *)
(* them.  Names are as _name_taken compares them.                          *)
(***************************************************************************)
EXTENDS Integers, FiniteSets, Functions

CONSTANTS Person, Portfolio, Name, Key, Request, Token, Report,
          Aliases,        \* the other keys of the bond a key stands for
          Lists,          \* what a file or an old watchlist says is held
          Quantity,       \* quantities valid_qty accepts
          LegacyName,     \* "Main"
          MaxBonds, MaxPortfolios,
          NoOne           \* None

Absent == -1   \* no row
NoQty == 0     \* a row whose qty is NULL
Holding == [Key -> Quantity \cup {Absent, NoQty}]
Nothing == [k \in Key |-> Absent]
Bonds(h) == {k \in Key : h[k] # Absent}

ASSUME NoOneAssumption ==
  NoOne \notin Person \cup Portfolio \cup Name \cup Request \cup Token \cup Report
ASSUME AliasAssumption ==
  /\ Aliases \in [Key -> SUBSET Key]
  /\ \A k \in Key : k \notin Aliases[k] /\ \A j \in Aliases[k] : k \in Aliases[j]
ASSUME LimitsAssumption ==
  /\ MaxBonds \in Nat \ {0} /\ MaxPortfolios \in Nat \ {0}
  /\ Quantity \subseteq Nat \ {0} /\ LegacyName \in Name

ASSUME ListsAssumption ==
  /\ Nothing \in Lists /\ Lists \subseteq Holding
  /\ \A h \in Lists : IsFiniteSet(Bonds(h))
  /\ \A h \in Lists, k \in Key : k \in Bonds(h) => Aliases[k] \cap Bonds(h) = {}

VARIABLES
  up,       \* the web process has opened the store
  access,   \* people who may sign in
  born,     \* portfolio ids ever given (uuid4: never twice)
  owner,    \* bond_portfolios.user_id, NoOne for no row
  name,     \* bond_portfolios.name
  source,   \* the report number in bond_portfolios.source, NoOne for none
  held,     \* bond_holdings
  feed,     \* bond_feeds: the token whose hash is stored
  waiting,  \* bond_watchlists rows not moved yet...
  listed,   \* ...the bonds in them...
  link,     \* ...and their feeds
  moved,    \* people whose row a start has moved (history)
  at,       \* control point of a request
  me,       \* who it is by
  on,       \* the portfolio it names
  was,      \* that portfolio's source when the request looked
  undo      \* what the page a removal answered with offers to put back

row == <<owner, name, source>>
old == <<waiting, listed, link, moved>>
request == <<me, on, was>>
vars == <<up, access, born, row, held, feed, old, at, request, undo>>

NoUndo == [by |-> NoOne, to |-> NoOne, key |-> NoOne, qty |-> Absent]

Init ==
  /\ up = FALSE /\ access = Person /\ born = {}
  /\ owner = [p \in Portfolio |-> NoOne] /\ name = [p \in Portfolio |-> NoOne]
  /\ source = [p \in Portfolio |-> NoOne] /\ held = [p \in Portfolio |-> Nothing]
  /\ feed = [u \in Person |-> NoOne]
  /\ waiting \in SUBSET Person /\ moved = {}
  /\ listed \in [Person -> {h \in Lists : Cardinality(Bonds(h)) <= MaxBonds}]
  /\ link \in {l \in [Person -> Token \cup {NoOne}] :
                 \A u, v \in Person : u # v /\ l[u] # NoOne => l[u] # l[v]}
  /\ at = [r \in Request |-> "idle"] /\ me = [r \in Request |-> NoOne]
  /\ on = [r \in Request |-> NoOne] /\ was = [r \in Request |-> NoOne]
  /\ undo = [r \in Request |-> NoUndo]

Of(u) == {p \in Portfolio : owner[p] = u}

\* _owns, and the "WHERE ... user_id" of the other statements
Owns(r) == owner[on[r]] = me[r]

\* _name_taken
NameTaken(u, n, otherThan) == \E p \in Of(u) \ {otherThan} : name[p] = n

\* the response is sent and what the request held is gone
EndAll(rs) ==
  /\ at' = [r \in Request |-> IF r \in rs THEN "ended" ELSE at[r]]
  /\ me' = [r \in Request |-> IF r \in rs THEN NoOne ELSE me[r]]
  /\ on' = [r \in Request |-> IF r \in rs THEN NoOne ELSE on[r]]
  /\ was' = [r \in Request |-> IF r \in rs THEN NoOne ELSE was[r]]

Ends(r) == EndAll({r})
-----------------------------------------------------------------------------
(* The process *)

Stop ==
  /\ up /\ up' = FALSE
  /\ EndAll({r \in Request : at[r] = "open"})
  /\ UNCHANGED <<access, born, row, held, feed, old, undo>>

\* Variant: moved_at is not set, so the next start moves the row again.
StartAgain ==
  LET movers == {u \in waiting : Bonds(listed[u]) # {}} IN
  /\ ~up /\ up' = TRUE
  /\ \E new \in Injection(movers, Portfolio \ born) :
       LET made == {new[u] : u \in movers}
           mover(p) == CHOOSE u \in movers : new[u] = p IN
       /\ born' = born \cup made
       /\ owner' = [p \in Portfolio |-> IF p \in made THEN mover(p) ELSE owner[p]]
       /\ name' = [p \in Portfolio |-> IF p \in made THEN LegacyName ELSE name[p]]
       /\ held' = [p \in Portfolio |-> IF p \in made THEN listed[mover(p)] ELSE held[p]]
  /\ feed' = [u \in Person |->
                IF u \in waiting /\ feed[u] = NoOne THEN link[u] ELSE feed[u]]
  /\ waiting' = waiting /\ moved' = moved \cup waiting
  /\ UNCHANGED <<access, source, listed, link, at, request, undo>>

\* _move_watchlists, one transaction: each watchlist not moved yet becomes a
\* portfolio, and its link a feed unless there is one already
Start ==
  LET movers == {u \in waiting : Bonds(listed[u]) # {}} IN
  /\ ~up /\ up' = TRUE
  /\ \E new \in Injection(movers, Portfolio \ born) :
       LET made == {new[u] : u \in movers}
           mover(p) == CHOOSE u \in movers : new[u] = p IN
       /\ born' = born \cup made
       /\ owner' = [p \in Portfolio |-> IF p \in made THEN mover(p) ELSE owner[p]]
       /\ name' = [p \in Portfolio |-> IF p \in made THEN LegacyName ELSE name[p]]
       /\ held' = [p \in Portfolio |-> IF p \in made THEN listed[mover(p)] ELSE held[p]]
  /\ feed' = [u \in Person |->
                IF u \in waiting /\ feed[u] = NoOne THEN link[u] ELSE feed[u]]
  /\ waiting' = {} /\ moved' = moved \cup waiting
  /\ UNCHANGED <<access, source, listed, link, at, request, undo>>
-----------------------------------------------------------------------------
(* A request: the gate and _my_portfolio, then one change *)

\* p is NoOne for the routes that name no portfolio
Enter(r, u, p) ==
  /\ up /\ at[r] = "idle" /\ u \in access
  /\ p # NoOne => owner[p] = u
  /\ at' = [at EXCEPT ![r] = "open"]
  /\ me' = [me EXCEPT ![r] = u] /\ on' = [on EXCEPT ![r] = p]
  /\ was' = [was EXCEPT ![r] = IF p = NoOne THEN NoOne ELSE source[p]]
  /\ UNCHANGED <<up, access, born, row, held, feed, old, undo>>

OnNone(r) == at[r] = "open" /\ on[r] = NoOne
OnOne(r) == at[r] = "open" /\ on[r] # NoOne

\* refused, rolled back, a lookup without an answer, or a change of nothing
Gives(r) ==
  /\ at[r] = "open" /\ Ends(r)
  /\ UNCHANGED <<up, access, born, row, held, feed, old, undo>>

Create(r, p, n) ==
  /\ OnNone(r) /\ p \notin born
  /\ Cardinality(Of(me[r])) < MaxPortfolios /\ ~NameTaken(me[r], n, NoOne)
  /\ born' = born \cup {p}
  /\ owner' = [owner EXCEPT ![p] = me[r]] /\ name' = [name EXCEPT ![p] = n]
  /\ Ends(r)
  /\ UNCHANGED <<up, access, source, held, feed, old, undo>>

\* Variant: only a creation looks whether the name is taken.
RenameUnchecked(r, n) ==
  /\ OnOne(r) /\ Owns(r)
  /\ name' = [name EXCEPT ![on[r]] = n]
  /\ Ends(r)
  /\ UNCHANGED <<up, access, born, owner, source, held, feed, old, undo>>

Rename(r, n) ==
  /\ OnOne(r) /\ ~NameTaken(me[r], n, on[r]) /\ Owns(r)
  /\ name' = [name EXCEPT ![on[r]] = n]
  /\ Ends(r)
  /\ UNCHANGED <<up, access, born, owner, source, held, feed, old, undo>>

\* the rows of ps and, by the foreign key's cascade, the bonds in them
Drop(ps) ==
  /\ owner' = [p \in Portfolio |-> IF p \in ps THEN NoOne ELSE owner[p]]
  /\ name' = [p \in Portfolio |-> IF p \in ps THEN NoOne ELSE name[p]]
  /\ source' = [p \in Portfolio |-> IF p \in ps THEN NoOne ELSE source[p]]
  /\ held' = [p \in Portfolio |-> IF p \in ps THEN Nothing ELSE held[p]]

Delete(r) ==
  /\ OnOne(r) /\ Owns(r)
  /\ Drop({on[r]})
  /\ Ends(r)
  /\ UNCHANGED <<up, access, born, feed, old, undo>>

\* Variant: the limit is compared with > instead of >=.
RoomForOneMore(r, k, aliases) ==
  /\ Owns(r)
  /\ Bonds(held[on[r]]) \cap ({k} \cup aliases) = {}
  /\ Cardinality(Bonds(held[on[r]])) <= MaxBonds

\* add: k may come in unless it is held, by itself or an alias, or all is full
Room(r, k, aliases) ==
  /\ Owns(r)
  /\ Bonds(held[on[r]]) \cap ({k} \cup aliases) = {}
  /\ Cardinality(Bonds(held[on[r]])) < MaxBonds

Insert(r, k, q) ==
  /\ held' = [held EXCEPT ![on[r]][k] = q]
  /\ Ends(r)
  /\ UNCHANGED <<up, access, born, row, feed, old, undo>>

\* the Add box: the bond as MOEX has it, known under both its codes
Add(r, k, q) == OnOne(r) /\ Room(r, k, Aliases[k]) /\ Insert(r, k, q)

\* Undo, of what request s removed: no aliases are given, and _quantity is
\* None for a bond that had none
Restore(r, s) ==
  /\ OnOne(r) /\ undo[s].by = me[r] /\ undo[s].to = on[r]
  /\ Room(r, undo[s].key, {}) /\ Insert(r, undo[s].key, undo[s].qty)

Remove(r, k) ==
  /\ OnOne(r) /\ Owns(r) /\ held[on[r]][k] # Absent
  /\ held' = [held EXCEPT ![on[r]][k] = Absent]
  /\ undo' = [undo EXCEPT ![r] = [by |-> me[r], to |-> on[r],
                                  key |-> k, qty |-> held[on[r]][k]]]
  /\ Ends(r)
  /\ UNCHANGED <<up, access, born, row, feed, old>>

SetQty(r, k, q) ==
  /\ OnOne(r) /\ Owns(r) /\ held[on[r]][k] # Absent
  /\ Insert(r, k, q)

\* import, and update, which refuses another report than the one it saw
Replace(r, h, from, update) ==
  /\ OnOne(r)
  /\ Bonds(h) # {} /\ Cardinality(Bonds(h)) <= MaxBonds
  /\ update /\ was[r] # NoOne /\ from # NoOne => was[r] = from
  /\ Owns(r)
  /\ held' = [held EXCEPT ![on[r]] = h]
  /\ source' = [source EXCEPT ![on[r]] = from]
  /\ Ends(r)
  /\ UNCHANGED <<up, access, born, owner, name, feed, old, undo>>

NewFeed(r, t) ==
  /\ OnNone(r) /\ \A u \in Person : feed[u] # t /\ link[u] # t
  /\ feed' = [feed EXCEPT ![me[r]] = t]
  /\ Ends(r)
  /\ UNCHANGED <<up, access, born, row, held, old, undo>>

\* Variant: the DELETE without "WHERE user_id = ?".
ForgetEverybody(u) ==
  /\ up /\ u \in access /\ access' = access \ {u}
  /\ Drop(Portfolio)
  /\ feed' = [feed EXCEPT ![u] = NoOne]
  /\ waiting' = waiting \ {u} /\ listed' = [listed EXCEPT ![u] = Nothing]
  /\ link' = [link EXCEPT ![u] = NoOne] /\ UNCHANGED moved
  /\ UNCHANGED <<up, born, at, request, undo>>

\* forget, after users.remove_user
Forget(u) ==
  /\ up /\ u \in access /\ access' = access \ {u}
  /\ Drop(Of(u))
  /\ feed' = [feed EXCEPT ![u] = NoOne]
  /\ waiting' = waiting \ {u} /\ listed' = [listed EXCEPT ![u] = Nothing]
  /\ link' = [link EXCEPT ![u] = NoOne] /\ UNCHANGED moved
  /\ UNCHANGED <<up, born, at, request, undo>>

Next ==
  \/ Start \/ Stop
  \/ \E r \in Request :
       \/ \E u \in Person, p \in Portfolio \cup {NoOne} : Enter(r, u, p)
       \/ Gives(r) \/ Delete(r)
       \/ \E n \in Name : Rename(r, n) \/ \E p \in Portfolio : Create(r, p, n)
       \/ \E k \in Key : \/ Remove(r, k)
                         \/ \E q \in Quantity : Add(r, k, q) \/ SetQty(r, k, q)
       \/ \E s \in Request : Restore(r, s)
       \/ \E h \in Lists, from \in Report \cup {NoOne}, update \in BOOLEAN :
            Replace(r, h, from, update)
       \/ \E t \in Token : NewFeed(r, t)
  \/ \E u \in Person : Forget(u)

Spec == Init /\ [][Next]_vars
-----------------------------------------------------------------------------
\* Every column has its type, and a row that is gone has left no bonds behind.
TypeOK ==
  /\ up \in BOOLEAN /\ access \subseteq Person /\ born \subseteq Portfolio
  /\ owner \in [Portfolio -> Person \cup {NoOne}]
  /\ name \in [Portfolio -> Name \cup {NoOne}]
  /\ source \in [Portfolio -> Report \cup {NoOne}]
  /\ held \in [Portfolio -> Holding]
  /\ feed \in [Person -> Token \cup {NoOne}]
  /\ waiting \subseteq Person /\ moved \subseteq Person /\ listed \in [Person -> Lists]
  /\ link \in [Person -> Token \cup {NoOne}]
  /\ at \in [Request -> {"idle", "open", "ended"}]
  /\ me \in [Request -> Person \cup {NoOne}]
  /\ on \in [Request -> Portfolio \cup {NoOne}]
  /\ was \in [Request -> Report \cup {NoOne}]
  /\ undo \in [Request -> 
       [by : Person, to : Portfolio, key : Key, qty : Quantity \cup {NoQty}] \cup {NoUndo}]
  /\ \A p \in Portfolio : owner[p] = NoOne =>
       held[p] = Nothing /\ name[p] = NoOne /\ source[p] = NoOne

\* "named once": however creations, renames, deletions and the move of the
\* watchlists interleave, a person has no two portfolios of one name.
NamesApart ==
  \A p, q \in Portfolio :
    p # q /\ owner[p] # NoOne /\ owner[p] = owner[q] => name[p] # name[q]

\* Two requests that both found room do not both fill it.
WithinCaps ==
  /\ \A u \in Person : Cardinality(Of(u)) <= MaxPortfolios
  /\ \A p \in Portfolio : Cardinality(Bonds(held[p])) <= MaxBonds

\* "touches only their rows": a portfolio changes at the hands of a request of
\* its owner's, or because the owner's access is taken away.
OnlyTheirRows ==
  [][\A p \in Portfolio :
       owner[p] # NoOne /\ <<owner[p], name[p], source[p], held[p]>>'
                             # <<owner[p], name[p], source[p], held[p]>> =>
         \/ \E r \in Request : at[r] = "open" /\ at'[r] = "ended" /\ me[r] = owner[p]
         \/ owner[p] \in access \ access']_vars

\* "each watchlist not moved yet": a start adds nothing for people whose
\* watchlist an earlier start moved, whatever they have deleted since.
StartsMoveOnce ==
  [][\A u \in moved : ~up /\ up' /\ UNCHANGED access =>
       Of(u) = {p \in Portfolio : owner'[p] = u} /\ feed'[u] = feed[u]]_vars

\* "a bond already held under either is not added twice"
HeldOnce ==
  \A p \in Portfolio : \A k \in Bonds(held[p]) : Aliases[k] \cap Bonds(held[p]) = {}
=============================================================================
