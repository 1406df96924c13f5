------------------------------ MODULE MCPeople ------------------------------
(***************************************************************************)
(* Small instances of the accounts and of the brokerage links for TLC.     *)
(* They share no variable, so each is run by itself: part says which.      *)
(***************************************************************************)
EXTENDS Accounts, BrokerLinks, TLC

CONSTANTS a1, a2, i1, i2, c1, c2, r1, r2, r3
VARIABLE part

\* every kind of id is opaque to the code; people are accounts, visits requests
IdSymmetry == Permutations(Account) \cup Permutations(Invite)
                \cup Permutations(Challenge) \cup Permutations(Request)

PeopleInit == Init /\ LinkInit /\ part \in {"accounts", "links"}
PeopleNext ==
  \/ part = "accounts" /\ Next /\ UNCHANGED <<part, linkVars>>
  \/ part = "links" /\ LinkNext /\ UNCHANGED <<part, vars>>
PeopleSpec == PeopleInit /\ [][PeopleNext]_<<vars, linkVars, part>>

\* links alone, for the reads in hand when a link changes
LinksInit == Init /\ LinkInit /\ part = "links"
LinksSpec == LinksInit /\ [][PeopleNext]_<<vars, linkVars, part>>
=============================================================================
