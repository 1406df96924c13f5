SPECIFICATION PeopleSpec
CONSTANTS
  a1 = a1
  a2 = a2
  i1 = i1
  i2 = i2
  c1 = c1
  c2 = c2
  r1 = r1
  r2 = r2
  r3 = r3
  Account = {a1, a2}
  Invite = {i1, i2}
  Challenge = {c1, c2}
  Request = {r1, r2, r3}
  NoOne = NoOne
  Person = {a1, a2}
  Visit = {r1, r2, r3}
  Nobody = Nobody
  MaxChanges = 2
SYMMETRY IdSymmetry
CHECK_DEADLOCK FALSE
INVARIANTS RemovalIsComplete OneWinnerPerInvite SessionHasPasskey
   StaleOnlyFromInHand
