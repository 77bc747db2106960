SPECIFICATION Spec
CONSTANTS
  a = a
  b = b
  c1 = c1
  c2 = c2
  u1 = u1
  u2 = u2
  None = None
  LBs = {a, b}
  Confs = {c1, c2}
  Urls = {u1, u2}
  Order <- MCOrder
  CatchAll <- MCCatchAll
  WantedAs <- MCWantedAs
  FirstWant <- MCFirstWant
  MaxChanges = 2
  MaxFaults = 2
INVARIANTS TypeOK
PROPERTIES SiblingsKept ListedIsServed Settles OthersGone
