SPECIFICATION Spec
CONSTANTS
  k1 = k1
  k2 = k2
  r1 = r1
  s1 = s1
  b1 = b1
  user = user
  key1 = key1
  key2 = key2
  manual = manual
  path = path
  unit1 = unit1
  unit2 = unit2
  t1 = t1
  t2 = t2
  f1 = f1
  f2 = f2
  None = None
  Res = {k1, k2, r1, s1, b1}
  Kind <- MCKind
  Drivers <- MCDrivers
  Users = {user}
  Lines = {key1, key2, manual}
  ManualLines = {manual}
  Paths = {path}
  Units = {unit1, unit2}
  Texts = {t1, t2}
  Oneshot <- MCOneshot
  Forwards = {f1, f2}
  WantedAs <- MCWantedAs
  FirstWant <- MCFirstWant
  MaxChanges = 2
  MaxFaults = 1
INVARIANTS TypeOK
PROPERTIES Settles Gone AcceptsKept KeysKept
