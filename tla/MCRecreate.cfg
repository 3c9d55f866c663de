SPECIFICATION Spec
CONSTANTS
  pass = pass
  pull = pull
  Pass = pass
  Callers = {pass, pull}
  Offers <- FewOffers
  NewestAPI = 56
  MaxUpgrades = 1
  MaxFaults = 1
  i1 = i1
  i2 = i2
  Images = {i1, i2}
  Aspects = {"entries", "command", "volumes", "identity"}
  Unset = Unset
  Nothing = Nothing
  a = a
  b = b
  e1 = e1
  e2 = e2
  k1 = k1
  k2 = k2
  Values = {a, b}
  Lists = {e1, e2}
  Commands = {k1, k2}
  Given = Given
  Theirs = Theirs
  FromIP = FromIP
  Random = Random
INVARIANTS
  TypeOK
  EachSettingHasItsOwner
  IdentityIsItsOwn
PROPERTIES
  RefusedOnlyWhenDisturbed
  CommandIsAFreshRuns
  CreateIsTaken

