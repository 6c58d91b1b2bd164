CONSTANTS
  Nil = Nil
  nil = nil
  mine = mine
  other = other
  w1 = w1
  w2 = w2
  notes = notes
  Image <- MCImage
  App = mine
  Keys <- MCKeys
  Body <- MCBody
  Answer <- MCAnswer
  Default = "return false"
  Permissive = "return true"
  Name <- MCName
  Writer <- MCWriter
  MaxTemp = 2
  MaxWrites = 2
  Number <- MCNumber
  Key <- MCKey
  Hash <- MCHash
SPECIFICATION Spec
INVARIANTS PermissionsKept WholeFiles TablesAreMaps CallsAsMeant
CHECK_DEADLOCK FALSE
