SPECIFICATION Spec
CONSTANTS
  Undefined = Undefined
  Null = Null
  Dflt = Dflt
  None = None
  v = v
  s1 = s1
  s2 = s2
  Adapter = {"ndb", "mysql"}
  Table <- MCTable
  Session = {s1, s2}
  Key = {1}
  MaxKey = 4
  FieldChoices <- MCFieldChoices
  SparseChoices <- MCSparseChoices
  ExcludeChoices <- MCExcludeChoices
  ConverterChoices <- MCConverterChoices
  MaxCalls = 2
  Names <- MCNames
  Object <- MCObject
  AllLists <- MCAllLists
  Lists <- MCLists
INVARIANTS ValuesAreShared
PROPERTY IsAnObjectMap
