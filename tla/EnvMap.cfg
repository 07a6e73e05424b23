SPECIFICATION Spec
CONSTANTS
  Names <- MCNames
  LongNames <- MCLongNames
  Hash <- MCHash
  Values = {v1, v2}
  Undefined = undefined
  Count = 2
INVARIANTS
  TypeOK
  EnumVisitsAll
  EntriesStay
PROPERTIES
  IsEnvironment
