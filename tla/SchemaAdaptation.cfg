SPECIFICATION Spec
CONSTANTS
  Field <- MCField
  Path <- MCPath
  Optional <- MCOptional
  Dictionary <- MCDictionary
  Value = {v1, v2, v3, v4}
  Present = Present
  NoValue = NoValue
  IndexMaxCard <- MCIndexMaxCard
  MinCard <- MCMinCard
  MaxCard = 2
  MaxRows = 2
SYMMETRY MCSymmetry
INVARIANTS
  TypeOK
  RecordIsEntity
  FewUpdates
PROPERTIES
  FreshDictionariesMeanNewSchema
  SchemaOnlyGrows
