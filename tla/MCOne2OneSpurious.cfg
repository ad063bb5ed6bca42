CONSTANTS
  Values = {v1, v2}
  NoValue = NoValue
SPECIFICATION SpuriousSpec
PROPERTIES ReadMeetsWriter
