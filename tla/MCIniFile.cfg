SPECIFICATION Spec
CONSTANTS
  Header <- MCHead
  Upper <- MCUpper
  Keys <- MCKeys
  Texts <- MCTexts
  Values <- MCValues
  Missing <- MCMissing
  nSize = 4
  High <- MCHigh
  Default <- MCDefault
PROPERTIES
  IsStore
  OthersKept
