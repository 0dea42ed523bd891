SPECIFICATION Spec
CONSTANTS
  e1 = e1
  e2 = e2
  Editor <- TwoEditors
  Sets <- PortAndModel
  Key <- TwoKeys
  IntKey <- OneIntKey
  NoKey = "#"
  Value <- Values
  Unset = Unset
  Numeral <- One
  Strip <- Stripped
  Default <- Defaults
  Files <- SomeFiles
  Envs <- OnePort
  Args <- OneModel
INVARIANTS
  NoFalseStart
PROPERTIES
  SetTakesEffect
  StopsWhenTold
  StartsOrEnds
