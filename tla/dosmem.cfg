\* 5 paragraphs of conventional memory, a cover with nothing in it, 3 of upper memory
CONSTANTS
  FirstMCB = 1
  UmbStart = 6
  FirstUmb = 7
  Top = 10
  HasUmb = TRUE
  Psps = {p1, p2}
  Requests = {0, 1, 3}
  MaxHeld = 3
  Strategies <- SomeStrategies
SPECIFICATION Spec
INVARIANTS ChainsTile HeldIntact NoFalseFailure
PROPERTIES ResizedToMaximumLow
SYMMETRY PspSymmetry
VIEW View
