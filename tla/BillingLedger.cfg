SPECIFICATION Spec
CONSTANTS
  rich = rich
  poor = poor
  c1 = c1
  c2 = c2
  c3 = c3
  Unknown = Unknown
  Default = Default
  Nobody = Nobody
CONSTANTS
  Org <- MCOrg
  Call <- MCCall
  Amount <- MCAmount
  Opening <- MCOpening
INVARIANTS NoOverdraft BooksAgree
PROPERTIES ImplementsAccount CallsReturn
CHECK_DEADLOCK FALSE
