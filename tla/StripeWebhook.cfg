SPECIFICATION Spec
CONSTANTS
  acme = acme
  globex = globex
  h1 = h1
  h2 = h2
  k1 = k1
  k2 = k2
  k3 = k3
  MaxChanges = 1
  MaxAttempts = 2
CONSTANTS
  Org <- TwoOrgs
  Handler <- TwoHandlers
  Checkout <- ThreeCheckouts
  Amount <- Amounts
  Opening <- NothingYet
  OrgOf <- Payers
  Price <- Prices
  Guest <- AGuest
  Tier <- Tiers
  Linked <- OneOrg
SYMMETRY Symmetry
INVARIANTS CreditsAccounted
CHECK_DEADLOCK FALSE
