SPECIFICATION Spec
CONSTANTS
  acme = acme
  globex = globex
  r1 = r1
  r2 = r2
  r3 = r3
  NoCap = NoCap
  CacheCost = 1
  LastDay = 2
  DaysPerMonth = 2
  MaxBalance = 3
CONSTANTS
  Org <- OneOrg
  Request <- TwoRequests
  Amount <- Amounts
  Opening <- OpeningTwo
  LLMCost <- LLMCosts
  TopUpAmount <- TopUps
  CapSets <- DollarCaps
INVARIANTS GroundsStop SpendIsPaid 
PROPERTIES AnswersSettle
CHECK_DEADLOCK FALSE
