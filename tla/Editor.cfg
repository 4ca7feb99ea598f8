CONSTANTS
  Names = {91, 92}
  Kinds = {"inscribe", "wait"}
  Texts = {"1000", "words"}
  Paths = {"p", "q"}
  Shipped <- TwoShipped
  MaxEdits = 5
  MaxSteps = 2
SPECIFICATION Spec
INVARIANTS TypeOK OpenIsFaithful StepsStay LedgerIsListed WardRowsDiffer
CHECK_DEADLOCK FALSE
