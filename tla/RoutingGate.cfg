SPECIFICATION Spec
CONSTANTS
  d1 = d1
  d2 = d2
  NoDesign = NoDesign
  Designs <- MCDesigns
  FieldDesigns <- MCFieldDesigns
  RoutedDesigns <- MCRoutedDesigns
  Answers <- MCAnswers
  FailureClasses = {"MISSING_FIELDS", "WRONG_SOURCE", "UNSUPPORTABLE"}
  CallCosts = {0, 2}
  MaxIterations = 3
  CostCeiling = 2
INVARIANT RoutingGate
