SPECIFICATION SearchSpec
CONSTANTS
  Points = {"a", "b", "c"}
  Scores <- MCScores
  K = 2
  MaxLimit = 3
INVARIANTS
  RerankIsExact
  LargerLimitExtends
