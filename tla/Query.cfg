SPECIFICATION Spec
CONSTANTS
  Schemas <- MCSchemas
  Names <- MCNames
  Values <- MCValues
  MaxRows = 2
  Queries <- MCQueries
INVARIANTS AnswerMatchesSQL OptimizerPreservesAnswers
CHECK_DEADLOCK FALSE
