SPECIFICATION LogSpec
CONSTANTS
  Files = {f1}
  Lines <- ThreeLines
  Capacity = 2
  Workers = 2
  Resolvers = {v1, v2}
  Answers <- SomeAnswers
INVARIANTS OwnAnswer PrefixSurvives FileComplete
CHECK_DEADLOCK FALSE
