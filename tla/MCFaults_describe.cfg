SPECIFICATION FSpec
CONSTANTS
  r1 = r1
  r2 = r2
  r3 = r3
  q1 = q1
  q2 = q2
  s1 = s1
  s2 = s2
  A = A
  B = B
  builtin = builtin
  fallback = fallback
  Nil = Nil
  Builtin = builtin
  Rules <- MCRules
  Ids <- MCIds
  IdOf <- MCIdOf
  Queries <- MCQueries
  RuleMatches <- MCMatches
  Answers <- MCAnswers
  AnswerOf <- MCAnswerOf
  InitRules <- MCInit
  Slack = {0}
  Sessions <- OneSession
  MaxOps = 0
  MaxQueries = 2
  MaxResets = 1
  Drops <- MCDrops
  Errors <- MCErrors
  FailAfterN <- MCFailAfterN
INVARIANT LogCountsExecutions
