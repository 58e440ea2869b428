CONSTANTS
  Strings <- MCStrings
  Nil = Nil
  NoPattern = NoPattern
  NoWhere = NoWhere
  finds = finds
  Half <- MCHalf
  Exact <- MCExact
  Units <- MCUnits
  PatternHits <- MCHits
  Worlds <- MCWorlds
  StatementOf <- MCStatementOf
  Columns <- MCColumns
  Generated <- MCGenerated
  MaxCalls = 3
  MaxOps = 2
SPECIFICATION Spec
INVARIANTS TypeOK SameWhateverSource ValuesDecode TagCountsRows AnsweredIsAssertable
PROPERTIES DescribedIsSent OnlyOwnAnswersChange
