SPECIFICATION Spec
CONSTANTS
  t = t
  a = a
  b = b
  c = c
  x = x
  y = y
  null = null
  s1 = s1
  s2 = s2
  Columns <- MCColumns
  Values <- MCValues
  NullText = null
  Generated <- Generate
  NoWhere = NoWhere
  TableNames <- MCTables
  Statements <- MCStatements
  Sessions <- MCSessions
  MaxStatements = 5
  Torn = Torn
  NoTable = NoTable
SYMMETRY SessionSymmetry
INVARIANTS TypeOK SelectSeesOneState
PROPERTY StoreIsTables
