SPECIFICATION FairSpec
CONSTANTS
  Requests = {1, 2, 3}
  Products = {p1}
  Fields = {description}
  Nullable = {description}
  Values = {v1}
  Deltas <- OneUpOrDown
  MaxInteger = 1
  Operators = {o1}
  MaxFaults = 1
  Null = Null
  NoRow = NoRow
  NoStock = NoStock
  NoCall = NoCall
  NoOne = NoOne
INVARIANTS SavesMatchForms ListedIsStocked
PROPERTIES AdjustmentsAdd PagesSettle
CHECK_DEADLOCK FALSE
