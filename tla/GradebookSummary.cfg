SPECIFICATION Spec
CONSTANTS
  Students = {sami, lina}
  Classes = {c1, c2}
  Weights = {0, 33, 60}
  Maxima = {3, Null}
  Marks = {0, 1, 3}
  Null = Null
  MaxCategories = 2
  MaxItems = 2
SYMMETRY Symmetry
INVARIANTS SummaryIsPerStudent
CHECK_DEADLOCK FALSE
