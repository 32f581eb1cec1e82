SPECIFICATION Spec
CONSTANTS
  Programs = {"threads", "processes"}
  Ranges = {1, 5, 6}
  Widths = {1, 2, 3, 7}
  Counts = {1, 2, 3, 4}
INVARIANTS
  OnlyResultsAreSummed
  NothingIsSummedTwice
  RangeIsCovered
