CONSTANTS
  MaxOrder = 2
  TotalPages = 15
  Counts = {1, 2, 3}
SPECIFICATION Spec
INVARIANTS TypeOK NoOverlap PagesKept BitmapExact FlagsAgree FullyMerged
