SPECIFICATION Spec
CONSTANTS
  Base = 4
  Units = {1, 2, 4, 8}
  Formats <- MCFormats
  Types <- MCTypes
  Levels <- MCLevels
  Counts <- MCCounts
  Untouched = 99
INVARIANTS SamplesAreNear OnlyTheirBytes
CHECK_DEADLOCK FALSE
