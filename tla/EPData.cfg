CONSTANTS

  NoLimit = NoLimit
  Stamps <- Seconds3
  Limits <- SmallLimits
  Width = 8
  MaxSamples = 4
  MaxChanges = 1
SPECIFICATION Spec
INVARIANTS RangeCovers CountExact
PROPERTIES NewestKept
