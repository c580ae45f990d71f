CONSTANTS
  Workers = {w1}
  Items = {t1, t2}
  MaxIndex = 2
  MAX_FRAMES_IN_FLIGHT = 2
  MaxAssets = 3
  Null = null
SPECIFICATION Spec
INVARIANT SubmittedUploadsUseLiveAssets
