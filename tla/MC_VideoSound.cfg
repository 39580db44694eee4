\* The luma pointer across a change of the visible lines.
CONSTANTS
  MAX_LUMALINES = 8
  NumChips = 1
  Viewports <- BorderViewports
  SampleRates = {22050, 44100}
  SampleCounts = {1, 2}

SPECIFICATION Spec
INVARIANT LumaReadInBounds
