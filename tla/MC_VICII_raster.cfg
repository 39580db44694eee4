\* Raster sequencer, bad lines, VC/RC, the raster IRQ and the border unit,
\* sprites off: DEN, RSEL, YSCROLL and CSEL written at any cycle.
CONSTANTS
  CyclesPerLine = 16
  ScreenHeight = 12
  FirstDmaLine = 1
  LastDmaLine = 9
  Row25Start = 2
  Row24Start = 3
  Row24Stop = 9
  Row25Stop = 10
  Sprites = {}
  SpriteMcEnd = 9
  CycleTable <- MiniCycleTable
  VspFirstCycle = 5
  VspEndCycle = 9
  D011Values <- RasterD011
  D016Values = {FALSE, TRUE}
  D012Values <- RasterD012
  D015Values = {{}}
  SpriteYValues = {0}
  InitYExp = {{}}
  DrawCollisions <- NoCollisions
  LightPenDelays = {}
  LightPenLevels = {FALSE}
  EventsPerFrame = 1

SPECIFICATION Spec
INVARIANTS
  TypeOK
  RasterFollowsClock
  
  DisplayStateBounded
  VBorderOpenOnlyInWindow
PROPERTIES
  RasterIrqOncePerFrame
  VspOnlyAfterD011Write
