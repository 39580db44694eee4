\* The light-pen latch: input held at the start of a frame and scheduled triggers.
CONSTANTS
  CyclesPerLine = 16
  ScreenHeight = 12
  FirstDmaLine = 1
  LastDmaLine = 9
  Row25Start = 2
  Row24Start = 3
  Row24Stop = 9
  Row25Stop = 10
  Sprites = {}
  SpriteMcEnd = 9
  CycleTable <- MiniCycleTable
  VspFirstCycle = 5
  VspEndCycle = 9
  D011Values <- IrqD011
  D016Values = {FALSE}
  D012Values = {300}
  D015Values = {{}}
  SpriteYValues = {2}
  InitYExp = {{}}
  DrawCollisions <- NoCollisions
  LightPenDelays = {0, 3}
  LightPenLevels = {FALSE, TRUE}
  EventsPerFrame = 3

SPECIFICATION Spec
INVARIANTS
  LightPenIrqOncePerFrame
