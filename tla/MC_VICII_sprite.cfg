\* Sprite DMA, expansion, display and the BA lines of sprites 0 and 1, and
\* the sprite-sprite collision interrupts with the $d01e/$d01f read-and-clear.
CONSTANTS
  CyclesPerLine = 16
  ScreenHeight = 12
  FirstDmaLine = 1
  LastDmaLine = 9
  Row25Start = 2
  Row24Start = 3
  Row24Stop = 9
  Row25Stop = 10
  Sprites = {0, 1}
  SpriteMcEnd = 9
  CycleTable <- MiniCycleTable
  VspFirstCycle = 5
  VspEndCycle = 9
  D011Values <- SpriteD011
  D016Values = {FALSE}
  D012Values = {300}
  D015Values <- SpriteD015
  SpriteYValues = {2, 5}
  InitYExp <- SpriteYExp
  DrawCollisions <- SpriteCollisions
  LightPenDelays = {}
  LightPenLevels = {FALSE}
  EventsPerFrame = 1

SPECIFICATION Spec
INVARIANTS
  PhiTwoAccessOnlyWithBaLow
  CollisionIrqOncePerRead
PROPERTIES
  SpriteDmaLength
  SpriteDmaEnds
