\* x64sc autostart with drive 8, injected programs, under the machine's fairness.
CONSTANTS
 Traps = Traps  Traps0 = Traps0  Tde = Tde  Iec = Iec  LongNames = LongNames
 AWarp = AWarp  k1 = k1  k2 = k2
 Names <- MCNames
 Keys = {k1, k2}
 HashKey <- MCHashKey
 InitialOrder <- MCInitialOrder
 Decls = {}
 Values <- MCValues
 Initial <- MCInitial
 Factory <- MCFactory
 Relevance <- MCRelevance
 StrictValue <- MCStrictValue
 Accepts <- MCAccepts
 Stored <- MCStored
 FileInit <- MCFileInit
 Disabled <- MCDisabled
 MaxCallbacks = 1
 MaxEvents = 1
 MaxCalls = 3
 TrapsRes <- Traps
 Traps0Res <- Traps0
 TdeRes <- Tde
 IecRes <- Iec
 LongNamesRes <- LongNames
 WarpRes <- AWarp
 MachineClass = "c64"
 PrgMode = "inject"
SPECIFICATION AsSpec
PROPERTY AutostartEnds
CHECK_DEADLOCK FALSE
