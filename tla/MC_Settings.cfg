CONSTANTS
 Traps = Traps  Traps0 = Traps0  Tde = Tde  Iec = Iec  LongNames = LongNames
 AWarp = AWarp  WriteBack = WriteBack  Extra = Extra  k1 = k1  k2 = k2
 Names <- MCNames
 Keys = {k1, k2}
 HashKey <- MCHashKey
 InitialOrder <- MCInitialOrder
 Decls <- MCDecls
 Values <- MCValues
 Initial <- MCInitial
 Factory <- MCFactory
 Relevance <- MCRelevance
 StrictValue <- MCStrictValue
 Accepts <- MCAccepts
 Stored <- MCStored
 FileInit <- MCFileInit
 Disabled <- MCDisabled
 MaxCallbacks = 1
 MaxEvents = 1
 MaxCalls = 3
 TrapsRes <- Traps
 Traps0Res <- Traps0
 TdeRes <- Tde
 IecRes <- Iec
 LongNamesRes <- LongNames
 WarpRes <- AWarp
 WriteBackRes <- WriteBack
 MachineClass = "vic20"
 PrgMode = "vfs"
 CfgValues = {166}
 BankValues = {1}
 SnapCfgValues = {64}
 SnapBankValues = {0}
SPECIFICATION Spec
INVARIANT TypeOK RegistryConsistent MappedImpliesAllocated IdleMeansNoOriginals
PROPERTY RoundTrip
VIEW PassView
CHECK_DEADLOCK FALSE
