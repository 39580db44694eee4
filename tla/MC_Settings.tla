----------------------------- MODULE MC_Settings ------------------------------
(* xvic with an FE3 cartridge: the resources autostart uses, the          *)
(* cartridge's write-back resource, and a resource registered late whose  *)
(* declaration array repeats an existing name.                             *)
EXTENDS Settings, TLC

CONSTANTS Traps, Traps0, Tde, Iec, LongNames, AWarp, WriteBack, Extra, k1, k2

MCNames == {Traps, Traps0, Tde, Iec, LongNames, AWarp, WriteBack, Extra}
MCHashKey == (Traps :> k1) @@ (Tde :> k2) @@ (LongNames :> k1) @@ (AWarp :> k2)
             @@ (WriteBack :> k1) @@ (Extra :> k1) @@ (Traps0 :> k2)
             @@ (Iec :> k2)
MCInitialOrder == <<Traps, Tde, LongNames, AWarp, WriteBack>>
(* A later resources_register_int whose array registers Extra and then    *)
(* repeats Traps.                                                          *)
MCDecls == {<<Extra, Traps>>}
MCValues == {0, 1}
(* FSDeviceLongNames' C variable starts at 1, its factory value is 0.     *)
MCInitial == [n \in MCNames |-> IF n \in {Tde, LongNames} THEN 1 ELSE 0]
(* AutostartWarp: factory value 1, C variable 0 (autostart.c).            *)
MCFactory == [n \in MCNames |-> IF n \in {Tde, AWarp} THEN 1 ELSE 0]
MCRelevance == [n \in MCNames |-> CASE n = WriteBack -> "strict"
                                    [] n = Extra -> "same"
                                    [] OTHER -> "none"]
MCStrictValue == [n \in MCNames |-> 0]
MCAccepts == [n \in MCNames |-> {0, 1}]
MCStored(n, v) == IF v = 0 THEN 0 ELSE 1
(* The config file enables the write-back of the flash image.             *)
MCFileInit == WriteBack :> 1
(* disabled_resources[] of the libretro build names AutostartWarp; the     *)
(* drive settings and VicFlashPluginWriteBack are not on it.             *)
MCDisabled == {AWarp}

(* Every property of the composite                                         *)
TypeOK == ResTypeOK /\ AsTypeOK /\ FP!FpTypeOK
MappedImpliesAllocated == FP!MappedImpliesAllocated
(* The pass run's view: notified and start are history that no step reads *)
(* and none of its properties uses.                                        *)
PassView == <<order, hashTable, hashNext, value, factory, callbacks, net,
              events, file, calls, saved, disabled_resources_num, autostart,
              warp_mode, retro_warpmode, cartVars>>
====
