----------------------------- MODULE MC_Autostart -----------------------------
(* x64sc's autostart with drive 8: true drive emulation, virtual device   *)
(* traps and the IEC device are all registered, so every branch of the    *)
(* drive setup is open.  No cartridge hooks.                               *)
EXTENDS Autostart, TLC

CONSTANTS Traps, Traps0, Tde, Iec, LongNames, AWarp, k1, k2

MCNames == {Traps, Traps0, Tde, Iec, LongNames, AWarp}
MCHashKey == (Traps :> k1) @@ (Tde :> k2) @@ (Iec :> k1) @@ (LongNames :> k2)
             @@ (AWarp :> k1) @@ (Traps0 :> k2)
MCInitialOrder == <<Traps, Tde, Iec, LongNames, AWarp>>
MCValues == {0, 1}
(* Drive8TrueEmulation is on by default; AutostartWarp has factory value  *)
(* 1 and C variable 0.                                                     *)
MCInitial == [n \in MCNames |-> IF n = Tde THEN 1 ELSE 0]
MCFactory == [n \in MCNames |-> IF n \in {Tde, AWarp} THEN 1 ELSE 0]
MCRelevance == [n \in MCNames |-> "none"]
MCStrictValue == [n \in MCNames |-> 0]
MCAccepts == [n \in MCNames |-> {0, 1}]
MCStored(n, v) == IF v = 0 THEN 0 ELSE 1
MCFileInit == [n \in {} |-> 0]
(* disabled_resources[] of the libretro build names AutostartWarp; the     *)
(* drive settings and VicFlashPluginWriteBack are not on it.             *)
MCDisabled == {AWarp}

====
