------------------------------ MODULE Settings -------------------------------
(***************************************************************************)
(* xvic's settings and start-up path as one system: the resources         *)
(* registry (resources.c), the autostart state machine (autostart.c) that *)
(* saves, changes and restores drive settings through it, and the Final   *)
(* Expansion 3 cartridge (vic-fp.c), whose write-back switch is the       *)
(* resource VicFlashPluginWriteBack.  They meet at three places:          *)
(*   - resources_set_defaults and resources_reset_and_load detach the     *)
(*     cartridge (cartridge_detach_image(-1)) before resetting resources; *)
(*   - autostart_autodetect attaches a .crt file as a cartridge;          *)
(*   - a machine reset calls the cartridge's reset and autostart_reset.   *)
(***************************************************************************)
EXTENDS Autostart

CONSTANTS
    WriteBackRes,   \* "VicFlashPluginWriteBack"
    CfgValues, BankValues, SnapCfgValues, SnapBankValues

VARIABLES
    cart_cfg_reg, cart_bank_reg,
    cfg_en_flop, ram123_en_flop, blk1_en_flop, ram5_flop, cart_rom_bank,
    cart_buffers, flash_dirty, mem_cart_blocks, vfp_list_item,
    vic_fp_filetype, vic_fp_filename

FP == INSTANCE VicFP WITH
        cart_cfg_reg <- cart_cfg_reg, cart_bank_reg <- cart_bank_reg,
        cfg_en_flop <- cfg_en_flop, ram123_en_flop <- ram123_en_flop,
        blk1_en_flop <- blk1_en_flop, ram5_flop <- ram5_flop,
        cart_rom_bank <- cart_rom_bank, cart_buffers <- cart_buffers,
        flash_dirty <- flash_dirty, mem_cart_blocks <- mem_cart_blocks,
        vfp_list_item <- vfp_list_item, vic_fp_filetype <- vic_fp_filetype,
        vic_fp_filename <- vic_fp_filename,
        vic_fp_writeback <- value[WriteBackRes]

cartVars == <<cart_cfg_reg, cart_bank_reg, cfg_en_flop, ram123_en_flop,
              blk1_en_flop, ram5_flop, cart_rom_bank, cart_buffers,
              flash_dirty, mem_cart_blocks, vfp_list_item, vic_fp_filetype,
              vic_fp_filename>>

vars == <<resVars, asVars, cartVars>>

Init == ResInit /\ AsInit /\ FP!FpInit

(* A step of the cartridge alone (attach, detach, snapshot read, I/O2     *)
(* register write); it counts against the bound on calls.                  *)
CartOnly(A) ==
    /\ calls < MaxCalls
    /\ A
    /\ calls' = calls + 1
    /\ UNCHANGED <<order, hashTable, hashNext, value, factory, callbacks, net,
                   events, notified, file, saved, disabled_resources_num,
                   asVars>>

(* A store of the emulated CPU to BLK5, at any time; it can only program  *)
(* the flash and does not count against the bound on calls.                *)
CpuStore(A) ==
    /\ A
    /\ UNCHANGED <<resVars, asVars>>

(* cartridge_detach_image(-1): the FE3 detaches if it is attached.         *)
CartridgeDetachAll ==
    IF mem_cart_blocks THEN FP!vic_fp_detach ELSE UNCHANGED cartVars

(* resources_set_defaults: detach the cartridge, then reset every         *)
(* resource to its factory value.                                          *)
resources_set_defaults ==
    /\ CartridgeDetachAll
    /\ SetDefaults
    /\ UNCHANGED asVars

(* resources_reset_and_load                                                *)
resources_reset_and_load ==
    /\ CartridgeDetachAll
    /\ ResetAndLoad
    /\ UNCHANGED asVars

(* autostart_autodetect; for a cartridge file, cartridge_attach_image     *)
(* runs vic_fp_crt_attach, whose result is the attempt's.                  *)
AutostartAutodetect ==
    \E kind \in {"disk", "tape", "tapecart", "snapshot", "cart", "prg", "none"},
       ok \in BOOLEAN :
        /\ Autodetect(kind, ok)
        /\ IF kind = "cart"
           THEN FP!vic_fp_crt_attach /\ ok = (vic_fp_filetype' = "crt")
           ELSE UNCHANGED cartVars

(* A machine reset: the cartridge's reset hook, then autostart_reset.      *)
MachineReset ==
    /\ MachineResetAs
    /\ IF mem_cart_blocks THEN FP!vic_fp_reset ELSE UNCHANGED cartVars

Next ==
    \/ ResApi /\ UNCHANGED <<asVars, cartVars>>
    \/ resources_dump /\ UNCHANGED <<asVars, cartVars>>
    \/ resources_set_defaults
    \/ resources_reset_and_load
    \/ AutostartAutodetect
    \/ MachineReset
    \/ (Advance \/ DelayElapses \/ AttentionTrap \/ EofTrap \/ FrontendWarp)
       /\ UNCHANGED cartVars
    \/ CartOnly(FP!vic_fp_bin_attach \/ FP!vic_fp_detach \/ FP!vic_fp_io2_store
                \/ FP!vic_fp_snapshot_read_module)
    \/ CpuStore(FP!vic_fp_blk5_store)

Spec == Init /\ [][Next]_vars
=============================================================================
