------------------------------- MODULE VicFP --------------------------------
(***************************************************************************)
(* The VIC-20 Final Expansion 3 cartridge of vic20/cart/vic-fp.c: the     *)
(* configuration and bank registers behind I/O2 and the flip-flops they   *)
(* drive, write access to BLK5, attaching from a .crt or .bin file,      *)
(* detaching, and the snapshot read.                                       *)
(*                                                                         *)
(* Memory contents are data and are left out: a RAM or flash byte is not  *)
(* modelled, only whether the flash was programmed since it was loaded    *)
(* (flash_dirty, kept by flash040core.c).  The buffers cart_ram and       *)
(* cart_rom are allocated and freed together and are one boolean.         *)
(***************************************************************************)
EXTENDS Integers, Bitwise

CONSTANTS
    CfgValues,      \* bytes the CPU writes to the configuration register
    BankValues,     \* bytes the CPU writes to the bank register
    SnapCfgValues,  \* cart_cfg_reg bytes found in a snapshot
    SnapBankValues  \* cart_bank_reg bytes found in a snapshot

CART_CFG_MASK == 249          \* 0xf9
CART_CFG_DEFAULT == 64        \* 0x40
CART_BANK_DEFAULT == 0

VARIABLES
    cart_cfg_reg, cart_bank_reg,
    cfg_en_flop, ram123_en_flop, blk1_en_flop, ram5_flop, cart_rom_bank,
    cart_buffers,       \* cart_ram and cart_rom allocated
    flash_dirty,        \* flash_state.flash_dirty
    mem_cart_blocks,    \* the cartridge's blocks (and I/O2) are mapped
    vfp_list_item,      \* the I/O2 device is registered (and exported)
    vic_fp_filetype,    \* "none" (0), "crt" or "bin"
    vic_fp_filename,    \* vic_fp_filename # NULL
    vic_fp_writeback    \* the VicFlashPluginWriteBack resource

fpVars == <<cart_cfg_reg, cart_bank_reg, cfg_en_flop, ram123_en_flop,
            blk1_en_flop, ram5_flop, cart_rom_bank, cart_buffers, flash_dirty,
            mem_cart_blocks, vfp_list_item, vic_fp_filetype, vic_fp_filename>>

flopVars == <<cfg_en_flop, ram123_en_flop, blk1_en_flop, ram5_flop,
              cart_rom_bank>>

(* The CART_CFG_* macros, on a register value.                             *)
CART_CFG_ENABLE(c) == (c & 128) = 0
CART_CFG_BLK5_WP(c) == (c & 64) # 0
CART_CFG_BLK5_RAM(c) == (c & 32) # 0
CART_CFG_BLK1(c) == (c & 24) = 24
CART_CFG_RAM123(c) == (c & 24) = 8
CART_CFG_A21(c) == c & 1

(* CART_CFG_UPDATE for configuration c and bank b.                         *)
CART_CFG_UPDATE(c, b) ==
    /\ cfg_en_flop' = CART_CFG_ENABLE(c)
    /\ ram123_en_flop' = CART_CFG_RAM123(c)
    /\ blk1_en_flop' = CART_CFG_BLK1(c)
    /\ ram5_flop' = CART_CFG_BLK5_RAM(c)
    /\ cart_rom_bank' = b + 256 * CART_CFG_A21(c)

(* CART_CFG_INIT(value), the bank register being b.                        *)
CART_CFG_INIT(v, b) ==
    /\ cart_cfg_reg' = v & CART_CFG_MASK
    /\ CART_CFG_UPDATE(v & CART_CFG_MASK, b)

(* vic_fp_detach.  A programmed flash is written back to its file first  *)
(* when write-back is on and the cartridge did not come from a snapshot   *)
(* (vic_fp_flush_image; the snapshot read leaves no file name anyway); the *)
(* file is data and is left out.  Fault model: the blocks stay mapped.     *)
DetachEffectKeepBlocks ==
    /\ UNCHANGED mem_cart_blocks
    /\ cart_buffers' = FALSE
    /\ vic_fp_filename' = FALSE
    /\ vfp_list_item' = FALSE

DetachEffect ==
    /\ mem_cart_blocks' = FALSE
    /\ cart_buffers' = FALSE
    /\ vic_fp_filename' = FALSE
    /\ vfp_list_item' = FALSE

FpInit ==
    /\ cart_cfg_reg = 0
    /\ cart_bank_reg = 0
    /\ cfg_en_flop = FALSE
    /\ ram123_en_flop = FALSE
    /\ blk1_en_flop = FALSE
    /\ ram5_flop = FALSE
    /\ cart_rom_bank = 0
    /\ cart_buffers = FALSE
    /\ flash_dirty = FALSE
    /\ mem_cart_blocks = FALSE
    /\ vfp_list_item = FALSE
    /\ vic_fp_filetype = "none"
    /\ vic_fp_filename = FALSE

-----------------------------------------------------------------------------
(* The cartridge layer attaches only when no cartridge is attached.        *)
Detached == ~mem_cart_blocks /\ ~vfp_list_item

(* vic_fp_crt_attach: allocate, read 512 chips, export_add, init flash,   *)
(* map the blocks, register I/O2.  A bad chip or a failed export_add goes *)
(* to exiterror, which detaches.                                           *)
vic_fp_crt_attach ==
    /\ Detached
    /\ vic_fp_filetype' \in {"none", "crt"}
    /\ IF vic_fp_filetype' = "crt"
       THEN /\ flash_dirty' = FALSE
            /\ mem_cart_blocks' = TRUE
            /\ vfp_list_item' = TRUE
            /\ cart_buffers' = TRUE
            /\ vic_fp_filename' = TRUE
       ELSE /\ DetachEffect
            /\ UNCHANGED flash_dirty
    /\ UNCHANGED <<cart_cfg_reg, cart_bank_reg, flopVars>>

(* vic_fp_bin_attach: a failed zfile_load detaches; a failed export_add   *)
(* returns -1 with the buffers allocated and nothing mapped.               *)
vic_fp_bin_attach ==
    /\ Detached
    /\ \E outcome \in {"ok", "load_error", "export_error"} :
        CASE outcome = "ok" ->
                /\ flash_dirty' = FALSE
                /\ mem_cart_blocks' = TRUE
                /\ vfp_list_item' = TRUE
                /\ cart_buffers' = TRUE
                /\ vic_fp_filetype' = "bin"
                /\ vic_fp_filename' = TRUE
          [] outcome = "load_error" ->
                /\ vic_fp_filetype' = "none"
                /\ DetachEffect
                /\ UNCHANGED flash_dirty
          [] outcome = "export_error" ->
                /\ cart_buffers' = TRUE
                /\ vic_fp_filetype' = "none"
                /\ vic_fp_filename' = FALSE
                /\ UNCHANGED <<flash_dirty, mem_cart_blocks, vfp_list_item>>
    /\ UNCHANGED <<cart_cfg_reg, cart_bank_reg, flopVars>>

(* vic_fp_detach, called by the cartridge layer for the attached cart.     *)
vic_fp_detach ==
    /\ mem_cart_blocks
    /\ DetachEffect
    /\ UNCHANGED <<cart_cfg_reg, cart_bank_reg, flopVars, flash_dirty,
                   vic_fp_filetype>>

(* vic_fp_reset                                                            *)
vic_fp_reset ==
    /\ mem_cart_blocks
    /\ cart_bank_reg' = CART_BANK_DEFAULT
    /\ CART_CFG_INIT(CART_CFG_DEFAULT, CART_BANK_DEFAULT)
    /\ UNCHANGED <<cart_buffers, flash_dirty, mem_cart_blocks, vfp_list_item,
                   vic_fp_filetype, vic_fp_filename>>

(* vic_fp_io2_store: ignored once b7 disabled the registers; an odd       *)
(* address writes the configuration, an even one the bank.                *)
vic_fp_io2_store ==
    /\ mem_cart_blocks /\ vfp_list_item
    /\ cfg_en_flop
    /\ \/ \E v \in CfgValues :
            /\ CART_CFG_INIT(v, cart_bank_reg)
            /\ UNCHANGED cart_bank_reg
       \/ \E v \in BankValues :
            /\ cart_bank_reg' = v
            /\ CART_CFG_UPDATE(cart_cfg_reg, v)
            /\ UNCHANGED cart_cfg_reg
    /\ UNCHANGED <<cart_buffers, flash_dirty, mem_cart_blocks, vfp_list_item,
                   vic_fp_filetype, vic_fp_filename>>

(* vic_fp_blk5_store: nothing when write protected, RAM when ram5_flop,   *)
(* else flash040core_store, which may program the flash.                   *)
vic_fp_blk5_store ==
    /\ mem_cart_blocks
    /\ IF CART_CFG_BLK5_WP(cart_cfg_reg) \/ ram5_flop
       THEN UNCHANGED flash_dirty
       ELSE flash_dirty' \in {flash_dirty, TRUE}
    /\ UNCHANGED <<cart_cfg_reg, cart_bank_reg, flopVars, cart_buffers,
                   mem_cart_blocks, vfp_list_item, vic_fp_filetype,
                   vic_fp_filename>>

(* vic_fp_snapshot_read_module.  A missing module or another major        *)
(* version returns -1 with no change (not an action); otherwise the       *)
(* buffers are allocated and the flash initialised, then the bank, the    *)
(* configuration and the two memories are read (reads is how many        *)
(* succeed), then the flash module.  A failure                            *)
(* frees the buffers after whatever registers it already read.            *)
vic_fp_snapshot_read_module ==
    /\ Detached
    /\ \E reads \in 0..4, flashOk \in BOOLEAN,
          b \in SnapBankValues, c \in SnapCfgValues :
            /\ cart_bank_reg' = IF reads >= 1 THEN b ELSE cart_bank_reg
            /\ IF reads = 4 /\ flashOk
               THEN /\ CART_CFG_INIT(c, b)
                    /\ flash_dirty' \in BOOLEAN
                    /\ mem_cart_blocks' = TRUE
                    /\ cart_buffers' = TRUE
                    /\ vic_fp_filename' = FALSE
                    /\ vic_fp_filetype' = "none"
               ELSE /\ cart_cfg_reg' = IF reads >= 2 THEN c ELSE cart_cfg_reg
                    /\ flash_dirty' = FALSE
                    /\ cart_buffers' = FALSE
                    /\ UNCHANGED <<flopVars, mem_cart_blocks, vic_fp_filename,
                                   vic_fp_filetype>>
            /\ UNCHANGED vfp_list_item

FpNext == vic_fp_crt_attach \/ vic_fp_bin_attach \/ vic_fp_detach
          \/ vic_fp_reset \/ vic_fp_io2_store \/ vic_fp_blk5_store
          \/ vic_fp_snapshot_read_module

-----------------------------------------------------------------------------
FpTypeOK ==
    /\ cart_cfg_reg \in 0..255 /\ cart_bank_reg \in 0..255
    /\ cart_rom_bank \in 0..511
    /\ vic_fp_filetype \in {"none", "crt", "bin"}
    /\ vic_fp_writeback \in {0, 1}

(* Whenever the cartridge's blocks are mapped, the buffers they read and  *)
(* write are allocated, over every attach, detach and snapshot path.      *)
MappedImpliesAllocated == mem_cart_blocks => cart_buffers
=============================================================================
