------------------------------ MODULE MC_VICII ------------------------------
(***************************************************************************)
(* A miniature PAL VIC-II for model checking.  A line has 16 cycles and a  *)
(* frame 12 lines.  Each cycle stands for the PAL cycle named beside it,   *)
(* in the order of the PAL cycle table, so every event of vicii_cycle      *)
(* happens in the same order relative to the others as on the real chip;   *)
(* only the runs of identical cycles (40 g-accesses, 8 sprites) are        *)
(* shortened.  Lines keep the order of the PAL constants: first DMA line   *)
(* < 25-row top < 24-row top < last DMA line = 24-row bottom < 25-row      *)
(* bottom < last line.  Sprite DMA ends at mcbase 9 instead of 63 (three   *)
(* lines instead of 21).                                                   *)
(***************************************************************************)
EXTENDS VICII

\* A descriptor: flags, the sprite of a sprite access, the sprites whose BA
\* window covers the cycle (sprite n: PAL cycles 55 + 2n .. 59 + 2n).
Desc(f, s, ba) ==
  [flags |-> f, spr |-> IF s \in Sprites THEN s ELSE NoSprite,
   sprba |-> ba \cap Sprites]

MiniCycleTable ==
  [c \in 0 .. 15 |->
     CASE c = 0  -> Desc({}, NoSprite, {})                            \* 1
       [] c = 1  -> Desc({}, NoSprite, {})                            \* 2
       [] c = 2  -> Desc({"refresh", "fetch_ba"}, NoSprite, {})       \* 12
       [] c = 3  -> Desc({"refresh", "fetch_ba", "update_vc"}, NoSprite, {})
       [] c = 4  -> Desc({"refresh", "fetch_ba", "fetch_c"}, NoSprite, {})
       [] c = 5  -> Desc({"fetch_g", "fetch_ba", "fetch_c", "update_mcbase"},
                         NoSprite, {})                                \* 16
       [] c = 6  -> Desc({"fetch_g", "fetch_ba", "fetch_c", "border_l1"},
                         NoSprite, {})                                \* 17
       [] c = 7  -> Desc({"fetch_g", "fetch_ba", "fetch_c", "border_l0"},
                         NoSprite, {})                                \* 18
       [] c = 8  -> Desc({"fetch_g", "fetch_ba", "fetch_c"}, NoSprite, {})
       [] c = 9  -> Desc({"fetch_g", "check_spr_dma"}, NoSprite, {0}) \* 55
       [] c = 10 -> Desc({"check_spr_dma", "check_spr_exp", "border_r0"},
                         NoSprite, {0})                               \* 56
       [] c = 11 -> Desc({"border_r1"}, NoSprite, {0, 1})             \* 57
       [] c = 12 -> Desc({"sprite_ptr_dma0", "check_spr_disp", "update_rc"},
                         0, {0, 1})                                   \* 58
       [] c = 13 -> Desc({"sprite_dma1_dma2"}, 0, {0, 1})             \* 59
       [] c = 14 -> Desc({"sprite_ptr_dma0"}, 1, {1})                 \* 60
       [] c = 15 -> Desc({"sprite_dma1_dma2"}, 1, {1})]               \* 61

\* Register values the CPU writes in the runs.
R11(den, rsel, ys) == [den |-> den, rsel |-> rsel, ysmooth |-> ys]

\* Raster, bad-line and border run: DEN and RSEL toggled, two YSCROLL values
\* with the display on; with DEN off neither YSCROLL nor RSEL changes what
\* the raster and bad-line units do, and the vertical border cannot open.
RasterD011 == {R11(TRUE, r, y) : r \in BOOLEAN, y \in {1, 5}}
                  \cup {R11(FALSE, TRUE, 1)}
\* Compare values: the first line, a middle line, the last line.
RasterD012 == {0, 4, 11}

\* Sprite and collision run: display on, YSCROLL fixed, sprites
\* switched on and off.
SpriteD011 == {R11(TRUE, TRUE, 3)}
SpriteD015 == {{0}, {0, 1}}
SpriteYExp == {{1}}


\* Light-pen run: display off.
IrqD011 == {R11(FALSE, TRUE, 3)}

NoCollisions == {<<FALSE, FALSE>>}
AnyCollisions == {<<FALSE, FALSE>>, <<TRUE, FALSE>>, <<FALSE, TRUE>>}
SpriteCollisions == {<<FALSE, FALSE>>, <<TRUE, FALSE>>}

=============================================================================
