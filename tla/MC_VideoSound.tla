--------------------------- MODULE MC_VideoSound ---------------------------
(***************************************************************************)
(* A C64 (one chip) with a luma table of 8 lines instead of 512.  The two  *)
(* viewports keep the order of the real ones: a frame with the full        *)
(* borders shows more lines than one with the normal borders, and both end *)
(* well inside the table, as PAL's last line 311 does inside 512.          *)
(***************************************************************************)
EXTENDS VideoSound

\* <<first_line, last_line>> for the full and the normal border modes.
BorderViewports == {<<1, 6>>, <<1, 3>>}
=============================================================================
