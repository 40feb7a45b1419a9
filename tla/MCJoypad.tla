------------------------------ MODULE MCJoypad ------------------------------
(***************************************************************************)
(* Joypad for TLC: one button that repeats and one that does not, with the *)
(* repeat times of the source.  The run of the safety properties counts in *)
(* words of 65536; the liveness run counts in words of 64, because past    *)
(* RepeatFirst the countdown only matters for the one wrap after power-on. *)
(***************************************************************************)
EXTENDS Joypad

CONSTANTS up, a

ButtonsMC == {up, a}

(* Nothing repeats while a map loads, directions do elsewhere.              *)
RepeatMasksMC == {{}, {up}}

(* The low byte or the whole word.                                          *)
ForcedWordsMC == {{a}, {up, a}}

=============================================================================
