---------------------------- MODULE MCFbdevSink ----------------------------
(* FbdevSink with small screens and frames, for TLC. *)
EXTENDS FbdevSink

Screen(x, y, l) == [xres |-> x, yres |-> y, line |-> l]
Of(w, h) == [w |-> w, h |-> h]

(* Two bytes to a pixel, with lines as long as the screen is wide, and     *)
(* longer by what is not, and what is, another pixel.                      *)
MCDevices == {Screen(5, 4, 10), Screen(5, 3, 11), Screen(4, 4, 10)}

MCFrames == {Of(2, 6), Of(5, 3), Of(7, 1), Of(9, 9)}
=============================================================================
