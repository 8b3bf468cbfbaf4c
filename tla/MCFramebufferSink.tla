-------------------------- MODULE MCFramebufferSink --------------------------
(* FramebufferSink with a few settings of the element, for TLC.  As a      *)
(* setting replaces another at any time, their combinations occur as well: *)
(* zero-memcpy with a pool, a pool for frames that fill only part of the   *)
(* screen, two screens when one was made, and one when two were.           *)
EXTENDS FramebufferSink

(* The defaults of drmsink. *)
Default == [zero |-> TRUE, pool |-> FALSE, vsync |-> TRUE, pan |-> TRUE,
            clear |-> TRUE, benchmark |-> FALSE, flips |-> 0,
            memory |-> 2]

Copying == [Default EXCEPT !.zero = FALSE, !.pan = FALSE, !.clear = FALSE,
                           !.benchmark = TRUE, !.flips = 1]

Pooled == [Default EXCEPT !.zero = FALSE, !.pan = FALSE, !.pool = TRUE,
                          !.flips = 3]

MCSettings == {Default, Copying, Pooled}
=============================================================================
