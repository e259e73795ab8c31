------------------------------- MODULE MCCards -------------------------------
(* One photo, whose file is an image or not, two workers and two sizes; its    *)
(* card and two processes that read it; two streams with a buffer of one; four *)
(* cards with two ranks, and limits refused, taken as they are, and cut down.  *)
EXTENDS Cards
=============================================================================
