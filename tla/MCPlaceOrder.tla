---------------------------- MODULE MCPlaceOrder ----------------------------
(* Retries of one request, and one that forgot the header. *)
EXTENDS PlaceOrder, TLC

CONSTANTS k1, a1, a2, a3, a4

OneKey == [a \in Attempts |-> IF a = a4 THEN NoKey ELSE k1]
=============================================================================
