----------------------------- MODULE MCServices -----------------------------
(* Three views and a buffer of one. Events 1 and 2 are of one listing, which 2 *)
(* removes, and the mapping refuses 3; event 1 or 2 is delivered twice, or     *)
(* each is once. Two deliveries of a row, one of another, and one of an event  *)
(* without an id. All eight processes, three calls, two cards in pages of one. *)
EXTENDS Services

CONSTANTS d1, d2, d3, d4

DocOfEvent == <<1, 1, 2>>
VersionOfEvent == <<1, 2, 2>>
Deliveries ==
    {[x \in {d1, d2, d3} |-> CASE x = d1 -> 1 [] x = d2 -> 2 [] x = d3 -> e] :
        e \in {1, 2, 3}}
Rows ==
    {[x \in {d1, d2, d3, d4} |-> CASE x \in {d1, d2} -> 1 [] x = d3 -> 2 [] x = d4 -> 3]}
=============================================================================
