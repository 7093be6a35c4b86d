------------------------------ MODULE MCStore ------------------------------
(* An instance of Store for TLC. *)
EXTENDS Store

CONSTANTS i1, i2, v1, s1, s2, m1, w1, w2

\* s1 hears of everything, s2 of one item in one state, m1 of one type of request.
MCFilter ==
  [s \in Stream |->
     CASE s = s1 -> [ids |-> Id, states |-> {}]
       [] s = s2 -> [ids |-> {i1}, states |-> {"a"}]
       [] OTHER -> [types |-> {"t"}]]
MCUses == {{s1, s2}, {s1, m1}, {w1, w2}}
MCPopulation == {[id \in Id |-> IF id = i1 THEN v1 ELSE NoValue]}
=============================================================================
