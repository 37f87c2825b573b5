------------------------------ MODULE MCTables ------------------------------
(***************************************************************************)
(* An instance of Tables for TLC: strings that collide, numbers and an     *)
(* object that collide with them in some sizes, and two values where a     *)
(* stale one could come back.                                              *)
(***************************************************************************)
EXTENDS Tables

CONSTANTS v, w

MCValues ==
  [k \in Keys |-> IF k = CHOOSE s \in StrKeys : TRUE THEN {v, w} ELSE {v}]

MCHash ==
  [k \in Keys |-> IF k \in IntKeys THEN k ELSE IF k \in StrKeys THEN 2 ELSE 1]

MCSizes == {<<0, 0>>, <<2, 3>>}

MCLists == {<<v>>, <<v, Nil, v>>}
=============================================================================
