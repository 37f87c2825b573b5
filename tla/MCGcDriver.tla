----------------------------- MODULE MCGcDriver -----------------------------
(***************************************************************************)
(* Instances of GcDriver for TLC.                                          *)
(***************************************************************************)
EXTENDS GcDriver

Interchangeable == Permutations(Tables \ {Global}) \union Permutations(Userdata)
=============================================================================
