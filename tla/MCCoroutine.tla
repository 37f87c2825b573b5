----------------------------- MODULE MCCoroutine -----------------------------
(***************************************************************************)
(* Instances of Coroutine for TLC: coroutines, upvalues and variables are  *)
(* interchangeable.                                                        *)
(***************************************************************************)
EXTENDS Coroutine, TLC

Interchangeable == Permutations(Threads) \union Permutations(Upvalues)
                     \union Permutations(Vars)
=============================================================================
