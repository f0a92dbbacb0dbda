---------------------------- MODULE MCBlockAlloc ----------------------------
(***************************************************************************)
(* Two places for blocks of nine units of two bytes.  The sizes are below, *)
(* at and above a multiple of the alignment, up to the largest a block     *)
(* serves, and one beyond it.                                              *)
(***************************************************************************)
EXTENDS BlockAlloc

MCSizes == {1, 4, 7, 16, 17}
MCBases == {10, 50}
=============================================================================
