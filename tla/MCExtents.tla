------------------------------ MODULE MCExtents ------------------------------
(***************************************************************************)
(* Two files on a small volume; 31 leaves scaled down to 3.                *)
(***************************************************************************)
EXTENDS Extents

CONSTANTS f1, f2

TwoFiles  == {f1, f2}
Created   == {0, 1, 3, 4}
Single    == {1}
=============================================================================
