------------------------------ MODULE MCFileIO ------------------------------
(***************************************************************************)
(* 512, 200 and 31 scaled down to 7, 3 and 5: two chunks and a part of a   *)
(* third to a block, and files of two blocks and more within the extents.  *)
(***************************************************************************)
EXTENDS FileIO

CONSTANTS f1, f2

TwoFiles == {f1, f2}

\* Around a chunk, a block and the extents, and two of cat's chunks.
Around   == {-1, 0, 2, 4, 7, 8, 16}
Ordinary == {0, 3, 4, 7, 9}
=============================================================================
