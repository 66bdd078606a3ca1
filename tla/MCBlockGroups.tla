---------------------------- MODULE MCBlockGroups ----------------------------
(***************************************************************************)
(* Small volumes for TLC.  The scale is that of the program: the window is *)
(* smaller than a group, the magic number lies behind the window and the   *)
(* group and root fields behind the magic number.                          *)
(***************************************************************************)
EXTENDS BlockGroups

\* The lengths the shell asks for: one block, or a directory.
ShellRequests == {1, RootLen}

\* b_write may also be called with a count that takes more blocks than the
\* number of a bit of block 0: up to the magic number, the group fields or the
\* root fields.
LongRequests == {1, 2, 7, 8, 9}

Low   == {1}
Magic == {6}
Geom  == {7}
Root  == {8}
=============================================================================
