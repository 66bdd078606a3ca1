----------------------------- MODULE FreshRuns -----------------------------
(***************************************************************************)
(* What the callers of bfs_get_free_blocks rely on (bfs_directory.c and    *)
(* bfs_file.c store directory arrays, extent tables and file data in the   *)
(* runs they get without ever looking at the bitmap again): a run handed   *)
(* out is disjoint from every run already held.  No action gives a run     *)
(* back; only formatting the volume forgets them all.                      *)
(***************************************************************************)
EXTENDS Naturals

CONSTANT Block          \* the block numbers of the volume, naturals

VARIABLE held           \* the runs handed out, each a set of blocks

Init == held = {}

Take(run) ==
  /\ run # {}
  /\ run \cap UNION held = {}
  /\ held' = held \cup {run}

Forget == held' = {}

Next == Forget \/ \E first, last \in Block : Take(first .. last)

Spec == Init /\ [][Next]_held

=============================================================================
