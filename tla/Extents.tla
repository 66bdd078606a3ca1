------------------------------- MODULE Extents -------------------------------
(***************************************************************************)
(* The extents of files (bfs_file.c): the loop of bfs_create_extent, which *)
(* asks for fewer and fewer blocks until it has enough, the array of       *)
(* blocks that the descriptors walk, and the freeing of a deleted file.    *)
(* Beside them what b_io.c does with a file's extent block: b_open puts it *)
(* on the disk and b_write adds a leaf to it.                              *)
(*                                                                         *)
(* A leaf is a first block and a number of blocks.  bfs_get_free_blocks    *)
(* hands out any run of blocks not handed out before (BlockGroups says     *)
(* when that holds), or refuses: its counters go down and never up, so     *)
(* that it may refuse with blocks to spare.                                *)
(***************************************************************************)
EXTENDS Integers, Sequences, SequencesExt

CONSTANTS
  Files,
  Lengths,     \* blocks a file is created with (INIT_FILE_LEN), or more
  Adds,        \* blocks a call of b_write adds, one for each of the shell's
  VolumeSize,  \* blocks of the volume, numbered from 1
  MaxExtents   \* leaves an extent block has room for (31)

ASSUME ExtentsAssumption ==
  /\ Lengths \subseteq Nat /\ Adds \subseteq Nat
  /\ VolumeSize \in Nat /\ MaxExtents \in Nat
  /\ "none" \notin Files

VARIABLES
  table,    \* disk: each file's extent block, where it is and its leaves
  making,   \* memory: the locals of bfs_create_extent while it runs
  taken,    \* disk: the blocks bfs_get_free_blocks has handed out
  cleared   \* history: the blocks bfs_clear_blocks was given

vars == <<table, making, taken, cleared>>

Volume  == 1 .. VolumeSize
Refused == -1
Absent  == [at |-> 0, leaves |-> <<>>]
Idle    == [file |-> "none", asked |-> 0, needed |-> 0, ext_len |-> 0, is_odd |-> 0,
            leaves |-> <<>>]

\* The blocks of a leaf; one whose blocks were refused has none.
Run(leaf) == IF leaf.ext_block = Refused THEN {}
             ELSE leaf.ext_block .. leaf.ext_block + leaf.ext_len - 1

\* What bfs_get_free_blocks may answer.
Runs(n)    == {b \in Volume : b .. b + n - 1 \subseteq Volume \ taken}
Answers(n) == Runs(n) \cup {Refused}

-----------------------------------------------------------------------------
(* Creating a file with n blocks *)

\* Mutant: the length is not reduced modulo 2.
mut_bfs_create_extent(f, n) ==
  /\ making = Idle /\ table[f] = Absent
  /\ making' = [file |-> f, asked |-> n, needed |-> n, ext_len |-> n, is_odd |-> n,
                leaves |-> <<>>]
  /\ UNCHANGED <<table, taken, cleared>>

bfs_create_extent(f, n) ==
  /\ making = Idle /\ table[f] = Absent
  /\ making' = [file |-> f, asked |-> n, needed |-> n, ext_len |-> n, is_odd |-> n % 2,
                leaves |-> <<>>]
  /\ UNCHANGED <<table, taken, cleared>>

\* Mutant: the odd block is asked for and not recorded.
mut_Leaf(loc, m) == [ext_block |-> loc, ext_len |-> m.ext_len]

\* The leaf of a run granted, the odd block included.
Leaf(loc, m) == [ext_block |-> loc, ext_len |-> m.ext_len + m.is_odd]

\* Mutant: the odd block is counted twice.
mut_Counted(m) == m.needed - m.ext_len - 2 * m.is_odd

\* The odd block is not counted, so that an odd length takes one block more, or
\* one turn more.
Counted(m) == m.needed - m.ext_len

\* Mutant: nothing is counted down.
mut_TakeRun ==
  /\ making # Idle /\ making.needed > 0
  /\ \E loc \in Runs(making.ext_len + making.is_odd) :
       /\ taken' = taken \cup (loc .. loc + making.ext_len + making.is_odd - 1)
       /\ making' = [making EXCEPT !.leaves = Append(@, Leaf(loc, making)), !.is_odd = 0]
  /\ UNCHANGED <<table, cleared>>

TakeRun ==
  /\ making # Idle /\ making.needed > 0
  /\ \E loc \in Runs(making.ext_len + making.is_odd) :
       /\ taken' = taken \cup (loc .. loc + making.ext_len + making.is_odd - 1)
       /\ making' = [making EXCEPT !.leaves = Append(@, Leaf(loc, making)),
                                   !.needed = Counted(making),
                                   !.is_odd = 0]
  /\ UNCHANGED <<table, cleared>>

\* Mutant: an odd length is not halved, but made even.
mut_Half(m) == IF m.is_odd = 1 THEN m.ext_len ELSE m.ext_len \div 2

Half(m) == m.ext_len \div 2

\* A refused request is made again for half the blocks.  When nothing is left
\* to be halved the function fails, and what it has taken is lost.
Retry ==
  /\ making # Idle /\ making.needed > 0
  /\ making' = IF Half(making) < 1 THEN Idle ELSE [making EXCEPT !.ext_len = Half(making)]
  /\ UNCHANGED <<table, taken, cleared>>

\* The leaves go to the extent block, if it has room for them, and b_open puts
\* that block on the disk, if it gets one.
Finish ==
  /\ making # Idle /\ making.needed <= 0
  /\ \E at \in Answers(1) :
       IF Len(making.leaves) > MaxExtents
         THEN UNCHANGED <<table, taken>>
         ELSE /\ taken' = taken \cup ({at} \ {Refused})
              /\ table' = IF at = Refused THEN table
                          ELSE [table EXCEPT ![making.file] =
                                  [at |-> at, leaves |-> making.leaves]]
  /\ making' = Idle
  /\ UNCHANGED cleared

-----------------------------------------------------------------------------
(* Files that are there *)

NewLeaf(loc, n) == [ext_block |-> loc, ext_len |-> n]

\* b_write adds a leaf for the blocks of its bytes, refused or not.
b_write(f, n) ==
  /\ making = Idle /\ table[f] # Absent /\ n > 0
  /\ Len(table[f].leaves) < MaxExtents
  /\ \E loc \in Answers(n) :
       /\ table' = [table EXCEPT ![f].leaves = Append(@, NewLeaf(loc, n))]
       /\ taken' = taken \cup Run(NewLeaf(loc, n))
  /\ UNCHANGED <<making, cleared>>

\* The blocks of the leaves in their order.
bfs_extent_array(leaves) ==
  FlattenSeq([i \in DOMAIN leaves |->
                [j \in 1 .. leaves[i].ext_len |-> leaves[i].ext_block + j - 1]])

\* Mutant: the header is taken for the first leaf.
mut_free_extents(leaves) == IF leaves = <<>> THEN {} ELSE 1 .. Len(leaves)

\* The blocks freed are those of the first leaf: the function returns from
\* within its loop.  Nothing can be freed at a refused location.
free_extents(leaves) == IF leaves = <<>> THEN {} ELSE Run(leaves[1])

\* bfs_delete_file.  The extent block itself is not freed.
bfs_delete_file(f) ==
  /\ making = Idle /\ table[f] # Absent
  /\ cleared' = cleared \cup free_extents(table[f].leaves)
  /\ table' = [table EXCEPT ![f] = Absent]
  /\ UNCHANGED <<making, taken>>

\* The session ends in the middle of a creation.
Crash ==
  /\ making # Idle
  /\ making' = Idle
  /\ UNCHANGED <<table, taken, cleared>>

Init ==
  /\ table = [f \in Files |-> Absent]
  /\ making = Idle
  /\ taken = {} /\ cleared = {}

Turn == TakeRun \/ Retry \/ Finish

Next ==
  \/ \E f \in Files, n \in Lengths : bfs_create_extent(f, n)
  \/ Turn
  \/ \E f \in Files, n \in Adds : b_write(f, n)
  \/ \E f \in Files : bfs_delete_file(f)
  \/ Crash

Spec == Init /\ [][Next]_vars

\* The loop goes on by itself.
FairSpec == Spec /\ WF_vars(Turn)

-----------------------------------------------------------------------------
(* Properties *)

Leaves == Seq([ext_block : Volume \cup {Refused}, ext_len : Nat])

\* Every variable has its type.
TypeOK ==
  /\ table \in [Files -> [at : {0} \cup Volume, leaves : Leaves]]
  /\ making \in [file : Files \cup {"none"}, asked : Nat, needed : Int, ext_len : Nat,
                 is_odd : {0, 1}, leaves : Leaves]
  /\ taken \subseteq Volume /\ cleared \subseteq Volume

\* The array on the stack has room for every leaf, however often a request is
\* refused: its size is the number of blocks asked for at first.
LeavesFit == Len(making.leaves) <= making.asked

\* The leaves of a file, on the disk or in a creation under way.
Listed(f) == IF f = making.file THEN making.leaves ELSE table[f].leaves

\* No block is in two leaves, in a leaf and an extent block, or in a leaf and
\* among the blocks given to bfs_clear_blocks.
BlocksHaveOneOwner ==
  \A f \in Files : \A i \in DOMAIN Listed(f) :
    /\ Run(Listed(f)[i]) \subseteq taken \ cleared
    /\ \A g \in Files : table[g].at \notin Run(Listed(f)[i])
    /\ \A g \in Files : \A j \in DOMAIN Listed(g) :
         <<f, i>> # <<g, j>> => Run(Listed(f)[i]) \cap Run(Listed(g)[j]) = {}

\* A file is created with the blocks asked for, and with half of them more at
\* most, or one.
Count(leaves) == Len(bfs_extent_array(leaves))
CreatedFilesAreCovered ==
  [][\A f \in Files : table[f] = Absent /\ table'[f] # Absent =>
       Count(table'[f].leaves) \in making.asked .. making.asked + 1 + making.asked \div 2]_vars

\* Blocks handed out that nothing refers to.
Lost ==
  {b \in taken : \A f \in Files :
     b # table[f].at /\ \A i \in DOMAIN Listed(f) : b \notin Run(Listed(f)[i])}

\* Only a creation that fails or is cut short, and a deletion, lose blocks: one
\* that succeeds lists every block it has taken, in however many turns.
SuccessLosesNothing ==
  [][(\A f \in Files : table[f] # Absent => table'[f] # Absent)
       /\ (making # Idle /\ making' = Idle => table' # table)
       => Lost' = Lost]_vars

\* The loop has an end, however many requests are refused.
CreationEnds == making # Idle ~> making = Idle
=============================================================================
