---------------------------- MODULE BlockGroups ----------------------------
(***************************************************************************)
(* The free-space manager of the volume (bfs_bitmap.c), the two tables it  *)
(* depends on (bfs_init.c) and the life of the volume around it            *)
(* (fsInit.c): format, mount, exit and a crash between any two block       *)
(* writes.  LBAwrite syncs every block it writes, so the disk variables    *)
(* survive a crash and the memory variables do not.                        *)
(*                                                                         *)
(* A volume is GroupCount block groups of GroupSize blocks.  Group g       *)
(* starts at block FirstBitmap + g * GroupSize with its bitmap block; an   *)
(* index in a group is an offset from there (idx_to_bnum).                 *)
(***************************************************************************)
EXTENDS Integers, Sequences, FiniteSets

CONSTANTS
  GroupSize,    \* bfs_vcb->block_group_size, block_size * 8 (4096)
  GroupCount,   \* bfs_vcb->block_group_count (5)
  Window,       \* 2^8: the bit position is passed as a uint8_t (256)
  FirstBitmap,  \* gdt_len + 1, the block of the first bitmap (2)
  RootLen,      \* INIT_DIR_LEN, the length of the root directory (32)
  Requests,     \* the run lengths asked for once the volume is up
  LowBits,      \* set bits of block 0 in block_size
  MagicBits,    \* set bits of block 0 in magic (bits 768..799)
  GeomBits,     \* set bits of block 0 in the group fields that follow magic
  RootBits,     \* set bits of block 0 in root_loc and root_len
  MaxRuns,      \* bound: runs handed out
  MaxCrashes    \* bound: crashes

Groups   == 0 .. GroupCount - 1
Slots    == 0 .. GroupSize - 1
FieldBits == LowBits \cup MagicBits \cup GeomBits  \* what bfs_vcb_init sets
VcbBits  == FieldBits \cup RootBits

ASSUME GroupAssumption ==
  /\ GroupSize \in Nat
  /\ GroupCount \in Nat \ {0}
  /\ Window \in 1 .. GroupSize - 1
  /\ FirstBitmap \in Nat \ {0}
  /\ RootLen \in 1 .. Window - 1
  /\ Requests \subseteq 1 .. GroupSize - 1
  /\ MaxRuns \in Nat
  /\ MaxCrashes \in Nat

\* struct vcb_s (mfs.h) puts block_size at bit 0, magic at bit 768 and the
\* group fields and the root fields behind it.
ASSUME VcbAssumption ==
  /\ LowBits \subseteq 0 .. FirstBitmap + RootLen
  /\ MagicBits # {}
  /\ MagicBits \subseteq Nat /\ GeomBits \subseteq Nat /\ RootBits \subseteq Nat
  /\ \A m \in MagicBits : FirstBitmap + Window <= m
  /\ \A m \in MagicBits, b \in GeomBits \cup RootBits : m < b

\* What the theorems ask of the lengths requested.  All three hold of the two
\* lengths the shell asks for, one block and INIT_DIR_LEN.
RequestsFit == \A n \in Requests \cup {RootLen} : n <= GroupSize - Window
RequestsBelowMagic == \A n \in Requests, m \in MagicBits : n <= m
RequestsShort == \A n \in Requests : n <= FirstBitmap + RootLen + 1

VARIABLES
  block0,    \* disk: the set bits of block 0, the volume control block
  bitmap,    \* disk: the set bits of each group's bitmap block
  diskFree,  \* disk: free_blocks_count of each group in the GDT
  rootDir,   \* disk: the root directory array has been written
  vcb,       \* memory: bfs_vcb, {} when no session runs
  free,      \* memory: free_blocks_count of each group in bfs_gdt
  pc,        \* memory: where initFileSystem is, "up" when it has returned
  runs,      \* history: the runs handed out, the root directory's first
  released,  \* history: the runs, by position in runs, given to bfs_clear_blocks
  stop,      \* history: how the last session ended
  crashes    \* history: the number of crashes

disk == <<block0, bitmap, diskFree, rootDir>>
vars == <<block0, bitmap, diskFree, rootDir, vcb, free, pc, runs, released, stop, crashes>>

Run == [group : Groups, idx : Slots \cup {-1}, len : 1 .. GroupSize]

Formatting == {"vcb", "bitmaps", "gdt", "root", "vcb2"}

-----------------------------------------------------------------------------
(* bfs_bitmap.c *)

\* Mutant: one bit too few is marked.
mut_block_bit_set(bits, idx, n) ==
  bits \cup {(idx + i) % Window : i \in 0 .. n - 2}

\* The loop over block_bit_set.  position is a uint8_t, so the bit marked is
\* the one Window apart modulo Window, and -1 is Window - 1.
block_bit_set(bits, idx, n) ==
  bits \cup {(idx + i) % Window : i \in 0 .. n - 1}

Fits(bits, n) ==
  {h \in 0 .. GroupSize - n : (h .. h + n - 1) \cap bits = {}}

\* Mutant: the run found may include a bit in use, the last one.
mut_bitmap_find_avail_bits(bits, n) ==
  LET short == Fits(bits, n - 1)
  IN  IF short = {} THEN -1 ELSE CHOOSE h \in short : \A k \in short : h <= k

\* Head of the first n consecutive clear bits, -1 when there are none.
bitmap_find_avail_bits(bits, n) ==
  IF Fits(bits, n) = {} THEN -1
  ELSE CHOOSE h \in Fits(bits, n) : \A k \in Fits(bits, n) : h <= k

\* One turn of the loop that searches: bit b, behind count clear bits from head
\* on.  There are no more turns once there are n of them.
CheckBit(s, b, bits, n) ==
  IF s.count = n THEN s
  ELSE IF b \in bits THEN [head |-> -1, count |-> 0]
  ELSE [head |-> IF s.head < 0 THEN b ELSE s.head, count |-> s.count + 1]

\* bitmap_find_avail_bits as it is written, over all bits of a block.
SearchLoop(bits, n) ==
  LET seen[k \in 0 .. GroupSize] ==
        IF k = 0 THEN [head |-> -1, count |-> 0] ELSE CheckBit(seen[k - 1], k - 1, bits, n)
  IN  IF seen[GroupSize].count = n THEN seen[GroupSize].head ELSE -1

idx_to_bnum(idx, g) == idx + FirstBitmap + g * GroupSize

First(r)  == idx_to_bnum(r.idx, r.group)
Blocks(r) == First(r) .. First(r) + r.len - 1

\* Mutant: free_blocks_count is left as it was.
mut_Grant(n, g) ==
  LET idx == bitmap_find_avail_bits(bitmap[g], n)
  IN  /\ bitmap' = [bitmap EXCEPT ![g] = block_bit_set(@, idx, n)]
      /\ free' = free
      /\ runs' = Append(runs, [group |-> g, idx |-> idx, len |-> n])

\* bfs_get_free_blocks(n) served by group g.  The result of the search is
\* used without a check, -1 included.
Grant(n, g) ==
  LET idx == bitmap_find_avail_bits(bitmap[g], n)
  IN  /\ bitmap' = [bitmap EXCEPT ![g] = block_bit_set(@, idx, n)]
      /\ free' = [free EXCEPT ![g] = @ - n]
      /\ runs' = Append(runs, [group |-> g, idx |-> idx, len |-> n])

\* Mutant: one block too few is enough.
mut_Serves(g, n) == free[g] >= n - 1 /\ \A h \in 0 .. g - 1 : free[h] < n - 1

\* The first group whose counter promises n blocks serves the request; with
\* no such group the function returns -1 and nothing changes.
Serves(g, n) == free[g] >= n /\ \A h \in 0 .. g - 1 : free[h] < n

bfs_get_free_blocks(n) ==
  /\ pc = "up"
  /\ Len(runs) < MaxRuns
  /\ \E g \in Groups : Serves(g, n) /\ Grant(n, g)
  /\ UNCHANGED <<block0, diskFree, rootDir, vcb, pc, released, stop, crashes>>

\* Mutant: the loop starts at bit 0.
mut_bitmap_clear_n(bits, start, count) == bits \ (0 .. count - 1)

\* Mutant: the loop starts one bit late.
mut_bitmap_clear_n_late(bits, start, count) == bits \ (start + 1 .. count - 1)

\* count is the end of the loop, not the number of bits.
bitmap_clear_n(bits, start, count) == bits \ (start .. count - 1)

\* Freeing run k, which is never the root (run 1).  The block read, changed
\* and written is number start / GroupSize: block 0 for the first group.  For
\* the others start .. count - 1 is empty, since count < GroupSize <= start.
bfs_clear_blocks(k) ==
  LET start == First(runs[k])
  IN  /\ pc = "up" /\ k > 1 /\ k \notin released
      /\ block0' = IF start \div GroupSize = 0
                     THEN bitmap_clear_n(block0, start, runs[k].len)
                     ELSE block0
      /\ released' = released \cup {k}
      /\ UNCHANGED <<bitmap, diskFree, rootDir, vcb, free, pc, runs, stop, crashes>>

-----------------------------------------------------------------------------
(* fsInit.c: initFileSystem, one action per write to the disk *)

\* Mutant: a volume without a root directory is formatted again.
mut_Formatted == MagicBits \subseteq block0 /\ RootBits \subseteq block0 /\ rootDir

\* The test that tells an existing file system: the magic number alone.
Formatted == MagicBits \subseteq block0

\* An existing volume: read the VCB, the GDT and the root directory.  With no
\* root recorded, or no array there, root_len or "." is zero and no path
\* resolves: nothing can be created or found.
Mount ==
  /\ pc = "off" /\ Formatted
  /\ vcb' = block0
  /\ free' = diskFree
  /\ pc' = IF RootBits \subseteq block0 /\ rootDir THEN "up" ELSE "wedged"
  /\ UNCHANGED <<disk, runs, released, stop, crashes>>

\* Otherwise fill in the VCB over what block 0 holds, and write it.
FormatVcb ==
  /\ pc = "off" /\ ~Formatted
  /\ vcb' = block0 \cup FieldBits
  /\ block0' = vcb'
  /\ pc' = "vcb"
  /\ UNCHANGED <<bitmap, diskFree, rootDir, free, runs, released, stop, crashes>>

\* Mutant: the bit of the bitmap block itself is not set.
mut_bfs_gdt_init ==
  /\ pc = "vcb"
  /\ \E g \in Groups :
       /\ free[g] = 0 /\ \A h \in 0 .. g - 1 : free[h] # 0
       /\ bitmap' = [bitmap EXCEPT ![g] = {}]
       /\ free' = [free EXCEPT ![g] = GroupSize - 1]
       /\ pc' = IF g = GroupCount - 1 THEN "bitmaps" ELSE pc
  /\ UNCHANGED <<block0, diskFree, rootDir, vcb, runs, released, stop, crashes>>

\* One turn of the loop: the next group, the first whose descriptor calloc has
\* left at zero, gets a bitmap with its own bit set and its descriptor.
bfs_gdt_init ==
  /\ pc = "vcb"
  /\ \E g \in Groups :
       /\ free[g] = 0 /\ \A h \in 0 .. g - 1 : free[h] # 0
       /\ bitmap' = [bitmap EXCEPT ![g] = block_bit_set({}, 0, 1)]
       /\ free' = [free EXCEPT ![g] = GroupSize - 1]
       /\ pc' = IF g = GroupCount - 1 THEN "bitmaps" ELSE pc
  /\ UNCHANGED <<block0, diskFree, rootDir, vcb, runs, released, stop, crashes>>

FormatGdt ==
  /\ pc = "bitmaps"
  /\ diskFree' = free
  /\ pc' = "gdt"
  /\ UNCHANGED <<block0, bitmap, rootDir, vcb, free, runs, released, stop, crashes>>

FormatRoot ==
  /\ pc = "gdt"
  /\ \E g \in Groups : Serves(g, RootLen) /\ Grant(RootLen, g)
  /\ pc' = "root"
  /\ UNCHANGED <<block0, diskFree, rootDir, vcb, released, stop, crashes>>

FormatVcb2 ==
  /\ pc = "root"
  /\ vcb' = vcb \cup RootBits
  /\ block0' = vcb'
  /\ pc' = "vcb2"
  /\ UNCHANGED <<bitmap, diskFree, rootDir, free, runs, released, stop, crashes>>

\* The new root directory refers to no run but its own; until it is written
\* a root directory of an earlier format still refers to the older ones.
FormatDir ==
  /\ pc = "vcb2"
  /\ rootDir' = TRUE
  /\ runs' = <<runs[Len(runs)]>>
  /\ released' = {}
  /\ pc' = "up"
  /\ UNCHANGED <<block0, bitmap, diskFree, vcb, free, stop, crashes>>

\* Memory is gone: nothing of bfs_vcb and bfs_gdt is left.
Down == vcb' = {} /\ free' = [g \in Groups |-> 0] /\ pc' = "off"

\* Mutant: the VCB is not written on exit.
mut_exitFileSystem ==
  /\ pc \in {"up", "wedged"}
  /\ pc' = "exiting"
  /\ UNCHANGED <<disk, vcb, free, runs, released, stop, crashes>>

\* write_current_vcb; then ExitGdt is write_current_gdt and the end.
exitFileSystem ==
  /\ pc \in {"up", "wedged"}
  /\ block0' = vcb
  /\ pc' = "exiting"
  /\ UNCHANGED <<bitmap, diskFree, rootDir, vcb, free, runs, released, stop, crashes>>

ExitGdt ==
  /\ pc = "exiting"
  /\ diskFree' = free
  /\ Down
  /\ stop' = "exit"
  /\ UNCHANGED <<block0, bitmap, rootDir, runs, released, crashes>>

\* The shell dies without exitFileSystem: a signal, or the end of its input,
\* on which main dereferences the NULL that readline returns.
Crash ==
  /\ pc # "off"
  /\ crashes < MaxCrashes
  /\ Down
  /\ stop' = "crash"
  /\ crashes' = crashes + 1
  /\ UNCHANGED <<disk, runs, released>>

-----------------------------------------------------------------------------
\* startPartitionSystem has just created a volume file full of zeros.
Init ==
  /\ block0 = {} /\ rootDir = FALSE
  /\ bitmap = [g \in Groups |-> {}]
  /\ diskFree = [g \in Groups |-> 0]
  /\ vcb = {} /\ free = [g \in Groups |-> 0] /\ pc = "off"
  /\ runs = <<>> /\ released = {} /\ stop = "none" /\ crashes = 0

Format == FormatVcb \/ bfs_gdt_init \/ FormatGdt \/ FormatRoot \/ FormatVcb2 \/ FormatDir

Next ==
  \/ Mount
  \/ Format
  \/ \E n \in Requests : bfs_get_free_blocks(n)
  \/ \E k \in DOMAIN runs : bfs_clear_blocks(k)
  \/ exitFileSystem
  \/ ExitGdt
  \/ Crash

Spec == Init /\ [][Next]_vars

-----------------------------------------------------------------------------
(* Properties *)

\* Every variable has its type.
TypeOK ==
  /\ block0 \subseteq VcbBits /\ vcb \subseteq VcbBits
  /\ bitmap \in [Groups -> SUBSET Slots]
  /\ diskFree \in [Groups -> Nat] /\ free \in [Groups -> Nat]
  /\ rootDir \in BOOLEAN
  /\ pc \in {"off", "up", "wedged", "exiting"} \cup Formatting
  /\ runs \in Seq(Run)
  /\ released \subseteq DOMAIN runs
  /\ stop \in {"none", "exit", "crash"}
  /\ crashes \in Nat

\* Allocation never reaches the bitmap block of its group and never starts
\* beyond the window: bits from Window on are never set, so first fit cannot
\* pass them, and every search it makes succeeds, even on counters a crash has
\* left too high.  (For requests that fit above the window.)
RunsStayInReach ==
  \A k \in DOMAIN runs :
    runs[k].idx \in 1 .. Window /\ runs[k].idx + runs[k].len <= GroupSize

InWindow(r) == r.idx >= 0 /\ r.idx + r.len <= Window

\* A run that lies in the window is never handed out again, in whole or in
\* part, through any number of frees, exits, crashes and mounts.
WindowRunsDisjoint ==
  pc \notin Formatting =>
    \A j, k \in DOMAIN runs :
      j < k /\ InWindow(runs[j]) => Blocks(runs[j]) \cap Blocks(runs[k]) = {}

\* Without a crash the counters never promise more blocks than the bitmap has
\* clear, in memory and in what the next session will read.
FreeCountBacked ==
  crashes = 0 =>
    \A g \in Groups :
      /\ free[g] <= Cardinality(Slots \ bitmap[g])
      /\ diskFree[g] <= Cardinality(Slots \ bitmap[g]) \/ pc # "off"

\* A volume whose magic number is intact has the block size and the group
\* fields intact: clearing bits of block 0 by mistake always starts above the
\* block size and passes the magic number before it reaches the others.
MagicVouches == MagicBits \subseteq block0 => FieldBits \subseteq block0

\* After a regular exit the volume is never formatted again, whatever frees
\* have done to block 0: exit writes the intact copy back.
ExitedVolumeRemounts == pc = "off" /\ stop = "exit" => FieldBits \subseteq block0

\* Freeing runs no longer than FirstBitmap + RootLen + 1, all the shell can ask
\* for, never takes a bit from block 0 either.
VcbNeverDamaged == [][block0 \subseteq block0']_vars

\* A format cut short after its first write leaves a volume that is taken for
\* an existing file system for ever after, and never gets a root directory.
HalfFormatted ==
  /\ pc \in {"off", "wedged", "exiting"}
  /\ MagicBits \subseteq block0
  /\ ~(RootBits \subseteq block0 /\ rootDir)
HalfFormatIsForever == [][HalfFormatted => HalfFormatted']_vars

\* Runs in the window behave as runs of FreshRuns.  A format forgets the runs
\* when it starts and takes the root directory's when it ends.
held ==
  IF pc \in Formatting THEN {}
  ELSE {Blocks(runs[k]) : k \in {j \in DOMAIN runs : InWindow(runs[j])}}
Fresh == INSTANCE FreshRuns WITH Block <- 0 .. idx_to_bnum(0, GroupCount)
ImplementsFreshRuns == Fresh!Spec

-----------------------------------------------------------------------------
(* What a comment says of the code, and the code does not do *)

\* bfs_bitmap.c: bfs_get_free_blocks marks the blocks it returns as used.
GrantedBlocksAreMarked ==
  \A k \in DOMAIN runs :
    runs[k].idx .. runs[k].idx + runs[k].len - 1 \subseteq bitmap[runs[k].group]

=============================================================================
