# A TLA+ model of the Basic File System

This directory holds TLA+ modules, TLC configurations and TLAPS proofs for the
file system in `../src`: a volume in a file, a free-space manager with block
groups and bitmaps, directories, files with extents and buffered I/O, and a
shell that drives them.  The source is the reference; a module says at its head
which files it models, and `PROJECT.json` maps each definition to its lines.

## The system

One process, one thread: the shell reads a command, runs it to its end and reads
the next.  What makes the program hard to test is not concurrency but *state that
lives in two places* (memory and disk, a bitmap and a counter, a directory's array
and its entry in the parent, a descriptor and the directory), *long sequences of
commands* (most tests stop before block 256 of a group or the second block of a
file), and *a session that may end between any two block writes*: by a signal, by
the end of its input, or by the allocator, since several commands corrupt the heap.

| Component | State | Operations | Behaviour that is hard | What makes it correct |
|---|---|---|---|---|
| Free-space manager (`bfs_bitmap.c`) | bitmap of each group (disk); free counts in `bfs_gdt` (memory, disk on exit) | `bfs_get_free_blocks`, `bfs_clear_blocks` | 8-bit positions, counters against bitmaps across crashes, frees that hit block 0 | a run held is never handed out again; a search that is begun succeeds; the volume control block stays whole |
| Volume life (`fsInit.c`, `bfs_init.c`) | volume control block, descriptor table | format, mount, exit | a format or an exit cut short | what the magic number vouches for is there; what was formatted can be used |
| Paths (`expand_pathname` and callers) | `bfs_path` | expansion, directory and name of a path | `..`, relative paths, use after free | the path leads to a directory for as long as that directory is listed |
| Directories (`bfs_directory.c`) | array of entries at each location | `fs_mkdir`, `fs_rmdir`, `fs_setcwd`, lookup, `fs_readdir` | two writes per mkdir, a recursion that edits what it walks, cycles that mv makes, full directories, refused blocks | directories form a tree, lookup and listing agree with it, removal ends, frees what is below its argument and never the root |
| Creation, deletion, renaming (`b_io.c`, `bfs_file.c`) | the same arrays, extent blocks | `b_open`, `fs_delete`, `b_move` | names looked up in another directory than they are used in | a name is listed once, what is listed is not freed, whatever mv lists where |
| Buffered I/O (`b_io.c`) | descriptors with a block buffer, block array and index; size in the directory | `b_open`, `b_read`, `b_write`, `b_close` | block boundaries, three disk writes per call, refused blocks, results nobody looks at, a failed read's -1 used as a count, flush by readers | a copy is the file, a size is backed by blocks, block arrays are never over-read, block 0 is spared, a command ends |
| Extents (`bfs_file.c`) | extent block of a file | create, array, read, write, free | odd lengths, requests refused in between, the limit of 31 | a block has one owner, the leaves fit where they are kept, a file has the blocks it asked for |
| Shell (`fsshell.c`) | argument vector, copy buffer | the cutting of a line, the commands | quotes and escapes at the end of a line, loops that stop on a short count only | the vector is large enough, the arguments are the words typed, every command returns |
| Block device (`fsLow.o`), `Hexdump` | the volume file | `LBAread`, `LBAwrite` | not part of the source | a block write is atomic and durable |

The components call each other directly.  Directories, files and descriptors take
their blocks from the free-space manager and never look at a bitmap themselves;
files and directories share the directory arrays on the disk; `bfs_vcb`, `bfs_gdt`,
`bfs_path` and `bfs_cwd` are globals that a crash takes away.

## Modules

```
FreshRuns <--refines-- BlockGroups <-- BlockGroupsProofs --> LeastNumbers
PathTree  <--refines-- Namespace --> Paths
Namespace   <-- NamespaceProofs <-- ListingProofs <-- TreeProofs
Extents     <-- ExtentsProofs
FileIO      <-- FileIOProofs
CommandLine <-- CommandLineProofs
```

`LeastNumbers` holds the facts about numbers that stand in for inductions: a set of numbers
has a least element, and a recursive function over `0 .. n` has the values its steps compute
(`BlockGroupsProofs`, `ExtentsProofs`, `CommandLineProofs` and `NamespaceProofs` use it).

Each of `BlockGroups`, `Namespace`, `Extents`, `FileIO` and `CommandLine` has a module
`MC...` with the sets its configurations use.  The modules meet where one component
calls another: `Namespace` and `Extents` take from the free-space manager a fresh
location or a refusal, which is what `BlockGroups` and `FreshRuns` say it answers;
`FileIO` sees an extent block as the sequence of blocks that `Extents` shows it to be
(`BlocksHaveOneOwner`: one block is nobody else's); the commands of `Namespace` and `FileIO` are
what `CommandLine` calls dispatch.

### BlockGroups, FreshRuns, BlockGroupsProofs

`BlockGroups` is the free-space manager with the life of the volume around it.
`block0`, `bitmap`, `diskFree` and `rootDir` are on the disk; `vcb`, `free` and `pc`
in memory; `runs`, `released`, `stop` and `crashes` are history.  Format is one
action per disk write (`FormatVcb`, `bfs_gdt_init` once per group, `FormatGdt`,
`FormatRoot`, `FormatVcb2`, `FormatDir`), exit is two (`exitFileSystem`, `ExitGdt`),
and `Crash` may fall between any two.  A crash between the bitmap's write and the
return of `bfs_get_free_blocks` is the same as one just after it, since the counter
is in memory.  Block 0 is a set of bits in four fields, as far as frees can reach:
`block_size`, the magic number, the group fields and the root fields.

The geometry is a parameter: `Window` is 2^8, because `block_bit_set` takes its
position as a `uint8_t`, and `GroupSize` is 4096.  That is the heart of the module:
bits from `Window` on are never set, so a group looks free from there on for ever.

`FreshRuns` is what callers rely on: a run handed out is disjoint from every run
held.  `BlockGroups` implements it for the runs that lie in the window
(`ImplementsFreshRuns`), and `GrantedBlocks.cfg` shows what happens to the others.

### Paths, Namespace, PathTree

`Paths` models path texts as sequences of tokens with or without a leading slash,
`..` and the double free included (`Empties`; a text of more than 24 bytes may leave the
copy of the input to be reused instead, which is not modelled).  `Namespace` models the
directory arrays (`dirs`, by location), the session's path (`cwd`), `fs_mkdir` with its
two writes (`fs_mkdir`, `WriteNewDir`), `b_open` as far as it creates, `fs_delete` under
`rm`, `b_move`, `fs_setcwd`, `fs_readdir`, and `bfs_remove_dir`, whose recursion is the
stack `removing` with one action per step of the loop and a session that dies when the
stack is full (`StackOverflow`).  A freed `bfs_path` holds the old path, the argument or
garbage, as the allocator likes.  What the session does when it dies (a lookup that frees
twice) is `Restart`.  Directories not yet written have size 0 in their first slot, so that
nothing is found in them; this is how the module treats directories that a crash in
`fs_mkdir` has left behind.

*Refused blocks.*  `fs_mkdir` does not look whether `bfs_get_free_blocks` has answered -1,
and lists the directory there.  The module writes 0 for that location: reads and writes
there fail, which most callers do not notice.  A buffer that has not been read keeps what
the memory held before, the array of another directory maybe (`Buffers`); it is taken to
be an array as it is on the disk now, never an older one or none at all.

*Full directories.*  32 blocks of 512 bytes hold 120 whole entries of 136 bytes and the first 64
bytes of one more, which is enough for its name when that is short: what is behind the
last whole entry can be listed and not be found.  `Insert` appends without looking, as mkdir, `b_open` and `b_move` do;
`find_file` stops at the whole entries; `fs_readdir` goes on to the empty name.  That mkdir
and touch may end the session there, when the heap behind the buffer matters, is
covered by `Crash` and `Restart`.

`PathTree` is the abstract specification: a set of paths closed under prefix, to
which a leaf is added or from which paths of one subtree are taken.

### Extents

The life of an extent block: `bfs_create_extent` with one action per turn of its loop
(`TakeRun` for a request granted, `Retry` for one refused, `Finish`), `b_write`'s new leaf,
refused or not, `bfs_delete_file` with the one leaf `free_extents` frees, and a `Crash`
within a creation.  A request is granted any free run or refused whatever is free, because
the counters of the free-space manager only go down.  In this build files are created
with no blocks (`INIT_FILE_LEN` is 0 in `mfs.h`) and `b_write` adds single ones, so the
lengths of `Lengths` other than 0 are those the function is written for.

### FileIO

Files as the commands see them.  A command is the loop of `fsshell.c`: open (`cmd_cp`,
`cmd_cp2l`, `cmd_cp2fs`, `cmd_cat`, which reads chunks one byte shorter), read (`ReadFile`,
`ReadLinux`), write (`WriteLinux`, or the three disk writes of `b_write`: `Extend`, `Store`,
`Record`), close (`CloseSrc`, `CloseDst`).  A block is a sequence of cells, each the number
of the byte of the Linux file that is stored there, 0, or junk from an uninitialised
buffer.  `next_block`'s index, which counts one behind the current block, the buffer
and its index, and the size as an unsigned number modulo `SizeLimit` are as in the code.

*Refused blocks.*  `bfs_get_free_blocks` answers a block or -1, and `b_write` adds a leaf with
either (`NewLeaf`).  A call that finds its first block refused ends there (`AtFirstBlock`) and
leaves the descriptor at the block refused, so that the next call goes on.  A call whose
`next_block` fails after its buffer has been filled ends in `Stored` without a size being
recorded and with the index at the buffer's end, so that the next one copies behind the
buffer (`Overruns`).  The loops look at no result of `b_write` and go on (`AfterWrite`).

*Opens that fail.*  The destination need not open: it may be a directory, be in none, or be
refused its extent block, and the loop goes on with descriptor -1 (`NoFcb`, `WriteNowhere`) until
`b_close` of it kills the session (`DieInClose`).  When the first block of a file cannot be read,
`b_open` returns 1 and leaves the slot half filled (`Stray`).  If the source has slot 0, that slot
is the one descriptor 1 stands for: the file is there and its buffers are NULL
(`HalfOpen`, `ExtendHalfOpen`, `StoreHalfOpen`).  What the last user of the slot has left in its other
fields decides whether a call ends early, and is a choice in the model.  `Init` has files
that were created when no block was to be had for their first bytes, so that the first
command already meets one.

*cat* prints its buffer whatever the count of the read was, so that a failed read shows the
chunk before it once more (`WriteLinux`).  `printf` stops at a NUL; whether a byte of an
uninitialised buffer is one is a choice.

*Ends of a session.*  An extent block that is full makes `b_write` give up (`FailToReallocate`) or read
more blocks than its buffer has room for (`Overflows`).  `DieInWrite` stands for that overflow, the one
behind the block's buffer and the copy to NULL; that the allocator ends the session before
anything of it reaches the disk is taken for granted.

### CommandLine

`processcommand` cuts a line in place: `Gap`, `Escaped`, `Quote` and `Other` are the turns of
its two loops, the one over the line and the one that looks for a closing quote (`quote`),
and `Dispatch` is what follows them.  `ArgumentsAreWords` compares the result with a
definition of words that reads the line once from its start (`Reading`, `Words`).

## Runs

| Run | Shows |
|---|---|
| `BlockGroups.cfg` | with the lengths the shell asks for, 2 groups of 8 blocks, window 4, 5 runs, 1 crash: type invariant, `RunsStayInReach`, `WindowRunsDisjoint`, `FreeCountBacked`, `VcbNeverDamaged`, `HalfFormatIsForever`, refinement of `FreshRuns` |
| `BlockGroupsLong.cfg` | 2 groups of 13 blocks, 4 runs of 1, 2, 7, 8 or 9 blocks, as a long `b_write` would ask for: frees that clear the bits of block 0 up to the magic number (6), the geometry (7) and the root (8), 2 crashes: `MagicVouches`, `ExitedVolumeRemounts` |
| `Namespace.cfg` | md, touch, rm, cd without mv and crashes, up to 4 locations below the root: `TreeShape`, `LookupFollowsTree`, `RemovalLeaves`, refinement of `PathTree` |
| `NamespaceMoves.cfg` | mv within and across directories, removals of what mv has listed twice or in a cycle, a stack of 6 calls, one crash inside any command: `RemovalFollowsListing`, `RootIsNeverRemoved`, `CwdStaysDirectory`, `UnreadyIsForever`, `DirsStayListed`, `RemovalEnds` |
| `NamespaceFull.cfg` | directories of two entries and the part of a third, three names, refused requests, one crash: type invariant, `TreeShape`, `ListingAgreesWithLookup`, `NamesUnique` |
| `Extents.cfg` | two files on 5 blocks, created with 0, 1, 3 or 4 blocks, written to and deleted, any request refused: type invariant, `LeavesFit`, `BlocksHaveOneOwner`, `CreatedFilesAreCovered`, `SuccessLosesNothing`, `CreationEnds` |
| `FileIO.cfg` | two commands that write, any number that read, two files, lengths around a chunk, cat's chunk, a block and what the extents hold and a missing file, one request refused to a file before the volume is full and any afterwards, opens that fail, one crash: type invariant, `ArraysNotOverrun`, `BlockZeroSpared`, `SizeIsBacked`, `ShortFilesRoundTrip`, `OnlyDestinationChanges`, `CopyEnds` |
| `CommandLine.cfg` | every line of up to 6 characters out of a space, an escape, two quotes and a letter: type invariant, `VectorFits`, `ArgumentsAreWords` |

Four configurations each check one sentence of the headers, comments or the source's README
that the code does not keep; TLC prints the shortest way there.

| Run | Sentence | What the code does |
|---|---|---|
| `GrantedBlocks.cfg` | blocks returned are marked | not from bit 256 of a group on |
| `StaleRemoval.cfg` | a directory is removed with its contents | one whose blocks were refused is removed with another directory's |
| `MoveMoves.cfg` | mv moves a file | deletes the destination's namesake in the session's directory, and moves nothing |
| `LongCopies.cfg` | cp2l copies a file | the first block is read twice |

The models contain further disagreements, which no configuration checks.  `bfs_clear_blocks`
is said to "free n consecutive blocks" (`bfs.h:121`, `bfs_bitmap.c:171`) and clears no bit of
any bitmap, only bits of block 0 when the start is low (`bfs_clear_blocks`), so that no space
ever comes back; and `free_blocks_count` is counted
down for blocks that stay unmarked; a crash takes it back to the last regular exit.  A
directory that is not its parent's first entry is freed by rm and stays listed (`Unlink`).
cd with a relative argument expands it against a path just freed and may leave a
path that is not absolute (`fs_setcwd`).  touch creates a file beside one of the same name
when its argument is not in the session's directory (`b_open`).  rm of a file frees the file
that the name alone finds from the session's path, and takes the entry of that name out of the
directory of its argument, a subdirectory's too; with absolute arguments to cd this cannot
be a subdirectory (`DirsStayListed`).  An argument that comes out
as the root from a directory of the root is freed twice and ends the session (`Empties`,
`Survives`).  mv across directories lists the source's directory at its destination.
mkdir lists a directory before it writes its array
(`UnreadyIsForever` says what a crash in between leaves).  A deletion frees the first leaf's
blocks only (`free_extents`).  `bfs_create_extent` takes up to half as many blocks again as
it was asked for when an odd request is refused at first.  cp of a file whose length is a
multiple of the buffer, and cp of a missing file, count the size down by the failed
read's -1, below 0 to 2^64 - 1 for an empty one, and the next command that writes there counts it up
through 0 again (`b_io.c:402`); `O_TRUNC` has no effect.
cat, which is to show "the file" on the console (`fsshell.c:81`), shows the last chunk twice when a
file is a multiple of 199 bytes (`fsshell.c:302-304`; `Reprinted`).  `b_write` is to "ensure that there
are enough blocks to write to" (`b_io.c:298`), and goes on when a block has been refused: the bytes are lost,
although calls that follow may record a size for them (`Extend`, `Store`).

### Bounds

*Geometry.* 8 or 13 blocks to a group keep what matters of 4096 and 256: the window is
smaller than a group, a run may end in, across or above it, the magic number lies
behind the window and the other fields behind it.  The theorems hold for every
geometry of that kind.  Five runs fill the window and go past it; in
`BlockGroupsLong.cfg` four do, because their requests are longer than the window, up to one
that clears every field of block 0.  `MaxCrashes` is a bound of the runs; the theorems
hold for any, but for those that say that nothing crashes.

*Names and places.*  Two names and four locations besides the root allow a directory
with a second entry, a directory in a directory, a namesake elsewhere and a removal
of depth two; `NamespaceFull.cfg` takes three names, because `Capacity = 4` leaves room for
two entries and the one behind them.  `MaxDepth` is above the number of locations, so that
only a cycle fills the stack.  `MaxCwd`, `MaxSlots` bound what cd and mv would let grow for
ever.

*Extents.*  5 blocks are enough for an odd length to be refused, halved and granted in
parts beside the extent block, and for another file to be in the way; 31 leaves become 3,
fewer than the largest length asked for, so that a creation fails at its end too.

*Files.*  512, 200 and 31 become 7, 3 and 5: a block takes two chunks and a part of the
third, the largest file takes three blocks, and chunks do not fill blocks to the last
byte within an extent block, as 200 does not in 512.  cat's chunk of 2 divides the lengths 2, 4
and 8, within a block and behind it.
`MaxCalls = 2` allows a file to be filled and then copied, overwritten or copied to itself.
`SizeLimit = 64` is large against all sums, so that only a count below zero wraps.
`MaxBlocks = 6` is more than one full file and less than two, so that the volume runs out; before it
does, `MaxRefusals = 1` refuses each file one block at any of its calls.  `LongCopies.cfg` has 8 blocks
and no refusals.  `MaxCrashes` is 1, because a second
crash meets what the first has left only through `Start`, which `MaxCalls` bounds.  The theorems
of `FileIOProofs` take any number of refusals and crashes, and of commands up to the bytes of a chunk.

*Lines.*  Six characters hold a quotation of either kind with an escape and a space in it
and a word on each side; the size of the vector is proved for lines of any length.

### Fairness

The `FairSpec` of `Namespace`, `Extents` and `FileIO` assumes weak fairness of
the steps of a command under way and of nothing else: the shell has one thread and waits
for the function it has called.  No command need ever be typed, no request need be
granted, and no crash need happen.

## Proofs

The theorems hold for every value of the constants that satisfies the modules' assumptions.

### The free-space manager

`BlockGroupsProofs` proves, for every geometry that satisfies `GroupAssumption` and
`VcbAssumption` and any bounds, what the runs check of `BlockGroups`.

| Theorem | Says |
|---|---|
| `TypeCorrect` | `Spec => []TypeOK`; in particular counters never go below zero |
| `InReach` | `RunsStayInReach`: every search that is begun succeeds, near the window |
| `NeverHandedOutTwice` | `WindowRunsDisjoint` |
| `MagicIsEnough` | `MagicVouches` |
| `HalfFormatStays` | `HalfFormatIsForever` |
| `Implements` | `ImplementsFreshRuns` |
| `VcbStaysWhole` | `VcbNeverDamaged` |
| `CountersAreBacked` | `FreeCountBacked` |
| `ExitedStaysFormatted` | `ExitedVolumeRemounts` |
| `LoopIsFirstFit` | the search loop as it is written (`SearchLoop`) answers what `bitmap_find_avail_bits` does in the model, for any bitmap |

`InReach` and what follows from it assume `RequestsFit` (no request is longer than a
group is above its window, 3840 blocks), `NeverHandedOutTwice`, `MagicIsEnough` and
`Implements` also `RequestsBelowMagic` (769 blocks is too long), `VcbStaysWhole`
`RequestsShort` (35 blocks).  The shell asks for 1 and 32.  `ExitedStaysFormatted` holds on either
of two grounds: requests below the magic number keep it through any crashes; without
crashes the requests may have any length, because exit writes back the copy in memory,
which no free reaches.

The argument.  None of the properties is inductive.  `ReachInv` adds that every bit
set lies below `Window` and that the bit of a group's own bitmap block is set once the
group is formatted: hence first fit finds a run at `Window` at the latest, and never
at 0.  `KeepInv` adds what ties history to disk: outside of a format the bits of each
run in the window are set in its group's bitmap; the first run is the root directory at
the front of group 0, so that every run that can be freed lies behind it, and the
clearing loop of a short run is empty; block 0 is either untouched or has the fields
of the format.  A grant takes clear bits, so in the window it takes no bit of an older
run, and outside of it no old run in the window reaches.  `ShortInv` adds that the
copy in memory and block 0 agree while a session runs, `CountInv` is the counter
property itself: a grant marks at most as many bits as it counts down.

The model's search is the least element of a set of candidates (`LeastNat` of
`LeastNumbers`, `FirstFit`).  `LoopIsFirstFit` shows that the loop of `bitmap_find_avail_bits`, which goes
through the bits once with a head and a count, answers the same.  It is a recursive function
that has its values by `Iteration`; what it knows after `k` bits (`SoFar`: where the clear bits
in front of the next one begin, and that no place that fits has been passed) is shown for each `k` from
the one before, by a least `k` at which it would fail.

### Extents

| Theorem of `ExtentsProofs` | Says |
|---|---|
| `TypeCorrect` | `Spec => []TypeOK` |
| `ArrayHasRoom` | `LeavesFit`: the array on the stack is never overrun, although a refusal halves the length and one leaf is put there per request granted |
| `OneOwner` | `BlocksHaveOneOwner`, for any number of files |
| `CreatedIsCovered` | `CreatedFilesAreCovered`, for any length and any order of grants and refusals |
| `NothingIsLost` | `SuccessLosesNothing` |
| `CreationRunsDown` | every turn of the loop ends it or lowers `Left`, the blocks needed and the length asked for together |

`LeavesFit` is not inductive: `Counting` adds that the leaves and the blocks still needed are
together no more than was asked for, and that the length asked for stays at least 1, so that
every leaf counts for one block at least.  `BlocksHaveOneOwner` needs `Known` (what has an owner
has been handed out, so that a fresh run meets none) and `Fresh` (a file being created is
not on the disk yet, so that its leaves change hands and are not doubled).  One lemma
(`AddedLeaf`) serves the creation and `b_write`, one (`KeptLeaves`) the steps that only pass
leaves on or drop them.

`CreatedIsCovered` counts blocks.  The array of a file's blocks is its leaves' blocks put one
after another by a fold over the leaves; that its length is the sum of theirs (`Flattening`,
`CountOf`) comes from `Iteration`.  `Covering` then says that what has been taken and what is
still needed are together what was asked for, and the odd block once it has been taken.  The
last request granted may be for more than was needed, by less than its own length; that this
is at most half of all, unless one request was granted for all, is its last conjunct.
`NothingIsLost` compares what is handed out with what is referred to (`NothingLost`): a
grant's blocks are a new leaf's at once, and when the file appears its extent block is.

### Command lines

| Theorem of `CommandLineProofs` | Says |
|---|---|
| `TypeCorrect` | `Spec => []TypeOK` |
| `VectorHasRoom` | `VectorFits`: half of the line's length and two is enough, for lines of any length |
| `ArgumentsRight` | `ArgumentsAreWords`, for lines of any length, with quotes and escapes anywhere |

`Passed` adds to the invariant that each argument but the first has two characters of its
own, the space in front of it and its first one, which the loop has passed already or is
just in front of; a gap in which nothing follows adds no argument.

`ArgumentsRight` compares two programs: the loop, which cuts the line where it stands, and
`Reading`, which goes through an uncut line once.  That `Reading` takes a step for each character
is `IsRead` (from `Iteration`).  `Agrees` says of a line half cut that the open quote is the one
the reading knows, that a `\0` stands at the first space of each gap that has been passed and
nowhere else, and that the arguments are the first character and those where a word
begins behind such a gap, in their order.  At the end of the line `StringIsWord` and
`WordIsString` turn this into the property: a string of the cut line is a word, and each word
is one.

### Reading and writing files

| Theorem of `FileIOProofs` | Says |
|---|---|
| `TypeCorrect` | `Spec => []TypeOK` |
| `NeverOverrun` | `ArraysNotOverrun`: no block array is read behind its end, whatever is refused; and no buffer is written behind its end as long as no request for the file is refused |
| `BlockZeroKept` | `BlockZeroSpared`: no bytes are stored at block 0, whatever is refused |
| `SizesBacked` | `SizeIsBacked`, as long as no request for the file is refused, at whichever disk write a session ends |
| `OnlyDestination` | `OnlyDestinationChanges`, although closing a descriptor that only reads writes its buffer back |
| `ShortFilesComeBack` | `ShortFilesRoundTrip`, through copies of copies, other files' refusals and any crashes, unless a request on the way was refused; cat repeats a full last chunk |
| `CopyRunsDown` | every step of a command lowers `Remaining` |

All of them assume `FewCalls`: at most as many commands that write a file as a chunk has
bytes.  That is a bound of the property and not of the proof.  A failed read counts the size
down by one, so that after enough commands a size below zero comes back to 0 in the middle
of a command, where `b_write` takes a whole block for free, and `ArraysNotOverrun` fails.

The invariant is about a command under way.  `Destination` says where the
descriptor stands: `Position` says that it is not ahead of the blocks it has written to, and one
behind them once it is more than a chunk into its block (`Room`), because a call adds a block
and takes at most a chunk of room, refused or not.  So there is a block left whenever a
call fills its buffer, and two when it goes on to the rest, which
is what lets `next_block` be called twice.  That the index is in front of the buffer's end and that
the descriptor gets a current block needs `Granted`: no request for the file was refused.
Block 0 is spared in any case, because a call that adds bytes has looked for a current block
first.  `Source` says that its blocks are among those the
file has now (a file copied to itself has more than when it was opened) and that its buffer
is the block it is at, so that `b_close` writes back what is there.  `Idle` says of a descriptor
half open that it only adds blocks, and counts the size down once.  `Backed` bounds a size
by the chunks its extents hold or by the failed reads below zero, and `Disjoint` keeps
files apart, but for the blocks refused.

`ShortFilesComeBack` has an invariant of its own, `Copying`, about the bytes.  `Settled` says of every
file but the destination of a command under way that it is what it was filled with: all its
requests were granted, its size is
the Linux file's, and its first block begins with that file's bytes.  `Feeding` follows the bytes
of a command that copies such a file: the descriptor it reads is in the first block, or at it
for the second time when the file is exactly a block long (`Reader`), the bytes in
the buffer are the ones read last, also when a read has failed since (`Passing`), and what has been
passed on is full chunks until the loop ends (`Chunks`), which is what decides whether cat prints one
twice.  `Filling` says where the descriptor
stands that is written: behind what has been passed on, with the same bytes in its buffer, or in a
block just added with nothing written to it (`Writer`), or past a full block,
which has then been written to the disk.  That the destination is not the source is in `Short`; a file copied to
itself is mixed.  `Filled` stops at one block, because the second is read where the first is.

`CopyRunsDown` measures what is left by the bytes the source may still be read (`Unread`), which every
read that does not end the loop lowers by a chunk, and within a turn by the phases (`Rank`).
`next_block` comes to the first block twice, so that a file of n blocks may be read for n + 1.

### Paths and directories

`NamespaceProofs` proves, from the constants' assumptions alone:

| Theorem | Says |
|---|---|
| `TypeCorrect` | `Spec => []TypeOK` |
| `RootStays` | `RootIsNeverRemoved`, whatever mv has listed where |
| `UnreadyStays` | `UnreadyIsForever` |
| `FilesStay` | `FilesStayPut`: no command, mv included, lists an existing file at a place it was not listed at before (what `MoveMoves.cfg` refutes is the opposite) |
| `RemovalRunsDown` | every step taken while a removal is under way lowers `Left(removing)` |

`expand_pathname` and `Follow` are recursive functions over the tokens of a text.  That they have the
values their steps compute is proved once, from least numbers (`Iteration` in `LeastNumbers`);
after it each is an invariant over tokens: an expanded text is a text (`ExpandedText`), and
a lookup leads to a location in use that is not lost (`FollowedSafe`).

The invariant `IInv` describes the arrays a disk may have (`Sound`): nothing, a whole directory, entries
put behind two empty slots, or a single entry.  The last kind needs the care: `fs_mkdir` in a
directory not yet written puts the new entry where the first slot is read, and so writes to
the location of the *new* directory.  Such locations are `Lost`: no entry of another array leads there, so
that no lookup and no removal ever holds one.  `Making` and `Stack` say the same of what a
command has in its hands.  Every write is one of few kinds (`Follows` for an array, `Evolves`
for the disk), and the first four theorems are read off `Evolves`.

`RemovalRunsDown` is why a removal ends in spite of the cycles mv can make.  `Left` is the vector of what
each call on the stack has still to visit, as long as the stack is deep.  A subdirectory's call is
put on the stack only after its caller has gone one entry on, and a call that returns leaves the
others as they are, so that the outermost entry of the vector that changes becomes smaller
(`LowerThan`); of vectors of one length no such chain goes on for ever.  The vector may grow
long below the entry that changes, which is why no sum of its entries would do.

`ListingProofs` is about what is taken out of arrays.

| Theorem | Assumes | Says |
|---|---|---|
| `RemovalsFollow` | no request is refused | `RemovalFollowsListing` |
| `DirsStay` | arguments of cd are absolute | `DirsStayListed` |

The first is the recursion of `bfs_remove_dir`: every call goes through a copy of an array,
and every call that returns takes an entry out of an array on the disk, maybe one that a call
further out goes through.  `Frames` says that a copy's rest is still the end of the array, that a call is
for an entry its caller's array lists, and, for a location that is on the stack twice (mv makes
cycles), that the inner call has still to visit what the outer one is in.  Without
the last part the invariant is not inductive.  A refused directory is read as whatever the
buffer held, so that the property is false with refusals (`StaleRemoval.cfg`).

The second rests on `Absolute`: a session's path made of names after a slash.  From
such a path expanding twice, as `fs_delete` and `b_move` do, changes nothing (`ExpandedOnce`), so the entry a deletion
takes out is the file it has found; after a relative cd it may be a directory's.

`TreeProofs` assumes that cd's arguments are absolute; all its theorems but
one, too, that nothing is listed by mv (`Moves = {}`).

| Theorem | Assumes besides | Says |
|---|---|---|
| `TreesStay` | no mv | `TreeShape`, through refusals, full directories, removals and crashes |
| `NamesStayUnique` | no mv, touch names files in the session's directory | `NamesUnique` |
| `RemovalsLeaveFiles` | no mv, no request is refused, nothing crashes | `RemovalLeaves` |
| `PathLeadsToDirectory` | no request is refused | `CwdStaysDirectory`, through any mv and any crashes |
| `LookupsFollow` | no mv | `LookupFollowsTree`, through refusals, full directories, removals and crashes |
| `ListingsAgree` | no mv, touch names files in the session's directory | `ListingAgreesWithLookup` |
| `CommandsImplementTree` | no mv, `[]Roomy` | refinement of `PathTree` |
| `UncrowdedTree` | no mv, no request is refused, more room in a directory than locations | refinement of `PathTree`, through removals and crashes |

The invariant is `Trees`: `Once` (a location is listed once), `Named` (a directory shares its name
with nothing), `Later` (what is listed was handed out after the directory that lists it, hence
no cycles), `Led` (".." leads back) and `Begun` (between the two writes of `fs_mkdir` the directory
under way is listed where its ".." will lead, so that the second write establishes `Led`).
`Unique` adds names: md looks for the name in the array it adds to, touch looks from
the session's path, which `OwnFiles` makes the same directory; a name neither finds because it is behind
the last whole entry means that the array is full, and what is added does not reach the disk.

`Swept` is the invariant of a removal: what a call has passed is freed, but for the directory it
is in now, which is the last slot it has come to; slot 3 is a file or the directory being removed,
because `Unlink` takes out what stands in slot 3; and each call is for a directory later
than the calls around it.  A directory refused or left unwritten has no "..", is never
taken out, and makes the property false.

`PathLeadsToDirectory` needs no tree.  `Leads` says of one write that a name that led to a
directory in an array leads to the same entry afterwards: what is added stands behind, a
deleted file was the first of its name, and what stood behind it moves up without passing an
entry of its name.  No lookup goes through the arrays where this fails (`Lost`), so
`FollowLeads` carries it along a path of any length.  With refusals, cd changes the path before
it finds that the directory cannot be read, and the property is false.

`LookupsFollow` compares what lookups find with `Level[k]`, the tree down to depth `k`.  `Plain` adds to
`Trees` that what is listed has one of the names and is a file or a directory.  `FoundAt(k)` says that
the paths of length `k` that lookups find are those of `Level[k]`; `TreeIsFound` proves it for
every `k` up to the bound on locations, from a least depth at which it would fail.  A name is listed
twice in a directory only as files, so that the first one found has the type of all.

`ListingsAgree` counts: ls shows each name once (`Unique`), and what it shows and no lookup finds
is the name in the slot behind the last whole entry (`ShownNotFound`).  A directory never written
reads as one entry of no name, which is why the property speaks of written arrays only.

`CommandsImplementTree` is the refinement.  `Facts` says of a state that lookups go from directory to
directory (`Descends`) and find in each what it lists (`Hits`), that no directory is at the end
of two paths (`OneWay`, from `Once` and `Later`), that nothing is found behind what is not
there (`Barren`), and that the tree is what they find (`TreeIs`).  What holds of all
paths follows from the empty one and one more name (`AllPaths`).  A step changes at most
what one directory lists of one name (`OnlyAt`); if no path leads there the tree stays
(`NotReached`), otherwise it changes behind one path only (`Pivot`), where an entry added makes
a leaf (`Growth`), because a new directory is empty, and an entry taken out takes a subtree (`Shrinkage`).  `Roomy`
is needed: in an over-full directory a removal brings the name behind the last whole entry
into sight, so that one step takes a path out and adds another.  TLC cannot meet this
in `Namespace.cfg`, whose directories have more room than there are locations, and there
`Roomy` is an invariant (`UncrowdedTree`): the entries of a directory have locations of their own
(`RoomyThere`).

## Only model-checked, and not modelled

- Liveness (`RemovalEnds`, `CopyEnds`, `CreationEnds`) stays with TLC, as the prover knows neither
  fairness nor `ENABLED`.  What it rests on beside fairness is proved: each step of a command under
  way lowers a measure (`RemovalRunsDown`, `CopyRunsDown`, `CreationRunsDown`).  That a step can be
  taken as long as the command has not ended, and that an order on vectors has no endless chain, is
  not.
- All other properties of the passing runs are proved, some under assumptions that the tables above
  name and the runs do not all make.  The runs that end in a violation are TLC's.

Not modelled, and why:

- `fs_stat`, pwd, history and help change nothing of the file system; of ls the names
  are modelled, its options are not.
- `b_seek`, `bfs_set_block`, `bfs_get_free_block` and `get_filename_from_path` have no caller.
- Counts of a block and more in `b_read` and `b_write`: the shell's buffer has 200 bytes and
  a block 512, so the parts of both functions for whole blocks are never reached.  A
  reallocation that completes is not reached either, as long as no request was refused: by the time the extent block is full,
  31 blocks are read into the room of 13.  `bfs_read_extent` and `bfs_write_extent_data` run
  there only.
- The array of blocks with a terminator behind its end (`bfs_file.c:121`) needs extents of
  ten blocks, which no command makes.
- A file where a directory should be.  `fs_mkdir` (`bfs_directory.c:304-348`), `b_open` (`b_io.c:84-154`) and
  `b_move` (`b_io.c:663-717`) never look at the type of the parent they have found.  With a file for
  a parent they read its extent block, and what follows it on the disk, as an array of entries, into
  a buffer of the file's size, and mkdir writes that buffer back at a location taken from the extent's
  bytes, which is block 0 for an empty file.  `Namespace` makes no step for such arguments
  (`ParentIsDir`), so nothing it shows holds after one.
- A reallocation of a full extent block that is granted after requests of the same file were
  refused; what cat prints of a buffer nothing has been read into.
- A full table of descriptors: a command opens two and closes both, or the session dies.
- Failures of `LBAread` and `LBAwrite` at locations that were granted, torn block writes and the
  content of memory behind a buffer or behind the end of an array in it.
- Dates, uuid and volume name, and `Hexdump`, a program of its own.

## Plan

1. `BlockGroups` with `FreshRuns` and its proofs: done.
2. `Paths`, `Namespace`, `PathTree`, with mv, a bounded stack, full directories and refused
   blocks: modelled and checked.
3. `FileIO`, with cat, refused requests and opens that fail: modelled and checked.
4. `Extents` and `CommandLine` with their proofs: done.
5. `FileIOProofs`: done, `ShortFilesRoundTrip` and the measure of a copy included.
6. `NamespaceProofs`, `ListingProofs`, `TreeProofs`: done.
7. `LookupFollowsTree`, `ListingAgreesWithLookup`, `ImplementsPathTree` from `TInv`: done.
8. `ArgumentsAreWords`, `CreatedFilesAreCovered`, `SuccessLosesNothing`, and the measures behind
   the liveness properties: done.
9. The search loop of `bitmap_find_avail_bits` turn by turn, proved to answer what `Fits`
   promises: done.
