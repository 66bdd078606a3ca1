------------------------------- MODULE FileIO -------------------------------
(***************************************************************************)
(* Reading and writing files (b_io.c) as the shell's commands cp, cp2l,    *)
(* cp2fs and cat (fsshell.c) do it: a loop of one b_read and one b_write,  *)
(* or of one of them and a Linux call, until a read is not a full chunk.   *)
(*                                                                         *)
(* A file is its size and the blocks its extents add up to; every call of  *)
(* b_write that has bytes to write adds an extent of its own, one block    *)
(* long since a chunk is smaller than a block, at a location that leads    *)
(* nowhere when the request for it is refused.  A block is a sequence of   *)
(* cells: k is the k-th byte of a Linux file, none of which is NUL, 0 a    *)
(* byte never written, Junk one of an uninitialised buffer.  A name leads  *)
(* to the same file throughout; Namespace says which.                      *)
(***************************************************************************)
EXTENDS Integers, Sequences, FiniteSets, SequencesExt

CONSTANTS
  Files,
  Linux,       \* the Linux file a command reads or writes, or cat's screen
  Lengths,     \* the lengths of Linux files, -1 for one that is not there
  BlockSize,   \* bfs_vcb->block_size (512)
  Chunk,       \* BUFFERLEN (200)
  MaxExtents,  \* eh_max, the extents one extent block has room for (31)
  SizeLimit,   \* 2^64: the size of a directory entry is a uint64_t
  MaxBlocks,   \* bound: data blocks there are to hand out
  MaxRefusals, \* bound: blocks refused to a file while there are any
  MaxCalls,    \* bound: commands that write to a file
  MaxCrashes   \* bound: crashes

\* What holds of 512, 200 and 31: two chunks fit in a block, and one of cat's,
\* a byte shorter, is more than the byte a read that runs out of blocks returns.
\* An extent block has room for more than one extent.
ASSUME FileIOAssumption ==
  /\ BlockSize \in Nat /\ Chunk \in Nat /\ Chunk >= 3 /\ 2 * Chunk < BlockSize
  /\ MaxExtents \in Nat /\ MaxExtents >= 2
  /\ SizeLimit \in Nat /\ MaxExtents * BlockSize < SizeLimit
  /\ Lengths \subseteq Nat \cup {-1}
  /\ Linux \notin Files
  /\ MaxBlocks \in Nat /\ MaxRefusals \in Nat /\ MaxCalls \in Nat /\ MaxCrashes \in Nat

VARIABLES
  exists,   \* disk: the files that are there
  size,     \* disk: the size in each file's directory entry
  blocks,   \* disk: the blocks of each file's extents, in order
  data,     \* disk: the cells of each data block
  next,     \* the next block bfs_get_free_blocks hands out
  fcb,      \* memory: the descriptor the command reads, and the one it writes
  job,      \* memory: what is copied to what, in chunks of what length, and
            \* how far the Linux file is
  pc,       \* memory: where the command is, "prompt" between commands
  buf,      \* memory: the count the last read returned, and the bytes
  out,      \* history: what a Linux file written by the command holds
  origin,   \* history: the length of the Linux file each file was filled from
  calls,    \* history: the number of commands that write to a file
  crashes   \* history: the number of crashes

disk == <<exists, size, blocks, data, next>>
hist == <<origin, calls, crashes>>
vars == <<disk, fcb, job, pc, buf, out, hist>>

Junk     == -1
Refused  == -1   \* the block of a request refused: no read or write of it succeeds
Mixed    == -2   \* the origin of a file whose bytes come from no one Linux file
Blocks   == 1 .. MaxBlocks
NoFcb    == [file |-> "none"]  \* descriptor -1, or one that is closed
Stray    == [file |-> "1"]     \* descriptor 1, returned for a slot left half filled
NoBytes  == [count |-> 0, bytes |-> <<>>]
NoJob    == [src |-> Linux, dst |-> Linux, chunk |-> Chunk, total |-> 0, pos |-> 0]
IsOpen(fd) == fcb[fd] \notin {NoFcb, Stray}

\* The slot left half filled is the one descriptor 1 stands for if the source
\* has slot 0: the file is there, its buffer and its block array are NULL.
\* Else there is nothing in that slot.
HalfOpen == fcb["dst"] = Stray /\ IsOpen("src")

Granted(f) == Refused \notin Range(blocks[f])   \* no request for f was refused

Smaller(a, b) == IF a <= b THEN a ELSE b

-----------------------------------------------------------------------------
(* b_io.c *)

\* How many requests for a file's blocks were refused.
Count(arr) == Cardinality({k \in DOMAIN arr : arr[k] = Refused})

\* What bfs_get_free_blocks(1) may answer: a free part of the volume need not
\* be found, and it is if MaxRefusals requests for the file were refused.
bfs_get_free_blocks ==
  IF next \in Blocks
    THEN {next} \cup {b \in {Refused} : Count(blocks[job.dst]) < MaxRefusals}
    ELSE {Refused}

\* Mutant: the buffer is not filled from the block.
mut_next_block(c, cells) ==
  LET blk   == Append(c.arr, 0)[c.block_idx + 1]
      moved == [c EXCEPT !.block_idx = @ + 1, !.current = blk]
  IN  IF blk \in Blocks THEN [moved EXCEPT !.idx = 0] ELSE moved

\* Mutant: the index into the buffer is not reset.
mut_next_block_idx(c, cells) ==
  LET blk   == Append(c.arr, 0)[c.block_idx + 1]
      moved == [c EXCEPT !.block_idx = @ + 1, !.current = blk]
  IN  IF blk \in Blocks THEN [moved EXCEPT !.buf = cells[blk]] ELSE moved

\* The next block of the array is the one at block_idx, which counts from 0
\* although the first block is current already.  It fails at the end of the
\* array and at a block that cannot be read, and leaves buffer and index as
\* they were.
next_block(c, cells) ==
  LET blk   == Append(c.arr, 0)[c.block_idx + 1]
      moved == [c EXCEPT !.block_idx = @ + 1, !.current = blk]
  IN  IF blk \in Blocks THEN [moved EXCEPT !.idx = 0, !.buf = cells[blk]] ELSE moved

\* b_open of a file that is there, or has just been created.  O_TRUNC has no
\* effect.  When the first block cannot be read it returns 1.
b_open(f) ==
  LET first == IF blocks[f] = <<>> THEN 0 ELSE blocks[f][1]
  IN  IF first = Refused THEN Stray
      ELSE [file |-> f, size |-> size[f], arr |-> blocks[f],
            block_idx |-> 0, current |-> first, idx |-> 0,
            buf |-> IF first = 0 THEN [k \in 1 .. BlockSize |-> Junk] ELSE data[first]]

\* Mutant: the bytes go to the start of the buffer.
mut_Fill(cells, i, bytes) ==
  [k \in 1 .. BlockSize |-> IF k \in DOMAIN bytes THEN bytes[k] ELSE cells[k]]

\* The cells of a buffer, bytes copied to index i and on.
Fill(cells, i, bytes) ==
  [k \in 1 .. BlockSize |-> IF k - i \in DOMAIN bytes THEN bytes[k - i] ELSE cells[k]]

Ahead(c) == c.block_idx * BlockSize + c.idx   \* bytes_read, bytes_written

\* Mutant: a read that runs into the end returns the count it should have read.
mut_b_read(c, n) ==
  LET count == IF n + Ahead(c) > c.size THEN c.size - Ahead(c) ELSE n
      part1 == Smaller(count, BlockSize - c.idx)
      moved == [c EXCEPT !.idx = @ + part1]
      c1    == IF moved.idx >= BlockSize THEN next_block(moved, data) ELSE moved
  IN  CASE c.size = 0 -> [count |-> 0, bytes |-> <<>>, fcb |-> c]
        [] c.size # 0 /\ Ahead(c) >= c.size -> [count |-> -1, bytes |-> <<>>, fcb |-> c]
        [] OTHER -> [count |-> count, bytes |-> [k \in 1 .. count |-> Junk],
                     fcb |-> IF c1.current \in Blocks THEN [c1 EXCEPT !.idx = @ + count - part1] ELSE c1]

\* The part of b_read that copies: the count returned, the bytes delivered and
\* the descriptor left.  next_block is called when the buffer is used up:
\* before the rest is copied from it, or after the last byte of it.
Delivered(c, count) ==
  LET part1 == Smaller(count, BlockSize - c.idx)
      part3 == count - part1
      head  == SubSeq(c.buf, c.idx + 1, c.idx + part1)
      moved == [c EXCEPT !.idx = @ + part1]
      c1    == IF moved.idx >= BlockSize THEN next_block(moved, data) ELSE moved
      rest  == SubSeq(c1.buf, c1.idx + 1, c1.idx + part3)
  IN  IF moved.idx >= BlockSize /\ c1.current \notin Blocks
        THEN [count |-> 1, bytes |-> SubSeq(head, 1, 1), fcb |-> c1]
        ELSE [count |-> count, bytes |-> head \o rest, fcb |-> [c1 EXCEPT !.idx = @ + part3]]

\* b_read of n bytes.
b_read(c, n) ==
  CASE c.size = 0 -> [count |-> 0, bytes |-> <<>>, fcb |-> c]
    [] c.size # 0 /\ Ahead(c) >= c.size -> [count |-> -1, bytes |-> <<>>, fcb |-> c]
    [] OTHER -> Delivered(c, Smaller(n, c.size - Ahead(c)))

\* The extent block has no room for another extent.
Full(n) == n > 0 /\ Len(blocks[job.dst]) >= MaxExtents

bytes_to_blocks(n) == ((n + BlockSize - 1) % SizeLimit) \div BlockSize

\* Then b_write reads the old data into a buffer of the size the data should
\* need.  Every call has added a block, and one that can be read and lies
\* further back than the buffer is long overwrites the heap.
Overflows(n) ==
  /\ Full(n)
  /\ \E k \in DOMAIN blocks[job.dst] :
       k > bytes_to_blocks(size[job.dst] + n) /\ blocks[job.dst][k] # Refused

\* bytes_available in b_write: a whole block when the size is 0, wherever in the
\* block the descriptor is.
Available(c) == IF c.size = 0 THEN BlockSize ELSE BlockSize - c.idx

\* b_write copies behind the end of the buffer: the first part, or the rest
\* when an earlier call has filled the buffer and found no block to go on with.
Overruns(c, n) ==
  n > 0 /\ (c.idx = BlockSize \/ c.idx + Smaller(n, Available(c)) > BlockSize)

LBAwrite(cells, loc, block) ==
  IF loc \in Blocks THEN [cells EXCEPT ![loc] = block] ELSE cells

\* The data b_write stores, n = -1 included: the descriptor and the data blocks
\* left, and whether the call gets as far as the directory entry.  After the
\* rest has been written to a second block the descriptor moves on to a third,
\* at the index behind the rest.  What is copied behind the buffer is lost.
Stored(c, n, bytes) ==
  LET part1 == Smaller(n, Available(c))
      part3 == n - part1
      fill1 == Fill(c.buf, c.idx, SubSeq(bytes, 1, part1))
      disk1 == IF part1 > 0 THEN LBAwrite(data, c.current, fill1) ELSE data
      c1    == IF part1 > 0 THEN [c EXCEPT !.buf = fill1, !.idx = @ + part1] ELSE c
      full  == part1 > 0 /\ c1.idx >= BlockSize
      c2    == IF full THEN next_block(c1, disk1) ELSE c1
      fill3 == Fill(c2.buf, c2.idx, SubSeq(bytes, part1 + 1, n))
      disk3 == IF part3 > 0 THEN LBAwrite(disk1, c2.current, fill3) ELSE disk1
      c3    == IF part3 > 0 THEN next_block([c2 EXCEPT !.buf = fill3], disk3) ELSE c2
      c4    == IF n <= 0 /\ c.idx >= BlockSize THEN next_block(c3, disk3) ELSE c3
  IN  IF full /\ c2.current \notin Blocks
        THEN [fcb |-> c2, data |-> disk1, ok |-> FALSE]
      ELSE IF (part3 > 0 \/ c.idx >= BlockSize) /\ c4.current \notin Blocks
        THEN [fcb |-> c4, data |-> disk3, ok |-> FALSE]
      ELSE [fcb |-> [c4 EXCEPT !.idx = @ + part3, !.size = (@ + n) % SizeLimit],
            data |-> disk3, ok |-> TRUE]

\* b_close writes the buffer back when anything has been read from it or
\* written to it: O_RDONLY is 0, and no descriptor counts as read-only.
b_close(c) ==
  IF c.idx > 0 THEN LBAwrite(data, c.current, c.buf) ELSE data

-----------------------------------------------------------------------------
(* fsshell.c *)

\* A copy by cp has the length of its source, unless that is a multiple of the
\* chunk: then the -1 of the read at the end is added to it.
Whole(n) == n = 0 \/ n % Chunk # 0

\* The two opens of a command.  A source that is not there is not opened; a
\* destination that is not there is created, empty, unless it is a directory,
\* or in none, or its extent block is refused: then it is not opened either.
Start(src, dst, chunk, total) ==
  /\ pc = "prompt"
  /\ dst \in Files => calls < MaxCalls
  /\ \E created \in SUBSET ({dst} \ (exists \cup {Linux})) :
       /\ exists' = exists \cup created
       /\ fcb' = [src |-> IF src \in exists THEN b_open(src) ELSE NoFcb,
                  dst |-> IF dst \in exists' THEN b_open(dst) ELSE NoFcb]
       /\ origin' = [f \in Files |->
                       CASE f \notin {dst} \cap exists'                    -> origin[f]
                         [] f \in created /\ src = Linux                   -> total
                         [] f \in created /\ src \in exists
                              /\ Whole(origin[src])                       -> origin[src]
                         [] OTHER                                         -> Mixed]
  /\ job' = [src |-> src, dst |-> dst, chunk |-> chunk, total |-> total, pos |-> 0]
  /\ pc' = "read" /\ out' = <<>>
  /\ calls' = IF dst \in Files THEN calls + 1 ELSE calls
  /\ UNCHANGED <<size, blocks, data, next, buf, crashes>>

cmd_cp    == \E f, g \in Files : Start(f, g, Chunk, 0)
cmd_cp2l  == \E f \in Files : Start(f, Linux, Chunk, 0)
cmd_cp2fs == \E g \in Files, n \in Lengths : Start(Linux, g, Chunk, n)

\* The only one that looks whether it has opened its source, and the only one
\* with room for a terminator behind what it reads.
cmd_cat   == \E f \in exists : Start(f, Linux, Chunk - 1, 0)

\* read of the Linux file, -1 when it is not there.
ReadLinux ==
  /\ pc = "read" /\ job.src = Linux
  /\ LET count == Smaller(Chunk, job.total - job.pos)
     IN  /\ buf' = [count |-> count, bytes |-> [k \in 1 .. count |-> job.pos + k]]
         /\ job' = [job EXCEPT !.pos = IF count > 0 THEN @ + count ELSE @]
  /\ pc' = "write"
  /\ UNCHANGED <<disk, fcb, out, hist>>

\* A read that fails leaves the buffer as it was.
ReadFile ==
  /\ pc = "read" /\ job.src \in Files
  /\ IF IsOpen("src")
       THEN LET r == b_read(fcb["src"], job.chunk)
            IN  /\ buf' = [count |-> r.count,
                           bytes |-> IF r.count = -1 THEN buf.bytes ELSE r.bytes]
                /\ fcb' = [fcb EXCEPT !["src"] = r.fcb]
       ELSE /\ buf' = [buf EXCEPT !.count = -1]
            /\ UNCHANGED fcb
  /\ pc' = "write"
  /\ UNCHANGED <<disk, job, out, hist>>

\* Mutant: the loop goes on after a failed read.
mut_AfterWrite == pc' = IF buf.count \in {job.chunk, -1} THEN "read" ELSE "close"

\* The loop goes on after a full chunk only.
AfterWrite == pc' = IF buf.count = job.chunk THEN "read" ELSE "close"

\* What cat shows of its buffer, which ends with the last chunk that was read:
\* the cells up to the first NUL, which one never written is and one not
\* initialised may be.
printf(bytes) ==
  {SubSeq(bytes, 1, n) :
     n \in {m \in 0 .. Len(bytes) : /\ \A k \in 1 .. m : bytes[k] # 0
                                  /\ m < Len(bytes) => bytes[m + 1] \in {0, Junk}}}

\* cp2l gives the count to write, and -1 writes nothing.  cat prints its buffer
\* whatever the count is: after a failed read, that of the chunk before once
\* more.  (The terminator then goes to buf[-1].  What a buffer holds that
\* nothing was read into is left out.)
WriteLinux ==
  /\ pc = "write" /\ job.dst = Linux
  /\ \E text \in IF job.chunk = Chunk - 1 THEN printf(buf.bytes)
                 ELSE {IF buf.count = -1 THEN <<>> ELSE buf.bytes} :
       out' = out \o text
  /\ AfterWrite
  /\ UNCHANGED <<disk, fcb, job, buf, hist>>

\* b_write to descriptor -1, or to 1 where there is no file.
WriteNowhere ==
  /\ pc = "write" /\ job.dst \in Files /\ ~IsOpen("dst") /\ ~HalfOpen
  /\ AfterWrite
  /\ UNCHANGED <<disk, fcb, job, buf, out, hist>>

\* Mutant: only the first write of a file adds a block.
mut_NewLeaf(blk) ==
  /\ blocks' = [blocks EXCEPT ![job.dst] = IF @ = <<>> THEN <<blk>> ELSE @]
  /\ next' = IF blk \in Blocks THEN next + 1 ELSE next
  /\ origin' = [origin EXCEPT ![job.dst] = IF blk \in Blocks THEN @ ELSE Mixed]

\* A leaf is added with whatever the request has returned.
NewLeaf(blk) ==
  /\ blocks' = [blocks EXCEPT ![job.dst] = Append(@, blk)]
  /\ next' = IF blk \in Blocks THEN next + 1 ELSE next
  /\ origin' = [origin EXCEPT ![job.dst] = IF blk \in Blocks THEN @ ELSE Mixed]

\* Mutant: the first block is not looked up.
mut_AtFirstBlock(c) == [fcb |-> c, ok |-> TRUE]

\* The descriptor moves to the first block when it has no current one, as that
\* of a file that was empty.
AtFirstBlock(c) ==
  LET first == next_block(c, data)
  IN  IF c.current = 0 THEN [fcb |-> first, ok |-> first.current \in Blocks]
                       ELSE [fcb |-> c, ok |-> TRUE]

\* First disk write of b_write: the extent block, with a block for the bytes.
\* If the first block was refused the call ends here, and the descriptor stays
\* at the block refused: the next call will not fail.
Extend ==
  /\ pc = "write" /\ IsOpen("dst") /\ ~Full(buf.count)
  /\ IF buf.count > 0
       THEN \E blk \in bfs_get_free_blocks :
              LET first == AtFirstBlock([fcb["dst"] EXCEPT !.arr = blocks'[job.dst]])
              IN  /\ NewLeaf(blk)
                  /\ fcb' = [fcb EXCEPT !["dst"] = first.fcb]
                  /\ IF first.ok THEN pc' = "store" ELSE AfterWrite
       ELSE pc' = "store" /\ UNCHANGED <<blocks, next, fcb, origin>>
  /\ UNCHANGED <<exists, size, data, job, buf, out, calls, crashes>>

\* The same to a descriptor left half open: whether the call ends there depends
\* on what the last file in that slot has left in it.
ExtendHalfOpen ==
  /\ pc = "write" /\ HalfOpen /\ ~Full(buf.count)
  /\ IF buf.count > 0 THEN \E blk \in bfs_get_free_blocks : NewLeaf(blk)
     ELSE UNCHANGED <<blocks, next, origin>>
  /\ pc' = "store"
  /\ UNCHANGED <<exists, size, data, fcb, job, buf, out, calls, crashes>>

\* An extent block that is full, and no blocks for a new one with all the data:
\* b_write gives up.
FailToReallocate ==
  /\ pc = "write" /\ (IsOpen("dst") \/ HalfOpen)
  /\ Full(buf.count) /\ ~Overflows(buf.count)
  /\ AfterWrite
  /\ UNCHANGED <<disk, fcb, job, buf, out, hist>>

\* Then the data ...
Store ==
  LET s == Stored(fcb["dst"], buf.count, buf.bytes)
  IN  /\ pc = "store" /\ IsOpen("dst")
      /\ data' = s.data
      /\ fcb' = [fcb EXCEPT !["dst"] = s.fcb]
      /\ IF s.ok THEN pc' = "record" ELSE AfterWrite
      /\ UNCHANGED <<exists, size, blocks, next, job, buf, out, hist>>

\* (half open: no data is stored, and next_block fails, or there is nothing to
\* write and the size is recorded)
StoreHalfOpen ==
  /\ pc = "store" /\ HalfOpen
  /\ \/ UNCHANGED size
     \/ /\ buf.count <= 0
        /\ size' = [size EXCEPT ![job.dst] = (@ + buf.count) % SizeLimit]
  /\ AfterWrite
  /\ UNCHANGED <<exists, blocks, data, next, fcb, job, buf, out, hist>>

\* ... and last the directory, with the size.
Record ==
  /\ pc = "record"
  /\ size' = [size EXCEPT ![job.dst] = fcb["dst"].size]
  /\ AfterWrite
  /\ UNCHANGED <<exists, blocks, data, next, fcb, job, buf, out, hist>>

\* The session is gone, and its memory with it.
Died ==
  /\ fcb' = [fd \in {"src", "dst"} |-> NoFcb]
  /\ job' = NoJob /\ buf' = NoBytes /\ out' = <<>> /\ pc' = "prompt"
  /\ origin' = [f \in Files |-> IF f = job.dst THEN Mixed ELSE origin[f]]
  /\ UNCHANGED <<disk, calls>>

\* The session overwrites its heap, and the allocator ends it, or it copies to
\* the NULL of a descriptor half open.
DieInWrite ==
  /\ \/ pc = "write" /\ (IsOpen("dst") \/ HalfOpen) /\ Overflows(buf.count)
     \/ pc = "store" /\ HalfOpen
     \/ pc = "store" /\ IsOpen("dst") /\ Overruns(fcb["dst"], buf.count)
  /\ Died
  /\ UNCHANGED crashes

\* b_close of descriptor -1 frees what lies in front of the table: the session
\* dies.
DieInClose ==
  /\ \/ pc = "close" /\ job.src \in Files /\ fcb["src"] = NoFcb
     \/ pc = "close" /\ job.src = Linux /\ fcb["dst"] = NoFcb
     \/ pc = "close dst" /\ job.dst \in Files /\ fcb["dst"] = NoFcb
  /\ Died
  /\ UNCHANGED crashes

CloseSrc ==
  /\ pc = "close" /\ job.src \in Files /\ fcb["src"] # NoFcb
  /\ data' = IF IsOpen("src") THEN b_close(fcb["src"]) ELSE data
  /\ fcb' = [fcb EXCEPT !["src"] = NoFcb]
  /\ pc' = "close dst"
  /\ UNCHANGED <<exists, size, blocks, next, job, buf, out, hist>>

CloseDst ==
  /\ \/ pc = "close" /\ job.src = Linux
     \/ pc = "close dst"
  /\ job.dst \in Files => fcb["dst"] # NoFcb
  /\ data' = IF IsOpen("dst") THEN b_close(fcb["dst"]) ELSE data
  /\ fcb' = [fcb EXCEPT !["dst"] = NoFcb]
  /\ job' = NoJob /\ buf' = NoBytes /\ pc' = "prompt"
  /\ UNCHANGED <<exists, size, blocks, next, out, hist>>

Crash ==
  /\ pc # "prompt" /\ crashes < MaxCrashes
  /\ crashes' = crashes + 1
  /\ Died

\* A volume with nothing on it but files that were created when no block was
\* to be had for their first bytes.
Init ==
  /\ exists \in SUBSET Files
  /\ size = [f \in Files |-> 0]
  /\ blocks = [f \in Files |-> IF f \in exists THEN <<Refused>> ELSE <<>>]
  /\ data = [b \in Blocks |-> [k \in 1 .. BlockSize |-> 0]]
  /\ next = 1
  /\ fcb = [fd \in {"src", "dst"} |-> NoFcb]
  /\ job = NoJob /\ pc = "prompt" /\ buf = NoBytes
  /\ out = <<>> /\ origin = [f \in Files |-> Mixed]
  /\ calls = 0 /\ crashes = 0

b_write == Extend \/ ExtendHalfOpen \/ FailToReallocate \/ Store \/ StoreHalfOpen
             \/ Record \/ WriteNowhere \/ DieInWrite

Step == ReadLinux \/ ReadFile \/ WriteLinux \/ b_write \/ DieInClose \/ CloseSrc \/ CloseDst

Next == cmd_cp \/ cmd_cp2l \/ cmd_cp2fs \/ cmd_cat \/ Step \/ Crash

Spec == Init /\ [][Next]_vars

\* A command under way goes on by itself.
FairSpec == Spec /\ WF_vars(Step)

-----------------------------------------------------------------------------
(* Properties *)

Cell == {Junk} \cup Nat
Fcb  == [file : Files, size : 0 .. SizeLimit - 1, arr : Seq({Refused} \cup Blocks),
         block_idx : Nat, current : {0, Refused} \cup Blocks, idx : 0 .. BlockSize,
         buf : [1 .. BlockSize -> Cell]]

\* Type invariant: descriptors and files have the shape the code gives them,
\* and an index into a block's buffer never leaves it.
TypeOK ==
  /\ exists \subseteq Files
  /\ size \in [Files -> 0 .. SizeLimit - 1]
  /\ blocks \in [Files -> Seq({Refused} \cup 1 .. next - 1)]
  /\ \A f \in Files : Len(blocks[f]) <= MaxExtents
  /\ data \in [Blocks -> [1 .. BlockSize -> Cell]]
  /\ next \in 1 .. MaxBlocks + 1
  /\ fcb \in [{"src", "dst"} -> Fcb \cup {NoFcb, Stray}]
  /\ job \in [src : Files \cup {Linux}, dst : Files \cup {Linux},
              chunk : {Chunk - 1, Chunk}, total : {-1} \cup Nat, pos : Nat]
  /\ buf \in [count : -1 .. Chunk, bytes : Seq(Cell)]
  /\ pc \in {"prompt", "read", "write", "store", "record", "close", "close dst"}
  /\ calls \in 0 .. MaxCalls

\* next_block never reads behind the 0 that ends the block array: a command
\* that has run into the end of its source reads no more, and a destination has
\* a block left for every call of it that b_write is still to make, although
\* requests may be refused and one b_write may advance twice.  As long as none
\* is refused, b_write never runs into that 0 either, and never copies bytes
\* behind the end of the block's buffer.
ArraysNotOverrun ==
  /\ pc = "read" /\ IsOpen("src") => fcb["src"].block_idx <= Len(fcb["src"].arr)
  /\ pc = "write" /\ IsOpen("dst") => fcb["dst"].block_idx <= Len(fcb["dst"].arr)
  /\ IsOpen("dst") /\ Granted(job.dst) =>
       /\ fcb["dst"].current = 0 => fcb["dst"].block_idx = 0
       /\ pc = "store" => ~Overruns(fcb["dst"], buf.count)

\* b_write never stores a block of a file over block 0, the volume control
\* block, which is what current_block says as long as there is none, whether
\* the requests for blocks are granted or refused.
BlockZeroSpared ==
  pc = "store" /\ IsOpen("dst") /\ buf.count > 0 => fcb["dst"].current # 0

\* As long as no request is refused, a size on the disk never counts bytes no
\* block holds, at whichever of b_write's three disk writes the session ends:
\* the extents come first.  The exception is a size that has been counted down
\* below 0 by failed reads.
SizeIsBacked ==
  \A f \in Files : Granted(f) =>
    size[f] > SizeLimit - 1 - MaxCalls \/ size[f] <= Chunk * Len(blocks[f])

\* A Linux file of at most one block comes back byte for byte when it is
\* copied in by cp2fs, on by cp and out by cp2l or cat, whose chunks differ
\* (b_write, b_read and b_close agree on where the first block ends), unless a
\* request for a block was refused on the way.  Only when its length is a
\* multiple of cat's chunk cat prints the last chunk twice.
Filled(f) == origin[f] \in 0 .. BlockSize
Numbers(first, last) == [k \in 1 .. last - first + 1 |-> first + k - 1]
Reprinted(n) ==
  IF job.chunk = Chunk - 1 /\ n > 0 /\ n % job.chunk = 0
    THEN Numbers(n - job.chunk + 1, n) ELSE <<>>
ShortFilesRoundTrip ==
  pc = "close" /\ job.dst = Linux /\ job.src \in exists /\ Filled(job.src) =>
    out = Numbers(1, origin[job.src]) \o Reprinted(origin[job.src])

\* A command changes no file but its destination, although closing the source
\* writes its buffer back as well.
OnlyDestinationChanges ==
  [][\A f \in Files \ {job.dst} :
       /\ size'[f] = size[f] /\ blocks'[f] = blocks[f]
       /\ \A b \in Blocks \cap Range(blocks[f]) : data'[b] = data[b]]_vars

\* A command comes back to the prompt, or dies: the loop has an end for a
\* source that is not there and for a size that has wrapped.
CopyEnds == pc # "prompt" ~> pc = "prompt"

-----------------------------------------------------------------------------
(* What the documentation says, and the code does not do *)

\* README.md: cp2l copies a file from the file system to Linux: the copy of a
\* file cp2fs has filled is what it was filled with.
CopiesAgree ==
  pc = "close" /\ job.dst = Linux /\ job.chunk = Chunk
    /\ job.src \in exists /\ origin[job.src] >= 0 =>
      out = Numbers(1, origin[job.src])

=============================================================================
