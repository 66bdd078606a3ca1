---------------------------- MODULE FileIOProofs ----------------------------
(***************************************************************************)
(* Reading and writing files: type correctness, the arrays that are not    *)
(* overrun, block 0, the sizes the extents back, the files a command       *)
(* leaves alone and the short files that come back byte for byte, proved   *)
(* for every size of blocks and chunks, every number of files, blocks,     *)
(* refusals and crashes, and every sequence of commands of at most Chunk   *)
(* that write to a file.                                                   *)
(*                                                                         *)
(* All but the last follow from one inductive invariant, IInv.  What it    *)
(* says of the destination is at the heart of it: every call of b_write    *)
(* adds a block and stores at most a chunk, less than half of one, so the  *)
(* descriptor is a block behind the end of its array when it is further in *)
(* its block than a chunk, and may advance by two of them in a call,       *)
(* whether there is anything at them or not.  The bytes of short files     *)
(* take a second one on top of it, Copying, which says where a command is  *)
(* in the first block of the file it reads and of the one it fills.  Last, *)
(* a measure that every step of a command brings nearer to 0.              *)
(***************************************************************************)
EXTENDS FileIO, SequenceTheorems, TLAPS

\* At most Chunk (200) commands write to a file.  Each may count its file's
\* size down by 1 when its read fails; a size that has been counted below 0 by
\* two chunks comes back to 0 in mid-command, where b_write takes a whole block
\* for free and copies behind the end of the buffer: ArraysNotOverrun is false
\* of 2 * Chunk + 1 commands.
FewCalls == MaxCalls <= Chunk

\* The command has another read before it, as far as it knows.
Resumes ==
  \/ pc = "read"
  \/ pc \in {"write", "store", "record"} /\ buf.count = job.chunk

\* A size counts what the extents have room for, a chunk to a block, or has
\* been counted down below 0, once for a failure at most.
Backed(s, extents, failures) == s <= Chunk * extents \/ s >= SizeLimit - failures

\* What is open where a command is.
Phases ==
  /\ pc = "prompt" => fcb = [fd \in {"src", "dst"} |-> NoFcb] /\ job = NoJob
  /\ fcb["dst"] # NoFcb => job.dst \in Files
  /\ IsOpen("dst") => fcb["dst"].file = job.dst
  /\ IsOpen("src") => fcb["src"].file = job.src
  /\ job.src = Linux => fcb["src"] = NoFcb
  /\ pc = "store" => IsOpen("dst") \/ HalfOpen
  /\ pc = "record" => IsOpen("dst")
  /\ pc = "close dst" => fcb["src"] = NoFcb
  /\ job.dst \in Files => job.chunk = Chunk

\* What is under way between a read and its write.
Transfer ==
  /\ buf.count >= 0 => Len(buf.bytes) = buf.count
  /\ job.pos = 0 \/ job.pos <= job.total

\* The descriptor a command reads: its blocks are the file's (a file that is
\* copied to itself has more by now), its buffer is the block it is at, so that
\* b_close writes back what is there, and a read that ran into the end was not
\* a full chunk.
Source(s) ==
  /\ Range(s.arr) \subseteq Range(blocks[s.file])
  /\ s.current \in {0} \cup Range(s.arr)
  /\ Resumes => s.idx < BlockSize /\ s.block_idx <= Len(s.arr)
  /\ s.file # job.dst /\ s.current \in Blocks => s.buf = data[s.current]

\* There are bytes to store, and Extend has added a block for them.
Adding == pc = "store" /\ buf.count > 0

\* The command is in its loop.
InLoop == pc \in {"read", "write", "store", "record"}

\* The blocks a descriptor has written to.
Written(d) == IF Adding THEN Len(d.arr) - 1 ELSE Len(d.arr)

\* A descriptor that has written to w blocks is not ahead of them, and one
\* behind when the next chunk may take it past the end of its block.
Room(b, i, w) == b <= w /\ (Chunk < i /\ i < BlockSize => b < w)

\* The first chunk of a file goes to the block just added.
Position(d) ==
  IF Adding /\ d.idx = 0 THEN d.block_idx <= Written(d) + 1
                         ELSE Room(d.block_idx, d.idx, Written(d))

\* The descriptor a command writes: it has no current block only as long as
\* there is none, has the end of a buffer before it unless a request was
\* refused, and as many blocks as Position says.  Its size is backed, by the
\* calls before this one until a read fails, and is not 0 when bytes are in
\* the buffer.
Destination(d) ==
  /\ d.arr = blocks[d.file]
  /\ d.current \in {0} \cup Range(d.arr)
  /\ Adding => d.current # 0
  /\ InLoop \/ Granted(d.file) => (d.current = 0 => d.block_idx = 0 /\ d.arr = <<>>)
  /\ Granted(d.file) => d.idx < BlockSize
  /\ InLoop => Position(d)
  /\ calls >= 1
  /\ pc \in {"read", "write", "store"} \/ (pc = "record" /\ buf.count # -1) =>
       Backed(d.size, Written(d), calls - 1)
  /\ pc = "record" => Backed(d.size, Written(d), calls)
  /\ pc \in {"read", "write", "store"} \/ (pc = "record" /\ buf.count = Chunk) =>
       (d.idx > 0 => d.size # 0)

\* A descriptor left half open adds blocks, and counts the size down once.
Idle ==
  HalfOpen /\ pc \in {"read", "write", "store"} =>
    calls >= 1 /\ Backed(size[job.dst], Len(blocks[job.dst]), calls - 1)

\* No two files share a block.
Disjoint ==
  \A f, g \in Files : f # g => Range(blocks[f]) \cap Range(blocks[g]) \subseteq {Refused}

\* Every size on the disk is backed.
AllBacked == \A f \in Files : Backed(size[f], Len(blocks[f]), calls)

\* The inductive invariant.
IInv ==
  /\ TypeOK
  /\ Phases
  /\ Transfer
  /\ IsOpen("src") => Source(fcb["src"])
  /\ IsOpen("dst") => Destination(fcb["dst"])
  /\ Idle
  /\ Disjoint
  /\ AllBacked

-----------------------------------------------------------------------------
(* Sequences, blocks and buffers *)

\* The elements of a sequence over S are in S, and each is in its Range.
LEMMA RangeOf ==
  ASSUME NEW S, NEW s \in Seq(S)
  PROVE  /\ Range(s) \subseteq S
         /\ \A k \in 1 .. Len(s) : s[k] \in Range(s)
BY DEF Range

\* Appending to a sequence: its elements, its length and its Range.
LEMMA AppendTo ==
  ASSUME NEW S, NEW s \in Seq(S), NEW x \in S
  PROVE  /\ Append(s, x) \in Seq(S) /\ Len(Append(s, x)) = Len(s) + 1
         /\ Append(s, x)[Len(s) + 1] = x
         /\ \A k \in 1 .. Len(s) : Append(s, x)[k] = s[k]
         /\ Range(Append(s, x)) = Range(s) \cup {x}
<1>1. /\ Append(s, x) \in Seq(S) /\ Len(Append(s, x)) = Len(s) + 1
      /\ Append(s, x)[Len(s) + 1] = x
      /\ \A k \in 1 .. Len(s) : Append(s, x)[k] = s[k]
  OBVIOUS
<1>2. Range(Append(s, x)) = Range(s) \cup {x}
  BY <1>1 DEF Range
<1>3. QED BY <1>1, <1>2

\* No block stands for an empty array, or for a request refused.
LEMMA NoBlock == 0 \notin Blocks /\ Refused \notin Blocks /\ Refused # 0
BY DEF Blocks, Refused

\* The fields of a descriptor.
LEMMA Fields ==
  ASSUME NEW c \in Fcb
  PROVE  /\ c.file \in Files /\ c.arr \in Seq({Refused} \cup Blocks)
         /\ c.current \in {0, Refused} \cup Blocks
         /\ c.size \in Nat /\ c.size < SizeLimit /\ c.block_idx \in Nat
         /\ c.idx \in Nat /\ c.idx <= BlockSize
         /\ c.buf \in [1 .. BlockSize -> Cell]
BY FileIOAssumption DEF Fcb

\* A descriptor at another index.
LEMMA Moved ==
  ASSUME NEW c \in Fcb, NEW i \in 0 .. BlockSize, NEW d, d = [c EXCEPT !.idx = i]
  PROVE  /\ d \in Fcb /\ d.idx = i
         /\ d.file = c.file /\ d.size = c.size /\ d.arr = c.arr
         /\ d.block_idx = c.block_idx /\ d.current = c.current /\ d.buf = c.buf
BY DEF Fcb

\* A descriptor with another buffer.
LEMMA Refilled ==
  ASSUME NEW c \in Fcb, NEW cells \in [1 .. BlockSize -> Cell], NEW d, d = [c EXCEPT !.buf = cells]
  PROVE  /\ d \in Fcb /\ d.buf = cells
         /\ d.file = c.file /\ d.size = c.size /\ d.arr = c.arr
         /\ d.block_idx = c.block_idx /\ d.current = c.current /\ d.idx = c.idx
BY DEF Fcb

\* What next_block does with an array it has not run out of.
LEMMA NextBlock ==
  ASSUME NEW c \in Fcb, NEW cells \in [Blocks -> [1 .. BlockSize -> Cell]],
         c.block_idx <= Len(c.arr), NEW d, d = next_block(c, cells)
  PROVE  /\ d \in Fcb
         /\ d.file = c.file /\ d.size = c.size /\ d.arr = c.arr
         /\ d.block_idx = c.block_idx + 1
         /\ c.block_idx < Len(c.arr) =>
              d.current # 0 /\ d.current \in Range(c.arr)
              /\ d.current = c.arr[c.block_idx + 1]
         /\ c.block_idx = Len(c.arr) => d.current = 0
         /\ d.current \in Blocks => d.idx = 0 /\ d.buf = cells[d.current]
         /\ d.current \notin Blocks => d.idx = c.idx /\ d.buf = c.buf
<1>0. c.arr \in Seq({Refused} \cup Blocks) /\ c.block_idx \in Nat
  BY Fields
<1> DEFINE k == c.block_idx + 1
           blk == Append(c.arr, 0)[k]
<1>1. /\ c.arr \in Seq({Refused} \cup Blocks) /\ c.block_idx \in Nat /\ k \in Nat
      /\ c.block_idx < Len(c.arr) => blk = c.arr[k] /\ blk \in {Refused} \cup Blocks
      /\ c.block_idx = Len(c.arr) => blk = 0
  BY <1>0, SMTT(30)
<1>2. d = IF blk \in Blocks
            THEN [c EXCEPT !.block_idx = k, !.current = blk, !.idx = 0, !.buf = cells[blk]]
            ELSE [c EXCEPT !.block_idx = k, !.current = blk]
  BY Zenon DEF next_block
<1>3. /\ c.block_idx < Len(c.arr) => blk \in Range(c.arr) /\ blk # 0
      /\ c.block_idx < Len(c.arr) \/ c.block_idx = Len(c.arr)
      /\ blk \in {0, Refused} \cup Blocks
  BY <1>1, NoBlock DEF Range
<1>4. k = c.block_idx + 1
  OBVIOUS
<1> HIDE DEF blk, k
<1>5. CASE blk \in Blocks
  <2>1. d = [c EXCEPT !.block_idx = k, !.current = blk, !.idx = 0, !.buf = cells[blk]]
    BY <1>2, <1>5
  <2>2. cells[blk] \in [1 .. BlockSize -> Cell] /\ 0 \in 0 .. BlockSize
    BY <1>5, FileIOAssumption
  <2>3. d \in Fcb
    BY <1>1, <1>5, <2>1, <2>2 DEF Fcb
  <2>4. /\ d.file = c.file /\ d.size = c.size /\ d.arr = c.arr
        /\ d.block_idx = k /\ d.current = blk /\ d.idx = 0 /\ d.buf = cells[blk]
    BY <2>1 DEF Fcb
  <2>5. QED BY <1>1, <1>3, <1>4, <1>5, <2>3, <2>4
<1>6. CASE blk \notin Blocks
  <2>1. d = [c EXCEPT !.block_idx = k, !.current = blk]
    BY <1>2, <1>6
  <2>2. d \in Fcb
    BY <1>1, <1>3, <2>1 DEF Fcb
  <2>3. /\ d.file = c.file /\ d.size = c.size /\ d.arr = c.arr
        /\ d.block_idx = k /\ d.current = blk /\ d.idx = c.idx /\ d.buf = c.buf
    BY <2>1 DEF Fcb
  <2>4. QED BY <1>1, <1>3, <1>4, <1>6, <2>2, <2>3
<1>7. QED BY <1>5, <1>6

\* A block written to, when there is one.
LEMMA WrittenTo ==
  ASSUME NEW cells \in [Blocks -> [1 .. BlockSize -> Cell]], NEW loc,
         NEW block \in [1 .. BlockSize -> Cell]
  PROVE  /\ LBAwrite(cells, loc, block) \in [Blocks -> [1 .. BlockSize -> Cell]]
         /\ \A b \in Blocks : b # loc => LBAwrite(cells, loc, block)[b] = cells[b]
         /\ loc \in Blocks => LBAwrite(cells, loc, block)[loc] = block
BY DEF LBAwrite

\* Copying to a buffer leaves a buffer.
LEMMA FillType ==
  ASSUME NEW cells \in [1 .. BlockSize -> Cell], NEW i \in Nat, NEW bytes \in Seq(Cell)
  PROVE  Fill(cells, i, bytes) \in [1 .. BlockSize -> Cell]
BY DEF Fill

\* A piece of a buffer is a sequence of its cells.
LEMMA Piece ==
  ASSUME NEW cells \in [1 .. BlockSize -> Cell],
         NEW i \in Nat, NEW k \in Nat, i + k <= BlockSize
  PROVE  /\ SubSeq(cells, i + 1, i + k) \in Seq(Cell) /\ Len(SubSeq(cells, i + 1, i + k)) = k
         /\ \A j \in 1 .. k : SubSeq(cells, i + 1, i + k)[j] = cells[i + j]
<1>1. BlockSize \in Nat
  BY FileIOAssumption
<1>2. cells \in Seq(Cell) /\ Len(cells) = BlockSize
  BY <1>1
<1>3. QED BY <1>1, <1>2

-----------------------------------------------------------------------------
(* b_read and b_write *)

\* The smaller of two integers.
LEMMA SmallerOf ==
  ASSUME NEW a \in Int, NEW b \in Int
  PROVE  /\ Smaller(a, b) \in Int /\ Smaller(a, b) <= a /\ Smaller(a, b) <= b
         /\ Smaller(a, b) = a \/ Smaller(a, b) = b
BY DEF Smaller

\* The part of a read or write that fits in the block under way.
LEMMA FirstPart ==
  ASSUME NEW n \in Nat, n >= 1, NEW i \in Nat, NEW B \in Nat, i < B, NEW p, p = Smaller(n, B - i)
  PROVE  /\ p \in Nat /\ p >= 1 /\ p <= n /\ i + p <= B /\ n - p \in Nat /\ n - p <= n
         /\ i + p < B => n - p = 0
BY DEF Smaller

\* The copying part of b_read keeps the descriptor in shape; only a read that
-----------------------------------------------------------------------------
(* b_read and b_write *)

\* The copying part of b_read keeps the descriptor in shape; only a read that
\* has run out of blocks leaves it behind the last one, and returns 1.
LEMMA Delivering ==
  ASSUME data \in [Blocks -> [1 .. BlockSize -> Cell]],
         NEW c \in Fcb, c.idx < BlockSize, c.block_idx <= Len(c.arr),
         NEW count \in 1 .. BlockSize - 1, NEW r, r = Delivered(c, count)
  PROVE  /\ r.count \in 1 .. count /\ r.bytes \in Seq(Cell) /\ Len(r.bytes) = r.count
         /\ r.fcb \in Fcb /\ r.fcb.file = c.file /\ r.fcb.arr = c.arr
         /\ r.fcb.current \in {0, c.current} \cup Range(c.arr)
         /\ \/ r.fcb.current \notin Blocks
            \/ r.fcb.buf = data[r.fcb.current]
            \/ r.fcb.current = c.current /\ r.fcb.buf = c.buf
         /\ r.count > 1 => r.fcb.idx < BlockSize /\ r.fcb.block_idx <= Len(c.arr)
         /\ r.count > 1 =>
              \/ r.fcb.block_idx = c.block_idx /\ r.fcb.idx = c.idx + r.count
              \/ r.fcb.block_idx = c.block_idx + 1 /\ r.fcb.idx + BlockSize = c.idx + r.count
<1> DEFINE part1 == Smaller(count, BlockSize - c.idx)
           part3 == count - part1
           head  == SubSeq(c.buf, c.idx + 1, c.idx + part1)
           moved == [c EXCEPT !.idx = @ + part1]
           c1    == IF moved.idx >= BlockSize THEN next_block(moved, data) ELSE moved
           rest  == SubSeq(c1.buf, c1.idx + 1, c1.idx + part3)
           done  == [c1 EXCEPT !.idx = @ + part3]
<1>1. /\ BlockSize \in Nat /\ c.size \in Nat /\ c.idx \in 0 .. BlockSize - 1
      /\ c.arr \in Seq({Refused} \cup Blocks) /\ c.block_idx \in Nat /\ c.buf \in [1 .. BlockSize -> Cell]
  BY FileIOAssumption DEF Fcb
<1>2. r = IF moved.idx >= BlockSize /\ c1.current \notin Blocks
            THEN [count |-> 1, bytes |-> SubSeq(head, 1, 1), fcb |-> c1]
            ELSE [count |-> count, bytes |-> head \o rest, fcb |-> done]
  BY DEF Delivered
<1>3. /\ part1 \in 1 .. count /\ c.idx + part1 <= BlockSize
      /\ part3 \in 0 .. BlockSize - 1 /\ part1 + part3 = count
      /\ c.idx + part1 < BlockSize => part3 = 0
  <2>1. BlockSize - c.idx \in Int /\ BlockSize - c.idx >= 1 /\ count \in Int
    BY <1>1
  <2>2. /\ part1 \in Int /\ part1 <= count /\ part1 <= BlockSize - c.idx
        /\ part1 = count \/ part1 = BlockSize - c.idx
    BY <2>1, SmallerOf
  <2>3. part3 = count - part1 /\ count >= 1 /\ count <= BlockSize - 1
    BY <1>1
  <2> HIDE DEF part1, part3
  <2>4. QED BY ONLY <1>1, <2>1, <2>2, <2>3
<1> HIDE DEF part1, part3
<1>4. head \in Seq(Cell) /\ Len(head) = part1
  <2>1. c.idx \in Nat /\ part1 \in Nat
    BY <1>1, <1>3
  <2>2. QED BY <1>1, <1>3, <2>1, Piece
<1>5. /\ moved \in Fcb /\ moved.idx = c.idx + part1
      /\ moved.file = c.file /\ moved.size = c.size /\ moved.arr = c.arr
      /\ moved.block_idx = c.block_idx /\ moved.current = c.current /\ moved.buf = c.buf
  <2>1. c.idx + part1 \in 0 .. BlockSize
    BY <1>1, <1>3
  <2>2. QED BY <2>1, Moved
<1>6. c.idx + part1 < BlockSize => c1 = moved
  BY <1>1, <1>3, <1>5
<1>7. c.idx + part1 >= BlockSize => c1 = next_block(moved, data) /\ moved.idx >= BlockSize
  BY <1>1, <1>3, <1>5
<1> HIDE DEF head, moved, c1
<1>8. ASSUME c1 \in Fcb, c1.idx + part3 < BlockSize, NEW d, d = done
      PROVE  /\ d \in Fcb /\ d.file = c1.file /\ d.arr = c1.arr /\ d.block_idx = c1.block_idx
             /\ d.current = c1.current /\ d.buf = c1.buf /\ d.idx < BlockSize
             /\ d.idx = c1.idx + part3
             /\ head \o rest \in Seq(Cell) /\ Len(head \o rest) = count
  <2>1. c1.idx \in Nat /\ c1.buf \in [1 .. BlockSize -> Cell]
    BY <1>8 DEF Fcb
  <2>2. rest \in Seq(Cell) /\ Len(rest) = part3
    <3>1. part3 \in Nat /\ c1.idx + part3 <= BlockSize
      BY <1>1, <1>3, <1>8, <2>1
    <3>2. QED BY <2>1, <3>1, Piece
  <2> HIDE DEF rest
  <2>3. head \o rest \in Seq(Cell) /\ Len(head \o rest) = count
    <3>1. head \in Seq(Cell) /\ rest \in Seq(Cell)
      BY <1>4, <2>2
    <3>2. head \o rest \in Seq(Cell) /\ Len(head \o rest) = Len(head) + Len(rest)
      BY ONLY <3>1
    <3>3. QED BY <1>3, <1>4, <2>2, <3>2
  <2>4. c1.idx + part3 \in 0 .. BlockSize
    BY <1>1, <1>3, <1>8, <2>1
  <2>5. QED BY <1>8, <2>3, <2>4, Moved
<1> HIDE DEF rest, done
<1>9. CASE c.idx + part1 < BlockSize
  <2>1. c1 = moved /\ part3 = 0 /\ ~(moved.idx >= BlockSize)
    BY <1>1, <1>3, <1>5, <1>6, <1>9
  <2>2. r = [count |-> count, bytes |-> head \o rest, fcb |-> done]
    BY <1>2, <2>1
  <2>3. c1.idx + part3 < BlockSize
    BY <1>1, <1>3, <1>5, <1>9, <2>1
  <2>4. QED BY <1>1, <1>3, <1>5, <1>8, <2>1, <2>2, <2>3
<1>10. CASE c.idx + part1 >= BlockSize
  <2>1. c1 = next_block(moved, data) /\ moved.idx >= BlockSize
    BY <1>7, <1>10
  <2>2. /\ c1 \in Fcb /\ c1.file = c.file /\ c1.arr = c.arr
        /\ c1.block_idx = c.block_idx + 1
        /\ c.block_idx < Len(c.arr) => c1.current \in Range(c.arr)
        /\ c.block_idx = Len(c.arr) => c1.current = 0
        /\ c1.current \in Blocks => c1.idx = 0 /\ c1.buf = data[c1.current]
    BY <1>5, <2>1, NextBlock
  <2>6. c.block_idx < Len(c.arr) \/ c.block_idx = Len(c.arr)
    BY <1>1
  <2>3. CASE c1.current \notin Blocks
    <3>1. r = [count |-> 1, bytes |-> SubSeq(head, 1, 1), fcb |-> c1]
      BY <1>2, <2>1, <2>3
    <3>2. SubSeq(head, 1, 1) \in Seq(Cell) /\ Len(SubSeq(head, 1, 1)) = 1
      BY <1>3, <1>4
    <3>3. QED BY <1>1, <2>2, <2>3, <2>6, <3>1, <3>2
  <2>4. CASE c1.current \in Blocks
    <3>0. c.block_idx < Len(c.arr)
      BY <2>2, <2>4, <2>6, NoBlock
    <3>1. r = [count |-> count, bytes |-> head \o rest, fcb |-> done]
      BY <1>2, <2>4
    <3>2. c1.idx + part3 < BlockSize
      BY <1>1, <1>3, <2>2, <2>4
    <3>3. c1.block_idx <= Len(c.arr)
      BY <1>1, <2>2, <3>0
    <3>4. /\ done \in Fcb /\ done.file = c1.file /\ done.arr = c1.arr
          /\ done.block_idx = c1.block_idx /\ done.current = c1.current /\ done.buf = c1.buf
          /\ done.idx < BlockSize /\ done.idx = c1.idx + part3
          /\ head \o rest \in Seq(Cell) /\ Len(head \o rest) = count
      BY <1>8, <2>2, <3>2
    <3>5. done.block_idx = c.block_idx + 1 /\ done.idx + BlockSize = c.idx + count
      <4>1. done.idx = part3
        BY <1>3, <2>2, <2>4, <3>4
      <4>2. done.block_idx = c.block_idx + 1
        BY <2>2, <3>4
      <4>3. /\ c.idx \in Nat /\ BlockSize \in Nat /\ count \in Nat
            /\ part1 \in Nat /\ part3 \in Nat /\ part1 + part3 = count
            /\ c.idx + part1 <= BlockSize /\ c.idx + part1 >= BlockSize
        BY <1>1, <1>3, <1>10
      <4>4. part3 + BlockSize = c.idx + count
        BY ONLY <4>3
      <4>5. QED BY <4>1, <4>2, <4>4
    <3>6. r.count = count /\ r.bytes = head \o rest /\ r.fcb = done
      BY <3>1
    <3>7. QED BY <1>1, <2>2, <2>4, <3>0, <3>3, <3>4, <3>5, <3>6
  <2>5. QED BY <2>3, <2>4
<1>11. QED BY <1>1, <1>3, <1>9, <1>10

\* b_read keeps the descriptor in shape, whatever the size is.
LEMMA Reading ==
  ASSUME data \in [Blocks -> [1 .. BlockSize -> Cell]],
         NEW c \in Fcb, c.idx < BlockSize, c.block_idx <= Len(c.arr),
         NEW n \in 1 .. BlockSize - 1, NEW r, r = b_read(c, n)
  PROVE  /\ r.count \in -1 .. n /\ r.bytes \in Seq(Cell)
         /\ r.count >= 0 => Len(r.bytes) = r.count
         /\ r.fcb \in Fcb /\ r.fcb.file = c.file /\ r.fcb.arr = c.arr
         /\ r.fcb.current \in {0, c.current} \cup Range(c.arr)
         /\ \/ r.fcb.current \notin Blocks
            \/ r.fcb.buf = data[r.fcb.current]
            \/ r.fcb.current = c.current /\ r.fcb.buf = c.buf
         /\ r.count > 1 => r.fcb.idx < BlockSize /\ r.fcb.block_idx <= Len(c.arr)
         /\ r.count > 1 =>
              \/ r.fcb.block_idx = c.block_idx /\ r.fcb.idx = c.idx + r.count
              \/ r.fcb.block_idx = c.block_idx + 1 /\ r.fcb.idx + BlockSize = c.idx + r.count
<1> DEFINE a == Ahead(c)
<1>1. BlockSize \in Nat /\ c.size \in Nat /\ c.block_idx \in Nat /\ c.idx \in Nat
  BY FileIOAssumption DEF Fcb
<1>1a. a \in Nat
  BY <1>1 DEF Ahead
<1>2. r = CASE c.size = 0 -> [count |-> 0, bytes |-> <<>>, fcb |-> c]
            [] c.size # 0 /\ a >= c.size -> [count |-> -1, bytes |-> <<>>, fcb |-> c]
            [] OTHER -> Delivered(c, Smaller(n, c.size - a))
  BY DEF b_read
<1> HIDE DEF a
<1>3. CASE c.size = 0
  <2>1. r = [count |-> 0, bytes |-> <<>>, fcb |-> c]
    BY <1>2, <1>3
  <2>2. QED BY <1>1, <2>1
<1>4. CASE c.size # 0 /\ a >= c.size
  <2>1. r = [count |-> -1, bytes |-> <<>>, fcb |-> c]
    BY <1>2, <1>4
  <2>2. QED BY <1>1, <2>1
<1>5. CASE c.size # 0 /\ ~(a >= c.size)
  <2> DEFINE count == Smaller(n, c.size - a)
  <2>1. r = Delivered(c, count)
    BY <1>2, <1>5
  <2>2. count \in 1 .. n
    BY <1>1, <1>1a, <1>5 DEF Smaller
  <2> HIDE DEF count
  <2>3. count \in 1 .. BlockSize - 1
    BY <1>1, <2>2
  <2>4. /\ r.count \in 1 .. count /\ r.bytes \in Seq(Cell) /\ Len(r.bytes) = r.count
        /\ r.fcb \in Fcb /\ r.fcb.file = c.file /\ r.fcb.arr = c.arr
        /\ r.fcb.current \in {0, c.current} \cup Range(c.arr)
        /\ \/ r.fcb.current \notin Blocks
           \/ r.fcb.buf = data[r.fcb.current]
           \/ r.fcb.current = c.current /\ r.fcb.buf = c.buf
        /\ r.count > 1 => r.fcb.idx < BlockSize /\ r.fcb.block_idx <= Len(c.arr)
        /\ r.count > 1 =>
             \/ r.fcb.block_idx = c.block_idx /\ r.fcb.idx = c.idx + r.count
             \/ r.fcb.block_idx = c.block_idx + 1 /\ r.fcb.idx + BlockSize = c.idx + r.count
    BY <2>1, <2>3, Delivering
  <2>5. r.count \in -1 .. n
    BY <2>2, <2>4
  <2>6. QED BY <2>4, <2>5
<1>6. QED BY <1>3, <1>4, <1>5

\* What the proofs use of the constants.
LEMMA Constants ==
  /\ BlockSize \in Nat /\ Chunk \in Nat /\ Chunk >= 3 /\ 2 * Chunk < BlockSize
  /\ MaxExtents \in Nat /\ MaxBlocks \in Nat /\ MaxCalls \in Nat
  /\ Linux \notin Files
BY FileIOAssumption

\* A size that is counted up or down wraps once at most.
LEMMA Modulo ==
  ASSUME NEW a \in Int
  PROVE  /\ a % SizeLimit \in 0 .. SizeLimit - 1
         /\ a \in 0 .. SizeLimit - 1 => a % SizeLimit = a
         /\ a \in SizeLimit .. 2 * SizeLimit - 1 => a % SizeLimit = a - SizeLimit
         /\ a = -1 => a % SizeLimit = SizeLimit - 1
<1>1. SizeLimit \in Nat /\ SizeLimit > 0
  <2>1. MaxExtents * BlockSize >= 0
    BY FileIOAssumption
  <2>2. QED BY <2>1, FileIOAssumption
<1>2. QED BY <1>1

\* b_write of nothing, or of a failed read's -1, changes the size alone, unless
\* the buffer is full: then it goes on to the next block first, if there is one.
StoresNothing(c, n, s) ==
  /\ s.data = data /\ s.ok \in BOOLEAN
  /\ s.fcb \in Fcb /\ s.fcb.file = c.file /\ s.fcb.arr = c.arr
  /\ s.fcb.size = IF s.ok THEN (c.size + n) % SizeLimit ELSE c.size
  /\ s.fcb.current \in {0} \cup Range(c.arr)
  /\ c.idx < BlockSize =>
       /\ s.ok /\ s.fcb.idx = c.idx /\ s.fcb.block_idx = c.block_idx
       /\ s.fcb.current = c.current /\ s.fcb.buf = c.buf
  /\ c.idx = BlockSize /\ s.ok =>
       /\ s.fcb.current \in Blocks /\ s.fcb.idx = 0
       /\ s.fcb.block_idx <= Len(c.arr)

\* The data part of b_write with no bytes to store does that.
LEMMA StoringNothing ==
  ASSUME data \in [Blocks -> [1 .. BlockSize -> Cell]],
         NEW c \in Fcb, NEW n \in -1 .. 0, NEW bytes, c.block_idx <= Len(c.arr),
         c.current \in {0} \cup Range(c.arr), NEW s, s = Stored(c, n, bytes)
  PROVE  StoresNothing(c, n, s)
<1>1. BlockSize \in Nat /\ c.idx \in 0 .. BlockSize /\ c.size \in Nat /\ c.arr \in Seq({Refused} \cup Blocks)
      /\ c.block_idx \in Nat
  BY Constants, Fields
<1> DEFINE part1 == Smaller(n, Available(c))
           part3 == n - part1
           fill1 == Fill(c.buf, c.idx, SubSeq(bytes, 1, part1))
           disk1 == IF part1 > 0 THEN LBAwrite(data, c.current, fill1) ELSE data
           c1    == IF part1 > 0 THEN [c EXCEPT !.buf = fill1, !.idx = @ + part1] ELSE c
           full  == part1 > 0 /\ c1.idx >= BlockSize
           c2    == IF full THEN next_block(c1, disk1) ELSE c1
           fill3 == Fill(c2.buf, c2.idx, SubSeq(bytes, part1 + 1, n))
           disk3 == IF part3 > 0 THEN LBAwrite(disk1, c2.current, fill3) ELSE disk1
           c3    == IF part3 > 0 THEN next_block([c2 EXCEPT !.buf = fill3], disk3) ELSE c2
           c4    == IF n <= 0 /\ c.idx >= BlockSize THEN next_block(c3, disk3) ELSE c3
           done  == [c4 EXCEPT !.idx = @ + part3, !.size = (@ + n) % SizeLimit]
           z     == (c.size + n) % SizeLimit
<1>2. s = IF full /\ c2.current \notin Blocks
            THEN [fcb |-> c2, data |-> disk1, ok |-> FALSE]
          ELSE IF (part3 > 0 \/ c.idx >= BlockSize) /\ c4.current \notin Blocks
            THEN [fcb |-> c4, data |-> disk3, ok |-> FALSE]
          ELSE [fcb |-> done, data |-> disk3, ok |-> TRUE]
  BY Zenon DEF Stored
<1>3. part1 = n /\ ~(part1 > 0) /\ part3 = 0 /\ n <= 0
  <2>1. Available(c) \in Int /\ Available(c) >= 0
    BY <1>1 DEF Available
  <2>2. Smaller(n, Available(c)) = n
    BY <2>1 DEF Smaller
  <2>3. QED BY <2>2
<1> HIDE DEF part1, part3
<1>4. ~full /\ disk1 = data /\ c1 = c
  BY <1>3
<1> HIDE DEF full, disk1, c1
<1>5. c2 = c
  BY <1>4
<1> HIDE DEF c2
<1>6. c3 = c /\ disk3 = data
  BY <1>3, <1>4, <1>5
<1> HIDE DEF c3, disk3
<1>7. s = IF c.idx >= BlockSize /\ c4.current \notin Blocks
            THEN [fcb |-> c4, data |-> data, ok |-> FALSE]
            ELSE [fcb |-> done, data |-> data, ok |-> TRUE]
  BY <1>2, <1>3, <1>4, <1>6
<1>8. z \in 0 .. SizeLimit - 1
  BY <1>1, Modulo
<1>9. CASE c.idx < BlockSize
  <2>1. c4 = c /\ ~(c.idx >= BlockSize)
    BY <1>1, <1>6, <1>9
  <2> HIDE DEF c4
  <2>2. c.idx + part3 = c.idx
    BY <1>1, <1>3
  <2>3. done = [c EXCEPT !.idx = c.idx, !.size = z]
    BY <2>1, <2>2
  <2> HIDE DEF done, z
  <2>4. /\ done \in Fcb /\ done.idx = c.idx /\ done.size = z
        /\ done.file = c.file /\ done.arr = c.arr
        /\ done.block_idx = c.block_idx /\ done.current = c.current /\ done.buf = c.buf
    BY ONLY c \in Fcb, <1>1, <1>8, <2>3 DEF Fcb
  <2>5. s = [fcb |-> done, data |-> data, ok |-> TRUE] /\ ~(c.idx = BlockSize)
    BY <1>1, <1>7, <1>9, <2>1
  <2>6. QED BY <2>4, <2>5 DEF StoresNothing, z
<1>10. CASE c.idx = BlockSize
  <2>1. c4 = next_block(c, data) /\ c.idx >= BlockSize /\ ~(c.idx < BlockSize)
    BY <1>1, <1>3, <1>6, <1>10
  <2> HIDE DEF c4
  <2>2. /\ c4 \in Fcb /\ c4.file = c.file /\ c4.size = c.size /\ c4.arr = c.arr
        /\ c4.block_idx = c.block_idx + 1 /\ c4.current \in {0} \cup Range(c.arr)
        /\ c.block_idx = Len(c.arr) => c4.current = 0
        /\ c4.current \in Blocks => c4.idx = 0
        /\ c.block_idx < Len(c.arr) \/ c.block_idx = Len(c.arr)
    <3>1. c.block_idx < Len(c.arr) \/ c.block_idx = Len(c.arr)
      BY <1>1
    <3>2. QED BY <2>1, <3>1, NextBlock
  <2>3. CASE c4.current \notin Blocks
    <3>1. s = [fcb |-> c4, data |-> data, ok |-> FALSE]
      BY <1>7, <2>1, <2>3
    <3>2. QED BY <2>1, <2>2, <3>1 DEF StoresNothing
  <2>4. CASE c4.current \in Blocks
    <3>1. s = [fcb |-> done, data |-> data, ok |-> TRUE]
      BY <1>7, <2>4
    <3>2. c4.idx + part3 = 0 /\ 0 \in 0 .. BlockSize
      BY <1>1, <1>3, <2>2, <2>4
    <3>3. done = [c4 EXCEPT !.idx = 0, !.size = z]
      BY <2>2, <3>2
    <3> HIDE DEF done, z
    <3>4. /\ done \in Fcb /\ done.idx = 0 /\ done.size = z
          /\ done.file = c4.file /\ done.arr = c4.arr
          /\ done.block_idx = c4.block_idx /\ done.current = c4.current
      BY ONLY <1>8, <2>2, <3>2, <3>3 DEF Fcb
    <3>5. c4.block_idx <= Len(c.arr)
      BY <1>1, <2>2, <2>4, NoBlock
    <3>6. QED BY <2>1, <2>2, <2>4, <3>1, <3>4, <3>5 DEF StoresNothing, z
  <2>5. QED BY <2>3, <2>4
<1>11. QED BY <1>1, <1>9, <1>10

\* When the bytes fit in the block they go to it and no further.
WithinBlock(c, n, bytes, s) ==
  /\ c.idx + n <= BlockSize =>
       s.data = LBAwrite(data, c.current, Fill(c.buf, c.idx, bytes))
  /\ c.idx + n < BlockSize =>
       /\ s.ok /\ s.fcb.idx = c.idx + n /\ s.fcb.block_idx = c.block_idx
       /\ s.fcb.current = c.current /\ s.fcb.buf = Fill(c.buf, c.idx, bytes)
  /\ c.idx + n = BlockSize /\ s.ok => s.fcb.idx = 0

\* b_write of a chunk or less writes to the blocks of its file alone and keeps
\* as far behind the end of the array.  It succeeds as long as there is a block
\* at every entry it gets to; when it fails the size is as it was.
StoresBytes(c, n, s) ==
  /\ s.data \in [Blocks -> [1 .. BlockSize -> Cell]]
  /\ \A b \in Blocks \ Range(c.arr) : s.data[b] = data[b]
  /\ s.ok \in BOOLEAN
  /\ s.fcb \in Fcb /\ s.fcb.file = c.file /\ s.fcb.arr = c.arr
  /\ s.fcb.size = IF s.ok THEN (c.size + n) % SizeLimit ELSE c.size
  /\ s.fcb.current # 0 /\ s.fcb.current \in Range(c.arr)
  /\ Room(s.fcb.block_idx, s.fcb.idx, Len(c.arr))
  /\ ~s.ok /\ s.fcb.idx > 0 => c.idx > 0
  /\ Refused \notin Range(c.arr) /\ c.idx < BlockSize => s.ok /\ s.fcb.idx < BlockSize

\* How far behind: see Position.
Behind(c, L) ==
  IF c.idx = 0 THEN c.block_idx <= L ELSE Room(c.block_idx, c.idx, L - 1)

\* The data part of b_write with bytes to store writes to the descriptor's blocks
\* only, and leaves it where Position says.
LEMMA StoringBytes ==
  ASSUME data \in [Blocks -> [1 .. BlockSize -> Cell]],
         NEW c \in Fcb, NEW n \in 1 .. Chunk, NEW bytes \in Seq(Cell), Len(bytes) = n,
         c.current \in Range(c.arr), c.current # 0, c.idx > 0 => c.size # 0,
         Behind(c, Len(c.arr)), NEW s, s = Stored(c, n, bytes)
  PROVE  StoresBytes(c, n, s) /\ WithinBlock(c, n, bytes, s)
<1> DEFINE L     == Len(c.arr)
           part1 == Smaller(n, Available(c))
           part3 == n - part1
           fill1 == Fill(c.buf, c.idx, SubSeq(bytes, 1, part1))
           disk1 == IF part1 > 0 THEN LBAwrite(data, c.current, fill1) ELSE data
           c1    == IF part1 > 0 THEN [c EXCEPT !.buf = fill1, !.idx = @ + part1] ELSE c
           full  == part1 > 0 /\ c1.idx >= BlockSize
           c2    == IF full THEN next_block(c1, disk1) ELSE c1
           fill3 == Fill(c2.buf, c2.idx, SubSeq(bytes, part1 + 1, n))
           disk3 == IF part3 > 0 THEN LBAwrite(disk1, c2.current, fill3) ELSE disk1
           e     == [c2 EXCEPT !.buf = fill3]
           c3    == IF part3 > 0 THEN next_block(e, disk3) ELSE c2
           done  == [c3 EXCEPT !.idx = @ + part3, !.size = (@ + n) % SizeLimit]
           z     == (c.size + n) % SizeLimit
<1>1. /\ BlockSize \in Nat /\ Chunk \in Nat /\ 2 * Chunk < BlockSize
      /\ c.idx \in Nat /\ c.size \in Nat /\ c.block_idx \in Nat
      /\ n \in Nat /\ n >= 1 /\ n <= Chunk /\ c.idx <= BlockSize
  BY Fields, Constants
<1>2. /\ c.arr \in Seq({Refused} \cup Blocks) /\ c.buf \in [1 .. BlockSize -> Cell]
      /\ Range(c.arr) \subseteq {Refused} \cup Blocks /\ L \in Nat
      /\ c.current \in {Refused} \cup Blocks
  <2>1. c.arr \in Seq({Refused} \cup Blocks) /\ c.buf \in [1 .. BlockSize -> Cell]
    BY Fields
  <2>2. Range(c.arr) \subseteq {Refused} \cup Blocks
    BY <2>1, RangeOf
  <2>3. QED BY <2>1, <2>2
<1>3. s = IF full /\ c2.current \notin Blocks
            THEN [fcb |-> c2, data |-> disk1, ok |-> FALSE]
          ELSE IF (part3 > 0 \/ c.idx >= BlockSize) /\ c3.current \notin Blocks
            THEN [fcb |-> c3, data |-> disk3, ok |-> FALSE]
          ELSE [fcb |-> done, data |-> disk3, ok |-> TRUE]
  <2> DEFINE c4 == IF n <= 0 /\ c.idx >= BlockSize THEN next_block(c3, disk3) ELSE c3
  <2>1. s = IF full /\ c2.current \notin Blocks
              THEN [fcb |-> c2, data |-> disk1, ok |-> FALSE]
            ELSE IF (part3 > 0 \/ c.idx >= BlockSize) /\ c4.current \notin Blocks
              THEN [fcb |-> c4, data |-> disk3, ok |-> FALSE]
            ELSE [fcb |-> [c4 EXCEPT !.idx = @ + part3, !.size = (@ + n) % SizeLimit],
                  data |-> disk3, ok |-> TRUE]
    BY Zenon DEF Stored
  <2>2. ~(n <= 0)
    BY <1>1
  <2>3. c4 = c3
    BY <2>2
  <2> HIDE DEF c4, c3, c2, disk1, disk3, full, part3
  <2>4. QED BY <2>1, <2>3, Zenon
<1>4. /\ part1 \in 0 .. n /\ part3 \in 0 .. Chunk /\ part1 + part3 = n
      /\ c.idx + part1 <= BlockSize
      /\ c.idx + part1 < BlockSize => part3 = 0
      /\ c.idx < BlockSize => part1 > 0
      /\ c.idx = BlockSize => part1 = 0
  <2>1. Available(c) = BlockSize - c.idx
    BY <1>1 DEF Available
  <2>2. part1 = Smaller(n, BlockSize - c.idx) /\ part3 = n - part1
    BY <2>1
  <2> HIDE DEF part1, part3
  <2>3. BlockSize - c.idx \in Int /\ n \in Int
    BY <1>1
  <2>4. /\ part1 \in Int /\ part1 <= n /\ part1 <= BlockSize - c.idx
        /\ part1 = n \/ part1 = BlockSize - c.idx
    BY ONLY <2>2, <2>3 DEF Smaller
  <2>5. part3 = n - part1
    BY <2>2
  <2>6. part1 >= 0 /\ c.idx + part1 <= BlockSize
    BY ONLY <1>1, <2>4
  <2>7. part1 \in 0 .. n /\ part3 \in 0 .. Chunk /\ part1 + part3 = n
    BY ONLY <1>1, <2>4, <2>5, <2>6
  <2>8. /\ c.idx + part1 < BlockSize => part3 = 0
        /\ c.idx < BlockSize => part1 > 0
        /\ c.idx = BlockSize => part1 = 0
    BY ONLY <1>1, <2>4, <2>5, <2>6
  <2>9. QED BY <2>6, <2>7, <2>8
<1> HIDE DEF part1, part3
<1>5. /\ L >= 1 /\ c.block_idx <= L
      /\ c.idx > 0 => c.block_idx < L
      /\ Chunk < c.idx /\ c.idx < BlockSize => c.block_idx + 1 < L
  <2>1. L >= 1
    <3>1. PICK k \in DOMAIN c.arr : c.arr[k] = c.current
      BY DEF Range
    <3>2. QED BY <1>2, <3>1
  <2> HIDE DEF L
  <2>2. Behind(c, L)
    BY DEF L
  <2>3. QED BY <1>1, <1>2, <2>1, <2>2 DEF Behind, Room
<1>6. fill1 \in [1 .. BlockSize -> Cell]
  <2>1. SubSeq(bytes, 1, part1) \in Seq(Cell)
    BY <1>1, <1>4
  <2>2. c.idx \in Nat
    BY <1>1
  <2>3. QED BY <1>2, <2>1, <2>2, FillType
<1>7. c.idx + n <= BlockSize => part1 = n /\ part3 = 0 /\ fill1 = Fill(c.buf, c.idx, bytes)
  <2>1. c.idx + n <= BlockSize => part1 = n /\ part3 = 0
    BY <1>1, <1>4
  <2>2. SubSeq(bytes, 1, n) = bytes
    BY <1>1
  <2>3. QED BY <2>1, <2>2
<1> HIDE DEF fill1
<1>8. /\ disk1 \in [Blocks -> [1 .. BlockSize -> Cell]]
      /\ \A b \in Blocks \ Range(c.arr) : disk1[b] = data[b]
      /\ part1 > 0 => disk1 = LBAwrite(data, c.current, fill1)
  BY <1>2, <1>6, WrittenTo
<1>9. /\ c1 \in Fcb /\ c1.idx = c.idx + part1 /\ c1.size = c.size /\ c1.file = c.file
      /\ c1.arr = c.arr /\ c1.block_idx = c.block_idx /\ c1.current = c.current
      /\ part1 > 0 => c1.buf = fill1
  <2> DEFINE i == c.idx + part1
  <2>1. i \in 0 .. BlockSize /\ (part1 > 0 => c1 = [c EXCEPT !.buf = fill1, !.idx = i])
    BY <1>1, <1>4
  <2>2. ~(part1 > 0) => c1 = c /\ i = c.idx
    BY <1>1, <1>4
  <2> HIDE DEF c1
  <2>3. CASE part1 > 0
    <3> HIDE DEF i
    <3>1. /\ c1 \in Fcb /\ c1.idx = i /\ c1.size = c.size /\ c1.file = c.file
          /\ c1.arr = c.arr /\ c1.block_idx = c.block_idx /\ c1.current = c.current
          /\ c1.buf = fill1
      BY <1>6, <2>1, <2>3 DEF Fcb
    <3>2. QED BY <3>1 DEF i
  <2>4. QED BY <2>2, <2>3
<1>10. full <=> part1 > 0 /\ c.idx + part1 = BlockSize
  <2> HIDE DEF c1
  <2>1. full <=> part1 > 0 /\ c.idx + part1 >= BlockSize
    BY <1>9
  <2> HIDE DEF full
  <2>2. QED BY ONLY <1>1, <1>4, <2>1
<1> HIDE DEF disk1, c1, full
<1>11. z \in 0 .. SizeLimit - 1
  BY <1>1, Modulo, SMTT(30)
<1> HIDE DEF L
<1>12. c.idx < BlockSize \/ c.idx = BlockSize
  BY <1>1
\* The bytes fit in the block under way.
<1>13. CASE c.idx < BlockSize /\ ~full
  <2>1. part3 = 0 /\ part1 = n /\ part1 > 0 /\ c.idx + n < BlockSize
    BY <1>1, <1>4, <1>10, <1>13
  <2>2. c2 = c1
    BY <1>13
  <2> HIDE DEF c2
  <2>3. disk3 = disk1 /\ c3 = c1
    BY <2>1, <2>2
  <2> HIDE DEF c3, disk3
  <2>4. s = [fcb |-> done, data |-> disk1, ok |-> TRUE]
    BY <1>1, <1>3, <1>13, <2>1, <2>3
  <2>5. c1.idx + part3 = c1.idx /\ c1.idx \in 0 .. BlockSize /\ c1.idx = c.idx + n
    BY <1>1, <1>9, <2>1
  <2>6. done = [c1 EXCEPT !.idx = c1.idx, !.size = z]
    BY <1>9, <2>3, <2>5
  <2> HIDE DEF done, z
  <2>7. /\ done \in Fcb /\ done.idx = c1.idx /\ done.size = z
        /\ done.file = c1.file /\ done.arr = c1.arr
        /\ done.block_idx = c1.block_idx /\ done.current = c1.current /\ done.buf = c1.buf
    BY ONLY <1>9, <1>11, <2>5, <2>6 DEF Fcb
  <2>8. fill1 = Fill(c.buf, c.idx, bytes)
    BY <1>1, <1>7, <2>1
  <2>9. WithinBlock(c, n, bytes, s)
    <3>1. c.idx + n # BlockSize
      BY <1>1, <2>1
    <3>2. QED BY <1>8, <1>9, <2>1, <2>4, <2>5, <2>7, <2>8, <3>1 DEF WithinBlock
  <2>10. Room(done.block_idx, done.idx, L)
    BY <1>1, <1>2, <1>5, <1>9, <2>1, <2>5, <2>7 DEF Room
  <2>11. StoresBytes(c, n, s)
    BY <1>8, <1>9, <2>1, <2>4, <2>5, <2>7, <2>10 DEF StoresBytes, z, L
  <2>12. QED BY <2>9, <2>11
\* They fill it,
<1>14. CASE c.idx < BlockSize /\ full
  <2>1. /\ part1 > 0 /\ c.idx + part1 = BlockSize /\ c.idx > 0 /\ c.block_idx < L
        /\ part3 > 0 => c.block_idx + 1 < L
        /\ ~(c.idx >= BlockSize) /\ ~(c.idx + n < BlockSize)
        /\ c.idx + n <= BlockSize => part3 = 0
    BY <1>1, <1>2, <1>4, <1>5, <1>10, <1>14
  <2>2. c2 = next_block(c1, disk1)
    BY <1>14
  <2> HIDE DEF c2
  <2>3. /\ c2 \in Fcb /\ c2.file = c.file /\ c2.size = c.size /\ c2.arr = c.arr
        /\ c2.block_idx = c.block_idx + 1 /\ c2.current # 0 /\ c2.current \in Range(c.arr)
        /\ c2.current \in Blocks => c2.idx = 0
        /\ c2.current \notin Blocks => c2.idx = BlockSize
    <3>1. c1.block_idx < Len(c1.arr) /\ c1.block_idx <= Len(c1.arr)
      BY <1>1, <1>2, <1>9, <2>1 DEF L
    <3>2. QED BY <1>8, <1>9, <2>1, <2>2, <3>1, NextBlock
  <2>4. c2.current \notin Blocks => c2.current = Refused /\ Refused \in Range(c.arr)
    BY <1>2, <2>3
  <2>5. CASE c2.current \notin Blocks
    <3>1. s = [fcb |-> c2, data |-> disk1, ok |-> FALSE]
      BY <1>3, <1>14, <2>5
    <3>2. Room(c2.block_idx, c2.idx, L)
      BY <1>1, <1>2, <2>1, <2>3, <2>5 DEF Room
    <3>3. StoresBytes(c, n, s)
      BY <1>8, <2>1, <2>3, <2>4, <2>5, <3>1, <3>2 DEF StoresBytes, L
    <3>4. WithinBlock(c, n, bytes, s)
      BY <1>7, <1>8, <2>1, <3>1 DEF WithinBlock
    <3>5. QED BY <3>3, <3>4
  <2>6. CASE c2.current \in Blocks /\ part3 = 0
    <3>1. disk3 = disk1 /\ c3 = c2
      BY <2>6
    <3> HIDE DEF c3, disk3
    <3>2. s = [fcb |-> done, data |-> disk1, ok |-> TRUE]
      BY <1>3, <2>1, <2>6, <3>1
    <3>3. c2.idx + part3 = 0 /\ 0 \in 0 .. BlockSize
      BY <1>1, <2>3, <2>6
    <3>4. done = [c2 EXCEPT !.idx = 0, !.size = z]
      BY <2>3, <3>1, <3>3
    <3> HIDE DEF done, z
    <3>5. /\ done \in Fcb /\ done.idx = 0 /\ done.size = z
          /\ done.file = c2.file /\ done.arr = c2.arr
          /\ done.block_idx = c2.block_idx /\ done.current = c2.current
      BY ONLY <1>11, <2>3, <3>3, <3>4 DEF Fcb
    <3>6. Room(done.block_idx, done.idx, L) /\ done.idx < BlockSize
      BY <1>1, <1>2, <2>1, <2>3, <3>5 DEF Room
    <3>7. StoresBytes(c, n, s)
      BY <1>8, <2>3, <3>2, <3>5, <3>6 DEF StoresBytes, z, L
    <3>8. WithinBlock(c, n, bytes, s)
      BY <1>7, <1>8, <2>1, <3>2, <3>5 DEF WithinBlock
    <3>9. QED BY <3>7, <3>8
  \* ... and the rest of them goes to the next one.
  <2>7. CASE c2.current \in Blocks /\ part3 > 0
    <3>1. fill3 \in [1 .. BlockSize -> Cell]
      <4>1. SubSeq(bytes, part1 + 1, n) \in Seq(Cell)
        BY <1>1, <1>4
      <4>2. QED BY <2>3, <4>1, Fields, FillType
    <3> HIDE DEF fill3
    <3>2. /\ disk3 \in [Blocks -> [1 .. BlockSize -> Cell]]
          /\ \A b \in Blocks \ Range(c.arr) : disk3[b] = data[b]
      BY <1>8, <2>3, <3>1, WrittenTo
    <3>3. /\ e \in Fcb /\ e.file = c.file /\ e.size = c.size /\ e.arr = c.arr
          /\ e.block_idx = c.block_idx + 1 /\ e.idx = 0
      BY ONLY <2>3, <2>7, <3>1, Refilled
    <3>4. c3 = next_block(e, disk3)
      BY <2>7
    <3> HIDE DEF e, c3, disk3
    <3>5. /\ c3 \in Fcb /\ c3.file = c.file /\ c3.size = c.size /\ c3.arr = c.arr
          /\ c3.block_idx = c.block_idx + 2 /\ c3.current # 0 /\ c3.current \in Range(c.arr)
          /\ c3.idx = 0
      <4>1. /\ e.block_idx < Len(e.arr) /\ e.block_idx <= Len(e.arr)
            /\ e.block_idx + 1 = c.block_idx + 2
        BY <1>1, <1>2, <2>1, <2>7, <3>3 DEF L
      <4>2. QED BY <3>2, <3>3, <3>4, <4>1, NextBlock
    <3>6. c3.current \notin Blocks => Refused \in Range(c.arr)
      BY <1>2, <3>5
    <3>7. ~(c.idx + n <= BlockSize) /\ c.idx + n # BlockSize
      BY <1>1, <2>1, <2>7
    <3>8. WithinBlock(c, n, bytes, s)
      BY <2>1, <3>7 DEF WithinBlock
    <3>9. c3.block_idx <= L
      BY <1>1, <1>2, <2>1, <2>7, <3>5
    <3>10. CASE c3.current \notin Blocks
      <4>1. s = [fcb |-> c3, data |-> disk3, ok |-> FALSE]
        BY <1>3, <2>7, <3>10
      <4>2. Room(c3.block_idx, c3.idx, L)
        BY <1>1, <3>5, <3>9 DEF Room
      <4>3. StoresBytes(c, n, s)
        BY <1>1, <3>2, <3>5, <3>6, <3>10, <4>1, <4>2 DEF StoresBytes, L
      <4>4. QED BY <3>8, <4>3
    <3>11. CASE c3.current \in Blocks
      <4>1. s = [fcb |-> done, data |-> disk3, ok |-> TRUE]
        BY <1>3, <2>7, <3>11
      <4>2. c3.idx + part3 = part3 /\ part3 \in 0 .. BlockSize /\ part3 <= Chunk /\ part3 < BlockSize
        BY <1>1, <1>4, <3>5
      <4>3. done = [c3 EXCEPT !.idx = part3, !.size = z]
        BY <3>5, <4>2
      <4> HIDE DEF done, z
      <4>4. /\ done \in Fcb /\ done.idx = part3 /\ done.size = z
            /\ done.file = c3.file /\ done.arr = c3.arr
            /\ done.block_idx = c3.block_idx /\ done.current = c3.current
        BY ONLY <1>11, <3>5, <4>2, <4>3 DEF Fcb
      <4>5. Room(done.block_idx, done.idx, L)
        BY <1>1, <3>5, <3>9, <4>2, <4>4 DEF Room
      <4>6. StoresBytes(c, n, s)
        BY <3>2, <3>5, <4>1, <4>2, <4>4, <4>5 DEF StoresBytes, z, L
      <4>7. QED BY <3>8, <4>6
    <3>12. QED BY <3>10, <3>11
  <2>8. part3 = 0 \/ part3 > 0
    BY <1>4
  <2>9. QED BY <2>5, <2>6, <2>7, <2>8
\* An earlier call has filled it: the bytes are lost.
<1>15. CASE c.idx = BlockSize
  <2>1. /\ part1 = 0 /\ ~(part1 > 0) /\ part3 = n /\ part3 > 0 /\ c.idx > 0 /\ c.block_idx < L
        /\ c.idx >= BlockSize /\ ~(c.idx + n <= BlockSize) /\ ~(c.idx + n < BlockSize)
        /\ ~(c.idx < BlockSize) /\ c.idx + n # BlockSize
    BY <1>1, <1>2, <1>4, <1>5, <1>15
  <2>2. ~full /\ disk1 = data /\ c1 = c
    BY <1>10, <2>1 DEF disk1, c1
  <2>3. c2 = c
    BY <2>2
  <2> HIDE DEF c2
  <2>4. fill3 \in [1 .. BlockSize -> Cell]
    <3>1. SubSeq(bytes, part1 + 1, n) \in Seq(Cell)
      BY <1>1, <1>4
    <3>2. c.idx \in Nat
      BY <1>1
    <3>3. QED BY <1>2, <2>3, <3>1, <3>2, FillType
  <2> HIDE DEF fill3
  <2>5. /\ disk3 \in [Blocks -> [1 .. BlockSize -> Cell]]
        /\ \A b \in Blocks \ Range(c.arr) : disk3[b] = data[b]
    BY <2>2, <2>3, <2>4, WrittenTo
  <2>6. /\ e \in Fcb /\ e.file = c.file /\ e.size = c.size /\ e.arr = c.arr
        /\ e.block_idx = c.block_idx /\ e.idx = BlockSize
    BY <1>15, <2>3, <2>4, Refilled
  <2>7. c3 = next_block(e, disk3)
    BY <2>1
  <2> HIDE DEF e, c3, disk3
  <2>8. /\ c3 \in Fcb /\ c3.file = c.file /\ c3.size = c.size /\ c3.arr = c.arr
        /\ c3.block_idx = c.block_idx + 1 /\ c3.current # 0 /\ c3.current \in Range(c.arr)
        /\ c3.current \in Blocks => c3.idx = 0
        /\ c3.current \notin Blocks => c3.idx = BlockSize
    <3>1. e.block_idx < Len(e.arr) /\ e.block_idx <= Len(e.arr)
      BY <1>1, <1>2, <2>1, <2>6 DEF L
    <3>2. QED BY <2>5, <2>6, <2>7, <3>1, NextBlock
  <2>9. WithinBlock(c, n, bytes, s)
    BY <2>1 DEF WithinBlock
  <2>10. c3.block_idx <= L
    BY <1>1, <1>2, <2>1, <2>8
  <2>11. CASE c3.current \notin Blocks
    <3>1. s = [fcb |-> c3, data |-> disk3, ok |-> FALSE]
      BY <1>3, <2>1, <2>2, <2>11
    <3>2. Room(c3.block_idx, c3.idx, L)
      BY <1>1, <2>8, <2>10, <2>11 DEF Room
    <3>3. StoresBytes(c, n, s)
      BY <2>1, <2>5, <2>8, <2>11, <3>1, <3>2 DEF StoresBytes, L
    <3>4. QED BY <2>9, <3>3
  <2>12. CASE c3.current \in Blocks
    <3>1. s = [fcb |-> done, data |-> disk3, ok |-> TRUE]
      BY <1>3, <2>2, <2>12
    <3>2. c3.idx + part3 = n /\ n \in 0 .. BlockSize
      BY <1>1, <2>1, <2>8, <2>12
    <3>3. done = [c3 EXCEPT !.idx = n, !.size = z]
      BY <2>8, <3>2
    <3> HIDE DEF done, z
    <3>4. /\ done \in Fcb /\ done.idx = n /\ done.size = z
          /\ done.file = c3.file /\ done.arr = c3.arr
          /\ done.block_idx = c3.block_idx /\ done.current = c3.current
      BY ONLY <1>11, <2>8, <3>2, <3>3 DEF Fcb
    <3>5. Room(done.block_idx, done.idx, L)
      BY <1>1, <2>8, <2>10, <3>4 DEF Room
    <3>6. StoresBytes(c, n, s)
      BY <2>1, <2>5, <2>8, <3>1, <3>4, <3>5 DEF StoresBytes, z, L
    <3>7. QED BY <2>9, <3>6
  <2>13. QED BY <2>11, <2>12
<1>16. QED BY <1>12, <1>13, <1>14, <1>15


\* The size b_write leaves is backed, by one failure more when n is -1.
LEMMA Counting ==
  ASSUME NEW s \in Nat, s < SizeLimit, NEW L \in Nat, NEW M \in Nat, M <= MaxExtents,
         NEW n \in -1 .. Chunk, M = IF n > 0 THEN L + 1 ELSE L,
         NEW k \in 0 .. Chunk - 1, Backed(s, L, k), NEW z, z = (s + n) % SizeLimit
  PROVE  /\ z \in Nat /\ Backed(z, M, k + 1)
         /\ n # -1 => Backed(z, M, k)
         /\ n = Chunk => z # 0
<1>1. /\ BlockSize \in Nat /\ Chunk \in Nat /\ 2 * Chunk < BlockSize /\ Chunk >= 3
      /\ SizeLimit \in Nat /\ MaxExtents \in Nat /\ MaxExtents * BlockSize < SizeLimit
      /\ MaxExtents >= 1
  BY FileIOAssumption
<1>2. Chunk * MaxExtents < SizeLimit
  <2>1. Chunk * MaxExtents <= MaxExtents * BlockSize
    BY <1>1
  <2>2. QED BY <1>1, <2>1
<1>3. Chunk * M <= Chunk * MaxExtents /\ Chunk * M \in Nat /\ Chunk * L \in Nat
  BY <1>1
<1>4. n > 0 => Chunk * M = Chunk * L + Chunk /\ Chunk * M >= Chunk
  BY <1>1
<1>5. n <= 0 => Chunk * M = Chunk * L
  BY <1>1
<1>6. SizeLimit > Chunk
  <2>1. Chunk * MaxExtents >= Chunk
    BY <1>1
  <2>2. QED BY <1>1, <1>2, <2>1
<1> DEFINE cL == Chunk * L
           cM == Chunk * M
<1> SUFFICES /\ z \in Nat
             /\ z <= cM \/ z >= SizeLimit - (k + 1)
             /\ n # -1 => z <= cM \/ z >= SizeLimit - k
             /\ n = Chunk => z # 0
  BY DEF Backed
<1>7. s <= cL \/ s >= SizeLimit - k
  BY DEF Backed
<1>8. /\ cM \in Nat /\ cL \in Nat /\ cM < SizeLimit
      /\ n > 0 => cM = cL + Chunk
      /\ n <= 0 => cM = cL
  BY <1>1, <1>2, <1>3, <1>4, <1>5
<1>9. n \in Int /\ k \in Nat /\ k < Chunk /\ n <= Chunk /\ n >= -1
  BY <1>1
<1> HIDE DEF cL, cM
<1>10. CASE s + n < 0
  <2>1. s = 0 /\ n = -1 /\ s + n = -1
    BY ONLY <1>9, <1>10, s \in Nat
  <2>2. z = SizeLimit - 1
    BY <2>1, Modulo
  <2>3. QED BY ONLY <1>1, <1>6, <1>9, <2>1, <2>2
<1>11. CASE s + n \in 0 .. SizeLimit - 1
  <2>1. z = s + n
    BY <1>11, <1>9, Modulo
  <2>2. QED BY ONLY <1>1, <1>6, <1>7, <1>8, <1>9, <1>11, <2>1, s \in Nat
<1>12. CASE s + n >= SizeLimit
  <2>1. s + n \in SizeLimit .. 2 * SizeLimit - 1 /\ s + n \in Int
    <3>1. s + n \in Int /\ s + n <= 2 * SizeLimit - 1
      BY ONLY <1>1, <1>6, <1>9, s \in Nat, s < SizeLimit
    <3>2. QED BY ONLY <1>1, <1>12, <3>1
  <2>2. z = s + n - SizeLimit
    <3> DEFINE a == s + n
    <3>1. a \in Int /\ a \in SizeLimit .. 2 * SizeLimit - 1 /\ z = a % SizeLimit
      BY <2>1
    <3> HIDE DEF a
    <3>2. z = a - SizeLimit
      BY <3>1, Modulo
    <3>3. QED BY ONLY <1>1, <1>9, <3>2, s \in Nat DEF a
  <2>3. n > 0 /\ s > cL
    BY ONLY <1>1, <1>8, <1>9, <1>12, s \in Nat, s < SizeLimit
  <2>4. QED BY ONLY <1>1, <1>6, <1>7, <1>8, <1>9, <1>12, <2>2, <2>3, s \in Nat, s < SizeLimit
<1>13. QED BY ONLY <1>1, <1>9, <1>10, <1>11, <1>12, s \in Nat

\* The values that stand for nothing open and nothing read.
LEMMA Blank ==
  /\ NoFcb \notin Fcb /\ Stray \notin Fcb /\ Stray # NoFcb
  /\ NoBytes \in [count : -1 .. Chunk, bytes : Seq(Cell)]
  /\ NoJob \in [src : Files \cup {Linux}, dst : Files \cup {Linux},
               chunk : {Chunk - 1, Chunk}, total : {-1} \cup Nat, pos : Nat]
<1>1. NoFcb \notin Fcb
  BY DEF NoFcb, Fcb
<1>5. Stray \notin Fcb
  BY DEF Stray, Fcb
<1>2. NoBytes \in [count : -1 .. Chunk, bytes : Seq(Cell)]
  BY Constants DEF NoBytes
<1>3. Stray # NoFcb
  BY DEF NoFcb, Stray
<1>4. QED BY <1>1, <1>2, <1>3, <1>5 DEF NoJob

\* A descriptor that is open is one.
LEMMA Openness ==
  ASSUME TypeOK, NEW fd \in {"src", "dst"}
  PROVE  /\ IsOpen(fd) <=> fcb[fd] \in Fcb
         /\ fcb[fd] \in Fcb \cup {NoFcb, Stray}
<1>1. fcb[fd] \in Fcb \cup {NoFcb, Stray}
  BY DEF TypeOK
<1>2. QED BY <1>1, Blank DEF IsOpen

\* Sizes wrap at a positive number.
LEMMA SizeLimitIs == SizeLimit \in Nat /\ SizeLimit > 0
<1>1. MaxExtents * BlockSize >= 0
  BY FileIOAssumption
<1>2. QED BY <1>1, FileIOAssumption

\* The invariant holds of the volume a session starts with.
LEMMA Initially ==
  Init => IInv
<1> SUFFICES ASSUME Init PROVE IInv
  OBVIOUS
<1>1. \A f \in Files : /\ blocks[f] \in Seq({Refused} \cup 1 .. next - 1)
                       /\ Len(blocks[f]) <= MaxExtents /\ Len(blocks[f]) \in Nat
                       /\ Range(blocks[f]) \subseteq {Refused}
                       /\ size[f] = 0
  <2>1. ASSUME NEW f \in Files
        PROVE  blocks[f] \in Seq({Refused}) /\ Len(blocks[f]) \in {0, 1} /\ size[f] = 0
    <3>1. blocks[f] = (IF f \in exists THEN <<Refused>> ELSE <<>>) /\ size[f] = 0
      BY DEF Init
    <3>2. CASE f \in exists
      BY <3>1, <3>2
    <3>3. CASE f \notin exists
      BY <3>1, <3>3
    <3>4. QED BY <3>2, <3>3
  <2>2. ASSUME NEW f \in Files PROVE Range(blocks[f]) \subseteq {Refused}
    BY <2>1, RangeOf
  <2>3. MaxExtents \in Nat /\ MaxExtents >= 1
    BY FileIOAssumption
  <2>4. ASSUME NEW f \in Files
        PROVE  blocks[f] \in Seq({Refused} \cup 1 .. next - 1)
    BY <2>1
  <2>5. ASSUME NEW f \in Files PROVE Len(blocks[f]) <= MaxExtents /\ Len(blocks[f]) \in Nat
    <3> DEFINE n == Len(blocks[f])
    <3>1. n \in {0, 1}
      BY <2>1
    <3> HIDE DEF n
    <3>2. n <= MaxExtents /\ n \in Nat
      BY <2>3, <3>1
    <3>3. QED BY <3>2 DEF n
  <2>6. QED BY <2>1, <2>2, <2>4, <2>5
<1>2. TypeOK
  <2>1. buf \in [count : -1 .. Chunk, bytes : Seq(Cell)]
    BY Blank DEF Init
  <2>2. job \in [src : Files \cup {Linux}, dst : Files \cup {Linux},
                 chunk : {Chunk - 1, Chunk}, total : {-1} \cup Nat, pos : Nat]
    BY Blank DEF Init
  <2>3. blocks \in [Files -> Seq({Refused} \cup 1 .. next - 1)]
        /\ \A f \in Files : Len(blocks[f]) <= MaxExtents
    <3>1. blocks = [f \in Files |-> blocks[f]]
      BY DEF Init
    <3> DEFINE S == Seq({Refused} \cup 1 .. next - 1)
    <3>2. \A f \in Files : blocks[f] \in S /\ Len(blocks[f]) <= MaxExtents
      BY <1>1
    <3> HIDE DEF S
    <3>3. blocks \in [Files -> S]
      BY <3>1, <3>2
    <3>4. QED BY <3>2, <3>3 DEF S
  <2>4. data \in [Blocks -> [1 .. BlockSize -> Cell]]
    BY DEF Init, Cell
  <2>5. /\ exists \subseteq Files /\ size \in [Files -> 0 .. SizeLimit - 1]
        /\ fcb \in [{"src", "dst"} -> Fcb \cup {NoFcb, Stray}]
    BY SizeLimitIs DEF Init
  <2>6. next \in 1 .. MaxBlocks + 1 /\ calls \in 0 .. MaxCalls
    BY Constants DEF Init
  <2>7. pc \in {"prompt", "read", "write", "store", "record", "close", "close dst"}
    BY DEF Init
  <2>8. QED BY <2>1, <2>2, <2>3, <2>4, <2>5, <2>6, <2>7 DEF TypeOK
<1>3. fcb["src"] = NoFcb /\ fcb["dst"] = NoFcb /\ ~IsOpen("src") /\ ~IsOpen("dst")
  BY DEF Init, IsOpen
<1>4. Phases
  BY <1>3, Constants DEF Init, Phases, NoJob
<1>5. Transfer
  BY DEF Init, Transfer, NoBytes, NoJob
<1>6. Disjoint
  BY <1>1 DEF Disjoint
<1>7. AllBacked
  <2>1. \A f \in Files : 0 <= Chunk * Len(blocks[f])
    BY <1>1, Constants
  <2>2. QED BY <1>1, <2>1 DEF AllBacked, Backed
<1>8. Idle
  BY <1>3 DEF Idle, HalfOpen
<1>9. QED BY <1>2, <1>3, <1>4, <1>5, <1>6, <1>7, <1>8 DEF IInv

\* What the type invariant says, for use.
LEMMA Typed ==
  ASSUME TypeOK
  PROVE  /\ exists \subseteq Files /\ next \in Nat /\ next >= 1 /\ next <= MaxBlocks + 1
         /\ calls \in Nat /\ calls <= MaxCalls
         /\ buf.count \in -1 .. Chunk /\ buf.bytes \in Seq(Cell)
         /\ \A f \in Files : /\ size[f] \in Nat /\ size[f] < SizeLimit
                            /\ blocks[f] \in Seq({Refused} \cup 1 .. next - 1)
                            /\ blocks[f] \in Seq({Refused} \cup Blocks)
                            /\ Len(blocks[f]) \in Nat /\ Len(blocks[f]) <= MaxExtents
<1>1. /\ exists \subseteq Files /\ next \in 1 .. MaxBlocks + 1 /\ calls \in 0 .. MaxCalls
      /\ buf \in [count : -1 .. Chunk, bytes : Seq(Cell)]
  BY DEF TypeOK
<1>2. /\ size \in [Files -> 0 .. SizeLimit - 1]
      /\ blocks \in [Files -> Seq({Refused} \cup 1 .. next - 1)]
      /\ \A f \in Files : Len(blocks[f]) <= MaxExtents
  BY DEF TypeOK
<1>3. {Refused} \cup 1 .. next - 1 \subseteq {Refused} \cup Blocks
  BY <1>1, Constants DEF Blocks
<1>4. ASSUME NEW f \in Files
      PROVE  /\ size[f] \in Nat /\ size[f] < SizeLimit
             /\ blocks[f] \in Seq({Refused} \cup 1 .. next - 1)
             /\ blocks[f] \in Seq({Refused} \cup Blocks)
             /\ Len(blocks[f]) \in Nat /\ Len(blocks[f]) <= MaxExtents
  <2>1. blocks[f] \in Seq({Refused} \cup 1 .. next - 1)
    BY <1>2
  <2>2. blocks[f] \in Seq({Refused} \cup Blocks)
    BY <1>3, <2>1
  <2>3. QED BY <1>2, <2>1, <2>2, SizeLimitIs
<1>5. QED BY <1>1, <1>4, Constants

\* b_open of a file.
Opens(f, c) ==
  \/ c = Stray
  \/ /\ c \in Fcb
     /\ c.file = f /\ c.size = size[f] /\ c.arr = blocks[f]
     /\ c.block_idx = 0 /\ c.idx = 0
     /\ c.current \in {0} \cup Range(blocks[f])
     /\ c.current = 0 => blocks[f] = <<>>
     /\ c.current # Refused
     /\ c.current \in Blocks => c.buf = data[c.current]

\* The descriptor b_open returns is at the file's first block, or there is none.
LEMMA Opening ==
  ASSUME TypeOK, NEW f \in Files
  PROVE  /\ Opens(f, b_open(f))
         /\ b_open(f) \in Fcb \cup {Stray} /\ b_open(f) # NoFcb
<1> DEFINE first == IF blocks[f] = <<>> THEN 0 ELSE blocks[f][1]
           cells == IF first = 0 THEN [k \in 1 .. BlockSize |-> Junk] ELSE data[first]
           c     == [file |-> f, size |-> size[f], arr |-> blocks[f],
                     block_idx |-> 0, current |-> first, idx |-> 0, buf |-> cells]
<1>1. blocks[f] \in Seq({Refused} \cup Blocks) /\ size[f] \in 0 .. SizeLimit - 1
  <2>1. size[f] \in 0 .. SizeLimit - 1
    BY DEF TypeOK
  <2>2. QED BY <2>1, Typed
<1>2. b_open(f) = IF first = Refused THEN Stray ELSE c
  BY DEF b_open
<1>3. /\ first \in {0} \cup Range(blocks[f]) /\ first \in {0, Refused} \cup Blocks
      /\ first = 0 <=> blocks[f] = <<>>
  <2>1. CASE blocks[f] = <<>>
    BY <2>1
  <2>2. CASE blocks[f] # <<>>
    <3>1. Len(blocks[f]) >= 1 /\ blocks[f][1] \in {Refused} \cup Blocks
      BY <1>1, <2>2
    <3>2. QED BY <1>1, <2>2, <3>1, NoBlock DEF Range
  <2>3. QED BY <2>1, <2>2
<1> HIDE DEF first
<1>4. CASE first = Refused
  BY <1>2, <1>4, Blank DEF Opens
<1>5. CASE first # Refused
  <2>1. cells \in [1 .. BlockSize -> Cell] /\ (first \in Blocks => cells = data[first])
    BY <1>3, <1>5, NoBlock DEF TypeOK, Cell
  <2> HIDE DEF cells
  <2>2. c \in Fcb
    BY <1>1, <1>3, <2>1, Constants DEF Fcb
  <2>3. Opens(f, c)
    BY <1>3, <1>5, <2>1, <2>2 DEF Opens
  <2> HIDE DEF c
  <2>4. QED BY <1>2, <1>5, <2>2, <2>3, Blank
<1>6. QED BY <1>4, <1>5

\* A command that opens its files keeps the invariant.
LEMMA Starting ==
  ASSUME IInv, NEW src \in Files \cup {Linux}, NEW dst \in Files \cup {Linux},
         NEW chunk \in {Chunk - 1, Chunk}, NEW total \in {-1} \cup Nat,
         dst \in Files => chunk = Chunk, Start(src, dst, chunk, total)
  PROVE  IInv'
<1>1. TypeOK /\ Transfer /\ Disjoint /\ AllBacked
  BY DEF IInv
<1>2. /\ next \in Nat /\ calls \in Nat
      /\ \A f \in Files : Len(blocks[f]) \in Nat /\ size[f] \in Nat
  BY <1>1, Typed
<1>3. PICK created \in SUBSET ({dst} \ (exists \cup {Linux})) :
        /\ exists' = exists \cup created
        /\ fcb' = [src |-> IF src \in exists THEN b_open(src) ELSE NoFcb,
                   dst |-> IF dst \in exists' THEN b_open(dst) ELSE NoFcb]
  BY DEF Start
<1>4. /\ pc' = "read" /\ calls' = IF dst \in Files THEN calls + 1 ELSE calls
      /\ job' = [src |-> src, dst |-> dst, chunk |-> chunk, total |-> total, pos |-> 0]
      /\ dst \in Files => calls < MaxCalls
      /\ UNCHANGED <<size, blocks, data, next, buf>>
  BY DEF Start
<1>5. exists \subseteq Files /\ exists' \subseteq Files /\ calls \in 0 .. MaxCalls /\ Linux \notin Files
  <2>1. exists \subseteq Files /\ calls \in 0 .. MaxCalls
    BY <1>1 DEF TypeOK
  <2>2. QED BY <1>3, <2>1, Constants
<1>6. /\ src \in exists => fcb'["src"] = b_open(src) /\ src \in Files
      /\ src \notin exists => fcb'["src"] = NoFcb
      /\ dst \in exists' => fcb'["dst"] = b_open(dst) /\ dst \in Files
      /\ dst \notin exists' => fcb'["dst"] = NoFcb
  BY <1>3, <1>5
<1>7. job'.src = src /\ job'.dst = dst /\ job'.chunk = chunk /\ job'.total = total /\ job'.pos = 0
  BY <1>4
<1>8. TypeOK'
  <2>1. fcb' \in [{"src", "dst"} -> Fcb \cup {NoFcb, Stray}]
    <3>1. /\ fcb'["src"] \in Fcb \cup {NoFcb, Stray}
          /\ fcb'["dst"] \in Fcb \cup {NoFcb, Stray}
      BY <1>1, <1>6, Opening
    <3>2. fcb' = [src |-> fcb'["src"], dst |-> fcb'["dst"]]
      BY <1>3
    <3> DEFINE x == fcb'["src"]
               y == fcb'["dst"]
               S == Fcb \cup {NoFcb, Stray}
    <3>3. x \in S /\ y \in S /\ fcb' = [src |-> x, dst |-> y]
      BY <3>1, <3>2
    <3> HIDE DEF x, y, S
    <3>4. fcb' \in [{"src", "dst"} -> S]
      BY <3>3
    <3>5. QED BY <3>4 DEF S
  <2>2. job' \in [src : Files \cup {Linux}, dst : Files \cup {Linux},
                  chunk : {Chunk - 1, Chunk}, total : {-1} \cup Nat, pos : Nat]
    BY <1>4
  <2>3. calls' \in 0 .. MaxCalls
    BY <1>4, <1>5, Constants
  <2>4. QED BY <1>1, <1>4, <1>5, <2>1, <2>2, <2>3 DEF TypeOK
<1>9. /\ IsOpen("src")' => src \in exists /\ Opens(src, fcb'["src"]) /\ fcb'["src"] \in Fcb
      /\ IsOpen("dst")' => dst \in Files /\ Opens(dst, fcb'["dst"]) /\ fcb'["dst"] \in Fcb
  BY <1>1, <1>6, Opening, Blank DEF IsOpen
<1>10. /\ IsOpen("src")' => fcb'["src"].file = src
       /\ IsOpen("dst")' => fcb'["dst"].file = dst
  BY <1>9, Blank DEF Opens
<1>11. Phases'
  BY <1>4, <1>5, <1>6, <1>7, <1>10 DEF Phases
<1>12. Transfer'
  BY <1>1, <1>4, <1>7 DEF Transfer
<1>13. IsOpen("src")' => Source(fcb["src"])'
  <2>1. SUFFICES ASSUME IsOpen("src")' PROVE Source(fcb["src"])'
    OBVIOUS
  <2> DEFINE s == fcb["src"]
  <2>2. Opens(src, s') /\ s' # Stray /\ src \in Files
    BY <1>5, <1>9, <2>1, Blank
  <2>3. blocks[src] \in Seq({Refused} \cup Blocks) /\ Len(blocks[src]) >= 0
    BY <1>1, <2>2, Typed
  <2> HIDE DEF s
  <2>4. Source(s)'
    BY <1>4, <2>2, <2>3, Constants DEF Opens, Source
  <2>5. QED BY <2>4 DEF s
<1>14. dst \in Files => Backed(size[dst], Len(blocks[dst]), calls) /\ calls' = calls + 1
  BY <1>1, <1>4 DEF AllBacked
<1>15. IsOpen("dst")' => Destination(fcb["dst"])'
  <2>1. SUFFICES ASSUME IsOpen("dst")' PROVE Destination(fcb["dst"])'
    OBVIOUS
  <2> DEFINE d == fcb["dst"]
  <2>2. /\ d'.file = dst /\ d'.size = size[dst] /\ d'.arr = blocks[dst]
        /\ d'.block_idx = 0 /\ d'.idx = 0 /\ dst \in Files
        /\ d'.current \in {0} \cup Range(blocks[dst])
        /\ d'.current = 0 => blocks[dst] = <<>>
    BY <1>9, <2>1, Blank DEF Opens
  <2> HIDE DEF d
  <2>3. Written(d)' = Len(blocks[dst]) /\ Len(blocks[dst]) \in Nat /\ ~Adding'
    BY <1>2, <1>4, <2>2 DEF Written, Adding
  <2>4. Position(d)'
    BY <2>2, <2>3, Constants DEF Position, Room
  <2>5. calls' - 1 = calls /\ calls' >= 1 /\ Backed(d'.size, Written(d)', calls' - 1)
    BY <1>2, <1>14, <2>2, <2>3
  <2>6. pc' = "read" /\ ~(d'.idx > 0) /\ d'.idx < BlockSize
    BY <1>4, <2>2, Constants
  <2>7. d'.arr = blocks'[d'.file] /\ d'.current \in {0} \cup Range(d'.arr)
        /\ (d'.current = 0 => d'.arr = <<>>)
    BY <1>4, <2>2
  <2>8. Destination(d)'
    BY ONLY <2>2, <2>3, <2>4, <2>5, <2>6, <2>7 DEF Destination
  <2>9. QED BY <2>8 DEF d
<1>16. Idle'
  <2>1. SUFFICES ASSUME HalfOpen' PROVE calls' >= 1 /\ Backed(size'[dst], Len(blocks'[dst]), calls' - 1)
    BY <1>7 DEF Idle
  <2>2. dst \in Files
    BY <1>6, <2>1, Blank DEF HalfOpen
  <2>3. calls' >= 1 /\ calls' - 1 = calls
    BY <1>2, <1>14, <2>2
  <2>4. QED BY <1>4, <1>14, <2>2, <2>3
<1>17. Disjoint'
  BY <1>1, <1>4 DEF Disjoint
<1>18. AllBacked'
  <2>1. \A f \in Files : Backed(size[f], Len(blocks[f]), calls)
    BY <1>1 DEF AllBacked
  <2>2. calls' \in {calls, calls + 1} /\ size' = size /\ blocks' = blocks
    BY <1>4
  <2>3. QED BY <1>2, <2>1, <2>2, SizeLimitIs DEF Backed, AllBacked
<1>19. QED BY <1>8, <1>11, <1>12, <1>13, <1>15, <1>16, <1>17, <1>18 DEF IInv

-----------------------------------------------------------------------------
(* The steps of a command *)

\* The source is kept by a step that leaves its descriptor, takes no block from
\* a file and writes to the destination's blocks alone.
LEMMA SourceKept ==
  ASSUME IInv, fcb'["src"] = fcb["src"], job'.dst = job.dst, Resumes' => Resumes,
         \A f \in Files : Range(blocks[f]) \subseteq Range(blocks'[f]),
         \A f \in Files \ {job.dst} : \A b \in Blocks \cap Range(blocks[f]) : data'[b] = data[b]
  PROVE  (IsOpen("src") => Source(fcb["src"]))'
<1> DEFINE s == fcb["src"]
<1> SUFFICES ASSUME IsOpen("src")' PROVE Source(s)'
  OBVIOUS
<1>1. IsOpen("src") /\ s' = s
  BY DEF IsOpen
<1>2. Source(s)
  BY <1>1 DEF IInv
<1>3. s \in Fcb /\ s.file \in Files
  BY <1>1, Openness, Fields DEF IInv
<1> HIDE DEF s
<1>4. s.file # job.dst /\ s.current \in Blocks => data'[s.current] = data[s.current]
  <2>1. s.current \in {0} \cup Range(blocks[s.file])
    BY <1>2 DEF Source
  <2>2. QED BY <1>3, <2>1, NoBlock
<1>5. Range(s.arr) \subseteq Range(blocks'[s.file])
  BY <1>2, <1>3 DEF Source
<1>6. QED BY <1>1, <1>2, <1>4, <1>5 DEF Source

\* The destination is kept by a read, a write of nothing and closing the source.
LEMMA DestinationKept ==
  ASSUME IInv, fcb'["dst"] = fcb["dst"], UNCHANGED <<blocks, calls>>,
         \/ pc = "read" /\ pc' = "write"
         \/ pc = "write" /\ pc' \in {"read", "close"}
         \/ pc = "close" /\ pc' = "close dst"
  PROVE  (IsOpen("dst") => Destination(fcb["dst"]))'
<1> DEFINE d == fcb["dst"]
<1> SUFFICES ASSUME IsOpen("dst")' PROVE Destination(d)'
  OBVIOUS
<1>1. IsOpen("dst") /\ d' = d
  BY DEF IsOpen
<1>2. Destination(d)
  BY <1>1 DEF IInv
<1>3. ~Adding /\ ~Adding'
  BY DEF Adding
<1>4. Written(d)' = Written(d) /\ (Position(d)' <=> Position(d))
  BY <1>1, <1>3 DEF Written, Position
<1>5. Granted(d.file)' <=> Granted(d.file)
  BY <1>1 DEF Granted
<1> HIDE DEF d
<1>6. (InLoop' => InLoop) /\ pc' # "store" /\ pc' # "record"
  BY DEF InLoop
<1>7. pc' \in {"read", "write", "store"} => pc \in {"read", "write", "store"}
  OBVIOUS
<1>8. QED BY <1>1, <1>2, <1>3, <1>4, <1>5, <1>6, <1>7 DEF Destination

\* What is left half open is kept by a step that leaves the files.
LEMMA IdleKept ==
  ASSUME IInv, fcb'["dst"] = fcb["dst"], IsOpen("src")' => IsOpen("src"),
         UNCHANGED <<size, blocks, calls>>, job'.dst = job.dst,
         pc' \in {"read", "write", "store"} => pc \in {"read", "write", "store"}
  PROVE  Idle'
BY DEF IInv, Idle, HalfOpen

\* What relates the files is kept by a step that leaves sizes and blocks alone.
LEMMA SizesKept ==
  ASSUME IInv, UNCHANGED <<size, blocks, calls>>
  PROVE  Disjoint' /\ AllBacked'
BY DEF IInv, Disjoint, AllBacked

\* Each step keeps the invariant: a read of the Linux file,
LEMMA ReadingLinux ==
  ASSUME IInv, ReadLinux
  PROVE  IInv'
<1> DEFINE count == Smaller(Chunk, job.total - job.pos)
<1>1. TypeOK /\ Phases /\ Transfer
  BY DEF IInv
<1>2. /\ pc = "read" /\ job.src = Linux /\ pc' = "write"
      /\ buf' = [count |-> count, bytes |-> [k \in 1 .. count |-> job.pos + k]]
      /\ job' = [job EXCEPT !.pos = IF count > 0 THEN @ + count ELSE @]
      /\ UNCHANGED <<exists, size, blocks, data, next, fcb, calls>>
  BY DEF ReadLinux, disk, hist
<1>3. job \in [src : Files \cup {Linux}, dst : Files \cup {Linux},
               chunk : {Chunk - 1, Chunk}, total : {-1} \cup Nat, pos : Nat]
  BY <1>1 DEF TypeOK
<1>4. count \in -1 .. Chunk /\ (count > 0 => job.pos + count <= job.total)
  <2>1. job.total - job.pos \in Int /\ job.total - job.pos >= -1
    BY <1>1, <1>3 DEF Transfer
  <2>2. /\ count \in Int /\ count <= Chunk /\ count <= job.total - job.pos
        /\ count = Chunk \/ count = job.total - job.pos
    BY <2>1, Constants, SmallerOf DEF Smaller
  <2>3. job.total \in Int /\ job.pos \in Nat
    BY <1>3
  <2> HIDE DEF count
  <2>4. count \in -1 .. Chunk
    BY ONLY <2>1, <2>2, Constants
  <2>5. QED BY ONLY <2>2, <2>3, <2>4
<1> HIDE DEF count
<1>5. buf'.count = count /\ buf'.bytes = [k \in 1 .. count |-> job.pos + k]
  BY <1>2
<1>6. buf'.bytes \in Seq(Cell) /\ (count >= 0 => Len(buf'.bytes) = count)
  <2>1. \A k \in 1 .. count : job.pos + k \in Cell
    BY <1>3 DEF Cell
  <2>2. CASE count >= 0
    BY <1>4, <1>5, <2>1, <2>2
  <2>3. CASE count < 0
    <3>1. 1 .. count = 1 .. 0
      BY <1>4, <2>3
    <3>2. buf'.bytes = [k \in 1 .. 0 |-> job.pos + k]
      BY <1>5, <3>1
    <3>3. QED BY <1>4, <2>3, <3>2
  <2>4. QED BY <1>4, <2>2, <2>3
<1>7. /\ job' \in [src : Files \cup {Linux}, dst : Files \cup {Linux},
                   chunk : {Chunk - 1, Chunk}, total : {-1} \cup Nat, pos : Nat]
      /\ job'.src = job.src /\ job'.dst = job.dst /\ job'.chunk = job.chunk
      /\ job'.total = job.total
      /\ job'.pos = IF count > 0 THEN job.pos + count ELSE job.pos
  <2> DEFINE p == IF count > 0 THEN job.pos + count ELSE job.pos
  <2>1. p \in Nat
    BY <1>3, <1>4, Constants
  <2>2. job' = [job EXCEPT !.pos = p]
    BY <1>2
  <2> HIDE DEF p
  <2>3. /\ job' \in [src : Files \cup {Linux}, dst : Files \cup {Linux},
                     chunk : {Chunk - 1, Chunk}, total : {-1} \cup Nat, pos : Nat]
        /\ job'.src = job.src /\ job'.dst = job.dst /\ job'.chunk = job.chunk
        /\ job'.total = job.total /\ job'.pos = p
    BY ONLY <1>3, <2>1, <2>2
  <2>4. QED BY <2>3 DEF p
<1>8. TypeOK'
  BY <1>1, <1>2, <1>4, <1>6, <1>7 DEF TypeOK
<1>9. Phases'
  BY <1>1, <1>2, <1>7 DEF Phases, IsOpen
<1>10. Transfer'
  BY <1>1, <1>4, <1>5, <1>6, <1>7 DEF Transfer
<1>11. ~IsOpen("src") /\ ~IsOpen("src")'
  <2>1. ~IsOpen("src")
    BY <1>1, <1>2 DEF Phases, IsOpen
  <2>2. QED BY <1>2, <2>1 DEF IsOpen
<1>12. Idle'
  BY <1>11 DEF Idle, HalfOpen
<1>13. QED BY <1>2, <1>8, <1>9, <1>10, <1>11, <1>12, DestinationKept, SizesKept DEF IInv

\* ... a read of a file,
LEMMA ReadingFile ==
  ASSUME IInv, ReadFile
  PROVE  IInv'
<1> DEFINE r == b_read(fcb["src"], job.chunk)
           bytes == IF r.count = -1 THEN buf.bytes ELSE r.bytes
<1>1. TypeOK /\ Phases /\ Transfer
  BY DEF IInv
<1>2. /\ pc = "read" /\ job.src \in Files /\ pc' = "write"
      /\ UNCHANGED <<exists, size, blocks, data, next, job, calls>>
  BY DEF ReadFile, disk, hist
<1>3. job.chunk \in 1 .. BlockSize - 1 /\ job.chunk \in Nat /\ job.chunk >= 2 /\ job.chunk <= Chunk
  <2>1. job.chunk \in {Chunk - 1, Chunk}
    BY <1>1 DEF TypeOK
  <2>2. QED BY <2>1, Constants
<1>4. CASE ~IsOpen("src")
  <2>1. buf' = [buf EXCEPT !.count = -1] /\ UNCHANGED fcb
    BY <1>4 DEF ReadFile
  <2>2. buf' \in [count : -1 .. Chunk, bytes : Seq(Cell)] /\ buf'.count = -1
    <3>1. -1 \in -1 .. Chunk
      BY Constants
    <3> DEFINE S == -1 .. Chunk
    <3>2. buf \in [count : S, bytes : Seq(Cell)] /\ -1 \in S
      BY <1>1, <3>1 DEF TypeOK
    <3> HIDE DEF S
    <3>3. buf' \in [count : S, bytes : Seq(Cell)] /\ buf'.count = -1
      BY <2>1, <3>2
    <3>4. QED BY <3>3 DEF S
  <2>3. TypeOK'
    BY <1>1, <1>2, <2>1, <2>2 DEF TypeOK
  <2>4. Phases' /\ Transfer' /\ ~IsOpen("src")'
    BY <1>1, <1>2, <1>4, <2>1, <2>2 DEF Phases, Transfer, IsOpen
  <2>5. Idle'
    BY <2>4 DEF Idle, HalfOpen
  <2>6. QED BY <1>2, <2>1, <2>3, <2>4, <2>5, DestinationKept, SizesKept DEF IInv
<1>5. CASE IsOpen("src")
  <2> DEFINE s == fcb["src"]
  <2>1. buf' = [count |-> r.count, bytes |-> bytes] /\ fcb' = [fcb EXCEPT !["src"] = r.fcb]
    BY <1>5 DEF ReadFile
  <2>2. s \in Fcb /\ Source(s) /\ data \in [Blocks -> [1 .. BlockSize -> Cell]]
    BY <1>1, <1>5, Openness DEF IInv, TypeOK
  <2>3. s.idx < BlockSize /\ s.block_idx <= Len(s.arr)
    BY <1>2, <2>2 DEF Source, Resumes
  <2> HIDE DEF r, s, bytes
  <2>4. /\ r.count \in -1 .. job.chunk /\ r.bytes \in Seq(Cell)
        /\ r.count >= 0 => Len(r.bytes) = r.count
        /\ r.fcb \in Fcb /\ r.fcb.file = s.file /\ r.fcb.arr = s.arr
        /\ r.fcb.current \in {0, s.current} \cup Range(s.arr)
        /\ \/ r.fcb.current \notin Blocks
           \/ r.fcb.buf = data[r.fcb.current]
           \/ r.fcb.current = s.current /\ r.fcb.buf = s.buf
        /\ r.count > 1 => r.fcb.idx < BlockSize /\ r.fcb.block_idx <= Len(s.arr)
    BY <1>3, <2>2, <2>3, Reading DEF r, s
  <2>5. /\ fcb' \in [{"src", "dst"} -> Fcb \cup {NoFcb, Stray}]
        /\ fcb'["src"] = r.fcb /\ fcb'["dst"] = fcb["dst"]
    BY <1>1, <2>1, <2>4 DEF TypeOK
  <2>6. /\ buf' \in [count : -1 .. Chunk, bytes : Seq(Cell)]
        /\ buf'.count = r.count /\ (r.count >= 0 => buf'.bytes = r.bytes)
    <3>1. r.count \in -1 .. Chunk
      BY <1>3, <2>4, Constants
    <3>2. bytes \in Seq(Cell) /\ (r.count >= 0 => bytes = r.bytes)
      BY <1>1, <2>4, Typed DEF bytes
    <3>3. QED BY <2>1, <2>4, <3>1, <3>2
  <2>7. TypeOK'
    BY <1>1, <1>2, <2>5, <2>6 DEF TypeOK
  <2>8. Transfer'
    BY <1>1, <1>2, <2>4, <2>6 DEF Transfer
  <2>9. s.file = job.src /\ IsOpen("src")' /\ fcb["src"] # NoFcb
    <3>1. s.file = job.src /\ fcb["src"] # NoFcb
      BY <1>1, <1>5 DEF Phases, s, IsOpen
    <3>2. QED BY <2>4, <2>5, <3>1, Blank DEF IsOpen
  <2>10. Phases'
    BY <1>1, <1>2, <2>4, <2>5, <2>9 DEF Phases, IsOpen
  <2>11. Source(fcb["src"])'
    <3>1. Resumes' => r.fcb.idx < BlockSize /\ r.fcb.block_idx <= Len(s.arr)
      <4>1. Resumes' => r.count = job.chunk
        BY <1>2, <2>6 DEF Resumes
      <4>2. QED BY <1>3, <2>4, <4>1
    <3>2. r.fcb.current \in {0} \cup Range(s.arr)
      BY <2>2, <2>4 DEF Source
    <3>3. s.file # job.dst /\ r.fcb.current \in Blocks => r.fcb.buf = data[r.fcb.current]
      BY <2>2, <2>4 DEF Source
    <3>4. QED BY <1>2, <2>2, <2>4, <2>5, <3>1, <3>2, <3>3 DEF Source
  <2>12. Idle'
    BY <1>2, <1>5, <2>5, IdleKept
  <2>13. QED BY <1>2, <2>5, <2>7, <2>8, <2>10, <2>11, <2>12, DestinationKept, SizesKept DEF IInv
<1>6. QED BY <1>4, <1>5

\* ... a write that goes to no file: to the Linux file or the screen, to a
\* descriptor that is not open, and one that finds the extent block full,
WritesNothing ==
  /\ pc = "write" /\ pc' \in {"read", "close"} /\ (pc' = "read" => buf.count = job.chunk)
  /\ UNCHANGED <<exists, size, blocks, data, next, fcb, job, buf, calls>>

\* ... keeps the invariant.
LEMMA WritingNothing ==
  ASSUME IInv, WritesNothing
  PROVE  IInv'
<1>1. TypeOK /\ Phases /\ Transfer
  BY DEF IInv
<1>2. TypeOK'
  BY <1>1 DEF TypeOK, WritesNothing
<1>3. Phases' /\ Transfer'
  BY <1>1 DEF Phases, Transfer, IsOpen, WritesNothing
<1>4. Resumes' => Resumes
  BY DEF Resumes, WritesNothing
<1>5. Idle'
  <2>1. IsOpen("src")' => IsOpen("src")
    BY DEF WritesNothing, IsOpen
  <2>2. QED BY <2>1, IdleKept DEF WritesNothing
<1>6. (IsOpen("src") => Source(fcb["src"]))'
  BY <1>4, SourceKept DEF WritesNothing
<1>7. (IsOpen("dst") => Destination(fcb["dst"]))'
  BY DestinationKept DEF WritesNothing
<1>8. Disjoint' /\ AllBacked'
  BY SizesKept DEF WritesNothing
<1>9. QED BY <1>2, <1>3, <1>5, <1>6, <1>7, <1>8 DEF IInv

\* ... the end of the session,
LEMMA Dying ==
  ASSUME IInv, Died
  PROVE  IInv'
<1>1. TypeOK
  BY DEF IInv
<1>2. /\ fcb' = [fd \in {"src", "dst"} |-> NoFcb] /\ job' = NoJob /\ buf' = NoBytes
      /\ pc' = "prompt" /\ UNCHANGED <<exists, size, blocks, data, next, calls>>
  BY DEF Died, disk
<1>3. /\ buf' \in [count : -1 .. Chunk, bytes : Seq(Cell)]
      /\ job' \in [src : Files \cup {Linux}, dst : Files \cup {Linux},
                   chunk : {Chunk - 1, Chunk}, total : {-1} \cup Nat, pos : Nat]
  BY <1>2, Blank
<1>4. TypeOK'
  BY <1>1, <1>2, <1>3 DEF TypeOK
<1>5. ~IsOpen("src")' /\ ~IsOpen("dst")'
  BY <1>2 DEF IsOpen
<1>6. Phases' /\ Transfer'
  BY <1>2, <1>5, Constants DEF Phases, Transfer, NoJob, NoBytes
<1>7. Idle'
  BY <1>5 DEF Idle, HalfOpen
<1>8. QED BY <1>2, <1>4, <1>5, <1>6, <1>7, SizesKept DEF IInv

\* What b_close writes: nothing when the buffer is the block.
LEMMA Closing ==
  ASSUME TypeOK, NEW c \in Fcb
  PROVE  /\ b_close(c) \in [Blocks -> [1 .. BlockSize -> Cell]]
         /\ \A b \in Blocks : b # c.current => b_close(c)[b] = data[b]
         /\ c.current \notin Blocks \/ c.buf = data[c.current] => b_close(c) = data
<1>1. data \in [Blocks -> [1 .. BlockSize -> Cell]]
  BY DEF TypeOK
<1>2. QED BY <1>1, Fields DEF b_close, LBAwrite

\* ... closing the source,
LEMMA ClosingSrc ==
  ASSUME IInv, CloseSrc
  PROVE  IInv'
<1>1. TypeOK /\ Phases /\ Transfer
  BY DEF IInv
<1>2. /\ pc = "close" /\ pc' = "close dst"
      /\ data' = IF IsOpen("src") THEN b_close(fcb["src"]) ELSE data
      /\ fcb' = [fcb EXCEPT !["src"] = NoFcb]
      /\ UNCHANGED <<exists, size, blocks, next, job, buf, calls>>
  BY DEF CloseSrc, hist
<1>3. data' \in [Blocks -> [1 .. BlockSize -> Cell]]
  BY <1>1, <1>2, Closing, Openness DEF TypeOK
<1>4. /\ fcb' \in [{"src", "dst"} -> Fcb \cup {NoFcb, Stray}]
      /\ fcb'["src"] = NoFcb /\ fcb'["dst"] = fcb["dst"]
  BY <1>1, <1>2 DEF TypeOK
<1>5. TypeOK'
  BY <1>1, <1>2, <1>3, <1>4 DEF TypeOK
<1>6. Phases' /\ Transfer' /\ ~IsOpen("src")'
  BY <1>1, <1>2, <1>4 DEF Phases, Transfer, IsOpen
<1>7. Idle'
  BY <1>6 DEF Idle, HalfOpen
<1>8. QED BY <1>2, <1>4, <1>5, <1>6, <1>7, DestinationKept, SizesKept DEF IInv

\* ... closing the destination,
LEMMA ClosingDst ==
  ASSUME IInv, CloseDst
  PROVE  IInv'
<1>1. TypeOK /\ Phases /\ Transfer
  BY DEF IInv
<1>2. /\ pc = "close dst" \/ (pc = "close" /\ job.src = Linux)
      /\ data' = IF IsOpen("dst") THEN b_close(fcb["dst"]) ELSE data
      /\ fcb' = [fcb EXCEPT !["dst"] = NoFcb]
      /\ job' = NoJob /\ buf' = NoBytes /\ pc' = "prompt"
      /\ UNCHANGED <<exists, size, blocks, next, calls>>
  BY DEF CloseDst, hist
<1>3. data' \in [Blocks -> [1 .. BlockSize -> Cell]]
  BY <1>1, <1>2, Closing, Openness DEF TypeOK
<1>4. fcb["src"] = NoFcb
  BY <1>1, <1>2 DEF Phases
<1>5. fcb' = [fd \in {"src", "dst"} |-> NoFcb]
  BY <1>1, <1>2, <1>4 DEF TypeOK
<1>6. /\ buf' \in [count : -1 .. Chunk, bytes : Seq(Cell)]
      /\ job' \in [src : Files \cup {Linux}, dst : Files \cup {Linux},
                   chunk : {Chunk - 1, Chunk}, total : {-1} \cup Nat, pos : Nat]
  BY <1>2, Blank
<1>7. TypeOK'
  BY <1>1, <1>2, <1>3, <1>5, <1>6 DEF TypeOK
<1>8. ~IsOpen("src")' /\ ~IsOpen("dst")'
  BY <1>5 DEF IsOpen
<1>9. Phases' /\ Transfer'
  BY <1>2, <1>5, <1>8, Constants DEF Phases, Transfer, NoJob, NoBytes
<1>10. Idle'
  BY <1>8 DEF Idle, HalfOpen
<1>11. QED BY <1>2, <1>7, <1>8, <1>9, <1>10, SizesKept DEF IInv

\* ... the directory's part of b_write,
LEMMA RecordingSize ==
  ASSUME IInv, Record
  PROVE  IInv'
<1> DEFINE d == fcb["dst"]
<1>1. TypeOK /\ Phases /\ Transfer /\ Disjoint
  BY DEF IInv
<1>2. /\ pc = "record" /\ pc' \in {"read", "close"} /\ (pc' = "read" => buf.count = job.chunk)
      /\ size' = [size EXCEPT ![job.dst] = d.size]
      /\ UNCHANGED <<exists, blocks, data, next, fcb, job, buf, calls>>
  BY DEF Record, AfterWrite, hist
<1>3. job.dst \in Files /\ IsOpen("dst") /\ d.file = job.dst /\ job.chunk = Chunk /\ d # Stray
  BY <1>1, <1>2 DEF Phases, IsOpen
<1>4. d \in Fcb /\ Destination(d)
  BY <1>1, <1>3, Openness DEF IInv
<1>5. TypeOK'
  <2>1. d.size \in 0 .. SizeLimit - 1
    BY <1>4 DEF Fcb
  <2> HIDE DEF d
  <2>2. size' \in [Files -> 0 .. SizeLimit - 1]
    BY <1>1, <1>2, <1>3, <2>1 DEF TypeOK
  <2>3. QED BY <1>1, <1>2, <2>2 DEF TypeOK
<1>6. Phases' /\ Transfer' /\ Disjoint'
  BY <1>1, <1>2 DEF Phases, Transfer, Disjoint, IsOpen
<1>7. (IsOpen("src") => Source(fcb["src"]))'
  <2>1. Resumes' => Resumes
    BY <1>2 DEF Resumes
  <2>2. QED BY <1>2, <2>1, SourceKept
<1>8. d' = d /\ Written(d)' = Written(d) /\ Written(d) = Len(blocks[job.dst])
  <2>1. d.arr = blocks[job.dst] /\ d' = d /\ ~Adding /\ ~Adding'
    BY <1>2, <1>3, <1>4 DEF Destination, Adding
  <2> HIDE DEF d
  <2>2. QED BY <1>2, <2>1 DEF Written
<1>9. Destination(fcb["dst"])'
  <2>1. pc' = "read" => buf.count = Chunk /\ buf.count # -1
    BY <1>2, <1>3, Constants
  <2>2. ~Adding /\ ~Adding' /\ InLoop
    BY <1>2 DEF Adding, InLoop
  <2>3. (Position(d)' <=> Position(d)) /\ (Granted(d.file)' <=> Granted(d.file))
    <3> HIDE DEF d
    <3>1. QED BY <1>2, <1>8, <2>2 DEF Position, Granted
  <2> HIDE DEF d
  <2>4. Destination(d)'
    BY <1>2, <1>4, <1>8, <2>1, <2>2, <2>3 DEF Destination
  <2>5. QED BY <2>4 DEF d
<1>10. AllBacked'
  <2>1. Backed(d.size, Len(blocks[job.dst]), calls)
    BY <1>2, <1>4, <1>8 DEF Destination
  <2>2. ASSUME NEW f \in Files PROVE Backed(size'[f], Len(blocks[f]), calls)
    <3>1. size'[f] = IF f = job.dst THEN d.size ELSE size[f]
      BY <1>1, <1>2 DEF TypeOK
    <3>2. QED BY <2>1, <3>1 DEF IInv, AllBacked
  <2>3. QED BY <1>2, <2>2 DEF AllBacked
<1>11. Idle'
  BY <1>2, <1>3 DEF Idle, HalfOpen
<1>12. QED BY <1>5, <1>6, <1>7, <1>9, <1>10, <1>11 DEF IInv

\* ... or nothing but a size, of a descriptor half open,
LEMMA StoringHalfOpen ==
  ASSUME FewCalls, IInv, StoreHalfOpen
  PROVE  IInv'
<1> DEFINE f == job.dst
           n == buf.count
           z == (size[f] + n) % SizeLimit
<1>1. TypeOK /\ Phases /\ Transfer /\ Disjoint
  BY DEF IInv
<1>2. /\ pc = "store" /\ pc' \in {"read", "close"} /\ (pc' = "read" => n = job.chunk)
      /\ HalfOpen /\ ~IsOpen("dst") /\ fcb["dst"] # NoFcb
      /\ UNCHANGED <<exists, blocks, data, next, fcb, job, buf, calls>>
  BY Blank DEF StoreHalfOpen, AfterWrite, hist, HalfOpen, IsOpen
<1>3. f \in Files /\ job.chunk = Chunk
  BY <1>1, <1>2 DEF Phases
<1>4. /\ size' = size \/ (n <= 0 /\ size' = [size EXCEPT ![f] = z])
      /\ size \in [Files -> 0 .. SizeLimit - 1] /\ z \in 0 .. SizeLimit - 1
      /\ n \in -1 .. Chunk /\ size[f] \in Nat /\ size[f] < SizeLimit
      /\ Len(blocks[f]) \in Nat /\ Len(blocks[f]) <= MaxExtents
      /\ calls \in Nat /\ calls <= Chunk
  <2>1. size' = size \/ (n <= 0 /\ size' = [size EXCEPT ![f] = z])
    BY DEF StoreHalfOpen
  <2>2. /\ size \in [Files -> 0 .. SizeLimit - 1]
        /\ n \in -1 .. Chunk /\ size[f] \in Nat /\ size[f] < SizeLimit
        /\ Len(blocks[f]) \in Nat /\ Len(blocks[f]) <= MaxExtents
        /\ calls \in Nat /\ calls <= Chunk
    <3>1. size \in [Files -> 0 .. SizeLimit - 1]
      BY <1>1 DEF TypeOK
    <3>2. calls \in Nat /\ calls <= Chunk
      BY <1>1, Typed, Constants DEF FewCalls
    <3>3. /\ n \in -1 .. Chunk /\ size[f] \in Nat /\ size[f] < SizeLimit
          /\ Len(blocks[f]) \in Nat /\ Len(blocks[f]) <= MaxExtents
      <4> HIDE DEF f, n
      <4>1. QED BY <1>1, <1>3, Typed DEF n
    <3>4. QED BY <3>1, <3>2, <3>3
  <2>3. size[f] + n \in Int
    BY <2>2
  <2>4. z \in 0 .. SizeLimit - 1
    BY <2>3, Modulo
  <2>5. QED BY <2>1, <2>2, <2>4
<1>5. calls >= 1 /\ Backed(size[f], Len(blocks[f]), calls - 1)
  BY <1>2 DEF IInv, Idle
<1>6. n <= 0 => Backed(z, Len(blocks[f]), calls)
  <2> DEFINE L == Len(blocks[f])
             k == calls - 1
             s == size[f]
  <2>1. /\ s \in Nat /\ s < SizeLimit /\ L \in Nat /\ L <= MaxExtents /\ n \in -1 .. Chunk
        /\ k \in 0 .. Chunk - 1 /\ k + 1 = calls /\ Backed(s, L, k) /\ z = (s + n) % SizeLimit
    BY <1>4, <1>5, Constants
  <2> HIDE DEF L, k, s, n, z
  <2>2. n <= 0 => L = IF n > 0 THEN L + 1 ELSE L
    BY <2>1
  <2>3. n <= 0 => Backed(z, L, k + 1)
    BY ONLY <2>1, <2>2, Counting
  <2>4. QED BY <2>1, <2>3 DEF L
<1> HIDE DEF z
<1>7. TypeOK'
  <2>1. size' \in [Files -> 0 .. SizeLimit - 1]
    BY <1>3, <1>4
  <2>2. QED BY <1>1, <1>2, <2>1 DEF TypeOK
<1>8. Phases' /\ Transfer' /\ Disjoint' /\ ~IsOpen("dst")'
  BY <1>1, <1>2 DEF Phases, Transfer, Disjoint, IsOpen
<1>9. (IsOpen("src") => Source(fcb["src"]))'
  <2>1. Resumes' => Resumes
    BY <1>2 DEF Resumes
  <2>2. QED BY <1>2, <2>1, SourceKept
<1>10. Idle'
  <2>1. SUFFICES ASSUME pc' = "read" PROVE size' = size
    BY <1>2, <1>5 DEF Idle
  <2>2. n > 0
    BY <1>2, <1>3, <2>1, Constants
  <2>3. QED BY <1>4, <2>2
<1>11. AllBacked'
  <2>1. ASSUME NEW g \in Files PROVE Backed(size'[g], Len(blocks[g]), calls)
    <3>1. Backed(size[g], Len(blocks[g]), calls)
      BY DEF IInv, AllBacked
    <3>2. size'[g] = size[g] \/ (g = f /\ n <= 0 /\ size'[g] = z)
      BY <1>4
    <3>3. QED BY <1>6, <3>1, <3>2
  <2>2. QED BY <1>2, <2>1 DEF AllBacked
<1>12. QED BY <1>7, <1>8, <1>9, <1>10, <1>11 DEF IInv

\* More blocks back a size at least as well.
LEMMA MoreBacked ==
  ASSUME NEW s \in Nat, NEW L \in Nat, NEW M \in Nat, L <= M, NEW k, Backed(s, L, k)
  PROVE  Backed(s, M, k)
<1>1. Chunk * L <= Chunk * M /\ Chunk * L \in Nat /\ Chunk * M \in Nat
  BY Constants
<1> DEFINE a == Chunk * L
           b == Chunk * M
<1>2. a <= b /\ a \in Nat /\ b \in Nat /\ (s <= a \/ s >= SizeLimit - k)
  BY <1>1 DEF Backed
<1> HIDE DEF a, b
<1>3. s <= b \/ s >= SizeLimit - k
  BY <1>2
<1>4. QED BY <1>3 DEF Backed, b

\* What a call of b_write leaves of the descriptor, with bytes to store or not.
AfterStore(d, n, s) ==
  /\ s.data \in [Blocks -> [1 .. BlockSize -> Cell]]
  /\ \A b \in Blocks \ Range(d.arr) : s.data[b] = data[b]
  /\ s.ok \in BOOLEAN
  /\ s.fcb \in Fcb /\ s.fcb.file = d.file /\ s.fcb.arr = d.arr
  /\ s.fcb.size = IF s.ok THEN (d.size + n) % SizeLimit ELSE d.size
  /\ s.fcb.current \in {0} \cup Range(d.arr)
  /\ s.ok \/ n > 0 =>
       /\ s.fcb.current = 0 => s.fcb.block_idx = 0 /\ d.arr = <<>>
       /\ Room(s.fcb.block_idx, s.fcb.idx, Len(d.arr))
  /\ Refused \notin Range(d.arr) => s.ok /\ s.fcb.idx < BlockSize
  /\ ~s.ok /\ n > 0 => (s.fcb.idx > 0 => d.size # 0)

\* ... the data's, which changes blocks of the destination alone,
LEMMA Storing ==
  ASSUME FewCalls, IInv, Store
  PROVE  /\ IInv'
         /\ \A b \in Blocks \ Range(blocks[job.dst]) : data'[b] = data[b]
<1> DEFINE d == fcb["dst"]
           n == buf.count
           s == Stored(d, n, buf.bytes)
           L == Len(d.arr)
           W == Written(d)
<1>1. TypeOK /\ Phases /\ Transfer /\ Disjoint /\ AllBacked
  BY DEF IInv
<1>2. /\ pc = "store" /\ IsOpen("dst") /\ data' = s.data /\ fcb' = [fcb EXCEPT !["dst"] = s.fcb]
      /\ IF s.ok THEN pc' = "record" ELSE AfterWrite
      /\ UNCHANGED <<exists, size, blocks, next, job, buf, calls>>
  BY DEF Store, hist
<1>3. /\ job.dst \in Files /\ d.file = job.dst /\ job.chunk = Chunk /\ d # NoFcb /\ d # Stray
  BY <1>1, <1>2 DEF Phases, IsOpen
<1>4. d \in Fcb /\ Destination(d) /\ data \in [Blocks -> [1 .. BlockSize -> Cell]]
  BY <1>1, <1>2, Openness DEF IInv, TypeOK
<1>5. /\ d.arr = blocks[job.dst] /\ d.arr \in Seq({Refused} \cup Blocks)
      /\ L \in Nat /\ L <= MaxExtents
      /\ d.idx \in Nat /\ d.idx <= BlockSize /\ d.block_idx \in Nat
      /\ d.size \in Nat /\ d.size < SizeLimit
  BY <1>1, <1>3, <1>4, Typed, Fields DEF Destination
<1>6. /\ n \in -1 .. Chunk /\ buf.bytes \in Seq(Cell) /\ (n >= 0 => Len(buf.bytes) = n)
      /\ calls \in Nat /\ calls <= Chunk /\ Chunk \in Nat /\ BlockSize \in Nat
  BY <1>1, Typed, Constants DEF Transfer, FewCalls
<1>7. InLoop /\ (Adding <=> n > 0)
  BY <1>2 DEF InLoop, Adding
<1>8. /\ d.current \in {0} \cup Range(d.arr)
      /\ d.current = 0 => d.block_idx = 0 /\ d.arr = <<>>
      /\ n > 0 => d.current # 0
      /\ Refused \notin Range(d.arr) => d.idx < BlockSize
      /\ Position(d) /\ calls >= 1
      /\ Backed(d.size, W, calls - 1)
      /\ d.idx > 0 => d.size # 0
  <2>1. Granted(d.file) <=> Refused \notin Range(d.arr)
    BY <1>3, <1>5 DEF Granted
  <2>2. QED BY <1>2, <1>4, <1>7, <2>1 DEF Destination
<1>9. W = IF n > 0 THEN L - 1 ELSE L
  BY <1>7 DEF Written
<1>10. AfterStore(d, n, s)
  <2>1. CASE n <= 0
    <3>1. n \in -1 .. 0 /\ ~(n > 0)
      BY <1>6, <2>1
    <3>2. Room(d.block_idx, d.idx, L)
      <4> HIDE DEF d, n
      <4>1. QED BY <1>7, <1>8, <1>9, <3>1 DEF Position
    <3>3. d.block_idx <= Len(d.arr)
      BY <3>2 DEF Room
    <3> HIDE DEF d, n
    <3>4. StoresNothing(d, n, s)
      BY <1>4, <1>8, <3>1, <3>3, StoringNothing
    <3> HIDE DEF s
    <3>5. d.idx < BlockSize \/ d.idx = BlockSize
      BY <1>5, <1>6
    <3>6. Room(s.fcb.block_idx, 0, L) <=> s.fcb.block_idx <= L
      BY <1>6 DEF Room
    <3>7. /\ s.data \in [Blocks -> [1 .. BlockSize -> Cell]]
          /\ \A b \in Blocks \ Range(d.arr) : s.data[b] = data[b]
      BY <1>4, <3>4 DEF StoresNothing
    <3>8. s.ok => /\ s.fcb.current = 0 => s.fcb.block_idx = 0 /\ d.arr = <<>>
                  /\ Room(s.fcb.block_idx, s.fcb.idx, Len(d.arr))
      BY <1>8, <3>2, <3>4, <3>5, <3>6, NoBlock DEF StoresNothing, L
    <3>9. Refused \notin Range(d.arr) => s.ok /\ s.fcb.idx < BlockSize
      BY <1>8, <3>4 DEF StoresNothing
    <3>10. QED BY <3>1, <3>4, <3>7, <3>8, <3>9 DEF AfterStore, StoresNothing
  <2>2. CASE n > 0
    <3>1. n \in 1 .. Chunk /\ Len(buf.bytes) = n
      BY <1>6, <2>2
    <3>2. W = L - 1 /\ d.current \in Range(d.arr) /\ d.current # 0
      BY <1>8, <1>9, <2>2
    <3>3. Behind(d, Len(d.arr))
      <4>1. Position(d) /\ Adding /\ Written(d) = L - 1 /\ L - 1 + 1 = L
        BY <1>5, <1>7, <1>8, <2>2, <3>2
      <4> HIDE DEF d
      <4>2. QED BY <4>1 DEF Position, Behind, L
    <3> HIDE DEF d, n
    <3>4. StoresBytes(d, n, s)
      BY <1>4, <1>6, <1>8, <3>1, <3>2, <3>3, StoringBytes
    <3> HIDE DEF s
    <3>5. QED BY <1>8, <2>2, <3>4 DEF AfterStore, StoresBytes
  <2>3. QED BY <1>6, <2>1, <2>2
<1> HIDE DEF s
<1>11. /\ fcb' \in [{"src", "dst"} -> Fcb \cup {NoFcb, Stray}]
       /\ fcb'["src"] = fcb["src"] /\ fcb'["dst"] = s.fcb /\ s.fcb \in Fcb
  BY <1>1, <1>2, <1>10 DEF TypeOK, AfterStore
<1>12. /\ s.ok /\ pc' = "record"
       \/ /\ ~s.ok /\ pc' \in {"read", "close"}
          /\ pc' = "read" => n = Chunk
  BY <1>2, <1>3, <1>10 DEF AfterWrite, AfterStore
<1>13. TypeOK'
  <2>1. data' \in [Blocks -> [1 .. BlockSize -> Cell]]
    BY <1>2, <1>10 DEF AfterStore
  <2>2. QED BY <1>1, <1>2, <1>11, <1>12, <2>1 DEF TypeOK
<1>14. Phases' /\ Transfer'
  <2>1. fcb'["dst"].file = job.dst /\ IsOpen("dst")'
    <3>1. s.fcb # NoFcb /\ s.fcb # Stray
      BY <1>11, Blank
    <3>2. QED BY <1>3, <1>10, <1>11, <3>1 DEF IsOpen, AfterStore
  <2>2. IsOpen("src")' <=> IsOpen("src")
    BY <1>11 DEF IsOpen
  <2>3. QED BY <1>1, <1>2, <1>3, <1>11, <1>12, <2>1, <2>2 DEF Phases, Transfer
<1>15. (IsOpen("src") => Source(fcb["src"]))'
  <2>1. Resumes' => Resumes
    BY <1>2, <1>3, <1>12 DEF Resumes
  <2>2. ASSUME NEW f \in Files \ {job.dst}, NEW b \in Blocks \cap Range(blocks[f])
        PROVE data'[b] = data[b]
    <3>1. b \in Blocks /\ b \notin Range(blocks[job.dst])
      BY <1>1, <1>3, NoBlock DEF Disjoint
    <3>2. QED BY <1>2, <1>5, <1>10, <3>1 DEF AfterStore
  <2>3. QED BY <1>2, <1>11, <2>1, <2>2, SourceKept
<1>16. Destination(fcb["dst"])'
  <2> DEFINE z == (d.size + n) % SizeLimit
             k == calls - 1
  <2>1. W \in Nat /\ L = (IF n > 0 THEN W + 1 ELSE W) /\ W <= L
    <3>1. d.current \in Range(d.arr) => L >= 1
      <4>1. SUFFICES ASSUME d.current \in Range(d.arr) PROVE L >= 1
        OBVIOUS
      <4>2. PICK i \in DOMAIN d.arr : d.arr[i] = d.current
        BY <4>1 DEF Range
      <4>3. QED BY <1>5, <4>2
    <3>2. n > 0 => L >= 1
      BY <1>8, <3>1
    <3> HIDE DEF L, n, W
    <3>3. QED BY <1>5, <1>6, <1>9, <3>2
  <2>2. /\ z \in Nat /\ Backed(z, L, k + 1) /\ (n # -1 => Backed(z, L, k)) /\ (n = Chunk => z # 0)
    <3>1. k \in 0 .. Chunk - 1
      BY <1>6, <1>8
    <3>2. Backed(d.size, W, k)
      BY <1>8
    <3>3. d.size \in Nat /\ d.size < SizeLimit
      BY <1>5
    <3>4. L \in Nat /\ L <= MaxExtents /\ n \in -1 .. Chunk
      BY <1>5, <1>6
    <3>5. z = (d.size + n) % SizeLimit
      OBVIOUS
    <3> HIDE DEF d, n, W, L, k, z
    <3>6. QED BY ONLY <2>1, <3>1, <3>2, <3>3, <3>4, <3>5, Counting
  <2>3. k + 1 = calls /\ k = calls - 1
    BY <1>6
  <2>4. Backed(d.size, L, k)
    <3>1. d.size \in Nat /\ L \in Nat /\ Backed(d.size, W, k)
      BY <1>5, <1>8
    <3> HIDE DEF d, W, L, k
    <3>2. QED BY <2>1, <3>1, MoreBacked
  <2> HIDE DEF d, n, W, L, k, z
  <2>5. /\ d'.arr = blocks'[d'.file] /\ d'.arr = d.arr
        /\ d'.current \in {0} \cup Range(d'.arr)
        /\ d'.size = IF s.ok THEN z ELSE d.size
        /\ Granted(d.file)' => s.ok /\ d'.idx < BlockSize
        /\ s.ok \/ n > 0 =>
             /\ d'.current = 0 => d'.block_idx = 0 /\ d'.arr = <<>>
             /\ Room(d'.block_idx, d'.idx, L)
        /\ ~s.ok /\ n > 0 => (d'.idx > 0 => d.size # 0)
    <3>1. d' = s.fcb /\ d'.file = job.dst /\ d'.arr = d.arr
      BY <1>3, <1>10, <1>11 DEF AfterStore, d
    <3>2. Granted(d.file)' <=> Refused \notin Range(d.arr)
      BY <1>2, <1>5, <3>1 DEF Granted
    <3>3. QED BY <1>2, <1>5, <1>10, <3>1, <3>2 DEF AfterStore, z, L
  <2>6. Written(d)' = L /\ n' = n /\ ~Adding' /\ (InLoop' => s.ok \/ n > 0)
    <3>1. ~Adding' /\ n' = n
      BY <1>2, <1>12 DEF Adding, n
    <3>2. InLoop' => s.ok \/ n > 0
      BY <1>12, Constants DEF InLoop
    <3>3. QED BY <2>5, <3>1, <3>2 DEF Written, L
  <2>7. InLoop' => Position(d)'
    BY <2>5, <2>6 DEF Position
  <2>8. calls' = calls /\ calls' >= 1 /\ buf'.count = n
    BY <1>2, <1>8 DEF n
  <2>9. pc' = "read" => ~s.ok /\ n > 0
    BY <1>12, Constants
  <2>10. /\ pc' = "record" => s.ok /\ Backed(d'.size, Written(d)', calls')
         /\ pc' = "record" /\ buf'.count # -1 => Backed(d'.size, Written(d)', calls' - 1)
         /\ pc' = "record" /\ buf'.count = Chunk => d'.size # 0
         /\ pc' = "read" => Backed(d'.size, Written(d)', calls' - 1)
         /\ pc' = "read" => (d'.idx > 0 => d'.size # 0)
    BY <1>12, <2>2, <2>3, <2>4, <2>5, <2>6, <2>8, <2>9
  <2>11. pc' \in {"record", "read", "close"}
    BY <1>12
  <2>12. Destination(d)'
    BY ONLY <2>5, <2>6, <2>7, <2>8, <2>10, <2>11 DEF Destination
  <2>13. QED BY <2>12 DEF d
<1>17. Idle'
  BY <1>11, Blank DEF Idle, HalfOpen
<1>18. IInv'
  BY <1>2, <1>13, <1>14, <1>15, <1>16, <1>17, SizesKept DEF IInv
<1>19. \A b \in Blocks \ Range(blocks[job.dst]) : data'[b] = data[b]
  BY <1>2, <1>5, <1>10 DEF AfterStore
<1>20. QED BY <1>18, <1>19

\* A leaf added to the destination keeps what relates the files.
LeafAdded(blk) ==
  /\ blocks' = [blocks EXCEPT ![job.dst] = Append(blocks[job.dst], blk)]
  /\ blocks' \in [Files -> Seq({Refused} \cup 1 .. next' - 1)]
  /\ next' \in 1 .. MaxBlocks + 1
  /\ \A g \in Files : Len(blocks'[g]) <= MaxExtents
  /\ \A g \in Files : Range(blocks[g]) \subseteq Range(blocks'[g])
  /\ Range(blocks'[job.dst]) = Range(blocks[job.dst]) \cup {blk}
  /\ Len(blocks'[job.dst]) = Len(blocks[job.dst]) + 1
  /\ Disjoint' /\ AllBacked'

\* A granted or refused leaf is added that way.
LEMMA AddingLeaf ==
  ASSUME IInv, job.dst \in Files, buf.count > 0, ~Full(buf.count),
         NEW blk \in bfs_get_free_blocks, NewLeaf(blk), UNCHANGED <<size, calls>>
  PROVE  LeafAdded(blk) /\ blk \in {Refused} \cup Blocks
<1> DEFINE f == job.dst
           more == Append(blocks[f], blk)
<1>1. TypeOK /\ Disjoint /\ AllBacked
  BY DEF IInv
<1>2. /\ blocks[f] \in Seq({Refused} \cup 1 .. next - 1) /\ Len(blocks[f]) \in Nat
      /\ next \in Nat /\ next >= 1 /\ next <= MaxBlocks + 1 /\ MaxBlocks \in Nat
  BY <1>1, Typed, Constants
<1>3. Len(blocks[f]) + 1 <= MaxExtents
  <2> DEFINE n == Len(blocks[f])
  <2>1. n \in Nat /\ MaxExtents \in Nat /\ ~(n >= MaxExtents)
    BY <1>2, Constants DEF Full
  <2> HIDE DEF n
  <2>2. n + 1 <= MaxExtents
    BY <2>1
  <2>3. QED BY <2>2 DEF n
<1>4. \/ blk = Refused /\ blk \notin Blocks
      \/ blk = next /\ blk \in Blocks
  BY NoBlock DEF bfs_get_free_blocks
<1>5. /\ blocks' = [blocks EXCEPT ![f] = more]
      /\ next' = IF blk \in Blocks THEN next + 1 ELSE next
  BY DEF NewLeaf
<1>6. /\ next' \in 1 .. MaxBlocks + 1 /\ next' >= next /\ next' \in Nat
      /\ blk \in {Refused} \cup 1 .. next' - 1
  <2>1. CASE blk = Refused /\ blk \notin Blocks
    BY <1>2, <1>5, <2>1
  <2>2. CASE blk = next /\ blk \in Blocks
    BY <1>2, <1>5, <2>2 DEF Blocks
  <2>3. QED BY <1>4, <2>1, <2>2
<1> DEFINE S == {Refused} \cup 1 .. next' - 1
<1>7. {Refused} \cup 1 .. next - 1 \subseteq S
  BY <1>2, <1>6
<1> HIDE DEF S
<1>8. /\ more \in Seq(S) /\ Len(more) = Len(blocks[f]) + 1
      /\ Range(more) = Range(blocks[f]) \cup {blk}
  <2>1. blocks[f] \in Seq(S) /\ blk \in S
    BY <1>2, <1>6, <1>7 DEF S
  <2>2. QED BY ONLY <2>1, AppendTo
<1> HIDE DEF more
<1>9. \A g \in Files : blocks'[g] = IF g = f THEN more ELSE blocks[g]
  BY <1>1, <1>5 DEF TypeOK
<1>10. blocks' \in [Files -> Seq(S)]
  <2>1. \A g \in Files : blocks[g] \in Seq({Refused} \cup 1 .. next - 1)
    BY <1>1, Typed
  <2>2. \A g \in Files : blocks[g] \in Seq(S)
    BY <1>7, <2>1
  <2>3. blocks \in [Files -> Seq(S)]
    BY <1>1, <2>2 DEF TypeOK
  <2>4. QED BY <1>5, <1>8, <2>3
<1>11. \A g \in Files : Len(blocks'[g]) <= MaxExtents
  BY <1>1, <1>3, <1>8, <1>9 DEF TypeOK
<1>12. \A g \in Files : Range(blocks[g]) \subseteq Range(blocks'[g])
  BY <1>8, <1>9
<1>13. Disjoint'
  <2>1. SUFFICES ASSUME NEW g \in Files, NEW h \in Files, g # h
                 PROVE  Range(blocks'[g]) \cap Range(blocks'[h]) \subseteq {Refused}
    BY DEF Disjoint
  <2>2. Range(blocks[g]) \cap Range(blocks[h]) \subseteq {Refused}
    BY <1>1, <2>1 DEF Disjoint
  <2>3. blk # Refused => blk \notin Range(blocks[g]) /\ blk \notin Range(blocks[h])
    <3>1. Range(blocks[g]) \subseteq {Refused} \cup 1 .. next - 1
          /\ Range(blocks[h]) \subseteq {Refused} \cup 1 .. next - 1
      <4>1. blocks[g] \in Seq({Refused} \cup 1 .. next - 1)
            /\ blocks[h] \in Seq({Refused} \cup 1 .. next - 1)
        BY <1>1, Typed
      <4>2. QED BY <4>1, RangeOf
    <3>2. blk # Refused => blk = next /\ next \notin 1 .. next - 1
      BY <1>2, <1>4
    <3>3. QED BY <3>1, <3>2
  <2>4. QED BY <1>8, <1>9, <2>1, <2>2, <2>3
<1>14. AllBacked'
  <2>1. ASSUME NEW g \in Files PROVE Backed(size[g], Len(blocks'[g]), calls)
    <3>1. /\ Backed(size[g], Len(blocks[g]), calls)
          /\ size[g] \in Nat /\ Len(blocks[g]) \in Nat
      BY <1>1, Typed DEF AllBacked
    <3>2. Len(blocks'[g]) \in {Len(blocks[g]), Len(blocks[g]) + 1}
      BY <1>8, <1>9
    <3> DEFINE n == Len(blocks[g])
               m == Len(blocks'[g])
    <3>3. n \in Nat /\ m \in Nat /\ n <= m /\ Backed(size[g], n, calls) /\ size[g] \in Nat
      BY <3>1, <3>2
    <3> HIDE DEF n, m
    <3>4. Backed(size[g], m, calls)
      BY <3>3, MoreBacked
    <3>5. QED BY <3>4 DEF m
  <2>2. QED BY <2>1 DEF AllBacked
<1>15. blk \in {Refused} \cup Blocks
  BY <1>4
<1>16. QED BY <1>5, <1>6, <1>8, <1>9, <1>10, <1>11, <1>12, <1>13, <1>14, <1>15 DEF LeafAdded, S, more

\* ... and the extents': with a descriptor half open,
LEMMA ExtendingHalfOpen ==
  ASSUME IInv, ExtendHalfOpen
  PROVE  IInv'
<1>1. TypeOK /\ Phases /\ Transfer /\ Disjoint /\ AllBacked
  BY DEF IInv
<1>2. /\ pc = "write" /\ HalfOpen /\ ~IsOpen("dst") /\ fcb["dst"] # NoFcb /\ ~Full(buf.count)
      /\ pc' = "store" /\ UNCHANGED <<exists, size, data, fcb, job, buf, calls>>
  BY Blank DEF ExtendHalfOpen, HalfOpen, IsOpen
<1>3. job.dst \in Files
  BY <1>1, <1>2 DEF Phases
<1>4. /\ blocks' \in [Files -> Seq({Refused} \cup 1 .. next' - 1)]
      /\ next' \in 1 .. MaxBlocks + 1
      /\ \A g \in Files : Len(blocks'[g]) <= MaxExtents
      /\ \A g \in Files : Range(blocks[g]) \subseteq Range(blocks'[g])
      /\ Len(blocks'[job.dst]) \in {Len(blocks[job.dst]), Len(blocks[job.dst]) + 1}
      /\ Disjoint' /\ AllBacked'
  <2>1. CASE buf.count > 0
    <3>1. PICK blk \in bfs_get_free_blocks : NewLeaf(blk)
      BY <2>1 DEF ExtendHalfOpen
    <3>2. QED BY <1>2, <1>3, <2>1, <3>1, AddingLeaf DEF LeafAdded
  <2>2. CASE ~(buf.count > 0)
    <3>1. UNCHANGED <<blocks, next>>
      BY <2>2 DEF ExtendHalfOpen
    <3>2. QED BY <1>1, <1>2, <3>1, SizesKept DEF TypeOK
  <2>3. QED BY <2>1, <2>2
<1>5. TypeOK'
  BY <1>1, <1>2, <1>4 DEF TypeOK
<1>6. Phases' /\ Transfer' /\ ~IsOpen("dst")'
  BY <1>1, <1>2 DEF Phases, Transfer, IsOpen, HalfOpen
<1>7. (IsOpen("src") => Source(fcb["src"]))'
  <2>1. Resumes' => Resumes
    BY <1>2 DEF Resumes
  <2>2. QED BY <1>2, <1>4, <2>1, SourceKept
<1>8. Idle'
  <2>1. calls >= 1 /\ Backed(size[job.dst], Len(blocks[job.dst]), calls - 1)
    BY <1>2 DEF IInv, Idle
  <2>2. size[job.dst] \in Nat /\ Len(blocks[job.dst]) \in Nat
    BY <1>1, <1>3, Typed
  <2> DEFINE n == Len(blocks[job.dst])
             m == Len(blocks'[job.dst])
             k == calls - 1
  <2>3. n \in Nat /\ m \in Nat /\ n <= m /\ Backed(size[job.dst], n, k) /\ size[job.dst] \in Nat
    BY <1>4, <2>1, <2>2
  <2> HIDE DEF n, m, k
  <2>4. Backed(size[job.dst], m, k)
    BY <2>3, MoreBacked
  <2>5. QED BY <1>2, <2>1, <2>4 DEF Idle, m, k
<1>9. QED BY <1>4, <1>5, <1>6, <1>7, <1>8 DEF IInv

\* ... with one that is open, and nothing to write,
LEMMA ExtendingNothing ==
  ASSUME IInv, Extend, ~(buf.count > 0)
  PROVE  IInv'
<1> DEFINE d == fcb["dst"]
<1>1. TypeOK /\ Phases /\ Transfer
  BY DEF IInv
<1>2. /\ pc = "write" /\ IsOpen("dst") /\ pc' = "store"
      /\ UNCHANGED <<exists, size, blocks, data, next, fcb, job, buf, calls>>
  BY DEF Extend, hist
<1>3. TypeOK' /\ Phases' /\ Transfer'
  BY <1>1, <1>2 DEF TypeOK, Phases, Transfer, IsOpen
<1>4. (IsOpen("src") => Source(fcb["src"]))'
  <2>1. Resumes' => Resumes
    BY <1>2 DEF Resumes
  <2>2. QED BY <1>2, <2>1, SourceKept
<1>5. ~Adding /\ ~Adding' /\ InLoop /\ d' = d /\ Destination(d)
  BY <1>2 DEF Adding, InLoop, IInv
<1> HIDE DEF d
<1>6. Written(d)' = Written(d) /\ (Position(d)' <=> Position(d)) /\ (Granted(d.file)' <=> Granted(d.file))
  BY <1>2, <1>5 DEF Written, Position, Granted
<1>7. Destination(d)'
  BY <1>2, <1>5, <1>6 DEF Destination
<1>8. Idle'
  BY <1>2, <1>1, Blank DEF Idle, HalfOpen, IsOpen
<1>9. QED BY <1>2, <1>3, <1>4, <1>7, <1>8, SizesKept DEF IInv, d

\* ... or with bytes.  Only the first block of a file may be missing then.
LEMMA Extending ==
  ASSUME IInv, Extend
  PROVE  IInv'
<1> DEFINE d == fcb["dst"]
           f == job.dst
           L == Len(blocks[f])
<1>1. SUFFICES ASSUME buf.count > 0 PROVE IInv'
  BY ExtendingNothing
<1>2. TypeOK /\ Phases /\ Transfer
  BY DEF IInv
<1>3. /\ pc = "write" /\ IsOpen("dst") /\ ~Full(buf.count)
      /\ UNCHANGED <<exists, size, data, job, buf, calls>>
  BY DEF Extend
<1>4. f \in Files /\ d.file = f /\ job.chunk = Chunk /\ d # NoFcb /\ d # Stray
  BY <1>2, <1>3 DEF Phases, IsOpen
<1>5. PICK blk \in bfs_get_free_blocks :
        LET first == AtFirstBlock([d EXCEPT !.arr = blocks'[f]])
        IN  /\ NewLeaf(blk)
            /\ fcb' = [fcb EXCEPT !["dst"] = first.fcb]
            /\ IF first.ok THEN pc' = "store" ELSE AfterWrite
  BY <1>1 DEF Extend
<1>6. LeafAdded(blk) /\ blk \in {Refused} \cup Blocks
  BY <1>1, <1>3, <1>4, <1>5, AddingLeaf
<1> DEFINE more  == blocks'[f]
           c1    == [d EXCEPT !.arr = more]
           first == AtFirstBlock(c1)
           c2    == first.fcb
<1>7. /\ more \in Seq({Refused} \cup Blocks) /\ Len(more) = L + 1 /\ L \in Nat
      /\ Range(more) = Range(blocks[f]) \cup {blk} /\ more[Len(more)] = blk
  <2>1. blocks'[f] \in Seq({Refused} \cup 1 .. next' - 1) /\ next' <= MaxBlocks + 1 /\ next' \in Nat
    BY <1>4, <1>6, Constants DEF LeafAdded
  <2>2. {Refused} \cup 1 .. next' - 1 \subseteq {Refused} \cup Blocks
    BY <2>1, Constants DEF Blocks
  <2>3. blocks'[f] = Append(blocks[f], blk) /\ blocks[f] \in Seq({Refused} \cup Blocks) /\ L \in Nat
    BY <1>2, <1>4, <1>6, Typed DEF LeafAdded, TypeOK
  <2>4. more \in Seq({Refused} \cup Blocks)
    BY <2>1, <2>2
  <2>5. more[Len(more)] = blk
    BY <2>3
  <2>6. QED BY <1>4, <1>6, <2>3, <2>4, <2>5 DEF LeafAdded
<1>8. d \in Fcb /\ Destination(d) /\ data \in [Blocks -> [1 .. BlockSize -> Cell]]
  BY <1>2, <1>3, Openness DEF IInv, TypeOK
<1>9. /\ InLoop /\ ~Adding /\ Written(d) = L /\ d.arr = blocks[f]
      /\ d.current \in {0} \cup Range(blocks[f])
      /\ d.current = 0 => d.block_idx = 0 /\ L = 0
      /\ Room(d.block_idx, d.idx, L) /\ calls >= 1
      /\ Backed(d.size, L, calls - 1)
      /\ d.idx > 0 => d.size # 0
      /\ Granted(f) => d.idx < BlockSize
  <2>1. InLoop /\ ~Adding
    BY <1>3 DEF InLoop, Adding
  <2>2. d.arr = blocks[f] /\ Written(d) = L
    BY <1>4, <1>8, <2>1 DEF Destination, Written
  <2> HIDE DEF d
  <2>3. d.arr = <<>> => L = 0
    BY <2>2
  <2>4. QED BY <1>3, <1>4, <1>8, <2>1, <2>2, <2>3 DEF Destination, Position
<1> HIDE DEF more
<1>10. /\ c1 \in Fcb /\ c1.file = f /\ c1.size = d.size /\ c1.arr = more
       /\ c1.block_idx = d.block_idx /\ c1.current = d.current /\ c1.idx = d.idx
  BY <1>4, <1>7, <1>8 DEF Fcb
<1>11. /\ d.idx \in Nat /\ d.idx <= BlockSize /\ d.block_idx \in Nat /\ d.size \in Nat
       /\ BlockSize \in Nat /\ Chunk \in Nat /\ calls \in Nat
  BY <1>2, <1>8, Fields, Constants, Typed
<1> HIDE DEF c1
<1>12. /\ c2 \in Fcb /\ c2.file = f /\ c2.size = d.size /\ c2.arr = more
       /\ first.ok \in BOOLEAN
       /\ c2.current # 0 /\ c2.current \in Range(more)
       /\ c2.idx > 0 => d.idx > 0
       /\ first.ok => IF c2.idx = 0 THEN c2.block_idx <= L + 1 ELSE Room(c2.block_idx, c2.idx, L)
       /\ ~first.ok => Room(c2.block_idx, c2.idx, L + 1)
       /\ Refused \notin Range(more) => first.ok /\ c2.idx < BlockSize
  <2>1. CASE d.current # 0
    <3>1. c2 = c1 /\ first.ok = TRUE
      BY <1>10, <2>1 DEF AtFirstBlock
    <3>2. Refused \notin Range(more) => c2.idx < BlockSize
      BY <1>7, <1>9, <1>10, <3>1 DEF Granted
    <3>3. IF c2.idx = 0 THEN c2.block_idx <= L + 1 ELSE Room(c2.block_idx, c2.idx, L)
      BY <1>7, <1>9, <1>10, <1>11, <3>1 DEF Room
    <3>4. QED BY <1>7, <1>9, <1>10, <2>1, <3>1, <3>2, <3>3
  <2>2. CASE d.current = 0
    <3> DEFINE c == next_block(c1, data)
    <3>1. c2 = c /\ first.ok = (c.current \in Blocks)
      <4>1. c1.current = 0
        BY <1>10, <2>2
      <4>2. first = [fcb |-> c, ok |-> c.current \in Blocks]
        BY <4>1 DEF AtFirstBlock
      <4> HIDE DEF c, first
      <4>3. QED BY <4>2
    <3> HIDE DEF c, d
    <3>2. d.block_idx = 0 /\ L = 0
      BY <1>9, <2>2
    <3>3. /\ c \in Fcb /\ c.file = f /\ c.size = d.size /\ c.arr = more
          /\ c.block_idx = 1 /\ c.current # 0 /\ c.current \in Range(more)
          /\ c.current \in Blocks => c.idx = 0
          /\ c.current \notin Blocks => c.idx = d.idx
      <4> HIDE DEF L, f
      <4>1. c1.block_idx = 0 /\ Len(c1.arr) = 1
        BY <1>7, <1>10, <3>2
      <4>2. c1.block_idx <= Len(c1.arr) /\ c1.block_idx < Len(c1.arr)
        BY <4>1
      <4>3. /\ c \in Fcb
            /\ c.file = c1.file /\ c.size = c1.size /\ c.arr = c1.arr
            /\ c.block_idx = c1.block_idx + 1
            /\ c.current # 0 /\ c.current \in Range(c1.arr)
            /\ c.current \in Blocks => c.idx = 0
            /\ c.current \notin Blocks => c.idx = c1.idx
        BY ONLY <1>8, <1>10, <4>2, NextBlock DEF c
      <4>4. c.block_idx = 1
        BY <4>1, <4>3
      <4>5. QED BY ONLY <1>10, <4>3, <4>4
    <3>4. Refused \notin Range(more) => c.current \in Blocks
      BY <1>7, <3>3, RangeOf
    <3>5. c.current \notin Blocks => Room(1, c.idx, L + 1)
      <4>1. ~(Chunk < d.idx /\ d.idx < BlockSize)
        BY <1>9, <2>2, <3>2 DEF Room
      <4>2. QED BY <3>2, <3>3, <4>1 DEF Room
    <3>6. c.current \in Blocks => c.idx = 0 /\ 1 <= L + 1 /\ c.idx < BlockSize
      BY <3>2, <3>3, Constants
    <3>7. c.idx > 0 => d.idx > 0
      BY <1>11, <3>3
    <3> HIDE DEF first
    <3>8. first.ok => c2.idx = 0 /\ c2.block_idx <= L + 1 /\ c2.idx < BlockSize
      <4>1. ASSUME first.ok PROVE c.current \in Blocks
        BY <3>1, <4>1
      <4>2. c.current \in Blocks => c.idx = 0 /\ c.block_idx <= L + 1 /\ c.idx < BlockSize
        BY <3>3, <3>6
      <4>3. QED BY <3>1, <4>1, <4>2
    <3>9. ~first.ok => Room(c2.block_idx, c2.idx, L + 1)
      BY <3>1, <3>3, <3>5
    <3>10. Refused \notin Range(more) => first.ok
      BY <3>1, <3>4
    <3>11. first.ok \in BOOLEAN
      BY <3>1
    <3>12. /\ c2 \in Fcb /\ c2.file = f /\ c2.size = d.size /\ c2.arr = more
           /\ c2.current # 0 /\ c2.current \in Range(more)
           /\ c2.idx > 0 => d.idx > 0
      BY <3>1, <3>3, <3>7
    <3>13. QED BY <3>8, <3>9, <3>10, <3>11, <3>12
  <2>3. QED BY <2>1, <2>2
<1>13. /\ fcb' = [fcb EXCEPT !["dst"] = c2]
       /\ IF first.ok THEN pc' = "store" ELSE AfterWrite
  BY <1>5 DEF c1, more
<1> HIDE DEF first
<1>14. /\ fcb' \in [{"src", "dst"} -> Fcb \cup {NoFcb, Stray}]
       /\ fcb'["src"] = fcb["src"] /\ fcb'["dst"] = c2
       /\ \/ first.ok /\ pc' = "store"
          \/ ~first.ok /\ pc' \in {"read", "close"} /\ (pc' = "read" => buf.count = job.chunk)
  BY <1>2, <1>12, <1>13 DEF TypeOK, AfterWrite
<1>15. TypeOK'
  BY <1>2, <1>3, <1>6, <1>14 DEF TypeOK, LeafAdded
<1>16. Phases' /\ Transfer'
  <2>1. fcb'["dst"].file = job.dst /\ IsOpen("dst")'
    BY <1>12, <1>14, Blank DEF IsOpen
  <2>2. IsOpen("src")' <=> IsOpen("src")
    BY <1>14 DEF IsOpen
  <2>3. QED BY <1>2, <1>3, <1>4, <1>14, <2>1, <2>2 DEF Phases, Transfer
<1>17. (IsOpen("src") => Source(fcb["src"]))'
  <2>1. Resumes' => Resumes
    BY <1>3, <1>14 DEF Resumes
  <2>2. QED BY <1>3, <1>6, <1>14, <2>1, SourceKept DEF LeafAdded
<1>18. Destination(fcb["dst"])'
  <2>1. blocks'[d'.file] = more /\ d' = c2
    BY <1>12, <1>14 DEF more
  <2> HIDE DEF c2
  <2>2. /\ Adding' <=> pc' = "store"
        /\ Written(d)' = IF pc' = "store" THEN L ELSE L + 1
    <3>1. Adding' <=> pc' = "store"
      BY <1>1, <1>3 DEF Adding
    <3>2. d'.arr = more /\ L + 1 - 1 = L
      BY <1>7, <1>12, <2>1
    <3> HIDE DEF d, L
    <3>3. QED BY <1>7, <3>1, <3>2 DEF Written
  <2>3. Position(d)'
    <3> HIDE DEF d, L
    <3>1. pc' = "store" <=> first.ok
      BY <1>14
    <3>2. QED BY <1>12, <2>1, <2>2, <3>1 DEF Position
  <2>4. d'.arr = blocks'[d'.file] /\ d'.current \in {0} \cup Range(d'.arr) /\ d'.current # 0
    BY <1>12, <2>1
  <2>5. Granted(d.file)' => d'.idx < BlockSize
    BY <1>12, <2>1 DEF Granted
  <2>6. Backed(d'.size, Written(d)', calls' - 1) /\ calls' >= 1
    <3>1. Backed(d.size, L, calls - 1) /\ Backed(d.size, L + 1, calls - 1)
      <4> DEFINE k == calls - 1
                 M == L + 1
      <4>1. d.size \in Nat /\ L \in Nat /\ M \in Nat /\ L <= M /\ Backed(d.size, L, k)
        BY <1>7, <1>9, <1>11
      <4> HIDE DEF k, M, L, d
      <4>2. Backed(d.size, M, k)
        BY <4>1, MoreBacked
      <4>3. QED BY <4>1, <4>2 DEF k, M
    <3> HIDE DEF L
    <3>2. d'.size = d.size /\ calls' = calls
      BY <1>3, <1>12, <2>1
    <3>3. QED BY <1>9, <2>2, <3>1, <3>2
  <2>7. d'.idx > 0 => d'.size # 0
    BY <1>9, <1>12, <2>1
  <2>8. pc' \in {"store", "read", "close"}
    BY <1>14
  <2> HIDE DEF d
  <2>9. Destination(d)'
    BY ONLY <2>3, <2>4, <2>5, <2>6, <2>7, <2>8 DEF Destination
  <2>10. QED BY <2>9 DEF d
<1>19. Idle'
  BY <1>12, <1>14, Blank DEF Idle, HalfOpen
<1>20. QED BY <1>6, <1>15, <1>16, <1>17, <1>18, <1>19 DEF IInv, LeafAdded


\* So does every step,
LEMMA Stepping ==
  ASSUME FewCalls, IInv, [Next]_vars
  PROVE  IInv'
<1>1. CASE cmd_cp
  <2>1. PICK f \in Files, g \in Files : Start(f, g, Chunk, 0)
    BY <1>1 DEF cmd_cp
  <2>2. QED BY <2>1, Starting, Constants
<1>2. CASE cmd_cp2l
  <2>1. PICK f \in Files : Start(f, Linux, Chunk, 0)
    BY <1>2 DEF cmd_cp2l
  <2>2. QED BY <2>1, Starting, Constants
<1>3. CASE cmd_cp2fs
  <2>1. PICK g \in Files, n \in Lengths : Start(Linux, g, Chunk, n)
    BY <1>3 DEF cmd_cp2fs
  <2>2. n \in {-1} \cup Nat
    BY <2>1, FileIOAssumption
  <2>3. QED BY <2>1, <2>2, Starting, Constants
<1>4. CASE cmd_cat
  <2>1. PICK f \in exists : Start(f, Linux, Chunk - 1, 0)
    BY <1>4 DEF cmd_cat
  <2>2. f \in Files
    BY <2>1 DEF IInv, TypeOK
  <2>3. QED BY <2>1, <2>2, Starting, Constants
<1>5. CASE Step
  <2>1. CASE DieInWrite \/ DieInClose
    BY <2>1, Dying DEF DieInWrite, DieInClose
  <2>2. CASE WriteLinux \/ WriteNowhere \/ FailToReallocate
    <3>1. WritesNothing
      BY <2>2 DEF WriteLinux, WriteNowhere, FailToReallocate, AfterWrite, WritesNothing, disk, hist
    <3>2. QED BY <3>1, WritingNothing
  <2>3. CASE Extend \/ ExtendHalfOpen
    BY <2>3, Extending, ExtendingHalfOpen
  <2>4. CASE Store \/ StoreHalfOpen \/ Record
    BY <2>4, Storing, StoringHalfOpen, RecordingSize
  <2>5. CASE ReadLinux \/ ReadFile \/ CloseSrc \/ CloseDst
    BY <2>5, ReadingLinux, ReadingFile, ClosingSrc, ClosingDst
  <2>6. QED BY <1>5, <2>1, <2>2, <2>3, <2>4, <2>5 DEF Step, b_write
<1>6. CASE Crash
  BY <1>6, Dying DEF Crash
<1>7. CASE UNCHANGED vars
  <2>1. /\ UNCHANGED <<exists, size, blocks, data, next, fcb, job, pc, buf, calls>>
    BY <1>7 DEF vars, disk, hist
  <2>2. TypeOK' /\ Disjoint' /\ AllBacked'
    BY <2>1 DEF IInv, TypeOK, Disjoint, AllBacked
  <2>3. Phases' /\ Transfer' /\ Idle'
    BY <2>1 DEF IInv, Phases, Transfer, Idle, IsOpen, HalfOpen
  <2>4. (IsOpen("src") => Source(fcb["src"]))'
    BY <2>1 DEF IInv, Source, IsOpen, Resumes
  <2>5. (IsOpen("dst") => Destination(fcb["dst"]))'
    BY <2>1 DEF IInv, Destination, Position, Written, Adding, InLoop, Granted, IsOpen
  <2>6. QED BY <2>2, <2>3, <2>4, <2>5 DEF IInv
<1>8. QED BY <1>1, <1>2, <1>3, <1>4, <1>5, <1>6, <1>7 DEF Next

\* and the invariant holds throughout.
LEMMA Inductive ==
  ASSUME FewCalls
  PROVE  Spec => []IInv
<1>1. IInv /\ [Next]_vars => IInv'
  BY Stepping
<1>2. QED BY <1>1, Initially, PTL DEF Spec

\* Closing the source writes back what is there, and no two files share a
\* block: a step leaves the files alone that are not the destination.
LEMMA OthersKept ==
  ASSUME FewCalls, IInv, Next
  PROVE  \A f \in Files \ {job.dst} :
           /\ size'[f] = size[f] /\ blocks'[f] = blocks[f]
           /\ \A b \in Blocks \cap Range(blocks[f]) : data'[b] = data[b]
<1>1. TypeOK /\ Phases /\ Disjoint
  BY DEF IInv
<1>2. ASSUME NEW f \in Files \ {job.dst}, NEW b \in Blocks \cap Range(blocks[f]), job.dst \in Files
      PROVE  b \notin Range(blocks[job.dst])
  BY <1>1, <1>2, NoBlock DEF Disjoint
<1>3. CASE UNCHANGED <<size, blocks, data>>
  BY <1>3
<1>4. CASE UNCHANGED <<size, data>> /\ \E blk : blocks' = [blocks EXCEPT ![job.dst] = Append(@, blk)]
  BY <1>1, <1>4 DEF TypeOK
<1>5. CASE Extend \/ ExtendHalfOpen
  <2>1. UNCHANGED <<size, data>>
    BY <1>5 DEF Extend, ExtendHalfOpen
  <2>2. \/ UNCHANGED blocks
        \/ \E blk : blocks' = [blocks EXCEPT ![job.dst] = Append(@, blk)]
    BY <1>5 DEF Extend, ExtendHalfOpen, NewLeaf
  <2>3. QED BY <1>3, <1>4, <2>1, <2>2
<1>6. CASE Store
  <2>1. UNCHANGED <<size, blocks>> /\ job.dst \in Files
    BY <1>1, <1>6 DEF Store, Phases, IsOpen
  <2>2. \A b \in Blocks \ Range(blocks[job.dst]) : data'[b] = data[b]
    BY <1>6, Storing
  <2>3. QED BY <1>2, <2>1, <2>2
<1>7. CASE StoreHalfOpen \/ Record
  <2>1. /\ size \in [Files -> 0 .. SizeLimit - 1] /\ UNCHANGED <<blocks, data>>
        /\ \/ UNCHANGED size
           \/ \E z : size' = [size EXCEPT ![job.dst] = z]
    BY <1>1, <1>7 DEF StoreHalfOpen, Record, TypeOK
  <2>2. QED BY <2>1
<1>8. CASE CloseSrc
  <2> DEFINE c == fcb["src"]
  <2>1. UNCHANGED <<size, blocks>> /\ data' = IF IsOpen("src") THEN b_close(c) ELSE data
    BY <1>8 DEF CloseSrc
  <2>2. CASE ~IsOpen("src")
    BY <1>3, <2>1, <2>2
  <2>3. CASE IsOpen("src")
    <3>1. c \in Fcb /\ Source(c) /\ data' = b_close(c) /\ c.file = job.src
      BY <1>1, <2>1, <2>3, Openness DEF IInv, Phases
    <3>2. CASE c.file # job.dst
      <4>1. data' = data
        BY <1>1, <3>1, <3>2, Closing DEF Source
      <4>2. QED BY <1>3, <2>1, <4>1
    <3>3. CASE c.file = job.dst
      <4>1. job.dst \in Files /\ c.current \in {0} \cup Range(blocks[job.dst])
        BY <3>1, <3>3, Fields DEF Source
      <4>2. ASSUME NEW f \in Files \ {job.dst}, NEW b \in Blocks \cap Range(blocks[f])
            PROVE  data'[b] = data[b]
        <5>1. b # c.current
          BY <1>2, <4>1, <4>2, NoBlock
        <5>2. QED BY <1>1, <3>1, <5>1, Closing
      <4>3. QED BY <2>1, <4>2
    <3>4. QED BY <3>2, <3>3
  <2>4. QED BY <2>2, <2>3
<1>9. CASE CloseDst
  <2> DEFINE d == fcb["dst"]
  <2>1. UNCHANGED <<size, blocks>> /\ data' = IF IsOpen("dst") THEN b_close(d) ELSE data
    BY <1>9 DEF CloseDst
  <2>2. CASE ~IsOpen("dst")
    BY <1>3, <2>1, <2>2
  <2>3. CASE IsOpen("dst")
    <3>1. d \in Fcb /\ Destination(d) /\ data' = b_close(d) /\ d.file = job.dst
      BY <1>1, <2>1, <2>3, Openness DEF IInv, Phases
    <3>2. job.dst \in Files /\ d.current \in {0} \cup Range(blocks[job.dst])
      BY <3>1, Fields DEF Destination
    <3>3. ASSUME NEW f \in Files \ {job.dst}, NEW b \in Blocks \cap Range(blocks[f])
          PROVE  data'[b] = data[b]
      <4>1. b # d.current
        BY <1>2, <3>2, <3>3, NoBlock
      <4>2. QED BY <1>1, <3>1, <4>1, Closing
    <3>4. QED BY <2>1, <3>3
  <2>4. QED BY <2>2, <2>3
<1>10. CASE cmd_cp \/ cmd_cp2l \/ cmd_cp2fs \/ cmd_cat \/ ReadLinux \/ ReadFile \/ WriteLinux
              \/ WriteNowhere \/ FailToReallocate \/ DieInWrite \/ DieInClose \/ Crash
  <2>1. UNCHANGED <<size, blocks, data>>
    BY <1>10 DEF cmd_cp, cmd_cp2l, cmd_cp2fs, cmd_cat, Start, ReadLinux, ReadFile, WriteLinux,
                 WriteNowhere, FailToReallocate, DieInWrite, DieInClose, Crash, Died, disk
  <2>2. QED BY <1>3, <2>1
<1>11. QED BY <1>5, <1>6, <1>7, <1>8, <1>9, <1>10 DEF Next, Step, b_write

-----------------------------------------------------------------------------
(* Theorems *)

\* The type invariant: an index never leaves its buffer, an extent block never
\* has more than eh_max entries, sizes stay within a uint64_t and every block of
\* a file has been handed out, or refused (b_io.c).
THEOREM TypeCorrect ==
  ASSUME FewCalls
  PROVE  Spec => []TypeOK
<1>1. IInv => TypeOK
  BY DEF IInv
<1>2. QED BY <1>1, Inductive, PTL

\* next_block never reads behind the end of the array for any b_read or
\* b_write of a command, whichever requests for blocks are refused; and as long
\* as none is, b_write never copies behind the end of the buffer, whatever the
\* lengths of the files and wherever a crash has left them.
THEOREM NeverOverrun ==
  ASSUME FewCalls
  PROVE  Spec => []ArraysNotOverrun
<1>1. IInv => ArraysNotOverrun
  <2>1. SUFFICES ASSUME IInv PROVE ArraysNotOverrun
    OBVIOUS
  <2>2. pc = "read" /\ IsOpen("src") => fcb["src"].block_idx <= Len(fcb["src"].arr)
    BY <2>1 DEF IInv, Source, Resumes
  <2>3. ASSUME IsOpen("dst")
        PROVE  /\ pc = "write" => fcb["dst"].block_idx <= Len(fcb["dst"].arr)
               /\ Granted(job.dst) => (fcb["dst"].current = 0 => fcb["dst"].block_idx = 0)
               /\ Granted(job.dst) /\ pc = "store" => ~Overruns(fcb["dst"], buf.count)
    <3> DEFINE d == fcb["dst"]
    <3>1. d \in Fcb /\ Destination(d) /\ buf.count \in -1 .. Chunk /\ d.file = job.dst
      BY <2>1, <2>3, Openness, Typed DEF IInv, Phases
    <3>2. d.idx \in Nat /\ d.size \in Nat
      BY <3>1, Fields
    <3> HIDE DEF d
    <3>3. pc = "write" => d.block_idx <= Len(d.arr)
      <4>1. pc = "write" => Position(d) /\ ~Adding
        BY <3>1 DEF Destination, InLoop, Adding
      <4>2. QED BY <4>1 DEF Position, Room, Written
    <3>4. Granted(job.dst) => (d.current = 0 => d.block_idx = 0) /\ d.idx < BlockSize
      BY <3>1 DEF Destination
    <3>5. pc = "store" => (d.idx > 0 => d.size # 0)
      BY <3>1 DEF Destination
    <3>6. ASSUME Granted(job.dst), pc = "store" PROVE ~Overruns(d, buf.count)
      BY <3>1, <3>2, <3>4, <3>5, <3>6, Constants DEF Overruns, Available, Smaller
    <3>7. QED BY <3>3, <3>4, <3>6 DEF d
  <2>4. QED BY <2>2, <2>3 DEF ArraysNotOverrun
<1>2. QED BY <1>1, Inductive, PTL

\* b_write never stores a block of a file over block 0, whichever requests are
\* refused: when bytes are stored there is a current block, or the block of a
\* request refused, which no write reaches.
THEOREM BlockZeroKept ==
  ASSUME FewCalls
  PROVE  Spec => []BlockZeroSpared
<1>1. IInv => BlockZeroSpared
  BY DEF IInv, BlockZeroSpared, Destination, Adding
<1>2. QED BY <1>1, Inductive, PTL

\* The size of a file none of whose requests was refused never counts bytes no
\* block holds, at whichever of b_write's writes the session ends, but for one
\* counted below 0 by failed reads.
THEOREM SizesBacked ==
  ASSUME FewCalls
  PROVE  Spec => []SizeIsBacked
<1>1. IInv => SizeIsBacked
  <2>1. SUFFICES ASSUME IInv, NEW f \in Files
                 PROVE  size[f] > SizeLimit - 1 - MaxCalls \/ size[f] <= Chunk * Len(blocks[f])
    BY DEF SizeIsBacked
  <2> DEFINE room == Chunk * Len(blocks[f])
  <2>2. size[f] <= room \/ size[f] >= SizeLimit - calls
    BY <2>1 DEF IInv, AllBacked, Backed
  <2>3. calls \in Nat /\ calls <= MaxCalls /\ size[f] \in Nat /\ SizeLimit \in Nat /\ MaxCalls \in Nat
    BY <2>1, Typed, FileIOAssumption DEF IInv
  <2> HIDE DEF room
  <2>4. size[f] > SizeLimit - 1 - MaxCalls \/ size[f] <= room
    BY <2>2, <2>3
  <2>5. QED BY <2>4 DEF room
<1>2. QED BY <1>1, Inductive, PTL

\* A command changes no file but its destination: closing the source writes
\* back what is there, and no two files share a block.
THEOREM OnlyDestination ==
  ASSUME FewCalls
  PROVE  Spec => OnlyDestinationChanges
<1> DEFINE Others == \A f \in Files \ {job.dst} :
             /\ size'[f] = size[f] /\ blocks'[f] = blocks[f]
             /\ \A b \in Blocks \cap Range(blocks[f]) : data'[b] = data[b]
<1>1. ASSUME IInv, [Next]_vars PROVE [Others]_vars
  <2>1. CASE Next
    BY <1>1, <2>1, OthersKept
  <2>2. QED BY <1>1, <2>1
<1>2. QED BY <1>1, Inductive, PTL DEF Spec, OnlyDestinationChanges

\* The fields of a command's job.
LEMMA JobParts ==
  ASSUME TypeOK
  PROVE  /\ job.src \in Files \cup {Linux} /\ job.dst \in Files \cup {Linux}
         /\ job.chunk \in {Chunk - 1, Chunk} /\ job.total \in {-1} \cup Nat /\ job.pos \in Nat
<1>1. job \in [src : Files \cup {Linux}, dst : Files \cup {Linux},
               chunk : {Chunk - 1, Chunk}, total : {-1} \cup Nat, pos : Nat]
  BY DEF TypeOK
<1>2. QED BY <1>1

-----------------------------------------------------------------------------
(* Short files come back *)

\* How long the Linux file is that is copied, or was once; how much of it has
\* been read, and how much of that has been passed on.
Total == IF job.src = Linux THEN job.total ELSE origin[job.src]
Sent  == IF job.src = Linux THEN job.pos ELSE Ahead(fcb["src"])
Done  ==
  IF pc \in {"close", "close dst"} THEN Total
  ELSE IF pc \in {"write", "store"} /\ buf.count > 0 THEN Sent - buf.count
  ELSE Sent

\* A command that copies a file of at most one block, and not to itself.
Short == pc # "prompt" /\ Total \in 0 .. BlockSize /\ job.src # job.dst

\* The first n bytes of the Linux file, at the start of a block or a buffer.
Begins(cells, n) == \A k \in 1 .. n : cells[k] = k
Holds(f, n) == n > 0 => blocks[f] # <<>> /\ Begins(data[blocks[f][1]], n)

\* A file that is not there is empty, so that one a command creates begins with
\* its bytes; and a file that was filled is what it was filled with.
Settled ==
  /\ origin \in [Files -> Int]
  /\ fcb["dst"] # NoFcb => job.dst \in exists
  /\ \A f \in Files \ exists : size[f] = 0 /\ blocks[f] = <<>> /\ origin[f] = Mixed
  /\ \A f \in Files \ {job.dst} :
       Filled(f) => Granted(f) /\ size[f] = origin[f] /\ Holds(f, origin[f])

\* The descriptor such a command reads is in the first block, at which
\* next_block arrives once more when it has been read to its end.
Reader(s) ==
  /\ s.size = Total /\ s.arr = blocks[s.file]
  /\ s.current = IF s.arr = <<>> THEN 0 ELSE s.arr[1]
  /\ \/ s.block_idx = 0 /\ s.idx <= Total /\ s.idx < BlockSize
     \/ s.block_idx = 1 /\ s.idx = 0 /\ Total = BlockSize

\* The bytes in the buffer are the ones that were read last: a full chunk, also
\* when no read has got any since, or the last of all.
Passing ==
  /\ Len(buf.bytes) <= Sent
  /\ \A k \in 1 .. Len(buf.bytes) : buf.bytes[k] = Sent - Len(buf.bytes) + k
  /\ buf.count <= job.chunk /\ (buf.count # job.chunk => Sent = Total)
  /\ buf.count = -1 => Len(buf.bytes) = job.chunk
  /\ buf.count = 0 /\ job.src \in Files => Total = 0

\* What has been passed on, as long as there may be more, is full chunks.
Chunks == \E q \in Nat : Done = q * job.chunk

\* The descriptor such a command writes stands behind what has been passed on,
\* in the first block until that is full.
Writer(d) ==
  /\ d.size = Done
  /\ Done = 0 =>
       /\ d.idx = 0
       /\ IF pc = "store" /\ buf.count > 0
            THEN d.block_idx = 1 /\ d.arr # <<>> /\ d.current = d.arr[1]
            ELSE d.block_idx = 0 /\ d.arr = <<>> /\ d.current = 0
  /\ Done \in 1 .. BlockSize - 1 =>
       d.block_idx = 1 /\ d.arr # <<>> /\ d.current = d.arr[1] /\ d.idx = Done /\ Begins(d.buf, Done)
  /\ Done = BlockSize => d.idx = 0
  /\ Holds(d.file, Done)

\* A command that fills a file: no request of it has been refused, and no read
\* of it fails, because it has ended with the last short one.
Filling ==
  /\ Short /\ origin[job.dst] = Total
  /\ IsOpen("dst") /\ Granted(job.dst)
  /\ job.src \in Files => Whole(Total)
  /\ pc \in {"write", "store", "record"} => buf.count >= 0
  /\ pc # "record" => size[job.dst] = Done
  /\ Writer(fcb["dst"])

\* What holds of a command that copies a short file, wherever it is.
Feeding ==
  /\ pc # "close dst" => Sent <= Total
  /\ job.src = Linux => job.chunk = Chunk
  /\ job.src \in Files /\ pc # "close dst" => IsOpen("src") /\ Reader(fcb["src"])
  /\ InLoop /\ (pc = "read" => Sent > 0) => Passing
  /\ pc = "read" /\ Sent > 0 => buf.count = job.chunk
  /\ InLoop /\ (pc = "record" => buf.count = job.chunk) => Chunks
  /\ job.dst = Linux /\ pc # "close dst" =>
       out = Numbers(1, Done) \o IF pc = "close" THEN Reprinted(Total) ELSE <<>>

\* The inductive invariant, of the bytes.
Copying ==
  /\ Settled
  /\ Short => Feeding
  /\ pc # "prompt" /\ job.dst \in Files /\ Filled(job.dst) => Filling

\* The lengths of files and where a command is in them are numbers.
LEMMA Amounts ==
  ASSUME IInv, Settled
  PROVE  /\ Total \in Int
         /\ job.src = Linux \/ IsOpen("src") => Sent \in Nat
         /\ \A f \in Files : origin[f] \in Int
<1>1. job.src \in Files \cup {Linux} /\ job.total \in Int /\ job.pos \in Nat
  BY JobParts DEF IInv
<1>2. \A f \in Files : origin[f] \in Int
  BY DEF Settled
<1>3. ASSUME IsOpen("src") PROVE Ahead(fcb["src"]) \in Nat
  <2>1. fcb["src"] \in Fcb
    BY <1>3, Openness DEF IInv
  <2>2. fcb["src"].block_idx \in Nat /\ fcb["src"].idx \in Nat /\ BlockSize \in Nat
    BY <2>1, Fields, Constants
  <2>3. fcb["src"].block_idx * BlockSize \in Nat
    BY <2>2
  <2>4. QED BY <2>2, <2>3 DEF Ahead
<1>4. QED BY <1>1, <1>2, <1>3 DEF Total, Sent

\* Nothing is written to a destination that was not opened.
LEMMA NothingWritten ==
  ASSUME IInv, Next, job.dst \in Files, fcb["dst"] = NoFcb
  PROVE  size'[job.dst] = size[job.dst] /\ blocks'[job.dst] = blocks[job.dst]
<1>1. ~IsOpen("dst") /\ ~HalfOpen /\ pc # "record"
  BY Blank DEF IsOpen, HalfOpen, IInv, Phases
<1>2. CASE Step
  BY <1>1, <1>2 DEF Step, b_write, ReadLinux, ReadFile, WriteLinux, WriteNowhere, Extend,
     ExtendHalfOpen, FailToReallocate, Store, StoreHalfOpen, Record, DieInWrite, DieInClose, Died,
     CloseSrc, CloseDst, disk
<1>3. CASE cmd_cp \/ cmd_cp2l \/ cmd_cp2fs \/ cmd_cat \/ Crash
  BY <1>3 DEF cmd_cp, cmd_cp2l, cmd_cp2fs, cmd_cat, Start, Crash, Died, disk
<1>4. QED BY <1>2, <1>3 DEF Next

\* The first block of a file that holds bytes, as a step leaves it.
LEMMA HoldsKept ==
  ASSUME FewCalls, IInv, Next, NEW f \in Files \ {job.dst}, Granted(f), NEW n \in Int, Holds(f, n)
  PROVE  size'[f] = size[f] /\ blocks'[f] = blocks[f] /\ Granted(f)' /\ Holds(f, n)'
<1>1. /\ size'[f] = size[f] /\ blocks'[f] = blocks[f]
      /\ \A b \in Blocks \cap Range(blocks[f]) : data'[b] = data[b]
  BY OthersKept
<1>2. ASSUME n > 0 PROVE blocks[f] # <<>> /\ data'[blocks[f][1]] = data[blocks[f][1]]
  <2>1. blocks[f] # <<>> /\ blocks[f] \in Seq({Refused} \cup Blocks)
    BY <1>2, Typed DEF Holds, IInv
  <2>2. blocks[f][1] \in Range(blocks[f]) /\ blocks[f][1] \in {Refused} \cup Blocks
    BY <2>1, RangeOf
  <2>3. QED BY <1>1, <2>1, <2>2 DEF Granted
<1>3. QED BY <1>1, <1>2 DEF Holds, Begins, Granted

\* Files that are not the destination stay as they were filled.
LEMMA SettledKept ==
  ASSUME FewCalls, IInv, Settled, Next, exists' = exists, job'.dst = job.dst,
         fcb'["dst"] # NoFcb => fcb["dst"] # NoFcb,
         origin' = origin \/ (fcb["dst"] # NoFcb /\ origin' = [origin EXCEPT ![job.dst] = Mixed])
  PROVE  Settled'
<1>1. /\ Linux \notin Files /\ exists \subseteq Files /\ job.dst \in Files \cup {Linux}
      /\ fcb["dst"] # NoFcb => job.dst \in exists
      /\ origin \in [Files -> Int] /\ Mixed \in Int
  <2>1. TypeOK /\ exists \subseteq Files /\ Linux \notin Files
    BY Constants DEF IInv, TypeOK
  <2>2. job.dst \in Files \cup {Linux}
    BY <2>1, JobParts
  <2>3. QED BY <2>1, <2>2 DEF Settled, Mixed
<1>2. /\ origin' \in [Files -> Int]
      /\ \A f \in Files : f # job.dst \/ fcb["dst"] = NoFcb => origin'[f] = origin[f]
  BY <1>1
<1>3. ASSUME NEW f \in Files \ exists
      PROVE  size'[f] = 0 /\ blocks'[f] = <<>> /\ origin'[f] = Mixed
  <2>1. size[f] = 0 /\ blocks[f] = <<>> /\ origin[f] = Mixed
    BY <1>3 DEF Settled
  <2>2. CASE f # job.dst
    BY <1>2, <1>3, <2>1, <2>2, OthersKept
  <2>3. CASE f = job.dst
    <3>1. fcb["dst"] = NoFcb
      BY <1>1, <1>3, <2>3
    <3>2. QED BY <1>2, <1>3, <2>1, <2>3, <3>1, NothingWritten
  <2>4. QED BY <2>2, <2>3
<1>4. ASSUME NEW f \in Files \ {job.dst}, Filled(f)'
      PROVE  Granted(f)' /\ size'[f] = origin'[f] /\ Holds(f, origin[f])'
  <2>1. origin'[f] = origin[f] /\ origin[f] \in Int
    BY <1>1, <1>2, <1>4
  <2>2. Granted(f) /\ size[f] = origin[f] /\ Holds(f, origin[f])
    BY <1>4, <2>1 DEF Settled, Filled
  <2>3. /\ size'[f] = size[f] /\ blocks'[f] = blocks[f] /\ Granted(f)'
        /\ \A n \in {origin[f]} : Holds(f, n)'
    BY <1>4, <2>1, <2>2, HoldsKept
  <2>4. QED BY <2>1, <2>2, <2>3 DEF Holds
<1>5. fcb'["dst"] # NoFcb => job'.dst \in exists'
  BY <1>1
<1>6. QED BY <1>2, <1>3, <1>4, <1>5 DEF Settled

\* A multiple of the chunk, one more chunk, and less than one more.
LEMMA OneMoreChunk ==
  ASSUME NEW c \in Nat, c >= 1, NEW q \in Nat, NEW n, n = q * c
  PROVE  /\ n + c = (q + 1) * c /\ n \in Nat
         /\ n % c = 0
         /\ \A m \in 1 .. c - 1 : (n + m) % c # 0
<1>1. n + c = (q + 1) * c /\ n \in Nat
  OBVIOUS
<1>2. ASSUME NEW m \in 0 .. c - 1 PROVE (n + m) % c = m
  <2> DEFINE r == (n + m) % c
             d == (n + m) \div c
  <2>1. r \in 0 .. c - 1 /\ d \in Int /\ n + m = (c * d) + r
    BY <1>1
  <2> HIDE DEF r, d
  <2>2. (q - d) * c = r - m
    BY <1>1, <2>1
  <2>3. CASE q - d >= 1
    <3>1. (q - d) * c >= c
      BY <1>1, <2>1, <2>3
    <3>2. QED BY <1>1, <2>1, <2>2, <3>1
  <2>4. CASE q - d <= -1
    <3>1. (q - d) * c <= -c
      BY <1>1, <2>1, <2>4
    <3>2. QED BY <1>1, <2>1, <2>2, <3>1
  <2>5. CASE q - d = 0
    <3>1. (q - d) * c = 0
      BY <1>1, <2>5
    <3>2. r = m
      BY <2>1, <2>2, <3>1
    <3>3. QED BY <3>2 DEF r
  <2>6. q - d \in Int
    BY <2>1
  <2>7. QED BY <2>3, <2>4, <2>5, <2>6
<1>3. n % c = 0
  <2>1. (n + 0) % c = 0 /\ n + 0 = n
    BY <1>1, <1>2
  <2>2. QED BY <2>1
<1>4. ASSUME NEW m \in 1 .. c - 1 PROVE (n + m) % c # 0
  <2>1. m \in 0 .. c - 1 /\ m # 0
    OBVIOUS
  <2>2. QED BY <1>2, <2>1
<1>5. QED BY <1>1, <1>3, <1>4

\* Where a descriptor is that reads a file of n bytes, at most one block.
At(c, n) ==
  \/ c.block_idx = 0 /\ c.idx <= n /\ c.idx < BlockSize
  \/ c.block_idx = 1 /\ c.idx = 0 /\ n = BlockSize

\* How far that is.
LEMMA AheadOf ==
  ASSUME NEW c \in Fcb, NEW n \in 0 .. BlockSize, At(c, n)
  PROVE  /\ Ahead(c) \in 0 .. n
         /\ Ahead(c) < n => c.block_idx = 0 /\ c.idx = Ahead(c)
         /\ c.block_idx = 0 => Ahead(c) = c.idx
         /\ c.block_idx = 1 => Ahead(c) = BlockSize
<1>1. BlockSize \in Nat /\ c.idx \in Nat
  BY Constants, Fields
<1>2. 0 * BlockSize = 0 /\ 1 * BlockSize = BlockSize
  BY <1>1
<1>3. CASE c.block_idx = 0 /\ c.idx <= n
  <2>1. Ahead(c) = c.idx
    BY <1>1, <1>2, <1>3 DEF Ahead
  <2>2. QED BY <1>1, <1>3, <2>1
<1>4. CASE c.block_idx = 1 /\ c.idx = 0 /\ n = BlockSize
  <2>1. Ahead(c) = BlockSize
    BY <1>1, <1>2, <1>4 DEF Ahead
  <2>2. QED BY <1>1, <1>4, <2>1
<1>5. QED BY <1>3, <1>4 DEF At

\* The copying part of a read of such a file: no more than it asks for, and
\* the bytes are those behind the ones read before.
LEMMA DeliveringShort ==
  ASSUME data \in [Blocks -> [1 .. BlockSize -> Cell]],
         NEW c \in Fcb, NEW n \in 1 .. BlockSize, At(c, n), c.arr # <<>>, c.arr[1] \in Blocks,
         c.current = c.arr[1], c.buf = data[c.arr[1]], Begins(data[c.arr[1]], n),
         NEW count \in Nat, count >= 1, Ahead(c) + count <= n,
         NEW r, r = Delivered(c, count)
  PROVE  /\ r.count = count /\ r.bytes \in Seq(Cell) /\ Len(r.bytes) = count
         /\ \A k \in 1 .. count : r.bytes[k] = Ahead(c) + k
         /\ r.fcb \in Fcb /\ r.fcb.file = c.file /\ r.fcb.size = c.size /\ r.fcb.arr = c.arr
         /\ r.fcb.current = c.arr[1]
         /\ At(r.fcb, n) /\ Ahead(r.fcb) = Ahead(c) + count
<1> DEFINE part1 == Smaller(count, BlockSize - c.idx)
           part3 == count - part1
           head  == SubSeq(c.buf, c.idx + 1, c.idx + part1)
           moved == [c EXCEPT !.idx = @ + part1]
           c1    == IF moved.idx >= BlockSize THEN next_block(moved, data) ELSE moved
           rest  == SubSeq(c1.buf, c1.idx + 1, c1.idx + part3)
           done  == [c1 EXCEPT !.idx = @ + part3]
<1>1. /\ BlockSize \in Nat /\ c.idx \in Nat /\ c.arr \in Seq({Refused} \cup Blocks) /\ c.block_idx \in Nat
      /\ c.buf \in [1 .. BlockSize -> Cell]
  BY Constants, Fields
<1>0. Len(c.arr) \in Nat /\ 0 < Len(c.arr)
  BY <1>1
<1>2. /\ c.block_idx = 0 /\ c.idx = Ahead(c) /\ c.idx + count <= n /\ c.idx + count <= BlockSize
      /\ c.idx < BlockSize
  <2>1. Ahead(c) \in 0 .. n /\ Ahead(c) < n
    BY AheadOf
  <2>2. c.block_idx = 0 /\ c.idx = Ahead(c)
    BY <2>1, AheadOf
  <2>3. QED BY <1>1, <2>2
<1>3. r = IF moved.idx >= BlockSize /\ c1.current \notin Blocks
            THEN [count |-> 1, bytes |-> SubSeq(head, 1, 1), fcb |-> c1]
            ELSE [count |-> count, bytes |-> head \o rest, fcb |-> done]
  BY DEF Delivered
<1>4. part1 = count /\ part3 = 0
  BY <1>1, <1>2 DEF Smaller
<1> HIDE DEF part1, part3
<1>5. /\ head \in Seq(Cell) /\ Len(head) = count
      /\ \A k \in 1 .. count : head[k] = Ahead(c) + k
  <2>1. /\ head \in Seq(Cell) /\ Len(head) = count
        /\ \A k \in 1 .. count : head[k] = c.buf[c.idx + k]
    <3>1. head = SubSeq(c.buf, c.idx + 1, c.idx + count)
      BY <1>4
    <3>2. c.buf \in [1 .. BlockSize -> Cell] /\ c.idx \in Nat /\ count \in Nat /\ c.idx + count <= BlockSize
      BY <1>1, <1>2
    <3> HIDE DEF head
    <3>3. QED BY ONLY <3>1, <3>2, Piece
  <2>2. ASSUME NEW k \in 1 .. count PROVE c.buf[c.idx + k] = Ahead(c) + k
    <3>1. c.idx + k \in 1 .. n
      BY <1>1, <1>2, <2>2
    <3>2. QED BY <1>2, <3>1 DEF Begins
  <2>3. QED BY <2>1, <2>2
<1>6. /\ moved \in Fcb /\ moved.idx = c.idx + count
      /\ moved.file = c.file /\ moved.size = c.size /\ moved.arr = c.arr
      /\ moved.block_idx = 0 /\ moved.current = c.arr[1] /\ moved.buf = c.buf
  <2>1. c.idx + part1 \in 0 .. BlockSize
    BY <1>1, <1>2, <1>4
  <2>2. QED BY <1>2, <1>4, <2>1, Moved
<1>7. c.idx + count < BlockSize => c1 = moved
  BY <1>1, <1>2, <1>6
<1>8. c.idx + count >= BlockSize => c1 = next_block(moved, data)
  BY <1>1, <1>2, <1>6
<1> HIDE DEF head, moved, c1
<1>9. /\ c1 \in Fcb /\ c1.file = c.file /\ c1.size = c.size /\ c1.arr = c.arr
      /\ c1.current = c.arr[1]
      /\ \/ c1.block_idx = 0 /\ c1.idx = c.idx + count /\ c.idx + count < BlockSize
         \/ c1.block_idx = 1 /\ c1.idx = 0 /\ c.idx + count = BlockSize
  <2>1. CASE c.idx + count < BlockSize
    BY <1>6, <1>7, <2>1
  <2>2. CASE c.idx + count = BlockSize
    <3>1. c1 = next_block(moved, data)
      BY <1>1, <1>8, <2>2
    <3>3. moved.block_idx <= Len(moved.arr)
      BY <1>0, <1>6
    <3>4. /\ c1 \in Fcb
          /\ c1.file = moved.file /\ c1.size = moved.size /\ c1.arr = moved.arr
          /\ c1.block_idx = moved.block_idx + 1
          /\ moved.block_idx < Len(moved.arr) =>
               c1.current = moved.arr[moved.block_idx + 1]
          /\ c1.current \in Blocks => c1.idx = 0
      BY <1>6, <3>1, <3>3, NextBlock
    <3>5. c1.current = c.arr[1]
      <4>1. moved.block_idx = 0 /\ moved.arr = c.arr /\ 0 + 1 = 1
        BY <1>6
      <4>2. QED BY <1>0, <3>4, <4>1
    <3>6. c1.idx = 0 /\ c1.block_idx = 1
      BY <1>6, <3>4, <3>5
    <3>7. QED BY <1>6, <2>2, <3>4, <3>5, <3>6
  <2>3. c.idx + count < BlockSize \/ c.idx + count = BlockSize
    <3> DEFINE m == c.idx + count
    <3>1. m \in Nat /\ m <= BlockSize /\ BlockSize \in Nat
      BY <1>1, <1>2
    <3> HIDE DEF m
    <3>2. m < BlockSize \/ m = BlockSize
      BY <3>1
    <3>3. QED BY <3>2 DEF m
  <2>4. QED BY <2>1, <2>2, <2>3
<1>10. c1.idx \in Nat /\ c1.idx <= BlockSize /\ c1.buf \in [1 .. BlockSize -> Cell]
  BY <1>9, Fields
<1>11. rest = <<>>
  <2>1. rest \in Seq(Cell) /\ Len(rest) = 0
    <3>1. 0 \in Nat /\ c1.idx + 0 <= BlockSize
      BY <1>1, <1>10
    <3>2. QED BY <1>4, <1>10, <3>1, Piece
  <2>2. QED BY <2>1
<1>12. /\ done \in Fcb /\ done.idx = c1.idx /\ done.file = c.file /\ done.size = c.size
       /\ done.arr = c.arr /\ done.current = c.arr[1] /\ done.block_idx = c1.block_idx
  <2>1. c1.idx + part3 \in 0 .. BlockSize /\ c1.idx + part3 = c1.idx
    BY <1>1, <1>4, <1>10
  <2>2. QED BY <1>9, <2>1, Moved
<1>13. r.count = count /\ r.bytes = head /\ r.fcb = done
  <2>1. c1.current \in Blocks
    BY <1>9
  <2>2. r = [count |-> count, bytes |-> head \o rest, fcb |-> done]
    BY <1>3, <2>1
  <2>3. head \o rest = head
    BY <1>5, <1>11, ConcatEmptySeq
  <2> HIDE DEF rest, done
  <2>4. QED BY <2>2, <2>3
<1> HIDE DEF done
<1>14. At(done, n) /\ Ahead(done) = Ahead(c) + count
  <2>1. At(done, n)
    BY <1>1, <1>2, <1>9, <1>12 DEF At
  <2>2. n \in 0 .. BlockSize
    BY <1>1
  <2>3. QED BY <1>1, <1>2, <1>9, <1>12, <2>1, <2>2, AheadOf
<1>15. QED BY <1>5, <1>12, <1>13, <1>14

\* A read of a file of at most a block, when its descriptor is in shape.
LEMMA ReadingShort ==
  ASSUME data \in [Blocks -> [1 .. BlockSize -> Cell]],
         NEW c \in Fcb, c.size <= BlockSize, At(c, c.size),
         c.current = IF c.arr = <<>> THEN 0 ELSE c.arr[1],
         c.size > 0 => c.arr # <<>> /\ c.arr[1] \in Blocks /\ c.buf = data[c.arr[1]] /\ Begins(data[c.arr[1]], c.size),
         NEW n \in 1 .. BlockSize - 1, NEW r, r = b_read(c, n)
  PROVE  /\ r.count \in -1 .. n /\ r.bytes \in Seq(Cell)
         /\ Len(r.bytes) = IF r.count > 0 THEN r.count ELSE 0
         /\ r.count = -1 => r.bytes = <<>> /\ Ahead(c) = c.size /\ c.size > 0
         /\ r.count = 0 => c.size = 0
         /\ \A k \in 1 .. Len(r.bytes) : r.bytes[k] = Ahead(c) + k
         /\ r.fcb \in Fcb /\ r.fcb.file = c.file /\ r.fcb.size = c.size /\ r.fcb.arr = c.arr
         /\ r.fcb.current = c.current
         /\ At(r.fcb, c.size) /\ Ahead(r.fcb) = Ahead(c) + Len(r.bytes)
         /\ r.count # n => Ahead(r.fcb) = c.size
<1> DEFINE N == c.size
           P == Ahead(c)
<1>1. BlockSize \in Nat /\ N \in 0 .. BlockSize /\ P \in 0 .. N /\ n \in Nat /\ n >= 1
  BY Constants, Fields, AheadOf
<1>2. CASE N = 0
  <2>1. r = [count |-> 0, bytes |-> <<>>, fcb |-> c] /\ P = 0
    BY <1>1, <1>2 DEF b_read
  <2>2. QED BY <1>1, <1>2, <2>1
<1>3. CASE N # 0 /\ P >= N
  <2>1. r = [count |-> -1, bytes |-> <<>>, fcb |-> c] /\ P = N
    BY <1>1, <1>3 DEF b_read
  <2>2. QED BY <1>1, <1>3, <2>1
<1>4. CASE N # 0 /\ ~(P >= N)
  <2> DEFINE count == Smaller(n, N - P)
  <2>1. r = Delivered(c, count)
    BY <1>4 DEF b_read
  <2>2. count \in Nat /\ count >= 1 /\ count <= n /\ P + count <= N /\ (count # n => P + count = N)
    <3>1. P \in Nat /\ N \in Nat /\ P < N /\ n \in Nat /\ n >= 1
      BY <1>1, <1>4
    <3> HIDE DEF P, N
    <3>2. QED BY ONLY <3>1 DEF Smaller
  <2> HIDE DEF count, P
  <2>3. N \in 1 .. BlockSize /\ N > 0
    BY <1>1, <1>4
  <2>4. /\ r.count = count /\ r.bytes \in Seq(Cell) /\ Len(r.bytes) = count
        /\ \A k \in 1 .. count : r.bytes[k] = P + k
        /\ r.fcb \in Fcb /\ r.fcb.file = c.file /\ r.fcb.size = c.size /\ r.fcb.arr = c.arr
        /\ r.fcb.current = c.arr[1]
        /\ At(r.fcb, N) /\ Ahead(r.fcb) = P + count
    BY <2>1, <2>2, <2>3, DeliveringShort DEF P
  <2>5. c.current = c.arr[1]
    BY <2>3
  <2> HIDE DEF N
  <2>6. QED BY <1>1, <2>2, <2>4, <2>5 DEF N, P
<1>5. QED BY <1>2, <1>3, <1>4

\* A block is counted well below the limit of a size.
LEMMA BlockCounts ==
  ASSUME NEW n \in 0 .. BlockSize
  PROVE  n % SizeLimit = n
<1>1. /\ MaxExtents \in Nat \ {0} /\ BlockSize \in Nat /\ SizeLimit \in Nat
      /\ MaxExtents * BlockSize < SizeLimit
  BY FileIOAssumption
<1>2. MaxExtents * BlockSize >= BlockSize
  BY <1>1
<1>3. n \in 0 .. SizeLimit - 1 /\ n \in Int
  BY <1>1, <1>2
<1>4. QED BY <1>3, Modulo

\* Bytes that follow the ones in a buffer, copied behind them.
LEMMA FillBegins ==
  ASSUME NEW cells \in [1 .. BlockSize -> Cell], NEW w \in Nat, NEW n \in Nat,
         NEW bytes \in Seq(Cell), Len(bytes) = n, w + n <= BlockSize,
         Begins(cells, w), \A k \in 1 .. n : bytes[k] = w + k
  PROVE  Begins(Fill(cells, w, bytes), w + n)
<1>1. BlockSize \in Nat /\ DOMAIN bytes = 1 .. n
  BY Constants
<1>2. ASSUME NEW k \in 1 .. w + n PROVE Fill(cells, w, bytes)[k] = k
  <2>1. k \in 1 .. BlockSize
    BY <1>1, <1>2
  <2>2. Fill(cells, w, bytes)[k] = IF k - w \in 1 .. n THEN bytes[k - w] ELSE cells[k]
    BY <1>1, <2>1 DEF Fill
  <2>3. CASE k <= w
    <3>1. k \in 1 .. w /\ ~(k - w \in 1 .. n)
      BY <1>2, <2>3
    <3>2. QED BY <2>2, <3>1 DEF Begins
  <2>4. CASE k > w
    <3>1. k - w \in 1 .. n /\ w + (k - w) = k
      BY <1>2, <2>4
    <3>2. QED BY <2>2, <3>1
  <2>5. QED BY <1>2, <2>3, <2>4
<1>3. QED BY <1>2 DEF Begins

\* What b_write leaves when it has brought the bytes in the first block to m.
FirstBlock(c, m, s) ==
  /\ s.ok /\ s.fcb \in Fcb /\ s.fcb.size = m
  /\ s.fcb.file = c.file /\ s.fcb.arr = c.arr
  /\ Begins(s.data[c.arr[1]], m)
  /\ m < BlockSize =>
       /\ s.fcb.block_idx = 1 /\ s.fcb.current = c.arr[1] /\ s.fcb.idx = m
       /\ Begins(s.fcb.buf, m)
  /\ m = BlockSize => s.fcb.idx = 0

\* b_write of the bytes that follow, to the first block of a file.
LEMMA StoringShort ==
  ASSUME data \in [Blocks -> [1 .. BlockSize -> Cell]],
         NEW c \in Fcb, NEW w \in Nat, NEW n \in 1 .. Chunk, w + n <= BlockSize,
         NEW bytes \in Seq(Cell), Len(bytes) = n, \A k \in 1 .. n : bytes[k] = w + k,
         c.size = w, c.idx = w, c.arr # <<>>, c.current = c.arr[1], c.block_idx = 1,
         Begins(c.buf, w), Behind(c, Len(c.arr)), Refused \notin Range(c.arr),
         NEW s, s = Stored(c, n, bytes)
  PROVE  FirstBlock(c, w + n, s)
<1>1. /\ BlockSize \in Nat /\ n \in Nat /\ n >= 1 /\ c.arr \in Seq({Refused} \cup Blocks)
      /\ c.buf \in [1 .. BlockSize -> Cell]
  BY Constants, Fields
<1>2. c.arr[1] \in Blocks /\ c.current \in Range(c.arr) /\ c.current # 0 /\ c.current \in Blocks
  <2>1. Len(c.arr) >= 1
    BY <1>1
  <2>2. c.arr[1] \in {Refused} \cup Blocks /\ c.arr[1] \in Range(c.arr)
    BY <1>1, <2>1, RangeOf
  <2>3. QED BY <2>2, NoBlock
<1>3. c.idx < BlockSize /\ (c.idx > 0 => c.size # 0)
  BY <1>1
<1>4. StoresBytes(c, n, s) /\ WithinBlock(c, n, bytes, s)
  BY <1>2, <1>3, StoringBytes
<1>5. /\ s.ok /\ s.fcb \in Fcb /\ s.fcb.size = (c.size + n) % SizeLimit
       /\ s.fcb.file = c.file /\ s.fcb.arr = c.arr
  BY <1>3, <1>4 DEF StoresBytes
<1>6. s.fcb.size = w + n
  <2>1. w + n \in 0 .. BlockSize
    BY <1>1
  <2>2. (w + n) % SizeLimit = w + n
    BY <2>1, BlockCounts
  <2>3. QED BY <1>5, <2>2
<1>7. Begins(Fill(c.buf, w, bytes), w + n)
  BY <1>1, FillBegins
<1>8. Begins(s.data[c.arr[1]], w + n)
  <2>1. s.data = LBAwrite(data, c.current, Fill(c.buf, w, bytes))
    BY <1>4 DEF WithinBlock
  <2>2. s.data[c.arr[1]] = Fill(c.buf, w, bytes)
    <3>1. Fill(c.buf, w, bytes) \in [1 .. BlockSize -> Cell]
      BY <1>1, FillType
    <3>2. QED BY <1>2, <2>1, <3>1, WrittenTo
  <2>3. QED BY <1>7, <2>2
<1>9. ASSUME w + n < BlockSize
      PROVE  /\ s.fcb.block_idx = 1 /\ s.fcb.current = c.arr[1] /\ s.fcb.idx = w + n
             /\ Begins(s.fcb.buf, w + n)
  <2>1. /\ s.fcb.block_idx = 1 /\ s.fcb.idx = w + n
        /\ s.fcb.current = c.arr[1] /\ s.fcb.buf = Fill(c.buf, w, bytes)
    BY <1>4, <1>9 DEF WithinBlock
  <2>2. QED BY <1>7, <2>1
<1>10. w + n = BlockSize => s.fcb.idx = 0
  BY <1>4, <1>5 DEF WithinBlock
<1>12. QED BY <1>5, <1>6, <1>8, <1>9, <1>10 DEF FirstBlock

\* The first numbers.
LEMMA FirstNumbers ==
  ASSUME NEW n \in Nat
  PROVE  /\ Numbers(1, n) = [k \in 1 .. n |-> k]
         /\ Numbers(1, n) \in Seq(Nat) /\ Len(Numbers(1, n)) = n
         /\ Numbers(1, n) \o <<>> = Numbers(1, n)
<1>1. Numbers(1, n) = [k \in 1 .. n |-> k]
  <2>1. n - 1 + 1 = n /\ \A k \in 1 .. n : 1 + k - 1 = k
    OBVIOUS
  <2>2. QED BY <2>1 DEF Numbers
<1>2. Numbers(1, n) \in Seq(Nat) /\ Len(Numbers(1, n)) = n
  BY <1>1
<1>3. QED BY <1>1, <1>2, ConcatEmptySeq

\* Opening a file none of whose requests was refused.
LEMMA OpeningGranted ==
  ASSUME TypeOK, NEW f \in Files, Granted(f), NEW c, c = b_open(f)
  PROVE  /\ c \in Fcb /\ c # NoFcb /\ c # Stray
         /\ c.file = f /\ c.size = size[f] /\ c.arr = blocks[f] /\ c.block_idx = 0 /\ c.idx = 0
         /\ c.current = IF blocks[f] = <<>> THEN 0 ELSE blocks[f][1]
<1> DEFINE first == IF blocks[f] = <<>> THEN 0 ELSE blocks[f][1]
           cells == IF first = 0 THEN [k \in 1 .. BlockSize |-> Junk] ELSE data[first]
<1>1. first # Refused
  <2>1. CASE blocks[f] = <<>>
    BY <2>1, NoBlock
  <2>2. CASE blocks[f] # <<>>
    <3>1. blocks[f] \in Seq({Refused} \cup Blocks)
      BY Typed
    <3>2. blocks[f][1] \in Range(blocks[f])
      BY <2>2, <3>1, RangeOf
    <3>3. QED BY <2>2, <3>2 DEF Granted
  <2>3. QED BY <2>1, <2>2
<1>2. c = [file |-> f, size |-> size[f], arr |-> blocks[f],
           block_idx |-> 0, current |-> first, idx |-> 0, buf |-> cells]
  BY <1>1 DEF b_open
<1> HIDE DEF first, cells
<1>3. /\ c.file = f /\ c.size = size[f] /\ c.arr = blocks[f] /\ c.block_idx = 0 /\ c.idx = 0
      /\ c.current = first
  BY <1>2
<1>4. c # Stray
  <2>1. DOMAIN Stray = {"file"} /\ "size" \in DOMAIN c
    BY <1>2 DEF Stray
  <2>2. QED BY <2>1
<1>5. c \in Fcb /\ c # NoFcb
  BY <1>4, Opening, Blank
<1>6. QED BY <1>3, <1>4, <1>5 DEF first

\* The origins when a command has begun.
Origins(src, dst, total, created) ==
  [f \in Files |->
     CASE f \notin {dst} \cap exists'                          -> origin[f]
       [] f \in created /\ src = Linux                         -> total
       [] f \in created /\ src \in exists /\ Whole(origin[src]) -> origin[src]
       [] OTHER                                               -> Mixed]

\* What a command that begins does to the origins: only a file it creates has
\* one, the Linux file's length or its source's.
LEMMA StartsFilling ==
  ASSUME IInv, Settled, pc = "prompt", NEW src \in Files \cup {Linux}, NEW dst \in Files \cup {Linux},
         NEW total \in Int, NEW created \in SUBSET ({dst} \ (exists \cup {Linux})),
         exists' = exists \cup created,
         origin' = Origins(src, dst, total, created)
  PROVE  /\ origin' \in [Files -> Int]
         /\ \A f \in Files : f # dst => origin'[f] = origin[f]
         /\ \A f \in Files \ exists' : origin'[f] = Mixed
         /\ dst \in Files /\ origin'[dst] # Mixed =>
              /\ dst \in exists' /\ dst \notin exists
              /\ \/ src = Linux /\ origin'[dst] = total
                 \/ src \in exists /\ src # dst /\ Whole(origin[src]) /\ origin'[dst] = origin[src]
<1>1. origin \in [Files -> Int] /\ Linux \notin Files /\ exists \subseteq Files /\ Mixed \in Int
  <2>1. Linux \notin Files /\ exists \subseteq Files
    BY Constants DEF IInv, TypeOK
  <2>2. QED BY <2>1 DEF Settled, Mixed
<1>0. origin' =
        [f \in Files |->
           CASE f \notin {dst} \cap exists'                          -> origin[f]
             [] f \in created /\ src = Linux                         -> total
             [] f \in created /\ src \in exists /\ Whole(origin[src]) -> origin[src]
             [] OTHER                                               -> Mixed]
  BY DEF Origins
<1>2. \A f \in Files : f # dst => origin'[f] = origin[f]
  <2>1. ASSUME NEW f \in Files, f # dst PROVE f \notin {dst} \cap exists'
    BY <2>1
  <2>2. QED BY <1>0, <2>1
<1>3. ASSUME dst \in Files
      PROVE  \/ dst \notin exists' /\ origin'[dst] = origin[dst]
             \/ dst \in exists' \ exists /\ src = Linux /\ origin'[dst] = total
             \/ /\ dst \in exists' \ exists /\ src \in exists /\ src # dst
                /\ Whole(origin[src]) /\ origin'[dst] = origin[src]
             \/ dst \in exists' /\ origin'[dst] = Mixed
  <2>1. CASE dst \notin exists'
    BY <1>0, <1>3, <2>1
  <2>2. CASE dst \in exists' /\ dst \in created
    <3>1. ~(dst \notin {dst} \cap exists') /\ dst \notin exists
      BY <2>2
    <3>2. CASE src = Linux
      BY <1>0, <1>3, <2>2, <3>1, <3>2
    <3>3. CASE src # Linux /\ src \in exists /\ Whole(origin[src])
      BY <1>0, <1>3, <2>2, <3>1, <3>3
    <3>4. CASE src # Linux /\ ~(src \in exists /\ Whole(origin[src]))
      BY <1>0, <1>3, <2>2, <3>1, <3>4
    <3>5. QED BY <3>2, <3>3, <3>4
  <2>3. CASE dst \in exists' /\ dst \notin created
    BY <1>0, <1>3, <2>3
  <2>4. QED BY <2>1, <2>2, <2>3
<1>4. ASSUME NEW f \in Files PROVE origin'[f] \in Int
  <2>1. src \in exists => origin[src] \in Int
    BY <1>1
  <2>2. QED BY <1>1, <1>2, <1>3, <1>4, <2>1
<1>5. origin' \in [Files -> Int]
  <2>1. origin' = [f \in Files |-> origin'[f]]
    BY <1>0
  <2>2. QED BY <1>4, <2>1
<1>6. ASSUME NEW f \in Files \ exists' PROVE origin'[f] = Mixed
  <2>1. f \notin exists
    OBVIOUS
  <2>2. origin[f] = Mixed
    BY <2>1 DEF Settled
  <2>3. QED BY <1>2, <1>3, <2>2
<1>7. dst \in Files /\ origin'[dst] # Mixed =>
        /\ dst \in exists' /\ dst \notin exists
        /\ \/ src = Linux /\ origin'[dst] = total
           \/ src \in exists /\ src # dst /\ Whole(origin[src]) /\ origin'[dst] = origin[src]
  <2>1. SUFFICES ASSUME dst \in Files, origin'[dst] # Mixed
                 PROVE  /\ dst \in exists' /\ dst \notin exists
                        /\ \/ src = Linux /\ origin'[dst] = total
                           \/ /\ src \in exists /\ src # dst /\ Whole(origin[src])
                              /\ origin'[dst] = origin[src]
    OBVIOUS
  <2>2. dst \in exists'
    BY <1>6, <2>1
  <2>3. QED BY <1>3, <2>1, <2>2
<1>8. QED BY <1>2, <1>5, <1>6, <1>7

\* A command begins: with the source at its start, and what it has created
\* empty.
LEMMA StartCopies ==
  ASSUME FewCalls, IInv, IInv', Copying,
         NEW src \in Files \cup {Linux}, NEW dst \in Files \cup {Linux},
         NEW chunk \in {Chunk - 1, Chunk}, NEW total \in {-1} \cup Nat,
         src = Linux => chunk = Chunk /\ dst \in Files, Start(src, dst, chunk, total)
  PROVE  Copying'
<1>1. /\ pc = "prompt" /\ job = NoJob /\ TypeOK /\ Settled
      /\ exists \subseteq Files /\ Linux \notin Files /\ BlockSize \in Nat
  <2>1. pc = "prompt" /\ TypeOK /\ Phases
    BY DEF Start, IInv
  <2>2. job = NoJob /\ exists \subseteq Files
    BY <2>1 DEF Phases, TypeOK
  <2>3. QED BY <2>1, <2>2, Constants DEF Copying
<1>2. PICK created \in SUBSET ({dst} \ (exists \cup {Linux})) :
        /\ exists' = exists \cup created
        /\ fcb' = [src |-> IF src \in exists THEN b_open(src) ELSE NoFcb,
                   dst |-> IF dst \in exists' THEN b_open(dst) ELSE NoFcb]
        /\ origin' = Origins(src, dst, total, created)
  BY DEF Start, Origins
<1>3. /\ job' = [src |-> src, dst |-> dst, chunk |-> chunk, total |-> total, pos |-> 0]
      /\ pc' = "read" /\ out' = <<>> /\ UNCHANGED <<size, blocks, data, next, buf, crashes>>
  BY DEF Start
<1>4. job.dst = Linux /\ job'.src = src /\ job'.dst = dst /\ job'.chunk = chunk /\ job'.total = total
      /\ job'.pos = 0
  BY <1>1, <1>3 DEF NoJob
<1>5. /\ origin' \in [Files -> Int]
      /\ \A f \in Files : f # dst => origin'[f] = origin[f]
      /\ \A f \in Files \ exists' : origin'[f] = Mixed
      /\ dst \in Files /\ origin'[dst] # Mixed =>
           /\ dst \in exists' /\ dst \notin exists
           /\ \/ src = Linux /\ origin'[dst] = total
              \/ src \in exists /\ src # dst /\ Whole(origin[src]) /\ origin'[dst] = origin[src]
  <2>1. total \in Int
    OBVIOUS
  <2>2. QED BY <1>1, <1>2, <2>1, StartsFilling
<1>6. Settled'
  <2>1. ASSUME NEW f \in Files \ exists'
        PROVE  size'[f] = 0 /\ blocks'[f] = <<>> /\ origin'[f] = Mixed
    <3>1. f \notin exists
      BY <1>2, <2>1
    <3>2. size[f] = 0 /\ blocks[f] = <<>>
      BY <1>1, <2>1, <3>1 DEF Settled
    <3>3. QED BY <1>3, <1>5, <2>1, <3>2
  <2>2. ASSUME NEW f \in Files \ {dst}, Filled(f)'
        PROVE  Granted(f)' /\ size'[f] = origin'[f] /\ Holds(f, origin[f])'
    <3>1. origin'[f] = origin[f]
      BY <1>5, <2>2
    <3>2. Filled(f) /\ f # job.dst
      BY <1>1, <1>4, <2>2, <3>1 DEF Filled
    <3>3. Granted(f) /\ size[f] = origin[f] /\ Holds(f, origin[f])
      BY <1>1, <2>2, <3>2 DEF Settled
    <3>4. QED BY <1>3, <3>1, <3>3 DEF Holds, Begins, Granted
  <2>3. fcb'["dst"] # NoFcb => job'.dst \in exists'
    BY <1>2, <1>4
  <2>4. QED BY <1>4, <1>5, <2>1, <2>2, <2>3 DEF Settled
<1>7. fcb'["src"] = (IF src \in exists THEN b_open(src) ELSE NoFcb)
      /\ fcb'["dst"] = (IF dst \in exists' THEN b_open(dst) ELSE NoFcb)
  BY <1>2
<1>8. Total' = (IF src = Linux THEN total ELSE origin'[src])
  BY <1>4 DEF Total
<1>9. ASSUME Short' PROVE Feeding' /\ Sent' = 0 /\ Done' = 0
  <2>1. Total' \in 0 .. BlockSize /\ src # dst
    BY <1>4, <1>9 DEF Short
  <2>2. ASSUME src \in Files
        PROVE  /\ src \in exists /\ Total' = origin[src] /\ Filled(src) /\ src # job.dst
               /\ Granted(src) /\ size[src] = origin[src]
    <3>1. Total' = origin[src]
      BY <1>1, <1>5, <1>8, <2>1, <2>2
    <3>2. origin[src] # Mixed
      BY <1>1, <2>1, <3>1 DEF Mixed
    <3>3. src \in exists
      BY <1>1, <2>2, <3>2 DEF Settled
    <3>4. Filled(src) /\ src # job.dst
      BY <1>1, <1>4, <2>1, <2>2, <3>1 DEF Filled
    <3>5. QED BY <1>1, <2>2, <3>1, <3>3, <3>4 DEF Settled
  <2>3. ASSUME src \in Files
        PROVE  /\ IsOpen("src")' /\ Reader(fcb["src"])' /\ Ahead(fcb'["src"]) = 0
    <3> DEFINE s == b_open(src)
    <3>1. fcb'["src"] = s
      BY <1>7, <2>2, <2>3
    <3>2. /\ s \in Fcb /\ s # NoFcb /\ s # Stray /\ s.file = src /\ s.size = size[src]
          /\ s.arr = blocks[src] /\ s.block_idx = 0 /\ s.idx = 0
          /\ s.current = IF blocks[src] = <<>> THEN 0 ELSE blocks[src][1]
      BY <1>1, <2>2, <2>3, OpeningGranted
    <3> HIDE DEF s
    <3>4. Ahead(s) = 0
      <4>1. 0 * BlockSize + 0 = 0
        BY <1>1
      <4>2. QED BY <3>2, <4>1 DEF Ahead
    <3>5. s.size = Total' /\ s.idx <= Total' /\ s.idx < BlockSize
      BY <2>1, <2>2, <2>3, <3>2, Constants
    <3>6. Reader(fcb["src"])'
      BY <1>3, <3>1, <3>2, <3>5 DEF Reader
    <3>7. QED BY <3>1, <3>2, <3>4, <3>6 DEF IsOpen
  <2>4. Sent' = 0
    BY <1>1, <1>4, <2>3 DEF Sent
  <2>5. Done' = 0
    BY <1>3, <2>4 DEF Done
  <2>6. out' = Numbers(1, Done') \o <<>>
    <3>1. Numbers(1, 0) = <<>>
      BY DEF Numbers
    <3>2. QED BY <1>3, <2>5, <3>1
  <2>7. Chunks'
    <3>1. chunk \in Int /\ 0 * chunk = 0
      BY Constants
    <3>2. QED BY <1>4, <2>5, <3>1 DEF Chunks
  <2>8. QED BY <1>3, <1>4, <2>1, <2>3, <2>4, <2>5, <2>6, <2>7 DEF Feeding, InLoop
<1>10. ASSUME dst \in Files, Filled(dst)' PROVE Filling'
  <2>1. origin'[dst] \in 0 .. BlockSize /\ origin'[dst] # Mixed
    <3>1. origin'[dst] \in 0 .. BlockSize
      BY <1>10 DEF Filled
    <3>2. QED BY <1>1, <3>1 DEF Mixed
  <2>2. /\ dst \in exists' /\ dst \notin exists /\ src # dst
        /\ Total' = origin'[dst] /\ (src \in Files => Whole(Total'))
    <3>1. dst \in exists' /\ dst \notin exists
      BY <1>5, <1>10, <2>1
    <3>2. CASE src = Linux /\ origin'[dst] = total
      BY <1>1, <1>8, <1>10, <3>1, <3>2
    <3>3. CASE src \in exists /\ src # dst /\ Whole(origin[src]) /\ origin'[dst] = origin[src]
      <4>1. src \in Files /\ src # Linux
        BY <1>1, <3>3
      <4>2. Total' = origin[src]
        BY <1>5, <1>8, <3>3, <4>1
      <4>3. QED BY <3>1, <3>3, <4>1, <4>2
    <3>4. QED BY <1>5, <1>10, <2>1, <3>2, <3>3
  <2>3. Short'
    BY <1>3, <1>4, <2>1, <2>2 DEF Short
  <2>4. Sent' = 0 /\ Done' = 0
    BY <1>9, <2>3
  <2>5. size[dst] = 0 /\ blocks[dst] = <<>> /\ Granted(dst)
    <3>1. size[dst] = 0 /\ blocks[dst] = <<>>
      BY <1>1, <1>10, <2>2 DEF Settled
    <3>2. QED BY <3>1 DEF Granted, Range
  <2>6. IsOpen("dst")' /\ Writer(fcb["dst"])'
    <3> DEFINE d == b_open(dst)
    <3>1. fcb'["dst"] = d
      BY <1>7, <2>2
    <3>2. /\ d # NoFcb /\ d # Stray /\ d.size = 0 /\ d.arr = <<>> /\ d.block_idx = 0 /\ d.idx = 0
          /\ d.current = 0
      BY <1>1, <1>10, <2>5, OpeningGranted
    <3> HIDE DEF d
    <3>4. BlockSize # 0
      BY Constants
    <3>5. QED BY <1>3, <2>4, <3>1, <3>2, <3>4 DEF Writer, Holds, IsOpen
  <2>7. size'[dst] = 0 /\ Granted(dst)'
    BY <1>3, <2>5 DEF Granted
  <2>8. QED BY <1>3, <1>4, <2>2, <2>3, <2>4, <2>6, <2>7 DEF Filling
<1>11. QED BY <1>4, <1>6, <1>9, <1>10 DEF Copying

\* A read of a short file brings the bytes that follow, or fails and leaves the
\* last chunk; one that fails is not one of a command that fills a file.
LEMMA ReadCopies ==
  ASSUME FewCalls, IInv, IInv', Copying, Next, pc = "read", pc' = "write",
         UNCHANGED <<exists, size, blocks, data, out, origin>>, fcb'["dst"] = fcb["dst"],
         job'.src = job.src, job'.dst = job.dst, job'.chunk = job.chunk, job'.total = job.total,
         NEW g, g = IF buf'.count > 0 THEN buf'.count ELSE 0,
         Short =>
           /\ Sent' = Sent + g /\ Sent' <= Total
           /\ buf'.count # -1 =>
                Len(buf'.bytes) = g /\ \A k \in 1 .. g : buf'.bytes[k] = Sent + k
           /\ buf'.count = -1 => buf'.bytes = buf.bytes /\ job.src \in Files /\ Total > 0
           /\ buf'.count = 0 /\ job.src \in Files => Total = 0
           /\ buf'.count <= job.chunk /\ (buf'.count # job.chunk => Sent' = Total)
           /\ job.src \in Files => IsOpen("src")' /\ Reader(fcb["src"])'
  PROVE  Copying'
<1>1. Settled /\ Settled' /\ (Short' <=> Short) /\ Total' = Total /\ TypeOK /\ Phases
  BY SettledKept DEF Copying, Short, Total, IInv
<1>2. buf'.count \in -1 .. Chunk /\ buf'.bytes \in Seq(Cell) /\ g \in Nat
  <2>1. buf' \in [count : -1 .. Chunk, bytes : Seq(Cell)]
    BY DEF IInv, TypeOK
  <2>2. buf'.count \in -1 .. Chunk /\ buf'.bytes \in Seq(Cell)
    BY <2>1
  <2>3. QED BY <2>2, Constants
<1>3. ASSUME Short
      PROVE  /\ Feeding /\ Sent \in Nat /\ Total \in Int /\ Done = Sent /\ Done' = Sent
             /\ Sent' = Sent + g
  <2>1. Feeding
    BY <1>3 DEF Copying
  <2>2. job.src \in Files \cup {Linux}
    BY <1>1, JobParts
  <2>3. Sent \in Nat /\ Total \in Int
    BY <1>1, <2>1, <2>2, Amounts DEF Feeding
  <2>4. Done = Sent
    BY DEF Done
  <2>5. Done' = IF buf'.count > 0 THEN Sent' - buf'.count ELSE Sent'
    BY DEF Done
  <2>6. Done' = Sent
    BY <1>2, <1>3, <2>3, <2>5
  <2>7. QED BY <1>3, <2>1, <2>3, <2>4, <2>6
<1>4. ASSUME Short PROVE Feeding'
  <2>1. Passing'
    <3>1. CASE buf'.count # -1
      <4>1. Len(buf'.bytes) = g /\ \A k \in 1 .. g : buf'.bytes[k] = Sent + k
        BY <1>4, <3>1
      <4>2. Sent' - g = Sent /\ g <= Sent'
        BY <1>2, <1>3, <1>4
      <4>3. QED BY <1>1, <1>4, <3>1, <4>1, <4>2 DEF Passing
    <3>2. CASE buf'.count = -1
      <4>1. buf'.bytes = buf.bytes /\ Sent' = Sent /\ Sent > 0 /\ Sent' = Total
        <5>1. g = 0
          BY <3>2
        <5>2. Chunk - 1 # -1 /\ Chunk # -1
          BY Constants
        <5>3. job.chunk # -1
          BY <1>1, <5>2, JobParts
        <5>4. QED BY <1>3, <1>4, <3>2, <5>1, <5>3
      <4>2. Passing /\ buf.count = job.chunk
        BY <1>3, <1>4, <4>1 DEF Feeding, InLoop
      <4>3. Len(buf.bytes) = job.chunk
        <5>1. buf.count >= 0
          BY <1>1, <4>2, JobParts, Constants
        <5>2. QED BY <4>2, <5>1 DEF IInv, Transfer
      <4>4. QED BY <1>1, <3>2, <4>1, <4>2, <4>3 DEF Passing
    <3>3. QED BY <3>1, <3>2
  <2>2. job.dst = Linux => out = Numbers(1, Sent) \o <<>>
    BY <1>3, <1>4 DEF Feeding
  <2>3. job.src = Linux => job.chunk = Chunk
    BY <1>3, <1>4 DEF Feeding
  <2>4. Chunks'
    BY <1>3, <1>4 DEF Feeding, InLoop, Chunks
  <2>5. QED BY <1>1, <1>3, <1>4, <2>1, <2>2, <2>3, <2>4 DEF Feeding
<1>5. ASSUME job.dst \in Files, Filled(job.dst) PROVE Filling'
  <2>1. Filling /\ Short /\ job.chunk = Chunk
    BY <1>1, <1>5 DEF Copying, Filling, Phases
  <2>2. buf'.count # -1
    <3>1. SUFFICES ASSUME buf'.count = -1 PROVE FALSE
      OBVIOUS
    <3>2. job.src \in Files /\ Total > 0 /\ Sent' = Total /\ g = 0
      BY <2>1, <3>1, Constants
    <3>3. Sent = Total
      BY <1>3, <2>1, <3>2
    <3>4. PICK q \in Nat : Sent = q * Chunk
      BY <1>3, <2>1 DEF Feeding, InLoop, Chunks
    <3>5. Sent % Chunk = 0
      BY <3>4, OneMoreChunk, Constants
    <3>6. Whole(Total)
      BY <2>1, <3>2 DEF Filling
    <3>7. QED BY <3>2, <3>3, <3>5, <3>6 DEF Whole
  <2>3. Writer(fcb["dst"])'
    <3> DEFINE d == fcb["dst"]
    <3>1. Writer(d) /\ d' = d /\ Done' = Done /\ Holds(d.file, Done)' = Holds(d.file, Done)
      <4>1. Done' = Done
        BY <1>3, <2>1
      <4>2. QED BY <2>1, <4>1 DEF Filling, Holds, Begins
    <3> HIDE DEF d
    <3>2. Writer(d)'
      BY <3>1 DEF Writer
    <3>3. QED BY <3>2 DEF d
  <2>4. IsOpen("dst")' /\ Granted(job.dst)' /\ size'[job.dst] = Done'
    BY <1>3, <2>1 DEF Filling, IsOpen, Granted
  <2>5. buf'.count >= 0
    BY <1>2, <2>2
  <2>6. QED BY <1>1, <2>1, <2>3, <2>4, <2>5 DEF Filling
<1>6. QED BY <1>1, <1>4, <1>5 DEF Copying, Filled

\* A read of the Linux file,
LEMMA ReadLinuxCopies ==
  ASSUME FewCalls, IInv, IInv', Copying, Next, ReadLinux
  PROVE  Copying'
<1> DEFINE count == Smaller(Chunk, job.total - job.pos)
           g == IF buf'.count > 0 THEN buf'.count ELSE 0
<1>1. /\ pc = "read" /\ job.src = Linux /\ pc' = "write"
      /\ buf' = [count |-> count, bytes |-> [k \in 1 .. count |-> job.pos + k]]
      /\ job' = [job EXCEPT !.pos = IF count > 0 THEN @ + count ELSE @]
      /\ UNCHANGED <<exists, size, blocks, data, out, origin, fcb>>
  BY DEF ReadLinux, disk, hist
<1>2. /\ job'.src = Linux /\ job'.dst = job.dst /\ job'.chunk = job.chunk /\ job'.total = job.total
      /\ job'.pos = IF count > 0 THEN job.pos + count ELSE job.pos
      /\ job.pos \in Nat /\ job.total \in {-1} \cup Nat
  <2>1. job \in [src : Files \cup {Linux}, dst : Files \cup {Linux},
                 chunk : {Chunk - 1, Chunk}, total : {-1} \cup Nat, pos : Nat]
    BY DEF IInv, TypeOK
  <2> HIDE DEF count
  <2>2. QED BY <1>1, <2>1
<1>3. Linux \notin Files
  BY Constants
<1>4. ASSUME Short
      PROVE  /\ Sent' = Sent + g /\ Sent' <= Total
             /\ Len(buf'.bytes) = g /\ \A k \in 1 .. g : buf'.bytes[k] = Sent + k
             /\ buf'.count <= job.chunk /\ (buf'.count # job.chunk => Sent' = Total)
             /\ buf'.count # -1
  <2>1. /\ Sent = job.pos /\ Total = job.total /\ Sent' = job'.pos /\ job.pos <= job.total
        /\ job.chunk = Chunk
    BY <1>1, <1>2, <1>4 DEF Copying, Feeding, Sent, Total
  <2>2. /\ count \in Nat /\ job.pos + count <= job.total /\ count <= Chunk
        /\ count # Chunk => job.pos + count = job.total
    BY <1>2, <2>1, Constants DEF Smaller
  <2> HIDE DEF count
  <2>3. /\ buf'.count = count /\ buf'.bytes = [k \in 1 .. count |-> job.pos + k]
        /\ Len(buf'.bytes) = count /\ g = count
    BY <1>1, <2>2
  <2>4. job'.pos = job.pos + count
    BY <1>2, <2>2
  <2> HIDE DEF g
  <2>5. QED BY <1>2, <2>1, <2>2, <2>3, <2>4
<1> HIDE DEF count, g
<1>5. g = IF buf'.count > 0 THEN buf'.count ELSE 0
  BY DEF g
<1>6. QED BY <1>1, <1>2, <1>3, <1>4, <1>5, ReadCopies

\* ... of a file: its descriptor is in the first block, which holds the bytes,
LEMMA ReadFileCopies ==
  ASSUME FewCalls, IInv, IInv', Copying, Next, ReadFile
  PROVE  Copying'
<1> DEFINE s == fcb["src"]
           r == b_read(s, job.chunk)
           g == IF buf'.count > 0 THEN buf'.count ELSE 0
<1>1. /\ pc = "read" /\ job.src \in Files /\ pc' = "write"
      /\ UNCHANGED <<exists, size, blocks, data, out, origin, job>>
      /\ IsOpen("src") =>
           /\ buf' = [count |-> r.count, bytes |-> IF r.count = -1 THEN buf.bytes ELSE r.bytes]
           /\ fcb' = [fcb EXCEPT !["src"] = r.fcb]
      /\ ~IsOpen("src") => UNCHANGED fcb
  BY DEF ReadFile, disk, hist
<1>2. fcb \in [{"src", "dst"} -> Fcb \cup {NoFcb, Stray}] /\ TypeOK /\ Phases /\ Settled
  BY DEF IInv, TypeOK, Copying
<1>3. fcb'["dst"] = fcb["dst"] /\ (IsOpen("src") => fcb'["src"] = r.fcb)
  BY <1>1, <1>2
<1>4. ASSUME Short
      PROVE  /\ Sent' = Sent + g /\ Sent' <= Total
             /\ buf'.count # -1 =>
                  Len(buf'.bytes) = g /\ \A k \in 1 .. g : buf'.bytes[k] = Sent + k
             /\ buf'.count = -1 => buf'.bytes = buf.bytes /\ job.src \in Files /\ Total > 0
             /\ buf'.count = 0 /\ job.src \in Files => Total = 0
             /\ buf'.count <= job.chunk /\ (buf'.count # job.chunk => Sent' = Total)
             /\ job.src \in Files => IsOpen("src")' /\ Reader(fcb["src"])'
  <2>1. IsOpen("src") /\ Reader(s)
    BY <1>1, <1>4 DEF Copying, Feeding
  <2>2. s \in Fcb /\ Source(s) /\ s.file = job.src /\ data \in [Blocks -> [1 .. BlockSize -> Cell]]
    BY <1>2, <2>1, Openness DEF IInv, Phases, TypeOK
  <2>3. /\ s.size = Total /\ s.arr = blocks[job.src]
        /\ s.current = (IF s.arr = <<>> THEN 0 ELSE s.arr[1]) /\ At(s, s.size)
    BY <2>1, <2>2 DEF Reader, At
  <2>4. Total = origin[job.src] /\ Total \in 0 .. BlockSize /\ job.src # job.dst /\ Linux # job.src
        /\ Sent = Ahead(s) /\ Sent' = Ahead(fcb'["src"])
    BY <1>1, <1>4, Constants DEF Short, Total, Sent
  <2>5. Holds(job.src, Total) /\ Granted(job.src)
    BY <1>1, <1>2, <2>4 DEF Settled, Filled
  <2>6. s.arr \in Seq({Refused} \cup Blocks) /\ BlockSize \in Nat
    BY <2>2, Fields, Constants
  <2>7. ASSUME s.size > 0
        PROVE  s.arr # <<>> /\ s.arr[1] \in Blocks /\ s.buf = data[s.arr[1]]
               /\ Begins(data[s.arr[1]], s.size)
    <3>1. s.arr # <<>> /\ Begins(data[s.arr[1]], s.size)
      BY <2>3, <2>5, <2>7 DEF Holds
    <3>2. s.arr[1] \in Range(s.arr) /\ s.arr[1] \in {Refused} \cup Blocks
      BY <2>6, <3>1, RangeOf
    <3>3. s.arr[1] \in Blocks /\ s.current = s.arr[1]
      BY <2>3, <2>5, <3>1, <3>2 DEF Granted
    <3>4. QED BY <2>2, <2>4, <3>1, <3>3 DEF Source
  <2>8. job.chunk \in 1 .. BlockSize - 1
    BY <1>2, JobParts, Constants
  <2>9. s.size <= BlockSize
    BY <2>3, <2>4
  <2> HIDE DEF s, r
  <2>10. /\ r.count \in -1 .. job.chunk /\ r.bytes \in Seq(Cell)
         /\ Len(r.bytes) = (IF r.count > 0 THEN r.count ELSE 0)
         /\ r.count = -1 => r.bytes = <<>> /\ Ahead(s) = s.size /\ s.size > 0
         /\ r.count = 0 => s.size = 0
         /\ \A k \in 1 .. Len(r.bytes) : r.bytes[k] = Ahead(s) + k
         /\ r.fcb \in Fcb /\ r.fcb.file = s.file /\ r.fcb.size = s.size /\ r.fcb.arr = s.arr
         /\ r.fcb.current = s.current
         /\ At(r.fcb, s.size) /\ Ahead(r.fcb) = Ahead(s) + Len(r.bytes)
         /\ r.count # job.chunk => Ahead(r.fcb) = s.size
    BY <2>2, <2>3, <2>7, <2>8, <2>9, ReadingShort DEF r
  <2>11. /\ buf'.count = r.count /\ fcb'["src"] = r.fcb
         /\ r.count = -1 => buf'.bytes = buf.bytes
         /\ r.count # -1 => buf'.bytes = r.bytes
    BY <1>1, <1>3, <2>1
  <2>12. Ahead(r.fcb) <= Total
    BY <2>3, <2>4, <2>10, AheadOf
  <2>13. IsOpen("src")'
    BY <2>10, <2>11, Blank DEF IsOpen
  <2>14. Total' = Total
    BY <1>1 DEF Total
  <2>15. Reader(fcb["src"])'
    <3>1. r.fcb.size = Total /\ r.fcb.arr = blocks[r.fcb.file] /\ blocks' = blocks
      BY <1>1, <2>2, <2>3, <2>10
    <3>2. r.fcb.current = IF r.fcb.arr = <<>> THEN 0 ELSE r.fcb.arr[1]
      BY <2>3, <2>10
    <3>3. QED BY <2>3, <2>10, <2>11, <2>14, <3>1, <3>2 DEF Reader, At
  <2>16. Len(r.bytes) = g
    BY <2>10, <2>11
  <2> HIDE DEF g
  <2>17. QED BY <1>1, <2>3, <2>4, <2>10, <2>11, <2>12, <2>13, <2>15, <2>16
<1> HIDE DEF s, r, g
<1>5. g = IF buf'.count > 0 THEN buf'.count ELSE 0
  BY DEF g
<1>6. QED BY <1>1, <1>3, <1>4, <1>5, ReadCopies

\* Where a command that copies a short file is when it writes: behind what it
\* has read, or behind that by what is in the buffer.
LEMMA Counted ==
  ASSUME IInv, Copying, Short, pc \in {"write", "store", "record"},
         NEW m, m = IF buf.count > 0 THEN buf.count ELSE 0
  PROVE  /\ Feeding /\ Passing /\ Sent \in Nat /\ Total \in Nat /\ Sent <= Total /\ Total <= BlockSize
         /\ buf.count \in -1 .. Chunk /\ buf.bytes \in Seq(Cell)
         /\ buf.count >= 0 => Len(buf.bytes) = buf.count
         /\ m \in Nat /\ Sent - m \in Nat
         /\ pc # "record" => Done = Sent - m
         /\ pc = "record" => Done = Sent
<1>1. Feeding /\ Passing /\ Sent <= Total
  BY DEF Copying, Feeding, InLoop
<1>2. buf.count \in -1 .. Chunk /\ buf.bytes \in Seq(Cell) /\ (buf.count >= 0 => Len(buf.bytes) = buf.count)
  BY Typed DEF IInv, Transfer
<1>3. Sent \in Nat /\ Total \in Nat /\ Total <= BlockSize
  <2>1. Sent \in Nat
    BY <1>1, JobParts, Amounts DEF IInv, Copying, Feeding
  <2>2. Total \in 0 .. BlockSize
    BY DEF Short
  <2>3. QED BY <2>1, <2>2, Constants
<1>4. m \in Nat /\ Sent - m \in Nat
  <2>1. Len(buf.bytes) <= Sent
    BY <1>1 DEF Passing
  <2>2. m \in Nat /\ m <= Sent
    BY <1>2, <1>3, <2>1
  <2>3. QED BY <1>3, <2>2
<1>5. /\ pc # "record" => Done = Sent - m
      /\ pc = "record" => Done = Sent
  <2>1. pc \in {"write", "store"} => Done = IF buf.count > 0 THEN Sent - buf.count ELSE Sent
    BY DEF Done
  <2>2. pc = "record" => Done = Sent
    BY DEF Done
  <2>3. pc # "record" => pc \in {"write", "store"}
    OBVIOUS
  <2> HIDE DEF Done, Sent
  <2>4. buf.count > 0 \/ (~(buf.count > 0) /\ Sent - 0 = Sent)
    BY <1>3
  <2>5. QED BY <2>1, <2>2, <2>3, <2>4
<1>6. QED BY <1>1, <1>2, <1>3, <1>4, <1>5

\* A step within a command from its read on: to the next part of b_write, or
\* out of it.
Onward ==
  /\ pc \in {"write", "store", "record"}
  /\ \/ pc = "write" /\ pc' = "store"
     \/ pc = "store" /\ pc' = "record"
     \/ AfterWrite

\* What such a step leaves of a command that copies a short file: when the loop
\* goes on or ends, what was under way has been passed on.
LEMMA FeedingKept ==
  ASSUME IInv, Copying, Onward, UNCHANGED <<exists, job, buf>>, fcb'["src"] = fcb["src"],
         \A f \in Files \ {job.dst} : blocks'[f] = blocks[f],
         origin' = origin \/ origin' = [origin EXCEPT ![job.dst] = Mixed],
         Short /\ job.dst = Linux =>
           /\ pc' \in {"read", "close"}
           /\ out' = Numbers(1, Sent) \o IF pc' = "close" THEN Reprinted(Total) ELSE <<>>
  PROVE  /\ Short' <=> Short
         /\ Short => /\ Feeding' /\ Total' = Total /\ Sent' = Sent
                     /\ Done' = IF pc' = "store" THEN Done ELSE Sent
<1> DEFINE m == IF buf.count > 0 THEN buf.count ELSE 0
<1>1. /\ job.src \in Files \cup {Linux} /\ job.dst \in Files \cup {Linux} /\ Linux \notin Files
      /\ job.chunk \in {Chunk - 1, Chunk} /\ Chunk \in Nat /\ Chunk >= 3
  BY JobParts, Constants DEF IInv
<1>2. pc # "prompt" /\ pc' # "prompt"
  BY DEF Onward, AfterWrite
<1>3. job.src # job.dst => Total' = Total
  <2>1. SUFFICES ASSUME job.src # job.dst, job.src # Linux PROVE origin'[job.src] = origin[job.src]
    BY DEF Total
  <2>2. origin \in [Files -> Int]
    BY DEF Copying, Settled
  <2>3. QED BY <1>1, <2>1, <2>2
<1>4. Short' <=> Short
  BY <1>2, <1>3 DEF Short
<1>5. Sent' = Sent
  BY DEF Sent
<1>6. SUFFICES ASSUME Short
               PROVE  /\ Feeding' /\ Total' = Total /\ Sent' = Sent
                      /\ Done' = IF pc' = "store" THEN Done ELSE Sent
  BY <1>4
<1>7. /\ Feeding /\ Passing /\ Sent \in Nat /\ Total \in Nat /\ Sent <= Total
      /\ buf.count \in -1 .. Chunk /\ m \in Nat /\ Sent - m \in Nat
      /\ pc # "record" => Done = Sent - m
      /\ pc = "record" => Done = Sent
  BY <1>6, Counted DEF Onward
<1>8. Total' = Total /\ job.src # job.dst
  BY <1>3, <1>6 DEF Short
<1>9. /\ pc' = "read" => buf.count = job.chunk
      /\ pc' = "close" => Sent = Total
      /\ pc' \in {"store", "record", "read", "close"}
      /\ pc' = "store" => pc = "write"
      /\ pc' = "record" => pc = "store"
  <2>1. buf.count # job.chunk => Sent = Total
    BY <1>7 DEF Passing
  <2>2. QED BY <2>1 DEF Onward, AfterWrite
<1>10. Done' = IF pc' = "store" THEN Done ELSE Sent
  <2>1. CASE pc' = "store"
    BY <1>5, <1>9, <2>1 DEF Done
  <2>2. CASE pc' \in {"record", "read"}
    BY <1>5, <2>2 DEF Done
  <2>3. CASE pc' = "close"
    BY <1>5, <1>8, <1>9, <2>3 DEF Done
  <2>4. QED BY <1>9, <2>1, <2>2, <2>3
<1>11. Passing'
  BY <1>5, <1>7, <1>8 DEF Passing
<1>12. ASSUME job.src \in Files PROVE (IsOpen("src") /\ Reader(fcb["src"]))'
  <2>1. IsOpen("src") /\ Reader(fcb["src"]) /\ fcb["src"].file = job.src
    BY <1>7, <1>12 DEF Feeding, Onward, IInv, Phases
  <2>2. blocks'[job.src] = blocks[job.src]
    BY <1>8, <1>12
  <2>3. QED BY <1>8, <2>1, <2>2 DEF IsOpen, Reader
<1>13. ASSUME pc' = "store" \/ buf.count = job.chunk, pc' # "close" PROVE Chunks'
  <2>1. CASE pc' = "store"
    BY <1>7, <1>9, <1>10, <2>1 DEF Feeding, InLoop, Chunks
  <2>2. CASE pc' # "store"
    <3>1. Chunks /\ buf.count = job.chunk /\ Done' = Sent
      BY <1>7, <1>10, <1>13, <2>2 DEF Feeding, InLoop, Onward
    <3>2. PICK q \in Nat : Done = q * job.chunk
      BY <3>1 DEF Chunks
    <3>3. CASE pc = "record"
      <4>1. Done' = Done
        BY <1>7, <3>1, <3>3
      <4>2. QED BY <3>2, <4>1 DEF Chunks
    <3>4. CASE pc # "record"
      <4>1. job.chunk \in Nat /\ job.chunk >= 1
        BY <1>1
      <4>2. m = job.chunk
        BY <3>1, <4>1
      <4>3. Sent = Done + job.chunk
        BY <1>7, <3>4, <4>1, <4>2
      <4>4. Done + job.chunk = (q + 1) * job.chunk
        BY <3>2, <4>1, OneMoreChunk
      <4>5. Done' = (q + 1) * job'.chunk /\ q + 1 \in Nat
        BY <3>1, <4>3, <4>4
      <4>6. QED BY <4>5 DEF Chunks
    <3>5. QED BY <3>3, <3>4
  <2>3. QED BY <2>1, <2>2
<1>14. ASSUME job.dst = Linux
       PROVE  out' = Numbers(1, Done') \o IF pc' = "close" THEN Reprinted(Total') ELSE <<>>
  BY <1>6, <1>8, <1>10, <1>14
<1>15. /\ (pc # "close dst" => Sent <= Total)'
       /\ (job.src = Linux => job.chunk = Chunk)'
  BY <1>5, <1>7, <1>8 DEF Feeding
<1>16. (InLoop /\ (pc = "record" => buf.count = job.chunk) => Chunks)'
  BY <1>9, <1>13 DEF InLoop
<1>17. (job.dst = Linux /\ pc # "close dst" =>
          out = Numbers(1, Done) \o IF pc = "close" THEN Reprinted(Total) ELSE <<>>)'
  BY <1>14 DEF Reprinted, Numbers
<1>18. Feeding'
  BY <1>9, <1>11, <1>12, <1>15, <1>16, <1>17 DEF Feeding
<1>19. QED BY <1>5, <1>8, <1>10, <1>18

\* Numbers that follow on numbers.
LEMMA Continued ==
  ASSUME NEW w \in Nat, NEW m \in Nat, NEW bytes \in Seq(Cell), Len(bytes) = m,
         \A k \in 1 .. m : bytes[k] = w + k
  PROVE  bytes = Numbers(w + 1, w + m) /\ Numbers(1, w) \o bytes = Numbers(1, w + m)
<1>1. bytes = Numbers(w + 1, w + m)
  <2>1. w + m - (w + 1) + 1 = m /\ \A k \in 1 .. m : w + 1 + k - 1 = w + k
    OBVIOUS
  <2>2. Numbers(w + 1, w + m) = [k \in 1 .. m |-> w + k]
    BY <2>1 DEF Numbers
  <2>3. QED BY <2>2
<1> DEFINE head == Numbers(1, w)
           all == head \o bytes
<1>2. /\ head = [k \in 1 .. w |-> k] /\ head \in Seq(Cell) /\ Len(head) = w
      /\ Numbers(1, w + m) = [k \in 1 .. w + m |-> k]
  <2>1. head = [k \in 1 .. w |-> k] /\ Numbers(1, w + m) = [k \in 1 .. w + m |-> k]
    BY FirstNumbers
  <2>2. [k \in 1 .. w |-> k] \in Seq(Cell) /\ Len([k \in 1 .. w |-> k]) = w
    BY DEF Cell
  <2>3. QED BY <2>1, <2>2
<1> HIDE DEF head
<1>3. /\ all \in Seq(Cell) /\ Len(all) = w + m
      /\ \A k \in 1 .. w + m : all[k] = IF k <= w THEN head[k] ELSE bytes[k - w]
  BY <1>2, ConcatProperties
<1> HIDE DEF all
<1>4. ASSUME NEW k \in 1 .. w + m PROVE all[k] = k
  <2>1. CASE k <= w
    <3>1. k \in 1 .. w
      BY <1>4, <2>1
    <3>2. head[k] = k
      BY <1>2, <3>1
    <3>3. QED BY <1>3, <2>1, <3>2
  <2>2. CASE k > w
    <3>1. k - w \in 1 .. m /\ w + (k - w) = k /\ ~(k <= w)
      BY <1>4, <2>2
    <3>2. all[k] = bytes[k - w]
      BY <1>3, <1>4, <3>1
    <3>3. bytes[k - w] = w + (k - w)
      BY <3>1
    <3>4. QED BY <3>1, <3>2, <3>3
  <2>3. QED BY <1>4, <2>1, <2>2
<1>5. all = [k \in 1 .. w + m |-> all[k]]
  BY <1>3
<1>6. all = Numbers(1, w + m)
  BY <1>2, <1>4, <1>5
<1>7. QED BY <1>1, <1>6 DEF all, head

\* What cat prints of bytes none of which is NUL.
LEMMA Printed ==
  ASSUME NEW bytes \in Seq(Cell), \A k \in 1 .. Len(bytes) : bytes[k] \in Nat /\ bytes[k] # 0,
         NEW text \in printf(bytes)
  PROVE  text = bytes
<1>1. PICK n \in 0 .. Len(bytes) : /\ text = SubSeq(bytes, 1, n)
                                   /\ n < Len(bytes) => bytes[n + 1] \in {0, Junk}
  BY DEF printf
<1>2. n = Len(bytes)
  <2>1. n < Len(bytes) => n + 1 \in 1 .. Len(bytes)
    BY <1>1
  <2>2. ~(n < Len(bytes))
    BY <1>1, <2>1 DEF Junk
  <2>3. QED BY <1>1, <2>2
<1>3. QED BY <1>1, <1>2

\* A write to the Linux file or the screen,
LEMMA WriteLinuxCopies ==
  ASSUME FewCalls, IInv, IInv', Copying, Next, WriteLinux
  PROVE  Copying'
<1> DEFINE n == buf.count
           m == IF n > 0 THEN n ELSE 0
           w == Sent - m
<1>1. /\ pc = "write" /\ job.dst = Linux /\ AfterWrite
      /\ UNCHANGED <<exists, size, blocks, data, fcb, job, buf, origin>>
  BY DEF WriteLinux, disk, hist
<1>2. PICK text \in IF job.chunk = Chunk - 1 THEN printf(buf.bytes)
                    ELSE {IF buf.count = -1 THEN <<>> ELSE buf.bytes} :
        out' = out \o text
  BY DEF WriteLinux
<1>3. /\ job.chunk \in {Chunk - 1, Chunk} /\ Chunk \in Nat /\ Chunk >= 3
      /\ job.src \in Files \cup {Linux} /\ Linux \notin Files
  BY JobParts, Constants DEF IInv
<1>4. ASSUME Short
      PROVE  /\ pc' \in {"read", "close"}
             /\ out' = Numbers(1, Sent) \o IF pc' = "close" THEN Reprinted(Total) ELSE <<>>
  <2>1. /\ Feeding /\ Passing /\ Sent \in Nat /\ Total \in Nat /\ Sent <= Total
        /\ n \in -1 .. Chunk /\ buf.bytes \in Seq(Cell) /\ (n >= 0 => Len(buf.bytes) = n)
        /\ m \in Nat /\ w \in Nat /\ Done = w
    BY <1>1, <1>4, Counted
  <2>2. /\ n # job.chunk => Sent = Total
        /\ n = -1 => Len(buf.bytes) = job.chunk
        /\ n = 0 => Total = 0
        /\ Len(buf.bytes) \in Nat /\ Len(buf.bytes) <= Sent
        /\ \A k \in 1 .. Len(buf.bytes) : buf.bytes[k] = Sent - Len(buf.bytes) + k
    <3>1. job.src \in Files
      BY <1>1, <1>3, <1>4 DEF Short
    <3>2. QED BY <2>1, <3>1 DEF Passing
  <2>3. out = Numbers(1, w)
    <3>1. out = Numbers(1, w) \o <<>>
      BY <1>1, <2>1 DEF Feeding
    <3>2. QED BY <2>1, <3>1, FirstNumbers
  <2>4. PICK q \in Nat : w = q * job.chunk
    BY <1>1, <2>1 DEF Feeding, InLoop, Chunks
  <2>5. pc' = IF n = job.chunk THEN "read" ELSE "close"
    BY <1>1 DEF AfterWrite
  <2>6. text = IF n = -1 /\ job.chunk # Chunk - 1 THEN <<>> ELSE buf.bytes
    <3>1. CASE job.chunk = Chunk - 1
      <4>1. ASSUME NEW k \in 1 .. Len(buf.bytes) PROVE buf.bytes[k] \in Nat /\ buf.bytes[k] # 0
        <5> DEFINE l == Len(buf.bytes)
        <5>1. buf.bytes[k] = Sent - l + k /\ l \in Nat /\ l <= Sent /\ Sent \in Nat
          BY <2>1, <2>2
        <5> HIDE DEF l
        <5>2. k \in Nat /\ k >= 1
          BY <2>2
        <5>3. QED BY ONLY <5>1, <5>2
      <4>2. QED BY <1>2, <2>1, <3>1, <4>1, Printed
    <3>2. CASE job.chunk # Chunk - 1
      BY <1>2, <3>2
    <3>3. QED BY <3>1, <3>2
  <2>7. n >= 0 => Numbers(1, w) \o buf.bytes = Numbers(1, Sent)
    <3>1. SUFFICES ASSUME n >= 0 PROVE Numbers(1, w) \o buf.bytes = Numbers(1, Sent)
      OBVIOUS
    <3>2. m = n /\ Len(buf.bytes) = m /\ w + m = Sent /\ Sent - Len(buf.bytes) = w
      BY <2>1, <3>1
    <3> HIDE DEF w, m, n
    <3>3. \A k \in 1 .. m : buf.bytes[k] = w + k
      BY <2>2, <3>2
    <3>4. Numbers(1, w) \o buf.bytes = Numbers(1, w + m)
      BY <2>1, <3>2, <3>3, Continued
    <3>5. QED BY <3>2, <3>4
  <2>8. Numbers(1, Sent) \o <<>> = Numbers(1, Sent)
    BY <2>1, FirstNumbers
  <2> HIDE DEF w, m
  <2>9. CASE n = job.chunk
    <3>1. n >= 0 /\ n # -1
      BY <1>3, <2>9
    <3>2. QED BY <1>2, <2>3, <2>5, <2>6, <2>7, <2>8, <2>9, <3>1
  <2>10. CASE n # job.chunk /\ n >= 0
    <3>1. Reprinted(Total) = <<>>
      <4>1. CASE n = 0
        BY <2>2, <4>1 DEF Reprinted
      <4>2. CASE n > 0 /\ job.chunk = Chunk - 1
        <5>1. n \in 1 .. job.chunk - 1 /\ job.chunk \in Nat /\ job.chunk >= 1
          <6>1. n <= job.chunk
            BY <2>1 DEF Passing
          <6>2. QED BY <1>3, <2>1, <2>10, <4>2, <6>1
        <5>2. (w + n) % job.chunk # 0
          BY <2>1, <2>4, <5>1, OneMoreChunk
        <5>3. w + n = Total
          <6>1. m = n /\ w = Sent - m
            BY <4>2 DEF m, w
          <6>2. QED BY <2>1, <2>2, <2>10, <6>1
        <5>4. QED BY <5>2, <5>3 DEF Reprinted
      <4>3. CASE job.chunk # Chunk - 1
        BY <4>3 DEF Reprinted
      <4>4. QED BY <2>1, <2>10, <4>1, <4>2, <4>3
    <3>2. n # -1
      BY <2>10
    <3>3. QED BY <1>2, <2>3, <2>5, <2>6, <2>7, <2>8, <2>10, <3>1, <3>2
  <2>11. CASE n # job.chunk /\ n = -1
    <3>1. w = Sent /\ Sent = Total /\ pc' = "close"
      <4>1. m = 0 /\ w = Sent - m
        BY <2>11 DEF m, w
      <4>2. QED BY <2>1, <2>2, <2>5, <2>11, <4>1
    <3>2. text = Reprinted(Total)
      <4>1. CASE job.chunk = Chunk - 1
        <5>1. job.chunk \in Nat /\ job.chunk >= 1 /\ Len(buf.bytes) = job.chunk /\ job.chunk <= Total
          BY <1>3, <2>2, <2>11, <3>1, <4>1
        <5>2. Total % job.chunk = 0 /\ Total > 0
          BY <2>1, <2>4, <3>1, <5>1, OneMoreChunk
        <5>3. Reprinted(Total) = Numbers(Total - job.chunk + 1, Total)
          BY <4>1, <5>2 DEF Reprinted
        <5> DEFINE v == Total - job.chunk
        <5>4. v \in Nat /\ v + job.chunk = Total
          BY <2>1, <5>1
        <5>5. \A k \in 1 .. job.chunk : buf.bytes[k] = v + k
          BY <2>2, <3>1, <5>1
        <5> HIDE DEF v
        <5>6. buf.bytes = Numbers(v + 1, v + job.chunk)
          BY <2>1, <5>1, <5>4, <5>5, Continued
        <5>7. QED BY <2>6, <4>1, <5>3, <5>4, <5>6 DEF v
      <4>2. CASE job.chunk # Chunk - 1
        BY <2>6, <2>11, <4>2 DEF Reprinted
      <4>3. QED BY <4>1, <4>2
    <3>3. QED BY <1>2, <2>3, <3>1, <3>2
  <2>12. QED BY <2>1, <2>9, <2>10, <2>11
<1>5. Onward
  BY <1>1 DEF Onward
<1>6. (Short' <=> Short) /\ (Short => Feeding')
  BY <1>1, <1>4, <1>5, FeedingKept
<1>7. Settled'
  BY <1>1, SettledKept DEF Copying
<1>8. QED BY <1>1, <1>3, <1>6, <1>7 DEF Copying

\* ... any step of b_write, if it leaves what a file is filled with,
LEMMA WritingCopies ==
  ASSUME FewCalls, IInv, Copying, Next, Onward, job.dst \in Files,
         UNCHANGED <<exists, job, buf>>, fcb'["src"] = fcb["src"],
         fcb'["dst"] # NoFcb => fcb["dst"] # NoFcb,
         origin' = origin \/ (fcb["dst"] # NoFcb /\ origin' = [origin EXCEPT ![job.dst] = Mixed]),
         Filled(job.dst)' => Filling'
  PROVE  Copying'
<1>1. job.dst # Linux
  BY Constants
<1>2. \A f \in Files \ {job.dst} : blocks'[f] = blocks[f]
  BY OthersKept
<1>3. (Short' <=> Short) /\ (Short => Feeding')
  BY <1>1, <1>2, FeedingKept
<1>4. Settled'
  BY SettledKept DEF Copying
<1>5. QED BY <1>3, <1>4 DEF Copying

\* A file one of whose requests has been refused is not filled, nor is one that
\* is not open for writing.
LEMMA NotFilled ==
  ASSUME IInv, Copying, pc # "prompt", job.dst \in Files,
         \/ origin' = origin /\ ~IsOpen("dst")
         \/ origin' = [origin EXCEPT ![job.dst] = Mixed]
  PROVE  job'.dst = job.dst => ~Filled(job.dst)'
<1>1. Filled(job.dst) => IsOpen("dst")
  BY DEF Copying, Filling
<1>2. CASE origin' = origin /\ ~IsOpen("dst")
  BY <1>1, <1>2 DEF Filled
<1>3. CASE origin' = [origin EXCEPT ![job.dst] = Mixed]
  <2>1. origin'[job.dst] = Mixed
    BY <1>3 DEF Copying, Settled
  <2>2. Mixed \notin 0 .. BlockSize
    BY Constants DEF Mixed
  <2>3. QED BY <1>1, <2>1, <2>2 DEF Filled
<1>4. QED BY <1>2, <1>3

\* ... to a descriptor that is not open, or half open,
LEMMA ClosedCopies ==
  ASSUME FewCalls, IInv, Copying, Next, WriteNowhere \/ ExtendHalfOpen \/ StoreHalfOpen
  PROVE  Copying'
<1>1. ~IsOpen("dst") /\ pc \in {"write", "store"} /\ Onward
      /\ UNCHANGED <<exists, job, buf, fcb>>
  BY DEF WriteNowhere, ExtendHalfOpen, StoreHalfOpen, HalfOpen, IsOpen, Onward, AfterWrite, disk, hist
<1>2. job.dst \in Files
  <2>1. HalfOpen => fcb["dst"] # NoFcb
    BY Blank DEF HalfOpen
  <2>2. QED BY <2>1 DEF WriteNowhere, ExtendHalfOpen, StoreHalfOpen, IInv, Phases
<1>3. \/ origin' = origin
      \/ fcb["dst"] # NoFcb /\ origin' = [origin EXCEPT ![job.dst] = Mixed]
  <2>1. CASE WriteNowhere \/ StoreHalfOpen
    BY <2>1 DEF WriteNowhere, StoreHalfOpen, hist
  <2>2. CASE ExtendHalfOpen /\ ~(buf.count > 0)
    BY <2>2 DEF ExtendHalfOpen
  <2>3. CASE ExtendHalfOpen /\ buf.count > 0
    <3>1. PICK blk : NewLeaf(blk)
      BY <2>3 DEF ExtendHalfOpen
    <3>2. fcb["dst"] # NoFcb
      BY <2>3, Blank DEF ExtendHalfOpen, HalfOpen
    <3>3. origin' = origin \/ origin' = [origin EXCEPT ![job.dst] = Mixed]
      <4>1. origin \in [Files -> Int]
        BY DEF Copying, Settled
      <4>2. CASE blk \in Blocks
        BY <3>1, <4>1, <4>2 DEF NewLeaf
      <4>3. CASE blk \notin Blocks
        BY <3>1, <4>3 DEF NewLeaf
      <4>4. QED BY <4>2, <4>3
    <3>4. QED BY <3>2, <3>3
  <2>4. QED BY <2>1, <2>2, <2>3
<1>4. ~Filled(job.dst)'
  BY <1>1, <1>2, <1>3, NotFilled
<1>5. QED BY <1>1, <1>2, <1>3, <1>4, WritingCopies

\* A file that is being filled never needs its data moved: its first block has
\* room for all of it, and its second one lies behind the buffer.
LEMMA RoomForAll ==
  ASSUME IInv, Copying, pc = "write", job.dst \in Files, Filled(job.dst), Full(buf.count)
  PROVE  Overflows(buf.count)
<1> DEFINE n == buf.count
           f == job.dst
           z == size[f]
<1>1. Filling /\ Short /\ Granted(f) /\ z = Done
  BY DEF Copying, Filling
<1>2. n \in Nat /\ n > 0 /\ z \in Nat /\ z + n <= BlockSize /\ Len(blocks[f]) >= MaxExtents
  <2>1. n > 0 /\ Len(blocks[f]) >= MaxExtents
    BY DEF Full
  <2>2. /\ Sent \in Nat /\ Total \in Nat /\ Sent <= Total /\ Total <= BlockSize /\ n \in -1 .. Chunk
        /\ Done = Sent - (IF n > 0 THEN n ELSE 0) /\ Sent - (IF n > 0 THEN n ELSE 0) \in Nat
    BY <1>1, Counted
  <2> HIDE DEF n, z
  <2>3. QED BY <1>1, <2>1, <2>2, Constants
<1>3. bytes_to_blocks(z + n) <= 1
  <2>1. /\ BlockSize \in Nat /\ BlockSize > 0 /\ MaxExtents \in Nat /\ MaxExtents >= 2
        /\ SizeLimit \in Nat /\ MaxExtents * BlockSize < SizeLimit
    BY FileIOAssumption
  <2>2. MaxExtents * BlockSize >= 2 * BlockSize
    BY <2>1
  <2> DEFINE x == z + n + BlockSize - 1
  <2>3. x \in 0 .. SizeLimit - 1 /\ x < 2 * BlockSize
    <3> DEFINE m == z + n
               M == MaxExtents * BlockSize
    <3>1. m \in Nat /\ m > 0 /\ m <= BlockSize /\ x = m + BlockSize - 1 /\ M \in Nat
      <4> HIDE DEF z, n
      <4>1. QED BY <1>2, <2>1
    <3>2. M < SizeLimit /\ M >= 2 * BlockSize
      BY <2>1, <2>2
    <3> HIDE DEF m, M, x
    <3>3. QED BY <2>1, <3>1, <3>2
  <2>4. x % SizeLimit = x
    <3>1. x \in Int
      BY <2>3
    <3> HIDE DEF x
    <3>2. QED BY <2>3, <3>1, Modulo
  <2> HIDE DEF x
  <2>5. x \div BlockSize <= 1
    <3>1. x \in Nat
      BY <2>1, <2>3
    <3> DEFINE d == x \div BlockSize
    <3>2. d \in Int /\ d * BlockSize <= x
      BY <2>1, <3>1
    <3> HIDE DEF d
    <3>3. CASE d >= 2
      <4>1. d * BlockSize >= 2 * BlockSize
        BY <2>1, <3>2, <3>3
      <4>2. QED BY <2>1, <2>3, <3>1, <3>2, <4>1
    <3>4. QED BY <3>2, <3>3 DEF d
  <2>6. bytes_to_blocks(z + n) = (x % SizeLimit) \div BlockSize
    BY DEF bytes_to_blocks, x
  <2>7. QED BY <2>4, <2>5, <2>6
<1>4. 2 \in DOMAIN blocks[f] /\ blocks[f][2] # Refused
  <2>1. blocks[f] \in Seq({Refused} \cup Blocks) /\ MaxExtents >= 2 /\ MaxExtents \in Nat
    BY Typed, FileIOAssumption DEF IInv
  <2>2. 2 \in 1 .. Len(blocks[f])
    BY <1>2, <2>1
  <2>3. blocks[f][2] \in Range(blocks[f]) /\ 2 \in DOMAIN blocks[f]
    BY <2>1, <2>2, RangeOf
  <2>4. QED BY <1>1, <2>3 DEF Granted
<1>5. 2 > bytes_to_blocks(z + n)
  <2>1. bytes_to_blocks(z + n) \in Int
    <3>1. /\ BlockSize \in Nat /\ BlockSize > 0 /\ SizeLimit \in Nat /\ SizeLimit > 0 /\ z + n \in Int
      BY <1>2, SizeLimitIs, Constants
    <3> HIDE DEF z, n
    <3>2. QED BY <3>1 DEF bytes_to_blocks
  <2>2. QED BY <1>3, <2>1
<1>6. QED BY <1>4, <1>5 DEF Overflows

\* ... giving up for want of room,
LEMMA ReallocateCopies ==
  ASSUME FewCalls, IInv, Copying, Next, FailToReallocate
  PROVE  Copying'
<1>1. UNCHANGED <<exists, job, buf, fcb, origin>>
  BY DEF FailToReallocate, disk, hist
<1>2. job.dst \in Files
  <2>1. fcb["dst"] # NoFcb
    BY Blank DEF FailToReallocate, HalfOpen, IsOpen
  <2>2. QED BY <2>1 DEF IInv, Phases
<1>3. pc = "write" /\ Full(buf.count) /\ ~Overflows(buf.count) /\ Onward
  BY DEF FailToReallocate, Onward
<1>4. ~Filled(job.dst)'
  <2>1. ~Filled(job.dst)
    BY <1>2, <1>3, RoomForAll
  <2>2. QED BY <1>1, <2>1 DEF Filled
<1>5. QED BY <1>1, <1>2, <1>3, <1>4, WritingCopies

\* ... the extents' part of b_write: the first block is the one the bytes go to,
LEMMA ExtendCopies ==
  ASSUME FewCalls, IInv, IInv', Copying, Next, Extend
  PROVE  Copying'
<1> DEFINE d == fcb["dst"]
           f == job.dst
           n == buf.count
<1>1. TypeOK /\ Phases /\ Settled
  BY DEF IInv, Copying
<1>2. /\ pc = "write" /\ IsOpen("dst") /\ ~Full(n) /\ UNCHANGED <<exists, size, data, job, buf, out>>
  BY DEF Extend
<1>3. f \in Files /\ d.file = f /\ job.chunk = Chunk /\ d # NoFcb /\ d # Stray
  BY <1>1, <1>2 DEF Phases, IsOpen
<1>4. d \in Fcb /\ Destination(d) /\ d.arr = blocks[f] /\ data \in [Blocks -> [1 .. BlockSize -> Cell]]
  <2>1. d \in Fcb /\ Destination(d) /\ data \in [Blocks -> [1 .. BlockSize -> Cell]]
    BY <1>1, <1>2, Openness DEF IInv, TypeOK
  <2>2. QED BY <1>3, <2>1 DEF Destination
<1>5. ASSUME Filled(f)
      PROVE  /\ Filling /\ Short /\ Writer(d) /\ n >= 0 /\ Granted(f)
             /\ d.size = Done /\ Holds(f, Done) /\ size[f] = Done
             /\ Done \in Nat /\ Done + n <= BlockSize
  <2>1. Filling /\ Short /\ Writer(d) /\ n >= 0 /\ Granted(f) /\ size[f] = Done
    BY <1>2, <1>3, <1>5 DEF Copying, Filling
  <2>2. d.size = Done /\ Holds(f, Done)
    BY <1>3, <2>1 DEF Writer
  <2>3. Done \in Nat /\ Done + n <= BlockSize
    <3>1. /\ Sent \in Nat /\ Total \in Nat /\ Sent <= Total /\ Total <= BlockSize /\ n \in -1 .. Chunk
          /\ Done = Sent - (IF n > 0 THEN n ELSE 0) /\ Sent - (IF n > 0 THEN n ELSE 0) \in Nat
      BY <1>2, <2>1, Counted
    <3> HIDE DEF n
    <3>2. QED BY <2>1, <3>1, Constants
  <2>4. QED BY <2>1, <2>2, <2>3
<1>6. ASSUME Onward, fcb'["src"] = fcb["src"], origin' = origin, pc' = "store", Short
      PROVE  Short' /\ Total' = Total /\ Done' = Done
  <2>1. \A g \in Files \ {job.dst} : blocks'[g] = blocks[g]
    BY OthersKept
  <2>2. job.dst # Linux
    BY <1>3, Constants
  <2>3. QED BY <1>2, <1>6, <2>1, <2>2, FeedingKept
<1>7. CASE ~(n > 0)
  <2>1. UNCHANGED <<blocks, fcb, origin>> /\ pc' = "store" /\ Onward
    BY <1>2, <1>7 DEF Extend, Onward
  <2>2. ASSUME Filled(f) PROVE Filling'
    <3>1. Short' /\ Total' = Total /\ Done' = Done
      BY <1>5, <1>6, <2>1, <2>2
    <3>2. Writer(d)'
      <4>1. Writer(d) /\ d' = d /\ Holds(d.file, Done)' = Holds(d.file, Done)
        BY <1>2, <1>5, <2>1, <2>2, <3>1 DEF Holds, Begins
      <4> HIDE DEF d
      <4>2. QED BY <1>2, <1>7, <2>1, <3>1, <4>1 DEF Writer
    <3>3. IsOpen("dst")' /\ Granted(f)' /\ size'[f] = Done'
      BY <1>2, <1>5, <2>1, <2>2, <3>1 DEF IsOpen, Granted
    <3>4. QED BY <1>2, <1>5, <2>1, <2>2, <3>1, <3>2, <3>3 DEF Filling
  <2>3. Filled(f)' <=> Filled(f)
    BY <1>2, <2>1 DEF Filled
  <2>4. QED BY <1>2, <1>3, <2>1, <2>2, <2>3, WritingCopies
<1>8. CASE n > 0
  <2>1. PICK blk \in bfs_get_free_blocks :
          LET first == AtFirstBlock([d EXCEPT !.arr = blocks'[f]])
          IN  /\ NewLeaf(blk)
              /\ fcb' = [fcb EXCEPT !["dst"] = first.fcb]
              /\ IF first.ok THEN pc' = "store" ELSE AfterWrite
    BY <1>8 DEF Extend
  <2> DEFINE more  == blocks'[f]
             c1    == [d EXCEPT !.arr = more]
             first == AtFirstBlock(c1)
  <2>2. /\ fcb' = [fcb EXCEPT !["dst"] = first.fcb] /\ NewLeaf(blk)
        /\ IF first.ok THEN pc' = "store" ELSE AfterWrite
    BY <2>1
  <2>3. /\ fcb'["dst"] = first.fcb /\ fcb'["src"] = fcb["src"] /\ Onward
    <3> HIDE DEF first
    <3>1. QED BY <1>1, <1>2, <2>2 DEF TypeOK, Onward
  <2>4. CASE blk \notin Blocks
    <3>1. origin' = [origin EXCEPT ![f] = Mixed]
      BY <2>2, <2>4 DEF NewLeaf
    <3>2. ~Filled(f)'
      BY <1>2, <1>3, <3>1, NotFilled
    <3>3. QED BY <1>2, <1>3, <2>3, <3>1, <3>2, WritingCopies
  <2>5. CASE blk \in Blocks
    <3>1. origin' = origin
      <4>1. origin' = [origin EXCEPT ![f] = origin[f]] /\ origin \in [Files -> Int]
        BY <1>1, <2>2, <2>5 DEF NewLeaf, Settled
      <4>2. QED BY <1>3, <4>1
    <3>2. Filled(f)' <=> Filled(f)
      BY <1>2, <3>1 DEF Filled
    <3>3. /\ more = Append(blocks[f], blk) /\ blocks[f] \in Seq({Refused} \cup Blocks)
          /\ more \in Seq({Refused} \cup Blocks) /\ more # <<>>
          /\ Range(more) = Range(blocks[f]) \cup {blk}
          /\ blocks[f] = <<>> => more[1] = blk
          /\ blocks[f] # <<>> => more[1] = blocks[f][1]
      <4>1. blocks[f] \in Seq({Refused} \cup Blocks)
        BY <1>1, <1>3, Typed
      <4>2. more = Append(blocks[f], blk)
        <5>1. blocks' = [blocks EXCEPT ![f] = Append(blocks[f], blk)] /\ f \in DOMAIN blocks
          BY <1>1, <1>3, <2>2 DEF NewLeaf, TypeOK
        <5>2. QED BY <5>1
      <4> HIDE DEF more
      <4>3. /\ more \in Seq({Refused} \cup Blocks) /\ Len(more) = Len(blocks[f]) + 1
            /\ more[Len(blocks[f]) + 1] = blk
            /\ \A k \in 1 .. Len(blocks[f]) : more[k] = blocks[f][k]
            /\ Range(more) = Range(blocks[f]) \cup {blk}
        BY <2>5, <4>1, <4>2, AppendTo
      <4>4. more # <<>>
        BY <4>1, <4>2
      <4>5. blocks[f] = <<>> => more[1] = blk
        BY <4>1, <4>2
      <4>6. blocks[f] # <<>> => more[1] = blocks[f][1]
        BY <4>1, <4>3
      <4>7. QED BY <4>1, <4>2, <4>3, <4>4, <4>5, <4>6
    <3> HIDE DEF more
    <3>4. /\ c1 \in Fcb /\ c1.file = f /\ c1.size = d.size /\ c1.arr = more /\ c1.buf = d.buf
          /\ c1.block_idx = d.block_idx /\ c1.current = d.current /\ c1.idx = d.idx
      BY <1>3, <1>4, <3>3 DEF Fcb
    <3> HIDE DEF c1
    <3>5. ASSUME Filled(f) PROVE Filling'
      <4>1. /\ Filling /\ Short /\ Writer(d) /\ n >= 0 /\ Granted(f)
            /\ d.size = Done /\ Holds(f, Done) /\ size[f] = Done
            /\ Done \in Nat /\ Done < BlockSize /\ BlockSize \in Nat
        <5>1. Done \in Nat /\ Done + n <= BlockSize /\ n \in -1 .. Chunk /\ BlockSize \in Nat
          BY <1>1, <1>5, <3>5, Typed, Constants
        <5>2. Done < BlockSize
          BY <1>8, <5>1
        <5>3. QED BY <1>5, <3>5, <5>1, <5>2
      <4>2. Granted(f)'
        <5>1. Refused \notin Range(blocks[f]) /\ blk # Refused
          BY <2>5, <4>1, NoBlock DEF Granted
        <5>2. Refused \notin Range(more)
          BY <3>3, <5>1
        <5>3. QED BY <1>2, <5>2 DEF Granted, more
      <4>3. CASE Done = 0
        <5>1. d.idx = 0 /\ d.block_idx = 0 /\ d.arr = <<>> /\ d.current = 0
          BY <1>2, <4>1, <4>3 DEF Writer
        <5>2. more = <<blk>> /\ more[1] = blk
          BY <1>4, <3>3, <5>1
        <5>3. first = [fcb |-> next_block(c1, data), ok |-> next_block(c1, data).current \in Blocks]
          BY <3>4, <5>1 DEF AtFirstBlock
        <5> DEFINE c2 == next_block(c1, data)
        <5>4. /\ c2 \in Fcb /\ c2.file = f /\ c2.size = d.size /\ c2.arr = more
              /\ c2.block_idx = 1 /\ c2.current = blk /\ c2.idx = 0
          <6>1. c1.block_idx = 0 /\ Len(c1.arr) = 1 /\ 0 + 1 = 1
            BY <3>4, <5>1, <5>2
          <6>2. /\ c2 \in Fcb /\ c2.file = c1.file /\ c2.size = c1.size /\ c2.arr = c1.arr
                /\ c2.block_idx = c1.block_idx + 1
                /\ c1.block_idx < Len(c1.arr) => c2.current = c1.arr[c1.block_idx + 1]
                /\ c2.current \in Blocks => c2.idx = 0
            <7>1. c1 \in Fcb /\ c1.block_idx <= Len(c1.arr) /\ c2 = next_block(c1, data)
              BY <3>4, <6>1
            <7> HIDE DEF c2
            <7>2. QED BY ONLY <1>4, <7>1, NextBlock
          <6> HIDE DEF c2
          <6>3. c2.current = blk
            BY <3>4, <5>2, <6>1, <6>2
          <6>4. QED BY <2>5, <3>4, <6>1, <6>2, <6>3
        <5> HIDE DEF c2
        <5>5. first.ok /\ first.fcb = c2
          <6>1. first = [fcb |-> c2, ok |-> c2.current \in Blocks]
            BY <5>3 DEF c2
          <6> HIDE DEF first
          <6>2. QED BY <2>5, <5>4, <6>1
        <5> HIDE DEF first
        <5>6. pc' = "store" /\ fcb'["dst"] = c2
          BY <2>2, <2>3, <5>5
        <5>7. Short' /\ Total' = Total /\ Done' = 0
          BY <1>6, <2>3, <3>1, <4>1, <4>3, <5>6
        <5>8. Writer(fcb["dst"])'
          <6> DEFINE e == fcb["dst"]
          <6>1. e' = c2
            BY <5>6
          <6> HIDE DEF e
          <6>2. Holds(e.file, Done)'
            BY <5>7 DEF Holds
          <6>3. Writer(e)'
            <7>1. /\ c2.size = 0 /\ c2.idx = 0 /\ c2.block_idx = 1 /\ c2.arr # <<>>
                  /\ c2.current = c2.arr[1]
              BY <3>3, <4>1, <4>3, <5>2, <5>4
            <7>2. 0 \notin 1 .. BlockSize - 1 /\ 0 # BlockSize
              BY Constants
            <7>3. QED BY <5>7, <6>1, <6>2, <7>1, <7>2, <1>2, <1>8, <5>6 DEF Writer
          <6>4. QED BY <6>3 DEF e
        <5>9. IsOpen("dst")'
          BY <5>4, <5>6, Blank DEF IsOpen
        <5>10. QED BY <1>2, <3>1, <4>1, <4>2, <4>3, <5>6, <5>7, <5>8, <5>9 DEF Filling
      <4>4. CASE Done # 0
        <5>1. /\ d.block_idx = 1 /\ d.arr # <<>> /\ d.current = d.arr[1] /\ d.idx = Done
              /\ Begins(d.buf, Done) /\ Done \in 1 .. BlockSize - 1 /\ Done > 0
          <6>1. Done \in 1 .. BlockSize - 1 /\ Done > 0
            BY <4>1, <4>4
          <6>2. QED BY <4>1, <6>1 DEF Writer
        <5>2. blocks[f] # <<>> /\ blocks[f][1] # 0 /\ more[1] = blocks[f][1] /\ d.current = more[1]
          <6>1. blocks[f] # <<>> /\ 1 \in 1 .. Len(blocks[f])
            BY <1>4, <3>3, <5>1
          <6>2. blocks[f][1] \in {Refused} \cup Blocks
            BY <3>3, <6>1
          <6>3. QED BY <1>4, <3>3, <5>1, <6>1, <6>2, NoBlock
        <5>3. first = [fcb |-> c1, ok |-> TRUE]
          BY <3>4, <5>2 DEF AtFirstBlock
        <5>4. first.ok /\ first.fcb = c1
          <6> HIDE DEF first
          <6>1. QED BY <5>3
        <5> HIDE DEF first
        <5>5. pc' = "store" /\ fcb'["dst"] = c1
          BY <2>2, <2>3, <5>4
        <5>6. Short' /\ Total' = Total /\ Done' = Done
          BY <1>6, <2>3, <3>1, <4>1, <5>5
        <5>7. Writer(fcb["dst"])'
          <6> DEFINE e == fcb["dst"]
          <6>1. e' = c1
            BY <5>5
          <6> HIDE DEF e
          <6>2. Holds(e.file, Done)'
            <7>1. Begins(data'[more[1]], Done) /\ more # <<>>
              BY <1>2, <3>3, <4>1, <5>1, <5>2 DEF Holds
            <7>2. e'.file = f
              BY <3>4, <6>1
            <7>3. QED BY <5>6, <7>1, <7>2 DEF Holds, Begins, more
          <6>3. Writer(e)'
            <7>1. /\ c1.size = Done /\ c1.idx = Done /\ c1.block_idx = 1 /\ c1.arr # <<>>
                  /\ c1.current = c1.arr[1] /\ Begins(c1.buf, Done)
              BY <3>3, <3>4, <4>1, <5>1, <5>2
            <7>2. Done # 0 /\ Done # BlockSize
              BY <4>1, <4>4
            <7>3. QED BY <5>6, <6>1, <6>2, <7>1, <7>2 DEF Writer, Begins
          <6>4. QED BY <6>3 DEF e
        <5>8. IsOpen("dst")'
          BY <3>4, <5>5, Blank DEF IsOpen
        <5>9. QED BY <1>2, <3>1, <4>1, <4>2, <5>5, <5>6, <5>7, <5>8 DEF Filling
      <4>5. QED BY <4>3, <4>4
    <3>6. QED BY <1>2, <1>3, <2>3, <3>1, <3>2, <3>5, WritingCopies
  <2>6. QED BY <2>4, <2>5
<1>9. QED BY <1>7, <1>8

\* ... the data's: the bytes go to the first block, behind the ones passed on,
LEMMA StoreCopies ==
  ASSUME FewCalls, IInv, IInv', Copying, Next, Store
  PROVE  Copying'
<1> DEFINE d == fcb["dst"]
           f == job.dst
           n == buf.count
           s == Stored(d, n, buf.bytes)
<1>1. TypeOK /\ Phases /\ Settled
  BY DEF IInv, Copying
<1>2. /\ pc = "store" /\ IsOpen("dst") /\ data' = s.data /\ fcb' = [fcb EXCEPT !["dst"] = s.fcb]
      /\ IF s.ok THEN pc' = "record" ELSE AfterWrite
      /\ UNCHANGED <<exists, size, blocks, job, buf, origin>>
  BY DEF Store, hist
<1>3. f \in Files /\ d.file = f /\ job.chunk = Chunk /\ d # NoFcb /\ d # Stray
  BY <1>1, <1>2 DEF Phases, IsOpen
<1>4. d \in Fcb /\ Destination(d) /\ d.arr = blocks[f] /\ data \in [Blocks -> [1 .. BlockSize -> Cell]]
  <2>1. d \in Fcb /\ Destination(d) /\ data \in [Blocks -> [1 .. BlockSize -> Cell]]
    BY <1>1, <1>2, Openness DEF IInv, TypeOK
  <2>2. QED BY <1>3, <2>1 DEF Destination
<1>5. fcb'["dst"] = s.fcb /\ fcb'["src"] = fcb["src"] /\ Onward
  <2> HIDE DEF s
  <2>1. QED BY <1>1, <1>2 DEF TypeOK, Onward
<1>6. ASSUME Filled(f) PROVE Filling'
  <2>1. Filling /\ Short /\ Writer(d) /\ n >= 0 /\ Granted(f) /\ size[f] = Done
    BY <1>2, <1>3, <1>6 DEF Copying, Filling
  <2> DEFINE w == Done
  <2>2. /\ n \in Nat /\ n <= Chunk /\ buf.bytes \in Seq(Cell) /\ Len(buf.bytes) = n
        /\ w \in Nat /\ w + n = Sent /\ Sent \in Nat /\ w + n <= BlockSize
        /\ \A k \in 1 .. n : buf.bytes[k] = w + k
    <3>1. /\ n \in -1 .. Chunk /\ buf.bytes \in Seq(Cell) /\ Len(buf.bytes) = n
          /\ Sent \in Nat /\ Total \in Nat /\ Sent <= Total /\ Total <= BlockSize /\ Passing
          /\ Done = Sent - (IF n > 0 THEN n ELSE 0) /\ Sent - (IF n > 0 THEN n ELSE 0) \in Nat
      BY <1>2, <2>1, Counted
    <3> HIDE DEF n, w
    <3>2. w = Sent - n /\ w \in Nat /\ w + n = Sent /\ n <= Chunk /\ n \in Nat /\ w + n <= BlockSize
      BY <2>1, <3>1, Constants DEF w
    <3>3. \A k \in 1 .. n : buf.bytes[k] = w + k
      BY <3>1, <3>2 DEF Passing
    <3>4. QED BY <3>1, <3>2, <3>3
  <2>3. /\ d.size = w
        /\ w = 0 => d.idx = 0
        /\ w = 0 /\ n > 0 => d.block_idx = 1 /\ d.arr # <<>> /\ d.current = d.arr[1]
        /\ w = 0 /\ n = 0 => d.block_idx = 0 /\ d.arr = <<>> /\ d.current = 0
        /\ w \in 1 .. BlockSize - 1 =>
             /\ d.block_idx = 1 /\ d.arr # <<>> /\ d.current = d.arr[1] /\ d.idx = w
             /\ Begins(d.buf, w)
        /\ w = BlockSize => d.idx = 0
        /\ Holds(f, w)
    BY <1>2, <1>3, <2>1, <2>2 DEF Writer
  <2>4. /\ Refused \notin Range(d.arr) /\ d.arr \in Seq({Refused} \cup Blocks)
        /\ d.idx \in Nat /\ d.idx < BlockSize /\ BlockSize \in Nat /\ InLoop /\ (Adding <=> n > 0)
        /\ Position(d) /\ d.current \in {0} \cup Range(d.arr)
    <3>1. Refused \notin Range(d.arr) /\ Granted(d.file)
      BY <1>3, <1>4, <2>1 DEF Granted
    <3>2. InLoop /\ (Adding <=> n > 0)
      BY <1>2 DEF InLoop, Adding
    <3>3. QED BY <1>4, <3>1, <3>2, Fields, Constants DEF Destination
  <2> HIDE DEF w
  <2>5. /\ s.ok /\ s.fcb \in Fcb /\ s.fcb.file = f /\ s.fcb.arr = d.arr /\ s.fcb.size = Sent
        /\ Sent = 0 => s.fcb.idx = 0 /\ s.fcb.block_idx = 0 /\ s.fcb.arr = <<>> /\ s.fcb.current = 0
        /\ Sent \in 1 .. BlockSize - 1 =>
             /\ s.fcb.block_idx = 1 /\ d.arr # <<>> /\ s.fcb.current = d.arr[1] /\ s.fcb.idx = Sent
             /\ Begins(s.fcb.buf, Sent)
        /\ Sent = BlockSize => s.fcb.idx = 0
        /\ Sent > 0 => d.arr # <<>> /\ Begins(s.data[d.arr[1]], Sent)
    <3>1. CASE n = 0
      <4>1. d.block_idx <= Len(d.arr)
        <5>1. Room(d.block_idx, d.idx, Len(d.arr))
          <6>1. ~Adding
            BY <2>4, <3>1
          <6>2. QED BY <2>4, <6>1 DEF Position, Written
        <5>2. QED BY <5>1 DEF Room
      <4>2. StoresNothing(d, n, s)
        <5>1. n \in -1 .. 0
          BY <3>1
        <5> HIDE DEF d, n
        <5>2. QED BY <1>4, <2>4, <4>1, <5>1, StoringNothing
      <4>3. w = Sent /\ d.size + n = w /\ w \in 0 .. BlockSize
        <5> HIDE DEF d, n
        <5>1. QED BY <2>2, <2>3, <2>4, <3>1
      <4> HIDE DEF s, d, n
      <4>4. /\ s.ok /\ s.data = data /\ s.fcb.size = w /\ s.fcb \in Fcb
            /\ s.fcb.file = d.file /\ s.fcb.arr = d.arr /\ s.fcb.idx = d.idx
            /\ s.fcb.block_idx = d.block_idx /\ s.fcb.current = d.current
            /\ s.fcb.buf = d.buf
        <5>1. (d.size + n) % SizeLimit = w
          BY <4>3, BlockCounts
        <5>2. QED BY <2>4, <4>2, <5>1 DEF StoresNothing
      <4>5. w > 0 => d.arr # <<>> /\ Begins(data[d.arr[1]], w)
        BY <1>4, <2>3 DEF Holds
      <4>6. QED BY <1>3, <2>3, <3>1, <4>3, <4>4, <4>5
    <3>2. CASE n > 0
      <4>1. n \in 1 .. Chunk /\ w + n <= BlockSize /\ w < BlockSize
        <5> HIDE DEF n
        <5>1. QED BY <2>2, <2>4, <3>2, Constants
      <4>2. /\ d.size = w /\ d.idx = w /\ d.arr # <<>> /\ d.current = d.arr[1] /\ d.block_idx = 1
            /\ Begins(d.buf, w)
        <5> HIDE DEF d, n
        <5>1. CASE w = 0
          BY <2>3, <3>2, <5>1 DEF Begins
        <5>2. CASE w > 0
          <6>1. w \in 1 .. BlockSize - 1
            BY <2>2, <2>4, <4>1, <5>2
          <6>2. QED BY <2>3, <6>1
        <5>3. QED BY <2>2, <5>1, <5>2
      <4>3. Behind(d, Len(d.arr))
        <5>1. Adding /\ Written(d) = Len(d.arr) - 1 /\ Len(d.arr) \in Nat
          BY <2>4, <3>2 DEF Written
        <5>2. Len(d.arr) - 1 + 1 = Len(d.arr)
          BY <5>1
        <5> HIDE DEF d
        <5>3. QED BY <2>4, <5>1, <5>2 DEF Position, Behind
      <4> HIDE DEF d, n
      <4>4. s = Stored(d, n, buf.bytes)
        OBVIOUS
      <4> HIDE DEF s
      <4>5. FirstBlock(d, w + n, s)
        <5>1. /\ data \in [Blocks -> [1 .. BlockSize -> Cell]]
              /\ d \in Fcb /\ w \in Nat /\ n \in 1 .. Chunk /\ w + n <= BlockSize
              /\ buf.bytes \in Seq(Cell) /\ Len(buf.bytes) = n
              /\ \A k \in 1 .. n : buf.bytes[k] = w + k
          BY <1>4, <2>2, <4>1
        <5>2. Refused \notin Range(d.arr)
          BY <2>4
        <5>3. QED BY ONLY <4>2, <4>3, <4>4, <5>1, <5>2, StoringShort
      <4>6. w + n = Sent /\ Sent > 0 /\ Sent \in Nat /\ BlockSize \in Nat
        BY <2>2, <2>4, <4>1
      <4>7. QED BY <1>3, <4>2, <4>5, <4>6 DEF FirstBlock
    <3>3. QED BY <2>2, <3>1, <3>2
  <2>6. pc' = "record" /\ Short' /\ Total' = Total /\ Sent' = Sent /\ Done' = Sent
    <3>1. pc' = "record"
      BY <1>2, <2>5
    <3>2. job.dst # Linux /\ \A g \in Files \ {job.dst} : blocks'[g] = blocks[g]
      BY <1>3, OthersKept, Constants
    <3>3. QED BY <1>2, <1>5, <2>1, <3>1, <3>2, FeedingKept
  <2>7. Writer(fcb["dst"])'
    <3> DEFINE e == fcb["dst"]
    <3>1. e' = s.fcb
      BY <1>5
    <3>2. Sent > 0 => blocks'[f] # <<>> /\ Begins(data'[blocks'[f][1]], Sent)
      BY <1>2, <1>4, <2>5
    <3> HIDE DEF e, s, d
    <3>3. Holds(e.file, Done)'
      BY <2>5, <2>6, <3>1, <3>2, <1>2 DEF Holds, Begins
    <3>4. Writer(e)'
      BY <2>5, <2>6, <3>1, <3>3 DEF Writer, Begins
    <3>5. QED BY <3>4 DEF e
  <2>8. IsOpen("dst")' /\ Granted(f)'
    <3> HIDE DEF s
    <3>1. IsOpen("dst")'
      BY <1>5, <2>5, Blank DEF IsOpen
    <3>2. QED BY <1>2, <2>1, <3>1 DEF Granted
  <2>9. QED BY <1>2, <2>1, <2>6, <2>7, <2>8 DEF Filling
<1>7. Filled(f)' <=> Filled(f)
  BY <1>2 DEF Filled
<1>8. QED BY <1>2, <1>3, <1>5, <1>6, <1>7, WritingCopies

\* ... and the directory's: the size that is recorded is what has been passed on.
LEMMA RecordCopies ==
  ASSUME FewCalls, IInv, IInv', Copying, Next, Record
  PROVE  Copying'
<1> DEFINE d == fcb["dst"]
           f == job.dst
<1>1. TypeOK /\ Phases /\ Settled
  BY DEF IInv, Copying
<1>2. /\ pc = "record" /\ size' = [size EXCEPT ![f] = d.size] /\ AfterWrite
      /\ UNCHANGED <<exists, blocks, data, fcb, job, buf, origin>>
  BY DEF Record, hist
<1>3. f \in Files /\ IsOpen("dst") /\ d.file = f /\ job.chunk = Chunk /\ d # NoFcb
  BY <1>1, <1>2 DEF Phases, IsOpen
<1>4. Onward /\ pc' \in {"read", "close"}
  BY <1>2 DEF Onward, AfterWrite
<1>5. ASSUME Filled(f) PROVE Filling'
  <2>1. Filling /\ Short /\ Writer(d)
    BY <1>2, <1>3, <1>5 DEF Copying, Filling
  <2>2. Short' /\ Total' = Total /\ Done' = Sent /\ Done = Sent
    <3>1. job.dst # Linux /\ \A g \in Files \ {job.dst} : blocks'[g] = blocks[g]
      BY <1>2, <1>3, Constants
    <3>2. Short' /\ Total' = Total /\ Done' = Sent
      BY <1>2, <1>4, <2>1, <3>1, FeedingKept
    <3>3. Done = Sent
      BY <1>2 DEF Done
    <3>4. QED BY <3>2, <3>3
  <2>3. size'[f] = Done'
    BY <1>1, <1>2, <1>3, <2>1, <2>2 DEF TypeOK, Writer
  <2>4. Writer(d)'
    <3>1. d' = d /\ Holds(d.file, Done)' = Holds(d.file, Done)
      BY <1>2, <2>2 DEF Holds, Begins
    <3> HIDE DEF d
    <3>2. QED BY <1>2, <1>4, <2>1, <2>2, <3>1 DEF Writer
  <2>5. IsOpen("dst")' /\ Granted(f)'
    BY <1>2, <1>3, <2>1 DEF IsOpen, Granted, Filling
  <2>6. QED BY <1>2, <1>4, <2>1, <2>2, <2>3, <2>4, <2>5 DEF Filling
<1>6. Filled(f)' <=> Filled(f)
  BY <1>2 DEF Filled
<1>7. QED BY <1>2, <1>3, <1>4, <1>5, <1>6, WritingCopies

\* ... the end of the session, after which the file it was filling is no longer
\* one that a command has filled,
LEMMA DeathCopies ==
  ASSUME IInv, Copying, Died
  PROVE  Copying'
<1>1. /\ job' = NoJob /\ pc' = "prompt" /\ UNCHANGED <<exists, size, blocks, data>>
      /\ fcb'["dst"] = NoFcb
      /\ origin' = [f \in Files |-> IF f = job.dst THEN Mixed ELSE origin[f]]
  BY DEF Died, disk
<1>2. Settled /\ job'.dst = Linux /\ job'.dst \notin Files
  BY <1>1, Constants DEF Copying, NoJob
<1>3. Mixed \in Int /\ Mixed \notin 0 .. BlockSize
  BY Constants DEF Mixed
<1>4. origin' \in [Files -> Int]
  BY <1>1, <1>2, <1>3 DEF Settled
<1>5. ASSUME NEW f \in Files \ exists' PROVE size'[f] = 0 /\ blocks'[f] = <<>> /\ origin'[f] = Mixed
  BY <1>1, <1>2, <1>5 DEF Settled
<1>6. ASSUME NEW f \in Files, Filled(f)' PROVE Granted(f)' /\ size'[f] = origin'[f] /\ Holds(f, origin[f])'
  <2>1. f # job.dst /\ origin'[f] = origin[f]
    BY <1>1, <1>3, <1>6 DEF Filled
  <2>2. Granted(f) /\ size[f] = origin[f] /\ Holds(f, origin[f])
    BY <1>2, <1>6, <2>1 DEF Settled, Filled
  <2>3. QED BY <1>1, <2>1, <2>2 DEF Holds, Begins, Granted
<1>7. QED BY <1>1, <1>2, <1>4, <1>5, <1>6 DEF Copying, Settled, Short

\* ... closing the source, which writes back what is there,
LEMMA CloseSrcCopies ==
  ASSUME FewCalls, IInv, IInv', Copying, Next, CloseSrc
  PROVE  Copying'
<1> DEFINE c == fcb["src"]
           d == fcb["dst"]
<1>1. /\ pc = "close" /\ pc' = "close dst"
      /\ data' = IF IsOpen("src") THEN b_close(c) ELSE data
      /\ fcb' = [fcb EXCEPT !["src"] = NoFcb]
      /\ UNCHANGED <<exists, size, blocks, job, buf, origin>>
  BY DEF CloseSrc, hist
<1>2. TypeOK /\ fcb'["dst"] = d
  BY <1>1 DEF IInv, TypeOK
<1>3. (Short' <=> Short) /\ Total' = Total
  BY <1>1 DEF Short, Total
<1>4. Settled'
  BY <1>1, <1>2, SettledKept DEF Copying
<1>5. Short => Feeding'
  BY <1>1 DEF Copying, Feeding, InLoop
<1>6. ASSUME job.dst \in Files, Filled(job.dst) PROVE Filling'
  <2>1. Filling /\ Short /\ Writer(d) /\ job.src # job.dst /\ IsOpen("dst") /\ Granted(job.dst)
    BY <1>1, <1>6 DEF Copying, Filling, Short
  <2>2. data' = data
    <3>1. CASE IsOpen("src")
      <4>1. c \in Fcb /\ Source(c) /\ c.file = job.src
        BY <1>2, <3>1, Openness DEF IInv, Phases
      <4>2. c.current \notin Blocks \/ c.buf = data[c.current]
        BY <2>1, <4>1 DEF Source
      <4>3. QED BY <1>1, <1>2, <3>1, <4>1, <4>2, Closing
    <3>2. CASE ~IsOpen("src")
      BY <1>1, <3>2
    <3>3. QED BY <3>1, <3>2
  <2>3. Writer(d)'
    <3>1. d' = d /\ Done = Total /\ Done' = Total /\ Holds(d.file, Done)' = Holds(d.file, Done)
      <4>1. Done = Total /\ Done' = Total
        BY <1>1, <1>3 DEF Done
      <4>2. QED BY <1>1, <1>2, <2>2, <4>1 DEF Holds, Begins
    <3> HIDE DEF d
    <3>2. QED BY <1>1, <2>1, <3>1 DEF Writer
  <2>4. size'[job.dst] = Done'
    BY <1>1, <1>3, <2>1 DEF Filling, Done
  <2>5. IsOpen("dst")' /\ Granted(job.dst)'
    BY <1>1, <1>2, <2>1 DEF IsOpen, Granted
  <2>6. QED BY <1>1, <1>3, <2>1, <2>3, <2>4, <2>5 DEF Filling
<1>7. QED BY <1>1, <1>3, <1>4, <1>5, <1>6 DEF Copying, Filled

\* ... and closing the destination, which writes back the first block: the file
\* is filled.
LEMMA CloseDstCopies ==
  ASSUME FewCalls, IInv, Copying, Next, CloseDst
  PROVE  Copying'
<1> DEFINE d == fcb["dst"]
<1>1. /\ pc \in {"close", "close dst"}
      /\ data' = IF IsOpen("dst") THEN b_close(d) ELSE data
      /\ fcb' = [fcb EXCEPT !["dst"] = NoFcb]
      /\ job' = NoJob /\ pc' = "prompt" /\ UNCHANGED <<exists, size, blocks, origin>>
  BY DEF CloseDst, hist
<1>2. TypeOK /\ Phases /\ Settled /\ job'.dst = Linux /\ Linux \notin Files
  BY <1>1, Constants DEF IInv, Copying, NoJob
<1>3. fcb'["dst"] = NoFcb
  BY <1>1, <1>2 DEF TypeOK
<1>4. ASSUME NEW f \in Files \ {job.dst}, Filled(f)
      PROVE  Granted(f)' /\ size'[f] = origin'[f] /\ Holds(f, origin[f])'
  <2>1. Granted(f) /\ size[f] = origin[f] /\ Holds(f, origin[f]) /\ origin[f] \in Int
    BY <1>2, <1>4 DEF Settled
  <2> DEFINE n == origin[f]
  <2>2. size'[f] = size[f] /\ blocks'[f] = blocks[f] /\ Granted(f)' /\ Holds(f, n)'
    <3>1. n \in Int /\ Holds(f, n)
      BY <2>1
    <3>2. (origin[f])' = origin[f]
      BY <1>1
    <3>3. Granted(f)' /\ Holds(f, origin[f])' /\ size'[f] = size[f] /\ blocks'[f] = blocks[f]
      <4>1. PICK m : m = origin[f]
        OBVIOUS
      <4>2. m' = m
        OBVIOUS
      <4>3. QED BY <2>1, <4>1, <3>2, HoldsKept DEF Holds, Begins
    <3>4. QED BY <3>3
  <2>3. QED BY <1>1, <2>1, <2>2
<1>5. ASSUME NEW f \in Files, f = job.dst, Filled(f)
      PROVE  Granted(f)' /\ size'[f] = origin'[f] /\ Holds(f, origin[f])'
  <2>1. Filling /\ Short /\ Writer(d) /\ origin[f] = Total /\ size[f] = Done /\ IsOpen("dst") /\ Granted(f)
    BY <1>1, <1>5 DEF Copying, Filling
  <2>2. d \in Fcb /\ Destination(d) /\ d.file = f
    BY <1>2, <1>5, <2>1, Openness DEF IInv, Phases
  <2>3. Done = Total /\ Total \in 0 .. BlockSize
    BY <1>1, <2>1 DEF Done, Short
  <2>4. d.arr = blocks[f] /\ d.arr \in Seq({Refused} \cup Blocks) /\ BlockSize \in Nat
    BY <2>2, Fields, Constants DEF Destination
  <2>5. data' = b_close(d) /\ data \in [Blocks -> [1 .. BlockSize -> Cell]]
    BY <1>1, <1>2, <2>1 DEF TypeOK
  <2>6. ASSUME Total > 0 PROVE blocks[f] # <<>> /\ Begins(data'[blocks[f][1]], Total)
    <3>1. blocks[f] # <<>> /\ Begins(data[blocks[f][1]], Total)
      BY <2>1, <2>2, <2>3, <2>6 DEF Writer, Holds
    <3>2. CASE Total = BlockSize
      <4>1. d.idx = 0
        BY <2>1, <2>3, <3>2 DEF Writer
      <4>2. data' = data
        BY <2>5, <4>1 DEF b_close
      <4>3. QED BY <3>1, <4>2
    <3>3. CASE Total \in 1 .. BlockSize - 1
      <4>1. d.current = d.arr[1] /\ d.idx = Total /\ Begins(d.buf, Total)
        BY <2>1, <2>3, <3>3 DEF Writer
      <4>2. d.arr[1] \in Blocks /\ d.idx > 0
        <5>1. d.arr[1] \in {Refused} \cup Blocks /\ d.arr[1] \in Range(d.arr)
          BY <2>4, <3>1, RangeOf
        <5>2. QED BY <2>1, <2>4, <2>6, <4>1, <5>1 DEF Granted
      <4>3. data' = [data EXCEPT ![d.arr[1]] = d.buf]
        BY <2>5, <4>1, <4>2 DEF b_close, LBAwrite
      <4>4. data'[d.arr[1]] = d.buf
        BY <2>5, <4>2, <4>3
      <4>5. QED BY <2>4, <3>1, <4>1, <4>4
    <3>4. QED BY <2>3, <2>4, <2>6, <3>2, <3>3
  <2>7. Holds(f, origin[f])'
    BY <1>1, <1>5, <2>1, <2>6 DEF Holds, Begins
  <2>8. QED BY <1>1, <2>1, <2>3, <2>7 DEF Granted
<1>6. Settled'
  <2>1. \A f \in Files \ exists : size[f] = 0 /\ blocks[f] = <<>> /\ origin[f] = Mixed
    BY <1>2 DEF Settled
  <2>2. \A f \in Files : Filled(f) => Granted(f)' /\ size'[f] = origin'[f] /\ Holds(f, origin[f])'
    BY <1>4, <1>5
  <2>3. QED BY <1>1, <1>2, <1>3, <2>1, <2>2 DEF Settled, Filled
<1>7. QED BY <1>1, <1>2, <1>6 DEF Copying, Short

\* The bytes are where they belong at the beginning,
LEMMA CopyingInitially ==
  Init => Copying
<1> SUFFICES ASSUME Init PROVE Copying
  OBVIOUS
<1>1. Mixed \in Int /\ Mixed \notin 0 .. BlockSize
  BY Constants DEF Mixed
<1>2. fcb["dst"] = NoFcb
  BY DEF Init
<1>3. QED BY <1>1, <1>2 DEF Init, Copying, Settled, Short, Filled, NoJob

\* and after every step.
LEMMA CopyingStep ==
  ASSUME FewCalls, IInv, IInv', Copying, [Next]_vars
  PROVE  Copying'
<1>1. CASE cmd_cp
  <2>1. PICK f \in Files, g \in Files : Start(f, g, Chunk, 0)
    BY <1>1 DEF cmd_cp
  <2>2. f # Linux
    BY Constants
  <2>3. QED BY <2>1, <2>2, StartCopies
<1>2. CASE cmd_cp2l
  <2>1. PICK f \in Files : Start(f, Linux, Chunk, 0)
    BY <1>2 DEF cmd_cp2l
  <2>2. f # Linux
    BY Constants
  <2>3. QED BY <2>1, <2>2, StartCopies
<1>3. CASE cmd_cp2fs
  <2>1. PICK g \in Files, n \in Lengths : Start(Linux, g, Chunk, n)
    BY <1>3 DEF cmd_cp2fs
  <2>2. n \in {-1} \cup Nat
    BY <2>1, FileIOAssumption
  <2>3. QED BY <2>1, <2>2, StartCopies
<1>4. CASE cmd_cat
  <2>1. PICK f \in exists : Start(f, Linux, Chunk - 1, 0)
    BY <1>4 DEF cmd_cat
  <2>2. f \in Files /\ f # Linux
    BY <2>1, Constants DEF IInv, TypeOK
  <2>3. QED BY <2>1, <2>2, StartCopies
<1>5. CASE DieInWrite \/ DieInClose \/ Crash
  BY <1>5, DeathCopies DEF DieInWrite, DieInClose, Crash
<1>6. CASE ReadLinux \/ ReadFile \/ WriteLinux \/ WriteNowhere \/ ExtendHalfOpen \/ StoreHalfOpen
             \/ FailToReallocate \/ Extend \/ Store \/ Record \/ CloseSrc \/ CloseDst
  <2>1. Next
    BY <1>6 DEF Next, Step, b_write
  <2>2. QED BY <1>6, <2>1, ReadLinuxCopies, ReadFileCopies, WriteLinuxCopies, ClosedCopies,
           ReallocateCopies, ExtendCopies, StoreCopies, RecordCopies, CloseSrcCopies, CloseDstCopies
<1>7. CASE UNCHANGED vars
  <2>1. UNCHANGED <<exists, size, blocks, data, fcb, job, pc, buf, out, origin>>
    BY <1>7 DEF vars, disk, hist
  <2>2. Settled' /\ (Short' <=> Short) /\ Total' = Total /\ Sent' = Sent /\ Done' = Done
    BY <2>1 DEF Copying, Settled, Holds, Begins, Filled, Granted, Short, Total, Sent, Done
  <2>3. Short => Feeding'
    BY <2>1, <2>2 DEF Copying, Feeding, Reader, Passing, IsOpen, InLoop, Chunks, Reprinted
  <2>4. pc # "prompt" /\ job.dst \in Files /\ Filled(job.dst) => Filling'
    BY <2>1, <2>2 DEF Copying, Filling, Writer, Holds, Begins, IsOpen, Granted, Whole
  <2>5. QED BY <2>1, <2>2, <2>3, <2>4 DEF Copying, Filled
<1>8. QED BY <1>1, <1>2, <1>3, <1>4, <1>5, <1>6, <1>7 DEF Next, Step, b_write

\* A file of at most a block comes back byte for byte from every chain of
\* commands that copies it in, on and out, whatever else the session does in
\* between and wherever it has been ended before, unless a request for a block
\* was refused on the way; and cat prints the last chunk of it twice if that is
\* a full one.
THEOREM ShortFilesComeBack ==
  ASSUME FewCalls
  PROVE  Spec => []ShortFilesRoundTrip
<1>1. IInv /\ IInv' /\ Copying /\ [Next]_vars => Copying'
  BY CopyingStep
<1>2. IInv /\ Copying => ShortFilesRoundTrip
  <2>1. SUFFICES ASSUME IInv, Copying, pc = "close", job.dst = Linux, job.src \in exists,
                        Filled(job.src)
                 PROVE  out = Numbers(1, origin[job.src]) \o Reprinted(origin[job.src])
    BY DEF ShortFilesRoundTrip
  <2>2. job.src \in Files /\ job.src # Linux
    BY <2>1, Constants DEF IInv, TypeOK
  <2>3. Total = origin[job.src] /\ Done = Total
    BY <2>1, <2>2 DEF Total, Done
  <2>4. Short
    BY <2>1, <2>2, <2>3 DEF Short, Filled
  <2>5. QED BY <2>1, <2>3, <2>4 DEF Copying, Feeding
<1>3. QED BY <1>1, <1>2, Inductive, CopyingInitially, PTL DEF Spec

-----------------------------------------------------------------------------
(* The loop's end *)

\* How far the source can still be read: to the end of the Linux file, or to
\* the end of the file's blocks, the first of which next_block arrives at twice.
Unread ==
  IF job.src = Linux THEN IF job.total > job.pos THEN job.total - job.pos ELSE 0
  ELSE IF IsOpen("src") THEN (Len(fcb["src"].arr) + 1) * BlockSize - Ahead(fcb["src"]) ELSE 0

\* The steps from where a command is to its next read, or to the prompt.
Rank(phase) ==
  CASE phase = "write"     -> 6
    [] phase = "store"     -> 5
    [] phase = "record"    -> 4
    [] phase = "read"      -> 3
    [] phase = "close"     -> 2
    [] phase = "close dst" -> 1
    [] phase = "prompt"    -> 0

\* What is left to be done.
Remaining == IF Resumes THEN 8 * (Unread + 1) + Rank(pc) ELSE Rank(pc)

\* The order of the phases.
LEMMA Ranks ==
  /\ Rank("read") = 3 /\ Rank("write") = 6
  /\ \A a \in {"write", "store", "record"} : \A b \in {"read", "close"} :
       Rank(a) \in Nat /\ Rank(b) \in Nat /\ Rank(b) < Rank(a)
  /\ Rank("store") \in Nat /\ Rank("record") \in Nat
  /\ Rank("store") < Rank("write") /\ Rank("record") < Rank("store")
  /\ \A a \in {"write", "store", "close", "close dst"} :
       Rank(a) \in Nat /\ Rank("prompt") \in Nat /\ Rank("prompt") < Rank(a)
  /\ Rank("close dst") \in Nat /\ Rank("close dst") < Rank("close")
BY DEF Rank

\* A descriptor that has not run out of blocks is before their end.
LEMMA BeforeTheEnd ==
  ASSUME NEW c \in Fcb, c.idx < BlockSize, c.block_idx <= Len(c.arr)
  PROVE  (Len(c.arr) + 1) * BlockSize - Ahead(c) \in Nat
<1>1. /\ BlockSize \in Nat /\ c.idx \in Nat /\ c.block_idx \in Nat /\ Len(c.arr) \in Nat
  BY Constants, Fields
<1> DEFINE L == Len(c.arr)
           b == c.block_idx
<1>2. b * BlockSize <= L * BlockSize
  <2>1. L - b \in Nat /\ b + (L - b) = L
    BY <1>1
  <2>2. (L - b) * BlockSize \in Nat
    BY <1>1, <2>1
  <2>3. L * BlockSize = b * BlockSize + (L - b) * BlockSize
    BY <1>1, <2>1
  <2>4. QED BY <1>1, <2>2, <2>3
<1>3. (L + 1) * BlockSize = L * BlockSize + BlockSize
  BY <1>1
<1>4. Ahead(c) = b * BlockSize + c.idx /\ b * BlockSize \in Nat /\ L * BlockSize \in Nat
  BY <1>1 DEF Ahead
<1> HIDE DEF L, b
<1>5. (L + 1) * BlockSize - Ahead(c) \in Nat
  BY <1>1, <1>2, <1>3, <1>4
<1>6. QED BY <1>5 DEF L

\* What a command that reads on has before it.
LEMMA UnreadIsNat ==
  ASSUME IInv, Resumes
  PROVE  Unread \in Nat
<1>1. job.src \in Files \cup {Linux} /\ job.total \in {-1} \cup Nat /\ job.pos \in Nat
  BY JobParts DEF IInv
<1>2. CASE job.src = Linux
  BY <1>1, <1>2 DEF Unread
<1>3. CASE job.src # Linux /\ IsOpen("src")
  <2>1. fcb["src"] \in Fcb /\ fcb["src"].idx < BlockSize /\ fcb["src"].block_idx <= Len(fcb["src"].arr)
    BY <1>3, Openness DEF IInv, Source
  <2>2. QED BY <1>3, <2>1, BeforeTheEnd DEF Unread
<1>4. QED BY <1>2, <1>3 DEF Unread

\* A step that is not a read comes nearer to the next one, or to the prompt.
LEMMA LoopsOn ==
  ASSUME IInv, Rank(pc) \in Nat, Rank(pc') \in Nat, Rank(pc') < Rank(pc),
         Resumes' => Resumes /\ Unread' = Unread
  PROVE  Remaining \in Nat /\ Remaining' < Remaining
<1> DEFINE x == Rank(pc)
           y == Rank(pc')
<1>1. /\ x \in Nat /\ y \in Nat /\ y < x
      /\ Remaining = IF Resumes THEN 8 * (Unread + 1) + x ELSE x
      /\ Remaining' = IF Resumes' THEN 8 * (Unread' + 1) + y ELSE y
  BY DEF Remaining
<1>2. Resumes => Unread \in Nat
  BY UnreadIsNat
<1> HIDE DEF x, y
<1>3. CASE Resumes'
  BY <1>1, <1>2, <1>3
<1>4. CASE ~Resumes'
  BY <1>1, <1>2, <1>4
<1>5. QED BY <1>3, <1>4

\* A read of a full chunk leaves less to be read; no other is followed by one.
LEMMA Inward ==
  ASSUME IInv, pc = "read", pc' = "write", Resumes' => Unread' \in Int /\ Unread' < Unread
  PROVE  Remaining \in Nat /\ Remaining' < Remaining
<1>1. Resumes /\ Unread \in Nat
  BY UnreadIsNat DEF Resumes
<1>2. /\ Remaining = 8 * (Unread + 1) + 3
      /\ Remaining' = IF Resumes' THEN 8 * (Unread' + 1) + 6 ELSE 6
  BY <1>1, Ranks DEF Remaining
<1>3. QED BY <1>1, <1>2

\* A read of the Linux file, and one of a file.
LEMMA ReadComesNearer ==
  ASSUME IInv, ReadLinux \/ ReadFile
  PROVE  Remaining \in Nat /\ Remaining' < Remaining
<1>1. TypeOK /\ job.chunk \in 2 .. Chunk /\ Linux \notin Files
  BY JobParts, Constants DEF IInv
<1>2. CASE ReadLinux
  <2> DEFINE count == Smaller(Chunk, job.total - job.pos)
  <2>1. /\ pc = "read" /\ job.src = Linux /\ pc' = "write" /\ buf'.count = count
        /\ job' = [job EXCEPT !.pos = IF count > 0 THEN @ + count ELSE @]
    BY <1>2 DEF ReadLinux
  <2>2. /\ job'.src = Linux /\ job'.chunk = job.chunk /\ job'.total = job.total
        /\ job'.pos = IF count > 0 THEN job.pos + count ELSE job.pos
        /\ job.pos \in Nat /\ job.total \in {-1} \cup Nat
    <3>1. job \in [src : Files \cup {Linux}, dst : Files \cup {Linux},
                   chunk : {Chunk - 1, Chunk}, total : {-1} \cup Nat, pos : Nat]
      BY <1>1 DEF TypeOK
    <3> HIDE DEF count
    <3>2. QED BY <2>1, <3>1
  <2>3. count \in Int /\ count <= job.total - job.pos
    BY <2>2, Constants DEF Smaller
  <2> HIDE DEF count
  <2>4. Resumes' => Unread' \in Int /\ Unread' < Unread
    <3>1. SUFFICES ASSUME Resumes' PROVE Unread' \in Int /\ Unread' < Unread
      OBVIOUS
    <3>2. count >= 2
      BY <1>1, <2>1, <2>2, <3>1, Constants DEF Resumes
    <3>3. Unread = job.total - job.pos /\ job'.pos = job.pos + count
      BY <2>1, <2>2, <2>3, <3>2 DEF Unread
    <3>4. Unread' = IF job.total > job'.pos THEN job.total - job'.pos ELSE 0
      BY <2>2 DEF Unread
    <3>5. QED BY <2>2, <2>3, <3>2, <3>3, <3>4
  <2>5. QED BY <2>1, <2>4, Inward
<1>3. CASE ReadFile
  <2> DEFINE c == fcb["src"]
             r == b_read(c, job.chunk)
  <2>1. /\ pc = "read" /\ job.src \in Files /\ pc' = "write" /\ job' = job
        /\ IsOpen("src") =>
             /\ buf' = [count |-> r.count, bytes |-> IF r.count = -1 THEN buf.bytes ELSE r.bytes]
             /\ fcb' = [fcb EXCEPT !["src"] = r.fcb]
        /\ ~IsOpen("src") => buf' = [buf EXCEPT !.count = -1]
    BY <1>3 DEF ReadFile
  <2>2. CASE ~IsOpen("src")
    <3>0. buf'.count = -1
      BY <1>1, <2>1, <2>2 DEF TypeOK
    <3>1. ~Resumes'
      BY <1>1, <2>1, <3>0, Constants DEF Resumes
    <3>2. QED BY <2>1, <3>1, Inward
  <2>3. CASE IsOpen("src")
    <3>1. /\ c \in Fcb /\ c.idx < BlockSize /\ c.block_idx <= Len(c.arr)
          /\ data \in [Blocks -> [1 .. BlockSize -> Cell]]
      BY <1>1, <2>1, <2>3, Openness DEF IInv, Source, Resumes, TypeOK
    <3>2. job.chunk \in 1 .. BlockSize - 1
      BY <1>1, Constants
    <3> HIDE DEF c, r
    <3>3. /\ r.fcb \in Fcb /\ r.fcb.arr = c.arr
          /\ r.count > 1 =>
               \/ r.fcb.block_idx = c.block_idx /\ r.fcb.idx = c.idx + r.count
               \/ r.fcb.block_idx = c.block_idx + 1 /\ r.fcb.idx + BlockSize = c.idx + r.count
      BY <3>1, <3>2, Reading DEF r
    <3>4. buf'.count = r.count /\ fcb'["src"] = r.fcb /\ IsOpen("src")'
      <4>1. buf'.count = r.count
        BY <2>1, <2>3
      <4>2. DOMAIN fcb = {"src", "dst"}
        BY <1>1 DEF TypeOK
      <4>3. fcb' = [fcb EXCEPT !["src"] = r.fcb]
        BY <2>1, <2>3
      <4>4. fcb'["src"] = r.fcb
        BY <4>2, <4>3
      <4>5. r.fcb \notin {NoFcb, Stray}
        BY <3>3, Blank
      <4>6. QED BY <4>1, <4>4, <4>5 DEF IsOpen
    <3>5. Resumes' => Unread' \in Int /\ Unread' < Unread
      <4>1. SUFFICES ASSUME Resumes' PROVE Unread' \in Int /\ Unread' < Unread
        OBVIOUS
      <4>2. r.count = job.chunk /\ r.count \in Nat /\ r.count > 1
        BY <1>1, <2>1, <3>4, <4>1, Constants DEF Resumes
      <4>3. /\ c.block_idx \in Nat /\ c.idx \in Nat /\ BlockSize \in Nat /\ Len(c.arr) \in Nat
            /\ r.fcb.idx \in Nat
        BY <3>1, <3>3, Fields, Constants
      <4>4. Ahead(r.fcb) = Ahead(c) + r.count
        <5>1. (c.block_idx + 1) * BlockSize = c.block_idx * BlockSize + BlockSize
              /\ c.block_idx * BlockSize \in Nat
          BY <4>3
        <5> DEFINE x == c.block_idx * BlockSize
        <5>2. Ahead(c) = x + c.idx /\ Ahead(r.fcb) = r.fcb.block_idx * BlockSize + r.fcb.idx
          BY DEF Ahead
        <5>3. \/ r.fcb.block_idx * BlockSize = x /\ r.fcb.idx = c.idx + r.count
              \/ r.fcb.block_idx * BlockSize = x + BlockSize /\ r.fcb.idx + BlockSize = c.idx + r.count
          BY <3>3, <4>2, <5>1
        <5> HIDE DEF x
        <5>4. x \in Nat
          BY <5>1 DEF x
        <5> DEFINE y == r.fcb.block_idx * BlockSize
        <5>5. /\ Ahead(c) = x + c.idx /\ Ahead(r.fcb) = y + r.fcb.idx
              /\ \/ y = x /\ r.fcb.idx = c.idx + r.count
                 \/ y = x + BlockSize /\ r.fcb.idx + BlockSize = c.idx + r.count
          BY <5>2, <5>3
        <5> HIDE DEF y
        <5>6. CASE y = x /\ r.fcb.idx = c.idx + r.count
          BY <4>2, <4>3, <5>4, <5>5, <5>6
        <5>7. CASE y = x + BlockSize /\ r.fcb.idx + BlockSize = c.idx + r.count
          <6>1. y \in Nat /\ y + r.fcb.idx = x + (BlockSize + r.fcb.idx)
            BY <4>3, <5>4, <5>7
          <6>2. BlockSize + r.fcb.idx = c.idx + r.count
            BY <4>2, <4>3, <5>7
          <6>3. QED BY <4>2, <4>3, <5>4, <5>5, <6>1, <6>2
        <5>8. QED BY <5>5, <5>6, <5>7
      <4>5. /\ Unread = (Len(c.arr) + 1) * BlockSize - Ahead(c)
            /\ Unread' = (Len(c.arr) + 1) * BlockSize - Ahead(r.fcb)
        BY <1>1, <2>1, <2>3, <3>3, <3>4 DEF Unread, c
      <4>6. Ahead(c) \in Nat /\ (Len(c.arr) + 1) * BlockSize \in Nat
        BY <4>3 DEF Ahead
      <4>7. QED BY <4>2, <4>4, <4>5, <4>6
    <3>6. QED BY <2>1, <3>5, Inward
  <2>4. QED BY <2>2, <2>3
<1>4. QED BY <1>2, <1>3

\* Every step of a command comes nearer to the prompt, whatever is read and
\* wherever it fails: a copy of a file to itself does not chase its own end, and
\* a size counted below 0 is not read for ever.
THEOREM CopyRunsDown ==
  ASSUME FewCalls
  PROVE  Spec => [][Step => Remaining \in Nat /\ Remaining' < Remaining]_vars
<1> DEFINE Nearer == Step => Remaining \in Nat /\ Remaining' < Remaining
<1>1. ASSUME IInv, Step PROVE Remaining \in Nat /\ Remaining' < Remaining
  <2>1. CASE ReadLinux \/ ReadFile
    BY <1>1, <2>1, ReadComesNearer
  <2>2. ASSUME UNCHANGED <<job, buf>>, fcb'["src"] = fcb["src"],
               \/ pc = "write" /\ pc' = "store"
               \/ pc = "store" /\ pc' = "record"
               \/ pc \in {"write", "store", "record"} /\ AfterWrite
        PROVE  Remaining \in Nat /\ Remaining' < Remaining
    <3>1. Rank(pc) \in Nat /\ Rank(pc') \in Nat /\ Rank(pc') < Rank(pc)
      <4>1. CASE pc = "write" /\ pc' = "store"
        BY <4>1, Ranks
      <4>2. CASE pc = "store" /\ pc' = "record"
        BY <4>2, Ranks
      <4>3. CASE pc \in {"write", "store", "record"} /\ pc' \in {"read", "close"}
        BY <4>3, Ranks
      <4>4. QED BY <2>2, <4>1, <4>2, <4>3 DEF AfterWrite
    <3>2. Resumes' => Resumes /\ Unread' = Unread
      BY <2>2 DEF Resumes, AfterWrite, Unread, IsOpen
    <3>3. QED BY <1>1, <3>1, <3>2, LoopsOn
  <2>3. ASSUME \/ pc \in {"write", "store", "close", "close dst"} /\ pc' = "prompt"
               \/ pc = "close" /\ pc' = "close dst"
        PROVE  Remaining \in Nat /\ Remaining' < Remaining
    <3>1. Rank(pc) \in Nat /\ Rank(pc') \in Nat /\ Rank(pc') < Rank(pc)
      <4>1. CASE pc \in {"write", "store", "close", "close dst"} /\ pc' = "prompt"
        BY <4>1, Ranks
      <4>2. CASE pc = "close" /\ pc' = "close dst"
        BY <4>2, Ranks
      <4>3. QED BY <2>3, <4>1, <4>2
    <3>2. ~Resumes'
      BY <2>3 DEF Resumes
    <3>3. QED BY <1>1, <3>1, <3>2, LoopsOn
  <2>4. fcb \in [{"src", "dst"} -> Fcb \cup {NoFcb, Stray}]
    BY <1>1 DEF IInv, TypeOK
  <2>5. CASE WriteLinux \/ WriteNowhere \/ FailToReallocate \/ Extend \/ ExtendHalfOpen
               \/ Store \/ StoreHalfOpen \/ Record
    <3>1. UNCHANGED <<job, buf>> /\ fcb'["src"] = fcb["src"]
      BY <2>4, <2>5 DEF WriteLinux, WriteNowhere, FailToReallocate, Extend, ExtendHalfOpen,
                        Store, StoreHalfOpen, Record, disk
    <3>2. \/ pc = "write" /\ pc' = "store"
          \/ pc = "store" /\ pc' = "record"
          \/ pc \in {"write", "store", "record"} /\ AfterWrite
      BY <2>5 DEF WriteLinux, WriteNowhere, FailToReallocate, Extend, ExtendHalfOpen,
                  Store, StoreHalfOpen, Record
    <3>3. QED BY <2>2, <3>1, <3>2
  <2>6. CASE DieInWrite \/ DieInClose \/ CloseSrc \/ CloseDst
    BY <2>3, <2>6 DEF DieInWrite, DieInClose, Died, CloseSrc, CloseDst
  <2>7. QED BY <1>1, <2>1, <2>5, <2>6 DEF Step, b_write
<1>2. IInv /\ [Next]_vars => [Nearer]_vars
  BY <1>1
<1>3. QED BY <1>2, Inductive, PTL DEF Spec
=============================================================================
