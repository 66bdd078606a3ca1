-------------------------- MODULE BlockGroupsProofs --------------------------
(***************************************************************************)
(* Theorems of BlockGroups, for every value of its constants.              *)
(***************************************************************************)
EXTENDS BlockGroups, LeastNumbers, FiniteSetTheorems, TLAPS

(* Facts about the operators of bfs_bitmap.c *)

\* The search returns the least place that fits, or -1 when there is none.
LEMMA FirstFit ==
  ASSUME NEW bits, NEW n \in 1 .. GroupSize
  PROVE  LET h == bitmap_find_avail_bits(bits, n)
         IN  \/ Fits(bits, n) = {} /\ h = -1
             \/ h \in Fits(bits, n) /\ \A k \in Fits(bits, n) : h <= k
<1>1. CASE Fits(bits, n) = {}
  BY <1>1 DEF bitmap_find_avail_bits
<1>2. CASE Fits(bits, n) # {}
  <2>1. Fits(bits, n) \in SUBSET Nat
    BY GroupAssumption DEF Fits
  <2>2. \E x \in Fits(bits, n) : \A y \in Fits(bits, n) : x <= y
    BY <1>2, <2>1, LeastNat, Zenon
  <2> QED BY <1>2, <2>2 DEF bitmap_find_avail_bits
<1> QED BY <1>1, <1>2

\* What the search loop knows, as long as it has not returned.
Found == [head : Int, count : Nat]

\* What it knows is of the k bits it has passed: count of them are clear at the
\* end, behind a bit in use or the beginning, and n of them are clear nowhere;
\* or it has come to the first place where they are.
SoFar(s, k, bits, n) ==
  /\ s \in Found /\ s.count <= n
  /\ s.count < n =>
       /\ s.count <= k /\ s.head = IF s.count = 0 THEN -1 ELSE k - s.count
       /\ (k - s.count .. k - 1) \cap bits = {}
       /\ k - s.count > 0 => k - s.count - 1 \in bits
       /\ \A h \in Fits(bits, n) : h + n > k
  /\ s.count = n => s.head \in Fits(bits, n) /\ \A h \in Fits(bits, n) : s.head <= h

\* A turn of the loop takes it one bit further.
LEMMA BitChecked ==
  ASSUME NEW bits, NEW n \in 1 .. GroupSize, NEW k \in 1 .. GroupSize, NEW s,
         SoFar(s, k - 1, bits, n)
  PROVE  SoFar(CheckBit(s, k - 1, bits, n), k, bits, n)
<1> DEFINE t == CheckBit(s, k - 1, bits, n)
<1>1. /\ GroupSize \in Nat /\ n \in Nat \ {0} /\ k \in Nat \ {0} /\ k <= GroupSize
      /\ s.head \in Int /\ s.count \in Nat /\ s.count <= n
  BY GroupAssumption DEF SoFar, Found
<1>2. \A h \in Fits(bits, n) : h \in Nat /\ h + n <= GroupSize /\ (h .. h + n - 1) \cap bits = {}
  BY <1>1 DEF Fits
<1>3. CASE s.count = n
  <2>1. t = s
    BY <1>3 DEF CheckBit
  <2>2. QED BY <1>1, <1>3, <2>1 DEF SoFar
<1>4. CASE s.count # n /\ k - 1 \in bits
  <2>1. t = [head |-> -1, count |-> 0]
    BY <1>4 DEF CheckBit
  <2>2. t \in Found /\ t.count = 0 /\ t.head = -1
    BY <2>1 DEF Found
  <2>3. ASSUME NEW h \in Fits(bits, n) PROVE h + n > k
    <3>1. h + n > k - 1
      BY <1>1, <1>4 DEF SoFar
    <3>2. h + n # k
      <4>1. h + n = k => k - 1 \in h .. h + n - 1
        BY <1>1, <1>2
      <4>2. QED BY <1>2, <1>4, <4>1
    <3>3. QED BY <1>1, <1>2, <3>1, <3>2
  <2>4. QED BY <1>1, <1>4, <2>2, <2>3 DEF SoFar
<1>5. CASE s.count # n /\ k - 1 \notin bits
  <2> DEFINE c == s.count + 1
  <2>1. /\ s.count < n /\ s.count <= k - 1
        /\ s.head = IF s.count = 0 THEN -1 ELSE k - 1 - s.count
        /\ (k - 1 - s.count .. k - 2) \cap bits = {}
        /\ k - 1 - s.count > 0 => k - 1 - s.count - 1 \in bits
        /\ \A h \in Fits(bits, n) : h + n > k - 1
    <3>1. s.count < n
      BY <1>1, <1>5
    <3>2. k - 1 - 1 = k - 2
      BY <1>1
    <3>3. QED BY <3>1, <3>2 DEF SoFar
  <2>2. c \in Nat \ {0} /\ c <= n /\ c <= k /\ k - c = k - 1 - s.count
    BY <1>1, <2>1
  <2>3. t = [head |-> k - c, count |-> c]
    <3>1. t = [head |-> IF s.head < 0 THEN k - 1 ELSE s.head, count |-> s.count + 1]
      BY <1>5 DEF CheckBit
    <3>2. (IF s.head < 0 THEN k - 1 ELSE s.head) = k - c
      <4>1. CASE s.count = 0
        BY <1>1, <2>1, <2>2, <4>1
      <4>2. CASE s.count # 0
        BY <1>1, <2>1, <2>2, <4>2
      <4>3. QED BY <4>1, <4>2
    <3>3. QED BY <3>1, <3>2
  <2>4. (k - c .. k - 1) \cap bits = {}
    <3>1. \A b \in k - c .. k - 1 : b = k - 1 \/ b \in k - 1 - s.count .. k - 2
      BY <1>1, <2>2
    <3>2. QED BY <1>5, <2>1, <3>1
  <2> HIDE DEF c
  <2>5. t \in Found /\ t.count = c /\ t.head = k - c
    BY <1>1, <2>2, <2>3 DEF Found
  <2>6. CASE c = n
    <3>1. k - c \in Fits(bits, n)
      <4>1. k - c \in 0 .. GroupSize - n /\ k - c + n - 1 = k - 1
        BY <1>1, <2>2, <2>6
      <4>2. QED BY <2>4, <4>1 DEF Fits
    <3>2. ASSUME NEW h \in Fits(bits, n) PROVE k - c <= h
      <4>1. h + n > k - 1 /\ h \in Nat
        BY <1>2, <2>1
      <4>2. QED BY <1>1, <2>6, <4>1
    <3>3. QED BY <1>1, <2>2, <2>5, <2>6, <3>1, <3>2 DEF SoFar
  <2>7. CASE c # n
    <3>1. k - c > 0 => k - c - 1 \in bits
      BY <2>1, <2>2
    <3>2. ASSUME NEW h \in Fits(bits, n) PROVE h + n > k
      <4>1. h + n > k - 1 /\ h \in Nat
        BY <1>2, <2>1
      <4>2. ASSUME h + n = k PROVE FALSE
        <5>1. c < n /\ k - c - 1 \in h .. h + n - 1 /\ k - c > 0
          BY <1>1, <2>2, <2>7, <4>1, <4>2
        <5>2. QED BY <1>2, <3>1, <5>1
      <4>3. QED BY <1>1, <4>1, <4>2
    <3>3. QED BY <1>1, <2>2, <2>4, <2>5, <2>7, <3>1, <3>2 DEF SoFar
  <2>8. QED BY <2>6, <2>7
<1>6. QED BY <1>3, <1>4, <1>5

\* The loop over the bits of a bitmap block finds what the model's search
\* answers, whatever bits are set: the first place with n clear bits behind each
\* other, and -1 when there is none.
THEOREM LoopIsFirstFit ==
  ASSUME NEW bits, NEW n \in 1 .. GroupSize
  PROVE  SearchLoop(bits, n) = bitmap_find_avail_bits(bits, n)
<1> DEFINE m == GroupSize
           s0 == [head |-> -1, count |-> 0]
           Is(f) == f = [k \in 0 .. m |-> IF k = 0 THEN s0 ELSE CheckBit(f[k - 1], k - 1, bits, n)]
           step == [x \in Found |-> [k \in 1 .. m |-> CheckBit(x, k - 1, bits, n)]]
<1>1. m \in Nat /\ n \in Nat \ {0} /\ s0 \in Found
  BY GroupAssumption DEF Found
<1>2. step \in [Found -> [1 .. m -> Found]]
  <2>1. ASSUME NEW x \in Found, NEW k \in 1 .. m PROVE CheckBit(x, k - 1, bits, n) \in Found
    BY <1>1, <2>1 DEF CheckBit, Found
  <2> HIDE DEF m
  <2>2. QED BY <2>1
<1>3. Computes(m, Found, s0, step)
  <2> HIDE DEF step, m, s0
  <2>1. QED BY ONLY <1>1, <1>2, Iteration
<1>4. PICK g : /\ g \in [0 .. m -> Found] /\ g[0] = s0
               /\ \A k \in 1 .. m : g[k] = step[g[k - 1]][k]
  <2> HIDE DEF step, m, s0
  <2>1. QED BY <1>3 DEF Computes
<1>5. \A k \in 1 .. m : k - 1 \in 0 .. m /\ g[k] = CheckBit(g[k - 1], k - 1, bits, n)
  <2>1. ASSUME NEW k \in 1 .. m PROVE k - 1 \in 0 .. m /\ g[k] = CheckBit(g[k - 1], k - 1, bits, n)
    <3>1. k - 1 \in 0 .. m
      BY <1>1
    <3>2. g[k - 1] \in Found /\ g[k] = step[g[k - 1]][k]
      <4> HIDE DEF step, m, s0
      <4>1. QED BY <1>4, <3>1
    <3> HIDE DEF m
    <3>3. QED BY <3>1, <3>2
  <2>2. QED BY <2>1
<1>6. Is(g)
  <2>1. ASSUME NEW k \in 0 .. m
        PROVE  g[k] = IF k = 0 THEN s0 ELSE CheckBit(g[k - 1], k - 1, bits, n)
    <3>1. k = 0 \/ k \in 1 .. m
      BY <1>1
    <3> HIDE DEF m, s0
    <3>2. QED BY <1>4, <1>5, <3>1
  <2> HIDE DEF m, s0
  <2>2. QED BY <1>4, <2>1
<1>7. PICK f : f = (CHOOSE h : Is(h))
  OBVIOUS
<1>8. Is(f)
  <2> HIDE DEF Is
  <2>1. QED BY <1>6, <1>7
<1>9. SearchLoop(bits, n) = IF f[m].count = n THEN f[m].head ELSE -1
  BY <1>7 DEF SearchLoop
<1>10. f[0] = s0 /\ \A k \in 1 .. m : f[k] = CheckBit(f[k - 1], k - 1, bits, n)
  <2>1. 0 \in 0 .. m /\ \A k \in 1 .. m : k \in 0 .. m /\ k # 0
    BY <1>1
  <2> HIDE DEF m, s0
  <2>2. QED BY <1>8, <2>1
<1>11. SoFar(f[0], 0, bits, n)
  <2>1. f[0] \in Found /\ f[0].count = 0 /\ f[0].head = -1
    BY <1>1, <1>10
  <2>2. \A h \in Fits(bits, n) : h + n > 0
    BY <1>1 DEF Fits
  <2>3. (0 - 0 .. 0 - 1) \cap bits = {} /\ ~ (0 - 0 > 0)
    OBVIOUS
  <2>4. QED BY <1>1, <2>1, <2>2, <2>3 DEF SoFar
<1>12. SoFar(f[m], m, bits, n)
  <2> DEFINE Bad == {k \in 0 .. m : ~ SoFar(f[k], k, bits, n)}
  <2>1. ASSUME Bad # {} PROVE FALSE
    <3>1. Bad \in SUBSET Nat
      OBVIOUS
    <3>2. PICK k \in Bad : \A y \in Bad : k <= y
      <4> HIDE DEF Bad
      <4>1. QED BY <2>1, <3>1, LeastNat
    <3>3. k \in 1 .. m /\ k - 1 \in 0 .. m /\ k - 1 \notin Bad
      <4>1. k \in 0 .. m /\ k # 0
        BY <1>11, <3>2
      <4>2. ~ (k <= k - 1) /\ k \in 1 .. m /\ k - 1 \in 0 .. m
        BY <1>1, <4>1
      <4> HIDE DEF Bad
      <4>3. QED BY <3>2, <4>2
    <3>4. SoFar(f[k - 1], k - 1, bits, n)
      BY <3>3
    <3>5. SoFar(f[k], k, bits, n)
      BY <1>10, <3>3, <3>4, BitChecked
    <3>6. QED BY <3>2, <3>5
  <2>2. m \in 0 .. m
    BY <1>1
  <2>3. QED BY <2>1, <2>2
<1> HIDE DEF Is, step, s0
<1>13. CASE f[m].count = n
  <2>1. f[m].head \in Fits(bits, n) /\ \A h \in Fits(bits, n) : f[m].head <= h
    BY <1>12, <1>13 DEF SoFar
  <2>2. bitmap_find_avail_bits(bits, n) = f[m].head
    <3>1. Fits(bits, n) \subseteq Nat
      BY <1>1 DEF Fits
    <3>2. /\ bitmap_find_avail_bits(bits, n) \in Fits(bits, n)
          /\ \A h \in Fits(bits, n) : bitmap_find_avail_bits(bits, n) <= h
      BY <2>1, FirstFit
    <3>3. \A a \in Nat, b \in Nat : a <= b /\ b <= a => a = b
      OBVIOUS
    <3>4. QED BY <2>1, <3>1, <3>2, <3>3
  <2>3. QED BY <1>9, <1>13, <2>2
<1>14. CASE f[m].count # n
  <2>1. \A h \in Fits(bits, n) : h + n > m
    BY <1>1, <1>12, <1>14 DEF SoFar, Found
  <2>2. \A h \in Fits(bits, n) : ~ (h + n > m)
    BY <1>1 DEF Fits
  <2>3. Fits(bits, n) = {}
    BY <2>1, <2>2
  <2>4. QED BY <1>9, <1>14, <2>3 DEF bitmap_find_avail_bits
<1>15. QED BY <1>13, <1>14

\* Whatever place the search answers, it is one of a group, or -1.
LEMMA FindType ==
  ASSUME NEW bits, NEW n \in 1 .. GroupSize
  PROVE  bitmap_find_avail_bits(bits, n) \in Slots \cup {-1}
BY FirstFit, GroupAssumption DEF Fits, Slots

\* Only bits below Window are ever set: the position is a uint8_t.
LEMMA SetInWindow ==
  ASSUME NEW bits, NEW idx \in Int, NEW n \in Nat
  PROVE  /\ block_bit_set(bits, idx, n) \subseteq bits \cup (0 .. Window - 1)
         /\ bits \subseteq block_bit_set(bits, idx, n)
<1>1. ASSUME NEW i \in 0 .. n - 1 PROVE (idx + i) % Window \in 0 .. Window - 1
  BY GroupAssumption
<1> QED BY <1>1 DEF block_bit_set

\* A run that lies in the window has all its bits set.
LEMMA SetMarks ==
  ASSUME NEW bits, NEW idx \in Nat, NEW n \in Nat, idx + n <= Window
  PROVE  idx .. idx + n - 1 \subseteq block_bit_set(bits, idx, n)
<1> SUFFICES ASSUME NEW b \in idx .. idx + n - 1
             PROVE  \E i \in 0 .. n - 1 : b = (idx + i) % Window
  BY DEF block_bit_set
<1>1. b - idx \in 0 .. n - 1 /\ b \in 0 .. Window - 1 /\ idx + (b - idx) = b
  BY GroupAssumption
<1>2. b % Window = b
  BY <1>1, GroupAssumption
<1> QED BY <1>1, <1>2

\* With no bit set from Window on, bit 0 set and a length that fits above the
\* window, the search answers a place in 1 .. Window.
LEMMA FindInReach ==
  ASSUME NEW bits \in SUBSET (0 .. Window - 1), 0 \in bits,
         NEW n \in 1 .. GroupSize, n <= GroupSize - Window
  PROVE  LET h == bitmap_find_avail_bits(bits, n)
         IN  /\ h \in 1 .. Window
             /\ h + n <= GroupSize
             /\ (h .. h + n - 1) \cap bits = {}
<1> DEFINE h == bitmap_find_avail_bits(bits, n)
<1>1. Window \in Fits(bits, n)
  BY GroupAssumption DEF Fits
<1>2. h \in Fits(bits, n) /\ h <= Window
  BY <1>1, FirstFit
<1>3. h \in Nat /\ h + n <= GroupSize /\ (h .. h + n - 1) \cap bits = {}
  BY <1>2, GroupAssumption DEF Fits
<1>4. h # 0
  BY <1>3
<1> QED BY <1>2, <1>3, <1>4

-----------------------------------------------------------------------------
(* Type correctness *)

\* FormatDir keeps the last run handed out: there is one.
TypeInv == TypeOK /\ (pc \in {"root", "vcb2"} => runs # <<>>)

\* What a sequence becomes by an element more.
LEMMA Appended ==
  ASSUME NEW S, NEW s \in Seq(S), NEW x \in S
  PROVE  /\ Append(s, x) \in Seq(S) /\ Append(s, x) # <<>>
         /\ DOMAIN s = 1 .. Len(s) /\ Len(s) \in Nat
         /\ DOMAIN Append(s, x) = 1 .. Len(s) + 1
         /\ Len(Append(s, x)) = Len(s) + 1
         /\ \A j \in DOMAIN s : Append(s, x)[j] = s[j]
         /\ Append(s, x)[Len(s) + 1] = x
OBVIOUS

\* What a grant does to the variables it changes.
LEMMA GrantStep ==
  ASSUME TypeOK, NEW g \in Groups, NEW n \in 1 .. GroupSize,
         Serves(g, n), Grant(n, g),
         NEW idx, idx = bitmap_find_avail_bits(bitmap[g], n)
  PROVE  /\ idx \in Slots \cup {-1}
         /\ bitmap' = [bitmap EXCEPT ![g] = block_bit_set(@, idx, n)]
         /\ bitmap' \in [Groups -> SUBSET Slots]
         /\ \A h \in Groups : bitmap[h] \subseteq bitmap'[h]
         /\ \A h \in Groups : bitmap'[h] \subseteq bitmap[h] \cup 0 .. Window - 1
         /\ free' = [free EXCEPT ![g] = @ - n]
         /\ free' \in [Groups -> Nat]
         /\ [group |-> g, idx |-> idx, len |-> n] \in Run
         /\ runs' = Append(runs, [group |-> g, idx |-> idx, len |-> n])
         /\ runs' \in Seq(Run) /\ runs' # <<>> /\ DOMAIN runs \subseteq DOMAIN runs'
<1>1. idx \in Slots \cup {-1}
  BY FindType
<1>2. bitmap' = [bitmap EXCEPT ![g] = block_bit_set(@, idx, n)]
  BY DEF Grant
<1>3. bitmap \in [Groups -> SUBSET Slots] /\ free \in [Groups -> Nat] /\ runs \in Seq(Run)
  BY DEF TypeOK
<1>4. /\ block_bit_set(bitmap[g], idx, n) \subseteq bitmap[g] \cup (0 .. Window - 1)
      /\ bitmap[g] \subseteq block_bit_set(bitmap[g], idx, n)
  BY <1>1, SetInWindow, GroupAssumption DEF Slots
<1>5. 0 .. Window - 1 \subseteq Slots
  BY GroupAssumption DEF Slots
<1>6. /\ bitmap' \in [Groups -> SUBSET Slots]
      /\ \A h \in Groups : bitmap[h] \subseteq bitmap'[h]
      /\ \A h \in Groups : bitmap'[h] \subseteq bitmap[h] \cup 0 .. Window - 1
  BY <1>2, <1>3, <1>4, <1>5
<1>7. free' = [free EXCEPT ![g] = @ - n] /\ free[g] >= n
  BY DEF Grant, Serves
<1>8. free' \in [Groups -> Nat]
  BY <1>3, <1>7, GroupAssumption
<1>9. [group |-> g, idx |-> idx, len |-> n] \in Run
  BY <1>1 DEF Run
<1>10. runs' = Append(runs, [group |-> g, idx |-> idx, len |-> n])
  BY DEF Grant
<1>11. runs' \in Seq(Run) /\ runs' # <<>> /\ DOMAIN runs \subseteq DOMAIN runs'
  <2>1. DOMAIN runs = 1 .. Len(runs) /\ Len(runs) \in Nat
    BY <1>3
  <2>2. /\ runs' \in Seq(Run) /\ runs' # <<>>
        /\ DOMAIN runs' = 1 .. Len(runs) + 1
    BY <1>3, <1>9, <1>10, Appended
  <2> QED BY <2>1, <2>2
<1> QED BY <1>1, <1>2, <1>6, <1>7, <1>8, <1>9, <1>10, <1>11

\* A directory and the shell's requests have a length that a group can hold.
LEMMA Lengths == /\ RootLen \in 1 .. GroupSize
                 /\ \A n \in Requests : n \in 1 .. GroupSize
BY GroupAssumption

\* The type invariant holds at the start,
LEMMA TypeInit == Init => TypeInv
<1> SUFFICES ASSUME Init PROVE TypeInv
  OBVIOUS
<1>1. runs \in Seq(Run) /\ DOMAIN runs = {} /\ released = {}
  BY DEF Init
<1>2. /\ block0 \subseteq VcbBits /\ vcb \subseteq VcbBits
      /\ bitmap \in [Groups -> SUBSET Slots]
      /\ diskFree \in [Groups -> Nat] /\ free \in [Groups -> Nat]
  BY DEF Init
<1> QED BY <1>1, <1>2 DEF Init, TypeInv, TypeOK, Formatting

\* and every step keeps it.
LEMMA TypeNext == TypeInv /\ [Next]_vars => TypeInv'
<1> SUFFICES ASSUME TypeInv, [Next]_vars PROVE TypeInv'
  OBVIOUS
<1> USE DEF TypeInv, TypeOK, Formatting
<1>1. CASE Mount
  BY <1>1 DEF Mount, disk
<1>2. CASE FormatVcb
  BY <1>2 DEF FormatVcb, VcbBits
<1>3. CASE bfs_gdt_init
  <2>1. block_bit_set({}, 0, 1) \subseteq Slots
    BY SetInWindow, GroupAssumption DEF Slots
  <2>2. GroupSize - 1 \in Nat
    BY GroupAssumption
  <2> QED BY <1>3, <2>1, <2>2 DEF bfs_gdt_init
<1>4. CASE FormatGdt
  BY <1>4 DEF FormatGdt
<1>5. CASE FormatRoot
  <2>1. PICK g \in Groups : Serves(g, RootLen) /\ Grant(RootLen, g)
    BY <1>5 DEF FormatRoot
  <2>2. /\ bitmap' \in [Groups -> SUBSET Slots] /\ free' \in [Groups -> Nat]
        /\ runs' \in Seq(Run) /\ runs' # <<>> /\ DOMAIN runs \subseteq DOMAIN runs'
    BY <2>1, GrantStep, Lengths
  <2> QED BY <1>5, <2>2 DEF FormatRoot
<1>6. CASE FormatVcb2
  BY <1>6 DEF FormatVcb2, VcbBits
<1>7. CASE FormatDir
  <2>1. runs[Len(runs)] \in Run
    BY <1>7 DEF FormatDir
  <2> QED BY <1>7, <2>1 DEF FormatDir
<1>8. CASE \E n \in Requests : bfs_get_free_blocks(n)
  <2>1. PICK n \in Requests : bfs_get_free_blocks(n)
    BY <1>8
  <2>2. PICK g \in Groups : Serves(g, n) /\ Grant(n, g)
    BY <2>1 DEF bfs_get_free_blocks
  <2>3. /\ bitmap' \in [Groups -> SUBSET Slots] /\ free' \in [Groups -> Nat]
        /\ runs' \in Seq(Run) /\ DOMAIN runs \subseteq DOMAIN runs'
    BY <2>2, GrantStep, Lengths
  <2> QED BY <2>1, <2>3 DEF bfs_get_free_blocks
<1>9. CASE \E k \in DOMAIN runs : bfs_clear_blocks(k)
  BY <1>9 DEF bfs_clear_blocks, bitmap_clear_n
<1>10. CASE exitFileSystem
  BY <1>10 DEF exitFileSystem
<1>11. CASE ExitGdt
  BY <1>11 DEF ExitGdt, Down
<1>12. CASE Crash
  BY <1>12, GroupAssumption DEF Crash, Down, disk
<1>13. CASE UNCHANGED vars
  BY <1>13 DEF vars
<1> QED
  BY <1>1, <1>2, <1>3, <1>4, <1>5, <1>6, <1>7, <1>8, <1>9, <1>10, <1>11, <1>12, <1>13
  DEF Next, Format

\* Every reachable state of the free-space manager is well typed; in particular
\* no counter, an unsigned int in the code, is ever taken below zero.
THEOREM TypeCorrect == Spec => []TypeOK
<1>1. TypeInv => TypeOK
  BY DEF TypeInv
<1> QED BY <1>1, TypeInit, TypeNext, PTL DEF Spec

-----------------------------------------------------------------------------
(* No run reaches the bitmap block of its group or leaves its group *)

\* The bitmaps have been written, and the program goes on to allocate.
Ready == rootDir \/ pc \in {"bitmaps", "gdt", "root", "vcb2", "up"}

\* No bit from Window on is ever set, and bit 0 is set in every group whose
\* bitmap the format has written.
ReachInv ==
  /\ TypeInv
  /\ \A g \in Groups : bitmap[g] \subseteq 0 .. Window - 1
  /\ pc = "off" => \A g \in Groups : free[g] = 0
  /\ pc = "vcb" => \A g \in Groups : free[g] # 0 => 0 \in bitmap[g]
  /\ Ready => \A g \in Groups : 0 \in bitmap[g]
  /\ RunsStayInReach

\* A volume not yet formatted has no bit set,
LEMMA ReachInit == Init => ReachInv
<1> SUFFICES ASSUME Init PROVE ReachInv
  OBVIOUS
<1>1. TypeInv
  BY TypeInit
<1>2. RunsStayInReach
  BY DEF Init, RunsStayInReach
<1> QED BY <1>1, <1>2 DEF Init, ReachInv, Ready

\* A grant, of the root directory's or of any other run.
LEMMA ReachGrant ==
  ASSUME RequestsFit, ReachInv, Ready, TypeInv',
         NEW g \in Groups, NEW n \in Requests \cup {RootLen},
         Serves(g, n), Grant(n, g)
  PROVE  /\ \A h \in Groups : bitmap'[h] \subseteq 0 .. Window - 1
         /\ \A h \in Groups : 0 \in bitmap'[h]
         /\ RunsStayInReach'
<1> DEFINE idx == bitmap_find_avail_bits(bitmap[g], n)
<1> DEFINE r == [group |-> g, idx |-> idx, len |-> n]
<1>1. n \in 1 .. GroupSize /\ n <= GroupSize - Window
  BY Lengths DEF RequestsFit
<1>2. /\ \A h \in Groups : bitmap[h] \subseteq bitmap'[h]
      /\ \A h \in Groups : bitmap'[h] \subseteq bitmap[h] \cup 0 .. Window - 1
      /\ r \in Run /\ runs' = Append(runs, r)
  BY <1>1, GrantStep DEF ReachInv, TypeInv
<1>3. idx \in 1 .. Window /\ idx + n <= GroupSize
  BY <1>1, FindInReach DEF ReachInv
<1>4. RunsStayInReach'
  <2> SUFFICES ASSUME NEW k \in DOMAIN runs'
               PROVE  /\ runs'[k].idx \in 1 .. Window
                      /\ runs'[k].idx + runs'[k].len <= GroupSize
    BY DEF RunsStayInReach
  <2>1. runs \in Seq(Run)
    BY DEF ReachInv, TypeInv, TypeOK
  <2>2. CASE k \in DOMAIN runs
    BY <1>2, <2>1, <2>2, Appended DEF ReachInv, RunsStayInReach
  <2>3. CASE k = Len(runs) + 1
    BY <1>2, <1>3, <2>1, <2>3, Appended
  <2> QED BY <1>2, <2>1, <2>2, <2>3, Appended
<1> QED BY <1>2, <1>4 DEF ReachInv

\* and no step sets one from the window on, or begins a search that fails.
LEMMA ReachNext ==
  ASSUME RequestsFit PROVE ReachInv /\ [Next]_vars => ReachInv'
<1> SUFFICES ASSUME ReachInv, [Next]_vars PROVE ReachInv'
  OBVIOUS
<1>0. TypeInv'
  BY TypeNext DEF ReachInv
<1>1. CASE Mount
  BY <1>0, <1>1 DEF Mount, disk, ReachInv, Ready, RunsStayInReach
<1>2. CASE FormatVcb
  BY <1>0, <1>2 DEF FormatVcb, ReachInv, Ready, RunsStayInReach
<1>3. CASE bfs_gdt_init
  <2>1. PICK g \in Groups :
          /\ free[g] = 0 /\ \A h \in 0 .. g - 1 : free[h] # 0
          /\ bitmap' = [bitmap EXCEPT ![g] = block_bit_set({}, 0, 1)]
          /\ free' = [free EXCEPT ![g] = GroupSize - 1]
          /\ pc' = IF g = GroupCount - 1 THEN "bitmaps" ELSE pc
    BY <1>3 DEF bfs_gdt_init
  <2>2. /\ block_bit_set({}, 0, 1) \subseteq 0 .. Window - 1
        /\ 0 \in block_bit_set({}, 0, 1)
    <3>1. 0 .. 0 + 1 - 1 \subseteq block_bit_set({}, 0, 1)
      BY SetMarks, GroupAssumption
    <3> QED BY <3>1, SetInWindow
  <2>3. bitmap \in [Groups -> SUBSET Slots] /\ free \in [Groups -> Nat]
    BY DEF ReachInv, TypeInv, TypeOK
  <2>4. \A h \in Groups : bitmap'[h] \subseteq 0 .. Window - 1
    BY <2>1, <2>2, <2>3 DEF ReachInv
  <2>5. \A h \in Groups : free'[h] # 0 => 0 \in bitmap'[h]
    BY <1>3, <2>1, <2>2, <2>3 DEF ReachInv, bfs_gdt_init
  <2>6. ASSUME g = GroupCount - 1, NEW h \in Groups PROVE 0 \in bitmap'[h]
    <3>1. h = g \/ h \in 0 .. g - 1
      BY <2>6, GroupAssumption DEF Groups
    <3>2. h # g => free'[h] # 0
      BY <2>1, <2>3, <3>1
    <3> QED BY <2>1, <2>2, <2>3, <2>5, <3>2
  <2>7. ASSUME rootDir, NEW h \in Groups PROVE 0 \in bitmap'[h]
    BY <2>1, <2>2, <2>3, <2>7 DEF ReachInv, Ready
  <2> QED
    BY <1>0, <1>3, <2>1, <2>4, <2>5, <2>6, <2>7
    DEF ReachInv, Ready, RunsStayInReach, bfs_gdt_init
<1>4. CASE FormatGdt
  BY <1>0, <1>4 DEF FormatGdt, ReachInv, Ready, RunsStayInReach
<1>5. CASE FormatRoot
  <2>1. PICK g \in Groups : Serves(g, RootLen) /\ Grant(RootLen, g)
    BY <1>5 DEF FormatRoot
  <2>2. Ready
    BY <1>5 DEF FormatRoot, Ready
  <2> QED BY <1>0, <1>5, <2>1, <2>2, ReachGrant DEF FormatRoot, ReachInv
<1>6. CASE FormatVcb2
  BY <1>0, <1>6 DEF FormatVcb2, ReachInv, Ready, RunsStayInReach
<1>7. CASE FormatDir
  <2>1. runs \in Seq(Run) /\ runs # <<>>
    BY <1>7 DEF FormatDir, ReachInv, TypeInv, TypeOK
  <2>2. Len(runs) \in DOMAIN runs
    BY <2>1
  <2>3. RunsStayInReach'
    BY <1>7, <2>2 DEF FormatDir, ReachInv, RunsStayInReach
  <2> QED BY <1>0, <1>7, <2>3 DEF FormatDir, ReachInv, Ready
<1>8. CASE \E n \in Requests : bfs_get_free_blocks(n)
  <2>1. PICK n \in Requests : bfs_get_free_blocks(n)
    BY <1>8
  <2>2. PICK g \in Groups : Serves(g, n) /\ Grant(n, g)
    BY <2>1 DEF bfs_get_free_blocks
  <2>3. Ready
    BY <2>1 DEF bfs_get_free_blocks, Ready
  <2> QED BY <1>0, <2>1, <2>2, <2>3, ReachGrant DEF bfs_get_free_blocks, ReachInv
<1>9. CASE \E k \in DOMAIN runs : bfs_clear_blocks(k)
  BY <1>0, <1>9 DEF bfs_clear_blocks, ReachInv, Ready, RunsStayInReach
<1>10. CASE exitFileSystem
  BY <1>0, <1>10 DEF exitFileSystem, ReachInv, Ready, RunsStayInReach
<1>11. CASE ExitGdt
  BY <1>0, <1>11 DEF ExitGdt, Down, ReachInv, Ready, RunsStayInReach
<1>12. CASE Crash
  BY <1>0, <1>12 DEF Crash, Down, disk, ReachInv, Ready, RunsStayInReach
<1>13. CASE UNCHANGED vars
  BY <1>0, <1>13 DEF vars, ReachInv, Ready, RunsStayInReach
<1> QED
  BY <1>1, <1>2, <1>3, <1>4, <1>5, <1>6, <1>7, <1>8, <1>9, <1>10, <1>11, <1>12, <1>13
  DEF Next, Format

\* As long as every length asked for fits above the window, no run handed out
\* starts at the group's own bitmap block, starts beyond the window or reaches
\* into the next group: the unchecked -1 of the search never gets out, whatever
\* crashes, remounts and frees have done to the counters.
THEOREM InReach == ASSUME RequestsFit PROVE Spec => []RunsStayInReach
<1>1. ReachInv => RunsStayInReach
  BY DEF ReachInv
<1> QED BY <1>1, ReachInit, ReachNext, PTL DEF Spec

-----------------------------------------------------------------------------
(* Runs in the window are never handed out twice *)

\* A group ends where the next one begins.
LEMMA GroupsApart ==
  ASSUME NEW g \in Groups, NEW h \in Groups, g < h
  PROVE  g * GroupSize + GroupSize <= h * GroupSize
<1>1. g \in Int /\ h \in Int /\ g + 1 <= h /\ GroupSize \in Nat
  BY GroupAssumption DEF Groups
<1>2. \E d \in Nat : h = g + 1 + d
  <2>1. h - g - 1 \in Nat /\ h = g + 1 + (h - g - 1)
    BY <1>1
  <2> QED BY <2>1
<1>3. PICK d \in Nat : h = g + 1 + d
  BY <1>2
<1>4. h * GroupSize = g * GroupSize + GroupSize + d * GroupSize
  BY <1>1, <1>3
<1>5. d * GroupSize \in Nat
  BY <1>1
<1>6. g * GroupSize \in Int
  BY <1>1
<1> QED BY <1>1, <1>4, <1>5, <1>6

\* Runs of different groups, or with disjoint indices in one group, share no
\* block.
LEMMA RunsApart ==
  ASSUME NEW r \in Run, NEW q \in Run,
         r.idx >= 0, r.idx + r.len <= GroupSize,
         q.idx >= 0, q.idx + q.len <= GroupSize,
         r.group = q.group =>
           (r.idx .. r.idx + r.len - 1) \cap (q.idx .. q.idx + q.len - 1) = {}
  PROVE  Blocks(r) \cap Blocks(q) = {}
<1> DEFINE gr == r.group * GroupSize
<1> DEFINE gq == q.group * GroupSize
<1>1. /\ r.group \in Groups /\ r.idx \in Int /\ r.len \in Int /\ r.len <= GroupSize
      /\ q.group \in Groups /\ q.idx \in Int /\ q.len \in Int /\ q.len <= GroupSize
      /\ GroupSize \in Nat /\ FirstBitmap \in Nat
  BY GroupAssumption DEF Run, Slots
<1>2. gr \in Int /\ gq \in Int
  BY <1>1 DEF Groups
<1>3. /\ Blocks(r) = r.idx + FirstBitmap + gr .. r.idx + FirstBitmap + gr + r.len - 1
      /\ Blocks(q) = q.idx + FirstBitmap + gq .. q.idx + FirstBitmap + gq + q.len - 1
  BY DEF Blocks, First, idx_to_bnum
<1> HIDE DEF gr, gq
<1> SUFFICES ASSUME NEW b \in Blocks(r), b \in Blocks(q) PROVE FALSE
  OBVIOUS
<1>4. /\ b \in Int
      /\ r.idx + FirstBitmap + gr <= b /\ b <= r.idx + FirstBitmap + gr + r.len - 1
      /\ q.idx + FirstBitmap + gq <= b /\ b <= q.idx + FirstBitmap + gq + q.len - 1
  <2>1. b \in r.idx + FirstBitmap + gr .. r.idx + FirstBitmap + gr + r.len - 1
    BY <1>3
  <2>2. b \in q.idx + FirstBitmap + gq .. q.idx + FirstBitmap + gq + q.len - 1
    BY <1>3
  <2>3. /\ r.idx + FirstBitmap + gr \in Int /\ r.idx + FirstBitmap + gr + r.len - 1 \in Int
        /\ q.idx + FirstBitmap + gq \in Int /\ q.idx + FirstBitmap + gq + q.len - 1 \in Int
    BY <1>1, <1>2
  <2> QED BY <2>1, <2>2, <2>3
<1>5. CASE r.group = q.group
  <2>1. gr = gq
    BY <1>5 DEF gr, gq
  <2>2. /\ b - FirstBitmap - gr \in r.idx .. r.idx + r.len - 1
        /\ b - FirstBitmap - gr \in q.idx .. q.idx + q.len - 1
    BY <1>1, <1>2, <1>4, <2>1
  <2> QED BY <1>5, <2>2
<1>6. CASE r.group < q.group
  <2>1. gr + GroupSize <= gq
    BY <1>1, <1>6, GroupsApart DEF gr, gq
  <2> QED BY <1>1, <1>2, <1>4, <2>1
<1>7. CASE q.group < r.group
  <2>1. gq + GroupSize <= gr
    BY <1>1, <1>7, GroupsApart DEF gr, gq
  <2> QED BY <1>1, <1>2, <1>4, <2>1
<1> QED BY <1>1, <1>5, <1>6, <1>7 DEF Groups

\* What is true of the volume when its magic number is never lost: it is
\* formatted once, so a run, once recorded, stays recorded and marked.
KeepInv ==
  /\ ReachInv
  \* the volume control block
  /\ block0 = {} => pc = "off" /\ runs = <<>>
  /\ block0 # {} => FieldBits \subseteq block0
  /\ pc # "off" => block0 # {} /\ FieldBits \subseteq vcb
  \* the one format
  /\ pc \in {"vcb", "bitmaps", "gdt"} => runs = <<>>
  /\ pc = "vcb" => \A g \in Groups : free[g] # 0 => bitmap[g] = {0} /\ free[g] = GroupSize - 1
  /\ pc \in {"bitmaps", "gdt"} => \A g \in Groups : bitmap[g] = {0} /\ free[g] = GroupSize - 1
  /\ pc \in {"root", "vcb2"} => Len(runs) = 1
  /\ pc = "up" \/ rootDir => runs # <<>>
  \* the runs
  /\ runs # <<>> => 0 .. RootLen \subseteq bitmap[0]
  /\ \A k \in DOMAIN runs : k > 1 =>
       runs[k].len \in Requests /\ (runs[k].group = 0 => runs[k].idx > RootLen)
  /\ \A k \in DOMAIN runs : InWindow(runs[k]) =>
       runs[k].idx .. runs[k].idx + runs[k].len - 1 \subseteq bitmap[runs[k].group]
  /\ \A j, k \in DOMAIN runs :
       j < k /\ InWindow(runs[j]) => Blocks(runs[j]) \cap Blocks(runs[k]) = {}

\* No run is held before the format,
LEMMA KeepInit == Init => KeepInv
<1> SUFFICES ASSUME Init PROVE KeepInv
  OBVIOUS
<1>1. ReachInv
  BY ReachInit
<1>2. DOMAIN runs = {}
  BY DEF Init
<1> QED BY <1>1, <1>2 DEF Init, KeepInv

\* The root directory gets the first RootLen blocks of group 0.
LEMMA RootGrant ==
  ASSUME KeepInv, pc = "gdt", NEW g \in Groups, Serves(g, RootLen), Grant(RootLen, g)
  PROVE  g = 0 /\ bitmap_find_avail_bits(bitmap[g], RootLen) = 1
<1>1. bitmap[g] = {0} /\ 0 \in Groups /\ free[0] = GroupSize - 1
  BY GroupAssumption DEF KeepInv, Groups
<1>2. g = 0
  BY <1>1, GroupAssumption DEF Serves, Groups
<1>3. 1 \in Fits({0}, RootLen) /\ 0 \notin Fits({0}, RootLen)
  <2>1. 1 \in 0 .. GroupSize - RootLen /\ 1 + RootLen - 1 = RootLen
    BY GroupAssumption
  <2>2. (1 .. RootLen) \cap {0} = {}
    OBVIOUS
  <2>3. 0 \in (0 .. 0 + RootLen - 1) \cap {0}
    BY GroupAssumption
  <2> QED BY <2>1, <2>2, <2>3 DEF Fits
<1>4. bitmap_find_avail_bits({0}, RootLen) = 1
  <2> DEFINE h == bitmap_find_avail_bits({0}, RootLen)
  <2>1. h \in Fits({0}, RootLen) /\ \A k \in Fits({0}, RootLen) : h <= k
    BY <1>3, FirstFit, Lengths, Zenon
  <2>2. h \in Int /\ h >= 0
    BY <2>1, GroupAssumption DEF Fits
  <2>3. h <= 1 /\ h # 0
    BY <1>3, <2>1
  <2> QED BY <2>2, <2>3
<1> QED BY <1>1, <1>2, <1>4

\* A grant leaves the runs marked and apart.
LEMMA KeepGrant ==
  ASSUME RequestsFit, KeepInv, Ready,
         NEW g \in Groups, NEW n \in Requests \cup {RootLen},
         Serves(g, n), Grant(n, g),
         NEW r, r = [group |-> g, idx |-> bitmap_find_avail_bits(bitmap[g], n), len |-> n]
  PROVE  /\ \A k \in DOMAIN runs' : InWindow(runs'[k]) =>
              runs'[k].idx .. runs'[k].idx + runs'[k].len - 1 \subseteq bitmap'[runs'[k].group]
         /\ \A j, k \in DOMAIN runs' :
              j < k /\ InWindow(runs'[j]) => Blocks(runs'[j]) \cap Blocks(runs'[k]) = {}
         /\ \A h \in Groups : bitmap[h] \subseteq bitmap'[h]
         /\ runs' = Append(runs, r) /\ r \in Run
         /\ (r.idx .. r.idx + n - 1) \cap bitmap[g] = {} /\ r.idx \in 1 .. Window
<1>1. n \in 1 .. GroupSize /\ n <= GroupSize - Window
  BY Lengths DEF RequestsFit
<1>2. /\ \A h \in Groups : bitmap[h] \subseteq bitmap'[h]
      /\ bitmap' = [bitmap EXCEPT ![g] = block_bit_set(@, r.idx, n)]
      /\ r \in Run /\ runs' = Append(runs, r)
  BY <1>1, GrantStep DEF KeepInv, ReachInv, TypeInv
<1>3. /\ r.idx \in 1 .. Window /\ r.idx + n <= GroupSize
      /\ (r.idx .. r.idx + n - 1) \cap bitmap[g] = {}
  BY <1>1, FindInReach DEF KeepInv, ReachInv
<1>4. runs \in Seq(Run) /\ bitmap \in [Groups -> SUBSET Slots]
  BY DEF KeepInv, ReachInv, TypeInv, TypeOK
<1>5. /\ DOMAIN runs = 1 .. Len(runs) /\ DOMAIN runs' = 1 .. Len(runs) + 1
      /\ Len(runs) \in Nat
      /\ \A k \in DOMAIN runs : runs'[k] = runs[k] /\ runs[k] \in Run
      /\ runs'[Len(runs) + 1] = r
  BY <1>2, <1>4, Appended
<1>6. ASSUME NEW k \in DOMAIN runs', InWindow(runs'[k])
      PROVE  runs'[k].idx .. runs'[k].idx + runs'[k].len - 1 \subseteq bitmap'[runs'[k].group]
  <2>1. CASE k \in DOMAIN runs
    <3>1. runs[k].group \in Groups
      BY <1>5, <2>1 DEF Run
    <3> QED BY <1>2, <1>5, <1>6, <2>1, <3>1 DEF KeepInv
  <2>2. CASE k = Len(runs) + 1
    <3>1. r.idx .. r.idx + n - 1 \subseteq block_bit_set(bitmap[g], r.idx, n)
      BY <1>1, <1>3, <1>5, <1>6, <2>2, SetMarks DEF InWindow
    <3> QED BY <1>2, <1>4, <1>5, <2>2, <3>1
  <2> QED BY <1>5, <2>1, <2>2
<1>7. ASSUME NEW j \in DOMAIN runs', NEW k \in DOMAIN runs', j < k, InWindow(runs'[j])
      PROVE  Blocks(runs'[j]) \cap Blocks(runs'[k]) = {}
  <2>1. j \in DOMAIN runs
    BY <1>5, <1>7
  <2>2. CASE k \in DOMAIN runs
    BY <1>5, <1>7, <2>1, <2>2 DEF KeepInv
  <2>3. CASE k = Len(runs) + 1
    <3> DEFINE q == runs[j]
    <3>1. q \in Run /\ q.idx >= 0 /\ q.idx + q.len <= GroupSize /\ q = runs'[j]
      BY <1>5, <2>1, GroupAssumption DEF KeepInv, ReachInv, RunsStayInReach
    <3>2. q.idx .. q.idx + q.len - 1 \subseteq bitmap[q.group]
      BY <1>5, <1>7, <2>1 DEF KeepInv
    <3>3. q.group = r.group =>
            (q.idx .. q.idx + q.len - 1) \cap (r.idx .. r.idx + r.len - 1) = {}
      BY <1>3, <3>2
    <3>4. r.idx >= 0 /\ r.idx + r.len <= GroupSize
      BY <1>3
    <3>5. Blocks(q) \cap Blocks(r) = {}
      BY <1>2, <3>1, <3>3, <3>4, RunsApart
    <3> QED BY <1>5, <2>3, <3>1, <3>5
  <2> QED BY <1>5, <2>2, <2>3
<1> QED BY <1>2, <1>3, <1>6, <1>7

\* No run but the root directory's starts within its blocks or before them.
LEMMA FreedBehindRoot ==
  ASSUME KeepInv, NEW k \in DOMAIN runs, k > 1
  PROVE  First(runs[k]) \in Int /\ First(runs[k]) > FirstBitmap + RootLen
<1> DEFINE start == First(runs[k])
<1> DEFINE g == runs[k].group
<1>0. runs[k] \in Run
  BY DEF KeepInv, ReachInv, TypeInv, TypeOK
<1>1. /\ g \in Int /\ g >= 0 /\ g \in Groups
      /\ runs[k].idx \in 1 .. Window
      /\ GroupSize \in Int /\ GroupSize > Window
      /\ FirstBitmap \in Int /\ FirstBitmap > 0 /\ Window \in Int
      /\ RootLen \in Int /\ RootLen < Window
  BY <1>0, GroupAssumption DEF Run, Groups, KeepInv, ReachInv, RunsStayInReach
<1>2. start = runs[k].idx + FirstBitmap + g * GroupSize
  BY DEF First, idx_to_bnum
<1>3. g * GroupSize \in Int
  BY <1>1
<1>4. CASE g = 0
  <2>1. g * GroupSize = 0
    BY <1>1, <1>4
  <2>2. runs[k].idx > RootLen
    BY <1>4 DEF KeepInv
  <2> QED BY <1>1, <1>2, <2>1, <2>2
<1>5. CASE g # 0
  <2>1. 0 * GroupSize + GroupSize <= g * GroupSize
    BY <1>1, <1>5, GroupsApart, GroupAssumption DEF Groups
  <2>2. GroupSize <= g * GroupSize
    BY <1>1, <1>3, <2>1
  <2> HIDE DEF g
  <2> QED BY <1>1, <1>2, <1>3, <2>2
<1> QED BY <1>4, <1>5

\* and what is held stays marked, whatever is freed and wherever the session ends.
LEMMA KeepNext ==
  ASSUME RequestsFit, RequestsBelowMagic PROVE KeepInv /\ [Next]_vars => KeepInv'
<1> SUFFICES ASSUME KeepInv, [Next]_vars PROVE KeepInv'
  OBVIOUS
<1>0. ReachInv'
  BY ReachNext DEF KeepInv
<1>t. /\ bitmap \in [Groups -> SUBSET Slots] /\ free \in [Groups -> Nat]
      /\ runs \in Seq(Run) /\ DOMAIN runs = 1 .. Len(runs) /\ Len(runs) \in Nat
      /\ 0 \in Groups
  <2>1. runs \in Seq(Run) /\ bitmap \in [Groups -> SUBSET Slots] /\ free \in [Groups -> Nat]
    BY DEF KeepInv, ReachInv, TypeInv, TypeOK
  <2>2. 0 \in Groups
    BY GroupAssumption DEF Groups
  <2> QED BY <2>1, <2>2
<1>m. MagicBits # {} /\ MagicBits \subseteq FieldBits
  BY VcbAssumption DEF FieldBits
<1>1. CASE Mount
  BY <1>0, <1>1, <1>m DEF Mount, disk, Formatted, KeepInv, InWindow
<1>2. CASE FormatVcb
  <2>1. block0 = {} /\ runs = <<>> /\ pc = "off" /\ ~rootDir
    BY <1>2, <1>m DEF FormatVcb, Formatted, KeepInv
  <2>2. \A g \in Groups : free[g] = 0
    BY <2>1 DEF KeepInv, ReachInv
  <2> QED BY <1>0, <1>2, <1>m, <2>1, <2>2 DEF FormatVcb, KeepInv
<1>3. CASE bfs_gdt_init
  <2>1. PICK g \in Groups :
          /\ free[g] = 0 /\ \A h \in 0 .. g - 1 : free[h] # 0
          /\ bitmap' = [bitmap EXCEPT ![g] = block_bit_set({}, 0, 1)]
          /\ free' = [free EXCEPT ![g] = GroupSize - 1]
          /\ pc' = IF g = GroupCount - 1 THEN "bitmaps" ELSE pc
    BY <1>3 DEF bfs_gdt_init
  <2>2. block_bit_set({}, 0, 1) = {0}
    BY GroupAssumption DEF block_bit_set
  <2>3. \A h \in Groups : free'[h] # 0 => bitmap'[h] = {0} /\ free'[h] = GroupSize - 1
    BY <1>3, <1>t, <2>1, <2>2 DEF KeepInv, bfs_gdt_init
  <2>4. ASSUME g = GroupCount - 1, NEW h \in Groups PROVE free'[h] # 0
    <3>1. h = g \/ h \in 0 .. g - 1
      BY <2>4, GroupAssumption DEF Groups
    <3> QED BY <1>t, <2>1, <3>1, GroupAssumption
  <2> QED BY <1>0, <1>3, <1>t, <2>1, <2>3, <2>4 DEF KeepInv, bfs_gdt_init
<1>4. CASE FormatGdt
  BY <1>0, <1>4 DEF FormatGdt, KeepInv
<1>5. CASE FormatRoot
  <2>1. PICK g \in Groups : Serves(g, RootLen) /\ Grant(RootLen, g)
    BY <1>5 DEF FormatRoot
  <2>2. g = 0 /\ bitmap_find_avail_bits(bitmap[g], RootLen) = 1
    BY <1>5, <2>1, RootGrant DEF FormatRoot
  <2> DEFINE r == [group |-> g, idx |-> 1, len |-> RootLen]
  <2>3. Ready /\ runs = <<>>
    BY <1>5 DEF FormatRoot, Ready, KeepInv
  <2>4. /\ \A k \in DOMAIN runs' : InWindow(runs'[k]) =>
             runs'[k].idx .. runs'[k].idx + runs'[k].len - 1 \subseteq bitmap'[runs'[k].group]
        /\ \A j, k \in DOMAIN runs' :
             j < k /\ InWindow(runs'[j]) => Blocks(runs'[j]) \cap Blocks(runs'[k]) = {}
        /\ \A h \in Groups : bitmap[h] \subseteq bitmap'[h]
        /\ runs' = Append(runs, r) /\ r \in Run
    BY <2>1, <2>2, <2>3, KeepGrant
  <2>5. Len(runs') = 1 /\ DOMAIN runs' = {1} /\ runs'[1] = r /\ runs' # <<>>
    BY <2>3, <2>4
  <2>6. 0 .. RootLen \subseteq bitmap'[0]
    <3>1. InWindow(r)
      BY GroupAssumption DEF InWindow
    <3>2. 1 .. RootLen \subseteq bitmap'[0]
      BY <2>2, <2>4, <2>5, <3>1, GroupAssumption
    <3>3. 0 \in bitmap'[0]
      BY <1>5, <1>t, <2>4 DEF KeepInv, FormatRoot
    <3> QED BY <3>2, <3>3, GroupAssumption
  <2> QED BY <1>0, <1>5, <2>4, <2>5, <2>6 DEF KeepInv, FormatRoot
<1>6. CASE FormatVcb2
  BY <1>0, <1>6, <1>m DEF FormatVcb2, KeepInv
<1>7. CASE FormatDir
  <2>1. runs' = runs
    BY <1>7, <1>t DEF FormatDir, KeepInv
  <2> QED BY <1>0, <1>7, <2>1 DEF FormatDir, KeepInv
<1>8. CASE \E n \in Requests : bfs_get_free_blocks(n)
  <2>1. PICK n \in Requests : bfs_get_free_blocks(n)
    BY <1>8
  <2>2. PICK g \in Groups : Serves(g, n) /\ Grant(n, g)
    BY <2>1 DEF bfs_get_free_blocks
  <2>3. Ready /\ runs # <<>> /\ 0 .. RootLen \subseteq bitmap[0] /\ pc = "up"
    BY <2>1 DEF bfs_get_free_blocks, Ready, KeepInv
  <2> DEFINE r == [group |-> g, idx |-> bitmap_find_avail_bits(bitmap[g], n), len |-> n]
  <2>4. /\ \A k \in DOMAIN runs' : InWindow(runs'[k]) =>
             runs'[k].idx .. runs'[k].idx + runs'[k].len - 1 \subseteq bitmap'[runs'[k].group]
        /\ \A j, k \in DOMAIN runs' :
             j < k /\ InWindow(runs'[j]) => Blocks(runs'[j]) \cap Blocks(runs'[k]) = {}
        /\ \A h \in Groups : bitmap[h] \subseteq bitmap'[h]
        /\ runs' = Append(runs, r) /\ r \in Run
        /\ (r.idx .. r.idx + n - 1) \cap bitmap[g] = {} /\ r.idx \in 1 .. Window
    BY <2>2, <2>3, KeepGrant
  <2>5. g = 0 => r.idx > RootLen
    <3>1. r.idx \in Int /\ n \in Int /\ n >= 1
      BY <2>4, Lengths, GroupAssumption
    <3>2. r.idx \in r.idx .. r.idx + n - 1
      BY <3>1
    <3> QED BY <2>3, <2>4, <3>1, <3>2, GroupAssumption
  <2>6. /\ runs' # <<>> /\ DOMAIN runs' = 1 .. Len(runs) + 1
        /\ \A k \in DOMAIN runs : runs'[k] = runs[k]
        /\ runs'[Len(runs) + 1] = r
    BY <1>t, <2>4, Appended
  <2>7. \A k \in DOMAIN runs' : k > 1 =>
          runs'[k].len \in Requests /\ (runs'[k].group = 0 => runs'[k].idx > RootLen)
    BY <1>t, <2>5, <2>6 DEF KeepInv
  <2>8. 0 .. RootLen \subseteq bitmap'[0]
    BY <1>t, <2>3, <2>4
  <2>9. UNCHANGED <<block0, diskFree, rootDir, vcb, pc>>
    BY <2>1 DEF bfs_get_free_blocks
  <2> HIDE DEF r
  <2> QED BY <1>0, <2>3, <2>4, <2>6, <2>7, <2>8, <2>9 DEF KeepInv
<1>9. CASE \E k \in DOMAIN runs : bfs_clear_blocks(k)
  <2>1. PICK k \in DOMAIN runs : bfs_clear_blocks(k)
    BY <1>9
  <2>2. /\ k > 1 /\ pc = "up"
        /\ UNCHANGED <<bitmap, diskFree, rootDir, vcb, free, pc, runs>>
    BY <2>1 DEF bfs_clear_blocks
  <2>3. block0 # {} /\ FieldBits \subseteq block0
    BY <2>2 DEF KeepInv
  <2>4. FieldBits \subseteq block0'
    <3> DEFINE start == First(runs[k])
    <3>1. CASE start \div GroupSize # 0
      BY <2>1, <2>3, <3>1 DEF bfs_clear_blocks
    <3>2. CASE start \div GroupSize = 0
      <4>1. block0' = block0 \ (start .. runs[k].len - 1)
        BY <2>1, <3>2 DEF bfs_clear_blocks, bitmap_clear_n
      <4>2. runs[k] \in Run /\ runs[k].len \in Requests
        BY <1>t, <2>2 DEF KeepInv
      <4>3. start \in Int /\ start > FirstBitmap + RootLen
        BY <2>2, FreedBehindRoot
      <4>n. runs[k].len \in Nat
        <5>1. runs[k].len \in 1 .. GroupSize
          BY <4>2, Lengths
        <5> QED BY <5>1
      <4>4. \A b \in LowBits : b \notin start .. runs[k].len - 1
        <5> SUFFICES ASSUME NEW b \in LowBits PROVE b < start
          BY <4>3, <4>n
        <5>1. b \in 0 .. FirstBitmap + RootLen
          BY VcbAssumption
        <5> QED BY <4>3, <5>1, GroupAssumption
      <4>5. \A m \in MagicBits : m \in Nat /\ runs[k].len <= m
        BY <4>2, VcbAssumption DEF RequestsBelowMagic
      <4>6. \A b \in GeomBits : b \in Nat /\ runs[k].len <= b
        <5> SUFFICES ASSUME NEW b \in GeomBits PROVE b \in Nat /\ runs[k].len <= b
          OBVIOUS
        <5>1. PICK m \in MagicBits : TRUE
          BY VcbAssumption
        <5>2. m \in Nat /\ b \in Nat /\ m < b
          BY <5>1, VcbAssumption
        <5> QED BY <4>5, <4>n, <5>2
      <4>7. \A b \in MagicBits \cup GeomBits : b \notin start .. runs[k].len - 1
        BY <4>3, <4>5, <4>6, <4>n
      <4> QED BY <2>3, <4>1, <4>4, <4>7 DEF FieldBits
    <3> QED BY <3>1, <3>2
  <2>5. block0' # {}
    BY <1>m, <2>4
  <2> QED BY <1>0, <2>2, <2>4, <2>5 DEF KeepInv
<1>10. CASE exitFileSystem
  BY <1>0, <1>10, <1>m DEF exitFileSystem, KeepInv
<1>11. CASE ExitGdt
  BY <1>0, <1>11 DEF ExitGdt, Down, KeepInv
<1>12. CASE Crash
  BY <1>0, <1>12 DEF Crash, Down, disk, KeepInv
<1>13. CASE UNCHANGED vars
  BY <1>0, <1>13 DEF vars, KeepInv
<1> QED
  BY <1>1, <1>2, <1>3, <1>4, <1>5, <1>6, <1>7, <1>8, <1>9, <1>10, <1>11, <1>12, <1>13
  DEF Next, Format

\* Through any number of frees, exits, crashes and mounts, a run that lies in
\* the window keeps its blocks to itself.
THEOREM NeverHandedOutTwice ==
  ASSUME RequestsFit, RequestsBelowMagic PROVE Spec => []WindowRunsDisjoint
<1>1. KeepInv => WindowRunsDisjoint
  BY DEF KeepInv, WindowRunsDisjoint
<1> QED BY <1>1, KeepInit, KeepNext, PTL DEF Spec

\* The magic number, the only thing the next mount looks at, vouches for the
\* block size and the group fields of block 0.
THEOREM MagicIsEnough ==
  ASSUME RequestsFit, RequestsBelowMagic PROVE Spec => []MagicVouches
<1>1. KeepInv => MagicVouches
  BY VcbAssumption DEF KeepInv, MagicVouches
<1> QED BY <1>1, KeepInit, KeepNext, PTL DEF Spec

\* Once a session has ended regularly, block 0 has been written.
ExitInv == KeepInv /\ (stop = "exit" => block0 # {})

\* The invariant of a volume that no session leaves but by exit, whatever is
\* freed: the copy in memory is whole, and it is what exit writes.
NoCrashInv ==
  /\ crashes = 0
  /\ pc = "off" => FieldBits \subseteq block0 \/ (block0 = {} /\ stop # "exit")
  /\ pc # "off" => FieldBits \subseteq vcb
  /\ pc = "exiting" => block0 = vcb

\* The magic number and the fields of the format are there or gone together.
LEMMA ExitNext ==
  ASSUME RequestsFit, RequestsBelowMagic PROVE ExitInv /\ [Next]_vars => ExitInv'
<1> SUFFICES ASSUME ExitInv, [Next]_vars PROVE ExitInv'
  OBVIOUS
<1>1. KeepInv /\ KeepInv'
  BY KeepNext DEF ExitInv
<1>2. CASE pc' # "off"
  BY <1>1, <1>2 DEF ExitInv, KeepInv
<1>3. CASE pc' = "off"
  <2>1. block0' = block0 /\ (pc = "off" => stop' = stop)
    BY <1>3 DEF Next, Format, Mount, FormatVcb, bfs_gdt_init, FormatGdt, FormatRoot, FormatVcb2,
                FormatDir, bfs_get_free_blocks, bfs_clear_blocks, exitFileSystem, ExitGdt, Crash,
                disk, vars
  <2>2. pc # "off" => block0 # {}
    BY <1>1 DEF KeepInv
  <2>3. QED BY <1>1, <2>1, <2>2 DEF ExitInv
<1>4. QED BY <1>2, <1>3

\* Without a crash the copy in memory is whole, and exit writes it back.
LEMMA NoCrashNext ==
  ASSUME MaxCrashes = 0 PROVE NoCrashInv /\ [Next]_vars => NoCrashInv'
<1> SUFFICES ASSUME NoCrashInv, [Next]_vars PROVE NoCrashInv'
  OBVIOUS
<1>1. CASE Mount
  <2>1. FieldBits \subseteq block0
    BY <1>1, VcbAssumption DEF Mount, Formatted, NoCrashInv
  <2>2. QED BY <1>1, <2>1 DEF Mount, disk, NoCrashInv
<1>2. CASE FormatVcb
  BY <1>2 DEF FormatVcb, NoCrashInv
<1>3. CASE bfs_gdt_init
  BY <1>3 DEF bfs_gdt_init, NoCrashInv
<1>4. CASE FormatGdt \/ FormatRoot \/ FormatVcb2 \/ FormatDir
  BY <1>4 DEF FormatGdt, FormatRoot, FormatVcb2, FormatDir, NoCrashInv
<1>5. CASE \E n \in Requests : bfs_get_free_blocks(n)
  BY <1>5 DEF bfs_get_free_blocks, NoCrashInv
<1>6. CASE \E k \in DOMAIN runs : bfs_clear_blocks(k)
  BY <1>6 DEF bfs_clear_blocks, NoCrashInv
<1>7. CASE exitFileSystem \/ ExitGdt
  BY <1>7 DEF exitFileSystem, ExitGdt, Down, NoCrashInv
<1>8. CASE Crash
  BY <1>8 DEF Crash, NoCrashInv
<1>9. CASE UNCHANGED vars
  BY <1>9 DEF vars, NoCrashInv
<1>10. QED
  BY <1>1, <1>2, <1>3, <1>4, <1>5, <1>6, <1>7, <1>8, <1>9 DEF Next, Format

\* A volume that a session has left by exit is mounted by the next one and never
\* formatted: with requests that end below the magic number through crashes too,
\* with longer ones, whose frees do clear the magic number, as long as no
\* session ends otherwise, because exit writes the copy in memory back.
THEOREM ExitedStaysFormatted ==
  ASSUME (RequestsFit /\ RequestsBelowMagic) \/ MaxCrashes = 0
  PROVE  Spec => []ExitedVolumeRemounts
<1>1. CASE RequestsFit /\ RequestsBelowMagic
  <2>1. Init => ExitInv
    BY KeepInit DEF Init, ExitInv
  <2>2. ExitInv /\ [Next]_vars => ExitInv'
    BY <1>1, ExitNext
  <2>3. ExitInv => ExitedVolumeRemounts
    BY DEF ExitInv, KeepInv, ExitedVolumeRemounts
  <2>4. QED BY <2>1, <2>2, <2>3, PTL DEF Spec
<1>2. CASE MaxCrashes = 0
  <2>1. Init => NoCrashInv
    BY DEF Init, NoCrashInv
  <2>2. NoCrashInv /\ [Next]_vars => NoCrashInv'
    BY <1>2, NoCrashNext
  <2>3. NoCrashInv => ExitedVolumeRemounts
    BY DEF NoCrashInv, ExitedVolumeRemounts
  <2>4. QED BY <2>1, <2>2, <2>3, PTL DEF Spec
<1>3. QED BY <1>1, <1>2

\* A mount that found no root directory leaves everything as it found it.
LEMMA WedgedKeepsVcb == Spec => [](pc = "wedged" => vcb = block0)
<1> DEFINE I == pc = "wedged" => vcb = block0
<1>1. Init => I
  BY DEF Init
<1>2. I /\ [Next]_vars => I'
  <2> SUFFICES ASSUME I, [Next]_vars PROVE I'
    OBVIOUS
  <2>1. CASE Mount
    BY <2>1 DEF Mount, disk
  <2>2. CASE bfs_gdt_init
    BY <2>2 DEF bfs_gdt_init
  <2> QED
    BY <2>1, <2>2
    DEF Next, Format, FormatVcb, FormatGdt, FormatRoot, FormatVcb2, FormatDir,
        bfs_get_free_blocks, bfs_clear_blocks, exitFileSystem, ExitGdt, Down, Crash, vars
<1> QED BY <1>1, <1>2, PTL DEF Spec

\* A format cut short is never taken up again.
THEOREM HalfFormatStays == Spec => HalfFormatIsForever
<1>1. (pc = "wedged" => vcb = block0) /\ [Next]_vars => [HalfFormatted => HalfFormatted']_vars
  <2> SUFFICES ASSUME pc = "wedged" => vcb = block0, [Next]_vars, HalfFormatted
               PROVE  HalfFormatted'
    OBVIOUS
  <2> QED
    BY DEF HalfFormatted, Formatted, Next, Format, Mount, disk, FormatVcb, bfs_gdt_init,
           FormatGdt, FormatRoot, FormatVcb2, FormatDir, bfs_get_free_blocks,
           bfs_clear_blocks, exitFileSystem, ExitGdt, Down, Crash, vars
<1> QED BY <1>1, WedgedKeepsVcb, PTL DEF Spec, HalfFormatIsForever

-----------------------------------------------------------------------------
(* BlockGroups implements FreshRuns *)

\* The blocks of a window run are block numbers of the volume.
LEMMA RunIsInterval ==
  ASSUME NEW r \in Run, InWindow(r)
  PROVE  \E first, last \in 0 .. idx_to_bnum(0, GroupCount) :
           Blocks(r) = first .. last /\ first \in first .. last
<1> DEFINE gr == r.group * GroupSize
<1>1. /\ r.group \in Groups /\ r.idx \in Int /\ r.len \in Int /\ r.len >= 1
      /\ r.idx >= 0 /\ r.idx + r.len <= Window
      /\ Window \in Int /\ GroupSize \in Nat /\ Window < GroupSize /\ FirstBitmap \in Nat
  BY GroupAssumption DEF Run, Slots, InWindow
<1>2. gr \in Nat /\ gr + GroupSize <= GroupCount * GroupSize
  <2> DEFINE d == GroupCount - r.group - 1
  <2>1. /\ r.group \in Nat /\ d \in Nat /\ GroupCount = r.group + 1 + d
    BY <1>1, GroupAssumption DEF Groups
  <2> HIDE DEF d
  <2>2. GroupCount * GroupSize = gr + GroupSize + d * GroupSize
    BY <1>1, <2>1
  <2>3. gr \in Nat /\ d * GroupSize \in Nat
    BY <1>1, <2>1
  <2> QED BY <1>1, <2>2, <2>3
<1>3. GroupCount * GroupSize \in Nat
  BY GroupAssumption
<1> HIDE DEF gr
<1> DEFINE size == GroupCount * GroupSize
<1> DEFINE first == r.idx + FirstBitmap + gr
<1>4. Blocks(r) = first .. first + r.len - 1
  BY DEF Blocks, First, idx_to_bnum, gr
<1>5. /\ first \in 0 .. FirstBitmap + GroupCount * GroupSize
      /\ first + r.len - 1 \in 0 .. FirstBitmap + GroupCount * GroupSize
      /\ first \in first .. first + r.len - 1
  <2>1. size \in Nat /\ gr \in Nat /\ gr + GroupSize <= size
    BY <1>2, <1>3
  <2> HIDE DEF size
  <2>2. /\ first \in 0 .. FirstBitmap + size
        /\ first + r.len - 1 \in 0 .. FirstBitmap + size
        /\ first \in first .. first + r.len - 1
    BY <1>1, <2>1
  <2> QED BY <2>2 DEF size
<1>6. idx_to_bnum(0, GroupCount) = FirstBitmap + GroupCount * GroupSize
  BY <1>3, <1>1 DEF idx_to_bnum
<1> QED BY <1>4, <1>5, <1>6

\* A step on the runs themselves is a step of FreshRuns on the window runs.
LEMMA TakeRun ==
  ASSUME NEW r \in Run, InWindow(r), held' = held \cup {Blocks(r)},
         \A run \in held : run \cap Blocks(r) = {}
  PROVE  Fresh!Next
<1>1. PICK first \in 0 .. idx_to_bnum(0, GroupCount),
           last \in 0 .. idx_to_bnum(0, GroupCount) :
             Blocks(r) = first .. last /\ first \in first .. last
  BY RunIsInterval
<1>2. Blocks(r) # {}
  BY <1>1
<1>3. Fresh!Take(first .. last)
  BY <1>1, <1>2 DEF Fresh!Take
<1> QED BY <1>1, <1>3 DEF Fresh!Next

\* Formats forget the runs and crashes bring none back but the root's.
LEMMA ImplementsNext ==
  ASSUME RequestsFit, RequestsBelowMagic, KeepInv, KeepInv', [Next]_vars
  PROVE  [Fresh!Next]_held
<1>t. /\ runs \in Seq(Run) /\ DOMAIN runs = 1 .. Len(runs) /\ Len(runs) \in Nat
      /\ \A k \in DOMAIN runs : runs[k] \in Run
  <2>1. runs \in Seq(Run)
    BY DEF KeepInv, ReachInv, TypeInv, TypeOK
  <2> QED BY <2>1
<1> DEFINE Held(rs) == {Blocks(rs[k]) : k \in {j \in DOMAIN rs : InWindow(rs[j])}}
<1>f. Formatting = {"vcb", "bitmaps", "gdt", "root", "vcb2"}
  BY DEF Formatting
<1>a. ASSUME runs' = runs, (pc \in Formatting) = (pc' \in Formatting)
      PROVE  held' = held
  BY <1>a DEF held, InWindow, Blocks, First, idx_to_bnum
<1>b. ASSUME Len(runs) = 1, runs' = runs, pc \in Formatting, pc' \notin Formatting
      PROVE  [Fresh!Next]_held
  <2>1. DOMAIN runs = {1} /\ runs[1] \in Run
    BY <1>b, <1>t
  <2>2. held = {} /\ held' = Held(runs)
    BY <1>b DEF held, InWindow, Blocks, First, idx_to_bnum
  <2>3. CASE InWindow(runs[1])
    <3>1. Held(runs) = {Blocks(runs[1])}
      BY <2>1, <2>3
    <3> QED BY <2>1, <2>2, <2>3, <3>1, TakeRun
  <2>4. CASE ~InWindow(runs[1])
    <3>1. Held(runs) = {}
      BY <2>1, <2>4
    <3> QED BY <2>2, <3>1
  <2> QED BY <2>3, <2>4
<1>1. CASE Mount
  BY <1>1, <1>a, <1>f DEF Mount
<1>2. CASE FormatVcb
  <2>1. held' = {}
    BY <1>2, <1>f DEF FormatVcb, held
  <2> QED BY <2>1 DEF Fresh!Next, Fresh!Forget
<1>3. CASE bfs_gdt_init
  BY <1>3, <1>a, <1>f DEF bfs_gdt_init
<1>4. CASE FormatGdt
  BY <1>4, <1>a, <1>f DEF FormatGdt
<1>5. CASE FormatRoot
  BY <1>5, <1>f DEF FormatRoot, held
<1>6. CASE FormatVcb2
  BY <1>6, <1>a, <1>f DEF FormatVcb2
<1>7. CASE FormatDir
  <2>1. Len(runs) = 1
    BY <1>7 DEF FormatDir, KeepInv
  <2>2. runs' = runs
    BY <1>7, <1>t, <2>1 DEF FormatDir
  <2> QED BY <1>7, <1>b, <1>f, <2>1, <2>2 DEF FormatDir
<1>8. CASE \E n \in Requests : bfs_get_free_blocks(n)
  <2>1. PICK n \in Requests : bfs_get_free_blocks(n)
    BY <1>8
  <2>2. PICK g \in Groups : Serves(g, n) /\ Grant(n, g)
    BY <2>1 DEF bfs_get_free_blocks
  <2> DEFINE r == [group |-> g, idx |-> bitmap_find_avail_bits(bitmap[g], n), len |-> n]
  <2>3. r \in Run /\ runs' = Append(runs, r)
    BY <2>2, GrantStep, Lengths DEF KeepInv, ReachInv, TypeInv
  <2> HIDE DEF r
  <2>4. /\ DOMAIN runs' = DOMAIN runs \cup {Len(runs) + 1}
        /\ Len(runs) + 1 \notin DOMAIN runs
        /\ \A k \in DOMAIN runs : runs'[k] = runs[k] /\ k < Len(runs) + 1
        /\ runs'[Len(runs) + 1] = r
    BY <1>t, <2>3, Appended
  <2>5. held = Held(runs) /\ held' = Held(runs')
    BY <1>f, <2>1 DEF held, bfs_get_free_blocks, InWindow, Blocks, First, idx_to_bnum
  <2>6. CASE InWindow(r)
    <3>1. Held(runs') = Held(runs) \cup {Blocks(r)}
      BY <2>4, <2>6
    <3>2. \A run \in held : run \cap Blocks(r) = {}
      <4> SUFFICES ASSUME NEW j \in DOMAIN runs, InWindow(runs[j])
                   PROVE  Blocks(runs[j]) \cap Blocks(r) = {}
        BY <2>5
      <4>1. /\ j \in DOMAIN runs' /\ Len(runs) + 1 \in DOMAIN runs' /\ j < Len(runs) + 1
            /\ runs'[j] = runs[j]
        BY <2>4
      <4> QED BY <2>4, <4>1 DEF KeepInv, InWindow, Blocks, First, idx_to_bnum
    <3> QED BY <2>3, <2>5, <2>6, <3>1, <3>2, TakeRun
  <2>7. CASE ~InWindow(r)
    <3>1. Held(runs') = Held(runs)
      BY <2>4, <2>7
    <3> QED BY <2>5, <3>1
  <2> QED BY <2>6, <2>7
<1>9. CASE \E k \in DOMAIN runs : bfs_clear_blocks(k)
  BY <1>9, <1>a DEF bfs_clear_blocks
<1>10. CASE exitFileSystem
  BY <1>10, <1>a, <1>f DEF exitFileSystem
<1>11. CASE ExitGdt
  BY <1>11, <1>a, <1>f DEF ExitGdt, Down
<1>12. CASE Crash
  <2>1. runs' = runs /\ pc' = "off"
    BY <1>12 DEF Crash, Down
  <2>2. CASE pc \in {"vcb", "bitmaps", "gdt"}
    <3>1. runs = <<>>
      BY <2>2 DEF KeepInv
    <3>2. held = {} /\ held' = {}
      BY <1>f, <2>1, <2>2, <3>1 DEF held
    <3> QED BY <3>2
  <2>3. CASE pc \in {"root", "vcb2"}
    BY <1>b, <1>f, <2>1, <2>3 DEF KeepInv
  <2>4. CASE pc \notin Formatting
    BY <1>a, <1>f, <2>1, <2>4
  <2> QED BY <1>f, <2>2, <2>3, <2>4
<1>13. CASE UNCHANGED vars
  BY <1>13, <1>a DEF vars
<1> QED
  BY <1>1, <1>2, <1>3, <1>4, <1>5, <1>6, <1>7, <1>8, <1>9, <1>10, <1>11, <1>12, <1>13
  DEF Next, Format

\* Seen through its window runs the free-space manager hands out fresh runs, as
\* bfs_directory.c and bfs_file.c take for granted.
THEOREM Implements ==
  ASSUME RequestsFit, RequestsBelowMagic PROVE Spec => ImplementsFreshRuns
<1>1. Init => Fresh!Init
  <2> SUFFICES ASSUME Init PROVE held = {}
    BY DEF Fresh!Init
  <2>1. DOMAIN runs = {} /\ pc \notin Formatting
    BY DEF Init, Formatting
  <2> QED BY <2>1 DEF held
<1>2. KeepInv /\ KeepInv' /\ [Next]_vars => [Fresh!Next]_held
  BY ImplementsNext
<1> QED BY <1>1, <1>2, KeepInit, KeepNext, PTL DEF Spec, ImplementsFreshRuns, Fresh!Spec

-----------------------------------------------------------------------------
(* What the shell asks for is never given back *)

\* Freeing a run no longer than FirstBitmap + RootLen + 1 changes nothing: the
\* loop of bitmap_clear_n would start behind its end.
ShortInv == KeepInv /\ (pc # "off" => vcb = block0)

\* Short requests are requests below the magic number.
LEMMA ShortBelowMagic == RequestsShort => RequestsBelowMagic
<1> SUFFICES ASSUME RequestsShort, NEW n \in Requests, NEW m \in MagicBits PROVE n <= m
  BY DEF RequestsBelowMagic
<1>1. n <= FirstBitmap + RootLen + 1 /\ FirstBitmap + Window <= m /\ m \in Nat
  BY VcbAssumption DEF RequestsShort
<1>2. n \in 1 .. GroupSize
  BY Lengths
<1> QED BY <1>1, <1>2, GroupAssumption

\* No step clears a bit of block 0 when requests are short.
LEMMA ShortNext ==
  ASSUME RequestsFit, RequestsShort, ShortInv, [Next]_vars
  PROVE  ShortInv' /\ [block0 \subseteq block0']_vars
<1>0. KeepInv'
  BY ShortBelowMagic, KeepNext DEF ShortInv
<1>1. CASE \E k \in DOMAIN runs : bfs_clear_blocks(k)
  <2>1. PICK k \in DOMAIN runs : bfs_clear_blocks(k)
    BY <1>1
  <2> DEFINE start == First(runs[k])
  <2>2. k > 1 /\ vcb' = vcb /\ pc' = pc /\ runs[k].len \in Requests
    BY <2>1 DEF bfs_clear_blocks, ShortInv, KeepInv
  <2>3. start \in Int /\ start > FirstBitmap + RootLen
    BY <2>2, FreedBehindRoot DEF ShortInv
  <2>4. runs[k].len \in Int /\ runs[k].len <= FirstBitmap + RootLen + 1
    BY <2>2, Lengths DEF RequestsShort
  <2> HIDE DEF start
  <2>5. start .. runs[k].len - 1 = {}
    BY <2>3, <2>4, GroupAssumption
  <2>6. block0' = block0
    BY <2>1, <2>5 DEF bfs_clear_blocks, bitmap_clear_n, start
  <2> QED BY <1>0, <2>2, <2>6 DEF ShortInv
<1>2. CASE bfs_gdt_init
  BY <1>0, <1>2 DEF bfs_gdt_init, ShortInv
<1>3. CASE exitFileSystem
  BY <1>0, <1>3 DEF exitFileSystem, ShortInv
<1>4. CASE FormatVcb
  BY <1>0, <1>4 DEF FormatVcb, ShortInv
<1>5. CASE FormatVcb2
  BY <1>0, <1>5 DEF FormatVcb2, ShortInv
<1>6. CASE Mount \/ FormatGdt \/ FormatRoot \/ FormatDir
  BY <1>0, <1>6 DEF Mount, disk, FormatGdt, FormatRoot, FormatDir, ShortInv
<1>7. CASE \E n \in Requests : bfs_get_free_blocks(n)
  BY <1>0, <1>7 DEF bfs_get_free_blocks, ShortInv
<1>8. CASE ExitGdt \/ Crash
  BY <1>0, <1>8 DEF ExitGdt, Crash, Down, disk, ShortInv
<1>9. CASE UNCHANGED vars
  BY <1>0, <1>9 DEF vars, ShortInv
<1> QED BY <1>1, <1>2, <1>3, <1>4, <1>5, <1>6, <1>7, <1>8, <1>9 DEF Next, Format

\* With requests as short as the shell's, freeing and exiting never take a bit
\* from the volume control block.
THEOREM VcbStaysWhole ==
  ASSUME RequestsFit, RequestsShort PROVE Spec => VcbNeverDamaged
<1>1. Init => ShortInv
  BY KeepInit DEF Init, ShortInv
<1>2. ShortInv /\ [Next]_vars => ShortInv' /\ [block0 \subseteq block0']_vars
  BY ShortNext
<1> QED BY <1>1, <1>2, PTL DEF Spec, VcbNeverDamaged

-----------------------------------------------------------------------------
(* The counters *)

\* Setting n bits takes at most n of the clear ones.
LEMMA SetCost ==
  ASSUME NEW bits, NEW idx \in Int, NEW n \in Nat
  PROVE  Cardinality(Slots \ bits) - n <= Cardinality(Slots \ block_bit_set(bits, idx, n))
<1> DEFINE hit(i) == (idx + i) % Window
<1> DEFINE X == {hit(i) : i \in 0 .. n - 1}
<1>1. IsFiniteSet(Slots) /\ IsFiniteSet(0 .. n - 1) /\ Cardinality(0 .. n - 1) = n
  BY FS_Interval, GroupAssumption DEF Slots
<1> HIDE DEF hit
<1> DEFINE f == [i \in 0 .. n - 1 |-> hit(i)]
<1>f. f \in Surjection(0 .. n - 1, X)
  BY DEF Surjection
<1>4. Slots \ block_bit_set(bits, idx, n) = (Slots \ bits) \ X
  BY DEF block_bit_set, hit
<1> HIDE DEF f, X
<1>2. IsFiniteSet(X) /\ Cardinality(X) <= n
  <2>1. IsFiniteSet(X) /\ Cardinality(X) <= Cardinality(0 .. n - 1)
    BY <1>1, <1>f, FS_Surjection
  <2> QED BY <1>1, <2>1
<1>3. IsFiniteSet(Slots \ bits)
  BY <1>1, FS_Subset
<1>5. Cardinality((Slots \ bits) \ X)
        = Cardinality(Slots \ bits) - Cardinality((Slots \ bits) \cap X)
  BY <1>3, FS_Difference
<1>6. Cardinality((Slots \ bits) \cap X) <= Cardinality(X)
  BY <1>2, FS_Subset
<1>7. /\ Cardinality((Slots \ bits) \cap X) \in Nat /\ Cardinality(X) \in Nat
      /\ Cardinality(Slots \ bits) \in Nat
  BY <1>2, <1>3, FS_CardinalityType, FS_Subset
<1> DEFINE before == Cardinality(Slots \ bits)
<1> DEFINE hits   == Cardinality((Slots \ bits) \cap X)
<1> DEFINE size   == Cardinality(X)
<1>8. /\ before \in Nat /\ hits \in Nat /\ size \in Nat
      /\ hits <= size /\ size <= n
      /\ Cardinality(Slots \ block_bit_set(bits, idx, n)) = before - hits
  BY <1>2, <1>4, <1>5, <1>6, <1>7, Zenon
<1> HIDE DEF before, hits, size
<1>9. before - n <= before - hits
  BY <1>8
<1> QED BY <1>8, <1>9, Zenon DEF before

\* Without a crash every counter is backed by as many clear bits.
CountInv ==
  /\ TypeInv
  /\ FreeCountBacked

\* A grant marks no more bits than it counts down.
LEMMA CountGrant ==
  ASSUME TypeInv, NEW g \in Groups, NEW n \in 1 .. GroupSize,
         Serves(g, n), Grant(n, g),
         \A h \in Groups : free[h] <= Cardinality(Slots \ bitmap[h])
  PROVE  \A h \in Groups : free'[h] <= Cardinality(Slots \ bitmap'[h])
<1> DEFINE idx == bitmap_find_avail_bits(bitmap[g], n)
<1>1. /\ idx \in Slots \cup {-1}
      /\ bitmap' = [bitmap EXCEPT ![g] = block_bit_set(@, idx, n)]
      /\ free' = [free EXCEPT ![g] = @ - n]
  BY GrantStep DEF TypeInv
<1>2. bitmap \in [Groups -> SUBSET Slots] /\ free \in [Groups -> Nat]
  BY DEF TypeInv, TypeOK
<1>3. idx \in Int /\ n \in Nat
  BY <1>1, GroupAssumption DEF Slots
<1> HIDE DEF idx
<1>4. /\ Cardinality(Slots \ bitmap[g]) - n <= Cardinality(Slots \ block_bit_set(bitmap[g], idx, n))
  BY <1>3, SetCost
<1>5. /\ Cardinality(Slots \ bitmap[g]) \in Nat
      /\ Cardinality(Slots \ block_bit_set(bitmap[g], idx, n)) \in Nat
  <2>1. IsFiniteSet(Slots)
    BY FS_Interval, GroupAssumption DEF Slots
  <2> QED BY <2>1, FS_Subset, FS_CardinalityType
<1> SUFFICES ASSUME NEW h \in Groups PROVE free'[h] <= Cardinality(Slots \ bitmap'[h])
  OBVIOUS
<1>6. CASE h = g
  <2>1. free'[h] = free[g] - n /\ bitmap'[h] = block_bit_set(bitmap[g], idx, n)
    BY <1>1, <1>2, <1>6
  <2>2. free[g] \in Nat /\ free[g] <= Cardinality(Slots \ bitmap[g])
    BY <1>2
  <2>3. free[g] - n <= Cardinality(Slots \ block_bit_set(bitmap[g], idx, n))
    BY <1>3, <1>4, <1>5, <2>2
  <2> QED BY <2>1, <2>3
<1>7. CASE h # g
  BY <1>1, <1>2, <1>7
<1> QED BY <1>6, <1>7

\* A group's counter stays below what its bitmap has clear.
LEMMA CountNext == CountInv /\ [Next]_vars => CountInv'
<1> SUFFICES ASSUME CountInv, [Next]_vars PROVE CountInv'
  OBVIOUS
<1>0. TypeInv'
  BY TypeNext DEF CountInv
<1>1. CASE Mount
  BY <1>0, <1>1 DEF Mount, disk, CountInv, FreeCountBacked
<1>2. CASE FormatVcb \/ FormatGdt \/ FormatVcb2 \/ FormatDir
  BY <1>0, <1>2 DEF FormatVcb, FormatGdt, FormatVcb2, FormatDir, CountInv, FreeCountBacked
<1>3. CASE bfs_gdt_init
  <2>1. PICK g \in Groups :
          /\ bitmap' = [bitmap EXCEPT ![g] = block_bit_set({}, 0, 1)]
          /\ free' = [free EXCEPT ![g] = GroupSize - 1]
          /\ pc' = IF g = GroupCount - 1 THEN "bitmaps" ELSE pc
    BY <1>3 DEF bfs_gdt_init
  <2>2. Slots \ block_bit_set({}, 0, 1) = 1 .. GroupSize - 1
    BY GroupAssumption DEF block_bit_set, Slots
  <2>3. Cardinality(Slots \ block_bit_set({}, 0, 1)) = GroupSize - 1
    <3>1. Cardinality(1 .. GroupSize - 1)
            = IF 1 > GroupSize - 1 THEN 0 ELSE GroupSize - 1 - 1 + 1
      BY FS_Interval, GroupAssumption
    <3>2. GroupSize \in Int /\ GroupSize >= 2
      BY GroupAssumption
    <3>3. Cardinality(1 .. GroupSize - 1) = GroupSize - 1
      BY <3>1, <3>2
    <3> QED BY <2>2, <3>3, Zenon
  <2>4. bitmap \in [Groups -> SUBSET Slots] /\ free \in [Groups -> Nat]
    BY DEF CountInv, TypeInv, TypeOK
  <2>5. /\ GroupSize - 1 \in Nat /\ GroupSize - 1 <= GroupSize - 1
        /\ pc' # "off" /\ crashes' = crashes
    BY <1>3, <2>1, GroupAssumption DEF bfs_gdt_init
  <2>6. crashes = 0 => \A h \in Groups : free'[h] <= Cardinality(Slots \ bitmap'[h])
    BY <2>1, <2>3, <2>4, <2>5 DEF CountInv, FreeCountBacked
  <2> QED BY <1>0, <2>5, <2>6 DEF CountInv, FreeCountBacked
<1>4. ASSUME NEW n \in 1 .. GroupSize, \E g \in Groups : Serves(g, n) /\ Grant(n, g),
             crashes' = crashes, pc' # "off"
      PROVE  CountInv'
  <2>1. crashes = 0 => \A h \in Groups : free'[h] <= Cardinality(Slots \ bitmap'[h])
    BY <1>4, CountGrant DEF CountInv, FreeCountBacked
  <2> QED BY <1>0, <1>4, <2>1 DEF CountInv, FreeCountBacked
<1>5. CASE FormatRoot
  BY <1>4, <1>5, Lengths DEF FormatRoot
<1>6. CASE \E n \in Requests : bfs_get_free_blocks(n)
  BY <1>4, <1>6, Lengths DEF bfs_get_free_blocks
<1>7. CASE \E k \in DOMAIN runs : bfs_clear_blocks(k)
  BY <1>0, <1>7 DEF bfs_clear_blocks, CountInv, FreeCountBacked
<1>8. CASE exitFileSystem
  BY <1>0, <1>8 DEF exitFileSystem, CountInv, FreeCountBacked
<1>9. CASE ExitGdt
  <2>1. \A g \in Groups : Cardinality(Slots \ bitmap[g]) \in Nat
    <3>1. IsFiniteSet(Slots)
      BY FS_Interval, GroupAssumption DEF Slots
    <3> QED BY <3>1, FS_Subset, FS_CardinalityType
  <2> QED BY <1>0, <1>9, <2>1 DEF ExitGdt, Down, CountInv, FreeCountBacked
<1>10. CASE Crash
  BY <1>0, <1>10 DEF Crash, Down, CountInv, FreeCountBacked, TypeInv, TypeOK
<1>11. CASE UNCHANGED vars
  BY <1>0, <1>11 DEF vars, CountInv, FreeCountBacked
<1> QED
  BY <1>1, <1>2, <1>3, <1>5, <1>6, <1>7, <1>8, <1>9, <1>10, <1>11 DEF Next, Format

\* Until the first crash no counter, in memory or on an idle volume, promises
\* more blocks than its bitmap has clear.
THEOREM CountersAreBacked == Spec => []FreeCountBacked
<1>1. Init => CountInv
  <2> SUFFICES ASSUME Init PROVE CountInv
    OBVIOUS
  <2>1. TypeInv
    BY TypeInit
  <2>2. IsFiniteSet(Slots) /\ Cardinality(Slots) \in Nat
    BY FS_Interval, FS_CardinalityType, GroupAssumption DEF Slots
  <2>3. \A g \in Groups : Slots \ bitmap[g] = Slots /\ free[g] = 0 /\ diskFree[g] = 0
    BY DEF Init
  <2> QED BY <2>1, <2>2, <2>3 DEF CountInv, FreeCountBacked
<1>2. CountInv => FreeCountBacked
  BY DEF CountInv
<1> QED BY <1>1, <1>2, CountNext, PTL DEF Spec

=============================================================================
