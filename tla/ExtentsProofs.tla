---------------------------- MODULE ExtentsProofs ----------------------------
(***************************************************************************)
(* Extents for files of every length on volumes of every size: the types,  *)
(* the room for the leaves, that no block has two owners and none is lost  *)
(* by what succeeds, and that a file has the blocks it was created with.   *)
(***************************************************************************)
EXTENDS Extents, SequenceTheorems, LeastNumbers, TLAPS

\* In a creation every leaf stands for one of the blocks asked for at least,
\* and what is still needed is not among them.
Counting ==
  /\ LeavesFit
  /\ making.needed > 0 => /\ Len(making.leaves) + making.needed <= making.asked
                          /\ making.ext_len >= 1

\* A file that is being created is not there yet.
Fresh ==
  \/ making = Idle
  \/ making.file \in Files /\ table[making.file] = Absent

\* What has an owner has been handed out.
Known ==
  /\ \A f \in Files : table[f].at \in taken \cup {0}
  /\ cleared \subseteq taken

\* The inductive invariant.
IInv == TypeOK /\ Counting /\ Fresh /\ Known /\ BlocksHaveOneOwner

\* Runs that can be granted lie in the volume, and are locations.
LEMMA RunsAreFree ==
  ASSUME TypeOK, NEW n, NEW b \in Runs(n)
  PROVE  b \in Volume /\ b # Refused /\ b .. b + n - 1 \subseteq Volume \ taken
BY DEF Runs, Volume, Refused

\* What is listed are leaves.
LEMMA ListedType ==
  ASSUME TypeOK, NEW f \in Files
  PROVE  Listed(f) \in Leaves
BY DEF TypeOK, Listed

\* A fresh leaf added to one file has no block of another leaf.
LEMMA AddedLeaf ==
  ASSUME IInv, NEW f \in Files, NEW leaf,
         Listed(f)' = Append(Listed(f), leaf),
         \A g \in Files \ {f} : Listed(g)' = Listed(g),
         \A g \in Files : table'[g].at = table[g].at,
         Run(leaf) \subseteq Volume \ taken,
         taken' = taken \cup Run(leaf),
         cleared' = cleared
  PROVE  BlocksHaveOneOwner'
<1> DEFINE L(g) == Listed(g)
           M(g) == Listed(g)'
<1>1. L(f) \in Seq([ext_block : Volume \cup {Refused}, ext_len : Nat])
  BY ListedType DEF IInv, Leaves
<1>2. /\ DOMAIN M(f) = DOMAIN L(f) \cup {Len(L(f)) + 1}
      /\ \A i \in DOMAIN L(f) : M(f)[i] = L(f)[i]
      /\ M(f)[Len(L(f)) + 1] = leaf
      /\ Len(L(f)) + 1 \notin DOMAIN L(f)
  BY <1>1
<1>3. \A g \in Files : \A i \in DOMAIN M(g) :
        \/ i \in DOMAIN L(g) /\ M(g)[i] = L(g)[i]
        \/ g = f /\ i = Len(L(f)) + 1 /\ M(g)[i] = leaf
  BY <1>2
<1>4. \A g \in Files : \A i \in DOMAIN L(g) :
        /\ Run(L(g)[i]) \subseteq taken \ cleared
        /\ \A h \in Files : table[h].at \notin Run(L(g)[i])
        /\ \A h \in Files : \A j \in DOMAIN L(h) :
             <<g, i>> # <<h, j>> => Run(L(g)[i]) \cap Run(L(h)[j]) = {}
  BY DEF IInv, BlocksHaveOneOwner
<1>5. \A h \in Files : table[h].at \notin Run(leaf)
  BY DEF IInv, Known, Volume
<1>6. cleared \subseteq taken
  BY DEF IInv, Known
<1> HIDE DEF L, M
<1>7. ASSUME NEW g \in Files, NEW i \in DOMAIN M(g)
      PROVE  /\ Run(M(g)[i]) \subseteq taken' \ cleared'
             /\ \A h \in Files : table'[h].at \notin Run(M(g)[i])
             /\ \A h \in Files : \A j \in DOMAIN M(h) :
                  <<g, i>> # <<h, j>> => Run(M(g)[i]) \cap Run(M(h)[j]) = {}
  <2>1. CASE i \in DOMAIN L(g) /\ M(g)[i] = L(g)[i]
    <3>1. Run(L(g)[i]) \cap Run(leaf) = {}
      BY <1>4, <2>1
    <3> QED BY <1>3, <1>4, <2>1, <3>1
  <2>2. CASE g = f /\ i = Len(L(f)) + 1 /\ M(g)[i] = leaf
    <3>1. Run(leaf) \subseteq taken' \ cleared'
      BY <1>6
    <3>2. ASSUME NEW h \in Files, NEW j \in DOMAIN M(h), <<g, i>> # <<h, j>>
          PROVE  Run(M(g)[i]) \cap Run(M(h)[j]) = {}
      <4>1. j \in DOMAIN L(h) /\ M(h)[j] = L(h)[j]
        BY <1>3, <2>2, <3>2
      <4> QED BY <1>4, <2>2, <4>1
    <3> QED BY <1>5, <2>2, <3>1, <3>2
  <2> QED BY <1>3, <1>7, <2>1, <2>2
<1>8. \A g \in Files : \A i \in DOMAIN Listed(g)' :
        /\ Run(Listed(g)'[i]) \subseteq taken' \ cleared'
        /\ \A h \in Files : table'[h].at \notin Run(Listed(g)'[i])
        /\ \A h \in Files : \A j \in DOMAIN Listed(h)' :
             <<g, i>> # <<h, j>> => Run(Listed(g)'[i]) \cap Run(Listed(h)'[j]) = {}
  BY <1>7 DEF M
<1> QED BY <1>8 DEF BlocksHaveOneOwner, Run

\* Files that lose their leaves, or keep them, and extent blocks that are new,
\* disturb nothing.
LEMMA KeptLeaves ==
  ASSUME IInv,
         \A g \in Files : Listed(g)' \in {Listed(g), <<>>},
         \A g \in Files : table'[g].at \in {table[g].at, 0} \cup (Volume \ taken),
         taken \subseteq taken',
         cleared' = cleared
  PROVE  BlocksHaveOneOwner'
<1>1. ASSUME NEW g \in Files, NEW i \in DOMAIN Listed(g)'
      PROVE  i \in DOMAIN Listed(g) /\ Listed(g)'[i] = Listed(g)[i]
  <2>1. Listed(g)' = Listed(g)
    BY <1>1
  <2> QED BY <1>1, <2>1
<1>2. ASSUME NEW g \in Files, NEW i \in DOMAIN Listed(g)
      PROVE  /\ Run(Listed(g)[i]) \subseteq taken' \ cleared'
             /\ \A h \in Files : table'[h].at \notin Run(Listed(g)[i])
  <2>1. Run(Listed(g)[i]) \subseteq taken \ cleared /\ taken \subseteq Volume
    BY DEF IInv, TypeOK, BlocksHaveOneOwner
  <2>2. \A h \in Files : table[h].at \notin Run(Listed(g)[i])
    BY DEF IInv, BlocksHaveOneOwner
  <2>3. 0 \notin Run(Listed(g)[i])
    BY <2>1 DEF Volume
  <2> QED BY <2>1, <2>2, <2>3
<1>3. \A g \in Files : \A i \in DOMAIN Listed(g) :
        \A h \in Files : \A j \in DOMAIN Listed(h) :
          <<g, i>> # <<h, j>> => Run(Listed(g)[i]) \cap Run(Listed(h)[j]) = {}
  BY DEF IInv, BlocksHaveOneOwner
<1>4. \A g \in Files : \A i \in DOMAIN Listed(g)' :
        /\ Run(Listed(g)'[i]) \subseteq taken' \ cleared'
        /\ \A h \in Files : table'[h].at \notin Run(Listed(g)'[i])
        /\ \A h \in Files : \A j \in DOMAIN Listed(h)' :
             <<g, i>> # <<h, j>> => Run(Listed(g)'[i]) \cap Run(Listed(h)'[j]) = {}
  BY <1>1, <1>2, <1>3
<1> QED BY <1>4 DEF BlocksHaveOneOwner, Run

\* It holds before the first file is created.
LEMMA InitIInv == Init => IInv
<1> SUFFICES ASSUME Init PROVE IInv
  OBVIOUS
<1>1. TypeOK
  BY DEF Init, TypeOK, Idle, Absent, Leaves
<1>2. Counting /\ Fresh /\ Known
  BY DEF Init, Counting, LeavesFit, Fresh, Known, Idle, Absent
<1>3. BlocksHaveOneOwner
  BY ExtentsAssumption DEF Init, BlocksHaveOneOwner, Listed, Idle, Absent
<1> QED BY <1>1, <1>2, <1>3 DEF IInv

\* A creation given up, or cut short by a crash.
LEMMA GiveUp ==
  ASSUME IInv, making # Idle, making' = Idle, UNCHANGED <<table, taken, cleared>>
  PROVE  IInv'
<1>1. TypeOK'
  <2>1. Idle \in [file : Files \cup {"none"}, asked : Nat, needed : Int, ext_len : Nat,
                  is_odd : {0, 1}, leaves : Leaves]
    BY DEF Idle, Leaves
  <2> QED BY <2>1 DEF IInv, TypeOK, Leaves, Volume
<1>5. Counting' /\ Fresh' /\ Known'
  BY DEF IInv, Counting, LeavesFit, Fresh, Known, Idle
<1>2. \A g \in Files : Listed(g)' \in {Listed(g), <<>>}
  BY ExtentsAssumption DEF IInv, Fresh, Listed, Idle, Absent
<1>3. BlocksHaveOneOwner'
  BY <1>2, KeptLeaves
<1> QED BY <1>1, <1>3, <1>5 DEF IInv

\* A creation begins with no leaf and all blocks needed.
LEMMA CreateStep ==
  ASSUME IInv, NEW f \in Files, NEW n \in Lengths, bfs_create_extent(f, n)
  PROVE  IInv'
<1>1. n \in Nat /\ n % 2 \in {0, 1}
  BY ExtentsAssumption
<1>2. TypeOK'
  <2>1. making' \in [file : Files \cup {"none"}, asked : Nat, needed : Int, ext_len : Nat,
                     is_odd : {0, 1}, leaves : Leaves]
    BY <1>1 DEF bfs_create_extent, Leaves
  <2> QED BY <2>1 DEF IInv, TypeOK, Leaves, Volume, bfs_create_extent
<1>5. Counting' /\ Fresh' /\ Known'
  BY <1>1 DEF IInv, Counting, LeavesFit, Fresh, Known, bfs_create_extent
<1>3. \A g \in Files : Listed(g)' \in {Listed(g), <<>>}
  BY ExtentsAssumption DEF bfs_create_extent, Listed, Idle
<1>4. BlocksHaveOneOwner'
  BY <1>3, KeptLeaves DEF bfs_create_extent
<1> QED BY <1>2, <1>4, <1>5 DEF IInv

\* A request granted adds a leaf of fresh blocks.
LEMMA TakeStep == ASSUME IInv, TakeRun PROVE IInv'
<1>1. PICK loc \in Runs(making.ext_len + making.is_odd) :
        /\ taken' = taken \cup (loc .. loc + making.ext_len + making.is_odd - 1)
        /\ making' = [making EXCEPT !.leaves = Append(@, Leaf(loc, making)),
                                    !.needed = Counted(making),
                                    !.is_odd = 0]
  BY DEF TakeRun
<1>2. making # Idle /\ making.needed > 0 /\ table' = table /\ cleared' = cleared
  BY DEF TakeRun
<1>3. /\ loc \in Volume /\ loc # Refused
      /\ loc .. loc + (making.ext_len + making.is_odd) - 1 \subseteq Volume \ taken
  BY RunsAreFree DEF IInv
<1>4. making \in [file : Files \cup {"none"}, asked : Nat, needed : Int, ext_len : Nat,
                  is_odd : {0, 1}, leaves : Leaves]
  BY DEF IInv, TypeOK
<1>5. Run(Leaf(loc, making)) = loc .. loc + (making.ext_len + making.is_odd) - 1
  BY <1>3 DEF Run, Leaf
<1>6. loc + making.ext_len + making.is_odd - 1 = loc + (making.ext_len + making.is_odd) - 1
  BY <1>3, <1>4 DEF Volume
<1>7. Leaf(loc, making) \in [ext_block : Volume \cup {Refused}, ext_len : Nat]
  BY <1>3, <1>4 DEF Leaf
<1>8. /\ making'.leaves = Append(making.leaves, Leaf(loc, making))
      /\ making'.leaves \in Leaves
      /\ Len(making'.leaves) = Len(making.leaves) + 1
      /\ making'.file = making.file /\ making'.asked = making.asked
      /\ making'.ext_len = making.ext_len /\ making'.is_odd = 0
      /\ making'.needed = making.needed - making.ext_len
  BY <1>1, <1>4, <1>7 DEF Leaves, Counted
<1>9. TypeOK'
  <2>1. making' \in [file : Files \cup {"none"}, asked : Nat, needed : Int, ext_len : Nat,
                     is_odd : {0, 1}, leaves : Leaves]
    <3>1. Append(making.leaves, Leaf(loc, making)) \in Leaves
      BY <1>8
    <3>2. Counted(making) \in Int
      BY <1>4 DEF Counted
    <3> QED BY <1>1, <1>4, <3>1, <3>2
  <2>2. taken' \subseteq Volume
    BY <1>1, <1>3, <1>6 DEF IInv, TypeOK
  <2> QED BY <1>2, <2>1, <2>2 DEF IInv, TypeOK, Leaves, Volume
<1>10. Counting'
  <2>1. Len(making.leaves) \in Nat
    BY <1>4 DEF Leaves
  <2> QED BY <1>2, <1>4, <1>8, <2>1 DEF IInv, Counting, LeavesFit
<1>11. Fresh' /\ Known'
  BY <1>1, <1>2, <1>8 DEF IInv, Fresh, Known
<1>12. BlocksHaveOneOwner'
  <2>1. PICK f \in Files : f = making.file
    BY <1>2 DEF IInv, Fresh
  <2>2. PICK leaf : leaf = Leaf(loc, making)
    OBVIOUS
  <2>3. Listed(f)' = Append(Listed(f), leaf)
    BY <1>8, <2>1, <2>2 DEF Listed
  <2>4. \A g \in Files \ {f} : Listed(g)' = Listed(g)
    BY <1>2, <1>8, <2>1 DEF Listed
  <2>5. taken' = taken \cup Run(leaf) /\ Run(leaf) \subseteq Volume \ taken
    BY <1>1, <1>3, <1>5, <1>6, <2>2
  <2> QED BY <1>2, <2>3, <2>4, <2>5, AddedLeaf
<1> QED BY <1>9, <1>10, <1>11, <1>12 DEF IInv

\* A request refused is halved and leaves the leaves alone.
LEMMA RetryStep == ASSUME IInv, Retry PROVE IInv'
<1>1. CASE Half(making) < 1
  BY <1>1, GiveUp DEF Retry
<1>2. CASE ~(Half(making) < 1)
  <2>1. /\ making # Idle /\ making.needed > 0
        /\ making' = [making EXCEPT !.ext_len = Half(making)]
        /\ UNCHANGED <<table, taken, cleared>>
    BY <1>2 DEF Retry
  <2>2. making \in [file : Files \cup {"none"}, asked : Nat, needed : Int, ext_len : Nat,
                    is_odd : {0, 1}, leaves : Leaves]
    BY DEF IInv, TypeOK
  <2>3. Half(making) \in Nat /\ Half(making) >= 1
    BY <1>2, <2>2 DEF Half
  <2>4. TypeOK'
    <3>1. making' \in [file : Files \cup {"none"}, asked : Nat, needed : Int, ext_len : Nat,
                       is_odd : {0, 1}, leaves : Leaves]
      BY <2>1, <2>2, <2>3
    <3> QED BY <2>1, <3>1 DEF IInv, TypeOK, Leaves, Volume
  <2>5. Counting' /\ Fresh' /\ Known'
    BY <2>1, <2>2, <2>3 DEF IInv, Counting, LeavesFit, Fresh, Known
  <2>6. \A g \in Files : Listed(g)' = Listed(g)
    BY <2>1, <2>2 DEF Listed
  <2>7. BlocksHaveOneOwner'
    BY <2>1, <2>6, KeptLeaves
  <2> QED BY <2>4, <2>5, <2>7 DEF IInv
<1> QED BY <1>1, <1>2

\* A creation hands its leaves to the file, or drops them.
LEMMA FinishStep == ASSUME IInv, Finish PROVE IInv'
<1>1. PICK at \in Answers(1) :
        IF Len(making.leaves) > MaxExtents
          THEN UNCHANGED <<table, taken>>
          ELSE /\ taken' = taken \cup ({at} \ {Refused})
               /\ table' = IF at = Refused THEN table
                           ELSE [table EXCEPT ![making.file] =
                                   [at |-> at, leaves |-> making.leaves]]
  BY DEF Finish
<1>2. making # Idle /\ making' = Idle /\ cleared' = cleared
  BY DEF Finish
<1>3. CASE Len(making.leaves) > MaxExtents \/ at = Refused
  <2>1. UNCHANGED <<table, taken>>
    BY <1>1, <1>3
  <2> QED BY <1>2, <2>1, GiveUp
<1>4. CASE ~(Len(making.leaves) > MaxExtents \/ at = Refused)
  <2>1. /\ taken' = taken \cup {at}
        /\ table' = [table EXCEPT ![making.file] = [at |-> at, leaves |-> making.leaves]]
    BY <1>1, <1>4
  <2>2. at \in Volume \ taken
    <3>1. at \in Runs(1)
      BY <1>4 DEF Answers
    <3>2. at \in Volume /\ at .. at + 1 - 1 \subseteq Volume \ taken
      BY <3>1, RunsAreFree DEF IInv
    <3> QED BY <3>2 DEF Volume
  <2>3. PICK f \in Files : f = making.file
    BY <1>2 DEF IInv, Fresh
  <2>4. making.leaves \in Leaves
    BY DEF IInv, TypeOK
  <2>5. TypeOK'
    <3>1. Idle \in [file : Files \cup {"none"}, asked : Nat, needed : Int, ext_len : Nat,
                    is_odd : {0, 1}, leaves : Leaves]
      BY DEF Idle, Leaves
    <3>2. [at |-> at, leaves |-> making.leaves] \in [at : {0} \cup Volume, leaves : Leaves]
      BY <2>2, <2>4
    <3>3. table' \in [Files -> [at : {0} \cup Volume, leaves : Leaves]]
      BY <2>1, <2>3, <3>2 DEF IInv, TypeOK
    <3> QED BY <1>2, <2>1, <2>2, <3>1, <3>3 DEF IInv, TypeOK, Leaves, Volume
  <2>6. \A g \in Files : table'[g] = IF g = f THEN [at |-> at, leaves |-> making.leaves]
                                     ELSE table[g]
    BY <2>1, <2>3 DEF IInv, TypeOK
  <2>7. Counting' /\ Fresh' /\ Known'
    BY <1>2, <2>1, <2>6 DEF IInv, Counting, LeavesFit, Fresh, Known, Idle
  <2>8. \A g \in Files : Listed(g)' = Listed(g)
    BY <1>2, <2>3, <2>6, ExtentsAssumption DEF Listed, Idle
  <2>9. BlocksHaveOneOwner'
    BY <1>2, <2>1, <2>2, <2>6, <2>8, KeptLeaves
  <2> QED BY <2>5, <2>7, <2>9 DEF IInv
<1> QED BY <1>3, <1>4

\* What a file that is there lists while nothing is being created.
LEMMA ListedIdle ==
  ASSUME NEW f \in Files, making = Idle
  PROVE  Listed(f) = table[f].leaves
BY ExtentsAssumption DEF Listed, Idle

\* b_write adds a leaf of one fresh block, or none.
LEMMA WriteStep ==
  ASSUME IInv, NEW f \in Files, NEW n \in Adds, b_write(f, n)
  PROVE  IInv'
<1>1. PICK loc \in Answers(n) :
        /\ table' = [table EXCEPT ![f].leaves = Append(@, NewLeaf(loc, n))]
        /\ taken' = taken \cup Run(NewLeaf(loc, n))
  BY DEF b_write
<1>2. making = Idle /\ making' = Idle /\ cleared' = cleared /\ n \in Nat
  BY ExtentsAssumption DEF b_write
<1>3. PICK leaf : leaf = NewLeaf(loc, n)
  OBVIOUS
<1>4. /\ leaf \in [ext_block : Volume \cup {Refused}, ext_len : Nat]
      /\ Run(leaf) \subseteq Volume \ taken
  <2>1. CASE loc = Refused
    BY <1>2, <1>3, <2>1 DEF NewLeaf, Run
  <2>2. CASE loc \in Runs(n)
    <3>1. loc \in Volume /\ loc # Refused /\ loc .. loc + n - 1 \subseteq Volume \ taken
      BY <2>2, RunsAreFree DEF IInv
    <3> QED BY <1>2, <1>3, <3>1 DEF NewLeaf, Run
  <2> QED BY <2>1, <2>2 DEF Answers
<1>5. /\ table \in [Files -> [at : {0} \cup Volume, leaves : Leaves]]
      /\ table[f].leaves \in Leaves
  BY DEF IInv, TypeOK
<1>6. Append(table[f].leaves, leaf) \in Leaves
  BY <1>4, <1>5 DEF Leaves
<1>7. /\ \A g \in Files : table'[g].at = table[g].at
      /\ table'[f].leaves = Append(table[f].leaves, leaf)
      /\ \A g \in Files \ {f} : table'[g] = table[g]
      /\ table' \in [Files -> [at : {0} \cup Volume, leaves : Leaves]]
  BY <1>1, <1>3, <1>5, <1>6
<1>8. TypeOK'
  BY <1>1, <1>2, <1>3, <1>4, <1>7 DEF IInv, TypeOK, Leaves, Volume, b_write
<1>9. Counting' /\ Fresh' /\ Known'
  BY <1>1, <1>2, <1>3, <1>7 DEF IInv, Counting, LeavesFit, Fresh, Known
<1>10. BlocksHaveOneOwner'
  <2>1. \A g \in Files : Listed(g) = table[g].leaves /\ Listed(g)' = table'[g].leaves
    BY <1>2, ExtentsAssumption DEF Listed, Idle
  <2>2. Listed(f)' = Append(Listed(f), leaf) /\ \A g \in Files \ {f} : Listed(g)' = Listed(g)
    BY <1>7, <2>1
  <2>3. taken' = taken \cup Run(leaf)
    BY <1>1, <1>3
  <2> QED BY <1>2, <1>4, <1>7, <2>2, <2>3, AddedLeaf
<1> QED BY <1>8, <1>9, <1>10 DEF IInv

\* A deletion frees the first leaf of a file that is then gone.
LEMMA DeleteStep ==
  ASSUME IInv, NEW f \in Files, bfs_delete_file(f)
  PROVE  IInv'
<1>1. /\ making = Idle /\ making' = Idle /\ taken' = taken
      /\ cleared' = cleared \cup free_extents(table[f].leaves)
      /\ table' = [table EXCEPT ![f] = Absent]
  BY DEF bfs_delete_file
<1>2. \A g \in Files : table'[g] = IF g = f THEN Absent ELSE table[g]
  BY <1>1 DEF IInv, TypeOK
<1>3. \A g \in Files : Listed(g) = table[g].leaves /\ Listed(g)' = table'[g].leaves
  BY <1>1, ExtentsAssumption DEF Listed, Idle
<1>4. table[f].leaves \in Leaves
  BY DEF IInv, TypeOK
<1>5. /\ table[f].leaves = <<>> => free_extents(table[f].leaves) = {}
      /\ table[f].leaves # <<>> => /\ 1 \in DOMAIN Listed(f)
                                   /\ free_extents(table[f].leaves) = Run(Listed(f)[1])
  BY <1>3, <1>4 DEF free_extents, Leaves
<1>6. free_extents(table[f].leaves) \subseteq taken
  BY <1>5 DEF IInv, BlocksHaveOneOwner
<1>7. TypeOK'
  <2>1. Absent \in [at : {0} \cup Volume, leaves : Leaves]
    BY DEF Absent, Leaves
  <2>2. table' \in [Files -> [at : {0} \cup Volume, leaves : Leaves]]
    BY <1>1, <2>1 DEF IInv, TypeOK
  <2> QED BY <1>1, <1>6, <2>2 DEF IInv, TypeOK, Leaves, Volume
<1>8. Counting' /\ Fresh' /\ Known'
  BY <1>1, <1>2, <1>6 DEF IInv, Counting, LeavesFit, Fresh, Known, Absent
<1>9. ASSUME NEW g \in Files, NEW i \in DOMAIN Listed(g)'
      PROVE  /\ g # f /\ Listed(g)' = Listed(g) /\ i \in DOMAIN Listed(g)
             /\ Run(Listed(g)[i]) \cap free_extents(table[f].leaves) = {}
  <2>1. g # f /\ Listed(g)' = Listed(g)
    BY <1>2, <1>3, <1>9 DEF Absent
  <2>2. i \in DOMAIN Listed(g)
    BY <1>9, <2>1
  <2>3. table[f].leaves # <<>> => Run(Listed(g)[i]) \cap Run(Listed(f)[1]) = {}
    BY <1>5, <2>1, <2>2 DEF IInv, BlocksHaveOneOwner
  <2> QED BY <1>5, <2>1, <2>2, <2>3
<1>10. BlocksHaveOneOwner'
  <2>1. \A g \in Files : \A i \in DOMAIN Listed(g)' :
          /\ Run(Listed(g)[i]) \subseteq taken' \ cleared'
          /\ \A h \in Files : table'[h].at \notin Run(Listed(g)[i])
    <3>1. \A g \in Files : \A i \in DOMAIN Listed(g) :
            /\ Run(Listed(g)[i]) \subseteq taken \ cleared
            /\ 0 \notin Run(Listed(g)[i])
            /\ \A h \in Files : table[h].at \notin Run(Listed(g)[i])
      BY DEF IInv, TypeOK, BlocksHaveOneOwner, Volume
    <3> QED BY <1>1, <1>2, <1>9, <3>1 DEF Absent
  <2>2. \A g \in Files : \A i \in DOMAIN Listed(g)' :
          \A h \in Files : \A j \in DOMAIN Listed(h)' :
            <<g, i>> # <<h, j>> => Run(Listed(g)[i]) \cap Run(Listed(h)[j]) = {}
    BY <1>9 DEF IInv, BlocksHaveOneOwner
  <2>3. \A g \in Files : \A i \in DOMAIN Listed(g)' :
          /\ Run(Listed(g)'[i]) \subseteq taken' \ cleared'
          /\ \A h \in Files : table'[h].at \notin Run(Listed(g)'[i])
          /\ \A h \in Files : \A j \in DOMAIN Listed(h)' :
               <<g, i>> # <<h, j>> => Run(Listed(g)'[i]) \cap Run(Listed(h)'[j]) = {}
    BY <1>9, <2>1, <2>2
  <2> QED BY <2>3 DEF BlocksHaveOneOwner, Run
<1> QED BY <1>7, <1>8, <1>10 DEF IInv

\* Every step keeps the inductive invariant.
LEMMA IInvStep == IInv /\ [Next]_vars => IInv'
<1> SUFFICES ASSUME IInv, [Next]_vars PROVE IInv'
  OBVIOUS
<1>1. ASSUME NEW f \in Files, NEW n \in Lengths, bfs_create_extent(f, n) PROVE IInv'
  BY <1>1, CreateStep
<1>2. CASE TakeRun
  BY <1>2, TakeStep
<1>3. CASE Retry
  BY <1>3, RetryStep
<1>4. CASE Finish
  BY <1>4, FinishStep
<1>5. ASSUME NEW f \in Files, NEW n \in Adds, b_write(f, n) PROVE IInv'
  BY <1>5, WriteStep
<1>6. ASSUME NEW f \in Files, bfs_delete_file(f) PROVE IInv'
  BY <1>6, DeleteStep
<1>7. CASE Crash
  BY <1>7, GiveUp DEF Crash
<1>8. CASE UNCHANGED vars
  <2>1. TypeOK' /\ Counting' /\ Fresh' /\ Known'
    BY <1>8 DEF vars, IInv, TypeOK, Counting, LeavesFit, Fresh, Known, Leaves, Volume
  <2>2. BlocksHaveOneOwner'
    <3>1. \A f \in Files : Listed(f)' = Listed(f)
      BY <1>8 DEF vars, Listed
    <3>2. table' = table /\ taken' = taken /\ cleared' = cleared
      BY <1>8 DEF vars
    <3> QED BY <3>1, <3>2 DEF IInv, BlocksHaveOneOwner, Run
  <2> QED BY <2>1, <2>2 DEF IInv
<1> QED BY <1>1, <1>2, <1>3, <1>4, <1>5, <1>6, <1>7, <1>8 DEF Next, Turn

\* The inductive invariant is one of the specification.
LEMMA Invariant == Spec => []IInv
BY InitIInv, IInvStep, PTL DEF Spec

\* Every variable has its type.
THEOREM TypeCorrect == Spec => []TypeOK
<1>1. IInv => TypeOK
  BY DEF IInv
<1> QED BY <1>1, Invariant, PTL

\* The array of leaves on the stack of bfs_create_extent, which is as long as
\* the number of blocks asked for, is never overrun, whatever is refused.
THEOREM ArrayHasRoom == Spec => []LeavesFit
<1>1. IInv => LeavesFit
  BY DEF IInv, Counting
<1> QED BY <1>1, Invariant, PTL

\* As long as bfs_get_free_blocks hands out fresh runs, no block belongs to two
\* leaves, is an extent block and a leaf's, or is freed while a file lists it.
THEOREM OneOwner == Spec => []BlocksHaveOneOwner
<1>1. IInv => BlocksHaveOneOwner
  BY DEF IInv
<1> QED BY <1>1, Invariant, PTL

\* Blocks that something refers to.
Owned(b) ==
  \E f \in Files : b = table[f].at \/ \E i \in DOMAIN Listed(f) : b \in Run(Listed(f)[i])

\* A step that hands out blocks all of which are referred to, and drops none,
\* loses none.
LEMMA NothingLost ==
  ASSUME NEW new, taken' = taken \cup new,
         \A b \in taken : Owned(b)' <=> Owned(b),
         \A b \in new : b \notin taken /\ Owned(b)'
  PROVE  Lost' = Lost
<1>1. Lost = {b \in taken : ~ Owned(b)}
  BY DEF Lost, Owned
<1>2. Lost' = {b \in taken' : ~ Owned(b)'}
  BY DEF Lost, Owned, Run
<1>3. QED BY <1>1, <1>2

\* It is so when a leaf of fresh blocks is added to one file.
LEMMA LeafLosesNothing ==
  ASSUME IInv, NEW f \in Files, NEW leaf,
         Listed(f)' = Append(Listed(f), leaf),
         \A g \in Files \ {f} : Listed(g)' = Listed(g),
         \A g \in Files : table'[g].at = table[g].at,
         Run(leaf) \subseteq Volume \ taken,
         taken' = taken \cup Run(leaf)
  PROVE  Lost' = Lost
<1>1. /\ DOMAIN Listed(f)' = DOMAIN Listed(f) \cup {Len(Listed(f)) + 1}
      /\ \A i \in DOMAIN Listed(f) : Listed(f)'[i] = Listed(f)[i]
      /\ Listed(f)'[Len(Listed(f)) + 1] = leaf
  <2>1. Listed(f) \in Seq([ext_block : Volume \cup {Refused}, ext_len : Nat])
    BY ListedType DEF IInv, Leaves
  <2> DEFINE L == Listed(f)
             M == Listed(f)'
  <2>2. M = Append(L, leaf) /\ L \in Seq([ext_block : Volume \cup {Refused}, ext_len : Nat])
    BY <2>1
  <2> HIDE DEF L, M
  <2>3. /\ DOMAIN M = DOMAIN L \cup {Len(L) + 1}
        /\ \A i \in DOMAIN L : M[i] = L[i]
        /\ M[Len(L) + 1] = leaf
    BY <2>2
  <2>4. QED BY <2>3 DEF L, M
<1>2. ASSUME NEW b PROVE Owned(b)' <=> Owned(b) \/ b \in Run(leaf)
  <2>1. Owned(b)' <=>
          \E g \in Files : b = table'[g].at \/ \E i \in DOMAIN Listed(g)' : b \in Run(Listed(g)'[i])
    BY DEF Owned, Run
  <2>2. ASSUME NEW g \in Files
        PROVE  (\E i \in DOMAIN Listed(g)' : b \in Run(Listed(g)'[i])) <=>
                 (\E i \in DOMAIN Listed(g) : b \in Run(Listed(g)[i])) \/ (g = f /\ b \in Run(leaf))
    <3>1. CASE g = f
      BY <1>1, <3>1
    <3>2. CASE g # f
      BY <3>2
    <3>3. QED BY <3>1, <3>2
  <2>3. QED BY <2>1, <2>2 DEF Owned
<1>3. QED BY <1>2, NothingLost

\* Files that list what they have listed lose nothing when the extent block that
\* is handed out, if any, is some file's.
LEMMA ListedLosesNothing ==
  ASSUME IInv, NEW new, taken' = taken \cup new, new \subseteq Volume \ taken,
         \A g \in Files : Listed(g)' = Listed(g),
         \A g \in Files : table'[g].at = table[g].at \/ (table[g].at = 0 /\ table'[g].at \in new),
         \A b \in new : \E g \in Files : table'[g].at = b
  PROVE  Lost' = Lost
<1>1. ASSUME NEW b
      PROVE  Owned(b)' <=>
               \E g \in Files : b = table'[g].at \/ \E i \in DOMAIN Listed(g) : b \in Run(Listed(g)[i])
  BY DEF Owned, Run
<1>2. ASSUME NEW b \in taken PROVE Owned(b)' <=> Owned(b)
  <2>1. b # 0 /\ b \notin new
    BY DEF IInv, TypeOK, Volume
  <2>2. \A g \in Files : b = table'[g].at <=> b = table[g].at
    BY <2>1
  <2>3. QED BY <1>1, <2>2 DEF Owned
<1>3. QED BY <1>1, <1>2, NothingLost

\* Nothing is lost where nothing changes.
LEMMA SameLosesNothing ==
  ASSUME table' = table, taken' = taken, \A g \in Files : Listed(g)' = Listed(g)
  PROVE  Lost' = Lost
BY DEF Lost, Run

\* No step loses a block but a deletion, and a creation that ends without a file.
LEMMA StepLosesNothing ==
  ASSUME IInv, [Next]_vars,
         \A f \in Files : table[f] # Absent => table'[f] # Absent,
         making # Idle /\ making' = Idle => table' # table
  PROVE  Lost' = Lost
<1>0. /\ table \in [Files -> [at : {0} \cup Volume, leaves : Leaves]]
      /\ making \in [file : Files \cup {"none"}, asked : Nat, needed : Int, ext_len : Nat,
                     is_odd : {0, 1}, leaves : Leaves]
  BY DEF IInv, TypeOK
<1>1. ASSUME NEW f \in Files, NEW n \in Lengths, bfs_create_extent(f, n) PROVE Lost' = Lost
  <2>1. \A g \in Files : Listed(g)' = Listed(g)
    <3>1. ASSUME NEW g \in Files PROVE Listed(g)' = Listed(g)
      <4>1. Listed(g) = table[g].leaves
        BY <1>1, ListedIdle DEF bfs_create_extent
      <4>2. Listed(g)' = IF g = f THEN <<>> ELSE table[g].leaves
        BY <1>1 DEF bfs_create_extent, Listed
      <4>3. table[f].leaves = <<>>
        BY <1>1 DEF bfs_create_extent, Absent
      <4>4. QED BY <4>1, <4>2, <4>3
    <3>2. QED BY <3>1
  <2>2. table' = table /\ taken' = taken
    BY <1>1 DEF bfs_create_extent
  <2>3. QED BY <2>1, <2>2, SameLosesNothing
<1>2. CASE TakeRun
  <2>1. PICK loc \in Runs(making.ext_len + making.is_odd) :
          /\ taken' = taken \cup (loc .. loc + making.ext_len + making.is_odd - 1)
          /\ making' = [making EXCEPT !.leaves = Append(@, Leaf(loc, making)),
                                      !.needed = Counted(making), !.is_odd = 0]
    BY <1>2 DEF TakeRun
  <2>2. making # Idle /\ table' = table
    BY <1>2 DEF TakeRun
  <2>3. /\ loc \in Volume /\ loc # Refused
        /\ loc .. loc + (making.ext_len + making.is_odd) - 1 \subseteq Volume \ taken
    BY RunsAreFree DEF IInv
  <2>4. loc + making.ext_len + making.is_odd - 1 = loc + (making.ext_len + making.is_odd) - 1
    BY <1>0, <2>3 DEF Volume
  <2>5. PICK leaf : leaf = Leaf(loc, making)
    OBVIOUS
  <2>6. Run(leaf) \subseteq Volume \ taken /\ taken' = taken \cup Run(leaf)
    BY <2>1, <2>3, <2>4, <2>5 DEF Run, Leaf
  <2>7. PICK f \in Files : f = making.file
    BY <2>2 DEF IInv, Fresh
  <2>8. making'.file = making.file /\ making'.leaves = Append(making.leaves, leaf)
    BY <1>0, <2>1, <2>5
  <2>9. Listed(f)' = Append(Listed(f), leaf) /\ \A g \in Files \ {f} : Listed(g)' = Listed(g)
    BY <2>2, <2>7, <2>8 DEF Listed
  <2>10. QED BY <2>2, <2>6, <2>9, LeafLosesNothing
<1>3. CASE Retry
  <2>1. making' # Idle
    BY <1>3 DEF Retry
  <2>2. making' = [making EXCEPT !.ext_len = Half(making)]
    BY <1>3, <2>1 DEF Retry
  <2>3. table' = table /\ taken' = taken
    BY <1>3 DEF Retry
  <2>4. \A g \in Files : Listed(g)' = Listed(g)
    BY <1>0, <2>2, <2>3 DEF Listed
  <2>5. QED BY <2>3, <2>4, SameLosesNothing
<1>4. CASE Finish
  <2>1. PICK at \in Answers(1) :
          IF Len(making.leaves) > MaxExtents
            THEN UNCHANGED <<table, taken>>
            ELSE /\ taken' = taken \cup ({at} \ {Refused})
                 /\ table' = IF at = Refused THEN table
                             ELSE [table EXCEPT ![making.file] =
                                     [at |-> at, leaves |-> making.leaves]]
    BY <1>4 DEF Finish
  <2>2. making # Idle /\ making' = Idle
    BY <1>4 DEF Finish
  <2>3. /\ at # Refused
        /\ taken' = taken \cup {at}
        /\ table' = [table EXCEPT ![making.file] = [at |-> at, leaves |-> making.leaves]]
    BY <2>1, <2>2
  <2>4. at \in Volume \ taken
    <3>1. at \in Runs(1)
      BY <2>3 DEF Answers
    <3>2. at \in Volume /\ at .. at + 1 - 1 \subseteq Volume \ taken
      BY <3>1, RunsAreFree DEF IInv
    <3>3. QED BY <3>2 DEF Volume
  <2>5. PICK f \in Files : f = making.file /\ table[f] = Absent
    BY <2>2 DEF IInv, Fresh
  <2>6. \A g \in Files : table'[g] = IF g = f THEN [at |-> at, leaves |-> making.leaves]
                                     ELSE table[g]
    BY <1>0, <2>3, <2>5
  <2>7. \A g \in Files : Listed(g)' = Listed(g)
    BY <2>2, <2>5, <2>6, ExtentsAssumption DEF Listed, Idle
  <2>8. \A g \in Files : table'[g].at = table[g].at \/ (table[g].at = 0 /\ table'[g].at \in {at})
    BY <2>5, <2>6 DEF Absent
  <2>9. \A b \in {at} : \E g \in Files : table'[g].at = b
    BY <2>6
  <2>10. PICK new : new = {at}
    OBVIOUS
  <2>11. /\ taken' = taken \cup new /\ new \subseteq Volume \ taken
         /\ \A g \in Files : table'[g].at = table[g].at \/ (table[g].at = 0 /\ table'[g].at \in new)
         /\ \A b \in new : \E g \in Files : table'[g].at = b
    BY <2>3, <2>4, <2>8, <2>9, <2>10
  <2>12. QED BY <2>7, <2>11, ListedLosesNothing
<1>5. ASSUME NEW f \in Files, NEW n \in Adds, b_write(f, n) PROVE Lost' = Lost
  <2>1. PICK loc \in Answers(n) :
          /\ table' = [table EXCEPT ![f].leaves = Append(@, NewLeaf(loc, n))]
          /\ taken' = taken \cup Run(NewLeaf(loc, n))
    BY <1>5 DEF b_write
  <2>2. making = Idle /\ making' = Idle /\ n \in Nat
    BY <1>5, ExtentsAssumption DEF b_write
  <2>3. PICK leaf : leaf = NewLeaf(loc, n)
    OBVIOUS
  <2>4. Run(leaf) \subseteq Volume \ taken
    <3>1. CASE loc = Refused
      BY <2>3, <3>1 DEF NewLeaf, Run
    <3>2. CASE loc \in Runs(n)
      <4>1. loc \in Volume /\ loc # Refused /\ loc .. loc + n - 1 \subseteq Volume \ taken
        BY <3>2, RunsAreFree DEF IInv
      <4>2. QED BY <2>3, <4>1 DEF NewLeaf, Run
    <3>3. QED BY <3>1, <3>2 DEF Answers
  <2>5. /\ \A g \in Files : table'[g].at = table[g].at
        /\ table'[f].leaves = Append(table[f].leaves, leaf)
        /\ \A g \in Files \ {f} : table'[g].leaves = table[g].leaves
    BY <1>0, <2>1, <2>3
  <2>6. \A g \in Files : Listed(g) = table[g].leaves /\ Listed(g)' = table'[g].leaves
    BY <2>2, ExtentsAssumption DEF Listed, Idle
  <2>7. Listed(f)' = Append(Listed(f), leaf) /\ \A g \in Files \ {f} : Listed(g)' = Listed(g)
    BY <2>5, <2>6
  <2>8. QED BY <2>1, <2>3, <2>4, <2>5, <2>7, LeafLosesNothing
<1>6. ASSUME NEW f \in Files, bfs_delete_file(f) PROVE Lost' = Lost
  <2>1. table[f] # Absent /\ table'[f] = Absent
    BY <1>0, <1>6 DEF bfs_delete_file
  <2>2. QED BY <2>1
<1>7. CASE Crash
  BY <1>7 DEF Crash
<1>8. CASE UNCHANGED vars
  <2>1. table' = table /\ taken' = taken /\ \A g \in Files : Listed(g)' = Listed(g)
    BY <1>8 DEF vars, Listed
  <2>2. QED BY <2>1, SameLosesNothing
<1>9. QED BY <1>1, <1>2, <1>3, <1>4, <1>5, <1>6, <1>7, <1>8 DEF Next, Turn

\* Blocks are lost only by deletions and by creations that fail or are cut
\* short: one that succeeds lists all it has taken, in however many turns.
THEOREM NothingIsLost == Spec => SuccessLosesNothing
<1> DEFINE Kind == (\A f \in Files : table[f] # Absent => table'[f] # Absent)
                     /\ (making # Idle /\ making' = Idle => table' # table)
                     => Lost' = Lost
<1>1. IInv /\ [Next]_vars => [Kind]_vars
  BY StepLosesNothing
<1>2. Spec => [][Kind]_vars
  BY <1>1, Invariant, PTL DEF Spec
<1>3. QED BY <1>2 DEF SuccessLosesNothing

-----------------------------------------------------------------------------
(* The blocks of a file that has been created *)

\* The leaves of an extent tree.
LeafType == [ext_block : Volume \cup {Refused}, ext_len : Nat]

\* The blocks of a leaf, as bfs_extent_array lays them out.
Laid(leaf) == [j \in 1 .. leaf.ext_len |-> leaf.ext_block + j - 1]

\* There are as many as the leaf has.
LEMMA LaidOut ==
  ASSUME NEW leaf \in LeafType
  PROVE  Laid(leaf) \in Seq(Int) /\ Len(Laid(leaf)) = leaf.ext_len
<1>1. leaf.ext_block \in Int /\ leaf.ext_len \in Nat
  BY DEF LeafType, Volume, Refused
<1>2. \A j \in 1 .. leaf.ext_len : leaf.ext_block + j - 1 \in Int
  BY <1>1
<1>3. QED BY <1>1, <1>2 DEF Laid

\* The blocks of a sequence of sequences are counted one sequence at a time.
LEMMA Flattening ==
  ASSUME NEW seqs \in Seq(Seq(Int))
  PROVE  \E t : /\ t \in [0 .. Len(seqs) -> Nat] /\ t[0] = 0
                /\ \A k \in 1 .. Len(seqs) : t[k] = t[k - 1] + Len(seqs[k])
                /\ Len(FlattenSeq(seqs)) = t[Len(seqs)]
<1> DEFINE n == Len(seqs)
           S == Seq(Int)
           Is(f) == f = [i \in 1 .. n |-> IF i = 1 THEN seqs[i] ELSE f[i - 1] \o seqs[i]]
           step == [x \in S |-> [k \in 1 .. n |-> x \o seqs[k]]]
<1>1. n \in Nat /\ \A k \in 1 .. n : seqs[k] \in S
  OBVIOUS
<1>2. <<>> \in S /\ step \in [S -> [1 .. n -> S]]
  BY <1>1
<1>3. Computes(n, S, <<>>, step)
  <2> HIDE DEF step, n, S
  <2>1. QED BY ONLY <1>1, <1>2, Iteration
<1>4. PICK g : /\ g \in [0 .. n -> S] /\ g[0] = <<>>
               /\ \A k \in 1 .. n : g[k] = step[g[k - 1]][k]
  <2> HIDE DEF step, n, S
  <2>1. QED BY <1>3 DEF Computes
<1>5. \A k \in 1 .. n : k - 1 \in 0 .. n /\ g[k - 1] \in S /\ g[k] = g[k - 1] \o seqs[k]
  <2>1. ASSUME NEW k \in 1 .. n
        PROVE  k - 1 \in 0 .. n /\ g[k - 1] \in S /\ g[k] = g[k - 1] \o seqs[k]
    <3>1. k - 1 \in 0 .. n
      BY <1>1
    <3>2. g[k - 1] \in S /\ g[k] = step[g[k - 1]][k]
      <4> HIDE DEF step, n, S
      <4>1. QED BY <1>4, <3>1
    <3>3. QED BY <3>1, <3>2
  <2>2. QED BY <2>1
<1> DEFINE G == [i \in 1 .. n |-> g[i]]
<1>6. Is(G)
  <2>1. ASSUME NEW i \in 1 .. n PROVE g[i] = IF i = 1 THEN seqs[i] ELSE G[i - 1] \o seqs[i]
    <3>1. CASE i = 1
      <4>0. i - 1 = 0
        BY <3>1
      <4>1. g[i] = g[0] \o seqs[i] /\ seqs[i] \in Seq(Int)
        <5> HIDE DEF n, step, G
        <5>1. QED BY <1>1, <1>5, <4>0 DEF S
      <4>2. g[i] = seqs[i]
        BY <1>4, <4>1, ConcatEmptySeq
      <4>3. QED BY <3>1, <4>2
    <3>2. CASE i # 1
      <4>1. i - 1 \in 1 .. n
        BY <1>1, <3>2
      <4>2. G[i - 1] = g[i - 1]
        BY <4>1
      <4>3. QED BY <1>5, <3>2, <4>2
    <3>3. QED BY <3>1, <3>2
  <2> HIDE DEF n
  <2>2. QED BY <2>1
<1>7. PICK f : f = (CHOOSE h : Is(h))
  OBVIOUS
<1>8. Is(f)
  <2> HIDE DEF Is
  <2>1. QED BY <1>6, <1>7
<1>9. n # 0 => FlattenSeq(seqs) = f[n]
  BY <1>7 DEF FlattenSeq
<1>10. n # 0 => f[n] = g[n]
  <2> DEFINE F == [k \in 0 .. n |-> IF k = 0 THEN <<>> ELSE f[k]]
  <2>1. F[0] = g[0]
    BY <1>1, <1>4
  <2>2. ASSUME NEW k \in 1 .. n, F[k - 1] = g[k - 1] PROVE F[k] = g[k]
    <3>1. k \in 0 .. n /\ k # 0 /\ k - 1 \in 0 .. n
      BY <1>1
    <3>2. F[k] = IF k = 1 THEN seqs[k] ELSE f[k - 1] \o seqs[k]
      BY <1>8, <3>1
    <3>3. CASE k = 1
      <4>0. k - 1 = 0
        BY <3>3
      <4>1. g[k] = g[0] \o seqs[k] /\ seqs[k] \in Seq(Int)
        <5> HIDE DEF n, step, G
        <5>1. QED BY <1>1, <1>5, <4>0 DEF S
      <4>2. g[k] = seqs[k]
        BY <1>4, <4>1, ConcatEmptySeq
      <4>3. QED BY <3>2, <3>3, <4>2
    <3>4. CASE k # 1
      <4>1. F[k - 1] = f[k - 1]
        BY <3>1, <3>4
      <4>2. QED BY <1>5, <2>2, <3>2, <3>4, <4>1
    <3>5. QED BY <3>3, <3>4
  <2> HIDE DEF F
  <2>3. Agree(F, g, n)
    <3> HIDE DEF n
    <3>1. QED BY <1>1, <2>1, <2>2, SameIteration
  <2>4. n # 0 => F[n] = f[n]
    BY <1>1 DEF F
  <2>5. n \in 0 .. n
    BY <1>1
  <2>6. QED BY <2>3, <2>4, <2>5 DEF Agree
<1>11. Len(FlattenSeq(seqs)) = Len(g[n])
  <2>1. CASE n = 0
    <3>1. seqs = <<>> /\ g[n] = <<>>
      BY <1>4, <2>1
    <3>2. QED BY <2>1, <3>1 DEF FlattenSeq
  <2>2. QED BY <1>9, <1>10, <2>1
<1> DEFINE t == [k \in 0 .. n |-> Len(g[k])]
<1>12. t \in [0 .. n -> Nat] /\ t[0] = 0 /\ t[n] = Len(g[n])
  <2>1. \A k \in 0 .. n : Len(g[k]) \in Nat
    BY <1>4
  <2>2. 0 \in 0 .. n /\ n \in 0 .. n
    BY <1>1
  <2>3. QED BY <1>4, <2>1, <2>2
<1>13. ASSUME NEW k \in 1 .. n PROVE t[k] = t[k - 1] + Len(seqs[k])
  <2>1. k \in 0 .. n /\ k - 1 \in 0 .. n
    BY <1>1
  <2>2. Len(g[k - 1] \o seqs[k]) = Len(g[k - 1]) + Len(seqs[k])
    BY <1>1, <1>5
  <2>3. QED BY <1>5, <2>1, <2>2
<1>14. QED
  <2> HIDE DEF t
  <2>1. QED BY <1>11, <1>12, <1>13

\* A file without leaves has no blocks, and a leaf adds its own.
LEMMA CountOf ==
  /\ Count(<<>>) = 0
  /\ \A leaves \in Seq(LeafType) : Count(leaves) \in Nat
  /\ \A leaves \in Seq(LeafType), leaf \in LeafType :
       Count(Append(leaves, leaf)) = Count(leaves) + leaf.ext_len
<1> DEFINE Seqs(leaves) == [i \in DOMAIN leaves |-> Laid(leaves[i])]
<1>1. ASSUME NEW leaves \in Seq(LeafType)
      PROVE  /\ Seqs(leaves) \in Seq(Seq(Int)) /\ Len(Seqs(leaves)) = Len(leaves)
             /\ \A k \in 1 .. Len(leaves) : Len(Seqs(leaves)[k]) = leaves[k].ext_len
             /\ Count(leaves) = Len(FlattenSeq(Seqs(leaves)))
  <2>1. Len(leaves) \in Nat /\ DOMAIN leaves = 1 .. Len(leaves)
    OBVIOUS
  <2>2. \A k \in 1 .. Len(leaves) : Laid(leaves[k]) \in Seq(Int) /\ Len(Laid(leaves[k])) = leaves[k].ext_len
    BY LaidOut
  <2>3. Count(leaves) = Len(FlattenSeq(Seqs(leaves)))
    BY DEF Count, bfs_extent_array, Laid
  <2>4. QED BY <2>1, <2>2, <2>3
<1>2. ASSUME NEW leaves \in Seq(LeafType)
      PROVE  \E t : /\ t \in [0 .. Len(leaves) -> Nat] /\ t[0] = 0
                    /\ \A k \in 1 .. Len(leaves) : t[k] = t[k - 1] + leaves[k].ext_len
                    /\ Count(leaves) = t[Len(leaves)]
  <2> DEFINE seqs == Seqs(leaves)
  <2> HIDE DEF Seqs
  <2>1. PICK t : /\ t \in [0 .. Len(seqs) -> Nat] /\ t[0] = 0
                 /\ \A k \in 1 .. Len(seqs) : t[k] = t[k - 1] + Len(seqs[k])
                 /\ Len(FlattenSeq(seqs)) = t[Len(seqs)]
    <3>1. seqs \in Seq(Seq(Int))
      BY <1>1
    <3> HIDE DEF seqs
    <3>2. QED BY <3>1, Flattening
  <2>2. /\ Len(seqs) = Len(leaves) /\ Count(leaves) = Len(FlattenSeq(seqs))
        /\ \A k \in 1 .. Len(leaves) : Len(seqs[k]) = leaves[k].ext_len
    BY <1>1
  <2> HIDE DEF seqs
  <2>3. QED BY <2>1, <2>2
<1>3. Count(<<>>) = 0
  <2>1. <<>> \in Seq(LeafType) /\ Len(<<>>) = 0
    OBVIOUS
  <2>2. QED BY <1>2, <2>1
<1>4. ASSUME NEW leaves \in Seq(LeafType) PROVE Count(leaves) \in Nat
  <2>1. Len(leaves) \in 0 .. Len(leaves)
    OBVIOUS
  <2>2. QED BY <1>2, <2>1
<1>5. ASSUME NEW leaves \in Seq(LeafType), NEW leaf \in LeafType
      PROVE  Count(Append(leaves, leaf)) = Count(leaves) + leaf.ext_len
  <2> DEFINE n == Len(leaves)
             more == Append(leaves, leaf)
  <2>1. /\ n \in Nat /\ more \in Seq(LeafType) /\ Len(more) = n + 1 /\ more[n + 1] = leaf
        /\ \A k \in 1 .. n : more[k] = leaves[k]
    OBVIOUS
  <2>2. PICK t : /\ t \in [0 .. n -> Nat] /\ t[0] = 0
                 /\ \A k \in 1 .. n : t[k] = t[k - 1] + leaves[k].ext_len
                 /\ Count(leaves) = t[n]
    BY <1>2
  <2>3. PICK u : /\ u \in [0 .. n + 1 -> Nat] /\ u[0] = 0
                 /\ \A k \in 1 .. n + 1 : u[k] = u[k - 1] + more[k].ext_len
                 /\ Count(more) = u[n + 1]
    <3> HIDE DEF more
    <3>1. QED BY <1>2, <2>1
  <2> HIDE DEF n, more
  <2>4. Agree(t, u, n)
    <3>1. ASSUME NEW k \in 1 .. n, t[k - 1] = u[k - 1] PROVE t[k] = u[k]
      <4>1. k \in 1 .. n + 1
        BY <2>1
      <4>2. QED BY <2>1, <2>2, <2>3, <3>1, <4>1
    <3>2. QED BY <2>1, <2>2, <2>3, <3>1, SameIteration
  <2>5. t[n] = u[n] /\ n + 1 \in 1 .. n + 1 /\ (n + 1) - 1 = n
    BY <2>1, <2>4 DEF Agree
  <2>6. u[n + 1] = u[n] + leaf.ext_len
    BY <2>1, <2>3, <2>5
  <2>7. QED BY <2>2, <2>3, <2>5, <2>6 DEF more
<1>6. QED BY <1>3, <1>4, <1>5

\* What the loop has taken and what it still needs is what was asked for, and
\* the odd block once it has been taken.  The last request granted may have
\* been for more than was still needed, but for no more than half of all unless
\* it was for all.
Covering ==
  making # Idle =>
    /\ Count(making.leaves) = making.asked - making.needed + (making.asked % 2) - making.is_odd
    /\ making.is_odd <= making.asked % 2
    /\ making.needed >= 0 \/ making.needed + making.ext_len > 0
    /\ \/ making.ext_len = making.asked /\ making.needed \in {0, making.asked}
       \/ making.ext_len <= making.asked \div 2

\* The numbers of a creation.
LEMMA MakingIs ==
  ASSUME TypeOK
  PROVE  /\ making.asked \in Nat /\ making.needed \in Int /\ making.ext_len \in Nat
         /\ making.is_odd \in {0, 1} /\ making.leaves \in Seq(LeafType)
         /\ making.asked % 2 \in {0, 1} /\ making.asked \div 2 \in Nat
<1>1. making.asked \in Nat
  BY DEF TypeOK
<1>2. making.asked % 2 \in {0, 1} /\ making.asked \div 2 \in Nat
  BY <1>1
<1>3. QED BY <1>2 DEF TypeOK, Leaves, LeafType

\* A creation begins with nothing taken.
LEMMA CreateCovers ==
  ASSUME NEW f \in Files, NEW n \in Lengths, bfs_create_extent(f, n)
  PROVE  Covering'
<1>1. n \in Nat /\ n % 2 \in {0, 1}
  BY ExtentsAssumption
<1>2. making' = [file |-> f, asked |-> n, needed |-> n, ext_len |-> n, is_odd |-> n % 2,
                 leaves |-> <<>>]
  BY DEF bfs_create_extent
<1>3. Count(making'.leaves) = 0
  BY <1>2, CountOf
<1>4. QED BY <1>1, <1>2, <1>3 DEF Covering, Count, bfs_extent_array

\* What a request granted takes is counted, but for the odd block.
LEMMA TakeCovers ==
  ASSUME IInv, Covering, TakeRun
  PROVE  Covering'
<1>1. PICK loc \in Runs(making.ext_len + making.is_odd) :
        making' = [making EXCEPT !.leaves = Append(@, Leaf(loc, making)),
                                 !.needed = Counted(making), !.is_odd = 0]
  BY DEF TakeRun
<1>2. making # Idle /\ making.needed > 0
  BY DEF TakeRun
<1>3. /\ making.asked \in Nat /\ making.needed \in Int /\ making.ext_len \in Nat
      /\ making.is_odd \in {0, 1} /\ making.leaves \in Seq(LeafType)
      /\ making.asked % 2 \in {0, 1} /\ making.asked \div 2 \in Nat
  BY MakingIs DEF IInv
<1>4. /\ making'.leaves = Append(making.leaves, Leaf(loc, making))
      /\ making'.asked = making.asked /\ making'.ext_len = making.ext_len
      /\ making'.needed = making.needed - making.ext_len /\ making'.is_odd = 0
  BY <1>1 DEF IInv, TypeOK, Counted
<1>5. Leaf(loc, making) \in LeafType /\ Leaf(loc, making).ext_len = making.ext_len + making.is_odd
  BY <1>3, RunsAreFree DEF IInv, Leaf, LeafType
<1>6. Count(making'.leaves) = Count(making.leaves) + making.ext_len + making.is_odd
  <2>1. Count(making.leaves) \in Nat
    BY <1>3, CountOf
  <2>2. Count(making'.leaves) = Count(making.leaves) + Leaf(loc, making).ext_len
    BY <1>3, <1>4, <1>5, CountOf
  <2>3. QED BY <1>3, <1>5, <2>1, <2>2
<1>7. Covering' <=>
        (making' # Idle =>
           /\ Count(making'.leaves) = making'.asked - making'.needed + (making'.asked % 2) - making'.is_odd
           /\ making'.is_odd <= making'.asked % 2
           /\ making'.needed >= 0 \/ making'.needed + making'.ext_len > 0
           /\ \/ making'.ext_len = making'.asked /\ making'.needed \in {0, making'.asked}
              \/ making'.ext_len <= making'.asked \div 2)
  BY DEF Covering, Count, bfs_extent_array
<1>8. /\ Count(making.leaves) = making.asked - making.needed + (making.asked % 2) - making.is_odd
      /\ making.is_odd <= making.asked % 2
      /\ \/ making.ext_len = making.asked /\ making.needed \in {0, making.asked}
         \/ making.ext_len <= making.asked \div 2
  BY <1>2 DEF Covering
<1>9. QED BY <1>2, <1>3, <1>4, <1>6, <1>7, <1>8

\* A request refused is halved.
LEMMA RetryCovers ==
  ASSUME IInv, Covering, Retry
  PROVE  Covering'
<1>1. CASE making' = Idle
  BY <1>1 DEF Covering
<1>2. CASE making' # Idle
  <2>1. making' = [making EXCEPT !.ext_len = Half(making)] /\ making # Idle /\ making.needed > 0
    BY <1>2 DEF Retry
  <2>2. /\ making.asked \in Nat /\ making.needed \in Int /\ making.ext_len \in Nat
        /\ making.asked \div 2 \in Nat
    BY MakingIs DEF IInv
  <2>3. /\ making'.leaves = making.leaves /\ making'.needed = making.needed
        /\ making'.asked = making.asked /\ making'.is_odd = making.is_odd
        /\ making'.ext_len = making.ext_len \div 2
    BY <2>1 DEF IInv, TypeOK, Half
  <2>4. making.ext_len <= making.asked
    BY <2>1, <2>2 DEF Covering
  <2>5. making.ext_len \div 2 <= making.asked \div 2
    BY <2>2, <2>4
  <2>6. Count(making'.leaves) = Count(making.leaves)
    BY <2>3
  <2>7. QED BY <2>1, <2>2, <2>3, <2>5, <2>6 DEF Covering, Count, bfs_extent_array
<1>3. QED BY <1>1, <1>2

\* Every step keeps it.
LEMMA CoveringStep == IInv /\ Covering /\ [Next]_vars => Covering'
<1> SUFFICES ASSUME IInv, Covering, [Next]_vars PROVE Covering'
  OBVIOUS
<1>1. ASSUME NEW f \in Files, NEW n \in Lengths, bfs_create_extent(f, n) PROVE Covering'
  BY <1>1, CreateCovers
<1>2. ASSUME making' = Idle PROVE Covering'
  BY <1>2 DEF Covering
<1>3. ASSUME making' = making PROVE Covering'
  BY <1>3 DEF Covering, Count, bfs_extent_array
<1>4. ASSUME NEW f \in Files, NEW n \in Adds, b_write(f, n) PROVE making' = making
  BY <1>4 DEF b_write
<1>5. ASSUME NEW f \in Files, bfs_delete_file(f) PROVE making' = making
  BY <1>5 DEF bfs_delete_file
<1>6. Finish \/ Crash => making' = Idle
  BY DEF Finish, Crash
<1>7. UNCHANGED vars => making' = making
  BY DEF vars
<1>8. QED BY <1>1, <1>2, <1>3, <1>4, <1>5, <1>6, <1>7, TakeCovers, RetryCovers DEF Next, Turn

\* A file that appears has been created, with the leaves of the creation.
LEMMA Appears ==
  ASSUME IInv, Covering, [Next]_vars, NEW f \in Files, table[f] = Absent, table'[f] # Absent
  PROVE  Count(table'[f].leaves) \in making.asked .. making.asked + 1 + making.asked \div 2
<1>0. table \in [Files -> [at : {0} \cup Volume, leaves : Leaves]]
  BY DEF IInv, TypeOK
<1>1. CASE Finish
  <2>1. PICK at \in Answers(1) :
          IF Len(making.leaves) > MaxExtents
            THEN UNCHANGED <<table, taken>>
            ELSE /\ taken' = taken \cup ({at} \ {Refused})
                 /\ table' = IF at = Refused THEN table
                             ELSE [table EXCEPT ![making.file] =
                                     [at |-> at, leaves |-> making.leaves]]
    BY <1>1 DEF Finish
  <2>2. table' = [table EXCEPT ![making.file] = [at |-> at, leaves |-> making.leaves]]
    BY <2>1
  <2>3. table'[f].leaves = making.leaves
    BY <1>0, <2>2
  <2>4. making # Idle /\ making.needed <= 0
    BY <1>1 DEF Finish
  <2>5. /\ making.asked \in Nat /\ making.needed \in Int /\ making.ext_len \in Nat
        /\ making.is_odd \in {0, 1} /\ making.asked % 2 \in {0, 1} /\ making.asked \div 2 \in Nat
    BY MakingIs DEF IInv
  <2>6. /\ Count(making.leaves) = making.asked - making.needed + (making.asked % 2) - making.is_odd
        /\ making.is_odd <= making.asked % 2
        /\ making.needed >= 0 \/ making.needed + making.ext_len > 0
        /\ \/ making.ext_len = making.asked /\ making.needed \in {0, making.asked}
           \/ making.ext_len <= making.asked \div 2
    BY <2>4 DEF Covering
  <2>7. Count(making.leaves) \in making.asked .. making.asked + 1 + making.asked \div 2
    <3> DEFINE asked == making.asked
               half  == asked \div 2
               odd   == asked % 2
    <3>1. asked \in Nat /\ half \in Nat /\ odd \in {0, 1}
      BY <2>5
    <3>2. /\ Count(making.leaves) = asked - making.needed + odd - making.is_odd
          /\ making.is_odd <= odd
          /\ making.needed >= 0 \/ making.needed + making.ext_len > 0
          /\ (making.ext_len = asked /\ making.needed \in {0, asked}) \/ making.ext_len <= half
      BY <2>6
    <3> HIDE DEF asked, half, odd
    <3>3. Count(making.leaves) \in asked .. asked + 1 + half
      BY <2>4, <2>5, <3>1, <3>2
    <3>4. QED BY <3>3 DEF asked, half
  <2>8. QED BY <2>3, <2>7
<1>2. ASSUME NEW g \in Files, NEW n \in Adds, b_write(g, n) PROVE FALSE
  <2>1. g # f
    BY <1>2 DEF b_write
  <2>2. table'[f] = table[f]
    BY <1>0, <1>2, <2>1 DEF b_write
  <2>3. QED BY <2>2
<1>3. ASSUME NEW g \in Files, bfs_delete_file(g) PROVE FALSE
  <2>1. table'[f] = Absent
    BY <1>0, <1>3 DEF bfs_delete_file
  <2>2. QED BY <2>1
<1>4. ASSUME table' = table PROVE FALSE
  BY <1>4
<1>5. ASSUME NEW g \in Files, NEW n \in Lengths, bfs_create_extent(g, n) PROVE table' = table
  BY <1>5 DEF bfs_create_extent
<1>6. TakeRun \/ Retry \/ Crash \/ UNCHANGED vars => table' = table
  BY DEF TakeRun, Retry, Crash, vars
<1>7. QED BY <1>1, <1>2, <1>3, <1>4, <1>5, <1>6 DEF Next, Turn

\* A file that has been created has the blocks that were asked for, and half of
\* them more at most, or one, however many requests were refused on the way.
THEOREM CreatedIsCovered == Spec => CreatedFilesAreCovered
<1> DEFINE Kind == \A f \in Files : table[f] = Absent /\ table'[f] # Absent =>
              Count(table'[f].leaves) \in making.asked .. making.asked + 1 + making.asked \div 2
<1>1. Init => Covering
  BY DEF Init, Covering
<1>2. IInv /\ Covering /\ [Next]_vars => Covering'
  BY CoveringStep
<1>3. IInv /\ Covering /\ [Next]_vars => [Kind]_vars
  BY Appears
<1>4. Spec => [][Kind]_vars
  BY <1>1, <1>2, <1>3, Invariant, PTL DEF Spec
<1>5. QED BY <1>4 DEF CreatedFilesAreCovered

-----------------------------------------------------------------------------
(* The loop's end *)

\* What is left to be done: blocks that are needed, and a length to be halved.
Left == (IF making.needed > 0 THEN making.needed ELSE 0) + making.ext_len

\* Each turn of the loop comes nearer to its end, which it reaches when nothing
\* is needed or the length cannot be halved: no order of grants and refusals
\* makes it go round for ever.
THEOREM CreationRunsDown ==
  Spec => [][Turn => Left \in Nat /\ (making' = Idle \/ Left' < Left)]_vars
<1> DEFINE Kind == Turn => Left \in Nat /\ (making' = Idle \/ Left' < Left)
<1>1. ASSUME IInv, Turn PROVE Left \in Nat /\ (making' = Idle \/ Left' < Left)
  <2>1. making.needed \in Int /\ making.ext_len \in Nat /\ making \in
          [file : Files \cup {"none"}, asked : Nat, needed : Int, ext_len : Nat,
           is_odd : {0, 1}, leaves : Leaves]
    BY <1>1 DEF IInv, TypeOK
  <2>2. Left \in Nat
    BY <2>1 DEF Left
  <2>3. making.needed > 0 => making.ext_len >= 1
    BY <1>1 DEF IInv, Counting
  <2>4. CASE TakeRun
    <3>1. making.needed > 0 /\ making'.needed = making.needed - making.ext_len
          /\ making'.ext_len = making.ext_len
      BY <2>1, <2>4 DEF TakeRun, Counted
    <3>2. QED BY <2>1, <2>2, <2>3, <3>1 DEF Left
  <2>5. CASE Retry /\ making' # Idle
    <3>1. /\ making.needed > 0 /\ making'.needed = making.needed
          /\ making'.ext_len = making.ext_len \div 2
      BY <2>1, <2>5 DEF Retry, Half
    <3>2. making.ext_len \div 2 \in Nat /\ making.ext_len \div 2 < making.ext_len
      BY <2>1, <2>3, <3>1
    <3>3. QED BY <2>1, <2>2, <3>1, <3>2 DEF Left
  <2>6. CASE Finish
    BY <2>2, <2>6 DEF Finish
  <2>7. QED BY <1>1, <2>2, <2>4, <2>5, <2>6 DEF Turn
<1>2. IInv /\ [Next]_vars => [Kind]_vars
  BY <1>1
<1>3. QED BY <1>2, Invariant, PTL DEF Spec
=============================================================================
