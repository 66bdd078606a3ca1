----------------------------- MODULE TreeProofs -----------------------------
(***************************************************************************)
(* Without mv the directories form trees, as long as cd is given absolute  *)
(* paths: refused blocks, full directories, crashes and removals that take *)
(* out only what comes first notwithstanding.  With mv, too, lookups keep  *)
(* leading where they led, and so does the session's path.  Without it     *)
(* they find what the tree has, and the commands implement PathTree.       *)
(***************************************************************************)
EXTENDS ListingProofs

\* The slots of an array that list something: those of an array not yet
\* written do not.
Slots(dir) == IF IsWritten(dir) THEN 3 .. Len(dir) ELSE {}

\* What is listed is listed once.
Once ==
  \A l, k \in Locs : \A i \in Slots(dirs[l]), j \in Slots(dirs[k]) :
    dirs[l][i].loc = dirs[k][j].loc /\ dirs[l][i].loc # 0 => l = k /\ i = j

\* A directory shares its name with nothing beside it.
Named ==
  \A l \in Locs : \A i, j \in Slots(dirs[l]) :
    dirs[l][i].type = "dir" /\ dirs[l][i].name = dirs[l][j].name => i = j

\* What is listed has been handed its location later than the directory that
\* lists it.
Later ==
  \A l \in Locs : \A i \in Slots(dirs[l]) : dirs[l][i].loc # 0 => dirs[l][i].loc > l

\* A directory that is listed and written leads back to where it is listed, and
\* only a crash leaves one unwritten.
Led ==
  \A l \in Locs : \A i \in Slots(dirs[l]) :
    dirs[l][i].type = "dir" /\ dirs[l][i].loc \notin {0, making.loc} =>
      IF IsWritten(dirs[dirs[l][i].loc]) THEN dirs[dirs[l][i].loc][2].loc = l ELSE crashes > 0

\* The directory that md is about to write is listed where its ".." will lead.
Begun ==
  making # None =>
    \A l \in Locs : \A i \in Slots(dirs[l]) : dirs[l][i].loc = making.loc => l = making.parent

\* The shape of the tree.
Trees == Once /\ Named /\ Later /\ Led /\ Begun

\* The inductive invariant.
TInv == DInv /\ Trees

-----------------------------------------------------------------------------
(* What a step does to the arrays *)

\* An entry with a name is put behind the last one of an array.
Adds(l, e) ==
  /\ l \in Locs /\ e \in Entry /\ e.name \in Names /\ e.loc \in {0, next}
  /\ Ready(dirs[l], l) /\ Len(dirs[l]) <= Capacity
  /\ dirs' = [dirs EXCEPT ![l] = Append(@, e)]

\* Its name is one that the array does not list.
Fresh(l, e) == \A i \in Slots(dirs[l]) : dirs[l][i].name # e.name

\* An entry behind the first two is taken out.
Takes(l, i) ==
  /\ l \in Locs /\ i \in 3 .. Len(dirs[l])
  /\ dirs' = [dirs EXCEPT ![l] = RemoveAt(@, i)]

\* An array not written until then is written, and lists nothing afterwards: it
\* stays without its first entries, or is the first one at its location.
Beside(l, new) ==
  /\ l \in Locs /\ ~ IsWritten(dirs[l]) /\ Slots(new) = {}
  /\ IsWritten(new) => l = next
  /\ dirs' = [dirs EXCEPT ![l] = new]

\* The disk as a sound one: what an array's entries are.
LEMMA Places ==
  ASSUME Sound(dirs, next), next \in Nat, NEW l \in Locs
  PROVE  /\ dirs[l] \in Seq(Entry) /\ Len(dirs[l]) \in Nat
         /\ \A i \in Slots(dirs[l]) :
              /\ i \in 3 .. Len(dirs[l]) /\ dirs[l][i] \in Entry
              /\ dirs[l][i].loc \in Locs \cup {0} /\ dirs[l][i].loc < next
              /\ dirs[l][i].type = "dir" => dirs[l][i].loc \notin Lost(dirs)
         /\ Slots(dirs[l]) # {} => Ready(dirs[l], l) /\ l < next /\ l \notin Lost(dirs)
<1>1. dirs[l] \in Seq(Entry) /\ Len(dirs[l]) \in Nat
  BY LenProperties DEF Sound
<1>2. ASSUME NEW i \in Slots(dirs[l])
      PROVE  /\ i \in 3 .. Len(dirs[l]) /\ dirs[l][i] \in Entry
             /\ dirs[l][i].loc \in Locs \cup {0} /\ dirs[l][i].loc < next
  <2>1. i \in 3 .. Len(dirs[l])
    BY DEF Slots
  <2>2. i \in 1 .. Len(dirs[l])
    BY <1>1, <2>1
  <2>3. EntryOK(dirs[l][i], next)
    BY <2>2 DEF Sound, ArrayOK
  <2>4. dirs[l][i] \in Entry /\ dirs[l][i].loc < next
    BY <2>3 DEF EntryOK
  <2>5. dirs[l][i].loc \in Locs \cup {0}
    BY <2>4 DEF Entry
  <2>6. QED BY <2>1, <2>4, <2>5
<1>3. ASSUME Slots(dirs[l]) # {} PROVE Ready(dirs[l], l) /\ l < next /\ l \notin Lost(dirs)
  <2>1. IsWritten(dirs[l]) /\ Len(dirs[l]) >= 3
    <3>1. PICK i : i \in Slots(dirs[l])
      BY <1>3
    <3>2. IsWritten(dirs[l]) /\ i \in 3 .. Len(dirs[l])
      BY <3>1 DEF Slots
    <3>3. QED BY <1>1, <3>2
  <2>2. l \notin Lost(dirs)
    <3>1. \A n \in Nat : n >= 3 => n # 1
      OBVIOUS
    <3>2. QED BY <1>1, <2>1, <3>1, Zenon DEF Lost
  <2>3. Ready(dirs[l], l)
    BY <2>1, <2>2, WrittenIsReady
  <2>4. l < next
    <3>1. l >= next => dirs[l] = <<>>
      BY DEF Sound
    <3>2. l \in Nat
      BY Numbers DEF Locs
    <3>3. QED BY <2>1, <3>1, <3>2 DEF IsWritten
  <2>5. QED BY <2>2, <2>3, <2>4
<1>4. ASSUME NEW i \in Slots(dirs[l]), dirs[l][i].type = "dir"
      PROVE  dirs[l][i].loc \notin Lost(dirs)
  <2>1. i \in 1 .. Len(dirs[l]) /\ l \notin Lost(dirs)
    BY <1>1, <1>2, <1>3
  <2>2. dirs[l][i].loc \in Lost(dirs) => dirs[l][i].loc = l
    BY <1>4, <2>1 DEF Sound
  <2>3. QED BY <2>1, <2>2
<1>5. QED BY <1>1, <1>2, <1>3, <1>4

\* A search finds a name within the whole entries, or one in front of it.
LEMMA Search ==
  ASSUME NEW dir \in Seq(Entry), IsWritten(dir), NEW i \in 1 .. Len(dir), i <= Capacity
  PROVE  find_file(dir[i].name, dir) \in 1 .. i
<1> DEFINE tok   == dir[i].name
           slots == IF IsWritten(dir) THEN 1 .. Smaller(Len(dir) + 1, Capacity) ELSE {}
           hits  == {j \in slots : tok = IF j > Len(dir) THEN NoName ELSE dir[j].name}
<1>1. Len(dir) \in Nat /\ Capacity \in Nat
  BY Numbers, LenProperties
<1>2. slots \in SUBSET Nat /\ i \in slots /\ i \in Nat /\ \A j \in slots : j >= 1
  BY <1>1 DEF Smaller
<1> HIDE DEF slots
<1>3. i \in hits
  BY <1>1, <1>2
<1>4. hits \in SUBSET Nat /\ \A j \in hits : j >= 1
  BY <1>2
<1>5. find_file(tok, dir) = IF hits = {} THEN 0 ELSE CHOOSE k \in hits : \A j \in hits : k <= j
  BY DEF find_file, slots
<1> DEFINE least == CHOOSE k \in hits : \A j \in hits : k <= j
<1>6. least \in hits /\ \A j \in hits : least <= j
  <2> HIDE DEF hits
  <2>1. \E k \in hits : \A j \in hits : k <= j
    BY <1>3, <1>4, LeastNat
  <2>2. QED BY <2>1
<1>7. find_file(tok, dir) = least
  <2> HIDE DEF hits
  <2>1. QED BY <1>3, <1>5
<1> HIDE DEF least, hits
<1>8. least \in 1 .. i
  <2>1. least \in Nat /\ least >= 1 /\ least <= i
    BY <1>3, <1>4, <1>6
  <2>2. QED BY <1>2, <2>1
<1>9. QED BY <1>7, <1>8

\* The arrays after an entry has been added.
LEMMA Added ==
  ASSUME Sound(dirs, next), next \in Nat, NEW l, NEW e, Adds(l, e)
  PROVE  /\ l \in Locs /\ l < next /\ \A k \in Locs : k # l => dirs'[k] = dirs[k]
         /\ \A k \in Locs : IsWritten(dirs'[k]) <=> IsWritten(dirs[k])
         /\ \A k \in Locs : dirs'[k][2] = dirs[k][2]
         /\ Slots(dirs'[l]) = Slots(dirs[l]) \cup {Len(dirs[l]) + 1}
         /\ Len(dirs[l]) + 1 \notin Slots(dirs[l])
         /\ dirs'[l][Len(dirs[l]) + 1] = e
         /\ \A i \in Slots(dirs[l]) : dirs'[l][i] = dirs[l][i]
<1> DEFINE dir == dirs[l]
           new == Append(dir, e)
           n   == Len(dir)
<1>1. /\ l \in Locs /\ e \in Entry /\ Ready(dir, l) /\ dir \in Seq(Entry) /\ n \in Nat
      /\ dirs \in [Locs -> Seq(Entry)]
  BY LenProperties DEF Adds, Sound
<1>2. dirs'[l] = new /\ \A k \in Locs : k # l => dirs'[k] = dirs[k]
  BY <1>1 DEF Adds
<1>3. Len(new) = n + 1 /\ new[n + 1] = e /\ \A i \in 1 .. n : new[i] = dir[i]
  BY <1>1, AppendProperties
<1> HIDE DEF new
<1>4. n >= 2 /\ dir[1] = bfs_create_dir_entry(".", l, "dir")
  BY <1>1 DEF Ready
<1>5. new[1] = dir[1] /\ new[2] = dir[2]
  BY <1>1, <1>3, <1>4
<1>6. IsWritten(dir) /\ IsWritten(new)
  <2>1. dir[1] # NoEntry
    BY <1>4 DEF NoEntry, bfs_create_dir_entry
  <2>2. dir # <<>> /\ new # <<>>
    BY <1>1, <1>3, <1>4, EmptySeq
  <2>3. QED BY <1>5, <2>1, <2>2 DEF IsWritten
<1>7. Slots(new) = Slots(dir) \cup {n + 1} /\ n + 1 \notin Slots(dir)
  BY <1>1, <1>3, <1>4, <1>6 DEF Slots
<1>8. \A i \in Slots(dir) : new[i] = dir[i]
  <2>1. Slots(dir) \subseteq 1 .. n
    BY <1>1 DEF Slots
  <2>2. QED BY <1>3, <2>1
<1>9. l < next
  BY <1>1, <1>6, Numbers DEF Sound, IsWritten, Locs
<1> HIDE DEF n
<1>10. \A k \in Locs : IsWritten(dirs'[k]) <=> IsWritten(dirs[k])
  BY <1>2, <1>6
<1>11. \A k \in Locs : dirs'[k][2] = dirs[k][2]
  BY <1>2, <1>5
<1>12. QED BY <1>1, <1>2, <1>3, <1>7, <1>8, <1>9, <1>10, <1>11 DEF n

\* Where an entry stood in an array before the one at slot i was taken out.
Back(i, j) == IF j < i THEN j ELSE j + 1

\* The arrays after an entry has been taken out.
LEMMA Taken ==
  ASSUME Sound(dirs, next), next \in Nat, NEW l, NEW i, Takes(l, i)
  PROVE  /\ l \in Locs /\ \A k \in Locs : k # l => dirs'[k] = dirs[k]
         /\ \A k \in Locs : IsWritten(dirs'[k]) <=> IsWritten(dirs[k])
         /\ \A k \in Locs : dirs'[k][2] = dirs[k][2]
         /\ \A j \in Slots(dirs'[l]) :
              Back(i, j) \in Slots(dirs[l]) /\ dirs'[l][j] = dirs[l][Back(i, j)]
         /\ \A j, k \in Slots(dirs'[l]) : Back(i, j) = Back(i, k) => j = k
<1> DEFINE dir == dirs[l]
           new == RemoveAt(dir, i)
           n   == Len(dir)
<1>1. /\ l \in Locs /\ dir \in Seq(Entry) /\ n \in Nat /\ i \in 3 .. n /\ i \in 1 .. n
      /\ dirs \in [Locs -> Seq(Entry)]
  BY LenProperties DEF Takes, Sound
<1>2. dirs'[l] = new /\ \A k \in Locs : k # l => dirs'[k] = dirs[k]
  BY <1>1 DEF Takes
<1>3. /\ new \in Seq(Entry) /\ Len(new) = n - 1
      /\ \A j \in 1 .. n - 1 : new[j] = IF j < i THEN dir[j] ELSE dir[j + 1]
  <2> HIDE DEF dir
  <2>1. QED BY <1>1, RemovedAt
<1> HIDE DEF new
<1>4. new[1] = dir[1] /\ new[2] = dir[2]
  <2>1. 1 \in 1 .. n - 1 /\ 2 \in 1 .. n - 1 /\ 1 < i /\ 2 < i
    BY <1>1
  <2>2. QED BY <1>3, <2>1
<1>5. IsWritten(new) <=> IsWritten(dir)
  <2>1. dir # <<>> /\ new # <<>>
    BY <1>1, <1>3, EmptySeq
  <2>2. QED BY <1>4, <2>1 DEF IsWritten
<1>6. ASSUME NEW j \in Slots(new)
      PROVE  Back(i, j) \in Slots(dir) /\ new[j] = dir[Back(i, j)]
  <2>1. j \in 3 .. n - 1 /\ IsWritten(dir)
    BY <1>3, <1>5 DEF Slots
  <2>2. Back(i, j) \in 3 .. n
    BY <1>1, <2>1 DEF Back
  <2>3. new[j] = IF j < i THEN dir[j] ELSE dir[j + 1]
    BY <1>1, <1>3, <2>1
  <2>4. QED BY <2>1, <2>2, <2>3 DEF Slots, Back
<1>7. ASSUME NEW j \in Slots(new), NEW k \in Slots(new), Back(i, j) = Back(i, k)
      PROVE  j = k
  <2>1. j \in Int /\ k \in Int /\ i \in Int
    BY <1>1 DEF Slots
  <2>2. QED BY <1>7, <2>1 DEF Back
<1> HIDE DEF dir
<1>8. \A k \in Locs : IsWritten(dirs'[k]) <=> IsWritten(dirs[k])
  BY <1>2, <1>5 DEF dir
<1>9. \A k \in Locs : dirs'[k][2] = dirs[k][2]
  BY <1>2, <1>4 DEF dir
<1>10. QED BY <1>1, <1>2, <1>6, <1>7, <1>8, <1>9 DEF dir

\* The arrays after one of those that list nothing has been written.
LEMMA WrittenBeside ==
  ASSUME Sound(dirs, next), NEW l, NEW new, Beside(l, new)
  PROVE  /\ l \in Locs /\ dirs'[l] = new /\ \A k \in Locs : k # l => dirs'[k] = dirs[k]
         /\ \A k \in Locs : Slots(dirs'[k]) = Slots(dirs[k])
         /\ \A k \in Locs : \A i \in Slots(dirs[k]) : dirs'[k][i] = dirs[k][i]
<1>1. /\ l \in Locs /\ dirs \in [Locs -> Seq(Entry)] /\ Slots(new) = {} /\ Slots(dirs[l]) = {}
  BY DEF Beside, Sound, Slots
<1>2. dirs'[l] = new /\ \A k \in Locs : k # l => dirs'[k] = dirs[k]
  BY <1>1 DEF Beside
<1>3. QED BY <1>1, <1>2

-----------------------------------------------------------------------------
(* Steps that leave the trees trees *)

\* An entry is added, and with a new directory's its array is still to be
\* written.
LEMMA AddTree ==
  ASSUME Sound(dirs, next), next \in Nat, Trees, NEW l, NEW e, Adds(l, e), making = None,
         \A i \in Slots(dirs[l]) :
           e.type = "dir" \/ dirs[l][i].type = "dir" => dirs[l][i].name # e.name,
         making' = None \/ (making'.loc = next /\ making'.parent = l),
         e.type = "dir" /\ e.loc = next => making'.loc = next,
         crashes' = crashes
  PROVE  Trees'
<1> DEFINE n == Len(dirs[l]) + 1
<1>1. /\ l \in Locs /\ l < next /\ \A k \in Locs : k # l => dirs'[k] = dirs[k]
      /\ \A k \in Locs : IsWritten(dirs'[k]) <=> IsWritten(dirs[k])
      /\ \A k \in Locs : dirs'[k][2] = dirs[k][2]
      /\ Slots(dirs'[l]) = Slots(dirs[l]) \cup {n} /\ n \notin Slots(dirs[l])
      /\ dirs'[l][n] = e /\ \A i \in Slots(dirs[l]) : dirs'[l][i] = dirs[l][i]
  BY Added
<1> HIDE DEF n
<1>2. ASSUME NEW k \in Locs, NEW j \in Slots(dirs'[k])
      PROVE  \/ j \in Slots(dirs[k]) /\ dirs'[k][j] = dirs[k][j]
             \/ k = l /\ j = n /\ dirs'[k][j] = e
  BY <1>1
<1>3. ASSUME NEW k \in Locs, NEW j \in Slots(dirs[k])
      PROVE  dirs[k][j].loc \in Locs \cup {0} /\ dirs[k][j].loc < next
  BY Places
<1>4. e.loc \in {0, next} /\ next \in Nat /\ Locs \subseteq Nat
  BY Numbers DEF Adds, Locs
<1>5. Once'
  <2>1. ASSUME NEW a \in Locs, NEW k \in Locs, NEW i \in Slots(dirs'[a]), NEW j \in Slots(dirs'[k]),
               dirs'[a][i].loc = dirs'[k][j].loc, dirs'[a][i].loc # 0
        PROVE  a = k /\ i = j
    <3>1. CASE i \in Slots(dirs[a]) /\ dirs'[a][i] = dirs[a][i] /\ j \in Slots(dirs[k])
                 /\ dirs'[k][j] = dirs[k][j]
      BY <2>1, <3>1 DEF Trees, Once
    <3>2. CASE i \in Slots(dirs[a]) /\ dirs'[a][i] = dirs[a][i] /\ dirs'[k][j] = e
      BY <1>3, <1>4, <2>1, <3>2
    <3>3. CASE dirs'[a][i] = e /\ j \in Slots(dirs[k]) /\ dirs'[k][j] = dirs[k][j]
      BY <1>3, <1>4, <2>1, <3>3
    <3>4. QED BY <1>2, <3>1, <3>2, <3>3
  <2>2. QED BY <2>1 DEF Once
<1>6. Named'
  <2>1. ASSUME NEW a \in Locs, NEW i \in Slots(dirs'[a]), NEW j \in Slots(dirs'[a]),
               dirs'[a][i].type = "dir", dirs'[a][i].name = dirs'[a][j].name
        PROVE  i = j
    <3>1. CASE i \in Slots(dirs[a]) /\ dirs'[a][i] = dirs[a][i] /\ j \in Slots(dirs[a])
                 /\ dirs'[a][j] = dirs[a][j]
      BY <2>1, <3>1 DEF Trees, Named
    <3>2. CASE i \in Slots(dirs[a]) /\ dirs'[a][i] = dirs[a][i] /\ a = l /\ dirs'[a][j] = e
      BY <2>1, <3>2
    <3>3. CASE a = l /\ dirs'[a][i] = e /\ j \in Slots(dirs[a]) /\ dirs'[a][j] = dirs[a][j]
      BY <2>1, <3>3
    <3>4. QED BY <1>2, <3>1, <3>2, <3>3
  <2>2. QED BY <2>1 DEF Named
<1>7. Later'
  <2>1. ASSUME NEW k \in Locs, NEW j \in Slots(dirs'[k]), dirs'[k][j].loc # 0
        PROVE  dirs'[k][j].loc > k
    <3>1. CASE j \in Slots(dirs[k]) /\ dirs'[k][j] = dirs[k][j]
      BY <2>1, <3>1 DEF Trees, Later
    <3>2. CASE k = l /\ dirs'[k][j] = e
      BY <1>1, <1>4, <2>1, <3>2
    <3>3. QED BY <1>2, <3>1, <3>2
  <2>2. QED BY <2>1 DEF Later
<1>8. Led'
  <2>1. ASSUME NEW k \in Locs, NEW j \in Slots(dirs'[k]), dirs'[k][j].type = "dir",
               dirs'[k][j].loc \notin {0, making'.loc}
        PROVE  IF IsWritten(dirs'[dirs'[k][j].loc]) THEN dirs'[dirs'[k][j].loc][2].loc = k
                                                   ELSE crashes' > 0
    <3>1. CASE j \in Slots(dirs[k]) /\ dirs'[k][j] = dirs[k][j]
      <4> DEFINE d == dirs[k][j].loc
      <4>1. d \in Locs /\ d # 0 /\ making.loc = 0
        BY <1>3, <2>1, <3>1 DEF None
      <4>2. IF IsWritten(dirs[d]) THEN dirs[d][2].loc = k ELSE crashes > 0
        BY <2>1, <3>1, <4>1 DEF Trees, Led
      <4> HIDE DEF d
      <4>3. IF IsWritten(dirs'[d]) THEN dirs'[d][2].loc = k ELSE crashes' > 0
        BY <1>1, <4>1, <4>2
      <4>4. QED BY <3>1, <4>3 DEF d
    <3>2. CASE dirs'[k][j] = e
      BY <1>4, <2>1, <3>2
    <3>3. QED BY <1>2, <3>1, <3>2
  <2>2. QED BY <2>1 DEF Led
<1>9. Begun'
  <2>1. ASSUME making' # None, NEW k \in Locs, NEW j \in Slots(dirs'[k]),
               dirs'[k][j].loc = making'.loc
        PROVE  k = making'.parent
    <3>1. making'.loc = next /\ making'.parent = l
      BY <2>1
    <3>2. CASE j \in Slots(dirs[k]) /\ dirs'[k][j] = dirs[k][j]
      BY <1>3, <1>4, <2>1, <3>1, <3>2
    <3>3. QED BY <1>2, <3>1, <3>2
  <2>2. QED BY <2>1 DEF Begun
<1>10. QED BY <1>5, <1>6, <1>7, <1>8, <1>9 DEF Trees

\* An entry is taken out.
LEMMA TakeTree ==
  ASSUME Sound(dirs, next), next \in Nat, Trees, NEW l, NEW i, Takes(l, i),
         making' = making, crashes' = crashes
  PROVE  Trees'
<1> DEFINE From(k, j) == IF k = l THEN Back(i, j) ELSE j
<1>1. /\ l \in Locs /\ \A k \in Locs : k # l => dirs'[k] = dirs[k]
      /\ \A k \in Locs : IsWritten(dirs'[k]) <=> IsWritten(dirs[k])
      /\ \A k \in Locs : dirs'[k][2] = dirs[k][2]
      /\ \A j \in Slots(dirs'[l]) :
           Back(i, j) \in Slots(dirs[l]) /\ dirs'[l][j] = dirs[l][Back(i, j)]
      /\ \A j, k \in Slots(dirs'[l]) : Back(i, j) = Back(i, k) => j = k
  BY Taken
<1>2. ASSUME NEW k \in Locs, NEW j \in Slots(dirs'[k])
      PROVE  From(k, j) \in Slots(dirs[k]) /\ dirs'[k][j] = dirs[k][From(k, j)]
  BY <1>1
<1>3. ASSUME NEW k \in Locs, NEW a \in Slots(dirs'[k]), NEW j \in Slots(dirs'[k]),
             From(k, a) = From(k, j)
      PROVE  a = j
  BY <1>1, <1>3
<1> HIDE DEF From
<1>4. Once'
  <2>1. ASSUME NEW a \in Locs, NEW k \in Locs, NEW c \in Slots(dirs'[a]), NEW j \in Slots(dirs'[k]),
               dirs'[a][c].loc = dirs'[k][j].loc, dirs'[a][c].loc # 0
        PROVE  a = k /\ c = j
    <3>1. a = k /\ From(a, c) = From(k, j)
      BY <1>2, <2>1 DEF Trees, Once
    <3>2. QED BY <1>3, <3>1
  <2>2. QED BY <2>1 DEF Once
<1>5. Named'
  <2>1. ASSUME NEW k \in Locs, NEW a \in Slots(dirs'[k]), NEW j \in Slots(dirs'[k]),
               dirs'[k][a].type = "dir", dirs'[k][a].name = dirs'[k][j].name
        PROVE  a = j
    <3>1. From(k, a) = From(k, j)
      BY <1>2, <2>1 DEF Trees, Named
    <3>2. QED BY <1>3, <3>1
  <2>2. QED BY <2>1 DEF Named
<1>6. Later'
  BY <1>2 DEF Trees, Later
<1>7. Led'
  <2>1. ASSUME NEW k \in Locs, NEW j \in Slots(dirs'[k]), dirs'[k][j].type = "dir",
               dirs'[k][j].loc \notin {0, making'.loc}
        PROVE  IF IsWritten(dirs'[dirs'[k][j].loc]) THEN dirs'[dirs'[k][j].loc][2].loc = k
                                                   ELSE crashes' > 0
    <3> DEFINE b == From(k, j)
               d == dirs[k][b].loc
    <3>1. b \in Slots(dirs[k]) /\ dirs'[k][j] = dirs[k][b]
      BY <1>2
    <3> HIDE DEF b
    <3>2. d \in Locs
      BY <2>1, <3>1, Places
    <3>3. IF IsWritten(dirs[d]) THEN dirs[d][2].loc = k ELSE crashes > 0
      BY <2>1, <3>1 DEF Trees, Led
    <3> HIDE DEF d
    <3>4. IF IsWritten(dirs'[d]) THEN dirs'[d][2].loc = k ELSE crashes' > 0
      BY <1>1, <3>2, <3>3
    <3>5. QED BY <3>1, <3>4 DEF d
  <2>2. QED BY <2>1 DEF Led
<1>8. Begun'
  BY <1>2 DEF Trees, Begun
<1>9. QED BY <1>4, <1>5, <1>6, <1>7, <1>8 DEF Trees

\* What is listed lies where it was, and no array that anything leads to has
\* been written.
LEMMA StillTree ==
  ASSUME Sound(dirs, next), next \in Nat, Trees, making = None,
         \A k \in Locs : Slots(dirs'[k]) = Slots(dirs[k]),
         \A k \in Locs : \A i \in Slots(dirs[k]) : dirs'[k][i] = dirs[k][i],
         \A k \in Locs : k < next =>
           (IsWritten(dirs'[k]) <=> IsWritten(dirs[k])) /\ (IsWritten(dirs[k]) => dirs'[k] = dirs[k]),
         making' = None \/ making'.loc = next, crashes' = crashes
  PROVE  Trees'
<1>1. ASSUME NEW k \in Locs, NEW j \in Slots(dirs[k])
      PROVE  dirs[k][j].loc \in Locs \cup {0} /\ dirs[k][j].loc < next
  BY Places
<1>2. Once' /\ Named' /\ Later'
  BY DEF Trees, Once, Named, Later
<1>3. Led'
  <2>1. ASSUME NEW k \in Locs, NEW j \in Slots(dirs'[k]), dirs'[k][j].type = "dir",
               dirs'[k][j].loc \notin {0, making'.loc}
        PROVE  IF IsWritten(dirs'[dirs'[k][j].loc]) THEN dirs'[dirs'[k][j].loc][2].loc = k
                                                   ELSE crashes' > 0
    <3> DEFINE d == dirs[k][j].loc
    <3>1. j \in Slots(dirs[k]) /\ dirs'[k][j] = dirs[k][j] /\ making.loc = 0
      BY DEF None
    <3>2. d \in Locs /\ d < next /\ d # 0
      BY <1>1, <2>1, <3>1
    <3>3. IF IsWritten(dirs[d]) THEN dirs[d][2].loc = k ELSE crashes > 0
      BY <2>1, <3>1, <3>2 DEF Trees, Led
    <3> HIDE DEF d
    <3>4. IF IsWritten(dirs'[d]) THEN dirs'[d][2].loc = k ELSE crashes' > 0
      BY <3>2, <3>3
    <3>5. QED BY <3>1, <3>4 DEF d
  <2>2. QED BY <2>1 DEF Led
<1>4. Begun'
  <2>1. ASSUME making' # None, NEW k \in Locs, NEW j \in Slots(dirs'[k]),
               dirs'[k][j].loc = making'.loc
        PROVE  FALSE
    <3>1. making'.loc = next /\ j \in Slots(dirs[k]) /\ dirs'[k][j] = dirs[k][j]
      BY <2>1
    <3>2. dirs[k][j].loc \in Nat /\ dirs[k][j].loc < next
      BY <1>1, <3>1, Numbers DEF Locs
    <3>3. QED BY <2>1, <3>1, <3>2
  <2>2. QED BY <2>1 DEF Begun
<1>5. QED BY <1>2, <1>3, <1>4 DEF Trees

\* An array that lists nothing is written.
LEMMA BesideTree ==
  ASSUME Sound(dirs, next), next \in Nat, Trees, making = None, NEW l, NEW new, Beside(l, new),
         making' = None \/ making'.loc = next, crashes' = crashes
  PROVE  Trees'
<1>1. /\ l \in Locs /\ dirs'[l] = new /\ \A k \in Locs : k # l => dirs'[k] = dirs[k]
      /\ \A k \in Locs : Slots(dirs'[k]) = Slots(dirs[k])
      /\ \A k \in Locs : \A i \in Slots(dirs[k]) : dirs'[k][i] = dirs[k][i]
  BY WrittenBeside
<1>2. ASSUME NEW k \in Locs, k < next
      PROVE  (IsWritten(dirs'[k]) <=> IsWritten(dirs[k])) /\ (IsWritten(dirs[k]) => dirs'[k] = dirs[k])
  <2>1. CASE k # l
    BY <1>1, <2>1
  <2>2. CASE k = l
    <3>1. k # next
      BY <1>2, Numbers DEF Locs
    <3>2. QED BY <1>1, <2>2, <3>1 DEF Beside
  <2>3. QED BY <2>1, <2>2
<1>3. QED BY <1>1, <1>2, StillTree

\* Nothing is written.
LEMMA SameTree ==
  ASSUME Sound(dirs, next), next \in Nat, Trees, making = None, dirs' = dirs,
         making' = None \/ making'.loc = next, crashes' = crashes
  PROVE  Trees'
BY StillTree

\* A name that is not found is not there.
LEMMA NotFound ==
  ASSUME NEW dir \in Seq(Entry), Len(dir) <= Capacity, NEW i \in Slots(dir)
  PROVE  /\ find_file(dir[i].name, dir) \in 1 .. i /\ find_file(dir[i].name, dir) # 0
         /\ i \in 3 .. Len(dir) /\ i \in 1 .. Len(dir) /\ IsWritten(dir)
<1>1. Len(dir) \in Nat /\ Capacity \in Nat
  BY LenProperties, Numbers
<1>2. IsWritten(dir) /\ i \in 3 .. Len(dir)
  BY DEF Slots
<1>3. i \in 1 .. Len(dir) /\ i <= Capacity
  BY <1>1, <1>2
<1>4. find_file(dir[i].name, dir) \in 1 .. i
  BY <1>2, <1>3, Search
<1> DEFINE j == find_file(dir[i].name, dir)
<1>5. j \in 1 .. i
  BY <1>4
<1> HIDE DEF j
<1>6. j # 0
  BY <1>3, <1>5
<1>7. QED BY <1>2, <1>3, <1>4, <1>6 DEF j

-----------------------------------------------------------------------------
(* The commands *)

\* The first write of md: a name the parent does not list yet is added to it, or
\* it goes where the new directory's array will be.
LEMMA MkdirWrites ==
  ASSUME IInv, NEW input \in MkdirPaths, fs_mkdir(input)
  PROVE  /\ making' = None \/ making'.loc = next
         /\ \/ dirs' = dirs
            \/ \E l \in Locs, e \in Entry :
                 /\ Adds(l, e) /\ Fresh(l, e) /\ e.type = "dir"
                 /\ making' = None \/ making'.parent = l
                 /\ e.loc = next => making'.loc = next
            \/ \E new : Beside(next, new)
<1> DEFINE parent == get_file_from_path(ParentOf(input)).loc
<1>1. /\ Sound(dirs, next) /\ Variables /\ ParentIsDir(input) /\ next \in Nat \ {0, 1}
      /\ making = None
  BY NextIsNat DEF IInv, fs_mkdir, Idle
<1>2. input \in Text(Names) /\ (input.rooted \/ input.toks # <<>>)
  BY NamespaceAssumption DEF Typed
<1>3. NameOf(input) \in Names \cup {NoName}
  <2>1. CASE input.toks # <<>>
    BY <1>1, <1>2, <2>1, Arguments
  <2>2. CASE input.toks = <<>>
    <3>1. Expand(input) = Slash
      BY <1>1, <1>2, <2>2, Arguments
    <3>2. QED BY <3>1 DEF NameOf, FileName, Slash, Abs
  <2>3. QED BY <2>1, <2>2
<1>4. parent \in Locs \cup {0} /\ parent \notin Lost(dirs)
  BY <1>1, <1>2, ParentFound
<1>5. PICK loc \in Granted :
        LET entry == bfs_create_dir_entry(NameOf(input), loc, "dir")
            array == IF IsWritten(Array(parent)) THEN Insert(dirs[parent], entry) ELSE <<entry>>
            here  == array[1].loc
        IN  IF parent = 0 \/ find_file(NameOf(input), Array(parent)) # 0
              THEN UNCHANGED <<dirs, making>>
              ELSE /\ dirs' = LBAwrite(dirs, here, array)
                   /\ making' = IF loc = 0 THEN None ELSE [loc |-> loc, parent |-> here]
  BY DEF fs_mkdir
<1> HIDE DEF parent
<1> DEFINE entry == bfs_create_dir_entry(NameOf(input), loc, "dir")
           array == IF IsWritten(Array(parent)) THEN Insert(dirs[parent], entry) ELSE <<entry>>
           here  == array[1].loc
<1>6. loc = 0 \/ (loc = next /\ loc \in Locs /\ loc # 0)
  BY <1>1, Numbers DEF Granted, Locs
<1>7. entry \in Entry /\ entry.loc = loc /\ entry.type = "dir" /\ entry.name = NameOf(input)
  BY <1>3, <1>6 DEF bfs_create_dir_entry, Entry
<1>8. CASE parent = 0 \/ find_file(NameOf(input), Array(parent)) # 0
  BY <1>1, <1>5, <1>8
<1>9. CASE parent # 0 /\ ~ find_file(NameOf(input), Array(parent)) # 0
  <2>1. /\ dirs' = LBAwrite(dirs, here, array)
        /\ making' = IF loc = 0 THEN None ELSE [loc |-> loc, parent |-> here]
    BY <1>5, <1>9
  <2> HIDE DEF entry
  <2>2. parent \in Locs /\ Array(parent) = dirs[parent]
    BY <1>4, <1>9 DEF Array
  <2>3. dirs[parent] \in Seq(Entry) /\ dirs \in [Locs -> Seq(Entry)]
    BY <1>1, <2>2 DEF Sound
  <2>4. CASE IsWritten(dirs[parent])
    <3>1. array = Insert(dirs[parent], entry)
      BY <2>2, <2>4
    <3>2. Ready(dirs[parent], parent)
      BY <1>1, <1>4, <2>2, <2>4, WrittenIsReady
    <3>3. array[1] = dirs[parent][1]
      <4>1. array = dirs[parent] \/ array = Append(dirs[parent], entry)
        BY <2>4, <3>1 DEF Insert, IsWritten
      <4>2. 1 \in 1 .. Len(dirs[parent])
        BY <2>3, <3>2, LenProperties DEF Ready
      <4>3. Append(dirs[parent], entry)[1] = dirs[parent][1]
        BY <1>7, <2>3, <4>2, AppendProperties
      <4>4. QED BY <4>1, <4>3
    <3>4. here = parent
      BY <3>2, <3>3 DEF Ready, bfs_create_dir_entry
    <3> HIDE DEF array, here
    <3>5. dirs' = [dirs EXCEPT ![parent] = array]
      BY <1>9, <2>1, <3>4 DEF LBAwrite
    <3>6. making' = None \/ (making'.loc = next /\ making'.parent = parent)
      BY <1>6, <2>1, <3>4
    <3>7. CASE array = dirs[parent]
      <4>1. dirs' = dirs
        BY <2>3, <3>5, <3>7
      <4>2. QED BY <3>6, <4>1
    <3>8. CASE array # dirs[parent]
      <4>1. /\ Len(dirs[parent]) <= Capacity /\ entry.name # NoName
            /\ array = Append(dirs[parent], entry)
        BY <2>4, <3>1, <3>8 DEF Insert, IsWritten
      <4>2. Adds(parent, entry)
        BY <1>3, <1>6, <1>7, <2>2, <3>2, <3>5, <4>1 DEF Adds
      <4>3. Fresh(parent, entry)
        BY <1>7, <1>9, <2>2, <2>3, <4>1, NotFound DEF Fresh
      <4>4. entry.loc = next => making'.loc = next
        BY <1>1, <1>6, <1>7, <2>1
      <4>5. QED BY <1>7, <2>2, <3>6, <4>2, <4>3, <4>4
    <3>9. QED BY <3>7, <3>8
  <2>5. CASE ~ IsWritten(dirs[parent])
    <3>1. array = <<entry>> /\ here = loc
      BY <1>7, <2>2, <2>5
    <3> HIDE DEF array, here
    <3>2. CASE loc = 0
      <4>1. dirs' = dirs /\ making' = None
        BY <2>1, <3>1, <3>2 DEF LBAwrite
      <4>2. QED BY <4>1
    <3>3. CASE loc = next /\ loc \in Locs /\ loc # 0
      <4>1. dirs' = [dirs EXCEPT ![next] = array] /\ making'.loc = next
        BY <2>1, <3>1, <3>3 DEF LBAwrite
      <4>2. ~ IsWritten(dirs[next])
        BY <1>1, <3>3 DEF Sound, IsWritten
      <4>3. Slots(array) = {}
        <5>1. Len(array) = 1
          BY <3>1
        <5>2. QED BY <5>1 DEF Slots
      <4>4. Beside(next, array)
        BY <3>3, <4>1, <4>2, <4>3 DEF Beside
      <4>5. QED BY <4>1, <4>4
    <3>4. QED BY <1>6, <3>2, <3>3
  <2>6. QED BY <2>4, <2>5
<1>10. QED BY <1>8, <1>9

\* The trees after it.
LEMMA MkdirTree ==
  ASSUME TInv, NEW input \in MkdirPaths, fs_mkdir(input)
  PROVE  Trees'
<1>1. /\ Sound(dirs, next) /\ next \in Nat /\ Trees /\ making = None /\ crashes' = crashes
      /\ IInv
  BY NextIsNat DEF TInv, DInv, IInv, fs_mkdir, Idle
<1>2. making' = None \/ making'.loc = next
  BY <1>1, MkdirWrites
<1>3. CASE dirs' = dirs
  BY <1>1, <1>2, <1>3, SameTree
<1>4. ASSUME NEW l \in Locs, NEW e \in Entry, Adds(l, e), Fresh(l, e),
             making' = None \/ making'.parent = l, e.loc = next => making'.loc = next
      PROVE  Trees'
  BY <1>1, <1>2, <1>4, AddTree DEF Fresh
<1>5. CASE \E new : Beside(next, new)
  BY <1>1, <1>2, <1>5, BesideTree
<1>6. QED BY <1>1, <1>3, <1>4, <1>5, MkdirWrites

\* Its second write: what is listed stays as it is, and the new directory leads
\* to its parent.
LEMMA NewDirWrites ==
  ASSUME IInv, WriteNewDir
  PROVE  /\ making.loc \in Locs /\ IsWritten(dirs'[making.loc])
         /\ dirs'[making.loc][2].loc = making.parent
         /\ \A k \in Locs : k # making.loc => dirs'[k] = dirs[k]
         /\ \A k \in Locs : Slots(dirs'[k]) = Slots(dirs[k])
         /\ \A k \in Locs : \A i \in Slots(dirs[k]) : dirs'[k][i] = dirs[k][i]
<1> DEFINE d   == making.loc
           new == <<bfs_create_dir_entry(".", d, "dir"),
                    bfs_create_dir_entry("..", making.parent, "dir")>>
<1>1. /\ Sound(dirs, next) /\ next \in Nat \ {0, 1} /\ d \in Locs /\ d # 0
      /\ Len(dirs[d]) <= 1 /\ dirs' = [dirs EXCEPT ![d] = new]
      /\ dirs \in [Locs -> Seq(Entry)]
  BY NextIsNat, Numbers DEF IInv, Making, WriteNewDir, Sound, Locs
<1>2. dirs'[d] = new /\ \A k \in Locs : k # d => dirs'[k] = dirs[k]
  BY <1>1
<1>3. /\ Len(new) = 2 /\ new[2].loc = making.parent /\ new[1] # NoEntry /\ new # <<>>
  <2>1. Len(new) = 2 /\ new[2].loc = making.parent /\ new[1].type = "dir"
    BY DEF bfs_create_dir_entry
  <2>2. NoEntry.type = "none" /\ Len(<<>>) = 0
    BY NoEntryOK
  <2> HIDE DEF new
  <2>3. new[1] # NoEntry
    BY <2>1, <2>2
  <2>4. new # <<>>
    <3>1. 2 # 0
      OBVIOUS
    <3>2. QED BY <2>1, <2>2, <3>1, Zenon
  <2>5. QED BY <2>1, <2>3, <2>4
<1> HIDE DEF new
<1>4. IsWritten(new) /\ Slots(new) = {} /\ Slots(dirs[d]) = {}
  <2>1. Len(dirs[d]) \in Nat
    BY <1>1, LenProperties
  <2>2. 3 .. Len(new) = {} /\ 3 .. Len(dirs[d]) = {}
    BY <1>1, <1>3, <2>1
  <2>3. QED BY <1>3, <2>2 DEF Slots, IsWritten
<1>5. \A k \in Locs : Slots(dirs'[k]) = Slots(dirs[k])
  BY <1>2, <1>4
<1>6. \A k \in Locs : \A i \in Slots(dirs[k]) : dirs'[k][i] = dirs[k][i]
  BY <1>2, <1>4
<1>7. QED BY <1>1, <1>2, <1>3, <1>4, <1>5, <1>6

\* The trees after it.
LEMMA NewDirTree ==
  ASSUME TInv, WriteNewDir
  PROVE  Trees'
<1> DEFINE d == making.loc
<1>1. /\ Sound(dirs, next) /\ next \in Nat /\ Trees
      /\ making # None /\ making' = None /\ crashes' = crashes
  BY NextIsNat DEF TInv, DInv, IInv, WriteNewDir
<1>2. /\ d \in Locs /\ IsWritten(dirs'[d]) /\ dirs'[d][2].loc = making.parent
      /\ \A k \in Locs : k # d => dirs'[k] = dirs[k]
  BY NewDirWrites DEF TInv, DInv
<1>3. \A k \in Locs : Slots(dirs'[k]) = Slots(dirs[k])
  BY NewDirWrites DEF TInv, DInv
<1>4. \A k \in Locs : \A i \in Slots(dirs[k]) : dirs'[k][i] = dirs[k][i]
  BY NewDirWrites DEF TInv, DInv
<1> HIDE DEF d
<1>5. Once' /\ Named' /\ Later'
  BY <1>1, <1>3, <1>4 DEF Trees, Once, Named, Later
<1>6. Led'
  <2>1. ASSUME NEW k \in Locs, NEW j \in Slots(dirs'[k]), dirs'[k][j].type = "dir",
               dirs'[k][j].loc \notin {0, making'.loc}
        PROVE  IF IsWritten(dirs'[dirs'[k][j].loc]) THEN dirs'[dirs'[k][j].loc][2].loc = k
                                                   ELSE crashes' > 0
    <3> DEFINE c == dirs[k][j].loc
    <3>1. j \in Slots(dirs[k]) /\ dirs'[k][j] = dirs[k][j]
      BY <1>3, <1>4, <2>1
    <3>2. c \in Locs /\ dirs[k][j].type = "dir" /\ c # 0
      BY <1>1, <2>1, <3>1, Places
    <3>3. CASE c = d
      <4>1. k = making.parent
        BY <1>1, <3>1, <3>3 DEF Trees, Begun, d
      <4>2. IsWritten(dirs'[c]) /\ dirs'[c][2].loc = k
        BY <1>2, <3>2, <3>3, <4>1
      <4>3. QED BY <3>1, <4>2
    <3>4. CASE c # d
      <4>1. IF IsWritten(dirs[c]) THEN dirs[c][2].loc = k ELSE crashes > 0
        BY <1>1, <3>1, <3>2, <3>4 DEF Trees, Led, d
      <4> HIDE DEF c
      <4>2. IF IsWritten(dirs'[c]) THEN dirs'[c][2].loc = k ELSE crashes' > 0
        BY <1>1, <1>2, <3>2, <3>4, <4>1
      <4>3. QED BY <3>1, <4>2 DEF c
    <3>5. QED BY <3>3, <3>4
  <2>2. QED BY <2>1 DEF Led
<1>7. Begun'
  BY <1>1 DEF Begun
<1>8. QED BY <1>5, <1>6, <1>7 DEF Trees

\* The creation of a file: its entry is added to the parent, or lands where
\* nothing is listed.
LEMMA OpenWrites ==
  ASSUME IInv, NEW input \in TouchPaths, b_open(input)
  PROVE  LET l == get_file_from_path(ParentOf(input)).loc
         IN  /\ making = None /\ making' = None /\ crashes' = crashes
             /\ input \in Text(Names) /\ ParentIsDir(input)
             /\ \/ dirs' = dirs
                \/ \E e \in Entry :
                     /\ Adds(l, e) /\ IsWritten(dirs[l])
                     /\ e.type = "file" /\ e.name = NameOf(input) /\ input.toks # <<>>
                \/ \E new : Beside(l, new)
<1> DEFINE loc == get_file_from_path(ParentOf(input)).loc
           e   == bfs_create_dir_entry(NameOf(input), next, "file")
           new == Insert(dirs[loc], e)
<1>1. /\ Sound(dirs, next) /\ Variables /\ ParentIsDir(input)
      /\ next \in Nat \ {0, 1} /\ next <= MaxLoc
      /\ dirs' = LBAwrite(dirs, loc, Insert(Array(loc), e))
      /\ making = None /\ making' = None /\ crashes' = crashes
  BY NextIsNat DEF IInv, b_open, Idle
<1>2. input \in Text(Names) /\ (input.rooted \/ input.toks # <<>>)
  BY NamespaceAssumption DEF Typed
<1>3. loc \in Locs \cup {0} /\ loc \notin Lost(dirs)
  BY <1>1, <1>2, ParentFound
<1>4. \/ NameOf(input) \in Names /\ input.toks # <<>>
      \/ NameOf(input) = NoName
  <2>1. CASE input.toks # <<>>
    BY <1>1, <1>2, <2>1, Arguments
  <2>2. CASE input.toks = <<>>
    <3>1. Expand(input) = Slash
      BY <1>1, <1>2, <2>2, Arguments
    <3>2. QED BY <3>1 DEF NameOf, FileName, Slash, Abs
  <2>3. QED BY <2>1, <2>2
<1>5. e \in Entry /\ e.loc = next /\ e.type = "file" /\ e.name = NameOf(input) /\ next \in Locs
  <2>1. next \in Locs
    BY <1>1, Numbers DEF Locs
  <2>2. QED BY <1>4, <2>1 DEF bfs_create_dir_entry, Entry
<1>6. CASE loc = 0
  <2>1. dirs' = dirs
    BY <1>1, <1>6 DEF LBAwrite
  <2>2. QED BY <1>1, <1>2, <2>1
<1>7. CASE loc # 0
  <2>1. /\ loc \in Locs /\ dirs' = [dirs EXCEPT ![loc] = new]
        /\ dirs \in [Locs -> Seq(Entry)] /\ dirs[loc] \in Seq(Entry)
    BY <1>1, <1>3, <1>7 DEF LBAwrite, Array, Sound
  <2>2. CASE new = dirs[loc]
    <3>1. dirs' = dirs
      BY <2>1, <2>2
    <3>2. QED BY <1>1, <1>2, <3>1
  <2>3. CASE IsWritten(dirs[loc]) /\ new # dirs[loc]
    <3>1. Len(dirs[loc]) <= Capacity /\ e.name # NoName /\ new = Append(dirs[loc], e)
      BY <2>3 DEF Insert, IsWritten
    <3>2. NameOf(input) \in Names /\ input.toks # <<>>
      BY <1>4, <1>5, <3>1
    <3>3. Ready(dirs[loc], loc)
      BY <1>1, <1>3, <2>1, <2>3, WrittenIsReady
    <3> HIDE DEF loc, e, new
    <3>4. Adds(loc, e)
      BY <1>5, <2>1, <3>1, <3>2, <3>3 DEF Adds
    <3>5. QED BY <1>1, <1>2, <1>5, <2>3, <3>2, <3>4 DEF loc
  <2>4. CASE ~ IsWritten(dirs[loc]) /\ new # dirs[loc]
    <3>1. ~ IsWritten(new)
      <4>1. CASE dirs[loc] = <<>>
        <5>1. new = <<NoEntry, NoEntry, e>>
          BY <4>1 DEF Insert
        <5>2. new[1] = NoEntry
          BY <5>1
        <5> HIDE DEF new
        <5>3. QED BY <5>2 DEF IsWritten
      <4>2. CASE dirs[loc] # <<>>
        <5>1. new = Append(dirs[loc], e)
          BY <2>4, <4>2 DEF Insert
        <5>2. dirs[loc][1] = NoEntry /\ 1 \in 1 .. Len(dirs[loc])
          <6>1. Len(dirs[loc]) \in Nat \ {0}
            BY <2>1, <4>2, EmptySeq, LenProperties
          <6>2. QED BY <2>4, <4>2, <6>1 DEF IsWritten
        <5>3. Append(dirs[loc], e)[1] = dirs[loc][1]
          BY <1>5, <2>1, <5>2, AppendProperties
        <5> HIDE DEF new
        <5>4. QED BY <5>1, <5>2, <5>3 DEF IsWritten
      <4>3. QED BY <4>1, <4>2
    <3> HIDE DEF new, loc
    <3>2. Beside(loc, new)
      BY <2>1, <2>4, <3>1 DEF Beside, Slots
    <3>3. QED BY <1>1, <1>2, <3>2 DEF loc
  <2>5. QED BY <2>2, <2>3, <2>4
<1>8. QED BY <1>6, <1>7

\* In a tree of directories a listed directory of that name is what the argument
\* finds.
LEMMA NamedIsFound ==
  ASSUME DInv, Named, NEW input \in Text(Names), input.toks # <<>>, ParentIsDir(input),
         NEW loc \in Locs, loc = get_file_from_path(ParentOf(input)).loc,
         Len(dirs[loc]) <= Capacity, NEW i \in Slots(dirs[loc]),
         dirs[loc][i].type = "dir", dirs[loc][i].name = NameOf(input)
  PROVE  fs_isDir(input)
<1> DEFINE dir == dirs[loc]
           tok == NameOf(input)
           f   == find_file(tok, dir)
<1>1. Sound(dirs, next)
  BY DEF DInv, IInv
<1>2. /\ loc \notin Lost(dirs) /\ tok \in Names
      /\ get_file_from_path(input) = IF find_file(tok, Array(loc)) = 0 THEN NoEntry
                                     ELSE dirs[loc][find_file(tok, Array(loc))]
  BY InParent
<1> HIDE DEF tok
<1>3. Array(loc) = dir /\ dir \in Seq(Entry) /\ Len(dir) \in Nat
  BY <1>1, <1>2, Numbers, LenProperties DEF Array, Sound, Locs
<1>4. /\ f \in 1 .. i /\ f # 0 /\ i \in 3 .. Len(dir) /\ i \in 1 .. Len(dir)
      /\ IsWritten(dir)
  BY <1>3, NotFound DEF tok
<1>5. dir[f].name = tok
  <2>1. f <= Len(dir) => dir[f].name = tok
    BY <1>3, <1>4, FoundSlot
  <2> HIDE DEF dir, f
  <2>2. f <= Len(dir)
    BY <1>3, <1>4
  <2>3. QED BY <2>1, <2>2
<1>6. dir[1].name = "." /\ dir[2].name = ".." /\ tok # "." /\ tok # ".."
  <2>1. Ready(dir, loc)
    BY <1>1, <1>2, <1>4, WrittenIsReady
  <2>2. tok # "." /\ tok # ".."
    BY <1>2, TokensAreNames
  <2>3. QED BY <2>1, <2>2 DEF Ready, bfs_create_dir_entry
<1> HIDE DEF f
<1>7. f \in Slots(dir)
  <2>1. f # 1 /\ f # 2
    BY <1>5, <1>6
  <2> HIDE DEF dir
  <2>2. f \in 3 .. Len(dir)
    BY <1>3, <1>4, <2>1
  <2>3. QED BY <1>4, <2>2 DEF Slots
<1>8. i \in Slots(dir) /\ dir[i].type = "dir" /\ dir[i].name = tok
  BY DEF tok
<1>9. i = f
  BY <1>2, <1>5, <1>7, <1>8 DEF Named
<1>10. get_file_from_path(input) = dir[i]
  BY <1>2, <1>3, <1>4, <1>9 DEF f
<1>11. QED BY <1>8, <1>10 DEF fs_isDir

\* The trees after it.
LEMMA OpenTree ==
  ASSUME TInv, NEW input \in TouchPaths, b_open(input)
  PROVE  Trees'
<1> DEFINE l == get_file_from_path(ParentOf(input)).loc
<1>1. /\ Sound(dirs, next) /\ next \in Nat /\ DInv /\ IInv /\ Trees /\ Named
      /\ ~ fs_isDir(input)
  BY NextIsNat DEF TInv, DInv, IInv, Trees, b_open
<1>2. /\ making = None /\ making' = None /\ crashes' = crashes
      /\ input \in Text(Names) /\ ParentIsDir(input)
      /\ \/ dirs' = dirs
         \/ \E e \in Entry :
              /\ Adds(l, e) /\ IsWritten(dirs[l])
              /\ e.type = "file" /\ e.name = NameOf(input) /\ input.toks # <<>>
         \/ \E new : Beside(l, new)
  BY <1>1, OpenWrites
<1>3. CASE dirs' = dirs
  BY <1>1, <1>2, <1>3, SameTree
<1>4. ASSUME NEW e \in Entry, Adds(l, e), e.type = "file", e.name = NameOf(input),
             input.toks # <<>>
      PROVE  Trees'
  <2>1. l \in Locs /\ l # 0 /\ Len(dirs[l]) <= Capacity
    BY <1>4, Numbers DEF Adds, Locs
  <2>2. ASSUME NEW i \in Slots(dirs[l]), dirs[l][i].type = "dir"
        PROVE  dirs[l][i].name # e.name
    BY <1>1, <1>2, <1>4, <2>1, <2>2, NamedIsFound
  <2> HIDE DEF l
  <2>3. QED BY <1>1, <1>2, <1>4, <2>2, AddTree
<1>5. ASSUME NEW new, Beside(l, new)
      PROVE  Trees'
  BY <1>1, <1>2, <1>5, BesideTree
<1> HIDE DEF l
<1>6. QED BY <1>2, <1>3, <1>4, <1>5

\* The deletion of a file takes its entry out, the end of the removal of a
\* directory that directory's.
LEMMA RemovalWrites ==
  ASSUME DInv, (\E input \in RmPaths : cmd_rm(input)) \/ EndRemove
  PROVE  /\ dirs' = dirs \/ \E l \in Locs : \E i \in 3 .. Len(dirs[l]) : Takes(l, i)
         /\ making' = making /\ crashes' = crashes /\ cwd' = cwd
<1>1. Sound(dirs, next) /\ IInv
  BY DEF DInv, IInv
<1>2. CASE \E input \in RmPaths : cmd_rm(input)
  <2>1. dirs' = dirs \/ FileTaken(dirs')
    BY <1>2, RmWrites
  <2>2. FileTaken(dirs') => \E l \in Locs : \E i \in 3 .. Len(dirs[l]) : Takes(l, i)
    BY DEF FileTaken, Takes
  <2>3. QED BY <1>2, <2>1, <2>2 DEF cmd_rm
<1>3. CASE EndRemove
  <2>1. ASSUME NEW up \in Locs, Len(dirs[up]) >= 3,
               dirs' = [dirs EXCEPT ![up] = RemoveAt(dirs[up], 3)]
        PROVE  \E i \in 3 .. Len(dirs[up]) : Takes(up, i)
    <3>1. Len(dirs[up]) \in Nat
      BY <1>1, LenProperties DEF Sound
    <3>2. 3 \in 3 .. Len(dirs[up]) /\ Takes(up, 3)
      BY <2>1, <3>1 DEF Takes
    <3>3. QED BY <3>2
  <2>2. dirs' = dirs \/ \E l \in Locs : \E i \in 3 .. Len(dirs[l]) : Takes(l, i)
    BY <1>1, <1>3, <2>1, Unlinking DEF ListsFirst
  <2>3. QED BY <1>3, <2>2 DEF EndRemove
<1>4. QED BY <1>2, <1>3

\* The trees after either.
LEMMA RemovalTree ==
  ASSUME TInv, (\E input \in RmPaths : cmd_rm(input)) \/ EndRemove
  PROVE  Trees'
<1>1. Sound(dirs, next) /\ next \in Nat /\ Trees /\ DInv
  BY NextIsNat DEF TInv, DInv, IInv
<1>2. /\ dirs' = dirs \/ \E l \in Locs : \E i \in 3 .. Len(dirs[l]) : Takes(l, i)
      /\ making' = making /\ crashes' = crashes
  BY <1>1, RemovalWrites
<1>3. CASE dirs' = dirs
  BY <1>1, <1>2, <1>3 DEF Trees, Once, Named, Later, Led, Begun
<1>4. ASSUME NEW l \in Locs, NEW i \in 3 .. Len(dirs[l]), Takes(l, i) PROVE Trees'
  BY <1>1, <1>2, <1>4, TakeTree
<1>5. QED BY <1>2, <1>3, <1>4

\* A crash leaves an unwritten array behind.
LEMMA CrashTree ==
  ASSUME TInv, Crash
  PROVE  Trees'
<1>1. /\ Sound(dirs, next) /\ next \in Nat \ {0, 1} /\ Trees /\ Making
      /\ dirs' = dirs /\ making' = None /\ crashes \in Nat /\ crashes' = crashes + 1
  BY NextIsNat, Numbers DEF Crash, TInv, DInv, IInv, Variables
<1>2. crashes' > 0 /\ None.loc = 0
  BY <1>1 DEF None
<1>3. Once' /\ Named' /\ Later' /\ Begun'
  BY <1>1 DEF Trees, Once, Named, Later, Begun
<1>4. ASSUME NEW l \in Locs, NEW i \in Slots(dirs[l]), dirs[l][i].type = "dir", dirs[l][i].loc # 0
      PROVE  IF IsWritten(dirs[dirs[l][i].loc]) THEN dirs[dirs[l][i].loc][2].loc = l ELSE crashes' > 0
  <2> DEFINE d == dirs[l][i].loc
  <2>1. d \in Locs /\ d \notin Lost(dirs)
    BY <1>1, <1>4, Places
  <2>2. CASE d = making.loc
    <3>1. Len(dirs[d]) <= 1 /\ Len(dirs[d]) # 1 /\ dirs[d] \in Seq(Entry)
      BY <1>1, <1>4, <2>1, <2>2 DEF Making, None, Lost, Sound
    <3> HIDE DEF d
    <3>2. Len(dirs[d]) \in Nat
      BY <3>1, LenProperties
    <3>3. dirs[d] = <<>>
      <4>1. Len(dirs[d]) = 0
        <5>1. \A n \in Nat : n <= 1 /\ n # 1 => n = 0
          OBVIOUS
        <5>2. QED BY <3>1, <3>2, <5>1, Zenon
      <4>2. QED BY <3>1, <4>1, EmptySeq
    <3>4. ~ IsWritten(dirs[d])
      BY <3>3 DEF IsWritten
    <3>5. QED BY <1>2, <3>4 DEF d
  <2>3. CASE d # making.loc
    BY <1>1, <1>2, <1>4, <2>3 DEF Trees, Led
  <2>4. QED BY <2>2, <2>3
<1>5. Led'
  BY <1>1, <1>2, <1>4 DEF Led
<1>6. QED BY <1>3, <1>5 DEF Trees

\* Every step.
LEMMA StaysTree ==
  ASSUME Moves = {}, \A t \in CdPaths : t.rooted, TInv, [Next]_vars
  PROVE  TInv'
<1>1. DInv'
  BY EveryStepStays DEF TInv
<1>2. CASE \E t \in MkdirPaths : fs_mkdir(t)
  BY <1>1, <1>2, MkdirTree DEF TInv
<1>3. CASE \E t \in TouchPaths : b_open(t)
  BY <1>1, <1>3, OpenTree DEF TInv
<1>4. CASE \E t \in RmPaths : cmd_rm(t)
  BY <1>1, <1>4, RemovalTree DEF TInv
<1>5. CASE WriteNewDir
  BY <1>1, <1>5, NewDirTree DEF TInv
<1>6. CASE EndRemove
  BY <1>1, <1>6, RemovalTree DEF TInv
<1>7. CASE Crash
  BY <1>1, <1>7, CrashTree DEF TInv
<1>8. CASE \E m \in Moves : b_move(m[1], m[2])
  BY <1>8
<1>9. CASE \/ \E t \in RmPaths : fs_rmdir(t)
           \/ \E t \in CdPaths : fs_setcwd(t)
           \/ RemoveFile \/ RemoveSubdir \/ StackOverflow \/ Restart \/ UNCHANGED vars
  <2>1. UNCHANGED <<dirs, making, crashes>>
    BY <1>9 DEF fs_rmdir, fs_setcwd, RemoveFile, RemoveSubdir, StackOverflow, Restart, vars
  <2>2. Trees'
    BY <2>1 DEF TInv, Trees, Once, Named, Later, Led, Begun
  <2>3. QED BY <1>1, <2>2 DEF TInv
<1>10. QED
  BY <1>2, <1>3, <1>4, <1>5, <1>6, <1>7, <1>8, <1>9 DEF Next, Proceed

\* A volume just formatted has one directory.
LEMMA FormattedTree ==
  ASSUME Init
  PROVE  TInv /\ \A l \in Locs : Slots(dirs[l]) = {}
<1>1. DInv
  <2>1. IInv /\ cwd = Slash
    BY Formatted DEF Init
  <2>2. Slash \in Text(Names) /\ Slash.rooted = TRUE
    BY EmptySeq DEF Slash, Abs, Text
  <2>3. QED BY <2>1, <2>2 DEF DInv, Absolute
<1>2. ASSUME NEW l \in Locs PROVE Slots(dirs[l]) = {}
  <2>1. Len(dirs[l]) = 2 \/ Len(dirs[l]) = 0
    <3>1. dirs[l] = IF l = RootLoc THEN <<bfs_create_dir_entry(".", RootLoc, "dir"),
                                          bfs_create_dir_entry("..", RootLoc, "dir")>>
                    ELSE <<>>
      BY DEF Init
    <3>2. CASE l = RootLoc
      BY <3>1, <3>2
    <3>3. CASE l # RootLoc
      BY <3>1, <3>3
    <3>4. QED BY <3>2, <3>3
  <2>2. 3 .. Len(dirs[l]) = {}
    <3>1. 3 .. 2 = {} /\ 3 .. 0 = {}
      OBVIOUS
    <3>2. QED BY <2>1, <3>1, Zenon
  <2>3. QED BY <2>2 DEF Slots
<1>3. Trees
  BY <1>2 DEF Trees, Once, Named, Later, Led, Begun
<1>4. QED BY <1>1, <1>2, <1>3 DEF TInv

\* Without mv, and with absolute arguments to cd, the directories form trees,
\* those that are removed and those whose blocks were refused included: nothing
\* is listed twice, ".." leads to the directory that lists, a directory shares
\* its name with nothing, and only a crash between md's two writes leaves one
\* listed and unwritten.
THEOREM TreesStay ==
  ASSUME Moves = {}, \A t \in CdPaths : t.rooted
  PROVE  Spec => []TreeShape
<1>1. Init => TInv
  BY FormattedTree
<1>2. TInv /\ [Next]_vars => TInv'
  BY StaysTree
<1>3. TInv => TreeShape
  <2>1. SUFFICES ASSUME TInv PROVE TreeShape
    OBVIOUS
  <2>2. Sound(dirs, next) /\ next \in Nat /\ Trees
    BY <2>1, NextIsNat DEF TInv, DInv, IInv
  <2>3. \A l \in Written : l \in Locs /\ 3 .. Len(dirs[l]) = Slots(dirs[l])
    BY DEF Written, Slots
  <2>4. ASSUME NEW l \in Written, l \notin Lost(dirs) PROVE IsReady(l)
    <3>1. l \in Locs /\ IsWritten(dirs[l])
      BY DEF Written
    <3>2. QED BY <2>2, <2>4, <3>1, WrittenIsReady DEF Ready, IsReady
  <2>5. ASSUME NEW l \in Written, Len(dirs[l]) > 1 PROVE IsReady(l)
    <3>1. ~ (1 > 1)
      OBVIOUS
    <3>2. Len(dirs[l]) # 1
      BY <2>5, <3>1, Zenon
    <3>3. QED BY <2>4, <3>2 DEF Lost
  <2>6. ASSUME NEW l \in Written, NEW i \in Slots(dirs[l]), dirs[l][i].type = "dir",
               dirs[l][i].loc \notin {0, making.loc}
        PROVE  IF dirs[l][i].loc \in Written
                 THEN IsReady(dirs[l][i].loc) /\ dirs[dirs[l][i].loc][2].loc = l
                 ELSE crashes > 0
    <3>1. dirs[l][i].loc \in Locs /\ dirs[l][i].loc \notin Lost(dirs)
      BY <2>2, <2>3, <2>6, Places
    <3>2. IF IsWritten(dirs[dirs[l][i].loc]) THEN dirs[dirs[l][i].loc][2].loc = l ELSE crashes > 0
      BY <2>2, <2>3, <2>6 DEF Trees, Led
    <3>3. dirs[l][i].loc \in Written <=> IsWritten(dirs[dirs[l][i].loc])
      BY <3>1 DEF Written
    <3>4. QED BY <2>4, <3>1, <3>2, <3>3
  <2>7. ASSUME NEW l \in Written, NEW i \in Slots(dirs[l]), NEW m \in Written,
               NEW j \in Slots(dirs[m]), dirs[l][i].loc = dirs[m][j].loc, dirs[l][i].loc # 0
        PROVE  l = m /\ i = j
    BY <2>2, <2>3, <2>7 DEF Trees, Once
  <2>8. ASSUME NEW l \in Written, NEW i \in Slots(dirs[l]), NEW j \in Slots(dirs[l]),
               dirs[l][i].type = "dir", dirs[l][i].name = dirs[l][j].name
        PROVE  i = j
    BY <2>2, <2>3, <2>8 DEF Trees, Named
  <2>9. QED BY <2>3, <2>5, <2>6, <2>7, <2>8 DEF TreeShape
<1>4. QED BY <1>1, <1>2, <1>3, PTL DEF Spec
-----------------------------------------------------------------------------
(* Names *)

\* No array lists a name twice.
Unique ==
  \A l \in Locs : \A i, j \in Slots(dirs[l]) : dirs[l][i].name = dirs[l][j].name => i = j

\* The arguments of touch name files in the session's own directory.
OwnFiles == \A t \in TouchPaths : Len(t.toks) = 1 /\ (t.rooted => CdPaths = {})

\* The inductive invariant of the names.
UInv == DInv /\ Unique /\ (CdPaths = {} => cwd = Slash)

\* A name that is not listed yet is added.
LEMMA AddUnique ==
  ASSUME Sound(dirs, next), next \in Nat, Unique, NEW l, NEW e, Adds(l, e), Fresh(l, e)
  PROVE  Unique'
<1> DEFINE n == Len(dirs[l]) + 1
<1>1. /\ l \in Locs /\ \A k \in Locs : k # l => dirs'[k] = dirs[k]
      /\ Slots(dirs'[l]) = Slots(dirs[l]) \cup {n}
      /\ dirs'[l][n] = e /\ \A i \in Slots(dirs[l]) : dirs'[l][i] = dirs[l][i]
  BY Added
<1> HIDE DEF n
<1>2. ASSUME NEW k \in Locs, NEW i \in Slots(dirs'[k]), NEW j \in Slots(dirs'[k]),
             dirs'[k][i].name = dirs'[k][j].name
      PROVE  i = j
  <2>1. CASE k # l
    BY <1>1, <1>2, <2>1 DEF Unique
  <2>2. CASE k = l
    BY <1>1, <1>2, <2>2 DEF Unique, Fresh
  <2>3. QED BY <2>1, <2>2
<1>3. QED BY <1>2 DEF Unique

\* An entry is taken out.
LEMMA TakeUnique ==
  ASSUME Sound(dirs, next), next \in Nat, Unique, NEW l, NEW n, Takes(l, n)
  PROVE  Unique'
<1>1. /\ l \in Locs /\ \A k \in Locs : k # l => dirs'[k] = dirs[k]
      /\ \A j \in Slots(dirs'[l]) :
           Back(n, j) \in Slots(dirs[l]) /\ dirs'[l][j] = dirs[l][Back(n, j)]
      /\ \A j, k \in Slots(dirs'[l]) : Back(n, j) = Back(n, k) => j = k
  BY Taken
<1>2. ASSUME NEW k \in Locs, NEW i \in Slots(dirs'[k]), NEW j \in Slots(dirs'[k]),
             dirs'[k][i].name = dirs'[k][j].name
      PROVE  i = j
  <2>1. CASE k # l
    BY <1>1, <1>2, <2>1 DEF Unique
  <2>2. CASE k = l
    BY <1>1, <1>2, <2>2 DEF Unique
  <2>3. QED BY <2>1, <2>2
<1>3. QED BY <1>2 DEF Unique

\* An array that lists nothing is written.
LEMMA BesideUnique ==
  ASSUME Sound(dirs, next), Unique, NEW l, NEW new, Beside(l, new)
  PROVE  Unique'
BY WrittenBeside DEF Unique

\* A file of the session's directory: the name alone finds what the argument
\* finds.
LEMMA OwnName ==
  ASSUME Absolute, OwnFiles, CdPaths = {} => cwd = Slash, NEW input \in TouchPaths,
         input \in Text(Names)
  PROVE  get_file_from_path(Rel(<<NameOf(input)>>)) = get_file_from_path(input)
<1> DEFINE name == Rel(input.toks)
<1>1. input.toks \in Seq(Names) /\ Len(input.toks) = 1 /\ (input.rooted => cwd = Slash)
  BY DEF OwnFiles, Text
<1>2. cwd \in Text(Names) /\ cwd.rooted = TRUE
  BY DEF Absolute
<1>3. \A k \in 1 .. Len(input.toks) : input.toks[k] \notin {".", ".."}
  BY <1>1, TokensAreNames
<1>4. NameOf(input) = input.toks[1]
  <2>1. input.toks # <<>>
    <3>1. Len(<<>>) = 0 /\ 0 # 1
      OBVIOUS
    <3>2. QED BY <1>1, <3>1, Zenon
  <2>2. FileName(expand_pathname(cwd, input)) = input.toks[Len(input.toks)]
    BY <1>2, <1>3, <2>1, PlainName
  <2>3. QED BY <1>1, <2>2 DEF NameOf, Expand
<1>5. <<NameOf(input)>> = input.toks
  BY <1>1, <1>4
<1>6. name \in Text(Names) /\ name.toks = input.toks /\ name.rooted = FALSE
  BY <1>1 DEF Rel, Text
<1>7. Base(cwd, name) = Base(cwd, input)
  BY <1>1, <1>6 DEF Base
<1> HIDE DEF name
<1>8. expand_pathname(cwd, name) = expand_pathname(cwd, input)
  <2>1. expand_pathname(cwd, input) =
          [rooted |-> Base(cwd, input).rooted, toks |-> Base(cwd, input).toks \o input.toks]
    BY <1>2, <1>3, PlainInput
  <2>2. \A k \in 1 .. Len(name.toks) : name.toks[k] \notin {".", ".."}
    BY <1>3, <1>6
  <2>3. expand_pathname(cwd, name) =
          [rooted |-> Base(cwd, name).rooted, toks |-> Base(cwd, name).toks \o name.toks]
    BY <1>2, <1>6, <2>2, PlainInput
  <2>4. QED BY <1>6, <1>7, <2>1, <2>3
<1>9. QED BY <1>5, <1>8 DEF get_file_from_path, Expand, name

\* A name that the session's directory lists is found, and no file of that name
\* created.
LEMMA OpenUnique ==
  ASSUME OwnFiles, UInv, NEW input \in TouchPaths, b_open(input)
  PROVE  Unique'
<1> DEFINE l == get_file_from_path(ParentOf(input)).loc
<1>1. /\ Sound(dirs, next) /\ next \in Nat /\ DInv /\ IInv /\ Unique /\ Absolute
      /\ CdPaths = {} => cwd = Slash
  BY NextIsNat DEF UInv, DInv, IInv
<1>2. /\ input \in Text(Names) /\ ParentIsDir(input)
      /\ \/ dirs' = dirs
         \/ \E e \in Entry :
              /\ Adds(l, e) /\ IsWritten(dirs[l])
              /\ e.type = "file" /\ e.name = NameOf(input) /\ input.toks # <<>>
         \/ \E new : Beside(l, new)
  BY <1>1, OpenWrites
<1>3. get_file_from_path(input) = NoEntry
  BY <1>1, <1>2, OwnName DEF b_open
<1>4. CASE dirs' = dirs
  BY <1>1, <1>4 DEF Unique
<1>5. ASSUME NEW e \in Entry, Adds(l, e), e.name = NameOf(input), input.toks # <<>>
      PROVE  Unique'
  <2> DEFINE dir == dirs[l]
             f   == find_file(e.name, dir)
  <2>1. /\ e.name \in Names
        /\ get_file_from_path(input) = IF find_file(e.name, Array(l)) = 0 THEN NoEntry
                                       ELSE dirs[l][find_file(e.name, Array(l))]
    BY <1>1, <1>2, <1>5, InParent
  <2> HIDE DEF l
  <2>2. l \in Locs /\ l # 0 /\ Len(dirs[l]) <= Capacity
    BY <1>5, Numbers DEF Adds, Locs
  <2>3. Array(l) = dir /\ dir \in Seq(Entry) /\ Len(dir) \in Nat
    BY <1>1, <2>2, LenProperties DEF Array, Sound
  <2>4. ASSUME NEW i \in Slots(dir), dir[i].name = e.name PROVE FALSE
    <3>1. f \in 1 .. i /\ f # 0 /\ i \in 1 .. Len(dir)
      BY <2>2, <2>3, <2>4, NotFound
    <3>2. f <= Len(dir) => dir[f].name = e.name
      BY <2>3, <3>1, FoundSlot
    <3>3. dir[f] = NoEntry
      BY <1>3, <2>1, <2>3, <3>1
    <3> HIDE DEF dir, f
    <3>4. f <= Len(dir)
      BY <2>3, <3>1
    <3>5. e.name = NoName
      BY <3>2, <3>3, <3>4 DEF NoEntry, bfs_create_dir_entry
    <3>6. QED BY <2>1, <3>5, TokensAreNames
  <2>5. Fresh(l, e)
    BY <2>4 DEF Fresh
  <2>6. QED BY <1>1, <1>5, <2>5, AddUnique
<1>6. ASSUME NEW new, Beside(l, new)
      PROVE  Unique'
  BY <1>1, <1>6, BesideUnique
<1> HIDE DEF l
<1>7. QED BY <1>2, <1>4, <1>5, <1>6

\* Every step.
LEMMA StaysUnique ==
  ASSUME Moves = {}, \A t \in CdPaths : t.rooted, OwnFiles, UInv, [Next]_vars
  PROVE  UInv'
<1>1. /\ Sound(dirs, next) /\ next \in Nat /\ IInv /\ DInv /\ Unique
      /\ CdPaths = {} => cwd = Slash
  BY NextIsNat DEF UInv, DInv, IInv
<1>2. DInv'
  BY <1>1, EveryStepStays
<1>3. CASE \E t \in MkdirPaths : fs_mkdir(t)
  <2>1. PICK t \in MkdirPaths : fs_mkdir(t)
    BY <1>3
  <2>2. dirs' = dirs => Unique'
    BY <1>1 DEF Unique
  <2>3. \A l \in Locs, e \in Entry : Adds(l, e) /\ Fresh(l, e) => Unique'
    BY <1>1, AddUnique
  <2>4. \A new : Beside(next, new) => Unique'
    BY <1>1, BesideUnique
  <2>5. Unique' /\ cwd' = cwd
    BY <1>1, <2>1, <2>2, <2>3, <2>4, MkdirWrites DEF fs_mkdir
  <2>6. QED BY <1>1, <1>2, <2>5 DEF UInv
<1>4. CASE \E t \in TouchPaths : b_open(t)
  <2>1. Unique' /\ cwd' = cwd
    BY <1>4, OpenUnique DEF b_open
  <2>2. QED BY <1>1, <1>2, <2>1 DEF UInv
<1>5. CASE (\E t \in RmPaths : cmd_rm(t)) \/ EndRemove
  <2>1. /\ dirs' = dirs \/ \E l \in Locs : \E i \in 3 .. Len(dirs[l]) : Takes(l, i)
        /\ cwd' = cwd
    BY <1>1, <1>5, RemovalWrites
  <2>2. Unique'
    BY <1>1, <2>1, TakeUnique DEF Unique
  <2>3. QED BY <1>1, <1>2, <2>1, <2>2 DEF UInv
<1>6. CASE WriteNewDir
  <2>1. \A k \in Locs : Slots(dirs'[k]) = Slots(dirs[k])
    BY <1>1, <1>6, NewDirWrites
  <2>2. \A k \in Locs : \A i \in Slots(dirs[k]) : dirs'[k][i] = dirs[k][i]
    BY <1>1, <1>6, NewDirWrites
  <2>3. Unique' /\ cwd' = cwd
    BY <1>1, <1>6, <2>1, <2>2 DEF Unique, WriteNewDir
  <2>4. QED BY <1>1, <1>2, <2>3 DEF UInv
<1>7. CASE \E m \in Moves : b_move(m[1], m[2])
  BY <1>7
<1>8. CASE \E t \in CdPaths : fs_setcwd(t)
  <2>1. dirs' = dirs /\ CdPaths # {}
    BY <1>8 DEF fs_setcwd
  <2>2. QED BY <1>1, <1>2, <2>1 DEF UInv, Unique
<1>9. CASE \/ \E t \in RmPaths : fs_rmdir(t)
           \/ RemoveFile \/ RemoveSubdir \/ StackOverflow \/ Restart \/ Crash
           \/ UNCHANGED vars
  <2>1. dirs' = dirs /\ cwd' \in {cwd, Slash}
    BY <1>9 DEF fs_rmdir, RemoveFile, RemoveSubdir, StackOverflow, Restart, Crash, vars
  <2>2. QED BY <1>1, <1>2, <2>1 DEF UInv, Unique
<1>10. QED
  BY <1>3, <1>4, <1>5, <1>6, <1>7, <1>8, <1>9 DEF Next, Proceed

\* A volume just formatted lists nothing.
LEMMA FormattedUnique ==
  ASSUME Init
  PROVE  UInv
BY FormattedTree DEF UInv, TInv, Unique, Init

\* Without mv, with absolute arguments to cd, and as long as touch is given
\* names of files in the session's directory, no directory lists a name twice:
\* md looks for the name where it adds it, touch looks where its argument leads,
\* and what either does not find because the directory is full does not reach
\* the disk.
THEOREM NamesStayUnique ==
  ASSUME Moves = {}, \A t \in CdPaths : t.rooted, OwnFiles
  PROVE  Spec => []NamesUnique
<1>1. Init => UInv
  BY FormattedUnique
<1>2. UInv /\ [Next]_vars => UInv'
  BY StaysUnique
<1>3. UInv => NamesUnique
  <2>1. \A l \in Written : l \in Locs /\ 3 .. Len(dirs[l]) = Slots(dirs[l])
    BY DEF Written, Slots
  <2>2. QED BY <2>1 DEF UInv, Unique, NamesUnique
<1>4. QED BY <1>1, <1>2, <1>3, PTL DEF Spec

-----------------------------------------------------------------------------
(* What a removal leaves *)

\* The location of the directory that the k-th call is in, if it is in one.
Inside(s, k) == IF k < Len(s) THEN {s[k + 1].loc} ELSE {}

\* What a call has been through is freed, but for the directory it is in; a
\* directory in slot 3 has been taken out.
SweptBy(c, inside, disk, freed) ==
  /\ IsWritten(disk[c.loc])
  /\ \A i \in 3 .. Passed(c, disk) : disk[c.loc][i].loc \in freed \cup inside
  /\ Passed(c, disk) >= 3 => disk[c.loc][3].type = "file" \/ disk[c.loc][3].loc \in inside

\* So has every call, the directory it is in is the last that it has come to,
\* and each call is for a directory made later than those of the calls around.
Swept(s, disk, freed) ==
  /\ \A k \in 1 .. Len(s) : SweptBy(s[k], Inside(s, k), disk, freed)
  /\ \A k \in 1 .. Len(s) - 1 : disk[s[k].loc][Passed(s[k], disk)].loc = s[k + 1].loc
  /\ \A q \in 1 .. Len(s) : \A p \in 1 .. q - 1 : s[p].loc < s[q].loc

\* The inductive invariant.
SInv == TInv /\ RInv /\ Swept(removing, dirs, cleared) /\ crashes = 0

\* A call and its directory's array.
LEMMA Walked ==
  ASSUME RInv, NEW k \in 1 .. Len(removing)
  PROVE  LET c == removing[k]
         IN  /\ c \in Call /\ c.loc \in Locs /\ Agrees(c, dirs)
             /\ dirs[c.loc] \in Seq(Entry) /\ Len(dirs[c.loc]) \in Nat /\ Len(c.todo) \in Nat
             /\ Passed(c, dirs) = Len(dirs[c.loc]) - Len(c.todo)
             /\ Passed(c, dirs) \in Int /\ Passed(c, dirs) <= Len(dirs[c.loc])
<1> DEFINE c == removing[k]
<1>1. c \in Call /\ Agrees(c, dirs) /\ dirs \in [Locs -> Seq(Entry)]
  BY ElementOfSeq DEF RInv, IInv, Stack, Frames, Sound
<1> HIDE DEF c
<1>2. c.loc \in Locs /\ dirs[c.loc] \in Seq(Entry) /\ c.todo \in Seq(Entry)
  BY <1>1 DEF Agrees, Call
<1>3. Len(dirs[c.loc]) \in Nat /\ Len(c.todo) \in Nat
  BY <1>2, LenProperties
<1>4. Passed(c, dirs) = Len(dirs[c.loc]) - Len(c.todo)
  BY DEF Passed
<1>5. Passed(c, dirs) \in Int /\ Passed(c, dirs) <= Len(dirs[c.loc])
  <2>1. \A a, b \in Nat : a - b \in Int /\ a - b <= a
    OBVIOUS
  <2>2. QED BY <1>3, <1>4, <2>1, Zenon
<1>6. QED BY <1>1, <1>2, <1>3, <1>4, <1>5 DEF c

\* The directory that rm is given is written: something lists it.
LEMMA ArgumentIsWritten ==
  ASSUME TInv, ~ MayRefuse, crashes = 0, NEW input \in RmPaths, fs_rmdir(input)
  PROVE  LET loc == get_file_from_path(input).loc IN loc \in Locs /\ IsWritten(dirs[loc])
<1> DEFINE text == Expand(input)
           up   == Follow(dirs, ParentText(text))
           tok  == FileName(text)
           i    == find_file(tok, Array(up))
<1>1. /\ Sound(dirs, next) /\ Variables /\ next \in Nat \ {0, 1} /\ Led
      /\ input \in Text(Names) /\ (input.rooted \/ input.toks # <<>>)
      /\ Find(text).type = "dir" /\ Find(text).loc # RootLoc /\ making = None
  BY NextIsNat, NamespaceAssumption
     DEF TInv, DInv, IInv, Trees, Typed, fs_rmdir, fs_isDir, get_file_from_path, Idle
<1>2. input.toks # <<>>
  BY <1>1, Arguments, RootIsFound
<1>3. text \in Text(Toks) /\ tok \in Names
  BY <1>1, <1>2, Arguments, Lookups DEF NameOf
<1>4. tok # NoName /\ tok # "." /\ tok # ".."
  BY <1>3, TokensAreNames
<1>5. up \in Locs \cup {0} /\ up \notin Lost(dirs)
  BY <1>1, <1>3, FollowedSafe, ParentIsText
<1>6. Find(text) = IF i = 0 THEN NoEntry ELSE dirs[up][i]
  BY <1>4 DEF Find
<1> HIDE DEF tok, up, text
<1>7. i # 0 /\ Find(text) = dirs[up][i]
  BY <1>1, <1>6, NoEntryOK
<1>8. Array(up) \in Seq(Entry) /\ Len(Array(up)) \in Nat
  BY <1>1, <1>5, EmptySeq, LenProperties DEF Array, Sound
<1>9. /\ IsWritten(Array(up)) /\ i \in 1 .. Len(Array(up)) + 1
      /\ i <= Len(Array(up)) => Array(up)[i].name = tok
      /\ i > Len(Array(up)) => tok = NoName
  BY <1>7, <1>8, FoundSlot
<1>10. Array(up) = dirs[up] /\ up \in Locs
  BY <1>5, <1>9 DEF IsWritten, Array
<1>11. Ready(dirs[up], up)
  BY <1>1, <1>5, <1>9, <1>10, WrittenIsReady
<1> HIDE DEF i
<1>12. dirs[up][i].name = tok /\ i \in 1 .. Len(dirs[up])
  BY <1>4, <1>8, <1>9, <1>10
<1>13. i # 1 /\ i # 2
  BY <1>4, <1>11, <1>12 DEF Ready, bfs_create_dir_entry
<1>14. i \in Slots(dirs[up])
  <2>1. i \in 3 .. Len(dirs[up])
    BY <1>12, <1>13, <1>8, <1>10
  <2>2. QED BY <1>9, <1>10, <2>1 DEF Slots
<1> DEFINE loc == dirs[up][i].loc
<1>15. dirs[up][i].type = "dir"
  BY <1>1, <1>7
<1>16. loc \in Locs /\ loc # 0 /\ loc # making.loc
  <2>1. EntryOK(dirs[up][i], next)
    BY <1>1, <1>10, <1>12 DEF Sound, ArrayOK
  <2>2. loc \in Locs /\ loc # 0
    BY <1>15, <2>1 DEF EntryOK, Entry
  <2>3. QED BY <1>1, <2>2 DEF None
<1>17. IsWritten(dirs[loc])
  <2>1. IF IsWritten(dirs[loc]) THEN dirs[loc][2].loc = up ELSE crashes > 0
    BY <1>1, <1>10, <1>14, <1>15, <1>16 DEF Led
  <2>2. QED BY <2>1
<1>18. QED BY <1>7, <1>16, <1>17 DEF get_file_from_path, text

\* A call begins at the front of its directory's array.
LEMMA AtFront ==
  ASSUME ~ MayRefuse, Sound(dirs, next), NEW loc \in Locs, NEW c \in Calls(loc)
  PROVE  c.loc = loc /\ \A i \in 3 .. Passed(c, dirs) : FALSE
<1> DEFINE dir == dirs[loc]
<1>1. c = [loc |-> loc, todo |-> SubSeq(dir, 3, Len(dir))]
  <2>1. loc # 0
    BY Numbers DEF Locs
  <2>2. QED BY <2>1 DEF Calls, Buffers
<1>2. dir \in Seq(Entry) /\ Len(dir) \in Nat
  BY LenProperties DEF Sound
<1>3. Len(SubSeq(dir, 3, Len(dir))) = IF 3 <= Len(dir) THEN Len(dir) - 2 ELSE 0
  <2> HIDE DEF dir
  <2>1. \A i \in 3 .. Len(dir) : dir[i] \in Entry
    BY <1>2, ElementOfSeq
  <2>2. 3 \in Int /\ Len(dir) \in Int
    BY <1>2
  <2>3. Len(SubSeq(dir, 3, Len(dir))) = IF 3 <= Len(dir) THEN Len(dir) - 3 + 1 ELSE 0
    BY <2>1, <2>2, SubSeqProperties
  <2>4. QED BY <1>2, <2>3
<1> DEFINE todo == SubSeq(dir, 3, Len(dir))
<1>4. Passed(c, dirs) = Len(dir) - Len(todo)
  BY <1>1 DEF Passed
<1> HIDE DEF dir, todo
<1>5. Len(dir) - Len(todo) \in Int /\ Len(dir) - Len(todo) <= 2
  <2>1. Len(todo) = IF 3 <= Len(dir) THEN Len(dir) - 2 ELSE 0
    BY <1>3 DEF todo
  <2>2. QED BY <1>2, <2>1
<1>6. \A i \in 3 .. Passed(c, dirs) : FALSE
  BY <1>4, <1>5
<1>7. QED BY <1>1, <1>6

\* One step in the loop of the innermost call: it comes to the next slot.
LEMMA Advanced ==
  ASSUME RInv, removing # <<>>, Innermost.todo # <<>>
  PROVE  LET n == Len(removing)
             m == Passed(Innermost, dirs)
         IN  /\ n \in Nat \ {0} /\ n \in 1 .. n /\ Innermost = removing[n] /\ Len(Visited) = n
             /\ \A k \in 1 .. n - 1 : Visited[k] = removing[k]
             /\ \A k \in 1 .. n : Visited[k].loc = removing[k].loc
             /\ m \in Int /\ m >= 2 /\ m + 1 <= Len(dirs[Innermost.loc])
             /\ Passed(Visited[n], dirs) = m + 1
             /\ dirs[Innermost.loc][m + 1] = Head(Innermost.todo)
<1> DEFINE n    == Len(removing)
           m    == Passed(Innermost, dirs)
           todo == Innermost.todo
           c    == [Innermost EXCEPT !.todo = Tail(@)]
           s    == Front(removing)
<1>1. /\ Innermost \in Call /\ s \in Seq(Call) /\ Len(s) = n - 1 /\ n \in Nat \ {0}
      /\ \A k \in 1 .. n - 1 : s[k] = removing[k]
  BY Inner DEF RInv, IInv, SafeStack
<1>2. Innermost = removing[n] /\ n \in 1 .. n
  BY <1>1 DEF Innermost, Last
<1>3. /\ Len(Visited) = n /\ \A k \in 1 .. n - 1 : Visited[k] = removing[k]
      /\ \A k \in 1 .. n : Visited[k].loc = removing[k].loc
  BY OneStep
<1>4. /\ todo \in Seq(Entry) /\ Len(todo) \in Nat \ {0} /\ Head(todo) = todo[1]
      /\ Len(Tail(todo)) = Len(todo) - 1
  <2>1. todo \in Seq(Entry)
    BY <1>1 DEF Call
  <2> HIDE DEF todo
  <2>2. todo # <<>>
    BY DEF todo
  <2>3. QED BY <2>1, <2>2, EmptySeq, HeadTailProperties
<1>5. c \in Call /\ c.loc = Innermost.loc /\ c.todo = Tail(todo)
  <2> DEFINE rest == Tail(todo)
  <2>1. rest \in Seq(Entry) /\ c = [Innermost EXCEPT !.todo = rest]
    BY <1>4
  <2>2. Innermost \in [loc : Locs \cup {0}, todo : Seq(Entry)]
    BY <1>1 DEF Call
  <2> HIDE DEF c, rest
  <2>3. c \in Call /\ c.loc = Innermost.loc /\ c.todo = rest
    BY <2>1, <2>2 DEF Call
  <2>4. QED BY <2>3 DEF rest
<1>6. Visited[n] = c
  <2> DEFINE v == Append(s, c)
  <2>1. v[Len(s) + 1] = c
    BY <1>1, <1>5, AppendProperties
  <2>2. Visited = v
    BY DEF Visited
  <2> HIDE DEF v, s, c, n
  <2>3. Len(s) + 1 = n
    BY <1>1
  <2>4. QED BY <2>1, <2>2, <2>3
<1> HIDE DEF c, s
<1>7. /\ Agrees(Innermost, dirs) /\ Len(dirs[Innermost.loc]) \in Nat /\ m \in Int
      /\ m = Len(dirs[Innermost.loc]) - Len(todo)
  BY <1>2, Walked
<1>8. m >= 2 /\ todo[1] = dirs[Innermost.loc][m + 1]
  <2>1. 1 \in 1 .. Len(todo)
    BY <1>4
  <2>2. QED BY <1>7, <2>1 DEF Agrees
<1>9. Passed(c, dirs) = m + 1 /\ m + 1 <= Len(dirs[Innermost.loc])
  <2>1. Passed(c, dirs) = Len(dirs[Innermost.loc]) - (Len(todo) - 1)
    BY <1>4, <1>5 DEF Passed
  <2> DEFINE a == Len(dirs[Innermost.loc])
             b == Len(todo)
  <2>2. a \in Nat /\ b \in Nat \ {0} /\ m = a - b
    BY <1>4, <1>7
  <2> HIDE DEF a, b, m
  <2>3. a - (b - 1) = m + 1 /\ m + 1 <= a
    BY <2>2
  <2>4. QED BY <2>1, <2>3 DEF a, b
<1>10. QED BY <1>1, <1>2, <1>3, <1>4, <1>6, <1>7, <1>8, <1>9

\* Calls that stay as they are, but for their last entry.
LEMMA OutsideSwept ==
  ASSUME Swept(removing, dirs, cleared), cleared \subseteq cleared',
         NEW s, NEW n \in Nat, n <= Len(removing), Len(removing) \in Nat, n <= Len(s), Len(s) \in Nat,
         \A k \in 1 .. n - 1 : s[k] = removing[k], \A k \in 1 .. n : s[k].loc = removing[k].loc
  PROVE  /\ \A k \in 1 .. n - 1 : SweptBy(s[k], Inside(s, k), dirs, cleared')
         /\ \A k \in 1 .. n - 1 : dirs[s[k].loc][Passed(s[k], dirs)].loc = s[k + 1].loc
         /\ \A q \in 1 .. n : \A p \in 1 .. q - 1 : s[p].loc < s[q].loc
<1>1. ASSUME NEW k \in 1 .. n - 1
      PROVE  /\ k \in 1 .. Len(removing) /\ k < Len(removing) /\ k < Len(s) /\ k + 1 \in 1 .. n
             /\ k \in 1 .. Len(removing) - 1
  OBVIOUS
<1>2. ASSUME NEW k \in 1 .. n - 1 PROVE SweptBy(s[k], Inside(s, k), dirs, cleared')
  <2>1. Inside(s, k) = Inside(removing, k)
    BY <1>1 DEF Inside
  <2>2. SweptBy(removing[k], Inside(removing, k), dirs, cleared)
    BY <1>1 DEF Swept
  <2>3. s[k] = removing[k]
    OBVIOUS
  <2>4. QED BY <2>1, <2>2, <2>3 DEF SweptBy
<1>3. ASSUME NEW k \in 1 .. n - 1 PROVE dirs[s[k].loc][Passed(s[k], dirs)].loc = s[k + 1].loc
  BY <1>1 DEF Swept
<1>4. ASSUME NEW q \in 1 .. n, NEW p \in 1 .. q - 1 PROVE s[p].loc < s[q].loc
  <2>1. p \in 1 .. n /\ q \in 1 .. Len(removing)
    OBVIOUS
  <2>2. QED BY <2>1 DEF Swept
<1>5. QED BY <1>2, <1>3, <1>4

\* The innermost call is in no other directory.
LEMMA InnermostSwept ==
  ASSUME SInv, removing # <<>>
  PROVE  LET n == Len(removing)
         IN  /\ n \in Nat \ {0} /\ n \in 1 .. n /\ Innermost = removing[n]
             /\ SweptBy(Innermost, {}, dirs, cleared)
<1> DEFINE n == Len(removing)
<1>1. n \in Nat \ {0} /\ n \in 1 .. n
  <2>1. n \in Nat \ {0}
    BY Inner DEF SInv, RInv, IInv
  <2>2. QED BY <2>1
<1>2. Innermost = removing[n]
  BY DEF Innermost, Last
<1>3. Inside(removing, n) = {}
  BY <1>1 DEF Inside
<1>4. QED BY <1>1, <1>2, <1>3 DEF SInv, Swept

\* A file freed.
LEMMA FreedSwept ==
  ASSUME SInv, RemoveFile
  PROVE  Swept(removing', dirs', cleared')
<1> DEFINE s   == Visited
           n   == Len(removing)
           m   == Passed(Innermost, dirs)
           dir == dirs[Innermost.loc]
           e   == Head(Innermost.todo)
<1>1. /\ removing # <<>> /\ Innermost.todo # <<>> /\ e.type = "file"
      /\ removing' = s /\ dirs' = dirs /\ cleared' = cleared \cup {e.loc}
  BY DEF RemoveFile, AtEntry
<1>2. /\ n \in Nat \ {0} /\ n \in 1 .. n /\ Innermost = removing[n] /\ Len(s) = n
      /\ \A k \in 1 .. n - 1 : s[k] = removing[k]
      /\ \A k \in 1 .. n : s[k].loc = removing[k].loc
      /\ m \in Int /\ m >= 2 /\ Passed(s[n], dirs) = m + 1 /\ dir[m + 1] = e
  BY <1>1, Advanced DEF SInv
<1>3. SweptBy(Innermost, {}, dirs, cleared)
  BY <1>1, InnermostSwept
<1> HIDE DEF s, e
<1>4. /\ \A k \in 1 .. n - 1 : SweptBy(s[k], Inside(s, k), dirs, cleared')
      /\ \A k \in 1 .. n - 1 : dirs[s[k].loc][Passed(s[k], dirs)].loc = s[k + 1].loc
      /\ \A q \in 1 .. n : \A p \in 1 .. q - 1 : s[p].loc < s[q].loc
  <2>1. cleared \subseteq cleared' /\ n <= Len(removing) /\ n <= Len(s) /\ Len(s) \in Nat /\ n \in Nat
    BY <1>1, <1>2
  <2>2. Swept(removing, dirs, cleared)
    BY DEF SInv
  <2> HIDE DEF n
  <2>3. QED BY <1>2, <2>1, <2>2, OutsideSwept DEF n
<1>5. SweptBy(s[n], Inside(s, n), dirs, cleared')
  <2>1. dirs[s[n].loc] = dir /\ Passed(s[n], dirs) = m + 1
    BY <1>2
  <2>2. IsWritten(dir) /\ (\A i \in 3 .. m : dir[i].loc \in cleared) /\ (m >= 3 => dir[3].type = "file")
    BY <1>3 DEF SweptBy
  <2> HIDE DEF dir, m
  <2>3. ASSUME NEW i \in 3 .. m + 1 PROVE dir[i].loc \in cleared'
    <3>1. i \in 3 .. m \/ i = m + 1
      BY <1>2
    <3>2. QED BY <1>1, <1>2, <2>2, <3>1
  <2>4. dir[3].type = "file"
    <3>1. m >= 3 \/ m + 1 = 3
      BY <1>2
    <3>2. QED BY <1>1, <1>2, <2>2, <3>1
  <2>5. QED BY <2>1, <2>2, <2>3, <2>4 DEF SweptBy
<1>6. Swept(s, dirs, cleared')
  <2>1. \A k \in 1 .. n : k \in 1 .. n - 1 \/ k = n
    BY <1>2
  <2> HIDE DEF n
  <2>2. \A k \in 1 .. n : SweptBy(s[k], Inside(s, k), dirs, cleared')
    BY <1>4, <1>5, <2>1
  <2>3. QED BY <1>2, <1>4, <2>2 DEF Swept
<1>7. QED BY <1>1, <1>6

\* A call for a subdirectory.
LEMMA EnteredSwept ==
  ASSUME ~ MayRefuse, SInv, RemoveSubdir
  PROVE  Swept(removing', dirs', cleared')
<1> DEFINE v   == Visited
           n   == Len(removing)
           m   == Passed(Innermost, dirs)
           l   == Innermost.loc
           dir == dirs[l]
           e   == Head(Innermost.todo)
<1>1. /\ removing # <<>> /\ Innermost.todo # <<>> /\ e.type = "dir"
      /\ dirs' = dirs /\ cleared' = cleared
      /\ e.loc = RootLoc \/ \E c \in Calls(e.loc) : removing' = Append(v, c)
  BY DEF RemoveSubdir, AtEntry
<1>2. /\ n \in Nat \ {0} /\ n \in 1 .. n /\ Innermost = removing[n] /\ Len(v) = n
      /\ \A k \in 1 .. n - 1 : v[k] = removing[k]
      /\ \A k \in 1 .. n : v[k].loc = removing[k].loc
      /\ m \in Int /\ m >= 2 /\ m + 1 <= Len(dir) /\ Passed(v[n], dirs) = m + 1 /\ dir[m + 1] = e
  BY <1>1, Advanced DEF SInv
<1>3. SweptBy(Innermost, {}, dirs, cleared)
  BY <1>1, InnermostSwept
<1>4. /\ Sound(dirs, next) /\ Trees /\ making = None /\ SafeEntry(e, dirs, next)
      /\ v \in Seq(Call) /\ l \in Locs /\ Len(dir) \in Nat
  BY <1>1, <1>2, Visiting, Walked DEF SInv, TInv, DInv, IInv, RInv, SafeStack
<1> HIDE DEF v, e, n, m, l
<1>5. m + 1 \in 3 .. Len(dir) /\ m + 1 \in Slots(dir)
  <2>1. m + 1 \in 3 .. Len(dir)
    BY <1>2, <1>4
  <2>2. IsWritten(dir)
    BY <1>3 DEF SweptBy, l
  <2>3. QED BY <2>1, <2>2 DEF Slots
<1>6. e.loc \in Locs /\ e.loc # 0 /\ e.loc > l /\ e.loc # RootLoc /\ IsWritten(dirs[e.loc])
  <2>1. e.loc \in Locs /\ e.loc # 0
    BY <1>1, <1>4 DEF SafeEntry, EntryOK, Entry
  <2>2. e.loc > l
    <3>1. dir[m + 1].loc # 0 => dir[m + 1].loc > l
      BY <1>4, <1>5 DEF Trees, Later
    <3>2. QED BY <1>2, <2>1, <3>1
  <2>3. e.loc # RootLoc
    BY <1>4, <2>1, <2>2, Numbers DEF Locs, RootLoc
  <2>4. IsWritten(dirs[e.loc])
    <3>1. Led /\ making.loc = 0 /\ ~ (crashes > 0)
      BY <1>4 DEF Trees, None, SInv
    <3>2. dir[m + 1].type = "dir" /\ dir[m + 1].loc \notin {0, making.loc} /\ dir[m + 1].loc = e.loc
      BY <1>1, <1>2, <2>1, <3>1
    <3>3. IF IsWritten(dirs[e.loc]) THEN dirs[e.loc][2].loc = l ELSE crashes > 0
      BY <1>4, <1>5, <3>1, <3>2 DEF Led
    <3>4. QED BY <3>1, <3>3
  <2>5. QED BY <2>1, <2>2, <2>3, <2>4
<1>7. PICK c \in Calls(e.loc) : removing' = Append(v, c)
  BY <1>1, <1>6
<1>8. c.loc = e.loc /\ (\A i \in 3 .. Passed(c, dirs) : FALSE) /\ c \in Call
  <2>1. c.loc = e.loc /\ \A i \in 3 .. Passed(c, dirs) : FALSE
    BY <1>4, <1>6, AtFront
  <2>2. c \in Call
    <3>1. e.loc < next /\ e.loc \notin Lost(dirs) /\ next \in Nat \ {0, 1}
      BY <1>1, <1>4, NextIsNat DEF SafeEntry, EntryOK, SInv, RInv, IInv
    <3>2. QED BY <1>4, <1>6, <3>1, CallsSafe
  <2>3. QED BY <2>1, <2>2
<1> DEFINE s == Append(v, c)
<1>9. Len(s) = n + 1 /\ s[n + 1] = c /\ \A k \in 1 .. n : s[k] = v[k]
  BY <1>2, <1>4, <1>8, AppendProperties
<1> HIDE DEF s
<1>10. /\ \A k \in 1 .. n - 1 : SweptBy(s[k], Inside(s, k), dirs, cleared)
       /\ \A k \in 1 .. n - 1 : dirs[s[k].loc][Passed(s[k], dirs)].loc = s[k + 1].loc
       /\ \A q \in 1 .. n : \A p \in 1 .. q - 1 : s[p].loc < s[q].loc
  <2>1. n \in Nat /\ n <= Len(removing) /\ n <= Len(s) /\ Len(s) \in Nat /\ Len(removing) \in Nat
    BY <1>2, <1>9 DEF n
  <2>2. (\A k \in 1 .. n - 1 : s[k] = removing[k]) /\ \A k \in 1 .. n : s[k].loc = removing[k].loc
    <3>1. \A k \in 1 .. n - 1 : k \in 1 .. n
      BY <1>2
    <3>2. QED BY <1>2, <1>9, <3>1
  <2>3. Swept(removing, dirs, cleared) /\ cleared \subseteq cleared'
    BY <1>1 DEF SInv
  <2>4. QED BY <1>1, <2>1, <2>2, <2>3, OutsideSwept
<1>11. SweptBy(s[n], Inside(s, n), dirs, cleared)
  <2>1. dirs[s[n].loc] = dir /\ Passed(s[n], dirs) = m + 1
    BY <1>2, <1>9 DEF l
  <2>2. Inside(s, n) = {e.loc}
    BY <1>2, <1>8, <1>9 DEF Inside
  <2>3. IsWritten(dir) /\ (\A i \in 3 .. m : dir[i].loc \in cleared) /\ (m >= 3 => dir[3].type = "file")
    BY <1>3 DEF SweptBy, l, m
  <2> HIDE DEF dir
  <2>4. ASSUME NEW i \in 3 .. m + 1 PROVE dir[i].loc \in cleared \cup {e.loc}
    <3>1. i \in 3 .. m \/ i = m + 1
      BY <1>2
    <3>2. QED BY <1>2, <2>3, <3>1
  <2>5. dir[3].type = "file" \/ dir[3].loc \in {e.loc}
    <3>1. m >= 3 \/ m + 1 = 3
      BY <1>2
    <3>2. QED BY <1>2, <2>3, <3>1
  <2>6. QED BY <2>1, <2>2, <2>3, <2>4, <2>5 DEF SweptBy
<1>12. SweptBy(s[n + 1], Inside(s, n + 1), dirs, cleared)
  <2>1. ~ (Passed(c, dirs) >= 3)
    <3>1. Passed(c, dirs) \in Int
      BY <1>4, <1>6, <1>8, LenProperties DEF Passed, Call, Sound
    <3>2. QED BY <1>8, <3>1
  <2>2. QED BY <1>6, <1>8, <1>9, <2>1 DEF SweptBy
<1>13. dirs[s[n].loc][Passed(s[n], dirs)].loc = s[n + 1].loc
  BY <1>2, <1>8, <1>9 DEF l
<1>14. ASSUME NEW p \in 1 .. n PROVE s[p].loc < s[n + 1].loc
  <2>1. s[n].loc = l /\ s[n + 1].loc = e.loc /\ l \in Nat /\ e.loc \in Nat /\ s[p].loc \in Nat
    <3>1. s[n].loc = l /\ s[n + 1].loc = e.loc
      BY <1>2, <1>8, <1>9 DEF l
    <3>2. s[p].loc = removing[p].loc /\ removing[p].loc \in Locs
      BY <1>2, <1>9, Walked DEF SInv, n
    <3>3. QED BY <1>4, <1>6, <3>1, <3>2, Numbers DEF Locs
  <2>2. s[p].loc <= s[n].loc
    <3>1. CASE p = n
      BY <2>1, <3>1
    <3>2. CASE p # n
      <4>1. p \in 1 .. n - 1
        BY <1>2, <3>2
      <4>2. s[p].loc < s[n].loc
        BY <1>2, <1>10, <4>1
      <4>3. QED BY <2>1, <4>2
    <3>3. QED BY <3>1, <3>2
  <2>3. QED BY <1>6, <2>1, <2>2
<1>15. Swept(s, dirs, cleared)
  <2>1. \A k \in 1 .. n + 1 : k \in 1 .. n - 1 \/ k = n \/ k = n + 1
    BY <1>2
  <2>2. \A k \in 1 .. (n + 1) - 1 : k \in 1 .. n - 1 \/ k = n
    BY <1>2
  <2>3. \A q \in 1 .. n + 1 : q \in 1 .. n \/ (q = n + 1 /\ q - 1 = n)
    BY <1>2
  <2>4. \A k \in 1 .. n + 1 : SweptBy(s[k], Inside(s, k), dirs, cleared)
    BY <1>10, <1>11, <1>12, <2>1
  <2>5. \A k \in 1 .. (n + 1) - 1 : dirs[s[k].loc][Passed(s[k], dirs)].loc = s[k + 1].loc
    BY <1>10, <1>13, <2>2
  <2>6. \A q \in 1 .. n + 1 : \A p \in 1 .. q - 1 : s[p].loc < s[q].loc
    BY <1>10, <1>14, <2>3
  <2>7. QED BY <1>9, <2>4, <2>5, <2>6 DEF Swept
<1>16. QED BY <1>1, <1>7, <1>15 DEF s

\* The argument of rm.
LEMMA FirstSwept ==
  ASSUME ~ MayRefuse, SInv, NEW input \in RmPaths, fs_rmdir(input)
  PROVE  Swept(removing', dirs', cleared')
<1> DEFINE loc == get_file_from_path(input).loc
<1>1. /\ Sound(dirs, next) /\ loc \in Locs /\ IsWritten(dirs[loc])
      /\ dirs' = dirs /\ \E c \in Calls(loc) : removing' = <<c>>
  BY ArgumentIsWritten DEF fs_rmdir, SInv, TInv, DInv, IInv
<1> HIDE DEF loc
<1>2. PICK c \in Calls(loc) : removing' = <<c>>
  BY <1>1
<1>3. c.loc = loc /\ \A i \in 3 .. Passed(c, dirs) : FALSE
  BY <1>1, AtFront
<1>4. Passed(c, dirs) \in Int
  <2>1. c.todo \in Seq(Entry)
    <3>1. c = [loc |-> loc, todo |-> SubSeq(dirs[loc], 3, Len(dirs[loc]))]
      <4>1. loc # 0
        BY <1>1, Numbers DEF Locs
      <4>2. QED BY <4>1 DEF Calls, Buffers
    <3>2. dirs[loc] \in Seq(Entry) /\ Len(dirs[loc]) \in Nat
      BY <1>1, LenProperties DEF Sound
    <3> DEFINE dir == dirs[loc]
    <3>3. SubSeq(dir, 3, Len(dir)) \in Seq(Entry)
      <4> HIDE DEF dir
      <4>1. dir \in Seq(Entry) /\ Len(dir) \in Int /\ 3 \in Int
        BY <3>2 DEF dir
      <4>2. \A i \in 3 .. Len(dir) : dir[i] \in Entry
        BY <4>1, ElementOfSeq
      <4>3. QED BY <4>1, <4>2, SubSeqProperties
    <3>4. QED BY <3>1, <3>3
  <2>2. QED BY <1>1, <1>3, <2>1, LenProperties DEF Passed, Sound
<1> DEFINE s == <<c>>
<1>5. Len(s) = 1 /\ s[1] = c
  OBVIOUS
<1> HIDE DEF s
<1>6. SweptBy(c, Inside(s, 1), dirs, cleared')
  <2>1. ~ (Passed(c, dirs) >= 3)
    BY <1>3, <1>4
  <2>2. QED BY <1>1, <1>3, <2>1 DEF SweptBy
<1>7. Swept(s, dirs, cleared')
  <2>1. /\ \A k \in 1 .. Len(s) : k = 1
        /\ \A k \in 1 .. Len(s) - 1 : FALSE
        /\ \A q \in 1 .. Len(s) : \A p \in 1 .. q - 1 : FALSE
    BY <1>5
  <2>2. \A k \in 1 .. Len(s) : SweptBy(s[k], Inside(s, k), dirs, cleared')
    BY <1>5, <1>6, <2>1
  <2>3. QED BY <2>1, <2>2 DEF Swept
<1>8. QED BY <1>1, <1>2, <1>7 DEF s

\* A call that returns: the one around it was in its directory, whose entry it
\* has taken out of slot 3, or which lies behind a file.
LEMMA ReturnedSwept ==
  ASSUME ~ MayRefuse, SInv, EndRemove
  PROVE  Swept(removing', dirs', cleared')
<1> DEFINE n   == Len(removing)
           f   == Front(removing)
           loc == Innermost.loc
<1>1. /\ removing # <<>> /\ removing' = f /\ cleared' = cleared \cup ({loc} \ {0})
      /\ Sound(dirs, next) /\ Trees /\ Swept(removing, dirs, cleared) /\ Frames(removing, dirs)
      /\ next \in Nat /\ ~ (crashes > 0)
  BY NextIsNat DEF EndRemove, SInv, TInv, RInv, DInv, IInv
<1>2. /\ Len(f) = n - 1 /\ n \in Nat \ {0} /\ n \in 1 .. n /\ \A k \in 1 .. n - 1 : f[k] = removing[k]
      /\ Innermost = removing[n]
  BY <1>1, Inner, InnermostSwept DEF RInv, IInv, SInv
<1>3. loc \in Locs /\ loc # 0 /\ IsWritten(dirs[loc]) /\ cleared' = cleared \cup {loc}
  <2>1. loc \in Locs /\ loc # 0
    <3>1. loc \in Locs
      BY <1>2, Walked DEF SInv
    <3>2. QED BY <3>1, Numbers DEF Locs
  <2>2. QED BY <1>1, <2>1, InnermostSwept DEF SweptBy
<1>4. making = None
  BY <1>1 DEF SInv, RInv, IInv, Making
<1> HIDE DEF f, loc
<1>5. CASE n = 1
  <2>1. /\ \A k \in 1 .. Len(f) : FALSE
        /\ \A k \in 1 .. Len(f) - 1 : FALSE
    BY <1>2, <1>5
  <2>2. Swept(f, dirs', cleared')
    BY <2>1 DEF Swept
  <2>3. QED BY <1>1, <2>2
<1>6. CASE n # 1
  <2> DEFINE h   == n - 1
             up  == removing[h].loc
             dir == dirs[up]
             p   == Passed(removing[h], dirs)
  <2>1. /\ h \in Nat \ {0} /\ h \in 1 .. n /\ h \in 1 .. n - 1 /\ h + 1 = n /\ h < n
        /\ f[h] = removing[h] /\ Len(f) = h
    BY <1>2, <1>6
  <2>2. /\ up \in Locs /\ dir \in Seq(Entry) /\ Len(dir) \in Nat /\ removing[h] \in Call
        /\ p = Len(dir) - Len(removing[h].todo) /\ Len(removing[h].todo) \in Nat
        /\ p \in Int /\ p <= Len(dir)
    BY <2>1, Walked DEF SInv
  <2>3. /\ IsWritten(dir)
        /\ \A i \in 3 .. p : dir[i].loc \in cleared \cup {loc}
        /\ p >= 3 => dir[3].type = "file" \/ dir[3].loc = loc
        /\ dir[p].loc = loc
    <3>1. SweptBy(removing[h], Inside(removing, h), dirs, cleared)
      BY <1>1, <2>1 DEF Swept
    <3>2. Inside(removing, h) = {loc}
      BY <1>2, <2>1 DEF Inside, loc
    <3>3. dir[p].loc = removing[h + 1].loc
      BY <1>1, <2>1 DEF Swept
    <3>4. QED BY <1>2, <2>1, <3>1, <3>2, <3>3 DEF SweptBy, loc
  <2>4. PICK i \in 3 .. p : dir[i].type = "dir" /\ dir[i].loc = loc
    <3>1. Lists(removing[h], dirs, removing[h + 1].loc)
      BY <1>1, <2>1 DEF Frames
    <3>2. QED BY <1>2, <2>1, <3>1 DEF Lists, loc
  <2> HIDE DEF p, up
  <2>5. p >= 3 /\ p \in 3 .. Len(dir) /\ 3 \in Slots(dir) /\ i \in Slots(dir) /\ p \in Slots(dir)
    <3>1. i \in 3 .. p /\ p \in Int /\ p <= Len(dir) /\ Len(dir) \in Nat
      BY <2>2
    <3> HIDE DEF dir
    <3>2. p >= 3 /\ p \in 3 .. Len(dir) /\ 3 \in 3 .. Len(dir) /\ i \in 3 .. Len(dir)
      BY <3>1
    <3>3. QED BY <2>3, <3>2 DEF Slots
  <2>6. \A j \in Slots(dir) : dir[j].loc = loc => j = p
    <3>1. \A a, b \in Slots(dirs[up]) :
            dirs[up][a].loc = dirs[up][b].loc /\ dirs[up][a].loc # 0 => a = b
      BY <1>1, <2>2 DEF Trees, Once
    <3>2. QED BY <1>3, <2>3, <2>5, <3>1
  <2>7. dirs[loc][2].loc = up
    <3>1. dir[i].loc \notin {0, making.loc}
      BY <1>3, <1>4, <2>4 DEF None
    <3>2. IF IsWritten(dirs[loc]) THEN dirs[loc][2].loc = up ELSE crashes > 0
      BY <1>1, <2>2, <2>4, <2>5, <3>1 DEF Trees, Led
    <3>3. QED BY <1>3, <3>2
  <2>8. /\ \A k \in 1 .. h - 1 : SweptBy(f[k], Inside(f, k), dirs, cleared')
        /\ \A k \in 1 .. h - 1 : dirs[f[k].loc][Passed(f[k], dirs)].loc = f[k + 1].loc
        /\ \A q \in 1 .. h : \A r \in 1 .. q - 1 : f[r].loc < f[q].loc
    <3>1. /\ \A k \in 1 .. h - 1 : f[k] = removing[k]
          /\ \A k \in 1 .. h : f[k].loc = removing[k].loc
      <4>1. \A k \in 1 .. h : k \in 1 .. n - 1
        OBVIOUS
      <4>2. \A k \in 1 .. h - 1 : k \in 1 .. n - 1
        BY <2>1
      <4>3. QED BY <1>2, <4>1, <4>2
    <3>2. h \in Nat /\ h <= Len(removing) /\ Len(removing) \in Nat /\ h <= Len(f) /\ Len(f) \in Nat
      BY <1>2, <2>1
    <3>3. cleared \subseteq cleared'
      BY <1>3
    <3> HIDE DEF h, n
    <3>4. QED BY <1>1, <3>1, <3>2, <3>3, OutsideSwept
  <2>9. Inside(f, h) = {}
    BY <2>1 DEF Inside
  <2>10. CASE dirs' = dirs /\ ~ ListsFirst(up, loc)
    <3>1. dir[3].loc # loc
      <4>1. Len(dir) >= 3
        <5>1. \A a \in Nat : \A b \in 3 .. a : a >= 3
          OBVIOUS
        <5> HIDE DEF dir
        <5>2. QED BY <2>2, <2>5, <5>1, Zenon
      <4>2. QED BY <2>10, <4>1, Zenon DEF ListsFirst
    <3>2. SweptBy(f[h], Inside(f, h), dirs, cleared')
      <4> DEFINE c == f[h]
      <4>1. dirs[c.loc] = dir /\ Passed(c, dirs) = p
        BY <2>1 DEF up, p
      <4> HIDE DEF c, dir
      <4>2. /\ \A j \in 3 .. p : dir[j].loc \in cleared' \cup {}
            /\ dir[3].type = "file"
        BY <1>3, <2>3, <2>5, <3>1
      <4>3. SweptBy(c, {}, dirs, cleared')
        BY <2>3, <4>1, <4>2 DEF SweptBy
      <4>4. QED BY <2>9, <4>3 DEF c
    <3> HIDE DEF h
    <3>3. \A k \in 1 .. h : k \in 1 .. h - 1 \/ k = h
      BY <2>1
    <3>4. \A k \in 1 .. h : SweptBy(f[k], Inside(f, k), dirs, cleared')
      BY <2>8, <3>2, <3>3
    <3>5. Swept(f, dirs, cleared')
      BY <2>1, <2>8, <3>4 DEF Swept
    <3>6. QED BY <1>1, <2>10, <3>5
  <2>11. CASE ListsFirst(up, loc) /\ dirs' = [dirs EXCEPT ![up] = RemoveAt(dirs[up], 3)]
    <3> DEFINE new == RemoveAt(dir, 3)
    <3>1. p = 3
      BY <2>5, <2>6, <2>11 DEF ListsFirst
    <3>2. Len(new) = Len(dir) - 1 /\ new[1] = dir[1] /\ new # <<>>
      <4>1. 3 \in 1 .. Len(dir) /\ 1 \in 1 .. Len(dir) - 1 /\ 1 < 3 /\ Len(dir) - 1 # 0
        <5>1. \A a \in Nat : \A b \in 3 .. a : 3 \in 1 .. a /\ 1 \in 1 .. a - 1 /\ 1 < 3 /\ a - 1 # 0
          OBVIOUS
        <5> HIDE DEF dir
        <5>2. QED BY <2>2, <2>5, <5>1, Zenon
      <4>2. /\ Len(new) = Len(dir) - 1
            /\ \A j \in 1 .. Len(dir) - 1 : new[j] = IF j < 3 THEN dir[j] ELSE dir[j + 1]
        BY <2>2, <4>1, RemovedAt
      <4> HIDE DEF new, dir
      <4>3. Len(new) # 0 => new # <<>>
        OBVIOUS
      <4>4. QED BY <4>1, <4>2, <4>3
    <3>3. dirs'[up] = new /\ \A l \in Locs : l # up => dirs'[l] = dirs[l]
      BY <1>1, <2>2, <2>11 DEF Sound
    <3> HIDE DEF new
    <3>4. SweptBy(f[h], Inside(f, h), dirs', cleared')
      <4>1. f[h].loc = up /\ Passed(f[h], dirs') = Len(new) - Len(removing[h].todo)
        BY <2>1, <3>3 DEF Passed, up
      <4>2. Passed(f[h], dirs') = 2
        <5> DEFINE a == Len(dir)
                   b == Len(removing[h].todo)
        <5>1. a \in Nat /\ b \in Nat /\ a - b = 3
          BY <2>2, <3>1
        <5> HIDE DEF a, b
        <5>2. (a - 1) - b = 2
          BY <5>1
        <5>3. QED BY <3>2, <4>1, <5>2 DEF a, b
      <4>3. IsWritten(new)
        BY <2>3, <3>2 DEF IsWritten
      <4> DEFINE c == f[h]
      <4> HIDE DEF c
      <4>4. /\ IsWritten(dirs'[c.loc]) /\ Passed(c, dirs') = 2
        BY <3>3, <4>1, <4>2, <4>3 DEF c
      <4>5. SweptBy(c, Inside(f, h), dirs', cleared')
        <5>1. (\A j \in 3 .. 2 : FALSE) /\ ~ (2 >= 3)
          OBVIOUS
        <5>2. QED BY <4>4, <5>1 DEF SweptBy
      <4>6. QED BY <4>5 DEF c
    <3>5. \A k \in 1 .. h - 1 : dirs'[f[k].loc] = dirs[f[k].loc] /\ Passed(f[k], dirs') = Passed(f[k], dirs)
      <4>1. ASSUME NEW k \in 1 .. h - 1 PROVE f[k].loc \in Locs /\ f[k].loc # up
        <5>1. k \in 1 .. n /\ k \in 1 .. n - 1
          BY <2>1
        <5>2. f[k].loc \in Locs
          BY <1>2, <5>1, Walked DEF SInv
        <5>3. h \in 1 .. h
          BY <2>1
        <5>4. f[k].loc < f[h].loc
          BY <2>8, <5>3
        <5>5. f[k].loc \in Nat /\ up \in Nat /\ f[h].loc = up
          <6>1. \A l \in Locs : l \in Nat
            BY Numbers DEF Locs
          <6> HIDE DEF h
          <6>2. QED BY <2>1, <2>2, <5>2, <6>1, Zenon DEF up
        <5>6. QED BY <5>2, <5>4, <5>5
      <4>2. QED BY <3>3, <4>1 DEF Passed
    <3>6. ASSUME NEW k \in 1 .. h - 1 PROVE SweptBy(f[k], Inside(f, k), dirs', cleared')
      <4> DEFINE c == f[k]
                 inside == Inside(f, k)
      <4>1. SweptBy(c, inside, dirs, cleared')
        BY <2>8
      <4>2. dirs'[c.loc] = dirs[c.loc] /\ Passed(c, dirs') = Passed(c, dirs)
        BY <3>5
      <4> HIDE DEF c, inside
      <4>3. SweptBy(c, inside, dirs', cleared')
        BY <4>1, <4>2 DEF SweptBy
      <4>4. QED BY <4>3 DEF c, inside
    <3> HIDE DEF h
    <3>7. \A k \in 1 .. h : k \in 1 .. h - 1 \/ k = h
      BY <2>1
    <3>8. \A k \in 1 .. h : SweptBy(f[k], Inside(f, k), dirs', cleared')
      BY <3>4, <3>6, <3>7
    <3>9. Swept(f, dirs', cleared')
      BY <2>1, <2>8, <3>5, <3>8 DEF Swept
    <3>10. QED BY <1>1, <3>9
  <2>12. QED
    <3>1. \/ dirs' = dirs /\ ~ ListsFirst(up, loc)
          \/ \E u \in Locs : /\ dirs[loc][2].loc = u /\ ListsFirst(u, loc)
                             /\ dirs' = [dirs EXCEPT ![u] = RemoveAt(dirs[u], 3)]
      BY <1>3, <2>2, <2>7, Unlinking DEF SInv, RInv, loc
    <3>2. QED BY <2>7, <2>10, <2>11, <3>1
<1>7. QED BY <1>5, <1>6

\* Every step.
LEMMA StaysSwept ==
  ASSUME Moves = {}, \A t \in CdPaths : t.rooted, ~ MayRefuse, MaxCrashes = 0, SInv, [Next]_vars
  PROVE  SInv'
<1>1. TInv' /\ RInv'
  BY StaysTree, StaysInStep DEF SInv
<1>2. crashes' = 0 /\ ~ Crash
  <2>1. ~ Crash
    BY DEF Crash, SInv
  <2>2. QED
    BY <2>1 DEF Next, Proceed, fs_mkdir, b_open, cmd_rm, fs_rmdir, b_move, fs_setcwd, WriteNewDir,
                RemoveFile, RemoveSubdir, StackOverflow, EndRemove, Restart, vars, SInv
<1>3. SUFFICES Swept(removing', dirs', cleared')
  BY <1>1, <1>2 DEF SInv
<1>4. CASE removing' = <<>>
  <2> DEFINE s == <<>>
  <2>1. /\ \A k \in 1 .. Len(s) : FALSE
        /\ \A k \in 1 .. Len(s) - 1 : FALSE
    OBVIOUS
  <2> HIDE DEF s
  <2>2. Swept(s, dirs', cleared')
    BY <2>1 DEF Swept
  <2>3. QED BY <1>4, <2>2 DEF s
<1>5. CASE \E t \in RmPaths : fs_rmdir(t)
  BY <1>5, FirstSwept
<1>6. CASE RemoveFile
  BY <1>6, FreedSwept
<1>7. CASE RemoveSubdir
  BY <1>7, EnteredSwept
<1>8. CASE EndRemove
  BY <1>8, ReturnedSwept
<1>9. CASE \/ \E t \in MkdirPaths : fs_mkdir(t)
           \/ \E t \in TouchPaths : b_open(t)
           \/ \E t \in RmPaths : cmd_rm(t)
           \/ \E t \in CdPaths : fs_setcwd(t)
           \/ Restart
  <2>1. Idle /\ removing' = removing
    BY <1>9 DEF fs_mkdir, b_open, cmd_rm, fs_setcwd, Restart
  <2>2. QED BY <1>4, <2>1 DEF Idle
<1>10. CASE WriteNewDir \/ StackOverflow
  <2>1. removing' = <<>>
    BY <1>10 DEF WriteNewDir, StackOverflow, SInv, RInv, IInv, Making
  <2>2. QED BY <1>4, <2>1
<1>11. CASE UNCHANGED vars
  BY <1>11 DEF vars, SInv
<1>12. CASE \E m \in Moves : b_move(m[1], m[2])
  BY <1>12
<1>13. QED
  BY <1>2, <1>5, <1>6, <1>7, <1>8, <1>9, <1>10, <1>11, <1>12 DEF Next, Proceed

\* A call that returns has freed what its directory lists, and has a file in
\* front of it.
LEMMA LeavesFiles ==
  ASSUME SInv, [Next]_vars, removing # <<>>, removing' = Front(removing), crashes' = crashes
  PROVE  LET left == Listed(Innermost.loc)
         IN  /\ \A i \in DOMAIN left : left[i].loc \in cleared'
             /\ left # <<>> => left[1].type = "file"
<1> DEFINE n   == Len(removing)
           loc == Innermost.loc
           dir == dirs[loc]
<1>1. /\ n \in Nat \ {0} /\ n \in 1 .. n /\ Innermost = removing[n]
      /\ SweptBy(Innermost, {}, dirs, cleared)
      /\ Len(Front(removing)) = n - 1 /\ n <= MaxDepth
  BY InnermostSwept, Inner DEF SInv, RInv, IInv, Stack
<1>2. /\ loc \in Locs /\ dir \in Seq(Entry) /\ Len(dir) \in Nat
      /\ Passed(Innermost, dirs) = Len(dir) - Len(Innermost.todo)
  BY <1>1, Walked DEF SInv
<1>3. EndRemove
  <2>1. Len(removing') = n - 1
    BY <1>1
  <2>2. ~ Idle
    BY DEF Idle
  <2>3. ~ WriteNewDir
    BY DEF WriteNewDir, SInv, RInv, IInv, Making
  <2>4. (Len(Visited) = n /\ Visited \in Seq(Call)) \/ Innermost.todo = <<>>
    BY Visiting DEF SInv, RInv, SafeStack
  <2>5. n - 1 # n /\ n - 1 # n + 1
    BY <1>1
  <2>6. ~ RemoveFile
    BY <2>1, <2>4, <2>5 DEF RemoveFile, AtEntry
  <2>7. ~ RemoveSubdir
    <3>1. ASSUME NEW c, Visited \in Seq(Call) PROVE Len(Append(Visited, c)) = Len(Visited) + 1
      BY <3>1
    <3>2. QED BY <2>1, <2>4, <2>5, <3>1 DEF RemoveSubdir, AtEntry
  <2>8. ~ StackOverflow
    <3>1. MaxDepth \in Nat /\ MaxDepth > 1
      BY Numbers
    <3>2. Len(<<>>) = 0
      OBVIOUS
    <3>3. n = MaxDepth => n - 1 # 0
      BY <3>1
    <3>4. QED BY <2>1, <3>2, <3>3 DEF StackOverflow
  <2>9. ~ Crash
    BY DEF Crash, SInv
  <2>10. removing' # removing
    BY <2>1, <2>5
  <2>11. QED
    BY <2>2, <2>3, <2>6, <2>7, <2>8, <2>9, <2>10
       DEF Next, Proceed, fs_mkdir, b_open, cmd_rm, fs_rmdir, b_move, fs_setcwd, Restart, vars
<1>4. Passed(Innermost, dirs) = Len(dir) /\ cleared \subseteq cleared'
  <2>1. Innermost.todo = <<>> /\ Len(<<>>) = 0 /\ cleared \subseteq cleared'
    BY <1>3 DEF EndRemove
  <2>2. QED BY <1>2, <2>1
<1>5. /\ \A i \in 3 .. Len(dir) : dir[i].loc \in cleared'
      /\ Len(dir) >= 3 => dir[3].type = "file"
  BY <1>1, <1>4 DEF SweptBy
<1>6. Listed(loc) = SubSeq(dir, 3, Len(dir))
  <2>1. loc # 0
    BY <1>2, Numbers DEF Locs
  <2>2. QED BY <2>1 DEF Listed, Array
<1> DEFINE left == SubSeq(dir, 3, Len(dir))
<1>7. /\ left \in Seq(Entry) /\ Len(left) = IF 3 <= Len(dir) THEN Len(dir) - 2 ELSE 0
      /\ \A i \in 1 .. Len(dir) - 2 : left[i] = dir[i + 2]
  <2> HIDE DEF dir
  <2>1. \A i \in 3 .. Len(dir) : dir[i] \in Entry
    BY <1>2, ElementOfSeq
  <2>2. 3 \in Int /\ Len(dir) \in Int
    BY <1>2
  <2>3. /\ SubSeq(dir, 3, Len(dir)) \in Seq(Entry)
        /\ Len(SubSeq(dir, 3, Len(dir))) = IF 3 <= Len(dir) THEN Len(dir) - 3 + 1 ELSE 0
        /\ \A i \in 1 .. Len(dir) - 3 + 1 : SubSeq(dir, 3, Len(dir))[i] = dir[3 + i - 1]
    BY <2>1, <2>2, SubSeqProperties
  <2> HIDE DEF left
  <2>4. QED BY <1>2, <2>3 DEF left
<1> HIDE DEF left, dir
<1>8. DOMAIN left = 1 .. Len(left) /\ Len(left) \in Nat /\ (left # <<>> => Len(left) # 0)
  BY <1>7, LenProperties, EmptySeq
<1>9. ASSUME NEW i \in DOMAIN left PROVE left[i].loc \in cleared'
  <2>1. i \in 1 .. Len(dir) - 2 /\ i + 2 \in 3 .. Len(dir)
    BY <1>2, <1>7, <1>8
  <2>2. QED BY <1>5, <1>7, <2>1
<1>10. ASSUME left # <<>> PROVE left[1].type = "file"
  <2>1. Len(dir) >= 3 /\ 1 \in 1 .. Len(dir) - 2 /\ 1 + 2 = 3
    BY <1>2, <1>7, <1>8, <1>10
  <2>2. QED BY <1>5, <1>7, <2>1
<1>11. QED BY <1>6, <1>9, <1>10 DEF left, loc, dir

\* Without mv, with absolute arguments to cd, and as long as no blocks are
\* refused and nothing crashes, the removal of a directory frees everything
\* below it, at any depth: when a call of bfs_remove_dir returns, what its
\* directory still lists has been freed, and the first of it is a file, since
\* subdirectories in front of the first file have been taken out one by one.
THEOREM RemovalsLeaveFiles ==
  ASSUME Moves = {}, \A t \in CdPaths : t.rooted, ~ MayRefuse, MaxCrashes = 0
  PROVE  Spec => RemovalLeaves
<1>1. Init => SInv
  <2>1. SUFFICES ASSUME Init PROVE SInv
    OBVIOUS
  <2>2. TInv /\ IInv /\ removing = <<>> /\ crashes = 0
    BY <2>1, FormattedTree DEF Init, TInv, DInv
  <2> DEFINE s == <<>>
  <2>3. /\ \A k \in 1 .. Len(s) : FALSE
        /\ \A k \in 1 .. Len(s) - 1 : FALSE
    OBVIOUS
  <2> HIDE DEF s
  <2>4. Swept(s, dirs, cleared)
    BY <2>3 DEF Swept
  <2>5. QED BY <2>2, <2>4, NoFrames DEF s, SInv, RInv
<1>2. SInv /\ [Next]_vars => SInv'
  BY StaysSwept
<1>3. SInv /\ [Next]_vars =>
        [removing # <<>> /\ removing' = Front(removing) /\ crashes' = crashes =>
           LET left == Listed(Innermost.loc)
           IN  /\ \A i \in DOMAIN left : left[i].loc \in cleared'
               /\ left # <<>> => left[1].type = "file"]_vars
  BY LeavesFiles
<1>4. QED BY <1>1, <1>2, <1>3, PTL DEF Spec, RemovalLeaves

-----------------------------------------------------------------------------
(* The session's path *)

\* What a token leads to in the old array it leads to in the new one.
Leads(new, old) ==
  \A tok \in Toks :
    find_file(tok, old) # 0 /\ old[find_file(tok, old)].type = "dir" =>
      find_file(tok, new) # 0 /\ new[find_file(tok, new)] = old[find_file(tok, old)]

\* No array on that disk, of those lookups go through, leads elsewhere.
AllLead(disk) == \A l \in Locs : l \notin Lost(dirs) => Leads(disk[l], dirs[l])

\* A token is found in the first slot of its name.
LEMMA FoundFirst ==
  ASSUME NEW dir \in Seq(Entry), NEW tok \in Toks, find_file(tok, dir) # 0
  PROVE  LET i == find_file(tok, dir)
         IN  /\ IsWritten(dir) /\ i \in 1 .. Len(dir) /\ i <= Capacity /\ dir[i].name = tok
             /\ \A j \in 1 .. i - 1 : dir[j].name # tok
<1> DEFINE i == find_file(tok, dir)
<1>1. Len(dir) \in Nat /\ Capacity \in Nat /\ tok # NoName
  BY Numbers, LenProperties, TokensAreNames
<1>2. /\ IsWritten(dir) /\ i \in 1 .. Len(dir) + 1 /\ i <= Capacity
      /\ i <= Len(dir) => dir[i].name = tok
      /\ i > Len(dir) => tok = NoName
  BY FoundSlot
<1>3. ASSUME NEW j \in 1 .. i - 1, dir[j].name = tok, i \in 1 .. Len(dir) PROVE FALSE
  <2>1. j \in 1 .. Len(dir) /\ j <= Capacity /\ j < i
    <3> HIDE DEF i
    <3>1. QED BY <1>1, <1>2, <1>3
  <2>2. i \in 1 .. j
    BY <1>2, <1>3, <2>1, Search
  <2> HIDE DEF i
  <2>3. QED BY <2>1, <2>2
<1> HIDE DEF i
<1>4. i \in 1 .. Len(dir) /\ dir[i].name = tok
  BY <1>1, <1>2
<1>5. QED BY <1>2, <1>3, <1>4 DEF i

\* And what is the first of its name within the whole entries is found.
LEMMA FirstFound ==
  ASSUME NEW dir \in Seq(Entry), IsWritten(dir), NEW i \in 1 .. Len(dir), i <= Capacity,
         NEW tok \in Toks, dir[i].name = tok, \A j \in 1 .. i - 1 : dir[j].name # tok
  PROVE  find_file(tok, dir) = i
<1> DEFINE f == find_file(tok, dir)
<1>1. f \in 1 .. i /\ Len(dir) \in Nat
  BY Search, LenProperties
<1>2. f # 0
  <2> HIDE DEF f
  <2>1. QED BY <1>1
<1>3. f \in 1 .. Len(dir) /\ dir[f].name = tok
  BY <1>2, FoundFirst
<1> HIDE DEF f
<1>4. f \notin 1 .. i - 1
  BY <1>3
<1>5. f = i
  BY <1>1, <1>4
<1>6. QED BY <1>5 DEF f

\* Nothing was found in an array not yet written.
LEMMA UnwrittenLeads ==
  ASSUME NEW old \in Seq(Entry), ~ IsWritten(old), NEW new
  PROVE  Leads(new, old)
BY FoundSlot DEF Leads

\* An array as it was.
LEMMA SameLeads ==
  ASSUME NEW dir
  PROVE  Leads(dir, dir)
BY DEF Leads

\* What is added comes behind.
LEMMA InsertedLeads ==
  ASSUME NEW dir \in Seq(Entry), NEW e \in Entry
  PROVE  Leads(Insert(dir, e), dir)
<1>1. CASE ~ IsWritten(dir)
  BY <1>1, UnwrittenLeads
<1>2. CASE IsWritten(dir) /\ Insert(dir, e) = dir
  BY <1>2, SameLeads
<1>3. CASE IsWritten(dir) /\ Insert(dir, e) = Append(dir, e)
  <2> DEFINE new == Append(dir, e)
  <2>1. /\ new \in Seq(Entry) /\ Len(new) = Len(dir) + 1 /\ Len(dir) \in Nat
        /\ \A j \in 1 .. Len(dir) : new[j] = dir[j]
    BY AppendProperties, LenProperties
  <2> HIDE DEF new
  <2>2. ASSUME NEW tok \in Toks, find_file(tok, dir) # 0
        PROVE  find_file(tok, new) = find_file(tok, dir) /\ find_file(tok, dir) \in 1 .. Len(dir)
    <3> DEFINE i == find_file(tok, dir)
    <3>1. /\ i \in 1 .. Len(dir) /\ i <= Capacity /\ dir[i].name = tok
          /\ \A j \in 1 .. i - 1 : dir[j].name # tok
      BY <2>2, FoundFirst
    <3> HIDE DEF i
    <3>2. IsWritten(new)
      <4>1. 1 \in 1 .. Len(dir)
        BY <2>1, <3>1
      <4>2. new[1] = dir[1] /\ new # <<>>
        <5>1. new[1] = dir[1] /\ Len(new) # 0
          BY <2>1, <4>1
        <5>2. QED BY <5>1, EmptySeq
      <4>3. QED BY <1>3, <4>2 DEF IsWritten
    <3>3. /\ i \in 1 .. Len(new) /\ new[i].name = tok
          /\ \A j \in 1 .. i - 1 : new[j].name # tok
      <4>1. i \in 1 .. Len(new) /\ \A j \in 1 .. i - 1 : j \in 1 .. Len(dir)
        BY <2>1, <3>1
      <4>2. QED BY <2>1, <3>1, <4>1
    <3>4. find_file(tok, new) = i
      BY <2>1, <3>1, <3>2, <3>3, FirstFound
    <3>5. QED BY <3>1, <3>4 DEF i
  <2>3. Leads(new, dir)
    BY <2>1, <2>2 DEF Leads
  <2>4. QED BY <1>3, <2>3 DEF new
<1>4. QED BY <1>1, <1>2, <1>3 DEF Insert, IsWritten

\* A file taken out was the one its name led to, and what stands behind it is
\* the first of its name still.
LEMMA RemovedLeads ==
  ASSUME NEW dir \in Seq(Entry), NEW i \in 3 .. Len(dir), dir[i].type = "file",
         find_file(dir[i].name, dir) = i
  PROVE  Leads(RemoveAt(dir, i), dir)
<1> DEFINE new == RemoveAt(dir, i)
<1>1. Len(dir) \in Nat /\ Capacity \in Nat
  BY LenProperties, Numbers
<1>2. i \in 1 .. Len(dir) /\ i # 0 /\ i > 2
  BY <1>1
<1>3. /\ new \in Seq(Entry) /\ Len(new) = Len(dir) - 1
      /\ \A j \in 1 .. Len(dir) - 1 : new[j] = IF j < i THEN dir[j] ELSE dir[j + 1]
  BY <1>2, RemovedAt
<1> HIDE DEF new
<1>4. ASSUME NEW tok \in Toks, find_file(tok, dir) # 0, dir[find_file(tok, dir)].type = "dir"
      PROVE  /\ find_file(tok, new) # 0
             /\ new[find_file(tok, new)] = dir[find_file(tok, dir)]
  <2> DEFINE f == find_file(tok, dir)
             h == IF f < i THEN f ELSE f - 1
  <2>1. /\ IsWritten(dir) /\ f \in 1 .. Len(dir) /\ f <= Capacity /\ dir[f].name = tok
        /\ \A j \in 1 .. f - 1 : dir[j].name # tok
    BY <1>4, FoundFirst
  <2>2. f # i /\ dir[f].type = "dir"
    BY <1>4
  <2> HIDE DEF f
  <2>3. /\ h \in 1 .. Len(new) /\ h <= Capacity /\ h # 0 /\ h \in 1 .. Len(dir) - 1
        /\ f < i => h = f /\ h < i
        /\ ~ (f < i) => ~ (h < i) /\ h + 1 = f
    BY <1>1, <1>2, <1>3, <2>1, <2>2
  <2> HIDE DEF h
  <2>4. new[h] = dir[f]
    <3>1. new[h] = IF h < i THEN dir[h] ELSE dir[h + 1]
      BY <1>3, <2>3
    <3>2. QED BY <2>3, <3>1
  <2>5. ASSUME NEW j \in 1 .. h - 1 PROVE new[j].name # tok
    <3>1. j \in 1 .. Len(dir) - 1 /\ j \in 1 .. f - 1 /\ (~ (j < i) => j + 1 \in 1 .. f - 1)
      BY <1>1, <1>2, <2>1, <2>3
    <3>2. new[j] = IF j < i THEN dir[j] ELSE dir[j + 1]
      BY <1>3, <3>1
    <3>3. QED BY <2>1, <3>1, <3>2
  <2>6. IsWritten(new)
    <3>1. 1 \in 1 .. Len(dir) - 1 /\ 1 < i /\ Len(new) # 0
      BY <1>1, <1>2, <1>3
    <3>2. new[1] = dir[1]
      BY <1>3, <3>1
    <3>3. new # <<>>
      BY <3>1, EmptySeq
    <3>4. QED BY <2>1, <3>2, <3>3 DEF IsWritten
  <2>7. find_file(tok, new) = h
    BY <1>3, <2>1, <2>3, <2>4, <2>5, <2>6, FirstFound
  <2>8. QED BY <2>3, <2>4, <2>7 DEF f
<1>5. Leads(new, dir)
  BY <1>4 DEF Leads
<1>6. QED BY <1>5 DEF new

\* One array written, all the others as they were.
LEMMA OneLeads ==
  ASSUME NEW disk \in [Locs -> Seq(Entry)], NEW l \in Locs, NEW new, AllLead(disk),
         Leads(new, dirs[l])
  PROVE  AllLead([disk EXCEPT ![l] = new])
<1> DEFINE d == [disk EXCEPT ![l] = new]
<1>1. d[l] = new /\ \A k \in Locs : k # l => d[k] = disk[k]
  OBVIOUS
<1> HIDE DEF d
<1>2. QED BY <1>1 DEF AllLead, d

\* Nothing written.
LEMMA NothingLeads == AllLead(dirs)
BY SameLeads DEF AllLead

\* A file deleted, or nothing.
LEMMA TakenLeads ==
  ASSUME IInv, NEW disk, disk = dirs \/ FileTaken(disk)
  PROVE  AllLead(disk) /\ disk \in [Locs -> Seq(Entry)]
<1>0. dirs \in [Locs -> Seq(Entry)]
  BY DEF IInv, Sound
<1>1. CASE disk = dirs
  BY <1>0, <1>1, NothingLeads
<1>2. CASE FileTaken(disk)
  <2>0. PICK l \in Locs : \E i \in 3 .. Len(dirs[l]) :
          /\ dirs[l][i].type = "file" /\ find_file(dirs[l][i].name, dirs[l]) = i
          /\ disk = [dirs EXCEPT ![l] = RemoveAt(@, i)]
    BY <1>2 DEF FileTaken
  <2>1. PICK i \in 3 .. Len(dirs[l]) :
          /\ dirs[l][i].type = "file" /\ find_file(dirs[l][i].name, dirs[l]) = i
          /\ disk = [dirs EXCEPT ![l] = RemoveAt(@, i)]
    BY <2>0
  <2> DEFINE new == RemoveAt(dirs[l], i)
  <2>2. dirs[l] \in Seq(Entry) /\ Len(dirs[l]) \in Nat
    BY <1>0, LenProperties
  <2>3. Leads(new, dirs[l]) /\ new \in Seq(Entry)
    <3>1. i \in 1 .. Len(dirs[l])
      BY <2>2
    <3>2. QED BY <2>1, <2>2, <3>1, RemovedLeads, RemovedAt
  <2>4. disk = [dirs EXCEPT ![l] = new]
    BY <2>1
  <2> HIDE DEF new
  <2>5. AllLead([dirs EXCEPT ![l] = new]) /\ [dirs EXCEPT ![l] = new] \in [Locs -> Seq(Entry)]
    BY <1>0, <2>3, NothingLeads, OneLeads
  <2>6. QED BY <2>4, <2>5
<1>3. QED BY <1>1, <1>2

\* An entry added.
LEMMA AddLeads ==
  ASSUME dirs \in [Locs -> Seq(Entry)], NEW l, NEW e, Adds(l, e)
  PROVE  AllLead(dirs')
<1> DEFINE new == Append(dirs[l], e)
<1>1. /\ l \in Locs /\ e \in Entry /\ dirs[l] \in Seq(Entry)
      /\ dirs' = [dirs EXCEPT ![l] = new]
  BY DEF Adds
<1>2. new = Insert(dirs[l], e)
  <2>1. dirs[l] # <<>> /\ e.name # NoName /\ Len(dirs[l]) <= Capacity
    <3>1. Len(dirs[l]) >= 2 /\ ~ (0 >= 2) /\ Len(<<>>) = 0
      BY DEF Adds, Ready
    <3>2. QED BY <3>1, TokensAreNames, Zenon DEF Adds
  <2>2. QED BY <2>1 DEF Insert
<1>3. Leads(new, dirs[l])
  BY <1>1, <1>2, InsertedLeads
<1> HIDE DEF new
<1>4. QED BY <1>1, <1>3, NothingLeads, OneLeads

\* An array written where nothing is found.
LEMMA BesideLeads ==
  ASSUME dirs \in [Locs -> Seq(Entry)], NEW l, NEW new, Beside(l, new)
  PROVE  AllLead(dirs')
<1>1. l \in Locs /\ dirs' = [dirs EXCEPT ![l] = new] /\ Leads(new, dirs[l])
  BY UnwrittenLeads DEF Beside
<1>2. QED BY <1>1, NothingLeads, OneLeads

\* The first write of md.
LEMMA MkdirLeads ==
  ASSUME IInv, NEW input \in MkdirPaths, fs_mkdir(input)
  PROVE  AllLead(dirs')
<1>1. dirs \in [Locs -> Seq(Entry)] /\ Sound(dirs, next) /\ next \in Nat
  BY NextIsNat DEF IInv, Sound
<1>2. CASE dirs' = dirs
  BY <1>2, NothingLeads
<1>3. ASSUME NEW l \in Locs, NEW e \in Entry, Adds(l, e) PROVE AllLead(dirs')
  BY <1>1, <1>3, AddLeads
<1>4. ASSUME NEW new, Beside(next, new) PROVE AllLead(dirs')
  BY <1>1, <1>4, BesideLeads
<1>5. QED BY <1>2, <1>3, <1>4, MkdirWrites

\* The creation of a file.
LEMMA OpenLeads ==
  ASSUME IInv, NEW input \in TouchPaths, b_open(input)
  PROVE  AllLead(dirs')
<1> DEFINE l == get_file_from_path(ParentOf(input)).loc
<1>1. dirs \in [Locs -> Seq(Entry)] /\ Sound(dirs, next) /\ next \in Nat
  BY NextIsNat DEF IInv, Sound
<1>2. \/ dirs' = dirs
      \/ \E e \in Entry : Adds(l, e)
      \/ \E new : Beside(l, new)
  BY OpenWrites
<1> HIDE DEF l
<1>3. QED BY <1>1, <1>2, NothingLeads, AddLeads, BesideLeads

\* The second write of md goes over an array that lookups do not come to or find
\* nothing in.
LEMMA NewDirLeads ==
  ASSUME IInv, WriteNewDir
  PROVE  AllLead(dirs')
<1> DEFINE d == making.loc
<1>1. /\ Sound(dirs, next) /\ d \in Locs /\ Len(dirs[d]) <= 1
      /\ \A k \in Locs : k # d => dirs'[k] = dirs[k]
  BY NewDirWrites DEF IInv, Making, WriteNewDir
<1> HIDE DEF d
<1>2. dirs[d] \in Seq(Entry) /\ Len(dirs[d]) \in Nat
  BY <1>1, LenProperties DEF Sound
<1>3. ASSUME d \notin Lost(dirs) PROVE Leads(dirs'[d], dirs[d])
  <2>1. Len(dirs[d]) = 0
    <3>1. \A n \in Nat : n <= 1 /\ n # 1 => n = 0
      OBVIOUS
    <3>2. Len(dirs[d]) # 1
      BY <1>1, <1>3 DEF Lost
    <3>3. QED BY <1>1, <1>2, <3>1, <3>2, Zenon
  <2>2. ~ IsWritten(dirs[d])
    BY <1>2, <2>1, EmptySeq DEF IsWritten
  <2>3. QED BY <1>2, <2>2, UnwrittenLeads
<1>4. QED BY <1>1, <1>3, SameLeads DEF AllLead

\* mv: what it deletes is a file, and what it writes back or adds to is the
\* array it has read.
LEMMA MoveLeads ==
  ASSUME DInv, NEW m \in Moves, b_move(m[1], m[2])
  PROVE  AllLead(dirs')
<1> DEFINE dest      == m[1]
           src       == m[2]
           destEntry == get_file_from_path(ParentOf(dest))
           srcEntry  == get_file_from_path(ParentOf(src))
           doomed    == Rel(<<NameOf(dest)>>)
           loc       == destEntry.loc
<1>1. Sound(dirs, next) /\ Variables /\ ParentIsDir(dest) /\ ParentIsDir(src) /\ IInv
  BY DEF DInv, IInv, b_move
<1>2. /\ dest \in Text(Names) /\ dest.toks # <<>> /\ src \in Text(Names)
      /\ NameOf(dest) \in Names
  <2>1. dest \in Text(Names) /\ dest.toks # <<>> /\ src \in Text(Names)
    BY NamespaceAssumption
  <2> HIDE DEF dest, src
  <2>2. QED BY <1>1, <2>1, Arguments
<1> HIDE DEF dest, src
<1>3. srcEntry \in Entry /\ loc \in Locs \cup {0}
  BY <1>1, <1>2, ParentFound
<1>4. PICK destDir \in Buffers(destEntry.loc) :
        IF FirstLoc(destDir) = FirstLoc(Array(srcEntry.loc))
          THEN /\ ParentIsDir(doomed)
               /\ dirs' = LBAwrite(fs_delete(doomed).dirs, destEntry.loc, destDir)
          ELSE dirs' = LBAwrite(dirs, destEntry.loc, Insert(destDir, srcEntry))
  BY DEF b_move, dest, src
<1> HIDE DEF destEntry, srcEntry
<1>5. loc # 0 => loc \in Locs /\ destDir = dirs[loc]
  BY <1>3, <1>4 DEF Buffers
<1>6. CASE FirstLoc(destDir) = FirstLoc(Array(srcEntry.loc))
  <2> DEFINE d == fs_delete(doomed).dirs
  <2>1. ParentIsDir(doomed) /\ dirs' = LBAwrite(d, loc, destDir)
    BY <1>4, <1>6
  <2>2. d = dirs \/ FileTaken(d)
    BY <1>2, <2>1, Doomed
  <2> HIDE DEF d
  <2>3. AllLead(d) /\ d \in [Locs -> Seq(Entry)]
    BY <1>1, <2>2, TakenLeads
  <2>4. CASE loc = 0
    BY <2>1, <2>3, <2>4 DEF LBAwrite
  <2>5. CASE loc # 0
    <3>1. dirs' = [d EXCEPT ![loc] = dirs[loc]] /\ loc \in Locs
      BY <1>5, <2>1, <2>5 DEF LBAwrite
    <3> HIDE DEF loc
    <3>2. AllLead([d EXCEPT ![loc] = dirs[loc]])
      BY <2>3, <3>1, SameLeads, OneLeads
    <3>3. QED BY <3>1, <3>2
  <2>6. QED BY <2>4, <2>5
<1>7. CASE FirstLoc(destDir) # FirstLoc(Array(srcEntry.loc))
  <2> DEFINE new == Insert(dirs[loc], srcEntry)
  <2>1. loc = 0 => dirs' = dirs
    BY <1>4, <1>7 DEF LBAwrite
  <2>2. loc # 0 => dirs' = [dirs EXCEPT ![loc] = new]
    BY <1>4, <1>5, <1>7 DEF LBAwrite
  <2> HIDE DEF new, loc
  <2>3. ASSUME loc # 0 PROVE AllLead(dirs')
    <3>1. dirs \in [Locs -> Seq(Entry)] /\ loc \in Locs /\ dirs[loc] \in Seq(Entry)
      BY <1>1, <1>5, <2>3 DEF Sound
    <3>2. Leads(new, dirs[loc])
      BY <1>3, <3>1, InsertedLeads DEF new
    <3>3. AllLead([dirs EXCEPT ![loc] = new])
      BY <3>1, <3>2, NothingLeads, OneLeads
    <3>4. QED BY <2>2, <2>3, <3>3
  <2>4. QED BY <2>1, <2>3, NothingLeads
<1>8. QED BY <1>6, <1>7

\* Nothing is entered from nowhere.
LEMMA EnterNowhere ==
  ASSUME NEW disk, NEW tok
  PROVE  Enter(disk, 0, tok) = 0
<1>1. find_file(tok, <<>>) = 0
  <2>1. ~ IsWritten(<<>>)
    BY DEF IsWritten
  <2>2. QED BY <2>1, EmptySeq, FoundSlot
<1>2. QED BY <1>1 DEF Enter

\* A directory that a token led to is led to afterwards.
LEMMA EnterLeads ==
  ASSUME NEW disk, NEW l \in Locs \cup {0}, NEW tok \in Toks, l # 0 => Leads(disk[l], dirs[l]),
         Enter(dirs, l, tok) # 0
  PROVE  Enter(disk, l, tok) = Enter(dirs, l, tok)
<1>1. l # 0
  BY EnterNowhere
<1>2. find_file(tok, dirs[l]) # 0 /\ dirs[l][find_file(tok, dirs[l])].type = "dir"
  BY <1>1 DEF Enter
<1>3. find_file(tok, disk[l]) # 0 /\ disk[l][find_file(tok, disk[l])] = dirs[l][find_file(tok, dirs[l])]
  BY <1>1, <1>2 DEF Leads
<1>4. QED BY <1>1, <1>2, <1>3 DEF Enter

\* A text that led to a directory leads there afterwards, token by token.
LEMMA FollowLeads ==
  ASSUME Sound(dirs, next), next \in Nat \ {0, 1}, NEW n \in Nat \ {0, 1}, NEW disk, Sound(disk, n),
         AllLead(disk), NEW text \in Text(Toks), Follow(dirs, text) # 0
  PROVE  Follow(disk, text) = Follow(dirs, text)
<1> DEFINE N == Len(text.toks)
<1>1. N \in Nat /\ text.toks \in Seq(Toks)
  BY DEF Text
<1>2. PICK g : Way(dirs, text, Safe(dirs, next), g)
  BY SafeSteps, Steps
<1>3. PICK h : Way(disk, text, Safe(disk, n), h)
  BY SafeSteps, Steps
<1> DEFINE f == [k \in 0 .. N |-> IF g[k] = 0 THEN 0 ELSE h[k]]
<1>4. f[0] = g[0]
  BY <1>1, <1>2, <1>3 DEF Way
<1>5. ASSUME NEW k \in 1 .. N, f[k - 1] = g[k - 1] PROVE f[k] = g[k]
  <2> DEFINE l == g[k - 1]
             tok == text.toks[k]
  <2>1. /\ k - 1 \in 0 .. N /\ k \in 0 .. N /\ tok \in Toks
    BY <1>1
  <2>2. /\ l \in Locs \cup {0} /\ l \notin Lost(dirs)
        /\ g[k] = Enter(dirs, l, tok) /\ h[k] = Enter(disk, h[k - 1], tok)
    BY <1>2, <1>3, <2>1 DEF Way, Safe
  <2> HIDE DEF l, tok
  <2>3. CASE g[k] = 0
    <3>1. f[k] = 0
      BY <2>1, <2>3
    <3>2. QED BY <2>3, <3>1
  <2>4. CASE g[k] # 0
    <3>1. l # 0
      BY <2>2, <2>4, EnterNowhere
    <3>2. f[k] = h[k] /\ f[k - 1] = h[k - 1]
      BY <2>1, <2>4, <3>1 DEF l
    <3>3. h[k - 1] = l
      BY <1>5, <3>2 DEF l
    <3>4. Enter(disk, l, tok) = Enter(dirs, l, tok)
      BY <2>1, <2>2, <2>4, EnterLeads DEF AllLead
    <3>5. QED BY <2>2, <3>2, <3>3, <3>4
  <2>5. QED BY <2>3, <2>4
<1>6. Agree(f, g, N)
  <2> HIDE DEF f, N
  <2>1. QED BY <1>1, <1>4, <1>5, SameIteration
<1>7. f[N] = g[N] /\ N \in 0 .. N
  <2>1. N \in 0 .. N
    BY <1>1
  <2> HIDE DEF f, N
  <2>2. QED BY <1>6, <2>1 DEF Agree
<1>8. Follow(dirs, text) = g[N] /\ Follow(disk, text) = h[N]
  BY <1>2, <1>3 DEF Way
<1>9. g[N] # 0
  BY <1>8
<1>10. f[N] = h[N]
  BY <1>7, <1>9
<1>11. QED BY <1>7, <1>8, <1>10

\* What cd changes to is a directory, and the path it leaves leads there.
LEMMA CdLeads ==
  ASSUME ~ MayRefuse, DInv, NEW t \in CdPaths, t.rooted, fs_setcwd(t)
  PROVE  dirs' = dirs /\ Follow(dirs, cwd') # 0
<1>1. Sound(dirs, next) /\ Variables
  BY DEF DInv, IInv
<1>2. PICK freed : cwd' = expand_pathname(freed, t) /\ dirs' = dirs /\ fs_isDir(t)
  BY DEF fs_setcwd
<1>3. t \in Text(Names \cup {".", ".."}) /\ t.rooted = TRUE
  <2>1. t \in Text(Names \cup {".", ".."})
    BY NamespaceAssumption
  <2>2. t.rooted \in BOOLEAN
    BY <2>1 DEF Text
  <2>3. QED BY <2>1, <2>2
<1>4. cwd' = Expand(t)
  BY <1>2, <1>3, RootedInput DEF Expand
<1>5. Expand(t) \in Text(Names) /\ Expand(t).rooted = TRUE
  <2>1. Expand(t) \in Text(Names) /\ Expand(t).rooted = Base(cwd, t).rooted
    BY <1>3, ExpandedText, ExpandedSlash DEF Expand, DInv, Absolute
  <2>2. Base(cwd, t).rooted = TRUE
    BY <1>3 DEF Base, Slash, Abs
  <2>3. QED BY <2>1, <2>2
<1>6. Expand(t) \in Text(Toks)
  BY <1>1, <1>5, Arguments
<1>7. Find(Expand(t)).type = "dir"
  BY <1>2 DEF fs_isDir, get_file_from_path
<1>8. Find(Expand(t)).loc = Follow(dirs, Expand(t))
  BY <1>1, <1>5, <1>6, <1>7, FoundIsFollowed
<1>9. Find(Expand(t)).loc # 0
  BY <1>1, <1>6, <1>7, Finding DEF SafeEntry, EntryOK
<1>10. QED BY <1>2, <1>4, <1>8, <1>9

\* Every step outside of a removal.
LEMMA PathStays ==
  ASSUME \A t \in CdPaths : t.rooted, ~ MayRefuse, DInv, [Next]_vars,
         removing = <<>>, Follow(dirs, cwd) # 0
  PROVE  cwd'.rooted = TRUE /\ Follow(dirs', cwd') # 0
<1>1. DInv /\ DInv' /\ IInv /\ IInv'
  BY EveryStepStays DEF DInv
<1>2. /\ Sound(dirs, next) /\ Sound(dirs', next') /\ cwd \in Text(Toks)
      /\ next \in Nat \ {0, 1} /\ next' \in Nat \ {0, 1}
  <2>1. Variables /\ Variables' /\ Sound(dirs, next) /\ Sound(dirs', next')
    BY <1>1 DEF IInv
  <2>2. next' \in Nat \ {0, 1}
    BY <2>1, Numbers DEF Variables
  <2>3. QED BY <2>1, <2>2, NextIsNat DEF Variables
<1>3. cwd'.rooted = TRUE
  BY <1>1 DEF DInv, Absolute
<1>4. ASSUME AllLead(dirs'), cwd' = cwd PROVE Follow(dirs', cwd') # 0
  <2>1. Follow(dirs', cwd) = Follow(dirs, cwd)
    BY <1>2, <1>4, FollowLeads
  <2>2. QED BY <1>4, <2>1
<1>5. ASSUME cwd' = Slash PROVE Follow(dirs', cwd') # 0
  <2>1. Follow(dirs', Slash) = RootLoc
    BY FollowSlash
  <2>2. QED BY <1>5, <2>1 DEF RootLoc
<1>6. CASE \E t \in MkdirPaths : fs_mkdir(t)
  BY <1>1, <1>3, <1>4, <1>6, MkdirLeads DEF fs_mkdir
<1>7. CASE \E t \in TouchPaths : b_open(t)
  BY <1>1, <1>3, <1>4, <1>7, OpenLeads DEF b_open
<1>8. CASE \E t \in RmPaths : cmd_rm(t)
  <2>1. (dirs' = dirs \/ FileTaken(dirs')) /\ cwd' = cwd
    BY <1>1, <1>8, RmWrites DEF cmd_rm
  <2>2. AllLead(dirs')
    BY <1>1, <2>1, TakenLeads
  <2>3. QED BY <1>3, <1>4, <2>1, <2>2
<1>9. CASE \E m \in Moves : b_move(m[1], m[2])
  BY <1>1, <1>3, <1>4, <1>9, MoveLeads DEF b_move
<1>10. CASE \E t \in CdPaths : fs_setcwd(t)
  <2>1. PICK t \in CdPaths : fs_setcwd(t)
    BY <1>10
  <2>2. QED BY <1>1, <1>3, <2>1, CdLeads
<1>11. CASE WriteNewDir
  BY <1>1, <1>3, <1>4, <1>11, NewDirLeads DEF WriteNewDir
<1>12. CASE RemoveFile \/ RemoveSubdir \/ StackOverflow \/ EndRemove
  BY <1>12 DEF RemoveFile, RemoveSubdir, StackOverflow, EndRemove, AtEntry
<1>13. CASE Restart \/ Crash
  BY <1>3, <1>5, <1>13 DEF Restart, Crash
<1>14. CASE (\E t \in RmPaths : fs_rmdir(t)) \/ UNCHANGED vars
  <2>1. dirs' = dirs /\ cwd' = cwd
    BY <1>14 DEF fs_rmdir, vars
  <2>2. QED BY <1>3, <1>4, <2>1, NothingLeads
<1>15. QED
  BY <1>6, <1>7, <1>8, <1>9, <1>10, <1>11, <1>12, <1>13, <1>14 DEF Next, Proceed

\* With absolute arguments to cd, and as long as no blocks are refused, the
\* session's path leads to a directory until a removal takes that directory or
\* one above it out of its parent: through mv with any arguments, whose second
\* write may undo its first, through deletions, which take the first entry of a
\* name out and so no directory's, and through crashes.
THEOREM PathLeadsToDirectory ==
  ASSUME \A t \in CdPaths : t.rooted, ~ MayRefuse
  PROVE  Spec => CwdStaysDirectory
<1>1. Init => DInv
  BY FormattedTree DEF TInv
<1>2. DInv /\ [Next]_vars => DInv'
  BY EveryStepStays
<1> DEFINE Kind == removing = <<>> /\ cwd.rooted /\ Follow(dirs, cwd) # 0 =>
             \A disk \in {dirs'}, path \in {cwd'} : path.rooted /\ Follow(disk, path) # 0
<1>3. DInv /\ [Next]_vars => [Kind]_vars
  BY PathStays
<1>4. Spec => [][Kind]_vars
  BY <1>1, <1>2, <1>3, PTL DEF Spec
<1>5. QED BY <1>4 DEF CwdStaysDirectory

-----------------------------------------------------------------------------
(* What lookups find *)

\* What a directory lists has one of the names, and is a file or a directory.
Plain ==
  \A l \in Locs : \A i \in Slots(dirs[l]) :
    dirs[l][i].name \in Names /\ dirs[l][i].type \in {"dir", "file"}

\* An entry is added.
LEMMA AddPlain ==
  ASSUME Sound(dirs, next), next \in Nat, Plain, NEW l, NEW e, Adds(l, e), e.type \in {"dir", "file"}
  PROVE  Plain'
<1> DEFINE n == Len(dirs[l]) + 1
<1>1. /\ l \in Locs /\ \A k \in Locs : k # l => dirs'[k] = dirs[k]
      /\ Slots(dirs'[l]) = Slots(dirs[l]) \cup {n}
      /\ dirs'[l][n] = e /\ \A i \in Slots(dirs[l]) : dirs'[l][i] = dirs[l][i]
  BY Added
<1>2. e.name \in Names
  BY DEF Adds
<1> HIDE DEF n
<1>3. QED BY <1>1, <1>2 DEF Plain

\* An entry is taken out.
LEMMA TakePlain ==
  ASSUME Sound(dirs, next), next \in Nat, Plain, NEW l, NEW n, Takes(l, n)
  PROVE  Plain'
<1>1. /\ l \in Locs /\ \A k \in Locs : k # l => dirs'[k] = dirs[k]
      /\ \A j \in Slots(dirs'[l]) :
           Back(n, j) \in Slots(dirs[l]) /\ dirs'[l][j] = dirs[l][Back(n, j)]
  BY Taken
<1>2. QED BY <1>1 DEF Plain

\* Every step.
LEMMA StaysPlain ==
  ASSUME Moves = {}, \A t \in CdPaths : t.rooted, DInv, Plain, [Next]_vars
  PROVE  Plain'
<1>1. Sound(dirs, next) /\ next \in Nat /\ IInv
  BY NextIsNat DEF DInv, IInv
<1>2. dirs' = dirs => Plain'
  BY DEF Plain
<1>3. \A l, new : Beside(l, new) => Plain'
  <2>1. ASSUME NEW l, NEW new, Beside(l, new) PROVE Plain'
    BY <1>1, <2>1, WrittenBeside DEF Plain
  <2>2. QED BY <2>1
<1>4. CASE \E t \in MkdirPaths : fs_mkdir(t)
  <2>1. PICK t \in MkdirPaths : fs_mkdir(t)
    BY <1>4
  <2>2. \A l \in Locs, e \in Entry : Adds(l, e) /\ e.type = "dir" => Plain'
    BY <1>1, AddPlain
  <2>3. QED BY <1>1, <1>2, <1>3, <2>1, <2>2, MkdirWrites
<1>5. CASE \E t \in TouchPaths : b_open(t)
  <2>1. PICK t \in TouchPaths : b_open(t)
    BY <1>5
  <2> DEFINE l == get_file_from_path(ParentOf(t)).loc
  <2>2. \/ dirs' = dirs
        \/ \E e \in Entry : Adds(l, e) /\ e.type = "file"
        \/ \E new : Beside(l, new)
    BY <1>1, <2>1, OpenWrites
  <2> HIDE DEF l
  <2>3. \A e \in Entry : Adds(l, e) /\ e.type = "file" => Plain'
    BY <1>1, AddPlain
  <2>4. QED BY <1>2, <1>3, <2>2, <2>3
<1>6. CASE (\E t \in RmPaths : cmd_rm(t)) \/ EndRemove
  <2>1. dirs' = dirs \/ \E l \in Locs : \E i \in 3 .. Len(dirs[l]) : Takes(l, i)
    BY <1>6, RemovalWrites
  <2>2. QED BY <1>1, <1>2, <2>1, TakePlain
<1>7. CASE WriteNewDir
  <2>1. \A k \in Locs : Slots(dirs'[k]) = Slots(dirs[k])
    BY <1>1, <1>7, NewDirWrites
  <2>2. \A k \in Locs : \A i \in Slots(dirs[k]) : dirs'[k][i] = dirs[k][i]
    BY <1>1, <1>7, NewDirWrites
  <2>3. QED BY <2>1, <2>2 DEF Plain
<1>8. CASE \E m \in Moves : b_move(m[1], m[2])
  BY <1>8
<1>9. CASE \/ \E t \in RmPaths : fs_rmdir(t)
           \/ \E t \in CdPaths : fs_setcwd(t)
           \/ RemoveFile \/ RemoveSubdir \/ StackOverflow \/ Restart \/ Crash
           \/ UNCHANGED vars
  <2>1. dirs' = dirs
    BY <1>9 DEF fs_rmdir, fs_setcwd, RemoveFile, RemoveSubdir, StackOverflow, Restart, Crash, vars
  <2>2. QED BY <1>2, <2>1
<1>10. QED
  BY <1>4, <1>5, <1>6, <1>7, <1>8, <1>9 DEF Next, Proceed

\* An absolute text leads to the directory it finds, and nowhere when it finds
\* none.
LEMMA FollowIsFound ==
  ASSUME Sound(dirs, next), Variables, NEW text \in Text(Toks), text.rooted = TRUE
  PROVE  Follow(dirs, text) = IF Find(text).type = "dir" THEN Find(text).loc ELSE 0
<1>1. CASE Find(text).type = "dir"
  BY <1>1, FoundIsFollowed
<1>2. CASE Find(text).type # "dir"
  <2>1. text.toks # <<>>
    <3>1. ASSUME text.toks = <<>> PROVE text = Slash
      BY <3>1 DEF Slash, Abs, Text
    <3>2. QED BY <1>2, <3>1, RootIsFound
  <2> DEFINE loc == Follow(dirs, ParentText(text))
             tok == FileName(text)
             i   == find_file(tok, Array(loc))
  <2>2. Follow(dirs, text) = Enter(dirs, loc, tok)
    <3>1. /\ RootLoc \in Safe(dirs, next)
          /\ \A l \in Safe(dirs, next), t \in Toks : Enter(dirs, l, t) \in Safe(dirs, next)
      BY NextIsNat, SafeSteps
    <3>2. QED BY <2>1, <3>1, LastStep
  <2>3. tok # NoName
    <3>1. text.toks \in Seq(Toks) /\ Len(text.toks) \in 1 .. Len(text.toks)
      BY <2>1, EmptySeq DEF Text
    <3>2. tok = text.toks[Len(text.toks)]
      BY <2>1 DEF FileName, Last
    <3>3. tok \in Toks
      BY <3>1, <3>2, ElementOfSeq
    <3>4. QED BY <3>3, TokensAreNames
  <2> HIDE DEF tok, loc
  <2>4. Find(text) = IF i = 0 THEN NoEntry ELSE dirs[loc][i]
    BY <2>3 DEF Find, tok, loc
  <2>5. CASE loc = 0
    BY <1>2, <2>2, <2>5, EnterNowhere
  <2>6. CASE loc # 0
    <3>1. Array(loc) = dirs[loc]
      BY <2>6 DEF Array
    <3>2. Enter(dirs, loc, tok) = IF i = 0 \/ dirs[loc][i].type # "dir" THEN 0 ELSE dirs[loc][i].loc
      BY <2>6, <3>1 DEF Enter
    <3>3. QED BY <1>2, <2>2, <2>4, <3>2
  <2>7. QED BY <2>5, <2>6
<1>3. QED BY <1>1, <1>2

\* A sequence without its last element.
LEMMA FrontOf ==
  ASSUME NEW S, NEW s \in Seq(S), s # <<>>
  PROVE  /\ Front(s) \in Seq(S) /\ Len(s) \in Nat \ {0} /\ Len(Front(s)) = Len(s) - 1
         /\ \A k \in 1 .. Len(s) - 1 : Front(s)[k] = s[k]
<1> DEFINE n == Len(s)
           f == SubSeq(s, 1, n - 1)
<1>1. n \in Nat \ {0} /\ Front(s) = f
  BY LenProperties, EmptySeq DEF Front
<1>2. \A k \in 1 .. n - 1 : s[k] \in S
  BY <1>1, ElementOfSeq
<1>3. 1 \in Int /\ n - 1 \in Int
  BY <1>1
<1>4. /\ f \in Seq(S)
      /\ Len(f) = IF 1 <= n - 1 THEN (n - 1) - 1 + 1 ELSE 0
      /\ \A k \in 1 .. (n - 1) - 1 + 1 : f[k] = s[1 + k - 1]
  BY <1>2, <1>3, SubSeqProperties
<1> HIDE DEF f, n
<1>5. /\ (n - 1) - 1 + 1 = n - 1
      /\ (IF 1 <= n - 1 THEN (n - 1) - 1 + 1 ELSE 0) = n - 1
      /\ \A k \in 1 .. n - 1 : 1 + k - 1 = k
  BY <1>1
<1>6. QED BY <1>1, <1>4, <1>5 DEF n

\* A sequence with one element more.
LEMMA FrontAppended ==
  ASSUME NEW q \in Seq(Names), NEW name \in Names
  PROVE  Front(Append(q, name)) = q /\ Last(Append(q, name)) = name
<1> DEFINE p == Append(q, name)
<1>1. /\ p \in Seq(Names) /\ Len(p) = Len(q) + 1 /\ p[Len(p)] = name /\ Len(q) \in Nat
      /\ \A i \in 1 .. Len(q) : p[i] = q[i]
  BY AppendProperties, LenProperties
<1> HIDE DEF p
<1>2. p # <<>>
  BY <1>1, EmptySeq
<1>3. /\ Front(p) \in Seq(Names) /\ Len(Front(p)) = Len(p) - 1
      /\ \A i \in 1 .. Len(p) - 1 : Front(p)[i] = p[i]
  BY <1>1, <1>2, FrontOf
<1>4. Front(p) = q
  BY <1>1, <1>3, SeqEqual
<1>5. Last(p) = name
  BY <1>1 DEF Last
<1>6. QED BY <1>4, <1>5 DEF p

\* An absolute text of names, and one name more.
LEMMA NamesAppended ==
  ASSUME NEW q \in Seq(Names), NEW name \in Names
  PROVE  /\ Abs(q) \in Text(Toks) /\ Abs(q).rooted = TRUE /\ Abs(q) \in Text(Names)
         /\ Append(q, name) \in Seq(Names) /\ Abs(Append(q, name)) \in Text(Toks)
         /\ ParentText(Abs(Append(q, name))) = Abs(q)
         /\ FileName(Abs(Append(q, name))) = name
<1> DEFINE p == Append(q, name)
<1>1. \A s \in Seq(Names) : Abs(s) \in Text(Toks) /\ Abs(s).rooted = TRUE /\ Abs(s) \in Text(Names)
  <2>1. ASSUME NEW s \in Seq(Names) PROVE s \in Seq(Toks)
    <3>1. Names \subseteq Toks
      BY DEF Toks
    <3>2. QED BY <3>1, SeqMonotonic
  <2>2. QED BY <2>1 DEF Abs, Text
<1>2. /\ p \in Seq(Names) /\ Len(p) = Len(q) + 1 /\ p[Len(p)] = name /\ Len(q) \in Nat
      /\ \A i \in 1 .. Len(q) : p[i] = q[i]
  BY AppendProperties, LenProperties
<1>3. p # <<>> /\ Front(p) = q /\ Last(p) = name
  BY AppendProperties, FrontAppended
<1> HIDE DEF p
<1>4. ParentText(Abs(p)) = Abs(q) /\ FileName(Abs(p)) = name
  <2>1. Abs(p) \in Text(Names) /\ Abs(p).rooted = TRUE /\ Abs(p).toks = p
    BY <1>2 DEF Abs, Text
  <2> DEFINE up == ParentText(Abs(p))
  <2>2. up \in Text(Names) /\ up.rooted = TRUE
    BY <2>1, ParentIsText
  <2>3. up.toks = q
    <3>1. up.toks = SubSeq(p, 1, Len(p) - 1)
      BY <1>3, <2>1, ParentIsText
    <3>2. QED BY <1>3, <3>1 DEF Front
  <2> HIDE DEF up
  <2>4. up = Abs(q)
    BY <2>2, <2>3 DEF Abs, Text
  <2>5. FileName(Abs(p)) = name
    BY <1>3, <2>1 DEF FileName
  <2>6. QED BY <2>4, <2>5 DEF up
<1>5. QED BY <1>1, <1>2, <1>4 DEF p

\* The slots of an array that lookups come to.
Seen(dir) == IF IsWritten(dir) THEN 3 .. Smaller(Len(dir), Capacity) ELSE {}

\* A name is found in one of them, and what bears that name in another is a file
\* as well.
LEMMA FoundInDirectory ==
  ASSUME Sound(dirs, next), next \in Nat, Named, NEW l \in Locs \cup {0}, l \notin Lost(dirs),
         NEW name \in Names
  PROVE  LET i == find_file(name, Array(l))
         IN  /\ Array(l) \in Seq(Entry) /\ Seen(Array(l)) \subseteq Slots(Array(l))
             /\ i # 0 => i \in Seen(Array(l)) /\ l \in Locs /\ dirs[l][i].name = name
             /\ \A j \in Seen(Array(l)) : dirs[l][j].name = name =>
                  /\ i # 0 /\ (dirs[l][i].type = "dir" <=> dirs[l][j].type = "dir")
                  /\ dirs[l][j].type = "dir" => i = j
<1> DEFINE dir == Array(l)
           i   == find_file(name, dir)
<1>1. dir \in Seq(Entry) /\ Len(dir) \in Nat /\ Capacity \in Nat
  BY EmptySeq, LenProperties, Numbers DEF Array, Sound
<1>2. name \in Toks /\ name # "." /\ name # ".."
  BY TokensAreNames DEF Toks
<1>3. Seen(dir) \subseteq Slots(dir)
  <2> HIDE DEF dir
  <2>1. QED BY <1>1 DEF Seen, Slots, Smaller
<1>4. ASSUME IsWritten(dir) PROVE l \in Locs /\ dir = dirs[l] /\ dir[1].name = "." /\ dir[2].name = ".."
  <2>1. l \in Locs /\ dir = dirs[l]
    BY <1>4 DEF IsWritten, Array
  <2>2. Ready(dirs[l], l)
    BY <1>4, <2>1, WrittenIsReady
  <2>3. QED BY <2>1, <2>2 DEF Ready, bfs_create_dir_entry
<1> HIDE DEF dir
<1>5. ASSUME i # 0 PROVE i \in Seen(dir) /\ l \in Locs /\ dir = dirs[l] /\ dir[i].name = name
  <2>1. IsWritten(dir) /\ i \in 1 .. Len(dir) /\ i <= Capacity /\ dir[i].name = name
    BY <1>1, <1>2, <1>5, FoundFirst
  <2> HIDE DEF i
  <2>2. i # 1 /\ i # 2
    BY <1>2, <1>4, <2>1
  <2>3. i \in 3 .. Smaller(Len(dir), Capacity)
    BY <1>1, <2>1, <2>2 DEF Smaller
  <2>4. QED BY <1>4, <2>1, <2>3 DEF Seen
<1>6. ASSUME NEW j \in Seen(dir), dirs[l][j].name = name
      PROVE  /\ i # 0 /\ (dirs[l][i].type = "dir" <=> dirs[l][j].type = "dir")
             /\ dirs[l][j].type = "dir" => i = j
  <2>1. IsWritten(dir) /\ j \in 3 .. Smaller(Len(dir), Capacity)
    BY DEF Seen
  <2>2. l \in Locs /\ dir = dirs[l]
    BY <1>4, <2>1
  <2>3. j \in 1 .. Len(dir) /\ j <= Capacity
    BY <1>1, <2>1 DEF Smaller
  <2>4. i \in 1 .. j
    BY <1>1, <1>6, <2>1, <2>2, <2>3, Search
  <2>5. i # 0
    <3> HIDE DEF i
    <3>1. QED BY <1>1, <2>3, <2>4
  <2>6. i \in Slots(dirs[l]) /\ j \in Slots(dirs[l]) /\ dirs[l][i].name = dirs[l][j].name
    BY <1>3, <1>5, <1>6, <2>2, <2>5
  <2> HIDE DEF i
  <2>7. QED BY <2>2, <2>5, <2>6 DEF Named
<1>7. QED BY <1>1, <1>3, <1>5, <1>6 DEF dir

\* The lookup of an absolute text looks its last name up where the rest of it
\* leads.
LEMMA FoundBelow ==
  ASSUME Sound(dirs, next), Variables, NEW q \in Seq(Names), NEW name \in Names
  PROVE  LET loc == IF Find(Abs(q)).type = "dir" THEN Find(Abs(q)).loc ELSE 0
             i   == find_file(name, Array(loc))
         IN  /\ loc \in Locs \cup {0} /\ loc \notin Lost(dirs)
             /\ Find(Abs(Append(q, name))) = IF i = 0 THEN NoEntry ELSE dirs[loc][i]
<1> DEFINE loc == IF Find(Abs(q)).type = "dir" THEN Find(Abs(q)).loc ELSE 0
           i   == find_file(name, Array(loc))
<1>1. /\ Abs(q) \in Text(Toks) /\ Abs(q).rooted = TRUE
      /\ ParentText(Abs(Append(q, name))) = Abs(q) /\ FileName(Abs(Append(q, name))) = name
  BY NamesAppended
<1>2. Follow(dirs, Abs(q)) = loc
  BY <1>1, FollowIsFound
<1>3. loc \in Locs \cup {0} /\ loc \notin Lost(dirs)
  <2> HIDE DEF loc
  <2>1. QED BY <1>1, <1>2, NextIsNat, FollowedSafe
<1>4. name # NoName
  BY TokensAreNames
<1> HIDE DEF loc
<1>5. Find(Abs(Append(q, name))) = IF i = 0 THEN NoEntry ELSE dirs[loc][i]
  BY <1>1, <1>2, <1>4 DEF Find
<1>6. QED BY <1>3, <1>5 DEF loc

\* What the tree is made of.
Node == [path : Seq(Names), loc : Locs \cup {0}, type : {"dir", "file"}]

\* The node of the entry at slot i of the directory of m.
Child(m, i) == [path |-> Append(m.path, dirs[m.loc][i].name),
                loc  |-> dirs[m.loc][i].loc,
                type |-> dirs[m.loc][i].type]

\* What is below a set of nodes.
LEMMA Children ==
  ASSUME Sound(dirs, next), next \in Nat, Plain, NEW S \in SUBSET Node
  PROVE  /\ Below(S) \in SUBSET Node
         /\ \A n : n \in Below(S) <=>
              \E m \in S : m.type = "dir" /\ \E i \in Seen(Array(m.loc)) : n = Child(m, i)
<1>1. ASSUME NEW m \in S, IsWritten(Array(m.loc))
      PROVE  m.loc \in Locs /\ Array(m.loc) = dirs[m.loc]
  <2>1. m.loc \in Locs \cup {0}
    BY DEF Node
  <2>2. QED BY <1>1, <2>1 DEF IsWritten, Array
<1>2. ASSUME NEW n
      PROVE  n \in Below(S) <=>
               \E m \in S : m.type = "dir" /\ \E i \in Seen(Array(m.loc)) : n = Child(m, i)
  <2>1. n \in Below(S) <=>
          \E m \in {c \in S : c.type = "dir" /\ IsWritten(Array(c.loc))} :
            \E i \in 3 .. Smaller(Len(dirs[m.loc]), Capacity) : n = Child(m, i)
    BY DEF Below, Child
  <2>2. ASSUME NEW m \in S, IsWritten(Array(m.loc))
        PROVE  Seen(Array(m.loc)) = 3 .. Smaller(Len(dirs[m.loc]), Capacity)
    BY <1>1, <2>2 DEF Seen
  <2>3. \A m \in S : ~ IsWritten(Array(m.loc)) => Seen(Array(m.loc)) = {}
    BY DEF Seen
  <2>4. QED BY <2>1, <2>2, <2>3
<1>3. ASSUME NEW m \in S, NEW i \in Seen(Array(m.loc)) PROVE Child(m, i) \in Node
  <2>1. IsWritten(Array(m.loc)) /\ i \in 3 .. Smaller(Len(Array(m.loc)), Capacity)
    BY DEF Seen
  <2>2. m.loc \in Locs /\ Array(m.loc) = dirs[m.loc]
    BY <1>1, <2>1
  <2> DEFINE l == m.loc
  <2> HIDE DEF l
  <2>3. l \in Locs /\ i \in Slots(dirs[l])
    <3>1. Len(dirs[l]) \in Nat /\ Capacity \in Nat
      BY <2>2, Places, Numbers DEF l
    <3>2. QED BY <2>1, <2>2, <3>1 DEF Slots, Smaller, l
  <2>4. /\ dirs[l][i].name \in Names /\ dirs[l][i].type \in {"dir", "file"}
        /\ dirs[l][i].loc \in Locs \cup {0}
    BY <2>3, Places DEF Plain
  <2>5. Append(m.path, dirs[l][i].name) \in Seq(Names)
    BY <2>4, AppendProperties DEF Node
  <2>6. QED BY <2>4, <2>5 DEF Child, Node, l
<1>4. Below(S) \in SUBSET Node
  BY <1>2, <1>3
<1>5. QED BY <1>2, <1>4

\* Every level of the tree is what is below the one above it.
LEMMA Levels ==
  ASSUME Sound(dirs, next), next \in Nat, Plain
  PROVE  /\ Level[0] = {[path |-> <<>>, loc |-> RootLoc, type |-> "dir"]}
         /\ \A k \in 0 .. MaxLoc - 1 : Level[k] \in SUBSET Node
         /\ \A k \in 1 .. MaxLoc - 1 : Level[k] = Below(Level[k - 1])
<1> DEFINE n    == MaxLoc - 1
           S    == SUBSET Node
           top  == {[path |-> <<>>, loc |-> RootLoc, type |-> "dir"]}
           step == [s \in S |-> [k \in 1 .. n |-> Below(s)]]
           Is(f) == f = [k \in 0 .. n |-> IF k = 0 THEN top ELSE Below(f[k - 1])]
<1>1. n \in Nat
  BY Numbers
<1>2. top \in S
  <2>1. RootLoc \in Locs
    BY Numbers DEF RootLoc, Locs
  <2>2. QED BY <2>1, EmptySeq DEF Node
<1>3. step \in [S -> [1 .. n -> S]]
  <2>1. \A s \in S : Below(s) \in S
    BY Children
  <2>2. QED BY <2>1
<1>4. PICK f : f \in [0 .. n -> S] /\ f[0] = top /\ \A k \in 1 .. n : f[k] = step[f[k - 1]][k]
  <2> HIDE DEF step, n, S, top
  <2>1. Computes(n, S, top, step)
    BY <1>1, <1>2, <1>3, Iteration
  <2>2. QED BY <2>1 DEF Computes
<1>5. \A k \in 1 .. n : f[k] = Below(f[k - 1])
  <2>1. ASSUME NEW k \in 1 .. n PROVE f[k] = Below(f[k - 1])
    <3>1. k - 1 \in 0 .. n
      BY <1>1
    <3> HIDE DEF n, S
    <3>2. f[k - 1] \in S
      BY <1>4, <3>1
    <3>3. step[f[k - 1]][k] = Below(f[k - 1])
      BY <3>2
    <3>4. QED BY <1>4, <3>3
  <2>2. QED BY <2>1
<1>6. Is(f)
  <2> HIDE DEF top, S
  <2>1. QED BY <1>1, <1>4, <1>5
<1>7. Level = CHOOSE h : Is(h)
  BY DEF Level
<1>8. Is(Level)
  <2> HIDE DEF Is
  <2>1. QED BY <1>6, <1>7
<1>9. Level[0] = top /\ \A k \in 1 .. n : Level[k] = Below(Level[k - 1])
  <2> HIDE DEF top
  <2>1. \A k \in 1 .. n : k \in 0 .. n /\ k # 0
    BY <1>1
  <2>2. Level = [k \in 0 .. n |-> IF k = 0 THEN top ELSE Below(Level[k - 1])]
    BY <1>8
  <2> HIDE DEF n, Is
  <2>3. QED BY ONLY <1>1, <2>1, <2>2
<1>10. Agree(Level, f, n)
  <2>1. \A k \in 1 .. n : Level[k - 1] = f[k - 1] => Level[k] = f[k]
    BY <1>5, <1>9
  <2>2. Level[0] = f[0]
    BY <1>4, <1>9
  <2> HIDE DEF n
  <2>3. QED BY <1>1, <2>1, <2>2, SameIteration
<1>11. \A k \in 0 .. n : Level[k] \in S
  <2> HIDE DEF n, S
  <2>1. QED BY <1>4, <1>10 DEF Agree
<1>12. QED BY <1>9, <1>11

\* The nodes at one depth of the tree are what lookups of texts of as many names
\* find.
FoundAt(k) ==
  /\ \A n \in Level[k] :
       /\ n.path \in Seq(Names) /\ Len(n.path) = k /\ Find(Abs(n.path)).type = n.type
       /\ n.type = "dir" => Find(Abs(n.path)).loc = n.loc
  /\ \A p \in Seq(Names) : Len(p) = k /\ Find(Abs(p)) # NoEntry =>
       \E n \in Level[k] : n.path = p /\ n.type = Find(Abs(p)).type

\* What is below a node is found below its path.
LEMMA ChildFound ==
  ASSUME Sound(dirs, next), Variables, Named, Plain, NEW q \in Seq(Names),
         Find(Abs(q)).type = "dir", NEW l \in Locs \cup {0}, Find(Abs(q)).loc = l,
         NEW i \in Seen(Array(l))
  PROVE  LET p == Append(q, dirs[l][i].name)
         IN  /\ l \in Locs /\ i \in Slots(dirs[l]) /\ dirs[l][i].name \in Names
             /\ Find(Abs(p)).type = dirs[l][i].type
             /\ dirs[l][i].type = "dir" => Find(Abs(p)) = dirs[l][i]
<1>1. next \in Nat
  BY NextIsNat
<1>2. l \in Locs /\ Array(l) = dirs[l]
  BY DEF Seen, IsWritten, Array
<1>3. i \in Slots(dirs[l])
  <2>1. Len(dirs[l]) \in Nat /\ Capacity \in Nat
    BY <1>1, <1>2, Places, Numbers
  <2>2. QED BY <1>2, <2>1 DEF Seen, Slots, Smaller
<1>4. dirs[l][i].name \in Names /\ dirs[l][i].type \in {"dir", "file"}
  BY <1>2, <1>3 DEF Plain
<1> DEFINE name == dirs[l][i].name
           f    == find_file(name, Array(l))
<1>5. l \notin Lost(dirs) /\ Find(Abs(Append(q, name))) = IF f = 0 THEN NoEntry ELSE dirs[l][f]
  <2> HIDE DEF name
  <2>1. name \in Names
    BY <1>4 DEF name
  <2>2. QED BY <2>1, FoundBelow
<1>6. /\ f # 0 /\ (dirs[l][f].type = "dir" <=> dirs[l][i].type = "dir")
      /\ dirs[l][i].type = "dir" => f = i
      /\ f \in Slots(dirs[l])
  <2> HIDE DEF name
  <2>1. name \in Names /\ dirs[l][i].name = name
    BY <1>4 DEF name
  <2>2. QED BY <1>1, <1>2, <1>5, <2>1, FoundInDirectory
<1>7. dirs[l][f].type \in {"dir", "file"}
  <2> HIDE DEF f
  <2>1. QED BY <1>2, <1>6 DEF Plain
<1> HIDE DEF f
<1>8. QED BY <1>2, <1>3, <1>4, <1>5, <1>6, <1>7 DEF name

\* What is found below a text is in the directory the text finds.
LEMMA FoundChild ==
  ASSUME Sound(dirs, next), Variables, Named, NEW q \in Seq(Names), NEW name \in Names,
         Find(Abs(Append(q, name))) # NoEntry
  PROVE  LET l == Find(Abs(q)).loc
         IN  /\ Find(Abs(q)).type = "dir" /\ l \in Locs
             /\ \E i \in Seen(Array(l)) :
                  dirs[l][i].name = name /\ Find(Abs(Append(q, name))) = dirs[l][i]
<1> DEFINE l == IF Find(Abs(q)).type = "dir" THEN Find(Abs(q)).loc ELSE 0
           i == find_file(name, Array(l))
<1>1. /\ l \in Locs \cup {0} /\ l \notin Lost(dirs)
      /\ Find(Abs(Append(q, name))) = IF i = 0 THEN NoEntry ELSE dirs[l][i]
  BY FoundBelow
<1> HIDE DEF l
<1>2. i # 0 /\ Find(Abs(Append(q, name))) = dirs[l][i]
  BY <1>1
<1>3. i \in Seen(Array(l)) /\ l \in Locs /\ dirs[l][i].name = name
  BY <1>1, <1>2, NextIsNat, FoundInDirectory
<1>4. Find(Abs(q)).type = "dir" /\ l = Find(Abs(q)).loc
  BY <1>3, Numbers DEF l, Locs
<1> HIDE DEF i
<1>5. QED BY <1>2, <1>3, <1>4

\* At every depth, one below the other.
LEMMA TreeIsFound ==
  ASSUME Sound(dirs, next), Variables, Named, Plain
  PROVE  \A k \in 0 .. MaxLoc - 1 : FoundAt(k)
<1>1. /\ next \in Nat /\ MaxLoc \in Nat \ {0}
      /\ Level[0] = {[path |-> <<>>, loc |-> RootLoc, type |-> "dir"]}
      /\ \A k \in 0 .. MaxLoc - 1 : Level[k] \in SUBSET Node
      /\ \A k \in 1 .. MaxLoc - 1 : Level[k] = Below(Level[k - 1])
  BY NextIsNat, Numbers, Levels
<1>2. FoundAt(0)
  <2>1. Abs(<<>>) = Slash /\ <<>> \in Seq(Names) /\ Len(<<>>) = 0
    BY EmptySeq DEF Slash
  <2>2. Find(Slash).type = "dir" /\ Find(Slash).loc = RootLoc
    BY RootIsFound
  <2>3. \A p \in Seq(Names) : Len(p) = 0 => p = <<>>
    BY EmptySeq
  <2>4. QED BY <1>1, <2>1, <2>2, <2>3 DEF FoundAt
<1>3. ASSUME NEW k \in 1 .. MaxLoc - 1, FoundAt(k - 1)
      PROVE  FoundAt(k)
  <2> DEFINE up == Level[k - 1]
  <2>1. k - 1 \in 0 .. MaxLoc - 1 /\ k \in Nat /\ k - 1 \in Nat /\ k # 0
    BY <1>1
  <2>2. up \in SUBSET Node /\ Level[k] = Below(up)
    BY <1>1, <2>1
  <2>3. \A n : n \in Level[k] <=>
          \E m \in up : m.type = "dir" /\ \E i \in Seen(Array(m.loc)) : n = Child(m, i)
    BY <1>1, <2>2, Children
  <2>4. ASSUME NEW n \in Level[k]
        PROVE  /\ n.path \in Seq(Names) /\ Len(n.path) = k /\ Find(Abs(n.path)).type = n.type
               /\ n.type = "dir" => Find(Abs(n.path)).loc = n.loc
    <3>1. PICK m \in up : m.type = "dir" /\ \E i \in Seen(Array(m.loc)) : n = Child(m, i)
      BY <2>3
    <3>2. PICK i \in Seen(Array(m.loc)) : n = Child(m, i)
      BY <3>1
    <3> DEFINE q == m.path
               l == m.loc
    <3>3. /\ q \in Seq(Names) /\ Len(q) = k - 1 /\ Find(Abs(q)).type = "dir"
          /\ Find(Abs(q)).loc = l
      BY <1>3, <3>1 DEF FoundAt
    <3>4. l \in Locs \cup {0}
      BY <2>2 DEF Node
    <3>5. /\ n.path = Append(q, dirs[l][i].name) /\ n.loc = dirs[l][i].loc
          /\ n.type = dirs[l][i].type
      BY <3>2 DEF Child
    <3>6. i \in Seen(Array(l))
      BY <3>2
    <3> HIDE DEF q, l
    <3>7. /\ dirs[l][i].name \in Names /\ Find(Abs(n.path)).type = n.type
          /\ n.type = "dir" => Find(Abs(n.path)).loc = n.loc
      <4>1. /\ dirs[l][i].name \in Names
            /\ Find(Abs(Append(q, dirs[l][i].name))).type = dirs[l][i].type
            /\ dirs[l][i].type = "dir" => Find(Abs(Append(q, dirs[l][i].name))) = dirs[l][i]
        BY <3>3, <3>4, <3>6, ChildFound
      <4>2. QED BY <3>5, <4>1
    <3>8. Append(q, dirs[l][i].name) \in Seq(Names) /\ Len(Append(q, dirs[l][i].name)) = Len(q) + 1
      BY <3>3, <3>7, AppendProperties
    <3>9. (k - 1) + 1 = k
      BY <2>1
    <3>10. QED BY <3>3, <3>5, <3>7, <3>8, <3>9
  <2>5. ASSUME NEW p \in Seq(Names), Len(p) = k, Find(Abs(p)) # NoEntry
        PROVE  \E n \in Level[k] : n.path = p /\ n.type = Find(Abs(p)).type
    <3> DEFINE q    == Front(p)
               name == p[k]
    <3>1. p # <<>>
      BY <2>1, <2>5, EmptySeq
    <3>2. q \in Seq(Names) /\ Len(q) = k - 1 /\ \A j \in 1 .. k - 1 : q[j] = p[j]
      BY <2>5, <3>1, FrontOf
    <3>3. name \in Names
      <4>1. k \in 1 .. Len(p)
        BY <2>1, <2>5
      <4>2. QED BY <4>1, ElementOfSeq
    <3> HIDE DEF q, name
    <3>4. p = Append(q, name)
      <4>1. /\ Append(q, name) \in Seq(Names) /\ Len(Append(q, name)) = Len(q) + 1
            /\ \A j \in 1 .. Len(q) : Append(q, name)[j] = q[j]
            /\ Append(q, name)[Len(q) + 1] = name
        BY <3>2, <3>3, AppendProperties
      <4>2. Len(q) + 1 = k
        BY <2>1, <3>2
      <4>3. ASSUME NEW j \in 1 .. k PROVE p[j] = Append(q, name)[j]
        <5>1. j = k \/ j \in 1 .. k - 1
          BY <2>1
        <5>2. QED BY <3>2, <4>1, <4>2, <5>1 DEF name
      <4>4. QED BY <2>5, <4>1, <4>2, <4>3, SeqEqual
    <3> DEFINE l == Find(Abs(q)).loc
    <3>5. /\ Find(Abs(q)).type = "dir" /\ l \in Locs
          /\ \E i \in Seen(Array(l)) : dirs[l][i].name = name /\ Find(Abs(p)) = dirs[l][i]
      BY <2>5, <3>2, <3>3, <3>4, FoundChild
    <3>6. Find(Abs(q)) # NoEntry
      BY <3>5, NoEntryOK
    <3>7. PICK m \in up : m.path = q /\ m.type = "dir"
      BY <1>3, <3>2, <3>5, <3>6 DEF FoundAt
    <3>8. m.loc = l
      BY <1>3, <3>7 DEF FoundAt
    <3>9. PICK i \in Seen(Array(m.loc)) : dirs[l][i].name = name /\ Find(Abs(p)) = dirs[l][i]
      BY <3>5, <3>8
    <3>10. Child(m, i) \in Level[k]
      BY <2>3, <3>7
    <3>11. Child(m, i).path = p /\ Child(m, i).type = Find(Abs(p)).type
      <4> HIDE DEF l
      <4>1. QED BY <3>4, <3>7, <3>8, <3>9 DEF Child
    <3>12. QED BY <3>10, <3>11
  <2>6. QED BY <2>4, <2>5 DEF FoundAt
<1> DEFINE Bad == {k \in 0 .. MaxLoc - 1 : ~ FoundAt(k)}
<1>4. ASSUME Bad # {} PROVE FALSE
  <2>1. Bad \in SUBSET Nat
    OBVIOUS
  <2>2. PICK k \in Bad : \A j \in Bad : k <= j
    <3> HIDE DEF Bad
    <3>1. QED BY <1>4, <2>1, LeastNat
  <2>3. k \in 0 .. MaxLoc - 1 /\ ~ FoundAt(k)
    BY <2>2
  <2>4. k # 0 /\ k \in 1 .. MaxLoc - 1 /\ k - 1 \in 0 .. MaxLoc - 1 /\ ~ (k <= k - 1)
    BY <1>1, <1>2, <2>3
  <2>5. FoundAt(k - 1)
    BY <2>2, <2>4
  <2>6. QED BY <1>3, <2>3, <2>4, <2>5
<1>5. QED BY <1>4

\* The inductive invariants of lookups.
PInv == TInv /\ Plain

\* They hold at first and ever after.
LEMMA FormattedPlain ==
  ASSUME Init
  PROVE  PInv
BY FormattedTree DEF PInv, Plain

\* Every step keeps it.
LEMMA StaysFound ==
  ASSUME Moves = {}, \A t \in CdPaths : t.rooted, PInv, [Next]_vars
  PROVE  PInv'
BY StaysTree, StaysPlain DEF PInv, TInv

\* The tree is what lookups find.
Found == {p \in Seq(Names) : Len(p) \in 1 .. MaxLoc - 1 /\ Find(Abs(p)).type \in {"dir", "file"}}
TreeIs == tree = {[path |-> p, type |-> Find(Abs(p)).type] : p \in Found}

\* It is, level by level.
LEMMA TreeIsThere ==
  ASSUME Sound(dirs, next), Variables, Named, Plain
  PROVE  TreeIs
<1>1. next \in Nat
  BY NextIsNat
<1>2. \A k \in 1 .. MaxLoc - 1 : FoundAt(k) /\ Level[k] \in SUBSET Node
  <2>1. \A k \in 1 .. MaxLoc - 1 : k \in 0 .. MaxLoc - 1
    BY Numbers
  <2>2. QED BY <1>1, <2>1, TreeIsFound, Levels
<1> DEFINE nodes == {[path |-> p, type |-> Find(Abs(p)).type] : p \in Found}
<1>3. ASSUME NEW x \in tree PROVE x \in nodes
  <2>1. PICK k \in 1 .. MaxLoc - 1 : x \in {[path |-> n.path, type |-> n.type] : n \in Level[k]}
    BY DEF tree
  <2>2. PICK n \in Level[k] : x = [path |-> n.path, type |-> n.type]
    BY <2>1
  <2>3. /\ n.path \in Seq(Names) /\ Len(n.path) = k /\ Find(Abs(n.path)).type = n.type
        /\ n.type \in {"dir", "file"}
    BY <1>2 DEF FoundAt, Node
  <2>4. n.path \in Found
    BY <2>3 DEF Found
  <2>5. QED BY <2>2, <2>3, <2>4
<1>4. ASSUME NEW x \in nodes PROVE x \in tree
  <2>1. PICK p \in Found : x = [path |-> p, type |-> Find(Abs(p)).type]
    OBVIOUS
  <2> DEFINE k == Len(p)
  <2>2. p \in Seq(Names) /\ k \in 1 .. MaxLoc - 1 /\ Find(Abs(p)) # NoEntry
    BY NoEntryOK DEF Found
  <2>3. PICK n \in Level[k] : n.path = p /\ n.type = Find(Abs(p)).type
    BY <1>2, <2>2 DEF FoundAt
  <2>4. x = [path |-> n.path, type |-> n.type]
    BY <2>1, <2>3
  <2> HIDE DEF k
  <2>5. QED BY <2>2, <2>4 DEF tree
<1>5. QED BY <1>3, <1>4 DEF TreeIs

\* Without mv, and with absolute arguments to cd, the lookup of an absolute path
\* of any length the tree may have finds what the tree has there, and nothing
\* else: through full directories, refused blocks, removals and crashes.
THEOREM LookupsFollow ==
  ASSUME Moves = {}, \A t \in CdPaths : t.rooted
  PROVE  Spec => []LookupFollowsTree
<1>1. ASSUME PInv PROVE LookupFollowsTree
  <2>1. /\ Sound(dirs, next) /\ Variables /\ Named /\ Plain
    BY <1>1 DEF PInv, TInv, DInv, IInv, Trees
  <2>2. TreeIs
    BY <2>1, TreeIsThere
  <2> DEFINE paths == UNION {[1 .. k -> Names] : k \in 1 .. MaxLoc - 1}
             nodes == {n \in [path : paths, type : {"dir", "file"}] : Find(Abs(n.path)).type = n.type}
  <2>3. \A p : p \in paths <=> p \in Seq(Names) /\ Len(p) \in 1 .. MaxLoc - 1
    <3>1. ASSUME NEW k \in 1 .. MaxLoc - 1, NEW p
          PROVE  p \in [1 .. k -> Names] <=> p \in Seq(Names) /\ Len(p) = k
      <4>1. k \in Nat
        BY Numbers
      <4>2. QED BY <4>1, IsASeq, LenProperties
    <3>2. QED BY <3>1
  <2> HIDE DEF paths
  <2>4. tree = nodes
    BY <2>2, <2>3 DEF TreeIs, Found
  <2>5. QED BY <2>4 DEF LookupFollowsTree, paths
<1>2. Init => PInv
  BY FormattedPlain
<1>3. PInv /\ [Next]_vars => PInv'
  BY StaysFound
<1>4. QED BY <1>1, <1>2, <1>3, PTL DEF Spec

\* What ls shows of a directory and lookups do not find.
LEMMA ShownNotFound ==
  ASSUME Sound(dirs, next), Variables, Unique, Plain, NEW q \in Seq(Names),
         Find(Abs(q)).type = "dir", NEW l \in Locs \cup {0}, Find(Abs(q)).loc = l
  PROVE  LET shown == fs_readdir(Array(l))
             found == {name \in Names : Find(Abs(Append(q, name))) # NoEntry}
         IN  /\ found \subseteq shown
             /\ Cardinality(shown \ found) =
                  IF IsWritten(Array(l)) /\ Len(Array(l)) > Capacity THEN 1 ELSE 0
<1> DEFINE dir   == Array(l)
           shown == fs_readdir(dir)
           found == {name \in Names : Find(Abs(Append(q, name))) # NoEntry}
<1>1. next \in Nat /\ Capacity \in Nat \ {0, 1}
  BY NextIsNat, Numbers
<1>2. Named
  BY DEF Unique, Named
<1>3. found = {dir[i].name : i \in Seen(dir)}
  <2>1. ASSUME NEW name \in found PROVE \E i \in Seen(dir) : name = dir[i].name
    <3>1. name \in Names /\ Find(Abs(Append(q, name))) # NoEntry
      OBVIOUS
    <3>2. l \in Locs /\ \E i \in Seen(Array(l)) : dirs[l][i].name = name
      BY <1>2, <3>1, FoundChild
    <3>3. Array(l) = dirs[l]
      BY <3>2, Numbers DEF Array, Locs
    <3>4. QED BY <3>2, <3>3
  <2>2. ASSUME NEW i \in Seen(dir) PROVE dir[i].name \in found
    <3>1. /\ l \in Locs /\ i \in Slots(dirs[l]) /\ dirs[l][i].name \in Names
          /\ Find(Abs(Append(q, dirs[l][i].name))).type = dirs[l][i].type
      BY <1>2, ChildFound
    <3>2. dirs[l][i].type # "none" /\ Array(l) = dirs[l]
      BY <3>1, Numbers DEF Plain, Array, Locs
    <3>3. Find(Abs(Append(q, dirs[l][i].name))) # NoEntry
      BY <3>1, <3>2, NoEntryOK
    <3>4. QED BY <3>1, <3>2, <3>3
  <2> HIDE DEF found, dir
  <2>3. QED BY <2>1, <2>2
<1>4. shown = {dir[i].name : i \in Slots(dir)}
  BY DEF fs_readdir, Slots
<1>5. IsWritten(dir) => l \in Locs /\ dir = dirs[l]
  BY DEF IsWritten, Array
<1>6. Len(dir) \in Nat
  BY EmptySeq, LenProperties DEF Array, Sound
<1>7. IsWritten(dir) => Len(dir) <= Capacity + 1
  BY <1>5 DEF Sound, ArrayOK
<1> HIDE DEF dir, found, shown
<1>8. CASE IsWritten(dir) /\ Len(dir) > Capacity
  <2>1. Len(dir) = Capacity + 1
    BY <1>1, <1>6, <1>7, <1>8
  <2>2. /\ Slots(dir) = Seen(dir) \cup {Capacity + 1} /\ Capacity + 1 \notin Seen(dir)
        /\ Capacity + 1 \in Slots(dir)
    BY <1>1, <1>8, <2>1 DEF Slots, Seen, Smaller
  <2>3. shown = found \cup {dir[Capacity + 1].name}
    BY <1>3, <1>4, <2>2
  <2>4. dir[Capacity + 1].name \notin found
    <3>1. ASSUME NEW i \in Seen(dir), dir[i].name = dir[Capacity + 1].name PROVE FALSE
      <4>1. i \in Slots(dirs[l]) /\ Capacity + 1 \in Slots(dirs[l]) /\ l \in Locs
        BY <1>5, <1>8, <2>2
      <4>2. i = Capacity + 1
        BY <1>5, <1>8, <3>1, <4>1 DEF Unique
      <4>3. QED BY <2>2, <4>2
    <3>2. QED BY <1>3, <3>1
  <2>5. shown \ found = {dir[Capacity + 1].name}
    BY <2>3, <2>4
  <2>6. Cardinality(shown \ found) = 1
    BY <2>5, FS_Singleton
  <2>7. QED BY <1>8, <2>3, <2>6 DEF dir, found, shown
<1>9. CASE ~ (IsWritten(dir) /\ Len(dir) > Capacity)
  <2>1. Slots(dir) = Seen(dir)
    BY <1>1, <1>6, <1>9 DEF Slots, Seen, Smaller
  <2>2. shown = found
    BY <1>3, <1>4, <2>1
  <2>3. Cardinality(shown \ found) = 0
    BY <2>2, FS_EmptySet
  <2>4. QED BY <1>9, <2>2, <2>3 DEF dir, found, shown
<1>10. QED BY <1>8, <1>9

\* When, besides, touch names files in the session's own directory, ls and
\* lookups agree on every directory of the tree, but for the one name behind the
\* last whole entry of an over-full one.
THEOREM ListingsAgree ==
  ASSUME Moves = {}, \A t \in CdPaths : t.rooted, OwnFiles
  PROVE  Spec => []ListingAgreesWithLookup
<1>1. ASSUME UInv, Plain PROVE ListingAgreesWithLookup
  <2>1. Sound(dirs, next) /\ Variables /\ next \in Nat /\ Unique /\ Named
    BY <1>1, NextIsNat DEF UInv, DInv, IInv, Unique, Named
  <2>2. ASSUME NEW k \in 0 .. MaxLoc - 1, NEW n \in Level[k], n.type = "dir"
        PROVE  LET shown == fs_readdir(Array(n.loc))
                   found == {name \in Names : Find(Abs(Append(n.path, name))) # NoEntry}
               IN  /\ found \subseteq shown
                   /\ Cardinality(shown \ found) =
                        IF IsWritten(Array(n.loc)) /\ Len(Array(n.loc)) > Capacity THEN 1 ELSE 0
    <3>1. FoundAt(k) /\ n.loc \in Locs \cup {0}
      BY <1>1, <2>1, TreeIsFound, Levels DEF Node
    <3>2. n.path \in Seq(Names) /\ Find(Abs(n.path)).type = "dir" /\ Find(Abs(n.path)).loc = n.loc
      BY <2>2, <3>1 DEF FoundAt
    <3>3. QED BY <1>1, <2>1, <3>1, <3>2, ShownNotFound
  <2>3. QED BY <2>2 DEF ListingAgreesWithLookup
<1>2. Init => UInv /\ Plain
  BY FormattedUnique, FormattedPlain DEF PInv
<1>3. UInv /\ Plain /\ [Next]_vars => UInv' /\ Plain'
  BY StaysUnique, StaysPlain DEF UInv
<1>4. QED BY <1>1, <1>2, <1>3, PTL DEF Spec

-----------------------------------------------------------------------------
(* The tree that the commands implement *)

\* A prefix, element by element.
LEMMA PrefixIs ==
  ASSUME NEW S, NEW r \in Seq(S), NEW p \in Seq(S)
  PROVE  IsPrefix(r, p) <=> Len(r) <= Len(p) /\ \A i \in 1 .. Len(r) : r[i] = p[i]
<1> DEFINE n == Len(r)
<1>1. n \in Nat /\ Len(p) \in Nat
  BY LenProperties
<1>2. ASSUME NEW s \in Seq(S), n <= Len(s)
      PROVE  /\ SubSeq(s, 1, n) \in Seq(S) /\ Len(SubSeq(s, 1, n)) = n
             /\ \A i \in 1 .. n : SubSeq(s, 1, n)[i] = s[i]
  <2>1. \A i \in 1 .. n : s[i] \in S
    <3>1. Len(s) \in Nat /\ \A i \in 1 .. n : i \in 1 .. Len(s)
      BY <1>1, <1>2, LenProperties
    <3>2. QED BY <3>1, ElementOfSeq
  <2>2. 1 \in Int /\ n \in Int
    BY <1>1
  <2> DEFINE f == SubSeq(s, 1, n)
  <2>3. /\ f \in Seq(S)
        /\ Len(f) = IF 1 <= n THEN n - 1 + 1 ELSE 0
        /\ \A i \in 1 .. n - 1 + 1 : f[i] = s[1 + i - 1]
    BY <2>1, <2>2, SubSeqProperties
  <2> HIDE DEF f, n
  <2>4. /\ n - 1 + 1 = n /\ (IF 1 <= n THEN n - 1 + 1 ELSE 0) = n
        /\ \A i \in 1 .. n : 1 + i - 1 = i
    BY <1>1
  <2>5. QED BY <2>3, <2>4 DEF f
<1> HIDE DEF n
<1>3. ASSUME n <= Len(p)
      PROVE  SubSeq(r, 1, n) = SubSeq(p, 1, n) <=> \A i \in 1 .. n : r[i] = p[i]
  <2> DEFINE a == SubSeq(r, 1, n)
             b == SubSeq(p, 1, n)
  <2>0. n <= Len(r)
    BY <1>1 DEF n
  <2>1. /\ a \in Seq(S) /\ Len(a) = n /\ \A i \in 1 .. n : a[i] = r[i]
    BY <1>2, <2>0
  <2>2. /\ b \in Seq(S) /\ Len(b) = n /\ \A i \in 1 .. n : b[i] = p[i]
    BY <1>2, <1>3
  <2> HIDE DEF a, b
  <2>3. a = b => \A i \in 1 .. n : r[i] = p[i]
    BY <2>1, <2>2
  <2>4. (\A i \in 1 .. n : r[i] = p[i]) => a = b
    BY <2>1, <2>2, SeqEqual
  <2>5. QED BY <2>3, <2>4 DEF a, b
<1>4. QED BY <1>3 DEF IsPrefix, n

\* What begins a sequence with one element more.
LEMMA Begins ==
  ASSUME NEW r \in Seq(Names), NEW q \in Seq(Names), NEW name \in Names
  PROVE  /\ IsPrefix(r, r) /\ Append(q, name) \in Seq(Names)
         /\ IsPrefix(r, Append(q, name)) <=> IsPrefix(r, q) \/ r = Append(q, name)
         /\ IsPrefix(r, <<>>) => r = <<>>
<1> DEFINE p == Append(q, name)
<1>1. /\ p \in Seq(Names) /\ Len(p) = Len(q) + 1 /\ Len(q) \in Nat /\ Len(r) \in Nat
      /\ \A i \in 1 .. Len(q) : p[i] = q[i]
  BY AppendProperties, LenProperties
<1> HIDE DEF p
<1>2. IsPrefix(r, r)
  BY <1>1, PrefixIs
<1>3. IsPrefix(r, p) <=> Len(r) <= Len(p) /\ \A i \in 1 .. Len(r) : r[i] = p[i]
  BY <1>1, PrefixIs
<1>4. IsPrefix(r, q) <=> Len(r) <= Len(q) /\ \A i \in 1 .. Len(r) : r[i] = q[i]
  BY PrefixIs
<1>5. CASE Len(r) <= Len(q)
  <2>1. Len(r) <= Len(p) /\ r # p /\ \A i \in 1 .. Len(r) : p[i] = q[i]
    BY <1>1, <1>5
  <2>2. IsPrefix(r, p) <=> IsPrefix(r, q)
    BY <1>3, <1>4, <1>5, <2>1
  <2>3. IsPrefix(r, <<>>) => r = <<>>
    <3>1. IsPrefix(r, <<>>) => Len(r) <= 0
      BY EmptySeq DEF IsPrefix
    <3>2. QED BY <1>1, <3>1, EmptySeq
  <2>4. QED BY <1>1, <1>2, <2>1, <2>2, <2>3 DEF p
<1>6. CASE ~ (Len(r) <= Len(q))
  <2>1. ~ IsPrefix(r, q)
    BY <1>4, <1>6
  <2>2. IsPrefix(r, p) => r = p
    <3>1. ASSUME IsPrefix(r, p) PROVE r = p
      <4>1. Len(r) = Len(p) /\ \A i \in 1 .. Len(r) : r[i] = p[i]
        BY <1>1, <1>3, <1>6, <3>1
      <4>2. QED BY <1>1, <4>1, SeqEqual
    <3>2. QED BY <3>1
  <2>3. r = p => IsPrefix(r, p)
    BY <1>2
  <2>4. ~ IsPrefix(r, <<>>)
    <3>1. IsPrefix(r, <<>>) => Len(r) <= 0
      BY EmptySeq DEF IsPrefix
    <3>2. QED BY <1>1, <1>6, <3>1
  <2>5. IsPrefix(r, p) <=> r = p
    BY <2>2, <2>3
  <2>6. IsPrefix(r, p) <=> IsPrefix(r, q) \/ r = p
    BY <2>1, <2>5
  <2>7. IsPrefix(r, <<>>) => r = <<>>
    BY <2>4
  <2>8. IsPrefix(r, Append(q, name)) <=> IsPrefix(r, q) \/ r = Append(q, name)
    BY <2>6 DEF p
  <2>9. IsPrefix(r, r) /\ Append(q, name) \in Seq(Names)
    BY <1>1, <1>2 DEF p
  <2>10. QED BY <2>7, <2>8, <2>9
<1>7. (Len(r) <= Len(q)) \/ ~ (Len(r) <= Len(q))
  OBVIOUS
<1>8. QED BY <1>5, <1>6, <1>7, Zenon

\* The directory a path of names leads to, and what a directory has of a name.
At(q) == IF Find(Abs(q)).type = "dir" THEN Find(Abs(q)).loc ELSE 0
Hit(name, l) ==
  LET i == find_file(name, Array(l)) IN IF i = 0 THEN NoEntry ELSE dirs[l][i]

\* No directory has more entries than lookups see.
Roomy == \A l \in Locs : IsWritten(dirs[l]) => Len(dirs[l]) <= Capacity

\* Lookups go from directory to directory, looking up the
\* next name in each.
Descends ==
  /\ At(<<>>) = RootLoc
  /\ \A q \in Seq(Names) :
       /\ At(q) \in Locs \cup {0} /\ At(q) < next /\ At(q) \notin Lost(dirs)
       /\ \A name \in Names : Find(Abs(Append(q, name))) = Hit(name, At(q))

\* What a lookup finds in a directory is listed there, and what is listed there
\* is found, a directory the same one.
Hits ==
  /\ \A name \in Names : Hit(name, 0) = NoEntry
  /\ \A l \in Locs : l \notin Lost(dirs) => \A name \in Names :
       /\ Hit(name, l) = NoEntry \/ \E j \in Slots(dirs[l]) :
            /\ dirs[l][j] = Hit(name, l) /\ dirs[l][j].name = name
            /\ dirs[l][j].type \in {"dir", "file"}
       /\ \A j \in Slots(dirs[l]) : dirs[l][j].name = name =>
            /\ Hit(name, l).type = dirs[l][j].type
            /\ dirs[l][j].type = "dir" => Hit(name, l).loc = dirs[l][j].loc

\* Both follow from the invariant.
LEMMA LookupFacts == PInv /\ Roomy => Descends /\ Hits
<1> SUFFICES ASSUME PInv, Roomy PROVE Descends /\ Hits
  OBVIOUS
<1>1. /\ Sound(dirs, next) /\ Variables /\ Named /\ Plain /\ next \in Nat \ {0, 1}
  BY NextIsNat DEF PInv, TInv, DInv, IInv, Trees
<1>2. Descends
  <2>1. At(<<>>) = RootLoc
    <3>1. Abs(<<>>) = Slash
      BY DEF Slash
    <3>2. QED BY <1>1, <3>1, RootIsFound DEF At
  <2>2. ASSUME NEW q \in Seq(Names)
        PROVE  /\ At(q) \in Locs \cup {0} /\ At(q) < next /\ At(q) \notin Lost(dirs)
               /\ \A name \in Names : Find(Abs(Append(q, name))) = Hit(name, At(q))
    <3>1. Abs(q) \in Text(Toks) /\ Abs(q).rooted = TRUE
      <4>1. Names \subseteq Toks
        BY DEF Toks
      <4>2. q \in Seq(Toks)
        BY <4>1, SeqMonotonic
      <4>3. QED BY <4>2 DEF Abs, Text
    <3>2. Follow(dirs, Abs(q)) = At(q)
      BY <1>1, <3>1, FollowIsFound DEF At
    <3>3. At(q) \in Locs \cup {0} /\ At(q) < next /\ At(q) \notin Lost(dirs)
      BY <1>1, <3>1, <3>2, FollowedSafe
    <3>4. \A name \in Names : Find(Abs(Append(q, name))) = Hit(name, At(q))
      BY <1>1, FoundBelow DEF At, Hit
    <3>5. QED BY <3>3, <3>4
  <2>3. QED BY <2>1, <2>2 DEF Descends
<1>3. ASSUME NEW name \in Names PROVE Hit(name, 0) = NoEntry
  <2>1. find_file(name, Array(0)) = 0
    <3>1. Array(0) = <<>> /\ ~ IsWritten(<<>>)
      BY DEF Array, IsWritten
    <3>2. QED BY <3>1, EmptySeq, FoundSlot
  <2>2. QED BY <2>1 DEF Hit
<1>4. ASSUME NEW l \in Locs, l \notin Lost(dirs), NEW name \in Names
      PROVE  /\ Hit(name, l) = NoEntry \/ \E j \in Slots(dirs[l]) :
                  /\ dirs[l][j] = Hit(name, l) /\ dirs[l][j].name = name
                  /\ dirs[l][j].type \in {"dir", "file"}
             /\ \A j \in Slots(dirs[l]) : dirs[l][j].name = name =>
                  /\ Hit(name, l).type = dirs[l][j].type
                  /\ dirs[l][j].type = "dir" => Hit(name, l).loc = dirs[l][j].loc
  <2> DEFINE i == find_file(name, Array(l))
  <2>1. Array(l) = dirs[l] /\ Hit(name, l) = IF i = 0 THEN NoEntry ELSE dirs[l][i]
    BY Numbers DEF Array, Hit, Locs
  <2>2. /\ Seen(Array(l)) \subseteq Slots(Array(l))
        /\ i # 0 => i \in Seen(Array(l)) /\ dirs[l][i].name = name
        /\ \A j \in Seen(Array(l)) : dirs[l][j].name = name =>
             /\ i # 0 /\ (dirs[l][i].type = "dir" <=> dirs[l][j].type = "dir")
             /\ dirs[l][j].type = "dir" => i = j
    BY <1>1, <1>4, FoundInDirectory
  <2>3. Seen(dirs[l]) = Slots(dirs[l])
    <3>1. Len(dirs[l]) \in Nat /\ Capacity \in Nat
      BY <1>1, Places, Numbers
    <3>2. IsWritten(dirs[l]) => Len(dirs[l]) <= Capacity
      BY DEF Roomy
    <3>3. QED BY <3>1, <3>2 DEF Seen, Slots, Smaller
  <2> HIDE DEF i
  <2>4. \A j \in Slots(dirs[l]) : dirs[l][j].type \in {"dir", "file"}
    BY <1>1 DEF Plain
  <2>5. Hit(name, l) = NoEntry \/ \E j \in Slots(dirs[l]) :
           /\ dirs[l][j] = Hit(name, l) /\ dirs[l][j].name = name
           /\ dirs[l][j].type \in {"dir", "file"}
    BY <2>1, <2>2, <2>3, <2>4
  <2>6. ASSUME NEW j \in Slots(dirs[l]), dirs[l][j].name = name
        PROVE  /\ Hit(name, l).type = dirs[l][j].type
               /\ dirs[l][j].type = "dir" => Hit(name, l).loc = dirs[l][j].loc
    <3>1. /\ i # 0 /\ (dirs[l][i].type = "dir" <=> dirs[l][j].type = "dir")
          /\ dirs[l][j].type = "dir" => i = j
      BY <2>1, <2>2, <2>3, <2>6
    <3>2. i \in Slots(dirs[l]) /\ Hit(name, l) = dirs[l][i]
      BY <2>1, <2>2, <2>3, <3>1
    <3>3. QED BY <2>4, <3>1, <3>2
  <2>7. QED BY <2>5, <2>6
<1>5. Hits
  BY <1>3, <1>4 DEF Hits
<1>6. QED BY <1>2, <1>5

\* Whatever holds at the root, and of what is below where it holds, holds of
\* every path.
LEMMA AllPaths ==
  ASSUME NEW T \in SUBSET Seq(Names), <<>> \in T,
         \A q \in T, name \in Names : Append(q, name) \in T
  PROVE  T = Seq(Names)
<1> DEFINE Bad == {Len(p) : p \in Seq(Names) \ T}
<1>1. ASSUME Bad # {} PROVE FALSE
  <2>1. Bad \in SUBSET Nat
    BY LenProperties
  <2>2. PICK n \in Bad : \A m \in Bad : n <= m
    <3> HIDE DEF Bad
    <3>1. QED BY <1>1, <2>1, LeastNat
  <2>3. PICK p \in Seq(Names) \ T : n = Len(p)
    BY <2>2
  <2>4. PICK q \in Seq(Names), name \in Names : p = Append(q, name)
    BY <2>3, SequenceEmptyOrAppend
  <2>5. Len(p) = Len(q) + 1 /\ Len(q) \in Nat
    BY <2>4, AppendProperties, LenProperties
  <2>6. q \in T
    <3>1. q \notin T => Len(q) \in Bad
      OBVIOUS
    <3> HIDE DEF Bad
    <3>2. QED BY <2>2, <2>3, <2>5, <3>1
  <2>7. QED BY <2>3, <2>4, <2>6
<1>2. QED BY <1>1

\* No directory is at the end of two paths.
OneWay == \A p, q \in Seq(Names) : At(p) = At(q) /\ At(p) # 0 => p = q

\* Where a directory contains nothing, nothing is found below it.
Barren ==
  \A cut \in Seq(Names) :
    (\A name \in Names : Find(Abs(Append(cut, name))) = NoEntry) =>
      \A p \in Seq(Names) : IsPrefix(cut, p) /\ p # cut => Find(Abs(p)) = NoEntry

\* What is known of a state.
Facts == Descends /\ Hits /\ OneWay /\ Barren /\ TreeIs

\* Nothing is found behind what is not there.
LEMMA BarrenBelow == Descends /\ Hits => Barren
<1> SUFFICES ASSUME Descends, Hits,
                    NEW cut \in Seq(Names),
                    \A name \in Names : Find(Abs(Append(cut, name))) = NoEntry
             PROVE  \A p \in Seq(Names) : IsPrefix(cut, p) /\ p # cut => Find(Abs(p)) = NoEntry
  BY DEF Barren
<1> DEFINE T == {p \in Seq(Names) : IsPrefix(cut, p) /\ p # cut => Find(Abs(p)) = NoEntry}
<1>1. <<>> \in T
  <2>1. <<>> \in Seq(Names)
    BY EmptySeq
  <2>2. ASSUME IsPrefix(cut, <<>>) PROVE <<>> = cut
    <3>1. Len(cut) <= 0 /\ Len(cut) \in Nat
      BY <2>2, EmptySeq, LenProperties DEF IsPrefix
    <3>2. QED BY <3>1, EmptySeq
  <2>3. QED BY <2>1, <2>2
<1>2. ASSUME NEW q \in T, NEW name \in Names PROVE Append(q, name) \in T
  <2> DEFINE p == Append(q, name)
  <2>1. q \in Seq(Names) /\ p \in Seq(Names) /\ (IsPrefix(cut, p) <=> IsPrefix(cut, q) \/ cut = p)
    BY Begins
  <2>2. ASSUME IsPrefix(cut, p), p # cut PROVE Find(Abs(p)) = NoEntry
    <3>1. CASE q = cut
      BY <3>1
    <3>2. CASE q # cut
      <4>1. Find(Abs(q)) = NoEntry
        BY <2>1, <2>2, <3>2
      <4>2. At(q) = 0
        BY <4>1, NoEntryOK DEF At
      <4>3. Find(Abs(p)) = Hit(name, 0)
        BY <2>1, <4>2 DEF Descends
      <4>4. QED BY <4>3 DEF Hits
    <3>3. QED BY <3>1, <3>2
  <2> HIDE DEF p
  <2>3. p \in T
    BY <2>1, <2>2
  <2>4. QED BY <2>3 DEF p
<1>3. T = Seq(Names)
  <2>1. T \in SUBSET Seq(Names)
    OBVIOUS
  <2> HIDE DEF T
  <2>2. QED BY <1>1, <1>2, <2>1, AllPaths
<1>4. QED BY <1>3

\* No directory is at the end of two paths, because it is listed once, and later
\* than the directory that lists it.
LEMMA OneWayThere ==
  ASSUME Sound(dirs, next), next \in Nat, Once, Later, Descends, Hits
  PROVE  OneWay
<1> DEFINE T == {p \in Seq(Names) : \A q \in Seq(Names) : At(p) = At(q) /\ At(p) # 0 => p = q}
<1>1. ASSUME NEW q \in Seq(Names), NEW name \in Names, At(Append(q, name)) # 0
      PROVE  /\ At(q) \in Locs /\ At(Append(q, name)) > At(q)
             /\ \E j \in Slots(dirs[At(q)]) :
                  dirs[At(q)][j].name = name /\ dirs[At(q)][j].loc = At(Append(q, name))
  <2> DEFINE p == Append(q, name)
             l == At(q)
  <2>1. Find(Abs(p)).type = "dir" /\ At(p) = Find(Abs(p)).loc
    BY <1>1 DEF At
  <2>2. Find(Abs(p)) = Hit(name, l) /\ l \in Locs \cup {0} /\ l \notin Lost(dirs)
    BY DEF Descends
  <2>3. Hit(name, l) # NoEntry
    BY <2>1, <2>2, NoEntryOK
  <2>4. l \in Locs
    BY <2>2, <2>3 DEF Hits
  <2> HIDE DEF l, p
  <2>5. PICK j \in Slots(dirs[l]) : dirs[l][j] = Hit(name, l) /\ dirs[l][j].name = name
    BY <2>2, <2>3, <2>4 DEF Hits
  <2>6. dirs[l][j].loc = At(p)
    BY <2>1, <2>2, <2>5
  <2>7. At(p) # 0
    BY <1>1 DEF p
  <2>8. At(p) > l
    BY <2>4, <2>6, <2>7 DEF Later
  <2>9. QED BY <2>4, <2>5, <2>6, <2>8 DEF l, p
<1>2. ASSUME NEW q \in Seq(Names), NEW name \in Names PROVE At(Append(q, name)) # RootLoc
  <2>1. ASSUME At(Append(q, name)) = RootLoc PROVE FALSE
    <3>1. RootLoc = 1 /\ Locs = 1 .. MaxLoc /\ MaxLoc \in Nat
      BY Numbers DEF RootLoc, Locs
    <3>2. At(q) \in Locs /\ RootLoc > At(q)
      BY <1>1, <2>1, <3>1
    <3>3. QED BY <3>1, <3>2
  <2>2. QED BY <2>1
<1>3. At(<<>>) = RootLoc /\ <<>> \in Seq(Names)
  BY EmptySeq DEF Descends
<1>4. <<>> \in T
  <2>1. ASSUME NEW q \in Seq(Names), At(q) = RootLoc PROVE q = <<>>
    BY <1>2, <2>1, SequenceEmptyOrAppend
  <2>2. QED BY <1>3, <2>1
<1>5. ASSUME NEW r \in T, NEW name \in Names PROVE Append(r, name) \in T
  <2> DEFINE p == Append(r, name)
  <2>1. r \in Seq(Names) /\ p \in Seq(Names)
    BY AppendProperties
  <2>2. ASSUME NEW q \in Seq(Names), At(p) = At(q), At(p) # 0 PROVE p = q
    <3>1. q # <<>>
      BY <1>2, <1>3, <2>1, <2>2
    <3>2. PICK s \in Seq(Names), other \in Names : q = Append(s, other)
      BY <3>1, SequenceEmptyOrAppend
    <3> HIDE DEF T
    <3>3. PICK i \in Slots(dirs[At(r)]) :
            dirs[At(r)][i].name = name /\ dirs[At(r)][i].loc = At(p)
      BY <1>1, <2>1, <2>2
    <3>4. PICK j \in Slots(dirs[At(s)]) :
            dirs[At(s)][j].name = other /\ dirs[At(s)][j].loc = At(q)
      BY <1>1, <2>2, <3>2
    <3>5. At(r) \in Locs /\ At(s) \in Locs
      BY <1>1, <2>1, <2>2, <3>2
    <3>6. At(r) = At(s) /\ i = j
      BY <2>2, <3>3, <3>4, <3>5 DEF Once
    <3>7. name = other
      BY <3>3, <3>4, <3>6
    <3>8. At(r) # 0
      BY <3>5, Numbers DEF Locs
    <3> USE DEF T
    <3>9. r = s
      BY <3>6, <3>8
    <3>10. QED BY <3>2, <3>7, <3>9
  <2> HIDE DEF p
  <2>3. p \in T
    BY <2>1, <2>2
  <2>4. QED BY <2>3 DEF p
<1>6. T = Seq(Names)
  <2>1. T \in SUBSET Seq(Names)
    OBVIOUS
  <2> HIDE DEF T
  <2>2. QED BY <1>4, <1>5, <2>1, AllPaths
<1>7. QED BY <1>6 DEF OneWay

\* All of it follows from the invariant.
LEMMA FactsHold == PInv /\ Roomy => Facts
<1> SUFFICES ASSUME PInv, Roomy PROVE Facts
  OBVIOUS
<1>1. /\ Sound(dirs, next) /\ Variables /\ next \in Nat /\ Once /\ Later /\ Named /\ Plain
  BY NextIsNat DEF PInv, TInv, DInv, IInv, Trees
<1>2. Descends /\ Hits
  BY LookupFacts
<1>3. QED BY <1>1, <1>2, BarrenBelow, OneWayThere, TreeIsThere DEF Facts

-----------------------------------------------------------------------------
(* What a step changes of it *)

\* Two entries that lookups tell apart by nothing but a file's location.
Same(x, y) == x.type = y.type /\ (x.type = "dir" => x.loc = y.loc)

\* What a directory lists under a name is the same after the step as before.
ListsSame(l, name) ==
  /\ \A i \in Slots(dirs[l]) : dirs[l][i].name = name =>
       \E j \in Slots(dirs'[l]) : dirs'[l][j].name = name /\ Same(dirs[l][i], dirs'[l][j])
  /\ \A j \in Slots(dirs'[l]) : dirs'[l][j].name = name =>
       \E i \in Slots(dirs[l]) : dirs[l][i].name = name /\ Same(dirs[l][i], dirs'[l][j])

\* Nothing but what the directory at here lists under the name nm changes.
OnlyAt(here, nm) ==
  \A l \in Locs, name \in Names : ListsSame(l, name) \/ (l = here /\ name = nm)

\* What a directory lists the same, lookups find the same.
LEMMA SameIsHit ==
  ASSUME Facts, Facts', NEW l \in Locs, l \notin Lost(dirs), l \notin Lost(dirs'),
         NEW name \in Names, ListsSame(l, name)
  PROVE  Same(Hit(name, l), Hit(name, l)')
<1>1. /\ Hit(name, l) = NoEntry \/ \E j \in Slots(dirs[l]) :
           /\ dirs[l][j] = Hit(name, l) /\ dirs[l][j].name = name
           /\ dirs[l][j].type \in {"dir", "file"}
      /\ \A j \in Slots(dirs[l]) : dirs[l][j].name = name =>
           /\ Hit(name, l).type = dirs[l][j].type
           /\ dirs[l][j].type = "dir" => Hit(name, l).loc = dirs[l][j].loc
  BY DEF Facts, Hits
<1>2. /\ Hit(name, l)' = NoEntry \/ \E j \in Slots(dirs'[l]) :
           /\ dirs'[l][j] = Hit(name, l)' /\ dirs'[l][j].name = name
           /\ dirs'[l][j].type \in {"dir", "file"}
      /\ \A j \in Slots(dirs'[l]) : dirs'[l][j].name = name =>
           /\ Hit(name, l)'.type = dirs'[l][j].type
           /\ dirs'[l][j].type = "dir" => Hit(name, l)'.loc = dirs'[l][j].loc
  BY DEF Facts, Hits
<1>3. CASE Hit(name, l) = NoEntry
  <2>1. ASSUME Hit(name, l)' # NoEntry PROVE FALSE
    <3>1. PICK j \in Slots(dirs'[l]) :
            dirs'[l][j].name = name /\ dirs'[l][j].type \in {"dir", "file"}
      BY <1>2, <2>1
    <3>2. PICK i \in Slots(dirs[l]) : dirs[l][i].name = name /\ dirs[l][i].type = dirs'[l][j].type
      BY <3>1 DEF ListsSame, Same
    <3>3. Hit(name, l).type = dirs[l][i].type
      BY <1>1, <3>2
    <3>4. QED BY <1>3, <3>1, <3>2, <3>3, NoEntryOK
  <2>2. QED BY <1>3, <2>1, NoEntryOK DEF Same
<1>4. CASE Hit(name, l) # NoEntry
  <2>1. PICK i \in Slots(dirs[l]) : dirs[l][i] = Hit(name, l) /\ dirs[l][i].name = name
    BY <1>1, <1>4
  <2>2. PICK j \in Slots(dirs'[l]) : dirs'[l][j].name = name /\ Same(dirs[l][i], dirs'[l][j])
    BY <2>1 DEF ListsSame
  <2>3. /\ Hit(name, l)'.type = dirs'[l][j].type
        /\ dirs'[l][j].type = "dir" => Hit(name, l)'.loc = dirs'[l][j].loc
    BY <1>2, <2>2
  <2>4. QED BY <2>1, <2>2, <2>3 DEF Same
<1>5. QED BY <1>3, <1>4

\* When a step changes at most what one directory lists under one name, lookups
\* of paths that do not begin with that name in that directory find the same.
LEMMA Reach ==
  ASSUME Facts, Facts', NEW here, NEW nm, OnlyAt(here, nm)
  PROVE  \A p \in Seq(Names) :
           \/ \E q \in Seq(Names) : At(q) = here /\ nm \in Names /\ IsPrefix(Append(q, nm), p)
           \/ Same(Find(Abs(p)), Find(Abs(p))')
<1> DEFINE Behind(p) == \E q \in Seq(Names) : At(q) = here /\ nm \in Names /\ IsPrefix(Append(q, nm), p)
           T == {p \in Seq(Names) : Behind(p) \/ Same(Find(Abs(p)), Find(Abs(p))')}
<1>1. <<>> \in T
  <2>1. RootLoc # 0 /\ <<>> \in Seq(Names)
    BY EmptySeq DEF RootLoc
  <2>2. Find(Abs(<<>>)).type = "dir" /\ Find(Abs(<<>>)).loc = RootLoc
    BY <2>1 DEF Facts, Descends, At
  <2>3. Find(Abs(<<>>))'.type = "dir" /\ Find(Abs(<<>>))'.loc = RootLoc
    BY <2>1 DEF Facts, Descends, At
  <2>4. QED BY <2>1, <2>2, <2>3 DEF Same
<1>2. ASSUME NEW p \in T, NEW name \in Names PROVE Append(p, name) \in T
  <2> DEFINE s == Append(p, name)
  <2>1. p \in Seq(Names) /\ s \in Seq(Names)
    BY AppendProperties
  <2>2. CASE Behind(p)
    <3>1. PICK q \in Seq(Names) : At(q) = here /\ nm \in Names /\ IsPrefix(Append(q, nm), p)
      BY <2>2
    <3>2. Append(q, nm) \in Seq(Names)
      BY <3>1, AppendProperties
    <3>3. IsPrefix(Append(q, nm), s)
      BY <2>1, <3>1, <3>2, Begins
    <3>4. QED BY <2>1, <3>1, <3>3
  <2>3. CASE Same(Find(Abs(p)), Find(Abs(p))')
    <3>1. At(p) \in Locs \cup {0}
      BY <2>1 DEF Facts, Descends
    <3>2. PICK l \in Locs \cup {0} : l = At(p)
      BY <3>1
    <3>3. At(p)' = l
      BY <2>3, <3>2 DEF At, Same
    <3>4. l \notin Lost(dirs) /\ Find(Abs(s)) = Hit(name, l)
      BY <2>1, <3>2 DEF Facts, Descends
    <3>5. At(p)' \notin Lost(dirs') /\ Find(Abs(s))' = Hit(name, At(p))'
      BY <2>1 DEF Facts, Descends
    <3>6. Hit(name, At(p))' = Hit(name, l)'
      BY <3>3 DEF Hit, Array
    <3>7. Find(Abs(s))' = Hit(name, l)' /\ l \notin Lost(dirs')
      BY <3>3, <3>5, <3>6
    <3> SUFFICES Behind(s) \/ Same(Find(Abs(s)), Find(Abs(s))')
      BY <2>1
    <3> HIDE DEF s
    <3>8. CASE l = 0
      <4>1. Hit(name, 0) = NoEntry
        BY DEF Facts, Hits
      <4>2. Hit(name, 0)' = NoEntry
        BY DEF Facts, Hits
      <4>3. Find(Abs(s)) = NoEntry /\ Find(Abs(s))' = NoEntry
        BY <3>4, <3>7, <3>8, <4>1, <4>2
      <4>4. Same(Find(Abs(s)), Find(Abs(s))')
        BY <4>3 DEF Same
      <4>5. QED BY <4>4
    <3>9. CASE l \in Locs /\ ListsSame(l, name)
      <4>1. Same(Hit(name, l), Hit(name, l)')
        BY <3>4, <3>7, <3>9, SameIsHit
      <4>2. Same(Find(Abs(s)), Find(Abs(s))')
        BY <3>4, <3>7, <4>1
      <4>3. QED BY <4>2
    <3>10. CASE l = here /\ name = nm
      <4>1. IsPrefix(s, s)
        BY <2>1, Begins
      <4>2. At(p) = here /\ nm \in Names /\ s = Append(p, nm)
        BY <3>2, <3>10 DEF s
      <4>3. QED BY <2>1, <4>1, <4>2
    <3>11. QED BY <3>2, <3>8, <3>9, <3>10 DEF OnlyAt
  <2>4. QED BY <2>2, <2>3
<1>3. T = Seq(Names)
  <2>1. T \in SUBSET Seq(Names)
    OBVIOUS
  <2> HIDE DEF T
  <2>2. QED BY <1>1, <1>2, <2>1, AllPaths
<1>4. QED BY <1>3

\* When every directory lists the same, the tree stays as it is.
LEMMA SameEverywhere ==
  ASSUME Facts, Facts', \A p \in Seq(Names) : Same(Find(Abs(p)), Find(Abs(p))')
  PROVE  tree' = tree
<1>1. Found' = Found
  BY DEF Found, Same
<1>2. \A p \in Found : Find(Abs(p))'.type = Find(Abs(p)).type
  BY DEF Found, Same
<1>3. tree' = {[path |-> p, type |-> Find(Abs(p))'.type] : p \in Found'}
  BY DEF Facts, TreeIs
<1>4. tree = {[path |-> p, type |-> Find(Abs(p)).type] : p \in Found}
  BY DEF Facts, TreeIs
<1>5. QED BY <1>1, <1>2, <1>3, <1>4

\* The tree stays when lookups do not come to the one directory that changes.
LEMMA NotReached ==
  ASSUME Facts, Facts', NEW here, NEW nm, OnlyAt(here, nm),
         \A q \in Seq(Names) : At(q) # here
  PROVE  tree' = tree
BY Reach, SameEverywhere

\* It stays when the step leaves all that is listed as it was.
LEMMA NothingMoves ==
  ASSUME Facts, Facts', \A l \in Locs, name \in Names : ListsSame(l, name)
  PROVE  tree' = tree
<1>1. \A q \in Seq(Names) : At(q) # -1
  <2>1. -1 \notin Locs \cup {0}
    BY Numbers DEF Locs
  <2>2. QED BY <2>1 DEF Facts, Descends
<1>2. OnlyAt(-1, NoName)
  BY DEF OnlyAt
<1>3. QED BY <1>1, <1>2, NotReached

\* When one changes, at the end of a path, what lookups find changes only behind
\* that path and the name that is changed.
LEMMA Pivot ==
  ASSUME Facts, Facts', NEW here \in Locs, NEW nm \in Names, OnlyAt(here, nm),
         NEW q \in Seq(Names), At(q) = here
  PROVE  LET cut == Append(q, nm)
         IN  /\ cut \in Seq(Names) /\ Len(cut) = Len(q) + 1 /\ Len(q) \in Nat
             /\ here \notin Lost(dirs) /\ here \notin Lost(dirs')
             /\ Find(Abs(cut)) = Hit(nm, here) /\ Find(Abs(cut))' = Hit(nm, here)'
             /\ Find(Abs(q)).type = "dir" /\ Find(Abs(q))'.type = "dir"
             /\ \A p \in Seq(Names) : IsPrefix(cut, p) \/ Same(Find(Abs(p)), Find(Abs(p))')
<1> DEFINE cut == Append(q, nm)
<1>1. cut \in Seq(Names) /\ Len(cut) = Len(q) + 1 /\ Len(q) \in Nat
  BY AppendProperties, LenProperties
<1>2. here # 0
  BY Numbers DEF Locs
<1>3. \A p \in Seq(Names) : IsPrefix(cut, p) \/ Same(Find(Abs(p)), Find(Abs(p))')
  <2>1. ASSUME NEW p \in Seq(Names), NEW r \in Seq(Names), At(r) = here
        PROVE  r = q
    BY <1>2, <2>1 DEF Facts, OneWay
  <2>2. QED BY <2>1, Reach
<1>4. ~ IsPrefix(cut, q)
  <2> HIDE DEF cut
  <2>1. ~ (Len(cut) <= Len(q))
    BY <1>1
  <2>2. QED BY <2>1 DEF IsPrefix
<1>5. Same(Find(Abs(q)), Find(Abs(q))')
  BY <1>3, <1>4
<1>6. At(q)' = here /\ Find(Abs(q)).type = "dir" /\ Find(Abs(q))'.type = "dir"
  BY <1>2, <1>5 DEF At, Same
<1>7. here \notin Lost(dirs) /\ Find(Abs(cut)) = Hit(nm, here)
  BY DEF Facts, Descends
<1>8. At(q)' \notin Lost(dirs') /\ Find(Abs(cut))' = Hit(nm, At(q))'
  BY DEF Facts, Descends
<1>9. Hit(nm, At(q))' = Hit(nm, here)'
  BY <1>6 DEF Hit, Array
<1>10. here \notin Lost(dirs') /\ Find(Abs(cut))' = Hit(nm, here)'
  BY <1>6, <1>8, <1>9
<1> HIDE DEF cut
<1>11. QED BY <1>1, <1>3, <1>6, <1>7, <1>10 DEF cut

\* A new name at the end of a path makes one leaf of the tree.
LEMMA Growth ==
  ASSUME Facts, Facts', NEW q \in Seq(Names), NEW nm \in Names, NEW cut \in Seq(Names),
         cut = Append(q, nm), Len(cut) = Len(q) + 1, Len(q) \in Nat,
         Find(Abs(q)).type = "dir",
         Find(Abs(cut)) = NoEntry, Find(Abs(cut))'.type \in {"dir", "file"},
         \A name \in Names : Find(Abs(Append(cut, name)))' = NoEntry,
         \A p \in Seq(Names) : IsPrefix(cut, p) \/ Same(Find(Abs(p)), Find(Abs(p))')
  PROVE  tree' = tree \/ Tree!Add(tree, tree')
<1> DEFINE type == Find(Abs(cut))'.type
           leaf == [path |-> cut, type |-> type]
<1>1. /\ tree = {[path |-> p, type |-> Find(Abs(p)).type] : p \in Found}
      /\ tree' = {[path |-> p, type |-> Find(Abs(p))'.type] : p \in Found'}
  BY DEF Facts, TreeIs
<1>2. \A p \in Seq(Names) : IsPrefix(cut, p) /\ p # cut => Find(Abs(p)) = NoEntry
  <2>1. At(cut) = 0
    BY NoEntryOK DEF At
  <2>2. \A name \in Names : Find(Abs(Append(cut, name))) = Hit(name, 0)
    BY <2>1 DEF Facts, Descends
  <2>3. \A name \in Names : Hit(name, 0) = NoEntry
    BY DEF Facts, Hits
  <2>4. QED BY <2>2, <2>3 DEF Facts, Barren
<1>3. \A p \in Seq(Names) : IsPrefix(cut, p) /\ p # cut => Find(Abs(p))' = NoEntry
  BY DEF Facts, Barren
<1>4. cut \notin Found
  BY NoEntryOK DEF Found
<1>5. ASSUME NEW p \in Seq(Names), p # cut
      PROVE  /\ p \in Found <=> p \in Found'
             /\ p \in Found => Find(Abs(p)).type = Find(Abs(p))'.type
  <2>1. CASE IsPrefix(cut, p)
    BY <1>2, <1>3, <1>5, <2>1, NoEntryOK DEF Found
  <2>2. CASE Same(Find(Abs(p)), Find(Abs(p))')
    BY <2>2 DEF Found, Same
  <2>3. QED BY <2>1, <2>2
<1>6. Found \subseteq Seq(Names) /\ Found' \subseteq Seq(Names)
  BY DEF Found
<1> HIDE DEF leaf, type
<1>7. CASE cut \notin Found'
  <2>1. \A p : p \in Found' <=> p \in Found
    BY <1>4, <1>5, <1>6, <1>7
  <2>2. Found' = Found /\ \A p \in Found : Find(Abs(p)).type = Find(Abs(p))'.type
    BY <1>4, <1>5, <1>6, <2>1
  <2>3. QED BY <1>1, <2>2
<1>8. CASE cut \in Found'
  <2>1. /\ Found' = Found \cup {cut}
        /\ \A p \in Found : Find(Abs(p)).type = Find(Abs(p))'.type
    BY <1>4, <1>5, <1>6, <1>8
  <2>2. tree' = tree \cup {leaf}
    <3>1. {[path |-> p, type |-> Find(Abs(p))'.type] : p \in Found'} =
            {[path |-> p, type |-> Find(Abs(p))'.type] : p \in Found} \cup {leaf}
      BY <2>1 DEF leaf, type
    <3>2. {[path |-> p, type |-> Find(Abs(p))'.type] : p \in Found} =
            {[path |-> p, type |-> Find(Abs(p)).type] : p \in Found}
      BY <2>1
    <3>3. QED BY <1>1, <3>1, <3>2
  <2>3. ASSUME NEW m \in tree PROVE m.path # cut
    <3>1. PICK p \in Found : m = [path |-> p, type |-> Find(Abs(p)).type]
      BY <1>1
    <3>2. QED BY <1>4, <3>1
  <2>4. leaf \in tree' \ tree /\ leaf.path = cut /\ leaf.type \in {"dir", "file"}
    BY <2>2, <2>3 DEF leaf, type
  <2>5. Tree!Last(cut) = nm /\ Tree!Front(cut) = q
    BY FrontAppended DEF Tree!Last, Last, Tree!Front, Front
  <2>6. q = <<>> \/ [path |-> q, type |-> "dir"] \in tree
    <3>1. ASSUME q # <<>> PROVE q \in Found
      <4>1. Len(q) # 0
        BY <3>1, EmptySeq
      <4>2. Len(cut) \in 1 .. MaxLoc - 1
        BY <1>8 DEF Found
      <4>3. Len(q) \in 1 .. MaxLoc - 1
        BY <4>1, <4>2, Numbers
      <4>4. QED BY <4>3 DEF Found
    <3>2. QED BY <1>1, <3>1
  <2>7. Tree!IsDir(q, tree)
    BY <2>6 DEF Tree!IsDir
  <2>8. Tree!Add(tree, tree')
    BY <2>2, <2>3, <2>4, <2>5, <2>7 DEF Tree!Add, Tree!Types
  <2>9. QED BY <2>8
<1>9. QED BY <1>7, <1>8

\* A name gone from the end of a path takes one subtree away.
LEMMA Shrinkage ==
  ASSUME Facts, Facts', NEW cut \in Seq(Names), Len(cut) \in Nat \ {0},
         Find(Abs(cut)).type \in {"dir", "file"}, Find(Abs(cut))' = NoEntry,
         \A p \in Seq(Names) : IsPrefix(cut, p) \/ Same(Find(Abs(p)), Find(Abs(p))')
  PROVE  tree' = tree \/ Tree!Prune(tree, tree')
<1>1. /\ tree = {[path |-> p, type |-> Find(Abs(p)).type] : p \in Found}
      /\ tree' = {[path |-> p, type |-> Find(Abs(p))'.type] : p \in Found'}
  BY DEF Facts, TreeIs
<1>2. \A p \in Seq(Names) : IsPrefix(cut, p) => Find(Abs(p))' = NoEntry
  <2>1. At(cut)' = 0
    BY NoEntryOK DEF At
  <2>2. \A name \in Names : Find(Abs(Append(cut, name)))' = Hit(name, At(cut))'
    BY DEF Facts, Descends
  <2>3. \A name \in Names : Hit(name, At(cut))' = Hit(name, 0)'
    BY <2>1 DEF Hit, Array
  <2>4. \A name \in Names : Hit(name, 0)' = NoEntry
    BY DEF Facts, Hits
  <2>5. \A name \in Names : Find(Abs(Append(cut, name)))' = NoEntry
    BY <2>2, <2>3, <2>4
  <2>6. QED BY <2>5 DEF Facts, Barren
<1>3. Found \subseteq Seq(Names) /\ Found' \subseteq Seq(Names)
  BY DEF Found
<1>4. ASSUME NEW p \in Found'
      PROVE  /\ p \in Found /\ ~ IsPrefix(cut, p) /\ Find(Abs(p)).type = Find(Abs(p))'.type
  <2>1. ~ IsPrefix(cut, p)
    BY <1>2, <1>3, NoEntryOK DEF Found
  <2>2. QED BY <1>3, <2>1 DEF Found, Same
<1>5. ASSUME NEW p \in Found, ~ IsPrefix(cut, p)
      PROVE  p \in Found' /\ Find(Abs(p)).type = Find(Abs(p))'.type
  BY <1>3, <1>5 DEF Found, Same
<1>6. tree' \subseteq tree
  BY <1>1, <1>4
<1>7. CASE cut \in Found
  <2> DEFINE root == [path |-> cut, type |-> Find(Abs(cut)).type]
  <2>1. root \in tree
    BY <1>1, <1>7
  <2>2. ASSUME NEW n \in tree'
        PROVE  /\ n.path \in Found' /\ n = [path |-> n.path, type |-> Find(Abs(n.path))'.type]
               /\ Tree!IsDir(Tree!Front(n.path), tree')
    <3>1. PICK p \in Found' : n = [path |-> p, type |-> Find(Abs(p))'.type]
      BY <1>1
    <3>2. p \in Seq(Names) /\ Len(p) \in 1 .. MaxLoc - 1 /\ Find(Abs(p))' # NoEntry
      BY <3>1, NoEntryOK DEF Found
    <3>3. PICK q \in Seq(Names), name \in Names : p = Append(q, name)
      BY <3>2, EmptySeq, SequenceEmptyOrAppend
    <3>4. Tree!Front(p) = q
      BY <3>3, FrontAppended DEF Tree!Front, Front
    <3>5. Find(Abs(q))'.type = "dir"
      <4>1. ASSUME Find(Abs(q))'.type # "dir" PROVE FALSE
        <5>1. At(q)' = 0
          BY <4>1 DEF At
        <5>2. Find(Abs(p))' = Hit(name, At(q))'
          BY <3>3 DEF Facts, Descends
        <5>3. Hit(name, At(q))' = Hit(name, 0)'
          BY <5>1 DEF Hit, Array
        <5>4. Hit(name, 0)' = NoEntry
          BY DEF Facts, Hits
        <5>5. QED BY <3>2, <5>2, <5>3, <5>4
      <4>2. QED BY <4>1
    <3>6. q = <<>> \/ q \in Found'
      <4>1. Len(p) = Len(q) + 1 /\ Len(q) \in Nat
        BY <3>3, AppendProperties, LenProperties
      <4>2. q # <<>> => Len(q) # 0
        BY EmptySeq
      <4>3. q # <<>> => Len(q) \in 1 .. MaxLoc - 1
        BY <3>2, <4>1, <4>2, Numbers
      <4>4. QED BY <3>5, <4>3 DEF Found
    <3>7. q # <<>> => [path |-> q, type |-> "dir"] \in tree'
      BY <1>1, <3>5, <3>6
    <3>8. Tree!IsDir(q, tree')
      BY <3>7 DEF Tree!IsDir
    <3>9. QED BY <3>1, <3>4, <3>8
  <2>3. root \notin tree'
    <3>1. IsPrefix(cut, cut)
      BY PrefixIs, LenProperties
    <3>2. cut \notin Found'
      BY <1>4, <3>1
    <3>3. root \in tree' => root.path \in Found'
      BY <2>2
    <3>4. QED BY <3>2, <3>3
  <2>4. ASSUME NEW n \in tree \ tree' PROVE Tree!IsPrefix(root.path, n.path)
    <3>1. PICK p \in Found : n = [path |-> p, type |-> Find(Abs(p)).type]
      BY <1>1
    <3>2. ASSUME ~ IsPrefix(cut, p) PROVE FALSE
      <4>1. p \in Found' /\ Find(Abs(p)).type = Find(Abs(p))'.type
        BY <1>5, <3>2
      <4>2. n \in tree'
        BY <1>1, <3>1, <4>1
      <4>3. QED BY <4>2
    <3>3. Tree!IsPrefix(cut, p)
      BY <3>2 DEF IsPrefix, Tree!IsPrefix
    <3>4. QED BY <3>1, <3>3
  <2> HIDE DEF root
  <2>5. root \in tree \ tree'
    BY <2>1, <2>3
  <2>6. Tree!Prune(tree, tree')
    BY <1>6, <2>2, <2>4, <2>5 DEF Tree!Prune
  <2>7. QED BY <2>6
<1>8. CASE cut \notin Found
  <2>1. ASSUME NEW n \in tree PROVE n \in tree'
    <3>1. PICK p \in Found : n = [path |-> p, type |-> Find(Abs(p)).type]
      BY <1>1
    <3>2. ~ IsPrefix(cut, p)
      <4>1. ASSUME IsPrefix(cut, p) PROVE FALSE
        <5>1. Len(cut) <= Len(p)
          BY <4>1 DEF IsPrefix
        <5>2. Len(p) \in 1 .. MaxLoc - 1
          BY DEF Found
        <5>3. Len(cut) \in 1 .. MaxLoc - 1
          BY <5>1, <5>2, Numbers
        <5>4. QED BY <1>8, <5>3 DEF Found
      <4>2. QED BY <4>1
    <3>3. p \in Found' /\ Find(Abs(p)).type = Find(Abs(p))'.type
      BY <1>5, <3>2
    <3>4. QED BY <1>1, <3>1, <3>3
  <2>2. QED BY <1>6, <2>1
<1>9. QED BY <1>7, <1>8

\* An entry put behind the last one makes at most a leaf.
LEMMA AddGrows ==
  ASSUME Sound(dirs, next), next \in Nat, Plain, Facts, Facts', Named', NEW l, NEW e, Adds(l, e),
         e.type \in {"dir", "file"}, e.type = "dir" => Fresh(l, e)
  PROVE  tree' = tree \/ Tree!Add(tree, tree')
<1> DEFINE n  == Len(dirs[l]) + 1
           nm == e.name
<1>1. /\ l \in Locs /\ l < next /\ \A k \in Locs : k # l => dirs'[k] = dirs[k]
      /\ Slots(dirs'[l]) = Slots(dirs[l]) \cup {n} /\ n \notin Slots(dirs[l])
      /\ dirs'[l][n] = e /\ \A i \in Slots(dirs[l]) : dirs'[l][i] = dirs[l][i]
  BY Added
<1>2. nm \in Names /\ e.loc \in {0, next} /\ e.loc \in Locs \cup {0}
  BY DEF Adds, Entry
<1> HIDE DEF n
<1>3. OnlyAt(l, nm)
  BY <1>1 DEF OnlyAt, ListsSame, Same
<1>4. CASE \E i \in Slots(dirs[l]) : dirs[l][i].name = nm
  <2>1. PICK i \in Slots(dirs[l]) : dirs[l][i].name = nm
    BY <1>4
  <2>2. e.type = "file"
    BY <2>1 DEF Fresh
  <2>3. dirs[l][i].type = "file"
    <3>1. i \in Slots(dirs'[l]) /\ dirs'[l][i] = dirs[l][i] /\ n \in Slots(dirs'[l]) /\ i # n
      BY <1>1
    <3>2. QED BY <1>1, <2>1, <3>1 DEF Named, Plain
  <2>4. ListsSame(l, nm)
    <3>1. ASSUME NEW j \in Slots(dirs'[l]), dirs'[l][j].name = nm
          PROVE  \E k \in Slots(dirs[l]) : dirs[l][k].name = nm /\ Same(dirs[l][k], dirs'[l][j])
      <4>1. CASE j \in Slots(dirs[l])
        BY <1>1, <3>1, <4>1 DEF Same
      <4>2. CASE j = n
        <5>1. dirs'[l][j].type = "file"
          BY <1>1, <2>2, <4>2
        <5>2. Same(dirs[l][i], dirs'[l][j])
          BY <2>3, <5>1 DEF Same
        <5>3. QED BY <2>1, <5>2
      <4>3. QED BY <1>1, <4>1, <4>2
    <3>2. \A k \in Slots(dirs[l]) : dirs[l][k].name = nm =>
            \E j \in Slots(dirs'[l]) : dirs'[l][j].name = nm /\ Same(dirs[l][k], dirs'[l][j])
      BY <1>1 DEF Same
    <3>3. QED BY <3>1, <3>2 DEF ListsSame
  <2>5. \A k \in Locs, name \in Names : ListsSame(k, name)
    BY <1>3, <2>4 DEF OnlyAt
  <2>6. QED BY <2>5, NothingMoves
<1>5. CASE /\ \A i \in Slots(dirs[l]) : dirs[l][i].name # nm
           /\ \E q \in Seq(Names) : At(q) = l
  <2>1. PICK q \in Seq(Names) : At(q) = l
    BY <1>5
  <2> DEFINE cut == Append(q, nm)
  <2>2. /\ cut \in Seq(Names) /\ Len(cut) = Len(q) + 1 /\ Len(q) \in Nat
        /\ l \notin Lost(dirs) /\ l \notin Lost(dirs')
        /\ Find(Abs(cut)) = Hit(nm, l) /\ Find(Abs(cut))' = Hit(nm, l)'
        /\ Find(Abs(q)).type = "dir"
        /\ \A p \in Seq(Names) : IsPrefix(cut, p) \/ Same(Find(Abs(p)), Find(Abs(p))')
    <3> HIDE DEF nm
    <3>1. QED BY <1>1, <1>2, <1>3, <2>1, Pivot
  <2>3. Find(Abs(cut)) = NoEntry
    BY <1>1, <1>2, <1>5, <2>2 DEF Facts, Hits
  <2>4. Find(Abs(cut))'.type = e.type /\ (e.type = "dir" => Find(Abs(cut))'.loc = e.loc)
    <3>1. n \in Slots(dirs'[l]) /\ dirs'[l][n].name = nm /\ dirs'[l][n] = e
      BY <1>1
    <3>2. \A j \in Slots(dirs'[l]) : dirs'[l][j].name = nm =>
            /\ Hit(nm, l)'.type = dirs'[l][j].type
            /\ dirs'[l][j].type = "dir" => Hit(nm, l)'.loc = dirs'[l][j].loc
      BY <1>1, <1>2, <2>2 DEF Facts, Hits
    <3>3. QED BY <2>2, <3>1, <3>2
  <2> HIDE DEF cut
  <2>5. ASSUME NEW name \in Names PROVE Find(Abs(Append(cut, name)))' = NoEntry
    <3>1. At(cut)' = IF e.type = "dir" THEN e.loc ELSE 0
      BY <2>4 DEF At
    <3>2. PICK k \in Locs \cup {0} : k = At(cut)' /\ k \in {0, next}
      BY <1>2, <3>1
    <3>3. Find(Abs(Append(cut, name)))' = Hit(name, At(cut))' /\ At(cut)' \notin Lost(dirs')
      BY <2>2 DEF Facts, Descends
    <3>4. Hit(name, At(cut))' = Hit(name, k)'
      BY <3>2 DEF Hit, Array
    <3>5. CASE k = 0
      <4>1. Hit(name, 0)' = NoEntry
        BY DEF Facts, Hits
      <4>2. QED BY <3>3, <3>4, <3>5, <4>1
    <3>6. CASE k \in Locs /\ k = next
      <4>1. dirs'[k] = <<>>
        <5>1. dirs[k] = <<>> /\ k # l
          BY <1>1, <3>6 DEF Sound
        <5>2. QED BY <1>1, <3>6, <5>1
      <4>2. Slots(dirs'[k]) = {}
        BY <4>1 DEF Slots, IsWritten
      <4>3. k \notin Lost(dirs')
        BY <3>2, <3>3
      <4>4. Hit(name, k)' = NoEntry
        BY <3>6, <4>2, <4>3 DEF Facts, Hits
      <4>5. QED BY <3>3, <3>4, <4>4
    <3>7. QED BY <3>2, <3>5, <3>6
  <2> HIDE DEF nm
  <2>6. cut = Append(q, nm)
    BY DEF cut
  <2>7. Find(Abs(cut))'.type \in {"dir", "file"}
    BY <2>4
  <2>8. \A name \in Names : Find(Abs(Append(cut, name)))' = NoEntry
    BY <2>5
  <2>9. QED BY <1>2, <2>2, <2>3, <2>6, <2>7, <2>8, Growth
<1>6. CASE \A q \in Seq(Names) : At(q) # l
  <2> HIDE DEF nm
  <2>1. QED BY <1>3, <1>6, NotReached
<1>7. QED BY <1>4, <1>5, <1>6

\* An entry taken out takes at most a subtree.
LEMMA TakeShrinks ==
  ASSUME Sound(dirs, next), next \in Nat, Named, Plain, Facts, Facts', NEW l, NEW i, Takes(l, i)
  PROVE  tree' = tree \/ Tree!Prune(tree, tree')
<1>0. PICK nm : nm = dirs[l][i].name
  OBVIOUS
<1>1. /\ l \in Locs /\ \A k \in Locs : k # l => dirs'[k] = dirs[k]
      /\ \A k \in Locs : IsWritten(dirs'[k]) <=> IsWritten(dirs[k])
      /\ \A j \in Slots(dirs'[l]) :
           Back(i, j) \in Slots(dirs[l]) /\ dirs'[l][j] = dirs[l][Back(i, j)]
  BY Taken
<1>2. i \in 3 .. Len(dirs[l]) /\ i \in Int /\ Len(dirs[l]) \in Nat
  BY <1>1, Places DEF Takes
<1>3. ASSUME NEW j \in Slots(dirs[l]), j # i
      PROVE  \E k \in Slots(dirs'[l]) : Back(i, k) = j
  <2> DEFINE dir == dirs[l]
             n   == Len(dir)
             new == RemoveAt(dir, i)
             k   == IF j < i THEN j ELSE j - 1
  <2>1. dirs'[l] = new /\ dir \in Seq(Entry) /\ i \in 1 .. n
    BY <1>1, <1>2 DEF Takes, Sound
  <2>2. Len(new) = n - 1
    <3> HIDE DEF dir
    <3>1. QED BY <2>1, RemovedAt
  <2>3. j \in 3 .. n /\ IsWritten(dir)
    BY <1>1 DEF Slots
  <2> HIDE DEF new, dir, n
  <2>4. n \in Nat
    BY <1>2 DEF n, dir
  <2>5. k \in 3 .. n - 1 /\ Back(i, k) = j
    BY <1>2, <1>3, <2>3, <2>4 DEF Back, n, dir
  <2>6. IsWritten(new)
    BY <1>1, <2>1, <2>3 DEF dir
  <2> HIDE DEF k
  <2>7. k \in Slots(new)
    BY <2>2, <2>5, <2>6 DEF Slots
  <2>8. QED BY <2>1, <2>5, <2>7
<1>4. ASSUME NEW j \in Slots(dirs'[l]) PROVE Back(i, j) # i
  <2>1. j \in Int
    BY DEF Slots
  <2>2. QED BY <1>2, <2>1 DEF Back
<1>5. OnlyAt(l, nm)
  <2>1. ASSUME NEW name \in Names, name # nm PROVE ListsSame(l, name)
    <3>1. ASSUME NEW j \in Slots(dirs[l]), dirs[l][j].name = name
          PROVE  \E k \in Slots(dirs'[l]) : dirs'[l][k].name = name /\ Same(dirs[l][j], dirs'[l][k])
      <4>1. PICK k \in Slots(dirs'[l]) : Back(i, k) = j
        BY <1>0, <1>3, <2>1, <3>1
      <4>2. dirs'[l][k] = dirs[l][j]
        BY <1>1, <4>1
      <4>3. QED BY <3>1, <4>2 DEF Same
    <3>2. ASSUME NEW j \in Slots(dirs'[l]), dirs'[l][j].name = name
          PROVE  \E k \in Slots(dirs[l]) : dirs[l][k].name = name /\ Same(dirs[l][k], dirs'[l][j])
      BY <1>1, <3>2 DEF Same
    <3>3. QED BY <3>1, <3>2 DEF ListsSame
  <2>2. ASSUME NEW k \in Locs, k # l, NEW name \in Names PROVE ListsSame(k, name)
    BY <1>1, <2>2 DEF ListsSame, Same
  <2>3. QED BY <2>1, <2>2 DEF OnlyAt
<1>6. CASE \/ ~ IsWritten(dirs[l])
           \/ \E j \in Slots(dirs[l]) : j # i /\ dirs[l][j].name = nm
  <2>1. ListsSame(l, nm)
    <3>1. CASE ~ IsWritten(dirs[l])
      <4>1. Slots(dirs[l]) = {} /\ Slots(dirs'[l]) = {}
        BY <1>1, <3>1 DEF Slots
      <4>2. QED BY <4>1 DEF ListsSame
    <3>2. CASE IsWritten(dirs[l]) /\ \E j \in Slots(dirs[l]) : j # i /\ dirs[l][j].name = nm
      <4>1. PICK j \in Slots(dirs[l]) : j # i /\ dirs[l][j].name = nm
        BY <3>2
      <4>2. i \in Slots(dirs[l])
        BY <1>2, <3>2 DEF Slots
      <4>3. dirs[l][i].type = "file" /\ dirs[l][j].type = "file"
        BY <1>0, <1>1, <4>1, <4>2 DEF Named, Plain
      <4>4. PICK k \in Slots(dirs'[l]) : Back(i, k) = j /\ dirs'[l][k] = dirs[l][j]
        BY <1>1, <1>3, <4>1
      <4>5. ASSUME NEW a \in Slots(dirs[l]), dirs[l][a].name = nm
            PROVE  \E b \in Slots(dirs'[l]) : dirs'[l][b].name = nm /\ Same(dirs[l][a], dirs'[l][b])
        <5>1. CASE a = i
          BY <4>1, <4>3, <4>4, <5>1 DEF Same
        <5>2. CASE a # i
          <6>1. PICK b \in Slots(dirs'[l]) : Back(i, b) = a
            BY <1>3, <5>2
          <6>2. dirs'[l][b] = dirs[l][a]
            BY <1>1, <6>1
          <6>3. QED BY <4>5, <6>2 DEF Same
        <5>3. QED BY <5>1, <5>2
      <4>6. ASSUME NEW b \in Slots(dirs'[l]), dirs'[l][b].name = nm
            PROVE  \E a \in Slots(dirs[l]) : dirs[l][a].name = nm /\ Same(dirs[l][a], dirs'[l][b])
        BY <1>1, <4>6 DEF Same
      <4>7. QED BY <4>5, <4>6 DEF ListsSame
    <3>3. QED BY <1>6, <3>1, <3>2
  <2>2. \A k \in Locs, name \in Names : ListsSame(k, name)
    BY <1>5, <2>1 DEF OnlyAt
  <2>3. QED BY <2>2, NothingMoves
<1>7. CASE /\ IsWritten(dirs[l]) /\ \A j \in Slots(dirs[l]) : j # i => dirs[l][j].name # nm
           /\ \E q \in Seq(Names) : At(q) = l
  <2>1. PICK q \in Seq(Names) : At(q) = l
    BY <1>7
  <2>2. i \in Slots(dirs[l])
    BY <1>2, <1>7 DEF Slots
  <2>3. nm \in Names /\ dirs[l][i].type \in {"dir", "file"}
    BY <1>0, <1>1, <2>2 DEF Plain
  <2>4. \A j \in Slots(dirs'[l]) : dirs'[l][j].name # nm
    BY <1>1, <1>4, <1>7
  <2> DEFINE cut == Append(q, nm)
  <2>5. /\ cut \in Seq(Names) /\ Len(cut) = Len(q) + 1 /\ Len(q) \in Nat
        /\ l \notin Lost(dirs) /\ l \notin Lost(dirs')
        /\ Find(Abs(cut)) = Hit(nm, l) /\ Find(Abs(cut))' = Hit(nm, l)'
        /\ \A p \in Seq(Names) : IsPrefix(cut, p) \/ Same(Find(Abs(p)), Find(Abs(p))')
    BY <1>1, <1>5, <2>1, <2>3, Pivot
  <2>6. Find(Abs(cut)).type \in {"dir", "file"}
    <3>1. \A j \in Slots(dirs[l]) : dirs[l][j].name = nm => Hit(nm, l).type = dirs[l][j].type
      BY <1>1, <2>3, <2>5 DEF Facts, Hits
    <3>2. QED BY <1>0, <2>2, <2>3, <2>5, <3>1
  <2>7. Find(Abs(cut))' = NoEntry
    <3>1. \/ Hit(nm, l)' = NoEntry
          \/ \E j \in Slots(dirs'[l]) : dirs'[l][j].name = nm
      BY <1>1, <2>3, <2>5 DEF Facts, Hits
    <3>2. QED BY <2>4, <2>5, <3>1
  <2> HIDE DEF cut
  <2>8. Len(cut) \in Nat \ {0}
    BY <2>5
  <2>9. QED BY <2>5, <2>6, <2>7, <2>8, Shrinkage
<1>8. CASE \A q \in Seq(Names) : At(q) # l
  BY <1>5, <1>8, NotReached
<1>9. QED BY <1>6, <1>7, <1>8

\* Every step adds a leaf, takes out paths of one subtree, or neither.
LEMMA StepOfTree ==
  ASSUME Moves = {}, \A t \in CdPaths : t.rooted, PInv, PInv', Facts, Facts', [Next]_vars
  PROVE  [Tree!Next]_tree
<1>1. /\ Sound(dirs, next) /\ next \in Nat /\ IInv /\ DInv /\ Named /\ Named' /\ Plain
  BY NextIsNat DEF PInv, TInv, DInv, IInv, Trees
<1>2. tree' = tree \/ Tree!Add(tree, tree') \/ Tree!Prune(tree, tree') => [Tree!Next]_tree
  BY DEF Tree!Next
<1>3. ASSUME \A k \in Locs : Slots(dirs'[k]) = Slots(dirs[k]),
             \A k \in Locs : \A i \in Slots(dirs[k]) : dirs'[k][i] = dirs[k][i]
      PROVE  tree' = tree
  <2>1. \A l \in Locs, name \in Names : ListsSame(l, name)
    BY <1>3 DEF ListsSame, Same
  <2>2. QED BY <2>1, NothingMoves
<1>4. dirs' = dirs => tree' = tree
  BY <1>3
<1>5. ASSUME NEW l, NEW new, Beside(l, new) PROVE tree' = tree
  BY <1>1, <1>3, <1>5, WrittenBeside
<1>6. CASE \E t \in MkdirPaths : fs_mkdir(t)
  <2>1. PICK t \in MkdirPaths : fs_mkdir(t)
    BY <1>6
  <2>2. \/ dirs' = dirs
        \/ \E l \in Locs, e \in Entry : Adds(l, e) /\ Fresh(l, e) /\ e.type = "dir"
        \/ \E new : Beside(next, new)
    BY <1>1, <2>1, MkdirWrites
  <2>3. ASSUME NEW l \in Locs, NEW e \in Entry, Adds(l, e), Fresh(l, e), e.type = "dir"
        PROVE  tree' = tree \/ Tree!Add(tree, tree')
    <3>1. e.type \in {"dir", "file"}
      BY <2>3
    <3>2. QED BY <1>1, <2>3, <3>1, AddGrows
  <2>4. QED BY <1>2, <1>4, <1>5, <2>2, <2>3
<1>7. CASE \E t \in TouchPaths : b_open(t)
  <2>1. PICK t \in TouchPaths : b_open(t)
    BY <1>7
  <2> DEFINE at == get_file_from_path(ParentOf(t)).loc
  <2>2. \/ dirs' = dirs
        \/ \E e \in Entry : Adds(at, e) /\ e.type = "file"
        \/ \E new : Beside(at, new)
    BY <1>1, <2>1, OpenWrites
  <2>3. PICK l : l = at
    OBVIOUS
  <2> HIDE DEF at
  <2>4. ASSUME NEW e \in Entry, Adds(l, e), e.type = "file"
        PROVE  tree' = tree \/ Tree!Add(tree, tree')
    <3>1. e.type \in {"dir", "file"} /\ e.type # "dir"
      BY <2>4
    <3>2. QED BY <1>1, <2>4, <3>1, AddGrows
  <2>5. QED BY <1>2, <1>4, <1>5, <2>2, <2>3, <2>4
<1>8. CASE (\E t \in RmPaths : cmd_rm(t)) \/ EndRemove
  <2>1. dirs' = dirs \/ \E l \in Locs : \E i \in 3 .. Len(dirs[l]) : Takes(l, i)
    BY <1>1, <1>8, RemovalWrites
  <2>2. QED BY <1>1, <1>2, <1>4, <2>1, TakeShrinks
<1>9. CASE WriteNewDir
  <2>1. \A k \in Locs : Slots(dirs'[k]) = Slots(dirs[k])
    BY <1>1, <1>9, NewDirWrites
  <2>2. \A k \in Locs : \A i \in Slots(dirs[k]) : dirs'[k][i] = dirs[k][i]
    BY <1>1, <1>9, NewDirWrites
  <2>3. QED BY <1>2, <1>3, <2>1, <2>2
<1>10. CASE \E m \in Moves : b_move(m[1], m[2])
  BY <1>10
<1>11. CASE \/ \E t \in RmPaths : fs_rmdir(t)
            \/ \E t \in CdPaths : fs_setcwd(t)
            \/ RemoveFile \/ RemoveSubdir \/ StackOverflow \/ Restart \/ Crash
            \/ UNCHANGED vars
  <2>1. dirs' = dirs
    BY <1>11 DEF fs_rmdir, fs_setcwd, RemoveFile, RemoveSubdir, StackOverflow, Restart, Crash, vars
  <2>2. QED BY <1>2, <1>4, <2>1
<1>12. QED
  BY <1>6, <1>7, <1>8, <1>9, <1>10, <1>11 DEF Next, Proceed

\* On a volume just formatted lookups find nothing below the root.
LEMMA FormattedEmpty ==
  ASSUME Init, Facts
  PROVE  tree = {}
<1>1. RootLoc \in Locs /\ At(<<>>) = RootLoc /\ <<>> \in Seq(Names)
  BY Numbers, EmptySeq DEF Facts, Descends, RootLoc, Locs
<1>2. RootLoc \notin Lost(dirs)
  BY <1>1 DEF Facts, Descends
<1>3. Slots(dirs[RootLoc]) = {}
  BY <1>1 DEF Init, Slots
<1>4. ASSUME NEW name \in Names PROVE Find(Abs(Append(<<>>, name))) = NoEntry
  <2>1. Find(Abs(Append(<<>>, name))) = Hit(name, RootLoc)
    BY <1>1 DEF Facts, Descends
  <2>2. Hit(name, RootLoc) = NoEntry
    BY <1>1, <1>2, <1>3 DEF Facts, Hits
  <2>3. QED BY <2>1, <2>2
<1>5. ASSUME NEW p \in Found PROVE FALSE
  <2>1. p \in Seq(Names) /\ Len(p) \in 1 .. MaxLoc - 1 /\ Find(Abs(p)) # NoEntry
    BY NoEntryOK DEF Found
  <2>2. p # <<>>
    BY <2>1, EmptySeq
  <2>3. IsPrefix(<<>>, p)
    <3>1. Len(<<>>) = 0 /\ Len(p) \in Nat
      BY EmptySeq, LenProperties
    <3>2. Len(<<>>) <= Len(p) /\ \A i \in 1 .. Len(<<>>) : <<>>[i] = p[i]
      BY <3>1
    <3>3. QED BY <1>1, <2>1, <3>2, PrefixIs
  <2>4. QED BY <1>1, <1>4, <2>1, <2>2, <2>3 DEF Facts, Barren
<1>6. QED BY <1>5 DEF Facts, TreeIs

\* Without mv, and with absolute arguments to cd, the commands implement the tree
\* of PathTree as long as no directory is over-full: a removal from one that is
\* brings the name behind the last whole entry into sight.
THEOREM CommandsImplementTree ==
  ASSUME Moves = {}, \A t \in CdPaths : t.rooted
  PROVE  Spec /\ []Roomy => ImplementsPathTree
<1>1. Init => PInv
  BY FormattedPlain
<1>2. PInv /\ [Next]_vars => PInv'
  BY StaysFound
<1>3. PInv /\ Roomy => Facts
  BY FactsHold
<1>4. Init /\ Facts => Tree!Init
  BY FormattedEmpty DEF Tree!Init
<1>5. PInv /\ PInv' /\ Facts /\ Facts' /\ [Next]_vars => [Tree!Next]_tree
  BY StepOfTree
<1>6. QED BY <1>1, <1>2, <1>3, <1>4, <1>5, PTL DEF Spec, ImplementsPathTree, Tree!Spec

\* There is none when no blocks are refused and all locations go into one: what
\* it lists has been handed out later than itself, and each location once.
LEMMA RoomyThere ==
  ASSUME ~ MayRefuse, MaxLoc < Capacity, PInv
  PROVE  Roomy
<1>1. /\ Sound(dirs, next) /\ next \in Nat /\ Once /\ Later /\ Plain
  BY NextIsNat DEF PInv, TInv, DInv, IInv, Trees
<1>2. ASSUME NEW l \in Locs, IsWritten(dirs[l]) PROVE Len(dirs[l]) <= Capacity
  <2> DEFINE n == Len(dirs[l])
             S == 3 .. n
             T == 2 .. MaxLoc
             f == [i \in S |-> dirs[l][i].loc]
  <2>1. n \in Nat /\ MaxLoc \in Nat \ {0} /\ Capacity \in Nat \ {0, 1} /\ Slots(dirs[l]) = S
    BY <1>1, <1>2, Places, Numbers DEF Slots
  <2>2. ASSUME NEW i \in S PROVE dirs[l][i].loc \in T
    <3>1. i \in Slots(dirs[l]) /\ i \in 1 .. Len(dirs[l])
      BY <2>1
    <3>2. /\ dirs[l][i].loc \in Locs \cup {0} /\ dirs[l][i].type \in {"dir", "file"}
      BY <1>1, <3>1, Places DEF Plain
    <3>3. EntryOK(dirs[l][i], next)
      BY <1>1, <3>1 DEF Sound, ArrayOK
    <3>4. dirs[l][i].loc # 0
      BY <3>2, <3>3, Numbers DEF EntryOK, RootLoc
    <3>5. dirs[l][i].loc > l
      BY <1>1, <3>1, <3>4 DEF Later
    <3>6. QED BY <2>1, <3>2, <3>4, <3>5 DEF Locs
  <2>3. f \in Injection(S, T)
    <3>1. ASSUME NEW i \in S, NEW j \in S, dirs[l][i].loc = dirs[l][j].loc PROVE i = j
      <4>1. dirs[l][i].loc \in T
        BY <2>2
      <4>2. dirs[l][i].loc # 0
        BY <4>1
      <4> HIDE DEF S, T
      <4>3. QED BY <1>1, <2>1, <3>1, <4>2 DEF Once
    <3> HIDE DEF S, T
    <3>2. f \in [S -> T]
      BY <2>2
    <3>3. \A i, j \in S : f[i] = f[j] => i = j
      BY <3>1
    <3> HIDE DEF f
    <3>4. QED BY <3>2, <3>3 DEF Injection, IsInjective
  <2>4. IsFiniteSet(T) /\ Cardinality(T) = MaxLoc - 1
    <3>1. 2 \in Int /\ MaxLoc \in Int
      BY <2>1
    <3>2. IsFiniteSet(T) /\ Cardinality(T) = IF 2 > MaxLoc THEN 0 ELSE MaxLoc - 2 + 1
      BY <3>1, FS_Interval
    <3> HIDE DEF T
    <3>3. QED BY <2>1, <3>2
  <2>5. Cardinality(S) = IF 3 > n THEN 0 ELSE n - 3 + 1
    <3>1. 3 \in Int /\ n \in Int
      BY <2>1
    <3>2. QED BY <3>1, FS_Interval
  <2>6. Cardinality(S) <= Cardinality(T)
    <3> HIDE DEF S, T, f
    <3>1. QED BY <2>3, <2>4, FS_Injection
  <2> HIDE DEF S, T, f, n
  <2>7. n <= MaxLoc + 1
    BY <2>1, <2>4, <2>5, <2>6
  <2>8. n <= Capacity
    BY <2>1, <2>7
  <2>9. QED BY <2>8 DEF n
<1>3. QED BY <1>2 DEF Roomy

\* So they implement it there without further condition.
THEOREM UncrowdedTree ==
  ASSUME Moves = {}, \A t \in CdPaths : t.rooted, ~ MayRefuse, MaxLoc < Capacity
  PROVE  Spec => ImplementsPathTree
<1>1. Init => PInv
  BY FormattedPlain
<1>2. PInv /\ [Next]_vars => PInv'
  BY StaysFound
<1>3. PInv => Roomy
  BY RoomyThere
<1>4. Spec => []Roomy
  BY <1>1, <1>2, <1>3, PTL DEF Spec
<1>5. QED BY <1>4, CommandsImplementTree, PTL
=============================================================================
