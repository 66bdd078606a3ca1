--------------------------- MODULE ListingProofs ---------------------------
(***************************************************************************)
(* What is taken out of directories.  Why a removal stays below the        *)
(* directory it was called for, as long as blocks are not refused,         *)
(* although every call of bfs_remove_dir goes through a copy of an array   *)
(* that calls inside it have written since.  Why nothing but a removal     *)
(* takes a directory out of a listing, as long as cd is given absolute     *)
(* paths.                                                                  *)
(***************************************************************************)
EXTENDS NamespaceProofs

\* What a directory lists is what stands in its array from slot 3 on.
LEMMA Listing ==
  ASSUME NEW dir \in Seq(Entry), NEW e
  PROVE  e \in ToSet(SubSeq(dir, 3, Len(dir))) <=> \E i \in 3 .. Len(dir) : e = dir[i]
<1> DEFINE rest == SubSeq(dir, 3, Len(dir))
<1>1. Len(dir) \in Nat
  BY LenProperties
<1>2. /\ rest \in Seq(Entry) /\ Len(rest) = IF 3 <= Len(dir) THEN Len(dir) - 2 ELSE 0
      /\ \A j \in 1 .. Len(dir) - 2 : rest[j] = dir[j + 2]
  <2>1. 3 \in Int /\ Len(dir) \in Int
    BY <1>1
  <2>2. \A j \in 3 .. Len(dir) : dir[j] \in Entry
    BY <1>1, ElementOfSeq
  <2>3. /\ SubSeq(dir, 3, Len(dir)) \in Seq(Entry)
        /\ Len(SubSeq(dir, 3, Len(dir))) = IF 3 <= Len(dir) THEN Len(dir) - 3 + 1 ELSE 0
        /\ \A j \in 1 .. Len(dir) - 3 + 1 : SubSeq(dir, 3, Len(dir))[j] = dir[3 + j - 1]
    BY <2>1, <2>2, SubSeqProperties
  <2> HIDE DEF rest
  <2>4. QED BY <1>1, <2>3 DEF rest
<1>3. DOMAIN rest = 1 .. Len(rest)
  BY <1>2, LenProperties
<1>4. ToSet(rest) = {rest[j] : j \in 1 .. Len(rest)}
  BY <1>3 DEF ToSet
<1> HIDE DEF rest
<1>5. ASSUME NEW j \in 1 .. Len(rest), e = rest[j] PROVE \E i \in 3 .. Len(dir) : e = dir[i]
  <2>1. j + 2 \in 3 .. Len(dir) /\ j \in 1 .. Len(dir) - 2
    BY <1>1, <1>2, <1>5
  <2>2. QED BY <1>2, <1>5, <2>1
<1>6. ASSUME NEW i \in 3 .. Len(dir), e = dir[i] PROVE \E j \in 1 .. Len(rest) : e = rest[j]
  <2>1. i - 2 \in 1 .. Len(rest) /\ i - 2 \in 1 .. Len(dir) - 2 /\ (i - 2) + 2 = i
    BY <1>1, <1>2, <1>6
  <2>2. QED BY <1>2, <1>6, <2>1
<1>7. QED BY <1>4, <1>5, <1>6 DEF rest

-----------------------------------------------------------------------------
(* The calls on the stack and the arrays they go through *)

\* The slots of its directory's array that a call has been through.
Passed(call, disk) == Len(disk[call.loc]) - Len(call.todo)

\* What a call still has to visit is the end of its directory's array.
Agrees(call, disk) ==
  /\ call.loc \in Locs
  /\ call.todo = <<>> \/ Passed(call, disk) >= 2
  /\ \A j \in 1 .. Len(call.todo) : call.todo[j] = disk[call.loc][Passed(call, disk) + j]

\* The directory at loc is listed in what a call has been through.
Lists(call, disk, loc) ==
  \E i \in 3 .. Passed(call, disk) :
    disk[call.loc][i].type = "dir" /\ disk[call.loc][i].loc = loc

\* A call still has to visit the directory at loc, or is visiting it.
ToVisit(call, loc) ==
  \E j \in 1 .. Len(call.todo) : call.todo[j].type = "dir" /\ call.todo[j].loc = loc

\* Every call but the innermost has come to the directory of the next one.  Of
\* two calls for one directory, which mv can bring about, the inner one has not
\* got behind the subdirectory that the outer one is in: so it never returns,
\* and never takes an entry out of an array that outer calls are going through.
Frames(s, disk) ==
  /\ \A k \in 1 .. Len(s) : Agrees(s[k], disk)
  /\ \A k \in 1 .. Len(s) - 1 : Lists(s[k], disk, s[k + 1].loc)
  /\ \A q \in 1 .. Len(s) : \A p \in 1 .. q - 1 : s[p].loc = s[q].loc =>
       ToVisit(s[q], s[p + 1].loc) \/ (q < Len(s) /\ s[q + 1].loc = s[p + 1].loc)

\* The inductive invariant of removals.
RInv == IInv /\ Frames(removing, dirs)

\* A call that begins.
LEMMA Beginning ==
  ASSUME ~ MayRefuse, Sound(dirs, next), NEW loc \in Locs, NEW c \in Calls(loc)
  PROVE  /\ c.loc = loc /\ Agrees(c, dirs)
         /\ \A i \in 3 .. Len(dirs[loc]) :
              dirs[loc][i].type = "dir" => ToVisit(c, dirs[loc][i].loc)
<1> DEFINE dir  == dirs[loc]
           todo == SubSeq(dir, 3, Len(dir))
<1>1. c = [loc |-> loc, todo |-> todo]
  <2>1. loc # 0
    BY Numbers DEF Locs
  <2>2. QED BY <2>1 DEF Calls, Buffers
<1>2. dir \in Seq(Entry) /\ Len(dir) \in Nat
  BY LenProperties DEF Sound
<1>3. /\ todo \in Seq(Entry) /\ Len(todo) = IF 3 <= Len(dir) THEN Len(dir) - 2 ELSE 0
      /\ \A i \in 1 .. Len(dir) - 2 : todo[i] = dir[i + 2]
  <2> HIDE DEF dir
  <2>1. \A i \in 3 .. Len(dir) : dir[i] \in Entry
    BY <1>2, ElementOfSeq
  <2>2. 3 \in Int /\ Len(dir) \in Int
    BY <1>2
  <2>3. /\ SubSeq(dir, 3, Len(dir)) \in Seq(Entry)
        /\ Len(SubSeq(dir, 3, Len(dir))) = IF 3 <= Len(dir) THEN Len(dir) - 3 + 1 ELSE 0
        /\ \A i \in 1 .. Len(dir) - 3 + 1 : SubSeq(dir, 3, Len(dir))[i] = dir[3 + i - 1]
    BY <2>1, <2>2, SubSeqProperties
  <2> HIDE DEF todo
  <2>4. QED BY <1>2, <2>3 DEF todo
<1> HIDE DEF todo
<1>4. c.loc = loc /\ c.todo = todo
  BY <1>1
<1>5. Agrees(c, dirs)
  <2>1. Passed(c, dirs) = Len(dir) - Len(todo)
    BY <1>4 DEF Passed
  <2> HIDE DEF dir
  <2>2. CASE 3 <= Len(dir)
    <3>1. Passed(c, dirs) = 2
      BY <1>2, <1>3, <2>1, <2>2
    <3>2. \A j \in 1 .. Len(todo) : todo[j] = dir[2 + j]
      BY <1>2, <1>3, <2>2
    <3>3. QED BY <1>4, <3>1, <3>2 DEF Agrees, dir
  <2>3. CASE ~ (3 <= Len(dir))
    <3>1. todo = <<>> /\ Len(todo) = 0
      BY <1>2, <1>3, <2>3, EmptySeq
    <3>2. QED BY <1>4, <3>1 DEF Agrees
  <2>4. QED BY <2>2, <2>3
<1>6. ASSUME NEW i \in 3 .. Len(dir), dir[i].type = "dir" PROVE ToVisit(c, dir[i].loc)
  <2> HIDE DEF dir
  <2>1. i - 2 \in 1 .. Len(todo) /\ todo[i - 2] = dir[i]
    BY <1>2, <1>3, <1>6
  <2>2. QED BY <1>4, <1>6, <2>1 DEF ToVisit
<1>7. QED BY <1>4, <1>5, <1>6

\* No call: nothing to show.
LEMMA NoFrames ==
  ASSUME NEW disk
  PROVE  Frames(<<>>, disk)
<1>1. Len(<<>>) = 0
  OBVIOUS
<1>2. QED BY <1>1 DEF Frames

\* The argument of rm.
LEMMA FirstCall ==
  ASSUME ~ MayRefuse, IInv, NEW input \in RmPaths, fs_rmdir(input)
  PROVE  Frames(removing', dirs')
<1> DEFINE found == get_file_from_path(input)
           loc   == found.loc
<1>1. Sound(dirs, next) /\ Variables /\ fs_isDir(input) /\ dirs' = dirs
  BY DEF IInv, fs_rmdir
<1>2. PICK c \in Calls(loc) : removing' = <<c>>
  BY DEF fs_rmdir
<1>3. loc \in Locs
  <2>1. input \in Text(Names)
    BY NamespaceAssumption DEF Typed
  <2>2. SafeEntry(found, dirs, next)
    BY <1>1, <2>1, Arguments, Lookups
  <2>3. found.type = "dir"
    BY <1>1 DEF fs_isDir
  <2> HIDE DEF found
  <2>4. QED BY <2>2, <2>3 DEF SafeEntry, EntryOK, Entry
<1> HIDE DEF loc
<1>4. Agrees(c, dirs)
  BY <1>1, <1>2, <1>3, Beginning
<1> DEFINE s == <<c>>
<1>5. Len(s) = 1 /\ s[1] = c
  OBVIOUS
<1> HIDE DEF s
<1>6. Frames(s, dirs)
  <2>1. ASSUME NEW k \in 1 .. Len(s) PROVE Agrees(s[k], dirs)
    <3>1. k = 1
      BY <1>5, <2>1
    <3>2. QED BY <1>4, <1>5, <3>1
  <2>2. (\A k \in 1 .. Len(s) - 1 : FALSE) /\ \A q \in 1 .. Len(s) : \A p \in 1 .. q - 1 : FALSE
    BY <1>5
  <2>3. QED BY <2>1, <2>2 DEF Frames
<1>7. QED BY <1>1, <1>2, <1>6 DEF s

\* The stack one step later in the innermost loop: the entry e comes to lie
\* behind.
LEMMA OneStep ==
  ASSUME RInv, removing # <<>>, Innermost.todo # <<>>
  PROVE  /\ \A k \in 1 .. Len(Visited) : Agrees(Visited[k], dirs)
         /\ \A k \in 1 .. Len(Visited) - 1 : Lists(Visited[k], dirs, Visited[k + 1].loc)
         /\ Len(Visited) = Len(removing) /\ Len(removing) \in Nat \ {0}
         /\ \A k \in 1 .. Len(removing) : Visited[k].loc = removing[k].loc
         /\ \A k \in 1 .. Len(removing) - 1 : Visited[k] = removing[k]
         /\ \A loc : ToVisit(Innermost, loc) =>
              \/ ToVisit(Visited[Len(removing)], loc)
              \/ Head(Innermost.todo).type = "dir" /\ Head(Innermost.todo).loc = loc
         /\ Head(Innermost.todo).type = "dir" =>
              Lists(Visited[Len(removing)], dirs, Head(Innermost.todo).loc)
<1> DEFINE n    == Len(removing)
           todo == Innermost.todo
           c    == [Innermost EXCEPT !.todo = Tail(@)]
           s    == Front(removing)
<1>1. /\ Innermost \in Call /\ s \in Seq(Call) /\ Len(s) = n - 1 /\ n \in Nat \ {0}
      /\ \A k \in 1 .. n - 1 : s[k] = removing[k]
  BY Inner DEF RInv, IInv, SafeStack
<1>2. Innermost = removing[n]
  BY DEF Innermost, Last
<1>3. /\ todo \in Seq(Entry) /\ Len(todo) \in Nat \ {0}
      /\ Tail(todo) \in Seq(Entry) /\ Len(Tail(todo)) = Len(todo) - 1
      /\ \A i \in 1 .. Len(Tail(todo)) : Tail(todo)[i] = todo[i + 1]
  <2>1. todo \in Seq(Entry)
    BY <1>1 DEF Call
  <2> HIDE DEF todo
  <2>2. todo # <<>>
    BY DEF todo
  <2>3. QED BY <2>1, <2>2, EmptySeq, HeadTailProperties
<1>4. Head(todo) = todo[1]
  BY <1>3
<1>5. c \in Call /\ c.loc = Innermost.loc /\ c.todo = Tail(todo)
  <2> DEFINE rest == Tail(todo)
  <2>1. rest \in Seq(Entry) /\ c = [Innermost EXCEPT !.todo = rest]
    BY <1>3
  <2>2. Innermost \in [loc : Locs \cup {0}, todo : Seq(Entry)]
    BY <1>1 DEF Call
  <2> HIDE DEF c, rest
  <2>3. c \in Call /\ c.loc = Innermost.loc /\ c.todo = rest
    BY <2>1, <2>2 DEF Call
  <2>4. QED BY <2>3 DEF rest
<1>6. Visited = Append(s, c)
  BY DEF Visited
<1> DEFINE v == Append(s, c)
<1>7. v \in Seq(Call) /\ Len(v) = n /\ v[n] = c /\ \A k \in 1 .. n - 1 : v[k] = removing[k]
  <2>1. /\ v \in Seq(Call) /\ Len(v) = Len(s) + 1 /\ v[Len(s) + 1] = c
        /\ \A k \in 1 .. Len(s) : v[k] = s[k]
    BY <1>1, <1>5, AppendProperties
  <2> HIDE DEF v, s, n
  <2>2. Len(s) + 1 = n
    BY <1>1
  <2>3. QED BY <1>1, <2>1, <2>2
<1> HIDE DEF v, s, c, n
<1>8. Frames(removing, dirs)
  BY DEF RInv
<1>9. Agrees(Innermost, dirs)
  <2>1. n \in 1 .. n
    BY <1>1
  <2>2. QED BY <1>2, <1>8, <2>1 DEF Frames, n
<1> DEFINE dir == dirs[Innermost.loc]
           m   == Passed(Innermost, dirs)
           t   == Tail(todo)
<1>10. /\ dir \in Seq(Entry) /\ Len(dir) \in Nat /\ m = Len(dir) - Len(todo)
       /\ m \in Int /\ m >= 2 /\ \A j \in 1 .. Len(todo) : todo[j] = dir[m + j]
  <2>1. Innermost.loc \in Locs
    BY <1>9 DEF Agrees
  <2>2. dir \in Seq(Entry) /\ Len(dir) \in Nat
    BY <2>1, LenProperties DEF RInv, IInv, Sound
  <2>3. m = Len(dir) - Len(todo)
    BY DEF Passed
  <2>4. m >= 2 /\ \A j \in 1 .. Len(todo) : todo[j] = dir[m + j]
    BY <1>9 DEF Agrees
  <2> HIDE DEF dir, m, todo
  <2>5. QED BY <1>3, <2>2, <2>3, <2>4
<1>11. Passed(c, dirs) = m + 1
  <2>1. Passed(c, dirs) = Len(dir) - Len(t)
    BY <1>5 DEF Passed
  <2> HIDE DEF dir, m, t, todo
  <2>2. QED BY <1>3, <1>10, <2>1 DEF t
<1>12. Agrees(c, dirs)
  <2>1. c.loc \in Locs
    BY <1>5, <1>9 DEF Agrees
  <2>2. c.todo = t /\ dirs[c.loc] = dir
    BY <1>5
  <2>3. ASSUME NEW j \in 1 .. Len(t) PROVE t[j] = dir[(m + 1) + j]
    <3> HIDE DEF dir, m, todo
    <3>1. t[j] = todo[j + 1] /\ j + 1 \in 1 .. Len(todo)
      BY <1>3, <2>3
    <3>2. todo[j + 1] = dir[m + (j + 1)] /\ m + (j + 1) = (m + 1) + j
      <4>1. todo[j + 1] = dir[m + (j + 1)]
        BY <1>10, <3>1
      <4>2. j \in Int /\ m \in Int
        BY <1>10, <2>3
      <4>3. m + (j + 1) = (m + 1) + j
        BY ONLY <4>2
      <4>4. QED BY <4>1, <4>3
    <3>3. QED BY <3>1, <3>2
  <2>4. m + 1 >= 2
    <3> HIDE DEF m
    <3>1. QED BY <1>10
  <2> HIDE DEF dir, m, t
  <2>5. QED BY <1>11, <2>1, <2>2, <2>3, <2>4 DEF Agrees
<1>13. ASSUME Head(todo).type = "dir" PROVE Lists(c, dirs, Head(todo).loc)
  <2>1. dirs[c.loc] = dir
    BY <1>5
  <2> HIDE DEF dir, m, todo
  <2>2. m + 1 \in 3 .. m + 1 /\ dir[m + 1] = Head(todo)
    BY <1>3, <1>4, <1>10
  <2>3. QED BY <1>11, <1>13, <2>1, <2>2 DEF Lists
<1>14. ASSUME NEW loc, ToVisit(Innermost, loc)
       PROVE  ToVisit(c, loc) \/ (Head(todo).type = "dir" /\ Head(todo).loc = loc)
  <2>1. PICK j \in 1 .. Len(todo) : todo[j].type = "dir" /\ todo[j].loc = loc
    BY <1>14 DEF ToVisit
  <2> HIDE DEF todo
  <2>2. CASE j = 1
    BY <1>4, <2>1, <2>2
  <2>3. CASE j # 1
    <3>1. j - 1 \in 1 .. Len(t) /\ t[j - 1] = todo[j]
      BY <1>3, <2>1, <2>3
    <3>2. QED BY <1>5, <2>1, <3>1 DEF ToVisit
  <2>4. QED BY <2>2, <2>3
<1>15. \A k \in 1 .. n : v[k].loc = removing[k].loc
  <2>1. ASSUME NEW k \in 1 .. n PROVE v[k].loc = removing[k].loc
    <3>1. CASE k = n
      BY <1>2, <1>5, <1>7, <3>1 DEF n
    <3>2. CASE k # n
      <4>1. k \in 1 .. n - 1
        BY <1>1, <2>1, <3>2
      <4>2. QED BY <1>7, <4>1
    <3>3. QED BY <3>1, <3>2
  <2>2. QED BY <2>1
<1>16. \A k \in 1 .. n : Agrees(v[k], dirs)
  <2>1. ASSUME NEW k \in 1 .. n PROVE Agrees(v[k], dirs)
    <3>1. CASE k = n
      BY <1>7, <1>12, <3>1
    <3>2. CASE k # n
      <4>1. k \in 1 .. n - 1
        BY <1>1, <2>1, <3>2
      <4>2. Agrees(removing[k], dirs)
        BY <1>8, <2>1 DEF Frames, n
      <4>3. QED BY <1>7, <4>1, <4>2
    <3>3. QED BY <3>1, <3>2
  <2>2. QED BY <2>1
<1>17. \A k \in 1 .. n - 1 : Lists(v[k], dirs, v[k + 1].loc)
  <2>1. ASSUME NEW k \in 1 .. n - 1 PROVE Lists(v[k], dirs, v[k + 1].loc)
    <3>1. Lists(removing[k], dirs, removing[k + 1].loc)
      BY <1>8, <2>1 DEF Frames, n
    <3>2. k + 1 \in 1 .. n
      BY <1>1, <2>1
    <3>3. v[k] = removing[k] /\ v[k + 1].loc = removing[k + 1].loc
      BY <1>7, <1>15, <2>1, <3>2
    <3>4. QED BY <3>1, <3>3
  <2>2. QED BY <2>1
<1>18. Visited = v
  BY <1>6 DEF v
<1>19. QED BY <1>1, <1>7, <1>13, <1>14, <1>15, <1>16, <1>17, <1>18 DEF n

\* A file freed, or the root passed over.
LEMMA PassedOver ==
  ASSUME RInv, removing # <<>>, Innermost.todo # <<>>, removing' = Visited, dirs' = dirs,
         Head(Innermost.todo).type # "dir" \/ Head(Innermost.todo).loc = RootLoc
  PROVE  Frames(removing', dirs')
<1> DEFINE v == Visited
           n == Len(removing)
           e == Head(Innermost.todo)
<1>1. /\ \A k \in 1 .. Len(v) : Agrees(v[k], dirs)
      /\ \A k \in 1 .. Len(v) - 1 : Lists(v[k], dirs, v[k + 1].loc)
      /\ Len(v) = n /\ n \in Nat \ {0}
      /\ \A k \in 1 .. n : v[k].loc = removing[k].loc
      /\ \A k \in 1 .. n - 1 : v[k] = removing[k]
      /\ \A loc : ToVisit(Innermost, loc) => ToVisit(v[n], loc) \/ (e.type = "dir" /\ e.loc = loc)
  BY OneStep
<1>2. Innermost = removing[n]
  BY DEF Innermost, Last
<1>3. Frames(removing, dirs) /\ \A k \in 1 .. n : removing[k].loc # RootLoc
  BY DEF RInv, IInv, Stack, SafeCall
<1>4. e.type # "dir" \/ e.loc = RootLoc
  OBVIOUS
<1>5. removing' = v
  OBVIOUS
<1> HIDE DEF v, e
<1>6. ASSUME NEW q \in 1 .. n, NEW p \in 1 .. q - 1, v[p].loc = v[q].loc
      PROVE  ToVisit(v[q], v[p + 1].loc) \/ (q < n /\ v[q + 1].loc = v[p + 1].loc)
  <2>1. p \in 1 .. n /\ p + 1 \in 1 .. n /\ q \in Int
    BY <1>1, <1>6
  <2>2. removing[p].loc = removing[q].loc /\ v[p + 1].loc = removing[p + 1].loc
    BY <1>1, <1>6, <2>1
  <2>3. \/ ToVisit(removing[q], removing[p + 1].loc)
        \/ q < n /\ removing[q + 1].loc = removing[p + 1].loc
    BY <1>3, <1>6, <2>2 DEF Frames
  <2>4. CASE q < n /\ removing[q + 1].loc = removing[p + 1].loc
    <3>1. q + 1 \in 1 .. n
      BY <1>1, <1>6, <2>4
    <3>2. QED BY <1>1, <2>2, <2>4, <3>1
  <2>5. CASE ToVisit(removing[q], removing[p + 1].loc)
    <3>1. CASE q = n
      <4>1. ~ (e.type = "dir" /\ e.loc = removing[p + 1].loc)
        BY <1>3, <1>4, <2>1
      <4>2. QED BY <1>1, <1>2, <2>2, <2>5, <3>1, <4>1
    <3>2. CASE q # n
      <4>1. q \in 1 .. n - 1
        BY <1>1, <1>6, <3>2
      <4>2. QED BY <1>1, <2>2, <2>5, <4>1
    <3>3. QED BY <3>1, <3>2
  <2>6. QED BY <2>3, <2>4, <2>5
<1>7. Frames(v, dirs)
  BY <1>1, <1>6 DEF Frames
<1>8. QED BY <1>5, <1>7

\* A call for a subdirectory.
LEMMA GoneInto ==
  ASSUME ~ MayRefuse, RInv, removing # <<>>, Innermost.todo # <<>>,
         Head(Innermost.todo).type = "dir", NEW c \in Calls(Head(Innermost.todo).loc),
         removing' = Append(Visited, c), dirs' = dirs
  PROVE  Frames(removing', dirs')
<1> DEFINE v == Visited
           n == Len(removing)
           e == Head(Innermost.todo)
           s == Append(v, c)
<1>1. /\ \A k \in 1 .. Len(v) : Agrees(v[k], dirs)
      /\ \A k \in 1 .. Len(v) - 1 : Lists(v[k], dirs, v[k + 1].loc)
      /\ Len(v) = n /\ n \in Nat \ {0}
      /\ \A k \in 1 .. n : v[k].loc = removing[k].loc
      /\ \A k \in 1 .. n - 1 : v[k] = removing[k]
      /\ \A loc : ToVisit(Innermost, loc) => ToVisit(v[n], loc) \/ (e.type = "dir" /\ e.loc = loc)
      /\ Lists(v[n], dirs, e.loc)
  BY OneStep
<1>2. Innermost = removing[n]
  BY DEF Innermost, Last
<1>3. Frames(removing, dirs) /\ Sound(dirs, next)
  BY DEF RInv, IInv
<1>4. SafeEntry(e, dirs, next) /\ v \in Seq(Call)
  BY Visiting DEF RInv, SafeStack
<1>5. e.loc \in Locs /\ c \in Calls(e.loc)
  <2>1. e \in Entry /\ e.type = "dir" /\ e.loc # 0
    BY <1>4 DEF SafeEntry, EntryOK
  <2> HIDE DEF e
  <2>2. QED BY <2>1 DEF Entry, e
<1>6. removing' = s
  OBVIOUS
<1> HIDE DEF v, e
<1>7. /\ c.loc = e.loc /\ Agrees(c, dirs)
      /\ \A i \in 3 .. Len(dirs[e.loc]) :
           dirs[e.loc][i].type = "dir" => ToVisit(c, dirs[e.loc][i].loc)
  BY <1>3, <1>5, Beginning
<1>8. Len(s) = n + 1 /\ s[n + 1] = c /\ \A k \in 1 .. n : s[k] = v[k]
  <2>1. /\ Len(s) = Len(v) + 1 /\ s[Len(v) + 1] = c
        /\ \A k \in 1 .. Len(v) : s[k] = v[k]
    <3>1. c \in Call
      <4>1. e.loc < next /\ e.loc \notin Lost(dirs)
        BY <1>4 DEF SafeEntry, EntryOK, e
      <4>2. next \in Nat \ {0, 1}
        BY NextIsNat DEF RInv, IInv
      <4>3. c = [loc |-> e.loc, todo |-> c.todo] /\ c.todo \in Seq(Entry)
        <5>1. PICK dir \in Buffers(e.loc) : c = [loc |-> e.loc, todo |-> SubSeq(dir, 3, Len(dir))]
          BY <1>5 DEF Calls
        <5>2. dir \in Seq(Entry)
          BY <1>3, <1>5, EmptySeq DEF Buffers, Sound
        <5>3. SubSeq(dir, 3, Len(dir)) \in Seq(Entry)
          <6>1. \A i \in 3 .. Len(dir) : dir[i] \in Entry
            BY <5>2, ElementOfSeq, LenProperties
          <6>2. 3 \in Int /\ Len(dir) \in Int
            BY <5>2, LenProperties
          <6>3. QED BY <6>1, <6>2, SubSeqProperties
        <5> DEFINE t == SubSeq(dir, 3, Len(dir))
        <5>4. c = [loc |-> e.loc, todo |-> t] /\ t \in Seq(Entry)
          BY <5>1, <5>3
        <5> HIDE DEF t
        <5>5. QED BY <5>4
      <4>4. QED BY <1>5, <4>3 DEF Call
    <3>2. QED BY <1>4, <3>1, AppendProperties
  <2>2. QED BY <1>1, <2>1
<1> HIDE DEF s
<1>9. ASSUME NEW k \in 1 .. n + 1 PROVE Agrees(s[k], dirs)
  <2>1. CASE k = n + 1
    BY <1>7, <1>8, <2>1
  <2>2. CASE k # n + 1
    <3>1. k \in 1 .. n
      BY <1>1, <1>9, <2>2
    <3>2. QED BY <1>1, <1>8, <3>1
  <2>3. QED BY <2>1, <2>2
<1>10. ASSUME NEW k \in 1 .. n PROVE Lists(s[k], dirs, s[k + 1].loc)
  <2>1. CASE k = n
    BY <1>1, <1>7, <1>8, <2>1
  <2>2. CASE k # n
    <3>1. k \in 1 .. n - 1 /\ k + 1 \in 1 .. n
      BY <1>1, <1>10, <2>2
    <3>2. Lists(v[k], dirs, v[k + 1].loc)
      BY <1>1, <3>1
    <3>3. QED BY <1>8, <1>10, <3>1, <3>2
  <2>3. QED BY <2>1, <2>2
<1>11. ASSUME NEW q \in 1 .. n + 1, NEW p \in 1 .. q - 1, s[p].loc = s[q].loc
       PROVE  ToVisit(s[q], s[p + 1].loc) \/ (q < n + 1 /\ s[q + 1].loc = s[p + 1].loc)
  <2>1. q \in Int /\ p \in 1 .. n
    BY <1>1, <1>11
  <2>2. CASE q = n + 1
    <3>1. Lists(s[p], dirs, s[p + 1].loc) /\ s[p].loc = e.loc
      BY <1>7, <1>8, <1>10, <1>11, <2>1, <2>2
    <3>2. PICK i \in 3 .. Passed(s[p], dirs) :
            dirs[e.loc][i].type = "dir" /\ dirs[e.loc][i].loc = s[p + 1].loc
      BY <3>1 DEF Lists
    <3>3. i \in 3 .. Len(dirs[e.loc])
      <4>1. s[p] \in Call
        <5>1. v[p] \in Call
          BY <1>1, <1>4, <2>1, ElementOfSeq
        <5>2. QED BY <1>8, <2>1, <5>1
      <4>2. s[p].todo \in Seq(Entry)
        BY <4>1 DEF Call
      <4>3. Len(s[p].todo) \in Nat /\ Len(dirs[e.loc]) \in Nat
        BY <1>3, <1>5, <4>2, LenProperties DEF Sound
      <4>4. Passed(s[p], dirs) = Len(dirs[e.loc]) - Len(s[p].todo)
        BY <3>1 DEF Passed
      <4>5. QED BY <4>3, <4>4
    <3>4. ToVisit(c, s[p + 1].loc)
      BY <1>7, <3>2, <3>3
    <3>5. QED BY <1>8, <2>2, <3>4
  <2>3. CASE q # n + 1
    <3>1. q \in 1 .. n /\ p + 1 \in 1 .. n
      <4>1. n \in Nat /\ q \in 1 .. n + 1 /\ p \in 1 .. q - 1 /\ q # n + 1
        BY <1>1, <1>11, <2>3
      <4>2. QED BY ONLY <4>1
    <3>2. s[q].loc = removing[q].loc /\ s[p].loc = removing[p].loc /\ s[p + 1].loc = removing[p + 1].loc
      BY <1>1, <1>8, <2>1, <3>1
    <3>3. \/ ToVisit(removing[q], removing[p + 1].loc)
          \/ q < n /\ removing[q + 1].loc = removing[p + 1].loc
      BY <1>3, <1>11, <3>1, <3>2 DEF Frames
    <3>4. CASE q < n /\ removing[q + 1].loc = removing[p + 1].loc
      <4>1. q + 1 \in 1 .. n /\ q < n + 1
        BY <1>1, <3>1, <3>4
      <4>2. s[q + 1].loc = removing[q + 1].loc
        BY <1>1, <1>8, <4>1
      <4>3. QED BY <3>2, <3>4, <4>1, <4>2
    <3>5. CASE ToVisit(removing[q], removing[p + 1].loc)
      <4>1. CASE q = n
        <5>1. ToVisit(v[n], removing[p + 1].loc) \/ e.loc = removing[p + 1].loc
          BY <1>1, <1>2, <3>5, <4>1
        <5>2. q < n + 1 /\ s[q + 1].loc = e.loc /\ s[q] = v[n]
          BY <1>1, <1>7, <1>8, <3>1, <4>1
        <5>3. QED BY <3>2, <5>1, <5>2
      <4>2. CASE q # n
        <5>1. q \in 1 .. n - 1
          BY <1>1, <3>1, <4>2
        <5>2. s[q] = removing[q]
          BY <1>1, <1>8, <3>1, <5>1
        <5>3. QED BY <3>2, <3>5, <5>2
      <4>3. QED BY <4>1, <4>2
    <3>6. QED BY <3>3, <3>4, <3>5
  <2>4. QED BY <2>2, <2>3
<1>12. Frames(s, dirs)
  <2>1. Len(s) = n + 1 /\ Len(s) - 1 = n
    BY <1>1, <1>8
  <2>2. QED BY <1>9, <1>10, <1>11, <2>1 DEF Frames
<1>13. QED BY <1>6, <1>12 DEF s

\* What taking slot 3 out of an array does to a call that is going through it,
\* or through another one.
LEMMA Shifted ==
  ASSUME NEW disk \in [Locs -> Seq(Entry)], NEW up \in Locs, Len(disk[up]) >= 3,
         NEW call \in Call, Agrees(call, disk), NEW inner, Lists(call, disk, inner)
  PROVE  LET d == [disk EXCEPT ![up] = RemoveAt(disk[up], 3)]
         IN  Agrees(call, d) /\ (inner # disk[up][3].loc => Lists(call, d, inner))
<1> DEFINE new == RemoveAt(disk[up], 3)
           d   == [disk EXCEPT ![up] = new]
           m   == Passed(call, disk)
<1>1. /\ disk[up] \in Seq(Entry) /\ Len(disk[up]) \in Nat
      /\ call.todo \in Seq(Entry) /\ Len(call.todo) \in Nat
  BY LenProperties DEF Call
<1>2. /\ Len(new) = Len(disk[up]) - 1
      /\ \A j \in 1 .. Len(disk[up]) - 1 : new[j] = IF j < 3 THEN disk[up][j] ELSE disk[up][j + 1]
  <2>1. 3 \in 1 .. Len(disk[up])
    BY <1>1
  <2>2. QED BY <1>1, <2>1, RemovedAt
<1> HIDE DEF new
<1>3. \A l \in Locs : d[l] = IF l = up THEN new ELSE disk[l]
  OBVIOUS
<1> HIDE DEF d
<1>4. call.loc \in Locs
  BY DEF Agrees
<1>5. PICK i \in 3 .. m : disk[call.loc][i].type = "dir" /\ disk[call.loc][i].loc = inner
  BY DEF Lists
<1>6. CASE call.loc # up
  <2>1. d[call.loc] = disk[call.loc]
    BY <1>3, <1>4, <1>6
  <2>2. QED BY <2>1 DEF Agrees, Lists, Passed, d, new
<1>7. CASE call.loc = up
  <2> DEFINE dir  == disk[up]
             todo == call.todo
  <2>1. m = Len(dir) - Len(todo) /\ Passed(call, d) = Len(new) - Len(todo)
    BY <1>3, <1>4, <1>7 DEF Passed
  <2>2. m \in Int /\ Passed(call, d) = m - 1 /\ m >= 3 /\ m <= Len(dir)
    <3>1. Len(dir) \in Nat /\ Len(todo) \in Nat /\ Len(new) = Len(dir) - 1
      BY <1>1, <1>2
    <3> HIDE DEF dir, todo, m
    <3>2. m \in Int /\ i \in 3 .. m
      BY <1>5, <2>1, <3>1
    <3>3. QED BY <2>1, <3>1, <3>2
  <2>3. \A j \in 1 .. Len(todo) : todo[j] = dir[m + j]
    BY <1>7 DEF Agrees
  <2>4. d[call.loc] = new /\ disk[call.loc] = dir
    BY <1>3, <1>4, <1>7
  <2>5. ASSUME NEW j \in 1 .. Len(todo) PROVE todo[j] = new[(m - 1) + j]
    <3>1. Len(dir) \in Nat /\ Len(todo) \in Nat
      BY <1>1
    <3>2. \A k \in 1 .. Len(dir) - 1 : new[k] = IF k < 3 THEN dir[k] ELSE dir[k + 1]
      BY <1>2
    <3> HIDE DEF dir, todo, m
    <3>3. (m - 1) + j \in 1 .. Len(dir) - 1 /\ ~ ((m - 1) + j < 3) /\ ((m - 1) + j) + 1 = m + j
      BY <2>1, <2>2, <2>5, <3>1
    <3>4. new[(m - 1) + j] = dir[m + j]
      BY <3>2, <3>3
    <3>5. QED BY <2>3, <3>4
  <2>6. Agrees(call, d)
    <3>1. m - 1 >= 2
      BY <2>2
    <3> HIDE DEF m
    <3>2. QED BY <1>4, <2>2, <2>4, <2>5, <3>1 DEF Agrees
  <2>7. ASSUME inner # dir[3].loc PROVE Lists(call, d, inner)
    <3>1. dir[i].type = "dir" /\ dir[i].loc = inner /\ i # 3
      BY <1>5, <1>7, <2>7
    <3>2. \A k \in 1 .. Len(dir) - 1 : new[k] = IF k < 3 THEN dir[k] ELSE dir[k + 1]
      BY <1>2
    <3>3. i \in 3 .. m /\ Len(dir) \in Nat
      BY <1>1, <1>5
    <3> HIDE DEF dir, m
    <3>4. i - 1 \in 3 .. m - 1 /\ i - 1 \in 1 .. Len(dir) - 1 /\ ~ (i - 1 < 3) /\ (i - 1) + 1 = i
      BY <2>2, <3>1, <3>3
    <3>5. new[i - 1] = dir[i]
      BY <3>2, <3>4
    <3>6. QED BY <2>2, <2>4, <3>1, <3>4, <3>5 DEF Lists
  <2>8. QED BY <2>6, <2>7 DEF d, new
<1>8. QED BY <1>6, <1>7

\* The directory at up lists the one at loc before anything else.
ListsFirst(up, loc) == Len(dirs[up]) >= 3 /\ dirs[up][3].loc = loc

\* The end of a removal writes nothing, or it takes the directory's entry out of
\* slot 3 of the array its ".." leads to.
LEMMA Unlinking ==
  ASSUME IInv, EndRemove
  PROVE  LET loc == Innermost.loc
         IN  \/ /\ dirs' = dirs
                /\ \A up \in Locs : loc \in Locs /\ IsWritten(dirs[loc]) /\ dirs[loc][2].loc = up =>
                     ~ ListsFirst(up, loc)
             \/ \E up \in Locs : /\ loc \in Locs /\ IsWritten(dirs[loc]) /\ dirs[loc][2].loc = up
                                 /\ ListsFirst(up, loc)
                                 /\ dirs' = [dirs EXCEPT ![up] = RemoveAt(dirs[up], 3)]
<1> DEFINE loc == Innermost.loc
           up  == IF IsWritten(Array(loc)) THEN dirs[loc][2].loc ELSE 0
<1>1. /\ Sound(dirs, next) /\ dirs' = Unlink(loc)
      /\ Innermost \in Call /\ SafeCall(Innermost, dirs, next)
  BY Inner DEF EndRemove, IInv
<1>2. loc \in Locs \cup {0} /\ loc \notin Lost(dirs)
  BY <1>1 DEF Call, SafeCall
<1> HIDE DEF loc
<1>3. CASE ~ (Len(Array(up)) >= 3 /\ Array(up)[3].loc = loc)
  <2>1. dirs' = dirs
    BY <1>1, <1>3 DEF Unlink
  <2>2. ASSUME NEW u \in Locs, loc \in Locs, IsWritten(dirs[loc]), dirs[loc][2].loc = u
        PROVE  ~ ListsFirst(u, loc)
    <3>1. loc # 0 /\ u # 0
      BY <2>2, Numbers DEF Locs
    <3>2. up = u /\ Array(u) = dirs[u]
      BY <2>2, <3>1 DEF Array
    <3>3. QED BY <1>3, <3>2 DEF ListsFirst
  <2>3. QED BY <2>1, <2>2 DEF loc
<1>4. CASE Len(Array(up)) >= 3 /\ Array(up)[3].loc = loc
  <2>1. up # 0
    <3> HIDE DEF up
    <3>1. Len(<<>>) = 0
      OBVIOUS
    <3>2. QED BY <1>4, <3>1 DEF Array
  <2>2. loc # 0 /\ loc \in Locs /\ IsWritten(dirs[loc]) /\ up = dirs[loc][2].loc
    <3>1. IsWritten(Array(loc)) /\ up = dirs[loc][2].loc
      BY <2>1
    <3> HIDE DEF up
    <3>2. QED BY <1>2, <3>1 DEF Array, IsWritten
  <2>3. up \in Locs
    <3>1. Ready(dirs[loc], loc)
      BY <1>1, <1>2, <2>2, WrittenIsReady
    <3>2. dirs[loc][2] \in Entry
      BY <1>1, <2>2, <3>1, ElementOfSeq DEF Ready, Sound
    <3>3. QED BY <2>1, <2>2, <3>2 DEF Entry
  <2>4. dirs' = [dirs EXCEPT ![up] = RemoveAt(dirs[up], 3)]
    BY <1>1, <1>4 DEF Unlink
  <2> HIDE DEF up
  <2>5. ListsFirst(up, loc)
    BY <1>4, <2>1 DEF Array, ListsFirst
  <2>6. QED BY <2>2, <2>3, <2>4, <2>5 DEF loc
<1>5. QED BY <1>3, <1>4

\* A call that returns: none of the calls around it is for its directory.
LEMMA Returned ==
  ASSUME RInv, EndRemove
  PROVE  Frames(removing', dirs')
<1> DEFINE n   == Len(removing)
           loc == Innermost.loc
           f   == Front(removing)
<1>1. /\ removing # <<>> /\ Innermost.todo = <<>> /\ removing' = f /\ dirs' = Unlink(loc)
      /\ Frames(removing, dirs) /\ Sound(dirs, next)
  BY DEF EndRemove, RInv, IInv
<1>2. /\ Len(f) = n - 1 /\ n \in Nat \ {0}
      /\ \A k \in 1 .. n - 1 : f[k] = removing[k]
  BY <1>1, Inner DEF RInv, IInv
<1>3. Innermost = removing[n]
  BY DEF Innermost, Last
<1>4. \A k \in 1 .. n : removing[k] \in Call
  BY ElementOfSeq DEF RInv, IInv, Stack
<1> HIDE DEF f
<1>5. ASSUME NEW p \in 1 .. n - 1 PROVE removing[p].loc # loc
  <2>1. n \in 1 .. n
    BY <1>2
  <2>2. ~ ToVisit(removing[n], removing[p + 1].loc)
    <3>1. removing[n].todo = <<>> /\ Len(<<>>) = 0
      BY <1>1, <1>3
    <3>2. QED BY <3>1 DEF ToVisit
  <2>3. ~ (n < n)
    BY <1>2
  <2>4. QED BY <1>1, <1>3, <2>1, <2>2, <2>3 DEF Frames
<1>6. \A k \in 1 .. n - 1 : Agrees(removing[k], dirs) /\ Lists(removing[k], dirs, removing[k + 1].loc)
  <2>1. \A k \in 1 .. n - 1 : k \in 1 .. n
    BY <1>2
  <2>2. QED BY <1>1, <2>1 DEF Frames
<1>7. \A k \in 1 .. n - 1 :
        /\ Agrees(removing[k], dirs')
        /\ removing[k + 1].loc # loc => Lists(removing[k], dirs', removing[k + 1].loc)
  <2>1. CASE dirs' = dirs
    BY <1>6, <2>1
  <2>2. ASSUME NEW up \in Locs, ListsFirst(up, loc), dirs' = [dirs EXCEPT ![up] = RemoveAt(dirs[up], 3)]
        PROVE  \A k \in 1 .. n - 1 :
                 /\ Agrees(removing[k], dirs')
                 /\ removing[k + 1].loc # loc => Lists(removing[k], dirs', removing[k + 1].loc)
    <3> HIDE DEF loc
    <3>1. dirs \in [Locs -> Seq(Entry)] /\ Len(dirs[up]) >= 3 /\ dirs[up][3].loc = loc
      BY <1>1, <2>2 DEF ListsFirst, Sound
    <3>2. ASSUME NEW k \in 1 .. n - 1
          PROVE  /\ Agrees(removing[k], dirs')
                 /\ removing[k + 1].loc # loc => Lists(removing[k], dirs', removing[k + 1].loc)
      <4>1. removing[k] \in Call
        <5>1. k \in 1 .. n
          BY <1>2
        <5>2. QED BY <1>4, <5>1
      <4>2. QED BY <1>6, <2>2, <3>1, <4>1, Shifted
    <3>3. QED BY <3>2
  <2>3. QED BY <2>1, <2>2, Unlinking DEF RInv
<1> HIDE DEF loc
<1>8. ASSUME NEW k \in 1 .. n - 2 PROVE Lists(f[k], dirs', f[k + 1].loc)
  <2>1. k \in 1 .. n - 1 /\ k + 1 \in 1 .. n - 1
    BY <1>2
  <2>2. QED BY <1>2, <1>5, <1>7, <2>1
<1>9. ASSUME NEW q \in 1 .. n - 1, NEW p \in 1 .. q - 1, f[p].loc = f[q].loc
      PROVE  ToVisit(f[q], f[p + 1].loc) \/ (q < n - 1 /\ f[q + 1].loc = f[p + 1].loc)
  <2>1. p \in 1 .. n - 1 /\ p + 1 \in 1 .. n - 1 /\ q \in 1 .. n /\ q \in Int
    <3>1. n \in Nat /\ q \in 1 .. n - 1 /\ p \in 1 .. q - 1
      BY <1>2
    <3>2. QED BY ONLY <3>1
  <2>2. f[p] = removing[p] /\ f[q] = removing[q] /\ f[p + 1] = removing[p + 1]
    BY <1>2, <2>1
  <2>3. \/ ToVisit(removing[q], removing[p + 1].loc)
        \/ q < n /\ removing[q + 1].loc = removing[p + 1].loc
    BY <1>1, <1>9, <2>1, <2>2 DEF Frames
  <2>4. CASE ToVisit(removing[q], removing[p + 1].loc)
    BY <2>2, <2>4
  <2>5. CASE q < n /\ removing[q + 1].loc = removing[p + 1].loc
    <3>1. q # n - 1
      <4>1. ASSUME q = n - 1 PROVE FALSE
        <5>1. q + 1 = n
          BY <1>2, <4>1
        <5>2. removing[p + 1].loc = loc
          BY <1>3, <2>5, <5>1 DEF loc
        <5>3. QED BY <1>5, <2>1, <5>2
      <4>2. QED BY <4>1
    <3>2. q + 1 \in 1 .. n - 1 /\ q < n - 1
      <4>1. n \in Nat \ {0} /\ q \in 1 .. n - 1 /\ q # n - 1
        BY <1>2, <3>1
      <4>2. QED BY ONLY <4>1
    <3>3. QED BY <1>2, <2>2, <2>5, <3>2
  <2>6. QED BY <2>3, <2>4, <2>5
<1>10. Frames(f, dirs')
  <2>1. Len(f) = n - 1 /\ Len(f) - 1 = n - 2
    BY <1>2
  <2>2. \A k \in 1 .. n - 1 : Agrees(f[k], dirs')
    BY <1>2, <1>7
  <2> HIDE DEF n
  <2>3. QED BY <1>8, <1>9, <2>1, <2>2 DEF Frames
<1>11. QED BY <1>1, <1>10

-----------------------------------------------------------------------------
(* Every step, and what follows *)

\* Every step keeps the calls in step with the arrays.
LEMMA StaysInStep ==
  ASSUME ~ MayRefuse, RInv, [Next]_vars
  PROVE  RInv'
<1>1. IInv'
  BY EveryStep DEF RInv
<1>2. CASE removing' = <<>>
  BY <1>1, <1>2, NoFrames DEF RInv
<1>3. CASE \/ \E t \in MkdirPaths : fs_mkdir(t)
           \/ \E t \in TouchPaths : b_open(t)
           \/ \E t \in RmPaths : cmd_rm(t)
           \/ \E m \in Moves : b_move(m[1], m[2])
           \/ \E t \in CdPaths : fs_setcwd(t)
           \/ Restart
  <2>1. Idle /\ removing' = removing
    BY <1>3 DEF fs_mkdir, b_open, cmd_rm, b_move, fs_setcwd, Restart
  <2>2. QED BY <1>2, <2>1 DEF Idle
<1>4. CASE \E t \in RmPaths : fs_rmdir(t)
  BY <1>1, <1>4, FirstCall DEF RInv
<1>5. CASE WriteNewDir
  <2>1. removing' = <<>>
    BY <1>5 DEF WriteNewDir, RInv, IInv, Making
  <2>2. QED BY <1>2, <2>1
<1>6. CASE RemoveFile
  <2>1. /\ removing # <<>> /\ Innermost.todo # <<>> /\ Head(Innermost.todo).type = "file"
        /\ removing' = Visited /\ dirs' = dirs
    BY <1>6 DEF RemoveFile, AtEntry
  <2>2. Head(Innermost.todo).type # "dir"
    BY <2>1
  <2>3. Frames(removing', dirs')
    BY <2>1, <2>2, PassedOver
  <2>4. QED BY <1>1, <2>3 DEF RInv
<1>7. CASE RemoveSubdir
  <2>1. /\ removing # <<>> /\ Innermost.todo # <<>> /\ Head(Innermost.todo).type = "dir"
        /\ dirs' = dirs
    BY <1>7 DEF RemoveSubdir, AtEntry
  <2>2. CASE Head(Innermost.todo).loc = RootLoc
    <3>1. removing' = Visited
      BY <1>7, <2>2 DEF RemoveSubdir
    <3>2. Frames(removing', dirs')
      BY <2>1, <2>2, <3>1, PassedOver
    <3>3. QED BY <1>1, <3>2 DEF RInv
  <2>3. CASE Head(Innermost.todo).loc # RootLoc
    <3>1. PICK c \in Calls(Head(Innermost.todo).loc) : removing' = Append(Visited, c)
      BY <1>7, <2>3 DEF RemoveSubdir
    <3>2. Frames(removing', dirs')
      BY <2>1, <3>1, GoneInto
    <3>3. QED BY <1>1, <3>2 DEF RInv
  <2>4. QED BY <2>2, <2>3
<1>8. CASE EndRemove
  BY <1>1, <1>8, Returned DEF RInv
<1>9. CASE StackOverflow \/ Crash
  BY <1>2, <1>9 DEF StackOverflow, Crash
<1>10. CASE UNCHANGED vars
  <2>1. UNCHANGED <<removing, dirs>>
    BY <1>10 DEF vars
  <2>2. QED BY <1>1, <2>1 DEF RInv
<1>11. QED
  BY <1>3, <1>4, <1>5, <1>6, <1>7, <1>8, <1>9, <1>10 DEF Next, Proceed

\* What a call works on is listed.
LEMMA Followed ==
  ASSUME RInv
  PROVE  RemovalFollowsListing
<1>1. Frames(removing, dirs) /\ removing \in Seq(Call) /\ Sound(dirs, next)
  BY DEF RInv, IInv, Stack
<1> DEFINE n == Len(removing)
<1>2. n \in Nat /\ DOMAIN removing = 1 .. n
  BY <1>1, LenProperties
<1>3. ASSUME NEW k \in 1 .. n
      PROVE  /\ removing[k].loc \in Locs /\ dirs[removing[k].loc] \in Seq(Entry)
             /\ removing[k].todo \in Seq(Entry)
  <2>1. Agrees(removing[k], dirs)
    BY <1>1 DEF Frames
  <2>2. removing[k] \in Call
    BY <1>1, ElementOfSeq
  <2>3. QED BY <1>1, <2>1, <2>2 DEF Agrees, Call, Sound
<1>4. ASSUME NEW k \in 1 .. n, NEW i \in 3 .. Len(dirs[removing[k].loc])
      PROVE  dirs[removing[k].loc][i] \in ToSet(Listed(removing[k].loc))
  <2> DEFINE loc == removing[k].loc
             dir == dirs[loc]
             e   == dir[i]
  <2>1. dir \in Seq(Entry) /\ loc # 0
    BY <1>3, Numbers DEF Locs
  <2>2. Listed(loc) = SubSeq(dir, 3, Len(dir))
    BY <2>1 DEF Listed, Array
  <2>3. \E j \in 3 .. Len(dir) : e = dir[j]
    BY <1>4
  <2> HIDE DEF dir, e, loc
  <2>4. e \in ToSet(Listed(loc))
    BY <2>1, <2>2, <2>3, Listing
  <2>5. QED BY <2>4 DEF dir, e, loc
<1>5. ASSUME NEW k \in 1 .. n
      PROVE  ToSet(removing[k].todo) \subseteq ToSet(Listed(removing[k].loc))
  <2> DEFINE loc  == removing[k].loc
             dir  == dirs[loc]
             todo == removing[k].todo
             m    == Passed(removing[k], dirs)
  <2>1. /\ dir \in Seq(Entry) /\ Len(dir) \in Nat /\ todo \in Seq(Entry) /\ Len(todo) \in Nat
        /\ DOMAIN todo = 1 .. Len(todo)
    BY <1>3, LenProperties
  <2>2. ASSUME NEW j \in 1 .. Len(todo) PROVE todo[j] \in ToSet(Listed(loc))
    <3>1. todo # <<>>
      <4>1. ASSUME todo = <<>> PROVE FALSE
        <5>1. Len(todo) = 0
          BY <4>1
        <5>2. QED BY <2>2, <5>1
      <4>2. QED BY <4>1
    <3>2. m >= 2 /\ todo[j] = dir[m + j] /\ m = Len(dir) - Len(todo)
      BY <1>1, <3>1 DEF Frames, Agrees, Passed
    <3>3. m + j \in 3 .. Len(dir)
      <4> HIDE DEF dir, todo, m
      <4>1. QED BY <2>1, <3>2
    <3>4. QED BY <1>4, <3>2, <3>3
  <2>3. QED BY <2>1, <2>2 DEF ToSet
<1>6. ASSUME NEW k \in 1 .. n, k > 1
      PROVE  \E e \in ToSet(Listed(removing[k - 1].loc)) : e.type = "dir" /\ e.loc = removing[k].loc
  <2>1. k - 1 \in 1 .. n - 1 /\ k - 1 \in 1 .. n /\ (k - 1) + 1 = k
    BY <1>2, <1>6
  <2> DEFINE j == k - 1
  <2>2. j \in 1 .. n - 1 /\ j \in 1 .. n /\ j + 1 = k
    BY <2>1
  <2> HIDE DEF j
  <2>3. Lists(removing[j], dirs, removing[k].loc)
    BY <1>1, <2>2 DEF Frames
  <2>4. PICK i \in 3 .. Passed(removing[j], dirs) :
          dirs[removing[j].loc][i].type = "dir" /\ dirs[removing[j].loc][i].loc = removing[k].loc
    BY <2>3 DEF Lists
  <2>5. i \in 3 .. Len(dirs[removing[j].loc])
    <3>1. Len(dirs[removing[j].loc]) \in Nat /\ Len(removing[j].todo) \in Nat
      BY <1>3, <2>2, LenProperties
    <3>2. QED BY <3>1 DEF Passed
  <2>6. dirs[removing[j].loc][i] \in ToSet(Listed(removing[j].loc))
    BY <1>4, <2>2, <2>5
  <2>7. QED BY <2>4, <2>6 DEF j
<1>7. QED BY <1>2, <1>5, <1>6 DEF RemovalFollowsListing

\* Unless blocks are refused, no removal goes astray, at any depth, on any
\* volume and after any mv: every call of bfs_remove_dir has left to do what
\* its directory still lists, and was made for a directory that the call around
\* it still lists.  (A refused directory has no array, and rm goes through
\* whatever the buffer held: the run StaleRemoval.)
THEOREM RemovalsFollow == ASSUME ~ MayRefuse PROVE Spec => []RemovalFollowsListing
<1>1. Init => RInv
  <2>1. ASSUME Init PROVE RInv
    <3>1. IInv /\ removing = <<>>
      BY <2>1, Formatted DEF Init
    <3>2. QED BY <3>1, NoFrames DEF RInv
  <2>2. QED BY <2>1
<1>2. RInv /\ [Next]_vars => RInv'
  BY StaysInStep
<1>3. RInv => RemovalFollowsListing
  BY Followed
<1>4. QED BY <1>1, <1>2, <1>3, PTL DEF Spec

-----------------------------------------------------------------------------
(* What commands other than rm of a directory leave listed *)

\* The directories that an array lists are still listed in another, or in the
\* same array on another disk.
Kept(new, old) ==
  \A i \in 3 .. Len(old) : old[i].type = "dir" => \E j \in 3 .. Len(new) : new[j] = old[i]

\* No array on that disk has lost a directory.
AllKept(disk) == \A l \in Locs : IsWritten(dirs[l]) => Kept(disk[l], dirs[l])

\* The session's path is absolute, and its tokens are names.
Absolute == cwd \in Text(Names) /\ cwd.rooted = TRUE

\* The inductive invariant of the listings, when cd is given absolute paths.
DInv == IInv /\ Absolute

\* An array keeps what it lists.
LEMMA SameKept ==
  ASSUME NEW dir
  PROVE  Kept(dir, dir)
BY DEF Kept

\* An entry that is no directory's taken out.
LEMMA RemovedKept ==
  ASSUME NEW dir \in Seq(Entry), NEW i \in 3 .. Len(dir), dir[i].type # "dir"
  PROVE  Kept(RemoveAt(dir, i), dir)
<1> DEFINE new == RemoveAt(dir, i)
<1>1. Len(dir) \in Nat
  BY LenProperties
<1>2. /\ Len(new) = Len(dir) - 1
      /\ \A j \in 1 .. Len(dir) - 1 : new[j] = IF j < i THEN dir[j] ELSE dir[j + 1]
  <2>1. i \in 1 .. Len(dir)
    BY <1>1
  <2>2. QED BY <2>1, RemovedAt
<1> HIDE DEF new
<1>3. ASSUME NEW k \in 3 .. Len(dir), dir[k].type = "dir"
      PROVE  \E j \in 3 .. Len(new) : new[j] = dir[k]
  <2>1. k # i
    BY <1>3
  <2>2. CASE k < i
    <3>1. k \in 3 .. Len(new) /\ k \in 1 .. Len(dir) - 1
      BY <1>1, <1>2, <2>2
    <3>2. new[k] = dir[k]
      BY <1>2, <2>2, <3>1
    <3>3. QED BY <3>1, <3>2
  <2>3. CASE k > i
    <3>1. /\ k - 1 \in 3 .. Len(new) /\ k - 1 \in 1 .. Len(dir) - 1
          /\ ~ (k - 1 < i) /\ (k - 1) + 1 = k
      BY <1>1, <1>2, <2>3
    <3>2. new[k - 1] = dir[k]
      BY <1>2, <3>1
    <3>3. QED BY <3>1, <3>2
  <2>4. QED BY <1>1, <2>1, <2>2, <2>3
<1>4. QED BY <1>3 DEF Kept, new

\* An entry put behind the last one.
LEMMA InsertedKept ==
  ASSUME NEW dir \in Seq(Entry), NEW e \in Entry, IsWritten(dir)
  PROVE  Kept(Insert(dir, e), dir)
<1>1. Insert(dir, e) = dir \/ Insert(dir, e) = Append(dir, e)
  BY DEF Insert, IsWritten
<1>2. Kept(Append(dir, e), dir)
  <2> DEFINE new == Append(dir, e)
  <2>1. Len(new) = Len(dir) + 1 /\ \A j \in 1 .. Len(dir) : new[j] = dir[j]
    BY AppendProperties
  <2>2. Len(dir) \in Nat
    BY LenProperties
  <2> HIDE DEF new
  <2>3. ASSUME NEW i \in 3 .. Len(dir) PROVE i \in 3 .. Len(new) /\ new[i] = dir[i]
    <3>1. i \in 1 .. Len(dir) /\ i \in 3 .. Len(new)
      BY <2>1, <2>2
    <3>2. QED BY <2>1, <3>1
  <2>4. QED BY <2>3 DEF Kept, new
<1>3. QED BY <1>1, <1>2, SameKept

\* One array written, all the others as they were.
LEMMA OneWritten ==
  ASSUME NEW disk \in [Locs -> Seq(Entry)], NEW l \in Locs, NEW new, AllKept(disk),
         IsWritten(dirs[l]) => Kept(new, dirs[l])
  PROVE  AllKept([disk EXCEPT ![l] = new])
<1> DEFINE d == [disk EXCEPT ![l] = new]
<1>1. d[l] = new /\ \A k \in Locs : k # l => d[k] = disk[k]
  OBVIOUS
<1> HIDE DEF d
<1>2. QED BY <1>1 DEF AllKept, d

\* Nothing written.
LEMMA NothingWritten == AllKept(dirs)
BY SameKept DEF AllKept

\* An absolute path stays what it is: what comes out as the directory of an
\* argument is the same when it is expanded once more.
LEMMA ExpandedOnce ==
  ASSUME Absolute, NEW input \in Text(Names)
  PROVE  /\ Expand(input) \in Text(Names) /\ Expand(input).rooted = TRUE
         /\ ParentOf(input) \in Text(Names) /\ ParentOf(input).rooted = TRUE
         /\ Expand(ParentOf(input)) = ParentOf(input)
<1>1. ASSUME NEW t \in Text(Names)
      PROVE  /\ t \in Text(Names \cup {".", ".."})
             /\ \A k \in 1 .. Len(t.toks) : t.toks[k] \notin {".", ".."}
  <2>1. t.toks \in Seq(Names) /\ t.rooted \in BOOLEAN
    BY DEF Text
  <2>2. Names \subseteq Names \cup {".", ".."}
    OBVIOUS
  <2>3. t.toks \in Seq(Names \cup {".", ".."})
    BY <2>1, <2>2, SeqMonotonic
  <2>4. t \in Text(Names \cup {".", ".."})
    BY <2>1, <2>3 DEF Text
  <2>5. ASSUME NEW k \in 1 .. Len(t.toks) PROVE t.toks[k] \notin {".", ".."}
    <3>1. t.toks[k] \in Names
      BY <2>1, ElementOfSeq
    <3>2. QED BY <3>1, TokensAreNames
  <2>6. QED BY <2>4, <2>5
<1>2. Expand(input) \in Text(Names)
  BY <1>1, ExpandedText DEF Expand, Absolute
<1>3. Expand(input).rooted = TRUE
  <2>1. Expand(input).rooted = Base(cwd, input).rooted
    BY <1>1, ExpandedSlash DEF Expand, Absolute
  <2>2. Base(cwd, input).rooted = TRUE
    BY DEF Base, Slash, Abs, Absolute
  <2>3. QED BY <2>1, <2>2
<1>4. ParentOf(input) \in Text(Names) /\ ParentOf(input).rooted = TRUE
  BY <1>2, <1>3, ParentIsText DEF ParentOf
<1>5. Expand(ParentOf(input)) = ParentOf(input)
  BY <1>1, <1>4, Expanded DEF Expand, Absolute
<1>6. QED BY <1>2, <1>3, <1>4, <1>5

\* The directory found for an absolute text is the one the text leads to.
LEMMA FoundIsFollowed ==
  ASSUME Sound(dirs, next), Variables, NEW text \in Text(Toks), text.rooted = TRUE,
         Find(text).type = "dir"
  PROVE  Find(text).loc = Follow(dirs, text)
<1>1. next \in Nat \ {0, 1}
  BY NextIsNat
<1>2. CASE text.toks = <<>>
  <2>1. text = Slash
    BY <1>2 DEF Slash, Abs, Text
  <2>2. QED BY <2>1, FollowSlash, RootIsFound
<1>3. CASE text.toks # <<>>
  <2> DEFINE loc == Follow(dirs, ParentText(text))
             tok == FileName(text)
             i   == find_file(tok, Array(loc))
  <2>1. Follow(dirs, text) = Enter(dirs, loc, tok)
    <3>1. /\ RootLoc \in Safe(dirs, next)
          /\ \A l \in Safe(dirs, next), t \in Toks : Enter(dirs, l, t) \in Safe(dirs, next)
      BY <1>1, SafeSteps
    <3>2. QED BY <1>3, <3>1, LastStep
  <2>2. tok # NoName
    <3>1. tok \in Toks
      <4>1. text.toks \in Seq(Toks) /\ Len(text.toks) \in 1 .. Len(text.toks)
        BY <1>3, EmptySeq DEF Text
      <4>2. tok = text.toks[Len(text.toks)]
        BY <1>3 DEF FileName, Last
      <4>3. QED BY <4>1, <4>2, ElementOfSeq
    <3>2. QED BY <3>1, TokensAreNames
  <2> HIDE DEF tok, loc
  <2>3. Find(text) = IF i = 0 THEN NoEntry ELSE dirs[loc][i]
    BY <2>2 DEF Find, tok, loc
  <2>4. i # 0 /\ Find(text) = dirs[loc][i]
    BY <2>3, NoEntryOK
  <2>5. loc # 0 /\ Array(loc) = dirs[loc]
    <3>1. loc \in Locs \cup {0}
      BY <1>1, FollowedSafe, ParentIsText DEF loc
    <3>2. Array(loc) \in Seq(Entry)
      BY <3>1, EmptySeq DEF Array, Sound
    <3>3. IsWritten(Array(loc))
      BY <2>4, <3>2, FoundSlot
    <3>4. QED BY <3>3 DEF IsWritten, Array
  <2>6. Enter(dirs, loc, tok) = dirs[loc][i].loc
    BY <2>4, <2>5 DEF Enter
  <2>7. QED BY <2>1, <2>4, <2>6
<1>4. QED BY <1>2, <1>3

\* With an absolute path, an argument's name is looked for in the directory that
\* its parent leads to.
LEMMA InParent ==
  ASSUME DInv, NEW input \in Text(Names), input.toks # <<>>, ParentIsDir(input)
  PROVE  LET loc == get_file_from_path(ParentOf(input)).loc
             i   == find_file(NameOf(input), Array(loc))
         IN  /\ loc \in Locs \cup {0} /\ loc \notin Lost(dirs) /\ NameOf(input) \in Names
             /\ get_file_from_path(input) = IF i = 0 THEN NoEntry ELSE dirs[loc][i]
<1> DEFINE up  == ParentOf(input)
           loc == get_file_from_path(up).loc
           tok == NameOf(input)
           i   == find_file(tok, Array(loc))
<1>1. Sound(dirs, next) /\ Variables /\ Absolute /\ next \in Nat \ {0, 1}
  BY NextIsNat DEF DInv, IInv
<1>2. Expand(up) = up /\ up.rooted = TRUE /\ up \in Text(Toks) /\ up = ParentText(Expand(input))
  <2>1. Expand(up) = up /\ up.rooted = TRUE /\ up \in Text(Names)
    BY <1>1, ExpandedOnce
  <2> HIDE DEF up
  <2>2. up \in Text(Toks)
    BY <1>1, <2>1, Arguments
  <2>3. QED BY <2>1, <2>2 DEF up, ParentOf
<1>3. tok \in Names /\ tok = FileName(Expand(input)) /\ tok # NoName
  <2>1. tok \in Names
    BY <1>1, Arguments
  <2>2. tok = FileName(Expand(input))
    BY DEF NameOf
  <2> HIDE DEF tok
  <2>3. QED BY <2>1, <2>2, TokensAreNames
<1>4. get_file_from_path(up) = Find(up) /\ Find(up).type = "dir"
  <2>1. get_file_from_path(up) = Find(up)
    BY <1>2 DEF get_file_from_path
  <2>2. QED BY <2>1 DEF ParentIsDir, fs_isDir
<1>5. loc = Follow(dirs, up) /\ loc \in Locs \cup {0} /\ loc \notin Lost(dirs)
  <2>1. Find(up).loc = Follow(dirs, up)
    <3> HIDE DEF up
    <3>1. QED BY <1>1, <1>2, <1>4, FoundIsFollowed
  <2>2. Follow(dirs, up) \in Locs \cup {0} /\ Follow(dirs, up) \notin Lost(dirs)
    <3> HIDE DEF up
    <3>1. QED BY <1>1, <1>2, FollowedSafe
  <2>3. QED BY <1>4, <2>1, <2>2
<1>6. Find(Expand(input)) = IF i = 0 THEN NoEntry ELSE dirs[loc][i]
  <2>1. Follow(dirs, ParentText(Expand(input))) = loc
    BY <1>2, <1>5
  <2>2. FileName(Expand(input)) = tok /\ tok # NoName
    BY <1>3
  <2> HIDE DEF loc, tok
  <2>3. QED BY <2>1, <2>2 DEF Find
<1>7. get_file_from_path(input) = IF i = 0 THEN NoEntry ELSE dirs[loc][i]
  BY <1>6 DEF get_file_from_path
<1> HIDE DEF loc, tok, i, up
<1>8. QED BY <1>3, <1>5, <1>7 DEF loc, tok, i, up

\* So the directory that rm takes an entry out of is the one it has found the
\* file in.
LEMMA FileIsFound ==
  ASSUME DInv, NEW input \in Text(Names), input.toks # <<>>, ParentIsDir(input), fs_isFile(input)
  PROVE  LET loc == get_file_from_path(ParentOf(input)).loc
             i   == find_file(NameOf(input), Array(loc))
         IN  /\ loc \in Locs /\ Array(loc) = dirs[loc]
             /\ i \in 3 .. Len(dirs[loc]) /\ dirs[loc][i].type = "file"
             /\ dirs[loc][i].name = NameOf(input)
<1> DEFINE loc == get_file_from_path(ParentOf(input)).loc
           tok == NameOf(input)
           i   == find_file(tok, Array(loc))
<1>1. Sound(dirs, next)
  BY DEF DInv, IInv
<1>2. /\ loc \in Locs \cup {0} /\ loc \notin Lost(dirs) /\ tok \in Names
      /\ get_file_from_path(input) = IF i = 0 THEN NoEntry ELSE dirs[loc][i]
  BY InParent
<1> HIDE DEF loc, tok
<1>3. tok # NoName /\ tok # "." /\ tok # ".."
  BY <1>2, TokensAreNames
<1>4. i # 0 /\ dirs[loc][i].type = "file"
  <2>1. get_file_from_path(input).type = "file" /\ NoEntry.type # "file"
    BY NoEntryOK DEF fs_isFile
  <2> HIDE DEF i
  <2>2. QED BY <1>2, <2>1
<1>5. Array(loc) \in Seq(Entry) /\ Len(Array(loc)) \in Nat
  BY <1>1, <1>2, EmptySeq, LenProperties DEF Array, Sound
<1>6. /\ IsWritten(Array(loc)) /\ i \in 1 .. Len(Array(loc)) + 1
      /\ i <= Len(Array(loc)) => Array(loc)[i].name = tok
      /\ i > Len(Array(loc)) => tok = NoName
  BY <1>4, <1>5, FoundSlot
<1>7. loc \in Locs /\ Array(loc) = dirs[loc]
  BY <1>2, <1>6 DEF IsWritten, Array
<1>8. Ready(dirs[loc], loc)
  BY <1>1, <1>2, <1>6, <1>7, WrittenIsReady
<1>9. dirs[loc][1].name = "." /\ dirs[loc][2].name = ".."
  BY <1>8 DEF Ready, bfs_create_dir_entry
<1>10. i \in 3 .. Len(dirs[loc]) /\ dirs[loc][i].name = tok
  <2> DEFINE j == i
  <2>1. /\ j \in 1 .. Len(dirs[loc]) + 1 /\ Len(dirs[loc]) \in Nat
        /\ j <= Len(dirs[loc]) => dirs[loc][j].name = tok
        /\ j > Len(dirs[loc]) => tok = NoName
    BY <1>5, <1>6, <1>7
  <2> HIDE DEF j
  <2>2. j \in 1 .. Len(dirs[loc]) /\ dirs[loc][j].name = tok
    BY <1>3, <2>1
  <2>3. j # 1 /\ j # 2
    BY <1>3, <1>9, <2>2
  <2>4. j \in 3 .. Len(dirs[loc])
    BY <2>1, <2>2, <2>3
  <2>5. QED BY <2>2, <2>4 DEF j
<1>11. QED BY <1>4, <1>7, <1>10 DEF loc, tok

\* What is found has the name that was looked for.
LEMMA FoundName ==
  ASSUME Sound(dirs, next), Variables, NEW text \in Text(Toks), FileName(text) \in Names,
         Find(text) # NoEntry
  PROVE  Find(text).name = FileName(text)
<1> DEFINE loc == Follow(dirs, ParentText(text))
           tok == FileName(text)
           i   == find_file(tok, Array(loc))
<1>1. tok # NoName
  BY TokensAreNames
<1>2. loc \in Locs \cup {0}
  BY NextIsNat, FollowedSafe, ParentIsText
<1> HIDE DEF tok, loc
<1>3. Find(text) = IF i = 0 THEN NoEntry ELSE dirs[loc][i]
  BY <1>1 DEF Find, tok, loc
<1>4. i # 0 /\ Find(text) = dirs[loc][i]
  BY <1>3
<1>5. Array(loc) \in Seq(Entry) /\ Len(Array(loc)) \in Nat
  BY <1>2, EmptySeq, LenProperties DEF Array, Sound
<1>6. /\ IsWritten(Array(loc)) /\ i \in 1 .. Len(Array(loc)) + 1
      /\ i <= Len(Array(loc)) => Array(loc)[i].name = tok
      /\ i > Len(Array(loc)) => tok = NoName
  BY <1>4, <1>5, FoundSlot
<1>7. Array(loc) = dirs[loc]
  BY <1>2, <1>6 DEF IsWritten, Array
<1> HIDE DEF i
<1>8. Array(loc)[i].name = tok
  BY <1>1, <1>5, <1>6
<1>9. QED BY <1>4, <1>7, <1>8 DEF tok

\* The name alone, from the session's path.
LEMMA NameAlone ==
  ASSUME Variables, NEW tok \in Names
  PROVE  /\ Rel(<<tok>>) \in Text(Names) /\ Rel(<<tok>>).toks # <<>>
         /\ NameOf(Rel(<<tok>>)) = tok
<1> DEFINE given == Rel(<<tok>>)
<1>1. given \in Text(Names) /\ given.toks # <<>> /\ given.toks = <<tok>>
  BY DEF Rel, Text
<1> HIDE DEF given
<1>2. given \in Text(Toks)
  BY <1>1, Arguments
<1>3. \A k \in 1 .. Len(given.toks) : given.toks[k] \notin {".", ".."}
  <2>1. given.toks[1] = tok /\ Len(given.toks) = 1
    BY <1>1
  <2>2. \A k \in 1 .. 1 : k = 1
    OBVIOUS
  <2>3. tok \notin {".", ".."}
    BY TokensAreNames
  <2>4. QED BY <2>1, <2>2, <2>3
<1>4. FileName(expand_pathname(cwd, given)) = given.toks[Len(given.toks)]
  BY <1>1, <1>2, <1>3, PlainName DEF Variables
<1>5. given.toks[Len(given.toks)] = tok
  BY <1>1
<1>6. NameOf(given) = tok
  BY <1>4, <1>5 DEF NameOf, Expand
<1>7. QED BY <1>1, <1>6 DEF given

\* One file's entry is taken out of an array, the first of its name.
FileTaken(disk) ==
  \E l \in Locs : \E i \in 3 .. Len(dirs[l]) :
    dirs[l][i].type = "file" /\ find_file(dirs[l][i].name, dirs[l]) = i /\ disk = [dirs EXCEPT ![l] = RemoveAt(@, i)]

\* With an absolute path, the deletion of a file takes nothing else out.
LEMMA Deleted ==
  ASSUME DInv, NEW input \in Text(Names), input.toks # <<>>, ParentIsDir(input), fs_isFile(input)
  PROVE  fs_delete(input).dirs = dirs \/ FileTaken(fs_delete(input).dirs)
<1> DEFINE given == Rel(<<NameOf(input)>>)
           file  == get_file_from_path(given)
           loc   == get_file_from_path(ParentOf(input)).loc
           i     == find_file(file.name, Array(loc))
           j     == find_file(NameOf(input), Array(loc))
<1>1. Sound(dirs, next) /\ Variables /\ NameOf(input) \in Names
  BY Arguments DEF DInv, IInv
<1>2. /\ loc \in Locs /\ j \in 3 .. Len(dirs[loc]) /\ dirs[loc][j].type = "file"
      /\ Array(loc) = dirs[loc] /\ dirs[loc][j].name = NameOf(input)
  BY FileIsFound
<1> HIDE DEF file, loc
<1>3. CASE file.type # "file" \/ i = 0
  BY <1>3 DEF fs_delete, file, loc
<1>4. CASE file.type = "file" /\ i # 0
  <2>1. fs_delete(input).dirs = [dirs EXCEPT ![loc] = RemoveAt(@, i)]
    BY <1>4 DEF fs_delete, file, loc
  <2>2. file.name = NameOf(input)
    <3>1. NameOf(given) = NameOf(input) /\ given \in Text(Toks)
      <4>1. NameOf(given) = NameOf(input) /\ given \in Text(Names)
        BY <1>1, NameAlone
      <4> HIDE DEF given
      <4>2. QED BY <1>1, <4>1, Arguments
    <3> HIDE DEF given
    <3>2. Expand(given) \in Text(Toks) /\ FileName(Expand(given)) = NameOf(input)
      BY <1>1, <3>1, Lookups DEF NameOf
    <3>3. file = Find(Expand(given)) /\ Find(Expand(given)) # NoEntry
      BY <1>4, NoEntryOK DEF file, get_file_from_path
    <3>4. QED BY <1>1, <3>2, <3>3, FoundName
  <2>3. /\ i \in 3 .. Len(dirs[loc]) /\ dirs[loc][i].type = "file"
        /\ find_file(dirs[loc][i].name, dirs[loc]) = i
    BY <1>2, <2>2
  <2> HIDE DEF i
  <2>4. QED BY <1>2, <2>1, <2>3 DEF FileTaken
<1>5. QED BY <1>3, <1>4

\* So no directory is lost.
LEMMA TakenKept ==
  ASSUME IInv, NEW disk, disk = dirs \/ FileTaken(disk)
  PROVE  AllKept(disk)
<1>1. CASE disk = dirs
  BY <1>1, NothingWritten
<1>2. CASE FileTaken(disk)
  <2>0. PICK l \in Locs : \E i \in 3 .. Len(dirs[l]) :
          dirs[l][i].type = "file" /\ disk = [dirs EXCEPT ![l] = RemoveAt(@, i)]
    BY <1>2 DEF FileTaken
  <2>1. PICK i \in 3 .. Len(dirs[l]) :
          dirs[l][i].type = "file" /\ disk = [dirs EXCEPT ![l] = RemoveAt(@, i)]
    BY <2>0
  <2> DEFINE new == RemoveAt(dirs[l], i)
  <2>2. dirs \in [Locs -> Seq(Entry)] /\ dirs[l] \in Seq(Entry)
    BY DEF IInv, Sound
  <2>3. Kept(new, dirs[l])
    BY <2>1, <2>2, RemovedKept
  <2>4. disk = [dirs EXCEPT ![l] = new]
    BY <2>1
  <2> HIDE DEF new
  <2>5. AllKept([dirs EXCEPT ![l] = new])
    BY <2>2, <2>3, NothingWritten, OneWritten
  <2>6. QED BY <2>4, <2>5
<1>3. QED BY <1>1, <1>2

\* What b_move deletes, or nothing.
LEMMA Doomed ==
  ASSUME DInv, NEW tok \in Names, ParentIsDir(Rel(<<tok>>))
  PROVE  LET disk == fs_delete(Rel(<<tok>>)).dirs IN disk = dirs \/ FileTaken(disk)
<1> DEFINE given == Rel(<<tok>>)
<1>1. given \in Text(Names) /\ given.toks # <<>> /\ NameOf(given) = tok
  BY NameAlone DEF DInv, IInv
<1>2. CASE fs_isFile(given)
  <2>1. ParentIsDir(given)
    OBVIOUS
  <2> HIDE DEF given
  <2>2. fs_delete(given).dirs = dirs \/ FileTaken(fs_delete(given).dirs)
    BY <1>1, <1>2, <2>1, Deleted
  <2>3. QED BY <2>2 DEF given
<1>3. CASE ~ fs_isFile(given)
  <2>1. get_file_from_path(Rel(<<NameOf(given)>>)).type # "file"
    BY <1>1, <1>3 DEF fs_isFile
  <2> HIDE DEF given
  <2>2. fs_delete(given).dirs = dirs
    BY <2>1 DEF fs_delete
  <2>3. QED BY <2>2 DEF given
<1>4. QED BY <1>2, <1>3

\* An entry put into a directory.
LEMMA EnteredKept ==
  ASSUME Sound(dirs, next), NEW loc \in Locs \cup {0}, NEW e \in Entry
  PROVE  AllKept(LBAwrite(dirs, loc, Insert(Array(loc), e)))
<1>1. CASE loc = 0
  BY <1>1, NothingWritten DEF LBAwrite
<1>2. CASE loc # 0
  <2> DEFINE new == Insert(dirs[loc], e)
  <2>1. loc \in Locs /\ LBAwrite(dirs, loc, Insert(Array(loc), e)) = [dirs EXCEPT ![loc] = new]
    BY <1>2 DEF LBAwrite, Array
  <2>2. dirs \in [Locs -> Seq(Entry)] /\ dirs[loc] \in Seq(Entry)
    BY <2>1 DEF Sound
  <2>3. IsWritten(dirs[loc]) => Kept(new, dirs[loc])
    BY <2>2, InsertedKept
  <2> HIDE DEF new
  <2>4. AllKept([dirs EXCEPT ![loc] = new])
    BY <2>1, <2>2, <2>3, NothingWritten, OneWritten
  <2>5. QED BY <2>1, <2>4
<1>3. QED BY <1>1, <1>2

\* The directory of an argument.
LEMMA ParentFound ==
  ASSUME Sound(dirs, next), Variables, NEW input \in Text(Names), ParentIsDir(input)
  PROVE  /\ get_file_from_path(ParentOf(input)) \in Entry
         /\ get_file_from_path(ParentOf(input)).loc \in Locs \cup {0}
         /\ get_file_from_path(ParentOf(input)).loc \notin Lost(dirs)
<1> DEFINE found == get_file_from_path(ParentOf(input))
<1>1. SafeEntry(found, dirs, next)
  BY Arguments, Lookups
<1>2. found.type = "dir"
  BY DEF ParentIsDir, fs_isDir
<1> HIDE DEF found
<1>3. found \in Entry /\ found.loc \in Locs \cup {0} /\ found.loc \notin Lost(dirs)
  BY <1>1, <1>2 DEF SafeEntry, EntryOK, Entry
<1>4. QED BY <1>3 DEF found

\* The first write of md.
LEMMA MkdirKept ==
  ASSUME IInv, NEW input \in MkdirPaths, fs_mkdir(input)
  PROVE  AllKept(dirs')
<1> DEFINE parent == get_file_from_path(ParentOf(input)).loc
<1>1. Sound(dirs, next) /\ Variables /\ ParentIsDir(input) /\ next \in Nat \ {0, 1}
  BY NextIsNat DEF IInv, fs_mkdir
<1>2. input \in Text(Names) /\ (input.rooted \/ input.toks # <<>>)
  BY NamespaceAssumption DEF Typed
<1>3. NameOf(input) \in Names \cup {NoName}
  <2>1. CASE input.toks # <<>>
    BY <1>1, <1>2, <2>1, Arguments
  <2>2. CASE input.toks = <<>>
    <3>1. Expand(input) = Slash
      BY <1>1, <1>2, <2>2, Arguments
    <3>2. QED BY <3>1 DEF NameOf, FileName, Slash, Abs
  <2>3. QED BY <2>1, <2>2
<1>4. parent \in Locs \cup {0} /\ parent \notin Lost(dirs)
  BY <1>1, <1>2, ParentFound
<1>5. PICK loc \in Granted :
        LET entry == bfs_create_dir_entry(NameOf(input), loc, "dir")
            array == IF IsWritten(Array(parent)) THEN Insert(dirs[parent], entry) ELSE <<entry>>
        IN  IF parent = 0 \/ find_file(NameOf(input), Array(parent)) # 0
              THEN UNCHANGED <<dirs, making>>
              ELSE dirs' = LBAwrite(dirs, array[1].loc, array)
  BY DEF fs_mkdir
<1> HIDE DEF parent
<1> DEFINE entry == bfs_create_dir_entry(NameOf(input), loc, "dir")
           array == IF IsWritten(Array(parent)) THEN Insert(dirs[parent], entry) ELSE <<entry>>
<1>6. loc = 0 \/ (loc = next /\ loc \in Locs)
  BY <1>1, Numbers DEF Granted, Locs
<1>7. entry \in Entry /\ entry.loc = loc
  BY <1>3, <1>6 DEF bfs_create_dir_entry, Entry
<1>8. CASE parent = 0 \/ find_file(NameOf(input), Array(parent)) # 0
  BY <1>5, <1>8, NothingWritten
<1>9. CASE parent # 0 /\ ~ find_file(NameOf(input), Array(parent)) # 0
  <2>1. dirs' = LBAwrite(dirs, array[1].loc, array)
    BY <1>5, <1>9
  <2> HIDE DEF entry
  <2>2. parent \in Locs /\ Array(parent) = dirs[parent]
    BY <1>4, <1>9 DEF Array
  <2>3. CASE IsWritten(dirs[parent])
    <3>1. array = Insert(dirs[parent], entry)
      BY <2>2, <2>3
    <3>2. Ready(dirs[parent], parent) /\ dirs[parent] \in Seq(Entry)
      BY <1>1, <1>4, <2>2, <2>3, WrittenIsReady DEF Sound
    <3>3. array[1] = dirs[parent][1]
      <4>1. array = dirs[parent] \/ array = Append(dirs[parent], entry)
        BY <2>3, <3>1 DEF Insert, IsWritten
      <4>2. 1 \in 1 .. Len(dirs[parent])
        BY <3>2, LenProperties DEF Ready
      <4>3. Append(dirs[parent], entry)[1] = dirs[parent][1]
        BY <1>7, <3>2, <4>2, AppendProperties
      <4>4. QED BY <4>1, <4>3
    <3>4. array[1].loc = parent
      BY <3>2, <3>3 DEF Ready, bfs_create_dir_entry
    <3> HIDE DEF array
    <3>5. dirs' = LBAwrite(dirs, parent, Insert(Array(parent), entry))
      BY <2>1, <2>2, <3>1, <3>4
    <3>6. QED BY <1>1, <1>4, <1>7, <3>5, EnteredKept
  <2>4. CASE ~ IsWritten(dirs[parent])
    <3>1. array = <<entry>> /\ array[1].loc = loc
      BY <1>7, <2>2, <2>4
    <3> HIDE DEF array
    <3>2. CASE loc = 0
      BY <2>1, <3>1, <3>2, NothingWritten DEF LBAwrite
    <3>3. CASE loc = next /\ loc \in Locs /\ loc # 0
      <4>1. dirs' = [dirs EXCEPT ![loc] = array]
        BY <2>1, <3>1, <3>3 DEF LBAwrite
      <4>2. ~ IsWritten(dirs[loc])
        BY <1>1, <3>3 DEF Sound, IsWritten
      <4>3. dirs \in [Locs -> Seq(Entry)]
        BY <1>1 DEF Sound
      <4>4. AllKept([dirs EXCEPT ![loc] = array])
        BY <3>3, <4>2, <4>3, NothingWritten, OneWritten
      <4>5. QED BY <4>1, <4>4
    <3>4. loc = 0 => ~ (loc # 0)
      OBVIOUS
    <3>5. QED BY <1>6, <3>2, <3>3
  <2>5. QED BY <2>3, <2>4
<1>10. QED BY <1>8, <1>9

\* Its second write goes over an array that lists nothing.
LEMMA NewDirKept ==
  ASSUME IInv, WriteNewDir
  PROVE  AllKept(dirs')
<1> DEFINE new == <<bfs_create_dir_entry(".", making.loc, "dir"),
                    bfs_create_dir_entry("..", making.parent, "dir")>>
<1>1. /\ Sound(dirs, next) /\ making.loc \in Locs /\ Len(dirs[making.loc]) <= 1
      /\ dirs' = [dirs EXCEPT ![making.loc] = new]
  BY DEF IInv, Making, WriteNewDir
<1> HIDE DEF new
<1>2. dirs \in [Locs -> Seq(Entry)] /\ Len(dirs[making.loc]) \in Nat
  BY <1>1, LenProperties DEF Sound
<1>3. Kept(new, dirs[making.loc])
  <2>1. \A i \in 3 .. Len(dirs[making.loc]) : FALSE
    BY <1>1, <1>2
  <2>2. QED BY <2>1 DEF Kept
<1>4. AllKept([dirs EXCEPT ![making.loc] = new])
  BY <1>1, <1>2, <1>3, NothingWritten, OneWritten
<1>5. QED BY <1>1, <1>4

\* The creation of a file.
LEMMA OpenKept ==
  ASSUME IInv, NEW input \in TouchPaths, b_open(input)
  PROVE  AllKept(dirs')
<1> DEFINE loc == get_file_from_path(ParentOf(input)).loc
           e   == bfs_create_dir_entry(NameOf(input), next, "file")
<1>1. /\ Sound(dirs, next) /\ Variables /\ ParentIsDir(input) /\ ~ fs_isDir(input)
      /\ next \in Nat \ {0, 1} /\ next <= MaxLoc
      /\ dirs' = LBAwrite(dirs, loc, Insert(Array(loc), e))
  BY NextIsNat DEF IInv, b_open
<1>2. input \in Text(Names) /\ (input.rooted \/ input.toks # <<>>)
  BY NamespaceAssumption DEF Typed
<1>3. loc \in Locs \cup {0}
  BY <1>1, <1>2, ParentFound
<1>4. NameOf(input) \in Names \cup {NoName}
  <2>1. CASE input.toks # <<>>
    BY <1>1, <1>2, <2>1, Arguments
  <2>2. CASE input.toks = <<>>
    <3>1. Expand(input) = Slash
      BY <1>1, <1>2, <2>2, Arguments
    <3>2. QED BY <3>1 DEF NameOf, FileName, Slash, Abs
  <2>3. QED BY <2>1, <2>2
<1>5. e \in Entry
  <2>1. next \in Locs
    BY <1>1, Numbers DEF Locs
  <2>2. QED BY <1>4, <2>1 DEF bfs_create_dir_entry, Entry
<1> HIDE DEF loc, e
<1>6. QED BY <1>1, <1>3, <1>5, EnteredKept

\* mv, in a directory and across directories.
LEMMA MoveKept ==
  ASSUME DInv, NEW m \in Moves, b_move(m[1], m[2])
  PROVE  AllKept(dirs')
<1> DEFINE dest      == m[1]
           src       == m[2]
           destEntry == get_file_from_path(ParentOf(dest))
           srcEntry  == get_file_from_path(ParentOf(src))
           doomed    == Rel(<<NameOf(dest)>>)
           loc       == destEntry.loc
<1>1. Sound(dirs, next) /\ Variables /\ ParentIsDir(dest) /\ ParentIsDir(src) /\ IInv
  BY DEF DInv, IInv, b_move
<1>2. /\ dest \in Text(Names) /\ dest.toks # <<>> /\ src \in Text(Names)
      /\ NameOf(dest) \in Names
  <2>1. dest \in Text(Names) /\ dest.toks # <<>> /\ src \in Text(Names)
    BY NamespaceAssumption
  <2> HIDE DEF dest, src
  <2>2. QED BY <1>1, <2>1, Arguments
<1> HIDE DEF dest, src
<1>3. srcEntry \in Entry /\ loc \in Locs \cup {0}
  BY <1>1, <1>2, ParentFound
<1>4. PICK destDir \in Buffers(destEntry.loc) :
        IF FirstLoc(destDir) = FirstLoc(Array(srcEntry.loc))
          THEN /\ ParentIsDir(doomed)
               /\ dirs' = LBAwrite(fs_delete(doomed).dirs, destEntry.loc, destDir)
          ELSE dirs' = LBAwrite(dirs, destEntry.loc, Insert(destDir, srcEntry))
  BY DEF b_move, dest, src
<1> HIDE DEF destEntry, srcEntry
<1>5. loc # 0 => loc \in Locs /\ destDir = dirs[loc] /\ Array(loc) = dirs[loc]
  BY <1>3, <1>4 DEF Buffers, Array
<1>6. CASE FirstLoc(destDir) = FirstLoc(Array(srcEntry.loc))
  <2> DEFINE d == fs_delete(doomed).dirs
  <2>1. ParentIsDir(doomed) /\ dirs' = LBAwrite(d, loc, destDir)
    BY <1>4, <1>6
  <2>2. AllKept(d)
    <3>1. d = dirs \/ FileTaken(d)
      BY <1>2, <2>1, Doomed
    <3> HIDE DEF d
    <3>2. QED BY <1>1, <3>1, TakenKept
  <2>3. d \in [Locs -> Seq(Entry)]
    <3>1. doomed \in Text(Names) /\ doomed.toks # <<>>
      BY <1>2 DEF Rel, Text
    <3> HIDE DEF doomed
    <3>2. QED BY <1>1, <2>1, <3>1, Deleting DEF Evolves, Sound
  <2> HIDE DEF d
  <2>4. CASE loc = 0
    BY <2>1, <2>2, <2>4 DEF LBAwrite
  <2>5. CASE loc # 0
    <3>1. dirs' = [d EXCEPT ![loc] = dirs[loc]] /\ loc \in Locs
      BY <1>5, <2>1, <2>5 DEF LBAwrite
    <3> HIDE DEF loc
    <3>2. AllKept([d EXCEPT ![loc] = dirs[loc]])
      BY <2>2, <2>3, <3>1, SameKept, OneWritten
    <3>3. QED BY <3>1, <3>2
  <2>6. QED BY <2>4, <2>5
<1>7. CASE FirstLoc(destDir) # FirstLoc(Array(srcEntry.loc))
  <2>1. dirs' = LBAwrite(dirs, loc, Insert(destDir, srcEntry))
    BY <1>4, <1>7
  <2>2. dirs' = LBAwrite(dirs, loc, Insert(Array(loc), srcEntry))
    BY <1>5, <2>1 DEF LBAwrite
  <2> HIDE DEF loc
  <2>3. QED BY <1>1, <1>3, <2>2, EnteredKept
<1>8. QED BY <1>6, <1>7

\* What a step may do to the directories that are listed.
Stay ==
  \A l \in Locs : IsWritten(dirs[l]) => \A i \in 3 .. Len(dirs[l]) : dirs[l][i].type = "dir" =>
    \/ \E j \in 3 .. Len(dirs'[l]) : dirs'[l][j] = dirs[l][i]
    \/ dirs[l][i].loc # 0 /\ dirs[l][i].loc \in cleared'

\* The entry that the end of a removal takes out is that of the directory it
\* frees.
LEMMA EndStays ==
  ASSUME IInv, EndRemove
  PROVE  Stay
<1> DEFINE loc == Innermost.loc
<1>1. Sound(dirs, next) /\ cleared' = cleared \cup ({loc} \ {0})
  BY DEF EndRemove, IInv
<1>2. CASE dirs' = dirs
  BY <1>2 DEF Stay
<1>3. ASSUME NEW up \in Locs, loc \in Locs, ListsFirst(up, loc),
             dirs' = [dirs EXCEPT ![up] = RemoveAt(dirs[up], 3)]
      PROVE  Stay
  <2> HIDE DEF loc
  <2> DEFINE new == RemoveAt(dirs[up], 3)
             dir == dirs[up]
  <2>1. loc # 0
    BY <1>3, Numbers DEF Locs
  <2>2. dirs' = [dirs EXCEPT ![up] = new]
    BY <1>3
  <2>3. /\ dirs \in [Locs -> Seq(Entry)] /\ dir \in Seq(Entry) /\ Len(dir) \in Nat
        /\ Len(dir) >= 3 /\ dir[3].loc = loc
    BY <1>1, <1>3, LenProperties DEF ListsFirst, Sound
  <2>4. /\ Len(new) = Len(dir) - 1
        /\ \A j \in 1 .. Len(dir) - 1 : new[j] = IF j < 3 THEN dir[j] ELSE dir[j + 1]
    <3>1. 3 \in 1 .. Len(dir)
      BY <2>3
    <3>2. QED BY <2>3, <3>1, RemovedAt
  <2> HIDE DEF new, dir
  <2>5. dirs'[up] = new /\ \A l \in Locs : l # up => dirs'[l] = dirs[l]
    BY <2>2, <2>3
  <2>6. ASSUME NEW i \in 3 .. Len(dir), dir[i].loc # loc
        PROVE  \E j \in 3 .. Len(new) : new[j] = dir[i]
    <3>1. i # 3
      BY <2>3, <2>6
    <3>2. /\ i - 1 \in 3 .. Len(new) /\ i - 1 \in 1 .. Len(dir) - 1
          /\ ~ (i - 1 < 3) /\ (i - 1) + 1 = i
      BY <2>3, <2>4, <3>1
    <3>3. new[i - 1] = dir[i]
      BY <2>4, <3>2
    <3>4. QED BY <3>2, <3>3
  <2>7. ASSUME NEW l \in Locs, NEW i \in 3 .. Len(dirs[l])
        PROVE  \/ \E j \in 3 .. Len(dirs'[l]) : dirs'[l][j] = dirs[l][i]
               \/ dirs[l][i].loc # 0 /\ dirs[l][i].loc \in cleared'
    <3>1. CASE l # up
      BY <2>5, <2>7, <3>1
    <3>2. CASE l = up /\ dir[i].loc = loc
      BY <1>1, <2>1, <3>2 DEF dir
    <3>3. CASE l = up /\ dir[i].loc # loc
      <4>1. i \in 3 .. Len(dir)
        BY <2>7, <3>3 DEF dir
      <4>2. QED BY <2>5, <2>6, <3>3, <4>1 DEF dir
    <3>4. QED BY <3>1, <3>2, <3>3
  <2>8. QED BY <2>7 DEF Stay
<1>4. QED BY <1>2, <1>3, Unlinking

\* rm of a file writes nothing, or it takes a file's entry out.
LEMMA RmWrites ==
  ASSUME DInv, NEW input \in RmPaths, cmd_rm(input)
  PROVE  (dirs' = dirs \/ FileTaken(dirs')) /\ AllKept(dirs')
<1>1. /\ fs_isFile(input) /\ ParentIsDir(input) /\ dirs' = fs_delete(input).dirs
      /\ Sound(dirs, next) /\ Variables
  BY DEF DInv, IInv, cmd_rm
<1>2. input \in Text(Names) /\ (input.rooted \/ input.toks # <<>>)
  BY NamespaceAssumption DEF Typed
<1>3. input.toks # <<>>
  <2>1. ASSUME input.toks = <<>> PROVE FALSE
    <3>1. Expand(input) = Slash
      BY <1>1, <1>2, <2>1, Arguments
    <3>2. get_file_from_path(input).type = "dir"
      BY <1>1, <3>1, RootIsFound DEF get_file_from_path
    <3>3. QED BY <1>1, <3>2 DEF fs_isFile
  <2>2. QED BY <2>1
<1>4. dirs' = dirs \/ FileTaken(dirs')
  BY <1>1, <1>2, <1>3, Deleted
<1>5. AllKept(dirs')
  BY <1>4, TakenKept DEF DInv
<1>6. QED BY <1>4, <1>5

\* Every step, when cd is given absolute paths.
LEMMA EveryStepStays ==
  ASSUME \A t \in CdPaths : t.rooted, DInv, [Next]_vars
  PROVE  DInv' /\ Stay
<1>1. IInv /\ IInv' /\ Absolute
  BY EveryStep DEF DInv
<1>2. ASSUME cwd' \in {cwd, Slash} PROVE DInv'
  <2>1. Slash \in Text(Names) /\ Slash.rooted = TRUE
    BY EmptySeq DEF Slash, Abs, Text
  <2>2. QED BY <1>1, <1>2, <2>1 DEF DInv, Absolute
<1>3. ASSUME AllKept(dirs') PROVE Stay
  BY <1>3 DEF AllKept, Kept, Stay
<1>4. CASE \E t \in MkdirPaths : fs_mkdir(t)
  <2>1. AllKept(dirs') /\ cwd' = cwd
    BY <1>1, <1>4, MkdirKept DEF fs_mkdir
  <2>2. QED BY <1>2, <1>3, <2>1
<1>5. CASE \E t \in TouchPaths : b_open(t)
  <2>1. AllKept(dirs') /\ cwd' = cwd
    BY <1>1, <1>5, OpenKept DEF b_open
  <2>2. QED BY <1>2, <1>3, <2>1
<1>6. CASE \E t \in RmPaths : cmd_rm(t)
  <2>1. AllKept(dirs') /\ cwd' = cwd
    BY <1>1, <1>6, RmWrites DEF DInv, cmd_rm
  <2>2. QED BY <1>2, <1>3, <2>1
<1>7. CASE \E m \in Moves : b_move(m[1], m[2])
  <2>1. AllKept(dirs') /\ cwd' = cwd
    BY <1>1, <1>7, MoveKept DEF b_move
  <2>2. QED BY <1>2, <1>3, <2>1
<1>8. CASE WriteNewDir
  <2>1. AllKept(dirs') /\ cwd' = cwd
    BY <1>1, <1>8, NewDirKept DEF WriteNewDir
  <2>2. QED BY <1>2, <1>3, <2>1
<1>9. CASE EndRemove
  <2>1. cwd' = cwd
    BY <1>9 DEF EndRemove
  <2>2. QED BY <1>1, <1>2, <1>9, <2>1, EndStays
<1>10. CASE \E t \in CdPaths : fs_setcwd(t)
  <2>1. PICK t \in CdPaths : fs_setcwd(t)
    BY <1>10
  <2>2. PICK freed : cwd' = expand_pathname(freed, t) /\ dirs' = dirs
    BY <2>1 DEF fs_setcwd
  <2>3. t \in Text(Names \cup {".", ".."}) /\ t.rooted = TRUE
    <3>1. t \in Text(Names \cup {".", ".."}) /\ t.rooted
      BY NamespaceAssumption
    <3>2. t.rooted \in BOOLEAN
      BY <3>1 DEF Text
    <3>3. QED BY <3>1, <3>2
  <2>4. Slash \in Text(Names) /\ cwd' = expand_pathname(Slash, t)
    <3>1. Slash \in Text(Names)
      BY EmptySeq DEF Slash, Abs, Text
    <3>2. QED BY <2>2, <2>3, <3>1, RootedInput
  <2>5. cwd' \in Text(Names)
    BY <2>3, <2>4, ExpandedText
  <2>6. cwd'.rooted = TRUE
    <3>1. cwd'.rooted = Base(Slash, t).rooted
      BY <2>3, <2>4, ExpandedSlash
    <3>2. QED BY <3>1 DEF Base, Slash, Abs
  <2>7. QED BY <1>1, <1>3, <2>2, <2>5, <2>6, NothingWritten DEF DInv, Absolute
<1>11. CASE \/ \E t \in RmPaths : fs_rmdir(t)
            \/ RemoveFile \/ RemoveSubdir \/ StackOverflow \/ Restart \/ Crash
            \/ UNCHANGED vars
  <2>1. dirs' = dirs /\ cwd' \in {cwd, Slash}
    BY <1>11 DEF fs_rmdir, RemoveFile, RemoveSubdir, StackOverflow, Restart, Crash, vars
  <2>2. QED BY <1>2, <1>3, <2>1, NothingWritten
<1>12. QED
  BY <1>4, <1>5, <1>6, <1>7, <1>8, <1>9, <1>10, <1>11 DEF Next, Proceed

\* When cd is given absolute paths, no command loses a directory from a
\* listing but the removal of that directory: not the deletion of a file, which
\* looks its name up in one place and removes the entry in another, nor mv,
\* which writes an array back that it read before it deleted a file.  (With a
\* relative cd rm of a file takes a directory's entry out: what names the
\* parent is expanded twice.)
THEOREM DirsStay ==
  ASSUME \A t \in CdPaths : t.rooted
  PROVE  Spec => DirsStayListed
<1>1. Init => DInv
  <2>1. ASSUME Init PROVE DInv
    <3>1. IInv /\ cwd = Slash
      BY <2>1, Formatted DEF Init
    <3>2. Slash \in Text(Names) /\ Slash.rooted = TRUE
      BY EmptySeq DEF Slash, Abs, Text
    <3>3. QED BY <3>1, <3>2 DEF DInv, Absolute
  <2>2. QED BY <2>1
<1>2. DInv /\ [Next]_vars => DInv' /\ Stay
  BY EveryStepStays
<1> DEFINE Kind == \A l \in Written :
             \A e \in ToSet(Listed(l)) : e.type = "dir" =>
               e \in ToSet(Listed(l)') \/ (e.loc # 0 /\ e.loc \in cleared')
<1>3. ASSUME DInv, DInv', Stay PROVE Kind
  <2>1. ASSUME NEW l \in Written, NEW e \in ToSet(Listed(l)), e.type = "dir"
        PROVE  e \in ToSet(Listed(l)') \/ (e.loc # 0 /\ e.loc \in cleared')
    <3>1. /\ l \in Locs /\ l # 0 /\ IsWritten(dirs[l])
          /\ dirs[l] \in Seq(Entry) /\ dirs'[l] \in Seq(Entry)
      BY <1>3, Numbers DEF Written, Locs, DInv, IInv, Sound
    <3>2. /\ Listed(l) = SubSeq(dirs[l], 3, Len(dirs[l]))
          /\ Listed(l)' = SubSeq(dirs'[l], 3, Len(dirs'[l]))
      BY <3>1 DEF Listed, Array
    <3>3. PICK i \in 3 .. Len(dirs[l]) : e = dirs[l][i]
      BY <2>1, <3>1, <3>2, Listing
    <3>4. \/ \E j \in 3 .. Len(dirs'[l]) : dirs'[l][j] = dirs[l][i]
          \/ dirs[l][i].loc # 0 /\ dirs[l][i].loc \in cleared'
      BY <1>3, <2>1, <3>1, <3>3 DEF Stay
    <3>5. ASSUME \E j \in 3 .. Len(dirs'[l]) : dirs'[l][j] = dirs[l][i]
          PROVE  e \in ToSet(Listed(l)')
      <4>1. \E j \in 3 .. Len(dirs'[l]) : e = dirs'[l][j]
        BY <3>3, <3>5
      <4>2. e \in ToSet(SubSeq(dirs'[l], 3, Len(dirs'[l])))
        BY <3>1, <4>1, Listing
      <4>3. QED BY <3>2, <4>2
    <3>6. QED BY <3>3, <3>4, <3>5
  <2>2. QED BY <2>1
<1>4. DInv /\ DInv' /\ Stay => [Kind]_vars
  BY <1>3
<1>5. Spec => [][Kind]_vars
  BY <1>1, <1>2, <1>4, PTL DEF Spec
<1>6. QED BY <1>5 DEF DirsStayListed
=============================================================================
