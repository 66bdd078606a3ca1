----------------------------- MODULE Namespace -----------------------------
(***************************************************************************)
(* Directories and the commands that change them: bfs_directory.c, the     *)
(* deletion of files in bfs_file.c, and creation and renaming of files in  *)
(* b_io.c.  One action per write to a directory, so that a crash can fall  *)
(* between any two of them.                                                *)
(*                                                                         *)
(* A directory is the array of entries at its location: slot 1 is ".",     *)
(* slot 2 is "..", and the array ends at an empty name.  Commands that     *)
(* find nothing to change are steps that change nothing and are not        *)
(* written down.  Every location handed out is a fresh one (BlockGroups    *)
(* says when that holds), or 0 where the code has -1: the request was      *)
(* refused, and no read or write there succeeds.  mv in a directory writes *)
(* twice in one action: what its first write leaves is what rm of the      *)
(* destination leaves.  What lies behind a buffer, or behind the end of an *)
(* array in it, is taken to be empty.  Arguments in a file, instead of a   *)
(* directory, are left out (ParentIsDir).                                  *)
(***************************************************************************)
EXTENDS Paths, FiniteSets

CONSTANTS
  Names,       \* the names files and directories are given
  MkdirPaths,  \* what the user types: the arguments of md, touch, rm, cd
  TouchPaths,
  RmPaths,
  CdPaths,
  Moves,       \* pairs of texts <<dest, src>>: the arguments of mv
  Capacity,    \* whole entries in a directory's buffer (120): the next one
               \* reaches the disk with its first 64 bytes, a short name's all
  MayRefuse,   \* whether bfs_get_free_blocks may refuse a directory's blocks
  MaxDepth,    \* calls of bfs_remove_dir the stack has room for
  MaxLoc,      \* bound: locations handed out, the root's included
  MaxSlots,    \* bound: slots of a directory that mv fills
  MaxCwd,      \* bound: tokens in the session's path
  MaxCrashes   \* bound: crashes in the middle of a command

Typed == MkdirPaths \cup TouchPaths \cup RmPaths

ASSUME NamespaceAssumption ==
  /\ MaxLoc \in Nat \ {0} /\ Capacity \in Nat \ {0, 1} /\ MayRefuse \in BOOLEAN
  /\ MaxDepth \in Nat /\ MaxDepth > MaxLoc /\ MaxCrashes \in Nat
  /\ Names \cap {NoName, ".", ".."} = {}
  /\ Typed \subseteq Text(Names)
  /\ \A m \in Moves, k \in {1, 2} : m[k] \in Text(Names) /\ m[k].toks # <<>>
  /\ CdPaths \subseteq Text(Names \cup {".", ".."})
  /\ \A t \in Typed \cup CdPaths : t.rooted \/ t.toks # <<>>

VARIABLES
  dirs,      \* disk: the array at each location, <<>> where none is written
  cwd,       \* memory: bfs_path
  next,      \* the next location bfs_get_free_blocks hands out
  making,    \* fs_mkdir between its two writes, None outside of it
  removing,  \* the calls of bfs_remove_dir on the stack, innermost last
  cleared,   \* history: what bfs_clear_blocks and bfs_clear_extents were given
  crashes    \* history: the number of crashes in the middle of a command

vars == <<dirs, cwd, next, making, removing, cleared, crashes>>

RootLoc == 1
Locs    == 1 .. MaxLoc
None    == [loc |-> 0, parent |-> 0]
Garbage == Rel(<<"?">>)
Idle    == making = None /\ removing = <<>>

Smaller(a, b) == IF a <= b THEN a ELSE b

\* Mutant: the entry is given the location of the root.
mut_bfs_create_dir_entry(name, loc, type) ==
  [name |-> name, loc |-> IF name = ".." THEN RootLoc ELSE loc, type |-> type]

bfs_create_dir_entry(name, loc, type) == [name |-> name, loc |-> loc, type |-> type]

NoEntry == bfs_create_dir_entry(NoName, 0, "none")

\* What the disk has at a location: nothing can be read at a refused one.
Array(loc) == IF loc = 0 THEN <<>> ELSE dirs[loc]

\* Slot 1 of an array not yet written is empty; an entry may come behind it.
IsWritten(dir) == dir # <<>> /\ dir[1] # NoEntry

\* Mutant: the buffer has room for one entry more.
mut_Insert(dir, entry) ==
  CASE dir = <<>>                                                 -> <<NoEntry, NoEntry, entry>>
    [] dir # <<>> /\ Len(dir) <= Capacity + 1 /\ entry.name # NoName  -> Append(dir, entry)
    [] OTHER                                                      -> dir

\* An entry put behind the last one, from slot 3 on.  Nothing looks for the end
\* of the buffer: what lands behind it does not reach the disk, and may end the
\* session, at once or in the middle of the command.  An entry without a name
\* is none.
Insert(dir, entry) ==
  CASE dir = <<>>                                             -> <<NoEntry, NoEntry, entry>>
    [] dir # <<>> /\ Len(dir) <= Capacity /\ entry.name # NoName  -> Append(dir, entry)
    [] OTHER                                                  -> dir

\* A directory's array written to the disk.
LBAwrite(disk, loc, dir) == IF loc = 0 THEN disk ELSE [disk EXCEPT ![loc] = dir]

\* What a buffer for a directory may hold after the read: an array that cannot
\* be read leaves what the memory held before, another directory's maybe.
Buffers(loc) == IF loc = 0 THEN {<<>>} \cup {dirs[l] : l \in Locs} ELSE {dirs[loc]}

-----------------------------------------------------------------------------
(* Finding files *)

\* Mutant: the last entry is not looked at.
mut_find_file(name, dir) ==
  LET slots == IF IsWritten(dir) THEN 1 .. Smaller(Len(dir) - 1, Capacity) ELSE {}
      hits  == {i \in slots : name = dir[i].name}
  IN  IF hits = {} THEN 0 ELSE CHOOSE i \in hits : \A j \in hits : i <= j

\* The first slot with that name, 0 when there is none.  The empty name is
\* found in the slot that ends the array.  An array not yet written has size 0
\* in its first slot: nothing is ever found in it, and nothing is found behind
\* the whole entries of the buffer.
find_file(name, dir) ==
  LET slots == IF IsWritten(dir) THEN 1 .. Smaller(Len(dir) + 1, Capacity) ELSE {}
      hits  == {i \in slots : name = IF i > Len(dir) THEN NoName ELSE dir[i].name}
  IN  IF hits = {} THEN 0 ELSE CHOOSE i \in hits : \A j \in hits : i <= j

\* The location of the directory a token names in the one at loc.
Enter(disk, loc, tok) ==
  LET dir == IF loc = 0 THEN <<>> ELSE disk[loc]
      i   == find_file(tok, dir)
  IN  IF i = 0 \/ dir[i].type # "dir" THEN 0 ELSE dir[i].loc

\* The location of the directory a text leads to, from the root.
Follow(disk, text) ==
  LET loc[k \in 0 .. Len(text.toks)] ==
        IF k = 0 THEN RootLoc ELSE Enter(disk, loc[k - 1], text.toks[k])
  IN  loc[Len(text.toks)]

\* The entry found for an expanded text; every text is followed from the root.
Find(text) ==
  LET loc  == Follow(dirs, ParentText(text))
      name == IF FileName(text) = NoName THEN "." ELSE FileName(text)
      i    == find_file(name, Array(loc))
  IN  IF i = 0 THEN NoEntry ELSE dirs[loc][i]

Expand(input) == expand_pathname(cwd, input)

\* The session lives through the lookup of an argument.
Survives(input) == ~Empties(cwd, input) /\ HasSlash(Expand(input))

get_file_from_path(input) == Find(Expand(input))

fs_isDir(input)  == get_file_from_path(input).type = "dir"
fs_isFile(input) == get_file_from_path(input).type = "file"

\* get_parent_directory_and_filename: the parent comes back as a text, which
\* get_file_from_path expands once more.
ParentOf(input) == ParentText(Expand(input))
NameOf(input)   == FileName(Expand(input))

\* The parent is found and is a directory.  The code does not look at its type
\* and reads the first block of a file's extents as an array of entries; what
\* commands do whose argument has a file for its parent is left out.
ParentIsDir(input) == Survives(input) /\ Survives(ParentOf(input)) /\ fs_isDir(ParentOf(input))

-----------------------------------------------------------------------------
(* Making directories *)

\* Where bfs_get_free_blocks may put a new directory.
Granted == {l \in {next} : l <= MaxLoc} \cup {l \in {0} : MayRefuse}

\* Mutant: the parent's array goes back to where it was read.
mut_fs_mkdir(input) ==
  /\ Idle
  /\ ParentIsDir(input)
  /\ \E loc \in Granted :
       LET here  == get_file_from_path(ParentOf(input)).loc
           array == Append(Array(here), bfs_create_dir_entry(NameOf(input), loc, "dir"))
       IN  /\ next' = IF loc = 0 THEN next ELSE next + 1
           /\ IF here = 0 \/ find_file(NameOf(input), Array(here)) # 0
                THEN UNCHANGED <<dirs, making>>
                ELSE /\ dirs' = LBAwrite(dirs, here, array)
                     /\ making' = IF loc = 0 THEN None ELSE [loc |-> loc, parent |-> here]
  /\ UNCHANGED <<cwd, removing, cleared, crashes>>

\* Blocks are taken before the name is looked for: a name already there costs
\* a directory's worth of blocks.  The parent's array goes where its first
\* slot says; in an array not yet written that slot is now the new entry, so
\* that the parent itself stays as it was.  A directory whose blocks were
\* refused is listed like any other.
fs_mkdir(input) ==
  /\ Idle
  /\ ParentIsDir(input)
  /\ \E loc \in Granted :
       LET parent == get_file_from_path(ParentOf(input)).loc
           entry  == bfs_create_dir_entry(NameOf(input), loc, "dir")
           array  == IF IsWritten(Array(parent)) THEN Insert(dirs[parent], entry) ELSE <<entry>>
           here   == array[1].loc
       IN  /\ next' = IF loc = 0 THEN next ELSE next + 1
           /\ IF parent = 0 \/ find_file(NameOf(input), Array(parent)) # 0
                THEN UNCHANGED <<dirs, making>>
                ELSE /\ dirs' = LBAwrite(dirs, here, array)
                     /\ making' = IF loc = 0 THEN None ELSE [loc |-> loc, parent |-> here]
  /\ UNCHANGED <<cwd, removing, cleared, crashes>>

\* Mutant: the location of ".." is left at zero.
mut_WriteNewDir ==
  /\ making # None
  /\ dirs' = [dirs EXCEPT ![making.loc] =
                <<bfs_create_dir_entry(".", making.loc, "dir"),
                  bfs_create_dir_entry("..", 0, "dir")>>]
  /\ making' = None
  /\ UNCHANGED <<cwd, next, removing, cleared, crashes>>

\* Then the array of the new directory.
WriteNewDir ==
  /\ making # None
  /\ dirs' = [dirs EXCEPT ![making.loc] =
                <<bfs_create_dir_entry(".", making.loc, "dir"),
                  bfs_create_dir_entry("..", making.parent, "dir")>>]
  /\ making' = None
  /\ UNCHANGED <<cwd, next, removing, cleared, crashes>>

-----------------------------------------------------------------------------
(* Creating, deleting and renaming files *)

\* b_open with O_CREAT.  The name alone, without its directory, is looked for
\* from the session's path.  In a directory not yet written the entry lands
\* where no search looks.  Refused blocks end the command before it lists
\* anything.
b_open(input) ==
  /\ Idle /\ next <= MaxLoc
  /\ ~fs_isDir(input) /\ ParentIsDir(input)
  /\ get_file_from_path(Rel(<<NameOf(input)>>)) = NoEntry
  /\ LET loc == get_file_from_path(ParentOf(input)).loc
     IN  dirs' = LBAwrite(dirs, loc,
                   Insert(Array(loc), bfs_create_dir_entry(NameOf(input), next, "file")))
  /\ next' = next + 1
  /\ UNCHANGED <<cwd, making, removing, cleared, crashes>>

\* The file freed is the one the name alone finds from the session's path; the
\* entry removed is that of the same name in the directory of the argument.
fs_delete(input) ==
  LET file == get_file_from_path(Rel(<<NameOf(input)>>))
      loc  == get_file_from_path(ParentOf(input)).loc
      i    == find_file(file.name, Array(loc))
  IN  IF file.type # "file" \/ i = 0
        THEN [dirs |-> dirs, cleared |-> cleared]
        ELSE [dirs |-> [dirs EXCEPT ![loc] = RemoveAt(@, i)],
              cleared |-> cleared \cup {file.loc}]

\* rm of a file.
cmd_rm(input) ==
  /\ Idle
  /\ fs_isFile(input) /\ ParentIsDir(input)
  /\ dirs' = fs_delete(input).dirs
  /\ cleared' = fs_delete(input).cleared
  /\ UNCHANGED <<cwd, next, making, removing, crashes>>

FirstLoc(dir) == IF dir = <<>> THEN 0 ELSE dir[1].loc

\* Within a directory: a file that the destination's name finds from the
\* session's path is deleted, then the array read before that is written back.
\* Across directories: the entry of the directory src is in, under that
\* directory's own name, is appended to the destination.
b_move(dest, src) ==
  LET destEntry == get_file_from_path(ParentOf(dest))
      srcEntry  == get_file_from_path(ParentOf(src))
      doomed    == Rel(<<NameOf(dest)>>)
  IN  /\ Idle
      /\ Survives(src) /\ get_file_from_path(src) # NoEntry
      /\ ParentIsDir(dest) /\ ParentIsDir(src)
      /\ \E destDir \in Buffers(destEntry.loc) :
           IF FirstLoc(destDir) = FirstLoc(Array(srcEntry.loc))
             THEN /\ find_file(NameOf(dest), destDir) # 0 /\ ParentIsDir(doomed)
                  /\ dirs' = LBAwrite(fs_delete(doomed).dirs, destEntry.loc, destDir)
                  /\ cleared' = fs_delete(doomed).cleared
             ELSE /\ Len(destDir) < MaxSlots
                  /\ dirs' = LBAwrite(dirs, destEntry.loc, Insert(destDir, srcEntry))
                  /\ UNCHANGED cleared
      /\ UNCHANGED <<cwd, next, making, removing, crashes>>

-----------------------------------------------------------------------------
(* Removing directories: bfs_remove_dir, whose recursion is the sequence     *)
(* removing of the calls that have not returned, each with the location of   *)
(* its directory and the entries of its buffer still to be visited.          *)

\* Mutant: the first child is skipped.
mut_Calls(loc) == {[loc |-> loc, todo |-> SubSeq(dir, 4, Len(dir))] : dir \in Buffers(loc)}

\* The directory is read once, when the call begins.
Calls(loc) == {[loc |-> loc, todo |-> SubSeq(dir, 3, Len(dir))] : dir \in Buffers(loc)}

\* rm of a directory.  The root is refused.
fs_rmdir(input) ==
  LET loc == get_file_from_path(input).loc
  IN  /\ Idle
      /\ Survives(input) /\ fs_isDir(input)
      /\ loc # RootLoc
      /\ \E call \in Calls(loc) : removing' = <<call>>
      /\ UNCHANGED <<dirs, cwd, next, making, cleared, crashes>>

\* The innermost call and, one step later in its loop, what it becomes.
Innermost == Last(removing)
Visited   == Append(Front(removing), [Innermost EXCEPT !.todo = Tail(@)])

\* The innermost call has come to an entry of that type.
AtEntry(type) == removing # <<>> /\ Innermost.todo # <<>> /\ Head(Innermost.todo).type = type

RemoveFile ==
  /\ AtEntry("file")
  /\ cleared' = cleared \cup {Head(Innermost.todo).loc}
  /\ removing' = Visited
  /\ UNCHANGED <<dirs, cwd, next, making, crashes>>

\* Mutant: the loop does not go on behind the subdirectory.
mut_RemoveSubdir ==
  /\ AtEntry("dir")
  /\ IF Len(removing) > 2 \/ Head(Innermost.todo).loc = RootLoc
       THEN UNCHANGED removing
       ELSE \E call \in Calls(Head(Innermost.todo).loc) : removing' = Append(removing, call)
  /\ UNCHANGED <<dirs, cwd, next, making, cleared, crashes>>

\* Mutant: the root is not refused.
mut_RemoveSubdir_root ==
  /\ AtEntry("dir") /\ Len(removing) < MaxDepth
  /\ \E call \in Calls(Head(Innermost.todo).loc) : removing' = Append(Visited, call)
  /\ UNCHANGED <<dirs, cwd, next, making, cleared, crashes>>

\* mv may have put the root, or a directory above this one, among the entries.
RemoveSubdir ==
  /\ AtEntry("dir")
  /\ IF Head(Innermost.todo).loc = RootLoc
       THEN removing' = Visited
       ELSE /\ Len(removing) < MaxDepth
            /\ \E call \in Calls(Head(Innermost.todo).loc) : removing' = Append(Visited, call)
  /\ UNCHANGED <<dirs, cwd, next, making, cleared, crashes>>

\* The stack is full, and the session dies.
StackOverflow ==
  /\ AtEntry("dir") /\ Head(Innermost.todo).loc # RootLoc
  /\ Len(removing) = MaxDepth
  /\ removing' = <<>> /\ cwd' = Slash
  /\ UNCHANGED <<dirs, next, making, cleared, crashes>>

\* Mutant: the rest of the parent is cut off.
mut_Unlink(loc) ==
  LET up    == IF IsWritten(Array(loc)) THEN dirs[loc][2].loc ELSE 0
      upper == Array(up)
  IN  IF Len(upper) >= 3 /\ upper[3].loc = loc
        THEN [dirs EXCEPT ![up] = SubSeq(@, 1, 2)]
        ELSE dirs

\* The parent's array is searched for the location, but only its slot 3: from
\* slot 4 on the search goes through the removed directory's own entries,
\* finds nothing there and gives up.  The ".." of a directory not yet written
\* has no location.
Unlink(loc) ==
  LET up    == IF IsWritten(Array(loc)) THEN dirs[loc][2].loc ELSE 0
      upper == Array(up)
  IN  IF Len(upper) >= 3 /\ upper[3].loc = loc
        THEN [dirs EXCEPT ![up] = RemoveAt(@, 3)]
        ELSE dirs

\* The blocks of a directory that were refused cannot be freed: the call fails
\* before it looks at the parent.
EndRemove ==
  /\ removing # <<>> /\ Innermost.todo = <<>>
  /\ cleared' = cleared \cup ({Innermost.loc} \ {0})
  /\ dirs' = Unlink(Innermost.loc)
  /\ removing' = Front(removing)
  /\ UNCHANGED <<cwd, next, making, crashes>>

-----------------------------------------------------------------------------
(* The session *)

\* Mutant: the target is not asked to be a directory.
mut_fs_setcwd(input) ==
  /\ Idle
  /\ Survives(input) /\ get_file_from_path(input) # NoEntry
  /\ cwd' = expand_pathname(cwd, input)
  /\ Len(cwd'.toks) <= MaxCwd
  /\ UNCHANGED <<dirs, next, making, removing, cleared, crashes>>

\* bfs_path is freed and then expanded: the copy of the input may have taken
\* its place, and otherwise there may be anything, the old path included.
fs_setcwd(input) ==
  /\ Idle
  /\ Survives(input) /\ fs_isDir(input)
  /\ \E freed \in {cwd, input, Garbage} :
       ~Empties(freed, input) /\ cwd' = expand_pathname(freed, input)
  /\ Len(cwd'.toks) <= MaxCwd
  /\ UNCHANGED <<dirs, next, making, removing, cleared, crashes>>

\* The session ends, on exit or because a lookup kills it, and a new one begins
\* at the root.
Restart ==
  /\ Idle
  /\ cwd' = Slash
  /\ UNCHANGED <<dirs, next, making, removing, cleared, crashes>>

\* The session dies in the middle of a command.
Crash ==
  /\ ~Idle
  /\ crashes < MaxCrashes
  /\ crashes' = crashes + 1
  /\ cwd' = Slash
  /\ making' = None
  /\ removing' = <<>>
  /\ UNCHANGED <<dirs, next, cleared>>

\* A volume just formatted: the root lists nothing but itself.
Init ==
  /\ dirs = [l \in Locs |->
               IF l = RootLoc THEN <<bfs_create_dir_entry(".", RootLoc, "dir"),
                                     bfs_create_dir_entry("..", RootLoc, "dir")>>
               ELSE <<>>]
  /\ cwd = Slash
  /\ next = RootLoc + 1
  /\ making = None /\ removing = <<>>
  /\ cleared = {} /\ crashes = 0

Proceed == WriteNewDir \/ RemoveFile \/ RemoveSubdir \/ StackOverflow \/ EndRemove

Next ==
  \/ \E t \in MkdirPaths : fs_mkdir(t)
  \/ \E t \in TouchPaths : b_open(t)
  \/ \E t \in RmPaths : cmd_rm(t)
  \/ \E t \in RmPaths : fs_rmdir(t)
  \/ \E m \in Moves : b_move(m[1], m[2])
  \/ \E t \in CdPaths : fs_setcwd(t)
  \/ Proceed
  \/ Restart
  \/ Crash

Spec == Init /\ [][Next]_vars

\* A command under way goes on by itself: the shell waits for its return.
FairSpec == Spec /\ WF_vars(Proceed)
-----------------------------------------------------------------------------
(* What ls shows *)

\* Mutant: reading stops where lookups stop.
mut_fs_readdir(dir) == {dir[i].name : i \in 3 .. Smaller(Len(dir), Capacity)}

\* fs_readdir, called until it returns NULL: every name up to the end of the
\* array (ls leaves out those that begin with a dot).  An array not yet written
\* ends in its first slot.
fs_readdir(dir) == {dir[i].name : i \in IF IsWritten(dir) THEN 3 .. Len(dir) ELSE {}}

-----------------------------------------------------------------------------
(* Properties *)

Entry   == [name : Names \cup {NoName, ".", ".."}, loc : Locs \cup {0}, type : {"dir", "file", "none"}]
Listed(loc) == SubSeq(Array(loc), 3, Len(Array(loc)))
Written == {l \in Locs : IsWritten(dirs[l])}
IsReady(loc) ==
  /\ Len(dirs[loc]) >= 2
  /\ dirs[loc][1] = bfs_create_dir_entry(".", loc, "dir")
  /\ dirs[loc][2].name = ".." /\ dirs[loc][2].type = "dir" /\ dirs[loc][2].loc # 0

\* Every variable has its type.
TypeOK ==
  /\ dirs \in [Locs -> Seq(Entry)] /\ \A l \in Locs : Len(dirs[l]) <= Capacity + 1
  /\ cwd \in Text(Names \cup {".", "..", "?"})
  /\ next \in 2 .. MaxLoc + 1
  /\ making \in [loc : Locs \cup {0}, parent : Locs \cup {0}]
  /\ removing \in Seq([loc : Locs \cup {0}, todo : Seq(Entry)]) /\ Len(removing) <= MaxDepth
  /\ cleared \subseteq Locs
  /\ crashes \in 0 .. MaxCrashes

\* Without mv, and with absolute arguments to cd, the directories, those removed
\* included, form trees, refused blocks and full directories notwithstanding:
\* "." is the directory itself, ".." the directory that lists it, nothing is
\* listed twice, and a subdirectory shares its name with nothing.  (From a
\* relative path, touch can put a file beside a directory of its name; cd's
\* with one token from the root do not get there.)  Only a crash leaves an
\* array unwritten, or one entry for an array where no directory lists it.
TreeShape ==
  \A l \in Written : Len(dirs[l]) > 1 =>
    /\ IsReady(l)
    /\ \A i \in 3 .. Len(dirs[l]) :
         /\ dirs[l][i].type = "dir" /\ dirs[l][i].loc \notin {0, making.loc} =>
              IF dirs[l][i].loc \in Written
                THEN IsReady(dirs[l][i].loc) /\ dirs[dirs[l][i].loc][2].loc = l
                ELSE crashes > 0
         /\ \A m \in Written : \A j \in 3 .. Len(dirs[m]) :
              dirs[l][i].loc = dirs[m][j].loc /\ dirs[l][i].loc # 0 => l = m /\ i = j
         /\ \A j \in 3 .. Len(dirs[l]) :
              dirs[l][i].type = "dir" /\ dirs[l][i].name = dirs[l][j].name => i = j

\* When the removal of a directory returns, everything its array still lists
\* has been freed, and a file comes first: subdirectories are taken out up to
\* the first file and no further.
RemovalLeaves ==
  [][removing # <<>> /\ removing' = Front(removing) /\ crashes' = crashes =>
       LET left == Listed(Innermost.loc)
       IN  /\ \A i \in DOMAIN left : left[i].loc \in cleared'
           /\ left # <<>> => left[1].type = "file"]_vars

\* A removal comes to an end, whatever it removes, if only by filling the stack.
RemovalEnds == removing # <<>> ~> removing = <<>>

\* Without refused blocks, every call of a removal works on what the directory
\* of the call around it lists, at any depth and after any mv: nothing that is
\* not below the argument of rm is freed, although every call unlinks its
\* directory from an array that calls around it have read before.
RemovalFollowsListing ==
  \A k \in DOMAIN removing :
    /\ ToSet(removing[k].todo) \subseteq ToSet(Listed(removing[k].loc))
    /\ k > 1 => \E e \in ToSet(Listed(removing[k - 1].loc)) :
                   e.type = "dir" /\ e.loc = removing[k].loc

\* No removal goes through the root or frees it, although mv can list it
\* anywhere, and no command damages the first entries of its array.
RootIsNeverRemoved ==
  /\ RootLoc \notin cleared /\ IsReady(RootLoc)
  /\ \A k \in DOMAIN removing : removing[k].loc # RootLoc

\* The tree below the root as lookups see it, as deep as the bound on locations
\* lets it be: the nodes below those of nodes, and the nodes at each depth.
Below(nodes) ==
  UNION {{[path |-> Append(n.path, dirs[n.loc][i].name),
           loc  |-> dirs[n.loc][i].loc,
           type |-> dirs[n.loc][i].type] : i \in 3 .. Smaller(Len(dirs[n.loc]), Capacity)} :
         n \in {m \in nodes : m.type = "dir" /\ IsWritten(Array(m.loc))}}
Level[k \in 0 .. MaxLoc - 1] ==
  IF k = 0 THEN {[path |-> <<>>, loc |-> RootLoc, type |-> "dir"]} ELSE Below(Level[k - 1])
tree ==
  UNION {{[path |-> n.path, type |-> n.type] : n \in Level[k]} : k \in 1 .. MaxLoc - 1}

\* Without mv, the lookup of an absolute path finds what the tree has there, and
\* nothing else.
LookupFollowsTree ==
  tree = {n \in [path : UNION {[1 .. k -> Names] : k \in 1 .. MaxLoc - 1}, type : {"dir", "file"}] :
            Find(Abs(n.path)).type = n.type}

\* What ls shows and what lookups find in a directory is the same, but for an
\* over-full one: ls shows the name behind the last whole entry, and no lookup
\* finds it, neither to delete it nor to see that it is there.
ListingAgreesWithLookup ==
  \A k \in 0 .. MaxLoc - 1 : \A n \in Level[k] : n.type = "dir" =>
    LET shown == fs_readdir(Array(n.loc))
        found == {name \in Names : Find(Abs(Append(n.path, name))) # NoEntry}
    IN  /\ found \subseteq shown
        /\ Cardinality(shown \ found) =
             IF IsWritten(Array(n.loc)) /\ Len(Array(n.loc)) > Capacity THEN 1 ELSE 0

\* The commands implement the tree of PathTree: one leaf is added at a time,
\* and what a removal takes away lies below one path.
Tree == INSTANCE PathTree WITH nodes <- tree
ImplementsPathTree == Tree!Spec

\* A directory a crash has left listed and unwritten stays unwritten for ever:
\* what is created in it is lost, and its name cannot be given again.
UnreadyIsForever ==
  [][\A l \in Locs : \A i \in 3 .. Len(dirs[l]) :
       LET d == dirs[l][i].loc
       IN  Idle /\ dirs[l][i].type = "dir" /\ d # 0 /\ d \notin Written => d \notin Written']_vars

\* No command lists an existing file at a place it was not listed at before, mv
\* included, which is there to move files (MvMovesFiles).
FilesStayPut ==
  [][\A f \in 2 .. next - 1, l \in Locs :
       [name : Names, loc : {f}, type : {"file"}] \cap ToSet(dirs'[l])
         \subseteq ToSet(dirs[l])]_vars

\* With absolute arguments to cd, a directory listed anywhere stays listed
\* there, through mv with any arguments, deletions and crashes, until its blocks
\* are freed: what b_move writes back over what fs_delete has written loses
\* none.  One whose blocks were refused stays for ever.
DirsStayListed ==
  [][\A l \in Written :
       \A e \in ToSet(Listed(l)) : e.type = "dir" =>
         e \in ToSet(Listed(l)') \/ (e.loc # 0 /\ e.loc \in cleared')]_vars

\* With absolute arguments to cd, the session's path leads to a directory until
\* a removal takes that directory, or one above it, out of its parent.
CwdStaysDirectory ==
  [][removing = <<>> /\ cwd.rooted /\ Follow(dirs, cwd) # 0 =>
       \A disk \in {dirs'}, path \in {cwd'} : path.rooted /\ Follow(disk, path) # 0]_vars

\* As long as commands name files in the session's own directory, a directory
\* never lists a name twice (b_io.c: when the file does not exist, create it),
\* although touch and md do not find the name behind the last whole entry: what
\* they list a second time does not reach the disk.
NamesUnique ==
  \A l \in Written : \A i, j \in 3 .. Len(dirs[l]) :
    dirs[l][i].name = dirs[l][j].name => i = j

-----------------------------------------------------------------------------
(* What the headers and comments say, and the code does not do *)

\* fsshell.c's help: mv moves a file, from the source to the destination.
MvMovesFiles ==
  [][\A m \in Moves : b_move(m[1], m[2]) /\ fs_isFile(m[2]) =>
       get_file_from_path(m[1])'.loc = get_file_from_path(m[2]).loc]_vars

\* bfs.h: bfs_remove_dir removes a directory and its contents; here: what it
\* frees is what the directory it was called for lists, or the directory.
RemovalFreesItsOwn ==
  [][removing # <<>> => \A l \in cleared' \ cleared :
       l = Innermost.loc \/ \E e \in ToSet(Listed(Innermost.loc)) : e.loc = l]_vars
=============================================================================
