---------------------------- MODULE MCNamespace ----------------------------
(***************************************************************************)
(* Small sets of arguments for TLC: two names, directories two deep.       *)
(***************************************************************************)
EXTENDS Namespace

AB == {"a", "b"}

A     == Abs(<<"a">>)
B     == Abs(<<"b">>)
AA    == Abs(<<"a", "a">>)
InA   == Abs(<<"a", "b">>)
HereA == Rel(<<"a">>)
HereB == Rel(<<"b">>)
Up    == Rel(<<"..">>)

Nothing == {}

TreeDirs  == {Slash, A, B, AA, InA}
TreeFiles == {B, InA}
TreeRms   == {Slash, A, InA, HereA}
TreeCds   == {Slash, A, HereA, Up}

\* A directory with room for two entries, and three names.
ABC == {"a", "b", "c"}
C      == Abs(<<"c">>)
FullDirs  == {A, B, C}
FullFiles == {A, B, C}
FullRms   == {A, B, C}

\* A name given to a file beside one of that name, and a namesake in the root.
AC == Abs(<<"a", "c">>)
RenameDirs  == {A}
RenameFiles == {InA, AC, C}
RenamePairs == {<<AC, InA>>}

MoveDirs  == {A, B, InA}
MoveFiles == {AA, B}
MovePairs == {<<InA, AA>>, <<AA, B>>, <<Abs(<<"a", "b", "a">>), AA>>}
MoveRms   == {A, B}
MoveCds   == {Slash, B}
=============================================================================
