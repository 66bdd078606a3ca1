------------------------------- MODULE Paths -------------------------------
(***************************************************************************)
(* The texts that name files (expand_pathname and its callers).  A text is *)
(* the sequence of its tokens, the parts strtok finds between slashes, and *)
(* whether a slash comes first.  The path of the session, bfs_path, is a   *)
(* text too, and nothing keeps it absolute.                                *)
(***************************************************************************)
EXTENDS Integers, Sequences, SequencesExt

Text(tokens) == [rooted : BOOLEAN, toks : Seq(tokens)]

Abs(toks) == [rooted |-> TRUE, toks |-> toks]
Rel(toks) == [rooted |-> FALSE, toks |-> toks]
Slash     == Abs(<<>>)

\* One token added to the result.  ".." cuts the text at its last slash: the
\* only component of a text without one stays.
Descend(text, tok) ==
  LET canCut == Len(text.toks) > IF text.rooted THEN 0 ELSE 1
  IN  CASE tok = ".." /\ canCut   -> [text EXCEPT !.toks = Front(@)]
        [] tok \notin {"..", "."} -> [text EXCEPT !.toks = Append(@, tok)]
        [] OTHER                  -> text

\* The tokens of the input added to "/" or to the session's path.
expand_pathname(path, input) ==
  LET text[k \in 0 .. Len(input.toks)] ==
        IF k = 0 THEN IF input.rooted THEN Slash ELSE path
                 ELSE Descend(text[k - 1], input.toks[k])
  IN  text[Len(input.toks)]

\* A rooted text that ".." has left empty is replaced by "/", and on that way
\* the copy of the input is freed twice, which the allocator answers by ending
\* the program.
Empties(path, input) ==
  /\ expand_pathname(path, input) = Slash
  /\ ".." \in ToSet(input.toks)

\* The empty string: the name of the root's text, and of a slot that ends an array.
NoName == ""

\* Every caller cuts the expanded text at its last slash, takes what is behind
\* it for the file's name and what is before it, or "/", for its directory.  A
\* text without a slash leaves the name NULL, and the caller dereferences it.
HasSlash(text)   == text.rooted \/ Len(text.toks) > 1
ParentText(text) == [text EXCEPT !.toks = IF @ = <<>> THEN @ ELSE Front(@)]
FileName(text)   == IF text.toks = <<>> THEN NoName ELSE Last(text.toks)
=============================================================================
