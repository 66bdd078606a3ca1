------------------------------ MODULE PathTree ------------------------------
(***************************************************************************)
(* What the namespace promises a user who makes, creates, deletes and      *)
(* removes: a set of paths, closed under prefix, to which one leaf at a    *)
(* time is added under a directory, and from which a step takes paths of   *)
(* one subtree only.                                                       *)
(***************************************************************************)
EXTENDS Sequences, SequencesExt

CONSTANT Names

VARIABLE nodes  \* the paths, each with the type of what it leads to

Types == {"dir", "file"}
IsDir(path, tree) == path = <<>> \/ [path |-> path, type |-> "dir"] \in tree

Init == nodes = {}

\* One new path, in a directory.
Add(old, new) ==
  \E n \in new \ old :
    /\ new = old \cup {n}
    /\ \A m \in old : m.path # n.path
    /\ n.type \in Types /\ Last(n.path) \in Names /\ IsDir(Front(n.path), old)

\* Paths that all begin with the same one are gone, with all below them.
Prune(old, new) ==
  \E root \in old \ new :
    /\ new \subseteq old
    /\ \A n \in old \ new : IsPrefix(root.path, n.path)
    /\ \A n \in new : IsDir(Front(n.path), new)

\* The bounds give the two sets a value before they are compared.
Next == \E old \in {nodes}, new \in {nodes'} : Add(old, new) \/ Prune(old, new)

Spec == Init /\ [][Next]_nodes
=============================================================================
