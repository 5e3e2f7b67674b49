---------------------------- MODULE MCChainOpen ----------------------------
(* Small libraries of images for ChainOpen. *)
EXTENDS ChainOpen, TLC

CONSTANTS f1, f2, f3, g1, g2

\* What one file may hold, by the part it plays.
Unreadable == [parses |-> FALSE, diff |-> FALSE, size |-> 1, link |-> NoId, wants |-> NoId, guid |-> NoId, named |-> TRUE]
Base(size, link, guid, named) ==
  [parses |-> TRUE, diff |-> FALSE, size |-> size, link |-> link, wants |-> NoId, guid |-> guid, named |-> named]
Child(wants, link, guid, named) ==
  [parses |-> TRUE, diff |-> TRUE, size |-> 1, link |-> link, wants |-> wants, guid |-> guid, named |-> named]

\* A leaf, a middle image that may lead anywhere, and a base that may be wrong.
MCLibraries ==
  {f1 :> leaf @@ f2 :> middle @@ f3 :> base :
     leaf \in {Child(w, g1, g1, n) : w \in {NoId, g2}, n \in BOOLEAN},
     middle \in {Child(w, g2, i, n) : w \in {NoId, g1}, i \in {NoId, g1, g2}, n \in BOOLEAN},
     base \in {Unreadable} \cup {Base(s, l, g2, n) : s \in {1, 2}, l \in {g1, g2}, n \in BOOLEAN}}

\* A child, another child of the same parent, and that parent.
MCSiblings ==
  {f1 :> Child(g1, g2, g2, TRUE) @@ f2 :> Child(w, g1, NoId, TRUE) @@ f3 :> base :
     w \in {g1, g2}, base \in {Unreadable, Base(1, g1, g1, TRUE), Base(2, g1, g1, TRUE)}}

\* Two children of one parent.
MCTwoChildren ==
  {f1 :> Child(g1, g2, g2, TRUE) @@ f2 :> Child(g1, g2, g2, TRUE) @@ f3 :> Base(1, g1, g1, TRUE)}
ChildSymmetry == Permutations({f1, f2})

AllOptions == [require : BOOLEAN, allow : BOOLEAN]
IdentityChecked == [require : BOOLEAN, allow : {FALSE}]
=============================================================================
