---------------------------- MODULE MCExtentMap ----------------------------
(***************************************************************************)
(* Instances of ExtentMap over the small images.                           *)
(***************************************************************************)
EXTENDS ExtentMap, SmallImages

\* One differencing disk over a disk with no parent of its own, every block
\* state and two payload layouts in a file that ends inside the last payload,
\* or no differencing disk at all.
Rootless == {c \in Bases : c.kind # "diff"}
MCOneChild == {[i \in 0..2 |-> IF i = 0 THEN l ELSE b] :
                 l \in Leaves \cup VHDXImages("diff", [0..1 -> BlockStates], Layouts, {8}), b \in Rootless}
              \cup {[i \in 0..2 |-> b] : b \in Rootless}
MCAllChains == MCChains \cup MCOneChild

MCRanges == {<<0, 7>>, <<1, 4>>, <<3, 2>>, <<5, 9>>, <<6, 0>>}
=============================================================================
