---------------------------- MODULE MCChainRead ----------------------------
(***************************************************************************)
(* Instances of ChainRead over the small images: chains of three with      *)
(* intact files, and chains of two whose files are cut short.              *)
(***************************************************************************)
EXTENDS ChainRead, SmallImages

\* Chains of two with every block state, both layouts, and files cut short.
CutLeaves == VHDXImages("diff", {st \in [0..1 -> BlockStates] : st[1] \in {None, Partial}}, Layouts, {5, 8})
               \cup VHDImages("diff", {st \in VHDStates : st[0] = Full}, InOrder, {5, 8})
CutBases == VHDImages("dynamic", {[b \in 0..1 |-> IF b = 0 THEN Full ELSE None]}, InOrder, {5})
              \cup VHDXImages("dynamic", {[b \in 0..1 |-> IF b = 0 THEN Partial ELSE Full]}, InOrder, {8})
MCCutChains == {[i \in 0..1 |-> IF i = 0 THEN l ELSE b] : l \in CutLeaves, b \in CutBases}

MCRequests == {<<0, 7>>, <<1, 6>>, <<5, 4>>, <<7, 1>>, <<2, 0>>}
MCCutRequests == {<<0, 8>>, <<1, 5>>, <<7, 1>>, <<2, 0>>}
=============================================================================
