-------------------------- MODULE MCCheckpointTree --------------------------
(* Instances of CheckpointTree: two directories and six places for a file.  *)
EXTENDS CheckpointTree, TLC

MCPathOrder == <<<<"a">>, <<"b">>, <<"c">>, <<"old.bin">>, <<"sub", "a">>, <<"sub", "b">>>>
MCDirs      == <<<<>>, <<"sub">>>>
MCExtraDirs == <<<<"sub">>>>

Disk(id, want, hints, of) ==
  [id |-> id, gen |-> id, diff |-> want >= 0, want |-> IF want < 0 THEN 0 ELSE want,
   hints |-> hints, ok |-> TRUE, of |-> of]
By(path) == <<[absolute |-> FALSE, path |-> path]>>
Lost == <<98, 98>>

\* A base in the root, its checkpoint, and a checkpoint of that in sub.
Chain == (<<"a">> :> Disk(1, -1, <<>>, NoContent))
           @@ (<<"b">> :> Disk(2, 1, By(<<"a">>), <<1, 1>>))
           @@ (<<"sub", "a">> :> Disk(3, 2, By(<<"..", "b">>), <<2, 2>>))

\* A base with no identity under a checkpoint, and another disk.
Unnamed == (<<"b">> :> Disk(0, -1, <<>>, NoContent))
             @@ (<<"a">> :> Disk(1, 0, By(<<"b">>), <<0, 0>>))
             @@ (<<"c">> :> Disk(2, -1, <<>>, NoContent))

\* An image that records itself, and a chain whose only hint is an absolute
\* path that is no longer there.
Damaged == (<<"a">> :> Disk(1, 1, By(<<"a">>), Lost))
             @@ (<<"b">> :> Disk(2, -1, <<>>, NoContent))
             @@ (<<"c">> :> Disk(3, 2, <<[absolute |-> TRUE, path |-> <<"x", "b">>]>>, <<2, 2>>))

\* Two checkpoints that record each other.
Circle == (<<"a">> :> Disk(1, 2, By(<<"b">>), Lost))
            @@ (<<"b">> :> Disk(2, 1, By(<<"a">>), Lost))
            @@ (<<"c">> :> Disk(3, -1, <<>>, NoContent))

Sound    == {Chain, Unnamed, Damaged}
Circular == {Circle}

ASSUME SoundAssumption == \A l \in Sound, f \in {"VHD", "VHDX"} : Consistent(f, l)
=============================================================================
