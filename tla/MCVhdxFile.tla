----------------------------- MODULE MCVhdxFile -----------------------------
(***************************************************************************)
(* A log of a few sectors that wraps after two or three entries, and       *)
(* transactions of one sector, of two sectors (whose descriptors spill     *)
(* into a second sector) and of a data sector with a run of zeroes.        *)
(***************************************************************************)
EXTENDS VhdxFile

Data(s)      == [kind |-> "desc", at |-> s, len |-> 1]
Clear(s, n)  == [kind |-> "zero", at |-> s, len |-> n]

MCTransactions == {<<Data(0)>>, <<Data(2), Data(0)>>, <<Clear(1, 2), Data(1)>>}
OneTransaction == {<<Data(0)>>}
MCRequests == {<<0, 6>>, <<1, 2>>, <<3, 3>>, <<4, 2>>}
=============================================================================
