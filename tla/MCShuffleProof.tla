--------------------------- MODULE MCShuffleProof ---------------------------
(* Three votes; elections with up to three parties and three candidates. *)
EXTENDS ShuffleProof, Sequences

List(s) == [i \in Upto(Len(s)) |-> s[i + 1]]

Uniform == {List(<<1>>), List(<<2, 2>>), List(<<1, 1, 1>>), List(<<3, 3, 3>>)}
Uneven == {List(<<2, 1>>), List(<<1, 2>>), List(<<2, 2, 3>>), Adjusted(List(<<2, 2>>))}

AllLists == Uniform \cup Uneven
=============================================================================
