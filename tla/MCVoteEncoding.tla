--------------------------- MODULE MCVoteEncoding ---------------------------
(* Elections with one to three parties, codes modulo 3. *)
EXTENDS VoteEncoding, TLC

\* A list of candidate numbers, indexed from 0.
List(s) == [i \in Upto(Len(s)) |-> s[i + 1]]

\* The stored choices below have the cells of the first election and more
\* cells than the second one.
StoredLists == {List(<<2, 1>>), List(<<1>>)}

\* With a list the constructor rejects, and one with more than CAI_POW
\* candidates.
MCLists ==
  StoredLists \cup {List(<<1, 2>>), List(<<1, 2, 1>>), List(<<0, 2>>), List(<<5>>)}

MCPreferences == {<<>>, <<0>>, <<1>>, <<0, 1>>, <<1, 1>>, <<3>>, <<4>>}

\* Choices with any bits in their cells and any index fields.
Bits == [l1_value : 0..1, l2_value : {<<>>, <<0>>, <<1>>, <<2>>},
         l1 : [0..1 -> 0..1],
         l2 : {(0 :> a) @@ (1 :> b) : a \in [0..1 -> 0..1], b \in [{0} -> 0..1]}]

\* A vote for the last candidate of the second party in its first list, and
\* the same with a number that is not a bit, with rows that are missing, extra
\* or empty, and with indices that do not fit u32 or make the sum leave it.
Good == NewChoice(1, <<0>>, List(<<2, 1>>))
NoRow == List(<<>>)

Odd ==
  {[Good EXCEPT !.l1[0] = 2],
   [Good EXCEPT !.l1 = NoRow],
   [Good EXCEPT !.l2 = NoRow],
   [Good EXCEPT !.l2 = 0 :> Good.l2[0]],
   [Good EXCEPT !.l2 = @ @@ (2 :> Good.l2[0])],
   [Good EXCEPT !.l2[0] = NoRow]} \cup
  {[Good EXCEPT !.l1_value = v, !.l2_value = w] : v \in {1, 7, 9}, w \in {<<0>>, <<6>>, <<8>>}}

MCStored == Bits \cup Odd
NoneStored == {}
=============================================================================
