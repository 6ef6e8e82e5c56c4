-------------------------- MODULE ChoiceParameters --------------------------
(***************************************************************************)
(* The parameters of an election: parties, each with a list of candidates. *)
(* Indices start at 0, as in the code. The parameters are the function ln2 *)
(* that gives every party its number of candidates; the number of parties  *)
(* n1 is the size of its domain.                                           *)
(***************************************************************************)
EXTENDS Integers, FiniteSets, Functions

Upto(n) == 0..(n - 1)

\* What the type Vec<usize> admits.
IsList(list) ==
  IsFiniteSet(DOMAIN list) /\ list \in [Upto(Cardinality(DOMAIN list)) -> Nat]

\* The two size checks of ChoiceParameters::new.
ParametersOk(n1, ln2) ==
  /\ DOMAIN ln2 = Upto(n1)
  /\ \A i \in DOMAIN ln2 : ln2[i] >= 1

\* "adjust" puts a party with a single candidate, the blank vote, first.
Adjusted(ln2) ==
  [i \in Upto(Cardinality(DOMAIN ln2) + 1) |-> IF i = 0 THEN 1 ELSE ln2[i - 1]]

Cells(ln2) == UNION {{i} \X Upto(ln2[i]) : i \in DOMAIN ln2}
=============================================================================
