--------------------------- MODULE ChoiceEncoding ---------------------------
(***************************************************************************)
(* How a vote for a party and one of its candidates is laid out in cells   *)
(* of zeros and ones, what the zero-knowledge proofs of a ballot state     *)
(* about the cells, and how ballots are added up.                          *)
(*                                                                         *)
(* A choice holds its matrix row by row, as the code does. Encrypted, the  *)
(* rows are flattened: a function on the pairs <<party, candidate>>.       *)
(***************************************************************************)
EXTENDS ChoiceParameters, Sequences

CONSTANTS
  CAI_POW,  \* 10^CAI_DIGITS, the modulus of the cast-as-intended codes
  U32       \* 2^32, the modulus of the arithmetic on the codes

ASSUME CAIAssumption == CAI_POW \in Nat \ {0}
ASSUME U32Assumption == U32 \in Nat /\ 2 * CAI_POW <= U32
-----------------------------------------------------------------------------
(* Choice                                                                  *)

\* The checks of Choice::new: the party exists and the party has every
\* candidate in the list.
ChoiceOk(l1, l2, ln2) ==
  /\ l1 \in DOMAIN ln2
  /\ \A k \in DOMAIN l2 : l2[k] < ln2[l1]

\* The choice that Choice::new returns: one-hot for the party, and a one for
\* every candidate in the list.
NewChoice(l1, l2, ln2) ==
  [l1_value |-> l1,
   l2_value |-> l2,
   l1 |-> [i \in DOMAIN ln2 |-> IF i = l1 THEN 1 ELSE 0],
   l2 |-> [i \in DOMAIN ln2 |->
             [j \in Upto(ln2[i]) |-> IF i = l1 /\ j \in Range(l2) THEN 1 ELSE 0]]]
-----------------------------------------------------------------------------
(* Encryption. An encrypted cell is represented by its plaintext exponent. *)

Bit(n) == IF n = 1 THEN 1 ELSE 0

\* The rows that go with the cells of the first level; further ones are left out.
RowLengths(choice) == [i \in DOMAIN choice.l1 |-> Cardinality(DOMAIN choice.l2[i])]

\* Every party has a row, and each list has the first element that the ranked
\* sums slice off: otherwise an index or a slice is out of bounds.
RowsOk(choice) ==
  /\ DOMAIN choice.l1 # {}
  /\ \A i \in DOMAIN choice.l1 : i \in DOMAIN choice.l2 /\ DOMAIN choice.l2[i] # {}

EncrChoice(choice) ==
  [l1 |-> [i \in DOMAIN choice.l1 |-> Bit(choice.l1[i])],
   l2 |-> [c \in Cells(RowLengths(choice)) |-> Bit(choice.l2[c[1]][c[2]])]]

\* EncrChoice::identity, the empty tally.
IdentityChoice(ln2) ==
  [l1 |-> [i \in DOMAIN ln2 |-> 0], l2 |-> [c \in Cells(ln2) |-> 0]]

\* Mutated form of the next definition: the cells of the right operand.
AddChoice_RightCells(acc, e) ==
  [l1 |-> [i \in DOMAIN e.l1 |->
             IF i \in DOMAIN acc.l1 THEN acc.l1[i] + e.l1[i] ELSE e.l1[i]],
   l2 |-> [c \in DOMAIN e.l2 |->
             IF c \in DOMAIN acc.l2 THEN acc.l2[c] + e.l2[c] ELSE e.l2[c]]]

\* AddAssign: cell by cell, over the cells of the left operand.
AddChoice(acc, e) ==
  [l1 |-> [i \in DOMAIN acc.l1 |-> acc.l1[i] + e.l1[i]],
   l2 |-> [c \in DOMAIN acc.l2 |-> acc.l2[c] + e.l2[c]]]
-----------------------------------------------------------------------------
(* The proof that the cells encode one vote (ProofEncrChoice).             *)

SumParties(e) == SumFunction(e.l1)

SumCandidates(e, i) == SumFunctionOnSet(e.l2, {c \in DOMAIN e.l2 : c[1] = i})

\* Mutated form of the next definition: parties and candidates are not tied.
ChoiceProofVerifies_NoRowSums(e, ln2) ==
  /\ SumParties(e) = 1
  /\ \A c \in Cells(ln2) : e.l2[c] \in {0, 1}
  /\ \A i \in DOMAIN ln2 : e.l1[i] \in {0, 1}

\* The relations a verifier checks, over the cells of the election.
ChoiceProofVerifies(e, ln2) ==
  /\ SumParties(e) = 1
  /\ \A c \in Cells(ln2) : e.l2[c] \in {0, 1}
  /\ \A i \in DOMAIN ln2 :
       /\ e.l1[i] \in {0, 1}
       /\ e.l1[i] = SumCandidates(e, i)

\* A proof can be attempted: the cells of the election are there, and every
\* cell is a witness of "zero or one" (OrWitness::new panics on others).
ChoiceProvable(choice, ln2) ==
  /\ DOMAIN ln2 \subseteq DOMAIN choice.l1
  /\ Cells(ln2) \subseteq Cells(RowLengths(choice))
  /\ \A i \in DOMAIN ln2 : choice.l1[i] \in {0, 1}
  /\ \A c \in Cells(ln2) : choice.l2[c[1]][c[2]] \in {0, 1}
-----------------------------------------------------------------------------
(* Cast-as-intended: a random code for the party and one for the           *)
(* candidate, each encrypted with its sum with the choice modulo CAI_POW.  *)

\* The indices are of type usize, the codes and sums of type u32.
AsU32(n) == n % U32

\* What the codes take for the indices of the choice; of the list of
\* candidates the first one.
IndexCell(choice) == <<AsU32(choice.l1_value), AsU32(choice.l2_value[1])>>

\* ValuesCAI::new, in a build without overflow checks.
ValuesCAI(choice, l1_code, l2_code) ==
  [l1_code |-> l1_code, l1_sum |-> AsU32(l1_code + IndexCell(choice)[1]),
   l2_code |-> l2_code, l2_sum |-> AsU32(l2_code + IndexCell(choice)[2])]

\* With overflow checks, as in a debug build, ValuesCAI::new panics here.
SumOverflows(choice, l1_code, l2_code) ==
  l1_code + IndexCell(choice)[1] >= U32 \/ l2_code + IndexCell(choice)[2] >= U32

\* Mutated form of the next definition: the sums are not reduced.
EncrValuesCAI_Unreduced(cai) ==
  [l1_code |-> cai.l1_code, l1_sum |-> cai.l1_sum,
   l2_code |-> cai.l2_code, l2_sum |-> cai.l2_sum]

EncrValuesCAI(cai) ==
  [l1_code |-> cai.l1_code, l1_sum |-> cai.l1_sum % CAI_POW,
   l2_code |-> cai.l2_code, l2_sum |-> cai.l2_sum % CAI_POW]

\* Ciphertext::ranked_sum of all cells but the first: the rank of a cell is
\* its index.
RankedParty(e) == SumFunction([i \in DOMAIN e.l1 |-> i * e.l1[i]])
\* Mutated form of the next definition: the first cell is ranked, too.
RankedCandidate_FromFirst(e) ==
  SumFunction([c \in DOMAIN e.l2 |-> (c[2] + 1) * e.l2[c]])

RankedCandidate(e) == SumFunction([c \in DOMAIN e.l2 |-> c[2] * e.l2[c]])

\* The branch of "zero or CAI_POW" the prover knows.
CAIWitness(cai) == [l1 |-> cai.l1_sum \div CAI_POW, l2 |-> cai.l2_sum \div CAI_POW]

\* OrWitness::new takes the index of one of two branches and panics on others.
CAIProvable(cai) == CAIWitness(cai).l1 < 2 /\ CAIWitness(cai).l2 < 2

\* ProofCAI: code plus rank minus sum is 0 or CAI_POW, and the proof was made
\* for the branch that holds.
CAIProofVerifies(e, enc_cai, wit) ==
  /\ enc_cai.l1_code + (RankedParty(e) - enc_cai.l1_sum) = wit.l1 * CAI_POW
  /\ enc_cai.l2_code + RankedCandidate(e) - enc_cai.l2_sum = wit.l2 * CAI_POW
-----------------------------------------------------------------------------
(* The audit of the cast-as-intended codes: of each pair of code and sum   *)
(* the device reveals one with the randomness it was encrypted with, and   *)
(* who has the ballot extracts the value. An encrypted value is            *)
(* represented by its plaintext, its randomness by the name of its field.  *)

CAIField ==
  [l1 |-> [code |-> "l1_code", sum |-> "l1_sum"],
   l2 |-> [code |-> "l2_code", sum |-> "l2_sum"]]

\* Mutated form of the next definition: the sum is shown as it is kept.
Reveal_Unreduced(cai, asked) ==
  [l \in DOMAIN CAIField |->
     [kind |-> asked[l],
      l_v  |-> cai[CAIField[l][asked[l]]],
      l_r  |-> CAIField[l][asked[l]]]]

\* ExtendedEncrValuesCAI::reveal: the sum is kept without the reduction.
Reveal(cai, asked) ==
  [l \in DOMAIN CAIField |->
     [kind |-> asked[l],
      l_v  |-> IF asked[l] = "code" THEN cai[CAIField[l].code]
               ELSE cai[CAIField[l].sum] % CAI_POW,
      l_r  |-> CAIField[l][asked[l]]]]

\* DiscloseCAI::from_reveal: the randomness only.
FromReveal(reveal) ==
  [l \in DOMAIN reveal |-> [kind |-> reveal[l].kind, l_r |-> reveal[l].l_r]]

\* EncrValuesCAI::extract_CAI_values: decrypts the field that the disclosure
\* names. With other randomness the point is not in the table of logarithms.
NotInTable == "Err"

ExtractCAIValues(enc_cai, discl) ==
  [l \in DOMAIN discl |->
     LET field == CAIField[l][discl[l].kind] IN
       [kind |-> discl[l].kind,
        l_v  |-> IF discl[l].l_r = field THEN enc_cai[field] ELSE NotInTable,
        l_r  |-> discl[l].l_r]]
=============================================================================
