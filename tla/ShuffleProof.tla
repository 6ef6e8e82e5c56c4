---------------------------- MODULE ShuffleProof ----------------------------
(***************************************************************************)
(* MixedVotes: the proof that a list of votes is a permuted re-encryption  *)
(* of another one. It is a core proof for the permutation and, for every   *)
(* column of the votes (one ciphertext of each vote), a commitment ed and  *)
(* a response z. The responses of the candidates' columns are one flat     *)
(* list, although the columns have two indices.                            *)
(*                                                                         *)
(* A ciphertext of a mixed vote is represented by the original vote it     *)
(* re-encrypts, a commitment or a response by the column it was made for.  *)
(***************************************************************************)
EXTENDS ChoiceParameters

CONSTANTS
  Lists,    \* numbers of candidates an election may have
  NVotes,   \* bound: votes that are mixed
  MaxFaults \* bound: ciphertexts replaced on the way to the verifier

ASSUME NVotesAssumption == NVotes \in Nat \ {0}
ASSUME ListsAssumption ==
  \A list \in Lists : IsList(list) /\ ParametersOk(Cardinality(DOMAIN list), list)

VARIABLES
  ln2,     \* the parameters of the election
  stage,   \* "mix", then the part of the proof that is verified next
  at,      \* candidates' columns verified so far
  mixed,   \* the mixed votes: the original behind every ciphertext
  perm,    \* the permutation the core proof was made for
  z_L2,    \* the responses of the candidates' columns
  faults

vars == <<ln2, stage, at, mixed, perm, z_L2, faults>>

Votes == Upto(NVotes)

PartyColumn(i) == <<"l1", i>>
CandidateColumn(c) == <<"l2", c>>
AuthColumns == {<<"A_enc">>, <<"Ar_enc">>, <<"g3x_enc">>}

Columns ==
  {PartyColumn(i) : i \in DOMAIN ln2} \cup
  {CandidateColumn(c) : c \in Cells(ln2)} \cup
  AuthColumns

\* Where the prover pushes the response of cell c: after those of all the
\* earlier parties.
Pushed(c) == SumFunctionOnSet(ln2, Upto(c[1])) + c[2]

\* Mutated form of the next definition: the index starts at 1.
Response_FromOne(c) == c[1] * ln2[c[1]] + c[2] + 1

\* Where the verifier reads the response of cell c.
Response(c) == c[1] * ln2[c[1]] + c[2]

Init ==
  /\ ln2 \in Lists
  /\ stage = "mix" /\ at = 0 /\ faults = 0
  /\ mixed = <<>> /\ perm = <<>> /\ z_L2 = <<>>

\* mix_votes and MixedVotes::new: every ciphertext of a vote moves along the
\* same permutation.
Mix ==
  /\ stage = "mix"
  /\ perm' \in Bijection(Votes, Votes)
  /\ mixed' = [k \in Votes |-> [col \in Columns |-> perm'[k]]]
  /\ z_L2' = [p \in Upto(Cardinality(Cells(ln2))) |->
                CandidateColumn(CHOOSE c \in Cells(ln2) : Pushed(c) = p)]
  /\ stage' = "parties"
  /\ UNCHANGED <<ln2, at, faults>>

\* One ciphertext of a mixed vote is replaced by the re-encryption of the
\* same ciphertext of another vote.
Damage ==
  /\ stage = "parties" /\ faults < MaxFaults
  /\ \E k, o \in Votes, col \in Columns :
       /\ o # mixed[k][col]
       /\ mixed' = [mixed EXCEPT ![k][col] = o]
  /\ faults' = faults + 1
  /\ UNCHANGED <<ln2, stage, at, perm, z_L2>>

\* check_re_encryption of a column with the response z: z was made for the
\* column, and the column follows the permutation of the core proof.
ReEncryptionVerifies(col, z) ==
  /\ z = col
  /\ \A k \in Votes : mixed[k][col] = perm[k]

\* The first loop of MixedVotes::verify.
VerifyParties ==
  /\ stage = "parties"
  /\ stage' = IF \A i \in DOMAIN ln2 : ReEncryptionVerifies(PartyColumn(i), PartyColumn(i))
              THEN "candidates" ELSE "rejected"
  /\ UNCHANGED <<ln2, at, mixed, perm, z_L2, faults>>

\* One column of the second, nested loop: rows before columns.
VerifyCandidate ==
  /\ stage = "candidates"
  /\ \E c \in Cells(ln2) :
       /\ Pushed(c) = at
       /\ IF Response(c) \notin DOMAIN z_L2
          THEN stage' = "panicked" /\ UNCHANGED at
          ELSE IF ReEncryptionVerifies(CandidateColumn(c), z_L2[Response(c)])
               THEN at' = at + 1 /\ UNCHANGED stage
               ELSE stage' = "rejected" /\ UNCHANGED at
  /\ UNCHANGED <<ln2, mixed, perm, z_L2, faults>>

\* Mutated form of the next definition: one of the columns is left out.
VerifyAuth_NoAr ==
  /\ stage = "candidates"
  /\ at = Cardinality(Cells(ln2))
  /\ stage' = IF \A col \in AuthColumns \ {<<"Ar_enc">>} : ReEncryptionVerifies(col, col)
              THEN "accepted" ELSE "rejected"
  /\ UNCHANGED <<ln2, at, mixed, perm, z_L2, faults>>

\* The last three checks, after both loops.
VerifyAuth ==
  /\ stage = "candidates"
  /\ at = Cardinality(Cells(ln2))
  /\ stage' = IF \A col \in AuthColumns : ReEncryptionVerifies(col, col)
              THEN "accepted" ELSE "rejected"
  /\ UNCHANGED <<ln2, at, mixed, perm, z_L2, faults>>

Next == Mix \/ Damage \/ VerifyParties \/ VerifyCandidate \/ VerifyAuth

Spec == Init /\ [][Next]_vars
-----------------------------------------------------------------------------
\* An accepted mix keeps the ciphertexts of a vote together: every mixed vote
\* is in all its columns the re-encryption of one original vote, and every
\* original vote is mixed exactly once.
AcceptedIsMix ==
  stage = "accepted" =>
    \E p \in Bijection(Votes, Votes) :
      \A k \in Votes, col \in Columns : mixed[k][col] = p[k]

\* An undamaged mix verifies if all parties have the same number of
\* candidates.
UniformMixIsAccepted ==
  /\ faults = 0
  /\ \A i, j \in DOMAIN ln2 : ln2[i] = ln2[j]
  => stage \notin {"rejected", "panicked"}
-----------------------------------------------------------------------------
\* ChoiceParameters documents ln2 as the number of candidates of each party
\* and its constructor takes any positive numbers: an undamaged mix should
\* verify for all of them.
HonestMixIsAccepted == faults = 0 => stage \notin {"rejected", "panicked"}
=============================================================================
