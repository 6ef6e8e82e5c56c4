----------------------------- MODULE ShuffleProofs -----------------------------
(***************************************************************************)
(* What an accepted mix guarantees, and which mixes are accepted, for any  *)
(* number of votes, parties, candidates and replaced ciphertexts.          *)
(***************************************************************************)
EXTENDS ShuffleProof, SumProofs
-----------------------------------------------------------------------------
(* The places of the responses                                             *)

RowsOf(list, T) == {x \in Cells(list) : x[1] \in T}

\* Parties have as many cells as they have candidates together.
LEMMA RowsCount ==
  ASSUME NEW list, IsList(list), NEW T \in SUBSET DOMAIN list
  PROVE  IsFiniteSet(T) /\ Cardinality(RowsOf(list, T)) = SumFunctionOnSet(list, T)
<1>1. IsFiniteSet(T) /\ \A i \in DOMAIN list : list[i] \in Nat
  BY ListFacts, FS_Subset DEF IsList
<1> DEFINE P == {U \in SUBSET T : Cardinality(RowsOf(list, U)) = SumFunctionOnSet(list, U)}
<1>2. {} \in P
  <2>1. RowsOf(list, {}) = {}
    BY DEF RowsOf
  <2> QED BY <2>1, SumOfNone, FS_EmptySet
<1>3. ASSUME NEW U \in P, NEW i \in T \ U PROVE U \cup {i} \in P
  <2> DEFINE row == {i} \X Upto(list[i])
             rows == RowsOf(list, U)
  <2>1. RowsOf(list, U \cup {i}) = rows \cup row /\ rows \cap row = {}
    BY ListFacts DEF RowsOf
  <2>2. IsFiniteSet(row) /\ Cardinality(row) = list[i]
    <3>1. list[i] \in Nat
      BY <1>1
    <3>2. IsFiniteSet(Upto(list[i])) /\ Cardinality(Upto(list[i])) = list[i]
      BY <3>1, UptoFacts
    <3>3. IsFiniteSet({i}) /\ Cardinality({i}) = 1
      BY FS_Singleton
    <3>4. IsFiniteSet(row) /\ Cardinality(row) = Cardinality({i}) * Cardinality(Upto(list[i]))
      BY <3>2, <3>3, FS_Product
    <3>5. 1 * list[i] = list[i]
      BY <3>1
    <3> HIDE DEF row
    <3> QED BY <3>2, <3>3, <3>4, <3>5
  <2>3. IsFiniteSet(rows) /\ Cardinality(rows) \in Nat /\ Cardinality(rows) = SumFunctionOnSet(list, U)
    <3>1. rows \in SUBSET Cells(list)
      BY DEF RowsOf
    <3> HIDE DEF rows
    <3>2. IsFiniteSet(rows) /\ Cardinality(rows) \in Nat
      BY <3>1, ListFacts, FS_Subset, FS_CardinalityType
    <3> QED BY <3>2 DEF rows
  <2> HIDE DEF row, rows
  <2>4. Cardinality(rows \cup row) = Cardinality(rows) + Cardinality(row)
    <3>1. Cardinality(rows \cup row)
            = Cardinality(rows) + Cardinality(row) - Cardinality(rows \cap row)
      BY <2>2, <2>3, FS_Union
    <3>2. Cardinality(rows \cap row) = 0
      BY <2>1, FS_EmptySet
    <3> QED BY <1>1, <2>2, <2>3, <3>1, <3>2
  <2>5. SumFunctionOnSet(list, U \cup {i}) = list[i] + SumFunctionOnSet(list, U)
    BY <1>1, SumGrows
  <2>6. Cardinality(RowsOf(list, U \cup {i})) = SumFunctionOnSet(list, U \cup {i})
    BY <1>1, <2>1, <2>2, <2>3, <2>4, <2>5
  <2> QED BY <2>6
<1>4. P \in SUBSET SUBSET T
  OBVIOUS
<1> HIDE DEF P
<1>5. T \in P
  BY <1>1, <1>2, <1>3, <1>4, SubsetInduction
<1> QED BY <1>1, <1>5 DEF P

\* All the cells are those of all parties, and more parties have more cells.
LEMMA RowsGrow ==
  ASSUME NEW list, IsList(list), NEW T \in SUBSET DOMAIN list
  PROVE  /\ SumFunctionOnSet(list, T) \in Nat
         /\ SumFunctionOnSet(list, T) <= Cardinality(Cells(list))
         /\ \A U \in SUBSET T : SumFunctionOnSet(list, U) <= SumFunctionOnSet(list, T)
<1>1. RowsOf(list, T) \in SUBSET Cells(list) /\ IsFiniteSet(Cells(list))
  BY ListFacts DEF RowsOf
<1>2. IsFiniteSet(RowsOf(list, T)) /\ Cardinality(RowsOf(list, T)) \in Nat
      /\ Cardinality(RowsOf(list, T)) <= Cardinality(Cells(list))
  BY <1>1, FS_Subset, FS_CardinalityType
<1>3. ASSUME NEW U \in SUBSET T
      PROVE  SumFunctionOnSet(list, U) <= SumFunctionOnSet(list, T)
  <2>1. RowsOf(list, U) \in SUBSET RowsOf(list, T)
    BY DEF RowsOf
  <2>2. Cardinality(RowsOf(list, U)) <= Cardinality(RowsOf(list, T))
    BY <1>2, <2>1, FS_Subset
  <2>3. U \in SUBSET DOMAIN list
    OBVIOUS
  <2> QED BY <2>2, <2>3, RowsCount
<1> QED BY <1>2, <1>3, RowsCount

Start(list, i) == SumFunctionOnSet(list, Upto(i))

\* A row starts where the row before it ends.
LEMMA NextRow ==
  ASSUME NEW list, IsList(list), NEW i \in DOMAIN list
  PROVE  /\ Upto(i) \in SUBSET DOMAIN list /\ Upto(i + 1) \in SUBSET DOMAIN list
         /\ Start(list, i) \in Nat /\ Start(list, i + 1) = list[i] + Start(list, i)
         /\ Start(list, i + 1) <= Cardinality(Cells(list))
         /\ \A j \in DOMAIN list : i < j => Start(list, i + 1) <= Start(list, j)
<1>1. /\ i \in Nat /\ DOMAIN list = Upto(Cardinality(DOMAIN list)) /\ Cardinality(DOMAIN list) \in Nat
      /\ IsFiniteSet(DOMAIN list) /\ \A j \in DOMAIN list : j \in Nat /\ list[j] \in Nat
  BY ListFacts DEF IsList
<1>2. \A j \in DOMAIN list : Upto(j) \in SUBSET DOMAIN list /\ Upto(j + 1) \in SUBSET DOMAIN list
  BY <1>1 DEF Upto
<1>3. Upto(i + 1) = Upto(i) \cup {i} /\ i \notin Upto(i)
  BY <1>1 DEF Upto
<1>4. Start(list, i + 1) = list[i] + Start(list, i)
  BY <1>1, <1>2, <1>3, SumGrows DEF Start
<1>5. Start(list, i) \in Nat /\ Start(list, i + 1) <= Cardinality(Cells(list))
  BY <1>2, RowsGrow DEF Start
<1>6. ASSUME NEW j \in DOMAIN list, i < j PROVE Start(list, i + 1) <= Start(list, j)
  <2>1. Upto(i + 1) \in SUBSET Upto(j)
    BY <1>1, <1>6 DEF Upto
  <2> QED BY <1>2, <2>1, RowsGrow DEF Start
<1> QED BY <1>2, <1>4, <1>5, <1>6

\* The prover pushes the responses to different places of the list.
LEMMA PushedFacts ==
  ASSUME IsList(ln2), NEW c \in Cells(ln2)
  PROVE  /\ Pushed(c) \in Upto(Cardinality(Cells(ln2)))
         /\ \A d \in Cells(ln2) : Pushed(d) = Pushed(c) => d = c
<1> DEFINE N == Cardinality(Cells(ln2))
<1>1. /\ N \in Nat
      /\ \A x \in Cells(ln2) : /\ x = <<x[1], x[2]>> /\ x[1] \in DOMAIN ln2 /\ x[1] \in Nat
                               /\ x[2] \in Nat /\ x[2] < ln2[x[1]] /\ ln2[x[1]] \in Nat
  <2>1. N \in Nat
    BY ListFacts, FS_CardinalityType
  <2>2. ASSUME NEW x \in Cells(ln2)
        PROVE  /\ x = <<x[1], x[2]>> /\ x[1] \in DOMAIN ln2 /\ x[1] \in Nat
               /\ x[2] \in Nat /\ x[2] < ln2[x[1]] /\ ln2[x[1]] \in Nat
    <3>1. /\ x = <<x[1], x[2]>> /\ x[1] \in DOMAIN ln2 /\ x[1] \in Nat
          /\ x[2] \in Upto(ln2[x[1]]) /\ ln2[x[1]] \in Nat
      BY ListFacts
    <3> QED BY <3>1 DEF Upto
  <2> QED BY <2>1, <2>2
<1>2. \A x \in Cells(ln2) : /\ Pushed(x) = Start(ln2, x[1]) + x[2]
                            /\ Start(ln2, x[1]) \in Nat /\ Start(ln2, x[1] + 1) <= N
                            /\ Start(ln2, x[1] + 1) = ln2[x[1]] + Start(ln2, x[1])
  BY <1>1, NextRow DEF Pushed, Start
<1> HIDE DEF N
<1>3. Pushed(c) \in Nat /\ Pushed(c) < N
  BY <1>1, <1>2
<1>4. ASSUME NEW x \in Cells(ln2), NEW y \in Cells(ln2), x[1] < y[1]
      PROVE  Pushed(x) < Pushed(y)
  <2>1. Start(ln2, x[1] + 1) <= Start(ln2, y[1])
    BY <1>1, <1>4, NextRow
  <2> QED BY <1>1, <1>2, <2>1
<1>5. ASSUME NEW d \in Cells(ln2), Pushed(d) = Pushed(c) PROVE d = c
  <2>1. Pushed(d) \in Nat
    BY <1>1, <1>2
  <2>2. ~ (d[1] < c[1]) /\ ~ (c[1] < d[1])
    BY <1>3, <1>4, <1>5, <2>1
  <2>3. d[1] = c[1]
    BY <1>1, <2>2
  <2>4. d[2] = c[2]
    BY <1>1, <1>2, <1>5, <2>3
  <2> QED BY <1>1, <2>3, <2>4
<1>6. Pushed(c) \in Upto(N)
  BY <1>1, <1>3 DEF Upto
<1> QED BY <1>5, <1>6 DEF N

\* With the same number of candidates everywhere, the verifier reads where
\* the prover pushed.
LEMMA UniformPlaces ==
  ASSUME IsList(ln2), \A i, j \in DOMAIN ln2 : ln2[i] = ln2[j], NEW c \in Cells(ln2)
  PROVE  Response(c) = Pushed(c)
<1>1. /\ Cardinality(DOMAIN ln2) \in Nat /\ DOMAIN ln2 = Upto(Cardinality(DOMAIN ln2))
      /\ \A i \in DOMAIN ln2 : i \in Nat /\ ln2[i] \in Nat
  BY ListFacts
<1> DEFINE P == {i \in Nat : i \in DOMAIN ln2 => Start(ln2, i) = i * ln2[i]}
<1>2. 0 \in P
  <2> SUFFICES ASSUME 0 \in DOMAIN ln2 PROVE Start(ln2, 0) = 0 * ln2[0]
    OBVIOUS
  <2>1. Upto(0) = {}
    BY DEF Upto
  <2>2. 0 * ln2[0] = 0
    BY <1>1
  <2> QED BY <2>1, <2>2, SumOfNone DEF Start
<1>3. ASSUME NEW i \in P PROVE i + 1 \in P
  <2> SUFFICES ASSUME i + 1 \in DOMAIN ln2 PROVE Start(ln2, i + 1) = (i + 1) * ln2[i + 1]
    OBVIOUS
  <2>1. i \in DOMAIN ln2
    BY <1>1 DEF Upto
  <2>2. Start(ln2, i) = i * ln2[i] /\ ln2[i + 1] = ln2[i] /\ ln2[i] \in Nat /\ i \in Nat
    BY <1>1, <2>1
  <2>3. Start(ln2, i + 1) = ln2[i] + Start(ln2, i)
    BY <2>1, NextRow
  <2>4. (i + 1) * ln2[i] = ln2[i] + i * ln2[i]
    BY <2>2
  <2> QED BY <2>2, <2>3, <2>4
<1>4. P \in SUBSET Nat
  OBVIOUS
<1> HIDE DEF P
<1>5. P = Nat
  BY <1>2, <1>3, <1>4, NumberInduction
<1>6. c[1] \in DOMAIN ln2 /\ c[1] \in Nat
  BY <1>1, ListFacts
<1>7. Start(ln2, c[1]) = c[1] * ln2[c[1]]
  BY <1>5, <1>6 DEF P
<1> QED BY <1>7 DEF Response, Pushed, Start
-----------------------------------------------------------------------------
(* The inductive invariant                                                 *)

Follows(col) == \A k \in Votes : mixed[k][col] = perm[k]

\* The proof was made for a permutation, and without damage every column
\* follows it.
ProverInv ==
  stage # "mix" =>
    /\ perm \in Bijection(Votes, Votes)
    /\ z_L2 = [p \in Upto(Cardinality(Cells(ln2))) |->
                 CandidateColumn(CHOOSE c \in Cells(ln2) : Pushed(c) = p)]
    /\ (faults = 0 => \A col \in Columns : Follows(col))

\* The columns the verifier has been through follow the permutation.
VerifierInv ==
  /\ stage \in {"mix", "parties"} => at = 0
  /\ stage \in {"candidates", "accepted"} =>
       /\ \A i \in DOMAIN ln2 : Follows(PartyColumn(i))
       /\ \A c \in Cells(ln2) : Pushed(c) < at => Follows(CandidateColumn(c))
  /\ stage = "accepted" =>
       at = Cardinality(Cells(ln2)) /\ \A col \in AuthColumns : Follows(col)

ShuffleInv ==
  /\ ln2 \in Lists /\ at \in Nat /\ faults \in Nat
  /\ ProverInv /\ VerifierInv /\ UniformMixIsAccepted
-----------------------------------------------------------------------------
(* Every step keeps the invariant                                          *)

LEMMA ListsAreLists == ln2 \in Lists => IsList(ln2)
BY ListsAssumption

LEMMA MixKeeps ==
  ASSUME ShuffleInv, Mix
  PROVE  ShuffleInv'
<1>1. UNCHANGED <<ln2, at, faults>> /\ stage' = "parties" /\ at = 0
  BY DEF Mix, ShuffleInv, VerifierInv
<1>2. \A k \in Votes, col \in Columns : mixed'[k][col] = perm'[k]
  BY DEF Mix
<1>3. Columns' = Columns /\ Cells(ln2)' = Cells(ln2) /\ \A c : Pushed(c)' = Pushed(c)
  BY <1>1 DEF Columns, Pushed
<1>4. ProverInv'
  <2>1. perm' \in Bijection(Votes, Votes)
    BY DEF Mix
  <2>2. z_L2' = [p \in Upto(Cardinality(Cells(ln2'))) |->
                   CandidateColumn(CHOOSE c \in Cells(ln2') : Pushed(c)' = p)]
    BY <1>1 DEF Mix, Pushed
  <2>3. \A col \in Columns' : Follows(col)'
    BY <1>2, <1>3 DEF Follows
  <2> QED BY <2>1, <2>2, <2>3 DEF ProverInv
<1>5. VerifierInv'
  BY <1>1 DEF VerifierInv
<1>6. UniformMixIsAccepted'
  BY <1>1 DEF UniformMixIsAccepted
<1> QED BY <1>1, <1>4, <1>5, <1>6 DEF ShuffleInv

LEMMA DamageKeeps ==
  ASSUME ShuffleInv, Damage
  PROVE  ShuffleInv'
<1>1. /\ UNCHANGED <<ln2, stage, at, perm, z_L2>> /\ stage = "parties"
      /\ faults' \in Nat /\ faults' # 0
  BY DEF Damage, ShuffleInv
<1>2. ProverInv'
  BY <1>1 DEF ShuffleInv, ProverInv, Pushed
<1>3. VerifierInv' /\ UniformMixIsAccepted'
  BY <1>1 DEF ShuffleInv, VerifierInv, UniformMixIsAccepted
<1> QED BY <1>1, <1>2, <1>3 DEF ShuffleInv

\* The steps of the verifier read the prover's part and leave it alone.
LEMMA ProverStands ==
  ASSUME ShuffleInv, stage # "mix", UNCHANGED <<ln2, mixed, perm, z_L2, faults>>
  PROVE  ProverInv' /\ \A col : Follows(col)' <=> Follows(col)
  BY DEF ShuffleInv, ProverInv, Follows, Columns, Pushed

LEMMA PartiesKeep ==
  ASSUME ShuffleInv, VerifyParties
  PROVE  ShuffleInv'
<1>1. /\ UNCHANGED <<ln2, at, mixed, perm, z_L2, faults>> /\ stage = "parties" /\ at = 0
      /\ stage' \in {"candidates", "rejected"}
      /\ stage' = "candidates" <=> \A i \in DOMAIN ln2 : Follows(PartyColumn(i))
  BY DEF VerifyParties, ReEncryptionVerifies, Follows, ShuffleInv, VerifierInv
<1>2. ProverInv' /\ \A col : Follows(col)' <=> Follows(col)
  BY <1>1, ProverStands
<1>3. ASSUME NEW c \in Cells(ln2) PROVE ~ (Pushed(c)' < at')
  <2>1. Pushed(c)' = Pushed(c)
    BY <1>1 DEF Pushed
  <2>2. Pushed(c) \in Upto(Cardinality(Cells(ln2)))
    BY PushedFacts, ListsAreLists DEF ShuffleInv
  <2> QED BY <1>1, <2>1, <2>2 DEF Upto
<1>4. VerifierInv'
  BY <1>1, <1>2, <1>3 DEF VerifierInv
<1>5. UniformMixIsAccepted'
  <2>1. faults = 0 => \A i \in DOMAIN ln2 : Follows(PartyColumn(i))
    BY <1>1 DEF ShuffleInv, ProverInv, Columns
  <2> QED BY <1>1, <2>1 DEF UniformMixIsAccepted
<1> QED BY <1>1, <1>2, <1>4, <1>5 DEF ShuffleInv

\* One column of a candidate: if it verifies, the verified columns are those
\* pushed before the next place.
LEMMA CandidateKeeps ==
  ASSUME ShuffleInv, VerifyCandidate
  PROVE  ShuffleInv'
<1>1. UNCHANGED <<ln2, mixed, perm, z_L2, faults>> /\ stage = "candidates" /\ at \in Nat
  BY DEF VerifyCandidate, ShuffleInv
<1>2. PICK c \in Cells(ln2) :
        /\ Pushed(c) = at
        /\ IF Response(c) \notin DOMAIN z_L2
           THEN stage' = "panicked" /\ UNCHANGED at
           ELSE IF ReEncryptionVerifies(CandidateColumn(c), z_L2[Response(c)])
                THEN at' = at + 1 /\ UNCHANGED stage
                ELSE stage' = "rejected" /\ UNCHANGED at
  BY DEF VerifyCandidate
<1>3. ProverInv' /\ \A col : Follows(col)' <=> Follows(col)
  BY <1>1, ProverStands
<1>4. IsList(ln2) /\ \A d : Pushed(d)' = Pushed(d)
  BY <1>1, ListsAreLists DEF ShuffleInv, Pushed
<1>5. VerifierInv'
  <2>1. CASE at' = at + 1 /\ UNCHANGED stage /\ Follows(CandidateColumn(c))
    <3>1. ASSUME NEW d \in Cells(ln2), Pushed(d) < at + 1 PROVE Follows(CandidateColumn(d))
      <4>1. Pushed(d) \in Nat
        BY <1>4, PushedFacts, ListFacts, FS_CardinalityType DEF Upto
      <4>2. CASE Pushed(d) = at
        BY <1>2, <1>4, <2>1, <4>2, PushedFacts
      <4>3. CASE Pushed(d) < at
        BY <1>1, <4>3 DEF ShuffleInv, VerifierInv
      <4> QED BY <1>1, <3>1, <4>1, <4>2, <4>3
    <3>2. \A i \in DOMAIN ln2 : Follows(PartyColumn(i))
      BY <1>1 DEF ShuffleInv, VerifierInv
    <3> QED BY <1>1, <1>3, <1>4, <2>1, <3>1, <3>2 DEF VerifierInv
  <2>2. CASE stage' \in {"rejected", "panicked"}
    BY <2>2 DEF VerifierInv
  <2> QED BY <1>1, <1>2, <2>1, <2>2 DEF ReEncryptionVerifies, Follows
<1>6. UniformMixIsAccepted'
  <2> SUFFICES ASSUME faults = 0, \A i, j \in DOMAIN ln2 : ln2[i] = ln2[j]
               PROVE  stage' \notin {"rejected", "panicked"}
    BY <1>1 DEF UniformMixIsAccepted
  <2>1. Response(c) = Pushed(c)
    BY <1>4, UniformPlaces
  <2>2. Pushed(c) \in Upto(Cardinality(Cells(ln2)))
    BY <1>4, PushedFacts
  <2>3. (CHOOSE d \in Cells(ln2) : Pushed(d) = Pushed(c)) = c
    BY <1>4, PushedFacts
  <2>4. Pushed(c) \in DOMAIN z_L2 /\ z_L2[Pushed(c)] = CandidateColumn(c)
    BY <1>1, <2>2, <2>3 DEF ShuffleInv, ProverInv
  <2>5. Follows(CandidateColumn(c))
    BY <1>1 DEF ShuffleInv, ProverInv, Columns
  <2>6. ReEncryptionVerifies(CandidateColumn(c), z_L2[Response(c)])
    BY <2>1, <2>4, <2>5 DEF ReEncryptionVerifies, Follows
  <2> QED BY <1>1, <1>2, <2>1, <2>4, <2>6
<1>7. at' \in Nat
  BY <1>1, <1>2
<1> QED BY <1>1, <1>3, <1>5, <1>6, <1>7 DEF ShuffleInv

LEMMA AuthKeeps ==
  ASSUME ShuffleInv, VerifyAuth
  PROVE  ShuffleInv'
<1>1. /\ UNCHANGED <<ln2, at, mixed, perm, z_L2, faults>> /\ stage = "candidates"
      /\ at = Cardinality(Cells(ln2)) /\ stage' \in {"accepted", "rejected"}
      /\ stage' = "accepted" <=> \A col \in AuthColumns : Follows(col)
  BY DEF VerifyAuth, ReEncryptionVerifies, Follows
<1>2. ProverInv' /\ \A col : Follows(col)' <=> Follows(col)
  BY <1>1, ProverStands
<1>3. VerifierInv'
  <2>1. \A d : Pushed(d)' = Pushed(d)
    BY <1>1 DEF Pushed
  <2> QED BY <1>1, <1>2, <2>1 DEF ShuffleInv, VerifierInv
<1>4. UniformMixIsAccepted'
  <2>1. faults = 0 => \A col \in AuthColumns : Follows(col)
    BY <1>1 DEF ShuffleInv, ProverInv, Columns
  <2> QED BY <1>1, <2>1 DEF UniformMixIsAccepted
<1> QED BY <1>1, <1>2, <1>3, <1>4 DEF ShuffleInv

\* The invariant of prover and verifier, for every list of parties.
THEOREM ShuffleInvariant == Spec => []ShuffleInv
<1>1. Init => ShuffleInv
  BY DEF Init, ShuffleInv, ProverInv, VerifierInv, UniformMixIsAccepted
<1>2. ShuffleInv /\ [Next]_vars => ShuffleInv'
  <2> SUFFICES ASSUME ShuffleInv, [Next]_vars PROVE ShuffleInv'
    OBVIOUS
  <2>1. CASE UNCHANGED vars
    BY <2>1 DEF vars, ShuffleInv, ProverInv, VerifierInv, UniformMixIsAccepted, Follows,
                Columns, Pushed
  <2> QED BY <2>1, MixKeeps, DamageKeeps, PartiesKeep, CandidateKeeps, AuthKeeps DEF Next
<1> QED BY <1>1, <1>2, PTL DEF Spec

\* MixedVotes::verify accepts only permutations of whole votes, however many
\* ciphertexts were replaced.
THEOREM AcceptedIsAlwaysMix == Spec => []AcceptedIsMix
<1>1. ShuffleInv => AcceptedIsMix
  <2> SUFFICES ASSUME ShuffleInv, stage = "accepted"
               PROVE  \E p \in Bijection(Votes, Votes) :
                        \A k \in Votes, col \in Columns : mixed[k][col] = p[k]
    BY DEF AcceptedIsMix
  <2>1. perm \in Bijection(Votes, Votes)
    BY DEF ShuffleInv, ProverInv
  <2>2. /\ \A i \in DOMAIN ln2 : Follows(PartyColumn(i))
        /\ \A col \in AuthColumns : Follows(col)
    BY DEF ShuffleInv, VerifierInv
  <2>3. ASSUME NEW c \in Cells(ln2) PROVE Follows(CandidateColumn(c))
    <3>1. Pushed(c) \in Upto(Cardinality(Cells(ln2))) /\ Cardinality(Cells(ln2)) \in Nat
      BY PushedFacts, ListFacts, FS_CardinalityType, ListsAreLists DEF ShuffleInv
    <3>2. Pushed(c) < at
      BY <3>1 DEF Upto, ShuffleInv, VerifierInv
    <3> QED BY <3>2 DEF ShuffleInv, VerifierInv
  <2>4. \A col \in Columns : Follows(col)
    BY <2>2, <2>3 DEF Columns
  <2> QED BY <2>1, <2>4 DEF Follows
<1> QED BY <1>1, ShuffleInvariant, PTL

\* Without damage, elections whose parties have the same number of candidates
\* never see a mix rejected: there the index of the verifier is right.
THEOREM UniformMixAlwaysAccepted == Spec => []UniformMixIsAccepted
<1>1. ShuffleInv => UniformMixIsAccepted
  BY DEF ShuffleInv
<1> QED BY <1>1, ShuffleInvariant, PTL
=============================================================================
