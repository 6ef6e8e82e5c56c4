---------------------------- MODULE EncodingProofs ----------------------------
(***************************************************************************)
(* What the proofs of a ballot guarantee and what the tally counts, for    *)
(* every number of parties and candidates, every modulus of the codes and  *)
(* every choice that may be stored, made or read back.                     *)
(***************************************************************************)
EXTENDS VoteEncoding, SumProofs
-----------------------------------------------------------------------------
(* Remainders                                                              *)

\* A number is a multiple of the modulus and a remainder.
LEMMA Remainder ==
  ASSUME NEW P \in Nat \ {0}
  PROVE  \A a \in Nat : \E q \in Nat, r \in 0..(P - 1) : a = P * q + r
<1> DEFINE S == {a \in Nat : \E q \in Nat, r \in 0..(P - 1) : a = P * q + r}
<1>1. 0 \in S
  <2>1. 0 = P * 0 + 0 /\ 0 \in 0..(P - 1)
    OBVIOUS
  <2> QED BY <2>1
<1>2. ASSUME NEW a \in S PROVE a + 1 \in S
  <2>1. PICK q \in Nat, r \in 0..(P - 1) : a = P * q + r
    OBVIOUS
  <2>2. CASE r < P - 1
    <3>1. r + 1 \in 0..(P - 1) /\ P * q \in Nat /\ a + 1 = P * q + (r + 1)
      BY <2>1, <2>2
    <3> QED BY <3>1
  <2>3. CASE r = P - 1
    <3> DEFINE s == q + 1
    <3>1. a + 1 = P * s + 0
      BY <2>1, <2>3
    <3>2. 0 \in 0..(P - 1) /\ s \in Nat
      OBVIOUS
    <3> HIDE DEF s
    <3> QED BY <3>1, <3>2
  <2> QED BY <2>2, <2>3
<1>3. S \in SUBSET Nat
  OBVIOUS
<1> HIDE DEF S
<1>4. S = Nat
  BY <1>1, <1>2, <1>3, NumberInduction
<1> QED BY <1>4 DEF S

\* A multiple of the modulus makes no difference to the remainder.
LEMMA RemainderOfDifference ==
  ASSUME NEW P \in Nat \ {0}, NEW a \in Nat
  PROVE  (a - P) % P = a % P
<1>1. PICK q \in Nat, r \in 0..(P - 1) : a = P * q + r
  BY Remainder
<1>2. a - P = P * (q - 1) + r
  BY <1>1
<1>3. r = a % P
  BY <1>1
<1>4. r = (a - P) % P
  BY <1>2
<1> QED BY <1>3, <1>4

\* The two values that a sum of code and index may be above its remainder.
LEMMA SumBelowTwice ==
  ASSUME NEW P \in Nat \ {0}, NEW s \in Nat
  PROVE  /\ s < 2 * P => s \div P < 2
         /\ s \div P < 2 => \/ s \div P = 0 /\ s % P = s
                            \/ s \div P = 1 /\ s % P = s - P
<1>1. s < 2 * P => s \div P < 2
  OBVIOUS
<1>2. ASSUME s \div P < 2 PROVE s < 2 * P
  BY <1>2
<1>3. s < P => s \div P = 0 /\ s % P = s
  OBVIOUS
<1>4. P <= s /\ s < 2 * P => s \div P = 1 /\ s % P = s - P
  OBVIOUS
<1> QED BY <1>1, <1>2, <1>3, <1>4

\* The proof of a code holds exactly if the rank is the index: the branch
\* and the reduced sum are those of code plus index.
LEMMA RankIsIndex ==
  ASSUME NEW P \in Nat \ {0}, NEW code \in 0..(P - 1), NEW v \in Nat, NEW rank \in Nat,
         NEW sum, sum = code + v, sum \div P < 2
  PROVE  /\ code + (rank - (sum % P)) = (sum \div P) * P <=> rank = v
         /\ code + rank - (sum % P) = (sum \div P) * P <=> rank = v
<1>1. sum \in Nat
  OBVIOUS
<1> DEFINE q == sum \div P
           r == sum % P
<1>2. CASE q = 0 /\ r = sum
  <2>1. q * P = 0 /\ r - code = v
    BY <1>2
  <2> HIDE DEF q, r
  <2> QED BY <1>1, <1>2, <2>1
<1>3. CASE q = 1 /\ r = sum - P
  <2>1. r - code = v - P /\ q * P = P
    BY <1>3
  <2> HIDE DEF q, r
  <2> QED BY <1>1, <1>3, <2>1
<1> QED BY <1>1, <1>2, <1>3, SumBelowTwice

\* The reduced sum less the code is the index, up to the modulus.
LEMMA DifferenceIsIndex ==
  ASSUME NEW P \in Nat \ {0}, NEW code \in 0..(P - 1), NEW v \in Nat,
         NEW sum, sum = code + v, sum \div P < 2
  PROVE  ((sum % P) - code) % P = v % P
<1>1. sum \in Nat
  OBVIOUS
<1>0. (v - P) % P = v % P
  BY RemainderOfDifference
<1>2. sum % P = sum => (sum % P) - code = v
  BY <1>1
<1>3. sum % P = sum - P => (sum % P) - code = v - P
  BY <1>1
<1> QED BY <1>0, <1>1, <1>2, <1>3, SumBelowTwice

\* The sum of two numbers in its width.
LEMMA SumInWidth ==
  ASSUME NEW U \in Nat, NEW a \in 0..(U - 1), NEW b \in 0..(U - 1)
  PROVE  (a + b) % U = IF a + b < U THEN a + b ELSE a + b - U
<1> DEFINE t == a + b
<1>1. t \in Nat /\ t < 2 * U /\ U \in Nat \ {0}
  OBVIOUS
<1> HIDE DEF t
<1>2. t < U => t % U = t
  BY <1>1
<1>3. U <= t => t % U = t - U
  BY <1>1
<1> QED BY <1>1, <1>2, <1>3 DEF t

\* The proof of a code holds for a rank exactly if the sum did not wrap around
\* in its width and the rank is the index: what wrapped is below the code.
LEMMA CodeProvesIndex ==
  ASSUME NEW code \in 0..(CAI_POW - 1), NEW v \in 0..(U32 - 1), NEW rank \in Nat,
         NEW sum, sum = (IF code + v < U32 THEN code + v ELSE code + v - U32),
         sum \div CAI_POW < 2
  PROVE  /\ code + (rank - (sum % CAI_POW)) = (sum \div CAI_POW) * CAI_POW
              <=> code + v < U32 /\ rank = v
         /\ code + rank - (sum % CAI_POW) = (sum \div CAI_POW) * CAI_POW
              <=> code + v < U32 /\ rank = v
<1>0. CAI_POW \in Nat \ {0} /\ U32 \in Nat /\ CAI_POW <= U32
  BY CAIAssumption, U32Assumption
<1>1. CASE code + v < U32
  <2>1. sum = code + v /\ v \in Nat
    BY <1>0, <1>1
  <2>2. /\ code + (rank - (sum % CAI_POW)) = (sum \div CAI_POW) * CAI_POW <=> rank = v
        /\ code + rank - (sum % CAI_POW) = (sum \div CAI_POW) * CAI_POW <=> rank = v
    BY <1>0, <2>1, RankIsIndex
  <2> QED BY <1>1, <2>2
<1>2. CASE U32 <= code + v
  <2>1. sum \in Nat /\ sum < code /\ sum < CAI_POW
    BY <1>0, <1>2
  <2>2. sum \div CAI_POW = 0 /\ sum % CAI_POW = sum
    BY <1>0, <2>1
  <2>3. ~ (code + v < U32)
    BY <1>0, <1>2
  <2>4. (sum \div CAI_POW) * CAI_POW = 0
    BY <1>0, <2>2
  <2>5. code + (rank - sum) # 0 /\ code + rank - sum # 0
    BY <1>0, <2>1
  <2> QED BY <2>2, <2>3, <2>4, <2>5
<1> QED BY <1>0, <1>1, <1>2
-----------------------------------------------------------------------------
(* Parameters                                                              *)

\* The blank vote in front leaves a list.
LEMMA AdjustedIsList ==
  ASSUME NEW list, IsList(list)
  PROVE  IsList(Adjusted(list))
<1> DEFINE n == Cardinality(DOMAIN list)
<1>1. n \in Nat /\ list \in [Upto(n) -> Nat]
  BY FS_CardinalityType DEF IsList
<1>2. \A i \in Upto(n + 1) : i # 0 => i - 1 \in Upto(n)
  BY <1>1 DEF Upto
<1>3. Adjusted(list) \in [Upto(n + 1) -> Nat] /\ DOMAIN Adjusted(list) = Upto(n + 1)
  BY <1>1, <1>2 DEF Adjusted
<1>4. IsFiniteSet(Upto(n + 1)) /\ Cardinality(Upto(n + 1)) = n + 1
  BY <1>1, UptoFacts
<1> HIDE DEF n
<1> QED BY <1>3, <1>4 DEF IsList
-----------------------------------------------------------------------------
(* One vote                                                                *)

\* A choice as Choice::new or the storage yields it.
IsChoice(c) ==
  /\ c.l1_value \in Nat /\ c.l2_value \in Seq(Nat)
  /\ IsList(c.l1)
  /\ IsList([i \in DOMAIN c.l2 |-> Cardinality(DOMAIN c.l2[i])])
  /\ \A i \in DOMAIN c.l2 : IsList(c.l2[i])

\* The cells of the first level say which rows are encrypted.
LEMMA RowsAreList ==
  ASSUME NEW c, IsChoice(c), RowsOk(c)
  PROVE  IsList(RowLengths(c)) /\ DOMAIN RowLengths(c) = DOMAIN c.l1
<1>1. DOMAIN RowLengths(c) = DOMAIN c.l1
  BY DEF RowLengths
<1>2. /\ IsFiniteSet(DOMAIN c.l1) /\ DOMAIN c.l1 = Upto(Cardinality(DOMAIN c.l1))
  BY ListFacts DEF IsChoice, IsList
<1>3. ASSUME NEW i \in DOMAIN c.l1 PROVE Cardinality(DOMAIN c.l2[i]) \in Nat
  <2>1. IsList(c.l2[i])
    BY DEF IsChoice, RowsOk
  <2> QED BY <2>1, ListFacts
<1>4. RowLengths(c) \in [DOMAIN c.l1 -> Nat]
  BY <1>3 DEF RowLengths
<1> QED BY <1>1, <1>2, <1>4 DEF IsList

\* An encrypted choice: bits in finitely many cells.
IsEncrypted(e) ==
  /\ DOMAIN e.l1 \subseteq Nat /\ IsFiniteSet(DOMAIN e.l1)
  /\ DOMAIN e.l2 \subseteq Nat \X Nat /\ IsFiniteSet(DOMAIN e.l2)
  /\ \A i \in DOMAIN e.l1 : e.l1[i] \in {0, 1}
  /\ \A x \in DOMAIN e.l2 : e.l2[x] \in {0, 1}

LEMMA EncryptedFacts ==
  ASSUME NEW c, IsChoice(c), RowsOk(c)
  PROVE  /\ IsEncrypted(EncrChoice(c))
         /\ DOMAIN EncrChoice(c).l1 = DOMAIN c.l1
         /\ DOMAIN EncrChoice(c).l2 = Cells(RowLengths(c))
<1>1. /\ DOMAIN EncrChoice(c).l1 = DOMAIN c.l1
      /\ DOMAIN EncrChoice(c).l2 = Cells(RowLengths(c))
      /\ \A i \in DOMAIN c.l1 : EncrChoice(c).l1[i] \in {0, 1}
      /\ \A x \in Cells(RowLengths(c)) : EncrChoice(c).l2[x] \in {0, 1}
  BY DEF EncrChoice, Bit
<1>2. /\ DOMAIN c.l1 \subseteq Nat /\ IsFiniteSet(DOMAIN c.l1)
  BY ListFacts DEF IsChoice, IsList
<1>3. Cells(RowLengths(c)) \subseteq Nat \X Nat /\ IsFiniteSet(Cells(RowLengths(c)))
  BY RowsAreList, ListFacts
<1> QED BY <1>1, <1>2, <1>3 DEF IsEncrypted

Row(e, i) == {c \in DOMAIN e.l2 : c[1] = i}

\* All the ones of a row, of which there is exactly one.
OneInRow(e, i) ==
  \E y \in Row(e, i) : e.l2[y] = 1 /\ \A x \in Row(e, i) \ {y} : e.l2[x] = 0

\* What the relations of the proof say about the cells: a single party, no
\* candidates in the rows of the election's other parties, and a single one in
\* the row of the party.
OnePartyAt(e, i) ==
  /\ i \in DOMAIN e.l1 /\ e.l1[i] = 1
  /\ \A j \in DOMAIN e.l1 \ {i} : e.l1[j] = 0

LEMMA ProofSaysOneVote ==
  ASSUME NEW e, NEW list, IsEncrypted(e), DOMAIN list \subseteq DOMAIN e.l1,
         ChoiceProofVerifies(e, list)
  PROVE  \E i \in DOMAIN e.l1 :
           /\ OnePartyAt(e, i)
           /\ \A j \in DOMAIN list \ {i} : \A x \in Row(e, j) : e.l2[x] = 0
           /\ i \in DOMAIN list => OneInRow(e, i)
<1>1. /\ IsFiniteSet(DOMAIN e.l1) /\ \A i \in DOMAIN e.l1 : e.l1[i] \in Nat
      /\ \A i : IsFiniteSet(Row(e, i)) /\ \A x \in Row(e, i) : e.l2[x] \in Nat
  <2>1. \A i : Row(e, i) \in SUBSET DOMAIN e.l2
    BY DEF Row
  <2>2. \A i : IsFiniteSet(Row(e, i))
    BY <2>1, FS_Subset DEF IsEncrypted
  <2> QED BY <2>1, <2>2 DEF IsEncrypted
<1>2. SumFunctionOnSet(e.l1, DOMAIN e.l1) = 1
  BY DEF ChoiceProofVerifies, SumParties, SumFunction
<1>3. \A i \in DOMAIN list : SumFunctionOnSet(e.l2, Row(e, i)) = e.l1[i]
  BY DEF ChoiceProofVerifies, SumCandidates, Row
<1>4. PICK i \in DOMAIN e.l1 : e.l1[i] = 1 /\ \A j \in DOMAIN e.l1 \ {i} : e.l1[j] = 0
  BY <1>1, <1>2, SumIsOne
<1>5. ASSUME NEW j \in DOMAIN list \ {i}, NEW x \in Row(e, j) PROVE e.l2[x] = 0
  <2>1. SumFunctionOnSet(e.l2, Row(e, j)) = 0
    BY <1>3, <1>4
  <2>2. e.l2[x] <= SumFunctionOnSet(e.l2, Row(e, j))
    BY <1>1, SummandBound
  <2> QED BY <1>1, <2>1, <2>2
<1>6. ASSUME i \in DOMAIN list PROVE OneInRow(e, i)
  <2>1. SumFunctionOnSet(e.l2, Row(e, i)) = 1
    BY <1>3, <1>4, <1>6
  <2>2. \E y \in Row(e, i) : e.l2[y] = 1 /\ \A x \in Row(e, i) \ {y} : e.l2[x] = 0
    BY <1>1, <2>1, SumIsOne
  <2> QED BY <2>2 DEF OneInRow
<1> QED BY <1>4, <1>5, <1>6 DEF OnePartyAt

\* The cells of a vote with the shape of the election: ones for one of its
\* parties and for one of that party's candidates, and zeros.
VoteFor(e, y) ==
  /\ y \in DOMAIN e.l2 /\ e.l2[y] = 1 /\ \A x \in DOMAIN e.l2 \ {y} : e.l2[x] = 0
  /\ OnePartyAt(e, y[1])

LEMMA ShapedVoteIsForOne ==
  ASSUME NEW e, NEW list, IsList(list), IsEncrypted(e), DOMAIN e.l1 = DOMAIN list,
         DOMAIN e.l2 = Cells(list), ChoiceProofVerifies(e, list)
  PROVE  \E y \in Cells(list) : VoteFor(e, y)
<1>1. PICK i \in DOMAIN list :
        /\ OnePartyAt(e, i)
        /\ \A j \in DOMAIN list \ {i} : \A x \in Row(e, j) : e.l2[x] = 0
        /\ OneInRow(e, i)
  BY ProofSaysOneVote
<1>2. PICK y \in Row(e, i) : e.l2[y] = 1 /\ \A x \in Row(e, i) \ {y} : e.l2[x] = 0
  BY <1>1 DEF OneInRow
<1>3. y \in Cells(list) /\ y[1] = i
  BY DEF Row
<1>4. ASSUME NEW x \in DOMAIN e.l2 \ {y} PROVE e.l2[x] = 0
  <2>1. x[1] \in DOMAIN list /\ x \in Row(e, x[1])
    BY ListFacts DEF Row
  <2> QED BY <1>1, <1>2, <2>1
<1> QED BY <1>1, <1>2, <1>3, <1>4 DEF VoteFor

\* The ranked sums of such a vote are its indices.
LEMMA RanksAreIndices ==
  ASSUME NEW e, IsEncrypted(e), NEW y, VoteFor(e, y)
  PROVE  RankedParty(e) = y[1] /\ RankedCandidate(e) = y[2] /\ y[1] \in Nat /\ y[2] \in Nat
<1>1. y[1] \in Nat /\ y[2] \in Nat /\ y \in DOMAIN e.l2 /\ y[1] \in DOMAIN e.l1
  BY DEF VoteFor, OnePartyAt, IsEncrypted
<1>2. RankedParty(e) = y[1]
  <2> DEFINE f == [i \in DOMAIN e.l1 |-> i * e.l1[i]]
  <2>1. f[y[1]] = y[1]
    BY <1>1 DEF VoteFor, OnePartyAt
  <2>2. ASSUME NEW j \in DOMAIN e.l1 \ {y[1]} PROVE f[j] = 0
    <3>1. j \in Nat /\ e.l1[j] = 0
      BY DEF IsEncrypted, VoteFor, OnePartyAt
    <3> QED BY <3>1
  <2>3. RankedParty(e) = SumFunctionOnSet(f, DOMAIN e.l1)
    BY DEF RankedParty, SumFunction
  <2> HIDE DEF f
  <2>4. SumFunctionOnSet(f, DOMAIN e.l1) = f[y[1]]
    BY <1>1, <2>1, <2>2, SumOfOne DEF IsEncrypted
  <2> QED BY <2>1, <2>3, <2>4
<1>3. RankedCandidate(e) = y[2]
  <2> DEFINE f == [c \in DOMAIN e.l2 |-> c[2] * e.l2[c]]
  <2>1. f[y] = y[2]
    BY <1>1 DEF VoteFor
  <2>2. ASSUME NEW x \in DOMAIN e.l2 \ {y} PROVE f[x] = 0
    <3>1. x[2] \in Nat /\ e.l2[x] = 0
      BY DEF IsEncrypted, VoteFor
    <3> QED BY <3>1
  <2>3. RankedCandidate(e) = SumFunctionOnSet(f, DOMAIN e.l2)
    BY DEF RankedCandidate, SumFunction
  <2> HIDE DEF f
  <2>4. SumFunctionOnSet(f, DOMAIN e.l2) = f[y]
    BY <1>1, <2>1, <2>2, SumOfOne DEF IsEncrypted
  <2> QED BY <2>1, <2>3, <2>4
<1> QED BY <1>1, <1>2, <1>3

\* What the codes take for the indices are numbers of type u32.
LEMMA IndexFacts ==
  ASSUME NEW c, IsChoice(c), c.l2_value # <<>>
  PROVE  /\ IndexCell(c) = <<c.l1_value % U32, c.l2_value[1] % U32>>
         /\ c.l1_value \in Nat /\ c.l2_value[1] \in Nat
         /\ IndexCell(c)[1] \in 0..(U32 - 1) /\ IndexCell(c)[2] \in 0..(U32 - 1)
         /\ IndexCell(c) \in Nat \X Nat
<1>1. U32 \in Nat \ {0}
  BY U32Assumption, CAIAssumption
<1>2. c.l1_value \in Nat /\ c.l2_value[1] \in Nat
  BY DEF IsChoice
<1>3. IndexCell(c) = <<c.l1_value % U32, c.l2_value[1] % U32>>
  BY DEF IndexCell, AsU32
<1>4. c.l1_value % U32 \in 0..(U32 - 1) /\ c.l2_value[1] % U32 \in 0..(U32 - 1)
  BY <1>1, <1>2
<1> QED BY <1>2, <1>3, <1>4

\* The proof of the codes holds for the indices of the choice and no others,
\* and for none if the sum of a code and an index overflows.
LEMMA CodesProveIndices ==
  ASSUME NEW c, IsChoice(c), c.l2_value # <<>>,
         NEW l1_code \in Upto(CAI_POW), NEW l2_code \in Upto(CAI_POW),
         CAIProvable(ValuesCAI(c, l1_code, l2_code)),
         NEW e, RankedParty(e) \in Nat, RankedCandidate(e) \in Nat
  PROVE  LET cai == ValuesCAI(c, l1_code, l2_code) IN
         CAIProofVerifies(e, EncrValuesCAI(cai), CAIWitness(cai))
           <=> /\ ~ SumOverflows(c, l1_code, l2_code)
               /\ RankedParty(e) = IndexCell(c)[1] /\ RankedCandidate(e) = IndexCell(c)[2]
<1> DEFINE v1 == IndexCell(c)[1]
           v2 == IndexCell(c)[2]
           s1 == (l1_code + v1) % U32
           s2 == (l2_code + v2) % U32
           r1 == RankedParty(e)
           r2 == RankedCandidate(e)
<1>1. /\ CAI_POW \in Nat \ {0} /\ l1_code \in 0..(CAI_POW - 1) /\ l2_code \in 0..(CAI_POW - 1)
      /\ U32 \in Nat /\ CAI_POW <= U32
      /\ v1 \in 0..(U32 - 1) /\ v2 \in 0..(U32 - 1) /\ r1 \in Nat /\ r2 \in Nat
  BY CAIAssumption, U32Assumption, IndexFacts DEF Upto
<1>2. s1 \div CAI_POW < 2 /\ s2 \div CAI_POW < 2
  BY DEF CAIProvable, CAIWitness, ValuesCAI, AsU32
<1>3. /\ s1 = (IF l1_code + v1 < U32 THEN l1_code + v1 ELSE l1_code + v1 - U32)
      /\ s2 = (IF l2_code + v2 < U32 THEN l2_code + v2 ELSE l2_code + v2 - U32)
  <2> HIDE DEF v1, v2
  <2>1. l1_code \in 0..(U32 - 1) /\ l2_code \in 0..(U32 - 1)
    BY <1>1
  <2> QED BY <1>1, <2>1, SumInWidth
<1>4. /\ l1_code + (r1 - (s1 % CAI_POW)) = (s1 \div CAI_POW) * CAI_POW
            <=> l1_code + v1 < U32 /\ r1 = v1
      /\ l2_code + r2 - (s2 % CAI_POW) = (s2 \div CAI_POW) * CAI_POW
            <=> l2_code + v2 < U32 /\ r2 = v2
  <2> HIDE DEF s1, s2, r1, r2, v1, v2
  <2>1. l1_code + (r1 - (s1 % CAI_POW)) = (s1 \div CAI_POW) * CAI_POW
            <=> l1_code + v1 < U32 /\ r1 = v1
    BY <1>1, <1>2, <1>3, CodeProvesIndex
  <2>2. l2_code + r2 - (s2 % CAI_POW) = (s2 \div CAI_POW) * CAI_POW
            <=> l2_code + v2 < U32 /\ r2 = v2
    BY <1>1, <1>2, <1>3, CodeProvesIndex
  <2> QED BY <2>1, <2>2
<1>5. SumOverflows(c, l1_code, l2_code) <=> ~ (l1_code + v1 < U32 /\ l2_code + v2 < U32)
  <2> HIDE DEF v1, v2
  <2>1. SumOverflows(c, l1_code, l2_code) <=> l1_code + v1 >= U32 \/ l2_code + v2 >= U32
    BY DEF SumOverflows, v1, v2
  <2> QED BY <1>1, <2>1
<1>6. LET cai == ValuesCAI(c, l1_code, l2_code) IN
      CAIProofVerifies(e, EncrValuesCAI(cai), CAIWitness(cai))
        <=> /\ l1_code + (r1 - (s1 % CAI_POW)) = (s1 \div CAI_POW) * CAI_POW
            /\ l2_code + r2 - (s2 % CAI_POW) = (s2 \div CAI_POW) * CAI_POW
  BY Zenon DEF CAIProofVerifies, EncrValuesCAI, CAIWitness, ValuesCAI, AsU32
<1> HIDE DEF s1, s2
<1> QED BY <1>4, <1>5, <1>6, Zenon
-----------------------------------------------------------------------------
(* The inductive invariant                                                 *)

CastOf(c, l1_code, l2_code) ==
  LET cai == ValuesCAI(c, l1_code, l2_code) IN
  [choice |-> EncrChoice(c), cai |-> EncrValuesCAI(cai), wit |-> CAIWitness(cai), values |-> cai]

CanCast(c, l1_code, l2_code, checked) ==
  /\ c.l2_value # <<>> /\ RowsOk(c)
  /\ ~ (checked /\ SumOverflows(c, l1_code, l2_code))
  /\ ChoiceProvable(c, ln2) /\ CAIProvable(ValuesCAI(c, l1_code, l2_code))

Verifies(b) ==
  ChoiceProofVerifies(b.choice, ln2) /\ CAIProofVerifies(b.choice, b.cai, b.wit)

\* Choice::new made the choice with the parameters of the election.
IsFresh(c) ==
  /\ ChoiceOk(c.l1_value, c.l2_value, ln2)
  /\ c = NewChoice(c.l1_value, c.l2_value, ln2)

\* A ballot is what VerVote::new makes of the choice and two codes, and the
\* stage says whether it verifies.
CastInv(c) ==
  \E l1_code, l2_code \in Upto(CAI_POW), checked \in Checked :
    \/ stage = "panicked" /\ ballot = {} /\ ~ CanCast(c, l1_code, l2_code, checked)
    \/ /\ CanCast(c, l1_code, l2_code, checked) /\ ballot = {CastOf(c, l1_code, l2_code)}
       /\ stage \in {"cast", "accepted", "rejected"}
       /\ (stage = "accepted" => Verifies(CastOf(c, l1_code, l2_code)))
       /\ (stage = "rejected" => ~ Verifies(CastOf(c, l1_code, l2_code)))

VoterInv ==
  \/ stage \in {"setup", "idle"} /\ choice = {} /\ ballot = {} /\ fresh = FALSE
  \/ \E c \in choice :
       /\ choice = {c} /\ IsChoice(c) /\ fresh \in BOOLEAN /\ (fresh => IsFresh(c))
       /\ \/ stage = "chosen" /\ ballot = {}
          \/ CastInv(c)

CountedEntry == [cell : Nat \X Nat, shaped : BOOLEAN]

TallyInv ==
  /\ tally.l1 \in [DOMAIN ln2 -> Nat] /\ tally.l2 \in [Cells(ln2) -> Nat]
  /\ counted \in Seq(CountedEntry)
  /\ stage = "setup" => counted = <<>>
  /\ TallyCountsChoices

\* ChoiceParameters::new rejects parties without candidates.
RowsNotEmpty == \A i \in DOMAIN ln2 : ln2[i] >= 1

EncodingInv == IsList(ln2) /\ RowsNotEmpty /\ VoterInv /\ TallyInv

-----------------------------------------------------------------------------
(* Adding up                                                               *)

\* Where a sequence of choices names a cell, and what one more choice adds.
Named(seq, x) == {k \in DOMAIN seq : seq[k].cell = x}

LEMMA CountOfAppend ==
  ASSUME NEW S, NEW s \in Seq(S), NEW r \in S, NEW x, NEW q, q = Append(s, r)
  PROVE  Cardinality(Named(q, x)) = Cardinality(Named(s, x)) + (IF r.cell = x THEN 1 ELSE 0)
<1> DEFINE old == {k \in DOMAIN s : s[k].cell = x}
           new == {k \in DOMAIN Append(s, r) : Append(s, r)[k].cell = x}
           n == Len(s) + 1
<1>0. old = Named(s, x) /\ new = Named(q, x)
  BY DEF Named
<1>1. /\ DOMAIN s = 1..Len(s) /\ Len(s) \in Nat /\ DOMAIN Append(s, r) = 1..n
      /\ Append(s, r)[n] = r /\ \A k \in DOMAIN s : Append(s, r)[k] = s[k]
  OBVIOUS
<1>2. IsFiniteSet(old) /\ Cardinality(old) \in Nat /\ n \notin old
  <2>1. IsFiniteSet(1..Len(s))
    BY <1>1, FS_Interval
  <2>2. old \in SUBSET (1..Len(s)) /\ n \notin old
    BY <1>1
  <2> HIDE DEF old
  <2> QED BY <2>1, <2>2, FS_Subset, FS_CardinalityType
<1> HIDE DEF old, new
<1>3. CASE r.cell = x
  <2>1. new = old \cup {n}
    BY <1>1, <1>3 DEF old, new
  <2> HIDE DEF n
  <2>2. Cardinality(new) = Cardinality(old) + 1
    BY <1>2, <2>1, FS_AddElement
  <2> QED BY <1>0, <1>3, <2>2
<1>4. CASE r.cell # x
  <2>1. new = old
    BY <1>1, <1>4 DEF old, new
  <2>2. Cardinality(new) = Cardinality(old) + 0
    BY <1>2, <2>1
  <2> QED BY <1>0, <1>4, <2>2
<1> QED BY <1>3, <1>4

\* The empty tally.
LEMMA EmptyTally ==
  ASSUME NEW list, IsList(list)
  PROVE  LET t == IdentityChoice(list) IN
         /\ t.l1 \in [DOMAIN list -> Nat] /\ t.l2 \in [Cells(list) -> Nat]
         /\ \A x \in Cells(list) : t.l2[x] = 0
         /\ \A i \in DOMAIN list : t.l1[i] = 0 /\ SumCandidates(t, i) = 0
<1> DEFINE t == IdentityChoice(list)
<1>1. /\ t.l1 \in [DOMAIN list -> Nat] /\ t.l2 \in [Cells(list) -> Nat]
      /\ \A x \in Cells(list) : t.l2[x] = 0
      /\ \A i \in DOMAIN list : t.l1[i] = 0
      /\ DOMAIN t.l2 = Cells(list)
  BY DEF IdentityChoice
<1> HIDE DEF t
<1>2. ASSUME NEW i \in DOMAIN list PROVE SumCandidates(t, i) = 0
  <2> DEFINE S == {c \in DOMAIN t.l2 : c[1] = i}
  <2>1. S \in SUBSET Cells(list)
    BY <1>1
  <2>2. \A x \in S : t.l2[x] = 0
    BY <1>1
  <2>3. SumCandidates(t, i) = SumFunctionOnSet(t.l2, S)
    BY DEF SumCandidates
  <2> HIDE DEF S
  <2>4. IsFiniteSet(S)
    BY <2>1, ListFacts, FS_Subset
  <2> QED BY <2>2, <2>3, <2>4, SumOfZeros
<1> QED BY <1>1, <1>2 DEF t

IsTally(t, list) == t.l1 \in [DOMAIN list -> Nat] /\ t.l2 \in [Cells(list) -> Nat]

HasCells(e, list) ==
  IsEncrypted(e) /\ DOMAIN list \subseteq DOMAIN e.l1 /\ Cells(list) \subseteq DOMAIN e.l2

\* The cells of the sum of a tally and a ballot.
IsSum(u, t, e, list) ==
  /\ \A i \in DOMAIN list : u.l1[i] = t.l1[i] + e.l1[i]
  /\ \A x \in Cells(list) : u.l2[x] = t.l2[x] + e.l2[x]

\* A ballot is added cell by cell.
LEMMA TallyGrows ==
  ASSUME NEW list, NEW t, IsTally(t, list), NEW e, HasCells(e, list),
         NEW u, u = AddChoice(t, e)
  PROVE  IsTally(u, list) /\ IsSum(u, t, e, list)
<1>1. DOMAIN t.l1 = DOMAIN list /\ DOMAIN t.l2 = Cells(list)
  BY DEF IsTally
<1>2. /\ \A i \in DOMAIN list : e.l1[i] \in Nat /\ t.l1[i] \in Nat
      /\ \A x \in Cells(list) : e.l2[x] \in Nat /\ t.l2[x] \in Nat
  BY DEF IsTally, HasCells, IsEncrypted
<1>3. /\ DOMAIN u.l1 = DOMAIN list /\ DOMAIN u.l2 = Cells(list)
      /\ \A i \in DOMAIN list : u.l1[i] = t.l1[i] + e.l1[i]
      /\ \A x \in Cells(list) : u.l2[x] = t.l2[x] + e.l2[x]
  BY <1>1 DEF AddChoice
<1>4. u.l1 \in [DOMAIN list -> Nat] /\ u.l2 \in [Cells(list) -> Nat]
  BY <1>1, <1>2 DEF AddChoice
<1> QED BY <1>3, <1>4 DEF IsTally, IsSum

\* So are its sums over the rows.
LEMMA RowSumsGrow ==
  ASSUME NEW list, IsList(list), NEW t, IsTally(t, list), NEW u, IsTally(u, list),
         NEW e, HasCells(e, list), DOMAIN e.l2 = Cells(list), IsSum(u, t, e, list),
         NEW i \in DOMAIN list
  PROVE  SumCandidates(u, i) = SumCandidates(t, i) + SumCandidates(e, i)
<1> DEFINE S == {c \in Cells(list) : c[1] = i}
<1>1. /\ SumCandidates(u, i) = SumFunctionOnSet(u.l2, S)
      /\ SumCandidates(t, i) = SumFunctionOnSet(t.l2, S)
      /\ SumCandidates(e, i) = SumFunctionOnSet(e.l2, S)
  BY DEF SumCandidates, IsTally
<1>2. S \in SUBSET Cells(list)
  OBVIOUS
<1> HIDE DEF S
<1>3. IsFiniteSet(S)
  BY <1>2, ListFacts, FS_Subset
<1>4. \A x \in S : t.l2[x] \in Nat /\ e.l2[x] \in Nat /\ u.l2[x] = t.l2[x] + e.l2[x]
  BY <1>2 DEF IsEncrypted, IsTally, HasCells, IsSum
<1> QED BY <1>1, <1>3, <1>4, SumOfSums

\* A ballot that verifies with the shape of the election is a vote for the
\* party and the candidate in the fields of the choice, taken as u32, and the
\* sums of its codes did not overflow.
LEMMA AcceptedCell ==
  ASSUME IsList(ln2), NEW c, IsChoice(c), NEW l1_code \in Upto(CAI_POW),
         NEW l2_code \in Upto(CAI_POW), NEW checked, CanCast(c, l1_code, l2_code, checked),
         Verifies(CastOf(c, l1_code, l2_code)),
         HasElectionShape(CastOf(c, l1_code, l2_code))
  PROVE  /\ IndexCell(c) \in Cells(ln2) /\ VoteFor(EncrChoice(c), IndexCell(c))
         /\ ~ SumOverflows(c, l1_code, l2_code)
<1> DEFINE e == EncrChoice(c)
<1>1. /\ ChoiceProofVerifies(e, ln2)
      /\ CAIProofVerifies(e, EncrValuesCAI(ValuesCAI(c, l1_code, l2_code)),
                          CAIWitness(ValuesCAI(c, l1_code, l2_code)))
      /\ DOMAIN e.l1 = DOMAIN ln2 /\ DOMAIN e.l2 = Cells(ln2)
  BY DEF Verifies, CastOf, HasElectionShape
<1>2. IsEncrypted(e)
  BY EncryptedFacts DEF CanCast
<1> HIDE DEF e
<1>3. PICK y \in Cells(ln2) : VoteFor(e, y)
  BY <1>1, <1>2, ShapedVoteIsForOne
<1>4. RankedParty(e) = y[1] /\ RankedCandidate(e) = y[2] /\ y[1] \in Nat /\ y[2] \in Nat
  BY <1>2, <1>3, RanksAreIndices
<1>5. /\ y[1] = IndexCell(c)[1] /\ y[2] = IndexCell(c)[2]
      /\ ~ SumOverflows(c, l1_code, l2_code)
  BY <1>1, <1>4, CodesProveIndices DEF CanCast
<1>6. y = IndexCell(c)
  <2>1. y = <<y[1], y[2]>>
    BY ListFacts
  <2>2. IndexCell(c) = <<IndexCell(c)[1], IndexCell(c)[2]>>
    BY DEF IndexCell
  <2> QED BY <1>5, <2>1, <2>2
<1> QED BY <1>3, <1>5, <1>6 DEF e
-----------------------------------------------------------------------------
(* Every step keeps the invariant                                          *)

\* The empty list is the parameters before setup.
LEMMA InitKeeps == Init => EncodingInv
<1> SUFFICES ASSUME Init PROVE EncodingInv
  OBVIOUS
<1>1. IsList(ln2)
  <2>1. DOMAIN NoList = {} /\ NoList \in [{} -> Nat]
    BY DEF NoList
  <2>2. Upto(0) = {} /\ IsFiniteSet({}) /\ Cardinality({}) = 0
    BY FS_EmptySet DEF Upto
  <2> QED BY <2>1, <2>2 DEF Init, IsList
<1>2. VoterInv
  BY DEF Init, VoterInv
<1>3. TallyInv
  <2>1. /\ tally.l1 \in [DOMAIN ln2 -> Nat] /\ tally.l2 \in [Cells(ln2) -> Nat]
        /\ \A x \in Cells(ln2) : tally.l2[x] = 0
        /\ \A i \in DOMAIN ln2 : tally.l1[i] = 0 /\ SumCandidates(tally, i) = 0
    BY <1>1, EmptyTally DEF Init
  <2>2. counted = <<>> /\ <<>> \in Seq(CountedEntry)
    BY DEF Init
  <2>3. \A x : Cardinality({k \in DOMAIN counted : counted[k].cell = x}) = 0
    <3>1. \A x : {k \in DOMAIN counted : counted[k].cell = x} = {}
      BY <2>2
    <3> QED BY <3>1, FS_EmptySet
  <2> QED BY <2>1, <2>2, <2>3 DEF TallyInv, TallyCountsChoices
<1>4. RowsNotEmpty
  BY DEF Init, NoList, RowsNotEmpty
<1> QED BY <1>1, <1>2, <1>3, <1>4 DEF EncodingInv

\* A list of candidate numbers that setup accepts, and the empty tally.
LEMMA SetUpKeeps ==
  ASSUME EncodingInv, NEW n1 \in PartyCounts, NEW list \in Lists, NEW adjust \in BOOLEAN,
         SetUp(n1, list, adjust)
  PROVE  EncodingInv'
<1>1. IsList(ln2')
  <2>1. IsList(list)
    BY ParameterInputs DEF IsList
  <2> QED BY <2>1, AdjustedIsList DEF SetUp
<1>2. VoterInv'
  BY DEF SetUp, EncodingInv, VoterInv, CastInv
<1>3. TallyInv'
  <2>1. /\ tally'.l1 \in [DOMAIN ln2' -> Nat] /\ tally'.l2 \in [Cells(ln2') -> Nat]
        /\ \A x \in Cells(ln2') : tally'.l2[x] = 0
        /\ \A i \in DOMAIN ln2' : tally'.l1[i] = 0 /\ SumCandidates(tally', i) = 0
    BY <1>1, EmptyTally DEF SetUp
  <2>2. counted' = <<>> /\ <<>> \in Seq(CountedEntry)
    BY DEF SetUp, EncodingInv, TallyInv
  <2>3. \A x : Cardinality({k \in DOMAIN counted' : counted'[k].cell = x}) = 0
    <3>1. \A x : {k \in DOMAIN counted' : counted'[k].cell = x} = {}
      BY <2>2
    <3> QED BY <3>1, FS_EmptySet
  <2> QED BY <2>1, <2>2, <2>3 DEF TallyInv, TallyCountsChoices
<1>4. RowsNotEmpty'
  <2>1. IsList(list) /\ \A i \in DOMAIN list : list[i] >= 1
    BY ParameterInputs DEF SetUp, ParametersOk
  <2>2. ASSUME NEW i \in DOMAIN Adjusted(list) PROVE Adjusted(list)[i] >= 1
    <3>1. i \in Upto(Cardinality(DOMAIN list) + 1)
      BY DEF Adjusted
    <3>2. Cardinality(DOMAIN list) \in Nat /\ DOMAIN list = Upto(Cardinality(DOMAIN list))
      BY <2>1, ListFacts
    <3>3. i # 0 => i - 1 \in DOMAIN list
      BY <3>1, <3>2 DEF Upto
    <3> QED BY <2>1, <3>1, <3>3 DEF Adjusted
  <2>3. ln2' = Adjusted(list) \/ ln2' = list
    BY DEF SetUp
  <2> QED BY <2>1, <2>2, <2>3 DEF RowsNotEmpty
<1> QED BY <1>1, <1>2, <1>3, <1>4 DEF EncodingInv

\* A new choice has the cells of the election it is made for.
LEMMA NewChoiceIsChoice ==
  ASSUME NEW list, IsList(list), NEW l1 \in DOMAIN list, NEW l2 \in Seq(Nat)
  PROVE  IsChoice(NewChoice(l1, l2, list))
<1> DEFINE c == NewChoice(l1, l2, list)
<1>1. DOMAIN c.l1 = DOMAIN list /\ DOMAIN c.l2 = DOMAIN list
  BY DEF NewChoice
<1>2. IsList(c.l1)
  <2>1. c.l1 \in [DOMAIN list -> Nat]
    BY DEF NewChoice
  <2> QED BY <1>1, <2>1 DEF IsList
<1>3. \A i \in DOMAIN list : IsList(c.l2[i]) /\ Cardinality(DOMAIN c.l2[i]) = list[i]
  <2> SUFFICES ASSUME NEW i \in DOMAIN list
               PROVE  IsList(c.l2[i]) /\ Cardinality(DOMAIN c.l2[i]) = list[i]
    OBVIOUS
  <2>1. list[i] \in Nat
    BY ListFacts
  <2>2. c.l2[i] \in [Upto(list[i]) -> Nat]
    BY DEF NewChoice
  <2>3. DOMAIN c.l2[i] = Upto(list[i])
    BY <2>2
  <2>4. IsFiniteSet(Upto(list[i])) /\ Cardinality(Upto(list[i])) = list[i]
    BY <2>1, UptoFacts
  <2> HIDE DEF c
  <2> QED BY <2>2, <2>3, <2>4 DEF IsList
<1>4. [i \in DOMAIN c.l2 |-> Cardinality(DOMAIN c.l2[i])] = list
  <2>1. list = [i \in DOMAIN list |-> list[i]]
    BY DEF IsList
  <2>2. [i \in DOMAIN c.l2 |-> Cardinality(DOMAIN c.l2[i])]
          = [i \in DOMAIN list |-> Cardinality(DOMAIN c.l2[i])]
    BY <1>1
  <2> HIDE DEF c
  <2> QED BY <1>3, <2>1, <2>2
<1>5. c.l1_value \in Nat /\ c.l2_value \in Seq(Nat)
  BY ListFacts DEF NewChoice
<1> HIDE DEF c
<1>6. IsChoice(c)
  BY <1>1, <1>2, <1>3, <1>4, <1>5 DEF IsChoice
<1> QED BY <1>6 DEF c

\* While the tally stands, what it counts stands.
LEMMA TallyStands ==
  ASSUME TallyInv, UNCHANGED <<ln2, tally, counted>>, stage' # "setup"
  PROVE  TallyInv'
  BY DEF TallyInv, TallyCountsChoices

LEMMA ChooseKeeps ==
  ASSUME EncodingInv, NEW list \in {ln2} \cup Lists, NEW l2 \in Preferences,
         NEW l1 \in DOMAIN list, Choose(l1, l2, list)
  PROVE  EncodingInv'
<1> DEFINE c == NewChoice(l1, l2, list)
<1>1. IsList(list) /\ l2 \in Seq(Nat)
  BY ParameterInputs, ChoiceInputs DEF EncodingInv, IsList
<1>2. IsChoice(c)
  BY <1>1, NewChoiceIsChoice
<1>3. c.l1_value = l1 /\ c.l2_value = l2
  BY DEF NewChoice
<1>4. fresh' \in BOOLEAN /\ (fresh' => IsFresh(c)')
  <2>1. fresh' = (list = ln2)
    BY DEF Choose
  <2>2. fresh' \in BOOLEAN
    BY <2>1, Zenon
  <2>3. ASSUME fresh' PROVE IsFresh(c)'
    <3>1. list = ln2' /\ ChoiceOk(l1, l2, list)
      BY <2>1, <2>3, Zenon DEF Choose
    <3> QED BY <1>3, <3>1 DEF IsFresh
  <2> QED BY <2>2, <2>3
<1>5. VoterInv'
  <2>1. choice' = {c} /\ stage' = "chosen" /\ ballot' = {}
    BY DEF Choose, EncodingInv, VoterInv, CastInv
  <2> HIDE DEF c
  <2> QED BY <1>2, <1>4, <2>1 DEF VoterInv
<1>6. TallyInv'
  BY TallyStands DEF Choose, EncodingInv
<1> QED BY <1>5, <1>6 DEF Choose, EncodingInv, RowsNotEmpty

LEMMA LoadKeeps ==
  ASSUME EncodingInv, NEW c \in Stored, Load(c)
  PROVE  EncodingInv'
<1>1. IsChoice(c)
  BY StoredInputs DEF IsChoice
<1>2. choice' = {c} /\ stage' = "chosen" /\ ballot' = {} /\ fresh' = FALSE
  BY DEF Load, EncodingInv, VoterInv, CastInv
<1>3. VoterInv'
  BY <1>1, <1>2 DEF VoterInv
<1>4. TallyInv'
  BY TallyStands DEF Load, EncodingInv
<1> QED BY <1>3, <1>4 DEF Load, EncodingInv, RowsNotEmpty

LEMMA CastKeeps ==
  ASSUME EncodingInv, NEW l1_code \in Upto(CAI_POW), NEW l2_code \in Upto(CAI_POW),
         NEW checked \in Checked, Cast(l1_code, l2_code, checked)
  PROVE  EncodingInv'
<1>1. PICK c \in choice : choice = {c} /\ IsChoice(c) /\ fresh \in BOOLEAN /\ (fresh => IsFresh(c))
  BY DEF Cast, EncodingInv, VoterInv
<1>2. ballot = {} /\ UNCHANGED <<ln2, choice, fresh, tally, counted>>
  BY DEF Cast, EncodingInv, VoterInv, CastInv
<1>3. CastInv(c)'
  <2>1. CASE CanCast(c, l1_code, l2_code, checked)
    <3>1. ballot' = {CastOf(c, l1_code, l2_code)} /\ stage' = "cast"
      BY <1>1, <2>1 DEF Cast, CanCast, CastOf
    <3>2. CanCast(c, l1_code, l2_code, checked)'
      BY <1>2, <2>1 DEF CanCast
    <3> QED BY <3>1, <3>2 DEF CastInv
  <2>2. CASE ~ CanCast(c, l1_code, l2_code, checked)
    <3>1. ballot' = {} /\ stage' = "panicked"
      BY <1>1, <1>2, <2>2 DEF Cast, CanCast
    <3>2. ~ CanCast(c, l1_code, l2_code, checked)'
      BY <1>2, <2>2 DEF CanCast
    <3> QED BY <3>1, <3>2 DEF CastInv
  <2> QED BY <2>1, <2>2
<1>4. VoterInv'
  <2>1. fresh' => IsFresh(c)'
    BY <1>1, <1>2 DEF IsFresh
  <2> QED BY <1>1, <1>2, <1>3, <2>1 DEF VoterInv
<1>5. stage' # "setup"
  BY <1>3 DEF CastInv
<1>6. TallyInv'
  BY <1>2, <1>5, TallyStands DEF EncodingInv
<1> QED BY <1>2, <1>4, <1>6 DEF EncodingInv, IsList, RowsNotEmpty

LEMMA VerifyKeeps ==
  ASSUME EncodingInv, Verify
  PROVE  EncodingInv'
<1>1. PICK c \in choice : /\ choice = {c} /\ IsChoice(c) /\ fresh \in BOOLEAN
                          /\ fresh => IsFresh(c)
                          /\ CastInv(c)
  BY DEF Verify, EncodingInv, VoterInv
<1>2. UNCHANGED <<ln2, choice, fresh, ballot, tally, counted>>
  BY DEF Verify
<1>3. PICK l1_code, l2_code \in Upto(CAI_POW), checked \in Checked :
        CanCast(c, l1_code, l2_code, checked) /\ ballot = {CastOf(c, l1_code, l2_code)}
  BY <1>1 DEF CastInv, Verify
<1> DEFINE b == CastOf(c, l1_code, l2_code)
<1>4. stage' = IF Verifies(b) THEN "accepted" ELSE "rejected"
  <2>1. ballot = {b}
    BY <1>3
  <2> HIDE DEF b
  <2> QED BY <2>1 DEF Verify, Verifies
<1>5. CastInv(c)'
  <2>1. CanCast(c, l1_code, l2_code, checked)' /\ ballot' = {b} /\ b' = b
    BY <1>2, <1>3 DEF CanCast, CastOf
  <2>2. Verifies(b)' <=> Verifies(b)
    BY <1>2 DEF Verifies, CastOf
  <2> QED BY <1>4, <2>1, <2>2 DEF CastInv
<1>6. VoterInv'
  <2>1. fresh' => IsFresh(c)'
    BY <1>1, <1>2 DEF IsFresh
  <2> QED BY <1>1, <1>2, <1>5, <2>1 DEF VoterInv
<1>7. TallyInv'
  BY <1>2, <1>4, TallyStands DEF EncodingInv
<1> QED BY <1>2, <1>6, <1>7 DEF EncodingInv, IsList, RowsNotEmpty

\* One more accepted ballot: if it has the shape of the election the cell of
\* its candidate and the count of the candidate's choices both grow by one.
LEMMA AddKeeps ==
  ASSUME EncodingInv, AddToTally
  PROVE  EncodingInv'
<1>1. PICK c \in choice : choice = {c} /\ IsChoice(c) /\ CastInv(c)
  BY DEF AddToTally, EncodingInv, VoterInv
<1>2. PICK l1_code, l2_code \in Upto(CAI_POW), checked \in Checked :
        /\ CanCast(c, l1_code, l2_code, checked) /\ ballot = {CastOf(c, l1_code, l2_code)}
        /\ Verifies(CastOf(c, l1_code, l2_code))
  BY <1>1 DEF CastInv, AddToTally
<1> DEFINE b == CastOf(c, l1_code, l2_code)
           e == EncrChoice(c)
           cell == IndexCell(c)
           r == [cell |-> cell, shaped |-> HasElectionShape(b)]
<1>3. /\ tally' = AddChoice(tally, e) /\ counted' = Append(counted, r)
      /\ stage' = "idle" /\ choice' = {} /\ fresh' = FALSE /\ ballot' = {} /\ ln2' = ln2
  <2>1. b.choice = e
    BY DEF CastOf
  <2>2. choice = {c} /\ ballot = {b}
    BY <1>1, <1>2
  <2> HIDE DEF b, e
  <2> QED BY <2>1, <2>2 DEF AddToTally
<1>4. r \in CountedEntry
  <2>1. cell \in Nat \X Nat
    BY <1>1, <1>2, IndexFacts DEF CanCast
  <2>2. HasElectionShape(b) \in BOOLEAN
    BY Zenon DEF HasElectionShape
  <2> HIDE DEF b, cell
  <2> QED BY <2>1, <2>2 DEF CountedEntry
<1>5. /\ IsEncrypted(e) /\ DOMAIN ln2 \subseteq DOMAIN e.l1 /\ Cells(ln2) \subseteq DOMAIN e.l2
  BY <1>1, <1>2, EncryptedFacts DEF CanCast, ChoiceProvable
<1>6. /\ IsList(ln2) /\ tally.l1 \in [DOMAIN ln2 -> Nat] /\ tally.l2 \in [Cells(ln2) -> Nat]
      /\ counted \in Seq(CountedEntry) /\ TallyCountsChoices
  BY DEF EncodingInv, TallyInv
<1>7. IsTally(tally', ln2) /\ IsSum(tally', tally, e, ln2)
  <2> HIDE DEF e
  <2>1. IsTally(tally, ln2) /\ HasCells(e, ln2)
    BY <1>5, <1>6 DEF IsTally, HasCells
  <2> QED BY <1>3, <2>1, TallyGrows
<1>8. counted' \in Seq(CountedEntry)
  BY <1>3, <1>4, <1>6
<1>9. TallyCountsChoices'
  <2> SUFFICES ASSUME \A k \in DOMAIN counted' : counted'[k].shaped
               PROVE  /\ \A x \in Cells(ln2) : tally'.l2[x]
                           = Cardinality({k \in DOMAIN counted' : counted'[k].cell = x})
                      /\ \A i \in DOMAIN ln2 : tally'.l1[i] = SumCandidates(tally', i)
    BY <1>3 DEF TallyCountsChoices
  <2>1. /\ DOMAIN counted' = 1..(Len(counted) + 1) /\ counted'[Len(counted) + 1] = r
        /\ DOMAIN counted = 1..Len(counted) /\ Len(counted) \in Nat
        /\ \A k \in DOMAIN counted : counted'[k] = counted[k]
    <3> HIDE DEF r
    <3> QED BY <1>3, <1>4, <1>6
  <2>2. HasElectionShape(b) /\ \A k \in DOMAIN counted : counted[k].shaped
    <3>1. counted'[Len(counted) + 1].shaped /\ \A k \in DOMAIN counted : counted'[k].shaped
      BY <2>1
    <3> HIDE DEF b
    <3> QED BY <2>1, <3>1
  <2>3. /\ DOMAIN e.l1 = DOMAIN ln2 /\ DOMAIN e.l2 = Cells(ln2)
        /\ ChoiceProofVerifies(e, ln2)
    BY <1>2, <2>2 DEF HasElectionShape, CastOf, Verifies
  <2>4. cell \in Cells(ln2) /\ VoteFor(e, cell)
    BY <1>1, <1>2, <1>6, <2>2, AcceptedCell
  <2> HIDE DEF b, e, cell
  <2>5. ASSUME NEW x \in Cells(ln2)
        PROVE  tally'.l2[x] = Cardinality(Named(counted', x))
    <3>1. tally.l2[x] = Cardinality(Named(counted, x))
      BY <1>6, <2>2 DEF TallyCountsChoices, Named
    <3>2. e.l2[x] = IF cell = x THEN 1 ELSE 0
      BY <2>3, <2>4 DEF VoteFor
    <3>3. r.cell = cell
      OBVIOUS
    <3> HIDE DEF r
    <3>4. Cardinality(Named(counted', x))
            = Cardinality(Named(counted, x)) + (IF r.cell = x THEN 1 ELSE 0)
      <4>1. counted' = Append(counted, r)
        BY <1>3
      <4>2. ASSUME NEW q, q = Append(counted, r)
            PROVE  Cardinality(Named(q, x))
                     = Cardinality(Named(counted, x)) + (IF r.cell = x THEN 1 ELSE 0)
        BY <1>4, <1>6, <4>2, CountOfAppend
      <4> QED BY <4>1, <4>2
    <3>5. tally'.l2[x] = tally.l2[x] + e.l2[x]
      BY <1>7 DEF IsSum
    <3> QED BY <3>1, <3>2, <3>3, <3>4, <3>5
  <2>6. ASSUME NEW i \in DOMAIN ln2 PROVE tally'.l1[i] = SumCandidates(tally', i)
    <3>1. tally.l1[i] = SumCandidates(tally, i)
      BY <1>6, <2>2 DEF TallyCountsChoices
    <3>2. e.l1[i] = SumCandidates(e, i)
      BY <2>3 DEF ChoiceProofVerifies
    <3>3. SumCandidates(tally', i) = SumCandidates(tally, i) + SumCandidates(e, i)
      <4>1. IsTally(tally, ln2) /\ HasCells(e, ln2)
        BY <1>5, <1>6 DEF IsTally, HasCells
      <4> QED BY <1>6, <1>7, <2>3, <4>1, RowSumsGrow
    <3>4. tally'.l1[i] = tally.l1[i] + e.l1[i]
      BY <1>7 DEF IsSum
    <3> QED BY <3>1, <3>2, <3>3, <3>4
  <2> QED BY <2>5, <2>6 DEF Named
<1>10. VoterInv'
  BY <1>3 DEF VoterInv
<1>11. TallyInv'
  <2> HIDE DEF r
  <2> QED BY <1>3, <1>7, <1>8, <1>9 DEF TallyInv, IsTally
<1>12. RowsNotEmpty'
  BY <1>3 DEF EncodingInv, RowsNotEmpty
<1> QED BY <1>3, <1>6, <1>10, <1>11, <1>12 DEF EncodingInv, IsList

\* The inductive invariant, for every history of choices, ballots and tallies.
THEOREM EncodingInvariant == Spec => []EncodingInv
<1>1. EncodingInv /\ [Next]_vars => EncodingInv'
  <2> SUFFICES ASSUME EncodingInv, [Next]_vars PROVE EncodingInv'
    OBVIOUS
  <2>1. ASSUME NEW n1 \in PartyCounts, NEW list \in Lists, NEW adjust \in BOOLEAN,
               SetUp(n1, list, adjust)
        PROVE  EncodingInv'
    BY <2>1, SetUpKeeps
  <2>2. ASSUME NEW list \in {ln2} \cup Lists, NEW l2 \in Preferences,
               NEW l1 \in DOMAIN list, Choose(l1, l2, list)
        PROVE  EncodingInv'
    BY <2>2, ChooseKeeps
  <2>3. ASSUME NEW c \in Stored, Load(c) PROVE EncodingInv'
    BY <2>3, LoadKeeps
  <2>4. ASSUME NEW l1_code \in Upto(CAI_POW), NEW l2_code \in Upto(CAI_POW),
               NEW checked \in Checked, Cast(l1_code, l2_code, checked)
        PROVE  EncodingInv'
    BY <2>4, CastKeeps
  <2>5. CASE Verify
    BY <2>5, VerifyKeeps
  <2>6. CASE AddToTally
    BY <2>6, AddKeeps
  <2>7. CASE UNCHANGED vars
    <3>1. UNCHANGED <<ln2, stage, choice, fresh, ballot, tally, counted>>
      BY <2>7 DEF vars
    <3>2. IsList(ln2)' /\ RowsNotEmpty'
      BY <3>1 DEF EncodingInv, IsList, RowsNotEmpty
    <3>3. VoterInv'
      BY <3>1 DEF EncodingInv, VoterInv, CastInv, CanCast, Verifies, IsFresh
    <3>4. TallyInv'
      BY <3>1 DEF EncodingInv, TallyInv, TallyCountsChoices
    <3> QED BY <3>2, <3>3, <3>4 DEF EncodingInv
  <2> QED BY <2>1, <2>2, <2>3, <2>4, <2>5, <2>6, <2>7 DEF Next
<1> QED BY InitKeeps, <1>1, PTL DEF Spec
-----------------------------------------------------------------------------
(* The properties                                                          *)

\* What the invariant says of an accepted ballot.
LEMMA BallotFacts ==
  ASSUME EncodingInv, NEW b \in ballot
  PROVE  \E c \in choice, l1_code, l2_code \in Upto(CAI_POW), checked \in Checked :
           /\ choice = {c} /\ IsChoice(c) /\ ballot = {b}
           /\ b = CastOf(c, l1_code, l2_code) /\ CanCast(c, l1_code, l2_code, checked)
           /\ b.choice = EncrChoice(c) /\ IsEncrypted(b.choice)
           /\ DOMAIN ln2 \subseteq DOMAIN b.choice.l1 /\ Cells(ln2) \subseteq DOMAIN b.choice.l2
           /\ stage = "accepted" => Verifies(b)
<1>1. PICK c \in choice : choice = {c} /\ IsChoice(c) /\ CastInv(c)
  BY DEF EncodingInv, VoterInv
<1>2. PICK l1_code, l2_code \in Upto(CAI_POW), checked \in Checked :
        /\ CanCast(c, l1_code, l2_code, checked) /\ ballot = {CastOf(c, l1_code, l2_code)}
        /\ stage = "accepted" => Verifies(CastOf(c, l1_code, l2_code))
  BY <1>1 DEF CastInv
<1>3. b = CastOf(c, l1_code, l2_code)
  BY <1>2
<1>4. b.choice = EncrChoice(c)
  BY <1>3 DEF CastOf
<1>5. /\ IsEncrypted(b.choice) /\ DOMAIN ln2 \subseteq DOMAIN b.choice.l1
      /\ Cells(ln2) \subseteq DOMAIN b.choice.l2
  BY <1>1, <1>2, <1>4, EncryptedFacts DEF CanCast, ChoiceProvable
<1> QED BY <1>1, <1>2, <1>3, <1>4, <1>5

LEMMA TypeFromInv == EncodingInv => TypeOK
<1> SUFFICES ASSUME EncodingInv PROVE TypeOK
  OBVIOUS
<1>1. stage \in Stages /\ fresh \in BOOLEAN
  BY DEF EncodingInv, VoterInv, CastInv, Stages
<1>2. Cardinality(choice) <= 1
  <2>1. choice = {} \/ \E c : choice = {c}
    BY DEF EncodingInv, VoterInv
  <2>2. Cardinality(choice) \in {0, 1}
    BY <2>1, AtMostOne
  <2> QED BY <2>2
<1>3. Cardinality(ballot) <= 1
  <2>1. ballot = {} \/ \E b : ballot = {b}
    BY DEF EncodingInv, VoterInv, CastInv
  <2>2. Cardinality(ballot) \in {0, 1}
    BY <2>1, AtMostOne
  <2> QED BY <2>2
<1>4. \A b \in ballot : DOMAIN ln2 \subseteq DOMAIN b.choice.l1
                        /\ Cells(ln2) \subseteq DOMAIN b.choice.l2
  BY BallotFacts
<1>5. tally.l1 \in [DOMAIN ln2 -> Nat] /\ tally.l2 \in [Cells(ln2) -> Nat]
  BY DEF EncodingInv, TallyInv
<1>6. ASSUME NEW k \in DOMAIN counted PROVE counted[k].shaped \in BOOLEAN
  <2>1. counted[k] \in CountedEntry
    BY DEF EncodingInv, TallyInv
  <2> QED BY <2>1 DEF CountedEntry
<1> QED BY <1>1, <1>2, <1>3, <1>4, <1>5, <1>6 DEF TypeOK

LEMMA OneVoteFromInv == EncodingInv => AcceptedIsOneVote
<1> SUFFICES ASSUME EncodingInv, stage = "accepted", NEW b \in ballot
             PROVE  LET Ones == {x \in Cells(ln2) : b.choice.l2[x] # 0}
                        Parties == {i \in DOMAIN ln2 : b.choice.l1[i] # 0} IN
                    /\ Cardinality(Ones) <= 1 /\ Cardinality(Parties) <= 1
                    /\ \A x \in Ones : b.choice.l2[x] = 1 /\ Parties = {x[1]}
                    /\ HasElectionShape(b) => Cardinality(Ones) = 1
  BY DEF AcceptedIsOneVote
<1> DEFINE e == b.choice
           Ones == {x \in Cells(ln2) : e.l2[x] # 0}
           Parties == {i \in DOMAIN ln2 : e.l1[i] # 0}
<1>1. /\ IsEncrypted(e) /\ DOMAIN ln2 \subseteq DOMAIN e.l1 /\ Cells(ln2) \subseteq DOMAIN e.l2
      /\ ChoiceProofVerifies(e, ln2) /\ IsList(ln2)
  BY BallotFacts DEF Verifies, EncodingInv
<1>2. HasElectionShape(b) => DOMAIN e.l1 = DOMAIN ln2 /\ DOMAIN e.l2 = Cells(ln2)
  BY DEF HasElectionShape
<1> HIDE DEF e
<1>3. PICK i \in DOMAIN e.l1 :
        /\ OnePartyAt(e, i)
        /\ \A j \in DOMAIN ln2 \ {i} : \A x \in Row(e, j) : e.l2[x] = 0
        /\ i \in DOMAIN ln2 => OneInRow(e, i)
  BY <1>1, ProofSaysOneVote
<1>4. \A x \in Ones : e.l2[x] = 1 /\ x[1] \in DOMAIN ln2 /\ x \in Row(e, x[1]) /\ x[1] = i
  <2> SUFFICES ASSUME NEW x \in Ones
               PROVE  e.l2[x] = 1 /\ x[1] \in DOMAIN ln2 /\ x \in Row(e, x[1]) /\ x[1] = i
    OBVIOUS
  <2>1. x[1] \in DOMAIN ln2 /\ x \in Row(e, x[1])
    BY <1>1, ListFacts DEF Row
  <2>2. e.l2[x] = 1
    BY <1>1 DEF IsEncrypted
  <2> QED BY <1>3, <2>1, <2>2
<1>5. Parties \subseteq {i}
  BY <1>1, <1>3 DEF OnePartyAt
<1>6. \A x, y \in Ones : x = y
  BY <1>3, <1>4 DEF OneInRow
<1>7. \A x \in Ones : Parties = {x[1]}
  BY <1>3, <1>4, <1>5 DEF OnePartyAt
<1>8. Cardinality(Ones) \in {0, 1} /\ (Cardinality(Ones) = 0 <=> Ones = {})
  <2> HIDE DEF Ones
  <2> QED BY <1>6, AtMostOne
<1>9. Cardinality(Parties) \in {0, 1}
  <2> HIDE DEF Parties
  <2>1. \A x, y \in Parties : x = y
    BY <1>5
  <2> QED BY <2>1, AtMostOne
<1>10. HasElectionShape(b) => Ones # {}
  <2> SUFFICES ASSUME HasElectionShape(b) PROVE Ones # {}
    OBVIOUS
  <2>1. PICK y \in Cells(ln2) : VoteFor(e, y)
    BY <1>1, <1>2, ShapedVoteIsForOne
  <2> QED BY <2>1 DEF VoteFor
<1>11. Cardinality(Ones) <= 1 /\ Cardinality(Parties) <= 1
  <2> HIDE DEF Ones, Parties
  <2> QED BY <1>8, <1>9
<1>12. HasElectionShape(b) => Cardinality(Ones) = 1
  <2> HIDE DEF Ones
  <2> QED BY <1>8, <1>10
<1>13. \A x \in Ones : e.l2[x] = 1 /\ Parties = {x[1]}
  BY <1>4, <1>7
<1> QED BY <1>11, <1>12, <1>13, Zenon DEF e

\* The codes an auditor sees are those of the ballot, and their difference is
\* the index of the party or candidate modulo CAI_POW.
LEMMA AuditFromInv == EncodingInv => AuditTellsTheVote
<1> SUFFICES ASSUME EncodingInv, stage = "accepted", NEW b \in ballot, HasElectionShape(b)
             PROVE  LET shown(kind) == ExtractCAIValues(b.cai, FromReveal(
                                          Reveal(b.values, [l \in {"l1", "l2"} |-> kind])))
                        diff(l) == (shown("sum")[l].l_v - shown("code")[l].l_v) % CAI_POW IN
                    /\ \A asked \in [{"l1", "l2"} -> {"code", "sum"}] :
                         LET revealed == Reveal(b.values, asked)
                         IN ExtractCAIValues(b.cai, FromReveal(revealed)) = revealed
                    /\ \A x \in Cells(ln2) : b.choice.l2[x] = 1 =>
                         diff("l1") = x[1] % CAI_POW /\ diff("l2") = x[2] % CAI_POW
  BY DEF AuditTellsTheVote
<1>1. PICK c \in choice, l1_code, l2_code \in Upto(CAI_POW), checked \in Checked :
        /\ IsChoice(c) /\ b = CastOf(c, l1_code, l2_code) /\ CanCast(c, l1_code, l2_code, checked)
        /\ Verifies(b)
  BY BallotFacts
<1> DEFINE cai == ValuesCAI(c, l1_code, l2_code)
           v1 == IndexCell(c)[1]
           v2 == IndexCell(c)[2]
           s1 == (l1_code + v1) % U32
           s2 == (l2_code + v2) % U32
<1>2. /\ b.values = [l1_code |-> l1_code, l1_sum |-> s1, l2_code |-> l2_code, l2_sum |-> s2]
      /\ b.cai = [l1_code |-> l1_code, l1_sum |-> s1 % CAI_POW,
                  l2_code |-> l2_code, l2_sum |-> s2 % CAI_POW]
  BY <1>1 DEF CastOf, ValuesCAI, EncrValuesCAI, AsU32
<1>3. ASSUME NEW asked, asked \in [{"l1", "l2"} -> {"code", "sum"}]
      PROVE  /\ ExtractCAIValues(b.cai, FromReveal(Reveal(b.values, asked)))
                  = Reveal(b.values, asked)
             /\ \A l \in {"l1", "l2"} : Reveal(b.values, asked)[l].l_v = b.cai[CAIField[l][asked[l]]]
  <2>1. DOMAIN CAIField = {"l1", "l2"}
    BY DEF CAIField
  <2>2. ASSUME NEW l \in {"l1", "l2"}
        PROVE  Reveal(b.values, asked)[l] = [kind |-> asked[l], l_v |-> b.cai[CAIField[l][asked[l]]],
                                             l_r |-> CAIField[l][asked[l]]]
    <3>1. asked[l] \in {"code", "sum"}
      BY <1>3
    <3>2. CASE asked[l] = "code"
      BY <1>2, <2>1, <3>2 DEF Reveal, CAIField
    <3>3. CASE asked[l] = "sum"
      BY <1>2, <2>1, <3>3 DEF Reveal, CAIField
    <3> QED BY <3>1, <3>2, <3>3
  <2> DEFINE rev == Reveal(b.values, asked)
  <2>3. rev = [l \in {"l1", "l2"} |-> rev[l]]
    BY <2>1 DEF Reveal
  <2>4. FromReveal(rev) = [l \in {"l1", "l2"} |-> [kind |-> asked[l], l_r |-> CAIField[l][asked[l]]]]
    <3> HIDE DEF rev
    <3>1. DOMAIN rev = {"l1", "l2"}
      BY <2>3
    <3> QED BY <2>2, <3>1 DEF FromReveal, rev
  <2>5. ExtractCAIValues(b.cai, FromReveal(rev))
          = [l \in {"l1", "l2"} |-> [kind |-> asked[l], l_v |-> b.cai[CAIField[l][asked[l]]],
                                     l_r |-> CAIField[l][asked[l]]]]
    <3> HIDE DEF rev
    <3> QED BY <2>4 DEF ExtractCAIValues
  <2> HIDE DEF rev
  <2>6. ExtractCAIValues(b.cai, FromReveal(rev)) = rev
    BY <2>2, <2>3, <2>5 DEF rev
  <2> QED BY <2>2, <2>6 DEF rev
<1> DEFINE all(kind) == [l \in {"l1", "l2"} |-> kind]
           shown(kind) == ExtractCAIValues(b.cai, FromReveal(Reveal(b.values, all(kind))))
<1>4. /\ shown("sum")["l1"].l_v = s1 % CAI_POW /\ shown("code")["l1"].l_v = l1_code
      /\ shown("sum")["l2"].l_v = s2 % CAI_POW /\ shown("code")["l2"].l_v = l2_code
  <2>1. all("sum") \in [{"l1", "l2"} -> {"code", "sum"}]
    OBVIOUS
  <2>2. all("code") \in [{"l1", "l2"} -> {"code", "sum"}]
    OBVIOUS
  <2>3. \A l \in {"l1", "l2"} : all("sum")[l] = "sum" /\ all("code")[l] = "code"
    OBVIOUS
  <2> HIDE DEF all
  <2>4. \A l \in {"l1", "l2"} : /\ shown("sum")[l].l_v = b.cai[CAIField[l]["sum"]]
                               /\ shown("code")[l].l_v = b.cai[CAIField[l]["code"]]
    BY <1>3, <2>1, <2>2, <2>3
  <2> HIDE DEF shown
  <2> QED BY <1>2, <2>4 DEF CAIField
<1>5. VoteFor(b.choice, IndexCell(c)) /\ ~ SumOverflows(c, l1_code, l2_code)
  BY <1>1, AcceptedCell DEF EncodingInv, CastOf
<1>6. /\ CAI_POW \in Nat \ {0} /\ l1_code \in 0..(CAI_POW - 1) /\ l2_code \in 0..(CAI_POW - 1)
      /\ v1 \in Nat /\ v2 \in Nat /\ U32 \in Nat /\ l1_code + v1 < U32 /\ l2_code + v2 < U32
      /\ s1 \div CAI_POW < 2 /\ s2 \div CAI_POW < 2
  <2>1. c.l2_value # <<>>
    BY <1>1 DEF CanCast
  <2>2. v1 \in Nat /\ v2 \in Nat
    BY <1>1, <2>1, IndexFacts
  <2>3. s1 \div CAI_POW < 2 /\ s2 \div CAI_POW < 2
    BY <1>1 DEF CanCast, CAIProvable, CAIWitness, ValuesCAI, AsU32
  <2>4. ~ (l1_code + v1 >= U32) /\ ~ (l2_code + v2 >= U32)
    BY <1>5 DEF SumOverflows
  <2> HIDE DEF s1, s2, v1, v2
  <2> QED BY <2>2, <2>3, <2>4, CAIAssumption, U32Assumption DEF Upto
<1>7. /\ ((s1 % CAI_POW) - l1_code) % CAI_POW = v1 % CAI_POW
      /\ ((s2 % CAI_POW) - l2_code) % CAI_POW = v2 % CAI_POW
  <2>1. ASSUME NEW code \in 0..(CAI_POW - 1), NEW v \in Nat,
               NEW sum, sum = code + v, sum \div CAI_POW < 2
        PROVE  ((sum % CAI_POW) - code) % CAI_POW = v % CAI_POW
    <3>1. CAI_POW \in Nat \ {0}
      BY <1>6
    <3> HIDE DEF v1, v2, s1, s2, cai
    <3> QED BY <2>1, <3>1, DifferenceIsIndex
  <2> HIDE DEF v1, v2
  <2>2. s1 = l1_code + v1 /\ s2 = l2_code + v2
    BY <1>6
  <2> HIDE DEF s1, s2
  <2>3. ((s1 % CAI_POW) - l1_code) % CAI_POW = v1 % CAI_POW
    BY <1>6, <2>1, <2>2
  <2>4. ((s2 % CAI_POW) - l2_code) % CAI_POW = v2 % CAI_POW
    BY <1>6, <2>1, <2>2
  <2> QED BY <2>3, <2>4
<1>8. ASSUME NEW x \in Cells(ln2), b.choice.l2[x] = 1
      PROVE  x[1] = v1 /\ x[2] = v2
  <2>1. x \in DOMAIN b.choice.l2
    BY DEF HasElectionShape
  <2>2. x = IndexCell(c)
    BY <1>5, <1>8, <2>1 DEF VoteFor
  <2> QED BY <2>2
<1> HIDE DEF s1, s2, v1, v2
<1>9. ASSUME NEW x \in Cells(ln2), b.choice.l2[x] = 1
      PROVE  /\ (shown("sum")["l1"].l_v - shown("code")["l1"].l_v) % CAI_POW = x[1] % CAI_POW
             /\ (shown("sum")["l2"].l_v - shown("code")["l2"].l_v) % CAI_POW = x[2] % CAI_POW
  <2> HIDE DEF shown
  <2> QED BY <1>4, <1>7, <1>8, <1>9
<1>10. \A asked \in [{"l1", "l2"} -> {"code", "sum"}] :
        ExtractCAIValues(b.cai, FromReveal(Reveal(b.values, asked))) = Reveal(b.values, asked)
  BY <1>3
<1> QED BY <1>9, <1>10, Zenon

\* The cells of a fresh choice.
LEMMA FreshCells ==
  ASSUME EncodingInv, NEW c, IsChoice(c), IsFresh(c)
  PROVE  /\ c.l1_value \in DOMAIN ln2 /\ c.l2_value \in Seq(Nat)
         /\ \A r \in Range(c.l2_value) : <<c.l1_value, r>> \in Cells(ln2)
         /\ DOMAIN EncrChoice(c).l1 = DOMAIN ln2 /\ DOMAIN EncrChoice(c).l2 = Cells(ln2)
         /\ \A i \in DOMAIN ln2 : EncrChoice(c).l1[i] = IF i = c.l1_value THEN 1 ELSE 0
         /\ \A x \in Cells(ln2) : EncrChoice(c).l2[x]
              = IF x[1] = c.l1_value /\ x[2] \in Range(c.l2_value) THEN 1 ELSE 0
         /\ ChoiceProvable(c, ln2) /\ RowsOk(c)
<1> DEFINE v == c.l1_value
           s == c.l2_value
<1>1. /\ IsList(ln2) /\ v \in DOMAIN ln2 /\ s \in Seq(Nat) /\ \A k \in DOMAIN s : s[k] < ln2[v]
  BY DEF EncodingInv, IsChoice, IsFresh, ChoiceOk
<1>2. /\ c.l1 = [i \in DOMAIN ln2 |-> IF i = v THEN 1 ELSE 0]
      /\ c.l2 = [i \in DOMAIN ln2 |->
                   [j \in Upto(ln2[i]) |-> IF i = v /\ j \in Range(s) THEN 1 ELSE 0]]
  BY DEF IsFresh, NewChoice
<1> HIDE DEF v, s
<1>3. ASSUME NEW r \in Range(s) PROVE <<v, r>> \in Cells(ln2)
  <2>1. PICK k \in DOMAIN s : r = s[k]
    BY DEF Range
  <2>2. r \in Nat /\ r < ln2[v] /\ ln2[v] \in Nat
    BY <1>1, <2>1, ListFacts
  <2>3. r \in Upto(ln2[v])
    BY <2>2 DEF Upto
  <2> QED BY <1>1, <2>3, ListFacts
<1>4. RowLengths(c) = ln2 /\ \A i \in DOMAIN ln2 : ln2[i] >= 1 /\ DOMAIN c.l2[i] = Upto(ln2[i])
  <2>1. \A i \in DOMAIN ln2 : DOMAIN c.l2[i] = Upto(ln2[i]) /\ ln2[i] \in Nat
    BY <1>1, <1>2, ListFacts
  <2>2. \A i \in DOMAIN ln2 : Cardinality(DOMAIN c.l2[i]) = ln2[i]
    BY <2>1, UptoFacts
  <2>3. ln2 = [i \in DOMAIN ln2 |-> ln2[i]]
    BY <1>1 DEF IsList
  <2>4. RowLengths(c) = [i \in DOMAIN ln2 |-> Cardinality(DOMAIN c.l2[i])]
    BY <1>2 DEF RowLengths
  <2> QED BY <2>1, <2>2, <2>3, <2>4 DEF EncodingInv, RowsNotEmpty
<1>5. \A x \in Cells(ln2) : c.l2[x[1]][x[2]] = IF x[1] = v /\ x[2] \in Range(s) THEN 1 ELSE 0
  BY <1>1, <1>2, ListFacts
<1>6. /\ DOMAIN EncrChoice(c).l1 = DOMAIN ln2 /\ DOMAIN EncrChoice(c).l2 = Cells(ln2)
      /\ \A i \in DOMAIN ln2 : EncrChoice(c).l1[i] = IF i = v THEN 1 ELSE 0
      /\ \A x \in Cells(ln2) : EncrChoice(c).l2[x] = IF x[1] = v /\ x[2] \in Range(s) THEN 1 ELSE 0
  BY <1>2, <1>4, <1>5 DEF EncrChoice, Bit
<1>7. ChoiceProvable(c, ln2)
  BY <1>2, <1>4, <1>5 DEF ChoiceProvable
<1>8. RowsOk(c)
  <2>1. \A i \in DOMAIN ln2 : 0 \in DOMAIN c.l2[i]
    BY <1>1, <1>4, ListFacts DEF Upto
  <2> QED BY <1>1, <1>2, <2>1 DEF RowsOk
<1> QED BY <1>1, <1>3, <1>6, <1>7, <1>8 DEF v, s

\* Indices of at most CAI_POW are not changed by the conversion to u32, and
\* their sums with the codes do not overflow.
LEMMA SmallIndices ==
  ASSUME NEW c, IsChoice(c), c.l2_value # <<>>, c.l1_value <= CAI_POW,
         c.l2_value[1] <= CAI_POW,
         NEW l1_code \in Upto(CAI_POW), NEW l2_code \in Upto(CAI_POW)
  PROVE  /\ IndexCell(c)[1] = c.l1_value /\ IndexCell(c)[2] = c.l2_value[1]
         /\ ~ SumOverflows(c, l1_code, l2_code)
         /\ CAIProvable(ValuesCAI(c, l1_code, l2_code))
<1> DEFINE v1 == c.l1_value
           v2 == c.l2_value[1]
           s1 == l1_code + v1
           s2 == l2_code + v2
<1>1. /\ CAI_POW \in Nat \ {0} /\ U32 \in Nat /\ 2 * CAI_POW <= U32
      /\ l1_code \in 0..(CAI_POW - 1) /\ l2_code \in 0..(CAI_POW - 1)
      /\ v1 \in 0..CAI_POW /\ v2 \in 0..CAI_POW
  BY CAIAssumption, U32Assumption, IndexFacts DEF Upto
<1>2. v1 % U32 = v1 /\ v2 % U32 = v2
  <2>1. \A n \in 0..(U32 - 1) : n % U32 = n
    BY <1>1
  <2> HIDE DEF v1, v2
  <2>2. v1 \in 0..(U32 - 1) /\ v2 \in 0..(U32 - 1)
    BY <1>1
  <2> QED BY <2>1, <2>2
<1>3. IndexCell(c)[1] = v1 /\ IndexCell(c)[2] = v2
  BY <1>2, IndexFacts
<1>4. /\ s1 \in Nat /\ s1 < 2 * CAI_POW /\ s1 \in 0..(U32 - 1)
      /\ s2 \in Nat /\ s2 < 2 * CAI_POW /\ s2 \in 0..(U32 - 1)
  <2> HIDE DEF v1, v2
  <2> QED BY <1>1
<1>5. s1 % U32 = s1 /\ s2 % U32 = s2 /\ s1 \div CAI_POW < 2 /\ s2 \div CAI_POW < 2
  <2> HIDE DEF s1, s2
  <2>1. \A n \in 0..(U32 - 1) : n % U32 = n
    BY <1>1
  <2>2. s1 \div CAI_POW < 2 /\ s2 \div CAI_POW < 2
    BY <1>1, <1>4, SumBelowTwice
  <2> QED BY <1>4, <2>1, <2>2
<1>6. ~ SumOverflows(c, l1_code, l2_code)
  BY <1>1, <1>3, <1>4 DEF SumOverflows
<1>7. CAIProvable(ValuesCAI(c, l1_code, l2_code))
  BY <1>3, <1>5 DEF CAIProvable, CAIWitness, ValuesCAI, AsU32
<1> QED BY <1>3, <1>6, <1>7

\* A fresh choice that names one candidate, even several times, verifies.
LEMMA OneCandidateVerifies ==
  ASSUME EncodingInv, NEW c, IsChoice(c), IsFresh(c), NEW r, Range(c.l2_value) = {r},
         c.l1_value <= CAI_POW, r <= CAI_POW, NEW checked,
         NEW l1_code \in Upto(CAI_POW), NEW l2_code \in Upto(CAI_POW),
         CanCast(c, l1_code, l2_code, checked)
  PROVE  Verifies(CastOf(c, l1_code, l2_code))
<1> DEFINE e == EncrChoice(c)
           v == c.l1_value
           y == <<v, r>>
<1>1. /\ v \in DOMAIN ln2 /\ y \in Cells(ln2)
      /\ DOMAIN e.l1 = DOMAIN ln2 /\ DOMAIN e.l2 = Cells(ln2)
      /\ \A i \in DOMAIN ln2 : e.l1[i] = IF i = v THEN 1 ELSE 0
      /\ \A x \in Cells(ln2) : e.l2[x] = IF x[1] = v /\ x[2] = r THEN 1 ELSE 0
  BY FreshCells
<1>2. /\ IsEncrypted(e) /\ IsList(ln2) /\ IsFiniteSet(DOMAIN ln2) /\ IsFiniteSet(Cells(ln2))
      /\ \A x \in Cells(ln2) : x = <<x[1], x[2]>>
  BY EncryptedFacts, ListFacts DEF EncodingInv, IsList, CanCast
<1>3. c.l2_value[1] = r /\ c.l2_value # <<>>
  <2>1. c.l2_value \in Seq(Nat) /\ c.l2_value # <<>>
    BY DEF CanCast, IsChoice
  <2>2. 1 \in DOMAIN c.l2_value
    BY <2>1
  <2>3. c.l2_value[1] \in Range(c.l2_value)
    BY <2>2 DEF Range
  <2> QED BY <2>1, <2>3
<1> HIDE DEF e, v
<1>4. SumParties(e) = 1
  <2>1. SumFunctionOnSet(e.l1, DOMAIN ln2) = e.l1[v]
    <3>1. e.l1[v] \in Nat /\ \A i \in DOMAIN ln2 \ {v} : e.l1[i] = 0
      BY <1>1
    <3> QED BY <1>1, <1>2, <3>1, SumOfOne
  <2> QED BY <1>1, <2>1 DEF SumParties, SumFunction
<1>5. ASSUME NEW i \in DOMAIN ln2 PROVE e.l1[i] = SumCandidates(e, i)
  <2> DEFINE S == {x \in Cells(ln2) : x[1] = i}
  <2>1. SumCandidates(e, i) = SumFunctionOnSet(e.l2, S)
    BY <1>1 DEF SumCandidates
  <2>2. S \in SUBSET Cells(ln2)
    OBVIOUS
  <2>3. i = v => y \in S /\ e.l2[y] = 1 /\ \A x \in S \ {y} : e.l2[x] = 0
    BY <1>1, <1>2
  <2>4. i # v => \A x \in S : e.l2[x] = 0
    BY <1>1
  <2> HIDE DEF S, y
  <2>5. IsFiniteSet(S)
    BY <1>2, <2>2, FS_Subset
  <2>6. CASE i = v
    <3>1. SumFunctionOnSet(e.l2, S) = e.l2[y]
      BY <2>3, <2>5, <2>6, SumOfOne
    <3> QED BY <1>1, <2>1, <2>3, <2>6, <3>1
  <2>7. CASE i # v
    <3>1. SumFunctionOnSet(e.l2, S) = 0
      BY <2>4, <2>5, <2>7, SumOfZeros
    <3> QED BY <1>1, <2>1, <2>7, <3>1
  <2> QED BY <2>6, <2>7
<1>6. ChoiceProofVerifies(e, ln2)
  <2>1. \A x \in Cells(ln2) : e.l2[x] \in {0, 1}
    BY <1>1
  <2>2. \A i \in DOMAIN ln2 : e.l1[i] \in {0, 1}
    BY <1>1
  <2> QED BY <1>4, <1>5, <2>1, <2>2 DEF ChoiceProofVerifies
<1>7. VoteFor(e, y)
  BY <1>1, <1>2 DEF VoteFor, OnePartyAt
<1>8. RankedParty(e) = v /\ RankedCandidate(e) = r /\ v \in Nat /\ r \in Nat
  BY <1>2, <1>7, RanksAreIndices
<1>9. CAIProofVerifies(e, EncrValuesCAI(ValuesCAI(c, l1_code, l2_code)),
                       CAIWitness(ValuesCAI(c, l1_code, l2_code)))
  <2>1. /\ IndexCell(c)[1] = v /\ IndexCell(c)[2] = r
        /\ ~ SumOverflows(c, l1_code, l2_code)
    BY <1>3, SmallIndices DEF v
  <2> QED BY <1>3, <1>8, <2>1, CodesProveIndices DEF CanCast
<1> QED BY <1>6, <1>9 DEF Verifies, CastOf, e

LEMMA SingleFromInv == EncodingInv => SingleChoiceIsAccepted
<1> SUFFICES ASSUME EncodingInv, fresh, NEW c \in choice, c.l1_value <= CAI_POW,
                    \A k \in DOMAIN c.l2_value : c.l2_value[k] <= CAI_POW
             PROVE  /\ stage = "panicked" => Cardinality(Range(c.l2_value)) = 0
                    /\ stage = "rejected" => Cardinality(Range(c.l2_value)) > 1
                    /\ stage = "accepted" => Cardinality(Range(c.l2_value)) = 1
  BY DEF SingleChoiceIsAccepted
<1> DEFINE s == c.l2_value
           R == Range(s)
<1>1. IsChoice(c) /\ IsFresh(c) /\ choice = {c} /\ (stage # "chosen" => CastInv(c))
  BY DEF EncodingInv, VoterInv
<1>2. s \in Seq(Nat) /\ IsFiniteSet(R) /\ Cardinality(R) \in Nat /\ (R = {} <=> s = <<>>)
  <2>1. s \in Seq(Nat) /\ DOMAIN s = 1..Len(s) /\ Len(s) \in Nat /\ R = {s[k] : k \in DOMAIN s}
    BY <1>1 DEF IsChoice, Range
  <2> HIDE DEF s, R
  <2>2. IsFiniteSet(R)
    <3>1. IsFiniteSet(DOMAIN s)
      BY <2>1, FS_Interval
    <3> QED BY <2>1, <3>1, ImageIsFinite
  <2>3. R = {} <=> s = <<>>
    <3>1. s # <<>> => 1 \in DOMAIN s
      BY <2>1
    <3>2. s = <<>> => DOMAIN s = {}
      OBVIOUS
    <3> QED BY <2>1, <3>1, <3>2
  <2> QED BY <2>1, <2>2, <2>3, FS_CardinalityType
<1>3. ASSUME NEW l1_code \in Upto(CAI_POW), NEW l2_code \in Upto(CAI_POW), NEW checked, s # <<>>
      PROVE  CanCast(c, l1_code, l2_code, checked)
  <2>1. s[1] <= CAI_POW
    BY <1>2, <1>3
  <2>2. /\ ~ SumOverflows(c, l1_code, l2_code)
        /\ CAIProvable(ValuesCAI(c, l1_code, l2_code))
    BY <1>1, <1>3, <2>1, SmallIndices
  <2>3. ChoiceProvable(c, ln2) /\ RowsOk(c)
    BY <1>1, FreshCells
  <2> QED BY <1>3, <2>2, <2>3 DEF CanCast
<1>4. ASSUME stage = "panicked" PROVE Cardinality(R) = 0
  <2>1. s = <<>>
    BY <1>1, <1>3, <1>4 DEF CastInv
  <2> QED BY <1>2, <2>1, FS_EmptySet
<1>5. ASSUME stage = "rejected" PROVE Cardinality(R) > 1
  <2>1. PICK l1_code, l2_code \in Upto(CAI_POW), checked \in Checked :
          CanCast(c, l1_code, l2_code, checked) /\ ~ Verifies(CastOf(c, l1_code, l2_code))
    BY <1>1, <1>5 DEF CastInv
  <2>2. R # {}
    BY <1>2, <2>1 DEF CanCast
  <2>3. Cardinality(R) # 1
    <3> SUFFICES ASSUME Cardinality(R) = 1 PROVE FALSE
      OBVIOUS
    <3>1. PICK r : R = {r}
      BY <1>2, FS_Singleton
    <3>2. r <= CAI_POW
      BY <3>1 DEF Range
    <3> QED BY <1>1, <2>1, <3>1, <3>2, OneCandidateVerifies
  <2>4. Cardinality(R) # 0
    BY <1>2, <2>2, FS_EmptySet
  <2> HIDE DEF R
  <2> QED BY <1>2, <2>3, <2>4
<1>6. ASSUME stage = "accepted" PROVE Cardinality(R) = 1
  <2>1. PICK l1_code, l2_code \in Upto(CAI_POW), checked \in Checked :
          CanCast(c, l1_code, l2_code, checked) /\ Verifies(CastOf(c, l1_code, l2_code))
    BY <1>1, <1>6 DEF CastInv
  <2> DEFINE e == EncrChoice(c)
  <2>2. /\ IsList(ln2) /\ IsEncrypted(e) /\ DOMAIN e.l1 = DOMAIN ln2 /\ DOMAIN e.l2 = Cells(ln2)
        /\ ChoiceProofVerifies(e, ln2)
    BY <1>1, <2>1, FreshCells, EncryptedFacts DEF EncodingInv, Verifies, CastOf, CanCast
  <2>3. /\ \A r \in R : <<c.l1_value, r>> \in Cells(ln2)
        /\ \A x \in Cells(ln2) : e.l2[x] = IF x[1] = c.l1_value /\ x[2] \in R THEN 1 ELSE 0
    BY <1>1, FreshCells
  <2> HIDE DEF e, R
  <2>4. PICK y \in Cells(ln2) : VoteFor(e, y)
    BY <2>2, ShapedVoteIsForOne
  <2>5. ASSUME NEW r \in R PROVE y[2] = r
    <3>1. <<c.l1_value, r>> \in Cells(ln2) /\ e.l2[<<c.l1_value, r>>] = 1
      BY <2>3
    <3>2. <<c.l1_value, r>> = y
      BY <2>2, <2>4, <3>1 DEF VoteFor
    <3> QED BY <3>2
  <2>6. \A q, r \in R : q = r
    BY <2>5
  <2>7. R # {}
    BY <1>2, <2>1 DEF CanCast
  <2>8. Cardinality(R) \in {0, 1} /\ (Cardinality(R) = 0 <=> R = {})
    BY <2>6, AtMostOne
  <2> QED BY <2>7, <2>8
<1> QED BY <1>4, <1>5, <1>6

\* VoteEncoding!TypeOK: the tally and every ballot have the cells of the
\* election in every state.
THEOREM EncodingTypes == Spec => []TypeOK
BY EncodingInvariant, TypeFromInv, PTL

\* VerVote::verify accepts nothing but one vote, or with the cells of another
\* election at most one, whatever choice the ballot was made from.
THEOREM AcceptedIsAlwaysOneVote == Spec => []AcceptedIsOneVote
BY EncodingInvariant, OneVoteFromInv, PTL

\* The sum of the one-hot cells counts the choices that name a candidate, with
\* their index fields taken as the u32 that the cast-as-intended proof is about.
THEOREM TallyAlwaysCountsChoices == Spec => []TallyCountsChoices
<1>1. EncodingInv => TallyCountsChoices
  BY DEF EncodingInv, TallyInv
<1> QED BY EncodingInvariant, <1>1, PTL

\* A choice of Choice::new with indices of at most CAI_POW is accepted exactly
\* if it names one candidate, for every draw of the codes.
THEOREM SingleChoiceAlwaysAccepted == Spec => []SingleChoiceIsAccepted
BY EncodingInvariant, SingleFromInv, PTL

\* The audit shows the vote that is counted, for every modulus.
THEOREM AuditAlwaysTellsTheVote == Spec => []AuditTellsTheVote
BY EncodingInvariant, AuditFromInv, PTL
=============================================================================
