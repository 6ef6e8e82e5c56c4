---------------------------- MODULE VoteEncoding ----------------------------
(***************************************************************************)
(* From the voter's choice to the tally: the choice is encoded, VerVote::new *)
(* encrypts it and proves that it is one vote, VerVote::verify checks the  *)
(* proofs, and the ballot is added to the tally.                           *)
(*                                                                         *)
(* A BallotBuilder takes any Choice and does not check it again: besides   *)
(* the one Choice::new just returned it may be one that was stored and     *)
(* read back, or one made with the parameters of another election.         *)
(***************************************************************************)
EXTENDS ChoiceEncoding

CONSTANTS
  Lists,      \* inputs of ChoiceParameters::new: lists of candidate numbers
  Preferences,\* inputs of Choice::new: lists of candidates
  PartyCounts,\* inputs of ChoiceParameters::new: numbers of parties
  Stored,     \* choices that may be read back from storage
  Checked,    \* builds: with overflow checks, without, or both
  MaxVotes    \* bound: ballots added to the tally

\* Lists are vectors, indexed from 0; indices and sizes are of type usize. The
\* fields of a stored choice need not agree.
ASSUME ParameterInputs ==
  PartyCounts \subseteq Nat /\ \A list \in Lists : IsList(list)
ASSUME ChoiceInputs == Preferences \subseteq Seq(Nat) /\ MaxVotes \in Nat
ASSUME StoredInputs ==
  \A c \in Stored :
    /\ c.l1_value \in Nat /\ c.l2_value \in Seq(Nat)
    /\ IsList(c.l1)
    /\ IsList([i \in DOMAIN c.l2 |-> Cardinality(DOMAIN c.l2[i])])
    /\ \A i \in DOMAIN c.l2 : IsList(c.l2[i])
ASSUME BuildInputs == Checked \subseteq BOOLEAN

VARIABLES
  ln2,     \* the parameters of the election; the empty function before setup
  stage,   \* where the voter's ballot is
  choice,  \* the content of the BallotBuilder: no element or one
  fresh,   \* Choice::new made the choice with the election's parameters
  ballot,  \* the ballot cast, with the codes its device keeps: no element or one
  tally,   \* the sum of the accepted ballots
  counted  \* the choices behind them, in order

vars == <<ln2, stage, choice, fresh, ballot, tally, counted>>

NoList == [i \in {} |-> 0]

Init ==
  /\ ln2 = NoList
  /\ stage = "setup"
  /\ choice = {} /\ fresh = FALSE
  /\ ballot = {}
  /\ tally = IdentityChoice(NoList)
  /\ counted = <<>>
-----------------------------------------------------------------------------
\* ChoiceParameters::new; with inputs it rejects nothing happens.
SetUp(n1, list, adjust) ==
  /\ stage = "setup"
  /\ ParametersOk(n1, list)
  /\ ln2' = IF adjust THEN Adjusted(list) ELSE list
  /\ tally' = IdentityChoice(ln2')
  /\ stage' = "idle"
  /\ UNCHANGED <<choice, fresh, ballot, counted>>

\* Choice::new with the parameters "list", which need not be the election's.
Choose(l1, l2, list) ==
  /\ stage = "idle"
  /\ ChoiceOk(l1, l2, list)
  /\ choice' = {NewChoice(l1, l2, list)}
  /\ fresh' = (list = ln2)
  /\ stage' = "chosen"
  /\ UNCHANGED <<ln2, ballot, tally, counted>>

\* A stored choice: its fields are taken as they are.
Load(c) ==
  /\ stage = "idle"
  /\ choice' = {c}
  /\ fresh' = FALSE
  /\ stage' = "chosen"
  /\ UNCHANGED <<ln2, ballot, tally, counted>>

\* VerVote::new: draw the codes, encrypt, prove. It reads the first candidate
\* of the list and unwraps the witnesses, so it returns a ballot or panics.
Cast(l1_code, l2_code, checked) ==
  /\ stage = "chosen"
  /\ \E c \in choice :
       IF /\ c.l2_value # <<>>
          /\ RowsOk(c)
          /\ ~ (checked /\ SumOverflows(c, l1_code, l2_code))
          /\ ChoiceProvable(c, ln2)
          /\ CAIProvable(ValuesCAI(c, l1_code, l2_code))
       THEN LET cai == ValuesCAI(c, l1_code, l2_code) IN
              /\ ballot' = {[choice |-> EncrChoice(c),
                             cai    |-> EncrValuesCAI(cai),
                             wit    |-> CAIWitness(cai),
                             values |-> cai]}
              /\ stage' = "cast"
       ELSE stage' = "panicked" /\ UNCHANGED ballot
  /\ UNCHANGED <<ln2, choice, fresh, tally, counted>>

\* VerVote::verify.
Verify ==
  /\ stage = "cast"
  /\ \E b \in ballot :
       stage' = IF /\ ChoiceProofVerifies(b.choice, ln2)
                   /\ CAIProofVerifies(b.choice, b.cai, b.wit)
                THEN "accepted" ELSE "rejected"
  /\ UNCHANGED <<ln2, choice, fresh, ballot, tally, counted>>

HasElectionShape(b) ==
  DOMAIN b.choice.l1 = DOMAIN ln2 /\ DOMAIN b.choice.l2 = Cells(ln2)

\* One summand of homomorphic_sum.
AddToTally ==
  /\ stage = "accepted"
  /\ Len(counted) < MaxVotes
  /\ \E b \in ballot, c \in choice :
       /\ tally' = AddChoice(tally, b.choice)
       /\ counted' = Append(counted, [cell   |-> IndexCell(c),
                                      shaped |-> HasElectionShape(b)])
  /\ stage' = "idle"
  /\ choice' = {} /\ fresh' = FALSE /\ ballot' = {}
  /\ UNCHANGED ln2

Next ==
  \/ \E n1 \in PartyCounts, list \in Lists, adjust \in BOOLEAN : SetUp(n1, list, adjust)
  \/ \E list \in {ln2} \cup Lists, l2 \in Preferences :
       \E l1 \in DOMAIN list : Choose(l1, l2, list)
  \/ \E c \in Stored : Load(c)
  \/ \E l1_code, l2_code \in Upto(CAI_POW), checked \in Checked : Cast(l1_code, l2_code, checked)
  \/ Verify
  \/ AddToTally

Spec == Init /\ [][Next]_vars
-----------------------------------------------------------------------------
Stages == {"setup", "idle", "chosen", "cast", "accepted", "rejected", "panicked"}

\* The tally and the ballots have the cells of the election in every state.
TypeOK ==
  /\ stage \in Stages
  /\ fresh \in BOOLEAN
  /\ Cardinality(choice) <= 1 /\ Cardinality(ballot) <= 1
  /\ tally.l1 \in [DOMAIN ln2 -> Nat]
  /\ tally.l2 \in [Cells(ln2) -> Nat]
  /\ \A b \in ballot : DOMAIN ln2 \subseteq DOMAIN b.choice.l1
                       /\ Cells(ln2) \subseteq DOMAIN b.choice.l2
  /\ \A k \in DOMAIN counted : counted[k].shaped \in BOOLEAN

\* A ballot that verifies adds at most one vote to the tally, whatever choice
\* it was made from. If it has the shape of the election it adds exactly one,
\* for a party and for one candidate of that party.
AcceptedIsOneVote ==
  stage = "accepted" => \A b \in ballot :
    LET Ones == {x \in Cells(ln2) : b.choice.l2[x] # 0}
        Parties == {i \in DOMAIN ln2 : b.choice.l1[i] # 0} IN
      /\ Cardinality(Ones) <= 1 /\ Cardinality(Parties) <= 1
      /\ \A x \in Ones : b.choice.l2[x] = 1 /\ Parties = {x[1]}
      /\ HasElectionShape(b) => Cardinality(Ones) = 1

\* The tally counts for every candidate the accepted choices that name the
\* candidate: the one-hot cells that are added up agree with the index
\* fields of the choice, even when the choice was not made by Choice::new.
\* It is the cast-as-intended proof that ties the two together, and it knows
\* the fields as the u32 they are cast to: a stored index of 2^32 counts for 0.
TallyCountsChoices ==
  (\A k \in DOMAIN counted : counted[k].shaped) =>
    /\ \A x \in Cells(ln2) :
         tally.l2[x] = Cardinality({k \in DOMAIN counted : counted[k].cell = x})
    /\ \A i \in DOMAIN ln2 : tally.l1[i] = SumCandidates(tally, i)

\* Of the choices that Choice::new makes with indices of at most CAI_POW the
\* ones for exactly one candidate yield a ballot that verifies, whatever codes
\* are drawn: without a candidate casting panics, and with two different ones
\* the ballot does not verify. (With a larger index the sum of code and index
\* can leave the two values the proof provides for.)
SingleChoiceIsAccepted ==
  fresh => \A c \in choice :
    /\ c.l1_value <= CAI_POW
    /\ \A k \in DOMAIN c.l2_value : c.l2_value[k] <= CAI_POW
    => LET named == Cardinality(Range(c.l2_value)) IN
         /\ stage = "panicked" => named = 0
         /\ stage = "rejected" => named > 1
         /\ stage = "accepted" => named = 1

\* For a ballot that verifies, the audit shows every voter the vote that will
\* be counted: whichever of code and sum is asked for, the ballot yields what
\* the device revealed, and sum minus code is the index of the encoded party
\* or candidate modulo CAI_POW, even when the device encoded another index
\* than the fields of the choice have.
AuditTellsTheVote ==
  stage = "accepted" => \A b \in ballot : HasElectionShape(b) =>
    LET shown(kind) == ExtractCAIValues(b.cai, FromReveal(
                         Reveal(b.values, [l \in {"l1", "l2"} |-> kind])))
        diff(l) == (shown("sum")[l].l_v - shown("code")[l].l_v) % CAI_POW IN
      /\ \A asked \in [{"l1", "l2"} -> {"code", "sum"}] :
           LET revealed == Reveal(b.values, asked)
           IN ExtractCAIValues(b.cai, FromReveal(revealed)) = revealed
      /\ \A x \in Cells(ln2) : b.choice.l2[x] = 1 =>
           diff("l1") = x[1] % CAI_POW /\ diff("l2") = x[2] % CAI_POW
-----------------------------------------------------------------------------
(* Statements of the source that the code contradicts.                     *)

\* Choice::new documents the "Generation of a valid Choice", and Voter::vote
\* returns a ballot for every choice: casting it should not panic.
ValidChoiceIsCast == fresh => stage # "panicked"
=============================================================================
