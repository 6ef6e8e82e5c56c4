---------------------------- MODULE ElectionProofs ----------------------------
(***************************************************************************)
(* A count is an election (module Election): what it publishes is the      *)
(* outcome of the ballots that were on the board when it started. And a    *)
(* count that stops without publishing anything has a reason to.           *)
(*                                                                         *)
(* RevotingProofs says which ballots are summed. The inductive invariant   *)
(* of the first part adds what the sum amounts to after each summand, that *)
(* the snapshot stays a prefix of the growing board, and that its ballots  *)
(* have been verified. That of the second part says what every call of the *)
(* count hands to the next one as long as nothing has been damaged.        *)
(***************************************************************************)
EXTENDS RevotingProofs

\* The sum over the first n chosen ballots.
SummedUpTo(n) ==
  enc_tally = [c \in Choice |->
                 Cardinality({k \in 1..n : valid[chosen[k].at].vote.choice = c})]

TallyInv ==
  /\ stage \in BeforeKeepLast \cup {"keep_last"} => enc_tally = ZeroTally
  /\ stage = "homomorphic_sum" => i <= Len(chosen) /\ SummedUpTo(i)
  /\ stage \in {"verify_tally", "done"} => SummedUpTo(Len(chosen))
  /\ stage = "done" => \A c \in Choice : decr[c].count = enc_tally[c]

\* The snapshot is what the board held when the count started.
PrefixInv ==
  /\ stage = "list_ballots" <=> snapshot = <<>>
  /\ Len(snapshot) <= Len(ballots)
  /\ \A k \in DOMAIN snapshot : snapshot[k] = ballots[k]

\* A count that goes on to the mix has verified every ballot of the snapshot.
AdmittedInv ==
  /\ \A k \in DOMAIN originals : BallotVerifies(snapshot[k].ballot)
  /\ stage \notin BeforeMix \cup {"failed", "panicked"} => Len(originals) = Len(snapshot)

ElectionInv == RevotingInv /\ TallyInv /\ PrefixInv /\ AdmittedInv
-----------------------------------------------------------------------------
\* The invariant holds initially.
LEMMA ElectionInit == Init => ElectionInv
<1> SUFFICES ASSUME Init PROVE ElectionInv
  OBVIOUS
<1>1. RevotingInv
  BY RevotingInit
<1>2. TallyInv
  BY DEF Init, TallyInv
<1>3. PrefixInv /\ AdmittedInv
  BY DEF Init, Board!Init, PrefixInv, AdmittedInv, BeforeMix
<1> QED BY <1>1, <1>2, <1>3 DEF ElectionInv

\* No step leaves a terminal stage, and the first calls come in their order.
LEMMA EarlySteps ==
  [Next]_vars =>
    \/ UNCHANGED stage
    \/ ListBallots \/ VerifyBallot \/ MixVotes
    \/ stage \notin BeforeMix \cup Terminal
<1> SUFFICES ASSUME [Next]_vars, ~ ListBallots, ~ VerifyBallot, ~ MixVotes, ~ UNCHANGED stage
             PROVE  stage \notin BeforeMix \cup Terminal
  OBVIOUS
<1> USE DEF BeforeMix, Terminal
<1>1. CASE UNCHANGED vars \/ (\E b \in Castable : PostBallot(b)) \/ Damage
  BY <1>1 DEF vars, PostBallot, Damage, DamageAccCheck, DamageFingerprint, DamageTally
<1>2. CASE Count
  BY <1>2 DEF Count, VerifyVoteMix, GenControls, GenAccChecks, FilterInvalid, VerifyAccChecks,
              MixCredentials, VerifyCredMix, GenFingerprints, DecryptFingerprints,
              FilterIllicit, VerifyVoteFingerprint, VotesFingerprintsVerified, KeepLast,
              SortChosen, HomomorphicSum, DecryptTally, VerifyDecryptedTally
<1> QED BY <1>1, <1>2 DEF Next

\* A board that grows keeps what it held.
LEMMA BoardGrows ==
  ASSUME TypeOK, [Next]_vars
  PROVE  /\ Len(ballots) \in Nat /\ Len(ballots') \in Nat /\ Len(ballots) <= Len(ballots')
         /\ \A k \in 1..Len(ballots) : ballots'[k] = ballots[k]
<1>0. ballots \in Seq(Board!BallotRecord)
  BY DEF TypeOK, Board!TypeOK
<1>1. CASE \E b \in Castable : PostBallot(b)
  <2>1. PICK b \in Castable :
          ballots' = Append(ballots, [receipt |-> Board!next_receipt, ballot |-> b])
    BY <1>1 DEF PostBallot, Board!post_ballot
  <2> DEFINE r == [receipt |-> Board!next_receipt, ballot |-> b]
  <2> HIDE DEF r
  <2>2. ballots' = Append(ballots, r)
    BY <2>1 DEF r
  <2> QED BY <1>0, <2>2
<1>2. CASE UNCHANGED board
  BY <1>0, <1>2 DEF board
<1> QED BY <1>1, <1>2, OnlyClientsPost

\* The snapshot is taken once, and the board only grows after it.
LEMMA PrefixStep == ElectionInv /\ [Next]_vars => PrefixInv'
<1> SUFFICES ASSUME ElectionInv, [Next]_vars PROVE PrefixInv'
  OBVIOUS
<1>0. PrefixInv /\ TypeOK
  BY DEF ElectionInv, RevotingInv, ReceiptInv
<1>a. /\ snapshot \in Seq(Record(Castable)) /\ DOMAIN snapshot = 1..Len(snapshot)
      /\ Len(snapshot) \in Nat /\ ballots \in Seq(Board!BallotRecord)
  BY <1>0, SeqIndex DEF TypeOK, VotesTypeOK, Board!TypeOK
<1>1. CASE ListBallots
  <2>1. /\ snapshot' = ballots /\ UNCHANGED ballots /\ stage' = "verify_ballots"
        /\ ballots # <<>>
    BY <1>1 DEF ListBallots, Proceed, board
  <2> QED BY <1>a, <2>1 DEF PrefixInv
<1>2. ASSUME UNCHANGED snapshot, stage = "list_ballots" <=> stage' = "list_ballots"
      PROVE  PrefixInv'
  <2>1. \A k \in DOMAIN snapshot : k \in 1..Len(ballots) /\ snapshot'[k] = ballots'[k]
    BY <1>0, <1>2, <1>a, BoardGrows DEF PrefixInv
  <2> QED BY <1>0, <1>2, <1>a, <2>1, BoardGrows DEF PrefixInv
<1>3. CASE VerifyBallot
  <2>1. UNCHANGED snapshot /\ stage = "verify_ballots" /\ stage' \in {"verify_ballots", "failed"}
    BY <1>3 DEF VerifyBallot, Iterate, Fail
  <2> QED BY <1>2, <2>1
<1>4. CASE UNCHANGED <<snapshot, originals, stage, i>>
  BY <1>2, <1>4
<1>5. CASE UNCHANGED snapshot /\ stage' \notin BeforeMix
  <2>1. MixVotes => stage = "verify_ballots"
    BY DEF MixVotes
  <2>2. stage # "list_ballots"
    BY <1>5, <2>1, EarlySteps DEF BeforeMix, ListBallots, VerifyBallot, Proceed
  <2> QED BY <1>2, <1>5, <2>2 DEF BeforeMix
<1> QED BY <1>1, <1>3, <1>4, <1>5, LaterSteps

\* verify_ballots lets a count go on only if it has verified every ballot.
LEMMA AdmittedStep == ElectionInv /\ [Next]_vars => AdmittedInv'
<1> SUFFICES ASSUME ElectionInv, [Next]_vars PROVE AdmittedInv'
  OBVIOUS
<1>0. /\ AdmittedInv /\ OriginalsInv /\ originals \in Seq(VoteRecord)
      /\ snapshot \in Seq(Record(Castable))
  BY DEF ElectionInv, RevotingInv, ReceiptInv, TypeOK, VotesTypeOK
<1> USE DEF AdmittedInv, BeforeMix
<1>1. CASE ListBallots
  <2>1. originals' = <<>> /\ stage' = "verify_ballots"
    BY <1>0, <1>1 DEF ListBallots, OriginalsInv, Proceed
  <2> QED BY <2>1
<1>2. CASE VerifyBallot
  <2>1. /\ UNCHANGED snapshot /\ stage' \in {"verify_ballots", "failed"}
        /\ i = Len(originals) /\ stage = "verify_ballots"
    BY <1>0, <1>2 DEF VerifyBallot, Iterate, Fail, OriginalsInv
  <2>2. CASE UNCHANGED originals
    BY <1>0, <2>1, <2>2
  <2>3. CASE ~ UNCHANGED originals
    <3> DEFINE r == snapshot[i + 1]
               e == [receipt |-> r.receipt, vote |-> r.ballot.ver_vote]
    <3>1. BallotVerifies(r.ballot) /\ originals' = Append(originals, e)
      BY <1>2, <2>3 DEF VerifyBallot
    <3> HIDE DEF e
    <3>2. \A k \in DOMAIN originals' : k \in DOMAIN originals \/ k = i + 1
      BY <1>0, <2>1, <3>1
    <3> QED BY <1>0, <2>1, <3>1, <3>2
  <2> QED BY <2>2, <2>3
<1>3. CASE MixVotes
  <2>1. UNCHANGED <<snapshot, originals>> /\ Len(originals) = Len(snapshot)
    BY <1>0, <1>3 DEF MixVotes, OriginalsInv
  <2> QED BY <1>0, <2>1
<1>4. CASE UNCHANGED <<snapshot, originals, stage, i>>
  BY <1>0, <1>4
<1>5. CASE UNCHANGED <<snapshot, originals>> /\ stage' \notin BeforeMix
  <2>1. ~ ListBallots
    BY <1>5 DEF ListBallots, Proceed
  <2>2. UNCHANGED stage \/ stage \notin BeforeMix \cup Terminal \/ VerifyBallot \/ MixVotes
    BY <2>1, EarlySteps
  <2> QED BY <1>0, <1>2, <1>3, <1>5, <2>2 DEF Terminal
<1> QED BY <1>1, <1>2, <1>3, <1>4, <1>5, LaterSteps
-----------------------------------------------------------------------------
\* The steps that are not named here leave the sum and its decryption alone.
LEMMA TallySteps ==
  [Next]_vars =>
    \/ SortChosen \/ HomomorphicSum \/ DecryptTally \/ VerifyDecryptedTally \/ DamageTally
    \/ UNCHANGED <<valid, chosen, enc_tally, decr, stage, i>>
    \/ /\ UNCHANGED <<enc_tally, decr>>
       /\ stage' \notin {"homomorphic_sum", "verify_tally", "done"}
       /\ stage' \in BeforeKeepLast \cup {"keep_last"} =>
            stage \in BeforeKeepLast \cup {"keep_last"}
<1> SUFFICES ASSUME [Next]_vars,
                    ~ (\/ SortChosen \/ HomomorphicSum \/ DecryptTally
                       \/ VerifyDecryptedTally \/ DamageTally)
             PROVE  \/ UNCHANGED <<valid, chosen, enc_tally, decr, stage, i>>
                    \/ /\ UNCHANGED <<enc_tally, decr>>
                       /\ stage' \notin {"homomorphic_sum", "verify_tally", "done"}
                       /\ stage' \in BeforeKeepLast \cup {"keep_last"} =>
                            stage \in BeforeKeepLast \cup {"keep_last"}
  OBVIOUS
<1> USE DEF BeforeKeepLast, BeforeFilter, BeforeMix, MixedStages, votesPart, tallyPart,
            Proceed, Fail, Panic, Iterate
<1>1. CASE UNCHANGED vars
  BY <1>1 DEF vars
<1>2. CASE \E b \in Castable : PostBallot(b)
  BY <1>2 DEF PostBallot
<1>3. CASE Damage
  BY <1>3 DEF Damage, DamageAccCheck, DamageFingerprint
<1>4. CASE Count
  <2>1. CASE ListBallots \/ VerifyBallot \/ MixVotes \/ VerifyVoteMix
    BY <2>1 DEF ListBallots, VerifyBallot, MixVotes, VerifyVoteMix
  <2>2. CASE GenControls \/ GenAccChecks \/ FilterInvalid \/ VerifyAccChecks
    BY <2>2 DEF GenControls, GenAccChecks, FilterInvalid, VerifyAccChecks
  <2>3. CASE MixCredentials \/ VerifyCredMix \/ GenFingerprints \/ DecryptFingerprints
    BY <2>3 DEF MixCredentials, VerifyCredMix, GenFingerprints, DecryptFingerprints
  <2>4. CASE FilterIllicit \/ VerifyVoteFingerprint \/ VotesFingerprintsVerified \/ KeepLast
    BY <2>4 DEF FilterIllicit, VerifyVoteFingerprint, VotesFingerprintsVerified, KeepLast
  <2> QED BY <1>4, <2>1, <2>2, <2>3, <2>4 DEF Count
<1> QED BY <1>1, <1>2, <1>3, <1>4 DEF Next

\* The sum of one more vote.
LEMMA SummedStep ==
  ASSUME TypeOK, HomomorphicSum, SummedUpTo(i),
         valid[chosen[i + 1].at].vote.choice \in Choice
  PROVE  SummedUpTo(i)'
<1> DEFINE choice(k) == valid[chosen[k].at].vote.choice
           S(n, c)   == {k \in 1..n : choice(k) = c}
<1>1. /\ UNCHANGED <<valid, chosen>> /\ i' = i + 1 /\ i \in Nat
      /\ enc_tally' = [enc_tally EXCEPT ![choice(i + 1)] = @ + 1]
  BY DEF HomomorphicSum, Iterate, votesPart, TypeOK, FlowTypeOK
<1>2. enc_tally = [c \in Choice |-> Cardinality(S(i, c))]
  BY DEF SummedUpTo
<1>3. ASSUME NEW c \in Choice
      PROVE  Cardinality(S(i + 1, c)) =
               IF choice(i + 1) = c THEN Cardinality(S(i, c)) + 1 ELSE Cardinality(S(i, c))
  <2>1. IsFiniteSet(S(i, c))
    <3>1. IsFiniteSet(1..i) /\ S(i, c) \subseteq 1..i
      BY <1>1, FS_Interval
    <3> QED BY <3>1, FS_Subset
  <2>2. i + 1 \notin S(i, c)
    BY <1>1
  <2>3. S(i + 1, c) = IF choice(i + 1) = c THEN S(i, c) \cup {i + 1} ELSE S(i, c)
    BY <1>1
  <2> HIDE DEF S, choice
  <2> QED BY <2>1, <2>2, <2>3, FS_AddElement
<1>4. choice(i + 1) \in Choice
  OBVIOUS
<1> HIDE DEF S, choice
<1>5. enc_tally' = [c \in Choice |-> Cardinality(S(i + 1, c))]
  BY <1>1, <1>2, <1>3, <1>4
<1>6. \A c \in Choice :
        {k \in 1..i' : valid'[chosen'[k].at].vote.choice = c} = S(i + 1, c)
  BY <1>1 DEF S, choice
<1> QED BY <1>5, <1>6 DEF SummedUpTo

\* Every chosen record points to a valid vote for a choice.
LEMMA ChosenVotes ==
  ASSUME RevotingInv, stage \in RevotedStages, NEW k \in DOMAIN chosen
  PROVE  /\ chosen[k].at \in DOMAIN valid
         /\ valid[chosen[k].at].receipt = chosen[k].seq
         /\ valid[chosen[k].at].vote.choice \in Choice
<1>1. PICK f \in DOMAIN best : chosen[k] = best[f]
  BY ChosenListsSurvivors DEF Survivors
<1>2. valid \in Seq(ValidRecord) /\ RememberedUpTo(Len(valid))
  BY DEF RevotingInv, ReceiptInv, TypeOK, VotesTypeOK, BestInv
<1>3. chosen[k].at \in DOMAIN valid /\ valid[chosen[k].at].receipt = chosen[k].seq
  BY <1>1, <1>2, SeqIndex DEF RememberedUpTo
<1>4. valid[chosen[k].at] \in ValidRecord
  BY <1>2, <1>3, SeqIndex
<1> QED BY <1>3, <1>4 DEF ValidRecord, VoteWithEncPubCred

\* The sum, its decryption and the check of the decryption.
LEMMA TallyStep == ElectionInv /\ [Next]_vars => TallyInv'
<1> SUFFICES ASSUME ElectionInv, [Next]_vars PROVE TallyInv'
  OBVIOUS
<1>0. /\ TallyInv /\ RevotingInv /\ TypeOK /\ i \in Nat
      /\ chosen \in Seq(Chosen) /\ Len(chosen) \in Nat
  BY DEF ElectionInv, RevotingInv, ReceiptInv, TypeOK, FlowTypeOK, TallyTypeOK
<1> USE DEF TallyInv, BeforeKeepLast, BeforeFilter, BeforeMix, MixedStages
<1>a. UNCHANGED <<valid, chosen, enc_tally>> =>
        (SummedUpTo(Len(chosen))' <=> SummedUpTo(Len(chosen)))
  BY DEF SummedUpTo
<1>1. CASE SortChosen
  <2>1. /\ UNCHANGED enc_tally /\ enc_tally = ZeroTally /\ stage' = "homomorphic_sum" /\ i' = 0
        /\ chosen' \in Seq(Chosen)
    <3>1. chosen' \in Seq(Chosen)
      BY <1>0, TypeTally DEF TypeOK, TallyTypeOK
    <3> QED BY <1>0, <1>1, <3>1 DEF SortChosen, Proceed
  <2>2. SummedUpTo(i)'
    <3>1. \A c \in Choice : {k \in 1..0 : valid'[chosen'[k].at].vote.choice = c} = {}
      OBVIOUS
    <3> QED BY <2>1, <3>1, FS_EmptySet DEF SummedUpTo, ZeroTally
  <2>3. 0 <= Len(chosen')
    BY <2>1
  <2> QED BY <2>1, <2>2, <2>3
<1>2. CASE HomomorphicSum
  <2>1. /\ stage = "homomorphic_sum" /\ UNCHANGED <<stage, chosen>> /\ i' = i + 1
        /\ i < Len(chosen)
    BY <1>2 DEF HomomorphicSum, Iterate
  <2>2. valid[chosen[i + 1].at].vote.choice \in Choice
    <3>1. i + 1 \in DOMAIN chosen /\ stage \in RevotedStages
      BY <1>0, <2>1 DEF RevotedStages
    <3> QED BY <1>0, <3>1, ChosenVotes
  <2>3. SummedUpTo(i)'
    BY <1>0, <1>2, <2>1, <2>2, SummedStep
  <2> QED BY <1>0, <2>1, <2>3
<1>3. CASE DecryptTally
  <2>1. /\ stage = "homomorphic_sum" /\ i = Len(chosen)
        /\ UNCHANGED <<valid, chosen, enc_tally>> /\ stage' \in {"verify_tally", "failed"}
    BY <1>3 DEF DecryptTally, Proceed, Fail, votesPart
  <2> QED BY <1>0, <1>a, <2>1
<1>4. CASE VerifyDecryptedTally
  <2>1. /\ stage = "verify_tally" /\ UNCHANGED <<valid, chosen, enc_tally, decr>>
        /\ stage' \in {"done", "failed"}
        /\ stage' = "done" => \A c \in Choice : CountVerifies(c)
    BY <1>4 DEF VerifyDecryptedTally, Proceed, Fail, votesPart, tallyPart
  <2>2. ASSUME NEW c, CountVerifies(c) PROVE decr[c].count = enc_tally[c]
    <3>1. /\ decr[c].ciphertext = [pt |-> enc_tally[c], id |-> c]
          /\ decr[c].plaintext = decr[c].ciphertext.pt /\ decr[c].plaintext = decr[c].count
      BY <2>2 DEF CountVerifies, DecOkVerifies
    <3> QED BY <3>1
  <2> QED BY <1>0, <1>a, <2>1, <2>2
<1>5. CASE DamageTally
  <2>1. /\ UNCHANGED <<valid, chosen, enc_tally, stage>> /\ stage = "verify_tally"
    BY <1>5 DEF DamageTally, votesPart
  <2> QED BY <1>0, <1>a, <2>1
<1>6. CASE UNCHANGED <<valid, chosen, enc_tally, decr, stage, i>>
  BY <1>0, <1>6, <1>a DEF SummedUpTo
<1>7. CASE /\ UNCHANGED <<enc_tally, decr>>
           /\ stage' \notin {"homomorphic_sum", "verify_tally", "done"}
           /\ stage' \in BeforeKeepLast \cup {"keep_last"} =>
                stage \in BeforeKeepLast \cup {"keep_last"}
  BY <1>0, <1>7
<1> QED BY <1>1, <1>2, <1>3, <1>4, <1>5, <1>6, <1>7, TallySteps

\* Every part of the invariant is preserved by every step.
THEOREM ElectionInvariant == Spec => []ElectionInv
<1>1. ElectionInv /\ [Next]_vars => TallyInv' /\ PrefixInv' /\ AdmittedInv'
  BY TallyStep, PrefixStep, AdmittedStep
<1>2. ElectionInv <=> RevotingInv /\ TallyInv /\ PrefixInv /\ AdmittedInv
  BY DEF ElectionInv
<1> QED BY ElectionInit, <1>1, <1>2, RevotingInvariant, PTL DEF Spec
-----------------------------------------------------------------------------
\* The election counts with the same notion of cardinality.
LEMMA SameCardinality == \A S : Promise!Cardinality(S) = Cardinality(S)
  BY Zenon DEF Promise!Cardinality, Cardinality

\* A sum over the last ballots is the outcome of the election.
LEMMA SumIsOutcome ==
  ASSUME RevotingInv, stage \in RevotedStages, SuffixVerifies, SummedUpTo(Len(chosen))
  PROVE  enc_tally = Promise!Outcome(BallotsOf(snapshot))
<1> DEFINE s == BallotsOf(snapshot)
           C == Promise!Counted(s)
           n == Len(chosen)
           pos(k) == chosen[k].seq + 1
<1>1. /\ n \in Nat /\ DOMAIN chosen = 1..n /\ \A k \in 1..n : chosen[k].seq \in Nat
      /\ \A j, k \in 1..n : j < k => chosen[j].seq < chosen[k].seq
  <2>1. chosen \in Seq(Chosen)
    BY ChosenListsSurvivors
  <2>2. \A k \in DOMAIN chosen : chosen[k] \in Chosen
    BY <2>1, SeqIndex
  <2> QED BY <2>1, <2>2, SeqIndex, ChosenListsSurvivors DEF Chosen
<1>2. {pos(k) : k \in 1..n} = C
  <2>1. {pos(k) : k \in 1..n} = {r.seq + 1 : r \in Survivors}
    BY <1>1, ChosenListsSurvivors
  <2> QED BY <2>1, SurvivorsAreCounted
<1>3. ASSUME NEW k \in 1..n
      PROVE  valid[chosen[k].at].vote.choice = s[pos(k)].ver_vote.choice
  <2>1. chosen[k].at \in DOMAIN valid /\ valid[chosen[k].at].receipt = chosen[k].seq
    BY <1>1, ChosenVotes
  <2>2. valid[chosen[k].at].vote = Strip(s[pos(k)].ver_vote)
    BY <2>1, ValidBallots
  <2> QED BY <2>2 DEF Strip
<1> HIDE DEF s, C, n
<1>4. ASSUME NEW c \in Choice
      PROVE  Cardinality({k \in 1..n : valid[chosen[k].at].vote.choice = c}) =
               Cardinality({k \in C : s[k].ver_vote.choice = c})
  <2> DEFINE From == {k \in 1..n : valid[chosen[k].at].vote.choice = c}
             To   == {k \in C : s[k].ver_vote.choice = c}
             h    == [k \in From |-> pos(k)]
  <2>1. h \in [From -> To]
    BY <1>2, <1>3
  <2>2. \A j, k \in From : h[j] = h[k] => j = k
    <3> TAKE j, k \in From
    <3>1. j < k \/ k < j \/ j = k
      BY <1>1
    <3> QED BY <1>1, <3>1
  <2>3. \A m \in To : \E k \in From : h[k] = m
    BY <1>2, <1>3
  <2>4. IsFiniteSet(From)
    <3>1. IsFiniteSet(1..n) /\ From \subseteq 1..n
      BY <1>1, FS_Interval
    <3> QED BY <3>1, FS_Subset
  <2> HIDE DEF From, To, h
  <2>5. h \in Bijection(From, To)
    BY <2>1, <2>2, <2>3 DEF Bijection, Injection, Surjection, IsInjective
  <2>6. Cardinality(From) = Cardinality(To)
    BY <2>4, <2>5, FS_Bijection DEF ExistsBijection
  <2> QED BY <2>6 DEF From, To
<1>5. enc_tally = [c \in Choice |-> Cardinality({k \in 1..n : valid[chosen[k].at].vote.choice = c})]
  BY DEF SummedUpTo, n
<1>6. Promise!Outcome(s) = [c \in Choice |-> Cardinality({k \in C : s[k].ver_vote.choice = c})]
  BY SameCardinality DEF Promise!Outcome, C
<1>7. enc_tally = Promise!Outcome(s)
  BY <1>4, <1>5, <1>6
<1> QED BY <1>7 DEF s

\* A tally that is published is the outcome, state by state.
LEMMA PublishedIsOutcome == ElectionInv => PublishedTallyIsRight
<1> SUFFICES ASSUME ElectionInv, stage = "done", SuffixVerifies
             PROVE  Counts = Promise!Outcome(BallotsOf(snapshot))
  BY DEF PublishedTallyIsRight
<1>1. /\ RevotingInv /\ SummedUpTo(Len(chosen)) /\ stage \in RevotedStages
      /\ \A c \in Choice : decr[c].count = enc_tally[c]
  BY DEF ElectionInv, TallyInv, RevotedStages
<1>2. enc_tally = Promise!Outcome(BallotsOf(snapshot))
  BY <1>1, SumIsOutcome
<1>3. Promise!Outcome(BallotsOf(snapshot)) =
        [c \in Choice |-> Promise!Outcome(BallotsOf(snapshot))[c]]
  BY DEF Promise!Outcome
<1> QED BY <1>1, <1>2, <1>3 DEF Counts

\* Whatever happens to the decryptions on their way to the public pipeline, a
\* tally it accepts is the outcome of the snapshot, unless the damage is where
\* nobody looks.
THEOREM PublishedTalliesAreRight == Spec => []PublishedTallyIsRight
  BY ElectionInvariant, PublishedIsOutcome, PTL
-----------------------------------------------------------------------------
(* The count implements the election, step by step.                        *)

\* A sequence with one more element, as a function.
LEMMA AppendIsFunction ==
  ASSUME NEW S, NEW q \in Seq(S), NEW e \in S
  PROVE  Append(q, e) = [k \in 1..(Len(q) + 1) |-> IF k = Len(q) + 1 THEN e ELSE q[k]]
<1> DEFINE a == Append(q, e)
           n == Len(q) + 1
<1>1. a \in Seq(S) /\ Len(a) = n /\ n \in Nat
  OBVIOUS
<1>2. \A k \in 1..n : a[k] = IF k = n THEN e ELSE q[k]
  OBVIOUS
<1> HIDE DEF a, n
<1>3. a \in [1..n -> S]
  BY <1>1
<1>4. a = [k \in 1..n |-> IF k = n THEN e ELSE q[k]]
  BY <1>2, <1>3
<1> QED BY <1>4 DEF a, n

\* Posting a ballot casts it.
LEMMA PostCasts ==
  ASSUME TypeOK, NEW b \in Castable, PostBallot(b)
  PROVE  Promise!Cast(b)
<1> DEFINE r == [receipt |-> Board!next_receipt, ballot |-> b]
           cast == BallotsOf(ballots)
<1>1. /\ ballots \in Seq(Board!BallotRecord) /\ ballots' = Append(ballots, r)
      /\ UNCHANGED <<snapshot, stage, decr>>
  BY DEF TypeOK, Board!TypeOK, PostBallot, Board!post_ballot, votesPart, tallyPart
<1>2. r.ballot = b
  OBVIOUS
<1> HIDE DEF r
<1>3. /\ Len(ballots) \in Nat /\ DOMAIN ballots = 1..Len(ballots)
      /\ DOMAIN ballots' = 1..(Len(ballots) + 1)
      /\ \A k \in DOMAIN ballots' :
           ballots'[k].ballot = IF k = Len(ballots) + 1 THEN b ELSE ballots[k].ballot
  BY <1>1, <1>2
<1> DEFINE B == {ballots[k].ballot : k \in DOMAIN ballots} \cup {b}
<1>4. cast \in [1..Len(ballots) -> B]
  BY <1>3 DEF BallotsOf
<1>5. cast \in Seq(B) /\ Len(cast) = Len(ballots) /\ b \in B
  BY <1>3, <1>4, FunctionIsSeq
<1> HIDE DEF B
<1>6. Append(cast, b) = [k \in 1..(Len(ballots) + 1) |->
                          IF k = Len(ballots) + 1 THEN b ELSE cast[k]]
  BY <1>5, AppendIsFunction
<1>7. cast' = Append(cast, b)
  BY <1>3, <1>6 DEF BallotsOf
<1> QED BY <1>1, <1>7 DEF Promise!Cast, Counts

\* Reading the snapshot closes the election.
LEMMA SnapshotCloses ==
  ASSUME ElectionInv, ListBallots
  PROVE  Promise!Close
<1>1. /\ snapshot = <<>> /\ ballots # <<>> /\ snapshot' = ballots
      /\ UNCHANGED <<ballots, decr>> /\ stage # "done" /\ stage' # "done"
      /\ ballots \in Seq(Board!BallotRecord)
  BY DEF ElectionInv, PrefixInv, RevotingInv, ReceiptInv, TypeOK, Board!TypeOK, ListBallots,
         Proceed, board, tallyPart
<1>2. Len(ballots) \in Nat /\ DOMAIN ballots = 1..Len(ballots) /\ Len(ballots) # 0
  BY <1>1
<1>3. BallotsOf(ballots) \in [1..Len(ballots) -> {ballots[k].ballot : k \in DOMAIN ballots}]
  BY <1>2 DEF BallotsOf
<1>4. Len(BallotsOf(ballots)) = Len(ballots) /\ BallotsOf(ballots) # <<>>
  BY <1>2, <1>3, FunctionIsSeq
<1> QED BY <1>1, <1>4 DEF Promise!Close

\* An accepted decryption announces the outcome.
LEMMA AcceptAnnounces ==
  ASSUME ElectionInv, VerifyDecryptedTally, SuffixVerifies', ElectionInv', stage' = "done"
  PROVE  Promise!Announce
<1> DEFINE cast == BallotsOf(ballots)
<1>1. stage = "verify_tally" /\ UNCHANGED <<ballots, snapshot>>
  BY DEF VerifyDecryptedTally, board, votesPart
<1>2. /\ snapshot \in Seq(Record(Castable)) /\ ballots \in Seq(Board!BallotRecord)
      /\ PrefixInv /\ AdmittedInv /\ originals \in Seq(VoteRecord)
  BY DEF ElectionInv, RevotingInv, ReceiptInv, TypeOK, VotesTypeOK, Board!TypeOK
<1>3. /\ Len(snapshot) \in Nat /\ Len(snapshot) > 0 /\ DOMAIN snapshot = 1..Len(snapshot)
      /\ Len(ballots) \in Nat /\ DOMAIN ballots = 1..Len(ballots)
      /\ Len(snapshot) <= Len(ballots)
  BY <1>1, <1>2 DEF PrefixInv
<1>4. \A k \in 1..Len(snapshot) : BallotVerifies(snapshot[k].ballot)
  BY <1>1, <1>2, <1>3 DEF AdmittedInv, BeforeMix
<1>5. \A k \in 1..Len(snapshot) : cast[k] = snapshot[k].ballot
  BY <1>2, <1>3 DEF PrefixInv, BallotsOf
<1>6. SubSeq(cast, 1, Len(snapshot)) = BallotsOf(snapshot)
  <2>1. cast \in [1..Len(ballots) -> {ballots[k].ballot : k \in DOMAIN ballots}]
    BY <1>3 DEF BallotsOf
  <2>2. cast \in Seq({ballots[k].ballot : k \in DOMAIN ballots})
    BY <1>3, <2>1, FunctionIsSeq
  <2>3. SubSeq(cast, 1, Len(snapshot)) = [k \in 1..Len(snapshot) |-> cast[k]]
    BY <1>3, <2>2
  <2> QED BY <1>3, <1>5, <2>3 DEF BallotsOf
<1>7. Counts' = Promise!Outcome(BallotsOf(snapshot))
  <2>1. (ElectionInv => PublishedTallyIsRight)'
    BY PublishedIsOutcome, PTL
  <2>2. Counts' = Promise!Outcome(BallotsOf(snapshot))'
    BY <2>1 DEF PublishedTallyIsRight
  <2>3. BallotsOf(snapshot)' = BallotsOf(snapshot)
    BY <1>1 DEF BallotsOf
  <2> QED BY <2>2, <2>3 DEF Promise!Outcome, Promise!Counted, Promise!RightPin, Registered
<1> QED BY <1>1, <1>3, <1>4, <1>5, <1>6, <1>7
        DEF Promise!Announce, Promise!BallotVerifies, BallotVerifies

\* The other steps mean nothing to the election.
LEMMA OtherStepsStutter ==
  ASSUME [Next]_vars, UNCHANGED board, ~ ListBallots, ~ (stage # "done" /\ stage' = "done")
  PROVE  UNCHANGED Promise!vars
<1>1. UNCHANGED ballots
  BY DEF board
<1>2. UNCHANGED snapshot
  BY LaterSteps DEF VerifyBallot
<1>3. stage = "done" <=> stage' = "done"
  BY EarlySteps DEF Terminal, VerifyBallot, MixVotes
<1>4. stage = "done" => UNCHANGED decr
  BY TallySteps DEF SortChosen, HomomorphicSum, DecryptTally, VerifyDecryptedTally, DamageTally
<1> QED BY <1>1, <1>2, <1>3, <1>4 DEF Promise!vars, Counts, BallotsOf

\* Every step of a count is a step of the election or means nothing to it.
LEMMA StepRefines ==
  ASSUME ElectionInv, ElectionInv', SuffixVerifies', [Next]_vars
  PROVE  [Promise!Next]_(Promise!vars)
<1>0. TypeOK
  BY DEF ElectionInv, RevotingInv, ReceiptInv
<1>1. CASE \E b \in Castable : PostBallot(b)
  BY <1>0, <1>1, PostCasts DEF Promise!Next
<1>2. CASE ListBallots
  BY <1>2, SnapshotCloses DEF Promise!Next
<1>3. CASE stage # "done" /\ stage' = "done"
  <2>1. VerifyDecryptedTally
    BY <1>3, TallySteps
       DEF SortChosen, HomomorphicSum, DecryptTally, DamageTally, Proceed, Iterate, Fail
  <2> QED BY <1>3, <2>1, AcceptAnnounces DEF Promise!Next
<1> QED BY <1>1, <1>2, <1>3, OnlyClientsPost, OtherStepsStutter

\* A count implements the election, as long as nobody damages a decryption
\* that is not verified: the electorate gets the outcome of its last right-PIN
\* ballots, once, whatever the order of the mixes and of the other steps.
THEOREM CountImplementsElection == Spec /\ []SuffixVerifies => IsElection
<1>1. Init => Promise!Init
  <2> SUFFICES ASSUME Init PROVE Promise!Init
    OBVIOUS
  <2>1. BallotsOf(ballots) = <<>> /\ Len(snapshot) = 0 /\ stage # "done"
    BY DEF Init, Board!Init, BallotsOf
  <2> QED BY <2>1 DEF Promise!Init
<1> QED BY <1>1, StepRefines, ElectionInvariant, PTL DEF Spec, IsElection, Promise!Spec
-----------------------------------------------------------------------------
(* A count that stops without a tally has a reason.                        *)

\* The stages in which a call is about to use what another one handed over.
HandOverStages ==
  {"verify_vote_mix", "gen_acc_checks", "filter_invalid", "verify_cred_mix",
   "gen_fingerprints", "decrypt_fingerprints", "filter_illicit", "verify_tally"}

\* What the calls of a count hand to each other: the shuffles and fingerprints
\* pass the checks of the calls that follow, and so do the decryptions and the
\* control proofs unless they were damaged.
HandedOverInv ==
  /\ stage = "verify_vote_mix" => VoteMixVerifies
  /\ stage \in {"verify_cred_mix", "gen_fingerprints"} => CredMixVerifies
  /\ stage \in {"decrypt_fingerprints", "filter_illicit"} => FingerprintsVerify
  /\ faults = 0 =>
       /\ stage \in {"gen_acc_checks", "filter_invalid"} =>
            controls = [k \in DOMAIN mixed |-> [for |-> mixed[k].vote]]
       /\ stage = "filter_invalid" =>
            acc_checks = [k \in DOMAIN mixed |-> Decrypt(CredentialCheck(mixed[k].vote))]
       /\ stage = "filter_illicit" =>
            /\ dec_pub = [k \in DOMAIN fps.pub |-> Decrypt(fps.pub[k])]
            /\ dec_votes = [k \in DOMAIN fps.votes |-> Decrypt(fps.votes[k])]
       /\ \A k \in DOMAIN dec_votes : DecOkVerifies(dec_votes[k])
       /\ stage = "verify_tally" => decr = DecryptCounts(enc_tally)

StopInv == RevotingInv /\ HandedOverInv /\ StopHasCause

\* The invariant holds initially.
LEMMA StopInit == Init => StopInv
<1> SUFFICES ASSUME Init PROVE StopInv
  OBVIOUS
<1>1. HandedOverInv /\ StopHasCause
  BY DEF Init, HandedOverInv, StopHasCause
<1> QED BY <1>1, RevotingInit DEF StopInv

\* The steps that are not named here hand nothing over.
LEMMA HandOverSteps ==
  [Next]_vars =>
    \/ MixVotes \/ GenControls \/ GenAccChecks \/ FilterInvalid
    \/ MixCredentials \/ VerifyCredMix \/ GenFingerprints \/ DecryptFingerprints
    \/ DecryptTally \/ Damage
    \/ UNCHANGED <<votesPart, credsPart, enc_tally, decr, faults, stage>>
    \/ UNCHANGED <<dec_votes, faults>> /\ stage' \notin HandOverStages
<1> SUFFICES ASSUME [Next]_vars,
                    ~ (\/ MixVotes \/ GenControls \/ GenAccChecks \/ FilterInvalid
                       \/ MixCredentials \/ VerifyCredMix \/ GenFingerprints
                       \/ DecryptFingerprints \/ DecryptTally \/ Damage)
             PROVE  \/ UNCHANGED <<votesPart, credsPart, enc_tally, decr, faults, stage>>
                    \/ UNCHANGED <<dec_votes, faults>> /\ stage' \notin HandOverStages
  OBVIOUS
<1> USE DEF HandOverStages, credsPart, Proceed, Fail, Panic, Iterate
<1>1. CASE UNCHANGED vars
  BY <1>1 DEF vars, votesPart, tallyPart
<1>2. CASE \E b \in Castable : PostBallot(b)
  BY <1>2 DEF PostBallot, votesPart, tallyPart
<1>3. CASE Count
  <2>1. CASE ListBallots \/ VerifyBallot \/ VerifyVoteMix \/ VerifyAccChecks
    BY <2>1 DEF ListBallots, VerifyBallot, VerifyVoteMix, VerifyAccChecks
  <2>2. CASE FilterIllicit \/ VerifyVoteFingerprint \/ VotesFingerprintsVerified
    BY <2>2 DEF FilterIllicit, VerifyVoteFingerprint, VotesFingerprintsVerified
  <2>3. CASE KeepLast \/ SortChosen \/ HomomorphicSum \/ VerifyDecryptedTally
    BY <2>3 DEF KeepLast, SortChosen, HomomorphicSum, VerifyDecryptedTally
  <2> QED BY <1>3, <2>1, <2>2, <2>3 DEF Count
<1> QED BY <1>1, <1>2, <1>3 DEF Next

\* A decryption by the tabulation teller verifies.
LEMMA DecryptVerifies == \A ct : DecOkVerifies(Decrypt(ct))
  BY DEF DecOkVerifies, Decrypt

\* A shuffle by mix_votes passes verify_vote_mix.
LEMMA MixVotesVerifies ==
  ASSUME TypeOK, MixVotes
  PROVE  VoteMixVerifies'
<1>1. PICK perm \in Perms(Len(originals)) :
        mixed' = [k \in DOMAIN originals |-> Remixed(perm, k)]
  BY DEF MixVotes
<1>2. originals \in Seq(VoteRecord) /\ UNCHANGED originals
  BY DEF TypeOK, VotesTypeOK, MixVotes
<1>3. ASSUME NEW k \in DOMAIN originals
      PROVE  SamePlaintext(mixed'[k].vote, originals[perm[k]].vote)
  <2>1. originals[perm[k]] \in VoteRecord
    BY <1>2, SeqIndex DEF Perms
  <2>2. mixed'[k].vote = ReEncrypt(originals[perm[k]].vote, k)
    BY <1>1 DEF Remixed
  <2> QED BY <2>1, <2>2 DEF SamePlaintext, ReEncrypt, VoteRecord, Vote
<1> QED BY <1>2, <1>3 DEF VoteMixVerifies

\* Every call hands over what the next one accepts.
LEMMA HandedOverStep == StopInv /\ [Next]_vars => HandedOverInv'
<1> SUFFICES ASSUME StopInv, [Next]_vars PROVE HandedOverInv'
  OBVIOUS
<1>0. HandedOverInv /\ TypeOK /\ faults \in Nat
  BY BoundAssumption DEF StopInv, RevotingInv, ReceiptInv, TypeOK, FlowTypeOK
<1>a. UNCHANGED <<fps, cred_mix, valid>> => (FingerprintsVerify' <=> FingerprintsVerify)
  BY DEF FingerprintsVerify
<1>b. UNCHANGED <<mixed, originals>> => (VoteMixVerifies' <=> VoteMixVerifies)
  BY DEF VoteMixVerifies
<1>c. UNCHANGED cred_mix => (CredMixVerifies' <=> CredMixVerifies)
  BY DEF CredMixVerifies
<1> USE DEF HandedOverInv, Proceed, Fail, Iterate
<1>1. CASE MixVotes
  <2>1. stage' = "verify_vote_mix" /\ UNCHANGED <<faults, dec_votes>>
    BY <1>1 DEF MixVotes, credsPart
  <2> QED BY <1>0, <1>1, <2>1, MixVotesVerifies
<1>2. CASE GenControls
  <2>1. /\ stage' = "gen_acc_checks" /\ UNCHANGED <<faults, dec_votes, mixed>>
        /\ controls' = [k \in DOMAIN mixed |-> [for |-> mixed[k].vote]]
    BY <1>2 DEF GenControls, credsPart
  <2> QED BY <1>0, <2>1
<1>3. CASE GenAccChecks
  <2>1. /\ stage' \in {"filter_invalid", "failed"} /\ stage = "gen_acc_checks"
        /\ UNCHANGED <<faults, dec_votes, mixed, controls>>
        /\ stage' = "filter_invalid" =>
             acc_checks' = [k \in DOMAIN controls |-> Decrypt(CredentialCheck(mixed[k].vote))]
    BY <1>3 DEF GenAccChecks, credsPart
  <2>2. faults = 0 => DOMAIN controls = DOMAIN mixed
    BY <1>0, <2>1
  <2> QED BY <1>0, <2>1, <2>2
<1>4. CASE FilterInvalid
  <2>1. /\ stage' \in {"filter_invalid", "failed"} /\ stage = "filter_invalid"
        /\ UNCHANGED <<faults, dec_votes, mixed, controls, acc_checks>>
    BY <1>4 DEF FilterInvalid, credsPart
  <2> QED BY <1>0, <2>1
<1>5. CASE MixCredentials
  <2>1. /\ stage' = "verify_cred_mix" /\ UNCHANGED <<faults, dec_votes>>
        /\ CredMixVerifies'
    BY <1>5 DEF MixCredentials, CredMixVerifies
  <2> QED BY <1>0, <2>1
<1>6. CASE VerifyCredMix
  <2>1. /\ stage' \in {"gen_fingerprints", "failed"} /\ stage = "verify_cred_mix"
        /\ UNCHANGED <<faults, dec_votes, cred_mix>>
    BY <1>6 DEF VerifyCredMix, credsPart
  <2> QED BY <1>0, <2>1 DEF CredMixVerifies
<1>7. CASE GenFingerprints
  <2>1. /\ stage' \in {"decrypt_fingerprints", "failed"} /\ UNCHANGED <<faults, dec_votes>>
    BY <1>7 DEF GenFingerprints
  <2>2. stage' = "decrypt_fingerprints" => FingerprintsVerify'
    BY <1>7 DEF GenFingerprints, FingerprintsVerify, votesPart
  <2> QED BY <1>0, <2>1, <2>2
<1>8. CASE DecryptFingerprints
  <2>1. /\ stage' \in {"filter_illicit", "failed"} /\ stage = "decrypt_fingerprints"
        /\ UNCHANGED <<faults, fps, cred_mix, valid>>
        /\ \/ stage' = "failed" /\ UNCHANGED dec_votes
           \/ /\ dec_pub' = [k \in DOMAIN fps.pub |-> Decrypt(fps.pub[k])]
              /\ dec_votes' = [k \in DOMAIN fps.votes |-> Decrypt(fps.votes[k])]
    BY <1>8 DEF DecryptFingerprints, votesPart
  <2>2. FingerprintsVerify'
    BY <1>0, <1>a, <2>1
  <2>3. faults = 0 => \A k \in DOMAIN dec_votes' : DecOkVerifies(dec_votes'[k])
    BY <1>0, <2>1, DecryptVerifies
  <2>4. (\A k \in DOMAIN dec_votes : DecOkVerifies(dec_votes[k]))' <=>
          \A k \in DOMAIN dec_votes' : DecOkVerifies(dec_votes'[k])
    BY DEF DecOkVerifies
  <2> QED BY <2>1, <2>2, <2>3, <2>4
<1>9. CASE DecryptTally
  <2>1. /\ stage' \in {"verify_tally", "failed"} /\ UNCHANGED <<faults, dec_votes, enc_tally>>
        /\ stage' = "verify_tally" => decr' = DecryptCounts(enc_tally)
    BY <1>9 DEF DecryptTally, credsPart
  <2> QED BY <1>0, <2>1 DEF DecryptCounts
<1>10. CASE Damage
  <2>1. faults' # 0
    BY <1>0, <1>10 DEF Damage, DamageAccCheck, DamageFingerprint, DamageTally
  <2>2. /\ UNCHANGED stage /\ stage \in {"filter_invalid", "filter_illicit", "verify_tally"}
        /\ UNCHANGED <<fps, cred_mix, valid>>
    BY <1>10 DEF Damage, DamageAccCheck, DamageFingerprint, DamageTally, credsPart, votesPart
  <2> QED BY <1>0, <1>a, <2>1, <2>2
<1>11. CASE UNCHANGED <<votesPart, credsPart, enc_tally, decr, faults, stage>>
  <2>1. /\ UNCHANGED <<mixed, controls, acc_checks, originals, valid>>
        /\ UNCHANGED <<cred_mix, fps, dec_pub, dec_votes>>
        /\ UNCHANGED <<enc_tally, decr, faults, stage>>
    BY <1>11 DEF votesPart, credsPart
  <2> QED BY <1>0, <1>a, <1>b, <1>c, <2>1 DEF DecryptCounts
<1>12. CASE UNCHANGED <<dec_votes, faults>> /\ stage' \notin HandOverStages
  BY <1>0, <1>12 DEF HandOverStages
<1> QED BY <1>1, <1>2, <1>3, <1>4, <1>5, <1>6, <1>7, <1>8, <1>9, <1>10, <1>11, <1>12,
           HandOverSteps

\* Only a call of the count stops it.
LEMMA StopSteps ==
  [Next]_vars => \/ Count
                 \/ UNCHANGED <<stage, snapshot, valid, enc_tally, faults>>
                 \/ stage' \notin Terminal
<1> SUFFICES ASSUME [Next]_vars, ~ Count
             PROVE  \/ UNCHANGED <<stage, snapshot, valid, enc_tally, faults>>
                    \/ stage' \notin Terminal
  OBVIOUS
<1>1. CASE UNCHANGED vars \/ (\E b \in Castable : PostBallot(b))
  BY <1>1 DEF vars, PostBallot, votesPart, tallyPart
<1>2. CASE Damage
  BY <1>2 DEF Damage, DamageAccCheck, DamageFingerprint, DamageTally, Terminal
<1> QED BY <1>1, <1>2 DEF Next

\* Without damage the two calls over the credential checks return Ok.
LEMMA ChecksAccepted ==
  ASSUME HandedOverInv, faults = 0
  PROVE  /\ stage = "gen_acc_checks" =>
              \A k \in DOMAIN controls : ControlVerifies(controls[k], mixed[k].vote)
         /\ stage = "filter_invalid" => \A k \in DOMAIN mixed : AccCheckVerifies(k)
<1> USE DEF HandedOverInv, ControlVerifies
<1>1. stage = "gen_acc_checks" =>
        \A k \in DOMAIN controls : ControlVerifies(controls[k], mixed[k].vote)
  OBVIOUS
<1>2. ASSUME stage = "filter_invalid", NEW k \in DOMAIN mixed PROVE AccCheckVerifies(k)
  <2>1. controls[k].for = mixed[k].vote
    BY <1>2
  <2>2. acc_checks[k] = Decrypt(CredentialCheck(mixed[k].vote))
    BY <1>2
  <2>3. DecOkVerifies(acc_checks[k])
    BY <2>2, DecryptVerifies
  <2>4. acc_checks[k].ciphertext = CredentialCheck(mixed[k].vote)
    BY <2>2 DEF Decrypt
  <2> QED BY <2>1, <2>3, <2>4 DEF AccCheckVerifies
<1> QED BY <1>1, <1>2

\* Without damage filter_illicit finds every list as it expects it.
LEMMA FingerprintsAccepted ==
  ASSUME StopInv, faults = 0, stage = "filter_illicit"
  PROVE  /\ FingerprintsAligned /\ FingerprintsVerify
         /\ \A k \in DOMAIN dec_pub : DecOkVerifies(dec_pub[k])
<1>1. /\ FingerprintsVerify
      /\ dec_pub = [k \in DOMAIN fps.pub |-> Decrypt(fps.pub[k])]
      /\ dec_votes = [k \in DOMAIN fps.votes |-> Decrypt(fps.votes[k])]
  BY DEF StopInv, HandedOverInv
<1>2. /\ dec_pub \in Seq(FpDecryption) /\ dec_votes \in Seq(FpDecryption)
      /\ fps.pub \in Seq(FpCiphertext) /\ fps.votes \in Seq(FpCiphertext)
      /\ cred_mix \in Seq(Credential) /\ valid \in Seq(ValidRecord)
  BY DEF StopInv, RevotingInv, ReceiptInv, TypeOK, CredsTypeOK, VotesTypeOK
<1>3. DOMAIN fps.pub = DOMAIN cred_mix /\ DOMAIN fps.votes = DOMAIN valid
  BY <1>1 DEF FingerprintsVerify
<1>4. DOMAIN dec_pub = DOMAIN fps.pub /\ DOMAIN dec_votes = DOMAIN fps.votes
  BY <1>1
<1>5. /\ Len(dec_votes) = Len(valid) /\ Len(dec_pub) = Len(cred_mix)
      /\ Len(fps.votes) = Len(valid) /\ Len(fps.pub) = Len(cred_mix)
  BY <1>2, <1>3, <1>4
<1>6. /\ \A k \in DOMAIN dec_pub : fps.pub[k] = dec_pub[k].ciphertext
      /\ \A k \in DOMAIN dec_votes : fps.votes[k] = dec_votes[k].ciphertext
  BY <1>1 DEF Decrypt
<1>7. \A k \in DOMAIN dec_pub : DecOkVerifies(dec_pub[k])
  BY <1>1, DecryptVerifies
<1> QED BY <1>1, <1>5, <1>6, <1>7 DEF FingerprintsAligned

\* Without damage the published counts are those of the decrypted tally.
LEMMA CountsAccepted ==
  ASSUME HandedOverInv, faults = 0, stage = "verify_tally"
  PROVE  \A c \in Choice : CountVerifies(c)
<1>1. decr = DecryptCounts(enc_tally)
  BY DEF HandedOverInv
<1> QED BY <1>1 DEF DecryptCounts, CountVerifies, DecOkVerifies

\* A call that returns Err.
LEMMA FailureHasCause ==
  ASSUME StopInv, Count, stage' = "failed"
  PROVE  /\ UNCHANGED <<snapshot, enc_tally, faults>>
         /\ \/ \E k \in DOMAIN snapshot : ~ BallotVerifies(snapshot[k].ballot)
            \/ \E c \in Choice : ~ InTable(enc_tally[c])
            \/ faults # 0
<1>0. /\ HandedOverInv /\ i \in Nat
      /\ snapshot \in Seq(Record(Castable)) /\ mixed \in Seq(VoteRecord)
      /\ dec_votes \in Seq(FpDecryption)
  BY DEF StopInv, RevotingInv, ReceiptInv, TypeOK, FlowTypeOK, VotesTypeOK, CredsTypeOK
<1> USE DEF Proceed, Fail, Panic, Iterate
<1>1. CASE ListBallots \/ MixVotes \/ GenControls \/ MixCredentials
           \/ VotesFingerprintsVerified \/ KeepLast \/ SortChosen \/ HomomorphicSum
  BY <1>1 DEF ListBallots, MixVotes, GenControls, MixCredentials,
              VotesFingerprintsVerified, KeepLast, SortChosen, HomomorphicSum
<1>2. CASE VerifyBallot
  <2>1. /\ i + 1 \in DOMAIN snapshot /\ ~ BallotVerifies(snapshot[i + 1].ballot)
        /\ UNCHANGED <<snapshot, enc_tally, faults>>
    BY <1>0, <1>2 DEF VerifyBallot, tallyPart
  <2> QED BY <2>1
<1>3. CASE VerifyVoteMix \/ VerifyCredMix
  BY <1>0, <1>3 DEF VerifyVoteMix, VerifyCredMix, HandedOverInv
<1>4. CASE GenAccChecks
  BY <1>0, <1>4, ChecksAccepted DEF GenAccChecks, tallyPart
<1>5. CASE FilterInvalid
  <2>1. /\ i + 1 \in DOMAIN mixed /\ stage = "filter_invalid" /\ ~ AccCheckVerifies(i + 1)
        /\ UNCHANGED <<snapshot, enc_tally, faults>>
    BY <1>0, <1>5 DEF FilterInvalid, AccCheckVerifies, tallyPart
  <2> QED BY <1>0, <2>1, ChecksAccepted
<1>6. CASE VerifyAccChecks
  BY <1>0, <1>6, ChecksAccepted DEF VerifyAccChecks, tallyPart, votesPart
<1>7. CASE GenFingerprints \/ DecryptFingerprints
  BY <1>0, <1>7 DEF GenFingerprints, DecryptFingerprints, HandedOverInv, votesPart, tallyPart
<1>8. CASE FilterIllicit
  <2>1. /\ stage = "filter_illicit" /\ UNCHANGED <<snapshot, enc_tally, faults>>
        /\ ~ (/\ FingerprintsAligned /\ FingerprintsVerify
              /\ \A k \in DOMAIN dec_pub : DecOkVerifies(dec_pub[k]))
    BY <1>8 DEF FilterIllicit, votesPart, tallyPart
  <2> QED BY <2>1, FingerprintsAccepted
<1>9. CASE VerifyVoteFingerprint
  <2>1. /\ i + 1 \in DOMAIN dec_votes /\ ~ DecOkVerifies(dec_votes[i + 1])
        /\ UNCHANGED <<snapshot, enc_tally, faults>>
    BY <1>0, <1>9 DEF VerifyVoteFingerprint, votesPart, tallyPart
  <2> QED BY <1>0, <2>1 DEF HandedOverInv
<1>10. CASE DecryptTally
  BY <1>10 DEF DecryptTally, votesPart
<1>11. CASE VerifyDecryptedTally
  <2>1. /\ stage = "verify_tally" /\ ~ (\A c \in Choice : CountVerifies(c))
        /\ UNCHANGED <<snapshot, enc_tally, faults>>
    BY <1>11 DEF VerifyDecryptedTally, votesPart, tallyPart
  <2> QED BY <1>0, <2>1, CountsAccepted
<1> QED BY <1>1, <1>2, <1>3, <1>4, <1>5, <1>6, <1>7, <1>8, <1>9, <1>10, <1>11 DEF Count

\* A call that panics: filter_illicit, at one of its asserts or past the end of
\* the decryptions of the votes' fingerprints.
LEMMA PanicHasCause ==
  ASSUME StopInv, Count, stage' = "panicked"
  PROVE  UNCHANGED <<valid, faults>> /\ (Len(valid) < Len(PubCreds) \/ faults # 0)
<1> USE DEF Proceed, Fail, Panic, Iterate
<1>1. /\ UNCHANGED <<valid, faults>>
      /\ \/ stage = "filter_illicit" /\ ~ FingerprintsAligned
         \/ stage = "verify_votes_fps" /\ i < Len(dec_pub) /\ i >= Len(dec_votes)
  <2>1. CASE FilterIllicit \/ VerifyVoteFingerprint
    BY <2>1 DEF FilterIllicit, VerifyVoteFingerprint, votesPart
  <2>2. ~ (ListBallots \/ VerifyBallot \/ MixVotes \/ VerifyVoteMix \/ GenControls
           \/ GenAccChecks)
    BY DEF ListBallots, VerifyBallot, MixVotes, VerifyVoteMix, GenControls, GenAccChecks
  <2>3. ~ (FilterInvalid \/ VerifyAccChecks \/ MixCredentials \/ VerifyCredMix
           \/ GenFingerprints \/ DecryptFingerprints)
    BY DEF FilterInvalid, VerifyAccChecks, MixCredentials, VerifyCredMix, GenFingerprints,
           DecryptFingerprints
  <2>4. ~ (VotesFingerprintsVerified \/ KeepLast \/ SortChosen \/ HomomorphicSum
           \/ DecryptTally \/ VerifyDecryptedTally)
    BY DEF VotesFingerprintsVerified, KeepLast, SortChosen, HomomorphicSum, DecryptTally,
           VerifyDecryptedTally
  <2> QED BY <2>1, <2>2, <2>3, <2>4 DEF Count
<1>2. CASE stage = "filter_illicit" /\ ~ FingerprintsAligned
  BY <1>1, <1>2, FingerprintsAccepted
<1>3. CASE stage = "verify_votes_fps" /\ i < Len(dec_pub) /\ i >= Len(dec_votes)
  <2>1. CredMixVerifies /\ FingerprintsAligned
    BY <1>3 DEF StopInv, RevotingInv, FingerprintInv, FingerprintedStages, CheckedStages
  <2>2. Len(dec_votes) = Len(valid) /\ Len(dec_pub) = Len(PubCreds)
    BY <2>1, MixedRegister DEF FingerprintsAligned
  <2>3. i \in Nat /\ Len(valid) \in Nat /\ Len(PubCreds) \in Nat
    BY PubCredsAssumption
       DEF StopInv, RevotingInv, ReceiptInv, TypeOK, FlowTypeOK, VotesTypeOK
  <2> QED BY <1>1, <1>3, <2>2, <2>3
<1> QED BY <1>1, <1>2, <1>3

\* A stopped count had a reason to stop, and keeps it.
LEMMA StopStep == StopInv /\ [Next]_vars => StopHasCause'
<1> SUFFICES ASSUME StopInv, [Next]_vars PROVE StopHasCause'
  OBVIOUS
<1>0. StopHasCause /\ faults \in Nat
  BY BoundAssumption DEF StopInv, RevotingInv, ReceiptInv, TypeOK, FlowTypeOK
<1> USE DEF StopHasCause
<1>1. CASE Count
  <2>1. CASE stage' = "failed"
    BY <1>0, <1>1, <2>1, FailureHasCause
  <2>2. CASE stage' = "panicked"
    BY <1>0, <1>1, <2>2, PanicHasCause
  <2> QED BY <2>1, <2>2
<1>2. CASE UNCHANGED <<stage, snapshot, valid, enc_tally, faults>>
  BY <1>0, <1>2
<1>3. CASE stage' \notin Terminal
  BY <1>3 DEF Terminal
<1> QED BY <1>1, <1>2, <1>3, StopSteps

\* What the calls hand over, and why a count stopped, holds in every state.
THEOREM StopInvariant == Spec => []StopInv
<1>1. StopInv /\ [Next]_vars => HandedOverInv' /\ StopHasCause'
  BY HandedOverStep, StopStep
<1>2. StopInv <=> RevotingInv /\ HandedOverInv /\ StopHasCause
  BY DEF StopInv
<1> QED BY StopInit, <1>1, <1>2, RevotingInvariant, PTL DEF Spec

\* A count returns Err only for a ballot that does not verify, a count beyond
\* the table or damage; filter_illicit panics only if it is given fewer valid
\* votes than registered credentials, or damage. In particular the asserts of
\* filter_illicit hold whatever the two mixes draw.
THEOREM StopsHaveCauses == Spec => []StopHasCause
<1>1. StopInv => StopHasCause
  BY DEF StopInv
<1> QED BY StopInvariant, <1>1, PTL

\* With tellers whose output reaches the pipeline unharmed, a count is an
\* election without further conditions.
THEOREM UndamagedCountIsElection ==
  ASSUME MaxFaults = 0
  PROVE  Spec => IsElection
<1>1. StopInv => SuffixVerifies
  <2> SUFFICES ASSUME StopInv PROVE SuffixVerifies
    OBVIOUS
  <2>1. HandedOverInv /\ faults \in 0..MaxFaults
    BY DEF StopInv, RevotingInv, ReceiptInv, TypeOK, FlowTypeOK
  <2>2. faults = 0
    BY <2>1
  <2> QED BY <2>1, <2>2 DEF HandedOverInv, SuffixVerifies
<1> QED BY StopInvariant, CountImplementsElection, <1>1, PTL
=============================================================================
