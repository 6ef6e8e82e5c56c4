--------------------------- MODULE PipelineProofs ---------------------------
(***************************************************************************)
(* Theorems about a count, for every electorate, every register and any    *)
(* number of ballots and of damaged decryptions.                           *)
(***************************************************************************)
EXTENDS PipelineProperties, FiniteSetTheorems, TLAPS

(***************************************************************************)
(* Type correctness.                                                       *)
(***************************************************************************)

\* A function on 1..n is a sequence of its values.
LEMMA FunctionIsSeq ==
  ASSUME NEW S, NEW n \in Nat, NEW f \in [1..n -> S]
  PROVE  f \in Seq(S) /\ Len(f) = n /\ DOMAIN f = 1..n
  OBVIOUS

\* The indices of a sequence.
LEMMA SeqIndex ==
  ASSUME NEW S, NEW s \in Seq(S)
  PROVE  /\ Len(s) \in Nat /\ DOMAIN s = 1..Len(s)
         /\ \A k \in DOMAIN s : s[k] \in S
  OBVIOUS

\* Appending, and overwriting an element, keep the type of a sequence.
LEMMA SeqUpdate ==
  ASSUME NEW S, NEW s \in Seq(S), NEW e \in S
  PROVE  /\ Append(s, e) \in Seq(S)
         /\ \A k \in DOMAIN s : [s EXCEPT ![k] = e] \in Seq(S)
  OBVIOUS

\* So does exchanging two elements.
LEMMA SwapIsSeq ==
  ASSUME NEW S, NEW s \in Seq(S), NEW k \in DOMAIN s, NEW l \in DOMAIN s
  PROVE  Swapped(s, k, l) \in Seq(S)
<1>1. s[k] \in S /\ s[l] \in S
  BY SeqIndex
<1>2. [s EXCEPT ![k] = s[l]] \in Seq(S) /\ l \in DOMAIN [s EXCEPT ![k] = s[l]]
  BY <1>1, SeqUpdate
<1> QED BY <1>1, <1>2, SeqUpdate DEF Swapped

\* A function with a finite domain has a finite range.
LEMMA ImageFinite ==
  ASSUME NEW D, IsFiniteSet(D), NEW T, NEW f \in [D -> T]
  PROVE  IsFiniteSet({f[x] : x \in D}) /\ {f[x] : x \in D} \subseteq T
<1>1. f \in Surjection(D, {f[x] : x \in D})
  BY DEF Surjection
<1> QED BY <1>1, FS_Surjection

\* The ballots of clients are ballots.
LEMMA CastableVote ==
  ASSUME NEW r \in Record(Castable)
  PROVE  r.receipt \in Nat /\ r.ballot \in Castable /\ r.ballot.ver_vote \in Vote
  BY CastableAssumption DEF Record, Vote

\* In the initial state every variable has its type.
LEMMA TypeInit == Init => TypeOK
<1> SUFFICES ASSUME Init PROVE TypeOK
  OBVIOUS
<1>1. Board!TypeOK
  BY DEF Init, Board!Init, Board!TypeOK
<1>2. FlowTypeOK /\ VotesTypeOK /\ CredsTypeOK
  BY BoundAssumption DEF Init, FlowTypeOK, VotesTypeOK, CredsTypeOK, Stages, NoFps
<1>3. TallyTypeOK
  <2>1. DOMAIN best = {}
    BY DEF Init
  <2>2. best \in [DOMAIN best -> Chosen]
    BY <2>1 DEF Init
  <2> QED BY <2>1, <2>2, FS_EmptySet
          DEF Init, TallyTypeOK, ZeroTally, DecryptCounts, TallyDecryption
<1> QED BY <1>1, <1>2, <1>3 DEF TypeOK

\* Only clients write to the board.
LEMMA OnlyClientsPost == [Next]_vars => (\E b \in Castable : PostBallot(b)) \/ UNCHANGED board
  BY DEF Next, Count, Damage, vars, ListBallots, VerifyBallot, MixVotes, VerifyVoteMix,
         GenControls, GenAccChecks, FilterInvalid, VerifyAccChecks, MixCredentials,
         VerifyCredMix, GenFingerprints, DecryptFingerprints, FilterIllicit,
         VerifyVoteFingerprint, VotesFingerprintsVerified, KeepLast, SortChosen,
         HomomorphicSum, DecryptTally, VerifyDecryptedTally, DamageAccCheck,
         DamageFingerprint, DamageTally

\* Clients post well-formed records.
LEMMA TypeBoard == TypeOK /\ [Next]_vars => Board!TypeOK'
<1> SUFFICES ASSUME TypeOK, [Next]_vars PROVE Board!TypeOK'
  OBVIOUS
<1>1. CASE \E b \in Castable : PostBallot(b)
  BY <1>1 DEF TypeOK, PostBallot, Board!TypeOK, Board!post_ballot, Board!BallotRecord,
              Board!next_receipt
<1>2. CASE UNCHANGED board
  BY <1>2 DEF TypeOK, Board!TypeOK, board
<1> QED BY <1>1, <1>2, OnlyClientsPost

\* Every call ends in a stage of the count.
LEMMA TypeFlow == TypeOK /\ [Next]_vars => FlowTypeOK'
<1> SUFFICES ASSUME TypeOK, [Next]_vars PROVE FlowTypeOK'
  OBVIOUS
<1> USE DEF TypeOK, FlowTypeOK, Stages, Terminal, Proceed, Fail, Panic, Iterate
<1>1. CASE UNCHANGED <<stage, i, faults>>
  BY <1>1
<1>2. CASE \E b \in Castable : PostBallot(b)
  BY <1>2 DEF PostBallot
<1>3. CASE UNCHANGED vars
  BY <1>3 DEF vars
<1>4. CASE Count
  <2>1. CASE ListBallots \/ VerifyBallot \/ MixVotes \/ VerifyVoteMix
    BY <2>1 DEF ListBallots, VerifyBallot, MixVotes, VerifyVoteMix
  <2>2. CASE GenControls \/ GenAccChecks \/ FilterInvalid \/ VerifyAccChecks
    BY <2>2 DEF GenControls, GenAccChecks, FilterInvalid, VerifyAccChecks
  <2>3. CASE MixCredentials \/ VerifyCredMix \/ GenFingerprints \/ DecryptFingerprints
    BY <2>3 DEF MixCredentials, VerifyCredMix, GenFingerprints, DecryptFingerprints
  <2>4. CASE FilterIllicit \/ VerifyVoteFingerprint \/ VotesFingerprintsVerified
    BY <2>4 DEF FilterIllicit, VerifyVoteFingerprint, VotesFingerprintsVerified
  <2>5. CASE KeepLast \/ SortChosen
    BY <2>5 DEF KeepLast, SortChosen
  <2>6. CASE HomomorphicSum \/ DecryptTally \/ VerifyDecryptedTally
    BY <2>6 DEF HomomorphicSum, DecryptTally, VerifyDecryptedTally
  <2> QED BY <1>4, <2>1, <2>2, <2>3, <2>4, <2>5, <2>6 DEF Count
<1>5. CASE Damage
  BY <1>5, BoundAssumption DEF Damage, DamageAccCheck, DamageFingerprint, DamageTally
<1> QED BY <1>2, <1>3, <1>4, <1>5 DEF Next

\* The votes, from the snapshot to the valid ones, keep their types.
LEMMA TypeVotes == TypeOK /\ [Next]_vars => VotesTypeOK'
<1> SUFFICES ASSUME TypeOK, [Next]_vars PROVE VotesTypeOK'
  OBVIOUS
<1>0. VotesTypeOK
  BY DEF TypeOK
<1>a. /\ originals \in Seq(VoteRecord) /\ mixed \in Seq(VoteRecord)
      /\ controls \in Seq(Control) /\ acc_checks \in Seq(AccCheck)
      /\ valid \in Seq(ValidRecord)
  BY <1>0 DEF VotesTypeOK
<1>1. CASE UNCHANGED votesPart
  BY <1>0, <1>1 DEF votesPart, VotesTypeOK
<1>2. CASE ListBallots
  BY <1>0, <1>2 DEF ListBallots, VotesTypeOK, TypeOK, Board!TypeOK, Board!BallotRecord, Record
<1>3. CASE VerifyBallot
  <2> DEFINE r == snapshot[i + 1]
             e == [receipt |-> r.receipt, vote |-> r.ballot.ver_vote]
  <2>1. r \in Record(Castable)
    BY <1>0, <1>3 DEF VerifyBallot, TypeOK, FlowTypeOK, VotesTypeOK
  <2>2. e \in VoteRecord
    BY <2>1, CastableVote DEF VoteRecord
  <2>3. originals' = Append(originals, e) \/ originals' = originals
    BY <1>3 DEF VerifyBallot
  <2> HIDE DEF e
  <2>4. originals' \in Seq(VoteRecord)
    BY <1>a, <2>2, <2>3, SeqUpdate
  <2> QED BY <1>0, <1>3, <2>4 DEF VerifyBallot, VotesTypeOK
<1>4. CASE MixVotes
  <2>1. PICK perm \in Perms(Len(originals)) :
          mixed' = [k \in DOMAIN originals |-> Remixed(perm, k)]
    BY <1>4 DEF MixVotes
  <2>2. DOMAIN originals = 1..Len(originals) /\ Len(originals) \in Nat
    BY <1>0 DEF VotesTypeOK
  <2>3. ASSUME NEW k \in DOMAIN originals PROVE Remixed(perm, k) \in VoteRecord
    <3>1. originals[perm[k]] \in VoteRecord
      BY <1>0, <2>2 DEF Perms, VotesTypeOK
    <3>2. ReEncrypt(originals[perm[k]].vote, k) \in Vote
      BY <2>2, <3>1 DEF ReEncrypt, VoteRecord, Vote
    <3> QED BY <3>1, <3>2 DEF Remixed, VoteRecord
  <2>4. mixed' \in [1..Len(originals) -> VoteRecord]
    BY <2>1, <2>2, <2>3
  <2>5. mixed' \in Seq(VoteRecord)
    BY <2>2, <2>4, FunctionIsSeq
  <2> QED BY <1>0, <1>4, <2>5 DEF MixVotes, VotesTypeOK
<1>5. CASE GenControls
  <2>1. DOMAIN mixed = 1..Len(mixed) /\ Len(mixed) \in Nat
    BY <1>0 DEF VotesTypeOK
  <2>2. ASSUME NEW k \in DOMAIN mixed PROVE [for |-> mixed[k].vote] \in Control
    <3>1. mixed[k] \in VoteRecord
      BY <1>a, SeqIndex
    <3> QED BY <3>1 DEF VoteRecord, Control
  <2>3. controls' \in [1..Len(mixed) -> Control]
    BY <1>5, <2>1, <2>2 DEF GenControls
  <2>4. controls' \in Seq(Control)
    BY <2>1, <2>3, FunctionIsSeq
  <2> QED BY <1>0, <1>5, <2>4 DEF GenControls, VotesTypeOK
<1>6. CASE GenAccChecks
  <2>1. CASE \A k \in DOMAIN controls : ControlVerifies(controls[k], mixed[k].vote)
    <3>1. DOMAIN controls = 1..Len(controls) /\ Len(controls) \in Nat
      BY <1>0 DEF VotesTypeOK
    <3>2. ASSUME NEW k \in DOMAIN controls
          PROVE  Decrypt(CredentialCheck(mixed[k].vote)) \in AccCheck
      <4>1. mixed[k].vote \in Vote
        <5>1. controls[k] \in Control /\ ControlVerifies(controls[k], mixed[k].vote)
          BY <1>a, <2>1, SeqIndex
        <5> QED BY <5>1 DEF ControlVerifies, Control
      <4> QED BY <4>1 DEF Decrypt, CredentialCheck, AccCheck, CheckCiphertext, CheckPlaintext
    <3>3. acc_checks' \in [1..Len(controls) -> AccCheck]
      BY <1>6, <2>1, <3>1, <3>2 DEF GenAccChecks
    <3>4. acc_checks' \in Seq(AccCheck)
      BY <3>1, <3>3, FunctionIsSeq
    <3> QED BY <1>0, <1>6, <3>4 DEF GenAccChecks, VotesTypeOK
  <2>2. CASE UNCHANGED acc_checks
    BY <1>0, <1>6, <2>2 DEF GenAccChecks, VotesTypeOK
  <2> QED BY <1>6, <2>1, <2>2 DEF GenAccChecks
<1>7. CASE FilterInvalid
  <2>1. Kept(i + 1) \in ValidRecord
    <3>1. i + 1 \in DOMAIN mixed
      BY <1>a, <1>7, SeqIndex DEF FilterInvalid, TypeOK, FlowTypeOK
    <3>2. mixed[i + 1] \in VoteRecord
      BY <1>a, <3>1, SeqIndex
    <3> QED BY <3>2 DEF Kept, Strip, ValidRecord, VoteWithEncPubCred, VoteRecord, Vote
  <2>2. valid' = Append(valid, Kept(i + 1)) \/ valid' = valid
    BY <1>7 DEF FilterInvalid
  <2>3. valid' \in Seq(ValidRecord)
    BY <1>a, <2>1, <2>2, SeqUpdate
  <2> QED BY <1>0, <1>7, <2>3 DEF FilterInvalid, VotesTypeOK
<1>8. CASE DamageAccCheck
  <2>1. CASE \E k \in DOMAIN acc_checks, p \in CheckPlaintext :
               acc_checks' = [acc_checks EXCEPT ![k].plaintext = p] /\ UNCHANGED controls
    <3>1. PICK k \in DOMAIN acc_checks, p \in CheckPlaintext :
            acc_checks' = [acc_checks EXCEPT ![k].plaintext = p] /\ UNCHANGED controls
      BY <2>1
    <3>2. acc_checks[k] \in AccCheck
      BY <1>a, SeqIndex
    <3>3. [acc_checks[k] EXCEPT !.plaintext = p] \in AccCheck
      BY <3>2 DEF AccCheck
    <3>4. acc_checks' = [acc_checks EXCEPT ![k] = [acc_checks[k] EXCEPT !.plaintext = p]]
      BY <3>1
    <3> QED BY <1>0, <1>8, <1>a, <3>1, <3>3, <3>4, SeqUpdate DEF DamageAccCheck, VotesTypeOK
  <2>2. CASE \E k, l \in DOMAIN acc_checks :
               acc_checks' = Swapped(acc_checks, k, l) /\ UNCHANGED controls
    BY <1>0, <1>8, <1>a, <2>2, SwapIsSeq DEF DamageAccCheck, VotesTypeOK
  <2>3. CASE \E k, l \in DOMAIN controls :
               controls' = Swapped(controls, k, l) /\ UNCHANGED acc_checks
    BY <1>0, <1>8, <1>a, <2>3, SwapIsSeq DEF DamageAccCheck, VotesTypeOK
  <2> QED BY <1>8, <2>1, <2>2, <2>3 DEF DamageAccCheck
<1>9. [Next]_vars => \/ UNCHANGED votesPart \/ ListBallots \/ VerifyBallot \/ MixVotes
                     \/ GenControls \/ GenAccChecks \/ FilterInvalid \/ DamageAccCheck
  BY DEF Next, Count, Damage, vars, PostBallot, VerifyVoteMix, VerifyAccChecks, MixCredentials,
         VerifyCredMix, GenFingerprints, DecryptFingerprints, FilterIllicit,
         VerifyVoteFingerprint, VotesFingerprintsVerified, KeepLast, SortChosen,
         HomomorphicSum, DecryptTally, VerifyDecryptedTally, DamageFingerprint, DamageTally
<1> QED BY <1>1, <1>2, <1>3, <1>4, <1>5, <1>6, <1>7, <1>8, <1>9

\* The credential mix, the fingerprints and their decryptions keep their types.
LEMMA TypeCreds == TypeOK /\ [Next]_vars => CredsTypeOK'
<1> SUFFICES ASSUME TypeOK, [Next]_vars PROVE CredsTypeOK'
  OBVIOUS
<1>0. CredsTypeOK
  BY DEF TypeOK
<1>a. /\ valid \in Seq(ValidRecord) /\ cred_mix \in Seq(Credential)
      /\ fps.pub \in Seq(FpCiphertext) /\ fps.votes \in Seq(FpCiphertext)
      /\ dec_pub \in Seq(FpDecryption) /\ dec_votes \in Seq(FpDecryption)
  BY <1>0 DEF TypeOK, CredsTypeOK, VotesTypeOK
<1>1. CASE UNCHANGED credsPart
  BY <1>0, <1>1 DEF credsPart, CredsTypeOK
<1>2. CASE MixCredentials
  <2>1. PICK perm \in Perms(Len(PubCreds)) :
          cred_mix' = [k \in DOMAIN PubCreds |-> PubCreds[perm[k]]]
    BY <1>2 DEF MixCredentials
  <2>2. DOMAIN PubCreds = 1..Len(PubCreds) /\ Len(PubCreds) \in Nat
    BY PubCredsAssumption, SeqIndex
  <2>3. cred_mix' \in [1..Len(PubCreds) -> Credential]
    BY <2>1, <2>2, PubCredsAssumption, SeqIndex DEF Perms
  <2>4. cred_mix' \in Seq(Credential)
    BY <2>2, <2>3, FunctionIsSeq
  <2> QED BY <1>0, <1>2, <2>4 DEF MixCredentials, CredsTypeOK
<1>3. CASE GenFingerprints
  <2>1. CASE UNCHANGED fps
    BY <1>0, <1>3, <2>1 DEF GenFingerprints, CredsTypeOK
  <2>2. CASE ~ UNCHANGED fps
    <3>1. PICK z \in Exponent :
            fps' = [z     |-> {z},
                    pub   |-> [k \in DOMAIN cred_mix |-> Fingerprint(z, cred_mix[k], k)],
                    votes |-> [k \in DOMAIN valid |-> Fingerprint(z, valid[k].vote.A_enc, k)]]
      BY <1>3, <2>2 DEF GenFingerprints
    <3>2. /\ DOMAIN cred_mix = 1..Len(cred_mix) /\ Len(cred_mix) \in Nat
          /\ DOMAIN valid = 1..Len(valid) /\ Len(valid) \in Nat
      BY <1>a, SeqIndex
    <3>3. ASSUME NEW k \in DOMAIN cred_mix PROVE Fingerprint(z, cred_mix[k], k) \in FpCiphertext
      <4>1. cred_mix[k] \in Credential /\ k \in Nat
        BY <1>a, <3>2, SeqIndex
      <4> QED BY <4>1, BlindAssumption DEF Fingerprint, FpCiphertext
    <3>4. ASSUME NEW k \in DOMAIN valid
          PROVE  Fingerprint(z, valid[k].vote.A_enc, k) \in FpCiphertext
      <4>1. valid[k] \in ValidRecord /\ k \in Nat
        BY <1>a, <3>2, SeqIndex
      <4> QED BY <4>1, BlindAssumption DEF Fingerprint, FpCiphertext, ValidRecord,
                                           VoteWithEncPubCred
    <3>5. /\ fps'.pub \in [1..Len(cred_mix) -> FpCiphertext]
          /\ fps'.votes \in [1..Len(valid) -> FpCiphertext]
      BY <3>1, <3>2, <3>3, <3>4
    <3>6. fps'.pub \in Seq(FpCiphertext) /\ fps'.votes \in Seq(FpCiphertext)
      BY <3>2, <3>5, FunctionIsSeq
    <3>7. fps'.z \subseteq Exponent
      BY <3>1
    <3> QED BY <1>0, <1>3, <3>6, <3>7 DEF GenFingerprints, CredsTypeOK
  <2> QED BY <2>1, <2>2
<1>4. CASE DecryptFingerprints
  <2>1. CASE UNCHANGED <<dec_pub, dec_votes>>
    BY <1>0, <1>4, <2>1 DEF DecryptFingerprints, CredsTypeOK
  <2>2. CASE /\ dec_pub' = [k \in DOMAIN fps.pub |-> Decrypt(fps.pub[k])]
             /\ dec_votes' = [k \in DOMAIN fps.votes |-> Decrypt(fps.votes[k])]
    <3>1. ASSUME NEW s \in Seq(FpCiphertext)
          PROVE  [k \in DOMAIN s |-> Decrypt(s[k])] \in Seq(FpDecryption)
      <4>1. DOMAIN s = 1..Len(s) /\ Len(s) \in Nat
        BY SeqIndex
      <4>2. ASSUME NEW k \in DOMAIN s PROVE Decrypt(s[k]) \in FpDecryption
        <5>1. s[k] \in FpCiphertext
          BY SeqIndex
        <5> QED BY <5>1 DEF Decrypt, FpDecryption, FpCiphertext
      <4>3. [k \in DOMAIN s |-> Decrypt(s[k])] \in [1..Len(s) -> FpDecryption]
        BY <4>1, <4>2
      <4> QED BY <4>1, <4>3, FunctionIsSeq
    <3>2. dec_pub' \in Seq(FpDecryption) /\ dec_votes' \in Seq(FpDecryption)
      BY <1>a, <2>2, <3>1
    <3> QED BY <1>0, <1>4, <3>2 DEF DecryptFingerprints, CredsTypeOK
  <2> QED BY <1>4, <2>1, <2>2 DEF DecryptFingerprints
<1>5. CASE DamageFingerprint
  <2>1. ASSUME NEW s \in Seq(FpDecryption), NEW k \in DOMAIN s, NEW p \in Point
        PROVE  [s EXCEPT ![k].plaintext = p] \in Seq(FpDecryption)
    <3>1. s[k] \in FpDecryption
      BY SeqIndex
    <3>2. [s[k] EXCEPT !.plaintext = p] \in FpDecryption
      BY <3>1 DEF FpDecryption
    <3>3. [s EXCEPT ![k].plaintext = p] = [s EXCEPT ![k] = [s[k] EXCEPT !.plaintext = p]]
      OBVIOUS
    <3> QED BY <3>2, <3>3, SeqUpdate
  <2>2. dec_pub' \in Seq(FpDecryption) /\ dec_votes' \in Seq(FpDecryption)
    <3>1. CASE \E k \in DOMAIN dec_pub, p \in Point :
                 dec_pub' = [dec_pub EXCEPT ![k].plaintext = p] /\ UNCHANGED dec_votes
      BY <1>a, <2>1, <3>1
    <3>2. CASE \E k \in DOMAIN dec_votes, p \in Point :
                 dec_votes' = [dec_votes EXCEPT ![k].plaintext = p] /\ UNCHANGED dec_pub
      BY <1>a, <2>1, <3>2
    <3>3. CASE \E k, l \in DOMAIN dec_pub :
                 dec_pub' = Swapped(dec_pub, k, l) /\ UNCHANGED dec_votes
      BY <1>a, <3>3, SwapIsSeq
    <3>4. CASE \E k, l \in DOMAIN dec_votes :
                 dec_votes' = Swapped(dec_votes, k, l) /\ UNCHANGED dec_pub
      BY <1>a, <3>4, SwapIsSeq
    <3> QED BY <1>5, <3>1, <3>2, <3>3, <3>4 DEF DamageFingerprint
  <2> QED BY <1>0, <1>5, <2>2 DEF DamageFingerprint, CredsTypeOK
<1>6. [Next]_vars => \/ UNCHANGED credsPart \/ MixCredentials \/ GenFingerprints
                     \/ DecryptFingerprints \/ DamageFingerprint
  BY DEF Next, Count, Damage, vars, credsPart, PostBallot, ListBallots, VerifyBallot, MixVotes,
         VerifyVoteMix, GenControls, GenAccChecks, FilterInvalid, VerifyAccChecks,
         VerifyCredMix, FilterIllicit, VerifyVoteFingerprint, VotesFingerprintsVerified,
         KeepLast, SortChosen, HomomorphicSum, DecryptTally, VerifyDecryptedTally,
         DamageAccCheck, DamageTally
<1> QED BY <1>1, <1>2, <1>3, <1>4, <1>5, <1>6

\* The revoting table, the ballots it selects and the tally keep their types.
LEMMA TypeTally == TypeOK /\ [Next]_vars => TallyTypeOK'
<1> SUFFICES ASSUME TypeOK, [Next]_vars PROVE TallyTypeOK'
  OBVIOUS
<1>0. TallyTypeOK
  BY DEF TypeOK
<1>1. CASE UNCHANGED tallyPart
  BY <1>0, <1>1 DEF tallyPart, TallyTypeOK
<1>2. CASE KeepLast
  <2> DEFINE fp  == dec_votes[i + 1].plaintext
             rec == [seq |-> valid[i + 1].receipt, at |-> i + 1]
  <2>1. valid[i + 1] \in ValidRecord
    BY <1>2, SeqIndex DEF KeepLast, TypeOK, FlowTypeOK, VotesTypeOK
  <2>2. rec \in Chosen
    BY <2>1 DEF ValidRecord, Chosen, TypeOK, FlowTypeOK
  <2>3. \/ UNCHANGED best
        \/ best' = [f \in DOMAIN best \cup {fp} |-> IF f = fp THEN rec ELSE best[f]]
    BY <1>2 DEF KeepLast
  <2> HIDE DEF fp, rec
  <2>4. IsFiniteSet(DOMAIN best \cup {fp})
    BY <1>0, FS_AddElement DEF TallyTypeOK
  <2>5. IsFiniteSet(DOMAIN best') /\ best' \in [DOMAIN best' -> Chosen]
    BY <1>0, <2>2, <2>3, <2>4 DEF TallyTypeOK
  <2> QED BY <1>0, <1>2, <2>5 DEF KeepLast, TallyTypeOK
<1>3. CASE SortChosen
  <2> DEFINE S == {best[f] : f \in DOMAIN best}
  <2>1. IsFiniteSet(S) /\ S \subseteq Chosen
    BY <1>0, ImageFinite DEF TallyTypeOK
  <2>2. Cardinality(S) \in Nat
    BY <2>1, FS_CardinalityType
  <2>3. chosen' \in SortedBySeq(S)
    BY <1>3 DEF SortChosen
  <2> HIDE DEF S
  <2>5. chosen' \in [1..Cardinality(S) -> Chosen]
    BY <2>1, <2>3 DEF SortedBySeq
  <2>4. chosen' \in Seq(Chosen)
    BY <2>2, <2>5, FunctionIsSeq
  <2> QED BY <1>0, <1>3, <2>4 DEF SortChosen, TallyTypeOK
<1>4. CASE HomomorphicSum
  <2> DEFINE c == valid[chosen[i + 1].at].vote.choice
  <2>1. enc_tally' = [enc_tally EXCEPT ![c] = enc_tally[c] + 1]
    BY <1>4 DEF HomomorphicSum
  <2> HIDE DEF c
  <2>3. enc_tally \in [Choice -> Nat]
    BY <1>0 DEF TallyTypeOK
  <2>2. enc_tally' \in [Choice -> Nat]
    <3>1. CASE c \in Choice
      <4>1. enc_tally[c] + 1 \in Nat
        BY <2>3, <3>1
      <4> QED BY <2>1, <2>3, <4>1
    <3>2. CASE c \notin Choice
      <4>1. enc_tally' = enc_tally
        BY <2>1, <2>3, <3>2, Zenon
      <4> QED BY <2>3, <4>1
    <3> QED BY <3>1, <3>2
  <2> QED BY <1>0, <1>4, <2>2 DEF HomomorphicSum, TallyTypeOK
<1>5. CASE DecryptTally
  BY <1>0, <1>5 DEF DecryptTally, DecryptCounts, TallyTypeOK, TallyDecryption
<1>6. CASE DamageTally
  <2>1. PICK c \in Choice, n \in 0..TableMax :
          decr' \in {[decr EXCEPT ![c].count = n],
                    [decr EXCEPT ![c].count = n, ![c].plaintext = n]}
    BY <1>6 DEF DamageTally
  <2>2. n \in Nat /\ decr[c] \in TallyDecryption /\ decr \in [Choice -> TallyDecryption]
    BY <1>0, <2>1, BoundAssumption DEF TallyTypeOK
  <2>4. /\ [decr[c] EXCEPT !.count = n] \in TallyDecryption
        /\ [decr[c] EXCEPT !.count = n, !.plaintext = n] \in TallyDecryption
    BY <2>2 DEF TallyDecryption
  <2>5. /\ [decr EXCEPT ![c].count = n] = [decr EXCEPT ![c] = [decr[c] EXCEPT !.count = n]]
        /\ [decr EXCEPT ![c].count = n, ![c].plaintext = n] =
             [decr EXCEPT ![c] = [decr[c] EXCEPT !.count = n, !.plaintext = n]]
    BY <2>2
  <2>3. decr' \in [Choice -> TallyDecryption]
    BY <2>1, <2>2, <2>4, <2>5
  <2> QED BY <1>0, <1>6, <2>3 DEF DamageTally, TallyTypeOK
<1>7. [Next]_vars => \/ UNCHANGED tallyPart \/ KeepLast \/ SortChosen \/ HomomorphicSum
                     \/ DecryptTally \/ DamageTally
  BY DEF Next, Count, Damage, vars, tallyPart, PostBallot, ListBallots, VerifyBallot, MixVotes,
         VerifyVoteMix, GenControls, GenAccChecks, FilterInvalid, VerifyAccChecks,
         MixCredentials, VerifyCredMix, GenFingerprints, DecryptFingerprints, FilterIllicit,
         VerifyVoteFingerprint, VotesFingerprintsVerified, VerifyDecryptedTally,
         DamageAccCheck, DamageFingerprint
<1> QED BY <1>1, <1>2, <1>3, <1>4, <1>5, <1>6, <1>7

\* Every variable of a count has its type, for every electorate and register.
THEOREM TypeCorrect == Spec => []TypeOK
<1>1. TypeOK /\ [Next]_vars => TypeOK'
  BY TypeBoard, TypeFlow, TypeVotes, TypeCreds, TypeTally DEF TypeOK
<1> QED BY TypeInit, <1>1, PTL DEF Spec
-----------------------------------------------------------------------------
\* A count implements the bulletin board: initially it is empty, and every
\* step of a count posts one ballot to it or leaves it alone.
THEOREM BoardIsUsed == Spec => UsesBoard
<1>1. Init => Board!Init
  BY DEF Init
<1>2. ASSUME [Next]_vars PROVE [Board!Next]_(Board!vars)
  <2>1. CASE \E b \in Castable : PostBallot(b)
    BY <2>1 DEF PostBallot, Board!Next
  <2>2. CASE UNCHANGED board
    BY <2>2 DEF board, Board!vars
  <2> QED BY <1>2, <2>1, <2>2, OnlyClientsPost
<1> QED BY <1>1, <1>2, PTL DEF Spec, UsesBoard, Board!Spec
---------------------------------------------------------------------------
(***************************************************************************)
(* Votes keep their receipts, and the filter keeps exactly the ballots     *)
(* with the right PIN: the two facts the revoting rule rests on, for every *)
(* electorate, any number of ballots and of damaged decryptions, and every *)
(* permutation a mix may draw.                                             *)
(*                                                                         *)
(* Neither property is inductive by itself. The inductive invariant below  *)
(* follows the votes list by list: board, snapshot, originals, mixed,      *)
(* valid. Each list is described by what the lists before it hold.         *)
(***************************************************************************)

BeforeMix == {"list_ballots", "verify_ballots"}
MixedStages == {"verify_vote_mix", "gen_controls", "gen_acc_checks", "filter_invalid"}
BeforeFilter == (BeforeMix \cup MixedStages) \ {"filter_invalid"}

Distinct(list) == \A j, k \in DOMAIN list : list[j].receipt = list[k].receipt => j = k

\* The snapshot is the board as it was: a receipt is a position.
SnapshotInv == \A k \in DOMAIN snapshot : snapshot[k].receipt = k - 1

\* The originals are the votes of the first i ballots of the snapshot.
OriginalsInv ==
  /\ stage = "list_ballots" => originals = <<>>
  /\ stage = "verify_ballots" => i = Len(originals)
  /\ Len(originals) <= Len(snapshot)
  /\ \A k \in DOMAIN originals :
       originals[k] = [receipt |-> k - 1, vote |-> snapshot[k].ballot.ver_vote]

\* The mixed records are re-encrypted ballots of the snapshot with their own
\* receipts, and until the filter has run every ballot is among them.
MixedInv ==
  /\ stage \in BeforeMix => mixed = <<>>
  /\ Distinct(mixed)
  /\ \A k \in DOMAIN mixed :
       /\ mixed[k].receipt + 1 \in DOMAIN snapshot
       /\ SamePlaintext(mixed[k].vote, Posted(mixed[k].receipt))
  /\ stage \in MixedStages => \A n \in 0..Len(snapshot) - 1 : n \in Receipts(mixed)

\* Positions among the first n mixed records that the decryptions call valid.
CalledValid(n) == {l \in 1..n : acc_checks[l].plaintext = Identity}

\* After i iterations of filter_invalid the valid records are those of the
\* first i mixed records whose check decrypts to the identity.
ValidInv ==
  /\ stage \in BeforeFilter => valid = <<>>
  /\ stage = "filter_invalid" =>
       /\ i <= Len(mixed)
       /\ Receipts(valid) = {mixed[l].receipt : l \in CalledValid(i)}
  /\ Distinct(valid)
  /\ \A k \in DOMAIN valid :
       /\ valid[k].receipt + 1 \in DOMAIN snapshot
       /\ valid[k].vote = Strip(Posted(valid[k].receipt))

ReceiptInv ==
  /\ TypeOK /\ Board!ReceiptIsPosition
  /\ SnapshotInv /\ OriginalsInv /\ MixedInv /\ ValidInv
  /\ ValidAreRightPin
-----------------------------------------------------------------------------
\* The invariant holds initially.
LEMMA ReceiptInit == Init => ReceiptInv
<1> SUFFICES ASSUME Init PROVE ReceiptInv
  OBVIOUS
<1>1. TypeOK
  BY TypeInit
<1>2. Board!ReceiptIsPosition
  BY DEF Init, Board!Init, Board!ReceiptIsPosition
<1>3. SnapshotInv /\ OriginalsInv
  BY DEF Init, SnapshotInv, OriginalsInv
<1>4. MixedInv /\ ValidInv /\ ValidAreRightPin
  BY DEF Init, MixedInv, ValidInv, ValidAreRightPin, Distinct, BeforeMix, MixedStages,
         BeforeFilter, AuditedStages
<1> QED BY <1>1, <1>2, <1>3, <1>4 DEF ReceiptInv

\* Receipts stay positions: only post_ballot writes to the board.
LEMMA BoardStep == ReceiptInv /\ [Next]_vars => Board!ReceiptIsPosition'
<1> SUFFICES ASSUME ReceiptInv, [Next]_vars PROVE Board!ReceiptIsPosition'
  OBVIOUS
<1>0. Board!ReceiptIsPosition /\ ballots \in Seq(Board!BallotRecord)
  BY DEF ReceiptInv, TypeOK, Board!TypeOK
<1>1. CASE \E b \in Castable : PostBallot(b)
  <2>1. PICK b \in Castable : PostBallot(b)
    BY <1>1
  <2> DEFINE r == [receipt |-> next_seq_no, ballot |-> b]
  <2>2. ballots' = Append(ballots, r) /\ next_seq_no' = next_seq_no + 1
    BY <2>1 DEF PostBallot, Board!post_ballot, Board!next_receipt
  <2>3. r.receipt = Len(ballots) /\ next_seq_no = Len(ballots)
    BY <1>0 DEF Board!ReceiptIsPosition
  <2> HIDE DEF r
  <2>4. /\ Len(ballots') = Len(ballots) + 1
        /\ \A k \in DOMAIN ballots' :
             ballots'[k] = IF k = Len(ballots) + 1 THEN r ELSE ballots[k]
        /\ \A k \in DOMAIN ballots' : k # Len(ballots) + 1 => k \in DOMAIN ballots
    BY <1>0, <2>2
  <2>5. Len(ballots) \in Nat
    BY <1>0
  <2> QED BY <1>0, <2>2, <2>3, <2>4, <2>5 DEF Board!ReceiptIsPosition
<1>2. CASE UNCHANGED board
  BY <1>0, <1>2 DEF board, Board!ReceiptIsPosition
<1> QED BY <1>1, <1>2, OnlyClientsPost

\* The steps after the mix leave snapshot and originals alone and never
\* return to the stages before it.
LEMMA LaterSteps ==
  [Next]_vars =>
    \/ ListBallots \/ VerifyBallot
    \/ UNCHANGED <<snapshot, originals, stage, i>>
    \/ UNCHANGED <<snapshot, originals>> /\ stage' \notin BeforeMix
<1> SUFFICES ASSUME [Next]_vars, ~ ListBallots, ~ VerifyBallot
             PROVE  \/ UNCHANGED <<snapshot, originals, stage, i>>
                    \/ UNCHANGED <<snapshot, originals>> /\ stage' \notin BeforeMix
  OBVIOUS
<1> USE DEF BeforeMix, votesPart, Proceed, Fail, Panic, Iterate
<1>1. CASE UNCHANGED vars
  BY <1>1 DEF vars
<1>2. CASE \E b \in Castable : PostBallot(b)
  BY <1>2 DEF PostBallot
<1>3. CASE Damage
  BY <1>3 DEF Damage, DamageAccCheck, DamageFingerprint, DamageTally
<1>4. CASE Count
  <2>1. CASE MixVotes \/ VerifyVoteMix \/ GenControls \/ GenAccChecks
    BY <2>1 DEF MixVotes, VerifyVoteMix, GenControls, GenAccChecks
  <2>2. CASE FilterInvalid \/ VerifyAccChecks \/ MixCredentials \/ VerifyCredMix
    BY <2>2 DEF FilterInvalid, VerifyAccChecks, MixCredentials, VerifyCredMix
  <2>3. CASE GenFingerprints \/ DecryptFingerprints \/ FilterIllicit
    BY <2>3 DEF GenFingerprints, DecryptFingerprints, FilterIllicit
  <2>4. CASE VerifyVoteFingerprint \/ VotesFingerprintsVerified \/ KeepLast \/ SortChosen
    BY <2>4 DEF VerifyVoteFingerprint, VotesFingerprintsVerified, KeepLast, SortChosen
  <2>5. CASE HomomorphicSum \/ DecryptTally \/ VerifyDecryptedTally
    BY <2>5 DEF HomomorphicSum, DecryptTally, VerifyDecryptedTally
  <2> QED BY <1>4, <2>1, <2>2, <2>3, <2>4, <2>5 DEF Count
<1> QED BY <1>1, <1>2, <1>3, <1>4 DEF Next

\* The snapshot is read once, from a board on which receipts are positions.
LEMMA SnapshotStep == ReceiptInv /\ [Next]_vars => SnapshotInv'
<1> SUFFICES ASSUME ReceiptInv, [Next]_vars PROVE SnapshotInv'
  OBVIOUS
<1>1. CASE ListBallots
  BY <1>1 DEF ListBallots, ReceiptInv, Board!ReceiptIsPosition, SnapshotInv
<1>2. CASE UNCHANGED snapshot
  BY <1>2 DEF ReceiptInv, SnapshotInv
<1>3. VerifyBallot => UNCHANGED snapshot
  BY DEF VerifyBallot
<1> QED BY <1>1, <1>2, <1>3, LaterSteps

\* verify_ballots goes through the snapshot in order.
LEMMA OriginalsStep == ReceiptInv /\ [Next]_vars => OriginalsInv'
<1> SUFFICES ASSUME ReceiptInv, [Next]_vars PROVE OriginalsInv'
  OBVIOUS
<1>0. /\ OriginalsInv /\ SnapshotInv
      /\ snapshot \in Seq(Record(Castable)) /\ originals \in Seq(VoteRecord)
      /\ ballots \in Seq(Board!BallotRecord)
  BY DEF ReceiptInv, TypeOK, VotesTypeOK, Board!TypeOK
<1>1. CASE ListBallots
  <2>1. /\ originals = <<>> /\ originals' = <<>> /\ stage' = "verify_ballots" /\ i' = 0
        /\ Len(snapshot') \in Nat
    BY <1>0, <1>1 DEF ListBallots, OriginalsInv, Proceed
  <2> QED BY <2>1 DEF OriginalsInv
<1>2. CASE VerifyBallot
  <2> DEFINE r == snapshot[i + 1]
             e == [receipt |-> r.receipt, vote |-> r.ballot.ver_vote]
  <2>1. /\ i = Len(originals) /\ i + 1 <= Len(snapshot) /\ stage = "verify_ballots"
        /\ i + 1 \in DOMAIN snapshot /\ i \in Nat /\ Len(snapshot) \in Nat
    BY <1>0, <1>2 DEF VerifyBallot, OriginalsInv
  <2>2. UNCHANGED snapshot
    BY <1>2 DEF VerifyBallot
  <2>3. e = [receipt |-> i, vote |-> snapshot[i + 1].ballot.ver_vote]
    BY <1>0, <2>1 DEF SnapshotInv
  <2>4. \/ originals' = Append(originals, e) /\ i' = i + 1 /\ stage' = stage
        \/ originals' = originals /\ stage' = "failed"
    BY <1>2 DEF VerifyBallot, Iterate, Fail
  <2> HIDE DEF e
  <2>5. CASE originals' = Append(originals, e) /\ i' = i + 1 /\ stage' = stage
    <3>1. /\ Len(originals') = Len(originals) + 1
          /\ \A k \in DOMAIN originals' :
               \/ k \in DOMAIN originals /\ originals'[k] = originals[k]
               \/ k = Len(originals) + 1 /\ originals'[k] = e
      BY <1>0, <2>5
    <3>2. \A k \in DOMAIN originals' :
            originals'[k] = [receipt |-> k - 1, vote |-> snapshot[k].ballot.ver_vote]
      BY <1>0, <2>1, <2>3, <3>1 DEF OriginalsInv
    <3> QED BY <2>1, <2>2, <2>5, <3>1, <3>2 DEF OriginalsInv
  <2>6. CASE originals' = originals /\ stage' = "failed"
    BY <1>0, <2>2, <2>6 DEF OriginalsInv
  <2> QED BY <2>4, <2>5, <2>6
<1>3. CASE UNCHANGED <<snapshot, originals, stage, i>>
  BY <1>0, <1>3 DEF OriginalsInv
<1>4. CASE UNCHANGED <<snapshot, originals>> /\ stage' \notin BeforeMix
  BY <1>0, <1>4 DEF OriginalsInv, BeforeMix
<1> QED BY <1>1, <1>2, <1>3, <1>4, LaterSteps
-----------------------------------------------------------------------------
\* A permutation of 1..n reaches every position.
LEMMA PermOnto ==
  ASSUME NEW n \in Nat, NEW perm \in Perms(n), NEW m \in 1..n
  PROVE  \E k \in 1..n : perm[k] = m
<1>1. perm \in Injection(1..n, 1..n)
  BY DEF Perms, Injection, IsInjective
<1>2. IsFiniteSet(1..n)
  BY FS_Interval
<1>3. perm \in Surjection(1..n, 1..n)
  BY <1>1, <1>2, FS_Injection
<1> QED BY <1>3 DEF Surjection

\* After the mix a step leaves the mixed records alone, and never enters the
\* stages in which all of them are waited for.
LEMMA MixSteps ==
  [Next]_vars =>
    \/ ListBallots \/ VerifyBallot \/ MixVotes
    \/ UNCHANGED <<snapshot, mixed, stage>>
    \/ /\ UNCHANGED <<snapshot, mixed>> /\ stage' \notin BeforeMix
       /\ stage' \in MixedStages => stage \in MixedStages
<1> SUFFICES ASSUME [Next]_vars, ~ ListBallots, ~ VerifyBallot, ~ MixVotes
             PROVE  \/ UNCHANGED <<snapshot, mixed, stage>>
                    \/ /\ UNCHANGED <<snapshot, mixed>> /\ stage' \notin BeforeMix
                       /\ stage' \in MixedStages => stage \in MixedStages
  OBVIOUS
<1> USE DEF BeforeMix, MixedStages, votesPart, Proceed, Fail, Panic, Iterate
<1>1. CASE UNCHANGED vars
  BY <1>1 DEF vars
<1>2. CASE \E b \in Castable : PostBallot(b)
  BY <1>2 DEF PostBallot
<1>3. CASE Damage
  BY <1>3 DEF Damage, DamageAccCheck, DamageFingerprint, DamageTally
<1>4. CASE Count
  <2>1. CASE VerifyVoteMix \/ GenControls \/ GenAccChecks
    BY <2>1 DEF VerifyVoteMix, GenControls, GenAccChecks
  <2>2. CASE FilterInvalid \/ VerifyAccChecks \/ MixCredentials \/ VerifyCredMix
    BY <2>2 DEF FilterInvalid, VerifyAccChecks, MixCredentials, VerifyCredMix
  <2>3. CASE GenFingerprints \/ DecryptFingerprints \/ FilterIllicit
    BY <2>3 DEF GenFingerprints, DecryptFingerprints, FilterIllicit
  <2>4. CASE VerifyVoteFingerprint \/ VotesFingerprintsVerified \/ KeepLast \/ SortChosen
    BY <2>4 DEF VerifyVoteFingerprint, VotesFingerprintsVerified, KeepLast, SortChosen
  <2>5. CASE HomomorphicSum \/ DecryptTally \/ VerifyDecryptedTally
    BY <2>5 DEF HomomorphicSum, DecryptTally, VerifyDecryptedTally
  <2> QED BY <1>4, <2>1, <2>2, <2>3, <2>4, <2>5 DEF Count
<1> QED BY <1>1, <1>2, <1>3, <1>4 DEF Next

\* mix_votes permutes the receipts with the votes.
LEMMA MixedStep == ReceiptInv /\ [Next]_vars => MixedInv'
<1> SUFFICES ASSUME ReceiptInv, [Next]_vars PROVE MixedInv'
  OBVIOUS
<1>0. /\ MixedInv /\ OriginalsInv
      /\ snapshot \in Seq(Record(Castable)) /\ originals \in Seq(VoteRecord)
  BY DEF ReceiptInv, TypeOK, VotesTypeOK
<1> USE DEF Receipts
<1>1. CASE ListBallots
  <2>1. mixed' = <<>> /\ stage' = "verify_ballots"
    BY <1>0, <1>1 DEF ListBallots, MixedInv, BeforeMix, Proceed
  <2> QED BY <2>1 DEF MixedInv, Distinct, MixedStages
<1>2. CASE VerifyBallot
  <2>1. mixed' = <<>> /\ stage' \in {"verify_ballots", "failed"}
    BY <1>0, <1>2 DEF VerifyBallot, MixedInv, BeforeMix, Iterate, Fail
  <2> QED BY <2>1 DEF MixedInv, Distinct, MixedStages
<1>3. CASE MixVotes
  <2>1. PICK perm \in Perms(Len(originals)) :
          mixed' = [k \in DOMAIN originals |-> Remixed(perm, k)]
    BY <1>3 DEF MixVotes
  <2> DEFINE n == Len(originals)
  <2>2. /\ n \in Nat /\ DOMAIN originals = 1..n
        /\ DOMAIN snapshot = 1..n /\ Len(snapshot) = n
    BY <1>0, <1>3 DEF MixVotes, OriginalsInv
  <2>3. UNCHANGED snapshot /\ stage' = "verify_vote_mix"
    BY <1>3 DEF MixVotes, Proceed
  <2>4. ASSUME NEW k \in 1..n
        PROVE  /\ perm[k] \in 1..n
               /\ mixed'[k].receipt = perm[k] - 1
               /\ SamePlaintext(mixed'[k].vote, snapshot[perm[k]].ballot.ver_vote)
    <3>1. perm[k] \in 1..n
      BY DEF Perms
    <3>2. originals[perm[k]] =
            [receipt |-> perm[k] - 1, vote |-> snapshot[perm[k]].ballot.ver_vote]
      BY <1>0, <2>2, <3>1 DEF OriginalsInv
    <3>3. originals[perm[k]].vote \in Vote
      <4>1. originals[perm[k]] \in VoteRecord
        BY <1>0, <2>2, <3>1, SeqIndex
      <4> QED BY <4>1 DEF VoteRecord
    <3>4. SamePlaintext(ReEncrypt(originals[perm[k]].vote, k), originals[perm[k]].vote)
      BY <3>3 DEF SamePlaintext, ReEncrypt, Vote
    <3>5. mixed'[k] = Remixed(perm, k)
      BY <2>1, <2>2
    <3> QED BY <3>1, <3>2, <3>4, <3>5 DEF Remixed
  <2>5. DOMAIN mixed' = 1..n
    BY <2>1, <2>2
  <2>6. Distinct(mixed)'
    <3>1. \A j, k \in 1..n : perm[j] = perm[k] => j = k
      BY DEF Perms
    <3>2. \A j, k \in 1..n : perm[j] - 1 = perm[k] - 1 => perm[j] = perm[k]
      BY <2>4
    <3> QED BY <2>4, <2>5, <3>1, <3>2 DEF Distinct
  <2>7. ASSUME NEW k \in DOMAIN mixed'
        PROVE  /\ mixed'[k].receipt + 1 \in DOMAIN snapshot'
               /\ SamePlaintext(mixed[k].vote, Posted(mixed[k].receipt))'
    <3>1. mixed'[k].receipt + 1 = perm[k]
      BY <2>2, <2>4, <2>5
    <3> QED BY <2>2, <2>3, <2>4, <2>5, <3>1 DEF Posted
  <2>8. ASSUME NEW m \in 0..n - 1 PROVE m \in Receipts(mixed)'
    <3>1. m + 1 \in 1..n
      BY <2>2
    <3>2. PICK k \in 1..n : perm[k] = m + 1
      BY <2>2, <3>1, PermOnto
    <3>3. mixed'[k].receipt = m
      BY <2>4, <3>2
    <3> QED BY <2>5, <3>3
  <2>9. Len(snapshot') = n
    BY <2>2, <2>3
  <2> QED BY <2>3, <2>6, <2>7, <2>8, <2>9 DEF MixedInv, BeforeMix
<1>4. CASE UNCHANGED <<snapshot, mixed, stage>>
  BY <1>0, <1>4 DEF MixedInv, Distinct, Posted
<1>5. CASE /\ UNCHANGED <<snapshot, mixed>> /\ stage' \notin BeforeMix
           /\ stage' \in MixedStages => stage \in MixedStages
  BY <1>0, <1>5 DEF MixedInv, Distinct, Posted
<1> QED BY <1>1, <1>2, <1>3, <1>4, <1>5, MixSteps
-----------------------------------------------------------------------------
\* Apart from the actions named here no step touches the valid records, what
\* they are made of, or the counter of the loop that makes them.
LEMMA FilterSteps ==
  [Next]_vars =>
    \/ ListBallots \/ MixVotes \/ GenAccChecks \/ FilterInvalid \/ VerifyAccChecks
    \/ DamageAccCheck
    \/ UNCHANGED <<snapshot, mixed, valid, acc_checks, stage, i>>
    \/ /\ UNCHANGED <<snapshot, mixed, valid>> /\ stage' # "filter_invalid"
       /\ stage' \in BeforeFilter => stage \in BeforeFilter
       /\ stage' \in AuditedStages => stage \in AuditedStages
<1> SUFFICES ASSUME [Next]_vars, ~ ListBallots, ~ MixVotes, ~ GenAccChecks,
                    ~ FilterInvalid, ~ VerifyAccChecks, ~ DamageAccCheck
             PROVE  \/ UNCHANGED <<snapshot, mixed, valid, acc_checks, stage, i>>
                    \/ /\ UNCHANGED <<snapshot, mixed, valid>>
                       /\ stage' # "filter_invalid"
                       /\ stage' \in BeforeFilter => stage \in BeforeFilter
                       /\ stage' \in AuditedStages => stage \in AuditedStages
  OBVIOUS
<1> USE DEF BeforeFilter, BeforeMix, MixedStages, AuditedStages, votesPart, Proceed, Fail,
            Panic, Iterate
<1>1. CASE UNCHANGED vars
  BY <1>1 DEF vars
<1>2. CASE \E b \in Castable : PostBallot(b)
  BY <1>2 DEF PostBallot
<1>3. CASE Damage
  BY <1>3 DEF Damage, DamageFingerprint, DamageTally
<1>4. CASE Count
  <2>1. CASE VerifyBallot \/ VerifyVoteMix \/ GenControls
    BY <2>1 DEF VerifyBallot, VerifyVoteMix, GenControls
  <2>2. CASE MixCredentials \/ VerifyCredMix
    BY <2>2 DEF MixCredentials, VerifyCredMix
  <2>3. CASE GenFingerprints \/ DecryptFingerprints \/ FilterIllicit
    BY <2>3 DEF GenFingerprints, DecryptFingerprints, FilterIllicit
  <2>4. CASE VerifyVoteFingerprint \/ VotesFingerprintsVerified \/ KeepLast \/ SortChosen
    BY <2>4 DEF VerifyVoteFingerprint, VotesFingerprintsVerified, KeepLast, SortChosen
  <2>5. CASE HomomorphicSum \/ DecryptTally \/ VerifyDecryptedTally
    BY <2>5 DEF HomomorphicSum, DecryptTally, VerifyDecryptedTally
  <2> QED BY <1>4, <2>1, <2>2, <2>3, <2>4, <2>5 DEF Count
<1> QED BY <1>1, <1>2, <1>3, <1>4 DEF Next

\* A re-encrypted vote and the posted one are stripped to the same value.
LEMMA StripSame ==
  ASSUME NEW v, NEW w, SamePlaintext(v, w)
  PROVE  Strip(v) = Strip(w)
  BY DEF SamePlaintext, Strip

\* What one more iteration of filter_invalid does to the valid records.
LEMMA FilterIteration ==
  ASSUME ReceiptInv, FilterInvalid
  PROVE  \/ /\ acc_checks[i + 1].plaintext = Identity
            /\ valid' = Append(valid, Kept(i + 1)) /\ i' = i + 1 /\ stage' = stage
         \/ /\ acc_checks[i + 1].plaintext # Identity
            /\ UNCHANGED valid /\ i' = i + 1 /\ stage' = stage
         \/ UNCHANGED valid /\ stage' = "failed"
  BY DEF FilterInvalid, Iterate, Fail

\* filter_invalid takes the receipt of a vote from the record of that vote.
LEMMA ValidStep == ReceiptInv /\ [Next]_vars => ValidInv'
<1> SUFFICES ASSUME ReceiptInv, [Next]_vars PROVE ValidInv'
  OBVIOUS
<1>0. /\ ValidInv /\ MixedInv /\ i \in Nat
      /\ mixed \in Seq(VoteRecord) /\ valid \in Seq(ValidRecord)
  BY DEF ReceiptInv, TypeOK, VotesTypeOK, FlowTypeOK
<1>1. ASSUME valid = <<>>, UNCHANGED valid, stage' # "filter_invalid"
      PROVE  ValidInv'
  BY <1>1 DEF ValidInv, Distinct
<1>2. CASE ListBallots \/ MixVotes
  <2>1. valid = <<>> /\ UNCHANGED valid /\ stage' # "filter_invalid"
    BY <1>0, <1>2 DEF ListBallots, MixVotes, ValidInv, BeforeFilter, BeforeMix, MixedStages,
                      Proceed
  <2> QED BY <1>1, <2>1
<1>3. CASE GenAccChecks
  <2>1. /\ valid = <<>> /\ UNCHANGED <<valid, mixed>> /\ stage' \in {"filter_invalid", "failed"}
        /\ i' = 0
    BY <1>0, <1>3 DEF GenAccChecks, ValidInv, BeforeFilter, BeforeMix, MixedStages,
                      Proceed, Fail
  <2>2. CASE stage' = "failed"
    BY <1>1, <2>1, <2>2
  <2>3. CASE stage' = "filter_invalid"
    <3>1. Receipts(valid)' = {} /\ CalledValid(i)' = {} /\ Len(mixed') \in Nat
      BY <1>0, <2>1 DEF Receipts, CalledValid
    <3> QED BY <2>1, <2>3, <3>1
            DEF ValidInv, BeforeFilter, Distinct
  <2> QED BY <2>1, <2>2, <2>3
<1>4. CASE DamageAccCheck
  <2>1. /\ stage = "filter_invalid" /\ i = 0
        /\ UNCHANGED <<snapshot, mixed, valid, stage, i>>
    BY <1>4 DEF DamageAccCheck
  <2>2. CalledValid(i) = {} /\ CalledValid(i)' = {}
    BY <2>1 DEF CalledValid
  <2>3. Receipts(valid)' = {mixed[l].receipt : l \in CalledValid(i)}'
    <3>1. Receipts(valid) = {mixed[l].receipt : l \in CalledValid(i)}
      BY <1>0, <2>1 DEF ValidInv
    <3> QED BY <2>1, <2>2, <3>1 DEF Receipts
  <2> QED BY <1>0, <2>1, <2>3 DEF ValidInv, Distinct, Posted
<1>5. CASE FilterInvalid
  <2>1. /\ stage = "filter_invalid" /\ i < Len(mixed) /\ i + 1 \in DOMAIN mixed
        /\ UNCHANGED <<snapshot, mixed, acc_checks>> /\ Len(mixed) \in Nat
    BY <1>0, <1>5 DEF FilterInvalid
  <2>2. CASE UNCHANGED valid /\ stage' = "failed"
    BY <1>0, <2>1, <2>2 DEF ValidInv, Distinct, Posted, BeforeFilter, BeforeMix, MixedStages
  <2>3. CASE /\ acc_checks[i + 1].plaintext # Identity
             /\ UNCHANGED valid /\ i' = i + 1 /\ stage' = stage
    <3>1. CalledValid(i)' = CalledValid(i)
      BY <1>0, <2>1, <2>3 DEF CalledValid
    <3>2. Receipts(valid)' = {mixed[l].receipt : l \in CalledValid(i)}'
      <4>1. Receipts(valid) = {mixed[l].receipt : l \in CalledValid(i)}
        BY <1>0, <2>1 DEF ValidInv
      <4>2. Receipts(valid)' = Receipts(valid)
        BY <2>3 DEF Receipts
      <4> QED BY <2>1, <3>1, <4>1, <4>2
    <3> QED BY <1>0, <2>1, <2>3, <3>2 DEF ValidInv, Distinct, Posted, BeforeFilter
  <2>4. CASE /\ acc_checks[i + 1].plaintext = Identity
             /\ valid' = Append(valid, Kept(i + 1)) /\ i' = i + 1 /\ stage' = stage
    <3> DEFINE e == Kept(i + 1)
    <3>1. /\ e.receipt = mixed[i + 1].receipt
          /\ e.receipt + 1 \in DOMAIN snapshot
          /\ e.vote = Strip(Posted(e.receipt))
      BY <1>0, <2>1, StripSame DEF Kept, MixedInv
    <3>2. CalledValid(i)' = CalledValid(i) \cup {i + 1}
      BY <1>0, <2>1, <2>4 DEF CalledValid
    <3> HIDE DEF e
    <3>3. valid' = Append(valid, e)
      BY <2>4 DEF e
    <3>4. /\ DOMAIN valid' = DOMAIN valid \cup {Len(valid) + 1}
          /\ \A k \in DOMAIN valid : valid'[k] = valid[k] /\ k # Len(valid) + 1
          /\ valid'[Len(valid) + 1] = e
      BY <1>0, <3>3
    <3>5. Receipts(valid)' = Receipts(valid) \cup {mixed[i + 1].receipt}
      BY <3>1, <3>4 DEF Receipts
    <3>6. Receipts(valid) = {mixed[l].receipt : l \in CalledValid(i)}
      BY <1>0, <2>1 DEF ValidInv
    <3>7. Receipts(valid)' = {mixed[l].receipt : l \in CalledValid(i)}'
      BY <2>1, <3>2, <3>5, <3>6
    <3>8. \A k \in DOMAIN valid : valid[k].receipt # e.receipt
      <4>1. \A l \in CalledValid(i) : l \in DOMAIN mixed /\ l # i + 1
        BY <1>0, <2>1 DEF CalledValid
      <4>2. \A l \in CalledValid(i) : mixed[l].receipt # mixed[i + 1].receipt
        BY <1>0, <2>1, <4>1 DEF MixedInv, Distinct
      <4> QED BY <3>1, <3>6, <4>2 DEF Receipts
    <3>9. Distinct(valid)'
      BY <1>0, <3>4, <3>8 DEF ValidInv, Distinct
    <3>10. \A k \in DOMAIN valid' :
             /\ valid'[k].receipt + 1 \in DOMAIN snapshot
             /\ valid'[k].vote = Strip(Posted(valid'[k].receipt))
      BY <1>0, <3>1, <3>4 DEF ValidInv
    <3> QED BY <1>0, <2>1, <2>4, <3>7, <3>9, <3>10 DEF ValidInv, Posted, BeforeFilter
  <2> QED BY <1>5, <2>2, <2>3, <2>4, FilterIteration
<1>6. CASE VerifyAccChecks
  <2>1. UNCHANGED <<snapshot, mixed, valid>> /\ stage' \in {"mix_credentials", "failed"}
    BY <1>6 DEF VerifyAccChecks, votesPart, Proceed, Fail
  <2>2. stage' # "filter_invalid" /\ stage' \notin BeforeFilter
    BY <2>1 DEF BeforeFilter, BeforeMix, MixedStages
  <2> QED BY <1>0, <2>1, <2>2 DEF ValidInv, Distinct, Posted
<1>7. CASE UNCHANGED <<snapshot, mixed, valid, acc_checks, stage, i>>
  <2>1. /\ Receipts(valid)' = Receipts(valid)
        /\ {mixed[l].receipt : l \in CalledValid(i)}' = {mixed[l].receipt : l \in CalledValid(i)}
    BY <1>7 DEF Receipts, CalledValid
  <2> QED BY <1>0, <1>7, <2>1 DEF ValidInv, Distinct, Posted
<1>8. CASE /\ UNCHANGED <<snapshot, mixed, valid>> /\ stage' # "filter_invalid"
           /\ stage' \in BeforeFilter => stage \in BeforeFilter
  BY <1>0, <1>8 DEF ValidInv, Distinct, Posted
<1> QED BY <1>2, <1>3, <1>4, <1>5, <1>6, <1>7, <1>8, FilterSteps

\* An accepted decryption is the identity exactly for a right PIN.
LEMMA AcceptedCheck ==
  ASSUME NEW k, AccCheckVerifies(k)
  PROVE  acc_checks[k].plaintext = Identity <=> mixed[k].vote.pin = PinOf[mixed[k].vote.A]
<1>1. /\ acc_checks[k].plaintext = acc_checks[k].ciphertext.pt
      /\ acc_checks[k].ciphertext = CredentialCheck(mixed[k].vote)
  BY DEF AccCheckVerifies, DecOkVerifies
<1> QED BY <1>1 DEF CredentialCheck, Identity

\* verify_acc_checks accepts only if the filter kept the right-PIN ballots.
LEMMA RightPinStep == ReceiptInv /\ [Next]_vars => ValidAreRightPin'
<1> SUFFICES ASSUME ReceiptInv, [Next]_vars, stage' \in AuditedStages
             PROVE  Receipts(valid)' =
                      {n \in 0..Len(snapshot') - 1 :
                         Posted(n)'.pin = PinOf[Posted(n)'.A]}
  BY DEF ValidAreRightPin
<1>0. /\ ValidInv /\ MixedInv /\ ValidAreRightPin
      /\ mixed \in Seq(VoteRecord) /\ snapshot \in Seq(Record(Castable))
  BY DEF ReceiptInv, TypeOK, VotesTypeOK
<1>1. CASE VerifyAccChecks
  <2>1. /\ stage = "filter_invalid" /\ i = Len(mixed)
        /\ \A k \in DOMAIN mixed : AccCheckVerifies(k)
        /\ UNCHANGED <<snapshot, mixed, valid>>
    BY <1>1 DEF VerifyAccChecks, Fail, AuditedStages, votesPart
  <2>2. \A k \in DOMAIN mixed :
          acc_checks[k].plaintext = Identity <=>
            Posted(mixed[k].receipt).pin = PinOf[Posted(mixed[k].receipt).A]
    BY <1>0, <2>1, AcceptedCheck DEF MixedInv, SamePlaintext
  <2>3. Receipts(valid) =
          {mixed[k].receipt : k \in {l \in DOMAIN mixed : acc_checks[l].plaintext = Identity}}
    BY <1>0, <2>1 DEF ValidInv, CalledValid
  <2>4. ASSUME NEW n \in 0..Len(snapshot) - 1
        PROVE  \E k \in DOMAIN mixed : mixed[k].receipt = n
    BY <1>0, <2>1 DEF MixedInv, MixedStages, Receipts
  <2>5. ASSUME NEW k \in DOMAIN mixed PROVE mixed[k].receipt \in 0..Len(snapshot) - 1
    <3>1. mixed[k].receipt \in Nat
      <4>1. mixed[k] \in VoteRecord
        BY <1>0, SeqIndex
      <4> QED BY <4>1 DEF VoteRecord
    <3> QED BY <1>0, <3>1 DEF MixedInv
  <2>6. Receipts(valid) =
          {n \in 0..Len(snapshot) - 1 : Posted(n).pin = PinOf[Posted(n).A]}
    BY <2>2, <2>3, <2>4, <2>5
  <2>7. Receipts(valid)' = Receipts(valid) /\ UNCHANGED snapshot
    BY <2>1 DEF Receipts
  <2> QED BY <2>6, <2>7 DEF Posted
<1>2. CASE UNCHANGED <<snapshot, valid>> /\ stage \in AuditedStages
  BY <1>0, <1>2 DEF ValidAreRightPin, Receipts, Posted
<1>3. ~ (ListBallots \/ MixVotes \/ GenAccChecks \/ FilterInvalid \/ DamageAccCheck)
  BY DEF ListBallots, MixVotes, GenAccChecks, FilterInvalid, DamageAccCheck, AuditedStages,
         Proceed, Fail, Iterate
<1> QED BY <1>1, <1>2, <1>3, FilterSteps
-----------------------------------------------------------------------------
\* Every part of the invariant is preserved by every step.
THEOREM ReceiptInvariant == Spec => []ReceiptInv
<1>1. ReceiptInv /\ [Next]_vars => ReceiptInv'
  <2> SUFFICES ASSUME ReceiptInv, [Next]_vars PROVE ReceiptInv'
    OBVIOUS
  <2>1. TypeOK'
    BY TypeBoard, TypeFlow, TypeVotes, TypeCreds, TypeTally DEF ReceiptInv, TypeOK
  <2> QED BY <2>1, BoardStep, SnapshotStep, OriginalsStep, MixedStep, ValidStep,
             RightPinStep DEF ReceiptInv
<1> QED BY ReceiptInit, <1>1, PTL DEF Spec

\* Receipts stay with their votes from the board to the revoting rule.
THEOREM ReceiptsFollowVotes == Spec => []ReceiptFollowsVote
<1>1. ReceiptInv => ReceiptFollowsVote
  BY DEF ReceiptInv, MixedInv, ValidInv, Distinct, ReceiptFollowsVote
<1> QED BY ReceiptInvariant, <1>1, PTL

\* Whatever damage the decryptions take, a count that passes the audit of
\* the credential checks goes on with exactly the right-PIN ballots.
THEOREM FilterIsRight == Spec => []ValidAreRightPin
<1>1. ReceiptInv => ValidAreRightPin
  BY DEF ReceiptInv
<1> QED BY ReceiptInvariant, <1>1, PTL
==============================================================================
