---------------------------- MODULE RevotingProofs ----------------------------
(***************************************************************************)
(* The revoting rule: of the valid votes filter_illicit_keep_last sums, for *)
(* every registered credential, the last one cast, whatever permutations   *)
(* the two mixes drew, for every electorate and register and any number of *)
(* ballots.                                                                *)
(*                                                                         *)
(* The rule itself sees neither credentials nor the board: it compares     *)
(* decrypted fingerprints and the receipts of the mixed records. The       *)
(* inductive invariant below says what the fingerprints stand for once the *)
(* public checks have passed, and what the loop of the rule remembers      *)
(* after each of its iterations; the receipts are those of PipelineProofs. *)
(***************************************************************************)
EXTENDS PipelineProofs

\* The public checks of filter_illicit have accepted the fingerprints.
CheckedStages == {"verify_votes_fps", "keep_last"} \cup RevotedStages

\* The fingerprints exist.
FingerprintedStages == {"decrypt_fingerprints", "filter_illicit"} \cup CheckedStages

\* The revoting rule has not started.
BeforeKeepLast ==
  BeforeFilter \cup
  {"filter_invalid", "mix_credentials", "verify_cred_mix", "gen_fingerprints",
   "decrypt_fingerprints", "filter_illicit", "verify_votes_fps"}

\* The fingerprints are made from the mixed register, and the checks of
\* filter_illicit stay true after they have been made.
FingerprintInv ==
  /\ stage \in FingerprintedStages => CredMixVerifies
  /\ stage \in CheckedStages =>
       /\ FingerprintsAligned /\ FingerprintsVerify
       /\ \A k \in DOMAIN dec_pub : DecOkVerifies(dec_pub[k])

\* The first n decryptions of the votes' fingerprints exist and verify.
VerifiedUpTo(n) == \A k \in 1..n : k \in DOMAIN dec_votes /\ DecOkVerifies(dec_votes[k])

\* The verification loop covers as many decryptions as there are credentials.
VerifiedInv ==
  /\ stage = "verify_votes_fps" => VerifiedUpTo(i)
  /\ stage \in CheckedStages \ {"verify_votes_fps"} => VerifiedUpTo(Len(dec_pub))

\* What is remembered of the first n valid votes: for every authorized
\* fingerprint among them the vote with the largest receipt.
RememberedUpTo(n) ==
  /\ DOMAIN best = {dec_votes[k].plaintext : k \in 1..n} \cap Authorized
  /\ \A f \in DOMAIN best :
       /\ best[f].at \in 1..n
       /\ dec_votes[best[f].at].plaintext = f
       /\ best[f].seq = valid[best[f].at].receipt
       /\ \A k \in 1..n : dec_votes[k].plaintext = f => valid[k].receipt <= best[f].seq

Survivors == {best[f] : f \in DOMAIN best}

BestInv ==
  /\ stage \in BeforeKeepLast => best = <<>>
  /\ stage = "keep_last" => i <= Len(valid) /\ RememberedUpTo(i)
  /\ stage \in RevotedStages =>
       /\ RememberedUpTo(Len(valid))
       /\ chosen \in SortedBySeq(Survivors)

RevotingInv == ReceiptInv /\ FingerprintInv /\ VerifiedInv /\ BestInv
-----------------------------------------------------------------------------
\* The invariant holds initially.
LEMMA RevotingInit == Init => RevotingInv
<1> SUFFICES ASSUME Init PROVE RevotingInv
  OBVIOUS
<1>1. ReceiptInv
  BY ReceiptInit
<1>2. FingerprintInv /\ VerifiedInv /\ BestInv
  BY DEF Init, FingerprintInv, VerifiedInv, BestInv, FingerprintedStages, CheckedStages,
         RevotedStages
<1> QED BY <1>1, <1>2 DEF RevotingInv

\* The steps that are not named here leave the fingerprints, what is made of
\* them and the loop counter alone, or end a call outside the revoting rule.
LEMMA RevotingSteps ==
  [Next]_vars =>
    \/ MixCredentials \/ VerifyCredMix \/ GenFingerprints \/ DecryptFingerprints
    \/ FilterIllicit \/ VerifyVoteFingerprint \/ VotesFingerprintsVerified
    \/ KeepLast \/ SortChosen \/ DamageFingerprint
    \/ UNCHANGED <<valid, credsPart, best, chosen, stage, i>>
    \/ /\ UNCHANGED <<credsPart, best, chosen>>
       /\ stage' # "keep_last" /\ stage' # "verify_votes_fps"
       /\ stage' \in FingerprintedStages =>
            UNCHANGED valid /\ stage' \in RevotedStages /\ stage \in RevotedStages
       /\ stage' \in BeforeKeepLast => stage \in BeforeKeepLast
<1> SUFFICES ASSUME [Next]_vars,
                    ~ (\/ MixCredentials \/ VerifyCredMix \/ GenFingerprints
                       \/ DecryptFingerprints \/ FilterIllicit \/ VerifyVoteFingerprint
                       \/ VotesFingerprintsVerified \/ KeepLast \/ SortChosen
                       \/ DamageFingerprint)
             PROVE  \/ UNCHANGED <<valid, credsPart, best, chosen, stage, i>>
                    \/ /\ UNCHANGED <<credsPart, best, chosen>>
                       /\ stage' # "keep_last" /\ stage' # "verify_votes_fps"
                       /\ stage' \in FingerprintedStages =>
                            /\ UNCHANGED valid
                            /\ stage' \in RevotedStages /\ stage \in RevotedStages
                       /\ stage' \in BeforeKeepLast => stage \in BeforeKeepLast
  OBVIOUS
<1> USE DEF FingerprintedStages, CheckedStages, RevotedStages, BeforeKeepLast, BeforeFilter,
            BeforeMix, MixedStages, votesPart, tallyPart, Proceed, Fail, Panic, Iterate
<1>1. CASE UNCHANGED vars
  BY <1>1 DEF vars
<1>2. CASE \E b \in Castable : PostBallot(b)
  BY <1>2 DEF PostBallot
<1>3. CASE Damage
  BY <1>3 DEF Damage, DamageAccCheck, DamageTally
<1>4. CASE Count
  <2>1. CASE ListBallots \/ VerifyBallot \/ MixVotes \/ VerifyVoteMix
    BY <2>1 DEF ListBallots, VerifyBallot, MixVotes, VerifyVoteMix
  <2>2. CASE GenControls \/ GenAccChecks \/ FilterInvalid \/ VerifyAccChecks
    BY <2>2 DEF GenControls, GenAccChecks, FilterInvalid, VerifyAccChecks
  <2>3. CASE HomomorphicSum \/ DecryptTally \/ VerifyDecryptedTally
    BY <2>3 DEF HomomorphicSum, DecryptTally, VerifyDecryptedTally
  <2> QED BY <1>4, <2>1, <2>2, <2>3 DEF Count
<1> QED BY <1>1, <1>2, <1>3, <1>4 DEF Next

\* The public checks are made once and what they looked at does not change.
LEMMA FingerprintStep == RevotingInv /\ [Next]_vars => FingerprintInv'
<1> SUFFICES ASSUME RevotingInv, [Next]_vars PROVE FingerprintInv'
  OBVIOUS
<1>0. FingerprintInv
  BY DEF RevotingInv
<1> USE DEF FingerprintInv, FingerprintedStages, CheckedStages, RevotedStages
<1> DEFINE Checks == /\ FingerprintsAligned /\ FingerprintsVerify
                     /\ \A k \in DOMAIN dec_pub : DecOkVerifies(dec_pub[k])
<1>a. UNCHANGED cred_mix => (CredMixVerifies' <=> CredMixVerifies)
  BY DEF CredMixVerifies
<1>b. UNCHANGED <<valid, credsPart>> => (Checks' <=> Checks)
  BY DEF credsPart, FingerprintsAligned, FingerprintsVerify
<1>1. CASE MixCredentials \/ VerifyCredMix
  BY <1>1 DEF MixCredentials, VerifyCredMix, Proceed, Fail
<1>2. CASE GenFingerprints
  BY <1>2, <1>a DEF GenFingerprints, Proceed, Fail
<1>3. CASE DecryptFingerprints
  BY <1>0, <1>3, <1>a DEF DecryptFingerprints, Proceed, Fail
<1>4. CASE FilterIllicit
  <2>1. UNCHANGED <<valid, credsPart>> /\ UNCHANGED cred_mix /\ stage = "filter_illicit"
    BY <1>4 DEF FilterIllicit, votesPart, credsPart
  <2>2. stage' \in {"verify_votes_fps", "failed", "panicked"}
    BY <1>4 DEF FilterIllicit, Proceed, Fail, Panic
  <2>3. stage' = "verify_votes_fps" => Checks
    BY <1>4 DEF FilterIllicit, Fail, Panic
  <2> QED BY <1>0, <1>a, <1>b, <2>1, <2>2, <2>3
<1>5. CASE VerifyVoteFingerprint \/ VotesFingerprintsVerified \/ KeepLast \/ SortChosen
  <2>1. /\ UNCHANGED <<valid, credsPart>> /\ UNCHANGED cred_mix
        /\ stage \in {"verify_votes_fps", "keep_last"}
    BY <1>5 DEF VerifyVoteFingerprint, VotesFingerprintsVerified, KeepLast, SortChosen,
                votesPart, credsPart
  <2> QED BY <1>0, <1>a, <1>b, <2>1
<1>6. CASE DamageFingerprint
  BY <1>0, <1>6, <1>a DEF DamageFingerprint
<1>7. CASE UNCHANGED <<valid, credsPart, best, chosen, stage, i>>
  BY <1>0, <1>7, <1>a, <1>b DEF credsPart
<1>8. CASE /\ UNCHANGED <<credsPart, best, chosen>>
           /\ stage' \in FingerprintedStages => UNCHANGED valid /\ stage \in RevotedStages
  BY <1>0, <1>8, <1>a, <1>b DEF credsPart
<1> QED BY <1>1, <1>2, <1>3, <1>4, <1>5, <1>6, <1>7, <1>8, RevotingSteps

\* The verification loop goes through the decryptions in order.
LEMMA VerifiedStep == RevotingInv /\ [Next]_vars => VerifiedInv'
<1> SUFFICES ASSUME RevotingInv, [Next]_vars PROVE VerifiedInv'
  OBVIOUS
<1>0. VerifiedInv /\ i \in Nat /\ dec_votes \in Seq(FpDecryption)
  BY DEF RevotingInv, ReceiptInv, TypeOK, FlowTypeOK, CredsTypeOK
<1> USE DEF VerifiedInv, CheckedStages, RevotedStages
<1>1. CASE MixCredentials \/ VerifyCredMix \/ GenFingerprints \/ DecryptFingerprints
  BY <1>1 DEF MixCredentials, VerifyCredMix, GenFingerprints, DecryptFingerprints, Proceed, Fail
<1>2. CASE FilterIllicit
  <2>1. stage' \in {"failed", "panicked"} \/ (stage' = "verify_votes_fps" /\ i' = 0)
    BY <1>2 DEF FilterIllicit, Proceed, Fail, Panic
  <2> QED BY <2>1 DEF VerifiedUpTo
<1>3. CASE VerifyVoteFingerprint
  <2>1. /\ UNCHANGED dec_votes /\ stage = "verify_votes_fps"
        /\ \/ stage' \in {"failed", "panicked"}
           \/ /\ i < Len(dec_votes) /\ DecOkVerifies(dec_votes[i + 1])
              /\ stage' = "verify_votes_fps" /\ i' = i + 1
    BY <1>0, <1>3 DEF VerifyVoteFingerprint, Iterate, Fail, Panic, credsPart
  <2>2. i < Len(dec_votes) => i + 1 \in DOMAIN dec_votes
    BY <1>0
  <2>3. ASSUME NEW k \in 1..(i + 1) PROVE k \in 1..i \/ k = i + 1
    BY <1>0
  <2> QED BY <1>0, <2>1, <2>2, <2>3 DEF VerifiedUpTo
<1>4. CASE VotesFingerprintsVerified
  BY <1>0, <1>4 DEF VotesFingerprintsVerified, Proceed, VerifiedUpTo, credsPart
<1>5. CASE KeepLast \/ SortChosen
  <2>1. UNCHANGED <<dec_pub, dec_votes>> /\ stage = "keep_last" /\ stage' # "verify_votes_fps"
    BY <1>5 DEF KeepLast, SortChosen, Proceed, Iterate, credsPart
  <2> QED BY <1>0, <2>1 DEF VerifiedUpTo
<1>6. CASE UNCHANGED <<valid, credsPart, best, chosen, stage, i>>
  BY <1>0, <1>6 DEF VerifiedUpTo, credsPart
<1>7. CASE /\ UNCHANGED <<credsPart, best, chosen>> /\ stage' # "verify_votes_fps"
           /\ stage' \in FingerprintedStages => UNCHANGED valid /\ stage \in RevotedStages
  BY <1>0, <1>7 DEF VerifiedUpTo, credsPart, FingerprintedStages
<1>8. CASE DamageFingerprint
  <2>1. stage' = "filter_illicit"
    BY <1>8 DEF DamageFingerprint
  <2> QED BY <2>1
<1> QED BY <1>1, <1>2, <1>3, <1>4, <1>5, <1>6, <1>7, <1>8, RevotingSteps
-----------------------------------------------------------------------------
\* After the loop over the valid votes has met one more vote, it remembers the
\* last one of each authorized fingerprint among those met so far.
LEMMA RememberStep ==
  ASSUME RevotingInv, KeepLast
  PROVE  i' <= Len(valid) /\ RememberedUpTo(i)'
<1> DEFINE fp  == dec_votes[i + 1].plaintext
           seq == valid[i + 1].receipt
           n   == i + 1
<1>0. /\ stage = "keep_last" /\ i < Len(valid) /\ i' = i + 1
      /\ UNCHANGED <<valid, dec_votes, dec_pub>>
  BY DEF KeepLast, Iterate, votesPart, credsPart
<1>1. /\ i \in Nat /\ valid \in Seq(ValidRecord) /\ Len(valid) \in Nat
      /\ best \in [DOMAIN best -> Chosen]
  BY DEF RevotingInv, ReceiptInv, TypeOK, FlowTypeOK, VotesTypeOK, TallyTypeOK
<1>2. RememberedUpTo(i)
  BY <1>0 DEF RevotingInv, BestInv
<1>3. n \in Nat /\ 1..n = (1..i) \cup {n} /\ n \notin 1..i
  BY <1>1
<1>4. \A k \in 1..n : valid[k].receipt \in Nat
  <2>1. \A k \in 1..n : valid[k] \in ValidRecord
    BY <1>0, <1>1, SeqIndex
  <2> QED BY <2>1 DEF ValidRecord
<1>5. Authorized' = Authorized
  BY <1>0 DEF Authorized
<1>6. CASE fp \in Authorized /\ Supersedes(fp, seq)
  <2>1. best' = [f \in DOMAIN best \cup {fp} |->
                   IF f = fp THEN [seq |-> seq, at |-> n] ELSE best[f]]
    BY <1>6 DEF KeepLast
  <2>2. DOMAIN best' = {dec_votes[k].plaintext : k \in 1..n} \cap Authorized
    BY <1>2, <1>3, <1>6, <2>1 DEF RememberedUpTo
  <2>3. ASSUME NEW f \in DOMAIN best', f # fp
        PROVE  /\ f \in DOMAIN best /\ best'[f] = best[f]
               /\ \A k \in 1..n : dec_votes[k].plaintext = f => k \in 1..i
    BY <1>3, <2>1, <2>3
  <2>4. \A k \in 1..n : dec_votes[k].plaintext = fp => valid[k].receipt <= seq
    <3>1. CASE fp \in DOMAIN best
      <4>1. best[fp].seq < seq /\ best[fp].seq \in Nat /\ seq \in Nat
        BY <1>1, <1>3, <1>4, <1>6, <3>1 DEF Supersedes, Chosen
      <4>2. \A k \in 1..i : dec_votes[k].plaintext = fp => valid[k].receipt <= best[fp].seq
        BY <1>2, <3>1 DEF RememberedUpTo
      <4>3. \A k \in 1..n : dec_votes[k].plaintext = fp => k \in 1..i \/ k = n
        BY <1>3
      <4> HIDE DEF fp
      <4> QED BY <1>3, <1>4, <4>1, <4>2, <4>3
    <3>2. CASE fp \notin DOMAIN best
      <4>1. \A k \in 1..i : dec_votes[k].plaintext # fp
        BY <1>2, <1>6, <3>2 DEF RememberedUpTo
      <4> HIDE DEF fp
      <4> QED BY <1>3, <1>4, <4>1
    <3> QED BY <3>1, <3>2
  <2>5. ASSUME NEW f \in DOMAIN best'
        PROVE  /\ best'[f].at \in 1..n
               /\ dec_votes[best'[f].at].plaintext = f
               /\ best'[f].seq = valid[best'[f].at].receipt
               /\ \A k \in 1..n :
                    dec_votes[k].plaintext = f => valid[k].receipt <= best'[f].seq
    <3>1. CASE f = fp
      BY <1>3, <2>1, <2>4, <3>1
    <3>2. CASE f # fp
      BY <1>2, <1>3, <2>3, <3>2 DEF RememberedUpTo
    <3> QED BY <3>1, <3>2
  <2> HIDE DEF fp, seq
  <2> QED BY <1>0, <1>1, <1>5, <2>2, <2>5 DEF RememberedUpTo
<1>7. CASE ~ (fp \in Authorized /\ Supersedes(fp, seq))
  <2>1. best' = best
    BY <1>7 DEF KeepLast
  <2>2. fp \in Authorized => fp \in DOMAIN best /\ seq <= best[fp].seq
    <3>1. fp \in DOMAIN best => best[fp].seq \in Nat
      BY <1>1 DEF Chosen
    <3> QED BY <1>3, <1>4, <1>7, <3>1 DEF Supersedes
  <2>3. DOMAIN best = {dec_votes[k].plaintext : k \in 1..n} \cap Authorized
    BY <1>2, <1>3, <2>2 DEF RememberedUpTo
  <2>4. ASSUME NEW f \in DOMAIN best, NEW k \in 1..n, dec_votes[k].plaintext = f
        PROVE  valid[k].receipt <= best[f].seq
    <3>1. CASE k \in 1..i
      BY <1>2, <2>4, <3>1 DEF RememberedUpTo
    <3>2. CASE k = n
      BY <2>2, <2>3, <2>4, <3>2
    <3> QED BY <1>3, <3>1, <3>2
  <2>5. \A f \in DOMAIN best :
          /\ best[f].at \in 1..n /\ dec_votes[best[f].at].plaintext = f
          /\ best[f].seq = valid[best[f].at].receipt
    BY <1>2, <1>3 DEF RememberedUpTo
  <2> HIDE DEF fp, seq
  <2> QED BY <1>0, <1>1, <1>5, <2>1, <2>3, <2>4, <2>5 DEF RememberedUpTo
<1> QED BY <1>0, <1>1, <1>6, <1>7

\* The loop of the revoting rule, and the sorting that follows it.
LEMMA BestStep == RevotingInv /\ [Next]_vars => BestInv'
<1> SUFFICES ASSUME RevotingInv, [Next]_vars PROVE BestInv'
  OBVIOUS
<1>0. BestInv
  BY DEF RevotingInv
<1>a. Len(valid) \in Nat /\ i \in Nat
  BY DEF RevotingInv, ReceiptInv, TypeOK, FlowTypeOK, VotesTypeOK
<1> USE DEF BestInv, BeforeKeepLast, BeforeFilter, BeforeMix, MixedStages, RevotedStages
<1>b. ASSUME NEW n, RememberedUpTo(n), UNCHANGED <<valid, dec_votes, dec_pub, best>>
      PROVE  RememberedUpTo(n)'
  BY <1>b DEF RememberedUpTo, Authorized
<1>1. CASE \/ MixCredentials \/ VerifyCredMix \/ GenFingerprints \/ DecryptFingerprints
           \/ FilterIllicit \/ VerifyVoteFingerprint
  <2>1. /\ UNCHANGED best /\ stage \in BeforeKeepLast
        /\ stage' # "keep_last" /\ stage' \notin RevotedStages
    BY <1>1 DEF MixCredentials, VerifyCredMix, GenFingerprints, DecryptFingerprints,
                FilterIllicit, VerifyVoteFingerprint, tallyPart, Proceed, Iterate, Fail, Panic
  <2> QED BY <1>0, <2>1
<1>2. CASE DamageFingerprint
  <2>1. UNCHANGED best /\ stage = "filter_illicit" /\ stage' = stage
    BY <1>2 DEF DamageFingerprint, tallyPart
  <2> QED BY <1>0, <2>1
<1>3. CASE VotesFingerprintsVerified
  <2>1. /\ stage' = "keep_last" /\ i' = 0 /\ best = <<>> /\ best' = <<>> /\ UNCHANGED valid
    BY <1>0, <1>3 DEF VotesFingerprintsVerified, Proceed, tallyPart, votesPart
  <2>2. RememberedUpTo(0)'
    BY <2>1 DEF RememberedUpTo
  <2> QED BY <1>a, <2>1, <2>2
<1>4. CASE KeepLast
  <2>1. stage' = "keep_last" /\ i' = i + 1 /\ UNCHANGED valid
    BY <1>4 DEF KeepLast, Iterate, votesPart
  <2>2. i' <= Len(valid) /\ RememberedUpTo(i)'
    BY <1>4, RememberStep
  <2> QED BY <2>1, <2>2
<1>5. CASE SortChosen
  <2>1. /\ stage = "keep_last" /\ i = Len(valid) /\ stage' = "homomorphic_sum"
        /\ chosen' \in SortedBySeq(Survivors)
        /\ UNCHANGED <<valid, dec_votes, dec_pub, best>>
    BY <1>5 DEF SortChosen, Survivors, Proceed, votesPart, credsPart
  <2>2. RememberedUpTo(Len(valid))'
    BY <1>0, <1>b, <2>1
  <2>3. SortedBySeq(Survivors)' = SortedBySeq(Survivors)
    BY <2>1 DEF SortedBySeq, Survivors
  <2> QED BY <2>1, <2>2, <2>3
<1>6. CASE UNCHANGED <<valid, credsPart, best, chosen, stage, i>>
  BY <1>0, <1>6 DEF credsPart, RememberedUpTo, Authorized, SortedBySeq, Survivors
<1>7. CASE /\ UNCHANGED <<credsPart, best, chosen>> /\ stage' # "keep_last"
           /\ stage' \in FingerprintedStages =>
                UNCHANGED valid /\ stage' \in RevotedStages /\ stage \in RevotedStages
           /\ stage' \in BeforeKeepLast => stage \in BeforeKeepLast
  <2>1. CASE stage' \in BeforeKeepLast
    BY <1>0, <1>7, <2>1
  <2>2. CASE stage' \in RevotedStages
    <3>1. UNCHANGED <<valid, dec_votes, dec_pub, best, chosen>> /\ stage \in RevotedStages
      BY <1>7, <2>2 DEF credsPart, FingerprintedStages, CheckedStages
    <3>2. RememberedUpTo(Len(valid))'
      BY <1>0, <1>b, <3>1
    <3>3. SortedBySeq(Survivors)' = SortedBySeq(Survivors)
      BY <3>1 DEF SortedBySeq, Survivors
    <3> QED BY <1>0, <1>7, <2>2, <3>1, <3>2, <3>3
  <2> QED BY <1>7, <2>1, <2>2
<1> QED BY <1>1, <1>2, <1>3, <1>4, <1>5, <1>6, <1>7, RevotingSteps

\* Every part of the invariant is preserved by every step.
THEOREM RevotingInvariant == Spec => []RevotingInv
<1>1. RevotingInv /\ [Next]_vars => FingerprintInv' /\ VerifiedInv' /\ BestInv'
  BY FingerprintStep, VerifiedStep, BestStep
<1>2. RevotingInv <=> ReceiptInv /\ FingerprintInv /\ VerifiedInv /\ BestInv
  BY DEF RevotingInv
<1> QED BY RevotingInit, <1>1, <1>2, ReceiptInvariant, PTL DEF Spec
-----------------------------------------------------------------------------
(* The surviving records are the last ballots.                             *)

\* The register goes through the credential mix whole.
LEMMA MixedRegister ==
  ASSUME CredMixVerifies
  PROVE  /\ cred_mix \in Seq(Credential) /\ Len(cred_mix) = Len(PubCreds)
         /\ {cred_mix[k] : k \in DOMAIN cred_mix} = Registered
<1> DEFINE n == Len(PubCreds)
<1>1. PICK perm \in Perms(n) : cred_mix = [k \in DOMAIN PubCreds |-> PubCreds[perm[k]]]
  BY DEF CredMixVerifies
<1>2. n \in Nat /\ DOMAIN PubCreds = 1..n /\ \A k \in 1..n : PubCreds[k] \in Credential
  BY PubCredsAssumption, SeqIndex
<1>3. \A k \in 1..n : perm[k] \in 1..n
  BY DEF Perms
<1>4. cred_mix \in [1..n -> Credential]
  BY <1>1, <1>2, <1>3
<1>5. cred_mix \in Seq(Credential) /\ Len(cred_mix) = n /\ DOMAIN cred_mix = 1..n
  BY <1>2, <1>4, FunctionIsSeq
<1>6. \A m \in 1..n : \E k \in 1..n : perm[k] = m
  BY <1>2, PermOnto
<1>7. {cred_mix[k] : k \in 1..n} = {PubCreds[k] : k \in 1..n}
  BY <1>1, <1>2, <1>3, <1>6
<1> QED BY <1>2, <1>5, <1>7 DEF Registered

\* After the public checks every fingerprint stands for its credential: the
\* authorized ones for the register, those of the votes for the credentials
\* of the ballots.
LEMMA FingerprintsStandFor ==
  ASSUME RevotingInv, stage \in RevotedStages, SuffixVerifies
  PROVE  \E z \in Exponent :
           /\ Authorized = {Blind(z, c) : c \in Registered}
           /\ DOMAIN dec_votes = DOMAIN valid
           /\ \A k \in DOMAIN valid : dec_votes[k].plaintext = Blind(z, valid[k].vote.A_enc)
<1>1. /\ CredMixVerifies /\ FingerprintsAligned /\ FingerprintsVerify
      /\ \A k \in DOMAIN dec_pub : DecOkVerifies(dec_pub[k])
      /\ VerifiedUpTo(Len(dec_pub))
  BY DEF RevotingInv, FingerprintInv, VerifiedInv, FingerprintedStages, CheckedStages,
         RevotedStages
<1>2. /\ fps.z \subseteq Exponent /\ dec_pub \in Seq(FpDecryption)
      /\ dec_votes \in Seq(FpDecryption) /\ valid \in Seq(ValidRecord)
  BY DEF RevotingInv, ReceiptInv, TypeOK, CredsTypeOK, VotesTypeOK
<1>3. PICK z \in fps.z :
        /\ fps.pub = [k \in DOMAIN cred_mix |-> Fingerprint(z, cred_mix[k], k)]
        /\ fps.votes = [k \in DOMAIN valid |-> Fingerprint(z, valid[k].vote.A_enc, k)]
  BY <1>1 DEF FingerprintsVerify
<1>4. /\ cred_mix \in Seq(Credential) /\ Len(cred_mix) = Len(PubCreds)
      /\ {cred_mix[k] : k \in DOMAIN cred_mix} = Registered
  BY <1>1, MixedRegister
<1>5. DOMAIN dec_pub = DOMAIN cred_mix /\ DOMAIN dec_votes = DOMAIN valid
  BY <1>1, <1>2, <1>4 DEF FingerprintsAligned
<1>6. ASSUME NEW k \in DOMAIN dec_pub PROVE dec_pub[k].plaintext = Blind(z, cred_mix[k])
  BY <1>1, <1>3, <1>5 DEF FingerprintsAligned, Fingerprint, DecOkVerifies
<1>7. Authorized = {Blind(z, c) : c \in Registered}
  BY <1>4, <1>5, <1>6 DEF Authorized
<1>8. ASSUME NEW k \in DOMAIN dec_votes PROVE DecOkVerifies(dec_votes[k])
  <2>1. Len(dec_pub) = Len(PubCreds) /\ Len(PubCreds) \in Nat /\ k \in Nat /\ k >= 1
    BY <1>1, <1>2, <1>4, PubCredsAssumption DEF FingerprintsAligned
  <2>2. CASE k > Len(PubCreds)
    BY <2>2 DEF SuffixVerifies
  <2>3. CASE k <= Len(PubCreds)
    BY <1>1, <2>1, <2>3 DEF VerifiedUpTo
  <2> QED BY <2>1, <2>2, <2>3
<1>9. ASSUME NEW k \in DOMAIN valid
      PROVE  dec_votes[k].plaintext = Blind(z, valid[k].vote.A_enc)
  BY <1>1, <1>3, <1>5, <1>8 DEF FingerprintsAligned, Fingerprint, DecOkVerifies
<1> QED BY <1>2, <1>5, <1>7, <1>9

\* A valid vote is a right-PIN ballot of the snapshot, and every right-PIN
\* ballot is the ballot of a valid vote.
LEMMA ValidBallots ==
  ASSUME RevotingInv, stage \in RevotedStages
  PROVE  LET s == BallotsOf(snapshot) IN
           /\ DOMAIN s = DOMAIN snapshot /\ DOMAIN s \subseteq Nat
           /\ \A k \in DOMAIN valid :
                /\ valid[k].receipt \in Nat /\ valid[k].receipt + 1 \in DOMAIN s
                /\ Promise!RightPin(s[valid[k].receipt + 1])
                /\ valid[k].vote = Strip(s[valid[k].receipt + 1].ver_vote)
                /\ valid[k].vote.A_enc = s[valid[k].receipt + 1].ver_vote.A
                /\ valid[k].vote.A_enc \in Credential
           /\ \A m \in DOMAIN s :
                Promise!RightPin(s[m]) => \E k \in DOMAIN valid : valid[k].receipt + 1 = m
<1> DEFINE s == BallotsOf(snapshot)
<1>1. /\ snapshot \in Seq(Record(Castable)) /\ valid \in Seq(ValidRecord)
      /\ ValidInv /\ ValidAreRightPin
  BY DEF RevotingInv, ReceiptInv, TypeOK, VotesTypeOK
<1>2. /\ DOMAIN s = DOMAIN snapshot /\ DOMAIN s = 1..Len(snapshot) /\ Len(snapshot) \in Nat
      /\ \A k \in DOMAIN s : s[k] = snapshot[k].ballot
  BY <1>1, SeqIndex DEF BallotsOf
<1>3. Receipts(valid) = {n \in 0..Len(snapshot) - 1 : Posted(n).pin = PinOf[Posted(n).A]}
  BY <1>1 DEF ValidAreRightPin, RevotedStages, AuditedStages
<1>4. ASSUME NEW k \in DOMAIN valid
      PROVE  /\ valid[k].receipt \in Nat /\ valid[k].receipt + 1 \in DOMAIN s
             /\ Promise!RightPin(s[valid[k].receipt + 1])
             /\ valid[k].vote = Strip(s[valid[k].receipt + 1].ver_vote)
             /\ valid[k].vote.A_enc = s[valid[k].receipt + 1].ver_vote.A
             /\ valid[k].vote.A_enc \in Credential
  <2>1. valid[k] \in ValidRecord
    BY <1>1, SeqIndex
  <2>2. /\ valid[k].receipt + 1 \in DOMAIN s
        /\ valid[k].vote = Strip(s[valid[k].receipt + 1].ver_vote)
    BY <1>1, <1>2 DEF ValidInv, Posted
  <2>3. Promise!RightPin(s[valid[k].receipt + 1])
    <3>1. valid[k].receipt \in Receipts(valid)
      BY DEF Receipts
    <3> QED BY <1>2, <1>3, <2>2, <3>1 DEF Promise!RightPin, Posted
  <2> QED BY <2>1, <2>2, <2>3 DEF ValidRecord, VoteWithEncPubCred, Strip
<1>5. ASSUME NEW m \in DOMAIN s, Promise!RightPin(s[m])
      PROVE  \E k \in DOMAIN valid : valid[k].receipt + 1 = m
  <2>1. m - 1 \in 0..Len(snapshot) - 1 /\ (m - 1) + 1 = m
    BY <1>2
  <2>2. m - 1 \in Receipts(valid)
    BY <1>2, <1>3, <1>5, <2>1 DEF Promise!RightPin, Posted
  <2>3. PICK k \in DOMAIN valid : valid[k].receipt = m - 1
    BY <2>2 DEF Receipts
  <2> QED BY <2>1, <2>3
<1> HIDE DEF s
<1>6. DOMAIN s \subseteq Nat
  BY <1>2
<1> QED BY <1>2, <1>4, <1>5, <1>6 DEF s

\* The remembered records are the last right-PIN ballots of the register.
LEMMA SurvivorsAreCounted ==
  ASSUME RevotingInv, stage \in RevotedStages, SuffixVerifies
  PROVE  {r.seq + 1 : r \in Survivors} = Promise!Counted(BallotsOf(snapshot))
<1> DEFINE s == BallotsOf(snapshot)
           A(k) == valid[k].vote.A_enc
           n(k) == valid[k].receipt + 1
<1>1. PICK z \in Exponent :
        /\ Authorized = {Blind(z, c) : c \in Registered}
        /\ \A k \in DOMAIN valid : dec_votes[k].plaintext = Blind(z, A(k))
  BY FingerprintsStandFor
<1>2. /\ DOMAIN s \subseteq Nat
      /\ \A k \in DOMAIN valid :
           /\ valid[k].receipt \in Nat /\ n(k) \in DOMAIN s /\ Promise!RightPin(s[n(k)])
           /\ A(k) = s[n(k)].ver_vote.A /\ A(k) \in Credential
      /\ \A m \in DOMAIN s :
           Promise!RightPin(s[m]) => \E k \in DOMAIN valid : n(k) = m
  BY ValidBallots
<1>3. Registered \subseteq Credential
  BY PubCredsAssumption, SeqIndex DEF Registered
<1>4. \A a, b \in Credential : Blind(z, a) = Blind(z, b) => a = b
  BY BlindAssumption
<1>5. DOMAIN valid = 1..Len(valid)
  BY SeqIndex DEF RevotingInv, ReceiptInv, TypeOK, VotesTypeOK
<1>6. /\ DOMAIN best = {Blind(z, A(k)) : k \in DOMAIN valid} \cap {Blind(z, c) : c \in Registered}
      /\ \A f \in DOMAIN best :
           /\ best[f].at \in DOMAIN valid
           /\ Blind(z, A(best[f].at)) = f
           /\ best[f].seq = valid[best[f].at].receipt
           /\ \A k \in DOMAIN valid :
                Blind(z, A(k)) = f => valid[k].receipt <= best[f].seq
  <2>1. RememberedUpTo(Len(valid))
    BY DEF RevotingInv, BestInv
  <2> HIDE DEF A
  <2> QED BY <1>1, <1>5, <2>1 DEF RememberedUpTo
<1> HIDE DEF s, A
<1>7. ASSUME NEW f \in DOMAIN best PROVE best[f].seq + 1 \in Promise!Counted(s)
  <2> DEFINE a == best[f].at
             m == best[f].seq + 1
  <2>1. a \in DOMAIN valid /\ Blind(z, A(a)) = f /\ m = n(a) /\ best[f].seq \in Nat
    BY <1>2, <1>6
  <2>2. A(a) \in Registered
    BY <1>2, <1>3, <1>4, <1>6, <2>1
  <2>3. /\ m \in DOMAIN s /\ m \in Nat /\ Promise!RightPin(s[m])
        /\ s[m].ver_vote.A = A(a)
    BY <1>2, <2>1
  <2>4. ASSUME NEW l \in DOMAIN s, l > m, Promise!RightPin(s[l]), s[l].ver_vote.A = A(a)
        PROVE  FALSE
    <3>1. PICK k \in DOMAIN valid : n(k) = l
      BY <1>2, <2>4
    <3>2. A(k) = A(a) /\ valid[k].receipt \in Nat
      BY <1>2, <2>4, <3>1
    <3>3. valid[k].receipt <= best[f].seq
      BY <1>6, <2>1, <3>2
    <3> QED BY <2>1, <2>4, <3>1, <3>2, <3>3
  <2> HIDE DEF a, m
  <2>5. m \in Promise!Counted(s)
    BY <2>2, <2>3, <2>4 DEF Promise!Counted
  <2> QED BY <2>5 DEF m
<1>8. ASSUME NEW m \in Promise!Counted(s)
      PROVE  \E f \in DOMAIN best : best[f].seq + 1 = m
  <2>1. /\ m \in DOMAIN s /\ m \in Nat /\ Promise!RightPin(s[m])
        /\ s[m].ver_vote.A \in Registered
        /\ \A l \in DOMAIN s :
             l > m /\ Promise!RightPin(s[l]) => s[l].ver_vote.A # s[m].ver_vote.A
    BY <1>2 DEF Promise!Counted
  <2>2. PICK j \in DOMAIN valid : n(j) = m
    BY <1>2, <2>1
  <2>3. A(j) = s[m].ver_vote.A
    BY <1>2, <2>2
  <2> DEFINE f == Blind(z, A(j))
  <2>4. f \in DOMAIN best
    BY <1>6, <2>1, <2>3
  <2>5. PICK a \in DOMAIN valid : a = best[f].at /\ Blind(z, A(a)) = f /\ best[f].seq + 1 = n(a)
    BY <1>6, <2>4
  <2>6. A(a) = A(j)
    BY <1>2, <1>4, <2>5
  <2>7. valid[j].receipt <= best[f].seq
    BY <1>6, <2>4
  <2>8. ~ n(a) > m
    <3>1. n(a) \in DOMAIN s /\ Promise!RightPin(s[n(a)]) /\ s[n(a)].ver_vote.A = A(a)
      BY <1>2
    <3> QED BY <2>1, <2>3, <2>6, <3>1
  <2>9. valid[j].receipt \in Nat /\ valid[a].receipt \in Nat
    BY <1>2
  <2> HIDE DEF f
  <2> QED BY <1>6, <2>2, <2>4, <2>5, <2>7, <2>8, <2>9
<1>9. Survivors = {best[f] : f \in DOMAIN best}
  BY DEF Survivors
<1> QED BY <1>7, <1>8, <1>9 DEF s
-----------------------------------------------------------------------------
\* The listing that filter_illicit_keep_last returns has every surviving record
\* once.
LEMMA ChosenListsSurvivors ==
  ASSUME RevotingInv, stage \in RevotedStages
  PROVE  /\ chosen \in Seq(Chosen) /\ {chosen[k] : k \in DOMAIN chosen} = Survivors
         /\ \A j, k \in DOMAIN chosen : j < k => chosen[j].seq < chosen[k].seq
<1> DEFINE n == Cardinality(Survivors)
<1>1. /\ chosen \in Seq(Chosen) /\ chosen \in SortedBySeq(Survivors)
      /\ IsFiniteSet(DOMAIN best) /\ best \in [DOMAIN best -> Chosen]
  BY DEF RevotingInv, BestInv, ReceiptInv, TypeOK, TallyTypeOK
<1>2. IsFiniteSet(Survivors)
  BY <1>1, ImageFinite DEF Survivors
<1>3. n \in Nat
  BY <1>2, FS_CardinalityType
<1>4. /\ chosen \in [1..n -> Survivors] /\ DOMAIN chosen = 1..n
      /\ \A j, k \in 1..n : j < k => chosen[j].seq < chosen[k].seq
  BY <1>1 DEF SortedBySeq
<1>5. \A k \in 1..n : chosen[k].seq \in Nat
  <2>1. \A k \in 1..n : chosen[k] \in Chosen
    BY <1>1, <1>4, SeqIndex
  <2> QED BY <2>1 DEF Chosen
<1>6. \A j, k \in 1..n : chosen[j] = chosen[k] => j = k
  <2> TAKE j, k \in 1..n
  <2>1. j < k \/ k < j \/ j = k
    BY <1>3
  <2> QED BY <1>4, <1>5, <2>1
<1> HIDE DEF n
<1>7. chosen \in Injection(1..n, Survivors)
  BY <1>4, <1>6 DEF Injection, IsInjective
<1>8. Cardinality(1..n) = n
  BY <1>3, FS_Interval
<1>9. chosen \in Surjection(1..n, Survivors)
  BY <1>2, <1>7, <1>8, FS_Injection DEF n
<1>10. {chosen[k] : k \in DOMAIN chosen} = Survivors
  BY <1>4, <1>9 DEF Surjection
<1> QED BY <1>1, <1>4, <1>10

\* The revoting rule keeps, for every registered credential, the last ballot
\* cast with the right PIN, and returns them in board order.
THEOREM LastBallotsAreChosen == Spec => []ChosenAreLastBallots
<1>1. RevotingInv => ChosenAreLastBallots
  <2> SUFFICES ASSUME RevotingInv, stage \in RevotedStages, SuffixVerifies
               PROVE  /\ {chosen[k].seq + 1 : k \in DOMAIN chosen} =
                           Promise!Counted(BallotsOf(snapshot))
                      /\ \A j, k \in DOMAIN chosen : j < k => chosen[j].seq < chosen[k].seq
    BY DEF ChosenAreLastBallots
  <2>1. {chosen[k].seq + 1 : k \in DOMAIN chosen} = {r.seq + 1 : r \in Survivors}
    BY ChosenListsSurvivors
  <2> QED BY <2>1, ChosenListsSurvivors, SurvivorsAreCounted
<1> QED BY RevotingInvariant, <1>1, PTL
=============================================================================
