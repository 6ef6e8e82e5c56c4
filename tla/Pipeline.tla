------------------------------ MODULE Pipeline ------------------------------
(***************************************************************************)
(* A count: the public pipeline (PublicPipeline) with the registration     *)
(* teller and the tabulation teller, called in the order every caller in   *)
(* the repository uses, over a bulletin board that keeps accepting ballots *)
(* while the count runs.                                                   *)
(*                                                                         *)
(* "stage" names the call that comes next; a call whose body is a loop     *)
(* with early returns is one action per iteration, and "i" is the number   *)
(* of iterations done. A call that returns Err ends the count in "failed", *)
(* a failed assertion or an index out of bounds ends it in "panicked".     *)
(* Lists are numbered from 1 where the code numbers them from 0.           *)
(***************************************************************************)
EXTENDS Crypto, FiniteSets

CONSTANTS
  Castable,    \* the ballots a client may post
  PubCreds,    \* the published list of registered credentials
  TableMax,    \* the discrete log table maps 0..TableMax
  MaxBallots,  \* bound: ballots posted in a behaviour
  MaxFaults    \* bound: damage to what the tellers hand over

ASSUME CastableAssumption == Castable \subseteq [election_ctx : Context,
                                                 proofs_ok : BOOLEAN,
                                                 ver_vote : [A : Credential, pin : Pin,
                                                             choice : Choice, enc : {0}]]

\* Every registered voter has a credential of its own.
ASSUME PubCredsAssumption ==
  /\ PubCreds \in Seq(Credential)
  /\ \A j, k \in DOMAIN PubCreds : PubCreds[j] = PubCreds[k] => j = k

ASSUME BoundAssumption ==
  TableMax \in Nat /\ MaxBallots \in Nat /\ MaxFaults \in Nat

VARIABLES
  next_seq_no, ballots,  \* the bulletin board
  stage, i,              \* the call in progress and its loop counter
  snapshot,              \* list_ballots, read once at the start
  originals,             \* verify_ballots
  mixed,                 \* mix_votes
  controls, acc_checks,  \* RT and TT artefacts over the mixed votes
  valid,                 \* filter_invalid
  cred_mix,              \* mix_credentials
  fps,                   \* gen_credential_fingerprints
  dec_pub, dec_votes,    \* TT decryptions of the fingerprints
  best, chosen,          \* filter_illicit_keep_last
  enc_tally, decr,       \* homomorphic_sum, decrypt_tally
  faults                 \* damage so far

board == <<next_seq_no, ballots>>
votesPart == <<snapshot, originals, mixed, controls, acc_checks, valid>>
credsPart == <<cred_mix, fps, dec_pub, dec_votes>>
tallyPart == <<best, chosen, enc_tally, decr>>
vars == <<board, stage, i, votesPart, credsPart, tallyPart, faults>>

Board == INSTANCE BulletinBoard
           WITH Controls <- {}, VerifiedVotes <- {}, MaxPublished <- 0,
                controls <- <<>>, verified_votes <- <<>>
-----------------------------------------------------------------------------
Record(B) == [receipt : Nat, ballot : B]
VoteRecord == [receipt : Nat, vote : Vote]
ValidRecord == [receipt : Nat, vote : VoteWithEncPubCred]

Terminal == {"done", "failed", "panicked"}

Stages ==
  Terminal \cup
  {"list_ballots", "verify_ballots", "mix_votes", "verify_vote_mix", "gen_controls",
   "gen_acc_checks", "filter_invalid", "verify_acc_checks", "mix_credentials",
   "verify_cred_mix", "gen_fingerprints", "decrypt_fingerprints", "filter_illicit",
   "verify_votes_fps", "keep_last", "homomorphic_sum", "decrypt_tally", "verify_tally"}

NoFps == [z |-> {}, pub |-> <<>>, votes |-> <<>>]
Chosen == [seq : Nat, at : Nat]
ZeroTally == [c \in Choice |-> 0]
\* An encrypted tally, decrypted and looked up in the discrete log table.
DecryptCounts(t) ==
  [c \in Choice |-> [ciphertext |-> [pt |-> t[c], id |-> c],
                     plaintext  |-> t[c],
                     count      |-> t[c]]]
TallyDecryption == [ciphertext : [pt : Nat, id : Choice], plaintext : Nat, count : Nat]

Perms(n) == {p \in [1..n -> 1..n] : \A j, k \in 1..n : p[j] = p[k] => j = k}

Init ==
  /\ Board!Init
  /\ stage = "list_ballots" /\ i = 0
  /\ snapshot = <<>> /\ originals = <<>> /\ mixed = <<>>
  /\ controls = <<>> /\ acc_checks = <<>> /\ valid = <<>>
  /\ cred_mix = <<>> /\ fps = NoFps /\ dec_pub = <<>> /\ dec_votes = <<>>
  /\ best = <<>> /\ chosen = <<>> /\ enc_tally = ZeroTally /\ decr = DecryptCounts(ZeroTally)
  /\ faults = 0
-----------------------------------------------------------------------------
(* Control flow shared by the calls.                                       *)

\* The call returned Ok: go on with the next one.
Proceed(next) == stage' = next /\ i' = 0

Fail == stage' = "failed" /\ i' = 0
Panic == stage' = "panicked" /\ i' = 0

\* One more iteration of the loop of the current call.
Iterate == i' = i + 1 /\ UNCHANGED stage
-----------------------------------------------------------------------------
(* Clients: the board accepts ballots at any time.                         *)

PostBallot(b) ==
  /\ Board!post_ballot(b)
  /\ UNCHANGED <<stage, i, votesPart, credsPart, tallyPart, faults>>
-----------------------------------------------------------------------------
(* Reading, verifying and mixing the ballots.                              *)

\* Mutated form of the next definition: the ballots are moved out of the board.
ListBallots_Takes ==
  /\ stage = "list_ballots"
  /\ ballots # <<>>
  /\ snapshot' = ballots
  /\ ballots' = <<>>
  /\ Proceed("verify_ballots")
  /\ UNCHANGED <<next_seq_no, originals, mixed, controls, acc_checks, valid,
                 credsPart, tallyPart, faults>>

\* The snapshot of the count. What a shuffle does with an empty list is up
\* to dlog-sigma-primitives, so a count starts on a non-empty board.
ListBallots ==
  /\ stage = "list_ballots"
  /\ ballots # <<>>
  /\ snapshot' = ballots
  /\ Proceed("verify_ballots")
  /\ UNCHANGED <<board, originals, mixed, controls, acc_checks, valid,
                 credsPart, tallyPart, faults>>

\* One ballot of verify_ballots; the first Err is the result of the call.
VerifyBallot ==
  /\ stage = "verify_ballots"
  /\ i < Len(snapshot)
  /\ LET r == snapshot[i + 1] IN
       IF BallotVerifies(r.ballot)
       THEN /\ originals' = Append(originals,
                              [receipt |-> r.receipt, vote |-> r.ballot.ver_vote])
            /\ Iterate
       ELSE Fail /\ UNCHANGED originals
  /\ UNCHANGED <<board, snapshot, mixed, controls, acc_checks, valid,
                 credsPart, tallyPart, faults>>

\* Mutated form of the next definition: the receipts stay where they were.
Remixed_ReceiptsNotPermuted(perm, k) ==
  [receipt |-> originals[k].receipt, vote |-> ReEncrypt(originals[perm[k]].vote, k)]

\* The k-th record of a mix: the re-encrypted vote and its own receipt.
Remixed(perm, k) ==
  [receipt |-> originals[perm[k]].receipt, vote |-> ReEncrypt(originals[perm[k]].vote, k)]

\* mix_votes: votes are re-encrypted along a random permutation and the
\* receipts are permuted with them.
MixVotes ==
  /\ stage = "verify_ballots"
  /\ i = Len(snapshot)
  /\ \E perm \in Perms(Len(originals)) :
       mixed' = [k \in DOMAIN originals |-> Remixed(perm, k)]
  /\ Proceed("verify_vote_mix")
  /\ UNCHANGED <<board, snapshot, originals, controls, acc_checks, valid,
                 credsPart, tallyPart, faults>>

\* The shuffle proof: the mixed votes are a permuted re-encryption of the
\* originals. It says nothing about the receipts. (MixedVotes::verify also
\* rejects mixes of votes for parties of different size: see ShuffleProof.
\* Here all parties have the same number of candidates.)
VoteMixVerifies ==
  \E perm \in Perms(Len(originals)) :
    \A k \in DOMAIN originals : SamePlaintext(mixed[k].vote, originals[perm[k]].vote)

VerifyVoteMix ==
  /\ stage = "verify_vote_mix"
  /\ IF VoteMixVerifies THEN Proceed("gen_controls") ELSE Fail
  /\ UNCHANGED <<board, votesPart, credsPart, tallyPart, faults>>
-----------------------------------------------------------------------------
(* Removing the ballots cast with a wrong PIN.                             *)

\* RegistrationTeller::gen_controls: one proof per mixed vote, in order.
GenControls ==
  /\ stage = "gen_controls"
  /\ controls' = [k \in DOMAIN mixed |-> [for |-> mixed[k].vote]]
  /\ Proceed("gen_acc_checks")
  /\ UNCHANGED <<board, snapshot, originals, mixed, acc_checks, valid,
                 credsPart, tallyPart, faults>>

\* TabulationTeller::gen_acc_checks: verify each control, then decrypt the
\* credential check of its vote.
GenAccChecks ==
  /\ stage = "gen_acc_checks"
  /\ IF \A k \in DOMAIN controls : ControlVerifies(controls[k], mixed[k].vote)
     THEN /\ acc_checks' = [k \in DOMAIN controls |->
                              Decrypt(CredentialCheck(mixed[k].vote))]
          /\ Proceed("filter_invalid")
     ELSE Fail /\ UNCHANGED acc_checks
  /\ UNCHANGED <<board, snapshot, originals, mixed, controls, valid,
                 credsPart, tallyPart, faults>>

\* Mutated form of the next definition: the receipt is looked up with the
\* index in the filtered list.
Kept_OwnIndex(k) ==
  [receipt |-> mixed[Len(valid) + 1].receipt, vote |-> Strip(mixed[k].vote)]

\* Mutated form of the next definition: the vote is not stripped.
Kept_NotStripped(k) == [receipt |-> mixed[k].receipt, vote |-> mixed[k].vote]

\* What filter_invalid keeps of the k-th mixed record.
Kept(k) == [receipt |-> mixed[k].receipt, vote |-> Strip(mixed[k].vote)]

\* One vote of filter_invalid. The decryption is matched with the vote by
\* its ciphertext; its proof is not looked at here. The receipt is taken at
\* the index of the vote in the mixed list.
FilterInvalid ==
  /\ stage = "filter_invalid"
  /\ i < Len(mixed)
  /\ LET v == mixed[i + 1].vote
         d == acc_checks[i + 1] IN
       IF ControlVerifies(controls[i + 1], v) /\ d.ciphertext = CredentialCheck(v)
       THEN /\ valid' = IF d.plaintext = Identity
                        THEN Append(valid, Kept(i + 1)) ELSE valid
            /\ Iterate
       ELSE Fail /\ UNCHANGED valid
  /\ UNCHANGED <<board, snapshot, originals, mixed, controls, acc_checks,
                 credsPart, tallyPart, faults>>

\* Mutated form of the next definition: the decryption proof is not checked.
AccCheckVerifies_NoProof(k) ==
  /\ ControlVerifies(controls[k], mixed[k].vote)
  /\ acc_checks[k].ciphertext = CredentialCheck(mixed[k].vote)

\* verify_acc_checks: the public audit of a decryption filter_invalid used.
AccCheckVerifies(k) ==
  /\ ControlVerifies(controls[k], mixed[k].vote)
  /\ acc_checks[k].ciphertext = CredentialCheck(mixed[k].vote)
  /\ DecOkVerifies(acc_checks[k])

VerifyAccChecks ==
  /\ stage = "filter_invalid"
  /\ i = Len(mixed)
  /\ IF \A k \in DOMAIN mixed : AccCheckVerifies(k)
     THEN Proceed("mix_credentials") ELSE Fail
  /\ UNCHANGED <<board, votesPart, credsPart, tallyPart, faults>>
-----------------------------------------------------------------------------
(* Fingerprints of the registered credentials and of the valid votes.      *)

MixCredentials ==
  /\ stage = "mix_credentials"
  /\ \E perm \in Perms(Len(PubCreds)) :
       cred_mix' = [k \in DOMAIN PubCreds |-> PubCreds[perm[k]]]
  /\ Proceed("verify_cred_mix")
  /\ UNCHANGED <<board, votesPart, fps, dec_pub, dec_votes, tallyPart, faults>>

CredMixVerifies ==
  \E perm \in Perms(Len(PubCreds)) :
    cred_mix = [k \in DOMAIN PubCreds |-> PubCreds[perm[k]]]

VerifyCredMix ==
  /\ stage = "verify_cred_mix"
  /\ IF CredMixVerifies THEN Proceed("gen_fingerprints") ELSE Fail
  /\ UNCHANGED <<board, votesPart, credsPart, tallyPart, faults>>

\* gen_credential_fingerprints: the shuffle is verified once more, then both
\* lists are raised to the same secret exponent.
GenFingerprints ==
  /\ stage = "gen_fingerprints"
  /\ IF CredMixVerifies
     THEN /\ \E z \in Exponent :
               fps' = [z     |-> {z},
                       pub   |-> [k \in DOMAIN cred_mix |-> Fingerprint(z, cred_mix[k], k)],
                       votes |-> [k \in DOMAIN valid |->
                                    Fingerprint(z, valid[k].vote.A_enc, k)]]
          /\ Proceed("decrypt_fingerprints")
     ELSE Fail /\ UNCHANGED fps
  /\ UNCHANGED <<board, votesPart, cred_mix, dec_pub, dec_votes, tallyPart, faults>>

\* VerifiableFingerprints::verify for the two lists of the count.
FingerprintsVerify ==
  \E z \in fps.z :
    /\ fps.pub = [k \in DOMAIN cred_mix |-> Fingerprint(z, cred_mix[k], k)]
    /\ fps.votes = [k \in DOMAIN valid |-> Fingerprint(z, valid[k].vote.A_enc, k)]

\* TabulationTeller::decrypt_credential_fingerprints.
DecryptFingerprints ==
  /\ stage = "decrypt_fingerprints"
  /\ IF FingerprintsVerify
     THEN /\ dec_pub' = [k \in DOMAIN fps.pub |-> Decrypt(fps.pub[k])]
          /\ dec_votes' = [k \in DOMAIN fps.votes |-> Decrypt(fps.votes[k])]
          /\ Proceed("filter_illicit")
     ELSE Fail /\ UNCHANGED <<dec_pub, dec_votes>>
  /\ UNCHANGED <<board, votesPart, cred_mix, fps, tallyPart, faults>>
-----------------------------------------------------------------------------
(* filter_illicit_keep_last: the public checks of the core filter_illicit, *)
(* whose result is dropped, and then the revoting rule.                    *)

\* Mutated form of the next definition: the decrypted lists are confused.
FingerprintsAligned_Swapped ==
  /\ Len(dec_votes) = Len(cred_mix) /\ Len(dec_pub) = Len(valid)
  /\ Len(fps.votes) = Len(valid) /\ Len(fps.pub) = Len(cred_mix)
  /\ \A k \in DOMAIN dec_pub : fps.pub[k] = dec_pub[k].ciphertext
  /\ \A k \in DOMAIN dec_votes : fps.votes[k] = dec_votes[k].ciphertext

\* The asserts: the lists have the lengths of the lists they were made for,
\* and the decryptions are of the fingerprints.
FingerprintsAligned ==
  /\ Len(dec_votes) = Len(valid) /\ Len(dec_pub) = Len(cred_mix)
  /\ Len(fps.votes) = Len(valid) /\ Len(fps.pub) = Len(cred_mix)
  /\ \A k \in DOMAIN dec_pub : fps.pub[k] = dec_pub[k].ciphertext
  /\ \A k \in DOMAIN dec_votes : fps.votes[k] = dec_votes[k].ciphertext

\* Then the fingerprint proof and the decryptions of the register.
FilterIllicit ==
  /\ stage = "filter_illicit"
  /\ IF ~ FingerprintsAligned THEN Panic
     ELSE IF FingerprintsVerify /\ \A k \in DOMAIN dec_pub : DecOkVerifies(dec_pub[k])
          THEN Proceed("verify_votes_fps")
          ELSE Fail
  /\ UNCHANGED <<board, votesPart, credsPart, tallyPart, faults>>

\* The loop over the decryptions of the votes' fingerprints. Its bound is
\* the length of the OTHER list, dec_pub.
VerifyVoteFingerprint ==
  /\ stage = "verify_votes_fps"
  /\ i < Len(dec_pub)
  /\ IF i >= Len(dec_votes) THEN Panic
     ELSE IF DecOkVerifies(dec_votes[i + 1]) THEN Iterate ELSE Fail
  /\ UNCHANGED <<board, votesPart, credsPart, tallyPart, faults>>

\* The loop has run to its end: the core call returns Ok.
VotesFingerprintsVerified ==
  /\ stage = "verify_votes_fps"
  /\ i = Len(dec_pub)
  /\ Proceed("keep_last")
  /\ UNCHANGED <<board, votesPart, credsPart, tallyPart, faults>>

\* The fingerprints of the registered credentials.
Authorized == {dec_pub[k].plaintext : k \in DOMAIN dec_pub}

\* Mutated form of the next definition: the first ballot is kept.
Supersedes_First(fp, seq) == fp \in DOMAIN best => seq < best[fp].seq

\* A record with fingerprint fp and sequence number seq replaces what is
\* remembered for fp.
Supersedes(fp, seq) == fp \in DOMAIN best => seq > best[fp].seq

\* One valid vote of the revoting rule: the best record of a fingerprint is
\* the one with the largest sequence number met so far.
KeepLast ==
  /\ stage = "keep_last"
  /\ i < Len(valid)
  /\ LET fp  == dec_votes[i + 1].plaintext
         seq == valid[i + 1].receipt IN
       IF fp \in Authorized /\ Supersedes(fp, seq)
       THEN best' = [f \in DOMAIN best \cup {fp} |->
                       IF f = fp THEN [seq |-> seq, at |-> i + 1] ELSE best[f]]
       ELSE UNCHANGED best
  /\ Iterate
  /\ UNCHANGED <<board, votesPart, credsPart, chosen, enc_tally, decr, faults>>

\* Mutated form of the next definition: the order of the mixed list is kept.
SortedBySeq_ByIndex(S) ==
  {s \in [1..Cardinality(S) -> S] : \A j, k \in DOMAIN s : j < k => s[j].at < s[k].at}

\* The listing of a set of records by increasing sequence number. There is
\* exactly one, because no two ballots share a sequence number.
SortedBySeq(S) ==
  {s \in [1..Cardinality(S) -> S] : \A j, k \in DOMAIN s : j < k => s[j].seq < s[k].seq}

\* The surviving records, sorted by sequence number.
SortChosen ==
  /\ stage = "keep_last"
  /\ i = Len(valid)
  /\ chosen' \in SortedBySeq({best[f] : f \in DOMAIN best})
  /\ Proceed("homomorphic_sum")
  /\ UNCHANGED <<board, votesPart, credsPart, best, enc_tally, decr, faults>>
-----------------------------------------------------------------------------
(* The tally.                                                              *)

\* One summand of homomorphic_sum, which starts from the zero encoding.
HomomorphicSum ==
  /\ stage = "homomorphic_sum"
  /\ i < Len(chosen)
  /\ enc_tally' = [enc_tally EXCEPT ![valid[chosen[i + 1].at].vote.choice] = @ + 1]
  /\ Iterate
  /\ UNCHANGED <<board, votesPart, credsPart, best, chosen, decr, faults>>

\* Mutated form of the next definition: the table ends one entry early.
InTable_Exclusive(n) == n < TableMax

\* The discrete log table has an entry for the count n.
InTable(n) == n <= TableMax

\* TabulationTeller::decrypt_tally: every count is looked up in the discrete
\* log table; a count the table does not hold is Err(ElementNotFound).
DecryptTally ==
  /\ stage = "homomorphic_sum"
  /\ i = Len(chosen)
  /\ IF \A c \in Choice : InTable(enc_tally[c])
     THEN /\ decr' = DecryptCounts(enc_tally)
          /\ Proceed("verify_tally")
     ELSE Fail /\ UNCHANGED decr
  /\ UNCHANGED <<board, votesPart, credsPart, best, chosen, enc_tally, faults>>

\* Mutated form of the next definition: the decryption proof is not checked.
CountVerifies_NoProof(c) ==
  /\ decr[c].ciphertext = [pt |-> enc_tally[c], id |-> c]
  /\ decr[c].plaintext = decr[c].count

\* DecryptedTally::verify of one count: the ciphertext is the one of the
\* tally, its decryption verifies, and the count is its discrete logarithm.
CountVerifies(c) ==
  /\ decr[c].ciphertext = [pt |-> enc_tally[c], id |-> c]
  /\ DecOkVerifies(decr[c])
  /\ decr[c].plaintext = decr[c].count

VerifyDecryptedTally ==
  /\ stage = "verify_tally"
  /\ IF \A c \in Choice : CountVerifies(c) THEN Proceed("done") ELSE Fail
  /\ UNCHANGED <<board, votesPart, credsPart, tallyPart, faults>>
-----------------------------------------------------------------------------
(* Damage to what the tellers hand to the public pipeline: a plaintext, or *)
(* a published count, differs from the decrypted one, or the caller passes *)
(* a list in another order than that of the list it was made for.          *)

Swapped(s, k, l) == [s EXCEPT ![k] = s[l], ![l] = s[k]]

DamageAccCheck ==
  /\ stage = "filter_invalid" /\ i = 0 /\ faults < MaxFaults
  /\ \/ \E k \in DOMAIN acc_checks, p \in CheckPlaintext :
          /\ p # acc_checks[k].plaintext
          /\ acc_checks' = [acc_checks EXCEPT ![k].plaintext = p]
          /\ UNCHANGED controls
     \/ \E k, l \in DOMAIN acc_checks :
          /\ k < l
          /\ acc_checks' = Swapped(acc_checks, k, l)
          /\ UNCHANGED controls
     \/ \E k, l \in DOMAIN controls :
          /\ k < l
          /\ controls' = Swapped(controls, k, l)
          /\ UNCHANGED acc_checks
  /\ faults' = faults + 1
  /\ UNCHANGED <<board, stage, i, snapshot, originals, mixed, valid, credsPart, tallyPart>>

DamageFingerprint ==
  /\ stage = "filter_illicit" /\ faults < MaxFaults
  /\ \/ \E k \in DOMAIN dec_pub, p \in Point :
          /\ p # dec_pub[k].plaintext
          /\ dec_pub' = [dec_pub EXCEPT ![k].plaintext = p]
          /\ UNCHANGED dec_votes
     \/ \E k \in DOMAIN dec_votes, p \in Point :
          /\ p # dec_votes[k].plaintext
          /\ dec_votes' = [dec_votes EXCEPT ![k].plaintext = p]
          /\ UNCHANGED dec_pub
     \/ \E k, l \in DOMAIN dec_pub :
          /\ k < l
          /\ dec_pub' = Swapped(dec_pub, k, l)
          /\ UNCHANGED dec_votes
     \/ \E k, l \in DOMAIN dec_votes :
          /\ k < l
          /\ dec_votes' = Swapped(dec_votes, k, l)
          /\ UNCHANGED dec_pub
  /\ faults' = faults + 1
  /\ UNCHANGED <<board, stage, i, votesPart, cred_mix, fps, tallyPart>>

DamageTally ==
  /\ stage = "verify_tally" /\ faults < MaxFaults
  /\ \E c \in Choice, n \in 0..TableMax :
       /\ n # decr[c].count
       /\ \/ decr' = [decr EXCEPT ![c].count = n]
          \/ decr' = [decr EXCEPT ![c].count = n, ![c].plaintext = n]
  /\ faults' = faults + 1
  /\ UNCHANGED <<board, stage, i, votesPart, credsPart, best, chosen, enc_tally>>
-----------------------------------------------------------------------------
Count ==
  \/ ListBallots \/ VerifyBallot \/ MixVotes \/ VerifyVoteMix
  \/ GenControls \/ GenAccChecks \/ FilterInvalid \/ VerifyAccChecks
  \/ MixCredentials \/ VerifyCredMix \/ GenFingerprints \/ DecryptFingerprints
  \/ FilterIllicit \/ VerifyVoteFingerprint \/ VotesFingerprintsVerified
  \/ KeepLast \/ SortChosen
  \/ HomomorphicSum \/ DecryptTally \/ VerifyDecryptedTally

Damage == DamageAccCheck \/ DamageFingerprint \/ DamageTally

Next ==
  \/ \E b \in Castable : PostBallot(b)
  \/ Count
  \/ Damage

Spec == Init /\ [][Next]_vars

\* The count is one thread that runs to its end once it has started.
FairSpec == Spec /\ WF_vars(Count)
=============================================================================
