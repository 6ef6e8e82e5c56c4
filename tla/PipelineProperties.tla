------------------------- MODULE PipelineProperties -------------------------
(***************************************************************************)
(* What a count of the public pipeline must achieve.                       *)
(***************************************************************************)
EXTENDS Pipeline, SequencesExt

Registered == {PubCreds[k] : k \in DOMAIN PubCreds}

Counts == [c \in Choice |-> decr[c].count]

BallotsOf(s) == [k \in DOMAIN s |-> s[k].ballot]

\* The election the count carries out: the board is the list of ballots cast,
\* reading the snapshot closes it, a verified decryption announces it.
Promise == INSTANCE Election
             WITH Register <- Registered,
                  cast     <- BallotsOf(ballots),
                  closed   <- Len(snapshot),
                  outcome  <- IF stage = "done" THEN {Counts} ELSE {}

\* The vote posted under receipt n.
Posted(n) == snapshot[n + 1].ballot.ver_vote

Receipts(list) == {list[k].receipt : k \in DOMAIN list}

AuditedStages ==
  {"mix_credentials", "verify_cred_mix", "gen_fingerprints", "decrypt_fingerprints",
   "filter_illicit", "verify_votes_fps", "keep_last", "homomorphic_sum",
   "decrypt_tally", "verify_tally", "done"}

RevotedStages == {"homomorphic_sum", "decrypt_tally", "verify_tally", "done"}
-----------------------------------------------------------------------------
FlowTypeOK ==
  /\ stage \in Stages
  /\ i \in Nat
  /\ faults \in 0..MaxFaults

VotesTypeOK ==
  /\ snapshot \in Seq(Record(Castable))
  /\ originals \in Seq(VoteRecord)
  /\ mixed \in Seq(VoteRecord)
  /\ controls \in Seq(Control)
  /\ acc_checks \in Seq(AccCheck)
  /\ valid \in Seq(ValidRecord)

CredsTypeOK ==
  /\ cred_mix \in Seq(Credential)
  /\ fps.z \subseteq Exponent
  /\ fps.pub \in Seq(FpCiphertext)
  /\ fps.votes \in Seq(FpCiphertext)
  /\ dec_pub \in Seq(FpDecryption)
  /\ dec_votes \in Seq(FpDecryption)

TallyTypeOK ==
  /\ IsFiniteSet(DOMAIN best)
  /\ best \in [DOMAIN best -> Chosen]
  /\ chosen \in Seq(Chosen)
  /\ enc_tally \in [Choice -> Nat]
  /\ decr \in [Choice -> TallyDecryption]

\* Every variable has its type in every state of a count.
TypeOK == Board!TypeOK /\ FlowTypeOK /\ VotesTypeOK /\ CredsTypeOK /\ TallyTypeOK

\* A vote keeps its own receipt through the mix and the filter: the record
\* with receipt n holds the credential, PIN and choice of the n-th ballot
\* posted, and no two records share a receipt. The revoting rule of
\* filter_illicit_keep_last reads nothing else to tell which ballot is last.
ReceiptFollowsVote ==
  /\ \A j, k \in DOMAIN mixed : mixed[j].receipt = mixed[k].receipt => j = k
  /\ \A j, k \in DOMAIN valid : valid[j].receipt = valid[k].receipt => j = k
  /\ \A k \in DOMAIN mixed :
       /\ mixed[k].receipt + 1 \in DOMAIN snapshot
       /\ SamePlaintext(mixed[k].vote, Posted(mixed[k].receipt))
  /\ \A k \in DOMAIN valid :
       /\ valid[k].receipt + 1 \in DOMAIN snapshot
       /\ valid[k].vote = Strip(Posted(valid[k].receipt))

\* Once verify_acc_checks has accepted the decryptions, the votes that
\* filter_invalid kept are exactly the ballots of the snapshot cast with the
\* right PIN, whatever happened to the decryptions on their way.
ValidAreRightPin ==
  stage \in AuditedStages =>
    Receipts(valid) = {n \in 0..Len(snapshot) - 1 : Posted(n).pin = PinOf[Posted(n).A]}

\* The decryptions that VerifyVoteFingerprint never reaches, those beyond the
\* number of registered credentials, verify all the same.
SuffixVerifies ==
  \A k \in DOMAIN dec_votes : k > Len(PubCreds) => DecOkVerifies(dec_votes[k])

\* The ballots that filter_illicit_keep_last sums, in the order it returns
\* them, are for every registered credential the last ballot of the snapshot
\* cast with the right PIN, in board order, for every permutation the two
\* mixes may have drawn; and damage to the decryptions cannot change that, as
\* long as it spares those nobody verifies.
ChosenAreLastBallots ==
  stage \in RevotedStages /\ SuffixVerifies =>
    /\ {chosen[k].seq + 1 : k \in DOMAIN chosen} = Promise!Counted(BallotsOf(snapshot))
    /\ \A j, k \in DOMAIN chosen : j < k => chosen[j].seq < chosen[k].seq

\* The count is an election: whatever it publishes is the outcome of the
\* ballots on the board when list_ballots was called, and ballots posted
\* while it runs change nothing.
IsElection == Promise!Spec

\* The pipeline and the tellers touch the board through its interface only.
UsesBoard == Board!Spec

\* A count that verify_decrypted_tally accepts publishes the outcome of its
\* snapshot, even if decryptions were damaged between the tabulation teller
\* and the public pipeline: the audits reject all damage that matters. The
\* exception is the part of dec_votes that VerifyVoteFingerprint never
\* reaches, beyond the number of registered credentials.
PublishedTallyIsRight ==
  stage = "done" /\ SuffixVerifies
  => Counts = Promise!Outcome(BallotsOf(snapshot))

\* A count stops short of a tally only for a reason: an Err means a ballot
\* of the snapshot does not verify, a decryption was damaged or a count is
\* beyond the discrete log table; a panic of filter_illicit means there are
\* fewer valid votes than registered credentials, or a decryption was damaged.
StopHasCause ==
  /\ stage = "failed" =>
       \/ \E k \in DOMAIN snapshot : ~ BallotVerifies(snapshot[k].ballot)
       \/ \E c \in Choice : ~ InTable(enc_tally[c])
       \/ faults > 0
  /\ stage = "panicked" => Len(valid) < Len(PubCreds) \/ faults > 0
-----------------------------------------------------------------------------
\* A snapshot whose ballots all verify, with at least as many right-PIN
\* ballots as registered credentials and an outcome that the discrete log
\* table can count, leads to a published tally.
CountSucceeds ==
  (/\ stage = "verify_ballots"
   /\ \A k \in DOMAIN snapshot : BallotVerifies(snapshot[k].ballot)
   /\ Cardinality({k \in DOMAIN snapshot : Promise!RightPin(snapshot[k].ballot)})
        >= Len(PubCreds)
   /\ \A c \in Choice : Promise!Outcome(BallotsOf(snapshot))[c] <= TableMax)
    ~> (stage = "done")
-----------------------------------------------------------------------------
(* Statements of the repository's documentation that the code contradicts. *)

\* filter_illicit_keep_last documents two preconditions, equal lengths of
\* the decryptions and of their lists. A count always meets them, so by the
\* documentation no call of a count should panic.
PreconditionsPreventPanic == stage # "panicked"

\* The README says that malformed ballots are set aside; a ballot of the
\* snapshot that does not verify should then not end the count.
MalformedAreSetAside ==
  stage = "failed" => \A k \in DOMAIN snapshot : BallotVerifies(snapshot[k].ballot)

\* filter_illicit_keep_last says that the core call it starts with checks the
\* proofs: the revoting rule should read verified decryptions only.
RevotingReadsVerified ==
  stage = "keep_last" => \A k \in DOMAIN dec_votes : DecOkVerifies(dec_votes[k])
=============================================================================
