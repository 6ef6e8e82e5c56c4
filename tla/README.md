# Verification of evoting-rs

TLA+ specifications of the evoting-rs library, TLC runs that check them on small
elections, and TLAPS proofs, for elections of any size, of every safety property the
passing runs check. Source paths below are relative to the library's `src/` directory (`core/keys.rs`);
`README.md:89` means line 89 of the repository's own README, `bb.rs` is
`api/server/bb.rs`.

- [Inventory](#inventory)
- [Modules and the code they model](#modules-and-the-code-they-model)
- [Runs](#runs)
- [Bounds](#bounds) and [fairness](#fairness)
- [Proofs](#proofs)
- [What the code does against its documentation](#what-the-code-does-against-its-documentation)
- [Hazards](#hazards)
- [Not modelled](#not-modelled)
- [Plan](#plan)

## Inventory

The library implements a coercion-resistant voting protocol. Voters get a credential bound
to a PIN. A ballot carries the encrypted credential under the PIN that was typed; a wrong
PIN gives a ballot that looks like any other and does not count. The count mixes the
ballots, filters those with a wrong PIN, filters those of credentials that are not
registered, keeps the last of each voter and adds up the rest, without decrypting a
ballot.

| Component | State | Operations | Interacts with |
|---|---|---|---|
| Bulletin board, `InMemoryBB` (`api/server/bb.rs:190-278`) | `next_seq_no` and three logs: ballots with receipts, control proofs, verified votes | `post_ballot`, `post_controls`, `post_verified_votes`, and the three list functions | written by clients, RT and a caching layer at any time; read once by a count |
| Public pipeline, `PublicPipeline` (`bb.rs:290-640`) | none of its own: each call's result is an argument of the next | `verify_ballots`, `mix_votes`, `verify_vote_mix`, `filter_invalid`, `verify_acc_checks`, `mix_credentials`, `verify_cred_mix`, `gen_credential_fingerprints`, `filter_illicit_keep_last`, `homomorphic_sum`, `verify_decrypted_tally` | board, both tellers, the core filters |
| Registration teller (`api/server/rt.rs`) | secret keys | `gen_builder`, `gen_credential`, `gen_controls`, `short_public_acc` | clients (credentials), pipeline (controls) |
| Tabulation teller (`api/server/tt.rs`, `core/keys.rs:500-625`) | decryption key, discrete log table | `gen_acc_checks`, `decrypt_credential_fingerprints`, `decrypt_tally` | pipeline |
| Core filters (`core/keys.rs:160-400`) | none | `filter_duplicates`, `filter_invalid`, `verify_checks`, `gen_credential_fingerprints`, `filter_illicit` | called by the pipeline |
| Shuffle and tally proofs (`core/tally.rs`) | proofs | prove and verify mixes, controls, decrypted tallies | pipeline |
| Choices (`core/vote/choice.rs`) | cells, cast-as-intended codes, proofs | `ChoiceParameters::new`, `Choice::new`, encryption, addition, proofs, audit of the codes | ballots, tally |
| Ballots (`core/vote/mod.rs`, `api/client.rs`) | encrypted choice, encrypted credential, proofs, context | `VerVote::new`, `VerVote::verify`, `Vote::re_encrypt`, `Vote::strip`, `Ballot::verify` | client, pipeline |
| Credentials and PINs (`core/vote/auth.rs`) | PIN mask, registration signature, designated-verifier proof | `finalize`, `simulate`, `verify_pin`, `EncrAuthValues` and its proof | client, RT |
| Client (`api/client.rs`) | `VoterBuilder` → `Voter`, `BallotBuilder` | `simulate`, `finalize`, `vote`, `verify_pin`, `to_builder` | RT, board |
| Voter key sharing, passphrases, emoji hashes | none | formatting and Shamir sharing | |

What is hard in this code is not threads: a count is one sequential computation, and
everything it uses is passed from call to call. What is hard is:

- **ordering**: receipts decide which ballot of a voter is last, and they travel beside the
  votes through two filters and a random permutation that no proof covers;
- **parallel lists**: nearly every step indexes one list with the position in another
  (votes, receipts, controls, decryptions, fingerprints), and two of the loops run to the
  length of the wrong list or compute an index that is right for some elections only;
- **decisions before verification**: `filter_invalid` and the revoting rule act on
  decryptions whose proofs are checked by another call, or are not;
- **interleaving**: clients keep posting while a count runs;
- **failure**: every proof that does not verify ends a call, and several inputs panic;
- **stale inputs**: a client may cast a choice that was stored or built for the
  parameters of another election, and a voting device takes any builder and any credential
  it is given;
- **retries**: the board keeps no record of what it has seen, so a client that repeats a
  request posts another ballot;
- **two programs for one transcript**: prover and verifier of a ballot absorb and draw in
  separately written functions, of three protocols and a fourth that composes them.

What makes the components correct: the board only grows and receipts are positions; the
votes the pipeline keeps are exactly the right-PIN ballots, one per registered voter, the
last one; a published tally is the tally of the snapshot even if decryptions were damaged;
a count fails only for a cause, and reaches a tally whenever its snapshot allows it; a ballot that verifies is exactly one vote; a
mix that verifies moves whole votes; exactly the PIN that was issued opens a credential,
passes the device's check and makes a ballot count; a ballot verifies exactly if it names
the context of the count and otherwise arrives as it was cast.

## Modules and the code they model

| Module | Models |
|---|---|
| `Crypto` | votes, ballots and what the count can observe of the cryptography |
| `BulletinBoard` | `InMemoryBB`: `post_ballot`, `post_controls`, `post_verified_votes`, one action each |
| `Election` | abstract: ballots are cast, the election is closed, the outcome is announced |
| `Pipeline` | a count: every call of `PublicPipeline` with both tellers, over the board, while clients post |
| `PipelineProperties` | what a count must achieve, and the mapping to `Election` |
| `ChoiceParameters`, `ChoiceEncoding` | the cells of a choice, addition, the two proofs of a choice, as pure operators |
| `VoteEncoding` | a client and a tally: choose or load a choice, cast, verify, add |
| `ShuffleProof` | how `MixedVotes` proves a mix column by column and verifies it |
| `Credentials` | the arithmetic of PINs, signatures, handles, designated-verifier proofs, authentication values and the credential check, over any field |
| `BallotProof` | the composed proof of a ballot: what prover and verifier absorb and draw, in which order |
| `Enrolment` | tellers, devices and counts: builders, credentials, simulation, voting with any PIN, verification and credential check |
| `Delivery` | clients that post over a network that loses, delays and repeats; the duplicate filter over what the board has |
| `BoardProofs` | theorems about the board and, behind the network, about `Delivery` |
| `PipelineProofs`, `RevotingProofs`, `ElectionProofs` | theorems about a count: types and receipts, the revoting rule, the tally and the stops; each extends the one before |
| `EnrolmentProofs` | theorems about PINs, credentials, devices and the transcripts of ballots |
| `EncodingProofs`, `ShuffleProofs` | theorems about choices and about mixes |
| `SumProofs` | the facts about numbers, sums and cells the proofs share |
| `MCPipeline`, `MCVoteEncoding`, `MCShuffleProof`, `MCEnrolment`, `MCDelivery` | small instances for TLC |

**Values.** A ciphertext is represented by the plaintext it decrypts to and a handle that
tells equal plaintexts apart; a zero-knowledge proof verifies exactly for the statement it
was made for. Exponentiation stays real arithmetic: fingerprints are computed modulo 5 in
the runs, and the proofs only assume that raising to a secret exponent is injective
(`BlindAssumption`).

**Control.** In `Pipeline`, `stage` is the call that comes next and `i` the iterations its
loop has done. A call whose loop can return early is one action per iteration, any other
call is one action. `Err` leads to `"failed"`; an `assert!` or an index out of bounds leads
to `"panicked"`. The order of the calls is the one of the only callers in the repository,
`tests/api.rs` and `tests/bench_pipeline.rs`. Mixes draw their permutation nondeterministically.

**Composition.** `Pipeline` instantiates `BulletinBoard` for its two board variables
(`Board!post_ballot`), and `PipelineProperties` instantiates `Election` under the mapping
ballots ↦ `cast`, length of the snapshot ↦ `closed`, verified counts ↦ `outcome`. The
property `IsElection` says that every step of a count is a step of `Election` or a
stutter.

**Damage.** `DamageAccCheck`, `DamageFingerprint` and `DamageTally` change one plaintext
or one count between the tabulation teller and the pipeline, at each of the four places
one can be changed, after it was made and before it is read; their proofs stay what they
were. The first two may instead exchange two elements of a list, as a caller does that
keeps a list in another order than that of the list it was made for.

**Choices.** `VoteEncoding` separates the numbers of a choice (`l1_value`, `l2_value`)
from its cells: they agree when `Choice::new` made it and need not when it was
deserialised. `ChoiceEncoding` says what the two proofs of a ballot state about the cells,
over the cells of the election, as the verifier's loops do. The empty function stands for
parameters that are not set. The index fields are of type `usize`, the codes of type `u32`:
`AsU32` is the cast, and with it the sum of code and index, which wraps in a build without
overflow checks and panics in one with them (`Checked`). The rows of a stored choice may be
missing, extra or empty; `RowsOk` says which of them the code can go through without
leaving a list, and `Cast` panics on the others.

**Mixes.** In `ShuffleProof` a ciphertext is represented by the original it re-encrypts and
a response by the column it was made for, so that reading the wrong position of a list is
visible. `Pipeline` uses what an accepted mix means (`VoteMixVerifies`); it is therefore a
model of elections whose parties have the same number of candidates:
`UniformMixIsAccepted` shows that their mixes verify, `honest_mix` that others need not.

The device's codes are audited in the same module: `Reveal`, `FromReveal` and
`ExtractCAIValues` are the three steps between a device that shows a code or a sum and an
auditor who decrypts the same value in the ballot.

**Credentials.** The generators g1, g3 and o are independent, so a point is the record of
its three coordinates and an equation between points is three between scalars. Scalars
are an arbitrary field (`FieldAssumption`). A designated-verifier proof carries its
statement and the witness it was made with, and verifies for that statement if the
witness is one of the two that the protocol admits: the teller's key, or the voter's. A
device takes any builder and any credential, because `VoterBuilder::finalize` compares
nothing of what it is given. `short_public_acc` reads and returns only; `PublishedACC` is
what it may be handed: a point, a ciphertext, a proof and the rest (`enc_r` and the scalar
of the signature, which `PublicACC::verify` does not read), each of a handle of its own.

**Transcripts.** `BallotProof` represents a challenge by the transcript it is drawn from
and a leaf (an elementary sigma protocol) by its name. The loops of the prover, of
the replay and of the final check are separate operators, as in the code: the replay
goes by the lists of the proof, the check by the parameters of the election. `VerVote::verify`
absorbs the teller's key and the parameters, and not the hash of the context, which
`Ballot::verify` compares. In `Enrolment` an `Election` is a context: `TellerOf` gives several
contexts one key, as `RegistrationTeller::election_context` does with several manifests, and
`Redirect` lets a ballot arrive with the hash of another context.

**Delivery.** "This trait intentionally avoids transport concerns", says the trait of the
board. The network is an environment that may do what networks do, and a client may
repeat its last request at any time, since nothing the library returns tells it not to.

**Left out of the modules**: `received_at_unix_ms` (no code reads it), the kind of an
error, wording and serialisation formats, and a count on an empty board (what a shuffle
does with an empty list is decided in dlog-sigma-primitives).

## Runs

| Run | Asks | Distinct states |
|---|---|---|
| `count` | with unverifiable ballots, posting during the count and a table of size one: is the count an `Election`, does it use the board only through its interface, has every stop a cause; does a count succeed when its snapshot allows it? | 186,000 |
| `damage` | over four ballots, every permutation of both mixes and one fault (a decryption altered, or two elements of a list exchanged): do receipts follow votes, does the filter keep exactly the right-PIN ballots, are the chosen ballots the last ones, in order, does an accepted count publish the right tally? | 2,265,000 |
| `encoding` | is a choice cast without a panic exactly if it names a candidate, and does its ballot verify exactly if it names one, for every pair of codes; with any bits, ragged rows and indices beyond u32 in a stored choice, with and without overflow checks: is a ballot that verifies one vote, do ballots and tally keep the cells of the election, does the tally agree with the index fields; does an audit show what was cast? | 746,000 |
| `shuffle` | with up to two replaced ciphertexts: does an accepted proof stand for a mix of whole votes; is an undamaged mix accepted when parties have equal size? | 352,000 |
| `delivery` | with requests and answers lost, delayed, overtaken and repeated: are receipts positions, does a confirmation stand, when is the last ballot cast the last on the board, what does the duplicate filter keep, does any call rewrite a log? | 412,000 |
| `credentials` | with two contexts under one key and a third under another, builders, credentials and contexts confused, parts of ballots exchanged and context hashes replaced: which PINs does a device accept, which ballots verify, which pass the credential check, which handles does the register take? | 272,000 |
| `abstention`, `malformed`, `unverified_suffix`, `no_preference`, `honest_mix`, `context_binding` | six statements of the documentation the code contradicts, see below | |

What the properties say is in the comment before each of them. The ones to read first:

- `IsElection` and `ChosenAreLastBallots` (the count as a whole),
- `ReceiptFollowsVote` and `ValidAreRightPin` (what they rest on),
- `PublishedTallyIsRight` (damage). It has one exception, which is not a convenience of the
  model: decryptions that no loop verifies, see `unverified_suffix`.
- `TallyCountsChoices`: why the cast-as-intended proof matters even if nobody audits a
  ballot. Without it the cells that are added up and the index fields the voter sees
  could differ. They agree as the `u32` that the code casts the fields to: a stored choice
  with the index 2^32 counts for candidate 0.
- `PinCheckIsExact` and `RightPinCounts`: after any history of a device, finalized, simulated
  and made a builder again, with credentials of the wrong voter or teller, one PIN
  passes the local check, and the count depends on the issued PIN alone. The second is
  what `Crypto!CredentialCheck` says of the votes in `Pipeline`.
- `BallotsVerifyAsCast`: prover and verifier agree on the transcript for every election's
  parameters, and a ballot with a proof or a value of another one never verifies. The one
  part that may be exchanged is the context hash, between contexts that share key and
  parameters, see `context_binding`.
- `LastCastIsLast`: "only the last ballot cast with the valid PIN will count"
  (`README.md:89` of the repository) holds of the board if no request for an older ballot
  was under way when the last one was cast. Without this condition a delayed copy of an
  older ballot comes last and supersedes it; the documentation does not say whose task it
  is to wait.
- `AcceptedIsMix`: each column has a proof of its own, and together they must move whole
  votes.

Deadlock is not checked (`CHECK_DEADLOCK FALSE`), because a count ends, a board reaches
the bound on postings, and a rejected ballot is not tried again.

## Bounds

- `MaxBallots` 3 or 4. Revoting needs two ballots of one voter, a mix that matters needs
  them apart, and another voter's ballot in between makes three; the fourth lets a wrong
  PIN or an unregistered credential come after. The proofs cover every number.
- Three credentials, two of them registered: registered, unregistered, and a second voter.
  Two PIN values, right and wrong; two choices. `damage` casts four kinds of ballots
  (`Revotes`) on its longer board.
- `TableMax` 1 to 3: a table that is too small for two votes of a kind in `count`, large
  enough in the others.
- `MaxFaults` 1: every place once. In `shuffle` it is 2, because replacing two ciphertexts
  can exchange them, which a single one cannot.
- `Exponent` `{2}` or `{2, 3}` modulo 5. The group is abstract in the proofs.
- `CAI_POW` 3 for 100. The proof distinguishes sums below and at least `CAI_POW`, and
  indices up to and beyond it; both occur with 3, the candidate numbers go to 4.
- `U32` 8 for 2^32: indices below it, equal to it and above it, and sums below and beyond it,
  for both fields; twice `CAI_POW` fits (`U32Assumption`), as it does in the code.
- Elections of one to three parties with one to five candidates, uniform and not, with and
  without the blank party of `adjust`.
- `NVotes` 3 in `shuffle`, all six permutations.
- `MaxPublished` and the batches of at most two bound the two other logs of the board.
- `delivery`: two clients with two ballots (`MaxCasts`), two requests for each
  (`MaxCopies`), three places on the board (`MaxBallots`). A delayed copy that overtakes a
  newer ballot needs two ballots and two copies of one client; the second client puts a
  ballot in between. Clients, and the secrets that their PINs open, are interchangeable,
  and the configuration declares this symmetry; the only temporal property, `AppendOnly`,
  is a safety property and mentions neither.
- `credentials`: scalars modulo 7, so that 0..6 has room for two secrets, two tellers'
  keys, a voter's key and another voter's, all different; PINs 0 and 1 (`MAX_PIN` 2; the code
  has 10^8). One voter, two builders, two tellers and two ballots: confusing credentials
  needs two of everything the device takes, and the device itself compares nothing with
  other devices. Three contexts: two under one key with the same parameters, and one under
  another key with other parameters. A behaviour damages or redirects one ballot once (the
  guard of `Damage` and `Redirect` in `Next`); the damages are each of the seven parts, and
  each value with its own proof. That r + y
  is zero is left out by `DrawAssumption`.

## Fairness

Only `CountSucceeds` of `count` needs it. `FairSpec` adds `WF_vars(Count)`: the count is one thread that takes its next step as
long as it has one. Nothing is assumed of the clients or of damage. The repository's
callers run the calls of a count one after the other without waiting for anything.

## Proofs

`tlapm` checks the eight proof modules. Every invariant and every safety property of a
passing run is a theorem; only the liveness property is not.

**Assumptions.** All are named and stand in the module that declares the constants.

- `Crypto`, `Pipeline`: the election's context is one of the contexts, PINs belong to
  credentials, raising to a secret exponent is injective, registered credentials are
  distinct, a castable ballot has a fresh encryption, bounds are natural numbers.
- `Credentials`: scalars are a field (`FieldAssumption`), and a typed number determines its
  scalar, that is, PINs are smaller than the order of the group (`PinAssumption`).
- `Enrolment`: keys are not zero and differ between tellers and between voters, and every
  context has the key of some teller, who may have any number of them (`KeyAssumption`); for no draw r + y is zero and no two builders draw the same x
  (`DrawAssumption`: the probability is negligible, and the code does not check either);
  parameters are lists (`ParamsAssumption`).
- `VoteEncoding`, `ShuffleProof`: the inputs have the types of the Rust values, lists of
  `usize` indexed from 0 (`ParameterInputs`, `ChoiceInputs`, `StoredInputs`,
  `ListsAssumption`). The bits, the rows and the numbers of a stored choice are arbitrary
  and need not agree; builds are with or without overflow checks (`BuildInputs`). A mix has lists that `ChoiceParameters::new` accepts.
- `ChoiceEncoding`: `CAI_POW` is positive, and sums of two codes fit `u32`
  (`U32Assumption`). `Delivery`: ballots are told apart by client and
  number (`CastableAssumption`).

The register, the ballots, the length of every list, the permutations of the mixes, the
number of clients, voters, tellers, contexts, parties, candidates, copies and faults are arbitrary.

| Theorem | Says |
|---|---|
| `BoardProofs!BoardTypes`, `ReceiptsArePositions`, `LogsOnlyGrow` | the board's properties, for every sequence of postings |
| `BoardProofs!DeliveryInvariant` | the inductive invariant `DeliveryInv` |
| `BoardProofs!ConfirmationsStand`, `LastCastStaysLast`, `FilterAlwaysKeepsFirst` | `DSpec => []ConfirmationStands`, `[]LastCastIsLast`, `[]FilterKeepsFirst` |
| `PipelineProofs!TypeCorrect` | `Spec => []TypeOK` |
| `PipelineProofs!BoardIsUsed` | `Spec => UsesBoard`: the count implements `BulletinBoard` |
| `PipelineProofs!ReceiptInvariant` | the inductive invariant `ReceiptInv` |
| `PipelineProofs!ReceiptsFollowVotes`, `FilterIsRight` | `Spec => []ReceiptFollowsVote`, `Spec => []ValidAreRightPin`, damage included |
| `RevotingProofs!RevotingInvariant`, `LastBallotsAreChosen` | the inductive invariant `RevotingInv`; `Spec => []ChosenAreLastBallots` |
| `ElectionProofs!ElectionInvariant`, `PublishedTalliesAreRight` | the inductive invariant `ElectionInv`; `Spec => []PublishedTallyIsRight`, damage included |
| `ElectionProofs!CountImplementsElection`, `UndamagedCountIsElection` | `Spec /\ []SuffixVerifies => IsElection`; `Spec => IsElection` if nothing is damaged |
| `ElectionProofs!StopInvariant`, `StopsHaveCauses` | the inductive invariant `StopInv`; `Spec => []StopHasCause` |
| `EncodingProofs!EncodingInvariant`, `EncodingTypes` | the inductive invariant `EncodingInv`; `Spec => []TypeOK` |
| `EncodingProofs!AcceptedIsAlwaysOneVote`, `TallyAlwaysCountsChoices`, `SingleChoiceAlwaysAccepted`, `AuditAlwaysTellsTheVote` | the four properties of choices |
| `ShuffleProofs!ShuffleInvariant`, `AcceptedIsAlwaysMix`, `UniformMixAlwaysAccepted` | the inductive invariant `ShuffleInv`; both properties of mixes |
| `EnrolmentProofs!PinOpensX` | a masked PIN opens to the signed x exactly for the right number |
| `EnrolmentProofs!CheckIsExact`, `ClaimIsExact` | the credential check and the claim of the PIN check single out one x and one key |
| `EnrolmentProofs!EnrolmentInvariant` | the inductive invariant `EnrolmentInv` |
| `EnrolmentProofs!RightPinCountsAlways`, `PinCheckAlwaysExact` | `Spec => []RightPinCounts`, `Spec => []PinCheckIsExact`, damage included |
| `EnrolmentProofs!EnrolmentTypes`, `RegisterAlwaysIssued` | `Spec => []TypeOK`, `Spec => []RegisterIsIssued` |
| `EnrolmentProofs!BallotsAlwaysVerifyAsCast` | `Spec => []BallotsVerifyAsCast`, for every list of parties |

**The argument for receipts.** `ReceiptFollowsVote` relates the filtered list to the board, five lists
back; by itself it is not inductive, since nothing in it says what the originals are when
`mix_votes` permutes them. `ReceiptInv` describes each list by the one before it:

1. on the board a receipt is a position (`Board!ReceiptIsPosition`), and so in the
   snapshot (`SnapshotInv`);
2. `originals` are the votes of the first `i` ballots with these receipts
   (`OriginalsInv`);
3. each mixed record is a re-encryption of the ballot its receipt names, no two share a
   receipt, and all receipts are there (`MixedInv`). The last part needs that an injection
   of `1..n` into itself is onto (`PermOnto`, from the library's facts on finite sets);
4. after `i` iterations of `filter_invalid` the receipts kept are those of the first `i`
   records whose check *was said to* decrypt to the identity (`ValidInv`);
5. `verify_acc_checks` accepts only decryptions that are right (`AcceptedCheck`), which
   turns 4 into `ValidAreRightPin`. Damage is harmless because it can only happen before
   the loop (when `valid` is empty) and is found after it.

Lemmas such as `LaterSteps`, `MixSteps` and `FilterSteps` say once which actions
can disturb a list; each preservation lemma then has one step per such action.

**The argument for revoting.** The rule sees neither credentials nor the board. It compares
decrypted fingerprints and receipts. `RevotingInv` adds to `ReceiptInv`:

1. from the call that makes them on, the fingerprints come from the mixed register, and
   after the public checks their decryptions on the register's side are right
   (`FingerprintInv`);
2. the loop over the votes' decryptions has verified the first `i`, in the end as many as
   there are registered credentials (`VerifiedInv`), and no more: the rest is
   `SuffixVerifies`, the hypothesis `ChosenAreLastBallots` shares with the finding
   `unverified_suffix`;
3. after `i` iterations the rule remembers, for every authorised fingerprint among the
   first `i`, the vote with the largest receipt (`BestInv`).

Blinding being injective, equal fingerprints are equal credentials, an authorised one is
a registered one, and the largest receipt is the last position on the board.

**The argument for the election.** `ElectionInv` adds that after `n` summands the tally
counts the first `n` chosen ballots (`TallyInv`), that the snapshot is a prefix of the
growing board (`PrefixInv`) and that its ballots were verified (`AdmittedInv`).
`verify_decrypted_tally` accepts only right counts, so that a published tally is the
abstract outcome. The refinement follows step by step: a posted ballot is `Promise!Next`'s
cast, reading the snapshot closes the election, accepting the tally announces it, and all
else stutters. Its hypothesis `[]SuffixVerifies` is the exception of
`PublishedTallyIsRight`; it always holds when nothing is damaged, which is
`UndamagedCountIsElection`.

**The argument for stops.** `StopHasCause` needs to know that no check fails on what the
call before has made. `HandedOverInv` says so for every pair of calls: shuffles and
fingerprints pass their checks always, decryptions and controls unless there was damage.
It also shows that the `assert!`s of `filter_illicit` about lengths never fire in this
order of calls.

**The argument for choices.** The loops over parties and candidates are sums over sets in
the model. `SumProofs` unfolds them, element by element. That a sum of zeros and ones is one
means that exactly one cell is one (`SumIsOne`); with the codes, whose sums are compared
modulo `CAI_POW`, this singles out the candidate of the index field. `EncodingInv` follows
one choice from the client (`VoterInv`, stored choices included) and the tally cell by
cell (`TallyInv`). A sum that wraps never
verifies, since what is left of it is below the code; any other ties the cells to the
remainder of the index modulo 2^32 (`CodeProvesIndex`), which `TallyCountsChoices` counts by. That the audit is right rests on (a + c) mod m determining c for a
known a.

**The argument for mixes.** Each column has a proof of its own, and all of them speak of one
permutation. `ShuffleInv` says where the prover has pushed every response (`ProverInv`) and
which columns the verifier has gone through (`VerifierInv`). The number of responses in the
rows before party `i` is the sum of their lengths (`RowsCount`); the verifier's index
`i * ln2[i] + j` is that number exactly for equal rows, which is the hypothesis of
`UniformMixIsAccepted`.

**The argument for credentials.** `CheckIsExact` is field arithmetic: with A = (g1 + g3·x) / (r + y),
the check Ar − g1 − g3·x' + A·y' has the g1-coordinate (r + y') / (r + y) − 1, which is zero
exactly for y' = y, and then the g3-coordinate x − x', which is zero exactly for the PIN that
opens x (`PinOpensX`). Which builder a device holds is the part of `EnrolmentInv`:

1. the k-th builder is what `Issued` makes of the k-th draw (`IssuedStep`);
2. a device holds the signature and the masked PIN of the builder that `origin` names, and
   its proof is the one that `origin`'s kind says (`DeviceInvStep`). This is where
   `ToBuilder` must drop the proof;
3. every authentication part on its way is the one made for some cast, whatever other parts
   it travels with (`BallotInvStep`): damage exchanges parts whole;
4. a verdict is the check of the ballot it is about (`VerdictInvStep`).

`RegisterIsIssued` holds because signatures on different x differ (`HandleDetermines`); it
needs that the k-th builder was made with the k-th draw (`HistoryInv`).

**The argument for transcripts.** Two halves, joined by `MadeInv`: every field of a ballot but
the context hash is that of some cast.

1. *What was cast verifies* (`HonestVerifies`). The three loops over the parties, of the
   prover, of the replay and of the final check, name every leaf once and in the same order,
   for lists of every length (`ChoiceLeaves`, by induction over the parties); the lists of a
   proof are those it was made for (`RowsOfProof`); the device has a witness for every
   leaf whatever PIN was typed, because A is not the identity and the blinding is not zero
   (`DeviceHasWitness`).
2. *What verifies was cast as it is* (`VerifiedIsOne`). Three leaves state the choice, the
   codes and the authentication values, which ties each proof to its part. What ties the
   parts to each other is a challenge of the last protocol: its transcript has the public
   key as third element, the parameters as fifth and the commitment of the first leaf of
   the choice as ninth (`Starts`), which later elements leave in their places. The key
   determines the teller, not the context.

**The argument for delivery.** `LastCastIsLast` is not inductive: the board may have the
last ballot while a request for an older one is under way. `DeliveryInv` adds that nothing
travels or is on the board that was not cast, a client's ballots being numbered
(`Numbered`), so that the ballot cast next is on the board nowhere; and that all that is
under way for an orderly client is its last ballot (`OnlyLastUnderWay`). Confirmations
stand because receipts are positions (`BoardInv`) and the log only grows. The duplicate
filter is a recursive function on positions; after `n` of them it has kept the positions
that are the first of their fingerprint.

**Induction over data.** The induction theorems of the library take the claim as an operator
and cannot be used with the installed provers. The proofs here use a set instead: the
numbers, or the subsets, for which the claim holds. `NumberInduction` and `SubsetInduction`
(`SumProofs`) say that such a set is everything if it is closed, from the well-foundedness
of the natural numbers. This is why loops are written as recursive functions or sums over
sets.

**Only model-checked**: `CountSucceeds`, which is liveness under fairness and out of the
prover's reach. The six findings are counterexamples and have nothing to
prove. TLC has also checked the inductive invariants of every proof module on the instance of its
run (those of the count on `Count.cfg` and `Damage.cfg`), except for the conjuncts
`IsSeq(...)` of `BallotInv`, which quantify over all sets.

## What the code does against its documentation

Each of these is a run that TLC ends with a counterexample.

1. `abstention`: the loop in `filter_illicit` (`core/keys.rs:338`) runs over the decryptions
   of the votes' fingerprints to the length of the register. With fewer valid votes than
   registered voters, a count panics.
2. `unverified_suffix`: with more valid votes than registered voters, the same loop stops
   short and the revoting rule reads decryptions nobody verified.
3. `malformed`: one ballot that does not verify ends the count (`bb.rs:331`);
   `README.md:108` says it is set aside.
4. `no_preference`: a choice without candidates is accepted by `Choice::new` and panics when
   it is cast, because the guard at `core/vote/choice.rs:657` tests another list.
5. `honest_mix`: `core/tally.rs:254` reads the response of party `i`, candidate `j` at
   `i * ln2[i] + j`. That is the right position only if all parties have the same number
   of candidates; otherwise an honest mix is rejected or the verifier panics.
6. `context_binding`: `api/client.rs:50-51` says that the hash in a ballot binds it to one
   election context, and `bb.rs:21-24` that all proofs are bound to it. `Ballot::verify`
   compares the hash (`api/client.rs:80`), and no proof of the ballot absorbs it. Of two
   contexts that differ in the manifest only, a ballot cast for one verifies for the other
   with the other's hash. Contexts with different keys or parameters are told apart, which
   is `BallotsVerifyAsCast`.

Two things that are not findings but that a caller should know: `Choice::new` takes several
candidates although the proof of the ballot allows one, so that `SingleChoiceIsAccepted` is
an equivalence; and the PIN has `MAX_PIN` = 10^8 values (`core/vote/auth.rs`), where
`README.md` speaks of six digits.

## Hazards

`PROJECT.json` lists them with the line where each bites and the properties that would
catch it.

## Not modelled

- **Transport**: the library has none. `Delivery` models what networks do, and no
  particular protocol for confirming or repeating.
- **Transcripts of the tally's proofs** (`core/tally.rs`): each is one protocol with one
  challenge; the proofs are represented by their statements. The order in which a mix is
  proved and verified column by column is in `ShuffleProof`.
- **`set_mask`, `get_partial_mask`, `VerVote::commit`** and the other operations that nothing
  calls; `set_mask` takes its receiver by value and drops what it sets.
- **The free order of the pipeline's calls**: they take each other's results as arguments, and
  an artefact of another list is in `Damage...`; the order itself is the callers'.
- **Voter key sharing, passphrases, emoji hashes**: thin wrappers and formatting.
- **dlog_group, dlog_sigma_primitives, merlin**: external; `Crypto` states what is used.
- **Electoral roll, ballot box, threshold trustees, persistence**: in the protocol
  (`README.md:162-172`), not in the code.

## Plan

The modules above are complete for what they model. What could come next, most important
first:

1. The composition of `Delivery` and `Pipeline`: that a voter whose last ballot was
   confirmed, with no older request under way, is counted with it. `LastCastIsLast` and
   `ChosenAreLastBallots` are its two halves.
2. That `RightPinCounts` is what `Crypto!CredentialCheck` assumes, and `AcceptedIsMix` what
   `VoteMixVerifies` assumes, as theorems that relate the modules.
3. The mix of the credentials with its own proof in `ShuffleProof`.
