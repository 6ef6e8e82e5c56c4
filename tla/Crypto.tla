------------------------------- MODULE Crypto -------------------------------
(***************************************************************************)
(* The values that flow through the count, with the cryptography reduced   *)
(* to what the count can observe of it.                                    *)
(*                                                                         *)
(* A ciphertext is a record [pt, id]: the plaintext a decryption yields    *)
(* and a handle that tells two ciphertexts with the same plaintext apart.  *)
(* A zero-knowledge proof is represented by the statement it was made for, *)
(* and it verifies exactly for that statement.                             *)
(***************************************************************************)
EXTENDS Naturals, Sequences

CONSTANTS
  Context,      \* hashes of the election contexts ballots are bound to
  ContextHash,  \* the hash of the election being counted
  Credential,   \* accumulators A that the registration teller issued
  Pin,          \* PIN values a voter may type
  PinOf,        \* the PIN the credential was issued for
  Choice,       \* encodings of a vote
  Exponent,     \* the secret exponents a fingerprint may be made with
  Point,        \* group elements
  Blind(_, _)   \* Blind(z, A): the point A raised to the exponent z

ASSUME ContextAssumption == ContextHash \in Context

ASSUME PinAssumption == PinOf \in [Credential -> Pin]

\* Exponentiation by a non-zero scalar is injective in a prime order group.
ASSUME BlindAssumption ==
  \A z \in Exponent : \A a, b \in Credential :
    /\ Blind(z, a) \in Point
    /\ Blind(z, a) = Blind(z, b) => a = b
-----------------------------------------------------------------------------
(* Votes and ballots. The fields A, pin and choice of a vote are what its  *)
(* ciphertexts encrypt; enc identifies the encryption (0 for the ballot as *)
(* it was cast, the position in the list for a re-encrypted vote).         *)

Vote == [A : Credential, pin : Pin, choice : Choice, enc : Nat]

Ballot == [election_ctx : Context, proofs_ok : BOOLEAN, ver_vote : Vote]

\* Ballot::verify: the context binding first, then the proofs of the vote.
BallotVerifies(b) ==
  /\ b.election_ctx = ContextHash
  /\ b.proofs_ok

\* Vote::re_encrypt: fresh randomness, same plaintexts.
ReEncrypt(v, k) == [v EXCEPT !.enc = k]

\* Two votes that encrypt the same credential, PIN and choice.
SamePlaintext(v, w) == v.A = w.A /\ v.pin = w.pin /\ v.choice = w.choice

\* Vote::strip: only the encrypted public credential and the choice survive.
Strip(v) == [A_enc |-> v.A, choice |-> v.choice]

VoteWithEncPubCred == [A_enc : Credential, choice : Choice]
-----------------------------------------------------------------------------
(* Credential control proofs and the credential check.                     *)

Control == [for : Vote]

ControlVerifies(control, v) == control.for = v

Identity == "identity"
CheckPlaintext == {Identity, "other"}

\* The check ciphertext Ar - g1 - g3x + Ay of a vote: it encrypts the
\* identity exactly when the PIN in the ballot is the one A was issued for.
CredentialCheck(v) ==
  [pt |-> IF v.pin = PinOf[v.A] THEN Identity ELSE "other", id |-> v]

CheckCiphertext == [pt : CheckPlaintext, id : Vote]
-----------------------------------------------------------------------------
(* Verifiable decryption: the ciphertext, the claimed plaintext, and a     *)
(* proof that verifies only for the plaintext the ciphertext holds.        *)

Decrypt(ct) == [ciphertext |-> ct, plaintext |-> ct.pt]

DecOkVerifies(d) == d.plaintext = d.ciphertext.pt

AccCheck == [ciphertext : CheckCiphertext, plaintext : CheckPlaintext]
-----------------------------------------------------------------------------
(* Fingerprints: every element of the lists raised to one secret exponent. *)

Fingerprint(z, A, k) == [pt |-> Blind(z, A), id |-> k]

FpCiphertext == [pt : Point, id : Nat]

FpDecryption == [ciphertext : FpCiphertext, plaintext : Point]
=============================================================================
