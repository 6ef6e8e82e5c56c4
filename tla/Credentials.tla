----------------------------- MODULE Credentials -----------------------------
(***************************************************************************)
(* The arithmetic of a credential: the PIN that masks the secret value x,  *)
(* the registration teller's signature A on x, the designated-verifier     *)
(* proof that tells a voter which PIN is the right one, and the values     *)
(* that authenticate a ballot.                                             *)
(*                                                                         *)
(* The generators g1, g3 and o are independent: a point is the record of   *)
(* its coordinates. g2 appears in voter keys only, which are represented   *)
(* by their exponents. A ciphertext is its plaintext point and a handle.   *)
(***************************************************************************)
EXTENDS Naturals

CONSTANTS
  Scalar, Zero, One,                          \* the scalars of the group
  Plus(_, _), Neg(_), Times(_, _), Inv(_),
  UserPin,      \* the numbers a user may type as a PIN
  FromPin(_),   \* such a number as a scalar
  HighBytes(_), \* the number in the last 8 bytes of a scalar
  MAX_PIN

ASSUME FieldAssumption ==
  /\ Zero \in Scalar /\ One \in Scalar /\ Zero # One
  /\ \A a \in Scalar :
       /\ Neg(a) \in Scalar /\ Inv(a) \in Scalar
       /\ Plus(a, Zero) = a /\ Plus(a, Neg(a)) = Zero
       /\ Times(a, One) = a /\ Times(a, Zero) = Zero
       /\ a # Zero => Times(a, Inv(a)) = One
  /\ \A a, b \in Scalar :
       /\ Plus(a, b) \in Scalar /\ Times(a, b) \in Scalar
       /\ Plus(a, b) = Plus(b, a) /\ Times(a, b) = Times(b, a)
  /\ \A a, b, c \in Scalar :
       /\ Plus(a, Plus(b, c)) = Plus(Plus(a, b), c)
       /\ Times(a, Times(b, c)) = Times(Times(a, b), c)
       /\ Times(a, Plus(b, c)) = Plus(Times(a, b), Times(a, c))

\* A typed number is far below the order of the group.
ASSUME PinAssumption ==
  /\ MAX_PIN \in Nat \ {0}
  /\ 0..(MAX_PIN - 1) \subseteq UserPin
  /\ \A n \in UserPin : FromPin(n) \in Scalar
  /\ \A m, n \in UserPin : FromPin(m) = FromPin(n) => m = n
  /\ \A a \in Scalar : HighBytes(a) \in Nat

Minus(a, b) == Plus(a, Neg(b))
-----------------------------------------------------------------------------
(* Points                                                                  *)

Point == [g1 : Scalar, g3 : Scalar, o : Scalar]

Identity == [g1 |-> Zero, g3 |-> Zero, o |-> Zero]
G1 == [Identity EXCEPT !.g1 = One]
G3 == [Identity EXCEPT !.g3 = One]
O  == [Identity EXCEPT !.o = One]

Add(P, Q) ==
  [g1 |-> Plus(P.g1, Q.g1), g3 |-> Plus(P.g3, Q.g3), o |-> Plus(P.o, Q.o)]

Mul(P, s) == [g1 |-> Times(P.g1, s), g3 |-> Times(P.g3, s), o |-> Times(P.o, s)]

Sub(P, Q) == Add(P, Mul(Q, Neg(One)))
-----------------------------------------------------------------------------
(* PINs                                                                    *)

PIN == [x : Scalar, mask : Scalar]

\* PIN::get_pin_value
PinValue(mask) == HighBytes(mask) % MAX_PIN

\* PIN::to_masked: what the voter's device stores.
ToMasked(pin) ==
  [masked_x     |-> Plus(pin.x, pin.mask),
   partial_mask |-> Minus(pin.mask, FromPin(PinValue(pin.mask)))]

MaskedPIN == [masked_x : Scalar, partial_mask : Scalar]

\* MaskedPIN::to_pin: any number gives a PIN, the right one the original.
ToPin(masked, n) ==
  LET mask == Plus(masked.partial_mask, FromPin(n))
  IN [x |-> Minus(masked.masked_x, mask), mask |-> mask]

\* VotingCredential::get_x, of a builder or a credential.
GetX(credential, n) == ToPin(credential.masked_pin, n).x
-----------------------------------------------------------------------------
(* Signatures of the registration teller with key y                        *)

Message(x) == Add(G1, Mul(G3, x))

RTSignature(y, x, r) == [A |-> Mul(Message(x), Inv(Plus(r, y))), r |-> r]

RegistrationPk(y) == Mul(G3, y)

\* VotingCredentialBuilder::new of a PrivateACC.
Builder(y, pin, r) ==
  [sign |-> RTSignature(y, pin.x, r), masked_pin |-> ToMasked(pin)]

Encrypt(P, id) == [pt |-> P, id |-> id]

\* What the proof of a PublicACC is about: enc_A minus A encrypts nothing.
ZeroStatement(enc_A, A) == Encrypt(Sub(enc_A.pt, A), enc_A.id)

\* PublicACC::from_private
PublicACC(sign, enc_A, enc_r) ==
  [sign |-> sign, enc_A |-> enc_A, enc_r |-> enc_r, proof |-> ZeroStatement(enc_A, sign.A)]

\* Mutated form of the next definition: the proof is taken at its word.
PublicACCVerifies_Own(acc) == acc.proof.pt = Identity

\* PublicACC::verify: the proof is checked for the point and the ciphertext
\* published with it. It reads neither enc_r nor the r of the signature.
PublicACCVerifies(acc) ==
  /\ acc.proof = ZeroStatement(acc.enc_A, acc.sign.A)
  /\ acc.proof.pt = Identity
-----------------------------------------------------------------------------
(* Designated-verifier proofs: log_A(p1a) = log_g3(reg), or the prover     *)
(* knows the voter's key. The proof verifies for the statement it was made *)
(* for, if the prover had one of the two witnesses.                        *)

DvStatement(A, p1a, reg, dv_pk) == [A |-> A, p1a |-> p1a, reg |-> reg, dv_pk |-> dv_pk]

DvProve(statement, witness) == [statement |-> statement, witness |-> witness]

DvWitnessOk(proof) ==
  LET st == proof.statement
      w == proof.witness IN
    \/ w.log /\ st.p1a = Mul(st.A, w.key) /\ st.reg = Mul(G3, w.key)
    \/ ~w.log /\ st.dv_pk = w.key

DvVerifies(proof, statement) == proof.statement = statement /\ DvWitnessOk(proof)

\* The point that equals A * y for the teller's y and the right x.
Claimed(credential, n) ==
  Sub(Message(GetX(credential, n)), Mul(credential.sign.A, credential.sign.r))

WithProof(builder, proof) ==
  [sign |-> builder.sign, masked_pin |-> builder.masked_pin, dvnizkp |-> proof]

\* VotingCredentialBuilder::finalize fails for a voter whose key is not set.
Finalizable(dv_pk) == dv_pk # Zero

\* Mutated form of the next definition: the proof is not bound to the voter.
Finalize_AnyVoter(builder, y, dv_pk) ==
  WithProof(builder,
    DvProve(DvStatement(builder.sign.A, Mul(builder.sign.A, y), RegistrationPk(y), One),
            [log |-> TRUE, key |-> y]))

Finalize(builder, y, dv_pk) ==
  WithProof(builder,
    DvProve(DvStatement(builder.sign.A, Mul(builder.sign.A, y), RegistrationPk(y), dv_pk),
            [log |-> TRUE, key |-> y]))

\* VotingCredentialBuilder::simulate: the voter makes the proof for a PIN of
\* their own.
Simulate(builder, reg, n, dv_sk) ==
  WithProof(builder,
    DvProve(DvStatement(builder.sign.A, Claimed(builder, n), reg, dv_sk),
            [log |-> FALSE, key |-> dv_sk]))

\* VotingCredential::verify_pin
VerifyPin(credential, reg, n, dv_pk) ==
  DvVerifies(credential.dvnizkp,
             DvStatement(credential.sign.A, Claimed(credential, n), reg, dv_pk))

\* Mutated form of the next definition: the proof stays.
ToBuilder_WithProof(credential) == credential

\* VotingCredential::to_builder
ToBuilder(credential) == [sign |-> credential.sign, masked_pin |-> credential.masked_pin]
-----------------------------------------------------------------------------
(* Authentication values of a ballot                                       *)

\* ExtendedEncrAuthValues::new
EncrAuthValues(credential, n, s, id) ==
  [B       |-> Mul(credential.sign.A, s),
   A_enc   |-> Encrypt(credential.sign.A, id),
   Ar_enc  |-> Encrypt(Mul(credential.sign.A, credential.sign.r), id),
   g3x_enc |-> Encrypt(Mul(G3, GetX(credential, n)), id),
   ox_enc  |-> Encrypt(Mul(O, GetX(credential, n)), id)]

\* ProofAuthValuesWitness::new
AuthWitness(credential, n, s) ==
  [A_pt  |-> Inv(s),
   Ar_pt |-> Times(credential.sign.r, Inv(s)),
   x     |-> GetX(credential, n)]

\* EncrAuthValues::to_short drops the values only the ballot's proof needs.
ToShort(auth) ==
  [A_enc |-> auth.A_enc, Ar_enc |-> auth.Ar_enc, g3x_enc |-> auth.g3x_enc]

\* ShortEncrAuthValues::re_encrypt adds encryptions of the identity.
ReEncryptAuth(auth, id) ==
  [A_enc   |-> Encrypt(Add(Identity, auth.A_enc.pt), id),
   Ar_enc  |-> Encrypt(Add(Identity, auth.Ar_enc.pt), id),
   g3x_enc |-> Encrypt(Add(Identity, auth.g3x_enc.pt), id)]

\* Mutated form of the next definition: g1 is not subtracted.
CredentialCheck_NoG1(auth, y) ==
  Add(Sub(auth.Ar_enc.pt, auth.g3x_enc.pt), Mul(auth.A_enc.pt, y))

\* ElectionPublicKey::gen_credential_check, with the Ay of the control proof:
\* the point inside Ar - g1 - g3x + Ay.
CredentialCheck(auth, y) ==
  Add(Sub(Sub(auth.Ar_enc.pt, G1), auth.g3x_enc.pt), Mul(auth.A_enc.pt, y))
=============================================================================
