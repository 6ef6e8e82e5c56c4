------------------------------ MODULE Enrolment ------------------------------
(***************************************************************************)
(* From the registration teller to the credential check of a count: a      *)
(* teller issues builders and publishes their handles, a voter's device    *)
(* builds itself with one of them, takes a credential back or simulates    *)
(* one, casts ballots with the PIN that is typed, and the ballots are      *)
(* verified and checked.                                                   *)
(*                                                                         *)
(* A teller makes as many election contexts out of its key as there are    *)
(* manifests: RTKey is a teller's, and TellerOf says whose key a context   *)
(* has. The library compares none of what a device is given:               *)
(* VoterBuilder::new takes any builder and VoterBuilder::finalize any      *)
(* credential.                                                             *)
(***************************************************************************)
EXTENDS BallotProof

CONSTANTS
  Teller,
  RTKey,      \* the secret key of a registration teller
  Election,   \* the election contexts, each with a hash of its own
  TellerOf,   \* the teller whose key is in the context
  Params,     \* the election's parties and candidates
  Voter,
  VoterKey,   \* the key pair of the voter's device
  OtherKeys,  \* other keys a teller may be asked to finalize for
  Draws,      \* what the k-th builder is made with: x, mask and r
  Blinding,   \* the scalars s that ballots are blinded with
  ChoiceValue,
  Damages,    \* the parts of a ballot that may be exchanged
  MaxBallots  \* bound: ballots cast

ASSUME KeyAssumption ==
  /\ RTKey \in [Teller -> Scalar \ {Zero}]
  /\ \A t, u \in Teller : RTKey[t] = RTKey[u] => t = u
  /\ TellerOf \in [Election -> Teller]
  /\ VoterKey \in [Voter -> Scalar \ {Zero}]
  /\ \A v, w \in Voter : VoterKey[v] = VoterKey[w] => v = w
  /\ OtherKeys \subseteq Scalar

\* The random draws of a builder; that r + y is zero, or that two builders
\* draw the same x, has negligible probability.
ASSUME DrawAssumption ==
  /\ \A k \in DOMAIN Draws :
       /\ Draws[k].pin \in PIN /\ Draws[k].r \in Scalar
       /\ \A t \in Teller : Plus(Draws[k].r, RTKey[t]) # Zero
  /\ \A j, k \in DOMAIN Draws : Draws[j].pin.x = Draws[k].pin.x => j = k
  /\ Blinding \subseteq Scalar \ {Zero}

ASSUME ParamsAssumption == \A e \in Election : IsList(Params[e])

\* The key of the registration teller in a context.
KeyOf(e) == RTKey[TellerOf[e]]

VARIABLES
  issued,    \* the builders the tellers made, in order
  device,    \* the state of a voter's device
  origin,    \* where its credential came from
  ballots,   \* the ballots cast, in order
  casts,     \* what they were cast with
  verdict    \* what the count says about each of them

vars == <<issued, device, origin, ballots, casts, verdict>>

NoDevice == [kind |-> "none"]

Init ==
  /\ issued = <<>>
  /\ device = [v \in Voter |-> NoDevice]
  /\ origin = [v \in Voter |-> NoDevice]
  /\ ballots = <<>>
  /\ casts = <<>>
  /\ verdict = <<>>
-----------------------------------------------------------------------------
(* Registration teller                                                     *)

\* The k-th builder, made by teller t: the builder and the PIN for the voter,
\* the PublicACC for the register.
Issued(k, t) ==
  LET b == Builder(RTKey[t], Draws[k].pin, Draws[k].r) IN
    [rt      |-> t,
     builder |-> b,
     pin     |-> PinValue(Draws[k].pin.mask),
     acc     |-> PublicACC(b.sign, Encrypt(b.sign.A, k), Encrypt(Message(Draws[k].pin.x), k))]

\* RegistrationTeller::gen_builder
GenBuilder(t) ==
  LET k == Len(issued) + 1 IN
    /\ k \in DOMAIN Draws
    /\ issued' = Append(issued, Issued(k, t))
    /\ UNCHANGED <<device, origin, ballots, casts, verdict>>

\* A handle with its point from i, its ciphertext of the point from j, its
\* proof from k and the rest from l, as RegistrationTeller::short_public_acc
\* may see it. It reads and returns only.
PublishedACC(i, j, k, l) ==
  [sign  |-> [A |-> issued[i].acc.sign.A, r |-> issued[l].acc.sign.r],
   enc_A |-> issued[j].acc.enc_A,
   enc_r |-> issued[l].acc.enc_r,
   proof |-> issued[k].acc.proof]
-----------------------------------------------------------------------------
(* The voter's device                                                      *)

NewVoterBuilder(v, e, i) ==
  /\ device[v].kind = "none"
  /\ device' = [device EXCEPT ![v] =
       [kind |-> "builder", election |-> e, builder |-> issued[i].builder]]
  /\ origin' = [origin EXCEPT ![v] = [kind |-> "builder", acc |-> i]]
  /\ UNCHANGED <<issued, ballots, casts, verdict>>

\* RegistrationTeller::gen_credential followed by VoterBuilder::finalize: any
\* teller finalizes any builder, and a device takes any credential.
FinalizeVoter(v, t, i, key) ==
  /\ device[v].kind = "builder"
  /\ Finalizable(key)
  /\ device' = [device EXCEPT ![v] =
       [kind |-> "voter", election |-> device[v].election,
        credential |-> Finalize(issued[i].builder, RTKey[t], key)]]
  /\ origin' = [origin EXCEPT ![v] =
       [kind |-> "finalized", acc |-> i, rt |-> t, key |-> key]]
  /\ UNCHANGED <<issued, ballots, casts, verdict>>

\* VoterBuilder::simulate
SimulateVoter(v, n) ==
  /\ device[v].kind = "builder"
  /\ device' = [device EXCEPT ![v] =
       [kind |-> "voter", election |-> device[v].election,
        credential |-> Simulate(device[v].builder,
                                RegistrationPk(KeyOf(device[v].election)), n, VoterKey[v])]]
  /\ origin' = [origin EXCEPT ![v] =
       [kind |-> "simulated", acc |-> origin[v].acc, pin |-> n]]
  /\ UNCHANGED <<issued, ballots, casts, verdict>>

\* Voter::to_builder
VoterToBuilder(v) ==
  /\ device[v].kind = "voter"
  /\ device' = [device EXCEPT ![v] =
       [kind |-> "builder", election |-> device[v].election,
        builder |-> ToBuilder(device[v].credential)]]
  /\ origin' = [origin EXCEPT ![v] = [kind |-> "builder", acc |-> origin[v].acc]]
  /\ UNCHANGED <<issued, ballots, casts, verdict>>

\* Voter::verify_pin: reads the device and changes nothing.
PinVerifies(v, n) ==
  VerifyPin(device[v].credential, RegistrationPk(KeyOf(device[v].election)), n, VoterKey[v])
-----------------------------------------------------------------------------
(* Ballots                                                                 *)

\* What the proof of a ballot is about, for the count of election e: the key
\* and the parameters of the context, not its manifest or its hash.
Public(e, b) ==
  [pk |-> RegistrationPk(KeyOf(e)), params |-> Params[e],
   choice |-> b.choice, cai |-> b.cai, auth |-> b.auth]

\* VerVote::new. Each of the three proofs is represented by what the ballot's
\* proof was made from.
VerVote(e, credential, n, c, s, id) ==
  LET values == [choice |-> <<c, id>>, cai |-> id,
                 auth   |-> EncrAuthValues(credential, n, s, id)]
      made == [public |-> Public(e, values), wit |-> AuthWitness(credential, n, s), id |-> id]
  IN [election_ctx |-> e, choice |-> values.choice, cai |-> values.cai, auth |-> values.auth,
      choice_proof |-> made, cai_proof |-> made, auth_proof |-> made]

ProofPart(made, part) == Prove(made.public, made.wit, made.id)[part]

\* Voter::vote, with any PIN.
Vote(v, n, c, s) ==
  LET id == Len(ballots) + 1
      b == VerVote(device[v].election, device[v].credential, n, c, s, id) IN
    /\ device[v].kind = "voter"
    /\ verdict = <<>>
    /\ id <= MaxBallots
    /\ ballots' = Append(ballots, b)
    /\ casts' = Append(casts, [acc |-> origin[v].acc, pin |-> n, choice |-> c, s |-> s,
                               election |-> device[v].election])
    /\ UNCHANGED <<issued, device, origin, verdict>>

\* The ballots that the parts of ballot b were made for.
CastsOf(b) ==
  {b.choice[2], b.cai, b.auth.A_enc.id, b.choice_proof.id, b.cai_proof.id, b.auth_proof.id}

Undamaged(k) ==
  CastsOf(ballots[k]) = {k} /\ ballots[k].election_ctx = casts[k].election

\* On its way, parts of a ballot are exchanged for those of another one.
Damage(k, l, parts) ==
  /\ verdict = <<>>
  /\ ballots' = [ballots EXCEPT ![k] =
       [f \in DOMAIN ballots[k] |-> IF f \in parts THEN ballots[l][f] ELSE ballots[k][f]]]
  /\ UNCHANGED <<issued, device, origin, casts, verdict>>

\* A ballot arrives with the hash of another context.
Redirect(k, e) ==
  /\ verdict = <<>>
  /\ ballots' = [ballots EXCEPT ![k].election_ctx = e]
  /\ UNCHANGED <<issued, device, origin, casts, verdict>>

\* Ballot::verify and VerVote::verify.
BallotVerifies(e, b) ==
  /\ b.election_ctx = e
  /\ ProofVerifies(Public(e, b), [choice |-> ProofPart(b.choice_proof, "choice"),
                                  cai    |-> ProofPart(b.cai_proof, "cai"),
                                  auth   |-> ProofPart(b.auth_proof, "auth")])

\* VerVote::to_vote, the mix, and the credential check of election e.
CheckPasses(e, b, k) ==
  CredentialCheck(ReEncryptAuth(ToShort(b.auth), k), KeyOf(e)) = Identity

\* The count of election e looks at every ballot on its own.
Count(e) ==
  /\ verdict = <<>>
  /\ ballots # <<>>
  /\ verdict' = [k \in DOMAIN ballots |->
       [election |-> e,
        verifies |-> BallotVerifies(e, ballots[k]),
        counts   |-> CheckPasses(e, ballots[k], k)]]
  /\ UNCHANGED <<issued, device, origin, ballots, casts>>

Next ==
  \/ \E t \in Teller : GenBuilder(t)
  \/ \E e \in Election : Count(e)
  \/ \E v \in Voter :
       \/ \E e \in Election, i \in DOMAIN issued : NewVoterBuilder(v, e, i)
       \/ \E t \in Teller, i \in DOMAIN issued, key \in {VoterKey[v]} \cup OtherKeys :
            FinalizeVoter(v, t, i, key)
       \/ \E n \in UserPin : SimulateVoter(v, n)
       \/ VoterToBuilder(v)
       \/ \E n \in UserPin, c \in ChoiceValue, s \in Blinding : Vote(v, n, c, s)
  \/ /\ \A m \in DOMAIN ballots : Undamaged(m)
     /\ \E k \in DOMAIN ballots :
          \/ \E l \in DOMAIN ballots, parts \in Damages : Damage(k, l, parts)
          \/ \E e \in Election : Redirect(k, e)

Spec == Init /\ [][Next]_vars
-----------------------------------------------------------------------------
BuilderRecord == [sign : [A : Point, r : Scalar], masked_pin : MaskedPIN]

DvProofs ==
  [statement : [A : Point, p1a : Point, reg : Point, dv_pk : Scalar],
   witness   : [log : BOOLEAN, key : Scalar]]

CredentialRecord == [sign : [A : Point, r : Scalar], masked_pin : MaskedPIN, dvnizkp : DvProofs]

\* Every device is empty, holds a builder, or holds a credential with its
\* proof; a credential that became a builder again has left its proof.
TypeOK ==
  /\ \A i \in DOMAIN issued : issued[i].builder \in BuilderRecord /\ issued[i].pin \in UserPin
  /\ \A v \in Voter :
       \/ device[v] = NoDevice
       \/ device[v] \in [kind : {"builder"}, election : Election, builder : BuilderRecord]
       \/ device[v] \in [kind : {"voter"}, election : Election, credential : CredentialRecord]
  /\ DOMAIN casts = DOMAIN ballots
  /\ verdict = <<>> \/ DOMAIN verdict = DOMAIN ballots

\* The PINs that Voter::verify_pin accepts: for a finalized credential the PIN
\* of the builder it was made from, if builder and credential were made by the
\* teller in the device's context and for the device's key, and no PIN
\* otherwise; for a simulated one the PIN it was simulated with. Whatever the device held
\* before, and although finalize checks nothing.
PinCheckIsExact ==
  \A v \in Voter : device[v].kind = "voter" => \A n \in UserPin :
    PinVerifies(v, n) <=>
      \/ /\ origin[v].kind = "finalized"
         /\ origin[v].rt = TellerOf[device[v].election]
         /\ issued[origin[v].acc].rt = TellerOf[device[v].election]
         /\ origin[v].key = VoterKey[v]
         /\ n = issued[origin[v].acc].pin
      \/ origin[v].kind = "simulated" /\ n = origin[v].pin

\* A count finds valid exactly the ballots that name its context and whose
\* parts were all made for one ballot, cast with the key and the parameters of
\* the context. A wrong PIN, a simulated credential or one of another teller
\* do not show; a part that was exchanged for the part of another ballot
\* does, the proofs of the parts included. The hash of the context is compared
\* but not proved about: see BoundToContext.
BallotsVerifyAsCast ==
  \A k \in DOMAIN verdict :
    verdict[k].verifies <=>
      \E c \in DOMAIN casts :
        LET made == casts[c].election
            counted == verdict[k].election IN
          /\ CastsOf(ballots[k]) = {c}
          /\ ballots[k].election_ctx = counted
          /\ TellerOf[made] = TellerOf[counted] /\ Params[made] = Params[counted]

\* The credential check of the count passes for exactly the ballots cast with
\* the PIN that the teller in its context issued the credential with, whether
\* the device finalized or simulated, and whoever it was finalized for.
\* Crypto!CredentialCheck states this of Pipeline's votes.
RightPinCounts ==
  \A k \in DOMAIN verdict :
    LET cast == casts[ballots[k].auth.A_enc.id]
        acc == issued[cast.acc] IN
      verdict[k].counts <=> acc.rt = TellerOf[verdict[k].election] /\ cast.pin = acc.pin

\* short_public_acc takes every handle a teller made, and no handle whose
\* point, ciphertext and proof come from different ones: what the register of
\* a count encrypts, which is the ciphertext only, are credentials that were
\* issued. The scalar of the signature and the second ciphertext (enc_r) of
\* the handle are not looked at and may be those of another one.
RegisterIsIssued ==
  \A i, j, k, l \in DOMAIN issued :
    PublicACCVerifies(PublishedACC(i, j, k, l)) <=> i = j /\ j = k
-----------------------------------------------------------------------------
(* Statements of the source that the code contradicts.                     *)

\* Ballot documents election_ctx as "a 32 byte hash that binds the ballot to a
\* specific `ElectionContext`": a ballot that verifies for a context was cast
\* for it.
BoundToContext ==
  \A k \in DOMAIN verdict : verdict[k].verifies =>
    \A c \in CastsOf(ballots[k]) : casts[c].election = verdict[k].election
=============================================================================
