------------------------------- MODULE Delivery -------------------------------
(***************************************************************************)
(* The bulletin board behind a network. Voting devices send the ballots    *)
(* that Voter::vote returns; a request or an answer may be delayed, lost   *)
(* or overtaken, and a device that has no answer may send the same ballot  *)
(* again. The board keeps no record of what it has seen: every copy it     *)
(* takes is a ballot of its own with a receipt of its own.                 *)
(*                                                                         *)
(* The transport is not part of the library ("This trait intentionally     *)
(* avoids transport concerns"); it is modelled as an environment that may  *)
(* do all of this. Ballots that opened the same secret value x have the    *)
(* same fingerprint, by which filter_duplicates tells them apart.          *)
(***************************************************************************)
EXTENDS BulletinBoard, FiniteSets

CONSTANTS
  Client,
  Secret,   \* the values x that PINs open
  MaxCasts, \* bound: ballots that a client casts
  MaxCopies \* bound: requests that a client sends for one ballot

ASSUME CastableAssumption ==
  /\ MaxCasts \in Nat
  /\ Castable = [client : Client, nr : 1..MaxCasts, x : Secret]

VARIABLES
  cast,      \* the ballots of each client, in the order they were cast
  sent,      \* how many requests it has sent for the last of them
  orderly,   \* no request for an older one was under way when it was cast
  requests,  \* requests under way
  answers    \* the records the board returned

clientVars == <<cast, sent, orderly, requests, answers>>

boardVars == vars

DInit ==
  /\ Init
  /\ cast = [c \in Client |-> <<>>]
  /\ sent = [c \in Client |-> 0]
  /\ orderly = [c \in Client |-> TRUE]
  /\ requests = {} /\ answers = {}
-----------------------------------------------------------------------------
(* Clients                                                                 *)

RequestsOf(c) == {q \in requests : q.ballot.client = c}

\* A voter votes, whether or not the last ballot was confirmed.
Vote(c, x) ==
  LET b == [client |-> c, nr |-> Len(cast[c]) + 1, x |-> x] IN
    /\ Len(cast[c]) < MaxCasts
    /\ cast' = [cast EXCEPT ![c] = Append(@, b)]
    /\ sent' = [sent EXCEPT ![c] = 1]
    /\ orderly' = [orderly EXCEPT ![c] = RequestsOf(c) = {}]
    /\ requests' = requests \cup {[ballot |-> b, copy |-> 1]}
    /\ UNCHANGED <<answers, boardVars>>

\* A device that has no answer sends its last ballot once more: none was sent
\* so far, or it is late, or it was lost.
Resend(c) ==
  /\ cast[c] # <<>>
  /\ sent[c] < MaxCopies
  /\ sent' = [sent EXCEPT ![c] = @ + 1]
  /\ requests' = requests \cup {[ballot |-> Last(cast[c]), copy |-> sent[c] + 1]}
  /\ UNCHANGED <<cast, orderly, answers, boardVars>>

\* The network loses a request. (A lost answer changes nothing but what the
\* device may do next, and it may send again in any case.)
Lose(q) ==
  /\ requests' = requests \ {q}
  /\ UNCHANGED <<cast, sent, orderly, answers, boardVars>>
-----------------------------------------------------------------------------
(* The board                                                               *)

\* Mutated form of the next definition: the record handed back is the one
\* the next ballot will get.
Take_LateReceipt(q) ==
  /\ post_ballot(q.ballot)
  /\ requests' = requests \ {q}
  /\ answers' = answers \cup {[receipt |-> next_receipt + 1, ballot |-> q.ballot]}
  /\ UNCHANGED <<cast, sent, orderly>>

\* A request reaches the board: the ballot is stored and the stored record is
\* returned.
Take(q) ==
  /\ post_ballot(q.ballot)
  /\ requests' = requests \ {q}
  /\ answers' = answers \cup {[receipt |-> next_receipt, ballot |-> q.ballot]}
  /\ UNCHANGED <<cast, sent, orderly>>

\* The other two logs are written by the tellers.
Publish ==
  /\ \/ \E batch \in Batch(Controls) : post_controls(batch)
     \/ \E batch \in Batch(VerifiedVotes) : post_verified_votes(batch)
  /\ UNCHANGED clientVars

DNext ==
  \/ \E c \in Client : (\E x \in Secret : Vote(c, x)) \/ Resend(c)
  \/ \E q \in requests : Take(q) \/ Lose(q)
  \/ Publish

DSpec == DInit /\ [][DNext]_<<boardVars, clientVars>>
-----------------------------------------------------------------------------
(* Ballots of one credential                                               *)

\* ElectionPublicKey::gen_ballot_fingerprints: one list of ciphertexts, all
\* raised to the same exponent; equal plaintexts for equal x.
gen_ballot_fingerprints(wf_ord) ==
  <<[k \in DOMAIN wf_ord |-> [x |-> wf_ord[k].x, at |-> k]]>>

Decrypted(fp) == [ciphertext |-> fp, plaintext |-> fp.x]

FingerprintsVerify(fp_list, wf_ord) ==
  \A k \in DOMAIN wf_ord : fp_list[k].x = wf_ord[k].x

\* Mutated form of the next definition: a later ballot replaces an earlier one.
Unused_KeepsLast(wf_ord, dec) ==
  SelectSeq([k \in DOMAIN wf_ord |-> k],
            LAMBDA k : \A l \in DOMAIN dec : l > k => dec[l].plaintext # dec[k].plaintext)

\* The indices whose fingerprint is not in the set of used ones.
Unused(wf_ord, dec) ==
  LET filtered[n \in 0..Len(wf_ord)] ==
        IF n = 0 THEN <<>>
        ELSE LET before == filtered[n - 1] IN
               IF \E l \in ToSet(before) : dec[l].plaintext = dec[n].plaintext
               THEN before ELSE Append(before, n)
  IN filtered[Len(wf_ord)]

Error == "InvalidSize"

\* ElectionPublicKey::filter_duplicates
filter_duplicates(wf_ord, fp_lists, dec) ==
  IF \/ Len(fp_lists) # 1
     \/ Len(fp_lists[1]) # Len(wf_ord)
     \/ Len(dec) # Len(wf_ord)
     \/ \E k \in DOMAIN dec : fp_lists[1][k] # dec[k].ciphertext
     \/ ~FingerprintsVerify(fp_lists[1], wf_ord)
     \/ \E k \in DOMAIN dec : dec[k].plaintext # dec[k].ciphertext.x
  THEN Error
  ELSE LET kept == Unused(wf_ord, dec) IN [k \in DOMAIN kept |-> wf_ord[kept[k]]]
-----------------------------------------------------------------------------
\* A client that got a record back finds exactly this record on the board at
\* the position that the receipt names, whenever the answer arrives and
\* however many ballots and copies the board took before and after.
ConfirmationStands ==
  \A r \in answers :
    /\ r.receipt + 1 \in DOMAIN ballots
    /\ ballots[r.receipt + 1] = r

\* "Only the last ballot cast will count": as soon as the board has the last
\* ballot a client cast, no older one comes after it, if no request for an
\* older one was under way when it was cast. Nothing else is needed, neither
\* that the older ones were confirmed nor that copies were not sent; without
\* it a delayed copy of an older ballot may be last.
LastCastIsLast ==
  \A c \in Client : orderly[c] /\ cast[c] # <<>> =>
    \A k, l \in DOMAIN ballots :
      /\ k < l
      /\ ballots[k].ballot = Last(cast[c])
      /\ ballots[l].ballot.client = c
      => ballots[l].ballot = Last(cast[c])

\* The positions whose x no earlier one has.
Firsts(s) == {k \in DOMAIN s : \A l \in 1..(k - 1) : s[l].x # s[k].x}

\* The list consists of the ballots of s at these positions, in their order.
IsFirstOfEach(list, s) ==
  \E at \in [1..Len(list) -> DOMAIN s] :
    /\ \A i, j \in 1..Len(list) : i < j => at[i] < at[j]
    /\ {at[i] : i \in 1..Len(list)} = Firsts(s)
    /\ list = [i \in 1..Len(list) |-> s[at[i]]]

\* filter_duplicates leaves for every x the first ballot of the list that
\* opened it, in the order of the list: given the board's order a retry never
\* matters, given the latest ballot first it is the revoting rule. Decryptions
\* in another order or of fewer fingerprints are refused.
FilterKeepsFirst ==
  LET posted == [k \in DOMAIN ballots |-> ballots[k].ballot] IN
    \A wf_ord \in {posted, Reverse(posted)} :
      LET fp_lists == gen_ballot_fingerprints(wf_ord)
          dec == [k \in DOMAIN wf_ord |-> Decrypted(fp_lists[1][k])] IN
        /\ IsFirstOfEach(filter_duplicates(wf_ord, fp_lists, dec), wf_ord)
        /\ \A other \in {Reverse(dec), SubSeq(dec, 2, Len(dec))} :
             other # dec => filter_duplicates(wf_ord, fp_lists, other) = Error
=============================================================================
