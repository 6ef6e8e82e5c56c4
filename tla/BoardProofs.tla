----------------------------- MODULE BoardProofs -----------------------------
(***************************************************************************)
(* Theorems about the bulletin board and about what its clients may rely   *)
(* on, for every number of clients, ballots, control proofs and copies.    *)
(***************************************************************************)
EXTENDS Delivery, SumProofs, TLAPS

\* A batch is a sequence.
LEMMA BatchIsSeq ==
  ASSUME NEW S, NEW batch \in Batch(S)
  PROVE  batch \in Seq(S)
<1>1. CASE batch = <<>>
  BY <1>1
<1>2. CASE \E x \in S : batch = <<x>>
  BY <1>2
<1>3. CASE \E x, y \in S : batch = <<x, y>>
  BY <1>3
<1> QED BY <1>1, <1>2, <1>3 DEF Batch

\* Adding a batch to a log keeps its type and its beginning.
LEMMA PrefixOfConcat ==
  ASSUME NEW S, NEW s \in Seq(S), NEW batch \in Seq(S)
  PROVE  s \o batch \in Seq(S) /\ IsPrefix(s, s \o batch)
<1>1. s \o batch \in Seq(S) /\ Len(s \o batch) = Len(s) + Len(batch)
  OBVIOUS
<1>2. \A k \in 1..Len(s) : (s \o batch)[k] = s[k]
  OBVIOUS
<1>3. Len(s) \in Nat /\ Len(batch) \in Nat
  OBVIOUS
<1>4. SubSeq(s, 1, Len(s)) = SubSeq(s \o batch, 1, Len(s))
  BY <1>1, <1>2, <1>3
<1> QED BY <1>1, <1>3, <1>4 DEF IsPrefix

\* Appending an element does, too.
LEMMA PrefixOfAppend ==
  ASSUME NEW S, NEW s \in Seq(S), NEW e \in S
  PROVE  Append(s, e) \in Seq(S) /\ IsPrefix(s, Append(s, e))
<1>1. Append(s, e) \in Seq(S) /\ Len(Append(s, e)) = Len(s) + 1
  OBVIOUS
<1>2. \A k \in 1..Len(s) : Append(s, e)[k] = s[k]
  OBVIOUS
<1>3. Len(s) \in Nat
  OBVIOUS
<1>4. SubSeq(s, 1, Len(s)) = SubSeq(Append(s, e), 1, Len(s))
  BY <1>1, <1>2, <1>3
<1> QED BY <1>1, <1>3, <1>4 DEF IsPrefix

\* A sequence is a prefix of itself.
LEMMA PrefixOfItself ==
  ASSUME NEW S, NEW s \in Seq(S)
  PROVE  IsPrefix(s, s)
  BY DEF IsPrefix

\* The inductive invariant: the types, and receipts are positions.
BoardInv == TypeOK /\ ReceiptIsPosition

\* Every call that posts something extends one log and leaves the others.
LEMMA BoardStep ==
  BoardInv /\ [Next]_vars =>
    /\ BoardInv'
    /\ IsPrefix(ballots, ballots')
    /\ IsPrefix(controls, controls')
    /\ IsPrefix(verified_votes, verified_votes')
<1> SUFFICES ASSUME BoardInv, [Next]_vars
             PROVE  /\ BoardInv'
                    /\ IsPrefix(ballots, ballots')
                    /\ IsPrefix(controls, controls')
                    /\ IsPrefix(verified_votes, verified_votes')
  OBVIOUS
<1>0. /\ next_seq_no \in Nat /\ ballots \in Seq(BallotRecord)
      /\ controls \in Seq(Controls) /\ verified_votes \in Seq(VerifiedVotes)
      /\ ReceiptIsPosition
  BY DEF BoardInv, TypeOK
<1>1. CASE \E b \in Castable : post_ballot(b)
  <2>1. PICK b \in Castable : post_ballot(b)
    BY <1>1
  <2> DEFINE r == [receipt |-> next_seq_no, ballot |-> b]
  <2>2. /\ ballots' = Append(ballots, r) /\ next_seq_no' = next_seq_no + 1
        /\ UNCHANGED <<controls, verified_votes>>
    BY <2>1 DEF post_ballot, next_receipt
  <2>3. r \in BallotRecord /\ r.receipt = Len(ballots)
    BY <1>0 DEF BallotRecord, ReceiptIsPosition
  <2> HIDE DEF r
  <2>4. TypeOK'
    BY <1>0, <2>2, <2>3, PrefixOfAppend DEF TypeOK
  <2>5. ReceiptIsPosition'
    <3>1. /\ Len(ballots') = Len(ballots) + 1 /\ Len(ballots) \in Nat
          /\ \A k \in DOMAIN ballots' :
               \/ k \in DOMAIN ballots /\ ballots'[k] = ballots[k]
               \/ k = Len(ballots) + 1 /\ ballots'[k] = r
      BY <1>0, <2>2
    <3> QED BY <1>0, <2>2, <2>3, <3>1 DEF ReceiptIsPosition
  <2> QED BY <1>0, <2>2, <2>3, <2>4, <2>5, PrefixOfAppend, PrefixOfItself DEF BoardInv
<1>2. CASE \E batch \in Batch(Controls) : post_controls(batch)
  BY <1>0, <1>2, BatchIsSeq, PrefixOfConcat, PrefixOfItself
     DEF post_controls, BoardInv, TypeOK, ReceiptIsPosition
<1>3. CASE \E batch \in Batch(VerifiedVotes) : post_verified_votes(batch)
  BY <1>0, <1>3, BatchIsSeq, PrefixOfConcat, PrefixOfItself
     DEF post_verified_votes, BoardInv, TypeOK, ReceiptIsPosition
<1>4. CASE UNCHANGED vars
  BY <1>0, <1>4, PrefixOfItself DEF vars, BoardInv, TypeOK, ReceiptIsPosition
<1> QED BY <1>1, <1>2, <1>3, <1>4 DEF Next

\* Types and receipts are right in every state of the board.
THEOREM BoardInvariant == Spec => []BoardInv
<1>1. Init => BoardInv
  BY DEF Init, BoardInv, TypeOK, ReceiptIsPosition
<1> QED BY <1>1, BoardStep, PTL DEF Spec

\* Whatever was posted, counter and logs are of their types.
THEOREM BoardTypes == Spec => []TypeOK
<1>1. BoardInv => TypeOK
  BY DEF BoardInv
<1> QED BY BoardInvariant, <1>1, PTL

\* The receipt of a ballot is its position on the board.
THEOREM ReceiptsArePositions == Spec => []ReceiptIsPosition
<1>1. BoardInv => ReceiptIsPosition
  BY DEF BoardInv
<1> QED BY BoardInvariant, <1>1, PTL

\* No step removes, reorders or rewrites what was posted.
THEOREM LogsOnlyGrow == Spec => AppendOnly
<1>1. BoardInv /\ [Next]_vars =>
        [/\ IsPrefix(ballots, ballots')
         /\ IsPrefix(controls, controls')
         /\ IsPrefix(verified_votes, verified_votes')]_vars
  BY BoardStep
<1> QED BY <1>1, BoardInvariant, PTL DEF Spec, AppendOnly
-----------------------------------------------------------------------------
(***************************************************************************)
(* What a client may rely on when requests and answers are delayed, lost,  *)
(* overtaken and repeated, for every number of clients, ballots and copies *)
(* and whatever else is posted in between.                                 *)
(***************************************************************************)

Request == [ballot : Castable, copy : Nat]

DTypes ==
  /\ cast \in [Client -> Seq(Castable)]
  /\ sent \in [Client -> Nat]
  /\ orderly \in [Client -> BOOLEAN]
  /\ requests \subseteq Request

\* A ballot is its client's nr-th; nothing travels that was not cast.
Numbered ==
  /\ \A c \in Client : cast[c] # <<>> => Last(cast[c]).client = c /\ Last(cast[c]).nr = Len(cast[c])
  /\ \A q \in requests : q.ballot.nr <= Len(cast[q.ballot.client])
  /\ \A k \in DOMAIN ballots : ballots[k].ballot.nr <= Len(cast[ballots[k].ballot.client])

\* What is under way for an orderly client is its last ballot.
OnlyLastUnderWay ==
  \A c \in Client : orderly[c] /\ cast[c] # <<>> =>
    \A q \in requests : q.ballot.client = c => q.ballot = Last(cast[c])

DeliveryInv ==
  /\ BoardInv /\ DTypes /\ Numbered
  /\ OnlyLastUnderWay /\ LastCastIsLast /\ ConfirmationStands
-----------------------------------------------------------------------------
LEMMA LastOf ==
  ASSUME NEW S, NEW s \in Seq(S), s # <<>>
  PROVE  Last(s) \in S
  BY DEF Last

LEMMA LastOfAppend ==
  ASSUME NEW S, NEW s \in Seq(S), NEW e \in S
  PROVE  /\ Append(s, e) \in Seq(S) /\ Append(s, e) # <<>>
         /\ Len(Append(s, e)) = Len(s) + 1 /\ Last(Append(s, e)) = e
  BY DEF Last

\* A step of the board under the network is a step of the board.
LEMMA BoardPart ==
  ASSUME DeliveryInv, [DNext]_<<boardVars, clientVars>>
  PROVE  [Next]_vars
<1>1. ASSUME NEW q \in requests, Take(q) PROVE Next
  <2>1. q.ballot \in Castable
    BY DEF DeliveryInv, DTypes, Request
  <2>2. post_ballot(q.ballot)
    BY <1>1 DEF Take
  <2> QED BY <2>1, <2>2 DEF Next
<1>2. CASE Publish
  BY <1>2 DEF Publish, Next
<1>3. ASSUME \/ \E c \in Client : (\E x \in Secret : Vote(c, x)) \/ Resend(c)
             \/ \E q \in requests : Lose(q)
             \/ UNCHANGED <<boardVars, clientVars>>
      PROVE  UNCHANGED vars
  BY <1>3 DEF Vote, Resend, Lose, boardVars
<1> QED BY <1>1, <1>2, <1>3 DEF DNext

LEMMA DInitInv == DInit => DeliveryInv
<1> SUFFICES ASSUME DInit PROVE DeliveryInv
  OBVIOUS
<1>1. BoardInv
  BY DEF DInit, Init, BoardInv, TypeOK, ReceiptIsPosition
<1>2. DTypes
  BY DEF DInit, DTypes
<1>3. DOMAIN ballots = {} /\ requests = {} /\ answers = {} /\ \A c \in Client : cast[c] = <<>>
  BY DEF DInit, Init
<1> QED BY <1>1, <1>2, <1>3
       DEF DeliveryInv, Numbered, OnlyLastUnderWay, LastCastIsLast, ConfirmationStands

\* A new ballot: nothing with its number is on the board yet.
LEMMA VoteKeeps ==
  ASSUME DeliveryInv, NEW c \in Client, NEW x \in Secret, Vote(c, x), BoardInv'
  PROVE  DeliveryInv'
<1> DEFINE b == [client |-> c, nr |-> Len(cast[c]) + 1, x |-> x]
<1>1. /\ cast \in [Client -> Seq(Castable)] /\ sent \in [Client -> Nat]
      /\ orderly \in [Client -> BOOLEAN] /\ requests \subseteq Request
  BY DEF DeliveryInv, DTypes
<1>2. b \in Castable
  <2>1. Len(cast[c]) \in Nat /\ Len(cast[c]) < MaxCasts /\ MaxCasts \in Nat
    BY <1>1, CastableAssumption DEF Vote
  <2> QED BY <2>1, CastableAssumption
<1>3. /\ cast' = [cast EXCEPT ![c] = Append(cast[c], b)]
      /\ sent' = [sent EXCEPT ![c] = 1]
      /\ orderly' = [orderly EXCEPT ![c] = RequestsOf(c) = {}]
      /\ requests' = requests \cup {[ballot |-> b, copy |-> 1]}
      /\ UNCHANGED <<answers, boardVars>>
  BY DEF Vote
<1>4. b.client = c /\ b.nr = Len(cast[c]) + 1
  OBVIOUS
<1> HIDE DEF b
<1>5. /\ cast'[c] \in Seq(Castable) /\ cast'[c] # <<>>
      /\ Len(cast'[c]) = Len(cast[c]) + 1 /\ Last(cast'[c]) = b
      /\ \A d \in Client \ {c} : cast'[d] = cast[d] /\ orderly'[d] = orderly[d]
      /\ \A d \in Client : Len(cast[d]) \in Nat
  BY <1>1, <1>2, <1>3, LastOfAppend
<1>6. DTypes'
  BY <1>1, <1>2, <1>3, <1>5 DEF DTypes, Request
<1>7. \A k \in DOMAIN ballots : /\ ballots[k].ballot.client \in Client
                                /\ ballots[k].ballot.nr \in Nat
  <2>1. ballots \in Seq(BallotRecord)
    BY DEF DeliveryInv, BoardInv, TypeOK
  <2>2. \A k \in DOMAIN ballots : ballots[k] \in BallotRecord
    BY <2>1
  <2>3. \A k \in DOMAIN ballots : ballots[k].ballot \in Castable
    BY <2>2 DEF BallotRecord
  <2>4. \A d \in Castable : d.client \in Client /\ d.nr \in Nat
    BY CastableAssumption
  <2> QED BY <2>3, <2>4
<1>8. \A q \in requests : q.ballot.client \in Client /\ q.ballot.nr \in Nat
  BY <1>1, CastableAssumption DEF Request
<1>9. UNCHANGED <<ballots, answers>>
  BY <1>3 DEF boardVars, vars
<1>10. Numbered'
  <2>1. \A d \in Client : Len(cast[d]) <= Len(cast'[d])
    BY <1>5
  <2>2. \A d \in Client : cast'[d] # <<>> =>
          Last(cast'[d]).client = d /\ Last(cast'[d]).nr = Len(cast'[d])
    BY <1>4, <1>5 DEF DeliveryInv, Numbered
  <2>3. ASSUME NEW q \in requests' PROVE q.ballot.nr <= Len(cast'[q.ballot.client])
    <3>1. CASE q \in requests
      BY <1>5, <1>8, <2>1, <3>1 DEF DeliveryInv, Numbered
    <3>2. CASE q = [ballot |-> b, copy |-> 1]
      BY <1>4, <1>5, <3>2
    <3> QED BY <1>3, <3>1, <3>2
  <2>4. ASSUME NEW k \in DOMAIN ballots
        PROVE  ballots[k].ballot.nr <= Len(cast'[ballots[k].ballot.client])
    BY <1>5, <1>7, <2>1 DEF DeliveryInv, Numbered
  <2> QED BY <1>9, <2>2, <2>3, <2>4 DEF Numbered
<1>11. OnlyLastUnderWay'
  <2>1. ASSUME NEW d \in Client, orderly'[d], cast'[d] # <<>>, NEW q \in requests',
               q.ballot.client = d
        PROVE  q.ballot = Last(cast'[d])
    <3>1. CASE d = c
      <4>1. RequestsOf(c) = {}
        BY <1>1, <1>3, <2>1, <3>1
      <4>2. q = [ballot |-> b, copy |-> 1]
        BY <1>3, <2>1, <3>1, <4>1 DEF RequestsOf
      <4> QED BY <1>5, <3>1, <4>2
    <3>2. CASE d # c
      <4>1. q \in requests
        BY <1>3, <1>4, <2>1, <3>2
      <4> QED BY <1>5, <2>1, <3>2, <4>1 DEF DeliveryInv, OnlyLastUnderWay
    <3> QED BY <3>1, <3>2
  <2> QED BY <2>1 DEF OnlyLastUnderWay
<1>12. LastCastIsLast'
  <2>1. ASSUME NEW d \in Client, orderly'[d], cast'[d] # <<>>,
               NEW k \in DOMAIN ballots, NEW l \in DOMAIN ballots, k < l,
               ballots[k].ballot = Last(cast'[d]), ballots[l].ballot.client = d
        PROVE  ballots[l].ballot = Last(cast'[d])
    <3>1. CASE d = c
      <4>1. ballots[k].ballot.client = c /\ ballots[k].ballot.nr = Len(cast[c]) + 1
        BY <1>4, <1>5, <2>1, <3>1
      <4>2. ballots[k].ballot.nr <= Len(cast[c])
        BY <4>1 DEF DeliveryInv, Numbered
      <4> QED BY <1>5, <4>1, <4>2
    <3>2. CASE d # c
      BY <1>5, <2>1, <3>2 DEF DeliveryInv, LastCastIsLast
    <3> QED BY <3>1, <3>2
  <2> QED BY <1>9, <2>1 DEF LastCastIsLast
<1>13. ConfirmationStands'
  BY <1>9 DEF DeliveryInv, ConfirmationStands
<1> QED BY <1>6, <1>10, <1>11, <1>12, <1>13 DEF DeliveryInv

\* One more copy of the last ballot.
LEMMA ResendKeeps ==
  ASSUME DeliveryInv, NEW c \in Client, Resend(c), BoardInv'
  PROVE  DeliveryInv'
<1> DEFINE b == Last(cast[c])
           q0 == [ballot |-> b, copy |-> sent[c] + 1]
<1>1. /\ cast \in [Client -> Seq(Castable)] /\ sent \in [Client -> Nat]
      /\ orderly \in [Client -> BOOLEAN] /\ requests \subseteq Request
  BY DEF DeliveryInv, DTypes
<1>2. cast[c] # <<>> /\ b \in Castable
  BY <1>1, LastOf DEF Resend
<1>3. b.client = c /\ b.nr = Len(cast[c]) /\ Len(cast[c]) \in Nat
  BY <1>1, <1>2 DEF DeliveryInv, Numbered
<1>4. /\ requests' = requests \cup {q0} /\ sent' = [sent EXCEPT ![c] = sent[c] + 1]
      /\ UNCHANGED <<cast, orderly, answers, ballots>>
  BY DEF Resend, boardVars, vars
<1>5. q0.ballot = b /\ q0 \in Request
  BY <1>1, <1>2 DEF Request
<1> HIDE DEF q0
<1>6. DTypes'
  BY <1>1, <1>4, <1>5 DEF DTypes
<1>7. Numbered'
  <2>1. ASSUME NEW q \in requests' PROVE q.ballot.nr <= Len(cast[q.ballot.client])
    BY <1>3, <1>4, <1>5 DEF DeliveryInv, Numbered
  <2> QED BY <1>4, <2>1 DEF DeliveryInv, Numbered
<1>8. OnlyLastUnderWay'
  <2>1. ASSUME NEW d \in Client, orderly[d], cast[d] # <<>>, NEW q \in requests',
               q.ballot.client = d
        PROVE  q.ballot = Last(cast[d])
    BY <1>3, <1>4, <1>5, <2>1 DEF DeliveryInv, OnlyLastUnderWay
  <2> QED BY <1>4, <2>1 DEF OnlyLastUnderWay
<1>9. LastCastIsLast' /\ ConfirmationStands'
  BY <1>4 DEF DeliveryInv, LastCastIsLast, ConfirmationStands
<1> QED BY <1>6, <1>7, <1>8, <1>9 DEF DeliveryInv

\* The board takes a request and answers it.
LEMMA TakeKeeps ==
  ASSUME DeliveryInv, NEW q \in requests, Take(q), BoardInv'
  PROVE  DeliveryInv'
<1> DEFINE r == [receipt |-> next_receipt, ballot |-> q.ballot]
           n == Len(ballots) + 1
<1>1. /\ ballots' = Append(ballots, r) /\ requests' = requests \ {q} /\ answers' = answers \cup {r}
      /\ UNCHANGED <<cast, sent, orderly>>
  BY DEF Take, post_ballot
<1>2. /\ ballots \in Seq(BallotRecord) /\ ballots' \in Seq(BallotRecord)
      /\ next_seq_no \in Nat /\ next_seq_no = Len(ballots)
  BY DEF DeliveryInv, BoardInv, TypeOK, ReceiptIsPosition
<1>3. r.ballot = q.ballot /\ r.receipt + 1 = n
  BY <1>2 DEF next_receipt
<1>4. r \in BallotRecord
  BY <1>2 DEF next_receipt, DeliveryInv, DTypes, Request, BallotRecord
<1> HIDE DEF r
<1>5. /\ DOMAIN ballots' = DOMAIN ballots \cup {n} /\ ballots'[n] = r
      /\ \A k \in DOMAIN ballots : ballots'[k] = ballots[k] /\ k \in Nat /\ k < n
  BY <1>1, <1>2, <1>4
<1> HIDE DEF n
<1>6. DTypes'
  BY <1>1 DEF DeliveryInv, DTypes
<1>7. Numbered'
  <2>1. \A k \in DOMAIN ballots' :
          ballots'[k].ballot.nr <= Len(cast[ballots'[k].ballot.client])
    BY <1>3, <1>5 DEF DeliveryInv, Numbered
  <2> QED BY <1>1, <2>1 DEF DeliveryInv, Numbered
<1>8. OnlyLastUnderWay'
  BY <1>1 DEF DeliveryInv, OnlyLastUnderWay
<1>9. LastCastIsLast'
  <2>1. ASSUME NEW c \in Client, orderly[c], cast[c] # <<>>,
               NEW k \in DOMAIN ballots', NEW l \in DOMAIN ballots', k < l,
               ballots'[k].ballot = Last(cast[c]), ballots'[l].ballot.client = c
        PROVE  ballots'[l].ballot = Last(cast[c])
    <3>1. CASE l = n
      BY <1>3, <1>5, <2>1, <3>1 DEF DeliveryInv, OnlyLastUnderWay
    <3>2. CASE l \in DOMAIN ballots
      <4>1. k \in DOMAIN ballots
        BY <1>5, <2>1, <3>2, <1>2 DEF n
      <4> QED BY <1>5, <2>1, <3>2, <4>1 DEF DeliveryInv, LastCastIsLast
    <3> QED BY <1>5, <3>1, <3>2
  <2> QED BY <1>1, <2>1 DEF LastCastIsLast
<1>10. ConfirmationStands'
  <2>1. ASSUME NEW a \in answers PROVE a.receipt + 1 \in DOMAIN ballots' /\ ballots'[a.receipt + 1] = a
    BY <1>5 DEF DeliveryInv, ConfirmationStands
  <2> QED BY <1>1, <1>3, <1>5, <2>1 DEF ConfirmationStands
<1> QED BY <1>6, <1>7, <1>8, <1>9, <1>10 DEF DeliveryInv

\* Losing requests and writing the other logs changes nothing that matters.
LEMMA OtherStepsKeep ==
  ASSUME DeliveryInv, BoardInv', requests' \subseteq requests,
         UNCHANGED <<cast, sent, orderly, answers, ballots>>
  PROVE  DeliveryInv'
<1>1. DTypes'
  BY DEF DeliveryInv, DTypes
<1>2. Numbered' /\ OnlyLastUnderWay' /\ LastCastIsLast' /\ ConfirmationStands'
  BY DEF DeliveryInv, Numbered, OnlyLastUnderWay, LastCastIsLast, ConfirmationStands
<1> QED BY <1>1, <1>2 DEF DeliveryInv

\* The inductive invariant of the clients, the network and the board.
THEOREM DeliveryInvariant == DSpec => []DeliveryInv
<1>1. ASSUME DeliveryInv, [DNext]_<<boardVars, clientVars>>
      PROVE  DeliveryInv'
  <2>1. BoardInv'
    <3>1. BoardInv
      BY <1>1 DEF DeliveryInv
    <3>2. [Next]_vars
      BY <1>1, BoardPart
    <3> QED BY <3>1, <3>2, BoardStep
  <2>2. CASE \E c \in Client, x \in Secret : Vote(c, x)
    BY <1>1, <2>1, <2>2, VoteKeeps
  <2>3. CASE \E c \in Client : Resend(c)
    BY <1>1, <2>1, <2>3, ResendKeeps
  <2>4. CASE \E q \in requests : Take(q)
    BY <1>1, <2>1, <2>4, TakeKeeps
  <2>5. CASE \E q \in requests : Lose(q)
    <3>1. requests' \subseteq requests /\ UNCHANGED <<cast, sent, orderly, answers, ballots>>
      BY <2>5 DEF Lose, boardVars, vars
    <3> QED BY <1>1, <2>1, <3>1, OtherStepsKeep
  <2>6. CASE Publish \/ UNCHANGED <<boardVars, clientVars>>
    <3>1. requests' \subseteq requests /\ UNCHANGED <<cast, sent, orderly, answers, ballots>>
      BY <2>6 DEF Publish, post_controls, post_verified_votes, clientVars, boardVars, vars
    <3> QED BY <1>1, <2>1, <3>1, OtherStepsKeep
  <2> QED BY <1>1, <2>2, <2>3, <2>4, <2>5, <2>6 DEF DNext
<1> QED BY <1>1, DInitInv, PTL DEF DSpec

\* The record that post_ballot answered with is on the board, at the position
\* its receipt names, whenever the answer arrives: ConfirmationStands.
THEOREM ConfirmationsStand == DSpec => []ConfirmationStands
<1>1. DeliveryInv => ConfirmationStands
  BY DEF DeliveryInv
<1> QED BY DeliveryInvariant, <1>1, PTL

\* On the board, no older ballot of an orderly client follows its last one,
\* however many copies of either were posted: LastCastIsLast.
THEOREM LastCastStaysLast == DSpec => []LastCastIsLast
<1>1. DeliveryInv => LastCastIsLast
  BY DEF DeliveryInv
<1> QED BY DeliveryInvariant, <1>1, PTL
-----------------------------------------------------------------------------
(***************************************************************************)
(* The duplicate filter, for lists of every length. Its loop is a          *)
(* recursive function; what it has kept after n ballots is the positions   *)
(* among the first n whose fingerprint is new, and these have every        *)
(* fingerprint that occurred so far.                                       *)
(***************************************************************************)

FilterStep(before, dec, n) ==
  IF \E l \in ToSet(before) : dec[l].plaintext = dec[n].plaintext
  THEN before ELSE Append(before, n)

\* The function g is the loop over the first N ballots.
Filters(g, dec, N) ==
  g = [n \in 0..N |-> IF n = 0 THEN <<>> ELSE FilterStep(g[n - 1], dec, n)]

NewAmong(dec, n) ==
  {k \in 1..n : \A l \in 1..(k - 1) : dec[l].plaintext # dec[k].plaintext}

Kept(q, dec, n) ==
  /\ q \in Seq(1..n)
  /\ \A i, j \in 1..Len(q) : i < j => q[i] < q[j]
  /\ ToSet(q) = NewAmong(dec, n)
  /\ \A k \in 1..n : \E l \in ToSet(q) : dec[l].plaintext = dec[k].plaintext

LEMMA FiltersExist ==
  ASSUME NEW dec, NEW N \in Nat
  PROVE  \E g : Filters(g, dec, N)
<1> DEFINE P == {n \in Nat : \E g : Filters(g, dec, n)}
<1>1. 0 \in P
  <2>1. Filters([n \in 0..0 |-> <<>>], dec, 0)
    BY DEF Filters
  <2> QED BY <2>1
<1>2. ASSUME NEW m \in P PROVE m + 1 \in P
  <2>1. PICK g : Filters(g, dec, m)
    OBVIOUS
  <2> DEFINE h == [n \in 0..(m + 1) |-> IF n = 0 THEN <<>> ELSE FilterStep(g[n - 1], dec, n)]
  <2>2. m \in Nat
    OBVIOUS
  <2>3. \A n \in 0..m : h[n] = g[n]
    BY <2>1, <2>2 DEF Filters
  <2>4. \A n \in 1..(m + 1) : n - 1 \in 0..m
    BY <2>2
  <2>5. h = [n \in 0..(m + 1) |-> IF n = 0 THEN <<>> ELSE FilterStep(h[n - 1], dec, n)]
    BY <2>2, <2>3, <2>4
  <2>6. Filters(h, dec, m + 1)
    <3> HIDE DEF h
    <3> QED BY <2>5 DEF Filters
  <2> HIDE DEF h
  <2> QED BY <2>2, <2>6
<1>3. P = Nat
  <2> HIDE DEF P
  <2>1. P \in SUBSET Nat
    BY DEF P
  <2> QED BY <1>1, <1>2, <2>1, NumberInduction
<1> QED BY <1>3

LEMMA UnusedIsFiltered ==
  ASSUME NEW w, NEW dec, Len(w) \in Nat
  PROVE  \E g : Filters(g, dec, Len(w)) /\ Unused(w, dec) = g[Len(w)]
<1>1. Unused(w, dec) = (CHOOSE g : Filters(g, dec, Len(w)))[Len(w)]
  BY DEF Unused, Filters, FilterStep
<1> QED BY <1>1, FiltersExist

LEMMA KeptGrows ==
  ASSUME NEW n \in Nat, NEW q, NEW dec, Kept(q, dec, n)
  PROVE  Kept(FilterStep(q, dec, n + 1), dec, n + 1)
<1>0. /\ Len(q) \in Nat /\ DOMAIN q = 1..Len(q) /\ q \in [1..Len(q) -> 1..n]
      /\ ToSet(q) = {q[i] : i \in 1..Len(q)} /\ ToSet(q) \subseteq 1..n
  <2>1. q \in Seq(1..n)
    BY DEF Kept
  <2>2. Len(q) \in Nat /\ DOMAIN q = 1..Len(q) /\ q \in [1..Len(q) -> 1..n]
    BY <2>1
  <2>3. ToSet(q) = {q[i] : i \in 1..Len(q)}
    BY <2>2 DEF ToSet
  <2> QED BY <2>2, <2>3
<1> DEFINE Same(l, k) == dec[l].plaintext = dec[k].plaintext
<1>1. CASE \E l \in ToSet(q) : Same(l, n + 1)
  <2>1. FilterStep(q, dec, n + 1) = q
    BY <1>1 DEF FilterStep
  <2>2. q \in Seq(1..(n + 1))
    <3>1. q \in [1..Len(q) -> 1..(n + 1)]
      BY <1>0
    <3> QED BY <1>0, <3>1
  <2>3. NewAmong(dec, n + 1) = NewAmong(dec, n)
    <3>1. \A k \in 1..(n + 1) : k \in 1..n \/ k = n + 1
      OBVIOUS
    <3>2. ~ \A l \in 1..((n + 1) - 1) : ~ Same(l, n + 1)
      BY <1>0, <1>1
    <3> QED BY <3>1, <3>2 DEF NewAmong
  <2>4. \A k \in 1..(n + 1) : \E l \in ToSet(q) : Same(l, k)
    <3>1. \A k \in 1..(n + 1) : k \in 1..n \/ k = n + 1
      OBVIOUS
    <3> QED BY <1>1, <3>1 DEF Kept
  <2> QED BY <2>1, <2>2, <2>3, <2>4 DEF Kept
<1>2. CASE ~ \E l \in ToSet(q) : Same(l, n + 1)
  <2> DEFINE r == Append(q, n + 1)
  <2>1. FilterStep(q, dec, n + 1) = r
    BY <1>2 DEF FilterStep
  <2>2. r \in Seq(1..(n + 1)) /\ Len(r) = Len(q) + 1
        /\ (\A i \in 1..Len(q) : r[i] = q[i]) /\ r[Len(q) + 1] = n + 1
    <3>1. q \in [1..Len(q) -> 1..(n + 1)]
      BY <1>0
    <3>2. q \in Seq(1..(n + 1))
      BY <1>0, <3>1
    <3> QED BY <1>0, <3>2
  <2> HIDE DEF r
  <2>3. ToSet(r) = ToSet(q) \cup {n + 1}
    <3>1. \A i \in 1..Len(r) : i \in 1..Len(q) \/ i = Len(q) + 1
      BY <1>0, <2>2
    <3>2. DOMAIN r = 1..Len(r) /\ \A i \in 1..Len(q) : i \in 1..Len(r)
      BY <1>0, <2>2
    <3>3. Len(q) + 1 \in 1..Len(r)
      BY <1>0, <2>2
    <3> QED BY <1>0, <2>2, <3>1, <3>2, <3>3 DEF ToSet
  <2>4. \A i, j \in 1..Len(r) : i < j => r[i] < r[j]
    <3> SUFFICES ASSUME NEW i \in 1..Len(r), NEW j \in 1..Len(r), i < j PROVE r[i] < r[j]
      OBVIOUS
    <3>0. i \in 1..Len(q)
      BY <1>0, <2>2
    <3>1. r[i] = q[i] /\ q[i] \in 1..n
      BY <1>0, <2>2, <3>0
    <3>2. CASE j = Len(q) + 1
      BY <2>2, <3>1, <3>2
    <3>3. CASE j \in 1..Len(q)
      <4>1. q[i] < q[j]
        BY <3>0, <3>3 DEF Kept
      <4> QED BY <2>2, <3>1, <3>3, <4>1
    <3>4. j = Len(q) + 1 \/ j \in 1..Len(q)
      BY <1>0, <2>2
    <3> QED BY <3>2, <3>3, <3>4
  <2>5. NewAmong(dec, n + 1) = NewAmong(dec, n) \cup {n + 1}
    <3>1. \A k \in 1..(n + 1) : k \in 1..n \/ k = n + 1
      OBVIOUS
    <3>2. \A l \in 1..n : ~ Same(l, n + 1)
      BY <1>2 DEF Kept
    <3>3. (n + 1) - 1 = n /\ n + 1 \in 1..(n + 1) /\ 1..n \subseteq 1..(n + 1)
      OBVIOUS
    <3> QED BY <3>1, <3>2, <3>3 DEF NewAmong
  <2>6. \A k \in 1..(n + 1) : \E l \in ToSet(r) : Same(l, k)
    <3>1. \A k \in 1..(n + 1) : k \in 1..n \/ k = n + 1
      OBVIOUS
    <3> QED BY <2>3, <3>1 DEF Kept
  <2>7. ToSet(r) = NewAmong(dec, n + 1)
    BY <2>3, <2>5 DEF Kept
  <2> QED BY <2>1, <2>2, <2>4, <2>6, <2>7 DEF Kept
<1> QED BY <1>1, <1>2

LEMMA UnusedIsKept ==
  ASSUME NEW w, NEW dec, Len(w) \in Nat
  PROVE  Kept(Unused(w, dec), dec, Len(w))
<1>1. PICK g : Filters(g, dec, Len(w)) /\ Unused(w, dec) = g[Len(w)]
  BY UnusedIsFiltered
<1> DEFINE N == Len(w)
           P == {n \in Nat : n <= N => Kept(g[n], dec, n)}
<1>2. N \in Nat /\ Filters(g, dec, N)
  BY <1>1
<1> HIDE DEF N
<1>3. g[0] = <<>> /\ \A n \in Nat : n + 1 <= N => g[n + 1] = FilterStep(g[n], dec, n + 1)
  <2>1. g[0] = <<>>
    BY <1>2 DEF Filters
  <2>2. ASSUME NEW n \in Nat, n + 1 <= N PROVE g[n + 1] = FilterStep(g[n], dec, n + 1)
    <3>1. n + 1 \in 0..N /\ n + 1 # 0 /\ (n + 1) - 1 = n
      BY <1>2, <2>2
    <3> QED BY <1>2, <3>1 DEF Filters
  <2> QED BY <2>1, <2>2
<1>4. 0 \in P
  <2>1. Kept(<<>>, dec, 0)
    BY DEF Kept, ToSet, NewAmong
  <2> QED BY <1>3, <2>1
<1>5. ASSUME NEW n \in P PROVE n + 1 \in P
  <2>1. n \in Nat /\ (n + 1 <= N => n <= N)
    BY <1>2
  <2>2. n + 1 <= N => Kept(g[n], dec, n)
    BY <2>1
  <2> QED BY <1>3, <2>1, <2>2, KeptGrows
<1>6. P = Nat
  <2> HIDE DEF P
  <2>1. P \in SUBSET Nat
    BY DEF P
  <2> QED BY <1>4, <1>5, <2>1, NumberInduction
<1>7. N \in P /\ N <= N
  BY <1>2, <1>6
<1> QED BY <1>1, <1>7 DEF N

\* The decryptions of a list's own fingerprints, in its order.
DecOf(w) == [k \in DOMAIN w |-> Decrypted(gen_ballot_fingerprints(w)[1][k])]

LEMMA FingerprintFacts ==
  ASSUME NEW w, Len(w) \in Nat, DOMAIN w = 1..Len(w)
  PROVE  LET fp == gen_ballot_fingerprints(w) IN
           /\ Len(fp) = 1 /\ Len(fp[1]) = Len(w) /\ Len(DecOf(w)) = Len(w)
           /\ DOMAIN fp[1] = DOMAIN w /\ DOMAIN DecOf(w) = DOMAIN w
           /\ FingerprintsVerify(fp[1], w)
           /\ \A k \in DOMAIN w :
                /\ DecOf(w)[k].plaintext = w[k].x
                /\ DecOf(w)[k].ciphertext = fp[1][k] /\ fp[1][k].x = w[k].x
                /\ DecOf(w)[k] = Decrypted(fp[1][k])
<1> DEFINE list == [k \in DOMAIN w |-> [x |-> w[k].x, at |-> k]]
<1>1. gen_ballot_fingerprints(w) = <<list>>
  BY DEF gen_ballot_fingerprints
<1>2. Len(list) = Len(w) /\ DOMAIN list = DOMAIN w
  OBVIOUS
<1>3. \A k \in DOMAIN w : list[k].x = w[k].x
  OBVIOUS
<1> HIDE DEF list
<1>4. Len(gen_ballot_fingerprints(w)) = 1 /\ gen_ballot_fingerprints(w)[1] = list
  BY <1>1
<1>5. DOMAIN DecOf(w) = DOMAIN w /\ Len(DecOf(w)) = Len(w)
      /\ \A k \in DOMAIN w : DecOf(w)[k] = Decrypted(list[k])
  BY <1>4 DEF DecOf
<1>6. \A k \in DOMAIN w :
        DecOf(w)[k].plaintext = w[k].x /\ DecOf(w)[k].ciphertext = list[k]
  BY <1>3, <1>5 DEF Decrypted
<1>7. FingerprintsVerify(list, w)
  BY <1>3 DEF FingerprintsVerify
<1> QED BY <1>2, <1>3, <1>4, <1>5, <1>6, <1>7

LEMMA KeptIsFirstOfEach ==
  ASSUME NEW w, Len(w) \in Nat, DOMAIN w = 1..Len(w)
  PROVE  IsFirstOfEach(filter_duplicates(w, gen_ballot_fingerprints(w), DecOf(w)), w)
<1> DEFINE kept == Unused(w, DecOf(w))
           list == [k \in DOMAIN kept |-> w[kept[k]]]
<1>1. filter_duplicates(w, gen_ballot_fingerprints(w), DecOf(w)) = list
  BY FingerprintFacts DEF filter_duplicates
<1>2. Kept(kept, DecOf(w), Len(w))
  BY UnusedIsKept
<1> HIDE DEF kept
<1>3. /\ kept \in Seq(1..Len(w)) /\ Len(kept) \in Nat /\ DOMAIN kept = 1..Len(kept)
      /\ \A i, j \in 1..Len(kept) : i < j => kept[i] < kept[j]
      /\ ToSet(kept) = {kept[i] : i \in 1..Len(kept)}
  BY <1>2 DEF Kept, ToSet
<1>4. ToSet(kept) = Firsts(w)
  <2>1. \A k \in 1..Len(w) : DecOf(w)[k].plaintext = w[k].x
    BY FingerprintFacts
  <2>2. \A k \in 1..Len(w) : 1..(k - 1) \subseteq 1..Len(w)
    OBVIOUS
  <2>3. NewAmong(DecOf(w), Len(w)) = Firsts(w)
    BY <2>1, <2>2 DEF NewAmong, Firsts
  <2> QED BY <1>2, <2>3 DEF Kept
<1>5. Len(list) = Len(kept) /\ list = [i \in 1..Len(list) |-> w[kept[i]]]
  BY <1>3
<1>6. kept \in [1..Len(list) -> DOMAIN w]
  BY <1>3, <1>5
<1> HIDE DEF list
<1> QED BY <1>1, <1>3, <1>4, <1>5, <1>6 DEF IsFirstOfEach

LEMMA OtherDecryptionsRefused ==
  ASSUME NEW w, Len(w) \in Nat, DOMAIN w = 1..Len(w),
         NEW other \in {Reverse(DecOf(w)), SubSeq(DecOf(w), 2, Len(DecOf(w)))}, other # DecOf(w)
  PROVE  filter_duplicates(w, gen_ballot_fingerprints(w), other) = Error
<1> DEFINE dec == DecOf(w)
           fp == gen_ballot_fingerprints(w)
<1>1. /\ Len(dec) = Len(w) /\ DOMAIN dec = 1..Len(w)
      /\ \A k \in 1..Len(w) : dec[k].ciphertext = fp[1][k] /\ dec[k] = Decrypted(fp[1][k])
  BY FingerprintFacts
<1> HIDE DEF dec, fp
<1>2. CASE Len(other) # Len(w)
  BY <1>2 DEF filter_duplicates, fp
<1>3. CASE Len(other) = Len(w)
  <2>1. other = Reverse(dec)
    <3>1. CASE other = SubSeq(dec, 2, Len(dec)) /\ Len(w) = 0
      <4>1. other = [i \in 1..0 |-> dec[2 + i - 1]] /\ dec = [i \in 1..0 |-> dec[i]]
        BY <1>1, <3>1
      <4> QED BY <4>1 DEF dec
    <3>2. CASE other = SubSeq(dec, 2, Len(dec)) /\ Len(w) # 0
      <4>1. Len(other) = Len(w) - 1
        BY <1>1, <3>2
      <4> QED BY <1>3, <4>1
    <3> QED BY <3>1, <3>2 DEF dec
  <2>2. other = [i \in 1..Len(w) |-> dec[(Len(w) - i) + 1]]
    BY <1>1, <2>1 DEF Reverse
  <2>3. PICK k \in 1..Len(w) : other[k] # dec[k]
    <3>1. dec = [i \in 1..Len(w) |-> dec[i]]
      BY <1>1 DEF dec, DecOf
    <3>2. CASE \A k \in 1..Len(w) : other[k] = dec[k]
      BY <2>2, <3>1, <3>2 DEF dec
    <3> QED BY <3>2
  <2>4. (Len(w) - k) + 1 \in 1..Len(w)
    OBVIOUS
  <2>5. \E j \in 1..Len(w) : other[k] = dec[j]
    BY <2>2, <2>4
  <2>6. fp[1][k] # other[k].ciphertext
    BY <1>1, <2>3, <2>5
  <2>7. k \in DOMAIN other
    BY <2>2
  <2> QED BY <2>6, <2>7 DEF filter_duplicates, fp
<1> QED BY <1>2, <1>3

LEMMA FilterFromTypes == TypeOK => FilterKeepsFirst
<1> SUFFICES ASSUME TypeOK PROVE FilterKeepsFirst
  OBVIOUS
<1> DEFINE posted == [k \in DOMAIN ballots |-> ballots[k].ballot]
<1>1. Len(ballots) \in Nat /\ DOMAIN ballots = 1..Len(ballots)
  BY DEF TypeOK
<1>2. Len(posted) = Len(ballots) /\ DOMAIN posted = 1..Len(ballots)
  BY <1>1
<1> HIDE DEF posted
<1>3. Len(Reverse(posted)) = Len(ballots) /\ DOMAIN Reverse(posted) = 1..Len(ballots)
  BY <1>1, <1>2 DEF Reverse
<1>4. ASSUME NEW w \in {posted, Reverse(posted)}
      PROVE  /\ IsFirstOfEach(filter_duplicates(w, gen_ballot_fingerprints(w), DecOf(w)), w)
             /\ \A other \in {Reverse(DecOf(w)), SubSeq(DecOf(w), 2, Len(DecOf(w)))} :
                  other # DecOf(w) =>
                    filter_duplicates(w, gen_ballot_fingerprints(w), other) = Error
  <2>1. Len(w) \in Nat /\ DOMAIN w = 1..Len(w)
    BY <1>1, <1>2, <1>3
  <2> QED BY <2>1, KeptIsFirstOfEach, OtherDecryptionsRefused
<1> QED BY <1>4 DEF FilterKeepsFirst, DecOf, posted

\* ElectionPublicKey::filter_duplicates keeps the first ballot of every
\* fingerprint, in the board's order and in the reverse, and refuses the
\* decryptions of another list: FilterKeepsFirst.
THEOREM FilterAlwaysKeepsFirst == DSpec => []FilterKeepsFirst
<1>1. DeliveryInv => FilterKeepsFirst
  BY FilterFromTypes DEF DeliveryInv, BoardInv
<1> QED BY <1>1, DeliveryInvariant, PTL
==============================================================================
