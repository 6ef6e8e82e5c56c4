---------------------------- MODULE BulletinBoard ----------------------------
(***************************************************************************)
(* InMemoryBB, the in-memory bulletin board: a counter of sequence numbers *)
(* and three logs that only grow. The board verifies nothing: post_ballot  *)
(* stores whatever it is given and always returns Ok.                      *)
(***************************************************************************)
EXTENDS Naturals, SequencesExt

CONSTANTS
  Castable,      \* the ballots a client may post
  Controls,      \* control proofs the registration teller may publish
  VerifiedVotes, \* verified votes a caching layer may publish
  MaxBallots,    \* bound: ballots posted in a behaviour
  MaxPublished   \* bound: length of each of the other two logs

VARIABLES next_seq_no, ballots, controls, verified_votes

vars == <<next_seq_no, ballots, controls, verified_votes>>

BallotRecord == [receipt : Nat, ballot : Castable]

TypeOK ==
  /\ next_seq_no \in Nat
  /\ ballots \in Seq(BallotRecord)
  /\ controls \in Seq(Controls)
  /\ verified_votes \in Seq(VerifiedVotes)

Init ==
  /\ next_seq_no = 0
  /\ ballots = <<>>
  /\ controls = <<>>
  /\ verified_votes = <<>>

\* Mutated form of the next definition: the counter is read after it moved.
next_receipt_Moved == next_seq_no + 1

\* The wall-clock part of a receipt (received_at_unix_ms) is audit metadata
\* no code reads; a receipt is its sequence number.
next_receipt == next_seq_no

\* Mutated form of the next definition: the newest ballot goes first.
post_ballot_First(b) ==
  /\ Len(ballots) < MaxBallots
  /\ next_seq_no' = next_seq_no + 1
  /\ ballots' = <<[receipt |-> next_receipt, ballot |-> b]>> \o ballots
  /\ UNCHANGED <<controls, verified_votes>>

post_ballot(b) ==
  /\ Len(ballots) < MaxBallots
  /\ next_seq_no' = next_seq_no + 1
  /\ ballots' = Append(ballots, [receipt |-> next_receipt, ballot |-> b])
  /\ UNCHANGED <<controls, verified_votes>>

\* Mutated form of the next definition: the log is replaced by the batch.
post_controls_Replaces(batch) ==
  /\ Len(batch) <= MaxPublished
  /\ controls' = batch
  /\ UNCHANGED <<next_seq_no, ballots, verified_votes>>

\* RT and the caching layer publish a batch: the log is extended by it.
post_controls(batch) ==
  /\ Len(controls) + Len(batch) <= MaxPublished
  /\ controls' = controls \o batch
  /\ UNCHANGED <<next_seq_no, ballots, verified_votes>>

\* Mutated form of the next definition: the batch becomes one entry.
post_verified_votes_Nested(batch) ==
  /\ Len(verified_votes) < MaxPublished
  /\ verified_votes' = Append(verified_votes, batch)
  /\ UNCHANGED <<next_seq_no, ballots, controls>>

post_verified_votes(batch) ==
  /\ Len(verified_votes) + Len(batch) <= MaxPublished
  /\ verified_votes' = verified_votes \o batch
  /\ UNCHANGED <<next_seq_no, ballots, controls>>

\* Batches of at most two elements, including the empty one.
Batch(S) == {<<>>} \cup {<<x>> : x \in S} \cup {<<x, y>> : x, y \in S}

Next ==
  \/ \E b \in Castable : post_ballot(b)
  \/ \E batch \in Batch(Controls) : post_controls(batch)
  \/ \E batch \in Batch(VerifiedVotes) : post_verified_votes(batch)

Spec == Init /\ [][Next]_vars
-----------------------------------------------------------------------------
\* The sequence number in a receipt is the position of the ballot on the
\* board, counted from 0: the order of the receipts, which decides between
\* the ballots of a voter, is the order in which the board took the ballots.
ReceiptIsPosition ==
  /\ next_seq_no = Len(ballots)
  /\ \A k \in DOMAIN ballots : ballots[k].receipt = k - 1

\* Whatever was posted stays where it is: each of the three logs is a prefix
\* of what it is after any step.
AppendOnly ==
  [][/\ IsPrefix(ballots, ballots')
     /\ IsPrefix(controls, controls')
     /\ IsPrefix(verified_votes, verified_votes')]_vars
=============================================================================
