----------------------------- MODULE MCPipeline -----------------------------
(***************************************************************************)
(* Small elections for TLC. Credentials are exponents modulo 5, so that    *)
(* fingerprints are computed with real modular arithmetic.                 *)
(***************************************************************************)
EXTENDS PipelineProperties

CONSTANTS yes, no

MCCredential == {1, 2, 3}
MCPinOf == [c \in MCCredential |-> "right"]
MCPoint == 1..4
MCBlind(z, A) == (z * A) % 5

CastBallot(c, p, ch) ==
  [election_ctx |-> "this", proofs_ok |-> TRUE,
   ver_vote |-> [A |-> c, pin |-> p, choice |-> ch, enc |-> 0]]

\* Two voters vote with the right PIN for either choice, or with a wrong PIN;
\* a third one holds an issued credential that is not in the register.
Verifiable ==
  {CastBallot(c, "right", ch) : c \in {1, 2}, ch \in {yes, no}} \cup
  {CastBallot(c, "wrong", yes) : c \in {1, 2}} \cup
  {CastBallot(3, "right", yes)}

\* Fewer kinds of ballots, for longer boards.
Revotes ==
  {CastBallot(1, "right", yes), CastBallot(1, "wrong", no),
   CastBallot(2, "right", no), CastBallot(3, "right", yes)}

\* A ballot for another election, and one whose proofs do not verify.
Unverifiable ==
  {[CastBallot(1, "right", no) EXCEPT !.election_ctx = "other"],
   [CastBallot(2, "right", no) EXCEPT !.proofs_ok = FALSE]}

AllBallots == Verifiable \cup Unverifiable

TwoRegistered == <<1, 2>>
=============================================================================
