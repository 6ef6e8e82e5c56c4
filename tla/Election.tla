------------------------------ MODULE Election ------------------------------
(***************************************************************************)
(* What an election promises its voters, with no cryptography and no       *)
(* servers: ballots are cast one after the other, at some point the        *)
(* ballots cast so far are the ones that will be counted, and the outcome  *)
(* counts, for every registered credential, the last ballot cast with the  *)
(* right PIN.                                                              *)
(***************************************************************************)
EXTENDS Crypto, FiniteSets

CONSTANTS
  Castable,  \* the ballots that may be cast
  Register   \* the credentials whose votes count

VARIABLES
  cast,     \* the ballots, in the order they were cast
  closed,   \* how many of them are counted; 0 while the election is open
  outcome   \* the published outcome: no element or one

vars == <<cast, closed, outcome>>

RightPin(b) == b.ver_vote.pin = PinOf[b.ver_vote.A]

\* Positions of the ballots that count among the ballots s.
Counted(s) ==
  {k \in DOMAIN s :
     /\ RightPin(s[k])
     /\ s[k].ver_vote.A \in Register
     /\ \A l \in DOMAIN s :
          l > k /\ RightPin(s[l]) => s[l].ver_vote.A # s[k].ver_vote.A}

Outcome(s) ==
  [c \in Choice |-> Cardinality({k \in Counted(s) : s[k].ver_vote.choice = c})]
-----------------------------------------------------------------------------
Init == cast = <<>> /\ closed = 0 /\ outcome = {}

Cast(b) ==
  /\ cast' = Append(cast, b)
  /\ UNCHANGED <<closed, outcome>>

Close ==
  /\ closed = 0
  /\ cast # <<>>
  /\ closed' = Len(cast)
  /\ UNCHANGED <<cast, outcome>>

\* The outcome is published once, of the ballots cast before the closing,
\* all of which verify.
Announce ==
  /\ closed > 0
  /\ outcome = {}
  /\ \A k \in 1..closed : BallotVerifies(cast[k])
  /\ outcome' = {Outcome(SubSeq(cast, 1, closed))}
  /\ UNCHANGED <<cast, closed>>

Next == (\E b \in Castable : Cast(b)) \/ Close \/ Announce

Spec == Init /\ [][Next]_vars
=============================================================================
