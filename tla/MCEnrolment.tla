----------------------------- MODULE MCEnrolment -----------------------------
(* Scalars modulo 7, the PINs 0 and 1, two tellers. The first one has two
   election contexts with the same parameters. *)
EXTENDS Enrolment

Q == 7
MCScalar == 0..(Q - 1)
MCPlus(a, b) == (a + b) % Q
MCNeg(a) == (Q - a) % Q
MCTimes(a, b) == (a * b) % Q
\* The inverse of zero is zero, as the library has it.
MCInv(a) == IF a = 0 THEN 0 ELSE CHOOSE b \in MCScalar : (a * b) % Q = 1
MCFromPin(n) == n
MCHighBytes(a) == a \div 2

Lists2 == [i \in 0..1 |-> i + 1]
Lists1 == [i \in 0..1 |-> 1]

MCRTKey == [t \in {"t1", "t2"} |-> IF t = "t1" THEN 2 ELSE 5]
MCTellerOf == [e \in {"e1", "e2", "e3"} |-> IF e = "e3" THEN "t2" ELSE "t1"]
MCParams == [e \in {"e1", "e2", "e3"} |-> IF e = "e3" THEN Lists1 ELSE Lists2]
MCVoterKey == [v \in {"v1"} |-> 3]
\* PIN 1 with x = 4, then PIN 0 with x = 6.
MCDraws == <<[pin |-> [x |-> 4, mask |-> 3], r |-> 1], [pin |-> [x |-> 6, mask |-> 5], r |-> 3]>>

MCDamages ==
  {{f} : f \in {"election_ctx", "choice", "cai", "auth", "choice_proof", "cai_proof", "auth_proof"}}
  \cup {{"choice", "choice_proof"}, {"cai", "cai_proof"}, {"auth", "auth_proof"}}
=============================================================================
