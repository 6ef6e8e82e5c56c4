----------------------------- MODULE BallotProof -----------------------------
(***************************************************************************)
(* The proof of a ballot is one sigma protocol made of three, each made of *)
(* basic ones: the leaves. Nothing is exchanged: the challenge of a leaf   *)
(* is drawn from a transcript of everything absorbed so far, so prover and *)
(* verifier, which run different functions, must absorb the same values in *)
(* the same order. A challenge is represented by the transcript it is      *)
(* drawn from.                                                             *)
(***************************************************************************)
EXTENDS Credentials, ChoiceParameters, SequencesExt

\* Every function of the composed protocol takes its parts in this order.
Parts == {"choice", "cai", "auth"}

Label(part) == <<"sub", part>>

\* A loop over the parties of lists with these lengths, its body a sequence.
OverParties(ln2, body(_)) ==
  LET leaves[n \in 0..Cardinality(DOMAIN ln2)] ==
        IF n = 0 THEN <<<<"one_l1">>>> ELSE leaves[n - 1] \o body(n - 1)
  IN leaves[Cardinality(DOMAIN ln2)]

CandidateLeaves(i, n) == [j \in 1..n |-> <<"l2_01", i, j - 1>>]

\* ProofEncrChoiceProtocol, prover (init, commit, complete): the sum over all
\* parties; then for every party the cells of its candidates, its own cell,
\* and the comparison of the two.
ChoiceProved(ln2) ==
  OverParties(ln2, LAMBDA i :
    CandidateLeaves(i, ln2[i]) \o <<<<"l1_01", i>>, <<"l1_eq_sum_l2", i>>>>)

\* Mutated form of the next definition: a party's own cell comes first.
ChoiceReplayed_PartyFirst(rows) ==
  OverParties(rows, LAMBDA i :
    <<<<"l1_01", i>>>> \o CandidateLeaves(i, rows[i]) \o <<<<"l1_eq_sum_l2", i>>>>)

\* Its update_transcript goes by the lists of the proof.
ChoiceReplayed(rows) ==
  OverParties(rows, LAMBDA i :
    CandidateLeaves(i, rows[i]) \o <<<<"l1_01", i>>, <<"l1_eq_sum_l2", i>>>>)

\* Its verify_relation goes by the parameters of the election.
ChoiceRelations(ln2) ==
  OverParties(ln2, LAMBDA i :
    CandidateLeaves(i, ln2[i]) \o <<<<"l1_01", i>>, <<"l1_eq_sum_l2", i>>>>)

\* The other two protocols have the same order in all of their functions.
CAILeaves == <<<<"l1_codesum">>, <<"l2_codesum">>>>

AuthLeaves == <<<<"A_pt">>, <<"Ar_pt">>, <<"A_notid">>, <<"g3x_ox">>>>

WithChoice(choice_leaves) ==
  [choice |-> choice_leaves, cai |-> CAILeaves, auth |-> AuthLeaves]
-----------------------------------------------------------------------------
(* What the leaves state. The relations on the cells are the subject of    *)
(* ChoiceEncoding; here they hold for the ballot they were proved for.     *)

Statement(public, leaf) ==
  CASE leaf = <<"A_pt">>    -> <<leaf, public.auth.A_enc, public.auth.B>>
    [] leaf = <<"Ar_pt">>   -> <<leaf, public.auth.Ar_enc, public.auth.B>>
    [] leaf = <<"A_notid">> -> <<leaf, public.auth.A_enc>>
    [] leaf = <<"g3x_ox">>  -> <<leaf, public.auth.g3x_enc, public.auth.ox_enc>>
    [] leaf \in ToSet(CAILeaves) -> <<leaf, public.cai, public.choice>>
    [] OTHER -> <<leaf, public.choice>>

\* The prover's witness satisfies the relation of the leaf.
Witnessed(public, leaf, wit) ==
  CASE leaf = <<"A_pt">>    -> public.auth.A_enc.pt = Mul(public.auth.B, wit.A_pt)
    [] leaf = <<"Ar_pt">>   -> public.auth.Ar_enc.pt = Mul(public.auth.B, wit.Ar_pt)
    [] leaf = <<"A_notid">> -> public.auth.A_enc.pt # Identity
    [] leaf = <<"g3x_ox">>  -> /\ public.auth.g3x_enc.pt = Mul(G3, wit.x)
                               /\ public.auth.ox_enc.pt = Mul(O, wit.x)
    [] OTHER -> TRUE
-----------------------------------------------------------------------------
(* Phases                                                                  *)

\* start_proof and absorb_public. Only the protocol of the choice absorbs
\* its statement; the other two absorb nothing but their label.
AbsorbPublic(public) ==
  <<<<"start", "vote-proof">>,
    Label("choice"), <<"pk", public.pk>>, <<"CHOICE", public.choice>>, <<"PARAM", public.params>>,
    Label("cai"), Label("auth")>>

\* Commitments, made now or replayed from a proof, part after part.
Absorb(tr, leaves, commitments) ==
  LET Absorbed(part) ==
        <<Label(part)>> \o [k \in DOMAIN leaves[part] |->
                              <<"commitment", commitments[part][leaves[part][k]]>>]
  IN tr \o Absorbed("choice") \o Absorbed("cai") \o Absorbed("auth")

\* The transcripts that n leaves draw their challenges from, one after the
\* other, beginning with tr: a draw changes the transcript.
ChallengesOf(tr, n) == [k \in 1..n |-> tr \o [j \in 1..(k - 1) |-> <<"drawn">>]]

\* complete and verify_relation: one challenge for every leaf, in order.
Challenges(tr, leaves) ==
  LET n == [part \in Parts |-> Len(leaves[part])]
      Drawn(t, part) == t \o [j \in 1..n[part] |-> <<"drawn">>]
      choice == Append(tr, Label("choice"))
      cai == Append(Drawn(choice, "choice"), Label("cai"))
      auth == Append(Drawn(cai, "cai"), Label("auth"))
  IN [choice |-> ChallengesOf(choice, n["choice"]),
      cai    |-> ChallengesOf(cai, n["cai"]),
      auth   |-> ChallengesOf(auth, n["auth"])]

\* ProofProtocol::prove: absorb_public, commit, complete. Commitments are
\* random: they name the ballot they were drawn for.
Prove(public, wit, id) ==
  LET leaves == WithChoice(ChoiceProved(public.params))
      drawn == [part \in Parts |-> [leaf \in ToSet(leaves[part]) |-> <<id, leaf>>]]
      tr == Absorb(AbsorbPublic(public), leaves, drawn)
      chal == Challenges(tr, leaves)
      Proved(part, k) ==
        [statement  |-> Statement(public, leaves[part][k]),
         witnessed  |-> Witnessed(public, leaves[part][k], wit),
         commitment |-> drawn[part][leaves[part][k]],
         challenge  |-> chal[part][k]]
  IN [part \in Parts |->
        [leaf \in ToSet(leaves[part]) |->
           Proved(part, CHOOSE k \in DOMAIN leaves[part] : leaves[part][k] = leaf)]]

\* The lengths of the lists in the proof of a choice.
Rows(choice_proof) ==
  LET parties == {leaf[2] : leaf \in {l \in DOMAIN choice_proof : l[1] = "l1_01"}}
  IN [i \in parties |->
        Cardinality({l \in DOMAIN choice_proof : l[1] = "l2_01" /\ l[2] = i})]

\* update_transcript replays the commitments of the proof.
UpdateTranscript(tr, proof) ==
  Absorb(tr, WithChoice(ChoiceReplayed(Rows(proof["choice"]))),
         [part \in Parts |->
            [leaf \in DOMAIN proof[part] |-> proof[part][leaf].commitment]])

\* A leaf that is not in the proof is an index out of bounds.
LeafVerifies(public, part_proof, leaf, challenge) ==
  /\ leaf \in DOMAIN part_proof
  /\ part_proof[leaf].witnessed
  /\ part_proof[leaf].statement = Statement(public, leaf)
  /\ part_proof[leaf].challenge = challenge

\* verify_relation
VerifyRelation(public, proof, tr) ==
  LET leaves == WithChoice(ChoiceRelations(public.params))
      chal == Challenges(tr, leaves)
  IN \A part \in Parts : \A k \in DOMAIN leaves[part] :
       LeafVerifies(public, proof[part], leaves[part][k], chal[part][k])

\* ProofProtocol::verify
ProofVerifies(public, proof) ==
  VerifyRelation(public, proof, UpdateTranscript(AbsorbPublic(public), proof))
=============================================================================
