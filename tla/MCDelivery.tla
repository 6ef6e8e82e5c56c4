------------------------------ MODULE MCDelivery ------------------------------
(* Two clients with two ballots each, all three logs of the board. Clients *)
(* and secrets are interchangeable.                                        *)
EXTENDS Delivery, TLC

MCCastable == [client : Client, nr : 1..MaxCasts, x : Secret]
Symmetry == Permutations(Client) \cup Permutations(Secret)
=============================================================================
