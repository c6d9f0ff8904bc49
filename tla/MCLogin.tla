------------------------------ MODULE MCLogin ------------------------------
(* Small instances of Login: two connections are interchangeable. *)
EXTENDS Login, TLC

CONSTANTS s1, s2, ann, bob, home, work

Sessions == Permutations({s1, s2})
=============================================================================
