------------------------------ MODULE MCLogin -------------------------------
(***************************************************************************)
(* Login with two concurrent requests, two codes, so that one can replace  *)
(* the other, and two verifications more than the limit allows.            *)
(***************************************************************************)
EXTENDS Login

CONSTANTS u1, s1, s2, l1

MCUsers == {u1}
MCSessions == {s1, s2}
MCLinks == {l1}
MCKeys == {<<"signup_bonus", u1>>}
MCDeltas == {1}

=============================================================================
