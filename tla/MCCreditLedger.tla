--------------------------- MODULE MCCreditLedger ---------------------------
(***************************************************************************)
(* CreditLedger on two sessions: every race of two calls, on one key or    *)
(* two, of one user or two users, with one row from the script, which      *)
(* gives, takes or does neither.  The liveness instance has one key, which *)
(* both users may call with, so that sessions wait for the lock and for    *)
(* the unique index.  Users, keys and sessions are interchangeable where   *)
(* only safety is checked.                                                 *)
(***************************************************************************)
EXTENDS CreditLedger, TLC

CONSTANTS u1, u2, k1, k2, m1, s1, s2

MCUsers == {u1, u2}
MCKeys == {k1, k2}
MCOneKey == {k1}
MCManualKeys == {m1}
MCAmounts == {-1, 0, 1}
MCSessions == {s1, s2}
MCSymmetry ==
  Permutations(MCUsers) \cup Permutations(MCKeys) \cup Permutations(MCSessions)

=============================================================================
