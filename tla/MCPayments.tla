----------------------------- MODULE MCPayments -----------------------------
(***************************************************************************)
(* Payments on one top-up of the pack at 9900 paise with two sessions: one *)
(* attempt, which may fail before it is captured, or two.                  *)
(***************************************************************************)
EXTENDS Payments

CONSTANTS u1, p1, a1, a2, s1, s2

MCUsers == {u1}
MCPayments == {p1}
MCAttempts == {a1, a2}
MCOneAttempt == {a1}
MCSessions == {s1, s2}
MCKeys == {CreditKey(a) : a \in Attempts}
MCDeltas == {9900}
MCPaymentOf == [a \in Attempts |-> p1]
MCUserOf == [p \in Payments |-> u1]
MCAmount == [p \in Payments |-> 9900]

=============================================================================
