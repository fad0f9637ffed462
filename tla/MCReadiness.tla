----------------------------- MODULE MCReadiness -----------------------------
(* Two subscribers that race to mark, and two waiters.                     *)
EXTENDS Readiness, TLC

CONSTANTS s1, s2, w1, w2

MCSubscribers == {s1, s2}
MCWaiters == {w1, w2}
=============================================================================
