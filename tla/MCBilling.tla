----------------------------- MODULE MCBilling -----------------------------
(* TLC instances of Billing. *)
EXTENDS Billing, TLC

CONSTANTS t1, h1, c1, o1, m1, m2, v1, s1, x1, x2, a1, k1, k2, g1

W(made, n) == [asks |-> made, faults |-> n]

Business ==
  { W({t1, c1}, 1),              \* a top-up: browser, webhooks and refunds
    W({t1, m1}, 1),              \* a top-up and a plan paid from it
    W({o1, v1, k1}, 1),          \* a purchase, verified by all, and an administrator
    W({o1, m1, k1, g1}, 1),      \* a purchase whose funds a rival plan spends
    W({m1, m2, k1, k2}, 0),      \* plans assigned, suspended, resumed, cancelled
    W({m1, x1, x2, g1}, 0),      \* rival extensions of one plan
    W({m1, a1, k1, x1, g1}, 0) } \* add-on and extension against an administrator

OneTopup == { W({t1, c1}, 0) }
=============================================================================
