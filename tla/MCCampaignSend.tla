--------------------------- MODULE MCCampaignSend ---------------------------
(* TLC instances of CampaignSend. *)
EXTENDS CampaignSend, TLC

CONSTANTS w1, w2, t1, r1, r2, p1, p2

WorkerSymmetry == Permutations({w1, w2})
WorkerAndRowSymmetry == Permutations({w1, w2}) \cup Permutations({r1, r2})

\* One row.
OnePhone == r1 :> p1
\* Two rows of the campaign resolve to one number.
SharedPhone == (r1 :> p1) @@ (r2 :> p1)
\* Two rows with their own numbers.
OwnPhones == (r1 :> p1) @@ (r2 :> p2)
\* The test send goes to the number of the first row.
TestToFirst == [t \in Tester |-> p1]
=============================================================================
