------------------------- MODULE MC_BlkFlush -------------------------
(* Instances of BlkFlush for TLC. *)
EXTENDS BlkFlush, TLC

CONSTANTS r1, r2, r3

ThreeRequests == {r1, r2, r3}

K(fl, fu, d) == [flush |-> fl, fua |-> fu, data |-> d]
AllKinds == {K(FALSE, FALSE, TRUE), K(TRUE, FALSE, FALSE), K(TRUE, FALSE, TRUE),
             K(FALSE, TRUE, TRUE), K(TRUE, TRUE, TRUE)}

AllFeatures == {{}, {"FLUSH"}, {"FLUSH", "FUA"}}

\* The requests are interchangeable
Swaps == Permutations(Requests)
=============================================================================
