--------------------------- MODULE MCVoucherDesk ---------------------------
(* VoucherDesk with one buyer, another account and two requests at once.    *)
EXTENDS VoucherDesk, TLC

CONSTANTS e1, e2, x1, r1, r2

MCEmails == {e1, e2}
OneBuyer == {e1}
MCWallets == {x1}
MCRequests == {r1, r2}

Symmetry == Permutations(MCRequests)
=============================================================================
