----------------------------- MODULE MCFillGate -----------------------------
EXTENDS FillGate

CONSTANTS r1, r2, r3, k1, k2

MCRequests == {r1, r2, r3}
MCKeys == {k1, k2}
=============================================================================
