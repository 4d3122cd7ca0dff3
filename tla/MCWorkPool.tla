----------------------------- MODULE MCWorkPool -----------------------------
EXTENDS WorkPool, TLC

CONSTANTS w1, w2, w3, a, b, c, d

\* Three jobs of the owner; the first one submits a fourth from its body.
MCSubmitter == (a :> Owner) @@ (b :> Owner) @@ (c :> Owner) @@ (d :> a)
=============================================================================
