----------------------------- MODULE MCRefunds -----------------------------
(* A payment of two units, two refunds of it and what a provider reports. *)
EXTENDS RefundEvents, TLC
CONSTANTS r1, r2, e1, e2, a1, a2, w1, w2, h1, h2
MCReported == e1 :> "SUCCEEDED" @@ e2 :> "FAILED"
MCAbout == e1 :> r1 @@ e2 :> r1
MCDeliveries == e1 :> 2 @@ e2 :> 1
=============================================================================
