--------------------------- MODULE MCGaussRandom ---------------------------
(***************************************************************************)
(* Two engines seeded alike.  The stream holds a rejected pair (r > 1), a  *)
(* pair at the origin (r = 0, also rejected) and two accepted pairs.       *)
(***************************************************************************)
EXTENDS GaussRandom

MCDraws == << 4, 4,  1, -2,  0, 0,  3, 1 >>
=============================================================================
