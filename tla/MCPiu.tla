------------------------------- MODULE MCPiu -------------------------------
(* One PIU with three host interfaces and two line rates, of which the     *)
(* default one uses all host interfaces and the other one the first only.  *)
EXTENDS PiuProps

MCRateWidth == [r \in Rates |-> IF r = "400g" THEN NHostifs ELSE 1]
=============================================================================
