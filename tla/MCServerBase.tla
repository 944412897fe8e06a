---------------------------- MODULE MCServerBase ----------------------------
(* Instances of ServerBase for TLC. *)
EXTENDS ServerBaseProps

CONSTANTS s1, s2, k1, k2, u1, v1, absent, default

MCServer == {s1, s2}
MCKey == {k1, k2, u1}
MCValue == {v1, default}
Set(k, v) == [key |-> k, val |-> v]
\* Two changes in one model, and deletions of an unsupported and a supported leaf.
MCInputs ==
  { <<Set(k2, v1), Set(k1, v1)>>,
    <<Set(u1, absent), Set(k1, absent)>> }
\* The first of them, and an unsupported leaf that is set.
MCRefused == { <<Set(k2, v1), Set(k1, v1)>>, <<Set(u1, v1)>> }
\* Only lists of two handlers, for the runs about interrupted reverts.
MCPairs == { <<Set(k2, v1), Set(k1, v1)>> }
=============================================================================
