------------------------------- MODULE MCSnmp -------------------------------
(***************************************************************************)
(* Two interfaces; the index column, one every row has, one for ethernet.  *)
(***************************************************************************)
EXTENDS SnmpProps

MCColumns == (1 :> "index") @@ (2 :> "any") @@ (3 :> "ethernet")
=============================================================================
