------------------------------ MODULE MCSonic ------------------------------
(***************************************************************************)
(* Two ports, one of which can be split, two VLANs and one port channel.   *)
(***************************************************************************)
EXTENDS SonicProps

C(leaf, key, val) == [leaf |-> leaf, key |-> key, val |-> val, on |-> val # None]
On(leaf, key) == [leaf |-> leaf, key |-> key, val |-> None, on |-> TRUE]
Off(leaf, key) == [leaf |-> leaf, key |-> key, val |-> None, on |-> FALSE]
In(leaf, key, v) == [leaf |-> leaf, key |-> key, val |-> v, on |-> TRUE]
Out(leaf, key, v) == [leaf |-> leaf, key |-> key, val |-> v, on |-> FALSE]

MCSubs == [e1 |-> "e1s"]
MCRequests ==
  <<<<On("split", "e1")>>,
    <<Off("split", "e1")>>,
    <<C("an", "e2", "yes"), C("admin", "e2", "up"), On("vlan", "v1")>>,
    <<C("access", "e2", "v1"), On("vlan", "v1")>>,
    <<In("trunk", "e2", "v1"), C("access", "e2", None)>>,
    <<C("access", "e2", "v1"), Out("trunk", "e2", "v1")>>,
    <<C("access", "e1s", "v1"), C("admin", "e1s", "up")>>,
    <<Off("vlan", "v1")>>,
    <<On("up", "e1"), On("down", "e2"), C("admin", "e2", "up")>>,
    <<Off("up", "e1"), Off("down", "e2")>>,
    <<On("lag", "p1"), In("lagif", "p1", "e2")>>,
    <<On("split", "e1"), Off("lag", "p1"), Out("lagif", "p1", "e2")>>>>
=============================================================================
