------------------------------ MODULE MCIpFrag ------------------------------
(* Datagrams of two, three and, more than a big packet takes, four units. *)
EXTENDS IpFrag

CONSTANTS Short, Full, Long

MCDatagrams == {Short, Full, Long}
MCSizeOf == [d \in MCDatagrams |-> CASE d = Short -> 2 [] d = Full -> 3 [] d = Long -> 4]
=============================================================================
