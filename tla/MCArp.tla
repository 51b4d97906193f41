------------------------------- MODULE MCArp --------------------------------
(* A network of three hosts, one of which changes its Ethernet address; there *)
(* may be an impostor.                                                       *)
EXTENDS Arp

CONSTANTS me, a, b, c, mine, ea, eb1, eb2, ec, ex

MCHosts == {a, b, c}
MCEths == {mine, ea, eb1, eb2, ec, ex}
MCEthsOf == [ip \in MCHosts |->
                CASE ip = a -> {ea} [] ip = b -> {eb1, eb2} [] ip = c -> {ec}]
MCImpostorEths == {ex}
=============================================================================
