------------------------------ MODULE MCNetwork -----------------------------
(* An IPv4 and an IPv6 default route through the same device, and a subnet.  *)
EXTENDS Network, TLC

MCRoutes == {"r4", "r6"}
MCSubnets == {"n4"}
MCDevice == [r \in MCRoutes |-> "eth0"]
MCFamily == ("r4" :> 4) @@ ("r6" :> 6) @@ ("n4" :> 4)
MCOutboundFamily == ("n4" :> "v4") @@ ("n6" :> "v6")
=============================================================================
