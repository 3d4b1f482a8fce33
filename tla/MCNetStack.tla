----------------------------- MODULE MCNetStack -----------------------------
(* Constants of NetStack for TLC: a subnet with two DHCP servers, of which one
   names no gateway, a router that changes its card, and one host beyond it;
   an ARP cache of two entries, so that it overflows. *)
EXTENDS NetStack, TLC

MCLan     == {"s1", "s2"}
MCFar     == {"far"}
MCServers == {"s1", "s2"}
MCLease   == [s1 |-> "ip1", s2 |-> "ip2"]
MCOther   == [s1 |-> "ip3", s2 |-> "ip4"]
MCGateway == [s1 |-> "s1", s2 |-> "0"]
MCMacsOf  == "s1" :> {"a", "b"} @@ "s2" :> {"c"} @@ "0" :> {"d"}

MCPingTargets == {"s1", "far"}
MCNames       == {"s2", "far"}
=============================================================================
