---------------------------- MODULE MC_Controller ----------------------------
(* Two applications: the liveness poll of line 219 runs once after a       *)
(* completed iteration, so a tunnel lost during the first application is   *)
(* seen by the second iteration.                                           *)
EXTENDS Controller

MCNumApps == 2

\* Captures of up to three packets between the device and two peers, one
\* of them blacklisted, over two remote ports, one of them blacklisted:
\* enough for a repeated end, two ends in either order, and every
\* blacklist case of both protocols.
MCPeers == {"far", "black"}
MCIpBlacklist == {"black"}
MCPorts == {1, 2}
MCPortBlacklist == {2}
MCLocalPort == 9
MCMaxPackets == 3
====
