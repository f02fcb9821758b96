----------------------------- MODULE MC_Network -----------------------------
(* A configuration like the one the comments of network.py describe: a     *)
(* preparing command that ends, then the tunnel, a second preparing        *)
(* command, two captures, a preparing command and a last capture.         *)
EXTENDS Network

MCSteps == <<"ends", "runs", "ends", "runs", "runs", "ends", "runs">>
====
