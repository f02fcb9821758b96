------------------------------ MODULE MC_Phone ------------------------------
(***************************************************************************)
(* Three devices: two with iptables, two with XPrivacy, one with both, so *)
(* that the flagged loops skip a device and the four messages of          *)
(* app_execution wrap around the device list.  Two applications in        *)
(* white-list mode, one selected system uid, three experiments, so that a *)
(* failed workload is followed by further scripts.                        *)
(***************************************************************************)
EXTENDS Phone

MCNumDevices == 3
MCAppSeq == <<"a1", "a2">>
MCIptables == {1, 2}
MCXprivacy == {1, 3}
MCSelected == {"sys"}
MCMaxExperiments == 3

====
