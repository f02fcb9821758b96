----------------------------- MODULE MC_TearDown -----------------------------
(* pid_max = 32768, the kernel default: procps prints the PGID in a       *)
(* column of 5 characters and a process group id has 1 to 5 digits.      *)
(* Listings of up to two processes: one or two tunnels, or a tunnel and   *)
(* another process before or after it.                                    *)
EXTENDS TearDown

MCPgidColumn == 5
MCMaxDigits == 5
MCMaxProcs == 2
====
