------------------------------ MODULE TearDown ------------------------------
(***************************************************************************)
(* The forced tear-down script src/network/network_force_tear_down.py,     *)
(* run by force_stop() of the controller after clean_up().                 *)
(*                                                                         *)
(*   ps x -o "%r %c" | grep tunnel -m 1      the first process named      *)
(*                                           tunnel, as "PGID COMMAND"    *)
(*   .split(' ')[1]                          its process group id         *)
(*   kill -9 -<pgid>                         kill the whole group         *)
(*                                                                         *)
(* ps prints the PGID right-aligned in a column as wide as the largest    *)
(* process id (pid_max) has digits, then one space and the command name.  *)
(* A line is modelled character class by character class: " " a space,    *)
(* "9" a digit, the command name as one token, "\n" the line end.         *)
(***************************************************************************)
EXTENDS Integers, Sequences, SequencesExt

CONSTANTS
  PgidColumn,   \* width of the PGID column of ps: the digits of pid_max
  MaxDigits,    \* longest process group id, in digits
  MaxProcs      \* most processes in the ps listing

ASSUME PgidColumn \in Nat \ {0} /\ MaxDigits \in 1 .. PgidColumn
ASSUME MaxProcs \in Nat \ {0}

\* A process of the user: its command name and the width of its pgid.
Proc == [name : {"tunnel", "other"}, width : 1 .. MaxDigits]

\* The listing, in the order ps prints it.
Listing == UNION {[1 .. n -> Proc] : n \in 0 .. MaxProcs}

\* One output line of ps x -o "%r %c".
Line(p) ==
  [k \in 1 .. Max({0, PgidColumn - p.width}) |-> " "]
    \o [k \in 1 .. p.width |-> "9"]
    \o <<" ", p.name, "\n">>

\* Reference for str.split(sep): the fields are the pieces between the
\* positions of sep, the empty ones included.
SplitRef(s, sep) ==
  LET b == <<0>> \o SetToSortSeq({k \in DOMAIN s : s[k] = sep}, <)
               \o <<Len(s) + 1>>
  IN  [k \in 1 .. Len(b) - 1 |-> SubSeq(s, b[k] + 1, b[k + 1] - 1)]

\* str.split(sep) of line 23, one character at a time.
RECURSIVE Split(_, _)
Split(s, sep) ==
  IF s = <<>> THEN << <<>> >>
  ELSE LET rest == Split(Tail(s), sep)
       IN  IF Head(s) = sep
             THEN << <<>> >> \o rest
             ELSE << <<Head(s)>> \o Head(rest) >> \o Tail(rest)

\* The split of line 23 is Python's str.split(' ') on every line ps can
\* print: a field for each piece between two spaces, empty ones included.
\* It holds of the constants alone; TLC checks it before every run.
ASSUME \A p \in Proc : Split(Line(p), " ") = SplitRef(Line(p), " ")

\* An argument that kill accepts as a process group: digits only.
IsNumber(f) == f # <<>> /\ \A k \in DOMAIN f : f[k] = "9"

VARIABLES
  procs,     \* the processes ps lists
  alive,     \* alive[k]: process k still runs
  pc,        \* "scan", "kill" or "exited"
  target,    \* the index of the line grep printed
  pgid,      \* TUNNEL_PID, the field taken from that line
  exitCode   \* the exit status once pc = "exited"

vars == <<procs, alive, pc, target, pgid, exitCode>>

Init ==
  /\ procs \in Listing
  /\ alive = [k \in DOMAIN procs |-> TRUE]
  /\ pc = "scan"
  /\ target = 0
  /\ pgid = <<>>
  /\ exitCode = 0

\* The lines grep tunnel matches.
Tunnels == {k \in DOMAIN procs : alive[k] /\ procs[k].name = "tunnel"}

\* Lines 21-23: grep -m 1 prints the first matching line; the field of
\* index 1 of its split on ' ' is kept.  (The line always holds a space,
\* so the index exists.)
Scan ==
  /\ pc = "scan" /\ Tunnels # {}
  /\ LET k == Min(Tunnels) IN
       /\ target' = k
       /\ pgid' = Split(Line(procs[k]), " ")[2]
  /\ pc' = "kill"
  /\ UNCHANGED <<procs, alive, exitCode>>

\* Lines 24-25: grep matches nothing and exits with 1; check_output raises
\* CalledProcessError: no tunnel runs, exit 0.
ScanNothing ==
  /\ pc = "scan" /\ Tunnels = {}
  /\ pc' = "exited" /\ exitCode' = 0
  /\ UNCHANGED <<procs, alive, target, pgid>>

\* Lines 27-29: kill -9 -<pgid> kills the group of the process whose line
\* the pgid was read from; the script ends with 0.
Kill ==
  /\ pc = "kill" /\ IsNumber(pgid)
  /\ alive' = [alive EXCEPT ![target] = FALSE]
  /\ pc' = "exited" /\ exitCode' = 0
  /\ UNCHANGED <<procs, target, pgid>>

\* Lines 30-31: kill rejects an empty or non-numeric group: exit 3.
KillFails ==
  /\ pc = "kill" /\ ~IsNumber(pgid)
  /\ pc' = "exited" /\ exitCode' = 3
  /\ UNCHANGED <<procs, alive, target, pgid>>

Next == Scan \/ ScanNothing \/ Kill \/ KillFails

Spec == Init /\ [][Next]_vars /\ WF_vars(Next)

-----------------------------------------------------------------------------
(* Properties                                                              *)

TypeOK ==
  /\ procs \in Listing
  /\ alive \in [DOMAIN procs -> BOOLEAN]
  /\ pc \in {"scan", "kill", "exited"}
  /\ target \in 0 .. MaxProcs
  /\ pgid \in Seq({" ", "9", "tunnel", "other", "\n"})
  /\ exitCode \in {0, 3}

\* force_stop() relies on this script to reclaim a tunnel that clean_up()
\* did not stop (spec section 4.4): once it has run, no process named
\* tunnel is left, whatever its process group id.
TunnelReclaimed == pc = "exited" => Tunnels = {}

====
