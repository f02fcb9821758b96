------------------------------ MODULE Analysis ------------------------------
(***************************************************************************)
(* analyze() of src/analysis/analysis.py, run by the controller as         *)
(* analysis_1 and analysis_2 on each capture.  It reads the packets of the *)
(* capture (lines 92-141): DNS answers go to files, and every other UDP or *)
(* TCP packet contributes the protocol, IP and port of its remote side to *)
(* prot_ip_port, once.  It then runs a path measurement to each of these  *)
(* targets (lines 163-290), all at once (parallel) or one after another.  *)
(*                                                                         *)
(* The script is a function of the capture, the configuration and the     *)
(* outcome of each path measurement, written here as folds over the       *)
(* packets and over the targets.  Python values that the code compares    *)
(* across types are tagged with their type: a port of a packet is an int, *)
(* an entry of port_blacklist a str, and they are never equal.            *)
(***************************************************************************)
EXTENDS Integers, Sequences, SequencesExt

CONSTANTS
  IpAddress,      \* [general] ip_address: the device of the framework
  Peers,          \* the other addresses that appear in captures
  IpBlacklist,    \* [general] ip_blacklist
  Ports,          \* port numbers that appear on the remote side
  PortBlacklist,  \* the numbers listed in [general] port_blacklist
  LocalPort,      \* the port of the device's side of every connection
  MaxPackets      \* longest capture

ASSUME IpBlacklist \subseteq Peers /\ IpAddress \notin Peers
ASSUME PortBlacklist \subseteq Ports /\ LocalPort \notin Ports
ASSUME MaxPackets \in Nat

\* Python's int and str values of a number.
PyInt(n) == <<"int", n>>
PyStr(n) == <<"str", n>>

\* port_blacklist = ... .split(', ') of line 68: a list of strings.
port_blacklist == {PyStr(n) : n \in PortBlacklist}

\* A packet: whether scapy finds an IPv4 layer, its transport layer, the
\* DNS layer and its qr bit, the addresses and the ports.
Packet ==
  LET flows == {[src |-> IpAddress, dst |-> q] : q \in Peers}
                 \cup {[src |-> q, dst |-> IpAddress] : q \in Peers}
      ports(f, n) == IF f.src = IpAddress THEN [sport |-> PyInt(LocalPort), dport |-> PyInt(n)]
                                           ELSE [sport |-> PyInt(n), dport |-> PyInt(LocalPort)]
      mk(ip, l4, dns, qr, f, n) ==
        [ip |-> ip, l4 |-> l4, dns |-> dns, qr |-> qr, src |-> f.src, dst |-> f.dst,
         sport |-> ports(f, n).sport, dport |-> ports(f, n).dport]
      any == CHOOSE f \in flows : TRUE
      some == CHOOSE n \in Ports : TRUE
  IN  {mk(TRUE, l4, FALSE, 0, f, n) : l4 \in {"UDP", "TCP"}, f \in flows, n \in Ports}
        \cup {mk(TRUE, "UDP", TRUE, qr, any, some) : qr \in {0, 1}}
        \cup {mk(FALSE, l4, FALSE, 0, any, some) : l4 \in {"UDP", "TCP"}}
        \cup {mk(TRUE, "none", FALSE, 0, any, some)}

\* The captures: sniff(offline=...) of line 87.
Capture == UNION {[1 .. n -> Packet] : n \in 0 .. MaxPackets}

\* The state of the reading loop: the targets, the DNS responses written
\* (by packet index), and whether p[IP] raised IndexError.
ScanStart == [prot_ip_port |-> <<>>, dns |-> {}, crashed |-> FALSE]

\* Mutation: the triple is stored even if it is already there.
StoreAlways(st, help) == [st EXCEPT !.prot_ip_port = Append(@, help)]

\* Lines 116-129 and 132-141: "Only differing triples are stored".
Store(st, help) ==
  IF help \in ToSet(st.prot_ip_port) THEN st
  ELSE [st EXCEPT !.prot_ip_port = Append(@, help)]

\* One pass of the loop of line 92 over packet k of capture c.  A packet
\* without an IPv4 layer makes p[IP] raise; the exception is not caught
\* and ends the script.
ScanPacket(c, st, k) ==
  LET p == c[k]
      udp(ip, port) ==
        IF ip \notin IpBlacklist /\ PyStr(port[2]) \notin port_blacklist
          THEN Store(st, <<"UDP", ip, port>>) ELSE st
      tcp(ip, port) ==
        IF ip \notin IpBlacklist /\ port \notin port_blacklist
          THEN Store(st, <<"TCP", ip, port>>) ELSE st
  IN  CASE st.crashed                       -> st
        [] p.l4 = "UDP" /\ p.dns            ->
             IF p.qr = 1 THEN [st EXCEPT !.dns = @ \cup {k}] ELSE st
        [] p.l4 \in {"UDP", "TCP"} /\ ~p.ip -> [st EXCEPT !.crashed = TRUE]
        [] p.l4 = "UDP" /\ p.src = IpAddress -> udp(p.dst, p.dport)
        [] p.l4 = "UDP"                      -> udp(p.src, p.sport)
        [] p.l4 = "TCP" /\ p.src = IpAddress -> tcp(p.dst, p.dport)
        [] p.l4 = "TCP"                      -> tcp(p.src, p.sport)
        [] OTHER                             -> st

\* The whole loop of lines 89-141.
Scan(c) == FoldLeftDomain(LAMBDA st, k : ScanPacket(c, st, k), ScanStart, c)

-----------------------------------------------------------------------------
(* The path measurements (lines 143-290).  A target is alt = (protocol,   *)
(* ip, port).  With [general] in_application the traceroute is run to the *)
(* protocol and port of the target and its file is named after all three; *)
(* without it, to the ip only, and the file is named after the ip.  ok[i] *)
(* says whether the ssh command for target i ends with status 0.          *)

\* The traceroute the command of lines 177-179, 195-197, 212-213 (and
\* 250-252, 265-267, 280-281) asks for.
Cmd(alt, inapplication) == IF inapplication THEN alt ELSE <<alt[2]>>

\* The file name of lines 187-188, 205-206, 221 (and 256-258, 271-273,
\* 285-286), without directory, counter and timestamp.
FileName(alt, inapplication) == <<"file">> \o Cmd(alt, inapplication)

\* What the command prints: the traceroute, or nothing when ssh fails.
Output(alt, inapplication, ok) ==
  IF ok THEN <<"trace">> \o Cmd(alt, inapplication) ELSE <<"empty">>

\* Mutation: the file name is popped from the end of the list.
WriteTraceLast(fs, tr) ==
  [filenames |-> Front(fs.filenames),
   files     |-> Append(fs.files, <<Last(fs.filenames), tr.out>>)]

\* Lines 226-236: out, err = trace.communicate(); the file name is
\* filenames.pop(0); out is written to it.
WriteTrace(fs, tr) ==
  [filenames |-> Tail(fs.filenames),
   files     |-> Append(fs.files, <<Head(fs.filenames), tr.out>>)]

\* Lines 172-236: every command is started with Popen (which does not
\* check the status), its handle appended to traces and its file name to
\* filenames; then every trace is waited for and written.  The script
\* ends with status 0.
Parallel(targets, inapplication, ok) ==
  LET traces    == [i \in DOMAIN targets |->
                      [out |-> Output(targets[i], inapplication, ok[i])]]
      filenames == [i \in DOMAIN targets |-> FileName(targets[i], inapplication)]
      done == FoldLeft(WriteTrace, [filenames |-> filenames, files |-> <<>>], traces)
  IN  [files |-> done.files, status |-> 0]

\* Lines 245-290: check_output runs each command and the output is
\* written at once; a non-zero status raises CalledProcessError, which is
\* not caught: the script ends with status 1.
Sequential(targets, inapplication, ok) ==
  LET step(acc, i) ==
        CASE acc.status # 0 -> acc
          [] ~ok[i]         -> [acc EXCEPT !.status = 1]
          [] OTHER          ->
               [acc EXCEPT !.files = Append(@, <<FileName(targets[i], inapplication),
                                                 Output(targets[i], inapplication, TRUE)>>)]
  IN  FoldLeftDomain(step, [files |-> <<>>, status |-> 0], targets)

\* Line 163: the [general] parallel flag chooses the branch.
Measure(targets, parallel, inapplication, ok) ==
  IF parallel THEN Parallel(targets, inapplication, ok)
              ELSE Sequential(targets, inapplication, ok)

\* analyze(): the scan, then the measurements; the IndexError of a packet
\* without IPv4 layer ends the script with status 1 before any
\* measurement.
Analyze(c, parallel, inapplication, ok) ==
  IF Scan(c).crashed THEN [files |-> <<>>, status |-> 1]
  ELSE Measure(Scan(c).prot_ip_port, parallel, inapplication, ok)

-----------------------------------------------------------------------------
(* Reference and properties.  They quantify over every capture and hold   *)
(* of the constants alone; module Controller checks them, as the scripts  *)
(* behind its analysis steps.                                             *)

\* The packets of a network connection: UDP other than DNS, and TCP.
Conn(c) == {k \in DOMAIN c : c[k].l4 \in {"UDP", "TCP"} /\ ~c[k].dns}

\* The end of the connection that is not the device of the framework
\* (the docstring of lines 93-98 and the comment of lines 61-64).
Remote(p) ==
  CHOOSE e \in {<<p.l4, p.src, p.sport>>, <<p.l4, p.dst, p.dport>>} : e[2] # IpAddress

\* The first packet of capture c whose remote end is e.
FirstSeen(c, e) == Min({k \in Conn(c) : Remote(c[k]) = e})

\* Whatever the capture (of IPv4 packets), prot_ip_port lists each remote
\* end of a connection once, in the order the ends first appear; it holds
\* every end whose IP and port are both off the blacklists, and no end
\* with a blacklisted IP and no end the capture does not show.
TargetsFaithful ==
  \A c \in Capture : ~Scan(c).crashed =>
    LET t == Scan(c).prot_ip_port
        seen == {Remote(c[k]) : k \in Conn(c)}
    IN  /\ IsInjective(t)
        /\ \A i, j \in DOMAIN t : i < j => FirstSeen(c, t[i]) < FirstSeen(c, t[j])
        /\ {e \in seen : e[2] \notin IpBlacklist /\ e[3][2] \notin PortBlacklist}
             \subseteq ToSet(t)
        /\ ToSet(t) \subseteq {e \in seen : e[2] \notin IpBlacklist}

\* When analyze() exits with status 0, parallel or not, one file was
\* written per target, in the order of prot_ip_port, named after that
\* target and holding the output of the command run for that target.
ResultsMatchTargets ==
  \A c \in Capture, parallel, inapplication \in BOOLEAN :
    LET t == Scan(c).prot_ip_port IN
    \A ok \in [DOMAIN t -> BOOLEAN] :
      LET r == Analyze(c, parallel, inapplication, ok) IN
      r.status = 0 =>
        r.files = [i \in DOMAIN t |-> <<FileName(t[i], inapplication),
                                        Output(t[i], inapplication, ok[i])>>]

====
