---------------------------- MODULE InputGrouping ----------------------------
(***************************************************************************)
(* How execute() of src/wrapper/wrapper.py reads the input file into       *)
(* country_list (lines 112-133): one group per run of lines with the same  *)
(* country code, holding the code and then the hostname records of the    *)
(* run, in file order.  The loop is a pure function of the file, written   *)
(* as a fold over its lines; module Wrapper starts its sweep from it.      *)
(*                                                                         *)
(* A line is [code, host]; the hostname record helper[1:4] (hostname,      *)
(* longitude, latitude) is abstracted to the line number, so that every    *)
(* hostname is distinct and its position can be checked.  A group, the     *)
(* Python list [code, record, ...], is a record of its code and its        *)
(* hostnames; the empty list the loop starts with has the code "".         *)
(***************************************************************************)
EXTENDS Integers, Sequences, SequencesExt

CONSTANTS
  Codes,      \* the country codes that may appear
  MaxLines    \* longest input file

ASSUME MaxLines \in Nat

\* The files: a country code per line; line k names hostname k.
Input == UNION {[1 .. n -> Codes] : n \in 0 .. MaxLines}

\* The spec's precondition (section 6): lines of one country are
\* contiguous.
PreGrouped(f) ==
  \A a, b, c \in DOMAIN f : a < b /\ b < c /\ f[a] = f[c] => f[b] = f[a]

\* The empty list [] of line 114.
NoGroup == [code |-> "", hosts |-> <<>>]

\* The loop variables before the first line (lines 113-115).
Start == [country_list |-> <<>>, country |-> NoGroup, country_code |-> " "]

\* Mutation: country_code is not updated when a new group starts.
ReadLineKeepsCode(f, st, k) ==
  IF f[k] = st.country_code
    THEN [st EXCEPT !.country.hosts = Append(@, k)]
    ELSE [st EXCEPT !.country_list = Append(@, st.country),
                    !.country = [code |-> f[k], hosts |-> <<k>>]]

\* One pass of the for loop of line 118 over line k: the same code appends
\* the hostname record to the group (lines 121-122); another code closes
\* the group and starts a new one (lines 125-128).
ReadLine(f, st, k) ==
  IF f[k] = st.country_code
    THEN [st EXCEPT !.country.hosts = Append(@, k)]
    ELSE [country_list |-> Append(st.country_list, st.country),
          country      |-> [code |-> f[k], hosts |-> <<k>>],
          country_code |-> f[k]]

\* The loop, then line 133: country_list = country_list[1:] + [country].
ReadGroups(f) ==
  LET st == FoldLeftDomain(LAMBDA acc, k : ReadLine(f, acc, k), Start, f)
  IN  Append(SubSeq(st.country_list, 2, Len(st.country_list)), st.country)

-----------------------------------------------------------------------------
(* Reference: the grouping the spec describes (sections 3 and 6).  The     *)
(* codes in the order they first appear; for each, the code followed by    *)
(* its hostnames in file order.                                            *)

FirstLine(f, c) == Min({k \in DOMAIN f : f[k] = c})

CodeOrder(f) ==
  SetToSortSeq(ToSet(f), LAMBDA a, b : FirstLine(f, a) < FirstLine(f, b))

HostsOf(f, c) == SelectSeq([k \in DOMAIN f |-> k], LAMBDA k : f[k] = c)

Grouping(f) ==
  [g \in 1 .. Len(CodeOrder(f)) |->
     [code |-> CodeOrder(f)[g], hosts |-> HostsOf(f, CodeOrder(f)[g])]]

-----------------------------------------------------------------------------
(* Properties.  They quantify over every file of Input and hold of the     *)
(* constants alone; module Wrapper checks them as ReadFaithful.            *)

\* For every input that respects the spec's precondition, the loop of lines
\* 118-133 builds exactly the reference grouping: no group lost, merged or
\* split, no hostname lost or moved to another country.
GroupingFaithful ==
  \A f \in Input : f # <<>> /\ PreGrouped(f) => ReadGroups(f) = Grouping(f)

\* Whatever the order of the lines, every group of a non-empty file holds
\* a code and at least one hostname, which module Wrapper assumes
\* (len(country_list[i]) > 1 at the start of the sweep).
GroupsHaveHosts ==
  \A f \in Input : f # <<>> =>
    \A g \in 1 .. Len(ReadGroups(f)) : ReadGroups(f)[g].hosts # <<>>

====
