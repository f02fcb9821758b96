------------------------------- MODULE Wrapper -------------------------------
(***************************************************************************)
(* The pairing scheduler: execute() of src/wrapper/wrapper.py.             *)
(*                                                                         *)
(* After the initialization steps, the wrapper sweeps every ordered pair   *)
(* of country groups (outer index i, inner index j), runs                  *)
(* controller.experiment on the front hostnames of the two groups and      *)
(* records the result in the symmetric status matrix.  The experiment is   *)
(* abstracted to the exception it ends with (module Controller models how  *)
(* it gets there).  Hostnames are abstracted to their position in the      *)
(* group: country c currently offers hostname popped[c] + 1.               *)
(* The groups are those the read of the input file (module InputGrouping) *)
(* builds from a file of up to MaxLines lines.                            *)
(***************************************************************************)
EXTENDS Integers, InputGrouping

CONSTANTS
  NumCountries,     \* dif_countries: number of country groups in the input
  MaxHosts,         \* largest number of hostnames one group may hold
  InitSteps,        \* [initialization] steps of wrapper.ini
  CompletionSteps   \* [completion] steps of wrapper.ini

ASSUME NumCountries \in Nat \ {0}
ASSUME MaxHosts \in Nat \ {0}
ASSUME InitSteps \in Nat /\ CompletionSteps \in Nat

Country == 0 .. NumCountries - 1

\* The values of the status matrix (wrapper.py, lines 140-149).
EXHAUSTED == 0
UNTRIED   == 1
RETRY     == 2
SUCCEEDED == 3
ISOLATED  == 4

VARIABLES
  pc,        \* "init", "outer", "inner", "completion" or "exited"
  step,      \* index of the initialization or completion step being run
  hosts,     \* hosts[c]: number of hostnames of group c (0 before the read)
  popped,    \* popped[c]: hostnames of c removed by country_list[c].pop(1)
  matrix,    \* matrix[a][b]: status of the country pair (a, b)
  i, j,      \* the outer and inner loop indices
  host1,     \* hostname1, read from the front of group i at line 166
  counter,   \* the experiment number handed to the controller
  exitCode,  \* exit status of the process once pc = "exited"
  succHost   \* history: succHost[a][b] = hostname of a in the last
             \* successful experiment of the pair (a, b)

vars == <<pc, step, hosts, popped, matrix, i, j, host1, counter, exitCode,
          succHost>>

\* len(country_list[c]) > 1: the group still has a hostname.
HasHost(c) == popped[c] < hosts[c]

\* country_list[c][1][0]: the hostname at the front of the group.
FrontHost(c) == popped[c] + 1

\* The loop of lines 298-304 (and 317-322): every UNTRIED cell in the row
\* and column of c becomes EXHAUSTED.
Exhaust(c) ==
  [a \in Country |-> [b \in Country |->
     IF (a = c \/ b = c) /\ matrix[a][b] = UNTRIED THEN EXHAUSTED
                                                   ELSE matrix[a][b]]]

\* Mutation: "> 2" for "== 3", so a pair set to 4 is demoted as well.
DemoteAbove2(c) ==
  [a \in Country |-> [b \in Country |->
     IF (a = c \/ b = c) /\ matrix[a][b] > RETRY THEN RETRY
                                                 ELSE matrix[a][b]]]

\* The loop of lines 221-227 (and 248-254): every SUCCEEDED cell in the row
\* and column of c is set back to RETRY.
Demote(c) ==
  [a \in Country |-> [b \in Country |->
     IF (a = c \/ b = c) /\ matrix[a][b] = SUCCEEDED THEN RETRY
                                                     ELSE matrix[a][b]]]

\* Mutation: only matrix[i][j] is written.
SetOneSide(v) == [matrix EXCEPT ![i][j] = v]

\* matrix[i][j] = v; matrix[j][i] = v
SetPair(v) == [matrix EXCEPT ![i][j] = v, ![j][i] = v]

\* The input files whose read gives NumCountries groups of at most MaxHosts
\* hostnames: the bounds of the model.
Files ==
  {f \in Input : /\ Len(ReadGroups(f)) = NumCountries
                 /\ \A g \in 1 .. NumCountries :
                      Len(ReadGroups(f)[g].hosts) <= MaxHosts}

\* len(country_list[c]) - 1 for each group of the file.
GroupSizes(f) == [c \in Country |-> Len(ReadGroups(f)[c + 1].hosts)]

Init ==
  /\ pc = "init"
  /\ step = 1
  /\ hosts = [c \in Country |-> 0]
  /\ popped = [c \in Country |-> 0]
  /\ matrix = [a \in Country |-> [b \in Country |-> UNTRIED]]
  /\ i = 0
  /\ j = 0
  /\ host1 = 0
  /\ counter = 0
  /\ exitCode = 0
  /\ succHost = [a \in Country |-> [b \in Country |-> 0]]

-----------------------------------------------------------------------------
(* Initialization (lines 95-106): each configured command is run with      *)
(* check_call; the first failing one ends the process with status 1.       *)

InitStep ==
  /\ pc = "init" /\ step <= InitSteps
  /\ step' = step + 1
  /\ UNCHANGED <<pc, hosts, popped, matrix, i, j, host1, counter, exitCode,
                 succHost>>

InitStepFails ==
  /\ pc = "init" /\ step <= InitSteps
  /\ pc' = "exited" /\ exitCode' = 1
  /\ UNCHANGED <<step, hosts, popped, matrix, i, j, host1, counter, succHost>>

\* Lines 112-161: the groups are read from the input file, the matrix is
\* filled with 1, i = 0.
StartSweep ==
  /\ pc = "init" /\ step > InitSteps
  /\ \E f \in Files : hosts' = GroupSizes(f)
  /\ pc' = "outer" /\ i' = 0
  /\ UNCHANGED <<step, popped, matrix, j, host1, counter, exitCode,
                 succHost>>

-----------------------------------------------------------------------------
(* The outer loop (lines 162-324).                                         *)

\* Group i has no hostname left: exhaust its row and column, next i.
SkipCountry1 ==
  /\ pc = "outer" /\ i < NumCountries /\ ~HasHost(i)
  /\ matrix' = Exhaust(i)
  /\ i' = i + 1
  /\ UNCHANGED <<pc, step, hosts, popped, j, host1, counter, exitCode,
                 succHost>>

\* Group i has a hostname: j = 0, hostname1 is read, the inner loop starts.
EnterCountry1 ==
  /\ pc = "outer" /\ i < NumCountries /\ HasHost(i)
  /\ pc' = "inner" /\ j' = 0
  /\ host1' = FrontHost(i)
  /\ UNCHANGED <<step, hosts, popped, matrix, i, counter, exitCode, succHost>>

\* The inner loop ends: i = i + 1.
LeaveCountry1 ==
  /\ pc = "inner" /\ j >= NumCountries
  /\ pc' = "outer" /\ i' = i + 1
  /\ UNCHANGED <<step, hosts, popped, matrix, j, host1, counter, exitCode,
                 succHost>>

-----------------------------------------------------------------------------
(* The inner loop (lines 169-305).                                         *)

\* Group j has no hostname left: exhaust its row and column, next j.
SkipCountry2 ==
  /\ pc = "inner" /\ j < NumCountries /\ ~HasHost(j)
  /\ matrix' = Exhaust(j)
  /\ j' = j + 1
  /\ UNCHANGED <<pc, step, hosts, popped, i, host1, counter, exitCode,
                 succHost>>

\* Mutation: the else branch of line 285 forgets j = j + 1.
SkipPairNoAdvance ==
  /\ pc = "inner" /\ j < NumCountries /\ HasHost(j)
  /\ matrix[i][j] \notin {UNTRIED, RETRY}
  /\ UNCHANGED vars

\* The pair is not 0 < matrix[i][j] <= 2: nothing to do, next j.
SkipPair ==
  /\ pc = "inner" /\ j < NumCountries /\ HasHost(j)
  /\ matrix[i][j] \notin {UNTRIED, RETRY}
  /\ j' = j + 1
  /\ UNCHANGED <<pc, step, hosts, popped, matrix, i, host1, counter,
                 exitCode, succHost>>

\* Mutation: the test len(country_list[j]) > 1 of line 170 is lost.
AttemptAnyHost ==
  /\ pc = "inner" /\ j < NumCountries
  /\ matrix[i][j] \in {UNTRIED, RETRY}

\* Lines 170-194: controller.experiment is called for (i, j).
Attempt ==
  /\ pc = "inner" /\ j < NumCountries /\ HasHost(j)
  /\ matrix[i][j] \in {UNTRIED, RETRY}

\* The experiment returns (lines 200-204).
ExperimentSucceeds ==
  /\ Attempt
  /\ matrix' = SetPair(SUCCEEDED)
  /\ counter' = counter + 1
  /\ j' = j + 1
  /\ succHost' = [succHost EXCEPT ![i][j] = host1, ![j][i] = FrontHost(j)]
  /\ UNCHANGED <<pc, step, hosts, popped, i, host1, exitCode>>

\* Host1Exception (lines 206-230): hostname1 is popped, the row and column
\* of i are demoted, i = i - 1, j = 0, break; the outer loop's i = i + 1
\* then brings the sweep back to the same i.
Host1Fails ==
  /\ Attempt
  /\ popped' = [popped EXCEPT ![i] = @ + 1]
  /\ matrix' = Demote(i)
  /\ pc' = "outer" /\ j' = 0
  /\ UNCHANGED <<step, hosts, i, host1, counter, exitCode, succHost>>

\* Mutation: the handler of Host2Exception ends without break, so the inner
\* loop goes on with the hostname1 read before the pop.
Host2FailsNoBreak ==
  /\ Attempt
  /\ popped' = [popped EXCEPT ![j] = @ + 1]
  /\ matrix' = Demote(j)
  /\ j' = j + 1
  /\ UNCHANGED <<pc, step, hosts, i, host1, counter, exitCode, succHost>>

\* Host2Exception (lines 232-258): hostname2 is popped, the row and column
\* of j are demoted, i = j - 1 if i > j, j = 0, break; then i = i + 1.
Host2Fails ==
  /\ Attempt
  /\ popped' = [popped EXCEPT ![j] = @ + 1]
  /\ matrix' = Demote(j)
  /\ pc' = "outer" /\ j' = 0
  /\ i' = (IF i > j THEN j - 1 ELSE i) + 1
  /\ UNCHANGED <<step, hosts, host1, counter, exitCode, succHost>>

\* FatalException (lines 260-269): sys.exit(3).
FatalFails ==
  /\ Attempt
  /\ pc' = "exited" /\ exitCode' = 3
  /\ UNCHANGED <<step, hosts, popped, matrix, i, j, host1, counter, succHost>>

\* SmallException (lines 271-283): the pair is set to 4, counter and j
\* advance.
SmallFails ==
  /\ Attempt
  /\ matrix' = SetPair(ISOLATED)
  /\ counter' = counter + 1
  /\ j' = j + 1
  /\ UNCHANGED <<pc, step, hosts, popped, i, host1, exitCode, succHost>>

\* Any other exception (a paramiko or configparser error in the controller)
\* is not caught by the try of line 183: the interpreter exits with 1.
OtherFails ==
  /\ Attempt
  /\ pc' = "exited" /\ exitCode' = 1
  /\ UNCHANGED <<step, hosts, popped, matrix, i, j, host1, counter, succHost>>

-----------------------------------------------------------------------------
(* Completion (lines 326-358).                                             *)

EndSweep ==
  /\ pc = "outer" /\ i >= NumCountries
  /\ pc' = "completion" /\ step' = 1
  /\ UNCHANGED <<hosts, popped, matrix, i, j, host1, counter, exitCode,
                 succHost>>

CompletionStep ==
  /\ pc = "completion" /\ step <= CompletionSteps
  /\ step' = step + 1
  /\ UNCHANGED <<pc, hosts, popped, matrix, i, j, host1, counter, exitCode,
                 succHost>>

\* check_call of a completion step raises outside any try: exit status 1.
CompletionStepFails ==
  /\ pc = "completion" /\ step <= CompletionSteps
  /\ pc' = "exited" /\ exitCode' = 1
  /\ UNCHANGED <<step, hosts, popped, matrix, i, j, host1, counter, succHost>>

\* The matrix is written to the log and execute() returns.
Finish ==
  /\ pc = "completion" /\ step > CompletionSteps
  /\ pc' = "exited" /\ exitCode' = 0
  /\ UNCHANGED <<step, hosts, popped, matrix, i, j, host1, counter, succHost>>

-----------------------------------------------------------------------------
Next ==
  \/ InitStep \/ InitStepFails \/ StartSweep
  \/ SkipCountry1 \/ EnterCountry1 \/ LeaveCountry1
  \/ SkipCountry2 \/ SkipPair
  \/ ExperimentSucceeds \/ Host1Fails \/ Host2Fails
  \/ FatalFails \/ SmallFails \/ OtherFails
  \/ EndSweep \/ CompletionStep \/ CompletionStepFails \/ Finish

\* One sequential control flow: whatever step is enabled is eventually taken.
Spec == Init /\ [][Next]_vars /\ WF_vars(Next)

-----------------------------------------------------------------------------
(* Properties                                                              *)

TypeOK ==
  /\ pc \in {"init", "outer", "inner", "completion", "exited"}
  /\ step \in 1 .. InitSteps + CompletionSteps + 1
  /\ hosts \in [Country -> 0 .. MaxHosts]
  /\ \A c \in Country : popped[c] \in 0 .. hosts[c]
  /\ matrix \in [Country -> [Country -> EXHAUSTED .. ISOLATED]]
  /\ i \in 0 .. NumCountries /\ j \in 0 .. NumCountries
  /\ host1 \in 0 .. MaxHosts
  /\ counter \in Nat
  /\ exitCode \in {0, 1, 3}
  /\ succHost \in [Country -> [Country -> 0 .. MaxHosts]]

\* The read of the input file (module InputGrouping) is faithful on every
\* file of up to MaxLines lines: GroupingFaithful and GroupsHaveHosts hold
\* of the constants alone and are checked in the states before the read,
\* from which StartSweep takes its groups.
ReadFaithful == pc = "init" => GroupingFaithful /\ GroupsHaveHosts

\* Lines 200-201, 223-226 and 250-253 keep the matrix symmetric: the pair
\* (a, b) and the pair (b, a) always have the same status.
MatrixSymmetric == \A a, b \in Country : matrix[a][b] = matrix[b][a]

\* "We want all experiments for one server executed from one hostname"
\* (comment of lines 208-215): a pair counts as SUCCEEDED only while both
\* of its countries still offer the hostnames that experiment was run with.
\* Broken if a pop (lines 220, 247) misses a demotion, or if the hostname1
\* read at line 166 is used after group i has lost it.
SucceededWithCurrentHosts ==
  \A a, b \in Country :
    matrix[a][b] = SUCCEEDED =>
      /\ succHost[a][b] = FrontHost(a)
      /\ succHost[b][a] = FrontHost(b)

\* A pair set to 4 after a SmallException (line 272) is never measured or
\* changed again in the same run: neither a demotion (lines 223-226,
\* 250-253) nor an exhaustion (lines 300-303, 318-321) touches it.
IsolatedIsFinal ==
  [][\A a, b \in Country :
       matrix[a][b] = ISOLATED => matrix'[a][b] = ISOLATED]_vars

\* The sweep of lines 161-324 always ends: every pop shrinks a group and
\* between pops every step advances j or i, so the process exits.
Termination == <>(pc = "exited")

\* When the sweep ends (line 326), the matrix is the audit record of the
\* run (spec section 4.1, "Exhaustion" and "Termination"): a pair of two
\* countries that both still have a hostname was measured (3 or 4); it
\* is never left UNTRIED or DEMOTED.
AuditComplete ==
  pc = "completion" =>
    \A a, b \in Country :
      HasHost(a) /\ HasHost(b) => matrix[a][b] \in {SUCCEEDED, ISOLATED}

====
