------------------------------- MODULE Network -------------------------------
(***************************************************************************)
(* The network setup of one router: src/network/network.py.  It is the    *)
(* process behind the handles setup_network_1 (a local subprocess) and    *)
(* setup_network_2 (an SSH channel with a pty) of the controller.         *)
(*                                                                         *)
(* set_up() runs the configured steps in order: a step that ends is run   *)
(* with check_call, one that does not is started with Popen in its own    *)
(* session and appended to running_commands.  Then the script monitors    *)
(* the started commands.  SIGHUP (the channel is closed) and SIGINT       *)
(* (clean_up of the controller) run close(), which terminates every       *)
(* tracked command and exits.                                             *)
(***************************************************************************)
EXTENDS Integers, Sequences, SequencesExt

CONSTANT Steps   \* Steps[k]: "ends" or "runs", the getboolean('ends') of
                 \* section step<k> of network.ini

ASSUME Steps \in Seq({"ends", "runs"}) /\ Len(Steps) > 0

Step == 1 .. Len(Steps)

VARIABLES
  pc,               \* "step", "append", "monitor" or "exited"
  i,                \* the step index of the loop of line 70
  cmd,              \* cmd[k]: "idle", "running", "exited" (on its own) or
                    \* "killed" (SIGTERM to its process group)
  running_commands, \* the global list of started commands, in start order
  signalled         \* history: close() has run

vars == <<pc, i, cmd, running_commands, signalled>>

\* os.killpg(command.pid, signal.SIGTERM) for every command of S that runs.
Kill(S) ==
  [k \in Step |-> IF k \in S /\ cmd[k] = "running" THEN "killed" ELSE cmd[k]]

Init ==
  /\ pc = "step"
  /\ i = 1
  /\ cmd = [k \in Step |-> "idle"]
  /\ running_commands = <<>>
  /\ signalled = FALSE

-----------------------------------------------------------------------------
(* The steps, lines 68-87.                                                 *)

\* A step with ends = true: check_call succeeds, sleep(timeout), next step.
RunStep ==
  /\ pc = "step" /\ i <= Len(Steps) /\ Steps[i] = "ends"
  /\ i' = i + 1
  /\ UNCHANGED <<pc, cmd, running_commands, signalled>>

\* check_call raises: the except of lines 103-112 terminates every tracked
\* command that still runs and calls sys.exit(3).
RunStepFails ==
  /\ pc = "step" /\ i <= Len(Steps) /\ Steps[i] = "ends"
  /\ cmd' = Kill(ToSet(running_commands))
  /\ pc' = "exited"
  /\ UNCHANGED <<i, running_commands, signalled>>

\* Lines 81-83: the command is started with Popen(preexec_fn=os.setsid).
StartStep ==
  /\ pc = "step" /\ i <= Len(Steps) /\ Steps[i] = "runs"
  /\ cmd' = [cmd EXCEPT ![i] = "running"]
  /\ pc' = "append"
  /\ UNCHANGED <<i, running_commands, signalled>>

\* Mutation: the index appended is off by one.
AppendStepNext ==
  /\ pc = "append"
  /\ running_commands' = Append(running_commands, i + 1)
  /\ i' = i + 1 /\ pc' = "step"
  /\ UNCHANGED <<cmd, signalled>>

\* Lines 84-86: running_commands = running_commands + [run_command], then
\* sleep(timeout) and the next step.
AppendStep ==
  /\ pc = "append"
  /\ running_commands' = Append(running_commands, i)
  /\ i' = i + 1 /\ pc' = "step"
  /\ UNCHANGED <<cmd, signalled>>

\* All steps done: the monitoring loop of line 88 starts.
StartMonitor ==
  /\ pc = "step" /\ i > Len(Steps)
  /\ pc' = "monitor"
  /\ UNCHANGED <<i, cmd, running_commands, signalled>>

-----------------------------------------------------------------------------
(* The monitoring loop, lines 88-101.  Only the first command is looked   *)
(* at: command.communicate() and raise of lines 98-100 belong to the for  *)
(* loop, not to the if of line 90, so the loop waits for the first        *)
(* command to end and raises then, whichever command ended.  The raise    *)
(* reaches the except of lines 103-112: every command that still runs is  *)
(* terminated, sys.exit(3).                                                *)

\* Mutation: the raise ends the script without the except branch's kill.
FirstCommandEndsNoKill ==
  /\ pc = "monitor" /\ running_commands # <<>>
  /\ cmd[Head(running_commands)] = "exited"
  /\ pc' = "exited"
  /\ UNCHANGED <<i, cmd, running_commands, signalled>>

FirstCommandEnds ==
  /\ pc = "monitor" /\ running_commands # <<>>
  /\ cmd[Head(running_commands)] = "exited"
  /\ cmd' = Kill(ToSet(running_commands))
  /\ pc' = "exited"
  /\ UNCHANGED <<i, running_commands, signalled>>

-----------------------------------------------------------------------------
(* The environment.                                                        *)

\* A started command (the tunnel, a capture) ends by itself.
CommandEnds(k) ==
  /\ cmd[k] = "running"
  /\ cmd' = [cmd EXCEPT ![k] = "exited"]
  /\ UNCHANGED <<pc, i, running_commands, signalled>>

\* SIGHUP or SIGINT arrives; close(), lines 34-40, terminates the commands
\* of running_commands and exits.  The handler runs between two bytecodes
\* of the main program, at any control location.
Signal ==
  /\ pc # "exited"
  /\ cmd' = Kill(ToSet(running_commands))
  /\ pc' = "exited" /\ signalled' = TRUE
  /\ UNCHANGED <<i, running_commands>>

-----------------------------------------------------------------------------
Next ==
  \/ RunStep \/ RunStepFails \/ StartStep \/ AppendStep \/ StartMonitor
  \/ FirstCommandEnds
  \/ \E k \in Step : CommandEnds(k)
  \/ Signal

\* The script is one thread: its own steps are weakly fair; the commands
\* ending and the signals come from outside and are not.
Fairness ==
  /\ WF_vars(RunStep \/ StartStep \/ AppendStep \/ StartMonitor)
  /\ WF_vars(FirstCommandEnds)

Spec == Init /\ [][Next]_vars /\ Fairness

-----------------------------------------------------------------------------
(* Properties                                                              *)

TypeOK ==
  /\ pc \in {"step", "append", "monitor", "exited"}
  /\ i \in 1 .. Len(Steps) + 1
  /\ cmd \in [Step -> {"idle", "running", "exited", "killed"}]
  /\ running_commands \in Seq(Step)
  /\ signalled \in BOOLEAN

\* Whenever the script has exited, by close() or by its except branch, no
\* command of running_commands is left running: they run in their own
\* sessions (os.setsid), so nothing else would stop them.
TrackedKilledOnExit ==
  pc = "exited" => \A k \in ToSet(running_commands) : cmd[k] # "running"

\* After a SIGHUP or SIGINT no command the script has started survives it:
\* closing the SSH channel is how the controller stops the remote network
\* setup (controller.py lines 158-162, network.py lines 124-128).
NoOrphanAfterSignal ==
  signalled => \A k \in Step : cmd[k] # "running"

\* "If the tunnel isn't running anymore terminate tcpdump and raise an
\* exception" (lines 91-94): once a started command has ended, the script
\* exits, so that the controller's poll of its handle sees the failure.
ExitsWhenCommandEnds ==
  \A k \in Step : (cmd[k] = "exited") ~> (pc = "exited")

====
