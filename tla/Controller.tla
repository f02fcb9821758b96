------------------------------ MODULE Controller -----------------------------
(***************************************************************************)
(* One experiment: experiment() of src/controller/controller.py, with its  *)
(* helpers clean_up() and force_stop().                                    *)
(*                                                                         *)
(* Endpoint 1 is driven by local subprocesses, endpoint 2 by channels of  *)
(* one SSH connection.  The long-running handles (the network setup and   *)
(* the capture of each endpoint) run concurrently with the controller: an *)
(* endpoint can break at any moment, after which its handles may exit.    *)
(* Every other external command is abstracted to its success or failure. *)
(***************************************************************************)
EXTENDS Integers, Analysis

CONSTANT NumApps   \* number of entries of [general] applications

ASSUME NumApps \in Nat \ {0}

Site == {1, 2}

\* setup_network_1, setup_network_2, setup_measurement_1,
\* setup_measurement_2, analysis_2
Handle == {"net1", "net2", "meas1", "meas2", "ana2"}

SiteOf(x) == IF x \in {"net1", "meas1"} THEN 1 ELSE 2

\* The handles that never end on their own while their endpoint works.
LongRunning == {"net1", "net2", "meas1", "meas2"}

Outcome == {"Success", "Host1", "Host2", "Small", "Fatal", "Other"}

VARIABLES
  pc,        \* control location in experiment()
  app,       \* index of the application of the loop of line 217
  h,         \* h[x]: "idle", "running", "exited" (on its own) or "stopped"
             \* (interrupted by clean_up)
  torn,      \* the sites whose network_tear_down script force_stop ran
  forced,    \* history: force_stop has been called
  down,      \* the endpoints that have broken (environment)
  detected,  \* history: the endpoint whose failure a liveness poll saw
  outcome    \* how experiment() ended: returned (Success) or raised

vars == <<pc, app, h, torn, forced, down, detected, outcome>>

\* clean_up(commands, channels), lines 83-93: every handle of S that is
\* still running is interrupted; ended ones are left alone.
CleanUp(S) ==
  [x \in Handle |-> IF x \in S /\ h[x] = "running" THEN "stopped" ELSE h[x]]

\* force_stop(config, ssh_worker), lines 96-112, followed by ending with o:
\* the local tear-down script runs with check_call, the remote one with
\* exec_command; either failing raises FatalException instead.
ForceStop(o) ==
  /\ forced' = TRUE
  /\ \/ torn' = torn \cup {1, 2} /\ outcome' = o
     \/ torn' = torn /\ outcome' = "Fatal"
     \/ torn' = torn \cup {1} /\ outcome' = "Fatal"

\* The error paths: clean_up(S), force_stop, raise o.
Abort(S, o) ==
  /\ h' = CleanUp(S)
  /\ ForceStop(o)
  /\ pc' = "done"
  /\ UNCHANGED <<app, down>>

Init ==
  /\ pc = "connect"
  /\ app = 1
  /\ h = [x \in Handle |-> "idle"]
  /\ torn = {}
  /\ forced = FALSE
  /\ down = {}
  /\ detected = 0
  /\ outcome = "Success"

-----------------------------------------------------------------------------
(* The environment: an endpoint breaks; its long-running handles may then *)
(* exit at any moment.                                                    *)

SiteBreaks(s) ==
  /\ pc # "done" /\ s \notin down
  /\ down' = down \cup {s}
  /\ UNCHANGED <<pc, app, h, torn, forced, detected, outcome>>

HandleExits(x) ==
  /\ x \in LongRunning /\ h[x] = "running" /\ SiteOf(x) \in down
  /\ h' = [h EXCEPT ![x] = "exited"]
  /\ UNCHANGED <<pc, app, torn, forced, down, detected, outcome>>

\* Opening an SSH session or connecting raises a paramiko error that no
\* try of experiment() catches: it propagates with nothing cleaned up
\* (lines 143, 164, 205, 250, 325).
SshFails ==
  /\ pc \in {"connect", "setup2", "check2", "capture2", "analysis2start"}
  /\ pc' = "done" /\ outcome' = "Other"
  /\ UNCHANGED <<app, h, torn, forced, down, detected>>

-----------------------------------------------------------------------------
(* The stages of experiment().                                            *)

\* Lines 137-144: the SSH connection to the second router.
Connect ==
  /\ pc = "connect"
  /\ pc' = "setup1"
  /\ UNCHANGED <<app, h, torn, forced, down, detected, outcome>>

\* Lines 150-154: setup_network_1 = Popen(..., preexec_fn=os.setsid).
StartNetwork1 ==
  /\ pc = "setup1"
  /\ h' = [h EXCEPT !["net1"] = "running"]
  /\ pc' = "setup2"
  /\ UNCHANGED <<app, torn, forced, down, detected, outcome>>

\* Lines 163-166: setup_network_2 in a session with a pty.
StartNetwork2 ==
  /\ pc = "setup2"
  /\ h' = [h EXCEPT !["net2"] = "running"]
  /\ pc' = "location"
  /\ UNCHANGED <<app, torn, forced, down, detected, outcome>>

\* Lines 180-189: the location setup succeeds, then sleep(100).
LocationSetup ==
  /\ pc = "location"
  /\ pc' = "check1"
  /\ UNCHANGED <<app, h, torn, forced, down, detected, outcome>>

\* Lines 183-186: the location setup fails: FatalException, raised with
\* both network setups still running.
LocationSetupFails ==
  /\ pc = "location"
  /\ pc' = "done" /\ outcome' = "Fatal"
  /\ UNCHANGED <<app, h, torn, forced, down, detected>>

\* Lines 195-202: network_check_1 passes unless endpoint 1 is broken.
Check1 ==
  /\ pc = "check1" /\ 1 \notin down
  /\ pc' = "check2"
  /\ UNCHANGED <<app, h, torn, forced, down, detected, outcome>>

Check1Fails ==
  /\ pc = "check1" /\ 1 \in down
  /\ Abort({"net2"}, "Host1")
  /\ UNCHANGED detected

\* Lines 204-211: network_check_2 on a new session, recv_exit_status.
Check2 ==
  /\ pc = "check2" /\ 2 \notin down
  /\ pc' = "loop"
  /\ UNCHANGED <<app, h, torn, forced, down, detected, outcome>>

Check2Fails ==
  /\ pc = "check2" /\ 2 \in down
  /\ Abort({"net1"}, "Host2")
  /\ UNCHANGED detected

-----------------------------------------------------------------------------
(* The application loop, lines 216-338.                                   *)

\* Mutation: the loop bound is off by one.
PollNetworksOffByOne ==
  /\ pc = "loop" /\ app <= NumApps + 1
  /\ h["net1"] = "running" /\ h["net2"] = "running"
  /\ pc' = "capture1"
  /\ UNCHANGED <<app, h, torn, forced, down, detected, outcome>>

\* Lines 219-228: the liveness poll of both network setups.
PollNetworks ==
  /\ pc = "loop" /\ app <= NumApps
  /\ h["net1"] = "running" /\ h["net2"] = "running"
  /\ pc' = "capture1"
  /\ UNCHANGED <<app, h, torn, forced, down, detected, outcome>>

Network1Exited ==
  /\ pc = "loop" /\ app <= NumApps /\ h["net1"] # "running"
  /\ detected' = 1
  /\ Abort({"net2"}, "Host1")

\* Mutation: the exit of setup_network_2 is reported as Host1Exception.
Network2ExitedBlamesHost1 ==
  /\ pc = "loop" /\ app <= NumApps /\ h["net1"] = "running"
  /\ h["net2"] # "running"
  /\ detected' = 2
  /\ Abort({"net1"}, "Host1")

Network2Exited ==
  /\ pc = "loop" /\ app <= NumApps /\ h["net1"] = "running"
  /\ h["net2"] # "running"
  /\ detected' = 2
  /\ Abort({"net1"}, "Host2")

\* Lines 233-246: setup_measurement_1 = Popen(...).
StartCapture1 ==
  /\ pc = "capture1"
  /\ h' = [h EXCEPT !["meas1"] = "running"]
  /\ pc' = "capture2"
  /\ UNCHANGED <<app, torn, forced, down, detected, outcome>>

\* Lines 248-254: setup_measurement_2 on a new session, then sleep(2).
StartCapture2 ==
  /\ pc = "capture2"
  /\ h' = [h EXCEPT !["meas2"] = "running"]
  /\ pc' = "capturecheck"
  /\ UNCHANGED <<app, torn, forced, down, detected, outcome>>

\* Lines 257-266: both captures must still be running.
CapturesRunning ==
  /\ pc = "capturecheck"
  /\ h["meas1"] = "running" /\ h["meas2"] = "running"
  /\ pc' = "app"
  /\ UNCHANGED <<app, h, torn, forced, down, detected, outcome>>

Capture1Exited ==
  /\ pc = "capturecheck" /\ h["meas1"] # "running"
  /\ detected' = 1
  /\ Abort({"net1", "net2", "meas2"}, "Host1")

\* Mutation: setup_measurement_1 is missing from the clean_up of line 264.
Capture2ExitedKeepsCapture1 ==
  /\ pc = "capturecheck" /\ h["meas1"] = "running" /\ h["meas2"] # "running"
  /\ detected' = 2
  /\ Abort({"net1", "net2"}, "Small")

\* Lines 262-266: the capture of endpoint 2 has exited: SmallException.
Capture2Exited ==
  /\ pc = "capturecheck" /\ h["meas1"] = "running" /\ h["meas2"] # "running"
  /\ detected' = 2
  /\ Abort({"meas1", "net1", "net2"}, "Small")

\* Lines 282-284 and 311-320: the application runs; both captures are
\* interrupted and analysis_1 runs (blocking, see Analysis1).
RunApp ==
  /\ pc = "app"
  /\ h' = CleanUp({"meas1", "meas2"})
  /\ pc' = "analysis2start"
  /\ UNCHANGED <<app, torn, forced, down, detected, outcome>>

\* Lines 285-305: the application fails; its clean_up command succeeds
\* (SmallException) or fails too (FatalException), after the same cleanup.
RunAppFails ==
  /\ pc = "app"
  /\ \E o \in {"Small", "Fatal"} :
       Abort({"net1", "meas1", "net2", "meas2"}, o)
  /\ UNCHANGED detected

\* Lines 322-327: analysis_2 on a new session.
StartAnalysis2 ==
  /\ pc = "analysis2start"
  /\ h' = [h EXCEPT !["ana2"] = "running"]
  /\ pc' = "analysis1"
  /\ UNCHANGED <<app, torn, forced, down, detected, outcome>>

\* The exit statuses analyze() (module Analysis) can end with, over every
\* capture, configuration and outcome of the path measurements.
AnalysisStatus ==
  {Analyze(c, par, inapp, ok).status :
     c \in Capture, par \in BOOLEAN, inapp \in BOOLEAN,
     ok \in [1 .. MaxPackets -> BOOLEAN]}

\* Lines 329-333: analysis_1.communicate(); a non-zero status raises
\* SmallException without waiting for analysis_2.
Analysis1 ==
  /\ pc = "analysis1" /\ 0 \in AnalysisStatus
  /\ pc' = "analysis2"
  /\ UNCHANGED <<app, h, torn, forced, down, detected, outcome>>

Analysis1Fails ==
  /\ pc = "analysis1" /\ \E st \in AnalysisStatus : st # 0
  /\ Abort({"net1", "net2"}, "Small")
  /\ UNCHANGED detected

\* Lines 335-338: analysis_2.recv_exit_status(); next application.
Analysis2 ==
  /\ pc = "analysis2"
  /\ h' = [h EXCEPT !["ana2"] = "exited"]
  /\ app' = app + 1 /\ pc' = "loop"
  /\ UNCHANGED <<torn, forced, down, detected, outcome>>

Analysis2Fails ==
  /\ pc = "analysis2"
  /\ h' = [CleanUp({"net1", "net2"}) EXCEPT !["ana2"] = "exited"]
  /\ ForceStop("Small")
  /\ pc' = "done"
  /\ UNCHANGED <<app, down, detected>>

-----------------------------------------------------------------------------
(* Saving and the final tear-down, lines 343-363.                         *)

\* All applications done: save_1 runs with check_call.
Save1 ==
  /\ pc = "loop" /\ app > NumApps
  /\ pc' = "save2"
  /\ UNCHANGED <<app, h, torn, forced, down, detected, outcome>>

Save1Fails ==
  /\ pc = "loop" /\ app > NumApps
  /\ Abort({"net1", "net2"}, "Small")
  /\ UNCHANGED detected

\* save_2 is started with exec_command; only an error opening the channel
\* is seen (SmallException).  Otherwise both network setups are
\* interrupted, force_stop runs and experiment() returns.
Save2 ==
  /\ pc = "save2"
  /\ Abort({"net1", "net2"}, "Success")
  /\ UNCHANGED detected

Save2Fails ==
  /\ pc = "save2"
  /\ Abort({"net1", "net2"}, "Small")
  /\ UNCHANGED detected

-----------------------------------------------------------------------------
Next ==
  \/ \E s \in Site : SiteBreaks(s)
  \/ \E x \in Handle : HandleExits(x)
  \/ SshFails
  \/ Connect \/ StartNetwork1 \/ StartNetwork2
  \/ LocationSetup \/ LocationSetupFails
  \/ Check1 \/ Check1Fails \/ Check2 \/ Check2Fails
  \/ PollNetworks \/ Network1Exited \/ Network2Exited
  \/ StartCapture1 \/ StartCapture2
  \/ CapturesRunning \/ Capture1Exited \/ Capture2Exited
  \/ RunApp \/ RunAppFails \/ StartAnalysis2
  \/ Analysis1 \/ Analysis1Fails \/ Analysis2 \/ Analysis2Fails
  \/ Save1 \/ Save1Fails \/ Save2 \/ Save2Fails

Spec == Init /\ [][Next]_vars

-----------------------------------------------------------------------------
(* Properties                                                              *)

TypeOK ==
  /\ pc \in {"connect", "setup1", "setup2", "location", "check1", "check2",
             "loop", "capture1", "capture2", "capturecheck", "app",
             "analysis2start", "analysis1", "analysis2", "save2", "done"}
  /\ app \in 1 .. NumApps + 1
  /\ h \in [Handle -> {"idle", "running", "exited", "stopped"}]
  /\ torn \subseteq Site /\ down \subseteq Site
  /\ forced \in BOOLEAN
  /\ detected \in {0} \cup Site
  /\ outcome \in Outcome

\* An endpoint's handle no longer runs, or (for the network setup) the
\* tear-down script of its endpoint has killed the tunnel.
Released(x) ==
  \/ h[x] # "running"
  \/ x \in {"net1", "net2"} /\ SiteOf(x) \in torn

\* After a Success, Host1, Host2 or Small outcome the wrapper goes on with
\* the next pair on the same two routers, so no tunnel or capture of this
\* experiment may survive it (spec sections 1 and 4.2 step 9).  Each error
\* path of experiment() names its own handles for clean_up.
ReleasedBeforeNextExperiment ==
  pc = "done" /\ outcome \in {"Success", "Host1", "Host2", "Small"} =>
    \A x \in LongRunning : Released(x)

\* A hostname is discarded only for a real failure of its endpoint: an
\* experiment ends with Host1 (Host2) only when endpoint 1 (2) has broken.
DemotesOnlyBrokenSite ==
  /\ outcome = "Host1" /\ pc = "done" => 1 \in down
  /\ outcome = "Host2" /\ pc = "done" => 2 \in down

\* A failure of endpoint s that a liveness poll detects demotes endpoint s
\* (spec section 4.2, step 7b: "same failure classification as 7a"),
\* unless the run is aborted as Fatal.
DemotesDetectedSite ==
  pc = "done" /\ detected # 0 /\ outcome \notin {"Fatal", "Other"} =>
    outcome = IF detected = 1 THEN "Host1" ELSE "Host2"

\* Whenever experiment() raises an exception that ends the whole process
\* (Fatal, or one the wrapper does not catch), the local handles, which
\* run in their own sessions (os.setsid) and so outlive the process, have
\* been released first (spec sections 1 and 4.2 step 3), or at least
\* force_stop has tried to (its failure is accepted as unrecoverable).
\* The remote handles end with the SSH connection.
NoOrphanOnExit ==
  pc = "done" /\ outcome \in {"Fatal", "Other"} =>
    forced \/ \A x \in {"net1", "meas1"} : Released(x)

\* The analysis of an application runs on both routers and the attempt
\* "blocks until both complete" (spec section 4.2, step 7d): no outcome
\* after which the wrapper goes on leaves analysis_2 running on router 2.
AnalysisWaitedFor ==
  pc = "done" /\ outcome \in {"Success", "Host1", "Host2", "Small"} =>
    h["ana2"] # "running"

\* The scripts behind Analysis1 and Analysis2: analyze() lists each remote
\* end of the capture's connections once, in order of appearance, none on
\* the IP blacklist and all that are off both blacklists (Analysis's
\* TargetsFaithful).  A property of the constants: checked in the initial
\* state.
ScanFaithful == pc = "connect" => TargetsFaithful

\* When analyze() reports success, it wrote one file per target, in order,
\* each named after its target and holding that target's path measurement
\* (Analysis's ResultsMatchTargets); checked in the initial state.
MeasureFaithful == pc = "connect" => ResultsMatchTargets

====
