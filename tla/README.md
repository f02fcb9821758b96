# TLA+ models of MATAdOR

These modules model the control logic of MATAdOR, a measurement testbed.
For every pair of countries, MATAdOR routes the traffic of two smartphones through tunnels
to hostnames in those countries and records what the apps send.
The models cover the code under `src/`. Each module is written from the Python source,
and `PROJECT.json` maps every definition to the lines it translates.

## The system

| Part | Source | What it does |
|------|--------|--------------|
| Pairing scheduler | `src/wrapper/wrapper.py` | Runs the initialization steps and reads the input file into groups of hostnames per country. Then it sweeps the symmetric country-pair matrix, calling `controller.experiment` for each pair to try. It reacts to the four exception classes, runs the completion steps and logs the matrix. |
| Experiment coordinator | `src/controller/controller.py` | Runs one experiment, in this order: connect by SSH to router 2, start network setup 1 (local, `setsid`) and 2 (SSH channel with a pty), set up the location, check both networks. Then, for each app, it polls the tunnels, starts two captures, checks them, runs the app, stops the captures and runs the two analyses. Finally it saves the results on both routers and tears everything down. `clean_up` and `force_stop` release what was started. |
| Network supervisor | `src/network/network.py` | Runs on each router. It runs the configured steps in order: `check_call` for a step that ends, `Popen` into `running_commands` for one that does not. Then it monitors them. SIGHUP and SIGINT run `close()`, which terminates every tracked command. |
| Check / forced tear-down | `src/network/network_check.py`, `network_force_tear_down.py` | One-shot scripts. The controller sees only their exit status. |
| Smartphone control | `src/mobilephonecontroller/*` | The class `adb` scripts the phones: screen, wifi, starting and stopping apps, sending messages, the iptables chain, XPrivacy's fake location. Five scripts are built on it. `iptables_setup` sets up the firewall once. `xprivacy_setup` is the controller's location setup. `app_execution` or `empty_execution` is the workload. `clean_up` is the workload's compensation. |
| Analysis | `src/analysis/analysis.py` | `analyze()` reads a capture with scapy. It writes DNS answers to files and collects the remote end (protocol, IP, port) of every other UDP and TCP connection, minus the blacklists. Then it runs a path measurement to each end over ssh, either all at once (`Popen`, then `communicate` in order) or one by one (`check_output`). The controller sees only its exit status. |

The parts interact as follows:
- The wrapper calls the controller in the same process and learns the outcome from the exception class that comes back.
- The controller starts network supervisors: a child process locally, and an SSH channel on router 2.
- The controller stops a supervisor with SIGINT (`clean_up` on a Popen) or by closing the channel (SIGHUP on the remote side).
- `force_stop` then runs the forced tear-down scripts as a safety net.

## Modules

| Module | Models | State | Actions |
|--------|--------|-------|---------|
| `Wrapper` | `execute()` of wrapper.py | `pc`, the loop indices `i`, `j`, the hostname groups as `hosts`/`popped` (the group's front hostname is `popped+1`), `matrix`, `host1` (the hostname1 read at line 166), `counter`, `exitCode`. History: `succHost`, the hostnames a SUCCEEDED cell was measured with. | One action per branch of the sweep: skip or enter a country, skip a pair, attempt. There is one action for each way `experiment` can end: success, Host1, Host2, Fatal, Small, and any other exception. Also the initialization and completion steps and their failures. |
| `Controller` | `experiment()`, `clean_up`, `force_stop` | `pc` (the stage), `app` (loop index), `h` (the state of each handle `net1 net2 meas1 meas2 ana2`: idle, running, exited, stopped), `torn` (sites whose forced tear-down ran), `down` (sites broken by the environment), `detected` (history: the site whose handle death a poll saw), `outcome`. | One action per stage and per failure branch. The environment actions are `SiteBreaks`, `HandleExits` (only the handles of a broken site end) and `SshFails` (a paramiko error at a session open). |
| `TearDown` | `network_force_tear_down.py` | `procs` (the ps listing: command name and pgid width of each process), `alive`, `pc`, `target` (the line grep printed), `pgid` (the field split out of it), `exitCode`. A ps line is a sequence of character classes, and `Split` is `str.split(' ')` written as a RECURSIVE operator. An `ASSUME` checks `Split` against `SplitRef`, the pieces between separators (what Python's `str.split` returns), on every line ps can print. | Scan, ScanNothing, Kill, KillFails. |
| `InputGrouping` | `wrapper.py` 112-133 | None: the reading loop is a pure function of the file. | `ReadLine` is one pass of the loop and `ReadGroups` folds it over the file (`FoldLeftDomain`). `Grouping(f)` is the reference grouping of the spec. `Wrapper` extends this module and starts its sweep from `ReadGroups` of a file. |
| `Phone` | `mobilephonecontroller/*`, with the driving lines of `controller.py` (180-186, 217-305) and `wrapper.py` (95-106) | `phone` (per device: screen, wifi, started apps, iptables chain), `ctl` (which script runs, or between experiments), `app`, `exp`, `command` (app_execution or empty_execution), `todo` (the adb calls left to the running script), `status`, and `assumption`/`tries` of `start_wifi`. | Each adb method is an operator giving its sequence of calls, and each script is the concatenation of its methods. `CallSucceeds` applies a call's effect. `CallFails` raises and ends the script. `Ping`, `WifiUp`, `WifiRetry` and `WifiGivesUp` are start_wifi's check loop. The controller side is `SetupEnds`, `StartExperiment`, `LocationEnds`, `StartWorkload`, `ExperimentEnds`, `WorkloadEnds` and `CleanUpEnds`. |
| `Analysis` | `analyze()` of analysis.py | None: the script is a function of the capture, the configuration and the outcome of each measurement. | `ScanPacket` is one pass of the packet loop, with one CASE arm per branch of the code, and `Scan` folds it over the capture. `Parallel` and `Sequential` are the two measurement branches, and `Analyze` puts the scan and the measurements together. Python ints and strs are tagged (`PyInt`, `PyStr`), so that the code's comparisons across types come out as in Python. `Controller` extends this module: its analysis steps take their statuses from `Analyze`, and it checks the module's properties in its initial state. |
| `Network` | `set_up()`, `close()` | `pc`, `i`, the state of each command `cmd`, `running_commands`, `signalled` (history). | RunStep, RunStepFails, StartStep (Popen), AppendStep, StartMonitor, FirstCommandEnds (the monitor loop), plus the environment actions CommandEnds and Signal. |

Each `MC_*` module extends its module and gives values to its constants.

Data is abstracted throughout:
- Hostnames are indices into a group, and commands are step indices.
- File names, messages and logging are left out.
- A paramiko or subprocess failure is a nondeterministic alternative of the action that makes the call.
- An adb call is its operation, device and uid. The adb shell of these phones returns 0 whatever the remote command returns (this is why `start_wifi` reads the ping text), so a `check_call` fails only when the device cannot be reached. The iptables chain is a sequence of rules, and `Verdict` gives the first matching rule's target.

## Runs

| Run | Expect | What it shows |
|-----|--------|---------------|
| `wrapper_sweep` (`MC_Wrapper.cfg`) | pass | `ReadFaithful`: for every file of up to six lines over three codes, the reading loop builds exactly the reference grouping if the file is pre-grouped, and every group has a hostname whatever the order. The wrapper's `Init` relies on this (it is checked in the initial states, as it depends on the constants only). The sweep starts from the group sizes of such a file. The run covers 3 countries with 1–2 hostnames each, one initialization step and one completion step, and every outcome of every experiment. In all of them the matrix stays symmetric. A SUCCEEDED cell always names the current front hostnames of both countries, so demotion after a pop is complete. A cell set to 4 is never changed. The sweep always terminates. |
| `wrapper_audit` | violation | `AuditComplete`: at completion, every pair of two countries that both still have a hostname is measured (3 or 4). This is violated: a Host2Exception on a pair of a country with itself leaves `i` alone (line 255), so the sweep moves past the demoted country. In the trace, country 0 has two hostnames and loses the first one on its diagonal. Cell [0][0] stays UNTRIED, although the second hostname was never tried. |
| `controller_capture2_blame` (`MC_Controller_DemotesDetectedSite.cfg`) | violation | `DemotesDetectedSite`: once a poll saw a site's handle dead, the outcome blames that site. This is violated because line 266 raises SmallException for a dead capture on router 2. |
| `controller_experiment` (`MC_Controller.cfg`) | pass | The run uses two apps, and either site can break at any step. After every outcome the wrapper continues from (Success, Host1, Host2, Small), no tunnel or capture is left running unless its site's forced tear-down ran. A HostN outcome is only raised when site N really broke. `ScanFaithful`: for every capture of up to three packets, `analyze()` lists each remote end once, in order of appearance. The list has every end that is off both blacklists and no end with a blacklisted IP. `MeasureFaithful`: on status 0, in both modes, there is one file per target, in order, each holding that target's measurement. |
| `controller_orphan_exit` | violation | `NoOrphanOnExit`: an outcome that ends the wrapper (Fatal or an uncaught exception) leaves no local tunnel or capture running. This is violated by the location setup failure (line 186) and by SSH errors after setup 1 has started. |
| `controller_analysis` | violation | `AnalysisWaitedFor`: no recoverable outcome leaves analysis_2 running. Violated: when analysis_1 fails, line 333 raises SmallException without waiting for analysis_2 or closing its channel (spec 4.2 step 7d says both are waited for). |
| `teardown_reclaim` (`MC_TearDown_reclaim.cfg`) | violation | `TunnelReclaimed`: after the script, no tunnel is left. Violated: `split(' ')[1]` is the pgid only when it is one digit shorter than the PGID column. A 5-digit pgid gives the field `tunnel`, a pgid under 1000 gives `''`; kill fails, exit 3, and force_stop raises FatalException. `grep -m 1` also leaves a second tunnel alone. |
| `phone_session` (`MC_Phone.cfg`) | pass | The run uses three devices (iptables on two, XPrivacy on two, one with both), two apps in white-list mode, three experiments, both workload commands, and any adb call may fail. `InputOnAwakeScreen`: every tap, swipe and text reaches an awake screen, although `activate_screen` toggles the screen and scripts fail halfway. `WifiOffBetweenRuns`: between workloads, wifi is off and nothing is started on any device. `SessionEnds`: the retry loop of `start_wifi` is bounded, so the run of scripts ends. |
| `phone_firewall` (`MC_Phone_firewall.cfg`) | violation | `FirewallClosedWhenIdle`: between workloads, every app gets the set-up verdict (REJECT) on every iptables device. This is violated: when `app_execution` fails after `firewall_open_uid`, `clean_up.py` does not remove the RETURN rule. The app stays open for every later measurement. |
| `network_supervisor` (`MC_Network.cfg`) | pass | The run uses 7 steps (4 long-running). Whichever way the script exits, no tracked command still runs. |
| `network_signal_gap` | violation | `NoOrphanAfterSignal`: a signal between `Popen` (line 81) and the append (line 84) orphans the new command. |
| `network_monitor` | violation | `ExitsWhenCommandEnds`: the script should exit once a started command ends. But the monitor loop only waits on the first command (lines 98-100 are in the `for` body). |

Each property of a passing run has a mutant in `PROJECT.json`: a plausible bug in the definition it targets that makes TLC report the property violated.

### Bounds

Wrapper:
- With 3 countries, the sweep has a diagonal pair, pairs before and after the current country, and a country exhausted while others remain.
- Two hostnames per country let a pop leave a replacement, or leave the country exhausted.

Controller:
- Two apps are the fewest for which the poll at the start of the second app sees a tunnel that died during the first app.

TearDown (the `ASSUME` on `Split` and `teardown_reclaim`):
- pid_max = 32768 (the kernel default) gives a 5-character PGID column and pgids of 1 to 5 digits, so every width the column allows is tried.
- Two processes are enough to put a tunnel after another process, or two tunnels in one listing.

InputGrouping (in `wrapper_sweep`):
- Six lines over three codes give files where a code returns after another one, three groups, and groups of several hostnames. The sweep uses the files with three groups of at most two lines each.

Analysis (in `controller_experiment`):
- The captures have up to three packets, over every kind the code tells apart: UDP and TCP in both directions, DNS query and answer, no IPv4 layer, no transport.
- Two peers (one blacklisted) and two remote ports (one blacklisted) give a repeated end, two ends in either order, and every blacklist case of both protocols.

Phone:
- With three devices, the four messages wrap around the device list, and each flagged loop skips a device.
- Two apps let a leftover rule of the first app outlive the workload of the second.
- Three experiments let a failed workload be followed by a location setup and further workloads.

Network:
- Steps interleave commands that end with commands that run, and there is more than one long-running command. This is the least needed for the monitor bug and for the signal gap to matter.

Larger values add states but no new branch of the code.

### Fairness

- `Wrapper`: WF on `Next`. The wrapper is one sequential thread, and every experiment call returns or raises.
- `Network`: weak fairness on the script's own steps and on the monitor's reaction to the first command ending. Commands ending and signals arriving come from outside, so they get no fairness.
- `Controller`: no fairness. experiment() is straight-line code with bounded loops, and every branch returns or raises, so its ending needs no check. Its run checks safety properties only.
- `TearDown`: WF on `Next`; it is a straight-line script.
- `Phone`: WF on `Next`. The scripts, the controller and the wrapper run one after another in a single thread, and every adb call returns or raises. Deadlock checking is off because the wrapper really stops, after its last experiment or a fatal one.

## Not modelled, and what comes next

- The exit status of the wrapper after an exception of the controller outside the four classes: `Wrapper` models it (`OtherFails` exits with 1, where spec section 7 asks for 3), but no run checks it.
- Blank lines in the input file (helper[0] raises IndexError at wrapper.py line 121) are outside the input format, so the model's files have none. An empty file gives one group without code, and the wrapper then dies at line 312 with status 1.
- The controller across experiments. The wrapper calls experiment() in its own process. Both remote steps that exec_command starts, `tear_down_2` and `save_2`, run without being waited for, and a failing `tear_down_2` is never classified Fatal (spec 4.4). This is not modelled. When experiment() returns or raises, its frame is freed and paramiko's `Channel.__del__` closes the channel of setup_network_2. network.py on router 2 then gets its SIGHUP and kills its tunnel, so nothing is left running that a property could name.
- No refinement is checked. A mapping of `Controller` onto an abstract attempt (held resources, one report) only restated `ReleasedBeforeNextExperiment`. The ending of experiment() is not checked either, because it holds by the code's shape.
- network_check.py is a loop of check_calls that stops at the first failure, so its only observable result is its exit status. The controller sees that status as success or failure (`Check1` and `Check2` in `Controller`). Its commands come from network_check.ini, which is not in the repository, so a module of its own would have nothing left to model. This is why the component stays `partly`.
- In `Phone`, some parts of the scripts are left out:
  - `start_screencast` and the `os.killpg` of `stop_screencast`, `wait_in_messenger` and the sleeps. They change nothing modelled and cannot fail.
  - `firewall_stop_complete`, which no script calls.
  - The screenrecord time limit.
  - Coordinates, file names and the text replacement of `send_message`.
- In `Phone`, the stages of an experiment before the location setup and the capture, analysis and save steps are not modelled. They are one `ExperimentEnds` step, because they do not touch the phones.
- analysis.py: the TCP branch (line 133) tests the int port against a list of strings, so the port blacklist never applies to TCP. `ScanFaithful` states the port blacklist for completeness only. With "no target has a blacklisted port" added, TLC reports the property false for one TCP packet from a blacklisted port. No run of its own checks that.
- analysis.py: a UDP or TCP packet without an IPv4 layer makes the script exit with status 1 (`Analyze` models this). The DNS files' contents, the timestamps and the command strings are data and are not modelled.
