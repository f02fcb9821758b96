-------------------------------- MODULE Phone --------------------------------
(***************************************************************************)
(* Smartphone control: the adb class of src/mobilephonecontroller/adb.py   *)
(* and the scripts built on it (iptables_setup, xprivacy_setup,            *)
(* app_execution, empty_execution, clean_up), run by the controller over   *)
(* a series of experiments.                                                *)
(*                                                                         *)
(* Every method of adb is a loop of adb commands, one per device (or per   *)
(* device with a flag), run with check_call.  The adb shell of these       *)
(* phones returns 0 whatever the remote command returns (start_wifi reads  *)
(* the ping output for that reason), so a call fails only when adb cannot *)
(* reach the device; it then raises, and the script ends with a non-zero  *)
(* status, leaving the phones as the calls before it made them.  A script *)
(* is modelled as the sequence of the adb calls it makes, in order; the   *)
(* only data kept is what the calls change: screen, wifi, the started     *)
(* applications and the iptables chain of each device.                    *)
(*                                                                         *)
(* The controller side (controller.py lines 180-186 and 217-305) runs the *)
(* location script once per experiment, then the workload script for each *)
(* application; a failed workload is followed by the clean_up script.     *)
(***************************************************************************)
EXTENDS Integers, Sequences, SequencesExt

CONSTANTS
  NumDevices,       \* number of entries of [general] devices of adb.ini
  AppSeq,           \* [general] applications, in order
  IptablesDevices,  \* the devices whose [device] iptables flag is set
  XprivacyDevices,  \* the devices whose [device] xprivacy flag is set
  WhiteList,        \* [iptables] white_list
  Selected,         \* [iptables] selected_uid
  MaxExperiments    \* experiments of the run

Dev  == 1 .. NumDevices
Apps == ToSet(AppSeq)

ASSUME NumDevices \in Nat \ {0} /\ AppSeq # <<>>
ASSUME IptablesDevices \subseteq Dev /\ XprivacyDevices \subseteq Dev
ASSUME WhiteList \in BOOLEAN /\ Selected \cap Apps = {}
ASSUME MaxExperiments \in Nat

\* An iptables rule of the chain: the uid it matches ("range" for the
\* configured uid range, which holds every application) and its target.
Rule == [uid : Apps \cup Selected \cup {"range"}, target : {"RETURN", "REJECT"}]

\* The state of one device.
Device == [screen : BOOLEAN, wifi : BOOLEAN,
           apps : SUBSET (Apps \cup {"xprivacy"}), chain : Seq(Rule)]

\* One adb command to device dev (0 for a local command), about uid.
Call(op, dev, uid) == [op |-> op, dev |-> dev, uid |-> uid, target |-> "none"]

\* An iptables command inserting, appending or deleting a rule.
Fw(op, dev, uid, target) == [op |-> op, dev |-> dev, uid |-> uid, target |-> target]

\* for device in self.devices: the command op to every device, in order.
ForDevices(op, uid) == [d \in Dev |-> Call(op, d, uid)]

\* The same loop restricted to the devices of a flag.
ForFlagged(S, calls) == SelectSeq(calls, LAMBDA c : c.dev \in S)

\* The first rule of the chain matching uid decides (iptables -I puts a
\* rule first, -A last); RETURN goes back to OUTPUT, which accepts.
Verdict(chain, u) ==
  LET k == SelectInSeq(chain, LAMBDA r : r.uid \in {u, "range"})
  IN  IF k = 0 THEN "ACCEPT" ELSE chain[k].target

\* What a successful adb command does to its device.
Effect(c, r) ==
  CASE c.op = "power"     -> [r EXCEPT !.screen = ~@]
    [] c.op = "sleep"     -> [r EXCEPT !.screen = FALSE]
    [] c.op = "wifion"    -> [r EXCEPT !.wifi = TRUE]
    [] c.op = "wifioff"   -> [r EXCEPT !.wifi = FALSE]
    [] c.op = "amstart"   -> [r EXCEPT !.apps = @ \cup {c.uid}]
    [] c.op = "forcestop" -> [r EXCEPT !.apps = @ \ {c.uid}]
    [] c.op = "fwinsert"  ->
         [r EXCEPT !.chain = <<[uid |-> c.uid, target |-> c.target]>> \o @]
    [] c.op = "fwappend"  ->
         [r EXCEPT !.chain = Append(@, [uid |-> c.uid, target |-> c.target])]
    [] c.op = "fwdelete"  ->
         [r EXCEPT !.chain = RemoveFirst(@, [uid |-> c.uid, target |-> c.target])]
    [] OTHER              -> r

-----------------------------------------------------------------------------
(* The methods of class adb, as the commands they run.                    *)

\* activate_screen (lines 124-142): keyevent 26 (the power key, which
\* toggles the screen) to every device, then a swipe to unlock each.
activate_screen == ForDevices("power", "none") \o ForDevices("swipe", "none")

\* sleep (lines 144-151): keyevent 223 puts every screen off.
sleep == ForDevices("sleep", "none")

\* start_wifi (lines 85-116): enable, then ping from every device; the
\* check decides whether to retry.
start_wifi ==
  ForDevices("wifion", "none") \o ForDevices("ping", "none")
    \o <<Call("wificheck", 0, "none")>>

\* One retry of the while loop (lines 101-113): disable and enable wifi on
\* each device, ping again, check again.
wifi_retry ==
  FlattenSeq([d \in Dev |-> <<Call("wifioff", d, "none"),
                               Call("wifion", d, "none")>>])
    \o ForDevices("ping", "none") \o <<Call("wificheck", 0, "none")>>

\* stop_wifi (lines 118-122).
stop_wifi == ForDevices("wifioff", "none")

\* start_application (lines 153-184): am start on every device, then two
\* taps on each (conversation, text field).
start_application(a) ==
  ForDevices("amstart", a) \o ForDevices("tap", "none")
    \o ForDevices("tap", "none")

\* send_message (lines 226-256), called four times by app_execution (lines
\* 69-73): the text source runs locally, then text and send tap go to
\* devices[switch]; switch is a class attribute, 0 in every new script, and
\* advances modulo the number of devices.
send_message(n) ==
  LET d == ((n - 1) % NumDevices) + 1
  IN  <<Call("text_source", 0, "none"), Call("text", d, "none"),
        Call("tap", d, "none")>>

\* close_application (lines 186-194): am force-stop on every device.
close_application(a) == ForDevices("forcestop", a)

\* stop_screencast (lines 212-224): os.killpg of each recording (a missing
\* process is ignored), then adb pull of its video, which may fail.
stop_screencast == ForDevices("pull", "none")

\* firewall_open_uid (lines 392-406): iptables -I chain ... -j RETURN for
\* the application's uid, on every device with iptables.
firewall_open_uid(a) ==
  ForFlagged(IptablesDevices, [d \in Dev |-> Fw("fwinsert", d, a, "RETURN")])

\* firewall_close_uid (lines 408-422): iptables -D of that rule, which
\* deletes its first occurrence.
firewall_close_uid(a) ==
  ForFlagged(IptablesDevices, [d \in Dev |-> Fw("fwdelete", d, a, "RETURN")])

\* firewall_set_up (lines 345-378): per device with iptables, create the
\* chain and hook it into OUTPUT, then the default rule for the whole uid
\* range and a rule of the other target before it for each selected uid.
firewall_set_up ==
  LET dflt == IF WhiteList THEN "REJECT" ELSE "RETURN"
      sel  == IF WhiteList THEN "RETURN" ELSE "REJECT"
      one(d) == <<Call("fwcreate", d, "none"), Fw("fwappend", d, "range", dflt)>>
                  \o SetToSeq({Fw("fwinsert", d, u, sel) : u \in Selected})
  IN  ForFlagged(IptablesDevices, FlattenSeq([d \in Dev |-> one(d)]))

\* xprivacy_set_fake_location (lines 268-343), on the devices with xprivacy:
\* push the settings file and start the import activity on each, then the
\* file and ok taps, the second ok tap, and force-stop of XPrivacy.
xprivacy_set_fake_location ==
  ForFlagged(XprivacyDevices,
    FlattenSeq([d \in Dev |-> <<Call("push", d, "none"),
                                 Call("amstart", d, "xprivacy")>>])
      \o FlattenSeq([d \in Dev |-> <<Call("tap", d, "none"),
                                      Call("tap", d, "none")>>])
      \o ForDevices("tap", "none") \o ForDevices("forcestop", "xprivacy"))

-----------------------------------------------------------------------------
(* The scripts.  start_screencast (lines 196-210) only Popens local adb    *)
(* processes, and wait_in_messenger and the sleeps only wait: they change *)
(* nothing that is modelled and cannot fail, so they add no call.         *)

\* iptables_setup.py, lines 22-33.  No code of the repository runs it; it
\* is taken to be an initialization step of the wrapper (wrapper.py lines
\* 95-106), the one place where a set-up command runs once per run.
iptables_setup == firewall_set_up

\* xprivacy_setup.py, lines 22-60 (steps 1-5).
xprivacy_setup ==
  activate_screen \o xprivacy_set_fake_location \o sleep \o stop_screencast

\* app_execution.py, lines 23-85 (steps 1-12).
app_execution(a) ==
  activate_screen \o firewall_open_uid(a) \o start_wifi
    \o start_application(a) \o FlattenSeq([n \in 1 .. 4 |-> send_message(n)])
    \o close_application(a) \o firewall_close_uid(a) \o stop_wifi \o sleep
    \o stop_screencast

\* empty_execution.py, lines 23-65 (steps 1-7).
empty_execution ==
  activate_screen \o start_wifi \o stop_wifi \o sleep \o stop_screencast

\* Mutation: clean_up leaves the screens on.
clean_up_keeps_screen ==
  stop_wifi \o FlattenSeq([n \in DOMAIN AppSeq |-> close_application(AppSeq[n])])

\* Mutation: clean_up leaves wifi on.
clean_up_keeps_wifi ==
  FlattenSeq([n \in DOMAIN AppSeq |-> close_application(AppSeq[n])]) \o sleep

\* clean_up.py, lines 23-43: stop wifi, close every application, sleep.
clean_up ==
  stop_wifi
    \o FlattenSeq([n \in DOMAIN AppSeq |-> close_application(AppSeq[n])])
    \o sleep

-----------------------------------------------------------------------------
VARIABLES
  phone,       \* phone[d]: the state of device d
  ctl,         \* the controller: "init", "location", "apps", "workload",
               \* "cleanup", "between" (experiments) or "stopped"
  app,         \* index into AppSeq of the loop of controller.py line 217
  exp,         \* experiments started
  command,     \* the [app_execution] command: app_execution or empty_execution
  todo,        \* the adb calls the running script has still to make
  status,      \* "running", or "failed" once a call has raised
  assumption,  \* start_wifi: a device reported the network unreachable
  tries        \* start_wifi: the retry counter

vars == <<phone, ctl, app, exp, command, todo, status, assumption, tries>>

\* The controller's states in which a script runs.
Scripts == {"init", "location", "workload", "cleanup"}

\* Start script calls in controller state c (check_call of a new process:
\* start_wifi's variables start afresh).
Run(c, calls) ==
  /\ ctl' = c /\ todo' = calls /\ status' = "running"
  /\ assumption' = FALSE /\ tries' = 1

\* The workload script for application a.
Workload(a) ==
  IF command = "app_execution" THEN app_execution(a) ELSE empty_execution

\* The phones start asleep, with wifi off, no application started and no
\* chain: the power key of activate_screen relies on the first, and
\* firewall_set_up creates the chain (iptables -N).
Init ==
  /\ phone = [d \in Dev |-> [screen |-> FALSE, wifi |-> FALSE, apps |-> {},
                              chain |-> <<>>]]
  /\ command \in {"app_execution", "empty_execution"}
  /\ app = 1 /\ exp = 0
  /\ ctl = "init" /\ todo = iptables_setup /\ status = "running"
  /\ assumption = FALSE /\ tries = 1

\* The next call of the running script.
Next_ == Head(todo)

\* An adb command (or the local text source) succeeds.
CallSucceeds ==
  /\ ctl \in Scripts /\ status = "running" /\ todo # <<>>
  /\ Next_.op \notin {"ping", "wificheck"}
  /\ phone' = IF Next_.dev \in Dev
                THEN [phone EXCEPT ![Next_.dev] = Effect(Next_, @)]
                ELSE phone
  /\ todo' = Tail(todo)
  /\ UNCHANGED <<ctl, app, exp, command, status, assumption, tries>>

\* check_call (or check_output) raises: adb cannot reach the device, or
\* the local text source fails.  The exception ends the script.
CallFails ==
  /\ ctl \in Scripts /\ status = "running" /\ todo # <<>>
  /\ Next_.op # "wificheck"
  /\ status' = "failed"
  /\ UNCHANGED <<phone, ctl, app, exp, command, todo, assumption, tries>>

\* Lines 93-97 and 109-113: the ping output of a device is compared with
\* "connect: Network is unreachable"; a match sets assumption.
Ping ==
  /\ ctl \in Scripts /\ status = "running" /\ todo # <<>>
  /\ Next_.op = "ping"
  /\ \E unreachable \in BOOLEAN : assumption' = (assumption \/ unreachable)
  /\ todo' = Tail(todo)
  /\ UNCHANGED <<phone, ctl, app, exp, command, status, tries>>

\* Line 99: no device reported the network down; start_wifi returns.
WifiUp ==
  /\ ctl \in Scripts /\ status = "running" /\ todo # <<>>
  /\ Next_.op = "wificheck" /\ ~assumption
  /\ todo' = Tail(todo)
  /\ UNCHANGED <<phone, ctl, app, exp, command, status, assumption, tries>>

\* Mutation: the retry counter is not incremented.
WifiRetryNoCount ==
  /\ ctl \in Scripts /\ status = "running" /\ todo # <<>>
  /\ Next_.op = "wificheck" /\ assumption /\ tries < 3
  /\ todo' = wifi_retry \o Tail(todo)
  /\ assumption' = FALSE
  /\ UNCHANGED <<phone, ctl, app, exp, command, status, tries>>

\* Mutation: the retry loop has no bound.
WifiRetryUnbounded ==
  /\ ctl \in Scripts /\ status = "running" /\ todo # <<>>
  /\ Next_.op = "wificheck" /\ assumption
  /\ todo' = wifi_retry \o Tail(todo)
  /\ assumption' = FALSE /\ tries' = tries + 1
  /\ UNCHANGED <<phone, ctl, app, exp, command, status>>

\* Lines 100-114: tries < 3: assumption = False, wifi off and on again on
\* every device, ping again, tries = tries + 1.
WifiRetry ==
  /\ ctl \in Scripts /\ status = "running" /\ todo # <<>>
  /\ Next_.op = "wificheck" /\ assumption /\ tries < 3
  /\ todo' = wifi_retry \o Tail(todo)
  /\ assumption' = FALSE /\ tries' = tries + 1
  /\ UNCHANGED <<phone, ctl, app, exp, command, status>>

\* Lines 115-116: still unreachable after two retries: sys.exit(3).
WifiGivesUp ==
  /\ ctl \in Scripts /\ status = "running" /\ todo # <<>>
  /\ Next_.op = "wificheck" /\ assumption /\ tries >= 3
  /\ status' = "failed"
  /\ UNCHANGED <<phone, ctl, app, exp, command, todo, assumption, tries>>

-----------------------------------------------------------------------------
(* The controller and wrapper around the scripts.                         *)

\* The script of controller state c has ended with status 0.
Done(c)   == ctl = c /\ status = "running" /\ todo = <<>>
\* It has ended with a non-zero status.
Failed(c) == ctl = c /\ status = "failed"

\* The wrapper's initialization step that sets up iptables (wrapper.py
\* lines 95-106): on success the experiments may start; a failure ends the
\* wrapper with status 1.
SetupEnds ==
  /\ \/ Done("init") /\ ctl' = "between"
     \/ Failed("init") /\ ctl' = "stopped"
  /\ UNCHANGED <<phone, app, exp, command, todo, status, assumption, tries>>

\* controller.py lines 180-184: a new experiment runs the location script.
StartExperiment ==
  /\ ctl = "between" /\ exp < MaxExperiments
  /\ exp' = exp + 1 /\ app' = 1
  /\ Run("location", xprivacy_setup)
  /\ UNCHANGED <<phone, command>>

\* Lines 183-186: a failure raises FatalException and the wrapper exits.
LocationEnds ==
  /\ \/ Done("location") /\ ctl' = "apps"
     \/ Failed("location") /\ ctl' = "stopped"
  /\ UNCHANGED <<phone, app, exp, command, todo, status, assumption, tries>>

\* Lines 217-282: the application loop runs the workload command.
StartWorkload ==
  /\ ctl = "apps" /\ app <= Len(AppSeq)
  /\ Run("workload", Workload(AppSeq[app]))
  /\ UNCHANGED <<phone, app, exp, command>>

\* The experiment ends without touching the phones: after the last
\* application (save, tear-down), or earlier when a tunnel, capture or
\* analysis fails (lines 219-266, 329-338).  It ends the wrapper when
\* force_stop fails (FatalException).
ExperimentEnds ==
  /\ ctl = "apps"
  /\ ctl' \in {"between", "stopped"}
  /\ UNCHANGED <<phone, app, exp, command, todo, status, assumption, tries>>

\* Lines 283-305: the workload succeeded, next application; it failed, the
\* clean_up command runs.
WorkloadEnds ==
  /\ \/ Done("workload") /\ ctl' = "apps" /\ app' = app + 1
        /\ UNCHANGED <<todo, status, assumption, tries>>
     \/ Failed("workload") /\ Run("cleanup", clean_up)
        /\ UNCHANGED app
  /\ UNCHANGED <<phone, exp, command>>

\* Lines 291-305: clean_up succeeded: SmallException, the wrapper goes on
\* with the next pair; it failed: FatalException, the wrapper exits.
CleanUpEnds ==
  /\ \/ Done("cleanup") /\ ctl' = "between"
     \/ Failed("cleanup") /\ ctl' = "stopped"
  /\ UNCHANGED <<phone, app, exp, command, todo, status, assumption, tries>>

Next ==
  \/ CallSucceeds \/ CallFails \/ Ping
  \/ WifiUp \/ WifiRetry \/ WifiGivesUp
  \/ SetupEnds \/ StartExperiment \/ LocationEnds \/ StartWorkload
  \/ ExperimentEnds \/ WorkloadEnds \/ CleanUpEnds

\* Scripts and controller are sequential, and every adb call returns: the
\* next step of the run is eventually taken.
Spec == Init /\ [][Next]_vars /\ WF_vars(Next)

-----------------------------------------------------------------------------
(* Properties                                                              *)

TypeOK ==
  /\ phone \in [Dev -> Device]
  /\ ctl \in Scripts \cup {"apps", "between", "stopped"}
  /\ app \in 1 .. Len(AppSeq) + 1
  /\ exp \in 0 .. MaxExperiments
  /\ command \in {"app_execution", "empty_execution"}
  /\ status \in {"running", "failed"}
  /\ assumption \in BOOLEAN
  /\ tries \in 1 .. 3

\* The iptables verdict firewall_set_up gives every application: the
\* default rule of the uid range.
SetUpVerdict == IF WhiteList THEN "REJECT" ELSE "RETURN"

\* The controller is between two scripts of the run and no application
\* is being measured.
Idle == ctl \in {"apps", "between"}

\* activate_screen presses the power key, which toggles the screen, and
\* relies on every screen being off when a script starts; the taps,
\* swipes and texts of every script then reach an unlocked screen.  A
\* script that fails halfway must leave the screens off for the next one
\* (clean_up's sleep, app_execution's sleep).
InputOnAwakeScreen ==
  (status = "running" /\ todo # <<>> /\ Next_.dev \in Dev
     /\ Next_.op \in {"swipe", "tap", "text"})
    => phone[Next_.dev].screen

\* Between two workload runs every device has wifi off and no application
\* started, whatever call of the previous workload failed: app_execution
\* stops what it started, and clean_up (controller.py line 293) undoes
\* what a failed one left.
WifiOffBetweenRuns ==
  Idle => \A d \in Dev : ~phone[d].wifi /\ phone[d].apps = {}

\* The wifi retry loop of start_wifi (lines 99-116) ends after two retries,
\* so the run of scripts ends: the wrapper stops, or the last experiment
\* is over.
SessionEnds == <>(ctl = "stopped" \/ (ctl = "between" /\ exp = MaxExperiments))

\* The firewall of every device with iptables is back to its set-up state
\* between workload runs: no application may reach the network while
\* another one is measured.  clean_up.py is the compensation of a failed
\* app_execution (clean_up's docstring: "bring the phones to a clean
\* state"; spec section 4.2 step 7c), but it never calls
\* firewall_close_uid.
FirewallClosedWhenIdle ==
  Idle => \A d \in IptablesDevices, a \in Apps :
            Verdict(phone[d].chain, a) = SetUpVerdict

====
