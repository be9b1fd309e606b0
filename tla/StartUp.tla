------------------------------- MODULE StartUp -------------------------------
(***************************************************************************)
(* The start of a SOPAS lidar: SickScanCommon::init_scanner                *)
(* (driver/src/sick_scan_common.cpp) under the loop of mainGenericLaser    *)
(* that creates a scanner object and initialises it until that succeeds,   *)
(* and under the monitoring that initialises it again after a timeout.     *)
(*                                                                         *)
(* What a command says is left out: a command is its name.  An exchange    *)
(* either gives the expected answer or it fails with an empty reply: a     *)
(* timeout does, and so does an answer with an error (sFA), for            *)
(* sendSopasAndCheckAnswer then waits for a better one and clears the      *)
(* reply.  The lidar itself is external; LidarCommands says what the       *)
(* driver takes for granted about it.                                      *)
(***************************************************************************)
EXTENDS LidarCommands, Naturals

CONSTANTS Settings,    \* the launch files: sets of [scanner, binary, options]
          MaxFaults,   \* bound: answers or requests lost, lidars that restart
          MaxPolls     \* maxWaitForDeviceStateReady

ASSUME StartUpAssumption ==
    /\ \A x \in Settings : x.scanner \in Scanners /\ x.binary \in BOOLEAN /\ x.options \subseteq Options
    /\ MaxFaults \in Nat /\ MaxPolls \in Nat \ {0}

VARIABLES setting,     \* the launch file
          pc,          \* where the thread of mainGenericLaser is
          runState,    \* s_runState
          chain,       \* sopasCmdChain of the scanner object
          todo,        \* what init_scanner still has to send
          polls,       \* polls of the device state after CMD_RUN
          tim240,      \* the static tim240_binary_mode
          connected,   \* the connection is up at both ends
          lidar,       \* the lidar, see LidarCommands
          faults       \* faults so far

driver == <<pc, runState, chain, todo, polls, tim240>>
vars == <<setting, driver, connected, lidar, faults>>

Init ==
    /\ setting \in Settings
    /\ pc = "connect" /\ runState = "scanner_init" /\ chain = <<>> /\ todo = <<>> /\ polls = 0
    /\ tim240 = setting.binary
    /\ connected = FALSE /\ faults = 0
    /\ \E eeprom \in BOOLEAN :
          /\ CanSwitch(setting.scanner) \/ eeprom = setting.binary
          /\ lidar = PoweredOn(eeprom)

With(option) == option \in setting.options

IsTiM240 == setting.scanner = "TIM_240"

-----------------------------------------------------------------------------
(* One exchange: a command is sent in one dialect and its answer looked    *)
(* for in the same one.  ok is the success that the driver sees.           *)

Fault == faults < MaxFaults /\ faults' = faults + 1

Arrives(cmd, binary, ok) ==
    /\ connected
    /\ lidar' = Receives(setting, lidar, cmd, binary)
    /\ connected' = (cmd # "REBOOT" \/ ~Accepts(setting, lidar, cmd, binary))
    /\ \/ ok = Accepts(setting, lidar, cmd, binary) /\ UNCHANGED faults
       \/ ~ok /\ Accepts(setting, lidar, cmd, binary) /\ Fault

Lost(ok) ==
    /\ ~ok
    /\ IF connected THEN Fault ELSE UNCHANGED faults
    /\ UNCHANGED <<connected, lidar>>

Exchange(cmd, binary, ok) ==
    /\ Arrives(cmd, binary, ok) \/ Lost(ok)
    /\ UNCHANGED setting

Goes(to) == pc' = to

\* init_scanner returns ExitError.
Fails == Goes("connect")

-----------------------------------------------------------------------------
(* mainGenericLaser makes a new scanner object until init succeeds; the    *)
(* monitoring initialises the one it has, again and again.                 *)

\* The chain at the start of init_scanner: a new address replaces it, the
\* encoder commands are appended to what the object has.
ChainAtStart(c) ==
    (IF With("new_IP_address")
     THEN <<"SET_ACCESS_MODE_3">> \o When(Params[setting.scanner].safety, <<"SET_ACCESS_MODE_3_SAFETY_SCANNER">>)
     ELSE c)
    \o EncoderCommands(setting)

Connect ==
    /\ pc = "connect"
    /\ chain' = ChainAtStart(IF runState = "scanner_init" THEN init_cmdTables(setting) ELSE chain)
    /\ connected' = TRUE
    /\ lidar' = Connected(lidar)
    /\ Goes("probe")
    /\ UNCHANGED <<setting, runState, todo, polls, tim240, faults>>

-----------------------------------------------------------------------------
(* checkColaTypeAndSwitchToConfigured. *)

Probed == IF IsTiM240 THEN tim240 ELSE setting.binary

\* The chain is not sent if the lidar shall be taken as it is.
ChainSent == IF With("initialize_scanner_0") THEN <<>> ELSE chain

NeverToggles == UNCHANGED tim240

\* A TiM240 is deaf to the other dialect after a command in the wrong one.
Toggles == tim240' = IF IsTiM240 THEN ~tim240 ELSE tim240

Probe(ok) ==
    /\ pc = "probe"
    /\ Exchange("DEVICE_STATE", Probed, ok)
    /\ \/ ~ok /\ Goes("probeOther") /\ UNCHANGED <<chain, todo>>
       \/ /\ ok /\ Probed # setting.binary
          /\ Goes("switchTiM240") /\ todo' = SwitchSequence(setting, setting.binary) /\ UNCHANGED chain
       \/ /\ ok /\ Probed = setting.binary
          /\ Goes("send") /\ chain' = ChainSent /\ todo' = InitSequence(setting, chain')
    /\ UNCHANGED <<runState, polls, tim240>>

ProbeOther(ok) ==
    /\ pc = "probeOther"
    /\ Exchange("DEVICE_STATE", ~Probed, ok)
    /\ IF ok
       THEN Goes("switch") /\ todo' = SwitchSequence(setting, Probed) /\ UNCHANGED tim240
       ELSE Fails /\ Toggles /\ UNCHANGED todo
    /\ UNCHANGED <<runState, chain, polls>>

\* switchColaProtocol(Probed): in the other dialect, up to the first failure.
Switch(ok) ==
    /\ pc = "switch"
    /\ Exchange(Head(todo).cmd, ~Probed, ok)
    /\ todo' = Tail(todo)
    /\ IF ok /\ todo' # <<>>
       THEN Goes("switch") /\ UNCHANGED tim240
       ELSE Fails /\ Toggles
    /\ UNCHANGED <<runState, chain, polls>>

\* The TiM240 answered in the dialect that is not the configured one.
SwitchTiM240(ok) ==
    /\ pc = "switchTiM240"
    /\ Exchange(Head(todo).cmd, ~setting.binary, ok)
    /\ todo' = Tail(todo)
    /\ IF ok /\ todo' # <<>>
       THEN Goes("switchTiM240") /\ UNCHANGED tim240
       ELSE Fails /\ tim240' = setting.binary
    /\ UNCHANGED <<runState, chain, polls>>

-----------------------------------------------------------------------------
(* The command chain, the configuration and the start sequence. *)

\* What the answers change: a radar that turns out to be one-dimensional
\* gets no tracking mode.
Remaining(item, ok) ==
    IF item.cmd = "DEVICE_TYPE" /\ ok /\ With("RMS1") THEN WithoutTracking(Tail(todo)) ELSE Tail(todo)

Waits(item) == item.cmd = "RUN" /\ item.part = "start" /\ Params[setting.scanner].wait

\* The IMU needs CoLa-B: without it the process exits before the start
\* sequence.
ImuInAscii ==
    With("imu_enable") /\ Params[setting.scanner].layers = 4 /\ ~setting.binary /\ Head(todo).part = "start"

ImuExits ==
    /\ pc = "send" /\ todo # <<>> /\ ImuInAscii
    /\ Goes("exit")
    /\ UNCHANGED <<setting, runState, chain, todo, polls, tim240, connected, lidar, faults>>

\* A command that failed is not looked at.
SendIgnoringFailure(ok) ==
    /\ pc = "send" /\ todo # <<>> /\ ~ImuInAscii
    /\ Exchange(Head(todo).cmd, setting.binary, ok)
    /\ todo' = Remaining(Head(todo), ok)
    /\ Goes(IF Waits(Head(todo)) THEN "ready" ELSE "send")
    /\ polls' = 0
    /\ UNCHANGED <<runState, chain, tim240>>

Send(ok) ==
    /\ pc = "send" /\ todo # <<>> /\ ~ImuInAscii
    /\ LET item == Head(todo) IN
       /\ Exchange(item.cmd, setting.binary, ok)
       /\ todo' = Remaining(item, ok)
       /\ IF ~ok /\ item.must
          THEN Fails
          ELSE Goes(IF Waits(item) THEN "ready" ELSE "send")
    /\ polls' = 0
    /\ UNCHANGED <<runState, chain, tim240>>

\* The device state in the chain says error: with auto_reboot the lidar is
\* restarted.  Whether that worked is not looked at.
ReportsError ==
    /\ pc = "send" /\ todo # <<>> /\ Head(todo) = [cmd |-> "DEVICE_STATE", must |-> TRUE, part |-> "chain"]
    /\ With("auto_reboot") /\ connected /\ lidar.binary = setting.binary
    /\ Fault /\ Goes("rebootLogin")
    /\ todo' = Tail(todo)
    /\ UNCHANGED <<setting, runState, chain, polls, tim240, connected, lidar>>

\* rebootScanner.  The answer to the login is compared with its CoLa-A text:
\* in CoLa-B replyToString shows the result as \x01.
LoggedIn(ok) == ok /\ ~setting.binary

RebootLogin(ok) ==
    /\ pc = "rebootLogin"
    /\ Exchange(cmdSetAccessMode3(setting), setting.binary, ok)
    /\ Goes(IF LoggedIn(ok) THEN "reboot" ELSE "send")
    /\ UNCHANGED <<runState, chain, todo, polls, tim240>>

Reboot(ok) ==
    /\ pc = "reboot"
    /\ Exchange("REBOOT", setting.binary, ok)
    /\ Goes("send")
    /\ UNCHANGED <<runState, chain, todo, polls, tim240>>

\* After CMD_RUN: the device state is polled until it says ready, not later
\* than the last poll.
PollReady(ok) ==
    /\ pc = "ready"
    /\ Exchange("DEVICE_STATE", setting.binary, ok)
    /\ IF ok THEN Goes("send") ELSE Fails
    /\ UNCHANGED <<runState, chain, todo, polls, tim240>>

PollBusy ==
    /\ pc = "ready" /\ connected
    /\ polls' = polls + 1
    /\ IF polls' < MaxPolls
       THEN Goes("ready") /\ UNCHANGED faults
       ELSE Fails /\ Fault
    /\ UNCHANGED <<setting, runState, chain, todo, tim240, connected, lidar>>

\* s_runState is not set after the initialisation.
StartedInInit ==
    /\ pc = "send" /\ todo = <<>>
    /\ Goes(IF With("new_IP_address") THEN "exit" ELSE "run")
    /\ UNCHANGED <<setting, runState, chain, todo, polls, tim240, connected, lidar, faults>>

\* init_scanner returns ExitSuccess.
Started ==
    /\ pc = "send" /\ todo = <<>>
    /\ IF With("new_IP_address")
       THEN Goes("exit") /\ runState' = "scanner_finalize"
       ELSE Goes("run") /\ runState' = "scanner_run"
    /\ UNCHANGED <<setting, chain, todo, polls, tim240, connected, lidar, faults>>

\* No message for longer than the timeout: the monitoring closes the
\* connection and initialises the same object.
ReadTimeout ==
    /\ pc = "run"
    /\ IF connected THEN Fault ELSE UNCHANGED faults
    /\ connected' = FALSE /\ Goes("connect")
    /\ UNCHANGED <<setting, runState, chain, todo, polls, tim240, lidar>>

-----------------------------------------------------------------------------
Driver ==
    \/ Connect \/ ReportsError \/ PollBusy \/ ImuExits \/ Started \/ ReadTimeout
    \/ \E ok \in BOOLEAN :
          Probe(ok) \/ ProbeOther(ok) \/ Switch(ok) \/ SwitchTiM240(ok) \/ Send(ok) \/ RebootLogin(ok)
          \/ Reboot(ok) \/ PollReady(ok)

\* The lidar loses its power: it comes back with the settings of its EEPROM.
PowerCycle ==
    /\ Fault
    /\ lidar' = PoweredOn(lidar.eeprom) /\ connected' = FALSE
    /\ UNCHANGED <<setting, driver>>

Next == Driver \/ PowerCycle

Spec == Init /\ [][Next]_vars /\ WF_vars(Driver)
-----------------------------------------------------------------------------
(* Properties. *)

TypeOK ==
    /\ setting \in Settings
    /\ pc \in {"connect", "probe", "probeOther", "switch", "switchTiM240", "send", "rebootLogin", "reboot",
               "ready", "run", "exit"}
    /\ runState \in {"scanner_init", "scanner_run", "scanner_finalize"}
    /\ pc = "run" => runState = "scanner_run"
    /\ \A i \in DOMAIN todo : todo[i].must \in BOOLEAN
    /\ polls \in 0..MaxPolls /\ tim240 \in BOOLEAN /\ connected \in BOOLEAN /\ faults \in 0..MaxFaults

\* The settings that init_scanner does not go on without.
Configured(applied) ==
    LET whole == InitSequence(setting, IF With("initialize_scanner_0") THEN <<>>
                                       ELSE ChainAtStart(init_cmdTables(setting)))
    IN \A i \in DOMAIN whole :
          whole[i].must /\ IsWrite(whole[i].cmd) =>
              whole[i].cmd \in applied \cup Unsupported(setting)

\* As long as nothing goes wrong no scanner type gets a write that it cannot
\* interpret, or one after CMD_RUN has logged the driver out and before it
\* has logged in again ("re-enter authorized client level").
NothingRefused == faults = 0 /\ ~With("initialize_scanner_0") => lidar.refused = {}

\* Whatever was lost, refused or repeated, and however often the lidar has
\* restarted: when the driver runs, the lidar it is connected to speaks the
\* configured dialect, has every setting that is not optional, sends data,
\* and the driver has left the user level.
RunningMeansConfigured ==
    pc = "run" /\ connected =>
        /\ lidar.binary = setting.binary
        /\ Configured(lidar.applied)
        /\ setting.scanner # "NAV_350" => lidar.streaming /\ ~lidar.level

\* A lidar starts to send data on a connection only when it is configured:
\* no scan is published that was measured with other settings.
DataOnlyWhenConfigured ==
    [][~lidar.streaming /\ lidar'.streaming => Configured(lidar.applied)]_vars

\* After the last fault the driver comes to run, whatever dialect the lidar
\* has and however often it was toggled: the TiM240 too, which a command in
\* the wrong dialect makes deaf.
DriverRuns == <>[](pc = "run" /\ connected) \/ <>[](pc = "exit")

=============================================================================
