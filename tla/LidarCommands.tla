---------------------------- MODULE LidarCommands ----------------------------
(***************************************************************************)
(* The SOPAS commands that start a lidar, for every scanner type: the      *)
(* parameters of the type (driver/src/sick_generic_parser.cpp), the        *)
(* command chain (init_cmdTables), the configuration and the start         *)
(* sequence (init_scanner, both in driver/src/sick_scan_common.cpp), and   *)
(* what the driver takes for granted about the lidar that receives them.   *)
(*                                                                         *)
(* A command is its name in SOPAS_CMD, without the value it carries.  A    *)
(* setting is a launch file: the scanner type, whether CoLa-B is wanted,   *)
(* and which optional parameters are set.  Two options are traits of the   *)
(* lidar at hand: RMS1, a radar with one dimension, and LMPscancfg_unread, *)
(* a lidar whose scan configuration SopasToLMPscancfg cannot parse.        *)
(***************************************************************************)
EXTENDS Naturals, Sequences

Options == {"new_IP_address", "initialize_scanner_0", "auto_reboot", "ntp_server_address", "encoder_mode",
            "filters", "scan_layer_filter", "ang_res_and_scan_freq", "load_application_default", "RMS1",
            "LMPscancfg_unread", "activate_events", "imu_enable", "nav_do_initial_mapping", "nav_imk_file"}

When(c, s) == IF c THEN s ELSE <<>>

-----------------------------------------------------------------------------
(* The parameters of the scanner types that decide which commands are sent. *)

Base == [layers |-> 1, radar |-> FALSE, safety |-> FALSE, eval |-> FALSE, list |-> FALSE, ranges |-> TRUE,
         wait |-> FALSE, echo |-> FALSE]

MRS_1XXX == [Base EXCEPT !.layers = 4, !.wait = TRUE, !.echo = TRUE]
LMS_1XXX == [Base EXCEPT !.layers = 4, !.wait = TRUE]
TIM_7XX  == [Base EXCEPT !.eval = TRUE]
TIM_7XXS == [Base EXCEPT !.eval = TRUE, !.safety = TRUE]
LMS_5XX  == [Base EXCEPT !.eval = TRUE, !.echo = TRUE]
LMS_1XX  == [Base EXCEPT !.eval = TRUE, !.wait = TRUE]
MRS_6XXX == [Base EXCEPT !.layers = 24, !.echo = TRUE]
LRS_4XXX == [Base EXCEPT !.list = TRUE, !.echo = TRUE]
RMS_XXXX == [Base EXCEPT !.layers = 0, !.radar = TRUE]
LRS_36x0 == [Base EXCEPT !.list = TRUE, !.ranges = FALSE, !.wait = TRUE]
LRS_36x1 == [Base EXCEPT !.list = TRUE, !.ranges = FALSE, !.wait = TRUE]
NAV_31X  == [Base EXCEPT !.list = TRUE, !.ranges = FALSE, !.wait = TRUE]
OEM_15XX == [Base EXCEPT !.list = TRUE, !.ranges = FALSE, !.wait = TRUE]
NAV_350  == [Base EXCEPT !.list = TRUE, !.ranges = FALSE]
TIM_240 == Base
TIM_5XX == Base
LMS_4XXX == Base
NAV_2XX == Base
TIM_4XX == Base

Params ==
    [MRS_1XXX |-> MRS_1XXX, LMS_1XXX |-> LMS_1XXX, TIM_240 |-> TIM_240, TIM_5XX |-> TIM_5XX,
     LMS_4XXX |-> LMS_4XXX, TIM_7XX |-> TIM_7XX, TIM_7XXS |-> TIM_7XXS, LMS_5XX |-> LMS_5XX,
     LMS_1XX |-> LMS_1XX, LRS_36x0 |-> LRS_36x0, LRS_36x1 |-> LRS_36x1, MRS_6XXX |-> MRS_6XXX,
     LRS_4XXX |-> LRS_4XXX, RMS_XXXX |-> RMS_XXXX, NAV_31X |-> NAV_31X, NAV_350 |-> NAV_350,
     OEM_15XX |-> OEM_15XX, NAV_2XX |-> NAV_2XX, TIM_4XX |-> TIM_4XX]

Scanners == DOMAIN Params

-----------------------------------------------------------------------------
(* The command chain. *)

\* The login at the level of an authorised client.
cmdSetAccessMode3(x) ==
    IF Params[x.scanner].safety THEN "SET_ACCESS_MODE_3_SAFETY_SCANNER" ELSE "SET_ACCESS_MODE_3"

SetToCola(binary) == IF binary THEN "SET_TO_COLA_B_PROTOCOL" ELSE "SET_TO_COLA_A_PROTOCOL"

CanSwitch(scanner) == scanner # "LRS_4XXX"

StopMeasurement(x) ==
    LET p == Params[x.scanner] IN
    When(x.scanner \in {"NAV_31X", "LRS_36x0", "LRS_36x1", "OEM_15XX"}, <<"STOP_MEASUREMENT">>)
    \o When(x.scanner \in {"NAV_2XX", "NAV_31X"}, <<"GET_ANGLE_COMPENSATION_PARAM">>)
    \o When(p.radar /\ "load_application_default" \in x.options, <<"LOAD_APPLICATION_DEFAULT">>)
    \o When(p.layers # 1 /\ ~p.radar,
            <<"STOP_MEASUREMENT">>
            \o When(x.scanner = "MRS_1XXX", <<"READ_ACTIVE_APPLICATIONS">>)
            \o <<"DEVICE_IDENT">>
            \o When(p.layers = 4,
                    <<"APPLICATION_MODE_FIELD_OFF", "APPLICATION_MODE_RANGING_ON", "SERIAL_NUMBER">>))

Identify(x) ==
    When(x.scanner \in {"LRS_36x0", "LRS_36x1"}, <<"DEVICE_IDENT">>)
    \o <<"FIRMWARE_VERSION", "DEVICE_STATE", "OPERATION_HOURS", "POWER_ON_COUNT", "LOCATION_NAME">>

\* A list entry and the angles are applied by CMD_RUN, which logs out.  The
\* angles are made from the answer before: without one that can be parsed
\* the command is empty, and the loop over the chain passes over it.
ScanConfigNav(x) ==
    When(x.scanner \in {"LRS_36x1", "NAV_31X"},
         <<"GET_SCANDATACONFIGNAV", "SET_SCAN_CFG_LIST", "RUN", "SET_ACCESS_MODE_3", "GET_SCANDATACONFIGNAV">>
         \o When("LMPscancfg_unread" \notin x.options, <<"SET_SCANDATACONFIGNAV">>)
         \o <<"RUN", "SET_ACCESS_MODE_3", "GET_SCANDATACONFIGNAV">>)

\* CMD_RUN applies the filter and logs out; no login follows.
FiltersLoggedOut(x) ==
    When("filters" \in x.options /\ x.scanner \in {"MRS_1XXX", "LMS_1XXX", "LMS_4XXX", "LRS_4XXX"},
         <<"SET_LFPMEANFILTER", "SET_LFPMEDIANFILTER">>)
    \o When("scan_layer_filter" \in x.options /\ x.scanner = "MRS_1XXX", <<"SET_SCAN_LAYER_FILTER", "RUN">>)

Filters(x) ==
    When("filters" \in x.options /\ x.scanner \in {"MRS_1XXX", "LMS_1XXX", "LMS_4XXX", "LRS_4XXX"},
         <<"SET_LFPMEANFILTER", "SET_LFPMEDIANFILTER">>)
    \o When("filters" \in x.options /\ x.scanner = "LRS_4XXX", <<"SET_GLARE_DETECTION_SENS">>)
    \o When("scan_layer_filter" \in x.options /\ x.scanner = "MRS_1XXX",
            <<"SET_SCAN_LAYER_FILTER", "RUN", "SET_ACCESS_MODE_3">>)
    \o When("filters" \in x.options /\ x.scanner = "LRS_4XXX", <<"SET_LMDSCANDATASCALEFACTOR">>)

init_cmdTables(x) ==
    <<cmdSetAccessMode3(x)>> \o When(CanSwitch(x.scanner), <<SetToCola(x.binary)>>)
    \o StopMeasurement(x) \o Identify(x) \o ScanConfigNav(x) \o Filters(x)

\* init_scanner appends these to the chain of the scanner object.
EncoderCommands(x) ==
    LET some == {"LMS_1XX", "LMS_5XX", "LRS_4XXX"} IN
    When("encoder_mode" \in x.options,
         When(x.scanner = "LMS_5XX", <<"SET_3_4_TO_ENCODER">>)
         \o When(x.scanner \in some, <<"SET_INCREMENTSOURCE_ENC">>)
         \o When(x.scanner \in some \cup {"LMS_4XXX"}, <<"SET_ENCODER_MODE_SI">>)
         \o When(x.scanner \in some, <<"SET_ENOCDER_RES_1">>))

-----------------------------------------------------------------------------
(* What init_scanner sends after the chain.  An item is a command, whether *)
(* init_scanner gives up when it fails, and the part it belongs to.        *)

Items(cmds, must, part) == [i \in 1..Len(cmds) |-> [cmd |-> cmds[i], must |-> must, part |-> part]]

Must(cmds) == Items(cmds, TRUE, "config")
May(cmds) == Items(cmds, FALSE, "config")

setNTPServerAndStart(x) ==
    When("ntp_server_address" \in x.options,
         May(<<"SET_NTP_INTERFACE_ETH", "SET_NTP_SERVER_IP_ADDR", "SET_NTP_UPDATETIME", "ACTIVATE_NTP_CLIENT">>))

readParseSafetyFields(x) ==
    When(Params[x.scanner].eval, Must(<<"GET_SAFTY_FIELD_CFG", "READ_LIDINPUTSTATE">>))

ScanCfgList(x) ==
    When(Params[x.scanner].list /\ x.scanner \notin {"LRS_36x1", "NAV_31X", "NAV_350"},
         May(<<"SET_SCAN_CFG_LIST">>))

GetOutputRanges(x) == When(Params[x.scanner].ranges, Must(<<"GET_OUTPUT_RANGES">>))

SetOutputRanges(x) ==
    When(Params[x.scanner].ranges /\ x.scanner # "LMS_1XXX", Must(<<"SET_OUTPUT_RANGES">>))

\* Both are read again, the ranges without regard to the result.
ReadBack(x) ==
    When(Params[x.scanner].list /\ x.scanner # "NAV_350", Must(<<"GET_PARTIAL_SCAN_CFG">>))
    \o When(Params[x.scanner].ranges, May(<<"GET_OUTPUT_RANGES">>))

\* sendSopasRunSetAccessMode.
RunAndLogin(x) == May(<<"RUN", cmdSetAccessMode3(x)>>)

ScanDataCfg(x) ==
    When(Params[x.scanner].layers \in {1, 4, 24},
         When(~Params[x.scanner].list, Must(<<"SET_PARTIAL_SCANDATA_CFG">>))
         \o Must(<<"GET_PARTIAL_SCANDATA_CFG">>))

\* Frequency and resolution are written for four types; the others keep
\* their own and are only read.
ScanCfg(x) ==
    When("ang_res_and_scan_freq" \in x.options /\ ~Params[x.scanner].list,
         When(x.scanner \in {"MRS_1XXX", "LMS_5XX"}, RunAndLogin(x))
         \o When(x.scanner \in {"LMS_1XX", "LMS_1XXX", "LMS_5XX", "MRS_1XXX"}, Must(<<"SET_PARTIAL_SCAN_CFG">>))
         \o Must(<<"GET_PARTIAL_SCAN_CFG">>))

EchoFilter(x) == When(Params[x.scanner].echo, Must(<<"SET_ECHO_FILTER">>))

Configuration(x) ==
    IF "initialize_scanner_0" \in x.options
    THEN readParseSafetyFields(x)
    ELSE When(~Params[x.scanner].radar,
              ScanCfgList(x) \o GetOutputRanges(x) \o SetOutputRanges(x) \o ReadBack(x)
              \o readParseSafetyFields(x) \o ScanDataCfg(x) \o ScanCfg(x) \o EchoFilter(x))

RadarSequence ==
    <<"DEVICE_TYPE", "SERIAL_NUMBER", "ORDER_NUMBER", "SET_TRANSMIT_RAWTARGETS_ON", "SET_TRANSMIT_OBJECTS_ON",
      "SET_TRACKING_MODE_0", "RUN", "START_RADARDATA">>

ScanSequence(x) ==
    When(Params[x.scanner].eval /\ "activate_events" \in x.options,
         <<"SET_LFEREC_ACTIVE", "SET_LID_OUTPUTSTATE_ACTIVE", "SET_LID_INPUTSTATE_ACTIVE">>)
    \o When(x.scanner \notin {"TIM_240", "NAV_350"}, <<"START_MEASUREMENT">>)
    \o When(x.scanner # "NAV_350", <<"RUN", "START_SCANDATA">>)
    \o When(Params[x.scanner].layers = 4 /\ "imu_enable" \in x.options, <<"START_IMU_DATA">>)

StartSequence(x) ==
    Items(IF "initialize_scanner_0" \in x.options THEN <<"START_SCANDATA">>
          ELSE IF Params[x.scanner].radar THEN RadarSequence
          ELSE ScanSequence(x),
          TRUE, "start")

\* The second answer to a change of the operational mode, and to the
\* mapping, is part of the exchange.
NavMapping(x) ==
    When("nav_do_initial_mapping" \in x.options,
         Must(<<"SET_NAV_ERASE_LAYOUT", "SET_NAV_OPERATIONAL_MODE_2", "SET_NAV_MAP_CFG", "SET_NAV_REFL_SIZE",
                "SET_NAV_DO_MAPPING", "SET_NAV_ADD_LANDMARK", "SET_NAV_STORE_LAYOUT">>))

NavLandmarks(x) ==
    When("nav_imk_file" \in x.options,
         Must(<<"SET_NAV_ERASE_LAYOUT", "SET_NAV_OPERATIONAL_MODE_2", "SET_NAV_ADD_LANDMARK",
                "SET_NAV_STORE_LAYOUT">>))

NavSequence(x) ==
    When(x.scanner = "NAV_350",
         Must(<<"SET_ACCESS_MODE_3", "SET_NAV_OPERATIONAL_MODE_1", "SET_NAV_CURR_LAYER",
                "SET_NAV_LANDMARK_DATA_FORMAT", "SET_NAV_SCAN_DATA_FORMAT", "SET_NAV_POSE_DATA_FORMAT">>)
         \o NavMapping(x) \o NavLandmarks(x) \o Must(<<"SET_NAV_OPERATIONAL_MODE_4">>))

\* The lidar is started first and configured afterwards.
StartFirst(x, chain) ==
    Items(chain, TRUE, "chain") \o setNTPServerAndStart(x) \o StartSequence(x) \o Configuration(x)
    \o NavSequence(x)

InitSequence(x, chain) ==
    Items(chain, TRUE, "chain") \o setNTPServerAndStart(x) \o Configuration(x) \o StartSequence(x)
    \o NavSequence(x)

\* A one-dimensional radar knows no tracking mode: the commands are
\* overwritten by a harmless one.
WithoutTracking(todo) ==
    [i \in DOMAIN todo |-> IF todo[i].cmd = "SET_TRACKING_MODE_0"
                           THEN [todo[i] EXCEPT !.cmd = "DEVICE_STATE"] ELSE todo[i]]

\* switchColaProtocol.
SwitchSequence(x, binary) == Must(<<cmdSetAccessMode3(x), SetToCola(binary)>>)

-----------------------------------------------------------------------------
(* The lidar, external: what the driver's order of commands and its        *)
(* comments take for granted.  The login and the subscriptions last as     *)
(* long as the connection, the dialect and the configuration as long as    *)
(* the power.                                                              *)

Logins == {"SET_ACCESS_MODE_3", "SET_ACCESS_MODE_3_SAFETY_SCANNER"}

Streams == {"START_SCANDATA", "START_RADARDATA"}

\* Reads and subscriptions are for everybody.
Open ==
    Logins \cup Streams
    \cup {"READ_ACTIVE_APPLICATIONS", "DEVICE_IDENT", "SERIAL_NUMBER", "FIRMWARE_VERSION", "DEVICE_STATE",
          "OPERATION_HOURS", "POWER_ON_COUNT", "LOCATION_NAME", "DEVICE_TYPE", "ORDER_NUMBER",
          "GET_ANGLE_COMPENSATION_PARAM", "GET_SCANDATACONFIGNAV", "GET_OUTPUT_RANGES", "GET_PARTIAL_SCAN_CFG",
          "GET_PARTIAL_SCANDATA_CFG", "GET_SAFTY_FIELD_CFG", "READ_LIDINPUTSTATE", "SET_LFEREC_ACTIVE",
          "SET_LID_OUTPUTSTATE_ACTIVE", "SET_LID_INPUTSTATE_ACTIVE", "START_IMU_DATA"}

IsWrite(cmd) == cmd \notin Open \cup {"RUN", "REBOOT"}

\* What the comments of the driver say that a lidar cannot interpret.
Unsupported(x) ==
    CASE x.scanner \in {"TIM_240", "NAV_350"} -> {"START_MEASUREMENT"}
      [] x.scanner = "LRS_4XXX" -> {"SET_TO_COLA_A_PROTOCOL", "SET_TO_COLA_B_PROTOCOL"}
      [] x.scanner = "NAV_31X" -> {"SET_PARTIAL_SCANDATA_CFG"}
      [] x.scanner = "RMS_XXXX" -> {"STOP_MEASUREMENT"} \cup IF "RMS1" \in x.options
                                                             THEN {"SET_TRACKING_MODE_0"} ELSE {}
      [] OTHER -> {}

PoweredOn(eeprom) ==
    [eeprom |-> eeprom, binary |-> eeprom, level |-> FALSE, deaf |-> FALSE, streaming |-> FALSE,
     applied |-> {}, refused |-> {}]

\* A new connection.
Connected(lidar) == [lidar EXCEPT !.level = FALSE, !.deaf = FALSE, !.streaming = FALSE]

Hears(lidar, binary) == ~lidar.deaf /\ binary = lidar.binary

Accepts(x, lidar, cmd, binary) ==
    /\ Hears(lidar, binary)
    /\ cmd \notin Unsupported(x)
    /\ cmd \in Open \/ lidar.level

Receives(x, lidar, cmd, binary) ==
    CASE ~Hears(lidar, binary) -> [lidar EXCEPT !.deaf = @ \/ x.scanner = "TIM_240"]
      [] Hears(lidar, binary) /\ ~Accepts(x, lidar, cmd, binary) -> [lidar EXCEPT !.refused = @ \cup {cmd}]
      [] OTHER ->
         IF cmd = "REBOOT" THEN PoweredOn(lidar.eeprom)
         ELSE [lidar EXCEPT
                 !.level = cmd # "RUN" /\ (@ \/ cmd \in Logins),
                 !.streaming = @ \/ cmd \in Streams,
                 !.binary = IF cmd \in {SetToCola(TRUE), SetToCola(FALSE)} THEN cmd = SetToCola(TRUE) ELSE @,
                 !.applied = @ \cup {c \in {cmd} : IsWrite(c)}]
=============================================================================
