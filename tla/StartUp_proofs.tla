--------------------------- MODULE StartUp_proofs ---------------------------
(***************************************************************************)
(* Proofs about StartUp for every scanner type, every launch file and any  *)
(* number of faults.                                                       *)
(***************************************************************************)
EXTENDS StartUp, TLAPS

-----------------------------------------------------------------------------
(* The commands that go into the chain and the configuration. *)

\* The lidar shall be taken as it is: the chain is not sent.
Init0(x) == "initialize_scanner_0" \in x.options

\* Commands that start no data, leave the dialect as it is and are known to
\* every radar.
Harmless ==
    {"ACTIVATE_NTP_CLIENT", "APPLICATION_MODE_FIELD_OFF", "APPLICATION_MODE_RANGING_ON",
     "DEVICE_IDENT", "DEVICE_STATE", "DEVICE_TYPE", "FIRMWARE_VERSION",
     "GET_ANGLE_COMPENSATION_PARAM", "GET_OUTPUT_RANGES", "GET_PARTIAL_SCANDATA_CFG",
     "GET_PARTIAL_SCAN_CFG", "GET_SAFTY_FIELD_CFG", "GET_SCANDATACONFIGNAV",
     "LOAD_APPLICATION_DEFAULT", "LOCATION_NAME", "OPERATION_HOURS", "ORDER_NUMBER",
     "POWER_ON_COUNT", "READ_ACTIVE_APPLICATIONS", "READ_LIDINPUTSTATE", "REBOOT", "RUN",
     "SERIAL_NUMBER", "SET_3_4_TO_ENCODER", "SET_ACCESS_MODE_3",
     "SET_ACCESS_MODE_3_SAFETY_SCANNER", "SET_ECHO_FILTER", "SET_ENCODER_MODE_SI",
     "SET_ENOCDER_RES_1", "SET_GLARE_DETECTION_SENS", "SET_INCREMENTSOURCE_ENC",
     "SET_LFEREC_ACTIVE", "SET_LFPMEANFILTER", "SET_LFPMEDIANFILTER", "SET_LID_INPUTSTATE_ACTIVE",
     "SET_LID_OUTPUTSTATE_ACTIVE", "SET_LMDSCANDATASCALEFACTOR", "SET_NAV_ADD_LANDMARK",
     "SET_NAV_CURR_LAYER", "SET_NAV_DO_MAPPING", "SET_NAV_ERASE_LAYOUT",
     "SET_NAV_LANDMARK_DATA_FORMAT", "SET_NAV_MAP_CFG", "SET_NAV_OPERATIONAL_MODE_1",
     "SET_NAV_OPERATIONAL_MODE_2", "SET_NAV_OPERATIONAL_MODE_4", "SET_NAV_POSE_DATA_FORMAT",
     "SET_NAV_REFL_SIZE", "SET_NAV_SCAN_DATA_FORMAT", "SET_NAV_STORE_LAYOUT",
     "SET_NTP_INTERFACE_ETH", "SET_NTP_SERVER_IP_ADDR", "SET_NTP_UPDATETIME", "SET_OUTPUT_RANGES",
     "SET_PARTIAL_SCANDATA_CFG", "SET_PARTIAL_SCAN_CFG", "SET_SCANDATACONFIGNAV",
     "SET_SCAN_CFG_LIST", "SET_SCAN_LAYER_FILTER", "SET_TRANSMIT_OBJECTS_ON",
     "SET_TRANSMIT_RAWTARGETS_ON", "START_IMU_DATA", "START_MEASUREMENT", "STOP_MEASUREMENT"}

Quiet(x) == Harmless \cup {SetToCola(x.binary)}

LEMMA WhenSeq ==
    ASSUME NEW S, NEW c, NEW s \in Seq(S)
    PROVE  When(c, s) \in Seq(S)
BY DEF When

LEMMA ConcatSeq ==
    ASSUME NEW S, NEW s \in Seq(S), NEW t \in Seq(S)
    PROVE  s \o t \in Seq(S)
OBVIOUS

LEMMA SeqMonotonic ==
    ASSUME NEW S, NEW T, \A a \in S : a \in T, NEW s \in Seq(S)
    PROVE  s \in Seq(T)
OBVIOUS

LEMMA ShortSeqs ==
    ASSUME NEW S, NEW a \in S, NEW b \in S, NEW c \in S, NEW d \in S, NEW e \in S,
           NEW f \in S, NEW g \in S, NEW h \in S, NEW i \in S
    PROVE  /\ <<>> \in Seq(S)
           /\ <<a>> \in Seq(S)
           /\ <<a, b>> \in Seq(S)
           /\ <<a, b, c>> \in Seq(S)
           /\ <<a, b, c, d>> \in Seq(S)
           /\ <<a, b, c, d, e>> \in Seq(S)
           /\ <<a, b, c, d, e, f>> \in Seq(S)
           /\ <<a, b, c, d, e, f, g>> \in Seq(S)
           /\ <<a, b, c, d, e, f, g, h, i>> \in Seq(S)
OBVIOUS

\* The operators that put the chain together keep it quiet.
LEMMA QuietClosed ==
    ASSUME NEW x
    PROVE  /\ \A c : \A s \in Seq(Quiet(x)) : When(c, s) \in Seq(Quiet(x))
           /\ \A s, t \in Seq(Quiet(x)) : s \o t \in Seq(Quiet(x))
<1>1. \A S : \A c : \A s \in Seq(S) : When(c, s) \in Seq(S)
  BY WhenSeq
<1>2. \A S : \A s, t \in Seq(S) : s \o t \in Seq(S)
  BY ConcatSeq
<1> QED
  BY <1>1, <1>2

\* A login is quiet, and so is the command that sets the configured dialect.
LEMMA QuietCommands ==
    ASSUME NEW x
    PROVE  cmdSetAccessMode3(x) \in Quiet(x) /\ SetToCola(x.binary) \in Quiet(x)
BY DEF Quiet, Harmless, cmdSetAccessMode3

LEMMA StopMeasurementQuiet ==
    ASSUME NEW x
    PROVE  StopMeasurement(x) \in Seq(Quiet(x))
<1> DEFINE Q == Seq(Quiet(x))
<1>1. /\ <<"STOP_MEASUREMENT">> \in Q
      /\ <<"GET_ANGLE_COMPENSATION_PARAM">> \in Q
      /\ <<"LOAD_APPLICATION_DEFAULT">> \in Q
      /\ <<"READ_ACTIVE_APPLICATIONS">> \in Q
      /\ <<"DEVICE_IDENT">> \in Q
      /\ <<"APPLICATION_MODE_FIELD_OFF", "APPLICATION_MODE_RANGING_ON", "SERIAL_NUMBER">> \in Q
  BY ShortSeqs DEF Quiet, Harmless
<1> HIDE DEF Q
<1>2. /\ \A c : \A s \in Q : When(c, s) \in Q
      /\ \A s, t \in Q : s \o t \in Q
  BY QuietClosed DEF Q
<1>3. StopMeasurement(x) \in Q
  BY <1>1, <1>2 DEF StopMeasurement
<1> QED
  BY <1>3 DEF Q

LEMMA ScanConfigNavQuiet ==
    ASSUME NEW x
    PROVE  ScanConfigNav(x) \in Seq(Quiet(x))
<1> DEFINE Q == Seq(Quiet(x))
<1>1. /\ <<"GET_SCANDATACONFIGNAV", "SET_SCAN_CFG_LIST", "RUN", "SET_ACCESS_MODE_3", "GET_SCANDATACONFIGNAV">> \in Q
      /\ <<"SET_SCANDATACONFIGNAV">> \in Q
      /\ <<"RUN", "SET_ACCESS_MODE_3", "GET_SCANDATACONFIGNAV">> \in Q
  BY ShortSeqs DEF Quiet, Harmless
<1> HIDE DEF Q
<1>2. /\ \A c : \A s \in Q : When(c, s) \in Q
      /\ \A s, t \in Q : s \o t \in Q
  BY QuietClosed DEF Q
<1>3. ScanConfigNav(x) \in Q
  BY <1>1, <1>2 DEF ScanConfigNav
<1> QED
  BY <1>3 DEF Q

LEMMA FiltersQuiet ==
    ASSUME NEW x
    PROVE  Filters(x) \in Seq(Quiet(x))
<1> DEFINE Q == Seq(Quiet(x))
<1>1. /\ <<"SET_LFPMEANFILTER", "SET_LFPMEDIANFILTER">> \in Q
      /\ <<"SET_GLARE_DETECTION_SENS">> \in Q
      /\ <<"SET_SCAN_LAYER_FILTER", "RUN", "SET_ACCESS_MODE_3">> \in Q
      /\ <<"SET_LMDSCANDATASCALEFACTOR">> \in Q
  BY ShortSeqs DEF Quiet, Harmless
<1> HIDE DEF Q
<1>2. /\ \A c : \A s \in Q : When(c, s) \in Q
      /\ \A s, t \in Q : s \o t \in Q
  BY QuietClosed DEF Q
<1>3. Filters(x) \in Q
  BY <1>1, <1>2 DEF Filters
<1> QED
  BY <1>3 DEF Q

LEMMA IdentifyQuiet ==
    ASSUME NEW x
    PROVE  Identify(x) \in Seq(Quiet(x))
<1>1. /\ <<"DEVICE_IDENT">> \in Seq(Quiet(x))
      /\ <<"FIRMWARE_VERSION", "DEVICE_STATE", "OPERATION_HOURS", "POWER_ON_COUNT", "LOCATION_NAME">> \in Seq(Quiet(x))
  BY ShortSeqs DEF Quiet, Harmless
<1> QED
  BY <1>1, QuietClosed DEF Identify

\* The chain of a new scanner object is quiet.
LEMMA ChainQuiet ==
    ASSUME NEW x
    PROVE  init_cmdTables(x) \in Seq(Quiet(x))
<1>1. <<cmdSetAccessMode3(x)>> \in Seq(Quiet(x)) /\ <<SetToCola(x.binary)>> \in Seq(Quiet(x))
  BY QuietCommands, ShortSeqs
<1> QED
  BY <1>1, QuietClosed, StopMeasurementQuiet, IdentifyQuiet, ScanConfigNavQuiet, FiltersQuiet
     DEF init_cmdTables

LEMMA EncoderQuiet ==
    ASSUME NEW x
    PROVE  EncoderCommands(x) \in Seq(Quiet(x))
<1> DEFINE Q == Seq(Quiet(x))
<1>1. /\ <<"SET_3_4_TO_ENCODER">> \in Q
      /\ <<"SET_INCREMENTSOURCE_ENC">> \in Q
      /\ <<"SET_ENCODER_MODE_SI">> \in Q
      /\ <<"SET_ENOCDER_RES_1">> \in Q
  BY ShortSeqs DEF Quiet, Harmless
<1> HIDE DEF Q
<1>2. /\ \A c : \A s \in Q : When(c, s) \in Q
      /\ \A s, t \in Q : s \o t \in Q
  BY QuietClosed DEF Q
<1>3. EncoderCommands(x) \in Q
  BY <1>1, <1>2 DEF EncoderCommands
<1> QED
  BY <1>3 DEF Q

\* And stays quiet, whatever init_scanner was called with.
LEMMA ChainAtStartQuiet ==
    ASSUME NEW c \in Seq(Quiet(setting))
    PROVE  ChainAtStart(c) \in Seq(Quiet(setting))
<1>1. <<"SET_ACCESS_MODE_3">> \in Seq(Quiet(setting)) /\ <<"SET_ACCESS_MODE_3_SAFETY_SCANNER">> \in Seq(Quiet(setting))
  BY ShortSeqs DEF Quiet, Harmless
<1>2. /\ \A b : \A s \in Seq(Quiet(setting)) : When(b, s) \in Seq(Quiet(setting))
      /\ \A s, t \in Seq(Quiet(setting)) : s \o t \in Seq(Quiet(setting))
  BY QuietClosed
<1>3. EncoderCommands(setting) \in Seq(Quiet(setting))
  BY EncoderQuiet
<1> QED
  BY <1>1, <1>2, <1>3 DEF ChainAtStart

-----------------------------------------------------------------------------
(* What init_scanner sends. *)

Parts == {"chain", "config", "start"}

Item(C) == [cmd : C, must : BOOLEAN, part : Parts]

\* The commands of the start-up with this launch file.
Tracking(x) == IF Params[x.scanner].radar THEN {"SET_TRACKING_MODE_0"} ELSE {}

Sent(x) == Quiet(x) \cup Streams \cup Tracking(x)

ConfigItem(C) == {i \in Item(C) : i.part = "config"}

LEMMA ItemsTyped ==
    ASSUME NEW C, NEW cmds \in Seq(C), NEW must \in BOOLEAN, NEW part \in Parts
    PROVE  /\ Items(cmds, must, part) \in Seq(Item(C))
           /\ Len(Items(cmds, must, part)) = Len(cmds)
           /\ \A i \in DOMAIN cmds :
                  Items(cmds, must, part)[i] = [cmd |-> cmds[i], must |-> must, part |-> part]
<1>1. \A i \in 1..Len(cmds) : [cmd |-> cmds[i], must |-> must, part |-> part] \in Item(C)
  BY DEF Item
<1>2. Items(cmds, must, part) \in Seq(Item(C))
  BY <1>1 DEF Items
<1>3. Len(Items(cmds, must, part)) = Len(cmds)
  BY DEF Items
<1>4. \A i \in DOMAIN cmds : Items(cmds, must, part)[i] = [cmd |-> cmds[i], must |-> must, part |-> part]
  BY DEF Items
<1> QED
  BY <1>2, <1>3, <1>4

LEMMA ConfigTyped ==
    ASSUME NEW C, NEW cmds \in Seq(C)
    PROVE  Must(cmds) \in Seq(ConfigItem(C)) /\ May(cmds) \in Seq(ConfigItem(C))
<1>1. ASSUME NEW must \in BOOLEAN
      PROVE  Items(cmds, must, "config") \in Seq(ConfigItem(C))
  <2>1. \A c \in C : [cmd |-> c, must |-> must, part |-> "config"] \in ConfigItem(C)
    BY DEF ConfigItem, Item, Parts
  <2>2. \A i \in 1..Len(cmds) : [cmd |-> cmds[i], must |-> must, part |-> "config"] \in ConfigItem(C)
    BY <2>1
  <2> QED
    BY <2>2 DEF Items
<1> QED
  BY <1>1 DEF Must, May

LEMMA ConfigClosed ==
    ASSUME NEW C
    PROVE  /\ \A c : \A s \in Seq(ConfigItem(C)) : When(c, s) \in Seq(ConfigItem(C))
           /\ \A s, t \in Seq(ConfigItem(C)) : s \o t \in Seq(ConfigItem(C))
<1>1. \A S : \A c : \A s \in Seq(S) : When(c, s) \in Seq(S)
  BY WhenSeq
<1>2. \A S : \A s, t \in Seq(S) : s \o t \in Seq(S)
  BY ConcatSeq
<1> QED
  BY <1>1, <1>2

\* Without a login.
Modest == Harmless \ Logins

LEMMA NtpModest ==
    ASSUME NEW x
    PROVE  setNTPServerAndStart(x) \in Seq(ConfigItem(Modest))
<1>1. <<"SET_NTP_INTERFACE_ETH", "SET_NTP_SERVER_IP_ADDR", "SET_NTP_UPDATETIME", "ACTIVATE_NTP_CLIENT">> \in Seq(Modest)
  BY ShortSeqs DEF Modest, Harmless, Logins
<1> QED
  BY <1>1, ConfigTyped, ConfigClosed DEF setNTPServerAndStart

LEMMA SafetyFieldsModest ==
    ASSUME NEW x
    PROVE  readParseSafetyFields(x) \in Seq(ConfigItem(Modest))
<1>1. <<"GET_SAFTY_FIELD_CFG", "READ_LIDINPUTSTATE">> \in Seq(Modest)
  BY ShortSeqs DEF Modest, Harmless, Logins
<1> QED
  BY <1>1, ConfigTyped, ConfigClosed DEF readParseSafetyFields

LEMMA ModestIsHarmless ==
    ASSUME NEW s \in Seq(ConfigItem(Modest))
    PROVE  s \in Seq(ConfigItem(Harmless))
BY DEF ConfigItem, Item, Modest

LEMMA ConfigurationHarmless ==
    ASSUME NEW x
    PROVE  Configuration(x) \in Seq(ConfigItem(Harmless))
<1> DEFINE Q == Seq(Harmless)
           R == Seq(ConfigItem(Harmless))
<1>1. /\ <<"SET_SCAN_CFG_LIST">> \in Q
      /\ <<"GET_OUTPUT_RANGES">> \in Q
      /\ <<"SET_OUTPUT_RANGES">> \in Q
      /\ <<"GET_PARTIAL_SCAN_CFG">> \in Q
      /\ <<"RUN", cmdSetAccessMode3(x)>> \in Q
      /\ <<"SET_PARTIAL_SCANDATA_CFG">> \in Q
      /\ <<"GET_PARTIAL_SCANDATA_CFG">> \in Q
      /\ <<"SET_PARTIAL_SCAN_CFG">> \in Q
      /\ <<"SET_ECHO_FILTER">> \in Q
  BY ShortSeqs DEF Harmless, cmdSetAccessMode3
<1>2. readParseSafetyFields(x) \in R
  BY SafetyFieldsModest, ModestIsHarmless
<1> HIDE DEF Q, R
<1>3. \A s \in Q : Must(s) \in R /\ May(s) \in R
  BY ConfigTyped DEF Q, R
<1>4. /\ \A c : \A s \in R : When(c, s) \in R
      /\ \A s, t \in R : s \o t \in R
  BY ConfigClosed DEF R
<1>5. ScanCfgList(x) \in R /\ GetOutputRanges(x) \in R /\ SetOutputRanges(x) \in R
  BY <1>1, <1>3, <1>4 DEF ScanCfgList, GetOutputRanges, SetOutputRanges
<1>6. ReadBack(x) \in R /\ EchoFilter(x) \in R
  BY <1>1, <1>3, <1>4 DEF ReadBack, EchoFilter
<1>7. ScanDataCfg(x) \in R
  BY <1>1, <1>3, <1>4 DEF ScanDataCfg
<1>8. ScanCfg(x) \in R
  BY <1>1, <1>3, <1>4 DEF ScanCfg, RunAndLogin
<1>9. Configuration(x) \in R
  BY <1>2, <1>4, <1>5, <1>6, <1>7, <1>8 DEF Configuration
<1> QED
  BY <1>9 DEF R

LEMMA NavHarmless ==
    ASSUME NEW x
    PROVE  /\ NavSequence(x) \in Seq(ConfigItem(Harmless))
           /\ x.scanner # "NAV_350" => NavSequence(x) = <<>>
<1> DEFINE Q == Seq(Harmless)
           R == Seq(ConfigItem(Harmless))
<1>1. /\ <<"SET_ACCESS_MODE_3", "SET_NAV_OPERATIONAL_MODE_1", "SET_NAV_CURR_LAYER",
           "SET_NAV_LANDMARK_DATA_FORMAT", "SET_NAV_SCAN_DATA_FORMAT", "SET_NAV_POSE_DATA_FORMAT">> \in Q
      /\ <<"SET_NAV_OPERATIONAL_MODE_4">> \in Q
      /\ <<"SET_NAV_ERASE_LAYOUT", "SET_NAV_OPERATIONAL_MODE_2", "SET_NAV_MAP_CFG", "SET_NAV_REFL_SIZE",
           "SET_NAV_DO_MAPPING", "SET_NAV_ADD_LANDMARK", "SET_NAV_STORE_LAYOUT">> \in Q
      /\ <<"SET_NAV_ERASE_LAYOUT", "SET_NAV_OPERATIONAL_MODE_2", "SET_NAV_ADD_LANDMARK",
           "SET_NAV_STORE_LAYOUT">> \in Q
  BY ShortSeqs DEF Harmless
<1> HIDE DEF Q, R
<1>2. \A s \in Q : Must(s) \in R
  BY ConfigTyped DEF Q, R
<1>3. /\ \A c : \A s \in R : When(c, s) \in R
      /\ \A s, t \in R : s \o t \in R
  BY ConfigClosed DEF R
<1>4. NavMapping(x) \in R /\ NavLandmarks(x) \in R
  BY <1>1, <1>2, <1>3 DEF NavMapping, NavLandmarks
<1>5. NavSequence(x) \in R
  BY <1>1, <1>2, <1>3, <1>4 DEF NavSequence
<1>6. x.scanner # "NAV_350" => NavSequence(x) = <<>>
  BY DEF NavSequence, When
<1> QED
  BY <1>5, <1>6 DEF R

\* A command that must succeed is in the sequence.
HasMust(s, C) == \E i \in DOMAIN s : s[i].must /\ s[i].cmd \in C

\* After each login, and after the chain, comes the RUN that ends the login.
LogsOut(s) ==
    \A i \in DOMAIN s :
        s[i].cmd \in Logins \/ s[i].part = "chain" =>
            \E j \in DOMAIN s : j > i /\ s[j].must /\ s[j].cmd = "RUN"

\* What must be written is written before the data start.
WritesFirst(s) ==
    \A i, j \in DOMAIN s : i <= j /\ s[i].cmd \in Streams => ~(s[j].must /\ IsWrite(s[j].cmd))

LEMMA ConcatElements ==
    ASSUME NEW S, NEW s \in Seq(S), NEW t \in Seq(S)
    PROVE  /\ s \o t \in Seq(S)
           /\ Len(s \o t) = Len(s) + Len(t)
           /\ \A i \in DOMAIN s : i \in DOMAIN (s \o t) /\ (s \o t)[i] = s[i]
           /\ \A i \in DOMAIN t : Len(s) + i \in DOMAIN (s \o t) /\ (s \o t)[Len(s) + i] = t[i]
           /\ \A k \in DOMAIN (s \o t) :
                  k \in DOMAIN s \/ (k - Len(s) \in DOMAIN t /\ (s \o t)[k] = t[k - Len(s)])
<1> DEFINE u == s \o t
<1>1. u \in Seq(S) /\ Len(u) = Len(s) + Len(t)
  OBVIOUS
<1>2. Len(s) \in Nat /\ Len(t) \in Nat /\ DOMAIN s = 1..Len(s) /\ DOMAIN t = 1..Len(t) /\ DOMAIN u = 1..Len(u)
  BY <1>1
<1>3. \A k \in 1..(Len(s) + Len(t)) : u[k] = IF k <= Len(s) THEN s[k] ELSE t[k - Len(s)]
  OBVIOUS
<1> HIDE DEF u
<1>4. \A i \in DOMAIN s : i \in DOMAIN u /\ u[i] = s[i]
  BY <1>1, <1>2, <1>3
<1>5. \A i \in DOMAIN t : Len(s) + i \in DOMAIN u /\ u[Len(s) + i] = t[i]
  <2>1. TAKE i \in DOMAIN t
  <2>2. Len(s) + i \in 1..(Len(s) + Len(t)) /\ ~(Len(s) + i <= Len(s)) /\ Len(s) + i - Len(s) = i
    BY <1>2
  <2> QED
    BY <1>1, <1>2, <1>3, <2>2
<1>6. \A k \in DOMAIN u : k \in DOMAIN s \/ (k - Len(s) \in DOMAIN t /\ u[k] = t[k - Len(s)])
  <2>1. TAKE k \in DOMAIN u
  <2>2. CASE k <= Len(s)
    <3>1. k \in 1..Len(s)
      BY <1>1, <1>2, <2>2
    <3> QED
      BY <1>2, <3>1
  <2>3. CASE ~(k <= Len(s))
    <3>1. k \in 1..(Len(s) + Len(t)) /\ k - Len(s) \in 1..Len(t)
      BY <1>1, <1>2, <2>3
    <3> QED
      BY <1>2, <1>3, <2>3, <3>1
  <2> QED
    BY <2>2, <2>3
<1> QED
  BY <1>1, <1>4, <1>5, <1>6 DEF u

LEMMA HasMustConcat ==
    ASSUME NEW S, NEW s \in Seq(S), NEW t \in Seq(S), NEW C
    PROVE  HasMust(s \o t, C) <=> HasMust(s, C) \/ HasMust(t, C)
<1> DEFINE u == s \o t
<1>1. /\ \A i \in DOMAIN s : i \in DOMAIN u /\ u[i] = s[i]
      /\ \A i \in DOMAIN t : Len(s) + i \in DOMAIN u /\ u[Len(s) + i] = t[i]
      /\ \A k \in DOMAIN u : k \in DOMAIN s \/ (k - Len(s) \in DOMAIN t /\ u[k] = t[k - Len(s)])
  BY ConcatElements
<1> HIDE DEF u
<1>2. ASSUME HasMust(s, C)
      PROVE  HasMust(u, C)
  <2>1. PICK i \in DOMAIN s : s[i].must /\ s[i].cmd \in C
    BY <1>2 DEF HasMust
  <2>2. i \in DOMAIN u /\ u[i] = s[i]
    BY <1>1
  <2> QED
    BY <2>1, <2>2 DEF HasMust
<1>3. ASSUME HasMust(t, C)
      PROVE  HasMust(u, C)
  <2>1. PICK i \in DOMAIN t : t[i].must /\ t[i].cmd \in C
    BY <1>3 DEF HasMust
  <2>2. Len(s) + i \in DOMAIN u /\ u[Len(s) + i] = t[i]
    BY <1>1
  <2> QED
    BY <2>1, <2>2 DEF HasMust
<1>4. ASSUME HasMust(u, C)
      PROVE  HasMust(s, C) \/ HasMust(t, C)
  <2>1. PICK k \in DOMAIN u : u[k].must /\ u[k].cmd \in C
    BY <1>4 DEF HasMust
  <2>2. CASE k \in DOMAIN s
    BY <1>1, <2>1, <2>2 DEF HasMust
  <2>3. CASE k - Len(s) \in DOMAIN t /\ u[k] = t[k - Len(s)]
    BY <2>1, <2>3 DEF HasMust
  <2> QED
    BY <1>1, <2>2, <2>3
<1> QED
  BY <1>2, <1>3, <1>4 DEF u

LEMMA LogsOutConcat ==
    ASSUME NEW S, NEW s \in Seq(S), NEW t \in Seq(S), LogsOut(t), LogsOut(s) \/ HasMust(t, {"RUN"})
    PROVE  LogsOut(s \o t)
<1> DEFINE u == s \o t
<1>1. /\ \A i \in DOMAIN s : i \in DOMAIN u /\ u[i] = s[i]
      /\ \A i \in DOMAIN t : Len(s) + i \in DOMAIN u /\ u[Len(s) + i] = t[i]
      /\ \A k \in DOMAIN u : k \in DOMAIN s \/ (k - Len(s) \in DOMAIN t /\ u[k] = t[k - Len(s)])
      /\ Len(s) \in Nat /\ DOMAIN s = 1..Len(s) /\ DOMAIN t = 1..Len(t) /\ Len(t) \in Nat
      /\ DOMAIN u = 1..Len(u) /\ Len(u) \in Nat
  BY ConcatElements
<1> HIDE DEF u
<1>2. SUFFICES ASSUME NEW k \in DOMAIN u, u[k].cmd \in Logins \/ u[k].part = "chain"
               PROVE  \E j \in DOMAIN u : j > k /\ u[j].must /\ u[j].cmd = "RUN"
  BY DEF LogsOut, u
<1>3. CASE k \in DOMAIN s
  <2>1. CASE HasMust(t, {"RUN"})
    <3>1. PICK j \in DOMAIN t : t[j].must /\ t[j].cmd = "RUN"
      BY <2>1 DEF HasMust
    <3>2. Len(s) + j \in DOMAIN u /\ Len(s) + j > k
      BY <1>1, <1>3
    <3> QED
      BY <1>1, <3>1, <3>2
  <2>2. CASE LogsOut(s)
    <3>1. PICK j \in DOMAIN s : j > k /\ s[j].must /\ s[j].cmd = "RUN"
      BY <1>1, <1>2, <1>3, <2>2 DEF LogsOut
    <3> QED
      BY <1>1, <3>1
  <2> QED
    BY <2>1, <2>2
<1>4. CASE k - Len(s) \in DOMAIN t /\ u[k] = t[k - Len(s)]
  <2>1. PICK j \in DOMAIN t : j > k - Len(s) /\ t[j].must /\ t[j].cmd = "RUN"
    BY <1>2, <1>4 DEF LogsOut
  <2>2. Len(s) + j \in DOMAIN u /\ Len(s) + j > k
    BY <1>1, <2>1
  <2> QED
    BY <1>1, <2>1, <2>2
<1> QED
  BY <1>1, <1>2, <1>3, <1>4

LEMMA WritesFirstConcat ==
    ASSUME NEW S, NEW s \in Seq(S), NEW t \in Seq(S), WritesFirst(s), WritesFirst(t),
           \/ \A i \in DOMAIN s : s[i].cmd \notin Streams
           \/ \A i \in DOMAIN t : ~(t[i].must /\ IsWrite(t[i].cmd))
    PROVE  WritesFirst(s \o t)
<1> DEFINE u == s \o t
<1>1. /\ \A i \in DOMAIN s : i \in DOMAIN u /\ u[i] = s[i]
      /\ \A k \in DOMAIN u : k \in DOMAIN s \/ (k - Len(s) \in DOMAIN t /\ u[k] = t[k - Len(s)])
      /\ Len(s) \in Nat /\ DOMAIN s = 1..Len(s) /\ DOMAIN t = 1..Len(t) /\ Len(t) \in Nat
      /\ DOMAIN u = 1..Len(u) /\ Len(u) \in Nat
  BY ConcatElements
<1> HIDE DEF u
<1>2. SUFFICES ASSUME NEW i \in DOMAIN u, NEW j \in DOMAIN u, i <= j, u[i].cmd \in Streams
               PROVE  ~(u[j].must /\ IsWrite(u[j].cmd))
  BY DEF WritesFirst, u
<1>3. CASE j \in DOMAIN s
  <2>1. i \in DOMAIN s
    BY <1>1, <1>2, <1>3
  <2> QED
    BY <1>1, <1>2, <1>3, <2>1 DEF WritesFirst
<1>4. CASE j - Len(s) \in DOMAIN t /\ u[j] = t[j - Len(s)]
  <2>1. CASE i \in DOMAIN s
    BY <1>1, <1>2, <1>4, <2>1
  <2>2. CASE i - Len(s) \in DOMAIN t /\ u[i] = t[i - Len(s)]
    <3>1. i - Len(s) <= j - Len(s)
      BY <1>1, <1>2
    <3> QED
      BY <1>2, <1>4, <2>2, <3>1 DEF WritesFirst
  <2> QED
    BY <1>1, <2>1, <2>2
<1> QED
  BY <1>1, <1>3, <1>4

-----------------------------------------------------------------------------
(* The start sequence. *)

\* Commands, as WritesFirst for items that all must succeed.
CommandsFirst(c) == \A i, j \in DOMAIN c : i <= j /\ c[i] \in Streams => ~IsWrite(c[j])

LEMMA CommandsFirstConcat ==
    ASSUME NEW S, NEW s \in Seq(S), NEW t \in Seq(S), CommandsFirst(s), CommandsFirst(t),
           \/ \A i \in DOMAIN s : s[i] \notin Streams
           \/ \A i \in DOMAIN t : ~IsWrite(t[i])
    PROVE  CommandsFirst(s \o t)
<1> DEFINE u == s \o t
<1>1. /\ \A i \in DOMAIN s : i \in DOMAIN u /\ u[i] = s[i]
      /\ \A k \in DOMAIN u : k \in DOMAIN s \/ (k - Len(s) \in DOMAIN t /\ u[k] = t[k - Len(s)])
      /\ Len(s) \in Nat /\ DOMAIN s = 1..Len(s) /\ DOMAIN t = 1..Len(t) /\ Len(t) \in Nat
      /\ DOMAIN u = 1..Len(u) /\ Len(u) \in Nat
  BY ConcatElements
<1> HIDE DEF u
<1>2. SUFFICES ASSUME NEW i \in DOMAIN u, NEW j \in DOMAIN u, i <= j, u[i] \in Streams
               PROVE  ~IsWrite(u[j])
  BY DEF CommandsFirst, u
<1>3. CASE j \in DOMAIN s
  <2>1. i \in DOMAIN s
    BY <1>1, <1>2, <1>3
  <2> QED
    BY <1>1, <1>2, <1>3, <2>1 DEF CommandsFirst
<1>4. CASE j - Len(s) \in DOMAIN t /\ u[j] = t[j - Len(s)]
  <2>1. CASE i \in DOMAIN s
    BY <1>1, <1>2, <1>4, <2>1
  <2>2. CASE i - Len(s) \in DOMAIN t /\ u[i] = t[i - Len(s)]
    <3>1. i - Len(s) <= j - Len(s)
      BY <1>1, <1>2
    <3> QED
      BY <1>2, <1>4, <2>2, <3>1 DEF CommandsFirst
  <2> QED
    BY <1>1, <2>1, <2>2
<1> QED
  BY <1>1, <1>3, <1>4

LEMMA RadarCommands ==
    /\ RadarSequence \in Seq(Modest \cup Streams \cup {"SET_TRACKING_MODE_0"})
    /\ DOMAIN RadarSequence = 1..8
    /\ RadarSequence[7] = "RUN" /\ RadarSequence[8] = "START_RADARDATA"
    /\ CommandsFirst(RadarSequence)
<1>1. /\ RadarSequence[1] = "DEVICE_TYPE" /\ RadarSequence[2] = "SERIAL_NUMBER"
      /\ RadarSequence[3] = "ORDER_NUMBER" /\ RadarSequence[4] = "SET_TRANSMIT_RAWTARGETS_ON"
      /\ RadarSequence[5] = "SET_TRANSMIT_OBJECTS_ON" /\ RadarSequence[6] = "SET_TRACKING_MODE_0"
      /\ RadarSequence[7] = "RUN" /\ RadarSequence[8] = "START_RADARDATA"
      /\ DOMAIN RadarSequence = 1..8
  BY DEF RadarSequence
<1>2. \A i \in 1..8 : RadarSequence[i] \in Streams => i = 8
  BY <1>1 DEF Streams
<1>3. ~IsWrite(RadarSequence[8])
  BY <1>1 DEF IsWrite, Open, Streams
<1>4. CommandsFirst(RadarSequence)
  <2> SUFFICES ASSUME NEW i \in 1..8, NEW j \in 1..8, i <= j, RadarSequence[i] \in Streams
               PROVE  ~IsWrite(RadarSequence[j])
    BY <1>1 DEF CommandsFirst
  <2>1. j = 8
    BY <1>2
  <2> QED
    BY <2>1, <1>3
<1>5. RadarSequence \in Seq(Modest \cup Streams \cup {"SET_TRACKING_MODE_0"})
  BY DEF RadarSequence, Modest, Harmless, Logins, Streams
<1> QED
  BY <1>1, <1>4, <1>5

\* A lidar gets RUN, and START_SCANDATA after it.
LEMMA ScanCommands ==
    ASSUME NEW x
    PROVE  /\ ScanSequence(x) \in Seq(Modest \cup Streams)
           /\ CommandsFirst(ScanSequence(x))
           /\ x.scanner = "NAV_350" => ScanSequence(x) \in Seq(Modest)
           /\ x.scanner # "NAV_350" =>
                 /\ \E i \in DOMAIN ScanSequence(x) : ScanSequence(x)[i] = "RUN"
                 /\ \E i \in DOMAIN ScanSequence(x) : ScanSequence(x)[i] \in Streams
<1> DEFINE M == Modest \cup Streams
           A == When(Params[x.scanner].eval /\ "activate_events" \in x.options,
                     <<"SET_LFEREC_ACTIVE", "SET_LID_OUTPUTSTATE_ACTIVE", "SET_LID_INPUTSTATE_ACTIVE">>)
           B == When(x.scanner \notin {"TIM_240", "NAV_350"}, <<"START_MEASUREMENT">>)
           C == When(x.scanner # "NAV_350", <<"RUN", "START_SCANDATA">>)
           D == When(Params[x.scanner].layers = 4 /\ "imu_enable" \in x.options, <<"START_IMU_DATA">>)
<1>1. A \in Seq(Modest) /\ B \in Seq(Modest) /\ D \in Seq(Modest)
  <2>1. /\ <<"SET_LFEREC_ACTIVE", "SET_LID_OUTPUTSTATE_ACTIVE", "SET_LID_INPUTSTATE_ACTIVE">> \in Seq(Modest)
        /\ <<"START_MEASUREMENT">> \in Seq(Modest)
        /\ <<"START_IMU_DATA">> \in Seq(Modest)
    BY ShortSeqs DEF Modest, Harmless, Logins
  <2> QED
    BY <2>1, WhenSeq
<1>2. C \in Seq(M)
  <2>1. <<"RUN", "START_SCANDATA">> \in Seq(M)
    BY ShortSeqs DEF Modest, Harmless, Logins, Streams
  <2> QED
    BY <2>1, WhenSeq
<1>3. A \in Seq(M) /\ B \in Seq(M) /\ D \in Seq(M)
  BY <1>1
<1>4. \A c \in Modest : c \notin Streams
  BY DEF Modest, Harmless, Streams
<1>5. CommandsFirst(A) /\ CommandsFirst(B) /\ CommandsFirst(D)
  BY <1>1, <1>4 DEF CommandsFirst
<1>6. /\ \A i \in DOMAIN C : ~IsWrite(C[i])
      /\ \A i \in DOMAIN D : ~IsWrite(D[i])
  BY DEF When, IsWrite, Open, Streams
<1>7. CommandsFirst(C)
  BY <1>6 DEF CommandsFirst
<1>8. x.scanner # "NAV_350" => C = <<"RUN", "START_SCANDATA">>
  BY DEF When
<1>9. ScanSequence(x) = ((A \o B) \o C) \o D
  BY DEF ScanSequence
<1> HIDE DEF A, B, C, D, M
<1>10. A \o B \in Seq(M) /\ CommandsFirst(A \o B)
  <2>1. \A i \in DOMAIN A : A[i] \notin Streams
    BY <1>1, <1>4
  <2> QED
    BY <1>3, <1>5, <2>1, CommandsFirstConcat, ConcatSeq
<1>11. (A \o B) \o C \in Seq(M) /\ CommandsFirst((A \o B) \o C)
  BY <1>2, <1>6, <1>7, <1>10, CommandsFirstConcat, ConcatSeq
<1>12. ((A \o B) \o C) \o D \in Seq(M) /\ CommandsFirst(((A \o B) \o C) \o D)
  BY <1>3, <1>5, <1>6, <1>11, CommandsFirstConcat, ConcatSeq
<1>13. \A i \in DOMAIN C : \E j \in DOMAIN ScanSequence(x) : ScanSequence(x)[j] = C[i]
  <2>1. \A i \in DOMAIN C : LET k == Len(A \o B) + i IN k \in DOMAIN ((A \o B) \o C) /\ ((A \o B) \o C)[k] = C[i]
    BY <1>2, <1>10, ConcatElements
  <2>2. \A k \in DOMAIN ((A \o B) \o C) :
            k \in DOMAIN ScanSequence(x) /\ ScanSequence(x)[k] = ((A \o B) \o C)[k]
    BY <1>3, <1>9, <1>11, ConcatElements
  <2> QED
    BY <2>1, <2>2
<1>14. x.scanner # "NAV_350" => 1 \in DOMAIN C /\ C[1] = "RUN" /\ 2 \in DOMAIN C /\ C[2] \in Streams
  BY <1>8 DEF Streams
<1>15. x.scanner = "NAV_350" => ScanSequence(x) \in Seq(Modest)
  <2> HAVE x.scanner = "NAV_350"
  <2>1. C \in Seq(Modest)
    BY DEF C, When
  <2>2. A \o B \in Seq(Modest)
    BY <1>1, ConcatSeq
  <2>3. (A \o B) \o C \in Seq(Modest)
    BY <2>1, <2>2, ConcatSeq
  <2> QED
    BY <1>1, <1>9, <2>3, ConcatSeq
<1> QED
  BY <1>9, <1>12, <1>13, <1>14, <1>15 DEF M

\* Only one type is a radar.
LEMMA RadarType ==
    ASSUME NEW s \in Scanners, s # "RMS_XXXX"
    PROVE  ~Params[s].radar
<1>1. /\ ~Base.radar
      /\ Base = [layers |-> Base.layers, radar |-> Base.radar, safety |-> Base.safety, eval |-> Base.eval,
                 list |-> Base.list, ranges |-> Base.ranges, wait |-> Base.wait, echo |-> Base.echo]
  BY DEF Base
<1>2. /\ ~MRS_1XXX.radar /\ ~LMS_1XXX.radar /\ ~TIM_240.radar /\ ~TIM_5XX.radar /\ ~LMS_4XXX.radar
      /\ ~TIM_7XX.radar /\ ~TIM_7XXS.radar /\ ~LMS_5XX.radar /\ ~LMS_1XX.radar /\ ~LRS_36x0.radar
      /\ ~LRS_36x1.radar /\ ~MRS_6XXX.radar /\ ~LRS_4XXX.radar /\ ~NAV_31X.radar /\ ~NAV_350.radar
      /\ ~OEM_15XX.radar /\ ~NAV_2XX.radar /\ ~TIM_4XX.radar
  BY <1>1 DEF MRS_1XXX, LMS_1XXX, TIM_240, TIM_5XX, LMS_4XXX, TIM_7XX, TIM_7XXS, LMS_5XX, LMS_1XX, LRS_36x0,
         LRS_36x1, MRS_6XXX, LRS_4XXX, NAV_31X, NAV_350, OEM_15XX, NAV_2XX, TIM_4XX
<1> QED
  BY <1>2 DEF Scanners, Params

LEMMA StartItems ==
    ASSUME NEW x, x.scanner \in Scanners
    PROVE  /\ StartSequence(x) \in Seq(Item(Modest \cup Streams \cup Tracking(x)))
           /\ \A i \in DOMAIN StartSequence(x) :
                  /\ StartSequence(x)[i].part = "start"
                  /\ StartSequence(x)[i].cmd \notin Logins
           /\ WritesFirst(StartSequence(x))
           /\ x.scanner = "NAV_350" /\ ~Init0(x) =>
                  \A i \in DOMAIN StartSequence(x) : StartSequence(x)[i].cmd \notin Streams
           /\ x.scanner # "NAV_350" => HasMust(StartSequence(x), Streams)
           /\ x.scanner # "NAV_350" /\ ~Init0(x) => HasMust(StartSequence(x), {"RUN"})
<1> DEFINE C == Modest \cup Streams \cup Tracking(x)
           cmds == IF Init0(x) THEN <<"START_SCANDATA">>
                   ELSE IF Params[x.scanner].radar THEN RadarSequence
                   ELSE ScanSequence(x)
<1>1. StartSequence(x) = Items(cmds, TRUE, "start")
  BY DEF StartSequence, Init0
<1>2. /\ cmds \in Seq(C) /\ CommandsFirst(cmds)
      /\ x.scanner = "NAV_350" /\ ~Init0(x) => cmds \in Seq(Modest)
      /\ x.scanner # "NAV_350" => \E i \in DOMAIN cmds : cmds[i] \in Streams
      /\ x.scanner # "NAV_350" /\ ~Init0(x) => \E i \in DOMAIN cmds : cmds[i] = "RUN"
  <2>1. CASE Init0(x)
    <3>1. cmds = <<"START_SCANDATA">>
      BY <2>1
    <3>2. "START_SCANDATA" \in C /\ "START_SCANDATA" \in Streams /\ ~IsWrite("START_SCANDATA")
      BY DEF Streams, IsWrite, Open
    <3>3. <<"START_SCANDATA">> \in Seq(C)
      BY <3>2, ShortSeqs
    <3> HIDE DEF cmds, C
    <3> QED
      BY <2>1, <3>1, <3>2, <3>3 DEF CommandsFirst
  <2>2. CASE ~Init0(x) /\ Params[x.scanner].radar
    <3>1. cmds = RadarSequence /\ Modest \cup Streams \cup {"SET_TRACKING_MODE_0"} = C
      BY <2>2 DEF Tracking
    <3>2. "START_RADARDATA" \in Streams /\ 7 \in 1..8 /\ 8 \in 1..8
      BY DEF Streams
    <3> HIDE DEF cmds, C
    <3>3. x.scanner # "NAV_350"
      BY <2>2, RadarType
    <3> QED
      BY <3>1, <3>2, <3>3, RadarCommands
  <2>3. CASE ~Init0(x) /\ ~Params[x.scanner].radar
    <3>1. cmds = ScanSequence(x) /\ C = Modest \cup Streams
      BY <2>3 DEF Tracking
    <3> HIDE DEF cmds, C
    <3> QED
      BY <3>1, ScanCommands
  <2> QED
    BY <2>1, <2>2, <2>3
<1> HIDE DEF cmds
<1>3. "start" \in Parts /\ TRUE \in BOOLEAN
  BY DEF Parts
<1>4. /\ StartSequence(x) \in Seq(Item(C))
      /\ DOMAIN StartSequence(x) = DOMAIN cmds
      /\ \A i \in DOMAIN cmds : StartSequence(x)[i] = [cmd |-> cmds[i], must |-> TRUE, part |-> "start"]
  <2>1. Items(cmds, TRUE, "start") \in Seq(Item(C)) /\ Len(Items(cmds, TRUE, "start")) = Len(cmds)
    BY <1>2, <1>3, ItemsTyped
  <2>2. DOMAIN Items(cmds, TRUE, "start") = 1..Len(cmds) /\ DOMAIN cmds = 1..Len(cmds)
    BY <1>2 DEF Items
  <2>3. \A i \in DOMAIN cmds : Items(cmds, TRUE, "start")[i] = [cmd |-> cmds[i], must |-> TRUE, part |-> "start"]
    BY <1>2, <1>3, ItemsTyped, ZenonT(60)
  <2> QED
    BY <1>1, <2>1, <2>2, <2>3
<1>5. \A c \in C : c \notin Logins
  BY DEF Modest, Streams, Tracking, Logins
<1> HIDE DEF C
<1>6. \A i \in DOMAIN cmds : cmds[i] \in C
  BY <1>2
<1>7. \A i \in DOMAIN StartSequence(x) :
          StartSequence(x)[i].part = "start" /\ StartSequence(x)[i].must /\ StartSequence(x)[i].cmd = cmds[i]
  BY <1>4
<1>8. WritesFirst(StartSequence(x))
  BY <1>2, <1>4, <1>7 DEF WritesFirst, CommandsFirst
<1>9. x.scanner # "NAV_350" => HasMust(StartSequence(x), Streams)
  BY <1>2, <1>4, <1>7 DEF HasMust
<1>10. x.scanner # "NAV_350" /\ ~Init0(x) => HasMust(StartSequence(x), {"RUN"})
  BY <1>2, <1>4, <1>7 DEF HasMust
<1>11. x.scanner = "NAV_350" /\ ~Init0(x) =>
           \A i \in DOMAIN StartSequence(x) : StartSequence(x)[i].cmd \notin Streams
  <2>1. \A c \in Modest : c \notin Streams
    BY DEF Modest, Harmless, Streams
  <2> QED
    BY <1>2, <1>4, <1>7, <2>1
<1> QED
  BY <1>4, <1>5, <1>6, <1>7, <1>8, <1>9, <1>10, <1>11 DEF C

\* What init_scanner sends with a quiet chain: no command changes the dialect,
\* the data start, every login and the chain are followed by RUN, and what must
\* be written is written before the data start.
LEMMA InitItems ==
    ASSUME NEW x, x.scanner \in Scanners, NEW c \in Seq(Quiet(x))
    PROVE  /\ InitSequence(x, c) \in Seq(Item(Sent(x)))
           /\ x.scanner # "NAV_350" => HasMust(InitSequence(x, c), Streams)
           /\ x.scanner # "NAV_350" /\ (Init0(x) => c = <<>>) => LogsOut(InitSequence(x, c))
           /\ ~(x.scanner = "NAV_350" /\ Init0(x)) => WritesFirst(InitSequence(x, c))
<1> DEFINE T == Item(Sent(x))
           A == Items(c, TRUE, "chain")
           N == setNTPServerAndStart(x)
           F == Configuration(x)
           S == StartSequence(x)
           V == NavSequence(x)
           P == (A \o N) \o F
<1>1. InitSequence(x, c) = (P \o S) \o V
  BY DEF InitSequence
<1>2. A \in Seq(T) /\ Len(A) = Len(c) /\ \A i \in DOMAIN A : A[i].cmd \notin Streams
  <2>1. c \in Seq(Sent(x)) /\ TRUE \in BOOLEAN /\ "chain" \in Parts
    BY DEF Sent, Parts
  <2>2. \A q \in Quiet(x) : q \notin Streams
    BY DEF Quiet, Harmless, SetToCola, Streams
  <2>3. A \in Seq(T) /\ Len(A) = Len(c) /\ \A i \in DOMAIN c : A[i] = [cmd |-> c[i], must |-> TRUE, part |-> "chain"]
    BY <2>1, ItemsTyped, ZenonT(60)
  <2>4. DOMAIN A = DOMAIN c
    BY DEF Items
  <2> HIDE DEF A, T
  <2>5. \A i \in DOMAIN A : A[i].cmd = c[i] /\ c[i] \in Quiet(x)
    BY <2>3, <2>4
  <2> QED
    BY <2>2, <2>3, <2>5
<1>3. N \in Seq(ConfigItem(Harmless)) /\ F \in Seq(ConfigItem(Harmless)) /\ V \in Seq(ConfigItem(Harmless))
  BY NtpModest, ModestIsHarmless, ConfigurationHarmless, NavHarmless
<1>4. \A s \in Seq(ConfigItem(Harmless)) : s \in Seq(T) /\ \A i \in DOMAIN s : s[i].cmd \notin Streams
  <2>1. \A i \in ConfigItem(Harmless) : i \in T /\ i.cmd \notin Streams
    BY DEF ConfigItem, Item, Sent, Quiet, Harmless, Streams
  <2> HIDE DEF T
  <2> QED
    BY <2>1
<1>5. S \in Seq(T)
  <2>1. S \in Seq(Item(Modest \cup Streams \cup Tracking(x)))
    BY StartItems
  <2>2. \A i \in Item(Modest \cup Streams \cup Tracking(x)) : i \in T
    BY DEF Item, Sent, Quiet, Modest
  <2> HIDE DEF T, S
  <2> QED
    BY <2>1, <2>2, SeqMonotonic
<1> HIDE DEF T, A, N, F, S, V, P
<1>6. N \in Seq(T) /\ F \in Seq(T) /\ V \in Seq(T)
  BY <1>3, <1>4
<1>7. P \in Seq(T) /\ \A i \in DOMAIN P : P[i].cmd \notin Streams
  <2>1. A \o N \in Seq(T) /\ \A i \in DOMAIN (A \o N) : (A \o N)[i].cmd \notin Streams
    <3>1. \A k \in DOMAIN (A \o N) : (k \in DOMAIN A /\ (A \o N)[k] = A[k])
                                     \/ (k - Len(A) \in DOMAIN N /\ (A \o N)[k] = N[k - Len(A)])
      BY <1>2, <1>6, ConcatElements
    <3>2. \A i \in DOMAIN N : N[i].cmd \notin Streams
      BY <1>3, <1>4
    <3> QED
      BY <1>2, <1>6, <3>1, <3>2, ConcatSeq
  <2>2. \A k \in DOMAIN P : (k \in DOMAIN (A \o N) /\ P[k] = (A \o N)[k])
                            \/ (k - Len(A \o N) \in DOMAIN F /\ P[k] = F[k - Len(A \o N)])
    BY <1>6, <2>1, ConcatElements DEF P
  <2>3. \A i \in DOMAIN F : F[i].cmd \notin Streams
    BY <1>3, <1>4
  <2>4. P \in Seq(T)
    BY <1>6, <2>1, ConcatSeq DEF P
  <2> QED
    BY <2>1, <2>2, <2>3, <2>4
<1>8. P \o S \in Seq(T) /\ (P \o S) \o V \in Seq(T)
  BY <1>5, <1>6, <1>7, ConcatSeq
<1>9. x.scanner # "NAV_350" => HasMust((P \o S) \o V, Streams)
  <2> HAVE x.scanner # "NAV_350"
  <2>1. HasMust(S, Streams)
    BY StartItems DEF S
  <2>2. HasMust(P \o S, Streams)
    BY <1>5, <1>7, <2>1, HasMustConcat
  <2> QED
    BY <1>6, <1>8, <2>2, HasMustConcat
<1>10. x.scanner # "NAV_350" /\ (Init0(x) => c = <<>>) => LogsOut((P \o S) \o V)
  <2> SUFFICES ASSUME x.scanner # "NAV_350", Init0(x) => c = <<>>
               PROVE  LogsOut((P \o S) \o V)
    OBVIOUS
  <2>1. LogsOut(S)
    <3>1. \A i \in DOMAIN S : S[i].part = "start" /\ S[i].cmd \notin Logins
      BY StartItems DEF S
    <3> QED
      BY <3>1 DEF LogsOut
  <2>2. LogsOut(P) \/ HasMust(S, {"RUN"})
    <3>1. CASE ~Init0(x)
      BY <3>1, StartItems DEF S
    <3>2. CASE Init0(x)
      <4>1. A = <<>>
        <5>1. Len(c) = 0
          BY <3>2
        <5> QED
          BY <1>2, <5>1
      <4>2. F \in Seq(ConfigItem(Modest)) /\ N \in Seq(ConfigItem(Modest))
        BY <3>2, SafetyFieldsModest, NtpModest DEF F, N, Configuration, Init0
      <4>3. P \in Seq(ConfigItem(Modest))
        <5>1. <<>> \in Seq(ConfigItem(Modest))
          OBVIOUS
        <5> QED
          BY <4>1, <4>2, <5>1, ConcatSeq DEF P
      <4>4. \A i \in ConfigItem(Modest) : i.cmd \notin Logins /\ i.part = "config"
        BY DEF ConfigItem, Item, Modest
      <4> QED
        BY <4>3, <4>4 DEF LogsOut
    <3> QED
      BY <3>1, <3>2
  <2>3. LogsOut(P \o S)
    BY <1>5, <1>7, <2>1, <2>2, LogsOutConcat
  <2>4. V = <<>>
    BY NavHarmless DEF V
  <2>5. LogsOut(V)
    BY <2>4 DEF LogsOut
  <2> QED
    BY <1>6, <1>8, <2>3, <2>5, LogsOutConcat
<1>11. ~(x.scanner = "NAV_350" /\ Init0(x)) => WritesFirst((P \o S) \o V)
  <2> HAVE ~(x.scanner = "NAV_350" /\ Init0(x))
  <2>1. WritesFirst(P) /\ WritesFirst(V)
    BY <1>3, <1>4, <1>7 DEF WritesFirst
  <2>2. WritesFirst(S)
    BY StartItems DEF S
  <2>3. WritesFirst(P \o S)
    BY <1>5, <1>7, <2>1, <2>2, WritesFirstConcat
  <2>4. CASE x.scanner = "NAV_350"
    <3>1. \A i \in DOMAIN S : S[i].cmd \notin Streams
      BY <2>4, StartItems DEF S
    <3>2. \A k \in DOMAIN (P \o S) : (k \in DOMAIN P /\ (P \o S)[k] = P[k])
                                     \/ (k - Len(P) \in DOMAIN S /\ (P \o S)[k] = S[k - Len(P)])
      BY <1>5, <1>7, ConcatElements
    <3>3. \A k \in DOMAIN (P \o S) : (P \o S)[k].cmd \notin Streams
      BY <1>7, <3>1, <3>2
    <3> QED
      BY <1>6, <1>8, <2>1, <2>3, <3>3, WritesFirstConcat
  <2>5. CASE x.scanner # "NAV_350"
    <3>1. V = <<>>
      BY <2>5, NavHarmless DEF V
    <3>2. \A i \in DOMAIN V : ~(V[i].must /\ IsWrite(V[i].cmd))
      BY <3>1
    <3> QED
      BY <1>6, <1>8, <2>1, <2>3, <3>2, WritesFirstConcat
  <2> QED
    BY <2>4, <2>5
<1> QED
  BY <1>1, <1>8, <1>9, <1>10, <1>11 DEF T

\* A chain with more commands makes a sequence with more commands.
LEMMA InitItemsGrow ==
    ASSUME NEW x, x.scanner \in Scanners, NEW c \in Seq(Quiet(x)), NEW d \in Seq(Quiet(x)),
           \A i \in DOMAIN c : \E j \in DOMAIN d : d[j] = c[i], NEW k,
           HasMust(InitSequence(x, c), {k})
    PROVE  HasMust(InitSequence(x, d), {k})
<1> DEFINE T == Item(Sent(x))
           A(q) == Items(q, TRUE, "chain")
           N == setNTPServerAndStart(x)
           F == Configuration(x)
           S == StartSequence(x)
           V == NavSequence(x)
<1>1. \A q : InitSequence(x, q) = (((A(q) \o N) \o F) \o S) \o V
  BY DEF InitSequence
<1>2. \A q \in Seq(Quiet(x)) : A(q) \in Seq(T)
  <2>1. \A q \in Seq(Quiet(x)) : q \in Seq(Sent(x))
    BY SeqMonotonic DEF Sent
  <2>2. TRUE \in BOOLEAN /\ "chain" \in Parts
    BY DEF Parts
  <2> QED
    BY <2>1, <2>2, ItemsTyped
<1>3. N \in Seq(T) /\ F \in Seq(T) /\ V \in Seq(T)
  <2>1. N \in Seq(ConfigItem(Harmless)) /\ F \in Seq(ConfigItem(Harmless)) /\ V \in Seq(ConfigItem(Harmless))
    BY NtpModest, ModestIsHarmless, ConfigurationHarmless, NavHarmless
  <2>2. \A i \in ConfigItem(Harmless) : i \in T
    BY DEF ConfigItem, Item, Sent, Quiet
  <2> HIDE DEF T, N, F, V
  <2> QED
    BY <2>1, <2>2, SeqMonotonic
<1>4. S \in Seq(T)
  <2>1. S \in Seq(Item(Modest \cup Streams \cup Tracking(x)))
    BY StartItems
  <2>2. \A i \in Item(Modest \cup Streams \cup Tracking(x)) : i \in T
    BY DEF Item, Sent, Quiet, Modest
  <2> HIDE DEF T, S
  <2> QED
    BY <2>1, <2>2, SeqMonotonic
<1>5. HasMust(A(c), {k}) => HasMust(A(d), {k})
  <2> HAVE HasMust(A(c), {k})
  <2>1. PICK i \in DOMAIN c : c[i] = k
    BY DEF HasMust, Items
  <2>2. PICK j \in DOMAIN d : d[j] = k
    BY <2>1
  <2>3. j \in DOMAIN A(d) /\ A(d)[j].must /\ A(d)[j].cmd = k
    BY <2>2 DEF Items
  <2> HIDE DEF A
  <2>4. k \in {k}
    OBVIOUS
  <2> QED
    BY <2>3, <2>4 DEF HasMust
<1> HIDE DEF T, A, N, F, S, V
<1>6. \A q \in Seq(Quiet(x)) :
          /\ A(q) \o N \in Seq(T)
          /\ (A(q) \o N) \o F \in Seq(T)
          /\ ((A(q) \o N) \o F) \o S \in Seq(T)
  BY <1>2, <1>3, <1>4, ConcatSeq
<1>7. ASSUME NEW q \in Seq(Quiet(x))
      PROVE  HasMust((((A(q) \o N) \o F) \o S) \o V, {k}) <=>
                 HasMust(A(q), {k}) \/ HasMust(N, {k}) \/ HasMust(F, {k}) \/ HasMust(S, {k}) \/ HasMust(V, {k})
  <2>1. \A s, t \in Seq(T) : HasMust(s \o t, {k}) <=> HasMust(s, {k}) \/ HasMust(t, {k})
    BY HasMustConcat
  <2>2. HasMust(A(q) \o N, {k}) <=> HasMust(A(q), {k}) \/ HasMust(N, {k})
    BY <1>2, <1>3, <2>1, Zenon
  <2>3. HasMust((A(q) \o N) \o F, {k}) <=> HasMust(A(q) \o N, {k}) \/ HasMust(F, {k})
    BY <1>3, <1>6, <2>1, Zenon
  <2>4. HasMust(((A(q) \o N) \o F) \o S, {k}) <=> HasMust((A(q) \o N) \o F, {k}) \/ HasMust(S, {k})
    BY <1>4, <1>6, <2>1, Zenon
  <2>5. HasMust((((A(q) \o N) \o F) \o S) \o V, {k}) <=> HasMust(((A(q) \o N) \o F) \o S, {k}) \/ HasMust(V, {k})
    BY <1>3, <1>6, <2>1, Zenon
  <2> QED
    BY <2>2, <2>3, <2>4, <2>5, Zenon
<1>8. InitSequence(x, c) = (((A(c) \o N) \o F) \o S) \o V /\ InitSequence(x, d) = (((A(d) \o N) \o F) \o S) \o V
  BY <1>1
<1> QED
  BY <1>5, <1>7, <1>8, Zenon

-----------------------------------------------------------------------------
(* What is left to send. *)

Tracked == "SET_TRACKING_MODE_0"

\* The first item is sent.
LEMMA TailItems ==
    ASSUME NEW S, NEW s \in Seq(S), s # <<>>
    PROVE  /\ Head(s) \in S /\ Tail(s) \in Seq(S)
           /\ LogsOut(s) => LogsOut(Tail(s))
           /\ LogsOut(s) /\ (Head(s).cmd \in Logins \/ Head(s).part = "chain") => HasMust(Tail(s), {"RUN"})
           /\ WritesFirst(s) => WritesFirst(Tail(s))
           /\ WritesFirst(s) /\ Head(s).cmd \in Streams =>
                  \A i \in DOMAIN s : ~(s[i].must /\ IsWrite(s[i].cmd))
           /\ \A c : HasMust(s, {c}) => (Head(s).must /\ Head(s).cmd = c) \/ HasMust(Tail(s), {c})
<1> DEFINE t == Tail(s)
<1>1. Head(s) = s[1] /\ 1 \in DOMAIN s /\ Head(s) \in S /\ t \in Seq(S)
  OBVIOUS
<1>2. Len(s) \in Nat /\ DOMAIN s = 1..Len(s) /\ DOMAIN t = 1..(Len(s) - 1) /\ \A i \in DOMAIN t : t[i] = s[i + 1]
  OBVIOUS
<1>3. \A i \in DOMAIN s : i # 1 => i - 1 \in DOMAIN t /\ t[i - 1] = s[i]
  BY <1>2
<1>4. \A i \in DOMAIN t : i + 1 \in DOMAIN s /\ t[i] = s[i + 1]
  BY <1>2
<1> HIDE DEF t
<1>5. LogsOut(s) => LogsOut(t)
  <2> SUFFICES ASSUME LogsOut(s), NEW i \in DOMAIN t, t[i].cmd \in Logins \/ t[i].part = "chain"
               PROVE  \E j \in DOMAIN t : j > i /\ t[j].must /\ t[j].cmd = "RUN"
    BY DEF LogsOut
  <2>1. PICK j \in DOMAIN s : j > i + 1 /\ s[j].must /\ s[j].cmd = "RUN"
    BY <1>4 DEF LogsOut
  <2>2. j - 1 \in DOMAIN t /\ t[j - 1] = s[j] /\ j - 1 > i
    BY <1>2, <1>3, <2>1
  <2> QED
    BY <2>1, <2>2
<1>6. LogsOut(s) /\ (Head(s).cmd \in Logins \/ Head(s).part = "chain") => HasMust(t, {"RUN"})
  <2> SUFFICES ASSUME LogsOut(s), s[1].cmd \in Logins \/ s[1].part = "chain"
               PROVE  HasMust(t, {"RUN"})
    BY <1>1
  <2>1. PICK j \in DOMAIN s : j > 1 /\ s[j].must /\ s[j].cmd = "RUN"
    BY <1>1 DEF LogsOut
  <2>2. j - 1 \in DOMAIN t /\ t[j - 1] = s[j]
    BY <1>2, <1>3, <2>1
  <2> QED
    BY <2>1, <2>2 DEF HasMust
<1>7. WritesFirst(s) => WritesFirst(t)
  <2> SUFFICES ASSUME WritesFirst(s), NEW i \in DOMAIN t, NEW j \in DOMAIN t, i <= j, t[i].cmd \in Streams
               PROVE  ~(t[j].must /\ IsWrite(t[j].cmd))
    BY DEF WritesFirst
  <2>1. i + 1 <= j + 1
    BY <1>2
  <2> QED
    BY <1>4, <2>1 DEF WritesFirst
<1>8. WritesFirst(s) /\ Head(s).cmd \in Streams => \A i \in DOMAIN s : ~(s[i].must /\ IsWrite(s[i].cmd))
  <2>1. \A i \in DOMAIN s : 1 <= i
    BY <1>2
  <2> QED
    BY <1>1, <2>1 DEF WritesFirst
<1>9. ASSUME NEW c, HasMust(s, {c})
      PROVE  (Head(s).must /\ Head(s).cmd = c) \/ HasMust(t, {c})
  <2>1. PICK i \in DOMAIN s : s[i].must /\ s[i].cmd = c
    BY <1>9 DEF HasMust
  <2>2. CASE i = 1
    BY <1>1, <2>1, <2>2
  <2>3. CASE i # 1
    BY <1>3, <2>1, <2>3 DEF HasMust
  <2> QED
    BY <2>2, <2>3
<1> QED
  BY <1>1, <1>5, <1>6, <1>7, <1>8, <1>9 DEF t

\* The radar without a tracking mode.
LEMMA WithoutTrackingItems ==
    ASSUME NEW C, "DEVICE_STATE" \in C, NEW s \in Seq(Item(C))
    PROVE  /\ WithoutTracking(s) \in Seq(Item(C))
           /\ LogsOut(s) => LogsOut(WithoutTracking(s))
           /\ WritesFirst(s) => WritesFirst(WithoutTracking(s))
           /\ \A c : c # Tracked /\ HasMust(s, {c}) => HasMust(WithoutTracking(s), {c})
<1> DEFINE t == WithoutTracking(s)
<1>1. /\ DOMAIN t = DOMAIN s
      /\ \A i \in DOMAIN s : t[i] = IF s[i].cmd = Tracked THEN [s[i] EXCEPT !.cmd = "DEVICE_STATE"] ELSE s[i]
  BY DEF WithoutTracking, Tracked
<1>2. \A i \in DOMAIN s : s[i] \in Item(C)
  OBVIOUS
<1>3. \A i \in DOMAIN s : t[i] \in Item(C)
  BY <1>1, <1>2 DEF Item
<1>4. t \in Seq(Item(C))
  <2>1. Len(s) \in Nat /\ DOMAIN s = 1..Len(s) /\ t = [i \in DOMAIN s |-> t[i]]
    BY DEF WithoutTracking
  <2> HIDE DEF t
  <2> QED
    BY <1>3, <2>1
<1>5. \A i \in DOMAIN s :
          /\ t[i].must = s[i].must /\ t[i].part = s[i].part
          /\ s[i].cmd # Tracked => t[i].cmd = s[i].cmd
          /\ s[i].cmd = Tracked => t[i].cmd = "DEVICE_STATE"
  BY <1>1, <1>2 DEF Item
<1> HIDE DEF t
<1>6. /\ "RUN" # Tracked /\ Tracked \notin Logins /\ Tracked \notin Streams
      /\ "DEVICE_STATE" \notin Logins /\ "DEVICE_STATE" \notin Streams /\ ~IsWrite("DEVICE_STATE")
  BY DEF Tracked, Logins, Streams, IsWrite, Open
<1>7. LogsOut(s) => LogsOut(t)
  BY <1>1, <1>5, <1>6 DEF LogsOut
<1>8. WritesFirst(s) => WritesFirst(t)
  BY <1>1, <1>5, <1>6 DEF WritesFirst
<1>9. \A c : c # Tracked /\ HasMust(s, {c}) => HasMust(t, {c})
  BY <1>1, <1>5 DEF HasMust
<1> QED
  BY <1>4, <1>7, <1>8, <1>9 DEF t

-----------------------------------------------------------------------------
(* The lidar. *)

Fields == {"eeprom", "binary", "level", "deaf", "streaming", "applied", "refused"}

LidarTyped ==
    /\ DOMAIN lidar = Fields
    /\ lidar.eeprom \in BOOLEAN /\ lidar.binary \in BOOLEAN /\ lidar.level \in BOOLEAN
    /\ lidar.deaf \in BOOLEAN /\ lidar.streaming \in BOOLEAN

Cola == {SetToCola(TRUE), SetToCola(FALSE)}

\* What a lidar makes of a command.
LEMMA ReceivesFacts ==
    ASSUME LidarTyped, NEW cmd, NEW b, lidar' = Receives(setting, lidar, cmd, b)
    PROVE  /\ LidarTyped'
           /\ cmd = "REBOOT" /\ Accepts(setting, lidar, cmd, b) => ~lidar'.streaming
           /\ ~(cmd = "REBOOT" /\ Accepts(setting, lidar, cmd, b)) =>
                 /\ lidar.applied \subseteq lidar'.applied
                 /\ lidar'.binary = lidar.binary \/ (cmd \in Cola /\ lidar'.binary = (cmd = SetToCola(TRUE)))
                 /\ lidar'.level => lidar.level \/ cmd \in Logins
                 /\ lidar.streaming => lidar'.streaming
                 /\ lidar'.streaming => lidar.streaming \/ cmd \in Streams
           /\ cmd # "REBOOT" /\ Accepts(setting, lidar, cmd, b) =>
                 /\ IsWrite(cmd) => cmd \in lidar'.applied
                 /\ cmd \in Streams => lidar'.streaming
                 /\ cmd = "RUN" => ~lidar'.level
<1>1. CASE ~Hears(lidar, b)
  <2>1. lidar' = [lidar EXCEPT !.deaf = @ \/ setting.scanner = "TIM_240"]
    BY <1>1 DEF Receives
  <2>2. ~Accepts(setting, lidar, cmd, b)
    BY <1>1 DEF Accepts
  <2> QED
    BY <2>1, <2>2 DEF LidarTyped, Fields
<1>2. CASE Hears(lidar, b) /\ ~Accepts(setting, lidar, cmd, b)
  <2>1. lidar' = [lidar EXCEPT !.refused = @ \cup {cmd}]
    BY <1>2 DEF Receives
  <2> QED
    BY <1>2, <2>1 DEF LidarTyped, Fields
<1>3. CASE Accepts(setting, lidar, cmd, b) /\ cmd = "REBOOT"
  <2>1. Hears(lidar, b)
    BY <1>3 DEF Accepts
  <2>2. lidar' = PoweredOn(lidar.eeprom)
    BY <1>3, <2>1 DEF Receives
  <2>3. /\ DOMAIN lidar' = Fields /\ lidar'.eeprom = lidar.eeprom /\ lidar'.binary = lidar.eeprom
        /\ lidar'.level = FALSE /\ lidar'.deaf = FALSE /\ lidar'.streaming = FALSE
    BY <2>2 DEF PoweredOn, Fields
  <2>4. LidarTyped'
    BY <2>3 DEF LidarTyped
  <2> QED
    BY <1>3, <2>3, <2>4
<1>4. CASE Accepts(setting, lidar, cmd, b) /\ cmd # "REBOOT"
  <2>1. Hears(lidar, b)
    BY <1>4 DEF Accepts
  <2>2. lidar' = [lidar EXCEPT
                    !.level = cmd # "RUN" /\ (@ \/ cmd \in Logins),
                    !.streaming = @ \/ cmd \in Streams,
                    !.binary = IF cmd \in {SetToCola(TRUE), SetToCola(FALSE)} THEN cmd = SetToCola(TRUE) ELSE @,
                    !.applied = @ \cup {c \in {cmd} : IsWrite(c)}]
    BY <1>4, <2>1 DEF Receives
  <2>3. /\ DOMAIN lidar' = Fields /\ lidar'.eeprom = lidar.eeprom /\ lidar'.deaf = lidar.deaf
        /\ lidar'.level = (cmd # "RUN" /\ (lidar.level \/ cmd \in Logins))
        /\ lidar'.streaming = (lidar.streaming \/ cmd \in Streams)
        /\ lidar'.binary = IF cmd \in Cola THEN cmd = SetToCola(TRUE) ELSE lidar.binary
        /\ lidar'.applied = lidar.applied \cup {c \in {cmd} : IsWrite(c)}
    BY <2>2 DEF LidarTyped, Fields, Cola
  <2>4. lidar.applied \subseteq lidar'.applied /\ (IsWrite(cmd) => cmd \in lidar'.applied)
    BY <2>3
  <2> QED
    BY <1>4, <2>3, <2>4 DEF LidarTyped
<1> QED
  BY <1>1, <1>2, <1>3, <1>4

\* One exchange.  A success means that the lidar has accepted the command;
\* as long as the connection is up nothing is taken back.
LEMMA ExchangeFacts ==
    ASSUME LidarTyped, connected \in BOOLEAN, faults \in 0..MaxFaults, NEW cmd, NEW b, NEW ok \in BOOLEAN,
           Exchange(cmd, b, ok)
    PROVE  /\ setting' = setting /\ LidarTyped' /\ connected' \in BOOLEAN /\ faults' \in 0..MaxFaults
           /\ connected' =>
                 /\ connected
                 /\ lidar.applied \subseteq lidar'.applied
                 /\ lidar'.binary = lidar.binary \/ (cmd \in Cola /\ lidar'.binary = (cmd = SetToCola(TRUE)))
                 /\ lidar'.level => lidar.level \/ cmd \in Logins
                 /\ lidar.streaming => lidar'.streaming
           /\ ~lidar.streaming /\ lidar'.streaming => connected /\ cmd \in Streams
           /\ ok => connected /\ b = lidar.binary
           /\ ok /\ cmd # "REBOOT" =>
                 /\ IsWrite(cmd) => cmd \in lidar'.applied
                 /\ cmd \in Streams => lidar'.streaming
                 /\ cmd = "RUN" => ~lidar'.level
<1>1. setting' = setting
  BY DEF Exchange
<1>2. faults' \in 0..MaxFaults
  BY StartUpAssumption DEF Exchange, Arrives, Lost, Fault
<1>3. CASE Arrives(cmd, b, ok)
  <2>1. connected /\ lidar' = Receives(setting, lidar, cmd, b)
    BY <1>3 DEF Arrives
  <2>2. connected' \in BOOLEAN /\ (connected' => ~(cmd = "REBOOT" /\ Accepts(setting, lidar, cmd, b)))
    BY <1>3 DEF Arrives
  <2>3. ok => Accepts(setting, lidar, cmd, b)
    BY <1>3 DEF Arrives
  <2>4. Accepts(setting, lidar, cmd, b) => b = lidar.binary
    BY DEF Accepts, Hears
  <2>5. /\ LidarTyped'
        /\ cmd = "REBOOT" /\ Accepts(setting, lidar, cmd, b) => ~lidar'.streaming
        /\ ~(cmd = "REBOOT" /\ Accepts(setting, lidar, cmd, b)) =>
              /\ lidar.applied \subseteq lidar'.applied
              /\ lidar'.binary = lidar.binary \/ (cmd \in Cola /\ lidar'.binary = (cmd = SetToCola(TRUE)))
              /\ lidar'.level => lidar.level \/ cmd \in Logins
              /\ lidar.streaming => lidar'.streaming
              /\ lidar'.streaming => lidar.streaming \/ cmd \in Streams
        /\ cmd # "REBOOT" /\ Accepts(setting, lidar, cmd, b) =>
              /\ IsWrite(cmd) => cmd \in lidar'.applied
              /\ cmd \in Streams => lidar'.streaming
              /\ cmd = "RUN" => ~lidar'.level
    BY <2>1, ReceivesFacts
  <2> QED
    BY <1>1, <1>2, <2>1, <2>2, <2>3, <2>4, <2>5
<1>4. CASE Lost(ok)
  <2>1. ~ok /\ UNCHANGED <<connected, lidar>>
    BY <1>4 DEF Lost
  <2> QED
    BY <1>1, <1>2, <2>1 DEF LidarTyped
<1> QED
  BY <1>3, <1>4 DEF Exchange

\* An item is sent: what was to be sent after it still is, except that the
\* lidar that knows no tracking mode is not asked for it.
LEMMA TodoMoves ==
    ASSUME setting \in Settings, todo \in Seq(Item(Sent(setting))), todo # <<>>, NEW ok \in BOOLEAN,
           NEW t, t = Remaining(Head(todo), ok)
    PROVE  /\ Head(todo) \in Item(Sent(setting)) /\ t \in Seq(Item(Sent(setting)))
           /\ LogsOut(todo) => LogsOut(t)
           /\ LogsOut(todo) /\ (Head(todo).cmd \in Logins \/ Head(todo).part = "chain") => HasMust(t, {"RUN"})
           /\ WritesFirst(todo) => WritesFirst(t)
           /\ WritesFirst(todo) /\ Head(todo).cmd \in Streams =>
                  \A i \in DOMAIN todo : ~(todo[i].must /\ IsWrite(todo[i].cmd))
           /\ \A c : HasMust(todo, {c}) =>
                  \/ Head(todo).must /\ Head(todo).cmd = c
                  \/ HasMust(t, {c})
                  \/ c = Tracked /\ c \in Unsupported(setting)
<1> DEFINE r == Tail(todo)
<1>1. /\ Head(todo) \in Item(Sent(setting)) /\ r \in Seq(Item(Sent(setting)))
      /\ LogsOut(todo) => LogsOut(r)
      /\ LogsOut(todo) /\ (Head(todo).cmd \in Logins \/ Head(todo).part = "chain") => HasMust(r, {"RUN"})
      /\ WritesFirst(todo) => WritesFirst(r)
      /\ WritesFirst(todo) /\ Head(todo).cmd \in Streams =>
             \A i \in DOMAIN todo : ~(todo[i].must /\ IsWrite(todo[i].cmd))
      /\ \A c : HasMust(todo, {c}) => (Head(todo).must /\ Head(todo).cmd = c) \/ HasMust(r, {c})
  BY TailItems
<1>2. CASE t = r
  BY <1>1, <1>2
<1>3. CASE t # r
  <2>1. t = WithoutTracking(r) /\ "RMS1" \in setting.options
    BY <1>3 DEF Remaining, With
  <2>2. "DEVICE_STATE" \in Sent(setting) /\ "RUN" # Tracked
    BY DEF Sent, Quiet, Harmless, Tracked
  <2>3. /\ WithoutTracking(r) \in Seq(Item(Sent(setting)))
        /\ LogsOut(r) => LogsOut(WithoutTracking(r))
        /\ WritesFirst(r) => WritesFirst(WithoutTracking(r))
        /\ \A c : c # Tracked /\ HasMust(r, {c}) => HasMust(WithoutTracking(r), {c})
    BY <1>1, <2>2, WithoutTrackingItems
  <2>4. ASSUME HasMust(r, {Tracked})
        PROVE  Tracked \in Unsupported(setting)
    <3>1. PICK i \in DOMAIN r : r[i].cmd = Tracked
      BY <2>4 DEF HasMust
    <3>2. r[i] \in Item(Sent(setting))
      BY <1>1, <3>1
    <3>3. Tracked \in Sent(setting)
      BY <3>1, <3>2 DEF Item
    <3>4. Tracked \notin Quiet(setting) \cup Streams
      BY DEF Tracked, Quiet, Harmless, SetToCola, Streams
    <3>5. Params[setting.scanner].radar
      BY <3>3, <3>4 DEF Sent, Tracking
    <3>6. setting.scanner = "RMS_XXXX"
      BY <3>5, RadarType, StartUpAssumption
    <3> QED
      BY <2>1, <3>6 DEF Unsupported, Tracked
  <2> HIDE DEF r
  <2> QED
    BY <1>1, <2>1, <2>2, <2>3, <2>4
<1> QED
  BY <1>2, <1>3

-----------------------------------------------------------------------------
(* The inductive invariant. *)

Typed ==
    /\ TypeOK
    /\ LidarTyped
    /\ chain \in Seq(Quiet(setting))
    /\ pc = "ready" => polls < MaxPolls
    /\ runState = "scanner_finalize" => pc = "exit"

\* The chain of a scanner object that has never been initialised.
Begin == ChainAtStart(init_cmdTables(setting))

\* What an initialisation sends.
Whole == InitSequence(setting, IF Init0(setting) THEN <<>> ELSE Begin)

\* The scanner object loses no command from its chain, however often the
\* monitoring initialises it.
ChainKept ==
    ~Init0(setting) /\ (pc # "connect" \/ runState = "scanner_run") =>
        \A i \in DOMAIN Begin : \E j \in DOMAIN chain : chain[j] = Begin[i]

Sending == pc \in {"send", "rebootLogin", "reboot", "ready", "run"}

IsNav == setting.scanner = "NAV_350"

\* What is left to send ends every login that it makes.
Planned ==
    /\ todo \in Seq(Item(Sent(setting) \cup Cola))
    /\ pc \in {"switch", "switchTiM240"} => todo # <<>> /\ todo \in Seq(Item(Logins \cup Cola))
    /\ Sending =>
          /\ todo \in Seq(Item(Sent(setting)))
          /\ ~(IsNav /\ Init0(setting)) => WritesFirst(todo)
          /\ ~IsNav => LogsOut(todo)
          /\ ~IsNav /\ pc \in {"rebootLogin", "reboot"} => HasMust(todo, {"RUN"})
    /\ pc = "run" => todo = <<>>

\* A lidar that has not been lost on the way has every setting that is no
\* longer to be sent.
OnCourse ==
    /\ Sending /\ connected =>
          /\ lidar.binary = setting.binary
          /\ \A i \in DOMAIN Whole :
                Whole[i].must /\ IsWrite(Whole[i].cmd) =>
                    \/ Whole[i].cmd \in lidar.applied \cup Unsupported(setting)
                    \/ HasMust(todo, {Whole[i].cmd})
          /\ ~IsNav => lidar.streaming \/ HasMust(todo, Streams)
          /\ ~IsNav /\ lidar.level => HasMust(todo, {"RUN"})
    /\ pc = "probe" /\ connected => ~lidar.level

IInv == Typed /\ ChainKept /\ Planned /\ OnCourse

-----------------------------------------------------------------------------
(* The initial state. *)

LEMMA Fixed ==
    ASSUME setting' = setting
    PROVE  Begin' = Begin /\ Whole' = Whole /\ (IsNav' <=> IsNav) /\ Quiet(setting)' = Quiet(setting)
           /\ Sent(setting)' = Sent(setting) /\ (Init0(setting)' <=> Init0(setting))
BY DEF Begin, Whole, ChainAtStart, With, IsNav, Init0

LEMMA Initially ==
    Init => IInv
<1> SUFFICES ASSUME Init
             PROVE  IInv
  OBVIOUS
<1>1. setting.binary \in BOOLEAN
  BY StartUpAssumption DEF Init
<1>2. TypeOK
  <2>1. /\ setting \in Settings /\ pc = "connect" /\ runState = "scanner_init" /\ todo = <<>> /\ polls = 0
        /\ tim240 = setting.binary /\ connected = FALSE /\ faults = 0
    BY DEF Init
  <2>2. \A i \in DOMAIN todo : todo[i].must \in BOOLEAN
    BY <2>1
  <2>3. polls \in 0..MaxPolls /\ faults \in 0..MaxFaults
    BY <2>1, StartUpAssumption
  <2> QED
    BY <1>1, <2>1, <2>2, <2>3 DEF TypeOK
<1>3. LidarTyped
  <2>1. PICK e \in BOOLEAN : lidar = PoweredOn(e)
    BY DEF Init
  <2> QED
    BY <2>1 DEF LidarTyped, Fields, PoweredOn
<1>4. Typed
  BY <1>2, <1>3 DEF Typed, Init
<1>5. ChainKept
  BY DEF ChainKept, Init
<1>6. Planned
  BY DEF Planned, Init, Sending
<1>7. OnCourse
  BY DEF OnCourse, Init, Sending
<1> QED
  BY <1>4, <1>5, <1>6, <1>7 DEF IInv

-----------------------------------------------------------------------------
(* The steps. *)

\* Until the next initialisation the chain stays.
LEMMA ChainStays ==
    ASSUME ChainKept, UNCHANGED <<setting, chain, runState>>, pc # "connect" \/ pc' = "connect"
    PROVE  ChainKept'
BY Fixed DEF ChainKept

\* The types of a step that the chain and the state of the run survive.
LEMMA TypedStays ==
    ASSUME Typed, UNCHANGED <<setting, chain, runState>>, Planned', LidarTyped', connected' \in BOOLEAN,
           faults' \in 0..MaxFaults, polls' \in 0..MaxPolls, tim240' \in BOOLEAN,
           pc \notin {"run", "exit"}, pc' = "ready" => polls' < MaxPolls,
           pc' \in {"connect", "probe", "probeOther", "switch", "switchTiM240", "send", "rebootLogin", "reboot",
                    "ready", "exit"}
    PROVE  Typed'
<1>1. \A i \in DOMAIN todo' : todo'[i].must \in BOOLEAN
  <2>1. \A i \in Item(Sent(setting') \cup Cola) : i.must \in BOOLEAN
    BY DEF Item
  <2>2. todo' \in Seq(Item(Sent(setting') \cup Cola))
    BY DEF Planned
  <2> QED
    BY <2>1, <2>2
<1>2. TypeOK'
  BY <1>1 DEF Typed, TypeOK
<1> QED
  BY <1>2, Fixed DEF Typed

\* An exchange of the initialisation, and of the restart.
LEMMA CourseKept ==
    ASSUME IInv, Sending, NEW cmd \in Sent(setting), NEW ok \in BOOLEAN, Exchange(cmd, setting.binary, ok),
           pc' # "probe",
           \A c : HasMust(todo, {c}) =>
                  \/ HasMust(todo', {c})
                  \/ c = Tracked /\ c \in Unsupported(setting)
                  \/ ok /\ c = cmd,
           cmd \in Logins /\ ~IsNav => HasMust(todo', {"RUN"})
    PROVE  OnCourse'
<1> SUFFICES ASSUME connected'
             PROVE  /\ lidar'.binary = setting'.binary
                    /\ \A i \in DOMAIN Whole' :
                          Whole'[i].must /\ IsWrite(Whole'[i].cmd) =>
                              \/ Whole'[i].cmd \in lidar'.applied \cup Unsupported(setting')
                              \/ HasMust(todo', {Whole'[i].cmd})
                    /\ ~IsNav' => lidar'.streaming \/ HasMust(todo', Streams)
                    /\ ~IsNav' /\ lidar'.level => HasMust(todo', {"RUN"})
  BY DEF OnCourse
<1>1. LidarTyped /\ connected \in BOOLEAN /\ faults \in 0..MaxFaults /\ setting.binary \in BOOLEAN
  BY StartUpAssumption DEF IInv, Typed, TypeOK
<1>2. /\ setting' = setting /\ connected
      /\ lidar.applied \subseteq lidar'.applied
      /\ lidar'.binary = lidar.binary \/ (cmd \in Cola /\ lidar'.binary = (cmd = SetToCola(TRUE)))
      /\ lidar'.level => lidar.level \/ cmd \in Logins
      /\ lidar.streaming => lidar'.streaming
  BY <1>1, ExchangeFacts
<1>3. ok /\ cmd # "REBOOT" =>
         /\ IsWrite(cmd) => cmd \in lidar'.applied
         /\ cmd \in Streams => lidar'.streaming
         /\ cmd = "RUN" => ~lidar'.level
  BY <1>1, ExchangeFacts
<1>4. /\ lidar.binary = setting.binary
      /\ \A i \in DOMAIN Whole :
            Whole[i].must /\ IsWrite(Whole[i].cmd) =>
                \/ Whole[i].cmd \in lidar.applied \cup Unsupported(setting)
                \/ HasMust(todo, {Whole[i].cmd})
      /\ ~IsNav => lidar.streaming \/ HasMust(todo, Streams)
      /\ ~IsNav /\ lidar.level => HasMust(todo, {"RUN"})
  BY <1>2 DEF IInv, OnCourse
<1>5. Whole' = Whole /\ (IsNav' <=> IsNav)
  BY <1>2, Fixed
<1>6. lidar'.binary = setting'.binary
  <2>1. cmd \in Cola => cmd = SetToCola(setting.binary)
    BY <1>1 DEF Cola, SetToCola, Sent, Quiet, Harmless, Streams, Tracking
  <2>2. (SetToCola(setting.binary) = SetToCola(TRUE)) = setting.binary
    BY <1>1 DEF SetToCola
  <2> QED
    BY <1>2, <1>4, <2>1, <2>2
<1>7. ~IsWrite("REBOOT") /\ "REBOOT" \notin Streams /\ "REBOOT" # "RUN"
      /\ Tracked \notin Streams /\ Tracked # "RUN"
  BY DEF IsWrite, Streams, Tracked
<1>8. ASSUME NEW i \in DOMAIN Whole, Whole[i].must, IsWrite(Whole[i].cmd),
             Whole[i].cmd \notin lidar'.applied \cup Unsupported(setting)
      PROVE  HasMust(todo', {Whole[i].cmd})
  <2>1. HasMust(todo, {Whole[i].cmd})
    BY <1>2, <1>4, <1>8
  <2>2. ~(ok /\ Whole[i].cmd = cmd)
    BY <1>3, <1>7, <1>8
  <2> QED
    BY <1>8, <2>1, <2>2
<1>9. ~IsNav => lidar'.streaming \/ HasMust(todo', Streams)
  <2> SUFFICES ASSUME ~IsNav, ~lidar'.streaming
               PROVE  HasMust(todo', Streams)
    OBVIOUS
  <2>1. HasMust(todo, Streams)
    BY <1>2, <1>4
  <2>2. PICK c \in Streams : HasMust(todo, {c})
    BY <2>1 DEF HasMust
  <2>3. HasMust(todo', {c})
    BY <1>3, <1>7, <2>2
  <2> QED
    BY <2>2, <2>3 DEF HasMust
<1>10. ~IsNav /\ lidar'.level => HasMust(todo', {"RUN"})
  <2> SUFFICES ASSUME ~IsNav, lidar'.level, cmd \notin Logins
               PROVE  HasMust(todo', {"RUN"})
    OBVIOUS
  <2>1. HasMust(todo, {"RUN"})
    BY <1>2, <1>4
  <2>2. ~(ok /\ "RUN" = cmd)
    BY <1>3, <1>7
  <2> QED
    BY <1>7, <2>1, <2>2
<1> QED
  BY <1>2, <1>5, <1>6, <1>8, <1>9, <1>10

\* The facts that every action needs.
LEMMA Known ==
    ASSUME IInv
    PROVE  /\ setting \in Settings /\ setting.scanner \in Scanners /\ setting.binary \in BOOLEAN
           /\ LidarTyped /\ connected \in BOOLEAN /\ faults \in 0..MaxFaults /\ polls \in 0..MaxPolls
           /\ tim240 \in BOOLEAN /\ Probed \in BOOLEAN /\ MaxPolls \in Nat \ {0} /\ 0 \in 0..MaxPolls
           /\ Typed /\ ChainKept /\ Planned /\ OnCourse
BY StartUpAssumption DEF IInv, Typed, TypeOK, Probed

LEMMA SendKeeps ==
    ASSUME IInv, NEW ok \in BOOLEAN, Send(ok)
    PROVE  IInv'
<1> DEFINE item == Head(todo)
<1>1. /\ pc = "send" /\ todo # <<>> /\ Exchange(item.cmd, setting.binary, ok)
      /\ todo' = Remaining(item, ok) /\ polls' = 0 /\ UNCHANGED <<runState, chain, tim240>>
      /\ pc' \in {"connect", "ready", "send"} /\ (pc' # "connect" => ok \/ ~item.must)
  BY DEF Send, Fails, Goes
<1>2. /\ todo \in Seq(Item(Sent(setting)))
      /\ ~(IsNav /\ Init0(setting)) => WritesFirst(todo)
      /\ ~IsNav => LogsOut(todo)
  BY <1>1, Known DEF Planned, Sending
<1>3. /\ item \in Item(Sent(setting)) /\ todo' \in Seq(Item(Sent(setting)))
      /\ LogsOut(todo) => LogsOut(todo')
      /\ LogsOut(todo) /\ (item.cmd \in Logins \/ item.part = "chain") => HasMust(todo', {"RUN"})
      /\ WritesFirst(todo) => WritesFirst(todo')
      /\ \A c : HasMust(todo, {c}) =>
             \/ item.must /\ item.cmd = c
             \/ HasMust(todo', {c})
             \/ c = Tracked /\ c \in Unsupported(setting)
  BY <1>1, <1>2, Known, TodoMoves
<1> HIDE DEF item
<1>4. item.cmd \in Sent(setting)
  BY <1>3 DEF Item
<1>5. setting' = setting /\ LidarTyped' /\ connected' \in BOOLEAN /\ faults' \in 0..MaxFaults
  BY <1>1, Known, ExchangeFacts
<1>6. Planned'
  <2>1. \A i \in Item(Sent(setting)) : i \in Item(Sent(setting) \cup Cola)
    BY DEF Item
  <2>2. todo' \in Seq(Item(Sent(setting) \cup Cola))
    BY <1>3, <2>1, SeqMonotonic
  <2> QED
    BY <1>1, <1>2, <1>3, <1>5, <2>2, Fixed DEF Planned
<1>7. Typed'
  BY <1>1, <1>5, <1>6, Known, TypedStays
<1>8. ChainKept'
  BY <1>1, <1>5, Known, ChainStays
<1>9. OnCourse'
  <2>1. CASE pc' = "connect"
    BY <2>1 DEF OnCourse, Sending
  <2>2. CASE pc' # "connect"
    <3>1. \A c : HasMust(todo, {c}) =>
              \/ HasMust(todo', {c})
              \/ c = Tracked /\ c \in Unsupported(setting)
              \/ ok /\ c = item.cmd
      BY <1>1, <1>3, <2>2
    <3>2. item.cmd \in Logins /\ ~IsNav => HasMust(todo', {"RUN"})
      BY <1>2, <1>3
    <3>3. Sending /\ pc' # "probe"
      BY <1>1 DEF Sending
    <3> QED
      BY <1>1, <1>4, <3>1, <3>2, <3>3, CourseKept
  <2> QED
    BY <2>1, <2>2
<1> QED
  BY <1>6, <1>7, <1>8, <1>9 DEF IInv

\* The restart and the polls leave what is to be sent.
LEMMA AsideKeeps ==
    ASSUME IInv, NEW cmd \in Sent(setting), NEW ok \in BOOLEAN, Exchange(cmd, setting.binary, ok),
           pc \in {"rebootLogin", "reboot", "ready"}, pc' \in {"send", "reboot", "connect"},
           cmd \in Logins \/ pc' = "reboot" => pc = "rebootLogin",
           UNCHANGED <<runState, chain, todo, polls, tim240>>
    PROVE  IInv'
<1>1. setting' = setting /\ LidarTyped' /\ connected' \in BOOLEAN /\ faults' \in 0..MaxFaults
  BY Known, ExchangeFacts
<1>2. Planned'
  BY <1>1, Fixed, Known DEF Planned, Sending
<1>3. Typed'
  BY <1>1, <1>2, Known, TypedStays
<1>4. ChainKept'
  BY <1>1, Known, ChainStays
<1>5. cmd \in Logins /\ ~IsNav => HasMust(todo', {"RUN"})
  BY Known DEF Planned, Sending
<1>6. \A c : HasMust(todo, {c}) => HasMust(todo', {c})
  OBVIOUS
<1>7. Sending /\ pc' # "probe"
  BY DEF Sending
<1>8. OnCourse'
  BY <1>5, <1>6, <1>7, CourseKept
<1> QED
  BY <1>2, <1>3, <1>4, <1>8 DEF IInv

LEMMA RebootKeeps ==
    ASSUME IInv, NEW ok \in BOOLEAN, RebootLogin(ok) \/ Reboot(ok) \/ PollReady(ok)
    PROVE  IInv'
<1>1. cmdSetAccessMode3(setting) \in Sent(setting) /\ "REBOOT" \in Sent(setting) /\ "DEVICE_STATE" \in Sent(setting)
  BY QuietCommands DEF Sent, Quiet, Harmless
<1>2. "REBOOT" \notin Logins /\ "DEVICE_STATE" \notin Logins
  BY DEF Logins
<1>3. CASE RebootLogin(ok)
  <2>1. /\ pc = "rebootLogin" /\ pc' \in {"send", "reboot"}
        /\ Exchange(cmdSetAccessMode3(setting), setting.binary, ok)
        /\ UNCHANGED <<runState, chain, todo, polls, tim240>>
    BY <1>3 DEF RebootLogin, Goes
  <2> QED
    BY <1>1, <2>1, AsideKeeps
<1>4. CASE Reboot(ok)
  <2>1. /\ pc = "reboot" /\ pc' = "send" /\ Exchange("REBOOT", setting.binary, ok)
        /\ UNCHANGED <<runState, chain, todo, polls, tim240>>
    BY <1>4 DEF Reboot, Goes
  <2> QED
    BY <1>1, <1>2, <2>1, AsideKeeps
<1>5. CASE PollReady(ok)
  <2>1. /\ pc = "ready" /\ pc' \in {"send", "connect"} /\ Exchange("DEVICE_STATE", setting.binary, ok)
        /\ UNCHANGED <<runState, chain, todo, polls, tim240>>
    BY <1>5 DEF PollReady, Goes, Fails
  <2> QED
    BY <1>1, <1>2, <2>1, AsideKeeps
<1> QED
  BY <1>3, <1>4, <1>5

\* The switch of the dialect: a login and the command that sets the dialect.
LEMMA SwitchItems ==
    ASSUME NEW x, NEW b \in BOOLEAN
    PROVE  /\ SwitchSequence(x, b) # <<>>
           /\ SwitchSequence(x, b) \in Seq(Item(Logins \cup Cola))
           /\ SwitchSequence(x, b) \in Seq(Item(Sent(x) \cup Cola))
<1> DEFINE cmds == <<cmdSetAccessMode3(x), SetToCola(b)>>
<1>1. cmds \in Seq(Logins \cup Cola) /\ cmds \in Seq(Sent(x) \cup Cola) /\ Len(cmds) = 2
  <2>1. cmdSetAccessMode3(x) \in Logins /\ cmdSetAccessMode3(x) \in Sent(x) /\ SetToCola(b) \in Cola
    BY QuietCommands DEF cmdSetAccessMode3, Logins, Sent, Cola
  <2> QED
    BY <2>1
<1>2. TRUE \in BOOLEAN /\ "config" \in Parts
  BY DEF Parts
<1>3. SwitchSequence(x, b) = Items(cmds, TRUE, "config")
  BY DEF SwitchSequence, Must
<1> HIDE DEF cmds
<1>4. /\ Items(cmds, TRUE, "config") \in Seq(Item(Logins \cup Cola))
      /\ Items(cmds, TRUE, "config") \in Seq(Item(Sent(x) \cup Cola))
      /\ Len(Items(cmds, TRUE, "config")) = 2
  BY <1>1, <1>2, ItemsTyped
<1>5. \A s : Len(s) = 2 => s # <<>>
  OBVIOUS
<1>6. Items(cmds, TRUE, "config") # <<>>
  BY <1>4, <1>5, Zenon
<1>7. SwitchSequence(x, b) # <<>>
  BY <1>3, <1>6, Zenon
<1> QED
  BY <1>3, <1>4, <1>7, Zenon

\* The chain that is kept is sent.
LEMMA ProbeKeeps ==
    ASSUME IInv, NEW ok \in BOOLEAN, Probe(ok)
    PROVE  IInv'
<1>1. /\ pc = "probe" /\ Exchange("DEVICE_STATE", Probed, ok) /\ UNCHANGED <<runState, polls, tim240>>
  BY DEF Probe
<1>2. setting' = setting /\ LidarTyped' /\ connected' \in BOOLEAN /\ faults' \in 0..MaxFaults
  BY <1>1, Known, ExchangeFacts
<1>3. \A s \in Seq(Item(Sent(setting))) : s \in Seq(Item(Sent(setting) \cup Cola))
  <2>1. \A i \in Item(Sent(setting)) : i \in Item(Sent(setting) \cup Cola)
    BY DEF Item
  <2> QED
    BY <2>1, SeqMonotonic
<1>4. CASE ~ok /\ Goes("probeOther") /\ UNCHANGED <<chain, todo>>
  <2>1. pc' = "probeOther" /\ UNCHANGED <<chain, todo>>
    BY <1>4 DEF Goes
  <2>2. Planned'
    BY <1>1, <1>2, <2>1, Fixed, Known DEF Planned, Sending
  <2>3. Typed' /\ ChainKept'
    BY <1>1, <1>2, <2>1, <2>2, Known, TypedStays, ChainStays
  <2>4. OnCourse'
    BY <2>1 DEF OnCourse, Sending
  <2> QED
    BY <2>2, <2>3, <2>4 DEF IInv
<1>5. CASE /\ ok /\ Probed # setting.binary
           /\ Goes("switchTiM240") /\ todo' = SwitchSequence(setting, setting.binary) /\ UNCHANGED chain
  <2>1. pc' = "switchTiM240" /\ todo' = SwitchSequence(setting, setting.binary) /\ UNCHANGED chain
    BY <1>5 DEF Goes
  <2>2. Planned'
    BY <1>2, <2>1, Known, SwitchItems, Fixed DEF Planned, Sending
  <2>3. Typed' /\ ChainKept'
    BY <1>1, <1>2, <2>1, <2>2, Known, TypedStays, ChainStays
  <2>4. OnCourse'
    BY <2>1 DEF OnCourse, Sending
  <2> QED
    BY <2>2, <2>3, <2>4 DEF IInv
<1>6. CASE /\ ok /\ Probed = setting.binary
           /\ Goes("send") /\ chain' = ChainSent /\ todo' = InitSequence(setting, chain')
  <2>1. /\ pc' = "send" /\ chain' = (IF Init0(setting) THEN <<>> ELSE chain)
        /\ todo' = InitSequence(setting, chain')
    BY <1>6 DEF Goes, ChainSent, With, Init0
  <2>2. chain' \in Seq(Quiet(setting)) /\ (Init0(setting) => chain' = <<>>)
    BY <2>1, Known DEF Typed
  <2>3. /\ todo' \in Seq(Item(Sent(setting)))
        /\ ~IsNav => HasMust(todo', Streams)
        /\ ~IsNav => LogsOut(todo')
        /\ ~(IsNav /\ Init0(setting)) => WritesFirst(todo')
    BY <2>1, <2>2, Known, InitItems DEF IsNav
  <2>4. Planned'
    BY <1>2, <1>3, <2>1, <2>3, Known, Fixed DEF Planned
  <2>5. Typed'
    <3>1. \A i \in DOMAIN todo' : todo'[i].must \in BOOLEAN
      <4>1. \A i \in Item(Sent(setting)) : i.must \in BOOLEAN
        BY DEF Item
      <4> QED
        BY <2>3, <4>1
    <3>2. TypeOK'
      BY <1>1, <1>2, <2>1, <3>1, Known DEF TypeOK, Typed
    <3> QED
      BY <1>1, <1>2, <2>1, <2>2, <3>2, Known, Fixed DEF Typed
  <2>6. ChainKept'
    BY <1>1, <1>2, <2>1, Known, Fixed DEF ChainKept
  <2>7. ASSUME NEW i \in DOMAIN Whole, Whole[i].must, IsWrite(Whole[i].cmd)
        PROVE  HasMust(todo', {Whole[i].cmd})
    <3> DEFINE first == IF Init0(setting) THEN <<>> ELSE Begin
    <3>1. first \in Seq(Quiet(setting))
      BY ChainQuiet, ChainAtStartQuiet DEF Begin
    <3>2. \A j \in DOMAIN first : \E k \in DOMAIN chain' : chain'[k] = first[j]
      BY <1>1, <2>1, Known DEF ChainKept
    <3>3. Whole = InitSequence(setting, first)
      BY DEF Whole
    <3> HIDE DEF first
    <3>4. Whole[i].cmd \in {Whole[i].cmd}
      OBVIOUS
    <3>5. HasMust(Whole, {Whole[i].cmd})
      BY <2>7, <3>4 DEF HasMust
    <3>6. HasMust(InitSequence(setting, first), {Whole[i].cmd})
      BY <3>3, <3>5
    <3> QED
      BY <2>1, <2>2, <3>1, <3>2, <3>6, Known, InitItemsGrow, ZenonT(60)
  <2>8. connected' => lidar'.binary = setting'.binary /\ ~lidar'.level
    <3>1. "DEVICE_STATE" \notin Logins /\ "DEVICE_STATE" \notin Cola
      BY DEF Logins, Cola, SetToCola
    <3> QED
      BY <1>1, <1>2, <1>6, <3>1, Known, ExchangeFacts DEF OnCourse
  <2>9. OnCourse'
    BY <1>2, <2>1, <2>3, <2>7, <2>8, Fixed DEF OnCourse
  <2> QED
    BY <2>4, <2>5, <2>6, <2>9 DEF IInv
<1> QED
  BY <1>4, <1>5, <1>6 DEF Probe

LEMMA ProbeOtherKeeps ==
    ASSUME IInv, NEW ok \in BOOLEAN, ProbeOther(ok)
    PROVE  IInv'
<1>1. /\ pc = "probeOther" /\ Exchange("DEVICE_STATE", ~Probed, ok) /\ UNCHANGED <<runState, chain, polls>>
      /\ \/ pc' = "switch" /\ todo' = SwitchSequence(setting, Probed)
         \/ pc' = "connect" /\ todo' = todo
      /\ tim240' \in BOOLEAN
  BY Known DEF ProbeOther, Goes, Fails, Toggles
<1>2. setting' = setting /\ LidarTyped' /\ connected' \in BOOLEAN /\ faults' \in 0..MaxFaults
  BY <1>1, Known, ExchangeFacts
<1>3. Planned'
  BY <1>1, <1>2, Known, SwitchItems, Fixed DEF Planned, Sending
<1>4. Typed' /\ ChainKept'
  BY <1>1, <1>2, <1>3, Known, TypedStays, ChainStays
<1>5. OnCourse'
  BY <1>1 DEF OnCourse, Sending
<1> QED
  BY <1>3, <1>4, <1>5 DEF IInv

LEMMA SwitchKeeps ==
    ASSUME IInv, NEW ok \in BOOLEAN, Switch(ok) \/ SwitchTiM240(ok)
    PROVE  IInv'
<1>1. /\ pc \in {"switch", "switchTiM240"} /\ UNCHANGED <<runState, chain, polls>>
      /\ todo' = Tail(todo)
      /\ (pc' \in {"switch", "switchTiM240"} /\ todo' # <<>>) \/ pc' = "connect"
      /\ tim240' \in BOOLEAN
  BY Known DEF Switch, SwitchTiM240, Goes, Fails, Toggles
<1>2. \E b : Exchange(Head(todo).cmd, b, ok)
  BY DEF Switch, SwitchTiM240
<1>3. setting' = setting /\ LidarTyped' /\ connected' \in BOOLEAN /\ faults' \in 0..MaxFaults
  BY <1>2, Known, ExchangeFacts
<1>4. Planned'
  <2>1. todo # <<>> /\ todo \in Seq(Item(Logins \cup Cola)) /\ todo \in Seq(Item(Sent(setting) \cup Cola))
    BY <1>1, Known DEF Planned
  <2>2. Tail(todo) \in Seq(Item(Logins \cup Cola)) /\ Tail(todo) \in Seq(Item(Sent(setting) \cup Cola))
    BY <2>1
  <2> QED
    BY <1>1, <1>3, <2>2, Fixed DEF Planned, Sending
<1>5. Typed' /\ ChainKept'
  BY <1>1, <1>3, <1>4, Known, TypedStays, ChainStays
<1>6. OnCourse'
  BY <1>1 DEF OnCourse, Sending
<1> QED
  BY <1>4, <1>5, <1>6 DEF IInv

\* A new object has the chain, and one that is initialised again has it still.
LEMMA ConnectKeeps ==
    ASSUME IInv, Connect
    PROVE  IInv'
<1> DEFINE old == IF runState = "scanner_init" THEN init_cmdTables(setting) ELSE chain
<1>1. /\ pc = "connect" /\ pc' = "probe" /\ chain' = ChainAtStart(old)
      /\ connected' = TRUE /\ lidar' = Connected(lidar)
      /\ UNCHANGED <<setting, runState, todo, polls, tim240, faults>>
  BY DEF Connect, Goes
<1>2. old \in Seq(Quiet(setting))
  BY ChainQuiet, Known DEF Typed
<1>3. chain' \in Seq(Quiet(setting))
  BY <1>1, <1>2, ChainAtStartQuiet
<1>4. LidarTyped' /\ lidar'.level = FALSE
  BY <1>1, Known DEF LidarTyped, Fields, Connected
<1>5. TypeOK'
  BY <1>1, Known DEF Typed, TypeOK
<1>6. Typed'
  BY <1>1, <1>3, <1>4, <1>5, Known, Fixed DEF Typed
<1>7. ASSUME ~Init0(setting)
      PROVE  \A i \in DOMAIN Begin : \E j \in DOMAIN chain' : chain'[j] = Begin[i]
  <2>1. CASE runState = "scanner_init" \/ With("new_IP_address")
    <3>1. chain' = Begin
      BY <1>1, <2>1 DEF Begin, ChainAtStart
    <3> QED
      BY <3>1
  <2>2. CASE ~(runState = "scanner_init" \/ With("new_IP_address"))
    <3>1. runState = "scanner_run"
      BY <1>1, <2>2, Known DEF Typed, TypeOK
    <3>2. \A i \in DOMAIN Begin : \E j \in DOMAIN chain : chain[j] = Begin[i]
      BY <1>7, <3>1, Known DEF ChainKept
    <3>3. chain' = chain \o EncoderCommands(setting)
      BY <1>1, <2>2 DEF ChainAtStart
    <3>4. \A i \in DOMAIN chain : i \in DOMAIN chain' /\ chain'[i] = chain[i]
      BY <3>3, EncoderQuiet, ConcatElements, Known DEF Typed
    <3> QED
      BY <3>2, <3>4
  <2> QED
    BY <2>1, <2>2
<1>8. ChainKept'
  BY <1>1, <1>7, Fixed DEF ChainKept
<1>9. Planned'
  BY <1>1, Known, Fixed DEF Planned, Sending
<1>10. OnCourse'
  BY <1>1, <1>4 DEF OnCourse, Sending
<1> QED
  BY <1>6, <1>8, <1>9, <1>10 DEF IInv

\* The lidar reports an error: its restart will be attempted after a login,
\* and the RUN that follows ends that login.
LEMMA ReportsErrorKeeps ==
    ASSUME IInv, ReportsError
    PROVE  IInv'
<1>1. /\ pc = "send" /\ pc' = "rebootLogin" /\ todo # <<>> /\ todo' = Tail(todo)
      /\ Head(todo) = [cmd |-> "DEVICE_STATE", must |-> TRUE, part |-> "chain"]
      /\ UNCHANGED <<setting, runState, chain, polls, tim240, connected, lidar>>
      /\ faults' \in 0..MaxFaults
  BY StartUpAssumption, Known DEF ReportsError, Goes, Fault
<1>2. /\ todo \in Seq(Item(Sent(setting)))
      /\ ~(IsNav /\ Init0(setting)) => WritesFirst(todo)
      /\ ~IsNav => LogsOut(todo)
  BY <1>1, Known DEF Planned, Sending
<1>3. Head(todo).cmd = "DEVICE_STATE" /\ Head(todo).part = "chain"
  BY <1>1
<1>4. /\ todo' \in Seq(Item(Sent(setting)))
      /\ LogsOut(todo) => LogsOut(todo') /\ HasMust(todo', {"RUN"})
      /\ WritesFirst(todo) => WritesFirst(todo')
      /\ \A c : HasMust(todo, {c}) => c = "DEVICE_STATE" \/ HasMust(todo', {c})
  BY <1>1, <1>2, <1>3, TailItems
<1>5. \A i \in Item(Sent(setting)) : i \in Item(Sent(setting) \cup Cola)
  BY DEF Item
<1>6. todo' \in Seq(Item(Sent(setting) \cup Cola))
  BY <1>4, <1>5, SeqMonotonic
<1>7. Planned'
  BY <1>1, <1>2, <1>4, <1>6, Fixed DEF Planned, Sending
<1>8. LidarTyped' /\ connected' \in BOOLEAN /\ polls' \in 0..MaxPolls /\ tim240' \in BOOLEAN
  BY <1>1, Known DEF LidarTyped
<1>9. Typed' /\ ChainKept'
  BY <1>1, <1>7, <1>8, Known, TypedStays, ChainStays
<1>10. OnCourse'
  <2>1. ~IsWrite("DEVICE_STATE") /\ "DEVICE_STATE" \notin Streams /\ "DEVICE_STATE" # "RUN"
    BY DEF IsWrite, Open, Streams
  <2>2. connected => OnCourse /\ Sending /\ lidar' = lidar /\ setting' = setting /\ connected' = connected
    BY <1>1, Known DEF Sending
  <2>3. HasMust(todo, Streams) => HasMust(todo', Streams)
    <3> HAVE HasMust(todo, Streams)
    <3>1. PICK c \in Streams : HasMust(todo, {c})
      BY DEF HasMust
    <3>2. HasMust(todo', {c})
      BY <1>4, <2>1, <3>1
    <3> QED
      BY <3>1, <3>2 DEF HasMust
  <2>4. \A c : IsWrite(c) /\ HasMust(todo, {c}) => HasMust(todo', {c})
    BY <1>4, <2>1
  <2>5. LogsOut(todo) => HasMust(todo', {"RUN"})
    BY <1>4
  <2> QED
    BY <1>1, <1>2, <2>2, <2>3, <2>4, <2>5, Known, Fixed DEF OnCourse, Sending
<1> QED
  BY <1>7, <1>9, <1>10 DEF IInv

\* The other steps send nothing.
LEMMA RestKeeps ==
    ASSUME IInv, PollBusy \/ ImuExits \/ Started \/ ReadTimeout \/ PowerCycle \/ UNCHANGED vars
    PROVE  IInv'
<1>1. /\ UNCHANGED <<setting, chain, todo, tim240>>
      /\ LidarTyped' /\ connected' \in BOOLEAN /\ faults' \in 0..MaxFaults
  <2>1. LidarTyped'
    <3>1. CASE PowerCycle
      <4>1. lidar' = PoweredOn(lidar.eeprom)
        BY <3>1 DEF PowerCycle
      <4>2. /\ DOMAIN lidar' = Fields /\ lidar'.eeprom = lidar.eeprom /\ lidar'.binary = lidar.eeprom
            /\ lidar'.level = FALSE /\ lidar'.deaf = FALSE /\ lidar'.streaming = FALSE
        BY <4>1 DEF PoweredOn, Fields
      <4> QED
        BY <4>2, Known DEF LidarTyped
    <3>2. CASE lidar' = lidar
      BY <3>2, Known DEF LidarTyped
    <3> QED
      BY <3>1, <3>2 DEF PollBusy, ImuExits, Started, ReadTimeout, vars
  <2>2. faults' = faults \/ Fault
    BY DEF PollBusy, ImuExits, Started, ReadTimeout, PowerCycle, vars
  <2>3. faults' \in 0..MaxFaults
    BY <2>2, Known, StartUpAssumption DEF Fault
  <2>4. connected' \in BOOLEAN
    BY Known DEF PollBusy, ImuExits, Started, ReadTimeout, PowerCycle, vars
  <2>5. UNCHANGED <<setting, chain, todo, tim240>>
    BY DEF PollBusy, ImuExits, Started, ReadTimeout, PowerCycle, driver, vars
  <2> QED
    BY <2>1, <2>3, <2>4, <2>5
<1>2. Planned'
  BY <1>1, Known, Fixed
     DEF Planned, Sending, PollBusy, ImuExits, Started, ReadTimeout, PowerCycle, driver, vars, Goes, Fails
<1>3. polls' \in 0..MaxPolls /\ (pc' = "ready" => polls' < MaxPolls)
  BY Known DEF Typed, PollBusy, ImuExits, Started, ReadTimeout, PowerCycle, driver, vars, Goes, Fails
<1>4. TypeOK'
  BY <1>1, <1>3, Known
     DEF Typed, TypeOK, PollBusy, ImuExits, Started, ReadTimeout, PowerCycle, driver, vars, Goes, Fails
<1>5. Typed'
  BY <1>1, <1>3, <1>4, Known, Fixed
     DEF Typed, TypeOK, PollBusy, ImuExits, Started, ReadTimeout, PowerCycle, driver, vars, Goes, Fails
<1>6. ChainKept'
  BY <1>1, Known, Fixed
     DEF ChainKept, Typed, TypeOK, PollBusy, ImuExits, Started, ReadTimeout, PowerCycle, driver, vars, Goes, Fails
<1>7. OnCourse'
  BY <1>1, Known, Fixed
     DEF OnCourse, Sending, PollBusy, ImuExits, Started, ReadTimeout, PowerCycle, driver, vars, Goes, Fails
<1> QED
  BY <1>2, <1>5, <1>6, <1>7 DEF IInv

\* The invariant is inductive.
LEMMA Inductive ==
    IInv /\ [Next]_vars => IInv'
BY ConnectKeeps, ProbeKeeps, ProbeOtherKeeps, SwitchKeeps, SendKeeps, ReportsErrorKeeps, RebootKeeps, RestKeeps
   DEF Next, Driver

LEMMA Always ==
    Spec => []IInv
BY Initially, Inductive, PTL DEF Spec

-----------------------------------------------------------------------------
(* The theorems. *)

\* Every state of the start-up has its type, whatever the launch file says
\* and however many exchanges fail (init_scanner, mainGenericLaser).
THEOREM TypeCorrect ==
    Spec => []TypeOK
<1>1. IInv => TypeOK
  BY DEF IInv, Typed
<1> QED
  BY <1>1, Always, PTL

\* The settings that no item is left for are the lidar's.
LEMMA ConfiguredIsWhole ==
    ASSUME NEW a
    PROVE  Configured(a) <=>
               \A i \in DOMAIN Whole : Whole[i].must /\ IsWrite(Whole[i].cmd) =>
                   Whole[i].cmd \in a \cup Unsupported(setting)
BY DEF Configured, Whole, Begin, Init0, With

\* When the driver runs, the lidar that it is connected to speaks the
\* configured dialect, has every setting that is not optional and sends its
\* data, and the login has ended: after any number of failed exchanges,
\* restarts of the lidar and initialisations by the monitoring
\* (init_scanner, checkColaTypeAndSwitchToConfigured, rebootScanner).
THEOREM RunningIsConfigured ==
    Spec => []RunningMeansConfigured
<1>1. IInv => RunningMeansConfigured
  <2> SUFFICES ASSUME IInv, pc = "run", connected
               PROVE  /\ lidar.binary = setting.binary
                      /\ Configured(lidar.applied)
                      /\ setting.scanner # "NAV_350" => lidar.streaming /\ ~lidar.level
    BY DEF RunningMeansConfigured
  <2>1. Sending /\ todo = <<>>
    BY Known DEF Sending, Planned
  <2>2. \A C : ~HasMust(todo, C)
    BY <2>1 DEF HasMust
  <2>3. /\ lidar.binary = setting.binary
        /\ \A i \in DOMAIN Whole :
              Whole[i].must /\ IsWrite(Whole[i].cmd) => Whole[i].cmd \in lidar.applied \cup Unsupported(setting)
        /\ ~IsNav => lidar.streaming
        /\ ~IsNav => ~lidar.level
    BY <2>1, <2>2, Known DEF OnCourse
  <2> QED
    BY <2>3, ConfiguredIsWhole DEF IsNav
<1> QED
  BY <1>1, Always, PTL

\* The data start on a lidar that is configured: what is published was
\* measured with the settings of the launch file.  NAV_350 with
\* initialize_scanner 0, which starts the data before the configuration of
\* the navigation, is left out.
THEOREM DataAreConfigured ==
    ASSUME \A x \in Settings : ~(x.scanner = "NAV_350" /\ Init0(x))
    PROVE  Spec => DataOnlyWhenConfigured
<1>1. ASSUME IInv, [Next]_vars, ~lidar.streaming, lidar'.streaming
      PROVE  Configured(lidar.applied)
  <2>1. ASSUME NEW cmd, NEW b, NEW ok \in BOOLEAN, Exchange(cmd, b, ok)
        PROVE  connected /\ cmd \in Streams
    BY <1>1, <2>1, Known, ExchangeFacts
  <2>2. "DEVICE_STATE" \notin Streams /\ "REBOOT" \notin Streams /\ cmdSetAccessMode3(setting) \notin Streams
        /\ \A c \in Logins \cup Cola : c \notin Streams
    BY DEF Streams, cmdSetAccessMode3, Logins, Cola, SetToCola
  <2>3. PICK ok \in BOOLEAN : Send(ok)
    <3>1. ~(Connect \/ ReportsError \/ PollBusy \/ ImuExits \/ Started \/ ReadTimeout \/ PowerCycle \/ UNCHANGED vars)
      <4>1. ~Connected(lidar).streaming
        BY Known DEF Connected, LidarTyped, Fields
      <4>2. ~PoweredOn(lidar.eeprom).streaming
        BY DEF PoweredOn
      <4> QED
        BY <1>1, <4>1, <4>2
           DEF Connect, ReportsError, PollBusy, ImuExits, Started, ReadTimeout, PowerCycle, vars
    <3>2. ASSUME NEW ok \in BOOLEAN
          PROVE  ~(Probe(ok) \/ ProbeOther(ok) \/ RebootLogin(ok) \/ Reboot(ok) \/ PollReady(ok))
      BY <2>1, <2>2 DEF Probe, ProbeOther, RebootLogin, Reboot, PollReady
    <3>3. ASSUME NEW ok \in BOOLEAN
          PROVE  ~(Switch(ok) \/ SwitchTiM240(ok))
      <4> SUFFICES ASSUME Switch(ok) \/ SwitchTiM240(ok)
                   PROVE  FALSE
        OBVIOUS
      <4>1. todo # <<>> /\ todo \in Seq(Item(Logins \cup Cola))
        BY <1>1, Known DEF Planned, Switch, SwitchTiM240
      <4>2. Head(todo) \in Item(Logins \cup Cola)
        BY <4>1
      <4>3. Head(todo).cmd \notin Streams
        BY <2>2, <4>2 DEF Item
      <4> QED
        BY <2>1, <4>3 DEF Switch, SwitchTiM240
    <3> QED
      BY <1>1, <3>1, <3>2, <3>3 DEF Next, Driver
  <2>4. pc = "send" /\ todo # <<>> /\ connected /\ Head(todo).cmd \in Streams
    BY <2>1, <2>3 DEF Send
  <2>5. todo \in Seq(Item(Sent(setting))) /\ WritesFirst(todo)
    BY <1>1, <2>4, Known DEF Planned, Sending, IsNav
  <2>6. \A i \in DOMAIN todo : ~(todo[i].must /\ IsWrite(todo[i].cmd))
    BY <2>4, <2>5, TailItems
  <2>7. \A c : IsWrite(c) => ~HasMust(todo, {c})
    BY <2>6 DEF HasMust
  <2>8. \A i \in DOMAIN Whole :
            Whole[i].must /\ IsWrite(Whole[i].cmd) => Whole[i].cmd \in lidar.applied \cup Unsupported(setting)
    BY <1>1, <2>4, <2>7, Known DEF OnCourse, Sending
  <2> QED
    BY <2>8, ConfiguredIsWhole
<1>2. IInv /\ [Next]_vars => [~lidar.streaming /\ lidar'.streaming => Configured(lidar.applied)]_vars
  BY <1>1
<1> QED
  BY <1>2, Always, PTL DEF Spec, DataOnlyWhenConfigured

-----------------------------------------------------------------------------
(* Sequences in which what belongs together stays together. *)

\* Each element of R comes directly before one of L.
FollowedIn(s, R, L) == \A i \in DOMAIN s : s[i] \in R => i + 1 \in DOMAIN s /\ s[i + 1] \in L

\* Or nothing but elements of O comes after it.
EndedIn(s, R, L, O) ==
    \A i \in DOMAIN s :
        s[i] \in R => \/ i + 1 \in DOMAIN s /\ s[i + 1] \in L
                      \/ \A j \in DOMAIN s : j > i => s[j] \in O

BeginsIn(s, L) == s # <<>> /\ s[1] \in L

Orderly(S, R, L) == {s \in Seq(S) : FollowedIn(s, R, L)}

LEMMA Shifted ==
    ASSUME NEW m \in Nat, NEW n \in Nat, NEW k \in 1..n, k + 1 \in 1..n
    PROVE  m + k + 1 = m + (k + 1) /\ m + k + 1 \in 1..m + n
OBVIOUS

\* Putting such sequences together keeps that.
LEMMA OrderlyConcat ==
    ASSUME NEW S, NEW R, NEW L, NEW s \in Orderly(S, R, L), NEW t \in Seq(S)
    PROVE  /\ t \in Orderly(S, R, L) => s \o t \in Orderly(S, R, L)
           /\ \A O : EndedIn(t, R, L, O) => EndedIn(s \o t, R, L, O)
<1> DEFINE u == s \o t
<1>1. s \in Seq(S) /\ u \in Seq(S) /\ FollowedIn(s, R, L)
  BY DEF Orderly
<1>2. /\ Len(s) \in Nat /\ Len(t) \in Nat /\ Len(u) = Len(s) + Len(t)
      /\ DOMAIN s = 1..Len(s) /\ DOMAIN t = 1..Len(t) /\ DOMAIN u = 1..Len(u)
      /\ \A i \in 1..Len(s) : u[i] = s[i]
      /\ \A i \in 1..Len(t) : u[Len(s) + i] = t[i]
  BY <1>1
<1>3. ASSUME NEW i \in DOMAIN u
      PROVE  i \in DOMAIN s \/ (i - Len(s) \in DOMAIN t /\ i = Len(s) + (i - Len(s)))
  BY <1>2
<1> HIDE DEF u
<1>4. ASSUME NEW i \in DOMAIN s, u[i] \in R
      PROVE  i + 1 \in DOMAIN u /\ u[i + 1] \in L
  <2>1. i + 1 \in DOMAIN s /\ s[i + 1] \in L
    BY <1>1, <1>2, <1>4 DEF FollowedIn
  <2> QED
    BY <2>1, <1>2
<1>5. ASSUME FollowedIn(t, R, L)
      PROVE  FollowedIn(u, R, L)
  <2> SUFFICES ASSUME NEW i \in DOMAIN u, u[i] \in R
               PROVE  i + 1 \in DOMAIN u /\ u[i + 1] \in L
    BY DEF FollowedIn
  <2>1. CASE i \in DOMAIN s
    BY <2>1, <1>4
  <2>2. CASE i - Len(s) \in DOMAIN t /\ i = Len(s) + (i - Len(s))
    <3> DEFINE k == i - Len(s)
    <3>1. k \in DOMAIN t /\ t[k] \in R /\ i = Len(s) + k
      BY <2>2, <1>2
    <3> HIDE DEF k
    <3>2. k + 1 \in DOMAIN t /\ t[k + 1] \in L
      BY <3>1, <1>5 DEF FollowedIn
    <3>3. k + 1 \in 1..Len(t) /\ i + 1 = Len(s) + (k + 1) /\ i + 1 \in 1..Len(u)
      BY <3>1, <3>2, <1>2, Shifted
    <3> QED
      BY <3>2, <3>3, <1>2
  <2> QED
    BY <2>1, <2>2, <1>3
<1>6. ASSUME NEW O, EndedIn(t, R, L, O)
      PROVE  EndedIn(u, R, L, O)
  <2> SUFFICES ASSUME NEW i \in DOMAIN u, u[i] \in R
               PROVE  \/ i + 1 \in DOMAIN u /\ u[i + 1] \in L
                      \/ \A j \in DOMAIN u : j > i => u[j] \in O
    BY DEF EndedIn
  <2>1. CASE i \in DOMAIN s
    BY <2>1, <1>4
  <2>2. CASE i - Len(s) \in DOMAIN t /\ i = Len(s) + (i - Len(s))
    <3> DEFINE k == i - Len(s)
    <3>1. k \in DOMAIN t /\ t[k] \in R /\ i = Len(s) + k
      BY <2>2, <1>2
    <3> HIDE DEF k
    <3>2. \/ k + 1 \in DOMAIN t /\ t[k + 1] \in L
          \/ \A j \in DOMAIN t : j > k => t[j] \in O
      BY <3>1, <1>6 DEF EndedIn
    <3>3. ASSUME k + 1 \in DOMAIN t, t[k + 1] \in L
          PROVE  i + 1 \in DOMAIN u /\ u[i + 1] \in L
      <4>1. k + 1 \in 1..Len(t) /\ i + 1 = Len(s) + (k + 1) /\ i + 1 \in 1..Len(u)
        BY <3>1, <3>3, <1>2, Shifted
      <4> QED
        BY <4>1, <3>3, <1>2
    <3>4. ASSUME \A j \in DOMAIN t : j > k => t[j] \in O, NEW j \in DOMAIN u, j > i
          PROVE  u[j] \in O
      <4>1. j - Len(s) \in 1..Len(t) /\ j - Len(s) > k /\ j = Len(s) + (j - Len(s))
        BY <3>4, <3>1, <1>2
      <4>2. u[j] = t[j - Len(s)]
        BY <4>1, <1>2
      <4> QED
        BY <4>1, <4>2, <3>4, <1>2
    <3> QED
      BY <3>2, <3>3, <3>4
  <2> QED
    BY <2>1, <2>2, <1>3
<1> QED
  BY <1>1, <1>5, <1>6 DEF Orderly, u

\* Leaving a part out keeps it, and so does a part without the element that
\* needs a follower.
LEMMA OrderlyParts ==
    ASSUME NEW S, NEW R, NEW L
    PROVE  /\ \A c : \A s \in Orderly(S, R, L) : When(c, s) \in Orderly(S, R, L)
           /\ \A s, t \in Orderly(S, R, L) : s \o t \in Orderly(S, R, L)
           /\ \A s \in Seq(S \ R) : s \in Orderly(S, R, L)
<1>1. <<>> \in Orderly(S, R, L)
  BY DEF Orderly, FollowedIn
<1>2. ASSUME NEW s \in Seq(S \ R)
      PROVE  s \in Orderly(S, R, L)
  <2>1. s \in Seq(S) /\ \A i \in DOMAIN s : s[i] \notin R
    OBVIOUS
  <2> QED
    BY <2>1 DEF Orderly, FollowedIn
<1>3. \A s, t \in Orderly(S, R, L) : s \o t \in Orderly(S, R, L)
  BY OrderlyConcat DEF Orderly
<1> QED
  BY <1>1, <1>2, <1>3 DEF When

LEMMA BeginsConcat ==
    ASSUME NEW S, NEW L, NEW s \in Seq(S), NEW t \in Seq(S), BeginsIn(s, L)
    PROVE  BeginsIn(s \o t, L)
<1>1. Len(s) \in Nat \ {0}
  BY DEF BeginsIn
<1>2. (s \o t)[1] = s[1] /\ Len(s \o t) # 0
  BY <1>1
<1> QED
  BY <1>2 DEF BeginsIn

-----------------------------------------------------------------------------
(* The commands that a lidar can interpret, in an order in which it accepts *)
(* them.                                                                   *)

Fine(x) == (Harmless \cup Streams \cup Cola) \ (Unsupported(x) \cup {"REBOOT"})

\* Not every scanner type can interpret these.
Doubtful ==
    {"START_MEASUREMENT", "SET_TO_COLA_A_PROTOCOL", "SET_TO_COLA_B_PROTOCOL", "SET_PARTIAL_SCANDATA_CFG",
     "STOP_MEASUREMENT", "SET_TRACKING_MODE_0", "REBOOT"}

Sure == (Harmless \cup Streams) \ Doubtful

LEMMA UnsupportedAre ==
    ASSUME NEW x
    PROVE  /\ \A c \in Unsupported(x) : c \in Doubtful
           /\ "START_MEASUREMENT" \in Unsupported(x) => x.scanner \in {"TIM_240", "NAV_350"}
           /\ \A c \in Cola : c \in Unsupported(x) => x.scanner = "LRS_4XXX"
           /\ "SET_PARTIAL_SCANDATA_CFG" \in Unsupported(x) => x.scanner = "NAV_31X"
           /\ "STOP_MEASUREMENT" \in Unsupported(x) => x.scanner = "RMS_XXXX"
           /\ Tracked \in Unsupported(x) => x.scanner = "RMS_XXXX" /\ "RMS1" \in x.options
<1>1. CASE x.scanner \in {"TIM_240", "NAV_350"}
  <2>1. Unsupported(x) = {"START_MEASUREMENT"}
    BY <1>1 DEF Unsupported
  <2> QED
    BY <1>1, <2>1 DEF Doubtful, Cola, SetToCola, Tracked
<1>2. CASE x.scanner = "LRS_4XXX"
  <2>1. Unsupported(x) = {"SET_TO_COLA_A_PROTOCOL", "SET_TO_COLA_B_PROTOCOL"}
    BY <1>2 DEF Unsupported
  <2> QED
    BY <1>2, <2>1 DEF Doubtful, Cola, SetToCola, Tracked
<1>3. CASE x.scanner = "NAV_31X"
  <2>1. Unsupported(x) = {"SET_PARTIAL_SCANDATA_CFG"}
    BY <1>3 DEF Unsupported
  <2> QED
    BY <1>3, <2>1 DEF Doubtful, Cola, SetToCola, Tracked
<1>4. CASE x.scanner = "RMS_XXXX"
  <2>1. Unsupported(x) = {"STOP_MEASUREMENT"} \cup IF "RMS1" \in x.options THEN {"SET_TRACKING_MODE_0"} ELSE {}
    BY <1>4 DEF Unsupported
  <2> QED
    BY <1>4, <2>1 DEF Doubtful, Cola, SetToCola, Tracked
<1>5. CASE x.scanner \notin {"TIM_240", "NAV_350", "LRS_4XXX", "NAV_31X", "RMS_XXXX"}
  <2>1. Unsupported(x) = {}
    BY <1>5 DEF Unsupported
  <2> QED
    BY <1>5, <2>1 DEF Cola
<1> QED
  BY <1>1, <1>2, <1>3, <1>4, <1>5

\* The radar has no measurement to stop, and the lidar without a scan data
\* configuration has a list of them.
LEMMA TypesDiffer ==
    Params["RMS_XXXX"].radar /\ Params["RMS_XXXX"].eval = FALSE /\ Params["NAV_31X"].list
<1>1. /\ DOMAIN Base = {"layers", "radar", "safety", "eval", "list", "ranges", "wait", "echo"} /\ Base.eval = FALSE
  BY DEF Base
<1>2. RMS_XXXX.radar /\ RMS_XXXX.eval = FALSE /\ NAV_31X.list
  BY <1>1 DEF RMS_XXXX, NAV_31X
<1> QED
  BY <1>2 DEF Params

LEMMA FineCommands ==
    ASSUME NEW x
    PROVE  /\ \A c \in Sure : c \in Fine(x)
           /\ ~Params[x.scanner].radar => "STOP_MEASUREMENT" \in Fine(x)
           /\ x.scanner # "RMS_XXXX" => "STOP_MEASUREMENT" \in Fine(x)
           /\ CanSwitch(x.scanner) => \A b : SetToCola(b) \in Fine(x)
           /\ ~Params[x.scanner].list => "SET_PARTIAL_SCANDATA_CFG" \in Fine(x)
           /\ x.scanner \notin {"TIM_240", "NAV_350"} => "START_MEASUREMENT" \in Fine(x)
<1>1. \A b : SetToCola(b) \in Cola
  BY DEF SetToCola, Cola
<1>2. "REBOOT" \notin Cola
  BY DEF SetToCola, Cola
<1>3. "REBOOT" \in Doubtful
  BY DEF Doubtful
<1>4. /\ "STOP_MEASUREMENT" \in Harmless /\ "SET_PARTIAL_SCANDATA_CFG" \in Harmless /\ "START_MEASUREMENT" \in Harmless
  BY DEF Harmless
<1>5. \A c \in Sure : c \in Fine(x)
  BY <1>3, UnsupportedAre DEF Sure, Fine
<1>6. x.scanner # "RMS_XXXX" => "STOP_MEASUREMENT" \in Fine(x)
  BY <1>4, UnsupportedAre DEF Fine
<1>7. ~Params[x.scanner].radar => "STOP_MEASUREMENT" \in Fine(x)
  BY <1>6, TypesDiffer
<1>8. CanSwitch(x.scanner) => \A b : SetToCola(b) \in Fine(x)
  BY <1>1, <1>2, UnsupportedAre DEF Fine, CanSwitch
<1>9. ~Params[x.scanner].list => "SET_PARTIAL_SCANDATA_CFG" \in Fine(x)
  BY <1>4, UnsupportedAre, TypesDiffer DEF Fine
<1>10. x.scanner \notin {"TIM_240", "NAV_350"} => "START_MEASUREMENT" \in Fine(x)
  BY <1>4, UnsupportedAre DEF Fine
<1> QED
  BY <1>5, <1>6, <1>7, <1>8, <1>9, <1>10

\* Commands in which each RUN comes directly before a login.
LoggedInAgain(x) == Orderly(Fine(x), {"RUN"}, Logins)

LEMMA FineClosed ==
    ASSUME NEW x
    PROVE  /\ \A c : \A s \in LoggedInAgain(x) : When(c, s) \in LoggedInAgain(x)
           /\ \A s, t \in LoggedInAgain(x) : s \o t \in LoggedInAgain(x)
           /\ \A s \in Seq(Fine(x) \ {"RUN"}) : s \in LoggedInAgain(x)
           /\ \A s \in Seq(Sure \ {"RUN"}) : s \in LoggedInAgain(x)
<1>1. \A c \in Sure \ {"RUN"} : c \in Fine(x) \ {"RUN"}
  BY FineCommands
<1>2. \A s \in Seq(Sure \ {"RUN"}) : s \in Seq(Fine(x) \ {"RUN"})
  BY <1>1, SeqMonotonic
<1> QED
  BY <1>2, OrderlyParts DEF LoggedInAgain

LEMMA StopMeasurementOrderly ==
    ASSUME NEW x
    PROVE  StopMeasurement(x) \in LoggedInAgain(x)
<1> DEFINE Q == LoggedInAgain(x)
           F == Fine(x) \ {"RUN"}
<1>1. /\ <<"GET_ANGLE_COMPENSATION_PARAM">> \in Seq(Sure \ {"RUN"})
      /\ <<"LOAD_APPLICATION_DEFAULT">> \in Seq(Sure \ {"RUN"})
      /\ <<"READ_ACTIVE_APPLICATIONS">> \in Seq(Sure \ {"RUN"})
      /\ <<"DEVICE_IDENT">> \in Seq(Sure \ {"RUN"})
      /\ <<"APPLICATION_MODE_FIELD_OFF", "APPLICATION_MODE_RANGING_ON", "SERIAL_NUMBER">> \in Seq(Sure \ {"RUN"})
  BY ShortSeqs DEF Sure, Harmless, Doubtful
<1>2. /\ <<"GET_ANGLE_COMPENSATION_PARAM">> \in Q
      /\ <<"LOAD_APPLICATION_DEFAULT">> \in Q
      /\ <<"READ_ACTIVE_APPLICATIONS">> \in Q
      /\ <<"DEVICE_IDENT">> \in Q
      /\ <<"APPLICATION_MODE_FIELD_OFF", "APPLICATION_MODE_RANGING_ON", "SERIAL_NUMBER">> \in Q
  BY <1>1, FineClosed
<1>3. "STOP_MEASUREMENT" \in Fine(x) => <<"STOP_MEASUREMENT">> \in Q
  <2>1. "STOP_MEASUREMENT" \in Fine(x) => <<"STOP_MEASUREMENT">> \in Seq(F)
    BY ShortSeqs
  <2> QED
    BY <2>1, FineClosed
<1> HIDE DEF Q, F
<1>4. /\ \A c : \A s \in Q : When(c, s) \in Q
      /\ \A s, t \in Q : s \o t \in Q
  BY FineClosed DEF Q
<1>5. \A s : When(FALSE, s) \in Q
  BY <1>2, <1>4 DEF When
<1>6. When(x.scanner \in {"NAV_31X", "LRS_36x0", "LRS_36x1", "OEM_15XX"}, <<"STOP_MEASUREMENT">>) \in Q
  <2>1. CASE x.scanner \in {"NAV_31X", "LRS_36x0", "LRS_36x1", "OEM_15XX"}
    BY <1>3, <1>4, <2>1, FineCommands
  <2> QED
    BY <1>5, <2>1 DEF When
<1>7. When(Params[x.scanner].layers # 1 /\ ~Params[x.scanner].radar,
           <<"STOP_MEASUREMENT">>
           \o When(x.scanner = "MRS_1XXX", <<"READ_ACTIVE_APPLICATIONS">>)
           \o <<"DEVICE_IDENT">>
           \o When(Params[x.scanner].layers = 4,
                   <<"APPLICATION_MODE_FIELD_OFF", "APPLICATION_MODE_RANGING_ON", "SERIAL_NUMBER">>)) \in Q
  <2>1. CASE ~Params[x.scanner].radar
    <3>1. <<"STOP_MEASUREMENT">> \in Q
      BY <1>3, <2>1, FineCommands
    <3> QED
      BY <1>2, <1>4, <3>1
  <2> QED
    BY <1>5, <2>1 DEF When
<1>8. StopMeasurement(x) \in Q
  BY <1>2, <1>4, <1>6, <1>7 DEF StopMeasurement
<1> QED
  BY <1>8 DEF Q

LEMMA ScanConfigNavOrderly ==
    ASSUME NEW x
    PROVE  ScanConfigNav(x) \in LoggedInAgain(x)
<1> DEFINE Q == LoggedInAgain(x)
           s == <<"GET_SCANDATACONFIGNAV", "SET_SCAN_CFG_LIST", "RUN", "SET_ACCESS_MODE_3", "GET_SCANDATACONFIGNAV">>
           t == <<"SET_SCANDATACONFIGNAV">>
           u == <<"RUN", "SET_ACCESS_MODE_3", "GET_SCANDATACONFIGNAV">>
<1>1. s \in Seq(Sure) /\ t \in Seq(Sure) /\ u \in Seq(Sure)
  BY ShortSeqs DEF Sure, Harmless, Doubtful
<1>2. s \in Seq(Fine(x)) /\ t \in Seq(Fine(x)) /\ u \in Seq(Fine(x))
  BY <1>1, FineCommands, SeqMonotonic
<1>3. /\ FollowedIn(s, {"RUN"}, Logins)
      /\ FollowedIn(t, {"RUN"}, Logins)
      /\ FollowedIn(u, {"RUN"}, Logins)
  BY DEF FollowedIn, Logins
<1> HIDE DEF s, t, u
<1>4. s \in Q /\ t \in Q /\ u \in Q
  BY <1>2, <1>3 DEF LoggedInAgain, Orderly
<1> HIDE DEF Q
<1>5. /\ \A c : \A q \in Q : When(c, q) \in Q
      /\ \A q, r \in Q : q \o r \in Q
  BY FineClosed DEF Q
<1>6. ScanConfigNav(x) \in Q
  BY <1>4, <1>5 DEF ScanConfigNav, s, t, u
<1> QED
  BY <1>6 DEF Q

LEMMA FiltersOrderly ==
    ASSUME NEW x
    PROVE  Filters(x) \in LoggedInAgain(x)
<1> DEFINE Q == LoggedInAgain(x)
           s == <<"SET_SCAN_LAYER_FILTER", "RUN", "SET_ACCESS_MODE_3">>
<1>1. /\ <<"SET_LFPMEANFILTER", "SET_LFPMEDIANFILTER">> \in Seq(Sure \ {"RUN"})
      /\ <<"SET_GLARE_DETECTION_SENS">> \in Seq(Sure \ {"RUN"})
      /\ <<"SET_LMDSCANDATASCALEFACTOR">> \in Seq(Sure \ {"RUN"})
      /\ s \in Seq(Sure)
  BY ShortSeqs DEF Sure, Harmless, Doubtful
<1>2. FollowedIn(s, {"RUN"}, Logins)
  BY DEF FollowedIn, Logins
<1>3. s \in Q
  <2> HIDE DEF s
  <2>1. s \in Seq(Fine(x))
    BY <1>1, FineCommands, SeqMonotonic
  <2> QED
    BY <1>2, <2>1 DEF LoggedInAgain, Orderly
<1>4. /\ <<"SET_LFPMEANFILTER", "SET_LFPMEDIANFILTER">> \in Q
      /\ <<"SET_GLARE_DETECTION_SENS">> \in Q
      /\ <<"SET_LMDSCANDATASCALEFACTOR">> \in Q
  BY <1>1, FineClosed
<1> HIDE DEF Q
<1>5. /\ \A c : \A t \in Q : When(c, t) \in Q
      /\ \A t, u \in Q : t \o u \in Q
  BY FineClosed DEF Q
<1>6. Filters(x) \in Q
  BY <1>3, <1>4, <1>5 DEF Filters
<1> QED
  BY <1>6 DEF Q

LEMMA IdentifyOrderly ==
    ASSUME NEW x
    PROVE  Identify(x) \in LoggedInAgain(x)
<1>1. /\ <<"DEVICE_IDENT">> \in Seq(Sure \ {"RUN"})
      /\ <<"FIRMWARE_VERSION", "DEVICE_STATE", "OPERATION_HOURS", "POWER_ON_COUNT", "LOCATION_NAME">>
             \in Seq(Sure \ {"RUN"})
  BY ShortSeqs DEF Sure, Harmless, Doubtful
<1> QED
  BY <1>1, FineClosed DEF Identify

LEMMA EncoderOrderly ==
    ASSUME NEW x
    PROVE  EncoderCommands(x) \in LoggedInAgain(x)
<1> DEFINE Q == LoggedInAgain(x)
<1>1. /\ <<"SET_3_4_TO_ENCODER">> \in Seq(Sure \ {"RUN"})
      /\ <<"SET_INCREMENTSOURCE_ENC">> \in Seq(Sure \ {"RUN"})
      /\ <<"SET_ENCODER_MODE_SI">> \in Seq(Sure \ {"RUN"})
      /\ <<"SET_ENOCDER_RES_1">> \in Seq(Sure \ {"RUN"})
  BY ShortSeqs DEF Sure, Harmless, Doubtful
<1>2. /\ <<"SET_3_4_TO_ENCODER">> \in Q
      /\ <<"SET_INCREMENTSOURCE_ENC">> \in Q
      /\ <<"SET_ENCODER_MODE_SI">> \in Q
      /\ <<"SET_ENOCDER_RES_1">> \in Q
  BY <1>1, FineClosed
<1> HIDE DEF Q
<1>3. /\ \A c : \A s \in Q : When(c, s) \in Q
      /\ \A s, t \in Q : s \o t \in Q
  BY FineClosed DEF Q
<1>4. EncoderCommands(x) \in Q
  BY <1>2, <1>3 DEF EncoderCommands
<1> QED
  BY <1>4 DEF Q

\* A login comes first, on its own.
LEMMA LoginFirst ==
    ASSUME NEW x, NEW login \in Logins, NEW t \in LoggedInAgain(x)
    PROVE  <<login>> \o t \in LoggedInAgain(x) /\ BeginsIn(<<login>> \o t, Logins)
<1>1. login \in Sure \ {"RUN"}
  BY DEF Logins, Sure, Harmless, Doubtful
<1>2. <<login>> \in LoggedInAgain(x)
  BY <1>1, FineClosed, ShortSeqs
<1>3. <<login>> \o t \in LoggedInAgain(x)
  BY <1>2, FineClosed
<1>4. BeginsIn(<<login>>, Logins)
  BY DEF BeginsIn
<1>5. <<login>> \in Seq(Fine(x)) /\ t \in Seq(Fine(x))
  BY <1>2 DEF LoggedInAgain, Orderly
<1> QED
  BY <1>3, <1>4, <1>5, BeginsConcat

\* The chain of a new scanner object.
LEMMA BeginOrderly ==
    ASSUME setting.scanner \in Scanners
    PROVE  Begin \in LoggedInAgain(setting) /\ BeginsIn(Begin, Logins)
<1> DEFINE Q == LoggedInAgain(setting)
           cola == When(CanSwitch(setting.scanner), <<SetToCola(setting.binary)>>)
           safety == When(Params[setting.scanner].safety, <<"SET_ACCESS_MODE_3_SAFETY_SCANNER">>)
<1>1. cmdSetAccessMode3(setting) \in Logins /\ "SET_ACCESS_MODE_3" \in Logins
  BY DEF cmdSetAccessMode3, Logins
<1>2. cola \in Q
  <2>1. CASE CanSwitch(setting.scanner)
    <3>1. SetToCola(setting.binary) \in Fine(setting) \ {"RUN"}
      BY <2>1, FineCommands DEF SetToCola
    <3>2. <<SetToCola(setting.binary)>> \in Seq(Fine(setting) \ {"RUN"})
      BY <3>1, ShortSeqs
    <3> QED
      BY <3>2, FineClosed
  <2>2. CASE ~CanSwitch(setting.scanner)
    <3>1. cola = <<>> /\ <<>> \in Seq(Sure \ {"RUN"})
      BY <2>2 DEF When
    <3> HIDE DEF cola
    <3> QED
      BY <3>1, FineClosed
  <2> QED
    BY <2>1, <2>2
<1>3. safety \in Q
  <2>1. "SET_ACCESS_MODE_3_SAFETY_SCANNER" \in Sure \ {"RUN"}
    BY DEF Sure, Harmless, Doubtful
  <2>2. <<"SET_ACCESS_MODE_3_SAFETY_SCANNER">> \in Q
    BY <2>1, FineClosed, ShortSeqs
  <2> QED
    BY <2>2, FineClosed
<1> HIDE DEF cola, safety
<1>4. /\ StopMeasurement(setting) \in Q /\ Identify(setting) \in Q /\ ScanConfigNav(setting) \in Q
      /\ Filters(setting) \in Q /\ EncoderCommands(setting) \in Q
  BY StopMeasurementOrderly, IdentifyOrderly, ScanConfigNavOrderly, FiltersOrderly, EncoderOrderly
<1>5. \A s \in Q : s \in Seq(Fine(setting))
  BY DEF LoggedInAgain, Orderly
<1>6. \A s, t \in Q : BeginsIn(s, Logins) => s \o t \in Q /\ BeginsIn(s \o t, Logins)
  BY <1>5, FineClosed, BeginsConcat
<1>7. \A login \in Logins : \A t \in Q : <<login>> \o t \in Q /\ BeginsIn(<<login>> \o t, Logins)
  BY LoginFirst
<1> HIDE DEF Q
<1>8. ASSUME With("new_IP_address")
      PROVE  Begin \in Q /\ BeginsIn(Begin, Logins)
  <2>1. Begin = <<"SET_ACCESS_MODE_3">> \o safety \o EncoderCommands(setting)
    BY <1>8 DEF Begin, ChainAtStart, safety
  <2>2. <<"SET_ACCESS_MODE_3">> \o safety \in Q /\ BeginsIn(<<"SET_ACCESS_MODE_3">> \o safety, Logins)
    BY <1>1, <1>3, <1>7
  <2> QED
    BY <1>4, <1>6, <2>1, <2>2
<1>9. ASSUME ~With("new_IP_address")
      PROVE  Begin \in Q /\ BeginsIn(Begin, Logins)
  <2>1. Begin = init_cmdTables(setting) \o EncoderCommands(setting)
    BY <1>9 DEF Begin, ChainAtStart
  <2>2. <<cmdSetAccessMode3(setting)>> \o cola \in Q /\ BeginsIn(<<cmdSetAccessMode3(setting)>> \o cola, Logins)
    BY <1>1, <1>2, <1>7
  <2>3. init_cmdTables(setting) \in Q /\ BeginsIn(init_cmdTables(setting), Logins)
    BY <1>4, <1>6, <2>2 DEF init_cmdTables, cola
  <2> QED
    BY <1>4, <1>6, <2>1, <2>3
<1> QED
  BY <1>8, <1>9 DEF Q

-----------------------------------------------------------------------------
(* The items that a lidar accepts one after the other. *)

ToSend(x) == Fine(x) \cup {Tracked}

ItemsOf(x, C) == {i \in Item(ToSend(x)) : i.cmd \in C}

OrderlyItems(x) == Orderly(Item(Fine(x)), ItemsOf(x, {"RUN"}), ItemsOf(x, Logins))

\* A command that the lidar cannot interpret is the tracking mode of a radar
\* that is asked for its type first.
Announced(x, s) ==
    \A i \in DOMAIN s : s[i].cmd \in Unsupported(x) =>
        s[i].cmd = Tracked /\ \E j \in DOMAIN s : j < i /\ s[j].cmd = "DEVICE_TYPE"

\* At the level that the lidar has now.
Acceptable(x, s, level) ==
    /\ s \in Seq(Item(ToSend(x)))
    /\ EndedIn(s, ItemsOf(x, {"RUN"}), ItemsOf(x, Logins), ItemsOf(x, Open))
    /\ Announced(x, s)
    /\ level \/ BeginsIn(s, ItemsOf(x, Logins)) \/ \A i \in DOMAIN s : s[i].cmd \in Open

\* What comes after RUN may be followed by more that needs no login.
LEMMA EndedConcat ==
    ASSUME NEW S, NEW R, NEW L, NEW O, NEW s \in Seq(S), NEW t \in Seq(S), EndedIn(s, R, L, O),
           \A i \in DOMAIN t : t[i] \in O /\ t[i] \notin R
    PROVE  EndedIn(s \o t, R, L, O)
<1> DEFINE u == s \o t
<1>1. /\ Len(s) \in Nat /\ Len(t) \in Nat /\ Len(u) = Len(s) + Len(t)
      /\ DOMAIN s = 1..Len(s) /\ DOMAIN t = 1..Len(t) /\ DOMAIN u = 1..Len(u)
      /\ \A i \in 1..Len(s) : u[i] = s[i]
      /\ \A i \in 1..Len(t) : u[Len(s) + i] = t[i]
  OBVIOUS
<1> HIDE DEF u
<1>2. ASSUME NEW i \in DOMAIN u
      PROVE  i \in DOMAIN s \/ (i - Len(s) \in DOMAIN t /\ u[i] = t[i - Len(s)])
  <2>1. CASE i \in 1..Len(s)
    BY <1>1, <2>1
  <2>2. CASE i \notin 1..Len(s)
    <3>1. i - Len(s) \in 1..Len(t) /\ i = Len(s) + (i - Len(s))
      BY <1>1, <2>2
    <3> QED
      BY <1>1, <3>1
  <2> QED
    BY <2>1, <2>2
<1>3. ASSUME NEW i \in DOMAIN u, u[i] \in R
      PROVE  \/ i + 1 \in DOMAIN u /\ u[i + 1] \in L
             \/ \A j \in DOMAIN u : j > i => u[j] \in O
  <2>1. i \in DOMAIN s /\ s[i] \in R
    BY <1>1, <1>2, <1>3
  <2>2. CASE i + 1 \in DOMAIN s /\ s[i + 1] \in L
    BY <1>1, <2>2
  <2>3. CASE \A j \in DOMAIN s : j > i => s[j] \in O
    BY <1>1, <1>2, <2>3
  <2> QED
    BY <2>1, <2>2, <2>3 DEF EndedIn
<1> QED
  BY <1>3 DEF EndedIn, u

LEMMA AnnouncedConcat ==
    ASSUME NEW x, NEW s \in Seq(Item(Fine(x))), NEW t \in Seq(Item(ToSend(x))), Announced(x, t)
    PROVE  Announced(x, s \o t)
<1> DEFINE u == s \o t
<1>0. \A i \in Item(Fine(x)) : i \in Item(ToSend(x))
  BY DEF Item, ToSend
<1>1. /\ Len(s) \in Nat /\ Len(t) \in Nat /\ Len(u) = Len(s) + Len(t)
      /\ DOMAIN s = 1..Len(s) /\ DOMAIN t = 1..Len(t) /\ DOMAIN u = 1..Len(u)
      /\ \A i \in 1..Len(s) : u[i] = s[i]
      /\ \A i \in 1..Len(t) : u[Len(s) + i] = t[i]
  BY <1>0
<1>2. \A i \in DOMAIN s : s[i].cmd \notin Unsupported(x)
  <2>1. \A i \in Item(Fine(x)) : i.cmd \notin Unsupported(x)
    BY DEF Item, Fine
  <2> QED
    BY <2>1
<1> HIDE DEF u
<1>3. ASSUME NEW i \in DOMAIN u, u[i].cmd \in Unsupported(x)
      PROVE  u[i].cmd = Tracked /\ \E j \in DOMAIN u : j < i /\ u[j].cmd = "DEVICE_TYPE"
  <2>1. i \notin 1..Len(s)
    BY <1>1, <1>2, <1>3
  <2>2. PICK k \in 1..Len(t) : i = Len(s) + k
    <3>1. i - Len(s) \in 1..Len(t) /\ i = Len(s) + (i - Len(s))
      BY <1>1, <2>1
    <3> QED
      BY <3>1
  <2>3. u[i] = t[k]
    BY <1>1, <2>2
  <2>4. PICK j \in DOMAIN t : t[k].cmd = Tracked /\ j < k /\ t[j].cmd = "DEVICE_TYPE"
    BY <1>1, <1>3, <2>3 DEF Announced
  <2>5. j \in 1..Len(t) /\ Len(s) + j \in 1..Len(u) /\ Len(s) + j < i
    BY <1>1, <2>2, <2>4
  <2>6. u[Len(s) + j] = t[j]
    BY <1>1, <2>5
  <2> QED
    BY <1>1, <2>3, <2>4, <2>5, <2>6
<1> QED
  BY <1>3 DEF Announced, u

\* Items are in the order of their commands.
LEMMA ItemsOrder ==
    ASSUME NEW x, NEW cmds \in Seq(ToSend(x)), NEW must \in BOOLEAN, NEW part \in Parts
    PROVE  LET s == Items(cmds, must, part) IN
           /\ s \in Seq(Item(ToSend(x)))
           /\ cmds \in Seq(Fine(x)) => s \in Seq(Item(Fine(x)))
           /\ DOMAIN s = DOMAIN cmds /\ \A i \in DOMAIN cmds : s[i].cmd = cmds[i]
           /\ FollowedIn(cmds, {"RUN"}, Logins) => FollowedIn(s, ItemsOf(x, {"RUN"}), ItemsOf(x, Logins))
           /\ EndedIn(cmds, {"RUN"}, Logins, Open) =>
                  EndedIn(s, ItemsOf(x, {"RUN"}), ItemsOf(x, Logins), ItemsOf(x, Open))
           /\ BeginsIn(cmds, Logins) => BeginsIn(s, ItemsOf(x, Logins))
<1> DEFINE s == Items(cmds, must, part)
<1>1. s \in Seq(Item(ToSend(x))) /\ (cmds \in Seq(Fine(x)) => s \in Seq(Item(Fine(x))))
  BY ItemsTyped
<1>2. \A i \in DOMAIN cmds : s[i] = [cmd |-> cmds[i], must |-> must, part |-> part]
  BY ItemsTyped
<1>3. DOMAIN s = DOMAIN cmds
  BY DEF Items
<1> HIDE DEF s
<1>4. \A i \in DOMAIN cmds : s[i].cmd = cmds[i] /\ s[i] \in Item(ToSend(x))
  BY <1>1, <1>2, <1>3
<1>5. \A i \in DOMAIN cmds : \A C : s[i] \in ItemsOf(x, C) <=> cmds[i] \in C
  BY <1>4 DEF ItemsOf
<1>6. FollowedIn(cmds, {"RUN"}, Logins) => FollowedIn(s, ItemsOf(x, {"RUN"}), ItemsOf(x, Logins))
  BY <1>3, <1>5 DEF FollowedIn
<1>7. EndedIn(cmds, {"RUN"}, Logins, Open) =>
          EndedIn(s, ItemsOf(x, {"RUN"}), ItemsOf(x, Logins), ItemsOf(x, Open))
  BY <1>3, <1>5 DEF EndedIn
<1>8. BeginsIn(cmds, Logins) => BeginsIn(s, ItemsOf(x, Logins))
  <2>1. \A b : b # <<>> /\ b \in Seq(ToSend(x)) => 1 \in DOMAIN b
    OBVIOUS
  <2>2. 1 \in DOMAIN s => s # <<>>
    OBVIOUS
  <2> QED
    BY <1>3, <1>5, <2>1, <2>2 DEF BeginsIn
<1> QED
  BY <1>1, <1>3, <1>4, <1>6, <1>7, <1>8 DEF s

LEMMA OrderlyCommands ==
    ASSUME NEW x, NEW cmds \in LoggedInAgain(x)
    PROVE  /\ Must(cmds) \in OrderlyItems(x) /\ May(cmds) \in OrderlyItems(x)
           /\ Items(cmds, TRUE, "chain") \in OrderlyItems(x)
           /\ BeginsIn(cmds, Logins) => BeginsIn(Items(cmds, TRUE, "chain"), ItemsOf(x, Logins))
<1>1. "config" \in Parts /\ "chain" \in Parts
  BY DEF Parts
<1>2. cmds \in Seq(Fine(x)) /\ FollowedIn(cmds, {"RUN"}, Logins)
  BY DEF LoggedInAgain, Orderly
<1>3. cmds \in Seq(ToSend(x))
  BY <1>2, SeqMonotonic DEF ToSend
<1>4. \A must \in BOOLEAN : \A part \in Parts : Items(cmds, must, part) \in OrderlyItems(x)
  BY <1>2, <1>3, ItemsOrder DEF OrderlyItems, Orderly
<1>5. BeginsIn(cmds, Logins) => BeginsIn(Items(cmds, TRUE, "chain"), ItemsOf(x, Logins))
  BY <1>1, <1>3, ItemsOrder
<1> QED
  BY <1>1, <1>4, <1>5 DEF Must, May

LEMMA OrderlyClosed ==
    ASSUME NEW x
    PROVE  /\ \A c : \A s \in OrderlyItems(x) : When(c, s) \in OrderlyItems(x)
           /\ \A s, t \in OrderlyItems(x) : s \o t \in OrderlyItems(x)
           /\ \A cmds \in Seq(Sure \ {"RUN"}) : Must(cmds) \in OrderlyItems(x) /\ May(cmds) \in OrderlyItems(x)
BY OrderlyParts, OrderlyCommands, FineClosed DEF OrderlyItems

LEMMA ConfigurationOrderly ==
    ASSUME NEW x
    PROVE  Configuration(x) \in OrderlyItems(x) /\ setNTPServerAndStart(x) \in OrderlyItems(x)
<1> DEFINE Q == Seq(Sure \ {"RUN"})
           R == OrderlyItems(x)
<1>1. /\ <<"SET_SCAN_CFG_LIST">> \in Q
      /\ <<"GET_OUTPUT_RANGES">> \in Q
      /\ <<"SET_OUTPUT_RANGES">> \in Q
      /\ <<"GET_PARTIAL_SCAN_CFG">> \in Q
      /\ <<"GET_PARTIAL_SCANDATA_CFG">> \in Q
      /\ <<"SET_PARTIAL_SCAN_CFG">> \in Q
      /\ <<"SET_ECHO_FILTER">> \in Q
      /\ <<"GET_SAFTY_FIELD_CFG", "READ_LIDINPUTSTATE">> \in Q
      /\ <<"SET_NTP_INTERFACE_ETH", "SET_NTP_SERVER_IP_ADDR", "SET_NTP_UPDATETIME", "ACTIVATE_NTP_CLIENT">> \in Q
  BY ShortSeqs DEF Sure, Harmless, Doubtful
<1>2. May(<<"RUN", cmdSetAccessMode3(x)>>) \in R
  <2> DEFINE s == <<"RUN", cmdSetAccessMode3(x)>>
  <2>1. cmdSetAccessMode3(x) \in Logins /\ cmdSetAccessMode3(x) \in Sure /\ "RUN" \in Sure
    BY DEF cmdSetAccessMode3, Logins, Sure, Harmless, Doubtful
  <2>2. s \in Seq(Fine(x))
    BY <2>1, FineCommands, ShortSeqs
  <2>3. FollowedIn(s, {"RUN"}, Logins)
    <3>1. DOMAIN s = 1..2 /\ s[1] = "RUN" /\ s[2] \in Logins /\ s[2] # "RUN"
      BY <2>1 DEF Logins
    <3> HIDE DEF s
    <3> QED
      BY <3>1 DEF FollowedIn
  <2>4. s \in LoggedInAgain(x)
    BY <2>2, <2>3 DEF LoggedInAgain, Orderly
  <2> QED
    BY <2>4, OrderlyCommands
<1>3. ~Params[x.scanner].list => Must(<<"SET_PARTIAL_SCANDATA_CFG">>) \in R
  <2>1. ~Params[x.scanner].list => <<"SET_PARTIAL_SCANDATA_CFG">> \in Seq(Fine(x) \ {"RUN"})
    BY FineCommands, ShortSeqs
  <2> QED
    BY <2>1, FineClosed, OrderlyCommands
<1> HIDE DEF Q, R
<1>4. \A s \in Q : Must(s) \in R /\ May(s) \in R
  BY OrderlyClosed DEF Q, R
<1>5. /\ \A c : \A s \in R : When(c, s) \in R
      /\ \A s, t \in R : s \o t \in R
  BY OrderlyClosed DEF R
<1>6. ScanCfgList(x) \in R /\ GetOutputRanges(x) \in R /\ SetOutputRanges(x) \in R
  BY <1>1, <1>4, <1>5 DEF ScanCfgList, GetOutputRanges, SetOutputRanges
<1>7. ReadBack(x) \in R /\ EchoFilter(x) \in R /\ readParseSafetyFields(x) \in R /\ setNTPServerAndStart(x) \in R
  BY <1>1, <1>4, <1>5 DEF ReadBack, EchoFilter, readParseSafetyFields, setNTPServerAndStart
<1>8. ScanDataCfg(x) \in R
  <2>1. When(~Params[x.scanner].list, Must(<<"SET_PARTIAL_SCANDATA_CFG">>)) \in R
    <3>1. CASE ~Params[x.scanner].list
      BY <1>3, <1>5, <3>1
    <3>2. CASE Params[x.scanner].list
      <4>1. When(~Params[x.scanner].list, Must(<<"SET_PARTIAL_SCANDATA_CFG">>))
                = When(~Params[x.scanner].list, EchoFilter(x))
        BY <3>2 DEF When
      <4> QED
        BY <1>5, <1>7, <4>1
    <3> QED
      BY <3>1, <3>2
  <2> QED
    BY <1>1, <1>4, <1>5, <2>1 DEF ScanDataCfg
<1>9. ScanCfg(x) \in R
  BY <1>1, <1>2, <1>4, <1>5 DEF ScanCfg, RunAndLogin
<1>10. Configuration(x) \in R
  BY <1>5, <1>6, <1>7, <1>8, <1>9 DEF Configuration
<1> QED
  BY <1>7, <1>10 DEF R

LEMMA NavOrderly ==
    ASSUME NEW x
    PROVE  NavSequence(x) \in OrderlyItems(x)
<1> DEFINE Q == Seq(Sure \ {"RUN"})
           R == OrderlyItems(x)
<1>1. /\ <<"SET_ACCESS_MODE_3", "SET_NAV_OPERATIONAL_MODE_1", "SET_NAV_CURR_LAYER",
           "SET_NAV_LANDMARK_DATA_FORMAT", "SET_NAV_SCAN_DATA_FORMAT", "SET_NAV_POSE_DATA_FORMAT">> \in Q
      /\ <<"SET_NAV_OPERATIONAL_MODE_4">> \in Q
      /\ <<"SET_NAV_ERASE_LAYOUT", "SET_NAV_OPERATIONAL_MODE_2", "SET_NAV_MAP_CFG", "SET_NAV_REFL_SIZE",
           "SET_NAV_DO_MAPPING", "SET_NAV_ADD_LANDMARK", "SET_NAV_STORE_LAYOUT">> \in Q
      /\ <<"SET_NAV_ERASE_LAYOUT", "SET_NAV_OPERATIONAL_MODE_2", "SET_NAV_ADD_LANDMARK",
           "SET_NAV_STORE_LAYOUT">> \in Q
  BY ShortSeqs DEF Sure, Harmless, Doubtful
<1> HIDE DEF Q, R
<1>2. \A s \in Q : Must(s) \in R
  BY OrderlyClosed DEF Q, R
<1>3. /\ \A c : \A s \in R : When(c, s) \in R
      /\ \A s, t \in R : s \o t \in R
  BY OrderlyClosed DEF R
<1>4. NavMapping(x) \in R /\ NavLandmarks(x) \in R
  BY <1>1, <1>2, <1>3 DEF NavMapping, NavLandmarks
<1>5. NavSequence(x) \in R
  BY <1>1, <1>2, <1>3, <1>4 DEF NavSequence
<1> QED
  BY <1>5 DEF R

\* After the RUN of the start sequence nothing is sent that needs a login.
LEMMA ScanOrderly ==
    ASSUME NEW x
    PROVE  /\ ScanSequence(x) \in Seq(Fine(x))
           /\ EndedIn(ScanSequence(x), {"RUN"}, Logins, Open)
           /\ x.scanner = "NAV_350" => ScanSequence(x) \in LoggedInAgain(x)
<1> DEFINE Q == LoggedInAgain(x)
           A == When(Params[x.scanner].eval /\ "activate_events" \in x.options,
                     <<"SET_LFEREC_ACTIVE", "SET_LID_OUTPUTSTATE_ACTIVE", "SET_LID_INPUTSTATE_ACTIVE">>)
           B == When(x.scanner \notin {"TIM_240", "NAV_350"}, <<"START_MEASUREMENT">>)
           C == When(x.scanner # "NAV_350", <<"RUN", "START_SCANDATA">>)
           D == When(Params[x.scanner].layers = 4 /\ "imu_enable" \in x.options, <<"START_IMU_DATA">>)
<1>1. A \in Q /\ D \in Q
  <2>1. /\ <<"SET_LFEREC_ACTIVE", "SET_LID_OUTPUTSTATE_ACTIVE", "SET_LID_INPUTSTATE_ACTIVE">> \in Seq(Sure \ {"RUN"})
        /\ <<"START_IMU_DATA">> \in Seq(Sure \ {"RUN"})
    BY ShortSeqs DEF Sure, Harmless, Doubtful
  <2> QED
    BY <2>1, FineClosed
<1>2. B \in Q
  <2>1. CASE x.scanner \notin {"TIM_240", "NAV_350"}
    <3>1. <<"START_MEASUREMENT">> \in Seq(Fine(x) \ {"RUN"})
      BY <2>1, FineCommands, ShortSeqs
    <3> QED
      BY <3>1, FineClosed
  <2>2. CASE x.scanner \in {"TIM_240", "NAV_350"}
    <3>1. B = <<>> /\ <<>> \in Seq(Sure \ {"RUN"})
      BY <2>2 DEF When
    <3> HIDE DEF B
    <3> QED
      BY <3>1, FineClosed
  <2> QED
    BY <2>1, <2>2
<1>3. C \in Seq(Fine(x)) /\ EndedIn(C, {"RUN"}, Logins, Open)
  <2>1. <<"RUN", "START_SCANDATA">> \in Seq(Sure)
    BY ShortSeqs DEF Sure, Harmless, Streams, Doubtful
  <2>2. C \in Seq(Sure)
    BY <2>1, WhenSeq
  <2>3. EndedIn(C, {"RUN"}, Logins, Open)
    BY DEF When, EndedIn, Open, Streams
  <2> QED
    BY <2>2, <2>3, FineCommands, SeqMonotonic
<1>4. \A i \in DOMAIN D : D[i] \in Open /\ D[i] \notin {"RUN"}
  BY DEF When, Open
<1>5. x.scanner = "NAV_350" => C = <<>>
  BY DEF When
<1>6. ScanSequence(x) = ((A \o B) \o C) \o D
  BY DEF ScanSequence
<1> HIDE DEF A, B, C, D
<1>7. A \o B \in Q
  BY <1>1, <1>2, FineClosed
<1>8. Q = Orderly(Fine(x), {"RUN"}, Logins) /\ D \in Seq(Fine(x)) /\ A \o B \in Seq(Fine(x))
  BY <1>1, <1>7 DEF LoggedInAgain, Orderly
<1> HIDE DEF Q
<1>9. (A \o B) \o C \in Seq(Fine(x)) /\ EndedIn((A \o B) \o C, {"RUN"}, Logins, Open)
  BY <1>3, <1>7, <1>8, OrderlyConcat, ConcatSeq
<1>10. ((A \o B) \o C) \o D \in Seq(Fine(x)) /\ EndedIn(((A \o B) \o C) \o D, {"RUN"}, Logins, Open)
  BY <1>4, <1>8, <1>9, EndedConcat, ConcatSeq
<1>11. x.scanner = "NAV_350" => ((A \o B) \o C) \o D \in Q
  <2>1. <<>> \in Seq(Sure \ {"RUN"})
    OBVIOUS
  <2>2. <<>> \in Q
    BY <2>1, FineClosed DEF Q
  <2>3. \A s, t \in Q : s \o t \in Q
    BY FineClosed DEF Q
  <2> QED
    BY <1>1, <1>5, <1>7, <2>2, <2>3 DEF Q
<1> QED
  BY <1>6, <1>10, <1>11 DEF Q

LEMMA RadarOrderly ==
    ASSUME NEW x
    PROVE  /\ RadarSequence \in Seq(ToSend(x))
           /\ EndedIn(RadarSequence, {"RUN"}, Logins, Open)
           /\ \A i \in DOMAIN RadarSequence : RadarSequence[i] \in Unsupported(x) =>
                  RadarSequence[i] = Tracked /\ 1 \in DOMAIN RadarSequence /\ 1 < i /\ RadarSequence[1] = "DEVICE_TYPE"
<1> DEFINE s == RadarSequence
<1>1. /\ s[1] = "DEVICE_TYPE" /\ s[2] = "SERIAL_NUMBER" /\ s[3] = "ORDER_NUMBER"
      /\ s[4] = "SET_TRANSMIT_RAWTARGETS_ON" /\ s[5] = "SET_TRANSMIT_OBJECTS_ON" /\ s[6] = Tracked
      /\ s[7] = "RUN" /\ s[8] = "START_RADARDATA" /\ DOMAIN s = 1..8
  BY DEF RadarSequence, Tracked
<1>2. s \in Seq(Sure \cup {Tracked})
  BY DEF RadarSequence, Sure, Harmless, Streams, Doubtful, Tracked
<1> HIDE DEF s
<1>3. s \in Seq(ToSend(x))
  <2>1. \A c \in Sure \cup {Tracked} : c \in ToSend(x)
    BY FineCommands DEF ToSend
  <2> QED
    BY <1>2, <2>1, SeqMonotonic
<1>4. "START_RADARDATA" \in Open
  BY DEF Open, Streams
<1>5. \A i \in 1..8 : s[i] = "RUN" => i = 7
  BY <1>1 DEF Tracked
<1>6. EndedIn(s, {"RUN"}, Logins, Open)
  <2> SUFFICES ASSUME NEW i \in 1..8, s[i] = "RUN", NEW j \in 1..8, j > i
               PROVE  s[j] \in Open
    BY <1>1 DEF EndedIn
  <2>1. j = 8
    BY <1>5
  <2> QED
    BY <1>1, <1>4, <2>1
<1>7. ASSUME NEW i \in 1..8, s[i] \in Unsupported(x)
      PROVE  i = 6
  <2>1. s[i] \notin Sure
    BY <1>7, FineCommands DEF Fine
  <2>2. \A j \in 1..8 : s[j] \notin Sure => j = 6
    BY <1>1 DEF Sure, Harmless, Streams, Doubtful
  <2> QED
    BY <2>1, <2>2
<1> QED
  BY <1>1, <1>3, <1>6, <1>7 DEF s

LEMMA StartOrderly ==
    ASSUME NEW x, ~Init0(x), x.scanner \in Scanners
    PROVE  /\ StartSequence(x) \in Seq(Item(ToSend(x)))
           /\ EndedIn(StartSequence(x), ItemsOf(x, {"RUN"}), ItemsOf(x, Logins), ItemsOf(x, Open))
           /\ Announced(x, StartSequence(x))
           /\ x.scanner = "NAV_350" => StartSequence(x) \in OrderlyItems(x)
<1> DEFINE cmds == IF Params[x.scanner].radar THEN RadarSequence ELSE ScanSequence(x)
<1>1. StartSequence(x) = Items(cmds, TRUE, "start")
  BY DEF StartSequence, Init0
<1>2. \A s \in Seq(Fine(x)) : s \in Seq(ToSend(x)) /\ \A i \in DOMAIN s : s[i] \notin Unsupported(x)
  BY SeqMonotonic DEF ToSend, Fine
<1>3. x.scanner = "NAV_350" => ~Params[x.scanner].radar
  BY RadarType
<1>4. /\ cmds \in Seq(ToSend(x)) /\ EndedIn(cmds, {"RUN"}, Logins, Open)
      /\ \A i \in DOMAIN cmds : cmds[i] \in Unsupported(x) =>
             cmds[i] = Tracked /\ 1 \in DOMAIN cmds /\ 1 < i /\ cmds[1] = "DEVICE_TYPE"
      /\ x.scanner = "NAV_350" => cmds \in LoggedInAgain(x)
  BY <1>2, <1>3, RadarOrderly, ScanOrderly
<1>5. "start" \in Parts
  BY DEF Parts
<1> HIDE DEF cmds
<1>6. /\ Items(cmds, TRUE, "start") \in Seq(Item(ToSend(x)))
      /\ cmds \in Seq(Fine(x)) => Items(cmds, TRUE, "start") \in Seq(Item(Fine(x)))
      /\ DOMAIN Items(cmds, TRUE, "start") = DOMAIN cmds
      /\ \A i \in DOMAIN cmds : Items(cmds, TRUE, "start")[i].cmd = cmds[i]
      /\ FollowedIn(cmds, {"RUN"}, Logins) =>
             FollowedIn(Items(cmds, TRUE, "start"), ItemsOf(x, {"RUN"}), ItemsOf(x, Logins))
      /\ EndedIn(cmds, {"RUN"}, Logins, Open) =>
             EndedIn(Items(cmds, TRUE, "start"), ItemsOf(x, {"RUN"}), ItemsOf(x, Logins), ItemsOf(x, Open))
  BY <1>4, <1>5, ItemsOrder
<1>7. Announced(x, StartSequence(x))
  BY <1>1, <1>4, <1>6 DEF Announced
<1>8. x.scanner = "NAV_350" => StartSequence(x) \in OrderlyItems(x)
  BY <1>1, <1>4, <1>6 DEF LoggedInAgain, OrderlyItems, Orderly
<1> QED
  BY <1>1, <1>4, <1>6, <1>7, <1>8

LEMMA FineIsAnnounced ==
    ASSUME NEW x, NEW s \in Seq(Item(Fine(x)))
    PROVE  Announced(x, s)
<1>1. \A i \in Item(Fine(x)) : i.cmd \notin Unsupported(x)
  BY DEF Item, Fine
<1> QED
  BY <1>1 DEF Announced

LEMMA ConcatEmpty ==
    ASSUME NEW S, NEW s \in Seq(S)
    PROVE  s \o <<>> = s
OBVIOUS

\* The whole start-up, from the chain of a new scanner object.
LEMMA InitAcceptable ==
    ASSUME NEW x, ~Init0(x), x.scanner \in Scanners, NEW c \in LoggedInAgain(x), BeginsIn(c, Logins), NEW level
    PROVE  Acceptable(x, InitSequence(x, c), level)
<1> DEFINE R == ItemsOf(x, {"RUN"})
           L == ItemsOf(x, Logins)
           O == ItemsOf(x, Open)
           S == Item(ToSend(x))
           s == (Items(c, TRUE, "chain") \o setNTPServerAndStart(x)) \o Configuration(x)
           start == StartSequence(x)
           nav == NavSequence(x)
<1>1. Item(Fine(x)) \subseteq S
  BY DEF Item, ToSend
<1>2. OrderlyItems(x) = Orderly(Item(Fine(x)), R, L)
  BY DEF OrderlyItems
<1>3. s \in OrderlyItems(x) /\ nav \in OrderlyItems(x)
  BY OrderlyCommands, ConfigurationOrderly, NavOrderly, OrderlyClosed
<1>4. BeginsIn(s, L)
  <2>1. BeginsIn(Items(c, TRUE, "chain"), L)
    BY OrderlyCommands
  <2>2. \A t \in OrderlyItems(x) : t \in Seq(S)
    BY <1>1, <1>2, SeqMonotonic DEF Orderly
  <2>3. /\ Items(c, TRUE, "chain") \in Seq(S) /\ setNTPServerAndStart(x) \in Seq(S)
        /\ Configuration(x) \in Seq(S)
    BY <2>2, OrderlyCommands, ConfigurationOrderly
  <2> HIDE DEF S, L
  <2>4. /\ Items(c, TRUE, "chain") \o setNTPServerAndStart(x) \in Seq(S)
        /\ BeginsIn(Items(c, TRUE, "chain") \o setNTPServerAndStart(x), L)
    BY <2>1, <2>3, BeginsConcat, ConcatSeq
  <2> QED
    BY <2>3, <2>4, BeginsConcat
<1>5. /\ start \in Seq(S) /\ EndedIn(start, R, L, O) /\ Announced(x, start)
      /\ x.scanner = "NAV_350" => start \in OrderlyItems(x)
  BY StartOrderly
<1>6. InitSequence(x, c) = (s \o start) \o nav
  BY DEF InitSequence
<1>7. x.scanner # "NAV_350" => nav = <<>>
  BY NavHarmless
<1>8. /\ \A t \in OrderlyItems(x) : t \in Seq(Item(Fine(x))) /\ t \in Seq(S) /\ t \in Orderly(S, R, L)
      /\ \A t \in OrderlyItems(x) : EndedIn(t, R, L, O) /\ Announced(x, t)
  <2>1. \A t \in OrderlyItems(x) : t \in Seq(Item(Fine(x))) /\ FollowedIn(t, R, L)
    BY <1>2 DEF Orderly
  <2>2. \A t \in OrderlyItems(x) : t \in Seq(S)
    BY <1>1, <2>1, SeqMonotonic
  <2>3. \A t \in Seq(Item(Fine(x))) : Announced(x, t)
    BY FineIsAnnounced
  <2> HIDE DEF S, R, L, O
  <2> QED
    BY <2>1, <2>2, <2>3 DEF Orderly, FollowedIn, EndedIn
<1> HIDE DEF s, start, nav, R, L, O, S
<1>9. CASE x.scanner = "NAV_350"
  <2>1. s \o start \in OrderlyItems(x)
    BY <1>3, <1>5, <1>9, OrderlyClosed
  <2>2. (s \o start) \o nav \in OrderlyItems(x)
    BY <1>3, <2>1, OrderlyClosed
  <2>3. BeginsIn((s \o start) \o nav, L)
    BY <1>3, <1>4, <1>5, <1>8, <2>1, BeginsConcat
  <2> QED
    BY <1>6, <1>8, <2>2, <2>3 DEF Acceptable, S, R, L, O
<1>10. CASE x.scanner # "NAV_350"
  <2>1. InitSequence(x, c) = s \o start
    <3>1. s \o start \in Seq(S)
      BY <1>3, <1>5, <1>8, ConcatSeq
    <3> QED
      BY <1>6, <1>7, <1>10, <3>1, ConcatEmpty
  <2>2. s \o start \in Seq(S) /\ BeginsIn(s \o start, L)
    BY <1>3, <1>4, <1>5, <1>8, BeginsConcat
  <2>3. EndedIn(s \o start, R, L, O)
    BY <1>3, <1>5, <1>8, OrderlyConcat
  <2>4. Announced(x, s \o start)
    BY <1>3, <1>5, <1>8, AnnouncedConcat DEF S
  <2> QED
    BY <2>1, <2>2, <2>3, <2>4 DEF Acceptable, S, R, L, O
<1> QED
  BY <1>9, <1>10

\* The switch of the dialect.
LEMMA SwitchAcceptable ==
    ASSUME NEW x, NEW b, CanSwitch(x.scanner), NEW level
    PROVE  Acceptable(x, SwitchSequence(x, b), level)
<1> DEFINE cmds == <<cmdSetAccessMode3(x), SetToCola(b)>>
<1>1. SetToCola(b) \in Fine(x) \ {"RUN"}
  BY FineCommands DEF SetToCola
<1>2. cmdSetAccessMode3(x) \in Logins
  BY DEF cmdSetAccessMode3, Logins
<1>3. cmdSetAccessMode3(x) \in Fine(x) \ {"RUN"}
  BY <1>2, FineCommands DEF Logins, Sure, Harmless, Doubtful
<1>4. cmds \in LoggedInAgain(x)
  BY <1>1, <1>3, ShortSeqs, FineClosed, ZenonT(60)
<1>5. BeginsIn(cmds, Logins)
  BY <1>2 DEF BeginsIn
<1> HIDE DEF cmds
<1>6. SwitchSequence(x, b) = Items(cmds, TRUE, "config")
  BY DEF SwitchSequence, Must, cmds
<1>7. cmds \in Seq(Fine(x)) /\ cmds \in Seq(ToSend(x)) /\ FollowedIn(cmds, {"RUN"}, Logins)
  BY <1>4, SeqMonotonic DEF LoggedInAgain, Orderly, ToSend
<1>8. EndedIn(cmds, {"RUN"}, Logins, Open)
  BY <1>7 DEF FollowedIn, EndedIn
<1>9. "config" \in Parts
  BY DEF Parts
<1>10. /\ Items(cmds, TRUE, "config") \in Seq(Item(ToSend(x)))
       /\ Items(cmds, TRUE, "config") \in Seq(Item(Fine(x)))
       /\ EndedIn(Items(cmds, TRUE, "config"), ItemsOf(x, {"RUN"}), ItemsOf(x, Logins), ItemsOf(x, Open))
       /\ BeginsIn(Items(cmds, TRUE, "config"), ItemsOf(x, Logins))
  BY <1>5, <1>7, <1>8, <1>9, ItemsOrder
<1>11. Announced(x, Items(cmds, TRUE, "config"))
  BY <1>10, FineIsAnnounced
<1> QED
  BY <1>6, <1>10, <1>11 DEF Acceptable

\* What is left of an order when its first element has gone.
LEMMA EndedTail ==
    ASSUME NEW S, NEW R, NEW L, NEW O, NEW s \in Seq(S), s # <<>>, EndedIn(s, R, L, O)
    PROVE  /\ EndedIn(Tail(s), R, L, O)
           /\ s[1] \in R => BeginsIn(Tail(s), L) \/ \A i \in DOMAIN Tail(s) : Tail(s)[i] \in O
<1> DEFINE t == Tail(s)
<1>1. t \in Seq(S) /\ 1 \in DOMAIN s
  OBVIOUS
<1>2. Len(s) \in Nat /\ DOMAIN s = 1..Len(s) /\ DOMAIN t = 1..(Len(s) - 1) /\ \A i \in DOMAIN t : t[i] = s[i + 1]
  OBVIOUS
<1>3. \A i \in DOMAIN s : i # 1 => i - 1 \in DOMAIN t /\ t[i - 1] = s[i]
  BY <1>2
<1>4. \A i \in DOMAIN t : i + 1 \in DOMAIN s /\ t[i] = s[i + 1] /\ i + 1 > 1
  BY <1>2
<1> HIDE DEF t
<1>5. ASSUME NEW i \in DOMAIN t, t[i] \in R
      PROVE  \/ i + 1 \in DOMAIN t /\ t[i + 1] \in L
             \/ \A j \in DOMAIN t : j > i => t[j] \in O
  <2>1. CASE (i + 1) + 1 \in DOMAIN s /\ s[(i + 1) + 1] \in L
    <3>1. i + 1 \in DOMAIN t /\ t[i + 1] = s[(i + 1) + 1]
      BY <1>2, <2>1
    <3> QED
      BY <2>1, <3>1
  <2>2. CASE \A j \in DOMAIN s : j > i + 1 => s[j] \in O
    <3>1. \A j \in DOMAIN t : j > i => j + 1 \in DOMAIN s /\ j + 1 > i + 1 /\ t[j] = s[j + 1]
      BY <1>2
    <3> QED
      BY <2>2, <3>1
  <2>3. i + 1 \in DOMAIN s /\ s[i + 1] \in R
    BY <1>4, <1>5
  <2> QED
    BY <2>1, <2>2, <2>3 DEF EndedIn
<1>6. ASSUME s[1] \in R
      PROVE  BeginsIn(t, L) \/ \A i \in DOMAIN t : t[i] \in O
  <2>1. CASE 1 + 1 \in DOMAIN s /\ s[1 + 1] \in L
    <3>1. 1 \in DOMAIN t /\ t[1] = s[1 + 1]
      BY <1>2, <2>1
    <3>2. t # <<>>
      BY <3>1
    <3> QED
      BY <2>1, <3>1, <3>2 DEF BeginsIn
  <2>2. CASE \A j \in DOMAIN s : j > 1 => s[j] \in O
    BY <1>4, <2>2
  <2> QED
    BY <1>1, <1>6, <2>1, <2>2 DEF EndedIn
<1> QED
  BY <1>5, <1>6 DEF EndedIn, t

LEMMA WithoutTrackingOrder ==
    ASSUME NEW x, NEW s \in Seq(Item(ToSend(x))), NEW R, R = ItemsOf(x, {"RUN"}), NEW L, L = ItemsOf(x, Logins),
           NEW O, O = ItemsOf(x, Open)
    PROVE  LET t == WithoutTracking(s) IN
           /\ t \in Seq(Item(ToSend(x)))
           /\ EndedIn(s, R, L, O) => EndedIn(t, R, L, O)
           /\ BeginsIn(s, L) => BeginsIn(t, L)
           /\ DOMAIN t = DOMAIN s
           /\ \A i \in DOMAIN t : t[i].cmd # Tracked /\ (s[i].cmd # Tracked => t[i] = s[i])
           /\ \A i \in DOMAIN t : s[i].cmd \in Open => t[i].cmd \in Open
<1> DEFINE t == WithoutTracking(s)
<1>1. "DEVICE_STATE" \in ToSend(x) /\ "DEVICE_STATE" # Tracked /\ "DEVICE_STATE" \in Open
  BY FineCommands DEF ToSend, Tracked, Sure, Harmless, Doubtful, Open
<1>2. t \in Seq(Item(ToSend(x)))
  BY <1>1, WithoutTrackingItems
<1>3. /\ DOMAIN t = DOMAIN s
      /\ \A i \in DOMAIN s : t[i] = IF s[i].cmd = Tracked THEN [s[i] EXCEPT !.cmd = "DEVICE_STATE"] ELSE s[i]
  BY DEF WithoutTracking, Tracked
<1>4. \A i \in DOMAIN s : s[i] \in Item(ToSend(x))
  OBVIOUS
<1>5. \A i \in DOMAIN s : IF s[i].cmd = Tracked THEN t[i].cmd = "DEVICE_STATE" ELSE t[i] = s[i]
  BY <1>3, <1>4 DEF Item
<1> HIDE DEF t
<1>6. \A i \in DOMAIN s : t[i] \in Item(ToSend(x))
  BY <1>2, <1>3
<1>7. Tracked \notin Logins /\ Tracked # "RUN"
  BY DEF Tracked, Logins
<1>8. "DEVICE_STATE" \notin Logins /\ "DEVICE_STATE" # "RUN"
  BY DEF Logins
<1>9. \A i \in DOMAIN s : /\ t[i] \in R <=> s[i] \in R
                          /\ t[i] \in L <=> s[i] \in L
                          /\ s[i] \in O => t[i] \in O
  BY <1>1, <1>4, <1>5, <1>6, <1>7, <1>8 DEF ItemsOf
<1>10. EndedIn(s, R, L, O) => EndedIn(t, R, L, O)
  BY <1>3, <1>9 DEF EndedIn
<1>11. BeginsIn(s, L) => BeginsIn(t, L)
  <2>1. s # <<>> => 1 \in DOMAIN s
    OBVIOUS
  <2>2. 1 \in DOMAIN t => t # <<>>
    OBVIOUS
  <2> QED
    BY <1>3, <1>9, <2>1, <2>2 DEF BeginsIn
<1>12. \A i \in DOMAIN t : t[i].cmd # Tracked /\ (s[i].cmd # Tracked => t[i] = s[i])
  BY <1>1, <1>3, <1>5
<1>13. \A i \in DOMAIN t : s[i].cmd \in Open => t[i].cmd \in Open
  BY <1>1, <1>3, <1>5
<1> QED
  BY <1>2, <1>3, <1>10, <1>11, <1>12, <1>13 DEF t

\* The first item is accepted, and what is left is acceptable at the level
\* that the lidar has then.
LEMMA AcceptableMoves ==
    ASSUME NEW x, NEW s, NEW level \in BOOLEAN, Acceptable(x, s, level), s # <<>>,
           NEW after, after = (Head(s).cmd # "RUN" /\ (level \/ Head(s).cmd \in Logins))
    PROVE  /\ Head(s) \in Item(ToSend(x))
           /\ Head(s).cmd \notin Unsupported(x)
           /\ Head(s).cmd \in Open \/ level
           /\ IF Head(s).cmd = "DEVICE_TYPE" /\ "RMS1" \in x.options
              THEN Acceptable(x, WithoutTracking(Tail(s)), after)
              ELSE Acceptable(x, Tail(s), after)
<1> DEFINE S == Item(ToSend(x))
           R == ItemsOf(x, {"RUN"})
           L == ItemsOf(x, Logins)
           O == ItemsOf(x, Open)
           t == Tail(s)
           h == Head(s)
           w == WithoutTracking(t)
<1>1. s \in Seq(S) /\ EndedIn(s, R, L, O) /\ Announced(x, s) /\ (level \/ BeginsIn(s, L) \/ \A i \in DOMAIN s : s[i].cmd \in Open)
  BY DEF Acceptable
<1>2. h = s[1] /\ 1 \in DOMAIN s /\ h \in S /\ t \in Seq(S)
  BY <1>1
<1>3. Len(s) \in Nat /\ DOMAIN s = 1..Len(s) /\ DOMAIN t = 1..(Len(s) - 1) /\ \A i \in DOMAIN t : t[i] = s[i + 1]
  BY <1>1
<1>4. \A i \in DOMAIN s : i # 1 => i - 1 \in DOMAIN t /\ t[i - 1] = s[i]
  BY <1>3
<1>5. EndedIn(t, R, L, O) /\ (h \in R => BeginsIn(t, L) \/ \A i \in DOMAIN t : t[i] \in O)
  <2> HIDE DEF S, R, L, O
  <2>1. /\ EndedIn(Tail(s), R, L, O)
        /\ s[1] \in R => BeginsIn(Tail(s), L) \/ \A i \in DOMAIN Tail(s) : Tail(s)[i] \in O
    BY <1>1, EndedTail, Zenon
  <2>2. h = s[1]
    BY <1>2
  <2> HIDE DEF h
  <2> QED
    BY <2>1, <2>2
<1>6. \A C : h \in ItemsOf(x, C) <=> h.cmd \in C
  BY <1>2 DEF ItemsOf
<1>7. \A i \in O : i.cmd \in Open
  BY DEF ItemsOf
<1> HIDE DEF t, h, w, S
<1>8. h.cmd \notin Unsupported(x)
  <2>1. \A j \in DOMAIN s : ~(j < 1)
    BY <1>3
  <2> QED
    BY <1>1, <1>2, <2>1 DEF Announced
<1>9. h.cmd \in Open \/ level
  <2>1. \A c \in Logins : c \in Open
    BY DEF Open
  <2> QED
    BY <1>1, <1>2, <1>6, <2>1 DEF BeginsIn
<1>10. after \/ BeginsIn(t, L) \/ \A i \in DOMAIN t : t[i].cmd \in Open
  <2>1. CASE h.cmd = "RUN"
    BY <1>5, <1>6, <1>7, <2>1
  <2>2. CASE h.cmd # "RUN" /\ (level \/ BeginsIn(s, L))
    BY <1>2, <1>6, <2>2 DEF BeginsIn, h
  <2>3. CASE \A i \in DOMAIN s : s[i].cmd \in Open
    <3>1. \A i \in DOMAIN t : i + 1 \in DOMAIN s /\ t[i] = s[i + 1]
      BY <1>3
    <3> QED
      BY <2>3, <3>1
  <2> QED
    BY <1>1, <2>1, <2>2, <2>3
<1>11. ASSUME h.cmd = "DEVICE_TYPE", "RMS1" \in x.options
       PROVE  Acceptable(x, w, after)
  <2>1. /\ w \in Seq(S) /\ EndedIn(w, R, L, O) /\ (BeginsIn(t, L) => BeginsIn(w, L)) /\ DOMAIN w = DOMAIN t
        /\ \A i \in DOMAIN w : w[i].cmd # Tracked /\ (t[i].cmd # Tracked => w[i] = t[i])
        /\ \A i \in DOMAIN w : t[i].cmd \in Open => w[i].cmd \in Open
    BY <1>2, <1>5, WithoutTrackingOrder DEF w, S
  <2>2. \A i \in DOMAIN w : w[i].cmd \notin Unsupported(x)
    <3>1. \A i \in DOMAIN w : w[i] \in S
      BY <2>1
    <3>2. \A i \in S : i.cmd # Tracked => i.cmd \in Fine(x)
      BY DEF S, Item, ToSend
    <3> QED
      BY <2>1, <3>1, <3>2 DEF Fine
  <2>3. Announced(x, w)
    BY <2>2 DEF Announced
  <2> QED
    BY <1>10, <2>1, <2>3 DEF Acceptable, S
<1>12. ASSUME ~(h.cmd = "DEVICE_TYPE" /\ "RMS1" \in x.options)
       PROVE  Acceptable(x, t, after)
  <2>1. ASSUME NEW i \in DOMAIN t, t[i].cmd \in Unsupported(x)
        PROVE  t[i].cmd = Tracked /\ \E j \in DOMAIN t : j < i /\ t[j].cmd = "DEVICE_TYPE"
    <3>1. i + 1 \in DOMAIN s /\ t[i] = s[i + 1]
      BY <1>3
    <3>2. PICK j \in DOMAIN s : t[i].cmd = Tracked /\ j < i + 1 /\ s[j].cmd = "DEVICE_TYPE"
      BY <1>1, <2>1, <3>1 DEF Announced
    <3>3. j # 1
      BY <1>2, <1>12, <2>1, <3>2, UnsupportedAre
    <3>4. j - 1 \in DOMAIN t /\ t[j - 1] = s[j] /\ j - 1 < i
      BY <1>3, <1>4, <3>2, <3>3
    <3> QED
      BY <3>2, <3>4
  <2>2. Announced(x, t)
    BY <2>1 DEF Announced
  <2> QED
    BY <1>2, <1>5, <1>10, <2>2 DEF Acceptable, S
<1> QED
  BY <1>2, <1>8, <1>9, <1>11, <1>12 DEF S, h, t, w

-----------------------------------------------------------------------------
(* A start-up in which nothing goes wrong. *)

Smooth ==
    /\ lidar.refused = {}
    /\ pc \notin {"rebootLogin", "reboot"}
    /\ pc # "connect" => connected
    /\ runState = "scanner_init" \/ pc \in {"run", "exit"}
    /\ pc = "probe" => chain = Begin
    /\ ~CanSwitch(setting.scanner) =>
           /\ lidar.binary = setting.binary /\ ~lidar.deaf
           /\ pc \notin {"probeOther", "switch", "switchTiM240"}
    /\ pc \in {"switch", "switchTiM240"} => todo # <<>> /\ Acceptable(setting, todo, lidar.level)
    /\ pc \in {"send", "ready"} => ~lidar.deaf /\ Acceptable(setting, todo, lidar.level)

SoFarSmooth == faults = 0 /\ ~Init0(setting) => Smooth

\* An exchange in which nothing goes wrong with a command that the lidar
\* accepts if it hears it.
LEMMA CleanExchange ==
    ASSUME LidarTyped, faults \in 0..MaxFaults, NEW cmd, NEW b, NEW ok \in BOOLEAN,
           Exchange(cmd, b, ok), connected, faults' = 0, cmd # "REBOOT", lidar.refused = {},
           Hears(lidar, b) => Accepts(setting, lidar, cmd, b)
    PROVE  /\ connected' /\ lidar'.refused = {}
           /\ ok <=> Hears(lidar, b)
           /\ cmd \notin Cola => lidar'.binary = lidar.binary
           /\ Hears(lidar, b) =>
                 /\ lidar'.deaf = lidar.deaf
                 /\ lidar'.level = (cmd # "RUN" /\ (lidar.level \/ cmd \in Logins))
           /\ setting.scanner # "TIM_240" => lidar'.deaf = lidar.deaf
<1>1. ~Fault
  BY StartUpAssumption DEF Fault
<1>2. Arrives(cmd, b, ok)
  BY <1>1 DEF Exchange, Lost
<1>3. /\ lidar' = Receives(setting, lidar, cmd, b) /\ connected' = (cmd # "REBOOT" \/ ~Accepts(setting, lidar, cmd, b))
      /\ ok = Accepts(setting, lidar, cmd, b)
  BY <1>1, <1>2 DEF Arrives
<1>4. Accepts(setting, lidar, cmd, b) <=> Hears(lidar, b)
  BY DEF Accepts
<1>5. CASE ~Hears(lidar, b)
  <2>1. lidar' = [lidar EXCEPT !.deaf = @ \/ setting.scanner = "TIM_240"]
    BY <1>3, <1>5 DEF Receives
  <2>2. /\ lidar'.refused = lidar.refused /\ lidar'.binary = lidar.binary
        /\ lidar'.deaf = (lidar.deaf \/ setting.scanner = "TIM_240")
    BY <2>1 DEF LidarTyped, Fields
  <2> QED
    BY <1>3, <1>4, <1>5, <2>2 DEF LidarTyped
<1>6. CASE Hears(lidar, b)
  <2>1. Accepts(setting, lidar, cmd, b)
    BY <1>4, <1>6
  <2>2. lidar' = [lidar EXCEPT
                    !.level = cmd # "RUN" /\ (@ \/ cmd \in Logins),
                    !.streaming = @ \/ cmd \in Streams,
                    !.binary = IF cmd \in {SetToCola(TRUE), SetToCola(FALSE)} THEN cmd = SetToCola(TRUE) ELSE @,
                    !.applied = @ \cup {c \in {cmd} : IsWrite(c)}]
    BY <1>3, <1>6, <2>1 DEF Receives
  <2>3. /\ lidar'.deaf = lidar.deaf /\ lidar'.refused = lidar.refused
        /\ lidar'.level = (cmd # "RUN" /\ (lidar.level \/ cmd \in Logins))
        /\ lidar'.binary = IF cmd \in Cola THEN cmd = SetToCola(TRUE) ELSE lidar.binary
    BY <2>2 DEF LidarTyped, Fields, Cola
  <2> QED
    BY <1>3, <1>6, <2>1, <2>3
<1> QED
  BY <1>5, <1>6

\* The commands of an acceptable item list.
LEMMA KnownCommands ==
    ASSUME NEW x, NEW c \in ToSend(x)
    PROVE  c # "REBOOT" /\ (~CanSwitch(x.scanner) => c \notin Cola)
<1>1. c # "REBOOT"
  BY DEF ToSend, Fine, Tracked
<1>2. x.scanner = "LRS_4XXX" => \A d \in Cola : d \in Unsupported(x)
  BY DEF Unsupported, Cola, SetToCola
<1>3. Tracked \notin Cola
  BY DEF Tracked, Cola, SetToCola
<1> QED
  BY <1>1, <1>2, <1>3 DEF ToSend, Fine, CanSwitch

LEMMA StateQuery ==
    ASSUME NEW x
    PROVE  /\ "DEVICE_STATE" \in ToSend(x) /\ "DEVICE_STATE" \notin Cola /\ "DEVICE_STATE" # "RUN"
           /\ "DEVICE_STATE" \notin Logins
           /\ \A b : Hears(lidar, b) => Accepts(x, lidar, "DEVICE_STATE", b)
<1>1. "DEVICE_STATE" \in Sure /\ "DEVICE_STATE" \in Open /\ "DEVICE_STATE" \notin Cola /\ "DEVICE_STATE" \notin Logins
  BY DEF Sure, Harmless, Doubtful, Open, Cola, SetToCola, Logins
<1>2. "DEVICE_STATE" \in Fine(x)
  BY <1>1, FineCommands
<1> QED
  BY <1>1, <1>2 DEF ToSend, Fine, Accepts

LEMMA SendSmooth ==
    ASSUME IInv, Smooth, NEW ok \in BOOLEAN, Send(ok), faults' = 0
    PROVE  Smooth'
<1> DEFINE item == Head(todo)
<1>1. /\ pc = "send" /\ todo # <<>> /\ Exchange(item.cmd, setting.binary, ok)
      /\ todo' = Remaining(item, ok) /\ UNCHANGED <<runState, chain, tim240>>
      /\ pc' = IF ~ok /\ item.must THEN "connect" ELSE IF Waits(item) THEN "ready" ELSE "send"
  BY DEF Send, Fails, Goes
<1>2. /\ lidar.refused = {} /\ connected /\ runState = "scanner_init" /\ ~lidar.deaf
      /\ ~CanSwitch(setting.scanner) => lidar.binary = setting.binary
      /\ Acceptable(setting, todo, lidar.level)
  BY <1>1 DEF Smooth
<1>3. lidar.binary = setting.binary /\ LidarTyped /\ lidar.level \in BOOLEAN
  BY <1>1, <1>2, Known DEF OnCourse, Sending, LidarTyped
<1>4. Hears(lidar, setting.binary)
  BY <1>2, <1>3 DEF Hears
<1> DEFINE after == (item.cmd # "RUN" /\ (lidar.level \/ item.cmd \in Logins))
<1>5. /\ item \in Item(ToSend(setting))
      /\ item.cmd \notin Unsupported(setting)
      /\ item.cmd \in Open \/ lidar.level
      /\ IF item.cmd = "DEVICE_TYPE" /\ "RMS1" \in setting.options
         THEN Acceptable(setting, WithoutTracking(Tail(todo)), after)
         ELSE Acceptable(setting, Tail(todo), after)
  BY <1>1, <1>2, <1>3, AcceptableMoves
<1> HIDE DEF item
<1>6. Accepts(setting, lidar, item.cmd, setting.binary)
  BY <1>4, <1>5 DEF Accepts
<1>7. item.cmd # "REBOOT" /\ (~CanSwitch(setting.scanner) => item.cmd \notin Cola)
  <2>1. item.cmd \in ToSend(setting)
    BY <1>5 DEF Item
  <2> QED
    BY <2>1, KnownCommands
<1>8. setting' = setting
  BY <1>1 DEF Exchange
<1>9. /\ connected' /\ lidar'.refused = {} /\ ok
      /\ item.cmd \notin Cola => lidar'.binary = lidar.binary
      /\ lidar'.deaf = lidar.deaf /\ lidar'.level = after
  BY <1>1, <1>2, <1>3, <1>4, <1>6, <1>7, Known, CleanExchange
<1>10. todo' = IF item.cmd = "DEVICE_TYPE" /\ "RMS1" \in setting.options
               THEN WithoutTracking(Tail(todo)) ELSE Tail(todo)
  BY <1>1, <1>9 DEF Remaining, With
<1>11. Acceptable(setting', todo', lidar'.level)
  BY <1>5, <1>8, <1>9, <1>10
<1>12. pc' \in {"ready", "send"}
  BY <1>1, <1>9
<1> QED
  BY <1>1, <1>2, <1>7, <1>8, <1>9, <1>11, <1>12 DEF Smooth

LEMMA PollSmooth ==
    ASSUME IInv, Smooth, NEW ok \in BOOLEAN, PollReady(ok), faults' = 0
    PROVE  Smooth'
<1>1. /\ pc = "ready" /\ Exchange("DEVICE_STATE", setting.binary, ok)
      /\ UNCHANGED <<runState, chain, todo, polls, tim240>>
      /\ pc' = IF ok THEN "send" ELSE "connect"
  BY DEF PollReady, Goes, Fails
<1>2. /\ lidar.refused = {} /\ connected /\ runState = "scanner_init" /\ ~lidar.deaf
      /\ ~CanSwitch(setting.scanner) => lidar.binary = setting.binary
      /\ Acceptable(setting, todo, lidar.level)
  BY <1>1 DEF Smooth
<1>3. lidar.binary = setting.binary /\ LidarTyped /\ lidar.level \in BOOLEAN
  BY <1>1, <1>2, Known DEF OnCourse, Sending, LidarTyped
<1>4. Hears(lidar, setting.binary)
  BY <1>2, <1>3 DEF Hears
<1>5. setting' = setting
  BY <1>1 DEF Exchange
<1>6. /\ connected' /\ lidar'.refused = {} /\ ok /\ lidar'.binary = lidar.binary
      /\ lidar'.deaf = lidar.deaf /\ lidar'.level = lidar.level
  BY <1>1, <1>2, <1>3, <1>4, Known, StateQuery, CleanExchange
<1> QED
  BY <1>1, <1>2, <1>3, <1>5, <1>6 DEF Smooth

LEMMA ProbeSmooth ==
    ASSUME IInv, ~Init0(setting), Smooth, NEW ok \in BOOLEAN, Probe(ok), faults' = 0
    PROVE  Smooth'
<1>1. pc = "probe" /\ Exchange("DEVICE_STATE", Probed, ok) /\ UNCHANGED <<runState, polls, tim240>>
  BY DEF Probe
<1>2. /\ lidar.refused = {} /\ connected /\ runState = "scanner_init" /\ chain = Begin
      /\ ~CanSwitch(setting.scanner) => lidar.binary = setting.binary /\ ~lidar.deaf
  BY <1>1 DEF Smooth
<1>3. setting' = setting
  BY <1>1 DEF Exchange
<1>4. /\ connected' /\ lidar'.refused = {} /\ (ok <=> Hears(lidar, Probed)) /\ lidar'.binary = lidar.binary
      /\ Hears(lidar, Probed) => lidar'.deaf = lidar.deaf
      /\ setting.scanner # "TIM_240" => lidar'.deaf = lidar.deaf
  BY <1>1, <1>2, Known, StateQuery, CleanExchange
<1>5. ~CanSwitch(setting.scanner) => Probed = setting.binary /\ Hears(lidar, Probed) /\ ~lidar'.deaf
  BY <1>2, <1>4 DEF CanSwitch, Probed, IsTiM240, Hears
<1>6. CASE ~ok /\ Goes("probeOther")
  <2>1. pc' = "probeOther" /\ CanSwitch(setting.scanner)
    BY <1>4, <1>5, <1>6 DEF Goes
  <2> QED
    BY <1>2, <1>3, <1>1, <1>4, <2>1 DEF Smooth
<1>7. CASE /\ ok /\ Probed # setting.binary
           /\ Goes("switchTiM240") /\ todo' = SwitchSequence(setting, setting.binary) /\ UNCHANGED chain
  <2>1. pc' = "switchTiM240" /\ todo' = SwitchSequence(setting, setting.binary) /\ CanSwitch(setting.scanner)
    BY <1>5, <1>7 DEF Goes
  <2>2. todo' # <<>>
    BY <2>1, SwitchItems, Known
  <2>3. Acceptable(setting', todo', lidar'.level)
    BY <1>3, <2>1, SwitchAcceptable
  <2> QED
    BY <1>1, <1>2, <1>3, <1>4, <2>1, <2>2, <2>3 DEF Smooth
<1>8. CASE /\ ok /\ Probed = setting.binary
           /\ Goes("send") /\ chain' = ChainSent /\ todo' = InitSequence(setting, chain')
  <2>1. pc' = "send" /\ chain' = Begin /\ todo' = InitSequence(setting, Begin)
    BY <1>2, <1>8 DEF Goes, ChainSent, With, Init0
  <2>2. Acceptable(setting', todo', lidar'.level)
    BY <1>3, <2>1, BeginOrderly, InitAcceptable, Known
  <2>3. ~lidar'.deaf
    BY <1>4, <1>8 DEF Hears
  <2> QED
    BY <1>1, <1>2, <1>3, <1>4, <2>1, <2>2, <2>3 DEF Smooth
<1> QED
  BY <1>6, <1>7, <1>8 DEF Probe

LEMMA ProbeOtherSmooth ==
    ASSUME IInv, Smooth, NEW ok \in BOOLEAN, ProbeOther(ok), faults' = 0
    PROVE  Smooth'
<1>1. /\ pc = "probeOther" /\ Exchange("DEVICE_STATE", ~Probed, ok) /\ UNCHANGED <<runState, chain, polls>>
      /\ \/ pc' = "switch" /\ todo' = SwitchSequence(setting, Probed)
         \/ pc' = "connect"
  BY DEF ProbeOther, Goes, Fails
<1>2. lidar.refused = {} /\ connected /\ runState = "scanner_init" /\ CanSwitch(setting.scanner)
  BY <1>1 DEF Smooth
<1>3. setting' = setting
  BY <1>1 DEF Exchange
<1>4. connected' /\ lidar'.refused = {}
  BY <1>1, <1>2, Known, StateQuery, CleanExchange
<1>5. pc' = "switch" => todo' # <<>> /\ Acceptable(setting', todo', lidar'.level)
  <2> HAVE pc' = "switch"
  <2>1. todo' = SwitchSequence(setting, Probed)
    BY <1>1
  <2>2. SwitchSequence(setting, Probed) # <<>>
    BY SwitchItems, Known
  <2>3. Acceptable(setting, SwitchSequence(setting, Probed), lidar'.level)
    BY <1>2, SwitchAcceptable
  <2> QED
    BY <1>3, <2>1, <2>2, <2>3
<1> QED
  BY <1>1, <1>2, <1>3, <1>4, <1>5 DEF Smooth

LEMMA SwitchSmooth ==
    ASSUME IInv, Smooth, NEW ok \in BOOLEAN, Switch(ok) \/ SwitchTiM240(ok), faults' = 0
    PROVE  Smooth'
<1> DEFINE item == Head(todo)
           after == (item.cmd # "RUN" /\ (lidar.level \/ item.cmd \in Logins))
<1>1. /\ pc \in {"switch", "switchTiM240"} /\ UNCHANGED <<runState, chain, polls>>
      /\ todo' = Tail(todo)
      /\ (ok /\ pc' \in {"switch", "switchTiM240"} /\ todo' # <<>>) \/ pc' = "connect"
  BY DEF Switch, SwitchTiM240, Goes, Fails
<1>2. PICK b : Exchange(item.cmd, b, ok)
  BY DEF Switch, SwitchTiM240
<1>3. /\ lidar.refused = {} /\ connected /\ runState = "scanner_init" /\ CanSwitch(setting.scanner)
      /\ todo # <<>> /\ Acceptable(setting, todo, lidar.level)
  BY <1>1 DEF Smooth
<1>4. setting' = setting
  BY <1>2 DEF Exchange
<1>5. item.cmd # "DEVICE_TYPE"
  <2>1. item \in Item(Logins \cup Cola)
    BY <1>1, <1>3, Known DEF Planned
  <2> QED
    BY <2>1 DEF Item, Logins, Cola, SetToCola
<1>6. LidarTyped /\ lidar.level \in BOOLEAN
  BY Known DEF LidarTyped
<1>7. /\ item \in Item(ToSend(setting))
      /\ item.cmd \notin Unsupported(setting)
      /\ item.cmd \in Open \/ lidar.level
      /\ IF item.cmd = "DEVICE_TYPE" /\ "RMS1" \in setting.options
         THEN Acceptable(setting, WithoutTracking(Tail(todo)), after)
         ELSE Acceptable(setting, Tail(todo), after)
  BY <1>3, <1>6, AcceptableMoves
<1> HIDE DEF item
<1>8. Hears(lidar, b) => Accepts(setting, lidar, item.cmd, b)
  BY <1>7 DEF Accepts
<1>9. item.cmd # "REBOOT"
  BY <1>7, KnownCommands DEF Item
<1>10. connected' /\ lidar'.refused = {} /\ (ok => lidar'.level = after)
  BY <1>2, <1>3, <1>8, <1>9, Known, CleanExchange
<1>11. ok => Acceptable(setting', todo', lidar'.level)
  BY <1>1, <1>4, <1>5, <1>7, <1>10
<1> QED
  BY <1>1, <1>3, <1>4, <1>10, <1>11 DEF Smooth

LEMMA ConnectSmooth ==
    ASSUME IInv, Smooth, Connect
    PROVE  Smooth'
<1>1. runState = "scanner_init"
  BY DEF Smooth, Connect
<1>2. /\ pc' = "probe" /\ chain' = Begin /\ connected' = TRUE /\ lidar' = Connected(lidar)
      /\ UNCHANGED <<setting, runState>>
  BY <1>1 DEF Connect, Goes, Begin
<1>3. Begin' = Begin
  BY <1>2, Fixed
<1>4. lidar'.refused = lidar.refused /\ lidar'.binary = lidar.binary /\ lidar'.deaf = FALSE
  BY <1>2, Known DEF Connected, LidarTyped, Fields
<1> QED
  BY <1>1, <1>2, <1>3, <1>4 DEF Smooth

LEMMA RestSmooth ==
    ASSUME IInv, Smooth, faults = 0, faults' = 0,
           ReportsError \/ PollBusy \/ ImuExits \/ Started \/ ReadTimeout \/ PowerCycle \/ UNCHANGED vars
    PROVE  Smooth'
<1>1. ~Fault
  BY DEF Fault
<1>2. PollBusy \/ ImuExits \/ Started \/ UNCHANGED vars
  BY <1>1 DEF ReportsError, ReadTimeout, PowerCycle, Smooth
<1>3. UNCHANGED <<setting, lidar, connected, chain, todo>>
  BY <1>2 DEF PollBusy, ImuExits, Started, vars, driver
<1>4. CASE PollBusy
  <2>1. pc = "ready" /\ pc' = "ready" /\ UNCHANGED runState
    BY <1>1, <1>4 DEF PollBusy, Goes
  <2> QED
    BY <1>3, <2>1 DEF Smooth
<1>5. CASE ImuExits \/ Started
  <2>1. pc = "send" /\ pc' \in {"run", "exit"}
    BY <1>5 DEF ImuExits, Started, Goes
  <2> QED
    BY <1>3, <2>1 DEF Smooth
<1>6. CASE UNCHANGED vars
  <2>1. pc' = pc /\ runState' = runState /\ Begin' = Begin
    BY <1>3, <1>6, Fixed DEF vars, driver
  <2> QED
    BY <1>3, <2>1 DEF Smooth
<1> QED
  BY <1>2, <1>4, <1>5, <1>6

\* As long as nothing goes wrong nothing can have gone wrong.
LEMMA StaysSmooth ==
    ASSUME IInv, SoFarSmooth, [Next]_vars
    PROVE  SoFarSmooth'
<1> SUFFICES ASSUME faults' = 0, ~Init0(setting')
             PROVE  Smooth'
  BY DEF SoFarSmooth
<1>1. setting' = setting
  BY DEF Next, Driver, vars, driver, Connect, ReportsError, PollBusy, ImuExits, Started, ReadTimeout, Probe, ProbeOther,
         Switch, SwitchTiM240, Send, RebootLogin, Reboot, PollReady, PowerCycle, Exchange
<1>2. faults = 0
  <2>1. faults' = faults \/ Fault
    BY DEF Next, Driver, vars, driver, Connect, ReportsError, PollBusy, ImuExits, Started, ReadTimeout, Probe,
           ProbeOther, Switch, SwitchTiM240, Send, RebootLogin, Reboot, PollReady, PowerCycle, Exchange, Arrives, Lost
  <2>2. faults \in Nat
    BY Known, StartUpAssumption
  <2> QED
    BY <2>1, <2>2 DEF Fault
<1>3. Smooth /\ ~Init0(setting)
  BY <1>1, <1>2 DEF SoFarSmooth
<1>4. ASSUME NEW ok \in BOOLEAN
      PROVE  ~RebootLogin(ok) /\ ~Reboot(ok)
  BY <1>3 DEF Smooth, RebootLogin, Reboot
<1> QED
  BY <1>2, <1>3, <1>4, ConnectSmooth, ProbeSmooth, ProbeOtherSmooth, SwitchSmooth, SendSmooth, PollSmooth, RestSmooth
     DEF Next, Driver

\* As long as nothing goes wrong the lidar refuses nothing: with every
\* launch file of every scanner type no command is sent that the type cannot
\* interpret, and none that needs a login is sent after CMD_RUN has ended it
\* and before the next (init_cmdTables, init_scanner, switchColaProtocol).
THEOREM NothingIsRefused ==
    Spec => []NothingRefused
<1>1. Init => SoFarSmooth
  <2> SUFFICES ASSUME Init, ~Init0(setting)
               PROVE  Smooth
    BY DEF SoFarSmooth
  <2>1. /\ pc = "connect" /\ runState = "scanner_init"
        /\ \E eeprom \in BOOLEAN :
              /\ CanSwitch(setting.scanner) \/ eeprom = setting.binary
              /\ lidar = PoweredOn(eeprom)
    BY DEF Init
  <2>2. /\ lidar.refused = {} /\ lidar.deaf = FALSE
        /\ CanSwitch(setting.scanner) \/ lidar.binary = setting.binary
    BY <2>1 DEF PoweredOn
  <2> QED
    BY <2>1, <2>2 DEF Smooth
<1>2. IInv /\ SoFarSmooth /\ [Next]_vars => SoFarSmooth'
  BY StaysSmooth
<1>3. SoFarSmooth => NothingRefused
  BY DEF SoFarSmooth, Smooth, NothingRefused, Init0, With
<1> QED
  BY <1>1, <1>2, <1>3, Always, PTL DEF Spec

=============================================================================
