------------------------------ MODULE MCStartUp ------------------------------
(***************************************************************************)
(* Every scanner type in both dialects, each without options, with those   *)
(* that it reads, and with a new address; the lidars that are read before  *)
(* they are configured also with an answer that cannot be parsed.          *)
(***************************************************************************)
EXTENDS StartUp

Usual == {"auto_reboot", "ntp_server_address", "encoder_mode", "filters", "scan_layer_filter",
          "ang_res_and_scan_freq", "activate_events", "imu_enable"}

Reads(scanner) ==
    CASE scanner = "RMS_XXXX" -> {{}, {"load_application_default", "ntp_server_address"}, {"RMS1"}}
      [] scanner = "TIM_7XXS" -> {{}, Usual, {"initialize_scanner_0"}, {"new_IP_address"}}
      [] scanner = "NAV_350" -> {{}, {"nav_do_initial_mapping", "auto_reboot"}, {"nav_imk_file"}}
      [] scanner = "LMS_5XX" -> {{}, Usual, {"new_IP_address", "encoder_mode"}}
      [] scanner \in {"LRS_36x1", "NAV_31X"} -> {{}, Usual, {"LMPscancfg_unread"}}
      [] OTHER -> {{}, Usual}

Launches ==
    UNION {{[scanner |-> s, binary |-> b, options |-> o] : b \in BOOLEAN, o \in Reads(s)} : s \in Scanners}
=============================================================================
