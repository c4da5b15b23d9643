---------------------------- MODULE DwellEvents ----------------------------
(***************************************************************************)
(* The event messages of Memory Dwell: the names of the event ids of       *)
(* md_eventids.h (without MD_ and _EID) under the type each is sent with,  *)
(* in the groups of that header.                                           *)
(***************************************************************************)

(* Start-up, and the command pipe.                                         *)
StartUpEvents ==
  [INFORMATION |-> {"INIT_INF", "RECOVERED_TBL_VALID_INF", "TBL_INIT_INF"},
   ERROR |-> {"PIPE_ERR", "RECOVERED_TBL_NOT_VALID_ERR"},
   CRITICAL |-> {"DWELL_TBL_TOO_LARGE_CRIT", "TBL_REGISTER_CRIT"}]

(* Commands without an argument of a table, dispatch.                      *)
CommandEvents ==
  [INFORMATION |-> {"NOOP_INF", "RESET_INF", "START_DWELL_INF", "STOP_DWELL_INF"},
   ERROR |-> {"EMPTY_TBLMASK_ERR", "MID_ERR", "CC_NOT_IN_TBL_ERR",
              "TBL_STATUS_ERR", "CMD_LEN_ERR", "MSG_LEN_ERR"},
   CRITICAL |-> {}]

(* The Jam command, and table updates that cannot be read.                 *)
JamEvents ==
  [INFORMATION |-> {"JAM_DWELL_INF", "JAM_NULL_DWELL_INF"},
   ERROR |-> {"INVALID_JAM_TABLE_ERR", "INVALID_ENTRY_ARG_ERR",
              "INVALID_LEN_ARG_ERR", "CANT_RESOLVE_JAM_ADDR_ERR",
              "INVALID_JAM_ADDR_ERR", "JAM_ADDR_NOT_32BIT_ERR",
              "JAM_ADDR_NOT_16BIT_ERR", "NO_TBL_COPY_ERR"},
   CRITICAL |-> {}]

(* Table validation, and the Set Signature command.                        *)
TableEvents ==
  [INFORMATION |-> {"ZERO_RATE_TBL_INF", "SET_SIGNATURE_INF"},
   ERROR |-> {"RESOLVE_ERR", "RANGE_ERR", "TBL_HAS_LEN_ERR", "TBL_ENA_FLAG",
              "TBL_ALIGN_ERR", "INVALID_SIGNATURE_TABLE_ERR",
              "INVALID_SIGNATURE_LENGTH_ERR", "TBL_SIG_LEN_ERR"},
   CRITICAL |-> {}]

(* Zero rates, and writing to Table Services' buffer.                      *)
UpdateEvents ==
  [INFORMATION |-> {"ZERO_RATE_CMD_INF", "DWELL_TBL_INF"},
   ERROR |-> {"UPDATE_TBL_EN_ERR", "UPDATE_TBL_DWELL_ERR",
              "UPDATE_TBL_SIG_ERR", "START_DWELL_ERR", "STOP_DWELL_ERR",
              "SET_SIGNATURE_ERR", "JAM_DWELL_ERR", "JAM_NULL_DWELL_ERR",
              "INIT_TBL_NAME_ERR"},
   CRITICAL |-> {}]

(* Services that fail.                                                     *)
ServiceEvents ==
  [INFORMATION |-> {},
   ERROR |-> {"INIT_TBL_FILENAME_ERR", "TBL_VAL_NULL_PTR_ERR",
              "DWELL_LOOP_GET_DWELL_DATA_ERR", "CR_PIPE_ERR", "SUB_HK_ERR",
              "SUB_CMD_ERR", "SUB_WAKEUP_ERR", "TBL_ENTRY_ERR"},
   CRITICAL |-> {}]

-----------------------------------------------------------------------------
(* The event messages of a type, and all.                                  *)
Ids(type) ==
  StartUpEvents[type] \cup CommandEvents[type] \cup JamEvents[type]
    \cup TableEvents[type] \cup UpdateEvents[type] \cup ServiceEvents[type]

EventIds == Ids("INFORMATION") \cup Ids("ERROR") \cup Ids("CRITICAL")
=============================================================================
