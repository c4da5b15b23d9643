----------------------------- MODULE MemoryDwell -----------------------------
(***************************************************************************)
(* The whole Memory Dwell application around the streams of DwellStreams:  *)
(* MD_AppMain with its start-up, the management of the dwell tables it     *)
(* shares with Table Services, the command pipe and its dispatcher, event  *)
(* messages and housekeeping, the end of the task and the resets of the    *)
(* processor, which keep the critical tables Table Services has saved in   *)
(* the Critical Data Store.                                                *)
(*                                                                         *)
(* A step is one call MD makes that another party can come between: one    *)
(* table's initialization, one CFE_TBL_GetStatus and what it asks for, one *)
(* message.  A dwell scan takes the steps of MD_DwellLoop.                 *)
(***************************************************************************)
EXTENDS DwellStreams, DwellEvents

CONSTANTS
  MaxLoads,        \* working buffers: the tables being loaded at a time
  Builds,          \* the dispatchers considered: "headers", "eds"
  ServiceFaults    \* whether another cFE call may fail, or ask MD to exit

ASSUME MemoryDwellAssumption ==
  /\ CounterModulus > 1
  /\ MaxLoads \in Nat \ {0}
  /\ Builds \subseteq {"headers", "eds"} /\ Builds # {}
  /\ ServiceFaults \in BOOLEAN

VARIABLES
  phase,       \* what MD_AppMain is doing
  at,          \* TblIndex of MD_InitTableServices and of MD_AppMain's loop
  RunStatus,
  tbs,         \* Table Services: a table's load and what is pending for it
  cds,         \* the table images in the Critical Data Store
  hk,          \* the housekeeping packet the last step transmitted, or NoHk
  events,      \* the event messages the last step sent
  build        \* which dispatcher this MD is built with

appVars == <<phase, at, RunStatus, tbs, cds, hk, events, build>>
allVars == <<vars, appVars>>

(* "returned": a handler has failed, and the dispatcher sees its status.   *)
Serving == {"loop", "manage", "receive", "returned", "dwell"}
Phases  == {"init", "tables", "exited"} \cup Serving

NoImage == [Entry |-> <<>>]
NoHk    == [ValidCmdCntr |-> -1]
Idle(c) == c.Enabled = Dwell_ENABLED /\ c.Rate = 0

(* No image loaded, nothing pending.  "checked": the loaded image passed   *)
(* validation; "announced": the event that it would idle was sent then.    *)
NoLoad == [work |-> NoImage, request |-> "none",
           checked |-> FALSE, announced |-> FALSE]
NoLoads == [t \in Tables |-> NoLoad]

Silent(ids) == events' = ids /\ hk' = NoHk

-----------------------------------------------------------------------------
(* Events                                                                  *)

(* The first check an entry fails, in the order of MD_ValidTableEntry.     *)
EntryError(e) ==
  LET addr == MD_ResolveSymAddr(e.SymName, e.Offset)
  IN  IF ~Resolvable(e.SymName) THEN "RESOLVE_ERR"
      ELSE IF ~MD_ValidAddrRange(addr, e.Length) THEN "RANGE_ERR"
      ELSE IF ~MD_ValidFieldLength(e.Length) THEN "TBL_HAS_LEN_ERR"
      ELSE "TBL_ALIGN_ERR"

(* What MD_TableValidationFunc says of an image.                           *)
ValidationEvents(image) ==
  LET n   == ActiveCount(image.Entry)
      bad == {i \in 0..(n - 1) : ~MD_ValidTableEntry(image.Entry[i])}
  IN  IF image.Enabled \notin {Dwell_DISABLED, Dwell_ENABLED} THEN {"TBL_ENA_FLAG"}
      ELSE IF image.Signature = Unterminated THEN {"TBL_SIG_LEN_ERR"}
      ELSE {"DWELL_TBL_INF"} \cup
             IF bad # {} THEN {"TBL_ENTRY_ERR", EntryError(image.Entry[Min(bad)])}
             ELSE IF image.Enabled = Dwell_ENABLED /\ DelaySum(image.Entry)[n] = 0
             THEN {"ZERO_RATE_TBL_INF"}
             ELSE {}

(* The check a Jam command fails first.                                    *)
JamError(jam) ==
  LET addr == MD_ResolveSymAddr(jam.SymName, jam.Offset)
  IN  IF ~MD_ValidTableId(jam.TableId) THEN "INVALID_JAM_TABLE_ERR"
      ELSE IF ~MD_ValidEntryId(jam.EntryId) THEN "INVALID_ENTRY_ARG_ERR"
      ELSE IF ~Resolvable(jam.SymName) THEN "CANT_RESOLVE_JAM_ADDR_ERR"
      ELSE IF ~MD_ValidFieldLength(jam.FieldLength) THEN "INVALID_LEN_ARG_ERR"
      ELSE IF ~MD_ValidAddrRange(addr, jam.FieldLength) THEN "INVALID_JAM_ADDR_ERR"
      ELSE IF jam.FieldLength = 4 THEN "JAM_ADDR_NOT_32BIT_ERR"
      ELSE "JAM_ADDR_NOT_16BIT_ERR"

(* The events of a command that wrote to Table Services' buffers, by the   *)
(* tables for which that failed.                                           *)
Verdict(failed, done, error) == IF failed = {} THEN done ELSE error

(* Enabled, but no processing will occur.                                  *)
ZeroRate(ts) == {"ZERO_RATE_CMD_INF" : t \in {t \in ts : Idle(ctl[t]')}}

-----------------------------------------------------------------------------
(* Start-up                                                                *)

(* Power on: the store holds what an earlier MD, perhaps of another build, *)
(* left there, or nothing.                                                 *)
AppInit ==
  /\ ctl = [t \in Tables |-> InitialControl]
  /\ buf = [t \in Tables |-> DefaultImage]
  /\ CmdCounter = 0 /\ ErrCounter = 0
  /\ pc = "wait" /\ cur = 0 /\ tlm = NoPacket
  /\ collected = [t \in Tables |-> {}]
  /\ disturbed = [t \in Tables |-> FALSE]
  /\ sent = [t \in Tables |-> 0]
  /\ phase = "init" /\ at = 0 /\ RunStatus = "RUN"
  /\ tbs = NoLoads /\ cds \in [Tables -> SavedImages \cup {NoImage}]
  /\ hk = NoHk /\ events = {} /\ build \in Builds

(* MD_AppInit gives up, and MD_AppMain finds the error in its RunStatus.   *)
Fail == RunStatus' = "ERROR" /\ phase' = "loop" /\ at' = 0

(* The records are cleared before the first service is asked for.  Event   *)
(* Services may fail silently; MD_InitSoftwareBusServices says at which    *)
(* call it stopped.                                                        *)
MD_AppInit ==
  /\ phase = "init"
  /\ ctl' = [t \in Tables |-> InitialControl]
  /\ CmdCounter' = 0 /\ ErrCounter' = 0
  /\ \/ RunStatus' = "RUN" /\ phase' = "tables" /\ at' = 0 /\ Silent({})
     \/ /\ ServiceFaults /\ Fail
        /\ \E ids \in {{}, {"CR_PIPE_ERR"}, {"SUB_HK_ERR"}, {"SUB_CMD_ERR"},
                       {"SUB_WAKEUP_ERR"}} : Silent(ids)
  /\ UNCHANGED <<buf, pc, cur, tlm, collected, disturbed, sent, tbs, cds, build>>

InitTable ==
  /\ phase = "tables"
  /\ UNCHANGED <<CmdCounter, ErrCounter, pc, cur, tlm, collected, disturbed,
                 sent, tbs, build>>

(* On to the next table, or out of MD_InitTableServices and MD_AppInit,    *)
(* which takes a failure of its last event for one of the start-up.        *)
TableReady(ids) ==
  \/ /\ at < NumTables - 1
     /\ phase' = "tables" /\ at' = at + 1 /\ Silent(ids)
     /\ UNCHANGED RunStatus
  \/ /\ at = NumTables - 1
     /\ \/ /\ phase' = "loop" /\ at' = 0 /\ UNCHANGED RunStatus
           /\ Silent(ids \cup {"TBL_INIT_INF", "INIT_INF"})
        \/ ServiceFaults /\ Fail /\ Silent(ids \cup {"TBL_INIT_INF"})

RecoverTable ==
  /\ InitTable
  /\ cds[at] # NoImage /\ MD_TableValidationFunc(cds[at])
  /\ buf' = [buf EXCEPT ![at] = cds[at]]
  /\ ctl' = [ctl EXCEPT ![at] = Activated(@, cds[at])]
  /\ TableReady(ValidationEvents(cds[at]) \cup {"RECOVERED_TBL_VALID_INF"})
  /\ UNCHANGED cds

(* Mutant of NotRecovered: what the registration returned is not looked at.*)
RegisteredAfresh == {{}}

(* The events of a registered table that was not recovered: there is none, *)
(* it cannot be read, or it is not valid.                                  *)
NotRecovered ==
  IF cds[at] = NoImage THEN {{}}
  ELSE {ids \in {{"NO_TBL_COPY_ERR"}} : TblFaults}
         \cup {ids \in {ValidationEvents(cds[at])
                          \cup {"RECOVERED_TBL_NOT_VALID_ERR"}} :
                 ~MD_TableValidationFunc(cds[at])}

(* The default file is loaded and validated, and, for a critical table,    *)
(* saved.                                                                  *)
LoadDefault ==
  /\ InitTable
  /\ buf' = [buf EXCEPT ![at] = DefaultImage]
  /\ cds' = [cds EXCEPT ![at] = DefaultImage]
  /\ ctl' = [ctl EXCEPT ![at] = MD_UpdateDwellControlInfo(
                                  [@ EXCEPT !.Enabled = Dwell_DISABLED])]
  /\ \E ids \in NotRecovered : TableReady(ids \cup ValidationEvents(DefaultImage))

(* The table's name, its file's or its registration fails, or the load,    *)
(* before or after the image was validated.                                *)
TableFails ==
  /\ InitTable /\ ServiceFaults /\ Fail
  /\ UNCHANGED <<ctl, buf, cds>>
  /\ \/ \E id \in {"INIT_TBL_NAME_ERR", "INIT_TBL_FILENAME_ERR",
                   "DWELL_TBL_TOO_LARGE_CRIT", "TBL_REGISTER_CRIT"} :
          Silent({id, "TBL_INIT_INF"})
     \/ \E ids \in NotRecovered, said \in {{}, ValidationEvents(DefaultImage)} :
          Silent(ids \cup said \cup {"TBL_INIT_INF"})

MD_InitTableServices == RecoverTable \/ LoadDefault \/ TableFails

-----------------------------------------------------------------------------
(* The main loop and the dwell tables                                      *)

(* Mutant of RunLoop: the status of a failed start-up is not passed on.    *)
RunLoopAnyway ==
  /\ phase = "loop" /\ Silent({})
  /\ \/ phase' = "manage" /\ at' = 0 /\ UNCHANGED tbs
     \/ ServiceFaults /\ phase' = "exited" /\ at' = 0 /\ tbs' = NoLoads
  /\ UNCHANGED <<vars, RunStatus, cds, build>>

(* CFE_ES_RunLoop: the task goes on while its status and ES agree.  With   *)
(* the task its tables are gone from Table Services, loads and all.        *)
RunLoop ==
  /\ phase = "loop" /\ Silent({})
  /\ \/ RunStatus = "RUN" /\ phase' = "manage" /\ at' = 0 /\ UNCHANGED tbs
     \/ /\ RunStatus = "ERROR" \/ ServiceFaults
        /\ phase' = "exited" /\ at' = 0 /\ tbs' = NoLoads
  /\ UNCHANGED <<vars, RunStatus, cds, build>>

(* Mutants of Managed: the last table is left out; one table too many.     *)
ManagedButLast ==
  IF at >= NumTables - 2 THEN phase' = "receive" /\ at' = 0
                         ELSE at' = at + 1 /\ UNCHANGED phase

ManagedOneMore ==
  IF at = NumTables THEN phase' = "receive" /\ at' = 0
                    ELSE at' = at + 1 /\ UNCHANGED phase

(* On to the next table, and from the last one to the pipe.                *)
Managed ==
  IF at = NumTables - 1 THEN phase' = "receive" /\ at' = 0
                        ELSE at' = at + 1 /\ UNCHANGED phase

(* One CFE_TBL_GetStatus for table t with the given answer.                *)
GetStatus(t, request) ==
  /\ phase = "manage" /\ at = t /\ tbs[t].request = request
  /\ UNCHANGED <<RunStatus, build>>

(* Mutant of ValidateTable: the function's verdict is always good.         *)
ValidateTableAnyway(t) ==
  /\ GetStatus(t, "validate")
  /\ Silent(ValidationEvents(tbs[t].work))
  /\ tbs' = [tbs EXCEPT
               ![t].request   = "none",
               ![t].checked   = TRUE,
               ![t].announced = "ZERO_RATE_TBL_INF" \in events']
  /\ UNCHANGED <<vars, phase, at, cds>>

(* CFE_TBL_Validate calls MD_TableValidationFunc and is done whatever that *)
(* says; the status is asked for again.                                    *)
ValidateTable(t) ==
  /\ GetStatus(t, "validate")
  /\ Silent(ValidationEvents(tbs[t].work))
  /\ tbs' = [tbs EXCEPT
               ![t].request   = "none",
               ![t].checked   = MD_TableValidationFunc(tbs[t].work),
               ![t].announced = "ZERO_RATE_TBL_INF" \in events']
  /\ UNCHANGED <<vars, phase, at, cds>>

(* CFE_TBL_Update makes the loaded image the table's, and saves it.        *)
UpdateTable(t) ==
  /\ GetStatus(t, "update")
  /\ \/ CopyTable(t, tbs[t].work) /\ Silent({})
     \/ MissCopy(t, tbs[t].work) /\ Silent({"NO_TBL_COPY_ERR"})
  /\ cds' = [cds EXCEPT ![t] = tbs[t].work]
  /\ tbs' = [tbs EXCEPT ![t] = NoLoad]
  /\ Managed

(* Nothing is pending, or the validation or update cannot be made now (the *)
(* table is locked), or CFE_TBL_GetStatus fails: on to the next table.     *)
LeaveTable(t) ==
  /\ UNCHANGED <<vars, tbs, cds>> /\ Managed
  /\ \/ GetStatus(t, "none") /\ Silent({})
     \/ /\ ServiceFaults /\ GetStatus(t, tbs[t].request)
        /\ Silent({}) \/ Silent({"TBL_STATUS_ERR"})

MD_ManageDwellTable ==
  \E t \in Tables : ValidateTable(t) \/ UpdateTable(t) \/ LeaveTable(t)

-----------------------------------------------------------------------------
(* The pipe                                                                *)

Receive == phase = "receive" /\ UNCHANGED <<at, RunStatus, tbs, build>>

(* What most messages have in common: MD_AppMain goes round its loop.      *)
Handled == Receive /\ phase' = "loop"

(* A handler returns a bad status if it failed for a table.  MD_ExecRequest*)
(* drops it; the dispatcher generated from the EDS may hand it on.         *)
Returned(failed) ==
  phase' \in IF failed # {} /\ build = "eds" THEN {"loop", "returned"} ELSE {"loop"}

TimeOut == Handled /\ Silent({}) /\ UNCHANGED <<vars, cds>>

PipeError ==
  /\ phase = "receive" /\ ServiceFaults /\ Fail
  /\ Silent({"PIPE_ERR"})
  /\ UNCHANGED <<vars, tbs, cds, build>>

(* A wakeup of the right length.                                           *)
ScanTables ==
  /\ phase = "receive" /\ Wakeup /\ phase' = "dwell"
  /\ Silent({})
  /\ UNCHANGED <<at, RunStatus, tbs, cds, build>>

(* A step of the scan, which ends as MD_DwellLoop returns to the main loop.*)
DwellStep ==
  /\ phase = "dwell"
  /\ \/ (SkipTable \/ FlushPacket \/ CountDown) /\ Silent({})
     \/ Collect(TRUE) /\ Silent({})
     \/ Collect(FALSE) /\ Silent({"DWELL_LOOP_GET_DWELL_DATA_ERR"})
  /\ phase' = IF pc' = "wait" THEN "loop" ELSE "dwell"
  /\ UNCHANGED <<at, RunStatus, tbs, cds, build>>

HkModulus == MaxDelay + 1   \* a uint16 in the packet, as a Delay is

(* The bits of the enabled tables, gathered table by table.                *)
EnabledMask(c) ==
  LET mask[n \in 0..NumTables] ==
        IF n = 0 THEN 0 ELSE mask[n - 1] + c[n - 1].Enabled * Bit[n - 1]
  IN  mask[NumTables]

HkPacket ==
  [ValidCmdCntr |-> CmdCounter, InvalidCmdCntr |-> ErrCounter,
   DwellEnabledMask  |-> EnabledMask(ctl),
   DwellTblAddrCount |-> [t \in Tables |-> ctl[t].AddrCount],
   NumWaitsPerPkt    |-> [t \in Tables |-> ctl[t].Rate % HkModulus],
   ByteCount         |-> [t \in Tables |-> ctl[t].DataSize],
   DwellPktOffset    |-> [t \in Tables |-> ctl[t].PktOffset],
   DwellTblEntry     |-> [t \in Tables |-> ctl[t].CurrentEntry],
   Countdown         |-> [t \in Tables |-> ctl[t].Countdown % HkModulus]]

MD_HkStatus ==
  /\ Handled
  /\ hk' = HkPacket /\ events' = {}
  /\ UNCHANGED <<vars, cds>>

-----------------------------------------------------------------------------
(* Commands: their handlers in DwellStreams, and the events they send      *)

(* Mutant of Modified: a command's change of the Enabled field is not      *)
(* reported to Table Services.                                             *)
ModifiedButEnabled ==
  cds' = [t \in Tables |->
            IF buf'[t] = [buf[t] EXCEPT !.Enabled = buf'[t].Enabled]
            THEN cds[t] ELSE buf'[t]]

(* CFE_TBL_Modified saves the buffers a command wrote to.                  *)
Modified == cds' = [t \in Tables |-> IF buf'[t] = buf[t] THEN cds[t] ELSE buf'[t]]

StartDwell(mask, failed) ==
  /\ MD_StartDwellCmd(mask, failed)
  /\ Silent(Verdict(failed, {"START_DWELL_INF"},
                    {"START_DWELL_ERR", "UPDATE_TBL_EN_ERR"})
              \cup ZeroRate(Selected(mask)))

StopDwell(mask, failed) ==
  /\ MD_StopDwellCmd(mask, failed)
  /\ Silent(Verdict(failed, {"STOP_DWELL_INF"},
                    {"STOP_DWELL_ERR", "UPDATE_TBL_EN_ERR"}))

NoTables(mask, failed) ==
  EmptyMask(mask) /\ failed = {} /\ Silent({"EMPTY_TBLMASK_ERR"})

(* Mutant of JamDwell: nobody looks at the rate the jam left.              *)
JamDwellQuietly(jam, failed) ==
  \/ /\ MD_JamDwellCmd(jam, failed)
     /\ Silent(Verdict(failed, {"JAM_DWELL_INF"},
                       {"JAM_DWELL_ERR", "UPDATE_TBL_DWELL_ERR"}))
  \/ InvalidJam(jam) /\ failed = {} /\ Silent({JamError(jam)})

JamDwell(jam, failed) ==
  \/ /\ MD_JamDwellCmd(jam, failed)
     /\ LET idle == ZeroRate({jam.TableId - 1})
        IN  Silent(IF jam.FieldLength = 0
                   THEN Verdict(failed, {"JAM_NULL_DWELL_INF"} \cup idle,
                                {"JAM_NULL_DWELL_ERR", "UPDATE_TBL_DWELL_ERR"})
                   ELSE Verdict(failed, {"JAM_DWELL_INF"} \cup idle,
                                {"JAM_DWELL_ERR", "UPDATE_TBL_DWELL_ERR"}))
  \/ InvalidJam(jam) /\ failed = {} /\ Silent({JamError(jam)})

(* The signature's length is checked before the table id.                  *)
SetSignature(cmd, failed) ==
  /\ MD_SetSignatureCmd(cmd, failed)
  /\ Silent(IF cmd.Signature = Unterminated THEN {"INVALID_SIGNATURE_LENGTH_ERR"}
            ELSE IF ~MD_ValidTableId(cmd.TableId) THEN {"INVALID_SIGNATURE_TABLE_ERR"}
            ELSE Verdict(failed, {"SET_SIGNATURE_INF"},
                         {"SET_SIGNATURE_ERR", "UPDATE_TBL_SIG_ERR"}))

(* A ground command whose code is in MD_CmdHandlerTbl, of the length given *)
(* there; "failed" are the tables whose buffers the handler cannot reach.  *)
GroundCommand ==
  /\ Receive
  /\ \E failed \in SUBSET Tables :
       /\ Returned(failed)
       /\ \/ \E mask \in StartStopMasks :
               \/ StartDwell(mask, failed) \/ StopDwell(mask, failed)
               \/ NoTables(mask, failed)
          \/ \E jam \in JamCommands : JamDwell(jam, failed)
          \/ \E cmd \in SignatureCommands : SetSignature(cmd, failed)
          \/ failed = {} /\ MD_NoopCmd /\ Silent({"NOOP_INF"})
          \/ failed = {} /\ MD_ResetCountersCmd /\ Silent({"RESET_INF"})
  /\ Modified

(* MD_ProcessCommandPacket of the EDS build takes the status its dispatcher*)
(* returns, when it is not one of its own, for an unknown command code:    *)
(* the failed command is counted once more.                                *)
MeetStatus ==
  /\ phase = "returned" /\ phase' = "loop"
  /\ RefuseMessage /\ Silent({"CC_NOT_IN_TBL_ERR"})
  /\ UNCHANGED <<at, RunStatus, tbs, cds, build>>

(* MD_ExecRequest: no such code in the table, or not its length.           *)
BadGroundCommand ==
  /\ Handled /\ RefuseMessage
  /\ Silent({"CC_NOT_IN_TBL_ERR"}) \/ Silent({"CMD_LEN_ERR"})
  /\ UNCHANGED cds

(* A wakeup or housekeeping request of a wrong length, or a message MD did *)
(* not subscribe to: the two dispatchers disagree on counting it.          *)
BadMessage ==
  /\ Handled
  /\ \/ /\ build = "headers" /\ UNCHANGED vars
        /\ Silent({"MSG_LEN_ERR"}) \/ Silent({"MID_ERR"})
     \/ /\ build = "eds" /\ RefuseMessage
        /\ Silent({"CMD_LEN_ERR"}) \/ Silent({"MID_ERR"})
  /\ UNCHANGED cds

MD_ProcessCommandPacket ==
  \/ ScanTables \/ MD_HkStatus \/ GroundCommand \/ MeetStatus
  \/ BadGroundCommand \/ BadMessage

-----------------------------------------------------------------------------
(* The environment: the ground works on the dwell tables through Table     *)
(* Services, and the processor is reset                                    *)

Registered(t) == \/ phase \in Serving /\ RunStatus = "RUN"
                 \/ phase = "tables" /\ t < at

(* The ground's commands to Table Services reach MD at its next status     *)
(* request.  They may come between any two steps of MD.                    *)
Uplink(t) ==
  /\ Registered(t)
  /\ UNCHANGED <<vars, phase, at, RunStatus, cds, hk, events, build>>

(* A load replaces the image loaded before, unless that is to be activated.*)
TblLoad(t, image) ==
  /\ Uplink(t)
  /\ tbs[t].request # "update"
  /\ tbs[t].work # NoImage
       \/ Cardinality({s \in Tables : tbs[s].work # NoImage}) < MaxLoads
  /\ tbs' = [tbs EXCEPT ![t].work = image, ![t].checked = FALSE,
                        ![t].announced = FALSE]

TblValidate(t) ==
  /\ Uplink(t)
  /\ tbs[t].work # NoImage /\ tbs[t].request = "none"
  /\ tbs' = [tbs EXCEPT ![t].request = "validate"]

TblActivate(t) ==
  /\ Uplink(t)
  /\ tbs[t].checked /\ tbs[t].request = "none"
  /\ tbs' = [tbs EXCEPT ![t].request = "update"]

(* A reset of the processor at any point, or of the power: the tables of   *)
(* "lost" are not in the store any more.                                   *)
Reset(lost) ==
  /\ phase' = "init" /\ at' = 0 /\ RunStatus' = "RUN"
  /\ cds' = [t \in Tables |-> IF t \in lost THEN NoImage ELSE cds[t]]
  /\ tbs' = NoLoads /\ Silent({})
  /\ pc' = "wait" /\ cur' = 0 /\ tlm' = NoPacket
  /\ collected' = [t \in Tables |-> {}]
  /\ disturbed' = [t \in Tables |-> FALSE]
  /\ sent' = [t \in Tables |-> 0]
  /\ UNCHANGED <<ctl, buf, CmdCounter, ErrCounter, build>>

Environment ==
  \/ \E t \in Tables :
       \/ \E image \in LoadImages : TblLoad(t, image)
       \/ TblValidate(t)
       \/ TblActivate(t)
  \/ \E lost \in SUBSET Tables : Reset(lost)

-----------------------------------------------------------------------------
MD_AppMain ==
  \/ MD_AppInit \/ MD_InitTableServices \/ RunLoop \/ MD_ManageDwellTable
  \/ TimeOut \/ PipeError \/ MD_ProcessCommandPacket \/ DwellStep

AppNext == MD_AppMain \/ Environment

(* The task is scheduled, CFE_SB_ReceiveBuffer returns within a second     *)
(* with or without a message, and what fails for a table now (it is        *)
(* locked) does not always fail.                                           *)
AppFairness ==
  /\ WF_allVars(MD_AppMain)
  /\ \A t \in Tables : SF_allVars(ValidateTable(t) \/ UpdateTable(t))

AppSpec == AppInit /\ [][AppNext]_allVars /\ AppFairness

-----------------------------------------------------------------------------
(* Correctness                                                             *)

AppTypeOK ==
  /\ TypeOK
  /\ phase \in Phases /\ at \in Tables /\ RunStatus \in {"RUN", "ERROR"}
  /\ pc = "wait" <=> phase # "dwell"
  /\ tbs \in [Tables -> [work : TableImage \cup {NoImage},
                         request : {"none", "validate", "update"},
                         checked : BOOLEAN, announced : BOOLEAN]]
  /\ cds \in [Tables -> TableImage \cup {NoImage}]
  /\ events \subseteq EventIds
  /\ build \in Builds

(* At any moment between two messages, a reset of the processor gives back *)
(* the streams as they are: what the store holds of every table is valid   *)
(* and recovers its record (requirement MD9004), through loads, commands   *)
(* and resets, whichever tables the last start-up recovered.               *)
ResetResumes ==
  phase \in Serving /\ RunStatus = "RUN" =>
    \A t \in Tables : cds[t] # NoImage /\ Restores(cds[t], ctl[t])

Saved(t) == cds[t] # NoImage /\ MD_TableValidationFunc(cds[t])

(* Start-up does not lose a valid saved table, even one that fails half    *)
(* way, and it clears the counters (requirements MD9000 and MD9004).       *)
StartUpKeepsSaved ==
  [][phase' # "init" /\ phase \in {"init", "tables"} =>
       /\ CmdCounter' = 0 /\ ErrCounter' = 0
       /\ \A t \in Tables : Saved(t) => cds'[t] = cds[t]]_allVars

(* Where Table Services fails it, start-up may overwrite a valid saved     *)
(* table with the default, but the ground is told that it was not copied.  *)
LossTold ==
  [][phase' # "init" /\ phase \in {"init", "tables"} =>
       \A t \in Tables : Saved(t) /\ cds'[t] # cds[t] => "NO_TBL_COPY_ERR" \in events']_allVars

(* Once started, and until the next reset, MD is the dwell streams of      *)
(* DwellStreams: whatever comes between the validation of an image and its *)
(* activation, only valid images become a table's content.                 *)
ImplementsStreams ==
  [][phase' # "init" /\ phase \in Serving => UNCHANGED vars \/ Next]_allVars

(* No stream falls idle unannounced: when a table is enabled with a rate   *)
(* of zero, this step or the validation of the image it comes from has     *)
(* sent an event to say so (requirement MD4000.3).                         *)
ZeroRateTold ==
  [][\A t \in Tables :
       Idle(ctl[t]') /\ ~Idle(ctl[t]) =>
         tbs[t].announced
           \/ events' \cap {"ZERO_RATE_CMD_INF", "ZERO_RATE_TBL_INF"} # {}]_allVars

Sent(type) == events \cap Ids(type) # {}

(* What the step's events say of a command is what its counters say.       *)
CountedAsTold ==
  /\ CmdCounter' # CmdCounter => Sent("INFORMATION")' /\ ~Sent("ERROR")'
  /\ ErrCounter' # ErrCounter => Sent("ERROR")'
  /\ Sent("ERROR")' /\ ErrCounter' = ErrCounter =>
       events' \subseteq {"MSG_LEN_ERR", "MID_ERR", "PIPE_ERR"}

(* Counter and events tell the same of a command, whichever of its tables  *)
(* failed and whichever dispatcher handles it: one that is accepted sends  *)
(* an informational event and no error, one that is rejected an error; and *)
(* an error is counted, but for the messages that are no ground commands   *)
(* (requirements MD1004 and MD1005).  A reset of the counters is accepted  *)
(* without being counted.                                                  *)
VerdictReported ==
  [][phase' # phase /\ phase \in {"receive", "returned"} =>
       CountedAsTold \/ "RESET_INF" \in events']_allVars

(* A saved entry and the record's are the same field, read at the same     *)
(* pace (an address that cannot be resolved says nothing).                 *)
SameEntry(e, d) ==
  /\ e.Length = d.Length /\ e.Delay = d.Delay
  /\ Resolvable(e.SymName) =>
       MD_ResolveSymAddr(e.SymName, e.Offset) = d.ResolvedAddress

(* What the store has of the table is what its record has.                 *)
StreamSaved(t) ==
  /\ cds[t] # NoImage
  /\ ctl[t].Enabled = cds[t].Enabled
  /\ ctl[t].Signature \in {NoSignature, cds[t].Signature}
  /\ \A i \in Entries : SameEntry(cds[t].Entry[i], ctl[t].Entry[i])

(* Which update or copy failed is told; a command is not accepted then.    *)
DriftReported ==
  /\ events' \cap {"UPDATE_TBL_EN_ERR", "UPDATE_TBL_DWELL_ERR",
                  "UPDATE_TBL_SIG_ERR", "NO_TBL_COPY_ERR"} # {}
  /\ phase = "receive" => ErrCounter' # ErrCounter /\ CmdCounter' = CmdCounter

(* A command or load may part a table's record from what would be restored *)
(* after a reset only if it fails: the ground is told which update or copy *)
(* it was, and the command is counted as an error and not as accepted,     *)
(* even where it did what was asked for its other tables.                  *)
DriftTold ==
  [][phase' # "init" /\ phase \in Serving =>
       \A t \in Tables : StreamSaved(t) /\ ~StreamSaved(t)' => DriftReported]_allVars

(* "Changes made to a Dwell Table using a Jam command will not be saved    *)
(* across process resets" (md_fcncodes.h).                                 *)
JamNotSaved ==
  [][events' \cap {"JAM_DWELL_INF", "JAM_NULL_DWELL_INF"} # {} => cds' = cds]_allVars

(* Housekeeping tells which tables are producing packets: those of the     *)
(* enabled mask with waits per packet, "number of delay counts in table".  *)
HkShowsActivity ==
  hk # NoHk =>
    \A t \in Tables :
      Running(ctl[t]) <=> /\ MD_TableIsInMask(t, hk.DwellEnabledMask)
                          /\ hk.NumWaitsPerPkt[t] > 0

(* After a failed start-up or a pipe error MD touches nothing any more     *)
(* before it exits, and only a reset brings it back.                       *)
FailureStops ==
  [][RunStatus = "ERROR" /\ phase' # "init" =>
       phase' = "exited" /\ RunStatus' = "ERROR"
         /\ UNCHANGED <<vars, cds>> /\ events' = {}]_allVars

(* The while loop of MD_ManageDwellTable goes on as long as a validation   *)
(* is asked for each time it asks: for ever, if the ground were so fast.   *)
KeptBusy == []<><<phase = "manage" /\ \E t \in Tables : TblValidate(t)>>_allVars

(* The steps MD_AppMain may still take before it reads its pipe or exits:  *)
(* a table being managed counts for two, one if no validation is pending,  *)
(* and a scan for what is left of it.                                      *)
PipeLeft ==
  LET round   == 2 * NumTables + 1
      pending == \E t \in Tables : t = at /\ tbs[t].request = "validate"
  IN  CASE phase = "init"   -> round + NumTables + 1
        [] phase = "tables" -> round + NumTables - at
        [] phase = "dwell"  -> round + ScanLeft
        [] phase = "returned" -> round + 1
        [] phase = "loop"   -> round
        [] phase = "manage" -> 2 * (NumTables - at) - (IF pending THEN 0 ELSE 1)
        [] phase \in {"receive", "exited"} -> 0

(* Every step of MD brings it nearer to its pipe, whatever fails; what may *)
(* take it back is a reset or the ground's asking for one more validation. *)
PipeApproached ==
  [][MD_AppMain /\ phase # "receive" => PipeLeft' < PipeLeft /\ PipeLeft' \in Nat]_allVars

(* MD goes on to read its pipe, or exits, whatever is or fails to be done  *)
(* for its tables, unless it is reset for ever or kept busy.               *)
ReturnsToPipe ==
  \/ []<>(phase \in {"receive", "exited"})
  \/ []<><<\E lost \in SUBSET Tables : Reset(lost)>>_allVars
  \/ KeptBusy

(* A validation or activation the ground asked for is carried out, or is   *)
(* void with the task.                                                     *)
LoadsServed ==
  KeptBusy \/ \A t \in Tables : tbs[t].request # "none" ~> tbs[t].request = "none"
=============================================================================
