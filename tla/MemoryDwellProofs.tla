--------------------------- MODULE MemoryDwellProofs ---------------------------
(***************************************************************************)
(* Theorems about the whole application: around its start-up, its main     *)
(* loop, its messages, the ground's work on its tables and the resets of   *)
(* the processor, it keeps the promises its streams make.                  *)
(***************************************************************************)
EXTENDS MemoryDwell, DwellContentsProofs

-----------------------------------------------------------------------------
(* The inductive invariant                                                 *)

(* A table's load, with an image the ground may have loaded.               *)
LoadState == [work : LoadImages \cup {NoImage},
              request : {"none", "validate", "update"},
              checked : BOOLEAN, announced : BOOLEAN]

AppTypes ==
  /\ phase \in Phases /\ at \in Tables /\ RunStatus \in {"RUN", "ERROR"}
  /\ pc = "wait" <=> phase # "dwell"
  /\ tbs \in [Tables -> LoadState]
  /\ cds \in [Tables -> TableImage \cup {NoImage}]
  /\ build \in Builds

(* An image that counts as checked is loaded and valid, and so is one that *)
(* is to be activated.  A load in between clears "checked", and there is   *)
(* none once the activation is asked for.                                  *)
LoadSound(l) ==
  /\ l.request # "none" => l.work # NoImage
  /\ l.checked \/ l.request = "update" =>
       l.work # NoImage /\ MD_TableValidationFunc(l.work)

(* A failed MD is on its way out, and the counters are clear before the    *)
(* first message.                                                          *)
AppGuarded ==
  /\ \A t \in Tables : LoadSound(tbs[t])
  /\ RunStatus = "ERROR" => phase \in {"loop", "exited"}
  /\ phase = "tables" => CmdCounter = 0 /\ ErrCounter = 0

AppInv == Inv /\ AppTypes /\ AppGuarded

-----------------------------------------------------------------------------
(* The steps after start-up, but for resets                                *)

MainWork == \/ RunLoop \/ MD_ManageDwellTable \/ TimeOut \/ PipeError
            \/ MD_ProcessCommandPacket \/ DwellStep

Uplinks == \E t \in Tables :
             \/ \E image \in LoadImages : TblLoad(t, image)
             \/ TblValidate(t) \/ TblActivate(t)

LEMMA AppCases ==
  AppNext <=> \/ MD_AppInit \/ MD_InitTableServices \/ MainWork \/ Uplinks
              \/ \E lost \in SUBSET Tables : Reset(lost)
BY DEF AppNext, MD_AppMain, Environment, MainWork, Uplinks

LEMMA MainWorkServes ==
  ASSUME MainWork
  PROVE  phase \in Serving /\ phase' \notin {"init", "tables"}
<1>1. ASSUME NEW t \in Tables, ValidateTable(t) \/ UpdateTable(t) \/ LeaveTable(t)
      PROVE  phase = "manage" /\ phase' \in {"manage", "receive"}
  BY <1>1 DEF ValidateTable, UpdateTable, LeaveTable, GetStatus, Managed
<1>2. MD_ManageDwellTable => phase = "manage" /\ phase' \in {"manage", "receive"}
  BY <1>1 DEF MD_ManageDwellTable
<1>3. GroundCommand => phase = "receive" /\ phase' \in {"loop", "returned"}
  BY DEF GroundCommand, Receive, Returned
<1>4. MD_ProcessCommandPacket => /\ phase \in {"receive", "returned"}
                                 /\ phase' \in {"loop", "returned", "dwell"}
  BY <1>3 DEF MD_ProcessCommandPacket, ScanTables, MD_HkStatus, MeetStatus,
              BadGroundCommand, BadMessage, Handled, Receive
<1> QED
  BY <1>2, <1>4
  DEF MainWork, RunLoop, TimeOut, PipeError, Fail, Handled, Receive, DwellStep,
      Serving

LEMMA UplinksQuiet ==
  ASSUME Uplinks
  PROVE  UNCHANGED <<vars, phase, at, RunStatus, cds, hk, events, build>>
BY DEF Uplinks, TblLoad, TblValidate, TblActivate, Uplink

LEMMA LoadedType ==
  /\ NoImage \notin LoadImages /\ NoImage \notin TableImage /\ LoadImages \subseteq TableImage
  /\ SavedImages \subseteq TableImage
<1>1. LoadImages \subseteq TableImage /\ SavedImages \subseteq TableImage
  BY DwellStreamsAssumption DEF DwellStreamsAssumption
<1>2. NoImage \notin TableImage
  <2>1. SUFFICES ASSUME NoImage \in TableImage PROVE FALSE
    OBVIOUS
  <2>2. DOMAIN NoImage = {"Entry"} /\ "Enabled" \in DOMAIN NoImage
    BY <2>1 DEF NoImage, TableImage
  <2> QED  BY <2>2
<1> QED  BY <1>1, <1>2

(* The image that is activated is one that LoadTable accepts.              *)
LEMMA UpdateLoads ==
  ASSUME AppInv, NEW t \in Tables, UpdateTable(t)
  PROVE  Load
<1>1. tbs[t].work \in LoadImages /\ MD_TableValidationFunc(tbs[t].work)
  <2>1. tbs[t].request = "update"
    BY DEF UpdateTable, GetStatus
  <2> QED  BY <2>1 DEF AppInv, AppTypes, AppGuarded, LoadSound, LoadState
<1>2. CopyTable(t, tbs[t].work) \/ MissCopy(t, tbs[t].work)
  BY DEF UpdateTable
<1> QED  BY <1>1, <1>2 DEF Load, LoadTable

LEMMA GroundCommandIs ==
  ASSUME GroundCommand
  PROVE  Command
<1>1. PICK failed \in SUBSET Tables :
        \/ \E mask \in StartStopMasks :
             \/ StartDwell(mask, failed) \/ StopDwell(mask, failed)
             \/ NoTables(mask, failed)
        \/ \E jam \in JamCommands : JamDwell(jam, failed)
        \/ \E cmd \in SignatureCommands : SetSignature(cmd, failed)
        \/ MD_NoopCmd \/ MD_ResetCountersCmd
  BY DEF GroundCommand
<1> QED
  BY <1>1 DEF StartDwell, StopDwell, NoTables, JamDwell, SetSignature, Command

LEMMA ServingStep ==
  ASSUME AppInv, MainWork \/ Uplinks
  PROVE  UNCHANGED vars \/ Next
<1>2. CASE RunLoop \/ TimeOut \/ PipeError
  BY <1>2 DEF RunLoop, TimeOut, PipeError
<1>3. CASE MD_ManageDwellTable
  <2>1. ASSUME NEW t \in Tables, ValidateTable(t) \/ LeaveTable(t)
        PROVE  UNCHANGED vars
    BY <2>1 DEF ValidateTable, LeaveTable
  <2> QED  BY <1>3, <2>1, UpdateLoads DEF MD_ManageDwellTable, Next
<1>4. CASE MD_ProcessCommandPacket
  <2>1. CASE ScanTables
    BY <2>1 DEF ScanTables, Next
  <2>2. CASE MD_HkStatus
    BY <2>2 DEF MD_HkStatus
  <2>3. CASE GroundCommand
    BY <2>3, GroundCommandIs DEF Next
  <2>4. CASE MeetStatus \/ BadGroundCommand \/ BadMessage
    BY <2>4 DEF MeetStatus, BadGroundCommand, BadMessage, Next, Command
  <2> QED  BY <1>4, <2>1, <2>2, <2>3, <2>4 DEF MD_ProcessCommandPacket
<1>5. CASE DwellStep
  BY <1>5 DEF DwellStep, MD_DwellLoop, Next
<1>6. CASE Uplinks
  BY <1>6, UplinksQuiet
<1> QED  BY <1>2, <1>3, <1>4, <1>5, <1>6 DEF MainWork

-----------------------------------------------------------------------------
(* The invariant is preserved                                              *)

(* Nothing but the records and buffers changes, and those to sound ones.   *)
LEMMA StartUpInv ==
  ASSUME Inv, UNCHANGED <<pc, cur, collected, disturbed, sent>>, pc = "wait",
         buf' \in [Tables -> BufferImage],
         ctl' \in [Tables -> ControlRecord], \A t \in Tables : Sound(ctl'[t]),
         CmdCounter' \in {0, CmdCounter}, ErrCounter' \in {0, ErrCounter}
  PROVE  Inv'
<1>1. 0 \in 0..(CounterModulus - 1)
  BY Constants
<1> QED  BY <1>1 DEF Inv, TypeOK, Guarded, Sound

LEMMA InitTableInv ==
  ASSUME AppInv, MD_InitTableServices
  PROVE  Inv'
<1>1. /\ Inv /\ pc = "wait" /\ at \in Tables
      /\ UNCHANGED <<pc, cur, collected, disturbed, sent, CmdCounter, ErrCounter>>
  BY DEF AppInv, AppTypes, MD_InitTableServices, RecoverTable, LoadDefault,
         TableFails, InitTable
<1>2. /\ ctl \in [Tables -> ControlRecord] /\ buf \in [Tables -> BufferImage]
      /\ \A t \in Tables : Sound(ctl[t])
  BY <1>1 DEF Inv, TypeOK, Guarded, Sound
<1>3. ASSUME NEW r, Sound(r), NEW b \in BufferImage,
             ctl' = [ctl EXCEPT ![at] = r], buf' = [buf EXCEPT ![at] = b]
      PROVE  Inv'
  <2>1. buf' \in [Tables -> BufferImage] /\ ctl' \in [Tables -> ControlRecord]
    BY <1>1, <1>2, <1>3 DEF Sound
  <2>2. \A t \in Tables : Sound(ctl'[t])
    BY <1>1, <1>2, <1>3
  <2> QED  BY <1>1, <2>1, <2>2, StartUpInv
<1>4. CASE RecoverTable
  <2>1. cds[at] \in BufferImage
    BY <1>1, <1>4, ValidImageType DEF RecoverTable, AppInv, AppTypes
  <2>2. Sound(Activated(ctl[at], cds[at]))
    BY <1>1, <1>2, <2>1, SoundActivated
  <2> QED  BY <1>3, <1>4, <2>1, <2>2 DEF RecoverTable
<1>5. CASE LoadDefault
  <2> DEFINE c == [ctl[at] EXCEPT !.Enabled = Dwell_DISABLED]
             u == MD_UpdateDwellControlInfo(c)
  <2>1. DefaultImage \in BufferImage
    BY DefaultTableType, DwellStreamsAssumption DEF DwellStreamsAssumption, DefaultImage
  <2>2. c \in ControlRecord
    BY <1>1, <1>2 DEF ControlRecord
  <2>3. Sound(u)
    BY <2>2, UpdateInfoType, UpdateInfoRate DEF Sound
  <2>4. ctl' = [ctl EXCEPT ![at] = u] /\ buf' = [buf EXCEPT ![at] = DefaultImage]
    BY <1>5 DEF LoadDefault
  <2> HIDE DEF c, u
  <2> QED  BY <1>3, <2>1, <2>3, <2>4
<1>6. CASE TableFails
  BY <1>1, <1>2, <1>6, StartUpInv DEF TableFails
<1> QED  BY <1>4, <1>5, <1>6 DEF MD_InitTableServices

LEMMA StreamsInv ==
  ASSUME AppInv, [AppNext]_allVars
  PROVE  Inv'
<1>1. Inv /\ phase \in Phases
  BY DEF AppInv, AppTypes
<1>2. CASE UNCHANGED allVars
  BY <1>1, <1>2, NextInv DEF allVars
<1>3. CASE MainWork \/ Uplinks
  BY <1>1, <1>3, ServingStep, NextInv
<1>4. CASE MD_InitTableServices
  BY <1>4, InitTableInv
<1>5. CASE MD_AppInit
  <2>1. pc = "wait"
    BY <1>5 DEF MD_AppInit, AppInv, AppTypes
  <2>2. /\ ctl' \in [Tables -> ControlRecord]
        /\ \A t \in Tables : Sound(ctl'[t])
    BY <1>5, SoundInitial, InitialControlType DEF MD_AppInit
  <2>3. /\ UNCHANGED <<buf, pc, cur, collected, disturbed, sent>>
        /\ CmdCounter' = 0 /\ ErrCounter' = 0
    BY <1>5 DEF MD_AppInit
  <2>4. buf' \in [Tables -> BufferImage]
    BY <1>1, <2>3 DEF Inv, TypeOK
  <2> QED  BY <1>1, <2>1, <2>2, <2>3, <2>4, StartUpInv
<1>6. ASSUME NEW lost, Reset(lost) PROVE Inv'
  <2>1. /\ 0 \in Tables
        /\ [t \in Tables |-> 0] \in [Tables -> 0..2]
    BY Constants
  <2> QED  BY <1>1, <1>6, <2>1 DEF Reset, Inv, TypeOK, Guarded
<1> QED  BY <1>2, <1>3, <1>4, <1>5, <1>6, AppCases

(* What Table Services holds for MD is something the ground could load.    *)
LEMMA BufferIsImage == BufferImage \subseteq TableImage
<1>1. Dwell_DISABLED \in UINT16 /\ Dwell_ENABLED \in UINT16
  BY DEF UINT16, Word, Dwell_DISABLED, Dwell_ENABLED
<1> QED  BY <1>1 DEF BufferImage, TableImage

(* Messages leave Table Services' loads alone, and end in the main loop or *)
(* with a status for the dispatcher.                                       *)
LEMMA HandledTypes ==
  ASSUME AppInv, phase \in {"receive", "returned"}, phase' \in {"loop", "returned"},
         UNCHANGED <<at, RunStatus, tbs, build>>, pc' = "wait",
         cds' \in [Tables -> TableImage \cup {NoImage}]
  PROVE  AppTypes' /\ AppGuarded'
BY DEF AppInv, AppTypes, AppGuarded, Phases, Serving

LEMMA CommandLeavesWaiting ==
  ASSUME Command
  PROVE  pc' = "wait"
BY CommandBetween DEF Between

(* On to the next table, or to the pipe.                                   *)
LEMMA ManagedTypes ==
  ASSUME AppInv, phase = "manage", Managed
  PROVE  /\ phase' \in {"manage", "receive"} /\ at' \in Tables
         /\ phase' # "dwell" /\ phase' \in Phases
<1>1. at' \in Tables
  BY Sizes DEF Managed, AppInv, AppTypes, Tables
<1> QED  BY <1>1 DEF Managed, Phases, Serving

LEMMA ServingTypes ==
  ASSUME AppInv, Inv', MainWork
  PROVE  AppTypes' /\ AppGuarded'
<1>1. /\ AppTypes /\ AppGuarded
      /\ pc = "wait" <=> phase # "dwell"
      /\ at \in Tables /\ phase \in Phases
      /\ cds \in [Tables -> TableImage \cup {NoImage}]
      /\ 0 \in Tables
  BY Constants DEF AppInv, AppTypes
<1>2. CASE RunLoop
  <2>1. phase' \in {"manage", "exited"} /\ phase = "loop" /\ UNCHANGED pc
    BY <1>2 DEF RunLoop, vars
  <2>2. /\ tbs' \in {tbs, NoLoads} /\ at' = 0
        /\ UNCHANGED <<RunStatus, cds, build>>
        /\ RunStatus = "ERROR" => phase' = "exited"
    BY <1>2 DEF RunLoop
  <2>3. CASE tbs' = tbs
    BY <1>1, <2>1, <2>2, <2>3 DEF AppTypes, AppGuarded, Phases, Serving
  <2>4. CASE tbs' = NoLoads
    BY <1>1, <2>1, <2>2, <2>4
    DEF AppTypes, AppGuarded, Phases, Serving, NoLoads, NoLoad, LoadSound,
        LoadState
  <2> QED  BY <2>2, <2>3, <2>4
<1>3. CASE TimeOut \/ MD_HkStatus
  <2>1. /\ UNCHANGED <<pc, cds, at, RunStatus, tbs, build>>
        /\ phase = "receive" /\ phase' = "loop"
    BY <1>3 DEF TimeOut, MD_HkStatus, Handled, Receive, vars
  <2> QED  BY <1>1, <2>1, HandledTypes
<1>4. CASE PipeError
  <2>1. /\ RunStatus' = "ERROR" /\ phase' = "loop" /\ at' = 0
        /\ phase = "receive" /\ UNCHANGED <<pc, tbs, cds, build>>
    BY <1>4 DEF PipeError, Fail, vars
  <2> QED  BY <1>1, <2>1 DEF AppTypes, AppGuarded, Phases, Serving
<1>5. ASSUME NEW t \in Tables, ValidateTable(t) PROVE AppTypes' /\ AppGuarded'
  <2> DEFINE valid == MD_TableValidationFunc(tbs[t].work)
             told == "ZERO_RATE_TBL_INF" \in events'
             l == [tbs[t] EXCEPT !.request = "none", !.checked = valid,
                                 !.announced = told]
  <2>1. /\ phase = "manage" /\ tbs[t].request = "validate"
        /\ UNCHANGED <<pc, phase, at, cds, RunStatus, build>>
        /\ tbs' = [tbs EXCEPT ![t] = l]
    BY <1>5 DEF ValidateTable, GetStatus, vars
  <2>2. valid \in BOOLEAN /\ told \in BOOLEAN
    <3>1. told \in BOOLEAN
      OBVIOUS
    <3>2. valid \in BOOLEAN
      BY DEF MD_TableValidationFunc
    <3> QED  BY <3>1, <3>2
  <2>4. tbs[t] \in LoadState
    BY <1>1 DEF AppTypes
  <2>5. tbs[t].work # NoImage /\ (valid => MD_TableValidationFunc(tbs[t].work))
    BY <1>1, <2>1 DEF AppGuarded, LoadSound
  <2> HIDE DEF valid, told
  <2>3. /\ l \in LoadState
        /\ LoadSound(l)
    BY <2>2, <2>4, <2>5 DEF LoadSound, LoadState
  <2> HIDE DEF l
  <2> QED  BY <1>1, <2>1, <2>3 DEF AppTypes, AppGuarded
<1>6. ASSUME NEW t \in Tables, UpdateTable(t) PROVE AppTypes' /\ AppGuarded'
  <2>1. phase = "manage" /\ tbs[t].request = "update"
    BY <1>6 DEF UpdateTable, GetStatus
  <2>2. /\ pc' = "wait" /\ UNCHANGED <<RunStatus, build>>
        /\ tbs' = [tbs EXCEPT ![t] = NoLoad]
        /\ cds' = [cds EXCEPT ![t] = tbs[t].work]
    BY <1>6 DEF UpdateTable, GetStatus, CopyTable, MissCopy, Between
  <2>3. phase' \in {"manage", "receive"} /\ at' \in Tables /\ phase' \in Phases
    BY <1>6, <2>1, ManagedTypes DEF UpdateTable
  <2>4. cds' \in [Tables -> TableImage \cup {NoImage}]
    <3>1. tbs[t].work \in TableImage \cup {NoImage}
      BY <1>1, LoadedType DEF AppTypes, LoadState
    <3> QED  BY <1>1, <2>2, <3>1
  <2>5. LoadSound(NoLoad)
    BY DEF LoadSound, NoLoad
  <2> QED
    BY <1>1, <2>1, <2>2, <2>3, <2>4, <2>5 DEF AppTypes, AppGuarded, NoLoad, LoadState
<1>7. ASSUME NEW t \in Tables, LeaveTable(t) PROVE AppTypes' /\ AppGuarded'
  <2>1. phase = "manage" /\ UNCHANGED <<pc, tbs, cds, RunStatus, build>>
    BY <1>7 DEF LeaveTable, GetStatus, vars
  <2>2. phase' \in {"manage", "receive"} /\ at' \in Tables /\ phase' \in Phases
    BY <1>7, <2>1, ManagedTypes DEF LeaveTable
  <2> QED  BY <1>1, <2>1, <2>2 DEF AppTypes, AppGuarded
<1>8. CASE ScanTables
  <2>1. /\ phase = "receive" /\ phase' = "dwell" /\ pc' = "scan"
        /\ UNCHANGED <<at, RunStatus, tbs, cds, build>>
    BY <1>8 DEF ScanTables, Wakeup
  <2> QED  BY <1>1, <2>1 DEF AppTypes, AppGuarded, Phases, Serving
<1>9. CASE DwellStep
  <2>1. /\ phase = "dwell" /\ phase' = (IF pc' = "wait" THEN "loop" ELSE "dwell")
        /\ UNCHANGED <<at, RunStatus, tbs, cds, build>>
    BY <1>9 DEF DwellStep
  <2>2. /\ pc' = "wait" <=> phase' # "dwell"
        /\ phase' \in Phases /\ phase' # "tables" /\ RunStatus # "ERROR"
    BY <1>1, <2>1 DEF AppGuarded, Phases, Serving
  <2> QED  BY <1>1, <2>1, <2>2 DEF AppTypes, AppGuarded
<1>10. CASE GroundCommand
  <2>1. /\ phase = "receive" /\ phase' \in {"loop", "returned"} /\ pc' = "wait"
        /\ UNCHANGED <<at, RunStatus, tbs, build>>
    BY <1>10, GroundCommandIs, CommandLeavesWaiting
    DEF GroundCommand, Receive, Returned
  <2>2. \A t \in Tables : buf'[t] \in TableImage
    BY BufferIsImage DEF Inv, TypeOK
  <2>3. cds' \in [Tables -> TableImage \cup {NoImage}]
    BY <1>1, <1>10, <2>2 DEF GroundCommand, Modified
  <2> QED  BY <2>1, <2>3, HandledTypes
<1>11. CASE MeetStatus \/ BadGroundCommand \/ BadMessage
  <2>1. /\ UNCHANGED <<pc, cds, at, RunStatus, tbs, build>>
        /\ phase \in {"receive", "returned"} /\ phase' = "loop"
    BY <1>11 DEF MeetStatus, BadGroundCommand, BadMessage, RefuseMessage, Between,
                 Handled, Receive, vars
  <2> QED  BY <1>1, <2>1, HandledTypes
<1>12. CASE MD_ManageDwellTable
  BY <1>5, <1>6, <1>7, <1>12 DEF MD_ManageDwellTable
<1>13. CASE MD_ProcessCommandPacket
  BY <1>3, <1>8, <1>10, <1>11, <1>13 DEF MD_ProcessCommandPacket
<1> QED  BY <1>2, <1>3, <1>4, <1>9, <1>12, <1>13 DEF MainWork

LEMMA UplinkTypes ==
  ASSUME AppInv, Uplinks
  PROVE  AppTypes' /\ AppGuarded'
<1>1. AppTypes /\ AppGuarded
  BY DEF AppInv
<1>2. UNCHANGED <<pc, phase, at, RunStatus, cds, build, CmdCounter, ErrCounter>>
  BY UplinksQuiet DEF vars
<1>3. ASSUME NEW t \in Tables, NEW l,
              UNCHANGED <<pc, phase, at, RunStatus, cds, build, CmdCounter, ErrCounter>>,
              tbs' = [tbs EXCEPT ![t] = l], LoadSound(l),
              l \in LoadState
       PROVE  AppTypes' /\ AppGuarded'
  <2>1. tbs' \in [Tables -> LoadState]
    BY <1>1, <1>3 DEF AppTypes
  <2>2. \A s \in Tables : LoadSound(tbs'[s])
    BY <1>1, <1>3 DEF AppTypes, AppGuarded
  <2>3. AppTypes'
    BY <1>1, <1>3, <2>1 DEF AppTypes
  <2>4. AppGuarded'
    BY <1>1, <1>3, <2>2 DEF AppGuarded
  <2> QED  BY <2>3, <2>4
<1>4. \A t \in Tables : /\ LoadSound(tbs[t])
                         /\ tbs[t] \in LoadState
  BY <1>1 DEF AppTypes, AppGuarded
<1>5. ASSUME NEW t \in Tables, NEW image \in LoadImages, TblLoad(t, image)
       PROVE  AppTypes' /\ AppGuarded'
  <2> DEFINE l == [tbs[t] EXCEPT !.work = image, !.checked = FALSE, !.announced = FALSE]
  <2>1. tbs' = [tbs EXCEPT ![t] = l] /\ Uplink(t) /\ tbs[t].request # "update"
    BY <1>5 DEF TblLoad
  <2>2. LoadSound(l)
    BY <1>4, <2>1, LoadedType DEF LoadSound
  <2>3. l \in LoadState
    BY <1>4 DEF LoadState
  <2> HIDE DEF l
  <2> QED  BY <1>3, <1>2, <2>1, <2>2, <2>3
<1>6. ASSUME NEW t \in Tables, TblValidate(t) \/ TblActivate(t)
       PROVE  AppTypes' /\ AppGuarded'
  <2> DEFINE l(request) == [tbs[t] EXCEPT !.request = request]
  <2>1. PICK request \in {"validate", "update"} :
          /\ tbs' = [tbs EXCEPT ![t] = l(request)] /\ Uplink(t)
          /\ tbs[t].work # NoImage /\ (request = "update" => tbs[t].checked)
    BY <1>4, <1>6 DEF TblValidate, TblActivate, LoadSound
  <2>2. LoadSound(l(request))
    BY <1>4, <2>1 DEF LoadSound
  <2>3. l(request) \in LoadState
    BY <1>4, <2>1 DEF LoadState
  <2> HIDE DEF l
  <2> QED  BY <1>3, <1>2, <2>1, <2>2, <2>3
<1> QED  BY <1>5, <1>6 DEF Uplinks

LEMMA StartUpTypes ==
  ASSUME AppInv, MD_AppInit \/ MD_InitTableServices
  PROVE  AppTypes' /\ AppGuarded'
<1>1. /\ AppTypes /\ AppGuarded /\ at \in Tables
      /\ phase \in {"init", "tables"}
      /\ UNCHANGED <<pc, tbs, build>>
      /\ 0 \in Tables
  BY Constants
  DEF AppInv, AppTypes, MD_AppInit, MD_InitTableServices, RecoverTable,
      LoadDefault, TableFails, InitTable
<1>2. /\ phase' \in {"tables", "loop"} /\ at' \in Tables
      /\ RunStatus' \in {"RUN", "ERROR"}
      /\ RunStatus' = "ERROR" => phase' = "loop"
  <2>1. CASE MD_AppInit
    BY <1>1, <2>1 DEF MD_AppInit, Fail
  <2>2. CASE MD_InitTableServices
    <3>1. phase = "tables" /\ RunStatus = "RUN"
      BY <1>1, <2>2
      DEF AppTypes, AppGuarded, MD_InitTableServices, RecoverTable,
          LoadDefault, TableFails, InitTable
    <3>2. ASSUME NEW ids, TableReady(ids)
          PROVE  /\ phase' \in {"tables", "loop"} /\ at' \in Tables
                 /\ RunStatus' \in {"RUN", "ERROR"}
                 /\ RunStatus' = "ERROR" => phase' = "loop"
      <4>1. at < NumTables - 1 => at + 1 \in Tables
        BY <1>1, Sizes DEF Tables
      <4> QED  BY <1>1, <3>1, <3>2, <4>1 DEF TableReady, Fail
    <3>3. Fail \/ \E ids : TableReady(ids)
      BY <2>2 DEF MD_InitTableServices, RecoverTable, LoadDefault, TableFails
    <3> QED  BY <1>1, <3>2, <3>3 DEF Fail
  <2> QED  BY <2>1, <2>2
<1>3. cds' \in [Tables -> TableImage \cup {NoImage}]
  <2>1. DefaultImage \in TableImage
    <3>1. DefaultImage \in BufferImage
      BY RecoverableType DEF RecoverableImages
    <3>2. BufferImage \subseteq TableImage
      BY BufferIsImage
    <3> QED  BY <3>1, <3>2
  <2>2. cds' \in {cds, [cds EXCEPT ![at] = DefaultImage]}
    BY DEF MD_AppInit, MD_InitTableServices, RecoverTable, LoadDefault, TableFails
  <2> QED  BY <1>1, <2>1, <2>2 DEF AppTypes
<1>4. CmdCounter' = 0 /\ ErrCounter' = 0
  BY DEF AppInv, AppGuarded, MD_AppInit, MD_InitTableServices, RecoverTable,
         LoadDefault, TableFails, InitTable
<1>5. pc' = "wait"
  BY <1>1 DEF AppTypes
<1> QED  BY <1>1, <1>2, <1>3, <1>4, <1>5 DEF AppTypes, AppGuarded, Phases, Serving

LEMMA ResetTypes ==
  ASSUME AppInv, NEW lost, Reset(lost)
  PROVE  AppTypes' /\ AppGuarded'
<1>1. /\ phase' = "init" /\ at' = 0 /\ RunStatus' = "RUN" /\ pc' = "wait"
      /\ tbs' = NoLoads /\ build' = build /\ build \in Builds /\ 0 \in Tables
  BY Constants DEF Reset, AppInv, AppTypes
<1>2. cds' \in [Tables -> TableImage \cup {NoImage}]
  BY DEF Reset, AppInv, AppTypes
<1> QED
  BY <1>1, <1>2
  DEF AppTypes, AppGuarded, Phases, Serving, NoLoads, NoLoad, LoadSound,
      LoadState

LEMMA AppInitInv == AppInit => AppInv
<1> SUFFICES ASSUME AppInit PROVE AppInv
  OBVIOUS
<1>1. DefaultImage \in BufferImage
  BY RecoverableType DEF RecoverableImages
<1>2. /\ ctl \in [Tables -> ControlRecord] /\ \A t \in Tables : Sound(ctl[t])
  BY SoundInitial, InitialControlType DEF AppInit
<1>3. 0 \in Tables /\ 0 \in 0..(CounterModulus - 1)
  BY Constants
<1>4. Inv
  BY <1>1, <1>2, <1>3 DEF AppInit, Inv, TypeOK, Guarded, Sound
<1>5. cds \in [Tables -> TableImage \cup {NoImage}]
  BY LoadedType DEF AppInit
<1>6. AppTypes
  BY <1>3, <1>5 DEF AppInit, AppTypes, Phases, NoLoads, NoLoad, LoadState
<1>7. AppGuarded
  BY DEF AppInit, AppGuarded, NoLoads, NoLoad, LoadSound
<1> QED  BY <1>4, <1>6, <1>7 DEF AppInv

LEMMA AppNextInv == AppInv /\ [AppNext]_allVars => AppInv'
<1> SUFFICES ASSUME AppInv, [AppNext]_allVars PROVE AppInv'
  OBVIOUS
<1>1. Inv'
  BY StreamsInv
<1>2. CASE UNCHANGED allVars
  BY <1>1, <1>2 DEF allVars, appVars, vars, AppInv, AppTypes, AppGuarded
<1>3. CASE AppNext
  <2>1. AppTypes' /\ AppGuarded'
    BY <1>1, <1>3, AppCases, ServingTypes, UplinkTypes, StartUpTypes, ResetTypes
  <2> QED  BY <1>1, <2>1 DEF AppInv
<1> QED  BY <1>2, <1>3

-----------------------------------------------------------------------------
(* Theorems                                                                *)

THEOREM AppInvariant == AppSpec => []AppInv
<1>1. AppInit => AppInv  BY AppInitInv
<1>2. AppInv /\ [AppNext]_allVars => AppInv'  BY AppNextInv
<1> QED  BY <1>1, <1>2, PTL DEF AppSpec

(* Whatever start-up recovered or failed to, whatever the ground loads in  *)
(* between, and wherever a reset strikes, the packet loop's uses of the    *)
(* Entry array stay inside the active entries.                             *)
THEOREM EntriesAlwaysInTable == AppSpec => []EntryInTable
<1>1. AppInv => EntryInTable
  BY DEF AppInv, Inv, Guarded, EntryInTable, Running, RateNeedsEntries
<1> QED  BY <1>1, AppInvariant, PTL

(* The application is the dwell streams, once it has started: in           *)
(* particular only an image that passed validation is ever activated.      *)
THEOREM StreamsImplemented == AppSpec => ImplementsStreams
<1>1. AppInv /\ [AppNext]_allVars =>
        [phase' # "init" /\ phase \in Serving => UNCHANGED vars \/ Next]_allVars
  <2> SUFFICES ASSUME AppInv, AppNext, phase' # "init", phase \in Serving
               PROVE  UNCHANGED vars \/ Next
    OBVIOUS
  <2>1. ~MD_AppInit /\ ~MD_InitTableServices
    BY DEF MD_AppInit, MD_InitTableServices, RecoverTable, LoadDefault,
           TableFails, InitTable, Serving
  <2>2. ~\E lost \in SUBSET Tables : Reset(lost)
    BY DEF Reset
  <2> QED  BY <2>1, <2>2, AppCases, ServingStep
<1> QED  BY <1>1, AppInvariant, PTL DEF AppSpec, ImplementsStreams

(* A failed MD leaves its records, its tables and the saved images alone   *)
(* and says nothing more, until it has exited.                             *)
THEOREM FailuresStop == AppSpec => FailureStops
<1>1. AppInv /\ [AppNext]_allVars =>
        [RunStatus = "ERROR" /\ phase' # "init" =>
           phase' = "exited" /\ RunStatus' = "ERROR"
             /\ UNCHANGED <<vars, cds>> /\ events' = {}]_allVars
  <2> SUFFICES ASSUME AppInv, AppNext, RunStatus = "ERROR", phase' # "init"
               PROVE  /\ phase' = "exited" /\ RunStatus' = "ERROR"
                      /\ UNCHANGED <<vars, cds>> /\ events' = {}
    OBVIOUS
  <2>1. phase \in {"loop", "exited"}
    BY DEF AppInv, AppGuarded
  <2>2. ~Uplinks
    BY <2>1
    DEF Uplinks, TblLoad, TblValidate, TblActivate, Uplink, Registered
  <2>3. ~MD_AppInit /\ ~MD_InitTableServices
    BY <2>1 DEF MD_AppInit, MD_InitTableServices, RecoverTable, LoadDefault,
                TableFails, InitTable
  <2>4. ~\E lost \in SUBSET Tables : Reset(lost)
    BY DEF Reset
  <2>5. RunLoop
    <3>1. ~MD_ManageDwellTable
      BY <2>1 DEF MD_ManageDwellTable, ValidateTable, UpdateTable, LeaveTable,
                  GetStatus
    <3>2. ~TimeOut /\ ~PipeError /\ ~MD_ProcessCommandPacket /\ ~DwellStep
      BY <2>1
      DEF TimeOut, PipeError, Handled, Receive, MD_ProcessCommandPacket,
          ScanTables, MD_HkStatus, GroundCommand, MeetStatus, BadGroundCommand,
          BadMessage, DwellStep
    <3> QED  BY <2>2, <2>3, <2>4, <3>1, <3>2, AppCases DEF MainWork
  <2> QED  BY <2>5 DEF RunLoop, Silent
<1> QED  BY <1>1, AppInvariant, PTL DEF AppSpec, FailureStops

(* Start-up gives up no saved table that is valid, and clears the          *)
(* counters, as long as the table's address can be had.                    *)
THEOREM SavedTablesKept ==
  ASSUME ~TblFaults
  PROVE  AppSpec => StartUpKeepsSaved
<1>1. AppInv /\ [AppNext]_allVars =>
        [phase' # "init" /\ phase \in {"init", "tables"} =>
           /\ CmdCounter' = 0 /\ ErrCounter' = 0
           /\ \A t \in Tables : Saved(t) => cds'[t] = cds[t]]_allVars
  <2> SUFFICES ASSUME AppInv, AppNext, phase' # "init", phase \in {"init", "tables"}
               PROVE  /\ CmdCounter' = 0 /\ ErrCounter' = 0
                      /\ \A t \in Tables : Saved(t) => cds'[t] = cds[t]
    OBVIOUS
  <2>1. ~MainWork /\ ~\E lost \in SUBSET Tables : Reset(lost)
    BY MainWorkServes DEF Serving, Reset
  <2>2. CASE MD_AppInit
    BY <2>2 DEF MD_AppInit
  <2>3. CASE Uplinks
    <3>1. phase = "tables"
      BY <2>3 DEF Uplinks, TblLoad, TblValidate, TblActivate, Uplink,
                  Registered, Serving
    <3> QED  BY <2>3, <3>1, UplinksQuiet DEF AppInv, AppGuarded, vars
  <2>4. CASE MD_InitTableServices
    <3>1. phase = "tables" /\ UNCHANGED <<CmdCounter, ErrCounter>>
      BY <2>4 DEF MD_InitTableServices, RecoverTable, LoadDefault, TableFails,
                  InitTable
    <3>2. LoadDefault => ~Saved(at)
      BY DEF LoadDefault, NotRecovered, Saved
    <3>3. cds' = cds \/ (LoadDefault /\ cds' = [cds EXCEPT ![at] = DefaultImage])
      BY <2>4 DEF MD_InitTableServices, RecoverTable, LoadDefault, TableFails
    <3>4. \A t \in Tables : Saved(t) => cds'[t] = cds[t]
      BY <3>2, <3>3 DEF AppInv, AppTypes
    <3> QED  BY <3>1, <3>4 DEF AppInv, AppGuarded
  <2> QED  BY <2>1, <2>2, <2>3, <2>4, AppCases
<1> QED  BY <1>1, AppInvariant, PTL DEF AppSpec, StartUpKeepsSaved

(* A valid saved table that is not recovered was registered, and read in   *)
(* vain: nothing else makes start-up load the default over it.             *)
THEOREM LossesTold == AppSpec => LossTold
<1>1. ASSUME AppInv, [AppNext]_allVars, phase' # "init", phase \in {"init", "tables"},
             NEW t \in Tables, Saved(t), cds'[t] # cds[t]
      PROVE  "NO_TBL_COPY_ERR" \in events'
  <2>1. cds \in [Tables -> TableImage \cup {NoImage}] /\ at \in Tables
    BY <1>1 DEF AppInv, AppTypes
  <2>2. CASE UNCHANGED allVars \/ Uplinks
    BY <1>1, <2>2, UplinksQuiet DEF allVars, appVars
  <2>3. ~MainWork
    BY <1>1, MainWorkServes DEF Serving
  <2>4. ~ \E lost \in SUBSET Tables : Reset(lost)
    BY <1>1 DEF Reset
  <2>5. CASE LoadDefault
    <3>1. t = at
      BY <1>1, <2>1, <2>5 DEF LoadDefault
    <3>2. \A ids \in NotRecovered : ids = {"NO_TBL_COPY_ERR"}
      BY <1>1, <3>1 DEF NotRecovered, Saved
    <3>3. PICK ids \in NotRecovered :
            TableReady(ids \cup ValidationEvents(DefaultImage))
      BY <2>5 DEF LoadDefault
    <3>4. ids \subseteq events'
      BY <3>3 DEF TableReady, Silent
    <3> QED  BY <3>2, <3>4
  <2>6. CASE MD_AppInit \/ RecoverTable \/ TableFails
    BY <1>1, <2>6 DEF MD_AppInit, RecoverTable, TableFails
  <2> QED
    BY <1>1, <2>2, <2>3, <2>4, <2>5, <2>6, AppCases DEF MD_InitTableServices
<1>2. AppInv /\ [AppNext]_allVars =>
        [phase' # "init" /\ phase \in {"init", "tables"} =>
           \A t \in Tables : Saved(t) /\ cds'[t] # cds[t]
                            => "NO_TBL_COPY_ERR" \in events']_allVars
  BY <1>1
<1> QED  BY <1>2, AppInvariant, PTL DEF AppSpec, LossTold

-----------------------------------------------------------------------------
(* What a reset gives back                                                 *)

(* The store has what Table Services' buffer has, and that gives back the  *)
(* stream of the record.                                                   *)
Resumes(t) == cds[t] = buf[t] /\ InStep(buf[t], ctl[t]) /\ TotalsOf(ctl[t])

(* Entries behind the terminator of a saved table are valid too; start-up  *)
(* makes one table after the other resume, out of cleared records, and     *)
(* from then on they all do.                                               *)
ResumeInv ==
  /\ \A t \in Tables :
       Saved(t) => \A i \in Entries : MD_ValidTableEntry(cds[t].Entry[i])
  /\ phase = "tables" =>
       \A t \in Tables : IF t < at THEN Resumes(t) ELSE ctl[t] = InitialControl
  /\ phase \in Serving /\ RunStatus = "RUN" => \A t \in Tables : Resumes(t)

LEMMA ResumedAreClean ==
  ASSUME \A t \in Tables : Resumes(t)
  PROVE  \A t \in Tables :
           Saved(t) => \A i \in Entries : MD_ValidTableEntry(cds[t].Entry[i])
BY DEF Resumes, InStep, EntryInStep

LEMMA ResumeInit ==
  ASSUME ValidTails, AppInit
  PROVE  ResumeInv
BY DEF ResumeInv, AppInit, Saved, ValidTails, Serving

(* What changes a buffer saves it.                                         *)
LEMMA StoreFollows ==
  ASSUME AppInv, MainWork, \A t \in Tables : cds[t] = buf[t]
  PROVE  \A t \in Tables : cds'[t] = buf'[t]
<1>1. cds \in [Tables -> TableImage \cup {NoImage}] /\ buf \in [Tables -> BufferImage]
  BY DEF AppInv, AppTypes, Inv, TypeOK
<1>2. ASSUME UNCHANGED <<buf, cds>> PROVE \A t \in Tables : cds'[t] = buf'[t]
  BY <1>2
<1>3. CASE RunLoop \/ TimeOut \/ PipeError
  BY <1>2, <1>3 DEF RunLoop, TimeOut, PipeError, vars
<1>4. CASE MD_ManageDwellTable
  <2>1. ASSUME NEW t \in Tables, ValidateTable(t) \/ LeaveTable(t)
        PROVE  UNCHANGED <<buf, cds>>
    BY <2>1 DEF ValidateTable, LeaveTable, vars
  <2>2. ASSUME NEW t \in Tables, UpdateTable(t)
        PROVE  /\ cds' = [cds EXCEPT ![t] = tbs[t].work]
               /\ buf' = [buf EXCEPT ![t] = tbs[t].work]
    BY <2>2 DEF UpdateTable, CopyTable, MissCopy
  <2> QED  BY <1>1, <1>2, <1>4, <2>1, <2>2 DEF MD_ManageDwellTable
<1>5. CASE MD_ProcessCommandPacket
  <2>1. CASE GroundCommand
    <3>1. \A t \in Tables : cds'[t] = IF buf'[t] = buf[t] THEN cds[t] ELSE buf'[t]
      BY <2>1 DEF GroundCommand, Modified
    <3> QED  BY <3>1
  <2>2. CASE \/ ScanTables \/ MD_HkStatus
             \/ MeetStatus \/ BadGroundCommand \/ BadMessage
    BY <1>2, <2>2 DEF ScanTables, Wakeup, MD_HkStatus, MeetStatus,
                      BadGroundCommand, BadMessage, RefuseMessage, vars
  <2> QED  BY <1>5, <2>1, <2>2 DEF MD_ProcessCommandPacket
<1>6. CASE DwellStep
  BY <1>2, <1>6 DEF DwellStep, SkipTable, FlushPacket, CountDown, Collect
<1> QED  BY <1>3, <1>4, <1>5, <1>6 DEF MainWork

(* A failed MD exits.                                                      *)
LEMMA FailedWork ==
  ASSUME AppInv, MainWork, RunStatus = "ERROR"
  PROVE  phase' = "exited" /\ cds' = cds
<1>1. phase = "loop"
  BY MainWorkServes DEF AppInv, AppGuarded, Serving
<1>2. ~MD_ManageDwellTable
  BY <1>1 DEF MD_ManageDwellTable, ValidateTable, UpdateTable, LeaveTable, GetStatus
<1>3. RunLoop
  BY <1>1, <1>2
  DEF MainWork, TimeOut, PipeError, Handled, Receive, MD_ProcessCommandPacket,
      ScanTables, MD_HkStatus, GroundCommand, MeetStatus, BadGroundCommand,
      BadMessage, DwellStep
<1> QED  BY <1>3 DEF RunLoop

LEMMA ResumeWork ==
  ASSUME ValidTails, ~TblFaults, AppInv, ResumeInv, MainWork
  PROVE  ResumeInv'
<1>1. phase \in Serving /\ Inv
  BY MainWorkServes DEF AppInv
<1>2. CASE RunStatus = "ERROR"
  <2>1. phase' = "exited" /\ cds' = cds
    BY <1>2, FailedWork
  <2> QED  BY <2>1 DEF ResumeInv, Saved, Serving
<1>3. CASE RunStatus = "RUN"
  <2>1. \A t \in Tables : Resumes(t)
    BY <1>1, <1>3 DEF ResumeInv
  <2>2. StepInv /\ Totals
    BY <2>1 DEF Resumes, StepInv, Totals
  <2>3. [Next]_vars
    BY ServingStep
  <2>4. StepInv' /\ Totals'
    BY <1>1, <2>2, <2>3, StepNext, TotalsNext
  <2>5. \A t \in Tables : cds'[t] = buf'[t]
    BY <2>1, StoreFollows DEF Resumes
  <2>6. \A t \in Tables : Resumes(t)'
    BY <2>4, <2>5 DEF Resumes, StepInv, Totals
  <2>7. phase' # "tables"
    BY MainWorkServes
  <2>8. \A t \in Tables :
          Saved(t)' => \A i \in Entries : MD_ValidTableEntry(cds'[t].Entry[i])
    BY <2>6 DEF Resumes, InStep, EntryInStep
  <2> QED  BY <2>6, <2>7, <2>8 DEF ResumeInv
<1> QED  BY <1>2, <1>3 DEF AppInv, AppTypes

LEMMA ResumeStartUp ==
  ASSUME ValidTails, ~TblFaults, AppInv, ResumeInv,
         MD_AppInit \/ MD_InitTableServices
  PROVE  ResumeInv'
<1> DEFINE Clean(image) ==
             MD_TableValidationFunc(image) =>
               \A i \in Entries : MD_ValidTableEntry(image.Entry[i])
<1>1. CASE MD_AppInit
  <2>1. /\ cds' = cds /\ \A t \in Tables : ctl'[t] = InitialControl
        /\ \/ phase' = "tables" /\ at' = 0
           \/ phase' = "loop" /\ RunStatus' = "ERROR"
    BY <1>1 DEF MD_AppInit, Fail
  <2>2. \A t \in Tables : ~(t < 0)
    BY Constants
  <2> QED  BY <2>1, <2>2 DEF ResumeInv, Saved, Serving
<1>2. CASE TableFails
  BY <1>2 DEF TableFails, Fail, ResumeInv, Saved, Serving
<1>3. ASSUME NEW r, NEW b, InitTable, \E ids : TableReady(ids),
             ctl' = [ctl EXCEPT ![at] = r], buf' = [buf EXCEPT ![at] = b],
             cds' = [cds EXCEPT ![at] = b], InStep(b, r), TotalsOf(r)
      PROVE  ResumeInv'
  <2>1. /\ at \in Tables /\ ctl \in [Tables -> ControlRecord]
        /\ buf \in [Tables -> BufferImage]
        /\ cds \in [Tables -> TableImage \cup {NoImage}]
        /\ phase = "tables"
    BY <1>3 DEF AppInv, AppTypes, Inv, TypeOK, InitTable
  <2> PICK k \in Tables : k = at
    BY <2>1
  <2>2. /\ cds'[k] = b /\ buf'[k] = b /\ ctl'[k] = r
        /\ \A t \in Tables \ {k} :
             cds'[t] = cds[t] /\ buf'[t] = buf[t] /\ ctl'[t] = ctl[t]
    BY <1>3, <2>1
  <2>3. Resumes(k)'
    BY <1>3, <2>2 DEF Resumes
  <2>4. \A t \in Tables : IF t < at THEN Resumes(t)' 
                          ELSE t = k \/ ctl'[t] = InitialControl
    BY <2>1, <2>2, Constants DEF ResumeInv, Resumes
  <2>5. \A t \in Tables :
          Saved(t)' => \A i \in Entries : MD_ValidTableEntry(cds'[t].Entry[i])
    BY <1>3, <2>1, <2>2 DEF ResumeInv, Saved, InStep, EntryInStep
  <2>6. \/ phase' = "tables" /\ at' = at + 1
        \/ phase' = "loop" /\ at = NumTables - 1
    BY <1>3 DEF TableReady, Fail
  <2>7. CASE phase' = "tables" /\ at' = at + 1
    <3>1. \A t \in Tables : IF t < at' THEN Resumes(t)' ELSE ctl'[t] = InitialControl
      BY <2>1, <2>3, <2>4, <2>7, Constants
    <3> QED  BY <2>5, <2>7, <3>1 DEF ResumeInv, Serving
  <2>8. CASE phase' = "loop" /\ at = NumTables - 1
    <3>1. \A t \in Tables : t < at \/ t = at
      BY <2>8, Sizes DEF Tables
    <3>2. \A t \in Tables : Resumes(t)'
      BY <2>3, <2>4, <3>1
    <3> QED  BY <2>5, <2>8, <3>2 DEF ResumeInv
  <2> QED  BY <2>6, <2>7, <2>8
<1>4. ASSUME InitTable
      PROVE  ctl[at] = InitialControl /\ at \in Tables /\ InitialControl \in ControlRecord
  BY <1>4, InitialControlType, Constants
  DEF InitTable, ResumeInv, AppInv, AppTypes
<1>5. CASE RecoverTable
  <2> DEFINE r == Activated(InitialControl, cds[at])
  <2>1. InitTable /\ Saved(at)
    BY <1>5 DEF RecoverTable, Saved
  <2>2. cds[at] \in BufferImage
    BY <1>4, <2>1, ValidImageType DEF Saved, AppInv, AppTypes
  <2>3. InStep(cds[at], r) /\ TotalsOf(r)
    BY <1>4, <2>1, <2>2, ActivatedInStep, ActivatedTotals DEF ResumeInv
  <2>4. /\ ctl' = [ctl EXCEPT ![at] = r] /\ buf' = [buf EXCEPT ![at] = cds[at]]
        /\ cds' = [cds EXCEPT ![at] = cds[at]] /\ \E ids : TableReady(ids)
    BY <1>4, <1>5, <2>1 DEF RecoverTable, AppInv, AppTypes
  <2> HIDE DEF r
  <2> QED  BY <1>3, <2>1, <2>3, <2>4
<1>6. CASE LoadDefault
  <2> DEFINE r == MD_UpdateDwellControlInfo(InitialControl)
  <2>1. InitTable
    BY <1>6 DEF LoadDefault
  <2>2. [ctl[at] EXCEPT !.Enabled = Dwell_DISABLED] = InitialControl
    BY <1>4, <2>1 DEF InitialControl
  <2>3. InStep(DefaultImage, r) /\ TotalsOf(r)
    BY <1>4, <2>1, InitialInStep, UpdatedInStep, UpdateInfoTotals
  <2>4. /\ ctl' = [ctl EXCEPT ![at] = r] /\ buf' = [buf EXCEPT ![at] = DefaultImage]
        /\ cds' = [cds EXCEPT ![at] = DefaultImage] /\ \E ids : TableReady(ids)
    BY <1>6, <2>2 DEF LoadDefault
  <2> HIDE DEF r
  <2> QED  BY <1>3, <2>1, <2>3, <2>4
<1> QED  BY <1>1, <1>2, <1>5, <1>6 DEF MD_InitTableServices

LEMMA ResumeNext ==
  ASSUME ValidTails, ~TblFaults, AppInv, ResumeInv, [AppNext]_allVars
  PROVE  ResumeInv'
<1>1. CASE UNCHANGED allVars
  BY <1>1 DEF allVars, appVars, vars, ResumeInv, Resumes, Saved
<1>2. CASE Uplinks
  BY <1>2, UplinksQuiet DEF vars, ResumeInv, Resumes, Saved
<1>3. ASSUME NEW lost \in SUBSET Tables, Reset(lost) PROVE ResumeInv'
  <2>1. phase' = "init" /\ \A t \in Tables : cds'[t] \in {NoImage, cds[t]}
    BY <1>3 DEF Reset
  <2>2. \A t \in Tables : Saved(t)' => Saved(t) /\ cds'[t] = cds[t]
    BY <2>1 DEF Saved
  <2> QED  BY <2>1, <2>2 DEF ResumeInv, Serving
<1> QED  BY <1>1, <1>2, <1>3, AppCases, ResumeWork, ResumeStartUp

(* A reset at any moment between two messages would give back every stream *)
(* as it is: what start-up recovers or saves is in step with the record it *)
(* makes, and whatever later changes one changes and saves the other.      *)
THEOREM ResetsResume ==
  ASSUME ValidTails, ~TblFaults
  PROVE  AppSpec => []ResetResumes
<1>1. AppInit => ResumeInv
  BY ResumeInit
<1>2. AppInv /\ ResumeInv /\ [AppNext]_allVars => ResumeInv'
  BY ResumeNext
<1>3. AppInv /\ ResumeInv => ResetResumes
  <2> SUFFICES ASSUME AppInv, ResumeInv, phase \in Serving, RunStatus = "RUN",
                      NEW t \in Tables
               PROVE  cds[t] # NoImage /\ Restores(cds[t], ctl[t])
    BY DEF ResetResumes
  <2>1. Resumes(t)
    BY DEF ResumeInv
  <2>2. cds[t] \in TableImage
    BY <2>1, BufferIsImage DEF Resumes, AppInv, Inv, TypeOK
  <2> QED  BY <2>1, <2>2, LoadedType, InStepRestores DEF Resumes
<1> QED  BY <1>1, <1>2, <1>3, AppInvariant, PTL DEF AppSpec

-----------------------------------------------------------------------------
(* What the streams promise, of the application                            *)

(* What start-up does to the records: clears all, or makes one anew.       *)
LEMMA StartUpRecords ==
  ASSUME AppInv, MD_AppInit \/ MD_InitTableServices
  PROVE  /\ pc = "wait" /\ UNCHANGED <<pc, cur, tlm, collected, disturbed, sent>>
         /\ \/ MD_AppInit /\ \A t \in Tables : ctl'[t] = InitialControl
            \/ phase = "tables" /\ ctl' = ctl
            \/ /\ phase = "tables" /\ at \in Tables /\ ctl[at] \in ControlRecord
               /\ \E r : /\ ctl' = [ctl EXCEPT ![at] = r]
                         /\ \/ /\ Saved(at) /\ cds[at] \in BufferImage
                               /\ r = Activated(ctl[at], cds[at])
                            \/ r = MD_UpdateDwellControlInfo(
                                     [ctl[at] EXCEPT !.Enabled = Dwell_DISABLED])
<1>1. /\ at \in Tables /\ ctl[at] \in ControlRecord
      /\ phase \in {"init", "tables"} => pc = "wait"
  BY DEF AppInv, AppTypes, Inv, TypeOK
<1>2. CASE MD_AppInit
  BY <1>1, <1>2 DEF MD_AppInit
<1>3. CASE TableFails
  BY <1>1, <1>3 DEF TableFails, InitTable
<1>4. CASE RecoverTable
  <2>1. Saved(at) /\ cds[at] \in BufferImage
    BY <1>4, <1>1, ValidImageType DEF RecoverTable, Saved, AppInv, AppTypes
  <2> QED  BY <1>1, <1>4, <2>1 DEF RecoverTable, InitTable
<1>5. CASE LoadDefault
  BY <1>1, <1>5 DEF LoadDefault, InitTable
<1> QED  BY <1>2, <1>3, <1>4, <1>5 DEF MD_InitTableServices

LEMMA DisabledType ==
  ASSUME NEW c \in ControlRecord
  PROVE  [c EXCEPT !.Enabled = Dwell_DISABLED] \in ControlRecord
BY DEF ControlRecord

LEMMA AppTotals ==
  ASSUME ~TblFaults, AppInv, Totals, SentInv, [AppNext]_allVars
  PROVE  Totals' /\ SentInv'
<1>1. CASE MainWork \/ Uplinks \/ UNCHANGED allVars
  <2>1. [Next]_vars
    BY <1>1, ServingStep DEF allVars
  <2> QED  BY <2>1, TotalsNext, SentNext DEF AppInv
<1>2. CASE MD_AppInit \/ MD_InitTableServices
  <2>1. SentInv'
    BY <1>2, StartUpRecords DEF SentInv, SentInScan, OnePacketPerWakeup
  <2>2. ASSUME NEW r, TotalsOf(r), ctl' = [ctl EXCEPT ![at] = r] PROVE Totals'
    BY <2>2 DEF Totals, AppInv, Inv, TypeOK
  <2>3. CASE \A t \in Tables : ctl'[t] = InitialControl
    BY <2>1, <2>3, InitialControlTotals DEF Totals
  <2>4. CASE ctl' = ctl
    BY <2>1, <2>4 DEF Totals
  <2>5. ASSUME ctl[at] \in ControlRecord, cds[at] \in BufferImage,
               ctl' = [ctl EXCEPT ![at] = Activated(ctl[at], cds[at])]
        PROVE  Totals'
    BY <2>2, <2>5, ActivatedTotals
  <2>6. ASSUME ctl[at] \in ControlRecord,
               ctl' = [ctl EXCEPT ![at] = MD_UpdateDwellControlInfo(
                         [ctl[at] EXCEPT !.Enabled = Dwell_DISABLED])]
        PROVE  Totals'
    BY <2>2, <2>6, DisabledType, UpdateInfoTotals
  <2> QED  BY <1>2, <2>1, <2>3, <2>4, <2>5, <2>6, StartUpRecords
<1>3. ASSUME NEW lost, Reset(lost) PROVE Totals' /\ SentInv'
  BY <1>3 DEF Reset, Totals, TotalsOf, SentInv, SentInScan, OnePacketPerWakeup
<1> QED  BY <1>1, <1>2, <1>3, AppCases

LEMMA AppTotalsInvariant ==
  ASSUME ~TblFaults
  PROVE  AppSpec => [](Totals /\ SentInv)
<1>1. AppInit => Totals /\ SentInv
  BY InitialControlTotals
  DEF AppInit, Totals, SentInv, SentInScan, OnePacketPerWakeup
<1>2. AppInv /\ Totals /\ SentInv /\ [AppNext]_allVars => Totals' /\ SentInv'
  BY AppTotals
<1> QED  BY <1>1, <1>2, AppInvariant, PTL DEF AppSpec

(* Whatever start-up recovers, the ground loads and a reset interrupts, a  *)
(* record's totals are those of its entries, and a wakeup sends at most    *)
(* one packet of a table.                                                  *)
THEOREM AppTotalsCurrent ==
  ASSUME ~TblFaults
  PROVE  AppSpec => [](TotalsCurrent /\ OnePacketPerWakeup)
<1>1. AppInv /\ Totals /\ SentInv => TotalsCurrent /\ OnePacketPerWakeup
  BY TotalsAreCurrent DEF AppInv, SentInv
<1> QED  BY <1>1, AppInvariant, AppTotalsInvariant, PTL

(* What packets hold.  From a reset to the clearing of the records nothing *)
(* is collected, though the records still show the packets begun before.   *)
KeptInv ==
  /\ FieldsInv /\ PacketComplete
  /\ phase # "init" => ContentsInv
  /\ phase \in {"init", "tables"} => \A t \in Tables : collected[t] = {}

LEMMA DisabledContents ==
  ASSUME NEW c, c.Enabled # Dwell_ENABLED, NEW bytes, NEW spoilt
  PROVE  ContentsOf(c, bytes, spoilt)
BY DEF ContentsOf

LEMMA InitialContents == \A bytes, spoilt : ContentsOf(InitialControl, bytes, spoilt)
BY DisabledContents DEF InitialControl, Dwell_ENABLED, Dwell_DISABLED

LEMMA KeptStartUp ==
  ASSUME AppInv, ResumeInv, KeptInv, MD_AppInit \/ MD_InitTableServices
  PROVE  KeptInv'
<1>1. /\ UNCHANGED <<pc, cur, tlm, collected, disturbed, sent>>
      /\ \A t \in Tables : collected[t] = {}
      /\ ctl \in [Tables -> ControlRecord]
  BY StartUpRecords
  DEF KeptInv, AppInv, Inv, TypeOK, MD_AppInit, MD_InitTableServices, RecoverTable,
      LoadDefault, TableFails, InitTable
<1>2. PacketComplete'
  BY <1>1 DEF KeptInv, PacketComplete
<1>3. ASSUME FieldsInv', \A t \in Tables : ContentsOf(ctl[t], collected[t], disturbed[t])'
      PROVE  KeptInv'
  BY <1>1, <1>2, <1>3 DEF KeptInv, ContentsInv
<1>4. CASE \A t \in Tables : ctl'[t] = InitialControl
  BY <1>3, <1>4, FieldsInitial, InitialContents DEF FieldsInv
<1>5. CASE phase = "tables" /\ ctl' = ctl
  BY <1>1, <1>3, <1>5 DEF KeptInv, ContentsInv, FieldsInv
<1>6. ASSUME phase = "tables", at \in Tables,
             NEW r, ctl' = [ctl EXCEPT ![at] = r], Fields(r),
             \A spoilt : ContentsOf(r, {}, spoilt)
      PROVE  KeptInv'
  <2>1. FieldsInv'
    BY <1>1, <1>6 DEF KeptInv, FieldsInv
  <2>2. \A t \in Tables : ContentsOf(ctl[t], collected[t], disturbed[t])'
    BY <1>1, <1>6 DEF KeptInv, ContentsInv
  <2> QED  BY <1>3, <2>1, <2>2
<1>7. ASSUME phase = "tables", at \in Tables, ctl[at] \in ControlRecord,
             Saved(at), cds[at] \in BufferImage,
             ctl' = [ctl EXCEPT ![at] = Activated(ctl[at], cds[at])]
      PROVE  KeptInv'
  <2> DEFINE r == Activated(ctl[at], cds[at])
  <2>1. Fields(r)
    <3>1. Fields(ctl[at]) /\ \A i \in Entries : MD_ValidTableEntry(cds[at].Entry[i])
      BY <1>7 DEF KeptInv, FieldsInv, ResumeInv
    <3> QED  BY <1>7, <3>1, FieldsActivated
  <2>2. ASSUME NEW spoilt PROVE ContentsOf(r, {}, spoilt)
    BY <1>7, ActivatedFresh, FreshContents, DisabledContents
  <2> HIDE DEF r
  <2> QED  BY <1>6, <1>7, <2>1, <2>2 DEF r
<1>8. ASSUME phase = "tables", at \in Tables, ctl[at] \in ControlRecord,
             ctl' = [ctl EXCEPT ![at] = MD_UpdateDwellControlInfo(
                       [ctl[at] EXCEPT !.Enabled = Dwell_DISABLED])]
      PROVE  KeptInv'
  <2> DEFINE c == [ctl[at] EXCEPT !.Enabled = Dwell_DISABLED]
             r == MD_UpdateDwellControlInfo(c)
  <2>1. c \in ControlRecord /\ c.Enabled = Dwell_DISABLED
    BY <1>8, DisabledType DEF ControlRecord
  <2>2. Fields(c)
    BY <1>8 DEF KeptInv, FieldsInv, Fields, ControlRecord
  <2>3. Fields(r) /\ r.Enabled = Dwell_DISABLED
    <3> HIDE DEF c
    <3> QED  BY <2>1, <2>2, FieldsUpdated, UpdateInfoFields
  <2>4. \A spoilt : ContentsOf(r, {}, spoilt)
    <3> HIDE DEF r
    <3> QED  BY <2>3, DisabledContents DEF Dwell_ENABLED, Dwell_DISABLED
  <2> QED  BY <1>6, <1>8, <2>3, <2>4
<1> QED  BY <1>4, <1>5, <1>7, <1>8, StartUpRecords

LEMMA KeptNext ==
  ASSUME ValidTails, ~TblFaults, AppInv, Totals, ResumeInv, KeptInv, [AppNext]_allVars
  PROVE  KeptInv'
<1>1. CASE UNCHANGED allVars \/ Uplinks
  <2>1. UNCHANGED vars /\ phase' = phase
    BY <1>1, UplinksQuiet DEF allVars, appVars
  <2> QED
    BY <2>1 DEF vars, KeptInv, FieldsInv, ContentsInv, PacketComplete
<1>2. CASE MainWork
  <2>1. [Next]_vars /\ phase # "init" /\ phase' \notin {"init", "tables"} /\ Inv
    BY <1>2, ServingStep, MainWorkServes DEF AppInv, Serving
  <2>2. FieldsInv' /\ ContentsInv'
    BY <2>1, FieldsNext, ContentsNext DEF KeptInv
  <2> QED  BY <2>1, <2>2 DEF KeptInv, ContentsInv
<1>3. CASE MD_AppInit \/ MD_InitTableServices
  BY <1>3, KeptStartUp
<1>4. ASSUME NEW lost, Reset(lost) PROVE KeptInv'
  BY <1>4 DEF Reset, KeptInv, FieldsInv, PacketComplete
<1> QED  BY <1>1, <1>2, <1>3, <1>4, AppCases

(* Through loads and resets alike, the packet loop reads only what passed  *)
(* the validity checks, writes only into the packet, and sends packets     *)
(* that hold the bytes they announce.                                      *)
THEOREM AppPackets ==
  ASSUME ValidTails, ~TblFaults
  PROVE  AppSpec => [](CollectsReadable /\ WritesInPacket /\ PacketComplete)
<1>1. AppInit => ResumeInv /\ KeptInv
  <2> SUFFICES ASSUME AppInit PROVE KeptInv
    BY ResumeInit
  <2>1. FieldsInv
    BY FieldsInitial DEF AppInit, FieldsInv
  <2> QED  BY <2>1 DEF AppInit, KeptInv, PacketComplete
<1>2. AppInv /\ ResumeInv /\ [AppNext]_allVars => ResumeInv'
  BY ResumeNext
<1>3. AppInv /\ Totals /\ ResumeInv /\ KeptInv /\ [AppNext]_allVars => KeptInv'
  BY KeptNext
<1>4. AppInv /\ Totals /\ KeptInv => CollectsReadable /\ WritesInPacket /\ PacketComplete
  BY FieldsRead, FieldsFit DEF AppInv, KeptInv
<1> QED  BY <1>1, <1>2, <1>3, <1>4, AppInvariant, AppTotalsInvariant, PTL DEF AppSpec

(* A wakeup's scan of the tables comes closer to its end with every table  *)
(* and entry it deals with, whatever loads or resets come in between.      *)
THEOREM AppScansApproachEnd ==
  ASSUME ~TblFaults
  PROVE  AppSpec => ScanApproachesEnd
<1>1. AppInv /\ OnePacketPerWakeup'
        => [MD_DwellLoop => ScanLeft' < ScanLeft /\ ScanLeft' \in Nat]_vars
  BY ScanShrinks DEF AppInv
<1>2. AppSpec => []AppInv /\ []OnePacketPerWakeup
  BY AppInvariant, AppTotalsCurrent, PTL
<1> QED  BY <1>1, <1>2, PTL DEF ScanApproachesEnd

(* Countdowns.  A reset may come while a due entry is read, its countdown  *)
(* at zero: only the clearing of the records, and no wakeup, comes next.   *)
AppCountInv == WaitsWithinDelay /\ (phase # "init" => CountInv)

LEMMA StartUpCounts ==
  ASSUME AppInv, AppCountInv, MD_AppInit \/ MD_InitTableServices
  PROVE  CountInv'
<1>1. pc' = "wait" /\ ctl \in [Tables -> ControlRecord]
  BY StartUpRecords DEF AppInv, Inv, TypeOK
<1>2. ASSUME \A t \in Tables : Waiting(ctl'[t]) PROVE CountInv'
  BY <1>1, <1>2 DEF CountInv, Waiting
<1>3. CASE \A t \in Tables : ctl'[t] = InitialControl
  BY <1>2, <1>3 DEF Waiting, InitialControl
<1>4. ASSUME phase = "tables" PROVE \A t \in Tables : Waiting(ctl[t])
  BY <1>4, StartUpRecords DEF AppCountInv, CountInv
<1>5. CASE phase = "tables" /\ ctl' = ctl
  BY <1>2, <1>4, <1>5
<1>6. ASSUME phase = "tables", at \in Tables,
             NEW r, ctl' = [ctl EXCEPT ![at] = r], Waiting(r)
      PROVE  CountInv'
  BY <1>1, <1>2, <1>4, <1>6
<1>7. ASSUME phase = "tables", at \in Tables, ctl[at] \in ControlRecord,
             cds[at] \in BufferImage,
             ctl' = [ctl EXCEPT ![at] = Activated(ctl[at], cds[at])]
      PROVE  CountInv'
  BY <1>6, <1>7, ActivatedWaits
<1>8. ASSUME phase = "tables", at \in Tables, ctl[at] \in ControlRecord,
             ctl' = [ctl EXCEPT ![at] = MD_UpdateDwellControlInfo(
                       [ctl[at] EXCEPT !.Enabled = Dwell_DISABLED])]
      PROVE  CountInv'
  <2> DEFINE c == [ctl[at] EXCEPT !.Enabled = Dwell_DISABLED]
  <2>1. c \in ControlRecord /\ c.Enabled = Dwell_DISABLED
    BY <1>8, DisabledType DEF ControlRecord
  <2>2. MD_UpdateDwellControlInfo(c).Enabled = Dwell_DISABLED
    <3> HIDE DEF c
    <3> QED  BY <2>1, UpdateInfoFields
  <2> HIDE DEF c
  <2>3. Waiting(MD_UpdateDwellControlInfo(c))
    BY <2>2 DEF Waiting, Dwell_ENABLED, Dwell_DISABLED
  <2> QED  BY <1>6, <1>8, <2>3 DEF c
<1> QED  BY <1>3, <1>5, <1>7, <1>8, StartUpRecords

LEMMA CountsShort == Inv' /\ CountInv' => WaitsWithinDelay'
BY CountIsShort, PTL

LEMMA AppCounts ==
  ASSUME AppInv, AppCountInv, [AppNext]_allVars, [~FlushAtZero]_vars, Inv'
  PROVE  AppCountInv'
<1>1. CASE UNCHANGED allVars \/ Uplinks
  <2>1. UNCHANGED vars /\ phase' = phase
    BY <1>1, UplinksQuiet DEF allVars, appVars
  <2> QED  BY <2>1 DEF vars, AppCountInv, CountInv, WaitsWithinDelay
<1>2. CASE MainWork
  <2>1. [Next]_vars /\ phase # "init" /\ Inv
    BY <1>2, ServingStep, MainWorkServes DEF AppInv, Serving
  <2>2. CountInv'
    BY <2>1, CountNext DEF AppCountInv
  <2> QED  BY <2>2, CountsShort DEF AppCountInv
<1>3. CASE MD_AppInit \/ MD_InitTableServices
  BY <1>3, StartUpCounts, CountsShort DEF AppCountInv
<1>4. ASSUME NEW lost, Reset(lost) PROVE AppCountInv'
  BY <1>4 DEF Reset, AppCountInv, WaitsWithinDelay
<1> QED  BY <1>1, <1>2, <1>3, <1>4, AppCases

(* Resets, recoveries and loads start no countdown at zero either.         *)
THEOREM AppWaitsAreShort ==
  AppSpec /\ [][~FlushAtZero]_vars => []WaitsWithinDelay
<1>1. AppInit => AppCountInv
  BY DEF AppInit, AppCountInv, CountInv, WaitsWithinDelay, Waiting, Running, InitialControl
<1>2. AppInv /\ AppInv' /\ AppCountInv /\ [AppNext]_allVars /\ [~FlushAtZero]_vars
        => AppCountInv'
  BY AppCounts DEF AppInv
<1>3. AppCountInv => WaitsWithinDelay
  BY DEF AppCountInv
<1> QED  BY <1>1, <1>2, <1>3, AppInvariant, PTL DEF AppSpec

-----------------------------------------------------------------------------
(* The way back to the pipe                                                *)

LEMMA ScanLeftType ==
  ASSUME Inv, pc # "wait"
  PROVE  ScanLeft \in Int
<1>1. /\ TypeOK /\ cur \in Tables /\ TableSize \in Nat /\ Visits \in Nat
      /\ ctl \in [Tables -> ControlRecord] /\ pc \in {"scan", "collect"}
  BY Sizes, VisitsLeft DEF Inv, TypeOK
<1>2. CASE pc = "scan"
  BY <1>1, <1>2, VisitsLeft DEF ScanLeft
<1>3. CASE pc = "collect"
  <2> DEFINE round == IF sent[cur] = 0 THEN TableSize ELSE 0
             entry == ctl[cur].CurrentEntry
  <2>1. ScanLeft = Visits + round + (TableSize - entry)
    BY <1>3 DEF ScanLeft, Visits
  <2>2. entry \in Int /\ round \in Int
    BY <1>1 DEF ControlRecord
  <2> HIDE DEF entry, round
  <2> QED  BY <1>1, <2>1, <2>2
<1> QED  BY <1>1, <1>2, <1>3

LEMMA AtRange ==
  ASSUME AppInv
  PROVE  /\ at \in 0..(NumTables - 1) /\ NumTables \in Nat /\ NumTables >= 1
         /\ phase = "loop" => PipeLeft = 2 * NumTables + 1
BY Sizes DEF AppInv, AppTypes, Tables, PipeLeft

(* A validation is done with, or the next table comes.                     *)
LEMMA ManageNears ==
  ASSUME AppInv, MD_ManageDwellTable
  PROVE  PipeLeft' < PipeLeft /\ PipeLeft' \in Nat
<1> DEFINE pending == \E t \in Tables : t = at /\ tbs[t].request = "validate"
           bit == IF pending THEN 0 ELSE 1
<1>1. /\ at \in 0..(NumTables - 1) /\ NumTables \in Nat /\ at \in Tables
      /\ tbs \in [Tables -> LoadState]
  BY AtRange DEF AppInv, AppTypes, Tables
<1>2. phase = "manage" /\ PipeLeft = 2 * (NumTables - at) - bit
  BY DEF MD_ManageDwellTable, ValidateTable, UpdateTable, LeaveTable, GetStatus, PipeLeft
<1>3. bit \in {0, 1} /\ bit' \in {0, 1}
  OBVIOUS
<1>4. CASE ValidateTable(at)
  <2>1. phase' = "manage" /\ at' = at /\ bit = 0
    BY <1>1, <1>4 DEF ValidateTable, GetStatus
  <2>2. tbs'[at].request = "none"
    BY <1>1, <1>4 DEF ValidateTable, LoadState
  <2>3. bit' = 1 /\ PipeLeft' = 2 * (NumTables - at) - bit'
    BY <2>1, <2>2 DEF PipeLeft
  <2> HIDE DEF bit
  <2> QED  BY <1>1, <1>2, <2>1, <2>3
<1>5. CASE Managed
  <2>1. CASE at = NumTables - 1
    <3>1. PipeLeft' = 0
      BY <1>5, <2>1 DEF Managed, PipeLeft
    <3> HIDE DEF bit
    <3> QED  BY <1>1, <1>2, <1>3, <2>1, <3>1
  <2>2. CASE at # NumTables - 1
    <3>1. phase' = "manage" /\ at' = at + 1
      BY <1>2, <1>5, <2>2 DEF Managed
    <3>2. PipeLeft' = 2 * (NumTables - (at + 1)) - bit'
      BY <3>1 DEF PipeLeft
    <3>3. /\ NumTables - (at + 1) \in Nat /\ NumTables - (at + 1) >= 1
          /\ NumTables - at = (NumTables - (at + 1)) + 1
      BY <1>1, <2>2
    <3> DEFINE left == NumTables - (at + 1)
    <3>4. /\ left \in Nat /\ left >= 1 /\ PipeLeft = 2 * (left + 1) - bit
          /\ PipeLeft' = 2 * left - bit'
      BY <1>2, <3>2, <3>3
    <3>5. PICK b \in {0, 1}, d \in {0, 1} :
            PipeLeft = 2 * (left + 1) - b /\ PipeLeft' = 2 * left - d
      BY <1>3, <3>4
    <3> HIDE DEF bit, left
    <3> QED  BY <3>4, <3>5
  <2> QED  BY <2>1, <2>2
<1> QED
  BY <1>4, <1>5 DEF MD_ManageDwellTable, ValidateTable, UpdateTable, LeaveTable, GetStatus

LEMMA PipeNears ==
  ASSUME AppInv, OnePacketPerWakeup', MD_AppMain, phase # "receive"
  PROVE  PipeLeft' < PipeLeft /\ PipeLeft' \in Nat
<1> DEFINE round == 2 * NumTables + 1
<1>1. at \in 0..(NumTables - 1) /\ NumTables \in Nat /\ NumTables >= 1
  BY AtRange
<1>2. phase' = "loop" => PipeLeft' = round
  BY DEF PipeLeft
<1>3. CASE MD_AppInit
  <2>1. PipeLeft = round + NumTables + 1
    BY <1>3 DEF MD_AppInit, PipeLeft
  <2>2. PipeLeft' = round + NumTables \/ PipeLeft' = round
    BY <1>1, <1>2, <1>3 DEF MD_AppInit, Fail, PipeLeft
  <2> QED  BY <1>1, <2>1, <2>2
<1>4. CASE MD_InitTableServices
  <2>1. PipeLeft = round + NumTables - at
    BY <1>4 DEF MD_InitTableServices, RecoverTable, LoadDefault, TableFails, InitTable,
                PipeLeft
  <2>2. \/ at < NumTables - 1 /\ phase' = "tables" /\ at' = at + 1
        \/ phase' = "loop"
    BY <1>4 DEF MD_InitTableServices, RecoverTable, LoadDefault, TableFails, TableReady, Fail
  <2>3. PipeLeft' = round + NumTables - (at + 1) \/ PipeLeft' = round
    BY <1>2, <2>2 DEF PipeLeft
  <2> QED  BY <1>1, <2>1, <2>2, <2>3
<1>5. CASE RunLoop
  <2>1. PipeLeft = round
    BY <1>5 DEF RunLoop, PipeLeft
  <2>2. \/ phase' = "exited" /\ PipeLeft' = 0
        \/ /\ phase' = "manage" /\ at' = 0
           /\ PipeLeft' = 2 * NumTables \/ PipeLeft' = 2 * NumTables - 1
    BY <1>1, <1>5 DEF RunLoop, PipeLeft
  <2> QED  BY <1>1, <2>1, <2>2
<1>6. CASE MD_ManageDwellTable
  BY <1>6, ManageNears
<1>7. CASE DwellStep
  <2>1. phase = "dwell" /\ MD_DwellLoop /\ PipeLeft = round + ScanLeft
    BY <1>7 DEF DwellStep, MD_DwellLoop, PipeLeft
  <2>2. ScanLeft' < ScanLeft /\ ScanLeft' \in Nat
    BY <2>1, ScanShrinks DEF AppInv
  <2>3. ScanLeft \in Int
    <3>1. Inv /\ pc # "wait"
      BY <2>1 DEF AppInv, AppTypes
    <3> QED  BY <3>1, ScanLeftType
  <2>4. PipeLeft' = round \/ PipeLeft' = round + ScanLeft'
    BY <1>2, <1>7 DEF DwellStep, PipeLeft
  <2> QED  BY <1>1, <2>1, <2>2, <2>3, <2>4
<1>8. CASE MeetStatus
  <2>1. PipeLeft = round + 1 /\ PipeLeft' = round
    BY <1>2, <1>8 DEF MeetStatus, PipeLeft
  <2> QED  BY <1>1, <2>1
<1>9. ASSUME \/ TimeOut \/ PipeError \/ ScanTables \/ MD_HkStatus
             \/ GroundCommand \/ BadGroundCommand \/ BadMessage
      PROVE  FALSE
  BY <1>9 DEF TimeOut, PipeError, ScanTables, MD_HkStatus, GroundCommand,
              BadGroundCommand, BadMessage, Handled, Receive
<1> QED
  BY <1>3, <1>4, <1>5, <1>6, <1>7, <1>8, <1>9 DEF MD_AppMain, MD_ProcessCommandPacket

(* Whatever MD does, fails to do or is told to do, each of its steps but   *)
(* the reading of its pipe brings that nearer: 3 * NumTables + 2 of them   *)
(* are enough from a reset on, 2 * NumTables + 1 from the end of a scan.   *)
THEOREM PipeIsApproached ==
  ASSUME ~TblFaults
  PROVE  AppSpec => PipeApproached
<1>1. AppInv /\ OnePacketPerWakeup'
        => [MD_AppMain /\ phase # "receive"
              => PipeLeft' < PipeLeft /\ PipeLeft' \in Nat]_allVars
  BY PipeNears
<1>2. AppSpec => []AppInv /\ []OnePacketPerWakeup
  BY AppInvariant, AppTotalsCurrent, PTL
<1> QED  BY <1>1, <1>2, PTL DEF PipeApproached

-----------------------------------------------------------------------------
(* Tables without zero delays, saved and recovered                         *)

ImageDelayed(image) ==
  \A i \in Entries : image.Entry[i].Length # 0 => image.Entry[i].Delay # 0

SavedDelayed(image) == image # NoImage => ImageDelayed(image)

(* No delay of zero in a record, in Table Services' buffer or in the store.*)
AppDelayedInv ==
  /\ DelayedInv
  /\ \A t \in Tables : ImageDelayed(buf[t]) /\ SavedDelayed(cds[t])

LEMMA ImagesDelayed ==
  ASSUME PositiveDelays
  PROVE  /\ ImageDelayed(DefaultImage)
         /\ \A image \in LoadImages \cup SavedImages : ImageDelayed(image)
<1>1. ImageDelayed(DefaultImage)
  BY DEF ImageDelayed, DefaultImage, DefaultTable, NullLoadEntry
<1> QED  BY <1>1 DEF ImageDelayed, PositiveDelays

LEMMA CommandImages ==
  ASSUME PositiveDelays, Inv, Command, \A t \in Tables : ImageDelayed(buf[t])
  PROVE  \A t \in Tables : ImageDelayed(buf'[t])
<1>1. buf \in [Tables -> BufferImage]
  BY DEF Inv, TypeOK
<1>2. ASSUME \A t \in Tables : buf'[t].Entry = buf[t].Entry
      PROVE  \A t \in Tables : ImageDelayed(buf'[t])
  BY <1>2 DEF ImageDelayed
<1>3. ASSUME NEW mask, NEW failed,
             MD_StartDwellCmd(mask, failed) \/ MD_StopDwellCmd(mask, failed)
      PROVE  \A t \in Tables : ImageDelayed(buf'[t])
  <2>1. PICK value : UpdateEnabledFields(Selected(mask), failed, value)
    BY <1>3 DEF MD_StartDwellCmd, MD_StopDwellCmd
  <2>2. \A t \in Tables : buf'[t].Entry = buf[t].Entry
    BY <1>1, <2>1 DEF UpdateEnabledFields, BufferImage
  <2> QED  BY <1>2, <2>2
<1>4. ASSUME NEW jam \in JamCommands, NEW failed, MD_JamDwellCmd(jam, failed)
      PROVE  \A t \in Tables : ImageDelayed(buf'[t])
  <2> DEFINE t == jam.TableId - 1
             i == jam.EntryId - 1
             e == JammedLoadEntry(jam)
  <2>1. jam \in JamPayload /\ ValidJam(jam)
    BY <1>4, DwellStreamsAssumption DEF DwellStreamsAssumption, MD_JamDwellCmd
  <2>2. t \in Tables /\ i \in Entries
    BY <2>1, JamTypes
  <2>3. e.Length # 0 => e.Delay # 0
    BY DEF JammedLoadEntry, NullLoadEntry, PositiveDelays
  <2>4. UNCHANGED buf \/ buf' = [buf EXCEPT ![t].Entry[i] = e]
    BY <1>4 DEF MD_JamDwellCmd
  <2> HIDE DEF e, t, i
  <2>5. CASE buf' = [buf EXCEPT ![t].Entry[i] = e]
    <3>1. /\ \A s \in Tables \ {t} : buf'[s] = buf[s]
          /\ \A j \in Entries : buf'[t].Entry[j] = IF j = i THEN e ELSE buf[t].Entry[j]
      BY <1>1, <2>2, <2>5 DEF BufferImage
    <3> QED  BY <2>2, <2>3, <3>1 DEF ImageDelayed
  <2> QED  BY <2>4, <2>5
<1>5. ASSUME NEW cmd, NEW failed, MD_SetSignatureCmd(cmd, failed)
      PROVE  \A t \in Tables : ImageDelayed(buf'[t])
  <2>1. \A t \in Tables : buf'[t].Entry = buf[t].Entry
    BY <1>1, <1>5 DEF MD_SetSignatureCmd, BufferImage
  <2> QED  BY <1>2, <2>1
<1>6. ASSUME NEW mask, NEW jam,
             EmptyMask(mask) \/ InvalidJam(jam) \/ MD_NoopCmd \/ MD_ResetCountersCmd
               \/ RefuseMessage
      PROVE  \A t \in Tables : ImageDelayed(buf'[t])
  BY <1>6 DEF EmptyMask, InvalidJam, MD_NoopCmd, MD_ResetCountersCmd, RefuseMessage
<1> QED  BY <1>3, <1>4, <1>5, <1>6 DEF Command

LEMMA WorkImages ==
  ASSUME PositiveDelays, AppInv, AppDelayedInv, MainWork
  PROVE  \A t \in Tables : ImageDelayed(buf'[t]) /\ SavedDelayed(cds'[t])
<1> DEFINE Images == \A t \in Tables : ImageDelayed(buf'[t]) /\ SavedDelayed(cds'[t])
<1>1. \A t \in Tables : ImageDelayed(buf[t]) /\ SavedDelayed(cds[t])
  BY DEF AppDelayedInv
<1>2. ASSUME UNCHANGED <<buf, cds>> PROVE Images
  BY <1>1, <1>2
<1>3. CASE RunLoop \/ TimeOut \/ PipeError
  BY <1>2, <1>3 DEF RunLoop, TimeOut, PipeError, vars
<1>4. CASE MD_ManageDwellTable
  <2>1. ASSUME NEW t \in Tables, ValidateTable(t) \/ LeaveTable(t) PROVE Images
    BY <1>2, <2>1 DEF ValidateTable, LeaveTable, vars
  <2>2. ASSUME NEW t \in Tables, UpdateTable(t) PROVE Images
    <3>1. tbs[t].work \in LoadImages
      BY <2>2 DEF UpdateTable, GetStatus, AppInv, AppTypes, AppGuarded, LoadSound, LoadState
    <3>2. /\ cds' = [cds EXCEPT ![t] = tbs[t].work]
          /\ buf' = [buf EXCEPT ![t] = tbs[t].work]
      BY <2>2 DEF UpdateTable, CopyTable, MissCopy
    <3>3. buf \in [Tables -> BufferImage] /\ cds \in [Tables -> TableImage \cup {NoImage}]
      BY DEF AppInv, AppTypes, Inv, TypeOK
    <3>4. ImageDelayed(tbs[t].work)
      BY <3>1, ImagesDelayed
    <3> QED  BY <1>1, <3>2, <3>3, <3>4 DEF SavedDelayed
  <2> QED  BY <1>4, <2>1, <2>2 DEF MD_ManageDwellTable
<1>5. CASE MD_ProcessCommandPacket
  <2>1. CASE GroundCommand
    <3>1. \A t \in Tables : ImageDelayed(buf'[t])
      BY <1>1, <2>1, GroundCommandIs, CommandImages DEF AppInv
    <3>2. \A t \in Tables : cds'[t] = cds[t] \/ cds'[t] = buf'[t]
      BY <2>1 DEF GroundCommand, Modified
    <3> QED  BY <1>1, <3>1, <3>2 DEF SavedDelayed
  <2>2. CASE \/ ScanTables \/ MD_HkStatus
             \/ MeetStatus \/ BadGroundCommand \/ BadMessage
    BY <1>2, <2>2 DEF ScanTables, Wakeup, MD_HkStatus, MeetStatus,
                      BadGroundCommand, BadMessage, RefuseMessage, vars
  <2> QED  BY <1>5, <2>1, <2>2 DEF MD_ProcessCommandPacket
<1>6. CASE DwellStep
  BY <1>2, <1>6 DEF DwellStep, SkipTable, FlushPacket, CountDown, Collect
<1> QED  BY <1>3, <1>4, <1>5, <1>6 DEF MainWork

LEMMA StartUpDelayed ==
  ASSUME PositiveDelays, AppInv, AppDelayedInv, MD_AppInit \/ MD_InitTableServices
  PROVE  AppDelayedInv'
<1>1. /\ at \in Tables /\ ctl \in [Tables -> ControlRecord]
      /\ buf \in [Tables -> BufferImage]
      /\ cds \in [Tables -> TableImage \cup {NoImage}]
  BY DEF AppInv, AppTypes, Inv, TypeOK
<1>2. /\ \A t \in Tables : ImageDelayed(buf[t]) /\ SavedDelayed(cds[t])
      /\ \A t \in Tables : Delayed(ctl[t])
  BY DEF AppDelayedInv, DelayedInv
<1>3. \A t \in Tables : ImageDelayed(buf'[t]) /\ SavedDelayed(cds'[t])
  <2>1. CASE UNCHANGED <<buf, cds>>
    BY <1>2, <2>1
  <2>2. CASE RecoverTable
    BY <1>1, <1>2, <2>2 DEF RecoverTable, SavedDelayed
  <2>3. CASE LoadDefault
    BY <1>1, <1>2, <2>3, ImagesDelayed DEF LoadDefault, SavedDelayed
  <2> QED  BY <2>1, <2>2, <2>3 DEF MD_AppInit, MD_InitTableServices, TableFails
<1>4. ASSUME \A t \in Tables : Delayed(ctl'[t]) PROVE AppDelayedInv'
  BY <1>3, <1>4 DEF AppDelayedInv, DelayedInv, Delayed
<1>5. CASE \A t \in Tables : ctl'[t] = InitialControl
  <2>1. Delayed(InitialControl)
    BY DEF Delayed, InitialControl, NullControlEntry
  <2> QED  BY <1>4, <1>5, <2>1
<1>6. CASE ctl' = ctl
  BY <1>2, <1>4, <1>6
<1>7. ASSUME NEW r, ctl' = [ctl EXCEPT ![at] = r], Delayed(r) PROVE AppDelayedInv'
  BY <1>1, <1>2, <1>4, <1>7
<1>8. ASSUME ctl[at] \in ControlRecord, Saved(at), cds[at] \in BufferImage,
             ctl' = [ctl EXCEPT ![at] = Activated(ctl[at], cds[at])]
      PROVE  AppDelayedInv'
  <2>1. ImageDelayed(cds[at])
    BY <1>1, <1>2, <1>8 DEF Saved, SavedDelayed
  <2>2. Delayed(Activated(ctl[at], cds[at]))
    BY <1>8, <2>1, ActivatedDelayed DEF ImageDelayed
  <2> QED  BY <1>7, <1>8, <2>2
<1>9. ASSUME ctl[at] \in ControlRecord,
             ctl' = [ctl EXCEPT ![at] = MD_UpdateDwellControlInfo(
                       [ctl[at] EXCEPT !.Enabled = Dwell_DISABLED])]
      PROVE  AppDelayedInv'
  <2> DEFINE c == [ctl[at] EXCEPT !.Enabled = Dwell_DISABLED]
  <2>1. c \in ControlRecord /\ c.Entry = ctl[at].Entry
    BY <1>9, DisabledType DEF ControlRecord
  <2>2. MD_UpdateDwellControlInfo(c).Entry = c.Entry
    <3> HIDE DEF c
    <3> QED  BY <2>1, UpdateInfoFields
  <2> HIDE DEF c
  <2>3. Delayed(MD_UpdateDwellControlInfo(c))
    BY <1>1, <1>2, <2>1, <2>2 DEF Delayed
  <2> QED  BY <1>7, <1>9, <2>3 DEF c
<1> QED  BY <1>5, <1>6, <1>8, <1>9, StartUpRecords

LEMMA AppDelayedNext ==
  ASSUME PositiveDelays, AppInv, AppDelayedInv, [AppNext]_allVars
  PROVE  AppDelayedInv'
<1>1. CASE UNCHANGED allVars \/ Uplinks
  <2>1. UNCHANGED <<ctl, buf, cds>>
    BY <1>1, UplinksQuiet DEF allVars, appVars, vars
  <2> QED  BY <2>1 DEF AppDelayedInv, DelayedInv
<1>2. CASE MainWork
  <2>1. DelayedInv'
    BY <1>2, ServingStep, DelayedNext DEF AppInv, AppDelayedInv
  <2> QED  BY <1>2, <2>1, WorkImages DEF AppDelayedInv
<1>3. CASE MD_AppInit \/ MD_InitTableServices
  BY <1>3, StartUpDelayed
<1>4. ASSUME NEW lost, Reset(lost) PROVE AppDelayedInv'
  <2>1. UNCHANGED <<ctl, buf>> /\ \A t \in Tables : cds'[t] \in {NoImage, cds[t]}
    BY <1>4 DEF Reset
  <2> QED  BY <2>1 DEF AppDelayedInv, DelayedInv, SavedDelayed
<1> QED  BY <1>1, <1>2, <1>3, <1>4, AppCases

(* Where no field that is saved, loaded or jammed has a delay of zero, no  *)
(* countdown ever wraps, whatever is recovered, reset or fails to load.    *)
THEOREM AppDelaysSuffice ==
  ASSUME PositiveDelays, ~TblFaults
  PROVE  AppSpec => []WaitsWithinDelay
<1>1. AppInit => AppDelayedInv
  <2> SUFFICES ASSUME AppInit PROVE AppDelayedInv
    OBVIOUS
  <2>1. Delayed(InitialControl)
    BY DEF Delayed, InitialControl, NullControlEntry
  <2>2. \A t \in Tables : cds[t] = NoImage \/ cds[t] \in SavedImages
    BY DEF AppInit
  <2> QED
    BY <2>1, <2>2, ImagesDelayed DEF AppInit, AppDelayedInv, DelayedInv, SavedDelayed
<1>2. AppInv /\ AppDelayedInv /\ [AppNext]_allVars => AppDelayedInv'
  BY AppDelayedNext
<1>3. AppInv /\ Totals /\ AppDelayedInv => [~FlushAtZero]_vars
  BY FlushesDelayed DEF AppInv, AppDelayedInv
<1> QED
  BY <1>1, <1>2, <1>3, AppInvariant, AppTotalsInvariant, AppWaitsAreShort, PTL DEF AppSpec
=============================================================================
