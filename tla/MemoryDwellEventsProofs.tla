------------------------ MODULE MemoryDwellEventsProofs ------------------------
(***************************************************************************)
(* Theorems about what the application tells the ground: every message it  *)
(* sends is one of md_eventids.h, what its counters count is reported, and *)
(* no stream falls idle unannounced.                                       *)
(***************************************************************************)
EXTENDS MemoryDwellProofs

-----------------------------------------------------------------------------
(* Event messages                                                          *)

LEMMA ValidationEventIds ==
  ASSUME NEW image
  PROVE  ValidationEvents(image) \subseteq EventIds
<1>1. {"TBL_ENA_FLAG", "TBL_SIG_LEN_ERR", "DWELL_TBL_INF", "TBL_ENTRY_ERR",
       "ZERO_RATE_TBL_INF", "RESOLVE_ERR", "RANGE_ERR", "TBL_HAS_LEN_ERR",
       "TBL_ALIGN_ERR"} \subseteq EventIds
  BY DEF EventIds, Ids, StartUpEvents, CommandEvents, JamEvents, TableEvents,
         UpdateEvents, ServiceEvents
<1>2. \A e : EntryError(e) \in
               {"RESOLVE_ERR", "RANGE_ERR", "TBL_HAS_LEN_ERR", "TBL_ALIGN_ERR"}
  BY DEF EntryError
<1> QED  BY <1>1, <1>2 DEF ValidationEvents

LEMMA StartUpEventIds ==
  ASSUME MD_AppInit \/ MD_InitTableServices
  PROVE  events' \subseteq EventIds
<1>1. {"CR_PIPE_ERR", "SUB_HK_ERR", "SUB_CMD_ERR", "SUB_WAKEUP_ERR",
       "TBL_INIT_INF", "INIT_INF", "INIT_TBL_NAME_ERR",
       "INIT_TBL_FILENAME_ERR", "DWELL_TBL_TOO_LARGE_CRIT",
       "TBL_REGISTER_CRIT", "RECOVERED_TBL_VALID_INF", "NO_TBL_COPY_ERR",
       "RECOVERED_TBL_NOT_VALID_ERR"} \subseteq EventIds
  BY DEF EventIds, Ids, StartUpEvents, CommandEvents, JamEvents, TableEvents,
         UpdateEvents, ServiceEvents
<1>2. ASSUME NEW ids \in SUBSET EventIds, TableReady(ids)
      PROVE  events' \subseteq EventIds
  BY <1>1, <1>2 DEF TableReady, Silent
<1>3. \A image : ValidationEvents(image) \subseteq EventIds
  BY ValidationEventIds
<1>4. \A ids \in NotRecovered : ids \in SUBSET EventIds
  BY <1>1, <1>3 DEF NotRecovered
<1>5. CASE MD_AppInit
  BY <1>1, <1>5 DEF MD_AppInit, Silent
<1>6. CASE RecoverTable
  BY <1>1, <1>2, <1>3, <1>6 DEF RecoverTable
<1>7. CASE LoadDefault
  <2>1. PICK ids \in NotRecovered :
          TableReady(ids \cup ValidationEvents(DefaultImage))
    BY <1>7 DEF LoadDefault
  <2> QED  BY <1>2, <1>3, <1>4, <2>1
<1>8. CASE TableFails
  <2>1. \/ events' \subseteq EventIds
        \/ \E ids \in NotRecovered, said \in {{}, ValidationEvents(DefaultImage)} :
             events' = ids \cup said \cup {"TBL_INIT_INF"}
    BY <1>1, <1>8 DEF TableFails, Silent
  <2> QED  BY <1>1, <1>3, <1>4, <2>1
<1> QED  BY <1>5, <1>6, <1>7, <1>8 DEF MD_InitTableServices

LEMMA CommandEventIds ==
  ASSUME GroundCommand \/ MeetStatus \/ BadGroundCommand \/ BadMessage
  PROVE  events' \subseteq EventIds
<1> DEFINE Named == {
      "NOOP_INF", "RESET_INF", "START_DWELL_INF", "START_DWELL_ERR",
      "UPDATE_TBL_EN_ERR", "EMPTY_TBLMASK_ERR", "STOP_DWELL_INF",
      "STOP_DWELL_ERR", "JAM_DWELL_INF", "JAM_DWELL_ERR",
      "UPDATE_TBL_DWELL_ERR", "JAM_NULL_DWELL_INF", "JAM_NULL_DWELL_ERR",
      "INVALID_JAM_TABLE_ERR", "INVALID_ENTRY_ARG_ERR",
      "CANT_RESOLVE_JAM_ADDR_ERR", "INVALID_LEN_ARG_ERR",
      "INVALID_JAM_ADDR_ERR", "JAM_ADDR_NOT_32BIT_ERR",
      "JAM_ADDR_NOT_16BIT_ERR", "INVALID_SIGNATURE_LENGTH_ERR",
      "INVALID_SIGNATURE_TABLE_ERR", "SET_SIGNATURE_INF",
      "SET_SIGNATURE_ERR", "UPDATE_TBL_SIG_ERR", "ZERO_RATE_CMD_INF",
      "CC_NOT_IN_TBL_ERR", "CMD_LEN_ERR", "MSG_LEN_ERR", "MID_ERR"}
<1>1. Named \subseteq EventIds
  BY DEF EventIds, Ids, StartUpEvents, CommandEvents, JamEvents, TableEvents,
         UpdateEvents, ServiceEvents
<1>2. \A failed : \A done, error \in SUBSET EventIds :
        Verdict(failed, done, error) \in SUBSET EventIds
  BY DEF Verdict
<1>3. \A ts : ZeroRate(ts) \in SUBSET EventIds
  BY <1>1 DEF ZeroRate
<1>4. ASSUME NEW mask, NEW failed,
             \/ StartDwell(mask, failed) \/ StopDwell(mask, failed)
             \/ NoTables(mask, failed)
      PROVE  events' \subseteq EventIds
  BY <1>1, <1>2, <1>3, <1>4 DEF StartDwell, StopDwell, NoTables, Silent
<1>5. ASSUME NEW jam, NEW failed, JamDwell(jam, failed)
      PROVE  events' \subseteq EventIds
  <2>1. JamError(jam) \in EventIds
    BY <1>1 DEF JamError
  <2> QED  BY <1>1, <1>2, <1>3, <1>5, <2>1 DEF JamDwell, Silent
<1>6. ASSUME NEW cmd, NEW failed, SetSignature(cmd, failed)
      PROVE  events' \subseteq EventIds
  BY <1>1, <1>2, <1>6 DEF SetSignature, Silent
<1>7. CASE MeetStatus \/ BadGroundCommand \/ BadMessage
  BY <1>1, <1>7 DEF MeetStatus, BadGroundCommand, BadMessage, Silent
<1>8. CASE GroundCommand
  <2>1. PICK value \in SUBSET Tables :
          \/ \E mask \in StartStopMasks :
               \/ StartDwell(mask, value) \/ StopDwell(mask, value)
               \/ NoTables(mask, value)
          \/ \E jam \in JamCommands : JamDwell(jam, value)
          \/ \E cmd \in SignatureCommands : SetSignature(cmd, value)
          \/ Silent({"NOOP_INF"}) \/ Silent({"RESET_INF"})
    BY <1>8 DEF GroundCommand
  <2>2. {"NOOP_INF", "RESET_INF"} \subseteq EventIds
    BY <1>1
  <2> HIDE DEF Named
  <2> QED  BY <1>4, <1>5, <1>6, <2>1, <2>2 DEF Silent
<1> QED  BY <1>7, <1>8

LEMMA EventsNext ==
  ASSUME events \subseteq EventIds, [AppNext]_allVars
  PROVE  events' \subseteq EventIds
<1>1. {"TBL_STATUS_ERR", "NO_TBL_COPY_ERR", "PIPE_ERR",
       "DWELL_LOOP_GET_DWELL_DATA_ERR"} \subseteq EventIds
  BY DEF EventIds, Ids, StartUpEvents, CommandEvents, JamEvents, TableEvents,
         UpdateEvents, ServiceEvents
<1>2. CASE UNCHANGED allVars
  BY <1>2 DEF allVars, appVars
<1>3. CASE Uplinks
  BY <1>3, UplinksQuiet
<1>4. ASSUME NEW lost, Reset(lost) PROVE events' \subseteq EventIds
  BY <1>4 DEF Reset, Silent
<1>5. CASE MainWork
  <2>1. CASE MD_ManageDwellTable
    <3>1. ASSUME NEW t \in Tables, ValidateTable(t)
          PROVE  events' \subseteq EventIds
      BY <3>1, ValidationEventIds DEF ValidateTable, Silent
    <3>2. ASSUME NEW t \in Tables, UpdateTable(t) \/ LeaveTable(t)
          PROVE  events' \subseteq EventIds
      BY <1>1, <3>2 DEF UpdateTable, LeaveTable, Silent
    <3> QED  BY <2>1, <3>1, <3>2 DEF MD_ManageDwellTable
  <2>2. CASE MD_ProcessCommandPacket
    <3>1. ScanTables \/ MD_HkStatus => events' = {}
      BY DEF ScanTables, MD_HkStatus, Silent
    <3> QED  BY <2>2, <3>1, CommandEventIds DEF MD_ProcessCommandPacket
  <2>3. CASE RunLoop \/ TimeOut \/ PipeError \/ DwellStep
    BY <1>1, <2>3 DEF RunLoop, TimeOut, PipeError, DwellStep, Silent
  <2> QED  BY <1>5, <2>1, <2>2, <2>3 DEF MainWork
<1> QED  BY <1>2, <1>3, <1>4, <1>5, StartUpEventIds, AppCases

(* Every variable of the application keeps its type: what Table Services,  *)
(* the Critical Data Store and MD hold of a table are images, and every    *)
(* message MD sends is one of md_eventids.h.                               *)
THEOREM AppTypeCorrect == AppSpec => []AppTypeOK
<1>1. AppInit => events \subseteq EventIds
  BY DEF AppInit
<1>2. events \subseteq EventIds /\ [AppNext]_allVars => (events \subseteq EventIds)'
  BY EventsNext
<1>3. AppInv /\ events \subseteq EventIds => AppTypeOK
  BY LoadedType DEF AppInv, AppTypes, AppTypeOK, Inv, LoadState
<1> QED  BY <1>1, <1>2, <1>3, AppInvariant, PTL DEF AppSpec

-----------------------------------------------------------------------------
(* The counters and the events of a message                                *)

(* Events of one type only.                                                *)
LEMMA EventTypes ==
  /\ {"START_DWELL_INF", "STOP_DWELL_INF", "JAM_DWELL_INF",
      "JAM_NULL_DWELL_INF", "SET_SIGNATURE_INF", "NOOP_INF",
      "ZERO_RATE_CMD_INF"} \subseteq Ids("INFORMATION") \ Ids("ERROR")
  /\ {"START_DWELL_ERR", "STOP_DWELL_ERR", "JAM_DWELL_ERR",
      "JAM_NULL_DWELL_ERR", "SET_SIGNATURE_ERR", "EMPTY_TBLMASK_ERR",
      "INVALID_JAM_TABLE_ERR", "INVALID_ENTRY_ARG_ERR",
      "CANT_RESOLVE_JAM_ADDR_ERR", "INVALID_LEN_ARG_ERR",
      "INVALID_JAM_ADDR_ERR", "JAM_ADDR_NOT_32BIT_ERR",
      "JAM_ADDR_NOT_16BIT_ERR", "INVALID_SIGNATURE_LENGTH_ERR",
      "INVALID_SIGNATURE_TABLE_ERR", "CC_NOT_IN_TBL_ERR", "CMD_LEN_ERR",
      "MID_ERR"} \subseteq Ids("ERROR")
BY DEF Ids, StartUpEvents, CommandEvents, JamEvents, TableEvents,
       UpdateEvents, ServiceEvents

Good == Ids("INFORMATION") \ Ids("ERROR")

(* A counter never comes round in one step.                                *)
LEMMA Counted ==
  ASSUME AppInv, Reject
  PROVE  ErrCounter' # ErrCounter /\ UNCHANGED CmdCounter
<1>1. CounterModulus \in Nat /\ CounterModulus > 1
  BY DwellStreamsAssumption, MemoryDwellAssumption
  DEF DwellStreamsAssumption, MemoryDwellAssumption
<1>2. ErrCounter \in 0..(CounterModulus - 1)
  BY DEF AppInv, Inv, TypeOK
<1>3. CASE ErrCounter = CounterModulus - 1
  <2>1. ErrCounter + 1 = CounterModulus /\ CounterModulus % CounterModulus = 0
    BY <1>1, <1>3
  <2>2. ErrCounter' = 0
    BY <2>1 DEF Reject
  <2> QED  BY <1>1, <1>3, <2>2 DEF Reject
<1>4. CASE ErrCounter # CounterModulus - 1
  <2>1. ErrCounter + 1 \in 0..(CounterModulus - 1)
    BY <1>1, <1>2, <1>4
  <2>2. (ErrCounter + 1) % CounterModulus = ErrCounter + 1
    BY <1>1, <2>1
  <2> QED  BY <1>2, <2>2 DEF Reject
<1> QED  BY <1>3, <1>4

(* Informational events only, and the command not counted as rejected.     *)
LEMMA AcceptTells ==
  ASSUME Accept, NEW inf \in Good, inf \in events', events' \subseteq Good
  PROVE  CountedAsTold
BY DEF Accept, CountedAsTold, Sent, Good

(* An error event, and the command not counted as accepted.                *)
LEMMA RejectTells ==
  ASSUME AppInv, Reject, NEW err \in Ids("ERROR"), err \in events'
  PROVE  CountedAsTold
BY Counted DEF CountedAsTold, Sent

(* A command that closes with the verdict over its writes: the handler     *)
(* counts by the tables that failed, as it chooses its last event.         *)
LEMMA VerdictTells ==
  ASSUME AppInv, NEW failed,
         (failed = {} /\ Accept) \/ (failed # {} /\ Reject),
         NEW done, NEW inf \in done, done \subseteq Good,
         NEW error, NEW err \in error, err \in Ids("ERROR"),
         Verdict(failed, done, error) \subseteq events',
         events' \subseteq Verdict(failed, done, error) \cup Good
  PROVE  CountedAsTold
<1>1. CASE failed = {} /\ Accept
  <2>1. inf \in events' /\ events' \subseteq Good
    BY <1>1 DEF Verdict
  <2> QED  BY <1>1, <2>1, AcceptTells
<1>2. CASE failed # {} /\ Reject
  <2>1. err \in events'
    BY <1>2 DEF Verdict
  <2> QED  BY <1>2, <2>1, RejectTells
<1> QED  BY <1>1, <1>2

LEMMA ZeroRateGood == ASSUME NEW ts PROVE ZeroRate(ts) \subseteq Good
BY EventTypes DEF ZeroRate, Good

LEMMA SwitchTells ==
  ASSUME AppInv, NEW mask, NEW failed,
         \/ StartDwell(mask, failed) \/ StopDwell(mask, failed)
         \/ NoTables(mask, failed)
  PROVE  CountedAsTold
<1>1. CASE NoTables(mask, failed)
  BY <1>1, RejectTells, EventTypes DEF NoTables, EmptyMask, Silent
<1>2. CASE StartDwell(mask, failed)
  <2> DEFINE done  == {"START_DWELL_INF"}
             error == {"START_DWELL_ERR", "UPDATE_TBL_EN_ERR"}
  <2>1. (failed = {} /\ Accept) \/ (failed # {} /\ Reject)
    BY <1>2 DEF StartDwell, MD_StartDwellCmd, UpdateEnabledFields
  <2>2. events' = Verdict(failed, done, error) \cup ZeroRate(Selected(mask))
    BY <1>2 DEF StartDwell, Silent
  <2>3. /\ "START_DWELL_INF" \in done /\ done \subseteq Good
        /\ "START_DWELL_ERR" \in error /\ "START_DWELL_ERR" \in Ids("ERROR")
    BY EventTypes DEF Good
  <2> HIDE DEF done, error
  <2> QED  BY <2>1, <2>2, <2>3, VerdictTells, ZeroRateGood
<1>3. CASE StopDwell(mask, failed)
  <2> DEFINE done  == {"STOP_DWELL_INF"}
             error == {"STOP_DWELL_ERR", "UPDATE_TBL_EN_ERR"}
  <2>1. (failed = {} /\ Accept) \/ (failed # {} /\ Reject)
    BY <1>3 DEF StopDwell, MD_StopDwellCmd, UpdateEnabledFields
  <2>2. events' = Verdict(failed, done, error)
    BY <1>3 DEF StopDwell, Silent
  <2>3. /\ "STOP_DWELL_INF" \in done /\ done \subseteq Good
        /\ "STOP_DWELL_ERR" \in error /\ "STOP_DWELL_ERR" \in Ids("ERROR")
    BY EventTypes DEF Good
  <2> HIDE DEF done, error
  <2> QED  BY <2>1, <2>2, <2>3, VerdictTells
<1> QED  BY <1>1, <1>2, <1>3

LEMMA JamTells ==
  ASSUME AppInv, NEW jam, NEW failed, JamDwell(jam, failed)
  PROVE  CountedAsTold
<1>1. CASE InvalidJam(jam) /\ Silent({JamError(jam)})
  <2>1. JamError(jam) \in Ids("ERROR")
    BY EventTypes DEF JamError
  <2> QED  BY <1>1, <2>1, RejectTells DEF InvalidJam, Silent
<1>2. CASE MD_JamDwellCmd(jam, failed) /\ ~InvalidJam(jam)
  <2> DEFINE null  == jam.FieldLength = 0
             inf   == IF null THEN "JAM_NULL_DWELL_INF" ELSE "JAM_DWELL_INF"
             err   == IF null THEN "JAM_NULL_DWELL_ERR" ELSE "JAM_DWELL_ERR"
             done  == {inf} \cup ZeroRate({jam.TableId - 1})
             error == {err, "UPDATE_TBL_DWELL_ERR"}
  <2>1. (failed = {} /\ Accept) \/ (failed # {} /\ Reject)
    BY <1>2 DEF MD_JamDwellCmd
  <2>2. events' = Verdict(failed, done, error)
    BY <1>2 DEF JamDwell, Silent
  <2>3. inf \in Good /\ err \in Ids("ERROR")
    BY EventTypes DEF Good
  <2>4. inf \in done /\ done \subseteq Good /\ err \in error
    <3> HIDE DEF inf, err
    <3> QED  BY <2>3, ZeroRateGood
  <2> HIDE DEF done, error, inf, err
  <2> QED  BY <2>1, <2>2, <2>3, <2>4, VerdictTells
<1>3. MD_JamDwellCmd(jam, failed) => ~InvalidJam(jam)
  BY DEF InvalidJam, MD_JamDwellCmd
<1> QED  BY <1>1, <1>2, <1>3 DEF JamDwell

LEMMA SignatureTells ==
  ASSUME AppInv, NEW cmd \in SignatureCommands, NEW failed,
         SetSignature(cmd, failed)
  PROVE  CountedAsTold
<1> DEFINE bad == cmd.Signature = Unterminated \/ ~MD_ValidTableId(cmd.TableId)
<1>1. CASE bad
  <2>1. ~(cmd.Signature \in Signatures /\ MD_ValidTableId(cmd.TableId))
    BY <1>1, DwellTablesAssumption DEF DwellTablesAssumption
  <2>2. Reject
    BY <2>1 DEF SetSignature, MD_SetSignatureCmd
  <2>3. events' \in {{"INVALID_SIGNATURE_LENGTH_ERR"}, {"INVALID_SIGNATURE_TABLE_ERR"}}
    BY <1>1 DEF SetSignature, Silent
  <2> QED  BY <2>2, <2>3, RejectTells, EventTypes
<1>2. CASE ~bad
  <2> DEFINE done  == {"SET_SIGNATURE_INF"}
             error == {"SET_SIGNATURE_ERR", "UPDATE_TBL_SIG_ERR"}
  <2>1. events' = Verdict(failed, done, error)
    BY <1>2 DEF SetSignature, Silent
  <2>2. cmd.Signature \in Signatures /\ MD_ValidTableId(cmd.TableId)
    BY <1>2, DwellStreamsAssumption DEF DwellStreamsAssumption
  <2>3. (failed = {} /\ Accept) \/ (failed # {} /\ Reject)
    BY <2>2 DEF SetSignature, MD_SetSignatureCmd
  <2>4. /\ "SET_SIGNATURE_INF" \in done /\ done \subseteq Good
        /\ "SET_SIGNATURE_ERR" \in error /\ "SET_SIGNATURE_ERR" \in Ids("ERROR")
    BY EventTypes DEF Good
  <2> HIDE DEF done, error
  <2> QED  BY <2>1, <2>3, <2>4, VerdictTells
<1> QED  BY <1>1, <1>2

LEMMA GroundCommandTells ==
  ASSUME AppInv, GroundCommand, "RESET_INF" \notin events'
  PROVE  CountedAsTold
<1>1. PICK value \in SUBSET Tables :
        \/ \E mask \in StartStopMasks :
             \/ StartDwell(mask, value) \/ StopDwell(mask, value)
             \/ NoTables(mask, value)
        \/ \E jam \in JamCommands : JamDwell(jam, value)
        \/ \E cmd \in SignatureCommands : SetSignature(cmd, value)
        \/ MD_NoopCmd /\ Silent({"NOOP_INF"})
        \/ Silent({"RESET_INF"})
  BY DEF GroundCommand
<1>2. CASE MD_NoopCmd /\ Silent({"NOOP_INF"})
  BY <1>2, AcceptTells, EventTypes DEF MD_NoopCmd, Silent, Good
<1>3. ~Silent({"RESET_INF"})
  BY DEF Silent
<1> QED  BY <1>1, <1>2, <1>3, SwitchTells, JamTells, SignatureTells

(* The other messages: an error is counted, but for those that are no      *)
(* ground commands.                                                        *)
LEMMA OthersTell ==
  ASSUME AppInv,
         \/ TimeOut \/ PipeError \/ ScanTables \/ MD_HkStatus
         \/ MeetStatus \/ BadGroundCommand \/ BadMessage
  PROVE  CountedAsTold
<1>1. ASSUME UNCHANGED <<CmdCounter, ErrCounter>>,
             events' \subseteq {"MSG_LEN_ERR", "MID_ERR", "PIPE_ERR"}
      PROVE  CountedAsTold
  BY <1>1 DEF CountedAsTold
<1>2. ASSUME NEW err \in {"CC_NOT_IN_TBL_ERR", "CMD_LEN_ERR", "MID_ERR"},
             RefuseMessage, Silent({err})
      PROVE  CountedAsTold
  <2>1. err \in Ids("ERROR")
    BY EventTypes
  <2> QED  BY <1>2, <2>1, RejectTells DEF RefuseMessage, Silent
<1>3. CASE TimeOut \/ PipeError \/ ScanTables \/ MD_HkStatus
  BY <1>1, <1>3 DEF TimeOut, PipeError, ScanTables, MD_HkStatus, Wakeup, Silent, vars
<1>4. CASE MeetStatus \/ BadGroundCommand
  BY <1>2, <1>4 DEF MeetStatus, BadGroundCommand
<1>5. CASE BadMessage
  BY <1>1, <1>2, <1>5 DEF BadMessage, Silent, vars
<1> QED  BY <1>3, <1>4, <1>5

(* What the ground hears is what the counters say, whichever tables of a   *)
(* command fail and whichever dispatcher there is: a command is counted as *)
(* accepted together with informational events only, a message counted as  *)
(* an error comes with an error event, and no error goes uncounted but     *)
(* that of a message which is no ground command.                           *)
THEOREM VerdictsReported == AppSpec => VerdictReported
<1>1. AppInv /\ [AppNext]_allVars =>
        [phase' # phase /\ phase \in {"receive", "returned"} =>
           CountedAsTold \/ "RESET_INF" \in events']_allVars
  <2> SUFFICES ASSUME AppInv, AppNext, phase' # phase,
                      phase \in {"receive", "returned"}, "RESET_INF" \notin events'
               PROVE  CountedAsTold
    OBVIOUS
  <2>1. ~MD_AppInit /\ ~MD_InitTableServices
    BY DEF MD_AppInit, MD_InitTableServices, RecoverTable, LoadDefault,
           TableFails, InitTable
  <2>2. ~Uplinks
    BY UplinksQuiet
  <2>3. CASE \E lost \in SUBSET Tables : Reset(lost)
    <3>1. events' = {} /\ UNCHANGED <<CmdCounter, ErrCounter>>
      BY <2>3 DEF Reset, Silent
    <3> QED  BY <3>1 DEF CountedAsTold, Sent
  <2>4. CASE MainWork
    <3>1. ~RunLoop /\ ~MD_ManageDwellTable /\ ~DwellStep
      BY DEF RunLoop, MD_ManageDwellTable, ValidateTable, UpdateTable,
             LeaveTable, GetStatus, DwellStep
    <3> QED
      BY <2>4, <3>1, GroundCommandTells, OthersTell
      DEF MainWork, MD_ProcessCommandPacket
  <2> QED  BY <2>1, <2>2, <2>3, <2>4, AppCases
<1> QED  BY <1>1, AppInvariant, PTL DEF AppSpec, VerdictReported

-----------------------------------------------------------------------------
(* Streams that idle                                                       *)

(* The stream of this image, once copied, is enabled without a rate.       *)
IdleImage(image) ==
  /\ image.Enabled = Dwell_ENABLED
  /\ DelaySum(image.Entry)[ActiveCount(image.Entry)] = 0

(* Who validated the image that is to be activated was told so.            *)
Announced(l) ==
  (l.checked \/ l.request = "update") /\ IdleImage(l.work) => l.announced

AnnounceInv == \A t \in Tables : Announced(tbs[t])

LEMMA IdleImageSays ==
  ASSUME NEW image, MD_TableValidationFunc(image), IdleImage(image)
  PROVE  "ZERO_RATE_TBL_INF" \in ValidationEvents(image)
<1> DEFINE n == ActiveCount(image.Entry)
           bad == {i \in 0..(n - 1) : ~MD_ValidTableEntry(image.Entry[i])}
<1>1. bad = {}
  <2>1. n \in 0..TableSize
    BY ActiveCountFacts
  <2>2. \A i \in Entries : i < n => MD_ValidTableEntry(image.Entry[i])
    BY DEF MD_TableValidationFunc, MD_CheckTableEntries
  <2> HIDE DEF n
  <2>3. \A i \in 0..(n - 1) : i \in Entries /\ i < n
    BY <2>1, Sizes DEF Entries
  <2> QED  BY <2>2, <2>3
<1>2. image.Enabled \in {Dwell_DISABLED, Dwell_ENABLED} /\ image.Signature # Unterminated
  BY DwellTablesAssumption DEF DwellTablesAssumption, MD_TableValidationFunc
<1> HIDE DEF bad
<1> QED  BY <1>1, <1>2 DEF ValidationEvents, IdleImage, bad

LEMMA ActivatedIdle ==
  ASSUME NEW c \in ControlRecord, NEW image \in BufferImage,
         Idle(Activated(c, image))
  PROVE  IdleImage(image)
<1> DEFINE r == Activated(c, image)
<1>1. r.Entry = CopiedEntries(image) /\ r.Enabled = image.Enabled /\ TotalsOf(r)
  BY ActivatedFields, ActivatedTotals
<1> HIDE DEF r
<1>2. \A i \in Entries : /\ r.Entry[i].Length = image.Entry[i].Length
                         /\ r.Entry[i].Delay = image.Entry[i].Delay
  BY <1>1 DEF CopiedEntries
<1>3. /\ ActiveCount(r.Entry) = ActiveCount(image.Entry)
      /\ DelaySum(r.Entry) = DelaySum(image.Entry)
  BY <1>2, ActiveCountSame, SumsSame
<1>4. r.Enabled = Dwell_ENABLED /\ r.Rate = 0
  BY DEF Idle, r
<1> QED  BY <1>1, <1>3, <1>4 DEF IdleImage, TotalsOf

LEMMA AnnounceInit == AppInit => AnnounceInv
BY DEF AppInit, NoLoads, NoLoad, AnnounceInv, Announced

LEMMA AnnounceNext ==
  ASSUME AppInv, AnnounceInv, [AppNext]_allVars
  PROVE  AnnounceInv'
<1>1. /\ tbs \in [Tables -> LoadState]
      /\ \A t \in Tables : tbs[t] \in LoadState /\ Announced(tbs[t])
  BY DEF AppInv, AppTypes, AnnounceInv
<1>2. ASSUME UNCHANGED tbs PROVE AnnounceInv'
  BY <1>2 DEF AnnounceInv
<1>3. ASSUME tbs' = NoLoads PROVE AnnounceInv'
  BY <1>3 DEF NoLoads, NoLoad, AnnounceInv, Announced
<1>4. ASSUME NEW t \in Tables, NEW l, tbs' = [tbs EXCEPT ![t] = l], Announced(l)
      PROVE  AnnounceInv'
  BY <1>1, <1>4 DEF AnnounceInv
<1>5. CASE UNCHANGED allVars
  BY <1>2, <1>5 DEF allVars, appVars
<1>6. CASE MD_AppInit \/ MD_InitTableServices
  BY <1>2, <1>6 DEF MD_AppInit, MD_InitTableServices, RecoverTable, LoadDefault,
                    TableFails, InitTable
<1>7. CASE MainWork
  <2>1. ASSUME NEW t \in Tables, ValidateTable(t) PROVE AnnounceInv'
    <3> DEFINE told == "ZERO_RATE_TBL_INF" \in events'
               valid == MD_TableValidationFunc(tbs[t].work)
               l == [tbs[t] EXCEPT !.request = "none", !.checked = valid,
                                   !.announced = told]
    <3>1. /\ tbs' = [tbs EXCEPT ![t] = l]
          /\ events' = ValidationEvents(tbs[t].work)
      BY <2>1 DEF ValidateTable, Silent
    <3>2. valid /\ IdleImage(tbs[t].work) => told
      BY <3>1, IdleImageSays
    <3> HIDE DEF told, valid
    <3>3. /\ l.work = tbs[t].work /\ l.request = "none"
          /\ l.checked = valid /\ l.announced = told
      BY <1>1 DEF LoadState
    <3> HIDE DEF l
    <3>4. Announced(l)
      BY <3>2, <3>3 DEF Announced
    <3> QED  BY <1>4, <3>1, <3>4
  <2>2. ASSUME NEW t \in Tables, UpdateTable(t) PROVE AnnounceInv'
    <3>1. Announced(NoLoad)
      BY DEF Announced, NoLoad
    <3> QED  BY <1>4, <2>2, <3>1 DEF UpdateTable
  <2>3. ASSUME NEW t \in Tables, LeaveTable(t) PROVE AnnounceInv'
    BY <1>2, <2>3 DEF LeaveTable
  <2>4. CASE RunLoop
    BY <1>2, <1>3, <2>4 DEF RunLoop
  <2>5. CASE TimeOut \/ PipeError \/ DwellStep \/ MD_ProcessCommandPacket
    BY <1>2, <2>5
    DEF TimeOut, PipeError, DwellStep, MD_ProcessCommandPacket, ScanTables,
        MD_HkStatus, GroundCommand, MeetStatus, BadGroundCommand, BadMessage,
        Handled, Receive
  <2> QED  BY <1>7, <2>1, <2>2, <2>3, <2>4, <2>5 DEF MainWork, MD_ManageDwellTable
<1>8. CASE Uplinks
  <2>1. ASSUME NEW t \in Tables, NEW image, TblLoad(t, image) PROVE AnnounceInv'
    <3> DEFINE l == [tbs[t] EXCEPT !.work = image, !.checked = FALSE,
                                   !.announced = FALSE]
    <3>1. tbs' = [tbs EXCEPT ![t] = l] /\ tbs[t].request # "update"
      BY <1>1, <2>1 DEF TblLoad
    <3>2. Announced(l)
      BY <1>1, <3>1 DEF Announced, LoadState
    <3> HIDE DEF l
    <3> QED  BY <1>4, <3>1, <3>2
  <2>2. ASSUME NEW t \in Tables, TblValidate(t) \/ TblActivate(t) PROVE AnnounceInv'
    <3>1. PICK request : /\ tbs' = [tbs EXCEPT ![t].request = request]
                         /\ request = "update" => tbs[t].checked
      BY <2>2 DEF TblValidate, TblActivate
    <3> DEFINE l == [tbs[t] EXCEPT !.request = request]
    <3>2. tbs' = [tbs EXCEPT ![t] = l]
      BY <3>1
    <3>3. /\ l.work = tbs[t].work /\ l.checked = tbs[t].checked
          /\ l.announced = tbs[t].announced /\ l.request = request
      BY <1>1 DEF LoadState
    <3>4. Announced(tbs[t])
      BY <1>1
    <3> HIDE DEF l
    <3>5. Announced(l)
      BY <3>1, <3>3, <3>4 DEF Announced
    <3> QED  BY <1>4, <3>2, <3>5
  <2> QED  BY <1>8, <2>1, <2>2 DEF Uplinks
<1>9. ASSUME NEW lost, Reset(lost) PROVE AnnounceInv'
  BY <1>3, <1>9 DEF Reset
<1> QED  BY <1>5, <1>6, <1>7, <1>8, <1>9, AppCases

-----------------------------------------------------------------------------
ZeroRateEvents == {"ZERO_RATE_CMD_INF", "ZERO_RATE_TBL_INF"}

(* A command that makes a stream idle says so.                             *)
LEMMA CommandIdles ==
  ASSUME AppInv, GroundCommand, NEW t \in Tables,
         Idle(ctl'[t]), ~Idle(ctl[t])
  PROVE  events' \cap ZeroRateEvents # {}
<1>1. ctl \in [Tables -> ControlRecord] /\ ctl[t] \in ControlRecord
  BY DEF AppInv, Inv, TypeOK
<1>2. ctl'[t] # ctl[t]
  OBVIOUS
<1>3. ASSUME NEW ts, t \in ts PROVE "ZERO_RATE_CMD_INF" \in ZeroRate(ts)
  BY <1>3 DEF ZeroRate
<1>4. ASSUME NEW mask, NEW failed, StartDwell(mask, failed)
      PROVE  events' \cap ZeroRateEvents # {}
  <2>1. t \in Selected(mask)
    BY <1>2, <1>4 DEF StartDwell, MD_StartDwellCmd
  <2>2. ZeroRate(Selected(mask)) \subseteq events'
    BY <1>4 DEF StartDwell, Silent
  <2> QED  BY <1>3, <2>1, <2>2 DEF ZeroRateEvents
<1>5. ASSUME NEW mask, NEW failed, StopDwell(mask, failed) PROVE FALSE
  <2>1. ctl'[t] = ctl[t] \/ ctl'[t] = Stopped(ctl[t])
    BY <1>5 DEF StopDwell, MD_StopDwellCmd
  <2>2. Stopped(ctl[t]).Enabled = Dwell_DISABLED
    BY <1>1 DEF Stopped, ControlRecord
  <2> QED  BY <1>2, <2>1, <2>2 DEF Idle, Dwell_DISABLED, Dwell_ENABLED
<1>6. ASSUME NEW jam \in JamCommands, NEW failed, JamDwell(jam, failed)
      PROVE  events' \cap ZeroRateEvents # {}
  <2> DEFINE s == jam.TableId - 1
             i == jam.EntryId - 1
             jammed == [ctl[s] EXCEPT !.Entry[i] = JammedEntry(jam)]
             updated == MD_UpdateDwellControlInfo(jammed)
  <2>1. MD_JamDwellCmd(jam, failed) /\ ~InvalidJam(jam)
    BY <1>2, <1>6 DEF JamDwell, InvalidJam, MD_JamDwellCmd
  <2>2. \/ ctl' = [ctl EXCEPT ![s] = updated] /\ failed = {}
        \/ ctl' = [ctl EXCEPT ![s] = jammed]
    BY <2>1 DEF MD_JamDwellCmd
  <2>3. t = s
    BY <1>1, <1>2, <2>2
  <2>4. jammed.Enabled = ctl[t].Enabled /\ jammed.Rate = ctl[t].Rate
    BY <1>1, <2>3 DEF ControlRecord
  <2> HIDE DEF jammed, updated, s
  <2>5. ctl'[t] # jammed
    BY <2>4 DEF Idle
  <2>6. failed = {}
    BY <1>1, <2>2, <2>3, <2>5
  <2>7. ZeroRate({jam.TableId - 1}) \subseteq events'
    BY <1>6, <2>1, <2>6 DEF JamDwell, Verdict, Silent
  <2>8. t \in {jam.TableId - 1}
    BY <2>3 DEF s
  <2> QED  BY <1>3, <2>7, <2>8 DEF ZeroRateEvents
<1>7. ASSUME NEW cmd, NEW failed, SetSignature(cmd, failed) PROVE FALSE
  <2> DEFINE s == cmd.TableId - 1
             signed == [ctl[s] EXCEPT !.Signature = cmd.Signature]
  <2>1. ctl' = ctl \/ ctl' = [ctl EXCEPT ![s] = signed]
    BY <1>7 DEF SetSignature, MD_SetSignatureCmd
  <2>2. t = s /\ ctl'[t] = signed
    BY <1>1, <1>2, <2>1
  <2>3. signed.Enabled = ctl[t].Enabled /\ signed.Rate = ctl[t].Rate
    BY <1>1, <2>2 DEF ControlRecord
  <2> HIDE DEF signed
  <2> QED  BY <2>2, <2>3 DEF Idle
<1>8. \A mask, failed : ~NoTables(mask, failed)
  BY <1>2 DEF NoTables, EmptyMask
<1>9. ~MD_NoopCmd /\ ~MD_ResetCountersCmd
  BY <1>2 DEF MD_NoopCmd, MD_ResetCountersCmd
<1>10. PICK value :
         \/ \E mask : StartDwell(mask, value) \/ StopDwell(mask, value)
         \/ \E jam \in JamCommands : JamDwell(jam, value)
         \/ \E cmd : SetSignature(cmd, value)
  BY <1>8, <1>9 DEF GroundCommand
<1> QED  BY <1>4, <1>5, <1>6, <1>7, <1>10

LEMMA StepIdles ==
  ASSUME AppInv, AnnounceInv, AppNext, NEW t \in Tables,
         Idle(ctl'[t]), ~Idle(ctl[t])
  PROVE  tbs[t].announced \/ events' \cap ZeroRateEvents # {}
<1>1. ctl \in [Tables -> ControlRecord] /\ ctl[t] \in ControlRecord
  BY DEF AppInv, Inv, TypeOK
<1>2. ~UNCHANGED ctl /\ ~UNCHANGED vars
  BY DEF vars
<1>3. CASE MD_AppInit
  BY <1>3 DEF MD_AppInit, InitialControl, Idle, Dwell_ENABLED, Dwell_DISABLED
<1>4. CASE MD_InitTableServices
  <2>1. at \in Tables /\ cds[at] \in TableImage \cup {NoImage}
    BY DEF AppInv, AppTypes
  <2>2. CASE RecoverTable
    <3>1. /\ t = at /\ ctl'[t] = Activated(ctl[t], cds[t])
          /\ MD_TableValidationFunc(cds[t]) /\ cds[t] # NoImage
      BY <1>1, <2>1, <2>2 DEF RecoverTable
    <3>2. cds[t] \in BufferImage
      BY <2>1, <3>1, ValidImageType
    <3>3. IdleImage(cds[t])
      BY <1>1, <3>1, <3>2, ActivatedIdle
    <3>4. "ZERO_RATE_TBL_INF" \in ValidationEvents(cds[at])
      BY <3>1, <3>3, IdleImageSays
    <3>5. ValidationEvents(cds[at]) \subseteq events'
      BY <2>2 DEF RecoverTable, TableReady, Silent
    <3> QED  BY <3>4, <3>5 DEF ZeroRateEvents
  <2>3. CASE LoadDefault
    <3> DEFINE c == [ctl[at] EXCEPT !.Enabled = Dwell_DISABLED]
               u == MD_UpdateDwellControlInfo(c)
    <3>1. ctl' = [ctl EXCEPT ![at] = u]
      BY <2>3 DEF LoadDefault
    <3>2. c \in ControlRecord /\ c.Enabled = Dwell_DISABLED
      BY <1>1, <2>1 DEF ControlRecord
    <3> HIDE DEF c
    <3>3. u.Enabled = Dwell_DISABLED
      BY <3>2, UpdateInfoFields
    <3> HIDE DEF u
    <3>4. t = at /\ ctl'[t] = u
      BY <1>1, <3>1
    <3> QED  BY <3>3, <3>4 DEF Idle, Dwell_ENABLED, Dwell_DISABLED
  <2>4. ~TableFails
    BY <1>2 DEF TableFails
  <2> QED  BY <1>4, <2>2, <2>3, <2>4 DEF MD_InitTableServices
<1>5. ~Uplinks
  BY <1>2, UplinksQuiet
<1>6. \A lost : ~Reset(lost)
  BY <1>2 DEF Reset
<1>7. CASE MainWork
  <2>1. ~RunLoop /\ ~TimeOut /\ ~PipeError
    BY <1>2 DEF RunLoop, TimeOut, PipeError
  <2>2. ~DwellStep
    <3>1. SUFFICES ASSUME DwellStep PROVE FALSE
      OBVIOUS
    <3>2. MD_DwellLoop
      BY <3>1 DEF DwellStep, MD_DwellLoop
    <3>3. Keeps(ctl[t], ctl'[t])
      BY <3>2, LoopKeeps DEF AppInv
    <3> QED  BY <3>3 DEF Keeps, Idle
  <2>3. ASSUME NEW s \in Tables, ValidateTable(s) \/ LeaveTable(s) PROVE FALSE
    BY <1>2, <2>3 DEF ValidateTable, LeaveTable
  <2>4. ASSUME NEW s \in Tables, UpdateTable(s) PROVE tbs[t].announced
    <3>1. tbs[s].request = "update" /\ CopyTable(s, tbs[s].work)
      BY <1>2, <2>4 DEF UpdateTable, GetStatus, MissCopy
    <3>2. s = t /\ ctl'[t] = Activated(ctl[t], tbs[t].work)
      BY <1>1, <3>1 DEF CopyTable
    <3>3. tbs[t].work \in BufferImage
      BY <3>1, <3>2, LoadedType, ValidImageType
      DEF AppInv, AppTypes, AppGuarded, LoadSound, LoadState
    <3>4. IdleImage(tbs[t].work)
      BY <1>1, <3>2, <3>3, ActivatedIdle
    <3> QED  BY <3>1, <3>2, <3>4 DEF AnnounceInv, Announced
  <2>5. CASE MD_ProcessCommandPacket
    <3>1. /\ ~ScanTables /\ ~MD_HkStatus /\ ~MeetStatus
          /\ ~BadGroundCommand /\ ~BadMessage
      BY <1>2 DEF ScanTables, Wakeup, MD_HkStatus, MeetStatus, BadGroundCommand,
                  BadMessage, RefuseMessage
    <3> QED  BY <2>5, <3>1, CommandIdles DEF MD_ProcessCommandPacket
  <2> QED  BY <1>7, <2>1, <2>2, <2>3, <2>4, <2>5 DEF MainWork, MD_ManageDwellTable
<1> QED  BY <1>3, <1>4, <1>5, <1>6, <1>7, AppCases

(* No stream is left enabled without a rate unannounced: the event comes   *)
(* with the command that stops it, or with the last validation before the  *)
(* image that has no rate is activated, which no load can come after.      *)
THEOREM ZeroRatesTold == AppSpec => ZeroRateTold
<1>1. AppInv /\ AnnounceInv /\ [AppNext]_allVars => AnnounceInv'
  BY AnnounceNext
<1>2. AppInv /\ AnnounceInv /\ [AppNext]_allVars =>
        [\A t \in Tables :
           Idle(ctl[t]') /\ ~Idle(ctl[t]) =>
             tbs[t].announced
               \/ events' \cap {"ZERO_RATE_CMD_INF", "ZERO_RATE_TBL_INF"} # {}]_allVars
  <2> SUFFICES ASSUME AppInv, AnnounceInv, AppNext, NEW t \in Tables,
                      Idle(ctl'[t]), ~Idle(ctl[t])
               PROVE  tbs[t].announced
                        \/ events' \cap {"ZERO_RATE_CMD_INF", "ZERO_RATE_TBL_INF"} # {}
    OBVIOUS
  <2> QED  BY StepIdles DEF ZeroRateEvents
<1> QED  BY <1>1, <1>2, AnnounceInit, AppInvariant, PTL DEF AppSpec, ZeroRateTold

-----------------------------------------------------------------------------
(* Streams that part from what is saved                                    *)

(* The store has what Table Services' buffer has of every table that       *)
(* start-up has brought up, whatever fails afterwards.                     *)
StoreInv ==
  /\ phase = "tables" => \A t \in Tables : t < at => cds[t] = buf[t]
  /\ phase \in Serving /\ RunStatus = "RUN" => \A t \in Tables : cds[t] = buf[t]

LEMMA StoreInit == AppInit => StoreInv
BY DEF AppInit, StoreInv, Serving

LEMMA StoreStartUp ==
  ASSUME AppInv, StoreInv, MD_AppInit \/ MD_InitTableServices
  PROVE  StoreInv'
<1>1. CASE MD_AppInit
  <2>1. \/ phase' = "tables" /\ at' = 0
        \/ phase' = "loop" /\ RunStatus' = "ERROR"
    BY <1>1 DEF MD_AppInit, Fail
  <2>2. \A t \in Tables : ~(t < 0)
    BY Constants
  <2> QED  BY <2>1, <2>2 DEF StoreInv, Serving
<1>2. CASE TableFails
  BY <1>2 DEF TableFails, Fail, StoreInv, Serving
<1>3. ASSUME NEW b, InitTable, \E ids : TableReady(ids),
             buf' = [buf EXCEPT ![at] = b], cds' = [cds EXCEPT ![at] = b]
      PROVE  StoreInv'
  <2>1. /\ at \in Tables /\ phase = "tables" /\ buf \in [Tables -> BufferImage]
        /\ cds \in [Tables -> TableImage \cup {NoImage}]
    BY <1>3 DEF AppInv, AppTypes, Inv, TypeOK, InitTable
  <2>2. \A t \in Tables : t < at \/ t = at => cds'[t] = buf'[t]
    BY <1>3, <2>1 DEF StoreInv
  <2>3. \/ phase' = "tables" /\ at' = at + 1
        \/ phase' = "loop" /\ at = NumTables - 1
    BY <1>3 DEF TableReady, Fail
  <2>4. CASE phase' = "tables" /\ at' = at + 1
    <3>1. \A t \in Tables : t < at' => t < at \/ t = at
      BY <2>1, <2>4, Constants
    <3> QED  BY <2>2, <2>4, <3>1 DEF StoreInv, Serving
  <2>5. CASE phase' = "loop" /\ at = NumTables - 1
    <3>1. \A t \in Tables : t < at \/ t = at
      BY <2>5, Sizes DEF Tables
    <3> QED  BY <2>2, <2>5, <3>1 DEF StoreInv
  <2> QED  BY <2>3, <2>4, <2>5
<1>4. CASE RecoverTable
  <2>1. cds' = [cds EXCEPT ![at] = cds[at]]
    BY <1>4 DEF RecoverTable, AppInv, AppTypes
  <2> QED  BY <1>3, <1>4, <2>1 DEF RecoverTable
<1>5. CASE LoadDefault
  BY <1>3, <1>5 DEF LoadDefault
<1> QED  BY <1>1, <1>2, <1>4, <1>5 DEF MD_InitTableServices

LEMMA StoreNext ==
  ASSUME AppInv, StoreInv, [AppNext]_allVars
  PROVE  StoreInv'
<1>1. CASE UNCHANGED allVars
  BY <1>1 DEF StoreInv, allVars, appVars, vars
<1>2. CASE Uplinks
  BY <1>2, UplinksQuiet DEF StoreInv, vars
<1>3. ASSUME NEW lost, Reset(lost) PROVE StoreInv'
  BY <1>3 DEF Reset, StoreInv, Serving
<1>4. CASE MainWork
  <2>1. phase \in Serving /\ phase' \notin {"init", "tables"}
    BY <1>4, MainWorkServes
  <2>2. CASE RunStatus = "ERROR"
    <3>1. phase' = "exited"
      BY <1>4, <2>2, FailedWork
    <3> QED  BY <3>1 DEF StoreInv, Serving
  <2>3. CASE RunStatus = "RUN"
    <3>1. \A t \in Tables : cds[t] = buf[t]
      BY <2>1, <2>3 DEF StoreInv
    <3>2. \A t \in Tables : cds'[t] = buf'[t]
      BY <1>4, <3>1, StoreFollows
    <3> QED  BY <2>1, <3>2 DEF StoreInv
  <2> QED  BY <2>2, <2>3 DEF AppInv, AppTypes
<1> QED  BY <1>1, <1>2, <1>3, <1>4, StoreStartUp, AppCases

(* StreamSaved for an image and a record.                                  *)
SavedAs(image, c) ==
  /\ c.Enabled = image.Enabled
  /\ c.Signature \in {NoSignature, image.Signature}
  /\ \A i \in Entries : SameEntry(image.Entry[i], c.Entry[i])

LEMMA SavedAsIs ==
  ASSUME NEW t \in Tables
  PROVE  /\ StreamSaved(t) => SavedAs(cds[t], ctl[t])
         /\ cds'[t] # NoImage /\ SavedAs(cds'[t], ctl'[t]) => StreamSaved(t)'
BY DEF StreamSaved, SavedAs

LEMMA SavedActivated ==
  ASSUME NEW c \in ControlRecord, NEW image \in BufferImage
  PROVE  SavedAs(image, Activated(c, image))
<1> DEFINE r == Activated(c, image)
<1>1. /\ r.Entry = CopiedEntries(image)
      /\ r.Enabled = image.Enabled /\ r.Signature = image.Signature
  BY ActivatedFields
<1> HIDE DEF r
<1>2. ASSUME NEW i \in Entries PROVE SameEntry(image.Entry[i], r.Entry[i])
  <2>1. r.Entry[i] = [Length |-> image.Entry[i].Length,
                      Delay |-> image.Entry[i].Delay,
                      ResolvedAddress |-> CopiedAddress(image.Entry, i)]
    BY <1>1 DEF CopiedEntries
  <2>2. Resolvable(image.Entry[i].SymName) =>
          CopiedAddress(image.Entry, i) =
            MD_ResolveSymAddr(image.Entry[i].SymName, image.Entry[i].Offset)
    BY CopiedAddressOwn
  <2> QED  BY <2>1, <2>2 DEF SameEntry
<1>3. SavedAs(image, r)
  BY <1>1, <1>2 DEF SavedAs
<1> QED  BY <1>3 DEF r

LEMMA SavedSwitched ==
  ASSUME NEW image \in BufferImage, NEW c \in ControlRecord, SavedAs(image, c)
  PROVE  /\ SavedAs([image EXCEPT !.Enabled = Dwell_ENABLED], Started(c))
         /\ SavedAs([image EXCEPT !.Enabled = Dwell_DISABLED], Stopped(c))
<1>1. \A value : LET b == [image EXCEPT !.Enabled = value]
                 IN  /\ b.Enabled = value /\ b.Signature = image.Signature
                     /\ b.Entry = image.Entry
  BY DEF BufferImage
<1>2. /\ Started(c).Enabled = Dwell_ENABLED
      /\ Started(c).Entry = c.Entry /\ Started(c).Signature = c.Signature
  BY DEF Started, MD_StartDwellStream, ControlRecord
<1>3. /\ Stopped(c).Enabled = Dwell_DISABLED
      /\ Stopped(c).Entry = c.Entry /\ Stopped(c).Signature = c.Signature
  BY DEF Stopped, ControlRecord
<1> QED  BY <1>1, <1>2, <1>3 DEF SavedAs

LEMMA SavedJammed ==
  ASSUME NEW image \in BufferImage, NEW c \in ControlRecord, SavedAs(image, c),
         NEW jam \in JamPayload, ValidJam(jam)
  PROVE  LET i == jam.EntryId - 1
             jammed == [c EXCEPT !.Entry[i] = JammedEntry(jam)]
         IN  SavedAs([image EXCEPT !.Entry[i] = JammedLoadEntry(jam)],
                     MD_UpdateDwellControlInfo(jammed))
<1> DEFINE i == jam.EntryId - 1
           b == JammedLoadEntry(jam)
           d == JammedEntry(jam)
           image2 == [image EXCEPT !.Entry[i] = b]
           c2 == [c EXCEPT !.Entry[i] = d]
           u == MD_UpdateDwellControlInfo(c2)
<1>1. i \in Entries /\ b \in LoadEntry /\ d \in ControlEntry
  BY JamTypes
<1>2. SameEntry(b, d)
  BY DEF JammedLoadEntry, JammedEntry, NullLoadEntry, NullControlEntry, SameEntry,
         MD_ResolveSymAddr
<1> HIDE DEF i, b, d
<1>3. /\ image2.Enabled = image.Enabled /\ image2.Signature = image.Signature
      /\ image2.Entry = [image.Entry EXCEPT ![i] = b]
      /\ c2.Enabled = c.Enabled /\ c2.Signature = c.Signature
      /\ c2.Entry = [c.Entry EXCEPT ![i] = d] /\ c2 \in ControlRecord
  BY <1>1, JammedType DEF BufferImage, ControlRecord
<1> HIDE DEF image2, c2
<1>4. u.Entry = c2.Entry /\ u.Enabled = c2.Enabled /\ u.Signature = c2.Signature
  BY <1>3, UpdateInfoFields
<1> HIDE DEF u
<1>5. image.Entry \in [Entries -> LoadEntry] /\ c.Entry \in [Entries -> ControlEntry]
  BY DEF BufferImage, ControlRecord
<1>6. \A j \in Entries : SameEntry(image2.Entry[j], c2.Entry[j])
  BY <1>2, <1>3, <1>5 DEF SavedAs
<1>7. SavedAs(image2, u)
  BY <1>3, <1>4, <1>6 DEF SavedAs
<1> QED  BY <1>7 DEF u, image2, c2, i, b, d

LEMMA SavedSigned ==
  ASSUME NEW image \in BufferImage, NEW c \in ControlRecord, SavedAs(image, c),
         NEW signature
  PROVE  SavedAs([image EXCEPT !.Signature = signature],
                 [c EXCEPT !.Signature = signature])
BY DEF SavedAs, BufferImage, ControlRecord

(* A command parts only those tables from the store that fail it.          *)
LEMMA CommandDrifts ==
  ASSUME AppInv, GroundCommand, NEW t \in Tables, cds[t] = buf[t],
         StreamSaved(t), ~StreamSaved(t)'
  PROVE  DriftReported
<1>1. /\ ctl \in [Tables -> ControlRecord] /\ buf \in [Tables -> BufferImage]
      /\ ctl[t] \in ControlRecord /\ buf[t] \in BufferImage
  BY DEF AppInv, Inv, TypeOK
<1>2. cds'[t] = buf'[t] /\ buf'[t] # NoImage
  <2>1. GroundCommand => [AppNext]_allVars
    BY DEF AppNext, MD_AppMain, MD_ProcessCommandPacket
  <2>2. buf'[t] \in BufferImage
    BY <2>1, StreamsInv DEF Inv, TypeOK
  <2> QED  BY <2>2, BufferIsImage, LoadedType DEF GroundCommand, Modified
<1>3. SavedAs(buf[t], ctl[t]) /\ ~SavedAs(buf'[t], ctl'[t])
  BY <1>2, SavedAsIs
<1>4. ~(buf'[t] = buf[t] /\ ctl'[t] = ctl[t])
  BY <1>3
<1>5. ASSUME Reject, NEW err \in {"UPDATE_TBL_EN_ERR", "UPDATE_TBL_DWELL_ERR",
                                  "UPDATE_TBL_SIG_ERR"},
             err \in events'
      PROVE  DriftReported
  BY <1>5, Counted DEF DriftReported
<1>6. ASSUME NEW mask, NEW failed,
             StartDwell(mask, failed) \/ StopDwell(mask, failed)
      PROVE  DriftReported
  <2>1. failed # {}
    <3>1. SUFFICES ASSUME failed = {} PROVE FALSE
      OBVIOUS
    <3>2. \/ /\ buf'[t] = [buf[t] EXCEPT !.Enabled = Dwell_ENABLED]
             /\ ctl'[t] = Started(ctl[t])
          \/ /\ buf'[t] = [buf[t] EXCEPT !.Enabled = Dwell_DISABLED]
             /\ ctl'[t] = Stopped(ctl[t])
          \/ buf'[t] = buf[t] /\ ctl'[t] = ctl[t]
      BY <1>6, <3>1 DEF StartDwell, StopDwell, MD_StartDwellCmd, MD_StopDwellCmd,
                        UpdateEnabledFields
    <3> QED  BY <1>1, <1>3, <3>2, SavedSwitched
  <2>2. Reject /\ "UPDATE_TBL_EN_ERR" \in events'
    BY <1>6, <2>1 DEF StartDwell, StopDwell, MD_StartDwellCmd, MD_StopDwellCmd,
                      UpdateEnabledFields, Verdict, Silent
  <2> QED  BY <1>5, <2>2
<1>7. ASSUME NEW jam \in JamCommands, NEW failed, JamDwell(jam, failed)
      PROVE  DriftReported
  <2> DEFINE s == jam.TableId - 1
             i == jam.EntryId - 1
             b == JammedLoadEntry(jam)
             jammed(c) == [c EXCEPT !.Entry[i] = JammedEntry(jam)]
  <2>1. MD_JamDwellCmd(jam, failed) /\ ~InvalidJam(jam) /\ ValidJam(jam)
    BY <1>4, <1>7 DEF JamDwell, InvalidJam, MD_JamDwellCmd
  <2>2. failed # {}
    <3>1. SUFFICES ASSUME failed = {} PROVE FALSE
      OBVIOUS
    <3>2. /\ ctl' = [ctl EXCEPT ![s] = MD_UpdateDwellControlInfo(jammed(ctl[s]))]
          /\ buf' = [buf EXCEPT ![s].Entry[i] = b]
      BY <2>1, <3>1 DEF MD_JamDwellCmd
    <3>3. s = t
      BY <1>1, <1>4, <3>2
    <3>4. /\ ctl'[t] = MD_UpdateDwellControlInfo(jammed(ctl[t]))
          /\ buf'[t] = [buf[t] EXCEPT !.Entry[i] = b]
      BY <1>1, <3>2, <3>3
    <3>5. jam \in JamPayload
      BY DwellStreamsAssumption DEF DwellStreamsAssumption
    <3>6. SavedAs([buf[t] EXCEPT !.Entry[i] = b],
                  MD_UpdateDwellControlInfo(jammed(ctl[t])))
      BY <1>1, <1>3, <2>1, <3>5, SavedJammed
    <3> HIDE DEF b, i, jammed
    <3> QED  BY <1>3, <3>4, <3>6
  <2>3. Reject
    BY <2>1, <2>2 DEF MD_JamDwellCmd
  <2>4. "UPDATE_TBL_DWELL_ERR" \in events'
    BY <1>7, <2>1, <2>2 DEF JamDwell, Verdict, Silent
  <2> QED  BY <1>5, <2>3, <2>4
<1>8. ASSUME NEW cmd, NEW failed, SetSignature(cmd, failed)
      PROVE  DriftReported
  <2> DEFINE s == cmd.TableId - 1
             valid == cmd.Signature \in Signatures /\ MD_ValidTableId(cmd.TableId)
  <2>1. /\ valid /\ ctl' = [ctl EXCEPT ![s].Signature = cmd.Signature]
        /\ \/ failed = {} /\ buf' = [buf EXCEPT ![s].Signature = cmd.Signature]
           \/ failed # {} /\ Reject
    BY <1>4, <1>8 DEF SetSignature, MD_SetSignatureCmd
  <2>2. failed # {}
    <3>1. SUFFICES ASSUME failed = {} PROVE FALSE
      OBVIOUS
    <3>2. buf' = [buf EXCEPT ![s].Signature = cmd.Signature]
      BY <2>1, <3>1
    <3>3. s = t
      BY <1>1, <1>4, <2>1, <3>2
    <3>4. /\ ctl'[t] = [ctl[t] EXCEPT !.Signature = cmd.Signature]
          /\ buf'[t] = [buf[t] EXCEPT !.Signature = cmd.Signature]
      BY <1>1, <2>1, <3>2, <3>3
    <3>5. SavedAs([buf[t] EXCEPT !.Signature = cmd.Signature],
                  [ctl[t] EXCEPT !.Signature = cmd.Signature])
      BY <1>1, <1>3, SavedSigned
    <3> QED  BY <1>3, <3>4, <3>5
  <2>3. cmd.Signature # Unterminated /\ MD_ValidTableId(cmd.TableId)
    BY <2>1, DwellTablesAssumption DEF DwellTablesAssumption
  <2>4. Reject /\ "UPDATE_TBL_SIG_ERR" \in events'
    BY <1>8, <2>1, <2>2, <2>3 DEF SetSignature, Verdict, Silent
  <2> QED  BY <1>5, <2>4
<1>9. \A mask, failed : ~NoTables(mask, failed)
  BY <1>4 DEF NoTables, EmptyMask
<1>10. ~MD_NoopCmd /\ ~MD_ResetCountersCmd
  BY <1>4 DEF MD_NoopCmd, MD_ResetCountersCmd
<1>11. PICK value :
         \/ \E mask : StartDwell(mask, value) \/ StopDwell(mask, value)
         \/ \E jam \in JamCommands : JamDwell(jam, value)
         \/ \E cmd : SetSignature(cmd, value)
  BY <1>9, <1>10 DEF GroundCommand
<1> QED  BY <1>6, <1>7, <1>8, <1>11

LEMMA WorkDrifts ==
  ASSUME AppInv, StoreInv, MainWork, NEW t \in Tables,
         StreamSaved(t), ~StreamSaved(t)'
  PROVE  DriftReported
<1>1. ctl \in [Tables -> ControlRecord] /\ ctl[t] \in ControlRecord
  BY DEF AppInv, Inv, TypeOK
<1>2. ASSUME cds'[t] = cds[t], ctl'[t].Enabled = ctl[t].Enabled,
             ctl'[t].Signature = ctl[t].Signature, ctl'[t].Entry = ctl[t].Entry
      PROVE  FALSE
  BY <1>2 DEF StreamSaved
<1>3. ~UNCHANGED <<ctl, cds>>
  BY <1>2
<1>4. ~RunLoop /\ ~TimeOut /\ ~PipeError
  BY <1>3 DEF RunLoop, TimeOut, PipeError, vars
<1>5. ~DwellStep
  <2>1. SUFFICES ASSUME DwellStep PROVE FALSE
    OBVIOUS
  <2>2. MD_DwellLoop /\ cds' = cds
    BY <2>1 DEF DwellStep, MD_DwellLoop
  <2>3. Keeps(ctl[t], ctl'[t])
    BY <2>2, LoopKeeps DEF AppInv
  <2> QED  BY <1>2, <2>2, <2>3 DEF Keeps
<1>6. ASSUME NEW s \in Tables, ValidateTable(s) \/ LeaveTable(s) PROVE FALSE
  BY <1>3, <1>6 DEF ValidateTable, LeaveTable, vars
<1>7. ASSUME NEW s \in Tables, UpdateTable(s) PROVE DriftReported
  <2>1. /\ phase = "manage" /\ tbs[s].request = "update"
        /\ cds' = [cds EXCEPT ![s] = tbs[s].work]
    BY <1>7 DEF UpdateTable, GetStatus
  <2>2. CASE MissCopy(s, tbs[s].work) /\ Silent({"NO_TBL_COPY_ERR"})
    BY <2>1, <2>2 DEF DriftReported, Silent
  <2>3. CASE CopyTable(s, tbs[s].work)
    <3>1. ctl' = [ctl EXCEPT ![s] = Activated(ctl[s], tbs[s].work)]
      BY <2>3 DEF CopyTable
    <3>2. s = t
      <4>1. SUFFICES ASSUME s # t PROVE FALSE
        OBVIOUS
      <4>2. cds'[t] = cds[t] /\ ctl'[t] = ctl[t]
        BY <1>1, <2>1, <3>1, <4>1 DEF AppInv, AppTypes
      <4> QED  BY <1>2, <4>2
    <3>3. ctl'[t] = Activated(ctl[t], tbs[t].work) /\ cds'[t] = tbs[t].work
      BY <1>1, <2>1, <3>1, <3>2 DEF AppInv, AppTypes
    <3>4. tbs[t].work \in BufferImage /\ tbs[t].work # NoImage
      BY <2>1, <3>2, LoadedType, ValidImageType
      DEF AppInv, AppTypes, AppGuarded, LoadSound, LoadState
    <3>5. SavedAs(tbs[t].work, Activated(ctl[t], tbs[t].work))
      BY <1>1, <3>4, SavedActivated
    <3> QED  BY <3>3, <3>4, <3>5, SavedAsIs
  <2> QED  BY <1>7, <2>2, <2>3 DEF UpdateTable
<1>8. CASE MD_ProcessCommandPacket
  <2>1. /\ ~ScanTables /\ ~MD_HkStatus /\ ~MeetStatus
        /\ ~BadGroundCommand /\ ~BadMessage
    BY <1>3 DEF ScanTables, Wakeup, MD_HkStatus, MeetStatus, BadGroundCommand,
                BadMessage, RefuseMessage, vars
  <2>2. GroundCommand
    BY <1>8, <2>1 DEF MD_ProcessCommandPacket
  <2>3. phase = "receive"
    BY <2>2 DEF GroundCommand, Receive
  <2>4. RunStatus = "RUN"
    BY <2>3 DEF AppInv, AppTypes, AppGuarded
  <2>5. cds[t] = buf[t]
    BY <2>3, <2>4 DEF StoreInv, Serving
  <2> QED  BY <2>2, <2>5, CommandDrifts
<1> QED  BY <1>4, <1>5, <1>6, <1>7, <1>8 DEF MainWork, MD_ManageDwellTable

(* A table's record parts from what a reset would restore only where a     *)
(* service fails, and then the ground is told: whatever loads, commands,   *)
(* failures and resets came before, in any order.                          *)
THEOREM DriftsTold == AppSpec => DriftTold
<1>1. AppInv /\ StoreInv /\ [AppNext]_allVars => StoreInv'
  BY StoreNext
<1>2. AppInv /\ StoreInv /\ [AppNext]_allVars =>
        [phase' # "init" /\ phase \in Serving =>
           \A t \in Tables : StreamSaved(t) /\ ~StreamSaved(t)' => DriftReported]_allVars
  <2> SUFFICES ASSUME AppInv, StoreInv, AppNext, phase' # "init", phase \in Serving,
                      NEW t \in Tables, StreamSaved(t), ~StreamSaved(t)'
               PROVE  DriftReported
    OBVIOUS
  <2>1. ~MD_AppInit /\ ~MD_InitTableServices
    BY DEF MD_AppInit, MD_InitTableServices, RecoverTable, LoadDefault,
           TableFails, InitTable, Serving
  <2>2. ~Uplinks
    <3>1. Uplinks => StreamSaved(t)'
      BY UplinksQuiet DEF StreamSaved, vars
    <3> QED  BY <3>1
  <2>3. \A lost : ~Reset(lost)
    BY DEF Reset
  <2> QED  BY <2>1, <2>2, <2>3, WorkDrifts, AppCases
<1> QED  BY <1>1, <1>2, StoreInit, AppInvariant, PTL DEF AppSpec, DriftTold

-----------------------------------------------------------------------------
(* Housekeeping                                                            *)

(* The mask has the bits of the tables' Enabled fields.                    *)
LEMMA MaskBits ==
  ASSUME NEW c \in [Tables -> ControlRecord], NEW t \in Tables
  PROVE  HasBit(EnabledMask(c), t, c[t].Enabled)
<1> DEFINE v == [s \in Tables |-> c[s].Enabled * Bit[s]]
           Mask(f) == f = [n \in 0..NumTables |->
             IF n = 0 THEN 0 ELSE f[n - 1] + c[n - 1].Enabled * Bit[n - 1]]
<1>1. /\ NumTables \in Nat /\ NumTables <= 16 /\ Tables = 0..(NumTables - 1)
      /\ \A s \in Tables : c[s].Enabled \in {0, 1}
  <2>1. NumTables \in 1..16
    BY DwellTablesAssumption DEF DwellTablesAssumption
  <2>2. \A s \in Tables : c[s].Enabled \in {0, 1}
    BY DEF ControlRecord, Dwell_ENABLED, Dwell_DISABLED
  <2> QED  BY <2>1, <2>2 DEF Tables
<1>2. \E f : Mask(f)
  <2>1. PICK f : f = [n \in 0..NumTables |-> IF n = 0 THEN 0 ELSE f[n - 1] + v[n - 1]]
    BY <1>1, PrefixSumExists
  <2>2. \A n \in 0..NumTables :
          n # 0 => v[n - 1] = c[n - 1].Enabled * Bit[n - 1]
    BY <1>1
  <2> HIDE DEF v
  <2>3. Mask(f)
    BY <2>1, <2>2
  <2> QED  BY <2>3
<1>3. PICK mask : Mask(mask) /\ EnabledMask(c) = mask[NumTables]
  BY <1>2 DEF EnabledMask
<1> DEFINE Right(n) == /\ mask[n] \in 0..(Bit[n] - 1)
                       /\ \A s \in 0..(n - 1) : HasBit(mask[n], s, c[s].Enabled)
           Bad == {n \in 0..NumTables : ~Right(n)}
<1>4. SUFFICES Bad = {}
  <2>1. NumTables \in 0..NumTables /\ t \in 0..(NumTables - 1)
    BY <1>1
  <2>2. Bad = {} => Right(NumTables)
    BY <2>1
  <2> HIDE DEF Bad
  <2> QED  BY <1>3, <2>1, <2>2
<1>5. SUFFICES ASSUME Bad # {} PROVE FALSE
  OBVIOUS
<1>6. PICK m \in Bad : \A k \in Bad : m <= k
  <2>1. Bad \in SUBSET Nat  BY <1>1
  <2> HIDE DEF Bad
  <2> QED  BY <1>5, <2>1, LeastNat
<1>7. m \in 0..NumTables /\ ~Right(m)
  BY <1>6
<1>8. m # 0
  <2>1. mask[0] = 0  BY <1>1, <1>3
  <2>2. Right(0)  BY <2>1, BitEquation
  <2> HIDE DEF Right
  <2> QED  BY <1>7, <2>2
<1> DEFINE n == m - 1
           e == c[n].Enabled
<1>9. n \in 0..15 /\ n \in Tables /\ n + 1 = m /\ m - 1 = n
  BY <1>1, <1>7, <1>8
<1>10. mask[m] = mask[n] + e * Bit[n]
  BY <1>3, <1>7, <1>8
<1>11. Right(n)
  <2>1. n \in 0..NumTables /\ n < m
    BY <1>1, <1>7, <1>9
  <2>2. n \notin Bad
    <3> HIDE DEF Bad
    <3> QED  BY <1>6, <1>7, <1>1, <2>1
  <2> HIDE DEF Right
  <2> QED  BY <2>1, <2>2
<1> HIDE DEF n
<1>12. e \in {0, 1} /\ Bit[m] = 2 * Bit[n] /\ Bit[n] \in Nat /\ mask[n] \in 0..(Bit[n] - 1)
  <2>1. e \in {0, 1}
    BY <1>1, <1>9
  <2>2. Bit[m] = 2 * Bit[n]
    BY <1>9, BitEquation
  <2>3. Bit[n] \in Nat
    BY <1>9, BitType
  <2> QED  BY <1>11, <2>1, <2>2, <2>3
<1> HIDE DEF e
<1>13. mask[m] \in 0..(Bit[m] - 1)
  BY <1>10, <1>12
<1>14. HasBit(mask[m], n, e)
  <2>1. mask[m] = (2 * 0 + e) * Bit[n] + mask[n]
    BY <1>10, <1>12
  <2> QED  BY <1>12, <2>1 DEF HasBit
<1>15. ASSUME NEW s \in 0..(m - 1) PROVE HasBit(mask[m], s, c[s].Enabled)
  <2>1. CASE s = n
    BY <1>14, <2>1 DEF e
  <2>2. CASE s # n
    <3>1. s \in 0..(n - 1) /\ s < n /\ s \in 0..15 /\ s \in Tables
      BY <1>1, <1>7, <1>9, <2>2
    <3>2. HasBit(mask[n], s, c[s].Enabled) /\ c[s].Enabled \in {0, 1}
      BY <1>1, <1>11, <3>1
    <3>3. HasBit(mask[n] + e * Bit[n], s, c[s].Enabled)
      BY <1>9, <1>12, <3>1, <3>2, BitAdded
    <3> QED  BY <1>10, <3>3
  <2> QED  BY <2>1, <2>2
<1> QED  BY <1>7, <1>13, <1>15

(* A housekeeping packet that was just sent is one of the records as they  *)
(* are.                                                                    *)
HkInv == hk # NoHk => hk = HkPacket

LEMMA HkInit == AppInit => HkInv
BY DEF AppInit, HkInv

LEMMA HkKept == ASSUME HkInv, hk' = hk, UNCHANGED vars PROVE HkInv'
BY DEF HkInv, HkPacket, vars

LEMMA HkNext == HkInv /\ [AppNext]_allVars => HkInv'
<1> SUFFICES ASSUME HkInv, [AppNext]_allVars PROVE HkInv'
  OBVIOUS
<1>1. CASE UNCHANGED allVars
  <2>1. hk' = hk /\ UNCHANGED vars
    BY <1>1 DEF allVars, appVars
  <2> QED  BY <2>1, HkKept
<1>2. CASE MD_HkStatus
  BY <1>2 DEF MD_HkStatus, HkInv, HkPacket, vars
<1>3. CASE \E t \in Tables : Uplink(t)
  <2>1. hk' = hk /\ UNCHANGED vars
    BY <1>3 DEF Uplink
  <2> QED  BY <2>1, HkKept
<1>4. CASE \E ids : Silent(ids)
  BY <1>4 DEF Silent, HkInv
<1>5. AppNext => MD_HkStatus \/ (\E t \in Tables : Uplink(t)) \/ \E ids : Silent(ids)
  <2>1. MD_AppInit \/ MD_InitTableServices => \E ids : Silent(ids)
    BY DEF MD_AppInit, MD_InitTableServices, RecoverTable, LoadDefault,
           TableFails, TableReady
  <2>2. RunLoop \/ MD_ManageDwellTable \/ TimeOut \/ PipeError \/ DwellStep
          => \E ids : Silent(ids)
    BY DEF RunLoop, MD_ManageDwellTable, ValidateTable, UpdateTable, LeaveTable,
           TimeOut, PipeError, DwellStep
  <2>3. MD_ProcessCommandPacket => MD_HkStatus \/ \E ids : Silent(ids)
    BY DEF MD_ProcessCommandPacket, ScanTables, GroundCommand, MeetStatus,
           BadGroundCommand, BadMessage, StartDwell, StopDwell, NoTables, JamDwell,
           SetSignature
  <2>4. Environment => (\E t \in Tables : Uplink(t)) \/ \E ids : Silent(ids)
    BY DEF Environment, TblLoad, TblValidate, TblActivate, Reset
  <2> QED  BY <2>1, <2>2, <2>3, <2>4 DEF AppNext, MD_AppMain
<1> QED  BY <1>1, <1>2, <1>3, <1>4, <1>5

(* The rates that the packet's 16 bits can show.                           *)
RatesFit == \A t \in Tables : ctl[t].Rate < HkModulus

LEMMA HkTells == Inv /\ HkInv /\ RatesFit => HkShowsActivity
<1> SUFFICES ASSUME Inv, HkInv, RatesFit, hk # NoHk, NEW t \in Tables
             PROVE  Running(ctl[t]) <=> /\ MD_TableIsInMask(t, hk.DwellEnabledMask)
                                        /\ hk.NumWaitsPerPkt[t] > 0
  BY DEF HkShowsActivity
<1> DEFINE c == ctl[t]
<1>1. c \in ControlRecord /\ ctl \in [Tables -> ControlRecord] /\ t \in 0..15
  <2>1. NumTables \in 1..16
    BY DwellTablesAssumption DEF DwellTablesAssumption
  <2>2. t \in 0..15
    BY <2>1 DEF Tables
  <2> QED  BY <2>2 DEF Inv, TypeOK
<1>2. /\ hk.DwellEnabledMask = EnabledMask(ctl)
      /\ hk.NumWaitsPerPkt[t] = c.Rate % HkModulus
  BY DEF HkInv, HkPacket
<1>3. c.Enabled \in {0, 1} /\ c.Rate \in Nat
  BY <1>1, Sizes DEF ControlRecord, Dwell_ENABLED, Dwell_DISABLED
<1>4. MD_TableIsInMask(t, hk.DwellEnabledMask) <=> c.Enabled = 1
  BY <1>1, <1>2, <1>3, MaskBits, BitIsInMask
<1>5. c.Rate % HkModulus = c.Rate
  BY <1>3, Sizes DEF RatesFit, HkModulus
<1> QED  BY <1>2, <1>3, <1>4, <1>5 DEF Running, Dwell_ENABLED

(* Housekeeping shows exactly the streams that run, whatever comes between *)
(* requests, as long as the packet's 16 bits can show their rates.         *)
THEOREM HousekeepingTells == AppSpec /\ []RatesFit => []HkShowsActivity
<1>1. AppSpec => []AppInv
  BY AppInvariant
<1>2. AppInv => Inv
  BY DEF AppInv
<1> QED  BY <1>1, <1>2, HkInit, HkNext, HkTells, PTL DEF AppSpec
=============================================================================
