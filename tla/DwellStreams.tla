---------------------------- MODULE DwellStreams ----------------------------
(***************************************************************************)
(* The core of Memory Dwell: the dwell packet streams.  One task owns the  *)
(* control records; between messages it waits ("wait"), and on a wakeup    *)
(* message MD_DwellLoop visits every dwell table in turn ("scan"), taking  *)
(* data for the entries that are due ("collect") and sending the packet    *)
(* of a table once its last active entry is read.  Commands and table      *)
(* loads are handled between two wakeups and change the records the next   *)
(* wakeup goes on with, in the middle of a packet or not.                  *)
(*                                                                         *)
(* The packet loop is one step per iteration, so that a loop that does not *)
(* end is a behavior of the model and not an expression it cannot value.   *)
(***************************************************************************)
EXTENDS DwellTables

CONSTANTS
  CounterModulus,     \* 256: CmdCounter and ErrCounter are uint8
  DefaultSignature,   \* the signature in the default table files
  SavedImages,        \* table images a reset may find saved
  LoadImages,         \* table images the ground may load
  StartStopMasks,     \* TableMask values of Start and Stop commands
  JamCommands,        \* payloads of Jam commands
  SignatureCommands,  \* payloads of Set Signature commands
  TblFaults,          \* whether CFE_TBL_GetAddress may fail
  ReadFaults          \* whether a PSP memory read may fail

ASSUME DwellStreamsAssumption ==
  /\ CounterModulus \in Nat \ {0}
  /\ DefaultSignature \in Signatures
  /\ StartStopMasks \subseteq UINT16
  /\ TblFaults \in BOOLEAN /\ ReadFaults \in BOOLEAN
  /\ SavedImages \subseteq TableImage /\ LoadImages \subseteq TableImage
  /\ JamCommands \subseteq JamPayload
  /\ SignatureCommands \subseteq
       [TableId : UINT16, Signature : Signatures \cup {Unterminated}]

VARIABLES
  ctl,         \* MD_AppData.MD_DwellTables: the control records
  buf,         \* the table images in Table Services' buffers
  CmdCounter,
  ErrCounter,
  pc,          \* what the task is doing
  cur,         \* TblIndex of MD_DwellLoop
  tlm,         \* the dwell packet the last step transmitted, or NoPacket
  collected,   \* auxiliary: the bytes of each packet's Data written so far
  disturbed,   \* auxiliary: the packet in the making met a jam or bad read
  sent         \* auxiliary: packets of each table in this wakeup (at most 2)

vars == <<ctl, buf, CmdCounter, ErrCounter, pc, cur, tlm,
          collected, disturbed, sent>>

NoPacket == [TableId |-> 0]

(* Mutant of Running: having entries is taken for having a rate.           *)
HasEntries(c) == c.Enabled = Dwell_ENABLED /\ c.AddrCount > 0

Running(c) == c.Enabled = Dwell_ENABLED /\ c.Rate > 0

(* What the switch in MD_GetDwellData can read: a field of 1, 2 or 4 bytes *)
(* at an address that the validity checks accept.                          *)
ReadableEntry(e) ==
  /\ e.Length \in {1, 2, 4}
  /\ MD_ValidAddrRange(e.ResolvedAddress, e.Length)
  /\ Aligned(e.ResolvedAddress, e.Length)

-----------------------------------------------------------------------------
(* Start-up: MD_InitTableServices found for each table either a valid      *)
(* image to recover or nothing, and then loaded the default file.          *)

DefaultImage == DefaultTable(DefaultSignature)

RecoverableImages ==
  {image \in SavedImages : MD_TableValidationFunc(image)} \cup {DefaultImage}

Init ==
  /\ \E recovered \in SUBSET Tables :
       /\ buf \in [Tables -> RecoverableImages]
       /\ \A t \in Tables \ recovered : buf[t] = DefaultImage
       /\ ctl = [t \in Tables |->
                  IF t \in recovered THEN Activated(InitialControl, buf[t])
                                     ELSE InitialControl]
  /\ CmdCounter = 0 /\ ErrCounter = 0
  /\ pc = "wait" /\ cur = 0 /\ tlm = NoPacket
  /\ collected = [t \in Tables |-> {}]
  /\ disturbed = [t \in Tables |-> FALSE]
  /\ sent = [t \in Tables |-> 0]

-----------------------------------------------------------------------------
(* MD_DwellLoop                                                            *)

(* A wakeup message of the expected length starts the scan of the tables.  *)
Wakeup ==
  /\ pc = "wait"
  /\ pc' = "scan" /\ cur' = 0 /\ tlm' = NoPacket
  /\ sent' = [t \in Tables |-> 0]
  /\ UNCHANGED <<ctl, buf, CmdCounter, ErrCounter, collected, disturbed>>

(* Mutant of NextTable: one table too many.                                *)
NextTableLate ==
  IF cur = NumTables THEN pc' = "wait" /\ cur' = 0
                     ELSE pc' = "scan" /\ cur' = cur + 1

(* On to the next table, or back to the pipe after the last one.           *)
NextTable ==
  IF cur = NumTables - 1 THEN pc' = "wait" /\ cur' = 0
                         ELSE pc' = "scan" /\ cur' = cur + 1

SkipTable ==
  /\ pc = "scan" /\ ~Running(ctl[cur])
  /\ NextTable
  /\ tlm' = NoPacket
  /\ UNCHANGED <<ctl, buf, CmdCounter, ErrCounter,
                 collected, disturbed, sent>>

(* The packet MD_SendDwellPkt transmits.  Its data region is represented   *)
(* by the bytes written since the packet was begun.                        *)
MD_SendDwellPkt(t, c, bytes, spoilt) ==
  [TableId |-> t + 1, AddrCount |-> c.AddrCount % 256, Rate |-> c.Rate,
   Signature |-> c.Signature, ByteCount |-> c.DataSize,
   Collected |-> bytes, Disturbed |-> spoilt]

Transmit(t, bytes, spoilt) ==
  /\ tlm' = MD_SendDwellPkt(t, ctl[t], bytes, spoilt)
  /\ sent' = [sent EXCEPT ![t] = IF @ < 2 THEN @ + 1 ELSE 2]
  /\ collected' = [collected EXCEPT ![t] = {}]
  /\ disturbed' = [disturbed EXCEPT ![t] = FALSE]

(* Mutant of FlushPacket: the countdown goes on from where it was.         *)
FlushWithoutCountdown ==
  /\ pc = "scan" /\ Running(ctl[cur])
  /\ ctl[cur].CurrentEntry >= ctl[cur].AddrCount
  /\ Transmit(cur, collected[cur], disturbed[cur])
  /\ ctl' = [ctl EXCEPT ![cur].CurrentEntry = 0, ![cur].PktOffset = 0]
  /\ NextTable
  /\ UNCHANGED <<buf, CmdCounter, ErrCounter>>

(* A jam shortened the table below the entries already collected: the      *)
(* packet is full as it stands.                                            *)
FlushPacket ==
  /\ pc = "scan" /\ Running(ctl[cur])
  /\ ctl[cur].CurrentEntry >= ctl[cur].AddrCount
  /\ Transmit(cur, collected[cur], disturbed[cur])
  /\ ctl' = [ctl EXCEPT ![cur].CurrentEntry = 0,
                        ![cur].PktOffset = 0,
                        ![cur].Countdown = 
                           ctl[cur].Entry[ctl[cur].AddrCount - 1].Delay]
  /\ NextTable
  /\ UNCHANGED <<buf, CmdCounter, ErrCounter>>

(* Mutants of CountDown: without the special case of a packet that is full *)
(* already, testing the countdown before its decrement, and with a guard   *)
(* against wrapping that also keeps 1 from 0.                              *)
CountDownAlways ==
  /\ pc = "scan" /\ Running(ctl[cur])
  /\ LET count == (ctl[cur].Countdown - 1) % CountModulus
     IN  /\ ctl' = [ctl EXCEPT ![cur].Countdown = count]
         /\ IF count = 0 THEN pc' = "collect" /\ cur' = cur ELSE NextTable
  /\ tlm' = NoPacket
  /\ UNCHANGED <<buf, CmdCounter, ErrCounter, collected, disturbed, sent>>

CountDownLate ==
  /\ pc = "scan" /\ Running(ctl[cur])
  /\ ctl[cur].CurrentEntry < ctl[cur].AddrCount
  /\ ctl' = [ctl EXCEPT ![cur].Countdown = (@ - 1) % CountModulus]
  /\ IF ctl[cur].Countdown = 0 THEN pc' = "collect" /\ cur' = cur ELSE NextTable
  /\ tlm' = NoPacket
  /\ UNCHANGED <<buf, CmdCounter, ErrCounter, collected, disturbed, sent>>

CountDownToOne ==
  /\ pc = "scan" /\ Running(ctl[cur])
  /\ ctl[cur].CurrentEntry < ctl[cur].AddrCount
  /\ ctl' = [ctl EXCEPT ![cur].Countdown = IF @ > 1 THEN @ - 1 ELSE @]
  /\ NextTable
  /\ tlm' = NoPacket
  /\ UNCHANGED <<buf, CmdCounter, ErrCounter, collected, disturbed, sent>>

(* Decrement the uint32 countdown; at zero the next entry is due.          *)
CountDown ==
  /\ pc = "scan" /\ Running(ctl[cur])
  /\ ctl[cur].CurrentEntry < ctl[cur].AddrCount
  /\ LET count == (ctl[cur].Countdown - 1) % CountModulus
     IN  /\ ctl' = [ctl EXCEPT ![cur].Countdown = count]
         /\ IF count = 0 THEN pc' = "collect" /\ cur' = cur ELSE NextTable
  /\ tlm' = NoPacket
  /\ UNCHANGED <<buf, CmdCounter, ErrCounter, collected, disturbed, sent>>

(* One iteration of the while loop: MD_GetDwellData for the current entry, *)
(* whose Length is narrowed to a uint8, and the packet if it was the last  *)
(* active one.  A read that fails leaves its bytes as they were but moves  *)
(* the write offset on.                                                    *)
Collect(ok) ==
  LET c     == ctl[cur]
      e     == c.Entry[c.CurrentEntry]
      n     == e.Length % 256
      last  == c.CurrentEntry = c.AddrCount - 1
      bytes == collected[cur] \cup
                 (IF ok THEN c.PktOffset..(c.PktOffset + n - 1) ELSE {})
      spoilt == disturbed[cur] \/ ~ok
  IN  /\ pc = "collect"
      /\ ok => n \in {1, 2, 4}
      /\ ~ok => ReadFaults \/ n \notin {1, 2, 4}
      /\ ctl' = [ctl EXCEPT
                   ![cur].Countdown = e.Delay,
                   ![cur].CurrentEntry = IF last THEN 0 ELSE @ + 1,
                   ![cur].PktOffset = IF last THEN 0 ELSE (@ + n) % Word]
      /\ IF last
         THEN Transmit(cur, bytes, spoilt)
         ELSE /\ collected' = [collected EXCEPT ![cur] = bytes]
              /\ disturbed' = [disturbed EXCEPT ![cur] = spoilt]
              /\ tlm' = NoPacket
              /\ UNCHANGED sent
      /\ IF e.Delay = 0 THEN UNCHANGED <<pc, cur>> ELSE NextTable
      /\ UNCHANGED <<buf, CmdCounter, ErrCounter>>

MD_DwellLoop ==
  SkipTable \/ FlushPacket \/ CountDown \/ \E ok \in BOOLEAN : Collect(ok)

-----------------------------------------------------------------------------
(* Commands and table loads: handled while no scan is under way            *)

Accept == CmdCounter' = (CmdCounter + 1) % CounterModulus /\ UNCHANGED ErrCounter
Reject == ErrCounter' = (ErrCounter + 1) % CounterModulus /\ UNCHANGED CmdCounter

Between == pc = "wait" /\ tlm' = NoPacket /\ UNCHANGED <<pc, cur, sent>>

(* The packets of these tables begin anew.                                 *)
Discard(ts) ==
  /\ collected' = [t \in Tables |-> IF t \in ts THEN {} ELSE collected[t]]
  /\ disturbed' = [t \in Tables |-> IF t \in ts THEN FALSE ELSE disturbed[t]]

(* The tables of ts whose address a handler may fail to get.               *)
Faulty(ts) == IF TblFaults THEN SUBSET ts ELSE {{}}

Selected(mask) == {t \in Tables : MD_TableIsInMask(t, mask)}

(* Mutant of UpdateEnabledFields: only the first table's image is written. *)
UpdateFirstEnabledField(ts, failed, value) ==
  /\ buf' = [t \in Tables |->
               IF t \in ts \ failed /\ t = Min(ts)
               THEN [buf[t] EXCEPT !.Enabled = value] ELSE buf[t]]
  /\ IF failed = {} THEN Accept ELSE Reject

(* Mutant of UpdateEnabledFields: the status of the last table stands for  *)
(* all of them.                                                            *)
UpdateEnabledLastOnly(ts, failed, value) ==
  /\ buf' = [t \in Tables |->
               IF t \in ts \ failed THEN [buf[t] EXCEPT !.Enabled = value]
                                    ELSE buf[t]]
  /\ IF Max(ts) \in failed THEN Reject ELSE Accept

(* MD_UpdateTableEnabledField for each selected table, which cannot get    *)
(* the address of the failed ones, and the verdict over all of them.       *)
UpdateEnabledFields(ts, failed, value) ==
  /\ buf' = [t \in Tables |->
               IF t \in ts \ failed THEN [buf[t] EXCEPT !.Enabled = value]
                                    ELSE buf[t]]
  /\ IF failed = {} THEN Accept ELSE Reject

MD_StartDwellCmd(mask, failed) ==
  LET ts == Selected(mask)
  IN  /\ Between
      /\ ts # {} /\ failed \in Faulty(ts)
      /\ ctl' = [t \in Tables |-> IF t \in ts THEN Started(ctl[t]) ELSE ctl[t]]
      /\ Discard(ts)
      /\ UpdateEnabledFields(ts, failed, Dwell_ENABLED)

MD_StopDwellCmd(mask, failed) ==
  LET ts == Selected(mask)
  IN  /\ Between
      /\ ts # {} /\ failed \in Faulty(ts)
      /\ ctl' = [t \in Tables |-> IF t \in ts THEN Stopped(ctl[t]) ELSE ctl[t]]
      /\ Discard(ts)
      /\ UpdateEnabledFields(ts, failed, Dwell_DISABLED)

(* Either command rejects a mask with no table of this system in it.       *)
EmptyMask(mask) ==
  /\ Between
  /\ Selected(mask) = {}
  /\ Reject
  /\ UNCHANGED <<ctl, buf, collected, disturbed>>

(* Mutant of MD_JamDwellCmd: the status of the update is not looked at.    *)
JamWhateverStatus(jam, failed) ==
  LET t == jam.TableId - 1
      i == jam.EntryId - 1
      jammed == [ctl[t] EXCEPT !.Entry[i] = JammedEntry(jam)]
  IN  /\ Between
      /\ ValidJam(jam) /\ failed \in Faulty({t})
      /\ ctl' = [ctl EXCEPT ![t] = MD_UpdateDwellControlInfo(jammed)]
      /\ buf' = IF failed = {} THEN [buf EXCEPT ![t].Entry[i] = JammedLoadEntry(jam)]
                              ELSE buf
      /\ Accept
      /\ disturbed' = [disturbed EXCEPT ![t] = @ \/ ctl[t].CurrentEntry > 0]
      /\ UNCHANGED collected

(* The local entry is written first, then Table Services' buffer; only if  *)
(* both succeed are the record's totals brought up to date.                *)
MD_JamDwellCmd(jam, failed) ==
  LET t == jam.TableId - 1
      i == jam.EntryId - 1
      jammed == [ctl[t] EXCEPT !.Entry[i] = JammedEntry(jam)]
  IN  /\ Between
      /\ ValidJam(jam) /\ failed \in Faulty({t})
      /\ \/ /\ failed = {}
            /\ ctl' = [ctl EXCEPT ![t] = MD_UpdateDwellControlInfo(jammed)]
            /\ buf' = [buf EXCEPT ![t].Entry[i] = JammedLoadEntry(jam)]
            /\ Accept
         \/ /\ failed # {}
            /\ ctl' = [ctl EXCEPT ![t] = jammed]
            /\ Reject
            /\ UNCHANGED buf
      /\ disturbed' = [disturbed EXCEPT ![t] = @ \/ ctl[t].CurrentEntry > 0]
      /\ UNCHANGED collected

(* Mutant of InvalidJam: the entry is written before it is checked.        *)
JamBeforeChecks(jam) ==
  /\ Between
  /\ ~ValidJam(jam)
  /\ Reject
  /\ IF MD_ValidTableId(jam.TableId) /\ MD_ValidEntryId(jam.EntryId)
     THEN ctl' = [ctl EXCEPT ![jam.TableId - 1].Entry[jam.EntryId - 1] =
                    [Length |-> jam.FieldLength, Delay |-> jam.DwellDelay,
                     ResolvedAddress |-> 0]]
     ELSE UNCHANGED ctl
  /\ UNCHANGED <<buf, collected, disturbed>>

InvalidJam(jam) ==
  /\ Between
  /\ ~ValidJam(jam)
  /\ Reject
  /\ UNCHANGED <<ctl, buf, collected, disturbed>>

MD_SetSignatureCmd(cmd, failed) ==
  LET t == cmd.TableId - 1
      valid == cmd.Signature \in Signatures /\ MD_ValidTableId(cmd.TableId)
  IN  /\ Between
      /\ \/ /\ valid /\ failed \in Faulty({t})
            /\ ctl' = [ctl EXCEPT ![t].Signature = cmd.Signature]
            /\ \/ /\ failed = {}
                  /\ buf' = [buf EXCEPT ![t].Signature = cmd.Signature]
                  /\ Accept
               \/ failed # {} /\ Reject /\ UNCHANGED buf
         \/ ~valid /\ failed = {} /\ Reject /\ UNCHANGED <<ctl, buf>>
      /\ UNCHANGED <<collected, disturbed>>

(* Table Services makes the image the table's content, and                 *)
(* MD_ManageDwellTable copies it, unless it cannot get the table's address.*)
CopyTable(t, image) ==
  /\ Between
  /\ buf' = [buf EXCEPT ![t] = image]
  /\ ctl' = [ctl EXCEPT ![t] = Activated(ctl[t], image)]
  /\ Discard(IF image.Enabled = Dwell_ENABLED THEN {t} ELSE {})
  /\ UNCHANGED <<CmdCounter, ErrCounter>>

MissCopy(t, image) ==
  /\ Between
  /\ TblFaults
  /\ buf' = [buf EXCEPT ![t] = image]
  /\ UNCHANGED <<ctl, collected, disturbed, CmdCounter, ErrCounter>>

(* A loaded image that passed MD_TableValidationFunc is activated.         *)
LoadTable(t, image) ==
  /\ MD_TableValidationFunc(image)
  /\ CopyTable(t, image) \/ MissCopy(t, image)

MD_NoopCmd ==
  Between /\ Accept /\ UNCHANGED <<ctl, buf, collected, disturbed>>

MD_ResetCountersCmd ==
  /\ Between
  /\ CmdCounter' = 0 /\ ErrCounter' = 0
  /\ UNCHANGED <<ctl, buf, collected, disturbed>>

(* A message the dispatcher counts as an error before any handler sees it. *)
RefuseMessage ==
  Between /\ Reject /\ UNCHANGED <<ctl, buf, collected, disturbed>>

Command ==
  \/ \E mask \in StartStopMasks, failed \in SUBSET Tables :
       MD_StartDwellCmd(mask, failed) \/ MD_StopDwellCmd(mask, failed)
  \/ \E mask \in StartStopMasks : EmptyMask(mask)
  \/ \E jam \in JamCommands, failed \in SUBSET Tables : MD_JamDwellCmd(jam, failed)
  \/ \E jam \in JamCommands : InvalidJam(jam)
  \/ \E cmd \in SignatureCommands, failed \in SUBSET Tables :
       MD_SetSignatureCmd(cmd, failed)
  \/ MD_NoopCmd
  \/ MD_ResetCountersCmd
  \/ RefuseMessage

Load == \E t \in Tables, image \in LoadImages : LoadTable(t, image)

Next == Wakeup \/ MD_DwellLoop \/ Command \/ Load

(* The task runs its loop to the end, and the scheduler application keeps  *)
(* sending wakeup messages.                                                *)
Fairness == WF_vars(MD_DwellLoop) /\ WF_vars(Wakeup)

Spec == Init /\ [][Next]_vars /\ Fairness

-----------------------------------------------------------------------------
(* Correctness                                                             *)

TypeOK ==
  /\ ctl \in [Tables -> ControlRecord]
  /\ buf \in [Tables -> BufferImage]
  /\ CmdCounter \in 0..(CounterModulus - 1)
  /\ ErrCounter \in 0..(CounterModulus - 1)
  /\ pc \in {"wait", "scan", "collect"}
  /\ cur \in Tables
  /\ collected \in [Tables -> SUBSET Nat]
  /\ disturbed \in [Tables -> BOOLEAN]
  /\ sent \in [Tables -> 0..2]

(* MD_DwellLoop never indexes the Entry array outside the active entries:  *)
(* neither where it collects (whatever jams did to the table in between)   *)
(* nor, with AddrCount - 1, where it flushes a shortened packet.           *)
EntryInTable ==
  /\ \A t \in Tables : Running(ctl[t]) => ctl[t].AddrCount \in 1..TableSize
  /\ pc = "collect" => ctl[cur].CurrentEntry < ctl[cur].AddrCount

(* AddrCount, DataSize and Rate are those of the entries in the record,    *)
(* through every load, jam and packet: MD_UpdateDwellControlInfo would     *)
(* change nothing.                                                         *)
TotalsCurrent ==
  \A t \in Tables : MD_UpdateDwellControlInfo(ctl[t]) = ctl[t]

(* MD_GetDwellData only reads fields that passed the validity checks; the  *)
(* comment on its default case says no other length should get there.      *)
CollectsReadable ==
  pc = "collect" => ReadableEntry(ctl[cur].Entry[ctl[cur].CurrentEntry])

(* The field MD_GetDwellData is about to copy fits in the packet's Data,   *)
(* of 4 bytes per entry, even if jams lengthened fields in mid-packet.     *)
WritesInPacket ==
  pc = "collect" =>
    LET c == ctl[cur]
    IN  c.PktOffset + (c.Entry[c.CurrentEntry].Length % 256) <= 4 * TableSize

(* A packet that met no jam after its first byte and no failed read holds  *)
(* exactly the ByteCount bytes it announces (requirement MD3001), all read *)
(* in the cycle it ends.                                                   *)
PacketComplete ==
  tlm # NoPacket /\ ~tlm.Disturbed => tlm.Collected = 0..(tlm.ByteCount - 1)

(* ByteCount is the number of bytes of dwell data in the packet, in every  *)
(* packet sent (MD_DwellPkt_Payload_t).                                    *)
ByteCountExact == tlm # NoPacket => tlm.Collected = 0..(tlm.ByteCount - 1)

(* One wakeup sends at most one packet of a table: the while loop of       *)
(* MD_DwellLoop never goes round a whole table with a non-zero Rate.       *)
OnePacketPerWakeup == \A t \in Tables : sent[t] <= 1

(* An active table never waits longer for its next reading than the        *)
(* longest delay an entry can ask for: its countdown does not wrap.        *)
WaitsWithinDelay ==
  \A t \in Tables :
    Running(ctl[t]) => ctl[t].Countdown \in 0..MaxDelay \cup {1}

(* A table image that passes validation and gives the stream of record c   *)
(* when it is recovered; a default table's signature is never copied.      *)
Restores(image, c) ==
  LET r == Activated(InitialControl, image)
  IN  /\ MD_TableValidationFunc(image)
      /\ r.Enabled = c.Enabled
      /\ r.AddrCount = c.AddrCount /\ r.DataSize = c.DataSize
      /\ r.Rate = c.Rate
      /\ \A i \in Entries : i < c.AddrCount => r.Entry[i] = c.Entry[i]
      /\ c.Signature \in {NoSignature, r.Signature}

(* What Table Services holds (and saves for a critical table) is a valid   *)
(* table that, restored after a processor reset, gives the stream the task *)
(* is running: commands keep the record and the buffer in step.            *)
BufferRestoresStream == \A t \in Tables : Restores(buf[t], ctl[t])

(* A command MD counts as rejected has changed nothing (requirement        *)
(* MD1005: it aborts the command's execution).                             *)
RejectionChangesNothing ==
  [][ErrCounter' # ErrCounter => UNCHANGED <<ctl, buf>>]_vars

(* The iterations of MD_DwellLoop's two loops that this wakeup may still   *)
(* take: a table counts for one visit and two rounds of its entries, the   *)
(* one being collected for a round it has not ended and the rest of this.  *)
ScanLeft ==
  LET perTable == 2 * TableSize + 1
      round    == IF sent[cur] = 0 THEN TableSize ELSE 0
  IN  CASE pc = "wait"    -> 0
        [] pc = "scan"    -> (NumTables - cur) * perTable
        [] pc = "collect" -> (NumTables - 1 - cur) * perTable + round
                               + (TableSize - ctl[cur].CurrentEntry)

(* Every iteration brings the end of the wakeup nearer, whatever jams left *)
(* of the totals that let the while loop in: this is why it ends.          *)
ScanApproachesEnd ==
  [][MD_DwellLoop => ScanLeft' < ScanLeft /\ ScanLeft' \in Nat]_vars

(* Every wakeup is finished: the task returns to its command pipe.         *)
ScanEnds == pc # "wait" ~> pc = "wait"

(* The table's stream begins anew.                                         *)
Restart(t) ==
  \/ \E mask \in StartStopMasks, failed \in SUBSET Tables :
       t \in Selected(mask) /\ MD_StartDwellCmd(mask, failed)
  \/ \E image \in LoadImages : LoadTable(t, image)

(* A stream that keeps running and is not restarted again and again keeps  *)
(* sending packets, however often it is jammed: a jam is safe to send to   *)
(* an active table.                                                        *)
KeepsSending ==
  \A t \in Tables :
    \/ []<>(tlm.TableId = t + 1)
    \/ []<>~Running(ctl[t])
    \/ []<><<Restart(t)>>_vars
=============================================================================
