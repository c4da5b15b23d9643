-------------------------- MODULE DwellRecordsProofs --------------------------
(***************************************************************************)
(* Theorems about the control records, while MD can always get at Table    *)
(* Services' buffers (~TblFaults), in three parts.                         *)
(*                                                                         *)
(* The totals of a record are those of its entries, and so a wakeup sends  *)
(* at most one packet of each table.  A jam that fails half-way breaks     *)
(* both, as the run RejectedJamHangs shows.                                *)
(*                                                                         *)
(* What the packet loop reads and writes, for table images whose entries   *)
(* are all valid, those behind the terminator included.  Table validation  *)
(* does not ask for that, and without it neither theorem holds: the run    *)
(* TailCollected shows an entry behind the terminator that is collected.   *)
(*                                                                         *)
(* What a processor reset would give back: every stream as it is.  The     *)
(* record of a table and its image in Table Services' buffer stay in step  *)
(* through every command and load, and an image that is in step recovers   *)
(* the record.                                                             *)
(***************************************************************************)
EXTENDS DwellStreamsProofs

-----------------------------------------------------------------------------
(* Totals                                                                  *)

Totals == \A t \in Tables : TotalsOf(ctl[t])

LEMMA TotalsAreCurrent == Inv /\ Totals => TotalsCurrent
BY TotalsFixed DEF Inv, TypeOK, Totals, TotalsCurrent

LEMMA TotalsInit == Init => Totals
<1> SUFFICES ASSUME Init PROVE Totals
  OBVIOUS
<1>1. PICK recovered \in SUBSET Tables :
        /\ buf \in [Tables -> RecoverableImages]
        /\ ctl = [t \in Tables |->
                   IF t \in recovered THEN Activated(InitialControl, buf[t])
                                      ELSE InitialControl]
  BY DEF Init
<1>2. buf \in [Tables -> BufferImage]
  BY <1>1, RecoverableType
<1> QED
  BY <1>1, <1>2, InitialControlType, InitialControlTotals, ActivatedTotals DEF Totals

(* The packet loop leaves every record's entries and totals as they are.   *)
LEMMA LoopKeeps ==
  ASSUME Inv, MD_DwellLoop
  PROVE  \A t \in Tables : Keeps(ctl[t], ctl'[t])
<1>1. CASE SkipTable
  BY <1>1 DEF SkipTable, Inv, TypeOK, Keeps
<1>2. CASE FlushPacket
  BY <1>2, FlushKeeps
<1>3. CASE CountDown
  BY <1>3, CountDownKeeps
<1>4. CASE \E ok \in BOOLEAN : Collect(ok)
  BY <1>4, CollectKeeps
<1> QED  BY <1>1, <1>2, <1>3, <1>4 DEF MD_DwellLoop

(* Of the commands and loads, a jam recounts what it wrote, a load what it *)
(* copied, and the others leave the entries alone.                         *)
LEMMA CommandTotals ==
  ASSUME ~TblFaults, Inv, Totals, Command \/ Load
  PROVE  Totals'
<1>1. /\ ctl \in [Tables -> ControlRecord]
      /\ \A t \in Tables : ctl[t] \in ControlRecord /\ TotalsOf(ctl[t])
  BY DEF Inv, TypeOK, Totals
<1>2. ASSUME UNCHANGED ctl PROVE Totals'
  BY <1>2 DEF Totals
<1>3. ASSUME NEW t \in Tables, NEW r, TotalsOf(r), ctl' = [ctl EXCEPT ![t] = r]
      PROVE  Totals'
  BY <1>1, <1>3 DEF Totals
<1>4. ASSUME NEW mask, NEW failed, MD_StartDwellCmd(mask, failed) PROVE Totals'
  BY <1>1, <1>4, SwitchTotals DEF MD_StartDwellCmd, Totals
<1>5. ASSUME NEW mask, NEW failed, MD_StopDwellCmd(mask, failed) PROVE Totals'
  BY <1>1, <1>5, SwitchTotals DEF MD_StopDwellCmd, Totals
<1>6. ASSUME NEW jam \in JamCommands, NEW failed, MD_JamDwellCmd(jam, failed)
      PROVE  Totals'
  <2> DEFINE t == jam.TableId - 1
             i == jam.EntryId - 1
             jammed == [ctl[t] EXCEPT !.Entry[i] = JammedEntry(jam)]
  <2>1. jam \in JamPayload /\ ValidJam(jam)
    BY <1>6, DwellStreamsAssumption DEF DwellStreamsAssumption, MD_JamDwellCmd
  <2>2. t \in Tables /\ i \in Entries /\ JammedEntry(jam) \in ControlEntry
    BY <2>1, JamTypes
  <2>3. jammed \in ControlRecord
    BY <1>1, <2>2, JammedType
  <2>4. TotalsOf(MD_UpdateDwellControlInfo(jammed))
    BY <2>3, UpdateInfoTotals
  <2>5. ctl' = [ctl EXCEPT ![t] = MD_UpdateDwellControlInfo(jammed)]
    BY <1>6 DEF MD_JamDwellCmd, Faulty
  <2> HIDE DEF t, jammed
  <2> QED  BY <1>3, <2>2, <2>4, <2>5
<1>7. ASSUME NEW cmd \in SignatureCommands, NEW failed, MD_SetSignatureCmd(cmd, failed)
      PROVE  Totals'
  <2> DEFINE t == cmd.TableId - 1
             signed == [ctl[t] EXCEPT !.Signature = cmd.Signature]
  <2>1. CASE UNCHANGED ctl
    BY <1>2, <2>1
  <2>2. CASE MD_ValidTableId(cmd.TableId) /\ ctl' = [ctl EXCEPT ![t] = signed]
    <3>1. t \in Tables
      BY <2>2, Sizes DEF MD_ValidTableId, Tables
    <3>2. TotalsOf(signed)
      BY <1>1, <3>1, TotalsKept DEF ControlRecord
    <3> HIDE DEF t, signed
    <3> QED  BY <1>3, <2>2, <3>1, <3>2
  <2> QED  BY <1>7, <2>1, <2>2 DEF MD_SetSignatureCmd, Faulty
<1>8. ASSUME NEW t \in Tables, NEW image \in LoadImages, LoadTable(t, image)
      PROVE  Totals'
  <2>1. image \in BufferImage
    BY <1>8, ValidImageType, DwellStreamsAssumption
    DEF DwellStreamsAssumption, LoadTable, CopyTable, MissCopy
  <2>2. ctl' = [ctl EXCEPT ![t] = Activated(ctl[t], image)]
    BY <1>8 DEF LoadTable, CopyTable, MissCopy
  <2> QED  BY <1>1, <1>3, <2>1, <2>2, ActivatedTotals
<1>9. ASSUME NEW mask, EmptyMask(mask) PROVE Totals'
  BY <1>2, <1>9 DEF EmptyMask
<1>10. ASSUME NEW jam, InvalidJam(jam) PROVE Totals'
  BY <1>2, <1>10 DEF InvalidJam
<1>11. CASE MD_NoopCmd \/ MD_ResetCountersCmd \/ RefuseMessage
  BY <1>2, <1>11 DEF MD_NoopCmd, MD_ResetCountersCmd, RefuseMessage
<1> QED
  BY <1>4, <1>5, <1>6, <1>7, <1>8, <1>9, <1>10, <1>11 DEF Command, Load

LEMMA TotalsNext ==
  ASSUME ~TblFaults, Inv, Totals, [Next]_vars
  PROVE  Totals'
<1>1. CASE UNCHANGED vars
  BY <1>1 DEF vars, Totals
<1>2. CASE Wakeup
  BY <1>2 DEF Wakeup, Totals
<1>3. CASE MD_DwellLoop
  BY <1>3, LoopKeeps, TotalsKept DEF Totals, Keeps
<1>4. CASE Command \/ Load
  BY <1>4, CommandTotals
<1> QED  BY <1>1, <1>2, <1>3, <1>4 DEF Next

(* AddrCount, DataSize and Rate are never those of an older table: every   *)
(* handler that writes an entry of a record recounts it, provided that the *)
(* jams among them can reach Table Services.                               *)
THEOREM TotalsStayCurrent ==
  ASSUME ~TblFaults
  PROVE  Spec => []TotalsCurrent
<1>1. Init => Totals
  BY TotalsInit
<1>2. Inv /\ Totals /\ [Next]_vars => Totals'
  BY TotalsNext
<1>3. Inv /\ Totals => TotalsCurrent
  BY TotalsAreCurrent
<1>4. Spec => []Inv
  BY Invariant
<1> QED  BY <1>1, <1>2, <1>3, <1>4, PTL DEF Spec

-----------------------------------------------------------------------------
(* Packets in a wakeup                                                     *)

(* Collecting has cost no wakeup since the last packet was sent: neither   *)
(* its last entry nor any entry read since has a delay.                    *)
FreeSoFar(c) ==
  /\ c.Entry[c.AddrCount - 1].Delay = 0
  /\ \A i \in 0..(c.CurrentEntry - 1) : c.Entry[i].Delay = 0

(* What the scan still has before it has sent nothing; a table being       *)
(* collected may have sent a packet and begun the next one.                *)
SentInScan ==
  /\ pc = "scan" => \A t \in Tables : t >= cur => sent[t] = 0
  /\ pc = "collect" =>
       /\ \A t \in Tables : t > cur => sent[t] = 0
       /\ sent[cur] # 0 => FreeSoFar(ctl[cur])

SentInv == SentInScan /\ OnePacketPerWakeup

(* With the totals current, a table whose active entries all have a zero   *)
(* delay has a zero Rate.                                                  *)
LEMMA AllFree ==
  ASSUME NEW c \in ControlRecord, TotalsOf(c),
         \A i \in 0..(c.AddrCount - 1) : c.Entry[i].Delay = 0
  PROVE  c.Rate = 0
<1> DEFINE delay == [i \in Entries |-> c.Entry[i].Delay]
<1>1. c.AddrCount \in 0..TableSize
  BY DEF ControlRecord
<1>2. \A i \in 0..(c.AddrCount - 1) : delay[i] = 0
  BY <1>1, Sizes DEF Entries
<1> HIDE DEF delay
<1>3. PrefixSum(delay)[c.AddrCount] = 0
  BY <1>1, <1>2, PrefixSumZero
<1> QED  BY <1>3 DEF TotalsOf, DelaySum, delay

LEMMA SentByTransmit ==
  ASSUME TypeOK, NEW bytes, NEW spoilt, Transmit(cur, bytes, spoilt), sent[cur] = 0
  PROVE  sent' = [sent EXCEPT ![cur] = 1]
BY DEF Transmit, TypeOK

(* On to the next table, with nothing sent of those that follow.           *)
LEMMA SentOnward ==
  ASSUME TypeOK, NextTable, \A t \in Tables : t > cur => sent'[t] = 0
  PROVE  SentInScan'
BY Sizes DEF NextTable, SentInScan, TypeOK, Tables

LEMMA SentLoop ==
  ASSUME Inv, Totals, SentInv, MD_DwellLoop
  PROVE  SentInv'
<1>1. /\ TypeOK /\ cur \in Tables /\ sent \in [Tables -> 0..2]
      /\ ctl \in [Tables -> ControlRecord]
      /\ \A t \in Tables : t \in Nat /\ sent[t] <= 1
  BY Constants DEF Inv, TypeOK, SentInv, OnePacketPerWakeup
<1>2. CASE SkipTable
  <2>1. UNCHANGED sent /\ NextTable /\ pc = "scan"
    BY <1>2 DEF SkipTable
  <2>2. \A t \in Tables : t > cur => sent'[t] = 0
    BY <1>1, <2>1 DEF SentInv, SentInScan
  <2> QED  BY <1>1, <2>1, <2>2, SentOnward DEF SentInv, OnePacketPerWakeup
<1>3. CASE FlushPacket
  <2>1. pc = "scan" /\ NextTable /\ Transmit(cur, collected[cur], disturbed[cur])
    BY <1>3 DEF FlushPacket
  <2>2. \A t \in Tables : t >= cur => sent[t] = 0
    BY <2>1 DEF SentInv, SentInScan
  <2>3. sent' = [sent EXCEPT ![cur] = 1]
    BY <1>1, <2>1, <2>2, SentByTransmit
  <2>4. \A t \in Tables : (t > cur => sent'[t] = 0) /\ sent'[t] <= 1
    BY <1>1, <2>2, <2>3
  <2> QED  BY <1>1, <2>1, <2>4, SentOnward DEF SentInv, OnePacketPerWakeup
<1>4. CASE CountDown
  <2>1. pc = "scan" /\ UNCHANGED sent
    BY <1>4 DEF CountDown
  <2>2. \A t \in Tables : t >= cur => sent'[t] = 0
    BY <2>1 DEF SentInv, SentInScan
  <2>3. CASE NextTable
    BY <1>1, <2>1, <2>2, <2>3, SentOnward DEF SentInv, OnePacketPerWakeup
  <2>4. CASE pc' = "collect" /\ cur' = cur
    <3>1. SentInScan'
      BY <1>1, <2>2, <2>4 DEF SentInScan
    <3> QED  BY <1>1, <2>1, <3>1 DEF SentInv, OnePacketPerWakeup
  <2> QED  BY <1>4, <2>3, <2>4 DEF CountDown
<1>5. ASSUME NEW ok \in BOOLEAN, Collect(ok) PROVE SentInv'
  <2> DEFINE c == ctl[cur]
             e == c.Entry[c.CurrentEntry]
             last == c.CurrentEntry = c.AddrCount - 1
             d == ctl'[cur]
  <2>1. /\ pc = "collect" /\ Running(c) /\ c.CurrentEntry < c.AddrCount
        /\ c \in ControlRecord /\ TotalsOf(c)
        /\ c.CurrentEntry \in Nat /\ c.AddrCount \in Nat
        /\ \A t \in Tables : t > cur => sent[t] = 0
        /\ sent[cur] # 0 => FreeSoFar(c)
    <3>1. pc = "collect" /\ c \in ControlRecord
      BY <1>1, <1>5 DEF Collect
    <3>2. Running(c) /\ c.CurrentEntry < c.AddrCount
      BY <3>1 DEF Inv, Guarded
    <3>3. TotalsOf(c)
      BY <1>1 DEF Totals
    <3>4. /\ \A t \in Tables : t > cur => sent[t] = 0
          /\ sent[cur] # 0 => FreeSoFar(c)
      BY <3>1 DEF SentInv, SentInScan
    <3>5. c.CurrentEntry \in Nat /\ c.AddrCount \in Nat
      BY <3>1, Sizes DEF ControlRecord
    <3> QED  BY <3>1, <3>2, <3>3, <3>4, <3>5
  (* A second packet would close a round of entries without a delay.       *)
  <2>2. last => sent[cur] = 0
    <3>1. SUFFICES ASSUME last, sent[cur] # 0 PROVE FALSE
      OBVIOUS
    <3>2. FreeSoFar(c)
      BY <2>1, <3>1
    <3>3. \A i \in 0..(c.AddrCount - 1) : c.Entry[i].Delay = 0
      BY <2>1, <3>1, <3>2 DEF FreeSoFar
    <3>4. c.Rate = 0
      BY <2>1, <3>3, AllFree
    <3> QED  BY <2>1, <3>4 DEF Running
  <2>3. /\ d.Entry = c.Entry /\ d.AddrCount = c.AddrCount
        /\ d.CurrentEntry = (IF last THEN 0 ELSE c.CurrentEntry + 1)
    BY <1>1, <1>5, <2>1 DEF Collect, ControlRecord
  <2>4. sent' = IF last THEN [sent EXCEPT ![cur] = 1] ELSE sent
    <3>1. CASE last
      <4>1. sent[cur] = 0
        BY <2>2, <3>1
      <4>2. \E bytes, spoilt : Transmit(cur, bytes, spoilt)
        BY <1>5, <3>1 DEF Collect
      <4> QED  BY <1>1, <3>1, <4>1, <4>2, SentByTransmit
    <3>2. CASE ~last
      BY <1>5, <3>2 DEF Collect
    <3> QED  BY <3>1, <3>2
  <2>5. \A t \in Tables : (t > cur => sent'[t] = 0) /\ sent'[t] <= 1
    BY <1>1, <2>1, <2>4
  <2>6. CASE e.Delay = 0
    <3>1. pc' = pc /\ cur' = cur
      BY <1>5, <2>6 DEF Collect
    <3>2. sent'[cur] # 0 => FreeSoFar(d)
      <4>1. CASE last
        <5>1. d.Entry[d.AddrCount - 1].Delay = 0 /\ d.CurrentEntry = 0
          BY <2>3, <2>6, <4>1
        <5> HIDE DEF d
        <5> QED  BY <5>1 DEF FreeSoFar
      <4>2. CASE ~last
        <5>1. sent'[cur] # 0 => FreeSoFar(c)
          BY <2>1, <2>4, <4>2
        <5>2. \A i \in 0..(d.CurrentEntry - 1) : i = c.CurrentEntry \/ i \in 0..(c.CurrentEntry - 1)
          BY <2>1, <2>3, <4>2
        <5> HIDE DEF d
        <5> QED  BY <2>3, <2>6, <5>1, <5>2 DEF FreeSoFar
      <4> QED  BY <4>1, <4>2
    <3>3. SentInScan'
      BY <2>1, <2>5, <3>1, <3>2 DEF SentInScan
    <3> QED  BY <2>5, <3>3 DEF SentInv, OnePacketPerWakeup
  <2>7. CASE e.Delay # 0
    <3>1. NextTable
      BY <1>5, <2>7 DEF Collect
    <3>2. SentInScan'
      BY <1>1, <2>5, <3>1, SentOnward
    <3> QED  BY <2>5, <3>2 DEF SentInv, OnePacketPerWakeup
  <2> QED  BY <2>6, <2>7
<1> QED  BY <1>2, <1>3, <1>4, <1>5 DEF MD_DwellLoop

(* Commands and loads are handled between scans, and send nothing.         *)
LEMMA CommandBetween ==
  ASSUME Command \/ Load
  PROVE  Between
BY DEF Command, Load, MD_StartDwellCmd, MD_StopDwellCmd, EmptyMask,
       MD_JamDwellCmd, InvalidJam, MD_SetSignatureCmd, MD_NoopCmd, RefuseMessage,
       MD_ResetCountersCmd, LoadTable, CopyTable, MissCopy

LEMMA SentNext ==
  ASSUME Inv, Totals, SentInv, [Next]_vars
  PROVE  SentInv'
<1>1. CASE UNCHANGED vars
  BY <1>1 DEF vars, SentInv, SentInScan, OnePacketPerWakeup
<1>2. CASE Wakeup
  BY <1>2 DEF Wakeup, SentInv, SentInScan, OnePacketPerWakeup
<1>3. CASE MD_DwellLoop
  BY <1>3, SentLoop
<1>4. CASE Command \/ Load
  BY <1>4, CommandBetween DEF Between, SentInv, SentInScan, OnePacketPerWakeup
<1> QED  BY <1>1, <1>2, <1>3, <1>4 DEF Next

(* However jams change a table in the middle of a packet, one pass of      *)
(* MD_DwellLoop sends each table's packet at most once: its while loop     *)
(* meets a non-zero delay before it comes to the last entry again.         *)
THEOREM OnePacket ==
  ASSUME ~TblFaults
  PROVE  Spec => []OnePacketPerWakeup
<1>1. Init => SentInv /\ Totals
  <2>1. Init => SentInv
    BY DEF Init, SentInv, SentInScan, OnePacketPerWakeup
  <2> QED  BY <2>1, TotalsInit
<1>2. Inv /\ Totals /\ SentInv /\ [Next]_vars => Totals' /\ SentInv'
  BY TotalsNext, SentNext
<1>3. SentInv => OnePacketPerWakeup
  BY DEF SentInv
<1>4. Spec => []Inv
  BY Invariant
<1> QED  BY <1>1, <1>2, <1>3, <1>4, PTL DEF Spec

-----------------------------------------------------------------------------
(* The end of a wakeup                                                     *)

(* The visits to n + 1 tables are those to n and to one more.              *)
LEMMA OneVisitMore ==
  ASSUME NEW n \in Nat, NEW k \in Nat
  PROVE  n * k \in Nat /\ (n + 1) * k = n * k + k
OBVIOUS

(* The tables the scan has still to visit.                                 *)
Visits == (NumTables - 1 - cur) * (2 * TableSize + 1)

LEMMA VisitsLeft ==
  ASSUME TypeOK
  PROVE  /\ Visits \in Nat
         /\ (NumTables - cur) * (2 * TableSize + 1) = Visits + (2 * TableSize + 1)
<1>1. NumTables - 1 - cur \in Nat /\ 2 * TableSize + 1 \in Nat
      /\ NumTables - cur = (NumTables - 1 - cur) + 1
  BY Sizes DEF TypeOK, Tables
<1> QED  BY <1>1, OneVisitMore DEF Visits

(* On to the next table, or to the end.                                    *)
LEMMA OnwardLeft ==
  ASSUME TypeOK, NextTable
  PROVE  ScanLeft' \in Nat /\ ScanLeft' <= Visits
<1>1. cur \in Nat /\ NumTables \in Nat /\ TableSize \in Nat
      /\ Visits \in Nat /\ cur <= NumTables - 1
  BY VisitsLeft, Sizes DEF TypeOK, Tables
<1>2. CASE pc' = "wait"
  BY <1>1, <1>2 DEF ScanLeft
<1>3. CASE pc' = "scan" /\ cur' = cur + 1
  <2>1. NumTables - cur' = NumTables - 1 - cur
    BY <1>1, <1>3
  <2>2. ScanLeft' = (NumTables - cur') * (2 * TableSize + 1)
    BY <1>3 DEF ScanLeft
  <2> QED  BY <1>1, <2>1, <2>2 DEF Visits
<1> QED  BY <1>2, <1>3 DEF NextTable

LEMMA ScanShrinks ==
  ASSUME Inv, OnePacketPerWakeup', MD_DwellLoop
  PROVE  ScanLeft' < ScanLeft /\ ScanLeft' \in Nat
<1>1. /\ TypeOK /\ cur \in Tables /\ sent \in [Tables -> 0..2]
      /\ ctl \in [Tables -> ControlRecord]
      /\ TableSize \in Nat /\ TableSize >= 1 /\ Visits \in Nat
  BY Sizes, VisitsLeft DEF Inv, TypeOK
<1>2. pc = "scan" => ScanLeft = Visits + (2 * TableSize + 1)
  BY <1>1, VisitsLeft DEF ScanLeft
<1>3. CASE pc = "scan" /\ NextTable
  BY <1>1, <1>2, <1>3, OnwardLeft
<1>4. CASE CountDown /\ pc' = "collect" /\ cur' = cur
  <2>1. /\ pc = "scan" /\ sent' = sent
        /\ ctl'[cur].CurrentEntry = ctl[cur].CurrentEntry
        /\ ctl[cur].CurrentEntry \in 0..TableSize
    BY <1>1, <1>4 DEF CountDown, ControlRecord
  <2>2. ScanLeft' = Visits + (IF sent[cur] = 0 THEN TableSize ELSE 0)
                      + (TableSize - ctl[cur].CurrentEntry)
    BY <1>4, <2>1 DEF ScanLeft, Visits
  <2> QED  BY <1>1, <1>2, <2>1, <2>2
<1>5. ASSUME NEW ok \in BOOLEAN, Collect(ok) PROVE ScanLeft' < ScanLeft /\ ScanLeft' \in Nat
  <2> DEFINE c == ctl[cur]
             last == c.CurrentEntry = c.AddrCount - 1
             round == IF sent[cur] = 0 THEN TableSize ELSE 0
  <2>1. /\ pc = "collect" /\ c \in ControlRecord
        /\ c.CurrentEntry \in Nat /\ c.AddrCount \in 0..TableSize
        /\ c.CurrentEntry < c.AddrCount
    BY <1>1, <1>5, Sizes DEF Collect, ControlRecord, Inv, Guarded
  <2>2. ScanLeft = Visits + round + (TableSize - c.CurrentEntry)
    BY <2>1 DEF ScanLeft, Visits
  <2>3. CASE NextTable
    <3>1. round \in Nat /\ TableSize - c.CurrentEntry >= 1
      BY <1>1, <2>1
    <3> HIDE DEF round
    <3> QED  BY <1>1, <2>1, <2>2, <2>3, <3>1, OnwardLeft
  <2>4. CASE pc' = pc /\ cur' = cur
    <3>1. ctl'[cur].CurrentEntry = (IF last THEN 0 ELSE c.CurrentEntry + 1)
      BY <1>1, <1>5, <2>1 DEF Collect, ControlRecord
    <3>2. ScanLeft' = Visits + (IF sent'[cur] = 0 THEN TableSize ELSE 0)
                        + (TableSize - ctl'[cur].CurrentEntry)
      BY <2>1, <2>4 DEF ScanLeft, Visits
    <3>3. CASE ~last
      <4>1. sent' = sent
        BY <1>5, <3>3 DEF Collect
      <4> QED  BY <1>1, <2>1, <2>2, <3>1, <3>2, <3>3, <4>1
    <3>4. CASE last
      <4>1. sent' = [sent EXCEPT ![cur] = IF @ < 2 THEN @ + 1 ELSE 2]
        BY <1>5, <3>4 DEF Collect, Transmit
      <4>2. sent[cur] = 0 /\ sent'[cur] = 1
        BY <1>1, <4>1 DEF OnePacketPerWakeup
      <4> QED  BY <1>1, <2>1, <2>2, <3>1, <3>2, <3>4, <4>2
    <3> QED  BY <3>3, <3>4
  <2> QED  BY <1>5, <2>3, <2>4 DEF Collect
<1> QED  BY <1>3, <1>4, <1>5 DEF MD_DwellLoop, SkipTable, FlushPacket, CountDown

(* A wakeup ends: MD_DwellLoop takes at most 2 * TableSize + 1 iterations  *)
(* for each table, however jams changed the tables in mid-packet.          *)
THEOREM ScansApproachEnd ==
  ASSUME ~TblFaults
  PROVE  Spec => ScanApproachesEnd
<1>1. Inv /\ OnePacketPerWakeup' /\ [Next]_vars
        => [MD_DwellLoop => ScanLeft' < ScanLeft /\ ScanLeft' \in Nat]_vars
  BY ScanShrinks
<1>2. Spec => []Inv /\ []OnePacketPerWakeup
  BY Invariant, OnePacket, PTL
<1> QED  BY <1>1, <1>2, PTL DEF Spec, ScanApproachesEnd

-----------------------------------------------------------------------------
(* Rejected commands                                                       *)

LEMMA RejectionStep ==
  ASSUME ~TblFaults, [Next]_vars, ErrCounter' # ErrCounter
  PROVE  UNCHANGED <<ctl, buf>>
<1>1. CASE UNCHANGED vars
  BY <1>1 DEF vars
<1>2. CASE Wakeup \/ MD_DwellLoop \/ Load
  BY <1>2 DEF Wakeup, MD_DwellLoop, SkipTable, FlushPacket, CountDown, Collect,
              Load, LoadTable, CopyTable, MissCopy
<1>3. ASSUME NEW mask, NEW failed,
             MD_StartDwellCmd(mask, failed) \/ MD_StopDwellCmd(mask, failed)
      PROVE  FALSE
  <2>1. PICK value : UpdateEnabledFields(Selected(mask), failed, value)
    BY <1>3 DEF MD_StartDwellCmd, MD_StopDwellCmd
  <2>2. failed = {}
    BY <1>3 DEF MD_StartDwellCmd, MD_StopDwellCmd, Faulty
  <2> QED  BY <2>1, <2>2 DEF UpdateEnabledFields, Accept
<1>4. ASSUME NEW jam, NEW failed, MD_JamDwellCmd(jam, failed) \/ InvalidJam(jam)
      PROVE  UNCHANGED <<ctl, buf>>
  BY <1>4 DEF MD_JamDwellCmd, InvalidJam, Accept, Faulty
<1>5. ASSUME NEW cmd, NEW failed, MD_SetSignatureCmd(cmd, failed)
      PROVE  UNCHANGED <<ctl, buf>>
  BY <1>5 DEF MD_SetSignatureCmd, Accept, Faulty
<1>6. ASSUME NEW mask, EmptyMask(mask) PROVE UNCHANGED <<ctl, buf>>
  BY <1>6 DEF EmptyMask
<1>7. CASE MD_NoopCmd \/ MD_ResetCountersCmd \/ RefuseMessage
  BY <1>7 DEF MD_NoopCmd, MD_ResetCountersCmd, RefuseMessage
<1> QED  BY <1>1, <1>2, <1>3, <1>4, <1>5, <1>6, <1>7 DEF Next, Command

(* Whatever makes a command fail, short of Table Services itself, is found *)
(* before the first write: the error counter moves only if no record and   *)
(* no buffer does.                                                         *)
THEOREM RejectionsAbort ==
  ASSUME ~TblFaults
  PROVE  Spec => RejectionChangesNothing
<1>1. [Next]_vars => [ErrCounter' # ErrCounter => UNCHANGED <<ctl, buf>>]_vars
  BY RejectionStep
<1> QED  BY <1>1, PTL DEF Spec, RejectionChangesNothing

-----------------------------------------------------------------------------
(* Reads and writes                                                        *)

ValidTails ==
  \A image \in SavedImages \cup LoadImages :
    MD_TableValidationFunc(image) =>
      \A i \in Entries : MD_ValidTableEntry(image.Entry[i])

-----------------------------------------------------------------------------
(* Entries and offsets of a record                                         *)

NullOrReadable(e) == e.Length # 0 => ReadableEntry(e)

(* Every entry is null or readable, and the entries collected so far have  *)
(* written at most 4 bytes each.                                           *)
Fields(c) ==
  /\ \A i \in Entries : NullOrReadable(c.Entry[i])
  /\ c.PktOffset <= 4 * c.CurrentEntry

LEMMA ReadableField ==
  ASSUME NEW sym, NEW offset, NEW length \in UINT16, length # 0,
         ValidField(sym, offset, length)
  PROVE  ReadableEntry([Length |-> length, Delay |-> 0,
                        ResolvedAddress |-> MD_ResolveSymAddr(sym, offset)])
BY DEF ValidField, MD_ValidFieldLength, ReadableEntry

LEMMA FieldsInitial == Fields(InitialControl)
<1>1. 4 * 0 = 0 /\ 0 <= 0  OBVIOUS
<1> QED  BY <1>1 DEF Fields, NullOrReadable, InitialControl, NullControlEntry

LEMMA FieldsSwitched ==
  ASSUME NEW c \in ControlRecord, Fields(c)
  PROVE  /\ Fields(MD_StartDwellStream(c))
         /\ Fields(Started(c)) /\ Fields(Stopped(c))
<1>1. 4 * 0 = 0 /\ 0 <= 0  OBVIOUS
<1> QED
  BY <1>1 DEF Fields, MD_StartDwellStream, Started, Stopped, ControlRecord

LEMMA FieldsUpdated ==
  ASSUME NEW c \in ControlRecord, Fields(c)
  PROVE  Fields(MD_UpdateDwellControlInfo(c))
BY UpdateInfoFields DEF Fields

(* What validation accepts of an entry, the copy makes readable.           *)
LEMMA FieldsActivated ==
  ASSUME NEW c \in ControlRecord, Fields(c), NEW image \in BufferImage,
         \A i \in Entries : MD_ValidTableEntry(image.Entry[i])
  PROVE  Fields(Activated(c, image))
<1> DEFINE r == CopiedRecord(c, image)
           u == MD_CopyUpdatedTbl(c, image)
<1>1. r \in ControlRecord /\ u \in ControlRecord
  BY CopiedRecordType, CopyType
<1>2. ASSUME NEW i \in Entries, image.Entry[i].Length # 0
      PROVE  ReadableEntry(CopiedEntries(image)[i])
  <2> DEFINE e == image.Entry[i]
  <2>1. ValidField(e.SymName, e.Offset, e.Length)
    BY <1>2 DEF MD_ValidTableEntry
  <2>2. CopiedAddress(image.Entry, i) = MD_ResolveSymAddr(e.SymName, e.Offset)
    BY <2>1, CopiedAddressOwn DEF ValidField
  <2>3. e.Length \in UINT16
    BY DEF BufferImage, LoadEntry
  <2> QED
    BY <1>2, <2>1, <2>2, <2>3, ReadableField DEF CopiedEntries, ReadableEntry
<1>3. \A i \in Entries : NullOrReadable(CopiedEntries(image)[i])
  BY <1>2 DEF NullOrReadable, CopiedEntries
<1>4. Fields(r)
  BY <1>3 DEF Fields, CopiedRecord, ControlRecord
<1>5. Fields(u)
  BY <1>1, <1>4, CopyUpdates, FieldsUpdated
<1> HIDE DEF u
<1>6. Fields(u) /\ Fields(MD_StartDwellStream(u))
  BY <1>1, <1>5, FieldsSwitched
<1> QED  BY <1>6 DEF Activated, u

LEMMA FieldsJammed ==
  ASSUME NEW c \in ControlRecord, Fields(c), NEW jam \in JamPayload, ValidJam(jam)
  PROVE  Fields([c EXCEPT !.Entry[jam.EntryId - 1] = JammedEntry(jam)])
<1>1. NullOrReadable(JammedEntry(jam))
  <2>1. CASE jam.FieldLength = 0
    BY <2>1 DEF JammedEntry, NullControlEntry, NullOrReadable
  <2>2. CASE jam.FieldLength # 0
    <3>1. ValidField(jam.SymName, jam.Offset, jam.FieldLength)
      BY <2>2 DEF ValidJam
    <3>2. jam.FieldLength \in UINT16
      BY DEF JamPayload
    <3> QED
      BY <2>2, <3>1, <3>2, ReadableField DEF JammedEntry, NullOrReadable, ReadableEntry
  <2> QED  BY <2>1, <2>2
<1> QED  BY <1>1 DEF Fields, ControlRecord

-----------------------------------------------------------------------------
(* The invariant of the state                                              *)

FieldsInv == \A t \in Tables : Fields(ctl[t])

LEMMA RecoverableEntries ==
  ASSUME ValidTails, NEW image \in RecoverableImages
  PROVE  \A i \in Entries : MD_ValidTableEntry(image.Entry[i])
<1>1. CASE image = DefaultImage
  BY <1>1 DEF DefaultImage, DefaultTable, NullLoadEntry, MD_ValidTableEntry
<1>2. CASE image \in SavedImages /\ MD_TableValidationFunc(image)
  BY <1>2 DEF ValidTails
<1> QED  BY <1>1, <1>2 DEF RecoverableImages

LEMMA FieldsInit ==
  ASSUME ValidTails, Init
  PROVE  FieldsInv
<1>1. PICK recovered \in SUBSET Tables :
        /\ buf \in [Tables -> RecoverableImages]
        /\ ctl = [t \in Tables |->
                   IF t \in recovered THEN Activated(InitialControl, buf[t])
                                      ELSE InitialControl]
  BY DEF Init
<1>2. ASSUME NEW t \in Tables PROVE Fields(Activated(InitialControl, buf[t]))
  <2>1. buf[t] \in RecoverableImages /\ buf[t] \in BufferImage
    BY <1>1, RecoverableType
  <2> QED
    BY <2>1, RecoverableEntries, FieldsInitial, InitialControlType, FieldsActivated
<1> QED  BY <1>1, <1>2, FieldsInitial DEF FieldsInv

LEMMA FieldsLoop ==
  ASSUME Inv, FieldsInv, MD_DwellLoop
  PROVE  FieldsInv'
<1>1. /\ cur \in Tables /\ ctl \in [Tables -> ControlRecord]
      /\ \A t \in Tables : ctl[t] \in ControlRecord /\ Fields(ctl[t])
      /\ \A t \in Tables : ctl'[t].Entry = ctl[t].Entry
  BY LoopKeeps DEF Inv, TypeOK, FieldsInv, Keeps
<1>2. SUFFICES \A t \in Tables : ctl'[t].PktOffset <= 4 * ctl'[t].CurrentEntry
  BY <1>1 DEF FieldsInv, Fields
<1>3. \A t \in Tables : ctl[t].PktOffset <= 4 * ctl[t].CurrentEntry
  BY <1>1 DEF Fields
<1>4. CASE SkipTable
  BY <1>3, <1>4 DEF SkipTable
<1>5. CASE FlushPacket
  <2>1. /\ ctl'[cur].PktOffset = 0 /\ ctl'[cur].CurrentEntry = 0
        /\ \A t \in Tables \ {cur} : ctl'[t] = ctl[t]
    BY <1>1, <1>5 DEF FlushPacket, ControlRecord
  <2> QED  BY <1>3, <2>1
<1>6. CASE CountDown
  <2>1. \A t \in Tables : /\ ctl'[t].PktOffset = ctl[t].PktOffset
                          /\ ctl'[t].CurrentEntry = ctl[t].CurrentEntry
    BY <1>1, <1>6 DEF CountDown, ControlRecord
  <2> QED  BY <1>3, <2>1
<1>7. ASSUME NEW ok \in BOOLEAN, Collect(ok)
      PROVE  \A t \in Tables : ctl'[t].PktOffset <= 4 * ctl'[t].CurrentEntry
  <2> DEFINE c == ctl[cur]
             e == c.Entry[c.CurrentEntry]
             n == e.Length % 256
             last == c.CurrentEntry = c.AddrCount - 1
             d == ctl'[cur]
  <2>1. /\ c.PktOffset \in Nat /\ c.CurrentEntry \in Entries
        /\ c.PktOffset <= 4 * c.CurrentEntry
    <3>1. c.CurrentEntry < c.AddrCount
      BY <1>7 DEF Collect, Inv, Guarded
    <3>2. c \in ControlRecord
      BY <1>1
    <3> QED  BY <1>1, <1>3, <3>1, <3>2, Sizes DEF ControlRecord, UINT16, Entries
  <2>2. n \in 0..4
    <3>1. NullOrReadable(e)
      BY <1>1, <2>1 DEF Fields
    <3>2. e.Length \in {0, 1, 2, 4}
      BY <3>1 DEF NullOrReadable, ReadableEntry
    <3> QED  BY <3>2
  <2>3. /\ d.PktOffset = (IF last THEN 0 ELSE (c.PktOffset + n) % Word)
        /\ d.CurrentEntry = (IF last THEN 0 ELSE c.CurrentEntry + 1)
        /\ \A t \in Tables \ {cur} : ctl'[t] = ctl[t]
    BY <1>1, <1>7 DEF Collect, ControlRecord
  <2> HIDE DEF n, d, last
  <2>4. d.PktOffset <= 4 * d.CurrentEntry
    <3>1. (c.PktOffset + n) % Word <= c.PktOffset + n
      <4>1. c.PktOffset + n \in Nat
        BY <2>1, <2>2
      <4> HIDE DEF c
      <4> QED  BY <4>1 DEF Word
    <3>2. c.PktOffset + n <= 4 * (c.CurrentEntry + 1)
      BY <2>1, <2>2, Sizes DEF Entries
    <3>3. CASE last
      BY <2>3, <3>3
    <3>4. CASE ~last
      <4>1. (c.PktOffset + n) % Word \in Int /\ c.CurrentEntry + 1 \in Int
        BY <2>1, <2>2, Sizes DEF Entries, Word
      <4> QED  BY <2>1, <2>2, <2>3, <3>1, <3>2, <3>4, <4>1, Sizes DEF Entries
    <3> QED  BY <3>3, <3>4
  <2> QED  BY <1>3, <2>3, <2>4 DEF d
<1> QED  BY <1>4, <1>5, <1>6, <1>7 DEF MD_DwellLoop

LEMMA FieldsCommand ==
  ASSUME ValidTails, Inv, FieldsInv, Command \/ Load
  PROVE  FieldsInv'
<1>1. /\ ctl \in [Tables -> ControlRecord]
      /\ \A t \in Tables : ctl[t] \in ControlRecord /\ Fields(ctl[t])
  BY DEF Inv, TypeOK, FieldsInv
<1>2. ASSUME UNCHANGED ctl PROVE FieldsInv'
  BY <1>2 DEF FieldsInv
<1>3. ASSUME NEW t \in Tables, NEW r, Fields(r), ctl' = [ctl EXCEPT ![t] = r]
      PROVE  FieldsInv'
  BY <1>1, <1>3 DEF FieldsInv
<1>4. ASSUME NEW mask, NEW failed, MD_StartDwellCmd(mask, failed)
      PROVE  FieldsInv'
  BY <1>1, <1>4, FieldsSwitched DEF MD_StartDwellCmd, FieldsInv
<1>5. ASSUME NEW mask, NEW failed, MD_StopDwellCmd(mask, failed)
      PROVE  FieldsInv'
  BY <1>1, <1>5, FieldsSwitched DEF MD_StopDwellCmd, FieldsInv
<1>6. ASSUME NEW jam \in JamCommands, NEW failed, MD_JamDwellCmd(jam, failed)
      PROVE  FieldsInv'
  <2> DEFINE t == jam.TableId - 1
             i == jam.EntryId - 1
             jammed == [ctl[t] EXCEPT !.Entry[i] = JammedEntry(jam)]
             updated == MD_UpdateDwellControlInfo(jammed)
  <2>1. jam \in JamPayload /\ ValidJam(jam)
    BY <1>6, DwellStreamsAssumption DEF DwellStreamsAssumption, MD_JamDwellCmd
  <2>2. t \in Tables /\ i \in Entries /\ JammedEntry(jam) \in ControlEntry
    BY <2>1, JamTypes
  <2>3. Fields(jammed) /\ jammed \in ControlRecord
    BY <1>1, <2>1, <2>2, FieldsJammed, JammedType
  <2>4. ctl' = [ctl EXCEPT ![t] = updated] \/ ctl' = [ctl EXCEPT ![t] = jammed]
    BY <1>6 DEF MD_JamDwellCmd, Faulty
  <2> HIDE DEF t, jammed
  <2>5. Fields(updated)
    BY <2>3, FieldsUpdated
  <2> HIDE DEF updated
  <2> QED  BY <1>3, <2>2, <2>3, <2>4, <2>5
<1>7. ASSUME NEW cmd \in SignatureCommands, NEW failed, MD_SetSignatureCmd(cmd, failed)
      PROVE  FieldsInv'
  <2> DEFINE t == cmd.TableId - 1
             signed == [ctl[t] EXCEPT !.Signature = cmd.Signature]
  <2>1. CASE UNCHANGED ctl
    BY <1>2, <2>1
  <2>2. CASE MD_ValidTableId(cmd.TableId) /\ ctl' = [ctl EXCEPT ![t] = signed]
    <3>1. t \in Tables
      BY <2>2, Sizes DEF MD_ValidTableId, Tables
    <3>2. Fields(signed)
      BY <1>1, <3>1 DEF Fields, ControlRecord
    <3> HIDE DEF t, signed
    <3> QED  BY <1>3, <2>2, <3>1, <3>2
  <2> QED  BY <1>7, <2>1, <2>2 DEF MD_SetSignatureCmd, Faulty
<1>8. ASSUME NEW t \in Tables, NEW image \in LoadImages, LoadTable(t, image)
      PROVE  FieldsInv'
  <2>1. CASE UNCHANGED ctl
    BY <1>2, <2>1
  <2>2. CASE ctl' = [ctl EXCEPT ![t] = Activated(ctl[t], image)]
    <3>1. image \in BufferImage
      BY <1>8, ValidImageType, DwellStreamsAssumption
      DEF DwellStreamsAssumption, LoadTable, CopyTable, MissCopy
    <3>2. \A i \in Entries : MD_ValidTableEntry(image.Entry[i])
      BY <1>8 DEF LoadTable, CopyTable, MissCopy, ValidTails
    <3> QED  BY <1>1, <1>3, <2>2, <3>1, <3>2, FieldsActivated
  <2> QED  BY <1>8, <2>1, <2>2 DEF LoadTable, CopyTable, MissCopy
<1>9. ASSUME NEW mask, EmptyMask(mask) PROVE FieldsInv'
  BY <1>2, <1>9 DEF EmptyMask
<1>10. ASSUME NEW jam, InvalidJam(jam) PROVE FieldsInv'
  BY <1>2, <1>10 DEF InvalidJam
<1>11. CASE MD_NoopCmd \/ MD_ResetCountersCmd \/ RefuseMessage
  BY <1>2, <1>11 DEF MD_NoopCmd, MD_ResetCountersCmd, RefuseMessage
<1> QED
  BY <1>4, <1>5, <1>6, <1>7, <1>8, <1>9, <1>10, <1>11 DEF Command, Load

LEMMA FieldsNext ==
  ASSUME ValidTails, Inv, FieldsInv, [Next]_vars
  PROVE  FieldsInv'
<1>1. CASE UNCHANGED vars
  BY <1>1 DEF vars, FieldsInv
<1>2. CASE Wakeup
  BY <1>2 DEF Wakeup, FieldsInv
<1>3. CASE MD_DwellLoop
  BY <1>3, FieldsLoop
<1>4. CASE Command \/ Load
  BY <1>4, FieldsCommand
<1> QED  BY <1>1, <1>2, <1>3, <1>4 DEF Next

-----------------------------------------------------------------------------
(* Theorems                                                                *)

LEMMA FieldsFit == Inv /\ FieldsInv => WritesInPacket
<1> SUFFICES ASSUME Inv, FieldsInv, pc = "collect"
             PROVE  ctl[cur].PktOffset
                      + (ctl[cur].Entry[ctl[cur].CurrentEntry].Length % 256)
                      <= 4 * TableSize
  BY DEF WritesInPacket
<1> DEFINE c == ctl[cur]
           e == c.Entry[c.CurrentEntry]
<1>1. cur \in Tables /\ c \in ControlRecord /\ c.CurrentEntry < c.AddrCount
  BY DEF Inv, TypeOK, Guarded
<1>2. c.PktOffset \in Nat /\ c.CurrentEntry \in Entries
  BY <1>1, Sizes DEF ControlRecord, UINT16, Entries
<1>3. NullOrReadable(e) /\ c.PktOffset <= 4 * c.CurrentEntry
  BY <1>1, <1>2 DEF FieldsInv, Fields
<1>4. e.Length \in {0, 1, 2, 4}
  BY <1>3 DEF NullOrReadable, ReadableEntry
<1>5. (e.Length % 256) \in 0..4
  BY <1>4
<1> QED  BY <1>2, <1>3, <1>5, Sizes DEF Entries

(* The loop never copies a field past the packet's data area, however jams *)
(* lengthen fields in mid-packet and whatever fails on the way: no entry   *)
(* of the record has more than 4 bytes, and the offset only grows with the *)
(* current entry.                                                          *)
THEOREM WritesStayInPacket ==
  ASSUME ValidTails
  PROVE  Spec => []WritesInPacket
<1>1. Init => FieldsInv
  BY FieldsInit
<1>2. Inv /\ FieldsInv /\ [Next]_vars => FieldsInv'
  BY FieldsNext
<1>3. Inv /\ FieldsInv => WritesInPacket
  BY FieldsFit
<1>4. Spec => []Inv
  BY Invariant
<1> QED  BY <1>1, <1>2, <1>3, <1>4, PTL DEF Spec

LEMMA FieldsRead == Inv /\ Totals /\ FieldsInv => CollectsReadable
<1> SUFFICES ASSUME Inv, Totals, FieldsInv, pc = "collect"
             PROVE  ReadableEntry(ctl[cur].Entry[ctl[cur].CurrentEntry])
  BY DEF CollectsReadable
<1> DEFINE c == ctl[cur]
<1>1. /\ cur \in Tables /\ c \in ControlRecord
      /\ c.CurrentEntry < c.AddrCount /\ c.AddrCount = ActiveCount(c.Entry)
  BY DEF Inv, TypeOK, Guarded, Totals, TotalsOf
<1>2. c.CurrentEntry \in Entries /\ c.CurrentEntry \in 0..(c.AddrCount - 1)
  BY <1>1, Sizes DEF ControlRecord, Entries
<1>3. c.Entry[c.CurrentEntry].Length # 0
  BY <1>1, <1>2, ActiveCountFacts
<1> QED  BY <1>1, <1>2, <1>3 DEF FieldsInv, Fields, NullOrReadable

(* MD_GetDwellData is only called for fields that passed the validity      *)
(* checks, in whatever order loads and jams wrote them.                    *)
THEOREM ReadsAreReadable ==
  ASSUME ValidTails, ~TblFaults
  PROVE  Spec => []CollectsReadable
<1>1. Init => FieldsInv /\ Totals
  BY FieldsInit, TotalsInit
<1>2. Inv /\ Totals /\ FieldsInv /\ [Next]_vars => Totals' /\ FieldsInv'
  BY TotalsNext, FieldsNext
<1>3. Inv /\ Totals /\ FieldsInv => CollectsReadable
  BY FieldsRead
<1>4. Spec => []Inv
  BY Invariant
<1> QED  BY <1>1, <1>2, <1>3, <1>4, PTL DEF Spec

-----------------------------------------------------------------------------
(* An image and a record that say the same                                 *)

(* A valid entry of an image, and its copy in a record.                    *)
EntryInStep(e, d) ==
  /\ MD_ValidTableEntry(e)
  /\ d.Length = e.Length /\ d.Delay = e.Delay
  /\ e.Length # 0 => d.ResolvedAddress = MD_ResolveSymAddr(e.SymName, e.Offset)

InStep(image, c) ==
  /\ image \in BufferImage /\ c \in ControlRecord
  /\ c.Enabled = image.Enabled
  /\ c.Signature \in {NoSignature, image.Signature}
  /\ \A i \in Entries : EntryInStep(image.Entry[i], c.Entry[i])

(* Two entry arrays with the same lengths end at the same entry.           *)
LEMMA ActiveCountSame ==
  ASSUME NEW a, NEW b, \A i \in Entries : a[i].Length = b[i].Length
  PROVE  ActiveCount(a) = ActiveCount(b)
<1> DEFINE m == ActiveCount(a)
           n == ActiveCount(b)
<1>1. m \in 0..TableSize /\ n \in 0..TableSize
  BY ActiveCountFacts
<1>2. /\ \A i \in 0..(m - 1) : a[i].Length # 0
      /\ m < TableSize => a[m].Length = 0
      /\ \A i \in 0..(n - 1) : b[i].Length # 0
      /\ n < TableSize => b[n].Length = 0
  BY ActiveCountFacts
<1> HIDE DEF m, n
<1>3. ~(m < n)
  <2>1. m < n => m \in Entries /\ m \in 0..(n - 1)
    BY <1>1, Sizes DEF Entries
  <2> QED  BY <1>1, <1>2, <2>1, Sizes
<1>4. ~(n < m)
  <2>1. n < m => n \in Entries /\ n \in 0..(m - 1)
    BY <1>1, Sizes DEF Entries
  <2> QED  BY <1>1, <1>2, <2>1, Sizes
<1>5. m = n
  BY <1>1, <1>3, <1>4, Sizes
<1> QED  BY <1>5 DEF m, n

LEMMA SumsSame ==
  ASSUME NEW a, NEW b,
         \A i \in Entries : a[i].Length = b[i].Length /\ a[i].Delay = b[i].Delay
  PROVE  LengthSum(a) = LengthSum(b) /\ DelaySum(a) = DelaySum(b)
<1>1. [i \in Entries |-> a[i].Length] = [i \in Entries |-> b[i].Length]
  OBVIOUS
<1>2. [i \in Entries |-> a[i].Delay] = [i \in Entries |-> b[i].Delay]
  OBVIOUS
<1> QED  BY <1>1, <1>2 DEF LengthSum, DelaySum

(* A field whose symbol resolves is copied with its own address.           *)
LEMMA CopiedInStep ==
  ASSUME NEW image, NEW i \in Entries, MD_ValidTableEntry(image.Entry[i])
  PROVE  EntryInStep(image.Entry[i], CopiedEntries(image)[i])
<1> DEFINE e == image.Entry[i]
<1>1. e.Length # 0 =>
        CopiedAddress(image.Entry, i) = MD_ResolveSymAddr(e.SymName, e.Offset)
  BY CopiedAddressOwn DEF MD_ValidTableEntry, ValidField
<1> QED  BY <1>1 DEF EntryInStep, CopiedEntries

LEMMA ActivatedFields ==
  ASSUME NEW c \in ControlRecord, NEW image \in BufferImage
  PROVE  LET r == Activated(c, image)
         IN  /\ r.Entry = CopiedEntries(image)
             /\ r.Enabled = image.Enabled /\ r.Signature = image.Signature
<1> DEFINE copied == CopiedRecord(c, image)
           u == MD_CopyUpdatedTbl(c, image)
<1>1. copied \in ControlRecord /\ u \in ControlRecord
  BY CopiedRecordType, CopyType
<1>2. /\ copied.Entry = CopiedEntries(image)
      /\ copied.Enabled = image.Enabled /\ copied.Signature = image.Signature
  BY DEF CopiedRecord, ControlRecord
<1>3. /\ u.Entry = copied.Entry
      /\ u.Enabled = copied.Enabled /\ u.Signature = copied.Signature
  BY <1>1, CopyUpdates, UpdateInfoFields
<1> HIDE DEF u, copied
<1>4. LET s == MD_StartDwellStream(u)
      IN  s.Entry = u.Entry /\ s.Enabled = u.Enabled /\ s.Signature = u.Signature
  BY <1>1 DEF MD_StartDwellStream, ControlRecord
<1> QED  BY <1>2, <1>3, <1>4 DEF Activated, u

LEMMA ActivatedInStep ==
  ASSUME NEW c \in ControlRecord, NEW image \in BufferImage,
         \A i \in Entries : MD_ValidTableEntry(image.Entry[i])
  PROVE  InStep(image, Activated(c, image))
BY ActivatedType, ActivatedFields, CopiedInStep DEF InStep

(* A reset recovers from an image in step what the record says.            *)
LEMMA InStepRestores ==
  ASSUME NEW image, NEW c, InStep(image, c), TotalsOf(c)
  PROVE  Restores(image, c)
<1> DEFINE r == Activated(InitialControl, image)
<1>1. image \in BufferImage /\ c \in ControlRecord /\ r \in ControlRecord
  BY InitialControlType, ActivatedType DEF InStep
<1>2. /\ r.Entry = CopiedEntries(image)
      /\ r.Enabled = image.Enabled /\ r.Signature = image.Signature
  BY <1>1, InitialControlType, ActivatedFields
<1>3. TotalsOf(r)
  BY <1>1, InitialControlType, ActivatedTotals
<1>4. \A i \in Entries : /\ EntryInStep(image.Entry[i], c.Entry[i])
                         /\ EntryInStep(image.Entry[i], r.Entry[i])
  BY <1>2, CopiedInStep DEF InStep, EntryInStep
<1>5. MD_TableValidationFunc(image)
  <2>1. MD_CheckTableEntries(image.Entry)
    BY <1>4 DEF MD_CheckTableEntries, EntryInStep
  <2> QED  BY <1>1, <2>1 DEF MD_TableValidationFunc, BufferImage
<1> HIDE DEF r
<1>6. \A i \in Entries : /\ r.Entry[i].Length = c.Entry[i].Length
                         /\ r.Entry[i].Delay = c.Entry[i].Delay
  BY <1>4 DEF EntryInStep
<1>7. r.AddrCount = c.AddrCount /\ r.DataSize = c.DataSize /\ r.Rate = c.Rate
  BY <1>3, <1>6, ActiveCountSame, SumsSame DEF TotalsOf
<1>8. ASSUME NEW i \in Entries, i < c.AddrCount PROVE r.Entry[i] = c.Entry[i]
  <2>1. c.Entry[i].Length # 0
    <3>1. c.AddrCount = ActiveCount(c.Entry) /\ c.AddrCount \in 0..TableSize
      BY <1>1 DEF TotalsOf, ControlRecord
    <3>2. i \in 0..(c.AddrCount - 1)
      BY <1>8, <3>1, Sizes DEF Entries
    <3> QED  BY <3>1, <3>2, ActiveCountFacts
  <2>2. r.Entry[i].ResolvedAddress = c.Entry[i].ResolvedAddress
    BY <1>4, <2>1 DEF EntryInStep
  <2>3. r.Entry[i] \in ControlEntry /\ c.Entry[i] \in ControlEntry
    BY <1>1 DEF ControlRecord
  <2> QED  BY <1>6, <2>2, <2>3 DEF ControlEntry
<1> QED  BY <1>2, <1>5, <1>7, <1>8 DEF Restores, InStep, r

-----------------------------------------------------------------------------
(* What commands do to both                                                *)

LEMMA SwitchInStep ==
  ASSUME NEW image, NEW c, InStep(image, c)
  PROVE  /\ InStep([image EXCEPT !.Enabled = Dwell_ENABLED], Started(c))
         /\ InStep([image EXCEPT !.Enabled = Dwell_DISABLED], Stopped(c))
<1> DEFINE on  == [image EXCEPT !.Enabled = Dwell_ENABLED]
           off == [image EXCEPT !.Enabled = Dwell_DISABLED]
           run == Started(c)
           still == Stopped(c)
<1>1. image \in BufferImage /\ c \in ControlRecord
  BY DEF InStep
<1>2. run \in ControlRecord /\ still \in ControlRecord
  BY <1>1, SwitchTypes
<1>3. /\ run.Enabled = Dwell_ENABLED /\ still.Enabled = Dwell_DISABLED
      /\ run.Entry = c.Entry /\ still.Entry = c.Entry
      /\ run.Signature = c.Signature /\ still.Signature = c.Signature
  BY <1>1 DEF Started, Stopped, MD_StartDwellStream, ControlRecord
<1>4. /\ on \in BufferImage /\ off \in BufferImage
      /\ on.Enabled = Dwell_ENABLED /\ off.Enabled = Dwell_DISABLED
      /\ on.Entry = image.Entry /\ off.Entry = image.Entry
      /\ on.Signature = image.Signature /\ off.Signature = image.Signature
  BY <1>1 DEF BufferImage
<1> HIDE DEF on, off, run, still
<1>5. InStep(on, run) /\ InStep(off, still)
  BY <1>2, <1>3, <1>4 DEF InStep
<1> QED  BY <1>5 DEF on, off, run, still

LEMMA SignedInStep ==
  ASSUME NEW image, NEW c, InStep(image, c), NEW signature \in Signatures
  PROVE  InStep([image EXCEPT !.Signature = signature],
                [c EXCEPT !.Signature = signature])
<1>1. image \in BufferImage /\ c \in ControlRecord
  BY DEF InStep
<1>2. /\ [image EXCEPT !.Signature = signature] \in BufferImage
      /\ [c EXCEPT !.Signature = signature] \in ControlRecord
  BY <1>1 DEF BufferImage, ControlRecord
<1> QED  BY <1>1, <1>2 DEF InStep, BufferImage, ControlRecord

LEMMA UpdatedInStep ==
  ASSUME NEW image, NEW c, InStep(image, c)
  PROVE  InStep(image, MD_UpdateDwellControlInfo(c))
BY UpdateInfoType, UpdateInfoFields DEF InStep

(* A jam writes the same field, with the address it resolves to, in both.  *)
LEMMA JammedInStep ==
  ASSUME NEW image, NEW c, InStep(image, c), NEW jam \in JamPayload, ValidJam(jam)
  PROVE  LET i == jam.EntryId - 1
         IN  InStep([image EXCEPT !.Entry[i] = JammedLoadEntry(jam)],
                    [c EXCEPT !.Entry[i] = JammedEntry(jam)])
<1> DEFINE i == jam.EntryId - 1
           b == JammedLoadEntry(jam)
           d == JammedEntry(jam)
           image2 == [image EXCEPT !.Entry[i] = b]
           c2 == [c EXCEPT !.Entry[i] = d]
<1>1. i \in Entries /\ b \in LoadEntry /\ d \in ControlEntry
  BY JamTypes
<1>2. image \in BufferImage /\ c \in ControlRecord
  BY DEF InStep
<1>3. EntryInStep(b, d)
  BY DEF JammedLoadEntry, JammedEntry, NullLoadEntry, NullControlEntry,
         EntryInStep, MD_ValidTableEntry, ValidJam
<1> HIDE DEF i, b, d
<1>4. image2 \in BufferImage /\ c2 \in ControlRecord
  BY <1>1, <1>2, JammedType DEF BufferImage
<1>5. /\ image2.Enabled = image.Enabled /\ image2.Signature = image.Signature
      /\ image2.Entry = [image.Entry EXCEPT ![i] = b]
      /\ c2.Enabled = c.Enabled /\ c2.Signature = c.Signature
      /\ c2.Entry = [c.Entry EXCEPT ![i] = d]
  BY <1>2 DEF BufferImage, ControlRecord
<1>6. image.Entry \in [Entries -> LoadEntry] /\ c.Entry \in [Entries -> ControlEntry]
  BY <1>2 DEF BufferImage, ControlRecord
<1> HIDE DEF image2, c2
<1>7. \A j \in Entries : EntryInStep(image2.Entry[j], c2.Entry[j])
  BY <1>1, <1>3, <1>5, <1>6 DEF InStep
<1>8. InStep(image2, c2)
  BY <1>4, <1>5, <1>7 DEF InStep
<1> QED  BY <1>8 DEF image2, c2, i, b, d

LEMMA InitialInStep == InStep(DefaultImage, InitialControl)
<1>1. DefaultImage \in BufferImage
  BY DefaultTableType, DwellStreamsAssumption DEF DwellStreamsAssumption, DefaultImage
<1> QED
  BY <1>1, InitialControlType
  DEF InStep, EntryInStep, DefaultImage, DefaultTable, InitialControl,
      NullLoadEntry, NullControlEntry, MD_ValidTableEntry

-----------------------------------------------------------------------------
(* The invariant of the state                                              *)

StepInv == \A t \in Tables : InStep(buf[t], ctl[t])

LEMMA StepInit ==
  ASSUME ValidTails, Init
  PROVE  StepInv
<1>1. PICK recovered \in SUBSET Tables :
        /\ buf \in [Tables -> RecoverableImages]
        /\ \A t \in Tables \ recovered : buf[t] = DefaultImage
        /\ ctl = [t \in Tables |->
                   IF t \in recovered THEN Activated(InitialControl, buf[t])
                                      ELSE InitialControl]
  BY DEF Init
<1>2. ASSUME NEW t \in Tables PROVE InStep(buf[t], Activated(InitialControl, buf[t]))
  <2>1. buf[t] \in RecoverableImages /\ buf[t] \in BufferImage
    BY <1>1, RecoverableType
  <2> QED  BY <2>1, RecoverableEntries, InitialControlType, ActivatedInStep
<1> QED  BY <1>1, <1>2, InitialInStep DEF StepInv

(* The loop leaves alone what the two have in common.                      *)
LEMMA StepLoop ==
  ASSUME Inv, StepInv, MD_DwellLoop
  PROVE  StepInv'
<1>1. buf' = buf /\ \A t \in Tables : Keeps(ctl[t], ctl'[t])
  BY LoopKeeps
  DEF MD_DwellLoop, SkipTable, FlushPacket, CountDown, Collect
<1> QED  BY <1>1 DEF StepInv, InStep, Keeps

LEMMA StepCommand ==
  ASSUME ValidTails, ~TblFaults, Inv, StepInv, Command \/ Load
  PROVE  StepInv'
<1>1. /\ ctl \in [Tables -> ControlRecord] /\ buf \in [Tables -> BufferImage]
      /\ \A t \in Tables : InStep(buf[t], ctl[t])
  BY DEF Inv, TypeOK, StepInv
<1>2. ASSUME UNCHANGED <<ctl, buf>> PROVE StepInv'
  BY <1>2 DEF StepInv
<1>3. ASSUME NEW t \in Tables, NEW r, NEW b, InStep(b, r),
             ctl' = [ctl EXCEPT ![t] = r], buf' = [buf EXCEPT ![t] = b]
      PROVE  StepInv'
  BY <1>1, <1>3 DEF StepInv
<1>4. ASSUME NEW mask, NEW failed, MD_StartDwellCmd(mask, failed)
      PROVE  StepInv'
  <2>1. \A t \in Tables :
          /\ t \in Selected(mask) =>
               /\ ctl'[t] = Started(ctl[t])
               /\ buf'[t] = [buf[t] EXCEPT !.Enabled = Dwell_ENABLED]
          /\ t \notin Selected(mask) => ctl'[t] = ctl[t] /\ buf'[t] = buf[t]
    BY <1>4 DEF MD_StartDwellCmd, UpdateEnabledFields, Faulty
  <2>2. ASSUME NEW t \in Tables PROVE InStep(buf'[t], ctl'[t])
    <3>1. InStep(buf[t], ctl[t])
      BY <1>1
    <3>2. CASE t \in Selected(mask)
      <4>1. InStep([buf[t] EXCEPT !.Enabled = Dwell_ENABLED], Started(ctl[t]))
        BY <3>1, SwitchInStep
      <4> QED  BY <2>1, <3>2, <4>1
    <3>3. CASE t \notin Selected(mask)
      BY <2>1, <3>1, <3>3
    <3> QED  BY <3>2, <3>3
  <2> QED  BY <2>2 DEF StepInv
<1>5. ASSUME NEW mask, NEW failed, MD_StopDwellCmd(mask, failed) PROVE StepInv'
  <2>1. \A t \in Tables :
          /\ t \in Selected(mask) =>
               /\ ctl'[t] = Stopped(ctl[t])
               /\ buf'[t] = [buf[t] EXCEPT !.Enabled = Dwell_DISABLED]
          /\ t \notin Selected(mask) => ctl'[t] = ctl[t] /\ buf'[t] = buf[t]
    BY <1>5 DEF MD_StopDwellCmd, UpdateEnabledFields, Faulty
  <2>2. ASSUME NEW t \in Tables PROVE InStep(buf'[t], ctl'[t])
    <3>1. InStep(buf[t], ctl[t])
      BY <1>1
    <3>2. CASE t \in Selected(mask)
      <4>1. InStep([buf[t] EXCEPT !.Enabled = Dwell_DISABLED], Stopped(ctl[t]))
        BY <3>1, SwitchInStep
      <4> QED  BY <2>1, <3>2, <4>1
    <3>3. CASE t \notin Selected(mask)
      BY <2>1, <3>1, <3>3
    <3> QED  BY <3>2, <3>3
  <2> QED  BY <2>2 DEF StepInv
<1>6. ASSUME NEW jam \in JamCommands, NEW failed, MD_JamDwellCmd(jam, failed)
      PROVE  StepInv'
  <2> DEFINE t == jam.TableId - 1
             i == jam.EntryId - 1
             jammed == [ctl[t] EXCEPT !.Entry[i] = JammedEntry(jam)]
             image == [buf[t] EXCEPT !.Entry[i] = JammedLoadEntry(jam)]
  <2>1. jam \in JamPayload /\ ValidJam(jam)
    BY <1>6, DwellStreamsAssumption DEF DwellStreamsAssumption, MD_JamDwellCmd
  <2>2. t \in Tables
    BY <2>1, JamTypes
  <2>3. InStep(image, MD_UpdateDwellControlInfo(jammed))
    BY <1>1, <2>1, <2>2, JammedInStep, UpdatedInStep
  <2>4. /\ ctl' = [ctl EXCEPT ![t] = MD_UpdateDwellControlInfo(jammed)]
        /\ buf' = [buf EXCEPT ![t] = image]
    BY <1>6 DEF MD_JamDwellCmd, Faulty
  <2> HIDE DEF t, jammed, image
  <2> QED  BY <1>3, <2>2, <2>3, <2>4
<1>7. ASSUME NEW cmd \in SignatureCommands, NEW failed, MD_SetSignatureCmd(cmd, failed)
      PROVE  StepInv'
  <2> DEFINE t == cmd.TableId - 1
             signed == [ctl[t] EXCEPT !.Signature = cmd.Signature]
             image == [buf[t] EXCEPT !.Signature = cmd.Signature]
  <2>1. CASE UNCHANGED <<ctl, buf>>
    BY <1>2, <2>1
  <2>2. CASE /\ cmd.Signature \in Signatures /\ MD_ValidTableId(cmd.TableId)
             /\ ctl' = [ctl EXCEPT ![t] = signed] /\ buf' = [buf EXCEPT ![t] = image]
    <3>1. t \in Tables
      BY <2>2, Sizes DEF MD_ValidTableId, Tables
    <3>2. InStep(image, signed)
      BY <1>1, <2>2, <3>1, SignedInStep
    <3> HIDE DEF t, signed, image
    <3> QED  BY <1>3, <2>2, <3>1, <3>2
  <2> QED  BY <1>7, <2>1, <2>2 DEF MD_SetSignatureCmd, Faulty
<1>8. ASSUME NEW t \in Tables, NEW image \in LoadImages, LoadTable(t, image)
      PROVE  StepInv'
  <2>1. image \in BufferImage
    BY <1>8, ValidImageType, DwellStreamsAssumption
    DEF DwellStreamsAssumption, LoadTable, CopyTable, MissCopy
  <2>2. \A i \in Entries : MD_ValidTableEntry(image.Entry[i])
    BY <1>8 DEF LoadTable, CopyTable, MissCopy, ValidTails
  <2>3. /\ ctl' = [ctl EXCEPT ![t] = Activated(ctl[t], image)]
        /\ buf' = [buf EXCEPT ![t] = image]
    BY <1>8 DEF LoadTable, CopyTable, MissCopy
  <2> QED  BY <1>1, <1>3, <2>1, <2>2, <2>3, ActivatedInStep
<1>9. ASSUME NEW mask, EmptyMask(mask) PROVE StepInv'
  BY <1>2, <1>9 DEF EmptyMask
<1>10. ASSUME NEW jam, InvalidJam(jam) PROVE StepInv'
  BY <1>2, <1>10 DEF InvalidJam
<1>11. CASE MD_NoopCmd \/ MD_ResetCountersCmd \/ RefuseMessage
  BY <1>2, <1>11 DEF MD_NoopCmd, MD_ResetCountersCmd, RefuseMessage
<1> QED
  BY <1>4, <1>5, <1>6, <1>7, <1>8, <1>9, <1>10, <1>11 DEF Command, Load

LEMMA StepNext ==
  ASSUME ValidTails, ~TblFaults, Inv, StepInv, [Next]_vars
  PROVE  StepInv'
<1>1. CASE UNCHANGED vars
  BY <1>1 DEF vars, StepInv
<1>2. CASE Wakeup
  BY <1>2 DEF Wakeup, StepInv
<1>3. CASE MD_DwellLoop
  BY <1>3, StepLoop
<1>4. CASE Command \/ Load
  BY <1>4, StepCommand
<1> QED  BY <1>1, <1>2, <1>3, <1>4 DEF Next

LEMMA StepRestores ==
  ASSUME Totals, StepInv
  PROVE  BufferRestoresStream
BY InStepRestores DEF Totals, StepInv, BufferRestoresStream

-----------------------------------------------------------------------------
(* Theorems                                                                *)

(* What Table Services holds of a table always recovers the stream the     *)
(* task is running: commands write a record and a buffer alike, and what   *)
(* the copy of an image resolves is what its validation resolved.          *)
THEOREM BuffersRestore ==
  ASSUME ValidTails, ~TblFaults
  PROVE  Spec => []BufferRestoresStream
<1>1. Init => StepInv /\ Totals
  BY StepInit, TotalsInit
<1>2. Inv /\ Totals /\ StepInv /\ [Next]_vars => Totals' /\ StepInv'
  BY TotalsNext, StepNext
<1>3. Totals /\ StepInv => BufferRestoresStream
  BY StepRestores
<1>4. Spec => []Inv
  BY Invariant
<1> QED  BY <1>1, <1>2, <1>3, <1>4, PTL DEF Spec
=============================================================================
