-------------------------- MODULE DwellContentsProofs --------------------------
(***************************************************************************)
(* What a packet holds, and how long it is under way.  As long as no jam   *)
(* or load has met a packet in the making, its write offset is the sum of  *)
(* the lengths before the current entry, and the bytes below it are        *)
(* written; as long as no packet is flushed at a zero delay, no countdown  *)
(* goes the long way round.                                                *)
(***************************************************************************)
EXTENDS DwellRecordsProofs

-----------------------------------------------------------------------------
(* The packet in the making                                                *)

ContentsOf(c, bytes, spoilt) ==
  c.Enabled = Dwell_ENABLED /\ ~spoilt =>
    /\ c.PktOffset = LengthSum(c.Entry)[c.CurrentEntry]
    /\ bytes = 0..(c.PktOffset - 1)
    /\ c.CurrentEntry # 0 => c.CurrentEntry < c.AddrCount

ContentsInv ==
  /\ \A t \in Tables : ContentsOf(ctl[t], collected[t], disturbed[t])
  /\ PacketComplete

LEMMA NoBytes == 0..(0 - 1) = {}
OBVIOUS

LEMMA NoLengths == ASSUME NEW entry PROVE LengthSum(entry)[0] = 0
BY PrefixSumEquation DEF LengthSum

(* A packet that is begun anew has nothing in it.                          *)
LEMMA FreshContents ==
  ASSUME NEW c, c.PktOffset = 0, c.CurrentEntry = 0, NEW spoilt
  PROVE  ContentsOf(c, {}, spoilt)
BY NoBytes, NoLengths DEF ContentsOf

LEMMA ActivatedFresh ==
  ASSUME NEW c \in ControlRecord, NEW image \in BufferImage
  PROVE  LET r == Activated(c, image)
         IN  IF image.Enabled = Dwell_ENABLED
             THEN r.PktOffset = 0 /\ r.CurrentEntry = 0 /\ r.Countdown = 1
             ELSE r.Enabled # Dwell_ENABLED
<1>1. MD_CopyUpdatedTbl(c, image) \in ControlRecord
  BY CopyType
<1>2. CASE image.Enabled = Dwell_ENABLED
  BY <1>1, <1>2 DEF Activated, MD_StartDwellStream, ControlRecord
<1>3. CASE image.Enabled # Dwell_ENABLED
  BY <1>3, ActivatedFields
<1> QED  BY <1>2, <1>3

LEMMA ContentsInit == Init => ContentsInv
<1> SUFFICES ASSUME Init PROVE ContentsInv
  OBVIOUS
<1>1. PICK recovered \in SUBSET Tables :
        /\ buf \in [Tables -> RecoverableImages]
        /\ ctl = [t \in Tables |->
                   IF t \in recovered THEN Activated(InitialControl, buf[t])
                                      ELSE InitialControl]
  BY DEF Init
<1>2. ASSUME NEW t \in Tables PROVE ContentsOf(ctl[t], {}, FALSE)
  <2>1. ContentsOf(InitialControl, {}, FALSE)
    BY FreshContents DEF InitialControl
  <2>2. buf[t] \in BufferImage
    BY <1>1, RecoverableType
  <2>3. ContentsOf(Activated(InitialControl, buf[t]), {}, FALSE)
    <3>1. CASE buf[t].Enabled = Dwell_ENABLED
      BY <2>2, <3>1, InitialControlType, ActivatedFresh, FreshContents
    <3>2. CASE buf[t].Enabled # Dwell_ENABLED
      BY <2>2, <3>2, InitialControlType, ActivatedFresh DEF ContentsOf
    <3> QED  BY <3>1, <3>2
  <2> QED  BY <1>1, <2>1, <2>3
<1> QED  BY <1>2 DEF ContentsInv, PacketComplete, Init

-----------------------------------------------------------------------------
(* The packet loop                                                         *)

(* The bytes of the next field join up with those before it.               *)
LEMMA BytesJoin ==
  ASSUME NEW m \in Nat, NEW n \in Nat
  PROVE  (0..(m - 1)) \cup (m..(m + n - 1)) = 0..(m + n - 1)
OBVIOUS

LEMMA SmallWord ==
  ASSUME NEW k \in Nat, k <= 4 * TableSize
  PROVE  k % Word = k
<1>1. TableSize <= 255 /\ TableSize \in Nat
  BY DwellTablesAssumption DEF DwellTablesAssumption
<1> QED  BY <1>1 DEF Word

(* What reading entry CurrentEntry does to the sums.                       *)
LEMMA CollectFacts ==
  ASSUME Inv, Totals, FieldsInv, pc = "collect"
  PROVE  LET c == ctl[cur]
             n == c.Entry[c.CurrentEntry].Length % 256
         IN  /\ c \in ControlRecord /\ cur \in Tables
             /\ c.CurrentEntry \in Entries /\ c.CurrentEntry < c.AddrCount
             /\ c.Enabled = Dwell_ENABLED
             /\ c.PktOffset \in Nat /\ n \in Nat
             /\ c.PktOffset + n <= 4 * TableSize
             /\ LengthSum(c.Entry)[c.CurrentEntry + 1]
                  = LengthSum(c.Entry)[c.CurrentEntry] + n
             /\ c.DataSize = LengthSum(c.Entry)[c.AddrCount] % Word
<1> DEFINE c == ctl[cur]
           e == c.Entry[c.CurrentEntry]
           n == e.Length % 256
<1>1. /\ cur \in Tables /\ c \in ControlRecord
      /\ Running(c) /\ c.CurrentEntry < c.AddrCount
  BY DEF Inv, TypeOK, Guarded
<1>2. c.CurrentEntry \in Entries /\ c.PktOffset \in Nat
  <2>1. /\ c.CurrentEntry \in 0..TableSize /\ c.AddrCount \in 0..TableSize
        /\ c.PktOffset \in UINT16
    BY <1>1 DEF ControlRecord
  <2> HIDE DEF c
  <2> QED  BY <1>1, <2>1, Sizes DEF UINT16, Entries
<1>3. e.Length \in {0, 1, 2, 4}
  BY <1>1, <1>2 DEF FieldsInv, Fields, NullOrReadable, ReadableEntry
<1>4. n = e.Length /\ n \in Nat
  BY <1>3
<1>5. c.PktOffset + n <= 4 * TableSize
  BY FieldsFit DEF WritesInPacket
<1>6. LengthSum(c.Entry)[c.CurrentEntry + 1]
        = LengthSum(c.Entry)[c.CurrentEntry] + e.Length
  BY <1>2, PrefixSumEquation DEF LengthSum
<1>7. c.DataSize = LengthSum(c.Entry)[c.AddrCount] % Word
  BY <1>1 DEF Totals, TotalsOf
<1> QED  BY <1>1, <1>2, <1>4, <1>5, <1>6, <1>7 DEF Running

LEMMA CollectContents ==
  ASSUME Inv, Totals, FieldsInv, ContentsInv, NEW ok \in BOOLEAN, Collect(ok)
  PROVE  ContentsInv'
<1> DEFINE c == ctl[cur]
           n == c.Entry[c.CurrentEntry].Length % 256
           last == c.CurrentEntry = c.AddrCount - 1
           bytes == collected[cur] \cup
                      (IF ok THEN c.PktOffset..(c.PktOffset + n - 1) ELSE {})
           spoilt == disturbed[cur] \/ ~ok
           d == ctl'[cur]
<1>1. /\ c \in ControlRecord /\ cur \in Tables
      /\ c.CurrentEntry \in Entries /\ c.CurrentEntry < c.AddrCount
      /\ c.Enabled = Dwell_ENABLED
      /\ c.PktOffset \in Nat /\ n \in Nat
      /\ c.PktOffset + n <= 4 * TableSize
      /\ LengthSum(c.Entry)[c.CurrentEntry + 1]
           = LengthSum(c.Entry)[c.CurrentEntry] + n
      /\ c.DataSize = LengthSum(c.Entry)[c.AddrCount] % Word
  BY CollectFacts DEF Collect
<1>2. /\ ctl \in [Tables -> ControlRecord] /\ collected \in [Tables -> SUBSET Nat]
      /\ disturbed \in [Tables -> BOOLEAN]
  BY DEF Inv, TypeOK
<1>3. /\ d.PktOffset = (IF last THEN 0 ELSE (c.PktOffset + n) % Word)
      /\ d.CurrentEntry = (IF last THEN 0 ELSE c.CurrentEntry + 1)
      /\ d.Entry = c.Entry /\ d.AddrCount = c.AddrCount
      /\ \A t \in Tables \ {cur} : ctl'[t] = ctl[t]
  BY <1>1, <1>2 DEF Collect, ControlRecord
<1>4. IF last THEN Transmit(cur, bytes, spoilt)
      ELSE /\ collected' = [collected EXCEPT ![cur] = bytes]
           /\ disturbed' = [disturbed EXCEPT ![cur] = spoilt]
           /\ tlm' = NoPacket
  BY DEF Collect
<1>5. (c.PktOffset + n) % Word = c.PktOffset + n
  BY <1>1, SmallWord
<1>6. ASSUME ~spoilt
      PROVE  /\ c.PktOffset = LengthSum(c.Entry)[c.CurrentEntry]
             /\ bytes = 0..(c.PktOffset + n - 1)
  <2>1. ContentsOf(c, collected[cur], disturbed[cur]) /\ ~disturbed[cur] /\ ok
    <3>1. ~disturbed[cur] /\ ok
      BY <1>6
    <3>2. ContentsOf(c, collected[cur], disturbed[cur])
      BY <1>1 DEF ContentsInv
    <3> QED  BY <3>1, <3>2
  <2>2. /\ c.PktOffset = LengthSum(c.Entry)[c.CurrentEntry]
        /\ collected[cur] = 0..(c.PktOffset - 1)
    BY <1>1, <2>1 DEF ContentsOf
  <2>3. bytes = collected[cur] \cup (c.PktOffset..(c.PktOffset + n - 1))
    BY <2>1
  <2>4. (0..(c.PktOffset - 1)) \cup (c.PktOffset..(c.PktOffset + n - 1))
          = 0..(c.PktOffset + n - 1)
    BY <1>1, BytesJoin
  <2> HIDE DEF c, n, bytes
  <2> QED  BY <2>2, <2>3, <2>4
<1>7. /\ \A t \in Tables \ {cur} : /\ collected'[t] = collected[t]
                                   /\ disturbed'[t] = disturbed[t]
      /\ collected'[cur] = (IF last THEN {} ELSE bytes)
      /\ ~last => disturbed'[cur] = spoilt
  <2> HIDE DEF bytes, spoilt, last
  <2>1. CASE last
    BY <1>1, <1>2, <1>4, <2>1 DEF Transmit
  <2>2. CASE ~last
    <3>1. /\ collected' = [collected EXCEPT ![cur] = bytes]
          /\ disturbed' = [disturbed EXCEPT ![cur] = spoilt]
      BY <1>4, <2>2
    <3> QED  BY <1>1, <1>2, <2>2, <3>1, Zenon
  <2> QED  BY <2>1, <2>2
<1> HIDE DEF c, n, d, bytes
<1>8. ContentsOf(d, collected'[cur], disturbed'[cur])
  <2>1. CASE last
    BY <1>3, <1>7, <2>1, FreshContents
  <2>2. CASE ~last
    <3>1. c.CurrentEntry + 1 < c.AddrCount
      BY <1>1, <2>2, Sizes DEF ControlRecord, Entries
    <3>2. /\ d.PktOffset = c.PktOffset + n /\ d.CurrentEntry = c.CurrentEntry + 1
          /\ d.Entry = c.Entry /\ d.AddrCount = c.AddrCount
          /\ collected'[cur] = bytes /\ disturbed'[cur] = spoilt
      BY <1>3, <1>5, <1>7, <2>2
    <3>3. ASSUME ~spoilt
          PROVE  /\ d.PktOffset = LengthSum(d.Entry)[d.CurrentEntry]
                 /\ bytes = 0..(d.PktOffset - 1)
      BY <1>1, <1>6, <3>2, <3>3
    <3> HIDE DEF spoilt
    <3> QED  BY <3>1, <3>2, <3>3 DEF ContentsOf
  <2> QED  BY <2>1, <2>2
<1>9. PacketComplete'
  <2>1. CASE last
    <3>1. /\ tlm'.Collected = bytes /\ tlm'.Disturbed = spoilt
          /\ tlm'.ByteCount = c.DataSize
      BY <1>4, <2>1 DEF Transmit, MD_SendDwellPkt, c
    <3>2. ASSUME ~spoilt PROVE bytes = 0..(c.DataSize - 1)
      <4>1. c.AddrCount = c.CurrentEntry + 1
        BY <1>1, <2>1, Sizes DEF ControlRecord, Entries
      <4>2. c.DataSize = c.PktOffset + n
        BY <1>1, <1>5, <1>6, <3>2, <4>1
      <4>3. bytes = 0..(c.PktOffset + n - 1)
        BY <1>6, <3>2
      <4> QED  BY <1>1, <4>2, <4>3
    <3> QED  BY <3>1, <3>2 DEF PacketComplete
  <2>2. CASE ~last
    BY <1>4, <2>2 DEF PacketComplete, NoPacket
  <2> QED  BY <2>1, <2>2
<1> QED  BY <1>3, <1>7, <1>8, <1>9 DEF ContentsInv, d

LEMMA LoopContents ==
  ASSUME Inv, Totals, FieldsInv, ContentsInv, MD_DwellLoop
  PROVE  ContentsInv'
<1>1. /\ ctl \in [Tables -> ControlRecord] /\ collected \in [Tables -> SUBSET Nat]
      /\ disturbed \in [Tables -> BOOLEAN] /\ cur \in Tables
      /\ \A t \in Tables : ContentsOf(ctl[t], collected[t], disturbed[t])
  BY DEF Inv, TypeOK, ContentsInv
<1>2. CASE SkipTable
  BY <1>1, <1>2 DEF SkipTable, ContentsInv, PacketComplete, NoPacket
<1>3. CASE FlushPacket
  <2> DEFINE c == ctl[cur]
             d == ctl'[cur]
  <2>1. /\ d.PktOffset = 0 /\ d.CurrentEntry = 0
        /\ \A t \in Tables \ {cur} : /\ ctl'[t] = ctl[t]
                                     /\ collected'[t] = collected[t]
                                     /\ disturbed'[t] = disturbed[t]
        /\ collected'[cur] = {}
        /\ tlm'.Disturbed = disturbed[cur]
    BY <1>1, <1>3 DEF FlushPacket, Transmit, MD_SendDwellPkt, ControlRecord
  <2>2. disturbed[cur]
    <3>1. /\ c \in ControlRecord /\ c.CurrentEntry >= c.AddrCount
          /\ c.Enabled = Dwell_ENABLED /\ c.AddrCount >= 1
      BY <1>1, <1>3, Sizes DEF FlushPacket, Running, Inv, Guarded, RateNeedsEntries
    <3>2. c.CurrentEntry \in Nat /\ c.AddrCount \in Nat
      BY <3>1, Sizes DEF ControlRecord
    <3> QED  BY <1>1, <3>1, <3>2 DEF ContentsOf
  <2> HIDE DEF d
  <2>3. ContentsOf(d, {}, disturbed'[cur])
    BY <2>1, FreshContents
  <2>4. PacketComplete'
    BY <2>1, <2>2 DEF PacketComplete
  <2> QED  BY <1>1, <2>1, <2>3, <2>4 DEF ContentsInv, d
<1>4. CASE CountDown
  <2>1. \A t \in Tables :
          /\ ctl'[t].PktOffset = ctl[t].PktOffset
          /\ ctl'[t].CurrentEntry = ctl[t].CurrentEntry
          /\ ctl'[t].Entry = ctl[t].Entry
          /\ ctl'[t].Enabled = ctl[t].Enabled
          /\ ctl'[t].AddrCount = ctl[t].AddrCount
    BY <1>1, <1>4 DEF CountDown, ControlRecord
  <2>2. UNCHANGED <<collected, disturbed>> /\ tlm' = NoPacket
    BY <1>4 DEF CountDown
  <2> QED
    BY <1>1, <2>1, <2>2 DEF ContentsInv, ContentsOf, PacketComplete
<1>5. ASSUME NEW ok \in BOOLEAN, Collect(ok) PROVE ContentsInv'
  BY <1>5, CollectContents
<1> QED  BY <1>2, <1>3, <1>4, <1>5 DEF MD_DwellLoop

-----------------------------------------------------------------------------
(* Commands and loads                                                      *)

LEMMA CommandContents ==
  ASSUME ~TblFaults, Inv, ContentsInv, Command \/ Load
  PROVE  ContentsInv'
<1>1. /\ ctl \in [Tables -> ControlRecord] /\ collected \in [Tables -> SUBSET Nat]
      /\ disturbed \in [Tables -> BOOLEAN]
      /\ \A t \in Tables : ContentsOf(ctl[t], collected[t], disturbed[t])
  BY DEF Inv, TypeOK, ContentsInv
<1>2. PacketComplete'
  BY DEF Command, Load, LoadTable, CopyTable, MissCopy, MD_StartDwellCmd,
         MD_StopDwellCmd, EmptyMask, MD_JamDwellCmd, InvalidJam,
         MD_SetSignatureCmd, MD_NoopCmd, MD_ResetCountersCmd, RefuseMessage,
         Between, PacketComplete
<1>3. ASSUME UNCHANGED <<ctl, collected, disturbed>> PROVE ContentsInv'
  BY <1>1, <1>2, <1>3 DEF ContentsInv
<1>4. ASSUME NEW t \in Tables, NEW r, ctl' = [ctl EXCEPT ![t] = r],
             \A s \in Tables \ {t} : /\ collected'[s] = collected[s]
                                     /\ disturbed'[s] = disturbed[s],
             ContentsOf(r, collected'[t], disturbed'[t])
      PROVE  ContentsInv'
  BY <1>1, <1>2, <1>4 DEF ContentsInv
<1>5. ASSUME NEW mask, NEW failed,
             MD_StartDwellCmd(mask, failed) \/ MD_StopDwellCmd(mask, failed)
      PROVE  ContentsInv'
  <2>1. ASSUME NEW t \in Tables, t \notin Selected(mask)
        PROVE  /\ ctl'[t] = ctl[t] /\ collected'[t] = collected[t]
               /\ disturbed'[t] = disturbed[t]
    BY <1>5, <2>1 DEF MD_StartDwellCmd, MD_StopDwellCmd, Discard
  <2>2. ASSUME NEW t \in Tables, t \in Selected(mask)
        PROVE  /\ ctl'[t].PktOffset = 0 /\ ctl'[t].CurrentEntry = 0
               /\ collected'[t] = {}
    <3>1. ctl'[t] = Started(ctl[t]) \/ ctl'[t] = Stopped(ctl[t])
      BY <1>5, <2>2 DEF MD_StartDwellCmd, MD_StopDwellCmd
    <3>2. ctl[t] \in ControlRecord
      BY <1>1
    <3>3. collected'[t] = {}
      BY <1>5, <2>2 DEF MD_StartDwellCmd, MD_StopDwellCmd, Discard
    <3> QED
      BY <3>1, <3>2, <3>3 DEF Started, Stopped, MD_StartDwellStream, ControlRecord
  <2>3. ASSUME NEW t \in Tables
        PROVE  ContentsOf(ctl'[t], collected'[t], disturbed'[t])
    <3>1. CASE t \in Selected(mask)
      BY <2>2, <3>1, FreshContents
    <3>2. CASE t \notin Selected(mask)
      BY <1>1, <2>1, <3>2
    <3> QED  BY <3>1, <3>2
  <2> QED  BY <1>2, <2>3 DEF ContentsInv
<1>6. ASSUME NEW jam \in JamCommands, NEW failed, MD_JamDwellCmd(jam, failed)
      PROVE  ContentsInv'
  <2> DEFINE t == jam.TableId - 1
             i == jam.EntryId - 1
             jammed == [ctl[t] EXCEPT !.Entry[i] = JammedEntry(jam)]
             updated == MD_UpdateDwellControlInfo(jammed)
  <2>1. jam \in JamPayload /\ ValidJam(jam)
    BY <1>6, DwellStreamsAssumption DEF DwellStreamsAssumption, MD_JamDwellCmd
  <2>2. t \in Tables /\ i \in Entries /\ JammedEntry(jam) \in ControlEntry
    BY <2>1, JamTypes
  <2>3. jammed \in ControlRecord
    BY <1>1, <2>1, <2>2, JammedType
  <2>4. /\ ctl' = [ctl EXCEPT ![t] = updated]
        /\ collected' = collected
        /\ disturbed' = [disturbed EXCEPT ![t] = @ \/ ctl[t].CurrentEntry > 0]
    BY <1>6 DEF MD_JamDwellCmd, Faulty
  <2>5. /\ jammed.Enabled = ctl[t].Enabled /\ jammed.PktOffset = ctl[t].PktOffset
        /\ jammed.CurrentEntry = ctl[t].CurrentEntry
    BY <1>1, <2>2 DEF ControlRecord
  <2> HIDE DEF jammed, t
  <2>6. /\ updated.Enabled = ctl[t].Enabled
        /\ updated.PktOffset = ctl[t].PktOffset
        /\ updated.CurrentEntry = ctl[t].CurrentEntry
    BY <2>3, <2>5, UpdateInfoFields
  <2> HIDE DEF updated
  <2>7. ContentsOf(updated, collected'[t], disturbed'[t])
    <3>1. CASE disturbed'[t] \/ ctl[t].Enabled # Dwell_ENABLED
      BY <2>6, <3>1 DEF ContentsOf
    <3>2. CASE ~disturbed'[t] /\ ctl[t].Enabled = Dwell_ENABLED
      <4>1. ~disturbed[t] /\ ~(ctl[t].CurrentEntry > 0)
        <5>1. disturbed'[t] = (disturbed[t] \/ ctl[t].CurrentEntry > 0)
          BY <1>1, <2>2, <2>4
        <5> QED  BY <3>2, <5>1
      <4>2. ctl[t].CurrentEntry = 0
        <5>1. ctl[t].CurrentEntry \in 0..TableSize
          BY <1>1, <2>2 DEF ControlRecord
        <5> QED  BY <4>1, <5>1, Sizes
      <4>3. ctl[t].PktOffset = 0 /\ collected[t] = {}
        BY <1>1, <2>2, <3>2, <4>1, <4>2, NoLengths, NoBytes DEF ContentsOf
      <4> QED  BY <2>4, <2>6, <4>2, <4>3, FreshContents
    <3> QED  BY <3>1, <3>2
  <2>8. \A s \in Tables \ {t} : /\ collected'[s] = collected[s]
                                /\ disturbed'[s] = disturbed[s]
    BY <1>1, <2>4
  <2> QED  BY <1>4, <2>2, <2>4, <2>7, <2>8
<1>7. ASSUME NEW cmd \in SignatureCommands, NEW failed, MD_SetSignatureCmd(cmd, failed)
      PROVE  ContentsInv'
  <2> DEFINE t == cmd.TableId - 1
             signed == [ctl[t] EXCEPT !.Signature = cmd.Signature]
  <2>1. UNCHANGED <<collected, disturbed>>
    BY <1>7 DEF MD_SetSignatureCmd, Faulty
  <2>2. CASE UNCHANGED ctl
    BY <1>3, <2>1, <2>2
  <2>3. CASE MD_ValidTableId(cmd.TableId) /\ ctl' = [ctl EXCEPT ![t] = signed]
    <3>1. t \in Tables
      BY <2>3, Sizes DEF MD_ValidTableId, Tables
    <3>2. ContentsOf(signed, collected[t], disturbed[t])
      BY <1>1, <3>1 DEF ContentsOf, ControlRecord
    <3> HIDE DEF t, signed
    <3> QED  BY <1>4, <2>1, <2>3, <3>1, <3>2
  <2> QED  BY <1>7, <2>2, <2>3 DEF MD_SetSignatureCmd, Faulty
<1>8. ASSUME NEW t \in Tables, NEW image \in LoadImages, LoadTable(t, image)
      PROVE  ContentsInv'
  <2> DEFINE r == Activated(ctl[t], image)
             ts == IF image.Enabled = Dwell_ENABLED THEN {t} ELSE {}
  <2>1. image \in BufferImage
    BY <1>8, ValidImageType, DwellStreamsAssumption
    DEF DwellStreamsAssumption, LoadTable, CopyTable, MissCopy
  <2>2. ctl' = [ctl EXCEPT ![t] = r] /\ Discard(ts)
    BY <1>8 DEF LoadTable, CopyTable, MissCopy
  <2>3. IF image.Enabled = Dwell_ENABLED
        THEN r.PktOffset = 0 /\ r.CurrentEntry = 0
        ELSE r.Enabled # Dwell_ENABLED
    BY <1>1, <2>1, ActivatedFresh
  <2> HIDE DEF r
  <2>4. ContentsOf(r, collected'[t], disturbed'[t])
    <3>1. CASE image.Enabled = Dwell_ENABLED
      BY <2>2, <2>3, <3>1, FreshContents DEF Discard
    <3>2. CASE image.Enabled # Dwell_ENABLED
      BY <2>3, <3>2 DEF ContentsOf
    <3> QED  BY <3>1, <3>2
  <2>5. \A s \in Tables \ {t} : /\ collected'[s] = collected[s]
                                /\ disturbed'[s] = disturbed[s]
    BY <2>2 DEF Discard
  <2> QED  BY <1>4, <2>2, <2>4, <2>5
<1>9. ASSUME NEW mask, EmptyMask(mask) PROVE ContentsInv'
  BY <1>3, <1>9 DEF EmptyMask
<1>10. ASSUME NEW jam, InvalidJam(jam) PROVE ContentsInv'
  BY <1>3, <1>10 DEF InvalidJam
<1>11. CASE MD_NoopCmd \/ MD_ResetCountersCmd \/ RefuseMessage
  BY <1>3, <1>11 DEF MD_NoopCmd, MD_ResetCountersCmd, RefuseMessage
<1> QED
  BY <1>5, <1>6, <1>7, <1>8, <1>9, <1>10, <1>11 DEF Command, Load

LEMMA ContentsNext ==
  ASSUME ~TblFaults, Inv, Totals, FieldsInv, ContentsInv, [Next]_vars
  PROVE  ContentsInv'
<1>1. CASE UNCHANGED vars
  BY <1>1 DEF vars, ContentsInv, PacketComplete
<1>2. CASE Wakeup
  BY <1>2 DEF Wakeup, ContentsInv, PacketComplete
<1>3. CASE MD_DwellLoop
  BY <1>3, LoopContents
<1>4. CASE Command \/ Load
  BY <1>4, CommandContents
<1> QED  BY <1>1, <1>2, <1>3, <1>4 DEF Next

(* A packet that met no jam after its first byte and no failed read holds  *)
(* all the bytes it announces, and no other, however many wakeups it took  *)
(* to collect them and whatever was started, stopped, loaded or jammed     *)
(* before.  A jam that Table Services fails would leave the announced      *)
(* totals behind.                                                          *)
THEOREM PacketsAreComplete ==
  ASSUME ValidTails, ~TblFaults
  PROVE  Spec => []PacketComplete
<1>1. Init => FieldsInv /\ Totals /\ ContentsInv
  BY FieldsInit, TotalsInit, ContentsInit
<1>2. Inv /\ Totals /\ FieldsInv /\ ContentsInv /\ [Next]_vars
        => Totals' /\ FieldsInv' /\ ContentsInv'
  BY TotalsNext, FieldsNext, ContentsNext
<1>3. ContentsInv => PacketComplete
  BY DEF ContentsInv
<1>4. Spec => []Inv
  BY Invariant
<1> QED  BY <1>1, <1>2, <1>3, <1>4, PTL DEF Spec

-----------------------------------------------------------------------------
(* The countdown                                                           *)

(* A packet that is full already, as a jam ended its table early, is sent  *)
(* where the entry that is now the last has no delay.                      *)
FlushAtZero == FlushPacket /\ ctl[cur].Entry[ctl[cur].AddrCount - 1].Delay = 0

Waiting(c) == c.Enabled = Dwell_ENABLED => c.Countdown \in 1..MaxDelay \cup {1}

(* The countdown is at zero while the entry it made due is read, and only  *)
(* then.                                                                   *)
CountInv ==
  /\ pc = "collect" => ctl[cur].Countdown = 0
  /\ \A t \in Tables : Waiting(ctl[t]) \/ (pc = "collect" /\ t = cur)

LEMMA CountIsShort == Inv /\ CountInv => WaitsWithinDelay
<1> SUFFICES ASSUME CountInv, NEW t \in Tables, Running(ctl[t])
             PROVE  ctl[t].Countdown \in 0..MaxDelay \cup {1}
  BY DEF WaitsWithinDelay
<1>1. CASE pc = "collect" /\ t = cur
  BY <1>1, Sizes DEF CountInv
<1>2. CASE Waiting(ctl[t])
  BY <1>2, Sizes DEF Waiting, Running
<1> QED  BY <1>1, <1>2 DEF CountInv

LEMMA SwitchWaits ==
  ASSUME NEW c \in ControlRecord
  PROVE  Waiting(Started(c)) /\ Waiting(Stopped(c))
<1>1. Started(c).Countdown = 1 /\ Stopped(c).Enabled = Dwell_DISABLED
  BY DEF Started, Stopped, MD_StartDwellStream, ControlRecord
<1> QED  BY <1>1 DEF Waiting, Dwell_ENABLED, Dwell_DISABLED

LEMMA ActivatedWaits ==
  ASSUME NEW c \in ControlRecord, NEW image \in BufferImage
  PROVE  Waiting(Activated(c, image))
BY ActivatedFresh, ActivatedFields DEF Waiting

LEMMA CountInit == Init => CountInv
<1> SUFFICES ASSUME Init PROVE CountInv
  OBVIOUS
<1>1. PICK recovered \in SUBSET Tables :
        /\ buf \in [Tables -> RecoverableImages]
        /\ ctl = [t \in Tables |->
                   IF t \in recovered THEN Activated(InitialControl, buf[t])
                                      ELSE InitialControl]
  BY DEF Init
<1>2. Waiting(InitialControl)
  BY DEF Waiting, InitialControl
<1>3. ASSUME NEW t \in Tables PROVE Waiting(ctl[t])
  <2>1. buf[t] \in BufferImage
    BY <1>1, RecoverableType
  <2>2. Waiting(Activated(InitialControl, buf[t]))
    BY <2>1, InitialControlType, ActivatedWaits
  <2> QED  BY <1>1, <1>2, <2>2
<1>4. pc = "wait"
  BY DEF Init
<1> QED  BY <1>3, <1>4 DEF CountInv

(* A scan reads a due entry or counts one of the tables down.              *)
LEMMA LoopCounts ==
  ASSUME Inv, CountInv, MD_DwellLoop, ~FlushAtZero
  PROVE  CountInv'
<1> DEFINE c == ctl[cur]
           d == ctl'[cur]
<1>1. ctl \in [Tables -> ControlRecord] /\ cur \in Tables /\ c \in ControlRecord
  BY DEF Inv, TypeOK
<1>2. \A t \in Tables \ {cur} : Waiting(ctl[t])
  BY DEF CountInv
<1>3. pc = "scan" => Waiting(c)
  BY <1>1 DEF CountInv
<1>4. ASSUME NextTable PROVE pc' # "collect"
  BY <1>4 DEF NextTable
<1>5. ASSUME \A t \in Tables \ {cur} : ctl'[t] = ctl[t],
             \/ NextTable /\ Waiting(d)
             \/ pc' = "collect" /\ cur' = cur /\ d.Countdown = 0
      PROVE  CountInv'
  <2>1. \A t \in Tables : Waiting(ctl'[t]) \/ (pc' = "collect" /\ t = cur /\ cur' = cur)
    BY <1>2, <1>5
  <2>2. pc' = "collect" => cur' = cur /\ d.Countdown = 0
    BY <1>4, <1>5
  <2> HIDE DEF d
  <2>3. pc' = "collect" => ctl'[cur'].Countdown = 0
    BY <2>2 DEF d
  <2>4. \A t \in Tables : Waiting(ctl'[t]) \/ (pc' = "collect" /\ t = cur')
    BY <2>1
  <2> QED  BY <2>3, <2>4 DEF CountInv
<1>6. ASSUME NEW i \in Entries PROVE c.Entry[i].Delay \in 0..MaxDelay
  BY <1>1 DEF ControlRecord, ControlEntry, Delays
<1>7. CASE SkipTable
  BY <1>3, <1>5, <1>7 DEF SkipTable
<1>8. CASE FlushPacket
  <2> DEFINE i == c.AddrCount - 1
  <2>1. /\ d.Countdown = c.Entry[i].Delay
        /\ \A t \in Tables \ {cur} : ctl'[t] = ctl[t]
        /\ NextTable
    BY <1>1, <1>8 DEF FlushPacket, ControlRecord
  <2>2. i \in Entries
    <3>1. c.AddrCount \in 1..TableSize
      BY <1>1, <1>8 DEF Inv, Guarded, FlushPacket, Running, RateNeedsEntries
    <3> QED  BY <3>1, Sizes DEF Entries
  <2>3. d.Countdown \in 0..MaxDelay /\ d.Countdown # 0
    BY <1>6, <1>8, <2>1, <2>2 DEF FlushAtZero
  <2> HIDE DEF d
  <2>4. Waiting(d)
    BY <2>3, Sizes DEF Waiting
  <2> QED  BY <1>5, <2>1, <2>4
<1>9. CASE CountDown
  <2> DEFINE count == (c.Countdown - 1) % CountModulus
  <2>1. /\ d.Countdown = count
        /\ \A t \in Tables \ {cur} : ctl'[t] = ctl[t]
        /\ IF count = 0 THEN pc' = "collect" /\ cur' = cur ELSE NextTable
    BY <1>1, <1>9 DEF CountDown, ControlRecord
  <2>2. c.Countdown \in 1..MaxDelay \cup {1}
    BY <1>3, <1>9 DEF CountDown, Running, Waiting
  <2>3. count = c.Countdown - 1
    <3>1. c.Countdown \in 0..(CountModulus - 1)
      BY <1>1 DEF ControlRecord
    <3> HIDE DEF c
    <3>2. c.Countdown - 1 \in 0..(CountModulus - 1)
      BY <2>2, <3>1, Sizes
    <3> QED  BY <3>2, Sizes
  <2> HIDE DEF c, d, count
  <2>4. count = 0 \/ count \in 1..MaxDelay
    BY <2>2, <2>3, Sizes
  <2>5. count # 0 => Waiting(d)
    BY <2>1, <2>4 DEF Waiting
  <2> QED  BY <1>5, <2>1, <2>5
<1>10. ASSUME NEW ok \in BOOLEAN, Collect(ok) PROVE CountInv'
  <2> DEFINE e == c.Entry[c.CurrentEntry]
  <2>1. /\ d.Countdown = e.Delay
        /\ \A t \in Tables \ {cur} : ctl'[t] = ctl[t]
        /\ pc = "collect"
        /\ IF e.Delay = 0 THEN UNCHANGED <<pc, cur>> ELSE NextTable
    BY <1>1, <1>10 DEF Collect, ControlRecord
  <2>2. c.CurrentEntry \in Entries
    <3>1. c.CurrentEntry < c.AddrCount
      BY <2>1 DEF Inv, Guarded
    <3>2. c.CurrentEntry \in 0..TableSize /\ c.AddrCount \in 0..TableSize
      BY <1>1 DEF ControlRecord
    <3> HIDE DEF c
    <3> QED  BY <3>1, <3>2, Sizes DEF Entries
  <2>3. e.Delay \in 0..MaxDelay
    BY <1>6, <2>2
  <2> HIDE DEF d, e
  <2>4. e.Delay # 0 => Waiting(d)
    BY <2>1, <2>3, Sizes DEF Waiting
  <2> QED  BY <1>5, <2>1, <2>4
<1> QED  BY <1>7, <1>8, <1>9, <1>10 DEF MD_DwellLoop

(* A command restarts a table's countdown, ends it or leaves it alone, and *)
(* a jam that fails half-way does so too.                                  *)
LEMMA CommandCounts ==
  ASSUME Inv, CountInv, Command \/ Load
  PROVE  CountInv'
<1>1. pc = "wait" /\ pc' = "wait"
  BY CommandBetween DEF Between
<1>2. /\ ctl \in [Tables -> ControlRecord]
      /\ \A t \in Tables : ctl[t] \in ControlRecord /\ Waiting(ctl[t])
  BY <1>1 DEF Inv, TypeOK, CountInv
<1>3. ASSUME NEW t \in Tables, NEW r, ctl' = [ctl EXCEPT ![t] = r], Waiting(r)
      PROVE  CountInv'
  BY <1>1, <1>2, <1>3 DEF CountInv
<1>4. ASSUME UNCHANGED ctl PROVE CountInv'
  BY <1>1, <1>2, <1>4 DEF CountInv
<1>5. ASSUME NEW mask, NEW failed,
             MD_StartDwellCmd(mask, failed) \/ MD_StopDwellCmd(mask, failed)
      PROVE  CountInv'
  <2>1. ASSUME NEW t \in Tables PROVE Waiting(ctl'[t])
    <3>1. ctl'[t] \in {ctl[t], Started(ctl[t]), Stopped(ctl[t])}
      BY <1>5 DEF MD_StartDwellCmd, MD_StopDwellCmd
    <3> QED  BY <1>2, <3>1, SwitchWaits
  <2> QED  BY <1>1, <2>1 DEF CountInv
<1>6. ASSUME NEW jam \in JamCommands, NEW failed, MD_JamDwellCmd(jam, failed)
      PROVE  CountInv'
  <2> DEFINE t == jam.TableId - 1
             i == jam.EntryId - 1
             jammed == [ctl[t] EXCEPT !.Entry[i] = JammedEntry(jam)]
             updated == MD_UpdateDwellControlInfo(jammed)
  <2>1. jam \in JamPayload /\ ValidJam(jam)
    BY <1>6, DwellStreamsAssumption DEF DwellStreamsAssumption, MD_JamDwellCmd
  <2>2. t \in Tables /\ i \in Entries /\ JammedEntry(jam) \in ControlEntry
    BY <2>1, JamTypes
  <2>3. ctl' = [ctl EXCEPT ![t] = updated] \/ ctl' = [ctl EXCEPT ![t] = jammed]
    BY <1>6 DEF MD_JamDwellCmd, Faulty
  <2>4. jammed \in ControlRecord
    BY <1>2, <2>2, JammedType
  <2>5. jammed.Enabled = ctl[t].Enabled /\ jammed.Countdown = ctl[t].Countdown
    BY <1>2, <2>2 DEF ControlRecord
  <2> HIDE DEF jammed
  <2>6. updated.Enabled = jammed.Enabled /\ updated.Countdown = jammed.Countdown
    BY <2>4, UpdateInfoFields
  <2> HIDE DEF updated, t, i
  <2>7. Waiting(jammed) /\ Waiting(updated)
    BY <1>2, <2>2, <2>5, <2>6 DEF Waiting
  <2> QED  BY <1>3, <2>2, <2>3, <2>7
<1>7. ASSUME NEW cmd \in SignatureCommands, NEW failed, MD_SetSignatureCmd(cmd, failed)
      PROVE  CountInv'
  <2> DEFINE t == cmd.TableId - 1
             signed == [ctl[t] EXCEPT !.Signature = cmd.Signature]
  <2>1. CASE UNCHANGED ctl
    BY <1>4, <2>1
  <2>2. CASE MD_ValidTableId(cmd.TableId) /\ ctl' = [ctl EXCEPT ![t] = signed]
    <3>1. t \in Tables
      BY <2>2, Sizes DEF MD_ValidTableId, Tables
    <3>2. Waiting(signed)
      BY <1>2, <3>1 DEF Waiting, ControlRecord
    <3> HIDE DEF t, signed
    <3> QED  BY <1>3, <2>2, <3>1, <3>2
  <2> QED  BY <1>7, <2>1, <2>2 DEF MD_SetSignatureCmd, Faulty
<1>8. ASSUME NEW t \in Tables, NEW image \in LoadImages, LoadTable(t, image)
      PROVE  CountInv'
  <2>1. image \in BufferImage
    BY <1>8, ValidImageType, DwellStreamsAssumption
    DEF DwellStreamsAssumption, LoadTable
  <2>2. ctl' = [ctl EXCEPT ![t] = Activated(ctl[t], image)] \/ UNCHANGED ctl
    BY <1>8 DEF LoadTable, CopyTable, MissCopy
  <2> QED  BY <1>2, <1>3, <1>4, <2>1, <2>2, ActivatedWaits
<1>9. ASSUME NEW mask, EmptyMask(mask) PROVE CountInv'
  BY <1>4, <1>9 DEF EmptyMask
<1>10. ASSUME NEW jam, InvalidJam(jam) PROVE CountInv'
  BY <1>4, <1>10 DEF InvalidJam
<1>11. CASE MD_NoopCmd \/ MD_ResetCountersCmd \/ RefuseMessage
  BY <1>4, <1>11 DEF MD_NoopCmd, MD_ResetCountersCmd, RefuseMessage
<1> QED
  BY <1>5, <1>6, <1>7, <1>8, <1>9, <1>10, <1>11 DEF Command, Load

LEMMA CountNext ==
  ASSUME Inv, CountInv, [Next]_vars, [~FlushAtZero]_vars
  PROVE  CountInv'
<1>1. CASE UNCHANGED vars
  BY <1>1 DEF vars, CountInv
<1>2. CASE Wakeup
  BY <1>2 DEF Wakeup, CountInv
<1>3. CASE MD_DwellLoop /\ ~FlushAtZero
  BY <1>3, LoopCounts
<1>4. CASE Command \/ Load
  BY <1>4, CommandCounts
<1> QED  BY <1>1, <1>2, <1>3, <1>4 DEF Next

(* As long as no packet is flushed where the table ends at an entry        *)
(* without a delay, a running stream never waits longer than the longest   *)
(* delay: a countdown starts at zero nowhere else, from where it would go  *)
(* the long way round.  The run CountdownWraps shows that one such flush   *)
(* is enough.                                                              *)
THEOREM WaitsAreShort ==
  Spec /\ [][~FlushAtZero]_vars => []WaitsWithinDelay
<1>1. Init => CountInv
  BY CountInit
<1>2. Inv /\ CountInv /\ [Next]_vars /\ [~FlushAtZero]_vars => CountInv'
  BY CountNext
<1>3. Inv /\ CountInv => WaitsWithinDelay
  BY CountIsShort
<1>4. Spec => []Inv
  BY Invariant
<1> QED  BY <1>1, <1>2, <1>3, <1>4, PTL DEF Spec

-----------------------------------------------------------------------------
(* Tables without zero delays                                              *)

(* No field that can get into a table has a delay of zero.                 *)
PositiveDelays ==
  /\ \A image \in SavedImages \cup LoadImages, i \in Entries :
       image.Entry[i].Length # 0 => image.Entry[i].Delay # 0
  /\ \A jam \in JamCommands : jam.FieldLength # 0 => jam.DwellDelay # 0

Delayed(c) == \A i \in Entries : c.Entry[i].Length # 0 => c.Entry[i].Delay # 0

DelayedInv == \A t \in Tables : Delayed(ctl[t])

LEMMA ActivatedDelayed ==
  ASSUME NEW c \in ControlRecord, NEW image \in BufferImage,
         \A i \in Entries : image.Entry[i].Length # 0 => image.Entry[i].Delay # 0
  PROVE  Delayed(Activated(c, image))
<1>1. Activated(c, image).Entry = CopiedEntries(image)
  BY ActivatedFields
<1> QED  BY <1>1 DEF Delayed, CopiedEntries

LEMMA DelayedInit ==
  ASSUME PositiveDelays, Init
  PROVE  DelayedInv
<1>1. PICK recovered \in SUBSET Tables :
        /\ buf \in [Tables -> RecoverableImages]
        /\ ctl = [t \in Tables |->
                   IF t \in recovered THEN Activated(InitialControl, buf[t])
                                      ELSE InitialControl]
  BY DEF Init
<1>2. ASSUME NEW image \in RecoverableImages, NEW i \in Entries
      PROVE  image.Entry[i].Length # 0 => image.Entry[i].Delay # 0
  BY DEF RecoverableImages, DefaultImage, DefaultTable, NullLoadEntry, PositiveDelays
<1>3. Delayed(InitialControl)
  BY DEF Delayed, InitialControl, NullControlEntry
<1>4. ASSUME NEW t \in Tables PROVE Delayed(ctl[t])
  <2>1. buf[t] \in RecoverableImages /\ buf[t] \in BufferImage
    BY <1>1, RecoverableType
  <2>2. Delayed(Activated(InitialControl, buf[t]))
    BY <1>2, <2>1, InitialControlType, ActivatedDelayed
  <2> QED  BY <1>1, <1>3, <2>2
<1> QED  BY <1>4 DEF DelayedInv

LEMMA CommandDelays ==
  ASSUME PositiveDelays, Inv, DelayedInv, Command \/ Load
  PROVE  DelayedInv'
<1>1. /\ ctl \in [Tables -> ControlRecord]
      /\ \A t \in Tables : ctl[t] \in ControlRecord /\ Delayed(ctl[t])
  BY DEF Inv, TypeOK, DelayedInv
<1>2. ASSUME NEW t \in Tables, NEW r, ctl' = [ctl EXCEPT ![t] = r], Delayed(r)
      PROVE  DelayedInv'
  BY <1>1, <1>2 DEF DelayedInv
<1>3. ASSUME UNCHANGED ctl PROVE DelayedInv'
  BY <1>1, <1>3 DEF DelayedInv
<1>4. ASSUME NEW mask, NEW failed,
             MD_StartDwellCmd(mask, failed) \/ MD_StopDwellCmd(mask, failed)
      PROVE  DelayedInv'
  <2>1. ASSUME NEW t \in Tables PROVE ctl'[t].Entry = ctl[t].Entry
    BY <1>1, <1>4 DEF MD_StartDwellCmd, MD_StopDwellCmd, Started, Stopped,
                      MD_StartDwellStream, ControlRecord
  <2> QED  BY <1>1, <2>1 DEF DelayedInv, Delayed
<1>5. ASSUME NEW jam \in JamCommands, NEW failed, MD_JamDwellCmd(jam, failed)
      PROVE  DelayedInv'
  <2> DEFINE t == jam.TableId - 1
             i == jam.EntryId - 1
             e == JammedEntry(jam)
             jammed == [ctl[t] EXCEPT !.Entry[i] = e]
             updated == MD_UpdateDwellControlInfo(jammed)
  <2>1. jam \in JamPayload /\ ValidJam(jam)
    BY <1>5, DwellStreamsAssumption DEF DwellStreamsAssumption, MD_JamDwellCmd
  <2>2. t \in Tables /\ i \in Entries /\ e \in ControlEntry
    BY <2>1, JamTypes
  <2>3. e.Length # 0 => e.Delay # 0
    BY DEF JammedEntry, NullControlEntry, PositiveDelays
  <2>4. ctl' = [ctl EXCEPT ![t] = updated] \/ ctl' = [ctl EXCEPT ![t] = jammed]
    BY <1>5 DEF MD_JamDwellCmd, Faulty
  <2>5. jammed \in ControlRecord
    BY <1>1, <2>2, JammedType
  <2> HIDE DEF e
  <2>6. \A j \in Entries : jammed.Entry[j] = IF j = i THEN e ELSE ctl[t].Entry[j]
    BY <1>1, <2>2 DEF ControlRecord
  <2> HIDE DEF jammed
  <2>7. updated.Entry = jammed.Entry
    BY <2>5, UpdateInfoFields
  <2> HIDE DEF updated, t, i
  <2>8. Delayed(jammed) /\ Delayed(updated)
    BY <1>1, <2>2, <2>3, <2>6, <2>7 DEF Delayed
  <2> QED  BY <1>2, <2>2, <2>4, <2>8
<1>6. ASSUME NEW cmd \in SignatureCommands, NEW failed, MD_SetSignatureCmd(cmd, failed)
      PROVE  DelayedInv'
  <2>1. ASSUME NEW t \in Tables PROVE ctl'[t].Entry = ctl[t].Entry
    BY <1>1, <1>6 DEF MD_SetSignatureCmd, ControlRecord
  <2> QED  BY <1>1, <2>1 DEF DelayedInv, Delayed
<1>7. ASSUME NEW t \in Tables, NEW image \in LoadImages, LoadTable(t, image)
      PROVE  DelayedInv'
  <2>1. image \in BufferImage
    BY <1>7, ValidImageType, DwellStreamsAssumption
    DEF DwellStreamsAssumption, LoadTable
  <2>2. ctl' = [ctl EXCEPT ![t] = Activated(ctl[t], image)] \/ UNCHANGED ctl
    BY <1>7 DEF LoadTable, CopyTable, MissCopy
  <2>3. \A i \in Entries : image.Entry[i].Length # 0 => image.Entry[i].Delay # 0
    BY DEF PositiveDelays
  <2> QED  BY <1>1, <1>2, <1>3, <2>1, <2>2, <2>3, ActivatedDelayed
<1>8. ASSUME NEW mask, EmptyMask(mask) PROVE DelayedInv'
  BY <1>3, <1>8 DEF EmptyMask
<1>9. ASSUME NEW jam, InvalidJam(jam) PROVE DelayedInv'
  BY <1>3, <1>9 DEF InvalidJam
<1>10. CASE MD_NoopCmd \/ MD_ResetCountersCmd \/ RefuseMessage
  BY <1>3, <1>10 DEF MD_NoopCmd, MD_ResetCountersCmd, RefuseMessage
<1> QED
  BY <1>4, <1>5, <1>6, <1>7, <1>8, <1>9, <1>10 DEF Command, Load

LEMMA DelayedNext ==
  ASSUME PositiveDelays, Inv, DelayedInv, [Next]_vars
  PROVE  DelayedInv'
<1>1. CASE UNCHANGED vars
  BY <1>1 DEF vars, DelayedInv
<1>2. CASE Wakeup
  BY <1>2 DEF Wakeup, DelayedInv
<1>3. CASE MD_DwellLoop
  BY <1>3, LoopKeeps DEF DelayedInv, Delayed, Keeps
<1>4. CASE Command \/ Load
  BY <1>4, CommandDelays
<1> QED  BY <1>1, <1>2, <1>3, <1>4 DEF Next

(* The entry the table ends at is one of its active entries.               *)
LEMMA FlushesDelayed ==
  ASSUME Inv, Totals, DelayedInv
  PROVE  ~FlushAtZero
<1> SUFFICES ASSUME FlushPacket PROVE ctl[cur].Entry[ctl[cur].AddrCount - 1].Delay # 0
  BY DEF FlushAtZero
<1> DEFINE c == ctl[cur]
<1>1. cur \in Tables /\ c \in ControlRecord /\ TotalsOf(c) /\ Delayed(c)
  BY DEF Inv, TypeOK, Totals, DelayedInv
<1>2. c.AddrCount \in 1..TableSize
  BY <1>1 DEF Inv, Guarded, FlushPacket, Running, RateNeedsEntries
<1>3. c.AddrCount = ActiveCount(c.Entry)
  BY <1>1 DEF TotalsOf
<1> HIDE DEF c
<1>4. c.AddrCount - 1 \in Entries /\ c.AddrCount - 1 \in 0..(ActiveCount(c.Entry) - 1)
  BY <1>2, <1>3, Sizes DEF Entries
<1>5. c.Entry[c.AddrCount - 1].Length # 0
  BY <1>4, ActiveCountFacts
<1> QED  BY <1>1, <1>4, <1>5 DEF Delayed, c

(* If every field that is saved, loaded or jammed has a delay, what the    *)
(* theorems on countdowns and timers ask for is given.                     *)
THEOREM DelaysSuffice ==
  ASSUME PositiveDelays, ~TblFaults
  PROVE  Spec => [][~FlushAtZero]_vars
<1>1. Init => Totals /\ DelayedInv
  BY TotalsInit, DelayedInit
<1>2. Inv /\ Totals /\ DelayedInv /\ [Next]_vars => Totals' /\ DelayedInv'
  BY TotalsNext, DelayedNext
<1>3. Inv /\ Totals /\ DelayedInv => [~FlushAtZero]_vars
  BY FlushesDelayed
<1>4. Spec => []Inv
  BY Invariant
<1> QED  BY <1>1, <1>2, <1>3, <1>4, PTL DEF Spec
=============================================================================
