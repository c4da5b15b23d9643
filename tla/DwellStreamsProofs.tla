-------------------------- MODULE DwellStreamsProofs --------------------------
(***************************************************************************)
(* Theorems about DwellStreams, for every number and size of dwell tables, *)
(* every set of table images and commands, and every pattern of failures.  *)
(***************************************************************************)
EXTENDS DwellStreams, DwellTablesProofs

-----------------------------------------------------------------------------
(* The inductive invariant                                                 *)

(* A table that runs has entries, and the loop collects from a table that  *)
(* runs, at an entry before the table's last.  Neither asks the totals to  *)
(* be those of the entries: after a failed jam they are not.               *)
Guarded ==
  /\ \A t \in Tables : RateNeedsEntries(ctl[t])
  /\ pc = "collect" =>
       Running(ctl[cur]) /\ ctl[cur].CurrentEntry < ctl[cur].AddrCount

Inv == TypeOK /\ Guarded

-----------------------------------------------------------------------------
(* What one step does to a control record                                  *)

LEMMA Constants ==
  /\ CounterModulus \in Nat /\ CounterModulus >= 1
  /\ 0 \in Tables
  /\ \A t \in Tables : t \in Nat /\ t < NumTables
  /\ \A i \in Entries : i \in Nat /\ i < TableSize
<1>1. CounterModulus \in Nat /\ CounterModulus >= 1
  BY DwellStreamsAssumption DEF DwellStreamsAssumption
<1> QED  BY <1>1, Sizes DEF Tables, Entries

LEMMA NextTableType ==
  ASSUME cur \in Tables, NextTable
  PROVE  cur' \in Tables /\ pc' \in {"wait", "scan"}
BY Sizes DEF NextTable, Tables

(* An accepted or rejected command keeps the counters in their range.      *)
LEMMA VerdictType ==
  ASSUME CmdCounter \in 0..(CounterModulus - 1),
         ErrCounter \in 0..(CounterModulus - 1), Accept \/ Reject
  PROVE  /\ CmdCounter' \in 0..(CounterModulus - 1)
         /\ ErrCounter' \in 0..(CounterModulus - 1)
BY ModRange, Constants DEF Accept, Reject

LEMMA DiscardType ==
  ASSUME NEW ts, Discard(ts),
         collected \in [Tables -> SUBSET Nat], disturbed \in [Tables -> BOOLEAN]
  PROVE  collected' \in [Tables -> SUBSET Nat] /\ disturbed' \in [Tables -> BOOLEAN]
BY DEF Discard

LEMMA TransmitType ==
  ASSUME NEW t \in Tables, NEW bytes, NEW spoilt, Transmit(t, bytes, spoilt),
         collected \in [Tables -> SUBSET Nat], disturbed \in [Tables -> BOOLEAN],
         sent \in [Tables -> 0..2]
  PROVE  /\ collected' \in [Tables -> SUBSET Nat]
         /\ disturbed' \in [Tables -> BOOLEAN]
         /\ sent' \in [Tables -> 0..2]
BY DEF Transmit

(* The loop counts and collects; what a table asks for, it leaves alone.   *)
Keeps(c, d) ==
  /\ d \in ControlRecord
  /\ d.Entry = c.Entry /\ d.AddrCount = c.AddrCount /\ d.DataSize = c.DataSize
  /\ d.Rate = c.Rate /\ d.Enabled = c.Enabled /\ d.Signature = c.Signature

LEMMA FlushKeeps ==
  ASSUME Inv, FlushPacket
  PROVE  \A t \in Tables : Keeps(ctl[t], ctl'[t])
<1> DEFINE c == ctl[cur]
           delay == c.Entry[c.AddrCount - 1].Delay
           d == [c EXCEPT !.CurrentEntry = 0, !.PktOffset = 0, !.Countdown = delay]
<1>1. cur \in Tables /\ c \in ControlRecord /\ ctl \in [Tables -> ControlRecord]
  BY DEF Inv, TypeOK
<1>2. c.AddrCount - 1 \in Entries
  <2>1. c.AddrCount \in 1..TableSize
    BY <1>1 DEF Inv, Guarded, FlushPacket, Running, RateNeedsEntries
  <2> QED  BY <2>1, Sizes DEF Entries
<1>3. delay \in 0..(CountModulus - 1)
  <2>1. c.Entry[c.AddrCount - 1] \in ControlEntry
    BY <1>1, <1>2 DEF ControlRecord
  <2> QED  BY <2>1, DelaysCount DEF ControlEntry
<1>4. ctl' = [ctl EXCEPT ![cur] = d]
  BY DEF FlushPacket
<1>5. 0 \in 0..TableSize /\ 0 \in UINT16
  BY Sizes DEF UINT16
<1> HIDE DEF delay
<1>6. Keeps(c, d)
  BY <1>1, <1>3, <1>5 DEF Keeps, ControlRecord
<1> HIDE DEF d
<1> QED  BY <1>1, <1>4, <1>6 DEF Keeps

LEMMA CountDownKeeps ==
  ASSUME Inv, CountDown
  PROVE  \A t \in Tables : Keeps(ctl[t], ctl'[t])
<1> DEFINE c == ctl[cur]
           count == (c.Countdown - 1) % CountModulus
           d == [c EXCEPT !.Countdown = count]
<1>1. cur \in Tables /\ c \in ControlRecord /\ ctl \in [Tables -> ControlRecord]
  BY DEF Inv, TypeOK
<1>2. count \in 0..(CountModulus - 1)
  <2>1. c.Countdown - 1 \in Int
    BY <1>1, Sizes DEF ControlRecord
  <2>2. CountModulus \in Nat /\ CountModulus >= 1
    BY Sizes
  <2> HIDE DEF c
  <2> QED  BY <2>1, <2>2, ModRange
<1>3. ctl' = [ctl EXCEPT ![cur] = d]
  BY DEF CountDown
<1> HIDE DEF count
<1>4. Keeps(c, d)
  BY <1>1, <1>2 DEF Keeps, ControlRecord
<1> HIDE DEF d
<1> QED  BY <1>1, <1>3, <1>4 DEF Keeps

(* Collecting moves on to an entry below AddrCount, or back to the first.  *)
LEMMA CollectKeeps ==
  ASSUME Inv, NEW ok \in BOOLEAN, Collect(ok)
  PROVE  /\ \A t \in Tables : Keeps(ctl[t], ctl'[t])
         /\ ctl'[cur].CurrentEntry < ctl'[cur].AddrCount
<1> DEFINE c == ctl[cur]
           e == c.Entry[c.CurrentEntry]
           last == c.CurrentEntry = c.AddrCount - 1
           next == IF last THEN 0 ELSE c.CurrentEntry + 1
           offset == IF last THEN 0 ELSE (c.PktOffset + (e.Length % 256)) % Word
           d == [c EXCEPT !.Countdown = e.Delay, !.CurrentEntry = next,
                          !.PktOffset = offset]
<1>1. cur \in Tables /\ c \in ControlRecord /\ ctl \in [Tables -> ControlRecord]
  BY DEF Inv, TypeOK
<1>2. /\ c.AddrCount \in 1..TableSize
      /\ c.CurrentEntry \in 0..TableSize /\ c.CurrentEntry < c.AddrCount
  <2>1. pc = "collect"
    BY DEF Collect
  <2> QED  BY <1>1, <2>1 DEF Inv, Guarded, Running, RateNeedsEntries, ControlRecord
<1>3. e \in ControlEntry
  <2>1. c.CurrentEntry \in Entries
    BY <1>2, Sizes DEF Entries
  <2> QED  BY <1>1, <2>1 DEF ControlRecord
<1>4. e.Delay \in 0..(CountModulus - 1)
  BY <1>3, DelaysCount DEF ControlEntry
<1>5. next \in 0..TableSize /\ next < c.AddrCount
  BY <1>2, Sizes
<1>6. offset \in UINT16
  <2>1. e.Length \in Int /\ c.PktOffset \in Int
    <3>1. e.Length \in UINT16 /\ c.PktOffset \in UINT16
      BY <1>1, <1>3 DEF ControlEntry, ControlRecord
    <3> QED  BY <3>1, Sizes DEF UINT16
  <2>2. c.PktOffset + (e.Length % 256) \in Int
    BY <2>1
  <2> HIDE DEF c, e
  <2>3. (c.PktOffset + (e.Length % 256)) % Word \in UINT16
    BY <2>2, WordRange
  <2>4. 0 \in UINT16
    BY Sizes DEF UINT16
  <2> QED  BY <2>3, <2>4
<1>7. ctl' = [ctl EXCEPT ![cur] = d]
  BY DEF Collect
<1> HIDE DEF e, next, offset
<1>8. Keeps(c, d) /\ d.CurrentEntry = next
  BY <1>1, <1>4, <1>5, <1>6 DEF Keeps, ControlRecord
<1> HIDE DEF d
<1> QED  BY <1>1, <1>5, <1>7, <1>8 DEF Keeps

(* A command or a load changes records as a whole: each stays a record     *)
(* whose rate needs entries.                                               *)
Sound(c) == c \in ControlRecord /\ RateNeedsEntries(c)

LEMMA SoundActivated ==
  ASSUME NEW c \in ControlRecord, NEW image \in BufferImage
  PROVE  Sound(Activated(c, image))
BY ActivatedType, ActivatedRate DEF Sound

LEMMA SoundSwitched ==
  ASSUME NEW c, Sound(c)
  PROVE  Sound(Started(c)) /\ Sound(Stopped(c))
BY SwitchTypes, SwitchRate DEF Sound

LEMMA JammedType ==
  ASSUME NEW c \in ControlRecord, NEW i \in Entries, NEW e \in ControlEntry
  PROVE  [c EXCEPT !.Entry[i] = e] \in ControlRecord
BY DEF ControlRecord

LEMMA SoundJammed ==
  ASSUME NEW c, Sound(c), NEW i \in Entries, NEW e \in ControlEntry
  PROVE  LET jammed == [c EXCEPT !.Entry[i] = e]
         IN  Sound(jammed) /\ Sound(MD_UpdateDwellControlInfo(jammed))
<1> DEFINE jammed == [c EXCEPT !.Entry[i] = e]
<1>1. c \in ControlRecord /\ jammed \in ControlRecord
  BY JammedType DEF Sound
<1>2. RateNeedsEntries(jammed)
  BY <1>1 DEF Sound, RateNeedsEntries, ControlRecord
<1> HIDE DEF jammed
<1>3. Sound(jammed) /\ Sound(MD_UpdateDwellControlInfo(jammed))
  BY <1>1, <1>2, UpdateInfoType, UpdateInfoRate DEF Sound
<1> QED  BY <1>3 DEF jammed

LEMMA SoundSigned ==
  ASSUME NEW c, Sound(c), NEW signature \in Signatures
  PROVE  Sound([c EXCEPT !.Signature = signature])
BY DEF Sound, RateNeedsEntries, ControlRecord

(* The streams a start-up may find.                                        *)
LEMMA RecoverableType == RecoverableImages \subseteq BufferImage
<1>1. DefaultImage \in BufferImage
  BY DefaultTableType, DwellStreamsAssumption DEF DwellStreamsAssumption, DefaultImage
<1>2. SavedImages \subseteq TableImage
  BY DwellStreamsAssumption DEF DwellStreamsAssumption
<1> QED  BY <1>1, <1>2, ValidImageType DEF RecoverableImages

LEMMA SoundInitial == Sound(InitialControl)
<1>1. RateNeedsEntries(InitialControl)
  BY DEF RateNeedsEntries, InitialControl
<1> QED  BY <1>1, InitialControlType DEF Sound

-----------------------------------------------------------------------------
(* The invariant holds initially and is preserved                          *)

LEMMA InitInv == Init => Inv
<1> SUFFICES ASSUME Init PROVE Inv
  OBVIOUS
<1>1. PICK recovered \in SUBSET Tables :
        /\ buf \in [Tables -> RecoverableImages]
        /\ ctl = [t \in Tables |->
                   IF t \in recovered THEN Activated(InitialControl, buf[t])
                                      ELSE InitialControl]
  BY DEF Init
<1>2. buf \in [Tables -> BufferImage]
  BY <1>1, RecoverableType
<1>3. \A t \in Tables : Sound(ctl[t])
  BY <1>1, <1>2, SoundInitial, SoundActivated, InitialControlType
<1>4. ctl \in [Tables -> ControlRecord] /\ Guarded
  <2>1. pc = "wait"  BY DEF Init
  <2> QED  BY <1>1, <1>3, <2>1 DEF Sound, Guarded
<1>5. CmdCounter \in 0..(CounterModulus - 1) /\ ErrCounter \in 0..(CounterModulus - 1)
  BY Constants DEF Init
<1>6. /\ pc \in {"wait", "scan", "collect"} /\ cur \in Tables
      /\ collected \in [Tables -> SUBSET Nat] /\ disturbed \in [Tables -> BOOLEAN]
      /\ sent \in [Tables -> 0..2]
  BY Constants DEF Init
<1> QED  BY <1>2, <1>4, <1>5, <1>6 DEF Inv, TypeOK

(* A step between two scans leaves no table half collected.                *)
LEMMA BetweenInv ==
  ASSUME Inv, Between,
         NEW next, ctl' = [t \in Tables |-> next[t]],
         \A t \in Tables : Sound(next[t]),
         buf' \in [Tables -> BufferImage],
         CmdCounter' \in 0..(CounterModulus - 1),
         ErrCounter' \in 0..(CounterModulus - 1),
         collected' \in [Tables -> SUBSET Nat],
         disturbed' \in [Tables -> BOOLEAN]
  PROVE  Inv'
<1>1. ctl' \in [Tables -> ControlRecord] /\ \A t \in Tables : RateNeedsEntries(ctl'[t])
  BY DEF Sound
<1>2. pc' = "wait" /\ cur' \in Tables /\ sent' \in [Tables -> 0..2]
  BY DEF Between, Inv, TypeOK
<1>3. Guarded'
  BY <1>1, <1>2 DEF Guarded
<1> QED  BY <1>1, <1>2, <1>3 DEF Inv, TypeOK

LEMMA LoopInv ==
  ASSUME Inv, MD_DwellLoop
  PROVE  Inv'
<1>1. /\ cur \in Tables /\ ctl \in [Tables -> ControlRecord]
      /\ collected \in [Tables -> SUBSET Nat] /\ disturbed \in [Tables -> BOOLEAN]
      /\ sent \in [Tables -> 0..2]
      /\ \A t \in Tables : RateNeedsEntries(ctl[t])
  BY DEF Inv, TypeOK, Guarded
<1>2. ASSUME \A t \in Tables : Keeps(ctl[t], ctl'[t]),
             ctl' = [t \in Tables |-> ctl'[t]]
      PROVE  /\ ctl' \in [Tables -> ControlRecord]
             /\ \A t \in Tables : RateNeedsEntries(ctl'[t])
  BY <1>1, <1>2 DEF Keeps, RateNeedsEntries
<1>3. CASE SkipTable
  <2>1. cur' \in Tables /\ pc' \in {"wait", "scan"}
    BY <1>1, <1>3, NextTableType DEF SkipTable
  <2> QED  BY <1>3, <2>1 DEF SkipTable, Inv, TypeOK, Guarded
<1>4. CASE FlushPacket
  <2>1. cur' \in Tables /\ pc' \in {"wait", "scan"}
    BY <1>1, <1>4, NextTableType DEF FlushPacket
  <2>2. /\ ctl' \in [Tables -> ControlRecord]
        /\ \A t \in Tables : RateNeedsEntries(ctl'[t])
    <3>1. ctl' = [t \in Tables |-> ctl'[t]]
      BY <1>1, <1>4 DEF FlushPacket
    <3> QED  BY <1>2, <1>4, <3>1, FlushKeeps
  <2>3. /\ collected' \in [Tables -> SUBSET Nat]
        /\ disturbed' \in [Tables -> BOOLEAN] /\ sent' \in [Tables -> 0..2]
    BY <1>1, <1>4, TransmitType DEF FlushPacket
  <2>4. Guarded'
    BY <2>1, <2>2 DEF Guarded
  <2> QED  BY <1>4, <2>1, <2>2, <2>3, <2>4 DEF FlushPacket, Inv, TypeOK
<1>5. CASE CountDown
  <2>1. \A t \in Tables : Keeps(ctl[t], ctl'[t])
    BY <1>5, CountDownKeeps
  <2>2. /\ ctl' \in [Tables -> ControlRecord]
        /\ \A t \in Tables : RateNeedsEntries(ctl'[t])
    <3>1. ctl' = [t \in Tables |-> ctl'[t]]
      BY <1>1, <1>5 DEF CountDown
    <3> QED  BY <1>2, <2>1, <3>1
  <2>3. /\ cur' \in Tables /\ pc' \in {"wait", "scan", "collect"}
        /\ pc' = "collect" => cur' = cur
    BY <1>1, <1>5, NextTableType DEF CountDown
  <2>4. pc' = "collect" =>
          Running(ctl'[cur']) /\ ctl'[cur'].CurrentEntry < ctl'[cur'].AddrCount
    <3>1. ctl'[cur].CurrentEntry = ctl[cur].CurrentEntry
      BY <1>1, <1>5 DEF CountDown, ControlRecord
    <3>2. Running(ctl[cur]) /\ ctl[cur].CurrentEntry < ctl[cur].AddrCount
      BY <1>5 DEF CountDown
    <3> QED  BY <1>1, <2>1, <2>3, <3>1, <3>2 DEF Keeps, Running
  <2>5. Guarded'
    BY <2>2, <2>4 DEF Guarded
  <2> QED  BY <1>5, <2>2, <2>3, <2>5 DEF CountDown, Inv, TypeOK
<1>6. ASSUME NEW ok \in BOOLEAN, Collect(ok) PROVE Inv'
  <2>1. /\ \A t \in Tables : Keeps(ctl[t], ctl'[t])
        /\ ctl'[cur].CurrentEntry < ctl'[cur].AddrCount
    BY <1>6, CollectKeeps
  <2>2. /\ ctl' \in [Tables -> ControlRecord]
        /\ \A t \in Tables : RateNeedsEntries(ctl'[t])
    <3>1. ctl' = [t \in Tables |-> ctl'[t]]
      BY <1>1, <1>6 DEF Collect
    <3> QED  BY <1>2, <2>1, <3>1
  <2>3. pc = "collect" /\ Running(ctl[cur])
    BY <1>6 DEF Collect, Inv, Guarded
  <2>4. /\ cur' \in Tables /\ pc' \in {"wait", "scan", "collect"}
        /\ pc' = "collect" => cur' = cur
    BY <1>1, <1>6, <2>3, NextTableType DEF Collect
  <2>5. Guarded'
    BY <1>1, <2>1, <2>2, <2>3, <2>4 DEF Guarded, Keeps, Running
  <2>6. /\ collected' \in [Tables -> SUBSET Nat]
        /\ disturbed' \in [Tables -> BOOLEAN] /\ sent' \in [Tables -> 0..2]
    <3> DEFINE c == ctl[cur]
               n == c.Entry[c.CurrentEntry].Length % 256
               bytes == collected[cur] \cup
                          (IF ok THEN c.PktOffset..(c.PktOffset + n - 1) ELSE {})
               spoilt == disturbed[cur] \/ ~ok
    <3>1. c.PktOffset \in Nat
      BY <1>1, Sizes DEF ControlRecord, UINT16
    <3>2. bytes \in SUBSET Nat /\ spoilt \in BOOLEAN
      BY <1>1, <3>1
    <3>3. \/ Transmit(cur, bytes, spoilt)
          \/ /\ collected' = [collected EXCEPT ![cur] = bytes]
             /\ disturbed' = [disturbed EXCEPT ![cur] = spoilt]
             /\ UNCHANGED sent
      BY <1>6 DEF Collect
    <3> HIDE DEF bytes, spoilt
    <3> QED  BY <1>1, <3>2, <3>3, TransmitType
  <2> QED  BY <1>6, <2>2, <2>4, <2>5, <2>6 DEF Collect, Inv, TypeOK
<1> QED  BY <1>3, <1>4, <1>5, <1>6 DEF MD_DwellLoop

LEMMA UpdateEnabledType ==
  ASSUME Inv, NEW ts, NEW failed, NEW value \in {Dwell_DISABLED, Dwell_ENABLED},
         UpdateEnabledFields(ts, failed, value)
  PROVE  /\ buf' \in [Tables -> BufferImage]
         /\ CmdCounter' \in 0..(CounterModulus - 1)
         /\ ErrCounter' \in 0..(CounterModulus - 1)
<1>1. \A t \in Tables : [buf[t] EXCEPT !.Enabled = value] \in BufferImage
  BY DEF Inv, TypeOK, BufferImage
<1>2. buf' \in [Tables -> BufferImage]
  BY <1>1 DEF UpdateEnabledFields, Inv, TypeOK
<1>3. Accept \/ Reject
  BY DEF UpdateEnabledFields
<1> QED  BY <1>2, <1>3, VerdictType DEF Inv, TypeOK

LEMMA CommandInv ==
  ASSUME Inv, Command \/ Load
  PROVE  Inv'
<1>1. /\ ctl = [t \in Tables |-> ctl[t]] /\ \A t \in Tables : Sound(ctl[t])
      /\ buf \in [Tables -> BufferImage]
      /\ CmdCounter \in 0..(CounterModulus - 1)
      /\ ErrCounter \in 0..(CounterModulus - 1)
      /\ collected \in [Tables -> SUBSET Nat] /\ disturbed \in [Tables -> BOOLEAN]
  BY DEF Inv, TypeOK, Guarded, Sound
<1>2. ASSUME NEW mask, NEW failed, MD_StartDwellCmd(mask, failed) PROVE Inv'
  <2> DEFINE ts == Selected(mask)
             next == [t \in Tables |-> IF t \in ts THEN Started(ctl[t]) ELSE ctl[t]]
  <2>1. \A t \in Tables : Sound(next[t])
    BY <1>1, SoundSwitched
  <2>2. ctl' = [t \in Tables |-> next[t]]
    BY <1>2 DEF MD_StartDwellCmd
  <2>3. /\ collected' \in [Tables -> SUBSET Nat]
        /\ disturbed' \in [Tables -> BOOLEAN]
    BY <1>1, <1>2, DiscardType DEF MD_StartDwellCmd
  <2>4. /\ buf' \in [Tables -> BufferImage]
        /\ CmdCounter' \in 0..(CounterModulus - 1)
        /\ ErrCounter' \in 0..(CounterModulus - 1)
    BY <1>2, UpdateEnabledType DEF MD_StartDwellCmd
  <2>5. Between
    BY <1>2 DEF MD_StartDwellCmd
  <2> HIDE DEF next
  <2> QED  BY <2>1, <2>2, <2>3, <2>4, <2>5, BetweenInv
<1>3. ASSUME NEW mask, NEW failed, MD_StopDwellCmd(mask, failed) PROVE Inv'
  <2> DEFINE ts == Selected(mask)
             next == [t \in Tables |-> IF t \in ts THEN Stopped(ctl[t]) ELSE ctl[t]]
  <2>1. \A t \in Tables : Sound(next[t])
    BY <1>1, SoundSwitched
  <2>2. ctl' = [t \in Tables |-> next[t]]
    BY <1>3 DEF MD_StopDwellCmd
  <2>3. /\ collected' \in [Tables -> SUBSET Nat]
        /\ disturbed' \in [Tables -> BOOLEAN]
    BY <1>1, <1>3, DiscardType DEF MD_StopDwellCmd
  <2>4. /\ buf' \in [Tables -> BufferImage]
        /\ CmdCounter' \in 0..(CounterModulus - 1)
        /\ ErrCounter' \in 0..(CounterModulus - 1)
    BY <1>3, UpdateEnabledType DEF MD_StopDwellCmd
  <2>5. Between
    BY <1>3 DEF MD_StopDwellCmd
  <2> HIDE DEF next
  <2> QED  BY <2>1, <2>2, <2>3, <2>4, <2>5, BetweenInv
(* The steps that change neither a record nor a buffer.                    *)
<1>4. ASSUME Between, UNCHANGED <<ctl, buf, collected, disturbed>>,
             CmdCounter' \in 0..(CounterModulus - 1),
             ErrCounter' \in 0..(CounterModulus - 1)
      PROVE  Inv'
  <2>1. ctl' = [t \in Tables |-> ctl[t]]
    BY <1>1, <1>4
  <2> QED  BY <1>1, <1>4, <2>1, BetweenInv
<1>5. ASSUME NEW mask, EmptyMask(mask) PROVE Inv'
  BY <1>1, <1>4, <1>5, VerdictType DEF EmptyMask
<1>6. ASSUME NEW jam \in JamCommands, NEW failed, MD_JamDwellCmd(jam, failed)
      PROVE  Inv'
  <2> DEFINE t == jam.TableId - 1
             i == jam.EntryId - 1
             jammed == [ctl[t] EXCEPT !.Entry[i] = JammedEntry(jam)]
             updated == MD_UpdateDwellControlInfo(jammed)
  <2>1. jam \in JamPayload /\ ValidJam(jam)
    BY <1>6, DwellStreamsAssumption DEF DwellStreamsAssumption, MD_JamDwellCmd
  <2>2. /\ t \in Tables /\ i \in Entries
        /\ JammedEntry(jam) \in ControlEntry /\ JammedLoadEntry(jam) \in LoadEntry
    BY <2>1, JamTypes
  <2>3. Sound(jammed) /\ Sound(updated)
    BY <1>1, <2>2, SoundJammed
  <2>4. /\ CmdCounter' \in 0..(CounterModulus - 1)
        /\ ErrCounter' \in 0..(CounterModulus - 1)
    BY <1>1, <1>6, VerdictType DEF MD_JamDwellCmd
  <2>5. /\ collected' \in [Tables -> SUBSET Nat]
        /\ disturbed' \in [Tables -> BOOLEAN]
    BY <1>1, <1>6, <2>2 DEF MD_JamDwellCmd
  <2>6. buf' \in [Tables -> BufferImage]
    <3>1. [buf EXCEPT ![t].Entry[i] = JammedLoadEntry(jam)] \in [Tables -> BufferImage]
      <4>1. [buf[t] EXCEPT !.Entry[i] = JammedLoadEntry(jam)] \in BufferImage
        BY <1>1, <2>2 DEF BufferImage
      <4> HIDE DEF t, i
      <4> QED  BY <1>1, <4>1
    <3> QED  BY <1>1, <1>6, <3>1 DEF MD_JamDwellCmd
  <2>7. Between /\ (ctl' = [ctl EXCEPT ![t] = updated] \/ ctl' = [ctl EXCEPT ![t] = jammed])
    BY <1>6 DEF MD_JamDwellCmd
  <2> HIDE DEF t, jammed, updated
  <2>8. PICK r : Sound(r) /\ ctl' = [ctl EXCEPT ![t] = r]
    BY <2>3, <2>7
  <2> DEFINE next == [s \in Tables |-> IF s = t THEN r ELSE ctl[s]]
  <2>9. ctl' = [s \in Tables |-> next[s]] /\ \A s \in Tables : Sound(next[s])
    BY <1>1, <2>8
  <2> HIDE DEF next
  <2> QED  BY <2>4, <2>5, <2>6, <2>7, <2>9, BetweenInv
<1>7. ASSUME NEW jam, InvalidJam(jam) PROVE Inv'
  BY <1>1, <1>4, <1>7, VerdictType DEF InvalidJam
<1>8. ASSUME NEW cmd \in SignatureCommands, NEW failed, MD_SetSignatureCmd(cmd, failed)
      PROVE  Inv'
  <2> DEFINE t == cmd.TableId - 1
             signed == [ctl[t] EXCEPT !.Signature = cmd.Signature]
  <2>1. Between /\ UNCHANGED <<collected, disturbed>> /\ (Accept \/ Reject)
    BY <1>8 DEF MD_SetSignatureCmd
  <2>2. /\ CmdCounter' \in 0..(CounterModulus - 1)
        /\ ErrCounter' \in 0..(CounterModulus - 1)
    BY <1>1, <2>1, VerdictType
  <2>3. CASE UNCHANGED <<ctl, buf>>
    BY <1>4, <2>1, <2>2, <2>3
  <2>4. CASE cmd.Signature \in Signatures /\ MD_ValidTableId(cmd.TableId)
             /\ ctl' = [ctl EXCEPT ![t].Signature = cmd.Signature]
             /\ buf' \in {buf, [buf EXCEPT ![t].Signature = cmd.Signature]}
    <3>1. t \in Tables
      BY <2>4, Sizes DEF MD_ValidTableId, Tables
    <3>2. Sound(signed)
      BY <1>1, <2>4, <3>1, SoundSigned
    <3>3. buf' \in [Tables -> BufferImage]
      BY <1>1, <2>4, <3>1 DEF BufferImage
    <3>4. ctl' = [ctl EXCEPT ![t] = signed]
      BY <2>4
    <3> DEFINE next == [s \in Tables |-> IF s = t THEN signed ELSE ctl[s]]
    <3> HIDE DEF t, signed
    <3>5. ctl' = [s \in Tables |-> next[s]] /\ \A s \in Tables : Sound(next[s])
      BY <1>1, <3>2, <3>4
    <3> HIDE DEF next
    <3> QED  BY <1>1, <2>1, <2>2, <3>3, <3>5, BetweenInv
  <2> QED  BY <1>8, <2>3, <2>4 DEF MD_SetSignatureCmd
<1>9. CASE MD_NoopCmd \/ RefuseMessage
  BY <1>1, <1>4, <1>9, VerdictType DEF MD_NoopCmd, RefuseMessage
<1>10. CASE MD_ResetCountersCmd
  BY <1>1, <1>4, <1>10, Constants DEF MD_ResetCountersCmd
<1>11. ASSUME NEW t \in Tables, NEW image \in LoadImages, LoadTable(t, image)
       PROVE  Inv'
  <2>1. image \in BufferImage
    BY <1>11, ValidImageType, DwellStreamsAssumption
    DEF DwellStreamsAssumption, LoadTable, CopyTable, MissCopy
  <2>2. buf' \in [Tables -> BufferImage]
    BY <1>1, <1>11, <2>1 DEF LoadTable, CopyTable, MissCopy
  <2>3. Between /\ UNCHANGED <<CmdCounter, ErrCounter>>
    BY <1>11 DEF LoadTable, CopyTable, MissCopy
  <2>4. CASE UNCHANGED <<ctl, collected, disturbed>>
    <3>1. ctl' = [s \in Tables |-> ctl[s]]
      BY <1>1, <2>4
    <3> QED  BY <1>1, <2>2, <2>3, <2>4, <3>1, BetweenInv
  <2>5. CASE /\ ctl' = [ctl EXCEPT ![t] = Activated(ctl[t], image)]
             /\ Discard(IF image.Enabled = Dwell_ENABLED THEN {t} ELSE {})
    <3> DEFINE next == [s \in Tables |->
                         IF s = t THEN Activated(ctl[t], image) ELSE ctl[s]]
    <3>1. Sound(Activated(ctl[t], image))
      BY <1>1, <2>1, SoundActivated DEF Sound
    <3>2. ctl' = [s \in Tables |-> next[s]] /\ \A s \in Tables : Sound(next[s])
      BY <1>1, <2>5, <3>1
    <3>3. /\ collected' \in [Tables -> SUBSET Nat]
          /\ disturbed' \in [Tables -> BOOLEAN]
      BY <1>1, <2>5, DiscardType
    <3> HIDE DEF next
    <3> QED  BY <1>1, <2>2, <2>3, <3>2, <3>3, BetweenInv
  <2> QED  BY <1>11, <2>4, <2>5 DEF LoadTable, CopyTable, MissCopy
<1> QED
  BY <1>2, <1>3, <1>5, <1>6, <1>7, <1>8, <1>9, <1>10, <1>11 DEF Command, Load

LEMMA NextInv == Inv /\ [Next]_vars => Inv'
<1> SUFFICES ASSUME Inv, [Next]_vars PROVE Inv'
  OBVIOUS
<1>1. CASE UNCHANGED vars
  BY <1>1 DEF vars, Inv, TypeOK, Guarded
<1>2. CASE Wakeup
  <2>1. sent' \in [Tables -> 0..2] /\ cur' \in Tables /\ pc' = "scan"
    BY <1>2, Constants DEF Wakeup
  <2> QED  BY <1>2, <2>1 DEF Wakeup, Inv, TypeOK, Guarded
<1>3. CASE MD_DwellLoop
  BY <1>3, LoopInv
<1>4. CASE Command \/ Load
  BY <1>4, CommandInv
<1> QED  BY <1>1, <1>2, <1>3, <1>4 DEF Next

-----------------------------------------------------------------------------
(* Theorems                                                                *)

THEOREM Invariant == Spec => []Inv
<1>1. Init => Inv  BY InitInv
<1>2. Inv /\ [Next]_vars => Inv'  BY NextInv
<1> QED  BY <1>1, <1>2, PTL DEF Spec

(* Every variable keeps its type: no handler or loop iteration leaves a    *)
(* control record or a table image out of its fields' ranges, whatever is  *)
(* loaded, commanded or fails.                                             *)
THEOREM TypeCorrect == Spec => []TypeOK
<1>1. Inv => TypeOK  BY DEF Inv
<1> QED  BY <1>1, Invariant, PTL

(* The loop's two uses of the Entry array stay inside the active entries,  *)
(* even when failed jams leave AddrCount and Rate out of date.             *)
THEOREM EntriesInTable == Spec => []EntryInTable
<1>1. Inv => EntryInTable
  BY DEF Inv, Guarded, EntryInTable, Running, RateNeedsEntries
<1> QED  BY <1>1, Invariant, PTL
=============================================================================
