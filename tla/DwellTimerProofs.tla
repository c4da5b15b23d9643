--------------------------- MODULE DwellTimerProofs ---------------------------
(***************************************************************************)
(* When a packet leaves.  As long as no packet is flushed at a zero delay, *)
(* the streams are the periodic timers of DwellTimer.                      *)
(***************************************************************************)
EXTENDS DwellContentsProofs, DwellStreamsTimer

-----------------------------------------------------------------------------
(* Sums of delays                                                          *)

LEMMA PrefixSumGrows ==
  ASSUME NEW B \in Nat, NEW v \in [Entries -> 0..B], NEW n \in 0..TableSize
  PROVE  \A m \in 0..n : PrefixSum(v)[m] <= PrefixSum(v)[n]
<1> DEFINE Bad == {m \in 0..n : ~(PrefixSum(v)[m] <= PrefixSum(v)[n])}
<1>1. SUFFICES ASSUME Bad # {} PROVE FALSE
  OBVIOUS
<1>2. \A k \in 0..TableSize : PrefixSum(v)[k] \in Int
  BY PrefixSumBound
<1>3. PICK m \in Bad : \A k \in Bad : k <= m
  <2>1. n \in Nat /\ Bad \in SUBSET (0..n)
    BY Sizes
  <2> HIDE DEF Bad
  <2> QED  BY <1>1, <2>1, GreatestNat
<1>4. m \in 0..n /\ m # n
  BY <1>2, <1>3, Sizes
<1>5. m \in Entries /\ m + 1 \in 0..n /\ m + 1 \notin Bad
  BY <1>3, <1>4, Sizes DEF Entries
<1>6. PrefixSum(v)[m + 1] = PrefixSum(v)[m] + v[m] /\ v[m] \in 0..B
  BY <1>5, PrefixSumEquation
<1>7. PrefixSum(v)[m + 1] <= PrefixSum(v)[n]
  BY <1>5
<1>8. PrefixSum(v)[m] \in Int /\ PrefixSum(v)[n] \in Int /\ m \in 0..TableSize
  BY <1>2, <1>4, Sizes
<1>9. PrefixSum(v)[m] <= PrefixSum(v)[n]
  BY <1>6, <1>7, <1>8
<1> QED  BY <1>3, <1>9

(* The delays of a record's entries up to the lead, and from there to the  *)
(* period.                                                                 *)
LEMMA RecordDelays ==
  ASSUME NEW c \in ControlRecord, TotalsOf(c), c.AddrCount # 0
  PROVE  LET sum == DelaySum(c.Entry)
         IN  /\ sum[0] = 0
             /\ \A i \in 0..(c.AddrCount - 1) :
                  /\ sum[i] \in 0..Lead(c)
                  /\ c.Entry[i].Delay \in 0..MaxDelay
                  /\ sum[i + 1] = sum[i] + c.Entry[i].Delay
             /\ c.Rate = sum[c.AddrCount] /\ Lead(c) = sum[c.AddrCount - 1]
             /\ Lead(c) \in Nat
<1> DEFINE delay == [i \in Entries |-> c.Entry[i].Delay]
           sum == PrefixSum(delay)
           n == c.AddrCount
<1>1. n \in 1..TableSize /\ n = ActiveCount(c.Entry)
  BY DEF ControlRecord, TotalsOf
<1>2. delay \in [Entries -> 0..MaxDelay]
  BY DEF ControlRecord, ControlEntry, Delays
<1>3. c.Rate = sum[n] /\ Lead(c) = sum[n - 1] /\ DelaySum(c.Entry) = sum
  BY DEF TotalsOf, Lead, DelaySum
<1>4. \A i \in Entries : delay[i] = c.Entry[i].Delay
  OBVIOUS
<1> HIDE DEF delay, n
<1>5. /\ sum[0] = 0
      /\ \A i \in Entries : sum[i + 1] = sum[i] + delay[i]
  BY PrefixSumEquation
<1>6. \A k \in 0..TableSize : sum[k] \in Nat
  BY <1>2, PrefixSumBound, Sizes
<1>7. n - 1 \in 0..TableSize /\ \A i \in 0..(n - 1) : i \in Entries /\ i \in 0..TableSize
  BY <1>1, Sizes DEF Entries
<1>8. \A i \in 0..(n - 1) : sum[i] <= sum[n - 1]
  BY <1>2, <1>7, PrefixSumGrows, Sizes
<1> HIDE DEF sum
<1>9. ASSUME NEW i \in 0..(n - 1)
      PROVE  /\ sum[i] \in 0..sum[n - 1]
             /\ c.Entry[i].Delay \in 0..MaxDelay
             /\ sum[i + 1] = sum[i] + c.Entry[i].Delay
  <2>1. i \in Entries /\ sum[i] \in Nat /\ sum[n - 1] \in Nat
    BY <1>6, <1>7
  <2> QED  BY <1>2, <1>4, <1>5, <1>8, <2>1
<1>10. sum[n - 1] \in Nat
  BY <1>6, <1>7
<1> QED  BY <1>3, <1>5, <1>9, <1>10 DEF n

(* A table's lead is within its period, and that within the longest.       *)
Timed(c) ==
  /\ Lead(c) \in Nat /\ c.Rate \in Nat
  /\ Lead(c) <= c.Rate /\ c.Rate <= TableSize * MaxDelay

LEMMA RecordTimed ==
  ASSUME NEW c \in ControlRecord, TotalsOf(c)
  PROVE  Timed(c)
<1> DEFINE delay == [i \in Entries |-> c.Entry[i].Delay]
           n == c.AddrCount
<1>1. n \in 0..TableSize /\ n = ActiveCount(c.Entry)
  BY DEF ControlRecord, TotalsOf
<1>2. delay \in [Entries -> 0..MaxDelay]
  BY DEF ControlRecord, ControlEntry, Delays
<1>3. c.Rate = PrefixSum(delay)[n]
  BY DEF TotalsOf, DelaySum
<1> HIDE DEF delay
<1>4. c.Rate \in 0..(n * MaxDelay)
  BY <1>1, <1>2, <1>3, PrefixSumBound, Sizes
<1>5. n * MaxDelay <= TableSize * MaxDelay /\ n * MaxDelay \in Nat
  BY <1>1, Sizes
<1>6. c.Rate \in Nat /\ c.Rate <= TableSize * MaxDelay
  BY <1>4, <1>5, Sizes
<1>7. Lead(c) \in Nat /\ Lead(c) <= c.Rate
  <2>1. CASE n = 0
    BY <1>6, <2>1 DEF Lead
  <2>2. CASE n # 0
    <3>1. n - 1 \in 0..(n - 1) /\ (n - 1) + 1 = n
      BY <1>1, <2>2, Sizes
    <3>2. /\ Lead(c) \in Nat /\ c.Entry[n - 1].Delay \in 0..MaxDelay
          /\ c.Rate = Lead(c) + c.Entry[n - 1].Delay
      BY <2>2, <3>1, RecordDelays
    <3> QED  BY <3>2, Sizes
  <2> QED  BY <2>1, <2>2
<1> QED  BY <1>6, <1>7 DEF Timed

(* When a packet in the making is due.                                     *)
LEMMA RecordDue ==
  ASSUME NEW c \in ControlRecord, TotalsOf(c), Running(c),
         c.CurrentEntry < c.AddrCount
  PROVE  /\ Due(c) = c.Countdown + Lead(c) - DelaySum(c.Entry)[c.CurrentEntry]
         /\ Lead(c) - DelaySum(c.Entry)[c.CurrentEntry] \in 0..Lead(c)
         /\ Lead(c) \in Nat
<1>1. c.AddrCount \in 0..TableSize /\ c.CurrentEntry \in 0..TableSize
  BY DEF ControlRecord
<1>2. c.AddrCount # 0 /\ c.CurrentEntry \in 0..(c.AddrCount - 1)
  BY <1>1, Sizes
<1>3. DelaySum(c.Entry)[c.CurrentEntry] \in 0..Lead(c) /\ Lead(c) \in Nat
  BY <1>2, RecordDelays
<1>4. ~(c.CurrentEntry >= c.AddrCount)
  BY <1>1, Sizes
<1>5. Due(c) = c.Countdown + Lead(c) - DelaySum(c.Entry)[c.CurrentEntry]
  BY <1>4 DEF Due
<1> QED  BY <1>3, <1>5

(* When the first packet of a stream is due.                               *)
FirstDue(c) == IF Running(c) THEN Lead(c) + 1 ELSE 0

LEMMA FreshDue ==
  ASSUME NEW c \in ControlRecord, TotalsOf(c), RateNeedsEntries(c),
         c.Enabled = Dwell_ENABLED => c.CurrentEntry = 0 /\ c.Countdown = 1
  PROVE  Due(c) = FirstDue(c)
<1>1. CASE ~Running(c)
  BY <1>1 DEF Due, FirstDue
<1>2. CASE Running(c)
  <2>1. c.AddrCount \in 1..TableSize /\ c.CurrentEntry = 0 /\ c.Countdown = 1
    BY <1>2 DEF Running, RateNeedsEntries
  <2>2. Due(c) = 1 + Lead(c) - DelaySum(c.Entry)[0] /\ Lead(c) \in Nat
    BY <1>2, <2>1, RecordDue
  <2>3. DelaySum(c.Entry)[0] = 0
    BY PrefixSumEquation DEF DelaySum
  <2> QED  BY <1>2, <2>2, <2>3 DEF FirstDue
<1> QED  BY <1>1, <1>2

-----------------------------------------------------------------------------
(* The steps of the timers, in terms of the records                        *)

SameTiming(t) ==
  /\ ctl'[t].Enabled = ctl[t].Enabled
  /\ ctl'[t].Rate = ctl[t].Rate
  /\ Lead(ctl'[t]) = Lead(ctl[t])

(* A record that keeps its entries and totals keeps its timing.            *)
LEMMA KeptTiming ==
  ASSUME NEW t, Keeps(ctl[t], ctl'[t])
  PROVE  SameTiming(t)
BY DEF Keeps, SameTiming, Lead

LEMMA KeptRunning ==
  ASSUME NEW t, SameTiming(t)
  PROVE  Running(ctl'[t]) <=> Running(ctl[t])
BY DEF SameTiming, Running

LEMMA TimerQuiet ==
  ASSUME \A t \in Tables : SameTiming(t) /\ Due(ctl'[t]) = Due(ctl[t]),
         Todo' = Todo, tlm'.TableId = 0
  PROVE  Timer!Quiet
<1>1. UNCHANGED Timer!timing
  BY DEF Timer!timing, SameTiming
<1>2. [t \in Tables |-> Due(ctl'[t])] = [t \in Tables |-> Due(ctl[t])]
  OBVIOUS
<1> QED  BY <1>1, <1>2 DEF Timer!Quiet

LEMMA TimerSkip ==
  ASSUME NEW s \in Tables, s \in Todo, ~Running(ctl[s]), UNCHANGED ctl,
         Todo' = Todo \ {s}, tlm'.TableId = 0
  PROVE  Timer!Skip(s)
<1>1. ~Timer!Running(s)
  BY DEF Timer!Running, Running
<1>2. UNCHANGED Timer!timing
  BY DEF Timer!timing
<1>3. [t \in Tables |-> Due(ctl'[t])] = [t \in Tables |-> Due(ctl[t])]
  OBVIOUS
<1> QED  BY <1>1, <1>2, <1>3 DEF Timer!Skip

LEMMA TimerCount ==
  ASSUME NEW s \in Tables, s \in Todo, Running(ctl[s]), Due(ctl[s]) > 0,
         \A t \in Tables : SameTiming(t),
         \A t \in Tables \ {s} : Due(ctl'[t]) = Due(ctl[t]),
         Due(ctl'[s]) = Due(ctl[s]) - 1,
         Todo' = IF Due(ctl[s]) = 1 THEN Todo ELSE Todo \ {s},
         tlm'.TableId = 0
  PROVE  Timer!Count(s)
<1>1. Timer!Running(s)
  BY DEF Timer!Running, Running
<1>2. UNCHANGED Timer!timing
  BY DEF Timer!timing, SameTiming
<1>3. [t \in Tables |-> Due(ctl'[t])]
        = [[t \in Tables |-> Due(ctl[t])] EXCEPT ![s] = @ - 1]
  OBVIOUS
<1> QED  BY <1>1, <1>2, <1>3 DEF Timer!Count

LEMMA TimerSend ==
  ASSUME NEW s \in Tables, s \in Todo, Running(ctl[s]), Due(ctl[s]) <= 1,
         \A t \in Tables : SameTiming(t),
         \A t \in Tables \ {s} : Due(ctl'[t]) = Due(ctl[t]),
         Due(ctl'[s]) = ctl[s].Rate,
         Todo' = Todo \ {s}, tlm'.TableId = s + 1
  PROVE  Timer!Send(s)
<1>1. Timer!Running(s)
  BY DEF Timer!Running, Running
<1>2. UNCHANGED Timer!timing
  BY DEF Timer!timing, SameTiming
<1>3. [t \in Tables |-> Due(ctl'[t])]
        = [[t \in Tables |-> Due(ctl[t])] EXCEPT ![s] = ctl[s].Rate]
  OBVIOUS
<1>4. (s + 1) - 1 = s
  BY Constants
<1> QED  BY <1>1, <1>2, <1>3, <1>4 DEF Timer!Send

(* Between two wakeups there is nothing to do for any of them.             *)
LEMMA TimerBetween == Between => Timer!Between
<1> SUFFICES ASSUME Between PROVE Timer!Between
  OBVIOUS
<1>1. pc = "wait" /\ pc' = "wait" /\ tlm'.TableId = 0
  BY DEF Between, NoPacket
<1>2. Todo = {} /\ Todo' = {}
  BY <1>1 DEF Todo
<1> QED  BY <1>1, <1>2 DEF Timer!Between

LEMMA TimerOnlyChanges ==
  ASSUME NEW ss \in SUBSET Tables,
         \A t \in Tables \ ss : ctl'[t] = ctl[t],
         \A t \in ss : Timed(ctl'[t])
  PROVE  Timer!OnlyChanges(ss)
<1>1. \A t \in ss : t \in Tables
  OBVIOUS
<1> QED  BY <1>1 DEF Timer!OnlyChanges, Timed

LEMMA TimerSwitch ==
  ASSUME Between, NEW ss \in SUBSET Tables, NEW value \in {Dwell_DISABLED, Dwell_ENABLED},
         \A t \in Tables \ ss : ctl'[t] = ctl[t],
         \A t \in ss : /\ Timed(ctl'[t]) /\ ctl'[t].Enabled = value
                       /\ ctl'[t].Rate = ctl[t].Rate /\ Lead(ctl'[t]) = Lead(ctl[t])
                       /\ Due(ctl'[t]) = FirstDue(ctl'[t])
  PROVE  Timer!Switch(ss, value = Dwell_ENABLED)
<1>1. Timer!Between /\ Timer!OnlyChanges(ss)
  BY TimerBetween, TimerOnlyChanges
<1>2. /\ [t \in Tables |-> ctl'[t].Rate] = [t \in Tables |-> ctl[t].Rate]
      /\ [t \in Tables |-> Lead(ctl'[t])] = [t \in Tables |-> Lead(ctl[t])]
  OBVIOUS
<1>3. ASSUME NEW s \in ss
      PROVE  /\ ctl'[s].Enabled = Dwell_ENABLED <=> value = Dwell_ENABLED
             /\ Due(ctl'[s]) = Timer!FirstDue(s)'
  BY DEF Timer!FirstDue, Timer!Running, FirstDue, Running
<1> QED  BY <1>1, <1>2, <1>3 DEF Timer!Switch

LEMMA TimerLoad ==
  ASSUME Between, NEW s \in Tables,
         \A t \in Tables \ {s} : ctl'[t] = ctl[t],
         Timed(ctl'[s]), Due(ctl'[s]) = FirstDue(ctl'[s])
  PROVE  Timer!Load(s)
<1>1. Timer!Between /\ Timer!OnlyChanges({s})
  BY TimerBetween, TimerOnlyChanges
<1>2. Due(ctl'[s]) = Timer!FirstDue(s)'
  BY DEF Timer!FirstDue, Timer!Running, FirstDue, Running
<1> QED  BY <1>1, <1>2 DEF Timer!Load

LEMMA TimerJam ==
  ASSUME Between, NEW s \in Tables,
         \A t \in Tables \ {s} : ctl'[t] = ctl[t],
         Timed(ctl'[s]), ctl'[s].Enabled = ctl[s].Enabled,
         IF Running(ctl'[s]) THEN Due(ctl'[s]) \in 1..(MaxDelay + Lead(ctl'[s]))
                             ELSE Due(ctl'[s]) = 0
  PROVE  Timer!Jam(s)
<1>1. Timer!Between /\ Timer!OnlyChanges({s})
  BY TimerBetween, TimerOnlyChanges
<1>2. Timer!Running(s)' <=> Running(ctl'[s])
  BY DEF Timer!Running, Running
<1> QED  BY <1>1, <1>2 DEF Timer!Jam

-----------------------------------------------------------------------------
(* A scan is a turn of every timer                                         *)

Ahead(s) == {t \in Tables : t > s}

LEMMA ScanTodo ==
  ASSUME cur \in Tables, pc = "scan"
  PROVE  cur \in Todo /\ Todo \ {cur} = Ahead(cur)
BY Constants DEF Todo, Ahead

LEMMA CollectTodo ==
  ASSUME cur \in Tables, pc = "collect"
  PROVE  Todo = Ahead(cur) \cup (IF Due(ctl[cur]) = 0 THEN {cur} ELSE {})
BY Constants DEF Todo, Ahead

LEMMA CollectTodoNext ==
  ASSUME cur \in Tables, pc' = "collect", cur' = cur
  PROVE  Todo' = Ahead(cur) \cup (IF Due(ctl'[cur]) = 0 THEN {cur} ELSE {})
BY Constants DEF Todo, Ahead

LEMMA AheadNotSelf ==
  ASSUME NEW s \in Tables
  PROVE  s \notin Ahead(s) /\ Ahead(s) \ {s} = Ahead(s)
BY Constants DEF Ahead

LEMMA NextTodo ==
  ASSUME cur \in Tables, NextTable
  PROVE  Todo' = Ahead(cur)
<1>1. CASE cur = NumTables - 1
  <2>1. pc' = "wait"
    BY <1>1 DEF NextTable
  <2>2. ASSUME NEW t \in Tables PROVE ~(t > cur)
    BY <1>1, Constants, Sizes
  <2>3. Ahead(cur) = {}
    BY <2>2 DEF Ahead
  <2> QED  BY <2>1, <2>3 DEF Todo
<1>2. CASE cur # NumTables - 1
  <2>1. pc' = "scan" /\ cur' = cur + 1
    BY <1>2 DEF NextTable
  <2>2. ASSUME NEW t \in Tables PROVE t > cur <=> t > cur + 1 \/ t = cur + 1
    BY Constants
  <2> QED  BY <2>1, <2>2 DEF Todo, Ahead
<1> QED  BY <1>1, <1>2

LEMMA WakeupTimers ==
  ASSUME Wakeup
  PROVE  Timer!Wakeup
<1>1. /\ pc = "wait" /\ pc' = "scan" /\ cur' = 0 /\ tlm'.TableId = 0
      /\ UNCHANGED ctl
  BY DEF Wakeup, NoPacket
<1>2. Todo = {}
  BY <1>1 DEF Todo
<1>3. Todo' = Tables
  <2>1. \A t \in Tables : t > 0 \/ t = 0
    BY Constants
  <2> QED  BY <1>1, <2>1 DEF Todo
<1>4. UNCHANGED Timer!timing
  BY <1>1 DEF Timer!timing
<1>5. [t \in Tables |-> Due(ctl'[t])] = [t \in Tables |-> Due(ctl[t])]
  BY <1>1
<1> QED  BY <1>1, <1>2, <1>3, <1>4, <1>5 DEF Timer!Wakeup

LEMMA SkipTimers ==
  ASSUME Inv, SkipTable
  PROVE  Timer!Skip(cur)
<1>1. cur \in Tables
  BY DEF Inv, TypeOK
<1>2. /\ pc = "scan" /\ ~Running(ctl[cur]) /\ UNCHANGED ctl
      /\ NextTable /\ tlm'.TableId = 0
  BY DEF SkipTable, NoPacket
<1> QED  BY <1>1, <1>2, ScanTodo, NextTodo, TimerSkip

(* What the loop does to the table it is at, it does to no other.          *)
LEMMA LoopTiming ==
  ASSUME Inv, Totals, MD_DwellLoop
  PROVE  /\ ctl[cur] \in ControlRecord /\ TotalsOf(ctl[cur])
         /\ ctl'[cur] \in ControlRecord /\ TotalsOf(ctl'[cur])
         /\ ctl \in [Tables -> ControlRecord] /\ cur \in Tables
         /\ Keeps(ctl[cur], ctl'[cur])
         /\ \A t \in Tables : SameTiming(t)
<1>1. \A t \in Tables : Keeps(ctl[t], ctl'[t])
  BY LoopKeeps
<1>2. ctl \in [Tables -> ControlRecord] /\ cur \in Tables /\ TotalsOf(ctl[cur])
  BY DEF Inv, TypeOK, Totals
<1>3. TotalsOf(ctl'[cur])
  BY <1>1, <1>2 DEF Keeps, TotalsOf
<1> QED  BY <1>1, <1>2, <1>3, KeptTiming DEF Keeps

(* The packet after this one is a period away.                             *)
LEMMA PeriodAhead ==
  ASSUME NEW c \in ControlRecord, TotalsOf(c), Running(c), c.AddrCount # 0,
         c.CurrentEntry = 0, c.Countdown = c.Entry[c.AddrCount - 1].Delay
  PROVE  Due(c) = c.Rate
<1>1. c.AddrCount \in 1..TableSize
  BY DEF ControlRecord
<1>2. c.AddrCount - 1 \in 0..(c.AddrCount - 1) /\ (c.AddrCount - 1) + 1 = c.AddrCount
  BY <1>1, Sizes
<1>3. /\ c.Rate = Lead(c) + c.Countdown /\ DelaySum(c.Entry)[0] = 0
      /\ Lead(c) \in Nat /\ c.Countdown \in 0..MaxDelay
  BY <1>2, RecordDelays
<1>4. Due(c) = c.Countdown + Lead(c) - 0
  BY <1>1, <1>3, RecordDue, Sizes
<1> QED  BY <1>3, <1>4, Sizes

LEMMA FlushTimers ==
  ASSUME Inv, Totals, FlushPacket
  PROVE  Timer!Send(cur)
<1> DEFINE c == ctl[cur]
           d == ctl'[cur]
<1>1. /\ c \in ControlRecord /\ TotalsOf(c) /\ d \in ControlRecord /\ TotalsOf(d)
      /\ ctl \in [Tables -> ControlRecord] /\ cur \in Tables /\ Keeps(c, d)
      /\ \A t \in Tables : SameTiming(t)
  BY LoopTiming DEF MD_DwellLoop
<1>2. /\ pc = "scan" /\ Running(c) /\ c.CurrentEntry >= c.AddrCount
      /\ d.CurrentEntry = 0 /\ d.Countdown = c.Entry[c.AddrCount - 1].Delay
      /\ \A t \in Tables \ {cur} : ctl'[t] = ctl[t]
      /\ NextTable /\ tlm'.TableId = cur + 1
  BY <1>1 DEF FlushPacket, Transmit, MD_SendDwellPkt, ControlRecord
<1>3. c.AddrCount # 0
  BY <1>1, <1>2, Sizes DEF Inv, Guarded, RateNeedsEntries, Running
<1>4. Running(d) /\ d.Rate = c.Rate /\ d.AddrCount # 0
      /\ d.Countdown = d.Entry[d.AddrCount - 1].Delay
  BY <1>1, <1>2, <1>3 DEF Keeps, Running
<1> HIDE DEF d, c
<1>5. Due(d) = c.Rate
  BY <1>1, <1>2, <1>4, PeriodAhead
<1>6. Due(c) = 1
  BY <1>2 DEF Due
<1>7. cur \in Todo /\ Todo' = Todo \ {cur}
  BY <1>1, <1>2, ScanTodo, NextTodo
<1>8. \A t \in Tables \ {cur} : Due(ctl'[t]) = Due(ctl[t])
  BY <1>2
<1> QED  BY <1>1, <1>2, <1>5, <1>6, <1>7, <1>8, TimerSend DEF c, d

LEMMA CountDownTimers ==
  ASSUME Inv, Totals, CountInv, CountDown
  PROVE  Timer!Count(cur)
<1> DEFINE c == ctl[cur]
           d == ctl'[cur]
           count == (c.Countdown - 1) % CountModulus
<1>1. /\ c \in ControlRecord /\ TotalsOf(c) /\ d \in ControlRecord /\ TotalsOf(d)
      /\ ctl \in [Tables -> ControlRecord] /\ cur \in Tables /\ Keeps(c, d)
      /\ \A t \in Tables : SameTiming(t)
  BY LoopTiming DEF MD_DwellLoop
<1>2. /\ pc = "scan" /\ Running(c) /\ c.CurrentEntry < c.AddrCount
      /\ d.CurrentEntry = c.CurrentEntry /\ d.Countdown = count
      /\ \A t \in Tables \ {cur} : ctl'[t] = ctl[t]
      /\ IF count = 0 THEN pc' = "collect" /\ cur' = cur ELSE NextTable
      /\ tlm'.TableId = 0
  BY <1>1 DEF CountDown, NoPacket, ControlRecord
<1>3. c.Countdown \in 1..MaxDelay \cup {1} /\ c.Countdown \in 0..(CountModulus - 1)
  BY <1>1, <1>2 DEF CountInv, Waiting, Running, ControlRecord
<1>4. Running(d) /\ d.CurrentEntry < d.AddrCount
      /\ Lead(d) - DelaySum(d.Entry)[d.CurrentEntry]
           = Lead(c) - DelaySum(c.Entry)[c.CurrentEntry]
  BY <1>1, <1>2 DEF Keeps, Running, Lead
<1> HIDE DEF c, d, count
<1>5. d.Countdown = c.Countdown - 1 /\ c.Countdown \in Nat /\ c.Countdown >= 1
  <2>1. c.Countdown - 1 \in 0..(CountModulus - 1)
    BY <1>3, Sizes
  <2>2. count = c.Countdown - 1
    BY <2>1, Sizes DEF count
  <2> QED  BY <1>2, <1>3, <2>2, Sizes
<1> DEFINE ahead == Lead(c) - DelaySum(c.Entry)[c.CurrentEntry]
<1>6. ahead \in Nat /\ Lead(c) \in Nat /\ Lead(d) \in Nat
  BY <1>1, <1>2, <1>4, RecordDue
<1>7. Due(c) = c.Countdown + ahead /\ Due(d) = d.Countdown + ahead
  <2>1. Due(c) = c.Countdown + Lead(c) - DelaySum(c.Entry)[c.CurrentEntry]
    BY <1>1, <1>2, RecordDue
  <2>2. Due(d) = d.Countdown + Lead(d) - DelaySum(d.Entry)[d.CurrentEntry]
    BY <1>1, <1>4, RecordDue
  <2>3. ahead \in Nat /\ d.Countdown \in Int /\ c.Countdown \in Int
    BY <1>5, <1>6
  <2>4. DelaySum(c.Entry)[c.CurrentEntry] \in Int /\ DelaySum(d.Entry)[d.CurrentEntry] \in Int
    <3>1. /\ c.CurrentEntry \in 0..TableSize /\ d.CurrentEntry \in 0..TableSize
          /\ c.Entry \in [Entries -> ControlEntry] /\ d.Entry \in [Entries -> ControlEntry]
      BY <1>1 DEF ControlRecord
    <3> QED  BY <3>1, TotalsTypes
  <2> QED  BY <1>4, <1>6, <2>1, <2>2, <2>3, <2>4
<1> HIDE DEF ahead
<1>8. Due(d) = Due(c) - 1 /\ Due(c) > 0 /\ Due(c) \in Nat
  BY <1>5, <1>6, <1>7
<1>9. cur \in Todo /\ Todo \ {cur} = Ahead(cur)
  BY <1>1, <1>2, ScanTodo
<1>10. Todo' = IF Due(c) = 1 THEN Todo ELSE Todo \ {cur}
  <2>1. CASE count = 0
    <3>1. Todo' = Ahead(cur) \cup (IF Due(d) = 0 THEN {cur} ELSE {})
      BY <1>1, <1>2, <2>1, CollectTodoNext DEF d
    <3>2. Due(d) = 0 <=> Due(c) = 1
      BY <1>8
    <3> QED  BY <1>9, <3>1, <3>2
  <2>2. CASE count # 0
    <3>1. Due(c) # 1
      BY <1>2, <1>5, <1>6, <1>7, <2>2
    <3> QED  BY <1>1, <1>2, <1>9, <2>2, <3>1, NextTodo
  <2> QED  BY <2>1, <2>2
<1>11. \A t \in Tables \ {cur} : Due(ctl'[t]) = Due(ctl[t])
  BY <1>2
<1> QED  BY <1>1, <1>2, <1>8, <1>9, <1>10, <1>11, TimerCount DEF c, d

(* A reading in the middle of a packet is not the timers' business; the    *)
(* last one sends the packet, and the loop does not come back to it.       *)
LEMMA CollectTimers ==
  ASSUME Inv, Totals, CountInv, NEW ok \in BOOLEAN, Collect(ok)
  PROVE  Timer!Quiet \/ Timer!Send(cur)
<1> DEFINE c == ctl[cur]
           d == ctl'[cur]
           i == c.CurrentEntry
           delay == c.Entry[i].Delay
           last == c.CurrentEntry = c.AddrCount - 1
           sum == DelaySum(c.Entry)
<1>1. /\ c \in ControlRecord /\ TotalsOf(c) /\ d \in ControlRecord /\ TotalsOf(d)
      /\ ctl \in [Tables -> ControlRecord] /\ cur \in Tables /\ Keeps(c, d)
      /\ \A t \in Tables : SameTiming(t)
  BY LoopTiming DEF MD_DwellLoop
<1>2. /\ pc = "collect"
      /\ d.CurrentEntry = (IF last THEN 0 ELSE i + 1) /\ d.Countdown = delay
      /\ \A t \in Tables \ {cur} : ctl'[t] = ctl[t]
      /\ IF delay = 0 THEN UNCHANGED <<pc, cur>> ELSE NextTable
      /\ tlm'.TableId = IF last THEN cur + 1 ELSE 0
  <2>1. /\ pc = "collect"
        /\ IF delay = 0 THEN UNCHANGED <<pc, cur>> ELSE NextTable
        /\ tlm'.TableId = IF last THEN cur + 1 ELSE 0
    BY DEF Collect, Transmit, MD_SendDwellPkt, NoPacket
  <2>2. /\ d.CurrentEntry = (IF last THEN 0 ELSE i + 1) /\ d.Countdown = delay
        /\ \A t \in Tables \ {cur} : ctl'[t] = ctl[t]
    BY <1>1 DEF Collect, ControlRecord
  <2> QED  BY <2>1, <2>2
<1>3. Running(c) /\ i < c.AddrCount /\ c.Countdown = 0
  BY <1>2 DEF Inv, Guarded, CountInv
<1>4. i \in Nat /\ c.AddrCount \in Nat /\ c.AddrCount # 0 /\ i \in 0..(c.AddrCount - 1)
  <2>1. i \in 0..TableSize /\ c.AddrCount \in 0..TableSize
    BY <1>1 DEF ControlRecord
  <2> HIDE DEF c
  <2> QED  BY <1>3, <2>1, Sizes
<1>5. /\ Running(d) /\ d.Entry = c.Entry /\ d.AddrCount = c.AddrCount
      /\ d.Rate = c.Rate /\ Lead(d) = Lead(c) /\ c.Rate > 0 /\ c.Rate \in Nat
  BY <1>1, <1>3, Sizes DEF Keeps, Running, Lead, ControlRecord
<1>6. \A t \in Tables \ {cur} : Due(ctl'[t]) = Due(ctl[t])
  BY <1>2
<1> HIDE DEF c, d
<1>7. /\ sum[i] \in 0..Lead(c) /\ delay \in 0..MaxDelay /\ Lead(c) \in Nat
      /\ sum[i + 1] = sum[i] + delay /\ Lead(c) = sum[c.AddrCount - 1]
  BY <1>1, <1>4, RecordDelays
<1>8. Due(c) = Lead(c) - sum[i]
  BY <1>1, <1>3, <1>7, RecordDue
<1>9. Todo = Ahead(cur) \cup (IF Due(c) = 0 THEN {cur} ELSE {})
  BY <1>1, <1>2, CollectTodo DEF c
<1>10. IF delay = 0 THEN Todo' = Ahead(cur) \cup (IF Due(d) = 0 THEN {cur} ELSE {})
                    ELSE Todo' = Ahead(cur)
  BY <1>1, <1>2, CollectTodoNext, NextTodo DEF d
<1>11. cur \notin Ahead(cur)
  BY <1>1, AheadNotSelf
<1>12. CASE last
  <2>1. Due(c) = 0
    BY <1>4, <1>7, <1>8, <1>12
  <2>2. Due(d) = c.Rate
    BY <1>1, <1>2, <1>4, <1>5, <1>12, PeriodAhead
  <2>3. cur \in Todo /\ Todo' = Todo \ {cur}
    BY <1>5, <1>9, <1>10, <1>11, <2>1, <2>2
  <2>4. Due(c) <= 1
    BY <2>1
  <2>5. tlm'.TableId = cur + 1
    BY <1>2, <1>12
  <2>6. Timer!Send(cur)
    BY <1>1, <1>3, <1>6, <2>2, <2>3, <2>4, <2>5, TimerSend DEF c, d
  <2> QED  BY <2>6
<1>13. CASE ~last
  <2>1. d.CurrentEntry = i + 1 /\ i + 1 < c.AddrCount /\ i + 1 \in 0..(c.AddrCount - 1)
    BY <1>2, <1>4, <1>13
  <2>2. sum[i + 1] \in 0..Lead(c)
    BY <1>1, <1>4, <2>1, RecordDelays
  <2>3. Due(d) = d.Countdown + Lead(d) - DelaySum(d.Entry)[d.CurrentEntry]
    BY <1>1, <1>5, <2>1, RecordDue
  <2>4. Due(d) = delay + Lead(c) - sum[i + 1]
    BY <1>2, <1>5, <2>1, <2>3
  <2> HIDE DEF delay, sum
  <2>5. Due(d) = Due(c) /\ (delay # 0 => Due(d) # 0)
    BY <1>7, <1>8, <2>2, <2>4, Sizes
  <2>6. Todo' = Todo
    BY <1>9, <1>10, <2>5
  <2>7. tlm'.TableId = 0
    BY <1>2, <1>13
  <2>8. \A t \in Tables : SameTiming(t) /\ Due(ctl'[t]) = Due(ctl[t])
    BY <1>1, <1>6, <2>5 DEF c, d
  <2> QED  BY <2>6, <2>7, <2>8, TimerQuiet
<1> QED  BY <1>12, <1>13

LEMMA LoopTimers ==
  ASSUME Inv, Totals, CountInv, MD_DwellLoop
  PROVE  Timer!Next
<1>1. cur \in Tables
  BY DEF Inv, TypeOK
<1>2. CASE SkipTable
  BY <1>1, <1>2, SkipTimers DEF Timer!Next
<1>3. CASE FlushPacket
  BY <1>1, <1>3, FlushTimers DEF Timer!Next
<1>4. CASE CountDown
  BY <1>1, <1>4, CountDownTimers DEF Timer!Next
<1>5. ASSUME NEW ok \in BOOLEAN, Collect(ok) PROVE Timer!Next
  BY <1>1, <1>5, CollectTimers DEF Timer!Next
<1> QED  BY <1>2, <1>3, <1>4, <1>5 DEF MD_DwellLoop

-----------------------------------------------------------------------------
(* Commands and loads are the timers' own                                  *)

(* Where the new records' first packets are due.                           *)
LEMMA NewRecords ==
  ASSUME Inv', Totals', NEW t \in Tables
  PROVE  /\ ctl'[t] \in ControlRecord /\ TotalsOf(ctl'[t]) /\ Timed(ctl'[t])
         /\ RateNeedsEntries(ctl'[t])
<1>1. ctl'[t] \in ControlRecord /\ TotalsOf(ctl'[t]) /\ RateNeedsEntries(ctl'[t])
  BY DEF Inv, TypeOK, Totals, Guarded
<1> QED  BY <1>1, RecordTimed

LEMMA SwitchTimers ==
  ASSUME Inv, Inv', Totals', NEW mask, NEW failed,
         MD_StartDwellCmd(mask, failed) \/ MD_StopDwellCmd(mask, failed)
  PROVE  Timer!Next
<1> DEFINE ss == Selected(mask)
<1>1. ss \in SUBSET Tables
  BY DEF Selected
<1>2. ctl \in [Tables -> ControlRecord] /\ \A t \in ss : t \in Tables /\ ctl[t] \in ControlRecord
  BY <1>1 DEF Inv, TypeOK
<1>3. ASSUME NEW t \in ss
      PROVE  Lead(Started(ctl[t])) = Lead(ctl[t]) /\ Lead(Stopped(ctl[t])) = Lead(ctl[t])
  <2>1. ASSUME NEW d \in {Started(ctl[t]), Stopped(ctl[t])}
        PROVE  d.Entry = ctl[t].Entry /\ d.AddrCount = ctl[t].AddrCount
    BY <1>2 DEF Started, Stopped, MD_StartDwellStream, ControlRecord
  <2> QED  BY <2>1 DEF Lead
<1>4. ASSUME NEW value \in {Dwell_DISABLED, Dwell_ENABLED}, Between,
             \A t \in Tables \ ss : ctl'[t] = ctl[t],
             \A t \in ss : /\ ctl'[t].Enabled = value /\ ctl'[t].Rate = ctl[t].Rate
                           /\ Lead(ctl'[t]) = Lead(ctl[t])
                           /\ ctl'[t].Enabled = Dwell_ENABLED =>
                                ctl'[t].CurrentEntry = 0 /\ ctl'[t].Countdown = 1
      PROVE  Timer!Next
  <2>1. \A t \in ss : Timed(ctl'[t]) /\ Due(ctl'[t]) = FirstDue(ctl'[t])
    BY <1>2, <1>4, NewRecords, FreshDue
  <2> HIDE DEF ss
  <2>2. Timer!Switch(ss, value = Dwell_ENABLED)
    BY <1>1, <1>4, <2>1, TimerSwitch
  <2>3. (value = Dwell_ENABLED) \in BOOLEAN
    OBVIOUS
  <2> QED  BY <1>1, <2>2, <2>3 DEF Timer!Next
<1>5. CASE MD_StartDwellCmd(mask, failed)
  <2>1. /\ Between /\ \A t \in Tables \ ss : ctl'[t] = ctl[t]
        /\ \A t \in ss : ctl'[t] = Started(ctl[t])
    BY <1>1, <1>5 DEF MD_StartDwellCmd
  <2> HIDE DEF ss
  <2>2. ASSUME NEW t \in ss
        PROVE  /\ ctl'[t].Enabled = Dwell_ENABLED /\ ctl'[t].Rate = ctl[t].Rate
               /\ ctl'[t].CurrentEntry = 0 /\ ctl'[t].Countdown = 1
               /\ Lead(ctl'[t]) = Lead(ctl[t])
    <3>1. ctl'[t] = Started(ctl[t]) /\ ctl[t] \in ControlRecord
      BY <1>2, <2>1
    <3>2. /\ Started(ctl[t]).Enabled = Dwell_ENABLED
          /\ Started(ctl[t]).Rate = ctl[t].Rate
          /\ Started(ctl[t]).CurrentEntry = 0 /\ Started(ctl[t]).Countdown = 1
      BY <3>1 DEF Started, MD_StartDwellStream, ControlRecord
    <3> QED  BY <1>3, <3>1, <3>2
  <2> QED  BY <1>4, <2>1, <2>2
<1>6. CASE MD_StopDwellCmd(mask, failed)
  <2>1. /\ Between /\ \A t \in Tables \ ss : ctl'[t] = ctl[t]
        /\ \A t \in ss : ctl'[t] = Stopped(ctl[t])
    BY <1>1, <1>6 DEF MD_StopDwellCmd
  <2> HIDE DEF ss
  <2>2. ASSUME NEW t \in ss
        PROVE  /\ ctl'[t].Enabled = Dwell_DISABLED /\ ctl'[t].Rate = ctl[t].Rate
               /\ Lead(ctl'[t]) = Lead(ctl[t])
    <3>1. ctl'[t] = Stopped(ctl[t]) /\ ctl[t] \in ControlRecord
      BY <1>2, <2>1
    <3>2. /\ Stopped(ctl[t]).Enabled = Dwell_DISABLED
          /\ Stopped(ctl[t]).Rate = ctl[t].Rate
      BY <3>1 DEF Stopped, ControlRecord
    <3> QED  BY <1>3, <3>1, <3>2
  <2>3. Dwell_DISABLED # Dwell_ENABLED
    BY DEF Dwell_DISABLED, Dwell_ENABLED
  <2> QED  BY <1>4, <2>1, <2>2, <2>3
<1> QED  BY <1>5, <1>6

(* A jam leaves the countdown as it is, whatever the delays are now.       *)
LEMMA JamTimers ==
  ASSUME ~TblFaults, Inv, Inv', Totals', CountInv', NEW jam \in JamCommands, NEW failed,
         MD_JamDwellCmd(jam, failed)
  PROVE  Timer!Next
<1> DEFINE s == jam.TableId - 1
           i == jam.EntryId - 1
           jammed == [ctl[s] EXCEPT !.Entry[i] = JammedEntry(jam)]
           d == ctl'[s]
<1>1. jam \in JamPayload /\ ValidJam(jam)
  BY DwellStreamsAssumption DEF DwellStreamsAssumption, MD_JamDwellCmd
<1>2. s \in Tables /\ i \in Entries /\ JammedEntry(jam) \in ControlEntry
  BY <1>1, JamTypes
<1>3. ctl \in [Tables -> ControlRecord] /\ ctl[s] \in ControlRecord
  BY <1>2 DEF Inv, TypeOK
<1>4. Between /\ ctl' = [ctl EXCEPT ![s] = MD_UpdateDwellControlInfo(jammed)]
  BY DEF MD_JamDwellCmd, Faulty
<1>5. jammed \in ControlRecord /\ jammed.Enabled = ctl[s].Enabled
  BY <1>2, <1>3, JammedType DEF ControlRecord
<1> HIDE DEF jammed
<1>6. /\ d = MD_UpdateDwellControlInfo(jammed)
      /\ \A t \in Tables \ {s} : ctl'[t] = ctl[t]
  BY <1>2, <1>3, <1>4
<1>7. d.Enabled = ctl[s].Enabled
  BY <1>5, <1>6, UpdateInfoFields
<1>8. /\ d \in ControlRecord /\ TotalsOf(d) /\ Timed(d)
      /\ RateNeedsEntries(d)
  BY <1>2, NewRecords
<1>9. d.Enabled = Dwell_ENABLED => d.Countdown \in 1..MaxDelay \cup {1}
  <2>1. pc' # "collect"
    BY <1>4 DEF Between
  <2> QED  BY <1>2, <2>1 DEF CountInv, Waiting
<1> HIDE DEF s, d
<1>10. ASSUME Running(d) PROVE Due(d) \in 1..(MaxDelay + Lead(d))
  <2>1. MaxDelay >= 1
    <3>1. d.Rate > 0 /\ d.Rate \in Nat /\ d.Rate <= TableSize * MaxDelay
      BY <1>8, <1>10 DEF Running, Timed
    <3>2. MaxDelay = 0 => TableSize * MaxDelay = 0
      BY Sizes
    <3> QED  BY <3>1, <3>2, Sizes
  <2>2. Lead(d) \in Nat
    BY <1>8 DEF Timed
  <2>3. CASE d.CurrentEntry >= d.AddrCount
    <3>1. Due(d) = 1
      BY <1>10, <2>3 DEF Due
    <3> QED  BY <2>1, <2>2, <3>1, Sizes
  <2>4. CASE d.CurrentEntry < d.AddrCount
    <3> DEFINE ahead == Lead(d) - DelaySum(d.Entry)[d.CurrentEntry]
    <3>1. /\ Due(d) = d.Countdown + Lead(d) - DelaySum(d.Entry)[d.CurrentEntry]
          /\ ahead \in 0..Lead(d)
      BY <1>8, <1>10, <2>4, RecordDue
    <3>2. DelaySum(d.Entry)[d.CurrentEntry] \in Int
      BY <1>8, TotalsTypes DEF ControlRecord
    <3>3. d.Countdown \in Nat /\ d.Countdown >= 1 /\ d.Countdown <= MaxDelay
      BY <1>9, <1>10, <2>1, Sizes DEF Running
    <3>4. Due(d) = d.Countdown + ahead
      BY <2>2, <3>1, <3>2, <3>3
    <3> HIDE DEF ahead
    <3> QED  BY <2>2, <3>1, <3>3, <3>4, Sizes
  <2> QED  BY <1>8, <2>3, <2>4, Sizes DEF ControlRecord
<1>11. ~Running(d) => Due(d) = 0
  BY DEF Due
<1>12. Timer!Jam(s)
  BY <1>2, <1>4, <1>6, <1>7, <1>8, <1>10, <1>11, TimerJam DEF d
<1> QED  BY <1>2, <1>12 DEF Timer!Next

LEMMA LoadTimers ==
  ASSUME ~TblFaults, Inv, Inv', Totals', NEW t \in Tables, NEW image \in LoadImages,
         LoadTable(t, image)
  PROVE  Timer!Next
<1>1. image \in BufferImage
  BY ValidImageType, DwellStreamsAssumption DEF DwellStreamsAssumption, LoadTable
<1>2. ctl \in [Tables -> ControlRecord] /\ ctl[t] \in ControlRecord
  BY DEF Inv, TypeOK
<1>3. Between /\ ctl' = [ctl EXCEPT ![t] = Activated(ctl[t], image)]
  BY DEF LoadTable, CopyTable, MissCopy
<1>4. /\ ctl'[t] = Activated(ctl[t], image)
      /\ \A s \in Tables \ {t} : ctl'[s] = ctl[s]
  BY <1>2, <1>3
<1>5. ctl'[t].Enabled = Dwell_ENABLED => ctl'[t].CurrentEntry = 0 /\ ctl'[t].Countdown = 1
  BY <1>1, <1>2, <1>4, ActivatedFresh, ActivatedFields
<1>6. Timed(ctl'[t]) /\ Due(ctl'[t]) = FirstDue(ctl'[t])
  BY <1>5, NewRecords, FreshDue
<1>7. Timer!Load(t)
  BY <1>3, <1>4, <1>6, TimerLoad
<1> QED  BY <1>7 DEF Timer!Next

LEMMA CommandTimers ==
  ASSUME ~TblFaults, Inv, Inv', Totals', CountInv', Command \/ Load
  PROVE  Timer!Next
<1>1. /\ ctl \in [Tables -> ControlRecord]
      /\ pc = "wait" /\ pc' = "wait" /\ tlm'.TableId = 0 /\ UNCHANGED cur
  BY CommandBetween DEF Between, NoPacket, Inv, TypeOK
<1>2. Todo' = Todo
  BY <1>1 DEF Todo
<1>3. ASSUME \A t \in Tables : SameTiming(t) /\ Due(ctl'[t]) = Due(ctl[t])
      PROVE  Timer!Next
  BY <1>1, <1>2, <1>3, TimerQuiet DEF Timer!Next
<1>4. ASSUME UNCHANGED ctl PROVE Timer!Next
  BY <1>3, <1>4 DEF SameTiming
<1>5. ASSUME NEW mask, NEW failed,
             MD_StartDwellCmd(mask, failed) \/ MD_StopDwellCmd(mask, failed)
      PROVE  Timer!Next
  BY <1>5, SwitchTimers
<1>6. ASSUME NEW jam \in JamCommands, NEW failed, MD_JamDwellCmd(jam, failed)
      PROVE  Timer!Next
  BY <1>6, JamTimers
<1>7. ASSUME NEW cmd \in SignatureCommands, NEW failed, MD_SetSignatureCmd(cmd, failed)
      PROVE  Timer!Next
  <2>1. ASSUME NEW t \in Tables
        PROVE  /\ ctl'[t].Entry = ctl[t].Entry /\ ctl'[t].AddrCount = ctl[t].AddrCount
               /\ ctl'[t].Rate = ctl[t].Rate /\ ctl'[t].Enabled = ctl[t].Enabled
               /\ ctl'[t].CurrentEntry = ctl[t].CurrentEntry
               /\ ctl'[t].Countdown = ctl[t].Countdown
    BY <1>1, <1>7 DEF MD_SetSignatureCmd, ControlRecord
  <2> QED  BY <1>3, <2>1 DEF SameTiming, Due, Lead, Running
<1>8. ASSUME NEW t \in Tables, NEW image \in LoadImages, LoadTable(t, image)
      PROVE  Timer!Next
  BY <1>8, LoadTimers
<1>9. ASSUME NEW mask, EmptyMask(mask) PROVE Timer!Next
  BY <1>4, <1>9 DEF EmptyMask
<1>10. ASSUME NEW jam, InvalidJam(jam) PROVE Timer!Next
  BY <1>4, <1>10 DEF InvalidJam
<1>11. CASE MD_NoopCmd \/ MD_ResetCountersCmd \/ RefuseMessage
  BY <1>4, <1>11 DEF MD_NoopCmd, MD_ResetCountersCmd, RefuseMessage
<1> QED
  BY <1>5, <1>6, <1>7, <1>8, <1>9, <1>10, <1>11 DEF Command, Load

-----------------------------------------------------------------------------
(* The streams implement the timers                                        *)

LEMMA InitTimers ==
  ASSUME Init, Inv, Totals
  PROVE  Timer!Init
<1>1. PICK recovered \in SUBSET Tables :
        /\ buf \in [Tables -> RecoverableImages]
        /\ ctl = [t \in Tables |->
                   IF t \in recovered THEN Activated(InitialControl, buf[t])
                                      ELSE InitialControl]
  BY DEF Init
<1>2. pc = "wait" /\ tlm.TableId = 0
  BY DEF Init, NoPacket
<1>3. ASSUME NEW t \in Tables
      PROVE  /\ ctl[t] \in ControlRecord /\ TotalsOf(ctl[t]) /\ Timed(ctl[t])
             /\ RateNeedsEntries(ctl[t])
  <2>1. ctl[t] \in ControlRecord /\ TotalsOf(ctl[t]) /\ RateNeedsEntries(ctl[t])
    BY DEF Inv, TypeOK, Totals, Guarded
  <2> QED  BY <2>1, RecordTimed
<1>4. ASSUME NEW t \in Tables PROVE Due(ctl[t]) = FirstDue(ctl[t])
  <2>1. buf[t] \in BufferImage
    BY <1>1, RecoverableType
  <2> DEFINE r == Activated(InitialControl, buf[t])
  <2>2. r.Enabled = Dwell_ENABLED => r.CurrentEntry = 0 /\ r.Countdown = 1
    BY <2>1, InitialControlType, ActivatedFresh, ActivatedFields
  <2>3. InitialControl.CurrentEntry = 0 /\ InitialControl.Countdown = 1
    BY DEF InitialControl
  <2> HIDE DEF r
  <2>4. ctl[t] = r \/ ctl[t] = InitialControl
    BY <1>1 DEF r
  <2>5. ctl[t].Enabled = Dwell_ENABLED => ctl[t].CurrentEntry = 0 /\ ctl[t].Countdown = 1
    BY <2>2, <2>3, <2>4
  <2> QED  BY <1>3, <2>5, FreshDue
<1>5. \A t \in Tables : /\ Lead(ctl[t]) \in 0..(TableSize * MaxDelay)
                        /\ ctl[t].Rate \in 0..(TableSize * MaxDelay)
                        /\ Lead(ctl[t]) <= ctl[t].Rate
  BY <1>3, Sizes DEF Timed
<1>6. \A t \in Tables : Due(ctl[t]) = Timer!FirstDue(t)
  BY <1>4 DEF Timer!FirstDue, Timer!Running, FirstDue, Running
<1>7. Todo = {}
  BY <1>2 DEF Todo
<1>8. [t \in Tables |-> ctl[t].Enabled = Dwell_ENABLED] \in [Tables -> BOOLEAN]
  OBVIOUS
<1>9. [t \in Tables |-> Due(ctl[t])] = [t \in Tables |-> Timer!FirstDue(t)]
  BY <1>6
<1> QED  BY <1>2, <1>5, <1>7, <1>8, <1>9 DEF Timer!Init

LEMMA StutterTimers ==
  ASSUME UNCHANGED vars
  PROVE  UNCHANGED Timer!timerVars
BY DEF vars, Timer!timerVars, Timer!timing, Todo

LEMMA NextTimers ==
  ASSUME ~TblFaults, Inv, Inv', Totals, Totals', CountInv, CountInv', [Next]_vars
  PROVE  [Timer!Next]_Timer!timerVars
<1>1. CASE UNCHANGED vars
  BY <1>1, StutterTimers
<1>2. CASE Wakeup
  BY <1>2, WakeupTimers DEF Timer!Next
<1>3. CASE MD_DwellLoop
  BY <1>3, LoopTimers
<1>4. CASE Command \/ Load
  BY <1>4, CommandTimers
<1> QED  BY <1>1, <1>2, <1>3, <1>4 DEF Next

(* The dwell streams implement periodic timers: a table's packets leave at *)
(* the wakeups they are due, no sooner and no later, whatever the other    *)
(* tables do.  It takes every table's address to be had (a jam that cannot *)
(* get it leaves the record's totals behind its entries) and no flush at a *)
(* zero delay (the next packet would wait for a countdown that wraps).     *)
THEOREM TimersImplemented ==
  ASSUME ~TblFaults
  PROVE  Spec /\ [][~FlushAtZero]_vars => ImplementsTimer
<1>1. Init => Totals /\ CountInv
  BY TotalsInit, CountInit
<1>2. Inv /\ Totals /\ CountInv /\ [Next]_vars /\ [~FlushAtZero]_vars
        => Totals' /\ CountInv'
  BY TotalsNext, CountNext
<1>3. Init /\ Inv /\ Totals => Timer!Init
  BY InitTimers
<1>4. /\ Inv /\ Inv' /\ Totals /\ Totals' /\ CountInv /\ CountInv'
      /\ [Next]_vars
      => [Timer!Next]_Timer!timerVars
  BY NextTimers
<1>5. Spec => []Inv
  BY Invariant
<1> QED  BY <1>1, <1>2, <1>3, <1>4, <1>5, PTL DEF Spec, ImplementsTimer, Timer!Spec

-----------------------------------------------------------------------------
(* Nothing is late                                                         *)

LEMMA DueType ==
  ASSUME NEW c \in ControlRecord, TotalsOf(c)
  PROVE  Due(c) \in Int
<1>1. CASE Running(c) /\ c.CurrentEntry < c.AddrCount
  <2>1. c.CurrentEntry \in Nat /\ c.AddrCount \in Nat /\ c.Countdown \in Int
    BY DEF ControlRecord
  <2>2. c.AddrCount # 0 /\ c.CurrentEntry \in 0..(c.AddrCount - 1)
    BY <1>1, <2>1
  <2>3. Lead(c) \in Int /\ DelaySum(c.Entry)[c.CurrentEntry] \in Int
    BY <2>2, RecordDelays
  <2>4. Due(c) = c.Countdown + Lead(c) - DelaySum(c.Entry)[c.CurrentEntry]
    BY <1>1, <2>1 DEF Due
  <2> QED  BY <2>1, <2>3, <2>4
<1>2. CASE ~(Running(c) /\ c.CurrentEntry < c.AddrCount)
  <2>1. c.CurrentEntry \in Nat /\ c.AddrCount \in Nat
    BY DEF ControlRecord
  <2>2. Due(c) \in {0, 1}
    BY <1>2, <2>1 DEF Due
  <2> QED  BY <2>2
<1> QED  BY <1>1, <1>2

LEMMA NoneOverdueInit == Timer!Init /\ Totals /\ Inv => PacketsPunctual
<1> SUFFICES ASSUME Timer!Init, Totals, Inv, NEW t \in Tables, Timer!Running(t)
             PROVE  Due(ctl[t]) > 0
  BY DEF PacketsPunctual, Timer!NoneOverdue
<1>1. Due(ctl[t]) = Timer!FirstDue(t)
  BY DEF Timer!Init
<1>2. Timer!FirstDue(t) = Lead(ctl[t]) + 1
  BY DEF Timer!FirstDue
<1>3. ctl[t] \in ControlRecord /\ TotalsOf(ctl[t])
  BY DEF Totals, Inv, TypeOK
<1>4. Lead(ctl[t]) \in Nat
  BY <1>3, RecordTimed DEF Timed
<1> QED  BY <1>1, <1>2, <1>4

(* A promise of the timers themselves, whatever it is that drives them.    *)
LEMMA NoneOverdueNext ==
  ASSUME Inv, Totals, Inv', Totals', PacketsPunctual, [Timer!Next]_Timer!timerVars
  PROVE  PacketsPunctual'
<1> SUFFICES ASSUME NEW t \in Tables, Timer!Running(t)', t \notin Todo'
             PROVE  Due(ctl[t])' > 0
  BY DEF PacketsPunctual, Timer!NoneOverdue
<1> DEFINE due  == Due(ctl[t])
           lead == Lead(ctl[t])
<1>1. /\ due \in Int /\ due' \in Int /\ lead' \in Nat
      /\ ctl[t] \in ControlRecord /\ ctl'[t] \in ControlRecord
  <2>1. /\ ctl[t] \in ControlRecord /\ TotalsOf(ctl[t])
        /\ ctl'[t] \in ControlRecord /\ TotalsOf(ctl'[t])
    BY DEF Totals, Inv, TypeOK
  <2>2. Due(ctl[t]) \in Int /\ Due(ctl'[t]) \in Int
    BY <2>1, DueType
  <2>3. Lead(ctl'[t]) \in Nat
    BY <2>1, RecordTimed DEF Timed
  <2> QED  BY <2>1, <2>2, <2>3
<1>2. ASSUME due' = due, Timer!Running(t), t \notin Todo PROVE Due(ctl[t])' > 0
  BY <1>2 DEF PacketsPunctual, Timer!NoneOverdue
<1>3. ASSUME due' = Timer!FirstDue(t)' PROVE Due(ctl[t])' > 0
  <2>1. Timer!FirstDue(t)' = lead' + 1
    BY DEF Timer!FirstDue
  <2> QED  BY <1>1, <1>3, <2>1
<1>4. CASE Timer!Wakeup
  BY <1>4 DEF Timer!Wakeup
<1>5. CASE UNCHANGED Timer!timerVars \/ Timer!Quiet
  BY <1>2, <1>5 DEF Timer!Quiet, Timer!timerVars, Timer!timing, Timer!Running
<1>6. ASSUME NEW s \in Tables, Timer!Skip(s) PROVE Due(ctl[t])' > 0
  BY <1>2, <1>6 DEF Timer!Skip, Timer!timing, Timer!Running
<1>7. ASSUME NEW s \in Tables, Timer!Count(s) PROVE Due(ctl[t])' > 0
  <2>1. Timer!Running(t)
    BY <1>7 DEF Timer!Count, Timer!timing, Timer!Running
  <2>2. CASE t = s
    <3>1. due > 0 /\ due' = due - 1 /\ due # 1
      BY <1>7, <2>2 DEF Timer!Count
    <3> HIDE DEF due
    <3>2. due' > 0
      BY <1>1, <3>1
    <3> QED  BY <3>2 DEF due
  <2>3. CASE t # s
    BY <1>2, <1>7, <2>1, <2>3 DEF Timer!Count
  <2> QED  BY <2>2, <2>3
<1>8. ASSUME NEW s \in Tables, Timer!Send(s) PROVE Due(ctl[t])' > 0
  <2>1. Timer!Running(t)
    BY <1>8 DEF Timer!Send, Timer!timing, Timer!Running
  <2>2. CASE t = s
    BY <1>8, <2>1, <2>2 DEF Timer!Send, Timer!Running
  <2>3. CASE t # s
    BY <1>2, <1>8, <2>1, <2>3 DEF Timer!Send
  <2> QED  BY <2>2, <2>3
<1>9. ASSUME NEW ss \in SUBSET Tables, Timer!OnlyChanges(ss), t \notin ss, Todo' = Todo
      PROVE  Due(ctl[t])' > 0
  <2>1. due' = due /\ Timer!Running(t)
    BY <1>9 DEF Timer!OnlyChanges, Timer!Running
  <2> QED  BY <1>2, <1>9, <2>1
<1>10. ASSUME NEW s \in Tables, Timer!Load(s) PROVE Due(ctl[t])' > 0
  <2>1. {s} \in SUBSET Tables /\ Timer!OnlyChanges({s}) /\ Todo' = Todo
        /\ (t = s => due' = Timer!FirstDue(t)')
    BY <1>10 DEF Timer!Load, Timer!Between
  <2> QED  BY <1>3, <1>9, <2>1
<1>11. ASSUME NEW s \in Tables, Timer!Jam(s) PROVE Due(ctl[t])' > 0
  <2>1. {s} \in SUBSET Tables /\ Timer!OnlyChanges({s}) /\ Todo' = Todo
    BY <1>11 DEF Timer!Jam, Timer!Between
  <2>2. CASE t = s
    <3>1. due' \in 1..(MaxDelay + lead')
      BY <1>11, <2>2 DEF Timer!Jam
    <3> QED  BY <1>1, <3>1, Sizes
  <2> QED  BY <1>9, <2>1, <2>2
<1>12. ASSUME NEW ss \in SUBSET Tables, NEW state \in BOOLEAN, Timer!Switch(ss, state)
       PROVE  Due(ctl[t])' > 0
  <2>1. Timer!OnlyChanges(ss) /\ Todo' = Todo /\ (t \in ss => due' = Timer!FirstDue(t)')
    BY <1>12 DEF Timer!Switch, Timer!Between
  <2> QED  BY <1>3, <1>9, <1>12, <2>1
<1> QED
  BY <1>4, <1>5, <1>6, <1>7, <1>8, <1>10, <1>11, <1>12 DEF Timer!Next

(* No scan leaves a packet behind that was due, under what the timers ask  *)
(* for: none is late by even one wakeup.                                   *)
THEOREM PacketsArePunctual ==
  ASSUME ~TblFaults
  PROVE  Spec /\ [][~FlushAtZero]_vars => []PacketsPunctual
<1>1. Spec => []Inv /\ []Totals
  <2>1. Init => Totals
    BY TotalsInit
  <2>2. Inv /\ Totals /\ [Next]_vars => Totals'
    BY TotalsNext
  <2> QED  BY <2>1, <2>2, Invariant, PTL DEF Spec
<1>2. Timer!Init /\ Totals /\ Inv => PacketsPunctual
  BY NoneOverdueInit
<1>3. /\ Inv /\ Totals /\ Inv' /\ Totals' /\ PacketsPunctual
      /\ [Timer!Next]_Timer!timerVars
      => PacketsPunctual'
  BY NoneOverdueNext
<1> QED  BY <1>1, <1>2, <1>3, TimersImplemented, PTL DEF ImplementsTimer, Timer!Spec
=============================================================================
