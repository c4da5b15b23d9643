----------------------------- MODULE DwellTimer -----------------------------
(***************************************************************************)
(* What a dwell stream promises, free of entries, offsets and countdowns:  *)
(* a periodic timer per dwell table, driven by wakeups.  A stream that is  *)
(* started or loaded enabled sends its first packet after the delays of    *)
(* all but its last entry (the lead), and from then on one every period    *)
(* wakeups, the period being the sum of all its delays (requirement        *)
(* MD3001, MD_START_DWELL_CC).  A jam may move the packet in the making,   *)
(* but by no more than one delay and the lead of a whole packet.           *)
(***************************************************************************)
EXTENDS Integers

CONSTANTS Streams,    \* the dwell tables
          MaxDelay,   \* the longest delay of an entry
          MaxPeriod,  \* the largest sum of a table's delays
          NoStream    \* not a stream

VARIABLES
  on,      \* the stream is enabled
  period,  \* wakeups from one packet to the next
  lead,    \* wakeups from the first reading of a packet to its sending
  due,     \* the wakeup, counted from now, that sends the next packet; 0 is
           \* the one under way, and the value of a stream that is not running
  todo,    \* the streams the wakeup under way has yet to deal with
  out      \* the stream whose packet the last step sent, or NoStream

timing == <<on, period, lead>>
timerVars == <<on, period, lead, due, todo, out>>

Running(s) == on[s] /\ period[s] > 0

(* A stream begins with its first reading at the next wakeup.              *)
FirstDue(s) == IF Running(s) THEN lead[s] + 1 ELSE 0

Init ==
  /\ on \in [Streams -> BOOLEAN]
  /\ period \in [Streams -> 0..MaxPeriod]
  /\ lead \in [Streams -> 0..MaxPeriod]
  /\ \A s \in Streams : lead[s] <= period[s]
  /\ due = [s \in Streams |-> FirstDue(s)]
  /\ todo = {}
  /\ out = NoStream

-----------------------------------------------------------------------------
Wakeup ==
  /\ todo = {} /\ todo' = Streams
  /\ out' = NoStream
  /\ UNCHANGED <<timing, due>>

Skip(s) ==
  /\ s \in todo /\ ~Running(s)
  /\ todo' = todo \ {s}
  /\ out' = NoStream
  /\ UNCHANGED <<timing, due>>

(* One wakeup less to wait for; if it was the last, the packet remains.    *)
Count(s) ==
  /\ s \in todo /\ Running(s) /\ due[s] > 0
  /\ due' = [due EXCEPT ![s] = @ - 1]
  /\ todo' = IF due[s] = 1 THEN todo ELSE todo \ {s}
  /\ out' = NoStream
  /\ UNCHANGED timing

(* The packet leaves in the wakeup that is due, counted or not.            *)
Send(s) ==
  /\ s \in todo /\ Running(s) /\ due[s] <= 1
  /\ due' = [due EXCEPT ![s] = period[s]]
  /\ todo' = todo \ {s}
  /\ out' = s
  /\ UNCHANGED timing

-----------------------------------------------------------------------------
Between == todo = {} /\ out' = NoStream /\ UNCHANGED todo

(* All streams but those of ss keep their timing and their next packet.    *)
OnlyChanges(ss) ==
  /\ \A s \in Streams \ ss : /\ period'[s] = period[s] /\ lead'[s] = lead[s]
                             /\ on'[s] = on[s] /\ due'[s] = due[s]
  /\ \A s \in ss : lead'[s] <= period'[s] /\ period'[s] <= MaxPeriod

Switch(ss, state) ==
  /\ Between /\ OnlyChanges(ss)
  /\ UNCHANGED <<period, lead>>
  /\ \A s \in ss : on'[s] = state /\ due'[s] = FirstDue(s)'

Load(s) == Between /\ OnlyChanges({s}) /\ due'[s] = FirstDue(s)'

(* The timing of a stream changes under it.                                *)
Jam(s) ==
  /\ Between /\ OnlyChanges({s})
  /\ on'[s] = on[s]
  /\ IF Running(s)' THEN due'[s] \in 1..(MaxDelay + lead'[s])
                    ELSE due'[s] = 0

(* Something that is no stream's business, in a wakeup or not.             *)
Quiet == out' = NoStream /\ UNCHANGED <<timing, due, todo>>

Next ==
  \/ Wakeup
  \/ \E s \in Streams : Skip(s) \/ Count(s) \/ Send(s) \/ Load(s) \/ Jam(s)
  \/ \E ss \in SUBSET Streams, state \in BOOLEAN : Switch(ss, state)
  \/ Quiet

Spec == Init /\ [][Next]_timerVars

(* No packet is late: a running stream the wakeup has dealt with sends its *)
(* next packet at a later one.                                             *)
NoneOverdue == \A s \in Streams : Running(s) /\ s \notin todo => due[s] > 0
=============================================================================
