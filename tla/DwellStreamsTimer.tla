-------------------------- MODULE DwellStreamsTimer --------------------------
(***************************************************************************)
(* The dwell streams implement the periodic timers of DwellTimer: when a   *)
(* packet is due is a function of the countdown, the current entry and the *)
(* delays of the entries between it and the last.                          *)
(***************************************************************************)
EXTENDS DwellStreams

Lead(c) == IF c.AddrCount = 0 THEN 0 ELSE DelaySum(c.Entry)[c.AddrCount - 1]

(* A packet that is full already leaves at the next wakeup; otherwise the  *)
(* countdown runs out first, then the delays before the last entry.        *)
Due(c) ==
  IF ~Running(c) THEN 0
  ELSE IF c.CurrentEntry >= c.AddrCount THEN 1
  ELSE c.Countdown + Lead(c) - DelaySum(c.Entry)[c.CurrentEntry]

(* The tables the scan has not reached, or the last entries of which it is *)
(* collecting.                                                             *)
Todo ==
  {t \in Tables :
     \/ pc # "wait" /\ t > cur
     \/ pc = "scan" /\ t = cur
     \/ pc = "collect" /\ t = cur /\ Due(ctl[t]) = 0}

Timer == INSTANCE DwellTimer WITH
  Streams <- Tables, MaxPeriod <- TableSize * MaxDelay, NoStream <- -1,
  on     <- [t \in Tables |-> ctl[t].Enabled = Dwell_ENABLED],
  period <- [t \in Tables |-> ctl[t].Rate],
  lead   <- [t \in Tables |-> Lead(ctl[t])],
  due    <- [t \in Tables |-> Due(ctl[t])],
  todo   <- Todo,
  out    <- tlm.TableId - 1

(* Every behavior of the dwell streams is one of the periodic timers:      *)
(* packets leave at the wakeup they are due, no sooner and no later.       *)
ImplementsTimer == Timer!Spec

(* When a scan has passed a table, a packet that was due has been sent and *)
(* the next is not due before the next wakeup: none is left behind.        *)
PacketsPunctual == Timer!NoneOverdue
=============================================================================
