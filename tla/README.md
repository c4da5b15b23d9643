# A verification project for Memory Dwell (MD)

Memory Dwell is a cFS flight application. It keeps a few *dwell tables*, each
a list of addresses with lengths and delays, and for every enabled table it
samples the addresses as scheduler wakeups arrive, gathers the bytes in a
packet, and sends the packet once the last active entry is read. This directory
holds TLA+ models of the application, TLC configurations that check them, and
TLAPS proofs about them. Paths below are relative to `src/`.

## The system

| Component | State | Operations | Modelled in |
|---|---|---|---|
| Dwell packet generation, `fsw/src/md_dwell_pkt.c` | control records `MD_DwellTables` (Countdown, CurrentEntry, PktOffset), packets | `MD_DwellLoop`, `MD_GetDwellData`, `MD_SendDwellPkt`, `MD_StartDwellStream` | `DwellStreams` |
| Ground commands, `md_cmds.c` | the same records, the Table Services buffers, CmdCounter, ErrCounter | Noop, Reset, Start, Stop, Jam, Set Signature | `DwellStreams`; their events and what they save in `MemoryDwell` |
| Table data and checks, `md_dwell_tbl.c`, `md_utils.c` | table images, totals AddrCount, DataSize, Rate | validation, copy, recount, buffer updates, address checks | `DwellTables`; the loops in `TableLoops` |
| Table management and start-up, `md_app.c` | table handles, recovered or default images | `MD_AppInit`, `MD_InitTableServices`, `MD_ManageDwellTable` | `MemoryDwell` |
| Main loop, `md_app.c` | RunStatus, the command pipe | `MD_AppMain` | `MemoryDwell` |
| Dispatch, `md_dispatch.c`, `md_eds_dispatch.c` | - | length and code checks | `MemoryDwell` |
| Housekeeping, `md_app.c` | HkPkt | `MD_HkStatus` | `MemoryDwell` |
| Events, `fsw/inc/md_eventids.h` | - | one id per outcome | `DwellEvents`, sent in `MemoryDwell` |
| Table files, `fsw/tables/` | default images | - | `DefaultTable` in `DwellTables` |
| Configuration, `md_verify.h` | - | - | assumptions on constants |
| Interface definitions, EDS, docs, unit tests | - | - | read, not modelled |

**How the parts interact.** MD is one task. `MD_AppMain` first starts up: it
subscribes to its messages, and registers each table, which Table Services may
restore from the Critical Data Store. Then it loops: `MD_ManageDwellTable`
validates and copies newly loaded tables, and one message is taken from the pipe. A wakeup runs
`MD_DwellLoop` over all tables; a command changes control records and, through
Table Services, the table image that a critical table saves in the Critical
Data Store. Nothing runs concurrently inside MD, but around it the ground
loads, validates and activates tables, and the processor may be reset at any
point. What is hard is that

- a packet is built across many wakeups, with any sequence of commands and
  loads between two of its entries, on records whose totals are computed when
  an entry is written and used much later;
- a table's content lives in three places (control record, Table Services'
  buffer, Critical Data Store) that are written one after the other, and a
  command or start-up may succeed in one and fail in the next;
- validation and activation of a load are separate requests, between which
  the ground may load something else.

**What makes each part correct.**

- Packet generation: every access is inside the active entries and the packet's
  data area; a packet holds exactly the bytes it announces; packets leave
  when the sum of the delays says, once per period; the task always returns
  to its pipe; an enabled stream never falls silent.
- Commands: a valid one takes effect on the tables it names and no others,
  in the record, the buffer and the store alike; a rejected one changes nothing, unless
  Table Services failed it half-way, and then the ground is told.
- Table data: totals always those of the entries; only validated entries are
  read; what is saved gives back the running stream after a reset.
- Table management: only an image that was validated as it is gets copied;
  what the ground asks for is done although a table may be locked; a reset between
  any two steps recovers; start-up loses no valid saved table.
- Main loop, dispatch, events: each message is counted and reported as its length
  and code say; a failed start-up or pipe ends the task and touches nothing.
- Housekeeping: it shows as active what is active, as far as its 16 bits go.

`PROJECT.json` lists the hazards at their lines, with the properties aimed at
each.

## Modules

- `DwellTables`: data and pure functions. `TableImage` is
  `MD_DwellTableLoad_t`, `ControlRecord` is `MD_DwellPacketControl_t`, with
  the operators named after the C functions. Loops over entries are stated by
  what they compute: `ActiveCount` is the index of the first null entry,
  `DelaySum` and `LengthSum` are prefix sums. `CopiedAddress` keeps the detail
  that the copy loop's variable retains the last address that resolved. The
  assumption on the constants is that of `md_verify.h`, except that tables
  have at most 255 entries: the `uint8` index of `MD_CopyUpdatedTbl` reaches
  no further, although `md_verify.h:51` allows 65535.
- `TableLoops`: the three loops those operators stand for (validation, copy,
  recount), one iteration a step, with counters as wide as the code has them.
  `CheckFindsFirst` and `CopyMatches` say that they compute the operators of
  `DwellTables`, `EndNears` that each iteration lowers what is left of the loops. `MCTableLoops` gives it every table over a few kinds of entry.
- `DwellStreams`: the state machine of the streams. `pc` is `"wait"` between messages,
  `"scan"` while `MD_DwellLoop` looks at table `cur`, `"collect"` inside its
  `while` loop; each iteration of either loop is a step, so that a loop that never
  ends is a behaviour TLC can find. Actions: `Wakeup`, `SkipTable`,
  `FlushPacket` (the "packet is full already" case), `CountDown`, `Collect`;
  one action per command handler, with its rejections and, under `TblFaults`,
  its failure to reach the Table Services buffer; `LoadTable` for an image
  that passed validation and was copied (`CopyTable`) or could not be
  (`MissCopy`). `collected`, `disturbed` and `sent`
  are auxiliary: no action's guard or effect on the code's state depends
  on them. A packet's data is represented by the set of byte positions written.
- `DwellTimer`: the abstract promise, a periodic timer per table with
  no entry, offset or countdown in it. `todo` is the set of timers the wakeup under
  way has yet to turn; `Quiet` is what is no timer's business, such as a
  reading in the middle of a packet.
- `DwellStreamsTimer`: the refinement mapping. A packet is due after the
  countdown plus the delays between the current and the last entry.
  `PacketsPunctual` is the timers' own promise seen through it: no scan leaves behind
  a packet that was due.
- `MCDwellStreams`: the small sets of images, commands and addresses for TLC.
- `DwellEvents`: the names of the event messages by type and group.
- `MemoryDwell`: the application. It takes the actions of `DwellStreams` and
  adds where `MD_AppMain` is (`phase`, and `at` for its loops over tables),
  RunStatus, Table Services' view of each table (`tbs`: the loaded image, what is
  requested of MD, whether the image passed validation), the Critical Data
  Store (`cds`), the housekeeping packet and the events the last step sent,
  and which of the two dispatchers is built in. A step is one call that another
  party can come between: one table's registration, one `CFE_TBL_GetStatus` with what it asks
  for, one message; a scan takes the steps of `MD_DwellLoop`. `Environment`
  is the ground, which loads, validates and activates through Table Services at
  any time, and `Reset`, at any time too, with any part of the store lost. Under
  `ServiceFaults` any other cFE call may fail.
- `MCMemoryDwell`: its images and commands for TLC.
- Proofs: `DwellTablesProofs` about the operators; `DwellStreamsProofs`,
  `DwellRecordsProofs`, `DwellContentsProofs` and `DwellTimerProofs` about the
  streams, each extending the one before; `TableLoopsProofs` about the loops;
  `MemoryDwellProofs` and `MemoryDwellEventsProofs` about the application.

Modelled build: `MD_INTERFACE_SIGNATURE_OPTION = 1` and
`MD_INTERFACE_ENFORCE_DWORD_ALIGN = 1` (the defaults). Definitions whose
comment begins with "Mutant of" (or "Mutants of") are not the code: each is a plausible mistake used to
show that a property can fail.

## Runs

| Run | Shows |
|---|---|
| `Streams` | One table of three entries, every command, loads, failing memory reads, images without entries behind a terminator: all safety properties of the streams, that each iteration brings the end of a scan nearer (`ScanApproachesEnd`), `ScanEnds`, `KeepsSending`, and that they implement `DwellTimer` and leave no due packet behind. |
| `StreamsTwoTables` | Two tables, every kind of mask, bad ids, signatures: commands reach the tables they name and disturb no other's timer, record and buffer stay in step, no started stream waits for a countdown that wraps, rejected commands change nothing while the buffers can be reached. |
| `StreamsFaults` | Any command may fail half-way and any read may fail: array accesses still stay in bounds. |
| `Application` | Two tables, resets at any step, loads, a lossy store, failing services and reads: what is saved gives back the streams, start-up keeps it, only validated images are activated, a stream that idles is announced, a failed MD only exits, pending requests are served without holding up the pipe, and each step of MD brings it nearer to its pipe. |
| `ApplicationFaults` | Two tables, either or both of whose buffers may be out of reach at start-up, when a load is copied and in a command for one or both, under either dispatcher: counters and events tell the same of a command that failed for a part of its tables (`VerdictReported`); where a record and its saved image part, the ground is told which update or copy failed and a command is an error (`DriftTold`); and start-up reports a saved table that it loses (`LossTold`). |
| `TableLoops` | The C loops, iteration by iteration, compute the operators the other modules use, and end, nearer with each iteration. |

**Bounds.** `MaxDelay` is 1 or 2 (65535 in the code), so that zero, one and,
where it matters, several wakeups between readings occur; `CountModulus` (2^32) just above the
longest sum of delays, which the assumption requires, so that a countdown that
wraps is cheap to reach and easy to tell. `TableSize` is 3 in `Streams`: a
first, a middle and a last entry, and one behind a terminator; 2 in the other
stream runs; 1 in the runs of the application, whose properties are about
whole tables: an entry that is there, idles, is null or is invalid. There are two
tables where properties relate tables (a scan, a mask, start-up or a load that
must not hold up the others), one otherwise. `CounterModulus` is 2 where counters are
looked at, the least with which an increment shows, and 1 where they are not.
`MaxLoads` is 1, a single working buffer in Table Services for all tables, so that loads compete.
Fields of 1, 2 and 4 bytes are read at addresses 1, 2 and 4 of a memory of 8,
so that every check of `ValidField` has an input that fails only there; a second
wakeup's packet is told from the first by `sent`, capped at 2. In `ApplicationFaults`, `failed` is any set of tables, so that a start or stop of both
can succeed for one and fail for the other, either way round; its masks
select the first table, both and none, its jams and signatures a table each and one
that does not exist, and what is saved or loaded there is an enabled table that
idles, as its properties do not depend on what is dwelled on. The jams of
`Application` give a table a rate and take it away. Housekeeping's 16-bit fields have
`MaxDelay + 1` values (`HkModulus`), as the `uint16` delays do: one delay fits, a sum of
two may not; with one entry to a table nothing is lost there, so that no run says
anything of housekeeping's fields, only the theorem `HousekeepingTells` does.
`TableLoops` has an index of 4 values for 3 entries,
standing for 256 and up to 255.

`Streams` uses images with nothing behind the terminator because of the
finding `TailCollected`, no jam that leaves a zero delay last because of
`CountdownWraps`, and, as the other runs whose properties depend on the totals,
`TblFaults = FALSE` because of `RejectedJamHangs`; `StreamsFaults` and
`ApplicationFaults` check what survives.

| Finding | What the run shows |
|---|---|
| `CountdownWraps` | The flush of a shortened packet sets Countdown to the last entry's delay. If that is 0, the next wakeup decrements before it tests, and the stream is silent for 2^32 wakeups, although `md_fcncodes.h:225` calls a jam of an active table safe. |
| `TailCollected` | Entries behind the terminator are copied but not validated. A jam over the terminator makes them active, and the loop reads with a length or address that validation refuses. |
| `RejectedJamHangs` | A jam that fails to reach the buffer has already changed the record but not its totals; if it removed the last delay, `MD_DwellLoop` does not return. |
| `JammedByteCount` | After a jam in mid-packet, ByteCount is not the number of bytes collected. |
| `CopyLoopWraps` | With a table larger than its `uint8` index can count, which `md_verify.h` allows, `MD_CopyUpdatedTbl` does not end. |
| `JamIsSaved` | `MD_UpdateTableDwellEntry` ends with `CFE_TBL_Modified` (`md_dwell_tbl.c:393`), which saves the image: an accepted jam survives a reset. `md_fcncodes.h:228-229` says that changes made by a jam "will not be saved across process resets", and `cfs_md.dox:130-133` that jams, starts and stops are not saved to the CDS. The FAQ, `cfs_md.dox:277-279`, says that they are, as does requirement MD9004; `ResetResumes` checks that. |

Three more places at which the documents and the code part were met on the way,
without a run of their own:

- `md_app.c:546` puts the `uint32` rate in a `uint16`. Delays that add up to 65536
  show a stream that does send packets with no waits per packet, which
  `default_md_msgdefs.h:107` calls the "number of delay counts in table", while
  `cfs_md.dox:178-179` says that a stream with a total delay of zero does not operate.
  `HousekeepingTells` proves that housekeeping is exact where the sums fit.
- A wakeup or housekeeping request of a wrong length is reported but not counted by
  `md_dispatch.c:147-176`, although `cfs_md.dox:170-171` lists both among what increments
  the error counter. `CountedAsTold` names the events of these messages, and
  `VerdictReported` says that no other error goes uncounted.
- A delay of 1 sets Countdown back to the 1 it had before the wakeup
  (`md_dwell_pkt.c:115` and `131`): a stream read at every wakeup never shows
  another value, although `cfs_md.dox:286-287` advises to look for a change at each wakeup.

**Fairness.** In `Spec` of `DwellStreams`: `WF_vars(MD_DwellLoop)`, once in its
loop, the task runs, and no message is read before it ends; `WF_vars(Wakeup)`, the scheduler keeps
sending wakeups and the task reads its pipe in order, so that commands
cannot keep a wakeup away for ever. Nothing is assumed of commands and loads.
`KeepsSending` therefore allows for a stream that stops or is restarted again
and again, and for nothing else.

In `AppSpec`: `WF_allVars(MD_AppMain)`, as the task is scheduled and
`CFE_SB_ReceiveBuffer` comes back within its time-out of a second, message or not;
and strong fairness of each table's `ValidateTable` and `UpdateTable`, as a
request refused because the table is locked stays pending, and locks are
released. Nothing is assumed of the ground or of resets: `ReturnsToPipe`
names both ways out, resets without end and `KeptBusy`, a ground that
has a new validation pending each time the `while` loop of
`MD_ManageDwellTable` asks. `TableLoops` needs `WF_vars(Next)` only.

## Proofs

For any number and size of tables, any images, commands and masks. Some
theorems need a hypothesis, which keeps away what a finding or a listed hazard shows to go
wrong: `~TblFaults` (Table Services' buffers can be reached), `ValidTails` (in
images that pass validation, the entries behind the terminator are valid too),
"no flush at zero", `[][~FlushAtZero]_vars` (no packet is flushed of a table that
ends at an entry without a delay, which is what the finding `CountdownWraps` does).
`DelaysSuffice` derives the last from `PositiveDelays`: no field that is loaded, saved
or jammed has a delay of zero. `[]RatesFit` says that every table's sum of delays fits
the housekeeping packet's 16-bit field (a hazard listed at `md_app.c:546`), and
`IndexModulus > TableSize` that the copy loop's index can count the entries, as
`CopyLoopWraps` shows that it must.

| Theorem | Hypotheses | Establishes |
|---|---|---|
| `TypeCorrect` | none | `[]TypeOK` |
| `EntriesInTable` | none | `[]EntryInTable` |
| `TotalsStayCurrent` | `~TblFaults` | `[]TotalsCurrent` |
| `OnePacket` | `~TblFaults` | `[]OnePacketPerWakeup` |
| `RejectionsAbort` | `~TblFaults` | `RejectionChangesNothing` |
| `WritesStayInPacket` | `ValidTails` | `[]WritesInPacket` |
| `ReadsAreReadable` | `ValidTails`, `~TblFaults` | `[]CollectsReadable` |
| `BuffersRestore` | `ValidTails`, `~TblFaults` | `[]BufferRestoresStream` |
| `PacketsAreComplete` | `ValidTails`, `~TblFaults` | `[]PacketComplete` |
| `ScansApproachEnd` | `~TblFaults` | `ScanApproachesEnd` |
| `WaitsAreShort` | no flush at zero | `[]WaitsWithinDelay` |
| `TimersImplemented` | no flush at zero, `~TblFaults` | `ImplementsTimer` |
| `PacketsArePunctual` | no flush at zero, `~TblFaults` | `[]PacketsPunctual` |
| `DelaysSuffice` | `PositiveDelays`, `~TblFaults` | no flush at zero |
| `ChecksFindFirst` | none | `[]CheckFindsFirst` |
| `CopiesMatch` | none | `[]CopyMatches` |
| `LoopsApproachEnd` | `IndexModulus > TableSize` | `EndNears` |
| `AppTypeCorrect` | none | `[]AppTypeOK` |
| `EntriesAlwaysInTable` | none | `[]EntryInTable` of the application |
| `StreamsImplemented` | none | `ImplementsStreams` |
| `FailuresStop` | none | `FailureStops` |
| `VerdictsReported` | none | `VerdictReported` |
| `DriftsTold` | none | `DriftTold` |
| `ZeroRatesTold` | none | `ZeroRateTold` |
| `SavedTablesKept` | `~TblFaults` | `StartUpKeepsSaved` |
| `ResetsResume` | `ValidTails`, `~TblFaults` | `[]ResetResumes` |
| `AppTotalsCurrent` | `~TblFaults` | `[](TotalsCurrent /\ OnePacketPerWakeup)` of the application |
| `AppScansApproachEnd` | `~TblFaults` | `ScanApproachesEnd` of the application |
| `AppPackets` | `ValidTails`, `~TblFaults` | `[](CollectsReadable /\ WritesInPacket /\ PacketComplete)` of the application |
| `AppWaitsAreShort` | no flush at zero | `[]WaitsWithinDelay` of the application |
| `AppDelaysSuffice` | `PositiveDelays`, `~TblFaults` | the same |
| `LossesTold` | none | `LossTold` |
| `PipeIsApproached` | `~TblFaults` | `PipeApproached` |
| `HousekeepingTells` | `[]RatesFit` | `[]HkShowsActivity` |

The argument, module by module:

- `DwellTablesProofs`: facts about prefix sums (their range, by a least
  counterexample), the count of active entries, and what the recount, the copy
  and a command's arguments yield. Masks: of the sum of the bits of the
  enabled tables so far, the bits still to come are not in it and the one just
  added changes no other, so that a table's bit reads back as its Enabled field.
- `TableLoopsProofs`: one invariant for the three loops (`LoopInv`). While checking,
  the error noted is that of the first bad entry below the index and the entries
  passed are good or the error says so; while copying, the entries below the index
  are those of `MD_CopyUpdatedTbl` and the variable that survives an iteration is
  the last address that resolved; while adding, the totals are prefix sums
  over entries none of which is null. The ends of the loops turn each
  part into the operator of `DwellTables`.
- `DwellStreamsProofs`: `EntryInTable` is not inductive: after a failed jam
  the totals are not those of the entries, so they cannot show that a
  running table has an active entry. The strengthening `Inv` is `TypeOK` and
  `Guarded`: a positive Rate comes with a positive AddrCount
  (`RateNeedsEntries`, which a recount establishes and a half-done jam leaves
  alone, as it writes neither), and the task collects only from a running
  table below its AddrCount. Commands cannot break the second part because
  they run between scans. Totals fit their widths because a sum of
  delays is at most `TableSize * MaxDelay`, below 2^32.
- `DwellRecordsProofs`, totals: `Totals` (the totals are those of the entries) is
  inductive with `Inv`, as every handler that writes an entry recounts.
  `OnePacketPerWakeup` needs `SentInScan`: tables the scan has still to visit
  have sent nothing, and a table that has sent its packet and is still being
  collected has met no delay since (`FreeSoFar`). A second packet would
  close a round of zero delays, and then Rate, current, would be 0
  (`AllFree`), so that the loop would not have been entered. `ScanLeft` counts
  `2 * TableSize + 1` iterations for each table to come and, for the one being
  collected, the rest of this round of its entries and another one unless it has
  sent its packet. An iteration that ends a round lowers it because it sends a
  packet, and there is no second one: `ScansApproachEnd` rests on `OnePacket`.
- `DwellRecordsProofs`, packets: `Fields`, every entry is null or readable and
  `PktOffset <= 4 * CurrentEntry`. An entry that validation accepts has a
  symbol that resolves, so the copy stores its own address and
  not the one left by an earlier entry. Below AddrCount no entry is null, since
  AddrCount is current.
- `DwellRecordsProofs`, images: `StepInv`, every record is in step with Table
  Services' image of it: all entries, also those behind the terminator, are
  valid and have the image's lengths, delays and addresses. That the *active* entries agree would not be
  inductive, as a jam may activate the others. Two entry arrays with the same lengths
  end at the same entry and have the same sums (again by a least
  counterexample), so that recovering the image gives the record's totals.
- `DwellContentsProofs`: `ContentsInv`, of an enabled table whose packet has met no
  jam, PktOffset is the sum of the lengths before CurrentEntry and exactly
  the bytes below it are written. A stopped table is exempt: a load of a
  disabled image may leave it with the position of another table, which the
  next start clears. `CountInv`: the countdown of an enabled table
  is between 1 and `MaxDelay` (or 1), and is 0 while the entry it made due is
  being read, and only then. `DelayedInv`: no active entry has a zero delay.
- `DwellTimerProofs`: the refinement of `DwellTimer` is shown action by action: prefix sums grow
  (a least counterexample once more), so that a packet in the making is due
  Countdown and a part of the lead from now. A countdown takes one from that, which
  needs `CountInv` (it does not wrap); a reading takes a delay from the sum and
  puts it in Countdown; the last one makes the next packet due in a Rate, the
  sum of the delays, which needs `Totals`. A turn of the packet loop does not come
  back to a packet it has sent, as Rate is positive. `PacketsPunctual` is then an
  invariant of the timers' steps alone: a count leaves the stream in `todo` when it
  reaches the wakeup under way, and whatever sets `due` sets it to at least 1.
- `MemoryDwellProofs`: `AppInv` is `Inv`, types, and `AppGuarded`: an image that
  counts as checked, or is to be activated, is there and is valid
  (`LoadSound`: a new load clears the mark, and none replaces an image to be activated); a failed MD is on its
  way out; the counters are clear during start-up. With it, each step after
  start-up is a step of `DwellStreams` or leaves its variables alone, so that
  the invariants of the streams carry over; start-up itself rebuilds them.
  `ResumeInv`: the store, the buffer and the record of a table agree, of the
  tables already initialized during start-up and of all from then on, and what is saved
  of the others has valid tails. `KeptInv` and `AppCountInv` carry the contents and the
  countdowns through resets: between a reset and the clearing of the records nothing is
  collected and no wakeup comes, but the records still show the packets and the
  countdown the reset interrupted, so that `ContentsInv` and `CountInv`
  hold only outside `"init"`. `AppDelayedInv` is `DelayedInv` for the records, the
  buffers and the store. `PipeLeft` counts the steps to the pipe, a managed
  table twice, once if no validation is pending, and a scan as `ScanLeft`.
- `MemoryDwellEventsProofs`: which events each handler may send, and how they go
  with its counters. Both follow from the set of tables whose buffers failed, but
  on separate ways: the events as in the handler's own branches (`Verdict`,
  `JamDwell`, `SetSignature`), the counters in the actions of `DwellStreams`, with
  different tests in the code (`ErrorCount`, `Status`, `AllInputsValid`).
  `Counted` is what a handler may do to the counters, and `AcceptTells`,
  `RejectTells` and a lemma for each handler show that its events match, so
  that `VerdictsReported` says it of every message under both dispatchers.
  `DriftsTold` needs `StoreInv`: of every table that start-up has brought up the
  store holds what the buffer holds, whatever fails. A step that writes both the
  record and the buffer leaves the one as the other (`SavedAs`, with a lemma for
  each of load, start and stop, jam and signature); one that writes only the record
  has met a failed update and so sends its event and counts its error. Further
  `AnnounceInv`, a checked image that would idle was announced when it was
  validated, which is needed because its activation sends no event. `HkInv` says what
  the housekeeping packet just sent has to do with the records, by the mask's bits.

Not proved, only model-checked: the liveness properties `ScanEnds`,
`KeepsSending`, `ReturnsToPipe`, `LoadsServed` and `LoopsEnd`, as fairness and
`ENABLED` are out of the prover's reach. Of `ScanEnds`, `ReturnsToPipe` and
`LoopsEnd` the theorems `ScansApproachEnd`, `PipeIsApproached` and
`LoopsApproachEnd` show the part that is not fairness: a measure in the naturals
that every step lowers. What the prover has no answer to either, induction over
data with a schema, the proofs do by a least counterexample: a set of indices at
which a fact fails, if not empty, has a least element.

## Plan

1. Done: the streams, their timers, the application, the loops; the runs and
   the theorems above, which state every invariant the passing runs check.
2. Left: the timers between two resets of the application.
3. Left: a reset in the middle of a command for several tables, with an
   abstract statement of what such a command may leave in the store.

## Not modelled

- The command pipe as a queue: the message is chosen when it is read, so that
  any order of arrival is covered, but neither its depth nor a message lost to overflow.
- Steps inside a command: only a reset could come between them, and one in
  the middle of a command would leave the store with or without its effect, as a
  reset just before or after it does; for a start or stop of several tables it could leave
  it with part of it, which is not covered.
- A new validation requested while one is being carried out, and a load that
  Table Services aborts.
- Table files with content: the shipped default tables have no entries. The code
  loads a default table into Table Services without copying it to the control
  record; a mission's own default file with entries would not be dwelled on
  until loaded again, which is listed as a hazard.
- The values of the bytes read (only where they are written), packet headers
  and timestamps, event texts, syslog and performance markers.
- The branches for `MD_INTERFACE_ENFORCE_DWORD_ALIGN = 0`, a build the code does
  not allow as it stands: its branch in the Jam command (`md_cmds.c:349-350`) names a
  variable `Jam` that does not exist, and does not compile. The branches for
  `MD_INTERFACE_SIGNATURE_OPTION = 0` only leave out signatures and their command.
- Interface headers, EDS files, documentation and unit tests with their stubs,
  which have no behaviour of their own. Their statements are quoted where a
  property or finding rests on them.
- The dispatcher generated from `src/eds/MD.xml` and called at
  `md_eds_dispatch.c:80`: its source is not in the repository. Whether it hands on
  the status a handler returns is left open: after a handler that failed, MD is
  either done with the command or, in `phase = "returned"`, finds the status not to be
  one of the dispatcher's own, counts the command once more and reports an
  unknown command code (`MeetStatus`). `MD_ExecRequest` of the other build
  drops the status.
