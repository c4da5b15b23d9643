----------------------------- MODULE DwellTables -----------------------------
(***************************************************************************)
(* The data of NASA's Memory Dwell application (MD) and the pure functions *)
(* on it: the dwell table image kept by Table Services, the dwell packet   *)
(* control record kept by the application, the validity checks of          *)
(* md_utils.c and md_dwell_tbl.c, and what each update does to a record.   *)
(*                                                                         *)
(* Table and entry indices start at 0, as the C arrays do; the ids carried *)
(* by commands and packets are the indices plus 1.                         *)
(***************************************************************************)
EXTENDS Integers, FiniteSets, FiniteSetsExt

CONSTANTS
  NumTables,       \* MD_INTERFACE_NUM_DWELL_TABLES
  TableSize,       \* MD_INTERFACE_DWELL_TABLE_SIZE
  MaxDelay,        \* the largest uint16 Delay (65535)
  CountModulus,    \* 2^32: Countdown and Rate are uint32
  AddrModulus,     \* cpuaddr is an unsigned integer below this bound
  SymbolNames,     \* the symbol names in tables and commands
  NullSymbol,      \* the empty symbol name: the offset is the whole address
  SymbolTable,     \* OSAL's symbol table: a function from names to addresses
  Memory,          \* the addresses the PSP's memory table covers
  Signatures,      \* null-terminated signature strings
  NoSignature,     \* the empty one
  Unterminated     \* a signature field with no null character in it

(***************************************************************************)
(* md_verify.h bounds the table count by 16, the width of a command's      *)
(* table mask.  It lets a table have 65535 entries, but the uint8 index of *)
(* MD_CopyUpdatedTbl only reaches the end of tables of at most 255.        *)
(***************************************************************************)
ASSUME DwellTablesAssumption ==
  /\ NumTables \in 1..16
  /\ TableSize \in 1..255
  /\ MaxDelay \in Nat
  /\ CountModulus \in Nat \ {0, 1} /\ CountModulus > TableSize * MaxDelay
  /\ AddrModulus \in Nat \ {0}
  /\ NullSymbol \in SymbolNames \ DOMAIN SymbolTable
  /\ SymbolTable \in [DOMAIN SymbolTable -> 0..(AddrModulus - 1)]
  /\ Memory \subseteq 0..(AddrModulus - 1)
  /\ NoSignature \in Signatures
  /\ Unterminated \notin Signatures

Tables  == 0..(NumTables - 1)
Entries == 0..(TableSize - 1)

Dwell_DISABLED == 0
Dwell_ENABLED  == 1

Word   == 65536            \* values of a uint16
UINT16 == 0..(Word - 1)
Delays == 0..MaxDelay
Addresses == 0..(AddrModulus - 1)

-----------------------------------------------------------------------------
(* Addresses                                                               *)

(* A symbolic address resolves when its name is empty or is in the table.  *)
Resolvable(sym) == sym = NullSymbol \/ sym \in DOMAIN SymbolTable

MD_ResolveSymAddr(sym, offset) ==
  IF sym = NullSymbol THEN offset
                      ELSE (SymbolTable[sym] + offset) % AddrModulus

(* CFE_PSP_MemValidateRange as MD uses it: every byte of the field is in   *)
(* a range of the PSP's memory table.                                      *)
MD_ValidAddrRange(addr, size) == addr..(addr + size - 1) \subseteq Memory

MD_ValidFieldLength(length) == length \in {0, 1, 2, 4}

(* MD_Verify16Aligned and MD_Verify32Aligned, with the lengths they are    *)
(* called for (the build with MD_INTERFACE_ENFORCE_DWORD_ALIGN = 1).       *)
Aligned(addr, length) ==
  /\ length = 4 => addr % 4 = 0
  /\ length = 2 => addr % 2 = 0

(* Mutant of ValidField: nobody asks whether the address is aligned.       *)
UnalignedField(sym, offset, length) ==
  /\ Resolvable(sym)
  /\ MD_ValidAddrRange(MD_ResolveSymAddr(sym, offset), length)
  /\ MD_ValidFieldLength(length)

(* What both table validation and the Jam command ask of a non-null field. *)
ValidField(sym, offset, length) ==
  /\ Resolvable(sym)
  /\ MD_ValidAddrRange(MD_ResolveSymAddr(sym, offset), length)
  /\ MD_ValidFieldLength(length)
  /\ Aligned(MD_ResolveSymAddr(sym, offset), length)

-----------------------------------------------------------------------------
(* Totals over the active entries of a table                               *)

(* Entries are processed up to the first null one (a zero Length).         *)
ActiveCount(entry) ==
  CHOOSE n \in 0..TableSize :
    /\ \A i \in 0..(n - 1) : entry[i].Length # 0
    /\ n < TableSize => entry[n].Length = 0

(* PrefixSum(v)[n] is v[0] + ... + v[n - 1].                               *)
PrefixSum(v) ==
  LET sum[n \in 0..TableSize] == IF n = 0 THEN 0 ELSE sum[n - 1] + v[n - 1]
  IN  sum

LengthSum(entry) == PrefixSum([i \in Entries |-> entry[i].Length])
DelaySum(entry)  == PrefixSum([i \in Entries |-> entry[i].Delay])

-----------------------------------------------------------------------------
(* Table images: MD_DwellTableLoad_t                                       *)

LoadEntry == [Length : UINT16, Delay : Delays,
              SymName : SymbolNames, Offset : Addresses]

(* What the ground may build, and what passes MD_TableValidationFunc.      *)
TableImage == [Enabled : UINT16, Signature : Signatures \cup {Unterminated},
               Entry : [Entries -> LoadEntry]]

BufferImage == [Enabled : {Dwell_DISABLED, Dwell_ENABLED},
                Signature : Signatures, Entry : [Entries -> LoadEntry]]

MD_ValidTableEntry(e) ==
  e.Length # 0 => ValidField(e.SymName, e.Offset, e.Length)

(* The check stops at the first null entry.                                *)
MD_CheckTableEntries(entry) ==
  \A i \in Entries : i < ActiveCount(entry) => MD_ValidTableEntry(entry[i])

MD_TableValidationFunc(image) ==
  /\ image.Enabled \in {Dwell_DISABLED, Dwell_ENABLED}
  /\ image.Signature \in Signatures
  /\ MD_CheckTableEntries(image.Entry)

NullLoadEntry ==
  [Length |-> 0, Delay |-> 0, SymName |-> NullSymbol, Offset |-> 0]

(* A default table file (md_dw01.c and its siblings): no entry, disabled.  *)
DefaultTable(signature) ==
  [Enabled |-> Dwell_DISABLED, Signature |-> signature,
   Entry |-> [i \in Entries |-> NullLoadEntry]]

-----------------------------------------------------------------------------
(* Control records: MD_DwellPacketControl_t                                *)

ControlEntry == [Length : UINT16, Delay : Delays, ResolvedAddress : Addresses]

ControlRecord ==
  [Enabled : {Dwell_DISABLED, Dwell_ENABLED}, AddrCount : 0..TableSize,
   Rate : 0..(CountModulus - 1), Countdown : 0..(CountModulus - 1),
   PktOffset : UINT16, CurrentEntry : 0..TableSize, DataSize : UINT16,
   Entry : [Entries -> ControlEntry], Signature : Signatures]

NullControlEntry == [Length |-> 0, Delay |-> 0, ResolvedAddress |-> 0]

(* The record MD_InitControlStructures leaves.                             *)
InitialControl ==
  [Enabled |-> Dwell_DISABLED, AddrCount |-> 0, Rate |-> 0, Countdown |-> 1,
   PktOffset |-> 0, CurrentEntry |-> 0, DataSize |-> 0,
   Entry |-> [i \in Entries |-> NullControlEntry],
   Signature |-> NoSignature]

(* Recount the active entries; the totals are those up to the terminator.  *)
MD_UpdateDwellControlInfo(c) ==
  LET n == ActiveCount(c.Entry)
  IN  [c EXCEPT !.AddrCount = n,
                !.DataSize  = LengthSum(c.Entry)[n] % Word,
                !.Rate      = DelaySum(c.Entry)[n]]

(* The address the copy loop stores for entry i.  A name that does not     *)
(* resolve leaves the loop's variable as the previous entry set it, and 0  *)
(* is what it starts from.                                                 *)
CopiedAddress(entry, i) ==
  LET resolved == {j \in 0..i : Resolvable(entry[j].SymName)}
      last     == Max(resolved)
  IN  IF resolved = {} THEN 0
      ELSE MD_ResolveSymAddr(entry[last].SymName, entry[last].Offset)

(* Mutant of MD_CopyUpdatedTbl: the totals are not brought up to date.     *)
CopiedWithoutTotals(c, image) ==
  [c EXCEPT
     !.Enabled   = image.Enabled,
     !.Signature = image.Signature,
     !.Entry     = [i \in Entries |->
                     [Length |-> image.Entry[i].Length,
                      Delay  |-> image.Entry[i].Delay,
                      ResolvedAddress |-> CopiedAddress(image.Entry, i)]]]

MD_CopyUpdatedTbl(c, image) ==
  MD_UpdateDwellControlInfo(
    [c EXCEPT
       !.Enabled   = image.Enabled,
       !.Signature = image.Signature,
       !.Entry     = [i \in Entries |->
                       [Length |-> image.Entry[i].Length,
                        Delay  |-> image.Entry[i].Delay,
                        ResolvedAddress |-> CopiedAddress(image.Entry, i)]]])

(* Mutants of MD_StartDwellStream: the packet's write offset stays where   *)
(* it was; the first reading waits for a whole period, as the comment on   *)
(* Countdown in md_app.h suggests.                                         *)
StartWithoutRewind(c) == [c EXCEPT !.Countdown = 1, !.CurrentEntry = 0]
StartAtRate(c) ==
  [c EXCEPT !.Countdown = c.Rate, !.CurrentEntry = 0, !.PktOffset = 0]

MD_StartDwellStream(c) ==
  [c EXCEPT !.Countdown = 1, !.CurrentEntry = 0, !.PktOffset = 0]

(* An accepted or recovered table image takes over the control record.     *)
Activated(c, image) ==
  LET copied == MD_CopyUpdatedTbl(c, image)
  IN  IF image.Enabled = Dwell_ENABLED THEN MD_StartDwellStream(copied) ELSE copied

(* Mutants of Started: a stopped stream's countdown is still at zero; a    *)
(* stream that is already running goes on with its current entry.          *)
StartInPacket(c) ==
  [c EXCEPT !.Enabled = Dwell_ENABLED, !.Countdown = 1, !.PktOffset = 0]
StartWithoutCountdown(c) ==
  [c EXCEPT !.Enabled = Dwell_ENABLED, !.CurrentEntry = 0, !.PktOffset = 0]

Started(c) == [MD_StartDwellStream(c) EXCEPT !.Enabled = Dwell_ENABLED]

Stopped(c) == [c EXCEPT !.Enabled = Dwell_DISABLED, !.Countdown = 0,
                        !.CurrentEntry = 0, !.PktOffset = 0]

-----------------------------------------------------------------------------
(* Commands' arguments                                                     *)

(* A word with only bit t set: 1 << t.                                     *)
Bit[t \in 0..16] == IF t = 0 THEN 1 ELSE 2 * Bit[t - 1]

(* The mask, shifted to bit TableId - 1, is odd.                           *)
MD_TableIsInMask(t, mask) == (mask \div Bit[t]) % 2 = 1

MD_ValidTableId(id) == id \in 1..NumTables
MD_ValidEntryId(id) == id \in 1..TableSize

(* A Jam command's checks; a null jam needs only its two indices.          *)
ValidJam(jam) ==
  /\ MD_ValidTableId(jam.TableId)
  /\ MD_ValidEntryId(jam.EntryId)
  /\ jam.FieldLength # 0 =>
       ValidField(jam.SymName, jam.Offset, jam.FieldLength)

JamPayload == [TableId : UINT16, EntryId : UINT16, FieldLength : UINT16,
               DwellDelay : Delays, SymName : SymbolNames, Offset : Addresses]

(* What a valid Jam writes into the control record and the table image.    *)
JammedEntry(jam) ==
  IF jam.FieldLength = 0 THEN NullControlEntry
  ELSE [Length |-> jam.FieldLength, Delay |-> jam.DwellDelay,
        ResolvedAddress |-> MD_ResolveSymAddr(jam.SymName, jam.Offset)]

(* Mutant of JammedLoadEntry: the delay does not reach Table Services.     *)
JammedWithoutDelay(jam) ==
  IF jam.FieldLength = 0 THEN NullLoadEntry
  ELSE [Length |-> jam.FieldLength, Delay |-> 0,
        SymName |-> jam.SymName, Offset |-> jam.Offset]

JammedLoadEntry(jam) ==
  IF jam.FieldLength = 0 THEN NullLoadEntry
  ELSE [Length |-> jam.FieldLength, Delay |-> jam.DwellDelay,
        SymName |-> jam.SymName, Offset |-> jam.Offset]
=============================================================================
