--------------------------- MODULE MCDwellStreams ---------------------------
(***************************************************************************)
(* Small instances of DwellStreams for TLC: table images, commands and a   *)
(* memory map.  A field of n bytes is read at address n, so that fields of *)
(* 1, 2 and 4 bytes are distinct, aligned and inside the memory map.       *)
(***************************************************************************)
EXTENDS DwellStreamsTimer, Sequences

MCMemory == 0..7
MCSymbolNames == {"", "known", "unknown"}
MCSymbolTable == [name \in {"known"} |-> 4]

Field(length, delay) ==
  [Length |-> length, Delay |-> delay, SymName |-> "", Offset |-> length]
Symbol(name, offset, length, delay) ==
  [Length |-> length, Delay |-> delay, SymName |-> name, Offset |-> offset]

Image(enabled, fields) ==
  [Enabled |-> enabled, Signature |-> "load",
   Entry |-> [i \in Entries |->
               IF i < Len(fields) THEN fields[i + 1] ELSE NullLoadEntry]]

Jam(t, i, field) ==
  [TableId |-> t, EntryId |-> i, FieldLength |-> field.Length,
   DwellDelay |-> field.Delay, SymName |-> field.SymName,
   Offset |-> field.Offset]

JamsOf(ts, es, fields) ==
  {Jam(t, i, field) : t \in ts, i \in es, field \in fields}

(* Jams that fail each of the checks in turn.                              *)
BadJams ==
  {Jam(0, 1, Field(1, 1)), Jam(NumTables + 1, 1, Field(1, 1)),
   Jam(1, 0, Field(1, 1)), Jam(1, TableSize + 1, NullLoadEntry),
   Jam(1, 1, Symbol("unknown", 0, 4, 1)), Jam(1, 1, Symbol("known", 4, 4, 1)),
   Jam(1, 1, Field(3, 1)), Jam(1, 1, Symbol("", 2, 4, 1)),
   Jam(1, 1, Symbol("", 3, 2, 1))}

(* Images MD_TableValidationFunc must refuse, each for its own reason.     *)
BadImages ==
  {Image(2, <<Field(1, 1)>>),
   [Image(0, <<Field(1, 1)>>) EXCEPT !.Signature = "unterminated"],
   Image(1, <<Field(1, 1), Symbol("unknown", 0, 4, 1)>>),
   Image(1, <<Symbol("", 6, 4, 1)>>),
   Image(1, <<Field(3, 1)>>), Image(1, <<Symbol("", 2, 4, 1)>>)}

CleanImages ==
  {Image(1, <<Field(1, 1), Field(2, 0)>>),
   Image(1, <<Field(4, 0), Symbol("known", 0, 4, 0), Field(1, 2)>>),
   Image(0, <<Field(2, 2)>>)}

OneTableImages == CleanImages \cup BadImages
OneTableJams ==
  BadJams \cup JamsOf({1}, 1..TableSize,
                      {NullLoadEntry, Field(1, 0), Field(4, 2)})

(* Without the jam that ends the longest table at an entry of zero delay,  *)
(* which makes the countdown wrap.                                         *)
StreamJams == OneTableJams \ {Jam(1, 3, NullLoadEntry)}

Nothing == {}

(* Images that pass validation with entries after their null entry that    *)
(* would not: a length of 3 bytes, one of 257, an odd address, a symbol    *)
(* nobody knows.                                                           *)
JunkTail(field) == Image(1, <<Field(1, 1), NullLoadEntry, field>>)
TailImages ==
  {JunkTail(Field(3, 1)), JunkTail(Symbol("", 2, 4, 0)),
   JunkTail(Symbol("", 0, 257, 1)), JunkTail(Symbol("unknown", 0, 2, 0))}

(* One jam of one table, for the run in which it fails.                    *)
HangImages == {Image(1, <<Field(1, 0), Field(2, 1)>>)}
HangJams == {Jam(1, 2, Field(2, 0))}

(* A table of two entries, for the runs with faults of Table Services.     *)
FaultImages == {Image(1, <<Field(1, 1), Field(2, 0)>>), Image(0, <<Field(4, 1)>>)}
FaultJams ==
  JamsOf({1}, 1..TableSize, {NullLoadEntry, Field(4, 0), Field(1, 1)})

FaultSignatures == {[TableId |-> 1, Signature |-> "default"]}

(* Two tables of two entries, of which every one has a delay.              *)
TwoTableImages ==
  {Image(1, <<Field(1, 1), Field(2, 1)>>), Image(0, <<Field(2, 1)>>),
   Image(1, <<Field(3, 1)>>)}
TwoTableJams ==
  BadJams \cup JamsOf({1}, 1..2, {NullLoadEntry, Field(4, 1)})
          \cup JamsOf({2}, {1}, {NullLoadEntry, Field(1, 1)})
TwoTableSignatures ==
  [TableId : {0, 1, 3}, Signature : {"load", "jam", "unterminated"}]
=============================================================================
