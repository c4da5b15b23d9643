---------------------------- MODULE MCTableLoops ----------------------------
(***************************************************************************)
(* Small instances of TableLoops for TLC: every table of a few kinds of    *)
(* entry.  A field of n bytes is read at address n.                        *)
(***************************************************************************)
EXTENDS TableLoops

MCMemory == 0..7
MCSymbolNames == {"", "known", "unknown"}
MCSymbolTable == [name \in {"known"} |-> 4]

Field(length, delay, name) ==
  [Length |-> length, Delay |-> delay, SymName |-> name, Offset |-> length]

(* Null entries with and without a name that resolves, valid fields, and   *)
(* fields of a length MD does not read, out of memory and of no address.   *)
Fields == {NullLoadEntry, Field(0, 1, "unknown"), Field(1, 2, ""),
           Field(2, 0, "known"), Field(4, 1, ""), Field(3, 1, ""),
           Field(4, 1, "known"), Field(2, 1, "unknown")}

MCImages == [Enabled : {1}, Signature : {"load"}, Entry : [Entries -> Fields]]
=============================================================================
