----------------------------- MODULE TableLoops -----------------------------
(***************************************************************************)
(* The three loops over a dwell table's entries that a load goes through,  *)
(* one iteration a step, with the counters as wide as the code has them:   *)
(* MD_CheckTableEntries looks for the first bad entry, MD_CopyUpdatedTbl   *)
(* copies the entries to the control record, MD_UpdateDwellControlInfo     *)
(* adds up its totals.  DwellTables gives what they are to compute.        *)
(***************************************************************************)
EXTENDS DwellTables

CONSTANTS
  IndexModulus,   \* 256: the EntryIndex of the copy loop is a uint8
  Images          \* the table images loaded

ASSUME TableLoopsAssumption ==
  /\ IndexModulus \in Nat \ {0}
  /\ Images \subseteq TableImage

VARIABLES
  loop,       \* the loop under way, or how the load ended
  image,      \* the table load
  index,      \* EntryIndex
  bad,        \* FirstBadIndex
  resolved,   \* the ResolvedAddr of the copy loop
  c,          \* the control record
  totals      \* NumDwellAddresses, NumDwellDataBytes, NumDwellDelayCounts

vars == <<loop, image, index, bad, resolved, c, totals>>

NoTotals == [addresses |-> 0, bytes |-> 0, delays |-> 0]

Init ==
  /\ loop = "check" /\ image \in Images /\ index = 0 /\ bad = -1
  /\ resolved = 0 /\ c = InitialControl /\ totals = NoTotals

Entry == image.Entry[index]

(* Mutants of CheckEntry: the last bad entry is kept; the loop stays at a  *)
(* bad one.                                                                *)
CheckEntryLast ==
  /\ loop = "check" /\ index < TableSize
  /\ ~MD_ValidTableEntry(Entry) \/ Entry.Length # 0
  /\ bad' = IF MD_ValidTableEntry(Entry) THEN bad ELSE index
  /\ index' = index + 1
  /\ UNCHANGED <<loop, image, resolved, c, totals>>

CheckEntryAgain ==
  /\ loop = "check" /\ index < TableSize
  /\ ~MD_ValidTableEntry(Entry) \/ Entry.Length # 0
  /\ bad' = IF bad = -1 /\ ~MD_ValidTableEntry(Entry) THEN index ELSE bad
  /\ index' = IF MD_ValidTableEntry(Entry) THEN index + 1 ELSE index
  /\ UNCHANGED <<loop, image, resolved, c, totals>>

(* A bad entry does not end the check, only a null one does.               *)
CheckEntry ==
  /\ loop = "check" /\ index < TableSize
  /\ ~MD_ValidTableEntry(Entry) \/ Entry.Length # 0
  /\ bad' = IF bad = -1 /\ ~MD_ValidTableEntry(Entry) THEN index ELSE bad
  /\ index' = index + 1
  /\ UNCHANGED <<loop, image, resolved, c, totals>>

(* Table Services activates the image only if no entry was bad.            *)
Checked ==
  /\ loop = "check"
  /\ index < TableSize => Entry.Length = 0
  /\ \/ bad # -1 /\ loop' = "refused" /\ UNCHANGED c
     \/ /\ bad = -1 /\ loop' = "copy"
        /\ c' = [c EXCEPT !.Enabled = image.Enabled, !.Signature = image.Signature]
  /\ index' = 0
  /\ UNCHANGED <<image, bad, resolved, totals>>

(* Mutant of CopyEntry: the variable is cleared for each entry.            *)
CopyEntryAfresh ==
  /\ loop = "copy" /\ index < TableSize
  /\ resolved' = IF Resolvable(Entry.SymName)
                 THEN MD_ResolveSymAddr(Entry.SymName, Entry.Offset) ELSE 0
  /\ c' = [c EXCEPT !.Entry[index] = [Length |-> Entry.Length,
                                      Delay |-> Entry.Delay,
                                      ResolvedAddress |-> resolved']]
  /\ index' = (index + 1) % IndexModulus
  /\ UNCHANGED <<loop, image, bad, totals>>

(* A name that does not resolve leaves ResolvedAddr as it was.             *)
CopyEntry ==
  /\ loop = "copy" /\ index < TableSize
  /\ resolved' = IF Resolvable(Entry.SymName)
                 THEN MD_ResolveSymAddr(Entry.SymName, Entry.Offset)
                 ELSE resolved
  /\ c' = [c EXCEPT !.Entry[index] = [Length |-> Entry.Length,
                                      Delay |-> Entry.Delay,
                                      ResolvedAddress |-> resolved']]
  /\ index' = (index + 1) % IndexModulus
  /\ UNCHANGED <<loop, image, bad, totals>>

Copied ==
  /\ loop = "copy" /\ index >= TableSize
  /\ loop' = "add" /\ index' = 0
  /\ UNCHANGED <<image, bad, resolved, c, totals>>

AddEntry ==
  /\ loop = "add" /\ index < TableSize /\ c.Entry[index].Length # 0
  /\ totals' = [addresses |-> (totals.addresses + 1) % Word,
                bytes  |-> (totals.bytes + c.Entry[index].Length) % Word,
                delays |-> (totals.delays + c.Entry[index].Delay) % CountModulus]
  /\ index' = index + 1
  /\ UNCHANGED <<loop, image, bad, resolved, c>>

Added ==
  /\ loop = "add"
  /\ index < TableSize => c.Entry[index].Length = 0
  /\ c' = [c EXCEPT !.AddrCount = totals.addresses,
                    !.DataSize = totals.bytes, !.Rate = totals.delays]
  /\ loop' = "done"
  /\ UNCHANGED <<image, index, bad, resolved, totals>>

Next == CheckEntry \/ Checked \/ CopyEntry \/ Copied \/ AddEntry \/ Added

Spec == Init /\ [][Next]_vars /\ WF_vars(Next)

-----------------------------------------------------------------------------
(* Correctness                                                             *)

(* The error MD_CheckTableEntries reports is the first of an active entry, *)
(* and it finds one exactly when the table is not to be accepted.          *)
CheckFindsFirst ==
  loop # "check" =>
    LET wrong == {i \in 0..(ActiveCount(image.Entry) - 1) :
                    ~MD_ValidTableEntry(image.Entry[i])}
    IN  /\ bad = IF wrong = {} THEN -1 ELSE Min(wrong)
        /\ loop = "refused" <=> ~MD_CheckTableEntries(image.Entry)

(* The copy and the totals are those of the operators every other module   *)
(* uses for them.                                                          *)
CopyMatches ==
  loop = "done" => c = MD_CopyUpdatedTbl(InitialControl, image)

(* The iterations that may be left of the load: a loop over all entries    *)
(* for each one still to begin, and the rest of the one under way.         *)
LoopsLeft ==
  CASE loop = "check" -> 3 [] loop = "copy" -> 2 [] loop = "add" -> 1
    [] OTHER -> 0

Left == IF LoopsLeft = 0 THEN 0
        ELSE LoopsLeft * (TableSize + 1) + (TableSize - index)

(* Every iteration of the three loops brings the end nearer, which is why  *)
(* they end; it does as long as the copy's index does not wrap.            *)
EndNears == [][Left' < Left /\ Left' \in Nat]_vars

(* The loops end, for any table (md_verify.h bounds its size).             *)
LoopsEnd == <>(loop \in {"done", "refused"})
=============================================================================
