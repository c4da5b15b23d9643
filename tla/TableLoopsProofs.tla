---------------------------- MODULE TableLoopsProofs ----------------------------
(***************************************************************************)
(* Theorems about the loops over a table's entries, for every table, of    *)
(* any size: they compute the operators of DwellTables, and they end where *)
(* the index of the copy loop can count the entries.                       *)
(***************************************************************************)
EXTENDS TableLoops, DwellTablesProofs

-----------------------------------------------------------------------------
(* The loop invariants                                                     *)

Valid(i) == MD_ValidTableEntry(image.Entry[i])

(* The first bad entry below n, if there is one, is noted.                 *)
NotedBelow(n) ==
  \/ bad = -1 /\ \A i \in 0..(n - 1) : Valid(i)
  \/ bad \in 0..(n - 1) /\ ~Valid(bad) /\ \A i \in 0..(bad - 1) : Valid(i)

Checking ==
  /\ index \in 0..TableSize /\ c = InitialControl
  /\ resolved = 0 /\ totals = NoTotals
  /\ \A i \in 0..(index - 1) : image.Entry[i].Length # 0
  /\ NotedBelow(index)

(* The record with its first n entries copied.                             *)
CopiedBelow(n) ==
  [InitialControl EXCEPT
     !.Enabled = image.Enabled, !.Signature = image.Signature,
     !.Entry = [i \in Entries |-> IF i < n THEN CopiedEntries(image)[i]
                                           ELSE NullControlEntry]]

(* An index that cannot count the entries starts again before their end,   *)
(* and the copy never leaves the loop.                                     *)
Copying ==
  /\ index \in 0..(IndexModulus - 1) /\ totals = NoTotals
  /\ IndexModulus > TableSize =>
       /\ index <= TableSize /\ c = CopiedBelow(index)
       /\ resolved = IF index = 0 THEN 0
                     ELSE CopiedAddress(image.Entry, index - 1)

Adding ==
  /\ index \in 0..TableSize /\ c = CopiedRecord(InitialControl, image)
  /\ \A i \in 0..(index - 1) : c.Entry[i].Length # 0
  /\ totals = [addresses |-> index,
               bytes  |-> LengthSum(c.Entry)[index] % Word,
               delays |-> DelaySum(c.Entry)[index]]

LoopInv ==
  /\ image \in Images
  /\ loop \in {"check", "copy", "add", "done", "refused"}
  /\ loop = "check" => Checking
  /\ loop # "check" =>
       /\ NotedBelow(ActiveCount(image.Entry))
       /\ loop = "refused" <=> bad # -1
  /\ loop = "copy" => Copying
  /\ loop \in {"add", "done"} => IndexModulus > TableSize
  /\ loop = "add" => Adding
  /\ CopyMatches

-----------------------------------------------------------------------------
(* The check                                                               *)

LEMMA NullIsValid ==
  ASSUME NEW e, e.Length = 0
  PROVE  MD_ValidTableEntry(e)
BY DEF MD_ValidTableEntry

LEMMA LoopInit == Init => LoopInv
BY Sizes DEF Init, LoopInv, Checking, NotedBelow, CopyMatches

(* The entries before the one the check stops at are the active ones.      *)
LEMMA StopsAtCount ==
  ASSUME NEW entry, NEW n \in 0..TableSize,
         \A i \in 0..(n - 1) : entry[i].Length # 0,
         n < TableSize => entry[n].Length = 0
  PROVE  n = ActiveCount(entry)
<1> DEFINE m == ActiveCount(entry)
<1>1. /\ m \in 0..TableSize
      /\ \A i \in 0..(m - 1) : entry[i].Length # 0
      /\ m < TableSize => entry[m].Length = 0
  BY ActiveCountFacts
<1> HIDE DEF m
<1>2. ~(m < n)
  BY <1>1, Sizes
<1>3. ~(n < m)
  BY <1>1, Sizes
<1> QED  BY <1>1, <1>2, <1>3, Sizes DEF m

LEMMA CheckEntryInv == LoopInv /\ CheckEntry => LoopInv'
<1> SUFFICES ASSUME LoopInv, CheckEntry PROVE LoopInv'
  OBVIOUS
<1>1. Checking /\ loop = "check" /\ image \in Images
  BY DEF LoopInv, CheckEntry
<1>2. /\ index \in 0..TableSize /\ index < TableSize /\ index' = index + 1
      /\ bad' = IF bad = -1 /\ ~Valid(index) THEN index ELSE bad
      /\ image' = image /\ c' = c /\ resolved' = resolved /\ totals' = totals
      /\ loop' = loop
  BY <1>1 DEF CheckEntry, Checking, Valid, Entry
<1>3. image.Entry[index].Length # 0
  BY NullIsValid DEF CheckEntry, Entry
<1>4. \A i \in 0..index : image.Entry[i].Length # 0
  BY <1>1, <1>2, <1>3, Sizes DEF Checking
<1>5. NotedBelow(index)
  BY <1>1 DEF Checking
<1>6. NotedBelow(index)'
  <2>1. \A i : Valid(i)' = Valid(i)
    BY <1>2 DEF Valid
  <2>2. index \in Nat /\ index' - 1 = index
    BY <1>2, Sizes
  <2>3. CASE bad = -1 /\ Valid(index)
    BY <1>2, <1>5, <2>1, <2>2, <2>3 DEF NotedBelow
  <2>4. CASE bad = -1 /\ ~Valid(index)
    BY <1>2, <1>5, <2>1, <2>2, <2>4 DEF NotedBelow
  <2>5. CASE bad # -1
    BY <1>2, <1>5, <2>1, <2>2, <2>5 DEF NotedBelow
  <2> QED  BY <2>3, <2>4, <2>5
<1>7. Checking'
  <2>1. index' \in 0..TableSize /\ index' - 1 = index
    BY <1>2, Sizes
  <2> QED  BY <1>1, <1>2, <1>4, <1>6, <2>1 DEF Checking
<1> QED  BY <1>1, <1>2, <1>7 DEF LoopInv, CopyMatches

LEMMA CheckedInv == LoopInv /\ Checked => LoopInv'
<1> SUFFICES ASSUME LoopInv, Checked PROVE LoopInv'
  OBVIOUS
<1>1. Checking /\ loop = "check" /\ image \in Images
  BY DEF LoopInv, Checked
<1>2. /\ index' = 0 /\ image' = image /\ bad' = bad
      /\ resolved' = 0 /\ totals' = NoTotals
  BY <1>1 DEF Checked, Checking
<1>3. index = ActiveCount(image.Entry)
  <2>1. /\ index \in 0..TableSize
        /\ \A i \in 0..(index - 1) : image.Entry[i].Length # 0
        /\ index < TableSize => image.Entry[index].Length = 0
    BY <1>1 DEF Checking, Checked, Entry
  <2> QED  BY <2>1, StopsAtCount
<1>4. NotedBelow(ActiveCount(image.Entry))'
  <2>1. NotedBelow(ActiveCount(image.Entry))
    BY <1>1, <1>3 DEF Checking
  <2> QED  BY <1>2, <2>1 DEF NotedBelow, Valid
<1>5. CASE loop' = "refused"
  <2>1. bad # -1
    BY <1>5 DEF Checked
  <2> QED  BY <1>1, <1>2, <1>4, <1>5, <2>1 DEF LoopInv, CopyMatches
<1>6. CASE loop' = "copy"
  <2>1. /\ bad = -1
        /\ c' = [InitialControl EXCEPT !.Enabled = image.Enabled,
                                       !.Signature = image.Signature]
    BY <1>1, <1>6 DEF Checked, Checking
  <2>2. c' = CopiedBelow(0)'
    <3>1. InitialControl.Entry = [i \in Entries |->
            IF i < 0 THEN CopiedEntries(image)[i] ELSE NullControlEntry]
      <4>1. \A i \in Entries : ~(i < 0)
        BY Sizes DEF Entries
      <4> QED  BY <4>1 DEF InitialControl
    <3> QED  BY <1>2, <2>1, <3>1 DEF CopiedBelow, InitialControl, CopiedEntries
  <2>3. 0 \in 0..(IndexModulus - 1) /\ 0 <= TableSize
    BY TableLoopsAssumption, Sizes DEF TableLoopsAssumption
  <2>4. Copying'
    BY <1>2, <2>2, <2>3 DEF Copying
  <2> QED  BY <1>1, <1>2, <1>4, <1>6, <2>1, <2>4 DEF LoopInv, CopyMatches
<1> QED  BY <1>5, <1>6 DEF Checked

-----------------------------------------------------------------------------
(* The copy                                                                *)

(* The loop's variable, from one entry to the next.                        *)
LEMMA CopiedAddressStep ==
  ASSUME NEW entry, NEW i \in Entries, ~Resolvable(entry[i].SymName)
  PROVE  CopiedAddress(entry, i) =
           IF i = 0 THEN 0 ELSE CopiedAddress(entry, i - 1)
<1> DEFINE found(k) == {j \in 0..k : Resolvable(entry[j].SymName)}
<1>1. i \in Nat
  BY Sizes DEF Entries
<1>2. CASE i = 0
  <2>1. found(0) = {}
    BY <1>2
  <2> QED  BY <1>2, <2>1 DEF CopiedAddress
<1>3. CASE i # 0
  <2>1. found(i) = found(i - 1)
    BY <1>1, <1>3
  <2> QED  BY <1>3, <2>1 DEF CopiedAddress
<1> QED  BY <1>2, <1>3

LEMMA CopyEntryInv == LoopInv /\ CopyEntry => LoopInv'
<1> SUFFICES ASSUME LoopInv, CopyEntry PROVE LoopInv'
  OBVIOUS
<1>1. Copying /\ loop = "copy" /\ image \in Images
  BY DEF LoopInv, CopyEntry
<1>2. /\ index \in 0..(IndexModulus - 1) /\ index < TableSize
      /\ index' = (index + 1) % IndexModulus
      /\ loop' = loop /\ image' = image /\ bad' = bad /\ totals' = totals
  BY <1>1 DEF CopyEntry, Copying
<1>3. IndexModulus \in Nat /\ IndexModulus >= 1
  BY TableLoopsAssumption DEF TableLoopsAssumption
<1>4. index' \in 0..(IndexModulus - 1) /\ totals' = NoTotals
  BY <1>1, <1>2, <1>3, ModRange DEF Copying
<1>5. ASSUME IndexModulus > TableSize
      PROVE  /\ index' <= TableSize /\ c' = CopiedBelow(index)'
             /\ resolved' = IF index' = 0 THEN 0
                            ELSE CopiedAddress(image.Entry, index - 1)'
  <2>1. index' = index + 1 /\ index + 1 <= TableSize /\ index \in Entries
    BY <1>2, <1>3, <1>5, Sizes DEF Entries
  <2>2. /\ c = CopiedBelow(index)
        /\ resolved = IF index = 0 THEN 0
                      ELSE CopiedAddress(image.Entry, index - 1)
    BY <1>1, <1>5 DEF Copying
  <2>3. resolved' = CopiedAddress(image.Entry, index)
    <3>1. CASE Resolvable(Entry.SymName)
      BY <2>1, <3>1, CopiedAddressOwn DEF CopyEntry, Entry
    <3>2. CASE ~Resolvable(Entry.SymName)
      BY <2>1, <2>2, <3>2, CopiedAddressStep DEF CopyEntry, Entry
    <3> QED  BY <3>1, <3>2
  <2>4. index' # 0 /\ index' - 1 = index
    BY <1>2, <2>1
  <2>5. c' = CopiedBelow(index')
    <3> DEFINE below(n) == [i \in Entries |-> IF i < n THEN CopiedEntries(image)[i]
                                                      ELSE NullControlEntry]
    <3>1. c' = [c EXCEPT !.Entry[index] = CopiedEntries(image)[index]]
      BY <2>1, <2>3 DEF CopyEntry, CopiedEntries, Entry
    <3>2. below(index') = [below(index) EXCEPT ![index] = CopiedEntries(image)[index]]
      <4>1. \A i \in Entries : i < index' <=> i < index \/ i = index
        BY <1>2, <2>1 DEF Entries
      <4> HIDE DEF Entries
      <4> QED  BY <2>1, <4>1
    <3>3. c.Entry = below(index)
      BY <2>2 DEF CopiedBelow, InitialControl
    <3> HIDE DEF below
    <3>4. c' = [c EXCEPT !.Entry = below(index')]
      BY <3>1, <3>2, <3>3
    <3>5. \A n : CopiedBelow(n) =
                  [InitialControl EXCEPT !.Enabled = image.Enabled,
                     !.Signature = image.Signature, !.Entry = below(n)]
      BY DEF CopiedBelow, below
    <3> QED  BY <2>2, <3>4, <3>5 DEF InitialControl
  <2>6. CopiedBelow(index)' = CopiedBelow(index')
    BY <1>2 DEF CopiedBelow, CopiedEntries
  <2> QED  BY <1>2, <2>1, <2>3, <2>4, <2>5, <2>6
<1>6. Copying'
  BY <1>4, <1>5 DEF Copying
<1>7. NotedBelow(ActiveCount(image.Entry))'
  <2>1. NotedBelow(ActiveCount(image.Entry))
    BY <1>1 DEF LoopInv
  <2> QED  BY <1>2, <2>1 DEF NotedBelow, Valid
<1> QED  BY <1>1, <1>2, <1>6, <1>7 DEF LoopInv, CopyMatches

LEMMA CopiedInv == LoopInv /\ Copied => LoopInv'
<1> SUFFICES ASSUME LoopInv, Copied PROVE LoopInv'
  OBVIOUS
<1>1. Copying /\ loop = "copy" /\ image \in Images
  BY DEF LoopInv, Copied
<1>2. /\ index \in 0..(IndexModulus - 1) /\ index >= TableSize
      /\ index' = 0 /\ loop' = "add"
      /\ image' = image /\ bad' = bad /\ totals' = totals /\ c' = c
  BY <1>1 DEF Copied, Copying
<1>3. IndexModulus > TableSize
  BY <1>2, Sizes, TableLoopsAssumption DEF TableLoopsAssumption
<1>4. c = CopiedRecord(InitialControl, image)
  <2>1. index = TableSize /\ c = CopiedBelow(index)
    BY <1>1, <1>2, <1>3, Sizes DEF Copying
  <2>2. \A i \in Entries : i < TableSize
    BY Sizes DEF Entries
  <2>3. CopiedEntries(image) = [i \in Entries |->
          IF i < TableSize THEN CopiedEntries(image)[i] ELSE NullControlEntry]
    BY <2>2 DEF CopiedEntries
  <2> QED  BY <2>1, <2>3 DEF CopiedBelow, CopiedRecord
<1>5. totals = NoTotals /\ NoTotals = [addresses |-> 0, bytes |-> 0, delays |-> 0]
  BY <1>1 DEF Copying, NoTotals
<1>6. LengthSum(c.Entry)[0] = 0 /\ DelaySum(c.Entry)[0] = 0
  BY PrefixSumEquation DEF LengthSum, DelaySum
<1>7. 0 % Word = 0 /\ 0 \in 0..TableSize
  BY Sizes DEF Word
<1>8. Adding'
  BY <1>2, <1>4, <1>5, <1>6, <1>7 DEF Adding, CopiedRecord, CopiedEntries
<1>9. NotedBelow(ActiveCount(image.Entry))'
  <2>1. NotedBelow(ActiveCount(image.Entry))
    BY <1>1 DEF LoopInv
  <2> QED  BY <1>2, <2>1 DEF NotedBelow, Valid
<1> QED  BY <1>1, <1>2, <1>3, <1>8, <1>9 DEF LoopInv, CopyMatches

-----------------------------------------------------------------------------
(* The totals                                                              *)

LEMMA WordAdds ==
  ASSUME NEW a \in Nat, NEW b \in Nat
  PROVE  ((a % Word) + b) % Word = (a + b) % Word
BY DEF Word

LEMMA CopiedEntriesType ==
  ASSUME image \in Images
  PROVE  CopiedEntries(image) \in [Entries -> ControlEntry]
<1>1. image.Entry \in [Entries -> LoadEntry]
  BY TableLoopsAssumption DEF TableLoopsAssumption, TableImage
<1>2. ASSUME NEW i \in Entries PROVE CopiedEntries(image)[i] \in ControlEntry
  <2>1. image.Entry[i] \in LoadEntry  BY <1>1
  <2>2. CopiedAddress(image.Entry, i) \in Addresses  BY <1>1, CopiedAddressType
  <2> QED  BY <2>1, <2>2 DEF LoadEntry, ControlEntry, CopiedEntries
<1> QED  BY <1>2 DEF CopiedEntries

LEMMA AddEntryInv == LoopInv /\ AddEntry => LoopInv'
<1> SUFFICES ASSUME LoopInv, AddEntry PROVE LoopInv'
  OBVIOUS
<1>1. Adding /\ loop = "add" /\ image \in Images /\ IndexModulus > TableSize
  BY DEF LoopInv, AddEntry
<1>2. /\ index \in 0..TableSize /\ index < TableSize /\ index' = index + 1
      /\ c.Entry[index].Length # 0
      /\ loop' = loop /\ image' = image /\ bad' = bad /\ c' = c
      /\ c = CopiedRecord(InitialControl, image)
  BY <1>1 DEF AddEntry, Adding
<1> DEFINE e == c.Entry
<1>3. e \in [Entries -> ControlEntry] /\ index \in Entries
  <2>1. e = CopiedEntries(image)
    BY <1>2 DEF CopiedRecord, InitialControl
  <2> QED  BY <1>1, <1>2, <2>1, CopiedEntriesType, Sizes DEF Entries
<1>4. /\ index + 1 \in 0..TableSize
      /\ e[index].Length \in Nat /\ e[index].Delay \in Nat
  BY <1>2, <1>3, Sizes DEF ControlEntry, UINT16, Delays
<1>5. /\ LengthSum(e)[index + 1] = LengthSum(e)[index] + e[index].Length
      /\ DelaySum(e)[index + 1] = DelaySum(e)[index] + e[index].Delay
  BY <1>3, PrefixSumEquation DEF LengthSum, DelaySum
<1>6. /\ LengthSum(e)[index] \in Nat /\ DelaySum(e)[index] \in Nat
      /\ DelaySum(e)[index + 1] \in 0..(CountModulus - 1)
  BY <1>2, <1>3, <1>4, TotalsTypes
<1> HIDE DEF e
<1>7. totals' = [addresses |-> index + 1,
                 bytes  |-> LengthSum(e)[index + 1] % Word,
                 delays |-> DelaySum(e)[index + 1]]
  <2>1. totals = [addresses |-> index, bytes |-> LengthSum(e)[index] % Word,
                  delays |-> DelaySum(e)[index]]
    BY <1>1 DEF Adding, e
  <2>2. totals' = [addresses |-> (totals.addresses + 1) % Word,
                   bytes  |-> (totals.bytes + e[index].Length) % Word,
                   delays |-> (totals.delays + e[index].Delay) % CountModulus]
    BY DEF AddEntry, e
  <2>3. (index + 1) % Word = index + 1
    BY <1>4, DwellTablesAssumption DEF DwellTablesAssumption, Word
  <2>4. ((LengthSum(e)[index] % Word) + e[index].Length) % Word
          = LengthSum(e)[index + 1] % Word
    BY <1>4, <1>5, <1>6, WordAdds
  <2>5. (DelaySum(e)[index] + e[index].Delay) % CountModulus
          = DelaySum(e)[index + 1]
    BY <1>5, <1>6, Sizes
  <2> QED  BY <2>1, <2>2, <2>3, <2>4, <2>5
<1>8. \A i \in 0..index : e[i].Length # 0
  BY <1>1, <1>2, Sizes DEF Adding, e
<1>9. Adding'
  <2>1. index' - 1 = index
    BY <1>2, Sizes
  <2> QED  BY <1>2, <1>4, <1>7, <1>8, <2>1 DEF Adding, e
<1>10. NotedBelow(ActiveCount(image.Entry))'
  <2>1. NotedBelow(ActiveCount(image.Entry))
    BY <1>1 DEF LoopInv
  <2> QED  BY <1>2, <2>1 DEF NotedBelow, Valid
<1> QED  BY <1>1, <1>2, <1>9, <1>10 DEF LoopInv, CopyMatches

LEMMA AddedInv == LoopInv /\ Added => LoopInv'
<1> SUFFICES ASSUME LoopInv, Added PROVE LoopInv'
  OBVIOUS
<1>1. Adding /\ loop = "add" /\ image \in Images /\ IndexModulus > TableSize
  BY DEF LoopInv, Added
<1>2. /\ loop' = "done" /\ image' = image /\ bad' = bad
      /\ c = CopiedRecord(InitialControl, image)
      /\ c' = [c EXCEPT !.AddrCount = totals.addresses,
                        !.DataSize = totals.bytes, !.Rate = totals.delays]
  BY <1>1 DEF Added, Adding
<1>3. index = ActiveCount(c.Entry)
  <2>1. /\ index \in 0..TableSize
        /\ \A i \in 0..(index - 1) : c.Entry[i].Length # 0
        /\ index < TableSize => c.Entry[index].Length = 0
    BY <1>1 DEF Adding, Added
  <2> QED  BY <2>1, StopsAtCount
<1>4. c' = MD_UpdateDwellControlInfo(c)
  BY <1>1, <1>2, <1>3 DEF Adding, MD_UpdateDwellControlInfo
<1>5. CopyMatches'
  BY <1>2, <1>4, CopyUpdates DEF CopyMatches
<1>6. NotedBelow(ActiveCount(image.Entry))'
  <2>1. NotedBelow(ActiveCount(image.Entry))
    BY <1>1 DEF LoopInv
  <2> QED  BY <1>2, <2>1 DEF NotedBelow, Valid
<1> QED  BY <1>1, <1>2, <1>5, <1>6 DEF LoopInv

LEMMA LoopNext == LoopInv /\ [Next]_vars => LoopInv'
<1> SUFFICES ASSUME LoopInv, [Next]_vars PROVE LoopInv'
  OBVIOUS
<1>1. CASE Next
  BY <1>1, CheckEntryInv, CheckedInv, CopyEntryInv, CopiedInv, AddEntryInv,
     AddedInv DEF Next
<1>2. CASE UNCHANGED vars
  <2>1. /\ image' = image /\ loop' = loop /\ bad' = bad /\ c' = c
        /\ index' = index /\ totals' = totals /\ resolved' = resolved
    BY <1>2 DEF vars
  <2>2. /\ NotedBelow(index)' <=> NotedBelow(index)
        /\ NotedBelow(ActiveCount(image.Entry))' <=> NotedBelow(ActiveCount(image.Entry))
    BY <2>1 DEF NotedBelow, Valid
  <2>3. CopiedBelow(index)' = CopiedBelow(index)
    BY <2>1 DEF CopiedBelow, CopiedEntries
  <2>4. /\ Checking' <=> Checking
        /\ Copying' <=> Copying
        /\ Adding' <=> Adding
        /\ CopyMatches' <=> CopyMatches
    BY <2>1, <2>2, <2>3 DEF Checking, Copying, Adding, CopyMatches
  <2> QED  BY <2>1, <2>2, <2>4 DEF LoopInv
<1> QED  BY <1>1, <1>2

LEMMA LoopInvariant == Spec => []LoopInv
BY LoopInit, LoopNext, PTL DEF Spec

-----------------------------------------------------------------------------
(* What the loops compute                                                  *)

LEMMA NoteIsFirst ==
  ASSUME NEW n \in 0..TableSize, NotedBelow(n)
  PROVE  LET wrong == {i \in 0..(n - 1) : ~Valid(i)}
         IN  bad = IF wrong = {} THEN -1 ELSE Min(wrong)
<1> DEFINE wrong == {i \in 0..(n - 1) : ~Valid(i)}
<1>1. CASE bad = -1 /\ \A i \in 0..(n - 1) : Valid(i)
  <2>1. wrong = {}
    BY <1>1
  <2> QED  BY <1>1, <2>1
<1>2. CASE bad \in 0..(n - 1) /\ ~Valid(bad) /\ \A i \in 0..(bad - 1) : Valid(i)
  <2>1. bad \in wrong /\ \A i \in wrong : bad <= i
    BY <1>2, Sizes
  <2>2. \A i \in wrong : i \in Int
    BY Sizes
  <2> HIDE DEF wrong
  <2>3. Min(wrong) \in wrong /\ \A i \in wrong : Min(wrong) <= i
    BY <2>1 DEF Min
  <2>4. bad = Min(wrong)
    BY <2>1, <2>2, <2>3
  <2> QED  BY <2>1, <2>4 DEF wrong
<1> QED  BY <1>1, <1>2 DEF NotedBelow

(* MD_CheckTableEntries reports the first bad entry of any table, and      *)
(* refuses the table if and only if it has one among its active entries.   *)
THEOREM ChecksFindFirst == Spec => []CheckFindsFirst
<1>1. ASSUME LoopInv, loop # "check" PROVE CheckFindsFirst
  <2> DEFINE n == ActiveCount(image.Entry)
  <2>1. n \in 0..TableSize
    BY ActiveCountFacts
  <2>2. NotedBelow(n) /\ (loop = "refused" <=> bad # -1)
    BY <1>1 DEF LoopInv
  <2>3. \A i : i \in 0..(n - 1) <=> i \in Entries /\ i < n
    BY <2>1, Sizes DEF Entries
  <2> HIDE DEF n
  <2>4. bad = -1 <=> \A i \in 0..(n - 1) : Valid(i)
    BY <2>1, <2>2, Sizes DEF NotedBelow
  <2>5. MD_CheckTableEntries(image.Entry) <=> \A i \in 0..(n - 1) : Valid(i)
    BY <2>3 DEF MD_CheckTableEntries, Valid, n
  <2> QED  BY <2>1, <2>2, <2>4, <2>5, NoteIsFirst DEF CheckFindsFirst, Valid, n
<1>2. LoopInv => CheckFindsFirst
  BY <1>1 DEF CheckFindsFirst
<1> QED  BY <1>2, LoopInvariant, PTL

(* The loops of MD_CopyUpdatedTbl and MD_UpdateDwellControlInfo leave the  *)
(* record that the operators of DwellTables say, for any table.            *)
THEOREM CopiesMatch == Spec => []CopyMatches
<1>1. LoopInv => CopyMatches
  BY DEF LoopInv
<1> QED  BY <1>1, LoopInvariant, PTL

(* With an index that can count a table's entries, every iteration brings  *)
(* the end nearer: no load takes more than 4 * TableSize + 3 of them.      *)
THEOREM LoopsApproachEnd ==
  ASSUME IndexModulus > TableSize
  PROVE  Spec => EndNears
<1>1. ASSUME LoopInv, Next
      PROVE  Left' < Left /\ Left' \in Nat
  <2>1. TableSize \in Nat
    BY Sizes
  <2>2. CASE CheckEntry
    <3>1. loop = "check" /\ loop' = "check" /\ index \in 0..(TableSize - 1) /\ index' = index + 1
      BY <1>1, <2>1, <2>2 DEF LoopInv, CheckEntry, Checking
    <3> QED  BY <2>1, <3>1 DEF Left, LoopsLeft
  <2>3. CASE Checked
    <3>1. loop = "check" /\ loop' \in {"copy", "refused"} /\ index \in 0..TableSize /\ index' = 0
      BY <1>1, <2>1, <2>3 DEF LoopInv, Checked, Checking
    <3> QED  BY <2>1, <3>1 DEF Left, LoopsLeft
  <2>4. CASE CopyEntry
    <3>1. loop = "copy" /\ loop' = "copy" /\ index \in 0..(TableSize - 1)
      BY <1>1, <2>1, <2>4 DEF LoopInv, CopyEntry, Copying
    <3>2. index' = index + 1
      BY <2>1, <2>4, <3>1, TableLoopsAssumption DEF TableLoopsAssumption, CopyEntry
    <3> QED  BY <2>1, <3>1, <3>2 DEF Left, LoopsLeft
  <2>5. CASE Copied
    <3>1. loop = "copy" /\ loop' = "add" /\ index = TableSize /\ index' = 0
      BY <1>1, <2>1, <2>5 DEF LoopInv, Copied, Copying
    <3> QED  BY <2>1, <3>1 DEF Left, LoopsLeft
  <2>6. CASE AddEntry
    <3>1. loop = "add" /\ loop' = "add" /\ index \in 0..(TableSize - 1) /\ index' = index + 1
      BY <1>1, <2>1, <2>6 DEF LoopInv, AddEntry, Adding
    <3> QED  BY <2>1, <3>1 DEF Left, LoopsLeft
  <2>7. CASE Added
    <3>1. loop = "add" /\ loop' = "done" /\ index \in 0..TableSize
      BY <1>1, <2>1, <2>7 DEF LoopInv, Added, Adding
    <3> QED  BY <2>1, <3>1 DEF Left, LoopsLeft
  <2> QED  BY <1>1, <2>2, <2>3, <2>4, <2>5, <2>6, <2>7 DEF Next
<1>2. LoopInv /\ [Next]_vars => [Left' < Left /\ Left' \in Nat]_vars
  BY <1>1
<1> QED  BY <1>2, LoopInvariant, PTL DEF Spec, EndNears
=============================================================================
