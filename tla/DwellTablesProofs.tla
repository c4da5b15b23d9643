------------------------- MODULE DwellTablesProofs -------------------------
(***************************************************************************)
(* Facts about the operators of DwellTables, proved for every number and   *)
(* size of dwell tables: the count of active entries and the sums over     *)
(* them exist and are what their definitions ask, and each update of a     *)
(* control record yields a control record.                                 *)
(***************************************************************************)
EXTENDS DwellTables, WellFoundedInduction, TLAPS

-----------------------------------------------------------------------------
(* The assumption on the constants, in the forms the proofs use            *)

LEMMA Sizes ==
  /\ TableSize \in Nat /\ TableSize >= 1
  /\ NumTables \in Nat /\ NumTables >= 1
  /\ MaxDelay \in Nat
  /\ CountModulus \in Nat /\ CountModulus > 1
  /\ TableSize * MaxDelay \in Nat /\ CountModulus > TableSize * MaxDelay
  /\ AddrModulus \in Nat /\ AddrModulus >= 1
  /\ Word \in Nat /\ Word >= 1
<1>1. TableSize \in 1..255 /\ MaxDelay \in Nat /\ NumTables \in 1..16
  BY DwellTablesAssumption DEF DwellTablesAssumption
<1>2. TableSize \in Nat /\ TableSize >= 1 /\ NumTables \in Nat /\ NumTables >= 1
  BY <1>1
<1>3. TableSize * MaxDelay \in Nat
  BY <1>1, <1>2
<1>4. CountModulus \in Nat /\ CountModulus > 1 /\ CountModulus > TableSize * MaxDelay
  BY <1>3, DwellTablesAssumption DEF DwellTablesAssumption
<1>5. AddrModulus \in Nat /\ AddrModulus >= 1
  BY DwellTablesAssumption DEF DwellTablesAssumption
<1>6. Word \in Nat /\ Word >= 1
  BY DEF Word
<1> QED  BY <1>1, <1>2, <1>3, <1>4, <1>5, <1>6

LEMMA ModRange ==
  ASSUME NEW k \in Int, NEW m \in Nat, m >= 1
  PROVE  k % m \in 0..(m - 1)
PROOF OBVIOUS

LEMMA WordRange ==
  ASSUME NEW k \in Int
  PROVE  k % Word \in UINT16
BY ModRange, Sizes DEF UINT16

-----------------------------------------------------------------------------
(* Least and greatest elements                                             *)

(* Every non-empty set of natural numbers has a least element: the form in *)
(* which the proofs below argue by induction over entry indices.           *)
LEMMA LeastNat ==
  ASSUME NEW T \in SUBSET Nat, T # {}
  PROVE  \E m \in T : \A k \in T : m <= k
<1>1. PICK x \in T : \A y \in T : ~(<<y, x>> \in OpToRel(<, Nat))
  BY NatLessThanWellFounded, WFMin
<1>2. \A y \in T : ~(y < x)
  BY <1>1 DEF OpToRel
<1>3. \A y \in T : x <= y
  BY <1>2
<1> QED  BY <1>3

(* A bounded one has a greatest element, which Max returns.                *)
LEMMA GreatestNat ==
  ASSUME NEW n \in Nat, NEW T \in SUBSET (0..n), T # {}
  PROVE  Max(T) \in T /\ \A k \in T : k <= Max(T)
<1> DEFINE D == {d \in 0..n : n - d \in T}
<1>1. D \in SUBSET Nat /\ D # {}
  <2>1. PICK k \in T : TRUE  OBVIOUS
  <2>2. n - k \in 0..n /\ n - (n - k) = k  BY <2>1
  <2>3. n - k \in D  BY <2>1, <2>2
  <2>4. D \in SUBSET Nat  OBVIOUS
  <2> HIDE DEF D
  <2> QED  BY <2>3, <2>4
<1>2. PICK d \in D : \A k \in D : d <= k
  BY <1>1, LeastNat
<1>3. n - d \in T /\ \A k \in T : k <= n - d
  <2>1. \A k \in T : n - k \in D  OBVIOUS
  <2> QED  BY <1>2, <2>1
<1>4. \E x \in T : \A y \in T : x >= y
  <2> WITNESS n - d \in T
  <2> QED  BY <1>3
<1> QED  BY <1>4 DEF Max

-----------------------------------------------------------------------------
(* Sums                                                                    *)

(* PrefixSum's recursion has a solution on 0..m for every m: else there is *)
(* a least m without one, which extending the solution for m - 1 refutes.  *)
LEMMA PrefixSumExists ==
  ASSUME NEW v, NEW N \in Nat
  PROVE  \E f : f = [n \in 0..N |-> IF n = 0 THEN 0 ELSE f[n - 1] + v[n - 1]]
<1> DEFINE Solves(f, m) ==
      f = [n \in 0..m |-> IF n = 0 THEN 0 ELSE f[n - 1] + v[n - 1]]
           Bad == {m \in 0..N : \A f : ~Solves(f, m)}
<1>1. SUFFICES Bad = {}  
  OBVIOUS
<1>2. SUFFICES ASSUME Bad # {} PROVE FALSE
  OBVIOUS
<1>3. PICK m \in Bad : \A k \in Bad : m <= k
  <2>1. Bad \in SUBSET Nat  OBVIOUS
  <2> QED  BY <1>2, <2>1, LeastNat
<1>4. CASE m = 0
  <2>1. Solves([n \in 0..0 |-> 0], 0)  OBVIOUS
  <2> QED  BY <1>3, <1>4, <2>1
<1>5. CASE m # 0
  <2>1. m - 1 \in 0..N /\ m - 1 \notin Bad
    BY <1>3, <1>5
  <2>2. PICK g : Solves(g, m - 1)
    BY <2>1
  <2> DEFINE f == [n \in 0..m |-> IF n = m THEN g[m - 1] + v[m - 1] ELSE g[n]]
  <2>3. ASSUME NEW n \in 0..m
        PROVE  f[n] = IF n = 0 THEN 0 ELSE f[n - 1] + v[n - 1]
    <3>1. CASE n = m
      <4>1. f[n - 1] = g[m - 1]  BY <1>5, <3>1
      <4> QED  BY <1>5, <3>1, <4>1
    <3>2. CASE n # m /\ n # 0
      <4>1. n \in 0..(m - 1) /\ n - 1 \in 0..m /\ n - 1 # m  BY <3>2
      <4>2. g[n] = g[n - 1] + v[n - 1]  BY <2>2, <3>2, <4>1
      <4> QED  BY <3>2, <4>1, <4>2
    <3>3. CASE n # m /\ n = 0
      <4>1. n \in 0..(m - 1)  BY <3>3
      <4>2. g[n] = 0  BY <2>2, <3>3, <4>1
      <4> QED  BY <3>3, <4>2
    <3> QED  BY <3>1, <3>2, <3>3
  <2>4. Solves(f, m)
    BY <2>3
  <2> QED  BY <1>3, <2>4
<1> QED  BY <1>4, <1>5

LEMMA PrefixSumEquation ==
  ASSUME NEW v
  PROVE  /\ PrefixSum(v)[0] = 0
         /\ \A n \in Entries : PrefixSum(v)[n + 1] = PrefixSum(v)[n] + v[n]
<1> DEFINE sum == PrefixSum(v)
<1>1. sum = [n \in 0..TableSize |-> IF n = 0 THEN 0 ELSE sum[n - 1] + v[n - 1]]
  <2>1. TableSize \in Nat  BY DwellTablesAssumption DEF DwellTablesAssumption
  <2>2. \E f : f = [n \in 0..TableSize |-> IF n = 0 THEN 0 ELSE f[n - 1] + v[n - 1]]
    BY <2>1, PrefixSumExists
  <2> QED  BY <2>2 DEF PrefixSum
<1>2. sum[0] = 0
  <2>1. 0 \in 0..TableSize  BY DwellTablesAssumption DEF DwellTablesAssumption
  <2> QED  BY <1>1, <2>1
<1>3. ASSUME NEW n \in Entries PROVE sum[n + 1] = sum[n] + v[n]
  <2>1. n + 1 \in 0..TableSize /\ n + 1 # 0 /\ (n + 1) - 1 = n
    BY Sizes DEF Entries
  <2> QED  BY <1>1, <2>1
<1> QED  BY <1>2, <1>3

(* Sums of values of at most B are natural numbers that grow by at most B. *)
LEMMA PrefixSumBound ==
  ASSUME NEW B \in Nat, NEW v \in [Entries -> 0..B]
  PROVE  \A n \in 0..TableSize : PrefixSum(v)[n] \in 0..(n * B)
<1> DEFINE Bad == {n \in 0..TableSize : PrefixSum(v)[n] \notin 0..(n * B)}
<1>1. SUFFICES ASSUME Bad # {} PROVE FALSE
  OBVIOUS
<1>2. PICK m \in Bad : \A k \in Bad : m <= k
  <2>1. Bad \in SUBSET Nat  OBVIOUS
  <2> QED  BY <1>1, <2>1, LeastNat
<1>3. m # 0
  <2>1. PrefixSum(v)[0] \in 0..(0 * B)  BY PrefixSumEquation
  <2> QED  BY <1>2, <2>1
<1>4. m - 1 \in Entries /\ m - 1 \in 0..TableSize /\ m - 1 \notin Bad
  <2>1. m \in 0..TableSize  BY <1>2
  <2>2. m - 1 \in 0..(TableSize - 1) /\ m - 1 \in 0..TableSize /\ ~(m <= m - 1)
    BY <1>3, <2>1, Sizes
  <2> QED  BY <1>2, <2>2 DEF Entries
<1>5. PrefixSum(v)[m - 1] \in 0..((m - 1) * B) /\ v[m - 1] \in 0..B
  BY <1>4
<1>6. PrefixSum(v)[m] = PrefixSum(v)[m - 1] + v[m - 1]
  <2>1. (m - 1) + 1 = m  BY <1>2, <1>4
  <2> QED  BY <1>4, <2>1, PrefixSumEquation
<1>7. (m - 1) * B + B = m * B
  BY <1>2
<1>8. PrefixSum(v)[m] \in 0..(m * B)
  <2>1. (m - 1) * B \in Int /\ m * B \in Int  BY <1>2
  <2> QED  BY <1>5, <1>6, <1>7, <2>1
<1> QED  BY <1>2, <1>8

(* Zeros add up to zero.                                                   *)
LEMMA PrefixSumZero ==
  ASSUME NEW v, NEW n \in 0..TableSize, \A i \in 0..(n - 1) : v[i] = 0
  PROVE  PrefixSum(v)[n] = 0
<1> DEFINE Bad == {k \in 0..n : PrefixSum(v)[k] # 0}
<1>1. SUFFICES ASSUME Bad # {} PROVE FALSE
  BY DwellTablesAssumption DEF DwellTablesAssumption
<1>2. PICK m \in Bad : \A k \in Bad : m <= k
  <2>1. Bad \in SUBSET Nat  OBVIOUS
  <2> QED  BY <1>1, <2>1, LeastNat
<1>3. m # 0
  BY <1>2, PrefixSumEquation
<1>4. m - 1 \in Entries /\ m - 1 \in 0..(n - 1) /\ m - 1 \in 0..n /\ m - 1 \notin Bad
  BY <1>2, <1>3, Sizes DEF Entries
<1>5. PrefixSum(v)[m] = PrefixSum(v)[m - 1] + v[m - 1]
  <2>1. (m - 1) + 1 = m  BY <1>2, <1>4
  <2> QED  BY <1>4, <2>1, PrefixSumEquation
<1>6. PrefixSum(v)[m] = 0
  BY <1>4, <1>5
<1> QED  BY <1>2, <1>6

-----------------------------------------------------------------------------
(* The active entries of a table                                           *)

(* The count of active entries is that of the entries before the first     *)
(* null one, or the table's size: the loop of MD_UpdateDwellControlInfo    *)
(* stops there.                                                            *)
LEMMA ActiveCountFacts ==
  ASSUME NEW entry
  PROVE  /\ ActiveCount(entry) \in 0..TableSize
         /\ \A i \in 0..(ActiveCount(entry) - 1) : entry[i].Length # 0
         /\ ActiveCount(entry) < TableSize =>
              entry[ActiveCount(entry)].Length = 0
<1> DEFINE Stops == {n \in 0..TableSize : n < TableSize => entry[n].Length = 0}
<1>1. TableSize \in Stops
  BY DwellTablesAssumption DEF DwellTablesAssumption
<1>2. PICK m \in Stops : \A k \in Stops : m <= k
  <2>1. Stops \in SUBSET Nat  OBVIOUS
  <2> QED  BY <1>1, <2>1, LeastNat
<1>3. \A i \in 0..(m - 1) : entry[i].Length # 0
  BY <1>2, DwellTablesAssumption DEF DwellTablesAssumption
<1>4. \E n \in 0..TableSize :
        /\ \A i \in 0..(n - 1) : entry[i].Length # 0
        /\ n < TableSize => entry[n].Length = 0
  BY <1>2, <1>3
<1> QED  BY <1>4 DEF ActiveCount

(* The sums over the entries of a control record, in the record's ranges.  *)
LEMMA TotalsTypes ==
  ASSUME NEW entry \in [Entries -> ControlEntry], NEW n \in 0..TableSize
  PROVE  /\ LengthSum(entry)[n] \in Nat
         /\ DelaySum(entry)[n] \in 0..(CountModulus - 1)
<1>1. MaxDelay \in Nat /\ TableSize \in Nat /\ n \in Nat /\ n <= TableSize
  BY Sizes
<1>2. [i \in Entries |-> entry[i].Length] \in [Entries -> 0..(Word - 1)]
  <2>1. ASSUME NEW i \in Entries PROVE entry[i].Length \in 0..(Word - 1)
    <3>1. entry[i] \in ControlEntry  OBVIOUS
    <3> QED  BY <3>1 DEF ControlEntry, UINT16
  <2> QED  BY <2>1
<1>3. [i \in Entries |-> entry[i].Delay] \in [Entries -> 0..MaxDelay]
  <2>1. ASSUME NEW i \in Entries PROVE entry[i].Delay \in 0..MaxDelay
    <3>1. entry[i] \in ControlEntry  OBVIOUS
    <3> QED  BY <3>1 DEF ControlEntry, Delays
  <2> QED  BY <2>1
<1>4. LengthSum(entry)[n] \in 0..(n * (Word - 1))
  <2>1. Word - 1 \in Nat  BY Sizes
  <2>2. \A k \in 0..TableSize : LengthSum(entry)[k] \in 0..(k * (Word - 1))
    BY <1>2, <2>1, PrefixSumBound DEF LengthSum
  <2> QED  BY <2>2
<1>5. DelaySum(entry)[n] \in 0..(n * MaxDelay)
  BY <1>1, <1>3, PrefixSumBound DEF DelaySum
<1>6. n * MaxDelay <= TableSize * MaxDelay
  BY <1>1
<1>7. n * MaxDelay \in Nat /\ n * (Word - 1) \in Nat /\ TableSize * MaxDelay \in Nat
  BY <1>1, Sizes
<1> QED  BY <1>4, <1>5, <1>6, <1>7, Sizes

(* A delay fits the countdown.                                             *)
LEMMA DelaysCount == Delays \subseteq 0..(CountModulus - 1)
<1>1. TableSize * MaxDelay >= MaxDelay
  BY Sizes
<1> QED  BY <1>1, Sizes DEF Delays

-----------------------------------------------------------------------------
(* Updates of a control record yield control records                       *)

LEMMA UpdateInfoType ==
  ASSUME NEW c \in ControlRecord
  PROVE  MD_UpdateDwellControlInfo(c) \in ControlRecord
<1>1. c.Entry \in [Entries -> ControlEntry]
  BY DEF ControlRecord
<1> DEFINE n == ActiveCount(c.Entry)
<1>2. n \in 0..TableSize
  BY ActiveCountFacts
<1>3. LengthSum(c.Entry)[n] % Word \in UINT16
  <2>1. LengthSum(c.Entry)[n] \in Int  BY <1>1, <1>2, TotalsTypes
  <2> HIDE DEF n
  <2> QED  BY <2>1, ModRange, Sizes DEF UINT16
<1>4. DelaySum(c.Entry)[n] \in 0..(CountModulus - 1)
  BY <1>1, <1>2, TotalsTypes
<1>5. MD_UpdateDwellControlInfo(c) =
        [c EXCEPT !.AddrCount = n, !.DataSize = LengthSum(c.Entry)[n] % Word,
                  !.Rate = DelaySum(c.Entry)[n]]
  BY DEF MD_UpdateDwellControlInfo
<1> HIDE DEF n
<1> QED  BY <1>2, <1>3, <1>4, <1>5 DEF ControlRecord

(* A symbolic address that resolves gives an address.                      *)
LEMMA ResolveType ==
  ASSUME NEW sym, Resolvable(sym), NEW offset \in Addresses
  PROVE  MD_ResolveSymAddr(sym, offset) \in Addresses
<1>1. AddrModulus \in Nat \ {0}
  BY DwellTablesAssumption DEF DwellTablesAssumption
<1>2. CASE sym = NullSymbol
  BY <1>2 DEF MD_ResolveSymAddr
<1>3. CASE sym # NullSymbol
  <2>1. SymbolTable[sym] \in 0..(AddrModulus - 1)
    BY <1>3, DwellTablesAssumption DEF DwellTablesAssumption, Resolvable
  <2>2. SymbolTable[sym] + offset \in Nat
    BY <1>1, <2>1 DEF Addresses
  <2>3. (SymbolTable[sym] + offset) % AddrModulus \in 0..(AddrModulus - 1)
    BY <1>1, <2>2
  <2> QED  BY <1>3, <2>3 DEF MD_ResolveSymAddr, Addresses
<1> QED  BY <1>2, <1>3

LEMMA CopiedAddressType ==
  ASSUME NEW entry \in [Entries -> LoadEntry], NEW i \in Entries
  PROVE  CopiedAddress(entry, i) \in Addresses
<1> DEFINE resolved == {j \in 0..i : Resolvable(entry[j].SymName)}
           last == Max(resolved)
<1>1. TableSize \in Nat /\ i \in Nat /\ 0..i \subseteq Entries
  BY Sizes DEF Entries
<1>2. CASE resolved = {}
  <2>1. 0 \in Addresses
    BY Sizes DEF Addresses
  <2> QED  BY <1>2, <2>1 DEF CopiedAddress
<1>3. CASE resolved # {}
  <2>1. last \in resolved
    <3>1. resolved \in SUBSET (0..i)  OBVIOUS
    <3> HIDE DEF resolved
    <3> QED  BY <1>1, <1>3, <3>1, GreatestNat
  <2>2. entry[last] \in LoadEntry /\ Resolvable(entry[last].SymName)
    BY <1>1, <2>1
  <2>3. entry[last].Offset \in Addresses
    BY <2>2 DEF LoadEntry
  <2>4. MD_ResolveSymAddr(entry[last].SymName, entry[last].Offset) \in Addresses
    BY <2>2, <2>3, ResolveType
  <2> QED  BY <1>3, <2>4 DEF CopiedAddress
<1> QED  BY <1>2, <1>3

(* An entry whose own name resolves gets its own address.                  *)
LEMMA CopiedAddressOwn ==
  ASSUME NEW entry, NEW i \in Entries, Resolvable(entry[i].SymName)
  PROVE  CopiedAddress(entry, i) =
           MD_ResolveSymAddr(entry[i].SymName, entry[i].Offset)
<1> DEFINE resolved == {j \in 0..i : Resolvable(entry[j].SymName)}
<1>1. i \in Nat
  BY Sizes DEF Entries
<1>2. i \in resolved
  BY <1>1
<1>3. Max(resolved) \in resolved /\ \A k \in resolved : k <= Max(resolved)
  <2>1. resolved \in SUBSET (0..i)  OBVIOUS
  <2> HIDE DEF resolved
  <2> QED  BY <1>1, <1>2, <2>1, GreatestNat
<1>4. Max(resolved) = i
  BY <1>1, <1>2, <1>3
<1> QED  BY <1>2, <1>4 DEF CopiedAddress

(* The record MD_CopyUpdatedTbl has before it brings the totals up to date. *)
CopiedEntries(image) ==
  [i \in Entries |->
    [Length |-> image.Entry[i].Length, Delay |-> image.Entry[i].Delay,
     ResolvedAddress |-> CopiedAddress(image.Entry, i)]]

CopiedRecord(c, image) ==
  [c EXCEPT !.Enabled = image.Enabled, !.Signature = image.Signature,
            !.Entry = CopiedEntries(image)]

LEMMA CopiedRecordType ==
  ASSUME NEW c \in ControlRecord, NEW image \in BufferImage
  PROVE  CopiedRecord(c, image) \in ControlRecord
<1>1. image.Entry \in [Entries -> LoadEntry]
  BY DEF BufferImage
<1>2. CopiedEntries(image) \in [Entries -> ControlEntry]
  <2>1. ASSUME NEW i \in Entries PROVE CopiedEntries(image)[i] \in ControlEntry
    <3>1. image.Entry[i] \in LoadEntry  BY <1>1
    <3>2. CopiedAddress(image.Entry, i) \in Addresses  BY <1>1, CopiedAddressType
    <3> QED  BY <3>1, <3>2 DEF LoadEntry, ControlEntry, CopiedEntries
  <2> QED  BY <2>1 DEF CopiedEntries
<1> QED  BY <1>2 DEF ControlRecord, BufferImage, CopiedRecord

LEMMA CopyUpdates ==
  ASSUME NEW c, NEW image
  PROVE  MD_CopyUpdatedTbl(c, image) =
           MD_UpdateDwellControlInfo(CopiedRecord(c, image))
BY DEF MD_CopyUpdatedTbl, CopiedRecord, CopiedEntries

LEMMA CopyType ==
  ASSUME NEW c \in ControlRecord, NEW image \in BufferImage
  PROVE  MD_CopyUpdatedTbl(c, image) \in ControlRecord
BY CopyUpdates, CopiedRecordType, UpdateInfoType

LEMMA StartStreamType ==
  ASSUME NEW c \in ControlRecord
  PROVE  MD_StartDwellStream(c) \in ControlRecord
<1>1. 1 \in 0..(CountModulus - 1) /\ 0 \in 0..TableSize /\ 0 \in UINT16
  BY Sizes DEF UINT16
<1> QED  BY <1>1 DEF MD_StartDwellStream, ControlRecord

LEMMA SwitchTypes ==
  ASSUME NEW c \in ControlRecord
  PROVE  Started(c) \in ControlRecord /\ Stopped(c) \in ControlRecord
<1>1. MD_StartDwellStream(c) \in ControlRecord
  BY StartStreamType
<1>2. 0 \in 0..(CountModulus - 1) /\ 0 \in 0..TableSize /\ 0 \in UINT16
  BY Sizes DEF UINT16
<1> QED  BY <1>1, <1>2 DEF Started, Stopped, ControlRecord

LEMMA ActivatedType ==
  ASSUME NEW c \in ControlRecord, NEW image \in BufferImage
  PROVE  Activated(c, image) \in ControlRecord
BY CopyType, StartStreamType DEF Activated

LEMMA InitialControlType == InitialControl \in ControlRecord
<1>1. /\ 0 \in 0..(CountModulus - 1) /\ 1 \in 0..(CountModulus - 1)
      /\ 0 \in 0..TableSize /\ 0 \in UINT16 /\ 0 \in Delays /\ 0 \in Addresses
  BY Sizes DEF UINT16, Delays, Addresses
<1>2. NullControlEntry \in ControlEntry
  BY <1>1 DEF NullControlEntry, ControlEntry
<1>3. [i \in Entries |-> NullControlEntry] \in [Entries -> ControlEntry]
  BY <1>2
<1>4. NoSignature \in Signatures
  BY DwellTablesAssumption DEF DwellTablesAssumption
<1> QED  BY <1>1, <1>3, <1>4 DEF InitialControl, ControlRecord

-----------------------------------------------------------------------------
(* Images                                                                  *)

LEMMA NullLoadEntryType == NullLoadEntry \in LoadEntry
<1>1. 0 \in UINT16 /\ 0 \in Delays /\ 0 \in Addresses
  BY Sizes DEF UINT16, Delays, Addresses
<1>2. NullSymbol \in SymbolNames
  BY DwellTablesAssumption DEF DwellTablesAssumption
<1> QED  BY <1>1, <1>2 DEF NullLoadEntry, LoadEntry

LEMMA DefaultTableType ==
  ASSUME NEW signature \in Signatures
  PROVE  DefaultTable(signature) \in BufferImage
BY NullLoadEntryType DEF DefaultTable, BufferImage

LEMMA ValidImageType ==
  ASSUME NEW image \in TableImage, MD_TableValidationFunc(image)
  PROVE  image \in BufferImage
BY DEF MD_TableValidationFunc, TableImage, BufferImage

-----------------------------------------------------------------------------
(* A valid Jam command writes an entry of a table that exists              *)

LEMMA JamTypes ==
  ASSUME NEW jam \in JamPayload, ValidJam(jam)
  PROVE  /\ jam.TableId - 1 \in Tables
         /\ jam.EntryId - 1 \in Entries
         /\ JammedEntry(jam) \in ControlEntry
         /\ JammedLoadEntry(jam) \in LoadEntry
<1>1. jam.TableId - 1 \in Tables /\ jam.EntryId - 1 \in Entries
  BY Sizes DEF ValidJam, MD_ValidTableId, MD_ValidEntryId, Tables, Entries
<1>2. JammedEntry(jam) \in ControlEntry
  <2>1. CASE jam.FieldLength = 0
    <3>1. 0 \in UINT16 /\ 0 \in Delays /\ 0 \in Addresses
      BY Sizes DEF UINT16, Delays, Addresses
    <3> QED  BY <2>1, <3>1 DEF JammedEntry, NullControlEntry, ControlEntry
  <2>2. CASE jam.FieldLength # 0
    <3>1. Resolvable(jam.SymName)
      BY <2>2 DEF ValidJam, ValidField
    <3>2. jam.Offset \in Addresses
      BY DEF JamPayload
    <3>3. MD_ResolveSymAddr(jam.SymName, jam.Offset) \in Addresses
      BY <3>1, <3>2, ResolveType
    <3> QED  BY <2>2, <3>3 DEF JammedEntry, ControlEntry, JamPayload
  <2> QED  BY <2>1, <2>2
<1>3. JammedLoadEntry(jam) \in LoadEntry
  BY NullLoadEntryType DEF JammedLoadEntry, LoadEntry, JamPayload
<1> QED  BY <1>1, <1>2, <1>3

-----------------------------------------------------------------------------
(* Totals                                                                  *)

(* A table with no active entry has a zero Rate, and so is not run.        *)
RateNeedsEntries(c) == c.Rate > 0 => c.AddrCount \in 1..TableSize

LEMMA UpdateInfoRate ==
  ASSUME NEW c \in ControlRecord
  PROVE  RateNeedsEntries(MD_UpdateDwellControlInfo(c))
<1> DEFINE n == ActiveCount(c.Entry)
           u == MD_UpdateDwellControlInfo(c)
<1>1. u.AddrCount = n /\ u.Rate = DelaySum(c.Entry)[n]
  BY DEF MD_UpdateDwellControlInfo, ControlRecord
<1>2. n \in 0..TableSize
  BY ActiveCountFacts
<1>3. DelaySum(c.Entry)[0] = 0
  BY PrefixSumEquation DEF DelaySum
<1> HIDE DEF n, u
<1>4. CASE n = 0
  BY <1>1, <1>3, <1>4 DEF RateNeedsEntries, u
<1>5. CASE n # 0
  <2>1. n \in 1..TableSize  BY <1>2, <1>5, Sizes
  <2> QED  BY <1>1, <2>1 DEF RateNeedsEntries, u
<1> QED  BY <1>4, <1>5

(* Starting, stopping and the loop itself leave the totals alone.          *)
LEMMA SwitchRate ==
  ASSUME NEW c \in ControlRecord, RateNeedsEntries(c)
  PROVE  /\ RateNeedsEntries(MD_StartDwellStream(c))
         /\ RateNeedsEntries(Started(c)) /\ RateNeedsEntries(Stopped(c))
BY DEF RateNeedsEntries, MD_StartDwellStream, Started, Stopped, ControlRecord

LEMMA ActivatedRate ==
  ASSUME NEW c \in ControlRecord, NEW image \in BufferImage
  PROVE  RateNeedsEntries(Activated(c, image))
<1>1. RateNeedsEntries(MD_CopyUpdatedTbl(c, image))
  BY CopyUpdates, CopiedRecordType, UpdateInfoRate
<1> QED  BY <1>1, CopyType, SwitchRate DEF Activated

(* The record's totals are those of its entries.                           *)
TotalsOf(c) ==
  /\ c.AddrCount = ActiveCount(c.Entry)
  /\ c.DataSize = LengthSum(c.Entry)[ActiveCount(c.Entry)] % Word
  /\ c.Rate = DelaySum(c.Entry)[ActiveCount(c.Entry)]

LEMMA UpdateInfoFields ==
  ASSUME NEW c \in ControlRecord
  PROVE  LET u == MD_UpdateDwellControlInfo(c)
             n == ActiveCount(c.Entry)
         IN  /\ u.AddrCount = n
             /\ u.DataSize = LengthSum(c.Entry)[n] % Word
             /\ u.Rate = DelaySum(c.Entry)[n]
             /\ u.Entry = c.Entry /\ u.Enabled = c.Enabled
             /\ u.Countdown = c.Countdown /\ u.PktOffset = c.PktOffset
             /\ u.CurrentEntry = c.CurrentEntry /\ u.Signature = c.Signature
BY DEF MD_UpdateDwellControlInfo, ControlRecord

LEMMA UpdateInfoTotals ==
  ASSUME NEW c \in ControlRecord
  PROVE  TotalsOf(MD_UpdateDwellControlInfo(c))
BY UpdateInfoFields DEF TotalsOf

LEMMA TotalsFixed ==
  ASSUME NEW c \in ControlRecord
  PROVE  MD_UpdateDwellControlInfo(c) = c <=> TotalsOf(c)
<1>1. ASSUME MD_UpdateDwellControlInfo(c) = c PROVE TotalsOf(c)
  BY <1>1, UpdateInfoTotals
<1>2. ASSUME TotalsOf(c) PROVE MD_UpdateDwellControlInfo(c) = c
  BY <1>2 DEF TotalsOf, MD_UpdateDwellControlInfo, ControlRecord
<1> QED  BY <1>1, <1>2

LEMMA TotalsKept ==
  ASSUME NEW c, NEW d, TotalsOf(c), d.Entry = c.Entry,
         d.AddrCount = c.AddrCount, d.DataSize = c.DataSize, d.Rate = c.Rate
  PROVE  TotalsOf(d)
BY DEF TotalsOf

LEMMA SwitchTotals ==
  ASSUME NEW c \in ControlRecord, TotalsOf(c)
  PROVE  /\ TotalsOf(MD_StartDwellStream(c))
         /\ TotalsOf(Started(c)) /\ TotalsOf(Stopped(c))
BY TotalsKept DEF MD_StartDwellStream, Started, Stopped, ControlRecord

LEMMA ActivatedTotals ==
  ASSUME NEW c \in ControlRecord, NEW image \in BufferImage
  PROVE  TotalsOf(Activated(c, image))
<1>1. TotalsOf(MD_CopyUpdatedTbl(c, image))
  BY CopyUpdates, CopiedRecordType, UpdateInfoTotals
<1> QED  BY <1>1, CopyType, SwitchTotals DEF Activated

(* The record a table starts with has no entries, no bytes and no rate.    *)
LEMMA InitialControlTotals == TotalsOf(InitialControl)
<1> DEFINE entry == InitialControl.Entry
           n == ActiveCount(entry)
<1>1. \A i \in Entries : entry[i].Length = 0
  BY DEF InitialControl, NullControlEntry
<1>2. n \in 0..TableSize /\ \A i \in 0..(n - 1) : entry[i].Length # 0
  BY ActiveCountFacts
<1> HIDE DEF entry, n
<1>3. n = 0
  <2>1. SUFFICES ASSUME n # 0 PROVE FALSE
    OBVIOUS
  <2>2. 0 \in 0..(n - 1) /\ 0 \in Entries
    BY <1>2, <2>1, Sizes DEF Entries
  <2> QED  BY <1>1, <1>2, <2>2
<1>4. LengthSum(entry)[0] = 0 /\ DelaySum(entry)[0] = 0
  BY PrefixSumEquation DEF LengthSum, DelaySum
<1>5. 0 % Word = 0
  BY Sizes
<1> QED  BY <1>3, <1>4, <1>5 DEF TotalsOf, InitialControl, entry, n

-----------------------------------------------------------------------------
(* Masks                                                                   *)

LEMMA BitExists ==
  ASSUME NEW N \in Nat
  PROVE  \E f : f = [t \in 0..N |-> IF t = 0 THEN 1 ELSE 2 * f[t - 1]]
<1> DEFINE Solves(f, m) == f = [t \in 0..m |-> IF t = 0 THEN 1 ELSE 2 * f[t - 1]]
           Bad == {m \in 0..N : \A f : ~Solves(f, m)}
<1>0. SUFFICES Bad = {}
  <2>1. N \in 0..N  OBVIOUS
  <2>2. Bad = {} => \E f : Solves(f, N)
    BY <2>1
  <2> HIDE DEF Bad
  <2> QED  BY <2>2
<1>1. SUFFICES ASSUME Bad # {} PROVE FALSE
  OBVIOUS
<1>2. PICK m \in Bad : \A k \in Bad : m <= k
  <2>1. Bad \in SUBSET Nat  OBVIOUS
  <2> QED  BY <1>1, <2>1, LeastNat
<1>3. m # 0
  <2>1. Solves([t \in 0..0 |-> 1], 0)  OBVIOUS
  <2> QED  BY <1>2, <2>1
<1>4. m - 1 \in 0..N /\ m - 1 \notin Bad
  <2>1. m \in 0..N
    BY <1>2
  <2> HIDE DEF Bad
  <2> QED  BY <1>2, <1>3, <2>1
<1>5. PICK g : Solves(g, m - 1)
  BY <1>4
<1> DEFINE f == [t \in 0..m |-> IF t = m THEN 2 * g[m - 1] ELSE g[t]]
<1>6. ASSUME NEW t \in 0..m
      PROVE  f[t] = IF t = 0 THEN 1 ELSE 2 * f[t - 1]
  <2>1. CASE t = m
    <3>1. t - 1 \in 0..m /\ t - 1 # m  BY <1>3, <2>1
    <3> QED  BY <1>3, <2>1, <3>1
  <2>2. CASE t # m
    <3>1. t \in 0..(m - 1)  BY <2>2
    <3>2. g[t] = IF t = 0 THEN 1 ELSE 2 * g[t - 1]  BY <1>5, <3>1
    <3>3. t # 0 => t - 1 \in 0..m /\ t - 1 # m  BY <2>2
    <3> QED  BY <2>2, <3>2, <3>3
  <2> QED  BY <2>1, <2>2
<1>7. Solves(f, m)
  BY <1>6
<1> QED  BY <1>2, <1>7

LEMMA BitEquation ==
  Bit[0] = 1 /\ \A t \in 0..15 : Bit[t + 1] = 2 * Bit[t]
<1>1. Bit = [t \in 0..16 |-> IF t = 0 THEN 1 ELSE 2 * Bit[t - 1]]
  <2>1. \E f : f = [t \in 0..16 |-> IF t = 0 THEN 1 ELSE 2 * f[t - 1]]
    BY BitExists
  <2> QED  BY <2>1 DEF Bit
<1>2. \A t \in 0..15 : t + 1 \in 0..16 /\ t + 1 # 0 /\ (t + 1) - 1 = t
  OBVIOUS
<1> QED  BY <1>1, <1>2

LEMMA BitType == \A t \in 0..16 : Bit[t] \in Nat /\ Bit[t] >= 1
<1> DEFINE Bad == {t \in 0..16 : ~(Bit[t] \in Nat /\ Bit[t] >= 1)}
<1>1. SUFFICES ASSUME Bad # {} PROVE FALSE
  OBVIOUS
<1>2. PICK m \in Bad : \A k \in Bad : m <= k
  <2>1. Bad \in SUBSET Nat  OBVIOUS
  <2> QED  BY <1>1, <2>1, LeastNat
<1>3. m # 0
  BY <1>2, BitEquation
<1>4. m - 1 \in 0..15 /\ m - 1 \notin Bad /\ (m - 1) + 1 = m
  BY <1>2, <1>3
<1>5. Bit[m - 1] \in Nat /\ Bit[m - 1] >= 1 /\ Bit[m] = 2 * Bit[m - 1]
  BY <1>4, BitEquation
<1> QED  BY <1>2, <1>5

(* A higher bit is an even multiple of a lower one.                        *)
LEMMA HigherBit ==
  ASSUME NEW t \in 0..15, NEW n \in 0..16, t < n
  PROVE  \E k \in Nat : Bit[n] = (2 * k) * Bit[t]
<1> DEFINE Bad == {m \in 0..n : t < m /\ ~ \E k \in Nat : Bit[m] = (2 * k) * Bit[t]}
<1>1. SUFFICES ASSUME Bad # {} PROVE FALSE
  OBVIOUS
<1>2. PICK m \in Bad : \A k \in Bad : m <= k
  <2>1. Bad \in SUBSET Nat  OBVIOUS
  <2> QED  BY <1>1, <2>1, LeastNat
<1>3. m - 1 \in 0..15 /\ (m - 1) + 1 = m /\ t <= m - 1
  BY <1>2
<1>4. Bit[m] = 2 * Bit[m - 1] /\ Bit[m - 1] \in Nat /\ Bit[t] \in Nat
  BY <1>3, BitEquation, BitType
<1>5. CASE t = m - 1
  <2>1. Bit[m] = (2 * 1) * Bit[t]  BY <1>4, <1>5
  <2> QED  BY <1>2, <2>1
<1>6. CASE t < m - 1
  <2>1. m - 1 \notin Bad  BY <1>2, <1>3
  <2>2. PICK k \in Nat : Bit[m - 1] = (2 * k) * Bit[t]
    BY <1>2, <1>3, <1>6, <2>1
  <2>3. Bit[m] = (2 * (2 * k)) * Bit[t] /\ 2 * k \in Nat
    BY <1>4, <2>2
  <2> QED  BY <1>2, <2>3
<1> QED  BY <1>3, <1>5, <1>6

(* A mask of which bit t is e, whatever lower and higher bits are.         *)
HasBit(mask, t, e) ==
  \E high \in Nat, low \in 0..(Bit[t] - 1) : mask = (2 * high + e) * Bit[t] + low

LEMMA BitIsInMask ==
  ASSUME NEW t \in 0..15, NEW e \in {0, 1}, NEW mask, HasBit(mask, t, e)
  PROVE  MD_TableIsInMask(t, mask) <=> e = 1
<1> DEFINE b == Bit[t]
<1>1. b \in Nat /\ b >= 1
  BY BitType
<1>2. PICK high \in Nat, low \in 0..(b - 1) : mask = (2 * high + e) * b + low
  BY DEF HasBit
<1> HIDE DEF b
<1>3. mask \div b = 2 * high + e
  <2>1. 2 * high + e \in Nat
    OBVIOUS
  <2>2. \A q \in Nat : (q * b + low) \div b = q
    BY <1>1
  <2> QED  BY <1>2, <2>1, <2>2
<1>4. (2 * high + e) % 2 = e
  OBVIOUS
<1> QED  BY <1>3, <1>4 DEF MD_TableIsInMask, b

(* A higher bit leaves the lower ones alone.                               *)
LEMMA BitAdded ==
  ASSUME NEW t \in 0..15, NEW n \in 0..15, t < n, NEW e \in {0, 1},
         NEW d \in {0, 1}, NEW mask, HasBit(mask, t, e)
  PROVE  HasBit(mask + d * Bit[n], t, e)
<1>1. PICK high \in Nat, low \in 0..(Bit[t] - 1) : mask = (2 * high + e) * Bit[t] + low
  BY DEF HasBit
<1>2. PICK k \in Nat : Bit[n] = (2 * k) * Bit[t]
  BY HigherBit
<1> DEFINE b == Bit[t]
<1>3. b \in Nat /\ low \in Int
  BY BitType
<1>4. mask = (2 * high + e) * b + low /\ Bit[n] = (2 * k) * b
  BY <1>1, <1>2
<1> HIDE DEF b
<1>5. CASE d = 0
  <2>1. d * Bit[n] = 0 /\ mask \in Int
    BY <1>3, <1>4, <1>5
  <2>2. mask + d * Bit[n] = mask
    BY <2>1
  <2> QED  BY <2>2
<1>6. CASE d = 1
  <2>1. (2 * high + e) * b + (2 * k) * b = (2 * (high + k) + e) * b
    BY <1>3
  <2>2. mask + d * Bit[n] = (2 * (high + k) + e) * b + low
    BY <1>3, <1>4, <1>6, <2>1
  <2>3. high + k \in Nat
    OBVIOUS
  <2> QED  BY <1>1, <2>2, <2>3 DEF HasBit, b
<1> QED  BY <1>5, <1>6
=============================================================================
