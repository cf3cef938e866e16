----------------------------- MODULE DispatchProofs -----------------------------
(***************************************************************************)
(* Proofs about a dispatch, for any threads, tests, layouts and arguments: failed *)
(* asserts never write over each other and are printed with their arguments; *)
(* the threads run every leaf of the test once, in order; and the report names *)
(* the sections around each assert.                                          *)
(***************************************************************************)
EXTENDS AssertBuffers, CommonFacts, FiniteSetTheorems

-----------------------------------------------------------------------------
(* Where asserts write. *)

\* A bound on both ends of a set of items: they lie between from and to.
Within(items, from, to) ==
  \A i \in items : /\ i.at \in Nat /\ i.size \in Nat
                   /\ from <= i.at /\ i.at + i.size <= to

ItemsApart(items) == \A i, j \in items : i # j => Bytes(i) \cap Bytes(j) = {}

\* Everything written so far lies below the counter of reserved bytes and in the
\* buffer; asserts under way have arguments of the dispatch.
Packed ==
  /\ capacity \in Capacity
  /\ tally \in [passed : Nat, failed : Nat, bytes : Nat]
  /\ tally.bytes % 8 = 0
  /\ \A t \in Thread : asserting[t] # None => asserting[t].args \in Arguments
  /\ Within(data, 0, tally.bytes)
  /\ Within(data, 0, capacity.bytes)
  /\ ItemsApart(data)

-----------------------------------------------------------------------------
\* Aligning a number makes a number.
LEMMA AlignedIsNat ==
  ASSUME NEW n \in Nat, NEW a \in {2, 4, 8}
  PROVE  Aligned(n, a) \in Nat
BY DEF Aligned

\* An element of a sequence is of the kind the sequence is of.
LEMMA ElementOf ==
  ASSUME NEW S, NEW q \in Seq(S), NEW k \in 1..Len(q)
  PROVE  q[k] \in S
OBVIOUS

\* A failed assert writes inside the bytes it reserved, and no byte twice.
LEMMA RecordFits ==
  ASSUME NEW args \in Arguments, NEW start \in Nat, start % 8 = 0
  PROVE  /\ Reserved(args) \in Nat
         /\ Reserved(args) % 8 = 0
         /\ Within(Written(start, args), start, start + Reserved(args))
         /\ ItemsApart(Written(start, args))
<1>1. /\ args \in Seq([size : Nat, align : {2, 4, 8}])
      /\ Len(args) \in {1, 2}
      /\ \A k \in DOMAIN args : args[k].size % args[k].align = 0
      /\ Len(args) = 2 => args[1].align = args[2].align
      /\ Len(args) = 2 /\ args[1].align = 2 => args[1].size = args[2].size
  BY AssertsAssumption
<1>2. DOMAIN args = 1..Len(args)
  BY <1>1
<1>3. \A k \in DOMAIN args : /\ args[k].size \in Nat
                            /\ args[k].align \in {2, 4, 8}
                            /\ args[k].size % args[k].align = 0
  <2>1. \A k \in DOMAIN args : args[k] \in [size : Nat, align : {2, 4, 8}]
    BY <1>1, <1>2, ElementOf
  <2>2. QED
    BY <1>1, <2>1
<1>4. PICK s1, a : s1 = args[1].size /\ a = args[1].align
  OBVIOUS
<1>5. PICK v1 : v1 = Aligned(start + 4, a)
  OBVIOUS
<1>6. CASE Len(args) = 1
  <2>1. PICK r : r = Aligned(Aligned(s1 + 4, a), 8)
    OBVIOUS
  <2>2. s1 \in Nat /\ a \in {2, 4, 8} /\ s1 % a = 0
    BY <1>2, <1>3, <1>4, <1>6
  <2>3. /\ v1 \in Nat /\ r \in Nat
        /\ start + 4 <= v1
        /\ v1 + s1 <= start + r
        /\ r % 8 = 0
    <3>1. CASE a = 2
      BY <1>5, <2>1, <2>2, <3>1 DEF Aligned
    <3>2. CASE a = 4
      BY <1>5, <2>1, <2>2, <3>2 DEF Aligned
    <3>3. CASE a = 8
      BY <1>5, <2>1, <2>2, <3>3 DEF Aligned
    <3>4. QED
      BY <2>2, <3>1, <3>2, <3>3
  <2>4. Aligned(s1 + 4, a) \in Nat
    BY <2>2, AlignedIsNat
  <2>5. Reserved(args) = r
    BY <1>4, <1>6, <2>1, <2>4 DEF Reserved
  <2>6. DOMAIN args = {1}
    BY <1>2, <1>6
  <2>7. Written(start, args) =
          {[at |-> start, size |-> 4, holds |-> Header(args[1])],
           [at |-> v1, size |-> s1, holds |-> Value]}
    BY <1>4, <1>5, <2>6 DEF Written, HeaderAt, ValueAt
  <2>8. Within(Written(start, args), start, start + r)
    BY <2>2, <2>3, <2>7 DEF Within
  <2>9. ItemsApart(Written(start, args))
    BY <2>2, <2>3, <2>7 DEF ItemsApart, Bytes
  <2>10. QED
    BY <2>3, <2>5, <2>8, <2>9
<1>7. CASE Len(args) = 2
  <2>1. PICK s2 : s2 = args[2].size
    OBVIOUS
  <2>2. /\ s1 \in Nat /\ a \in {2, 4, 8} /\ s1 % a = 0
        /\ s2 \in Nat /\ s2 % a = 0
        /\ a = 2 => s1 = s2
    <3>1. 1 \in DOMAIN args /\ 2 \in DOMAIN args
      BY <1>2, <1>7
    <3>2. args[1].align = args[2].align /\ (a = 2 => s1 = s2)
      BY <1>1, <1>4, <1>7, <2>1
    <3>3. QED
      BY <1>3, <1>4, <2>1, <3>1, <3>2
  <2>3. a = args[2].align
    BY <1>1, <1>4, <1>7
  <2>4. PICK h2 : h2 = Aligned(v1 + s1, 4)
    OBVIOUS
  <2>5. PICK v2 : v2 = Aligned(h2 + 4, a)
    OBVIOUS
  <2>6. PICK r : r = Aligned(Aligned(s1 + 4, a) + Aligned(s2 + 4, a), 8)
    OBVIOUS
  <2>7. /\ v1 \in Nat /\ h2 \in Nat /\ v2 \in Nat /\ r \in Nat
        /\ start + 4 <= v1
        /\ v1 + s1 <= h2
        /\ h2 + 4 <= v2
        /\ v2 + s2 <= start + r
        /\ r % 8 = 0
    <3>1. CASE a = 2
      BY <1>5, <2>2, <2>4, <2>5, <2>6, <3>1 DEF Aligned
    <3>2. CASE a = 4
      BY <1>5, <2>2, <2>4, <2>5, <2>6, <3>2 DEF Aligned
    <3>3. CASE a = 8
      BY <1>5, <2>2, <2>4, <2>5, <2>6, <3>3 DEF Aligned
    <3>4. QED
      BY <2>2, <3>1, <3>2, <3>3
  <2>8. Reserved(args) = r
    BY <1>4, <1>7, <2>1, <2>3, <2>6 DEF Reserved
  <2>9. DOMAIN args = {1, 2}
    BY <1>2, <1>7
  <2>10. /\ HeaderAt(start, args, 1) = start
        /\ HeaderAt(start, args, 2) = h2
        /\ ValueAt(start, args[1]) = v1
        /\ ValueAt(h2, args[2]) = v2
    <3>1. ValueAt(start, args[1]) = v1 /\ ValueAt(h2, args[2]) = v2
      BY <1>4, <1>5, <2>3, <2>5 DEF ValueAt
    <3>2. After(start, args[1]) = h2
      BY <1>4, <2>4, <3>1 DEF After
    <3>3. QED
      BY <3>1, <3>2 DEF HeaderAt
  <2>11. \A i : i \in Written(start, args) <=>
           \/ i = [at |-> start, size |-> 4, holds |-> Header(args[1])]
           \/ i = [at |-> v1, size |-> s1, holds |-> Value]
           \/ i = [at |-> h2, size |-> 4, holds |-> Header(args[2])]
           \/ i = [at |-> v2, size |-> s2, holds |-> Value]
    BY <1>4, <2>1, <2>9, <2>10 DEF Written
  <2>12. Within(Written(start, args), start, start + r)
    BY <2>2, <2>7, <2>11 DEF Within
  <2>13. ItemsApart(Written(start, args))
    BY <2>2, <2>7, <2>11 DEF ItemsApart, Bytes
  <2>14. QED
    BY <2>7, <2>8, <2>12, <2>13
<1>8. QED
  BY <1>1, <1>6, <1>7

-----------------------------------------------------------------------------
\* Items written behind the others keep them all in bounds and apart.
LEMMA WrittenBehind ==
  ASSUME NEW old, NEW new, NEW from \in Nat, NEW to \in Nat, NEW room \in Nat,
         from <= to, to <= room,
         Within(old, 0, from), Within(old, 0, room), ItemsApart(old),
         Within(new, from, to), ItemsApart(new)
  PROVE  /\ Within(old \cup new, 0, to)
         /\ Within(old \cup new, 0, room)
         /\ ItemsApart(old \cup new)
<1>1. Within(old \cup new, 0, to) /\ Within(old \cup new, 0, room)
  BY DEF Within
<1>2. ASSUME NEW i \in old, NEW j \in new PROVE Bytes(i) \cap Bytes(j) = {}
  BY DEF Within, Bytes
<1>3. ItemsApart(old \cup new)
  BY <1>2 DEF ItemsApart
<1>4. QED
  BY <1>1, <1>3

\* Packed is an invariant: it holds at the start, and every step keeps it.
LEMMA PackedInit == DispatchInit => Packed
BY DEF DispatchInit, Packed, Within, ItemsApart

LEMMA PackedStep == Packed /\ [DispatchNext]_dispatchVars => Packed'
<1> SUFFICES ASSUME Packed, [DispatchNext]_dispatchVars PROVE Packed'
  OBVIOUS
<1>1. capacity' = capacity
  BY DEF DispatchNext, ThreadStep, Runs, Success, AddAssert, AddError, ProcessTestDataBuffer,
         PrintEntry, PrintNext, dispatchVars, assertVars
<1>2. CASE UNCHANGED <<tally, asserting, data>>
  BY <1>1, <1>2 DEF Packed, Within, ItemsApart, Bytes
<1>3. ASSUME NEW t \in Thread, Success(t) PROVE Packed'
  BY <1>1, <1>3 DEF Success, Packed, Within, ItemsApart, Bytes
<1>4. ASSUME NEW t \in Thread, NEW args \in Arguments, AddAssert(t, args) PROVE Packed'
  BY <1>1, <1>4 DEF AddAssert, Packed, Within, ItemsApart, Bytes
<1>5. ASSUME NEW t \in Thread, AddError(t) PROVE Packed'
  <2>1. CASE AddNoData(t)
    BY <1>1, <1>5, <2>1 DEF AddError, AddNoData, Packed, Within, ItemsApart, Bytes
  <2>2. CASE AddData(t)
    <3>1. PICK size : size = Reserved(asserting[t].args)
      OBVIOUS
    <3>2. asserting[t].args \in Arguments /\ tally.bytes \in Nat /\ tally.bytes % 8 = 0
      BY <1>5 DEF AddError, Packed
    <3>3. /\ size \in Nat /\ size % 8 = 0
          /\ Within(Written(tally.bytes, asserting[t].args), tally.bytes, tally.bytes + size)
          /\ ItemsApart(Written(tally.bytes, asserting[t].args))
      BY <3>1, <3>2, RecordFits
    <3>4. /\ tally' = [tally EXCEPT !.bytes = tally.bytes + size]
          /\ asserting' = [asserting EXCEPT ![t] = None]
      BY <1>5, <2>2, <3>1 DEF AddError, AddData
    <3>5. /\ tally' \in [passed : Nat, failed : Nat, bytes : Nat]
          /\ tally'.bytes = tally.bytes + size
          /\ tally'.bytes % 8 = 0
      BY <3>2, <3>3, <3>4 DEF Packed
    <3>6. \A u \in Thread : asserting'[u] # None => asserting'[u].args \in Arguments
      BY <3>4 DEF Packed
    <3>7. capacity.bytes \in Nat
      BY AssertsAssumption DEF Packed
    <3>8. CASE tally.bytes + size < capacity.bytes
      <4>1. data' = data \cup Written(tally.bytes, asserting[t].args)
        BY <2>2, <3>1, <3>8 DEF AddData
      <4>2. /\ Within(data', 0, tally.bytes + size)
            /\ Within(data', 0, capacity.bytes)
            /\ ItemsApart(data')
        BY <3>2, <3>3, <3>7, <3>8, <4>1, WrittenBehind DEF Packed
      <4>3. QED
        BY <1>1, <3>5, <3>6, <4>2 DEF Packed, Within, ItemsApart, Bytes
    <3>9. CASE ~(tally.bytes + size < capacity.bytes)
      <4>1. data' = data
        BY <2>2, <3>1, <3>9 DEF AddData
      <4>2. Within(data, 0, tally.bytes + size)
        BY <3>2, <3>3 DEF Packed, Within
      <4>3. QED
        BY <1>1, <3>5, <3>6, <4>1, <4>2 DEF Packed, Within, ItemsApart, Bytes
    <3>10. QED
      BY <3>8, <3>9
  <2>3. QED
    BY <1>5, <2>1, <2>2 DEF AddError
<1>6. QED
  BY <1>2, <1>3, <1>4, <1>5
     DEF DispatchNext, ThreadStep, Runs, ProcessTestDataBuffer, PrintEntry, PrintNext,
         dispatchVars, assertVars

\* It says more than that records are apart.
LEMMA PackedMeansApart == Packed => RecordsApart
BY DEF Packed, Within, ItemsApart, RecordsApart

\* What failed asserts write stays in the buffer and in the bytes that are theirs, for
\* any number of threads, any test, layout and arguments.
THEOREM RecordsStayApart == DispatchSpec => []RecordsApart
<1>1. DispatchSpec => []Packed
  BY PackedInit, PackedStep, PTL DEF DispatchSpec
<1>2. QED
  BY <1>1, PackedMeansApart, PTL

-----------------------------------------------------------------------------
(* What is printed of an assert. *)

\* A row that is recorded: refused, or with all its items in the data.
Recorded(m) ==
  /\ m.args \in Arguments
  /\ \/ m.size = 0
     \/ /\ m.address \in Nat /\ m.address % 8 = 0 /\ m.size = Reserved(m.args)
        /\ Written(m.address, m.args) \subseteq data

RowsTaken == 0..Smaller(tally.failed, capacity.rows) - 1

\* Every row that was counted is a thread's to record, one thread's only, or is recorded.
RowsCounted ==
  /\ DOMAIN meta = 0..capacity.rows - 1 /\ DOMAIN asserting = Thread
  /\ \A t \in Thread : asserting[t] # None => asserting[t].row \in RowsTaken
  /\ \A t, u \in Thread :
       asserting[t] # None /\ asserting[u] # None /\ asserting[t].row = asserting[u].row => t = u
  /\ \A k \in RowsTaken :
       \/ \E t \in Thread : asserting[t] # None /\ asserting[t].row = k
       \/ Recorded(meta[k])

\* The headers among the data can be told from the values.
HeadersSized == \A i \in data : i.holds # Value => i.size = 4

\* Once the report is made its rows are final.
ReportFinal ==
  /\ report = None => printing = [row |-> 0, from |-> 0, entries |-> <<>>]
  /\ report # None =>
       /\ DOMAIN report \subseteq RowsTaken
       /\ \A t \in Thread : asserting[t] # None => asserting[t].row \notin DOMAIN report

ArgumentEntry(m, k) ==
  [at |-> ValueAt(HeaderAt(m.address, m.args, k), m.args[k]) - m.address, size |-> m.args[k].size]

\* What is printed of a recorded row m: entries, and the place to go on from.
InStep(m, entries, from) ==
  /\ \E S : entries \in Seq(S)
  /\ m.size = 0 => entries = <<>>
  /\ entries = <<>> => from = 0
  /\ Len(entries) = 1 /\ Len(m.args) = 2 => from = HeaderAt(m.address, m.args, 2) - m.address
  /\ \A k \in 1..Len(entries) : k <= Len(m.args) => entries[k] = ArgumentEntry(m, k)

\* The next value is looked for behind the arguments printed.
PrintsInStep ==
  report # None /\ printing.row \in DOMAIN report =>
    InStep(Current, printing.entries, printing.from)

PrintInv == Packed /\ HeadersSized /\ RowsCounted /\ ReportFinal /\ PrintsInStep

\* Aligning does not depend on where the data begins.
LEMMA AlignedShift ==
  ASSUME NEW start \in Nat, start % 8 = 0, NEW n \in Nat, NEW a \in {2, 4, 8}
  PROVE  Aligned(start + n, a) = start + Aligned(n, a)
<1>1. CASE a = 2
  BY <1>1 DEF Aligned
<1>2. CASE a = 4
  BY <1>2 DEF Aligned
<1>3. CASE a = 8
  BY <1>3 DEF Aligned
<1> QED BY <1>1, <1>2, <1>3

LEMMA ArgumentTyped ==
  ASSUME NEW args \in Arguments
  PROVE  /\ Len(args) \in {1, 2} /\ DOMAIN args = 1..Len(args)
         /\ \A k \in 1..Len(args) : args[k].size \in Nat /\ args[k].align \in {2, 4, 8}
<1>1. args \in Seq([size : Nat, align : {2, 4, 8}]) /\ Len(args) \in {1, 2}
  BY AssertsAssumption
<1>2. \A k \in 1..Len(args) : args[k] \in [size : Nat, align : {2, 4, 8}]
  BY <1>1, ElementOf
<1> QED BY <1>1, <1>2

\* Where the printer finds the headers of an assert, and what it makes of them.
LEMMA HeadersFound ==
  ASSUME NEW args \in Arguments, NEW start \in Nat, start % 8 = 0,
         NEW k \in 1..Len(args), NEW h, h = HeaderAt(start, args, k)
  PROVE  /\ h - start \in Nat /\ h - start < Reserved(args)
         /\ Aligned((h - start) + 4, args[k].align) = ValueAt(h, args[k]) - start
         /\ Aligned((ValueAt(h, args[k]) - start) + args[k].size, 4) = After(h, args[k]) - start
         /\ ValueAt(h, args[k]) - start \in Nat
         /\ [at |-> h, size |-> 4, holds |-> Header(args[k])] \in Written(start, args)
<1>1. /\ Len(args) \in {1, 2} /\ DOMAIN args = 1..Len(args)
      /\ args[k].size \in Nat /\ args[k].align \in {2, 4, 8}
  BY ArgumentTyped
<1>2. PICK i : i = [at |-> h, size |-> 4, holds |-> Header(args[k])]
  OBVIOUS
<1>3. i \in Written(start, args)
  BY <1>1, <1>2 DEF Written
<1>4. Reserved(args) \in Nat /\ i.at \in Nat /\ start <= i.at /\ i.at + i.size <= start + Reserved(args)
  BY <1>3, RecordFits DEF Within
<1>5. i.at = h /\ i.size = 4
  BY <1>2
<1>6. PICK n : n = h - start
  OBVIOUS
<1>7. n \in Nat /\ n < Reserved(args) /\ h = start + n
  BY <1>4, <1>5, <1>6
<1>8. PICK a, s : a = args[k].align /\ s = args[k].size
  OBVIOUS
<1>9. a \in {2, 4, 8} /\ s \in Nat
  BY <1>1, <1>8
<1>10. PICK v : v = Aligned(n + 4, a)
  OBVIOUS
<1>11. v \in Nat /\ ValueAt(h, args[k]) = start + v
  <2>1. h + 4 = start + (n + 4) /\ n + 4 \in Nat
    BY <1>7
  <2>2. v \in Nat /\ Aligned(start + (n + 4), a) = start + v
    BY <1>9, <1>10, <2>1, AlignedIsNat, AlignedShift
  <2>3. ValueAt(h, args[k]) = Aligned(h + 4, a)
    BY <1>8 DEF ValueAt
  <2> QED BY <2>1, <2>2, <2>3
<1>12. Aligned(v + s, 4) \in Nat /\ After(h, args[k]) = start + Aligned(v + s, 4)
  <2>1. (start + v) + s = start + (v + s) /\ v + s \in Nat
    BY <1>9, <1>11
  <2>2. Aligned(v + s, 4) \in Nat /\ Aligned(start + (v + s), 4) = start + Aligned(v + s, 4)
    BY <2>1, AlignedIsNat, AlignedShift
  <2>3. After(h, args[k]) = Aligned((start + v) + s, 4)
    BY <1>8, <1>11 DEF After
  <2> QED BY <2>1, <2>2, <2>3
<1>13. (start + v) - start = v
  BY <1>11
<1>14. (start + Aligned(v + s, 4)) - start = Aligned(v + s, 4)
  BY <1>12
<1>15. [at |-> h, size |-> 4, holds |-> Header(args[k])] \in Written(start, args)
  BY <1>2, <1>3
<1> QED BY <1>6, <1>7, <1>8, <1>10, <1>11, <1>12, <1>13, <1>14, <1>15

\* The header found is the one written there.
LEMMA HeaderIsRead ==
  ASSUME Within(data, 0, capacity.bytes), ItemsApart(data), HeadersSized,
         NEW i \in data, i.holds # Value
  PROVE  HeaderRead(i.at) = i.holds
<1>1. PICK j : j = CHOOSE x \in data : x.at = i.at /\ x.holds # Value
  OBVIOUS
<1>2. j \in data /\ j.at = i.at /\ j.holds # Value
  BY <1>1
<1>3. HeaderRead(i.at) = j.holds
  BY <1>1 DEF HeaderRead
<1>4. i.size = 4 /\ j.size = 4 /\ i.at \in Nat
  BY <1>2 DEF HeadersSized, Within
<1>5. i.at \in Bytes(i) /\ i.at \in Bytes(j)
  BY <1>2, <1>4 DEF Bytes
<1>6. i = j
  BY <1>2, <1>5 DEF ItemsApart
<1> QED BY <1>3, <1>6

\* A row stays recorded.
LEMMA StaysRecorded ==
  ASSUME NEW m, Recorded(m), data \subseteq data'
  PROVE  Recorded(m)'
BY DEF Recorded

LEMMA PrintStarts == DispatchInit => PrintInv
<1> SUFFICES ASSUME DispatchInit PROVE PrintInv
  OBVIOUS
<1>1. Packed
  BY PackedInit
<1>2. /\ data = {} /\ report = None /\ tally.failed = 0
      /\ asserting = [t \in Thread |-> None]
      /\ meta = [k \in 0..capacity.rows - 1 |-> None]
      /\ printing = [row |-> 0, from |-> 0, entries |-> <<>>]
  BY DEF DispatchInit
<1>3. RowsTaken = {}
  <2>1. capacity.rows \in Nat
    BY <1>1, AssertsAssumption DEF Packed
  <2> QED BY <1>2, <2>1 DEF RowsTaken, Smaller
<1>4. RowsCounted
  BY <1>2, <1>3 DEF RowsCounted
<1> QED BY <1>1, <1>2, <1>4 DEF PrintInv, HeadersSized, ReportFinal, PrintsInStep

LEMMA OneOrTwo ==
  ASSUME NEW n \in Nat, NEW l \in {1, 2}, n + 1 <= l
  PROVE  n + 1 \in 1..l /\ (n = 0 \/ (n = 1 /\ l = 2))
OBVIOUS

\* One entry is printed of row m.
LEMMA EntryInStep ==
  ASSUME Within(data, 0, capacity.bytes), ItemsApart(data), HeadersSized,
         NEW m, Recorded(m), NEW entries, NEW from, InStep(m, entries, from), from < m.size,
         NEW entry, entry = Entry(from, HeaderRead(m.address + from))
  PROVE  InStep(m, Append(entries, entry), AlignedOffset(entry.at + entry.size, 4))
<1> DEFINE n == Len(entries)
           u == Append(entries, entry)
           f == AlignedOffset(entry.at + entry.size, 4)
<1>1. PICK S : entries \in Seq(S)
  BY DEF InStep
<1>2. /\ u \in Seq(S \cup {entry}) /\ Len(u) = n + 1 /\ n \in Nat
      /\ \A k \in 1..n : u[k] = entries[k]
      /\ u[n + 1] = entry /\ u # <<>>
  <2>1. entries \in Seq(S \cup {entry})
    BY <1>1, SeqOverMore
  <2>2. u \in Seq(S \cup {entry}) /\ Len(u) = n + 1 /\ n \in Nat
        /\ (\A k \in 1..n : u[k] = entries[k]) /\ u[n + 1] = entry
    BY <2>1, AppendElements
  <2>3. u # <<>>
    BY <2>2
  <2> QED BY <2>2, <2>3
<1>3. m.size # 0
  <2>1. SUFFICES ASSUME m.size = 0 PROVE FALSE
    OBVIOUS
  <2>2. from = 0
    BY <2>1 DEF InStep
  <2> QED BY <2>1, <2>2
<1>4. /\ m.args \in Arguments /\ m.address \in Nat /\ m.address % 8 = 0
      /\ m.size = Reserved(m.args) /\ Written(m.address, m.args) \subseteq data
  BY <1>3 DEF Recorded
<1>5. /\ Len(m.args) \in {1, 2} /\ DOMAIN m.args = 1..Len(m.args)
  BY <1>4, ArgumentTyped
<1>6. ASSUME n + 1 <= Len(m.args)
      PROVE  /\ entry = ArgumentEntry(m, n + 1)
             /\ f = After(HeaderAt(m.address, m.args, n + 1), m.args[n + 1]) - m.address
  <2> DEFINE k == n + 1
             h == HeaderAt(m.address, m.args, k)
             arg == m.args[k]
  <2>1. /\ k \in 1..Len(m.args)
        /\ n = 0 \/ (n = 1 /\ Len(m.args) = 2)
    <3> HIDE DEF n, u, f, h, arg
    <3>1. n \in Nat /\ n + 1 <= Len(m.args) /\ Len(m.args) \in {1, 2}
      BY <1>2, <1>5, <1>6
    <3> QED BY <3>1, OneOrTwo, Zenon
  <2>2. from = h - m.address
    <3>1. CASE n = 0
      <4>1. entries = <<>> /\ k = 1
        BY <1>1, <3>1
      <4>2. from = 0 /\ h = m.address
        BY <4>1 DEF InStep, HeaderAt
      <4> QED BY <1>4, <4>2
    <3>2. CASE n = 1
      <4>1. Len(m.args) = 2 /\ k = 2
        BY <2>1, <3>2
      <4> QED BY <3>2, <4>1 DEF InStep
    <3> QED BY <2>1, <3>1, <3>2
  <2> HIDE DEF h, k
  <2>3. /\ h - m.address \in Nat
        /\ Aligned((h - m.address) + 4, arg.align) = ValueAt(h, arg) - m.address
        /\ Aligned((ValueAt(h, arg) - m.address) + arg.size, 4) = After(h, arg) - m.address
        /\ ValueAt(h, arg) - m.address \in Nat
        /\ [at |-> h, size |-> 4, holds |-> Header(arg)] \in Written(m.address, m.args)
    BY <1>4, <2>1, HeadersFound DEF h
  <2>4. arg.size \in Nat /\ arg.align \in {2, 4, 8}
    BY <1>4, <2>1, ArgumentTyped
  <2>5. m.address + from = h
    <3>1. h \in Int
      <4>1. [at |-> h, size |-> 4, holds |-> Header(arg)] \in data
        BY <1>4, <2>3
      <4>2. [at |-> h, size |-> 4, holds |-> Header(arg)].at \in Nat
        BY <4>1 DEF Within
      <4> QED BY <4>2
    <3> QED BY <1>4, <2>2, <3>1
  <2>6. HeaderRead(h) = Header(arg)
    <3>1. PICK i : i = [at |-> h, size |-> 4, holds |-> Header(arg)]
      OBVIOUS
    <3>2. i \in data /\ i.at = h /\ i.holds = Header(arg)
      BY <1>4, <2>3, <3>1
    <3>3. Header(arg) # Value
      BY DEF Header, Value
    <3> QED BY <3>2, <3>3, HeaderIsRead
  <2>7. entry = [at |-> AlignedOffset(from + 4, arg.align), size |-> arg.size]
    BY <2>5, <2>6 DEF Entry, Header
  <2>8. entry.at = ValueAt(h, arg) - m.address /\ entry.size = arg.size
    <3>1. AlignedOffset(from + 4, arg.align) = Aligned(from + 4, arg.align)
      BY <2>4 DEF AlignedOffset
    <3> QED BY <2>2, <2>3, <2>7, <3>1
  <2>9. entry = [at |-> ValueAt(h, arg) - m.address, size |-> arg.size]
    BY <2>7, <2>8
  <2>10. f = After(h, arg) - m.address
    <3>1. f = Aligned(entry.at + entry.size, 4)
      BY DEF AlignedOffset
    <3> QED BY <2>3, <2>8, <3>1
  <2> QED BY <2>9, <2>10 DEF ArgumentEntry, h, k
<1> HIDE DEF u, f
<1>7. ASSUME NEW k \in 1..Len(u), k <= Len(m.args)
      PROVE  u[k] = ArgumentEntry(m, k)
  <2>1. CASE k \in 1..n
    BY <1>2, <1>7, <2>1 DEF InStep
  <2>2. CASE k = n + 1
    BY <1>2, <1>6, <1>7, <2>2
  <2> QED BY <1>2, <2>1, <2>2
<1>8. ASSUME Len(u) = 1, Len(m.args) = 2
      PROVE  f = HeaderAt(m.address, m.args, 2) - m.address
  <2>1. n + 1 = 1
    BY <1>2, <1>8
  <2>2. f = After(HeaderAt(m.address, m.args, 1), m.args[1]) - m.address
    BY <1>6, <1>8, <2>1
  <2> QED BY <2>2 DEF HeaderAt
<1>9. InStep(m, u, f)
  BY <1>2, <1>3, <1>7, <1>8 DEF InStep
<1> QED BY <1>9 DEF u, f

\* A step of the CPU's printer.
LEMMA PrinterStep ==
  ASSUME PrintInv, PrintEntry \/ PrintNext
  PROVE  PrintInv'
<1>1. /\ report # None /\ printing.row \in DOMAIN report
      /\ UNCHANGED <<capacity, tally, asserting, meta, data, report>>
  BY DEF PrintEntry, PrintNext
<1>2. Packed' /\ HeadersSized'
  BY <1>1 DEF PrintInv, Packed, Within, ItemsApart, Bytes, HeadersSized
<1>3. RowsCounted'
  BY <1>1 DEF PrintInv, RowsCounted, RowsTaken, Recorded
<1>4. ReportFinal'
  BY <1>1 DEF PrintInv, ReportFinal, RowsTaken
<1>5. PrintsInStep'
  <2>1. CASE PrintNext
    <3>1. printing'.from = 0 /\ printing'.entries = <<>>
      BY <2>1 DEF PrintNext
    <3> QED BY <3>1 DEF PrintsInStep, InStep
  <2>2. CASE PrintEntry
    <3> DEFINE entry == Entry(printing.from, HeaderRead(Current.address + printing.from))
               entries == Append(printing.entries, entry)
               from == AlignedOffset(entry.at + entry.size, 4)
    <3>1. Recorded(Current) /\ InStep(Current, printing.entries, printing.from)
      BY <1>1 DEF PrintInv, RowsCounted, ReportFinal, PrintsInStep, Current
    <3>2. printing.from < Current.size
      BY <2>2 DEF PrintEntry
    <3>3. InStep(Current, entries, from)
      BY <3>1, <3>2, EntryInStep DEF PrintInv, Packed
    <3> HIDE DEF entry
    <3>4. printing' = [printing EXCEPT !.from = from, !.entries = entries]
      BY <2>2 DEF PrintEntry, entry
    <3>5. printing'.from = from /\ printing'.entries = entries /\ printing'.row = printing.row
      BY <3>4
    <3> HIDE DEF from, entries
    <3>6. Current' = Current
      BY <1>1, <3>5 DEF Current
    <3> QED BY <3>3, <3>5, <3>6 DEF PrintsInStep, InStep, ArgumentEntry
  <2> QED BY <2>1, <2>2
<1> QED BY <1>2, <1>3, <1>4, <1>5 DEF PrintInv

\* A failed assert is counted: a row is this thread's.
LEMMA CountingKeepsPrints ==
  ASSUME PrintInv, NEW t \in Thread, NEW args \in Arguments, AddAssert(t, args), Packed'
  PROVE  PrintInv'
<1>1. /\ UNCHANGED <<capacity, meta, data, report, printing>>
      /\ asserting[t] = None /\ tally'.failed = tally.failed + 1
      /\ tally.failed \in Nat /\ capacity.rows \in Nat
      /\ DOMAIN asserting' = Thread
      /\ \A u \in Thread \ {t} : asserting'[u] = asserting[u]
  BY AssertsAssumption DEF AddAssert, CanAssert, PrintInv, Packed, RowsCounted
<1>2. asserting'[t] = IF tally.failed < capacity.rows
                      THEN [row |-> tally.failed, args |-> args] ELSE None
  BY DEF AddAssert, PrintInv, RowsCounted
<1>3. \A k : k \in RowsTaken' <=> k \in RowsTaken \/ (k = tally.failed /\ k < capacity.rows)
  BY <1>1 DEF RowsTaken, Smaller
<1>4. ASSUME tally.failed < capacity.rows
      PROVE  asserting'[t] # None /\ asserting'[t].row = tally.failed
  <2>1. [row |-> tally.failed, args |-> args] # None
    BY <1>1, AssertsAssumption
  <2> QED BY <1>2, <1>4, <2>1
<1>5. tally.failed \notin RowsTaken
  BY <1>1 DEF RowsTaken, Smaller
<1>6. RowsCounted'
  <2>1. \A u \in Thread : asserting'[u] # None =>
          \/ u = t /\ asserting'[u].row = tally.failed /\ tally.failed < capacity.rows
          \/ u # t /\ asserting[u] # None /\ asserting'[u].row = asserting[u].row
             /\ asserting[u].row \in RowsTaken
    BY <1>1, <1>2, <1>4 DEF PrintInv, RowsCounted
  <2>2. \A u \in Thread : asserting'[u] # None => asserting'[u].row \in RowsTaken'
    BY <1>3, <2>1
  <2>3. \A u, v \in Thread :
          asserting'[u] # None /\ asserting'[v] # None /\ asserting'[u].row = asserting'[v].row => u = v
    BY <1>5, <2>1 DEF PrintInv, RowsCounted
  <2>4. ASSUME NEW k \in RowsTaken'
        PROVE  \/ \E u \in Thread : asserting'[u] # None /\ asserting'[u].row = k
               \/ Recorded(meta[k])'
    <3>1. CASE k \in RowsTaken
      <4>1. CASE \E u \in Thread : asserting[u] # None /\ asserting[u].row = k
        BY <1>1, <4>1
      <4>2. CASE Recorded(meta[k])
        BY <1>1, <4>2 DEF Recorded
      <4> QED BY <3>1, <4>1, <4>2 DEF PrintInv, RowsCounted
    <3>2. CASE k = tally.failed /\ k < capacity.rows
      BY <1>4, <3>2
    <3> QED BY <1>3, <3>1, <3>2
  <2> QED BY <1>1, <2>2, <2>3, <2>4 DEF PrintInv, RowsCounted
<1>7. ReportFinal'
  <2>1. ASSUME report # None, NEW u \in Thread, asserting'[u] # None
        PROVE  asserting'[u].row \notin DOMAIN report
    <3>1. CASE u = t
      BY <1>2, <1>4, <1>5, <2>1, <3>1 DEF PrintInv, ReportFinal
    <3>2. CASE u # t
      BY <1>1, <2>1, <3>2 DEF PrintInv, ReportFinal
    <3> QED BY <3>1, <3>2
  <2> QED BY <1>1, <1>3, <2>1 DEF PrintInv, ReportFinal
<1>8. HeadersSized' /\ PrintsInStep'
  BY <1>1 DEF PrintInv, HeadersSized, PrintsInStep, Current, InStep, ArgumentEntry
<1> QED BY <1>6, <1>7, <1>8 DEF PrintInv

\* What was in the data stays there, and headers stay recognisable.
LEMMA MoreWritten ==
  ASSUME HeadersSized, NEW args, NEW start, data' = data \cup Written(start, args)
  PROVE  HeadersSized'
<1>1. \A i \in Written(start, args) : i.holds # Value => i.size = 4
  BY DEF Written
<1> QED BY <1>1 DEF HeadersSized

\* A failed assert is recorded: its row is no thread's any more.
LEMMA RecordingKeepsPrints ==
  ASSUME PrintInv, NEW t \in Thread, AddError(t), Packed'
  PROVE  PrintInv'
<1> DEFINE row == asserting[t].row
           args == asserting[t].args
<1>1. /\ UNCHANGED <<capacity, report, printing>> /\ tally'.failed = tally.failed
      /\ asserting[t] # None /\ asserting' = [asserting EXCEPT ![t] = None]
      /\ DOMAIN asserting = Thread /\ DOMAIN meta = 0..capacity.rows - 1
      /\ tally.failed \in Nat /\ capacity.rows \in Nat
  BY AssertsAssumption DEF AddError, AddData, AddNoData, PrintInv, Packed, RowsCounted
<1>2. RowsTaken' = RowsTaken
  BY <1>1 DEF RowsTaken
<1>3. args \in Arguments /\ row \in RowsTaken /\ row \in DOMAIN meta
  <2>1. RowsTaken \subseteq 0..capacity.rows - 1
    BY <1>1 DEF RowsTaken, Smaller
  <2> QED BY <1>1, <2>1 DEF PrintInv, Packed, RowsCounted
<1>4. /\ data' = data \/ data' = data \cup Written(tally.bytes, args)
      /\ \E address, size :
           /\ AddMeta(t, address, size)
           /\ \/ size = 0
              \/ /\ address = tally.bytes /\ size = Reserved(args)
                 /\ data' = data \cup Written(tally.bytes, args)
  BY DEF AddError, AddData, AddNoData
<1>5. data \subseteq data' /\ HeadersSized'
  BY <1>4, MoreWritten DEF PrintInv, HeadersSized
<1>6. PICK address, size :
        /\ AddMeta(t, address, size)
        /\ \/ size = 0
           \/ /\ address = tally.bytes /\ size = Reserved(args)
              /\ data' = data \cup Written(tally.bytes, args)
  BY <1>4
<1>7. /\ meta'[row].args = args /\ meta'[row].address = address /\ meta'[row].size = size
      /\ DOMAIN meta' = DOMAIN meta
      /\ \A k \in DOMAIN meta \ {row} : meta'[k] = meta[k]
  BY <1>3, <1>6 DEF AddMeta
<1>8. PICK r : r = row
  OBVIOUS
<1>9. Recorded(meta[r])'
  <2>1. tally.bytes \in Nat /\ tally.bytes % 8 = 0
    BY DEF PrintInv, Packed
  <2>2. /\ meta'[r].args \in Arguments
        /\ \/ meta'[r].size = 0
           \/ /\ meta'[r].address \in Nat /\ meta'[r].address % 8 = 0
              /\ meta'[r].size = Reserved(meta'[r].args)
              /\ Written(meta'[r].address, meta'[r].args) \subseteq data'
    BY <1>3, <1>6, <1>7, <1>8, <2>1
  <2> QED BY <2>2 DEF Recorded
<1>10. ASSUME NEW u \in Thread, asserting'[u] # None PROVE u # t /\ asserting'[u] = asserting[u]
  BY <1>1, <1>10
<1>11. RowsCounted'
  <2>1. \A u \in Thread : asserting'[u] # None => asserting'[u].row \in RowsTaken'
    BY <1>2, <1>10 DEF PrintInv, RowsCounted
  <2>2. \A u, v \in Thread :
          asserting'[u] # None /\ asserting'[v] # None /\ asserting'[u].row = asserting'[v].row => u = v
    BY <1>10 DEF PrintInv, RowsCounted
  <2>3. ASSUME NEW k \in RowsTaken'
        PROVE  \/ \E u \in Thread : asserting'[u] # None /\ asserting'[u].row = k
               \/ Recorded(meta[k])'
    <3>1. CASE k = r
      BY <1>9, <3>1
    <3>2. CASE k # r
      <4>1. CASE \E u \in Thread : asserting[u] # None /\ asserting[u].row = k
        <5>1. PICK u \in Thread : asserting[u] # None /\ asserting[u].row = k
          BY <4>1
        <5>2. u # t /\ asserting'[u] = asserting[u]
          BY <1>1, <1>8, <3>2, <5>1
        <5> QED BY <5>1, <5>2
      <4>2. CASE Recorded(meta[k])
        <5>1. k \in DOMAIN meta
          BY <1>1, <1>2 DEF RowsTaken, Smaller
        <5>2. meta'[k] = meta[k]
          BY <1>7, <1>8, <3>2, <5>1
        <5> QED BY <1>5, <4>2, <5>2 DEF Recorded
      <4> QED BY <1>2, <4>1, <4>2 DEF PrintInv, RowsCounted
    <3> QED BY <3>1, <3>2
  <2>4. DOMAIN meta' = 0..capacity'.rows - 1 /\ DOMAIN asserting' = Thread
    BY <1>1, <1>7
  <2> QED BY <2>1, <2>2, <2>3, <2>4 DEF RowsCounted
<1>12. ReportFinal'
  BY <1>1, <1>2, <1>10 DEF PrintInv, ReportFinal
<1>13. PrintsInStep'
  <2> SUFFICES ASSUME report # None, printing.row \in DOMAIN report
               PROVE  InStep(Current, printing.entries, printing.from)'
    BY <1>1 DEF PrintsInStep
  <2>1. printing.row # row /\ printing.row \in DOMAIN meta
    <3>1. printing.row # row
      BY <1>1 DEF PrintInv, ReportFinal
    <3>2. printing.row \in RowsTaken
      BY DEF PrintInv, ReportFinal
    <3> QED BY <1>1, <3>1, <3>2 DEF RowsTaken, Smaller
  <2>2. Current' = Current
    BY <1>1, <1>7, <2>1 DEF Current
  <2>3. InStep(Current, printing.entries, printing.from)
    BY DEF PrintInv, PrintsInStep
  <2> QED BY <1>1, <2>2, <2>3 DEF InStep, ArgumentEntry
<1> QED BY <1>5, <1>11, <1>12, <1>13 DEF PrintInv

LEMMA PrintKept == PrintInv /\ [DispatchNext]_dispatchVars => PrintInv'
<1> SUFFICES ASSUME PrintInv, [DispatchNext]_dispatchVars PROVE PrintInv'
  OBVIOUS
<1>1. Packed'
  BY PackedStep DEF PrintInv
<1>2. CASE UNCHANGED <<capacity, asserting, meta, data, report, printing>> /\ tally'.failed = tally.failed
  BY <1>1, <1>2 DEF PrintInv, HeadersSized, RowsCounted, RowsTaken, Recorded, ReportFinal,
                    PrintsInStep, Current, InStep, ArgumentEntry
<1>3. ASSUME NEW t \in Thread, Success(t) PROVE PrintInv'
  <2>1. tally'.failed = tally.failed
    BY <1>3 DEF Success, PrintInv, Packed
  <2> QED BY <1>2, <1>3, <2>1 DEF Success
<1>4. ASSUME ProcessTestDataBuffer PROVE PrintInv'
  <2>1. /\ UNCHANGED <<capacity, tally, asserting, meta, data, printing>>
        /\ report = None /\ \A t \in Thread : asserting[t] = None
        /\ DOMAIN report' = RowsTaken
    BY <1>4 DEF ProcessTestDataBuffer, Over, RowsTaken
  <2>2. RowsTaken' = RowsTaken
    BY <2>1 DEF RowsTaken
  <2>3. RowsCounted' /\ HeadersSized'
    BY <2>1, <2>2 DEF PrintInv, RowsCounted, HeadersSized, Recorded
  <2>4. ReportFinal'
    BY <2>1, <2>2 DEF PrintInv, ReportFinal
  <2>5. printing'.entries = <<>> /\ printing'.from = 0
    BY <2>1 DEF PrintInv, ReportFinal
  <2>6. PrintsInStep'
    BY <2>5 DEF PrintsInStep, InStep
  <2> QED BY <1>1, <2>3, <2>4, <2>6 DEF PrintInv
<1>5. CASE UNCHANGED dispatchVars
  BY <1>2, <1>5 DEF dispatchVars, assertVars
<1>6. ASSUME NEW t \in Thread, Runs(t) PROVE PrintInv'
  BY <1>2, <1>6 DEF Runs, assertVars
<1> QED BY <1>1, <1>3, <1>4, <1>5, <1>6, PrinterStep, CountingKeepsPrints, RecordingKeepsPrints
        DEF DispatchNext, ThreadStep

LEMMA InStepPrintsArguments == PrintInv => PrintsArguments
<1> SUFFICES ASSUME PrintInv, report # None, printing.row \in DOMAIN report
             PROVE  /\ \A k \in DOMAIN printing.entries : k \in DOMAIN Current.args =>
                         printing.entries[k] = ArgumentEntry(Current, k)
                    /\ Current.size > 0 /\ printing.from >= Current.size =>
                         Len(printing.entries) >= Len(Current.args)
  BY DEF PrintsArguments, ArgumentEntry
<1> DEFINE n == Len(printing.entries)
           l == Len(Current.args)
<1>1. Recorded(Current) /\ InStep(Current, printing.entries, printing.from)
  BY DEF PrintInv, RowsCounted, ReportFinal, PrintsInStep, Current
<1>2. DOMAIN printing.entries = 1..n /\ n \in Nat /\ (n = 0 => printing.entries = <<>>)
  BY <1>1 DEF InStep
<1>3. DOMAIN Current.args = 1..l /\ l \in {1, 2}
  BY <1>1, ArgumentTyped DEF Recorded
<1>4. ASSUME NEW k \in 1..n, k \in 1..l
      PROVE  printing.entries[k] = ArgumentEntry(Current, k)
  BY <1>1, <1>3, <1>4 DEF InStep
<1>5. ASSUME Current.size > 0, printing.from >= Current.size, n < l PROVE FALSE
  <2>1. /\ Current.args \in Arguments /\ Current.address \in Nat /\ Current.address % 8 = 0
        /\ Current.size = Reserved(Current.args)
    BY <1>1, <1>5 DEF Recorded
  <2>2. n = 0 \/ (n = 1 /\ l = 2)
    <3> HIDE DEF n, l
    <3>1. n + 1 <= l
      BY <1>2, <1>3, <1>5
    <3> QED BY <1>2, <1>3, <3>1, OneOrTwo, Zenon
  <2>3. CASE n = 0
    <3>1. printing.from = 0
      BY <1>1, <1>2, <2>3 DEF InStep
    <3>2. Current.size \in Nat
      BY <2>1, RecordFits
    <3> QED BY <1>5, <3>1, <3>2
  <2>4. CASE n = 1 /\ l = 2
    <3>1. printing.from = HeaderAt(Current.address, Current.args, 2) - Current.address
      BY <1>1, <2>4 DEF InStep
    <3>2. 2 \in 1..Len(Current.args)
      BY <2>4
    <3>3. printing.from \in Nat /\ printing.from < Current.size
      <4>1. PICK h : h = HeaderAt(Current.address, Current.args, 2)
        OBVIOUS
      <4>2. h - Current.address \in Nat /\ h - Current.address < Reserved(Current.args)
        BY <2>1, <3>2, <4>1, HeadersFound
      <4> QED BY <2>1, <3>1, <4>1, <4>2
    <3>4. Current.size \in Nat
      BY <2>1, RecordFits
    <3> QED BY <1>5, <3>3, <3>4
  <2> QED BY <2>2, <2>3, <2>4
<1> QED BY <1>2, <1>3, <1>4, <1>5

\* What is printed of an assert begins with its arguments, whatever follows them.
THEOREM ArgumentsPrinted == DispatchSpec => []PrintsArguments
<1>1. DispatchSpec => []PrintInv
  BY PrintStarts, PrintKept, PTL DEF DispatchSpec
<1>2. QED
  BY <1>1, InStepPrintsArguments, PTL

-----------------------------------------------------------------------------
(* A pass through the sections, for any test e of n sections: st is the state of *)
(* each section, c the current one, x the place control has reached in it, v the  *)
(* leaves visited so far.                                                         *)

RunStates == Running \cup {"NeverEntered", "NeedsRun", "Completed"}
Entered == Running \cup {"Completed"}

Outline(e, n) ==
  /\ n \in Nat
  /\ e \in [1..n -> 0..n]
  /\ \A s \in 1..n : e[s] < s
  /\ \A s \in 1..n : \A r \in e[s] + 1..s - 1 : e[r] >= e[s]

Childless(e, n, s) == \A c \in 1..n : e[c] # s

\* The sections that run are those around the current one. Of a section that need not
\* be run again all sections up to where control is are completed.
Walk(e, n, st, c, x) ==
  /\ c \in 0..n /\ st[c] \in Running
  /\ \A s \in 0..n : st[s] \in Running => s <= c
  /\ \A s \in 1..n : st[s] \in Running => st[e[s]] \in Running
  /\ \A s \in 0..n, r \in 1..n : st[s] \in Running /\ st[r] \in Running /\ s < r =>
       s <= e[r] /\ st[s] = "RunningEnteredSubsection"
  /\ st[c] # "RunningNeedsRerun" =>
       \A r \in 1..n : e[r] = c /\ r < x => st[r] = "Completed"

\* All sections in a completed one are completed, and those before one that was entered.
Calm(e, n, st) ==
  /\ \A s \in 1..n : st[e[s]] = "Completed" => st[s] = "Completed"
  /\ \A s \in 1..n : st[s] \in Entered =>
       \A r \in 1..n : e[r] = e[s] /\ r < s => st[r] = "Completed"
  /\ \A s \in 0..n : Childless(e, n, s) =>
       st[s] \notin {"RunningEnteredSubsection", "RunningNeedsRerun"}

\* The leaves that were entered are those visited, and none before one was left out.
Visits(e, n, st, v) ==
  /\ v \in Seq(0..n)
  /\ \A k \in DOMAIN v : Childless(e, n, v[k])
  /\ \A j, k \in DOMAIN v : j < k => v[j] < v[k]
  /\ \A s \in 0..n : Childless(e, n, s) => (st[s] \in Entered <=> \E k \in DOMAIN v : v[k] = s)
  /\ \A s, r \in 0..n : Childless(e, n, s) /\ Childless(e, n, r) /\ r < s =>
       (st[s] \in Entered => st[r] \in Entered)

InPass(e, n, st, c, x, v) ==
  /\ st \in [0..n -> RunStates]
  /\ Walk(e, n, st, c, x)
  /\ Calm(e, n, st)
  /\ Visits(e, n, st, v)

\* A section between s and the section around it is completed, if all before s in that
\* one are.
LEMMA CompletedBetween ==
  ASSUME NEW e, NEW n, NEW st, Outline(e, n), Calm(e, n, st),
         NEW s \in 1..n, \A r \in 1..n : e[r] = e[s] /\ r < s => st[r] = "Completed",
         NEW q \in 1..n, e[s] < q, q < s
  PROVE  st[q] = "Completed"
<1>n. n \in Nat /\ e[s] \in 0..n
  BY DEF Outline
<1> DEFINE Bad == {k \in 1..n : e[s] < k /\ k < s /\ st[k] # "Completed"}
<1>1. SUFFICES ASSUME Bad # {} PROVE FALSE
  OBVIOUS
<1>2. PICK k \in Bad : \A j \in Bad : k <= j
  <2>1. Bad \subseteq Nat
    BY <1>n
  <2> QED BY <2>1, <1>1, LeastNumber
<1>3. e[k] \in 0..n /\ e[k] < k /\ e[k] >= e[s]
  <2>1. k \in e[s] + 1..s - 1
    BY <1>n, <1>2
  <2> QED BY <2>1, <1>2 DEF Outline
<1>4. CASE e[k] = e[s]
  BY <1>2, <1>4
<1>5. CASE e[k] # e[s]
  <2>1. e[k] \in 1..n /\ e[s] < e[k] /\ e[k] < s
    BY <1>2, <1>3, <1>5, <1>n
  <2>2. st[e[k]] = "Completed"
    BY <2>1, <1>2, <1>3
  <2> QED BY <2>2, <1>2 DEF Calm
<1> QED BY <1>4, <1>5

\* Everything before a section is under way or completed, if the section around it is
\* under way and all before it there are completed.
LEMMA AllBefore ==
  ASSUME NEW e, NEW n, NEW st, NEW c, NEW x, Outline(e, n), Calm(e, n, st),
         Walk(e, n, st, c, x),
         NEW s \in 1..n, st[e[s]] \in Running,
         \A r \in 1..n : e[r] = e[s] /\ r < s => st[r] = "Completed",
         NEW q \in 0..n, q < s
  PROVE  st[q] \in Entered
<1>n. n \in Nat
  BY DEF Outline
<1> DEFINE Before(k) == \A r \in 1..n : e[r] = e[k] /\ r < k => st[r] = "Completed"
           Bad == {k \in 1..n : /\ st[e[k]] \in Running /\ Before(k)
                                /\ \E r \in 0..n : r < k /\ st[r] \notin Entered}
<1>1. SUFFICES ASSUME Bad # {} PROVE FALSE
  OBVIOUS
<1>2. PICK k \in Bad : \A j \in Bad : k <= j
  <2>1. Bad \subseteq Nat
    BY <1>n
  <2> HIDE DEF Bad
  <2> QED BY <2>1, <1>1, LeastNumber
<1>3. PICK r \in 0..n : r < k /\ st[r] \notin Entered
  BY <1>2
<1>4. e[k] \in 0..n /\ e[k] < k
  BY <1>2 DEF Outline
<1>5. CASE r = e[k]
  BY <1>2, <1>3, <1>5 DEF Entered
<1>6. CASE r > e[k]
  <2>1. r \in 1..n
    BY <1>4, <1>6, <1>n
  <2>2. st[r] = "Completed"
    BY <2>1, <1>2, <1>3, <1>6, CompletedBetween
  <2> QED BY <2>2, <1>3 DEF Entered
<1>7. CASE r < e[k]
  <2>1. e[k] \in 1..n
    BY <1>4, <1>7, <1>n
  <2>2. st[e[e[k]]] \in Running
    BY <2>1, <1>2 DEF Walk
  <2>3. Before(e[k])
    BY <2>1, <1>2 DEF Calm, Entered
  <2>4. e[k] \in Bad
    BY <2>1, <2>2, <2>3, <1>3, <1>7
  <2> QED BY <2>4, <1>2, <1>4
<1> QED BY <1>3, <1>4, <1>5, <1>6, <1>7, <1>n

\* When all sections in the scenario are completed, all are.
LEMMA AllCompleted ==
  ASSUME NEW e, NEW n, NEW st, Outline(e, n), Calm(e, n, st),
         \A r \in 1..n : e[r] = 0 => st[r] = "Completed",
         NEW q \in 1..n
  PROVE  st[q] = "Completed"
<1>n. n \in Nat
  BY DEF Outline
<1> DEFINE Bad == {k \in 1..n : st[k] # "Completed"}
<1>1. SUFFICES ASSUME Bad # {} PROVE FALSE
  OBVIOUS
<1>2. Bad \subseteq Nat
  BY <1>n
<1>3. PICK k \in Bad : \A j \in Bad : k <= j
  BY <1>1, <1>2, LeastNumber
<1>4. e[k] \in 0..n /\ e[k] < k
  BY <1>3 DEF Outline
<1>5. e[k] \in 1..n
  BY <1>3, <1>4, <1>n
<1>6. e[k] \notin Bad
  BY <1>3, <1>4, <1>5, <1>n
<1> QED BY <1>3, <1>5, <1>6 DEF Calm

-----------------------------------------------------------------------------
(* The steps of a pass: st becomes su. *)

\* Control is at or before the first section in s, or after s and at or before the next.
FirstIn(e, n, s, x) == x \in Nat /\ s < x /\ \A r \in 1..n : e[r] = s => x <= r
NextIn(e, n, s, x) ==
  /\ x \in Nat /\ s < x
  /\ x = n + 1 \/ (x \in 1..n /\ e[x] = e[s])
  /\ \A r \in 1..n : e[r] = e[s] /\ r < x => r <= s

\* What is visited when a section is entered.
VisitOf(e, n, s) == IF Childless(e, n, s) THEN <<s>> ELSE <<>>

\* The first pass begins.
LEMMA PassBegins ==
  ASSUME NEW e, NEW n, Outline(e, n), NEW su \in [0..n -> RunStates], su[0] = "Running",
         \A s \in 1..n : su[s] = "NeverEntered",
         NEW x, FirstIn(e, n, 0, x)
  PROVE  InPass(e, n, su, 0, x, VisitOf(e, n, 0))
<1>n. n \in Nat /\ 0 \in 0..n
  BY DEF Outline
<1>e. \A s \in 1..n : e[s] \in 0..n
  BY DEF Outline
<1>1. \A s \in 0..n : su[s] \in Entered => s = 0
  BY <1>n DEF Entered, Running
<1>2. \A s \in 0..n : su[s] \in Running => s = 0
  BY <1>1 DEF Entered
<1>3. Walk(e, n, su, 0, x)
  <2>1. \A s \in 1..n : su[s] \notin Running
    BY <1>2, <1>n
  <2>2. \A r \in 1..n : ~(e[r] = 0 /\ r < x)
    BY DEF FirstIn
  <2> QED BY <2>1, <2>2, <1>2, <1>n DEF Walk, Running
<1>4. Calm(e, n, su)
  <2>1. \A s \in 0..n : su[s] # "Completed" /\ su[s] \notin {"RunningEnteredSubsection", "RunningNeedsRerun"}
    BY <1>n
  <2>2. \A s \in 1..n : su[s] \notin Entered
    BY <1>1, <1>n
  <2> QED BY <2>1, <2>2, <1>e DEF Calm
<1>5. Visits(e, n, su, VisitOf(e, n, 0))
  <2>1. CASE Childless(e, n, 0)
    <3>1. VisitOf(e, n, 0) = <<0>>
      BY <2>1 DEF VisitOf
    <3>2. <<0>> \in Seq(0..n) /\ DOMAIN <<0>> = {1} /\ <<0>>[1] = 0
      BY <1>n
    <3>3. su[0] \in Entered
      BY DEF Entered, Running
    <3>4. \A s \in 0..n : s # 0 => su[s] \notin Entered
      BY <1>1
    <3>5. \A s \in 0..n : su[s] \in Entered <=> \E k \in {1} : <<0>>[k] = s
      BY <3>2, <3>3, <3>4
    <3>6. \A s, r \in 0..n : su[s] \in Entered /\ r < s => FALSE
      BY <3>4, <1>n
    <3>7. Visits(e, n, su, <<0>>)
      BY <3>2, <3>5, <3>6, <2>1 DEF Visits
    <3> QED BY <3>1, <3>7
  <2>2. CASE ~Childless(e, n, 0)
    <3>1. VisitOf(e, n, 0) = <<>>
      BY <2>2 DEF VisitOf
    <3>2. <<>> \in Seq(0..n) /\ DOMAIN <<>> = {}
      OBVIOUS
    <3>3. \A s \in 0..n : Childless(e, n, s) => su[s] \notin Entered
      BY <2>2, <1>1
    <3> QED BY <3>1, <3>2, <3>3 DEF Visits
  <2> QED BY <2>1, <2>2
<1> QED BY <1>3, <1>4, <1>5 DEF InPass

\* The next pass begins: the scenario must be run again.
LEMMA PassBeginsAgain ==
  ASSUME NEW e, NEW n, NEW st, NEW v, NEW y, Outline(e, n), InPass(e, n, st, 0, y, v),
         st[0] = "RunningNeedsRerun",
         NEW su \in [0..n -> RunStates], su[0] = "Running",
         \A s \in 1..n : su[s] = st[s],
         NEW x, FirstIn(e, n, 0, x)
  PROVE  InPass(e, n, su, 0, x, v) /\ ~Childless(e, n, 0)
<1>n. n \in Nat /\ 0 \in 0..n
  BY DEF Outline
<1>e. \A s \in 1..n : e[s] \in 0..n
  BY DEF Outline
<1>0. /\ Walk(e, n, st, 0, y) /\ Calm(e, n, st) /\ Visits(e, n, st, v)
  BY DEF InPass
<1>1. ~Childless(e, n, 0)
  BY <1>0, <1>n DEF Calm
<1>2. \A s \in 1..n : su[s] \notin Running
  BY <1>0, <1>n DEF Walk
<1>3. Walk(e, n, su, 0, x)
  <2>1. \A r \in 1..n : ~(e[r] = 0 /\ r < x)
    BY DEF FirstIn
  <2>2. \A s \in 0..n : su[s] \in Running => s = 0
    BY <1>2, <1>n
  <2> QED BY <2>1, <2>2, <1>2, <1>n DEF Walk, Running
<1>4. \A s \in 0..n : /\ su[s] = "Completed" <=> st[s] = "Completed"
                      /\ su[s] \in Entered <=> st[s] \in Entered
  <2>1. \A s \in 0..n : s # 0 => s \in 1..n
    BY <1>n
  <2> QED BY <2>1 DEF Entered, Running
<1>5. Calm(e, n, su)
  <2>1. \A s \in 1..n : su[e[s]] = "Completed" => su[s] = "Completed"
    BY <1>0, <1>4, <1>e, <1>n DEF Calm
  <2>2. \A s \in 1..n : su[s] \in Entered =>
          \A r \in 1..n : e[r] = e[s] /\ r < s => su[r] = "Completed"
    BY <1>0 DEF Calm
  <2>3. \A s \in 0..n : Childless(e, n, s) =>
          su[s] \notin {"RunningEnteredSubsection", "RunningNeedsRerun"}
    <3>1. \A s \in 0..n : s # 0 => s \in 1..n
      BY <1>n
    <3> QED BY <3>1, <1>0 DEF Calm
  <2> QED BY <2>1, <2>2, <2>3 DEF Calm
<1>6. Visits(e, n, su, v)
  BY <1>0, <1>4 DEF Visits
<1> QED BY <1>1, <1>3, <1>5, <1>6 DEF InPass

\* A section is passed over: it is completed, or control comes out of it.
LEMMA SectionSkipped ==
  ASSUME NEW e, NEW n, NEW st, NEW v, NEW s \in 1..n, Outline(e, n),
         InPass(e, n, st, e[s], s, v), st[s] = "Completed",
         NEW x, NextIn(e, n, s, x)
  PROVE  InPass(e, n, st, e[s], x, v)
<1>n. n \in Nat
  BY DEF Outline
<1>1. Walk(e, n, st, e[s], s)
  BY DEF InPass
<1>2. st[e[s]] # "RunningNeedsRerun" =>
        \A r \in 1..n : e[r] = e[s] /\ r < x => st[r] = "Completed"
  <2>1. \A r \in 1..n : r <= s => r < s \/ r = s
    BY <1>n
  <2> QED BY <2>1, <1>1 DEF Walk, NextIn
<1>3. Walk(e, n, st, e[s], x)
  BY <1>1, <1>2, Zenon DEF Walk
<1> QED BY <1>3 DEF InPass

\* A section is put off to a later pass.
LEMMA SectionPutOff ==
  ASSUME NEW e, NEW n, NEW st, NEW v, NEW s \in 1..n, Outline(e, n),
         InPass(e, n, st, e[s], s, v), st[s] \in {"NeverEntered", "NeedsRun"},
         NEW su \in [0..n -> RunStates], su[s] = "NeedsRun", su[e[s]] = "RunningNeedsRerun",
         \A r \in 0..n : r # s /\ r # e[s] => su[r] = st[r],
         NEW x
  PROVE  InPass(e, n, su, e[s], x, v)
<1>n. n \in Nat /\ e[s] \in 0..n /\ e[s] < s /\ s \in 0..n
  BY DEF Outline
<1>e. \A r \in 1..n : e[r] \in 0..n
  BY DEF Outline
<1>0. /\ Walk(e, n, st, e[s], s) /\ Calm(e, n, st) /\ Visits(e, n, st, v)
  BY DEF InPass
<1>1. st[e[s]] \in Running
  BY <1>0 DEF Walk
<1>2. \A r \in 0..n : /\ su[r] = "Completed" <=> st[r] = "Completed"
                      /\ su[r] \in Running <=> st[r] \in Running
                      /\ su[r] \in Entered <=> st[r] \in Entered
  BY <1>1, <1>n DEF Entered, Running
<1>3. Walk(e, n, su, e[s], x)
  <2>1. \A r \in 0..n : su[r] \in Running => r <= e[s]
    BY <1>0, <1>2 DEF Walk
  <2>2. \A r \in 1..n : su[r] \in Running => su[e[r]] \in Running
    <3>1. \A r \in 1..n : r \in 0..n
      BY <1>n
    <3> QED BY <3>1, <1>0, <1>2, <1>e DEF Walk
  <2>3. ASSUME NEW q \in 0..n, NEW r \in 1..n, su[q] \in Running, su[r] \in Running, q < r
        PROVE  q <= e[r] /\ su[q] = "RunningEnteredSubsection"
    <3>1. r \in 0..n
      BY <1>n
    <3>2. st[q] \in Running /\ st[r] \in Running
      BY <3>1, <2>3, <1>2
    <3>3. q <= e[r] /\ st[q] = "RunningEnteredSubsection"
      BY <3>2, <2>3, <1>0 DEF Walk
    <3>4. r <= e[s] /\ q # s /\ q # e[s]
      BY <3>1, <2>1, <2>3, <1>n
    <3> QED BY <3>3, <3>4
  <2> QED BY <2>1, <2>2, <2>3, <1>n DEF Walk, Running
<1>4. Calm(e, n, su)
  <2>0. \A r \in 1..n : r \in 0..n
    BY <1>n
  <2>1. \A r \in 1..n : su[e[r]] = "Completed" => su[r] = "Completed"
    BY <2>0, <1>0, <1>2, <1>e DEF Calm
  <2>2. \A q \in 1..n : su[q] \in Entered =>
          \A r \in 1..n : e[r] = e[q] /\ r < q => su[r] = "Completed"
    BY <2>0, <1>0, <1>2 DEF Calm
  <2>3. \A r \in 0..n : Childless(e, n, r) =>
          su[r] \notin {"RunningEnteredSubsection", "RunningNeedsRerun"}
    <3>1. ~Childless(e, n, e[s])
      BY DEF Childless
    <3> QED BY <3>1, <1>0 DEF Calm
  <2> QED BY <2>1, <2>2, <2>3 DEF Calm
<1>5. Visits(e, n, su, v)
  BY <1>0, <1>2 DEF Visits
<1> QED BY <1>3, <1>4, <1>5 DEF InPass

\* A section is left.
LEMMA SectionLeft ==
  ASSUME NEW e, NEW n, NEW st, NEW v, NEW s \in 1..n, Outline(e, n),
         InPass(e, n, st, s, n + 1, v),
         NEW su \in [0..n -> RunStates],
         \/ /\ st[s] = "RunningNeedsRerun"
            /\ su[s] = "NeedsRun" /\ su[e[s]] = "RunningNeedsRerun"
         \/ /\ st[s] # "RunningNeedsRerun"
            /\ su[s] = "Completed" /\ su[e[s]] = st[e[s]],
         \A r \in 0..n : r # s /\ r # e[s] => su[r] = st[r],
         NEW x, NextIn(e, n, s, x)
  PROVE  InPass(e, n, su, e[s], x, v)
<1>n. n \in Nat /\ e[s] \in 0..n /\ e[s] < s /\ s \in 0..n
  BY DEF Outline
<1>e. \A r \in 1..n : e[r] \in 0..n /\ e[r] < r /\ r \in 0..n
  BY <1>n DEF Outline
<1>0. /\ Walk(e, n, st, s, n + 1) /\ Calm(e, n, st) /\ Visits(e, n, st, v)
  BY DEF InPass
<1>1. st[s] \in Running /\ st[e[s]] = "RunningEnteredSubsection"
  BY <1>0, <1>n DEF Walk
<1>2. \A r \in 0..n : r # s => (su[r] \in Running <=> st[r] \in Running)
  BY <1>1 DEF Running
<1>3. su[s] \notin Running
  BY DEF Running
<1>4. \A r \in 0..n : su[r] \in Running => r <= e[s]
  <2>1. \A r \in 0..n : su[r] \in Running => r # s /\ st[r] \in Running /\ r <= s
    BY <1>0, <1>2, <1>3 DEF Walk
  <2>2. \A r \in 0..n : su[r] \in Running => r < s
    BY <2>1, <1>n
  <2> QED BY <2>1, <2>2, <1>0, <1>1 DEF Walk
<1>5. su[e[s]] \in Running
  BY <1>1 DEF Running
<1>6. \A r \in 1..n : e[r] = e[s] /\ r < s => st[r] = "Completed"
  BY <1>0, <1>1 DEF Calm, Entered
<1>7. Walk(e, n, su, e[s], x)
  <2>2. \A r \in 1..n : su[r] \in Running => su[e[r]] \in Running
    <3>1. ASSUME NEW r \in 1..n, su[r] \in Running PROVE su[e[r]] \in Running
      <4>1. r # s /\ st[r] \in Running /\ r <= e[s]
        BY <3>1, <1>2, <1>3, <1>4, <1>e
      <4>2. st[e[r]] \in Running /\ e[r] # s
        BY <4>1, <1>0, <1>e, <1>n DEF Walk
      <4> QED BY <4>2, <1>2, <1>e
    <3> QED BY <3>1
  <2>3. ASSUME NEW q \in 0..n, NEW r \in 1..n, su[q] \in Running, su[r] \in Running, q < r
        PROVE  q <= e[r] /\ su[q] = "RunningEnteredSubsection"
    <3>1. r # s /\ q # s /\ st[q] \in Running /\ st[r] \in Running /\ r <= e[s]
      BY <2>3, <1>2, <1>3, <1>4, <1>e
    <3>2. q <= e[r] /\ st[q] = "RunningEnteredSubsection"
      BY <3>1, <2>3, <1>0 DEF Walk
    <3>3. q # e[s]
      BY <3>1, <2>3, <1>n
    <3> QED BY <3>1, <3>2, <3>3
  <2>4. su[e[s]] # "RunningNeedsRerun" =>
          \A r \in 1..n : e[r] = e[s] /\ r < x => su[r] = "Completed"
    <3>1. SUFFICES ASSUME su[e[s]] # "RunningNeedsRerun", NEW r \in 1..n, e[r] = e[s], r < x
                   PROVE  su[r] = "Completed"
      OBVIOUS
    <3>2. su[s] = "Completed" /\ r <= s
      BY <3>1 DEF NextIn
    <3>3. r = s \/ r < s
      BY <3>2, <1>n
    <3>4. r # e[s]
      BY <3>1, <1>e, <1>n
    <3> QED BY <3>1, <3>2, <3>3, <3>4, <1>6, <1>e
  <2> QED BY <2>2, <2>3, <2>4, <1>4, <1>5, <1>n DEF Walk
<1>8. \A r \in 0..n : st[r] = "Completed" => su[r] = "Completed"
  BY <1>1 DEF Running
<1>9. Calm(e, n, su)
  <2>1. ASSUME NEW r \in 1..n, su[e[r]] = "Completed" PROVE su[r] = "Completed"
    <3>1. CASE e[r] = s
      <4>1. st[s] # "RunningNeedsRerun" /\ r < n + 1
        BY <3>1, <2>1, <1>n
      <4>2. st[r] = "Completed"
        BY <4>1, <3>1, <1>0 DEF Walk
      <4> QED BY <4>2, <1>8, <1>e
    <3>2. CASE e[r] # s
      <4>1. st[e[r]] = "Completed"
        BY <3>2, <2>1, <1>1, <1>e
      <4>2. st[r] = "Completed"
        BY <4>1, <1>0 DEF Calm
      <4> QED BY <4>2, <1>8, <1>e
    <3> QED BY <3>1, <3>2
  <2>2. \A q \in 1..n : su[q] \in Entered =>
          \A r \in 1..n : e[r] = e[q] /\ r < q => su[r] = "Completed"
    <3>1. \A q \in 1..n : su[q] \in Entered => st[q] \in Entered
      BY <1>1, <1>e DEF Entered, Running
    <3> QED BY <3>1, <1>0, <1>8, <1>e DEF Calm
  <2>3. \A r \in 0..n : Childless(e, n, r) =>
          su[r] \notin {"RunningEnteredSubsection", "RunningNeedsRerun"}
    <3>1. ~Childless(e, n, e[s])
      BY DEF Childless
    <3>2. su[s] \notin {"RunningEnteredSubsection", "RunningNeedsRerun"}
      OBVIOUS
    <3> QED BY <3>1, <3>2, <1>0 DEF Calm
  <2> QED BY <2>1, <2>2, <2>3 DEF Calm
<1>10. Visits(e, n, su, v)
  <2>1. \A r \in 0..n : Childless(e, n, r) => (su[r] \in Entered <=> st[r] \in Entered)
    <3>1. ~Childless(e, n, e[s])
      BY DEF Childless
    <3>2. Childless(e, n, s) => su[s] \in Entered /\ st[s] \in Entered
      <4>1. Childless(e, n, s) => st[s] # "RunningNeedsRerun"
        BY <1>0, <1>n DEF Calm
      <4> QED BY <4>1, <1>1 DEF Entered
    <3> QED BY <3>1, <3>2
  <2> QED BY <2>1, <1>0 DEF Visits
<1> QED BY <1>7, <1>9, <1>10 DEF InPass

\* A section is entered.
LEMMA SectionEntered ==
  ASSUME NEW e, NEW n, NEW st, NEW v, NEW s \in 1..n, Outline(e, n),
         InPass(e, n, st, e[s], s, v), st[s] \in {"NeverEntered", "NeedsRun"},
         st[e[s]] = "Running",
         NEW su \in [0..n -> RunStates],
         su[s] = "Running", su[e[s]] = "RunningEnteredSubsection",
         \A r \in 0..n : r # s /\ r # e[s] => su[r] = st[r],
         NEW x, FirstIn(e, n, s, x)
  PROVE  InPass(e, n, su, s, x, v \o VisitOf(e, n, s))
<1>n. n \in Nat /\ e[s] \in 0..n /\ e[s] < s /\ s \in 0..n
  BY DEF Outline
<1>e. \A r \in 1..n : e[r] \in 0..n /\ e[r] < r /\ r \in 0..n
  BY <1>n DEF Outline
<1>0. /\ Walk(e, n, st, e[s], s) /\ Calm(e, n, st) /\ Visits(e, n, st, v)
  BY DEF InPass
<1>1. \A r \in 1..n : e[r] = e[s] /\ r < s => st[r] = "Completed"
  BY <1>0 DEF Walk
<1>2. \A r \in 0..n : r # s => /\ su[r] = "Completed" <=> st[r] = "Completed"
                               /\ su[r] \in Running <=> st[r] \in Running
                               /\ su[r] \in Entered <=> st[r] \in Entered
  BY <1>n DEF Entered, Running
<1>3. \A r \in 0..n : su[r] \in Running => r = s \/ r <= e[s]
  BY <1>0, <1>2 DEF Walk
<1>4. st[s] # "Completed" /\ su[s] # "Completed" /\ su[s] \in Running /\ st[s] \notin Entered
  BY DEF Entered, Running
<1>5. Walk(e, n, su, s, x)
  <2>1. \A r \in 0..n : su[r] \in Running => r <= s
    BY <1>3, <1>n
  <2>2. ASSUME NEW r \in 1..n, su[r] \in Running PROVE su[e[r]] \in Running
    <3>1. CASE r = s
      BY <3>1 DEF Running
    <3>2. CASE r # s
      <4>1. st[r] \in Running /\ r <= e[s]
        BY <3>2, <2>2, <1>2, <1>3, <1>e
      <4>2. st[e[r]] \in Running /\ e[r] # s
        BY <4>1, <1>0, <1>e, <1>n DEF Walk
      <4> QED BY <4>2, <1>2, <1>e
    <3> QED BY <3>1, <3>2
  <2>3. ASSUME NEW q \in 0..n, NEW r \in 1..n, su[q] \in Running, su[r] \in Running, q < r
        PROVE  q <= e[r] /\ su[q] = "RunningEnteredSubsection"
    <3>1. r <= s /\ q # s
      BY <2>1, <2>3, <1>e, <1>n
    <3>2. st[q] \in Running /\ q <= e[s]
      BY <3>1, <2>3, <1>0, <1>2 DEF Walk
    <3>3. CASE r = s
      <4>1. CASE q = e[s]
        BY <3>3, <4>1, <1>n
      <4>2. CASE q # e[s]
        <5>1. e[s] \in 1..n /\ q < e[s]
          BY <3>2, <4>2, <1>n
        <5>2. st[e[s]] \in Running
          BY DEF Running
        <5>3. st[q] = "RunningEnteredSubsection"
          BY <5>1, <5>2, <3>2, <1>0 DEF Walk
        <5> QED BY <5>3, <3>1, <3>2, <3>3, <4>2
      <4> QED BY <4>1, <4>2
    <3>4. CASE r # s
      <4>1. st[r] \in Running /\ r <= e[s]
        BY <3>4, <2>3, <1>2, <1>3, <1>e
      <4>2. q <= e[r] /\ st[q] = "RunningEnteredSubsection"
        BY <4>1, <3>2, <2>3, <1>0 DEF Walk
      <4>3. q # e[s]
        BY <4>1, <2>3, <1>n
      <4> QED BY <4>2, <4>3, <3>1
    <3> QED BY <3>3, <3>4
  <2>4. \A r \in 1..n : ~(e[r] = s /\ r < x)
    BY <1>n DEF FirstIn
  <2> QED BY <2>1, <2>2, <2>3, <2>4, <1>4, <1>n DEF Walk
<1>6. Calm(e, n, su)
  <2>1. ASSUME NEW r \in 1..n, su[e[r]] = "Completed" PROVE su[r] = "Completed"
    <3>1. e[r] # s /\ st[e[r]] = "Completed"
      BY <2>1, <1>2, <1>4, <1>e
    <3>2. st[r] = "Completed"
      BY <3>1, <1>0 DEF Calm
    <3> QED BY <3>2, <1>2, <1>4, <1>e
  <2>2. ASSUME NEW q \in 1..n, su[q] \in Entered, NEW r \in 1..n, e[r] = e[q], r < q
        PROVE  su[r] = "Completed"
    <3>1. st[r] = "Completed"
      <4>1. CASE q = s
        BY <4>1, <2>2, <1>1
      <4>2. CASE q # s
        BY <4>2, <2>2, <1>0, <1>2, <1>e DEF Calm
      <4> QED BY <4>1, <4>2
    <3> QED BY <3>1, <1>2, <1>4, <1>e
  <2>3. \A r \in 0..n : Childless(e, n, r) =>
          su[r] \notin {"RunningEnteredSubsection", "RunningNeedsRerun"}
    <3>1. ~Childless(e, n, e[s])
      BY DEF Childless
    <3> QED BY <3>1, <1>0 DEF Calm
  <2> QED BY <2>1, <2>2, <2>3 DEF Calm
<1>7. Visits(e, n, su, v \o VisitOf(e, n, s))
  <2>1. CASE ~Childless(e, n, s)
    <3>1. v \in Seq(0..n)
      BY <1>0 DEF Visits
    <3>2. v \o VisitOf(e, n, s) = v
      BY <3>1, <2>1 DEF VisitOf
    <3>3. \A r \in 0..n : Childless(e, n, r) => (su[r] \in Entered <=> st[r] \in Entered)
      BY <2>1, <1>2
    <3>4. Visits(e, n, su, v)
      BY <3>3, <1>0 DEF Visits
    <3> QED BY <3>2, <3>4
  <2>2. CASE Childless(e, n, s)
    <3> DEFINE w == v \o VisitOf(e, n, s)
    <3>1. v \in Seq(0..n) /\ DOMAIN v = 1..Len(v) /\ Len(v) \in Nat
      BY <1>0 DEF Visits
    <3>2. /\ w \in Seq(0..n) /\ Len(w) = Len(v) + 1
          /\ \A k \in 1..Len(v) : w[k] = v[k]
          /\ w[Len(v) + 1] = s
      <4>1. VisitOf(e, n, s) = <<s>>
        BY <2>2 DEF VisitOf
      <4>2. <<s>> \in Seq(0..n) /\ Len(<<s>>) = 1 /\ <<s>>[1] = s /\ 1 \in 1..1
        BY <1>n
      <4>3. /\ v \o <<s>> \in Seq(0..n) /\ Len(v \o <<s>>) = Len(v) + 1
            /\ \A k \in 1..Len(v) : (v \o <<s>>)[k] = v[k]
            /\ (v \o <<s>>)[Len(v) + 1] = s
        BY <4>2, <3>1, ConcatElements
      <4> QED BY <4>1, <4>3
    <3> HIDE DEF w
    <3>3. DOMAIN w = 1..Len(v) + 1
      BY <3>1, <3>2
    <3>4. \A k \in 1..Len(v) + 1 : k \in 1..Len(v) \/ k = Len(v) + 1
      BY <3>1
    <3>5. \A k \in DOMAIN v : st[v[k]] \in Entered /\ v[k] \in 0..n /\ Childless(e, n, v[k])
      <4>1. \A k \in DOMAIN v : v[k] \in 0..n
        <5> DEFINE S == 0..n
        <5>1. v \in Seq(S)
          BY <3>1
        <5> HIDE DEF S
        <5>2. \A k \in 1..Len(v) : v[k] \in S
          BY <5>1
        <5> QED BY <5>2, <3>1 DEF S
      <4> QED BY <4>1, <1>0 DEF Visits
    <3>6. \A r \in 0..n : r < s => st[r] \in Entered
      <4>1. st[e[s]] \in Running
        BY DEF Running
      <4> QED BY <4>1, <1>0, <1>1, AllBefore
    <3>7. \A k \in DOMAIN v : v[k] < s
      <4>1. \A k \in DOMAIN v : v[k] # s /\ ~(s < v[k])
        BY <3>5, <2>2, <1>0, <1>4, <1>n DEF Visits
      <4> QED BY <4>1, <3>5, <1>n
    <3>8. \A k \in DOMAIN w : Childless(e, n, w[k])
      BY <3>1, <3>2, <3>3, <3>4, <3>5, <2>2
    <3>9. ASSUME NEW j \in DOMAIN w, NEW k \in DOMAIN w, j < k PROVE w[j] < w[k]
      <4>1. j \in 1..Len(v)
        BY <3>9, <3>1, <3>3
      <4>2. CASE k = Len(v) + 1
        BY <4>1, <4>2, <3>1, <3>2, <3>7
      <4>3. CASE k \in 1..Len(v)
        BY <4>1, <4>3, <3>9, <3>1, <3>2, <1>0 DEF Visits
      <4> QED BY <4>2, <4>3, <3>3, <3>4
    <3>10. ASSUME NEW r \in 0..n, Childless(e, n, r)
           PROVE  su[r] \in Entered <=> \E k \in DOMAIN w : w[k] = r
      <4>1. CASE r = s
        <5>1. Len(v) + 1 \in DOMAIN w
          BY <3>1, <3>3
        <5> QED BY <5>1, <4>1, <3>2, <1>4 DEF Entered
      <4>2. CASE r # s
        <5>1. su[r] \in Entered <=> \E k \in DOMAIN v : v[k] = r
          BY <4>2, <3>10, <1>0, <1>2 DEF Visits
        <5>2. (\E k \in DOMAIN v : v[k] = r) => \E k \in DOMAIN w : w[k] = r
          BY <3>1, <3>2, <3>3
        <5>3. (\E k \in DOMAIN w : w[k] = r) => \E k \in DOMAIN v : v[k] = r
          BY <4>2, <3>1, <3>2, <3>3, <3>4
        <5> QED BY <5>1, <5>2, <5>3
      <4> QED BY <4>1, <4>2
    <3>11. ASSUME NEW q \in 0..n, NEW r \in 0..n, Childless(e, n, q), Childless(e, n, r),
                  r < q, su[q] \in Entered
           PROVE  su[r] \in Entered
      <4>1. CASE q = s
        BY <4>1, <3>6, <3>11, <1>2, <1>n
      <4>2. CASE q # s
        <5>1. st[r] \in Entered
          BY <4>2, <3>11, <1>0, <1>2 DEF Visits
        <5> QED BY <5>1, <1>2, <1>4
      <4> QED BY <4>1, <4>2
    <3>12. Visits(e, n, su, w)
      BY <3>2, <3>8, <3>9, <3>10, <3>11 DEF Visits
    <3> QED BY <3>12 DEF w
  <2> QED BY <2>1, <2>2
<1> QED BY <1>5, <1>6, <1>7 DEF InPass

AllVisited(e, n, v) ==
  \A s \in 0..n : Childless(e, n, s) => \E k \in DOMAIN v : v[k] = s

\* When the scenario need not be run again every leaf has been visited.
LEMMA PassesEnd ==
  ASSUME NEW e, NEW n, NEW st, NEW v, Outline(e, n), InPass(e, n, st, 0, n + 1, v),
         st[0] # "RunningNeedsRerun"
  PROVE  AllVisited(e, n, v)
<1> SUFFICES ASSUME NEW s \in 0..n, Childless(e, n, s)
             PROVE  \E k \in DOMAIN v : v[k] = s
  BY DEF AllVisited
<1>n. n \in Nat
  BY DEF Outline
<1>0. /\ Walk(e, n, st, 0, n + 1) /\ Calm(e, n, st) /\ Visits(e, n, st, v)
  BY DEF InPass
<1>1. st[s] \in Entered
  <2>1. CASE s = 0
    BY <2>1, <1>0 DEF Walk, Entered
  <2>2. CASE s # 0
    <3>1. \A r \in 1..n : r < n + 1
      BY <1>n
    <3>2. \A r \in 1..n : e[r] = 0 => st[r] = "Completed"
      BY <3>1, <1>0 DEF Walk
    <3>3. st[s] = "Completed"
      BY <3>2, <2>2, <1>0, <1>n, AllCompleted
    <3> QED BY <3>3 DEF Entered
  <2> QED BY <2>1, <2>2
<1> QED BY <1>0, <1>1 DEF Visits

-----------------------------------------------------------------------------
(* The order in which sections get their numbers: those met on the way to a leaf  *)
(* and on the way back from it, pass after pass.                                 *)

\* The first leaf at or after section s, and the leaf of the pass that numbers s.
NextLeaf(e, n, s) == Least({l \in s..n : Childless(e, n, l)})
Turn(e, n, s) == NextLeaf(e, n, e[s])

Prior(e, n, s, r) ==
  \/ Turn(e, n, s) < Turn(e, n, r)
  \/ Turn(e, n, s) = Turn(e, n, r) /\ s < r

\* Everything after c up to s is in c.
InIt(e, c, s) == \A i \in c + 1..s : e[i] >= c

LastLeaf(e, n, st, l) ==
  /\ l \in 0..n /\ Childless(e, n, l) /\ st[l] \in Entered
  /\ \A r \in 0..n : Childless(e, n, r) /\ st[r] \in Entered => r <= l

\* Nothing in section c was entered in this pass.
Descends(e, n, st, c) == st[c] = "Running" /\ ~Childless(e, n, c)

\* A section has a number if its turn came, but for those in c that this pass has yet
\* to come to.
Told(e, n, st, sv, c, x) ==
  \/ /\ Descends(e, n, st, c)
     /\ \A s \in 1..n : st[Turn(e, n, s)] \in Entered => sv[s] # None
  \/ /\ ~Descends(e, n, st, c)
     /\ \E l \in 0..n :
          /\ LastLeaf(e, n, st, l) /\ c <= l /\ l < x /\ InIt(e, c, l)
          /\ \A s \in 1..n : st[Turn(e, n, s)] \in Entered =>
               sv[s] # None \/ (Turn(e, n, s) = l /\ ~(s < x /\ InIt(e, c, s)))

\* Where something must still be run, a section in it is not completed.
Owes(e, n, st) ==
  \A s \in 0..n : ~Childless(e, n, s) /\
      st[s] \in {"NeverEntered", "NeedsRun", "Running", "RunningNeedsRerun"} =>
    \E r \in 1..n : e[r] = s /\ st[r] # "Completed"

\* Sections that were entered have numbers.
EnteredNumbered(n, st, sv) == \A s \in 0..n : st[s] \in Entered => sv[s] # None

\* The least of a set is in it.
LEMMA LeastOf ==
  ASSUME NEW S, S \subseteq Nat, S # {}
  PROVE  Least(S) \in S /\ \A r \in S : Least(S) <= r
BY LeastNumber DEF Least

LEMMA NextLeafIs ==
  ASSUME NEW e, NEW n, Outline(e, n), NEW s \in 0..n
  PROVE  /\ NextLeaf(e, n, s) \in 0..n /\ s <= NextLeaf(e, n, s)
         /\ Childless(e, n, NextLeaf(e, n, s))
         /\ \A r \in 0..n : Childless(e, n, r) /\ s <= r => NextLeaf(e, n, s) <= r
<1>n. n \in Nat
  BY DEF Outline
<1> DEFINE S == {l \in s..n : Childless(e, n, l)}
<1>1. S \subseteq Nat
  BY <1>n
<1>2. n \in S
  <2>1. \A c \in 1..n : e[c] # n
    BY <1>n DEF Outline
  <2> QED BY <2>1, <1>n DEF Childless
<1>3. Least(S) \in S /\ \A r \in S : Least(S) <= r
  <2> HIDE DEF S
  <2> QED BY <1>1, <1>2, LeastOf
<1>4. NextLeaf(e, n, s) = Least(S)
  BY DEF NextLeaf
<1> QED BY <1>3, <1>4, <1>n

LEMMA TurnIs ==
  ASSUME NEW e, NEW n, Outline(e, n), NEW s \in 1..n
  PROVE  /\ Turn(e, n, s) \in 0..n /\ e[s] <= Turn(e, n, s)
         /\ Childless(e, n, Turn(e, n, s))
         /\ \A r \in 0..n : Childless(e, n, r) /\ e[s] <= r => Turn(e, n, s) <= r
<1>1. e[s] \in 0..n
  BY DEF Outline
<1> QED BY <1>1, NextLeafIs DEF Turn

\* Everything before the current section is under way or completed.
LEMMA BeforeCurrent ==
  ASSUME NEW e, NEW n, NEW st, NEW v, NEW c, NEW x, Outline(e, n), InPass(e, n, st, c, x, v),
         NEW q \in 0..n, q < c
  PROVE  st[q] \in Entered
<1>n. n \in Nat
  BY DEF Outline
<1>1. Walk(e, n, st, c, x) /\ Calm(e, n, st)
  BY DEF InPass
<1>2. c \in 1..n
  BY <1>1, <1>n DEF Walk
<1>3. st[c] \in Running /\ st[e[c]] \in Running
  BY <1>1, <1>2, Zenon DEF Walk
<1>4. \A r \in 1..n : e[r] = e[c] /\ r < c => st[r] = "Completed"
  <2>1. st[c] \in Entered
    BY <1>3 DEF Entered
  <2> QED BY <2>1, <1>1, <1>2, Zenon DEF Calm
<1> QED BY <1>1, <1>2, <1>3, <1>4, AllBefore

\* When a section is met for the first time, all those prior to it have numbers.
LEMMA TurnComes ==
  ASSUME NEW e, NEW n, NEW st, NEW v, NEW sv, NEW x \in 1..n, Outline(e, n),
         InPass(e, n, st, e[x], x, v), Told(e, n, st, sv, e[x], x), EnteredNumbered(n, st, sv),
         NEW s \in 1..n, Prior(e, n, s, x)
  PROVE  sv[s] # None
<1>n. n \in Nat /\ e[x] \in 0..n /\ e[s] \in 0..n /\ e[x] < x
  BY DEF Outline
<1>1. /\ Turn(e, n, s) \in 0..n /\ e[s] <= Turn(e, n, s)
      /\ Childless(e, n, Turn(e, n, s))
      /\ Turn(e, n, x) \in 0..n /\ e[x] <= Turn(e, n, x)
      /\ Childless(e, n, Turn(e, n, x))
      /\ \A r \in 0..n : Childless(e, n, r) /\ e[x] <= r => Turn(e, n, x) <= r
  BY TurnIs
<1>2. CASE Turn(e, n, s) < Turn(e, n, x)
  <2>1. Turn(e, n, s) < e[x]
    BY <1>1, <1>2, <1>n
  <2>2. st[Turn(e, n, s)] \in Entered
    BY <2>1, <1>1, BeforeCurrent
  <2> QED BY <2>1, <2>2, <1>1, <1>n DEF Told
<1>3. CASE Turn(e, n, s) = Turn(e, n, x) /\ s < x
  <2>1. CASE Descends(e, n, st, e[x])
    <3>1. Walk(e, n, st, e[x], x) /\ Calm(e, n, st)
      BY DEF InPass
    <3>2. \A r \in 1..n : e[r] = e[x] /\ r < x => st[r] = "Completed"
      <4>1. st[e[x]] # "RunningNeedsRerun"
        BY <2>1 DEF Descends
      <4> QED BY <4>1, <3>1, Zenon DEF Walk
    <3>3. st[e[x]] \in Running
      BY <3>1 DEF Walk
    <3>4. s \in 0..n /\ s < x
      BY <1>3, <1>n
    <3>5. st[s] \in Entered
      BY <3>1, <3>2, <3>3, <3>4, AllBefore
    <3> QED BY <3>4, <3>5 DEF EnteredNumbered
  <2>2. CASE ~Descends(e, n, st, e[x])
    <3>1. PICK l \in 0..n :
            /\ LastLeaf(e, n, st, l) /\ e[x] <= l /\ l < x /\ InIt(e, e[x], l)
            /\ \A r \in 1..n : st[Turn(e, n, r)] \in Entered =>
                 sv[r] # None \/ (Turn(e, n, r) = l /\ ~(r < x /\ InIt(e, e[x], r)))
      BY <2>2 DEF Told
    <3>2. Turn(e, n, x) <= l
      BY <3>1, <1>1 DEF LastLeaf
    <3>3. st[Turn(e, n, s)] \in Entered
      <4>1. CASE Turn(e, n, s) = l
        BY <4>1, <3>1 DEF LastLeaf
      <4>2. CASE Turn(e, n, s) < l
        <5>1. Visits(e, n, st, v) /\ st[l] \in Entered /\ Childless(e, n, l)
          BY <3>1 DEF InPass, LastLeaf
        <5> QED BY <5>1, <4>2, <1>1 DEF Visits
      <4> QED BY <4>1, <4>2, <3>2, <1>1, <1>3, <1>n
    <3>4. InIt(e, e[x], s)
      <4>1. \A i \in e[x] + 1..x - 1 : e[i] >= e[x]
        BY DEF Outline
      <4>2. \A i \in e[x] + 1..s : i \in e[x] + 1..x - 1
        BY <1>3, <1>n
      <4> QED BY <4>1, <4>2 DEF InIt
    <3> QED BY <3>1, <3>3, <3>4, <1>3
  <2> QED BY <2>1, <2>2
<1> QED BY <1>2, <1>3 DEF Prior

-----------------------------------------------------------------------------
(* The steps of a pass, again: what they do to the order of the numbers. *)

SameLeaves(e, n, st, su) ==
  \A l \in 0..n : Childless(e, n, l) => (su[l] \in Entered <=> st[l] \in Entered)

LEMMA LastLeafStays ==
  ASSUME NEW e, NEW n, NEW st, NEW su, SameLeaves(e, n, st, su), NEW l, LastLeaf(e, n, st, l)
  PROVE  LastLeaf(e, n, su, l)
BY DEF SameLeaves, LastLeaf

\* Control goes past section s, which is passed over or put off.
LEMMA TurnsPast ==
  ASSUME NEW e, NEW n, NEW st, NEW su, NEW sv, NEW s \in 1..n, Outline(e, n),
         Told(e, n, st, sv, e[s], s), sv[s] # None,
         SameLeaves(e, n, st, su), Descends(e, n, su, e[s]) <=> Descends(e, n, st, e[s]),
         NEW x \in Nat, NextIn(e, n, s, x), s < x
  PROVE  Told(e, n, su, sv, e[s], x)
<1>n. n \in Nat /\ e[s] \in 0..n /\ e[s] < s
  BY DEF Outline
<1>e. \A r \in 1..n : e[r] \in 0..n /\ e[r] < r
  BY DEF Outline
<1>1. \A r \in 1..n : su[Turn(e, n, r)] \in Entered => st[Turn(e, n, r)] \in Entered
  BY TurnIs DEF SameLeaves
<1>2. CASE Descends(e, n, st, e[s])
  BY <1>1, <1>2 DEF Told
<1>3. CASE ~Descends(e, n, st, e[s])
  <2>1. PICK l \in 0..n :
          /\ LastLeaf(e, n, st, l) /\ e[s] <= l /\ l < s /\ InIt(e, e[s], l)
          /\ \A r \in 1..n : st[Turn(e, n, r)] \in Entered =>
               sv[r] # None \/ (Turn(e, n, r) = l /\ ~(r < s /\ InIt(e, e[s], r)))
    BY <1>3 DEF Told
  <2>2. LastLeaf(e, n, su, l)
    BY <2>1, LastLeafStays
  <2>3. ASSUME NEW r \in 1..n, st[Turn(e, n, r)] \in Entered, sv[r] = None
        PROVE  Turn(e, n, r) = l /\ ~(r < x /\ InIt(e, e[s], r))
    <3>1. Turn(e, n, r) = l /\ ~(r < s /\ InIt(e, e[s], r))
      BY <2>1, <2>3
    <3>2. ASSUME r < x, InIt(e, e[s], r) PROVE FALSE
      <4>1. r > s
        BY <3>1, <3>2, <2>3, <1>n
      <4>2. e[r] <= l
        BY <3>1, TurnIs
      <4>3. e[r] < s
        BY <4>2, <2>1, <1>n, <1>e
      <4>4. e[s] >= e[r]
        <5>1. \A i \in e[r] + 1..r - 1 : e[i] >= e[r]
          BY DEF Outline
        <5>2. s \in e[r] + 1..r - 1
          BY <4>1, <4>3, <1>n, <1>e
        <5> QED BY <5>1, <5>2
      <4>5. e[r] >= e[s]
        <5>1. r \in e[s] + 1..r
          BY <4>1, <1>n
        <5> QED BY <5>1, <3>2 DEF InIt
      <4>6. e[r] = e[s]
        BY <4>4, <4>5, <1>n, <1>e
      <4>7. r <= s
        BY <4>6, <3>2 DEF NextIn
      <4> QED BY <4>1, <4>7, <1>n
    <3> QED BY <3>1, <3>2
  <2>4. e[s] <= l /\ l < x /\ InIt(e, e[s], l)
    BY <2>1, <1>n
  <2>5. \A r \in 1..n : su[Turn(e, n, r)] \in Entered =>
          sv[r] # None \/ (Turn(e, n, r) = l /\ ~(r < x /\ InIt(e, e[s], r)))
    BY <2>3, <1>1
  <2> QED BY <2>2, <2>4, <2>5, <1>3 DEF Told
<1> QED BY <1>2, <1>3

\* Section s is entered.
LEMMA TurnsEntered ==
  ASSUME NEW e, NEW n, NEW st, NEW su, NEW sv, NEW v, NEW s \in 1..n, Outline(e, n),
         InPass(e, n, st, e[s], s, v), EnteredNumbered(n, st, sv),
         Told(e, n, st, sv, e[s], s), sv[s] # None,
         st[s] \in {"NeverEntered", "NeedsRun"}, st[e[s]] = "Running",
         su[s] = "Running", su[e[s]] = "RunningEnteredSubsection",
         \A r \in 0..n : r # s /\ r # e[s] => su[r] = st[r],
         NEW x \in Nat, s < x
  PROVE  Told(e, n, su, sv, s, x)
<1>n. n \in Nat /\ e[s] \in 0..n /\ e[s] < s /\ s \in 0..n
  BY DEF Outline
<1>e. \A r \in 1..n : e[r] \in 0..n /\ e[r] < r
  BY DEF Outline
<1>0. ~Childless(e, n, e[s])
  BY DEF Childless
<1>1. \A r \in 1..n : st[Turn(e, n, r)] \in Entered => sv[r] # None
  BY <1>0 DEF Told, Descends
<1>2. \A r \in 1..n : su[Turn(e, n, r)] \in Entered /\ Turn(e, n, r) # s => sv[r] # None
  <2>1. \A r \in 1..n : Turn(e, n, r) # e[s] /\ Turn(e, n, r) \in 0..n
    BY <1>0, TurnIs
  <2> QED BY <2>1, <1>1
<1>3. CASE ~Childless(e, n, s)
  <2>1. Descends(e, n, su, s)
    BY <1>3 DEF Descends
  <2>2. \A r \in 1..n : Turn(e, n, r) # s
    BY <1>3, TurnIs
  <2> QED BY <2>1, <2>2, <1>2 DEF Told
<1>4. CASE Childless(e, n, s)
  <2>1. ~Descends(e, n, su, s)
    BY <1>4 DEF Descends
  <2>2. LastLeaf(e, n, su, s)
    <3>1. su[s] \in Entered /\ st[s] \notin Entered
      BY DEF Entered, Running
    <3>2. ASSUME NEW r \in 0..n, Childless(e, n, r), su[r] \in Entered PROVE r <= s
      <4>1. SUFFICES ASSUME r > s PROVE FALSE
        BY <1>n
      <4>2. st[r] \in Entered
        BY <4>1, <3>2, <1>0, <1>n
      <4>3. Visits(e, n, st, v)
        BY DEF InPass
      <4>4. st[s] \in Entered
        BY <4>1, <4>2, <4>3, <3>2, <1>4, <1>n DEF Visits
      <4> QED BY <4>4, <3>1
    <3> QED BY <3>1, <3>2, <1>4, <1>n DEF LastLeaf
  <2>3. ASSUME NEW r \in 1..n, Turn(e, n, r) = s, r < x /\ InIt(e, s, r)
        PROVE  sv[r] # None
    <3>1. r <= s
      <4>1. SUFFICES ASSUME r > s PROVE FALSE
        BY <1>n
      <4>2. s + 1 \in s + 1..r /\ s + 1 \in 1..n
        BY <4>1, <1>n
      <4>3. e[s + 1] >= s
        BY <4>2, <2>3 DEF InIt
      <4>4. e[s + 1] = s
        BY <4>2, <4>3, <1>e, <1>n
      <4> QED BY <4>2, <4>4, <1>4 DEF Childless
    <3>2. CASE r = s
      BY <3>2
    <3>3. CASE r # s
      <4>1. r \in 0..n /\ r < s
        BY <3>1, <3>3, <1>n
      <4>2. Walk(e, n, st, e[s], s) /\ Calm(e, n, st)
        BY DEF InPass
      <4>3. /\ st[e[s]] \in Running
            /\ \A q \in 1..n : e[q] = e[s] /\ q < s => st[q] = "Completed"
        BY <4>2 DEF Walk
      <4>4. st[r] \in Entered
        BY <4>1, <4>2, <4>3, AllBefore
      <4> QED BY <4>1, <4>4 DEF EnteredNumbered
    <3> QED BY <3>2, <3>3
  <2>4. \A r \in 1..n : su[Turn(e, n, r)] \in Entered =>
          sv[r] # None \/ (Turn(e, n, r) = s /\ ~(r < x /\ InIt(e, s, r)))
    BY <2>3, <1>2
  <2>5. InIt(e, s, s)
    BY <1>n DEF InIt
  <2> QED BY <2>1, <2>2, <2>4, <2>5, <1>n DEF Told
<1> QED BY <1>3, <1>4

\* A section that is left was entered into, or is a leaf.
LEMMA LeavingEntered ==
  ASSUME NEW e, NEW n, NEW st, NEW v, NEW s, Outline(e, n),
         InPass(e, n, st, s, n + 1, v), Owes(e, n, st)
  PROVE  ~Descends(e, n, st, s)
<1> SUFFICES ASSUME Descends(e, n, st, s) PROVE FALSE
  OBVIOUS
<1>n. n \in Nat
  BY DEF Outline
<1>1. Walk(e, n, st, s, n + 1) /\ s \in 0..n /\ st[s] = "Running" /\ ~Childless(e, n, s)
  BY DEF InPass, Walk, Descends
<1>2. PICK r \in 1..n : e[r] = s /\ st[r] # "Completed"
  BY <1>1 DEF Owes
<1>3. r < n + 1
  BY <1>n
<1> QED BY <1>1, <1>2, <1>3 DEF Walk

\* Section s is left.
LEMMA TurnsLeft ==
  ASSUME NEW e, NEW n, NEW st, NEW su, NEW sv, NEW s \in 1..n, Outline(e, n),
         Told(e, n, st, sv, s, n + 1), ~Descends(e, n, st, s),
         SameLeaves(e, n, st, su), ~Descends(e, n, su, e[s]),
         NEW x \in Nat, NextIn(e, n, s, x), s < x,
         x = n + 1 \/ (x \in 1..n /\ e[x] = e[s])
  PROVE  Told(e, n, su, sv, e[s], x)
<1>n. n \in Nat /\ e[s] \in 0..n /\ e[s] < s
  BY DEF Outline
<1>e. \A r \in 1..n : e[r] \in 0..n /\ e[r] < r
  BY DEF Outline
<1>1. \A r \in 1..n : su[Turn(e, n, r)] \in Entered => st[Turn(e, n, r)] \in Entered
  BY TurnIs DEF SameLeaves
<1>2. PICK l \in 0..n :
        /\ LastLeaf(e, n, st, l) /\ s <= l /\ l < n + 1 /\ InIt(e, s, l)
        /\ \A r \in 1..n : st[Turn(e, n, r)] \in Entered =>
             sv[r] # None \/ (Turn(e, n, r) = l /\ ~(r < n + 1 /\ InIt(e, s, r)))
  BY DEF Told
<1>3. LastLeaf(e, n, su, l)
  BY <1>2, LastLeafStays
<1>4. InIt(e, e[s], l)
  <2>1. ASSUME NEW i \in e[s] + 1..l PROVE e[i] >= e[s]
    <3>1. i \in 1..n
      BY <1>n
    <3>2. CASE i < s
      <4>1. i \in e[s] + 1..s - 1
        BY <3>2, <1>n
      <4> QED BY <4>1 DEF Outline
    <3>3. CASE i = s
      BY <3>3, <1>n
    <3>4. CASE i > s
      <4>1. i \in s + 1..l
        BY <3>4, <1>n
      <4>2. e[i] >= s
        BY <4>1, <1>2 DEF InIt
      <4> QED BY <4>2, <3>1, <1>n, <1>e
    <3> QED BY <3>1, <3>2, <3>3, <3>4, <1>n
  <2> QED BY <2>1 DEF InIt
<1>5. l < x
  <2>1. CASE x = n + 1
    BY <2>1, <1>2
  <2>2. CASE x \in 1..n /\ e[x] = e[s]
    <3>1. SUFFICES ASSUME x <= l PROVE FALSE
      BY <1>n
    <3>2. x \in s + 1..l
      BY <3>1, <1>n
    <3>3. e[x] >= s
      BY <3>2, <1>2 DEF InIt
    <3> QED BY <3>3, <2>2, <1>n
  <2> QED BY <2>1, <2>2
<1>6. ASSUME NEW r \in 1..n, st[Turn(e, n, r)] \in Entered, sv[r] = None
      PROVE  Turn(e, n, r) = l /\ ~(r < x /\ InIt(e, e[s], r))
  <2>1. Turn(e, n, r) = l /\ ~InIt(e, s, r)
    <3>1. r < n + 1
      BY <1>n
    <3> QED BY <3>1, <1>2, <1>6
  <2>2. ASSUME r < x, InIt(e, e[s], r) PROVE FALSE
    <3>1. PICK i \in s + 1..r : ~(e[i] >= s)
      BY <2>1 DEF InIt
    <3>2. i \in 1..n /\ i > s /\ i <= r /\ e[i] < s
      BY <3>1, <1>n, <1>e
    <3>3. e[i] >= e[s]
      <4>1. i \in e[s] + 1..r
        BY <3>2, <1>n
      <4> QED BY <4>1, <2>2 DEF InIt
    <3>4. e[s] >= e[i]
      <4>1. s \in e[i] + 1..i - 1
        BY <3>2, <1>n, <1>e
      <4> QED BY <4>1, <3>2 DEF Outline
    <3>5. e[i] = e[s]
      BY <3>2, <3>3, <3>4, <1>n, <1>e
    <3>6. i < x
      BY <3>2, <2>2, <1>n
    <3>7. i <= s
      BY <3>2, <3>5, <3>6 DEF NextIn
    <3> QED BY <3>2, <3>7, <1>n
  <2> QED BY <2>1, <2>2
<1>7. \A r \in 1..n : su[Turn(e, n, r)] \in Entered =>
        sv[r] # None \/ (Turn(e, n, r) = l /\ ~(r < x /\ InIt(e, e[s], r)))
  BY <1>1, <1>6
<1>8. e[s] <= l
  BY <1>2, <1>n
<1> QED BY <1>3, <1>4, <1>5, <1>7, <1>8 DEF Told

\* The next pass begins.
LEMMA TurnsAgain ==
  ASSUME NEW e, NEW n, NEW st, NEW su, NEW sv, Outline(e, n),
         Told(e, n, st, sv, 0, n + 1), st[0] = "RunningNeedsRerun",
         su[0] = "Running", \A s \in 1..n : su[s] = st[s], ~Childless(e, n, 0), NEW x
  PROVE  Told(e, n, su, sv, 0, x)
<1>n. n \in Nat /\ \A r \in 1..n : e[r] \in 0..n
  BY DEF Outline
<1>1. Descends(e, n, su, 0) /\ ~Descends(e, n, st, 0)
  BY DEF Descends
<1>2. PICK l \in 0..n :
        \A r \in 1..n : st[Turn(e, n, r)] \in Entered =>
          sv[r] # None \/ (Turn(e, n, r) = l /\ ~(r < n + 1 /\ InIt(e, 0, r)))
  BY <1>1 DEF Told
<1>3. ASSUME NEW r \in 1..n, su[Turn(e, n, r)] \in Entered PROVE sv[r] # None
  <2>1. Turn(e, n, r) \in 1..n
    <3>1. Turn(e, n, r) \in 0..n /\ Turn(e, n, r) # 0
      BY TurnIs
    <3> QED BY <3>1, <1>n
  <2>2. st[Turn(e, n, r)] \in Entered
    BY <2>1, <1>3
  <2>3. r < n + 1
    BY <1>n
  <2>4. InIt(e, 0, r)
    <3>1. \A i \in 0 + 1..r : i \in 1..n
      BY <1>n
    <3> QED BY <3>1, <1>n DEF InIt
  <2> QED BY <2>2, <2>3, <2>4, <1>2
<1> QED BY <1>1, <1>3 DEF Told

\* The first pass begins.
LEMMA TurnsBegin ==
  ASSUME NEW e, NEW n, NEW su, NEW sv, Outline(e, n),
         su[0] = "Running", \A s \in 1..n : su[s] = "NeverEntered", NEW x \in Nat, 0 < x
  PROVE  Told(e, n, su, sv, 0, x)
<1>n. n \in Nat /\ \A r \in 1..n : e[r] \in 0..n /\ e[r] < r
  BY DEF Outline
<1>1. \A r \in 1..n : su[r] \notin Entered
  BY DEF Entered, Running
<1>2. CASE ~Childless(e, n, 0)
  <2>1. ASSUME NEW r \in 1..n PROVE su[Turn(e, n, r)] \notin Entered
    <3>1. Turn(e, n, r) \in 0..n /\ Turn(e, n, r) # 0
      BY <1>2, TurnIs
    <3> QED BY <3>1, <1>1, <1>n
  <2> QED BY <2>1, <1>2 DEF Told, Descends
<1>3. CASE Childless(e, n, 0)
  <2>1. n = 0
    <3>1. SUFFICES ASSUME n # 0 PROVE FALSE
      OBVIOUS
    <3>2. 1 \in 1..n
      BY <3>1, <1>n
    <3>3. e[1] = 0
      BY <3>2, <1>n
    <3> QED BY <3>2, <3>3, <1>3 DEF Childless
  <2>2. LastLeaf(e, n, su, 0)
    <3>1. su[0] \in Entered /\ \A r \in 0..n : r <= 0
      BY <2>1 DEF Entered, Running
    <3> QED BY <3>1, <2>1, <1>3 DEF LastLeaf
  <2>3. InIt(e, 0, 0) /\ 0 \in 0..n /\ \A r \in 1..n : FALSE
    BY <2>1 DEF InIt
  <2>4. ~Descends(e, n, su, 0)
    BY <1>3 DEF Descends
  <2> QED BY <2>2, <2>3, <2>4 DEF Told
<1> QED BY <1>2, <1>3

\* What must still be run is owed, at the begin of a pass and after each step of it.
LEMMA OwesBegin ==
  ASSUME NEW e, NEW n, NEW su, Outline(e, n), \A s \in 1..n : su[s] = "NeverEntered"
  PROVE  Owes(e, n, su)
BY DEF Owes, Childless

LEMMA OwesAgain ==
  ASSUME NEW e, NEW n, NEW st, NEW su, Outline(e, n), Owes(e, n, st),
         st[0] = "RunningNeedsRerun", su[0] = "Running", \A s \in 1..n : su[s] = st[s]
  PROVE  Owes(e, n, su)
<1> SUFFICES ASSUME NEW s \in 0..n, ~Childless(e, n, s),
                    su[s] \in {"NeverEntered", "NeedsRun", "Running", "RunningNeedsRerun"}
             PROVE  \E r \in 1..n : e[r] = s /\ su[r] # "Completed"
  BY DEF Owes
<1>n. n \in Nat
  BY DEF Outline
<1>1. st[s] \in {"NeverEntered", "NeedsRun", "Running", "RunningNeedsRerun"}
  <2>1. s = 0 \/ s \in 1..n
    BY <1>n
  <2> QED BY <2>1
<1>2. PICK r \in 1..n : e[r] = s /\ st[r] # "Completed"
  BY <1>1 DEF Owes
<1> QED BY <1>2

LEMMA OwesEntered ==
  ASSUME NEW e, NEW n, NEW st, NEW su, NEW s \in 1..n, Outline(e, n), Owes(e, n, st),
         st[s] \in {"NeverEntered", "NeedsRun"}, st[e[s]] = "Running",
         su[s] = "Running", su[e[s]] = "RunningEnteredSubsection",
         \A r \in 0..n : r # s /\ r # e[s] => su[r] = st[r]
  PROVE  Owes(e, n, su)
<1> SUFFICES ASSUME NEW q \in 0..n, ~Childless(e, n, q),
                    su[q] \in {"NeverEntered", "NeedsRun", "Running", "RunningNeedsRerun"}
             PROVE  \E r \in 1..n : e[r] = q /\ su[r] # "Completed"
  BY DEF Owes
<1>n. \A r \in 1..n : r \in 0..n
  BY DEF Outline
<1>1. st[q] \in {"NeverEntered", "NeedsRun", "Running", "RunningNeedsRerun"}
  BY <1>n
<1>2. PICK r \in 1..n : e[r] = q /\ st[r] # "Completed"
  BY <1>1 DEF Owes
<1>3. su[r] # "Completed"
  BY <1>2, <1>n
<1> QED BY <1>2, <1>3

LEMMA OwesPutOff ==
  ASSUME NEW e, NEW n, NEW st, NEW su, NEW s \in 1..n, Outline(e, n), Owes(e, n, st),
         st[s] \in {"NeverEntered", "NeedsRun"},
         su[s] = "NeedsRun", su[e[s]] = "RunningNeedsRerun",
         \A r \in 0..n : r # s /\ r # e[s] => su[r] = st[r]
  PROVE  Owes(e, n, su)
<1> SUFFICES ASSUME NEW q \in 0..n, ~Childless(e, n, q),
                    su[q] \in {"NeverEntered", "NeedsRun", "Running", "RunningNeedsRerun"}
             PROVE  \E r \in 1..n : e[r] = q /\ su[r] # "Completed"
  BY DEF Owes
<1>n. \A r \in 1..n : r \in 0..n
  BY DEF Outline
<1>1. CASE q = e[s]
  BY <1>1
<1>2. CASE q # e[s]
  <2>1. st[q] \in {"NeverEntered", "NeedsRun", "Running", "RunningNeedsRerun"}
    BY <1>2, <1>n
  <2>2. PICK r \in 1..n : e[r] = q /\ st[r] # "Completed"
    BY <2>1 DEF Owes
  <2>3. su[r] # "Completed"
    BY <2>2, <1>n
  <2> QED BY <2>2, <2>3
<1> QED BY <1>1, <1>2

LEMMA OwesLeft ==
  ASSUME NEW e, NEW n, NEW st, NEW su, NEW s \in 1..n, Outline(e, n), Owes(e, n, st),
         st[e[s]] = "RunningEnteredSubsection",
         \/ /\ st[s] = "RunningNeedsRerun"
            /\ su[s] = "NeedsRun" /\ su[e[s]] = "RunningNeedsRerun"
         \/ /\ st[s] # "RunningNeedsRerun"
            /\ su[s] = "Completed" /\ su[e[s]] = st[e[s]],
         \A r \in 0..n : r # s /\ r # e[s] => su[r] = st[r]
  PROVE  Owes(e, n, su)
<1> SUFFICES ASSUME NEW q \in 0..n, ~Childless(e, n, q),
                    su[q] \in {"NeverEntered", "NeedsRun", "Running", "RunningNeedsRerun"}
             PROVE  \E r \in 1..n : e[r] = q /\ su[r] # "Completed"
  BY DEF Owes
<1>n. \A r \in 1..n : r \in 0..n
  BY DEF Outline
<1>1. CASE q = e[s]
  BY <1>1
<1>2. CASE q # e[s]
  <2>1. st[q] \in {"NeverEntered", "NeedsRun", "Running", "RunningNeedsRerun"}
    BY <1>2, <1>n
  <2>2. PICK r \in 1..n : e[r] = q /\ st[r] # "Completed"
    BY <2>1 DEF Owes
  <2>3. r # s
    BY <2>2, <1>2
  <2>4. su[r] # "Completed"
    BY <2>2, <2>3, <1>n
  <2> QED BY <2>2, <2>4
<1> QED BY <1>1, <1>2

-----------------------------------------------------------------------------
(* The numbers of the sections: sv is what a thread has numbered, sc its scratch data. *)

Scratches ==
  [CurrentSectionID : Int, NextSectionID : Nat, NextStringID : Int,
   ParentID : [Sources -> Int], RunState : [Sources -> RunStates]]

\* The state of a section. One without a number, or with a number there is no state for,
\* was never entered.
StateOf(sv, sc, s) == IF sv[s] \in Sources THEN sc.RunState[sv[s]] ELSE "NeverEntered"
StatesOf(n, sv, sc) == [s \in 0..n |-> StateOf(sv, sc, s)]

\* The parent noted for a section is the section around it.
Parents(e, n, sv, sc) ==
  \A s \in 1..n : StateOf(sv, sc, s) # "NeverEntered" => sc.ParentID[sv[s]] = sv[e[s]]

\* Numbers are given in order, and to the scenario first.
Filled(e, n, sv, next) ==
  /\ sv[0] \in {0, None}
  /\ \A s \in 1..n : sv[s] # None => sv[0] = 0
  /\ \A s, r \in 1..n : sv[r] # None /\ Prior(e, n, s, r) => sv[s] # None /\ sv[s] < sv[r]
  /\ \A id \in 0..next - 1 : \E s \in 0..n : sv[s] = id

\* No two sections have the same number, numbers not yet given have no state.
Numbers(e, n, sv, sc) ==
  /\ n \in Sources
  /\ sv \in [Sources -> Nat \cup {None}]
  /\ sc \in Scratches
  /\ \A s \in Sources : sv[s] # None => sv[s] < sc.NextSectionID
  /\ \A s, r \in Sources : sv[s] = sv[r] /\ sv[s] # None => s = r
  /\ \A id \in Sources : id >= sc.NextSectionID => sc.RunState[id] = "NeverEntered"
  /\ Parents(e, n, sv, sc)
  /\ Filled(e, n, sv, sc.NextSectionID)

\* All sections that have numbers were met, but for the last one to get its number, at
\* whose macro control is.
AllMet(n, sv, sc, x) ==
  \A s \in 0..n : sv[s] # None =>
    StateOf(sv, sc, s) # "NeverEntered" \/ (s = x /\ sv[s] = sc.NextSectionID - 1)

InPassAt(e, n, sv, sc, v, c, x) ==
  /\ InPass(e, n, StatesOf(n, sv, sc), c, x, v)
  /\ Told(e, n, StatesOf(n, sv, sc), sv, c, x)
  /\ Owes(e, n, StatesOf(n, sv, sc))
  /\ AllMet(n, sv, sc, x)
  /\ sc.CurrentSectionID = sv[c]
  /\ sv[0] = 0

\* What the scratch data sd has, after a step that sets the states of sections a and b.
Sets(sv, sc, sd, a, p, b, q) ==
  /\ sd \in Scratches
  /\ sd.NextSectionID = sc.NextSectionID
  /\ \A i \in Sources : sd.RunState[i] =
       IF i = sv[a] THEN p ELSE IF i = sv[b] THEN q ELSE sc.RunState[i]

\* The parent of a section that was never entered is noted.
Notes(sv, sc, sd, s) ==
  \A i \in Sources : sd.ParentID[i] =
    IF i = sv[s] /\ sc.RunState[i] = "NeverEntered" THEN sc.CurrentSectionID
    ELSE sc.ParentID[i]

\* Sections are in one of the states there are.
LEMMA StateTypes ==
  ASSUME NEW e, NEW n, NEW sv, NEW sc, Numbers(e, n, sv, sc)
  PROVE  StatesOf(n, sv, sc) \in [0..n -> RunStates]
<1>1. \A s \in 0..n : StateOf(sv, sc, s) \in RunStates
  BY DEF StateOf, Numbers, Scratches, RunStates
<1> QED BY <1>1 DEF StatesOf

\* Sections and None, under their numbers.
LEMMA SourcesAreNat ==
  /\ Sources \subseteq Nat /\ 0 \in Sources /\ None \notin Sources /\ None \notin Nat
  /\ \A n \in Sources : \A s \in 0..n : s \in Sources
BY SectionsAssumption DEF Sources

\* The states follow the numbers.
LEMMA StatesFollow ==
  ASSUME NEW e, NEW n, NEW sv, NEW sc, NEW sd, Numbers(e, n, sv, sc),
         NEW a \in 0..n, NEW b \in 0..n, sv[a] \in Sources, sv[b] \in Sources,
         NEW p, NEW q, Sets(sv, sc, sd, a, p, b, q)
  PROVE  /\ StateOf(sv, sd, a) = p
         /\ a # b => StateOf(sv, sd, b) = q
         /\ \A r \in 0..n : r # a /\ r # b => StateOf(sv, sd, r) = StateOf(sv, sc, r)
<1>1. \A r \in 0..n : r \in Sources
  BY SourcesAreNat DEF Numbers
<1>2. \A r, s \in 0..n : sv[s] = sv[r] /\ sv[s] \in Sources => s = r
  BY <1>1, SourcesAreNat DEF Numbers
<1>3. StateOf(sv, sd, a) = p
  BY DEF StateOf, Sets
<1>4. ASSUME a # b PROVE StateOf(sv, sd, b) = q
  <2>1. sv[b] # sv[a]
    BY <1>2, <1>4
  <2> QED BY <2>1 DEF StateOf, Sets
<1>5. ASSUME NEW r \in 0..n, r # a, r # b PROVE StateOf(sv, sd, r) = StateOf(sv, sc, r)
  <2>1. sv[r] \in Sources => sv[r] # sv[a] /\ sv[r] # sv[b]
    BY <1>2, <1>5
  <2> QED BY <2>1 DEF StateOf, Sets
<1> QED BY <1>3, <1>4, <1>5

\* The numbers stay as they are.
LEMMA NumbersStay ==
  ASSUME NEW e, NEW n, NEW sv, NEW sc, NEW sd, Numbers(e, n, sv, sc),
         NEW a \in 0..n, NEW b \in 0..n, sv[a] \in Sources, sv[b] \in Sources,
         NEW p, NEW q, Sets(sv, sc, sd, a, p, b, q),
         Parents(e, n, sv, sd)
  PROVE  Numbers(e, n, sv, sd)
<1>1. a \in Sources /\ b \in Sources
  BY SourcesAreNat DEF Numbers
<1>2. sc.NextSectionID \in Nat /\ sv[a] < sc.NextSectionID /\ sv[b] < sc.NextSectionID
  BY <1>1, SourcesAreNat DEF Numbers, Scratches
<1>3. ASSUME NEW id \in Sources, id >= sd.NextSectionID PROVE sd.RunState[id] = "NeverEntered"
  <2>1. id >= sc.NextSectionID
    BY <1>3 DEF Sets
  <2>2. id # sv[a] /\ id # sv[b]
    BY <2>1, <1>2, SourcesAreNat
  <2> QED BY <2>1, <2>2 DEF Sets, Numbers
<1>4. sd \in Scratches /\ sd.NextSectionID = sc.NextSectionID
  BY DEF Sets
<1>5. Filled(e, n, sv, sd.NextSectionID)
  BY <1>4 DEF Numbers
<1> QED BY <1>3, <1>4, <1>5 DEF Numbers

\* The section control is in has a number.
LEMMA CurrentNumbered ==
  ASSUME NEW e, NEW n, NEW sv, NEW sc, NEW v, NEW c, NEW x, InPassAt(e, n, sv, sc, v, c, x)
  PROVE  /\ c \in 0..n /\ sv[c] \in Sources /\ sc.CurrentSectionID = sv[c]
         /\ StateOf(sv, sc, c) = sc.RunState[sv[c]]
         /\ StateOf(sv, sc, c) \in Running
<1>1. c \in 0..n /\ StatesOf(n, sv, sc)[c] \in Running
  BY DEF InPassAt, InPass, Walk
<1>2. StateOf(sv, sc, c) \in Running
  BY <1>1 DEF StatesOf
<1>3. sv[c] \in Sources
  BY <1>2 DEF StateOf, Running
<1> QED BY <1>1, <1>2, <1>3 DEF StateOf, InPassAt

\* A section met for the first time has its parent noted.
LEMMA ParentsNoted ==
  ASSUME NEW e, NEW n, NEW sv, NEW sc, NEW sd, NEW v, NEW s \in 1..n,
         Outline(e, n), Numbers(e, n, sv, sc), InPassAt(e, n, sv, sc, v, e[s], s),
         sv[s] \in Sources, NEW p, NEW q, Sets(sv, sc, sd, s, p, e[s], q),
         Notes(sv, sc, sd, s)
  PROVE  Parents(e, n, sv, sd)
<1> SUFFICES ASSUME NEW r \in 1..n, StateOf(sv, sd, r) # "NeverEntered"
             PROVE  sd.ParentID[sv[r]] = sv[e[r]]
  BY DEF Parents
<1>n. n \in Nat /\ e[s] \in 0..n /\ e[s] < s /\ s \in 0..n /\ r \in 0..n
  BY DEF Outline
<1>1. /\ sv[e[s]] \in Sources /\ sc.CurrentSectionID = sv[e[s]]
      /\ StateOf(sv, sc, e[s]) # "NeverEntered"
  BY CurrentNumbered DEF Running
<1>2. \A k \in 0..n : k # s /\ k # e[s] => StateOf(sv, sd, k) = StateOf(sv, sc, k)
  BY <1>n, <1>1, StatesFollow
<1>3. sv[r] \in Sources
  BY DEF StateOf
<1>4. CASE r = s
  <2>1. CASE sc.RunState[sv[s]] = "NeverEntered"
    BY <1>4, <2>1, <1>1 DEF Notes
  <2>2. CASE sc.RunState[sv[s]] # "NeverEntered"
    <3>1. StateOf(sv, sc, s) # "NeverEntered"
      BY <2>2 DEF StateOf
    <3>2. sc.ParentID[sv[s]] = sv[e[s]]
      BY <3>1 DEF Numbers, Parents
    <3> QED BY <3>2, <2>2, <1>4 DEF Notes
  <2> QED BY <2>1, <2>2
<1>5. CASE r # s
  <2>1. StateOf(sv, sc, r) # "NeverEntered"
    BY <1>n, <1>1, <1>2, <1>5
  <2>2. sv[r] # sv[s]
    <3>1. r \in Sources /\ s \in Sources
      BY <1>n, SourcesAreNat DEF Numbers
    <3> QED BY <3>1, <1>3, <1>5, SourcesAreNat DEF Numbers
  <2>3. sc.ParentID[sv[r]] = sv[e[r]]
    BY <2>1 DEF Numbers, Parents
  <2> QED BY <2>2, <2>3, <1>3 DEF Notes
<1> QED BY <1>4, <1>5

\* Sections that were entered have numbers.
LEMMA StatesNumbered ==
  ASSUME NEW e, NEW n, NEW sv, NEW sc, Numbers(e, n, sv, sc)
  PROVE  EnteredNumbered(n, StatesOf(n, sv, sc), sv)
<1> SUFFICES ASSUME NEW s \in 0..n, StatesOf(n, sv, sc)[s] \in Entered PROVE sv[s] # None
  BY DEF EnteredNumbered
<1>1. StateOf(sv, sc, s) # "NeverEntered"
  BY DEF StatesOf, Entered, Running
<1> QED BY <1>1, SourcesAreNat DEF StateOf

\* After a step that met the section at whose macro control was, all are met.
LEMMA MetStays ==
  ASSUME NEW n, NEW sv, NEW sc, NEW sd, NEW x, AllMet(n, sv, sc, x),
         \A r \in 0..n : StateOf(sv, sc, r) # "NeverEntered" => StateOf(sv, sd, r) # "NeverEntered",
         x \in 0..n => StateOf(sv, sd, x) # "NeverEntered", NEW y
  PROVE  AllMet(n, sv, sd, y)
BY DEF AllMet

\* Section s is entered.
LEMMA EnterStep ==
  ASSUME NEW e, NEW n, NEW sv, NEW sc, NEW sd, NEW v, NEW s \in 1..n, NEW x,
         Outline(e, n), Numbers(e, n, sv, sc), InPassAt(e, n, sv, sc, v, e[s], s),
         sv[s] \in Sources, sc.RunState[sv[s]] \in {"NeverEntered", "NeedsRun"},
         sc.RunState[sc.CurrentSectionID] = "Running",
         Sets(sv, sc, sd, s, "Running", e[s], "RunningEnteredSubsection"),
         sd.CurrentSectionID = sv[s],
         Notes(sv, sc, sd, s),
         FirstIn(e, n, s, x)
  PROVE  Numbers(e, n, sv, sd) /\ InPassAt(e, n, sv, sd, v \o VisitOf(e, n, s), s, x)
<1> DEFINE st == StatesOf(n, sv, sc)
           su == StatesOf(n, sv, sd)
<1>n. n \in Nat /\ e[s] \in 0..n /\ e[s] < s /\ s \in 0..n
  BY DEF Outline
<1>1. /\ sv[e[s]] \in Sources /\ sc.CurrentSectionID = sv[e[s]]
      /\ StateOf(sv, sc, e[s]) = "Running"
  BY CurrentNumbered
<1>2. /\ StateOf(sv, sd, s) = "Running"
      /\ StateOf(sv, sd, e[s]) = "RunningEnteredSubsection"
      /\ \A r \in 0..n : r # s /\ r # e[s] => StateOf(sv, sd, r) = StateOf(sv, sc, r)
  BY <1>n, <1>1, StatesFollow
<1>3. StateOf(sv, sc, s) \in {"NeverEntered", "NeedsRun"}
  BY DEF StateOf
<1>4. Parents(e, n, sv, sd)
  BY ParentsNoted
<1>5. Numbers(e, n, sv, sd)
  BY <1>n, <1>1, <1>4, NumbersStay
<1>6. su \in [0..n -> RunStates]
  BY <1>5, StateTypes
<1>7. /\ su[s] = "Running" /\ su[e[s]] = "RunningEnteredSubsection"
      /\ \A r \in 0..n : r # s /\ r # e[s] => su[r] = st[r]
      /\ st[s] \in {"NeverEntered", "NeedsRun"} /\ st[e[s]] = "Running"
  BY <1>n, <1>1, <1>2, <1>3 DEF StatesOf
<1>8. InPass(e, n, st, e[s], s, v)
  BY DEF InPassAt
<1> HIDE DEF st, su
<1>9. InPass(e, n, su, s, x, v \o VisitOf(e, n, s))
  BY <1>6, <1>7, <1>8, SectionEntered
<1>10. Told(e, n, st, sv, e[s], s) /\ Owes(e, n, st) /\ AllMet(n, sv, sc, s)
  BY DEF InPassAt, st
<1>11. Told(e, n, su, sv, s, x)
  <2>1. EnteredNumbered(n, st, sv) /\ sv[s] # None
    BY StatesNumbered, SourcesAreNat DEF st
  <2>2. x \in Nat /\ s < x
    BY DEF FirstIn
  <2> QED BY <2>1, <2>2, <1>7, <1>8, <1>10, TurnsEntered
<1>12. Owes(e, n, su)
  BY <1>7, <1>10, OwesEntered
<1>13. AllMet(n, sv, sd, x)
  <2>1. \A r \in 0..n : StateOf(sv, sc, r) # "NeverEntered" => StateOf(sv, sd, r) # "NeverEntered"
    BY <1>2
  <2> QED BY <2>1, <1>2, <1>10, MetStays
<1> QED BY <1>5, <1>9, <1>11, <1>12, <1>13 DEF su, InPassAt

\* Section s is put off.
LEMMA PutOffStep ==
  ASSUME NEW e, NEW n, NEW sv, NEW sc, NEW sd, NEW v, NEW s \in 1..n, NEW x,
         Outline(e, n), Numbers(e, n, sv, sc), InPassAt(e, n, sv, sc, v, e[s], s),
         sv[s] \in Sources, sc.RunState[sv[s]] \in {"NeverEntered", "NeedsRun"},
         sc.RunState[sc.CurrentSectionID] # "Running",
         Sets(sv, sc, sd, s, "NeedsRun", e[s], "RunningNeedsRerun"),
         sd.CurrentSectionID = sc.CurrentSectionID,
         Notes(sv, sc, sd, s), NextIn(e, n, s, x)
  PROVE  Numbers(e, n, sv, sd) /\ InPassAt(e, n, sv, sd, v, e[s], x)
<1> DEFINE st == StatesOf(n, sv, sc)
           su == StatesOf(n, sv, sd)
<1>n. n \in Nat /\ e[s] \in 0..n /\ e[s] < s /\ s \in 0..n
  BY DEF Outline
<1>1. /\ sv[e[s]] \in Sources /\ sc.CurrentSectionID = sv[e[s]]
      /\ StateOf(sv, sc, e[s]) \in Running /\ StateOf(sv, sc, e[s]) # "Running"
  BY CurrentNumbered
<1>2. /\ StateOf(sv, sd, s) = "NeedsRun"
      /\ StateOf(sv, sd, e[s]) = "RunningNeedsRerun"
      /\ \A r \in 0..n : r # s /\ r # e[s] => StateOf(sv, sd, r) = StateOf(sv, sc, r)
  BY <1>n, <1>1, StatesFollow
<1>3. StateOf(sv, sc, s) \in {"NeverEntered", "NeedsRun"}
  BY DEF StateOf
<1>4. Parents(e, n, sv, sd)
  BY ParentsNoted
<1>5. Numbers(e, n, sv, sd)
  BY <1>n, <1>1, <1>4, NumbersStay
<1>6. su \in [0..n -> RunStates]
  BY <1>5, StateTypes
<1>7. /\ su[s] = "NeedsRun" /\ su[e[s]] = "RunningNeedsRerun"
      /\ \A r \in 0..n : r # s /\ r # e[s] => su[r] = st[r]
      /\ st[s] \in {"NeverEntered", "NeedsRun"} /\ st[e[s]] # "Running"
  BY <1>n, <1>1, <1>2, <1>3 DEF StatesOf
<1>8. InPass(e, n, st, e[s], s, v)
  BY DEF InPassAt
<1> HIDE DEF st, su
<1>9. InPass(e, n, su, e[s], x, v)
  BY <1>6, <1>7, <1>8, SectionPutOff
<1>10. Told(e, n, st, sv, e[s], s) /\ Owes(e, n, st) /\ AllMet(n, sv, sc, s) /\ sv[0] = 0
  BY DEF InPassAt, st
<1>11. Told(e, n, su, sv, e[s], x)
  <2>1. sv[s] # None
    BY SourcesAreNat
  <2>2. x \in Nat /\ s < x
    BY DEF NextIn
  <2>3. Descends(e, n, su, e[s]) <=> Descends(e, n, st, e[s])
    BY <1>7 DEF Descends
  <2>4. SameLeaves(e, n, st, su)
    <3>1. st[s] \notin Entered /\ su[s] \notin Entered /\ ~Childless(e, n, e[s])
      BY <1>7 DEF Entered, Running, Childless
    <3> QED BY <3>1, <1>7 DEF SameLeaves
  <2> QED BY <2>1, <2>2, <2>3, <2>4, <1>10, TurnsPast
<1>12. Owes(e, n, su)
  BY <1>7, <1>10, OwesPutOff
<1>13. AllMet(n, sv, sd, x)
  <2>1. \A r \in 0..n : StateOf(sv, sc, r) # "NeverEntered" => StateOf(sv, sd, r) # "NeverEntered"
    BY <1>2
  <2> QED BY <2>1, <1>2, <1>10, MetStays
<1> QED BY <1>1, <1>5, <1>9, <1>10, <1>11, <1>12, <1>13 DEF su, InPassAt

\* Section s is left.
LEMMA LeaveStep ==
  ASSUME NEW e, NEW n, NEW sv, NEW sc, NEW sd, NEW v, NEW s \in 1..n, NEW x,
         Outline(e, n), Numbers(e, n, sv, sc), InPassAt(e, n, sv, sc, v, s, n + 1),
         NEW p, NEW q, Sets(sv, sc, sd, s, p, e[s], q),
         \/ /\ sc.RunState[sv[s]] = "RunningNeedsRerun"
            /\ p = "NeedsRun" /\ q = "RunningNeedsRerun"
         \/ /\ sc.RunState[sv[s]] # "RunningNeedsRerun"
            /\ p = "Completed" /\ q = sc.RunState[sv[e[s]]],
         sd.CurrentSectionID = sv[e[s]],
         sd.ParentID = sc.ParentID,
         NextIn(e, n, s, x)
  PROVE  Numbers(e, n, sv, sd) /\ InPassAt(e, n, sv, sd, v, e[s], x)
<1> DEFINE st == StatesOf(n, sv, sc)
           su == StatesOf(n, sv, sd)
<1>n. n \in Nat /\ e[s] \in 0..n /\ e[s] < s /\ s \in 0..n
  BY DEF Outline
<1>1. sv[s] \in Sources /\ StateOf(sv, sc, s) = sc.RunState[sv[s]]
      /\ StateOf(sv, sc, s) \in Running
  BY CurrentNumbered
<1>2. InPass(e, n, st, s, n + 1, v) /\ sv[0] = 0
  BY DEF InPassAt
<1>3. st[s] = StateOf(sv, sc, s) /\ st[e[s]] = StateOf(sv, sc, e[s])
  BY <1>n DEF StatesOf
<1>4. StateOf(sv, sc, e[s]) \in Running
  <2>1. st[e[s]] \in Running
    BY <1>1, <1>2, <1>3, Zenon DEF InPass, Walk
  <2> QED BY <2>1, <1>3
<1>5. sv[e[s]] \in Sources /\ StateOf(sv, sc, e[s]) = sc.RunState[sv[e[s]]]
  BY <1>4 DEF StateOf, Running
<1>6. /\ StateOf(sv, sd, s) = p
      /\ StateOf(sv, sd, e[s]) = q
      /\ \A r \in 0..n : r # s /\ r # e[s] => StateOf(sv, sd, r) = StateOf(sv, sc, r)
  BY <1>n, <1>1, <1>5, StatesFollow
<1>7. Parents(e, n, sv, sd)
  <2>1. SUFFICES ASSUME NEW r \in 1..n, StateOf(sv, sd, r) # "NeverEntered"
                 PROVE  sd.ParentID[sv[r]] = sv[e[r]]
    BY DEF Parents
  <2>2. r \in 0..n
    BY <1>n
  <2>3. StateOf(sv, sc, r) # "NeverEntered"
    BY <2>1, <2>2, <1>1, <1>4, <1>6 DEF Running
  <2> QED BY <2>3 DEF Numbers, Parents
<1>8. Numbers(e, n, sv, sd)
  BY <1>n, <1>1, <1>5, <1>7, NumbersStay
<1>9. su \in [0..n -> RunStates]
  BY <1>8, StateTypes
<1>10. \A r \in 0..n : r # s /\ r # e[s] => su[r] = st[r]
  BY <1>6 DEF StatesOf
<1>11. su[s] = p /\ su[e[s]] = q
  BY <1>n, <1>6 DEF StatesOf
<1>12. \/ /\ st[s] = "RunningNeedsRerun"
          /\ su[s] = "NeedsRun" /\ su[e[s]] = "RunningNeedsRerun"
       \/ /\ st[s] # "RunningNeedsRerun"
          /\ su[s] = "Completed" /\ su[e[s]] = st[e[s]]
  BY <1>1, <1>3, <1>5, <1>11
<1> HIDE DEF st, su
<1>13. InPass(e, n, su, e[s], x, v)
  BY <1>2, <1>9, <1>10, <1>12, SectionLeft
<1>14. Told(e, n, st, sv, s, n + 1) /\ Owes(e, n, st) /\ AllMet(n, sv, sc, n + 1)
  BY DEF InPassAt, st
<1>15. st[s] \in Running /\ st[e[s]] = "RunningEnteredSubsection"
  <2>1. Walk(e, n, st, s, n + 1) /\ st[s] \in Running
    BY <1>2 DEF InPass, Walk
  <2> QED BY <2>1, <1>n DEF Walk
<1>16. Told(e, n, su, sv, e[s], x)
  <2>1. ~Descends(e, n, st, s)
    BY <1>2, <1>14, LeavingEntered
  <2>2. ~Descends(e, n, su, e[s])
    BY <1>12, <1>15 DEF Descends
  <2>3. x \in Nat /\ s < x /\ (x = n + 1 \/ (x \in 1..n /\ e[x] = e[s]))
    BY DEF NextIn
  <2>4. SameLeaves(e, n, st, su)
    <3>1. ~Childless(e, n, e[s])
      BY DEF Childless
    <3>2. Childless(e, n, s) => st[s] \in Entered /\ su[s] \in Entered
      <4>1. Calm(e, n, st)
        BY <1>2 DEF InPass
      <4>2. Childless(e, n, s) => st[s] # "RunningNeedsRerun"
        BY <4>1, <1>n DEF Calm
      <4> QED BY <4>2, <1>12, <1>15 DEF Entered
    <3> QED BY <3>1, <3>2, <1>10 DEF SameLeaves
  <2> QED BY <2>1, <2>2, <2>3, <2>4, <1>14, TurnsLeft
<1>17. Owes(e, n, su)
  BY <1>10, <1>12, <1>14, <1>15, OwesLeft
<1>18. AllMet(n, sv, sd, x)
  <2>0. p # "NeverEntered" /\ q # "NeverEntered"
    BY <1>1, <1>4, <1>5 DEF Running
  <2>1. \A r \in 0..n : StateOf(sv, sc, r) # "NeverEntered" => StateOf(sv, sd, r) # "NeverEntered"
    BY <2>0, <1>6
  <2>2. n + 1 \notin 0..n
    BY <1>n
  <2> QED BY <2>1, <2>2, <1>14, MetStays
<1> QED BY <1>2, <1>8, <1>13, <1>16, <1>17, <1>18 DEF su, InPassAt

\* The first pass begins.
LEMMA BeginStep ==
  ASSUME NEW e, NEW n, NEW sv, NEW sc, NEW sd, NEW x,
         Outline(e, n), Numbers(e, n, sv, sc), sv[0] = 0,
         \A s \in 0..n : StateOf(sv, sc, s) = "NeverEntered",
         \A s \in 0..n : sv[s] # None => s = 0,
         Sets(sv, sc, sd, 0, "Running", 0, "Running"),
         sd.CurrentSectionID = 0, sd.ParentID = sc.ParentID,
         FirstIn(e, n, 0, x)
  PROVE  Numbers(e, n, sv, sd) /\ InPassAt(e, n, sv, sd, VisitOf(e, n, 0), 0, x)
<1> DEFINE su == StatesOf(n, sv, sd)
<1>n. n \in Nat /\ 0 \in 0..n /\ sv[0] \in Sources
  BY SourcesAreNat DEF Outline
<1>1. /\ StateOf(sv, sd, 0) = "Running"
      /\ \A r \in 0..n : r # 0 => StateOf(sv, sd, r) = "NeverEntered"
  BY <1>n, StatesFollow
<1>2. \A r \in 1..n : StateOf(sv, sd, r) = "NeverEntered"
  BY <1>n, <1>1
<1>3. Numbers(e, n, sv, sd)
  <2>1. Parents(e, n, sv, sd)
    BY <1>2 DEF Parents
  <2> QED BY <2>1, <1>n, NumbersStay
<1>4. su \in [0..n -> RunStates]
  BY <1>3, StateTypes
<1>5. su[0] = "Running" /\ \A r \in 1..n : su[r] = "NeverEntered"
  BY <1>n, <1>1, <1>2 DEF StatesOf
<1> HIDE DEF su
<1>6. InPass(e, n, su, 0, x, VisitOf(e, n, 0))
  BY <1>4, <1>5, PassBegins
<1>7. Told(e, n, su, sv, 0, x) /\ Owes(e, n, su)
  <2>1. x \in Nat /\ 0 < x
    BY DEF FirstIn
  <2> QED BY <2>1, <1>5, TurnsBegin, OwesBegin
<1>8. AllMet(n, sv, sd, x)
  <2>1. \A s \in 0..n : sv[s] # None => s = 0
    OBVIOUS
  <2> QED BY <2>1, <1>1 DEF AllMet
<1> QED BY <1>3, <1>6, <1>7, <1>8 DEF su, InPassAt

\* The next pass begins.
LEMMA AgainStep ==
  ASSUME NEW e, NEW n, NEW sv, NEW sc, NEW sd, NEW v, NEW x,
         Outline(e, n), Numbers(e, n, sv, sc), InPassAt(e, n, sv, sc, v, 0, n + 1),
         sc.RunState[0] = "RunningNeedsRerun",
         Sets(sv, sc, sd, 0, "Running", 0, "Running"),
         sd.CurrentSectionID = 0, sd.ParentID = sc.ParentID,
         FirstIn(e, n, 0, x)
  PROVE  Numbers(e, n, sv, sd) /\ InPassAt(e, n, sv, sd, v, 0, x) /\ ~Childless(e, n, 0)
<1> DEFINE st == StatesOf(n, sv, sc)
           su == StatesOf(n, sv, sd)
<1>n. n \in Nat /\ 0 \in 0..n
  BY DEF Outline
<1>1. InPass(e, n, st, 0, n + 1, v) /\ sv[0] = 0 /\ sv[0] \in Sources
  BY SourcesAreNat DEF InPassAt
<1>2. StateOf(sv, sc, 0) = "RunningNeedsRerun"
  BY <1>1 DEF StateOf
<1>3. /\ StateOf(sv, sd, 0) = "Running"
      /\ \A r \in 0..n : r # 0 => StateOf(sv, sd, r) = StateOf(sv, sc, r)
  BY <1>n, <1>1, StatesFollow
<1>4. \A r \in 1..n : StateOf(sv, sd, r) = StateOf(sv, sc, r)
  BY <1>n, <1>3
<1>5. Numbers(e, n, sv, sd)
  <2>1. Parents(e, n, sv, sd)
    BY <1>4 DEF Numbers, Parents
  <2> QED BY <2>1, <1>n, <1>1, NumbersStay
<1>6. su \in [0..n -> RunStates]
  BY <1>5, StateTypes
<1>7. su[0] = "Running" /\ st[0] = "RunningNeedsRerun"
  BY <1>n, <1>2, <1>3 DEF StatesOf
<1>8. \A r \in 1..n : su[r] = st[r]
  <2>1. \A r \in 1..n : r \in 0..n
    BY <1>n
  <2> QED BY <2>1, <1>4 DEF StatesOf
<1> HIDE DEF st, su
<1>9. InPass(e, n, su, 0, x, v) /\ ~Childless(e, n, 0)
  BY <1>1, <1>6, <1>7, <1>8, PassBeginsAgain, Zenon
<1>10. Told(e, n, st, sv, 0, n + 1) /\ Owes(e, n, st) /\ AllMet(n, sv, sc, n + 1)
  BY DEF InPassAt, st
<1>11. Told(e, n, su, sv, 0, x)
  BY <1>7, <1>8, <1>9, <1>10, TurnsAgain
<1>12. Owes(e, n, su)
  BY <1>7, <1>8, <1>10, OwesAgain
<1>13. AllMet(n, sv, sd, x)
  <2>1. \A r \in 0..n : StateOf(sv, sc, r) # "NeverEntered" => StateOf(sv, sd, r) # "NeverEntered"
    BY <1>3
  <2>2. n + 1 \notin 0..n
    BY <1>n
  <2> QED BY <2>1, <2>2, <1>10, MetStays
<1> QED BY <1>1, <1>5, <1>9, <1>11, <1>12, <1>13 DEF su, InPassAt

-----------------------------------------------------------------------------
(* A thread. *)

\* Control is in section c, at the macro of section x, behind it, or behind them all.
Arrives(e, n, place, c, x) ==
  \/ place = <<"again", c>> /\ x = n + 1
  \/ x \in 1..n /\ e[x] = c /\ place = <<"reach", x>>
Tried(e, n, sv, place, c, x) ==
  x \in 1..n /\ e[x] = c /\ sv[x] # None /\ place = <<"try", x>>

ThreadInv(e, n, place, sv, sc, v) ==
  /\ Numbers(e, n, sv, sc)
  /\ \/ place = <<"reach", 0>> /\ v = <<>> /\ sc.NextSectionID = 0
     \/ /\ place = <<"try", 0>> /\ v = <<>> /\ sv[0] = 0
        /\ \A s \in 0..n : StateOf(sv, sc, s) = "NeverEntered" /\ (sv[s] # None => s = 0)
     \/ /\ place = <<"end", 0>> /\ Visits(e, n, StatesOf(n, sv, sc), v)
        /\ AllVisited(e, n, v)
     \/ \E c \in 0..n, x \in Nat :
          /\ Arrives(e, n, place, c, x) \/ Tried(e, n, sv, place, c, x)
          /\ InPassAt(e, n, sv, sc, v, c, x)

Mapped(f) == f = [t \in Thread |-> f[t]]

\* What holds of a test of n sections in every state.
SectionsInvOf(n) ==
  /\ n \in Sources
  /\ Outline(enclosing, n)
  /\ Mapped(at) /\ Mapped(Scratch) /\ Mapped(sectionVar) /\ Mapped(visited)
  /\ stringVar \in [Thread -> [Sources -> Int \cup {None}]]
  /\ \A t \in Thread : ThreadInv(enclosing, n, at[t], sectionVar[t], Scratch[t], visited[t])

SectionsInv == \E n \in Nat : SectionsInvOf(n)

\* A section is a leaf of the test.
LEMMA LeafIsChildless ==
  ASSUME NEW n, Outline(enclosing, n), NEW s
  PROVE  /\ DOMAIN enclosing = 1..n
         /\ IsLeaf(s) <=> Childless(enclosing, n, s)
         /\ LeafOf(s) = VisitOf(enclosing, n, s)
         /\ \A c : c \in Inner(s) <=> c \in 1..n /\ enclosing[c] = s
<1>1. DOMAIN enclosing = 1..n
  BY DEF Outline
<1>2. \A c : c \in Inner(s) <=> c \in 1..n /\ enclosing[c] = s
  BY <1>1 DEF Inner
<1>3. IsLeaf(s) <=> Childless(enclosing, n, s)
  BY <1>2 DEF IsLeaf, Childless
<1> QED BY <1>1, <1>2, <1>3 DEF LeafOf, VisitOf

\* Into the body of a section: to its first section or to its end.
LEMMA IntoArrives ==
  ASSUME NEW n, Outline(enclosing, n), NEW s \in 0..n
  PROVE  \E x \in Nat : FirstIn(enclosing, n, s, x) /\ Arrives(enclosing, n, Into(s), s, x)
<1>n. n \in Nat
  BY DEF Outline
<1>1. CASE IsLeaf(s)
  <2>1. Into(s) = <<"again", s>> /\ n + 1 \in Nat
    BY <1>1, <1>n DEF Into
  <2>2. FirstIn(enclosing, n, s, n + 1)
    BY <1>1, <1>n, LeafIsChildless DEF Childless, FirstIn
  <2> QED BY <2>1, <2>2 DEF Arrives
<1>2. CASE ~IsLeaf(s)
  <2>1. Inner(s) \subseteq Nat /\ Inner(s) # {}
    BY <1>2, <1>n, LeafIsChildless DEF IsLeaf
  <2> DEFINE x == Least(Inner(s))
  <2>2. x \in Inner(s) /\ \A r \in Inner(s) : x <= r
    BY <2>1, LeastOf
  <2>3. Into(s) = <<"reach", x>>
    BY <1>2 DEF Into
  <2> HIDE DEF x
  <2>4. x \in Nat /\ x \in 1..n /\ enclosing[x] = s
    BY <2>1, <2>2, LeafIsChildless
  <2>5. FirstIn(enclosing, n, s, x)
    <3>1. s < x
      BY <2>4 DEF Outline
    <3> QED BY <3>1, <2>2, <2>4, LeafIsChildless DEF FirstIn
  <2> QED BY <2>3, <2>4, <2>5 DEF Arrives
<1> QED BY <1>1, <1>2

\* Past a section: to the next one in the section around it or to the end of that.
LEMMA PastArrives ==
  ASSUME NEW n, Outline(enclosing, n), NEW s \in 1..n
  PROVE  \E x \in Nat : /\ NextIn(enclosing, n, s, x)
                        /\ Arrives(enclosing, n, Past(s), enclosing[s], x)
<1>n. n \in Nat
  BY DEF Outline
<1> DEFINE later == {c \in Inner(enclosing[s]) : c > s}
<1>0. Past(s) = IF later = {} THEN <<"again", enclosing[s]>> ELSE <<"reach", Least(later)>>
  BY DEF Past
<1>1. \A c : c \in later <=> c \in 1..n /\ enclosing[c] = enclosing[s] /\ c > s
  BY LeafIsChildless
<1> HIDE DEF later
<1>2. CASE later = {}
  <2>1. Past(s) = <<"again", enclosing[s]>> /\ n + 1 \in Nat
    BY <1>0, <1>2, <1>n
  <2>2. NextIn(enclosing, n, s, n + 1)
    BY <1>1, <1>2, <1>n DEF NextIn
  <2> QED BY <2>1, <2>2 DEF Arrives
<1>3. CASE later # {}
  <2> DEFINE x == Least(later)
  <2>1. later \subseteq Nat
    BY <1>1, <1>n
  <2>2. x \in later /\ \A r \in later : x <= r
    BY <1>3, <2>1, LeastOf
  <2>3. Past(s) = <<"reach", x>>
    BY <1>0, <1>3
  <2> HIDE DEF x
  <2>4. x \in Nat /\ x \in 1..n /\ enclosing[x] = enclosing[s]
    BY <2>1, <2>2, <1>1
  <2>5. NextIn(enclosing, n, s, x)
    <3>1. ASSUME NEW r \in 1..n, enclosing[r] = enclosing[s], r < x PROVE r <= s
      <4>1. r \notin later
        BY <2>2, <2>4, <3>1, <1>n
      <4> QED BY <4>1, <1>1, <3>1, <1>n
    <3>2. s < x
      BY <2>2, <1>1
    <3> QED BY <3>1, <3>2, <2>4 DEF NextIn
  <2> QED BY <2>3, <2>4, <2>5 DEF Arrives
<1> QED BY <1>2, <1>3

\* A thread moves: what holds of it in its new place holds in the new state.
LEMMA ThreadGoes ==
  ASSUME NEW n, SectionsInvOf(n), NEW t \in Thread, NEW sd, NEW place, NEW leaves,
         Goes(t, sd, place, leaves),
         ThreadInv(enclosing, n, place, sectionVar[t], sd, visited[t] \o leaves)
  PROVE  SectionsInvOf(n)'
<1>1. /\ enclosing' = enclosing /\ sectionVar' = sectionVar /\ stringVar' = stringVar
      /\ Scratch' = [Scratch EXCEPT ![t] = sd]
      /\ at' = [at EXCEPT ![t] = place]
      /\ visited' = [visited EXCEPT ![t] = @ \o leaves]
  BY DEF Goes
<1>2. /\ Mapped(at)' /\ Mapped(Scratch)' /\ Mapped(sectionVar)' /\ Mapped(visited)'
  BY <1>1 DEF SectionsInvOf, Mapped
<1>3. /\ at'[t] = place /\ Scratch'[t] = sd /\ visited'[t] = visited[t] \o leaves
      /\ \A u \in Thread : u # t => /\ at'[u] = at[u] /\ Scratch'[u] = Scratch[u]
                                    /\ visited'[u] = visited[u]
  BY <1>1 DEF SectionsInvOf, Mapped
<1>4. ASSUME NEW u \in Thread
      PROVE  ThreadInv(enclosing', n, at'[u], sectionVar'[u], Scratch'[u], visited'[u])
  <2>1. CASE u = t
    BY <2>1, <1>1, <1>3
  <2>2. CASE u # t
    <3>1. ThreadInv(enclosing, n, at[u], sectionVar[u], Scratch[u], visited[u])
      BY DEF SectionsInvOf
    <3> QED BY <3>1, <2>2, <1>1, <1>3
  <2> QED BY <2>1, <2>2
<1> QED BY <1>1, <1>2, <1>4 DEF SectionsInvOf

\* Where control is, of what holds of a thread.
LEMMA AtTry ==
  ASSUME NEW e, NEW n, NEW sv, NEW sc, NEW v, NEW s \in 1..n, Outline(e, n),
         ThreadInv(e, n, <<"try", s>>, sv, sc, v)
  PROVE  /\ Numbers(e, n, sv, sc) /\ InPassAt(e, n, sv, sc, v, e[s], s)
         /\ StateOf(sv, sc, s) \notin Running
<1>n. n \in Nat /\ s # 0 /\ s \in 0..n /\ e[s] < s /\ e[s] \in 0..n
  BY DEF Outline
<1>1. PICK c \in 0..n, x \in Nat :
        /\ Arrives(e, n, <<"try", s>>, c, x) \/ Tried(e, n, sv, <<"try", s>>, c, x)
        /\ InPassAt(e, n, sv, sc, v, c, x)
  BY <1>n DEF ThreadInv
<1>2. x = s /\ c = e[s]
  BY <1>1 DEF Arrives, Tried
<1>3. InPassAt(e, n, sv, sc, v, e[s], s)
  BY <1>1, <1>2
<1>4. StatesOf(n, sv, sc)[s] \notin Running
  BY <1>3, <1>n DEF InPassAt, InPass, Walk
<1> QED BY <1>3, <1>4, <1>n DEF ThreadInv, StatesOf

\* A thread at the loop of a section that was left.
LEMMA AtAgain ==
  ASSUME NEW e, NEW n, NEW sv, NEW sc, NEW v, NEW s, Outline(e, n),
         ThreadInv(e, n, <<"again", s>>, sv, sc, v)
  PROVE  Numbers(e, n, sv, sc) /\ InPassAt(e, n, sv, sc, v, s, n + 1) /\ s \in 0..n
<1>1. PICK c \in 0..n, x \in Nat :
        /\ Arrives(e, n, <<"again", s>>, c, x) \/ Tried(e, n, sv, <<"again", s>>, c, x)
        /\ InPassAt(e, n, sv, sc, v, c, x)
  BY DEF ThreadInv
<1>2. x = n + 1 /\ c = s
  BY <1>1 DEF Arrives, Tried
<1> QED BY <1>1, <1>2 DEF ThreadInv

\* A thread at the macro of a section.
LEMMA AtReach ==
  ASSUME NEW e, NEW n, NEW sv, NEW sc, NEW v, NEW s \in 1..n, Outline(e, n),
         ThreadInv(e, n, <<"reach", s>>, sv, sc, v)
  PROVE  Numbers(e, n, sv, sc) /\ InPassAt(e, n, sv, sc, v, e[s], s)
<1>n. n \in Nat /\ s # 0 /\ s \in 0..n
  BY DEF Outline
<1>1. PICK c \in 0..n, x \in Nat :
        /\ Arrives(e, n, <<"reach", s>>, c, x) \/ Tried(e, n, sv, <<"reach", s>>, c, x)
        /\ InPassAt(e, n, sv, sc, v, c, x)
  BY <1>n DEF ThreadInv
<1>2. x = s /\ c = e[s]
  BY <1>1 DEF Arrives, Tried
<1> QED BY <1>1, <1>2 DEF ThreadInv

\* A thread whose place and pass fit is as it should be.
LEMMA ThreadArrived ==
  ASSUME NEW e, NEW n, NEW sv, NEW sc, NEW v, NEW c, NEW x \in Nat, NEW place,
         Numbers(e, n, sv, sc), InPassAt(e, n, sv, sc, v, c, x),
         Arrives(e, n, place, c, x)
  PROVE  ThreadInv(e, n, place, sv, sc, v)
<1>1. c \in 0..n
  BY CurrentNumbered
<1> QED BY <1>1 DEF ThreadInv

-----------------------------------------------------------------------------
(* What the functions do to the scratch data. *)

\* The scratch data of a thread that met a section, before it is entered or put off.
LEMMA MetFacts ==
  ASSUME NEW t \in Thread, NEW sv, NEW s, sv[s] \in Sources,
         Scratch[t] \in Scratches
  PROVE  LET m == Met(t, sv[s])
         IN /\ m \in Scratches
            /\ m.CurrentSectionID = Scratch[t].CurrentSectionID
            /\ m.NextSectionID = Scratch[t].NextSectionID
            /\ Notes(sv, Scratch[t], m, s)
            /\ \A i \in Sources : m.RunState[i] =
                 IF i = sv[s] /\ Scratch[t].RunState[i] = "NeverEntered" THEN "NeedsRun"
                 ELSE Scratch[t].RunState[i]
<1> DEFINE sc == Scratch[t]
           id == sv[s]
<1>1. CASE sc.RunState[id] = "NeverEntered"
  <2>1. Met(t, id) = [sc EXCEPT !.ParentID[id] = sc.CurrentSectionID, !.RunState[id] = "NeedsRun"]
    BY <1>1 DEF Met
  <2>p. id \in Sources /\ sc \in Scratches
    OBVIOUS
  <2> HIDE DEF id, sc
  <2>q. /\ [sc.RunState EXCEPT ![id] = "NeedsRun"] \in [Sources -> RunStates]
        /\ [sc.ParentID EXCEPT ![id] = sc.CurrentSectionID] \in [Sources -> Int]
    BY <2>p DEF Scratches, RunStates
  <2>2. Met(t, id) \in Scratches
    BY <2>p, <2>q, <2>1 DEF Scratches
  <2>3. /\ Met(t, id).CurrentSectionID = sc.CurrentSectionID
        /\ Met(t, id).NextSectionID = sc.NextSectionID
        /\ Met(t, id).ParentID = [sc.ParentID EXCEPT ![id] = sc.CurrentSectionID]
        /\ Met(t, id).RunState = [sc.RunState EXCEPT ![id] = "NeedsRun"]
    BY <2>1 DEF Scratches
  <2>4. \A i \in Sources :
          /\ Met(t, id).ParentID[i] =
               IF i = id /\ sc.RunState[i] = "NeverEntered" THEN sc.CurrentSectionID
               ELSE sc.ParentID[i]
          /\ Met(t, id).RunState[i] =
               IF i = id /\ sc.RunState[i] = "NeverEntered" THEN "NeedsRun" ELSE sc.RunState[i]
    BY <2>p, <2>3, <1>1 DEF Scratches
  <2> QED BY <2>2, <2>3, <2>4 DEF Notes, id, sc
<1>2. CASE sc.RunState[id] # "NeverEntered"
  <2>1. Met(t, id) = sc
    BY <1>2 DEF Met
  <2> QED BY <2>1, <1>2 DEF Notes
<1> QED BY <1>1, <1>2

\* Scratch data sc, and two sections of different numbers there are states for.
TwoOf(sv, sc, s, c) ==
  sv[s] \in Sources /\ sv[c] \in Sources /\ sv[s] # sv[c] /\ sc \in Scratches

\* What meeting section s in section c made of sc.
MetIn(sv, sc, m, s, c) ==
  /\ m \in Scratches /\ m.NextSectionID = sc.NextSectionID
  /\ m.CurrentSectionID = sv[c] /\ m.RunState[sv[s]] = "NeedsRun"
  /\ \A i \in Sources : i # sv[s] => m.RunState[i] = sc.RunState[i]

\* What entering section id makes of m.
EnteredAt(m, id) ==
  [m EXCEPT !.RunState[m.CurrentSectionID] = "RunningEnteredSubsection",
            !.RunState[id] = "Running", !.CurrentSectionID = id]

\* Entering a section makes it run and marks the one around it as entered into.
LEMMA EnteringSets ==
  ASSUME NEW sv, NEW sc, NEW m, NEW s, NEW c, TwoOf(sv, sc, s, c),
         MetIn(sv, sc, m, s, c),
         NEW sd, sd = EnteredAt(m, sv[s])
  PROVE  /\ Sets(sv, sc, sd, s, "Running", c, "RunningEnteredSubsection")
         /\ sd.CurrentSectionID = sv[s] /\ sd.ParentID = m.ParentID
<1> USE DEF TwoOf, MetIn, EnteredAt
<1> DEFINE states == [[m.RunState EXCEPT ![sv[c]] = "RunningEnteredSubsection"]
                                   EXCEPT ![sv[s]] = "Running"]
<1>0. states \in [Sources -> RunStates] /\ sv[s] \in Int
  BY SourcesAreNat DEF Scratches, RunStates, Running
<1>1. sd \in Scratches
  <2>1. sd = [m EXCEPT !.RunState = states, !.CurrentSectionID = sv[s]]
    BY DEF Scratches
  <2> HIDE DEF states
  <2> QED BY <2>1, <1>0 DEF Scratches
<1>2. /\ sd.CurrentSectionID = sv[s] /\ sd.NextSectionID = m.NextSectionID
      /\ sd.ParentID = m.ParentID
      /\ sd.RunState = [[m.RunState EXCEPT ![sv[c]] = "RunningEnteredSubsection"]
                                    EXCEPT ![sv[s]] = "Running"]
  BY DEF Scratches
<1> QED BY <1>1, <1>2 DEF Sets, Scratches

\* Putting off a section marks it for a later pass, and the one around it.
LEMMA PuttingOffSets ==
  ASSUME NEW sv, NEW sc, NEW m, NEW s, NEW c, TwoOf(sv, sc, s, c),
         MetIn(sv, sc, m, s, c),
         NEW sd, sd = [m EXCEPT !.RunState[m.CurrentSectionID] = "RunningNeedsRerun"]
  PROVE  /\ Sets(sv, sc, sd, s, "NeedsRun", c, "RunningNeedsRerun")
         /\ sd.CurrentSectionID = m.CurrentSectionID /\ sd.ParentID = m.ParentID
<1> USE DEF TwoOf, MetIn
<1>1. sd \in Scratches
  BY DEF Scratches, RunStates, Running
<1>2. /\ sd.CurrentSectionID = m.CurrentSectionID /\ sd.NextSectionID = m.NextSectionID
      /\ sd.ParentID = m.ParentID
      /\ sd.RunState = [m.RunState EXCEPT ![sv[c]] = "RunningNeedsRerun"]
  BY DEF Scratches
<1> QED BY <1>1, <1>2 DEF Sets, Scratches

\* Leaving a section completes it, or marks it and the one around it for a later pass.
LEMMA LeavingSets ==
  ASSUME NEW sv, NEW sc, NEW s, NEW c, TwoOf(sv, sc, s, c), sc.ParentID[sv[s]] = sv[c],
         NEW sd, sd = Left(sc, sv[s]), NEW p, NEW q,
         \/ /\ sc.RunState[sv[s]] = "RunningNeedsRerun"
            /\ p = "NeedsRun" /\ q = "RunningNeedsRerun"
         \/ /\ sc.RunState[sv[s]] # "RunningNeedsRerun"
            /\ p = "Completed" /\ q = sc.RunState[sv[c]]
  PROVE  /\ Sets(sv, sc, sd, s, p, c, q)
         /\ sd.CurrentSectionID = sv[c] /\ sd.ParentID = sc.ParentID
<1> USE DEF TwoOf
<1> DEFINE states == [[sc.RunState EXCEPT ![sv[s]] = p] EXCEPT ![sv[c]] = q]
<1>1. p \in RunStates /\ q \in RunStates
  BY DEF RunStates, Running, Scratches
<1>2. states \in [Sources -> RunStates] /\ sv[c] \in Int
  BY <1>1, SourcesAreNat DEF Scratches
<1>3. sd = [sc EXCEPT !.CurrentSectionID = sv[c], !.RunState = states]
  <2>1. CASE sc.RunState[sv[s]] = "RunningNeedsRerun"
    BY <2>1 DEF Left, Scratches
  <2>2. CASE sc.RunState[sv[s]] # "RunningNeedsRerun"
    <3>1. [sc.RunState EXCEPT ![sv[s]] = "Completed"] = states
      BY <2>2 DEF Scratches
    <3>2. sd = [[sc EXCEPT !.CurrentSectionID = sv[c]] EXCEPT !.RunState[sv[s]] = "Completed"]
      BY <2>2 DEF Left
    <3>3. sd = [sc EXCEPT !.CurrentSectionID = sv[c],
                          !.RunState = [sc.RunState EXCEPT ![sv[s]] = "Completed"]]
      BY <3>2 DEF Scratches
    <3> QED BY <3>1, <3>3
  <2> QED BY <2>1, <2>2
<1>4. \A i \in Sources : states[i] =
        IF i = sv[s] THEN p ELSE IF i = sv[c] THEN q ELSE sc.RunState[i]
  BY DEF Scratches
<1> HIDE DEF states
<1>5. /\ sd \in Scratches
      /\ sd.CurrentSectionID = sv[c] /\ sd.NextSectionID = sc.NextSectionID
      /\ sd.ParentID = sc.ParentID /\ sd.RunState = states
  BY <1>2, <1>3 DEF Scratches
<1> QED BY <1>4, <1>5 DEF Sets

\* A new pass makes the scenario run and touches nothing else.
LEMMA LoopingSets ==
  ASSUME NEW sv, NEW sc, sv[0] = 0, sc \in Scratches
  PROVE  /\ Sets(sv, sc, Looped(sc), 0, "Running", 0, "Running")
         /\ Looped(sc).CurrentSectionID = 0 /\ Looped(sc).ParentID = sc.ParentID
<1> DEFINE sd == Looped(sc)
           states == [sc.RunState EXCEPT ![0] = "Running"]
<1>1. states \in [Sources -> RunStates]
  BY DEF Scratches, RunStates, Running
<1>2. sd = [sc EXCEPT !.CurrentSectionID = 0, !.RunState = states]
  BY DEF Looped, Scratches
<1>3. \A i \in Sources : states[i] = IF i = 0 THEN "Running" ELSE sc.RunState[i]
  BY DEF Scratches
<1> HIDE DEF states, sd
<1>4. /\ sd \in Scratches
      /\ sd.CurrentSectionID = 0 /\ sd.NextSectionID = sc.NextSectionID
      /\ sd.ParentID = sc.ParentID /\ sd.RunState = states
  <2>1. PICK zero \in Int : zero = 0
    OBVIOUS
  <2>2. sd = [sc EXCEPT !.CurrentSectionID = zero, !.RunState = states]
    BY <2>1, <1>2
  <2>3. /\ sd \in Scratches
        /\ sd.CurrentSectionID = zero /\ sd.NextSectionID = sc.NextSectionID
        /\ sd.ParentID = sc.ParentID /\ sd.RunState = states
    BY <2>2, <1>1 DEF Scratches
  <2> QED BY <2>1, <2>3
<1>5. Sets(sv, sc, sd, 0, "Running", 0, "Running")
  BY <1>3, <1>4 DEF Sets
<1> QED BY <1>4, <1>5 DEF sd

-----------------------------------------------------------------------------
(* The steps. *)

\* What an evaluation of the condition of a section has to do with: a number in the
\* tables and, if control was at its macro, the section around it.
LEMMA TriesFacts ==
  ASSUME NEW n, SectionsInvOf(n), NEW t \in Thread, NEW s \in 1..n, NEW id \in Sources,
         Tries(t, s, id)
  PROVE  /\ id = sectionVar[t][s] /\ Scratch[t] \in Scratches
         /\ Numbers(enclosing, n, sectionVar[t], Scratch[t])
         /\ visited[t] \o <<>> = visited[t]
         /\ \/ /\ InPassAt(enclosing, n, sectionVar[t], Scratch[t], visited[t], enclosing[s], s)
               /\ Scratch[t].RunState[id] \notin Running
            \/ /\ InPassAt(enclosing, n, sectionVar[t], Scratch[t], visited[t], s, n + 1)
               /\ Scratch[t].RunState[id] \in Running
<1>1. /\ id = sectionVar[t][s] /\ at[t] \in {<<"try", s>>, <<"again", s>>}
  BY DEF Tries, Evaluates
<1>2. /\ ThreadInv(enclosing, n, at[t], sectionVar[t], Scratch[t], visited[t])
      /\ Outline(enclosing, n)
  BY DEF SectionsInvOf
<1>3. Numbers(enclosing, n, sectionVar[t], Scratch[t]) /\ Scratch[t] \in Scratches
  BY <1>2 DEF ThreadInv, Numbers
<1>4. StateOf(sectionVar[t], Scratch[t], s) = Scratch[t].RunState[id]
  BY <1>1 DEF StateOf
<1>5. ASSUME at[t] = <<"try", s>>
      PROVE  /\ InPassAt(enclosing, n, sectionVar[t], Scratch[t], visited[t], enclosing[s], s)
             /\ Scratch[t].RunState[id] \notin Running
  <2>1. ThreadInv(enclosing, n, <<"try", s>>, sectionVar[t], Scratch[t], visited[t])
    BY <1>2, <1>5
  <2>2. /\ InPassAt(enclosing, n, sectionVar[t], Scratch[t], visited[t], enclosing[s], s)
        /\ StateOf(sectionVar[t], Scratch[t], s) \notin Running
    BY <2>1, <1>2, AtTry
  <2> QED BY <2>2, <1>4
<1>6. ASSUME at[t] = <<"again", s>>
      PROVE  /\ InPassAt(enclosing, n, sectionVar[t], Scratch[t], visited[t], s, n + 1)
             /\ Scratch[t].RunState[id] \in Running
  <2>1. InPassAt(enclosing, n, sectionVar[t], Scratch[t], visited[t], s, n + 1)
    BY <1>2, <1>6, AtAgain
  <2>2. StateOf(sectionVar[t], Scratch[t], s) \in Running
    BY <2>1, CurrentNumbered
  <2> QED BY <2>1, <2>2, <1>4
<1>7. visited[t] \in Seq(0..n)
  <2>1. \/ InPassAt(enclosing, n, sectionVar[t], Scratch[t], visited[t], enclosing[s], s)
        \/ InPassAt(enclosing, n, sectionVar[t], Scratch[t], visited[t], s, n + 1)
    BY <1>1, <1>5, <1>6
  <2> QED BY <2>1 DEF InPassAt, InPass, Visits
<1>8. visited[t] \o <<>> = visited[t]
  BY <1>7
<1> QED BY <1>1, <1>3, <1>5, <1>6, <1>8

\* The section that is tried and the one around it have different numbers.
LEMMA NumbersDiffer ==
  ASSUME NEW e, NEW n, NEW sv, NEW sc, NEW s \in 1..n, Outline(e, n), Numbers(e, n, sv, sc),
         sv[s] \in Sources
  PROVE  sv[s] # sv[e[s]] /\ e[s] \in 0..n
<1>1. s \in 0..n /\ e[s] \in 0..n /\ e[s] # s
  BY DEF Outline
<1>2. s \in Sources /\ e[s] \in Sources
  BY <1>1, SourcesAreNat DEF Numbers
<1> QED BY <1>1, <1>2, SourcesAreNat DEF Numbers

\* A thread enters a section.
LEMMA EnterKeeps ==
  ASSUME NEW n, SectionsInvOf(n), NEW t \in Thread, NEW s \in 1..n, EnterSection(t, s)
  PROVE  SectionsInvOf(n)'
<1> DEFINE sv == sectionVar[t]
           sc == Scratch[t]
           v == visited[t]
           e == enclosing
<1>1. PICK id \in Sources :
        /\ Tries(t, s, id)
        /\ Met(t, id).RunState[id] = "NeedsRun" /\ OurTurn(Met(t, id))
        /\ Goes(t, [Met(t, id) EXCEPT
                      !.RunState[Met(t, id).CurrentSectionID] = "RunningEnteredSubsection",
                      !.RunState[id] = "Running", !.CurrentSectionID = id],
                Into(s), LeafOf(s))
  BY DEF EnterSection
<1>2. id = sv[s] /\ sc \in Scratches /\ Numbers(e, n, sv, sc) /\ Outline(e, n)
  BY <1>1, TriesFacts DEF SectionsInvOf
<1> DEFINE m == Met(t, sv[s])
<1>3. /\ m \in Scratches
      /\ m.CurrentSectionID = sc.CurrentSectionID /\ m.NextSectionID = sc.NextSectionID
      /\ Notes(sv, sc, m, s)
      /\ \A i \in Sources : m.RunState[i] =
           IF i = sv[s] /\ sc.RunState[i] = "NeverEntered" THEN "NeedsRun" ELSE sc.RunState[i]
  BY <1>2, MetFacts
<1>4. sc.RunState[sv[s]] \in {"NeverEntered", "NeedsRun"}
  BY <1>1, <1>2, <1>3
<1>5. InPassAt(e, n, sv, sc, v, e[s], s)
  BY <1>1, <1>2, <1>4, TriesFacts DEF Running
<1>6. /\ sv[e[s]] \in Sources /\ sc.CurrentSectionID = sv[e[s]]
  BY <1>5, CurrentNumbered
<1>7. sv[s] # sv[e[s]]
  BY <1>2, NumbersDiffer
<1>8. sc.RunState[sc.CurrentSectionID] = "Running"
  BY <1>1, <1>2, <1>3, <1>6, <1>7 DEF OurTurn
<1> DEFINE sd == EnteredAt(m, sv[s])
<1>9. /\ Sets(sv, sc, sd, s, "Running", e[s], "RunningEnteredSubsection")
      /\ sd.CurrentSectionID = sv[s] /\ sd.ParentID = m.ParentID
  <2>1. m.CurrentSectionID = sv[e[s]] /\ sv[s] \in Sources
    BY <1>2, <1>3, <1>6
  <2>2. \A i \in Sources : i # sv[s] => m.RunState[i] = sc.RunState[i]
    BY <1>3
  <2>4. TwoOf(sv, sc, s, e[s])
    BY <2>1, <1>2, <1>6, <1>7 DEF TwoOf
  <2>5. MetIn(sv, sc, m, s, e[s])
    BY <2>1, <2>2, <1>1, <1>2, <1>3 DEF MetIn
  <2>6. sd = EnteredAt(m, sv[s])
    OBVIOUS
  <2> HIDE DEF m, sc, sv, e, sd
  <2> QED BY <2>4, <2>5, <2>6, EnteringSets
<1>10. Goes(t, sd, Into(s), VisitOf(e, n, s))
  BY <1>1, <1>2, LeafIsChildless DEF EnteredAt
<1> HIDE DEF sd, m, sv, sc, v, e
<1>11. Notes(sv, sc, sd, s)
  BY <1>3, <1>9 DEF Notes
<1>12. PICK x \in Nat : FirstIn(e, n, s, x) /\ Arrives(e, n, Into(s), s, x)
  <2>1. s \in 0..n
    BY <1>2 DEF Outline
  <2> QED BY <2>1, <1>2, IntoArrives DEF e
<1>13. Numbers(e, n, sv, sd) /\ InPassAt(e, n, sv, sd, v \o VisitOf(e, n, s), s, x)
  BY <1>2, <1>4, <1>5, <1>8, <1>9, <1>11, <1>12, EnterStep
<1>14. ThreadInv(e, n, Into(s), sv, sd, v \o VisitOf(e, n, s))
  BY <1>12, <1>13, ThreadArrived
<1> QED BY <1>10, <1>14, ThreadGoes DEF sv, sc, v, e

\* A thread puts off a section.
LEMMA PutOffKeeps ==
  ASSUME NEW n, SectionsInvOf(n), NEW t \in Thread, NEW s \in 1..n, PutOff(t, s)
  PROVE  SectionsInvOf(n)'
<1> DEFINE sv == sectionVar[t]
           sc == Scratch[t]
           v == visited[t]
           e == enclosing
<1>1. PICK id \in Sources :
        /\ Tries(t, s, id)
        /\ Met(t, id).RunState[id] = "NeedsRun" /\ ~OurTurn(Met(t, id))
        /\ Goes(t, [Met(t, id) EXCEPT
                      !.RunState[Met(t, id).CurrentSectionID] = "RunningNeedsRerun"],
                Past(s), <<>>)
  BY DEF PutOff
<1>2. id = sv[s] /\ sc \in Scratches /\ Numbers(e, n, sv, sc) /\ Outline(e, n)
      /\ v \o <<>> = v
  BY <1>1, TriesFacts DEF SectionsInvOf
<1> DEFINE m == Met(t, sv[s])
<1>3. /\ m \in Scratches
      /\ m.CurrentSectionID = sc.CurrentSectionID /\ m.NextSectionID = sc.NextSectionID
      /\ Notes(sv, sc, m, s)
      /\ \A i \in Sources : m.RunState[i] =
           IF i = sv[s] /\ sc.RunState[i] = "NeverEntered" THEN "NeedsRun" ELSE sc.RunState[i]
  BY <1>2, MetFacts
<1>4. sc.RunState[sv[s]] \in {"NeverEntered", "NeedsRun"}
  BY <1>1, <1>2, <1>3
<1>5. InPassAt(e, n, sv, sc, v, e[s], s)
  BY <1>1, <1>2, <1>4, TriesFacts DEF Running
<1>6. /\ sv[e[s]] \in Sources /\ sc.CurrentSectionID = sv[e[s]]
  BY <1>5, CurrentNumbered
<1>7. sv[s] # sv[e[s]]
  BY <1>2, NumbersDiffer
<1>t. sc.RunState[sc.CurrentSectionID] # "Running"
  BY <1>1, <1>2, <1>3, <1>6, <1>7 DEF OurTurn
<1> DEFINE sd == [m EXCEPT !.RunState[m.CurrentSectionID] = "RunningNeedsRerun"]
<1>8. /\ Sets(sv, sc, sd, s, "NeedsRun", e[s], "RunningNeedsRerun")
      /\ sd.CurrentSectionID = m.CurrentSectionID /\ sd.ParentID = m.ParentID
  <2>1. m.CurrentSectionID = sv[e[s]] /\ sv[s] \in Sources
    BY <1>2, <1>3, <1>6
  <2>2. \A i \in Sources : i # sv[s] => m.RunState[i] = sc.RunState[i]
    BY <1>3
  <2>3. m.RunState[sv[s]] = "NeedsRun"
    BY <1>1, <1>2
  <2>4. TwoOf(sv, sc, s, e[s])
    BY <2>1, <1>2, <1>6, <1>7 DEF TwoOf
  <2>5. MetIn(sv, sc, m, s, e[s])
    BY <2>1, <2>2, <2>3, <1>3 DEF MetIn
  <2>6. sd = [m EXCEPT !.RunState[m.CurrentSectionID] = "RunningNeedsRerun"]
    OBVIOUS
  <2> HIDE DEF m, sc, sv, e, sd
  <2> QED BY <2>4, <2>5, <2>6, PuttingOffSets
<1>9. Goes(t, sd, Past(s), <<>>)
  BY <1>1, <1>2
<1> HIDE DEF sd, m, sv, sc, v, e
<1>10. Notes(sv, sc, sd, s)
  BY <1>3, <1>8 DEF Notes
<1>11. PICK x \in Nat : NextIn(e, n, s, x) /\ Arrives(e, n, Past(s), e[s], x)
  BY <1>2, PastArrives DEF e
<1>12. sd.CurrentSectionID = sc.CurrentSectionID
  BY <1>3, <1>8
<1>13. Numbers(e, n, sv, sd) /\ InPassAt(e, n, sv, sd, v, e[s], x)
  BY <1>2, <1>4, <1>5, <1>8, <1>10, <1>11, <1>12, <1>t, PutOffStep
<1>14. ThreadInv(e, n, Past(s), sv, sd, v \o <<>>)
  BY <1>2, <1>11, <1>13, ThreadArrived
<1> QED BY <1>9, <1>14, ThreadGoes DEF sv, sc, v, e

\* A thread passes over a completed section.
LEMMA SkipKeeps ==
  ASSUME NEW n, SectionsInvOf(n), NEW t \in Thread, NEW s \in 1..n, SkipCompleted(t, s)
  PROVE  SectionsInvOf(n)'
<1> DEFINE sv == sectionVar[t]
           sc == Scratch[t]
           v == visited[t]
           e == enclosing
<1>1. PICK id \in Sources : /\ Tries(t, s, id)
                            /\ Met(t, id).RunState[id] = "Completed"
                            /\ Goes(t, Met(t, id), Past(s), <<>>)
  BY DEF SkipCompleted
<1>2. id = sv[s] /\ sc \in Scratches /\ Numbers(e, n, sv, sc) /\ Outline(e, n)
      /\ v \o <<>> = v
  BY <1>1, TriesFacts DEF SectionsInvOf
<1>3. sc.RunState[id] = "Completed" /\ Met(t, id) = sc
  <2>1. sc.RunState[id] # "NeverEntered"
    <3>1. SUFFICES ASSUME sc.RunState[id] = "NeverEntered" PROVE FALSE
      OBVIOUS
    <3>2. Met(t, id).RunState[id] = "NeedsRun"
      BY <3>1, <1>2, MetFacts
    <3> QED BY <3>2, <1>1
  <2>2. Met(t, id) = sc
    BY <2>1 DEF Met
  <2> QED BY <2>2, <1>1
<1>4. InPassAt(e, n, sv, sc, v, e[s], s)
  BY <1>1, <1>2, <1>3, TriesFacts DEF Running
<1> HIDE DEF sv, sc, v, e
<1>5. PICK x \in Nat : NextIn(e, n, s, x) /\ Arrives(e, n, Past(s), e[s], x)
  BY <1>2, PastArrives DEF e
<1>6. InPassAt(e, n, sv, sc, v, e[s], x)
  <2>1. InPass(e, n, StatesOf(n, sv, sc), e[s], s, v)
    BY <1>4 DEF InPassAt
  <2>2. StatesOf(n, sv, sc)[s] = "Completed"
    <3>1. s \in 0..n
      BY <1>2 DEF Outline
    <3> QED BY <3>1, <1>2, <1>3 DEF StatesOf, StateOf
  <2>3. InPass(e, n, StatesOf(n, sv, sc), e[s], x, v)
    BY <2>1, <2>2, <1>2, <1>5, SectionSkipped
  <2>4. Told(e, n, StatesOf(n, sv, sc), sv, e[s], x)
    <3> DEFINE st == StatesOf(n, sv, sc)
    <3>1. Told(e, n, st, sv, e[s], s) /\ sv[s] # None
      BY <1>2, <1>4, SourcesAreNat DEF InPassAt
    <3>2. SameLeaves(e, n, st, st) /\ x \in Nat /\ s < x
      BY <1>5 DEF SameLeaves, NextIn
    <3> HIDE DEF st
    <3>3. Told(e, n, st, sv, e[s], x)
      BY <3>1, <3>2, <1>2, <1>5, TurnsPast
    <3> QED BY <3>3 DEF st
  <2>5. AllMet(n, sv, sc, x)
    <3>1. AllMet(n, sv, sc, s) /\ StateOf(sv, sc, s) # "NeverEntered"
      BY <1>2, <1>3, <1>4 DEF InPassAt, StateOf
    <3> QED BY <3>1, MetStays
  <2> QED BY <2>3, <2>4, <2>5, <1>4 DEF InPassAt
<1>7. ThreadInv(e, n, Past(s), sv, sc, v \o <<>>)
  BY <1>2, <1>5, <1>6, ThreadArrived
<1>8. Goes(t, sc, Past(s), <<>>)
  BY <1>1, <1>3
<1> QED BY <1>7, <1>8, ThreadGoes DEF sv, sc, v, e

\* A thread leaves a section.
LEMMA LeaveKeeps ==
  ASSUME NEW n, SectionsInvOf(n), NEW t \in Thread, NEW s \in 1..n, LeaveSection(t, s)
  PROVE  SectionsInvOf(n)'
<1> DEFINE sv == sectionVar[t]
           sc == Scratch[t]
           v == visited[t]
           e == enclosing
<1>1. PICK id \in Sources : /\ Tries(t, s, id)
                            /\ Met(t, id).RunState[id] \in Running
                            /\ Goes(t, Left(Met(t, id), id), Past(s), <<>>)
  BY DEF LeaveSection
<1>2. id = sv[s] /\ sc \in Scratches /\ Numbers(e, n, sv, sc) /\ Outline(e, n)
      /\ v \o <<>> = v
  BY <1>1, TriesFacts DEF SectionsInvOf
<1>3. sc.RunState[id] \in Running /\ Met(t, id) = sc
  <2>1. sc.RunState[id] # "NeverEntered"
    <3>1. SUFFICES ASSUME sc.RunState[id] = "NeverEntered" PROVE FALSE
      OBVIOUS
    <3>2. Met(t, id).RunState[id] = "NeedsRun"
      BY <3>1, <1>2, MetFacts
    <3> QED BY <3>2, <1>1 DEF Running
  <2>2. Met(t, id) = sc
    BY <2>1 DEF Met
  <2> QED BY <2>2, <1>1
<1>4. InPassAt(e, n, sv, sc, v, s, n + 1)
  BY <1>1, <1>2, <1>3, TriesFacts
<1>5. Goes(t, Left(sc, sv[s]), Past(s), <<>>)
  BY <1>1, <1>2, <1>3
<1> HIDE DEF sv, sc, v, e
<1>6. sv[s] \in Sources
  BY <1>2
<1>7. sv[s] # sv[e[s]] /\ e[s] \in 0..n
  BY <1>2, <1>6, NumbersDiffer
<1>8. sc.ParentID[sv[s]] = sv[e[s]]
  <2>1. StateOf(sv, sc, s) # "NeverEntered"
    BY <1>4, CurrentNumbered DEF Running
  <2> QED BY <2>1, <1>2 DEF Numbers, Parents
<1>9. sv[e[s]] \in Sources
  <2>1. StatesOf(n, sv, sc)[s] \in Running /\ InPass(e, n, StatesOf(n, sv, sc), s, n + 1, v)
    BY <1>4, Zenon DEF InPassAt, InPass, Walk
  <2>2. StatesOf(n, sv, sc)[e[s]] \in Running
    BY <2>1, Zenon DEF InPass, Walk
  <2> QED BY <2>2, <1>7 DEF StatesOf, StateOf, Running
<1>10. PICK x \in Nat : NextIn(e, n, s, x) /\ Arrives(e, n, Past(s), e[s], x)
  BY <1>2, PastArrives DEF e
<1>11. PICK p, q :
         \/ /\ sc.RunState[sv[s]] = "RunningNeedsRerun"
            /\ p = "NeedsRun" /\ q = "RunningNeedsRerun"
         \/ /\ sc.RunState[sv[s]] # "RunningNeedsRerun"
            /\ p = "Completed" /\ q = sc.RunState[sv[e[s]]]
  OBVIOUS
<1> DEFINE sd == Left(sc, sv[s])
<1> HIDE DEF sd
<1>12. /\ Sets(sv, sc, sd, s, p, e[s], q)
       /\ sd.CurrentSectionID = sv[e[s]] /\ sd.ParentID = sc.ParentID
  <2>1. sd = Left(sc, sv[s])
    BY DEF sd
  <2>2. TwoOf(sv, sc, s, e[s])
    BY <1>2, <1>6, <1>7, <1>9 DEF TwoOf
  <2> QED BY <2>1, <2>2, <1>8, <1>11, LeavingSets
<1>13. Numbers(e, n, sv, sd) /\ InPassAt(e, n, sv, sd, v, e[s], x)
  BY <1>2, <1>4, <1>10, <1>11, <1>12, LeaveStep
<1>14. ThreadInv(e, n, Past(s), sv, sd, v \o <<>>)
  BY <1>2, <1>10, <1>13, ThreadArrived
<1> QED BY <1>5, <1>14, ThreadGoes DEF sv, sc, v, e, sd

\* Section s gets the next number, if it has none.
LEMMA NumberGiven ==
  ASSUME NEW e, NEW n, NEW sv, NEW sc, NEW sw, NEW sd, NEW v, NEW s \in 1..n,
         Outline(e, n), Numbers(e, n, sv, sc), InPassAt(e, n, sv, sc, v, e[s], s),
         sv[s] = None, sw = [sv EXCEPT ![s] = sc.NextSectionID],
         sd \in Scratches, sd.NextSectionID = sc.NextSectionID + 1,
         sd.CurrentSectionID = sc.CurrentSectionID,
         sd.RunState = sc.RunState, sd.ParentID = sc.ParentID
  PROVE  Numbers(e, n, sw, sd) /\ InPassAt(e, n, sw, sd, v, e[s], s)
<1>n. /\ n \in Nat /\ e[s] \in 0..n /\ e[s] < s /\ s \in 0..n
      /\ \A r \in 0..n : r \in Sources
      /\ \A r \in 1..n : r \in 0..n /\ e[r] \in 0..n
  <2>1. n \in Sources
    BY DEF Numbers
  <2> QED BY <2>1, SourcesAreNat DEF Outline
<1>1. sw \in [Sources -> Nat \cup {None}] /\ sc.NextSectionID \in Nat
  BY DEF Numbers, Scratches
<1>2. /\ sw[s] = sc.NextSectionID
      /\ \A r \in Sources : r # s => sw[r] = sv[r]
  BY <1>n DEF Numbers
<1>3. \A r \in 0..n : StateOf(sw, sd, r) = StateOf(sv, sc, r)
  <2>1. StateOf(sv, sc, s) = "NeverEntered"
    BY SourcesAreNat DEF StateOf
  <2>2. StateOf(sw, sd, s) = "NeverEntered"
    BY <1>1, <1>2 DEF StateOf, Numbers
  <2>3. \A r \in 0..n : r # s => StateOf(sw, sd, r) = StateOf(sv, sc, r)
    BY <1>n, <1>2 DEF StateOf
  <2> QED BY <2>1, <2>2, <2>3
<1>4. \A r \in Sources : sw[r] # None => sw[r] < sd.NextSectionID
  <2>1. \A r \in Sources : r # s /\ sv[r] # None => sv[r] < sc.NextSectionID /\ sv[r] \in Nat
    BY DEF Numbers
  <2>2. \A r \in Sources : r # s /\ sv[r] # None => sv[r] < sc.NextSectionID + 1
    BY <2>1, <1>1
  <2> QED BY <2>2, <1>1, <1>2
<1>5. ASSUME NEW q \in Sources, NEW r \in Sources, sw[q] = sw[r], sw[q] # None
      PROVE  q = r
  <2>1. \A k \in Sources : k # s /\ sv[k] # None => sv[k] # sc.NextSectionID
    BY <1>1 DEF Numbers
  <2>2. CASE q # s /\ r # s
    BY <2>2, <1>2, <1>5 DEF Numbers
  <2>3. CASE q = s \/ r = s
    BY <2>1, <2>3, <1>2, <1>5
  <2> QED BY <2>2, <2>3
<1>6. \A id \in Sources : id >= sd.NextSectionID => sd.RunState[id] = "NeverEntered"
  <2>1. \A id \in Sources : id >= sc.NextSectionID + 1 => id >= sc.NextSectionID
    BY <1>1, SourcesAreNat
  <2> QED BY <2>1 DEF Numbers
<1>7. ASSUME NEW r \in 1..n, StateOf(sw, sd, r) # "NeverEntered"
      PROVE  sd.ParentID[sw[r]] = sw[e[r]]
  <2>1. StateOf(sv, sc, r) # "NeverEntered"
    BY <1>n, <1>3, <1>7
  <2>2. sv[r] \in Sources /\ r # s
    BY <2>1, SourcesAreNat DEF StateOf
  <2>3. sc.ParentID[sv[r]] = sv[e[r]]
    BY <2>1 DEF Numbers, Parents
  <2>4. sc.ParentID[sv[r]] \in Int
    BY <2>2 DEF Numbers, Scratches
  <2>5. e[r] # s
    BY <2>3, <2>4, SectionsAssumption
  <2> QED BY <2>2, <2>3, <2>5, <1>n, <1>2
<1>f. Filled(e, n, sw, sd.NextSectionID)
  <2>1. Filled(e, n, sv, sc.NextSectionID) /\ sv[0] = 0 /\ sw[0] = 0
    <3>1. 0 # s /\ 0 \in Sources
      BY <1>n, SourcesAreNat
    <3> QED BY <3>1, <1>2 DEF InPassAt, Numbers
  <2>2. ASSUME NEW q \in 1..n, NEW r \in 1..n, sw[r] # None, Prior(e, n, q, r)
        PROVE  sw[q] # None /\ sw[q] < sw[r]
    <3>1. CASE r = s
      <4> DEFINE st == StatesOf(n, sv, sc)
      <4>1. InPass(e, n, st, e[s], s, v) /\ Told(e, n, st, sv, e[s], s)
        BY DEF InPassAt
      <4>2. EnteredNumbered(n, st, sv)
        BY StatesNumbered
      <4>3. Prior(e, n, q, s)
        BY <2>2, <3>1
      <4> HIDE DEF st
      <4>4. sv[q] # None
        BY <4>1, <4>2, <4>3, TurnComes
      <4>5. q # s /\ q \in Sources
        BY <4>4, <1>n
      <4>6. sw[q] = sv[q] /\ sv[q] < sc.NextSectionID
        BY <4>4, <4>5, <1>2 DEF Numbers
      <4> QED BY <4>4, <4>6, <3>1, <1>2
    <3>2. CASE r # s
      <4>1. r \in Sources /\ q \in Sources
        BY <1>n
      <4>2. sv[r] # None /\ sw[r] = sv[r]
        BY <4>1, <3>2, <2>2, <1>2
      <4>3. sv[q] # None /\ sv[q] < sv[r]
        BY <4>2, <2>1, <2>2 DEF Filled
      <4>4. sw[q] = sv[q]
        BY <4>1, <4>3, <1>2
      <4> QED BY <4>2, <4>3, <4>4
    <3> QED BY <3>1, <3>2
  <2>3. ASSUME NEW id \in 0..sd.NextSectionID - 1 PROVE \E r \in 0..n : sw[r] = id
    <3>1. CASE id = sc.NextSectionID
      BY <3>1, <1>2, <1>n
    <3>2. CASE id # sc.NextSectionID
      <4>1. id \in 0..sc.NextSectionID - 1
        BY <3>2, <1>1
      <4>2. PICK r \in 0..n : sv[r] = id
        BY <4>1, <2>1 DEF Filled
      <4>3. r # s /\ r \in Sources
        BY <4>2, <1>n, SourcesAreNat
      <4>4. sw[r] = sv[r]
        BY <4>3, <1>2
      <4> QED BY <4>2, <4>4
    <3> QED BY <3>1, <3>2
  <2> QED BY <2>1, <2>2, <2>3 DEF Filled
<1>8. Numbers(e, n, sw, sd)
  <2>1. Parents(e, n, sw, sd)
    BY <1>7 DEF Parents
  <2>2. n \in Sources
    BY DEF Numbers
  <2> QED BY <2>1, <2>2, <1>1, <1>4, <1>5, <1>6, <1>f DEF Numbers
<1>9. StatesOf(n, sw, sd) = StatesOf(n, sv, sc)
  BY <1>3 DEF StatesOf
<1>t. Told(e, n, StatesOf(n, sw, sd), sw, e[s], s)
  <2> DEFINE st == StatesOf(n, sv, sc)
  <2>1. Told(e, n, st, sv, e[s], s)
    BY DEF InPassAt
  <2>2. \A r \in 1..n : sv[r] # None => sw[r] # None
    BY <1>n, <1>1, <1>2, SourcesAreNat
  <2> HIDE DEF st
  <2>3. Told(e, n, st, sw, e[s], s)
    BY <2>1, <2>2 DEF Told
  <2> QED BY <2>3, <1>9 DEF st
<1>m. AllMet(n, sw, sd, s)
  <2>1. SUFFICES ASSUME NEW r \in 0..n, sw[r] # None, r # s
                 PROVE  StateOf(sw, sd, r) # "NeverEntered"
    <3>1. sw[s] = sd.NextSectionID - 1
      BY <1>1, <1>2
    <3> QED BY <3>1 DEF AllMet
  <2>2. sv[r] # None
    BY <2>1, <1>n, <1>2
  <2> QED BY <2>1, <2>2, <1>3 DEF InPassAt, AllMet
<1>10. sw[e[s]] = sv[e[s]] /\ sw[0] = sv[0]
  <2>1. e[s] # s /\ 0 # s /\ 0 \in Sources /\ e[s] \in Sources
    BY <1>n, SourcesAreNat
  <2> QED BY <2>1, <1>2
<1> QED BY <1>8, <1>9, <1>10, <1>t, <1>m DEF InPassAt

\* Any evaluation of the condition of a section.
LEMMA SectionKeeps ==
  ASSUME NEW n, SectionsInvOf(n), NEW t \in Thread, NEW s \in 1..n, Section(t, s)
  PROVE  SectionsInvOf(n)'
<1> DEFINE sv == sectionVar[t]
           sc == Scratch[t]
           sw == sectionVar'[t]
           sd == Scratch'[t]
           e == enclosing
<1>1. Outline(e, n) /\ ThreadInv(e, n, <<"reach", s>>, sv, sc, visited[t])
  BY DEF SectionsInvOf, Section, AtMacro
<1>2. Numbers(e, n, sv, sc) /\ InPassAt(e, n, sv, sc, visited[t], e[s], s)
  <2> HIDE DEF sv, sc, e
  <2> QED BY <1>1, AtReach
<1>3. s \in Sources /\ n \in Nat /\ sc \in Scratches /\ sv \in [Sources -> Nat \cup {None}]
  <2>1. s \in 0..n
    BY <1>1 DEF Outline
  <2> QED BY <2>1, <1>1, <1>2, SourcesAreNat DEF Numbers, Outline
<1>4. /\ enclosing' = enclosing /\ visited' = visited
      /\ sectionVar' = [sectionVar EXCEPT ![t][s] = SectionId(t, s)]
      /\ stringVar' = [stringVar EXCEPT ![t][s] = StringId(t, s)]
      /\ Scratch' = [Scratch EXCEPT
           ![t].NextSectionID = IF sectionVar[t][s] = None THEN @ + 1 ELSE @,
           ![t].NextStringID = IF stringVar[t][s] = None THEN @ + 1 ELSE @]
      /\ at' = [at EXCEPT ![t] = <<"try", s>>]
  BY DEF Section
<1>5. Mapped(at) /\ Mapped(Scratch) /\ Mapped(sectionVar) /\ Mapped(visited)
  BY DEF SectionsInvOf
<1>6. /\ Mapped(at)' /\ Mapped(Scratch)' /\ Mapped(sectionVar)' /\ Mapped(visited)'
  BY <1>4, <1>5 DEF Mapped
<1>7. stringVar' \in [Thread -> [Sources -> Int \cup {None}]]
  <2>1. stringVar \in [Thread -> [Sources -> Int \cup {None}]]
    BY DEF SectionsInvOf
  <2>2. StringId(t, s) \in Int \cup {None}
    BY <2>1, <1>3 DEF StringId, Scratches
  <2> QED BY <2>1, <2>2, <1>4
<1>8. at'[t] = <<"try", s>> /\ visited'[t] = visited[t]
  BY <1>4, <1>5 DEF Mapped
<1>9. \A u \in Thread : u # t => /\ at'[u] = at[u] /\ Scratch'[u] = Scratch[u]
                              /\ visited'[u] = visited[u] /\ sectionVar'[u] = sectionVar[u]
  BY <1>4, <1>5 DEF Mapped
<1>10. sw = [sv EXCEPT ![s] = SectionId(t, s)]
  BY <1>4, <1>5 DEF Mapped
<1>11. sd = [[sc EXCEPT !.NextSectionID = IF sv[s] = None THEN @ + 1 ELSE @]
                EXCEPT !.NextStringID = IF stringVar[t][s] = None THEN @ + 1 ELSE @]
  BY <1>4, <1>5 DEF Mapped
<1>12. /\ sd \in Scratches
       /\ sd.NextSectionID = IF sv[s] = None THEN sc.NextSectionID + 1 ELSE sc.NextSectionID
       /\ sd.CurrentSectionID = sc.CurrentSectionID
       /\ sd.RunState = sc.RunState /\ sd.ParentID = sc.ParentID
  <2>1. PICK a \in Nat : a = IF sv[s] = None THEN sc.NextSectionID + 1 ELSE sc.NextSectionID
    BY <1>3 DEF Scratches
  <2>2. PICK b \in Int : b = IF stringVar[t][s] = None THEN sc.NextStringID + 1 ELSE sc.NextStringID
    BY <1>3 DEF Scratches
  <2>3. sd = [[sc EXCEPT !.NextSectionID = a] EXCEPT !.NextStringID = b]
    BY <1>3, <1>11, <2>1, <2>2 DEF Scratches
  <2> HIDE DEF sv, sc, sd
  <2>4. /\ sd \in Scratches /\ sd.NextSectionID = a
        /\ sd.CurrentSectionID = sc.CurrentSectionID
        /\ sd.RunState = sc.RunState /\ sd.ParentID = sc.ParentID
    BY <1>3, <2>3 DEF Scratches
  <2> QED BY <2>1, <2>4
<1>13. Numbers(e, n, sw, sd) /\ InPassAt(e, n, sw, sd, visited[t], e[s], s) /\ sw[s] # None
  <2>1. CASE sv[s] = None
    <3>1. sw = [sv EXCEPT ![s] = sc.NextSectionID] /\ sd.NextSectionID = sc.NextSectionID + 1
      BY <2>1, <1>10, <1>12 DEF SectionId
    <3>2. sw[s] # None
      BY <3>1, <1>3, SourcesAreNat DEF Scratches
    <3> HIDE DEF sv, sc, sw, sd, e
    <3> QED BY <3>1, <3>2, <2>1, <1>1, <1>2, <1>12, NumberGiven
  <2>2. CASE sv[s] # None
    <3>1. sw = sv /\ sd.NextSectionID = sc.NextSectionID
      BY <2>2, <1>3, <1>10, <1>12 DEF SectionId
    <3> HIDE DEF sv, sc, sw, sd, e
    <3>2. \A r : StateOf(sw, sd, r) = StateOf(sv, sc, r)
      BY <3>1, <1>12 DEF StateOf
    <3>3. StatesOf(n, sw, sd) = StatesOf(n, sv, sc)
      BY <3>2 DEF StatesOf
    <3>4. Parents(e, n, sw, sd)
      BY <3>1, <3>2, <1>2, <1>12 DEF Numbers, Parents
    <3>5. Numbers(e, n, sw, sd)
      BY <3>1, <3>4, <1>2, <1>12 DEF Numbers
    <3>6. AllMet(n, sw, sd, s)
      BY <3>1, <3>2, <1>2 DEF InPassAt, AllMet
    <3> QED BY <3>1, <3>3, <3>5, <3>6, <2>2, <1>2, <1>12 DEF InPassAt
  <2> QED BY <2>1, <2>2
<1>14. ThreadInv(e, n, <<"try", s>>, sw, sd, visited[t])
  <2>1. Tried(e, n, sw, <<"try", s>>, e[s], s) /\ e[s] \in 0..n /\ s \in Nat
    BY <1>1, <1>3, <1>13 DEF Tried, Outline
  <2> QED BY <2>1, <1>13 DEF ThreadInv
<1>15. ASSUME NEW u \in Thread
       PROVE  ThreadInv(enclosing', n, at'[u], sectionVar'[u], Scratch'[u], visited'[u])
  <2>1. CASE u = t
    BY <2>1, <1>4, <1>8, <1>14
  <2>2. CASE u # t
    <3>1. ThreadInv(enclosing, n, at[u], sectionVar[u], Scratch[u], visited[u])
      BY DEF SectionsInvOf
    <3> QED BY <3>1, <2>2, <1>4, <1>9
  <2> QED BY <2>1, <2>2
<1>16. n \in Sources /\ Outline(enclosing', n)
  BY <1>1, <1>4 DEF SectionsInvOf
<1> QED BY <1>6, <1>7, <1>15, <1>16 DEF SectionsInvOf

\* A thread comes to the scenario.
LEMMA ScenarioKeeps ==
  ASSUME NEW n, SectionsInvOf(n), NEW t \in Thread, Scenario(t)
  PROVE  SectionsInvOf(n)'
<1> DEFINE sv == sectionVar[t]
           sc == Scratch[t]
           sw == sectionVar'[t]
           sd == Scratch'[t]
           e == enclosing
<1>1. /\ Outline(e, n) /\ ThreadInv(e, n, <<"reach", 0>>, sv, sc, visited[t])
      /\ n \in Nat /\ 0 \in Sources
  BY SourcesAreNat DEF SectionsInvOf, Scenario, AtMacro, Outline
<1>2. Numbers(e, n, sv, sc) /\ visited[t] = <<>> /\ sc.NextSectionID = 0
  <2>1. ~\E c \in 0..n, x \in Nat : Arrives(e, n, <<"reach", 0>>, c, x) \/ Tried(e, n, sv, <<"reach", 0>>, c, x)
    BY <1>1 DEF Arrives, Tried
  <2>2. <<"reach", 0>> # <<"try", 0>> /\ <<"reach", 0>> # <<"end", 0>>
    OBVIOUS
  <2> QED BY <2>1, <2>2, <1>1 DEF ThreadInv
<1>3. sc \in Scratches /\ sv = [s \in Sources |-> None]
  <2>1. sv \in [Sources -> Nat \cup {None}] /\ \A s \in Sources : sv[s] # None => sv[s] < 0
    BY <1>2 DEF Numbers
  <2>2. \A s \in Sources : sv[s] = None
    BY <2>1
  <2> QED BY <2>1, <2>2, <1>2 DEF Numbers
<1>4. /\ enclosing' = enclosing /\ visited' = visited
      /\ stringVar' = [stringVar EXCEPT ![t][0] = StringId(t, 0)]
      /\ Scratch' = [Scratch EXCEPT ![t].NextStringID = StringId(t, 0) + 1,
                                    ![t].NextSectionID = 1,
                                    ![t].ParentID[0] = -1]
      /\ sectionVar' = [sectionVar EXCEPT ![t][0] = 0]
      /\ at' = [at EXCEPT ![t] = <<"try", 0>>]
  BY DEF Scenario
<1>5. Mapped(at) /\ Mapped(Scratch) /\ Mapped(sectionVar) /\ Mapped(visited)
  BY DEF SectionsInvOf
<1>6. /\ Mapped(at)' /\ Mapped(Scratch)' /\ Mapped(sectionVar)' /\ Mapped(visited)'
  BY <1>4, <1>5 DEF Mapped
<1>7. StringId(t, 0) \in Int /\ stringVar' \in [Thread -> [Sources -> Int \cup {None}]]
  <2>1. stringVar \in [Thread -> [Sources -> Int \cup {None}]]
    BY DEF SectionsInvOf
  <2>2. StringId(t, 0) \in Int
    BY <2>1, <1>1, <1>3 DEF StringId, Scratches
  <2> QED BY <2>1, <2>2, <1>4
<1>8. at'[t] = <<"try", 0>> /\ visited'[t] = visited[t]
  BY <1>4, <1>5 DEF Mapped
<1>9. \A u \in Thread : u # t => /\ at'[u] = at[u] /\ Scratch'[u] = Scratch[u]
                              /\ visited'[u] = visited[u] /\ sectionVar'[u] = sectionVar[u]
  BY <1>4, <1>5 DEF Mapped
<1>10. sw = [sv EXCEPT ![0] = 0]
  BY <1>4, <1>5 DEF Mapped
<1>11. sd = [[[sc EXCEPT !.NextStringID = StringId(t, 0) + 1] EXCEPT !.NextSectionID = 1]
                EXCEPT !.ParentID[0] = -1]
  BY <1>4, <1>5 DEF Mapped
<1>12. /\ sd \in Scratches /\ sd.NextSectionID = 1 /\ sd.RunState = sc.RunState
  <2>1. [sc.ParentID EXCEPT ![0] = -1] \in [Sources -> Int]
    BY <1>1, <1>3 DEF Scratches
  <2>2. StringId(t, 0) + 1 \in Int
    BY <1>7
  <2>3. /\ sd.NextSectionID = 1 /\ sd.RunState = sc.RunState
        /\ sd.ParentID = [sc.ParentID EXCEPT ![0] = -1]
        /\ sd.NextStringID = StringId(t, 0) + 1 /\ sd.CurrentSectionID = sc.CurrentSectionID
    BY <1>3, <1>11 DEF Scratches
  <2>4. sd \in Scratches
    <3>1. PICK k \in Int : k = StringId(t, 0) + 1
      BY <2>2
    <3>2. PICK one \in Nat : one = 1
      OBVIOUS
    <3> DEFINE parents == [sc.ParentID EXCEPT ![0] = -1]
    <3>3. sd = [[[sc EXCEPT !.NextStringID = k] EXCEPT !.NextSectionID = one]
                   EXCEPT !.ParentID = parents]
      BY <1>3, <1>11, <3>1, <3>2 DEF Scratches
    <3>4. parents \in [Sources -> Int]
      BY <2>1
    <3> HIDE DEF parents, sd, sc
    <3> QED BY <3>3, <3>4, <1>3 DEF Scratches
  <2> QED BY <2>3, <2>4
<1>13. \A s \in Sources : sw[s] = IF s = 0 THEN 0 ELSE None
  BY <1>1, <1>3, <1>10
<1>14. sw \in [Sources -> Nat \cup {None}]
  BY <1>1, <1>3, <1>10
<1>15. \A id \in Sources : sd.RunState[id] = "NeverEntered"
  BY <1>2, <1>12, SourcesAreNat DEF Numbers
<1>16. \A s \in 0..n : StateOf(sw, sd, s) = "NeverEntered"
  BY <1>15 DEF StateOf
<1>17. Numbers(e, n, sw, sd)
  <2>1. Parents(e, n, sw, sd)
    <3>1. \A s \in 1..n : s \in 0..n
      BY <1>1
    <3> QED BY <3>1, <1>16 DEF Parents
  <2>2. n \in Sources
    BY DEF SectionsInvOf
  <2>3. \A s \in Sources : sw[s] # None => sw[s] < sd.NextSectionID
    BY <1>12, <1>13
  <2>4. \A s, r \in Sources : sw[s] = sw[r] /\ sw[s] # None => s = r
    BY <1>13, SourcesAreNat
  <2>5. Filled(e, n, sw, sd.NextSectionID)
    <3>1. \A s \in 1..n : sw[s] = None
      <4>1. \A s \in 1..n : s \in Sources /\ s # 0
        BY <1>1, <2>2, SourcesAreNat
      <4> QED BY <4>1, <1>13
    <3>2. sw[0] = 0 /\ 0 \in 0..n
      BY <1>1, <1>13
    <3>3. \A id \in 0..1 - 1 : id = 0
      OBVIOUS
    <3> QED BY <3>1, <3>2, <3>3, <1>12 DEF Filled
  <2> QED BY <2>1, <2>2, <2>3, <2>4, <2>5, <1>12, <1>14, <1>15 DEF Numbers
<1>18. ThreadInv(e, n, <<"try", 0>>, sw, sd, visited[t])
  <2>1. \A s \in 0..n : s \in Sources
    BY SourcesAreNat DEF SectionsInvOf
  <2> QED BY <2>1, <1>1, <1>2, <1>13, <1>16, <1>17 DEF ThreadInv
<1>19. ASSUME NEW u \in Thread
       PROVE  ThreadInv(enclosing', n, at'[u], sectionVar'[u], Scratch'[u], visited'[u])
  <2>1. CASE u = t
    BY <2>1, <1>4, <1>8, <1>18
  <2>2. CASE u # t
    <3>1. ThreadInv(enclosing, n, at[u], sectionVar[u], Scratch[u], visited[u])
      BY DEF SectionsInvOf
    <3> QED BY <3>1, <2>2, <1>4, <1>9
  <2> QED BY <2>1, <2>2
<1>20. n \in Sources /\ Outline(enclosing', n)
  BY <1>1, <1>4 DEF SectionsInvOf
<1> QED BY <1>6, <1>7, <1>19, <1>20 DEF SectionsInvOf

\* A thread comes to the end of a pass.
LEMMA LoopKeeps ==
  ASSUME NEW n, SectionsInvOf(n), NEW t \in Thread, LoopScenario(t)
  PROVE  SectionsInvOf(n)'
<1> DEFINE sv == sectionVar[t]
           sc == Scratch[t]
           v == visited[t]
           e == enclosing
<1>1. /\ at[t] \in {<<"try", 0>>, <<"again", 0>>}
      /\ Loops(sc.RunState[0]) => Goes(t, Looped(sc), Into(0), LeafOf(0))
      /\ ~Loops(sc.RunState[0]) => Goes(t, sc, <<"end", 0>>, <<>>)
  BY DEF LoopScenario, Evaluates
<1>2. /\ ThreadInv(e, n, at[t], sv, sc, v) /\ Outline(e, n) /\ Numbers(e, n, sv, sc)
      /\ sc \in Scratches /\ n \in Nat /\ 0 \in 0..n /\ 0 \in Sources
  BY SourcesAreNat DEF SectionsInvOf, ThreadInv, Numbers, Outline
<1>3. LeafOf(0) = VisitOf(e, n, 0)
  BY <1>2, LeafIsChildless
<1>4. PICK x \in Nat : FirstIn(e, n, 0, x) /\ Arrives(e, n, Into(0), 0, x)
  BY <1>2, IntoArrives
<1> HIDE DEF sv, sc, v, e
<1>5. CASE at[t] = <<"try", 0>>
  <2>1. /\ v = <<>> /\ sv[0] = 0
        /\ \A s \in 0..n : StateOf(sv, sc, s) = "NeverEntered" /\ (sv[s] # None => s = 0)
    <3>1. ~\E c \in 0..n, y \in Nat :
            Arrives(e, n, <<"try", 0>>, c, y) \/ Tried(e, n, sv, <<"try", 0>>, c, y)
      BY <1>2 DEF Arrives, Tried
    <3>2. <<"try", 0>> # <<"reach", 0>> /\ <<"try", 0>> # <<"end", 0>>
      OBVIOUS
    <3> QED BY <3>1, <3>2, <1>2, <1>5 DEF ThreadInv
  <2>2. Loops(sc.RunState[0])
    <3>1. StateOf(sv, sc, 0) = "NeverEntered"
      BY <2>1, <1>2
    <3> QED BY <3>1, <2>1, <1>2 DEF StateOf, Loops
  <2>3. /\ Sets(sv, sc, Looped(sc), 0, "Running", 0, "Running")
        /\ Looped(sc).CurrentSectionID = 0 /\ Looped(sc).ParentID = sc.ParentID
    BY <2>1, <1>2, LoopingSets
  <2> DEFINE sd == Looped(sc)
  <2> HIDE DEF sd
  <2>4. /\ Sets(sv, sc, sd, 0, "Running", 0, "Running")
        /\ sd.CurrentSectionID = 0 /\ sd.ParentID = sc.ParentID
    BY <2>3 DEF sd
  <2>5. Numbers(e, n, sv, sd) /\ InPassAt(e, n, sv, sd, VisitOf(e, n, 0), 0, x)
    BY <2>1, <2>4, <1>2, <1>4, BeginStep
  <2>6. ThreadInv(e, n, Into(0), sv, sd, VisitOf(e, n, 0))
    BY <2>5, <1>4, ThreadArrived
  <2>7. v \o VisitOf(e, n, 0) = VisitOf(e, n, 0)
    BY <2>1 DEF VisitOf
  <2>8. ThreadInv(e, n, Into(0), sv, sd, v \o LeafOf(0))
    BY <2>6, <2>7, <1>3
  <2>9. Goes(t, sd, Into(0), LeafOf(0))
    BY <2>2, <1>1 DEF sd
  <2> QED BY <2>8, <2>9, ThreadGoes DEF sv, sc, v, e
<1>6. CASE at[t] = <<"again", 0>>
  <2>1. InPassAt(e, n, sv, sc, v, 0, n + 1)
    <3>1. ThreadInv(e, n, <<"again", 0>>, sv, sc, v)
      BY <1>2, <1>6
    <3> QED BY <3>1, <1>2, AtAgain
  <2>2. sv[0] = 0 /\ InPass(e, n, StatesOf(n, sv, sc), 0, n + 1, v)
    BY <2>1 DEF InPassAt
  <2>3. sc.RunState[0] \in Running /\ StatesOf(n, sv, sc)[0] = sc.RunState[0]
    <3>1. StateOf(sv, sc, 0) \in Running /\ StateOf(sv, sc, 0) = sc.RunState[sv[0]]
      BY <2>1, CurrentNumbered
    <3> QED BY <3>1, <2>2, <1>2 DEF StatesOf
  <2>4. v \in Seq(0..n)
    BY <2>2 DEF InPass, Visits
  <2>5. v \o <<>> = v
    BY <2>4
  <2>6. CASE sc.RunState[0] = "RunningNeedsRerun"
    <3>1. /\ Sets(sv, sc, Looped(sc), 0, "Running", 0, "Running")
          /\ Looped(sc).CurrentSectionID = 0 /\ Looped(sc).ParentID = sc.ParentID
      BY <2>2, <1>2, LoopingSets
    <3> DEFINE sd == Looped(sc)
    <3> HIDE DEF sd
    <3>2. /\ Sets(sv, sc, sd, 0, "Running", 0, "Running")
          /\ sd.CurrentSectionID = 0 /\ sd.ParentID = sc.ParentID
      BY <3>1 DEF sd
    <3>3. /\ Numbers(e, n, sv, sd) /\ InPassAt(e, n, sv, sd, v, 0, x)
          /\ ~Childless(e, n, 0)
      BY <3>2, <2>1, <2>6, <1>2, <1>4, AgainStep
    <3>4. ThreadInv(e, n, Into(0), sv, sd, v)
      BY <3>3, <1>4, ThreadArrived
    <3>5. LeafOf(0) = <<>>
      BY <3>3, <1>3 DEF VisitOf
    <3>6. ThreadInv(e, n, Into(0), sv, sd, v \o LeafOf(0))
      BY <3>4, <3>5, <2>5
    <3>7. Goes(t, sd, Into(0), LeafOf(0))
      BY <2>6, <1>1 DEF sd, Loops
    <3> QED BY <3>6, <3>7, ThreadGoes DEF sv, sc, v, e
  <2>7. CASE sc.RunState[0] # "RunningNeedsRerun"
    <3>1. AllVisited(e, n, v)
      <4>1. StatesOf(n, sv, sc)[0] # "RunningNeedsRerun"
        BY <2>3, <2>7
      <4> DEFINE st == StatesOf(n, sv, sc)
      <4>2. st[0] # "RunningNeedsRerun" /\ InPass(e, n, st, 0, n + 1, v)
        BY <4>1, <2>2
      <4> HIDE DEF st
      <4> QED BY <4>2, <1>2, PassesEnd
    <3>2. Visits(e, n, StatesOf(n, sv, sc), v)
      BY <2>2 DEF InPass
    <3>3. ThreadInv(e, n, <<"end", 0>>, sv, sc, v \o <<>>)
      BY <3>1, <3>2, <2>5, <1>2 DEF ThreadInv
    <3>4. Goes(t, sc, <<"end", 0>>, <<>>)
      BY <2>3, <2>7, <1>1 DEF Loops, Running
    <3> QED BY <3>3, <3>4, ThreadGoes DEF sv, sc, v, e
  <2> QED BY <2>6, <2>7
<1> QED BY <1>1, <1>5, <1>6

\* No step of any thread changes the test, or disturbs what holds of the threads.
LEMMA SectionsStay ==
  ASSUME NEW n, SectionsInvOf(n), [Next]_vars
  PROVE  SectionsInvOf(n)'
<1>1. DOMAIN enclosing = 1..n
  BY DEF SectionsInvOf, Outline
<1>2. CASE UNCHANGED vars
  BY <1>2 DEF vars, SectionsInvOf, Mapped
<1>3. ASSUME NEW t \in Thread, Store(t) PROVE SectionsInvOf(n)'
  <2>1. UNCHANGED <<enclosing, at, Scratch, sectionVar, stringVar, visited>>
    BY <1>3 DEF Store
  <2> QED BY <2>1 DEF SectionsInvOf, Mapped
<1>4. ASSUME NEW t \in Thread, NEW s \in 1..n,
             \/ Section(t, s) \/ EnterSection(t, s) \/ PutOff(t, s)
             \/ SkipCompleted(t, s) \/ LeaveSection(t, s)
      PROVE  SectionsInvOf(n)'
  BY <1>4, SectionKeeps, EnterKeeps, PutOffKeeps, SkipKeeps, LeaveKeeps
<1>5. CASE Next
  <2>1. PICK t \in Thread : Step(t)
    BY <1>5 DEF Next
  <2> QED BY <2>1, <1>1, <1>3, <1>4, ScenarioKeeps, LoopKeeps DEF Step
<1> QED BY <1>2, <1>5

LEMMA SectionsInvInductive ==
  ASSUME SectionsInv, [Next]_vars
  PROVE  SectionsInv'
BY SectionsStay DEF SectionsInv

\* Before the dispatch, no thread has a number for any section.
LEMMA SectionsInvInitially ==
  ASSUME Init
  PROVE  SectionsInv
<1>1. PICK n \in Sources : enclosing \in [1..n -> 0..n] /\ IsTest(enclosing)
  BY DEF Init, Tests
<1>2. n \in Nat
  BY SourcesAreNat
<1>3. Outline(enclosing, n)
  BY <1>1, <1>2 DEF IsTest, Outline
<1>4. ASSUME NEW t \in Thread
      PROVE  ThreadInv(enclosing, n, at[t], sectionVar[t], Scratch[t], visited[t])
  <2> DEFINE sv == [s \in Sources |-> None]
             sc == [CurrentSectionID |-> 0, NextSectionID |-> 0, NextStringID |-> 0,
                    ParentID |-> [id \in Sources |-> 0],
                    RunState |-> [id \in Sources |-> "NeverEntered"]]
  <2>1. /\ sectionVar[t] = sv /\ Scratch[t] = sc
        /\ at[t] = <<"reach", 0>> /\ visited[t] = <<>>
    BY DEF Init
  <2>2. /\ sc \in Scratches /\ sc.NextSectionID = 0
        /\ \A id \in Sources : sc.RunState[id] = "NeverEntered"
    BY DEF Scratches, RunStates
  <2>3. sv \in [Sources -> Nat \cup {None}] /\ \A s \in Sources : sv[s] = None
    OBVIOUS
  <2> HIDE DEF sv, sc
  <2>4. Parents(enclosing, n, sv, sc)
    BY <2>2 DEF Parents, StateOf
  <2>5. Filled(enclosing, n, sv, sc.NextSectionID)
    <3>1. \A s \in 0..n : sv[s] = None
      BY <2>3, SourcesAreNat
    <3>2. \A s \in 1..n : s \in 0..n
      BY <1>2
    <3>3. 0 \in 0..n /\ 0..0 - 1 = {}
      BY <1>2
    <3> QED BY <3>1, <3>2, <3>3, <2>2 DEF Filled
  <2>6. Numbers(enclosing, n, sv, sc)
    BY <2>2, <2>3, <2>4, <2>5, <1>1 DEF Numbers
  <2> QED BY <2>1, <2>2, <2>6 DEF ThreadInv
<1>5. /\ Mapped(at) /\ Mapped(Scratch) /\ Mapped(sectionVar) /\ Mapped(visited)
      /\ stringVar \in [Thread -> [Sources -> Int \cup {None}]]
  BY DEF Init, Mapped
<1>6. SectionsInvOf(n)
  BY <1>3, <1>4, <1>5 DEF SectionsInvOf
<1> QED BY <1>2, <1>6 DEF SectionsInv

\* What the invariant says of the leaves a thread has visited.
LEMMA SectionsInvImplies ==
  ASSUME SectionsInv
  PROVE  LeavesInOrder
<1>1. PICK n \in Nat : SectionsInvOf(n)
  BY DEF SectionsInv
<1>2. Outline(enclosing, n)
  BY <1>1 DEF SectionsInvOf
<1>3. \A s : s \in Leaves <=> s \in 0..n /\ Childless(enclosing, n, s)
  BY <1>2, LeafIsChildless DEF Leaves
<1>4. SUFFICES ASSUME NEW t \in Thread
               PROVE  LET run == {visited[t][k] : k \in DOMAIN visited[t]}
                      IN /\ run \subseteq Leaves
                         /\ \A j, k \in DOMAIN visited[t] :
                              j < k => visited[t][j] < visited[t][k]
                         /\ \A s \in run, r \in Leaves : r < s => r \in run
                         /\ Ended(t) => run = Leaves
  BY DEF LeavesInOrder
<1> DEFINE v == visited[t]
           st == StatesOf(n, sectionVar[t], Scratch[t])
           run == {v[k] : k \in DOMAIN v}
<1>5. ThreadInv(enclosing, n, at[t], sectionVar[t], Scratch[t], v)
  BY <1>1 DEF SectionsInvOf
<1>6. ASSUME Visits(enclosing, n, st, v)
      PROVE  /\ run \subseteq Leaves
             /\ \A j, k \in DOMAIN v : j < k => v[j] < v[k]
             /\ \A s \in run, r \in Leaves : r < s => r \in run
  <2> HIDE DEF st, v
  <2>1. \A k \in DOMAIN v : v[k] \in 0..n /\ Childless(enclosing, n, v[k])
    <3> DEFINE S == 0..n
    <3>1. v \in Seq(S)
      BY <1>6 DEF Visits
    <3> HIDE DEF S
    <3>2. \A k \in DOMAIN v : v[k] \in S
      BY <3>1
    <3> QED BY <3>2, <1>6 DEF Visits, S
  <2>2. ASSUME NEW s \in run, NEW r \in Leaves, r < s PROVE r \in run
    <3>1. s \in 0..n /\ Childless(enclosing, n, s) /\ st[s] \in Entered
      BY <2>1, <1>6 DEF Visits
    <3>2. r \in 0..n /\ Childless(enclosing, n, r)
      BY <1>3
    <3>3. st[r] \in Entered
      BY <3>1, <3>2, <2>2, <1>6 DEF Visits
    <3> QED BY <3>2, <3>3, <1>6 DEF Visits
  <2>3. \A j, k \in DOMAIN v : j < k => v[j] < v[k]
    BY <1>6 DEF Visits
  <2> QED BY <2>1, <2>2, <2>3, <1>3
<1>7. CASE at[t] \in {<<"reach", 0>>, <<"try", 0>>} /\ v = <<>>
  <2>1. run = {} /\ DOMAIN v = {}
    BY <1>7
  <2>2. ~Ended(t)
    BY <1>7 DEF Ended
  <2> QED BY <2>1, <2>2
<1>8. CASE at[t] = <<"end", 0>> /\ Visits(enclosing, n, st, v) /\ AllVisited(enclosing, n, v)
  <2>1. Leaves \subseteq run
    BY <1>3, <1>8 DEF AllVisited
  <2>2. run \subseteq Leaves
    BY <1>6, <1>8
  <2> QED BY <2>1, <2>2, <1>6, <1>8
<1>9. ASSUME NEW c \in 0..n, NEW x \in Nat,
             \/ Arrives(enclosing, n, at[t], c, x)
             \/ Tried(enclosing, n, sectionVar[t], at[t], c, x),
             InPassAt(enclosing, n, sectionVar[t], Scratch[t], v, c, x)
      PROVE  ~Ended(t) /\ Visits(enclosing, n, st, v)
  <2>1. ~Ended(t)
    BY <1>9 DEF Arrives, Tried, Ended
  <2>2. Visits(enclosing, n, st, v)
    BY <1>9 DEF InPassAt, InPass
  <2> QED BY <2>1, <2>2
<1>10. CASE ~Ended(t) /\ Visits(enclosing, n, st, v)
  BY <1>6, <1>10
<1>11. \/ at[t] \in {<<"reach", 0>>, <<"try", 0>>} /\ v = <<>>
       \/ at[t] = <<"end", 0>> /\ Visits(enclosing, n, st, v) /\ AllVisited(enclosing, n, v)
       \/ ~Ended(t) /\ Visits(enclosing, n, st, v)
  BY <1>5, <1>9 DEF ThreadInv
<1> QED BY <1>7, <1>8, <1>10, <1>11

\* A test of any shape, however its threads interleave: every thread runs the body of
\* every leaf once, in the order of the source, and ends when all have been run.
THEOREM LeavesAlwaysInOrder == DispatchSpec => []LeavesInOrder
<1>1. DispatchInit => SectionsInv
  BY SectionsInvInitially DEF DispatchInit
<1>2. SectionsInv /\ [DispatchNext]_dispatchVars => SectionsInv'
  <2>1. [DispatchNext]_dispatchVars => [Next]_vars
    BY DEF DispatchNext, ThreadStep, Runs, Success, AddAssert, AddError, Next,
           ProcessTestDataBuffer, PrintEntry, PrintNext, dispatchVars
  <2> QED BY <2>1, SectionsInvInductive
<1>3. SectionsInv => LeavesInOrder
  BY SectionsInvImplies
<1> QED BY <1>1, <1>2, <1>3, PTL DEF DispatchSpec

-----------------------------------------------------------------------------
(* All threads give a section the same number.                               *)

\* Of two sections one is prior to the other.
LEMMA OnePrior ==
  ASSUME NEW e, NEW n, Outline(e, n), NEW s \in 1..n, NEW r \in 1..n, s # r
  PROVE  Prior(e, n, s, r) \/ Prior(e, n, r, s)
<1>1. Turn(e, n, s) \in 0..n /\ Turn(e, n, r) \in 0..n
  BY TurnIs
<1> DEFINE a == Turn(e, n, s)
           b == Turn(e, n, r)
<1>2. a \in Int /\ b \in Int
  BY <1>1
<1> HIDE DEF a, b
<1>3. a < b \/ b < a \/ (a = b /\ (s < r \/ r < s))
  BY <1>2
<1> QED BY <1>3 DEF Prior, a, b

\* A section is prior to those in it.
LEMMA AroundPrior ==
  ASSUME NEW e, NEW n, Outline(e, n), NEW s \in 1..n, e[s] \in 1..n
  PROVE  Prior(e, n, e[s], s)
<1>n. n \in Nat /\ e[s] < s /\ e[e[s]] < e[s] /\ e[e[s]] \in 0..n /\ e[s] \in 0..n
  BY DEF Outline
<1>1. /\ Turn(e, n, s) \in 0..n /\ e[s] <= Turn(e, n, s) /\ Childless(e, n, Turn(e, n, s))
      /\ Turn(e, n, e[s]) \in 0..n
      /\ \A r \in 0..n : Childless(e, n, r) /\ e[e[s]] <= r => Turn(e, n, e[s]) <= r
  BY TurnIs
<1>2. Turn(e, n, e[s]) <= Turn(e, n, s)
  <2>1. e[e[s]] <= Turn(e, n, s)
    BY <1>n, <1>1
  <2> QED BY <2>1, <1>1
<1> DEFINE a == Turn(e, n, e[s])
           b == Turn(e, n, s)
<1>3. a \in Int /\ b \in Int /\ a <= b
  BY <1>1, <1>2
<1> HIDE DEF a, b
<1>4. a < b \/ a = b
  BY <1>3
<1> QED BY <1>4, <1>n DEF Prior, a, b

\* The section around one that has a number has a smaller one.
LEMMA AroundNumbered ==
  ASSUME NEW e, NEW n, NEW sv, NEW sc, Outline(e, n), Numbers(e, n, sv, sc),
         NEW s \in 1..n, sv[s] # None
  PROVE  sv[e[s]] # None /\ sv[e[s]] < sv[s]
<1>1. Filled(e, n, sv, sc.NextSectionID)
  BY DEF Numbers
<1>2. s \in 0..n /\ e[s] \in 0..n /\ n \in Nat
  BY DEF Outline
<1>3. s \in Sources /\ 0 \in Sources
  BY <1>2, SourcesAreNat DEF Numbers
<1>4. CASE e[s] = 0
  <2>1. sv[0] = 0
    BY <1>1 DEF Filled
  <2>2. sv[s] \in Nat
    BY <1>3 DEF Numbers
  <2>3. sv[s] # 0
    <3>1. sv[s] = sv[0] => s = 0
      BY <1>3 DEF Numbers
    <3> QED BY <3>1, <2>1, <1>2
  <2> QED BY <2>1, <2>2, <2>3, <1>4, SourcesAreNat
<1>5. CASE e[s] \in 1..n
  BY <1>1, <1>5, AroundPrior DEF Filled
<1> QED BY <1>2, <1>4, <1>5

\* A smaller number of a section prior to r is another's for the other thread.
LEMMA AgreeStep ==
  ASSUME NEW e, NEW n, NEW sv, NEW sc, NEW sw, NEW sd, Outline(e, n),
         Numbers(e, n, sv, sc), Numbers(e, n, sw, sd),
         NEW s \in 1..n, NEW r \in 1..n, Prior(e, n, s, r), sw[r] # None, sv[s] = sw[r]
  PROVE  \E j \in Nat, q \in 0..n : j < sv[s] /\ sw[s] = j /\ sv[q] = j /\ q # s
<1>1. Filled(e, n, sv, sc.NextSectionID) /\ Filled(e, n, sw, sd.NextSectionID)
  BY DEF Numbers
<1>2. sw[s] # None /\ sw[s] < sw[r]
  BY <1>1 DEF Filled
<1>3. s \in 0..n /\ s \in Sources /\ r \in Sources
  <2>1. s \in 0..n /\ r \in 0..n
    BY DEF Outline
  <2> QED BY <2>1, SourcesAreNat DEF Numbers
<1>4. sw[s] \in Nat /\ sv[s] \in Nat /\ sv[s] < sc.NextSectionID /\ sc.NextSectionID \in Nat
  BY <1>2, <1>3 DEF Numbers, Scratches
<1>5. sw[s] \in 0..sc.NextSectionID - 1
  BY <1>2, <1>4
<1>6. PICK q \in 0..n : sv[q] = sw[s]
  BY <1>1, <1>5 DEF Filled
<1>7. q # s
  BY <1>2, <1>4, <1>6
<1> QED BY <1>2, <1>4, <1>6, <1>7

\* Two sections have the same number for two threads only if they are one.
LEMMA ThreadsAgree ==
  ASSUME NEW e, NEW n, NEW sv, NEW sc, NEW sw, NEW sd, Outline(e, n),
         Numbers(e, n, sv, sc), Numbers(e, n, sw, sd),
         NEW s \in 0..n, NEW r \in 0..n, sv[s] # None, sv[s] = sw[r]
  PROVE  s = r
<1>n. n \in Nat /\ n \in Sources /\ \A q \in 0..n : q \in Sources
  BY SourcesAreNat DEF Outline, Numbers
<1> DEFINE Bad == {id \in Nat : \E p, q \in 0..n : p # q /\ sv[p] = id /\ sw[q] = id}
<1>1. SUFFICES ASSUME s # r PROVE FALSE
  OBVIOUS
<1>2. sv[s] \in Bad
  BY <1>n, <1>1 DEF Numbers
<1>3. PICK id \in Bad : \A j \in Bad : id <= j
  <2>1. Bad \subseteq Nat /\ Bad # {}
    BY <1>2
  <2> HIDE DEF Bad
  <2> QED BY <2>1, LeastNumber
<1>4. PICK p \in 0..n, q \in 0..n : p # q /\ sv[p] = id /\ sw[q] = id
  BY <1>3
<1>5. id \in Nat /\ id # None
  BY <1>3, SourcesAreNat
<1>6. /\ Filled(e, n, sv, sc.NextSectionID) /\ Filled(e, n, sw, sd.NextSectionID)
      /\ \A k \in 0..n : sv[k] = sv[0] /\ sv[k] # None => k = 0
      /\ \A k \in 0..n : sw[k] = sw[0] /\ sw[k] # None => k = 0
  BY <1>n, SourcesAreNat DEF Numbers
<1>7. p # 0
  <2>1. SUFFICES ASSUME p = 0 PROVE FALSE
    OBVIOUS
  <2>2. id = 0 /\ q \in 1..n
    BY <2>1, <1>4, <1>5, <1>6, <1>n DEF Filled
  <2>3. sw[0] = 0
    BY <2>2, <1>4, <1>5, <1>6 DEF Filled
  <2> QED BY <2>2, <2>3, <1>4, <1>5, <1>6
<1>8. q # 0
  <2>1. SUFFICES ASSUME q = 0 PROVE FALSE
    OBVIOUS
  <2>2. id = 0 /\ p \in 1..n
    BY <2>1, <1>4, <1>5, <1>6, <1>n DEF Filled
  <2>3. sv[0] = 0
    BY <2>2, <1>4, <1>5, <1>6 DEF Filled
  <2> QED BY <2>2, <2>3, <1>4, <1>5, <1>6
<1>9. p \in 1..n /\ q \in 1..n
  BY <1>7, <1>8, <1>n
<1>10. CASE Prior(e, n, p, q)
  <2>1. PICK j \in Nat, k \in 0..n : j < id /\ sw[p] = j /\ sv[k] = j /\ k # p
    BY <1>4, <1>5, <1>9, <1>10, AgreeStep
  <2>2. j \in Bad
    BY <2>1
  <2> QED BY <2>1, <2>2, <1>3, <1>5
<1>11. CASE Prior(e, n, q, p)
  <2>1. PICK j \in Nat, k \in 0..n : j < id /\ sv[q] = j /\ sw[k] = j /\ k # q
    BY <1>4, <1>5, <1>9, <1>11, AgreeStep
  <2>2. j \in Bad
    BY <2>1
  <2> QED BY <2>1, <2>2, <1>3, <1>5
<1> QED BY <1>4, <1>9, <1>10, <1>11, OnePrior

-----------------------------------------------------------------------------
(* What the steps of the threads do to the state of the tables.              *)

\* The scratch data after a step of section id in section c: of other sections no state
\* changes, and no number does.
Touches(sc, sd, id, c) ==
  /\ sd.NextSectionID = sc.NextSectionID /\ sd.NextStringID = sc.NextStringID
  /\ \A i \in Sources : i # id => sd.ParentID[i] = sc.ParentID[i]
  /\ \A i \in Sources : i # id /\ i # c => sd.RunState[i] = sc.RunState[i]

LEMMA MeetingTouches ==
  ASSUME NEW t \in Thread, NEW id \in Sources, Scratch[t] \in Scratches, NEW c
  PROVE  Touches(Scratch[t], Met(t, id), id, c) /\ Met(t, id) \in Scratches
<1> DEFINE sc == Scratch[t]
<1>1. CASE sc.RunState[id] = "NeverEntered"
  <2>1. Met(t, id) = [sc EXCEPT !.ParentID[id] = sc.CurrentSectionID, !.RunState[id] = "NeedsRun"]
    BY <1>1 DEF Met
  <2>p. sc \in Scratches
    OBVIOUS
  <2> HIDE DEF sc
  <2>2. /\ Met(t, id).NextSectionID = sc.NextSectionID
        /\ Met(t, id).NextStringID = sc.NextStringID
        /\ Met(t, id).ParentID = [sc.ParentID EXCEPT ![id] = sc.CurrentSectionID]
        /\ Met(t, id).RunState = [sc.RunState EXCEPT ![id] = "NeedsRun"]
    BY <2>1, <2>p DEF Scratches
  <2>3. /\ \A i \in Sources : i # id => Met(t, id).ParentID[i] = sc.ParentID[i]
        /\ \A i \in Sources : i # id => Met(t, id).RunState[i] = sc.RunState[i]
    BY <2>2, <2>p DEF Scratches
  <2>4. Met(t, id) \in Scratches
    <3>1. PICK sv : sv = [s \in {0} |-> id]
      OBVIOUS
    <3>2. sv[0] = id
      BY <3>1
    <3> QED BY <3>2, MetFacts
  <2> QED BY <2>2, <2>3, <2>4 DEF Touches, sc
<1>2. CASE sc.RunState[id] # "NeverEntered"
  <2>1. Met(t, id) = sc
    BY <1>2 DEF Met
  <2> QED BY <2>1 DEF Touches
<1> QED BY <1>1, <1>2

LEMMA EnteringTouches ==
  ASSUME NEW m \in Scratches, NEW id
  PROVE  Touches(m, EnteredAt(m, id), id, m.CurrentSectionID)
<1> DEFINE sd == EnteredAt(m, id)
<1>1. /\ sd.NextSectionID = m.NextSectionID /\ sd.NextStringID = m.NextStringID
      /\ sd.ParentID = m.ParentID
      /\ sd.RunState = [[m.RunState EXCEPT ![m.CurrentSectionID] = "RunningEnteredSubsection"]
                                    EXCEPT ![id] = "Running"]
  BY DEF Scratches, EnteredAt
<1> HIDE DEF sd
<1>2. \A i \in Sources : i # id /\ i # m.CurrentSectionID => sd.RunState[i] = m.RunState[i]
  BY <1>1 DEF Scratches
<1> QED BY <1>1, <1>2 DEF Touches, sd

LEMMA PuttingOffTouches ==
  ASSUME NEW m \in Scratches, NEW id,
         NEW sd, sd = [m EXCEPT !.RunState[m.CurrentSectionID] = "RunningNeedsRerun"]
  PROVE  Touches(m, sd, id, m.CurrentSectionID)
<1>1. /\ sd.NextSectionID = m.NextSectionID /\ sd.NextStringID = m.NextStringID
      /\ sd.ParentID = m.ParentID
      /\ sd.RunState = [m.RunState EXCEPT ![m.CurrentSectionID] = "RunningNeedsRerun"]
  BY DEF Scratches
<1>2. \A i \in Sources : i # id /\ i # m.CurrentSectionID => sd.RunState[i] = m.RunState[i]
  BY <1>1 DEF Scratches
<1> QED BY <1>1, <1>2 DEF Touches

LEMMA LeavingTouches ==
  ASSUME NEW m \in Scratches, NEW id \in Sources
  PROVE  Touches(m, Left(m, id), id, m.ParentID[id])
<1> DEFINE sd == Left(m, id)
           parent == m.ParentID[id]
<1>1. CASE m.RunState[id] = "RunningNeedsRerun"
  <2>1. /\ sd.NextSectionID = m.NextSectionID /\ sd.NextStringID = m.NextStringID
        /\ sd.ParentID = m.ParentID
        /\ sd.RunState = [[m.RunState EXCEPT ![id] = "NeedsRun"]
                                      EXCEPT ![parent] = "RunningNeedsRerun"]
    BY <1>1 DEF Left, Scratches
  <2> HIDE DEF sd, parent
  <2>2. \A i \in Sources : i # id /\ i # parent => sd.RunState[i] = m.RunState[i]
    BY <2>1 DEF Scratches
  <2> QED BY <2>1, <2>2 DEF Touches, sd, parent
<1>2. CASE m.RunState[id] # "RunningNeedsRerun"
  <2>1. /\ sd.NextSectionID = m.NextSectionID /\ sd.NextStringID = m.NextStringID
        /\ sd.ParentID = m.ParentID
        /\ sd.RunState = [m.RunState EXCEPT ![id] = "Completed"]
    BY <1>2 DEF Left, Scratches
  <2> HIDE DEF sd, parent
  <2>2. \A i \in Sources : i # id /\ i # parent => sd.RunState[i] = m.RunState[i]
    BY <2>1 DEF Scratches
  <2> QED BY <2>1, <2>2 DEF Touches, sd, parent
<1> QED BY <1>1, <1>2

LEMMA LoopingTouches ==
  ASSUME NEW sc \in Scratches, NEW c
  PROVE  Touches(sc, Looped(sc), 0, c)
<1> DEFINE sd == Looped(sc)
<1>1. /\ sd.NextSectionID = sc.NextSectionID /\ sd.NextStringID = sc.NextStringID
      /\ sd.ParentID = sc.ParentID
      /\ sd.RunState = [sc.RunState EXCEPT ![0] = "Running"]
  BY DEF Looped, Scratches
<1> HIDE DEF sd
<1>2. \A i \in Sources : i # 0 => sd.RunState[i] = sc.RunState[i]
  BY <1>1 DEF Scratches
<1> QED BY <1>1, <1>2 DEF Touches, sd

LEMMA TouchesTwice ==
  ASSUME NEW sc, NEW m, NEW sd, NEW id, NEW c, Touches(sc, m, id, c), Touches(m, sd, id, c)
  PROVE  Touches(sc, sd, id, c)
BY DEF Touches

\* The row that says of section s which one is around it.
RowOf(t, s) ==
  [ParentId |-> IF s = 0 THEN -1 ELSE sectionVar[t][enclosing[s]], StringId |-> stringVar[t][s]]

\* A thread evaluates the condition of section s: its scratch data becomes sd, it goes to
\* place, and if it never met the section it offers the row for it.
Offers(t, s) ==
  IF Scratch[t].RunState[sectionVar[t][s]] = "NeverEntered"
    THEN AddGlobal(t, "sections", sectionVar[t][s], RowOf(t, s))
    ELSE UNCHANGED <<counted, outstanding>>

Meets(t, s, sd, place) ==
  /\ UNCHANGED <<enclosing, sectionVar, stringVar, Strings, Rows>>
  /\ Scratch' = [Scratch EXCEPT ![t] = sd] /\ at' = [at EXCEPT ![t] = place]
  /\ outstanding[t] = None /\ sectionVar[t][s] \in Sources
  /\ at[t] # <<"reach", 0>> /\ place # <<"reach", 0>>
  /\ Offers(t, s)
  /\ place[1] = "end" => Scratch[t].RunState[sectionVar[t][s]] # "NeverEntered"
  /\ sd.NextSectionID = Scratch[t].NextSectionID /\ sd.NextStringID = Scratch[t].NextStringID
  /\ sd.ParentID[0] = Scratch[t].ParentID[0]
  /\ \A i \in Sources : sd.RunState[i] # "NeverEntered" =>
       i = sectionVar[t][s] \/ Scratch[t].RunState[i] # "NeverEntered"
  /\ Scratch[t].RunState[sectionVar[t][s]] = "NeverEntered" =>
       /\ \A i \in 0..sectionVar[t][s] - 1 : i \in Sources /\ Scratch[t].RunState[i] # "NeverEntered"
       /\ s # 0 => sectionVar[t][enclosing[s]] \in Sources

\* Everything with a smaller number than a section met for the first time was met before.
LEMMA MetBelow ==
  ASSUME NEW n, NEW sv, NEW sc, NEW e, NEW s \in 0..n, Numbers(e, n, sv, sc),
         AllMet(n, sv, sc, s), sv[s] \in Sources, NEW i \in 0..sv[s] - 1
  PROVE  i \in Sources /\ sc.RunState[i] # "NeverEntered"
<1>1. /\ s \in Sources /\ sv[s] \in Nat /\ sv[s] # None /\ sv[s] <= MaxSections
      /\ MaxSections \in Nat
  BY SourcesAreNat, SectionsAssumption DEF Numbers, Sources
<1>2. sv[s] < sc.NextSectionID /\ sc.NextSectionID \in Nat /\ Filled(e, n, sv, sc.NextSectionID)
  BY <1>1 DEF Numbers, Scratches
<1>3. i \in Sources /\ i < sv[s]
  BY <1>1 DEF Sources
<1>4. i \in 0..sc.NextSectionID - 1
  BY <1>1, <1>2
<1>5. PICK r \in 0..n : sv[r] = i
  BY <1>2, <1>4 DEF Filled
<1>6. sv[r] # None /\ r # s
  BY <1>1, <1>3, <1>5, SourcesAreNat
<1>7. StateOf(sv, sc, r) # "NeverEntered"
  BY <1>6 DEF AllMet
<1> QED BY <1>3, <1>5, <1>7 DEF StateOf

LEMMA SectionMeets ==
  ASSUME NEW n, SectionsInvOf(n), NEW t \in Thread, NEW s \in 1..n,
         EnterSection(t, s) \/ PutOff(t, s) \/ SkipCompleted(t, s) \/ LeaveSection(t, s)
  PROVE  \E sd, place : Meets(t, s, sd, place)
<1> DEFINE sv == sectionVar[t]
           sc == Scratch[t]
           v == visited[t]
           e == enclosing
<1>1. PICK id, sd, place, leaves :
        /\ id \in Sources /\ Tries(t, s, id) /\ Goes(t, sd, place, leaves) /\ place \in {Into(s), Past(s)}
        /\ \/ sd = EnteredAt(Met(t, id), id)
           \/ sd = [Met(t, id) EXCEPT !.RunState[Met(t, id).CurrentSectionID] = "RunningNeedsRerun"]
           \/ sd = Met(t, id)
           \/ Met(t, id).RunState[id] \in Running /\ sd = Left(Met(t, id), id)
  BY DEF EnterSection, PutOff, SkipCompleted, LeaveSection, EnteredAt
<1>2. /\ id = sv[s] /\ sc \in Scratches /\ Numbers(e, n, sv, sc) /\ Outline(e, n)
      /\ \/ InPassAt(e, n, sv, sc, v, e[s], s) /\ sc.RunState[id] \notin Running
         \/ InPassAt(e, n, sv, sc, v, s, n + 1) /\ sc.RunState[id] \in Running
  BY <1>1, TriesFacts DEF SectionsInvOf
<1>n. n \in Nat /\ e[s] \in 0..n /\ s \in 0..n /\ s # 0 /\ n \in Sources
  BY <1>2 DEF Outline, Numbers
<1>3. \/ InPassAt(e, n, sv, sc, v, e[s], s)
      \/ InPassAt(e, n, sv, sc, v, s, n + 1) /\ sc.RunState[id] \in Running
  BY <1>2
<1>4. /\ sc.RunState[sc.CurrentSectionID] # "NeverEntered"
      /\ sv[0] = 0
      /\ sc.RunState[id] = "NeverEntered" =>
           InPassAt(e, n, sv, sc, v, e[s], s) /\ sc.CurrentSectionID = sv[e[s]]
           /\ sv[e[s]] \in Sources
  <2> HIDE DEF sv, sc, v, e
  <2>1. CASE InPassAt(e, n, sv, sc, v, e[s], s)
    BY <2>1, CurrentNumbered DEF Running, InPassAt
  <2>2. CASE InPassAt(e, n, sv, sc, v, s, n + 1) /\ sc.RunState[id] \in Running
    BY <2>2, CurrentNumbered DEF Running, InPassAt
  <2> QED BY <2>1, <2>2, <1>3
<1>5. id # 0
  <2>1. s \in Sources /\ 0 \in Sources
    BY <1>n, SourcesAreNat
  <2>2. sv[s] = sv[0] => s = 0
    BY <2>1, <1>1, <1>2, SourcesAreNat DEF Numbers
  <2> QED BY <2>2, <1>2, <1>4, <1>n
<1> DEFINE m == Met(t, id)
<1>6. /\ m \in Scratches /\ m.CurrentSectionID = sc.CurrentSectionID
      /\ \A c : Touches(sc, m, id, c)
  BY <1>1, <1>2, MetFacts, MeetingTouches
<1>7. \E c : Touches(sc, sd, id, c) /\ (c \in Sources => sc.RunState[c] # "NeverEntered")
  <2>1. CASE sd = EnteredAt(m, id)
    <3>1. Touches(m, sd, id, m.CurrentSectionID)
      BY <2>1, <1>6, EnteringTouches
    <3> HIDE DEF m, sc
    <3>2. Touches(sc, sd, id, sc.CurrentSectionID)
      BY <3>1, <1>6, TouchesTwice
    <3> QED BY <3>2, <1>4
  <2>2. CASE sd = [m EXCEPT !.RunState[m.CurrentSectionID] = "RunningNeedsRerun"]
    <3>1. Touches(m, sd, id, m.CurrentSectionID)
      <4> HIDE DEF m
      <4> QED BY <2>2, <1>6, PuttingOffTouches
    <3> HIDE DEF m, sc
    <3>2. Touches(sc, sd, id, sc.CurrentSectionID)
      BY <3>1, <1>6, TouchesTwice
    <3> QED BY <3>2, <1>4
  <2>3. CASE sd = m
    BY <2>3, <1>4, <1>6
  <2>4. CASE m.RunState[id] \in Running /\ sd = Left(m, id)
    <3>1. m = sc /\ sc.RunState[id] \in Running
      <4>1. sc.RunState[id] # "NeverEntered"
        <5>1. SUFFICES ASSUME sc.RunState[id] = "NeverEntered" PROVE FALSE
          OBVIOUS
        <5>2. Met(t, id).RunState[id] = "NeedsRun"
          BY <5>1, <1>1, <1>2, MetFacts
        <5> QED BY <5>2, <2>4 DEF Running
      <4> QED BY <4>1, <2>4 DEF Met
    <3>2. Touches(sc, sd, id, sc.ParentID[id])
      BY <3>1, <2>4, <1>1, <1>2, LeavingTouches
    <3>3. StateOf(sv, sc, s) # "NeverEntered" /\ StateOf(sv, sc, s) = sc.RunState[id]
      BY <3>1, <1>1, <1>2 DEF StateOf, Running
    <3>4. sc.ParentID[id] = sv[e[s]]
      BY <3>3, <1>2 DEF Numbers, Parents
    <3>5. InPassAt(e, n, sv, sc, v, s, n + 1)
      BY <3>1, <1>2
    <3>6. StateOf(sv, sc, e[s]) \in Running
      <4> HIDE DEF sv, sc, v, e
      <4> DEFINE st == StatesOf(n, sv, sc)
      <4>1. Walk(e, n, st, s, n + 1)
        BY <3>5 DEF InPassAt, InPass
      <4> HIDE DEF st
      <4>2. st[e[s]] \in Running
        BY <4>1, Zenon DEF Walk
      <4> QED BY <4>2, <1>n DEF StatesOf, st
    <3>7. sc.RunState[sv[e[s]]] # "NeverEntered"
      BY <3>6 DEF StateOf, Running
    <3> QED BY <3>2, <3>4, <3>7
  <2> QED BY <2>1, <2>2, <2>3, <2>4, <1>1
<1>8. PICK c : Touches(sc, sd, id, c) /\ (c \in Sources => sc.RunState[c] # "NeverEntered")
  BY <1>7
<1>9. /\ sd.NextSectionID = sc.NextSectionID /\ sd.NextStringID = sc.NextStringID
      /\ sd.ParentID[0] = sc.ParentID[0]
      /\ \A i \in Sources : sd.RunState[i] # "NeverEntered" =>
           i = id \/ sc.RunState[i] # "NeverEntered"
  BY <1>5, <1>8, SourcesAreNat DEF Touches
<1>10. Offers(t, s)
  <2>1. OnFirstEnter(t, s, id, sc.CurrentSectionID)
    BY <1>1 DEF Tries
  <2>2. CASE sc.RunState[id] = "NeverEntered"
    BY <2>1, <2>2, <1>2, <1>4, <1>n DEF OnFirstEnter, Offers, RowOf
  <2>3. CASE sc.RunState[id] # "NeverEntered"
    BY <2>1, <2>3, <1>2 DEF OnFirstEnter, Offers
  <2> QED BY <2>2, <2>3
<1>11. sc.RunState[id] = "NeverEntered" =>
         /\ \A i \in 0..id - 1 : i \in Sources /\ sc.RunState[i] # "NeverEntered"
         /\ sv[e[s]] \in Sources
  <2>1. SUFFICES ASSUME sc.RunState[id] = "NeverEntered"
                 PROVE  \A i \in 0..id - 1 : i \in Sources /\ sc.RunState[i] # "NeverEntered"
    BY <1>4
  <2> HIDE DEF sv, sc, v, e
  <2>2. AllMet(n, sv, sc, s)
    BY <2>1, <1>4 DEF InPassAt
  <2> QED BY <2>2, <1>1, <1>2, <1>n, MetBelow
<1>12. /\ at[t] # <<"reach", 0>> /\ outstanding[t] = None
  BY <1>1 DEF Tries, Evaluates
<1>13. place # <<"reach", 0>> /\ place[1] # "end"
  <2>1. PICK x \in Nat, k \in 0..n : Arrives(e, n, place, k, x)
    <3>1. CASE place = Into(s)
      BY <3>1, <1>2, <1>n, IntoArrives
    <3>2. CASE place = Past(s)
      BY <3>2, <1>2, <1>n, PastArrives
    <3> QED BY <3>1, <3>2, <1>1
  <2> QED BY <2>1 DEF Arrives
<1>14. /\ UNCHANGED <<enclosing, sectionVar, stringVar, Strings, Rows>>
       /\ Scratch' = [Scratch EXCEPT ![t] = sd] /\ at' = [at EXCEPT ![t] = place]
  BY <1>1 DEF Goes
<1>15. Meets(t, s, sd, place)
  BY <1>1, <1>2, <1>9, <1>10, <1>11, <1>12, <1>13, <1>14, <1>n DEF Meets
<1> QED BY <1>15

LEMMA ScenarioMeets ==
  ASSUME NEW n, SectionsInvOf(n), NEW t \in Thread, LoopScenario(t)
  PROVE  \E sd, place : Meets(t, 0, sd, place)
<1> DEFINE sv == sectionVar[t]
           sc == Scratch[t]
           v == visited[t]
           e == enclosing
<1>1. PICK sd, place, leaves :
        /\ Goes(t, sd, place, leaves)
        /\ \/ Loops(sc.RunState[0]) /\ sd = Looped(sc) /\ place = Into(0)
           \/ ~Loops(sc.RunState[0]) /\ sd = sc /\ place = <<"end", 0>>
  BY DEF LoopScenario
<1>2. /\ at[t] \in {<<"try", 0>>, <<"again", 0>>} /\ outstanding[t] = None
      /\ OnFirstEnter(t, 0, 0, -1)
  BY DEF LoopScenario, Evaluates
<1>3. /\ ThreadInv(e, n, at[t], sv, sc, v) /\ Outline(e, n) /\ Numbers(e, n, sv, sc)
      /\ sc \in Scratches /\ n \in Nat /\ 0 \in 0..n /\ 0 \in Sources
  BY SourcesAreNat DEF SectionsInvOf, ThreadInv, Numbers, Outline
<1>4. sv[0] = 0
  <2> HIDE DEF sv, sc, v, e
  <2>1. CASE at[t] = <<"try", 0>>
    <3>1. ~\E c \in 0..n, y \in Nat :
            Arrives(e, n, <<"try", 0>>, c, y) \/ Tried(e, n, sv, <<"try", 0>>, c, y)
      BY <1>3 DEF Arrives, Tried
    <3>2. <<"try", 0>> # <<"reach", 0>> /\ <<"try", 0>> # <<"end", 0>>
      OBVIOUS
    <3> QED BY <3>1, <3>2, <1>3, <2>1 DEF ThreadInv
  <2>2. CASE at[t] = <<"again", 0>>
    <3>1. ThreadInv(e, n, <<"again", 0>>, sv, sc, v)
      BY <1>3, <2>2
    <3>2. InPassAt(e, n, sv, sc, v, 0, n + 1)
      BY <3>1, <1>3, AtAgain
    <3> QED BY <3>2 DEF InPassAt
  <2> QED BY <2>1, <2>2, <1>2
<1>5. Touches(sc, sd, 0, 0)
  <2>1. CASE sd = Looped(sc)
    BY <2>1, <1>3, LoopingTouches
  <2>2. CASE sd = sc
    BY <2>2 DEF Touches
  <2> QED BY <2>1, <2>2, <1>1
<1>6. sd.ParentID[0] = sc.ParentID[0]
  <2>1. CASE sd = Looped(sc)
    <3>1. Looped(sc).ParentID = sc.ParentID
      BY <1>3, <1>4, LoopingSets
    <3> QED BY <3>1, <2>1
  <2>2. CASE sd = sc
    BY <2>2
  <2> QED BY <2>1, <2>2, <1>1
<1>7. place # <<"reach", 0>> /\ (place[1] = "end" => sc.RunState[0] # "NeverEntered")
  <2>1. CASE place = Into(0)
    <3>1. PICK x \in Nat : Arrives(e, n, place, 0, x)
      BY <2>1, <1>3, IntoArrives
    <3> QED BY <3>1 DEF Arrives
  <2>2. CASE ~Loops(sc.RunState[0]) /\ place = <<"end", 0>>
    BY <2>2 DEF Loops
  <2> QED BY <2>1, <2>2, <1>1
<1>8. Offers(t, 0)
  <2>1. CASE sc.RunState[0] = "NeverEntered"
    BY <2>1, <1>2, <1>4 DEF OnFirstEnter, Offers, RowOf
  <2>2. CASE sc.RunState[0] # "NeverEntered"
    BY <2>2, <1>2, <1>4 DEF OnFirstEnter, Offers
  <2> QED BY <2>1, <2>2
<1>9. /\ sd.NextSectionID = sc.NextSectionID /\ sd.NextStringID = sc.NextStringID
      /\ \A i \in Sources : sd.RunState[i] # "NeverEntered" =>
           i = 0 \/ sc.RunState[i] # "NeverEntered"
  BY <1>5 DEF Touches
<1>10. /\ UNCHANGED <<enclosing, sectionVar, stringVar, Strings, Rows>>
       /\ Scratch' = [Scratch EXCEPT ![t] = sd] /\ at' = [at EXCEPT ![t] = place]
  BY <1>1 DEF Goes
<1>11. at[t] # <<"reach", 0>> /\ \A i \in 0..0 - 1 : FALSE
  BY <1>2
<1>12. Meets(t, 0, sd, place)
  BY <1>2, <1>3, <1>4, <1>6, <1>7, <1>8, <1>9, <1>10, <1>11 DEF Meets
<1> QED BY <1>12

\* The strings and the sections of a thread have the same numbers.
NumbersAlike(t) ==
  stringVar[t] = sectionVar[t] /\ Scratch[t].NextStringID = Scratch[t].NextSectionID

\* The scenario has no parent, from the time it was started.
ScenarioNoted(t) == Scratch[t].ParentID[0] = IF at[t] = <<"reach", 0>> THEN 0 ELSE -1

\* A thread at the macro of section s: sd is its scratch data then.
Takes(t, s, sd) ==
  /\ UNCHANGED <<enclosing, Strings, Rows>>
  /\ outstanding[t] = None
  /\ at' = [at EXCEPT ![t] = <<"try", s>>]
  /\ StringId(t, s) \in Nat
  /\ sectionVar' = [sectionVar EXCEPT ![t][s] = StringId(t, s)]
  /\ stringVar' = [stringVar EXCEPT ![t][s] = StringId(t, s)]
  /\ AddGlobal(t, "strings", StringId(t, s), s)
  /\ Scratch' = [Scratch EXCEPT ![t] = sd]
  /\ sd.NextStringID = sd.NextSectionID /\ sd.RunState = Scratch[t].RunState
  /\ sd.ParentID[0] = -1
  /\ IF sectionVar[t][s] = None
       THEN StringId(t, s) = Scratch[t].NextStringID /\ sd.NextStringID = StringId(t, s) + 1
       ELSE /\ StringId(t, s) = sectionVar[t][s] /\ StringId(t, s) < Scratch[t].NextStringID
            /\ sd.NextStringID = Scratch[t].NextStringID

LEMMA SectionTakes ==
  ASSUME NEW n, SectionsInvOf(n), NEW t \in Thread, NumbersAlike(t), ScenarioNoted(t),
         NEW s \in 1..n, Section(t, s)
  PROVE  \E sd : Takes(t, s, sd)
<1> DEFINE sv == sectionVar[t]
           sc == Scratch[t]
<1>1. /\ Numbers(enclosing, n, sv, sc) /\ s \in Sources /\ at[t] = <<"reach", s>>
      /\ outstanding[t] = None /\ s # 0
  <2>1. Outline(enclosing, n) /\ Numbers(enclosing, n, sv, sc) /\ n \in Sources
    BY DEF SectionsInvOf, ThreadInv
  <2>2. s \in 0..n /\ s # 0
    BY <2>1 DEF Outline
  <2> QED BY <2>1, <2>2, SourcesAreNat DEF Section, AtMacro
<1>2. /\ sc \in Scratches /\ sv \in [Sources -> Nat \cup {None}]
      /\ sv[s] # None => sv[s] < sc.NextSectionID
  BY <1>1 DEF Numbers
<1>3. /\ stringVar[t] = sv /\ sc.NextStringID = sc.NextSectionID /\ sc.NextStringID \in Nat
  BY <1>2 DEF NumbersAlike, Scratches
<1>4. /\ SectionId(t, s) = StringId(t, s) /\ StringId(t, s) \in Nat
      /\ sv[s] = None => StringId(t, s) = sc.NextStringID
      /\ sv[s] # None => StringId(t, s) = sv[s]
  BY <1>1, <1>2, <1>3 DEF SectionId, StringId
<1>5. PICK k \in Nat : k = IF sv[s] = None THEN sc.NextStringID + 1 ELSE sc.NextStringID
  BY <1>3
<1> DEFINE sd == [sc EXCEPT !.NextSectionID = k, !.NextStringID = k]
<1>6. Scratch' = [Scratch EXCEPT ![t] = sd]
  <2>1. Scratch' = [Scratch EXCEPT
          ![t].NextSectionID = IF sectionVar[t][s] = None THEN @ + 1 ELSE @,
          ![t].NextStringID = IF stringVar[t][s] = None THEN @ + 1 ELSE @]
    BY DEF Section
  <2>2. Mapped(Scratch)
    BY DEF SectionsInvOf
  <2>3. Scratch'[t] = sd /\ \A u \in Thread : u # t => Scratch'[u] = Scratch[u]
    <3>1. Scratch'[t] = [[sc EXCEPT !.NextSectionID = IF sv[s] = None THEN @ + 1 ELSE @]
                           EXCEPT !.NextStringID = IF sv[s] = None THEN @ + 1 ELSE @]
      BY <2>1, <2>2, <1>3 DEF Mapped
    <3>2. Scratch'[t] = sd
      BY <3>1, <1>2, <1>3, <1>5 DEF Scratches
    <3>3. \A u \in Thread : u # t => Scratch'[u] = Scratch[u]
      BY <2>1, <2>2 DEF Mapped
    <3> QED BY <3>2, <3>3
  <2>4. Mapped(Scratch')
    BY <2>1, <2>2 DEF Mapped
  <2> HIDE DEF sd
  <2> QED BY <2>2, <2>3, <2>4 DEF Mapped
<1>7. /\ sd.NextSectionID = k /\ sd.NextStringID = k
      /\ sd.RunState = sc.RunState /\ sd.ParentID = sc.ParentID
  BY <1>2 DEF Scratches
<1>8. sc.ParentID[0] = -1
  BY <1>1 DEF ScenarioNoted
<1> HIDE DEF sd
<1>9. /\ UNCHANGED <<enclosing, Strings, Rows>>
      /\ at' = [at EXCEPT ![t] = <<"try", s>>]
      /\ sectionVar' = [sectionVar EXCEPT ![t][s] = StringId(t, s)]
      /\ stringVar' = [stringVar EXCEPT ![t][s] = StringId(t, s)]
      /\ AddGlobal(t, "strings", StringId(t, s), s)
  BY <1>4 DEF Section
<1>10. IF sv[s] = None
         THEN StringId(t, s) = sc.NextStringID /\ sd.NextStringID = StringId(t, s) + 1
         ELSE /\ StringId(t, s) = sv[s] /\ StringId(t, s) < sc.NextStringID
              /\ sd.NextStringID = sc.NextStringID
  BY <1>2, <1>3, <1>4, <1>5, <1>7
<1>11. Takes(t, s, sd)
  BY <1>1, <1>4, <1>6, <1>7, <1>8, <1>9, <1>10 DEF Takes
<1> QED BY <1>11

LEMMA ScenarioTakes ==
  ASSUME NEW n, SectionsInvOf(n), NEW t \in Thread, NumbersAlike(t), Scenario(t)
  PROVE  \E sd : Takes(t, 0, sd)
<1> DEFINE sv == sectionVar[t]
           sc == Scratch[t]
           e == enclosing
<1>1. /\ Outline(e, n) /\ ThreadInv(e, n, <<"reach", 0>>, sv, sc, visited[t])
      /\ n \in Nat /\ 0 \in Sources /\ outstanding[t] = None
  BY SourcesAreNat DEF SectionsInvOf, Scenario, AtMacro, Outline
<1>2. Numbers(e, n, sv, sc) /\ sc.NextSectionID = 0
  <2>1. ~\E c \in 0..n, x \in Nat : Arrives(e, n, <<"reach", 0>>, c, x) \/ Tried(e, n, sv, <<"reach", 0>>, c, x)
    BY <1>1 DEF Arrives, Tried
  <2>2. <<"reach", 0>> # <<"try", 0>> /\ <<"reach", 0>> # <<"end", 0>>
    OBVIOUS
  <2> QED BY <2>1, <2>2, <1>1 DEF ThreadInv
<1>3. sc \in Scratches /\ sv[0] = None
  <2>1. sv \in [Sources -> Nat \cup {None}] /\ \A s \in Sources : sv[s] # None => sv[s] < 0
    BY <1>2 DEF Numbers
  <2> QED BY <2>1, <1>1, <1>2 DEF Numbers
<1>4. StringId(t, 0) = 0 /\ sc.NextStringID = 0
  BY <1>2, <1>3 DEF NumbersAlike, StringId
<1>5. PICK one \in Nat : one = 1
  OBVIOUS
<1> DEFINE parents == [sc.ParentID EXCEPT ![0] = -1]
           sd == [sc EXCEPT !.NextStringID = one, !.NextSectionID = one, !.ParentID = parents]
<1>6. Scratch' = [Scratch EXCEPT ![t] = sd]
  <2>1. Scratch' = [Scratch EXCEPT ![t].NextStringID = StringId(t, 0) + 1,
                                   ![t].NextSectionID = 1, ![t].ParentID[0] = -1]
    BY DEF Scenario
  <2>2. Mapped(Scratch)
    BY DEF SectionsInvOf
  <2>3. Scratch'[t] = sd /\ \A u \in Thread : u # t => Scratch'[u] = Scratch[u]
    <3>1. Scratch'[t] = [[[sc EXCEPT !.NextStringID = StringId(t, 0) + 1] EXCEPT !.NextSectionID = 1]
                EXCEPT !.ParentID[0] = -1]
      BY <2>1, <2>2 DEF Mapped
    <3>a. StringId(t, 0) + 1 = one /\ 1 = one
      BY <1>4, <1>5
    <3>b. Scratch'[t] = [[[sc EXCEPT !.NextStringID = one] EXCEPT !.NextSectionID = one]
                           EXCEPT !.ParentID[0] = -1]
      BY <3>1, <3>a
    <3>2. Scratch'[t] = sd
      BY <3>b, <1>3, <1>5 DEF Scratches
    <3>3. \A u \in Thread : u # t => Scratch'[u] = Scratch[u]
      BY <2>1, <2>2 DEF Mapped
    <3> QED BY <3>2, <3>3
  <2>4. Mapped(Scratch')
    BY <2>1, <2>2 DEF Mapped
  <2> HIDE DEF sd
  <2> QED BY <2>2, <2>3, <2>4 DEF Mapped
<1>7. /\ sd.NextSectionID = one /\ sd.NextStringID = one
      /\ sd.RunState = sc.RunState /\ sd.ParentID = parents
  BY <1>3 DEF Scratches
<1>8. parents[0] = -1
  BY <1>1, <1>3 DEF Scratches
<1> HIDE DEF sd
<1>9. /\ UNCHANGED <<enclosing, Strings, Rows>>
      /\ at' = [at EXCEPT ![t] = <<"try", 0>>]
      /\ sectionVar' = [sectionVar EXCEPT ![t][0] = StringId(t, 0)]
      /\ stringVar' = [stringVar EXCEPT ![t][0] = StringId(t, 0)]
      /\ AddGlobal(t, "strings", StringId(t, 0), 0)
  BY <1>4 DEF Scenario
<1>10. Takes(t, 0, sd)
  BY <1>1, <1>3, <1>4, <1>5, <1>6, <1>7, <1>8, <1>9 DEF Takes
<1> QED BY <1>10

-----------------------------------------------------------------------------
(* What was counted covers what the threads have met.                        *)

Tables == {"strings", "sections", "data"}

CountedTypes ==
  /\ counted \in [Tables -> Nat]
  /\ counted["sections"] <= MaxSections + 1
  /\ Mapped(outstanding)

\* All strings of a thread and the sections it has met were counted. At its end it has
\* written its rows.
ThreadCounted(t) ==
  /\ NumbersAlike(t) /\ ScenarioNoted(t)
  /\ Scratch[t].NextStringID <= counted["strings"]
  /\ \A i \in Sources : Scratch[t].RunState[i] # "NeverEntered" => i < counted["sections"]
  /\ at[t][1] = "end" => outstanding[t] = None

CountedInv(n) ==
  SectionsInvOf(n) /\ CountedTypes /\ \A t \in Thread : ThreadCounted(t)

\* Nothing that was counted is forgotten.
Counts == \A c \in Tables : counted[c] <= counted'[c]

LEMMA GlobalAdded ==
  ASSUME CountedTypes, NEW t \in Thread, NEW table \in {"strings", "sections"},
         NEW id \in Nat, table = "sections" => id <= MaxSections, NEW row,
         AddGlobal(t, table, id, row)
  PROVE  /\ CountedTypes' /\ Counts
         /\ counted'[table] = IF counted[table] = id THEN id + 1 ELSE counted[table]
         /\ \A c \in Tables : c # table => counted'[c] = counted[c]
         /\ outstanding'[t] = IF counted[table] = id /\ id < NumRows
                                THEN [table |-> table, id |-> id, row |-> row] ELSE None
         /\ \A u \in Thread : u # t => outstanding'[u] = outstanding[u]
<1>1. /\ counted' = [counted EXCEPT ![table] = IF counted[table] = id THEN id + 1 ELSE @]
      /\ outstanding' = [outstanding EXCEPT ![t] =
           IF counted[table] = id /\ id < NumRows
             THEN [table |-> table, id |-> id, row |-> row] ELSE None]
  BY DEF AddGlobal, First
<1>2. counted \in [Tables -> Nat] /\ Mapped(outstanding) /\ table \in Tables
  BY DEF CountedTypes, Tables
<1>3. counted'[table] = IF counted[table] = id THEN id + 1 ELSE counted[table]
  BY <1>1, <1>2
<1>4. \A c \in Tables : c # table => counted'[c] = counted[c]
  BY <1>1, <1>2
<1>5. counted' \in [Tables -> Nat]
  BY <1>1, <1>2
<1>6. Counts
  <2>1. counted[table] <= counted'[table]
    BY <1>2, <1>3
  <2>2. \A c \in Tables : counted[c] <= counted[c]
    BY <1>2
  <2> QED BY <2>1, <2>2, <1>4 DEF Counts
<1>7. counted'["sections"] <= MaxSections + 1
  <2>1. CASE table = "sections"
    <3>1. MaxSections \in Nat /\ id + 1 <= MaxSections + 1
      BY <2>1, SectionsAssumption
    <3> QED BY <3>1, <2>1, <1>3 DEF CountedTypes
  <2>2. CASE table # "sections"
    BY <2>2, <1>4 DEF CountedTypes, Tables
  <2> QED BY <2>1, <2>2
<1>8. /\ Mapped(outstanding)'
      /\ outstanding'[t] = IF counted[table] = id /\ id < NumRows
                             THEN [table |-> table, id |-> id, row |-> row] ELSE None
      /\ \A u \in Thread : u # t => outstanding'[u] = outstanding[u]
  <2> DEFINE what == IF counted[table] = id /\ id < NumRows
                       THEN [table |-> table, id |-> id, row |-> row] ELSE None
  <2>1. outstanding' = [outstanding EXCEPT ![t] = what]
    BY <1>1
  <2> HIDE DEF what
  <2>2. /\ Mapped(outstanding)' /\ outstanding'[t] = what
        /\ \A u \in Thread : u # t => outstanding'[u] = outstanding[u]
    BY <2>1, <1>2 DEF Mapped
  <2> QED BY <2>2 DEF what
<1> QED BY <1>3, <1>4, <1>5, <1>6, <1>7, <1>8 DEF CountedTypes

\* What holds of a thread holds on if other threads count.
LEMMA OthersCount ==
  ASSUME NEW u \in Thread, ThreadCounted(u), CountedTypes, CountedTypes', Counts,
         Scratch[u] \in Scratches,
         stringVar'[u] = stringVar[u], sectionVar'[u] = sectionVar[u],
         Scratch'[u] = Scratch[u], at'[u] = at[u], outstanding'[u] = outstanding[u]
  PROVE  ThreadCounted(u)'
<1>1. NumbersAlike(u)' /\ ScenarioNoted(u)'
  BY DEF ThreadCounted, NumbersAlike, ScenarioNoted
<1>2. /\ counted["strings"] <= counted'["strings"] /\ counted["sections"] <= counted'["sections"]
      /\ counted["strings"] \in Nat /\ counted'["strings"] \in Nat
      /\ counted["sections"] \in Nat /\ counted'["sections"] \in Nat
  BY DEF Counts, CountedTypes, Tables
<1>3. Scratch'[u].NextStringID <= counted'["strings"]
  BY <1>2 DEF ThreadCounted, Scratches
<1>4. \A i \in Sources : Scratch'[u].RunState[i] # "NeverEntered" => i < counted'["sections"]
  BY <1>2, SourcesAreNat DEF ThreadCounted
<1> QED BY <1>1, <1>3, <1>4 DEF ThreadCounted

LEMMA ThreadTypes ==
  ASSUME NEW n, SectionsInvOf(n), NEW t \in Thread
  PROVE  /\ Scratch[t] \in Scratches /\ sectionVar[t] \in [Sources -> Nat \cup {None}]
         /\ n \in Nat /\ n \in Sources /\ \A s \in 0..n : s \in Sources
         /\ Mapped(stringVar) /\ Mapped(sectionVar) /\ Mapped(Scratch) /\ Mapped(at)
         /\ Numbers(enclosing, n, sectionVar[t], Scratch[t]) /\ Outline(enclosing, n)
<1>1. Numbers(enclosing, n, sectionVar[t], Scratch[t]) /\ n \in Sources
  BY DEF SectionsInvOf, ThreadInv
<1>2. Mapped(stringVar)
  BY DEF SectionsInvOf, Mapped
<1> QED BY <1>1, <1>2, SourcesAreNat DEF SectionsInvOf, Numbers

LEMMA MeetingCounts ==
  ASSUME NEW n, CountedInv(n), NEW t \in Thread, NEW s \in 0..n,
         NEW sd, NEW place, Meets(t, s, sd, place)
  PROVE  CountedTypes' /\ Counts /\ \A u \in Thread : ThreadCounted(u)'
<1> DEFINE id == sectionVar[t][s]
<1>1. /\ SectionsInvOf(n) /\ CountedTypes /\ \A u \in Thread : ThreadCounted(u)
      /\ \A u \in Thread : Scratch[u] \in Scratches
  BY ThreadTypes DEF CountedInv
<1>2. /\ sectionVar' = sectionVar /\ stringVar' = stringVar
      /\ Scratch'[t] = sd /\ at'[t] = place
      /\ \A u \in Thread : u # t => Scratch'[u] = Scratch[u] /\ at'[u] = at[u]
  <2>1. /\ sectionVar' = sectionVar /\ stringVar' = stringVar
        /\ Scratch' = [Scratch EXCEPT ![t] = sd] /\ at' = [at EXCEPT ![t] = place]
        /\ Mapped(Scratch) /\ Mapped(at)
    BY <1>1, ThreadTypes DEF Meets
  <2>2. Scratch'[t] = sd /\ \A u \in Thread : u # t => Scratch'[u] = Scratch[u]
    BY <2>1 DEF Mapped
  <2>3. at'[t] = place /\ \A u \in Thread : u # t => at'[u] = at[u]
    BY <2>1 DEF Mapped
  <2> QED BY <2>1, <2>2, <2>3
<1>3. id \in Sources /\ id \in Nat /\ id <= MaxSections
  BY SourcesAreNat, SectionsAssumption DEF Meets, Sources
<1>4. /\ CountedTypes' /\ Counts
      /\ counted'["strings"] = counted["strings"]
      /\ id < counted'["sections"]
      /\ \A u \in Thread : u # t => outstanding'[u] = outstanding[u]
      /\ Scratch[t].RunState[id] # "NeverEntered" => outstanding'[t] = None
  <2>1. CASE Scratch[t].RunState[id] = "NeverEntered"
    <3>1. AddGlobal(t, "sections", id, RowOf(t, s))
      BY <2>1 DEF Meets, Offers
    <3> HIDE DEF id
    <3>2. /\ CountedTypes' /\ Counts
          /\ counted'["sections"] = IF counted["sections"] = id THEN id + 1 ELSE counted["sections"]
          /\ counted'["strings"] = counted["strings"]
          /\ \A u \in Thread : u # t => outstanding'[u] = outstanding[u]
      BY <3>1, <1>1, <1>3, GlobalAdded DEF Tables
    <3>3. counted["sections"] >= id
      <4>1. counted["sections"] \in Nat
        BY <1>1 DEF CountedTypes, Tables
      <4>2. CASE id = 0
        BY <4>1, <4>2
      <4>3. CASE id # 0
        <5>1. id - 1 \in 0..id - 1
          BY <4>3, <1>3
        <5>2. id - 1 \in Sources /\ Scratch[t].RunState[id - 1] # "NeverEntered"
          BY <5>1, <2>1 DEF Meets, id
        <5>3. id - 1 < counted["sections"]
          BY <5>2, <1>1 DEF ThreadCounted
        <5> QED BY <5>3, <4>1, <1>3
      <4> QED BY <4>2, <4>3
    <3>4. counted["sections"] \in Nat
      BY <1>1 DEF CountedTypes, Tables
    <3> QED BY <3>2, <3>3, <3>4, <2>1, <1>3
  <2>2. CASE Scratch[t].RunState[id] # "NeverEntered"
    <3>1. counted' = counted /\ outstanding' = outstanding /\ outstanding[t] = None
      BY <2>2 DEF Meets, Offers
    <3>2. CountedTypes' /\ Counts
      <4>1. \A c \in Tables : counted[c] \in Nat
        BY <1>1 DEF CountedTypes
      <4> QED BY <4>1, <3>1, <1>1 DEF CountedTypes, Mapped, Counts
    <3>3. id < counted["sections"]
      BY <2>2, <1>1, <1>3 DEF ThreadCounted
    <3> QED BY <3>1, <3>2, <3>3
  <2> QED BY <2>1, <2>2
<1>5. ThreadCounted(t)'
  <2>1. ThreadCounted(t)
    BY <1>1
  <2>2. NumbersAlike(t)'
    BY <2>1, <1>2 DEF ThreadCounted, NumbersAlike, Meets
  <2>3. ScenarioNoted(t)'
    BY <2>1, <1>2 DEF ThreadCounted, ScenarioNoted, Meets
  <2>4. Scratch'[t].NextStringID <= counted'["strings"]
    BY <2>1, <1>2, <1>4 DEF ThreadCounted, Meets
  <2>5. ASSUME NEW i \in Sources, Scratch'[t].RunState[i] # "NeverEntered"
        PROVE  i < counted'["sections"]
    <3>1. i = id \/ Scratch[t].RunState[i] # "NeverEntered"
      BY <2>5, <1>2 DEF Meets
    <3>2. CASE Scratch[t].RunState[i] # "NeverEntered"
      <4>1. i < counted["sections"] /\ counted["sections"] <= counted'["sections"]
            /\ counted["sections"] \in Nat /\ counted'["sections"] \in Nat /\ i \in Nat
        BY <3>2, <2>1, <1>1, <1>4, SourcesAreNat DEF ThreadCounted, Counts, CountedTypes, Tables
      <4> QED BY <4>1
    <3> QED BY <3>1, <3>2, <1>4
  <2>6. at'[t][1] = "end" => outstanding'[t] = None
    BY <1>2, <1>4 DEF Meets
  <2> QED BY <2>2, <2>3, <2>4, <2>5, <2>6 DEF ThreadCounted
<1>6. ASSUME NEW u \in Thread PROVE ThreadCounted(u)'
  <2>1. CASE u # t
    BY <2>1, <1>1, <1>2, <1>4, OthersCount
  <2> QED BY <2>1, <1>5
<1> QED BY <1>4, <1>6

LEMMA TakingCounts ==
  ASSUME NEW n, CountedInv(n), NEW t \in Thread, NEW s \in 0..n,
         NEW sd, Takes(t, s, sd)
  PROVE  CountedTypes' /\ Counts /\ \A u \in Thread : ThreadCounted(u)'
<1> DEFINE id == StringId(t, s)
<1>1. /\ SectionsInvOf(n) /\ CountedTypes /\ \A u \in Thread : ThreadCounted(u)
      /\ \A u \in Thread : Scratch[u] \in Scratches
      /\ id \in Nat
  BY ThreadTypes DEF CountedInv, Takes
<1>2. /\ Scratch'[t] = sd /\ at'[t] = <<"try", s>>
      /\ \A u \in Thread : u # t =>
           /\ Scratch'[u] = Scratch[u] /\ at'[u] = at[u]
           /\ sectionVar'[u] = sectionVar[u] /\ stringVar'[u] = stringVar[u]
      /\ sectionVar'[t] = [sectionVar[t] EXCEPT ![s] = id]
      /\ stringVar'[t] = [stringVar[t] EXCEPT ![s] = id]
  <2>1. /\ Scratch' = [Scratch EXCEPT ![t] = sd] /\ at' = [at EXCEPT ![t] = <<"try", s>>]
        /\ sectionVar' = [sectionVar EXCEPT ![t][s] = id]
        /\ stringVar' = [stringVar EXCEPT ![t][s] = id]
        /\ Mapped(Scratch) /\ Mapped(at) /\ Mapped(sectionVar) /\ Mapped(stringVar)
    BY <1>1, ThreadTypes DEF Takes
  <2> HIDE DEF id
  <2>2. /\ sectionVar'[t] = [sectionVar[t] EXCEPT ![s] = id]
        /\ \A u \in Thread : u # t => sectionVar'[u] = sectionVar[u]
    BY <2>1 DEF Mapped
  <2>3. /\ stringVar'[t] = [stringVar[t] EXCEPT ![s] = id]
        /\ \A u \in Thread : u # t => stringVar'[u] = stringVar[u]
    BY <2>1 DEF Mapped
  <2>4. Scratch'[t] = sd /\ \A u \in Thread : u # t => Scratch'[u] = Scratch[u]
    BY <2>1 DEF Mapped
  <2>5. at'[t] = <<"try", s>> /\ \A u \in Thread : u # t => at'[u] = at[u]
    BY <2>1 DEF Mapped
  <2> QED BY <2>2, <2>3, <2>4, <2>5
<1> HIDE DEF id
<1>3. /\ CountedTypes' /\ Counts
      /\ counted'["strings"] = IF counted["strings"] = id THEN id + 1 ELSE counted["strings"]
      /\ counted'["sections"] = counted["sections"]
      /\ \A u \in Thread : u # t => outstanding'[u] = outstanding[u]
  <2>1. AddGlobal(t, "strings", id, s)
    BY DEF Takes, id
  <2>2. "strings" = "sections" => id <= MaxSections
    OBVIOUS
  <2> QED BY <2>1, <2>2, <1>1, GlobalAdded DEF Tables
<1>4. ThreadCounted(t)'
  <2>1. ThreadCounted(t)
    BY <1>1
  <2>2. NumbersAlike(t)'
    BY <2>1, <1>2 DEF ThreadCounted, NumbersAlike, Takes
  <2>3. ScenarioNoted(t)'
    BY <1>2 DEF ScenarioNoted, Takes
  <2>4. Scratch'[t].NextStringID <= counted'["strings"]
    <3>1. Scratch[t].NextStringID <= counted["strings"] /\ counted["strings"] \in Nat
      BY <2>1, <1>1 DEF ThreadCounted, CountedTypes, Tables
    <3>2. CASE sectionVar[t][s] = None
      <4>1. id = Scratch[t].NextStringID /\ sd.NextStringID = id + 1
        BY <3>2 DEF Takes, id
      <4> QED BY <4>1, <3>1, <1>1, <1>2, <1>3
    <3>3. CASE sectionVar[t][s] # None
      <4>1. id < Scratch[t].NextStringID /\ sd.NextStringID = Scratch[t].NextStringID
        BY <3>3 DEF Takes, id
      <4>2. Scratch[t].NextStringID \in Int
        BY <1>1 DEF Scratches
      <4> QED BY <4>1, <4>2, <3>1, <1>1, <1>2, <1>3
    <3> QED BY <3>2, <3>3
  <2>5. \A i \in Sources : Scratch'[t].RunState[i] # "NeverEntered" => i < counted'["sections"]
    BY <2>1, <1>2, <1>3 DEF ThreadCounted, Takes
  <2>6. at'[t][1] # "end"
    BY <1>2
  <2> QED BY <2>2, <2>3, <2>4, <2>5, <2>6 DEF ThreadCounted
<1>5. ASSUME NEW u \in Thread PROVE ThreadCounted(u)'
  <2>1. CASE u # t
    BY <2>1, <1>1, <1>2, <1>3, OthersCount
  <2> QED BY <2>1, <1>4
<1> QED BY <1>3, <1>5

LEMMA StoringCounts ==
  ASSUME NEW n, CountedInv(n), NEW t \in Thread, Store(t)
  PROVE  CountedTypes' /\ Counts /\ \A u \in Thread : ThreadCounted(u)'
<1>1. /\ SectionsInvOf(n) /\ CountedTypes /\ \A u \in Thread : ThreadCounted(u)
      /\ \A u \in Thread : Scratch[u] \in Scratches
  BY ThreadTypes DEF CountedInv
<1>2. /\ outstanding' = [outstanding EXCEPT ![t] = None] /\ Mapped(outstanding)
      /\ UNCHANGED <<enclosing, at, Scratch, sectionVar, stringVar, visited>>
  BY <1>1 DEF Store, CountedTypes
<1>3. /\ outstanding'[t] = None /\ Mapped(outstanding)'
      /\ \A u \in Thread : u # t => outstanding'[u] = outstanding[u]
  BY <1>2 DEF Mapped
<1>4. counted \in [Tables -> Nat] /\ \A c \in Tables : counted[c] \in Nat
  BY <1>1 DEF CountedTypes
<1>5. counted' \in [Tables -> Nat] /\ Counts /\ counted'["sections"] = counted["sections"]
  <2>1. CASE counted' = counted
    BY <2>1, <1>4 DEF Counts
  <2>2. CASE StoreString(t) /\ counted' # counted
    <3>1. counted' = [counted EXCEPT !["data"] = @ + 1]
      BY <2>2, <1>4 DEF StoreString
    <3>2. /\ counted' \in [Tables -> Nat] /\ counted'["data"] = counted["data"] + 1
          /\ \A c \in Tables : c # "data" => counted'[c] = counted[c]
      BY <3>1, <1>4 DEF Tables
    <3> QED BY <3>2, <1>4 DEF Counts, Tables
  <2> QED BY <2>1, <2>2 DEF Store, StoreSection
<1>6. CountedTypes'
  BY <1>1, <1>3, <1>5 DEF CountedTypes
<1>7. ASSUME NEW u \in Thread PROVE ThreadCounted(u)'
  <2>1. CASE u # t
    BY <2>1, <1>1, <1>2, <1>3, <1>5, <1>6, OthersCount
  <2>2. CASE u = t
    <3>1. ThreadCounted(t)
      BY <1>1
    <3>2. counted["strings"] <= counted'["strings"] /\ counted["strings"] \in Nat
          /\ counted'["strings"] \in Nat /\ Scratch[t].NextStringID \in Int
      BY <1>1, <1>5 DEF Counts, Tables, CountedTypes, Scratches
    <3> QED BY <3>1, <3>2, <2>2, <1>2, <1>3, <1>5 DEF ThreadCounted, NumbersAlike, ScenarioNoted
  <2> QED BY <2>1, <2>2
<1> QED BY <1>5, <1>6, <1>7

-----------------------------------------------------------------------------
(* What is in the tables, or about to be.                                    *)

\* A row of the strings names a section some thread has this number for, and a row of
\* the sections says which is around that.
StringRight(n, id, row) == row \in 0..n /\ \E u \in Thread : sectionVar[u][row] = id

SectionRight(n, id, row) ==
  \E u \in Thread, s \in 0..n :
    /\ sectionVar[u][s] = id
    /\ s # 0 => sectionVar[u][enclosing[s]] \in Nat
    /\ row = [ParentId |-> IF s = 0 THEN -1 ELSE sectionVar[u][enclosing[s]], StringId |-> id]

Pending(table, id) ==
  \E t \in Thread : outstanding[t] # None /\ outstanding[t].table = table /\ outstanding[t].id = id

WriteRight(n, w) ==
  /\ w.id \in Nat
  /\ \/ w.table = "strings" /\ StringRight(n, w.id, w.row)
     \/ w.table = "sections" /\ SectionRight(n, w.id, w.row)

NameStored(n, id) ==
  \/ Strings[id] = Unstored /\ counted["data"] >= StringRoom
  \/ StringRight(n, id, Strings[id])

StoredInv(n) ==
  /\ Strings = [id \in Sources |-> Strings[id]] /\ Rows = [id \in Sources |-> Rows[id]]
  /\ \A t \in Thread : outstanding[t] # None => WriteRight(n, outstanding[t])
  /\ \A id \in Sources : id < counted["strings"] /\ id < NumRows =>
       NameStored(n, id) \/ Pending("strings", id)
  /\ \A id \in Sources : id < counted["sections"] /\ id < NumRows =>
       SectionRight(n, id, Rows[id]) \/ Pending("sections", id)

\* Numbers are kept.
NumbersKept ==
  \A u \in Thread, s \in Sources :
    sectionVar[u][s] # None => sectionVar'[u][s] = sectionVar[u][s]

LEMMA RightStays ==
  ASSUME NEW n \in Sources, Outline(enclosing, n), NumbersKept, enclosing' = enclosing,
         NEW id \in Nat, NEW row
  PROVE  /\ StringRight(n, id, row) => StringRight(n, id, row)'
         /\ SectionRight(n, id, row) => SectionRight(n, id, row)'
<1>1. \A s \in 0..n : s \in Sources
  BY SourcesAreNat
<1>2. id # None /\ \A i \in Nat : i # None
  BY SourcesAreNat
<1>3. ASSUME StringRight(n, id, row) PROVE StringRight(n, id, row)'
  BY <1>1, <1>2, <1>3 DEF StringRight, NumbersKept
<1>4. ASSUME SectionRight(n, id, row) PROVE SectionRight(n, id, row)'
  <2>1. PICK u \in Thread, s \in 0..n :
          /\ sectionVar[u][s] = id
          /\ s # 0 => sectionVar[u][enclosing[s]] \in Nat
          /\ row = [ParentId |-> IF s = 0 THEN -1 ELSE sectionVar[u][enclosing[s]], StringId |-> id]
    BY <1>4 DEF SectionRight
  <2>2. s # 0 => enclosing[s] \in 0..n
    BY DEF Outline
  <2>3. /\ sectionVar'[u][s] = id
        /\ s # 0 => sectionVar'[u][enclosing'[s]] = sectionVar[u][enclosing[s]]
    BY <2>1, <2>2, <1>1, <1>2 DEF NumbersKept
  <2> QED BY <2>1, <2>3 DEF SectionRight
<1> QED BY <1>3, <1>4

\* A thread offers a row for a table.
LEMMA AddingStores ==
  ASSUME NEW n \in Sources, Outline(enclosing, n), NumbersKept, enclosing' = enclosing,
         CountedTypes, CountedTypes', Counts, StoredInv(n), Strings' = Strings, Rows' = Rows,
         NEW t \in Thread, outstanding[t] = None,
         \A u \in Thread : u # t => outstanding'[u] = outstanding[u],
         NEW table \in {"strings", "sections"}, NEW id \in Nat, NEW row,
         WriteRight(n, [table |-> table, id |-> id, row |-> row])',
         counted'[table] = IF counted[table] = id THEN id + 1 ELSE counted[table],
         \A c \in Tables : c # table => counted'[c] = counted[c],
         outstanding'[t] = IF counted[table] = id /\ id < NumRows
                             THEN [table |-> table, id |-> id, row |-> row] ELSE None
  PROVE  StoredInv(n)'
<1>1. n \in Nat /\ \A i \in Sources : i \in Nat
  BY SourcesAreNat
<1>2. [table |-> table, id |-> id, row |-> row] # None
  <2>1. CASE table = "strings"
    <3>1. row \in 0..n
      BY <2>1 DEF WriteRight, StringRight
    <3>2. row \in Nat
      BY <3>1
    <3> QED BY <3>2, <2>1, SectionsAssumption
  <2>2. CASE table = "sections"
    <3>1. PICK u \in Thread, s \in 0..n :
            /\ s # 0 => sectionVar'[u][enclosing'[s]] \in Nat
            /\ row = [ParentId |-> IF s = 0 THEN -1 ELSE sectionVar'[u][enclosing'[s]],
                      StringId |-> id]
      BY <2>2 DEF WriteRight, SectionRight
    <3>2. PICK p \in Int : row = [ParentId |-> p, StringId |-> id]
      BY <3>1
    <3> QED BY <3>2, <2>2, SectionsAssumption
  <2> QED BY <2>1, <2>2
<1>3. ASSUME NEW u \in Thread, outstanding'[u] # None PROVE WriteRight(n, outstanding[u])'
  <2>1. CASE u = t
    <3>1. outstanding'[u] = [table |-> table, id |-> id, row |-> row]
      BY <2>1, <1>3
    <3> QED BY <3>1
  <2>2. CASE u # t
    <3>1. PICK w : w = outstanding[u]
      OBVIOUS
    <3>2. WriteRight(n, w) /\ outstanding'[u] = w
      BY <3>1, <2>2, <1>3 DEF StoredInv
    <3>3. WriteRight(n, w)'
      BY <3>2, RightStays DEF WriteRight
    <3> QED BY <3>2, <3>3
  <2> QED BY <2>1, <2>2
<1>4. ASSUME NEW what, NEW i, Pending(what, i) PROVE Pending(what, i)'
  <2>1. PICK u \in Thread :
          outstanding[u] # None /\ outstanding[u].table = what /\ outstanding[u].id = i
    BY <1>4 DEF Pending
  <2>2. outstanding'[u] = outstanding[u]
    BY <2>1
  <2> QED BY <2>1, <2>2 DEF Pending
<1>5. ASSUME NEW what \in Tables, NEW i \in Nat, i < counted'[what], ~(i < counted[what]), i < NumRows
      PROVE  Pending(what, i)'
  <2>1. what = table /\ i = id /\ counted[table] = id
    <3>1. what = table
      BY <1>5
    <3>2. counted[table] \in Nat
      BY <3>1 DEF CountedTypes
    <3> QED BY <3>1, <3>2, <1>5
  <2>2. outstanding'[t] = [table |-> table, id |-> id, row |-> row]
    BY <2>1, <1>5
  <2> QED BY <2>1, <2>2, <1>2 DEF Pending
<1>6. ASSUME NEW i \in Sources, i < counted'["strings"], i < NumRows
      PROVE  NameStored(n, i)' \/ Pending("strings", i)'
  <2>1. CASE i < counted["strings"] /\ NameStored(n, i)
    <3>1. counted["data"] <= counted'["data"] /\ counted["data"] \in Nat /\ counted'["data"] \in Nat
          /\ StringRoom \in Nat
      BY SectionsAssumption DEF Counts, CountedTypes, Tables
    <3>2. PICK name : name = Strings[i]
      OBVIOUS
    <3>3. StringRight(n, i, name) => StringRight(n, i, name)'
      BY <1>1, RightStays
    <3>4. \/ name = Unstored /\ counted["data"] >= StringRoom
          \/ StringRight(n, i, name)
      BY <3>2, <2>1 DEF NameStored
    <3> QED BY <3>1, <3>2, <3>3, <3>4 DEF NameStored
  <2>2. CASE i < counted["strings"] /\ Pending("strings", i)
    BY <2>2, <1>4
  <2>3. CASE ~(i < counted["strings"])
    BY <2>3, <1>1, <1>5, <1>6 DEF Tables
  <2> QED BY <2>1, <2>2, <2>3, <1>6 DEF StoredInv
<1>7. ASSUME NEW i \in Sources, i < counted'["sections"], i < NumRows
      PROVE  SectionRight(n, i, Rows[i])' \/ Pending("sections", i)'
  <2>1. CASE i < counted["sections"] /\ SectionRight(n, i, Rows[i])
    <3>1. PICK r : r = Rows[i]
      OBVIOUS
    <3>2. SectionRight(n, i, r)'
      BY <3>1, <2>1, <1>1, RightStays
    <3> QED BY <3>1, <3>2
  <2>2. CASE i < counted["sections"] /\ Pending("sections", i)
    BY <2>2, <1>4
  <2>3. CASE ~(i < counted["sections"])
    BY <2>3, <1>1, <1>5, <1>7 DEF Tables
  <2> QED BY <2>1, <2>2, <2>3, <1>7 DEF StoredInv
<1>8. Strings' = [i \in Sources |-> Strings'[i]] /\ Rows' = [i \in Sources |-> Rows'[i]]
  BY DEF StoredInv
<1> QED BY <1>3, <1>6, <1>7, <1>8 DEF StoredInv

LEMMA TakingStores ==
  ASSUME NEW n, CountedInv(n), StoredInv(n), NEW t \in Thread, NEW s \in 0..n,
         NEW sd, Takes(t, s, sd)
  PROVE  StoredInv(n)' /\ NumbersKept
<1>1. /\ SectionsInvOf(n) /\ CountedTypes /\ CountedTypes' /\ Counts
      /\ n \in Sources /\ Outline(enclosing, n) /\ s \in Sources
      /\ Mapped(sectionVar) /\ sectionVar[t] \in [Sources -> Nat \cup {None}]
  BY TakingCounts, ThreadTypes DEF CountedInv
<1>2. PICK id \in Nat : id = StringId(t, s)
  BY DEF Takes
<1>3. /\ sectionVar'[t] = [sectionVar[t] EXCEPT ![s] = id]
      /\ \A u \in Thread : u # t => sectionVar'[u] = sectionVar[u]
  <2>1. sectionVar' = [sectionVar EXCEPT ![t][s] = id]
    BY <1>2 DEF Takes
  <2> QED BY <2>1, <1>1 DEF Mapped
<1>4. sectionVar'[t][s] = id
  BY <1>1, <1>3
<1>5. NumbersKept
  <2>1. sectionVar[t][s] # None => sectionVar[t][s] = id
    BY <1>2 DEF Takes
  <2> QED BY <2>1, <1>1, <1>3 DEF NumbersKept
<1>6. WriteRight(n, [table |-> "strings", id |-> id, row |-> s])'
  BY <1>4 DEF WriteRight, StringRight
<1>7. AddGlobal(t, "strings", id, s) /\ outstanding[t] = None
      /\ enclosing' = enclosing /\ Strings' = Strings /\ Rows' = Rows
  BY <1>2 DEF Takes
<1>8. /\ counted'["strings"] = IF counted["strings"] = id THEN id + 1 ELSE counted["strings"]
      /\ \A c \in Tables : c # "strings" => counted'[c] = counted[c]
      /\ outstanding'[t] = IF counted["strings"] = id /\ id < NumRows
                             THEN [table |-> "strings", id |-> id, row |-> s] ELSE None
      /\ \A u \in Thread : u # t => outstanding'[u] = outstanding[u]
  <2>1. "strings" = "sections" => id <= MaxSections
    OBVIOUS
  <2> QED BY <2>1, <1>1, <1>7, GlobalAdded
<1>9. StoredInv(n)'
  BY <1>1, <1>5, <1>6, <1>7, <1>8, AddingStores
<1> QED BY <1>5, <1>9

LEMMA MeetingStores ==
  ASSUME NEW n, CountedInv(n), StoredInv(n), NEW t \in Thread, NEW s \in 0..n,
         NEW sd, NEW place, Meets(t, s, sd, place)
  PROVE  StoredInv(n)' /\ NumbersKept
<1>1. /\ SectionsInvOf(n) /\ CountedTypes /\ CountedTypes' /\ Counts
      /\ n \in Sources /\ Outline(enclosing, n)
  BY MeetingCounts, ThreadTypes DEF CountedInv
<1>2. PICK id \in Sources : id = sectionVar[t][s]
  BY DEF Meets
<1>3. id \in Nat /\ id <= MaxSections
  BY SourcesAreNat, SectionsAssumption DEF Sources
<1>4. /\ enclosing' = enclosing /\ Strings' = Strings /\ Rows' = Rows
      /\ sectionVar' = sectionVar /\ stringVar' = stringVar /\ outstanding[t] = None
  BY DEF Meets
<1>5. NumbersKept
  BY <1>4 DEF NumbersKept
<1>6. CASE Scratch[t].RunState[id] = "NeverEntered"
  <2>1. PICK row : row = RowOf(t, s)
    OBVIOUS
  <2>2. AddGlobal(t, "sections", id, row)
    BY <2>1, <1>2, <1>6 DEF Meets, Offers
  <2>3. WriteRight(n, [table |-> "sections", id |-> id, row |-> row])'
    <3>1. stringVar[t] = sectionVar[t]
      BY DEF CountedInv, ThreadCounted, NumbersAlike
    <3>2. s # 0 => sectionVar[t][enclosing[s]] \in Nat
      BY <1>2, <1>6, SourcesAreNat DEF Meets
    <3>3. row = [ParentId |-> IF s = 0 THEN -1 ELSE sectionVar[t][enclosing[s]], StringId |-> id]
      BY <2>1, <3>1, <1>2 DEF RowOf
    <3>4. SectionRight(n, id, row)
      BY <3>2, <3>3, <1>2 DEF SectionRight
    <3>5. SectionRight(n, id, row)'
      BY <3>4, <1>1, <1>3, <1>4, <1>5, RightStays
    <3> QED BY <3>5, <1>3 DEF WriteRight
  <2>4. /\ counted'["sections"] = IF counted["sections"] = id THEN id + 1 ELSE counted["sections"]
        /\ \A c \in Tables : c # "sections" => counted'[c] = counted[c]
        /\ outstanding'[t] = IF counted["sections"] = id /\ id < NumRows
                               THEN [table |-> "sections", id |-> id, row |-> row] ELSE None
        /\ \A u \in Thread : u # t => outstanding'[u] = outstanding[u]
    BY <2>2, <1>1, <1>3, GlobalAdded
  <2>5. StoredInv(n)'
    BY <2>3, <2>4, <1>1, <1>3, <1>4, <1>5, AddingStores
  <2> QED BY <2>5, <1>5
<1>7. CASE Scratch[t].RunState[id] # "NeverEntered"
  <2>1. counted' = counted /\ outstanding' = outstanding
    BY <1>2, <1>7 DEF Meets, Offers
  <2>2. StoredInv(n)'
    BY <2>1, <1>4 DEF StoredInv, WriteRight, NameStored, StringRight, SectionRight, Pending
  <2> QED BY <2>2, <1>5
<1> QED BY <1>6, <1>7

LEMMA StoringStores ==
  ASSUME NEW n, CountedInv(n), StoredInv(n), NEW t \in Thread, Store(t)
  PROVE  StoredInv(n)' /\ NumbersKept
<1>1. /\ SectionsInvOf(n) /\ CountedTypes /\ CountedTypes' /\ Counts
      /\ n \in Sources /\ n \in Nat /\ Outline(enclosing, n)
  BY StoringCounts, ThreadTypes DEF CountedInv
<1>2. /\ sectionVar' = sectionVar /\ enclosing' = enclosing
      /\ outstanding' = [outstanding EXCEPT ![t] = None] /\ Mapped(outstanding)
  BY <1>1 DEF Store, CountedTypes
<1>3. /\ outstanding'[t] = None
      /\ \A u \in Thread : u # t => outstanding'[u] = outstanding[u]
  BY <1>2 DEF Mapped
<1>4. NumbersKept
  BY <1>2 DEF NumbersKept
<1>5. PICK w : w = outstanding[t]
  OBVIOUS
<1>6. w # None /\ WriteRight(n, w) /\ w.id \in Nat /\ w.table \in {"strings", "sections"}
  BY <1>5 DEF Store, StoreString, StoreSection, StoredInv, WriteRight
<1>7. \A id, row : /\ StringRight(n, id, row) => StringRight(n, id, row)'
                   /\ SectionRight(n, id, row) => SectionRight(n, id, row)'
  BY <1>2 DEF StringRight, SectionRight
<1>8. ASSUME NEW u \in Thread, outstanding'[u] # None PROVE WriteRight(n, outstanding[u])'
  <2>1. PICK x : x = outstanding[u]
    OBVIOUS
  <2>2. outstanding'[u] = x /\ WriteRight(n, x)
    BY <2>1, <1>3, <1>8 DEF StoredInv
  <2>3. WriteRight(n, x)'
    BY <2>2, <1>7 DEF WriteRight
  <2> QED BY <2>2, <2>3
<1>9. ASSUME NEW what, NEW id, Pending(what, id), ~(what = w.table /\ id = w.id)
      PROVE  Pending(what, id)'
  <2>1. PICK u \in Thread :
          outstanding[u] # None /\ outstanding[u].table = what /\ outstanding[u].id = id
    BY <1>9 DEF Pending
  <2>2. u # t
    BY <2>1, <1>5, <1>9
  <2> QED BY <2>1, <2>2, <1>3 DEF Pending
<1>10. CASE StoreString(t)
  <2>1. /\ w.table = "strings" /\ StringRight(n, w.id, w.row)
        /\ Strings' = [Strings EXCEPT ![w.id] =
             IF counted["data"] + 1 < StringRoom THEN w.row ELSE Unstored]
        /\ counted' = [counted EXCEPT !["data"] = IF StringRoom > 0 THEN @ + 1 ELSE @]
        /\ Rows' = Rows
    BY <1>5, <1>6, <1>10 DEF StoreString, WriteRight
  <2>2. /\ counted["data"] \in Nat /\ StringRoom \in Nat
        /\ counted'["data"] = IF StringRoom > 0 THEN counted["data"] + 1 ELSE counted["data"]
        /\ counted'["strings"] = counted["strings"] /\ counted'["sections"] = counted["sections"]
    BY <2>1, <1>1, SectionsAssumption DEF CountedTypes, Tables
  <2>3. PICK name : name = IF counted["data"] + 1 < StringRoom THEN w.row ELSE Unstored
    OBVIOUS
  <2>4. Strings' = [Strings EXCEPT ![w.id] = name]
    BY <2>1, <2>3
  <2>5. /\ Strings' = [i \in Sources |-> Strings'[i]]
        /\ \A i \in Sources : Strings'[i] = IF i = w.id THEN name ELSE Strings[i]
    BY <2>4 DEF StoredInv
  <2>6. \/ name = Unstored /\ counted'["data"] >= StringRoom
        \/ StringRight(n, w.id, name)'
    BY <2>1, <2>2, <2>3, <1>7
  <2>7. ASSUME NEW i \in Sources, i < counted'["strings"], i < NumRows
        PROVE  NameStored(n, i)' \/ Pending("strings", i)'
    <3>1. CASE i = w.id
      BY <3>1, <2>5, <2>6 DEF NameStored
    <3>2. CASE i # w.id
      <4>1. NameStored(n, i) \/ Pending("strings", i)
        BY <2>2, <2>7 DEF StoredInv
      <4>2. CASE Pending("strings", i)
        BY <4>2, <3>2, <1>9
      <4>3. CASE NameStored(n, i)
        <5>1. PICK old : old = Strings[i]
          OBVIOUS
        <5>2. \/ old = Unstored /\ counted["data"] >= StringRoom
              \/ StringRight(n, i, old)'
          BY <5>1, <4>3, <1>7 DEF NameStored
        <5>3. Strings'[i] = old /\ (counted["data"] >= StringRoom => counted'["data"] >= StringRoom)
          BY <5>1, <3>2, <2>2, <2>5
        <5> QED BY <5>2, <5>3 DEF NameStored
      <4> QED BY <4>1, <4>2, <4>3
    <3> QED BY <3>1, <3>2
  <2>8. ASSUME NEW i \in Sources, i < counted'["sections"], i < NumRows
        PROVE  SectionRight(n, i, Rows[i])' \/ Pending("sections", i)'
    <3>1. SectionRight(n, i, Rows[i]) \/ Pending("sections", i)
      BY <2>2, <2>8 DEF StoredInv
    <3>2. PICK r : r = Rows[i]
      OBVIOUS
    <3> QED BY <3>1, <3>2, <2>1, <1>7, <1>9
  <2>9. Rows' = [i \in Sources |-> Rows'[i]]
    BY <2>1 DEF StoredInv
  <2> QED BY <2>5, <2>7, <2>8, <2>9, <1>4, <1>8 DEF StoredInv
<1>11. CASE StoreSection(t)
  <2>1. /\ w.table = "sections" /\ SectionRight(n, w.id, w.row)
        /\ Rows' = [Rows EXCEPT ![w.id] = w.row]
        /\ counted' = counted /\ Strings' = Strings
    BY <1>5, <1>6, <1>11 DEF StoreSection, WriteRight
  <2>2. /\ Rows' = [i \in Sources |-> Rows'[i]]
        /\ \A i \in Sources : Rows'[i] = IF i = w.id THEN w.row ELSE Rows[i]
    BY <2>1 DEF StoredInv
  <2>3. ASSUME NEW i \in Sources, i < counted'["sections"], i < NumRows
        PROVE  SectionRight(n, i, Rows[i])' \/ Pending("sections", i)'
    <3>1. CASE i = w.id
      BY <3>1, <2>1, <2>2, <1>7
    <3>2. CASE i # w.id
      <4>1. SectionRight(n, i, Rows[i]) \/ Pending("sections", i)
        BY <2>1, <2>3 DEF StoredInv
      <4>2. PICK r : r = Rows[i]
        OBVIOUS
      <4>3. Rows'[i] = r
        BY <4>2, <3>2, <2>2
      <4> QED BY <4>1, <4>2, <4>3, <3>2, <1>7, <1>9
    <3> QED BY <3>1, <3>2
  <2>4. ASSUME NEW i \in Sources, i < counted'["strings"], i < NumRows
        PROVE  NameStored(n, i)' \/ Pending("strings", i)'
    <3>1. NameStored(n, i) \/ Pending("strings", i)
      BY <2>1, <2>4 DEF StoredInv
    <3>2. CASE NameStored(n, i)
      BY <3>2, <2>1, <1>2 DEF NameStored, StringRight
    <3>3. CASE Pending("strings", i)
      BY <3>3, <2>1, <1>9
    <3> QED BY <3>1, <3>2, <3>3
  <2>5. Strings' = [i \in Sources |-> Strings'[i]]
    BY <2>1 DEF StoredInv
  <2> QED BY <2>2, <2>3, <2>4, <2>5, <1>4, <1>8 DEF StoredInv
<1> QED BY <1>10, <1>11 DEF Store

\* A test of n sections: its steps, its numbers and its tables.
TablesInv(n) == CountedInv(n) /\ StoredInv(n)

\* A step of the threads keeps the numbers that were given and what was counted.
Keeps == enclosing' = enclosing /\ NumbersKept /\ Counts

LEMMA TablesStep ==
  ASSUME NEW n, TablesInv(n), NEW t \in Thread, Step(t)
  PROVE  TablesInv(n)' /\ Keeps
<1>1. /\ SectionsInvOf(n) /\ SectionsInvOf(n)' /\ CountedInv(n) /\ StoredInv(n)
      /\ DOMAIN enclosing = 1..n /\ n \in Nat
      /\ NumbersAlike(t) /\ ScenarioNoted(t)
  <2>1. [Next]_vars
    BY DEF Next
  <2>2. SectionsInvOf(n) /\ CountedInv(n) /\ StoredInv(n)
    BY DEF TablesInv, CountedInv
  <2>3. SectionsInvOf(n)'
    BY <2>1, <2>2, SectionsStay
  <2>4. DOMAIN enclosing = 1..n /\ n \in Nat
    BY <2>2 DEF SectionsInvOf, Outline
  <2> QED BY <2>2, <2>3, <2>4 DEF CountedInv, ThreadCounted
<1>2. CASE \E s \in 0..n : \E sd, place : Meets(t, s, sd, place)
  <2>1. PICK s \in 0..n : \E sd, place : Meets(t, s, sd, place)
    BY <1>2
  <2>2. PICK sd, place : Meets(t, s, sd, place)
    BY <2>1
  <2>3. enclosing' = enclosing
    BY <2>2 DEF Meets
  <2> QED BY <2>2, <2>3, <1>1, MeetingCounts, MeetingStores DEF TablesInv, CountedInv, Keeps
<1>3. CASE \E s \in 0..n : \E sd : Takes(t, s, sd)
  <2>1. PICK s \in 0..n : \E sd : Takes(t, s, sd)
    BY <1>3
  <2>2. PICK sd : Takes(t, s, sd)
    BY <2>1
  <2>3. enclosing' = enclosing
    BY <2>2 DEF Takes
  <2> QED BY <2>2, <2>3, <1>1, TakingCounts, TakingStores DEF TablesInv, CountedInv, Keeps
<1>4. CASE Store(t)
  <2>1. enclosing' = enclosing
    BY <1>4 DEF Store
  <2> QED BY <2>1, <1>1, <1>4, StoringCounts, StoringStores DEF TablesInv, CountedInv, Keeps
<1>5. \A s \in 1..n : s \in 0..n
  BY <1>1
<1>6. 0 \in 0..n
  BY <1>1
<1>7. ASSUME NEW s \in 1..n, Section(t, s) PROVE \E r \in 0..n : \E sd : Takes(t, r, sd)
  BY <1>1, <1>5, <1>7, SectionTakes
<1>8. ASSUME Scenario(t) PROVE \E r \in 0..n : \E sd : Takes(t, r, sd)
  BY <1>1, <1>6, <1>8, ScenarioTakes
<1>9. ASSUME NEW s \in 1..n,
             EnterSection(t, s) \/ PutOff(t, s) \/ SkipCompleted(t, s) \/ LeaveSection(t, s)
      PROVE  \E r \in 0..n : \E sd, place : Meets(t, r, sd, place)
  BY <1>1, <1>5, <1>9, SectionMeets
<1>10. ASSUME LoopScenario(t) PROVE \E r \in 0..n : \E sd, place : Meets(t, r, sd, place)
  BY <1>1, <1>6, <1>10, ScenarioMeets
<1> QED BY <1>1, <1>2, <1>3, <1>4, <1>7, <1>8, <1>9, <1>10 DEF Step

-----------------------------------------------------------------------------
(* The lines of the section printer and the sections around a place: each is made from *)
(* that of a parent with a smaller number.                                   *)

LineOf(f, parent, name) == IF parent >= 0 THEN Append(f[parent], name) ELSE <<name>>

TracesOf(f, m, par, name) == f = [i \in 0..m - 1 |-> LineOf(f, par[i], name[i])]
ChainsOf(g, D, e) == g = [s \in D |-> IF s = 0 THEN <<0>> ELSE Append(g[e[s]], s)]

LEMMA TraceExists ==
  ASSUME NEW m \in Nat, NEW par, NEW name, \A i \in 0..m - 1 : par[i] \in Int /\ par[i] < i
  PROVE  \E f : TracesOf(f, m, par, name)
<1> DEFINE IsTrace(f, j) == f = [i \in 0..j - 1 |-> LineOf(f, par[i], name[i])]
           T == {j \in 0..m : \E f : IsTrace(f, j)}
<1>1. 0 \in T
  <2> DEFINE f == [i \in {} |-> 0]
  <2>1. 0..0 - 1 = {}
    OBVIOUS
  <2>2. f = [i \in {} |-> LineOf(f, par[i], name[i])]
    OBVIOUS
  <2>3. IsTrace(f, 0)
    BY <2>1, <2>2
  <2>4. 0 \in 0..m
    OBVIOUS
  <2> HIDE DEF f
  <2>5. \E h : IsTrace(h, 0)
    BY <2>3
  <2> QED BY <2>4, <2>5
<1>2. ASSUME NEW j \in 0..m - 1, j \in T PROVE j + 1 \in T
  <2>1. PICK f : IsTrace(f, j)
    BY <1>2
  <2>2. j \in Nat /\ 0..(j + 1) - 1 = 0..j /\ j + 1 \in 0..m
    OBVIOUS
  <2> DEFINE g == [i \in 0..j |-> IF i < j THEN f[i] ELSE LineOf(f, par[j], name[j])]
  <2>3. ASSUME NEW i \in 0..j PROVE g[i] = LineOf(g, par[i], name[i])
    <3>1. par[i] \in Int /\ par[i] < i
      BY <2>2
    <3>2. LineOf(g, par[i], name[i]) = LineOf(f, par[i], name[i])
      <4>1. CASE par[i] >= 0
        <5>1. par[i] \in 0..j /\ par[i] < j
          BY <4>1, <3>1, <2>2
        <5>2. g[par[i]] = f[par[i]]
          BY <5>1
        <5> HIDE DEF g
        <5> QED BY <5>2 DEF LineOf
      <4>2. CASE ~(par[i] >= 0)
        BY <4>2 DEF LineOf
      <4> QED BY <4>1, <4>2
    <3>3. g[i] = LineOf(f, par[i], name[i])
      <4>1. CASE i < j
        <5>1. i \in 0..j - 1
          BY <4>1, <2>2
        <5>2. f[i] = LineOf(f, par[i], name[i])
          BY <2>1, <5>1
        <5> QED BY <5>2, <4>1
      <4>2. CASE ~(i < j)
        <5>1. i = j
          BY <4>2, <2>2
        <5> QED BY <5>1, <4>2
      <4> QED BY <4>1, <4>2
    <3> QED BY <3>2, <3>3
  <2>4. g = [i \in 0..j |-> g[i]]
    OBVIOUS
  <2> HIDE DEF g
  <2>5. g = [i \in 0..j |-> LineOf(g, par[i], name[i])]
    BY <2>3, <2>4
  <2>6. IsTrace(g, j + 1)
    BY <2>2, <2>5
  <2> QED BY <2>2, <2>6
<1> HIDE DEF T
<1>3. \A j \in 0..m : j \in T
  BY <1>1, <1>2, EveryNumberTo
<1>4. m \in T
  BY <1>3
<1> QED BY <1>4 DEF T, TracesOf

\* Two lines correspond: they have the same length and but for names that are unknown, which
\* there are only with reason, the same names.
Alike(line, around, reason) ==
  /\ line \in Seq(Int) /\ around \in Seq(Int) /\ Len(line) = Len(around)
  /\ \A l \in DOMAIN line : line[l] = around[l] \/ (line[l] = Unknown /\ reason)

LEMMA AlikeAppend ==
  ASSUME NEW reason, NEW line, NEW around, Alike(line, around, reason),
         NEW a \in Int, NEW b \in Int, a = b \/ (a = Unknown /\ reason)
  PROVE  Alike(Append(line, a), Append(around, b), reason)
<1> DEFINE v == Append(line, a)
           w == Append(around, b)
<1>1. line \in Seq(Int) /\ around \in Seq(Int) /\ Len(line) = Len(around)
  BY DEF Alike
<1>2. /\ v \in Seq(Int) /\ w \in Seq(Int) /\ Len(v) = Len(line) + 1 /\ Len(w) = Len(line) + 1
      /\ Len(line) \in Nat
  BY <1>1
<1>3. DOMAIN v = 1..Len(line) + 1 /\ DOMAIN line = 1..Len(line)
  BY <1>1, <1>2
<1>4. ASSUME NEW l \in DOMAIN v PROVE v[l] = w[l] \/ (v[l] = Unknown /\ reason)
  <2>1. CASE l \in 1..Len(line)
    <3>1. v[l] = line[l] /\ w[l] = around[l]
      BY <2>1, <1>1
    <3>2. line[l] = around[l] \/ (line[l] = Unknown /\ reason)
      BY <2>1, <1>3 DEF Alike
    <3> HIDE DEF v, w
    <3> QED BY <3>1, <3>2, Zenon
  <2>2. CASE l \notin 1..Len(line)
    <3>1. l = Len(line) + 1
      BY <2>2, <1>2, <1>3
    <3>2. v[l] = a /\ w[l] = b
      BY <3>1, <1>1
    <3> HIDE DEF v, w
    <3> QED BY <3>2, Zenon
  <2> QED BY <2>1, <2>2
<1> HIDE DEF v, w
<1>5. Alike(v, w, reason)
  BY <1>2, <1>4, Zenon DEF Alike
<1> QED BY <1>5 DEF v, w

LEMMA AlikeOne ==
  ASSUME NEW reason, NEW a \in Int, NEW b \in Int, a = b \/ (a = Unknown /\ reason)
  PROVE  Alike(<<a>>, <<b>>, reason)
<1>1. <<a>> \in Seq(Int) /\ <<b>> \in Seq(Int) /\ DOMAIN <<a>> = {1}
  OBVIOUS
<1>2. <<a>>[1] = a /\ <<b>>[1] = b /\ Len(<<a>>) = 1 /\ Len(<<b>>) = 1
  OBVIOUS
<1> DEFINE v == <<a>>
           w == <<b>>
<1> HIDE DEF v, w
<1>3. \A l \in DOMAIN v : v[l] = w[l] \/ (v[l] = Unknown /\ reason)
  BY <1>1, <1>2, Zenon DEF v, w
<1>4. Alike(v, w, reason)
  BY <1>1, <1>2, <1>3, Zenon DEF Alike, v, w
<1> QED BY <1>4 DEF v, w

\* R says which line is of which place. The parent of the line is that of the section
\* around the place, and the name it adds is the section's.
Corresponds(R, m, D, e, par, name, reason) ==
  \A i, s : <<i, s>> \in R =>
    /\ i \in 0..m - 1 /\ s \in D /\ name[i] \in Int
    /\ name[i] = s \/ (name[i] = Unknown /\ reason)
    /\ s = 0 => par[i] = -1
    /\ s # 0 => par[i] \in 0..i - 1 /\ <<par[i], e[s]>> \in R

\* Lines that correspond to places have the names of the sections around these.
LEMMA TracesAlike ==
  ASSUME NEW m \in Nat, NEW D, D \subseteq Int, NEW R, NEW e, NEW par, NEW name, NEW reason,
         Corresponds(R, m, D, e, par, name, reason),
         NEW f, TracesOf(f, m, par, name), NEW g, ChainsOf(g, D, e)
  PROVE  \A i, s : <<i, s>> \in R => Alike(f[i], g[s], reason)
<1> DEFINE T == {i \in Nat : \A s : <<i, s>> \in R => Alike(f[i], g[s], reason)}
<1>1. ASSUME NEW i \in Nat, \A j \in 0..i - 1 : j \in T PROVE i \in T
  <2> SUFFICES ASSUME NEW s, <<i, s>> \in R PROVE Alike(f[i], g[s], reason)
    OBVIOUS
  <2>1. /\ i \in 0..m - 1 /\ s \in D /\ name[i] \in Int
        /\ name[i] = s \/ (name[i] = Unknown /\ reason)
        /\ s = 0 => par[i] = -1
        /\ s # 0 => par[i] \in 0..i - 1 /\ <<par[i], e[s]>> \in R
    BY Zenon DEF Corresponds
  <2>2. f[i] = LineOf(f, par[i], name[i]) /\ s \in Int
    BY <2>1 DEF TracesOf
  <2>3. g[s] = IF s = 0 THEN <<0>> ELSE Append(g[e[s]], s)
    BY <2>1 DEF ChainsOf
  <2>4. CASE s = 0
    <3>1. f[i] = <<name[i]>> /\ g[s] = <<s>>
      <4>1. ~(par[i] >= 0)
        BY <2>1, <2>4
      <4> QED BY <4>1, <2>2, <2>3, <2>4, Zenon DEF LineOf
    <3>2. Alike(<<name[i]>>, <<s>>, reason)
      BY <2>1, <2>2, AlikeOne
    <3> QED BY <3>1, <3>2
  <2>5. CASE s # 0
    <3>0. par[i] >= 0
      BY <2>1, <2>5
    <3>1. f[i] = Append(f[par[i]], name[i]) /\ g[s] = Append(g[e[s]], s)
      BY <3>0, <2>2, <2>3, <2>5, Zenon DEF LineOf
    <3>2. par[i] \in T
      BY <2>1, <2>5, <1>1
    <3>3. Alike(f[par[i]], g[e[s]], reason)
      BY <2>1, <2>5, <3>2
    <3>4. Alike(Append(f[par[i]], name[i]), Append(g[e[s]], s), reason)
      BY <2>1, <2>2, <3>3, AlikeAppend
    <3> QED BY <3>1, <3>4
  <2> QED BY <2>4, <2>5
<1> HIDE DEF T
<1>2. \A i \in Nat : i \in T
  BY <1>1, EveryNumberFromBelow
<1>3. ASSUME NEW i, NEW s, <<i, s>> \in R PROVE Alike(f[i], g[s], reason)
  <2>1. i \in Nat
    <3>1. i \in 0..m - 1
      BY <1>3, Zenon DEF Corresponds
    <3> QED BY <3>1
  <2> QED BY <2>1, <1>2, <1>3 DEF T
<1> QED BY <1>3

-----------------------------------------------------------------------------
(* What the CPU makes of the tables, when all rows are written.              *)

\* A name, or all lines below one, may be missing.
NamesShort == counted["strings"] > NumRows \/ counted["data"] >= StringRoom

LEMMA NameOfNumber ==
  ASSUME NEW n, TablesInv(n), \A t \in Thread : outstanding[t] = None,
         NEW u \in Thread, NEW s \in 0..n, NEW id \in Sources, sectionVar[u][s] = id
  PROVE  (id \in Names /\ Strings[id] = s) \/ (id \notin Names /\ NamesShort)
<1>1. /\ Outline(enclosing, n) /\ n \in Nat /\ n \in Sources
      /\ \A t \in Thread : Numbers(enclosing, n, sectionVar[t], Scratch[t])
      /\ ThreadCounted(u) /\ CountedTypes /\ StoredInv(n)
  BY DEF TablesInv, CountedInv, SectionsInvOf, ThreadInv, Outline
<1>2. id \in Nat /\ id # None /\ s \in Sources
  BY <1>1, SourcesAreNat
<1>3. id < counted["strings"] /\ counted["strings"] \in Nat
  <2>1. id < Scratch[u].NextSectionID /\ Scratch[u].NextSectionID \in Int
    BY <1>1, <1>2 DEF Numbers, Scratches
  <2>2. Scratch[u].NextSectionID <= counted["strings"] /\ counted["strings"] \in Nat
    BY <1>1 DEF ThreadCounted, NumbersAlike, CountedTypes, Tables
  <2> QED BY <1>2, <2>1, <2>2
<1>4. /\ NumRows \in Nat /\ NumStrings \in Nat
      /\ \A k \in Nat : k < NumStrings <=> k < counted["strings"] /\ k < NumRows
  BY <1>3, SectionsAssumption DEF NumStrings, Smaller
<1> DEFINE short == {k \in 0..NumStrings - 1 : Strings[k] = Unstored}
<1>5. /\ short \subseteq Nat
      /\ \A k : k \in short <=> k \in Nat /\ k < NumStrings /\ Strings[k] = Unstored
  BY <1>4
<1>6. short # {} =>
        Least(short) \in short /\ \A r \in short : Least(short) <= r
  <2> HIDE DEF short
  <2> QED BY <1>5, LeastOf
<1>7. Names = 0..(IF short = {} THEN NumStrings ELSE Least(short)) - 1
  BY DEF Names
<1> HIDE DEF short
<1>8. \A k \in Sources : k < NumStrings => NameStored(n, k)
  <2> SUFFICES ASSUME NEW k \in Sources, k < NumStrings PROVE NameStored(n, k)
    OBVIOUS
  <2>1. k < counted["strings"] /\ k < NumRows
    BY <1>4, SourcesAreNat
  <2>2. ~Pending("strings", k)
    BY DEF Pending
  <2> QED BY <1>1, <2>1, <2>2 DEF StoredInv
<1>9. CASE id \in Names
  <2>1. id < NumStrings /\ id \notin short
    <3>1. CASE short = {}
      BY <3>1, <1>9, <1>4, <1>7
    <3>2. CASE short # {}
      <4>1. Least(short) \in Nat /\ Least(short) < NumStrings
        BY <3>2, <1>5, <1>6
      <4>2. id < Least(short)
        BY <3>2, <4>1, <1>9, <1>7
      <4>3. id < NumStrings
        BY <4>1, <4>2, <1>2, <1>4
      <4>4. id \notin short
        <5>1. SUFFICES ASSUME id \in short PROVE FALSE
          OBVIOUS
        <5>2. Least(short) <= id
          BY <3>2, <1>6, <5>1
        <5> QED BY <5>2, <4>1, <4>2, <1>2
      <4> QED BY <4>3, <4>4
    <3> QED BY <3>1, <3>2
  <2>2. NameStored(n, id) /\ Strings[id] # Unstored
    BY <2>1, <1>2, <1>5, <1>8
  <2>3. PICK w \in Thread : Strings[id] \in 0..n /\ sectionVar[w][Strings[id]] = id
    BY <2>2 DEF NameStored, StringRight
  <2>4. s = Strings[id]
    BY <2>3, <1>1, <1>2, ThreadsAgree
  <2> QED BY <2>4, <1>9
<1>10. CASE id \notin Names
  <2>1. CASE id < NumStrings
    <3>1. short # {} /\ Least(short) \in Nat
      BY <2>1, <1>2, <1>4, <1>5, <1>6, <1>7, <1>10
    <3>2. Least(short) <= id
      BY <3>1, <1>2, <1>7, <1>10
    <3> DEFINE k == Least(short)
    <3>3. k \in Nat /\ k < NumStrings /\ Strings[k] = Unstored /\ k <= id
      BY <3>1, <3>2, <1>5, <1>6
    <3> HIDE DEF k
    <3>4. k \in Sources
      BY <3>3, SectionsAssumption DEF Sources
    <3>5. NameStored(n, k)
      BY <3>3, <3>4, <1>8
    <3>6. ~StringRight(n, k, Strings[k])
      BY <3>3 DEF StringRight, Unstored
    <3>7. counted["data"] >= StringRoom
      BY <3>5, <3>6 DEF NameStored
    <3> QED BY <3>7, <1>10 DEF NamesShort
  <2>2. CASE ~(id < NumStrings)
    <3>1. counted["strings"] > NumRows
      BY <2>2, <1>2, <1>3, <1>4
    <3> QED BY <3>1, <1>10 DEF NamesShort
  <2> QED BY <2>1, <2>2
<1> QED BY <1>9, <1>10

\* The chains of sections around the places.
LEMMA AroundIs ==
  ASSUME NEW n, Outline(enclosing, n)
  PROVE  ChainsOf(Around, 0..n, enclosing)
<1>1. /\ n \in Nat /\ enclosing \in [1..n -> 0..n] /\ n + 1 \in Nat
      /\ \A s \in 1..n : enclosing[s] < s
  BY DEF Outline
<1>2. Len(enclosing) = n
  <2> DEFINE S == 0..n
  <2>1. enclosing \in [1..n -> S]
    BY <1>1
  <2> HIDE DEF S
  <2> QED BY <1>1, <2>1, FunctionIsSeq
<1> DEFINE par == [s \in 0..n |-> IF s = 0 THEN -1 ELSE enclosing[s]]
           name == [s \in 0..n |-> s]
           m == n + 1
<1>3. ASSUME NEW i \in 0..m - 1
      PROVE  /\ i \in 0..n /\ name[i] = i /\ par[i] \in Int /\ par[i] < i
             /\ i = 0 => ~(par[i] >= 0)
             /\ i # 0 => par[i] = enclosing[i] /\ par[i] >= 0
  <2>1. i \in 0..n /\ name[i] = i
    BY <1>1
  <2>2. CASE i = 0
    BY <2>1, <2>2
  <2>3. CASE i # 0
    <3>1. i \in 1..n /\ par[i] = enclosing[i]
      BY <2>1, <2>3, <1>1
    <3>2. enclosing[i] \in 0..n /\ enclosing[i] < i
      BY <3>1, <1>1
    <3> QED BY <2>1, <2>3, <3>1, <3>2
  <2> QED BY <2>2, <2>3
<1> HIDE DEF par, name, m
<1>4. PICK f : TracesOf(f, m, par, name)
  <2>1. m \in Nat
    BY <1>1 DEF m
  <2>2. \A i \in 0..m - 1 : par[i] \in Int /\ par[i] < i
    BY <1>3
  <2> QED BY <2>1, <2>2, TraceExists
<1>5. ASSUME NEW i \in 0..m - 1
      PROVE  LineOf(f, par[i], name[i]) = IF i = 0 THEN <<0>> ELSE Append(f[enclosing[i]], i)
  BY <1>3, Zenon DEF LineOf
<1>6. 0..m - 1 = 0..n
  BY <1>1 DEF m
<1>7. f = [s \in 0..n |-> IF s = 0 THEN <<0>> ELSE Append(f[enclosing[s]], s)]
  BY <1>4, <1>5, <1>6 DEF TracesOf
<1> DEFINE IsChain(g) == g = [s \in 0..n |-> IF s = 0 THEN <<0>> ELSE Append(g[enclosing[s]], s)]
<1>8. Around = CHOOSE g : IsChain(g)
  BY <1>2 DEF Around
<1>9. IsChain(f)
  BY <1>7
<1> HIDE DEF IsChain
<1>10. IsChain(Around)
  BY <1>8, <1>9, Zenon
<1> QED BY <1>10 DEF IsChain, ChainsOf

LEMMA LinesAre ==
  ASSUME NumNamed \in Nat,
         \A i \in 0..NumNamed - 1 : Rows[i].ParentId \in Int /\ Rows[i].ParentId < i
  PROVE  Lines = [i \in 0..NumNamed - 1 |-> LineOf(Lines, Rows[i].ParentId, NameOf(i))]
<1> DEFINE par == [i \in 0..NumNamed - 1 |-> Rows[i].ParentId]
           name == [i \in 0..NumNamed - 1 |-> NameOf(i)]
<1>1. \A i \in 0..NumNamed - 1 :
        par[i] = Rows[i].ParentId /\ name[i] = NameOf(i) /\ par[i] \in Int /\ par[i] < i
  OBVIOUS
<1> HIDE DEF par, name
<1>2. PICK f : TracesOf(f, NumNamed, par, name)
  BY <1>1, TraceExists
<1>3. f = [i \in 0..NumNamed - 1 |-> LineOf(f, Rows[i].ParentId, NameOf(i))]
  BY <1>1, <1>2 DEF TracesOf
<1> DEFINE IsLines(g) ==
      g = [id \in 0..NumNamed - 1 |->
            IF Rows[id].ParentId >= 0 THEN Append(g[Rows[id].ParentId], NameOf(id))
            ELSE <<NameOf(id)>>]
<1>4. Lines = CHOOSE g : IsLines(g)
  BY DEF Lines
<1>5. IsLines(f)
  BY <1>3 DEF LineOf
<1> HIDE DEF IsLines
<1>6. IsLines(Lines)
  BY <1>4, <1>5, Zenon
<1>7. Lines = [id \in 0..NumNamed - 1 |->
            IF Rows[id].ParentId >= 0 THEN Append(Lines[Rows[id].ParentId], NameOf(id))
            ELSE <<NameOf(id)>>]
  BY <1>6 DEF IsLines
<1> QED BY <1>7, Zenon DEF LineOf

\* A line that is of a section, by its number.
LinesOf(n) ==
  {p \in Sources \X (0..n) : p[1] \in 0..NumNamed - 1 /\ \E u \in Thread : sectionVar[u][p[2]] = p[1]}

LEMMA RowsCorrespond ==
  ASSUME NEW n, TablesInv(n), \A t \in Thread : outstanding[t] = None,
         NEW par, par = [i \in 0..NumNamed - 1 |-> Rows[i].ParentId],
         NEW name, name = [i \in 0..NumNamed - 1 |-> NameOf(i)]
  PROVE  /\ NumNamed \in Nat
         /\ \A i \in 0..NumNamed - 1 : Rows[i].ParentId \in Int /\ Rows[i].ParentId < i
         /\ Corresponds(LinesOf(n), NumNamed, 0..n, enclosing, par, name, NamesShort)
<1>1. /\ Outline(enclosing, n) /\ n \in Nat /\ n \in Sources
      /\ \A t \in Thread : Numbers(enclosing, n, sectionVar[t], Scratch[t])
      /\ CountedTypes /\ StoredInv(n)
  BY DEF TablesInv, CountedInv, SectionsInvOf, ThreadInv, Outline
<1>2. counted["sections"] \in Nat /\ counted["sections"] <= MaxSections + 1
  BY <1>1 DEF CountedTypes, Tables
<1>3. /\ NumNamed \in Nat
      /\ \A k \in Nat : k < NumNamed <=> k < counted["sections"] /\ k < NumRows
  BY <1>2, SectionsAssumption DEF NumNamed, Smaller
<1>4. ASSUME NEW i \in 0..NumNamed - 1 PROVE i \in Sources /\ SectionRight(n, i, Rows[i])
  <2>1. i \in Nat /\ i < counted["sections"] /\ i < NumRows
    BY <1>3
  <2>2. i \in Sources
    BY <2>1, <1>2, SectionsAssumption DEF Sources
  <2>3. ~Pending("sections", i)
    BY DEF Pending
  <2> QED BY <2>1, <2>2, <2>3, <1>1 DEF StoredInv
<1>5. ASSUME NEW i \in 0..NumNamed - 1
      PROVE  \E w \in Thread, s \in 0..n :
               /\ sectionVar[w][s] = i /\ Rows[i].StringId = i
               /\ s = 0 => Rows[i].ParentId = -1
               /\ s # 0 => /\ Rows[i].ParentId = sectionVar[w][enclosing[s]]
                           /\ Rows[i].ParentId \in 0..i - 1
  <2>1. PICK w \in Thread, s \in 0..n :
          /\ sectionVar[w][s] = i
          /\ s # 0 => sectionVar[w][enclosing[s]] \in Nat
          /\ Rows[i] = [ParentId |-> IF s = 0 THEN -1 ELSE sectionVar[w][enclosing[s]], StringId |-> i]
    BY <1>4 DEF SectionRight
  <2>2. /\ Rows[i].StringId = i
        /\ Rows[i].ParentId = IF s = 0 THEN -1 ELSE sectionVar[w][enclosing[s]]
    BY <2>1
  <2>3. ASSUME s # 0 PROVE sectionVar[w][enclosing[s]] \in 0..i - 1
    <3>1. s \in 1..n /\ sectionVar[w][s] # None /\ i \in Nat
      BY <2>1, <2>3, <1>1, <1>4, SourcesAreNat
    <3>2. sectionVar[w][enclosing[s]] < sectionVar[w][s]
      BY <3>1, <1>1, AroundNumbered
    <3> QED BY <3>1, <3>2, <2>1, <2>3
  <2> QED BY <2>1, <2>2, <2>3
<1>6. \A i \in 0..NumNamed - 1 : Rows[i].ParentId \in Int /\ Rows[i].ParentId < i
  <2> SUFFICES ASSUME NEW i \in 0..NumNamed - 1
               PROVE  Rows[i].ParentId \in Int /\ Rows[i].ParentId < i
    OBVIOUS
  <2>1. Rows[i].ParentId = -1 \/ Rows[i].ParentId \in 0..i - 1
    BY <1>5
  <2>2. i \in Nat
    BY <1>3
  <2> QED BY <2>1, <2>2
<1> DEFINE R == LinesOf(n)
<1>7. ASSUME NEW i, NEW s, <<i, s>> \in R
      PROVE  /\ i \in 0..NumNamed - 1 /\ s \in 0..n /\ name[i] \in Int
             /\ name[i] = s \/ (name[i] = Unknown /\ NamesShort)
             /\ s = 0 => par[i] = -1
             /\ s # 0 => par[i] \in 0..i - 1 /\ <<par[i], enclosing[s]>> \in R
  <2>1. i \in 0..NumNamed - 1 /\ i \in Sources /\ s \in 0..n /\ \E u \in Thread : sectionVar[u][s] = i
    BY <1>7 DEF LinesOf
  <2>2. PICK u \in Thread : sectionVar[u][s] = i
    BY <2>1
  <2>3. PICK w \in Thread, r \in 0..n :
          /\ sectionVar[w][r] = i /\ Rows[i].StringId = i
          /\ r = 0 => Rows[i].ParentId = -1
          /\ r # 0 => /\ Rows[i].ParentId = sectionVar[w][enclosing[r]]
                      /\ Rows[i].ParentId \in 0..i - 1
    BY <2>1, <1>5
  <2>4. s = r
    <3>1. sectionVar[u][s] # None /\ sectionVar[u][s] = sectionVar[w][r]
      BY <2>1, <2>2, <2>3, SourcesAreNat
    <3> QED BY <3>1, <1>1, <2>1, ThreadsAgree
  <2>5. par[i] = Rows[i].ParentId /\ name[i] = NameOf(i)
    BY <2>1
  <2>6. name[i] = s \/ (name[i] = Unknown /\ NamesShort)
    BY <2>1, <2>2, <2>3, <2>5, NameOfNumber DEF NameOf
  <2>7. name[i] \in Int
    BY <2>1, <2>6 DEF Unknown
  <2>8. ASSUME s # 0 PROVE par[i] \in 0..i - 1 /\ <<par[i], enclosing[s]>> \in R
    <3>1. par[i] \in 0..i - 1 /\ par[i] = sectionVar[w][enclosing[s]]
      BY <2>3, <2>4, <2>5, <2>8
    <3>2. enclosing[s] \in 0..n
      BY <2>1, <2>8, <1>1 DEF Outline
    <3>3. par[i] \in 0..NumNamed - 1
      BY <3>1, <2>1, <1>3
    <3>4. par[i] \in Sources
      BY <3>3, <1>4
    <3>5. PICK q : q = par[i]
      OBVIOUS
    <3>6. <<q, enclosing[s]>> \in Sources \X (0..n)
      BY <3>2, <3>4, <3>5
    <3>7. sectionVar[w][enclosing[s]] = q /\ q \in 0..NumNamed - 1
      BY <3>1, <3>3, <3>5
    <3>8. <<q, enclosing[s]>> \in LinesOf(n)
      BY <3>6, <3>7 DEF LinesOf
    <3> QED BY <3>1, <3>5, <3>8
  <2> QED BY <2>1, <2>3, <2>4, <2>5, <2>6, <2>7, <2>8
<1> HIDE DEF R
<1>8. Corresponds(R, NumNamed, 0..n, enclosing, par, name, NamesShort)
  BY <1>7, Zenon DEF Corresponds
<1> QED BY <1>3, <1>6, <1>8 DEF R

\* The line with the number a thread has for a section names the sections around it, if the
\* table has that line.
LEMMA LinesNamePlaces ==
  ASSUME NEW n, TablesInv(n), \A t \in Thread : outstanding[t] = None,
         NEW u \in Thread, NEW s \in 0..n, NEW id \in Sources, sectionVar[u][s] = id,
         id < counted["sections"]
  PROVE  \/ id \in 0..NumNamed - 1 /\ Alike(Lines[id], Around[s], NamesShort)
         \/ id \notin 0..NumNamed - 1 /\ counted["sections"] > NumRows
<1> DEFINE par == [i \in 0..NumNamed - 1 |-> Rows[i].ParentId]
           name == [i \in 0..NumNamed - 1 |-> NameOf(i)]
<1>1. /\ NumNamed \in Nat
      /\ \A i \in 0..NumNamed - 1 : Rows[i].ParentId \in Int /\ Rows[i].ParentId < i
      /\ Corresponds(LinesOf(n), NumNamed, 0..n, enclosing, par, name, NamesShort)
  BY RowsCorrespond
<1>2. Outline(enclosing, n) /\ CountedTypes
  BY DEF TablesInv, CountedInv, SectionsInvOf
<1>3. 0..n \subseteq Int
  BY <1>2 DEF Outline
<1>4. TracesOf(Lines, NumNamed, par, name)
  <2>1. Lines = [i \in 0..NumNamed - 1 |-> LineOf(Lines, Rows[i].ParentId, NameOf(i))]
    BY <1>1, LinesAre
  <2>2. \A i \in 0..NumNamed - 1 : par[i] = Rows[i].ParentId /\ name[i] = NameOf(i)
    OBVIOUS
  <2> HIDE DEF par, name
  <2> QED BY <2>1, <2>2 DEF TracesOf
<1>5. ChainsOf(Around, 0..n, enclosing)
  BY <1>2, AroundIs
<1> HIDE DEF par, name
<1>6. \A i, k : <<i, k>> \in LinesOf(n) => Alike(Lines[i], Around[k], NamesShort)
  BY <1>1, <1>3, <1>4, <1>5, TracesAlike
<1>7. CASE id \in 0..NumNamed - 1
  <2>1. <<id, s>> \in LinesOf(n)
    BY <1>7 DEF LinesOf
  <2> QED BY <2>1, <1>6, <1>7
<1>8. CASE id \notin 0..NumNamed - 1
  <2>1. counted["sections"] \in Nat /\ id \in Nat
    BY <1>2, SourcesAreNat DEF CountedTypes, Tables
  <2> QED BY <2>1, <1>8, SectionsAssumption DEF NumNamed, Smaller
<1> QED BY <1>7, <1>8

-----------------------------------------------------------------------------
(* Where the asserts stand. *)

\* The section a row was written with is the one its thread has numbered for its place.
Placed(n, m) ==
  \/ m.place = None /\ m.section = -1
  \/ /\ m.thread \in Thread /\ m.place \in 0..n /\ m.section \in Sources
     /\ m.section = sectionVar[m.thread][m.place]
     /\ m.section < counted["sections"]

\* Every row that was counted is a thread's to record, or has its section.
RowsPlaced(n) ==
  /\ \A t \in Thread : asserting[t] # None => InBody(t)
  /\ \A k \in RowsTaken :
       (\E t \in Thread : asserting[t] # None /\ asserting[t].row = k) \/ Placed(n, meta[k])

\* What is reported of a row.
RowShown(m, lines) ==
  IF m.place = None THEN lines = <<>>
  ELSE \/ lines = <<>> /\ counted["sections"] > NumRows
       \/ Alike(lines, Around[m.place], NamesShort)

ReportMade ==
  report # None =>
    Over /\ DOMAIN report = RowsTaken /\ \A k \in RowsTaken : RowShown(meta[k], report[k])

PlacesInv(n) == TablesInv(n) /\ PrintInv /\ RowsPlaced(n) /\ ReportMade

\* A step of one thread does not move another, nor write for it.
LEMMA OthersStay ==
  ASSUME NEW t \in Thread, NEW u \in Thread, u # t, Mapped(at), Mapped(outstanding), Step(t)
  PROVE  at'[u] = at[u] /\ outstanding'[u] = outstanding[u]
<1>1. DOMAIN at = Thread /\ DOMAIN outstanding = Thread
  BY DEF Mapped
<1>2. ASSUME NEW place, at' = [at EXCEPT ![t] = place] PROVE at'[u] = at[u]
  BY <1>1, <1>2
<1>3. ASSUME NEW table, NEW id, NEW row, AddGlobal(t, table, id, row)
      PROVE  outstanding'[u] = outstanding[u]
  BY <1>1, <1>3 DEF AddGlobal
<1>4. ASSUME NEW s, NEW id, NEW parent, OnFirstEnter(t, s, id, parent)
      PROVE  outstanding'[u] = outstanding[u]
  BY <1>3, <1>4 DEF OnFirstEnter
<1>5. ASSUME NEW sc, NEW place, NEW leaves, Goes(t, sc, place, leaves) PROVE at'[u] = at[u]
  BY <1>2, <1>5 DEF Goes
<1>6. ASSUME Store(t) PROVE at'[u] = at[u] /\ outstanding'[u] = outstanding[u]
  BY <1>1, <1>6 DEF Store
<1>7. ASSUME Scenario(t) PROVE at'[u] = at[u] /\ outstanding'[u] = outstanding[u]
  <2>1. at'[u] = at[u]
    BY <1>2, <1>7 DEF Scenario
  <2>2. AddGlobal(t, "strings", StringId(t, 0), 0)
    BY <1>7 DEF Scenario
  <2> QED BY <2>1, <2>2, <1>3
<1>8. ASSUME NEW s, Section(t, s) PROVE at'[u] = at[u] /\ outstanding'[u] = outstanding[u]
  <2>1. at'[u] = at[u]
    BY <1>2, <1>8 DEF Section
  <2>2. AddGlobal(t, "strings", StringId(t, s), s)
    BY <1>8 DEF Section
  <2> QED BY <2>1, <2>2, <1>3
<1>9. ASSUME LoopScenario(t) PROVE at'[u] = at[u] /\ outstanding'[u] = outstanding[u]
  <2>1. OnFirstEnter(t, 0, 0, -1) /\ \E sc, place, leaves : Goes(t, sc, place, leaves)
    BY <1>9 DEF LoopScenario
  <2> QED BY <2>1, <1>4, <1>5
<1>10. ASSUME NEW s, EnterSection(t, s) \/ PutOff(t, s) \/ SkipCompleted(t, s) \/ LeaveSection(t, s)
       PROVE  at'[u] = at[u] /\ outstanding'[u] = outstanding[u]
  <2>1. PICK id : Tries(t, s, id) /\ \E sc, place, leaves : Goes(t, sc, place, leaves)
    BY <1>10 DEF EnterSection, PutOff, SkipCompleted, LeaveSection
  <2>2. OnFirstEnter(t, s, id, Scratch[t].CurrentSectionID)
    BY <2>1 DEF Tries
  <2> QED BY <2>1, <2>2, <1>4, <1>5
<1> QED BY <1>6, <1>7, <1>8, <1>9, <1>10 DEF Step

\* A thread whose own code runs in the body of a section has the number of that section as
\* its current one.
LEMMA PlaceNumbered ==
  ASSUME NEW n, TablesInv(n), NEW t \in Thread, InBody(t)
  PROVE  IF Place(t) = None THEN GetSectionID(t) = -1
         ELSE /\ Place(t) \in 0..n /\ GetSectionID(t) \in Sources
              /\ GetSectionID(t) = sectionVar[t][Place(t)]
              /\ GetSectionID(t) < counted["sections"]
<1> DEFINE sv == sectionVar[t]
           sc == Scratch[t]
           e == enclosing
<1>1. /\ Outline(e, n) /\ ThreadInv(e, n, at[t], sv, sc, visited[t]) /\ ThreadCounted(t)
      /\ \A s \in 0..n : s # None
  <2>1. \A s \in 0..n : s \in Int
    OBVIOUS
  <2> QED BY <2>1, SectionsAssumption DEF TablesInv, CountedInv, SectionsInvOf
<1>2. CASE at[t] = <<"reach", 0>>
  <2>1. Place(t) = None /\ sc.ParentID[0] = 0
    BY <1>1, <1>2 DEF Place, ThreadCounted, ScenarioNoted
  <2> QED BY <2>1 DEF GetSectionID
<1>3. CASE at[t] # <<"reach", 0>>
  <2>1. at[t][1] \in {"reach", "again"}
    BY DEF InBody
  <2>2. PICK c \in 0..n, x \in Nat :
          Arrives(e, n, at[t], c, x) /\ InPassAt(e, n, sv, sc, visited[t], c, x)
    <3> HIDE DEF sv, sc, e
    <3>1. at[t] # <<"try", 0>> /\ at[t] # <<"end", 0>>
      BY <2>1
    <3>2. \A c \in 0..n, x \in Nat : ~Tried(e, n, sv, at[t], c, x)
      BY <2>1 DEF Tried
    <3> QED BY <3>1, <3>2, <1>1, <1>3 DEF ThreadInv
  <2>3. Place(t) = c
    <3>1. CASE at[t] = <<"again", c>>
      BY <3>1 DEF Place
    <3>2. CASE x \in 1..n /\ e[x] = c /\ at[t] = <<"reach", x>>
      BY <3>2, <1>3 DEF Place
    <3> QED BY <3>1, <3>2, <2>2 DEF Arrives
  <2>4. sv[c] \in Sources /\ sc.CurrentSectionID = sv[c] /\ sc.RunState[sv[c]] \in Running
    BY <2>2, CurrentNumbered
  <2>5. sv[c] < counted["sections"]
    BY <2>4, <1>1 DEF ThreadCounted, Running
  <2>6. GetSectionID(t) = sv[c]
    BY <2>4, <1>1, <1>3 DEF GetSectionID, ThreadCounted, ScenarioNoted
  <2> QED BY <2>3, <2>4, <2>5, <2>6, <1>1
<1> QED BY <1>2, <1>3

\* What was written of a row stays right.
LEMMA PlacedStays ==
  ASSUME NEW n, n \in Sources, NumbersKept, Counts, CountedTypes, CountedTypes',
         NEW m, Placed(n, m)
  PROVE  Placed(n, m)'
<1>1. CASE m.place = None /\ m.section = -1
  BY <1>1 DEF Placed
<1>2. CASE ~(m.place = None /\ m.section = -1)
  <2>1. /\ m.thread \in Thread /\ m.place \in 0..n /\ m.section \in Sources
        /\ m.section = sectionVar[m.thread][m.place] /\ m.section < counted["sections"]
    BY <1>2 DEF Placed
  <2>2. m.place \in Sources /\ m.section # None /\ m.section \in Nat
    BY <2>1, SourcesAreNat
  <2>3. m.section = sectionVar'[m.thread][m.place]
    BY <2>1, <2>2 DEF NumbersKept
  <2>4. m.section < counted'["sections"]
    BY <2>1, <2>2 DEF Counts, CountedTypes, Tables
  <2> QED BY <2>1, <2>3, <2>4 DEF Placed
<1> QED BY <1>1, <1>2

\* When every thread is at its end none takes a step.
LEMMA OverIsOver ==
  ASSUME NEW n, TablesInv(n), Over, NEW t \in Thread
  PROVE  ~ThreadStep(t) /\ outstanding[t] = None
<1>1. at[t][1] = "end" /\ asserting[t] = None /\ outstanding[t] = None
  BY DEF Over, TablesInv, CountedInv, ThreadCounted
<1>2. \A s : at[t] # <<"reach", s>> /\ at[t] # <<"try", s>> /\ at[t] # <<"again", s>>
  BY <1>1
<1>3. ~InBody(t)
  BY <1>1 DEF InBody
<1>4. ~Step(t)
  <2>1. ~Store(t)
    BY <1>1 DEF Store, StoreString, StoreSection
  <2>2. \A s : ~AtMacro(t, s) /\ ~Evaluates(t, s)
    BY <1>2 DEF AtMacro, Evaluates
  <2>3. ~Scenario(t) /\ ~LoopScenario(t) /\ \A s : ~Section(t, s)
    BY <2>2 DEF Scenario, LoopScenario, Section
  <2>4. \A s : ~EnterSection(t, s) /\ ~PutOff(t, s) /\ ~SkipCompleted(t, s) /\ ~LeaveSection(t, s)
    BY <2>2 DEF EnterSection, PutOff, SkipCompleted, LeaveSection, Tries
  <2> QED BY <2>1, <2>3, <2>4 DEF Step
<1>5. ~Runs(t) /\ ~Success(t) /\ ~AddError(t) /\ \A args : ~AddAssert(t, args)
  BY <1>1, <1>3, <1>4 DEF Runs, Success, AddError, AddAssert, CanAssert
<1> QED BY <1>1, <1>5 DEF ThreadStep

-----------------------------------------------------------------------------
(* The steps of the dispatch. *)

LEMMA TablesUnchanged ==
  ASSUME NEW n, TablesInv(n), UNCHANGED vars
  PROVE  TablesInv(n)'
<1>1. SectionsInvOf(n)'
  BY SectionsStay DEF TablesInv, CountedInv
<1>2. CountedTypes' /\ \A t \in Thread : ThreadCounted(t)'
  BY DEF TablesInv, CountedInv, CountedTypes, ThreadCounted, NumbersAlike, ScenarioNoted, Mapped, vars
<1>3. StoredInv(n)'
  BY DEF TablesInv, StoredInv, NameStored, WriteRight, StringRight, SectionRight, Pending, vars
<1> QED BY <1>1, <1>2, <1>3 DEF TablesInv, CountedInv

LEMMA PlacedUnchanged ==
  ASSUME NEW n, NEW m, Placed(n, m), UNCHANGED vars
  PROVE  Placed(n, m)'
BY DEF Placed, vars

LEMMA ShownUnchanged ==
  ASSUME NEW m, NEW lines, RowShown(m, lines), UNCHANGED vars
  PROVE  RowShown(m, lines)'
<1>1. counted' = counted /\ enclosing' = enclosing
  BY DEF vars
<1> DEFINE IsAround(g, e) ==
      g = [s \in 0..Len(e) |-> IF s = 0 THEN <<0>> ELSE Append(g[e[s]], s)]
           AroundIn(e) == CHOOSE g : IsAround(g, e)
<1>2. Around = AroundIn(enclosing)
  BY DEF Around
<1>3. Around' = AroundIn(enclosing')
  BY DEF Around
<1> HIDE DEF AroundIn
<1>4. Around' = Around
  BY <1>1, <1>2, <1>3
<1> QED BY <1>1, <1>4 DEF RowShown, NamesShort

\* While the report is not made, it need not be right.
LEMMA NoReportYet ==
  ASSUME NEW n, PlacesInv(n), NEW t \in Thread, ThreadStep(t)
  PROVE  report = None /\ report' = None /\ ReportMade'
<1>1. report = None
  BY OverIsOver DEF PlacesInv, ReportMade
<1>2. report' = report
  BY DEF ThreadStep, Runs, Success, AddAssert, AddError, assertVars
<1> QED BY <1>1, <1>2 DEF ReportMade

LEMMA RunningPlaces ==
  ASSUME NEW n, PlacesInv(n), NEW t \in Thread, Runs(t)
  PROVE  PlacesInv(n)'
<1>1. /\ TablesInv(n) /\ PrintInv /\ RowsPlaced(n) /\ n \in Sources
      /\ CountedTypes /\ Mapped(at) /\ Mapped(outstanding)
  BY DEF PlacesInv, TablesInv, CountedInv, SectionsInvOf, CountedTypes
<1>2. /\ asserting[t] = None /\ Step(t)
      /\ UNCHANGED <<capacity, tally, asserting, meta, data, report, printing>>
  BY DEF Runs, assertVars
<1>3. TablesInv(n)' /\ Keeps
  BY <1>1, <1>2, TablesStep
<1>4. PrintInv'
  <2>1. [DispatchNext]_dispatchVars
    BY DEF DispatchNext, ThreadStep
  <2> QED BY <1>1, <2>1, PrintKept
<1>5. RowsTaken' = RowsTaken
  BY <1>2 DEF RowsTaken
<1>6. ASSUME NEW u \in Thread, asserting'[u] # None PROVE InBody(u)'
  <2>1. asserting[u] # None /\ u # t
    BY <1>2, <1>6
  <2>2. InBody(u)
    BY <1>1, <2>1 DEF RowsPlaced
  <2>3. at'[u] = at[u] /\ outstanding'[u] = outstanding[u]
    BY <1>1, <1>2, <2>1, OthersStay
  <2> QED BY <2>2, <2>3 DEF InBody
<1>7. ASSUME NEW k \in RowsTaken, ~\E u \in Thread : asserting'[u] # None /\ asserting'[u].row = k
      PROVE  Placed(n, meta[k])'
  <2>1. PICK m : m = meta[k]
    OBVIOUS
  <2>2. ~\E u \in Thread : asserting[u] # None /\ asserting[u].row = k
    BY <1>2, <1>7
  <2>3. Placed(n, m)
    BY <1>1, <2>1, <2>2 DEF RowsPlaced
  <2>4. NumbersKept /\ Counts /\ CountedTypes'
    BY <1>3 DEF Keeps, TablesInv, CountedInv
  <2>5. Placed(n, m)'
    BY <1>1, <2>3, <2>4, PlacedStays
  <2> QED BY <2>1, <2>5, <1>2
<1>8. RowsPlaced(n)'
  BY <1>5, <1>6, <1>7 DEF RowsPlaced
<1>9. ReportMade'
  BY NoReportYet DEF ThreadStep
<1> QED BY <1>3, <1>4, <1>8, <1>9 DEF PlacesInv

LEMMA CountingPlaces ==
  ASSUME NEW n, PlacesInv(n), NEW t \in Thread,
         Success(t) \/ \E args \in Arguments : AddAssert(t, args)
  PROVE  PlacesInv(n)'
<1>1. /\ TablesInv(n) /\ PrintInv /\ RowsPlaced(n)
      /\ UNCHANGED vars /\ UNCHANGED <<capacity, meta>> /\ InBody(t)
  BY DEF PlacesInv, Success, AddAssert, CanAssert
<1>2. TablesInv(n)'
  BY <1>1, TablesUnchanged
<1>3. PrintInv' /\ ReportMade'
  <2>1. ThreadStep(t) /\ [DispatchNext]_dispatchVars
    BY DEF DispatchNext, ThreadStep
  <2> QED BY <1>1, <2>1, PrintKept, NoReportYet
<1>4. \A u \in Thread : InBody(u) => InBody(u)'
  BY <1>1 DEF InBody, vars
<1>5. \A k : k \in DOMAIN meta /\ Placed(n, meta[k]) => Placed(n, meta[k])'
  <2> SUFFICES ASSUME NEW k, k \in DOMAIN meta, Placed(n, meta[k]) PROVE Placed(n, meta[k])'
    OBVIOUS
  <2>1. PICK m : m = meta[k]
    OBVIOUS
  <2>2. Placed(n, m)'
    BY <2>1, <1>1, PlacedUnchanged
  <2> QED BY <2>1, <2>2, <1>1
<1>6. /\ DOMAIN meta = 0..capacity.rows - 1 /\ DOMAIN asserting = Thread
      /\ tally.failed \in Nat /\ capacity.rows \in Nat
      /\ tally \in [passed : Nat, failed : Nat, bytes : Nat]
  BY <1>1, AssertsAssumption DEF PrintInv, Packed, RowsCounted
<1>7. RowsTaken \subseteq DOMAIN meta
  BY <1>6 DEF RowsTaken, Smaller
<1>8. CASE Success(t)
  <2>1. tally'.failed = tally.failed /\ asserting' = asserting
    BY <1>6, <1>8 DEF Success
  <2>2. RowsTaken' = RowsTaken
    BY <2>1, <1>1 DEF RowsTaken
  <2>3. RowsPlaced(n)'
    BY <2>1, <2>2, <1>1, <1>4, <1>5, <1>7 DEF RowsPlaced
  <2> QED BY <2>3, <1>2, <1>3 DEF PlacesInv
<1>9. ASSUME NEW args \in Arguments, AddAssert(t, args) PROVE PlacesInv(n)'
  <2>1. /\ tally'.failed = tally.failed + 1 /\ asserting[t] = None
        /\ asserting' = [asserting EXCEPT ![t] =
             IF tally.failed < capacity.rows THEN [row |-> tally.failed, args |-> args] ELSE None]
    BY <1>6, <1>9 DEF AddAssert, CanAssert
  <2>2. \A k : k \in RowsTaken' <=> k \in RowsTaken \/ (k = tally.failed /\ k < capacity.rows)
    BY <1>1, <1>6, <2>1 DEF RowsTaken, Smaller
  <2>3. \A u \in Thread : u # t => asserting'[u] = asserting[u]
    BY <2>1, <1>6
  <2>4. \A u \in Thread : asserting'[u] # None => InBody(u)'
    BY <2>3, <1>1, <1>4 DEF RowsPlaced
  <2>5. ASSUME NEW k \in RowsTaken'
        PROVE  (\E u \in Thread : asserting'[u] # None /\ asserting'[u].row = k) \/ Placed(n, meta[k])'
    <3>1. CASE k = tally.failed /\ k < capacity.rows
      <4>1. asserting'[t] = [row |-> tally.failed, args |-> args]
        BY <2>1, <3>1, <1>6
      <4>2. asserting'[t] # None
        <5>1. [row |-> tally.failed, args |-> args] \in [row : Nat, args : Arguments]
          BY <1>6
        <5> QED BY <4>1, <5>1, AssertsAssumption
      <4>3. asserting'[t].row = k
        BY <4>1, <3>1
      <4> QED BY <4>2, <4>3
    <3>2. CASE k \in RowsTaken
      <4>1. CASE Placed(n, meta[k])
        BY <3>2, <4>1, <1>5, <1>7
      <4>2. CASE ~Placed(n, meta[k])
        <5>1. PICK u \in Thread : asserting[u] # None /\ asserting[u].row = k
          BY <3>2, <4>2, <1>1 DEF RowsPlaced
        <5>2. asserting'[u] = asserting[u]
          BY <5>1, <2>1, <2>3
        <5> QED BY <5>1, <5>2
      <4> QED BY <4>1, <4>2
    <3> QED BY <2>2, <3>1, <3>2
  <2>6. RowsPlaced(n)'
    BY <2>4, <2>5 DEF RowsPlaced
  <2> QED BY <2>6, <1>2, <1>3 DEF PlacesInv
<1> QED BY <1>8, <1>9

LEMMA RecordingPlaces ==
  ASSUME NEW n, PlacesInv(n), NEW t \in Thread, AddError(t)
  PROVE  PlacesInv(n)'
<1>1. /\ TablesInv(n) /\ PrintInv /\ RowsPlaced(n) /\ UNCHANGED vars /\ capacity' = capacity
      /\ asserting[t] # None /\ asserting' = [asserting EXCEPT ![t] = None]
  BY DEF PlacesInv, AddError
<1>2. TablesInv(n)'
  BY <1>1, TablesUnchanged
<1>3. PrintInv' /\ ReportMade'
  <2>1. ThreadStep(t) /\ [DispatchNext]_dispatchVars
    BY DEF DispatchNext, ThreadStep
  <2> QED BY <1>1, <2>1, PrintKept, NoReportYet
<1>4. \A u \in Thread : InBody(u) => InBody(u)'
  BY <1>1 DEF InBody, vars
<1>5. /\ DOMAIN meta = 0..capacity.rows - 1 /\ DOMAIN asserting = Thread
      /\ tally.failed \in Nat /\ capacity.rows \in Nat
      /\ asserting[t].row \in RowsTaken /\ tally'.failed = tally.failed
  BY <1>1, AssertsAssumption DEF PrintInv, Packed, RowsCounted, AddError, AddData, AddNoData
<1>6. RowsTaken' = RowsTaken /\ RowsTaken \subseteq DOMAIN meta
  BY <1>1, <1>5 DEF RowsTaken, Smaller
<1>7. PICK address, size : AddMeta(t, address, size)
  BY DEF AddError, AddData, AddNoData
<1>8. PICK r : r = asserting[t].row
  OBVIOUS
<1>9. PICK m : m = [thread |-> t, section |-> GetSectionID(t), address |-> address, size |-> size,
                    place |-> Place(t), args |-> asserting[t].args]
  OBVIOUS
<1>10. meta'[r] = m /\ \A k \in DOMAIN meta : k # r => meta'[k] = meta[k]
  <2>1. meta' = [meta EXCEPT ![r] = m]
    BY <1>7, <1>8, <1>9 DEF AddMeta
  <2> QED BY <2>1, <1>5, <1>6, <1>8
<1>11. Placed(n, m)
  <2>1. InBody(t)
    BY <1>1 DEF RowsPlaced
  <2>2. IF Place(t) = None THEN GetSectionID(t) = -1
        ELSE /\ Place(t) \in 0..n /\ GetSectionID(t) \in Sources
             /\ GetSectionID(t) = sectionVar[t][Place(t)]
             /\ GetSectionID(t) < counted["sections"]
    BY <1>1, <2>1, PlaceNumbered
  <2>3. m.thread = t /\ m.section = GetSectionID(t) /\ m.place = Place(t)
    BY <1>9
  <2> QED BY <2>2, <2>3 DEF Placed
<1>12. ASSUME NEW k \in RowsTaken
       PROVE  (\E u \in Thread : asserting'[u] # None /\ asserting'[u].row = k) \/ Placed(n, meta[k])'
  <2>1. CASE k = r
    <3>1. Placed(n, m)'
      BY <1>1, <1>11, PlacedUnchanged
    <3> QED BY <3>1, <2>1, <1>10
  <2>2. CASE k # r /\ Placed(n, meta[k])
    <3>1. PICK w : w = meta[k]
      OBVIOUS
    <3>2. Placed(n, w)'
      BY <2>2, <3>1, <1>1, PlacedUnchanged
    <3>3. meta'[k] = w
      BY <2>2, <3>1, <1>6, <1>10
    <3> QED BY <3>2, <3>3
  <2>3. CASE k # r /\ ~Placed(n, meta[k])
    <3>1. PICK u \in Thread : asserting[u] # None /\ asserting[u].row = k
      BY <2>3, <1>1 DEF RowsPlaced
    <3>2. u # t
      BY <3>1, <2>3, <1>8
    <3>3. asserting'[u] = asserting[u]
      BY <3>2, <1>1, <1>5
    <3> QED BY <3>1, <3>3
  <2> QED BY <2>1, <2>2, <2>3
<1>13. \A u \in Thread : asserting'[u] # None => InBody(u)'
  <2>1. \A u \in Thread : asserting'[u] # None => asserting[u] # None
    BY <1>1, <1>5
  <2> QED BY <2>1, <1>1, <1>4 DEF RowsPlaced
<1>14. RowsPlaced(n)'
  BY <1>6, <1>12, <1>13 DEF RowsPlaced
<1> QED BY <1>2, <1>3, <1>14 DEF PlacesInv

\* A step that leaves the asserts alone and makes no report, once there is one or not.
LEMMA PrintingPlaces ==
  ASSUME NEW n, PlacesInv(n), [DispatchNext]_dispatchVars,
         UNCHANGED <<vars, capacity, tally, asserting, meta, report>>
  PROVE  PlacesInv(n)'
<1>1. /\ TablesInv(n) /\ PrintInv /\ RowsPlaced(n) /\ ReportMade /\ UNCHANGED vars
      /\ UNCHANGED <<capacity, tally, asserting, meta, report>>
  BY DEF PlacesInv
<1>2. TablesInv(n)' /\ PrintInv'
  BY <1>1, TablesUnchanged, PrintKept
<1>3. RowsTaken' = RowsTaken
  BY <1>1 DEF RowsTaken
<1>4. \A k : Placed(n, meta[k]) => Placed(n, meta[k])'
  <2> SUFFICES ASSUME NEW k, Placed(n, meta[k]) PROVE Placed(n, meta[k])'
    OBVIOUS
  <2>1. PICK m : m = meta[k]
    OBVIOUS
  <2>2. Placed(n, m)'
    BY <2>1, <1>1, PlacedUnchanged
  <2> QED BY <2>1, <2>2, <1>1
<1>5. \A u \in Thread : InBody(u) => InBody(u)'
  BY <1>1 DEF InBody, vars
<1>6. RowsPlaced(n)'
  BY <1>1, <1>3, <1>4, <1>5 DEF RowsPlaced
<1>7. ASSUME report' # None PROVE Over' /\ DOMAIN report' = RowsTaken'
  BY <1>1, <1>3, <1>7 DEF ReportMade, Over, vars
<1>8. ASSUME report' # None, NEW k \in RowsTaken' PROVE RowShown(meta[k], report[k])'
  <2>1. PICK m, lines : m = meta[k] /\ lines = report[k]
    OBVIOUS
  <2>2. RowShown(m, lines)
    BY <2>1, <1>1, <1>3, <1>8 DEF ReportMade
  <2>3. RowShown(m, lines)'
    BY <2>2, <1>1, ShownUnchanged
  <2> QED BY <2>1, <2>3, <1>1
<1>9. ReportMade'
  BY <1>7, <1>8 DEF ReportMade
<1> QED BY <1>2, <1>6, <1>9 DEF PlacesInv

\* The report is made when all threads are done, so the tables are complete.
LEMMA ReportingPlaces ==
  ASSUME NEW n, PlacesInv(n), ProcessTestDataBuffer
  PROVE  PlacesInv(n)'
<1>1. /\ TablesInv(n) /\ PrintInv /\ RowsPlaced(n) /\ UNCHANGED vars /\ Over
      /\ UNCHANGED <<capacity, tally, asserting, meta>>
      /\ report' = [k \in RowsTaken |-> Path(meta[k].section)]
      /\ \A t \in Thread : asserting[t] = None
  BY DEF PlacesInv, ProcessTestDataBuffer, Over, RowsTaken
<1>2. TablesInv(n)' /\ PrintInv'
  <2>1. [DispatchNext]_dispatchVars
    BY DEF DispatchNext
  <2> QED BY <1>1, <2>1, TablesUnchanged, PrintKept
<1>3. RowsTaken' = RowsTaken
  BY <1>1 DEF RowsTaken
<1>4. \A t \in Thread : outstanding[t] = None
  BY <1>1, OverIsOver
<1>5. ASSUME NEW k \in RowsTaken PROVE Placed(n, meta[k])
  BY <1>1, <1>5 DEF RowsPlaced
<1>6. ASSUME NEW k \in RowsTaken PROVE RowShown(meta[k], Path(meta[k].section))
  <2> DEFINE m == meta[k]
  <2>1. CASE m.place = None /\ m.section = -1
    <3>1. -1 \notin 0..NumNamed - 1
      OBVIOUS
    <3>2. Path(m.section) = <<>>
      BY <2>1, <3>1 DEF Path
    <3> QED BY <2>1, <3>2 DEF RowShown
  <2>2. CASE ~(m.place = None /\ m.section = -1)
    <3>1. /\ m.thread \in Thread /\ m.place \in 0..n /\ m.section \in Sources
          /\ sectionVar[m.thread][m.place] = m.section /\ m.section < counted["sections"]
      BY <2>2, <1>5 DEF Placed
    <3>2. \/ m.section \in 0..NumNamed - 1 /\ Alike(Lines[m.section], Around[m.place], NamesShort)
          \/ m.section \notin 0..NumNamed - 1 /\ counted["sections"] > NumRows
      BY <3>1, <1>1, <1>4, LinesNamePlaces
    <3>3. m.place # None
      <4>1. m.place \in Int
        BY <3>1
      <4> QED BY <4>1, SectionsAssumption
    <3> QED BY <3>2, <3>3, Zenon DEF RowShown, Path
  <2> QED BY <2>1, <2>2
<1>7. ASSUME NEW k \in RowsTaken' PROVE RowShown(meta[k], report[k])'
  <2>1. PICK m, lines : m = meta[k] /\ lines = Path(meta[k].section)
    OBVIOUS
  <2>2. RowShown(m, lines)
    BY <2>1, <1>3, <1>6, <1>7
  <2>3. RowShown(m, lines)'
    BY <2>2, <1>1, ShownUnchanged
  <2>4. meta'[k] = m /\ report'[k] = lines
    BY <2>1, <1>1, <1>3, <1>7
  <2> QED BY <2>3, <2>4
<1>8. ReportMade'
  <2>1. Over' /\ DOMAIN report' = RowsTaken'
    BY <1>1, <1>3 DEF Over, vars
  <2> QED BY <2>1, <1>7 DEF ReportMade
<1>9. RowsPlaced(n)'
  <2>1. \A t \in Thread : asserting'[t] = None
    BY <1>1
  <2>2. ASSUME NEW k \in RowsTaken' PROVE Placed(n, meta[k])'
    <3>1. PICK m : m = meta[k]
      OBVIOUS
    <3>2. Placed(n, m)
      BY <3>1, <1>3, <1>5, <2>2
    <3>3. Placed(n, m)'
      BY <3>2, <1>1, PlacedUnchanged
    <3> QED BY <3>1, <3>3, <1>1
  <2> QED BY <2>1, <2>2 DEF RowsPlaced
<1> QED BY <1>2, <1>8, <1>9 DEF PlacesInv

LEMMA PlacesInitially ==
  ASSUME DispatchInit
  PROVE  \E n \in Nat : PlacesInv(n)
<1>1. /\ Init /\ report = None /\ asserting = [t \in Thread |-> None] /\ tally.failed = 0
      /\ capacity \in Capacity
  BY DEF DispatchInit
<1>2. PICK n \in Nat : SectionsInvOf(n)
  BY <1>1, SectionsInvInitially DEF SectionsInv
<1>3. /\ counted = [c \in Tables |-> 0] /\ outstanding = [t \in Thread |-> None]
      /\ Strings = [id \in Sources |-> None] /\ Rows = [id \in Sources |-> None]
      /\ at = [t \in Thread |-> <<"reach", 0>>]
      /\ sectionVar = [t \in Thread |-> [s \in Sources |-> None]] /\ stringVar = sectionVar
  BY <1>1 DEF Init, Tables
<1>4. \A t \in Thread :
        /\ Scratch[t].NextStringID = 0 /\ Scratch[t].NextSectionID = 0
        /\ \A id \in Sources : Scratch[t].ParentID[id] = 0 /\ Scratch[t].RunState[id] = "NeverEntered"
  BY <1>1 DEF Init
<1>5. CountedTypes
  <2>1. counted \in [Tables -> Nat] /\ counted["sections"] = 0
    BY <1>3 DEF Tables
  <2>2. Mapped(outstanding)
    BY <1>3 DEF Mapped
  <2>3. 0 <= MaxSections + 1
    BY SectionsAssumption
  <2> QED BY <2>1, <2>2, <2>3 DEF CountedTypes
<1>6. ASSUME NEW t \in Thread PROVE ThreadCounted(t)
  <2>1. counted["strings"] = 0 /\ at[t] = <<"reach", 0>> /\ outstanding[t] = None
        /\ stringVar[t] = sectionVar[t]
    BY <1>3 DEF Tables
  <2>2. at[t][1] # "end"
    BY <2>1
  <2>3. NumbersAlike(t)
    BY <2>1, <1>4 DEF NumbersAlike
  <2>4. ScenarioNoted(t)
    BY <2>1, <1>4, SourcesAreNat DEF ScenarioNoted
  <2>5. Scratch[t].NextStringID <= counted["strings"]
    BY <2>1, <1>4
  <2> QED BY <2>2, <2>3, <2>4, <2>5, <1>4, Zenon DEF ThreadCounted
<1>7. StoredInv(n)
  <2>1. counted["strings"] = 0 /\ counted["sections"] = 0
    BY <1>3 DEF Tables
  <2>2. \A id \in Sources : ~(id < 0)
    BY SourcesAreNat
  <2> QED BY <2>1, <2>2, <1>3 DEF StoredInv
<1>8. RowsTaken = {}
  <2>1. capacity.rows \in Nat
    BY <1>1, AssertsAssumption
  <2> QED BY <2>1, <1>1 DEF RowsTaken, Smaller
<1>9. RowsPlaced(n) /\ ReportMade
  BY <1>1, <1>8 DEF RowsPlaced, ReportMade
<1>10. PlacesInv(n)
  BY <1>2, <1>5, <1>6, <1>7, <1>9, PrintStarts DEF PlacesInv, TablesInv, CountedInv
<1> QED BY <1>10

\* What is shown of the rows is what the report is to be.
LEMMA ShownNamesPlaces ==
  ASSUME NEW n, PlacesInv(n)
  PROVE  ReportsNamePlaces
<1>1. SUFFICES ASSUME report # None
               PROVE  /\ Cardinality(DOMAIN report) = Smaller(tally.failed, capacity.rows)
                      /\ \A k \in DOMAIN report :
                           IF meta[k].place = None THEN report[k] = <<>>
                           ELSE \/ report[k] = <<>> /\ counted["sections"] > NumRows
                                \/ /\ Len(report[k]) = Len(Around[meta[k].place])
                                   /\ \A l \in DOMAIN report[k] :
                                        \/ report[k][l] = Around[meta[k].place][l]
                                        \/ /\ report[k][l] = Unknown
                                           /\ counted["strings"] > NumRows
                                              \/ counted["data"] >= StringRoom
  BY DEF ReportsNamePlaces
<1>2. DOMAIN report = RowsTaken /\ \A k \in RowsTaken : RowShown(meta[k], report[k])
  BY <1>1 DEF PlacesInv, ReportMade
<1>3. Smaller(tally.failed, capacity.rows) \in Nat
  BY AssertsAssumption DEF PlacesInv, PrintInv, Packed, Smaller
<1>4. Cardinality(RowsTaken) = Smaller(tally.failed, capacity.rows)
  <2> DEFINE m == Smaller(tally.failed, capacity.rows)
  <2>1. m \in Nat
    BY <1>3
  <2> HIDE DEF m
  <2>2. Cardinality(0..m - 1) = IF 0 > m - 1 THEN 0 ELSE (m - 1) - 0 + 1
    BY <2>1, FS_Interval
  <2>3. Cardinality(0..m - 1) = m
    BY <2>1, <2>2
  <2> QED BY <2>3 DEF m, RowsTaken
<1> QED BY <1>2, <1>4, Zenon DEF RowShown, Alike, NamesShort

\* However the threads interleave, in any test and with tables of any size: every failed
\* assert there was a row for is reported, with the names of the sections around the place it
\* stands in; a name is unknown or the lines are left out only if a table was too short.
THEOREM ReportsAlwaysNamePlaces == DispatchSpec => []ReportsNamePlaces
<1> DEFINE Inv == \E n \in Nat : PlacesInv(n)
<1>1. DispatchInit => Inv
  BY PlacesInitially
<1>2. Inv /\ [DispatchNext]_dispatchVars => Inv'
  <2> SUFFICES ASSUME NEW n \in Nat, PlacesInv(n), [DispatchNext]_dispatchVars PROVE PlacesInv(n)'
    OBVIOUS
  <2>1. CASE UNCHANGED dispatchVars \/ PrintEntry \/ PrintNext
    <3>1. UNCHANGED <<vars, capacity, tally, asserting, meta, report>>
      BY <2>1 DEF dispatchVars, assertVars, PrintEntry, PrintNext
    <3> QED BY <3>1, PrintingPlaces
  <2>2. CASE ProcessTestDataBuffer
    BY <2>2, ReportingPlaces
  <2>3. ASSUME NEW t \in Thread, ThreadStep(t) PROVE PlacesInv(n)'
    BY <2>3, RunningPlaces, CountingPlaces, RecordingPlaces DEF ThreadStep
  <2> QED BY <2>1, <2>2, <2>3 DEF DispatchNext
<1>3. Inv => ReportsNamePlaces
  BY ShownNamesPlaces
<1> HIDE DEF Inv
<1> QED BY <1>1, <1>2, <1>3, PTL DEF DispatchSpec

=============================================================================
