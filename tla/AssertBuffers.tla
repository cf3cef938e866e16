----------------------------- MODULE AssertBuffers -----------------------------
(***************************************************************************)
(* One dispatch of a test: its threads run through the sections and assert.  *)
(* A failed assert counts itself, reserves bytes for its values, writes them *)
(* and its row; the counters are shared, and everything written is read by    *)
(* the CPU when all threads are done, so a thread's writes are part of the    *)
(* step of the counter before them. The CPU then makes its report of the      *)
(* failed asserts and prints the values of each.                             *)
(***************************************************************************)
EXTENDS Sections, FiniteSets

CONSTANTS
  Arguments,   \* the arguments of asserts: one or two, each with size and align
  Capacity,    \* layouts of the test data buffer: rows and bytes for asserts
  MaxWork,     \* bound on the sections of the test and the asserts of a dispatch, together
  MaxAsserts,  \* bound on the asserts of a dispatch
  MaxScant,    \* bound on the sections of tests run in any layout but the largest
  MaxEntries   \* bound on the values printed for an assert

\* Alignments are those of the fundamental types. A 16-bit argument is compared with one
\* of its own size, an aligned size is a multiple of the alignment. None is no assert.
ASSUME AssertsAssumption ==
  /\ \A args \in Arguments :
       /\ args \in Seq([size : Nat, align : {2, 4, 8}])
       /\ Len(args) \in {1, 2}
       /\ \A k \in DOMAIN args : args[k].size % args[k].align = 0
       /\ Len(args) = 2 => args[1].align = args[2].align
       /\ Len(args) = 2 /\ args[1].align = 2 => args[1].size = args[2].size
  /\ \A c \in Capacity : c \in [rows : Nat, bytes : Nat] /\ c.bytes % 8 = 0
  /\ MaxWork \in Nat /\ MaxAsserts \in Nat /\ MaxScant \in Nat /\ MaxEntries \in Nat
  /\ None \notin [row : Nat, args : Arguments]

VARIABLES
  capacity,   \* Asserts.NumMeta and Asserts.SizeData
  tally,      \* the allocation buffer: NumSuccess, NumFails, AssertDataSize
  asserting,  \* per thread: the failed assert it has counted and not recorded
  meta,       \* the test data buffer: HLSLAssertMetaData by row
  data,       \* the test data buffer: headers and values of the asserts
  report,     \* what ProcessTestDataBuffer made of it, or None
  printing    \* the assert being printed, the place in its data, the values printed

assertVars == <<capacity, tally, asserting, meta, data, report, printing>>
dispatchVars == <<vars, assertVars>>

-----------------------------------------------------------------------------
(* The bytes of a failed assert: for each argument a header with size and        *)
(* alignment, then the value. Places are counted from the begin of the data.     *)

Aligned(n, a) == ((n + a - 1) \div a) * a

\* What is written: a header with size and alignment, or a value.
Header(arg) == <<arg.size, arg.align>>
Value == <<>>

\* Where the value is whose header is at h, and where the header after it. (Variant:
\* values are placed back to back.)
ValueAt(h, arg) == Aligned(h + 4, arg.align)
AfterPacked(h, arg) == ValueAt(h, arg) + arg.size
After(h, arg) == Aligned(ValueAt(h, arg) + arg.size, 4)

HeaderAt(start, args, k) == IF k = 1 THEN start ELSE After(start, args[1])

Written(start, args) ==
  UNION {{[at |-> HeaderAt(start, args, k), size |-> 4, holds |-> Header(args[k])],
          [at |-> ValueAt(HeaderAt(start, args, k), args[k]), size |-> args[k].size,
           holds |-> Value]} : k \in DOMAIN args}

\* The bytes AddAssertData reserves. (Variant: without the second header.)
ReservedShort(args) ==
  Aligned(Aligned(args[1].size + 4, args[1].align)
            + (IF Len(args) = 1 THEN 0 ELSE args[2].size), 8)
Reserved(args) ==
  Aligned(Aligned(args[1].size + 4, args[1].align)
            + (IF Len(args) = 1 THEN 0 ELSE Aligned(args[2].size + 4, args[2].align)), 8)

-----------------------------------------------------------------------------
(* Asserts. *)

\* A thread can assert wherever its own code runs: before the scenario, and anywhere
\* in the bodies.
InBody(t) == at[t][1] \in {"reach", "again"} /\ outstanding[t] = None
CanAssert(t) ==
  /\ InBody(t) /\ asserting[t] = None
  /\ tally.passed + tally.failed < MaxAsserts
  /\ Len(enclosing) + tally.passed + tally.failed < MaxWork

GetSectionID(t) ==
  IF Scratch[t].ParentID[0] = -1 THEN Scratch[t].CurrentSectionID ELSE -1

\* The section whose body control is in.
Place(t) == IF at[t] = <<"reach", 0>> THEN None
            ELSE IF at[t][1] = "again" THEN at[t][2] ELSE enclosing[at[t][2]]

Success(t) ==
  /\ CanAssert(t)
  /\ tally' = [tally EXCEPT !.passed = @ + 1]
  /\ UNCHANGED <<vars, capacity, asserting, meta, data, report, printing>>

\* AddAssert counts; without a row left that is all.
AddAssert(t, args) ==
  /\ CanAssert(t)
  /\ tally' = [tally EXCEPT !.failed = @ + 1]
  /\ asserting' = [asserting EXCEPT ![t] =
       IF tally.failed < capacity.rows THEN [row |-> tally.failed, args |-> args] ELSE None]
  /\ UNCHANGED <<vars, capacity, meta, data, report, printing>>

\* AddAssertMetaInfo, with an address and a size. (Variant: it writes the number of the
\* section it started last.)
AddMetaOfNext(t, address, size) ==
  meta' = [meta EXCEPT ![asserting[t].row] =
    [thread |-> t, section |-> Scratch[t].NextSectionID - 1, address |-> address, size |-> size,
     place |-> Place(t), args |-> asserting[t].args]]
AddMeta(t, address, size) ==
  meta' = [meta EXCEPT ![asserting[t].row] =
    [thread |-> t, section |-> GetSectionID(t), address |-> address, size |-> size,
     place |-> Place(t), args |-> asserting[t].args]]

\* AddAssertData and AddAssertMetaInfo. Bytes that are refused stay reserved.
AddData(t) ==
  LET size == Reserved(asserting[t].args)
  IN /\ capacity.bytes > 0
     /\ tally' = [tally EXCEPT !.bytes = @ + size]
     /\ IF tally.bytes + size < capacity.bytes
          THEN /\ data' = data \cup Written(tally.bytes, asserting[t].args)
               /\ AddMeta(t, tally.bytes, size)
          ELSE data' = data /\ AddMeta(t, 0, 0)

AddNoData(t) ==
  /\ capacity.bytes = 0
  /\ AddMeta(t, 0, 0)
  /\ UNCHANGED <<tally, data>>

AddError(t) ==
  /\ asserting[t] # None
  /\ AddData(t) \/ AddNoData(t)
  /\ asserting' = [asserting EXCEPT ![t] = None]
  /\ UNCHANGED <<vars, capacity, report, printing>>

Runs(t) ==
  /\ asserting[t] = None
  /\ Step(t)
  /\ UNCHANGED assertVars

-----------------------------------------------------------------------------
(* The CPU, when the dispatch is over. *)

Smaller(a, b) == IF a < b THEN a ELSE b

\* ProcessStrings stops at the first string without characters.
NumStrings == Smaller(counted["strings"], NumRows)
Names ==
  LET short == {k \in 0..NumStrings - 1 : Strings[k] = Unstored}
  IN 0..(IF short = {} THEN NumStrings ELSE Least(short)) - 1
NumNamed == Smaller(counted["sections"], NumRows)

\* The lines of the section printer: the scenario and the sections down to id. (Variant:
\* the parents are printed last.)
Unknown == -2
NameOf(id) == IF Rows[id].StringId \in Names THEN Strings[Rows[id].StringId] ELSE Unknown
LinesUp ==
  LET lines[id \in 0..NumNamed - 1] ==
        IF Rows[id].ParentId >= 0 THEN <<NameOf(id)>> \o lines[Rows[id].ParentId]
        ELSE <<NameOf(id)>>
  IN lines
Lines ==
  LET lines[id \in 0..NumNamed - 1] ==
        IF Rows[id].ParentId >= 0 THEN Append(lines[Rows[id].ParentId], NameOf(id))
        ELSE <<NameOf(id)>>
  IN lines

Path(id) == IF id \in 0..NumNamed - 1 THEN Lines[id] ELSE <<>>

Over == \A t \in Thread : at[t][1] = "end" /\ asserting[t] = None

\* ProcessTestDataBuffer: the rows that were recorded, with the lines they print.
ProcessTestDataBuffer ==
  /\ Over /\ report = None
  /\ report' = [k \in 0..Smaller(tally.failed, capacity.rows) - 1 |-> Path(meta[k].section)]
  /\ UNCHANGED <<vars, capacity, tally, asserting, meta, data, printing>>

\* A header is read where the last value ended, whatever is there: bytes nobody wrote
\* are zero. AlignedOffset of any number to zero is zero.
AlignedOffset(n, a) == IF a = 0 THEN 0 ELSE Aligned(n, a)

HeaderRead(address) ==
  IF \E i \in data : i.at = address /\ i.holds # Value
    THEN (CHOOSE i \in data : i.at = address /\ i.holds # Value).holds
    ELSE <<0, 0>>

Current == meta[printing.row]

\* (Variant: the header is not skipped before aligning.)
EntryUnskipped(from, header) == [at |-> AlignedOffset(from, header[2]), size |-> header[1]]
Entry(from, header) == [at |-> AlignedOffset(from + 4, header[2]), size |-> header[1]]

PrintEntry ==
  /\ report # None /\ printing.row \in DOMAIN report
  /\ printing.from < Current.size
  /\ Len(printing.entries) < MaxEntries
  /\ LET entry == Entry(printing.from, HeaderRead(Current.address + printing.from))
     IN printing' = [printing EXCEPT !.from = AlignedOffset(entry.at + entry.size, 4),
                                     !.entries = Append(@, entry)]
  /\ UNCHANGED <<vars, capacity, tally, asserting, meta, data, report>>

PrintNext ==
  /\ report # None /\ printing.row \in DOMAIN report
  /\ printing.from >= Current.size
  /\ printing' = [row |-> printing.row + 1, from |-> 0, entries |-> <<>>]
  /\ UNCHANGED <<vars, capacity, tally, asserting, meta, data, report>>

-----------------------------------------------------------------------------
DispatchInit ==
  /\ Init
  /\ capacity \in Capacity
  /\ Len(enclosing) > MaxScant => \A c \in Capacity : c.bytes <= capacity.bytes
  /\ tally = [passed |-> 0, failed |-> 0, bytes |-> 0]
  /\ asserting = [t \in Thread |-> None]
  /\ meta = [k \in 0..capacity.rows - 1 |-> None]
  /\ data = {}
  /\ report = None
  /\ printing = [row |-> 0, from |-> 0, entries |-> <<>>]

ThreadStep(t) ==
  \/ Runs(t)
  \/ Success(t)
  \/ \E args \in Arguments : AddAssert(t, args)
  \/ AddError(t)

DispatchNext ==
  \/ \E t \in Thread : ThreadStep(t)
  \/ ProcessTestDataBuffer
  \/ PrintEntry \/ PrintNext

DispatchSpec == DispatchInit /\ [][DispatchNext]_dispatchVars

\* A thread of a dispatch runs to its end: none waits for another.
DispatchFairSpec == DispatchSpec /\ \A t \in Thread : WF_dispatchVars(ThreadStep(t))

-----------------------------------------------------------------------------
(* Properties *)

\* What failed asserts write, headers and values of any size, stays inside the part of
\* the buffer that is theirs, and no two threads, nor two arguments, write the same byte.
Bytes(i) == i.at..i.at + i.size - 1

RecordsApart ==
  /\ \A i \in data : i.at + i.size <= capacity.bytes
  /\ \A i, j \in data : i # j => Bytes(i) \cap Bytes(j) = {}

\* The sections around place, from the scenario on.
Around ==
  LET chain[s \in 0..Len(enclosing)] ==
        IF s = 0 THEN <<0>> ELSE Append(chain[enclosing[s]], s)
  IN chain

\* The CPU reports every failed assert there was a row for, in the section it stands in:
\* the lines are the names of the sections around it, from the scenario on. A name is
\* unknown, or all are left out, only if a table was too short.
ReportsNamePlaces ==
  report # None =>
    /\ Cardinality(DOMAIN report) = Smaller(tally.failed, capacity.rows)
    /\ \A k \in DOMAIN report :
         LET place == meta[k].place
         IN IF place = None THEN report[k] = <<>>
            ELSE \/ report[k] = <<>> /\ counted["sections"] > NumRows
                 \/ /\ Len(report[k]) = Len(Around[place])
                    /\ \A l \in DOMAIN report[k] :
                         \/ report[k][l] = Around[place][l]
                         \/ /\ report[k][l] = Unknown
                            /\ counted["strings"] > NumRows \/ counted["data"] >= StringRoom

\* What is printed of an assert begins with its arguments, each read with the size and from
\* the place it was written.
PrintsArguments ==
  report # None /\ printing.row \in DOMAIN report =>
    LET args == Current.args
        start == Current.address
    IN /\ \A k \in DOMAIN printing.entries : k \in DOMAIN args =>
            printing.entries[k] =
              [at |-> ValueAt(HeaderAt(start, args, k), args[k]) - start, size |-> args[k].size]
       /\ Current.size > 0 /\ printing.from >= Current.size =>
            Len(printing.entries) >= Len(args)

\* Nothing but the arguments is printed.
PrintsOnlyArguments ==
  report # None /\ printing.row \in DOMAIN report =>
    Len(printing.entries) <= Len(Current.args)

=============================================================================
