------------------------------- MODULE Sections -------------------------------
(***************************************************************************)
(* SCENARIO and SECTION: every thread runs the body of the scenario again and *)
(* again, and in every pass enters the sections on the way to one leaf. What  *)
(* a thread remembers of earlier passes is in its scratch data. The threads   *)
(* share the tables that name the sections to the CPU: the first to meet a    *)
(* section, by a compare-and-exchange on a counter, writes its row.           *)
(***************************************************************************)
EXTENDS Integers, Sequences

CONSTANTS
  Thread,       \* the threads of the dispatch
  MaxSections,  \* bound on the SECTIONs of the test: less than NumSections (32)
  NumRows,      \* rows there are in each of the two tables
  StringRoom,   \* the room for the characters of the names, in names
  None          \* nothing: no number yet, no row written, no write outstanding

ASSUME SectionsAssumption ==
  /\ MaxSections \in 0..31 /\ NumRows \in Nat /\ StringRoom \in Nat
  /\ None \notin Int
  /\ None \notin [table : {"strings", "sections"}, id : Nat,
                  row : Nat \cup [ParentId : Int, StringId : Nat]]

VARIABLES
  enclosing,   \* the test: the section that encloses each section
  at,          \* per thread: where it is in the test
  Scratch,     \* per thread: PerThreadScratchData
  sectionVar,  \* per thread and section: its static section number
  stringVar,   \* per thread and section: its static string number
  counted,     \* the allocation buffer: NumStrings, NumSections, StringDataSize
  outstanding, \* per thread: the row it is about to write
  Strings,     \* the test data buffer: the sections named by the strings
  Rows,        \* the test data buffer: SectionInfoMetaData
  visited      \* history: per thread, the leaves whose bodies it has run

vars == <<enclosing, at, Scratch, sectionVar, stringVar, counted, outstanding,
          Strings, Rows, visited>>
shared == <<counted, outstanding, Strings, Rows>>

-----------------------------------------------------------------------------
(* The test as it is written. 0 is the scenario, the sections are numbered in the *)
(* order of the source.                                                           *)

Sources == 0..MaxSections

IsTest(e) ==
  \A s \in DOMAIN e : e[s] < s /\ \A r \in e[s] + 1..s - 1 : e[r] >= e[s]

Tests == {e \in UNION {[1..n -> 0..n] : n \in Sources} : IsTest(e)}

Inner(s) == {c \in DOMAIN enclosing : enclosing[c] = s}
IsLeaf(s) == Inner(s) = {}
Least(S) == CHOOSE s \in S : \A r \in S : s <= r

\* Control is at the macro of a section, or evaluates its while condition for the
\* first time in a pass, or again after its body.
Into(s) == IF IsLeaf(s) THEN <<"again", s>> ELSE <<"reach", Least(Inner(s))>>

Past(s) ==
  LET later == {c \in Inner(enclosing[s]) : c > s}
  IN IF later = {} THEN <<"again", enclosing[s]>> ELSE <<"reach", Least(later)>>

-----------------------------------------------------------------------------
(* The tables. *)

\* ShouldWriteGlobalData: whether the calling thread is the first with this number.
First(table, id) == counted[table] = id

\* The first thread with this number counts it, and writes row id if the table has it.
AddGlobal(t, table, id, row) ==
  /\ counted' = [counted EXCEPT ![table] = IF First(table, id) THEN id + 1 ELSE @]
  /\ outstanding' = [outstanding EXCEPT ![t] =
       IF First(table, id) /\ id < NumRows
         THEN [table |-> table, id |-> id, row |-> row] ELSE None]

\* The row of a string that found no room for its characters.
Unstored == -1

\* The write arrives. A string reserves room for its characters first; if there is
\* none its row says so.
StoreString(t) ==
  /\ outstanding[t] # None /\ outstanding[t].table = "strings"
  /\ Strings' = [Strings EXCEPT ![outstanding[t].id] =
       IF counted["data"] + 1 < StringRoom THEN outstanding[t].row ELSE Unstored]
  /\ counted' = [counted EXCEPT !["data"] = IF StringRoom > 0 THEN @ + 1 ELSE @]
  /\ Rows' = Rows

StoreSection(t) ==
  /\ outstanding[t] # None /\ outstanding[t].table = "sections"
  /\ Rows' = [Rows EXCEPT ![outstanding[t].id] = outstanding[t].row]
  /\ UNCHANGED <<Strings, counted>>

Store(t) ==
  /\ StoreString(t) \/ StoreSection(t)
  /\ outstanding' = [outstanding EXCEPT ![t] = None]
  /\ UNCHANGED <<enclosing, at, Scratch, sectionVar, stringVar, visited>>

-----------------------------------------------------------------------------
(* The macros. *)

AtMacro(t, s) == at[t] = <<"reach", s>> /\ outstanding[t] = None

\* The static string number of s, taken from the scratch data the first time.
StringId(t, s) == IF stringVar[t][s] = None THEN Scratch[t].NextStringID ELSE stringVar[t][s]
SectionId(t, s) == IF sectionVar[t][s] = None THEN Scratch[t].NextSectionID ELSE sectionVar[t][s]

\* SCENARIO up to its loop: names itself, then PerThreadScratchData::Init.
Scenario(t) ==
  /\ AtMacro(t, 0)
  /\ stringVar' = [stringVar EXCEPT ![t][0] = StringId(t, 0)]
  /\ AddGlobal(t, "strings", StringId(t, 0), 0)
  /\ Scratch' = [Scratch EXCEPT ![t].NextStringID = StringId(t, 0) + 1,
                                ![t].NextSectionID = 1,
                                ![t].ParentID[0] = -1]
  /\ sectionVar' = [sectionVar EXCEPT ![t][0] = 0]
  /\ at' = [at EXCEPT ![t] = <<"try", 0>>]
  /\ UNCHANGED <<enclosing, Strings, Rows, visited>>

\* SECTION up to its loop. The numbers are taken once, the name is offered every time.
Section(t, s) ==
  /\ AtMacro(t, s)
  /\ sectionVar' = [sectionVar EXCEPT ![t][s] = SectionId(t, s)]
  /\ stringVar' = [stringVar EXCEPT ![t][s] = StringId(t, s)]
  /\ AddGlobal(t, "strings", StringId(t, s), s)
  /\ Scratch' = [Scratch EXCEPT
       ![t].NextSectionID = IF sectionVar[t][s] = None THEN @ + 1 ELSE @,
       ![t].NextStringID = IF stringVar[t][s] = None THEN @ + 1 ELSE @]
  /\ at' = [at EXCEPT ![t] = <<"try", s>>]
  /\ UNCHANGED <<enclosing, Strings, Rows, visited>>

-----------------------------------------------------------------------------
(* The conditions of the loops. *)

Evaluates(t, s) == at[t] \in {<<"try", s>>, <<"again", s>>} /\ outstanding[t] = None

\* OnFirstEntryOfSectionFunctor, called by a condition that meets the section with
\* number id for the first time.
OnFirstEnter(t, s, id, parent) ==
  IF Scratch[t].RunState[id] = "NeverEntered"
    THEN AddGlobal(t, "sections", id, [ParentId |-> parent, StringId |-> stringVar[t][s]])
    ELSE UNCHANGED <<counted, outstanding>>

Goes(t, scratch, place, leaves) ==
  /\ Scratch' = [Scratch EXCEPT ![t] = scratch]
  /\ at' = [at EXCEPT ![t] = place]
  /\ visited' = [visited EXCEPT ![t] = @ \o leaves]
  /\ UNCHANGED <<enclosing, sectionVar, stringVar, Strings, Rows>>

LeafOf(s) == IF IsLeaf(s) THEN <<s>> ELSE <<>>

\* TryLoopScenario begins a pass. (Variant: a scenario that is run again is not set
\* to running.)
LoopedUnset(sc) ==
  [sc EXCEPT !.CurrentSectionID = 0, !.RunState[0] = IF @ = "NeverEntered" THEN "Running" ELSE @]
Looped(sc) == [sc EXCEPT !.CurrentSectionID = 0, !.RunState[0] = "Running"]
Loops(state) == state \in {"NeverEntered", "NeedsRun", "RunningNeedsRerun"}

LoopScenario(t) ==
  /\ Evaluates(t, 0)
  /\ OnFirstEnter(t, 0, 0, -1)
  /\ LET sc == Scratch[t]
     IN IF Loops(sc.RunState[0])
          THEN Goes(t, Looped(sc), Into(0), LeafOf(0))
          ELSE Goes(t, sc, <<"end", 0>>, <<>>)

\* The scratch data after TryEnterSection has noted a section it had never met.
Met(t, id) ==
  LET sc == Scratch[t]
  IN IF sc.RunState[id] = "NeverEntered"
       THEN [sc EXCEPT !.ParentID[id] = sc.CurrentSectionID, !.RunState[id] = "NeedsRun"]
       ELSE sc

\* TryEnterSection of section s by a thread whose number for it is id.
Tries(t, s, id) ==
  /\ Evaluates(t, s) /\ s # 0
  /\ id = sectionVar[t][s]
  /\ OnFirstEnter(t, s, id, Scratch[t].CurrentSectionID)

Running == {"Running", "RunningEnteredSubsection", "RunningNeedsRerun"}

\* It is this section's turn: nothing else was entered in the section around it.
OurTurn(sc) == sc.RunState[sc.CurrentSectionID] = "Running"

EnterSection(t, s) == \E id \in Sources :
  /\ Tries(t, s, id)
  /\ LET sc == Met(t, id)
     IN /\ sc.RunState[id] = "NeedsRun" /\ OurTurn(sc)
        /\ Goes(t, [sc EXCEPT !.RunState[sc.CurrentSectionID] = "RunningEnteredSubsection",
                              !.RunState[id] = "Running",
                              !.CurrentSectionID = id],
                Into(s), LeafOf(s))

\* Not in this pass: the section around it must be run again. (Variant: which is
\* not noted.)
PutOffUnnoted(t, s) == \E id \in Sources :
  /\ Tries(t, s, id)
  /\ LET sc == Met(t, id)
     IN /\ sc.RunState[id] = "NeedsRun" /\ ~OurTurn(sc)
        /\ Goes(t, sc, Past(s), <<>>)
PutOff(t, s) == \E id \in Sources :
  /\ Tries(t, s, id)
  /\ LET sc == Met(t, id)
     IN /\ sc.RunState[id] = "NeedsRun" /\ ~OurTurn(sc)
        /\ Goes(t, [sc EXCEPT !.RunState[sc.CurrentSectionID] = "RunningNeedsRerun"],
                Past(s), <<>>)

SkipCompleted(t, s) == \E id \in Sources :
  /\ Tries(t, s, id)
  /\ Met(t, id).RunState[id] = "Completed"
  /\ Goes(t, Met(t, id), Past(s), <<>>)

\* OnLeave, after the body: a section with sections left to enter passes the need
\* on to the one around it.
Left(sc, id) ==
  LET parent == sc.ParentID[id]
      back == [sc EXCEPT !.CurrentSectionID = parent]
  IN IF sc.RunState[id] = "RunningNeedsRerun"
       THEN [back EXCEPT !.RunState[id] = "NeedsRun", !.RunState[parent] = "RunningNeedsRerun"]
       ELSE [back EXCEPT !.RunState[id] = "Completed"]

LeaveSection(t, s) == \E id \in Sources :
  /\ Tries(t, s, id)
  /\ Met(t, id).RunState[id] \in Running
  /\ Goes(t, Left(Met(t, id), id), Past(s), <<>>)

-----------------------------------------------------------------------------
\* static variables start as zero; STF_Section_..._Var and the like have no number.
Init ==
  /\ enclosing \in Tests
  /\ at = [t \in Thread |-> <<"reach", 0>>]
  /\ Scratch = [t \in Thread |->
       [CurrentSectionID |-> 0, NextSectionID |-> 0, NextStringID |-> 0,
        ParentID |-> [id \in Sources |-> 0], RunState |-> [id \in Sources |-> "NeverEntered"]]]
  /\ sectionVar = [t \in Thread |-> [s \in Sources |-> None]]
  /\ stringVar = [t \in Thread |-> [s \in Sources |-> None]]
  /\ counted = [c \in {"strings", "sections", "data"} |-> 0]
  /\ outstanding = [t \in Thread |-> None]
  /\ Strings = [id \in Sources |-> None]
  /\ Rows = [id \in Sources |-> None]
  /\ visited = [t \in Thread |-> <<>>]

Step(t) ==
  \/ Store(t)
  \/ Scenario(t)
  \/ LoopScenario(t)
  \/ \E s \in DOMAIN enclosing :
       \/ Section(t, s)
       \/ EnterSection(t, s) \/ PutOff(t, s) \/ SkipCompleted(t, s) \/ LeaveSection(t, s)

Next == \E t \in Thread : Step(t)

Spec == Init /\ [][Next]_vars

\* A thread of a dispatch runs to its end: none waits for another.
FairSpec == Spec /\ \A t \in Thread : WF_vars(Step(t))

-----------------------------------------------------------------------------
(* Properties *)

Ended(t) == at[t][1] = "end"

Leaves == {s \in {0} \cup DOMAIN enclosing : IsLeaf(s)}

\* Depth first: the threads run the body of each leaf exactly once, in the order of
\* the source and leaving none out, and the scenario ends when all have been run, not
\* before (ScenariosAndSections.md:253).
LeavesInOrder ==
  \A t \in Thread :
    LET run == {visited[t][k] : k \in DOMAIN visited[t]}
    IN /\ run \subseteq Leaves
       /\ \A j, k \in DOMAIN visited[t] : j < k => visited[t][j] < visited[t][k]
       /\ \A s \in run, r \in Leaves : r < s => r \in run
       /\ Ended(t) => run = Leaves

\* Every thread's passes end.
TestEnds == <>(\A t \in Thread : Ended(t))

=============================================================================
