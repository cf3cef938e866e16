---------------------------- MODULE ResourceLedger ----------------------------
(***************************************************************************)
(* What FencedResourceFreeList promises its clients: a handle names one      *)
(* resource from the moment it is given out until it is released, a handle   *)
(* is never given out twice, and a resource object is destroyed only when    *)
(* nobody owns it and the GPU does not use it.                               *)
(***************************************************************************)
EXTENDS Naturals

CONSTANTS LedgerHandle, LedgerResource

VARIABLES
  bound,    \* the handles clients own, each with its resource
  issued,   \* every handle ever given out
  alive,    \* the resource objects that exist
  inUse     \* the resources of work the GPU has not finished

ledger == <<bound, issued, alive, inUse>>

Owned == {bound[h] : h \in DOMAIN bound}

Init == /\ bound = [h \in {} |-> {}]
        /\ issued = {}
        /\ alive = {}
        /\ inUse = {}

\* A resource comes into being under a handle nobody ever had. Resources that are
\* neither owned nor used may be dropped on the way.
Manage ==
  \E h \in LedgerHandle \ issued, r \in LedgerResource \ alive :
    /\ issued' = issued \cup {h}
    /\ bound' = [g \in DOMAIN bound \cup {h} |-> IF g = h THEN r ELSE bound[g]]
    /\ \E dropped \in SUBSET (alive \ (Owned \cup inUse)) :
         alive' = (alive \ dropped) \cup {r}
    /\ UNCHANGED inUse

Release ==
  \E h \in DOMAIN bound :
    /\ bound' = [g \in DOMAIN bound \ {h} |-> bound[g]]
    /\ UNCHANGED <<issued, alive, inUse>>

Use == /\ \E h \in DOMAIN bound : inUse' = inUse \cup {bound[h]}
       /\ UNCHANGED <<bound, issued, alive>>

Finish == /\ \E r \in inUse : inUse' = inUse \ {r}
          /\ UNCHANGED <<bound, issued, alive>>

Next == Manage \/ Release \/ Use \/ Finish

Spec == Init /\ [][Next]_ledger

=============================================================================
