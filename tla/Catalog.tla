------------------------------ MODULE Catalog ------------------------------
(***************************************************************************)
(* storage::Catalog: one page, owned by node 0, where the nodes register  *)
(* their data structures and find those of others.  The page moves between *)
(* nodes like every page: an exclusive guard on one node takes the copies  *)
(* of the others away, so the steps of a guard are atomic.                 *)
(***************************************************************************)
EXTENDS Integers, Sequences, FiniteSets

CONSTANTS
  Nodes,
  Owner,       \* CATALOG_OWNER
  MaxEntries   \* bound: data structures created

VARIABLES
  isInitialized, datastructureIds, entries,   \* the catalog page
  up,          \* nodes whose Catalog::init has returned
  waits,       \* [Nodes -> id that getCatalogEntry waits for, or None]
  ref,         \* [Nodes -> id of the entry to which the node has got a reference, or None]
  created      \* [ids -> the structure whose creator got the id]

vars == <<isInitialized, datastructureIds, entries, up, waits, ref, created>>

None == -1
Ids == 0..MaxEntries
Empty == [datastructureId |-> 0, type |-> "EMPTY", pid |-> None]

Init ==
  /\ isInitialized = FALSE /\ datastructureIds = 0 /\ entries = [i \in Ids |-> Empty]
  /\ up = {} /\ waits = [n \in Nodes |-> None] /\ ref = [n \in Nodes |-> None]
  /\ created = [i \in Ids |-> None]

\* the owner sets the flag, the others look for it
CatalogInit(n) ==
  /\ n \notin up
  /\ \/ n = Owner /\ isInitialized' = TRUE /\ up' = up \cup {n}
     \/ n # Owner /\ up' = (IF isInitialized THEN up \cup {n} ELSE up) /\ UNCHANGED isInitialized
  /\ UNCHANGED <<datastructureIds, entries, waits, ref, created>>

\* createBTree, createLinkedList, createBarrier: the structure with first page p is registered
InsertCatalogEntry(n, p) ==
  /\ n \in up /\ datastructureIds < MaxEntries
  /\ \A i \in Ids : entries[i].pid # p
  /\ entries' = [entries EXCEPT ![datastructureIds] = [datastructureId |-> datastructureIds, type |-> "DS", pid |-> p]]
  /\ datastructureIds' = datastructureIds + 1
  /\ created' = [created EXCEPT ![datastructureIds] = p]
  /\ UNCHANGED <<isInitialized, up, waits, ref>>

Call(n, id) ==
  /\ n \in up /\ waits[n] = None /\ ref[n] = None
  /\ waits' = [waits EXCEPT ![n] = id]
  /\ UNCHANGED <<isInitialized, datastructureIds, entries, up, ref, created>>

\* Mutant: only the number of entries is looked at
FoundByNumber(id) == datastructureIds >= id

\* what ends the loop
Found(id) == datastructureIds >= id /\ entries[id].type # "EMPTY"

\* one round of the loop with a shared guard, which is released with the return
GetCatalogEntry(n) ==
  /\ waits[n] # None
  /\ IF Found(waits[n]) THEN ref' = [ref EXCEPT ![n] = waits[n]] /\ waits' = [waits EXCEPT ![n] = None]
     ELSE UNCHANGED <<ref, waits>>
  /\ UNCHANGED <<isInitialized, datastructureIds, entries, up, created>>

\* the caller reads pid through the reference; it may call again
UseReference(n) ==
  /\ ref[n] # None
  /\ ref' = [ref EXCEPT ![n] = None]
  /\ UNCHANGED <<isInitialized, datastructureIds, entries, up, waits, created>>

Progress(n) == CatalogInit(n) \/ GetCatalogEntry(n) \/ UseReference(n)

Next == \E n \in Nodes :
          \/ Progress(n)
          \/ \E p \in 1..MaxEntries : InsertCatalogEntry(n, p)
          \/ \E id \in Ids \ {MaxEntries} : Call(n, id)

Spec == Init /\ [][Next]_vars

-----------------------------------------------------------------------------
(* Properties *)

\* Creators on different nodes get different identifiers, without gaps, and the entry under an identifier is the one
\* of its creator for ever.
IdsAreUnique ==
  \A i \in Ids : created[i] # None => i < datastructureIds /\ entries[i].pid = created[i] /\ entries[i].datastructureId = i

\* A lookup that comes before the creation waits; it never refers to an entry that nobody has made.
LookupWaits == \A n \in Nodes : ref[n] # None => created[ref[n]] # None

\* node n waits for an entry that has been made
Overdue(n) == waits[n] # None /\ created[waits[n]] # None
=============================================================================
