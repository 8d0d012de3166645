---------------------------- MODULE MCHybridLatch ----------------------------
(***************************************************************************)
(* The latch, and the guard objects that use it.  A behaviour is one of     *)
(* the latch, of guards that are moved, swapped and upgraded from          *)
(* optimistic ones, or of guards that are downgraded and of shared ones    *)
(* that are upgraded.                                                      *)
(***************************************************************************)
EXTENDS HybridLatch, TLC

CONSTANTS GuardThread, Frame, None

ASSUME NoneAssumption == None \notin GuardThread /\ None \notin Frame

VARIABLES part, home, content, latch, guard, busy, misuse

guardVars == <<home, content, latch, guard, busy, misuse>>

Moved == INSTANCE Guards
         WITH Thread <- GuardThread, Slot <- {1, 2}, Operations <- {"OX", "OS", "assign", "swap"},
              MaxVersion <- 4, MaxContent <- 1
Downgraded == INSTANCE Guards
              WITH Thread <- GuardThread, Slot <- {1}, Operations <- {"SX", "XS", "XO", "SO"},
                   MaxVersion <- 8, MaxContent <- 2

MCInit == /\ Init
          /\ \/ part \in {"latch", "moved"} /\ Moved!Init
             \/ part = "downgraded" /\ Downgraded!Init

(* The guards stop when their bounds are reached. *)
Stop == part # "latch" /\ UNCHANGED guardVars

MCNext == /\ \/ part = "latch" /\ Next /\ UNCHANGED guardVars
             \/ part = "moved" /\ Moved!Next /\ UNCHANGED vars
             \/ part = "downgraded" /\ Downgraded!Next /\ UNCHANGED vars
             \/ Stop /\ UNCHANGED vars
          /\ UNCHANGED part

MCSpec == MCInit /\ [][MCNext]_<<vars, guardVars, part>>

(* Threads are interchangeable, and so are frames. *)
Symmetry == Permutations(Thread) \cup Permutations(GuardThread) \cup Permutations(Frame)

(* A guard that may be used has missed no write, whatever conversions it    *)
(* went through while the page was evicted and came back (BufferFrameGuards *)
(* compares frame, version and pid).  Guards that are moved and swapped    *)
(* (Guard::operator=, swap) leave every latch that is held to exactly one  *)
(* of them, which releases it, and release none that somebody else holds.  *)
GuardsAreSound ==
    /\ part = "moved" => /\ Moved!ConversionMissesNoWrite
                         /\ Moved!LatchHasOneOwner /\ Moved!OnlyHolderUnlatches
    /\ part = "downgraded" => Downgraded!ConversionMissesNoWrite
=============================================================================
