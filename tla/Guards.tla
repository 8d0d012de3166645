------------------------------- MODULE Guards -------------------------------
(***************************************************************************)
(* Guard, ExclusiveBFGuard, SharedBFGuard and OptimisticBFGuard: which     *)
(* object releases a latch, and what a guard still knows of the page after *)
(* it was converted.  Threads of one node use one page, which is evicted   *)
(* and may come back into another frame; content counts its writes.        *)
(*                                                                         *)
(* Each step that touches the latch is an action.  The version of a latch  *)
(* is counted in units of 0b10: it is odd while the latch is held          *)
(* exclusively.  Comparing the version right after a shared latch was      *)
(* taken is one step with taking it, since it cannot change any more.      *)
(* A guard in state RETRY is not converted: callers test retry() first.    *)
(***************************************************************************)
EXTENDS Integers, FiniteSetTheorems, TLAPS

CONSTANTS
  Thread, Frame,
  Slot,          \* the guard variables of a thread
  None,          \* nobody, nowhere
  Operations,    \* what the threads use: "XX", "SX", "OX", "XS", "OS", "XO", "SO", "assign", "swap"
  MaxVersion,    \* bound: versions of a latch
  MaxContent     \* bound: writes of the page

VARIABLES
  home,      \* frame of the page, None when the node does not have it
  content,   \* writes of the page so far
  latch,     \* [version, x, s] of each frame: exclusive holder, shared holds of each thread
  guard,     \* the guard objects of each thread
  busy,      \* [Thread -> the conversion or fix under way]
  misuse     \* an exclusive latch was released by a thread that does not hold it

vars == <<home, content, latch, guard, busy, misuse>>

\* kind is the C++ type of the object; seen is the content the guard was valid for
NoGuard == [kind |-> "none", state |-> "UNINITIALIZED", latchState |-> "UNLATCHED",
            frame |-> None, v |-> 0, seen |-> 0]
Resting == [pc |-> "rest", slot |-> None, kind |-> "none"]

Init ==
  /\ home = None /\ content = 0 /\ misuse = FALSE
  /\ latch = [f \in Frame |-> [version |-> 0, x |-> None, s |-> [t \in Thread |-> 0]]]
  /\ guard = [t \in Thread |-> [i \in Slot |-> NoGuard]]
  /\ busy = [t \in Thread |-> Resting]

-----------------------------------------------------------------------------
(* HybridLatch *)

Unlatched(f) == latch[f].x = None /\ \A t \in Thread : latch[f].s[t] = 0
Room(f) == latch[f].version + 2 <= MaxVersion

Latched(l, f, t) == [l EXCEPT ![f].x = t, ![f].version = @ + 1]
UnlatchedX(l, f) == [l EXCEPT ![f].x = None, ![f].version = @ + 1]
LatchedS(l, f, t) == [l EXCEPT ![f].s[t] = @ + 1]
UnlatchedS(l, f, t) == [l EXCEPT ![f].s[t] = @ - 1]

\* what ~Guard's owners and operator= do with the latch that latchState names
Released(l, g, t) ==
  CASE g.latchState = "EXCLUSIVE" -> UnlatchedX(l, g.frame)
    [] g.latchState = "SHARED" -> UnlatchedS(l, g.frame, t)
    [] OTHER -> l

Idle(t) == busy[t] = Resting
Set(t, i, g) == guard' = [guard EXCEPT ![t][i] = g]
Finish(t) == busy' = [busy EXCEPT ![t] = Resting]
Continue(t, pc, i, kind) == busy' = [busy EXCEPT ![t] = [pc |-> pc, slot |-> i, kind |-> kind]]

LATCHSTATE(kind) == CASE kind = "X" -> "EXCLUSIVE" [] kind = "S" -> "SHARED" [] kind = "O" -> "OPTIMISTIC"
NewGuard(kind, f, v) == [kind |-> kind, state |-> "INITIALIZED", latchState |-> LATCHSTATE(kind),
                         frame |-> f, v |-> v, seen |-> content]

-----------------------------------------------------------------------------
(* Buffermanager::fix *)

\* the page is there and the functor gets what it wants: X, S or O
FixHit(t, i, kind) ==
  /\ Idle(t) /\ guard[t][i].kind = "none" /\ home # None
  /\ IF kind = "X" THEN Unlatched(home) /\ Room(home) ELSE latch[home].x = None
  /\ LET l == CASE kind = "X" -> Latched(latch, home, t)
                [] kind = "S" -> LatchedS(latch, home, t)
                [] kind = "O" -> latch
     IN latch' = l /\ Set(t, i, NewGuard(kind, home, l[home].version))
  /\ UNCHANGED <<home, content, busy, misuse>>

\* the page is brought into a frame that is latched exclusively
FixCold(t, i, kind) ==
  /\ Idle(t) /\ guard[t][i].kind = "none" /\ home = None
  /\ \E f \in Frame :
       /\ Unlatched(f) /\ Room(f)
       /\ home' = f /\ latch' = Latched(latch, f, t)
       /\ Set(t, i, [NewGuard("X", f, latch'[f].version) EXCEPT !.kind = kind])
       /\ IF kind = "X" THEN Finish(t) ELSE Continue(t, "downgrade", i, kind)
  /\ UNCHANGED <<content, misuse>>

\* Guard::downgrade: an optimistic guard keeps the version after unlatching, a shared one has to be latched again
DowngradeBegin(t) ==
  LET i == busy[t].slot
      g == guard[t][i]
  IN
  /\ busy[t].pc = "downgrade"
  /\ latch' = UnlatchedX(latch, g.frame)
  /\ IF busy[t].kind = "O"
     THEN Set(t, i, [g EXCEPT !.latchState = "OPTIMISTIC", !.v = @ + 1]) /\ Finish(t)
     ELSE Set(t, i, [g EXCEPT !.latchState = "UNLATCHED", !.v = @ + 1]) /\ Continue(t, "downgraded", i, "S")
  /\ UNCHANGED <<home, content, misuse>>

\* ... tryLatchShared and compare, otherwise fix starts again
Downgrade(t) ==
  LET i == busy[t].slot
      g == guard[t][i]
      f == g.frame
  IN
  /\ busy[t].pc = "downgraded"
  /\ IF latch[f].x = None /\ latch[f].version = g.v
     THEN latch' = LatchedS(latch, f, t) /\ Set(t, i, [g EXCEPT !.latchState = "SHARED"])
     ELSE Set(t, i, NoGuard) /\ UNCHANGED latch
  /\ Finish(t)
  /\ UNCHANGED <<home, content, misuse>>

-----------------------------------------------------------------------------
(* ExclusiveBFGuard(SharedBFGuard&&) and ExclusiveBFGuard(OptimisticBFGuard&&) *)

\* S - X gives up the shared latch first
SharedToExclusive(t, i) ==
  LET g == guard[t][i] IN
  /\ "SX" \in Operations /\ Idle(t)
  /\ g.kind = "S" /\ g.latchState = "SHARED"
  /\ latch' = UnlatchedS(latch, g.frame, t)
  /\ Set(t, i, [g EXCEPT !.latchState = "UNLATCHED", !.state = "MOVED"])
  /\ Continue(t, "fixSX", i, "X")
  /\ UNCHANGED <<home, content, misuse>>

\* O - X compares the version first
OptimisticToExclusive(t, i) ==
  LET g == guard[t][i] IN
  /\ "OX" \in Operations /\ Idle(t)
  /\ g.kind = "O" /\ g.latchState = "OPTIMISTIC"
  /\ IF latch[g.frame].version = g.v
     THEN Set(t, i, [g EXCEPT !.latchState = "UNLATCHED", !.state = "MOVED"]) /\ Continue(t, "fixOX", i, "X")
     ELSE Set(t, i, [NoGuard EXCEPT !.kind = "X", !.state = "RETRY"]) /\ Finish(t)
  /\ UNCHANGED <<home, content, latch, misuse>>

\* the frame the second fix ends with, latched exclusively
FixedIn == IF home = None THEN {f \in Frame : Unlatched(f) /\ Room(f)}
           ELSE {f \in {home} : Unlatched(f) /\ Room(f)}

\* Mutant: the frames are not compared
SameGuardAnyFrame(old, new) == new.v = old.v + 1

\* &getFrame() == &old.getFrame() and g.vAcquired == old.g.vAcquired + 0b10
SameGuard(old, new) == new.frame = old.frame /\ new.v = old.v + 1

\* after RETRY the O - X constructor releases the latch, the S - X constructor keeps it
FixAgain(t) ==
  LET i == busy[t].slot
      old == guard[t][i]
  IN
  /\ busy[t].pc \in {"fixSX", "fixOX"}
  /\ \E f \in FixedIn :
       LET new == [NewGuard("X", f, latch[f].version + 1) EXCEPT !.seen = old.seen]
           retry == [new EXCEPT !.state = "RETRY"]
       IN /\ home' = f
          /\ IF SameGuard(old, new) THEN latch' = Latched(latch, f, t) /\ Set(t, i, new)
             ELSE IF busy[t].pc = "fixSX" THEN latch' = Latched(latch, f, t) /\ Set(t, i, retry)
             ELSE /\ latch' = [latch EXCEPT ![f].version = @ + 2]
                  /\ Set(t, i, [retry EXCEPT !.latchState = "UNLATCHED"])
  /\ Finish(t)
  /\ UNCHANGED <<content, misuse>>

-----------------------------------------------------------------------------
(* Downgrades, and SharedBFGuard(OptimisticBFGuard&&) *)

\* X - S and X - O: unlatchExclusive; latchState stays EXCLUSIVE until the second half succeeds
FromExclusive(t, i, kind) ==
  LET g == guard[t][i] IN
  /\ "X" = g.kind /\ (IF kind = "S" THEN "XS" ELSE "XO") \in Operations /\ Idle(t)
  /\ g.state = "INITIALIZED" /\ g.latchState = "EXCLUSIVE"
  /\ latch' = UnlatchedX(latch, g.frame)
  /\ Set(t, i, [g EXCEPT !.kind = kind, !.state = "RETRY"])
  /\ Continue(t, "convert", i, kind)
  /\ UNCHANGED <<home, content, misuse>>

\* S - O: unlatchShared
FromShared(t, i) ==
  LET g == guard[t][i] IN
  /\ "SO" \in Operations /\ Idle(t)
  /\ g.kind = "S" /\ g.latchState = "SHARED"
  /\ latch' = UnlatchedS(latch, g.frame, t)
  /\ Set(t, i, [g EXCEPT !.kind = "O", !.state = "RETRY"])
  /\ Continue(t, "convert", i, "O")
  /\ UNCHANGED <<home, content, misuse>>

\* O - S needs no first half
FromOptimistic(t, i) ==
  LET g == guard[t][i] IN
  /\ "OS" \in Operations /\ Idle(t)
  /\ g.kind = "O" /\ g.latchState = "OPTIMISTIC"
  /\ Set(t, i, [g EXCEPT !.kind = "S", !.state = "RETRY"])
  /\ Continue(t, "convert", i, "S")
  /\ UNCHANGED <<home, content, latch, misuse>>

\* the version that the page has if nobody came in between
Expected(g) == IF g.latchState = "EXCLUSIVE" THEN g.v + 1 ELSE g.v

\* tryLatchShared and compare, or compare only
Convert(t) ==
  LET i == busy[t].slot
      g == guard[t][i]
      f == g.frame
  IN
  /\ busy[t].pc = "convert"
  /\ IF latch[f].version = Expected(g) /\ (g.kind = "S" => latch[f].x = None)
     THEN /\ Set(t, i, [g EXCEPT !.state = "INITIALIZED", !.v = Expected(g),
                                 !.latchState = LATCHSTATE(g.kind)])
          /\ latch' = IF g.kind = "S" THEN LatchedS(latch, f, t) ELSE latch
     ELSE UNCHANGED <<guard, latch>>
  /\ Finish(t)
  /\ UNCHANGED <<home, content, misuse>>

-----------------------------------------------------------------------------
(* Moves and destructors *)

\* Guard::operator=(Guard&&): the latch of the left side is released, the right side is MOVED
Assign(t, i, j) ==
  LET g == guard[t][i]
      h == guard[t][j]
  IN
  /\ "assign" \in Operations /\ Idle(t) /\ i # j
  /\ h.kind # "none" /\ g.kind \in {h.kind, "none"}
  /\ latch' = Released(latch, g, t)
  /\ misuse' = (misuse \/ (g.latchState = "EXCLUSIVE" /\ latch[g.frame].x # t))
  /\ guard' = [guard EXCEPT ![t][i] = h,
                            ![t][j] = [NoGuard EXCEPT !.kind = h.kind, !.state = "MOVED"]]
  /\ UNCHANGED <<home, content, busy>>

SwapWith(t, i, j) ==
  /\ "swap" \in Operations /\ Idle(t) /\ i # j
  /\ guard[t][i].kind = "X" /\ guard[t][j].kind = "X"
  /\ guard' = [guard EXCEPT ![t][i] = guard[t][j], ![t][j] = guard[t][i]]
  /\ UNCHANGED <<home, content, latch, busy, misuse>>

\* ~ExclusiveBFGuard and ~SharedBFGuard release what an INITIALIZED guard holds
Destroy(t, i) ==
  LET g == guard[t][i] IN
  /\ Idle(t) /\ g.kind # "none"
  /\ latch' = IF g.state = "INITIALIZED" /\ g.kind # "O" THEN Released(latch, g, t) ELSE latch
  /\ Set(t, i, NoGuard)
  /\ UNCHANGED <<home, content, busy, misuse>>

\* ExclusiveBFGuard::reclaim: the frame is removed, reset and unlatched
Reclaim(t, i) ==
  LET g == guard[t][i] IN
  /\ Idle(t) /\ g.kind = "X" /\ g.state = "INITIALIZED" /\ latch[g.frame].x = t
  /\ home' = None
  /\ latch' = UnlatchedX(latch, g.frame)
  /\ Set(t, i, [g EXCEPT !.state = "UNINITIALIZED", !.latchState = "UNLATCHED"])
  /\ UNCHANGED <<content, busy, misuse>>

-----------------------------------------------------------------------------
(* The page *)

Write(t, i) ==
  LET g == guard[t][i] IN
  /\ Idle(t) /\ g.kind = "X" /\ g.state = "INITIALIZED" /\ g.latchState = "EXCLUSIVE"
  /\ content < MaxContent
  /\ content' = content + 1
  /\ Set(t, i, [g EXCEPT !.seen = content + 1])
  /\ UNCHANGED <<home, latch, busy, misuse>>

\* the page leaves the node and may be written elsewhere
Evict ==
  /\ home # None /\ Unlatched(home) /\ Room(home)
  /\ home' = None
  /\ latch' = [latch EXCEPT ![home].version = @ + 2]
  /\ content' \in {content, content + 1} /\ content' <= MaxContent
  /\ UNCHANGED <<guard, busy, misuse>>

Step(t) ==
  \/ \E i \in Slot : \/ \E kind \in {"X", "S", "O"} : FixHit(t, i, kind) \/ FixCold(t, i, kind)
                     \/ SharedToExclusive(t, i) \/ OptimisticToExclusive(t, i)
                     \/ \E kind \in {"S", "O"} : FromExclusive(t, i, kind)
                     \/ FromShared(t, i) \/ FromOptimistic(t, i)
                     \/ Destroy(t, i) \/ Reclaim(t, i) \/ Write(t, i)
                     \/ \E j \in Slot : Assign(t, i, j) \/ SwapWith(t, i, j)
  \/ DowngradeBegin(t) \/ Downgrade(t) \/ FixAgain(t) \/ Convert(t)

Next == Evict \/ \E t \in Thread : Step(t)

Spec == Init /\ [][Next]_vars

-----------------------------------------------------------------------------
(* Properties *)

Guards(t) == {guard[t][i] : i \in Slot}

\* the guard whose destructor releases the exclusive (shared) latch of f
Owner(t, f, ls) == {i \in Slot : LET g == guard[t][i] IN
                      g.frame = f /\ g.latchState = ls /\ g.state = "INITIALIZED"}

(***************************************************************************)
(* A latch that is held will be released: exactly one guard object of the  *)
(* holder releases it when it is destroyed, after every sequence of        *)
(* conversions, failed ones included, moves and swaps.                     *)
(***************************************************************************)
LatchHasOneOwner ==
  \A t \in Thread, f \in Frame :
    /\ Cardinality(Owner(t, f, "EXCLUSIVE")) = (IF latch[f].x = t THEN 1 ELSE 0)
    /\ Cardinality(Owner(t, f, "SHARED")) = latch[f].s[t]

(***************************************************************************)
(* A guard that may be used has missed no write: a latched one sees the    *)
(* page as it is, an optimistic one as long as its version is the frame's, *)
(* also when the page was evicted and came back during the conversion.     *)
(***************************************************************************)
ConversionMissesNoWrite ==
  \A t \in Thread : \A g \in Guards(t) :
    g.state = "INITIALIZED" /\ g.frame # None =>
      /\ g.latchState = "EXCLUSIVE" => latch[g.frame].x = t /\ home = g.frame /\ g.seen = content
      /\ g.latchState = "SHARED" => latch[g.frame].s[t] > 0 /\ home = g.frame /\ g.seen = content
      /\ g.latchState = "OPTIMISTIC" /\ latch[g.frame].version = g.v =>
           home = g.frame /\ g.seen = content

\* A conversion, a move or a destructor never releases an exclusive latch that somebody else holds or
\* nobody: unlatchExclusive ensures isLatched().
OnlyHolderUnlatches == ~misuse

-----------------------------------------------------------------------------
(* The invariant *)

GuardType == [kind : {"none", "X", "S", "O"},
              state : {"UNINITIALIZED", "INITIALIZED", "MOVED", "RETRY"},
              latchState : {"UNLATCHED", "EXCLUSIVE", "SHARED", "OPTIMISTIC"},
              frame : Frame \cup {None}, v : Nat, seen : Nat]
BusyType == [pc : {"rest", "downgrade", "downgraded", "fixSX", "fixOX", "convert"},
             slot : Slot \cup {None}, kind : {"none", "X", "S", "O"}]
LatchType == [version : Nat, x : Thread \cup {None}, s : [Thread -> Nat]]

GuardTypes ==
  /\ home \in Frame \cup {None} /\ content \in Nat
  /\ latch \in [Frame -> LatchType]
  /\ guard \in [Thread -> [Slot -> GuardType]]
  /\ busy \in [Thread -> BusyType]

Even(n) == n % 2 = 0

(* The version shows the exclusive latch, which nobody shares. *)
LatchFits(l) == /\ l.x = None <=> Even(l.version)
                /\ l.x # None => \A t \in Thread : l.s[t] = 0

HasX(g) == g.state = "INITIALIZED" /\ g.latchState = "EXCLUSIVE"
HasS(g) == g.state = "INITIALIZED" /\ g.latchState = "SHARED"

(* In what follows l, h and c are the latches, the frame of the page and    *)
(* its content.  As long as frame f has version v, the page is there and   *)
(* as it was seen.                                                         *)
Known(l, h, c, f, v, seen) ==
  /\ f \in Frame /\ Even(v) /\ v <= l[f].version
  /\ l[f].version = v => h = f /\ seen = c

(* The guard is on the page as it is and has its version. *)
OnPage(l, h, c, g) ==
  g.frame \in Frame /\ h = g.frame /\ g.seen = c /\ g.v = l[g.frame].version

(* What a guard of thread t is worth *)
Fits(l, h, c, t, g) ==
  /\ HasX(g) => OnPage(l, h, c, g) /\ l[g.frame].x = t
  /\ HasS(g) => OnPage(l, h, c, g) /\ l[g.frame].x = None
  /\ g.state = "INITIALIZED" /\ g.latchState \in {"OPTIMISTIC", "UNLATCHED"} =>
       Known(l, h, c, g.frame, g.v, g.seen)

(* How the type of a guard and its states go together *)
KindFits(g) ==
  /\ g.kind = "S" /\ g.latchState = "SHARED" => g.state = "INITIALIZED"
  /\ g.kind = "O" /\ g.latchState = "OPTIMISTIC" => g.state = "INITIALIZED"
  /\ g.kind = "X" => g.latchState \in {"EXCLUSIVE", "UNLATCHED"}
  /\ g.kind = "X" /\ g.state = "INITIALIZED" => g.latchState = "EXCLUSIVE"
  /\ g.kind = "none" => g.state # "INITIALIZED"

(* An optimistic guard holds a latch only between a cold fix and its downgrade. *)
OptimisticFits(b, i, g) ==
  g.kind = "O" /\ g.state = "INITIALIZED" =>
    g.latchState = "OPTIMISTIC" \/ (b.pc = "downgrade" /\ b.slot = i)

(* What the guard of a conversion or of a fix under way is *)
Underway(l, h, c, b, g) ==
  /\ b.pc = "downgrade" => HasX(g) /\ b.kind \in {"S", "O"} /\ g.kind = b.kind
  /\ b.pc = "downgraded" => g.state = "INITIALIZED" /\ g.latchState = "UNLATCHED" /\ g.kind = "S"
  /\ b.pc \in {"fixSX", "fixOX"} => /\ g.state = "MOVED" /\ g.latchState = "UNLATCHED"
                                    /\ Known(l, h, c, g.frame, g.v, g.seen)
  /\ b.pc = "fixSX" => "SX" \in Operations
  /\ b.pc = "convert" => /\ g.state = "RETRY" /\ g.kind \in {"S", "O"} /\ g.latchState # "UNLATCHED"
                         /\ Known(l, h, c, g.frame, Expected(g), g.seen)

LatchesFit == \A f \in Frame : LatchFits(latch[f])

AllFit == \A t \in Thread, i \in Slot : /\ Fits(latch, home, content, t, guard[t][i])
                                        /\ KindFits(guard[t][i])
                                        /\ OptimisticFits(busy[t], i, guard[t][i])

AllUnderway == \A t \in Thread : busy[t].pc # "rest" =>
                 busy[t].slot \in Slot /\ Underway(latch, home, content, busy[t], guard[t][busy[t].slot])

OneExclusive == \A t \in Thread, i, j \in Slot : HasX(guard[t][i]) /\ HasX(guard[t][j]) => i = j

(* The slots whose guards share the latch of f *)
Sharing(gs, f) == {i \in Slot : HasS(gs[i]) /\ gs[i].frame = f}

SharersCount == \A t \in Thread, f \in Frame : Cardinality(Sharing(guard[t], f)) = latch[f].s[t]

GuardInv == GuardTypes /\ LatchesFit /\ AllFit /\ AllUnderway /\ OneExclusive /\ SharersCount

(* Without conversions that give up a latch first ... *)
KeepsLatches == Operations \cap {"SX", "XS", "XO", "SO"} = {}

(* ... every latch that is held belongs to a guard that can be used. *)
LatchIsOwned(g) == g.latchState \in {"EXCLUSIVE", "SHARED"} => g.state = "INITIALIZED"

OwnerInv ==
  /\ ~misuse
  /\ \A t \in Thread, i \in Slot : LatchIsOwned(guard[t][i])
  /\ \A f \in Frame, t \in Thread :
       latch[f].x = t => \E i \in Slot : HasX(guard[t][i]) /\ guard[t][i].frame = f

(* Nobody is a thread, nowhere is a frame, and a thread has finitely many guards. *)
Apart == None \notin Thread /\ None \notin Frame /\ IsFiniteSet(Slot)

-----------------------------------------------------------------------------
(* Lemmas about latches and guards *)

(* The version is odd while the latch is held exclusively. *)
LEMMA Parity ==
  /\ Even(0)
  /\ \A n \in Nat : (Even(n + 1) <=> ~Even(n)) /\ (Even(n + 2) <=> Even(n))
BY DEF Even

(* The page stays where it is and as it is while its version does. *)
Kept == \A f \in Frame :
          /\ latch'[f].version >= latch[f].version
          /\ latch'[f].version = latch[f].version /\ Even(latch[f].version) /\ home = f =>
               home' = f /\ content' = content

(* What a guard knows of a page stays true. *)
LEMMA KnownStays ==
  ASSUME latch \in [Frame -> LatchType], latch' \in [Frame -> LatchType], Kept,
         NEW f, NEW v \in Nat, NEW seen, Known(latch, home, content, f, v, seen)
  PROVE  Known(latch', home', content', f, v, seen)
<1>1. f \in Frame /\ latch[f].version \in Nat /\ latch'[f].version \in Nat
  BY DEF Known, LatchType
<1>2. v <= latch[f].version /\ latch[f].version <= latch'[f].version
  BY <1>1 DEF Known, Kept
<1>3. v <= latch'[f].version
  BY <1>1, <1>2
<1>4. ASSUME latch'[f].version = v PROVE home' = f /\ seen = content'
  <2>1. latch[f].version = v /\ Even(v)
    BY <1>1, <1>2, <1>4 DEF Known
  <2> QED
    BY <1>1, <1>4, <2>1 DEF Known, Kept
<1> QED
  BY <1>1, <1>3, <1>4 DEF Known

(* Nothing changes for those who hold a latch. *)
SameView == /\ home' = home /\ content' = content
            /\ \A f \in Frame : latch'[f].version = latch[f].version /\ latch'[f].x = latch[f].x

(* A page that is as it was, with its version, is kept. *)
LEMMA SameIsKept ==
  ASSUME GuardTypes, SameView PROVE Kept
BY DEF SameView, Kept, GuardTypes, LatchType

(* A guard that is not touched keeps what it is worth. *)
LEMMA GuardStays ==
  ASSUME latch \in [Frame -> LatchType], latch' \in [Frame -> LatchType], Kept,
         NEW t, NEW g \in GuardType, Fits(latch, home, content, t, g),
         SameView \/ ~(HasX(g) \/ HasS(g))
  PROVE  Fits(latch', home', content', t, g)
<1>1. CASE SameView
  BY <1>1, KnownStays DEF Fits, OnPage, SameView, GuardType
<1>2. CASE ~(HasX(g) \/ HasS(g))
  BY <1>2, KnownStays DEF Fits, GuardType
<1> QED
  BY <1>1, <1>2

(* Nor does a conversion of another thread notice. *)
LEMMA UnderwayStays ==
  ASSUME latch \in [Frame -> LatchType], latch' \in [Frame -> LatchType], Kept,
         NEW b \in BusyType, NEW g \in GuardType, Underway(latch, home, content, b, g)
  PROVE  Underway(latch', home', content', b, g)
<1>1. g.v \in Nat /\ Expected(g) \in Nat
  BY DEF GuardType, Expected
<1> QED
  BY <1>1, KnownStays DEF Underway

(* The others hold no latch that the step of thread t changes. *)
OthersUntouched(t) ==
  SameView \/ \A u \in Thread, j \in Slot : u # t => ~(HasX(guard[u][j]) \/ HasS(guard[u][j]))

(* Thread t has the guards gs and does b afterwards. *)
Becomes(t, gs, b) ==
  /\ gs \in [Slot -> GuardType] /\ b \in BusyType
  /\ guard' = [guard EXCEPT ![t] = gs] /\ busy' = [busy EXCEPT ![t] = b]
  /\ home' \in Frame \cup {None} /\ content' \in Nat /\ latch' \in [Frame -> LatchType]

(* A step of a thread keeps the invariant if its own guards are right afterwards. *)
LEMMA ThreadStep ==
  ASSUME GuardInv, NEW t \in Thread, NEW gs, NEW b, Becomes(t, gs, b), Kept, OthersUntouched(t),
         LatchesFit',
         \A i \in Slot : /\ Fits(latch', home', content', t, gs[i]) /\ KindFits(gs[i])
                         /\ OptimisticFits(b, i, gs[i]),
         b.pc # "rest" => b.slot \in Slot /\ Underway(latch', home', content', b, gs[b.slot]),
         \A i, j \in Slot : HasX(gs[i]) /\ HasX(gs[j]) => i = j,
         \A f \in Frame : /\ Cardinality(Sharing(gs, f)) = latch'[f].s[t]
                          /\ \A u \in Thread : u # t => latch'[f].s[u] = latch[f].s[u]
  PROVE  GuardInv'
<1>1. /\ guard' \in [Thread -> [Slot -> GuardType]] /\ busy' \in [Thread -> BusyType]
      /\ guard'[t] = gs /\ busy'[t] = b
      /\ \A u \in Thread : u # t => guard'[u] = guard[u] /\ busy'[u] = busy[u]
  BY DEF GuardInv, GuardTypes, Becomes
<1>2. GuardTypes'
  BY <1>1 DEF GuardTypes, Becomes
<1>3. latch \in [Frame -> LatchType] /\ latch' \in [Frame -> LatchType]
  BY DEF GuardInv, GuardTypes, Becomes
<1>4. AllFit'
  <2> SUFFICES ASSUME NEW u \in Thread, NEW i \in Slot
               PROVE  /\ Fits(latch', home', content', u, guard'[u][i]) /\ KindFits(guard'[u][i])
                      /\ OptimisticFits(busy'[u], i, guard'[u][i])
    BY DEF AllFit
  <2>1. CASE u = t
    BY <1>1, <2>1
  <2>2. CASE u # t
    <3>1. /\ Fits(latch, home, content, u, guard[u][i]) /\ KindFits(guard[u][i])
          /\ OptimisticFits(busy[u], i, guard[u][i])
      BY DEF GuardInv, AllFit
    <3>2. guard[u][i] \in GuardType /\ (SameView \/ ~(HasX(guard[u][i]) \/ HasS(guard[u][i])))
      BY <2>2 DEF GuardInv, GuardTypes, OthersUntouched
    <3>3. Fits(latch', home', content', u, guard[u][i])
      BY <1>3, <3>1, <3>2, GuardStays
    <3> QED
      BY <1>1, <2>2, <3>1, <3>3
  <2> QED
    BY <2>1, <2>2
<1>5. AllUnderway'
  <2> SUFFICES ASSUME NEW u \in Thread, busy'[u].pc # "rest"
               PROVE  /\ busy'[u].slot \in Slot
                      /\ Underway(latch', home', content', busy'[u], guard'[u][busy'[u].slot])
    BY DEF AllUnderway
  <2>1. CASE u = t
    BY <1>1, <2>1
  <2>2. CASE u # t
    <3>1. busy[u].slot \in Slot /\ Underway(latch, home, content, busy[u], guard[u][busy[u].slot])
      BY <1>1, <2>2 DEF GuardInv, AllUnderway
    <3>2. busy[u] \in BusyType /\ guard[u][busy[u].slot] \in GuardType
      BY <3>1 DEF GuardInv, GuardTypes
    <3> QED
      BY <1>1, <1>3, <2>2, <3>1, <3>2, UnderwayStays
  <2> QED
    BY <2>1, <2>2
<1>6. OneExclusive'
  BY <1>1 DEF GuardInv, OneExclusive
<1>7. SharersCount'
  <2> SUFFICES ASSUME NEW u \in Thread, NEW f \in Frame
               PROVE  Cardinality(Sharing(guard'[u], f)) = latch'[f].s[u]
    BY DEF SharersCount
  <2>1. CASE u = t
    BY <1>1, <2>1
  <2>2. CASE u # t
    BY <1>1, <2>2 DEF GuardInv, SharersCount
  <2> QED
    BY <2>1, <2>2
<1> QED
  BY <1>2, <1>4, <1>5, <1>6, <1>7 DEF GuardInv

(* One of the guards of t becomes g. *)
Turns(t, i, g, b) ==
  /\ g \in GuardType /\ b \in BusyType /\ i \in Slot
  /\ guard' = [guard EXCEPT ![t][i] = g] /\ busy' = [busy EXCEPT ![t] = b]
  /\ home' \in Frame \cup {None} /\ content' \in Nat /\ latch' \in [Frame -> LatchType]

(* Only guard i of t holds a latch that the step changes. *)
OnlyHolder(t, i) ==
  SameView \/ \A u \in Thread, j \in Slot : HasX(guard[u][j]) \/ HasS(guard[u][j]) => u = t /\ j = i

Counted(b) == IF b THEN 1 ELSE 0

(* The shared latches of t change as its guard does. *)
SharesAs(t, i, g) ==
  \A f \in Frame : /\ \A u \in Thread : u # t => latch'[f].s[u] = latch[f].s[u]
                   /\ latch'[f].s[t] = latch[f].s[t] + Counted(HasS(g) /\ g.frame = f)
                                       - Counted(HasS(guard[t][i]) /\ guard[t][i].frame = f)

(* How many guards share the latch of f when one guard changes *)
LEMMA SharersChange ==
  ASSUME Apart, NEW gs, NEW i \in Slot, NEW g, NEW f, NEW zs,
         \A j \in Slot : zs[j] = IF j = i THEN g ELSE gs[j]
  PROVE  Cardinality(Sharing(zs, f)) =
           Cardinality(Sharing(gs, f)) + Counted(HasS(g) /\ g.frame = f)
                                       - Counted(HasS(gs[i]) /\ gs[i].frame = f)
<1> DEFINE A == Sharing(gs, f)
           B == A \ {i}
           Z == Sharing(zs, f)
<1>1. IsFiniteSet(A)
  BY FS_Subset DEF Apart, Sharing
<1>2. i \in A <=> HasS(gs[i]) /\ gs[i].frame = f
  BY DEF Sharing
<1>3. IsFiniteSet(B) /\ Cardinality(B) = Cardinality(A) - Counted(i \in A) /\ i \notin B /\ Cardinality(A) \in Nat
  BY <1>1, FS_RemoveElement, FS_CardinalityType DEF Counted
<1>4. CASE HasS(g) /\ g.frame = f
  <2>1. Z = B \cup {i}
    BY <1>4 DEF Sharing
  <2>2. Cardinality(Z) = Cardinality(B) + 1
    BY <1>3, <2>1, FS_AddElement
  <2> QED
    BY <1>2, <1>3, <1>4, <2>2 DEF Counted
<1>5. CASE ~(HasS(g) /\ g.frame = f)
  <2>1. Z = B
    BY <1>5 DEF Sharing
  <2> QED
    BY <1>2, <1>3, <1>5, <2>1 DEF Counted
<1> QED
  BY <1>4, <1>5

(* A step that changes one guard keeps the invariant if this guard is right afterwards. *)
LEMMA GuardStep ==
  ASSUME Apart, GuardInv, NEW t \in Thread, NEW i, NEW g, NEW b, Turns(t, i, g, b), Kept,
         OnlyHolder(t, i), LatchesFit', SharesAs(t, i, g),
         busy[t].pc = "rest" \/ busy[t].slot = i,
         Fits(latch', home', content', t, g), KindFits(g), OptimisticFits(b, i, g),
         b.pc # "rest" => b.slot = i /\ Underway(latch', home', content', b, g),
         HasX(g) => \A j \in Slot : j # i => ~HasX(guard[t][j])
  PROVE  GuardInv'
<1> DEFINE gs == [guard[t] EXCEPT ![i] = g]
<1>1. /\ guard[t] \in [Slot -> GuardType] /\ g \in GuardType /\ i \in Slot
      /\ latch \in [Frame -> LatchType] /\ latch' \in [Frame -> LatchType]
  BY DEF GuardInv, GuardTypes, Turns
<1>2. gs \in [Slot -> GuardType] /\ gs[i] = g /\ \A j \in Slot : j # i => gs[j] = guard[t][j]
  BY <1>1
<1>3. Becomes(t, gs, b)
  BY <1>2 DEF Becomes, Turns
<1> HIDE DEF gs
<1>4. OthersUntouched(t)
  BY DEF OnlyHolder, OthersUntouched
<1>5. ASSUME NEW j \in Slot
      PROVE  /\ Fits(latch', home', content', t, gs[j]) /\ KindFits(gs[j]) /\ OptimisticFits(b, j, gs[j])
  <2>1. CASE j = i
    BY <1>2, <2>1
  <2>2. CASE j # i
    <3>1. /\ Fits(latch, home, content, t, guard[t][j]) /\ KindFits(guard[t][j])
          /\ OptimisticFits(busy[t], j, guard[t][j])
      BY DEF GuardInv, AllFit
    <3>2. guard[t][j] \in GuardType /\ (SameView \/ ~(HasX(guard[t][j]) \/ HasS(guard[t][j])))
      BY <1>1, <2>2 DEF OnlyHolder
    <3>3. Fits(latch', home', content', t, guard[t][j])
      BY <1>1, <3>1, <3>2, GuardStays
    <3>4. OptimisticFits(b, j, guard[t][j])
      BY <2>2, <3>1 DEF OptimisticFits
    <3> QED
      BY <1>2, <2>2, <3>1, <3>3, <3>4
  <2> QED
    BY <2>1, <2>2
<1>6. b.pc # "rest" => b.slot \in Slot /\ Underway(latch', home', content', b, gs[b.slot])
  BY <1>1, <1>2
<1>7. \A j, k \in Slot : HasX(gs[j]) /\ HasX(gs[k]) => j = k
  <2>1. \A j, k \in Slot : HasX(guard[t][j]) /\ HasX(guard[t][k]) => j = k
    BY DEF GuardInv, OneExclusive
  <2> QED
    BY <1>2, <2>1
<1>8. ASSUME NEW f \in Frame
      PROVE  /\ Cardinality(Sharing(gs, f)) = latch'[f].s[t]
             /\ \A u \in Thread : u # t => latch'[f].s[u] = latch[f].s[u]
  <2>1. \A j \in Slot : gs[j] = IF j = i THEN g ELSE guard[t][j]
    BY <1>2
  <2>2. Cardinality(Sharing(guard[t], f)) = latch[f].s[t]
    BY DEF GuardInv, SharersCount
  <2>3. Cardinality(Sharing(gs, f)) =
           Cardinality(Sharing(guard[t], f)) + Counted(HasS(g) /\ g.frame = f)
                                       - Counted(HasS(guard[t][i]) /\ guard[t][i].frame = f)
    BY <1>1, <2>1, SharersChange
  <2> QED
    BY <2>2, <2>3 DEF SharesAs
<1> QED
  BY <1>3, <1>4, <1>5, <1>6, <1>7, <1>8, ThreadStep

(* Every latch that is held belongs to a guard if the one that changes sees to it. *)
LEMMA OwnerStep ==
  ASSUME Apart, GuardInv, OwnerInv, NEW t \in Thread, NEW i, NEW g, NEW b, Turns(t, i, g, b),
         ~misuse', LatchIsOwned(g),
         \A f \in Frame :
           /\ \/ latch'[f].x = latch[f].x \/ latch'[f].x = None
              \/ latch'[f].x = t /\ HasX(g) /\ g.frame = f
           /\ latch'[f].x = t /\ HasX(guard[t][i]) /\ guard[t][i].frame = f => HasX(g) /\ g.frame = f
  PROVE  OwnerInv'
<1>1. /\ i \in Slot /\ guard'[t][i] = g
      /\ \A j \in Slot : j # i => guard'[t][j] = guard[t][j]
      /\ \A u \in Thread : u # t => guard'[u] = guard[u]
  BY DEF GuardInv, GuardTypes, Turns
<1>2. \A u \in Thread, j \in Slot : LatchIsOwned(guard'[u][j])
  <2>1. \A u \in Thread, j \in Slot : LatchIsOwned(guard[u][j])
    BY DEF OwnerInv
  <2> QED
    BY <1>1, <2>1
<1>3. ASSUME NEW f \in Frame, NEW u \in Thread, latch'[f].x = u
      PROVE  \E j \in Slot : HasX(guard'[u][j]) /\ guard'[u][j].frame = f
  <2>1. CASE u = t /\ HasX(g) /\ g.frame = f
    BY <1>1, <2>1
  <2>2. CASE ~(u = t /\ HasX(g) /\ g.frame = f)
    <3>1. latch[f].x = u
      BY <1>3, <2>2 DEF Apart
    <3>2. PICK j \in Slot : HasX(guard[u][j]) /\ guard[u][j].frame = f
      BY <3>1 DEF OwnerInv
    <3>3. ~(u = t /\ j = i)
      BY <1>3, <2>2, <3>2
    <3> QED
      BY <1>1, <3>2, <3>3
  <2> QED
    BY <2>1, <2>2
<1> QED
  BY <1>2, <1>3 DEF OwnerInv

-----------------------------------------------------------------------------
(* What the operations of the latch do *)

NobodyHolds == \A u \in Thread, j \in Slot : ~(HasX(guard[u][j]) \/ HasS(guard[u][j]))

(* The shared holds are as before. *)
SameShares == \A f \in Frame, u \in Thread : latch'[f].s[u] = latch[f].s[u]

(* A latch that nobody has is on the page, or the page is nowhere: then no guard holds one. *)
LEMMA UnlatchedIsFree ==
  ASSUME Apart, GuardInv, NEW f \in Frame, Unlatched(f), home \in {None, f}
  PROVE  NobodyHolds
<1> SUFFICES ASSUME NEW u \in Thread, NEW j \in Slot, HasX(guard[u][j]) \/ HasS(guard[u][j])
             PROVE  FALSE
  BY DEF NobodyHolds
<1> DEFINE g == guard[u][j]
<1>1. Fits(latch, home, content, u, g)
  BY DEF GuardInv, AllFit
<1>2. g.frame = f
  BY <1>1 DEF Fits, OnPage, Apart
<1>3. ~HasX(g)
  BY <1>1, <1>2 DEF Fits, Unlatched, Apart
<1>4. Cardinality(Sharing(guard[u], f)) = 0
  BY DEF GuardInv, SharersCount, Unlatched
<1>5. IsFiniteSet(Sharing(guard[u], f))
  BY FS_Subset DEF Apart, Sharing
<1>6. Sharing(guard[u], f) = {}
  BY <1>4, <1>5, FS_EmptySet
<1>7. j \in Sharing(guard[u], f)
  BY <1>2, <1>3 DEF Sharing
<1> QED
  BY <1>6, <1>7

(* The latch of a frame becomes m, the others stay. *)
Latches(f, m) == latch' = [latch EXCEPT ![f] = m]

(* The other latches stay as they are. *)
LEMMA OneLatch ==
  ASSUME GuardInv, NEW f \in Frame, NEW m \in LatchType, Latches(f, m), LatchFits(m)
  PROVE  /\ latch' \in [Frame -> LatchType] /\ LatchesFit' /\ latch'[f] = m
         /\ \A h \in Frame : h # f => latch'[h] = latch[h]
<1>1. /\ latch' \in [Frame -> LatchType] /\ latch'[f] = m
      /\ \A h \in Frame : h # f => latch'[h] = latch[h]
  BY DEF GuardInv, GuardTypes, Latches
<1>2. LatchesFit'
  BY <1>1 DEF GuardInv, LatchesFit
<1> QED
  BY <1>1, <1>2

(* latchExclusive *)
LEMMA TakeX ==
  ASSUME Apart, GuardInv, NEW t \in Thread, NEW f \in Frame, Unlatched(f), home \in {None, f},
         home' = f, content' = content, latch' = Latched(latch, f, t)
  PROVE  /\ latch' \in [Frame -> LatchType] /\ LatchesFit' /\ Kept /\ NobodyHolds /\ SameShares
         /\ latch'[f].x = t /\ latch'[f].version = latch[f].version + 1
         /\ \A h \in Frame : h # f => latch'[h] = latch[h]
<1> DEFINE m == [version |-> latch[f].version + 1, x |-> t, s |-> latch[f].s]
<1>0. latch[f] \in LatchType /\ latch[f].version \in Nat /\ latch \in [Frame -> LatchType]
  BY DEF GuardInv, GuardTypes, LatchType
<1>1. m \in LatchType /\ Latches(f, m)
  BY <1>0 DEF LatchType, Latches, Latched
<1>2. LatchFits(latch[f]) /\ latch[f].x = None /\ \A u \in Thread : latch[f].s[u] = 0
  BY DEF GuardInv, LatchesFit, Unlatched
<1>3. LatchFits(m)
  BY <1>0, <1>2, Parity DEF LatchFits, Apart
<1> HIDE DEF m
<1>4. /\ latch' \in [Frame -> LatchType] /\ LatchesFit' /\ latch'[f] = m
      /\ \A h \in Frame : h # f => latch'[h] = latch[h]
  BY <1>1, <1>3, OneLatch
<1>5. latch'[f].x = t /\ latch'[f].version = latch[f].version + 1 /\ latch'[f].s = latch[f].s
  BY <1>4 DEF m
<1>6. Kept
  <2>1. \A h \in Frame : latch[h].version \in Nat
    BY <1>0 DEF LatchType
  <2> QED
    BY <1>4, <1>5, <2>1 DEF Kept, Apart
<1>7. SameShares
  BY <1>4, <1>5 DEF SameShares
<1> QED
  BY <1>4, <1>5, <1>6, <1>7, UnlatchedIsFree

(* A page that nobody has latched is latched and unlatched by somebody else. *)
LEMMA Passing ==
  ASSUME Apart, GuardInv, NEW f \in Frame, Unlatched(f), home \in {None, f},
         latch' = [latch EXCEPT ![f].version = @ + 2]
  PROVE  /\ latch' \in [Frame -> LatchType] /\ LatchesFit' /\ Kept /\ NobodyHolds /\ SameShares
         /\ latch'[f].version = latch[f].version + 2
         /\ \A h \in Frame : latch'[h].x = latch[h].x /\ (h # f => latch'[h] = latch[h])
<1> DEFINE m == [version |-> latch[f].version + 2, x |-> latch[f].x, s |-> latch[f].s]
<1>0. latch[f] \in LatchType /\ latch[f].version \in Nat /\ latch \in [Frame -> LatchType]
  BY DEF GuardInv, GuardTypes, LatchType
<1>1. m \in LatchType /\ Latches(f, m)
  <2>1. m \in LatchType
    BY <1>0 DEF LatchType
  <2>2. [latch[f] EXCEPT !.version = @ + 2] = m
    BY ONLY <1>0 DEF LatchType
  <2>3. latch' = [latch EXCEPT ![f] = [latch[f] EXCEPT !.version = @ + 2]]
    BY <1>0
  <2> QED
    BY <2>1, <2>2, <2>3 DEF Latches
<1>2. LatchFits(latch[f])
  BY DEF GuardInv, LatchesFit
<1>3. LatchFits(m)
  BY <1>0, <1>2, Parity DEF LatchFits
<1> HIDE DEF m
<1>4. /\ latch' \in [Frame -> LatchType] /\ LatchesFit' /\ latch'[f] = m
      /\ \A h \in Frame : h # f => latch'[h] = latch[h]
  BY <1>1, <1>3, OneLatch
<1>5. latch'[f].x = latch[f].x /\ latch'[f].version = latch[f].version + 2 /\ latch'[f].s = latch[f].s
  BY <1>4 DEF m
<1>6. Kept
  <2>1. \A h \in Frame : latch[h].version \in Nat
    BY <1>0 DEF LatchType
  <2> QED
    BY <1>4, <1>5, <2>1 DEF Kept, Apart
<1>7. SameShares
  BY <1>4, <1>5 DEF SameShares
<1> QED
  BY <1>4, <1>5, <1>6, <1>7, UnlatchedIsFree

(* Whoever holds the latch of the page exclusively is the only holder. *)
LEMMA HolderIsAlone ==
  ASSUME Apart, GuardInv, NEW t \in Thread, NEW i \in Slot, HasX(guard[t][i])
  PROVE  /\ \A u \in Thread, j \in Slot : HasX(guard[u][j]) \/ HasS(guard[u][j]) => u = t /\ j = i
         /\ OnPage(latch, home, content, guard[t][i]) /\ latch[guard[t][i].frame].x = t
<1>1. OnPage(latch, home, content, guard[t][i]) /\ latch[guard[t][i].frame].x = t
  BY DEF GuardInv, AllFit, Fits
<1>2. ASSUME NEW u \in Thread, NEW j \in Slot, HasX(guard[u][j]) \/ HasS(guard[u][j])
      PROVE  u = t /\ j = i
  <2>1. Fits(latch, home, content, u, guard[u][j])
    BY DEF GuardInv, AllFit
  <2>2. guard[u][j].frame = guard[t][i].frame
    BY <1>1, <1>2, <2>1 DEF Fits, OnPage
  <2>3. u = t /\ HasX(guard[u][j])
    BY <1>1, <1>2, <2>1, <2>2 DEF Fits, Apart
  <2> QED
    BY <2>3 DEF GuardInv, OneExclusive
<1> QED
  BY <1>1, <1>2

(* The latch of a frame after unlatchExclusive *)
LEMMA UnlatchedRecord ==
  ASSUME NEW l \in LatchType
  PROVE  [l EXCEPT !.x = None, !.version = @ + 1] = [version |-> l.version + 1, x |-> None, s |-> l.s]
<1> DEFINE r == [l EXCEPT !.x = None, !.version = @ + 1]
<1>1. r \in LatchType /\ r.version = l.version + 1 /\ r.x = None /\ r.s = l.s
  <2>1. l.version \in Nat /\ l.version + 1 \in Nat /\ None \in Thread \cup {None}
    BY DEF LatchType
  <2>2. r.version = l.version + 1 /\ r.x = None /\ r.s = l.s
    BY DEF LatchType
  <2>3. r \in LatchType
    BY <2>1 DEF LatchType
  <2> QED
    BY <2>2, <2>3
<1> HIDE DEF r
<1>2. r = [version |-> r.version, x |-> r.x, s |-> r.s]
  BY <1>1 DEF LatchType
<1> QED
  BY <1>1, <1>2 DEF r

(* unlatchExclusive *)
LEMMA GiveX ==
  ASSUME Apart, GuardInv, NEW t \in Thread, NEW i \in Slot, HasX(guard[t][i]),
         latch' = UnlatchedX(latch, guard[t][i].frame)
  PROVE  LET f == guard[t][i].frame IN
         /\ latch' \in [Frame -> LatchType] /\ LatchesFit' /\ Kept /\ OnlyHolder(t, i) /\ SameShares
         /\ OnPage(latch, home, content, guard[t][i]) /\ latch[f].x = t
         /\ latch'[f].x = None /\ latch'[f].version = latch[f].version + 1
         /\ Even(latch'[f].version)
         /\ \A h \in Frame : h # f => latch'[h] = latch[h]
<1> DEFINE f == guard[t][i].frame
           m == [version |-> latch[f].version + 1, x |-> None, s |-> latch[f].s]
<1>h. /\ \A u \in Thread, j \in Slot : HasX(guard[u][j]) \/ HasS(guard[u][j]) => u = t /\ j = i
      /\ OnPage(latch, home, content, guard[t][i]) /\ latch[f].x = t
  BY HolderIsAlone
<1>0. /\ f \in Frame /\ home = f /\ latch[f] \in LatchType /\ latch[f].version \in Nat
      /\ latch \in [Frame -> LatchType]
  BY <1>h DEF GuardInv, GuardTypes, LatchType, OnPage
<1>1. m \in LatchType /\ Latches(f, m)
  <2>1. m \in LatchType
    BY <1>0 DEF LatchType
  <2>2. [latch[f] EXCEPT !.x = None, !.version = @ + 1] = m
    BY <1>0, UnlatchedRecord
  <2>3. latch' = [latch EXCEPT ![f] = [latch[f] EXCEPT !.x = None, !.version = @ + 1]]
    BY <1>0 DEF UnlatchedX
  <2> QED
    BY <2>1, <2>2, <2>3 DEF Latches
<1>2. LatchFits(latch[f])
  BY <1>0 DEF GuardInv, LatchesFit
<1>3. LatchFits(m) /\ Even(latch[f].version + 1)
  BY <1>h, <1>0, <1>2, Parity DEF LatchFits, Apart
<1> HIDE DEF m, f
<1>4. /\ latch' \in [Frame -> LatchType] /\ LatchesFit' /\ latch'[f] = m
      /\ \A h \in Frame : h # f => latch'[h] = latch[h]
  BY <1>0, <1>1, <1>3, OneLatch
<1>5. latch'[f].x = None /\ latch'[f].version = latch[f].version + 1 /\ latch'[f].s = latch[f].s
  BY <1>4 DEF m
<1>6. Kept
  <2>1. \A h \in Frame : latch[h].version \in Nat
    BY <1>0 DEF LatchType
  <2> QED
    BY <1>0, <1>4, <1>5, <2>1 DEF Kept
<1>7. SameShares
  BY <1>4, <1>5 DEF SameShares
<1>8. OnlyHolder(t, i)
  BY <1>h DEF OnlyHolder
<1> QED
  BY <1>h, <1>3, <1>4, <1>5, <1>6, <1>7, <1>8 DEF f

(* latchShared and tryLatchShared: thread t shares the latch once more. *)
LEMMA TakeS ==
  ASSUME Apart, GuardInv, NEW t \in Thread, NEW f \in Frame, latch[f].x = None,
         home' = home, content' = content, latch' = LatchedS(latch, f, t)
  PROVE  /\ latch' \in [Frame -> LatchType] /\ LatchesFit' /\ SameView /\ Kept
         /\ \A u \in Thread : latch'[f].s[u] = latch[f].s[u] + Counted(u = t)
         /\ \A h \in Frame : h # f => latch'[h] = latch[h]
<1> DEFINE z == [latch[f].s EXCEPT ![t] = @ + 1]
           m == [version |-> latch[f].version, x |-> None, s |-> z]
<1>0. /\ latch[f] \in LatchType /\ latch[f].version \in Nat /\ latch \in [Frame -> LatchType]
      /\ latch[f].s \in [Thread -> Nat]
  BY DEF GuardInv, GuardTypes, LatchType
<1>1. z \in [Thread -> Nat] /\ \A u \in Thread : z[u] = latch[f].s[u] + Counted(u = t)
  BY <1>0 DEF Counted
<1>2. m \in LatchType /\ Latches(f, m)
  <2>1. m \in LatchType
    BY <1>0, <1>1 DEF LatchType
  <2>2. [latch[f] EXCEPT !.s = z] = m
    BY <1>0 DEF LatchType
  <2>3. latch' = [latch EXCEPT ![f] = [latch[f] EXCEPT !.s = z]]
    BY <1>0 DEF LatchedS
  <2> QED
    BY <2>1, <2>2, <2>3 DEF Latches
<1>3. LatchFits(m)
  BY DEF GuardInv, LatchesFit, LatchFits
<1> HIDE DEF m
<1>4. /\ latch' \in [Frame -> LatchType] /\ LatchesFit' /\ latch'[f] = m
      /\ \A h \in Frame : h # f => latch'[h] = latch[h]
  BY <1>2, <1>3, OneLatch
<1>5. latch'[f].x = None /\ latch'[f].version = latch[f].version /\ latch'[f].s = z
  BY <1>4 DEF m
<1>6. SameView
  BY <1>4, <1>5 DEF SameView
<1>7. Kept
  BY <1>6, SameIsKept DEF GuardInv
<1> QED
  BY <1>1, <1>4, <1>5, <1>6, <1>7

(* unlatchShared *)
LEMMA GiveS ==
  ASSUME Apart, GuardInv, NEW t \in Thread, NEW i \in Slot, HasS(guard[t][i]),
         home' = home, content' = content, latch' = UnlatchedS(latch, guard[t][i].frame, t)
  PROVE  LET f == guard[t][i].frame IN
         /\ latch' \in [Frame -> LatchType] /\ LatchesFit' /\ SameView /\ Kept
         /\ OnPage(latch, home, content, guard[t][i]) /\ latch[f].x = None /\ Even(latch[f].version)
         /\ \A u \in Thread : latch'[f].s[u] = latch[f].s[u] - Counted(u = t)
         /\ \A h \in Frame : h # f => latch'[h] = latch[h]
<1> DEFINE f == guard[t][i].frame
           z == [latch[f].s EXCEPT ![t] = @ - 1]
           m == [version |-> latch[f].version, x |-> None, s |-> z]
<1>h. OnPage(latch, home, content, guard[t][i]) /\ latch[f].x = None
  BY DEF GuardInv, AllFit, Fits
<1>0. /\ f \in Frame /\ latch[f] \in LatchType /\ latch[f].version \in Nat /\ latch \in [Frame -> LatchType]
      /\ latch[f].s \in [Thread -> Nat]
  BY <1>h DEF GuardInv, GuardTypes, LatchType, OnPage
<1>p. latch[f].s[t] # 0
  <2>1. i \in Sharing(guard[t], f)
    BY DEF Sharing
  <2>2. IsFiniteSet(Sharing(guard[t], f))
    BY FS_Subset DEF Apart, Sharing
  <2>3. Cardinality(Sharing(guard[t], f)) # 0
    BY <2>1, <2>2, FS_EmptySet
  <2> QED
    BY <1>0, <2>3 DEF GuardInv, SharersCount
<1> HIDE DEF f
<1>1. z \in [Thread -> Nat] /\ \A u \in Thread : z[u] = latch[f].s[u] - Counted(u = t)
  BY <1>0, <1>p DEF Counted
<1>2. m \in LatchType /\ Latches(f, m)
  <2>1. m \in LatchType
    BY <1>0, <1>1 DEF LatchType
  <2>2. [latch[f] EXCEPT !.s = z] = m
    BY <1>0, <1>h DEF LatchType
  <2>3. latch' = [latch EXCEPT ![f] = [latch[f] EXCEPT !.s = z]]
    BY <1>0 DEF UnlatchedS, f
  <2> QED
    BY <2>1, <2>2, <2>3 DEF Latches
<1>3. LatchFits(m) /\ Even(latch[f].version)
  BY <1>0, <1>h DEF GuardInv, LatchesFit, LatchFits
<1> HIDE DEF m
<1>4. /\ latch' \in [Frame -> LatchType] /\ LatchesFit' /\ latch'[f] = m
      /\ \A h \in Frame : h # f => latch'[h] = latch[h]
  BY <1>0, <1>2, <1>3, OneLatch
<1>5. latch'[f].x = None /\ latch'[f].version = latch[f].version /\ latch'[f].s = z
  BY <1>4 DEF m
<1>6. SameView
  BY <1>h, <1>4, <1>5 DEF SameView
<1>7. Kept
  BY <1>6, SameIsKept DEF GuardInv
<1> QED
  BY <1>1, <1>3, <1>4, <1>5, <1>6, <1>7, <1>h DEF f

(* The latches stay as they are. *)
LEMMA NoLatch ==
  ASSUME GuardInv, home' = home, content' = content, latch' = latch
  PROVE  latch' \in [Frame -> LatchType] /\ LatchesFit' /\ SameView /\ Kept /\ SameShares
<1>1. SameView /\ SameShares
  BY DEF SameView, SameShares
<1> QED
  BY <1>1, SameIsKept DEF GuardInv, GuardTypes, LatchesFit

(* How the shared holds follow a guard that changes *)
LEMMA NoShare ==
  ASSUME GuardInv, NEW t \in Thread, NEW i, NEW g, SameShares, ~HasS(g), ~HasS(guard[t][i])
  PROVE  SharesAs(t, i, g)
<1>1. \A f \in Frame : latch[f].s[t] \in Nat
  BY DEF GuardInv, GuardTypes, LatchType
<1> QED
  BY <1>1 DEF SharesAs, SameShares, Counted

(* The guard shares the latch of its frame from now on. *)
LEMMA OneMoreShare ==
  ASSUME GuardInv, NEW t \in Thread, NEW i, NEW g, HasS(g), ~HasS(guard[t][i]), g.frame \in Frame,
         \A u \in Thread : latch'[g.frame].s[u] = latch[g.frame].s[u] + Counted(u = t),
         \A h \in Frame : h # g.frame => latch'[h] = latch[h]
  PROVE  SharesAs(t, i, g)
<1>1. \A f \in Frame, u \in Thread : latch[f].s[u] \in Nat
  BY DEF GuardInv, GuardTypes, LatchType
<1> QED
  BY <1>1 DEF SharesAs, Counted

(* The guard no longer shares the latch of its frame. *)
LEMMA OneShareLess ==
  ASSUME GuardInv, NEW t \in Thread, NEW i, NEW g, ~HasS(g), HasS(guard[t][i]),
         guard[t][i].frame \in Frame,
         \A u \in Thread : latch'[guard[t][i].frame].s[u] = latch[guard[t][i].frame].s[u] - Counted(u = t),
         \A h \in Frame : h # guard[t][i].frame => latch'[h] = latch[h]
  PROVE  SharesAs(t, i, g)
<1>1. \A f \in Frame, u \in Thread : latch[f].s[u] \in Nat
  BY DEF GuardInv, GuardTypes, LatchType
<1> QED
  BY <1>1 DEF SharesAs, Counted

(* What a guard of a resting thread is, and one that is not there *)
LEMMA GuardIs ==
  ASSUME GuardInv, NEW t \in Thread, NEW i \in Slot
  PROVE  /\ guard[t][i] \in GuardType /\ Fits(latch, home, content, t, guard[t][i])
         /\ KindFits(guard[t][i]) /\ OptimisticFits(busy[t], i, guard[t][i]) /\ busy[t] \in BusyType
BY DEF GuardInv, GuardTypes, AllFit

(* The thread rests. *)
LEMMA RestingIs == Resting \in BusyType /\ Resting.pc = "rest"
BY DEF Resting, BusyType

(* The invariants after a step *)
KeepsInv == GuardInv' /\ (OwnerInv /\ KeepsLatches => OwnerInv')

-----------------------------------------------------------------------------
(* One lemma per operation *)

(* fix of a page that is there: latched exclusively, shared or not at all *)
LEMMA FixHitStep ==
  ASSUME Apart, GuardInv, NEW t \in Thread, NEW i \in Slot, NEW kind \in {"X", "S", "O"}, FixHit(t, i, kind)
  PROVE  KeepsInv
<1>1. /\ busy[t] = Resting /\ guard[t][i].kind = "none" /\ home \in Frame
      /\ home' = home /\ content' = content /\ busy' = busy /\ misuse' = misuse
  BY DEF FixHit, Idle, GuardInv, GuardTypes
<1>2. /\ guard[t][i] \in GuardType /\ KindFits(guard[t][i]) /\ busy[t].pc = "rest"
      /\ ~HasX(guard[t][i]) /\ ~HasS(guard[t][i]) /\ Resting \in BusyType
  BY <1>1, GuardIs, RestingIs DEF KindFits, HasX, HasS
<1>3. /\ busy' = [busy EXCEPT ![t] = Resting] /\ content \in Nat /\ content' \in Nat /\ home' \in Frame \cup {None}
      /\ latch[home].version \in Nat /\ latch \in [Frame -> LatchType]
  BY <1>1 DEF GuardInv, GuardTypes, LatchType
<1>4. CASE kind = "X"
  <2> DEFINE g == NewGuard("X", home, latch[home].version + 1)
  <2>1. Unlatched(home) /\ latch' = Latched(latch, home, t)
    BY <1>4 DEF FixHit
  <2>2. /\ latch' \in [Frame -> LatchType] /\ LatchesFit' /\ Kept /\ NobodyHolds /\ SameShares
        /\ latch'[home].x = t /\ latch'[home].version = latch[home].version + 1
        /\ \A h \in Frame : h # home => latch'[h] = latch[h]
    BY <1>1, <2>1, TakeX
  <2>3. guard' = [guard EXCEPT ![t][i] = g]
    BY <1>4, <2>1, <2>2 DEF FixHit, Set
  <2>4. /\ g \in GuardType /\ HasX(g) /\ ~HasS(g) /\ g.frame = home /\ g.seen = content /\ g.kind = "X"
        /\ g.v = latch'[home].version /\ KindFits(g) /\ OptimisticFits(Resting, i, g) /\ LatchIsOwned(g)
    BY <1>1, <1>3, <2>2 DEF GuardType, NewGuard, LATCHSTATE, HasX, HasS, KindFits, OptimisticFits, LatchIsOwned
  <2> HIDE DEF g
  <2>5. Turns(t, i, g, Resting)
    BY <1>2, <1>3, <2>2, <2>3, <2>4 DEF Turns
  <2>6. Fits(latch', home', content', t, g)
    BY <1>1, <2>2, <2>4 DEF Fits, OnPage, HasX, HasS
  <2>7. GuardInv'
    BY <1>2, <2>2, <2>4, <2>5, <2>6, GuardStep, NoShare, RestingIs DEF OnlyHolder, NobodyHolds
  <2>8. OwnerInv => OwnerInv'
    BY <1>1, <1>2, <2>2, <2>4, <2>5, OwnerStep DEF OwnerInv
  <2> QED
    BY <2>7, <2>8 DEF KeepsInv
<1>5. CASE kind = "S"
  <2> DEFINE g == NewGuard("S", home, latch[home].version)
  <2>1. latch[home].x = None /\ latch' = LatchedS(latch, home, t)
    BY <1>5 DEF FixHit
  <2>2. /\ latch' \in [Frame -> LatchType] /\ LatchesFit' /\ SameView /\ Kept
        /\ \A u \in Thread : latch'[home].s[u] = latch[home].s[u] + Counted(u = t)
        /\ \A h \in Frame : h # home => latch'[h] = latch[h]
    BY <1>1, <2>1, TakeS
  <2>3. guard' = [guard EXCEPT ![t][i] = g] /\ latch'[home].version = latch[home].version /\ latch'[home].x = None
    BY <1>1, <1>5, <2>1, <2>2 DEF FixHit, Set, SameView
  <2>4. /\ g \in GuardType /\ ~HasX(g) /\ HasS(g) /\ g.frame = home /\ g.seen = content /\ g.kind = "S"
        /\ g.v = latch'[home].version /\ KindFits(g) /\ OptimisticFits(Resting, i, g) /\ LatchIsOwned(g)
    BY <1>1, <1>3, <2>3 DEF GuardType, NewGuard, LATCHSTATE, HasX, HasS, KindFits, OptimisticFits, LatchIsOwned
  <2> HIDE DEF g
  <2>5. Turns(t, i, g, Resting)
    BY <1>2, <1>3, <2>2, <2>3, <2>4 DEF Turns
  <2>6. Fits(latch', home', content', t, g)
    BY <1>1, <2>3, <2>4 DEF Fits, OnPage, HasX, HasS
  <2>7. SharesAs(t, i, g)
    BY <1>1, <1>2, <2>2, <2>4, OneMoreShare
  <2>8. GuardInv'
    BY <1>2, <2>2, <2>4, <2>5, <2>6, <2>7, GuardStep, RestingIs DEF OnlyHolder
  <2>9. OwnerInv => OwnerInv'
    BY <1>1, <1>2, <2>2, <2>4, <2>5, OwnerStep DEF OwnerInv, SameView
  <2> QED
    BY <2>8, <2>9 DEF KeepsInv
<1>6. CASE kind = "O"
  <2> DEFINE g == NewGuard("O", home, latch[home].version)
  <2>1. latch[home].x = None /\ latch' = latch /\ guard' = [guard EXCEPT ![t][i] = g]
    BY <1>6 DEF FixHit, Set
  <2>2. latch' \in [Frame -> LatchType] /\ LatchesFit' /\ SameView /\ Kept /\ SameShares
    BY <1>1, <2>1, NoLatch
  <2>3. Even(latch[home].version)
    BY <1>1, <2>1 DEF GuardInv, LatchesFit, LatchFits
  <2>4. /\ g \in GuardType /\ ~HasX(g) /\ ~HasS(g) /\ g.frame = home /\ g.seen = content /\ g.kind = "O"
        /\ g.v = latch[home].version /\ KindFits(g) /\ OptimisticFits(Resting, i, g) /\ LatchIsOwned(g)
    BY <1>1, <1>3 DEF GuardType, NewGuard, LATCHSTATE, HasX, HasS, KindFits, OptimisticFits, LatchIsOwned
  <2> HIDE DEF g
  <2>5. Turns(t, i, g, Resting)
    BY <1>2, <1>3, <2>1, <2>2, <2>4 DEF Turns
  <2>6. Fits(latch', home', content', t, g)
    BY <1>1, <1>3, <2>1, <2>3, <2>4 DEF Fits, Known
  <2>7. GuardInv'
    BY <1>2, <2>2, <2>4, <2>5, <2>6, GuardStep, NoShare, RestingIs DEF OnlyHolder
  <2>8. OwnerInv => OwnerInv'
    BY <1>1, <1>2, <2>1, <2>4, <2>5, OwnerStep DEF OwnerInv
  <2> QED
    BY <2>7, <2>8 DEF KeepsInv
<1> QED
  BY <1>4, <1>5, <1>6

(* fix of a page that has to be brought in *)
LEMMA FixColdStep ==
  ASSUME Apart, GuardInv, NEW t \in Thread, NEW i \in Slot, NEW kind \in {"X", "S", "O"}, FixCold(t, i, kind)
  PROVE  KeepsInv
<1>1. PICK f \in Frame :
        /\ Unlatched(f) /\ home' = f /\ latch' = Latched(latch, f, t)
        /\ Set(t, i, [NewGuard("X", f, latch'[f].version) EXCEPT !.kind = kind])
        /\ IF kind = "X" THEN Finish(t) ELSE Continue(t, "downgrade", i, kind)
  BY DEF FixCold
<1>2. /\ busy[t] = Resting /\ guard[t][i].kind = "none" /\ home = None
      /\ content' = content /\ misuse' = misuse /\ content \in Nat
  BY DEF FixCold, Idle, GuardInv, GuardTypes
<1>3. /\ guard[t][i] \in GuardType /\ KindFits(guard[t][i]) /\ busy[t].pc = "rest"
      /\ ~HasX(guard[t][i]) /\ ~HasS(guard[t][i])
  BY <1>2, GuardIs, RestingIs DEF KindFits, HasX, HasS
<1>4. /\ latch' \in [Frame -> LatchType] /\ LatchesFit' /\ Kept /\ NobodyHolds /\ SameShares
      /\ latch'[f].x = t /\ latch'[f].version = latch[f].version + 1
      /\ \A h \in Frame : h # f => latch'[h] = latch[h]
  BY <1>1, <1>2, TakeX
<1>5. latch'[f].version \in Nat
  BY <1>4 DEF LatchType
<1> DEFINE g == [NewGuard("X", f, latch'[f].version) EXCEPT !.kind = kind]
           b == IF kind = "X" THEN Resting ELSE [pc |-> "downgrade", slot |-> i, kind |-> kind]
<1>6. guard' = [guard EXCEPT ![t][i] = g] /\ busy' = [busy EXCEPT ![t] = b]
  BY <1>1 DEF Set, Finish, Continue
<1>7. /\ g \in GuardType /\ HasX(g) /\ ~HasS(g) /\ g.frame = f /\ g.seen = content /\ g.kind = kind
      /\ g.v = latch'[f].version /\ LatchIsOwned(g)
  BY <1>2, <1>5 DEF GuardType, NewGuard, LATCHSTATE, HasX, HasS, LatchIsOwned
<1>8. /\ b \in BusyType /\ (b.pc # "rest" => b.pc = "downgrade" /\ b.slot = i /\ b.kind = kind /\ kind \in {"S", "O"})
      /\ (kind = "O" => b.pc = "downgrade" /\ b.slot = i)
  BY RestingIs DEF BusyType
<1> HIDE DEF g, b
<1>9. KindFits(g) /\ OptimisticFits(b, i, g)
  BY <1>7, <1>8 DEF KindFits, OptimisticFits, HasX
<1>10. Turns(t, i, g, b)
  BY <1>1, <1>2, <1>4, <1>6, <1>7, <1>8 DEF Turns
<1>11. Fits(latch', home', content', t, g) /\ (b.pc # "rest" => Underway(latch', home', content', b, g))
  BY <1>1, <1>2, <1>4, <1>7, <1>8 DEF Fits, OnPage, HasX, HasS, Underway
<1>12. GuardInv'
  BY <1>3, <1>4, <1>7, <1>8, <1>9, <1>10, <1>11, GuardStep, NoShare DEF OnlyHolder, NobodyHolds
<1>13. OwnerInv => OwnerInv'
  BY <1>2, <1>3, <1>4, <1>7, <1>10, OwnerStep DEF OwnerInv
<1> QED
  BY <1>12, <1>13 DEF KeepsInv

(* The conversion under way *)
LEMMA BusyIs ==
  ASSUME GuardInv, NEW t \in Thread, busy[t].pc # "rest"
  PROVE  /\ busy[t].slot \in Slot /\ busy[t] \in BusyType
         /\ Underway(latch, home, content, busy[t], guard[t][busy[t].slot])
BY DEF GuardInv, AllUnderway, GuardTypes

(* A guard that was exclusive knows the page until the version changes. *)
LEMMA KnownAfterX ==
  ASSUME Apart, GuardInv, NEW t \in Thread, NEW i \in Slot, HasX(guard[t][i]),
         latch' = UnlatchedX(latch, guard[t][i].frame), home' = home, content' = content
  PROVE  /\ Known(latch', home', content', guard[t][i].frame, guard[t][i].v + 1, guard[t][i].seen)
         /\ guard[t][i].v + 1 \in Nat
<1> DEFINE f == guard[t][i].frame
<1>1. /\ latch' \in [Frame -> LatchType] /\ OnPage(latch, home, content, guard[t][i])
      /\ latch'[f].version = latch[f].version + 1 /\ Even(latch'[f].version)
  BY GiveX
<1>2. f \in Frame /\ guard[t][i].v \in Nat /\ guard[t][i].v = latch[f].version
  BY <1>1, GuardIs DEF OnPage, GuardType
<1> QED
  BY <1>1, <1>2 DEF Known, OnPage

(* downgrade: the frame is unlatched and the guard knows the version after that. *)
LEMMA DowngradeBeginStep ==
  ASSUME Apart, GuardInv, NEW t \in Thread, DowngradeBegin(t)
  PROVE  KeepsInv
<1> DEFINE i == busy[t].slot
           o == guard[t][i]
<1>1. /\ busy[t].pc = "downgrade" /\ latch' = UnlatchedX(latch, o.frame)
      /\ home' = home /\ content' = content /\ misuse' = misuse
  BY DEF DowngradeBegin
<1>2. /\ i \in Slot /\ HasX(o) /\ o.kind = busy[t].kind /\ o.kind \in {"S", "O"} /\ o \in GuardType
  BY <1>1, BusyIs, GuardIs DEF Underway
<1>3. /\ latch' \in [Frame -> LatchType] /\ LatchesFit' /\ Kept /\ OnlyHolder(t, i) /\ SameShares
      /\ o.frame \in Frame /\ latch'[o.frame].x = None
      /\ \A h \in Frame : h # o.frame => latch'[h] = latch[h]
  BY <1>1, <1>2, GiveX DEF OnPage
<1>4. Known(latch', home', content', o.frame, o.v + 1, o.seen) /\ o.v + 1 \in Nat
  BY <1>1, <1>2, KnownAfterX
<1> DEFINE g == [o EXCEPT !.latchState = IF o.kind = "O" THEN "OPTIMISTIC" ELSE "UNLATCHED", !.v = @ + 1]
           b == IF o.kind = "O" THEN Resting ELSE [pc |-> "downgraded", slot |-> i, kind |-> "S"]
<1>5. guard' = [guard EXCEPT ![t][i] = g] /\ busy' = [busy EXCEPT ![t] = b]
  BY <1>2 DEF DowngradeBegin, Set, Finish, Continue
<1>6. /\ g \in GuardType /\ ~HasX(g) /\ ~HasS(g) /\ g.frame = o.frame /\ g.seen = o.seen /\ g.v = o.v + 1
      /\ g.kind = o.kind /\ g.state = "INITIALIZED"
      /\ (o.kind = "O" => g.latchState = "OPTIMISTIC") /\ (o.kind = "S" => g.latchState = "UNLATCHED")
  BY <1>2, <1>4 DEF GuardType, HasX, HasS
<1>7. /\ b \in BusyType /\ (b.pc # "rest" => b.pc = "downgraded" /\ b.slot = i /\ o.kind = "S")
  BY <1>2, RestingIs DEF BusyType
<1>8. home \in Frame \cup {None} /\ content \in Nat /\ ~HasS(o)
  BY <1>2 DEF GuardInv, GuardTypes, HasX, HasS
<1>9. OwnerInv => ~misuse'
  BY <1>1 DEF OwnerInv
<1> HIDE DEF g, b, o, i
<1>10. KindFits(g) /\ OptimisticFits(b, i, g) /\ LatchIsOwned(g)
  BY <1>2, <1>6, <1>7 DEF KindFits, OptimisticFits, LatchIsOwned
<1>11. Turns(t, i, g, b)
  BY <1>1, <1>2, <1>3, <1>5, <1>6, <1>7, <1>8 DEF Turns
<1>12. Fits(latch', home', content', t, g) /\ (b.pc # "rest" => Underway(latch', home', content', b, g))
  BY <1>4, <1>6, <1>7 DEF Fits, HasX, HasS, Underway
<1>13. SharesAs(t, i, g)
  BY <1>3, <1>6, <1>8, NoShare DEF o
<1>14. busy[t].slot = i
  BY DEF i
<1>15. GuardInv'
  BY <1>3, <1>6, <1>7, <1>10, <1>11, <1>12, <1>13, <1>14, GuardStep
<1>16. OwnerInv => OwnerInv'
  BY <1>2, <1>3, <1>6, <1>9, <1>10, <1>11, OwnerStep DEF o, Apart
<1> QED
  BY <1>15, <1>16 DEF KeepsInv

(* downgrade: the shared latch is taken if the version is still that. *)
LEMMA DowngradeStep ==
  ASSUME Apart, GuardInv, NEW t \in Thread, Downgrade(t)
  PROVE  KeepsInv
<1> DEFINE i == busy[t].slot
           o == guard[t][i]
           f == o.frame
<1>1. /\ busy[t].pc = "downgraded" /\ busy' = [busy EXCEPT ![t] = Resting]
      /\ home' = home /\ content' = content /\ misuse' = misuse
  BY DEF Downgrade, Finish
<1>2. /\ i \in Slot /\ o.state = "INITIALIZED" /\ o.latchState = "UNLATCHED" /\ o.kind = "S" /\ o \in GuardType
      /\ Known(latch, home, content, f, o.v, o.seen) /\ o.v \in Nat /\ f \in Frame
  <2>1. i \in Slot /\ Underway(latch, home, content, busy[t], o)
    BY <1>1, BusyIs
  <2>2. o.state = "INITIALIZED" /\ o.latchState = "UNLATCHED" /\ o.kind = "S"
    BY <1>1, <2>1 DEF Underway
  <2>3. o \in GuardType /\ Fits(latch, home, content, t, o)
    BY <2>1, GuardIs
  <2>4. Known(latch, home, content, f, o.v, o.seen) /\ o.v \in Nat
    BY <2>2, <2>3 DEF Fits, GuardType
  <2> QED
    BY <2>1, <2>2, <2>3, <2>4 DEF Known
<1>3. ~HasX(o) /\ ~HasS(o) /\ home \in Frame \cup {None} /\ content \in Nat /\ Resting \in BusyType
  BY <1>2, RestingIs DEF HasX, HasS, GuardInv, GuardTypes
<1>4. CASE latch[f].x = None /\ latch[f].version = o.v
  <2> DEFINE g == [o EXCEPT !.latchState = "SHARED"]
  <2>1. latch' = LatchedS(latch, f, t) /\ guard' = [guard EXCEPT ![t][i] = g]
    BY <1>4 DEF Downgrade, Set
  <2>2. /\ latch' \in [Frame -> LatchType] /\ LatchesFit' /\ SameView /\ Kept
        /\ \A u \in Thread : latch'[f].s[u] = latch[f].s[u] + Counted(u = t)
        /\ \A h \in Frame : h # f => latch'[h] = latch[h]
    BY <1>1, <1>2, <1>4, <2>1, TakeS
  <2>3. /\ g \in GuardType /\ ~HasX(g) /\ HasS(g) /\ g.frame = f /\ g.seen = o.seen /\ g.kind = "S"
        /\ g.v = o.v /\ KindFits(g) /\ OptimisticFits(Resting, i, g) /\ LatchIsOwned(g)
    BY <1>2 DEF GuardType, HasX, HasS, KindFits, OptimisticFits, LatchIsOwned
  <2>4. OwnerInv => ~misuse'
    BY <1>1 DEF OwnerInv
  <2> HIDE DEF g, f, o, i
  <2>5. Turns(t, i, g, Resting)
    BY <1>1, <1>2, <1>3, <2>1, <2>2, <2>3 DEF Turns
  <2>6. Fits(latch', home', content', t, g)
    BY <1>1, <1>2, <1>4, <2>2, <2>3 DEF Fits, OnPage, HasX, HasS, Known, SameView
  <2>7. SharesAs(t, i, g)
    BY <1>2, <1>3, <2>2, <2>3, OneMoreShare DEF o
  <2>8. GuardInv'
    BY <1>3, <2>2, <2>3, <2>5, <2>6, <2>7, GuardStep, RestingIs DEF OnlyHolder, i
  <2>9. OwnerInv => OwnerInv'
    BY <1>3, <2>2, <2>3, <2>4, <2>5, OwnerStep DEF SameView, o
  <2> QED
    BY <2>8, <2>9 DEF KeepsInv
<1>5. CASE ~(latch[f].x = None /\ latch[f].version = o.v)
  <2>1. latch' = latch /\ guard' = [guard EXCEPT ![t][i] = NoGuard]
    BY <1>5 DEF Downgrade, Set
  <2>2. latch' \in [Frame -> LatchType] /\ LatchesFit' /\ SameView /\ Kept /\ SameShares
    BY <1>1, <2>1, NoLatch
  <2>3. /\ NoGuard \in GuardType /\ ~HasX(NoGuard) /\ ~HasS(NoGuard)
        /\ KindFits(NoGuard) /\ OptimisticFits(Resting, i, NoGuard) /\ LatchIsOwned(NoGuard)
        /\ Fits(latch', home', content', t, NoGuard)
    BY DEF NoGuard, GuardType, HasX, HasS, KindFits, OptimisticFits, LatchIsOwned, Fits
  <2>4. OwnerInv => ~misuse'
    BY <1>1 DEF OwnerInv
  <2> HIDE DEF f, o, i
  <2>5. Turns(t, i, NoGuard, Resting)
    BY <1>1, <1>2, <1>3, <2>1, <2>2, <2>3 DEF Turns
  <2>6. SharesAs(t, i, NoGuard)
    BY <1>3, <2>2, <2>3, NoShare DEF o
  <2>7. GuardInv'
    BY <1>3, <2>2, <2>3, <2>5, <2>6, GuardStep, RestingIs DEF OnlyHolder, i
  <2>8. OwnerInv => OwnerInv'
    BY <1>3, <2>1, <2>3, <2>4, <2>5, OwnerStep DEF o
  <2> QED
    BY <2>7, <2>8 DEF KeepsInv
<1> QED
  BY <1>4, <1>5

(* A guard that gives up its shared latch knows the page until the version changes. *)
LEMMA FromSharedStep ==
  ASSUME Apart, GuardInv, NEW t \in Thread, NEW i \in Slot, SharedToExclusive(t, i) \/ FromShared(t, i)
  PROVE  KeepsInv
<1> DEFINE o == guard[t][i]
           f == o.frame
<1>1. /\ busy[t] = Resting /\ o.kind = "S" /\ o.latchState = "SHARED" /\ latch' = UnlatchedS(latch, f, t)
      /\ home' = home /\ content' = content /\ ~KeepsLatches
  BY DEF SharedToExclusive, FromShared, Idle, KeepsLatches
<1>2. HasS(o) /\ o \in GuardType /\ busy[t].pc = "rest" /\ home \in Frame \cup {None} /\ content \in Nat
  BY <1>1, GuardIs, RestingIs DEF KindFits, HasS, GuardInv, GuardTypes
<1>3. /\ latch' \in [Frame -> LatchType] /\ LatchesFit' /\ SameView /\ Kept
      /\ OnPage(latch, home, content, o) /\ Even(latch[f].version)
      /\ \A u \in Thread : latch'[f].s[u] = latch[f].s[u] - Counted(u = t)
      /\ \A h \in Frame : h # f => latch'[h] = latch[h]
  BY <1>1, <1>2, GiveS
<1>4. Known(latch', home', content', f, o.v, o.seen) /\ f \in Frame
  <2>1. f \in Frame /\ o.v \in Nat /\ latch[f].version = o.v /\ latch'[f].version = latch[f].version
    BY <1>2, <1>3 DEF OnPage, SameView, GuardType
  <2> QED
    BY <1>1, <1>3, <2>1 DEF Known, OnPage
<1>5. PICK g \in GuardType, b \in BusyType :
        /\ guard' = [guard EXCEPT ![t][i] = g] /\ busy' = [busy EXCEPT ![t] = b]
        /\ g.frame = f /\ g.v = o.v /\ g.seen = o.seen /\ b.slot = i
        /\ \/ /\ b.pc = "fixSX" /\ g.state = "MOVED" /\ g.latchState = "UNLATCHED" /\ g.kind = "S"
              /\ "SX" \in Operations
           \/ b.pc = "convert" /\ g.state = "RETRY" /\ g.latchState = "SHARED" /\ g.kind = "O"
  <2>1. CASE SharedToExclusive(t, i)
    <3> DEFINE g == [o EXCEPT !.latchState = "UNLATCHED", !.state = "MOVED"]
               b == [pc |-> "fixSX", slot |-> i, kind |-> "X"]
    <3>1. /\ g \in GuardType /\ g.frame = f /\ g.v = o.v /\ g.seen = o.seen
          /\ g.state = "MOVED" /\ g.latchState = "UNLATCHED" /\ g.kind = "S"
      BY <1>1, <1>2 DEF GuardType
    <3>2. b \in BusyType /\ b.slot = i /\ b.pc = "fixSX"
      BY DEF BusyType
    <3>3. /\ guard' = [guard EXCEPT ![t][i] = g] /\ busy' = [busy EXCEPT ![t] = b]
          /\ "SX" \in Operations
      BY <2>1 DEF SharedToExclusive, Set, Continue
    <3> QED
      BY <3>1, <3>2, <3>3
  <2>2. CASE FromShared(t, i)
    <3> DEFINE g == [o EXCEPT !.kind = "O", !.state = "RETRY"]
               b == [pc |-> "convert", slot |-> i, kind |-> "O"]
    <3>1. /\ g \in GuardType /\ g.frame = f /\ g.v = o.v /\ g.seen = o.seen
          /\ g.state = "RETRY" /\ g.latchState = "SHARED" /\ g.kind = "O"
      BY <1>1, <1>2 DEF GuardType
    <3>2. b \in BusyType /\ b.slot = i /\ b.pc = "convert"
      BY DEF BusyType
    <3>3. guard' = [guard EXCEPT ![t][i] = g] /\ busy' = [busy EXCEPT ![t] = b]
      BY <2>2 DEF FromShared, Set, Continue
    <3> QED
      BY <3>1, <3>2, <3>3
  <2> QED
    BY <2>1, <2>2
<1>6. /\ ~HasX(g) /\ ~HasS(g) /\ KindFits(g) /\ OptimisticFits(b, i, g)
      /\ Fits(latch', home', content', t, g)
  BY <1>5 DEF HasX, HasS, KindFits, OptimisticFits, Fits
<1>7. Underway(latch', home', content', b, g)
  BY <1>4, <1>5 DEF Underway, Expected
<1> HIDE DEF f, o
<1>8. Turns(t, i, g, b)
  BY <1>1, <1>2, <1>3, <1>5 DEF Turns
<1>9. SharesAs(t, i, g)
  BY <1>2, <1>3, <1>4, <1>6, OneShareLess DEF o, f
<1>10. GuardInv'
  BY <1>2, <1>3, <1>5, <1>6, <1>7, <1>8, <1>9, GuardStep DEF OnlyHolder
<1> QED
  BY <1>1, <1>10 DEF KeepsInv

(* O - X and O - S *)
LEMMA FromOptimisticStep ==
  ASSUME Apart, GuardInv, NEW t \in Thread, NEW i \in Slot, OptimisticToExclusive(t, i) \/ FromOptimistic(t, i)
  PROVE  KeepsInv
<1> DEFINE o == guard[t][i]
           f == o.frame
<1>1. /\ busy[t] = Resting /\ o.kind = "O" /\ o.latchState = "OPTIMISTIC" /\ latch' = latch
      /\ home' = home /\ content' = content /\ misuse' = misuse
  BY DEF OptimisticToExclusive, FromOptimistic, Idle
<1>2. /\ ~HasX(o) /\ ~HasS(o) /\ o \in GuardType /\ busy[t].pc = "rest"
      /\ home \in Frame \cup {None} /\ content \in Nat
      /\ Known(latch, home, content, f, o.v, o.seen)
  BY <1>1, GuardIs, RestingIs DEF KindFits, HasS, HasX, Fits, GuardInv, GuardTypes
<1>3. latch' \in [Frame -> LatchType] /\ LatchesFit' /\ SameView /\ Kept /\ SameShares
  BY <1>1, NoLatch
<1>4. PICK g \in GuardType, b \in BusyType :
        /\ guard' = [guard EXCEPT ![t][i] = g] /\ busy' = [busy EXCEPT ![t] = b]
        /\ \/ /\ g.frame = f /\ g.v = o.v /\ g.seen = o.seen /\ b.slot = i
              /\ \/ b.pc = "fixOX" /\ g.state = "MOVED" /\ g.latchState = "UNLATCHED" /\ g.kind = "O"
                 \/ b.pc = "convert" /\ g.state = "RETRY" /\ g.latchState = "OPTIMISTIC" /\ g.kind = "S"
           \/ b.pc = "rest" /\ g.state = "RETRY" /\ g.latchState = "UNLATCHED" /\ g.kind = "X"
  <2>1. CASE OptimisticToExclusive(t, i) /\ latch[f].version = o.v
    <3> DEFINE g == [o EXCEPT !.latchState = "UNLATCHED", !.state = "MOVED"]
               b == [pc |-> "fixOX", slot |-> i, kind |-> "X"]
    <3>1. /\ g \in GuardType /\ g.frame = f /\ g.v = o.v /\ g.seen = o.seen
          /\ g.state = "MOVED" /\ g.latchState = "UNLATCHED" /\ g.kind = "O"
      BY <1>1, <1>2 DEF GuardType
    <3>2. b \in BusyType /\ b.slot = i /\ b.pc = "fixOX"
      BY DEF BusyType
    <3>3. guard' = [guard EXCEPT ![t][i] = g] /\ busy' = [busy EXCEPT ![t] = b]
      BY <2>1 DEF OptimisticToExclusive, Set, Continue
    <3> QED
      BY <3>1, <3>2, <3>3
  <2>2. CASE OptimisticToExclusive(t, i) /\ latch[f].version # o.v
    <3> DEFINE g == [NoGuard EXCEPT !.kind = "X", !.state = "RETRY"]
    <3>1. g \in GuardType /\ g.state = "RETRY" /\ g.latchState = "UNLATCHED" /\ g.kind = "X"
      BY DEF GuardType, NoGuard
    <3>2. guard' = [guard EXCEPT ![t][i] = g] /\ busy' = [busy EXCEPT ![t] = Resting]
      BY <2>2 DEF OptimisticToExclusive, Set, Finish
    <3> QED
      BY <3>1, <3>2, RestingIs
  <2>3. CASE FromOptimistic(t, i)
    <3> DEFINE g == [o EXCEPT !.kind = "S", !.state = "RETRY"]
               b == [pc |-> "convert", slot |-> i, kind |-> "S"]
    <3>1. /\ g \in GuardType /\ g.frame = f /\ g.v = o.v /\ g.seen = o.seen
          /\ g.state = "RETRY" /\ g.latchState = "OPTIMISTIC" /\ g.kind = "S"
      BY <1>1, <1>2 DEF GuardType
    <3>2. b \in BusyType /\ b.slot = i /\ b.pc = "convert"
      BY DEF BusyType
    <3>3. guard' = [guard EXCEPT ![t][i] = g] /\ busy' = [busy EXCEPT ![t] = b]
      BY <2>3 DEF FromOptimistic, Set, Continue
    <3> QED
      BY <3>1, <3>2, <3>3
  <2> QED
    BY <2>1, <2>2, <2>3
<1>5. /\ ~HasX(g) /\ ~HasS(g) /\ KindFits(g) /\ OptimisticFits(b, i, g) /\ LatchIsOwned(g)
      /\ Fits(latch', home', content', t, g)
  BY <1>4 DEF HasX, HasS, KindFits, OptimisticFits, Fits, LatchIsOwned
<1>6. b.pc # "rest" => b.slot = i /\ Underway(latch', home', content', b, g)
  BY <1>1, <1>2, <1>4 DEF Underway, Expected
<1>7. OwnerInv => ~misuse'
  BY <1>1 DEF OwnerInv
<1> HIDE DEF f, o
<1>8. Turns(t, i, g, b)
  BY <1>1, <1>2, <1>3, <1>4 DEF Turns
<1>9. SharesAs(t, i, g)
  BY <1>2, <1>3, <1>5, NoShare DEF o
<1>10. GuardInv'
  BY <1>2, <1>3, <1>5, <1>6, <1>8, <1>9, GuardStep DEF OnlyHolder
<1>11. OwnerInv => OwnerInv'
  BY <1>1, <1>2, <1>5, <1>7, <1>8, OwnerStep DEF o
<1> QED
  BY <1>10, <1>11 DEF KeepsInv

(* X - S and X - O *)
LEMMA FromExclusiveStep ==
  ASSUME Apart, GuardInv, NEW t \in Thread, NEW i \in Slot, NEW kind \in {"S", "O"}, FromExclusive(t, i, kind)
  PROVE  KeepsInv
<1> DEFINE o == guard[t][i]
           g == [o EXCEPT !.kind = kind, !.state = "RETRY"]
           b == [pc |-> "convert", slot |-> i, kind |-> kind]
<1>1. /\ busy[t] = Resting /\ o.state = "INITIALIZED" /\ o.latchState = "EXCLUSIVE"
      /\ latch' = UnlatchedX(latch, o.frame)
      /\ guard' = [guard EXCEPT ![t][i] = g] /\ busy' = [busy EXCEPT ![t] = b]
      /\ home' = home /\ content' = content /\ ~KeepsLatches
  BY DEF FromExclusive, Idle, KeepsLatches, Set, Continue
<1>2. /\ HasX(o) /\ ~HasS(o) /\ o \in GuardType /\ busy[t].pc = "rest"
      /\ home \in Frame \cup {None} /\ content \in Nat
  BY <1>1, GuardIs, RestingIs DEF HasS, HasX, GuardInv, GuardTypes
<1>3. latch' \in [Frame -> LatchType] /\ LatchesFit' /\ Kept /\ OnlyHolder(t, i) /\ SameShares
  BY <1>1, <1>2, GiveX
<1>4. Known(latch', home', content', o.frame, o.v + 1, o.seen)
  BY <1>1, <1>2, KnownAfterX
<1>5. /\ g \in GuardType /\ g.frame = o.frame /\ g.seen = o.seen /\ g.v = o.v
      /\ g.kind = kind /\ g.state = "RETRY" /\ g.latchState = "EXCLUSIVE"
  BY <1>1, <1>2 DEF GuardType
<1>6. b \in BusyType /\ b.slot = i /\ b.pc = "convert"
  BY DEF BusyType
<1> HIDE DEF g, b, o
<1>7. /\ ~HasX(g) /\ ~HasS(g) /\ KindFits(g) /\ OptimisticFits(b, i, g)
      /\ Fits(latch', home', content', t, g)
  BY <1>5 DEF HasX, HasS, KindFits, OptimisticFits, Fits
<1>8. Underway(latch', home', content', b, g)
  BY <1>4, <1>5, <1>6 DEF Underway, Expected
<1>9. Turns(t, i, g, b)
  BY <1>1, <1>2, <1>3, <1>5, <1>6 DEF Turns
<1>10. SharesAs(t, i, g)
  BY <1>2, <1>3, <1>7, NoShare DEF o
<1>11. GuardInv'
  BY <1>2, <1>3, <1>6, <1>7, <1>8, <1>9, <1>10, GuardStep
<1> QED
  BY <1>1, <1>11 DEF KeepsInv

(* The second fix of an upgrade to X: what was known is still so if the guards are the same. *)
LEMMA FixAgainStep ==
  ASSUME Apart, GuardInv, NEW t \in Thread, FixAgain(t)
  PROVE  KeepsInv
<1> DEFINE i == busy[t].slot
           o == guard[t][i]
           new(f) == [NewGuard("X", f, latch[f].version + 1) EXCEPT !.seen = o.seen]
           retry(f) == [new(f) EXCEPT !.state = "RETRY"]
<1>1. PICK f \in FixedIn :
        /\ home' = f
        /\ IF SameGuard(o, new(f)) THEN latch' = Latched(latch, f, t) /\ Set(t, i, new(f))
           ELSE IF busy[t].pc = "fixSX" THEN latch' = Latched(latch, f, t) /\ Set(t, i, retry(f))
           ELSE /\ latch' = [latch EXCEPT ![f].version = @ + 2]
                /\ Set(t, i, [retry(f) EXCEPT !.latchState = "UNLATCHED"])
  BY DEF FixAgain
<1>2. /\ busy[t].pc \in {"fixSX", "fixOX"} /\ busy' = [busy EXCEPT ![t] = Resting]
      /\ content' = content /\ misuse' = misuse /\ content \in Nat
  BY DEF FixAgain, Finish, GuardInv, GuardTypes
<1>3. f \in Frame /\ Unlatched(f) /\ home \in {None, f} /\ latch[f].version \in Nat
  BY DEF FixedIn, GuardInv, GuardTypes, LatchType
<1>4. /\ i \in Slot /\ o \in GuardType /\ o.state = "MOVED" /\ Known(latch, home, content, o.frame, o.v, o.seen)
      /\ (busy[t].pc = "fixSX" => ~KeepsLatches) /\ ~HasX(o) /\ ~HasS(o)
  <2>1. i \in Slot /\ Underway(latch, home, content, busy[t], o)
    BY <1>2, BusyIs
  <2> QED
    BY <1>2, <2>1, GuardIs DEF Underway, KeepsLatches, HasX, HasS
<1>5. o.seen \in Nat /\ o.v \in Nat /\ Resting \in BusyType /\ Resting.pc = "rest"
  BY <1>4, RestingIs DEF GuardType
<1>6. OwnerInv => ~misuse'
  BY <1>2 DEF OwnerInv
<1>7. /\ new(f) \in GuardType /\ new(f).kind = "X" /\ new(f).state = "INITIALIZED" /\ new(f).latchState = "EXCLUSIVE"
      /\ new(f).frame = f /\ new(f).v = latch[f].version + 1 /\ new(f).seen = o.seen
  BY <1>2, <1>3, <1>5 DEF GuardType, NewGuard, LATCHSTATE
<1>8. CASE SameGuard(o, new(f))
  <2> DEFINE g == new(f)
  <2>1. latch' = Latched(latch, f, t) /\ guard' = [guard EXCEPT ![t][i] = g]
    BY <1>1, <1>8 DEF Set
  <2>2. /\ latch' \in [Frame -> LatchType] /\ LatchesFit' /\ Kept /\ NobodyHolds /\ SameShares
        /\ latch'[f].x = t /\ latch'[f].version = latch[f].version + 1
        /\ \A h \in Frame : h # f => latch'[h] = latch[h]
    BY <1>1, <1>2, <1>3, <2>1, TakeX
  <2>3. /\ HasX(g) /\ ~HasS(g) /\ KindFits(g) /\ OptimisticFits(Resting, i, g) /\ LatchIsOwned(g)
    BY <1>7 DEF HasX, HasS, KindFits, OptimisticFits, LatchIsOwned
  <2>4. o.frame = f /\ o.v = latch[f].version
    BY <1>3, <1>5, <1>7, <1>8 DEF SameGuard
  <2>5. o.seen = content
    BY <1>4, <2>4 DEF Known
  <2> HIDE DEF g
  <2>6. g \in GuardType /\ g.frame = f /\ g.v = latch[f].version + 1 /\ g.seen = content
    BY <1>7, <2>5 DEF g
  <2> HIDE DEF o, i, new, retry
  <2>7. Turns(t, i, g, Resting)
    BY <1>1, <1>2, <1>3, <1>4, <1>5, <2>1, <2>2, <2>6 DEF Turns
  <2>8. Fits(latch', home', content', t, g)
    BY <1>1, <1>2, <1>3, <2>2, <2>3, <2>6 DEF Fits, OnPage, HasX, HasS
  <2>9. SharesAs(t, i, g)
    BY <1>4, <2>2, <2>3, NoShare DEF o
  <2>10. GuardInv'
    BY <1>5, <2>2, <2>3, <2>7, <2>8, <2>9, GuardStep DEF OnlyHolder, NobodyHolds, i
  <2>11. OwnerInv => OwnerInv'
    BY <1>4, <1>6, <2>2, <2>3, <2>6, <2>7, OwnerStep DEF o
  <2> QED
    BY <2>10, <2>11 DEF KeepsInv
<1>9. CASE ~SameGuard(o, new(f)) /\ busy[t].pc = "fixSX"
  <2> DEFINE g == retry(f)
  <2>1. latch' = Latched(latch, f, t) /\ guard' = [guard EXCEPT ![t][i] = g]
    BY <1>1, <1>9 DEF Set
  <2>2. /\ latch' \in [Frame -> LatchType] /\ LatchesFit' /\ Kept /\ NobodyHolds /\ SameShares
    BY <1>1, <1>2, <1>3, <2>1, TakeX
  <2>3. g \in GuardType /\ g.kind = "X" /\ g.state = "RETRY" /\ g.latchState = "EXCLUSIVE"
    BY <1>7 DEF GuardType
  <2> HIDE DEF g, o, i, new, retry
  <2>4. /\ ~HasX(g) /\ ~HasS(g) /\ KindFits(g) /\ OptimisticFits(Resting, i, g)
        /\ Fits(latch', home', content', t, g)
    BY <2>3 DEF HasX, HasS, KindFits, OptimisticFits, Fits
  <2>5. Turns(t, i, g, Resting)
    BY <1>1, <1>2, <1>3, <1>4, <1>5, <2>1, <2>2, <2>3 DEF Turns
  <2>6. SharesAs(t, i, g)
    BY <1>4, <2>2, <2>4, NoShare DEF o
  <2>7. GuardInv'
    BY <1>5, <2>2, <2>4, <2>5, <2>6, GuardStep DEF OnlyHolder, NobodyHolds, i
  <2> QED
    BY <1>4, <1>9, <2>7 DEF KeepsInv
<1>10. CASE ~SameGuard(o, new(f)) /\ busy[t].pc # "fixSX"
  <2> DEFINE g == [retry(f) EXCEPT !.latchState = "UNLATCHED"]
  <2>1. latch' = [latch EXCEPT ![f].version = @ + 2] /\ guard' = [guard EXCEPT ![t][i] = g]
    BY <1>1, <1>10 DEF Set
  <2>2. /\ latch' \in [Frame -> LatchType] /\ LatchesFit' /\ Kept /\ NobodyHolds /\ SameShares
        /\ \A h \in Frame : latch'[h].x = latch[h].x
    BY <1>3, <2>1, Passing
  <2>3. g \in GuardType /\ g.kind = "X" /\ g.state = "RETRY" /\ g.latchState = "UNLATCHED"
    BY <1>7 DEF GuardType
  <2> HIDE DEF g, o, i, new, retry
  <2>4. /\ ~HasX(g) /\ ~HasS(g) /\ KindFits(g) /\ OptimisticFits(Resting, i, g)
        /\ Fits(latch', home', content', t, g) /\ LatchIsOwned(g)
    BY <2>3 DEF HasX, HasS, KindFits, OptimisticFits, Fits, LatchIsOwned
  <2>5. Turns(t, i, g, Resting)
    BY <1>1, <1>2, <1>3, <1>4, <1>5, <2>1, <2>2, <2>3 DEF Turns
  <2>6. SharesAs(t, i, g)
    BY <1>4, <2>2, <2>4, NoShare DEF o
  <2>7. GuardInv'
    BY <1>5, <2>2, <2>4, <2>5, <2>6, GuardStep DEF OnlyHolder, NobodyHolds, i
  <2>8. OwnerInv => OwnerInv'
    BY <1>4, <1>6, <2>2, <2>4, <2>5, OwnerStep DEF o
  <2> QED
    BY <2>7, <2>8 DEF KeepsInv
<1> QED
  BY <1>8, <1>9, <1>10

(* The second half of a conversion to S or O *)
LEMMA ConvertStep ==
  ASSUME Apart, GuardInv, NEW t \in Thread, Convert(t)
  PROVE  KeepsInv
<1> DEFINE i == busy[t].slot
           o == guard[t][i]
           f == o.frame
           g == [o EXCEPT !.state = "INITIALIZED", !.v = Expected(o), !.latchState = LATCHSTATE(o.kind)]
<1>1. /\ busy[t].pc = "convert" /\ busy' = [busy EXCEPT ![t] = Resting]
      /\ home' = home /\ content' = content /\ misuse' = misuse
  BY DEF Convert, Finish
<1>2. /\ i \in Slot /\ o \in GuardType /\ o.state = "RETRY" /\ o.kind \in {"S", "O"}
      /\ Known(latch, home, content, f, Expected(o), o.seen)
      /\ KindFits(o)
  BY <1>1, BusyIs, GuardIs DEF Underway
<1>3. /\ ~HasX(o) /\ ~HasS(o) /\ home \in Frame \cup {None} /\ content \in Nat /\ Resting \in BusyType
      /\ Resting.pc = "rest" /\ f \in Frame /\ Expected(o) \in Nat /\ o.kind # "X" /\ o.kind # "none"
  BY <1>2, RestingIs DEF HasX, HasS, GuardInv, GuardTypes, Known, Expected, GuardType
<1>4. OwnerInv => ~misuse'
  BY <1>1 DEF OwnerInv
<1>5. CASE latch[f].version = Expected(o) /\ (o.kind = "S" => latch[f].x = None)
  <2>1. /\ guard' = [guard EXCEPT ![t][i] = g]
        /\ latch' = IF o.kind = "S" THEN LatchedS(latch, f, t) ELSE latch
    BY <1>5 DEF Convert, Set
  <2>2. home = f /\ o.seen = content /\ Even(latch[f].version)
    BY <1>2, <1>5 DEF Known
  <2>3. /\ g \in GuardType /\ g.frame = f /\ g.seen = content /\ g.kind = o.kind /\ g.v = latch[f].version
        /\ g.state = "INITIALIZED" /\ g.latchState = (IF o.kind = "S" THEN "SHARED" ELSE "OPTIMISTIC")
    BY <1>2, <1>3, <1>5, <2>2 DEF GuardType, LATCHSTATE
  <2>4. CASE o.kind = "S"
    <3>1. /\ latch' \in [Frame -> LatchType] /\ LatchesFit' /\ SameView /\ Kept
          /\ \A u \in Thread : latch'[f].s[u] = latch[f].s[u] + Counted(u = t)
          /\ \A h \in Frame : h # f => latch'[h] = latch[h]
      BY <1>1, <1>3, <1>5, <2>1, <2>4, TakeS
    <3> HIDE DEF g, f, o, i
    <3>2. ~HasX(g) /\ HasS(g) /\ KindFits(g) /\ OptimisticFits(Resting, i, g) /\ LatchIsOwned(g)
      BY <2>3, <2>4 DEF HasX, HasS, KindFits, OptimisticFits, LatchIsOwned
    <3>3. Turns(t, i, g, Resting)
      BY <1>1, <1>2, <1>3, <2>1, <2>3, <3>1 DEF Turns
    <3>4. Fits(latch', home', content', t, g)
      BY <1>1, <1>3, <1>5, <2>2, <2>3, <2>4, <3>1 DEF Fits, OnPage, HasX, HasS, SameView
    <3>5. SharesAs(t, i, g)
      BY <1>3, <2>3, <3>1, <3>2, OneMoreShare DEF o
    <3>6. GuardInv'
      BY <1>3, <3>1, <3>2, <3>3, <3>4, <3>5, GuardStep DEF OnlyHolder, i
    <3>7. OwnerInv => OwnerInv'
      BY <1>3, <1>4, <3>1, <3>2, <3>3, OwnerStep DEF SameView, o
    <3> QED
      BY <3>6, <3>7 DEF KeepsInv
  <2>5. CASE o.kind = "O"
    <3>1. latch' = latch
      BY <2>1, <2>5
    <3>2. latch' \in [Frame -> LatchType] /\ LatchesFit' /\ SameView /\ Kept /\ SameShares
      BY <1>1, <3>1, NoLatch
    <3>3. latch[f].version \in Nat
      BY <1>3 DEF GuardInv, GuardTypes, LatchType
    <3> HIDE DEF g, f, o, i
    <3>4. ~HasX(g) /\ ~HasS(g) /\ KindFits(g) /\ OptimisticFits(Resting, i, g) /\ LatchIsOwned(g)
      BY <2>3, <2>5 DEF HasX, HasS, KindFits, OptimisticFits, LatchIsOwned
    <3>5. Turns(t, i, g, Resting)
      BY <1>1, <1>2, <1>3, <2>1, <2>3, <3>2 DEF Turns
    <3>6. Fits(latch', home', content', t, g)
      BY <1>1, <1>3, <2>2, <2>3, <3>1, <3>3, <3>4 DEF Fits, Known
    <3>7. SharesAs(t, i, g)
      BY <1>3, <3>2, <3>4, NoShare DEF o
    <3>8. GuardInv'
      BY <1>3, <3>2, <3>4, <3>5, <3>6, <3>7, GuardStep DEF OnlyHolder, i
    <3>9. OwnerInv => OwnerInv'
      BY <1>3, <1>4, <3>1, <3>4, <3>5, OwnerStep DEF o
    <3> QED
      BY <3>8, <3>9 DEF KeepsInv
  <2> QED
    BY <1>2, <2>4, <2>5
<1>6. CASE ~(latch[f].version = Expected(o) /\ (o.kind = "S" => latch[f].x = None))
  <2>1. latch' = latch /\ guard' = guard
    BY <1>6 DEF Convert
  <2>2. latch' \in [Frame -> LatchType] /\ LatchesFit' /\ SameView /\ Kept /\ SameShares
    BY <1>1, <2>1, NoLatch
  <2>3. guard' = [guard EXCEPT ![t][i] = o]
    BY <1>2, <2>1 DEF GuardInv, GuardTypes
  <2>4. OptimisticFits(Resting, i, o) /\ Fits(latch', home', content', t, o)
    BY <1>2 DEF OptimisticFits, Fits, HasX, HasS
  <2>5. OwnerInv => LatchIsOwned(o)
    BY <1>2 DEF OwnerInv
  <2> HIDE DEF f, o, i
  <2>6. Turns(t, i, o, Resting)
    BY <1>1, <1>2, <1>3, <2>2, <2>3 DEF Turns
  <2>7. SharesAs(t, i, o)
    BY <1>3, <2>2, NoShare DEF o
  <2>8. GuardInv'
    BY <1>2, <1>3, <2>2, <2>4, <2>6, <2>7, GuardStep DEF OnlyHolder, i
  <2>9. OwnerInv => OwnerInv'
    BY <1>3, <1>4, <2>1, <2>5, <2>6, OwnerStep DEF o
  <2> QED
    BY <2>8, <2>9 DEF KeepsInv
<1> QED
  BY <1>5, <1>6

(* What a destroyed guard leaves *)
LEMMA NoGuardIs ==
  /\ NoGuard \in GuardType /\ ~HasX(NoGuard) /\ ~HasS(NoGuard)
  /\ KindFits(NoGuard) /\ (\A b, i : OptimisticFits(b, i, NoGuard)) /\ LatchIsOwned(NoGuard)
  /\ \A l, h, c, t : Fits(l, h, c, t, NoGuard)
BY DEF NoGuard, GuardType, HasX, HasS, KindFits, OptimisticFits, LatchIsOwned, Fits

(* The destructors *)
LEMMA DestroyStep ==
  ASSUME Apart, GuardInv, NEW t \in Thread, NEW i \in Slot, Destroy(t, i)
  PROVE  KeepsInv
<1> DEFINE o == guard[t][i]
<1>1. /\ busy[t] = Resting /\ home' = home /\ content' = content /\ busy' = busy /\ misuse' = misuse
      /\ guard' = [guard EXCEPT ![t][i] = NoGuard]
      /\ latch' = IF o.state = "INITIALIZED" /\ o.kind # "O" THEN Released(latch, o, t) ELSE latch
  BY DEF Destroy, Idle, Set
<1>2. /\ o \in GuardType /\ OptimisticFits(Resting, i, o) /\ Resting.pc = "rest" /\ Resting \in BusyType
      /\ home \in Frame \cup {None} /\ content \in Nat /\ busy' = [busy EXCEPT ![t] = Resting]
  BY <1>1, GuardIs, RestingIs DEF GuardInv, GuardTypes
<1>3. OwnerInv => ~misuse'
  BY <1>1 DEF OwnerInv
<1>4. \/ HasX(o) /\ ~HasS(o) /\ latch' = UnlatchedX(latch, o.frame)
      \/ HasS(o) /\ ~HasX(o) /\ latch' = UnlatchedS(latch, o.frame, t)
      \/ ~HasX(o) /\ ~HasS(o) /\ latch' = latch
  BY <1>1, <1>2 DEF HasX, HasS, Released, OptimisticFits
<1>5. CASE HasX(o) /\ ~HasS(o) /\ latch' = UnlatchedX(latch, o.frame)
  <2>1. /\ latch' \in [Frame -> LatchType] /\ LatchesFit' /\ Kept /\ OnlyHolder(t, i) /\ SameShares
        /\ o.frame \in Frame /\ latch'[o.frame].x = None
        /\ \A h \in Frame : h # o.frame => latch'[h] = latch[h]
    BY <1>5, GiveX DEF OnPage
  <2> HIDE DEF o
  <2>2. Turns(t, i, NoGuard, Resting)
    BY <1>1, <1>2, <2>1, NoGuardIs DEF Turns
  <2>3. SharesAs(t, i, NoGuard)
    BY <1>5, <2>1, NoShare, NoGuardIs DEF o
  <2>4. GuardInv'
    BY <1>1, <1>2, <2>1, <2>2, <2>3, GuardStep, NoGuardIs
  <2>5. OwnerInv => OwnerInv'
    BY <1>3, <1>5, <2>1, <2>2, OwnerStep, NoGuardIs DEF o, Apart
  <2> QED
    BY <2>4, <2>5 DEF KeepsInv
<1>6. CASE HasS(o) /\ ~HasX(o) /\ latch' = UnlatchedS(latch, o.frame, t)
  <2>1. /\ latch' \in [Frame -> LatchType] /\ LatchesFit' /\ SameView /\ Kept
        /\ o.frame \in Frame
        /\ \A u \in Thread : latch'[o.frame].s[u] = latch[o.frame].s[u] - Counted(u = t)
        /\ \A h \in Frame : h # o.frame => latch'[h] = latch[h]
    BY <1>1, <1>6, GiveS DEF OnPage
  <2> HIDE DEF o
  <2>2. Turns(t, i, NoGuard, Resting)
    BY <1>1, <1>2, <2>1, NoGuardIs DEF Turns
  <2>3. SharesAs(t, i, NoGuard)
    BY <1>6, <2>1, OneShareLess, NoGuardIs DEF o
  <2>4. GuardInv'
    BY <1>1, <1>2, <2>1, <2>2, <2>3, GuardStep, NoGuardIs DEF OnlyHolder
  <2>5. OwnerInv => OwnerInv'
    BY <1>3, <1>6, <2>1, <2>2, OwnerStep, NoGuardIs DEF o, SameView
  <2> QED
    BY <2>4, <2>5 DEF KeepsInv
<1>7. CASE ~HasX(o) /\ ~HasS(o) /\ latch' = latch
  <2>1. latch' \in [Frame -> LatchType] /\ LatchesFit' /\ SameView /\ Kept /\ SameShares
    BY <1>1, <1>7, NoLatch
  <2> HIDE DEF o
  <2>2. Turns(t, i, NoGuard, Resting)
    BY <1>1, <1>2, <2>1, NoGuardIs DEF Turns
  <2>3. SharesAs(t, i, NoGuard)
    BY <1>7, <2>1, NoShare, NoGuardIs DEF o
  <2>4. GuardInv'
    BY <1>1, <1>2, <2>1, <2>2, <2>3, GuardStep, NoGuardIs DEF OnlyHolder
  <2>5. OwnerInv => OwnerInv'
    BY <1>3, <1>7, <2>1, <2>2, OwnerStep, NoGuardIs DEF o
  <2> QED
    BY <2>4, <2>5 DEF KeepsInv
<1> QED
  BY <1>4, <1>5, <1>6, <1>7

(* reclaim: the frame is unlatched when the page has left it. *)
LEMMA ReclaimStep ==
  ASSUME Apart, GuardInv, NEW t \in Thread, NEW i \in Slot, Reclaim(t, i)
  PROVE  KeepsInv
<1> DEFINE o == guard[t][i]
           g == [o EXCEPT !.state = "UNINITIALIZED", !.latchState = "UNLATCHED"]
<1>1. /\ busy[t] = Resting /\ home' = None /\ content' = content /\ busy' = busy /\ misuse' = misuse
      /\ guard' = [guard EXCEPT ![t][i] = g] /\ latch' = UnlatchedX(latch, o.frame)
      /\ o.kind = "X" /\ o.state = "INITIALIZED"
  BY DEF Reclaim, Idle, Set
<1>2. /\ o \in GuardType /\ HasX(o) /\ ~HasS(o) /\ Resting.pc = "rest" /\ Resting \in BusyType
      /\ content \in Nat /\ busy' = [busy EXCEPT ![t] = Resting]
  BY <1>1, GuardIs, RestingIs DEF KindFits, HasX, HasS, GuardInv, GuardTypes
<1>3. OwnerInv => ~misuse'
  BY <1>1 DEF OwnerInv
<1>4. /\ latch' \in [Frame -> LatchType] /\ LatchesFit' /\ Kept /\ OnlyHolder(t, i) /\ SameShares
      /\ o.frame \in Frame /\ latch'[o.frame].x = None
      /\ \A h \in Frame : h # o.frame => latch'[h] = latch[h]
  BY <1>2, <1>1, GiveX DEF OnPage
<1>5. g \in GuardType /\ g.kind = "X" /\ g.state = "UNINITIALIZED" /\ g.latchState = "UNLATCHED"
  BY <1>1, <1>2 DEF GuardType
<1> HIDE DEF g, o
<1>6. /\ ~HasX(g) /\ ~HasS(g) /\ KindFits(g) /\ OptimisticFits(Resting, i, g)
      /\ Fits(latch', home', content', t, g) /\ LatchIsOwned(g)
  BY <1>5 DEF HasX, HasS, KindFits, OptimisticFits, Fits, LatchIsOwned
<1>7. Turns(t, i, g, Resting)
  BY <1>1, <1>2, <1>4, <1>5 DEF Turns
<1>8. SharesAs(t, i, g)
  BY <1>2, <1>4, <1>6, NoShare DEF o
<1>9. GuardInv'
  BY <1>1, <1>2, <1>4, <1>6, <1>7, <1>8, GuardStep
<1>10. OwnerInv => OwnerInv'
  BY <1>2, <1>3, <1>4, <1>6, <1>7, OwnerStep DEF o, Apart
<1> QED
  BY <1>9, <1>10 DEF KeepsInv

(* The page is written by the only guard that holds it. *)
LEMMA WriteStep ==
  ASSUME Apart, GuardInv, NEW t \in Thread, NEW i \in Slot, Write(t, i)
  PROVE  KeepsInv
<1> DEFINE o == guard[t][i]
           g == [o EXCEPT !.seen = content + 1]
<1>1. /\ busy[t] = Resting /\ home' = home /\ content' = content + 1 /\ busy' = busy /\ misuse' = misuse
      /\ guard' = [guard EXCEPT ![t][i] = g] /\ latch' = latch
      /\ o.kind = "X" /\ o.state = "INITIALIZED" /\ o.latchState = "EXCLUSIVE"
  BY DEF Write, Idle, Set
<1>2. /\ o \in GuardType /\ HasX(o) /\ ~HasS(o) /\ Resting.pc = "rest" /\ Resting \in BusyType
      /\ content \in Nat /\ home \in Frame \cup {None} /\ busy' = [busy EXCEPT ![t] = Resting]
  BY <1>1, GuardIs, RestingIs DEF HasX, HasS, GuardInv, GuardTypes
<1>3. OwnerInv => ~misuse'
  BY <1>1 DEF OwnerInv
<1>4. /\ \A u \in Thread, j \in Slot : HasX(guard[u][j]) \/ HasS(guard[u][j]) => u = t /\ j = i
      /\ OnPage(latch, home, content, o) /\ latch[o.frame].x = t
  BY <1>2, HolderIsAlone
<1>5. latch' \in [Frame -> LatchType] /\ LatchesFit' /\ SameShares /\ OnlyHolder(t, i)
  BY <1>1, <1>4 DEF GuardInv, GuardTypes, LatchesFit, SameShares, OnlyHolder
<1>6. Kept
  <2>1. \A h \in Frame : latch[h].version \in Nat /\ LatchFits(latch[h])
    BY DEF GuardInv, GuardTypes, LatchType, LatchesFit
  <2>2. home \in Frame /\ home = o.frame /\ ~Even(latch[home].version)
    BY <1>4, <2>1 DEF OnPage, LatchFits, Apart
  <2> QED
    BY <1>1, <2>1, <2>2 DEF Kept
<1>c. content' \in Nat
  BY <1>1, <1>2
<1>7. /\ g \in GuardType /\ g.kind = "X" /\ g.state = "INITIALIZED" /\ g.latchState = "EXCLUSIVE"
      /\ g.frame = o.frame /\ g.v = o.v /\ g.seen = content'
  BY <1>1, <1>2 DEF GuardType
<1> HIDE DEF g, o
<1>8. /\ HasX(g) /\ ~HasS(g) /\ KindFits(g) /\ OptimisticFits(Resting, i, g) /\ LatchIsOwned(g)
  BY <1>7 DEF HasX, HasS, KindFits, OptimisticFits, LatchIsOwned
<1>9. Fits(latch', home', content', t, g)
  BY <1>1, <1>4, <1>7, <1>8 DEF Fits, OnPage
<1>10. Turns(t, i, g, Resting)
  BY <1>1, <1>2, <1>5, <1>7, <1>c DEF Turns
<1>11. SharesAs(t, i, g)
  BY <1>2, <1>5, <1>8, NoShare DEF o
<1>12. GuardInv'
  BY <1>1, <1>2, <1>4, <1>5, <1>6, <1>8, <1>9, <1>10, <1>11, GuardStep
<1>13. OwnerInv => OwnerInv'
  BY <1>1, <1>3, <1>4, <1>7, <1>8, <1>10, OwnerStep DEF o
<1> QED
  BY <1>12, <1>13 DEF KeepsInv

(* The guards stay as they are while nobody holds a latch. *)
LEMMA EvictStep ==
  ASSUME Apart, GuardInv, Evict
  PROVE  KeepsInv
<1>1. /\ home \in Frame /\ Unlatched(home) /\ home' = None /\ content' \in Nat
      /\ latch' = [latch EXCEPT ![home].version = @ + 2]
      /\ guard' = guard /\ busy' = busy /\ misuse' = misuse
  BY DEF Evict, GuardInv, GuardTypes
<1>2. /\ latch' \in [Frame -> LatchType] /\ LatchesFit' /\ Kept /\ NobodyHolds /\ SameShares
      /\ \A h \in Frame : latch'[h].x = latch[h].x
  BY <1>1, Passing
<1>3. GuardTypes' /\ latch \in [Frame -> LatchType]
  BY <1>1, <1>2 DEF GuardInv, GuardTypes
<1>4. AllFit'
  <2> SUFFICES ASSUME NEW u \in Thread, NEW i \in Slot
               PROVE  /\ Fits(latch', home', content', u, guard[u][i]) /\ KindFits(guard[u][i])
                      /\ OptimisticFits(busy[u], i, guard[u][i])
    BY <1>1 DEF AllFit
  <2>1. ~(HasX(guard[u][i]) \/ HasS(guard[u][i]))
    BY <1>2 DEF NobodyHolds
  <2> QED
    BY <1>2, <1>3, <2>1, GuardIs, GuardStays
<1>5. AllUnderway'
  <2> SUFFICES ASSUME NEW u \in Thread, busy[u].pc # "rest"
               PROVE  /\ busy[u].slot \in Slot
                      /\ Underway(latch', home', content', busy[u], guard[u][busy[u].slot])
    BY <1>1 DEF AllUnderway
  <2> QED
    BY <1>2, <1>3, BusyIs, GuardIs, UnderwayStays
<1>6. OneExclusive' /\ SharersCount'
  BY <1>1, <1>2 DEF GuardInv, OneExclusive, SharersCount, SameShares
<1>7. OwnerInv => OwnerInv'
  BY <1>1, <1>2 DEF OwnerInv
<1> QED
  BY <1>2, <1>3, <1>4, <1>5, <1>6, <1>7 DEF KeepsInv, GuardInv

(* Two guards of a thread exchange what they hold or one takes over from the other. *)
LEMMA SwapStep ==
  ASSUME Apart, GuardInv, NEW t \in Thread, NEW i \in Slot, NEW j \in Slot, SwapWith(t, i, j)
  PROVE  KeepsInv
<1> DEFINE gi == guard[t][i]
           gj == guard[t][j]
           gs == [guard[t] EXCEPT ![i] = gj, ![j] = gi]
<1>1. /\ busy[t] = Resting /\ i # j /\ gi.kind = "X" /\ gj.kind = "X"
      /\ home' = home /\ content' = content /\ latch' = latch /\ busy' = busy /\ misuse' = misuse
      /\ guard' = [guard EXCEPT ![t][i] = gj, ![t][j] = gi]
  BY DEF SwapWith, Idle
<1>2. /\ gi \in GuardType /\ Fits(latch, home, content, t, gi) /\ KindFits(gi)
      /\ gj \in GuardType /\ Fits(latch, home, content, t, gj) /\ KindFits(gj)
      /\ guard[t] \in [Slot -> GuardType] /\ guard \in [Thread -> [Slot -> GuardType]]
      /\ Resting \in BusyType /\ Resting.pc = "rest"
  BY GuardIs, RestingIs DEF GuardInv, GuardTypes
<1>3. /\ gs \in [Slot -> GuardType] /\ gs[i] = gj /\ gs[j] = gi
      /\ \A k \in Slot : k # i /\ k # j => gs[k] = guard[t][k]
      /\ guard' = [guard EXCEPT ![t] = gs]
  BY <1>1, <1>2
<1>4. latch' \in [Frame -> LatchType] /\ LatchesFit' /\ SameView /\ Kept /\ SameShares
  BY <1>1, NoLatch
<1>5. /\ busy' = [busy EXCEPT ![t] = Resting] /\ home' \in Frame \cup {None} /\ content' \in Nat
      /\ ~HasS(gi) /\ ~HasS(gj) /\ \A b, k : OptimisticFits(b, k, gi) /\ OptimisticFits(b, k, gj)
  BY <1>1, <1>2 DEF GuardInv, GuardTypes, KindFits, HasS, OptimisticFits
<1>6. \A k \in Slot : /\ Fits(latch, home, content, t, guard[t][k]) /\ KindFits(guard[t][k])
                      /\ OptimisticFits(Resting, k, guard[t][k])
  BY <1>1, GuardIs
<1>7. \A f \in Frame : Sharing(gs, f) = Sharing(guard[t], f)
  BY <1>3, <1>5 DEF Sharing
<1>8. \A k, m \in Slot : HasX(guard[t][k]) /\ HasX(guard[t][m]) => k = m
  BY DEF GuardInv, OneExclusive
<1>9. \A k, m \in Slot : HasX(gs[k]) /\ HasX(gs[m]) => k = m
  BY <1>1, <1>3, <1>8
<1>10. \A k \in Slot : /\ Fits(latch', home', content', t, gs[k]) /\ KindFits(gs[k])
                       /\ OptimisticFits(Resting, k, gs[k])
  BY <1>1, <1>2, <1>3, <1>5, <1>6
<1> HIDE DEF gs
<1>11. Becomes(t, gs, Resting)
  BY <1>2, <1>3, <1>4, <1>5 DEF Becomes
<1>12. \A f \in Frame : /\ Cardinality(Sharing(gs, f)) = latch'[f].s[t]
                        /\ \A u \in Thread : u # t => latch'[f].s[u] = latch[f].s[u]
  BY <1>1, <1>7 DEF GuardInv, SharersCount
<1>13. GuardInv'
  BY <1>2, <1>4, <1>9, <1>10, <1>11, <1>12, ThreadStep DEF OthersUntouched
<1>14. ASSUME OwnerInv PROVE OwnerInv'
  <2>1. /\ guard'[t] = gs /\ \A u \in Thread : u # t => guard'[u] = guard[u]
    BY <1>2, <1>3
  <2>2. \A u \in Thread, k \in Slot : LatchIsOwned(guard'[u][k])
    BY <1>3, <1>14, <2>1 DEF OwnerInv
  <2>3. ASSUME NEW f \in Frame, NEW u \in Thread, latch'[f].x = u
        PROVE  \E k \in Slot : HasX(guard'[u][k]) /\ guard'[u][k].frame = f
    <3>1. PICK k \in Slot : HasX(guard[u][k]) /\ guard[u][k].frame = f
      BY <1>1, <1>14, <2>3 DEF OwnerInv
    <3>2. CASE u = t /\ k \in {i, j}
      BY <1>3, <2>1, <3>1, <3>2
    <3>3. CASE ~(u = t /\ k \in {i, j})
      BY <1>3, <2>1, <3>1, <3>3
    <3> QED
      BY <3>2, <3>3
  <2> QED
    BY <1>1, <1>14, <2>2, <2>3 DEF OwnerInv
<1> QED
  BY <1>13, <1>14 DEF KeepsInv

(* What operator= does with the latch of its left side, if that is not given up already *)
LEMMA ReleasedIs ==
  ASSUME Apart, GuardInv, NEW t \in Thread, NEW i \in Slot, LatchIsOwned(guard[t][i]),
         latch' = Released(latch, guard[t][i], t), home' = home, content' = content
  PROVE  LET g == guard[t][i] IN
         /\ latch' \in [Frame -> LatchType] /\ LatchesFit' /\ Kept /\ OnlyHolder(t, i)
         /\ \A f \in Frame :
              /\ \A u \in Thread : latch'[f].s[u] = latch[f].s[u] - Counted(u = t /\ HasS(g) /\ g.frame = f)
              /\ latch'[f].x \in {latch[f].x, None}
              /\ HasX(g) /\ g.frame = f => latch'[f].x = None
         /\ g.latchState = "EXCLUSIVE" => latch[g.frame].x = t
<1> DEFINE o == guard[t][i]
<1>0. \A f \in Frame, u \in Thread : latch[f].s[u] \in Nat
  BY DEF GuardInv, GuardTypes, LatchType
<1>1. \/ HasX(o) /\ ~HasS(o) /\ latch' = UnlatchedX(latch, o.frame)
      \/ HasS(o) /\ ~HasX(o) /\ latch' = UnlatchedS(latch, o.frame, t)
      \/ ~HasX(o) /\ ~HasS(o) /\ latch' = latch
  BY DEF HasX, HasS, Released, LatchIsOwned
<1>2. o.latchState = "EXCLUSIVE" => latch[o.frame].x = t
  BY HolderIsAlone DEF HasX, LatchIsOwned
<1>3. CASE HasX(o) /\ ~HasS(o) /\ latch' = UnlatchedX(latch, o.frame)
  <2>1. /\ latch' \in [Frame -> LatchType] /\ LatchesFit' /\ Kept /\ OnlyHolder(t, i) /\ SameShares
        /\ latch'[o.frame].x = None
        /\ \A h \in Frame : h # o.frame => latch'[h] = latch[h]
    BY <1>3, GiveX
  <2> HIDE DEF o
  <2>2. ASSUME NEW f \in Frame
        PROVE  /\ \A u \in Thread : latch'[f].s[u] = latch[f].s[u] - Counted(u = t /\ HasS(o) /\ o.frame = f)
               /\ latch'[f].x \in {latch[f].x, None}
               /\ HasX(o) /\ o.frame = f => latch'[f].x = None
    BY <1>0, <1>3, <2>1 DEF SameShares, Counted
  <2> QED
    BY <1>2, <2>1, <2>2 DEF o
<1>4. CASE HasS(o) /\ ~HasX(o) /\ latch' = UnlatchedS(latch, o.frame, t)
  <2>1. /\ latch' \in [Frame -> LatchType] /\ LatchesFit' /\ SameView /\ Kept
        /\ \A u \in Thread : latch'[o.frame].s[u] = latch[o.frame].s[u] - Counted(u = t)
        /\ \A h \in Frame : h # o.frame => latch'[h] = latch[h]
    BY <1>4, GiveS
  <2> HIDE DEF o
  <2>2. ASSUME NEW f \in Frame
        PROVE  /\ \A u \in Thread : latch'[f].s[u] = latch[f].s[u] - Counted(u = t /\ HasS(o) /\ o.frame = f)
               /\ latch'[f].x \in {latch[f].x, None}
               /\ HasX(o) /\ o.frame = f => latch'[f].x = None
    <3>1. \A u \in Thread : latch'[f].s[u] = latch[f].s[u] - Counted(u = t /\ HasS(o) /\ o.frame = f)
      BY <1>0, <1>4, <2>1 DEF Counted
    <3> QED
      BY <1>4, <2>1, <3>1 DEF SameView
  <2> QED
    BY <1>2, <2>1, <2>2 DEF o, OnlyHolder
<1>5. CASE ~HasX(o) /\ ~HasS(o) /\ latch' = latch
  <2>1. latch' \in [Frame -> LatchType] /\ LatchesFit' /\ SameView /\ Kept /\ SameShares
    BY <1>5, NoLatch
  <2> HIDE DEF o
  <2>2. ASSUME NEW f \in Frame
        PROVE  /\ \A u \in Thread : latch'[f].s[u] = latch[f].s[u] - Counted(u = t /\ HasS(o) /\ o.frame = f)
               /\ latch'[f].x \in {latch[f].x, None}
               /\ HasX(o) /\ o.frame = f => latch'[f].x = None
    BY <1>0, <1>5 DEF Counted
  <2> QED
    BY <1>2, <2>1, <2>2 DEF o, OnlyHolder
<1> QED
  BY <1>1, <1>3, <1>4, <1>5

(* operator=, where no guard has given up its latch without noting it *)
LEMMA AssignStep ==
  ASSUME Apart, GuardInv, OwnerInv, NEW t \in Thread, NEW i \in Slot, NEW j \in Slot, Assign(t, i, j)
  PROVE  GuardInv' /\ OwnerInv'
<1> DEFINE g == guard[t][i]
           h == guard[t][j]
           m == [NoGuard EXCEPT !.kind = h.kind, !.state = "MOVED"]
           zs == [guard[t] EXCEPT ![i] = h]
           gs == [zs EXCEPT ![j] = m]
<1>1. /\ busy[t] = Resting /\ i # j /\ h.kind # "none"
      /\ home' = home /\ content' = content /\ busy' = busy /\ latch' = Released(latch, g, t)
      /\ misuse' = (misuse \/ (g.latchState = "EXCLUSIVE" /\ latch[g.frame].x # t))
      /\ guard' = [guard EXCEPT ![t][i] = h, ![t][j] = m]
  BY DEF Assign, Idle
<1>2. /\ g \in GuardType /\ h \in GuardType /\ Fits(latch, home, content, t, h) /\ KindFits(h)
      /\ OptimisticFits(Resting, j, h) /\ LatchIsOwned(g)
      /\ guard[t] \in [Slot -> GuardType] /\ guard \in [Thread -> [Slot -> GuardType]]
      /\ Resting \in BusyType /\ Resting.pc = "rest"
  BY <1>1, GuardIs, RestingIs DEF GuardInv, GuardTypes, OwnerInv
<1>3. /\ latch' \in [Frame -> LatchType] /\ LatchesFit' /\ Kept /\ OnlyHolder(t, i)
      /\ \A f \in Frame :
           /\ \A u \in Thread : latch'[f].s[u] = latch[f].s[u] - Counted(u = t /\ HasS(g) /\ g.frame = f)
           /\ latch'[f].x \in {latch[f].x, None}
           /\ HasX(g) /\ g.frame = f => latch'[f].x = None
      /\ g.latchState = "EXCLUSIVE" => latch[g.frame].x = t
  BY <1>1, <1>2, ReleasedIs
<1>4. /\ m \in GuardType /\ m.state = "MOVED" /\ m.latchState = "UNLATCHED" /\ m.kind = h.kind
  BY <1>2 DEF GuardType, NoGuard
<1>5. zs \in [Slot -> GuardType] /\ \A k \in Slot : zs[k] = IF k = i THEN h ELSE guard[t][k]
  BY <1>2
<1>6. gs \in [Slot -> GuardType] /\ \A k \in Slot : gs[k] = IF k = j THEN m ELSE zs[k]
  BY <1>4, <1>5
<1>7. guard' = [guard EXCEPT ![t] = gs]
  BY <1>1, <1>2
<1>8. /\ busy' = [busy EXCEPT ![t] = Resting] /\ home' \in Frame \cup {None} /\ content' \in Nat
  BY <1>1 DEF GuardInv, GuardTypes
<1> HIDE DEF gs, zs, m
<1>9. /\ ~HasX(m) /\ ~HasS(m) /\ KindFits(m) /\ OptimisticFits(Resting, j, m) /\ LatchIsOwned(m)
      /\ Fits(latch', home', content', t, m)
  <2>1. h.kind \in {"X", "S", "O"}
    BY <1>1, <1>2 DEF GuardType
  <2> QED
    BY <1>4, <2>1 DEF HasX, HasS, KindFits, OptimisticFits, LatchIsOwned, Fits
<1>10. gs[j] = m /\ gs[i] = h /\ \A k \in Slot : k # i /\ k # j => gs[k] = guard[t][k]
  BY <1>1, <1>5, <1>6
<1>11. ASSUME NEW k \in Slot
       PROVE  Fits(latch', home', content', t, gs[k]) /\ KindFits(gs[k]) /\ OptimisticFits(Resting, k, gs[k])
  <2>1. CASE k = j
    BY <1>9, <1>10, <2>1
  <2>2. CASE k = i
    <3>1. SameView \/ ~(HasX(h) \/ HasS(h))
      BY <1>1, <1>3 DEF OnlyHolder
    <3>2. Fits(latch', home', content', t, h)
      BY <1>2, <1>3, <3>1, GuardStays DEF GuardInv, GuardTypes
    <3>3. OptimisticFits(Resting, i, h)
      BY <1>2 DEF OptimisticFits
    <3> QED
      BY <1>2, <1>10, <2>2, <3>2, <3>3
  <2>3. CASE k # i /\ k # j
    <3>1. SameView \/ ~(HasX(guard[t][k]) \/ HasS(guard[t][k]))
      BY <1>3, <2>3 DEF OnlyHolder
    <3>2. /\ guard[t][k] \in GuardType /\ Fits(latch, home, content, t, guard[t][k]) /\ KindFits(guard[t][k])
          /\ OptimisticFits(Resting, k, guard[t][k]) /\ latch \in [Frame -> LatchType]
      BY <1>1, GuardIs DEF GuardInv, GuardTypes
    <3>3. Fits(latch', home', content', t, guard[t][k])
      BY <1>3, <3>1, <3>2, GuardStays
    <3> QED
      BY <1>10, <2>3, <3>2, <3>3
  <2> QED
    BY <2>1, <2>2, <2>3
<1>12. \A k, n \in Slot : HasX(gs[k]) /\ HasX(gs[n]) => k = n
  <2>1. \A k, n \in Slot : HasX(guard[t][k]) /\ HasX(guard[t][n]) => k = n
    BY DEF GuardInv, OneExclusive
  <2> QED
    BY <1>1, <1>9, <1>10, <2>1
<1>13. ASSUME NEW f \in Frame
       PROVE  /\ Cardinality(Sharing(gs, f)) = latch'[f].s[t]
              /\ \A u \in Thread : u # t => latch'[f].s[u] = latch[f].s[u]
  <2>0. \A u \in Thread : latch[f].s[u] \in Nat
    BY DEF GuardInv, GuardTypes, LatchType
  <2>1. Cardinality(Sharing(zs, f)) =
           Cardinality(Sharing(guard[t], f)) + Counted(HasS(h) /\ h.frame = f) - Counted(HasS(g) /\ g.frame = f)
    BY <1>5, SharersChange
  <2>2. Cardinality(Sharing(gs, f)) =
           Cardinality(Sharing(zs, f)) + Counted(HasS(m) /\ m.frame = f) - Counted(HasS(zs[j]) /\ zs[j].frame = f)
    BY <1>6, SharersChange
  <2>3. zs[j] = h
    BY <1>1, <1>5
  <2>4. Cardinality(Sharing(guard[t], f)) = latch[f].s[t]
    BY DEF GuardInv, SharersCount
  <2>5. Cardinality(Sharing(gs, f)) = latch[f].s[t] - Counted(HasS(g) /\ g.frame = f)
    BY <1>9, <2>0, <2>1, <2>2, <2>3, <2>4 DEF Counted
  <2>6. latch'[f].s[t] = latch[f].s[t] - Counted(HasS(g) /\ g.frame = f)
    BY <1>3 DEF Counted
  <2>7. \A u \in Thread : u # t => latch'[f].s[u] = latch[f].s[u]
    BY <1>3, <2>0 DEF Counted
  <2> QED
    BY <2>5, <2>6, <2>7
<1>14. Becomes(t, gs, Resting)
  BY <1>2, <1>3, <1>6, <1>7, <1>8 DEF Becomes
<1>15. GuardInv'
  <2>1. OthersUntouched(t)
    BY <1>3 DEF OnlyHolder, OthersUntouched
  <2> QED
    BY <1>2, <1>3, <1>11, <1>12, <1>13, <1>14, <2>1, ThreadStep
<1>16. OwnerInv'
  <2>1. /\ guard'[t] = gs /\ \A u \in Thread : u # t => guard'[u] = guard[u]
    BY <1>2, <1>7
  <2>2. \A u \in Thread, k \in Slot : LatchIsOwned(guard'[u][k])
    <3>1. \A u \in Thread, k \in Slot : LatchIsOwned(guard[u][k])
      BY DEF OwnerInv
    <3> QED
      BY <1>9, <1>10, <2>1, <3>1
  <2>3. ASSUME NEW f \in Frame, NEW u \in Thread, latch'[f].x = u
        PROVE  \E k \in Slot : HasX(guard'[u][k]) /\ guard'[u][k].frame = f
    <3>1. latch[f].x = u /\ ~(HasX(g) /\ g.frame = f)
      BY <1>3, <2>3 DEF Apart
    <3>2. PICK k \in Slot : HasX(guard[u][k]) /\ guard[u][k].frame = f
      BY <3>1 DEF OwnerInv
    <3>3. CASE u # t
      BY <2>1, <3>2, <3>3
    <3>4. CASE u = t
      <4>1. k # i
        BY <3>1, <3>2, <3>4
      <4> QED
        BY <1>10, <2>1, <3>2, <3>4, <4>1
    <3> QED
      BY <3>3, <3>4
  <2>4. ~misuse'
    BY <1>1, <1>3 DEF OwnerInv
  <2> QED
    BY <2>2, <2>3, <2>4 DEF OwnerInv
<1> QED
  BY <1>15, <1>16

-----------------------------------------------------------------------------
(* The invariants hold *)

(* At the start there is no guard and no latch is held. *)
LEMMA GuardInit ==
  ASSUME Apart, Init
  PROVE  GuardInv /\ OwnerInv
<1>1. /\ \A t \in Thread, i \in Slot : guard[t][i] = NoGuard
      /\ \A t \in Thread : busy[t] = Resting
      /\ \A f \in Frame : latch[f].x = None /\ latch[f].version = 0 /\ \A t \in Thread : latch[f].s[t] = 0
  BY DEF Init
<1>2. GuardTypes
  <2>1. [version |-> 0, x |-> None, s |-> [t \in Thread |-> 0]] \in LatchType
    BY DEF LatchType
  <2>2. NoGuard \in GuardType /\ Resting \in BusyType
    BY NoGuardIs, RestingIs
  <2> QED
    BY <2>1, <2>2 DEF Init, GuardTypes
<1>3. LatchesFit
  BY <1>1, Parity DEF LatchesFit, LatchFits
<1>4. AllFit /\ AllUnderway /\ OneExclusive
  BY <1>1, NoGuardIs, RestingIs DEF AllFit, AllUnderway, OneExclusive
<1>5. SharersCount
  <2> SUFFICES ASSUME NEW t \in Thread, NEW f \in Frame
               PROVE  Cardinality(Sharing(guard[t], f)) = latch[f].s[t]
    BY DEF SharersCount
  <2>1. Sharing(guard[t], f) = {}
    BY <1>1, NoGuardIs DEF Sharing
  <2> QED
    BY <1>1, <2>1, FS_EmptySet
<1>6. OwnerInv
  BY <1>1, NoGuardIs DEF OwnerInv, Init, Apart
<1> QED
  BY <1>2, <1>3, <1>4, <1>5, <1>6 DEF GuardInv

(* A step that changes nothing *)
LEMMA NothingStep ==
  ASSUME GuardInv, UNCHANGED vars
  PROVE  KeepsInv
BY DEF vars, KeepsInv, GuardInv, GuardTypes, LatchesFit, AllFit, AllUnderway, OneExclusive, SharersCount, OwnerInv

(* Every step but that of operator= keeps the invariants. *)
LEMMA NextStep ==
  ASSUME Apart, GuardInv, [Next]_vars
  PROVE  KeepsInv \/ \E t \in Thread, i, j \in Slot : Assign(t, i, j)
<1>1. CASE UNCHANGED vars
  BY <1>1, NothingStep
<1>2. CASE Evict
  BY <1>2, EvictStep
<1>3. ASSUME NEW t \in Thread, Step(t)
      PROVE  KeepsInv \/ \E u \in Thread, i, j \in Slot : Assign(u, i, j)
  <2>1. CASE DowngradeBegin(t) \/ Downgrade(t) \/ FixAgain(t) \/ Convert(t)
    BY <2>1, DowngradeBeginStep, DowngradeStep, FixAgainStep, ConvertStep
  <2>2. ASSUME NEW i \in Slot,
               \/ \E kind \in {"X", "S", "O"} : FixHit(t, i, kind) \/ FixCold(t, i, kind)
               \/ SharedToExclusive(t, i) \/ OptimisticToExclusive(t, i)
               \/ \E kind \in {"S", "O"} : FromExclusive(t, i, kind)
               \/ FromShared(t, i) \/ FromOptimistic(t, i)
               \/ Destroy(t, i) \/ Reclaim(t, i) \/ Write(t, i)
        PROVE  KeepsInv
    BY <2>2, FixHitStep, FixColdStep, FromSharedStep, FromOptimisticStep, FromExclusiveStep,
       DestroyStep, ReclaimStep, WriteStep
  <2>3. ASSUME NEW i \in Slot, NEW j \in Slot, SwapWith(t, i, j)
        PROVE  KeepsInv
    BY <2>3, SwapStep
  <2> QED
    BY <1>3, <2>1, <2>2, <2>3 DEF Step
<1> QED
  BY <1>1, <1>2, <1>3 DEF Next

(* Without operator= the first invariant holds whatever conversions are used. *)
LEMMA ConversionsKeepInv ==
  ASSUME Apart, GuardInv, [Next]_vars, "assign" \notin Operations
  PROVE  GuardInv'
BY NextStep DEF KeepsInv, Assign

(* Without conversions that give up a latch first both hold, operator= included. *)
LEMMA MovesKeepInv ==
  ASSUME Apart, GuardInv, OwnerInv, [Next]_vars, KeepsLatches
  PROVE  GuardInv' /\ OwnerInv'
BY NextStep, AssignStep DEF KeepsInv

(* The guards that hold a latch count. *)
LEMMA GuardsMissNoWrite ==
  ASSUME Apart, GuardInv
  PROVE  ConversionMissesNoWrite
<1> SUFFICES ASSUME NEW t \in Thread, NEW i \in Slot, guard[t][i].state = "INITIALIZED"
             PROVE  LET g == guard[t][i] IN
      /\ g.latchState = "EXCLUSIVE" => latch[g.frame].x = t /\ home = g.frame /\ g.seen = content
      /\ g.latchState = "SHARED" => latch[g.frame].s[t] > 0 /\ home = g.frame /\ g.seen = content
      /\ g.latchState = "OPTIMISTIC" /\ latch[g.frame].version = g.v =>
           home = g.frame /\ g.seen = content
  BY DEF ConversionMissesNoWrite, Guards
<1> DEFINE g == guard[t][i]
<1>1. Fits(latch, home, content, t, g)
  BY GuardIs
<1>2. g.latchState = "EXCLUSIVE" => latch[g.frame].x = t /\ home = g.frame /\ g.seen = content
  BY <1>1 DEF Fits, HasX, OnPage
<1>3. ASSUME g.latchState = "SHARED"
      PROVE  latch[g.frame].s[t] > 0 /\ home = g.frame /\ g.seen = content
  <2>1. HasS(g) /\ g.frame \in Frame /\ home = g.frame /\ g.seen = content
    BY <1>1, <1>3 DEF Fits, HasS, OnPage
  <2>2. i \in Sharing(guard[t], g.frame) /\ IsFiniteSet(Sharing(guard[t], g.frame))
    BY <2>1, FS_Subset DEF Apart, Sharing
  <2>3. Cardinality(Sharing(guard[t], g.frame)) # 0
    BY <2>2, FS_EmptySet
  <2>4. latch[g.frame].s[t] \in Nat /\ latch[g.frame].s[t] # 0
    BY <2>1, <2>3 DEF GuardInv, SharersCount, GuardTypes, LatchType
  <2> QED
    BY <2>1, <2>4
<1>4. g.latchState = "OPTIMISTIC" /\ latch[g.frame].version = g.v => home = g.frame /\ g.seen = content
  BY <1>1 DEF Fits, Known
<1> QED
  BY <1>2, <1>3, <1>4

(* The guard that will release a latch is the one that holds it. *)
LEMMA GuardsOwnLatches ==
  ASSUME Apart, GuardInv, OwnerInv
  PROVE  LatchHasOneOwner /\ OnlyHolderUnlatches
<1>1. ASSUME NEW t \in Thread, NEW f \in Frame
      PROVE  Cardinality(Owner(t, f, "EXCLUSIVE")) = (IF latch[f].x = t THEN 1 ELSE 0)
  <2> DEFINE W == Owner(t, f, "EXCLUSIVE")
  <2>1. \A i \in Slot : i \in W <=> HasX(guard[t][i]) /\ guard[t][i].frame = f
    BY DEF Owner, HasX
  <2>2. W \subseteq Slot
    BY DEF Owner
  <2> HIDE DEF W
  <2>3. CASE latch[f].x = t
    <3>1. PICK i \in Slot : HasX(guard[t][i]) /\ guard[t][i].frame = f
      BY <2>3 DEF OwnerInv
    <3>2. \A j \in Slot : HasX(guard[t][j]) => j = i
      BY <3>1 DEF GuardInv, OneExclusive
    <3>3. W = {i}
      BY <2>1, <2>2, <3>1, <3>2
    <3> QED
      BY <2>3, <3>3, FS_Singleton DEF W
  <2>4. CASE latch[f].x # t
    <3>1. \A i \in Slot : ~(HasX(guard[t][i]) /\ guard[t][i].frame = f)
      BY <2>4, GuardIs DEF Fits
    <3>2. W = {}
      BY <2>1, <2>2, <3>1
    <3> QED
      BY <2>4, <3>2, FS_EmptySet DEF W
  <2> QED
    BY <2>3, <2>4
<1>2. ASSUME NEW t \in Thread, NEW f \in Frame
      PROVE  Cardinality(Owner(t, f, "SHARED")) = latch[f].s[t]
  <2>1. Owner(t, f, "SHARED") = Sharing(guard[t], f)
    BY DEF Owner, Sharing, HasS
  <2> QED
    BY <2>1 DEF GuardInv, SharersCount
<1> QED
  BY <1>1, <1>2 DEF LatchHasOneOwner, OnlyHolderUnlatches, OwnerInv

(***************************************************************************)
(* A guard that may be used has missed no write, whatever conversions the  *)
(* threads use: X, S and O guards of any number of threads, each with any  *)
(* number of guard variables, over any number of frames the page may be    *)
(* evicted from and brought back into (BufferFrameGuards.hpp).             *)
(***************************************************************************)
THEOREM ConversionsMissNoWrite ==
  ASSUME Apart, "assign" \notin Operations
  PROVE  Spec => []ConversionMissesNoWrite
<1>1. Init => GuardInv
  BY GuardInit
<1>2. GuardInv /\ [Next]_vars => GuardInv'
  BY ConversionsKeepInv
<1>3. GuardInv => ConversionMissesNoWrite
  BY GuardsMissNoWrite
<1> QED
  BY <1>1, <1>2, <1>3, PTL DEF Spec

(***************************************************************************)
(* Guards that are moved by operator= and swapped, but not downgraded,     *)
(* leave every latch that is held to exactly one of them, which releases   *)
(* it, release none that somebody else holds, and have missed no write.    *)
(***************************************************************************)
THEOREM MovesKeepOwners ==
  ASSUME Apart, KeepsLatches
  PROVE  Spec => [](ConversionMissesNoWrite /\ LatchHasOneOwner /\ OnlyHolderUnlatches)
<1>1. Init => GuardInv /\ OwnerInv
  BY GuardInit
<1>2. GuardInv /\ OwnerInv /\ [Next]_vars => GuardInv' /\ OwnerInv'
  BY MovesKeepInv
<1>3. GuardInv /\ OwnerInv => ConversionMissesNoWrite /\ LatchHasOneOwner /\ OnlyHolderUnlatches
  BY GuardsMissNoWrite, GuardsOwnLatches
<1> QED
  BY <1>1, <1>2, <1>3, PTL DEF Spec
=============================================================================
