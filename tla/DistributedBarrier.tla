------------------------- MODULE DistributedBarrier -------------------------
(***************************************************************************)
(* storage::DistributedBarrier: the barrier as a page.  Threads come with  *)
(* an exclusive guard and then spin with optimistic guards, which check    *)
(* the version of the page after they have read it.                        *)
(***************************************************************************)
EXTENDS Integers, FiniteSets

CONSTANTS
  Threads,
  RoundMod,    \* number of values of round
  MaxRounds    \* bound: calls of wait by each thread

VARIABLES
  body,        \* [cntr, round]: the page
  holder,      \* set of the thread with the exclusive guard
  version,     \* version of the latch
  pc,
  prevRound,   \* [Threads -> local variable]
  seen,        \* [Threads -> [version, round] that the optimistic guard has read]
  calls,       \* [Threads -> calls of wait so far]
  rounds       \* rounds that have ended

vars == <<body, holder, version, pc, prevRound, seen, calls, rounds>>
threadCount == Cardinality(Threads)

\* Body::initialize
Init ==
  /\ body = [cntr |-> threadCount, round |-> 0] /\ holder = {} /\ version = 0 /\ rounds = 0
  /\ pc = [t \in Threads |-> "out"] /\ prevRound = [t \in Threads |-> 0]
  /\ seen = [t \in Threads |-> [version |-> 0, round |-> 0]] /\ calls = [t \in Threads |-> 0]

Goto(t, l) == pc' = [pc EXCEPT ![t] = l]

\* ExclusiveBFGuard
Fix(t) ==
  /\ pc[t] = "out" /\ calls[t] < MaxRounds /\ holder = {}
  /\ holder' = {t} /\ calls' = [calls EXCEPT ![t] = @ + 1]
  /\ Goto(t, "come") /\ UNCHANGED <<body, version, prevRound, seen, rounds>>

Come(t) ==
  /\ pc[t] = "come"
  /\ prevRound' = [prevRound EXCEPT ![t] = body.round]
  /\ body' = [body EXCEPT !.cntr = IF @ = 1 THEN threadCount ELSE @ - 1]
  /\ Goto(t, IF body.cntr = 1 THEN "final" ELSE "unfix")
  /\ UNCHANGED <<holder, version, seen, calls, rounds>>

\* the finalizer runs with the guard held
Finalize(t) ==
  /\ pc[t] = "final" /\ body' = [body EXCEPT !.round = (@ + 1) % RoundMod] /\ rounds' = rounds + 1
  /\ Goto(t, "unfixLast") /\ UNCHANGED <<holder, version, prevRound, seen, calls>>

Unfix(t) ==
  /\ pc[t] \in {"unfix", "unfixLast"}
  /\ holder' = {} /\ version' = version + 1
  /\ Goto(t, IF pc[t] = "unfix" THEN "spin" ELSE "out") /\ UNCHANGED <<body, prevRound, seen, calls, rounds>>

\* OptimisticBFGuard and the read of round, which may happen while another thread changes the page
Optimistic(t) ==
  /\ pc[t] = "spin" /\ holder = {}
  /\ seen' = [seen EXCEPT ![t].version = version]
  /\ Goto(t, "read") /\ UNCHANGED <<body, holder, version, prevRound, calls, rounds>>

Read(t) ==
  /\ pc[t] = "read" /\ seen' = [seen EXCEPT ![t].round = body.round]
  /\ Goto(t, "validate") /\ UNCHANGED <<body, holder, version, prevRound, calls, rounds>>

\* Mutant: only a change of the version is waited for
ValidateVersion(t) ==
  /\ pc[t] = "validate"
  /\ Goto(t, IF version # seen[t].version THEN "out" ELSE "spin")
  /\ UNCHANGED <<body, holder, version, prevRound, seen, calls, rounds>>

\* guard.retry(), then the comparison of the rounds
Validate(t) ==
  /\ pc[t] = "validate"
  /\ Goto(t, IF holder = {} /\ version = seen[t].version /\ seen[t].round # prevRound[t] THEN "out" ELSE "spin")
  /\ UNCHANGED <<body, holder, version, prevRound, seen, calls, rounds>>

Thread(t) == Fix(t) \/ Come(t) \/ Finalize(t) \/ Unfix(t) \/ Optimistic(t) \/ Read(t) \/ Validate(t)
Next == \E t \in Threads : Thread(t)

Spec == Init /\ [][Next]_vars

-----------------------------------------------------------------------------
(* Properties *)

Inside == {t \in Threads : pc[t] \in {"unfix", "spin", "read", "validate"}}
Waiting == {t \in Inside : body.round = prevRound[t]} \cup {t \in Threads : pc[t] = "final"}
Released == {t \in Inside : body.round # prevRound[t]} \cup {t \in Threads : pc[t] = "unfixLast"}

Abstract == INSTANCE RoundBarrier WITH waiting <- Waiting, released <- Released

\* The barrier page is a barrier, whatever an optimistic reader sees of it.
IsBarrier == Abstract!Spec

\* all threads have got through all rounds
AllRoundsDone == rounds = MaxRounds /\ \A t \in Threads : pc[t] = "out"
=============================================================================
