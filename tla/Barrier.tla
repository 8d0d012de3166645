------------------------------ MODULE Barrier ------------------------------
(***************************************************************************)
(* concurrency::Barrier: threads of one process meet by two atomics, a     *)
(* counter and a round of eight bits that wraps around.                    *)
(***************************************************************************)
EXTENDS Integers, FiniteSets

CONSTANTS
  Threads,
  RoundMod,    \* number of values of round
  MaxRounds    \* bound: calls of wait by each thread

threadCount == Cardinality(Threads)

VARIABLES
  cntr, round,
  pc,          \* [Threads -> program counter in wait]
  prevRound,   \* [Threads -> local variable]
  calls,       \* [Threads -> calls of wait so far]
  rounds       \* rounds that have ended, counted without wrapping around

vars == <<cntr, round, pc, prevRound, calls, rounds>>

Init ==
  /\ cntr = threadCount /\ round = 0 /\ rounds = 0
  /\ pc = [t \in Threads |-> "out"] /\ prevRound = [t \in Threads |-> 0] /\ calls = [t \in Threads |-> 0]

Goto(t, l) == pc' = [pc EXCEPT ![t] = l]

Load(t) ==
  /\ pc[t] = "out" /\ calls[t] < MaxRounds
  /\ prevRound' = [prevRound EXCEPT ![t] = round] /\ calls' = [calls EXCEPT ![t] = @ + 1]
  /\ Goto(t, "loaded") /\ UNCHANGED <<cntr, round, rounds>>

FetchSub(t) ==
  /\ pc[t] = "loaded" /\ cntr' = cntr - 1
  /\ Goto(t, IF cntr = 1 THEN "last" ELSE "spin") /\ UNCHANGED <<round, prevRound, calls, rounds>>

\* the last thread sets the counter before anybody can come again
Reset(t) ==
  /\ pc[t] = "last" /\ cntr' = threadCount
  /\ Goto(t, "final") /\ UNCHANGED <<round, prevRound, calls, rounds>>

\* finalizer(); then the round ends
Finalize(t) ==
  /\ pc[t] = "final" 
  /\ Goto(t, "next") /\ UNCHANGED <<cntr, round, prevRound, calls, rounds>>

NextRound(t) ==
  /\ pc[t] = "next" /\ round' = (round + 1) % RoundMod /\ rounds' = rounds + 1
  /\ Goto(t, "leave") /\ UNCHANGED <<cntr, prevRound, calls>>

Leave(t) ==
  /\ pc[t] = "leave" \/ (pc[t] = "spin" /\ round # prevRound[t])
  /\ Goto(t, "out") /\ UNCHANGED <<cntr, round, prevRound, calls, rounds>>

Thread(t) == Load(t) \/ FetchSub(t) \/ Reset(t) \/ Finalize(t) \/ NextRound(t) \/ Leave(t)
Next == \E t \in Threads : Thread(t)
Spec == Init /\ [][Next]_vars

-----------------------------------------------------------------------------
(* Properties *)

Waiting == {t \in Threads : pc[t] \in {"last", "final", "next"} \/ (pc[t] = "spin" /\ round = prevRound[t])}
Released == {t \in Threads : pc[t] = "leave" \/ (pc[t] = "spin" /\ round # prevRound[t])}

Abstract == INSTANCE RoundBarrier WITH waiting <- Waiting, released <- Released

\* The barrier with its two atomics is a barrier: nobody leaves a round that somebody has not come to, although
\* the next round may begin while slow threads still spin in this one and round wraps around.
IsBarrier == Abstract!Spec

\* While the last thread runs the finalizer all the others wait: it runs alone.
FinalizerAlone == \A t \in Threads : pc[t] = "final" => Waiting = Threads

\* all threads have got through all rounds
AllRoundsDone == rounds = MaxRounds /\ \A t \in Threads : pc[t] = "out"
=============================================================================
