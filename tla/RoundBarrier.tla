---------------------------- MODULE RoundBarrier ----------------------------
(***************************************************************************)
(* What a barrier promises: a round ends when all threads have come, they  *)
(* leave after that, and nobody comes again before it has left.            *)
(***************************************************************************)
EXTENDS Integers, FiniteSets

CONSTANT Threads

VARIABLES
  waiting,    \* threads that have come in the current round
  released,   \* threads that may leave, from the round before
  rounds      \* rounds that have ended

vars == <<waiting, released, rounds>>

Init == waiting = {} /\ released = {} /\ rounds = 0

Come(t) == t \notin waiting \cup released /\ waiting' = waiting \cup {t} /\ UNCHANGED <<released, rounds>>

EndRound == waiting = Threads /\ waiting' = {} /\ released' = Threads /\ rounds' = rounds + 1

Leave(t) == t \in released /\ released' = released \ {t} /\ UNCHANGED <<waiting, rounds>>

Next == EndRound \/ \E t \in Threads : Come(t) \/ Leave(t)

Spec == Init /\ [][Next]_vars
=============================================================================
