------------------------------ MODULE PageLock ------------------------------
(***************************************************************************)
(* What fix and the guards promise to the code above the buffer manager:   *)
(* a page is one lock for the whole cluster.  A worker that asks for a     *)
(* guard waits until it gets it; a guard for writing excludes all others,  *)
(* guards for reading exclude only writers.  How nodes, copies, messages   *)
(* and latches bring this about is not visible here.                       *)
(***************************************************************************)
CONSTANT Worker

VARIABLES
    created, \* the page exists
    guard    \* what each worker holds or waits for

MODE == {"EXCLUSIVE", "SHARED"}
NoGuard == [status |-> "none"]
Waiting(mode) == [status |-> "waiting", mode |-> mode]
Held(mode) == [status |-> "held", mode |-> mode]

Init ==
    /\ created = FALSE
    /\ guard = [w \in Worker |-> NoGuard]

(* newPage and newRemotePage return the page latched exclusively. *)
Create(w) ==
    /\ ~created /\ guard[w] = NoGuard
    /\ created' = TRUE
    /\ guard' = [guard EXCEPT ![w] = Held("EXCLUSIVE")]

(* fix is called ... *)
Ask(w) ==
    /\ created /\ guard[w] = NoGuard
    /\ \E mode \in MODE : guard' = [guard EXCEPT ![w] = Waiting(mode)]
    /\ UNCHANGED created

Compatible(mode, g) == g.status = "held" => mode = "SHARED" /\ g.mode = "SHARED"

(* ... and returns the guard. *)
Grant(w) ==
    /\ \E mode \in MODE :
          /\ guard[w] = Waiting(mode)
          /\ \A v \in Worker \ {w} : Compatible(mode, guard[v])
          /\ guard' = [guard EXCEPT ![w] = Held(mode)]
    /\ UNCHANGED created

Release(w) ==
    /\ guard[w] \in {Held(mode) : mode \in MODE}
    /\ guard' = [guard EXCEPT ![w] = NoGuard]
    /\ UNCHANGED created

Next == \E w \in Worker : Create(w) \/ Ask(w) \/ Grant(w) \/ Release(w)

vars == <<created, guard>>

Spec == Init /\ [][Next]_vars
=============================================================================
