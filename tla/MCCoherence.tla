----------------------------- MODULE MCCoherence -----------------------------
(***************************************************************************)
(* Four nodes: the owner o with one worker, node a with two, nodes b and c  *)
(* with one each.  In every behaviour three of the five workers take part  *)
(* (active), so that an instance stands for several layouts: workers on    *)
(* three different nodes with or without the owner's among them, and two   *)
(* workers that share the frame of node a.                                 *)
(***************************************************************************)
EXTENDS Coherence, TLC, FiniteSets

CONSTANTS o, a, b, c, wo, wa1, wa2, wb, wc, Layouts

VARIABLE active

MCNodeOf == [w \in Worker |-> (wo :> o @@ wa1 :> a @@ wa2 :> a @@ wb :> b @@ wc :> c)[w]]

(* The two workers of node a are interchangeable, and so are the nodes b and *)
(* c together with their workers.                                          *)
Swap == b :> c @@ c :> b @@ wb :> wc @@ wc :> wb
Symmetry == {p @@ q : p \in Permutations({wa1, wa2}), q \in {Swap, [x \in DOMAIN Swap |-> x]}}

AnyThree == {s \in SUBSET Worker : Cardinality(s) = 3 /\ s # {wo, wb, wc}}
Everybody == {Worker}

MCInit == Init /\ active \in Layouts

MCNext == /\ Next
          /\ \A w \in Worker \ active : worker'[w] = worker[w]
          /\ UNCHANGED active

MCSpec == MCInit /\ [][MCNext]_<<vars, active>>
MCFairSpec == MCSpec /\ Fairness
=============================================================================
