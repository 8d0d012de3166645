------------------------------- MODULE Epochs -------------------------------
(***************************************************************************)
(* The idea of the possession protocol, without latches, messages and      *)
(* threads: why the copies of ONE page stay coherent.                      *)
(*                                                                         *)
(* The directory, the owner's frame of the page, numbers the changes of    *)
(* possession: pVersion is the current epoch.  A grant that conflicts with *)
(* the possession so far opens a new epoch and names the nodes of the last *)
(* one that the requester has to ask for their copies; it may use the page *)
(* when all of them have given up.  Meanwhile the owner can open the next  *)
(* epoch already, so nodes of several epochs wait for each other in a      *)
(* chain.  Readers join an epoch in shared mode; when the owner has no     *)
(* copy they fetch one from another member, which may fail.                *)
(*                                                                         *)
(* CoherenceSafety shows that the protocol of module Coherence implements  *)
(* this specification; what is proved here carries over to it.             *)
(***************************************************************************)
EXTENDS Naturals, TLAPS

CONSTANTS
    Node, \* the nodes of the cluster
    Owner \* the node whose frame is the directory

VARIABLES
    dir,  \* the directory: the current epoch, its mode and its members
    copy  \* what each node has of the page

MODE == {"EXCLUSIVE", "SHARED"}

STATUS == {"none",    \* neither the page nor a promise of it
           "copying", \* may fetch a copy from one of the nodes in wait
           "moving",  \* will get the page from one of the nodes in wait
           "page"}    \* has the page; may use it when wait is empty

Dir == [epoch : Nat, mode : MODE \cup {"NOBODY"}, nodes : SUBSET Node]
Copy == [status : STATUS, epoch : Nat, mode : MODE, wait : SUBSET Node]

NoPage == [epoch |-> 0, mode |-> "NOBODY", nodes |-> {}]

CopyOf(status, epoch, mode, wait) ==
    [status |-> status, epoch |-> epoch, mode |-> mode, wait |-> wait]

NoCopy == CopyOf("none", 0, "SHARED", {})

In(n) == copy[n].status # "none"
Copying(n) == copy[n].status = "copying"
HasPage(n) == copy[n].status = "page"
Epoch(n) == copy[n].epoch

(* Node n may use the page. *)
Ready(n) == HasPage(n) /\ copy[n].wait = {}

(* Node n has, or will be given, the page without copying it. *)
Leads(n) == In(n) /\ ~Copying(n)

Init == dir = NoPage /\ copy = [n \in Node |-> NoCopy]

(* The page is allocated by node n. *)
Create(n) ==
    /\ dir.mode = "NOBODY"
    /\ dir' = [epoch |-> 0, mode |-> "EXCLUSIVE", nodes |-> {n}]
    /\ copy' = [copy EXCEPT ![n] = CopyOf("page", 0, "EXCLUSIVE", {})]

(* Node n is granted the page in an epoch of its own.  It has to ask the   *)
(* members of the last epoch; the owner's own copy, if there is one, is    *)
(* handed over with the grant.                                             *)
NewEpoch(n, mode) ==
    /\ dir.mode # "NOBODY"
    /\ In(Owner) => Ready(Owner)
    /\ In(n) => Ready(n) /\ Epoch(n) = dir.epoch
    /\ dir' = [epoch |-> dir.epoch + 1, mode |-> mode, nodes |-> {n}]
    /\ copy' = [m \in Node |->
          IF m = n
          THEN CopyOf(IF In(n) \/ In(Owner) THEN "page" ELSE "moving",
                      dir.epoch + 1, mode, dir.nodes \ {Owner, n})
          ELSE IF m = Owner THEN NoCopy ELSE copy[m]]

(* The owner, alone with the page, shares it with node n. *)
ShareOwner(n) ==
    /\ dir.mode # "NOBODY" /\ dir.nodes = {Owner} /\ Ready(Owner) /\ ~In(n)
    /\ dir' = [epoch |-> dir.epoch + 1, mode |-> "SHARED",
               nodes |-> {Owner, n}]
    /\ copy' = [m \in Node |->
          IF m \in {Owner, n}
          THEN CopyOf("page", dir.epoch + 1, "SHARED", {}) ELSE copy[m]]

(* Node n joins the readers and gets the owner's copy ... *)
Join(n) ==
    /\ dir.mode = "SHARED" /\ Ready(Owner) /\ ~In(n)
    /\ dir' = [dir EXCEPT !.nodes = @ \cup {n}]
    /\ copy' = [copy EXCEPT ![n] = CopyOf("page", dir.epoch, "SHARED", {})]

(* ... or has to fetch a copy, because the owner has none. *)
JoinCopying(n) ==
    /\ dir.mode = "SHARED" /\ ~In(Owner) /\ ~In(n)
    /\ dir' = [dir EXCEPT !.nodes = @ \cup {n}]
    /\ copy' = [copy EXCEPT ![n] = CopyOf("copying", dir.epoch, "SHARED",
                                          dir.nodes)]

(* src, which may use the page, hands a copy of it to node n. *)
Copied(n, src) ==
    /\ Copying(n) /\ src \in copy[n].wait /\ Ready(src)
    /\ copy' = [copy EXCEPT ![n] = CopyOf("page", copy[n].epoch, "SHARED", {})]
    /\ UNCHANGED dir

(* Node n stops trying; it stays a member until it is asked to give up. *)
StopCopying(n) ==
    /\ Copying(n) /\ n # Owner
    /\ copy' = [copy EXCEPT ![n] = CopyOf("copying", copy[n].epoch, "SHARED",
                                          {})]
    /\ UNCHANGED dir

(* Node n gives up its copy because m has asked for it. *)
GiveUp(m, n) ==
    /\ copy[m].status \in {"moving", "page"} /\ n \in copy[m].wait
    /\ Ready(n) \/ (Copying(n) /\ HasPage(m))
    /\ copy' = [copy EXCEPT ![n] = NoCopy,
                            ![m] = CopyOf("page", copy[m].epoch, copy[m].mode,
                                          copy[m].wait \ {n})]
    /\ UNCHANGED dir

(* Node n evicts its copy; others have the page. *)
Leave(n) ==
    /\ Ready(n) /\ Epoch(n) = dir.epoch /\ dir.mode = "SHARED"
    /\ dir.nodes # {n} /\ n # Owner
    /\ \A m \in dir.nodes : ~Copying(m)
    /\ dir' = [dir EXCEPT !.nodes = @ \ {n}]
    /\ copy' = [copy EXCEPT ![n] = NoCopy]

(* Node n evicts the last copy: the owner takes it. *)
TakeBack(n) ==
    /\ Ready(n) /\ dir.nodes = {n} /\ n # Owner
    /\ dir' = [dir EXCEPT !.nodes = {Owner}]
    /\ copy' = [copy EXCEPT ![n] = NoCopy,
                            ![Owner] = CopyOf("page", dir.epoch, dir.mode, {})]

(* The owner drops its copy, or stops copying, while others have the page. *)
OwnerLeaves ==
    /\ dir.mode = "SHARED" /\ dir.nodes # {Owner}
    /\ Ready(Owner) \/ Copying(Owner)
    /\ dir' = [dir EXCEPT !.nodes = @ \ {Owner}]
    /\ copy' = [copy EXCEPT ![Owner] = NoCopy]

Next ==
    \/ \E n \in Node : \/ Create(n) \/ ShareOwner(n)
                       \/ Join(n) \/ JoinCopying(n) \/ StopCopying(n)
                       \/ Leave(n) \/ TakeBack(n)
    \/ \E n \in Node, mode \in MODE : NewEpoch(n, mode)
    \/ \E n, m \in Node : Copied(n, m) \/ GiveUp(m, n)
    \/ OwnerLeaves

vars == <<dir, copy>>

Spec == Init /\ [][Next]_vars

-----------------------------------------------------------------------------
(* The inductive invariant *)

TypeOK == dir \in Dir /\ copy \in [Node -> Copy]

(* The directory lists exactly the nodes of the current epoch, in its mode. *)
Members == dir.nodes = {n \in Node : In(n) /\ Epoch(n) = dir.epoch}
DirMode == \A n \in Node : In(n) /\ Epoch(n) = dir.epoch => copy[n].mode = dir.mode
NotAhead == \A n \in Node : In(n) => Epoch(n) <= dir.epoch
OwnerCurrent == In(Owner) => Epoch(Owner) = dir.epoch

(* Once the page is created some node has it. *)
NothingYet == dir.mode = "NOBODY" => dir = NoPage /\ \A n \in Node : copy[n] = NoCopy
Exists == dir.mode # "NOBODY" <=> \E n \in Node : HasPage(n)

(* An epoch has one mode; alone in it is the node that has it exclusively. *)
OneMode ==
    \A n, m \in Node : In(n) /\ In(m) /\ Epoch(n) = Epoch(m) =>
        /\ copy[n].mode = copy[m].mode
        /\ copy[n].mode = "EXCLUSIVE" => n = m
CopyingShared == \A n \in Node : Copying(n) => copy[n].mode = "SHARED"

(* A node that leads waits as long as there is a node of an older epoch,    *)
(* and exactly for the nodes of the epoch before its own; of the nodes of  *)
(* an epoch only one waits.                                                *)
Waits ==
    \A n, m \in Node : Leads(n) /\ In(m) /\ Epoch(m) < Epoch(n) =>
        copy[n].wait # {}
WaitsForAll ==
    \A n, m \in Node : Leads(n) /\ In(m) /\ Epoch(m) + 1 = Epoch(n) =>
        m \in copy[n].wait
WaitsOnly ==
    \A n, m \in Node : Leads(n) /\ m \in copy[n].wait =>
        In(m) /\ Epoch(m) + 1 = Epoch(n)
OneLeader ==
    \A n, m \in Node :
        Leads(n) /\ Leads(m) /\ Epoch(n) = Epoch(m)
            /\ copy[n].wait # {} /\ copy[m].wait # {} => n = m
OwnerNotAsked == \A n \in Node : Owner \notin copy[n].wait
MovingWaits == \A n \in Node : copy[n].status = "moving" => copy[n].wait # {}

(* No epoch is left without a node that leads while older ones are about. *)
CurrentLed ==
    \A m \in Node : In(m) /\ Epoch(m) < dir.epoch =>
        \E p \in Node : Leads(p) /\ Epoch(p) = dir.epoch
NextLed ==
    \A m \in Node : In(m) /\ Epoch(m) < dir.epoch =>
        \E p \in Node : Leads(p) /\ Epoch(p) = Epoch(m) + 1
CopyingLed ==
    \A n, m \in Node : Copying(n) /\ In(m) /\ Epoch(m) < Epoch(n) =>
        \E p \in Node : Leads(p) /\ Epoch(p) = Epoch(n)

(* A source that is still there is not older than the node that copies, and *)
(* in the current epoch there is one besides the owner.                    *)
Sources ==
    \A n, m \in Node : Copying(n) /\ In(m) /\ m \in copy[n].wait =>
        Epoch(m) >= Epoch(n)
CopyingHasSource ==
    \A n \in Node : Copying(n) /\ Epoch(n) = dir.epoch =>
        \E p \in Node : p # Owner /\ Leads(p) /\ Epoch(p) = dir.epoch

(* A node has the page only when at most the readers of the epoch before    *)
(* its own are still about.                                                *)
PageIsCurrent ==
    \A n, m \in Node : HasPage(n) /\ In(m) =>
        /\ Epoch(m) + 1 >= Epoch(n)
        /\ Epoch(m) + 1 = Epoch(n) => copy[m].mode = "SHARED"

EpochInv ==
    /\ TypeOK /\ Members /\ NotAhead /\ Exists /\ NothingYet
    /\ Waits /\ WaitsForAll /\ WaitsOnly /\ OwnerNotAsked /\ OneMode /\ DirMode
    /\ Sources /\ CopyingShared /\ CopyingLed /\ CurrentLed /\ NextLed
    /\ OneLeader /\ OwnerCurrent /\ PageIsCurrent /\ MovingWaits
    /\ CopyingHasSource

(* A node that may write is the only one that has the page: every other     *)
(* copy was given up before the last of its waits ended.                   *)
WriterAlone ==
    \A n, m \in Node :
        Ready(n) /\ copy[n].mode = "EXCLUSIVE" /\ HasPage(m) => m = n

-----------------------------------------------------------------------------
(* Every action preserves the invariant. *)


LEMMA EpochTypes ==
    TypeOK => /\ dir.epoch \in Nat /\ dir.nodes \subseteq Node
              /\ \A k \in Node : copy[k].epoch \in Nat /\ copy[k].wait \subseteq Node
BY DEF TypeOK, Dir, Copy

LEMMA CreateStep ==
    ASSUME Owner \in Node, EpochInv, NEW n \in Node, Create(n)
    PROVE  EpochInv'
<1> USE DEF In, Copying, HasPage, Ready, Leads, Epoch,
            CopyOf, NoCopy, NoPage
<1>0. /\ TypeOK /\ Members /\ NotAhead /\ Exists /\ NothingYet
      /\ Waits /\ WaitsForAll /\ WaitsOnly /\ OwnerNotAsked /\ OneMode
      /\ DirMode /\ Sources /\ CopyingShared /\ CopyingLed /\ CurrentLed
      /\ NextLed /\ OneLeader /\ OwnerCurrent /\ PageIsCurrent /\ MovingWaits
      /\ CopyingHasSource
  BY DEF EpochInv
<1>t. /\ dir.epoch \in Nat /\ dir.nodes \subseteq Node
      /\ \A k \in Node : copy[k].epoch \in Nat /\ copy[k].wait \subseteq Node
  BY <1>0, EpochTypes
<1>v. /\ dir'.epoch = 0 /\ dir'.mode = "EXCLUSIVE"
      /\ dir'.nodes = {n}
      /\ copy'[n].status = "page" /\ copy'[n].epoch = 0
      /\ copy'[n].mode = "EXCLUSIVE" /\ copy'[n].wait = {}
      /\ \A k \in Node : k # n => copy'[k] = copy[k]
      /\ dir.mode = "NOBODY"
  BY <1>0 DEF Create, TypeOK, Dir, Copy
<1>1. TypeOK'
  BY <1>0 DEF Create, TypeOK, NothingYet, Dir, Copy, STATUS, MODE
<1>2. Members'
  BY <1>0, <1>t, <1>v DEF Members, NothingYet
<1>3. NotAhead'
  BY <1>0, <1>t, <1>v DEF NotAhead, NothingYet
<1>4. Exists'
  BY <1>0, <1>t, <1>v DEF Exists, NothingYet
<1>5. NothingYet'
  BY <1>0, <1>t, <1>v DEF NothingYet
<1>6. Waits'
  BY <1>0, <1>t, <1>v DEF Waits, NothingYet
<1>7. WaitsForAll'
  BY <1>0, <1>t, <1>v DEF WaitsForAll, NothingYet
<1>8. WaitsOnly'
  BY <1>0, <1>t, <1>v DEF WaitsOnly, NothingYet
<1>9. OwnerNotAsked'
  BY <1>0, <1>t, <1>v DEF OwnerNotAsked, NothingYet
<1>10. OneMode'
  BY <1>0, <1>t, <1>v DEF OneMode, NothingYet
<1>11. DirMode'
  BY <1>0, <1>t, <1>v DEF DirMode, NothingYet
<1>12. Sources'
  BY <1>0, <1>t, <1>v DEF Sources, NothingYet
<1>13. CopyingShared'
  BY <1>0, <1>t, <1>v DEF CopyingShared, NothingYet
<1>14. CopyingLed'
  BY <1>0, <1>t, <1>v DEF CopyingLed, NothingYet
<1>15. CurrentLed'
  BY <1>0, <1>t, <1>v DEF CurrentLed, NothingYet
<1>16. NextLed'
  BY <1>0, <1>t, <1>v DEF NextLed, NothingYet
<1>17. OneLeader'
  BY <1>0, <1>t, <1>v DEF OneLeader, NothingYet
<1>18. OwnerCurrent'
  BY <1>0, <1>t, <1>v DEF OwnerCurrent, NothingYet
<1>19. PageIsCurrent'
  BY <1>0, <1>t, <1>v DEF PageIsCurrent, NothingYet
<1>20. MovingWaits'
  BY <1>0, <1>t, <1>v DEF MovingWaits, NothingYet
<1>21. CopyingHasSource'
  BY <1>0, <1>t, <1>v DEF CopyingHasSource, NothingYet
<1> QED
  BY <1>1, <1>2, <1>3, <1>4, <1>5, <1>6, <1>7, <1>8, <1>9, <1>10,
     <1>11, <1>12, <1>13, <1>14, <1>15, <1>16, <1>17, <1>18, <1>19, <1>20,
     <1>21 DEF EpochInv

LEMMA NewEpochStep ==
    ASSUME Owner \in Node, EpochInv, NEW n \in Node, NEW mode \in MODE, NewEpoch(n, mode)
    PROVE  EpochInv'
<1> USE DEF In, Copying, HasPage, Ready, Leads, Epoch,
            CopyOf, NoCopy, NoPage
<1>0. /\ TypeOK /\ Members /\ NotAhead /\ Exists /\ NothingYet
      /\ Waits /\ WaitsForAll /\ WaitsOnly /\ OwnerNotAsked /\ OneMode
      /\ DirMode /\ Sources /\ CopyingShared /\ CopyingLed /\ CurrentLed
      /\ NextLed /\ OneLeader /\ OwnerCurrent /\ PageIsCurrent /\ MovingWaits
      /\ CopyingHasSource
  BY DEF EpochInv
<1>t. /\ dir.epoch \in Nat /\ dir.nodes \subseteq Node
      /\ \A k \in Node : copy[k].epoch \in Nat /\ copy[k].wait \subseteq Node
  BY <1>0, EpochTypes
<1>v. /\ dir'.epoch = dir.epoch + 1 /\ dir'.mode = mode
      /\ dir'.nodes = {n}
      /\ copy'[n].status = (IF In(n) \/ In(Owner) THEN "page" ELSE "moving") /\ copy'[n].epoch = dir.epoch + 1
      /\ copy'[n].mode = mode /\ copy'[n].wait = dir.nodes \ {Owner, n}
      /\ n # Owner => copy'[Owner] = NoCopy
      /\ \A k \in Node : k # n /\ k # Owner => copy'[k] = copy[k]
      /\ dir.mode # "NOBODY" /\ (In(Owner) => Ready(Owner)) /\ (In(n) => Ready(n) /\ copy[n].epoch = dir.epoch)
  BY <1>0 DEF NewEpoch, TypeOK, Dir, Copy
<1>m. mode # "NOBODY"
  BY DEF MODE
<1>k. In(n) \/ In(Owner) => \A k \in Node : In(k) => Epoch(k) = dir.epoch
  BY <1>0, <1>t, <1>v DEF Waits, NotAhead, OwnerCurrent
<1>p. PICK p \in Node : Leads(p) /\ Epoch(p) = dir.epoch
  BY <1>0, <1>t, <1>v DEF Exists, CurrentLed, NotAhead
<1>e. \A k \in Node : k # n /\ copy'[k].status # "none" => k # Owner /\ copy'[k] = copy[k]
  BY <1>v
<1>1. TypeOK'
  BY <1>0 DEF NewEpoch, TypeOK, Members, NotAhead, Dir, Copy, STATUS, MODE
<1>2. Members'
  BY <1>0, <1>t, <1>v DEF Members, NotAhead
<1>3. NotAhead'
  BY <1>0, <1>t, <1>v DEF NotAhead, Members
<1>4. Exists'
  <2>1. CASE In(n) \/ In(Owner)
    BY <1>m, <1>v, <2>1 DEF Exists
  <2>2. CASE ~In(n) /\ ~In(Owner)
    BY <1>0, <1>m, <1>v, <2>2 DEF Exists
  <2> QED
    BY <2>1, <2>2
<1>5. NothingYet'
  BY <1>m, <1>v DEF NothingYet
<1>6. Waits'
  <2> SUFFICES ASSUME NEW i \in Node, NEW j \in Node, Leads(i)', In(j)', Epoch(j)' < Epoch(i)'
               PROVE  copy'[i].wait # {}
    BY DEF Waits
  <2>1. CASE i = n
    <3>1. CASE In(n) \/ In(Owner)
      <4>1. j # n /\ j # Owner /\ In(j)
        BY <1>e, <1>t, <1>v, <2>1
      <4>2. j \in dir.nodes
        BY <1>0, <1>k, <3>1, <4>1 DEF Members
      <4> QED
        BY <1>v, <2>1, <4>1, <4>2
    <3>2. CASE ~In(n) /\ ~In(Owner)
      BY <1>0, <1>p, <1>v, <2>1, <3>2 DEF Members
    <3> QED
      BY <3>1, <3>2
  <2>2. CASE i # n
    BY <1>0, <1>e, <1>t, <1>v, <2>2 DEF Waits, NotAhead
  <2> QED
    BY <2>1, <2>2
<1>7. WaitsForAll'
  BY <1>0, <1>t, <1>v DEF WaitsForAll, Members, NotAhead
<1>8. WaitsOnly'
  <2> SUFFICES ASSUME NEW i \in Node, NEW j \in Node, Leads(i)', j \in copy'[i].wait
               PROVE  In(j)' /\ Epoch(j)' + 1 = Epoch(i)'
    BY DEF WaitsOnly
  <2>1. CASE i = n
    BY <1>0, <1>v, <2>1 DEF Members
  <2>2. CASE i # n
    <3>1. i # Owner /\ copy'[i] = copy[i]
      BY <1>e, <2>2
    <3>2. In(j) /\ Epoch(j) + 1 = Epoch(i) /\ j # Owner
      BY <1>0, <3>1 DEF WaitsOnly, OwnerNotAsked
    <3>3. j # n
      BY <1>0, <1>t, <1>v, <3>1, <3>2 DEF NotAhead
    <3> QED
      BY <1>v, <3>1, <3>2, <3>3
  <2> QED
    BY <2>1, <2>2
<1>9. OwnerNotAsked'
  BY <1>0, <1>t, <1>v DEF OwnerNotAsked, Members, NotAhead
<1>10. OneMode'
  BY <1>0, <1>t, <1>v DEF OneMode, Members, NotAhead
<1>11. DirMode'
  BY <1>0, <1>t, <1>v DEF DirMode, Members, NotAhead
<1>12. Sources'
  BY <1>0, <1>t, <1>v DEF Sources, Members, NotAhead
<1>13. CopyingShared'
  BY <1>0, <1>t, <1>v DEF CopyingShared, Members, NotAhead
<1>14. CopyingLed'
  <2> SUFFICES ASSUME NEW i \in Node, NEW j \in Node, Copying(i)', In(j)', Epoch(j)' < Epoch(i)'
               PROVE  \E q \in Node : Leads(q)' /\ Epoch(q)' = Epoch(i)'
    BY DEF CopyingLed
  <2>1. i # n /\ i # Owner /\ copy'[i] = copy[i]
    BY <1>e, <1>v
  <2>2. j # n /\ j # Owner /\ copy'[j] = copy[j]
    BY <1>0, <1>e, <1>t, <1>v, <2>1 DEF NotAhead
  <2>3. PICK q \in Node : Leads(q) /\ Epoch(q) = Epoch(i)
    BY <1>0, <2>1, <2>2 DEF CopyingLed
  <2>4. q # n /\ q # Owner
    BY <1>0, <1>v, <2>1, <2>2, <2>3 DEF Waits
  <2> QED
    BY <1>v, <2>1, <2>3, <2>4
<1>15. CurrentLed'
  BY <1>0, <1>t, <1>v DEF CurrentLed, Members, NotAhead
<1>16. NextLed'
  <2> SUFFICES ASSUME NEW j \in Node, In(j)', Epoch(j)' < dir'.epoch
               PROVE  \E q \in Node : Leads(q)' /\ Epoch(q)' = Epoch(j)' + 1
    BY DEF NextLed
  <2>1. j # n /\ j # Owner /\ copy'[j] = copy[j]
    BY <1>e, <1>t, <1>v
  <2>2. CASE Epoch(j) = dir.epoch
    BY <1>v, <2>1, <2>2
  <2>3. CASE Epoch(j) < dir.epoch
    <3>1. PICK q \in Node : Leads(q) /\ Epoch(q) = Epoch(j) + 1
      BY <1>0, <2>1, <2>3 DEF NextLed
    <3>2. ~In(n) /\ ~In(Owner)
      BY <1>k, <1>t, <2>1, <2>3
    <3> QED
      BY <1>v, <2>1, <3>1, <3>2
  <2> QED
    BY <1>0, <1>t, <2>1, <2>2, <2>3 DEF NotAhead
<1>17. OneLeader'
  BY <1>0, <1>t, <1>v DEF OneLeader, Members, NotAhead
<1>18. OwnerCurrent'
  BY <1>0, <1>t, <1>v DEF OwnerCurrent, Members, NotAhead
<1>19. PageIsCurrent'
  <2> SUFFICES ASSUME NEW i \in Node, NEW j \in Node, HasPage(i)', In(j)'
               PROVE  /\ Epoch(j)' + 1 >= Epoch(i)'
                      /\ Epoch(j)' + 1 = Epoch(i)' => copy'[j].mode = "SHARED"
    BY DEF PageIsCurrent
  <2>1. CASE j = n
    <3>1. Epoch(i)' <= dir.epoch + 1 /\ Epoch(i)' \in Nat
      BY <1>0, <1>e, <1>t, <1>v DEF NotAhead
    <3> QED
      BY <1>t, <1>v, <2>1, <3>1
  <2>2. CASE i = n /\ j # n
    <3>1. j # Owner /\ copy'[j] = copy[j]
      BY <1>e, <2>2
    <3>2. In(n) \/ In(Owner)
      BY <1>v, <2>2
    <3>3. PICK q \in {n, Owner} : In(q) /\ q # j
      BY <2>2, <3>1, <3>2
    <3>4. copy[j].mode \in MODE /\ q \in Node
      BY <1>0 DEF TypeOK, Copy
    <3>5. Epoch(j) = dir.epoch /\ Epoch(q) = dir.epoch
      BY <1>k, <3>1, <3>2, <3>3, <3>4
    <3>6. copy[j].mode = "SHARED"
      BY <1>0, <3>1, <3>3, <3>4, <3>5 DEF OneMode, MODE
    <3> QED
      BY <1>t, <1>v, <2>2, <3>1, <3>5, <3>6
  <2>3. CASE i # n /\ j # n
    BY <1>0, <1>e, <2>3 DEF PageIsCurrent
  <2> QED
    BY <2>1, <2>2, <2>3
<1>20. MovingWaits'
  <2>1. ~In(n) /\ ~In(Owner) => dir.nodes \ {Owner, n} # {}
    BY <1>0, <1>p DEF Members
  <2> QED
    BY <1>0, <1>e, <1>v, <2>1 DEF MovingWaits
<1>21. CopyingHasSource'
  BY <1>0, <1>t, <1>v DEF CopyingHasSource, Members, NotAhead
<1> QED
  BY <1>1, <1>2, <1>3, <1>4, <1>5, <1>6, <1>7, <1>8, <1>9, <1>10,
     <1>11, <1>12, <1>13, <1>14, <1>15, <1>16, <1>17, <1>18, <1>19, <1>20,
     <1>21 DEF EpochInv

LEMMA ShareOwnerStep ==
    ASSUME Owner \in Node, EpochInv, NEW n \in Node, ShareOwner(n)
    PROVE  EpochInv'
<1> USE DEF In, Copying, HasPage, Ready, Leads, Epoch,
            CopyOf, NoCopy, NoPage
<1>0. /\ TypeOK /\ Members /\ NotAhead /\ Exists /\ NothingYet
      /\ Waits /\ WaitsForAll /\ WaitsOnly /\ OwnerNotAsked /\ OneMode
      /\ DirMode /\ Sources /\ CopyingShared /\ CopyingLed /\ CurrentLed
      /\ NextLed /\ OneLeader /\ OwnerCurrent /\ PageIsCurrent /\ MovingWaits
      /\ CopyingHasSource
  BY DEF EpochInv
<1>t. /\ dir.epoch \in Nat /\ dir.nodes \subseteq Node
      /\ \A k \in Node : copy[k].epoch \in Nat /\ copy[k].wait \subseteq Node
  BY <1>0, EpochTypes
<1>v. /\ dir'.epoch = dir.epoch + 1 /\ dir'.mode = "SHARED"
      /\ dir'.nodes = {Owner, n}
      /\ copy'[n].status = "page" /\ copy'[n].epoch = dir.epoch + 1
      /\ copy'[n].mode = "SHARED" /\ copy'[n].wait = {}
      /\ copy'[Owner].status = "page" /\ copy'[Owner].epoch = dir.epoch + 1
      /\ copy'[Owner].mode = "SHARED" /\ copy'[Owner].wait = {}
      /\ \A k \in Node : k # n /\ k # Owner => copy'[k] = copy[k]
      /\ dir.mode # "NOBODY" /\ dir.nodes = {Owner} /\ Ready(Owner) /\ ~In(n)
  BY <1>0 DEF ShareOwner, TypeOK, Dir, Copy
<1>1. TypeOK'
  BY <1>0 DEF ShareOwner, TypeOK, Members, NotAhead, Dir, Copy, STATUS, MODE
<1>2. Members'
  BY <1>0, <1>t, <1>v DEF Members, NotAhead
<1>3. NotAhead'
  BY <1>0, <1>t, <1>v DEF NotAhead, Members
<1>4. Exists'
  BY <1>0, <1>t, <1>v DEF Exists, Members, NotAhead
<1>5. NothingYet'
  BY <1>0, <1>t, <1>v DEF NothingYet, Members, NotAhead
<1>6. Waits'
  BY <1>0, <1>t, <1>v DEF Waits, Members, NotAhead
<1>7. WaitsForAll'
  BY <1>0, <1>t, <1>v DEF WaitsForAll, Members, NotAhead
<1>8. WaitsOnly'
  BY <1>0, <1>t, <1>v DEF WaitsOnly, Members, NotAhead
<1>9. OwnerNotAsked'
  BY <1>0, <1>t, <1>v DEF OwnerNotAsked, Members, NotAhead
<1>10. OneMode'
  BY <1>0, <1>t, <1>v DEF OneMode, Members, NotAhead
<1>11. DirMode'
  BY <1>0, <1>t, <1>v DEF DirMode, Members, NotAhead
<1>12. Sources'
  BY <1>0, <1>t, <1>v DEF Sources, Members, NotAhead
<1>13. CopyingShared'
  BY <1>0, <1>t, <1>v DEF CopyingShared, Members, NotAhead
<1>14. CopyingLed'
  BY <1>0, <1>t, <1>v DEF CopyingLed, Members, NotAhead
<1>15. CurrentLed'
  BY <1>0, <1>t, <1>v DEF CurrentLed, Members, NotAhead
<1>16. NextLed'
  BY <1>0, <1>t, <1>v DEF NextLed, Members, NotAhead, Waits
<1>17. OneLeader'
  BY <1>0, <1>t, <1>v DEF OneLeader, Members, NotAhead
<1>18. OwnerCurrent'
  BY <1>0, <1>t, <1>v DEF OwnerCurrent, Members, NotAhead
<1>19. PageIsCurrent'
  BY <1>0, <1>t, <1>v DEF PageIsCurrent, Members, NotAhead, Waits
<1>20. MovingWaits'
  BY <1>0, <1>t, <1>v DEF MovingWaits, Members, NotAhead
<1>21. CopyingHasSource'
  BY <1>0, <1>t, <1>v DEF CopyingHasSource, Members, NotAhead
<1> QED
  BY <1>1, <1>2, <1>3, <1>4, <1>5, <1>6, <1>7, <1>8, <1>9, <1>10,
     <1>11, <1>12, <1>13, <1>14, <1>15, <1>16, <1>17, <1>18, <1>19, <1>20,
     <1>21 DEF EpochInv

LEMMA JoinStep ==
    ASSUME Owner \in Node, EpochInv, NEW n \in Node, Join(n)
    PROVE  EpochInv'
<1> USE DEF In, Copying, HasPage, Ready, Leads, Epoch,
            CopyOf, NoCopy, NoPage
<1>0. /\ TypeOK /\ Members /\ NotAhead /\ Exists /\ NothingYet
      /\ Waits /\ WaitsForAll /\ WaitsOnly /\ OwnerNotAsked /\ OneMode
      /\ DirMode /\ Sources /\ CopyingShared /\ CopyingLed /\ CurrentLed
      /\ NextLed /\ OneLeader /\ OwnerCurrent /\ PageIsCurrent /\ MovingWaits
      /\ CopyingHasSource
  BY DEF EpochInv
<1>t. /\ dir.epoch \in Nat /\ dir.nodes \subseteq Node
      /\ \A k \in Node : copy[k].epoch \in Nat /\ copy[k].wait \subseteq Node
  BY <1>0, EpochTypes
<1>v. /\ dir'.epoch = dir.epoch /\ dir'.mode = dir.mode
      /\ dir'.nodes = dir.nodes \cup {n}
      /\ copy'[n].status = "page" /\ copy'[n].epoch = dir.epoch
      /\ copy'[n].mode = "SHARED" /\ copy'[n].wait = {}
      /\ \A k \in Node : k # n => copy'[k] = copy[k]
      /\ dir.mode = "SHARED" /\ Ready(Owner) /\ ~In(n)
  BY <1>0 DEF Join, TypeOK, Dir, Copy
<1>1. TypeOK'
  BY <1>0 DEF Join, TypeOK, Members, DirMode, Dir, Copy, STATUS, MODE
<1>2. Members'
  BY <1>0, <1>t, <1>v DEF Members, DirMode
<1>3. NotAhead'
  BY <1>0, <1>t, <1>v DEF NotAhead, Members, DirMode
<1>4. Exists'
  BY <1>0, <1>t, <1>v DEF Exists, Members, DirMode
<1>5. NothingYet'
  BY <1>0, <1>t, <1>v DEF NothingYet, Members, DirMode
<1>6. Waits'
  BY <1>0, <1>t, <1>v DEF Waits, Members, NotAhead, OwnerCurrent
<1>7. WaitsForAll'
  BY <1>0, <1>t, <1>v DEF WaitsForAll, Members, NotAhead, Waits, OwnerCurrent
<1>8. WaitsOnly'
  BY <1>0, <1>t, <1>v DEF WaitsOnly, Members, DirMode
<1>9. OwnerNotAsked'
  BY <1>0, <1>t, <1>v DEF OwnerNotAsked, Members, DirMode
<1>10. OneMode'
  BY <1>0, <1>t, <1>v DEF OneMode, Members, DirMode
<1>11. DirMode'
  BY <1>0, <1>t, <1>v DEF DirMode, Members
<1>12. Sources'
  BY <1>0, <1>t, <1>v DEF Sources, Members, NotAhead, Waits, OwnerCurrent
<1>13. CopyingShared'
  BY <1>0, <1>t, <1>v DEF CopyingShared, Members, DirMode
<1>14. CopyingLed'
  BY <1>0, <1>t, <1>v DEF CopyingLed, Members, NotAhead, Waits, OwnerCurrent
<1>15. CurrentLed'
  BY <1>0, <1>t, <1>v DEF CurrentLed, Members, NotAhead, Waits, OwnerCurrent
<1>16. NextLed'
  BY <1>0, <1>t, <1>v DEF NextLed, Members, NotAhead, Waits, OwnerCurrent
<1>17. OneLeader'
  BY <1>0, <1>t, <1>v DEF OneLeader, Members, DirMode
<1>18. OwnerCurrent'
  BY <1>0, <1>t, <1>v DEF OwnerCurrent, Members, DirMode
<1>19. PageIsCurrent'
  BY <1>0, <1>t, <1>v DEF PageIsCurrent, Members, NotAhead, Waits,
       OwnerCurrent
<1>20. MovingWaits'
  BY <1>0, <1>t, <1>v DEF MovingWaits, Members, DirMode
<1>21. CopyingHasSource'
  BY <1>0, <1>t, <1>v DEF CopyingHasSource, Members, DirMode
<1> QED
  BY <1>1, <1>2, <1>3, <1>4, <1>5, <1>6, <1>7, <1>8, <1>9, <1>10,
     <1>11, <1>12, <1>13, <1>14, <1>15, <1>16, <1>17, <1>18, <1>19, <1>20,
     <1>21 DEF EpochInv

LEMMA JoinCopyingStep ==
    ASSUME Owner \in Node, EpochInv, NEW n \in Node, JoinCopying(n)
    PROVE  EpochInv'
<1> USE DEF In, Copying, HasPage, Ready, Leads, Epoch,
            CopyOf, NoCopy, NoPage
<1>0. /\ TypeOK /\ Members /\ NotAhead /\ Exists /\ NothingYet
      /\ Waits /\ WaitsForAll /\ WaitsOnly /\ OwnerNotAsked /\ OneMode
      /\ DirMode /\ Sources /\ CopyingShared /\ CopyingLed /\ CurrentLed
      /\ NextLed /\ OneLeader /\ OwnerCurrent /\ PageIsCurrent /\ MovingWaits
      /\ CopyingHasSource
  BY DEF EpochInv
<1>t. /\ dir.epoch \in Nat /\ dir.nodes \subseteq Node
      /\ \A k \in Node : copy[k].epoch \in Nat /\ copy[k].wait \subseteq Node
  BY <1>0, EpochTypes
<1>v. /\ dir'.epoch = dir.epoch /\ dir'.mode = dir.mode
      /\ dir'.nodes = dir.nodes \cup {n}
      /\ copy'[n].status = "copying" /\ copy'[n].epoch = dir.epoch
      /\ copy'[n].mode = "SHARED" /\ copy'[n].wait = dir.nodes
      /\ \A k \in Node : k # n => copy'[k] = copy[k]
      /\ dir.mode = "SHARED" /\ ~In(Owner) /\ ~In(n)
  BY <1>0 DEF JoinCopying, TypeOK, Dir, Copy
<1>1. TypeOK'
  BY <1>0 DEF JoinCopying, TypeOK, Members, DirMode, Dir, Copy, STATUS, MODE
<1>2. Members'
  BY <1>0, <1>t, <1>v DEF Members, DirMode
<1>3. NotAhead'
  BY <1>0, <1>t, <1>v DEF NotAhead, Members, DirMode
<1>4. Exists'
  BY <1>0, <1>t, <1>v DEF Exists, Members, DirMode
<1>5. NothingYet'
  BY <1>0, <1>t, <1>v DEF NothingYet, Members, DirMode
<1>6. Waits'
  BY <1>0, <1>t, <1>v DEF Waits, Members, NotAhead
<1>7. WaitsForAll'
  BY <1>0, <1>t, <1>v DEF WaitsForAll, Members, NotAhead
<1>8. WaitsOnly'
  BY <1>0, <1>t, <1>v DEF WaitsOnly, Members, DirMode
<1>9. OwnerNotAsked'
  BY <1>0, <1>t, <1>v DEF OwnerNotAsked, Members, DirMode
<1>10. OneMode'
  BY <1>0, <1>t, <1>v DEF OneMode, Members, DirMode
<1>11. DirMode'
  BY <1>0, <1>t, <1>v DEF DirMode, Members
<1>12. Sources'
  BY <1>0, <1>t, <1>v DEF Sources, Members, NotAhead
<1>13. CopyingShared'
  BY <1>0, <1>t, <1>v DEF CopyingShared, Members, DirMode
<1>14. CopyingLed'
  BY <1>0, <1>t, <1>v DEF CopyingLed, Members, NotAhead, CurrentLed, Exists
<1>15. CurrentLed'
  BY <1>0, <1>t, <1>v DEF CurrentLed, Members, DirMode
<1>16. NextLed'
  BY <1>0, <1>t, <1>v DEF NextLed, Members, DirMode
<1>17. OneLeader'
  BY <1>0, <1>t, <1>v DEF OneLeader, Members, DirMode
<1>18. OwnerCurrent'
  BY <1>0, <1>t, <1>v DEF OwnerCurrent, Members, DirMode
<1>19. PageIsCurrent'
  BY <1>0, <1>t, <1>v DEF PageIsCurrent, Members, NotAhead
<1>20. MovingWaits'
  BY <1>0, <1>t, <1>v DEF MovingWaits, Members, DirMode
<1>21. CopyingHasSource'
  BY <1>0, <1>t, <1>v DEF CopyingHasSource, Members, NotAhead, CurrentLed,
       Exists
<1> QED
  BY <1>1, <1>2, <1>3, <1>4, <1>5, <1>6, <1>7, <1>8, <1>9, <1>10,
     <1>11, <1>12, <1>13, <1>14, <1>15, <1>16, <1>17, <1>18, <1>19, <1>20,
     <1>21 DEF EpochInv

LEMMA StopCopyingStep ==
    ASSUME Owner \in Node, EpochInv, NEW n \in Node, StopCopying(n)
    PROVE  EpochInv'
<1> USE DEF In, Copying, HasPage, Ready, Leads, Epoch,
            CopyOf, NoCopy, NoPage
<1>0. /\ TypeOK /\ Members /\ NotAhead /\ Exists /\ NothingYet
      /\ Waits /\ WaitsForAll /\ WaitsOnly /\ OwnerNotAsked /\ OneMode
      /\ DirMode /\ Sources /\ CopyingShared /\ CopyingLed /\ CurrentLed
      /\ NextLed /\ OneLeader /\ OwnerCurrent /\ PageIsCurrent /\ MovingWaits
      /\ CopyingHasSource
  BY DEF EpochInv
<1>t. /\ dir.epoch \in Nat /\ dir.nodes \subseteq Node
      /\ \A k \in Node : copy[k].epoch \in Nat /\ copy[k].wait \subseteq Node
  BY <1>0, EpochTypes
<1>v. /\ dir' = dir /\ copy'[n].status = "copying" /\ copy'[n].epoch = copy[n].epoch
      /\ copy'[n].mode = "SHARED" /\ copy'[n].wait = {}
      /\ \A k \in Node : k # n => copy'[k] = copy[k]
      /\ Copying(n) /\ n # Owner
  BY <1>0 DEF StopCopying, TypeOK, Dir, Copy
<1>1. TypeOK'
  BY <1>0 DEF StopCopying, TypeOK, Dir, Copy, STATUS, MODE
<1>2. Members'
  BY <1>0, <1>t, <1>v DEF Members
<1>3. NotAhead'
  BY <1>0, <1>t, <1>v DEF NotAhead
<1>4. Exists'
  BY <1>0, <1>t, <1>v DEF Exists
<1>5. NothingYet'
  BY <1>0, <1>t, <1>v DEF NothingYet
<1>6. Waits'
  BY <1>0, <1>t, <1>v DEF Waits
<1>7. WaitsForAll'
  BY <1>0, <1>t, <1>v DEF WaitsForAll
<1>8. WaitsOnly'
  BY <1>0, <1>t, <1>v DEF WaitsOnly
<1>9. OwnerNotAsked'
  BY <1>0, <1>t, <1>v DEF OwnerNotAsked
<1>10. OneMode'
  BY <1>0, <1>t, <1>v DEF OneMode, CopyingShared
<1>11. DirMode'
  BY <1>0, <1>t, <1>v DEF DirMode, CopyingShared
<1>12. Sources'
  BY <1>0, <1>t, <1>v DEF Sources
<1>13. CopyingShared'
  BY <1>0, <1>t, <1>v DEF CopyingShared
<1>14. CopyingLed'
  BY <1>0, <1>t, <1>v DEF CopyingLed
<1>15. CurrentLed'
  BY <1>0, <1>t, <1>v DEF CurrentLed
<1>16. NextLed'
  BY <1>0, <1>t, <1>v DEF NextLed
<1>17. OneLeader'
  BY <1>0, <1>t, <1>v DEF OneLeader
<1>18. OwnerCurrent'
  BY <1>0, <1>t, <1>v DEF OwnerCurrent
<1>19. PageIsCurrent'
  BY <1>0, <1>t, <1>v DEF PageIsCurrent
<1>20. MovingWaits'
  BY <1>0, <1>t, <1>v DEF MovingWaits
<1>21. CopyingHasSource'
  BY <1>0, <1>t, <1>v DEF CopyingHasSource
<1> QED
  BY <1>1, <1>2, <1>3, <1>4, <1>5, <1>6, <1>7, <1>8, <1>9, <1>10,
     <1>11, <1>12, <1>13, <1>14, <1>15, <1>16, <1>17, <1>18, <1>19, <1>20,
     <1>21 DEF EpochInv

LEMMA LeaveStep ==
    ASSUME Owner \in Node, EpochInv, NEW n \in Node, Leave(n)
    PROVE  EpochInv'
<1> USE DEF In, Copying, HasPage, Ready, Leads, Epoch,
            CopyOf, NoCopy, NoPage
<1>0. /\ TypeOK /\ Members /\ NotAhead /\ Exists /\ NothingYet
      /\ Waits /\ WaitsForAll /\ WaitsOnly /\ OwnerNotAsked /\ OneMode
      /\ DirMode /\ Sources /\ CopyingShared /\ CopyingLed /\ CurrentLed
      /\ NextLed /\ OneLeader /\ OwnerCurrent /\ PageIsCurrent /\ MovingWaits
      /\ CopyingHasSource
  BY DEF EpochInv
<1>t. /\ dir.epoch \in Nat /\ dir.nodes \subseteq Node
      /\ \A k \in Node : copy[k].epoch \in Nat /\ copy[k].wait \subseteq Node
  BY <1>0, EpochTypes
<1>v. /\ dir'.epoch = dir.epoch /\ dir'.mode = dir.mode
      /\ dir'.nodes = dir.nodes \ {n}
      /\ copy'[n] = NoCopy
      /\ \A k \in Node : k # n => copy'[k] = copy[k]
      /\ Ready(n) /\ copy[n].epoch = dir.epoch /\ dir.mode = "SHARED" /\ dir.nodes # {n}
      /\ n # Owner /\ \A k \in dir.nodes : ~Copying(k)
  BY <1>0 DEF Leave, TypeOK, Dir, Copy
<1>1. TypeOK'
  BY <1>0 DEF Leave, TypeOK, Members, Waits, Dir, Copy, STATUS, MODE
<1>2. Members'
  BY <1>0, <1>t, <1>v DEF Members, Waits
<1>3. NotAhead'
  BY <1>0, <1>t, <1>v DEF NotAhead, Members, Waits
<1>4. Exists'
  <2>1. PICK p \in dir.nodes : p # n
    BY <1>0, <1>t, <1>v DEF Members
  <2>2. p \in Node /\ In(p) /\ Epoch(p) = dir.epoch /\ ~Copying(p)
    BY <1>0, <1>v, <2>1 DEF Members
  <2>3. copy[p].status # "moving"
    <3>1. SUFFICES ASSUME copy[p].status = "moving" PROVE FALSE
      OBVIOUS
    <3>2. PICK k \in Node : In(k) /\ Epoch(k) + 1 = dir.epoch
      BY <1>0, <1>t, <2>2, <3>1 DEF MovingWaits, WaitsOnly
    <3> QED
      BY <1>0, <1>t, <1>v, <3>2 DEF Waits
  <2>4. HasPage(p)
    BY <1>0, <2>2, <2>3 DEF TypeOK, Copy, STATUS
  <2> QED
    BY <1>v, <2>1, <2>2, <2>4 DEF Exists
<1>5. NothingYet'
  BY <1>0, <1>t, <1>v DEF NothingYet, Members, Waits
<1>6. Waits'
  BY <1>0, <1>t, <1>v DEF Waits, Members
<1>7. WaitsForAll'
  BY <1>0, <1>t, <1>v DEF WaitsForAll, Members, Waits
<1>8. WaitsOnly'
  BY <1>0, <1>t, <1>v DEF WaitsOnly, Members, NotAhead
<1>9. OwnerNotAsked'
  BY <1>0, <1>t, <1>v DEF OwnerNotAsked, Members, Waits
<1>10. OneMode'
  BY <1>0, <1>t, <1>v DEF OneMode, Members, Waits
<1>11. DirMode'
  BY <1>0, <1>t, <1>v DEF DirMode, Members, Waits
<1>12. Sources'
  BY <1>0, <1>t, <1>v DEF Sources, Members, Waits
<1>13. CopyingShared'
  BY <1>0, <1>t, <1>v DEF CopyingShared, Members, Waits
<1>14. CopyingLed'
  BY <1>0, <1>t, <1>v DEF CopyingLed, Members, Waits
<1>15. CurrentLed'
  BY <1>0, <1>t, <1>v DEF CurrentLed, Members, Waits
<1>16. NextLed'
  BY <1>0, <1>t, <1>v DEF NextLed, Members, Waits
<1>17. OneLeader'
  BY <1>0, <1>t, <1>v DEF OneLeader, Members, Waits
<1>18. OwnerCurrent'
  BY <1>0, <1>t, <1>v DEF OwnerCurrent, Members, Waits
<1>19. PageIsCurrent'
  BY <1>0, <1>t, <1>v DEF PageIsCurrent, Members, Waits
<1>20. MovingWaits'
  BY <1>0, <1>t, <1>v DEF MovingWaits, Members, Waits
<1>21. CopyingHasSource'
  BY <1>0, <1>t, <1>v DEF CopyingHasSource, Members, Waits
<1> QED
  BY <1>1, <1>2, <1>3, <1>4, <1>5, <1>6, <1>7, <1>8, <1>9, <1>10,
     <1>11, <1>12, <1>13, <1>14, <1>15, <1>16, <1>17, <1>18, <1>19, <1>20,
     <1>21 DEF EpochInv

LEMMA TakeBackStep ==
    ASSUME Owner \in Node, EpochInv, NEW n \in Node, TakeBack(n)
    PROVE  EpochInv'
<1> USE DEF In, Copying, HasPage, Ready, Leads, Epoch,
            CopyOf, NoCopy, NoPage
<1>0. /\ TypeOK /\ Members /\ NotAhead /\ Exists /\ NothingYet
      /\ Waits /\ WaitsForAll /\ WaitsOnly /\ OwnerNotAsked /\ OneMode
      /\ DirMode /\ Sources /\ CopyingShared /\ CopyingLed /\ CurrentLed
      /\ NextLed /\ OneLeader /\ OwnerCurrent /\ PageIsCurrent /\ MovingWaits
      /\ CopyingHasSource
  BY DEF EpochInv
<1>t. /\ dir.epoch \in Nat /\ dir.nodes \subseteq Node
      /\ \A k \in Node : copy[k].epoch \in Nat /\ copy[k].wait \subseteq Node
  BY <1>0, EpochTypes
<1>v. /\ dir'.epoch = dir.epoch /\ dir'.mode = dir.mode
      /\ dir'.nodes = {Owner}
      /\ copy'[n] = NoCopy
      /\ copy'[Owner].status = "page" /\ copy'[Owner].epoch = dir.epoch
      /\ copy'[Owner].mode = dir.mode /\ copy'[Owner].wait = {}
      /\ \A k \in Node : k # n /\ k # Owner => copy'[k] = copy[k]
      /\ Ready(n) /\ dir.nodes = {n} /\ n # Owner
  BY <1>0 DEF TakeBack, TypeOK, Dir, Copy
<1>1. TypeOK'
  BY <1>0 DEF TakeBack, TypeOK, NothingYet, Dir, Copy, STATUS, MODE
<1>2. Members'
  BY <1>0, <1>t, <1>v DEF Members, Waits
<1>3. NotAhead'
  BY <1>0, <1>t, <1>v DEF NotAhead, Members, Waits
<1>4. Exists'
  BY <1>0, <1>t, <1>v DEF Exists, Members, Waits
<1>5. NothingYet'
  BY <1>0, <1>t, <1>v DEF NothingYet, Members, Waits
<1>6. Waits'
  BY <1>0, <1>t, <1>v DEF Waits, Members
<1>7. WaitsForAll'
  BY <1>0, <1>t, <1>v DEF WaitsForAll, Members, NotAhead, Waits, OwnerCurrent
<1>8. WaitsOnly'
  BY <1>0, <1>t, <1>v DEF WaitsOnly, Members, NotAhead, Waits, OwnerCurrent
<1>9. OwnerNotAsked'
  BY <1>0, <1>t, <1>v DEF OwnerNotAsked, Members, Waits
<1>10. OneMode'
  BY <1>0, <1>t, <1>v DEF OneMode, Members, Waits
<1>11. DirMode'
  BY <1>0, <1>t, <1>v DEF DirMode, Members, Waits
<1>12. Sources'
  BY <1>0, <1>t, <1>v DEF Sources, Members, NotAhead, Waits, OwnerCurrent
<1>13. CopyingShared'
  BY <1>0, <1>t, <1>v DEF CopyingShared, Members, Waits
<1>14. CopyingLed'
  BY <1>0, <1>t, <1>v DEF CopyingLed, Members, NotAhead, Waits, OwnerCurrent
<1>15. CurrentLed'
  BY <1>0, <1>t, <1>v DEF CurrentLed, Members, Waits
<1>16. NextLed'
  BY <1>0, <1>t, <1>v DEF NextLed, Members, Waits
<1>17. OneLeader'
  BY <1>0, <1>t, <1>v DEF OneLeader, Members, Waits
<1>18. OwnerCurrent'
  BY <1>0, <1>t, <1>v DEF OwnerCurrent, Members, Waits
<1>19. PageIsCurrent'
  BY <1>0, <1>t, <1>v DEF PageIsCurrent, Members, NotAhead, Waits,
       OwnerCurrent
<1>20. MovingWaits'
  BY <1>0, <1>t, <1>v DEF MovingWaits, Members, Waits
<1>21. CopyingHasSource'
  BY <1>0, <1>t, <1>v DEF CopyingHasSource, Members, Waits
<1> QED
  BY <1>1, <1>2, <1>3, <1>4, <1>5, <1>6, <1>7, <1>8, <1>9, <1>10,
     <1>11, <1>12, <1>13, <1>14, <1>15, <1>16, <1>17, <1>18, <1>19, <1>20,
     <1>21 DEF EpochInv

LEMMA CopiedStep ==
    ASSUME Owner \in Node, EpochInv, NEW n \in Node, NEW src \in Node, Copied(n, src)
    PROVE  EpochInv'
<1> USE DEF In, Copying, HasPage, Ready, Leads, Epoch,
            CopyOf, NoCopy, NoPage
<1>0. /\ TypeOK /\ Members /\ NotAhead /\ Exists /\ NothingYet
      /\ Waits /\ WaitsForAll /\ WaitsOnly /\ OwnerNotAsked /\ OneMode
      /\ DirMode /\ Sources /\ CopyingShared /\ CopyingLed /\ CurrentLed
      /\ NextLed /\ OneLeader /\ OwnerCurrent /\ PageIsCurrent /\ MovingWaits
      /\ CopyingHasSource
  BY DEF EpochInv
<1>t. /\ dir.epoch \in Nat /\ dir.nodes \subseteq Node
      /\ \A k \in Node : copy[k].epoch \in Nat /\ copy[k].wait \subseteq Node
  BY <1>0, EpochTypes
<1>v. /\ dir' = dir /\ copy'[n].status = "page" /\ copy'[n].epoch = copy[n].epoch
      /\ copy'[n].mode = "SHARED" /\ copy'[n].wait = {}
      /\ \A k \in Node : k # n => copy'[k] = copy[k]
      /\ Copying(n) /\ src \in copy[n].wait /\ Ready(src)
  BY <1>0 DEF Copied, TypeOK, Dir, Copy
<1>1. TypeOK'
  BY <1>0 DEF Copied, TypeOK, Waits, Sources, Dir, Copy, STATUS, MODE
<1>2. Members'
  BY <1>0, <1>t, <1>v DEF Members, Waits, Sources
<1>3. NotAhead'
  BY <1>0, <1>t, <1>v DEF NotAhead, Waits, Sources
<1>4. Exists'
  BY <1>0, <1>t, <1>v DEF Exists, Waits, Sources
<1>5. NothingYet'
  BY <1>0, <1>t, <1>v DEF NothingYet, Waits, Sources
<1>6. Waits'
  BY <1>0, <1>t, <1>v DEF Waits, Sources
<1>7. WaitsForAll'
  BY <1>0, <1>t, <1>v DEF WaitsForAll, Waits, Sources
<1>8. WaitsOnly'
  BY <1>0, <1>t, <1>v DEF WaitsOnly, Waits, Sources
<1>9. OwnerNotAsked'
  BY <1>0, <1>t, <1>v DEF OwnerNotAsked, Waits, Sources
<1>10. OneMode'
  BY <1>0, <1>t, <1>v DEF OneMode, CopyingShared
<1>11. DirMode'
  BY <1>0, <1>t, <1>v DEF DirMode, CopyingShared
<1>12. Sources'
  BY <1>0, <1>t, <1>v DEF Sources, Waits
<1>13. CopyingShared'
  BY <1>0, <1>t, <1>v DEF CopyingShared, Waits, Sources
<1>14. CopyingLed'
  BY <1>0, <1>t, <1>v DEF CopyingLed, Waits, Sources
<1>15. CurrentLed'
  BY <1>0, <1>t, <1>v DEF CurrentLed, Waits, Sources
<1>16. NextLed'
  BY <1>0, <1>t, <1>v DEF NextLed, Waits, Sources
<1>17. OneLeader'
  BY <1>0, <1>t, <1>v DEF OneLeader, Waits, Sources
<1>18. OwnerCurrent'
  BY <1>0, <1>t, <1>v DEF OwnerCurrent, Waits, Sources
<1>19. PageIsCurrent'
  BY <1>0, <1>t, <1>v DEF PageIsCurrent, Waits, Sources
<1>20. MovingWaits'
  BY <1>0, <1>t, <1>v DEF MovingWaits, Waits, Sources
<1>21. CopyingHasSource'
  BY <1>0, <1>t, <1>v DEF CopyingHasSource, Waits, Sources
<1> QED
  BY <1>1, <1>2, <1>3, <1>4, <1>5, <1>6, <1>7, <1>8, <1>9, <1>10,
     <1>11, <1>12, <1>13, <1>14, <1>15, <1>16, <1>17, <1>18, <1>19, <1>20,
     <1>21 DEF EpochInv

LEMMA GiveUpStep ==
    ASSUME Owner \in Node, EpochInv, NEW m \in Node, NEW n \in Node, GiveUp(m, n)
    PROVE  EpochInv'
<1> USE DEF In, Copying, HasPage, Ready, Leads, Epoch,
            CopyOf, NoCopy, NoPage
<1>0. /\ TypeOK /\ Members /\ NotAhead /\ Exists /\ NothingYet
      /\ Waits /\ WaitsForAll /\ WaitsOnly /\ OwnerNotAsked /\ OneMode
      /\ DirMode /\ Sources /\ CopyingShared /\ CopyingLed /\ CurrentLed
      /\ NextLed /\ OneLeader /\ OwnerCurrent /\ PageIsCurrent /\ MovingWaits
      /\ CopyingHasSource
  BY DEF EpochInv
<1>t. /\ dir.epoch \in Nat /\ dir.nodes \subseteq Node
      /\ \A k \in Node : copy[k].epoch \in Nat /\ copy[k].wait \subseteq Node
  BY <1>0, EpochTypes
<1>v. /\ dir' = dir /\ copy'[n] = NoCopy /\ m # n
      /\ copy'[m].status = "page" /\ copy'[m].epoch = copy[m].epoch
      /\ copy'[m].mode = copy[m].mode /\ copy'[m].wait = copy[m].wait \ {n}
      /\ \A k \in Node : k # n /\ k # m => copy'[k] = copy[k]
      /\ copy[m].status \in {"moving", "page"} /\ n \in copy[m].wait
      /\ Ready(n) \/ (Copying(n) /\ HasPage(m))
  BY <1>0 DEF GiveUp, TypeOK, Dir, Copy
<1>1. TypeOK'
  BY <1>0 DEF GiveUp, TypeOK, WaitsOnly, WaitsForAll, OneLeader, Waits, Dir,
       Copy, STATUS, MODE
<1>2. Members'
  BY <1>0, <1>t, <1>v DEF Members, WaitsOnly, NotAhead
<1>3. NotAhead'
  BY <1>0, <1>t, <1>v DEF NotAhead, WaitsOnly, WaitsForAll, OneLeader, Waits
<1>4. Exists'
  BY <1>0, <1>t, <1>v DEF Exists, WaitsOnly, WaitsForAll, OneLeader, Waits
<1>5. NothingYet'
  BY <1>0, <1>t, <1>v DEF NothingYet, WaitsOnly, WaitsForAll, OneLeader, Waits
<1>6. Waits'
  BY <1>0, <1>t, <1>v DEF Waits, WaitsOnly, WaitsForAll, CopyingLed
<1>7. WaitsForAll'
  BY <1>0, <1>t, <1>v DEF WaitsForAll, WaitsOnly, OneLeader, Waits
<1>8. WaitsOnly'
  BY <1>0, <1>t, <1>v DEF WaitsOnly, WaitsForAll, OneLeader, Waits
<1>9. OwnerNotAsked'
  BY <1>0, <1>t, <1>v DEF OwnerNotAsked, WaitsOnly, WaitsForAll, OneLeader,
       Waits
<1>10. OneMode'
  BY <1>0, <1>t, <1>v DEF OneMode, WaitsOnly, WaitsForAll, OneLeader, Waits
<1>11. DirMode'
  BY <1>0, <1>t, <1>v DEF DirMode, WaitsOnly, WaitsForAll, OneLeader, Waits
<1>12. Sources'
  BY <1>0, <1>t, <1>v DEF Sources, WaitsOnly, WaitsForAll, OneLeader, Waits
<1>13. CopyingShared'
  BY <1>0, <1>t, <1>v DEF CopyingShared, WaitsOnly, WaitsForAll, OneLeader,
       Waits
<1>14. CopyingLed'
  BY <1>0, <1>t, <1>v DEF CopyingLed, WaitsOnly, WaitsForAll, OneLeader, Waits
<1>15. CurrentLed'
  BY <1>0, <1>t, <1>v DEF CurrentLed, WaitsOnly, WaitsForAll, OneLeader, Waits
<1>16. NextLed'
  BY <1>0, <1>t, <1>v DEF NextLed, WaitsOnly, WaitsForAll, OneLeader, Waits
<1>17. OneLeader'
  BY <1>0, <1>t, <1>v DEF OneLeader, WaitsOnly, WaitsForAll, Waits
<1>18. OwnerCurrent'
  BY <1>0, <1>t, <1>v DEF OwnerCurrent, WaitsOnly, WaitsForAll, OneLeader,
       Waits
<1>19. PageIsCurrent'
  <2> SUFFICES ASSUME NEW i \in Node, NEW j \in Node, HasPage(i)', In(j)'
               PROVE  /\ Epoch(j)' + 1 >= Epoch(i)'
                      /\ Epoch(j)' + 1 = Epoch(i)' => copy'[j].mode = "SHARED"
    BY DEF PageIsCurrent
  <2>1. i # n /\ j # n /\ In(i) /\ In(j) /\ Epoch(i)' = Epoch(i) /\ Epoch(j)' = Epoch(j)
        /\ copy'[j].mode = copy[j].mode
    BY <1>v
  <2>2. CASE HasPage(i)
    BY <1>0, <2>1, <2>2 DEF PageIsCurrent
  <2>3. CASE ~HasPage(i)
    <3>1. i = m /\ Ready(n)
      BY <1>v, <2>1, <2>3
    <3>2. Leads(m) /\ In(n) /\ Epoch(n) + 1 = Epoch(m)
      BY <1>0, <1>v DEF WaitsOnly
    <3>3. Epoch(j) >= Epoch(n)
      BY <1>0, <1>t, <2>1, <3>1, <3>2 DEF Waits
    <3>4. copy[j].mode \in MODE
      BY <1>0 DEF TypeOK, Copy
    <3>5. Epoch(j) = Epoch(n) => copy[j].mode = "SHARED"
      BY <1>0, <2>1, <3>2, <3>4 DEF OneMode, MODE
    <3> QED
      BY <1>t, <2>1, <3>1, <3>2, <3>3, <3>5
  <2> QED
    BY <2>2, <2>3
<1>20. MovingWaits'
  BY <1>0, <1>t, <1>v DEF MovingWaits, WaitsOnly, WaitsForAll, OneLeader,
       Waits
<1>21. CopyingHasSource'
  BY <1>0, <1>t, <1>v DEF CopyingHasSource, WaitsOnly, NotAhead, Members
<1> QED
  BY <1>1, <1>2, <1>3, <1>4, <1>5, <1>6, <1>7, <1>8, <1>9, <1>10,
     <1>11, <1>12, <1>13, <1>14, <1>15, <1>16, <1>17, <1>18, <1>19, <1>20,
     <1>21 DEF EpochInv

LEMMA OwnerLeavesStep ==
    ASSUME Owner \in Node, EpochInv, OwnerLeaves
    PROVE  EpochInv'
<1> USE DEF In, Copying, HasPage, Ready, Leads, Epoch,
            CopyOf, NoCopy, NoPage
<1>0. /\ TypeOK /\ Members /\ NotAhead /\ Exists /\ NothingYet
      /\ Waits /\ WaitsForAll /\ WaitsOnly /\ OwnerNotAsked /\ OneMode
      /\ DirMode /\ Sources /\ CopyingShared /\ CopyingLed /\ CurrentLed
      /\ NextLed /\ OneLeader /\ OwnerCurrent /\ PageIsCurrent /\ MovingWaits
      /\ CopyingHasSource
  BY DEF EpochInv
<1>t. /\ dir.epoch \in Nat /\ dir.nodes \subseteq Node
      /\ \A k \in Node : copy[k].epoch \in Nat /\ copy[k].wait \subseteq Node
  BY <1>0, EpochTypes
<1>v. /\ dir'.epoch = dir.epoch /\ dir'.mode = dir.mode
      /\ dir'.nodes = dir.nodes \ {Owner}
      /\ copy'[Owner] = NoCopy
      /\ \A k \in Node : k # Owner => copy'[k] = copy[k]
      /\ dir.mode = "SHARED" /\ dir.nodes # {Owner} /\ (Ready(Owner) \/ Copying(Owner))
  BY <1>0 DEF OwnerLeaves, TypeOK, Dir, Copy
<1>1. TypeOK'
  BY <1>0 DEF OwnerLeaves, TypeOK, Members, Waits, OwnerCurrent, Dir, Copy,
       STATUS, MODE
<1>2. Members'
  BY <1>0, <1>t, <1>v DEF Members, Waits, OwnerCurrent
<1>3. NotAhead'
  BY <1>0, <1>t, <1>v DEF NotAhead, Members, Waits, OwnerCurrent
<1>4. Exists'
  <2>1. CASE Copying(Owner)
    BY <1>0, <1>v, <2>1 DEF Exists
  <2>2. CASE Ready(Owner)
    <3>1. PICK q \in dir.nodes : q # Owner
      BY <1>0, <1>v, <2>2 DEF Members, OwnerCurrent
    <3>2. PICK p \in Node : p # Owner /\ Leads(p) /\ Epoch(p) = dir.epoch
      BY <1>0, <3>1 DEF Members, CopyingHasSource
    <3>3. copy[p].status # "moving"
      <4>1. SUFFICES ASSUME copy[p].status = "moving" PROVE FALSE
        OBVIOUS
      <4>2. PICK k \in Node : In(k) /\ Epoch(k) + 1 = dir.epoch
        BY <1>0, <1>t, <3>2, <4>1 DEF MovingWaits, WaitsOnly
      <4> QED
        BY <1>0, <1>t, <2>2, <4>2 DEF Waits, OwnerCurrent
    <3>4. HasPage(p)
      BY <1>0, <3>2, <3>3 DEF TypeOK, Copy, STATUS
    <3> QED
      BY <1>v, <3>2, <3>4 DEF Exists
  <2> QED
    BY <1>v, <2>1, <2>2
<1>5. NothingYet'
  BY <1>0, <1>t, <1>v DEF NothingYet, Members, Waits, OwnerCurrent
<1>6. Waits'
  BY <1>0, <1>t, <1>v DEF Waits, Members, OwnerCurrent
<1>7. WaitsForAll'
  BY <1>0, <1>t, <1>v DEF WaitsForAll, Members, Waits, OwnerCurrent
<1>8. WaitsOnly'
  BY <1>0, <1>t, <1>v DEF WaitsOnly, OwnerNotAsked
<1>9. OwnerNotAsked'
  BY <1>0, <1>t, <1>v DEF OwnerNotAsked, Members, Waits, OwnerCurrent
<1>10. OneMode'
  BY <1>0, <1>t, <1>v DEF OneMode, Members, Waits, OwnerCurrent
<1>11. DirMode'
  BY <1>0, <1>t, <1>v DEF DirMode, Members, Waits, OwnerCurrent
<1>12. Sources'
  BY <1>0, <1>t, <1>v DEF Sources, Members, Waits, OwnerCurrent
<1>13. CopyingShared'
  BY <1>0, <1>t, <1>v DEF CopyingShared, Members, Waits, OwnerCurrent
<1>14. CopyingLed'
  BY <1>0, <1>t, <1>v DEF CopyingLed, Members, Waits, OwnerCurrent
<1>15. CurrentLed'
  BY <1>0, <1>t, <1>v DEF CurrentLed, Members, Waits, OwnerCurrent
<1>16. NextLed'
  BY <1>0, <1>t, <1>v DEF NextLed, Members, Waits, OwnerCurrent
<1>17. OneLeader'
  BY <1>0, <1>t, <1>v DEF OneLeader, Members, Waits, OwnerCurrent
<1>18. OwnerCurrent'
  BY <1>0, <1>t, <1>v DEF OwnerCurrent, Members, Waits
<1>19. PageIsCurrent'
  BY <1>0, <1>t, <1>v DEF PageIsCurrent, Members, Waits, OwnerCurrent
<1>20. MovingWaits'
  BY <1>0, <1>t, <1>v DEF MovingWaits, Members, Waits, OwnerCurrent
<1>21. CopyingHasSource'
  BY <1>0, <1>t, <1>v DEF CopyingHasSource, Members, Waits, OwnerCurrent
<1> QED
  BY <1>1, <1>2, <1>3, <1>4, <1>5, <1>6, <1>7, <1>8, <1>9, <1>10,
     <1>11, <1>12, <1>13, <1>14, <1>15, <1>16, <1>17, <1>18, <1>19, <1>20,
     <1>21 DEF EpochInv

-----------------------------------------------------------------------------
LEMMA EpochInvInit == ASSUME Owner \in Node, Init PROVE EpochInv
<1> USE DEF Init, In, Copying, HasPage, Ready, Leads, Epoch, NoPage, NoCopy, CopyOf
<1>1. TypeOK
  BY DEF TypeOK, Dir, Copy, STATUS, MODE
<1>2. dir.mode = "NOBODY" /\ dir.nodes = {} /\ \A n \in Node : ~In(n) /\ copy[n].wait = {}
  OBVIOUS
<1>3. Members /\ Exists /\ NothingYet
  BY <1>2 DEF Members, Exists, NothingYet
<1>4. /\ NotAhead /\ Waits /\ WaitsForAll /\ WaitsOnly /\ OwnerNotAsked
      /\ OneMode /\ DirMode /\ Sources
  BY <1>2 DEF NotAhead, Waits, WaitsForAll, WaitsOnly, OwnerNotAsked, OneMode,
     DirMode, Sources
<1>5. /\ CopyingShared /\ CopyingLed /\ CurrentLed /\ NextLed /\ OneLeader
      /\ OwnerCurrent /\ PageIsCurrent /\ MovingWaits /\ CopyingHasSource
  BY <1>2 DEF CopyingShared, CopyingLed, CurrentLed, NextLed, OneLeader,
     OwnerCurrent, PageIsCurrent, MovingWaits, CopyingHasSource
<1> QED
  BY <1>1, <1>3, <1>4, <1>5 DEF EpochInv

(* Whatever the nodes do, the copies stay in their epochs: the invariant    *)
(* that carries the argument is inductive.                                 *)
LEMMA EpochInvNext ==
    ASSUME Owner \in Node, EpochInv, [Next]_vars
    PROVE  EpochInv'
<1>1. ASSUME NEW n \in Node, Create(n) PROVE EpochInv'
  BY <1>1, CreateStep
<1>2. ASSUME NEW n \in Node, ShareOwner(n) PROVE EpochInv'
  BY <1>2, ShareOwnerStep
<1>3. ASSUME NEW n \in Node, Join(n) PROVE EpochInv'
  BY <1>3, JoinStep
<1>4. ASSUME NEW n \in Node, JoinCopying(n) PROVE EpochInv'
  BY <1>4, JoinCopyingStep
<1>5. ASSUME NEW n \in Node, StopCopying(n) PROVE EpochInv'
  BY <1>5, StopCopyingStep
<1>6. ASSUME NEW n \in Node, Leave(n) PROVE EpochInv'
  BY <1>6, LeaveStep
<1>7. ASSUME NEW n \in Node, TakeBack(n) PROVE EpochInv'
  BY <1>7, TakeBackStep
<1>8. ASSUME NEW n \in Node, NEW mode \in MODE, NewEpoch(n, mode) PROVE EpochInv'
  BY <1>8, NewEpochStep
<1>9. ASSUME NEW n \in Node, NEW src \in Node, Copied(n, src) PROVE EpochInv'
  BY <1>9, CopiedStep
<1>10. ASSUME NEW m \in Node, NEW n \in Node, GiveUp(m, n) PROVE EpochInv'
  BY <1>10, GiveUpStep
<1>11. CASE OwnerLeaves
  BY <1>11, OwnerLeavesStep
<1>12. CASE UNCHANGED vars
  BY <1>12 DEF vars, EpochInv, TypeOK, Members, NotAhead, Exists, NothingYet,
     Waits, WaitsForAll, WaitsOnly, OwnerNotAsked, OneMode, DirMode, Sources,
     CopyingShared, CopyingLed, CurrentLed, NextLed, OneLeader, OwnerCurrent,
     PageIsCurrent, MovingWaits, CopyingHasSource, In, Copying, HasPage, Ready,
     Leads, Epoch
<1> QED
  BY <1>1, <1>2, <1>3, <1>4, <1>5, <1>6, <1>7, <1>8, <1>9, <1>10, <1>11, <1>12
     DEF Next

LEMMA EpochInvWriterAlone == ASSUME EpochInv PROVE WriterAlone
<1> USE DEF In, Copying, HasPage, Ready, Leads, Epoch
<1> SUFFICES ASSUME NEW n \in Node, NEW m \in Node, Ready(n),
                    copy[n].mode = "EXCLUSIVE", HasPage(m)
             PROVE  m = n
  BY DEF WriterAlone
<1>1. TypeOK /\ Waits /\ PageIsCurrent /\ OneMode
  BY DEF EpochInv
<1>2. Epoch(n) \in Nat /\ Epoch(m) \in Nat
  BY <1>1 DEF TypeOK, Copy
<1>3. Epoch(m) = Epoch(n)
  BY <1>1, <1>2 DEF Waits, PageIsCurrent
<1> QED
  BY <1>1, <1>3 DEF OneMode

(* For every cluster: the copies of the page stay in their epochs, a writer *)
(* is alone and some node has the page.                                    *)
THEOREM EpochsAreSafe ==
    ASSUME Owner \in Node
    PROVE  Spec => [](EpochInv /\ WriterAlone)
<1>1. Init => EpochInv
  BY EpochInvInit
<1>2. EpochInv /\ [Next]_vars => EpochInv'
  BY EpochInvNext
<1>3. EpochInv => WriterAlone
  BY EpochInvWriterAlone
<1> QED
  BY <1>1, <1>2, <1>3, PTL DEF Spec
=============================================================================
