-------------------------- MODULE HybridLatchProofs --------------------------
(***************************************************************************)
(* The properties of HybridLatch for any number of threads, any version    *)
(* and any number of stores.  LatchInv is inductive: one lemma per part of *)
(* it, with one step per action, and the theorems follow from it.  The     *)
(* guards over it are sound by the invariants of Guards.                   *)
(***************************************************************************)
EXTENDS MCHybridLatch, FiniteSetTheorems, TLAPS

USE DEF ExclusivePC, SharedPC, FreePC

(* Raising the version by 0b10 toggles the bit that shows the latch. *)
LEMMA RaiseToggles ==
    \A v \in Nat : IsLatched(v + 2) <=> ~IsLatched(v)
BY DEF IsLatched

(* Nobody sees a latch in the initial version 0b100. *)
LEMMA InitialVersionFree == ~IsLatched(4)
BY DEF IsLatched

(* The invariant holds initially. *)
LEMMA InitInv == Init => LatchInv
<1> SUFFICES ASSUME Init PROVE LatchInv
  OBVIOUS
<1>1. TypeOK
  BY DEF Init, TypeOK
<1>2. HoldersAgree
  BY ThreadAssumption DEF Init, HoldersAgree
<1>3. VersionShowsLatch
  BY InitialVersionFree DEF Init, VersionShowsLatch, RaisedPC
<1>4. VersionsRemembered
  BY DEF Init, VersionsRemembered, RememberingPC
<1> QED
  BY <1>1, <1>2, <1>3, <1>4 DEF LatchInv

(* Every step keeps the types. *)
LEMMA TypeStep ==
    ASSUME LatchInv, NEW t \in Thread,
           ExclusiveStep(t) \/ SharedStep(t) \/ OptimisticStep(t)
    PROVE  TypeOK'
<1> USE LatchBoundAssumption DEF LatchInv, TypeOK
<1>1. CASE LatchExclusive(t)
  BY <1>1 DEF LatchExclusive, Goto, Lock
<1>2. CASE Latched(t)
  BY <1>2 DEF Latched, Goto, RaiseVersion
<1>3. CASE Write(t)
  BY <1>3 DEF Write
<1>4. CASE UnlatchExclusive(t)
  BY <1>4 DEF UnlatchExclusive, Goto, RaiseVersion
<1>5. CASE Unlatched(t)
  BY <1>5 DEF Unlatched, Goto, Unlock
<1>6. CASE TryDowngradeExclusiveToShared(t)
  BY <1>6 DEF TryDowngradeExclusiveToShared, Goto, RaiseVersion
<1>7. CASE DowngradeUnlock(t)
  BY <1>7 DEF DowngradeUnlock, Goto, Unlock
<1>8. CASE Relatch(t)
  BY <1>8 DEF Relatch, Goto, LockShared
<1>9. CASE DowngradeExclusiveToOptimistic(t)
  BY <1>9 DEF DowngradeExclusiveToOptimistic, Goto, RaiseVersion
<1>10. CASE Relaxed(t)
  BY <1>10 DEF Relaxed, Goto, Unlock
<1>11. CASE LatchShared(t)
  BY <1>11 DEF LatchShared, Goto, LockShared
<1>12. CASE UnlatchShared(t)
  BY <1>12 DEF UnlatchShared, Goto, UnlockShared
<1>13. CASE DowngradeSharedToOptimistic(t)
  BY <1>13 DEF DowngradeSharedToOptimistic, Goto, UnlockShared
<1>14. CASE CheckShared(t)
  BY <1>14 DEF CheckShared, UnlockShared
<1>15. CASE OptimisticLatchOrRestart(t)
  BY <1>15 DEF OptimisticLatchOrRestart, Goto
<1>16. CASE Read(t)
  BY <1>16 DEF Read
<1>17. CASE OptimisticReadUnlatch(t)
  BY <1>17 DEF OptimisticReadUnlatch, Goto
<1>18. CASE OptimisticUpgrade(t)
  BY <1>18 DEF OptimisticUpgrade
<1>19. CASE TryShared(t)
  BY <1>19 DEF TryShared, Goto, LockShared
<1>20. CASE TryExclusive(t)
  BY <1>20 DEF TryExclusive, Goto, Lock
<1>21. CASE UpgradeRaise(t)
  BY <1>21 DEF UpgradeRaise, Goto, RaiseVersion
<1>22. CASE CheckExclusive(t)
  BY <1>22 DEF CheckExclusive, RaiseVersion
<1> QED
  BY <1>1, <1>2, <1>3, <1>4, <1>5, <1>6, <1>7, <1>8, <1>9, <1>10, <1>11,
     <1>12, <1>13, <1>14, <1>15, <1>16, <1>17, <1>18, <1>19, <1>20, <1>21,
     <1>22
  DEF ExclusiveStep, SharedStep, OptimisticStep

(* Every step keeps pc and the mutex in agreement. *)
LEMMA HoldersStep ==
    ASSUME LatchInv, NEW t \in Thread,
           ExclusiveStep(t) \/ SharedStep(t) \/ OptimisticStep(t)
    PROVE  HoldersAgree'
<1> USE ThreadAssumption DEF LatchInv, TypeOK, HoldersAgree
<1>1. CASE LatchExclusive(t)
  BY <1>1 DEF LatchExclusive, Goto, Lock
<1>2. CASE Latched(t)
  BY <1>2 DEF Latched, Goto, RaiseVersion
<1>3. CASE Write(t)
  BY <1>3 DEF Write
<1>4. CASE UnlatchExclusive(t)
  BY <1>4 DEF UnlatchExclusive, Goto, RaiseVersion
<1>5. CASE Unlatched(t)
  BY <1>5 DEF Unlatched, Goto, Unlock
<1>6. CASE TryDowngradeExclusiveToShared(t)
  BY <1>6 DEF TryDowngradeExclusiveToShared, Goto, RaiseVersion
<1>7. CASE DowngradeUnlock(t)
  BY <1>7 DEF DowngradeUnlock, Goto, Unlock
<1>8. CASE Relatch(t)
  BY <1>8 DEF Relatch, Goto, LockShared
<1>9. CASE DowngradeExclusiveToOptimistic(t)
  BY <1>9 DEF DowngradeExclusiveToOptimistic, Goto, RaiseVersion
<1>10. CASE Relaxed(t)
  BY <1>10 DEF Relaxed, Goto, Unlock
<1>11. CASE LatchShared(t)
  BY <1>11 DEF LatchShared, Goto, LockShared
<1>12. CASE UnlatchShared(t)
  BY <1>12 DEF UnlatchShared, Goto, UnlockShared
<1>13. CASE DowngradeSharedToOptimistic(t)
  BY <1>13 DEF DowngradeSharedToOptimistic, Goto, UnlockShared
<1>14. CASE CheckShared(t)
  BY <1>14 DEF CheckShared, UnlockShared
<1>15. CASE OptimisticLatchOrRestart(t)
  BY <1>15 DEF OptimisticLatchOrRestart, Goto
<1>16. CASE Read(t)
  BY <1>16 DEF Read
<1>17. CASE OptimisticReadUnlatch(t)
  BY <1>17 DEF OptimisticReadUnlatch, Goto
<1>18. CASE OptimisticUpgrade(t)
  BY <1>18 DEF OptimisticUpgrade
<1>19. CASE TryShared(t)
  BY <1>19 DEF TryShared, Goto, LockShared
<1>20. CASE TryExclusive(t)
  BY <1>20 DEF TryExclusive, Goto, Lock
<1>21. CASE UpgradeRaise(t)
  BY <1>21 DEF UpgradeRaise, Goto, RaiseVersion
<1>22. CASE CheckExclusive(t)
  BY <1>22 DEF CheckExclusive, RaiseVersion
<1> QED
  BY <1>1, <1>2, <1>3, <1>4, <1>5, <1>6, <1>7, <1>8, <1>9, <1>10, <1>11,
     <1>12, <1>13, <1>14, <1>15, <1>16, <1>17, <1>18, <1>19, <1>20, <1>21,
     <1>22
  DEF ExclusiveStep, SharedStep, OptimisticStep

(* Every step keeps the version's bit in agreement with the latch. *)
LEMMA VersionStep ==
    ASSUME LatchInv, NEW t \in Thread,
           ExclusiveStep(t) \/ SharedStep(t) \/ OptimisticStep(t)
    PROVE  VersionShowsLatch'
<1> USE ThreadAssumption, RaiseToggles DEF LatchInv, TypeOK, HoldersAgree, VersionShowsLatch, RaisedPC
<1>1. CASE LatchExclusive(t)
  BY <1>1 DEF LatchExclusive, Goto, Lock
<1>2. CASE Latched(t)
  BY <1>2 DEF Latched, Goto, RaiseVersion
<1>3. CASE Write(t)
  BY <1>3 DEF Write
<1>4. CASE UnlatchExclusive(t)
  BY <1>4 DEF UnlatchExclusive, Goto, RaiseVersion
<1>5. CASE Unlatched(t)
  BY <1>5 DEF Unlatched, Goto, Unlock
<1>6. CASE TryDowngradeExclusiveToShared(t)
  BY <1>6 DEF TryDowngradeExclusiveToShared, Goto, RaiseVersion
<1>7. CASE DowngradeUnlock(t)
  BY <1>7 DEF DowngradeUnlock, Goto, Unlock
<1>8. CASE Relatch(t)
  BY <1>8 DEF Relatch, Goto, LockShared
<1>9. CASE DowngradeExclusiveToOptimistic(t)
  BY <1>9 DEF DowngradeExclusiveToOptimistic, Goto, RaiseVersion
<1>10. CASE Relaxed(t)
  BY <1>10 DEF Relaxed, Goto, Unlock
<1>11. CASE LatchShared(t)
  BY <1>11 DEF LatchShared, Goto, LockShared
<1>12. CASE UnlatchShared(t)
  BY <1>12 DEF UnlatchShared, Goto, UnlockShared
<1>13. CASE DowngradeSharedToOptimistic(t)
  BY <1>13 DEF DowngradeSharedToOptimistic, Goto, UnlockShared
<1>14. CASE CheckShared(t)
  BY <1>14 DEF CheckShared, UnlockShared
<1>15. CASE OptimisticLatchOrRestart(t)
  BY <1>15 DEF OptimisticLatchOrRestart, Goto
<1>16. CASE Read(t)
  BY <1>16 DEF Read
<1>17. CASE OptimisticReadUnlatch(t)
  BY <1>17 DEF OptimisticReadUnlatch, Goto
<1>18. CASE OptimisticUpgrade(t)
  BY <1>18 DEF OptimisticUpgrade
<1>19. CASE TryShared(t)
  BY <1>19 DEF TryShared, Goto, LockShared
<1>20. CASE TryExclusive(t)
  BY <1>20 DEF TryExclusive, Goto, Lock
<1>21. CASE UpgradeRaise(t)
  BY <1>21 DEF UpgradeRaise, Goto, RaiseVersion
<1>22. CASE CheckExclusive(t)
  BY <1>22 DEF CheckExclusive, RaiseVersion
<1> QED
  BY <1>1, <1>2, <1>3, <1>4, <1>5, <1>6, <1>7, <1>8, <1>9, <1>10, <1>11,
     <1>12, <1>13, <1>14, <1>15, <1>16, <1>17, <1>18, <1>19, <1>20, <1>21,
     <1>22
  DEF ExclusiveStep, SharedStep, OptimisticStep

(* No step changes the page unnoticed by a thread that remembers a version. *)
LEMMA RememberStep ==
    ASSUME LatchInv, NEW t \in Thread,
           ExclusiveStep(t) \/ SharedStep(t) \/ OptimisticStep(t)
    PROVE  VersionsRemembered'
<1> USE ThreadAssumption, RaiseToggles DEF LatchInv, TypeOK, HoldersAgree, VersionShowsLatch, RaisedPC,
        VersionsRemembered, RememberingPC
<1>1. CASE LatchExclusive(t)
  BY <1>1 DEF LatchExclusive, Goto, Lock
<1>2. CASE Latched(t)
  BY <1>2 DEF Latched, Goto, RaiseVersion
<1>3. CASE Write(t)
  BY <1>3 DEF Write
<1>4. CASE UnlatchExclusive(t)
  BY <1>4 DEF UnlatchExclusive, Goto, RaiseVersion
<1>5. CASE Unlatched(t)
  BY <1>5 DEF Unlatched, Goto, Unlock
<1>6. CASE TryDowngradeExclusiveToShared(t)
  BY <1>6 DEF TryDowngradeExclusiveToShared, Goto, RaiseVersion
<1>7. CASE DowngradeUnlock(t)
  BY <1>7 DEF DowngradeUnlock, Goto, Unlock
<1>8. CASE Relatch(t)
  BY <1>8 DEF Relatch, Goto, LockShared
<1>9. CASE DowngradeExclusiveToOptimistic(t)
  BY <1>9 DEF DowngradeExclusiveToOptimistic, Goto, RaiseVersion
<1>10. CASE Relaxed(t)
  BY <1>10 DEF Relaxed, Goto, Unlock
<1>11. CASE LatchShared(t)
  BY <1>11 DEF LatchShared, Goto, LockShared
<1>12. CASE UnlatchShared(t)
  BY <1>12 DEF UnlatchShared, Goto, UnlockShared
<1>13. CASE DowngradeSharedToOptimistic(t)
  BY <1>13 DEF DowngradeSharedToOptimistic, Goto, UnlockShared
<1>14. CASE CheckShared(t)
  BY <1>14 DEF CheckShared, UnlockShared
<1>15. CASE OptimisticLatchOrRestart(t)
  BY <1>15 DEF OptimisticLatchOrRestart, Goto
<1>16. CASE Read(t)
  BY <1>16 DEF Read
<1>17. CASE OptimisticReadUnlatch(t)
  BY <1>17 DEF OptimisticReadUnlatch, Goto
<1>18. CASE OptimisticUpgrade(t)
  BY <1>18 DEF OptimisticUpgrade
<1>19. CASE TryShared(t)
  BY <1>19 DEF TryShared, Goto, LockShared
<1>20. CASE TryExclusive(t)
  BY <1>20 DEF TryExclusive, Goto, Lock
<1>21. CASE UpgradeRaise(t)
  BY <1>21 DEF UpgradeRaise, Goto, RaiseVersion
<1>22. CASE CheckExclusive(t)
  BY <1>22 DEF CheckExclusive, RaiseVersion
<1> QED
  BY <1>1, <1>2, <1>3, <1>4, <1>5, <1>6, <1>7, <1>8, <1>9, <1>10, <1>11,
     <1>12, <1>13, <1>14, <1>15, <1>16, <1>17, <1>18, <1>19, <1>20, <1>21,
     <1>22
  DEF ExclusiveStep, SharedStep, OptimisticStep

(* Every step, and every stuttering step, keeps the whole invariant. *)
LEMMA NextInv == LatchInv /\ [Next]_vars => LatchInv'
<1> SUFFICES ASSUME LatchInv, [Next]_vars PROVE LatchInv'
  OBVIOUS
<1>1. CASE Next
  <2>1. PICK t \in Thread :
           ExclusiveStep(t) \/ SharedStep(t) \/ OptimisticStep(t)
    BY <1>1 DEF Next
  <2> QED
    BY <2>1, TypeStep, HoldersStep, VersionStep, RememberStep DEF LatchInv
<1>2. CASE UNCHANGED vars
  BY <1>2 DEF vars, LatchInv, TypeOK, HoldersAgree, VersionShowsLatch,
              VersionsRemembered, IsLatched
<1> QED
  BY <1>1, <1>2

(* At every step of every thread the mutex, the version counter and what   *)
(* the threads remember of it agree.                                       *)
THEOREM LatchConsistent == Spec => []LatchInv
BY InitInv, NextInv, PTL DEF Spec

(* The latch's state is well-typed. *)
THEOREM TypeCorrect == Spec => []TypeOK
<1>1. LatchInv => TypeOK
  BY DEF LatchInv
<1> QED
  BY <1>1, LatchConsistent, PTL

(* Bit 0b10 of the version is set exactly while the frame is latched        *)
(* exclusively: what isLatched() tells an optimistic reader is true.       *)
THEOREM VersionIsTruthful == Spec => []VersionShowsLatch
<1>1. LatchInv => VersionShowsLatch
  BY DEF LatchInv
<1> QED
  BY <1>1, LatchConsistent, PTL

(* A thread with the exclusive latch, however it came by it, is alone. *)
THEOREM MutualExclusion == Spec => []WriterIsAlone
<1>1. LatchInv => WriterIsAlone
  BY ThreadAssumption DEF LatchInv, HoldersAgree, WriterIsAlone
<1> QED
  BY <1>1, LatchConsistent, PTL

(* An optimistic reader that finds its version unchanged has read what the  *)
(* page holds now: optimisticReadUnlatchOrRestart never accepts a stale or *)
(* torn read.                                                              *)
THEOREM OptimisticReadsAreCurrent == Spec => []CurrentVersionMeansCurrentPage
<1>1. LatchInv => CurrentVersionMeansCurrentPage
  BY DEF LatchInv, VersionsRemembered, RememberingPC,
         CurrentVersionMeansCurrentPage
<1> QED
  BY <1>1, LatchConsistent, PTL

(* The second comparison of the upgrades, and the one of the downgrade to   *)
(* shared, lets a thread keep the latch only if no store was missed.       *)
THEOREM UpgradesAreSafe == Spec => UpgradeMissesNoWrite
<1> DEFINE Safe ==
      \A t \in Thread :
          /\ pc[t] \in {"relatched", "upgradeShared", "upgradeRaised"}
          /\ pc'[t] \in {"shared", "exclusive"}
          => snapshot[t] \subseteq {page}
<1>1. ASSUME LatchInv, [Next]_vars PROVE [Safe]_vars
  <2>1. CASE Next
    <3> SUFFICES ASSUME NEW t \in Thread,
                        pc[t] \in {"relatched", "upgradeShared", "upgradeRaised"},
                        pc'[t] \in {"shared", "exclusive"}
                 PROVE  snapshot[t] \subseteq {page}
      OBVIOUS
    <3>1. PICK u \in Thread :
             ExclusiveStep(u) \/ SharedStep(u) \/ OptimisticStep(u)
      BY <2>1 DEF Next
    <3>2. u = t /\ (CheckShared(t) \/ CheckExclusive(t))
      BY <1>1, <3>1
      DEF LatchInv, TypeOK, ExclusiveStep, SharedStep, OptimisticStep, Goto,
          LatchExclusive, Latched, Write, UnlatchExclusive, Unlatched,
          TryDowngradeExclusiveToShared, DowngradeUnlock, Relatch,
          DowngradeExclusiveToOptimistic, Relaxed, LatchShared, UnlatchShared,
          DowngradeSharedToOptimistic, CheckShared, OptimisticLatchOrRestart,
          Read, OptimisticReadUnlatch, OptimisticUpgrade, TryShared,
          TryExclusive, UpgradeRaise, CheckExclusive
    <3>3. CASE CheckShared(t)
      BY <1>1, <3>3 DEF CheckShared, LatchInv, TypeOK, VersionsRemembered,
                        RememberingPC
    <3>4. CASE CheckExclusive(t)
      BY <1>1, <3>4 DEF CheckExclusive, LatchInv, TypeOK, VersionsRemembered
    <3> QED
      BY <3>2, <3>3, <3>4
  <2>2. CASE UNCHANGED vars
    BY <2>2
  <2> QED
    BY <1>1, <2>1, <2>2
<1> QED
  BY <1>1, LatchConsistent, PTL DEF Spec, UpgradeMissesNoWrite

-----------------------------------------------------------------------------
(* The guards of MCHybridLatch *)

GuardsInv == /\ part = "moved" => Moved!GuardInv /\ Moved!OwnerInv
             /\ part = "downgraded" => Downgraded!GuardInv

(* The two sets of guard variables are finite, and nobody is a thread. *)
LEMMA BothApart == Moved!Apart /\ Downgraded!Apart
<1>1. IsFiniteSet({1, 2}) /\ IsFiniteSet({1})
  <2>1. IsFiniteSet({1}) /\ {1, 2} = {1} \cup {2}
    BY FS_Singleton
  <2> QED
    BY <2>1, FS_AddElement
<1>2. /\ Moved!IsFiniteSet({1, 2}) <=> IsFiniteSet({1, 2})
      /\ Downgraded!IsFiniteSet({1}) <=> IsFiniteSet({1})
  BY DEF Moved!IsFiniteSet, Downgraded!IsFiniteSet, IsFiniteSet
<1> QED
  BY <1>1, <1>2, NoneAssumption DEF Moved!Apart, Downgraded!Apart

(* What the guards of each part do not use *)
LEMMA OperationsUsed ==
    /\ Moved!KeepsLatches
    /\ "assign" \notin {"SX", "XS", "XO", "SO"}
BY DEF Moved!KeepsLatches

(* Steps of the latch and stuttering leave the guards alone. *)
LEMMA GuardsUntouched ==
    ASSUME GuardsInv, UNCHANGED <<guardVars, part>>
    PROVE  GuardsInv'
<1>1. Moved!GuardInv /\ UNCHANGED Moved!vars => Moved!GuardInv'
  BY Moved!NothingStep DEF Moved!KeepsInv
<1>2. Moved!OwnerInv /\ UNCHANGED guardVars => Moved!OwnerInv'
  BY DEF Moved!OwnerInv, Moved!HasX, Moved!LatchIsOwned, guardVars
<1>3. Downgraded!GuardInv /\ UNCHANGED Downgraded!vars => Downgraded!GuardInv'
  BY Downgraded!NothingStep DEF Downgraded!KeepsInv
<1> QED
  BY <1>1, <1>2, <1>3 DEF GuardsInv, guardVars, Moved!vars, Downgraded!vars

(***************************************************************************)
(* Guards that are converted, moved and swapped by any number of threads,  *)
(* over any number of frames, have missed no write, and each latch that is *)
(* held is released by exactly one of the moved ones (BufferFrameGuards).  *)
(***************************************************************************)
THEOREM GuardsStaySound == MCSpec => []GuardsAreSound
<1>1. MCInit => GuardsInv
  BY BothApart, Moved!GuardInit, Downgraded!GuardInit DEF MCInit, GuardsInv
<1>2. GuardsInv /\ [MCNext]_<<vars, guardVars, part>> => GuardsInv'
  <2> SUFFICES ASSUME GuardsInv, [MCNext]_<<vars, guardVars, part>> PROVE GuardsInv'
    OBVIOUS
  <2>1. CASE UNCHANGED <<guardVars, part>>
    BY <2>1, GuardsUntouched
  <2>2. CASE part = "moved" /\ Moved!Next /\ part' = part
    <3>1. Moved!GuardInv /\ Moved!OwnerInv
      BY <2>2 DEF GuardsInv
    <3>2. Moved!GuardInv' /\ Moved!OwnerInv'
      BY <2>2, <3>1, BothApart, OperationsUsed, Moved!MovesKeepInv
    <3> QED
      BY <2>2, <3>2 DEF GuardsInv
  <2>3. CASE part = "downgraded" /\ Downgraded!Next /\ part' = part
    <3>1. Downgraded!GuardInv
      BY <2>3 DEF GuardsInv
    <3>2. Downgraded!GuardInv'
      BY <2>3, <3>1, BothApart, OperationsUsed, Downgraded!ConversionsKeepInv
    <3> QED
      BY <2>3, <3>2 DEF GuardsInv
  <2> QED
    BY <2>1, <2>2, <2>3 DEF MCNext, Stop
<1>3. GuardsInv => GuardsAreSound
  BY BothApart, Moved!GuardsMissNoWrite, Moved!GuardsOwnLatches, Downgraded!GuardsMissNoWrite
     DEF GuardsInv, GuardsAreSound
<1> QED
  BY <1>1, <1>2, <1>3, PTL DEF MCSpec
=============================================================================
