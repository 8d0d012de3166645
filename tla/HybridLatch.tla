----------------------------- MODULE HybridLatch -----------------------------
(***************************************************************************)
(* HybridLatch.hpp: a std::shared_mutex and a version counter.  Every      *)
(* exclusive latching raises the version by 0b10 after the mutex is locked *)
(* and once more before it is unlocked, so that bit 0b10 is set while the  *)
(* frame is latched exclusively.  An optimistic reader takes no lock: it   *)
(* remembers the version and compares it when it is done, or when it       *)
(* upgrades to a shared or an exclusive latch.                             *)
(*                                                                         *)
(* Locking the mutex, loading and storing the version are separate steps.  *)
(* The contents the latch protects are a counter that every store to the   *)
(* page raises.                                                            *)
(***************************************************************************)
EXTENDS Naturals

CONSTANTS
    Thread,
    NoThread,    \* the mutex is not locked exclusively
    MaxVersion,  \* bound: no exclusive latching starts at this version
    MaxWrites    \* bound: stores to the page

ASSUME ThreadAssumption == NoThread \notin Thread
ASSUME LatchBoundAssumption == MaxVersion \in Nat /\ MaxWrites \in Nat

VARIABLES
    version,   \* HybridLatch::version
    exclusive, \* the thread that has locked smut exclusively
    shared,    \* the threads that have locked smut shared
    pc,        \* where each thread is
    seen,      \* the version a thread compares with
    page,      \* the protected contents
    snapshot   \* all a thread has read since it saw version seen

vars == <<version, exclusive, shared, pc, seen, page, snapshot>>

(* Steps with the mutex locked exclusively, shared, and without it *)
ExclusivePC ==
    {"locked",          \* smut.lock() returned, version not raised yet
     "exclusive",       \* latched
     "unlatching",      \* version raised, smut not unlocked yet
     "downgrading",     \* the same, on the way to a shared latch
     "relaxing",        \* the same, on the way to an optimistic latch
     "upgradeLocked",   \* optimisticUpgradeToExclusive after try_lock
     "upgradeRaised"}   \* ... after the version was raised
SharedPC ==
    {"shared",          \* latched
     "relatched",       \* tryDowngradeExclusiveToShared before the check
     "upgradeShared"}   \* optimisticUpgradeToShared before the last check
FreePC ==
    {"out",             \* not using the latch
     "optimistic",      \* reading without a latch
     "relatching",      \* tryDowngradeExclusiveToShared before lock_shared
     "tryShared",       \* optimisticUpgradeToShared before try_lock_shared
     "tryExclusive"}    \* optimisticUpgradeToExclusive before try_lock

(* isLatched(version): bit 0b10 is set *)
IsLatched(v) == (v \div 2) % 2 = 1

Init ==
    /\ version = 4
    /\ exclusive = NoThread
    /\ shared = {}
    /\ pc = [t \in Thread |-> "out"]
    /\ seen = [t \in Thread |-> 0]
    /\ page = 0
    /\ snapshot = [t \in Thread |-> {}]

Goto(t, from, to) == pc[t] = from /\ pc' = [pc EXCEPT ![t] = to]

-----------------------------------------------------------------------------
(* std::shared_mutex *)

Lock(t) ==
    /\ exclusive = NoThread /\ shared = {}
    /\ exclusive' = t /\ UNCHANGED shared
Unlock == exclusive' = NoThread /\ UNCHANGED shared
LockShared(t) ==
    /\ exclusive = NoThread
    /\ shared' = shared \cup {t} /\ UNCHANGED exclusive
UnlockShared(t) == shared' = shared \ {t} /\ UNCHANGED exclusive

-----------------------------------------------------------------------------
(* latchExclusive, tryLatchExclusive: lock the mutex, raise the version *)

RaiseVersion == version' = version + 2

LatchExclusive(t) ==
    /\ version < MaxVersion
    /\ Goto(t, "out", "locked") /\ Lock(t)
    /\ UNCHANGED <<version, seen, page, snapshot>>

Latched(t) ==
    /\ Goto(t, "locked", "exclusive") /\ RaiseVersion
    /\ UNCHANGED <<exclusive, shared, seen, page, snapshot>>

(* The holder stores to the page. *)
Write(t) ==
    /\ pc[t] = "exclusive" /\ page < MaxWrites
    /\ page' = page + 1
    /\ UNCHANGED <<version, exclusive, shared, pc, seen, snapshot>>

(* unlatchExclusive; the downgrades remember the version they leave and,   *)
(* with it, what the thread knows of the page.                             *)
UnlatchExclusive(t) ==
    /\ Goto(t, "exclusive", "unlatching") /\ RaiseVersion
    /\ UNCHANGED <<exclusive, shared, seen, page, snapshot>>

Unlatched(t) ==
    /\ Goto(t, "unlatching", "out") /\ Unlock
    /\ UNCHANGED <<version, seen, page, snapshot>>

TryDowngradeExclusiveToShared(t) ==
    /\ Goto(t, "exclusive", "downgrading") /\ RaiseVersion
    /\ seen' = [seen EXCEPT ![t] = version + 2]
    /\ snapshot' = [snapshot EXCEPT ![t] = {page}]
    /\ UNCHANGED <<exclusive, shared, page>>

DowngradeUnlock(t) ==
    /\ Goto(t, "downgrading", "relatching") /\ Unlock
    /\ UNCHANGED <<version, seen, page, snapshot>>

Relatch(t) ==
    /\ Goto(t, "relatching", "relatched") /\ LockShared(t)
    /\ UNCHANGED <<version, seen, page, snapshot>>

(* Mutant: the version is remembered before it is raised. *)
DowngradeRemembersLatched(t) ==
    /\ Goto(t, "exclusive", "relaxing") /\ RaiseVersion
    /\ seen' = [seen EXCEPT ![t] = version]
    /\ snapshot' = [snapshot EXCEPT ![t] = {page}]
    /\ UNCHANGED <<exclusive, shared, page>>

DowngradeExclusiveToOptimistic(t) ==
    /\ Goto(t, "exclusive", "relaxing") /\ RaiseVersion
    /\ seen' = [seen EXCEPT ![t] = version + 2]
    /\ snapshot' = [snapshot EXCEPT ![t] = {page}]
    /\ UNCHANGED <<exclusive, shared, page>>

Relaxed(t) ==
    /\ Goto(t, "relaxing", "optimistic") /\ Unlock
    /\ UNCHANGED <<version, seen, page, snapshot>>

-----------------------------------------------------------------------------
(* latchShared, tryLatchShared, unlatchShared, downgradeSharedToOptimistic *)

LatchShared(t) ==
    /\ Goto(t, "out", "shared") /\ LockShared(t)
    /\ UNCHANGED <<version, seen, page, snapshot>>

UnlatchShared(t) ==
    /\ Goto(t, "shared", "out") /\ UnlockShared(t)
    /\ UNCHANGED <<version, seen, page, snapshot>>

DowngradeSharedToOptimistic(t) ==
    /\ Goto(t, "shared", "optimistic") /\ UnlockShared(t)
    /\ seen' = [seen EXCEPT ![t] = version]
    /\ snapshot' = [snapshot EXCEPT ![t] = {page}]
    /\ UNCHANGED <<version, page>>

(* The check of the version with the mutex locked shared *)
CheckShared(t) ==
    /\ pc[t] \in {"relatched", "upgradeShared"}
    /\ IF version = seen[t]
       THEN /\ pc' = [pc EXCEPT ![t] = "shared"]
            /\ UNCHANGED <<exclusive, shared>>
       ELSE /\ pc' = [pc EXCEPT ![t] = "out"]
            /\ UnlockShared(t)
    /\ UNCHANGED <<version, seen, page, snapshot>>

-----------------------------------------------------------------------------
(* Optimistic latching *)

OptimisticLatchOrRestart(t) ==
    /\ ~IsLatched(version)
    /\ Goto(t, "out", "optimistic")
    /\ seen' = [seen EXCEPT ![t] = version]
    /\ snapshot' = [snapshot EXCEPT ![t] = {}]
    /\ UNCHANGED <<version, exclusive, shared, page>>

(* A read without latch, of whatever the page holds at that moment *)
Read(t) ==
    /\ pc[t] = "optimistic"
    /\ snapshot' = [snapshot EXCEPT ![t] = @ \cup {page}]
    /\ UNCHANGED <<version, exclusive, shared, pc, seen, page>>

(* optimisticReadUnlatchOrRestart; the thread is done, or starts again *)
OptimisticReadUnlatch(t) ==
    /\ Goto(t, "optimistic", "out")
    /\ UNCHANGED <<version, exclusive, shared, seen, page, snapshot>>

(* The first comparison of optimisticUpgradeToShared and ...ToExclusive *)
OptimisticUpgrade(t) ==
    /\ pc[t] = "optimistic" /\ version = seen[t]
    /\ \E next \in {"tryShared", "tryExclusive"} :
          pc' = [pc EXCEPT ![t] = next]
    /\ UNCHANGED <<version, exclusive, shared, seen, page, snapshot>>

TryShared(t) ==
    /\ \/ Goto(t, "tryShared", "upgradeShared") /\ LockShared(t)
       \/ /\ exclusive # NoThread
          /\ Goto(t, "tryShared", "out") /\ UNCHANGED <<exclusive, shared>>
    /\ UNCHANGED <<version, seen, page, snapshot>>

TryExclusive(t) ==
    /\ \/ /\ version < MaxVersion
          /\ Goto(t, "tryExclusive", "upgradeLocked") /\ Lock(t)
       \/ /\ exclusive # NoThread \/ shared # {} \/ version >= MaxVersion
          /\ Goto(t, "tryExclusive", "out") /\ UNCHANGED <<exclusive, shared>>
    /\ UNCHANGED <<version, seen, page, snapshot>>

UpgradeRaise(t) ==
    /\ Goto(t, "upgradeLocked", "upgradeRaised") /\ RaiseVersion
    /\ UNCHANGED <<exclusive, shared, seen, page, snapshot>>

(* Mutant: the version is compared only before the mutex is locked. *)
UpgradeUnchecked(t) ==
    /\ Goto(t, "upgradeRaised", "exclusive")
    /\ UNCHANGED <<version, exclusive, shared, seen, page, snapshot>>

(* The second comparison; a failed upgrade unlatches again. *)
CheckExclusive(t) ==
    /\ pc[t] = "upgradeRaised"
    /\ IF version = seen[t] + 2
       THEN pc' = [pc EXCEPT ![t] = "exclusive"] /\ UNCHANGED version
       ELSE pc' = [pc EXCEPT ![t] = "unlatching"] /\ RaiseVersion
    /\ UNCHANGED <<exclusive, shared, seen, page, snapshot>>

-----------------------------------------------------------------------------
ExclusiveStep(t) ==
    \/ LatchExclusive(t) \/ Latched(t) \/ Write(t)
    \/ UnlatchExclusive(t) \/ Unlatched(t)
    \/ TryDowngradeExclusiveToShared(t) \/ DowngradeUnlock(t) \/ Relatch(t)
    \/ DowngradeExclusiveToOptimistic(t) \/ Relaxed(t)

SharedStep(t) ==
    \/ LatchShared(t) \/ UnlatchShared(t) \/ DowngradeSharedToOptimistic(t)
    \/ CheckShared(t)

OptimisticStep(t) ==
    \/ OptimisticLatchOrRestart(t) \/ Read(t) \/ OptimisticReadUnlatch(t)
    \/ OptimisticUpgrade(t) \/ TryShared(t) \/ TryExclusive(t)
    \/ UpgradeRaise(t) \/ CheckExclusive(t)

Next == \E t \in Thread : ExclusiveStep(t) \/ SharedStep(t) \/ OptimisticStep(t)

Spec == Init /\ [][Next]_vars

-----------------------------------------------------------------------------
(* Properties *)

TypeOK ==
    /\ version \in Nat
    /\ exclusive \in Thread \cup {NoThread}
    /\ shared \subseteq Thread
    /\ pc \in [Thread -> ExclusivePC \cup SharedPC \cup FreePC]
    /\ seen \in [Thread -> Nat]
    /\ page \in Nat
    /\ snapshot \in [Thread -> SUBSET Nat]

(* The steps of an exclusive latching during which the version shows it *)
RaisedPC == {"exclusive", "upgradeRaised"}

(* The version tells every thread whether the latch is held: bit 0b10 is    *)
(* set exactly while some thread is between the two increments of the      *)
(* version.  latchShared, unlatchExclusive, the downgrades and both        *)
(* upgrades ensure() one direction of this or the other.                   *)
VersionShowsLatch ==
    IsLatched(version) <=> \E t \in Thread : pc[t] \in RaisedPC

(* A thread that may write (latchExclusive, or an upgrade that passed both  *)
(* comparisons) is alone: no thread holds the latch shared or exclusively. *)
WriterIsAlone ==
    \A t, u \in Thread :
        pc[t] = "exclusive" /\ pc[u] \in {"exclusive", "shared"} => t = u

(* What optimisticReadUnlatchOrRestart relies on: as long as the version is *)
(* the one a reader remembered, everything it has read is still what the   *)
(* page holds, although the reader holds no latch.                         *)
CurrentVersionMeansCurrentPage ==
    \A t \in Thread :
        pc[t] \in {"optimistic", "tryShared", "tryExclusive", "relatching"}
            /\ version = seen[t]
        => snapshot[t] \subseteq {page}

(* Whoever turns an optimistic latch, or an exclusive one, into a latch by  *)
(* comparing versions has missed no store: the page is what the thread     *)
(* knew before it had the latch.                                           *)
UpgradeMissesNoWrite ==
    [][\A t \in Thread :
          /\ pc[t] \in {"relatched", "upgradeShared", "upgradeRaised"}
          /\ pc'[t] \in {"shared", "exclusive"}
          => snapshot[t] \subseteq {page}]_vars

-----------------------------------------------------------------------------
(* The inductive invariant behind the properties above                     *)

(* pc agrees with the mutex, and the mutex is not held in both modes. *)
HoldersAgree ==
    /\ \A t \in Thread : exclusive = t <=> pc[t] \in ExclusivePC
    /\ \A t \in Thread : t \in shared <=> pc[t] \in SharedPC
    /\ exclusive = NoThread \/ shared = {}

(* Steps at which a thread relies on the version it remembers *)
RememberingPC == {"optimistic", "tryShared", "tryExclusive", "relatching",
                  "relatched", "upgradeShared", "upgradeLocked",
                  "downgrading", "relaxing"}

(* A remembered version was taken while nobody could write: it is not      *)
(* ahead of the version, it does not show a latch, and while it is still   *)
(* the current one the page has not changed since it was read.             *)
VersionsRemembered ==
    \A t \in Thread :
        /\ pc[t] \in RememberingPC =>
             /\ seen[t] <= version /\ ~IsLatched(seen[t])
             /\ version = seen[t] => snapshot[t] \subseteq {page}
        /\ pc[t] = "upgradeRaised" =>
             /\ seen[t] + 2 <= version /\ ~IsLatched(seen[t])
             /\ version = seen[t] + 2 => snapshot[t] \subseteq {page}

(* The latch is consistent at every step of every thread: the mutex, the    *)
(* version and what the threads remember of it agree.                      *)
LatchInv == TypeOK /\ HoldersAgree /\ VersionShowsLatch /\ VersionsRemembered
=============================================================================
