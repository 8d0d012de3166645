--------------------------- MODULE BufferResource ---------------------------
(***************************************************************************)
(* utils::SynchronizedMonotonicBufferRessource: the memory that is known   *)
(* to the network cards, given out piece by piece and never taken back.    *)
(* Threads of all components allocate from it; std::align moves the        *)
(* position to a multiple of the alignment when the piece still fits.      *)
(***************************************************************************)
EXTENDS Integers, FiniteSets

CONSTANTS
  Threads,
  bufferSize,
  Sizes,         \* sizes in bytes that are asked for
  Alignments     \* alignments that are asked for

VARIABLES
  bufferPosition, sizeLeft,
  mutex,       \* set of the thread that holds it
  request,     \* [Threads -> [pc, bytes, alignment]]
  blocks       \* pieces given out: [at, bytes, alignment]

vars == <<bufferPosition, sizeLeft, mutex, request, blocks>>

NoRequest == [pc |-> "idle", bytes |-> 0, alignment |-> 1]

Init ==
  /\ bufferPosition = 0 /\ sizeLeft = bufferSize /\ mutex = {} /\ blocks = {}
  /\ request = [t \in Threads |-> NoRequest]

Lock(t, bytes, alignment) ==
  /\ request[t].pc = "idle" /\ mutex = {}
  /\ mutex' = {t} /\ request' = [request EXCEPT ![t] = [pc |-> "locked", bytes |-> bytes, alignment |-> alignment]]
  /\ UNCHANGED <<bufferPosition, sizeLeft, blocks>>

\* std::align
Align(t) ==
  LET r == request[t]
      pad == (-bufferPosition) % r.alignment
  IN
  /\ r.pc = "locked" /\ sizeLeft >= r.bytes + pad
  /\ bufferPosition' = bufferPosition + pad /\ sizeLeft' = sizeLeft - pad
  /\ request' = [request EXCEPT ![t].pc = "aligned"]
  /\ UNCHANGED <<mutex, blocks>>

Take(t) ==
  LET r == request[t] IN
  /\ r.pc = "aligned"
  /\ blocks' = blocks \cup {[at |-> bufferPosition, bytes |-> r.bytes, alignment |-> r.alignment]}
  /\ bufferPosition' = bufferPosition + r.bytes /\ sizeLeft' = sizeLeft - r.bytes
  /\ request' = [request EXCEPT ![t] = NoRequest] /\ mutex' = mutex \ {t}

\* bad_alloc, before or in std::align
BadAlloc(t) ==
  LET r == request[t] IN
  /\ r.pc = "locked" /\ sizeLeft < r.bytes + ((-bufferPosition) % r.alignment)
  /\ request' = [request EXCEPT ![t] = NoRequest] /\ mutex' = mutex \ {t}
  /\ UNCHANGED <<bufferPosition, sizeLeft, blocks>>

Next == \E t \in Threads :
          Align(t) \/ Take(t) \/ BadAlloc(t) \/ \E bytes \in Sizes, alignment \in Alignments : Lock(t, bytes, alignment)

Spec == Init /\ [][Next]_vars

-----------------------------------------------------------------------------
(* Properties *)

Bytes(b) == b.at .. b.at + b.bytes - 1

\* No two pieces overlap, whoever asked for them: mailboxes, messages and pages stay apart.
BlocksAreDisjoint == \A b, c \in blocks : b # c => Bytes(b) \cap Bytes(c) = {}

\* Every piece lies in the registered memory and has its alignment.
BlocksAreInside == \A b \in blocks : b.at % b.alignment = 0 /\ b.at + b.bytes <= bufferSize
=============================================================================
