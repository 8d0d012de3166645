-------------------------- MODULE EvictionQueuePair --------------------------
(***************************************************************************)
(* The queue pair of a page provider and another node.  Requests and       *)
(* responses are written, pages are read; the work requests complete in    *)
(* order.  One write in maxOutstandingWrites is signalled and waited for;  *)
(* the last read of a batch is signalled and polled in phase 6.  All share *)
(* one completion queue, so the wait for a write may take the completion   *)
(* of a read (readCompleted) and the other way round (pollCompleted).      *)
(*                                                                         *)
(* The wait looks at wcReturn.wr_id also when nothing was polled; the      *)
(* variable is not initialised then: it holds one of the values of Garbage.*)
(***************************************************************************)
EXTENDS Integers, Sequences

CONSTANTS
  MaxOutstanding,   \* maxOutstandingWrites
  Garbage,          \* what an uninitialised wr_id may hold, a subset of {"read", "write"}
  MaxWrites,        \* bound: writes
  MaxQueue          \* entries of the send queue

VARIABLES
  sq,       \* posted work requests that have not completed: [op, signaled]
  cq,       \* completions that have not been polled: "read" or "write"
  wqe,
  readScheduled, readCompleted, pollCompleted, responseOutstanding,
  pc,       \* "p1": phases 1 to 5, "wait": in writeRequest or writeResponse, "p6"
  back,     \* where the wait goes back to
  early,    \* a response was written before its pages had been read
  writes

vars == <<sq, cq, wqe, readScheduled, readCompleted, pollCompleted, responseOutstanding, pc, back, early, writes>>
flags == <<readScheduled, readCompleted, pollCompleted, responseOutstanding>>

Init ==
  /\ sq = <<>> /\ cq = <<>> /\ wqe = 0
  /\ readScheduled = FALSE /\ readCompleted = FALSE /\ pollCompleted = FALSE /\ responseOutstanding = FALSE
  /\ pc = "p1" /\ back = "p1" /\ early = FALSE /\ writes = 0

\* the network card
Complete ==
  /\ sq # <<>>
  /\ sq' = Tail(sq)
  /\ cq' = IF Head(sq).signaled THEN Append(cq, Head(sq).op) ELSE cq
  /\ UNCHANGED <<wqe, flags, pc, back, early, writes>>

\* phase 1: a request with pages to read, or with none
Incoming(read) ==
  /\ pc = "p1" /\ ~ responseOutstanding /\ Len(sq) < MaxQueue /\ writes < MaxWrites
  /\ responseOutstanding' = TRUE
  /\ sq' = IF read THEN Append(sq, [op |-> "read", signaled |-> TRUE]) ELSE sq     \* postRead
  /\ readScheduled' = (readScheduled \/ read)
  /\ UNCHANGED <<cq, wqe, readCompleted, pollCompleted, pc, back, early, writes>>

\* writeRequest and writeResponse: the write is posted
Write(after) ==
  /\ writes < MaxWrites
  /\ sq' = Append(sq, [op |-> "write", signaled |-> wqe = MaxOutstanding])
  /\ writes' = writes + 1
  /\ IF wqe = MaxOutstanding /\ ~ pollCompleted
     THEN pc' = "wait" /\ back' = after /\ UNCHANGED wqe
     ELSE pc' = after /\ wqe' = wqe + 1 /\ UNCHANGED back

\* phase 4
WriteRequest ==
  /\ pc = "p1" /\ Write("p6")
  /\ UNCHANGED <<cq, flags, early>>

SkipRequest ==
  /\ pc = "p1" /\ pc' = "p6"
  /\ UNCHANGED <<sq, cq, wqe, flags, back, early, writes>>

\* nothing polled: wr_id is garbage
WaitNothing ==
  /\ pc = "wait" /\ cq = <<>>
  /\ \E g \in Garbage : readCompleted' = (readCompleted \/ g = "read")
  /\ UNCHANGED <<sq, cq, wqe, readScheduled, pollCompleted, responseOutstanding, pc, back, early, writes>>

WaitRead ==
  /\ pc = "wait" /\ cq # <<>> /\ Head(cq) = "read"
  /\ cq' = Tail(cq) /\ readCompleted' = TRUE
  /\ UNCHANGED <<sq, wqe, readScheduled, pollCompleted, responseOutstanding, pc, back, early, writes>>

\* wqe = 0; ... wqe++
WaitWrite ==
  /\ pc = "wait" /\ cq # <<>> /\ Head(cq) = "write"
  /\ cq' = Tail(cq) /\ pc' = back /\ wqe' = 1 /\ pollCompleted' = FALSE
  /\ UNCHANGED <<sq, readScheduled, readCompleted, responseOutstanding, back, early, writes>>

\* RdmaReadBuffer::pollCompletion looks at two completions
Polled == SubSeq(cq, 1, IF Len(cq) < 2 THEN Len(cq) ELSE 2)

\* phase 6: the completion is not there yet, or there is nothing to answer
NoResponse ==
  /\ pc = "p6" /\ pc' = "p1"
  /\ \/ ~ readScheduled /\ ~ responseOutstanding /\ UNCHANGED <<cq, pollCompleted>>
     \/ /\ readScheduled /\ ~ readCompleted /\ \A i \in 1..Len(Polled) : Polled[i] # "read"
        /\ cq' = SubSeq(cq, Len(Polled) + 1, Len(cq))
        /\ pollCompleted' = (pollCompleted \/ Polled # <<>>)
  /\ UNCHANGED <<sq, wqe, readScheduled, readCompleted, responseOutstanding, back, early, writes>>

\* the completion is there: it is polled, or another wait has seen it
ReadIsComplete ==
  /\ pc = "p6" /\ readScheduled /\ responseOutstanding
  /\ \/ readCompleted /\ UNCHANGED <<cq, wqe, pollCompleted>>
     \/ /\ ~ readCompleted /\ \E i \in 1..Len(Polled) : Polled[i] = "read"
        /\ cq' = IF Head(cq) = "read" THEN Tail(cq) ELSE Tail(Tail(cq))
        /\ wqe' = 0
        /\ pollCompleted' = (pollCompleted \/ Head(cq) # "read")
  /\ pc' = "respond"
  /\ UNCHANGED <<sq, readScheduled, readCompleted, responseOutstanding, back, early, writes>>

NoRead ==
  /\ pc = "p6" /\ ~ readScheduled /\ responseOutstanding
  /\ pc' = "respond"
  /\ UNCHANGED <<sq, cq, wqe, flags, back, early, writes>>

\* Mutant: what another wait has seen is kept for the next batch
WriteResponseKeeps ==
  /\ pc = "respond"
  /\ responseOutstanding' = FALSE /\ readScheduled' = FALSE
  /\ early' = (early \/ \E i \in 1..Len(sq) : sq[i].op = "read")
  /\ Write("p1")
  /\ UNCHANGED <<cq, readCompleted, pollCompleted>>

WriteResponse ==
  /\ pc = "respond"
  /\ responseOutstanding' = FALSE /\ readScheduled' = FALSE /\ readCompleted' = FALSE
  /\ early' = (early \/ \E i \in 1..Len(sq) : sq[i].op = "read")
  /\ Write("p1")
  /\ UNCHANGED <<cq, pollCompleted>>

Step == SkipRequest \/ NoResponse \/ ReadIsComplete \/ NoRead \/ WriteResponse
Wait == WaitNothing \/ WaitRead \/ WaitWrite
Next == \/ Complete \/ Incoming(TRUE) \/ Incoming(FALSE) \/ WriteRequest \/ Wait \/ Step

Spec == Init /\ [][Next]_vars

-----------------------------------------------------------------------------
(* Properties *)

\* The answer to an eviction request is written only when the pages have been read: the other node frees
\* them as soon as it gets the answer.
ResponseAfterRead == ~ early

\* One signalled write in maxOutstandingWrites keeps the send queue short, although the count starts again
\* whenever a read has completed.
SendQueueIsBounded == Len(sq) <= 2 * MaxOutstanding + 2

\* A batch is answered, whoever takes the completion of its reads.
BatchIsAnswered == []<>(~ responseOutstanding \/ writes = MaxWrites)
=============================================================================
