----------------------------- MODULE MailboxLoop -----------------------------
(***************************************************************************)
(* The threads of a MessageHandler: how mailboxes are divided among them,  *)
(* the loop that looks for messages and the end of the threads.  What a    *)
(* message does is in Coherence; here a request is answered, put back, or  *)
(* left until an asynchronous read has ended.                              *)
(***************************************************************************)
EXTENDS Integers, FiniteSets

CONSTANTS
  Threads,        \* FLAGS_messageHandlerThreads, at most Clients
  Clients,        \* numConnections: FLAGS_worker * (FLAGS_nodes - 1)
  MaxRequests,    \* bound: requests of a worker before its Finish
  MaxRetries      \* bound: requests that are put back at the same time

Thread == 0..(Threads - 1)
Client == 0..(Clients - 1)

\* the constructor of MessageHandler: the last thread gets the rest
BlockSize == Clients \div Threads
BeginId(t) == t * BlockSize
NumberMailboxes(t) == (IF t = Threads - 1 THEN Clients ELSE BeginId(t) + BlockSize) - BeginId(t)

\* init: clients in the order of their connections fill one partition after the other
PartitionOf(c) == CHOOSE t \in Thread : BeginId(t) <= c /\ c < BeginId(t) + NumberMailboxes(t)

VARIABLES
  mailbox,      \* [Client -> 0 or 1]
  client,       \* [Client -> state and requests sent, times put back, answers received]
  loop,         \* [Thread -> pc, m_i, mailboxIdx, startPosition, client whose message is handled]
  reads,        \* clients whose message waits for a page from the SSD
  connected,    \* connectedClients
  running       \* threadsRunning

vars == <<mailbox, client, loop, reads, connected, running>>

Init ==
  /\ mailbox = [c \in Client |-> 0]
  /\ client = [c \in Client |-> [state |-> "idle", sent |-> 0, retries |-> 0, answers |-> 0]]
  /\ loop = [t \in Thread |-> [pc |-> "visit", m |-> 0, idx |-> 0, start |-> 0]]
  /\ reads = {}
  /\ connected = Clients
  /\ running = TRUE

-----------------------------------------------------------------------------
(* Workers: one message at a time *)

Send(c) ==
  /\ client[c].state = "idle" /\ client[c].sent < MaxRequests
  /\ client' = [client EXCEPT ![c].state = "waits", ![c].sent = @ + 1, ![c].retries = 0]
  /\ mailbox' = [mailbox EXCEPT ![c] = 1]
  /\ UNCHANGED <<loop, reads, connected, running>>

Finish(c) ==
  /\ client[c].state = "idle"
  /\ client' = [client EXCEPT ![c].state = "finished"]
  /\ mailbox' = [mailbox EXCEPT ![c] = 1]
  /\ UNCHANGED <<loop, reads, connected, running>>

-----------------------------------------------------------------------------
(* A handler thread *)

Here(t) == BeginId(t) + loop[t].idx

\* m_i++, mailboxIdx++
Advance(t) == loop' = [loop EXCEPT ![t].pc = "visit", ![t].m = @ + 1, ![t].idx = @ + 1]

Wrap(t) ==
  /\ loop[t].pc = "visit" /\ loop[t].m < NumberMailboxes(t)
  /\ loop[t].idx >= NumberMailboxes(t)
  /\ loop' = [loop EXCEPT ![t].idx = 0]
  /\ UNCHANGED <<mailbox, client, reads, connected, running>>

AtMailbox(t) == loop[t].pc = "visit" /\ loop[t].m < NumberMailboxes(t) /\ loop[t].idx < NumberMailboxes(t)

Skip(t) ==
  /\ AtMailbox(t) /\ mailbox[Here(t)] = 0
  /\ Advance(t)
  /\ UNCHANGED <<mailbox, client, reads, connected, running>>

\* Mutant: the mailbox is not reset before the response is sent
TakeMessageKeeps(t) ==
  /\ AtMailbox(t) /\ mailbox[Here(t)] = 1
  /\ loop' = [loop EXCEPT ![t].pc = "handle"]
  /\ UNCHANGED <<mailbox, client, reads, connected, running>>

\* the mailbox is reset before the response is sent
TakeMessage(t) ==
  /\ AtMailbox(t) /\ mailbox[Here(t)] = 1
  /\ mailbox' = [mailbox EXCEPT ![Here(t)] = 0]
  /\ loop' = [loop EXCEPT ![t].pc = "handle"]
  /\ UNCHANGED <<client, reads, connected, running>>

Handling(t, c) == loop[t].pc = "handle" /\ c = Here(t)

HandleFinish(t) == \E c \in Client :
  /\ Handling(t, c) /\ client[c].state = "finished"
  /\ connected' = connected - 1
  /\ Advance(t)
  /\ UNCHANGED <<mailbox, client, reads, running>>

\* writeMsg or writePageAndMsg
Answer(c) == client' = [client EXCEPT ![c].state = "idle", ![c].answers = @ + 1]

Reply(t) == \E c \in Client :
  /\ Handling(t, c) /\ client[c].state # "finished"
  /\ Answer(c)
  /\ Advance(t)
  /\ UNCHANGED <<mailbox, reads, connected, running>>

MayRetry(c) == client[c].retries = 0 /\ Cardinality({d \in Client : client[d].retries > 0}) < MaxRetries

\* guard.state == RETRY, INVALIDATION_EXPECTED: mailboxes[m_i] = 1
PutBack(t) == \E c \in Client :
  /\ Handling(t, c) /\ client[c].state # "finished" /\ MayRetry(c)
  /\ client' = [client EXCEPT ![c].retries = @ + 1]
  /\ mailbox' = [mailbox EXCEPT ![c] = 1]
  /\ Advance(t)
  /\ UNCHANGED <<reads, connected, running>>

\* STATE::SSD: async_read_buffer.add
AwaitRead(t) == \E c \in Client :
  /\ Handling(t, c) /\ client[c].state # "finished" /\ MayRetry(c)
  /\ client' = [client EXCEPT ![c].retries = @ + 1]
  /\ reads' = reads \cup {c}
  /\ Advance(t)
  /\ UNCHANGED <<mailbox, connected, running>>

\* Behind the loop: mailboxIdx = ++startPosition; the pages that have been read are released and their
\* messages looked at again; while (threadsRunning || connectedClients).  Positions at or behind the
\* last mailbox all start at mailbox 0.
EndOfRound(t) ==
  /\ loop[t].pc = "visit" /\ loop[t].m = NumberMailboxes(t)
  /\ \E done \in SUBSET {c \in reads : PartitionOf(c) = t} :
       /\ reads' = reads \ done
       /\ mailbox' = [c \in Client |-> IF c \in done THEN 1 ELSE mailbox[c]]
  /\ LET start == IF loop[t].start < NumberMailboxes(t) THEN loop[t].start + 1 ELSE NumberMailboxes(t)
     IN loop' = [loop EXCEPT ![t] = [pc |-> IF running \/ connected > 0 THEN "visit" ELSE "ended",
                                     m |-> 0, idx |-> start, start |-> start]]
  /\ UNCHANGED <<client, connected, running>>

\* the pages that a thread waits for have all been read
ReadsEnd(t) == EndOfRound(t) /\ \A c \in reads' : PartitionOf(c) # t

StopThread ==
  /\ running
  /\ running' = FALSE
  /\ UNCHANGED <<mailbox, client, loop, reads, connected>>

Handle(t) == HandleFinish(t) \/ Reply(t) \/ PutBack(t) \/ AwaitRead(t)
Step(t) == Wrap(t) \/ Skip(t) \/ TakeMessage(t) \/ Handle(t) \/ EndOfRound(t)

Next == (\E c \in Client : Send(c) \/ Finish(c)) \/ (\E t \in Thread : Step(t)) \/ StopThread

Spec == Init /\ [][Next]_vars

-----------------------------------------------------------------------------
(* Properties *)

(***************************************************************************)
(* A request is answered once: its worker gets as many answers as it sent  *)
(* requests and waits only while its message is in its mailbox, in the     *)
(* hands of the one thread of its partition, or behind a read.             *)
(***************************************************************************)
OneAnswerPerRequest ==
  \A c \in Client :
    /\ client[c].answers = client[c].sent - (IF client[c].state = "waits" THEN 1 ELSE 0)
    /\ client[c].state = "waits" =>
         mailbox[c] + Cardinality({t \in Thread : Handling(t, c)}) + (IF c \in reads THEN 1 ELSE 0) = 1
=============================================================================
