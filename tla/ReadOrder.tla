----------------------------- MODULE ReadOrder ------------------------------
(***************************************************************************)
(* The reads of one connection of CIOCPServer.  Several reads are posted   *)
(* at a time; they are numbered under pContext->Lock, complete in the      *)
(* order of posting, and are dequeued by any worker in any order.  HandleIO *)
(* puts them back in order with GetNextReadBuffer, which parks a read that *)
(* came too early in pOutOfOrderReads and holds no lock.                   *)
(*                                                                         *)
(* A read is identified by its position k in the order of posting; the     *)
(* code only sees k modulo the range of ULONG.  The connection stays open: *)
(* closing it is the subject of ConnectionLifecycle.                       *)
(***************************************************************************)
EXTENDS Naturals, Sequences

CONSTANTS
  IOWorkers,
  InitialReads,  \* m_nInitialReads
  SeqModulus,    \* the range of ULONG, 2^32 in the code
  MaxReads       \* bound: reads posted on the connection

ASSUME ReadsAssumption ==
  /\ InitialReads \in Nat /\ MaxReads \in Nat /\ InitialReads <= MaxReads
  /\ SeqModulus \in Nat \ {0}

VARIABLES
  posted,     \* reads posted so far; modulo SeqModulus it is nReadSequence
  arrived,    \* reads completed so far, the first ones posted
  queued,     \* completed reads no worker has dequeued
  nCurrentReadSequence,
  pOutOfOrderReads,   \* the parked reads, as the linked list holds them
  delivered,  \* history: the reads given to OnReadCompleted
  overlapped, \* history: two workers handled packets at the same time
  pc, p       \* the place and the read of each worker

readsVars == <<posted, arrived, queued, nCurrentReadSequence, pOutOfOrderReads,
          delivered, overlapped, pc, p>>

nSequenceNumber(k) == k % SeqModulus

Goto(w, l) == pc' = [pc EXCEPT ![w] = l]

\* The worker has a packet and is not done with GetNextReadBuffer.
Busy(w) == pc[w] \notin {"get", "repost"}

ReadsInit ==
  /\ posted = InitialReads /\ arrived = 0 /\ queued = {}
  /\ nCurrentReadSequence = 0 /\ pOutOfOrderReads = <<>> /\ delivered = <<>>
  /\ overlapped = FALSE
  /\ pc = [w \in IOWorkers |-> "get"] /\ p = [w \in IOWorkers |-> 0]

\* The next read completes and its packet is queued on the port.
Complete ==
  /\ arrived < posted
  /\ arrived' = arrived + 1 /\ queued' = queued \cup {arrived}
  /\ UNCHANGED <<posted, nCurrentReadSequence, pOutOfOrderReads, delivered,
                 overlapped, pc, p>>

Dequeue(w, k) ==
  /\ pc[w] = "get" /\ k \in queued
  /\ queued' = queued \ {k}
  /\ overlapped' = (overlapped \/ \E v \in IOWorkers \ {w} : Busy(v))
  /\ p' = [p EXCEPT ![w] = k] /\ Goto(w, "compare")
  /\ UNCHANGED <<posted, arrived, nCurrentReadSequence, pOutOfOrderReads,
                 delivered>>

\* Mutant: a later read is taken for the next one.
CompareAtLeast(w) ==
  /\ pc[w] = "compare"
  /\ Goto(w, IF nSequenceNumber(p[w]) >= nCurrentReadSequence
               THEN "deliver" ELSE "insert")
  /\ UNCHANGED <<posted, arrived, queued, nCurrentReadSequence,
                 pOutOfOrderReads, delivered, overlapped, p>>

\* GetNextReadBuffer(pContext, pBuffer): is it the read to deliver next?
Compare(w) ==
  /\ pc[w] = "compare"
  /\ Goto(w, IF nSequenceNumber(p[w]) = nCurrentReadSequence
               THEN "deliver" ELSE "insert")
  /\ UNCHANGED <<posted, arrived, queued, nCurrentReadSequence,
                 pOutOfOrderReads, delivered, overlapped, p>>

\* Mutant: a read that does not become the head is lost, as it was before the
\* correction of 2009.8.9 noted in GetNextReadBuffer.
InsertionLosesMiddle(k, s) ==
  IF \E j \in DOMAIN s : ~(nSequenceNumber(k) < nSequenceNumber(s[j]))
    THEN s ELSE <<k>> \o s

\* The parked read goes before the first one with a larger number.
Insertion(k, s) ==
  LET later == {j \in DOMAIN s : nSequenceNumber(k) < nSequenceNumber(s[j])}
      n == IF later = {} THEN Len(s)
           ELSE (CHOOSE j \in later : \A h \in later : j <= h) - 1
  IN SubSeq(s, 1, n) \o <<k>> \o SubSeq(s, n + 1, Len(s))

Insert(w) ==
  /\ pc[w] = "insert"
  /\ pOutOfOrderReads' = Insertion(p[w], pOutOfOrderReads)
  /\ Goto(w, "head")
  /\ UNCHANGED <<posted, arrived, queued, nCurrentReadSequence, delivered,
                 overlapped, p>>

\* GetNextReadBuffer looks at the head of the list ...
CheckHead(w) ==
  /\ pc[w] = "head"
  /\ IF /\ pOutOfOrderReads # <<>>
        /\ nSequenceNumber(Head(pOutOfOrderReads)) = nCurrentReadSequence
       THEN p' = [p EXCEPT ![w] = Head(pOutOfOrderReads)] /\ Goto(w, "pop")
       ELSE Goto(w, "repost") /\ UNCHANGED p
  /\ UNCHANGED <<posted, arrived, queued, nCurrentReadSequence,
                 pOutOfOrderReads, delivered, overlapped>>

\* ... and then sets the list to what follows the read it looked at; the link
\* of a read that was released meanwhile is cleared.
Pop(w) ==
  /\ pc[w] = "pop"
  /\ pOutOfOrderReads' =
       IF \E j \in DOMAIN pOutOfOrderReads : pOutOfOrderReads[j] = p[w]
       THEN SubSeq(pOutOfOrderReads,
                   1 + (CHOOSE j \in DOMAIN pOutOfOrderReads :
                          pOutOfOrderReads[j] = p[w]),
                   Len(pOutOfOrderReads))
       ELSE <<>>
  /\ Goto(w, "deliver")
  /\ UNCHANGED <<posted, arrived, queued, nCurrentReadSequence, delivered,
                 overlapped, p>>

\* OnReadCompleted.
DeliverRead(w) ==
  /\ pc[w] = "deliver"
  /\ delivered' = Append(delivered, p[w])
  /\ Goto(w, "advance")
  /\ UNCHANGED <<posted, arrived, queued, nCurrentReadSequence,
                 pOutOfOrderReads, overlapped, p>>

\* Mutant: one delivery per packet, without looking at the list again.
AdvanceOnce(w) ==
  /\ pc[w] = "advance"
  /\ nCurrentReadSequence' = (nCurrentReadSequence + 1) % SeqModulus
  /\ Goto(w, "repost")
  /\ UNCHANGED <<posted, arrived, queued, pOutOfOrderReads, delivered,
                 overlapped, p>>

\* InterlockedIncrement, ReleaseBuffer, and the next round of the loop.
Advance(w) ==
  /\ pc[w] = "advance"
  /\ nCurrentReadSequence' = (nCurrentReadSequence + 1) % SeqModulus
  /\ Goto(w, "head")
  /\ UNCHANGED <<posted, arrived, queued, pOutOfOrderReads, delivered,
                 overlapped, p>>

\* One new read per completed one (PostRecv).
Repost(w) ==
  /\ pc[w] = "repost"
  /\ posted' = IF posted < MaxReads THEN posted + 1 ELSE posted
  /\ p' = [p EXCEPT ![w] = 0] /\ Goto(w, "get")
  /\ UNCHANGED <<arrived, queued, nCurrentReadSequence, pOutOfOrderReads,
                 delivered, overlapped>>

HandleRead(w) ==
  \/ \E k \in queued : Dequeue(w, k)
  \/ Compare(w) \/ Insert(w) \/ CheckHead(w) \/ Pop(w)
  \/ DeliverRead(w) \/ Advance(w) \/ Repost(w)

ReadsNext == Complete \/ \E w \in IOWorkers : HandleRead(w)

ReadsSpec == ReadsInit /\ [][ReadsNext]_readsVars

\* A worker thread with something to do is eventually scheduled.
ReadsFairSpec == ReadsSpec /\ \A w \in IOWorkers : WF_readsVars(HandleRead(w))

-----------------------------------------------------------------------------
\* The history holds reads, the counters stay in their ranges and a worker
\* handles a read that was posted.
ReadsTypeOK ==
  /\ posted \in 0..MaxReads /\ arrived \in 0..MaxReads
  /\ queued \subseteq 0..MaxReads
  /\ nCurrentReadSequence \in 0..(SeqModulus - 1)
  /\ pOutOfOrderReads \in Seq(Nat) /\ delivered \in Seq(Nat)
  /\ overlapped \in BOOLEAN
  /\ pc \in [IOWorkers -> {"get", "compare", "insert", "head", "pop",
                           "deliver", "advance", "repost"}]
  /\ p \in [IOWorkers -> Nat]

\* What the source says of GetNextReadBuffer, without a condition:
\* OnReadCompleted sees the reads in the order in which they were posted, each
\* of them once.
InOrder == \A j \in DOMAIN delivered : delivered[j] = j - 1

\* OnReadCompleted sees the reads in the order in which they were posted, each
\* of them once, whichever workers dequeue them and in whatever order, until a
\* worker dequeues a read while another is busy with one.
InOrderAlone == ~overlapped => InOrder

\* When no worker is busy, the read that is due is not parked: nothing else
\* would come to deliver it.  Until two workers overlapped.
NoStall ==
  ~overlapped /\ (\A w \in IOWorkers : ~Busy(w)) =>
    \A j \in DOMAIN pOutOfOrderReads : pOutOfOrderReads[j] # Len(delivered)

\* The list of parked reads is sorted by sequence number, until two workers
\* overlapped.
ParkedSorted ==
  ~overlapped =>
    \A j, k \in DOMAIN pOutOfOrderReads : j < k =>
      nSequenceNumber(pOutOfOrderReads[j]) < nSequenceNumber(pOutOfOrderReads[k])

Stream == INSTANCE InOrderStream

\* The step is one of the ordered stream, or none.
StreamStep == [Stream!StreamNext]_(Stream!StreamVars)

\* From the start until two workers overlap, the reordering implements the
\* ordered stream: deliveries happen in order and never early.
StreamUntilOverlap ==
  Stream!StreamInit /\ [][~overlapped' => StreamStep]_readsVars

\* And if they never overlap, every completed read is delivered in the end.
ImplementsStream ==
  StreamUntilOverlap /\ (<>overlapped \/ Stream!StreamFair)
=============================================================================
