----------------------------- MODULE AcceptPool -----------------------------
(***************************************************************************)
(* The accept side of CIOCPServer: the listening thread that keeps a pool  *)
(* of AcceptEx requests posted, the worker threads that complete them, and *)
(* the Start/Shutdown protocol of the thread that owns the server.         *)
(*                                                                         *)
(* A buffer is one CIOCPBuffer.  io[b] is what has become of it:           *)
(*   "free"       in the free list, or not allocated at all                *)
(*   "recorded"   taken by the listening thread and recorded as pending    *)
(*   "posted"     its AcceptEx waits for a client                          *)
(*   "connected"  a client is connected but has sent nothing yet           *)
(*   "data", "zero", "error"   AcceptEx completed: with the client's first *)
(*                bytes, with none (the client closed), or with an error   *)
(*   "dead"       allocated, but no completion will ever be dequeued for   *)
(*                it (AcceptEx failed, or its completion port was closed)  *)
(* What the accept handler does with the new connection is the subject of  *)
(* module ConnectionLifecycle; here every outcome leads to the same        *)
(* release of the buffer and the same request for a new accept.  Local     *)
(* variables of a thread get their initial value back once they are dead.  *)
(***************************************************************************)
EXTENDS Integers, FiniteSets

CONSTANTS
  Buffers,          \* the CIOCPBuffer objects the heap can hold
  Workers,          \* the MAX_THREAD threads that serve the completion port
  NULL,
  InitialAccepts,   \* m_nInitialAccepts
  MaxAccepts,       \* m_nMaxAccepts
  AcceptBatch,      \* accepts added on FD_ACCEPT (50 in the code)
  AcceptExMayFail,  \* may AcceptEx fail at once, with no completion?
  MaxBacklog,       \* bound: clients waiting in the listen queue
  MaxRepost,        \* bound: no client connects beyond this repost count
  MaxStarts         \* bound: calls of Start that succeed

ASSUME ConstantsAssumption ==
  /\ NULL \notin Buffers
  /\ IsFiniteSet(Buffers)
  /\ IsFiniteSet(Workers)
  /\ InitialAccepts \in Nat /\ MaxAccepts \in Nat /\ AcceptBatch \in Nat
  /\ InitialAccepts <= MaxAccepts
  /\ AcceptExMayFail \in BOOLEAN
  /\ MaxBacklog \in Nat /\ MaxRepost \in Nat /\ MaxStarts \in Nat

VARIABLES
  m_bServerStarted, m_bShutDown, mainPc, starts,      \* the owner's thread
  lpc, nIndex, nLimit, i, pBuffer, walked,            \* the listening thread
  wpc, wbuf,                                          \* the worker threads
  acceptEvent, fdAccept, repostEvent, m_nRepostCount, \* the two events
  pending, m_nPendingAcceptCount,                     \* m_pPendingAccepts
  io, aged, backlog, listening, portOpen, quits       \* sockets and the port

main     == <<m_bServerStarted, m_bShutDown, mainPc, starts>>
listener == <<lpc, nIndex, nLimit, i, pBuffer, walked>>
workers  == <<wpc, wbuf>>
events   == <<acceptEvent, fdAccept, repostEvent, m_nRepostCount>>
pool     == <<pending, m_nPendingAcceptCount>>
kernel   == <<io, aged, backlog, listening, portOpen, quits>>
vars     == <<main, listener, workers, events, pool, kernel>>

Completed == {"data", "zero", "error"}
IoStates  == {"free", "recorded", "posted", "connected", "dead"} \cup Completed

Held      == {wbuf[w] : w \in Workers} \* buffers a worker is handling
Posted    == {b \in Buffers : io[b] = "posted"}

-----------------------------------------------------------------------------
(* The server object as its constructor leaves it.                         *)

Init ==
  /\ m_bServerStarted = FALSE /\ m_bShutDown = FALSE
  /\ mainPc = "ready" /\ starts = 0
  /\ lpc = "none" /\ nIndex = "timeout" /\ nLimit = 0 /\ i = 0
  /\ pBuffer = NULL /\ walked = {}
  /\ wpc = [w \in Workers |-> "none"] /\ wbuf = [w \in Workers |-> NULL]
  /\ acceptEvent = FALSE /\ fdAccept = FALSE
  /\ repostEvent = FALSE /\ m_nRepostCount = 0
  /\ pending = {} /\ m_nPendingAcceptCount = 0
  /\ io = [b \in Buffers |-> "free"] /\ aged = {}
  /\ backlog = 0 /\ listening = FALSE /\ portOpen = FALSE /\ quits = 0

-----------------------------------------------------------------------------
(* The owner of the server: Start and Shutdown.  Shutdown sets the flag    *)
(* and the event in two steps and then joins the listening thread.         *)

\* A second Start finds the events, the repost count and the pending list
\* as the previous session left them; requests of an earlier port that are
\* still recorded will never be dequeued.  A Start over workers that
\* outlived the 5 s of the previous shutdown is left out.
Start ==
  /\ mainPc = "ready" /\ ~m_bServerStarted /\ starts < MaxStarts
  /\ \A w \in Workers : wpc[w] \in {"none", "exited"}
  /\ m_bServerStarted' = TRUE /\ m_bShutDown' = FALSE /\ starts' = starts + 1
  /\ listening' = TRUE /\ portOpen' = TRUE /\ quits' = 0
  /\ io' = [b \in Buffers |-> IF io[b] = "free" THEN "free" ELSE "dead"]
  /\ lpc' = "initial" /\ i' = 0
  /\ UNCHANGED <<mainPc, nIndex, nLimit, pBuffer, walked, workers, events,
                 pool, aged, backlog>>

StartBindFails ==
  /\ mainPc = "ready" /\ ~m_bServerStarted /\ starts < MaxStarts
  /\ m_bShutDown' = FALSE
  /\ UNCHANGED <<m_bServerStarted, mainPc, starts, listener, workers, events,
                 pool, kernel>>

ShutdownSetFlag ==
  /\ mainPc = "ready" /\ m_bServerStarted
  /\ m_bShutDown' = TRUE /\ mainPc' = "setEvent"
  /\ UNCHANGED <<m_bServerStarted, starts, listener, workers, events, pool,
                 kernel>>

ShutdownSetEvent ==
  /\ mainPc = "setEvent"
  /\ acceptEvent' = TRUE /\ mainPc' = "join"
  /\ UNCHANGED <<m_bServerStarted, m_bShutDown, starts, listener, workers,
                 fdAccept, repostEvent, m_nRepostCount, pool, kernel>>

ShutdownJoined ==
  /\ mainPc = "join" /\ lpc = "exited"
  /\ m_bServerStarted' = FALSE /\ mainPc' = "ready"
  /\ UNCHANGED <<m_bShutDown, starts, listener, workers, events, pool, kernel>>

-----------------------------------------------------------------------------
(* Posting accepts.                                                        *)

\* Mutant: the head of an empty list is not set.
InsertNotFirst(b) ==
  /\ pending' = IF pending = {} THEN {} ELSE pending \cup {b}
  /\ m_nPendingAcceptCount' = m_nPendingAcceptCount + 1

InsertPendingAccept(b) ==
  /\ pending' = pending \cup {b}
  /\ m_nPendingAcceptCount' = m_nPendingAcceptCount + 1

\* Mutant: the count is not updated.
RemoveUncounted(b) ==
  /\ pending' = pending \ {b}
  /\ UNCHANGED m_nPendingAcceptCount

\* The count only changes when the buffer is found in the list.
RemovePendingAccept(b) ==
  /\ pending' = pending \ {b}
  /\ m_nPendingAcceptCount' =
       IF b \in pending THEN m_nPendingAcceptCount - 1
                        ELSE m_nPendingAcceptCount

\* AcceptEx takes a waiting client or waits for one.  Clients still in the
\* listen queue signal FD_ACCEPT again.  When it fails, PostAccept returns
\* FALSE and both callers ignore the result.
PostAccept(b) ==
  \/ /\ backlog = 0
     /\ io' = [io EXCEPT ![b] = "posted"]
     /\ UNCHANGED <<backlog, acceptEvent, fdAccept>>
  \/ /\ backlog > 0
     /\ io' = [io EXCEPT ![b] = "connected"]
     /\ backlog' = backlog - 1
     /\ fdAccept' = (fdAccept \/ backlog' > 0)
     /\ acceptEvent' = (acceptEvent \/ backlog' > 0)
  \/ /\ AcceptExMayFail
     /\ io' = [io EXCEPT ![b] = "dead"]
     /\ UNCHANGED <<backlog, acceptEvent, fdAccept>>

\* AllocateBuffer takes a buffer of the heap or, as HeapAlloc may at any time,
\* fails (the alternatives to this one at its two callers); the buffer is
\* recorded first and posted afterwards, with workers running in between.
AllocateAndRecord ==
  \E b \in Buffers :
    /\ io[b] = "free"
    /\ io' = [io EXCEPT ![b] = "recorded"] /\ pBuffer' = b
    /\ InsertPendingAccept(b)

-----------------------------------------------------------------------------
(* The listening thread.                                                   *)

ListenerInitialRecord ==
  /\ lpc = "initial" /\ i < InitialAccepts
  /\ AllocateAndRecord
  /\ lpc' = "initialPost"
  /\ UNCHANGED <<main, nIndex, nLimit, i, walked, workers, events, aged,
                 backlog, listening, portOpen, quits>>

ListenerInitialPost ==
  /\ lpc = "initialPost"
  /\ PostAccept(pBuffer)
  /\ lpc' = "initial" /\ i' = i + 1 /\ pBuffer' = NULL
  /\ UNCHANGED <<main, nIndex, nLimit, walked, workers, repostEvent,
                 m_nRepostCount, pool, aged, listening, portOpen, quits>>

\* AllocateBuffer returned NULL: the thread ends before creating a worker.
ListenerInitialGivesUp ==
  /\ lpc = "initial" /\ i < InitialAccepts
  /\ lpc' = "exited"
  /\ UNCHANGED <<main, nIndex, nLimit, i, pBuffer, walked, workers, events,
                 pool, kernel>>

ListenerSpawn ==
  /\ lpc = "initial" /\ i = InitialAccepts
  /\ wpc' = [w \in Workers |-> "get"]
  /\ lpc' = "wait" /\ i' = 0
  /\ UNCHANGED <<main, nIndex, nLimit, pBuffer, walked, wbuf, events, pool,
                 kernel>>

\* Mutant: the thread waits without a timeout.
ListenerWaitForever ==
  /\ lpc = "wait" /\ (acceptEvent \/ repostEvent)
  /\ nIndex' = IF acceptEvent THEN "accept" ELSE "repost"
  /\ acceptEvent' = FALSE
  /\ repostEvent' = (acceptEvent /\ repostEvent)
  /\ lpc' = "check"
  /\ UNCHANGED <<main, nLimit, i, pBuffer, walked, workers, fdAccept,
                 m_nRepostCount, pool, kernel>>

\* WSAWaitForMultipleEvents: the signalled event of the lowest index, which
\* it resets, or a timeout after 60 s with neither signalled.  A worker that
\* exits would signal too, but none does before it is told to quit.
ListenerWait ==
  /\ lpc = "wait"
  /\ nIndex' = CASE acceptEvent -> "accept"
                 [] ~acceptEvent /\ repostEvent -> "repost"
                 [] OTHER -> "timeout"
  /\ acceptEvent' = FALSE
  /\ repostEvent' = (acceptEvent /\ repostEvent)
  /\ lpc' = "check"
  /\ UNCHANGED <<main, nLimit, i, pBuffer, walked, workers, fdAccept,
                 m_nRepostCount, pool, kernel>>

\* The branch on m_bShutDown and on the index of the event.
ListenerCheck ==
  /\ lpc = "check"
  /\ lpc' = IF m_bShutDown THEN "closeListen" ELSE nIndex
  /\ nIndex' = "timeout"
  /\ UNCHANGED <<main, nLimit, i, pBuffer, walked, workers, events,
                 pool, kernel>>

\* WSAEnumNetworkEvents clears the recorded event and resets m_hAcceptEvent.
ListenerEnumEvents ==
  /\ lpc = "accept"
  /\ nLimit' = IF fdAccept THEN AcceptBatch ELSE 0
  /\ fdAccept' = FALSE /\ acceptEvent' = FALSE
  /\ lpc' = "loop" /\ i' = 0
  /\ UNCHANGED <<main, nIndex, pBuffer, walked, workers, repostEvent,
                 m_nRepostCount, pool, kernel>>

ListenerTakeRepost ==
  /\ lpc = "repost"
  /\ nLimit' = m_nRepostCount /\ m_nRepostCount' = 0
  /\ lpc' = "loop" /\ i' = 0
  /\ UNCHANGED <<main, nIndex, pBuffer, walked, workers, acceptEvent,
                 fdAccept, repostEvent, pool, kernel>>

\* Mutant: the count is compared with <=.
ListenerLoopOneMore ==
  /\ lpc = "loop"
  /\ IF i < nLimit /\ m_nPendingAcceptCount <= MaxAccepts
       THEN /\ i' = i + 1 /\ UNCHANGED nLimit
            /\ \/ AllocateAndRecord /\ lpc' = "post"
               \/ UNCHANGED <<lpc, pBuffer, pool, io>>
       ELSE /\ lpc' = "wait" /\ i' = 0 /\ nLimit' = 0
            /\ UNCHANGED <<pBuffer, pool, io>>
  /\ UNCHANGED <<main, nIndex, walked, workers, events, aged, backlog,
                 listening, portOpen, quits>>

\* One round of the posting loop: i++ < nLimit && count < m_nMaxAccepts.  A
\* NULL buffer uses up the round.
ListenerLoop ==
  /\ lpc = "loop"
  /\ IF i < nLimit /\ m_nPendingAcceptCount < MaxAccepts
       THEN /\ i' = i + 1 /\ UNCHANGED nLimit
            /\ \/ AllocateAndRecord /\ lpc' = "post"
               \/ UNCHANGED <<lpc, pBuffer, pool, io>>
       ELSE /\ lpc' = "wait" /\ i' = 0 /\ nLimit' = 0
            /\ UNCHANGED <<pBuffer, pool, io>>
  /\ UNCHANGED <<main, nIndex, walked, workers, events, aged, backlog,
                 listening, portOpen, quits>>

ListenerPost ==
  /\ lpc = "post"
  /\ PostAccept(pBuffer)
  /\ lpc' = "loop" /\ pBuffer' = NULL
  /\ UNCHANGED <<main, nIndex, nLimit, i, walked, workers, repostEvent,
                 m_nRepostCount, pool, aged, listening, portOpen, quits>>

-----------------------------------------------------------------------------
(* The timeout branch: a walk over m_pPendingAccepts without its lock.     *)

\* pBuffer = pBuffer->pNext.  In the list some node not walked yet follows,
\* if there is one.  A node that a worker has removed still links to what
\* followed it, or, once released, into the free list.
WalkTo(b) ==
  /\ walked' = walked \cup {b}
  /\ pBuffer' \in CASE b \notin pending -> (Buffers \ walked') \cup {NULL}
                    [] pending \subseteq walked' -> {NULL}
                    [] OTHER -> pending \ walked'

ListenerWalkStart ==
  /\ lpc = "timeout"
  /\ pBuffer' \in IF pending = {} THEN {NULL} ELSE pending
  /\ walked' = {} /\ lpc' = "walk"
  /\ UNCHANGED <<main, nIndex, nLimit, i, workers, events, pool, kernel>>

\* getsockopt(SO_CONNECT_TIME) on the socket of the node.
ListenerWalkCheck ==
  /\ lpc = "walk"
  /\ IF pBuffer = NULL
       THEN lpc' = "wait" /\ walked' = {} /\ UNCHANGED pBuffer
       ELSE IF pBuffer \in aged
              THEN lpc' = "kick" /\ UNCHANGED <<pBuffer, walked>>
              ELSE lpc' = lpc /\ WalkTo(pBuffer)
  /\ UNCHANGED <<main, nIndex, nLimit, i, workers, events, pool, kernel>>

\* closesocket(pBuffer->sClient).  A pending AcceptEx fails; if it completed
\* with data meanwhile, an accepted client loses its socket; a buffer that
\* was released meanwhile no longer names a socket.
ListenerWalkKick ==
  /\ lpc = "kick"
  /\ io' = IF io[pBuffer] = "connected"
             THEN [io EXCEPT ![pBuffer] = "error"] ELSE io
  /\ aged' = aged \ {pBuffer}
  /\ lpc' = "walk" /\ WalkTo(pBuffer)
  /\ UNCHANGED <<main, nIndex, nLimit, i, workers, events, pool, backlog,
                 listening, portOpen, quits>>

-----------------------------------------------------------------------------
(* The shutdown branch of the listening thread.                            *)

\* Closing the listening socket fails every accept that is still pending.
ListenerCloseListen ==
  /\ lpc = "closeListen"
  /\ listening' = FALSE /\ backlog' = 0
  /\ io' = [b \in Buffers |-> IF io[b] \in {"posted", "connected"}
                                THEN "error" ELSE io[b]]
  /\ lpc' = "quit"
  /\ UNCHANGED <<main, nIndex, nLimit, i, pBuffer, walked, workers, events,
                 pool, aged, portOpen, quits>>

\* Mutant: the loop that posts the quit packets runs once too often.
ListenerPostQuitsOneMore ==
  /\ lpc = "quit"
  /\ quits' = Cardinality(Workers) + 1
  /\ lpc' = "joinWorkers"
  /\ UNCHANGED <<main, nIndex, nLimit, i, pBuffer, walked, workers, events,
                 pool, io, aged, backlog, listening, portOpen>>

ListenerPostQuits ==
  /\ lpc = "quit"
  /\ quits' = Cardinality(Workers)
  /\ lpc' = "joinWorkers"
  /\ UNCHANGED <<main, nIndex, nLimit, i, pBuffer, walked, workers, events,
                 pool, io, aged, backlog, listening, portOpen>>

\* WaitForMultipleObjects returns when every worker has exited and also, its
\* result unread, after 5 s.
ListenerJoinWorkers ==
  /\ lpc = "joinWorkers"
  /\ lpc' = "free"
  /\ UNCHANGED <<main, nIndex, nLimit, i, pBuffer, walked, workers, events,
                 pool, kernel>>

ListenerFree ==
  /\ lpc = "free"
  /\ portOpen' = FALSE
  /\ lpc' = "exited"
  /\ UNCHANGED <<main, nIndex, nLimit, i, pBuffer, walked, workers, events,
                 pool, io, aged, backlog, listening, quits>>

-----------------------------------------------------------------------------
(* A worker thread.                                                        *)

\* GetQueuedCompletionStatus hands out the packet of a completed accept (its
\* key is 0), and HandleIO removes the buffer from the pending list.
WorkerGet(w, b) ==
  /\ wpc[w] = "get" /\ portOpen
  /\ io[b] \in Completed /\ b \notin Held
  /\ wbuf' = [wbuf EXCEPT ![w] = b]
  /\ RemovePendingAccept(b)
  /\ wpc' = [wpc EXCEPT ![w] = "handle"]
  /\ UNCHANGED <<main, listener, events, kernel>>

WorkerQuit(w) ==
  /\ wpc[w] = "get" /\ portOpen /\ quits > 0
  /\ quits' = quits - 1
  /\ wpc' = [wpc EXCEPT ![w] = "exited"]
  /\ UNCHANGED <<main, listener, wbuf, events, pool, io, aged, backlog,
                 listening, portOpen>>

\* HandleIO on a completed accept: on an error the buffer is released and
\* nothing else happens; otherwise the listening thread is asked for another
\* accept, whatever became of the connection.
WorkerHandle(w) ==
  /\ wpc[w] = "handle"
  /\ wpc' = [wpc EXCEPT ![w] =
               IF io[wbuf[w]] = "error" THEN "get" ELSE "increment"]
  /\ io' = [io EXCEPT ![wbuf[w]] = "free"]
  /\ aged' = aged \ {wbuf[w]}
  /\ wbuf' = [wbuf EXCEPT ![w] = NULL]
  /\ UNCHANGED <<main, listener, events, pool, backlog, listening, portOpen,
                 quits>>

WorkerIncrement(w) ==
  /\ wpc[w] = "increment"
  /\ m_nRepostCount' = m_nRepostCount + 1
  /\ wpc' = [wpc EXCEPT ![w] = "setEvent"]
  /\ UNCHANGED <<main, listener, wbuf, acceptEvent, fdAccept, repostEvent,
                 pool, kernel>>

\* Mutant: PulseEvent, which only wakes a thread that is waiting already.
WorkerPulseEvent(w) ==
  /\ wpc[w] = "setEvent"
  /\ repostEvent' = (lpc = "wait")
  /\ wpc' = [wpc EXCEPT ![w] = "get"]
  /\ UNCHANGED <<main, listener, wbuf, acceptEvent, fdAccept, m_nRepostCount,
                 pool, kernel>>

WorkerSetEvent(w) ==
  /\ wpc[w] = "setEvent"
  /\ repostEvent' = TRUE
  /\ wpc' = [wpc EXCEPT ![w] = "get"]
  /\ UNCHANGED <<main, listener, wbuf, acceptEvent, fdAccept, m_nRepostCount,
                 pool, kernel>>

-----------------------------------------------------------------------------
(* The clients and the passing of time.                                    *)

\* A client connects: to a posted AcceptEx, or into the listen queue, which
\* signals FD_ACCEPT.
ClientConnect ==
  /\ listening /\ m_nRepostCount <= MaxRepost
  /\ \/ \E b \in Posted :
          /\ io' = [io EXCEPT ![b] = "connected"]
          /\ UNCHANGED <<backlog, acceptEvent, fdAccept>>
     \/ /\ Posted = {} /\ backlog < MaxBacklog
        /\ backlog' = backlog + 1
        /\ acceptEvent' = TRUE /\ fdAccept' = TRUE
        /\ UNCHANGED io
  /\ UNCHANGED <<main, listener, workers, repostEvent, m_nRepostCount, pool,
                 aged, listening, portOpen, quits>>

\* The connected client sends its first bytes, closes, or resets.
ClientAct(b) ==
  /\ io[b] = "connected"
  /\ \E r \in Completed : io' = [io EXCEPT ![b] = r]
  /\ UNCHANGED <<main, listener, workers, events, pool, aged, backlog,
                 listening, portOpen, quits>>

\* Two minutes have passed since the client connected.
ClientAges(b) ==
  /\ io[b] = "connected" /\ b \notin aged
  /\ aged' = aged \cup {b}
  /\ UNCHANGED <<main, listener, workers, events, pool, io, backlog,
                 listening, portOpen, quits>>

-----------------------------------------------------------------------------
Owner == \/ Start \/ StartBindFails
         \/ ShutdownSetFlag \/ ShutdownSetEvent \/ ShutdownJoined

Listener ==
  \/ ListenerInitialRecord \/ ListenerInitialPost
  \/ ListenerInitialGivesUp \/ ListenerSpawn
  \/ ListenerWait \/ ListenerCheck \/ ListenerEnumEvents
  \/ ListenerTakeRepost \/ ListenerLoop \/ ListenerPost
  \/ ListenerWalkStart \/ ListenerWalkCheck \/ ListenerWalkKick
  \/ ListenerCloseListen \/ ListenerPostQuits
  \/ ListenerJoinWorkers \/ ListenerFree

Worker(w) ==
  \/ \E b \in Buffers : WorkerGet(w, b)
  \/ WorkerQuit(w) \/ WorkerHandle(w)
  \/ WorkerIncrement(w) \/ WorkerSetEvent(w)

Client == ClientConnect \/ \E b \in Buffers : ClientAct(b) \/ ClientAges(b)

Next == Owner \/ Listener \/ (\E w \in Workers : Worker(w)) \/ Client

Spec == Init /\ [][Next]_vars

\* Scheduling: every thread that can run eventually does, and the clock
\* moves (a silent client ages).  Clients and the owner owe nothing, except
\* that the owner does not stop in the middle of Shutdown.
Fairness ==
  /\ WF_vars(Listener)
  /\ \A w \in Workers : WF_vars(Worker(w))
  /\ \A b \in Buffers : WF_vars(ClientAges(b))
  /\ WF_vars(ShutdownSetEvent) /\ WF_vars(ShutdownJoined)

FairSpec == Spec /\ Fairness

-----------------------------------------------------------------------------
ListenerPcs ==
  {"none", "initial", "initialPost", "wait", "check", "accept", "repost",
   "timeout", "loop", "post", "walk", "kick", "closeListen", "quit", "joinWorkers", "free", "exited"}

WorkerPcs == {"none", "get", "handle", "increment", "setEvent",
              "exited"}

\* Every variable keeps its type: the counts stay natural numbers and the
\* thread that handles or walks a buffer names one that exists.
TypeOK ==
  /\ m_bServerStarted \in BOOLEAN /\ m_bShutDown \in BOOLEAN
  /\ mainPc \in {"ready", "setEvent", "join"} /\ starts \in 0..MaxStarts
  /\ lpc \in ListenerPcs
  /\ nIndex \in {"accept", "repost", "timeout"}
  /\ nLimit \in Nat /\ i \in Nat
  /\ pBuffer \in Buffers \cup {NULL} /\ walked \subseteq Buffers
  /\ wpc \in [Workers -> WorkerPcs] /\ wbuf \in [Workers -> Buffers \cup {NULL}]
  /\ acceptEvent \in BOOLEAN /\ fdAccept \in BOOLEAN
  /\ repostEvent \in BOOLEAN /\ m_nRepostCount \in Nat
  /\ pending \subseteq Buffers /\ m_nPendingAcceptCount \in Int
  /\ io \in [Buffers -> IoStates] /\ aged \subseteq Buffers
  /\ backlog \in 0..MaxBacklog
  /\ listening \in BOOLEAN /\ portOpen \in BOOLEAN
  /\ quits \in 0..Cardinality(Workers)

\* m_nPendingAcceptCount is the length of the m_pPendingAccepts list, through
\* every interleaving of InsertPendingAccept in the listening thread with
\* RemovePendingAccept in the workers.
PendingCountExact == m_nPendingAcceptCount = Cardinality(pending)

\* The posting loop reads m_nPendingAcceptCount without its lock, yet no more
\* than m_nMaxAccepts requests are ever recorded; a further session can add
\* its initial accepts to what the earlier ones left in the list.
PendingBounded ==
  m_nPendingAcceptCount <=
    MaxAccepts + (IF starts > 1 THEN (starts - 1) * InitialAccepts ELSE 0)

\* No outstanding accept escapes the list: an AcceptEx that can still complete
\* is recorded, and so is a completed one until its worker has removed it.
OutstandingRecorded ==
  \A b \in Buffers :
    /\ io[b] \in {"recorded", "posted", "connected"} => b \in pending
    /\ io[b] \in Completed =>
         b \in pending \/ \E w \in Workers : wbuf[w] = b /\ wpc[w] = "handle"

\* No wakeup is lost between the workers' InterlockedIncrement/SetEvent and
\* the listening thread's wait/InterlockedExchange: while the first session
\* serves, a repost that was counted is signalled, about to be signalled, or
\* about to be taken.
NoLostRepost ==
  starts = 1 /\ m_bServerStarted /\ ~m_bShutDown /\ m_nRepostCount > 0 =>
    \/ repostEvent
    \/ \E w \in Workers : wpc[w] = "setEvent"
    \/ lpc = "repost"
    \/ lpc = "check" /\ nIndex = "repost"

\* Shutdown returns: the listening thread ends although the event Shutdown
\* sets may be swallowed by the WSAEnumNetworkEvents of the round under way.
ShutdownCompletes == mainPc = "join" ~> ~m_bServerStarted
=============================================================================
