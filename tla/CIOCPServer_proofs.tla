------------------------- MODULE CIOCPServer_proofs -------------------------
(***************************************************************************)
(* The two parts of CIOCPServer with a model and a proof of their own that *)
(* share no state: its pool of accepts, for any number of buffers,         *)
(* workers, clients, accepts and restarts, and the order of the reads of   *)
(* a connection, for any number of reads in flight.                        *)
(*                                                                         *)
(* The invariant of the accepts, IInv, says where each buffer is: a free   *)
(* one is not recorded, one a worker handles is out of the list and with   *)
(* that worker only, and every accept that can still complete is recorded. *)
(* The invariant of the reads, ReadsInv, says where each read is that was  *)
(* completed and not yet delivered.  It holds for any number of workers    *)
(* until two of them are busy with a read at the same time; with fewer     *)
(* reads than sequence numbers they are then delivered in the order of     *)
(* posting, whichever worker dequeues them and in whatever order.          *)
(***************************************************************************)
EXTENDS AcceptPool, ReadOrder, FiniteSetTheorems, SequenceTheorems,
        WellFoundedInduction, TLAPS

-----------------------------------------------------------------------------
(* The pool of accepts.                                                    *)

\* A worker has a buffer exactly while it handles it, and has it alone.
HandledInv ==
  /\ \A w \in Workers :
       IF wpc[w] = "handle"
         THEN /\ wbuf[w] \in Buffers /\ io[wbuf[w]] \in Completed
              /\ wbuf[w] \notin pending
         ELSE wbuf[w] = NULL
  /\ \A v, w \in Workers :
       v # w /\ wpc[v] = "handle" /\ wpc[w] = "handle" => wbuf[v] # wbuf[w]

\* A free buffer is in no list.
FreeInv == \A b \in Buffers : io[b] = "free" => b \notin pending

\* What the listening thread knows of the buffer it is about to post or kick.
ListenerInv ==
  /\ lpc \in {"initialPost", "post"} =>
       pBuffer \in Buffers /\ io[pBuffer] = "recorded" /\ pBuffer \in pending
  /\ lpc = "kick" => pBuffer \in Buffers
  /\ lpc \in {"initial", "initialPost"} =>
       \A w \in Workers : wpc[w] \in {"none", "exited"}

BufferInv == PendingCountExact /\ OutstandingRecorded /\ HandledInv /\ FreeInv

IInv == TypeOK /\ BufferInv /\ ListenerInv

-----------------------------------------------------------------------------
(* Type correctness.                                                       *)

\* The constructor leaves every variable in its type.
LEMMA InitTypeOK == Init => TypeOK
<1>1. Cardinality(Workers) \in Nat
  BY ConstantsAssumption, FS_CardinalityType
<1> SUFFICES ASSUME Init PROVE TypeOK
  OBVIOUS
<1>2. /\ wpc \in [Workers -> WorkerPcs] /\ wbuf \in [Workers -> Buffers \cup {NULL}]
      /\ io \in [Buffers -> IoStates]
  BY DEF Init, WorkerPcs, IoStates
<1>3. /\ m_bServerStarted \in BOOLEAN /\ m_bShutDown \in BOOLEAN
      /\ acceptEvent \in BOOLEAN /\ fdAccept \in BOOLEAN
      /\ repostEvent \in BOOLEAN /\ listening \in BOOLEAN
      /\ portOpen \in BOOLEAN
  BY Zenon DEF Init
<1> QED
  BY <1>1, <1>2, <1>3, ConstantsAssumption DEF Init, TypeOK, ListenerPcs

\* Every step keeps the types.
LEMMA NextTypeOK == TypeOK /\ ListenerInv /\ [Next]_vars => TypeOK'
<1> SUFFICES ASSUME TypeOK, ListenerInv, [Next]_vars PROVE TypeOK'
  OBVIOUS
<1> USE ConstantsAssumption DEF TypeOK, ListenerPcs, WorkerPcs, IoStates,
      Completed, main, listener, workers, events, pool, kernel
<1>0. Cardinality(Workers) \in Nat
  BY FS_CardinalityType
<1>1. CASE Start
  <2>1. io' \in [Buffers -> IoStates]
    BY <1>1 DEF Start
  <2>2. /\ m_bServerStarted' \in BOOLEAN /\ m_bShutDown' \in BOOLEAN
        /\ listening' \in BOOLEAN /\ portOpen' \in BOOLEAN
    BY <1>1, Zenon DEF Start
  <2>3. starts' \in 0..MaxStarts /\ quits' \in 0..Cardinality(Workers)
    BY <1>0, <1>1 DEF Start
  <2> QED
    BY <1>1, <2>1, <2>2, <2>3 DEF Start
<1>2. CASE StartBindFails
  <2>1. m_bShutDown' \in BOOLEAN
    BY <1>2, Zenon DEF StartBindFails
  <2> QED
    BY <1>2, <2>1 DEF StartBindFails
<1>3. CASE ShutdownSetFlag
  BY <1>0, <1>3 DEF ShutdownSetFlag
<1>4. CASE ShutdownSetEvent
  BY <1>0, <1>4 DEF ShutdownSetEvent
<1>5. CASE ShutdownJoined
  BY <1>0, <1>5 DEF ShutdownJoined
<1>6. CASE ListenerInitialRecord
  BY <1>0, <1>6 DEF ListenerInitialRecord, AllocateAndRecord, InsertPendingAccept
<1>7. CASE ListenerInitialPost
  <2>1. io' \in [Buffers -> IoStates] /\ backlog' \in 0..MaxBacklog
    BY <1>7 DEF ListenerInitialPost, PostAccept
  <2>2. acceptEvent' \in BOOLEAN /\ fdAccept' \in BOOLEAN
    BY <1>7 DEF ListenerInitialPost, PostAccept
  <2> QED
    BY <1>7, <2>1, <2>2 DEF ListenerInitialPost
<1>8. CASE ListenerInitialGivesUp
  BY <1>0, <1>8 DEF ListenerInitialGivesUp
<1>9. CASE ListenerSpawn
  BY <1>0, <1>9 DEF ListenerSpawn
<1>10. CASE ListenerWait
  BY <1>0, <1>10 DEF ListenerWait
<1>11. CASE ListenerCheck
  BY <1>0, <1>11 DEF ListenerCheck
<1>12. CASE ListenerEnumEvents
  BY ZenonT(30), <1>0, <1>12 DEF ListenerEnumEvents
<1>13. CASE ListenerTakeRepost
  BY <1>0, <1>13 DEF ListenerTakeRepost
<1>14. CASE ListenerLoop
  BY <1>0, <1>14 DEF ListenerLoop, AllocateAndRecord, InsertPendingAccept
<1>15. CASE ListenerPost
  <2>1. io' \in [Buffers -> IoStates] /\ backlog' \in 0..MaxBacklog
    BY <1>15 DEF ListenerPost, PostAccept
  <2>2. acceptEvent' \in BOOLEAN /\ fdAccept' \in BOOLEAN
    BY <1>15 DEF ListenerPost, PostAccept
  <2> QED
    BY <1>15, <2>1, <2>2 DEF ListenerPost
<1>16. CASE ListenerWalkStart
  BY <1>0, <1>16 DEF ListenerWalkStart
<1>17. CASE ListenerWalkCheck
  BY <1>0, <1>17 DEF ListenerWalkCheck, WalkTo
<1>18. CASE ListenerWalkKick
  BY <1>0, <1>18 DEF ListenerWalkKick, WalkTo, ListenerInv
<1>19. CASE ListenerCloseListen
  <2>1. io' \in [Buffers -> IoStates]
    BY <1>19 DEF ListenerCloseListen
  <2>2. listening' \in BOOLEAN
    BY <1>19, Zenon DEF ListenerCloseListen
  <2>3. backlog' \in 0..MaxBacklog
    BY <1>19 DEF ListenerCloseListen
  <2> QED
    BY <1>19, <2>1, <2>2, <2>3 DEF ListenerCloseListen
<1>20. CASE ListenerPostQuits
  BY <1>0, <1>20 DEF ListenerPostQuits
<1>21. CASE ListenerJoinWorkers
  BY <1>0, <1>21 DEF ListenerJoinWorkers
<1>22. CASE ListenerFree
  BY ZenonT(30), <1>0, <1>22 DEF ListenerFree
<1>23. ASSUME NEW w \in Workers, NEW b \in Buffers, WorkerGet(w, b) PROVE TypeOK'
  BY <1>23 DEF WorkerGet, RemovePendingAccept
<1>24. ASSUME NEW w \in Workers, WorkerQuit(w) PROVE TypeOK'
  BY <1>0, <1>24 DEF WorkerQuit
<1>25. ASSUME NEW w \in Workers, WorkerHandle(w) PROVE TypeOK'
  <2>1. io' \in [Buffers -> IoStates]
    BY <1>25 DEF WorkerHandle
  <2> QED
    BY <1>0, <1>25, <2>1 DEF WorkerHandle
<1>26. ASSUME NEW w \in Workers, WorkerIncrement(w) PROVE TypeOK'
  BY <1>0, <1>26 DEF WorkerIncrement
<1>27. ASSUME NEW w \in Workers, WorkerSetEvent(w) PROVE TypeOK'
  BY <1>0, <1>27 DEF WorkerSetEvent
<1>28. CASE ClientConnect
  <2>1. io' \in [Buffers -> IoStates] /\ backlog' \in 0..MaxBacklog
    BY <1>28 DEF ClientConnect, Posted
  <2>2. acceptEvent' \in BOOLEAN /\ fdAccept' \in BOOLEAN
    BY <1>28 DEF ClientConnect
  <2> QED
    BY <1>28, <2>1, <2>2 DEF ClientConnect
<1>29. ASSUME NEW b \in Buffers, ClientAct(b) \/ ClientAges(b) PROVE TypeOK'
  BY <1>29 DEF ClientAct, ClientAges
<1>30. CASE UNCHANGED vars
  BY <1>30 DEF vars
<1> QED
  BY <1>1, <1>2, <1>3, <1>4, <1>5, <1>6, <1>7, <1>8, <1>9, <1>10, <1>11,
     <1>12, <1>13, <1>14, <1>15, <1>16, <1>17, <1>18, <1>19, <1>20, <1>21,
     <1>22, <1>23, <1>24, <1>25, <1>26, <1>27, <1>28, <1>29, <1>30
  DEF Next, Owner, Listener, Worker, Client

-----------------------------------------------------------------------------
(* Where the buffers are.                                                  *)

\* InsertPendingAccept counts a buffer that was not in the list.
LEMMA InsertCounts ==
  ASSUME TypeOK, PendingCountExact, NEW b \in Buffers, b \notin pending,
         InsertPendingAccept(b)
  PROVE  PendingCountExact'
<1>1. IsFiniteSet(pending)
  BY ConstantsAssumption, FS_Subset DEF TypeOK
<1>2. Cardinality(pending \cup {b}) = Cardinality(pending) + 1
  BY <1>1, FS_AddElement
<1> QED
  BY <1>2 DEF InsertPendingAccept, PendingCountExact

\* RemovePendingAccept counts down exactly when it finds the buffer.
LEMMA RemoveCounts ==
  ASSUME TypeOK, PendingCountExact, NEW b \in Buffers, RemovePendingAccept(b)
  PROVE  PendingCountExact'
<1>1. IsFiniteSet(pending)
  BY ConstantsAssumption, FS_Subset DEF TypeOK
<1>2. CASE b \in pending
  <2>1. Cardinality(pending \ {b}) = Cardinality(pending) - 1
    BY <1>1, <1>2, FS_RemoveElement
  <2> QED
    BY <1>2, <2>1 DEF RemovePendingAccept, PendingCountExact
<1>3. CASE b \notin pending
  <2>1. pending \ {b} = pending
    BY <1>3
  <2> QED
    BY <1>3, <2>1 DEF RemovePendingAccept, PendingCountExact
<1> QED
  BY <1>2, <1>3

\* A step that touches neither a buffer, nor the list, nor a worker.
LEMMA BufferFrame ==
  ASSUME BufferInv, UNCHANGED <<io, pending, m_nPendingAcceptCount, wpc, wbuf>>
  PROVE  BufferInv'
BY DEF BufferInv, PendingCountExact, OutstandingRecorded, HandledInv, FreeInv

\* A step that moves buffers between states without touching the list or a
\* worker, takes none out of the free list or puts one in, leaves a completed
\* one completed, and lets only recorded ones be posted or complete.
LEMMA BufferMoves ==
  ASSUME BufferInv, TypeOK, UNCHANGED <<pending, m_nPendingAcceptCount, wpc, wbuf>>,
         \A b \in Buffers :
           /\ io'[b] = "free" <=> io[b] = "free"
           /\ io[b] \in Completed => io'[b] \in Completed
           /\ b \notin pending => io'[b] = io[b]
  PROVE  BufferInv'
<1>1. PendingCountExact'
  BY DEF BufferInv, PendingCountExact
<1>2. HandledInv'
  BY DEF BufferInv, HandledInv
<1>3. FreeInv'
  BY DEF BufferInv, FreeInv
<1>4. OutstandingRecorded'
  BY DEF BufferInv, OutstandingRecorded
<1> QED
  BY <1>1, <1>2, <1>3, <1>4 DEF BufferInv

\* AllocateBuffer and InsertPendingAccept by the listening thread.
LEMMA RecordKeepsBuffers ==
  ASSUME IInv, AllocateAndRecord, UNCHANGED workers
  PROVE  BufferInv'
<1>1. PICK b \in Buffers : /\ io[b] = "free"
                           /\ io' = [io EXCEPT ![b] = "recorded"]
                           /\ InsertPendingAccept(b)
  BY DEF AllocateAndRecord
<1>2. b \notin pending
  BY <1>1 DEF IInv, BufferInv, FreeInv
<1>3. PendingCountExact'
  BY <1>1, <1>2, InsertCounts DEF IInv, BufferInv
<1>4. pending' = pending \cup {b} /\ wpc' = wpc /\ wbuf' = wbuf
  BY <1>1 DEF InsertPendingAccept, workers
<1>5. /\ io'[b] = "recorded"
      /\ \A c \in Buffers : c # b => io'[c] = io[c]
  BY <1>1 DEF IInv, TypeOK
<1>6. OutstandingRecorded'
  BY <1>4, <1>5 DEF IInv, BufferInv, OutstandingRecorded, Completed
<1>7. \A w \in Workers : wpc[w] = "handle" => wbuf[w] # b
  BY <1>1 DEF IInv, BufferInv, HandledInv, Completed
<1>8. HandledInv'
  BY <1>4, <1>5, <1>7 DEF IInv, BufferInv, HandledInv
<1>9. FreeInv'
  BY <1>4, <1>5 DEF IInv, BufferInv, FreeInv
<1> QED
  BY <1>3, <1>6, <1>8, <1>9 DEF BufferInv

\* PostAccept on the buffer that was recorded.
LEMMA PostKeepsBuffers ==
  ASSUME IInv, lpc \in {"initialPost", "post"}, PostAccept(pBuffer),
         UNCHANGED <<workers, pool>>
  PROVE  BufferInv'
<1>1. pBuffer \in Buffers /\ io[pBuffer] = "recorded" /\ pBuffer \in pending
  BY DEF IInv, ListenerInv
<1>2. /\ io'[pBuffer] \in {"posted", "connected", "dead"}
      /\ \A b \in Buffers : b # pBuffer => io'[b] = io[b]
  BY <1>1 DEF IInv, TypeOK, PostAccept
<1>3. \A b \in Buffers :
        /\ io'[b] = "free" <=> io[b] = "free"
        /\ io[b] \in Completed => io'[b] \in Completed
        /\ b \notin pending => io'[b] = io[b]
  BY <1>1, <1>2 DEF Completed
<1> QED
  BY <1>3, BufferMoves DEF IInv, workers, pool

\* The constructor's state.
LEMMA InitBuffers == Init => BufferInv /\ ListenerInv
<1>1. Cardinality({}) = 0
  BY FS_EmptySet
<1> QED
  BY <1>1 DEF Init, BufferInv, PendingCountExact, OutstandingRecorded, HandledInv,
              FreeInv, ListenerInv, Completed

\* A worker that waits, counts or signals changes no buffer; it holds none
\* before and after.
LEMMA WorkerMoves ==
  ASSUME IInv, NEW w \in Workers, NEW l \in WorkerPcs \ {"handle"},
         wpc[w] # "handle", wpc' = [wpc EXCEPT ![w] = l],
         UNCHANGED <<wbuf, io, pending, m_nPendingAcceptCount>>
  PROVE  BufferInv'
<1>1. \A v \in Workers : wpc'[v] = "handle" <=> wpc[v] = "handle"
  BY DEF IInv, TypeOK
<1>2. PendingCountExact'
  BY DEF IInv, BufferInv, PendingCountExact
<1>3. OutstandingRecorded'
  BY <1>1 DEF IInv, BufferInv, OutstandingRecorded
<1>4. HandledInv'
  BY <1>1 DEF IInv, BufferInv, HandledInv
<1>5. FreeInv'
  BY DEF IInv, BufferInv, FreeInv
<1> QED
  BY <1>2, <1>3, <1>4, <1>5 DEF BufferInv

\* RemovePendingAccept takes a completed accept out of the list.
LEMMA GetKeepsBuffers ==
  ASSUME IInv, NEW w \in Workers, NEW b \in Buffers, WorkerGet(w, b)
  PROVE  BufferInv'
<1>1. /\ wpc[w] = "get" /\ io[b] \in Completed /\ io' = io
      /\ pending' = pending \ {b}
      /\ \A v \in Workers : wbuf[v] # b
  BY DEF WorkerGet, RemovePendingAccept, Held, kernel
<1>2. /\ wpc'[w] = "handle" /\ wbuf'[w] = b
      /\ \A v \in Workers : v # w => wpc'[v] = wpc[v] /\ wbuf'[v] = wbuf[v]
  BY DEF IInv, TypeOK, WorkerGet
<1>3. PendingCountExact'
  BY RemoveCounts DEF IInv, BufferInv, WorkerGet
<1>4. OutstandingRecorded'
  <2> SUFFICES ASSUME NEW c \in Buffers
               PROVE  /\ io'[c] \in {"recorded", "posted", "connected"} => c \in pending'
                      /\ io'[c] \in Completed => \/ c \in pending'
                           \/ \E v \in Workers : wbuf'[v] = c /\ wpc'[v] = "handle"
    BY DEF OutstandingRecorded
  <2>1. CASE c = b
    BY <2>1, <1>1, <1>2 DEF Completed
  <2>2. CASE c # b
    <3>1. c \in pending' <=> c \in pending
      BY <2>2, <1>1
    <3>2. \A v \in Workers : wpc[v] = "handle" => v # w
      BY <1>1
    <3> QED
      BY <3>1, <3>2, <1>1, <1>2 DEF IInv, BufferInv, OutstandingRecorded
  <2> QED
    BY <2>1, <2>2
<1>5. HandledInv'
  <2>1. \A v \in Workers : v # w /\ wpc[v] = "handle" => wbuf[v] # b
    BY <1>1
  <2>2. \A v \in Workers :
          IF wpc'[v] = "handle"
            THEN /\ wbuf'[v] \in Buffers /\ io'[wbuf'[v]] \in Completed
                 /\ wbuf'[v] \notin pending'
            ELSE wbuf'[v] = NULL
    BY <1>1, <1>2 DEF IInv, BufferInv, HandledInv
  <2>3. \A u, v \in Workers :
          u # v /\ wpc'[u] = "handle" /\ wpc'[v] = "handle" => wbuf'[u] # wbuf'[v]
    BY <1>2, <2>1 DEF IInv, BufferInv, HandledInv
  <2> QED
    BY <2>2, <2>3 DEF HandledInv
<1>6. FreeInv'
  BY <1>1 DEF IInv, BufferInv, FreeInv
<1> QED
  BY <1>3, <1>4, <1>5, <1>6 DEF BufferInv

\* HandleIO releases the buffer of a completed accept.
LEMMA HandleKeepsBuffers ==
  ASSUME IInv, NEW w \in Workers, WorkerHandle(w)
  PROVE  BufferInv'
<1> DEFINE b == wbuf[w]
<1>1. /\ wpc[w] = "handle" /\ b \in Buffers /\ io[b] \in Completed
      /\ b \notin pending
      /\ \A v \in Workers : v # w /\ wpc[v] = "handle" => wbuf[v] # b
  BY DEF IInv, BufferInv, HandledInv, WorkerHandle
<1>2. /\ pending' = pending /\ m_nPendingAcceptCount' = m_nPendingAcceptCount
      /\ io'[b] = "free" /\ \A c \in Buffers : c # b => io'[c] = io[c]
  BY <1>1 DEF IInv, TypeOK, WorkerHandle, pool
<1>3. /\ wpc'[w] # "handle" /\ wbuf'[w] = NULL
      /\ \A v \in Workers : v # w => wpc'[v] = wpc[v] /\ wbuf'[v] = wbuf[v]
  BY DEF IInv, TypeOK, WorkerHandle
<1> HIDE DEF b
<1>4. PendingCountExact'
  BY <1>2 DEF IInv, BufferInv, PendingCountExact
<1>5. OutstandingRecorded'
  <2> SUFFICES ASSUME NEW c \in Buffers
               PROVE  /\ io'[c] \in {"recorded", "posted", "connected"} => c \in pending'
                      /\ io'[c] \in Completed => \/ c \in pending'
                           \/ \E v \in Workers : wbuf'[v] = c /\ wpc'[v] = "handle"
    BY DEF OutstandingRecorded
  <2>1. CASE c = b
    BY <2>1, <1>2 DEF Completed
  <2>2. CASE c # b
    <3>1. \A v \in Workers : wbuf[v] = c => v # w
      BY <2>2 DEF b
    <3> QED
      BY <2>2, <3>1, <1>2, <1>3 DEF IInv, BufferInv, OutstandingRecorded
  <2> QED
    BY <2>1, <2>2
<1>6. HandledInv'
  BY <1>1, <1>2, <1>3 DEF IInv, BufferInv, HandledInv
<1>7. FreeInv'
  BY <1>1, <1>2 DEF IInv, BufferInv, FreeInv
<1> QED
  BY <1>4, <1>5, <1>6, <1>7 DEF BufferInv

\* Start gives up the buffers of the previous session: those still recorded
\* wait for a port that is gone.
LEMMA StartKeepsBuffers ==
  ASSUME IInv, Start
  PROVE  BufferInv'
<1>1. /\ \A w \in Workers : wpc[w] # "handle"
      /\ pending' = pending /\ m_nPendingAcceptCount' = m_nPendingAcceptCount
      /\ wpc' = wpc /\ wbuf' = wbuf
      /\ \A b \in Buffers : io'[b] = IF io[b] = "free" THEN "free" ELSE "dead"
  BY DEF Start, workers, pool
<1>2. PendingCountExact'
  BY <1>1 DEF IInv, BufferInv, PendingCountExact
<1>3. OutstandingRecorded'
  BY <1>1 DEF OutstandingRecorded, Completed
<1>4. HandledInv'
  BY <1>1 DEF IInv, BufferInv, HandledInv
<1>5. FreeInv'
  BY <1>1 DEF IInv, BufferInv, FreeInv
<1> QED
  BY <1>2, <1>3, <1>4, <1>5 DEF BufferInv

\* ListenerSpawn starts the workers, none of which holds a buffer.
LEMMA SpawnKeepsBuffers ==
  ASSUME IInv, ListenerSpawn
  PROVE  BufferInv'
<1>1. \A w \in Workers : wpc[w] # "handle" /\ wpc'[w] = "get"
  BY DEF IInv, ListenerInv, ListenerSpawn
<1>2. /\ pending' = pending /\ m_nPendingAcceptCount' = m_nPendingAcceptCount
      /\ wbuf' = wbuf /\ io' = io
  BY DEF ListenerSpawn, pool, kernel
<1>3. PendingCountExact'
  BY <1>2 DEF IInv, BufferInv, PendingCountExact
<1>4. OutstandingRecorded'
  BY <1>1, <1>2 DEF IInv, BufferInv, OutstandingRecorded
<1>5. HandledInv'
  BY <1>1, <1>2 DEF IInv, BufferInv, HandledInv
<1>6. FreeInv'
  BY <1>2 DEF IInv, BufferInv, FreeInv
<1> QED
  BY <1>3, <1>4, <1>5, <1>6 DEF BufferInv

\* Every step keeps the buffers in their places.
LEMMA NextBuffers == IInv /\ [Next]_vars => BufferInv'
<1> SUFFICES ASSUME IInv, [Next]_vars PROVE BufferInv'
  OBVIOUS
<1> USE DEF main, listener, workers, events, pool, kernel
<1>0. BufferInv /\ TypeOK
  BY DEF IInv
<1>1. CASE StartBindFails
  BY <1>0, <1>1, BufferFrame DEF StartBindFails
<1>2. CASE ShutdownSetFlag
  BY <1>0, <1>2, BufferFrame DEF ShutdownSetFlag
<1>3. CASE ShutdownSetEvent
  BY <1>0, <1>3, BufferFrame DEF ShutdownSetEvent
<1>4. CASE ShutdownJoined
  BY <1>0, <1>4, BufferFrame DEF ShutdownJoined
<1>5. CASE ListenerInitialGivesUp
  BY <1>0, <1>5, BufferFrame DEF ListenerInitialGivesUp
<1>6. CASE ListenerWait
  BY <1>0, <1>6, BufferFrame DEF ListenerWait
<1>7. CASE ListenerCheck
  BY <1>0, <1>7, BufferFrame DEF ListenerCheck
<1>8. CASE ListenerEnumEvents
  BY <1>0, <1>8, BufferFrame DEF ListenerEnumEvents
<1>9. CASE ListenerTakeRepost
  BY <1>0, <1>9, BufferFrame DEF ListenerTakeRepost
<1>10. CASE ListenerWalkStart
  BY <1>0, <1>10, BufferFrame DEF ListenerWalkStart
<1>11. CASE ListenerWalkCheck
  BY <1>0, <1>11, BufferFrame DEF ListenerWalkCheck
<1>12. CASE ListenerPostQuits
  BY <1>0, <1>12, BufferFrame DEF ListenerPostQuits
<1>13. CASE ListenerJoinWorkers
  BY <1>0, <1>13, BufferFrame DEF ListenerJoinWorkers
<1>14. CASE ListenerFree
  BY <1>0, <1>14, BufferFrame DEF ListenerFree
<1>15. CASE Start
  BY <1>15, StartKeepsBuffers
<1>16. CASE ListenerSpawn
  BY <1>16, SpawnKeepsBuffers
<1>17. CASE ListenerInitialRecord
  BY <1>17, RecordKeepsBuffers DEF ListenerInitialRecord
<1>18. CASE ListenerInitialPost
  BY <1>18, PostKeepsBuffers DEF ListenerInitialPost
<1>19. CASE ListenerLoop
  <2>1. CASE AllocateAndRecord
    BY <1>19, <2>1, RecordKeepsBuffers DEF ListenerLoop
  <2>2. CASE ~ AllocateAndRecord
    BY <1>0, <1>19, <2>2, BufferFrame DEF ListenerLoop
  <2> QED
    BY <2>1, <2>2
<1>20. CASE ListenerPost
  BY <1>20, PostKeepsBuffers DEF ListenerPost
<1>21. CASE ListenerWalkKick
  <2>1. \A b \in Buffers :
          /\ io'[b] = "free" <=> io[b] = "free"
          /\ io[b] \in Completed => io'[b] \in Completed
          /\ b \notin pending => io'[b] = io[b]
    BY <1>0, <1>21 DEF ListenerWalkKick, TypeOK, Completed, BufferInv, OutstandingRecorded
  <2> QED
    BY <1>0, <1>21, <2>1, BufferMoves DEF ListenerWalkKick
<1>22. CASE ListenerCloseListen
  <2>1. \A b \in Buffers :
          /\ io'[b] = "free" <=> io[b] = "free"
          /\ io[b] \in Completed => io'[b] \in Completed
          /\ b \notin pending => io'[b] = io[b]
    BY <1>0, <1>22 DEF ListenerCloseListen, Completed, BufferInv, OutstandingRecorded
  <2> QED
    BY <1>0, <1>22, <2>1, BufferMoves DEF ListenerCloseListen
<1>23. ASSUME NEW w \in Workers, NEW b \in Buffers, WorkerGet(w, b)
      PROVE  BufferInv'
  BY <1>23, GetKeepsBuffers
<1>24. ASSUME NEW w \in Workers, WorkerHandle(w) PROVE BufferInv'
  BY <1>24, HandleKeepsBuffers
<1>25. ASSUME NEW w \in Workers, WorkerQuit(w) PROVE BufferInv'
  <2>1. /\ wpc[w] # "handle" /\ wpc' = [wpc EXCEPT ![w] = "exited"]
        /\ UNCHANGED <<wbuf, io, pending, m_nPendingAcceptCount>>
    BY <1>25 DEF WorkerQuit
  <2>2. "exited" \in WorkerPcs \ {"handle"}
    BY DEF WorkerPcs
  <2> QED
    BY <2>1, <2>2, WorkerMoves
<1>26. ASSUME NEW w \in Workers, WorkerIncrement(w) PROVE BufferInv'
  <2>1. /\ wpc[w] # "handle" /\ wpc' = [wpc EXCEPT ![w] = "setEvent"]
        /\ UNCHANGED <<wbuf, io, pending, m_nPendingAcceptCount>>
    BY <1>26 DEF WorkerIncrement
  <2>2. "setEvent" \in WorkerPcs \ {"handle"}
    BY DEF WorkerPcs
  <2> QED
    BY <2>1, <2>2, WorkerMoves
<1>27. ASSUME NEW w \in Workers, WorkerSetEvent(w) PROVE BufferInv'
  <2>1. /\ wpc[w] # "handle" /\ wpc' = [wpc EXCEPT ![w] = "get"]
        /\ UNCHANGED <<wbuf, io, pending, m_nPendingAcceptCount>>
    BY <1>27 DEF WorkerSetEvent
  <2>2. "get" \in WorkerPcs \ {"handle"}
    BY DEF WorkerPcs
  <2> QED
    BY <2>1, <2>2, WorkerMoves
<1>28. CASE ClientConnect
  <2>1. \A b \in Buffers :
          /\ io'[b] = "free" <=> io[b] = "free"
          /\ io[b] \in Completed => io'[b] \in Completed
          /\ b \notin pending => io'[b] = io[b]
    BY <1>0, <1>28
    DEF ClientConnect, Posted, TypeOK, Completed, BufferInv, OutstandingRecorded
  <2> QED
    BY <1>0, <1>28, <2>1, BufferMoves DEF ClientConnect
<1>29. ASSUME NEW b \in Buffers, ClientAct(b) PROVE BufferInv'
  <2>1. \A c \in Buffers :
          /\ io'[c] = "free" <=> io[c] = "free"
          /\ io[c] \in Completed => io'[c] \in Completed
          /\ c \notin pending => io'[c] = io[c]
    BY <1>0, <1>29
    DEF ClientAct, TypeOK, Completed, BufferInv, OutstandingRecorded
  <2> QED
    BY <1>0, <1>29, <2>1, BufferMoves DEF ClientAct
<1>30. ASSUME NEW b \in Buffers, ClientAges(b) PROVE BufferInv'
  BY <1>0, <1>30, BufferFrame DEF ClientAges
<1>31. CASE UNCHANGED vars
  BY <1>0, <1>31, BufferFrame DEF vars
<1> QED
  BY <1>1, <1>2, <1>3, <1>4, <1>5, <1>6, <1>7, <1>8, <1>9, <1>10, <1>11,
     <1>12, <1>13, <1>14, <1>15, <1>16, <1>17, <1>18, <1>19, <1>20, <1>21,
     <1>22, <1>23, <1>24, <1>25, <1>26, <1>27, <1>28, <1>29, <1>30, <1>31
  DEF Next, Owner, Listener, Worker, Client

-----------------------------------------------------------------------------
(* What the listening thread knows.                                        *)

\* Only the listening thread and Start move lpc and pBuffer; a worker or a
\* client that runs in between leaves a recorded buffer recorded, and no
\* worker runs before the initial accepts are posted.
LEMMA NextListenerInv == IInv /\ [Next]_vars => ListenerInv'
<1> SUFFICES ASSUME IInv, [Next]_vars PROVE ListenerInv'
  OBVIOUS
<1> USE DEF main, listener, workers, events, pool, kernel
<1>0. TypeOK /\ ListenerInv /\ HandledInv
  BY DEF IInv, BufferInv
<1>1. CASE StartBindFails
  BY <1>0, <1>1 DEF StartBindFails, ListenerInv
<1>2. CASE ShutdownSetFlag
  BY <1>0, <1>2 DEF ShutdownSetFlag, ListenerInv
<1>3. CASE ShutdownSetEvent
  BY <1>0, <1>3 DEF ShutdownSetEvent, ListenerInv
<1>4. CASE ShutdownJoined
  BY <1>0, <1>4 DEF ShutdownJoined, ListenerInv
<1>5. CASE Start
  BY <1>0, <1>5 DEF Start, ListenerInv
<1>6. CASE ListenerInitialRecord
  BY <1>0, <1>6 DEF ListenerInitialRecord, AllocateAndRecord, InsertPendingAccept,
                 ListenerInv, TypeOK
<1>7. CASE ListenerInitialPost
  BY <1>0, <1>7 DEF ListenerInitialPost, ListenerInv
<1>8. CASE ListenerInitialGivesUp
  BY <1>8 DEF ListenerInitialGivesUp, ListenerInv
<1>9. CASE ListenerSpawn
  BY <1>9 DEF ListenerSpawn, ListenerInv
<1>10. CASE ListenerWait
  BY <1>10 DEF ListenerWait, ListenerInv
<1>11. CASE ListenerEnumEvents
  BY <1>11 DEF ListenerEnumEvents, ListenerInv
<1>12. CASE ListenerTakeRepost
  BY <1>12 DEF ListenerTakeRepost, ListenerInv
<1>13. CASE ListenerPost
  BY <1>13 DEF ListenerPost, ListenerInv
<1>14. CASE ListenerWalkStart
  BY <1>14 DEF ListenerWalkStart, ListenerInv
<1>15. CASE ListenerWalkKick
  BY <1>15 DEF ListenerWalkKick, ListenerInv
<1>16. CASE ListenerCloseListen
  BY <1>16 DEF ListenerCloseListen, ListenerInv
<1>17. CASE ListenerPostQuits
  BY <1>17 DEF ListenerPostQuits, ListenerInv
<1>18. CASE ListenerJoinWorkers
  BY <1>18 DEF ListenerJoinWorkers, ListenerInv
<1>19. CASE ListenerFree
  BY <1>19 DEF ListenerFree, ListenerInv
<1>20. CASE ListenerCheck
  BY <1>0, <1>20 DEF ListenerCheck, ListenerInv, TypeOK
<1>21. CASE ListenerLoop
  BY <1>0, <1>21 DEF ListenerLoop, AllocateAndRecord, InsertPendingAccept,
                 ListenerInv, TypeOK
<1>22. CASE ListenerWalkCheck
  BY <1>0, <1>22 DEF ListenerWalkCheck, ListenerInv, TypeOK
<1>23. ASSUME NEW w \in Workers, NEW b \in Buffers, WorkerGet(w, b)
      PROVE  ListenerInv'
  <2>1. /\ lpc' = lpc /\ pBuffer' = pBuffer /\ io' = io /\ io[b] # "recorded"
        /\ wpc[w] = "get" /\ pending' = pending \ {b}
    BY <1>23 DEF WorkerGet, RemovePendingAccept, Completed
  <2>2. lpc \notin {"initial", "initialPost"}
    BY <1>0, <2>1 DEF ListenerInv
  <2> QED
    BY <1>0, <2>1, <2>2 DEF ListenerInv
<1>24. ASSUME NEW w \in Workers, WorkerHandle(w) PROVE ListenerInv'
  <2>1. /\ lpc' = lpc /\ pBuffer' = pBuffer /\ pending' = pending
        /\ wpc[w] = "handle" /\ io[wbuf[w]] # "recorded"
        /\ \A b \in Buffers : b # wbuf[w] => io'[b] = io[b]
    BY <1>0, <1>24 DEF WorkerHandle, HandledInv, Completed, TypeOK
  <2>2. lpc \notin {"initial", "initialPost"}
    BY <1>0, <2>1 DEF ListenerInv
  <2> QED
    BY <1>0, <2>1, <2>2 DEF ListenerInv
<1>25. ASSUME NEW w \in Workers, WorkerQuit(w) PROVE ListenerInv'
  <2>1. lpc \notin {"initial", "initialPost"}
    BY <1>0, <1>25 DEF ListenerInv, WorkerQuit
  <2> QED
    BY <1>0, <2>1, <1>25 DEF ListenerInv, WorkerQuit
<1>26. ASSUME NEW w \in Workers, WorkerIncrement(w) PROVE ListenerInv'
  <2>1. lpc \notin {"initial", "initialPost"}
    BY <1>0, <1>26 DEF ListenerInv, WorkerIncrement
  <2> QED
    BY <1>0, <2>1, <1>26 DEF ListenerInv, WorkerIncrement
<1>27. ASSUME NEW w \in Workers, WorkerSetEvent(w) PROVE ListenerInv'
  <2>1. lpc \notin {"initial", "initialPost"}
    BY <1>0, <1>27 DEF ListenerInv, WorkerSetEvent
  <2> QED
    BY <1>0, <2>1, <1>27 DEF ListenerInv, WorkerSetEvent
<1>28. CASE ClientConnect
  BY <1>0, <1>28 DEF ClientConnect, Posted, ListenerInv, TypeOK
<1>29. ASSUME NEW b \in Buffers, ClientAct(b) \/ ClientAges(b) PROVE ListenerInv'
  BY <1>0, <1>29 DEF ClientAct, ClientAges, ListenerInv, TypeOK
<1>30. CASE UNCHANGED vars
  BY <1>0, <1>30 DEF vars, ListenerInv
<1> QED
  BY <1>1, <1>2, <1>3, <1>4, <1>5, <1>6, <1>7, <1>8, <1>9, <1>10, <1>11,
     <1>12, <1>13, <1>14, <1>15, <1>16, <1>17, <1>18, <1>19, <1>20, <1>21,
     <1>22, <1>23, <1>24, <1>25, <1>26, <1>27, <1>28, <1>29, <1>30
  DEF Next, Owner, Listener, Worker, Client

\* The invariant holds in every state.
LEMMA Invariance == Spec => []IInv
<1>1. Init => IInv
  BY InitTypeOK, InitBuffers DEF IInv
<1>2. IInv /\ [Next]_vars => IInv'
  BY NextTypeOK, NextBuffers, NextListenerInv DEF IInv
<1> QED
  BY <1>1, <1>2, PTL DEF Spec

\* Every variable keeps its type, for any number of buffers, workers and
\* sessions.
THEOREM AcceptPoolTypes == Spec => []TypeOK
<1>1. IInv => TypeOK
  BY DEF IInv
<1> QED
  BY <1>1, Invariance, PTL

\* InsertPendingAccept and RemovePendingAccept keep m_nPendingAcceptCount equal
\* to the length of the list they change.
THEOREM PendingCount == Spec => []PendingCountExact
<1>1. IInv => PendingCountExact
  BY DEF IInv, BufferInv
<1> QED
  BY <1>1, Invariance, PTL

\* An AcceptEx that may still complete is in the list of pending accepts until
\* the worker that dequeues it has removed it.
THEOREM NoAcceptEscapes == Spec => []OutstandingRecorded
<1>1. IInv => OutstandingRecorded
  BY DEF IInv, BufferInv
<1> QED
  BY <1>1, Invariance, PTL

-----------------------------------------------------------------------------
(* The size of the pool.                                                   *)

\* The requests recorded at the end of k sessions.
Bound(k) == IF k = 0 THEN 0 ELSE MaxAccepts + (k - 1) * InitialAccepts

\* The pending count, with what the initial loop has added so far.
BoundInv ==
  /\ lpc # "none" => starts > 0
  /\ m_nPendingAcceptCount <= Bound(starts)
  /\ lpc = "initial" => /\ i <= InitialAccepts
                        /\ m_nPendingAcceptCount <= Bound(starts - 1) + i
  /\ lpc = "initialPost" =>
       /\ i + 1 <= InitialAccepts
       /\ m_nPendingAcceptCount <= Bound(starts - 1) + i + 1

\* Each session may add its initial accepts, and MaxAccepts is allowed in any.
LEMMA BoundGrows ==
  ASSUME NEW k \in Nat
  PROVE  /\ Bound(k) \in Nat
         /\ Bound(k) + InitialAccepts <= Bound(k + 1)
         /\ MaxAccepts <= Bound(k + 1)
<1>1. InitialAccepts \in Nat /\ MaxAccepts \in Nat /\ InitialAccepts <= MaxAccepts
  BY ConstantsAssumption
<1>2. CASE k = 0
  BY <1>1, <1>2 DEF Bound
<1>3. CASE k # 0
  <2>1. k - 1 \in Nat
    BY <1>3
  <2>2. (k - 1) * InitialAccepts \in Nat
    BY <2>1, <1>1
  <2>3. (k + 1 - 1) * InitialAccepts = (k - 1) * InitialAccepts + InitialAccepts
    BY <1>1, <2>1
  <2>4. /\ Bound(k) = MaxAccepts + (k - 1) * InitialAccepts
        /\ Bound(k + 1) = MaxAccepts + (k + 1 - 1) * InitialAccepts
    BY <1>3 DEF Bound
  <2> HIDE DEF Bound
  <2> QED
    BY <1>1, <2>2, <2>3, <2>4
<1> QED
  BY <1>2, <1>3

\* A step that leaves the listening thread and the sessions alone and does not
\* raise the count.
LEMMA BoundFrame ==
  ASSUME TypeOK, BoundInv, UNCHANGED <<lpc, i, starts>>,
         m_nPendingAcceptCount' <= m_nPendingAcceptCount,
         m_nPendingAcceptCount' \in Int
  PROVE  BoundInv'
<1>1. starts \in Nat /\ i \in Nat /\ m_nPendingAcceptCount \in Int
  BY DEF TypeOK
<1>2. Bound(starts) \in Int
  BY <1>1, BoundGrows
<1>3. starts > 0 => Bound(starts - 1) \in Int
  <2> SUFFICES ASSUME starts > 0 PROVE Bound(starts - 1) \in Int
    OBVIOUS
  <2>1. starts - 1 \in Nat
    BY <1>1
  <2> QED
    BY <2>1, BoundGrows
<1> QED
  BY <1>1, <1>2, <1>3 DEF BoundInv

\* Every step keeps the count within what the sessions so far allow.
LEMMA NextBound == TypeOK /\ BoundInv /\ [Next]_vars => BoundInv'
<1> SUFFICES ASSUME TypeOK, BoundInv, [Next]_vars PROVE BoundInv'
  OBVIOUS
<1> USE DEF main, listener, workers, events, pool, kernel
<1>0. /\ starts \in Nat /\ i \in Nat /\ m_nPendingAcceptCount \in Int
      /\ InitialAccepts \in Nat /\ MaxAccepts \in Nat
      /\ nIndex \in {"accept", "repost", "timeout"}
  BY ConstantsAssumption DEF TypeOK
<1>a. Bound(starts) \in Nat /\ Bound(starts) + InitialAccepts <= Bound(starts + 1)
  BY <1>0, BoundGrows
<1>b. starts > 0 =>
        /\ Bound(starts - 1) \in Nat
        /\ Bound(starts - 1) + InitialAccepts <= Bound(starts)
        /\ MaxAccepts <= Bound(starts)
  <2> SUFFICES ASSUME starts > 0
               PROVE  /\ Bound(starts - 1) \in Nat
                      /\ Bound(starts - 1) + InitialAccepts <= Bound(starts)
                      /\ MaxAccepts <= Bound(starts)
    OBVIOUS
  <2>1. starts - 1 \in Nat /\ (starts - 1) + 1 = starts
    BY <1>0
  <2>2. /\ Bound(starts - 1) \in Nat
        /\ Bound(starts - 1) + InitialAccepts <= Bound((starts - 1) + 1)
        /\ MaxAccepts <= Bound((starts - 1) + 1)
    BY <2>1, BoundGrows
  <2> QED
    BY <2>1, <2>2
<1>1. CASE Start
  <2>1. /\ lpc' = "initial" /\ i' = 0 /\ starts' = starts + 1
        /\ m_nPendingAcceptCount' = m_nPendingAcceptCount
    BY <1>1 DEF Start
  <2>2. starts' - 1 = starts /\ starts' > 0
    BY <2>1, <1>0
  <2>3. Bound(starts') = Bound(starts + 1) /\ Bound(starts' - 1) = Bound(starts)
    BY <2>1, <2>2
  <2>4. Bound(starts + 1) \in Nat
    BY <1>0, BoundGrows
  <2> QED
    BY <1>0, <1>a, <2>1, <2>2, <2>3, <2>4 DEF BoundInv
<1>2. CASE ListenerInitialRecord
  <2>1. /\ lpc = "initial" /\ lpc' = "initialPost" /\ i' = i /\ starts' = starts
        /\ m_nPendingAcceptCount' = m_nPendingAcceptCount + 1
        /\ i < InitialAccepts
    BY <1>2 DEF ListenerInitialRecord, AllocateAndRecord, InsertPendingAccept
  <2> QED
    BY <1>0, <1>a, <1>b, <2>1 DEF BoundInv
<1>3. CASE ListenerInitialPost
  <2>1. /\ lpc = "initialPost" /\ lpc' = "initial" /\ i' = i + 1
        /\ starts' = starts /\ m_nPendingAcceptCount' = m_nPendingAcceptCount
    BY <1>3 DEF ListenerInitialPost
  <2> QED
    BY <1>0, <1>a, <1>b, <2>1 DEF BoundInv
<1>4. CASE ListenerLoop
  <2>1. /\ lpc = "loop" /\ lpc' \in {"loop", "post", "wait"} /\ starts' = starts
        /\ \/ m_nPendingAcceptCount' = m_nPendingAcceptCount
           \/ /\ m_nPendingAcceptCount < MaxAccepts
              /\ m_nPendingAcceptCount' = m_nPendingAcceptCount + 1
    BY <1>4 DEF ListenerLoop, AllocateAndRecord, InsertPendingAccept
  <2> QED
    BY <1>0, <1>a, <1>b, <2>1 DEF BoundInv
<1>5. CASE ListenerInitialGivesUp
  BY <1>0, <1>5 DEF ListenerInitialGivesUp, BoundInv
<1>6. CASE ListenerSpawn
  BY <1>0, <1>6 DEF ListenerSpawn, BoundInv
<1>7. CASE ListenerWait
  BY <1>0, <1>7 DEF ListenerWait, BoundInv
<1>8. CASE ListenerCheck
  BY <1>0, <1>8 DEF ListenerCheck, BoundInv
<1>9. CASE ListenerEnumEvents
  BY <1>0, <1>9 DEF ListenerEnumEvents, BoundInv
<1>10. CASE ListenerTakeRepost
  BY <1>0, <1>10 DEF ListenerTakeRepost, BoundInv
<1>11. CASE ListenerPost
  BY <1>0, <1>11 DEF ListenerPost, BoundInv
<1>12. CASE ListenerWalkStart
  BY <1>0, <1>12 DEF ListenerWalkStart, BoundInv
<1>13. CASE ListenerWalkCheck
  BY <1>0, <1>13 DEF ListenerWalkCheck, BoundInv
<1>14. CASE ListenerWalkKick
  BY <1>0, <1>14 DEF ListenerWalkKick, BoundInv
<1>15. CASE ListenerCloseListen
  BY <1>0, <1>15 DEF ListenerCloseListen, BoundInv
<1>16. CASE ListenerPostQuits
  BY <1>0, <1>16 DEF ListenerPostQuits, BoundInv
<1>17. CASE ListenerJoinWorkers
  BY <1>0, <1>17 DEF ListenerJoinWorkers, BoundInv
<1>18. CASE ListenerFree
  BY <1>0, <1>18 DEF ListenerFree, BoundInv
<1>19. CASE StartBindFails
  BY <1>0, <1>19, BoundFrame DEF StartBindFails
<1>20. CASE ShutdownSetFlag
  BY <1>0, <1>20, BoundFrame DEF ShutdownSetFlag
<1>21. CASE ShutdownSetEvent
  BY <1>0, <1>21, BoundFrame DEF ShutdownSetEvent
<1>22. CASE ShutdownJoined
  BY <1>0, <1>22, BoundFrame DEF ShutdownJoined
<1>23. ASSUME NEW w \in Workers, NEW b \in Buffers, WorkerGet(w, b)
      PROVE  BoundInv'
  BY <1>0, <1>23, BoundFrame DEF WorkerGet, RemovePendingAccept
<1>24. ASSUME NEW w \in Workers, WorkerQuit(w) PROVE BoundInv'
  BY <1>0, <1>24, BoundFrame DEF WorkerQuit
<1>25. ASSUME NEW w \in Workers, WorkerHandle(w) PROVE BoundInv'
  BY <1>0, <1>25, BoundFrame DEF WorkerHandle
<1>26. ASSUME NEW w \in Workers, WorkerIncrement(w) PROVE BoundInv'
  BY <1>0, <1>26, BoundFrame DEF WorkerIncrement
<1>27. ASSUME NEW w \in Workers, WorkerSetEvent(w) PROVE BoundInv'
  BY <1>0, <1>27, BoundFrame DEF WorkerSetEvent
<1>28. CASE ClientConnect
  BY <1>0, <1>28, BoundFrame DEF ClientConnect
<1>29. ASSUME NEW b \in Buffers, ClientAct(b) \/ ClientAges(b) PROVE BoundInv'
  BY <1>0, <1>29, BoundFrame DEF ClientAct, ClientAges
<1>30. CASE UNCHANGED vars
  BY <1>0, <1>30, BoundFrame DEF vars
<1> QED
  BY <1>1, <1>2, <1>3, <1>4, <1>5, <1>6, <1>7, <1>8, <1>9, <1>10, <1>11,
     <1>12, <1>13, <1>14, <1>15, <1>16, <1>17, <1>18, <1>19, <1>20, <1>21,
     <1>22, <1>23, <1>24, <1>25, <1>26, <1>27, <1>28, <1>29, <1>30
  DEF Next, Owner, Listener, Worker, Client

\* The posting loop of the listening thread tests m_nPendingAcceptCount against
\* m_nMaxAccepts without the lock, and still never records more requests, in
\* the first session; each restart adds at most its initial accepts.
THEOREM PendingAcceptsBounded == Spec => []PendingBounded
<1>1. Init => BoundInv
  BY DEF Init, BoundInv, Bound
<1>2. TypeOK /\ BoundInv => PendingBounded
  <2> SUFFICES ASSUME TypeOK, BoundInv PROVE PendingBounded
    OBVIOUS
  <2>1. /\ starts \in Nat /\ m_nPendingAcceptCount \in Int
        /\ InitialAccepts \in Nat /\ MaxAccepts \in Nat
    BY ConstantsAssumption DEF TypeOK
  <2>2. CASE starts = 0
    BY <2>1, <2>2 DEF BoundInv, Bound, PendingBounded
  <2>3. CASE starts = 1
    <3>1. Bound(starts) = MaxAccepts
      BY <2>1, <2>3 DEF Bound
    <3> QED
      BY <2>1, <2>3, <3>1 DEF BoundInv, PendingBounded
  <2>4. CASE starts > 1
    BY <2>1, <2>4 DEF BoundInv, Bound, PendingBounded
  <2> QED
    BY <2>1, <2>2, <2>3, <2>4
<1> QED
  BY <1>1, <1>2, NextBound, AcceptPoolTypes, PTL DEF Spec

-----------------------------------------------------------------------------
(* No repost is lost.                                                      *)

\* Before the workers of the first session run nothing asks for a repost.
QuietInv ==
  /\ lpc # "none" => starts > 0
  /\ starts = 0 \/ (starts = 1 /\ lpc \in {"initial", "initialPost"}) =>
       m_nRepostCount = 0

RepostInv ==
  /\ QuietInv /\ NoLostRepost
  /\ starts = 0 => \A w \in Workers : wpc[w] = "none"

\* Every step keeps a counted repost on its way to the listening thread.
LEMMA NextRepost ==
  TypeOK /\ ListenerInv /\ RepostInv /\ [Next]_vars => RepostInv'
<1> SUFFICES ASSUME TypeOK, ListenerInv, RepostInv, [Next]_vars PROVE RepostInv'
  OBVIOUS
<1> USE DEF main, listener, workers, events, pool, kernel
<1>0. /\ starts \in Nat /\ m_nRepostCount \in Nat
      /\ nIndex \in {"accept", "repost", "timeout"}
      /\ wpc \in [Workers -> WorkerPcs]
      /\ m_bServerStarted \in BOOLEAN /\ m_bShutDown \in BOOLEAN
  BY DEF TypeOK
<1>1. CASE Start
  BY <1>0, <1>1 DEF Start, RepostInv, QuietInv, NoLostRepost
<1>2. CASE StartBindFails
  BY <1>0, <1>2 DEF StartBindFails, RepostInv, QuietInv, NoLostRepost
<1>3. CASE ShutdownSetFlag
  BY <1>0, <1>3 DEF ShutdownSetFlag, RepostInv, QuietInv, NoLostRepost
<1>4. CASE ShutdownSetEvent
  BY <1>0, <1>4 DEF ShutdownSetEvent, RepostInv, QuietInv, NoLostRepost
<1>5. CASE ShutdownJoined
  BY <1>0, <1>5 DEF ShutdownJoined, RepostInv, QuietInv, NoLostRepost
<1>6. CASE ListenerInitialRecord
  BY <1>0, <1>6 DEF ListenerInitialRecord, RepostInv, QuietInv, NoLostRepost
<1>7. CASE ListenerInitialPost
  BY <1>0, <1>7 DEF ListenerInitialPost, RepostInv, QuietInv, NoLostRepost, PostAccept
<1>8. CASE ListenerInitialGivesUp
  BY <1>0, <1>8 DEF ListenerInitialGivesUp, RepostInv, QuietInv, NoLostRepost
<1>9. CASE ListenerSpawn
  BY <1>0, <1>9 DEF ListenerSpawn, RepostInv, QuietInv, NoLostRepost
<1>10. CASE ListenerWait
  BY <1>0, <1>10 DEF ListenerWait, RepostInv, QuietInv, NoLostRepost
<1>11. CASE ListenerCheck
  BY <1>0, <1>11 DEF ListenerCheck, RepostInv, QuietInv, NoLostRepost
<1>12. CASE ListenerEnumEvents
  BY <1>0, <1>12 DEF ListenerEnumEvents, RepostInv, QuietInv, NoLostRepost
<1>13. CASE ListenerTakeRepost
  BY <1>0, <1>13 DEF ListenerTakeRepost, RepostInv, QuietInv, NoLostRepost
<1>14. CASE ListenerLoop
  BY <1>0, <1>14 DEF ListenerLoop, RepostInv, QuietInv, NoLostRepost, AllocateAndRecord
<1>15. CASE ListenerPost
  BY <1>0, <1>15 DEF ListenerPost, RepostInv, QuietInv, NoLostRepost, PostAccept
<1>16. CASE ListenerWalkStart
  BY <1>0, <1>16 DEF ListenerWalkStart, RepostInv, QuietInv, NoLostRepost
<1>17. CASE ListenerWalkCheck
  BY <1>0, <1>17 DEF ListenerWalkCheck, RepostInv, QuietInv, NoLostRepost
<1>18. CASE ListenerWalkKick
  BY <1>0, <1>18 DEF ListenerWalkKick, RepostInv, QuietInv, NoLostRepost
<1>19. CASE ListenerCloseListen
  BY <1>0, <1>19 DEF ListenerCloseListen, RepostInv, QuietInv, NoLostRepost
<1>20. CASE ListenerPostQuits
  BY <1>0, <1>20 DEF ListenerPostQuits, RepostInv, QuietInv, NoLostRepost
<1>21. CASE ListenerJoinWorkers
  BY <1>0, <1>21 DEF ListenerJoinWorkers, RepostInv, QuietInv, NoLostRepost
<1>22. CASE ListenerFree
  BY <1>0, <1>22 DEF ListenerFree, RepostInv, QuietInv, NoLostRepost
<1>23. ASSUME NEW w \in Workers, NEW b \in Buffers, WorkerGet(w, b)
      PROVE  RepostInv'
  BY <1>0, <1>23 DEF WorkerGet, RepostInv, QuietInv, NoLostRepost
<1>24. ASSUME NEW w \in Workers, WorkerQuit(w) PROVE RepostInv'
  BY <1>0, <1>24 DEF WorkerQuit, RepostInv, QuietInv, NoLostRepost, ListenerInv
<1>25. ASSUME NEW w \in Workers, WorkerHandle(w) PROVE RepostInv'
  BY <1>0, <1>25 DEF WorkerHandle, RepostInv, QuietInv, NoLostRepost, ListenerInv
<1>26. ASSUME NEW w \in Workers, WorkerIncrement(w) PROVE RepostInv'
  BY <1>0, <1>26 DEF WorkerIncrement, RepostInv, QuietInv, NoLostRepost, ListenerInv
<1>27. ASSUME NEW w \in Workers, WorkerSetEvent(w) PROVE RepostInv'
  BY <1>0, <1>27 DEF WorkerSetEvent, RepostInv, QuietInv, NoLostRepost, ListenerInv
<1>28. CASE ClientConnect
  BY <1>0, <1>28 DEF ClientConnect, RepostInv, QuietInv, NoLostRepost
<1>29. ASSUME NEW b \in Buffers, ClientAct(b) \/ ClientAges(b) PROVE RepostInv'
  BY <1>0, <1>29 DEF ClientAct, ClientAges, RepostInv, QuietInv, NoLostRepost
<1>30. CASE UNCHANGED vars
  BY <1>0, <1>30 DEF vars, RepostInv, QuietInv, NoLostRepost
<1> QED
  BY <1>1, <1>2, <1>3, <1>4, <1>5, <1>6, <1>7, <1>8, <1>9, <1>10, <1>11,
     <1>12, <1>13, <1>14, <1>15, <1>16, <1>17, <1>18, <1>19, <1>20, <1>21,
     <1>22, <1>23, <1>24, <1>25, <1>26, <1>27, <1>28, <1>29, <1>30
  DEF Next, Owner, Listener, Worker, Client

\* InterlockedIncrement before SetEvent in the workers, the wait before
\* InterlockedExchange in the listening thread: a repost that was counted is
\* always signalled, about to be signalled, or about to be taken.
THEOREM RepostsNotLost == Spec => []NoLostRepost
<1>1. Init => RepostInv
  BY DEF Init, RepostInv, QuietInv, NoLostRepost
<1>2. IInv => TypeOK /\ ListenerInv
  BY DEF IInv
<1>3. RepostInv => NoLostRepost
  BY DEF RepostInv
<1> QED
  BY <1>1, <1>2, <1>3, NextRepost, Invariance, PTL DEF Spec

-----------------------------------------------------------------------------
(* The order of the reads.                                                 *)

\* No sequence number is used twice: ULONG does not wrap.
NoWrap == MaxReads <= SeqModulus

\* The reads below Len(delivered) are done; every other read that was
\* completed is in one place: queued, parked (in increasing order), or with
\* the worker that is busy.
ListInv(s) ==
  /\ \A j \in DOMAIN s : s[j] >= Len(delivered) /\ s[j] < arrived
                         /\ s[j] \notin queued
  /\ \A j, k \in DOMAIN s : j < k => s[j] < s[k]

NothingDue == \A j \in DOMAIN pOutOfOrderReads : pOutOfOrderReads[j] # Len(delivered)

\* What a busy worker knows.
WorkerInv(w) ==
  /\ pc[w] \in {"compare", "insert", "deliver"} =>
       /\ p[w] >= Len(delivered) /\ p[w] < arrived /\ p[w] \notin queued
       /\ \A j \in DOMAIN pOutOfOrderReads : pOutOfOrderReads[j] # p[w]
  /\ pc[w] = "deliver" => p[w] = Len(delivered)
  /\ pc[w] = "pop" => /\ pOutOfOrderReads # <<>>
                      /\ p[w] = pOutOfOrderReads[1] /\ p[w] = Len(delivered)
  /\ pc[w] \in {"compare", "insert"} => NothingDue
  /\ pc[w] = "advance" =>
       /\ Len(delivered) > 0
       /\ nCurrentReadSequence = nSequenceNumber(Len(delivered) - 1)
  /\ pc[w] \notin {"get", "repost", "advance"} =>
       nCurrentReadSequence = nSequenceNumber(Len(delivered))

\* A busy worker is the only one.
SoleBusy == \A v, w \in IOWorkers : v # w => ~Busy(v) \/ ~Busy(w)

\* What one worker leaves to the next: nothing parked is due.
HandOver ==
  (\A w \in IOWorkers : ~Busy(w)) =>
    NothingDue /\ nCurrentReadSequence = nSequenceNumber(Len(delivered))

ReadsInv ==
  /\ ReadsTypeOK
  /\ arrived <= posted
  /\ Len(delivered) <= arrived
  /\ \A k \in queued : k >= Len(delivered) /\ k < arrived
  /\ ListInv(pOutOfOrderReads)
  /\ SoleBusy /\ HandOver
  /\ \A w \in IOWorkers : WorkerInv(w)
  /\ InOrder

\* The invariant of the specification: nothing is claimed once two workers
\* were busy at the same time.
ReadsInvAlone == ~overlapped => ReadsInv

-----------------------------------------------------------------------------
(* Facts about the operators.                                              *)

\* A number below the modulus is its own sequence number.
LEMMA SeqNumberIdentity ==
  ASSUME NoWrap, NEW k \in Nat, k < MaxReads
  PROVE  nSequenceNumber(k) = k
BY ReadsAssumption DEF NoWrap, nSequenceNumber

\* A sequence number is a ULONG.
LEMMA SeqNumberRange ==
  ASSUME NEW k \in Nat
  PROVE  nSequenceNumber(k) \in 0..(SeqModulus - 1)
BY ReadsAssumption DEF nSequenceNumber

\* A nonempty set of natural numbers has a least element.
LEMMA LeastElement ==
  ASSUME NEW T, T \subseteq Nat, T # {}
  PROVE  \E x \in T : \A y \in T : x <= y
<1>1. PICK x \in T : \A y \in T : ~ (<<y, x>> \in OpToRel(<, Nat))
  BY NatLessThanWellFounded, WFMin
<1>2. \A y \in T : ~ (y < x)
  BY <1>1 DEF OpToRel
<1> QED
  BY <1>2

\* Where Insertion puts the read: after all that do not exceed it, before the
\* first that does.
LEMMA InsertionShape ==
  ASSUME NEW s \in Seq(Nat), NEW k \in Nat
  PROVE  \E n \in 0..Len(s) :
           /\ Insertion(k, s) \in Seq(Nat)
           /\ Len(Insertion(k, s)) = Len(s) + 1
           /\ \A j \in 1..n : Insertion(k, s)[j] = s[j]
           /\ Insertion(k, s)[n + 1] = k
           /\ \A j \in (n + 2)..(Len(s) + 1) : Insertion(k, s)[j] = s[j - 1]
           /\ \A j \in 1..n : ~ (nSequenceNumber(k) < nSequenceNumber(s[j]))
           /\ n < Len(s) => nSequenceNumber(k) < nSequenceNumber(s[n + 1])
<1> DEFINE later == {j \in DOMAIN s : nSequenceNumber(k) < nSequenceNumber(s[j])}
           least == CHOOSE j \in later : \A h \in later : j <= h
           n == IF later = {} THEN Len(s) ELSE least - 1
           a == SubSeq(s, 1, n)
           c == SubSeq(s, n + 1, Len(s))
<1>0. /\ DOMAIN s = 1..Len(s) /\ Len(s) \in Nat
      /\ \A j \in 1..Len(s) : s[j] \in Nat
  BY LenProperties, ElementOfSeq
<1>1. later # {} => least \in later /\ \A h \in later : least <= h
  <2>1. later \subseteq Nat
    BY <1>0
  <2> HIDE DEF later
  <2> QED
    BY <2>1, LeastElement
<1>2. n \in 0..Len(s)
  BY <1>0, <1>1
<1>3. \A j \in 1..n : ~ (nSequenceNumber(k) < nSequenceNumber(s[j]))
  <2> SUFFICES ASSUME NEW j \in 1..n,
                      nSequenceNumber(k) < nSequenceNumber(s[j])
               PROVE  FALSE
    OBVIOUS
  <2>1. j \in later
    BY <1>0, <1>2
  <2>2. least \in Nat
    BY <2>1, <1>0, <1>1
  <2>3. least <= j
    BY <2>1, <1>1
  <2>4. n = least - 1
    BY <2>1
  <2> HIDE DEF later, least, n
  <2> QED
    BY <2>2, <2>3, <2>4, <1>2
<1>4. n < Len(s) => nSequenceNumber(k) < nSequenceNumber(s[n + 1])
  BY <1>0, <1>1
<1> HIDE DEF n
<1>5. /\ a \in Seq(Nat) /\ Len(a) = n
      /\ \A j \in 1..n : a[j] = s[j]
  <2>1. \A j \in 1..n : s[j] \in Nat
    BY <1>0, <1>2
  <2>2. /\ SubSeq(s, 1, n) \in Seq(Nat)
        /\ Len(SubSeq(s, 1, n)) = IF 1 <= n THEN n - 1 + 1 ELSE 0
        /\ \A j \in 1..(n - 1 + 1) : SubSeq(s, 1, n)[j] = s[1 + j - 1]
    BY <2>1, <1>2, SubSeqProperties
  <2> QED
    BY <2>2, <1>2, <1>0
<1>6. /\ c \in Seq(Nat) /\ Len(c) = Len(s) - n
      /\ \A j \in 1..(Len(s) - n) : c[j] = s[n + j]
  <2>1. \A j \in (n + 1)..Len(s) : s[j] \in Nat
    BY <1>0, <1>2
  <2>2. /\ c \in Seq(Nat)
        /\ Len(c) = IF n + 1 <= Len(s) THEN Len(s) - (n + 1) + 1 ELSE 0
        /\ \A j \in 1..(Len(s) - (n + 1) + 1) : c[j] = s[(n + 1) + j - 1]
    BY <2>1, <1>2, <1>0, SubSeqProperties
  <2> HIDE DEF c
  <2>3. c \in Seq(Nat) /\ Len(c) = Len(s) - n
    <3>1. CASE n + 1 <= Len(s)
      <4>1. Len(s) - (n + 1) + 1 = Len(s) - n
        BY <1>2, <1>0
      <4> QED
        BY <2>2, <3>1, <4>1
    <3>2. CASE ~ (n + 1 <= Len(s))
      <4>0. n \in Nat /\ Len(s) \in Nat /\ n <= Len(s)
        BY <1>2, <1>0
      <4>1. Len(s) - n = 0
        BY <4>0, <3>2
      <4> QED
        BY <2>2, <3>2, <4>1
    <3> QED
      BY <3>1, <3>2
  <2>4. ASSUME NEW j \in 1..(Len(s) - n) PROVE c[j] = s[n + j]
    <3>1. j \in 1..(Len(s) - (n + 1) + 1) /\ (n + 1) + j - 1 = n + j
      BY <1>2, <1>0
    <3> QED
      BY <2>2, <3>1
  <2> QED
    BY <2>3, <2>4
<1>7. <<k>> \in Seq(Nat) /\ Len(<<k>>) = 1 /\ <<k>>[1] = k
  OBVIOUS
<1> DEFINE ak == a \o <<k>>
           t == ak \o c
<1>8. /\ ak \in Seq(Nat) /\ Len(ak) = n + 1
      /\ \A j \in 1..n : ak[j] = s[j]
      /\ ak[n + 1] = k
  <2>1. /\ ak \in Seq(Nat) /\ Len(ak) = Len(a) + Len(<<k>>)
        /\ \A j \in 1..(Len(a) + Len(<<k>>)) :
             ak[j] = IF j <= Len(a) THEN a[j] ELSE <<k>>[j - Len(a)]
    BY <1>5, <1>7, ConcatProperties
  <2> HIDE DEF ak, a
  <2>2. ak[n + 1] = <<k>>[1]
    <3>1. /\ n + 1 \in 1..(Len(a) + Len(<<k>>)) /\ ~(n + 1 <= Len(a))
          /\ n + 1 - Len(a) = 1
      BY <1>2, <1>0, <1>5, <1>7
    <3> QED
      BY <2>1, <3>1
  <2> QED
    BY <2>1, <2>2, <1>2, <1>0, <1>5, <1>7
<1>9. /\ t \in Seq(Nat) /\ Len(t) = Len(s) + 1
      /\ \A j \in 1..(n + 1) : t[j] = ak[j]
      /\ \A j \in (n + 2)..(Len(s) + 1) : t[j] = s[j - 1]
  <2> HIDE DEF ak, c
  <2>1. /\ t \in Seq(Nat) /\ Len(t) = Len(ak) + Len(c)
        /\ \A j \in 1..(Len(ak) + Len(c)) :
             t[j] = IF j <= Len(ak) THEN ak[j] ELSE c[j - Len(ak)]
    BY <1>6, <1>8, ConcatProperties
  <2> HIDE DEF t
  <2>2. ASSUME NEW j \in (n + 2)..(Len(s) + 1) PROVE t[j] = s[j - 1]
    <3>1. /\ j \in 1..(Len(ak) + Len(c)) /\ ~(j <= Len(ak))
          /\ j - Len(ak) \in 1..(Len(s) - n) /\ n + (j - Len(ak)) = j - 1
      BY <1>2, <1>0, <1>6, <1>8
    <3>2. t[j] = c[j - Len(ak)]
      BY <2>1, <3>1
    <3> QED
      BY <3>1, <3>2, <1>6
  <2>3. ASSUME NEW j \in 1..(n + 1) PROVE t[j] = ak[j]
    <3>1. j \in 1..(Len(ak) + Len(c)) /\ j <= Len(ak)
      BY <1>2, <1>0, <1>6, <1>8
    <3> QED
      BY <2>1, <3>1
  <2>4. Len(t) = Len(s) + 1
    BY <2>1, <1>6, <1>8, <1>2, <1>0
  <2> QED
    BY <2>1, <2>2, <2>3, <2>4
<1>10. Insertion(k, s) = t
  BY DEF Insertion, n
<1> HIDE DEF t, ak, a, c
<1>11. \A j \in 1..n : t[j] = s[j]
  BY <1>9, <1>8, <1>2, <1>0
<1>12. t[n + 1] = k
  BY <1>9, <1>8, <1>2, <1>0
<1> QED
  BY <1>2, <1>3, <1>4, <1>9, <1>10, <1>11, <1>12

\* Parking a read keeps the list sorted and adds that read only.
LEMMA InsertionKeepsOrder ==
  ASSUME NoWrap, NEW s \in Seq(Nat), NEW k \in Nat, k < MaxReads,
         \A j \in DOMAIN s : s[j] < MaxReads /\ s[j] # k,
         \A j, h \in DOMAIN s : j < h => s[j] < s[h]
  PROVE  LET t == Insertion(k, s) IN
         /\ t \in Seq(Nat)
         /\ \A j \in DOMAIN t : t[j] = k \/ \E h \in DOMAIN s : t[j] = s[h]
         /\ \A j, h \in DOMAIN t : j < h => t[j] < t[h]
<1> DEFINE t == Insertion(k, s)
<1>0. /\ DOMAIN s = 1..Len(s) /\ Len(s) \in Nat
      /\ \A j \in 1..Len(s) : s[j] \in Nat /\ s[j] < MaxReads /\ s[j] # k
  BY LenProperties, ElementOfSeq
<1>1. PICK n \in 0..Len(s) :
        /\ t \in Seq(Nat)
        /\ Len(t) = Len(s) + 1
        /\ \A j \in 1..n : t[j] = s[j]
        /\ t[n + 1] = k
        /\ \A j \in (n + 2)..(Len(s) + 1) : t[j] = s[j - 1]
        /\ \A j \in 1..n : ~ (nSequenceNumber(k) < nSequenceNumber(s[j]))
        /\ n < Len(s) => nSequenceNumber(k) < nSequenceNumber(s[n + 1])
  BY InsertionShape
<1> HIDE DEF t
<1>2. DOMAIN t = 1..(Len(s) + 1)
  BY <1>1, LenProperties
<1>3. nSequenceNumber(k) = k /\ \A j \in 1..Len(s) : nSequenceNumber(s[j]) = s[j]
  BY <1>0, SeqNumberIdentity
<1>4. \A j \in 1..n : s[j] < k
  <2> TAKE j \in 1..n
  <2>1. j \in 1..Len(s)
    BY <1>0
  <2>2. nSequenceNumber(k) = k /\ nSequenceNumber(s[j]) = s[j]
    BY <2>1, <1>3
  <2>3. ~ (nSequenceNumber(k) < nSequenceNumber(s[j]))
    BY <1>1
  <2>4. s[j] # k /\ s[j] \in Nat
    BY <2>1, <1>0
  <2> QED
    BY <2>2, <2>3, <2>4, <1>0
<1>5. \A j \in (n + 1)..Len(s) : k < s[j]
  <2> TAKE j \in (n + 1)..Len(s)
  <2>1. n + 1 \in 1..Len(s) /\ j \in 1..Len(s) /\ n < Len(s)
    BY <1>0
  <2>2. k < s[n + 1]
    <3>1. nSequenceNumber(k) < nSequenceNumber(s[n + 1])
      BY <2>1, <1>1
    <3>2. nSequenceNumber(k) = k /\ nSequenceNumber(s[n + 1]) = s[n + 1]
      BY <2>1, <1>3
    <3> QED
      BY <3>1, <3>2
  <2>3. j = n + 1 \/ s[n + 1] < s[j]
    BY <2>1, <1>0
  <2>4. s[n + 1] \in Nat /\ s[j] \in Nat
    BY <2>1, <1>0
  <2> QED
    BY <2>2, <2>3, <2>4
<1>6. ASSUME NEW j \in DOMAIN t
      PROVE  \/ j \in 1..n /\ t[j] = s[j] /\ j \in DOMAIN s
             \/ j = n + 1 /\ t[j] = k
             \/ /\ j \in (n + 2)..(Len(s) + 1) /\ t[j] = s[j - 1]
                /\ j - 1 \in (n + 1)..Len(s) /\ j - 1 \in DOMAIN s
  <2>1. n \in Nat /\ Len(s) \in Nat /\ n <= Len(s) /\ j \in 1..(Len(s) + 1)
    BY <1>0, <1>2
  <2>2. CASE j <= n
    BY <2>1, <2>2, <1>0, <1>1
  <2>3. CASE j = n + 1
    BY <2>3, <1>1
  <2>4. CASE j > n + 1
    <3>1. /\ j \in (n + 2)..(Len(s) + 1) /\ j - 1 \in (n + 1)..Len(s)
          /\ j - 1 \in 1..Len(s)
      BY <2>1, <2>4
    <3> QED
      BY <3>1, <1>0, <1>1
  <2> QED
    BY <2>1, <2>2, <2>3, <2>4
<1>7. ASSUME NEW j \in DOMAIN t, NEW h \in DOMAIN t, j < h
      PROVE  t[j] < t[h]
  <2>1. CASE h \in 1..n
    <3>1. j \in 1..n /\ j \in 1..Len(s) /\ h \in 1..Len(s)
      BY <2>1, <1>7, <1>2, <1>0
    <3> QED
      BY <3>1, <2>1, <1>1, <1>0, <1>7
  <2>2. CASE h = n + 1
    <3>1. j \in 1..n
      BY <2>2, <1>7, <1>2, <1>0
    <3> QED
      BY <3>1, <2>2, <1>1, <1>4
  <2>3. CASE h \in (n + 2)..(Len(s) + 1)
    <3>1. t[h] = s[h - 1] /\ h - 1 \in (n + 1)..Len(s) /\ h - 1 \in 1..Len(s)
      <4>1. h - 1 \in (n + 1)..Len(s) /\ h - 1 \in 1..Len(s)
        BY <2>3, <1>0
      <4> QED
        BY <2>3, <4>1, <1>1
    <3>2. k < s[h - 1]
      BY <3>1, <1>5
    <3>3. CASE j \in 1..n
      <4>1. t[j] = s[j] /\ s[j] < k
        BY <3>3, <1>1, <1>4
      <4>2. s[j] \in Nat /\ s[h - 1] \in Nat
        BY <3>1, <3>3, <1>0
      <4> QED
        BY <3>1, <3>2, <4>1, <4>2
    <3>4. CASE j = n + 1
      BY <3>1, <3>2, <3>4, <1>1
    <3>5. CASE j \in (n + 2)..(Len(s) + 1)
      <4>1. /\ t[j] = s[j - 1] /\ j - 1 \in 1..Len(s) /\ j - 1 < h - 1
        <5>1. j - 1 \in 1..Len(s) /\ j - 1 < h - 1
          BY <3>5, <2>3, <1>0, <1>7
        <5> QED
          BY <3>5, <5>1, <1>1
      <4> QED
        BY <3>1, <4>1, <1>0
    <3> QED
      BY <3>3, <3>4, <3>5, <1>6
  <2> QED
    BY <2>1, <2>2, <2>3, <1>6
<1> QED
  BY <1>1, <1>6, <1>7 DEF t

-----------------------------------------------------------------------------
(* The invariant is inductive.                                             *)

\* The invariant holds when the initial reads have been posted.
LEMMA InitEstablishes == ReadsInit => ReadsInv
<1> SUFFICES ASSUME ReadsInit PROVE ReadsInv
  OBVIOUS
<1>1. nSequenceNumber(0) = 0 /\ 0 \in 0..(SeqModulus - 1)
  BY ReadsAssumption DEF nSequenceNumber
<1>2. <<>> \in Seq(Nat) /\ Len(<<>>) = 0 /\ DOMAIN <<>> = {}
  OBVIOUS
<1>3. \A w \in IOWorkers : pc[w] = "get" /\ ~Busy(w)
  BY DEF ReadsInit, Busy
<1>4. ReadsTypeOK
  <2>1. overlapped \in BOOLEAN
    BY Zenon DEF ReadsInit
  <2>2. /\ posted \in 0..MaxReads /\ arrived \in 0..MaxReads
        /\ queued \subseteq 0..MaxReads
        /\ nCurrentReadSequence \in 0..(SeqModulus - 1)
    BY <1>1, ReadsAssumption DEF ReadsInit
  <2>3. pOutOfOrderReads \in Seq(Nat) /\ delivered \in Seq(Nat)
    BY <1>2 DEF ReadsInit
  <2>4. /\ pc \in [IOWorkers -> {"get", "compare", "insert", "head", "pop",
                                 "deliver", "advance", "repost"}]
        /\ p \in [IOWorkers -> Nat]
    BY DEF ReadsInit
  <2> QED
    BY <2>1, <2>2, <2>3, <2>4 DEF ReadsTypeOK
<1>5. (\A w \in IOWorkers : WorkerInv(w)) /\ SoleBusy
  BY <1>3 DEF WorkerInv, SoleBusy
<1>6. HandOver /\ ListInv(pOutOfOrderReads) /\ InOrder
  <2>1. /\ DOMAIN pOutOfOrderReads = {} /\ DOMAIN delivered = {}
        /\ Len(delivered) = 0 /\ nCurrentReadSequence = 0
    BY <1>2 DEF ReadsInit
  <2>2. HandOver
    BY <2>1, <1>1 DEF HandOver, NothingDue
  <2>3. ListInv(pOutOfOrderReads) /\ InOrder
    BY <2>1 DEF ListInv, InOrder
  <2> QED
    BY <2>2, <2>3
<1> QED
  BY <1>2, <1>4, <1>5, <1>6, ReadsAssumption DEF ReadsInit, ReadsInv

\* What the list and the worker know of a sequence of naturals.
LEMMA ListFacts ==
  ASSUME ReadsInv
  PROVE  /\ pOutOfOrderReads \in Seq(Nat) /\ delivered \in Seq(Nat)
         /\ Len(delivered) \in Nat /\ Len(pOutOfOrderReads) \in Nat
         /\ DOMAIN pOutOfOrderReads = 1..Len(pOutOfOrderReads)
         /\ DOMAIN delivered = 1..Len(delivered)
         /\ \A j \in DOMAIN pOutOfOrderReads : pOutOfOrderReads[j] \in Nat
         /\ arrived \in Nat /\ posted \in Nat /\ MaxReads \in Nat
         /\ arrived <= MaxReads /\ posted <= MaxReads
         /\ \A w \in IOWorkers : p[w] \in Nat
BY LenProperties, ElementOfSeq, ReadsAssumption DEF ReadsInv, ReadsTypeOK

\* A completion keeps the invariant.
LEMMA CompletePreserves ==
  ASSUME ReadsInv, Complete
  PROVE  ReadsInv'
<1> USE ListFacts
<1>1. ReadsTypeOK'
  BY DEF ReadsInv, ReadsTypeOK, Complete
<1>2. arrived' <= posted' /\ Len(delivered') <= arrived'
  BY DEF ReadsInv, Complete
<1>3. \A k \in queued' : k >= Len(delivered') /\ k < arrived'
  BY DEF ReadsInv, Complete, ReadsTypeOK
<1>4. ListInv(pOutOfOrderReads)'
  BY DEF ReadsInv, ListInv, Complete
<1>5. \A w \in IOWorkers : WorkerInv(w)'
  BY DEF ReadsInv, WorkerInv, NothingDue, Complete
<1>6. SoleBusy' /\ HandOver'
  BY DEF ReadsInv, SoleBusy, HandOver, NothingDue, Busy, Complete
<1> QED
  BY <1>1, <1>2, <1>3, <1>4, <1>5, <1>6 DEF ReadsInv, InOrder, Complete

\* A step of a worker while all others are idle: what it owes the invariant.
LEMMA SoleActor ==
  ASSUME NEW w \in IOWorkers,
         \A v \in IOWorkers \ {w} : pc'[v] = pc[v] /\ ~Busy(v),
         WorkerInv(w)',
         ~Busy(w)' => /\ NothingDue'
                      /\ nCurrentReadSequence' = nSequenceNumber(Len(delivered'))
  PROVE  SoleBusy' /\ HandOver' /\ (\A v \in IOWorkers : WorkerInv(v)')
<1>1. \A v \in IOWorkers \ {w} : ~Busy(v)'
  BY DEF Busy
<1>2. \A v \in IOWorkers \ {w} : WorkerInv(v)'
  BY <1>1 DEF WorkerInv, Busy
<1>3. SoleBusy'
  BY <1>1 DEF SoleBusy
<1>4. HandOver'
  BY DEF HandOver, nSequenceNumber
<1> QED
  BY <1>2, <1>3, <1>4

\* GetQueuedCompletionStatus keeps the invariant.
LEMMA DequeuePreserves ==
  ASSUME ReadsInv, NEW w \in IOWorkers, NEW k \in queued, Dequeue(w, k),
         ~overlapped'
  PROVE  ReadsInv'
<1> USE ListFacts
<1>0. k \in Nat /\ k >= Len(delivered) /\ k < arrived
  BY DEF ReadsInv, ReadsTypeOK
<1>1. ReadsTypeOK'
  <2>1. overlapped' \in BOOLEAN
    BY DEF Dequeue
  <2> QED
    BY <1>0, <2>1 DEF ReadsInv, ReadsTypeOK, Dequeue, Goto
<1>2. pc'[w] = "compare" /\ p'[w] = k
  BY DEF ReadsInv, ReadsTypeOK, Dequeue, Goto
<1>3. ListInv(pOutOfOrderReads)'
  BY DEF ReadsInv, ListInv, Dequeue
<1>4. ~overlapped /\ \A v \in IOWorkers \ {w} : ~Busy(v)
  BY DEF Dequeue
<1>5. NothingDue /\ nCurrentReadSequence = nSequenceNumber(Len(delivered))
  <2>1. ~Busy(w)
    BY DEF Dequeue, Busy
  <2> QED
    BY <1>4, <2>1 DEF ReadsInv, HandOver
<1>6. WorkerInv(w)'
  BY <1>0, <1>2, <1>5 DEF ReadsInv, WorkerInv, ListInv, NothingDue, Dequeue
<1>7. \A v \in IOWorkers \ {w} : pc'[v] = pc[v] /\ ~Busy(v)
  BY <1>4 DEF ReadsInv, ReadsTypeOK, Dequeue, Goto
<1>8. Busy(w)'
  BY <1>2 DEF Busy
<1>9. SoleBusy' /\ HandOver' /\ (\A v \in IOWorkers : WorkerInv(v)')
  BY <1>6, <1>7, <1>8, SoleActor
<1> QED
  BY <1>1, <1>3, <1>9 DEF ReadsInv, InOrder, Dequeue

\* So does the comparison at the start of GetNextReadBuffer ...
LEMMA ComparePreserves ==
  ASSUME ReadsInv, NoWrap, NEW w \in IOWorkers, Compare(w)
  PROVE  ReadsInv'
<1> USE ListFacts
<1>1. ReadsTypeOK'
  BY DEF ReadsInv, ReadsTypeOK, Compare, Goto
<1>2. pc'[w] = IF nSequenceNumber(p[w]) = nCurrentReadSequence
                 THEN "deliver" ELSE "insert"
  BY DEF ReadsInv, ReadsTypeOK, Compare, Goto
<1>3. /\ p[w] >= Len(delivered) /\ p[w] < arrived
      /\ nCurrentReadSequence = nSequenceNumber(Len(delivered))
  BY DEF ReadsInv, WorkerInv, Compare
<1>4. nSequenceNumber(p[w]) = p[w]
      /\ nSequenceNumber(Len(delivered)) = Len(delivered)
  BY <1>3, SeqNumberIdentity
<1>5. WorkerInv(w)'
  BY <1>2, <1>3, <1>4 DEF ReadsInv, WorkerInv, NothingDue, Compare
<1>6. ListInv(pOutOfOrderReads)'
  BY DEF ReadsInv, ListInv, Compare
<1>7. \A v \in IOWorkers \ {w} : pc'[v] = pc[v] /\ ~Busy(v)
  BY DEF ReadsInv, ReadsTypeOK, SoleBusy, Busy, Compare, Goto
<1>8. Busy(w)'
  BY <1>2 DEF Busy
<1>9. SoleBusy' /\ HandOver' /\ (\A v \in IOWorkers : WorkerInv(v)')
  BY <1>5, <1>7, <1>8, SoleActor
<1> QED
  BY <1>1, <1>6, <1>9 DEF ReadsInv, InOrder, Compare

\* ... parking a read that came early ...
LEMMA InsertPreserves ==
  ASSUME ReadsInv, NoWrap, NEW w \in IOWorkers, Insert(w)
  PROVE  ReadsInv'
<1> USE ListFacts
<1> DEFINE s == pOutOfOrderReads
           t == Insertion(p[w], s)
<1>1. /\ p[w] >= Len(delivered) /\ p[w] < arrived /\ p[w] \notin queued
      /\ \A j \in DOMAIN s : s[j] # p[w]
      /\ nCurrentReadSequence = nSequenceNumber(Len(delivered))
  BY DEF ReadsInv, WorkerInv, Insert
<1>2. /\ \A j \in DOMAIN s : s[j] >= Len(delivered) /\ s[j] < arrived
                             /\ s[j] \notin queued
      /\ \A j, h \in DOMAIN s : j < h => s[j] < s[h]
  BY DEF ReadsInv, ListInv
<1>3. p[w] < MaxReads /\ \A j \in DOMAIN s : s[j] < MaxReads
  BY <1>1, <1>2
<1>4. /\ t \in Seq(Nat)
      /\ \A j \in DOMAIN t : t[j] = p[w] \/ \E h \in DOMAIN s : t[j] = s[h]
      /\ \A j, h \in DOMAIN t : j < h => t[j] < t[h]
  BY <1>1, <1>2, <1>3, InsertionKeepsOrder
<1>5. pOutOfOrderReads' = t /\ pc'[w] = "head"
  BY DEF ReadsInv, ReadsTypeOK, Insert, Goto
<1> HIDE DEF t
<1>6. ReadsTypeOK'
  BY <1>4, <1>5 DEF ReadsInv, ReadsTypeOK, Insert, Goto
<1>7. ListInv(pOutOfOrderReads)'
  BY <1>1, <1>2, <1>4, <1>5 DEF ListInv, Insert
<1>8. WorkerInv(w)'
  BY <1>1, <1>5 DEF WorkerInv, Insert
<1>9. \A v \in IOWorkers \ {w} : pc'[v] = pc[v] /\ ~Busy(v)
  BY DEF ReadsInv, ReadsTypeOK, SoleBusy, Busy, Insert, Goto
<1>10. Busy(w)'
  BY <1>5 DEF Busy
<1>11. SoleBusy' /\ HandOver' /\ (\A v \in IOWorkers : WorkerInv(v)')
  BY <1>8, <1>9, <1>10, SoleActor
<1> QED
  BY <1>6, <1>7, <1>11 DEF ReadsInv, InOrder, Insert

\* ... the test of the head of the list ...
LEMMA CheckHeadPreserves ==
  ASSUME ReadsInv, NoWrap, NEW w \in IOWorkers, CheckHead(w)
  PROVE  ReadsInv'
<1> USE ListFacts
<1> DEFINE s == pOutOfOrderReads
<1>1. nCurrentReadSequence = nSequenceNumber(Len(delivered))
  BY DEF ReadsInv, WorkerInv, CheckHead
<1>2. ListInv(pOutOfOrderReads)'
  BY DEF ReadsInv, ListInv, CheckHead
<1>3. /\ \A j \in DOMAIN s : s[j] >= Len(delivered) /\ s[j] < arrived
      /\ \A j, h \in DOMAIN s : j < h => s[j] < s[h]
  BY DEF ReadsInv, ListInv
<1>0. \A v \in IOWorkers \ {w} : pc'[v] = pc[v] /\ ~Busy(v)
  BY DEF ReadsInv, ReadsTypeOK, SoleBusy, Busy, CheckHead, Goto
<1>4. CASE s # <<>> /\ nSequenceNumber(Head(s)) = nCurrentReadSequence
  <2>1. Head(s) = s[1] /\ 1 \in DOMAIN s
    BY <1>4, EmptySeq
  <2>2. s[1] = Len(delivered)
    <3>1. s[1] < MaxReads /\ Len(delivered) < MaxReads
      BY SMTT(30), <2>1, <1>3
    <3>2. nSequenceNumber(s[1]) = s[1]
      BY <2>1, <3>1, SeqNumberIdentity
    <3>3. nSequenceNumber(Len(delivered)) = Len(delivered)
      BY <3>1, SeqNumberIdentity
    <3> QED
      BY <3>2, <3>3, <2>1, <1>1, <1>4
  <2>3. pc'[w] = "pop" /\ p'[w] = s[1]
    BY <1>4, <2>1 DEF ReadsInv, ReadsTypeOK, CheckHead, Goto
  <2>4. ReadsTypeOK'
    BY <1>4, <2>1 DEF ReadsInv, ReadsTypeOK, CheckHead, Goto
  <2>5. WorkerInv(w)'
    BY <1>1, <1>4, <2>2, <2>3 DEF WorkerInv, NothingDue, CheckHead
  <2>6. SoleBusy' /\ HandOver' /\ (\A v \in IOWorkers : WorkerInv(v)')
    <3>1. Busy(w)'
      BY <2>3 DEF Busy
    <3> QED
      BY <1>0, <2>5, <3>1, SoleActor
  <2> QED
    BY <1>2, <2>4, <2>6 DEF ReadsInv, InOrder, CheckHead
<1>5. CASE ~(s # <<>> /\ nSequenceNumber(Head(s)) = nCurrentReadSequence)
  <2>1. pc'[w] = "repost" /\ p' = p
    BY <1>5 DEF ReadsInv, ReadsTypeOK, CheckHead, Goto
  <2>2. \A j \in DOMAIN s : s[j] # Len(delivered)
    <3> SUFFICES ASSUME NEW j \in DOMAIN s, s[j] = Len(delivered) PROVE FALSE
      OBVIOUS
    <3>1. s # <<>> /\ 1 \in DOMAIN s /\ Head(s) = s[1]
      BY EmptySeq
    <3>2. s[1] >= Len(delivered) /\ (j = 1 \/ s[1] < s[j])
      <4>1. j = 1 \/ 1 < j
        OBVIOUS
      <4> QED
        BY <4>1, <3>1, <1>3
    <3>3. s[1] = Len(delivered)
      BY <3>1, <3>2
    <3> QED
      BY <3>1, <3>3, <1>1, <1>5
  <2>3. ReadsTypeOK'
    BY <1>5 DEF ReadsInv, ReadsTypeOK, CheckHead, Goto
  <2>4. WorkerInv(w)'
    BY <1>1, <2>1, <2>2 DEF WorkerInv, NothingDue, CheckHead
  <2>5. NothingDue' /\ nCurrentReadSequence' = nSequenceNumber(Len(delivered'))
    BY <1>1, <2>2 DEF NothingDue, CheckHead
  <2>6. SoleBusy' /\ HandOver' /\ (\A v \in IOWorkers : WorkerInv(v)')
    BY <1>0, <2>4, <2>5, SoleActor
  <2> QED
    BY <1>2, <2>3, <2>6 DEF ReadsInv, InOrder, CheckHead
<1> QED
  BY <1>4, <1>5

\* ... and taking the head off.
LEMMA PopPreserves ==
  ASSUME ReadsInv, NEW w \in IOWorkers, Pop(w)
  PROVE  ReadsInv'
<1> USE ListFacts
<1> DEFINE s == pOutOfOrderReads
           t == SubSeq(s, 2, Len(s))
<1>1. /\ s # <<>> /\ p[w] = s[1] /\ p[w] = Len(delivered)
      /\ nCurrentReadSequence = nSequenceNumber(Len(delivered))
  BY DEF ReadsInv, WorkerInv, Pop
<1>2. /\ \A j \in DOMAIN s : s[j] >= Len(delivered) /\ s[j] < arrived
                             /\ s[j] \notin queued
      /\ \A j, h \in DOMAIN s : j < h => s[j] < s[h]
  BY DEF ReadsInv, ListInv
<1>3. 1 \in DOMAIN s /\ \A j \in DOMAIN s : s[j] = p[w] => j = 1
  <2>1. 1 \in DOMAIN s
    BY <1>1, EmptySeq
  <2>2. ASSUME NEW j \in DOMAIN s, j # 1 PROVE s[1] < s[j]
    <3>1. 1 < j
      BY <2>2
    <3> QED
      BY <3>1, <2>1, <1>2
  <2> QED
    BY <2>1, <2>2, <1>1
<1>4. pOutOfOrderReads' = t
  <2>1. (CHOOSE j \in DOMAIN s : s[j] = p[w]) = 1
    BY <1>1, <1>3
  <2>2. \E j \in DOMAIN s : s[j] = p[w]
    BY <1>1, <1>3
  <2>3. pOutOfOrderReads' = SubSeq(s, 1 + (CHOOSE j \in DOMAIN s : s[j] = p[w]),
                                   Len(s))
    BY <2>2 DEF Pop
  <2>4. pOutOfOrderReads' = SubSeq(s, 1 + 1, Len(s))
    BY <2>1, <2>3
  <2> QED
    BY <2>4
<1>5. /\ t \in Seq(Nat) /\ DOMAIN t = 1..(Len(s) - 1)
      /\ \A j \in DOMAIN t : t[j] = s[j + 1] /\ j + 1 \in DOMAIN s
  <2>1. Len(s) >= 1
    BY <1>3
  <2>2. /\ t \in Seq(Nat)
        /\ Len(t) = IF 2 <= Len(s) THEN Len(s) - 2 + 1 ELSE 0
        /\ \A j \in 1..(Len(s) - 2 + 1) : t[j] = s[2 + j - 1]
    <3>1. \A j \in 2..Len(s) : s[j] \in Nat
      OBVIOUS
    <3> QED
      BY <3>1, SubSeqProperties
  <2> HIDE DEF t
  <2>3. Len(t) = Len(s) - 1 /\ DOMAIN t = 1..(Len(s) - 1)
    <3>1. Len(s) = 1 \/ 2 <= Len(s)
      BY <2>1
    <3>2. Len(t) = Len(s) - 1
      <4>1. CASE Len(s) = 1
        BY <4>1, <2>2
      <4>2. CASE 2 <= Len(s)
        <5>1. Len(s) - 2 + 1 = Len(s) - 1
          OBVIOUS
        <5> QED
          BY <4>2, <5>1, <2>2
      <4> QED
        BY <3>1, <4>1, <4>2
    <3> QED
      BY <3>2, <2>2, LenProperties
  <2>4. ASSUME NEW j \in 1..(Len(s) - 1)
        PROVE  t[j] = s[j + 1] /\ j + 1 \in DOMAIN s
    <3>1. j \in 1..(Len(s) - 2 + 1) /\ 2 + j - 1 = j + 1 /\ j + 1 \in 1..Len(s)
      BY <2>1
    <3> QED
      BY <2>2, <3>1
  <2> QED
    BY <2>2, <2>3, <2>4
<1> HIDE DEF t
<1>6. pc'[w] = "deliver"
  BY DEF ReadsInv, ReadsTypeOK, Pop, Goto
<1>7. ReadsTypeOK'
  BY <1>4, <1>5 DEF ReadsInv, ReadsTypeOK, Pop, Goto
<1>8. ListInv(pOutOfOrderReads)'
  <2>1. \A j \in DOMAIN t : t[j] >= Len(delivered) /\ t[j] < arrived
                            /\ t[j] \notin queued
    BY <1>2, <1>5
  <2>2. ASSUME NEW j \in DOMAIN t, NEW h \in DOMAIN t, j < h PROVE t[j] < t[h]
    <3>1. j + 1 < h + 1
      BY <1>5, <2>2
    <3> QED
      BY <3>1, <1>2, <1>5
  <2> QED
    BY <1>4, <2>1, <2>2 DEF ListInv, Pop
<1>9. WorkerInv(w)'
  <2>1. p[w] < arrived /\ p[w] \notin queued
    BY <1>1, <1>2, <1>3
  <2>2. \A j \in DOMAIN t : t[j] # p[w]
    <3> TAKE j \in DOMAIN t
    <3>1. j + 1 # 1 /\ j + 1 \in DOMAIN s
      BY <1>5
    <3> QED
      BY <3>1, <1>3, <1>5
  <2>3. /\ p'[w] = p[w] /\ arrived' = arrived /\ queued' = queued
        /\ nCurrentReadSequence' = nCurrentReadSequence
        /\ Len(delivered') = Len(delivered) /\ delivered' = delivered
    BY DEF Pop
  <2> QED
    BY <1>1, <1>4, <1>6, <2>1, <2>2, <2>3 DEF WorkerInv
<1>10. \A v \in IOWorkers \ {w} : pc'[v] = pc[v] /\ ~Busy(v)
  BY DEF ReadsInv, ReadsTypeOK, SoleBusy, Busy, Pop, Goto
<1>11. Busy(w)'
  BY <1>6 DEF Busy
<1>12. SoleBusy' /\ HandOver' /\ (\A v \in IOWorkers : WorkerInv(v)')
  BY <1>9, <1>10, <1>11, SoleActor
<1> QED
  BY <1>7, <1>8, <1>12 DEF ReadsInv, InOrder, Pop

\* Handing the due read to OnReadCompleted keeps the invariant,
LEMMA DeliverReadPreserves ==
  ASSUME ReadsInv, NEW w \in IOWorkers, DeliverRead(w)
  PROVE  ReadsInv'
<1> USE ListFacts
<1> DEFINE d == Append(delivered, p[w])
<1>1. /\ p[w] = Len(delivered) /\ p[w] < arrived /\ p[w] \notin queued
      /\ \A j \in DOMAIN pOutOfOrderReads : pOutOfOrderReads[j] # p[w]
      /\ nCurrentReadSequence = nSequenceNumber(Len(delivered))
  BY DEF ReadsInv, WorkerInv, DeliverRead
<1>2. /\ d \in Seq(Nat) /\ Len(d) = Len(delivered) + 1
      /\ DOMAIN d = 1..(Len(delivered) + 1)
      /\ \A j \in DOMAIN d : d[j] = IF j = Len(delivered) + 1 THEN p[w]
                                    ELSE delivered[j]
  BY AppendProperties, LenProperties
<1>3. delivered' = d /\ pc'[w] = "advance"
  BY DEF ReadsInv, ReadsTypeOK, DeliverRead, Goto
<1> HIDE DEF d
<1>4. ReadsTypeOK'
  BY <1>2, <1>3 DEF ReadsInv, ReadsTypeOK, DeliverRead, Goto
<1>5. InOrder'
  <2> SUFFICES ASSUME NEW j \in 1..(Len(delivered) + 1) PROVE d[j] = j - 1
    BY <1>2, <1>3 DEF InOrder
  <2>1. CASE j = Len(delivered) + 1
    BY <2>1, <1>1, <1>2
  <2>2. CASE j # Len(delivered) + 1
    <3>1. j \in DOMAIN delivered
      BY <2>2
    <3> QED
      BY <3>1, <2>2, <1>2 DEF ReadsInv, InOrder
  <2> QED
    BY <2>1, <2>2
<1>6. \A k \in queued : k \in Nat /\ k # Len(delivered) /\ k >= Len(delivered)
                       /\ k < arrived
  BY <1>1 DEF ReadsInv, ReadsTypeOK
<1>7. \A k \in queued' : k >= Len(delivered') /\ k < arrived'
  BY <1>2, <1>3, <1>6 DEF DeliverRead
<1>8. ListInv(pOutOfOrderReads)'
  BY <1>1, <1>2, <1>3 DEF ReadsInv, ListInv, DeliverRead
<1>9. Len(delivered') - 1 = Len(delivered) /\ Len(delivered') > 0
      /\ Len(delivered') <= arrived' /\ arrived' <= posted'
  BY <1>1, <1>2, <1>3 DEF ReadsInv, DeliverRead
<1>10. WorkerInv(w)'
  BY <1>1, <1>3, <1>9 DEF WorkerInv, DeliverRead
<1>11. \A v \in IOWorkers \ {w} : pc'[v] = pc[v] /\ ~Busy(v)
  BY DEF ReadsInv, ReadsTypeOK, SoleBusy, Busy, DeliverRead, Goto
<1>12. Busy(w)'
  BY <1>3 DEF Busy
<1>13. SoleBusy' /\ HandOver' /\ (\A v \in IOWorkers : WorkerInv(v)')
  BY <1>10, <1>11, <1>12, SoleActor
<1> QED
  BY <1>4, <1>5, <1>7, <1>8, <1>9, <1>13 DEF ReadsInv

\* so does the increment of nCurrentReadSequence,
LEMMA AdvancePreserves ==
  ASSUME ReadsInv, NoWrap, NEW w \in IOWorkers, Advance(w)
  PROVE  ReadsInv'
<1> USE ListFacts
<1> DEFINE n == Len(delivered)
<1>1. n > 0 /\ nCurrentReadSequence = nSequenceNumber(n - 1)
  BY DEF ReadsInv, WorkerInv, Advance
<1>2. n - 1 \in Nat /\ n - 1 < MaxReads
  BY <1>1 DEF ReadsInv
<1>3. nCurrentReadSequence = n - 1
  BY <1>1, <1>2, SeqNumberIdentity
<1>4. nCurrentReadSequence' = nSequenceNumber(n)
  <2>1. (nCurrentReadSequence + 1) = n
    BY <1>2, <1>3
  <2> QED
    BY <2>1 DEF Advance, nSequenceNumber
<1>5. nCurrentReadSequence' \in 0..(SeqModulus - 1)
  BY <1>4, SeqNumberRange
<1>6. ReadsTypeOK'
  BY <1>5 DEF ReadsInv, ReadsTypeOK, Advance, Goto
<1>7. pc'[w] = "head"
  BY DEF ReadsInv, ReadsTypeOK, Advance, Goto
<1>8. WorkerInv(w)'
  BY <1>4, <1>7 DEF WorkerInv, Advance
<1>9. ListInv(pOutOfOrderReads)'
  BY DEF ReadsInv, ListInv, Advance
<1>10. \A v \in IOWorkers \ {w} : pc'[v] = pc[v] /\ ~Busy(v)
  BY DEF ReadsInv, ReadsTypeOK, SoleBusy, Busy, Advance, Goto
<1>11. Busy(w)'
  BY <1>7 DEF Busy
<1>12. SoleBusy' /\ HandOver' /\ (\A v \in IOWorkers : WorkerInv(v)')
  BY <1>8, <1>10, <1>11, SoleActor
<1> QED
  BY <1>6, <1>9, <1>12 DEF ReadsInv, InOrder, Advance

\* and so does posting the next read.
LEMMA RepostPreserves ==
  ASSUME ReadsInv, NEW w \in IOWorkers, Repost(w)
  PROVE  ReadsInv'
<1> USE ListFacts
<1>1. posted' \in 0..MaxReads /\ posted <= posted'
  BY DEF ReadsInv, ReadsTypeOK, Repost
<1>2. ReadsTypeOK'
  BY <1>1 DEF ReadsInv, ReadsTypeOK, Repost, Goto
<1>3. pc'[w] = "get"
  BY DEF ReadsInv, ReadsTypeOK, Repost, Goto
<1>4. \A v \in IOWorkers : WorkerInv(v)' /\ (Busy(v)' <=> Busy(v))
  <2>1. WorkerInv(w)' /\ ~Busy(w)' /\ ~Busy(w)
    BY <1>3 DEF WorkerInv, Busy, Repost
  <2>2. ASSUME NEW v \in IOWorkers \ {w} PROVE pc'[v] = pc[v] /\ p'[v] = p[v]
    BY DEF ReadsInv, ReadsTypeOK, Repost, Goto
  <2>3. ASSUME NEW v \in IOWorkers \ {w}
        PROVE  WorkerInv(v)' /\ (Busy(v)' <=> Busy(v))
    BY <2>2 DEF ReadsInv, WorkerInv, NothingDue, Busy, Repost
  <2> QED
    BY <2>1, <2>3
<1>5. ListInv(pOutOfOrderReads)'
  BY DEF ReadsInv, ListInv, Repost
<1>7. SoleBusy' /\ HandOver'
  BY <1>4 DEF ReadsInv, SoleBusy, HandOver, NothingDue, Repost
<1>6. arrived' <= posted'
  BY <1>1 DEF ReadsInv, Repost
<1> QED
  BY <1>2, <1>4, <1>5, <1>6, <1>7 DEF ReadsInv, InOrder, Repost

\* Every step preserves the invariant.
LEMMA NextPreserves ==
  ASSUME NoWrap
  PROVE  ReadsInvAlone /\ [ReadsNext]_readsVars => ReadsInvAlone'
<1> SUFFICES ASSUME ReadsInvAlone, [ReadsNext]_readsVars, ~overlapped'
             PROVE  ReadsInv'
  BY DEF ReadsInvAlone
<1>0. ReadsInv
  BY DEF ReadsInvAlone, readsVars, ReadsNext, HandleRead, Complete, Dequeue,
         Compare, Insert, CheckHead, Pop, DeliverRead, Advance, Repost
<1>1. CASE UNCHANGED readsVars
  BY <1>0, <1>1 DEF readsVars, ReadsInv, ReadsTypeOK, ListInv, WorkerInv,
                    InOrder, SoleBusy, HandOver, NothingDue, Busy
<1>2. CASE Complete
  BY <1>0, <1>2, CompletePreserves
<1>3. ASSUME NEW w \in IOWorkers, HandleRead(w) PROVE ReadsInv'
  <2>1. ASSUME NEW k \in queued, Dequeue(w, k) PROVE ReadsInv'
    BY <1>0, <2>1, DequeuePreserves
  <2>2. CASE Compare(w)
    BY <1>0, <2>2, ComparePreserves
  <2>3. CASE Insert(w)
    BY <1>0, <2>3, InsertPreserves
  <2>4. CASE CheckHead(w)
    BY <1>0, <2>4, CheckHeadPreserves
  <2>5. CASE Pop(w)
    BY <1>0, <2>5, PopPreserves
  <2>6. CASE DeliverRead(w)
    BY <1>0, <2>6, DeliverReadPreserves
  <2>7. CASE Advance(w)
    BY <1>0, <2>7, AdvancePreserves
  <2>8. CASE Repost(w)
    BY <1>0, <2>8, RepostPreserves
  <2> QED
    BY <1>3, <2>1, <2>2, <2>3, <2>4, <2>5, <2>6, <2>7, <2>8 DEF HandleRead
<1> QED
  BY <1>1, <1>2, <1>3 DEF ReadsNext

\* The invariant holds in every state.
LEMMA ReadsInvariance ==
  ASSUME NoWrap
  PROVE  ReadsSpec => []ReadsInvAlone
<1>1. ReadsInit => ReadsInvAlone
  BY InitEstablishes DEF ReadsInvAlone
<1> QED
  BY <1>1, NextPreserves, PTL DEF ReadsSpec

-----------------------------------------------------------------------------
(* The results.                                                            *)

\* As long as the workers take turns and no sequence number wraps,
\* OnReadCompleted (HandleIO, read branch) gets the reads in the order
\* PostRecv numbered them, for any number of workers and of reads in flight
\* and any order of the completion packets.
THEOREM ReadsInOrder ==
  ASSUME NoWrap
  PROVE  ReadsSpec => []InOrderAlone
<1>1. ReadsInvAlone => InOrderAlone
  BY DEF ReadsInvAlone, ReadsInv, InOrderAlone
<1> QED
  BY <1>1, ReadsInvariance, PTL

\* Workers that take turns never leave the read that is due in
\* pOutOfOrderReads when the last of them goes back to
\* GetQueuedCompletionStatus.
THEOREM ReadsDoNotStall ==
  ASSUME NoWrap
  PROVE  ReadsSpec => []NoStall
<1>1. ReadsInvAlone => NoStall
  BY DEF ReadsInvAlone, ReadsInv, HandOver, NothingDue, NoStall
<1> QED
  BY <1>1, ReadsInvariance, PTL

\* GetNextReadBuffer keeps pOutOfOrderReads sorted by sequence number as long
\* as the workers take turns.
THEOREM ParkedReadsSorted ==
  ASSUME NoWrap
  PROVE  ReadsSpec => []ParkedSorted
<1>1. ASSUME ReadsInvAlone, ~overlapped PROVE ParkedSorted
  <2>0. ReadsInv
    BY <1>1 DEF ReadsInvAlone
  <2>1. \A j \in DOMAIN pOutOfOrderReads :
          /\ pOutOfOrderReads[j] \in Nat /\ pOutOfOrderReads[j] < MaxReads
    BY <2>0, ListFacts DEF ReadsInv, ListInv
  <2>2. \A j \in DOMAIN pOutOfOrderReads :
          nSequenceNumber(pOutOfOrderReads[j]) = pOutOfOrderReads[j]
    BY <2>1, SeqNumberIdentity
  <2> QED
    BY <2>0, <2>2 DEF ReadsInv, ListInv, ParkedSorted
<1>2. ReadsInvAlone => ParkedSorted
  BY <1>1 DEF ParkedSorted
<1> QED
  BY <1>2, ReadsInvariance, PTL

\* Until two workers overlap, the reordering of HandleIO and GetNextReadBuffer
\* implements the ordered stream: every step of it is a completion, an in-order
\* delivery, or invisible to the user of the connection.
THEOREM ReadOrderRefinesStream ==
  ASSUME NoWrap
  PROVE  ReadsSpec => StreamUntilOverlap
<1>1. ReadsInit => Stream!StreamInit
  BY DEF ReadsInit, Stream!StreamInit
<1>2. ReadsInvAlone /\ [ReadsNext]_readsVars
        => [~overlapped' => StreamStep]_readsVars
  <2> SUFFICES ASSUME ReadsInvAlone, [ReadsNext]_readsVars, ~overlapped'
               PROVE  Stream!StreamNext \/ UNCHANGED Stream!StreamVars
    BY DEF StreamStep
  <2> USE DEF Stream!StreamVars
  <2>0. ReadsInv
    BY DEF ReadsInvAlone, readsVars, ReadsNext, HandleRead, Complete, Dequeue,
           Compare, Insert, CheckHead, Pop, DeliverRead, Advance, Repost
  <2>1. CASE UNCHANGED readsVars
    BY <2>1 DEF readsVars
  <2>2. CASE Complete
    BY <2>0, <2>2, ListFacts
    DEF Complete, ReadsInv, Stream!StreamNext, Stream!Arrive
  <2>3. ASSUME NEW w \in IOWorkers, HandleRead(w)
        PROVE  Stream!StreamNext \/ UNCHANGED Stream!StreamVars
    <3>1. CASE DeliverRead(w)
      <4>1. p[w] = Len(delivered) /\ p[w] < arrived
        BY <2>0, <3>1 DEF DeliverRead, ReadsInv, WorkerInv
      <4> QED
        BY <3>1, <4>1 DEF DeliverRead, Stream!StreamNext, Stream!Deliver
    <3>2. CASE ~ DeliverRead(w)
      BY <2>3, <3>2
      DEF HandleRead, Dequeue, Compare, Insert, CheckHead, Pop, Advance, Repost
    <3> QED
      BY <3>1, <3>2
  <2> QED
    BY <2>1, <2>2, <2>3 DEF ReadsNext
<1> QED
  BY <1>1, <1>2, ReadsInvariance, PTL DEF ReadsSpec, StreamUntilOverlap
=============================================================================
