------------------------------ MODULE TcpServer -----------------------------
(***************************************************************************)
(* CTcpServer: worker threads that serve one completion port, the map of   *)
(* client sockets, the pools of accept, receive and send contexts, and the *)
(* timer thread that closes idle connections.                              *)
(*                                                                         *)
(* A socket is a handle of the operating system, which hands it out again  *)
(* once it was closed.  The code knows a connection by its handle only.    *)
(* The fields "live" are history: the handle still denotes the connection  *)
(* that it denoted when the operation was posted.                          *)
(*                                                                         *)
(* The idle time of a socket (SO_GROUP_PRIORITY) is "none" until it is set *)
(* for the first time, then "recent", and "old" after twenty minutes       *)
(* without activity.                                                       *)
(*                                                                         *)
(* The application initialises the server, may pause it, starts it, sends  *)
(* files and stops it.  The listening thread and the workers are created   *)
(* suspended.  In ReleaseResource the map is walked without its lock,      *)
(* while the timer still runs; stepping on from an entry that the timer    *)
(* has erased leaves the behaviour "undefined".                            *)
(***************************************************************************)
EXTENDS Integers, Sequences, FiniteSets, SequencesExt

CONSTANTS
  Sockets,          \* the handles the operating system can give
  AcceptContexts, ReceiveContexts, SendContexts,
                    \* the contexts of each pool; bound: the code creates
                    \* another one when a pool is empty
  Workers,          \* the threads that run WorkThread
  NULL,
  MaxPostAccepts,   \* m_iMaxPostAcceptNumbs
  MaxClients,       \* bound: clients that connect
  MaxPauses         \* bound: calls of PauseServer

Contexts == AcceptContexts \cup ReceiveContexts \cup SendContexts

ASSUME ConstantsAssumption ==
  /\ NULL \notin Sockets \cup Contexts
  /\ AcceptContexts \cap ReceiveContexts = {}
  /\ SendContexts \cap (AcceptContexts \cup ReceiveContexts) = {}
  /\ IsFiniteSet(Contexts) /\ IsFiniteSet(Workers)
  /\ {MaxPostAccepts, MaxClients, MaxPauses} \subseteq Nat

VARIABLES
  sock,    \* each handle: "closed", "accepting" (made by WSASocket), "connected"
  idle,    \* the idle time of each socket
  m_mapAcceptSockQueue,
  ctx,     \* m_hSocket of each context, and whether it is live
  posted,  \* contexts whose operation is in the kernel
  queue,   \* the completion port
  pool,    \* the stack of idle contexts of each kind, the top last
  wk,      \* the locals of each worker
  semaphore, batch,  \* m_hPostAcceptEvent[1]; accepts ListenThread has to post
  clients, \* clients that have connected so far
  app,     \* the application: place, socket in hand, sockets to walk
  listener, suspended,  \* ListenThread: has it ended? its suspend count
  pauses,
  wronged  \* a connection was closed without a cause of its own

vars == <<sock, idle, m_mapAcceptSockQueue, ctx, posted, queue, pool, wk,
          semaphore, batch, clients, app, listener, suspended, pauses,
          wronged>>
accepts == <<semaphore, batch, clients>>
server  == <<app, listener, suspended, pauses>>
io      == <<posted, queue, pool>>

Kinds == {"accept", "receive", "send"}
Kind(c) == CASE c \in AcceptContexts -> "accept"
             [] c \in ReceiveContexts -> "receive"
             [] OTHER -> "send"

IdleWorker == [pc |-> "get", c |-> NULL, s |-> NULL, live |-> FALSE,
               x |-> NULL, ret |-> "release"]

m_bServerRunning == app.pc \in {"run", "file"}

\* The condition of the loop of WorkThread, tested after each packet.
Loop == [IdleWorker EXCEPT !.pc = IF m_bServerRunning THEN "get" ELSE "end"]

At(w, pc)   == wk[w].pc = pc
Goto(w, pc) == wk' = [wk EXCEPT ![w].pc = pc]

\* Where a worker goes from CloseClientSocket.
Return(w) == IF wk[w].ret = "get" THEN Loop
             ELSE [wk[w] EXCEPT !.pc = "release", !.x = NULL]

\* pContext->m_hSocket, read when it is needed.
m_hSocket(w) == ctx[wk[w].c].sock

\* The contexts of a pool are pushed in some order.
InitContextPool(S) == SetToSeq(S)

Init ==
  /\ sock = [s \in Sockets |-> "closed"] /\ idle = [s \in Sockets |-> "none"]
  /\ m_mapAcceptSockQueue = {}
  /\ ctx = [c \in Contexts |-> [sock |-> NULL, live |-> FALSE]]
  /\ posted = {} /\ queue = <<>>
  /\ pool = [accept |-> InitContextPool(AcceptContexts),
             receive |-> InitContextPool(ReceiveContexts),
             send |-> InitContextPool(SendContexts)]
  /\ wk = [w \in Workers |-> [IdleWorker EXCEPT !.pc = "suspended"]]
  /\ semaphore = 0 /\ batch = MaxPostAccepts \div 2
  /\ app = [pc |-> "init", s |-> NULL, left |-> {}]
  /\ listener = "wait" /\ suspended = 1
  /\ clients = 0 /\ pauses = 0 /\ wronged = FALSE

\* What an idle context remembers of its socket s: nothing that matters,
\* unless a worker that has released it too early goes on to read it.
Residue(c, s) ==
  IF \E w \in Workers : wk[w].c = c /\ wk[w].ret = "get" THEN s ELSE NULL

-----------------------------------------------------------------------------
(* Issuing operations.  GetContext pops the pool, a failed call returns    *)
(* the context to it.                                                      *)

\* Pop under the lock of the pool.
GetContext(k) ==
  /\ pool[k] # <<>>
  /\ pool' = [pool EXCEPT ![k] = Front(@)]

\* GetContext and a call that succeeds on handle s.
Issue(k, s) ==
  /\ GetContext(k)
  /\ ctx' = [ctx EXCEPT ![Last(pool[k])] = [sock |-> s, live |-> TRUE]]
  /\ posted' = posted \cup {Last(pool[k])}

\* WSASocket and AcceptEx.
IssueAcceptOperation ==
  \E s \in Sockets :
    /\ sock[s] = "closed" /\ sock' = [sock EXCEPT ![s] = "accepting"]
    /\ Issue("accept", s)

\* WSASocket fails, or AcceptEx does and CloseClientSocket, which does not
\* find the handle in the map, leaves it open.
IssueAcceptFails ==
  \/ UNCHANGED <<sock, ctx, posted, pool>>
  \/ \E s \in Sockets :
       /\ sock[s] = "closed" /\ sock' = [sock EXCEPT ![s] = "accepting"]
       /\ UNCHANGED <<ctx, posted, pool>>

\* WSARecv: only a connected socket can receive.
IssueReceiveOperation(s) == sock[s] = "connected" /\ Issue("receive", s)

\* The context that was not used goes back with s written in it.
IssueReceiveFails(s) ==
  /\ ctx' = IF pool.receive = <<>> THEN ctx
            ELSE LET c == Last(pool.receive)
                 IN [ctx EXCEPT ![c].sock = Residue(c, s)]
  /\ UNCHANGED <<posted, pool>>

\* WSASend; a context that was not used is reset by ReleaseContext.
IssueSendOperation(s) ==
  \/ s # NULL /\ sock[s] = "connected" /\ Issue("send", s)
  \/ UNCHANGED <<ctx, posted, pool>>

-----------------------------------------------------------------------------
(* Closing.                                                                *)

\* closesocket on the handles of S: what referred to them is live no more.
\* loc is the workers' state to update.
Closed(S, loc) ==
  /\ sock' = [s \in Sockets |-> IF s \in S THEN "closed" ELSE sock[s]]
  /\ idle' = [s \in Sockets |-> IF s \in S THEN "none" ELSE idle[s]]
  /\ ctx' = [c \in Contexts |->
               [ctx[c] EXCEPT !.live = @ /\ ctx[c].sock \notin S]]
  /\ wk' = [w \in Workers |->
               [loc[w] EXCEPT !.live = @ /\ loc[w].s \notin S]]

\* Mutant: the entry is looked up and not erased.
FindKeepsEntry(w) ==
  /\ At(w, "find")
  /\ IF m_hSocket(w) \in m_mapAcceptSockQueue
       THEN /\ wk' = [wk EXCEPT ![w].pc = "closesocket", ![w].x = m_hSocket(w)]
            /\ wronged' = (wronged \/ m_hSocket(w) # wk[w].s \/ ~wk[w].live)
       ELSE wk' = [wk EXCEPT ![w] = Return(w)] /\ UNCHANGED wronged
  /\ UNCHANGED <<sock, idle, m_mapAcceptSockQueue, ctx, io, accepts, server>>

\* CloseClientSocket, first half: the entry is erased under m_struCriSec.
CloseClientSocketFind(w) ==
  /\ At(w, "find")
  /\ IF m_hSocket(w) \in m_mapAcceptSockQueue
       THEN /\ m_mapAcceptSockQueue' = m_mapAcceptSockQueue \ {m_hSocket(w)}
            /\ wk' = [wk EXCEPT ![w].pc = "closesocket", ![w].x = m_hSocket(w)]
            /\ wronged' = (wronged \/ m_hSocket(w) # wk[w].s \/ ~wk[w].live)
       ELSE wk' = [wk EXCEPT ![w] = Return(w)] /\ UNCHANGED <<m_mapAcceptSockQueue, wronged>>
  /\ UNCHANGED <<sock, idle, ctx, io, accepts, server>>

\* Second half, outside the lock: shutdown and closesocket.
CloseClientSocketClose(w) ==
  /\ At(w, "closesocket")
  /\ Closed({wk[w].x}, [wk EXCEPT ![w] = Return(w)])
  /\ UNCHANGED <<m_mapAcceptSockQueue, io, accepts, server, wronged>>

\* The context goes back on its stack; s is the socket it names from then on.
PushContext(w, s) ==
  LET c == wk[w].c IN
  /\ pool' = [pool EXCEPT ![Kind(c)] = Append(@, c)]
  /\ ctx' = [ctx EXCEPT ![c] = [sock |-> s, live |-> FALSE]]

ReleaseContext(w) ==
  /\ At(w, "release")
  /\ PushContext(w, Residue(wk[w].c, m_hSocket(w)))
  /\ wk' = [wk EXCEPT ![w] = Loop]
  /\ UNCHANGED <<sock, idle, m_mapAcceptSockQueue, posted, queue, accepts,
                 server, wronged>>

\* Mutant: no exception is thrown and the handler goes on to its end.
ReleaseFirstGoesOn(w) ==
  /\ At(w, "releaseFirst")
  /\ PushContext(w, m_hSocket(w))
  /\ wk' = [wk EXCEPT ![w].pc = "find", ![w].ret = "release"]
  /\ UNCHANGED <<sock, idle, m_mapAcceptSockQueue, posted, queue, accepts,
                 server, wronged>>

\* The error paths of CompleteReceive release the context before they close
\* the socket that it names.
ReleaseFirst(w) ==
  /\ At(w, "releaseFirst")
  /\ PushContext(w, m_hSocket(w))
  /\ wk' = [wk EXCEPT ![w].pc = "find", ![w].ret = "get"]
  /\ UNCHANGED <<sock, idle, m_mapAcceptSockQueue, posted, queue, accepts,
                 server, wronged>>

-----------------------------------------------------------------------------
(* A worker.                                                               *)

\* GetQueuedCompletionStatus and the dispatch on the result and the mode.
Dequeue(w) ==
  LET q == Head(queue)
      k == Kind(q.c) IN
  /\ At(w, "get") /\ queue # <<>> /\ q.c # NULL
  /\ queue' = Tail(queue)
  /\ wk' = [wk EXCEPT ![w] =
       [IdleWorker EXCEPT
          !.c = q.c, !.s = ctx[q.c].sock, !.live = ctx[q.c].live,
          !.pc = CASE q.res # "done" -> "find"
                   [] q.res = "done" /\ k = "accept"  -> "push"
                   [] q.res = "done" /\ k = "receive" -> "stamp"
                   [] q.res = "done" /\ k = "send"    -> "resend"]]
  /\ UNCHANGED <<sock, idle, m_mapAcceptSockQueue, ctx, posted, pool, accepts,
                 server, wronged>>

\* A worker that was resumed tests the condition of its loop.
Begin(w) ==
  /\ At(w, "start") /\ wk' = [wk EXCEPT ![w] = Loop]
  /\ UNCHANGED <<sock, idle, m_mapAcceptSockQueue, ctx, io, accepts, server,
                 wronged>>

\* The packet without a context that StopServer posts for each worker.
DequeueNull(w) ==
  /\ At(w, "get") /\ queue # <<>> /\ Head(queue).c = NULL
  /\ queue' = Tail(queue) /\ Goto(w, "end")
  /\ UNCHANGED <<sock, idle, m_mapAcceptSockQueue, ctx, posted, pool, accepts,
                 server, wronged>>

\* CompleteAccept: the socket is listed ...
PushClientSocket(w) ==
  /\ At(w, "push")
  /\ m_mapAcceptSockQueue' = m_mapAcceptSockQueue \cup {m_hSocket(w)}
  /\ Goto(w, "setup")
  /\ UNCHANGED <<sock, idle, ctx, io, accepts, server, wronged>>

\* ... and then its options are set, the idle time among them; in
\* CompleteReceive the idle time alone.  Each call may fail, and fails on a
\* handle that was closed meanwhile.
SetOptions(w, from, next, failed) ==
  /\ At(w, from)
  /\ \/ /\ sock[m_hSocket(w)] # "closed"
        /\ idle' = [idle EXCEPT ![m_hSocket(w)] = "recent"]
        /\ Goto(w, next)
     \/ Goto(w, failed) /\ UNCHANGED idle
  /\ UNCHANGED <<sock, m_mapAcceptSockQueue, ctx, io, accepts, server, wronged>>

CompleteAcceptSetup(w) == SetOptions(w, "setup", "receive", "find")
CompleteReceiveStamp(w) == SetOptions(w, "stamp", "save", "releaseFirst")

IsValidSocket(s) == s \in m_mapAcceptSockQueue

\* SaveReceivedData: nothing in CTcpServer; CWebServer sends the data back if
\* IsValidSocket finds the socket.
SaveReceivedData(w) ==
  /\ At(w, "save")
  /\ \/ Goto(w, "receive")
     \/ IsValidSocket(m_hSocket(w)) /\ Goto(w, "send")
  /\ UNCHANGED <<sock, idle, m_mapAcceptSockQueue, ctx, io, accepts, server, wronged>>

\* The send of SendData, and the one with which CompleteSend follows another.
Send(w, from, next) ==
  /\ At(w, from)
  /\ IssueSendOperation(m_hSocket(w))
  /\ Goto(w, next)
  /\ UNCHANGED <<sock, idle, m_mapAcceptSockQueue, queue, accepts, server, wronged>>

SendData(w)     == Send(w, "send", "receive")
CompleteSend(w) == Send(w, "resend", "release")

\* The next read of the connection, from CompleteAccept or CompleteReceive.
NextReceive(w) ==
  LET accepting == wk[w].c \in AcceptContexts IN
  /\ At(w, "receive")
  /\ \/ /\ IssueReceiveOperation(m_hSocket(w))
        /\ Goto(w, IF accepting THEN "accept" ELSE "release")
     \/ /\ IssueReceiveFails(m_hSocket(w))
        /\ Goto(w, IF accepting THEN "find" ELSE "releaseFirst")
  /\ UNCHANGED <<sock, idle, m_mapAcceptSockQueue, queue, accepts, server, wronged>>

\* Mutant: the semaphore has no maximum.
NextAcceptNoMaximum(w) ==
  /\ At(w, "accept")
  /\ \/ IssueAcceptOperation /\ UNCHANGED semaphore
     \/ IssueAcceptFails /\ semaphore' = semaphore + 1
  /\ Goto(w, "release")
  /\ UNCHANGED <<idle, m_mapAcceptSockQueue, queue, batch, clients,
                 server, wronged>>

\* CompleteAccept replaces the accept, or asks ListenThread to do so.
NextAccept(w) ==
  /\ At(w, "accept")
  /\ \/ IssueAcceptOperation /\ UNCHANGED semaphore
     \/ /\ IssueAcceptFails
        /\ semaphore' = IF semaphore < MaxPostAccepts THEN semaphore + 1
                                                      ELSE semaphore
  /\ Goto(w, "release")
  /\ UNCHANGED <<idle, m_mapAcceptSockQueue, queue, batch, clients,
                 server, wronged>>

-----------------------------------------------------------------------------
(* ListenThread, the timer, and the kernel.                                *)

\* FD_ACCEPT: a client waits and no accept is posted.  The semaphore: one.
ListenWait ==
  /\ m_bServerRunning /\ suspended = 0 /\ batch = 0
  /\ \/ /\ AcceptContexts \cap posted = {}
        /\ batch' = MaxPostAccepts /\ UNCHANGED semaphore
     \/ semaphore > 0 /\ semaphore' = semaphore - 1 /\ batch' = 1
  /\ UNCHANGED <<sock, idle, m_mapAcceptSockQueue, ctx, io, wk, clients,
                 server, wronged>>

\* One accept of a batch: by ListenThread, or by InitServer before it runs.
PostAcceptOperation ==
  /\ app.pc = "init" \/ suspended = 0
  /\ batch > 0 /\ batch' = batch - 1
  /\ IssueAcceptOperation \/ IssueAcceptFails
  /\ UNCHANGED <<idle, m_mapAcceptSockQueue, queue, wk, semaphore,
                 clients, server, wronged>>

\* The loop of ListenThread ends; it looks at the flag once a second.
ListenEnd ==
  /\ ~m_bServerRunning /\ suspended = 0 /\ batch = 0
  /\ listener = "wait" /\ listener' = "end"
  /\ UNCHANGED <<sock, idle, m_mapAcceptSockQueue, ctx, io, wk, accepts, app,
                 suspended, pauses, wronged>>

\* ConnectTimeOutCheck, all of it under m_struCriSec.  An idle time that was
\* never set reads 0, which is more than twenty minutes ago.  On a handle that
\* ReleaseSocket has closed getsockopt fails, and iIdleTime is still that of
\* the entry before it: such an entry is kept only after a recent one.
ConnectTimeOutCheck ==
  LET recent == {s \in m_mapAcceptSockQueue : idle[s] = "recent"}
      stale  == {s \in m_mapAcceptSockQueue : sock[s] = "closed"} IN
  /\ app.pc # "undefined"
  /\ \E kept \in SUBSET stale :
       LET expired == m_mapAcceptSockQueue \ (recent \cup kept) IN
       /\ expired # {} /\ (kept # {} => recent # {})
       /\ Closed(expired, wk)
       /\ m_mapAcceptSockQueue' = m_mapAcceptSockQueue \ expired
       /\ wronged' = (wronged \/ \E s \in expired \ stale : idle[s] = "none")
  /\ UNCHANGED <<io, accepts, server>>

\* No worker takes twenty minutes to handle a packet.
TwentyMinutesPass(s) ==
  /\ sock[s] = "connected" /\ idle[s] = "recent"
  /\ \A w \in Workers : wk[w].pc \in {"suspended", "start", "get", "end"}
  /\ idle' = [idle EXCEPT ![s] = "old"]
  /\ UNCHANGED <<sock, m_mapAcceptSockQueue, ctx, io, wk, accepts, server, wronged>>

\* ReleaseResource has closed the listening socket.
Released == app.pc \in {"walk", "next", "kill", "done", "undefined"}

\* An operation ends: an accept with a client or an error, a read also with
\* the end of the stream, and what was posted on a closed handle as aborted.
Complete(c) ==
  /\ c \in posted /\ posted' = posted \ {c}
  /\ \E res \in {"done", "zero", "error"} :
       /\ res = "zero" => Kind(c) = "receive"
       /\ ~ctx[c].live => res = "error"
       /\ Kind(c) = "accept" /\ Released => res = "error"
       /\ queue' = Append(queue, [c |-> c, res |-> res])
       /\ IF Kind(c) = "accept" /\ res = "done"
            THEN /\ sock' = [sock EXCEPT ![ctx[c].sock] = "connected"]
                 /\ clients < MaxClients /\ clients' = clients + 1
            ELSE UNCHANGED <<sock, clients>>
  /\ UNCHANGED <<idle, m_mapAcceptSockQueue, ctx, pool, wk, semaphore, batch,
                 server, wronged>>

-----------------------------------------------------------------------------
(* The application.                                                        *)

AppGoto(l) == app' = [app EXCEPT !.pc = l]

\* InitServer has posted its accepts and starts the timer.
InitServerDone ==
  /\ app.pc = "init" /\ batch = 0 /\ AppGoto("ready")
  /\ UNCHANGED <<sock, idle, m_mapAcceptSockQueue, ctx, io, wk, accepts,
                 listener, suspended, pauses, wronged>>

\* PauseServer refuses a server that runs, and of one that does not it
\* suspends the listening thread once more (but no worker).
PauseServer ==
  /\ app.pc = "ready" /\ pauses < MaxPauses
  /\ pauses' = pauses + 1 /\ suspended' = suspended + 1
  /\ UNCHANGED <<sock, idle, m_mapAcceptSockQueue, ctx, io, wk, accepts, app,
                 listener, wronged>>

StartServer ==
  /\ app.pc = "ready" /\ AppGoto("run") /\ suspended' = suspended - 1
  /\ wk' = [w \in Workers |-> [IdleWorker EXCEPT !.pc = "start"]]
  /\ UNCHANGED <<sock, idle, m_mapAcceptSockQueue, ctx, io, accepts,
                 listener, pauses, wronged>>

\* SendFile looks the socket up under the lock ...
SendFile(s) ==
  /\ app.pc = "run" /\ IsValidSocket(s)
  /\ app' = [app EXCEPT !.pc = "file", !.s = s]
  /\ UNCHANGED <<sock, idle, m_mapAcceptSockQueue, ctx, io, wk, accepts,
                 listener, suspended, pauses, wronged>>

\* ... and calls TransmitFile later; if it fails the context goes back.
TransmitFile ==
  /\ app.pc = "file" /\ IssueSendOperation(app.s)
  /\ app' = [app EXCEPT !.pc = "run", !.s = NULL]
  /\ UNCHANGED <<sock, idle, m_mapAcceptSockQueue, queue, wk, accepts,
                 listener, suspended, pauses, wronged>>

\* StopServer (of a server that does not run: after StartServer) clears the
\* flag and waits for ListenThread, ...
StopServer ==
  /\ app.pc = "run" /\ AppGoto("joinListener")
  /\ UNCHANGED <<sock, idle, m_mapAcceptSockQueue, ctx, io, wk, accepts,
                 listener, suspended, pauses, wronged>>

NullPackets(n) == [j \in 1..n |-> [c |-> NULL, res |-> "done"]]

\* Mutant: one worker is forgotten.
StopPostNullsOneLess ==
  /\ app.pc = "joinListener" /\ listener = "end" /\ AppGoto("joinWorkers")
  /\ queue' = queue \o NullPackets(Cardinality(Workers) - 1)
  /\ UNCHANGED <<sock, idle, m_mapAcceptSockQueue, ctx, posted, pool, wk,
                 accepts, listener, suspended, pauses, wronged>>

\* ... posts a packet for each worker, ...
StopPostNulls ==
  /\ app.pc = "joinListener" /\ listener = "end" /\ AppGoto("joinWorkers")
  /\ queue' = queue \o NullPackets(Cardinality(Workers))
  /\ UNCHANGED <<sock, idle, m_mapAcceptSockQueue, ctx, posted, pool, wk,
                 accepts, listener, suspended, pauses, wronged>>

\* ... waits for them and calls ReleaseResource, which closes the listening
\* socket.
ReleaseResource ==
  /\ app.pc = "joinWorkers" /\ \A w \in Workers : At(w, "end")
  /\ app' = [app EXCEPT !.pc = "walk", !.left = m_mapAcceptSockQueue]
  /\ UNCHANGED <<sock, idle, m_mapAcceptSockQueue, ctx, io, wk, accepts,
                 listener, suspended, pauses, wronged>>

\* The sockets of the map are closed one by one; then it is cleared.
ReleaseSocket ==
  /\ app.pc = "walk"
  /\ \/ \E s \in app.left \cap m_mapAcceptSockQueue :
          /\ Closed({s}, wk)
          /\ app' = [pc |-> "next", s |-> s, left |-> app.left \ {s}]
          /\ UNCHANGED m_mapAcceptSockQueue
     \/ /\ app.left \cap m_mapAcceptSockQueue = {}
        /\ m_mapAcceptSockQueue' = {} /\ AppGoto("kill")
        /\ UNCHANGED <<sock, idle, ctx, wk>>
  /\ UNCHANGED <<io, accepts, listener, suspended, pauses, wronged>>

\* ++pos.
ReleaseNext ==
  /\ app.pc = "next"
  /\ app' = [app EXCEPT !.s = NULL, !.pc =
               IF app.s \in m_mapAcceptSockQueue THEN "walk" ELSE "undefined"]
  /\ UNCHANGED <<sock, idle, m_mapAcceptSockQueue, ctx, io, wk, accepts,
                 listener, suspended, pauses, wronged>>

\* timeKillEvent, and the pools are destroyed.
DestroyContextPool ==
  /\ app.pc = "kill" /\ AppGoto("done")
  /\ pool' = [k \in Kinds |-> <<>>]
  /\ UNCHANGED <<sock, idle, m_mapAcceptSockQueue, ctx, posted, queue, wk,
                 accepts, listener, suspended, pauses, wronged>>

-----------------------------------------------------------------------------
WorkThread(w) ==
  \/ Begin(w) \/ Dequeue(w) \/ DequeueNull(w)
  \/ PushClientSocket(w) \/ CompleteAcceptSetup(w) \/ NextAccept(w)
  \/ CompleteReceiveStamp(w) \/ SaveReceivedData(w) \/ SendData(w)
  \/ NextReceive(w) \/ CompleteSend(w)
  \/ CloseClientSocketFind(w) \/ CloseClientSocketClose(w)
  \/ ReleaseContext(w) \/ ReleaseFirst(w)

Application ==
  \/ InitServerDone \/ PauseServer \/ StartServer
  \/ (\E s \in Sockets : SendFile(s)) \/ TransmitFile
  \/ StopServer \/ StopPostNulls
  \/ ReleaseResource \/ ReleaseSocket \/ ReleaseNext \/ DestroyContextPool

Next ==
  \/ \E w \in Workers : WorkThread(w)
  \/ ListenWait \/ PostAcceptOperation \/ ListenEnd
  \/ Application
  \/ ConnectTimeOutCheck
  \/ \E s \in Sockets : TwentyMinutesPass(s)
  \/ \E c \in Contexts : Complete(c)

Spec == Init /\ [][Next]_vars

-----------------------------------------------------------------------------
\* The variables keep their types; the semaphore stays below the maximum it
\* was created with.
TypeOK ==
  /\ sock \in [Sockets -> {"closed", "accepting", "connected"}]
  /\ idle \in [Sockets -> {"none", "recent", "old"}]
  /\ m_mapAcceptSockQueue \subseteq Sockets
  /\ ctx \in [Contexts -> [sock : Sockets \cup {NULL}, live : BOOLEAN]]
  /\ posted \subseteq Contexts
  /\ queue \in Seq([c : Contexts \cup {NULL}, res : {"done", "zero", "error"}])
  /\ DOMAIN pool = Kinds /\ \A k \in Kinds : pool[k] \in Seq(Contexts)
  /\ wk \in [Workers ->
       [pc : {"suspended", "start", "end", "get", "find", "closesocket", "release", "releaseFirst", "push",
              "setup", "stamp", "save", "send", "resend", "receive", "accept"},
        c : Contexts \cup {NULL}, s : Sockets \cup {NULL}, live : BOOLEAN,
        x : Sockets \cup {NULL}, ret : {"get", "release"}]]
  /\ semaphore \in 0..MaxPostAccepts /\ batch \in 0..MaxPostAccepts
  /\ app \in [pc : {"init", "ready", "run", "file", "joinListener",
                    "joinWorkers", "walk", "next", "kill", "done",
                    "undefined"},
              s : Sockets \cup {NULL}, left : SUBSET Sockets]
  /\ listener \in {"wait", "end"} /\ suspended \in 0..(MaxPauses + 1)
  /\ pauses \in 0..MaxPauses
  /\ clients \in 0..MaxClients /\ wronged \in BOOLEAN

\* The map holds open connections only, and a worker that has taken a socket
\* out of it is the only one to close it: although CloseClientSocket calls
\* closesocket outside the lock, no handle is closed twice, nor after the
\* operating system has handed it out again.  Nothing is claimed of the walk
\* of ReleaseResource: the handles it closes stay listed, and the timer, which
\* still runs, closes them once more.
HandlesClosedOnce ==
  /\ ~Released => \A s \in m_mapAcceptSockQueue : sock[s] = "connected"
  /\ \A w \in Workers : At(w, "closesocket") =>
       /\ sock[wk[w].x] = "connected" /\ wk[w].x \notin m_mapAcceptSockQueue
       /\ \A v \in Workers \ {w} : ~(At(v, "closesocket") /\ wk[v].x = wk[w].x)

\* The worker has not given its context back yet.
Holds(w) == ~At(w, "get") /\ wk[w].ret = "release"

\* A context has one owner: it is at most once in its pool, and not while an
\* operation is posted on it or completed, or a worker handles it.
PoolExclusive ==
  LET Busy == posted \cup {queue[j].c : j \in DOMAIN queue}
                     \cup {wk[w].c : w \in {v \in Workers : Holds(v)}} IN
  \A k \in Kinds :
    /\ \A i, j \in DOMAIN pool[k] : pool[k][i] = pool[k][j] => i = j
    /\ \A i \in DOMAIN pool[k] : pool[k][i] \notin Busy

\* StopServer waits for no thread that nothing will wake: ListenThread is not
\* suspended, unless PauseServer was called, and every worker that has not
\* ended finds a packet of its own on the port, however the others leave
\* their loops.
StopNotStuck ==
  /\ app.pc = "joinListener" => listener = "end" \/ suspended = 0 \/ pauses > 0
  /\ app.pc = "joinWorkers" =>
       Cardinality({w \in Workers : ~At(w, "end")})
         <= Cardinality({j \in DOMAIN queue : queue[j].c = NULL})

\* The server closes a connection only because it was idle for twenty minutes
\* or because one of its own operations ended or failed.
ClosedForCause == ~wronged
=============================================================================
