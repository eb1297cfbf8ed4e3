------------------------------- MODULE LibEvent -------------------------------
(***************************************************************************)
(* CLibEvent: a listening thread and workernum worker threads, each with   *)
(* an event loop of libevent and a list of free Conns.  DoAccept, on the   *)
(* listening thread, takes a Conn from the head of a worker's list and     *)
(* gives its bufferevent the new socket; the callbacks of the bufferevent, *)
(* on the worker, put the Conn back at the tail.  The list has no lock:    *)
(* one thread moves head, the other tail, and the Conn at the tail is      *)
(* never handed out.                                                       *)
(*                                                                         *)
(* Of libevent the model has what these callbacks meet: a bufferevent      *)
(* whose events are enabled calls DoRead or DoError, also when it has no   *)
(* socket yet and its timeout passes; bufferevent_setfd waits for a        *)
(* callback of the same bufferevent and keeps its events enabled; a loop   *)
(* without events ends; a loop that waits for a closed socket fails.       *)
(* What a packet says is a free choice among the ways out of DoRead.  A    *)
(* socket is the client it belongs to: handles are not used again.         *)
(***************************************************************************)
EXTENDS Naturals, FiniteSets

CONSTANTS
  NULL,
  WorkerNum,   \* workernum
  ConnNum,     \* connnum
  MaxClients,  \* bound: the clients that connect
  MaxUnused    \* bound: Conns whose timeout passes before their first client

\* A client is its number in the order in which they are accepted.
Clients == 1 .. MaxClients
Workers == 0 .. WorkerNum - 1
Conns == Workers \X (0 .. ConnNum)
ConnsOf(w) == {w} \X (0 .. ConnNum)

ASSUME ConstantsAssumption ==
  /\ {WorkerNum, ConnNum} \subseteq Nat \ {0}
  /\ {MaxClients, MaxUnused} \subseteq Nat
  /\ NULL \notin Clients \cup Conns

VARIABLES
  head, tail,      \* pListConn of each worker
  next,            \* of each Conn
  fd,              \* of each Conn
  bufev,           \* its bufferevent: are the events enabled, and the socket
  partial,         \* is in_buf_len greater than 0?
  sock,            \* the socket of each client
  nCurrentWorker,  \* modulo workernum
  listener,        \* the listening thread: its place in DoAccept and locals
  wk,              \* each worker: its place in a callback, and the Conn
  owner,           \* the thread that called StartServer and calls StopServer
  given,           \* history: Conns taken from the list and not yet put back
  spurious         \* history: a Conn was closed that no client had, or that
                   \* DoAccept had not finished with

listVars == <<head, tail, next>>
connVars == <<fd, bufev, partial>>
vars == <<listVars, connVars, sock, nCurrentWorker, listener, wk, owner,
          given, spurious>>

\* StartServer has succeeded: every Conn is in the list of its worker, with
\* its events enabled and no socket.
Init ==
  /\ head = [w \in Workers |-> <<w, 0>>]
  /\ tail = [w \in Workers |-> <<w, ConnNum>>]
  /\ next = [c \in Conns |->
               IF c[2] = ConnNum THEN NULL ELSE <<c[1], c[2] + 1>>]
  /\ fd = [c \in Conns |-> NULL]
  /\ bufev = [c \in Conns |-> [on |-> TRUE, fd |-> NULL]]
  /\ partial = [c \in Conns |-> FALSE]
  /\ sock = [k \in Clients |-> "away"]
  /\ nCurrentWorker = 0
  /\ listener = [pc |-> "loop", k |-> NULL, w |-> 0, c |-> NULL]
  /\ wk = [w \in Workers |-> [pc |-> "loop", c |-> NULL]]
  /\ owner = [pc |-> "running", i |-> 0]
  /\ given = {} /\ spurious = FALSE

-----------------------------------------------------------------------------
(* The clients. *)

\* The client ends the connection, or it breaks.
ClientGoes(k) ==
  /\ sock[k] = "open" /\ sock' = [sock EXCEPT ![k] = "gone"]
  /\ UNCHANGED <<listVars, connVars, nCurrentWorker, listener, wk, owner,
                 given, spurious>>

-----------------------------------------------------------------------------
(* The listening thread. *)

\* evconnlistener accepts a client and calls DoAccept, which chooses a worker.
DoAccept(k) ==
  /\ listener.pc = "loop"
  /\ sock[k] = "away" /\ \A j \in 1 .. k - 1 : sock[j] # "away"
  /\ sock' = [sock EXCEPT ![k] = "open"]
  /\ listener' = [pc |-> "test", k |-> k, w |-> nCurrentWorker, c |-> NULL]
  /\ nCurrentWorker' = (nCurrentWorker + 1) % WorkerNum
  /\ UNCHANGED <<listVars, connVars, wk, owner, given, spurious>>

ListenerAt(pc) == listener' = [listener EXCEPT !.pc = pc]

\* Mutant: a list whose head is the tail is not taken for empty.
TestFreeConnNotNull ==
  /\ listener.pc = "test" /\ ListenerAt("take")
  /\ UNCHANGED <<listVars, connVars, sock, nCurrentWorker, wk, owner, given,
                 spurious>>

\* GetFreeConn compares head and tail.  Without a free Conn DoAccept returns
\* and nobody closes the socket.
TestFreeConn ==
  /\ listener.pc = "test"
  /\ IF head[listener.w] # tail[listener.w]
     THEN ListenerAt("take") /\ UNCHANGED sock
     ELSE /\ listener' = [listener EXCEPT !.pc = "loop", !.k = NULL]
          /\ sock' = [sock EXCEPT ![listener.k] = "leaked"]
  /\ UNCHANGED <<listVars, connVars, nCurrentWorker, wk, owner, given,
                 spurious>>

\* GetFreeConn advances head.
TakeFreeConn ==
  LET c == head[listener.w] IN
  /\ listener.pc = "take"
  /\ head' = [head EXCEPT ![listener.w] = next[c]]
  /\ listener' = [listener EXCEPT !.pc = "fd", !.c = c]
  /\ given' = given \cup {c}
  /\ UNCHANGED <<tail, next, connVars, sock, nCurrentWorker, wk, owner,
                 spurious>>

SetConnFd ==
  /\ listener.pc = "fd" /\ ListenerAt("setfd")
  /\ fd' = [fd EXCEPT ![listener.c] = listener.k]
  /\ UNCHANGED <<listVars, bufev, partial, sock, nCurrentWorker, wk, owner,
                 given, spurious>>

\* bufferevent_setfd deletes the events, for which it waits for the end of a
\* callback under way, and adds them again for the new socket if they were
\* enabled.
BuffereventSetfd ==
  /\ listener.pc = "setfd" /\ ListenerAt("enable")
  /\ wk[listener.w].c # listener.c
  /\ bufev' = [bufev EXCEPT ![listener.c].fd = fd[listener.c]]
  /\ UNCHANGED <<listVars, fd, partial, sock, nCurrentWorker, wk, owner,
                 given, spurious>>

\* Mutant: the events are left as bufferevent_setfd leaves them.
EnableConnNot ==
  /\ listener.pc = "enable"
  /\ listener' = [listener EXCEPT !.pc = "loop", !.k = NULL, !.c = NULL]
  /\ UNCHANGED <<listVars, connVars, sock, nCurrentWorker, wk, owner, given,
                 spurious>>

\* The function for new connections (CLibUserFunction::Connect, which does
\* nothing), bufferevent_enable, and the end of DoAccept.
EnableConn ==
  /\ listener.pc = "enable"
  /\ listener' = [listener EXCEPT !.pc = "loop", !.k = NULL, !.c = NULL]
  /\ bufev' = [bufev EXCEPT ![listener.c].on = TRUE]
  /\ UNCHANGED <<listVars, fd, partial, sock, nCurrentWorker, wk, owner,
                 given, spurious>>

-----------------------------------------------------------------------------
(* The workers. *)

WorkerAt(w, pc) == wk' = [wk EXCEPT ![w].pc = pc]

\* A callback on c begins to close it.
BeginClose(w, c) ==
  /\ wk' = [wk EXCEPT ![w] = [pc |-> "disable", c |-> c]]
  /\ spurious' = (spurious \/ bufev[c].fd = NULL \/ listener.c = c)

\* Data has come: DoRead takes it and the packets that are complete.  It ends
\* with part of a packet in in_buf, with nothing, or by closing the
\* connection (an invalid packet, or the answer of the function).  What does
\* not fit behind the part of a packet it tries to take for ever.
DoRead(w, c) ==
  /\ wk[w].pc = "loop" /\ c \in ConnsOf(w)
  /\ bufev[c].on /\ bufev[c].fd # NULL
  /\ sock[bufev[c].fd] \in {"open", "gone"}
  /\ \/ /\ \E p \in BOOLEAN : partial' = [partial EXCEPT ![c] = p]
        /\ UNCHANGED <<wk, spurious>>
     \/ BeginClose(w, c) /\ UNCHANGED partial
     \/ /\ partial[c]
        /\ wk' = [wk EXCEPT ![w] = [pc |-> "hung", c |-> c]]
        /\ UNCHANGED <<partial, spurious>>
  /\ UNCHANGED <<listVars, fd, bufev, sock, nCurrentWorker, listener, owner,
                 given>>

\* The client has gone, or was silent for the time of the timeout.
DoError(w, c) ==
  /\ wk[w].pc = "loop" /\ c \in ConnsOf(w)
  /\ bufev[c].on /\ bufev[c].fd # NULL
  /\ sock[bufev[c].fd] \in {"open", "gone"}
  /\ BeginClose(w, c)
  /\ UNCHANGED <<listVars, connVars, sock, nCurrentWorker, listener, owner,
                 given>>

\* The timeout of a bufferevent that has no socket passes.
DoErrorUnused(w, c) ==
  /\ wk[w].pc = "loop" /\ c \in ConnsOf(w)
  /\ bufev[c].on /\ bufev[c].fd = NULL
  /\ Cardinality({d \in Conns : ~bufev[d].on /\ bufev[d].fd = NULL}) < MaxUnused
  /\ BeginClose(w, c)
  /\ UNCHANGED <<listVars, connVars, sock, nCurrentWorker, listener, owner,
                 given>>

\* CloseConn: forget the input, call the function for ended connections
\* (CLibUserFunction::DisConnect, which does nothing), bufferevent_disable.
DisableConn(w) ==
  LET c == wk[w].c IN
  /\ wk[w].pc = "disable" /\ WorkerAt(w, "close")
  /\ partial' = [partial EXCEPT ![c] = FALSE]
  /\ bufev' = [bufev EXCEPT ![c].on = FALSE]
  /\ UNCHANGED <<listVars, fd, sock, nCurrentWorker, listener, owner, given,
                 spurious>>

\* CloseConn closes the socket that the Conn has now.
CloseSocket(w) ==
  LET k == fd[wk[w].c] IN
  /\ wk[w].pc = "close" /\ WorkerAt(w, "link")
  /\ sock' = [j \in Clients |-> IF j = k THEN "closed" ELSE sock[j]]
  /\ UNCHANGED <<listVars, connVars, nCurrentWorker, listener, owner, given,
                 spurious>>

\* Mutant: a list that looks empty is not linked to.
LinkUnlessEmpty(w) ==
  /\ wk[w].pc = "link" /\ WorkerAt(w, "tail")
  /\ next' = [next EXCEPT ![tail[w]] = IF head[w] = tail[w] THEN @ ELSE wk[w].c]
  /\ UNCHANGED <<head, tail, connVars, sock, nCurrentWorker, listener, owner,
                 given, spurious>>

\* PutFreeConn links the Conn to the tail.
LinkConn(w) ==
  /\ wk[w].pc = "link" /\ WorkerAt(w, "tail")
  /\ next' = [next EXCEPT ![tail[w]] = wk[w].c]
  /\ UNCHANGED <<head, tail, connVars, sock, nCurrentWorker, listener, owner,
                 given, spurious>>

\* PutFreeConn moves the tail, and the callback ends.
MoveTail(w) ==
  LET c == wk[w].c IN
  /\ wk[w].pc = "tail"
  /\ tail' = [tail EXCEPT ![w] = c]
  /\ given' = given \ {c}
  /\ wk' = [wk EXCEPT ![w] = [pc |-> "loop", c |-> NULL]]
  /\ UNCHANGED <<head, next, connVars, sock, nCurrentWorker, listener, owner,
                 spurious>>

\* The event loop ends when no event is enabled, or when it waits for a
\* socket that was closed.
LoopEnds(w) ==
  /\ wk[w].pc = "loop" /\ WorkerAt(w, "ended")
  /\ \/ \A c \in ConnsOf(w) : ~bufev[c].on
     \/ \E c \in ConnsOf(w) : /\ bufev[c].on /\ bufev[c].fd # NULL
                              /\ sock[bufev[c].fd] = "closed"
  /\ UNCHANGED <<listVars, connVars, sock, nCurrentWorker, listener, owner,
                 given, spurious>>

-----------------------------------------------------------------------------
(* StopServer, which StartServer has enabled by setting bStart. *)

\* event_base_loopexit on the listening thread.
StopServer ==
  /\ owner.pc = "running" /\ owner' = [owner EXCEPT !.pc = "listener"]
  /\ UNCHANGED <<listVars, connVars, sock, nCurrentWorker, listener, wk,
                 given, spurious>>

\* The loop of the listening thread ends.
ListenerExits ==
  /\ owner.pc = "listener" /\ listener.pc = "loop"
  /\ ListenerAt("ended")
  /\ UNCHANGED <<listVars, connVars, sock, nCurrentWorker, wk, owner, given,
                 spurious>>

\* StopServer has waited for the listening thread.
ListenerJoined ==
  /\ owner.pc = "listener" /\ listener.pc = "ended"
  /\ owner' = [pc |-> "worker", i |-> 0]
  /\ UNCHANGED <<listVars, connVars, sock, nCurrentWorker, listener, wk,
                 given, spurious>>

\* The loop of the worker that StopServer waits for ends.
WorkerExits(w) ==
  /\ owner = [pc |-> "worker", i |-> w] /\ wk[w].pc = "loop"
  /\ WorkerAt(w, "ended")
  /\ UNCHANGED <<listVars, connVars, sock, nCurrentWorker, listener, owner,
                 given, spurious>>

\* StopServer has waited for the worker; after the last one it frees the
\* Conns, whose bufferevents close their sockets, the workers and the bases.
WorkerJoined(w) ==
  /\ owner = [pc |-> "worker", i |-> w] /\ wk[w].pc = "ended"
  /\ IF w + 1 < WorkerNum
     THEN owner' = [owner EXCEPT !.i = w + 1] /\ UNCHANGED sock
     ELSE /\ owner' = [owner EXCEPT !.pc = "stopped"]
          /\ sock' = [k \in Clients |->
                        IF \E c \in Conns : bufev[c].fd = k THEN "closed"
                        ELSE sock[k]]
  /\ UNCHANGED <<listVars, connVars, nCurrentWorker, listener, wk, given,
                 spurious>>

-----------------------------------------------------------------------------
Accepting ==
  \/ TestFreeConn \/ TakeFreeConn \/ SetConnFd \/ BuffereventSetfd
  \/ EnableConn

Listen == (\E k \in Clients : DoAccept(k)) \/ Accepting \/ ListenerExits

CloseConn(w) == DisableConn(w) \/ CloseSocket(w) \/ LinkConn(w) \/ MoveTail(w)

Work(w) ==
  \/ \E c \in Conns : DoRead(w, c) \/ DoError(w, c) \/ DoErrorUnused(w, c)
  \/ CloseConn(w) \/ LoopEnds(w) \/ WorkerExits(w)

Stop == StopServer \/ ListenerJoined \/ \E w \in Workers : WorkerJoined(w)

Next ==
  \/ \E k \in Clients : ClientGoes(k)
  \/ Listen \/ (\E w \in Workers : Work(w)) \/ Stop

\* A gone client's event stays ready until its loop serves it.
NoticeGone(w) ==
  \E c \in Conns : DoError(w, c) /\ sock[bufev[c].fd] = "gone"

\* A thread goes on with what it has begun, and the loop of libevent passes
\* over no event for ever.  No client has to connect.
Fairness ==
  /\ WF_vars(Accepting)
  /\ \A w \in Workers : WF_vars(CloseConn(w)) /\ SF_vars(NoticeGone(w))

Spec == Init /\ [][Next]_vars
FairSpec == Spec /\ Fairness
-----------------------------------------------------------------------------
\* The variables stay in their ranges; head is never NULL, whatever has been
\* put into the list.
TypeOK ==
  /\ head \in [Workers -> Conns] /\ tail \in [Workers -> Conns]
  /\ next \in [Conns -> Conns \cup {NULL}]
  /\ fd \in [Conns -> Clients \cup {NULL}]
  /\ bufev \in [Conns -> [on : BOOLEAN, fd : Clients \cup {NULL}]]
  /\ partial \in [Conns -> BOOLEAN]
  /\ sock \in [Clients -> {"away", "open", "gone", "leaked", "closed"}]
  /\ nCurrentWorker \in Workers
  /\ listener \in [pc : {"loop", "test", "take", "fd", "setfd", "enable",
                         "ended"},
                   k : Clients \cup {NULL}, w : Workers,
                   c : Conns \cup {NULL}]
  /\ wk \in [Workers -> [pc : {"loop", "disable", "close", "link", "tail",
                               "hung", "ended"}, c : Conns \cup {NULL}]]
  /\ owner \in [pc : {"running", "listener", "worker", "stopped"},
                i : Workers]
  /\ given \subseteq Conns /\ spurious \in BOOLEAN

\* The n-th Conn of the list of worker w.
ListConn(w) ==
  LET at[n \in 0 .. ConnNum] ==
        IF n = 0 \/ at[n - 1] = NULL THEN (IF n = 0 THEN head[w] ELSE NULL)
        ELSE next[at[n - 1]]
  IN at

\* Without a lock, and in every interleaving of GetFreeConn and PutFreeConn,
\* the list holds exactly the Conns that are not handed out, each once and up
\* to the tail, until a Conn is closed that no client had or that DoAccept
\* had not finished with.
FreeListExact == ~spurious =>
  \A w \in Workers :
    LET at == ListConn(w) IN
    \E n \in 0 .. ConnNum :
      /\ at[n] = tail[w]
      /\ {at[i] : i \in 0 .. n} = ConnsOf(w) \ given
      /\ Cardinality(ConnsOf(w) \ given) = n + 1

\* Again and again no client that has gone still has its connection, unless
\* a worker's loop has ended or is stuck in DoRead, or the list was upset.
GoneIsNoticed ==
  []<>(\/ \A k \in Clients : sock[k] # "gone"
       \/ spurious \/ \E w \in Workers : wk[w].pc \in {"hung", "ended"})
=============================================================================
