----------------------------- MODULE AcceptList ------------------------------
(***************************************************************************)
(* The listening side of io_iocp/iocp_server/iocp_server.cpp: the main     *)
(* thread posts accepts, when FD_ACCEPT says that a client found none and  *)
(* when a worker asks for a replacement (RepostCount, RepostAccept), and   *)
(* now and then looks through PendingAccepts for clients that are          *)
(* connected but silent.  The workers take the accepts that completed out  *)
(* of the list.                                                            *)
(*                                                                         *)
(* PendingAccepts and gFreeBufferList are linked by the same field next.   *)
(* An accept that fails is freed and stays in PendingAccepts: the lists    *)
(* are modelled by their links, so that what follows is modelled too.      *)
(* ListenCritSec is held through the look at the list; the other critical  *)
(* sections are single steps.  The connections are in ScalableEcho: here a *)
(* buffer belongs to its connection until that ends.                       *)
(***************************************************************************)
EXTENDS Integers, FiniteSets

CONSTANTS
  Workers, Buffers, NULL,
  InitialAccepts,  \* gInitialAccepts
  MaxAccepts,      \* gMaxAccepts
  Burst,           \* BURST_ACCEPT_COUNT
  MaxClients,      \* bound: clients that connect
  MayFail          \* may a call fail or a client leave?  Bound: once.

ASSUME ConstantsAssumption ==
  /\ NULL \notin Workers \cup Buffers /\ IsFiniteSet(Buffers)
  /\ {InitialAccepts, MaxAccepts, Burst} \subseteq Nat \ {0}
  /\ MaxClients \in Nat /\ MayFail \in BOOLEAN

VARIABLES
  buf,             \* where each BUFFER_OBJ is
  sclient,         \* its client socket
  next,            \* its link
  gFreeBufferList, PendingAccepts,
  PendingAcceptCount, RepostCount,
  RepostAccept, AcceptEvent,   \* the events
  ListenCritSec,   \* its owner
  clients,         \* clients that have connected
  backlog,         \* clients that wait for an accept
  mn, wk,          \* the main thread and the workers
  failed,          \* history: a call failed or a client left
  refused,         \* history: accepts that completed with an error
  lost,            \* history: ResetEvent undid a SetEvent
  misuse           \* a buffer in use was taken from the free list

listVars == <<next, gFreeBufferList, PendingAccepts>>
repostVars == <<RepostCount, RepostAccept>>
netVars == <<AcceptEvent, clients, backlog>>
history == <<failed, refused, lost, misuse>>
vars == <<buf, sclient, listVars, PendingAcceptCount, repostVars, netVars,
          ListenCritSec, mn, wk, history>>

Main == "main"

Init ==
  /\ buf = [b \in Buffers |-> "heap"] /\ sclient = [b \in Buffers |-> "none"]
  /\ next = [b \in Buffers |-> NULL]
  /\ gFreeBufferList = NULL /\ PendingAccepts = NULL
  /\ PendingAcceptCount = 0 /\ RepostCount = 0
  /\ RepostAccept = FALSE /\ AcceptEvent = FALSE /\ ListenCritSec = NULL
  /\ clients = 0 /\ backlog = 0
  /\ mn = [pc |-> "loop", first |-> TRUE, limit |-> InitialAccepts,
           b |-> NULL]
  /\ wk = [w \in Workers |-> [pc |-> "get", b |-> NULL]]
  /\ failed = FALSE /\ refused = 0 /\ lost = FALSE /\ misuse = FALSE

CanFail == MayFail /\ ~failed

MainGoto(l) == mn' = [mn EXCEPT !.pc = l]
Goto(w, l) == wk' = [wk EXCEPT ![w] = [pc |-> l, b |-> IF l = "get" THEN NULL
                                                       ELSE wk[w].b]]

-----------------------------------------------------------------------------
(* The lists.                                                              *)

\* The buffer after k links from head; a list that comes back to one of its
\* buffers never ends.
Walk(head) ==
  LET f[k \in 0..Cardinality(Buffers)] ==
        IF k = 0 THEN head ELSE IF f[k - 1] = NULL THEN NULL ELSE next[f[k - 1]]
  IN f

Ends(head) == Walk(head)[Cardinality(Buffers)] = NULL

Listed(head) == {Walk(head)[k] : k \in 0..Cardinality(Buffers)} \ {NULL}

\* FreeBufferObj.
FreeBufferObj(b, st) ==
  /\ buf' = [buf EXCEPT ![b] = st] /\ sclient' = [sclient EXCEPT ![b] = "none"]
  /\ next' = [next EXCEPT ![b] = gFreeBufferList] /\ gFreeBufferList' = b

\* Mutant: the first buffer is removed, whichever was meant.
RemoveFirst(b) ==
  PendingAccepts' = next[b] /\ UNCHANGED next

\* RemovePendingAccept: the walk stops at b or at the end of the list; the
\* buffer before, or the head, then gets b's link.
Remove(b) ==
  LET f == Walk(PendingAccepts)
      stop == {k \in DOMAIN f : f[k] \in {b, NULL}}
      k == CHOOSE j \in stop : \A h \in stop : j <= h
  IN \/ k = 0 /\ PendingAccepts' = next[b] /\ UNCHANGED next
     \/ /\ k > 0 /\ next' = [next EXCEPT ![f[k - 1]] = next[b]]
        /\ UNCHANGED PendingAccepts

-----------------------------------------------------------------------------
(* The clients and the kernel.                                             *)

Waiting == {b \in Buffers : buf[b] = "posted" /\ sclient[b] = "open"}

\* A client connects to a posted accept, after those that wait; FD_ACCEPT
\* tells of the first that finds none.
ClientArrives ==
  /\ clients < MaxClients /\ clients' = clients + 1
  /\ \/ /\ backlog = 0
        /\ \E b \in Waiting : sclient' = [sclient EXCEPT ![b] = "connected"]
        /\ UNCHANGED <<AcceptEvent, backlog>>
     \/ /\ backlog > 0 \/ Waiting = {}
        /\ AcceptEvent' = (AcceptEvent \/ backlog = 0)
        /\ backlog' = backlog + 1 /\ UNCHANGED sclient
  /\ UNCHANGED <<buf, listVars, PendingAcceptCount, repostVars, ListenCritSec,
                 mn, wk, history>>

\* AcceptEx takes a client that waits, and re-enables FD_ACCEPT: the event
\* is set again when there are more of them.
ClientTaken ==
  /\ backlog > 0 /\ backlog' = backlog - 1
  /\ \E b \in Waiting : sclient' = [sclient EXCEPT ![b] = "connected"]
  /\ AcceptEvent' = (AcceptEvent \/ backlog > 1)
  /\ UNCHANGED <<buf, listVars, PendingAcceptCount, repostVars, clients,
                 ListenCritSec, mn, wk, history>>

\* A client has been connected for more than 300 s.
TimePasses(b) ==
  /\ buf[b] = "posted" /\ sclient[b] = "connected"
  /\ sclient' = [sclient EXCEPT ![b] = "stale"]
  /\ UNCHANGED <<buf, listVars, PendingAcceptCount, repostVars, netVars,
                 ListenCritSec, mn, wk, history>>

\* Data came, the client left, or the client's socket was closed.
AcceptCompletes(b) ==
  /\ buf[b] = "posted"
  /\ \/ /\ sclient[b] \in {"connected", "stale"}
        /\ buf' = [buf EXCEPT ![b] = "ok"] /\ UNCHANGED failed
     \/ /\ CanFail /\ sclient[b] \in {"connected", "stale"}
        /\ buf' = [buf EXCEPT ![b] = "error"] /\ failed' = TRUE
     \/ /\ sclient[b] = "closed"
        /\ buf' = [buf EXCEPT ![b] = "error"] /\ UNCHANGED failed
  /\ UNCHANGED <<sclient, listVars, PendingAcceptCount, repostVars, netVars,
                 ListenCritSec, mn, wk, refused, lost, misuse>>

\* A connection ends and frees its buffer.
ConnectionEnds(b) ==
  /\ buf[b] = "used" /\ FreeBufferObj(b, "free")
  /\ UNCHANGED <<PendingAccepts, PendingAcceptCount, repostVars, netVars,
                 ListenCritSec, mn, wk, history>>

-----------------------------------------------------------------------------
(* The main thread.                                                        *)

\* FD_ACCEPT: WSAEnumNetworkEvents resets the event.
TakeAcceptEvent ==
  /\ mn.pc = "wait" /\ AcceptEvent /\ AcceptEvent' = FALSE
  /\ mn' = [mn EXCEPT !.pc = "loop", !.limit = Burst]
  /\ UNCHANGED <<buf, sclient, listVars, PendingAcceptCount, repostVars,
                 clients, backlog, ListenCritSec, wk, history>>

\* Workers asked for accepts: their number is taken, ...
TakeRepost ==
  /\ mn.pc = "wait" /\ RepostAccept
  /\ mn' = [mn EXCEPT !.pc = "reset", !.limit = RepostCount]
  /\ RepostCount' = 0
  /\ UNCHANGED <<buf, sclient, listVars, PendingAcceptCount, RepostAccept,
                 netVars, ListenCritSec, wk, history>>

\* ... then the event is reset.
ResetRepost ==
  /\ mn.pc = "reset" /\ RepostAccept' = FALSE /\ MainGoto("loop")
  /\ lost' = (lost \/ RepostCount > 0)
  /\ UNCHANGED <<buf, sclient, listVars, PendingAcceptCount, RepostCount,
                 netVars, ListenCritSec, wk, failed, refused, misuse>>

\* Mutant: one accept more than asked for.
MorePostsOneMore ==
  mn.limit >= 0 /\ (mn.first \/ PendingAcceptCount < MaxAccepts)

\* The condition of the loop; the initial accepts are not bounded by
\* gMaxAccepts.
MorePosts ==
  mn.limit > 0 /\ (mn.first \/ PendingAcceptCount < MaxAccepts)

\* GetBufferObj, from the free list or the heap; on failure the round is
\* spent.  (Without memory for an initial accept the program ends.)
GetBufferObj ==
  /\ mn.pc = "loop" /\ MorePosts
  /\ \/ /\ gFreeBufferList # NULL /\ buf[gFreeBufferList] = "free"
        /\ gFreeBufferList' = next[gFreeBufferList]
        /\ next' = [next EXCEPT ![gFreeBufferList] = NULL]
        /\ buf' = [buf EXCEPT ![gFreeBufferList] = "main"]
        /\ mn' = [mn EXCEPT !.pc = "insert", !.limit = @ - 1,
                            !.b = gFreeBufferList]
        /\ UNCHANGED failed
     \/ /\ gFreeBufferList = NULL
        /\ \E b \in Buffers :
             /\ buf[b] = "heap" /\ buf' = [buf EXCEPT ![b] = "main"]
             /\ mn' = [mn EXCEPT !.pc = "insert", !.limit = @ - 1, !.b = b]
        /\ UNCHANGED <<next, gFreeBufferList, failed>>
     \/ /\ gFreeBufferList = NULL /\ ~mn.first
        /\ CanFail \/ \A b \in Buffers : buf[b] # "heap"
        /\ failed' = TRUE /\ mn' = [mn EXCEPT !.limit = @ - 1]
        /\ UNCHANGED <<buf, next, gFreeBufferList>>
  /\ UNCHANGED <<sclient, PendingAccepts, PendingAcceptCount, repostVars,
                 netVars, ListenCritSec, wk, refused, lost, misuse>>

\* The links of a freed accept led from the free list into PendingAccepts:
\* a pending accept is handed out once more.  This ends the behaviour.
HandOutTwice ==
  /\ mn.pc = "loop" /\ MorePosts
  /\ gFreeBufferList # NULL /\ buf[gFreeBufferList] # "free"
  /\ misuse' = TRUE
  /\ UNCHANGED <<buf, sclient, listVars, PendingAcceptCount, repostVars,
                 netVars, ListenCritSec, mn, wk, failed, refused, lost>>

InsertPendingAccept ==
  /\ mn.pc = "insert" /\ ListenCritSec = NULL
  /\ next' = [next EXCEPT ![mn.b] = PendingAccepts] /\ PendingAccepts' = mn.b
  /\ MainGoto("post")
  /\ UNCHANGED <<buf, sclient, gFreeBufferList, PendingAcceptCount,
                 repostVars, netVars, ListenCritSec, wk, history>>

\* PostAccept: its result is ignored; if a call fails the buffer stays in
\* the list and no operation will take it out.
PostAccept ==
  /\ mn.pc = "post"
  /\ \/ /\ buf' = [buf EXCEPT ![mn.b] = "posted"]
        /\ sclient' = [sclient EXCEPT ![mn.b] = "open"]
        /\ MainGoto("count")
        /\ UNCHANGED failed
     \/ /\ CanFail /\ failed' = TRUE
        /\ buf' = [buf EXCEPT ![mn.b] = "lost"]
        /\ sclient' = [sclient EXCEPT ![mn.b] = "closed"]
        /\ mn' = [mn EXCEPT !.pc = "loop", !.b = NULL]
  /\ UNCHANGED <<listVars, PendingAcceptCount, repostVars, netVars,
                 ListenCritSec, wk, refused, lost, misuse>>

CountAccept ==
  /\ mn.pc = "count"
  /\ PendingAcceptCount' = PendingAcceptCount + 1
  /\ mn' = [mn EXCEPT !.pc = "loop", !.b = NULL]
  /\ UNCHANGED <<buf, sclient, listVars, repostVars, netVars, ListenCritSec,
                 wk, history>>

LoopEnds ==
  /\ mn.pc = "loop" /\ ~MorePosts
  /\ mn' = [pc |-> "wait", first |-> FALSE, limit |-> 0, b |-> NULL]
  /\ UNCHANGED <<buf, sclient, listVars, PendingAcceptCount, repostVars,
                 netVars, ListenCritSec, wk, history>>

\* The wait times out (the counting of 36 timeouts is left out): the main
\* thread enters ListenCritSec to look for silent clients.
Timeout ==
  /\ mn.pc = "wait" /\ ~AcceptEvent /\ ~RepostAccept
  /\ ListenCritSec = NULL /\ ListenCritSec' = Main
  /\ mn' = [mn EXCEPT !.pc = "sweep", !.b = PendingAccepts]
  /\ UNCHANGED <<buf, sclient, listVars, PendingAcceptCount, repostVars,
                 netVars, wk, history>>

\* One buffer of the list: a socket connected for long is closed.
Sweep ==
  /\ mn.pc = "sweep"
  /\ \/ /\ mn.b # NULL /\ mn' = [mn EXCEPT !.b = next[mn.b]]
        /\ sclient' = [sclient EXCEPT ![mn.b] =
                         IF @ = "stale" THEN "closed" ELSE @]
        /\ UNCHANGED ListenCritSec
     \/ /\ mn.b = NULL /\ MainGoto("wait") /\ ListenCritSec' = NULL
        /\ UNCHANGED sclient
  /\ UNCHANGED <<buf, listVars, PendingAcceptCount, repostVars, netVars, wk,
                 history>>

-----------------------------------------------------------------------------
(* A worker handles an accept.                                             *)

Dequeue(w, b) ==
  /\ wk[w].pc = "get" /\ buf[b] \in {"ok", "error"}
  /\ buf' = [buf EXCEPT ![b] = "worker"]
  /\ wk' = [wk EXCEPT ![w] = [pc |-> buf[b], b |-> b]]
  /\ UNCHANGED <<sclient, listVars, PendingAcceptCount, repostVars, netVars,
                 ListenCritSec, mn, history>>

\* The accept failed: the socket is closed and the buffer freed, but it
\* stays in PendingAccepts and counted, and no replacement is asked for.
HandleError(w) ==
  /\ wk[w].pc = "error" /\ refused' = refused + 1 /\ Goto(w, "get")
  /\ FreeBufferObj(wk[w].b, "free")
  /\ UNCHANGED <<PendingAccepts, PendingAcceptCount, repostVars, netVars,
                 ListenCritSec, mn, failed, lost, misuse>>

\* Mutant: a completed accept stays on the count.
CountDownNot(w) ==
  /\ wk[w].pc = "ok" /\ Goto(w, "remove")
  /\ UNCHANGED <<buf, sclient, listVars, PendingAcceptCount, repostVars,
                 netVars, ListenCritSec, mn, history>>

CountDown(w) ==
  /\ wk[w].pc = "ok" /\ Goto(w, "remove")
  /\ PendingAcceptCount' = PendingAcceptCount - 1
  /\ UNCHANGED <<buf, sclient, listVars, repostVars, netVars, ListenCritSec,
                 mn, history>>

\* A walk that never ends keeps the lock.
RemovePendingAccept(w) ==
  /\ wk[w].pc = "remove" /\ ListenCritSec = NULL
  /\ \/ /\ wk[w].b \in Listed(PendingAccepts) \/ Ends(PendingAccepts)
        /\ Remove(wk[w].b) /\ Goto(w, "socket") /\ UNCHANGED ListenCritSec
     \/ /\ wk[w].b \notin Listed(PendingAccepts) /\ ~Ends(PendingAccepts)
        /\ ListenCritSec' = w /\ Goto(w, "hung")
        /\ UNCHANGED <<next, PendingAccepts>>
  /\ UNCHANGED <<buf, sclient, gFreeBufferList, PendingAcceptCount,
                 repostVars, netVars, mn, history>>

\* GetSocketObj, setsockopt and CreateIoCompletionPort; then the buffer is
\* enqueued with next = NULL.  Without a SOCKET_OBJ socket and buffer are
\* freed; after another failure (as for a socket the main thread closed)
\* they are lost and HandleIo returns without asking for a replacement.
Associate(w) ==
  LET b == wk[w].b IN
  /\ wk[w].pc = "socket"
  /\ \/ /\ sclient[b] # "closed" /\ buf' = [buf EXCEPT ![b] = "used"]
        /\ next' = [next EXCEPT ![b] = NULL] /\ Goto(w, "repost")
        /\ UNCHANGED <<sclient, gFreeBufferList, failed>>
     \/ /\ CanFail /\ failed' = TRUE
        /\ FreeBufferObj(b, "free") /\ Goto(w, "repost")
     \/ /\ CanFail \/ sclient[b] = "closed"
        /\ failed' = TRUE /\ buf' = [buf EXCEPT ![b] = "lost"]
        /\ Goto(w, "get") /\ UNCHANGED <<sclient, next, gFreeBufferList>>
  /\ UNCHANGED <<PendingAccepts, PendingAcceptCount, repostVars, netVars,
                 ListenCritSec, mn, refused, lost, misuse>>

CountRepost(w) ==
  /\ wk[w].pc = "repost" /\ Goto(w, "signal")
  /\ RepostCount' = RepostCount + 1
  /\ UNCHANGED <<buf, sclient, listVars, PendingAcceptCount, RepostAccept,
                 netVars, ListenCritSec, mn, history>>

\* Mutant: nobody is woken.
SignalNobody(w) ==
  /\ wk[w].pc = "signal" /\ Goto(w, "get")
  /\ UNCHANGED <<buf, sclient, listVars, PendingAcceptCount, repostVars,
                 netVars, ListenCritSec, mn, history>>

SignalRepost(w) ==
  /\ wk[w].pc = "signal" /\ Goto(w, "get")
  /\ RepostAccept' = TRUE
  /\ UNCHANGED <<buf, sclient, listVars, PendingAcceptCount, RepostCount,
                 netVars, ListenCritSec, mn, history>>

-----------------------------------------------------------------------------
MainStep ==
  \/ TakeAcceptEvent \/ TakeRepost \/ ResetRepost
  \/ GetBufferObj \/ HandOutTwice \/ InsertPendingAccept \/ PostAccept \/ CountAccept
  \/ LoopEnds \/ Timeout \/ Sweep

Work(w) ==
  \/ \E b \in Buffers : Dequeue(w, b)
  \/ HandleError(w) \/ CountDown(w) \/ RemovePendingAccept(w) \/ Associate(w)
  \/ CountRepost(w) \/ SignalRepost(w)

Environment ==
  \/ ClientArrives \/ ClientTaken
  \/ \E b \in Buffers : TimePasses(b) \/ AcceptCompletes(b)
                        \/ ConnectionEnds(b)

Next == ~misuse /\ (Environment \/ MainStep \/ \E w \in Workers : Work(w))

Spec == Init /\ [][Next]_vars
-----------------------------------------------------------------------------
\* The variables stay in their ranges.
TypeOK ==
  /\ buf \in [Buffers -> {"heap", "free", "main", "posted", "ok", "error",
                          "worker", "used", "lost"}]
  /\ sclient \in [Buffers -> {"none", "open", "connected", "stale", "closed"}]
  /\ next \in [Buffers -> Buffers \cup {NULL}]
  /\ gFreeBufferList \in Buffers \cup {NULL}
  /\ PendingAccepts \in Buffers \cup {NULL}
  /\ PendingAcceptCount \in Int /\ RepostCount \in Nat
  /\ RepostAccept \in BOOLEAN /\ AcceptEvent \in BOOLEAN
  /\ ListenCritSec \in Workers \cup {NULL, Main}
  /\ clients \in 0..MaxClients /\ backlog \in 0..MaxClients
  /\ mn \in [pc : {"wait", "reset", "loop", "insert", "post", "count",
                   "sweep"},
             first : BOOLEAN, limit : Nat, b : Buffers \cup {NULL}]
  /\ wk \in [Workers -> [pc : {"get", "ok", "error", "remove", "hung",
                               "socket", "repost", "signal"},
                         b : Buffers \cup {NULL}]]
  /\ failed \in BOOLEAN /\ refused \in Nat
  /\ lost \in BOOLEAN /\ misuse \in BOOLEAN

\* The accepts that are posted, queued or in the hand of a worker that has
\* not yet taken them off the count.
Outstanding ==
  {b \in Buffers : buf[b] \in {"posted", "ok", "error"}} \cup
  {wk[w].b : w \in {v \in Workers : wk[v].pc \in {"ok", "error"}}}

\* PendingAcceptCount is the number of outstanding accepts, less the one not
\* yet added, plus every accept that ever failed.
AcceptsCounted ==
  PendingAcceptCount + (IF mn.pc = "count" THEN 1 ELSE 0)
    = Cardinality(Outstanding) + refused

\* Buffers that the list of pending accepts should hold.
ToBeListed ==
  {b \in Buffers : buf[b] \in {"posted", "ok", "error"}}
  \cup {wk[w].b : w \in {v \in Workers : wk[v].pc \in {"ok", "error", "remove"}}}
  \cup {b \in {mn.b} : mn.pc \in {"post", "count"}
                       /\ buf[b] = "main"}

\* As long as no accept has failed, PendingAccepts holds exactly the pending
\* accepts (and those whose posting failed), the free list the free buffers,
\* and both lists end.
ListsExact == refused = 0 =>
  /\ Ends(PendingAccepts) /\ Ends(gFreeBufferList)
  /\ ToBeListed \subseteq Listed(PendingAccepts)
  /\ ~failed => Listed(PendingAccepts) = ToBeListed
  /\ Listed(gFreeBufferList) = {b \in Buffers : buf[b] = "free"}
  /\ Listed(PendingAccepts) \cap Listed(gFreeBufferList) = {}

\* Everyone is idle, and a client waits for an accept.
Stranded ==
  /\ mn.pc = "wait" /\ ~AcceptEvent /\ ~RepostAccept
  /\ \A w \in Workers : wk[w].pc = "get"
  /\ \A b \in Buffers : buf[b] \notin {"ok", "error"}
  /\ backlog > 0 /\ Waiting = {}

\* When everyone is idle and clients wait, gMaxAccepts accepts are counted,
\* unless a call failed or ResetEvent undid a SetEvent.
NoClientStranded ==
  Stranded /\ ~failed /\ ~lost => PendingAcceptCount >= MaxAccepts
=============================================================================
