----------------------------- MODULE Messaging -----------------------------
(***************************************************************************)
(* Messages to named peers: the peer table of shared/msg.c and the socket  *)
(* transport of shared/mtr-socket.c, in one process.  Tasks send; the      *)
(* listening thread accepts; each peer has a connect, a send and a recv    *)
(* thread; the main thread tears everything down.  A peer stays in the     *)
(* hash table until the tear down, so a peer is named by its address.      *)
(*                                                                         *)
(* A message is a value.  Partial reads and writes (whole_iovec) only      *)
(* delay a transfer; a transfer succeeds or ends the connection.  The wait *)
(* of the send thread has an explicit sleeper, because shutdown_peer       *)
(* changes its condition without a wake up.                                *)
(***************************************************************************)
EXTENDS Integers, Sequences, FiniteSets

CONSTANTS
    Tasks,            \* threads calling ngnfs_msg_send
    Addrs,            \* addresses of peers
    AcceptAddrs,      \* addresses that connect to this process
    MaxSends,         \* bound: messages sent in all
    MaxAccepts,       \* bound: connections accepted
    MaxFails          \* bound: failed thread creations and allocations, closed connections

ASSUME MessagingAssumption ==
    /\ AcceptAddrs \subseteq Addrs /\ IsFiniteSet(Tasks) /\ IsFiniteSet(Addrs)
    /\ MaxSends \in Nat /\ MaxAccepts \in Nat /\ MaxFails \in Nat
    /\ {"listener", "main"} \intersect Tasks = {} /\ "none" \notin Addrs

Users == Tasks \union {"listener", "main"}
Threads == {"connect", "send", "recv"}
NoAddr == "none"

VARIABLES
    peer,             \* struct ngnfs_peer with its socket_peer_info, by address
    thr,              \* where the threads of each peer are
    asleep,           \* peers whose send thread sleeps on pinf->waitq
    queue,            \* send_q of each peer: what was enqueued and not spliced
    unlinked,         \* messages enqueued behind a node that does not point to them yet
    local,            \* what the send thread of each peer has spliced
    user,             \* where each user of get_peer is
    remote,           \* the connection of each peer, as the other side has it
    nsends, naccepts, nfail,
    aborted,          \* why the process died; "" while it lives
    \* history, read by properties only
    sent,             \* messages enqueued for each peer, in order
    races             \* "accept_exist": a connection was accepted from a known address

network == <<remote>>
sending == <<queue, unlinked, local>>
bounds == <<nsends, naccepts, nfail>>
history == <<sent, races>>
vars == <<peer, thr, asleep, sending, user, network, bounds, aborted, history>>

\* get_peer's new peer: a reference for its caller and one for the hash table.  fd is -1,
\* open or shut down.
NoPeer == [inht |-> FALSE, refcount |-> 0, fd |-> "none", err |-> FALSE, shutdown |-> FALSE,
           stop |-> {}, freed |-> FALSE]
NewPeer == [NoPeer EXCEPT !.inht = TRUE, !.refcount = 2]
NoThreads == [x \in Threads |-> "none"]
IdleUser == [pc |-> "idle", addr |-> NoAddr, msg |-> 0, left |-> << >>]
Busy(l, a) == [IdleUser EXCEPT !.pc = l, !.addr = a]

Init ==
    /\ peer = [a \in Addrs |-> NoPeer]
    /\ thr = [a \in Addrs |-> NoThreads]
    /\ asleep = {}
    /\ queue = [a \in Addrs |-> << >>] /\ unlinked = {} /\ local = [a \in Addrs |-> << >>]
    /\ user = [u \in Users |-> IdleUser]
    /\ remote = [a \in Addrs |-> [open |-> TRUE, got |-> << >>]]
    /\ nsends = 0 /\ naccepts = 0 /\ nfail = 0
    /\ aborted = ""
    /\ sent = [a \in Addrs |-> << >>] /\ races = {}

-----------------------------------------------------------------------------
At(u, l) == aborted = "" /\ user[u].pc = l
Addr(u) == user[u].addr
Goto(u, l) == user' = [user EXCEPT ![u].pc = l]
Accepted(u) == u = "listener"
\* ngnfs_msg_send goes on to send, ngnfs_msg_accept puts the peer
AfterStart(u) == IF Accepted(u) THEN "put" ELSE "send"
\* Where start_send_recv leaves the connect thread, when it runs in it
Returned(l) == IF l = "connect" THEN "exit" ELSE l
Failing(l) == IF l = "connect" THEN "fail" ELSE l

Abort(why) ==
    /\ aborted' = why
    /\ UNCHANGED <<peer, thr, asleep, sending, user, network, bounds, history>>

\* shutdown_peer without its last statement: the threads are told to return and the
\* socket is shut down, once; nobody is woken
ShutDown(p) ==
    IF p.shutdown THEN p
    ELSE [p EXCEPT !.shutdown = TRUE, !.stop = Threads, !.fd = IF @ = "none" THEN @ ELSE "shut"]

-----------------------------------------------------------------------------
(***************************************************************************)
(* get_peer, for ngnfs_msg_send and for ngnfs_msg_accept                   *)
(***************************************************************************)
\* ngnfs_msg_send
CallSend(t, a) ==
    /\ At(t, "idle") /\ user["main"].pc = "idle"
    /\ nsends < MaxSends
    /\ nsends' = nsends + 1
    /\ user' = [user EXCEPT ![t] = [Busy("lookup", a) EXCEPT !.msg = nsends + 1]]
    /\ UNCHANGED <<peer, thr, asleep, sending, network, naccepts, nfail, aborted, history>>

\* socket_listen_thread accepts a connection and calls ngnfs_msg_accept
CallAccept(a) ==
    /\ At("listener", "idle") /\ user["main"].pc = "idle"
    /\ naccepts < MaxAccepts
    /\ naccepts' = naccepts + 1
    /\ user' = [user EXCEPT !["listener"] = Busy("lookup", a)]
    /\ UNCHANGED <<peer, thr, asleep, sending, network, nsends, nfail, aborted, history>>

\* rhashtable_lookup: an accepted connection from a known address is -EEXIST, and the
\* reference that was not taken is put
Lookup(u) ==
    /\ At(u, "lookup")
    /\ LET a == Addr(u) IN
         \/ /\ ~peer[a].inht
            /\ Goto(u, "insert")
            /\ UNCHANGED <<peer, races>>
         \/ /\ peer[a].inht /\ ~Accepted(u)
            /\ peer' = [peer EXCEPT ![a].refcount = @ + 1]
            /\ Goto(u, "send")
            /\ UNCHANGED races
         \/ /\ peer[a].inht /\ Accepted(u)
            /\ races' = races \union {"accept_exist"}
            /\ Goto(u, "put")
            /\ UNCHANGED peer
    /\ UNCHANGED <<thr, asleep, sending, network, bounds, aborted, sent>>

\* Allocate a peer and insert it; when another was inserted meanwhile the new one is freed
\* and the other one referenced
Insert(u) ==
    /\ At(u, "insert")
    /\ LET a == Addr(u) IN
         \/ /\ ~peer[a].inht
            /\ peer' = [peer EXCEPT ![a] = NewPeer]
            /\ Goto(u, "start")
            /\ UNCHANGED nfail
         \/ /\ peer[a].inht
            /\ peer' = [peer EXCEPT ![a].refcount = @ + 1]
            /\ Goto(u, AfterStart(u))
            /\ UNCHANGED nfail
         \/ /\ nfail < MaxFails /\ nfail' = nfail + 1
            /\ user' = [user EXCEPT ![u] = IdleUser]
            /\ UNCHANGED peer
    /\ UNCHANGED <<thr, asleep, sending, network, nsends, naccepts, aborted, history>>

\* start_send_recv by a thread that has set pinf->fd: both threads, or a failure of the
\* first or the second pthread_create
StartSendRecv(a) ==
    \/ /\ thr' = [thr EXCEPT ![a] = [connect |-> Returned(@.connect), send |-> "top", recv |-> "top"]]
       /\ UNCHANGED nfail
    \/ /\ nfail < MaxFails /\ nfail' = nfail + 1
       /\ \E l \in {"none", "top"} :
            thr' = [thr EXCEPT ![a] = [connect |-> Failing(@.connect), send |-> l, recv |-> "none"]]

\* socket_start: an accepted socket is used, otherwise the connect thread gets one
Start(u) ==
    /\ At(u, "start")
    /\ LET a == Addr(u) IN
         \/ /\ Accepted(u)
            /\ peer' = [peer EXCEPT ![a].fd = "open"]
            /\ StartSendRecv(a)
         \/ /\ ~Accepted(u)
            /\ \/ /\ thr' = [thr EXCEPT ![a].connect = "connect"]
                  /\ UNCHANGED nfail
               \/ /\ nfail < MaxFails /\ nfail' = nfail + 1
                  /\ UNCHANGED thr
            /\ UNCHANGED peer
    /\ Goto(u, IF nfail' # nfail THEN "fail" ELSE AfterStart(u))
    /\ UNCHANGED <<asleep, sending, network, nsends, naccepts, aborted, history>>

\* Its failures shut the peer down, and it returns 0
StartFail(u) ==
    /\ At(u, "fail")
    /\ peer' = [peer EXCEPT ![Addr(u)] = [ShutDown(@) EXCEPT !.err = TRUE]]
    /\ Goto(u, AfterStart(u))
    /\ UNCHANGED <<thr, asleep, sending, network, bounds, aborted, history>>

\* Mutant of PutPeer: the reference is not put.
PutPeerNone(p) == p

PutPeer(p) == [p EXCEPT !.refcount = @ - 1]

\* put_peer; the last reference destroys the peer.  The main thread goes on with the next.
Put(u) ==
    /\ At(u, "put")
    /\ LET a == Addr(u) IN
         /\ peer' = [peer EXCEPT ![a] = PutPeer(@)]
         /\ user' = [user EXCEPT ![u] =
                       IF peer[a].refcount = 1
                       THEN [Busy("stop", a) EXCEPT !.left = <<"connect", "send", "recv">>]
                       ELSE IF u = "main" THEN Busy("destroy", NoAddr) ELSE IdleUser]
    /\ UNCHANGED <<thr, asleep, sending, network, bounds, aborted, history>>

Created(a) == {x \in Threads : thr[a][x] # "none"}

\* socket_destroy_peer: thread_stop_wait of one thread after the other, ...
StopIndicate(u) ==
    /\ At(u, "stop")
    /\ peer' = [peer EXCEPT ![Addr(u)].stop = @ \union (Created(Addr(u)) \intersect {Head(user[u].left)})]
    /\ Goto(u, "join")
    /\ UNCHANGED <<thr, asleep, sending, network, bounds, aborted, history>>

\* Mutant of Join: nobody waits for the threads.
JoinNone(u) ==
    /\ At(u, "join")
    /\ peer' = [peer EXCEPT ![Addr(u)].freed = TRUE]
    /\ user' = [user EXCEPT ![u] = IF u = "main" THEN Busy("destroy", NoAddr) ELSE IdleUser]
    /\ UNCHANGED <<thr, asleep, sending, network, bounds, aborted, history>>

\* ... then the socket is closed and the peer freed
Join(u) ==
    /\ At(u, "join")
    /\ LET a == Addr(u)
           last == Len(user[u].left) = 1
       IN  /\ thr[a][Head(user[u].left)] \in {"none", "exit"}
           /\ peer' = IF last THEN [peer EXCEPT ![a].freed = TRUE] ELSE peer
           /\ user' = [user EXCEPT ![u] =
                         IF ~last THEN [user[u] EXCEPT !.pc = "stop", !.left = Tail(user[u].left)]
                         ELSE IF u = "main" THEN Busy("destroy", NoAddr) ELSE IdleUser]
    /\ UNCHANGED <<thr, asleep, sending, network, bounds, aborted, history>>

-----------------------------------------------------------------------------
(***************************************************************************)
(* socket_send                                                             *)
(***************************************************************************)
\* A peer with an error, or a failed allocation, ends the send.  Otherwise the message
\* becomes the tail of the queue, ...
Enqueue(u) ==
    /\ At(u, "send")
    /\ LET a == Addr(u)
           m == user[u].msg
       IN  \/ /\ peer[a].err
              /\ Goto(u, "put")
              /\ UNCHANGED <<queue, unlinked, sent, nfail>>
           \/ /\ ~peer[a].err
              /\ queue' = [queue EXCEPT ![a] = Append(@, m)]
              /\ unlinked' = unlinked \union {m}
              /\ sent' = [sent EXCEPT ![a] = Append(@, m)]
              /\ Goto(u, "link")
              /\ UNCHANGED nfail
           \/ /\ ~peer[a].err
              /\ nfail < MaxFails /\ nfail' = nfail + 1
              /\ Goto(u, "put")
              /\ UNCHANGED <<queue, unlinked, sent>>
    /\ UNCHANGED <<peer, thr, asleep, local, network, nsends, naccepts, aborted, races>>

\* ... its predecessor points to it, ...
Link(u) ==
    /\ At(u, "link")
    /\ unlinked' = unlinked \ {user[u].msg}
    /\ Goto(u, "wake")
    /\ UNCHANGED <<peer, thr, asleep, queue, local, network, bounds, aborted, history>>

\* Mutant of Wake: the send thread is not woken.
WakeNone(u) ==
    /\ At(u, "wake")
    /\ Goto(u, "put")
    /\ UNCHANGED <<peer, thr, asleep, sending, network, bounds, aborted, history>>

\* ... and the send thread is woken
Wake(u) ==
    /\ At(u, "wake")
    /\ asleep' = asleep \ {Addr(u)}
    /\ Goto(u, "put")
    /\ UNCHANGED <<peer, thr, sending, network, bounds, aborted, history>>

-----------------------------------------------------------------------------
(***************************************************************************)
(* socket_send_thread                                                      *)
(***************************************************************************)
ThrAt(a, x, l) == aborted = "" /\ thr[a][x] = l
ThrGoto(a, x, l) == thr' = [thr EXCEPT ![a][x] = l]

SendTop(a) ==
    /\ ThrAt(a, "send", "top")
    /\ ThrGoto(a, "send", IF "send" \in peer[a].stop THEN "out" ELSE "wait")
    /\ UNCHANGED <<peer, asleep, sending, user, network, bounds, aborted, history>>

\* Mutant of Spliced: what was spliced before is overwritten.
SplicedEmpty(a) == << >>

\* A queue whose first node is not linked yet would block and is left alone.
CanSplice(a) == queue[a] # << >> /\ Head(queue[a]) \notin unlinked
Spliced(a) == IF CanSplice(a) THEN local[a] \o queue[a] ELSE local[a]

\* wait_event, and the splice when it returns
SendWait(a) ==
    /\ ThrAt(a, "send", "wait")
    /\ a \notin asleep
    /\ IF queue[a] # << >> \/ "send" \in peer[a].stop
       THEN /\ local' = [local EXCEPT ![a] = Spliced(a)]
            /\ queue' = [queue EXCEPT ![a] = IF CanSplice(a) THEN << >> ELSE @]
            /\ ThrGoto(a, "send", "dequeue")
            /\ UNCHANGED asleep
       ELSE /\ asleep' = asleep \union {a}
            /\ UNCHANGED <<local, queue, thr>>
    /\ UNCHANGED <<peer, unlinked, user, network, bounds, aborted, history>>

\* Taking a node from the local queue needs its link to the next one
WouldBlock(a) == Len(local[a]) > 1 /\ local[a][2] \in unlinked

\* Dequeue a message and write it.  The write fails when the socket was shut down, and may
\* fail when the other side has closed the connection.
SendWrite(a) ==
    /\ ThrAt(a, "send", "dequeue")
    /\ \/ /\ local[a] = << >>
          /\ ThrGoto(a, "send", "top")
          /\ UNCHANGED <<local, remote>>
       \/ /\ local[a] # << >> /\ ~WouldBlock(a)
          /\ peer[a].fd = "open"
          /\ remote' = [remote EXCEPT ![a].got = IF remote[a].open THEN Append(@, Head(local[a])) ELSE @]
          /\ local' = [local EXCEPT ![a] = Tail(@)]
          /\ UNCHANGED thr
       \/ /\ local[a] # << >> /\ ~WouldBlock(a)
          /\ peer[a].fd = "shut" \/ ~remote[a].open
          /\ local' = [local EXCEPT ![a] = Tail(@)]
          /\ ThrGoto(a, "send", "fail")
          /\ UNCHANGED remote
    /\ UNCHANGED <<peer, asleep, queue, unlinked, user, bounds, aborted, history>>

\* assert(node != CDS_WFCQ_WOULDBLOCK)
SendAssert(a) ==
    /\ \E l \in {"dequeue", "out", "fail"} : ThrAt(a, "send", l)
    /\ WouldBlock(a)
    /\ Abort("wouldblock")

\* Free what is left and shut the peer down, with the error of a failed write
SendOut(a) ==
    /\ \E l \in {"out", "fail"} : ThrAt(a, "send", l)
    /\ ~WouldBlock(a)
    /\ local' = [local EXCEPT ![a] = << >>]
    /\ peer' = [peer EXCEPT ![a] = ShutDown(@)]
    /\ ThrGoto(a, "send", IF thr[a].send = "fail" THEN "err" ELSE "exit")
    /\ UNCHANGED <<asleep, queue, unlinked, user, network, bounds, aborted, history>>

\* The last statement of shutdown_peer
SetErr(a, x) ==
    /\ ThrAt(a, x, "err")
    /\ peer' = [peer EXCEPT ![a].err = TRUE]
    /\ ThrGoto(a, x, "exit")
    /\ UNCHANGED <<asleep, sending, user, network, bounds, aborted, history>>

-----------------------------------------------------------------------------
(***************************************************************************)
(* socket_recv_thread and socket_connect_thread                            *)
(***************************************************************************)
RecvTop(a) ==
    /\ ThrAt(a, "recv", "top")
    /\ ThrGoto(a, "recv", IF "recv" \in peer[a].stop THEN "out" ELSE "read")
    /\ UNCHANGED <<peer, asleep, sending, user, network, bounds, aborted, history>>

\* A message arrives and is handled by ngnfs_msg_recv; a bad header, a failed allocation or a
\* failed handler end the thread.  With nothing to read the thread waits.
RecvMsg(a) ==
    /\ ThrAt(a, "recv", "read")
    /\ peer[a].fd = "open" /\ remote[a].open
    /\ \E l \in {"top", "fail"} : ThrGoto(a, "recv", l)
    /\ UNCHANGED <<peer, asleep, sending, user, network, bounds, aborted, history>>

\* A closed or shut down socket ends the thread
RecvClosed(a) ==
    /\ ThrAt(a, "recv", "read")
    /\ peer[a].fd = "shut" \/ ~remote[a].open
    /\ ThrGoto(a, "recv", "fail")
    /\ UNCHANGED <<peer, asleep, sending, user, network, bounds, aborted, history>>

\* The connection is made and both threads are started, or it is refused, or no socket is
\* to be had.  A refused connection has its error negated twice: nothing is shut down.
Connect(a) ==
    /\ ThrAt(a, "connect", "connect")
    /\ \/ /\ peer' = [peer EXCEPT ![a].fd = "open"]
          /\ StartSendRecv(a)
       \/ /\ ~remote[a].open
          /\ ThrGoto(a, "connect", "exit")
          /\ UNCHANGED <<peer, nfail>>
       \/ /\ nfail < MaxFails /\ nfail' = nfail + 1
          /\ ThrGoto(a, "connect", "fail")
          /\ UNCHANGED peer
    /\ UNCHANGED <<asleep, sending, user, network, nsends, naccepts, aborted, history>>

\* Either one ends by shutting the peer down, the connect thread only after an error
ThreadOut(a, x) ==
    /\ \E l \in {"out", "fail"} : ThrAt(a, x, l)
    /\ peer' = [peer EXCEPT ![a] = ShutDown(@)]
    /\ ThrGoto(a, x, IF thr[a][x] = "fail" THEN "err" ELSE "exit")
    /\ UNCHANGED <<asleep, sending, user, network, bounds, aborted, history>>

\* The other side goes away.
RemoteClose(a) ==
    /\ aborted = "" /\ remote[a].open
    /\ nfail < MaxFails /\ nfail' = nfail + 1
    /\ remote' = [remote EXCEPT ![a].open = FALSE]
    /\ UNCHANGED <<peer, thr, asleep, sending, user, nsends, naccepts, aborted, history>>

-----------------------------------------------------------------------------
(***************************************************************************)
(* ngnfs_msg_destroy, called when nobody sends any more                    *)
(***************************************************************************)
\* socket_stop_listen ends and joins the listening thread
StopListen ==
    /\ At("main", "idle")
    /\ \A u \in Users : user[u].pc = "idle"
    /\ user' = [user EXCEPT !["main"] = Busy("destroy", NoAddr)]
    /\ UNCHANGED <<peer, thr, asleep, sending, network, bounds, aborted, history>>

\* rhashtable_free_and_destroy puts the table's reference to every peer
DestroyPeer(a) ==
    /\ At("main", "destroy")
    /\ peer[a].inht
    /\ peer' = [peer EXCEPT ![a].inht = FALSE]
    /\ user' = [user EXCEPT !["main"] = Busy("put", a)]
    /\ UNCHANGED <<thr, asleep, sending, network, bounds, aborted, history>>

UserStep(u) ==
    \/ Lookup(u) \/ Insert(u) \/ Start(u) \/ StartFail(u) \/ Put(u)
    \/ StopIndicate(u) \/ Join(u)
    \/ u \in Tasks /\ (Enqueue(u) \/ Link(u) \/ Wake(u))
SendStep(a) == SendTop(a) \/ SendWait(a) \/ SendWrite(a) \/ SendAssert(a) \/ SendOut(a) \/ SetErr(a, "send")
RecvStep(a) == RecvTop(a) \/ RecvClosed(a) \/ ThreadOut(a, "recv") \/ SetErr(a, "recv")
ConnectStep(a) == Connect(a) \/ ThreadOut(a, "connect") \/ SetErr(a, "connect")
Tear == StopListen \/ \E a \in Addrs : DestroyPeer(a)

Next ==
    \/ \E t \in Tasks, a \in Addrs : CallSend(t, a)
    \/ \E a \in AcceptAddrs : CallAccept(a)
    \/ \E u \in Users : UserStep(u)
    \/ \E a \in Addrs : SendStep(a) \/ RecvStep(a) \/ ConnectStep(a) \/ RecvMsg(a) \/ RemoteClose(a)
    \/ Tear

Spec == Init /\ [][Next]_vars

\* Every thread is scheduled; nobody is obliged to send, to connect, to close a connection
\* or to tear down.
Fairness ==
    /\ \A u \in Users : WF_vars(UserStep(u))
    /\ \A a \in Addrs : WF_vars(SendStep(a)) /\ WF_vars(RecvStep(a)) /\ WF_vars(ConnectStep(a))
    /\ \A a \in Addrs : WF_vars(DestroyPeer(a))
FairSpec == Spec /\ Fairness

-----------------------------------------------------------------------------
(***************************************************************************)
(* Properties                                                              *)
(***************************************************************************)
\* The process lives and no connection came from a known address (get_peer then puts a
\* reference that it has not taken).
Sound == aborted = "" /\ races = {}

\* A peer's reference count is the number of its holders: the hash table and the users that
\* found or made it, whoever wins the race to insert it and however its start ends.
Holders(a) == {u \in Users : Addr(u) = a /\ user[u].pc \in {"start", "fail", "send", "link", "wake", "put"}}
PeerRefs ==
    Sound => \A a \in Addrs :
               peer[a].refcount = Cardinality(Holders(a)) + (IF peer[a].inht THEN 1 ELSE 0)

\* A peer is not freed while one of its threads runs, a user has it or the table holds it.
FreedUnused ==
    Sound => \A a \in Addrs : peer[a].freed =>
               /\ \A x \in Threads : thr[a][x] \in {"none", "exit"}
               /\ \A u \in Users : Addr(u) # a
               /\ ~peer[a].inht

\* The other side receives the messages to a peer in the order in which they were queued,
\* none twice, and none is lost between the queue, the splice and the socket as long as the
\* peer was not shut down and the connection lives.
IsPrefixOf(p, q) == Len(p) <= Len(q) /\ \A i \in DOMAIN p : p[i] = q[i]
OrderedDelivery ==
    Sound => \A a \in Addrs :
               /\ IsPrefixOf(remote[a].got, sent[a])
               /\ ~peer[a].shutdown /\ remote[a].open => sent[a] = remote[a].got \o local[a] \o queue[a]

\* A queued message does not wait for ever on a peer that has its send thread: it is written,
\* or the peer is shut down.  No wake up of the send thread is lost.
ToWrite(a) == queue[a] # << >> \/ local[a] # << >>
SendProgress ==
    \A a \in Addrs : (ToWrite(a) /\ thr[a].send \notin {"none", "exit"})
                       ~> (~ToWrite(a) \/ peer[a].shutdown \/ ~Sound)
=============================================================================
