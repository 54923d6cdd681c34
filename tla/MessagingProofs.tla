-------------------------- MODULE MessagingProofs --------------------------
(***************************************************************************)
(* Proofs about module Messaging, for any tasks, addresses, messages,      *)
(* connections and failures: a peer's reference count is the number of its *)
(* holders, a peer is freed when nobody uses it, and its messages are      *)
(* delivered in order, until a connection is accepted from an address that *)
(* has a peer or the process dies.                                         *)
(*                                                                         *)
(* The process has two phases.  While the main thread is idle a peer that  *)
(* was inserted stays in the table, so nobody puts its last reference and  *)
(* no peer is freed.  Once it is not, no other thread has a peer, and the  *)
(* main thread joins the threads of one peer after the other: the connect  *)
(* thread first, which is the only one that could start the other two.     *)
(***************************************************************************)
EXTENDS Messaging, SequenceTheorems, FiniteSetTheorems, TLAPS

ThrStates == {"none", "connect", "top", "wait", "dequeue", "read", "out", "fail", "err", "exit"}
Done == {"none", "exit"}
Holding == {"start", "fail", "send", "link", "wake", "put"}
Peers == [inht: BOOLEAN, refcount: Int, fd: {"none", "open", "shut"}, err: BOOLEAN, shutdown: BOOLEAN,
          stop: SUBSET Threads, freed: BOOLEAN]
Remotes == [open: BOOLEAN, got: Seq(Nat)]
Lefts == {<< >>, <<"connect", "send", "recv">>, <<"send", "recv">>, <<"recv">>}
UserStates == [pc: Holding \union {"idle", "lookup", "insert", "stop", "join", "destroy"},
               addr: Addrs \union {NoAddr}, msg: Nat, left: Lefts]

TypeInv ==
    /\ peer \in [Addrs -> Peers] /\ thr \in [Addrs -> [Threads -> ThrStates]]
    /\ queue \in [Addrs -> Seq(Nat)] /\ local \in [Addrs -> Seq(Nat)] /\ sent \in [Addrs -> Seq(Nat)]
    /\ remote \in [Addrs -> Remotes] /\ user \in [Users -> UserStates] /\ nsends \in Nat

Tearing == user["main"].pc # "idle"

\* Who has an address, and who the main thread leaves to itself.
UserInv ==
    /\ \A u \in Users : user[u].addr = NoAddr <=> user[u].pc \in {"idle", "destroy"}
    /\ user["main"].pc \in {"idle", "destroy", "put", "stop", "join"}
    /\ \A u \in Users \ {"main"} : user[u].pc \notin {"destroy", "stop", "join"}
    /\ Tearing => \A u \in Users \ {"main"} : user[u].pc = "idle"

RefInv == \A a \in Addrs : peer[a].refcount = Cardinality(Holders(a)) + (IF peer[a].inht THEN 1 ELSE 0)

\* A peer that is not in the table has not been made yet, or is torn down.
TableInv ==
    /\ ~Tearing => \A a \in Addrs :
          /\ ~peer[a].freed
          /\ ~peer[a].inht => Holders(a) = {} /\ \A x \in Threads : thr[a][x] = "none"
    /\ user["main"].pc \in {"put", "stop", "join"} => ~peer[Addr("main")].inht /\ ~peer[Addr("main")].freed

\* The threads of a peer are started once: by whoever has inserted it, or by the connect
\* thread that it has started.
StartInv ==
    /\ \A u \in Users : user[u].pc = "start" => \A x \in Threads : thr[Addr(u)][x] = "none"
    /\ \A u, v \in Users : user[u].pc = "start" /\ user[v].pc = "start" /\ Addr(u) = Addr(v) => u = v
    /\ \A a \in Addrs : thr[a].connect = "connect" => thr[a].send = "none" /\ thr[a].recv = "none"

\* The threads that were joined are gone for good.
JoinInv ==
    /\ \A a \in Addrs : peer[a].freed => ~peer[a].inht /\ \A x \in Threads : thr[a][x] \in Done
    /\ user["main"].pc \in {"stop", "join"} =>
          /\ user["main"].left # << >>
          /\ user["main"].left = <<"send", "recv">> => thr[Addr("main")].connect \in Done
          /\ user["main"].left = <<"recv">> => /\ thr[Addr("main")].connect \in Done
                                               /\ thr[Addr("main")].send \in Done

\* The send thread does not stop before the peer is shut down or the connection is closed.
ShutInv ==
    \A a \in Addrs :
        /\ peer[a].fd = "shut" => peer[a].shutdown
        /\ thr[a].send = "fail" => peer[a].shutdown \/ ~remote[a].open
        /\ thr[a].send \in {"err", "exit"} => peer[a].shutdown

DeliverInv ==
    \A a \in Addrs :
        /\ IsPrefixOf(remote[a].got, sent[a])
        /\ remote[a].open /\ thr[a].send \notin {"fail", "err", "exit"} =>
              sent[a] = remote[a].got \o local[a] \o queue[a]

Inv == TypeInv /\ UserInv /\ RefInv /\ TableInv /\ StartInv /\ JoinInv /\ ShutInv /\ DeliverInv
IInv == Sound => Inv

-----------------------------------------------------------------------------
(***************************************************************************)
(* Users, holders and references                                           *)
(***************************************************************************)
\* The listening thread and the main thread are users and no tasks; NoAddr is no address.
LEMMA UserFacts ==
    /\ "main" \in Users /\ "listener" \in Users /\ "main" # "listener" /\ "main" \notin Tasks
    /\ Tasks \subseteq Users /\ AcceptAddrs \subseteq Addrs /\ NoAddr \notin Addrs
    /\ \A t \in Tasks : ~Accepted(t) /\ t # "main"
  BY MessagingAssumption DEF Users, NoAddr, Accepted

\* There are finitely many users, so every peer has finitely many holders.
LEMMA FiniteHolders == \A a : IsFiniteSet(Holders(a)) /\ Cardinality(Holders(a)) \in Nat
<1>1. IsFiniteSet({"listener", "main"})
  <2>1. IsFiniteSet({}) /\ IsFiniteSet({} \union {"listener"})
    BY FS_EmptySet, FS_AddElement
  <2>2. IsFiniteSet(({} \union {"listener"}) \union {"main"})
    BY <2>1, FS_AddElement
  <2>3. ({} \union {"listener"}) \union {"main"} = {"listener", "main"}
    OBVIOUS
  <2> QED BY <2>2, <2>3
<1>2. IsFiniteSet(Users)
  BY <1>1, MessagingAssumption, FS_Union DEF Users
<1>3. \A a : Holders(a) \subseteq Users
  BY DEF Holders
<1> QED BY <1>2, <1>3, FS_Subset, FS_CardinalityType

\* A user that takes a reference is one holder more, ...
LEMMA AddHolder ==
    ASSUME NEW a, NEW u, u \notin Holders(a), Holders(a)' = Holders(a) \union {u}
    PROVE  Cardinality(Holders(a))' = Cardinality(Holders(a)) + 1
<1>1. IsFiniteSet(Holders(a))
  BY FiniteHolders
<1>2. Cardinality(Holders(a) \union {u}) = Cardinality(Holders(a)) + 1
  BY <1>1, FS_AddElement
<1> QED BY <1>2

\* ... and one that puts it is one holder less.
LEMMA RemoveHolder ==
    ASSUME NEW a, NEW u, u \in Holders(a), Holders(a)' = Holders(a) \ {u}
    PROVE  Cardinality(Holders(a))' = Cardinality(Holders(a)) - 1
<1>1. IsFiniteSet(Holders(a))
  BY FiniteHolders
<1>2. Cardinality(Holders(a) \ {u}) = Cardinality(Holders(a)) - 1
  BY <1>1, FS_RemoveElement
<1> QED BY <1>2

\* Holders by field, for the provers.
LEMMA HolderFields ==
    /\ \A a, u : u \in Holders(a) <=> u \in Users /\ user[u].addr = a /\ user[u].pc \in Holding
    /\ \A a, u : u \in Holders(a)' <=> u \in Users /\ user'[u].addr = a /\ user'[u].pc \in Holding
  BY DEF Holders, Addr, Holding

-----------------------------------------------------------------------------
(***************************************************************************)
(* Steps that change no user                                               *)
(***************************************************************************)
\* A step of a peer's threads, or of the other side, touches neither users nor references,
\* and only a connect thread that is about to connect restarts a thread that had ended.
LEMMA ThreadsInv ==
    ASSUME Inv, TypeInv', UNCHANGED user,
           \A b \in Addrs : /\ peer'[b].inht = peer[b].inht /\ peer'[b].refcount = peer[b].refcount
                            /\ peer'[b].freed = peer[b].freed,
           \A b \in Addrs : \A x \in Threads :
               thr[b][x] \in Done => thr'[b][x] = thr[b][x] \/ thr[b].connect = "connect",
           \A b \in Addrs : thr'[b].connect = "connect" => thr'[b].send = "none" /\ thr'[b].recv = "none",
           ShutInv', DeliverInv'
    PROVE  Inv'
<1> USE UserFacts DEF Addr
<1>1. UserInv'
  BY DEF Inv, UserInv, Tearing
<1>2. \A a : Holders(a)' = Holders(a)
  BY DEF Holders
<1>3. RefInv'
  BY <1>2 DEF Inv, RefInv
<1>t. "connect" \in Threads /\ "send" \in Threads /\ "recv" \in Threads /\ "none" \in Done /\ "exit" \in Done
  BY DEF Threads, Done
<1>4. \A b \in Addrs : (\A x \in Threads : thr[b][x] = "none") => \A x \in Threads : thr'[b][x] = "none"
  BY <1>t
<1>5. TableInv'
  <2>1. user["main"].pc \in {"put", "stop", "join"} => user["main"].addr \in Addrs
    BY DEF Inv, TypeInv, UserStates, UserInv
  <2>2. ASSUME ~Tearing, NEW b \in Addrs
        PROVE  ~peer'[b].freed /\ (~peer'[b].inht => Holders(b)' = {} /\ \A x \in Threads : thr'[b][x] = "none")
    BY <1>2, <1>4, <2>2 DEF Inv, TableInv
  <2>3. Tearing' <=> Tearing
    BY DEF Tearing
  <2>4. user["main"].pc \in {"put", "stop", "join"} => ~peer'[Addr("main")].inht /\ ~peer'[Addr("main")].freed
    BY <2>1 DEF Inv, TableInv
  <2> QED BY <2>2, <2>3, <2>4 DEF TableInv
<1>u. \A u \in Users : user[u].pc = "start" => user[u].addr \in Addrs
  BY DEF Inv, TypeInv, UserStates, UserInv
<1>6. StartInv'
  BY <1>4, <1>u DEF Inv, StartInv
<1>7. JoinInv'
  <2>1. user["main"].pc \in {"stop", "join"} => user["main"].addr \in Addrs
    BY DEF Inv, TypeInv, UserStates, UserInv
  <2>2. \A b \in Addrs : (\A x \in Threads : thr[b][x] \in Done) => \A x \in Threads : thr'[b][x] \in Done
    BY <1>t DEF Done
  <2>3. \A b \in Addrs : thr[b].connect \in Done => thr'[b].connect \in Done /\ (thr[b].send \in Done => thr'[b].send \in Done)
    BY <1>t DEF Done
  <2> QED BY <2>1, <2>2, <2>3 DEF Inv, JoinInv
<1> QED BY <1>1, <1>3, <1>5, <1>6, <1>7 DEF Inv

\* The messages to a peer are where they were, and its send thread does not come back.
LEMMA SameDeliver ==
    ASSUME DeliverInv, UNCHANGED <<remote, sent, local, queue>>,
           \A b \in Addrs : thr[b].send \in {"fail", "err", "exit"} => thr'[b].send \in {"fail", "err", "exit"}
    PROVE  DeliverInv'
  BY DEF DeliverInv

\* What shutting a peer down does to its record.
LEMMA ShutDownFields ==
    ASSUME NEW p \in Peers
    PROVE  /\ ShutDown(p) \in Peers /\ ShutDown(p).shutdown /\ ShutDown(p).inht = p.inht
           /\ ShutDown(p).refcount = p.refcount /\ ShutDown(p).freed = p.freed
  BY DEF Peers, ShutDown

\* A step that moves one thread of a peer changes nothing else about the threads.
LEMMA ThrGotoFields ==
    ASSUME TypeInv, NEW a \in Addrs, NEW x \in Threads, NEW l \in ThrStates, ThrGoto(a, x, l)
    PROVE  /\ thr' \in [Addrs -> [Threads -> ThrStates]]
           /\ thr'[a][x] = l
           /\ \A b \in Addrs : \A y \in Threads : <<b, y>> # <<a, x>> => thr'[b][y] = thr[b][y]
  BY DEF TypeInv, ThrGoto

\* A thread that has not ended takes one step; peers, sockets and messages stay.
LEMMA GotoInv ==
    ASSUME Inv, NEW a \in Addrs, NEW x \in Threads, NEW l \in ThrStates, ThrGoto(a, x, l),
           thr[a][x] \notin Done, l # "connect",
           x = "send" => thr[a].send \notin {"fail", "err"} /\ l \notin {"fail", "err", "exit"},
           UNCHANGED <<peer, sending, user, network, bounds, sent>>
    PROVE  Inv'
<1>1. /\ thr' \in [Addrs -> [Threads -> ThrStates]] /\ thr'[a][x] = l
      /\ \A b \in Addrs : \A y \in Threads : <<b, y>> # <<a, x>> => thr'[b][y] = thr[b][y]
  BY ThrGotoFields DEF Inv
<1>t. "connect" \in Threads /\ "send" \in Threads /\ "recv" \in Threads
  BY DEF Threads
<1>2. TypeInv'
  BY <1>1 DEF Inv, TypeInv, sending, network, bounds
<1>3. ShutInv'
  BY <1>1, <1>t DEF Inv, ShutInv, sending, network, Done
<1>4. DeliverInv'
  <2>1. \A b \in Addrs : thr[b].send \in {"fail", "err", "exit"} => thr'[b].send \in {"fail", "err", "exit"}
    BY <1>1, <1>t DEF Done
  <2> QED BY <2>1, SameDeliver DEF Inv, sending, network
<1>5. \A b \in Addrs : \A y \in Threads : thr[b][y] \in Done => thr'[b][y] = thr[b][y]
  BY <1>1
<1>6. \A b \in Addrs : thr'[b].connect = "connect" => thr'[b].send = "none" /\ thr'[b].recv = "none"
  BY <1>1, <1>5, <1>t DEF Inv, StartInv, Done
<1> QED BY <1>2, <1>3, <1>4, <1>5, <1>6, ThreadsInv DEF Inv

LEMMA SendTopInv == ASSUME Inv, NEW a \in Addrs, SendTop(a) PROVE Inv'
<1>1. CASE "send" \in peer[a].stop
  <2>1. ThrGoto(a, "send", "out")
    BY <1>1 DEF SendTop
  <2> QED BY <2>1, GotoInv DEF SendTop, ThrAt, Threads, ThrStates, Done, history
<1>2. CASE "send" \notin peer[a].stop
  <2>1. ThrGoto(a, "send", "wait")
    BY <1>2 DEF SendTop
  <2> QED BY <2>1, GotoInv DEF SendTop, ThrAt, Threads, ThrStates, Done, history
<1> QED BY <1>1, <1>2

LEMMA RecvInv == ASSUME Inv, NEW a \in Addrs, RecvTop(a) \/ RecvMsg(a) \/ RecvClosed(a) PROVE Inv'
<1>1. PICK l \in {"out", "read", "top", "fail"} : ThrGoto(a, "recv", l)
  BY DEF RecvTop, RecvMsg, RecvClosed
<1>2. thr[a].recv \notin Done /\ UNCHANGED <<peer, sending, user, network, bounds, sent>>
  BY DEF RecvTop, RecvMsg, RecvClosed, ThrAt, Done, history
<1> QED BY <1>1, <1>2, GotoInv DEF Threads, ThrStates

\* A thread ends, or sets the error of the peer that it has shut down.
LEMMA SetErrInv == ASSUME Inv, NEW a \in Addrs, NEW x \in Threads, SetErr(a, x) PROVE Inv'
<1> USE DEF SetErr
<1>1. /\ thr' \in [Addrs -> [Threads -> ThrStates]] /\ thr'[a][x] = "exit" /\ thr[a][x] = "err"
      /\ \A b \in Addrs : \A y \in Threads : <<b, y>> # <<a, x>> => thr'[b][y] = thr[b][y]
  BY ThrGotoFields DEF Inv, ThrAt, ThrStates
<1>t. "connect" \in Threads /\ "send" \in Threads /\ "recv" \in Threads
  BY DEF Threads
<1>p. /\ peer' \in [Addrs -> Peers]
      /\ \A b \in Addrs : /\ peer'[b].inht = peer[b].inht /\ peer'[b].refcount = peer[b].refcount
                          /\ peer'[b].freed = peer[b].freed /\ peer'[b].fd = peer[b].fd
                          /\ peer'[b].shutdown = peer[b].shutdown
  BY ZenonT(60) DEF Inv, TypeInv, Peers
<1>2. TypeInv'
  BY <1>1, <1>p DEF Inv, TypeInv, sending, network, bounds, history
<1>3. ShutInv'
  BY <1>1, <1>p, <1>t DEF Inv, ShutInv, network
<1>4. DeliverInv'
  <2>1. \A b \in Addrs : thr[b].send \in {"fail", "err", "exit"} => thr'[b].send \in {"fail", "err", "exit"}
    BY <1>1, <1>t
  <2> QED BY <2>1, SameDeliver DEF Inv, sending, network, history
<1>5. \A b \in Addrs : \A y \in Threads : thr[b][y] \in Done => thr'[b][y] = thr[b][y]
  BY <1>1 DEF Done
<1>6. \A b \in Addrs : thr'[b].connect = "connect" => thr'[b].send = "none" /\ thr'[b].recv = "none"
  BY <1>1, <1>5, <1>t DEF Inv, StartInv, Done
<1> QED BY <1>p, <1>2, <1>3, <1>4, <1>5, <1>6, ThreadsInv

\* The receive and the connect thread shut the peer down before they end.
LEMMA ThreadOutInv ==
    ASSUME Inv, NEW a \in Addrs, NEW x \in {"recv", "connect"}, ThreadOut(a, x)
    PROVE  Inv'
<1> USE DEF ThreadOut
<1>t. "connect" \in Threads /\ "send" \in Threads /\ "recv" \in Threads
  BY DEF Threads
<1>1. /\ thr' \in [Addrs -> [Threads -> ThrStates]] /\ thr'[a][x] \in {"err", "exit"} /\ thr[a][x] \in {"out", "fail"}
      /\ \A b \in Addrs : \A y \in Threads : <<b, y>> # <<a, x>> => thr'[b][y] = thr[b][y]
  BY ZenonT(60), <1>t, ThrGotoFields DEF Inv, ThrAt, ThrStates
<1>p. /\ peer' \in [Addrs -> Peers]
      /\ \A b \in Addrs : /\ peer'[b].inht = peer[b].inht /\ peer'[b].refcount = peer[b].refcount
                          /\ peer'[b].freed = peer[b].freed
                          /\ peer'[b] = peer[b] \/ peer'[b].shutdown
  <2>1. \A b \in Addrs : peer[b] \in Peers /\ peer'[b] = IF b = a THEN ShutDown(peer[b]) ELSE peer[b]
    BY DEF Inv, TypeInv
  <2>2. peer' = [b \in Addrs |-> peer'[b]]
    BY DEF Inv, TypeInv
  <2> QED BY <2>1, <2>2, ShutDownFields
<1>2. TypeInv'
  BY <1>1, <1>p DEF Inv, TypeInv, sending, network, bounds, history
<1>3. ShutInv'
  BY <1>1, <1>p, <1>t DEF Inv, ShutInv, network
<1>4. DeliverInv'
  <2>1. \A b \in Addrs : thr[b].send \in {"fail", "err", "exit"} => thr'[b].send \in {"fail", "err", "exit"}
    BY <1>1, <1>t
  <2> QED BY <2>1, SameDeliver DEF Inv, sending, network, history
<1>5. \A b \in Addrs : \A y \in Threads : thr[b][y] \in Done => thr'[b][y] = thr[b][y]
  BY <1>1 DEF Done
<1>6. \A b \in Addrs : thr'[b].connect = "connect" => thr'[b].send = "none" /\ thr'[b].recv = "none"
  BY <1>1, <1>5, <1>t DEF Inv, StartInv, Done
<1> QED BY <1>p, <1>2, <1>3, <1>4, <1>5, <1>6, ThreadsInv

\* What start_send_recv does to the threads of a peer.
LEMMA StartSendRecvFields ==
    ASSUME TypeInv, NEW a \in Addrs, StartSendRecv(a), thr[a].connect \in {"none", "connect"}
    PROVE  /\ thr' \in [Addrs -> [Threads -> ThrStates]]
           /\ thr'[a].connect \in {"none", "exit", "fail"}
           /\ thr[a].connect = "none" => thr'[a].connect = "none"
           /\ thr'[a].send \in {"none", "top"} /\ thr'[a].recv \in {"none", "top"}
           /\ \A b \in Addrs : b # a => thr'[b] = thr[b]
<1> DEFINE Rec(c, l, r) == [connect |-> c, send |-> l, recv |-> r]
<1>1. PICK c \in {"none", "exit", "fail"}, l \in {"none", "top"}, r \in {"none", "top"} :
        /\ thr' = [thr EXCEPT ![a] = Rec(c, l, r)] /\ (thr[a].connect = "none" => c = "none")
  BY DEF StartSendRecv, Returned, Failing, TypeInv
<1>2. Rec(c, l, r) \in [Threads -> ThrStates]
  BY DEF Threads, ThrStates
<1>3. Rec(c, l, r).connect = c /\ Rec(c, l, r).send = l /\ Rec(c, l, r).recv = r
  OBVIOUS
<1> HIDE DEF Rec
<1> QED BY <1>1, <1>2, <1>3 DEF TypeInv

\* A peer gets its socket.
LEMMA OpenFields ==
    ASSUME TypeInv, NEW a \in Addrs, peer' = [peer EXCEPT ![a].fd = "open"]
    PROVE  /\ peer' \in [Addrs -> Peers]
           /\ \A b \in Addrs : /\ peer'[b].inht = peer[b].inht /\ peer'[b].refcount = peer[b].refcount
                               /\ peer'[b].freed = peer[b].freed /\ peer'[b].shutdown = peer[b].shutdown
                               /\ peer'[b].fd = peer[b].fd \/ peer'[b].fd = "open"
<1>1. \A b \in Addrs : peer[b] \in Peers /\ peer'[b] = IF b = a THEN [peer[b] EXCEPT !.fd = "open"] ELSE peer[b]
  BY DEF TypeInv
<1>2. peer' = [b \in Addrs |-> peer'[b]]
  BY DEF TypeInv
<1>3. \A p \in Peers : /\ [p EXCEPT !.fd = "open"] \in Peers
                       /\ [p EXCEPT !.fd = "open"].inht = p.inht /\ [p EXCEPT !.fd = "open"].refcount = p.refcount
                       /\ [p EXCEPT !.fd = "open"].freed = p.freed /\ [p EXCEPT !.fd = "open"].shutdown = p.shutdown
                       /\ [p EXCEPT !.fd = "open"].fd = "open"
  BY DEF Peers
<1>4. \A b \in Addrs : peer'[b] \in Peers
  <2>1. ASSUME NEW b \in Addrs PROVE peer'[b] \in Peers
    <3>1. CASE b = a
      BY <3>1, <1>1, <1>3
    <3>2. CASE b # a
      BY <3>2, <1>1
    <3> QED BY <3>1, <3>2
  <2> QED BY <2>1
<1>5. peer' \in [Addrs -> Peers]
  BY <1>2, <1>4
<1>6. ASSUME NEW b \in Addrs
      PROVE  /\ peer'[b].inht = peer[b].inht /\ peer'[b].refcount = peer[b].refcount
             /\ peer'[b].freed = peer[b].freed /\ peer'[b].shutdown = peer[b].shutdown
             /\ peer'[b].fd = peer[b].fd \/ peer'[b].fd = "open"
  <2>1. CASE b = a
    BY <2>1, <1>1, <1>3
  <2>2. CASE b # a
    BY <2>2, <1>1
  <2> QED BY <2>1, <2>2
<1> QED BY <1>5, <1>6

LEMMA ConnectInv == ASSUME Inv, NEW a \in Addrs, Connect(a) PROVE Inv'
<1> USE DEF Connect
<1>t. "connect" \in Threads /\ "send" \in Threads /\ "recv" \in Threads
  BY DEF Threads
<1>c. thr[a].connect = "connect" /\ thr[a].send = "none" /\ thr[a].recv = "none"
  BY DEF ThrAt, Inv, StartInv
<1>1. /\ thr' \in [Addrs -> [Threads -> ThrStates]]
      /\ thr'[a].connect \in {"none", "exit", "fail"} /\ thr'[a].send \in {"none", "top"}
      /\ \A b \in Addrs : b # a => thr'[b] = thr[b]
  <2>1. CASE StartSendRecv(a)
    BY <2>1, <1>c, StartSendRecvFields DEF Inv
  <2>2. CASE \E l \in {"exit", "fail"} : ThrGoto(a, "connect", l)
    BY <2>2, <1>c, <1>t DEF Inv, TypeInv, ThrGoto, ThrStates
  <2> QED BY <2>1, <2>2
<1>p. /\ peer' \in [Addrs -> Peers]
      /\ \A b \in Addrs : /\ peer'[b].inht = peer[b].inht /\ peer'[b].refcount = peer[b].refcount
                          /\ peer'[b].freed = peer[b].freed /\ peer'[b].shutdown = peer[b].shutdown
                          /\ peer'[b].fd = peer[b].fd \/ peer'[b].fd = "open"
  <2>1. CASE peer' = [peer EXCEPT ![a].fd = "open"]
    BY <2>1, OpenFields DEF Inv
  <2>2. CASE UNCHANGED peer
    BY <2>2 DEF Inv, TypeInv
  <2> QED BY <2>1, <2>2
<1>2. TypeInv'
  BY <1>1, <1>p DEF Inv, TypeInv, sending, network, bounds, history
<1>3. ShutInv'
  BY <1>1, <1>p, <1>t DEF Inv, ShutInv, network
<1>4. DeliverInv'
  <2>1. \A b \in Addrs : thr[b].send \in {"fail", "err", "exit"} => thr'[b].send \in {"fail", "err", "exit"}
    BY <1>1, <1>c
  <2> QED BY <2>1, SameDeliver DEF Inv, sending, network, history
<1>5. \A b \in Addrs : \A y \in Threads : thr[b][y] \in Done => thr'[b][y] = thr[b][y] \/ thr[b].connect = "connect"
  BY <1>1, <1>c
<1>6. \A b \in Addrs : thr'[b].connect = "connect" => thr'[b].send = "none" /\ thr'[b].recv = "none"
  BY <1>1 DEF Inv, StartInv
<1> QED BY <1>p, <1>2, <1>3, <1>4, <1>5, <1>6, ThreadsInv

-----------------------------------------------------------------------------
(***************************************************************************)
(* Messages on their way: sent, spliced, written                           *)
(***************************************************************************)
LEMMA Associative ==
    ASSUME NEW x \in Seq(Nat), NEW y \in Seq(Nat), NEW z \in Seq(Nat)
    PROVE  (x \o y) \o z = x \o (y \o z) /\ y \o z \in Seq(Nat)
  BY SMTT(60), ConcatAssociative, ConcatProperties

LEMMA SpliceSeq ==
    ASSUME NEW g \in Seq(Nat), NEW l \in Seq(Nat), NEW q \in Seq(Nat)
    PROVE  /\ g \o l \o q = g \o (l \o q) \o << >>
           /\ l \o q \in Seq(Nat)
<1>1. l \o q \in Seq(Nat) /\ g \o (l \o q) \in Seq(Nat)
  OBVIOUS
<1>2. g \o (l \o q) = g \o l \o q
  BY SMTT(60)
<1>3. \A x \in Seq(Nat) : x \o << >> = x
  OBVIOUS
<1> QED BY <1>1, <1>2, <1>3

LEMMA WriteSeq ==
    ASSUME NEW g \in Seq(Nat), NEW l \in Seq(Nat), NEW q \in Seq(Nat), l # << >>
    PROVE  /\ Append(g, Head(l)) \o Tail(l) \o q = g \o l \o q
           /\ Append(g, Head(l)) \in Seq(Nat) /\ Tail(l) \in Seq(Nat)
<1>1. Head(l) \in Nat /\ Tail(l) \in Seq(Nat) /\ Append(g, Head(l)) \in Seq(Nat)
  OBVIOUS
<1>2. Append(g, Head(l)) = g \o <<Head(l)>> /\ <<Head(l)>> \in Seq(Nat)
  BY <1>1, AppendIsConcat
<1>3. <<Head(l)>> \o Tail(l) = l
  OBVIOUS
<1>4. ASSUME NEW h \in Seq(Nat), NEW t \in Seq(Nat) PROVE (g \o h) \o t = g \o (h \o t)
  BY SMTT(60)
<1> QED BY <1>1, <1>2, <1>3, <1>4

LEMMA SendSeq ==
    ASSUME NEW g \in Seq(Nat), NEW l \in Seq(Nat), NEW q \in Seq(Nat), NEW m \in Nat
    PROVE  Append(g \o l \o q, m) = g \o l \o Append(q, m)
<1>1. ASSUME NEW x \in Seq(Nat) PROVE Append(x \o q, m) = x \o Append(q, m)
  <2>1. x \o q \in Seq(Nat) /\ <<m>> \in Seq(Nat)
    OBVIOUS
  <2>2. Append(x \o q, m) = (x \o q) \o <<m>> /\ Append(q, m) = q \o <<m>>
    BY <2>1, AppendIsConcat
  <2> QED BY <2>1, <2>2, ConcatAssociative
<1>2. g \o l \in Seq(Nat)
  OBVIOUS
<1> QED BY <1>1, <1>2

\* Whatever is a prefix stays one when more is sent, and what heads the rest continues it.
LEMMA PrefixSeq ==
    ASSUME NEW g \in Seq(Nat), NEW s \in Seq(Nat)
    PROVE  /\ \A m \in Nat : IsPrefixOf(g, s) => IsPrefixOf(g, Append(s, m))
           /\ \A r \in Seq(Nat) : s = g \o r => IsPrefixOf(g, s)
           /\ IsPrefixOf(<< >>, s)
<1>1. ASSUME NEW m \in Nat, IsPrefixOf(g, s) PROVE IsPrefixOf(g, Append(s, m))
  BY <1>1 DEF IsPrefixOf
<1>2. ASSUME NEW r \in Seq(Nat), s = g \o r PROVE IsPrefixOf(g, s)
  BY <1>2 DEF IsPrefixOf
<1>3. IsPrefixOf(<< >>, s)
  BY DEF IsPrefixOf
<1> QED BY <1>1, <1>2, <1>3

\* The send thread sleeps, or appends what is queued to what it has spliced before.
LEMMA SendWaitInv == ASSUME Inv, NEW a \in Addrs, SendWait(a) PROVE Inv'
<1>t. "connect" \in Threads /\ "send" \in Threads /\ "recv" \in Threads
  BY DEF Threads
<1>u. UNCHANGED <<peer, user, remote, sent, nsends>>
  BY DEF SendWait, network, bounds, history
<1>s. thr[a].send = "wait"
  BY DEF SendWait, ThrAt
<1>1. /\ thr' \in [Addrs -> [Threads -> ThrStates]] /\ thr'[a].send \in {"wait", "dequeue"}
      /\ \A b \in Addrs : \A y \in Threads : <<b, y>> # <<a, "send">> => thr'[b][y] = thr[b][y]
  <2>1. CASE ThrGoto(a, "send", "dequeue")
    BY <2>1, <1>t, ThrGotoFields DEF Inv, ThrStates
  <2>2. CASE UNCHANGED thr
    BY <2>2, <1>s DEF Inv, TypeInv
  <2> QED BY <2>1, <2>2 DEF SendWait
<1>q. \/ UNCHANGED <<queue, local>>
      \/ queue' = [queue EXCEPT ![a] = << >>] /\ local' = [local EXCEPT ![a] = local[a] \o queue[a]]
  <2>1. CASE UNCHANGED <<queue, local>>
    BY <2>1
  <2>2. CASE /\ local' = [local EXCEPT ![a] = Spliced(a)]
             /\ queue' = [queue EXCEPT ![a] = IF CanSplice(a) THEN << >> ELSE @]
    <3>1. CASE CanSplice(a)
      BY <2>2, <3>1 DEF Spliced
    <3>2. CASE ~CanSplice(a)
      BY <2>2, <3>2 DEF Spliced, Inv, TypeInv
    <3> QED BY <3>1, <3>2
  <2> QED BY <2>1, <2>2 DEF SendWait
<1>l. local[a] \in Seq(Nat) /\ queue[a] \in Seq(Nat) /\ remote[a].got \in Seq(Nat) /\ << >> \in Seq(Nat)
  BY DEF Inv, TypeInv, Remotes
<1>k. /\ queue' \in [Addrs -> Seq(Nat)] /\ local' \in [Addrs -> Seq(Nat)]
      /\ \A b \in Addrs : b # a => queue'[b] = queue[b] /\ local'[b] = local[b]
      /\ \A g \in Seq(Nat) : g \o local'[a] \o queue'[a] = g \o local[a] \o queue[a]
  <2>1. CASE UNCHANGED <<queue, local>>
    BY <2>1 DEF Inv, TypeInv
  <2>2. CASE queue' = [queue EXCEPT ![a] = << >>] /\ local' = [local EXCEPT ![a] = local[a] \o queue[a]]
    <3>1. queue'[a] = << >> /\ local'[a] = local[a] \o queue[a]
      BY <2>2 DEF Inv, TypeInv
    <3>2. local[a] \o queue[a] \in Seq(Nat)
      BY <1>l, SpliceSeq
    <3>3. \A g \in Seq(Nat) : g \o local'[a] \o queue'[a] = g \o local[a] \o queue[a]
      <4>1. ASSUME NEW g \in Seq(Nat)
            PROVE  g \o local[a] \o queue[a] = g \o (local[a] \o queue[a]) \o << >>
        BY <1>l, SpliceSeq, Zenon
      <4> QED BY <3>1, <4>1, Zenon
    <3> QED BY <2>2, <3>2, <3>3, <1>l DEF Inv, TypeInv
  <2> QED BY <1>q, <2>1, <2>2
<1>2. TypeInv'
  BY <1>1, <1>k, <1>u DEF Inv, TypeInv
<1>3. ShutInv'
  BY <1>1, <1>u, <1>t DEF Inv, ShutInv
<1>4. DeliverInv'
  <2>1. ASSUME NEW b \in Addrs
        PROVE  /\ IsPrefixOf(remote[b].got, sent[b])
               /\ remote[b].open /\ thr'[b].send \notin {"fail", "err", "exit"} =>
                    sent[b] = remote[b].got \o local'[b] \o queue'[b]
    <3>1. CASE b = a
      BY <3>1, <1>1, <1>k, <1>l, <1>s DEF Inv, DeliverInv
    <3>2. CASE b # a
      BY <3>2, <1>1, <1>k, <1>t DEF Inv, DeliverInv
    <3> QED BY <3>1, <3>2
  <2> QED BY <2>1, <1>u DEF DeliverInv
<1>5. \A b \in Addrs : \A y \in Threads : thr[b][y] \in Done => thr'[b][y] = thr[b][y]
  BY <1>1, <1>s DEF Done
<1>6. \A b \in Addrs : thr'[b].connect = "connect" => thr'[b].send = "none" /\ thr'[b].recv = "none"
  BY <1>1, <1>5, <1>s, <1>t DEF Inv, StartInv, Done
<1> QED BY <1>u, <1>2, <1>3, <1>4, <1>5, <1>6, ThreadsInv

\* The head of the local queue is written, or the connection is lost and it fails.
LEMMA SendWriteInv == ASSUME Inv, NEW a \in Addrs, SendWrite(a) PROVE Inv'
<1>t. "connect" \in Threads /\ "send" \in Threads /\ "recv" \in Threads
  BY DEF Threads
<1>u. UNCHANGED <<peer, user, queue, sent, nsends>>
  BY DEF SendWrite, network, bounds, history
<1>s. thr[a].send = "dequeue"
  BY DEF SendWrite, ThrAt
<1>1. /\ thr' \in [Addrs -> [Threads -> ThrStates]] /\ thr'[a].send \in {"dequeue", "top", "fail"}
      /\ \A b \in Addrs : \A y \in Threads : <<b, y>> # <<a, "send">> => thr'[b][y] = thr[b][y]
  <2>1. CASE \E l \in {"top", "fail"} : ThrGoto(a, "send", l)
    BY <2>1, <1>t, ThrGotoFields DEF Inv, ThrStates
  <2>2. CASE UNCHANGED thr
    BY <2>2, <1>s DEF Inv, TypeInv
  <2> QED BY <2>1, <2>2 DEF SendWrite
<1>l. local[a] \in Seq(Nat) /\ queue[a] \in Seq(Nat) /\ remote[a].got \in Seq(Nat) /\ remote[a] \in Remotes
  BY DEF Inv, TypeInv, Remotes
<1>f. thr'[a].send = "fail" => peer[a].fd = "shut" \/ ~remote[a].open
  <2>1. CASE ThrGoto(a, "send", "top") \/ UNCHANGED thr
    BY <2>1, <1>s, <1>t DEF Inv, TypeInv, ThrGoto
  <2> QED BY <2>1 DEF SendWrite
<1>r. /\ remote' \in [Addrs -> Remotes] /\ local' \in [Addrs -> Seq(Nat)]
      /\ \A b \in Addrs : remote'[b].open = remote[b].open
      /\ \A b \in Addrs : b # a => remote'[b] = remote[b] /\ local'[b] = local[b]
      /\ remote'[a].got = remote[a].got \/ remote[a].open
      /\ remote[a].open /\ thr'[a].send # "fail" =>
            remote'[a].got \o local'[a] \o queue[a] = remote[a].got \o local[a] \o queue[a]
      /\ thr'[a].send = "fail" => remote'[a].got = remote[a].got
  <2>1. CASE UNCHANGED <<local, remote>>
    BY <2>1 DEF Inv, TypeInv
  <2>2. CASE /\ local[a] # << >> /\ UNCHANGED thr
             /\ remote' = [remote EXCEPT ![a].got = IF remote[a].open THEN Append(@, Head(local[a])) ELSE @]
             /\ local' = [local EXCEPT ![a] = Tail(@)]
    <3>1. /\ Append(remote[a].got, Head(local[a])) \o Tail(local[a]) \o queue[a] = remote[a].got \o local[a] \o queue[a]
          /\ Append(remote[a].got, Head(local[a])) \in Seq(Nat) /\ Tail(local[a]) \in Seq(Nat)
      BY <2>2, <1>l, WriteSeq
    <3>2. local' \in [Addrs -> Seq(Nat)] /\ local'[a] = Tail(local[a]) /\ \A b \in Addrs : b # a => local'[b] = local[b]
      BY <2>2, <3>1 DEF Inv, TypeInv
    <3>3. \A b \in Addrs : b # a => remote'[b] = remote[b]
      BY <2>2 DEF Inv, TypeInv
    <3>4. CASE remote[a].open
      <4> DEFINE g == Append(remote[a].got, Head(local[a]))
      <4>1. remote' = [remote EXCEPT ![a] = [remote[a] EXCEPT !.got = g]]
        BY <2>2, <3>4 DEF Inv, TypeInv
      <4>2. [remote[a] EXCEPT !.got = g] \in Remotes /\ [remote[a] EXCEPT !.got = g].got = g
             /\ [remote[a] EXCEPT !.got = g].open = remote[a].open
        BY <1>l, <3>1 DEF Remotes
      <4>3. remote'[a] = [remote[a] EXCEPT !.got = g] /\ remote' \in [Addrs -> Remotes]
        BY <4>1, <4>2 DEF Inv, TypeInv
      <4> HIDE DEF g
      <4>4. g \o Tail(local[a]) \o queue[a] = remote[a].got \o local[a] \o queue[a]
        BY <3>1 DEF g
      <4> QED BY <4>2, <4>3, <4>4, <3>2, <3>3, <3>4, <2>2, <1>s
    <3>5. CASE ~remote[a].open
      <4>1. remote' = remote
        BY <2>2, <3>5 DEF Inv, TypeInv, Remotes
      <4> QED BY <4>1, <3>2, <3>5 DEF Inv, TypeInv
    <3> QED BY <3>4, <3>5
  <2>3. CASE /\ local[a] # << >> /\ ThrGoto(a, "send", "fail") /\ UNCHANGED remote
             /\ local' = [local EXCEPT ![a] = Tail(@)]
    <3>1. Tail(local[a]) \in Seq(Nat)
      BY <2>3, <1>l, HeadTailProperties
    <3>2. thr'[a].send = "fail"
      BY <2>3, <1>t, ThrGotoFields DEF Inv, ThrStates
    <3> QED BY <2>3, <3>1, <3>2 DEF Inv, TypeInv
  <2> QED BY <2>1, <2>2, <2>3 DEF SendWrite
<1>2. TypeInv'
  BY <1>1, <1>r, <1>u DEF Inv, TypeInv
<1>3. ShutInv'
  BY <1>1, <1>u, <1>t, <1>r, <1>f DEF Inv, ShutInv
<1>4. DeliverInv'
  <2>1. ASSUME NEW b \in Addrs
        PROVE  /\ IsPrefixOf(remote'[b].got, sent[b])
               /\ remote'[b].open /\ thr'[b].send \notin {"fail", "err", "exit"} =>
                    sent[b] = remote'[b].got \o local'[b] \o queue[b]
    <3>1. CASE b # a
      BY <3>1, <1>1, <1>r, <1>t DEF Inv, DeliverInv
    <3>2. CASE b = a /\ remote[a].open /\ thr'[a].send # "fail"
      <4>1. sent[a] = remote'[a].got \o local'[a] \o queue[a]
        BY <3>2, <1>r, <1>s DEF Inv, DeliverInv
      <4>2. /\ remote'[a].got \in Seq(Nat) /\ local'[a] \o queue[a] \in Seq(Nat) /\ sent[a] \in Seq(Nat)
            /\ remote'[a].got \o local'[a] \o queue[a] = remote'[a].got \o (local'[a] \o queue[a])
        <5>1. remote'[a].got \in Seq(Nat) /\ local'[a] \in Seq(Nat) /\ queue[a] \in Seq(Nat) /\ sent[a] \in Seq(Nat)
          BY <1>r DEF Inv, TypeInv, Remotes
        <5>2. /\ local'[a] \o queue[a] \in Seq(Nat)
              /\ remote'[a].got \o local'[a] \o queue[a] = remote'[a].got \o (local'[a] \o queue[a])
          BY ONLY <5>1, Associative, ZenonT(60)
        <5> QED BY <5>1, <5>2
      <4>3. IsPrefixOf(remote'[a].got, sent[a])
        BY <4>1, <4>2, PrefixSeq
      <4> QED BY <3>2, <4>1, <4>3
    <3>3. CASE b = a /\ (~remote[a].open \/ thr'[a].send = "fail")
      BY <3>3, <1>r DEF Inv, DeliverInv
    <3> QED BY <3>1, <3>2, <3>3
  <2> QED BY <2>1, <1>u DEF DeliverInv
<1>5. \A b \in Addrs : \A y \in Threads : thr[b][y] \in Done => thr'[b][y] = thr[b][y]
  BY <1>1, <1>s DEF Done
<1>6. \A b \in Addrs : thr'[b].connect = "connect" => thr'[b].send = "none" /\ thr'[b].recv = "none"
  BY <1>1, <1>5, <1>s, <1>t DEF Inv, StartInv, Done
<1> QED BY <1>u, <1>2, <1>3, <1>4, <1>5, <1>6, ThreadsInv

\* The send thread drops what it has spliced; the peer is shut down with it.
LEMMA SendOutInv == ASSUME Inv, NEW a \in Addrs, SendOut(a) PROVE Inv'
<1>t. "connect" \in Threads /\ "send" \in Threads /\ "recv" \in Threads
  BY DEF Threads
<1>u. UNCHANGED <<user, queue, sent, nsends, remote>> /\ local' = [local EXCEPT ![a] = << >>]
  BY DEF SendOut, network, bounds, history
<1>1. /\ thr' \in [Addrs -> [Threads -> ThrStates]] /\ thr'[a].send \in {"err", "exit"} /\ thr[a].send \in {"out", "fail"}
      /\ \A b \in Addrs : \A y \in Threads : <<b, y>> # <<a, "send">> => thr'[b][y] = thr[b][y]
  <2>1. \E l \in {"err", "exit"} : ThrGoto(a, "send", l)
    BY DEF SendOut
  <2> QED BY <2>1, <1>t, ThrGotoFields DEF Inv, ThrAt, ThrStates, SendOut
<1>p. /\ peer' \in [Addrs -> Peers] /\ peer'[a].shutdown
      /\ \A b \in Addrs : /\ peer'[b].inht = peer[b].inht /\ peer'[b].refcount = peer[b].refcount
                          /\ peer'[b].freed = peer[b].freed
                          /\ peer'[b] = peer[b] \/ peer'[b].shutdown
  <2>1. \A b \in Addrs : peer[b] \in Peers /\ peer'[b] = IF b = a THEN ShutDown(peer[b]) ELSE peer[b]
    BY DEF Inv, TypeInv, SendOut
  <2>2. peer' = [b \in Addrs |-> peer'[b]]
    BY DEF Inv, TypeInv, SendOut
  <2> QED BY <2>1, <2>2, ShutDownFields
<1>l. local' \in [Addrs -> Seq(Nat)] /\ \A b \in Addrs : b # a => local'[b] = local[b]
  <2>1. << >> \in Seq(Nat)
    OBVIOUS
  <2> QED BY <1>u, <2>1 DEF Inv, TypeInv
<1>2. TypeInv'
  BY <1>1, <1>p, <1>u, <1>l DEF Inv, TypeInv
<1>3. ShutInv'
  BY <1>1, <1>p, <1>t, <1>u DEF Inv, ShutInv
<1>4. DeliverInv'
  BY <1>1, <1>t, <1>u, <1>l DEF Inv, DeliverInv
<1>5. \A b \in Addrs : \A y \in Threads : thr[b][y] \in Done => thr'[b][y] = thr[b][y]
  BY <1>1 DEF Done
<1>6. \A b \in Addrs : thr'[b].connect = "connect" => thr'[b].send = "none" /\ thr'[b].recv = "none"
  BY <1>1, <1>5, <1>t DEF Inv, StartInv, Done
<1> QED BY <1>u, <1>p, <1>2, <1>3, <1>4, <1>5, <1>6, ThreadsInv

\* The other side closes: what it has got stays what it was.
LEMMA RemoteCloseInv == ASSUME Inv, NEW a \in Addrs, RemoteClose(a) PROVE Inv'
<1>u. UNCHANGED <<peer, thr, user, queue, local, sent, nsends>>
  BY DEF RemoteClose, sending, history
<1>r. /\ remote' \in [Addrs -> Remotes]
      /\ \A b \in Addrs : remote'[b].got = remote[b].got /\ (remote'[b].open => remote[b].open)
  BY DEF RemoteClose, Inv, TypeInv, Remotes
<1>2. TypeInv'
  BY <1>r, <1>u DEF Inv, TypeInv
<1>3. ShutInv'
  BY <1>r, <1>u DEF Inv, ShutInv
<1>4. DeliverInv'
  BY <1>r, <1>u DEF Inv, DeliverInv
<1>5. \A b \in Addrs : thr'[b].connect = "connect" => thr'[b].send = "none" /\ thr'[b].recv = "none"
  BY <1>u DEF Inv, StartInv
<1> QED BY <1>u, <1>2, <1>3, <1>4, <1>5, ThreadsInv

-----------------------------------------------------------------------------
(***************************************************************************)
(* Steps of the callers of get_peer                                        *)
(***************************************************************************)
\* A caller that is not idle is not interrupted by the tear down.
LEMMA CallerFacts ==
    ASSUME Inv, NEW u \in Users, user[u].pc \notin {"idle", "destroy", "put", "stop", "join"}
    PROVE  u # "main" /\ ~Tearing /\ user["main"].pc = "idle" /\ user[u].addr \in Addrs
  BY UserFacts DEF Inv, UserInv, Tearing, TypeInv, UserStates

\* A caller's step that takes and puts no reference and starts no thread.
LEMMA CallerInv ==
    ASSUME Inv, TypeInv', NEW u \in Users, u # "main", user["main"].pc = "idle",
           \A v \in Users : v # u => user'[v] = user[v],
           user'[u].pc \notin {"start", "destroy", "stop", "join"},
           user'[u].addr = NoAddr <=> user'[u].pc = "idle",
           user[u].pc \in Holding <=> user'[u].pc \in Holding,
           user[u].pc \in Holding => user'[u].addr = user[u].addr,
           UNCHANGED thr,
           \A b \in Addrs : /\ peer'[b].inht = peer[b].inht /\ peer'[b].refcount = peer[b].refcount
                            /\ peer'[b].freed = peer[b].freed,
           ShutInv', DeliverInv'
    PROVE  Inv'
<1> USE UserFacts DEF Addr
<1>m. user'["main"] = user["main"] /\ ~Tearing /\ ~Tearing'
  BY DEF Tearing
<1>1. UserInv'
  BY <1>m DEF Inv, UserInv
<1>2. \A a : Holders(a)' = Holders(a)
  <2>1. \A a, v : v \in Holders(a)' <=> v \in Holders(a)
    BY HolderFields
  <2>2. ASSUME NEW a PROVE Holders(a)' = Holders(a)
    <3>1. \A v : v \in Holders(a)' <=> v \in Holders(a)
      BY <2>1
    <3> QED BY ONLY <3>1
  <2> QED BY <2>2
<1>3. RefInv'
  BY <1>2 DEF Inv, RefInv
<1>5. TableInv'
  BY <1>2, <1>m DEF Inv, TableInv
<1>6. StartInv'
  <2>1. \A v \in Users : user'[v].pc = "start" => v # u /\ user'[v] = user[v]
    OBVIOUS
  <2> QED BY <2>1 DEF Inv, StartInv
<1>7. JoinInv'
  BY <1>m DEF Inv, JoinInv
<1> QED BY <1>1, <1>3, <1>5, <1>6, <1>7 DEF Inv

\* A caller takes a reference to a peer that is in the table, or that it has just inserted.
LEMMA TakenInv ==
    ASSUME Inv, TypeInv', NEW u \in Users, user[u].pc \in {"lookup", "insert"}, NEW a \in Addrs, user[u].addr = a,
           \A v \in Users : v # u => user'[v] = user[v],
           user'[u].pc \in Holding, user'[u].addr = a,
           user'[u].pc = "start" => ~peer[a].inht,
           UNCHANGED thr,
           peer'[a].inht, ~peer'[a].freed, peer'[a].refcount = Cardinality(Holders(a)) + 2,
           \A b \in Addrs : b # a => peer'[b] = peer[b],
           ShutInv', DeliverInv'
    PROVE  Inv'
<1> USE UserFacts DEF Addr
<1>m. user'["main"] = user["main"] /\ ~Tearing /\ ~Tearing' /\ u # "main" /\ user["main"].pc = "idle"
  <2>1. u # "main" /\ ~Tearing
    BY CallerFacts
  <2> QED BY <2>1 DEF Tearing
<1>1. UserInv'
  BY <1>m DEF Inv, UserInv, Holding
<1>2. /\ u \notin Holders(a) /\ Holders(a)' = Holders(a) \union {u}
      /\ \A b : b # a => Holders(b)' = Holders(b)
  <2>1. u \notin Holders(a) /\ user[u].pc \notin Holding
    BY HolderFields DEF Holding
  <2>2. \A b, v : v \in Holders(b)' <=> v \in Holders(b) \/ (v = u /\ b = a)
    BY <2>1, HolderFields
  <2>3. ASSUME NEW b PROVE Holders(b)' = Holders(b) \union (IF b = a THEN {u} ELSE {})
    BY ONLY <2>2, Zenon
  <2> QED BY <2>1, <2>3
<1>3. RefInv'
  <2>1. Cardinality(Holders(a))' = Cardinality(Holders(a)) + 1 /\ Cardinality(Holders(a)) \in Nat
    BY <1>2, AddHolder, FiniteHolders
  <2>2. peer'[a].refcount = Cardinality(Holders(a))' + 1
    BY <2>1
  <2>3. ASSUME NEW b \in Addrs
        PROVE  peer'[b].refcount = Cardinality(Holders(b))' + (IF peer'[b].inht THEN 1 ELSE 0)
    <3>1. CASE b = a
      BY <3>1, <2>2
    <3>2. CASE b # a
      BY <3>2, <1>2 DEF Inv, RefInv
    <3> QED BY <3>1, <3>2
  <2> QED BY <2>3 DEF RefInv
<1>5. TableInv'
  BY <1>2, <1>m DEF Inv, TableInv
<1>6. StartInv'
  <2>1. user'[u].pc = "start" => Holders(a) = {} /\ \A x \in Threads : thr[a][x] = "none"
    BY <1>m DEF Inv, TableInv
  <2>2. \A v \in Users : v # u /\ user'[v].pc = "start" => user[v].pc = "start" /\ user'[v].addr = user[v].addr
    OBVIOUS
  <2>3. \A v \in Users : v # u /\ user'[v].pc = "start" /\ user'[u].pc = "start" => user'[v].addr # a
    BY <2>1, HolderFields DEF Holding
  <2>4. \A v \in Users : user'[v].pc = "start" => \A x \in Threads : thr'[user'[v].addr][x] = "none"
    BY <2>1, <2>2 DEF Inv, StartInv
  <2>5. \A v, w \in Users : user'[v].pc = "start" /\ user'[w].pc = "start" /\ user'[v].addr = user'[w].addr => v = w
    BY <2>2, <2>3 DEF Inv, StartInv
  <2> QED BY <2>4, <2>5 DEF Inv, StartInv
<1>7. JoinInv'
  <2>1. \A b \in Addrs : ~peer'[b].freed
    BY <1>m DEF Inv, TableInv
  <2> QED BY <1>m, <2>1 DEF JoinInv
<1> QED BY <1>1, <1>3, <1>5, <1>6, <1>7 DEF Inv

PCs == Holding \union {"idle", "lookup", "insert", "stop", "join", "destroy"}

LEMMA BusyFields ==
    /\ IdleUser \in UserStates /\ IdleUser.pc = "idle" /\ IdleUser.addr = NoAddr
    /\ \A l \in PCs, a \in Addrs \union {NoAddr} :
          Busy(l, a) \in UserStates /\ Busy(l, a).pc = l /\ Busy(l, a).addr = a /\ Busy(l, a).left = << >>
  BY DEF IdleUser, Busy, UserStates, PCs, Holding, Lefts

\* One user's record is replaced, ...
LEMMA SetUserFields ==
    ASSUME TypeInv, NEW u \in Users, NEW n \in UserStates, user' = [user EXCEPT ![u] = n]
    PROVE  user' \in [Users -> UserStates] /\ user'[u] = n /\ \A v \in Users : v # u => user'[v] = user[v]
  BY DEF TypeInv

\* ... or one user goes on.
LEMMA GotoFields ==
    ASSUME TypeInv, NEW u \in Users, NEW l \in PCs, Goto(u, l)
    PROVE  /\ user' \in [Users -> UserStates] /\ user'[u].pc = l /\ user'[u].addr = user[u].addr
           /\ user'[u].left = user[u].left
           /\ \A v \in Users : v # u => user'[v] = user[v]
<1> DEFINE n == [user[u] EXCEPT !.pc = l]
<1>1. user[u] \in UserStates
  BY DEF TypeInv
<1>2. n \in UserStates /\ n.pc = l /\ n.addr = user[u].addr /\ n.left = user[u].left
  BY <1>1 DEF UserStates, PCs
<1>3. user' = [user EXCEPT ![u] = n]
  BY DEF Goto, TypeInv
<1> HIDE DEF n
<1> QED BY <1>2, <1>3, SetUserFields

\* Peers, their threads and their messages are left alone.
LEMMA SameShut == ASSUME ShutInv, UNCHANGED <<peer, thr, remote>> PROVE ShutInv'
  BY DEF ShutInv

LEMMA CallSendInv == ASSUME Inv, NEW t \in Tasks, NEW a \in Addrs, CallSend(t, a) PROVE Inv'
<1> USE UserFacts DEF CallSend
<1>u. UNCHANGED <<peer, thr, queue, local, sent, remote>> /\ nsends' \in Nat /\ nsends + 1 \in Nat
  BY DEF Inv, TypeInv, sending, network, history
<1>1. t \in Users /\ t # "main" /\ user["main"].pc = "idle" /\ user[t].pc = "idle"
  BY DEF At
<1> DEFINE n == [Busy("lookup", a) EXCEPT !.msg = nsends + 1]
<1>2. n \in UserStates /\ n.pc = "lookup" /\ n.addr = a
  <2>1. Busy("lookup", a) \in UserStates /\ Busy("lookup", a).pc = "lookup" /\ Busy("lookup", a).addr = a
    BY BusyFields DEF PCs
  <2> QED BY <2>1, <1>u DEF UserStates
<1>3. user' = [user EXCEPT ![t] = n]
  OBVIOUS
<1> HIDE DEF n
<1>4. user' \in [Users -> UserStates] /\ user'[t] = n /\ \A v \in Users : v # t => user'[v] = user[v]
  BY <1>1, <1>2, <1>3, SetUserFields DEF Inv
<1>5. TypeInv'
  BY <1>4, <1>u DEF Inv, TypeInv
<1>6. ShutInv' /\ DeliverInv'
  BY <1>u, SameShut, SameDeliver DEF Inv
<1> QED BY <1>u, <1>1, <1>2, <1>4, <1>5, <1>6, CallerInv DEF Holding

LEMMA CallAcceptInv == ASSUME Inv, NEW a \in AcceptAddrs, CallAccept(a) PROVE Inv'
<1> USE UserFacts DEF CallAccept
<1>u. UNCHANGED <<peer, thr, queue, local, sent, remote, nsends>>
  BY DEF sending, network, history
<1>1. "listener" \in Users /\ "listener" # "main" /\ user["main"].pc = "idle" /\ user["listener"].pc = "idle" /\ a \in Addrs
  BY DEF At
<1>2. Busy("lookup", a) \in UserStates /\ Busy("lookup", a).pc = "lookup" /\ Busy("lookup", a).addr = a
  BY <1>1, BusyFields DEF PCs
<1>4. user' \in [Users -> UserStates] /\ user'["listener"] = Busy("lookup", a) /\ \A v \in Users : v # "listener" => user'[v] = user[v]
  BY <1>1, <1>2, SetUserFields DEF Inv
<1>5. TypeInv'
  BY <1>4, <1>u DEF Inv, TypeInv
<1>6. ShutInv' /\ DeliverInv'
  BY <1>u, SameShut, SameDeliver DEF Inv
<1> QED BY <1>u, <1>1, <1>2, <1>4, <1>5, <1>6, CallerInv DEF Holding

LEMMA RefcountFields ==
    ASSUME NEW q \in Peers, NEW r \in Int
    PROVE  LET p == [q EXCEPT !.refcount = r]
           IN  /\ p \in Peers /\ p.inht = q.inht /\ p.freed = q.freed /\ p.fd = q.fd
               /\ p.shutdown = q.shutdown /\ p.refcount = r
  BY DEF Peers

\* A reference is counted.
LEMMA GetPeerFields ==
    ASSUME Inv, ~Tearing, NEW a \in Addrs, peer[a].inht, peer' = [peer EXCEPT ![a].refcount = @ + 1]
    PROVE  /\ peer' \in [Addrs -> Peers] /\ peer'[a].inht /\ ~peer'[a].freed
           /\ peer'[a].refcount = Cardinality(Holders(a)) + 2
           /\ \A b \in Addrs : b # a => peer'[b] = peer[b]
           /\ \A b \in Addrs : peer'[b].fd = peer[b].fd /\ peer'[b].shutdown = peer[b].shutdown
<1> DEFINE p == [peer[a] EXCEPT !.refcount = @ + 1]
<1>1. peer[a] \in Peers /\ peer' = [peer EXCEPT ![a] = p]
  BY DEF Inv, TypeInv
<1>2. /\ p \in Peers /\ p.inht = peer[a].inht /\ p.freed = peer[a].freed /\ p.fd = peer[a].fd
      /\ p.shutdown = peer[a].shutdown /\ p.refcount = peer[a].refcount + 1
  <2>1. peer[a].refcount \in Int /\ peer[a].refcount + 1 \in Int
    BY <1>1 DEF Peers
  <2> QED BY <1>1, <2>1, RefcountFields
<1> HIDE DEF p
<1>3. peer' \in [Addrs -> Peers] /\ peer'[a] = p /\ \A b \in Addrs : b # a => peer'[b] = peer[b]
  BY <1>1, <1>2 DEF Inv, TypeInv
<1>4. ~peer[a].freed /\ peer[a].refcount = Cardinality(Holders(a)) + 1 /\ Cardinality(Holders(a)) \in Nat
  BY FiniteHolders DEF Inv, TableInv, RefInv
<1>5. p.refcount = Cardinality(Holders(a)) + 2
  BY <1>2, <1>4
<1> QED BY <1>2, <1>3, <1>4, <1>5

\* get_peer finds a peer or has to make one; no connection is accepted from a known address.
LEMMA LookupInv == ASSUME Inv, NEW u \in Users, Lookup(u), Sound' PROVE Inv'
<1> USE DEF Addr
<1>u. UNCHANGED <<thr, queue, local, sent, remote, nsends>>
  BY DEF Lookup, sending, network, bounds
<1>1. u # "main" /\ ~Tearing /\ user["main"].pc = "idle" /\ user[u].addr \in Addrs /\ user[u].pc = "lookup"
  BY CallerFacts DEF Lookup, At
<1>2. user[u].addr # NoAddr
  BY <1>1, UserFacts
<1>d. DeliverInv'
  BY <1>u, SameDeliver DEF Inv
<1>3. CASE Goto(u, "insert") /\ UNCHANGED peer
  <2>1. user' \in [Users -> UserStates] /\ user'[u].pc = "insert" /\ user'[u].addr = user[u].addr
        /\ \A v \in Users : v # u => user'[v] = user[v]
    BY <1>3, GotoFields DEF Inv, PCs
  <2>2. TypeInv' /\ ShutInv'
    BY <2>1, <1>3, <1>u, SameShut DEF Inv, TypeInv
  <2> QED BY <1>1, <1>2, <1>3, <1>u, <1>d, <2>1, <2>2, CallerInv DEF Holding
<1>4. CASE peer[user[u].addr].inht /\ peer' = [peer EXCEPT ![user[u].addr].refcount = @ + 1] /\ Goto(u, "send")
  <2>1. user' \in [Users -> UserStates] /\ user'[u].pc = "send" /\ user'[u].addr = user[u].addr
        /\ \A v \in Users : v # u => user'[v] = user[v]
    BY <1>4, GotoFields DEF Inv, PCs, Holding
  <2> DEFINE a == user[u].addr
  <2>2. /\ peer' \in [Addrs -> Peers] /\ peer'[a].inht /\ ~peer'[a].freed
        /\ peer'[a].refcount = Cardinality(Holders(a)) + 2
        /\ \A b \in Addrs : b # a => peer'[b] = peer[b]
        /\ \A b \in Addrs : peer'[b].fd = peer[b].fd /\ peer'[b].shutdown = peer[b].shutdown
    BY <1>1, <1>4, GetPeerFields
  <2>3. TypeInv' /\ ShutInv'
    BY <2>1, <2>2, <1>u DEF Inv, TypeInv, ShutInv
  <2> HIDE DEF a
  <2>4. a \in Addrs /\ a = user[u].addr
    BY <1>1 DEF a
  <2> QED BY <1>1, <1>u, <1>d, <2>1, <2>2, <2>3, <2>4, TakenInv DEF Holding
<1>5. CASE races' = races \union {"accept_exist"}
  BY <1>5 DEF Sound
<1> QED BY <1>3, <1>4, <1>5 DEF Lookup

LEMMA NewPeerFields == /\ NewPeer \in Peers /\ NewPeer.inht /\ ~NewPeer.freed /\ NewPeer.refcount = 2
                       /\ ~NewPeer.shutdown /\ NewPeer.fd = "none"
<1>1. {} \in SUBSET Threads /\ 0 \in Int /\ 2 \in Int
  OBVIOUS
<1>2. NoPeer \in Peers
  BY <1>1 DEF NoPeer, Peers
<1>3. ~NoPeer.freed /\ ~NoPeer.shutdown /\ NoPeer.fd = "none"
  BY DEF NoPeer
<1> QED BY <1>1, <1>2, <1>3 DEF NewPeer, Peers

\* get_peer inserts its peer, or uses the one that another task has inserted, or fails.
LEMMA InsertInv == ASSUME Inv, NEW u \in Users, Insert(u) PROVE Inv'
<1> USE DEF Addr
<1>u. UNCHANGED <<thr, queue, local, sent, remote, nsends>>
  BY DEF Insert, sending, network, history
<1>1. u # "main" /\ ~Tearing /\ user["main"].pc = "idle" /\ user[u].addr \in Addrs /\ user[u].pc = "insert"
  BY CallerFacts DEF Insert, At
<1>2. user[u].addr # NoAddr
  BY <1>1, UserFacts
<1>d. DeliverInv'
  BY <1>u, SameDeliver DEF Inv
<1> DEFINE a == user[u].addr
<1>a. a \in Addrs /\ a = user[u].addr
  BY <1>1
<1>3. CASE user' = [user EXCEPT ![u] = IdleUser] /\ UNCHANGED peer
  <2>1. user' \in [Users -> UserStates] /\ user'[u] = IdleUser /\ \A v \in Users : v # u => user'[v] = user[v]
    BY <1>3, BusyFields, SetUserFields DEF Inv
  <2>2. TypeInv' /\ ShutInv'
    BY <2>1, <1>3, <1>u, SameShut DEF Inv, TypeInv
  <2> QED BY <1>1, <1>2, <1>3, <1>u, <1>d, <2>1, <2>2, CallerInv, BusyFields DEF Holding
<1>4. CASE peer[a].inht /\ peer' = [peer EXCEPT ![a].refcount = @ + 1] /\ Goto(u, AfterStart(u))
  <2>1. user' \in [Users -> UserStates] /\ user'[u].pc \in {"put", "send"} /\ user'[u].addr = user[u].addr
        /\ \A v \in Users : v # u => user'[v] = user[v]
    BY <1>4, GotoFields DEF Inv, PCs, Holding, AfterStart
  <2>2. /\ peer' \in [Addrs -> Peers] /\ peer'[a].inht /\ ~peer'[a].freed
        /\ peer'[a].refcount = Cardinality(Holders(a)) + 2
        /\ \A b \in Addrs : b # a => peer'[b] = peer[b]
        /\ \A b \in Addrs : peer'[b].fd = peer[b].fd /\ peer'[b].shutdown = peer[b].shutdown
    BY <1>1, <1>4, GetPeerFields
  <2>3. TypeInv' /\ ShutInv'
    BY <2>1, <2>2, <1>u DEF Inv, TypeInv, ShutInv
  <2> HIDE DEF a
  <2> QED BY <1>1, <1>a, <1>u, <1>d, <2>1, <2>2, <2>3, TakenInv DEF Holding
<1>5. CASE ~peer[a].inht /\ peer' = [peer EXCEPT ![a] = NewPeer] /\ Goto(u, "start")
  <2>1. user' \in [Users -> UserStates] /\ user'[u].pc = "start" /\ user'[u].addr = user[u].addr
        /\ \A v \in Users : v # u => user'[v] = user[v]
    BY <1>5, GotoFields DEF Inv, PCs, Holding
  <2>2. /\ peer' \in [Addrs -> Peers] /\ peer'[a] = NewPeer /\ \A b \in Addrs : b # a => peer'[b] = peer[b]
    BY <1>5, <1>a, NewPeerFields DEF Inv, TypeInv
  <2>3. Holders(a) = {} /\ thr[a].send = "none" /\ Cardinality(Holders(a)) = 0
    BY <1>5, <1>a, <1>1, FS_EmptySet DEF Inv, TableInv, Threads
  <2>4. TypeInv' /\ ShutInv'
    BY <2>1, <2>2, <2>3, <1>u, NewPeerFields DEF Inv, TypeInv, ShutInv
  <2>5. peer'[a].refcount = Cardinality(Holders(a)) + 2
    BY <2>2, <2>3, NewPeerFields
  <2> HIDE DEF a
  <2> QED BY <1>1, <1>a, <1>5, <1>u, <1>d, <2>1, <2>2, <2>4, <2>5, NewPeerFields, TakenInv DEF Holding
<1> QED BY <1>3, <1>4, <1>5 DEF Insert

\* Whoever has inserted a peer starts its threads, and nobody else does.
LEMMA StartStepInv == ASSUME Inv, NEW u \in Users, Start(u) PROVE Inv'
<1> USE DEF Addr
<1>t. "connect" \in Threads /\ "send" \in Threads /\ "recv" \in Threads
  BY DEF Threads
<1>u. UNCHANGED <<queue, local, sent, remote, nsends>>
  BY DEF Start, sending, network, history
<1>1. u # "main" /\ ~Tearing /\ user["main"].pc = "idle" /\ user[u].addr \in Addrs /\ user[u].pc = "start"
  BY CallerFacts DEF Start, At
<1> DEFINE a == user[u].addr
<1>2. a \in Addrs /\ a = user[u].addr /\ a # NoAddr /\ thr[a].connect = "none" /\ thr[a].send = "none" /\ thr[a].recv = "none"
  BY <1>1, <1>t, UserFacts DEF Inv, StartInv
<1>3. /\ user' \in [Users -> UserStates] /\ user'[u].pc \in {"put", "send", "fail"} /\ user'[u].addr = user[u].addr
      /\ \A v \in Users : v # u => user'[v] = user[v]
  <2>1. \E l \in {"put", "send", "fail"} : Goto(u, l)
    BY DEF Start, AfterStart
  <2> QED BY <2>1, GotoFields DEF Inv, PCs, Holding
<1>4. /\ thr' \in [Addrs -> [Threads -> ThrStates]] /\ thr'[a].send \in {"none", "top"}
      /\ thr'[a].connect = "connect" => thr'[a].send = "none" /\ thr'[a].recv = "none"
      /\ \A b \in Addrs : b # a => thr'[b] = thr[b]
  <2>1. CASE StartSendRecv(a)
    BY <2>1, <1>2, StartSendRecvFields DEF Inv
  <2>2. CASE ThrGoto(a, "connect", "connect")
    <3>1. /\ thr' \in [Addrs -> [Threads -> ThrStates]] /\ thr'[a].connect = "connect"
          /\ \A b \in Addrs : \A y \in Threads : <<b, y>> # <<a, "connect">> => thr'[b][y] = thr[b][y]
      BY <2>2, <1>2, <1>t, ThrGotoFields DEF Inv, ThrStates
    <3>2. thr'[a].send = "none" /\ thr'[a].recv = "none"
      BY <3>1, <1>2, <1>t
    <3>3. \A b \in Addrs : b # a => thr'[b] = thr[b]
      BY <2>2 DEF ThrGoto, Inv, TypeInv
    <3> QED BY <3>1, <3>2, <3>3
  <2>3. CASE UNCHANGED thr
    BY <2>3, <1>2 DEF Inv, TypeInv
  <2> QED BY <2>1, <2>2, <2>3 DEF Start, ThrGoto
<1>p. /\ peer' \in [Addrs -> Peers]
      /\ \A b \in Addrs : /\ peer'[b].inht = peer[b].inht /\ peer'[b].refcount = peer[b].refcount
                          /\ peer'[b].freed = peer[b].freed /\ peer'[b].shutdown = peer[b].shutdown
                          /\ peer'[b].fd = peer[b].fd \/ peer'[b].fd = "open"
  <2>1. CASE peer' = [peer EXCEPT ![a].fd = "open"]
    BY <2>1, <1>2, OpenFields DEF Inv
  <2>2. CASE UNCHANGED peer
    BY <2>2 DEF Inv, TypeInv
  <2> QED BY <2>1, <2>2 DEF Start
<1> HIDE DEF a
<1>i. TypeInv'
  BY <1>3, <1>4, <1>p, <1>u DEF Inv, TypeInv
<1>s. ShutInv'
  BY <1>4, <1>p, <1>u, <1>2 DEF Inv, ShutInv
<1>d. DeliverInv'
  <2>1. \A b \in Addrs : thr[b].send \in {"fail", "err", "exit"} => thr'[b].send \in {"fail", "err", "exit"}
    BY <1>4, <1>2
  <2> QED BY <2>1, <1>u, SameDeliver DEF Inv
<1>m. user'["main"] = user["main"] /\ ~Tearing'
  BY <1>1, <1>3, UserFacts DEF Tearing
<1>5. UserInv'
  BY <1>1, <1>2, <1>3, <1>m, UserFacts DEF Inv, UserInv
<1>h. \A b : Holders(b)' = Holders(b)
  <2>1. \A b, v : v \in Holders(b)' <=> v \in Holders(b)
    BY <1>1, <1>3, HolderFields DEF Holding
  <2>2. ASSUME NEW b PROVE Holders(b)' = Holders(b)
    <3>1. \A v : v \in Holders(b)' <=> v \in Holders(b)
      BY <2>1
    <3> QED BY ONLY <3>1
  <2> QED BY <2>2
<1>6. RefInv'
  BY <1>h, <1>p DEF Inv, RefInv
<1>7. TableInv'
  <2>1. u \in Holders(a)
    BY <1>1, <1>2, HolderFields DEF Holding
  <2> QED BY <2>1, <1>h, <1>p, <1>m, <1>1, <1>4 DEF Inv, TableInv
<1>8. StartInv'
  <2>1. \A v \in Users : user'[v].pc = "start" => v # u /\ user'[v] = user[v]
    BY <1>3
  <2>2. \A v \in Users : user'[v].pc = "start" => user[v].addr # a /\ user[v].addr \in Addrs
    BY <2>1, <1>1, <1>2 DEF Inv, StartInv, UserInv, TypeInv, UserStates
  <2>3. \A v \in Users : user'[v].pc = "start" => \A x \in Threads : thr'[user'[v].addr][x] = "none"
    BY <2>1, <2>2, <1>4 DEF Inv, StartInv
  <2>4. \A v, w \in Users : user'[v].pc = "start" /\ user'[w].pc = "start" /\ user'[v].addr = user'[w].addr => v = w
    BY <2>1 DEF Inv, StartInv
  <2>5. \A b \in Addrs : thr'[b].connect = "connect" => thr'[b].send = "none" /\ thr'[b].recv = "none"
    BY <1>4 DEF Inv, StartInv
  <2> QED BY <2>3, <2>4, <2>5 DEF StartInv
<1>9. JoinInv'
  <2>1. \A b \in Addrs : ~peer'[b].freed
    BY <1>1, <1>p DEF Inv, TableInv
  <2> QED BY <1>m, <1>1, <2>1 DEF JoinInv
<1> QED BY <1>i, <1>s, <1>d, <1>5, <1>6, <1>7, <1>8, <1>9 DEF Inv

\* A failed start shuts the peer down.
LEMMA StartFailInv == ASSUME Inv, NEW u \in Users, StartFail(u) PROVE Inv'
<1> USE DEF Addr
<1>u. UNCHANGED <<thr, queue, local, sent, remote, nsends>>
  BY DEF StartFail, sending, network, bounds, history
<1>1. u # "main" /\ ~Tearing /\ user["main"].pc = "idle" /\ user[u].addr \in Addrs /\ user[u].pc = "fail"
  BY CallerFacts DEF StartFail, At
<1>2. user[u].addr # NoAddr
  BY <1>1, UserFacts
<1>d. DeliverInv'
  BY <1>u, SameDeliver DEF Inv
<1>3. /\ user' \in [Users -> UserStates] /\ user'[u].pc \in {"put", "send"} /\ user'[u].addr = user[u].addr
      /\ \A v \in Users : v # u => user'[v] = user[v]
  BY GotoFields DEF Inv, PCs, Holding, AfterStart, StartFail
<1>p. /\ peer' \in [Addrs -> Peers]
      /\ \A b \in Addrs : /\ peer'[b].inht = peer[b].inht /\ peer'[b].refcount = peer[b].refcount
                          /\ peer'[b].freed = peer[b].freed
                          /\ peer'[b] = peer[b] \/ peer'[b].shutdown
  <2> DEFINE p == ShutDown(peer[user[u].addr])
             q == [p EXCEPT !.err = TRUE]
  <2>1. peer' = [peer EXCEPT ![user[u].addr] = q] /\ peer[user[u].addr] \in Peers
    BY <1>1 DEF StartFail, Inv, TypeInv
  <2>2. /\ p \in Peers /\ p.shutdown /\ p.inht = peer[user[u].addr].inht
        /\ p.refcount = peer[user[u].addr].refcount /\ p.freed = peer[user[u].addr].freed
    BY <2>1, ShutDownFields
  <2> HIDE DEF p
  <2>3. q \in Peers /\ q.shutdown /\ q.inht = p.inht /\ q.refcount = p.refcount /\ q.freed = p.freed
    BY <2>2 DEF Peers
  <2> HIDE DEF q
  <2> QED BY <2>1, <2>2, <2>3, <1>1 DEF Inv, TypeInv
<1>4. TypeInv'
  BY <1>3, <1>p, <1>u DEF Inv, TypeInv
<1>5. ShutInv'
  BY <1>p, <1>u DEF Inv, ShutInv
<1> QED BY <1>1, <1>2, <1>u, <1>d, <1>3, <1>p, <1>4, <1>5, CallerInv DEF Holding

\* A message is queued behind the others, or is dropped with an error.
LEMMA EnqueueInv == ASSUME Inv, NEW u \in Users, Enqueue(u) PROVE Inv'
<1> USE DEF Addr
<1>u. UNCHANGED <<peer, thr, local, remote, nsends>>
  BY DEF Enqueue, network
<1>1. u # "main" /\ ~Tearing /\ user["main"].pc = "idle" /\ user[u].addr \in Addrs /\ user[u].pc = "send"
  BY CallerFacts DEF Enqueue, At
<1>2. user[u].addr # NoAddr
  BY <1>1, UserFacts
<1>3. /\ user' \in [Users -> UserStates] /\ user'[u].pc \in {"put", "link"} /\ user'[u].addr = user[u].addr
      /\ \A v \in Users : v # u => user'[v] = user[v]
  <2>1. \E l \in {"put", "link"} : Goto(u, l)
    BY DEF Enqueue
  <2> QED BY <2>1, GotoFields DEF Inv, PCs, Holding
<1>s. ShutInv'
  BY <1>u, SameShut DEF Inv
<1>4. CASE UNCHANGED <<queue, sent>>
  <2>1. TypeInv'
    BY <1>3, <1>4, <1>u DEF Inv, TypeInv
  <2>2. DeliverInv'
    BY <1>4, <1>u, SameDeliver DEF Inv
  <2> QED BY <1>1, <1>2, <1>3, <1>s, <1>u, <2>1, <2>2, CallerInv DEF Holding
<1>5. CASE /\ queue' = [queue EXCEPT ![user[u].addr] = Append(@, user[u].msg)]
           /\ sent' = [sent EXCEPT ![user[u].addr] = Append(@, user[u].msg)]
  <2> DEFINE a == user[u].addr
             m == user[u].msg
  <2>1. a \in Addrs /\ m \in Nat
    BY <1>1 DEF Inv, TypeInv, UserStates
  <2>2. \A b \in Addrs : queue[b] \in Seq(Nat) /\ sent[b] \in Seq(Nat) /\ local[b] \in Seq(Nat) /\ remote[b].got \in Seq(Nat)
    BY DEF Inv, TypeInv, Remotes
  <2> HIDE DEF a, m
  <2>3. queue' = [queue EXCEPT ![a] = Append(queue[a], m)] /\ sent' = [sent EXCEPT ![a] = Append(sent[a], m)]
    BY <1>5, <2>1 DEF a, m, Inv, TypeInv
  <2>4. Append(queue[a], m) \in Seq(Nat) /\ Append(sent[a], m) \in Seq(Nat)
    BY <2>1, <2>2, AppendProperties
  <2>5. /\ queue' \in [Addrs -> Seq(Nat)] /\ sent' \in [Addrs -> Seq(Nat)]
        /\ queue'[a] = Append(queue[a], m) /\ sent'[a] = Append(sent[a], m)
        /\ \A b \in Addrs : b # a => queue'[b] = queue[b] /\ sent'[b] = sent[b]
    BY <2>1, <2>3, <2>4 DEF Inv, TypeInv
  <2>6. TypeInv'
    BY <2>5, <1>3, <1>u DEF Inv, TypeInv
  <2>7. ASSUME NEW b \in Addrs
        PROVE  /\ IsPrefixOf(remote[b].got, sent'[b])
               /\ remote[b].open /\ thr[b].send \notin {"fail", "err", "exit"} =>
                    sent'[b] = remote[b].got \o local[b] \o queue'[b]
    <3>1. CASE b # a
      BY <3>1, <2>5 DEF Inv, DeliverInv
    <3>2. CASE b = a
      <4>1. IsPrefixOf(remote[a].got, Append(sent[a], m))
        <5>1. IsPrefixOf(remote[a].got, sent[a])
          BY <2>1 DEF Inv, DeliverInv
        <5> QED BY <5>1, <2>1, <2>2, PrefixSeq
      <4>2. ASSUME sent[a] = remote[a].got \o local[a] \o queue[a]
            PROVE  Append(sent[a], m) = remote[a].got \o local[a] \o Append(queue[a], m)
        <5>1. Append(remote[a].got \o local[a] \o queue[a], m) = remote[a].got \o local[a] \o Append(queue[a], m)
          <6>1. remote[a].got \in Seq(Nat) /\ local[a] \in Seq(Nat) /\ queue[a] \in Seq(Nat)
            BY <2>1, <2>2
          <6> QED BY ONLY <6>1, <2>1, SendSeq, ZenonT(60)
        <5> QED BY <5>1, <4>2, Zenon
      <4>3. remote[a].open /\ thr[a].send \notin {"fail", "err", "exit"} =>
               sent[a] = remote[a].got \o local[a] \o queue[a]
        BY <2>1 DEF Inv, DeliverInv
      <4> QED BY <3>2, <4>1, <4>2, <4>3, <2>5, Zenon
    <3> QED BY <3>1, <3>2
  <2>8. DeliverInv'
    BY <2>7, <1>u DEF DeliverInv
  <2> QED BY <1>1, <1>2, <1>3, <1>s, <1>u, <2>6, <2>8, CallerInv DEF Holding
<1> QED BY <1>4, <1>5 DEF Enqueue

\* The rest of socket_send touches the wait queue and the links only.
LEMMA LinkWakeInv == ASSUME Inv, NEW u \in Users, Link(u) \/ Wake(u) PROVE Inv'
<1> USE DEF Addr
<1>u. UNCHANGED <<peer, thr, local, queue, sent, remote, nsends>>
  BY DEF Link, Wake, network, bounds, history, sending
<1>0. user[u].pc \in {"link", "wake"}
  BY DEF Link, Wake, At
<1>1. u # "main" /\ ~Tearing /\ user["main"].pc = "idle" /\ user[u].addr \in Addrs
  BY <1>0, CallerFacts
<1>2. user[u].addr # NoAddr
  BY <1>1, UserFacts
<1>3. /\ user' \in [Users -> UserStates] /\ user'[u].pc \in {"put", "wake"} /\ user'[u].addr = user[u].addr
      /\ \A v \in Users : v # u => user'[v] = user[v]
  <2>1. \E l \in {"put", "wake"} : Goto(u, l)
    BY DEF Link, Wake
  <2> QED BY <2>1, GotoFields DEF Inv, PCs, Holding
<1>4. TypeInv' /\ ShutInv' /\ DeliverInv'
  BY <1>3, <1>u, SameShut, SameDeliver DEF Inv, TypeInv
<1> QED BY <1>0, <1>1, <1>2, <1>3, <1>4, <1>u, CallerInv DEF Holding

\* A caller puts its reference, never the last one: the table has one too.
LEMMA PutCallerInv == ASSUME Inv, NEW u \in Users, u # "main", Put(u) PROVE Inv'
<1> USE DEF Addr
<1>u. UNCHANGED <<thr, queue, local, sent, remote, nsends>>
  BY DEF Put, sending, network, bounds, history
<1>1. user[u].pc = "put" /\ ~Tearing /\ user["main"].pc = "idle" /\ user[u].addr \in Addrs
  BY UserFacts DEF Put, At, Inv, UserInv, Tearing, TypeInv, UserStates
<1>a. PICK a \in Addrs : a = user[u].addr
  BY <1>1
<1>2. a \in Addrs /\ a = user[u].addr /\ a # NoAddr
  BY <1>a, UserFacts
<1>3. u \in Holders(a) /\ peer[a].inht
  BY <1>1, <1>2, HolderFields DEF Holding, Inv, TableInv
<1>4. /\ peer[a].refcount = Cardinality(Holders(a)) + 1 /\ Cardinality(Holders(a)) \in Nat
      /\ Cardinality(Holders(a)) # 0
  <2>1. Cardinality(Holders(a)) # 0
    BY <1>3, FiniteHolders, FS_EmptySet
  <2> QED BY <2>1, <1>2, <1>3, FiniteHolders DEF Inv, RefInv
<1>5. peer[a].refcount # 1 /\ peer[a].refcount - 1 \in Int
  BY <1>4
<1>6. user' \in [Users -> UserStates] /\ user'[u] = IdleUser /\ \A v \in Users : v # u => user'[v] = user[v]
  <2>1. user' = [user EXCEPT ![u] = IdleUser]
    BY <1>2, <1>5 DEF Put
  <2> QED BY <2>1, BusyFields, SetUserFields DEF Inv
<1>p. /\ peer' \in [Addrs -> Peers] /\ peer'[a].refcount = peer[a].refcount - 1
      /\ \A b \in Addrs : b # a => peer'[b] = peer[b]
      /\ \A b \in Addrs : /\ peer'[b].inht = peer[b].inht /\ peer'[b].freed = peer[b].freed
                          /\ peer'[b].fd = peer[b].fd /\ peer'[b].shutdown = peer[b].shutdown
  <2> DEFINE p == [peer[a] EXCEPT !.refcount = peer[a].refcount - 1]
  <2>1. peer' = [peer EXCEPT ![a] = p] /\ peer[a] \in Peers
    BY <1>2 DEF Put, PutPeer, Inv, TypeInv
  <2>2. /\ p \in Peers /\ p.inht = peer[a].inht /\ p.freed = peer[a].freed /\ p.fd = peer[a].fd
        /\ p.shutdown = peer[a].shutdown /\ p.refcount = peer[a].refcount - 1
    BY <2>1, <1>5, RefcountFields
  <2> HIDE DEF p
  <2> QED BY <2>1, <2>2, <1>2 DEF Inv, TypeInv
<1>i. TypeInv'
  BY <1>6, <1>p, <1>u DEF Inv, TypeInv
<1>s. ShutInv' /\ DeliverInv'
  BY <1>p, <1>u, SameDeliver DEF Inv, ShutInv
<1>m. user'["main"] = user["main"] /\ ~Tearing'
  BY <1>1, <1>6, UserFacts DEF Tearing
<1>7. UserInv'
  BY <1>1, <1>6, <1>m, UserFacts, BusyFields DEF Inv, UserInv
<1>h. Holders(a)' = Holders(a) \ {u} /\ \A b : b # a => Holders(b)' = Holders(b)
  <2>1. \A b, v : v \in Holders(b)' <=> v \in Holders(b) /\ ~(v = u /\ b = a)
    BY <1>2, <1>6, BusyFields, HolderFields DEF Holding
  <2>2. ASSUME NEW b PROVE Holders(b)' = Holders(b) \ (IF b = a THEN {u} ELSE {})
    BY ONLY <2>1, Zenon
  <2> QED BY <2>2
<1>8. RefInv'
  <2>1. Cardinality(Holders(a))' = Cardinality(Holders(a)) - 1
    BY <1>3, <1>h, RemoveHolder
  <2>2. peer'[a].refcount = Cardinality(Holders(a))' + 1
    BY <2>1, <1>4, <1>p
  <2>3. ASSUME NEW b \in Addrs
        PROVE  peer'[b].refcount = Cardinality(Holders(b))' + (IF peer'[b].inht THEN 1 ELSE 0)
    <3>1. CASE b = a
      BY <3>1, <2>2, <1>p, <1>3
    <3>2. CASE b # a
      BY <3>2, <1>h, <1>p DEF Inv, RefInv
    <3> QED BY <3>1, <3>2
  <2> QED BY <2>3 DEF RefInv
<1>9. TableInv'
  BY <1>1, <1>3, <1>h, <1>p, <1>m, <1>u DEF Inv, TableInv
<1>10. StartInv'
  <2>1. \A v \in Users : user'[v].pc = "start" => v # u /\ user'[v] = user[v]
    BY <1>6, BusyFields
  <2> QED BY <2>1, <1>u DEF Inv, StartInv
<1>11. JoinInv'
  BY <1>1, <1>m, <1>p, <1>u DEF Inv, JoinInv
<1> QED BY <1>i, <1>s, <1>7, <1>8, <1>9, <1>10, <1>11 DEF Inv

-----------------------------------------------------------------------------
(***************************************************************************)
(* The tear down                                                           *)
(***************************************************************************)
OthersIdle == \A v \in Users \ {"main"} : user[v].pc = "idle"
MainPC == user["main"].pc \in {"idle", "destroy", "put", "stop", "join"}
MainHolds(b) == user["main"].pc = "put" /\ user["main"].addr = b

\* During the tear down the main thread is the only holder there can be.
LEMMA MainHolders ==
    OthersIdle /\ MainPC => \A b : Cardinality(Holders(b)) = IF MainHolds(b) THEN 1 ELSE 0
<1> SUFFICES ASSUME OthersIdle, MainPC, NEW b
             PROVE  Cardinality(Holders(b)) = IF MainHolds(b) THEN 1 ELSE 0
  OBVIOUS
<1>1. \A v : v \in Holders(b) <=> v = "main" /\ MainHolds(b)
  BY HolderFields, UserFacts DEF OthersIdle, MainPC, MainHolds, Holding
<1>2. CASE MainHolds(b)
  <2>1. Holders(b) = {"main"}
    BY <1>1, <1>2
  <2> QED BY <2>1, <1>2, FS_Singleton
<1>3. CASE ~MainHolds(b)
  <2>1. Holders(b) = {}
    BY <1>1, <1>3
  <2> QED BY <2>1, <1>3, FS_EmptySet
<1> QED BY <1>2, <1>3

\* A step of the main thread, which leaves the threads of the peers to themselves.
LEMMA MainInv ==
    ASSUME Inv, TypeInv', OthersIdle, \A v \in Users : v # "main" => user'[v] = user[v],
           user'["main"].pc \in {"destroy", "put", "stop", "join"},
           user'["main"].addr = NoAddr <=> user'["main"].pc = "destroy",
           UNCHANGED thr,
           \A b \in Addrs : peer'[b].refcount = (IF MainHolds(b)' THEN 1 ELSE 0) + (IF peer'[b].inht THEN 1 ELSE 0),
           user'["main"].pc # "destroy" => ~peer'[user'["main"].addr].inht /\ ~peer'[user'["main"].addr].freed,
           JoinInv', ShutInv', DeliverInv'
    PROVE  Inv'
<1> USE UserFacts DEF Addr
<1>1. OthersIdle' /\ MainPC' /\ Tearing'
  BY DEF OthersIdle, MainPC, Tearing
<1>2. UserInv'
  BY <1>1 DEF Inv, UserInv, OthersIdle
<1>3. RefInv'
  <2>1. (OthersIdle /\ MainPC => \A b : Cardinality(Holders(b)) = IF MainHolds(b) THEN 1 ELSE 0)'
    BY MainHolders, PTL
  <2>2. \A b : Cardinality(Holders(b))' = IF MainHolds(b)' THEN 1 ELSE 0
    BY <2>1, <1>1
  <2> QED BY <2>2 DEF RefInv
<1>4. TableInv'
  BY <1>1 DEF TableInv
<1>5. StartInv'
  <2>1. \A v \in Users : user'[v].pc # "start"
    BY <1>1 DEF OthersIdle
  <2> QED BY <2>1 DEF Inv, StartInv
<1> QED BY <1>2, <1>3, <1>4, <1>5 DEF Inv

\* What is known of a peer's references then.
LEMMA MainFacts ==
    ASSUME Inv, Tearing
    PROVE  /\ OthersIdle /\ user["main"] \in UserStates
           /\ user["main"].pc # "destroy" => user["main"].addr \in Addrs /\ user["main"].addr # NoAddr
           /\ \A b \in Addrs : peer[b].refcount = (IF MainHolds(b) THEN 1 ELSE 0) + (IF peer[b].inht THEN 1 ELSE 0)
<1>1. OthersIdle /\ MainPC
  BY DEF Inv, UserInv, OthersIdle, MainPC
<1>2. \A b : Cardinality(Holders(b)) = IF MainHolds(b) THEN 1 ELSE 0
  BY <1>1, MainHolders
<1> QED BY <1>1, <1>2, UserFacts DEF Inv, RefInv, TypeInv, UserStates, UserInv, Tearing

LEMMA StopListenInv == ASSUME Inv, StopListen PROVE Inv'
<1>u. UNCHANGED <<peer, thr, queue, local, sent, remote, nsends>>
  BY DEF StopListen, sending, network, bounds, history
<1>1. OthersIdle /\ MainPC /\ user["main"].pc = "idle"
  BY UserFacts DEF StopListen, OthersIdle, MainPC, At
<1>2. /\ Busy("destroy", NoAddr) \in UserStates /\ Busy("destroy", NoAddr).pc = "destroy"
      /\ Busy("destroy", NoAddr).addr = NoAddr
  BY BusyFields DEF PCs
<1>3. user' \in [Users -> UserStates] /\ user'["main"] = Busy("destroy", NoAddr) /\ \A v \in Users : v # "main" => user'[v] = user[v]
  BY <1>2, UserFacts, SetUserFields DEF Inv, StopListen
<1>4. TypeInv' /\ ShutInv' /\ DeliverInv'
  BY <1>3, <1>u, SameShut, SameDeliver DEF Inv, TypeInv
<1>5. \A b \in Addrs : peer'[b].refcount = (IF MainHolds(b)' THEN 1 ELSE 0) + (IF peer'[b].inht THEN 1 ELSE 0)
  <2>1. \A b : Cardinality(Holders(b)) = 0
    BY <1>1, MainHolders DEF MainHolds
  <2>2. \A b : ~MainHolds(b)'
    BY <1>2, <1>3 DEF MainHolds
  <2> QED BY <2>1, <2>2, <1>u DEF Inv, RefInv
<1>6. JoinInv'
  BY <1>2, <1>3, <1>u DEF Inv, JoinInv
<1> QED BY <1>u, <1>1, <1>2, <1>3, <1>4, <1>5, <1>6, MainInv

\* The table's reference becomes the main thread's.
LEMMA DestroyPeerInv == ASSUME Inv, NEW a \in Addrs, DestroyPeer(a) PROVE Inv'
<1>u. UNCHANGED <<thr, queue, local, sent, remote, nsends>>
  BY DEF DestroyPeer, sending, network, bounds, history
<1>1. Tearing /\ user["main"].pc = "destroy" /\ peer[a].inht
  BY DEF DestroyPeer, At, Tearing
<1>f. /\ OthersIdle
      /\ \A b \in Addrs : peer[b].refcount = (IF MainHolds(b) THEN 1 ELSE 0) + (IF peer[b].inht THEN 1 ELSE 0)
  BY <1>1, MainFacts
<1>2. Busy("put", a) \in UserStates /\ Busy("put", a).pc = "put" /\ Busy("put", a).addr = a /\ a # NoAddr
  BY BusyFields, UserFacts DEF PCs, Holding
<1>3. user' \in [Users -> UserStates] /\ user'["main"] = Busy("put", a) /\ \A v \in Users : v # "main" => user'[v] = user[v]
  BY <1>2, UserFacts, SetUserFields DEF Inv, DestroyPeer
<1>p. /\ peer' \in [Addrs -> Peers] /\ ~peer'[a].inht
      /\ \A b \in Addrs : b # a => peer'[b] = peer[b]
      /\ \A b \in Addrs : /\ peer'[b].refcount = peer[b].refcount /\ peer'[b].freed = peer[b].freed
                          /\ peer'[b].fd = peer[b].fd /\ peer'[b].shutdown = peer[b].shutdown
  <2> DEFINE p == [peer[a] EXCEPT !.inht = FALSE]
  <2>1. peer' = [peer EXCEPT ![a] = p] /\ peer[a] \in Peers
    BY DEF DestroyPeer, Inv, TypeInv
  <2>2. /\ p \in Peers /\ ~p.inht /\ p.freed = peer[a].freed /\ p.fd = peer[a].fd
        /\ p.shutdown = peer[a].shutdown /\ p.refcount = peer[a].refcount
    BY <2>1 DEF Peers
  <2> HIDE DEF p
  <2> QED BY <2>1, <2>2 DEF Inv, TypeInv
<1>4. TypeInv' /\ ShutInv' /\ DeliverInv'
  BY <1>3, <1>u, <1>p, SameDeliver DEF Inv, TypeInv, ShutInv
<1>5. \A b \in Addrs : peer'[b].refcount = (IF MainHolds(b)' THEN 1 ELSE 0) + (IF peer'[b].inht THEN 1 ELSE 0)
  <2>1. \A b : MainHolds(b)' <=> b = a
    BY <1>2, <1>3 DEF MainHolds
  <2>2. \A b : ~MainHolds(b)
    BY <1>1 DEF MainHolds
  <2> QED BY <2>1, <2>2, <1>1, <1>f, <1>p
<1>6. ~peer'[a].freed
  BY <1>1, <1>p DEF Inv, JoinInv
<1>7. JoinInv'
  BY <1>2, <1>3, <1>u, <1>p DEF Inv, JoinInv
<1> QED BY <1>u, <1>f, <1>p, <1>2, <1>3, <1>4, <1>5, <1>6, <1>7, MainInv

\* The main thread puts the last reference and goes on to stop the peer's threads.
LEMMA PutMainInv == ASSUME Inv, Put("main") PROVE Inv'
<1> USE DEF Addr
<1>u. UNCHANGED <<thr, queue, local, sent, remote, nsends>>
  BY DEF Put, sending, network, bounds, history
<1>1. Tearing /\ user["main"].pc = "put"
  BY DEF Put, At, Tearing
<1>f. /\ OthersIdle /\ user["main"].addr \in Addrs
      /\ \A b \in Addrs : peer[b].refcount = (IF MainHolds(b) THEN 1 ELSE 0) + (IF peer[b].inht THEN 1 ELSE 0)
  BY <1>1, MainFacts
<1>a. PICK a \in Addrs : a = user["main"].addr
  BY <1>f
<1>2. ~peer[a].inht /\ ~peer[a].freed /\ peer[a].refcount = 1 /\ a # NoAddr
  <2>1. ~peer[a].inht /\ ~peer[a].freed /\ MainHolds(a)
    BY <1>a, <1>1 DEF Inv, TableInv, MainHolds
  <2> QED BY <2>1, <1>f, <1>a, UserFacts
<1> DEFINE n == [Busy("stop", a) EXCEPT !.left = <<"connect", "send", "recv">>]
<1>3. n \in UserStates /\ n.pc = "stop" /\ n.addr = a /\ n.left = <<"connect", "send", "recv">>
  <2>1. Busy("stop", a) \in UserStates /\ Busy("stop", a).pc = "stop" /\ Busy("stop", a).addr = a
    BY BusyFields DEF PCs
  <2> QED BY <2>1 DEF UserStates, Lefts
<1>4. user' = [user EXCEPT !["main"] = n]
  BY <1>a, <1>2 DEF Put
<1> HIDE DEF n
<1>5. user' \in [Users -> UserStates] /\ user'["main"] = n /\ \A v \in Users : v # "main" => user'[v] = user[v]
  BY <1>3, <1>4, UserFacts, SetUserFields DEF Inv
<1>p. /\ peer' \in [Addrs -> Peers] /\ peer'[a].refcount = 0
      /\ \A b \in Addrs : b # a => peer'[b] = peer[b]
      /\ \A b \in Addrs : /\ peer'[b].inht = peer[b].inht /\ peer'[b].freed = peer[b].freed
                          /\ peer'[b].fd = peer[b].fd /\ peer'[b].shutdown = peer[b].shutdown
  <2> DEFINE p == [peer[a] EXCEPT !.refcount = peer[a].refcount - 1]
  <2>1. peer' = [peer EXCEPT ![a] = p] /\ peer[a] \in Peers
    BY <1>a DEF Put, PutPeer, Inv, TypeInv
  <2>r. peer[a].refcount - 1 = 0 /\ peer[a].refcount - 1 \in Int
    BY <1>2
  <2>2. /\ p \in Peers /\ p.inht = peer[a].inht /\ p.freed = peer[a].freed /\ p.fd = peer[a].fd
        /\ p.shutdown = peer[a].shutdown /\ p.refcount = peer[a].refcount - 1
    BY <2>1, <2>r, RefcountFields
  <2> HIDE DEF p
  <2> QED BY <2>1, <2>2, <2>r, <1>2 DEF Inv, TypeInv
<1>6. TypeInv' /\ ShutInv' /\ DeliverInv'
  BY <1>5, <1>u, <1>p, SameDeliver DEF Inv, TypeInv, ShutInv
<1>7. \A b \in Addrs : peer'[b].refcount = (IF MainHolds(b)' THEN 1 ELSE 0) + (IF peer'[b].inht THEN 1 ELSE 0)
  <2>1. \A b : ~MainHolds(b)'
    BY <1>3, <1>5 DEF MainHolds
  <2>2. \A b : MainHolds(b) => b = a
    BY <1>a DEF MainHolds
  <2> QED BY <2>1, <2>2, <1>2, <1>f, <1>p
<1>8. ~peer'[a].freed /\ ~peer'[a].inht
  BY <1>2, <1>p
<1>9. JoinInv'
  <2>1. <<"connect", "send", "recv">> # << >> /\ <<"connect", "send", "recv">> # <<"send", "recv">>
        /\ <<"connect", "send", "recv">> # <<"recv">>
    OBVIOUS
  <2> QED BY <2>1, <1>3, <1>5, <1>u, <1>p DEF Inv, JoinInv
<1> QED BY <1>u, <1>f, <1>p, <1>2, <1>3, <1>5, <1>6, <1>7, <1>8, <1>9, MainInv

LEMMA StopFields ==
    ASSUME NEW q \in Peers, NEW st \in SUBSET Threads
    PROVE  LET p == [q EXCEPT !.stop = st]
           IN  /\ p \in Peers /\ p.inht = q.inht /\ p.freed = q.freed /\ p.fd = q.fd
               /\ p.shutdown = q.shutdown /\ p.refcount = q.refcount
  BY DEF Peers

LEMMA StopIndicateInv == ASSUME Inv, NEW u \in Users, StopIndicate(u) PROVE Inv'
<1> USE DEF Addr
<1>u. UNCHANGED <<thr, queue, local, sent, remote, nsends>>
  BY DEF StopIndicate, sending, network, bounds, history
<1>1. Tearing /\ user["main"].pc = "stop" /\ u = "main"
  BY UserFacts DEF StopIndicate, At, Tearing, Inv, UserInv
<1>f. /\ OthersIdle /\ user["main"].addr \in Addrs /\ user["main"].addr # NoAddr
      /\ \A b \in Addrs : peer[b].refcount = (IF MainHolds(b) THEN 1 ELSE 0) + (IF peer[b].inht THEN 1 ELSE 0)
  BY <1>1, MainFacts
<1>a. PICK a \in Addrs : a = user["main"].addr
  BY <1>f
<1>2. /\ user' \in [Users -> UserStates] /\ user'["main"].pc = "join" /\ user'["main"].addr = a
      /\ user'["main"].left = user["main"].left
      /\ \A v \in Users : v # "main" => user'[v] = user[v]
  BY <1>1, <1>a, UserFacts, GotoFields DEF StopIndicate, Inv, PCs
<1>p. /\ peer' \in [Addrs -> Peers]
      /\ \A b \in Addrs : /\ peer'[b].inht = peer[b].inht /\ peer'[b].freed = peer[b].freed
                          /\ peer'[b].fd = peer[b].fd /\ peer'[b].shutdown = peer[b].shutdown
                          /\ peer'[b].refcount = peer[b].refcount
  <2> DEFINE st == peer[a].stop \union (Created(a) \intersect {Head(user["main"].left)})
             p == [peer[a] EXCEPT !.stop = st]
  <2>1. peer' = [peer EXCEPT ![a] = p] /\ peer[a] \in Peers
    BY <1>1, <1>a DEF StopIndicate, Inv, TypeInv
  <2>2. st \in SUBSET Threads
    BY <2>1 DEF Peers, Created
  <2> HIDE DEF st
  <2>3. /\ p \in Peers /\ p.inht = peer[a].inht /\ p.freed = peer[a].freed /\ p.fd = peer[a].fd
        /\ p.shutdown = peer[a].shutdown /\ p.refcount = peer[a].refcount
    BY <2>1, <2>2, StopFields
  <2> HIDE DEF p
  <2> QED BY <2>1, <2>3 DEF Inv, TypeInv
<1>3. TypeInv' /\ ShutInv' /\ DeliverInv'
  BY <1>2, <1>u, <1>p, SameDeliver DEF Inv, TypeInv, ShutInv
<1>4. \A b \in Addrs : peer'[b].refcount = (IF MainHolds(b)' THEN 1 ELSE 0) + (IF peer'[b].inht THEN 1 ELSE 0)
  <2>1. \A b : ~MainHolds(b)' /\ ~MainHolds(b)
    BY <1>1, <1>2 DEF MainHolds
  <2> QED BY <2>1, <1>f, <1>p
<1>5. ~peer'[a].freed /\ ~peer'[a].inht
  BY <1>1, <1>a, <1>p DEF Inv, TableInv
<1>6. JoinInv'
  BY <1>1, <1>a, <1>2, <1>u, <1>p DEF Inv, JoinInv
<1> QED BY <1>u, <1>f, <1>a, <1>p, <1>2, <1>3, <1>4, <1>5, <1>6, MainInv

\* The main thread goes from one thread to the next, in the order connect, send, recv.
LEMMA LeftFields ==
    ASSUME NEW left \in Lefts, left # << >>
    PROVE  /\ Tail(left) \in Lefts
           /\ \/ Head(left) = "connect" /\ Tail(left) = <<"send", "recv">> /\ Len(left) = 3
              \/ left = <<"send", "recv">> /\ Head(left) = "send" /\ Tail(left) = <<"recv">> /\ Len(left) = 2
              \/ left = <<"recv">> /\ Head(left) = "recv" /\ Len(left) = 1 /\ Tail(left) = << >>
<1>1. CASE left = <<"connect", "send", "recv">>
  <2>1. Head(left) = "connect" /\ Tail(left) = <<"send", "recv">> /\ Len(left) = 3
    BY <1>1
  <2> QED BY <2>1 DEF Lefts
<1>2. CASE left = <<"send", "recv">>
  <2>1. Head(left) = "send" /\ Tail(left) = <<"recv">> /\ Len(left) = 2
    BY <1>2
  <2> QED BY <2>1, <1>2 DEF Lefts
<1>3. CASE left = <<"recv">>
  <2>1. Head(left) = "recv" /\ Tail(left) = << >> /\ Len(left) = 1
    BY <1>3
  <2> QED BY <2>1, <1>3 DEF Lefts
<1> QED BY <1>1, <1>2, <1>3 DEF Lefts

LEMMA JoinStepInv == ASSUME Inv, NEW u \in Users, Join(u) PROVE Inv'
<1> USE DEF Addr
<1>t. "connect" \in Threads /\ "send" \in Threads /\ "recv" \in Threads /\ Threads = {"connect", "send", "recv"}
  BY DEF Threads
<1>u. UNCHANGED <<thr, queue, local, sent, remote, nsends>>
  BY DEF Join, sending, network, bounds, history
<1>1. Tearing /\ user["main"].pc = "join" /\ u = "main"
  BY UserFacts DEF Join, At, Tearing, Inv, UserInv
<1>f. /\ OthersIdle /\ user["main"].addr \in Addrs /\ user["main"].addr # NoAddr /\ user["main"] \in UserStates
      /\ \A b \in Addrs : peer[b].refcount = (IF MainHolds(b) THEN 1 ELSE 0) + (IF peer[b].inht THEN 1 ELSE 0)
  BY <1>1, MainFacts
<1>a. PICK a \in Addrs : a = user["main"].addr
  BY <1>f
<1>2. ~peer[a].inht /\ ~peer[a].freed
  BY <1>1, <1>a DEF Inv, TableInv
<1>l. PICK left \in Lefts : left = user["main"].left
  BY <1>f DEF UserStates
<1>3. left # << >> /\ thr[a][Head(left)] \in Done
  BY <1>1, <1>a, <1>l DEF Inv, JoinInv, Join, Done
<1>j. /\ left = <<"send", "recv">> => thr[a].connect \in Done
      /\ left = <<"recv">> => thr[a].connect \in Done /\ thr[a].send \in Done
  BY <1>1, <1>a, <1>l DEF Inv, JoinInv
<1>h. \A b : ~MainHolds(b)
  BY <1>1 DEF MainHolds
<1>4. CASE Len(left) = 1
  <2>1. peer' = [peer EXCEPT ![a].freed = TRUE] /\ user' = [user EXCEPT !["main"] = Busy("destroy", NoAddr)]
    BY <1>1, <1>a, <1>l, <1>4 DEF Join
  <2>2. /\ Busy("destroy", NoAddr) \in UserStates /\ Busy("destroy", NoAddr).pc = "destroy"
        /\ Busy("destroy", NoAddr).addr = NoAddr
    BY BusyFields DEF PCs
  <2>3. user' \in [Users -> UserStates] /\ user'["main"] = Busy("destroy", NoAddr) /\ \A v \in Users : v # "main" => user'[v] = user[v]
    BY <2>1, <2>2, UserFacts, SetUserFields DEF Inv
  <2>p. /\ peer' \in [Addrs -> Peers]
        /\ \A b \in Addrs : /\ peer'[b].inht = peer[b].inht /\ (peer'[b].freed => peer[b].freed \/ b = a)
                            /\ peer'[b].fd = peer[b].fd /\ peer'[b].shutdown = peer[b].shutdown
                            /\ peer'[b].refcount = peer[b].refcount
    <3> DEFINE p == [peer[a] EXCEPT !.freed = TRUE]
    <3>1. peer' = [peer EXCEPT ![a] = p] /\ peer[a] \in Peers
      BY <2>1 DEF Inv, TypeInv
    <3>2. /\ p \in Peers /\ p.inht = peer[a].inht /\ p.fd = peer[a].fd
          /\ p.shutdown = peer[a].shutdown /\ p.refcount = peer[a].refcount
      BY <3>1 DEF Peers
    <3> HIDE DEF p
    <3> QED BY <3>1, <3>2 DEF Inv, TypeInv
  <2>4. TypeInv' /\ ShutInv' /\ DeliverInv'
    BY <2>3, <1>u, <2>p, SameDeliver DEF Inv, TypeInv, ShutInv
  <2>5. \A b \in Addrs : peer'[b].refcount = (IF MainHolds(b)' THEN 1 ELSE 0) + (IF peer'[b].inht THEN 1 ELSE 0)
    <3>1. \A b : ~MainHolds(b)'
      BY <2>2, <2>3 DEF MainHolds
    <3> QED BY <3>1, <1>h, <1>f, <2>p
  <2>6. \A x \in Threads : thr[a][x] \in Done
    <3>1. left = <<"recv">> /\ Head(left) = "recv"
      BY <1>3, <1>4, LeftFields
    <3> QED BY <3>1, <1>3, <1>j, <1>t
  <2>7. JoinInv'
    BY <2>2, <2>3, <2>p, <2>6, <1>2, <1>u DEF Inv, JoinInv
  <2> QED BY <1>u, <1>f, <2>p, <2>2, <2>3, <2>4, <2>5, <2>7, MainInv
<1>5. CASE Len(left) # 1
  <2> DEFINE n == [user["main"] EXCEPT !.pc = "stop", !.left = Tail(left)]
  <2>1. UNCHANGED peer /\ user' = [user EXCEPT !["main"] = n]
    BY <1>1, <1>l, <1>5 DEF Join
  <2>t. Tail(left) \in Lefts /\ \/ Head(left) = "connect" /\ Tail(left) = <<"send", "recv">>
                                \/ left = <<"send", "recv">> /\ Head(left) = "send" /\ Tail(left) = <<"recv">>
    BY <1>3, <1>5, LeftFields
  <2>2. n \in UserStates /\ n.pc = "stop" /\ n.addr = a /\ n.left = Tail(left)
    BY <1>f, <1>a, <2>t DEF UserStates
  <2> HIDE DEF n
  <2>3. user' \in [Users -> UserStates] /\ user'["main"] = n /\ \A v \in Users : v # "main" => user'[v] = user[v]
    BY <2>1, <2>2, UserFacts, SetUserFields DEF Inv
  <2>4. TypeInv' /\ ShutInv' /\ DeliverInv'
    BY <2>1, <2>3, <1>u, SameShut, SameDeliver DEF Inv, TypeInv
  <2>5. \A b \in Addrs : peer'[b].refcount = (IF MainHolds(b)' THEN 1 ELSE 0) + (IF peer'[b].inht THEN 1 ELSE 0)
    <3>1. \A b : ~MainHolds(b)'
      BY <2>2, <2>3 DEF MainHolds
    <3> QED BY <3>1, <1>h, <1>f, <2>1
  <2>6. /\ Tail(left) # << >>
        /\ Tail(left) = <<"send", "recv">> => thr[a].connect \in Done
        /\ Tail(left) = <<"recv">> => thr[a].connect \in Done /\ thr[a].send \in Done
    <3>1. <<"send", "recv">> # << >> /\ <<"recv">> # << >> /\ <<"send", "recv">> # <<"recv">>
      OBVIOUS
    <3> QED BY <3>1, <2>t, <1>3, <1>j, <1>t
  <2>7. JoinInv'
    BY <2>1, <2>2, <2>3, <2>6, <1>u DEF Inv, JoinInv
  <2> QED BY <1>u, <1>f, <1>a, <1>2, <2>1, <2>2, <2>3, <2>4, <2>5, <2>7, MainInv
<1> QED BY <1>4, <1>5

-----------------------------------------------------------------------------
(***************************************************************************)
(* The theorems                                                            *)
(***************************************************************************)
LEMMA InitInv == Init => Inv
<1>c. /\ {} \in SUBSET Threads /\ 0 \in Int /\ << >> \in Seq(Nat) /\ IsPrefixOf(<< >>, << >>)
      /\ << >> \o << >> \o << >> = << >>
  <2>1. << >> \in Seq(Nat) /\ << >> \o << >> = << >>
    BY EmptySeq, ConcatEmptySeq
  <2>2. IsPrefixOf(<< >>, << >>)
    BY <2>1, PrefixSeq
  <2> QED BY <2>1, <2>2
<1>r. [open |-> TRUE, got |-> << >>] \in Remotes
  BY <1>c DEF Remotes
<1> SUFFICES ASSUME Init PROVE Inv
  OBVIOUS
<1> USE DEF Init
<1>1. TypeInv
  <2>1. NoPeer \in Peers
    BY <1>c DEF NoPeer, Peers
  <2>2. NoThreads \in [Threads -> ThrStates]
    BY DEF NoThreads, Threads, ThrStates
  <2> QED BY <2>1, <2>2, <1>c, <1>r, BusyFields DEF TypeInv
<1>2. \A u \in Users : user[u].pc = "idle" /\ user[u].addr = NoAddr
  BY BusyFields
<1>3. UserInv /\ StartInv
  <2>1. \A a \in Addrs : thr[a].connect = "none"
    BY DEF NoThreads, Threads
  <2> QED BY <2>1, <1>2, UserFacts DEF UserInv, StartInv, Tearing
<1>4. \A a : Holders(a) = {} /\ Cardinality(Holders(a)) = 0
  <2>1. \A a, u : u \notin Holders(a)
    BY ZenonT(60), <1>2, HolderFields DEF Holding
  <2>2. ASSUME NEW a PROVE Holders(a) = {}
    BY <2>1
  <2> QED BY <2>2, FS_EmptySet
<1>5. \A a \in Addrs : /\ ~peer[a].inht /\ peer[a].refcount = 0 /\ ~peer[a].freed /\ peer[a].fd = "none"
                       /\ \A x \in Threads : thr[a][x] = "none"
  BY DEF NoPeer, NoThreads
<1>6. RefInv /\ TableInv /\ JoinInv
  BY ONLY <1>2, <1>4, <1>5, UserFacts DEF RefInv, TableInv, JoinInv
<1>7. ShutInv /\ DeliverInv
  <2>2. \A a \in Addrs : thr[a].send = "none" /\ remote[a].got = << >>
    BY <1>5 DEF Threads
  <2> QED BY <1>c, <2>2, <1>5 DEF ShutInv, DeliverInv
<1> QED BY <1>1, <1>3, <1>6, <1>7 DEF Inv

\* Nothing ends a race that was seen, and nothing revives the process.
LEMMA StaysUnsound == [Next]_vars /\ Sound' => Sound
<1> SUFFICES ASSUME Next, Sound' PROVE Sound
  BY DEF vars, history, Sound
<1> USE DEF Sound, history, At, ThrAt
<1>1. ASSUME NEW u \in Users, UserStep(u) PROVE Sound
  BY <1>1 DEF UserStep, Lookup, Insert, Start, StartFail, Put, StopIndicate, Join, Enqueue, Link, Wake
<1>2. ASSUME NEW a \in Addrs, SendStep(a) \/ RecvStep(a) \/ ConnectStep(a) \/ RecvMsg(a) \/ RemoteClose(a)
      PROVE  Sound
  BY <1>2 DEF SendStep, RecvStep, ConnectStep, RecvMsg, RemoteClose, SendTop, SendWait, SendWrite, SendAssert,
              SendOut, SetErr, RecvTop, RecvClosed, ThreadOut, Connect, Abort
<1>3. CASE Tear
  BY <1>3 DEF Tear, StopListen, DestroyPeer
<1> QED BY <1>1, <1>2, <1>3 DEF Next, CallSend, CallAccept

LEMMA NextInv == Inv /\ [Next]_vars /\ Sound' => Inv'
<1> SUFFICES ASSUME Inv, [Next]_vars, Sound' PROVE Inv'
  OBVIOUS
<1>1. ASSUME NEW u \in Users, UserStep(u) PROVE Inv'
  <2>1. CASE Put(u)
    BY <2>1, PutCallerInv, PutMainInv
  <2> QED BY <1>1, <2>1, LookupInv, InsertInv, StartStepInv, StartFailInv, StopIndicateInv, JoinStepInv,
             EnqueueInv, LinkWakeInv DEF UserStep
<1>2. ASSUME NEW a \in Addrs, SendStep(a) PROVE Inv'
  <2>1. ~SendAssert(a)
    BY DEF SendAssert, Abort, Sound
  <2> QED BY <1>2, <2>1, SendTopInv, SendWaitInv, SendWriteInv, SendOutInv, SetErrInv DEF SendStep, Threads
<1>3. ASSUME NEW a \in Addrs, RecvStep(a) \/ ConnectStep(a) \/ RecvMsg(a) \/ RemoteClose(a) PROVE Inv'
  BY <1>3, RecvInv, ThreadOutInv, SetErrInv, ConnectInv, RemoteCloseInv DEF RecvStep, ConnectStep, Threads
<1>4. CASE Tear
  BY <1>4, StopListenInv, DestroyPeerInv DEF Tear
<1>5. CASE UNCHANGED vars
  <2> USE <1>5 DEF vars, sending, network, bounds, history
  <2>1. TypeInv' /\ ShutInv' /\ DeliverInv'
    BY SameShut, SameDeliver DEF Inv, TypeInv
  <2>2. \A b \in Addrs : thr'[b].connect = "connect" => thr'[b].send = "none" /\ thr'[b].recv = "none"
    BY DEF Inv, StartInv
  <2> QED BY <2>1, <2>2, ThreadsInv
<1> QED BY <1>1, <1>2, <1>3, <1>4, <1>5, CallSendInv, CallAcceptInv DEF Next

\* The inductive invariant: until a connection is accepted from the address of a known peer
\* or the process dies, all of Inv holds.
THEOREM IInvHolds == Spec => []IInv
<1>1. Init => IInv
  BY InitInv DEF IInv
<1>2. IInv /\ [Next]_vars => IInv'
  BY NextInv, StaysUnsound DEF IInv
<1> QED BY <1>1, <1>2, PTL DEF Spec

\* Every peer's reference count is the number of its holders, whoever wins the race to insert
\* it and however its start ends.
THEOREM RefsCounted == Spec => []PeerRefs
<1>1. IInv => PeerRefs
  BY DEF IInv, Inv, RefInv, PeerRefs
<1> QED BY <1>1, IInvHolds, PTL

\* socket_destroy_peer frees a peer after its threads have ended, its users are gone and the
\* table has let it go.
THEOREM FreedLast == Spec => []FreedUnused
<1>1. IInv => FreedUnused
  <2> SUFFICES ASSUME Inv, NEW a \in Addrs, peer[a].freed
               PROVE  /\ \A x \in Threads : thr[a][x] \in {"none", "exit"}
                      /\ \A u \in Users : Addr(u) # a
                      /\ ~peer[a].inht
    BY DEF IInv, FreedUnused
  <2>1. ~peer[a].inht /\ \A x \in Threads : thr[a][x] \in {"none", "exit"}
    BY DEF Inv, JoinInv, Done
  <2>2. Tearing
    BY DEF Inv, TableInv
  <2>3. \A u \in Users : u # "main" => user[u].addr = NoAddr
    BY <2>2 DEF Inv, UserInv
  <2>4. user["main"].addr # a
    BY UserFacts DEF Inv, UserInv, TableInv, Tearing, Addr
  <2> QED BY <2>1, <2>3, <2>4, UserFacts DEF Addr
<1> QED BY <1>1, IInvHolds, PTL

\* The other side gets the messages in the order in which socket_send queued them, and all of
\* them are there, on the way or written, until the peer is shut down or the connection closed.
THEOREM DeliveredInOrder == Spec => []OrderedDelivery
<1>1. IInv => OrderedDelivery
  BY DEF IInv, Inv, ShutInv, DeliverInv, OrderedDelivery
<1> QED BY <1>1, IInvHolds, PTL
=============================================================================
