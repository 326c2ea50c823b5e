------------------------------ MODULE Transport ------------------------------
(***************************************************************************)
(* Connections between the nodes of icecreme (icecreme/actor.c): threads   *)
(* of one node that send to actors of others over cached connections,      *)
(* dialled outside the node's mutex, with a handshake that proves a shared *)
(* cookie; a frame is written under the connection's own mutex, in two     *)
(* writes; stop-node! closes the connections under both mutexes.  On the   *)
(* other side an accept thread starts one inbound thread per connection,   *)
(* up to a limit.  The network may cut a connection at any time.           *)
(*                                                                         *)
(* File descriptors are reused: they are numbers, and sockets are behind   *)
(* them.  A send is a few steps of its thread, and every access to the     *)
(* node's connections is one, as they are under sys->mutex.                *)
(***************************************************************************)
EXTENDS Integers, Sequences, SequencesExt, FiniteSets, FiniteSetsExt, Sublists

CONSTANTS Thread,          \* actors that call send!
          TPeer,           \* the nodes that they send to
          Cookie, OwnCookie, \* what nodes are started with
          MAX_INBOUND,     \* CREME_ACTOR_MAX_INBOUND
          SocketRoom,      \* writes that a socket takes before it blocks
          MaxSockets, MaxMessages, MaxCuts

VARIABLES
  th,      \* thread -> what it is doing
  sys,     \* the node: cache of connections, mutex, stop-node!
  cons,    \* Connection structures
  fds,     \* descriptor -> socket, 0: closed
  socks,   \* sockets
  peers,   \* peer -> state and cookie of the node
  g_inbound_count,
  got,     \* peer -> what its actor received
  sends    \* messages sent, cuts

ASSUME TransportAssumption ==
  /\ {MAX_INBOUND, SocketRoom, MaxSockets, MaxMessages, MaxCuts} \subseteq Nat
  /\ SocketRoom >= 2 /\ MaxMessages <= MaxSockets   \* a frame fits, and every send! may dial
  /\ OwnCookie \in Cookie
  /\ 0 \notin Thread   \* 0 is nobody's: an open mutex

transportVars == <<th, sys, cons, fds, socks, peers, g_inbound_count, got, sends>>

Resting == [pc |-> "resting", msg |-> 0, peer |-> CHOOSE p \in TPeer : TRUE, con |-> 0, fd |-> 0, failed |-> FALSE]

-----------------------------------------------------------------------------
(* Sockets                                                                 *)

NewSocket(p) ==
  [peer |-> p, out |-> <<>>, back |-> <<>>, client |-> TRUE, server |-> "pending", cut |-> FALSE]

\* The lowest free descriptor, as the system gives it out.
FreeFd == CHOOSE f \in 1..MaxSockets : fds[f] = 0 /\ \A g \in 1..(f - 1) : fds[g] # 0

Close(f) == [fds EXCEPT ![f] = 0]
Hang(f) == IF fds[f] = 0 THEN socks ELSE [socks EXCEPT ![fds[f]].client = FALSE]

Writable(f) == fds[f] # 0 /\ socks[fds[f]].server # "closed" /\ ~socks[fds[f]].cut
HasRoom(f) == Len(socks[fds[f]].out) < SocketRoom

\* What goes over a socket: halves of a handshake, and the headers and
\* bodies of frames.
Hello(n, m) == [kind |-> "hello", nonce |-> n, mac |-> m, msg |-> 0, to |-> CHOOSE p \in TPeer : TRUE]
Piece(k, x, p) == [kind |-> k, nonce |-> 0, mac |-> <<>>, msg |-> x, to |-> p]

hmac_sha256(key, data) == <<key, data>>

-----------------------------------------------------------------------------
(* send!                                                                   *)

\* send_remote: encode, then look for a connection.
Begin(t) ==
  /\ th[t].pc = "resting" /\ sends.n < MaxMessages
  /\ \E p \in TPeer : th' = [th EXCEPT ![t] = [Resting EXCEPT !.pc = "find", !.msg = sends.n + 1, !.peer = p]]
  /\ sends' = [sends EXCEPT !.n = @ + 1]
  /\ UNCHANGED <<sys, cons, fds, socks, peers, g_inbound_count, got>>

find_connection_locked(p) ==
  LET k == SelectInSeq(sys.connections, LAMBDA c : cons[c].key = p)
  IN IF k = 0 THEN 0 ELSE sys.connections[k]

Find(t) ==
  /\ th[t].pc = "find" /\ sys.mutex = 0
  /\ LET c == find_connection_locked(th[t].peer)
     IN th' = [th EXCEPT ![t].pc = IF c = 0 THEN "dial" ELSE "lock", ![t].con = c]
  /\ UNCHANGED <<sys, cons, fds, socks, peers, g_inbound_count, got, sends>>

\* creme_abort: send! raises, and the actor may go on.
Failing(t) == [th EXCEPT ![t] = [Resting EXCEPT !.failed = TRUE]]

\* dial: connect and send the first half of the handshake, the nonce being
\* the socket's number.
dial(t) ==
  /\ th[t].pc = "dial"
  /\ \/ /\ peers[th[t].peer].state \notin {"listening", "closing"}
        /\ th' = Failing(t)
        /\ UNCHANGED <<fds, socks>>
     \/ /\ peers[th[t].peer].state \in {"listening", "closing"} /\ Len(socks) < MaxSockets
        /\ LET s == Len(socks) + 1
           IN /\ socks' = Append(socks, [NewSocket(th[t].peer) EXCEPT
                            !.out = <<Hello(s, hmac_sha256(OwnCookie, <<s>>))>>])
              /\ fds' = [fds EXCEPT ![FreeFd] = s]
              /\ th' = [th EXCEPT ![t].pc = "handshake", ![t].fd = FreeFd]
  /\ UNCHANGED <<sys, cons, peers, g_inbound_count, got, sends>>

\* The second half: the answer must be to this nonce.
handshake_initiate(t) ==
  /\ th[t].pc = "handshake"
  /\ LET s == fds[th[t].fd]
         answer == Head(socks[s].back)
         good == /\ s # 0 /\ socks[s].back # <<>>
                 /\ answer.kind = "hello" /\ answer.mac = hmac_sha256(OwnCookie, <<s, answer.nonce>>)
     IN /\ s # 0 => (socks[s].back # <<>> \/ socks[s].server = "closed" \/ socks[s].cut)
        /\ IF good THEN th' = [th EXCEPT ![t].pc = "recheck"] /\ UNCHANGED <<fds, socks>>
           ELSE th' = Failing(t) /\ fds' = Close(th[t].fd) /\ socks' = Hang(th[t].fd)
  /\ UNCHANGED <<sys, cons, peers, g_inbound_count, got, sends>>

\* connection_for, after dial: another thread may have been faster.
connection_for(t) ==
  /\ th[t].pc = "recheck" /\ sys.mutex = 0
  /\ LET other == find_connection_locked(th[t].peer)
         c == Len(cons) + 1
     IN IF other # 0
        THEN /\ th' = [th EXCEPT ![t].pc = "lock", ![t].con = other]
             /\ fds' = Close(th[t].fd) /\ socks' = Hang(th[t].fd)
             /\ UNCHANGED <<sys, cons>>
        ELSE /\ th' = [th EXCEPT ![t].pc = "lock", ![t].con = c]
             /\ cons' = Append(cons, [key |-> th[t].peer, fd |-> th[t].fd, mutex |-> 0])
             /\ sys' = [sys EXCEPT !.connections = <<c>> \o @]
             /\ UNCHANGED <<fds, socks>>
  /\ UNCHANGED <<peers, g_inbound_count, got, sends>>

LockConnection(t) ==
  /\ th[t].pc = "lock" /\ cons[th[t].con].mutex = 0
  /\ cons' = [cons EXCEPT ![th[t].con].mutex = t]
  /\ th' = [th EXCEPT ![t].pc = "header"]
  /\ UNCHANGED <<sys, fds, socks, peers, g_inbound_count, got, sends>>

\* Fault: who closes a connection that failed keeps its mutex.
GiveUpLocked(c) == [cons EXCEPT ![c].fd = -1]

\* A connection that failed is closed, and its mutex released.
GiveUp(c) == [cons EXCEPT ![c].fd = -1, ![c].mutex = 0]

\* write_frame_fd: header, then body.  A write that fails closes the
\* connection while the mutex is still held.
write_frame_fd(t) ==
  /\ th[t].pc \in {"header", "body"}
  /\ LET c == th[t].con
         f == cons[c].fd
         piece == Piece(th[t].pc, th[t].msg, th[t].peer)
         failing == f = -1 \/ (f # -1 /\ ~Writable(f))
     IN IF failing
        THEN /\ th' = [th EXCEPT ![t].pc = "evict"]
             /\ cons' = GiveUp(c)
             /\ fds' = (IF f = -1 THEN fds ELSE Close(f))
             /\ socks' = (IF f = -1 THEN socks ELSE Hang(f))
        ELSE /\ HasRoom(f)
             /\ socks' = [socks EXCEPT ![fds[f]].out = Append(@, piece)]
             /\ th' = [th EXCEPT ![t] = IF th[t].pc = "header" THEN [@ EXCEPT !.pc = "body"] ELSE Resting]
             /\ cons' = [cons EXCEPT ![c].mutex = IF th[t].pc = "body" THEN 0 ELSE @]
             /\ UNCHANGED fds
  /\ UNCHANGED <<sys, peers, g_inbound_count, got, sends>>

\* The dead connection is taken out of the cache, if it is still there.
Evict(t) ==
  /\ th[t].pc = "evict" /\ sys.mutex = 0
  /\ sys' = [sys EXCEPT !.connections = Sublist(@, {i \in DOMAIN @ : @[i] # th[t].con})]
  /\ th' = Failing(t)
  /\ UNCHANGED <<cons, fds, socks, peers, g_inbound_count, got, sends>>

-----------------------------------------------------------------------------
(* stop-node!, on a thread of its own: sys->mutex, then each write_mutex   *)

StopBegin ==
  /\ sys.mutex = 0 /\ ~sys.stopped
  /\ sys' = [sys EXCEPT !.mutex = 1, !.todo = sys.connections]
  /\ UNCHANGED <<th, cons, fds, socks, peers, g_inbound_count, got, sends>>

StopConnection ==
  /\ sys.mutex = 1 /\ sys.todo # <<>>
  /\ LET c == Head(sys.todo) IN
     /\ cons[c].mutex = 0
     /\ fds' = (IF cons[c].fd = -1 THEN fds ELSE Close(cons[c].fd))
     /\ socks' = (IF cons[c].fd = -1 THEN socks ELSE Hang(cons[c].fd))
     /\ cons' = [cons EXCEPT ![c].fd = -1]
  /\ sys' = [sys EXCEPT !.todo = Tail(@)]
  /\ UNCHANGED <<th, peers, g_inbound_count, got, sends>>

StopEnd ==
  /\ sys.mutex = 1 /\ sys.todo = <<>>
  /\ sys' = [sys EXCEPT !.mutex = 0, !.stopped = TRUE, !.connections = <<>>]
  /\ UNCHANGED <<th, cons, fds, socks, peers, g_inbound_count, got, sends>>

-----------------------------------------------------------------------------
(* The other nodes                                                         *)

\* start_tcp_node and start_unix_node; a bind may fail.
start_node(p) ==
  /\ peers[p].state = "none"
  /\ \E how \in {"listening", "failed"}, k \in Cookie : peers' = [peers EXCEPT ![p] = [state |-> how, cookie |-> k]]
  /\ UNCHANGED <<th, sys, cons, fds, socks, g_inbound_count, got, sends>>

\* What waits to be accepted is reset when the listening socket goes.
Reset(p) ==
  [s \in DOMAIN socks |->
     IF socks[s].peer = p /\ socks[s].server = "pending" THEN [socks[s] EXCEPT !.server = "closed"] ELSE socks[s]]

\* stop-node!: the listener is closed.  An accept that is under way may keep
\* its socket until it returns; inbound threads go on.
StopPeer(p) ==
  /\ peers[p].state = "listening"
  /\ \/ peers' = [peers EXCEPT ![p].state = "closing"] /\ UNCHANGED socks
     \/ peers' = [peers EXCEPT ![p].state = "stopped"] /\ socks' = Reset(p)
  /\ UNCHANGED <<th, sys, cons, fds, g_inbound_count, got, sends>>

\* accept_loop_main: counted first, and closed if that is too many or no
\* thread can be made.  After stop-node! the next accept fails.
accept_loop_main(s) ==
  LET p == socks[s].peer IN
  /\ socks[s].server = "pending" /\ peers[p].state \in {"listening", "closing"}
  /\ \E how \in {"closed", "greeting"} :
       /\ how = "greeting" => g_inbound_count + 1 <= MAX_INBOUND
       /\ socks' = [(IF peers[p].state = "closing" THEN Reset(p) ELSE socks) EXCEPT ![s].server = how]
       /\ g_inbound_count' = g_inbound_count + (IF how = "greeting" THEN 1 ELSE 0)
  /\ peers' = [peers EXCEPT ![p].state = IF @ = "closing" THEN "stopped" ELSE @]
  /\ UNCHANGED <<th, sys, cons, fds, got, sends>>

\* Nothing more will come: closed at the other end, or cut.
Ended(s) == ~socks[s].client \/ socks[s].cut

CloseInbound(s) ==
  /\ socks' = [socks EXCEPT ![s].server = "closed", ![s].out = <<>>]
  /\ g_inbound_count' = g_inbound_count - 1

\* Fault: an inbound thread that refuses a peer is still counted.
RefuseQuietly(s) ==
  /\ socks[s].server = "greeting" /\ (socks[s].out # <<>> \/ Ended(s))
  /\ LET p == socks[s].peer
         hello == Head(socks[s].out)
     IN IF socks[s].out # <<>> /\ hello.mac = hmac_sha256(peers[p].cookie, <<hello.nonce>>)
        THEN /\ socks' = [socks EXCEPT ![s].server = "reading", ![s].out = Tail(@),
                            ![s].back = <<Hello(-s, hmac_sha256(peers[p].cookie, <<hello.nonce, -s>>))>>]
             /\ UNCHANGED g_inbound_count
        ELSE socks' = [socks EXCEPT ![s].server = "closed", ![s].out = <<>>] /\ UNCHANGED g_inbound_count
  /\ UNCHANGED <<th, sys, cons, fds, peers, got, sends>>

\* handshake_respond, and an error frame for a wrong cookie.
handshake_respond(s) ==
  /\ socks[s].server = "greeting" /\ (socks[s].out # <<>> \/ Ended(s))
  /\ LET p == socks[s].peer
         hello == Head(socks[s].out)
     IN IF socks[s].out # <<>> /\ hello.mac = hmac_sha256(peers[p].cookie, <<hello.nonce>>)
        THEN /\ socks' = [socks EXCEPT ![s].server = "reading", ![s].out = Tail(@),
                            ![s].back = <<Hello(-s, hmac_sha256(peers[p].cookie, <<hello.nonce, -s>>))>>]
             /\ UNCHANGED g_inbound_count
        ELSE CloseInbound(s)
  /\ UNCHANGED <<th, sys, cons, fds, peers, got, sends>>

\* A frame is read whole, decoded and put into the mailbox of its actor,
\* that takes it.
handle_inbound_main(s) ==
  /\ socks[s].server = "reading"
  /\ LET p == socks[s].peer
         out == socks[s].out
     IN IF Len(out) >= 2
        THEN /\ socks' = [socks EXCEPT ![s].out = SubSeq(@, 3, Len(@))]
             /\ got' = [got EXCEPT ![p] = Append(@, <<out[1], out[2]>>)]
             /\ UNCHANGED g_inbound_count
        ELSE Ended(s) /\ CloseInbound(s) /\ UNCHANGED got
  /\ UNCHANGED <<th, sys, cons, fds, peers, sends>>

\* The network cuts a connection, and loses what is under way or not.
Cut(s) ==
  /\ sends.cuts < MaxCuts /\ ~socks[s].cut /\ socks[s].client /\ socks[s].server # "closed"
  /\ socks' = [socks EXCEPT ![s].cut = TRUE]
  /\ sends' = [sends EXCEPT !.cuts = @ + 1]
  /\ UNCHANGED <<th, sys, cons, fds, peers, g_inbound_count, got>>

-----------------------------------------------------------------------------

TransportInit ==
  /\ th = [t \in Thread |-> Resting]
  /\ sys = [connections |-> <<>>, mutex |-> 0, todo |-> <<>>, stopped |-> FALSE]
  /\ cons = <<>> /\ socks = <<>>
  /\ fds = [f \in 1..MaxSockets |-> 0]
  /\ peers = [p \in TPeer |-> [state |-> "none", cookie |-> OwnCookie]]
  /\ g_inbound_count = 0
  /\ got = [p \in TPeer |-> <<>>]
  /\ sends = [n |-> 0, cuts |-> 0]

Sending(t) ==
  \/ Find(t) \/ dial(t) \/ handshake_initiate(t) \/ connection_for(t)
  \/ LockConnection(t) \/ write_frame_fd(t) \/ Evict(t)

Inbound(s) == accept_loop_main(s) \/ handshake_respond(s) \/ handle_inbound_main(s)

Stopping == StopConnection \/ StopEnd

TransportNext ==
  \/ \E t \in Thread : Begin(t) \/ Sending(t)
  \/ StopBegin \/ Stopping
  \/ \E p \in TPeer : start_node(p) \/ StopPeer(p)
  \/ \E s \in DOMAIN socks : Inbound(s) \/ Cut(s)

-----------------------------------------------------------------------------
(* Properties                                                              *)

\* Nothing arrives at a node but whole frames that were sent to it: no two
\* threads' frames are mixed, and no frame is written to a descriptor that
\* has come to mean another connection.
FramesArriveWhole ==
  \A p \in TPeer : \A k \in DOMAIN got[p] :
    LET frame == got[p][k] IN
    /\ frame[1].kind = "header" /\ frame[2].kind = "body"
    /\ frame[1].msg = frame[2].msg /\ frame[1].to = p

\* A node takes messages only from one that has its cookie.
SameCookie == \A p \in TPeer : got[p] # <<>> => peers[p].cookie = OwnCookie

\* The count of inbound threads is exact, and within its limit: no
\* refused, ended or cut connection keeps a place.
InboundCounted ==
  /\ g_inbound_count = Cardinality({s \in DOMAIN socks : socks[s].server \in {"greeting", "reading"}})
  /\ g_inbound_count <= MAX_INBOUND

\* The cache holds connections that are open, or whose writer is about to
\* take them out, and one per peer; no descriptor is in two connections.
CacheIsSound ==
  /\ \A i, j \in DOMAIN sys.connections : i # j => cons[sys.connections[i]].key # cons[sys.connections[j]].key
  /\ \A c, d \in DOMAIN cons : (c # d /\ cons[c].fd # -1) => cons[c].fd # cons[d].fd
  /\ \A c \in Range(sys.connections) :
       \/ cons[c].fd # -1 /\ fds[cons[c].fd] # 0 /\ socks[fds[cons[c].fd]].peer = cons[c].key
       \/ \E t \in Thread : th[t].pc = "evict" /\ th[t].con = c
       \/ sys.mutex = 1

\* Frames cross between nodes of one cookie whole, in order, within the bound on
\* inbound threads, over connections that the cache may keep.
TransportSound == FramesArriveWhole /\ SameCookie /\ InboundCounted /\ CacheIsSound

\* As long as a send! or stop-node! has not returned, some thread can go
\* on: the two orders of locking never meet, and no reader waits for a
\* peer that is gone.
NoStandstill ==
  ((\E t \in Thread : th[t].pc # "resting") \/ sys.mutex = 1) =>
    \/ \E t \in Thread : ENABLED Sending(t)
    \/ ENABLED Stopping
    \/ \E s \in DOMAIN socks : ENABLED Inbound(s)

=============================================================================
