-------------------------- MODULE ServiceDiscovery --------------------------
(***************************************************************************)
(* rfcomm::Server, rfcomm::sdp::Registration and rfcomm::Client on one     *)
(* device: server processes that bind a channel, listen and publish it,    *)
(* clients that look a service up and connect to what they found.          *)
(*                                                                         *)
(* A server call is cut at its system calls: pc[s] is the next one that    *)
(* the call in progress makes, "idle" when there is none.  A system call   *)
(* and the code up to the next one are one step.  A second thread of the   *)
(* process may be inside accept() meanwhile.  The kernel's sockets and the *)
(* SDP daemon's records are external; the daemon drops the records of a    *)
(* process that died some time after the process is gone, and loses all of *)
(* them when it restarts.                                                  *)
(***************************************************************************)
EXTENDS Integers, FiniteSets

CONSTANTS
  Server,       \* server processes, each with one Server object
  Accepting,    \* the servers with a thread that calls accept()
  Client,       \* clients
  Uuid,         \* service UUIDs
  NoUuid,       \* the call is listen(), which publishes nothing
  MaxChannel,   \* bound: RFCOMM channels are 1..MaxChannel (30)
  MaxOrphans,   \* bound: records in the daemon that no Registration stands for
  Platforms     \* the platforms to build for: "linux", "windows"

ASSUME DiscoveryAssumption ==
  /\ NoUuid \notin Uuid
  /\ MaxChannel \in Nat \ {0}
  /\ Platforms \subseteq {"linux", "windows"}
  /\ Accepting \subseteq Server

Channel == 1..MaxChannel

(* What listen() may be asked for: 0 is any channel, and MaxChannel + 1    *)
(* stands for the numbers of a uint8_t that are no channel.                *)
Asked == 0..(MaxChannel + 1)

VARIABLES
  platform,   \* the #if branch that is built
  pc,         \* pc[s]: the system call s is about to make
  call,       \* call[s]: the call in progress: op, channel asked for, UUID
  listen_fd,  \* Impl::listen_fd is valid
  channel,    \* Impl::channel
  sdp_reg,    \* Impl::sdp_reg is not null
  scan,       \* the channel listen() is about to bind, or has bound
  free,       \* history: the channels unbound ever since listen() began to bind
  acc,        \* acc[s]: the channel whose socket accept() waits on, 0 when no
              \* thread is in it, Entering when it has yet to enter ::accept,
              \* Woken when its socket was closed under it
  socks,      \* the kernel's sockets of the server processes, each with the
              \* UUID of the service it was opened for
  db,         \* the SDP daemon's records, each with its holder: a Registration,
              \* only its process since a deletion failed, or nobody any more
  cpc,        \* cpc[c]: where client c is
  target,     \* target[c]: the record it resolved
  conn        \* conn[c]: the service it is connected to, the UUID it asked for

threadVars == <<platform, acc>>
serverVars == <<pc, call, listen_fd, channel, sdp_reg, scan, free, threadVars>>
clientVars == <<cpc, target, conn>>
vars == <<serverVars, socks, db, clientVars>>

Pcs == {"idle", "unregister", "close_fd", "socket", "bind", "listen",
        "sdp_connect", "register", "dead"}
NoCall   == [op |-> "none", channel |-> 0, uuid |-> NoUuid]
Woken    == -1
Entering == -2
Sock(s, u, ch, l) == [owner |-> s, uuid |-> u, channel |-> ch, listening |-> l]
Record(s, u, ch) == [owner |-> s, uuid |-> u, channel |-> ch, holder |-> "registration"]

SocksOf(s) == {k \in socks : k.owner = s}

(* A Registration stands for the record.                                   *)
Live(r) == r.holder = "registration"
LiveRecordsOf(s) == {r \in db : r.owner = s /\ Live(r)}
(* The records, after the daemon refused to delete that of s.              *)
Kept(s) == {IF r.owner = s /\ Live(r) THEN [r EXCEPT !.holder = "process"] ELSE r : r \in db}
(* The records, after the process s died.                                  *)
Orphaned(s) == {IF r.owner = s THEN [r EXCEPT !.holder = "none"] ELSE r : r \in db}

Unbound == {ch \in Channel : \A k \in socks : k.channel # ch}

(* Server s goes on to the system call p.                                  *)
Goto(s, p) == pc' = [pc EXCEPT ![s] = p] /\ UNCHANGED call

(* Its call ends; the locals of listen() go out of scope.                  *)
Leave(s, p) ==
  /\ pc' = [pc EXCEPT ![s] = p]
  /\ call' = [call EXCEPT ![s] = NoCall]
  /\ scan' = [scan EXCEPT ![s] = 0]
  /\ free' = [free EXCEPT ![s] = {}]

Return(s) == Leave(s, "idle")

-----------------------------------------------------------------------------
(* Server.                                                                 *)

(* The application calls listen, listen_with_sdp or close; each begins     *)
(* with Impl::close.                                                       *)
Begin(s, c) ==
  /\ pc[s] = "idle"
  /\ pc' = [pc EXCEPT ![s] = "unregister"]
  /\ call' = [call EXCEPT ![s] = c]
  /\ UNCHANGED <<listen_fd, channel, sdp_reg, scan, free, threadVars,
                 socks, db, clientVars>>

(* listen (u = NoUuid) and listen_with_sdp, with channel ch or 0: any.     *)
Listen(s, u, ch) == Begin(s, [op |-> "listen", channel |-> ch, uuid |-> u])

Close(s) == Begin(s, [NoCall EXCEPT !.op = "close"])

(* Faulty: the listening socket is closed while the record is published.   *)
BugClosesFirst(s) ==
  /\ pc[s] = "unregister"
  /\ socks' = socks \ SocksOf(s)
  /\ Goto(s, "close_fd")
  /\ UNCHANGED <<listen_fd, channel, sdp_reg, scan, free, threadVars,
                 db, clientVars>>

(* Faulty: the record is not withdrawn.                                    *)
BugKeepsRecord(s) ==
  /\ pc[s] = "unregister"
  /\ sdp_reg' = [sdp_reg EXCEPT ![s] = FALSE]
  /\ Goto(s, "close_fd")
  /\ UNCHANGED <<listen_fd, channel, scan, free, threadVars, socks, db, clientVars>>

(* Impl::close, first half: sdp_reg->unregister() withdraws the record.    *)
Unregister(s) ==
  /\ pc[s] = "unregister"
  /\ db' = db \ LiveRecordsOf(s)
  /\ sdp_reg' = [sdp_reg EXCEPT ![s] = FALSE]
  /\ Goto(s, "close_fd")
  /\ UNCHANGED <<listen_fd, channel, scan, free, threadVars, socks, clientVars>>

(* The daemon refuses, and nobody looks at the result.  On Linux it drops  *)
(* the record all the same when the session is closed; on Windows the      *)
(* record stays published for as long as the process lives.                *)
UnregisterFails(s) ==
  /\ pc[s] = "unregister" /\ sdp_reg[s]
  /\ db' = IF platform = "linux" THEN db \ LiveRecordsOf(s) ELSE Kept(s)
  /\ Cardinality({r \in db' : ~Live(r)}) <= MaxOrphans
  /\ sdp_reg' = [sdp_reg EXCEPT ![s] = FALSE]
  /\ Goto(s, "close_fd")
  /\ UNCHANGED <<listen_fd, channel, scan, free, threadVars, socks, clientVars>>

(* The sockets that are left after s closes its listening socket.  On      *)
(* Linux a thread inside ::accept keeps it alive, bound and listening.     *)
Closed(s) ==
  IF platform = "linux" /\ acc[s] = channel[s]
    THEN socks
    ELSE {k \in socks : ~(k.owner = s /\ k.channel = channel[s])}

(* Impl::close, second half.  It ends close() and a listen_with_sdp() that *)
(* failed; in a call that has yet to listen, socket() comes next.  On      *)
(* Windows a thread inside ::accept is woken.                              *)
CloseFd(s) ==
  /\ pc[s] = "close_fd"
  /\ socks' = IF listen_fd[s] THEN Closed(s) ELSE socks
  /\ acc' = IF listen_fd[s] /\ acc[s] = channel[s] /\ platform = "windows"
              THEN [acc EXCEPT ![s] = Woken] ELSE acc
  /\ listen_fd' = [listen_fd EXCEPT ![s] = FALSE]
  /\ channel' = [channel EXCEPT ![s] = 0]
  /\ IF call[s].op = "listen"
       THEN Goto(s, "socket") /\ UNCHANGED <<scan, free>>
       ELSE Return(s)
  /\ UNCHANGED <<platform, sdp_reg, db, clientVars>>

(* Where listen()'s binding starts: the channel asked for, or channel 1.   *)
FirstScan(ch) == IF ch = 0 THEN 1 ELSE ch

SocketCall(s) ==
  /\ pc[s] = "socket"
  /\ socks' = socks \cup {Sock(s, call[s].uuid, 0, FALSE)}
  /\ scan' = [scan EXCEPT ![s] = FirstScan(call[s].channel)]
  /\ free' = [free EXCEPT ![s] = Unbound]
  /\ Goto(s, "bind")
  /\ UNCHANGED <<listen_fd, channel, sdp_reg, threadVars, db, clientVars>>

SocketCallFails(s) ==
  /\ pc[s] = "socket"
  /\ Return(s)
  /\ UNCHANGED <<listen_fd, channel, sdp_reg, threadVars, socks, db, clientVars>>

(* s's socket is bound to ch; nobody's scan can count on ch any more.      *)
BindTo(s, ch) ==
  /\ socks' = (socks \ {Sock(s, call[s].uuid, 0, FALSE)}) \cup {Sock(s, call[s].uuid, ch, FALSE)}
  /\ scan' = [scan EXCEPT ![s] = ch]
  /\ free' = [t \in Server |-> free[t] \ {ch}]
  /\ Goto(s, "listen")

(* bind() fails, the socket is closed and listen() returns false.          *)
NothingBound(s) ==
  /\ socks' = socks \ {Sock(s, call[s].uuid, 0, FALSE)}
  /\ Return(s)

(* Faulty: the scan of listen(0) ends before its last channel.             *)
BugScanEndsEarly(s) ==
  \/ scan[s] \in Unbound /\ BindTo(s, scan[s])
  \/ scan[s] \notin Unbound /\ NothingBound(s)

(* Linux: bind() of the channel asked for, or of the next one of the scan. *)
BindLinux(s) ==
  \/ scan[s] \in Unbound /\ BindTo(s, scan[s])
  \/ /\ scan[s] \notin Unbound
     /\ call[s].channel = 0 /\ scan[s] < MaxChannel
     /\ scan' = [scan EXCEPT ![s] = scan[s] + 1]
     /\ UNCHANGED <<pc, call, free, socks>>
  \/ /\ scan[s] \notin Unbound
     /\ call[s].channel # 0 \/ scan[s] = MaxChannel
     /\ NothingBound(s)

(* Windows: BT_PORT_ANY lets the kernel choose; getsockname() tells which, *)
(* and may fail like bind().                                               *)
BindWindows(s) ==
  \/ \E ch \in Unbound :
       /\ call[s].channel \in {0, ch}
       /\ BindTo(s, ch)
  \/ NothingBound(s)

Bind(s) ==
  /\ pc[s] = "bind"
  /\ IF platform = "linux" THEN BindLinux(s) ELSE BindWindows(s)
  /\ UNCHANGED <<listen_fd, channel, sdp_reg, threadVars, db, clientVars>>

(* Registration::create on Linux builds the record, then connects to the   *)
(* daemon; on Windows there is no session.                                 *)
BeginCreate(s) == Goto(s, IF platform = "linux" THEN "sdp_connect" ELSE "register")

(* ::listen(); on success the Server owns the socket, and listen_with_sdp  *)
(* goes on to create the registration.                                     *)
ListenCall(s) ==
  /\ pc[s] = "listen"
  /\ socks' = (socks \ {Sock(s, call[s].uuid, scan[s], FALSE)}) \cup {Sock(s, call[s].uuid, scan[s], TRUE)}
  /\ listen_fd' = [listen_fd EXCEPT ![s] = TRUE]
  /\ channel' = [channel EXCEPT ![s] = scan[s]]
  /\ IF call[s].uuid = NoUuid
       THEN Return(s)
       ELSE BeginCreate(s) /\ UNCHANGED <<scan, free>>
  /\ UNCHANGED <<sdp_reg, threadVars, db, clientVars>>

(* Faulty: the socket is not closed when ::listen fails.                   *)
BugSocketNotClosed(s) ==
  /\ pc[s] = "listen"
  /\ Return(s)
  /\ UNCHANGED <<listen_fd, channel, sdp_reg, threadVars, socks, db, clientVars>>

ListenCallFails(s) ==
  /\ pc[s] = "listen"
  /\ socks' = socks \ {Sock(s, call[s].uuid, scan[s], FALSE)}
  /\ Return(s)
  /\ UNCHANGED <<listen_fd, channel, sdp_reg, threadVars, db, clientVars>>

SdpConnect(s) ==
  /\ pc[s] = "sdp_connect"
  /\ Goto(s, "register")
  /\ UNCHANGED <<listen_fd, channel, sdp_reg, scan, free, threadVars,
                 socks, db, clientVars>>

(* Faulty: publishes the channel asked for, 0, not the one assigned.       *)
BugPublishesAsked(s) ==
  /\ pc[s] = "register"
  /\ db' = db \cup {Record(s, call[s].uuid, call[s].channel)}
  /\ sdp_reg' = [sdp_reg EXCEPT ![s] = TRUE]
  /\ Return(s)
  /\ UNCHANGED <<listen_fd, channel, threadVars, socks, clientVars>>

Register(s) ==
  /\ pc[s] = "register"
  /\ db' = db \cup {Record(s, call[s].uuid, channel[s])}
  /\ sdp_reg' = [sdp_reg EXCEPT ![s] = TRUE]
  /\ Return(s)
  /\ UNCHANGED <<listen_fd, channel, threadVars, socks, clientVars>>

(* Faulty: the failed listen_with_sdp starts over.                         *)
BugListensAgain(s) ==
  /\ pc[s] \in {"sdp_connect", "register"}
  /\ pc' = [pc EXCEPT ![s] = "unregister"]
  /\ UNCHANGED <<call, listen_fd, channel, sdp_reg, scan, free, threadVars,
                 socks, db, clientVars>>

(* No session, or no registration: create returns nullptr, and the Server  *)
(* closes again and returns false.                                         *)
CreateFails(s) ==
  /\ pc[s] \in {"sdp_connect", "register"}
  /\ pc' = [pc EXCEPT ![s] = "unregister"]
  /\ call' = [call EXCEPT ![s].op = "failed"]
  /\ UNCHANGED <<listen_fd, channel, sdp_reg, scan, free, threadVars,
                 socks, db, clientVars>>

(* The process dies, at any point of any call: the kernel closes its       *)
(* sockets at once, the daemon has yet to notice.                          *)
Crash(s) ==
  /\ pc[s] # "dead"
  /\ Leave(s, "dead")
  /\ listen_fd' = [listen_fd EXCEPT ![s] = FALSE]
  /\ channel' = [channel EXCEPT ![s] = 0]
  /\ sdp_reg' = [sdp_reg EXCEPT ![s] = FALSE]
  /\ acc' = [acc EXCEPT ![s] = 0]
  /\ socks' = socks \ SocksOf(s)
  /\ db' = Orphaned(s)
  /\ Cardinality({r \in db' : ~Live(r)}) <= MaxOrphans
  /\ UNCHANGED <<platform, clientVars>>

Restart(s) ==
  /\ pc[s] = "dead"
  /\ Return(s)
  /\ UNCHANGED <<listen_fd, channel, sdp_reg, threadVars, socks, db, clientVars>>

-----------------------------------------------------------------------------
(* Server::accept, in a thread of its own.                                 *)

acceptUnchanged == <<platform, pc, call, listen_fd, channel, sdp_reg, scan, free, db, clientVars>>

(* is_listening() is true; when it is not, accept returns nullptr at once, *)
(* which changes nothing.                                                  *)
AcceptCall(s) ==
  /\ s \in Accepting /\ acc[s] = 0 /\ listen_fd[s]
  /\ acc' = [acc EXCEPT ![s] = Entering]
  /\ UNCHANGED <<socks, acceptUnchanged>>

(* ::accept reads listen_fd again.  By now the Server may have closed it,  *)
(* and ::accept fails; or it may listen on another channel.                *)
AcceptEnters(s) ==
  /\ acc[s] = Entering
  /\ acc' = [acc EXCEPT ![s] = IF listen_fd[s] THEN channel[s] ELSE 0]
  /\ UNCHANGED <<socks, acceptUnchanged>>

(* A client connects, or ::accept fails.  A socket that the Server has     *)
(* closed in the meantime goes away now.                                   *)
AcceptReturns(s) ==
  /\ acc[s] \in Channel
  /\ acc' = [acc EXCEPT ![s] = 0]
  /\ socks' = {k \in socks : k.owner = s /\ k.channel = acc[s] => channel[s] = acc[s]}
  /\ UNCHANGED acceptUnchanged

(* Its socket was closed: accept returns nullptr.                          *)
AcceptWoken(s) ==
  /\ acc[s] = Woken
  /\ acc' = [acc EXCEPT ![s] = 0]
  /\ UNCHANGED <<socks, acceptUnchanged>>

-----------------------------------------------------------------------------
(* The SDP daemon.                                                         *)

DaemonReaps ==
  /\ \E r \in db : r.holder = "none" /\ db' = db \ {r}
  /\ UNCHANGED <<serverVars, socks, clientVars>>

DaemonRestarts ==
  /\ db' = {}
  /\ UNCHANGED <<serverVars, socks, clientVars>>

-----------------------------------------------------------------------------
(* Client::connect_by_sdp: resolve_channel, then connect.                  *)

ResolveChannel(c, u) ==
  /\ cpc[c] = "idle"
  /\ \/ \E r \in db :
          /\ r.uuid = u
          /\ target' = [target EXCEPT ![c] = {r}]
          /\ cpc' = [cpc EXCEPT ![c] = "connect"]
     \/ UNCHANGED <<target, cpc>>       \* no session, or no such record
  /\ UNCHANGED <<conn, serverVars, socks, db>>

(* The connection reaches whoever listens on the channel by now.           *)
Connect(c) ==
  /\ cpc[c] = "connect"
  /\ \E k \in socks, r \in target[c] :
       /\ k.listening /\ k.channel = r.channel
       /\ conn' = [conn EXCEPT ![c] = {[server |-> k.owner, uuid |-> k.uuid, asked |-> r.uuid]}]
  /\ cpc' = [cpc EXCEPT ![c] = "connected"]
  /\ target' = [target EXCEPT ![c] = {}]
  /\ UNCHANGED <<serverVars, socks, db>>

ConnectFails(c) ==
  /\ cpc[c] = "connect"
  /\ cpc' = [cpc EXCEPT ![c] = "idle"]
  /\ target' = [target EXCEPT ![c] = {}]
  /\ UNCHANGED <<conn, serverVars, socks, db>>

Disconnect(c) ==
  /\ cpc[c] = "connected"
  /\ cpc' = [cpc EXCEPT ![c] = "idle"]
  /\ conn' = [conn EXCEPT ![c] = {}]
  /\ UNCHANGED <<target, serverVars, socks, db>>

-----------------------------------------------------------------------------
Init ==
  /\ platform \in Platforms
  /\ pc = [s \in Server |-> "idle"]
  /\ call = [s \in Server |-> NoCall]
  /\ listen_fd = [s \in Server |-> FALSE]
  /\ channel = [s \in Server |-> 0]
  /\ sdp_reg = [s \in Server |-> FALSE]
  /\ scan = [s \in Server |-> 0]
  /\ acc = [s \in Server |-> 0]
  /\ free = [s \in Server |-> {}]
  /\ socks = {} /\ db = {}
  /\ cpc = [c \in Client |-> "idle"]
  /\ target = [c \in Client |-> {}]
  /\ conn = [c \in Client |-> {}]

(* The steps of a call in progress.                                        *)
ServerStep(s) ==
  \/ Unregister(s) \/ UnregisterFails(s) \/ CloseFd(s)
  \/ SocketCall(s) \/ SocketCallFails(s) \/ Bind(s)
  \/ ListenCall(s) \/ ListenCallFails(s)
  \/ SdpConnect(s) \/ Register(s) \/ CreateFails(s)

ServerNext(s) ==
  \/ \E u \in Uuid \cup {NoUuid}, ch \in Asked : Listen(s, u, ch)
  \/ Close(s)
  \/ ServerStep(s)
  \/ Crash(s) \/ Restart(s)
  \/ AcceptCall(s) \/ AcceptEnters(s) \/ AcceptReturns(s) \/ AcceptWoken(s)

ClientNext(c) ==
  \/ \E u \in Uuid : ResolveChannel(c, u)
  \/ Connect(c) \/ ConnectFails(c) \/ Disconnect(c)

Next ==
  \/ \E s \in Server : ServerNext(s)
  \/ \E c \in Client : ClientNext(c)
  \/ DaemonReaps \/ DaemonRestarts

Spec == Init /\ [][Next]_vars

(* A thread that is not waiting for anything runs; that a client ever      *)
(* connects is not assumed.                                                *)
FairSpec ==
  /\ Spec
  /\ \A s \in Server : /\ WF_vars(ServerStep(s))
                       /\ WF_vars(AcceptEnters(s)) /\ WF_vars(AcceptWoken(s))
-----------------------------------------------------------------------------
(* Properties.                                                             *)

SockType   == [owner : Server, uuid : Uuid \cup {NoUuid}, channel : 0..MaxChannel,
               listening : BOOLEAN]
RecordType == [owner : Server, uuid : Uuid, channel : Channel,
               holder : {"registration", "process", "none"}]
CallType   == [op : {"none", "listen", "failed", "close"},
               channel : Asked, uuid : Uuid \cup {NoUuid}]

(* Every variable stays in its domain; in particular only channels in      *)
(* 1..MaxChannel are ever published.                                       *)
TypeOK ==
  /\ platform \in Platforms
  /\ pc \in [Server -> Pcs]
  /\ call \in [Server -> CallType]
  /\ listen_fd \in [Server -> BOOLEAN]
  /\ channel \in [Server -> 0..MaxChannel]
  /\ sdp_reg \in [Server -> BOOLEAN]
  /\ scan \in [Server -> Asked]
  /\ acc \in [Server -> Channel \cup {0, Woken, Entering}]
  /\ free \in [Server -> SUBSET Channel]
  /\ socks \in SUBSET SockType
  /\ db \in SUBSET RecordType
  /\ cpc \in [Client -> {"idle", "connect", "connected"}]
  /\ target \in [Client -> SUBSET RecordType]
  /\ conn \in [Client -> SUBSET [server : Server, uuid : Uuid \cup {NoUuid}, asked : Uuid]]

(* The record of a live Registration always names a channel on which its   *)
(* process listens for that very service, in every interleaving of listen, *)
(* listen_with_sdp, close, accept, their failures, crashes and daemon      *)
(* restarts: it is published after ::listen and withdrawn before the       *)
(* socket is closed.                                                       *)
RecordHasListener ==
  \A r \in db : Live(r) => Sock(r.owner, r.uuid, r.channel, TRUE) \in socks

(* Between calls a Server owns exactly the kernel socket its listen_fd and *)
(* channel say, besides the one a blocked accept() keeps alive, and the    *)
(* daemon has no record of it but that of its Registration, which names    *)
(* its channel, with two exceptions: a record of an earlier run of the     *)
(* process that died, and on Windows one whose deletion failed.            *)
NothingLeftBehind ==
  \A s \in Server : pc[s] = "idle" =>
    /\ {k.channel : k \in SocksOf(s)} = {channel[s], acc[s]} \cap Channel
    /\ \A k \in SocksOf(s) : k.listening
    /\ listen_fd[s] <=> channel[s] # 0
    /\ sdp_reg[s] => listen_fd[s]
    /\ \A r \in db : r.owner = s =>
         \/ Live(r) /\ sdp_reg[s] /\ r.channel = channel[s]
         \/ r.holder = "none"
         \/ r.holder = "process" /\ platform = "windows"

(* On Linux listen(0) gives up only if each channel was taken at some time *)
(* of its scan: a channel that stays free throughout is never missed.      *)
ScanMissesNoFreeChannel ==
  [][\A s \in Server :
       /\ pc[s] = "bind" /\ pc'[s] = "idle"
       /\ platform = "linux" /\ call[s].channel = 0
       => free[s] = {}]_vars

(* A client whose record is still published by a running process when it   *)
(* connects reaches the process that published it, on the service asked.   *)
FreshRecordReachesOwner ==
  [][\A c \in Client, r \in db :
       /\ cpc[c] = "connect" /\ cpc'[c] = "connected"
       /\ r \in target[c] /\ Live(r)
       => conn'[c] = {[server |-> r.owner, uuid |-> r.uuid, asked |-> r.uuid]}]_vars

(* connect_by_sdp connects to the service with the UUID that was looked up.*)
ConnectsToService ==
  \A c \in Client : \A k \in conn[c] : k.uuid = k.asked

(* A listen, listen_with_sdp or close call returns (or the process dies):  *)
(* the scan ends and no failure path goes back to an earlier step.         *)
ServerCallsReturn ==
  \A s \in Server : (pc[s] # "idle") ~> (pc[s] \in {"idle", "dead"})

(* The thread in accept() of s waits on a socket that the Server closed.   *)
StaleAccept(s) == acc[s] \in Channel \cup {Woken} /\ ~(listen_fd[s] /\ channel[s] = acc[s])

(* accept() returns when its server is stopped.                            *)
AcceptEnds == \A s \in Accepting : StaleAccept(s) ~> (acc[s] = 0)
=============================================================================
