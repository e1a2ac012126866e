----------------------- MODULE ServiceDiscoveryProofs -----------------------
(***************************************************************************)
(* Proofs about ServiceDiscovery, for any number of servers, clients,      *)
(* services and channels, on both platforms.                               *)
(***************************************************************************)
EXTENDS ServiceDiscovery, TLAPS

-----------------------------------------------------------------------------
(* The inductive invariant.                                                *)

(* The socket a listen() call has opened and not yet handed to the Server. *)
InProgress(s) ==
  IF pc[s] = "bind" THEN {Sock(s, call[s].uuid, 0, FALSE)}
  ELSE IF pc[s] = "listen" THEN {Sock(s, call[s].uuid, scan[s], FALSE)}
  ELSE {}

(* s has a socket that listens on ch.                                      *)
ListensOn(s, ch) == \E k \in socks : k.owner = s /\ k.listening /\ k.channel = ch

(* Every socket of s is accounted for: it is the Server's own, the one a   *)
(* blocked accept() keeps alive, or that of the listen() in progress; and  *)
(* each of these exists when the variables of s say so.                    *)
SocketsOwned(s) ==
  /\ \A k \in socks : k.owner = s =>
       \/ k.listening /\ k.channel \in Channel /\ k.channel \in {channel[s], acc[s]}
       \/ k \in InProgress(s)
  /\ InProgress(s) \subseteq socks
  /\ listen_fd[s] => ListensOn(s, channel[s])
  /\ acc[s] \in Channel => ListensOn(s, acc[s])

(* What the next system call of s takes for granted.                       *)
CallInStep(s) ==
  /\ listen_fd[s] <=> channel[s] # 0
  /\ pc[s] \in {"socket", "bind", "listen", "dead"} => ~listen_fd[s]
  /\ pc[s] = "listen" => scan[s] \in Channel
  /\ pc[s] = "dead" => acc[s] = 0
  /\ pc[s] \in {"sdp_connect", "register"} =>
       /\ listen_fd[s] /\ call[s].uuid # NoUuid
       /\ Sock(s, call[s].uuid, channel[s], TRUE) \in socks
  /\ sdp_reg[s] => listen_fd[s] /\ pc[s] \in {"idle", "unregister"}

(* A live record of s stands for its Registration, and for its listener.   *)
RecordsOwned(s) ==
  \A r \in db : r.owner = s /\ Live(r) =>
    /\ sdp_reg[s] /\ r.channel = channel[s]
    /\ Sock(s, r.uuid, r.channel, TRUE) \in socks

ServerInv(s) == SocketsOwned(s) /\ CallInStep(s) /\ RecordsOwned(s)

(* The kernel binds a channel once.                                        *)
OneSocketPerChannel ==
  \A k, l \in socks : k.channel = l.channel /\ k.channel \in Channel => k = l

Inv == TypeOK /\ OneSocketPerChannel /\ \A s \in Server : ServerInv(s)

(* The channels that listen() may still count on are free, and on Linux    *)
(* its scan has not passed them.                                           *)
ScanInv ==
  \A s \in Server :
    /\ free[s] \subseteq Unbound
    /\ pc[s] = "bind" /\ platform = "linux" /\ call[s].channel = 0
         => free[s] \subseteq scan[s]..MaxChannel

(* A record whose deletion failed stays only on Windows.                   *)
HolderInv == \A r \in db : r.holder = "process" => platform = "windows"

(* A client resolves one record at a time.                                 *)
TargetInv == \A c \in Client : \A q, r \in target[c] : q = r

-----------------------------------------------------------------------------
(* Sockets and records.                                                    *)

(* The fields of a socket, to be cited without the definition of Sock.     *)
LEMMA SockFields ==
  \A s, u, ch, l : /\ Sock(s, u, ch, l).owner = s /\ Sock(s, u, ch, l).uuid = u
                   /\ Sock(s, u, ch, l).channel = ch /\ Sock(s, u, ch, l).listening = l
BY DEF Sock

(* A socket of a server, for a service, on a channel or none.              *)
LEMMA SockTyped ==
  ASSUME NEW s \in Server, NEW u \in Uuid \cup {NoUuid}, NEW ch \in 0..MaxChannel,
         NEW l \in BOOLEAN
  PROVE  Sock(s, u, ch, l) \in SockType
BY DEF Sock, SockType

(* When the process s has died, the records held by a Registration or by a *)
(* process are those of the other servers.                                 *)
LEMMA OrphanedIs ==
  ASSUME db \in SUBSET RecordType, NEW s \in Server
  PROVE  /\ Orphaned(s) \in SUBSET RecordType
         /\ \A r \in Orphaned(s) : r.holder # "none" => r \in db /\ r.owner # s
<1> SUFFICES ASSUME NEW x \in Orphaned(s)
             PROVE  x \in RecordType /\ (x.holder # "none" => x \in db /\ x.owner # s)
  OBVIOUS
<1>1. PICK r \in db : x = IF r.owner = s THEN [r EXCEPT !.holder = "none"] ELSE r
  BY DEF Orphaned
<1>2. r \in RecordType
  OBVIOUS
<1>3. CASE r.owner = s
  BY <1>1, <1>2, <1>3 DEF RecordType
<1>4. CASE r.owner # s
  BY <1>1, <1>2, <1>4
<1> QED
  BY <1>3, <1>4

(* When a deletion has failed, the live records are those of the other     *)
(* servers.                                                                *)
LEMMA KeptIs ==
  ASSUME db \in SUBSET RecordType, NEW s \in Server
  PROVE  /\ Kept(s) \in SUBSET RecordType
         /\ \A r \in Kept(s) : Live(r) => r \in db /\ r.owner # s
<1> SUFFICES ASSUME NEW x \in Kept(s)
             PROVE  x \in RecordType /\ (Live(x) => x \in db /\ x.owner # s)
  OBVIOUS
<1>1. PICK r \in db :
        x = IF r.owner = s /\ Live(r) THEN [r EXCEPT !.holder = "process"] ELSE r
  BY DEF Kept
<1>2. r \in RecordType
  OBVIOUS
<1>3. CASE r.owner = s /\ Live(r)
  BY <1>1, <1>2, <1>3 DEF RecordType, Live
<1>4. CASE ~(r.owner = s /\ Live(r))
  BY <1>1, <1>2, <1>4
<1> QED
  BY <1>3, <1>4

-----------------------------------------------------------------------------
(* A step of one server.                                                   *)

(* All that belongs to server t alone.                                     *)
Own(t) == <<pc[t], call[t], listen_fd[t], channel[t], sdp_reg[t], scan[t], acc[t]>>

(* A step of s touches no other server, no socket of another and adds no   *)
(* live record of another.                                                 *)
OnlyOf(s) ==
  /\ \A t \in Server \ {s} : UNCHANGED Own(t)
  /\ \A k : k.owner # s => (k \in socks' <=> k \in socks)
  /\ \A r \in db' : r.owner # s /\ Live(r) => r \in db

(* The invariant of t depends on what belongs to t.                        *)
LEMMA Frame ==
  ASSUME NEW t \in Server, ServerInv(t), UNCHANGED Own(t),
         \A k : k.owner = t => (k \in socks' <=> k \in socks),
         \A r \in db' : r.owner = t /\ Live(r) => r \in db
  PROVE  ServerInv(t)'
<1>1. /\ pc'[t] = pc[t] /\ call'[t] = call[t] /\ listen_fd'[t] = listen_fd[t]
      /\ channel'[t] = channel[t] /\ sdp_reg'[t] = sdp_reg[t] /\ scan'[t] = scan[t]
      /\ acc'[t] = acc[t]
  BY DEF Own
<1>2. InProgress(t)' = InProgress(t)
  BY <1>1 DEF InProgress
<1>3. \A u, ch, l : Sock(t, u, ch, l) \in socks => Sock(t, u, ch, l) \in socks'
  <2> SUFFICES ASSUME NEW u, NEW ch, NEW l, Sock(t, u, ch, l) \in socks
               PROVE  Sock(t, u, ch, l) \in socks'
    OBVIOUS
  <2>1. Sock(t, u, ch, l).owner = t
    BY SockFields
  <2> QED
    BY <2>1
<1>4. SocketsOwned(t)'
  <2>1. SocketsOwned(t)
    BY DEF ServerInv
  <2>2. ASSUME NEW k \in socks', k.owner = t
        PROVE  \/ k.listening /\ k.channel \in Channel /\ k.channel \in {channel'[t], acc'[t]}
               \/ k \in InProgress(t)'
    BY <1>1, <1>2, <2>1, <2>2 DEF SocketsOwned
  <2>3. InProgress(t)' \subseteq socks'
    <3> SUFFICES ASSUME NEW k \in InProgress(t) PROVE k \in socks'
      BY <1>2
    <3>1. k \in socks
      BY <2>1 DEF SocketsOwned
    <3>2. \E ch : k = Sock(t, call[t].uuid, ch, FALSE)
      BY Zenon DEF InProgress
    <3> QED
      BY <1>3, <3>1, <3>2
  <2>4. (listen_fd[t] => ListensOn(t, channel[t]))'
    BY <1>1, <2>1 DEF SocketsOwned, ListensOn
  <2>5. (acc[t] \in Channel => ListensOn(t, acc[t]))'
    BY <1>1, <2>1 DEF SocketsOwned, ListensOn, Channel
  <2> QED
    BY <2>2, <2>3, <2>4, <2>5 DEF SocketsOwned, Channel
<1>5. CallInStep(t)'
  BY <1>1, <1>3 DEF ServerInv, CallInStep, Channel
<1>6. RecordsOwned(t)'
  BY <1>1, <1>3 DEF ServerInv, RecordsOwned
<1> QED
  BY <1>4, <1>5, <1>6 DEF ServerInv

(* A step of s preserves Inv if it preserves what is about s.              *)
LEMMA StepOf ==
  ASSUME Inv, NEW s \in Server, OnlyOf(s), TypeOK', OneSocketPerChannel', ServerInv(s)'
  PROVE  Inv'
<1>1. ASSUME NEW t \in Server \ {s} PROVE ServerInv(t)'
  BY Frame DEF Inv, OnlyOf
<1> QED
  BY <1>1 DEF Inv

(* Closing sockets binds no channel twice.                                 *)
LEMMA FewerSockets ==
  ASSUME OneSocketPerChannel, socks' \subseteq socks
  PROVE  OneSocketPerChannel'
BY DEF OneSocketPerChannel, Channel

(* A step that leaves the sockets, and what s says of them, alone.         *)
LEMMA SocketsKept ==
  ASSUME NEW s \in Server, SocketsOwned(s), socks' = socks, listen_fd'[s] = listen_fd[s],
         channel'[s] = channel[s], acc'[s] = acc[s],
         pc[s] \notin {"bind", "listen"}, pc'[s] \notin {"bind", "listen"}
  PROVE  SocketsOwned(s)'
<1>1. InProgress(s) = {} /\ InProgress(s)' = {}
  BY DEF InProgress
<1>2. (listen_fd[s] => ListensOn(s, channel[s]))' /\ (acc[s] \in Channel => ListensOn(s, acc[s]))'
  BY DEF SocketsOwned, ListensOn, Channel
<1> QED
  BY <1>1, <1>2 DEF SocketsOwned, Channel

(* The application calls listen, listen_with_sdp or close.                 *)
LEMMA BeginInv ==
  ASSUME Inv, NEW s \in Server,
         \/ \E u \in Uuid \cup {NoUuid}, ch \in Asked : Listen(s, u, ch)
         \/ Close(s)
  PROVE  Inv'
<1>1. PICK c \in CallType : Begin(s, c)
  <2>1. CASE \E u \in Uuid \cup {NoUuid}, ch \in Asked : Listen(s, u, ch)
    BY <2>1 DEF Listen, CallType
  <2>2. CASE Close(s)
    <3>1. [NoCall EXCEPT !.op = "close"] \in CallType
      BY DiscoveryAssumption DEF NoCall, CallType, Asked
    <3> QED
      BY <2>2, <3>1 DEF Close
  <2> QED
    BY <2>1, <2>2
<1>2. /\ pc[s] = "idle" /\ pc' = [pc EXCEPT ![s] = "unregister"]
      /\ call' = [call EXCEPT ![s] = c]
      /\ UNCHANGED <<listen_fd, channel, sdp_reg, scan, free, platform, acc, socks, db,
                     cpc, target, conn>>
  BY <1>1 DEF Begin, threadVars, clientVars
<1>3. TypeOK'
  BY <1>2 DEF Inv, TypeOK, Pcs
<1>4. /\ pc'[s] = "unregister" /\ OnlyOf(s)
  BY <1>2 DEF Inv, TypeOK, OnlyOf, Own
<1>5. OneSocketPerChannel'
  BY <1>2, FewerSockets DEF Inv
<1>6. ServerInv(s)'
  <2>1. SocketsOwned(s)'
    BY <1>2, <1>4, SocketsKept DEF Inv, ServerInv
  <2>2. CallInStep(s)'
    BY <1>2, <1>4 DEF Inv, ServerInv, CallInStep
  <2>3. RecordsOwned(s)'
    BY <1>2 DEF Inv, ServerInv, RecordsOwned
  <2> QED
    BY <2>1, <2>2, <2>3 DEF ServerInv
<1> QED
  BY <1>3, <1>4, <1>5, <1>6, StepOf

(* Impl::close, first half: afterwards s has no live record.               *)
LEMMA UnregisterInv ==
  ASSUME Inv, NEW s \in Server, Unregister(s) \/ UnregisterFails(s)
  PROVE  Inv'
<1>1. /\ pc[s] = "unregister" /\ pc' = [pc EXCEPT ![s] = "close_fd"]
      /\ sdp_reg' = [sdp_reg EXCEPT ![s] = FALSE]
      /\ UNCHANGED <<call, listen_fd, channel, scan, free, platform, acc, socks,
                     cpc, target, conn>>
  BY DEF Unregister, UnregisterFails, Goto, threadVars, clientVars
<1>2. db \in SUBSET RecordType
  BY DEF Inv, TypeOK
<1>3. db' \in SUBSET RecordType /\ \A r \in db' : Live(r) => r \in db /\ r.owner # s
  <2>1. CASE db' = db \ LiveRecordsOf(s)
    BY <1>2, <2>1 DEF LiveRecordsOf
  <2>2. CASE db' = Kept(s)
    BY <1>2, <2>2, KeptIs
  <2> QED
    BY <2>1, <2>2 DEF Unregister, UnregisterFails
<1>4. TypeOK'
  BY <1>1, <1>3 DEF Inv, TypeOK, Pcs
<1>5. pc'[s] = "close_fd" /\ sdp_reg'[s] = FALSE /\ OnlyOf(s)
  BY <1>1, <1>3 DEF Inv, TypeOK, OnlyOf, Own
<1>6. OneSocketPerChannel'
  BY <1>1, FewerSockets DEF Inv
<1>7. ServerInv(s)'
  <2>1. SocketsOwned(s)'
    BY <1>1, <1>5, SocketsKept DEF Inv, ServerInv
  <2>2. CallInStep(s)'
    BY <1>1, <1>5 DEF Inv, ServerInv, CallInStep
  <2>3. RecordsOwned(s)'
    BY <1>3 DEF RecordsOwned
  <2> QED
    BY <2>1, <2>2, <2>3 DEF ServerInv
<1> QED
  BY <1>4, <1>5, <1>6, <1>7, StepOf

(* Impl::close, second half: what is left of the sockets of s is the one a *)
(* blocked accept() keeps alive.                                           *)
LEMMA CloseFdInv ==
  ASSUME Inv, NEW s \in Server, CloseFd(s)
  PROVE  Inv'
<1>1. /\ pc[s] = "close_fd"
      /\ socks' = IF listen_fd[s] THEN Closed(s) ELSE socks
      /\ acc' = IF listen_fd[s] /\ acc[s] = channel[s] /\ platform = "windows"
                  THEN [acc EXCEPT ![s] = Woken] ELSE acc
      /\ listen_fd' = [listen_fd EXCEPT ![s] = FALSE]
      /\ channel' = [channel EXCEPT ![s] = 0]
      /\ UNCHANGED <<platform, sdp_reg, db, cpc, target, conn>>
  BY DEF CloseFd, clientVars
<1>2. \/ /\ pc' = [pc EXCEPT ![s] = "socket"] /\ UNCHANGED <<call, scan, free>>
      \/ /\ pc' = [pc EXCEPT ![s] = "idle"] /\ call' = [call EXCEPT ![s] = NoCall]
         /\ scan' = [scan EXCEPT ![s] = 0] /\ free' = [free EXCEPT ![s] = {}]
  BY DEF CloseFd, Goto, Return, Leave
<1>3. socks' \subseteq socks
  BY <1>1 DEF Closed
<1>4. NoCall \in CallType /\ 0 \in 0..MaxChannel /\ 0 \in Asked /\ Woken \notin Channel
  BY DiscoveryAssumption DEF NoCall, CallType, Asked, Woken, Channel
<1>5. TypeOK'
  <2>1. pc' \in [Server -> Pcs] /\ call' \in [Server -> CallType]
        /\ scan' \in [Server -> Asked] /\ free' \in [Server -> SUBSET Channel]
    BY <1>2, <1>4 DEF Inv, TypeOK, Pcs
  <2>2. acc' \in [Server -> Channel \cup {0, Woken, Entering}]
    BY <1>1 DEF Inv, TypeOK
  <2> QED
    BY <1>1, <1>3, <1>4, <2>1, <2>2 DEF Inv, TypeOK
<1>6. pc'[s] \in {"socket", "idle"} /\ listen_fd'[s] = FALSE /\ channel'[s] = 0
  BY <1>1, <1>2 DEF Inv, TypeOK
<1>7. OnlyOf(s)
  <2>1. \A t \in Server \ {s} : UNCHANGED Own(t)
    BY <1>1, <1>2 DEF Inv, TypeOK, Own
  <2>2. \A k : k.owner # s => (k \in socks' <=> k \in socks)
    BY <1>1 DEF Closed
  <2> QED
    BY <1>1, <2>1, <2>2 DEF OnlyOf
<1>8. OneSocketPerChannel'
  BY <1>3, FewerSockets DEF Inv
<1>9. /\ SocketsOwned(s) /\ InProgress(s) = {} /\ InProgress(s)' = {}
      /\ ~sdp_reg[s] /\ (~listen_fd[s] => channel[s] = 0)
  BY <1>1, <1>6 DEF Inv, ServerInv, CallInStep, InProgress
<1>10. acc'[s] = IF listen_fd[s] /\ acc[s] = channel[s] /\ platform = "windows"
                   THEN Woken ELSE acc[s]
  BY <1>1 DEF Inv, TypeOK
<1>11. SocketsOwned(s)'
  <2>1. ASSUME NEW k \in socks', k.owner = s
        PROVE  k.listening /\ k.channel \in Channel /\ k.channel = acc'[s]
    <3>1. k.listening /\ k.channel \in Channel /\ k.channel \in {channel[s], acc[s]}
      BY <1>3, <1>9, <2>1 DEF SocketsOwned
    <3>2. 0 \notin Channel
      BY DEF Channel
    <3> QED
      BY <1>1, <1>9, <1>10, <2>1, <3>1, <3>2 DEF Closed
  <2>2. ASSUME acc'[s] \in Channel
        PROVE  \E k \in socks' : k.owner = s /\ k.listening /\ k.channel = acc'[s]
    <3>1. /\ acc'[s] = acc[s]
          /\ ~(listen_fd[s] /\ acc[s] = channel[s] /\ platform = "windows")
      BY <1>4, <1>10, <2>2
    <3>2. PICK k \in socks : k.owner = s /\ k.listening /\ k.channel = acc[s]
      BY <1>9, <2>2, <3>1 DEF SocketsOwned, ListensOn
    <3>3. platform \in {"linux", "windows"}
      BY DiscoveryAssumption DEF Inv, TypeOK
    <3>4. k \in socks'
      BY <1>1, <3>1, <3>2, <3>3 DEF Closed
    <3> QED
      BY <3>1, <3>2, <3>4
  <2> QED
    BY <1>6, <1>9, <2>1, <2>2 DEF SocketsOwned, ListensOn, Channel
<1>12. CallInStep(s)'
  BY <1>1, <1>6, <1>9 DEF CallInStep
<1>13. RecordsOwned(s)'
  BY <1>1, <1>9 DEF Inv, ServerInv, RecordsOwned
<1> QED
  BY <1>5, <1>7, <1>8, <1>11, <1>12, <1>13, StepOf DEF ServerInv

(* The socket in progress is one of s, and it does not listen yet.         *)
LEMMA InProgressIs ==
  ASSUME NEW s \in Server
  PROVE  /\ \A k \in InProgress(s) : k.owner = s /\ k.listening = FALSE
         /\ \A k \in InProgress(s)' : k.owner = s /\ k.listening = FALSE
<1>1. \A u, ch : Sock(s, u, ch, FALSE).owner = s /\ Sock(s, u, ch, FALSE).listening = FALSE
  BY DEF Sock
<1>2. ASSUME NEW k \in InProgress(s) PROVE \E u, ch : k = Sock(s, u, ch, FALSE)
  BY <1>2, Zenon DEF InProgress
<1>3. ASSUME NEW k \in InProgress(s)' PROVE \E u, ch : k = Sock(s, u, ch, FALSE)
  BY <1>3, Zenon DEF InProgress
<1>4. \A k \in InProgress(s) : k.owner = s /\ k.listening = FALSE
  BY <1>1, <1>2
<1>5. \A k \in InProgress(s)' : k.owner = s /\ k.listening = FALSE
  BY <1>1, <1>3
<1> QED
  BY <1>4, <1>5

(* A step that replaces the socket in progress, or opens or closes it.     *)
LEMMA SocketsSwapped ==
  ASSUME NEW s \in Server, SocketsOwned(s),
         socks' = (socks \ InProgress(s)) \cup InProgress(s)',
         listen_fd'[s] = listen_fd[s], channel'[s] = channel[s], acc'[s] = acc[s]
  PROVE  /\ SocketsOwned(s)'
         /\ \A k : k.owner # s => (k \in socks' <=> k \in socks)
<1>1. /\ \A k \in InProgress(s) : k.owner = s /\ k.listening = FALSE
      /\ \A k \in InProgress(s)' : k.owner = s /\ k.listening = FALSE
  BY InProgressIs
<1>2. \A k : k.owner # s => (k \in socks' <=> k \in socks)
  BY <1>1
<1>3. \A k \in socks : k.listening => k \in socks'
  BY <1>1
<1>4. (listen_fd[s] => ListensOn(s, channel[s]))'
  BY <1>3 DEF SocketsOwned, ListensOn
<1>5. (acc[s] \in Channel => ListensOn(s, acc[s]))'
  BY <1>3 DEF SocketsOwned, ListensOn, Channel
<1>6. ASSUME NEW k \in socks', k.owner = s
      PROVE  \/ k.listening /\ k.channel \in Channel /\ k.channel \in {channel'[s], acc'[s]}
             \/ k \in InProgress(s)'
  BY <1>6 DEF SocketsOwned
<1> QED
  BY <1>2, <1>4, <1>5, <1>6 DEF SocketsOwned, Channel

(* The variables of s change, and of no other server.                      *)
LEMMA OnlyOwn ==
  ASSUME TypeOK, NEW s \in Server, NEW p, NEW c, NEW n,
         pc' = [pc EXCEPT ![s] = p], call' = [call EXCEPT ![s] = c],
         scan' = [scan EXCEPT ![s] = n],
         UNCHANGED <<listen_fd, channel, sdp_reg, acc, db>>,
         \A k : k.owner # s => (k \in socks' <=> k \in socks)
  PROVE  OnlyOf(s) /\ pc'[s] = p /\ call'[s] = c /\ scan'[s] = n
BY DEF TypeOK, OnlyOf, Own

(* A call of s with no record and no listening socket goes on, or returns. *)
LEMMA BindingServer ==
  ASSUME Inv, NEW s \in Server, pc[s] \in {"socket", "bind", "listen"},
         pc'[s] \in {"idle", "bind", "listen"},
         pc'[s] = "listen" => scan'[s] \in Channel,
         UNCHANGED <<listen_fd, channel, sdp_reg, acc, db>>, SocketsOwned(s)'
  PROVE  ServerInv(s)'
<1>1. ~listen_fd[s] /\ ~sdp_reg[s] /\ channel[s] = 0
  BY DEF Inv, ServerInv, CallInStep
<1>2. CallInStep(s)'
  BY <1>1 DEF CallInStep, Channel
<1>3. RecordsOwned(s)'
  BY <1>1 DEF Inv, ServerInv, RecordsOwned
<1> QED
  BY <1>2, <1>3 DEF ServerInv

(* socket(): listen() begins to bind.                                      *)
LEMMA SocketCallInv ==
  ASSUME Inv, NEW s \in Server, SocketCall(s)
  PROVE  Inv'
<1>1. /\ pc[s] = "socket" /\ pc' = [pc EXCEPT ![s] = "bind"]
      /\ socks' = socks \cup {Sock(s, call[s].uuid, 0, FALSE)}
      /\ scan' = [scan EXCEPT ![s] = FirstScan(call[s].channel)]
      /\ free' = [free EXCEPT ![s] = Unbound]
      /\ UNCHANGED <<call, listen_fd, channel, sdp_reg, platform, acc, db, cpc, target, conn>>
  BY DEF SocketCall, Goto, threadVars, clientVars
<1>2. FirstScan(call[s].channel) \in Asked /\ Unbound \in SUBSET Channel
      /\ call[s].uuid \in Uuid \cup {NoUuid} /\ 0 \in 0..MaxChannel /\ 0 \in Asked
  BY DiscoveryAssumption DEF FirstScan, Asked, Channel, Unbound, Inv, TypeOK, CallType
<1>3. Sock(s, call[s].uuid, 0, FALSE) \in SockType
  BY <1>2, SockTyped
<1>4. TypeOK'
  BY <1>1, <1>2, <1>3 DEF Inv, TypeOK, Pcs
<1>5. /\ pc'[s] = "bind" /\ call'[s] = call[s] /\ scan'[s] = FirstScan(call[s].channel)
  BY <1>1 DEF Inv, TypeOK
<1>6. InProgress(s) = {} /\ InProgress(s)' = {Sock(s, call[s].uuid, 0, FALSE)}
  BY <1>1, <1>5 DEF InProgress
<1>7. /\ SocketsOwned(s)'
      /\ \A k : k.owner # s => (k \in socks' <=> k \in socks)
  BY <1>1, <1>6, SocketsSwapped DEF Inv, ServerInv
<1>8. call' = [call EXCEPT ![s] = call[s]]
  BY <1>1 DEF Inv, TypeOK
<1>9. OnlyOf(s)
  BY <1>1, <1>7, <1>8, OnlyOwn DEF Inv
<1>10. ServerInv(s)'
  BY <1>1, <1>2, <1>5, <1>7, BindingServer
<1>11. OneSocketPerChannel'
  <2>1. Sock(s, call[s].uuid, 0, FALSE).channel \notin Channel
    BY DEF Channel, Sock
  <2> QED
    BY <1>1, <2>1 DEF Inv, OneSocketPerChannel, Channel
<1> QED
  BY <1>4, <1>9, <1>10, <1>11, StepOf

(* listen() gives up before it listens: its socket, if any, is closed.     *)
LEMMA GivesUpInv ==
  ASSUME Inv, NEW s \in Server, pc[s] \in {"socket", "bind", "listen"},
         socks' = socks \ InProgress(s), Return(s),
         UNCHANGED <<listen_fd, channel, sdp_reg, platform, acc, db, cpc, target, conn>>
  PROVE  Inv'
<1>1. /\ pc' = [pc EXCEPT ![s] = "idle"] /\ call' = [call EXCEPT ![s] = NoCall]
      /\ scan' = [scan EXCEPT ![s] = 0] /\ free' = [free EXCEPT ![s] = {}]
  BY DEF Return, Leave
<1>2. NoCall \in CallType /\ 0 \in 0..MaxChannel /\ 0 \in Asked
  BY DiscoveryAssumption DEF NoCall, CallType, Asked
<1>3. TypeOK'
  BY <1>1, <1>2 DEF Inv, TypeOK, Pcs
<1>4. pc'[s] = "idle"
  BY <1>1 DEF Inv, TypeOK
<1>5. InProgress(s)' = {}
  BY <1>4 DEF InProgress
<1>6. /\ SocketsOwned(s)'
      /\ \A k : k.owner # s => (k \in socks' <=> k \in socks)
  BY <1>5, SocketsSwapped DEF Inv, ServerInv
<1>7. OnlyOf(s)
  BY <1>1, <1>6, OnlyOwn DEF Inv
<1>8. ServerInv(s)'
  BY <1>4, <1>6, BindingServer
<1>9. OneSocketPerChannel'
  BY FewerSockets DEF Inv
<1> QED
  BY <1>3, <1>7, <1>8, <1>9, StepOf

(* bind() succeeds on a channel that is not bound.                         *)
LEMMA BindToInv ==
  ASSUME Inv, NEW s \in Server, pc[s] = "bind", NEW ch \in Unbound, BindTo(s, ch),
         UNCHANGED <<listen_fd, channel, sdp_reg, platform, acc, db, cpc, target, conn>>
  PROVE  Inv'
<1> DEFINE old == Sock(s, call[s].uuid, 0, FALSE)
           new == Sock(s, call[s].uuid, ch, FALSE)
<1>1. /\ pc' = [pc EXCEPT ![s] = "listen"] /\ call' = call
      /\ socks' = (socks \ {old}) \cup {new}
      /\ scan' = [scan EXCEPT ![s] = ch]
      /\ free' = [t \in Server |-> free[t] \ {ch}]
  BY DEF BindTo, Goto
<1>2. /\ ch \in Channel /\ ch \in 0..MaxChannel /\ ch \in Asked /\ \A k \in socks : k.channel # ch
      /\ call[s].uuid \in Uuid \cup {NoUuid}
  BY DiscoveryAssumption DEF Unbound, Channel, Asked, Inv, TypeOK, CallType
<1>3. new \in SockType
  BY <1>2, SockTyped
<1>4. TypeOK'
  BY <1>1, <1>2, <1>3 DEF Inv, TypeOK, Pcs
<1>5. pc'[s] = "listen" /\ scan'[s] = ch
  BY <1>1 DEF Inv, TypeOK
<1>6. InProgress(s) = {old} /\ InProgress(s)' = {new}
  BY <1>1, <1>5 DEF InProgress
<1>7. /\ SocketsOwned(s)'
      /\ \A k : k.owner # s => (k \in socks' <=> k \in socks)
  BY <1>1, <1>6, SocketsSwapped DEF Inv, ServerInv
<1>8. call' = [call EXCEPT ![s] = call[s]]
  BY <1>1 DEF Inv, TypeOK
<1>9. OnlyOf(s)
  BY <1>1, <1>7, <1>8, OnlyOwn DEF Inv
<1>10. ServerInv(s)'
  BY <1>2, <1>5, <1>7, BindingServer
<1>11. OneSocketPerChannel'
  <2>1. new.channel = ch
    BY DEF Sock
  <2> QED
    BY <1>1, <1>2, <2>1 DEF Inv, OneSocketPerChannel, Channel
<1> QED
  BY <1>4, <1>9, <1>10, <1>11, StepOf

(* bind(), with all its outcomes on both platforms.                        *)
LEMMA BindInv ==
  ASSUME Inv, NEW s \in Server, Bind(s)
  PROVE  Inv'
<1>1. /\ pc[s] = "bind"
      /\ UNCHANGED <<listen_fd, channel, sdp_reg, platform, acc, db, cpc, target, conn>>
  BY DEF Bind, threadVars, clientVars
<1>2. CASE \E ch \in Unbound : BindTo(s, ch)
  BY <1>1, <1>2, BindToInv
<1>3. CASE NothingBound(s)
  <2>1. InProgress(s) = {Sock(s, call[s].uuid, 0, FALSE)}
    BY <1>1 DEF InProgress
  <2> QED
    BY <1>1, <1>3, <2>1, GivesUpInv DEF NothingBound
<1>4. CASE /\ scan[s] < MaxChannel /\ scan' = [scan EXCEPT ![s] = scan[s] + 1]
           /\ UNCHANGED <<pc, call, free, socks>>
  <2>1. scan[s] \in Asked
    BY DEF Inv, TypeOK
  <2>2. scan[s] + 1 \in Asked
    BY <1>4, <2>1, DiscoveryAssumption DEF Asked
  <2>3. TypeOK'
    BY <1>1, <1>4, <2>2 DEF Inv, TypeOK
  <2>4. scan'[s] = scan[s] + 1
    BY <1>4 DEF Inv, TypeOK
  <2>5. /\ InProgress(s)' = InProgress(s) /\ InProgress(s) \subseteq socks
    BY <1>1, <1>4 DEF InProgress, Inv, ServerInv, SocketsOwned
  <2>6. /\ SocketsOwned(s)'
        /\ \A k : k.owner # s => (k \in socks' <=> k \in socks)
    BY <1>1, <1>4, <2>5, SocketsSwapped DEF Inv, ServerInv
  <2>7. OnlyOf(s)
    BY <1>1, <1>4 DEF OnlyOf, Own, Inv, TypeOK
  <2>8. ServerInv(s)'
    BY <1>1, <1>4, <2>2, <2>4, <2>6, BindingServer
  <2>9. OneSocketPerChannel'
    BY <1>4, FewerSockets DEF Inv
  <2> QED
    BY <2>3, <2>7, <2>8, <2>9, StepOf
<1> QED
  BY <1>2, <1>3, <1>4 DEF Bind, BindLinux, BindWindows

(* ::listen(): the socket in progress becomes the Server's own.            *)
LEMMA ListenCallInv ==
  ASSUME Inv, NEW s \in Server, ListenCall(s)
  PROVE  Inv'
<1> DEFINE old == Sock(s, call[s].uuid, scan[s], FALSE)
           new == Sock(s, call[s].uuid, scan[s], TRUE)
<1>1. /\ pc[s] = "listen" /\ socks' = (socks \ {old}) \cup {new}
      /\ listen_fd' = [listen_fd EXCEPT ![s] = TRUE]
      /\ channel' = [channel EXCEPT ![s] = scan[s]]
      /\ UNCHANGED <<sdp_reg, platform, acc, db, cpc, target, conn>>
  BY DEF ListenCall, threadVars, clientVars
<1>2. \/ /\ pc' = [pc EXCEPT ![s] = "idle"] /\ call' = [call EXCEPT ![s] = NoCall]
         /\ scan' = [scan EXCEPT ![s] = 0] /\ free' = [free EXCEPT ![s] = {}]
      \/ /\ \E p \in {"sdp_connect", "register"} : pc' = [pc EXCEPT ![s] = p]
         /\ call[s].uuid # NoUuid /\ UNCHANGED <<call, scan, free>>
  BY DEF ListenCall, Return, Leave, BeginCreate, Goto
<1>3. /\ scan[s] \in Channel /\ scan[s] \in 0..MaxChannel /\ scan[s] # 0
      /\ call[s].uuid \in Uuid \cup {NoUuid} /\ ~sdp_reg[s] /\ channel[s] = 0
      /\ NoCall \in CallType /\ 0 \in 0..MaxChannel /\ 0 \in Asked /\ old \in socks
      /\ SocketsOwned(s) /\ InProgress(s) = {old}
  <2>1. scan[s] \in Channel /\ ~sdp_reg[s] /\ channel[s] = 0
    BY <1>1 DEF Inv, ServerInv, CallInStep
  <2>2. /\ NoCall \in CallType /\ 0 \in 0..MaxChannel /\ 0 \in Asked
        /\ call[s].uuid \in Uuid \cup {NoUuid}
    BY DiscoveryAssumption DEF NoCall, CallType, Asked, Inv, TypeOK
  <2>3. SocketsOwned(s) /\ InProgress(s) = {old}
    BY <1>1 DEF Inv, ServerInv, InProgress
  <2>4. old \in socks
    BY <2>3 DEF SocketsOwned
  <2>5. scan[s] \in 0..MaxChannel /\ scan[s] # 0
    BY <2>1 DEF Channel
  <2> QED
    BY <2>1, <2>2, <2>3, <2>4, <2>5
<1>4. /\ old.owner = s /\ old.channel = scan[s] /\ old.listening = FALSE
      /\ new.owner = s /\ new.channel = scan[s] /\ new.listening = TRUE
  BY DEF Sock
<1>5. TypeOK'
  <2>1. new \in SockType
    BY <1>3, SockTyped
  <2>2. pc' \in [Server -> Pcs] /\ call' \in [Server -> CallType]
        /\ scan' \in [Server -> Asked] /\ free' \in [Server -> SUBSET Channel]
    BY <1>2, <1>3 DEF Inv, TypeOK, Pcs
  <2> QED
    BY <1>1, <1>3, <2>1, <2>2 DEF Inv, TypeOK
<1>6. /\ pc'[s] \in {"idle", "sdp_connect", "register"}
      /\ pc'[s] # "idle" => call[s].uuid # NoUuid /\ call'[s] = call[s]
      /\ listen_fd'[s] = TRUE /\ channel'[s] = scan[s] /\ acc'[s] = acc[s]
  BY <1>1, <1>2 DEF Inv, TypeOK
<1>7. OnlyOf(s)
  <2>1. \A t \in Server \ {s} : UNCHANGED Own(t)
    BY <1>1, <1>2 DEF Inv, TypeOK, Own
  <2>2. \A k : k.owner # s => (k \in socks' <=> k \in socks)
    BY <1>1, <1>4
  <2> QED
    BY <1>1, <2>1, <2>2 DEF OnlyOf
<1>8. OneSocketPerChannel'
  <2>1. \A k \in socks \ {old} : k.channel # scan[s]
    BY <1>3, <1>4 DEF Inv, OneSocketPerChannel
  <2> QED
    BY <1>1, <1>4, <2>1 DEF Inv, OneSocketPerChannel, Channel
<1>9. SocketsOwned(s)'
  <2>1. InProgress(s)' = {}
    BY <1>6 DEF InProgress
  <2>2. ASSUME NEW k \in socks', k.owner = s
        PROVE  k.listening /\ k.channel \in Channel /\ k.channel \in {channel'[s], acc'[s]}
    <3>1. CASE k = new
      BY <1>3, <1>4, <1>6, <3>1
    <3>2. CASE k # new
      <4>1. k \in socks /\ k \notin InProgress(s)
        BY <1>1, <1>3, <3>2
      <4>2. k.listening /\ k.channel \in Channel /\ k.channel \in {channel[s], acc[s]}
        BY <1>3, <2>2, <4>1 DEF SocketsOwned
      <4> QED
        BY <1>3, <1>6, <4>2 DEF Channel
    <3> QED
      BY <3>1, <3>2
  <2>3. (listen_fd[s] => ListensOn(s, channel[s]))'
    BY <1>1, <1>4, <1>6 DEF ListensOn
  <2>4. (acc[s] \in Channel => ListensOn(s, acc[s]))'
    <3>1. \A k \in socks : k.listening => k \in socks'
      BY <1>1, <1>4
    <3> QED
      BY <1>3, <1>6, <3>1 DEF SocketsOwned, ListensOn, Channel
  <2> QED
    BY <2>1, <2>2, <2>3, <2>4 DEF SocketsOwned, Channel
<1>10. CallInStep(s)'
  <2>1. pc'[s] \in {"sdp_connect", "register"} => Sock(s, call'[s].uuid, channel'[s], TRUE) \in socks'
    <3> SUFFICES ASSUME pc'[s] \in {"sdp_connect", "register"}
                 PROVE  Sock(s, call'[s].uuid, channel'[s], TRUE) \in socks'
      OBVIOUS
    <3>1. call'[s].uuid = call[s].uuid /\ channel'[s] = scan[s] /\ new \in socks'
      BY <1>1, <1>6
    <3> QED
      BY <3>1, Zenon
  <2> QED
    BY <1>1, <1>3, <1>6, <2>1 DEF CallInStep
<1>11. RecordsOwned(s)'
  BY <1>1, <1>3 DEF Inv, ServerInv, RecordsOwned
<1> QED
  BY <1>5, <1>7, <1>8, <1>9, <1>10, <1>11, StepOf DEF ServerInv

(* socket() or ::listen() fails.                                           *)
LEMMA ListenFailsInv ==
  ASSUME Inv, NEW s \in Server, SocketCallFails(s) \/ ListenCallFails(s)
  PROVE  Inv'
<1>1. /\ pc[s] \in {"socket", "listen"} /\ Return(s) /\ socks' = socks \ InProgress(s)
      /\ UNCHANGED <<listen_fd, channel, sdp_reg, platform, acc, db, cpc, target, conn>>
  BY DEF SocketCallFails, ListenCallFails, InProgress, threadVars, clientVars
<1> QED
  BY <1>1, GivesUpInv

(* Registration::create: the session with the daemon is set up, or create  *)
(* fails and listen_with_sdp closes what it has opened.                    *)
LEMMA CreateInv ==
  ASSUME Inv, NEW s \in Server, SdpConnect(s) \/ CreateFails(s)
  PROVE  Inv'
<1>1. /\ pc[s] \in {"sdp_connect", "register"}
      /\ UNCHANGED <<listen_fd, channel, sdp_reg, scan, free, platform, acc, socks, db,
                     cpc, target, conn>>
      /\ \/ pc' = [pc EXCEPT ![s] = "register"] /\ UNCHANGED call
         \/ pc' = [pc EXCEPT ![s] = "unregister"] /\ call' = [call EXCEPT ![s].op = "failed"]
  BY DEF SdpConnect, CreateFails, Goto, threadVars, clientVars
<1>2. call' \in [Server -> CallType] /\ \A t \in Server \ {s} : call'[t] = call[t]
  <2>1. call \in [Server -> CallType] /\ call[s] \in CallType
    BY DEF Inv, TypeOK
  <2>2. [call[s] EXCEPT !.op = "failed"] \in CallType
    BY <2>1 DEF CallType
  <2> QED
    BY <1>1, <2>1, <2>2
<1>3. TypeOK'
  BY <1>1, <1>2 DEF Inv, TypeOK, Pcs
<1>4. /\ pc'[s] \in {"register", "unregister"}
      /\ pc'[s] = "register" => call'[s] = call[s]
      /\ OnlyOf(s)
  BY <1>1, <1>2 DEF Inv, TypeOK, OnlyOf, Own
<1>5. OneSocketPerChannel'
  BY <1>1, FewerSockets DEF Inv
<1>6. SocketsOwned(s)'
  BY <1>1, <1>4, SocketsKept DEF Inv, ServerInv
<1>7. CallInStep(s)'
  BY <1>1, <1>4 DEF Inv, ServerInv, CallInStep
<1>8. RecordsOwned(s)'
  BY <1>1 DEF Inv, ServerInv, RecordsOwned
<1> QED
  BY <1>3, <1>4, <1>5, <1>6, <1>7, <1>8, StepOf DEF ServerInv

(* The record is published: its channel is the one s listens on.           *)
LEMMA RegisterInv ==
  ASSUME Inv, NEW s \in Server, Register(s)
  PROVE  Inv'
<1>1. /\ pc[s] = "register" /\ db' = db \cup {Record(s, call[s].uuid, channel[s])}
      /\ sdp_reg' = [sdp_reg EXCEPT ![s] = TRUE]
      /\ pc' = [pc EXCEPT ![s] = "idle"] /\ call' = [call EXCEPT ![s] = NoCall]
      /\ scan' = [scan EXCEPT ![s] = 0] /\ free' = [free EXCEPT ![s] = {}]
      /\ UNCHANGED <<listen_fd, channel, platform, acc, socks, cpc, target, conn>>
  BY DEF Register, Return, Leave, threadVars, clientVars
<1>2. /\ listen_fd[s] /\ channel[s] # 0 /\ call[s].uuid # NoUuid /\ ~sdp_reg[s]
      /\ Sock(s, call[s].uuid, channel[s], TRUE) \in socks
  BY <1>1 DEF Inv, ServerInv, CallInStep
<1>3. channel[s] \in Channel /\ call[s].uuid \in Uuid /\ NoCall \in CallType
      /\ 0 \in 0..MaxChannel /\ 0 \in Asked
  BY <1>2, DiscoveryAssumption DEF Inv, TypeOK, CallType, NoCall, Asked, Channel
<1>4. Record(s, call[s].uuid, channel[s]) \in RecordType
  BY <1>3 DEF Record, RecordType
<1>5. TypeOK'
  BY <1>1, <1>3, <1>4 DEF Inv, TypeOK, Pcs
<1>6. pc'[s] = "idle" /\ sdp_reg'[s] = TRUE
  BY <1>1 DEF Inv, TypeOK
<1>7. OnlyOf(s)
  <2>1. \A t \in Server \ {s} : UNCHANGED Own(t)
    BY <1>1 DEF Inv, TypeOK, Own
  <2>2. Record(s, call[s].uuid, channel[s]).owner = s
    BY DEF Record
  <2> QED
    BY <1>1, <2>1, <2>2 DEF OnlyOf
<1>8. OneSocketPerChannel'
  BY <1>1, FewerSockets DEF Inv
<1>9. SocketsOwned(s)'
  BY <1>1, <1>6, SocketsKept DEF Inv, ServerInv
<1>10. CallInStep(s)'
  BY <1>1, <1>2, <1>6 DEF CallInStep
<1>11. RecordsOwned(s)'
  <2>1. ASSUME NEW r \in db', r.owner = s, Live(r)
        PROVE  r = Record(s, call[s].uuid, channel[s])
    BY <1>1, <1>2, <2>1 DEF Inv, ServerInv, RecordsOwned
  <2>2. /\ Record(s, call[s].uuid, channel[s]).uuid = call[s].uuid
        /\ Record(s, call[s].uuid, channel[s]).channel = channel[s]
    BY DEF Record
  <2> QED
    BY <1>1, <1>2, <1>6, <2>1, <2>2 DEF RecordsOwned
<1> QED
  BY <1>5, <1>7, <1>8, <1>9, <1>10, <1>11, StepOf DEF ServerInv

(* The process dies, or is started again.                                  *)
LEMMA CrashInv ==
  ASSUME Inv, NEW s \in Server, Crash(s) \/ Restart(s)
  PROVE  Inv'
<1>1. NoCall \in CallType /\ 0 \in 0..MaxChannel /\ 0 \in Asked
  BY DiscoveryAssumption DEF NoCall, CallType, Asked
<1>2. CASE Crash(s)
  <2>1. /\ pc' = [pc EXCEPT ![s] = "dead"] /\ call' = [call EXCEPT ![s] = NoCall]
        /\ scan' = [scan EXCEPT ![s] = 0] /\ free' = [free EXCEPT ![s] = {}]
        /\ listen_fd' = [listen_fd EXCEPT ![s] = FALSE]
        /\ channel' = [channel EXCEPT ![s] = 0]
        /\ sdp_reg' = [sdp_reg EXCEPT ![s] = FALSE]
        /\ acc' = [acc EXCEPT ![s] = 0]
        /\ socks' = socks \ SocksOf(s) /\ db' = Orphaned(s)
        /\ UNCHANGED <<platform, cpc, target, conn>>
    BY <1>2 DEF Crash, Leave, clientVars
  <2>2. db' \in SUBSET RecordType /\ \A r \in db' : Live(r) => r \in db /\ r.owner # s
    BY <2>1, OrphanedIs DEF Inv, TypeOK, Live
  <2>3. TypeOK'
    BY <1>1, <2>1, <2>2 DEF Inv, TypeOK, Pcs
  <2>4. /\ pc'[s] = "dead" /\ listen_fd'[s] = FALSE /\ channel'[s] = 0
        /\ sdp_reg'[s] = FALSE /\ acc'[s] = 0
    BY <2>1 DEF Inv, TypeOK
  <2>5. OnlyOf(s)
    <3>1. \A t \in Server \ {s} : UNCHANGED Own(t)
      BY <2>1 DEF Inv, TypeOK, Own
    <3> QED
      BY <2>1, <2>2, <3>1 DEF OnlyOf, SocksOf
  <2>6. OneSocketPerChannel'
    BY <2>1, FewerSockets DEF Inv
  <2>7. SocketsOwned(s)'
    <3>1. InProgress(s)' = {} /\ \A k \in socks' : k.owner # s
      BY <2>1, <2>4 DEF InProgress, SocksOf
    <3> QED
      BY <2>4, <3>1 DEF SocketsOwned, Channel
  <2>8. CallInStep(s)'
    BY <2>4 DEF CallInStep
  <2>9. RecordsOwned(s)'
    BY <2>2 DEF RecordsOwned
  <2> QED
    BY <2>3, <2>5, <2>6, <2>7, <2>8, <2>9, StepOf DEF ServerInv
<1>3. CASE Restart(s)
  <2>1. /\ pc[s] = "dead"
        /\ pc' = [pc EXCEPT ![s] = "idle"] /\ call' = [call EXCEPT ![s] = NoCall]
        /\ scan' = [scan EXCEPT ![s] = 0] /\ free' = [free EXCEPT ![s] = {}]
        /\ UNCHANGED <<listen_fd, channel, sdp_reg, platform, acc, socks, db,
                       cpc, target, conn>>
    BY <1>3 DEF Restart, Return, Leave, threadVars, clientVars
  <2>2. TypeOK'
    BY <1>1, <2>1 DEF Inv, TypeOK, Pcs
  <2>3. pc'[s] = "idle"
    BY <2>1 DEF Inv, TypeOK
  <2>4. OnlyOf(s)
    BY <2>1 DEF OnlyOf, Own, Inv, TypeOK
  <2>5. OneSocketPerChannel'
    BY <2>1, FewerSockets DEF Inv
  <2>6. SocketsOwned(s)'
    BY <2>1, <2>3, SocketsKept DEF Inv, ServerInv
  <2>7. CallInStep(s)' /\ RecordsOwned(s)'
    BY <2>1, <2>3 DEF Inv, ServerInv, CallInStep, RecordsOwned
  <2> QED
    BY <2>2, <2>4, <2>5, <2>6, <2>7, StepOf DEF ServerInv
<1> QED
  BY <1>2, <1>3

(* Server::accept in its own thread: a socket that goes away with its      *)
(* return is one the Server no longer owns.                                *)
LEMMA AcceptInv ==
  ASSUME Inv, NEW s \in Server,
         AcceptCall(s) \/ AcceptEnters(s) \/ AcceptReturns(s) \/ AcceptWoken(s)
  PROVE  Inv'
<1>1. /\ UNCHANGED <<platform, pc, call, listen_fd, channel, sdp_reg, scan, free, db,
                     cpc, target, conn>>
      /\ \E x \in {0, Entering, channel[s]} : acc' = [acc EXCEPT ![s] = x]
      /\ socks' \subseteq socks
  BY DEF AcceptCall, AcceptEnters, AcceptReturns, AcceptWoken, acceptUnchanged, clientVars
<1>2. TypeOK'
  <2>1. channel[s] \in Channel \cup {0, Woken, Entering}
    BY DEF Inv, TypeOK, Channel
  <2>2. acc' \in [Server -> Channel \cup {0, Woken, Entering}]
    BY <1>1, <2>1 DEF Inv, TypeOK
  <2> QED
    BY <1>1, <2>2 DEF Inv, TypeOK
<1>3. \A k : k.owner # s => (k \in socks' <=> k \in socks)
  BY DEF AcceptCall, AcceptEnters, AcceptReturns, AcceptWoken
<1>4. OnlyOf(s)
  BY <1>1, <1>3 DEF OnlyOf, Own, Inv, TypeOK
<1>5. OneSocketPerChannel'
  BY <1>1, FewerSockets DEF Inv
<1>6. SocketsOwned(s) /\ CallInStep(s) /\ InProgress(s)' = InProgress(s) /\ 0 \notin Channel
  BY <1>1 DEF Inv, ServerInv, InProgress, Channel
<1>7. \A k \in socks : k.owner = s /\ (k.channel = channel[s] \/ k.channel \notin Channel)
                         => k \in socks'
  BY DEF AcceptCall, AcceptEnters, AcceptReturns, AcceptWoken
<1>8. \A k \in InProgress(s) : k \in socks /\ k \in socks'
  <2> SUFFICES ASSUME NEW k \in InProgress(s) PROVE k \in socks /\ k \in socks'
    OBVIOUS
  <2>1. k \in socks /\ k.owner = s /\ k.listening = FALSE
    BY <1>6, InProgressIs DEF SocketsOwned
  <2>2. CASE AcceptReturns(s)
    <3>1. k.channel # acc[s]
      <4> SUFFICES ASSUME k.channel = acc[s] PROVE FALSE
        OBVIOUS
      <4>1. PICK l \in socks : l.listening /\ l.channel = acc[s]
        BY <1>6, <2>2 DEF AcceptReturns, SocketsOwned, ListensOn
      <4>2. k = l
        BY <2>1, <2>2, <4>1 DEF Inv, OneSocketPerChannel, AcceptReturns
      <4> QED
        BY <2>1, <4>1, <4>2
    <3> QED
      BY <2>1, <2>2, <3>1 DEF AcceptReturns
  <2>3. CASE socks' = socks
    BY <2>1, <2>3
  <2> QED
    BY <2>2, <2>3 DEF AcceptCall, AcceptEnters, AcceptWoken
<1>9. SocketsOwned(s)'
  <2>1. acc'[s] = channel[s] \/ acc'[s] \notin Channel
    <3>1. Entering \notin Channel
      BY DEF Entering, Channel
    <3> QED
      BY <1>1, <1>6, <3>1 DEF Inv, TypeOK
  <2>2. ASSUME NEW k \in socks', k.owner = s, k \notin InProgress(s)
        PROVE  k.listening /\ k.channel \in Channel /\ k.channel = channel[s]
    <3>1. k.listening /\ k.channel \in Channel /\ k.channel \in {channel[s], acc[s]}
      BY <1>1, <1>6, <2>2 DEF SocketsOwned
    <3>2. CASE AcceptReturns(s)
      BY <2>2, <3>1, <3>2 DEF AcceptReturns
    <3>3. CASE acc[s] \in {0, Woken, Entering}
      <4>1. Woken \notin Channel /\ Entering \notin Channel
        BY DEF Woken, Entering, Channel
      <4> QED
        BY <1>6, <3>1, <3>3, <4>1
    <3> QED
      BY <3>2, <3>3 DEF AcceptCall, AcceptEnters, AcceptWoken
  <2>3. channel[s] \in Channel => ListensOn(s, channel[s])
    <3>1. channel[s] \in Channel => listen_fd[s]
      BY <1>6 DEF CallInStep
    <3> QED
      BY <1>6, <3>1 DEF SocketsOwned
  <2>4. channel[s] \in Channel => \E k \in socks' : k.owner = s /\ k.listening
                                                  /\ k.channel = channel[s]
    BY <1>7, <2>3 DEF ListensOn
  <2>5. (listen_fd[s] => ListensOn(s, channel[s]))'
    <3>1. listen_fd[s] => channel[s] \in Channel
      BY <1>6 DEF CallInStep, Inv, TypeOK, Channel
    <3> QED
      BY <1>1, <2>4, <3>1 DEF ListensOn
  <2>6. (acc[s] \in Channel => ListensOn(s, acc[s]))'
    BY <1>1, <1>6, <2>1, <2>4 DEF ListensOn, Channel
  <2>7. InProgress(s)' \subseteq socks'
    BY <1>6, <1>8
  <2> QED
    BY <1>1, <1>6, <2>2, <2>5, <2>6, <2>7 DEF SocketsOwned, Channel
<1>10. \A u, l : Sock(s, u, channel[s], l) \in socks => Sock(s, u, channel[s], l) \in socks'
  <2> SUFFICES ASSUME NEW u, NEW l, Sock(s, u, channel[s], l) \in socks
               PROVE  Sock(s, u, channel[s], l) \in socks'
    OBVIOUS
  <2>1. Sock(s, u, channel[s], l).owner = s /\ Sock(s, u, channel[s], l).channel = channel[s]
    BY SockFields
  <2> QED
    BY <1>7, <2>1
<1>11. CallInStep(s)'
  <2>1. pc[s] = "dead" => acc'[s] = 0
    <3>1. pc[s] = "dead" => ~listen_fd[s] /\ acc[s] # Entering
      BY <1>6 DEF CallInStep, Entering
    <3>2. ~listen_fd[s] /\ acc[s] # Entering => acc' = [acc EXCEPT ![s] = 0]
      BY DEF AcceptCall, AcceptEnters, AcceptReturns, AcceptWoken
    <3> QED
      BY <3>1, <3>2 DEF Inv, TypeOK
  <2> QED
    BY <1>1, <1>6, <1>10, <2>1 DEF CallInStep, Channel
<1>12. RecordsOwned(s)'
  BY <1>1, <1>10 DEF Inv, ServerInv, RecordsOwned
<1> QED
  BY <1>2, <1>4, <1>5, <1>9, <1>11, <1>12, StepOf DEF ServerInv

(* The daemon drops records, and clients only look.                        *)
LEMMA OthersInv ==
  ASSUME Inv, DaemonReaps \/ DaemonRestarts \/ (\E c \in Client : ClientNext(c))
  PROVE  Inv'
<1>1. UNCHANGED <<serverVars, socks>> /\ db' \subseteq db
  BY DEF DaemonReaps, DaemonRestarts, ClientNext, ResolveChannel, Connect, ConnectFails,
     Disconnect
<1> DEFINE ClientsOK ==
             /\ cpc' \in [Client -> {"idle", "connect", "connected"}]
             /\ target' \in [Client -> SUBSET RecordType]
             /\ conn' \in [Client -> SUBSET [server : Server, uuid : Uuid \cup {NoUuid},
                                            asked : Uuid]]
<1>2. ClientsOK
  <2>1. CASE DaemonReaps \/ DaemonRestarts
    BY <2>1 DEF DaemonReaps, DaemonRestarts, clientVars, Inv, TypeOK
  <2>2. ASSUME NEW c \in Client, \E u \in Uuid : ResolveChannel(c, u) PROVE ClientsOK
    BY <2>2 DEF ResolveChannel, Inv, TypeOK
  <2>3. ASSUME NEW c \in Client, Connect(c) PROVE ClientsOK
    <3>1. PICK k \in socks, r \in target[c] :
            conn' = [conn EXCEPT ![c] = {[server |-> k.owner, uuid |-> k.uuid, asked |-> r.uuid]}]
      BY <2>3 DEF Connect
    <3>2. k \in SockType /\ r \in RecordType
      BY DEF Inv, TypeOK
    <3>3. {[server |-> k.owner, uuid |-> k.uuid, asked |-> r.uuid]}
            \in SUBSET [server : Server, uuid : Uuid \cup {NoUuid}, asked : Uuid]
      BY <3>2 DEF SockType, RecordType
    <3>4. conn' \in [Client -> SUBSET [server : Server, uuid : Uuid \cup {NoUuid}, asked : Uuid]]
      BY <3>1, <3>3 DEF Inv, TypeOK
    <3>5. cpc' \in [Client -> {"idle", "connect", "connected"}]
          /\ target' \in [Client -> SUBSET RecordType]
      BY <2>3 DEF Connect, Inv, TypeOK
    <3> QED
      BY <3>4, <3>5
  <2>4. ASSUME NEW c \in Client, ConnectFails(c) \/ Disconnect(c) PROVE ClientsOK
    BY <2>4 DEF ConnectFails, Disconnect, Inv, TypeOK
  <2> QED
    BY <2>1, <2>2, <2>3, <2>4 DEF ClientNext
<1>3. TypeOK'
  BY <1>1, <1>2 DEF serverVars, threadVars, Inv, TypeOK
<1>4. OneSocketPerChannel'
  BY <1>1, FewerSockets DEF Inv
<1>5. ASSUME NEW t \in Server PROVE ServerInv(t)'
  <2>1. UNCHANGED Own(t)
    BY <1>1 DEF serverVars, threadVars, Own
  <2> QED
    BY <1>1, <2>1, Frame DEF Inv
<1> QED
  BY <1>3, <1>4, <1>5 DEF Inv

(* Inv is inductive.                                                       *)
LEMMA NextInv == Inv /\ [Next]_vars => Inv'
<1> SUFFICES ASSUME Inv, [Next]_vars PROVE Inv'
  OBVIOUS
<1>1. ASSUME NEW s \in Server, ServerNext(s) PROVE Inv'
  <2>1. CASE ServerStep(s)
    BY <2>1, UnregisterInv, CloseFdInv, SocketCallInv, BindInv, ListenCallInv,
       ListenFailsInv, CreateInv, RegisterInv DEF ServerStep
  <2> QED
    BY <1>1, <2>1, BeginInv, CrashInv, AcceptInv DEF ServerNext
<1>2. CASE DaemonReaps \/ DaemonRestarts \/ (\E c \in Client : ClientNext(c))
  BY <1>2, OthersInv
<1>3. CASE UNCHANGED vars
  <2>1. UNCHANGED <<platform, pc, call, listen_fd, channel, sdp_reg, scan, free, acc, socks,
                    db, cpc, target, conn>>
    BY <1>3 DEF vars, serverVars, threadVars, clientVars
  <2>2. TypeOK'
    BY <2>1 DEF Inv, TypeOK
  <2>3. OneSocketPerChannel'
    BY <2>1, FewerSockets DEF Inv
  <2>4. ASSUME NEW t \in Server PROVE ServerInv(t)'
    <3>1. UNCHANGED Own(t)
      BY <2>1 DEF Own
    <3> QED
      BY <2>1, <3>1, Frame DEF Inv
  <2> QED
    BY <2>2, <2>3, <2>4 DEF Inv
<1> QED
  BY <1>1, <1>2, <1>3 DEF Next

(* The servers begin idle, with no sockets and no records.                 *)
LEMMA InitInv == Init => Inv
<1> SUFFICES ASSUME Init PROVE Inv
  OBVIOUS
<1>1. NoCall \in CallType /\ 0 \in 0..MaxChannel /\ 0 \in Asked
  BY DiscoveryAssumption DEF NoCall, CallType, Asked
<1>2. TypeOK
  BY <1>1 DEF Init, TypeOK, Pcs
<1>3. ASSUME NEW s \in Server PROVE ServerInv(s)
  <2>1. /\ pc[s] = "idle" /\ listen_fd[s] = FALSE /\ channel[s] = 0 /\ sdp_reg[s] = FALSE
        /\ acc[s] = 0 /\ socks = {} /\ db = {}
    BY DEF Init
  <2>2. InProgress(s) = {}
    BY <2>1 DEF InProgress
  <2> QED
    BY <2>1, <2>2 DEF ServerInv, SocketsOwned, CallInStep, RecordsOwned, Channel
<1>4. OneSocketPerChannel
  BY DEF Init, OneSocketPerChannel
<1> QED
  BY <1>2, <1>3, <1>4 DEF Inv

(* Inv holds in every reachable state.                                     *)
THEOREM DiscoveryInvariance == Spec => []Inv
BY InitInv, NextInv, PTL DEF Spec

-----------------------------------------------------------------------------
(* What the invariant says about the servers.                              *)

(* Every variable stays in its domain; only channels in 1..MaxChannel are  *)
(* ever published.                                                         *)
THEOREM DiscoveryTypeCorrect == Spec => []TypeOK
<1>1. Inv => TypeOK
  BY DEF Inv
<1> QED
  BY <1>1, DiscoveryInvariance, PTL

(* In every interleaving of listen, close, accept, their failures, crashes *)
(* and restarts of the daemon, a live record names a channel its process   *)
(* listens on for that service.                                            *)
THEOREM RecordsHaveListeners == Spec => []RecordHasListener
<1>1. Inv => RecordHasListener
  <2> SUFFICES ASSUME Inv, NEW r \in db, Live(r)
               PROVE  Sock(r.owner, r.uuid, r.channel, TRUE) \in socks
    BY DEF RecordHasListener
  <2>1. r.owner \in Server
    BY DEF Inv, TypeOK, RecordType
  <2>2. RecordsOwned(r.owner)
    BY <2>1 DEF Inv, ServerInv
  <2> QED
    BY <2>2, Zenon DEF RecordsOwned
<1> QED
  BY <1>1, DiscoveryInvariance, PTL

(* On Linux a record is held by its Registration, or by nobody.            *)
THEOREM HolderInvariance == Spec => []HolderInv
<1>1. Init => HolderInv
  BY DEF Init, HolderInv
<1>2. Inv /\ HolderInv /\ [Next]_vars => HolderInv'
  <2> SUFFICES ASSUME Inv, HolderInv, [Next]_vars PROVE HolderInv'
    OBVIOUS
  <2>1. platform' = platform /\ platform \in {"linux", "windows"}
    BY DiscoveryAssumption DEF Inv, TypeOK, Next, ServerNext, ServerStep, ClientNext, Listen,
       Close, Begin, Unregister, UnregisterFails, CloseFd, SocketCall, SocketCallFails, Bind,
       ListenCall, ListenCallFails, SdpConnect, Register, CreateFails, Crash, Restart,
       AcceptCall, AcceptEnters, AcceptReturns, AcceptWoken, acceptUnchanged, DaemonReaps,
       DaemonRestarts, ResolveChannel, Connect, ConnectFails, Disconnect, serverVars,
       threadVars, vars
  <2>2. CASE platform = "windows"
    BY <2>1, <2>2 DEF HolderInv
  <2>3. CASE db' \subseteq db
    BY <2>1, <2>3 DEF HolderInv
  <2>4. ASSUME NEW s \in Server, Register(s) PROVE HolderInv'
    BY <2>1, <2>4 DEF Register, Record, HolderInv
  <2>5. ASSUME NEW s \in Server, Crash(s) PROVE HolderInv'
    BY <2>1, <2>5, OrphanedIs DEF Crash, HolderInv, Inv, TypeOK
  <2>6. ASSUME platform = "linux",
               ~(db' \subseteq db), \A s \in Server : ~Register(s) /\ ~Crash(s)
        PROVE  FALSE
    BY <2>6 DEF Next, ServerNext, ServerStep, ClientNext, Listen, Close, Begin, Unregister,
       UnregisterFails, CloseFd, SocketCall, SocketCallFails, Bind, ListenCall,
       ListenCallFails, SdpConnect, CreateFails, Restart, AcceptCall, AcceptEnters,
       AcceptReturns, AcceptWoken, acceptUnchanged, DaemonReaps, DaemonRestarts,
       ResolveChannel, Connect, ConnectFails, Disconnect, vars
  <2> QED
    BY <2>1, <2>2, <2>3, <2>4, <2>5, <2>6
<1> QED
  BY <1>1, <1>2, DiscoveryInvariance, PTL DEF Spec

(* No path of listen, listen_with_sdp or close leaves a socket or a bound  *)
(* channel behind, nor, of the process that runs, a record, but for the    *)
(* one whose deletion failed on Windows.                                   *)
THEOREM CallsCleanUp == Spec => []NothingLeftBehind
<1>1. Inv /\ HolderInv => NothingLeftBehind
  <2> SUFFICES ASSUME Inv, HolderInv, NEW s \in Server, pc[s] = "idle"
               PROVE  /\ {k.channel : k \in SocksOf(s)} = {channel[s], acc[s]} \cap Channel
                      /\ \A k \in SocksOf(s) : k.listening
                      /\ listen_fd[s] <=> channel[s] # 0
                      /\ sdp_reg[s] => listen_fd[s]
                      /\ \A r \in db : r.owner = s =>
                           \/ Live(r) /\ sdp_reg[s] /\ r.channel = channel[s]
                           \/ r.holder = "none"
                           \/ r.holder = "process" /\ platform = "windows"
    BY DEF NothingLeftBehind
  <2>1. SocketsOwned(s) /\ CallInStep(s) /\ RecordsOwned(s) /\ InProgress(s) = {}
    BY DEF Inv, ServerInv, InProgress
  <2>2. \A k \in SocksOf(s) :
          k.listening /\ k.channel \in Channel /\ k.channel \in {channel[s], acc[s]}
    BY <2>1 DEF SocketsOwned, SocksOf
  <2>3. ASSUME NEW ch \in {channel[s], acc[s]} \cap Channel
        PROVE  \E k \in SocksOf(s) : k.channel = ch
    <3>1. channel[s] \in Channel => listen_fd[s]
      BY <2>1 DEF CallInStep, Channel
    <3>2. ListensOn(s, ch)
      BY <2>1, <2>3, <3>1 DEF SocketsOwned
    <3> QED
      BY <3>2 DEF ListensOn, SocksOf
  <2>4. {k.channel : k \in SocksOf(s)} = {channel[s], acc[s]} \cap Channel
    BY <2>2, <2>3
  <2>5. ASSUME NEW r \in db, r.owner = s
        PROVE  \/ Live(r) /\ sdp_reg[s] /\ r.channel = channel[s]
               \/ r.holder = "none"
               \/ r.holder = "process" /\ platform = "windows"
    <3>1. r.holder \in {"registration", "process", "none"}
      BY DEF Inv, TypeOK, RecordType
    <3> QED
      BY <2>1, <2>5, <3>1 DEF RecordsOwned, HolderInv, Live
  <2>6. (listen_fd[s] <=> channel[s] # 0) /\ (sdp_reg[s] => listen_fd[s])
    BY <2>1 DEF CallInStep
  <2> QED
    BY <2>2, <2>4, <2>5, <2>6
<1> QED
  BY <1>1, DiscoveryInvariance, HolderInvariance, PTL

-----------------------------------------------------------------------------
(* The scan of listen(0).                                                  *)

(* A step after which no scan counts on more channels, or on a bound one,  *)
(* and none has moved.                                                     *)
LEMMA ScanKept ==
  ASSUME ScanInv, platform' = platform,
         \A t \in Server :
           /\ free'[t] \subseteq free[t] /\ free'[t] \subseteq Unbound'
           /\ pc'[t] = "bind" =>
                pc[t] = "bind" /\ call'[t] = call[t] /\ scan'[t] = scan[t]
  PROVE  ScanInv'
<1> SUFFICES ASSUME NEW t \in Server
             PROVE  /\ free'[t] \subseteq Unbound'
                    /\ pc'[t] = "bind" /\ platform' = "linux" /\ call'[t].channel = 0
                         => free'[t] \subseteq scan'[t]..MaxChannel
  BY DEF ScanInv
<1> QED
  BY DEF ScanInv

(* A channel that no socket had is not bound by closing sockets, nor by    *)
(* ::listen, which changes a socket that has its channel already.          *)
LEMMA UnboundGrows ==
  ASSUME \A k \in socks' : k.channel \in Channel => \E l \in socks : l.channel = k.channel
  PROVE  Unbound \subseteq Unbound'
BY DEF Unbound, Channel

(* The steps of s that are not about binding.                              *)
LEMMA ScanServer ==
  ASSUME Inv, ScanInv, NEW s \in Server, ServerNext(s), ~SocketCall(s), ~Bind(s)
  PROVE  ScanInv'
<1>1. platform' = platform
  BY DEF ServerNext, ServerStep, Listen, Close, Begin, Unregister, UnregisterFails, CloseFd,
     SocketCallFails, ListenCall, ListenCallFails, SdpConnect, Register, CreateFails, Crash,
     Restart, AcceptCall, AcceptEnters, AcceptReturns, AcceptWoken, threadVars, acceptUnchanged
<1>2. \A t \in Server :
        /\ free'[t] \subseteq free[t]
        /\ pc'[t] = "bind" => pc[t] = "bind" /\ call'[t] = call[t] /\ scan'[t] = scan[t]
  <2>1. CASE UNCHANGED <<pc, call, scan, free>>
    BY <2>1
  <2>2. ASSUME NEW p, p # "bind", Leave(s, p)
        PROVE  \A t \in Server :
                 /\ free'[t] \subseteq free[t]
                 /\ pc'[t] = "bind" => pc[t] = "bind" /\ call'[t] = call[t] /\ scan'[t] = scan[t]
    BY <2>2 DEF Leave, Inv, TypeOK
  <2>3. ASSUME NEW p, p # "bind", pc' = [pc EXCEPT ![s] = p], NEW c,
               call' = [call EXCEPT ![s] = c], UNCHANGED <<scan, free>>
        PROVE  \A t \in Server :
                 /\ free'[t] \subseteq free[t]
                 /\ pc'[t] = "bind" => pc[t] = "bind" /\ call'[t] = call[t] /\ scan'[t] = scan[t]
    BY <2>3 DEF Inv, TypeOK
  <2>4. ASSUME NEW p, p # "bind", Goto(s, p), UNCHANGED <<scan, free>>
        PROVE  \A t \in Server :
                 /\ free'[t] \subseteq free[t]
                 /\ pc'[t] = "bind" => pc[t] = "bind" /\ call'[t] = call[t] /\ scan'[t] = scan[t]
    BY <2>4 DEF Goto, Inv, TypeOK
  <2>5. CASE (\E u \in Uuid \cup {NoUuid}, ch \in Asked : Listen(s, u, ch)) \/ Close(s)
    BY <2>3, <2>5 DEF Listen, Close, Begin
  <2>6. CASE Unregister(s) \/ UnregisterFails(s) \/ SdpConnect(s)
    BY <2>4, <2>6 DEF Unregister, UnregisterFails, SdpConnect
  <2>7. CASE CloseFd(s)
    BY <2>2, <2>4, <2>7 DEF CloseFd, Return
  <2>8. CASE SocketCallFails(s) \/ ListenCallFails(s) \/ Register(s) \/ Restart(s) \/ Crash(s)
    BY <2>2, <2>8 DEF SocketCallFails, ListenCallFails, Register, Restart, Crash, Return
  <2>9. CASE ListenCall(s)
    BY <2>2, <2>4, <2>9 DEF ListenCall, Return, BeginCreate
  <2>10. CASE CreateFails(s)
    BY <2>3, <2>10 DEF CreateFails
  <2>11. CASE AcceptCall(s) \/ AcceptEnters(s) \/ AcceptReturns(s) \/ AcceptWoken(s)
    BY <2>1, <2>11 DEF AcceptCall, AcceptEnters, AcceptReturns, AcceptWoken, acceptUnchanged
  <2> QED
    BY <2>5, <2>6, <2>7, <2>8, <2>9, <2>10, <2>11 DEF ServerNext, ServerStep
<1>3. Unbound \subseteq Unbound'
  <2>1. CASE socks' \subseteq socks
    BY <2>1, UnboundGrows
  <2>2. CASE ListenCall(s)
    <3>1. /\ InProgress(s) = {Sock(s, call[s].uuid, scan[s], FALSE)}
          /\ InProgress(s) \subseteq socks
      BY <2>2 DEF ListenCall, InProgress, Inv, ServerInv, SocketsOwned
    <3>2. /\ Sock(s, call[s].uuid, scan[s], FALSE) \in socks
          /\ Sock(s, call[s].uuid, scan[s], FALSE).channel = scan[s]
          /\ Sock(s, call[s].uuid, scan[s], TRUE).channel = scan[s]
      BY <3>1 DEF Sock
    <3>3. \A k \in socks' : k \in socks \/ k = Sock(s, call[s].uuid, scan[s], TRUE)
      BY <2>2 DEF ListenCall
    <3> QED
      BY <3>2, <3>3, UnboundGrows
  <2> QED
    BY <2>1, <2>2 DEF ServerNext, ServerStep, Listen, Close, Begin, Unregister,
       UnregisterFails, CloseFd, Closed, SocketCallFails, ListenCallFails, SdpConnect,
       Register, CreateFails, Crash, Restart, AcceptCall, AcceptEnters, AcceptReturns, AcceptWoken
<1> QED
  BY <1>1, <1>2, <1>3, ScanKept DEF ScanInv

(* socket(): the scan begins, at channel 1 when listen() has to choose.    *)
LEMMA ScanBegins ==
  ASSUME Inv, ScanInv, NEW s \in Server, SocketCall(s)
  PROVE  ScanInv'
<1>1. /\ pc' = [pc EXCEPT ![s] = "bind"] /\ UNCHANGED <<call, platform>>
      /\ socks' = socks \cup {Sock(s, call[s].uuid, 0, FALSE)}
      /\ scan' = [scan EXCEPT ![s] = FirstScan(call[s].channel)]
      /\ free' = [free EXCEPT ![s] = Unbound]
  BY DEF SocketCall, Goto, threadVars
<1>2. Unbound \subseteq Unbound'
  <2>1. Sock(s, call[s].uuid, 0, FALSE).channel = 0 /\ 0 \notin Channel
    BY DEF Sock, Channel
  <2> QED
    BY <1>1, <2>1, UnboundGrows
<1>3. ASSUME NEW t \in Server
      PROVE  /\ free'[t] \subseteq Unbound'
             /\ pc'[t] = "bind" /\ platform' = "linux" /\ call'[t].channel = 0
                  => free'[t] \subseteq scan'[t]..MaxChannel
  <2>1. CASE t = s
    <3>1. free'[t] = Unbound /\ scan'[t] = FirstScan(call[t].channel) /\ call'[t] = call[t]
      BY <1>1, <2>1 DEF Inv, TypeOK
    <3>2. call[t].channel = 0 => Unbound \subseteq FirstScan(call[t].channel)..MaxChannel
      BY DEF Unbound, FirstScan, Channel
    <3> QED
      BY <1>2, <3>1, <3>2
  <2>2. CASE t # s
    BY <1>1, <1>2, <2>2 DEF Inv, TypeOK, ScanInv
  <2> QED
    BY <2>1, <2>2
<1> QED
  BY <1>3 DEF ScanInv

(* bind(): a channel that is bound leaves every scan, and a scan only      *)
(* passes a channel that is bound.                                         *)
LEMMA ScanBinds ==
  ASSUME Inv, ScanInv, NEW s \in Server, Bind(s)
  PROVE  ScanInv'
<1>1. platform' = platform /\ pc[s] = "bind"
  BY DEF Bind, threadVars
<1>2. ASSUME NEW ch \in Unbound, BindTo(s, ch) PROVE ScanInv'
  <2>1. /\ socks' = (socks \ {Sock(s, call[s].uuid, 0, FALSE)})
                      \cup {Sock(s, call[s].uuid, ch, FALSE)}
        /\ scan' = [scan EXCEPT ![s] = ch] /\ free' = [t \in Server |-> free[t] \ {ch}]
        /\ pc' = [pc EXCEPT ![s] = "listen"] /\ UNCHANGED call
    BY <1>2 DEF BindTo, Goto
  <2>2. Sock(s, call[s].uuid, ch, FALSE).channel = ch
    BY DEF Sock
  <2>3. Unbound \ {ch} \subseteq Unbound'
    BY <2>1, <2>2 DEF Unbound, Channel
  <2>4. \A t \in Server :
          /\ free'[t] \subseteq free[t] /\ free'[t] \subseteq Unbound'
          /\ pc'[t] = "bind" => pc[t] = "bind" /\ call'[t] = call[t] /\ scan'[t] = scan[t]
    BY <2>1, <2>3 DEF ScanInv, Inv, TypeOK
  <2> QED
    BY <1>1, <2>4, ScanKept
<1>3. CASE NothingBound(s)
  <2>1. /\ socks' \subseteq socks /\ free' = [free EXCEPT ![s] = {}]
        /\ pc' = [pc EXCEPT ![s] = "idle"] /\ call' = [call EXCEPT ![s] = NoCall]
        /\ scan' = [scan EXCEPT ![s] = 0]
    BY <1>3 DEF NothingBound, Return, Leave
  <2>2. Unbound \subseteq Unbound'
    BY <2>1, UnboundGrows
  <2>3. \A t \in Server :
          /\ free'[t] \subseteq free[t] /\ free'[t] \subseteq Unbound'
          /\ pc'[t] = "bind" => pc[t] = "bind" /\ call'[t] = call[t] /\ scan'[t] = scan[t]
    BY <2>1, <2>2 DEF ScanInv, Inv, TypeOK
  <2> QED
    BY <1>1, <2>3, ScanKept
<1>4. CASE /\ scan[s] \notin Unbound /\ scan' = [scan EXCEPT ![s] = scan[s] + 1]
           /\ UNCHANGED <<pc, call, free, socks>>
  <2>1. Unbound' = Unbound
    BY <1>4 DEF Unbound
  <2>2. ASSUME NEW t \in Server
        PROVE  /\ free'[t] \subseteq Unbound'
               /\ pc'[t] = "bind" /\ platform' = "linux" /\ call'[t].channel = 0
                    => free'[t] \subseteq scan'[t]..MaxChannel
    <3>1. free[t] \subseteq Unbound
      BY DEF ScanInv
    <3>2. CASE t = s
      <4>1. scan'[t] = scan[t] + 1 /\ scan[t] \in Nat /\ free[t] \subseteq Channel
        BY <1>4, <3>2 DEF Inv, TypeOK, Asked
      <4>2. platform = "linux" /\ call[t].channel = 0
              => \A ch \in free[t] : ch \in scan[t]..MaxChannel /\ ch # scan[t]
        BY <1>1, <1>4, <3>1, <3>2 DEF ScanInv
      <4>3. platform = "linux" /\ call[t].channel = 0
              => \A ch \in free[t] : ch \in (scan[t] + 1)..MaxChannel
        BY <4>1, <4>2, DiscoveryAssumption
      <4> QED
        BY <1>1, <1>4, <2>1, <3>1, <4>1, <4>3
    <3>3. CASE t # s
      <4>1. scan'[t] = scan[t]
        BY <1>4, <3>3 DEF Inv, TypeOK
      <4> QED
        BY <1>1, <1>4, <2>1, <4>1 DEF ScanInv
    <3> QED
      BY <3>2, <3>3
  <2> QED
    BY <2>2 DEF ScanInv
<1> QED
  BY <1>2, <1>3, <1>4 DEF Bind, BindLinux, BindWindows

(* Every step keeps the scans.                                             *)
LEMMA NextScan == Inv /\ ScanInv /\ [Next]_vars => ScanInv'
<1> SUFFICES ASSUME Inv, ScanInv, [Next]_vars PROVE ScanInv'
  OBVIOUS
<1>1. ASSUME NEW s \in Server, ServerNext(s) PROVE ScanInv'
  BY <1>1, ScanServer, ScanBegins, ScanBinds
<1>2. CASE UNCHANGED <<serverVars, socks>>
  <2>1. UNCHANGED <<platform, pc, call, scan, free, socks>>
    BY <1>2 DEF serverVars, threadVars
  <2>2. Unbound' = Unbound
    BY <2>1 DEF Unbound
  <2> QED
    BY <2>1, <2>2 DEF ScanInv
<1>3. CASE DaemonReaps \/ DaemonRestarts \/ (\E c \in Client : ClientNext(c))
  BY <1>2, <1>3 DEF DaemonReaps, DaemonRestarts, ClientNext, ResolveChannel, Connect,
     ConnectFails, Disconnect
<1> QED
  BY <1>1, <1>2, <1>3 DEF Next, vars

(* No scan ever counts on a bound channel, nor on one it has passed.       *)
THEOREM ScanInvariance == Spec => []ScanInv
<1>1. Init => ScanInv
  BY DEF Init, ScanInv
<1> QED
  BY <1>1, NextScan, DiscoveryInvariance, PTL DEF Spec

(* When listen() gives up, no channel is left that its scan counted on.    *)
LEMMA GivesUpHonestly ==
  ASSUME Inv, ScanInv, [Next]_vars, NEW s \in Server,
         pc[s] = "bind", pc'[s] = "idle", platform = "linux", call[s].channel = 0
  PROVE  free[s] = {}
<1>1. pc' # pc
  BY DEF Inv, TypeOK
<1>2. PICK t \in Server : ServerNext(t)
  BY <1>1 DEF Next, vars, serverVars, DaemonReaps, DaemonRestarts, ClientNext,
     ResolveChannel, Connect, ConnectFails, Disconnect
<1>3. \E p : pc' = [pc EXCEPT ![t] = p]
  BY <1>1, <1>2 DEF ServerNext, ServerStep, Listen, Close, Begin, Unregister, UnregisterFails,
     CloseFd, SocketCall, SocketCallFails, Bind, BindLinux, BindWindows, BindTo, NothingBound,
     ListenCall, ListenCallFails, SdpConnect, Register, CreateFails, Crash, Restart,
     AcceptCall, AcceptEnters, AcceptReturns, AcceptWoken, acceptUnchanged, Return, Leave,
     Goto, BeginCreate
<1>4. t = s
  BY <1>3 DEF Inv, TypeOK
<1>5. Bind(s)
  BY <1>1, <1>2, <1>4 DEF ServerNext, ServerStep, Listen, Close, Begin, Unregister,
     UnregisterFails, CloseFd, SocketCall, SocketCallFails, ListenCall, ListenCallFails,
     SdpConnect, Register, CreateFails, Crash, Restart, AcceptCall, AcceptEnters, AcceptReturns,
     AcceptWoken, acceptUnchanged, Leave, Inv, TypeOK
<1>6. scan[s] \notin Unbound /\ scan[s] = MaxChannel
  BY <1>1, <1>5 DEF Bind, BindLinux, BindTo, Goto, Inv, TypeOK
<1>7. free[s] \subseteq Unbound /\ free[s] \subseteq scan[s]..MaxChannel
  BY DEF ScanInv
<1> QED
  BY <1>6, <1>7, DiscoveryAssumption

(* listen(0) on Linux fails only if every channel was taken at some time   *)
(* of its scan, whatever the other processes bind and close meanwhile.     *)
THEOREM ScanIsExhaustive == Spec => ScanMissesNoFreeChannel
<1>1. Inv /\ ScanInv /\ [Next]_vars =>
        [\A s \in Server :
           /\ pc[s] = "bind" /\ pc'[s] = "idle"
           /\ platform = "linux" /\ call[s].channel = 0
           => free[s] = {}]_vars
  BY GivesUpHonestly
<1> QED
  BY <1>1, DiscoveryInvariance, ScanInvariance, PTL DEF Spec, ScanMissesNoFreeChannel

-----------------------------------------------------------------------------
(* The clients.                                                            *)

(* A client keeps one record from resolve_channel to connect.              *)
THEOREM TargetInvariance == Spec => []TargetInv
<1>1. Init => TargetInv
  BY DEF Init, TargetInv
<1>2. Inv /\ TargetInv /\ [Next]_vars => TargetInv'
  <2> SUFFICES ASSUME Inv, TargetInv, [Next]_vars PROVE TargetInv'
    OBVIOUS
  <2>1. CASE UNCHANGED target
    BY <2>1 DEF TargetInv
  <2>2. ASSUME NEW c \in Client, NEW T, \A q, r \in T : q = r,
               target' = [target EXCEPT ![c] = T]
        PROVE  TargetInv'
    BY <2>2 DEF TargetInv, Inv, TypeOK
  <2>3. ASSUME NEW c \in Client, ClientNext(c) PROVE TargetInv'
    <3>1. CASE \E r \in db : target' = [target EXCEPT ![c] = {r}]
      <4>1. PICK r \in db : target' = [target EXCEPT ![c] = {r}]
        BY <3>1
      <4>2. \A x, y \in {r} : x = y
        OBVIOUS
      <4> QED
        BY <2>2, <4>1, <4>2
    <3>2. CASE target' = [target EXCEPT ![c] = {}]
      <4>1. \A x, y \in {} : x = y
        OBVIOUS
      <4> QED
        BY <2>2, <3>2, <4>1
    <3>3. \/ \E r \in db : target' = [target EXCEPT ![c] = {r}]
          \/ target' = [target EXCEPT ![c] = {}]
          \/ UNCHANGED target
      BY <2>3 DEF ClientNext, ResolveChannel, Connect, ConnectFails, Disconnect
    <3> QED
      BY <2>1, <3>1, <3>2, <3>3
  <2>4. ASSUME NEW s \in Server, ServerNext(s) PROVE UNCHANGED target
    BY <2>4 DEF ServerNext, ServerStep, Listen, Close, Begin, Unregister, UnregisterFails,
       CloseFd, SocketCall, SocketCallFails, Bind, ListenCall, ListenCallFails, SdpConnect,
       Register, CreateFails, Crash, Restart, AcceptCall, AcceptEnters, AcceptReturns, AcceptWoken,
       acceptUnchanged, clientVars
  <2> QED
    BY <2>1, <2>3, <2>4 DEF Next, DaemonReaps, DaemonRestarts, vars, clientVars
<1> QED
  BY <1>1, <1>2, DiscoveryInvariance, PTL DEF Spec

(* The connection of a client whose record is still live reaches its owner.*)
LEMMA ConnectReachesOwner ==
  ASSUME Inv, TargetInv, [Next]_vars, NEW c \in Client, NEW r \in db,
         cpc[c] = "connect", cpc'[c] = "connected", r \in target[c], Live(r)
  PROVE  conn'[c] = {[server |-> r.owner, uuid |-> r.uuid, asked |-> r.uuid]}
<1>1. cpc' # cpc
  BY DEF Inv, TypeOK
<1>2. ASSUME NEW s \in Server, ServerNext(s) PROVE UNCHANGED cpc
  BY <1>2 DEF ServerNext, ServerStep, Listen, Close, Begin, Unregister, UnregisterFails,
     CloseFd, SocketCall, SocketCallFails, Bind, ListenCall, ListenCallFails, SdpConnect,
     Register, CreateFails, Crash, Restart, AcceptCall, AcceptEnters, AcceptReturns, AcceptWoken,
     acceptUnchanged, clientVars
<1>3. PICK d \in Client : ClientNext(d)
  BY <1>1, <1>2 DEF Next, DaemonReaps, DaemonRestarts, vars, clientVars
<1>4. Connect(c)
  BY <1>1, <1>3 DEF ClientNext, ResolveChannel, Connect, ConnectFails, Disconnect, Inv, TypeOK
<1>5. PICK k \in socks, q \in target[c] :
        /\ k.listening /\ k.channel = q.channel
        /\ conn' = [conn EXCEPT ![c] = {[server |-> k.owner, uuid |-> k.uuid, asked |-> q.uuid]}]
  BY <1>4 DEF Connect
<1>6. q = r
  BY DEF TargetInv
<1>7. Sock(r.owner, r.uuid, r.channel, TRUE) \in socks
  <2>1. r.owner \in Server
    BY DEF Inv, TypeOK, RecordType
  <2> QED
    BY <2>1, Zenon DEF Inv, ServerInv, RecordsOwned
<1>8. /\ Sock(r.owner, r.uuid, r.channel, TRUE).channel = r.channel
      /\ Sock(r.owner, r.uuid, r.channel, TRUE).owner = r.owner
      /\ Sock(r.owner, r.uuid, r.channel, TRUE).uuid = r.uuid
  BY DEF Sock
<1>9. r.channel \in Channel
  BY DEF Inv, TypeOK, RecordType
<1>10. k = Sock(r.owner, r.uuid, r.channel, TRUE)
  BY <1>5, <1>6, <1>7, <1>8, <1>9 DEF Inv, OneSocketPerChannel
<1>11. conn'[c] = {[server |-> k.owner, uuid |-> k.uuid, asked |-> q.uuid]}
  BY <1>5 DEF Inv, TypeOK
<1> QED
  BY <1>6, <1>8, <1>10, <1>11

(* A client whose record is still published by a running process when it   *)
(* connects reaches that process, on the service asked for.                *)
THEOREM FreshRecordsReachOwners == Spec => FreshRecordReachesOwner
<1>1. Inv /\ TargetInv /\ [Next]_vars =>
        [\A c \in Client, r \in db :
           /\ cpc[c] = "connect" /\ cpc'[c] = "connected"
           /\ r \in target[c] /\ Live(r)
           => conn'[c] = {[server |-> r.owner, uuid |-> r.uuid, asked |-> r.uuid]}]_vars
  BY ConnectReachesOwner
<1> QED
  BY <1>1, DiscoveryInvariance, TargetInvariance, PTL DEF Spec, FreshRecordReachesOwner
=============================================================================
