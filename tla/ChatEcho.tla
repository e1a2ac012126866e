------------------------------ MODULE ChatEcho ------------------------------
(***************************************************************************)
(* The two threads of examples/chat_echo.cpp on one rfcomm::Socket: the    *)
(* main thread sends what the user types and closes the socket at the end, *)
(* the reader prints what arrives.  They share `running' (atomic) and the  *)
(* Socket, whose Impl::handle is not atomic: Socket::close writes it while *)
(* Socket::recv may be between is_open() and ::recv, or inside ::recv.     *)
(* A thread's step is the access to shared state that its pc names.        *)
(***************************************************************************)
EXTENDS Integers

CONSTANTS
  Modes,      \* the command lines: "server": the socket is Server::accept's;
              \* "client": Client::connect's, which keeps connect's timeouts
  Platforms,  \* the builds: "linux", "windows"
  MaxInbox    \* bound: messages waiting in the kernel

ASSUME ChatAssumption ==
  /\ Modes \subseteq {"server", "client"}
  /\ Platforms \subseteq {"linux", "windows"}
  /\ MaxInbox \in Nat

VARIABLES
  mode, platform,   \* how the program was started, and built
  running,    \* the atomic flag
  handle,     \* Impl::handle is valid
  fd,         \* the kernel's descriptor is open
  inbox,      \* messages received by the kernel
  peer,       \* "connected" or "gone"
  main,       \* where the main thread is
  quit,       \* the user has typed quit
  reader,     \* where the reader is
  reported,   \* "[Peer disconnected]" was printed
  timedout    \* history: a ::recv has returned because of SO_RCVTIMEO

build == <<mode, platform>>
vars == <<build, running, handle, fd, inbox, peer, main, quit, reader, reported,
          timedout>>

(* SO_RCVTIMEO and SO_SNDTIMEO as Client::connect leaves them.             *)
HasTimeout == mode = "client"

(* closesocket() aborts a pending recv; close() does not: ::recv keeps its *)
(* reference to the open file.                                             *)
CloseWakesRecv == platform = "windows"

Init ==
  /\ mode \in Modes /\ platform \in Platforms
  /\ running = TRUE /\ handle = TRUE /\ fd = TRUE
  /\ inbox = 0 /\ peer = "connected"
  /\ main = "loop" /\ quit = FALSE
  /\ reader = "loop" /\ reported = FALSE /\ timedout = FALSE

-----------------------------------------------------------------------------
(* The reader.                                                             *)

ReaderLoop ==
  /\ reader = "loop"
  /\ reader' = IF running THEN "is_open" ELSE "done"
  /\ UNCHANGED <<build, running, handle, fd, inbox, peer, main, quit, reported, timedout>>

(* Socket::recv: is_open(), then ::recv with the handle read again.        *)
ReaderIsOpen ==
  /\ reader = "is_open"
  /\ reader' = IF handle THEN "call" ELSE "failed"
  /\ UNCHANGED <<build, running, handle, fd, inbox, peer, main, quit, reported, timedout>>

ReaderCalls ==
  /\ reader = "call"
  /\ reader' = IF fd THEN "recv" ELSE "failed"      \* EBADF
  /\ UNCHANGED <<build, running, handle, fd, inbox, peer, main, quit, reported, timedout>>

(* Faulty: an empty receive is taken for a message.                        *)
BugRecvOfNothing ==
  /\ reader = "recv"
  /\ inbox' = inbox - 1
  /\ reader' = "loop"
  /\ UNCHANGED <<build, running, handle, fd, peer, main, quit, reported, timedout>>

ReaderRecv ==
  /\ reader = "recv"
  /\ inbox > 0
  /\ inbox' = inbox - 1
  /\ reader' = "loop"
  /\ UNCHANGED <<build, running, handle, fd, peer, main, quit, reported, timedout>>

(* The peer is gone, or the main thread's close aborts ::recv.             *)
ReaderRecvFails ==
  /\ reader = "recv"
  /\ (inbox = 0 /\ peer = "gone") \/ (~fd /\ CloseWakesRecv)
  /\ reader' = "failed"
  /\ UNCHANGED <<build, running, handle, fd, inbox, peer, main, quit, reported, timedout>>

(* Nothing has arrived for as long as connect() was allowed to take.       *)
ReaderTimesOut ==
  /\ reader = "recv"
  /\ inbox = 0 /\ HasTimeout
  /\ timedout' = TRUE
  /\ reader' = "failed"
  /\ UNCHANGED <<build, running, handle, fd, inbox, peer, main, quit, reported>>

ReaderFailed ==
  /\ reader = "failed"
  /\ reader' = IF running THEN "report" ELSE "done"
  /\ UNCHANGED <<build, running, handle, fd, inbox, peer, main, quit, reported, timedout>>

ReaderReports ==
  /\ reader = "report"
  /\ reported' = TRUE
  /\ running' = FALSE
  /\ reader' = "done"
  /\ UNCHANGED <<build, handle, fd, inbox, peer, main, quit, timedout>>

ReaderNext ==
  \/ ReaderLoop \/ ReaderIsOpen \/ ReaderCalls \/ ReaderRecv
  \/ ReaderRecvFails \/ ReaderTimesOut \/ ReaderFailed \/ ReaderReports

-----------------------------------------------------------------------------
(* The main thread.                                                        *)

MainLoop ==
  /\ main = "loop"
  /\ main' = IF running THEN "getline" ELSE "stop"
  /\ UNCHANGED <<build, running, handle, fd, inbox, peer, quit, reader, reported, timedout>>

(* The user types a line, quit, or the end of the input.                   *)
UserTypes(line) ==
  /\ main = "getline"
  /\ main' = IF line = "text" THEN "send" ELSE "stop"
  /\ quit' = (line = "quit")
  /\ running' = (running /\ line # "quit")
  /\ UNCHANGED <<build, handle, fd, inbox, peer, reader, reported, timedout>>

MainSend ==
  /\ main = "send"
  /\ \/ main' = "loop"
     \/ main' = "stop" /\ (peer = "gone" \/ HasTimeout)   \* [Send failed]
  /\ UNCHANGED <<build, running, handle, fd, inbox, peer, quit, reader, reported, timedout>>

(* Faulty: the flag is left to be cleared after the socket is closed.      *)
BugClosesBeforeStop ==
  /\ main = "stop"
  /\ main' = "close"
  /\ UNCHANGED <<build, running, handle, fd, inbox, peer, quit, reader, reported, timedout>>

MainStops ==
  /\ main = "stop"
  /\ running' = FALSE
  /\ main' = "close"
  /\ UNCHANGED <<build, handle, fd, inbox, peer, quit, reader, reported, timedout>>

(* Faulty: the handle is only marked invalid.                              *)
BugOnlyForgetsHandle ==
  /\ main = "close"
  /\ main' = "reset"
  /\ UNCHANGED <<build, running, handle, fd, inbox, peer, quit, reader, reported, timedout>>

(* Socket::close: close_socket_handle(handle), then handle = INVALID.      *)
MainCloses ==
  /\ main = "close"
  /\ fd' = FALSE
  /\ main' = "reset"
  /\ UNCHANGED <<build, running, handle, inbox, peer, quit, reader, reported, timedout>>

MainResetsHandle ==
  /\ main = "reset"
  /\ handle' = FALSE
  /\ main' = "join"
  /\ UNCHANGED <<build, running, fd, inbox, peer, quit, reader, reported, timedout>>

(* Faulty: the program does not wait for the reader.                       *)
BugDetaches ==
  /\ main = "join"
  /\ main' = "exit"
  /\ UNCHANGED <<build, running, handle, fd, inbox, peer, quit, reader, reported, timedout>>

MainJoins ==
  /\ main = "join"
  /\ reader = "done"
  /\ main' = "exit"
  /\ UNCHANGED <<build, running, handle, fd, inbox, peer, quit, reader, reported, timedout>>

MainNext ==
  \/ MainLoop \/ MainSend \/ MainStops \/ MainCloses \/ MainResetsHandle
  \/ MainJoins

-----------------------------------------------------------------------------
(* The peer.                                                               *)

PeerSends ==
  /\ peer = "connected" /\ inbox < MaxInbox
  /\ inbox' = inbox + 1
  /\ UNCHANGED <<build, running, handle, fd, peer, main, quit, reader, reported, timedout>>

PeerDisconnects ==
  /\ peer = "connected"
  /\ peer' = "gone"
  /\ UNCHANGED <<build, running, handle, fd, inbox, main, quit, reader, reported, timedout>>

Next ==
  \/ ReaderNext
  \/ MainNext
  \/ \E line \in {"text", "quit", "eof"} : UserTypes(line)
  \/ PeerSends \/ PeerDisconnects

Spec == Init /\ [][Next]_vars

(* A send returns without the peer's help.                                 *)
SendReturns == HasTimeout \/ peer = "gone"

(* Both threads run when they can; ::recv returns when it has something    *)
(* to return.  Nothing is assumed of the user and the peer: on a server's  *)
(* socket, which has no timeouts, a send may wait for the peer for ever.   *)
FairSpec ==
  /\ Spec
  /\ WF_vars(ReaderNext)
  /\ WF_vars(MainNext /\ (main = "send" => SendReturns))
-----------------------------------------------------------------------------
(* Properties.                                                             *)

(* Every variable stays in its domain.                                     *)
TypeOK ==
  /\ mode \in Modes /\ platform \in Platforms
  /\ running \in BOOLEAN /\ handle \in BOOLEAN /\ fd \in BOOLEAN
  /\ inbox \in 0..MaxInbox /\ peer \in {"connected", "gone"}
  /\ main \in {"loop", "getline", "send", "stop", "close", "reset", "join", "exit"}
  /\ quit \in BOOLEAN
  /\ reader \in {"loop", "is_open", "call", "recv", "failed", "report", "done"}
  /\ reported \in BOOLEAN /\ timedout \in BOOLEAN

(* "[Peer disconnected]" is printed only if the peer has disconnected and  *)
(* all the messages it had sent are printed, or if a receive has timed     *)
(* out: never because of the main thread's own close, whenever that comes. *)
ReportIsTrue == reported => (peer = "gone" /\ inbox = 0) \/ timedout

(* When the program exits, and destroys the Socket and the flag, the       *)
(* reader is done with them; and no descriptor is left open.               *)
ExitIsClean == main = "exit" => reader = "done" /\ ~fd

(* Typing quit ends the program, if closing the socket wakes the reader,   *)
(* its receive times out or the peer goes; else main may wait in join for  *)
(* a reader that waits for the peer.                                       *)
QuitExitsIfWoken ==
  (quit /\ (CloseWakesRecv \/ HasTimeout \/ peer = "gone")) ~> main = "exit"
=============================================================================
