----------------------------- MODULE EchoBench -----------------------------
(***************************************************************************)
(* examples/client_bench.cpp against examples/server_bench.cpp: the client *)
(* sends chunks with Socket::send_all and, with --echo, waits for each one *)
(* to come back with Socket::recv_all; the server receives what is there   *)
(* and, with its own --echo, sends it back before it receives again.       *)
(*                                                                         *)
(* Neither program looks at the data, so a direction of the connection is  *)
(* the number of bytes in it, at most Cap (the send buffer of one end and  *)
(* the receive buffer of the other).  A turn of send_all, recv_all or the  *)
(* server's loop is a step; a thread with no step waits in a system call.  *)
(* The client's socket has the timeouts that Client::connect left on it,   *)
(* the server's has none.                                                  *)
(***************************************************************************)
EXTENDS Integers

CONSTANTS
  Chunk,      \* chunk_bytes
  Total,      \* total_bytes_to_send
  SBuf,       \* the server's buffer (32 KB)
  Cap         \* bytes the kernels hold for one direction (512 KB buffers)

ASSUME BenchAssumption ==
  /\ Chunk \in Nat \ {0} /\ Total \in Nat \ {0}
  /\ SBuf \in Nat \ {0} /\ Cap \in Nat \ {0}

VARIABLES
  client_echo,  \* client_bench was given --echo
  server_echo,  \* server_bench was given --echo
  conn,         \* "up", "closed" (by the client), "lost", or "none" yet
  c2s, s2c,     \* bytes in either direction
  cpc,          \* the client: "idle", in "send" (send_all), "recv" (recv_all),
                \* or about to "close"
  current,      \* current_chunk
  done,         \* total_sent of send_all, then total_recvd of recv_all
  total_sent,   \* the client's
  failed,       \* it left its loop with an error
  spc,          \* the server: "accept", "recv", or "send" (send_all)
  pending,      \* bytes its send_all has yet to send
  total_bytes   \* the server's

vars == <<client_echo, server_echo, conn, c2s, s2c, cpc, current, done,
          total_sent, failed, spc, pending, total_bytes>>

clientVars == <<client_echo, cpc, current, done, total_sent, failed>>
serverVars == <<server_echo, spc, pending, total_bytes>>

Init ==
  /\ client_echo = FALSE /\ server_echo \in BOOLEAN
  /\ conn = "none" /\ c2s = 0 /\ s2c = 0
  /\ cpc = "idle" /\ current = 0 /\ done = 0 /\ total_sent = 0 /\ failed = FALSE
  /\ spc = "accept" /\ pending = 0 /\ total_bytes = 0

-----------------------------------------------------------------------------
(* The client.                                                             *)

(* Faulty: the chunk size does not limit a send.                           *)
BugSendsAllAtOnce(t) == Total - t

(* current_chunk when t bytes have been sent.                              *)
CurrentChunk(t) == IF Chunk <= Total - t THEN Chunk ELSE Total - t

(* A client is started and accepted, once the last connection is done with.*)
ClientStarts ==
  /\ cpc = "idle" /\ spc = "accept"
  /\ client_echo' \in BOOLEAN
  /\ conn' = "up" /\ c2s' = 0 /\ s2c' = 0
  /\ cpc' = "send" /\ current' = CurrentChunk(0) /\ done' = 0
  /\ total_sent' = 0 /\ failed' = FALSE
  /\ spc' = "recv" /\ pending' = 0 /\ total_bytes' = 0
  /\ UNCHANGED server_echo

(* The head of the benchmark loop, with t bytes sent.                      *)
NextChunk(t) ==
  /\ cpc' = IF t < Total THEN "send" ELSE "close"
  /\ current' = CurrentChunk(t)
  /\ done' = 0

(* send_all: n more bytes go; after the last of them, recv_all is next or  *)
(* the next chunk.                                                         *)
ClientSend(n) ==
  /\ cpc = "send" /\ conn = "up"
  /\ n <= current - done /\ c2s + n <= Cap
  /\ c2s' = c2s + n
  /\ \/ /\ done + n < current
        /\ done' = done + n
        /\ UNCHANGED <<cpc, current, total_sent>>
     \/ /\ done + n = current
        /\ total_sent' = total_sent + current
        /\ IF client_echo THEN cpc' = "recv" /\ done' = 0 /\ UNCHANGED current
                          ELSE NextChunk(total_sent + current)
  /\ UNCHANGED <<client_echo, failed, conn, s2c, serverVars>>

(* The loop is left; what follows is sock->close().                        *)
ClientBreaks ==
  /\ failed' = TRUE
  /\ cpc' = "close"
  /\ UNCHANGED <<client_echo, current, done, total_sent, conn, c2s, s2c, serverVars>>

(* Faulty: send_all goes on when send has timed out.                       *)
BugIgnoresTimeout == cpc = "send" /\ conn # "up" /\ ClientBreaks

(* send returns -1: the connection is gone, or SO_SNDTIMEO has passed.     *)
ClientSendFails ==
  /\ cpc = "send"
  /\ conn # "up" \/ c2s = Cap
  /\ ClientBreaks

(* Faulty: one recv is taken for the whole chunk.                          *)
BugRecvsSome(n) ==
  /\ cpc = "recv" /\ n <= s2c /\ n <= current - done
  /\ s2c' = s2c - n
  /\ NextChunk(total_sent)
  /\ UNCHANGED <<client_echo, total_sent, failed, conn, c2s, serverVars>>

(* recv_all: n more bytes come.                                            *)
ClientRecv(n) ==
  /\ cpc = "recv" /\ n <= s2c /\ n <= current - done
  /\ s2c' = s2c - n
  /\ \/ done + n < current /\ done' = done + n /\ UNCHANGED <<cpc, current>>
     \/ done + n = current /\ NextChunk(total_sent)
  /\ UNCHANGED <<client_echo, total_sent, failed, conn, c2s, serverVars>>

(* recv returns 0 or -1: the connection is gone or SO_RCVTIMEO has passed. *)
ClientRecvFails ==
  /\ cpc = "recv" /\ s2c = 0
  /\ ClientBreaks

(* Bytes that the server's kernel does not have yet may be lost.           *)
ClientCloses ==
  /\ cpc = "close"
  /\ cpc' = "idle"
  /\ conn' = IF conn = "up" THEN "closed" ELSE conn
  /\ c2s' \in 0..c2s /\ s2c' = 0
  /\ UNCHANGED <<client_echo, current, done, total_sent, failed, serverVars>>

-----------------------------------------------------------------------------
(* The server.                                                             *)

(* Faulty: what it receives while it echoes is not echoed.                 *)
BugEchoesLess(n) ==
  /\ spc = "recv" /\ n <= c2s /\ n <= SBuf
  /\ c2s' = c2s - n
  /\ total_bytes' = total_bytes + n
  /\ IF server_echo /\ n > 1 THEN spc' = "send" /\ pending' = n - 1
                             ELSE UNCHANGED <<spc, pending>>
  /\ UNCHANGED <<server_echo, conn, s2c, clientVars>>

ServerRecv(n) ==
  /\ spc = "recv" /\ n <= c2s /\ n <= SBuf
  /\ c2s' = c2s - n
  /\ total_bytes' = total_bytes + n
  /\ IF server_echo THEN spc' = "send" /\ pending' = n
                    ELSE UNCHANGED <<spc, pending>>
  /\ UNCHANGED <<server_echo, conn, s2c, clientVars>>

ServerSend(n) ==
  /\ spc = "send" /\ conn = "up"
  /\ n <= pending /\ s2c + n <= Cap
  /\ s2c' = s2c + n
  /\ pending' = pending - n
  /\ spc' = IF n = pending THEN "recv" ELSE "send"
  /\ UNCHANGED <<server_echo, total_bytes, conn, c2s, clientVars>>

(* recv or send_all fails: the inner loop ends, the Socket is destroyed    *)
(* and the server accepts the next client.                                 *)
ServerFails ==
  /\ conn # "up"
  /\ \/ spc = "recv" /\ c2s = 0
     \/ spc = "send"
  /\ spc' = "accept" /\ pending' = 0
  /\ UNCHANGED <<server_echo, total_bytes, conn, c2s, s2c, clientVars>>

-----------------------------------------------------------------------------
(* The radio link dies, and takes what had not arrived with it.            *)
LinkLoss ==
  /\ conn = "up"
  /\ conn' = "lost"
  /\ c2s' \in 0..c2s /\ s2c' \in 0..s2c
  /\ UNCHANGED <<clientVars, serverVars>>

ClientNext ==
  \/ \E n \in 1..Cap : ClientSend(n) \/ ClientRecv(n)
  \/ ClientSendFails \/ ClientRecvFails \/ ClientCloses

ServerNext ==
  \/ \E n \in 1..Cap : ServerRecv(n) \/ ServerSend(n)
  \/ ServerFails

Next == ClientStarts \/ ClientNext \/ ServerNext \/ LinkLoss

Spec == Init /\ [][Next]_vars

(* Both programs run when they can, and a system call that can return does.*)
FairSpec == Spec /\ WF_vars(ClientNext) /\ WF_vars(ServerNext)
-----------------------------------------------------------------------------
(* Properties.                                                             *)

(* Every variable stays in its domain; no direction holds more than Cap.   *)
TypeOK ==
  /\ client_echo \in BOOLEAN /\ server_echo \in BOOLEAN /\ failed \in BOOLEAN
  /\ conn \in {"none", "up", "closed", "lost"}
  /\ c2s \in 0..Cap /\ s2c \in 0..Cap
  /\ cpc \in {"idle", "send", "recv", "close"}
  /\ spc \in {"accept", "recv", "send"}
  /\ current \in 0..Chunk /\ done \in 0..Chunk /\ pending \in 0..SBuf
  /\ total_sent \in 0..Total /\ total_bytes \in 0..Total

(* The bytes of the current chunk that have not come back to the client.   *)
Outstanding ==
  CASE cpc = "send" -> done
    [] cpc = "recv" -> current - done
    [] OTHER -> 0

(* With --echo at both ends, every byte sent of the current chunk and not  *)
(* yet returned is in one of the directions or in the server's hands: no   *)
(* byte is lost or doubled by the partial sends and receives.              *)
EchoAccounting ==
  client_echo /\ server_echo /\ conn = "up" /\ ~failed =>
    Outstanding = c2s + pending + s2c

(* "round-trip acknowledgement": when the client takes the time of a chunk *)
(* and goes on, the server has counted all that the client has.            *)
RoundTripAcknowledged ==
  /\ client_echo /\ server_echo /\ conn = "up" /\ ~failed
  /\ (cpc = "send" /\ done = 0) \/ cpc = "close"
  => total_bytes = total_sent /\ c2s = 0 /\ s2c = 0

(* The client waits to send to a server that waits to send to it.          *)
MutualBlock == cpc = "send" /\ c2s = Cap /\ spc = "send" /\ s2c = Cap

(* Neither program reads while it writes.  They block each other only if   *)
(* the server echoes to a client that does not listen, or if a chunk is    *)
(* too big for the two directions and one byte in the server's hands.      *)
NoMutualBlock ==
  conn = "up" /\ MutualBlock => (server_echo /\ ~client_echo) \/ Chunk > 2 * Cap + 1

(* Whatever --echo flags the two were given, a session ends and the server *)
(* accepts again; if they block each other, the client's timeouts end it.  *)
SessionEnds == (spc # "accept") ~> (spc = "accept")
=============================================================================
