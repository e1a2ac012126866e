----------------------------- MODULE RfcommLink -----------------------------
(***************************************************************************)
(* One rfcomm::Socket object and the kernel connection behind its handle.  *)
(*                                                                         *)
(* The program's part is the primitives of src/src/socket.cpp: from_native,*)
(* recv, set_timeouts, set_blocking, close.  They are action fragments: a  *)
(* caller (SerialPort) conjoins them with what it does to its own state.   *)
(*                                                                         *)
(* The operating system's part is external: a receive queue filled by the  *)
(* peer, and the outcomes that ::recv may have on it.  One blocking ::recv *)
(* is one step, taken when it returns; everything that happens before that *)
(* (data, EOF, link loss) is interleaved with it.                          *)
(***************************************************************************)
EXTENDS Integers, Sequences

CONSTANTS
  Byte,       \* the bytes a peer may send
  MaxSent     \* bound: bytes the peer sends on one connection

ASSUME MaxSentAssumption == MaxSent \in Nat

VARIABLES
  handle,     \* Impl::handle: "open", or "invalid" (INVALID_SOCKET_HANDLE)
  blocking,   \* O_NONBLOCK is clear
  rcvtimeo,   \* SO_RCVTIMEO
  sndtimeo,   \* SO_SNDTIMEO
  link,       \* "up"; "eof": the peer disconnected; "lost": the radio link
              \* died; "none": no connection
  krx,        \* the kernel's receive queue
  sent        \* history: every byte the peer has sent on this connection

linkVars == <<handle, blocking, rcvtimeo, sndtimeo, link, krx, sent>>

(* A timeout of 0 ms means "wait forever" to the kernel; all the positive  *)
(* values behave alike except for when they fire.                          *)
Timeout == {"forever", "finite"}

Take(s, n) == SubSeq(s, 1, n)
Drop(s, n) == SubSeq(s, n + 1, Len(s))

LinkTypeOK ==
  /\ handle \in {"open", "invalid"}
  /\ blocking \in BOOLEAN
  /\ rcvtimeo \in Timeout /\ sndtimeo \in Timeout
  /\ link \in {"up", "eof", "lost", "none"}
  /\ krx \in Seq(Byte)
  /\ sent \in Seq(Byte)

-----------------------------------------------------------------------------
(* Socket's primitives.                                                    *)

(* recv(buffer), buffer.size() = size, returning n > 0: the bytes are the  *)
(* head of the queue.  The kernel may hand over fewer than it has.         *)
RecvData(size, n) ==
  /\ handle = "open"
  /\ n \in 1..size
  /\ n <= Len(krx)
  /\ krx' = Drop(krx, n)

(* recv(buffer) returning 0 or -1: nothing queued, and the peer is gone,   *)
(* or the socket does not wait, or it has waited for SO_RCVTIMEO.          *)
RecvFails ==
  /\ handle = "open"
  /\ krx = << >>
  /\ link # "up" \/ ~blocking \/ rcvtimeo = "finite"

(* A faulty version of the next definition, for the properties to notice.  *)
BugSwapsTimeouts(snd, rcv) ==
  IF handle = "open"
    THEN sndtimeo' = rcv /\ rcvtimeo' = snd
    ELSE UNCHANGED <<sndtimeo, rcvtimeo>>

(* set_timeouts(send_timeout, recv_timeout): in this order.                *)
SocketSetTimeouts(snd, rcv) ==
  IF handle = "open"
    THEN sndtimeo' = snd /\ rcvtimeo' = rcv
    ELSE UNCHANGED <<sndtimeo, rcvtimeo>>

SocketSetBlocking(b) ==
  IF handle = "open" THEN blocking' = b ELSE UNCHANGED blocking

(* A faulty version of the next definition.                                *)
BugHandleKept ==
  /\ link' = "none" /\ krx' = << >>
  /\ blocking' = TRUE /\ rcvtimeo' = "forever" /\ sndtimeo' = "forever"
  /\ UNCHANGED handle

(* close() and ~Impl(): the kernel connection, its options and what is     *)
(* still queued in it go away with the handle.                             *)
SocketClose ==
  /\ handle' = "invalid"
  /\ link' = "none" /\ krx' = << >>
  /\ blocking' = TRUE /\ rcvtimeo' = "forever" /\ sndtimeo' = "forever"

(* A Socket made by from_native for a connection that was just set up.     *)
FromNative ==
  /\ handle' = "open"
  /\ blocking' = TRUE
  /\ link' = "up"
  /\ krx' = << >>
  /\ sent' = << >>

-----------------------------------------------------------------------------
(* The peer and the radio link.                                            *)

PeerSend(b) ==
  /\ link = "up"
  /\ Len(sent) < MaxSent
  /\ krx' = Append(krx, b)
  /\ sent' = Append(sent, b)
  /\ UNCHANGED <<handle, blocking, rcvtimeo, sndtimeo, link>>

PeerDisconnects ==
  /\ link = "up"
  /\ link' = "eof"
  /\ UNCHANGED <<handle, blocking, rcvtimeo, sndtimeo, krx, sent>>

LinkLoss ==
  /\ link = "up"
  /\ link' = "lost"
  /\ UNCHANGED <<handle, blocking, rcvtimeo, sndtimeo, krx, sent>>

PeerNext ==
  \/ \E b \in Byte : PeerSend(b)
  \/ PeerDisconnects
  \/ LinkLoss
=============================================================================
