----------------------------- MODULE SerialPort -----------------------------
(***************************************************************************)
(* rfcomm::SerialPort (src/src/serial_port.cpp): the receive cache, the    *)
(* calls that read through it, and the life cycle of the port.             *)
(*                                                                         *)
(* One application thread owns the port.  A call runs without interruption *)
(* up to the ::recv it blocks in: that part is the action named after the  *)
(* call.  While it is blocked, op names the call and the peer goes on; the *)
(* return of ::recv and the rest of the call up to the next ::recv is the  *)
(* action <Call>Recv (data) or <Call>RecvFails (0 or -1).                  *)
(***************************************************************************)
EXTENDS RfcommLink

CONSTANTS
  Delim,        \* read_line's delimiter
  CR,           \* '\r'
  Chunk,        \* size of the refill and drain buffers (4096 in the code)
  MaxWant,      \* bound: largest buffer the application passes
  Timeouts      \* the timeout values the application uses

ASSUME SerialPortAssumption ==
  /\ Chunk \in Nat \ {0}
  /\ MaxWant \in Nat
  /\ Timeouts \subseteq Timeout

VARIABLES
  sock,           \* Impl::sock is not null
  rx_buf,         \* Impl::rx_buf
  rx_head,        \* Impl::rx_head
  read_timeout,   \* Impl::read_timeout
  write_timeout,  \* Impl::write_timeout
  op,             \* the call blocked in ::recv, or "idle"
  want,           \* its buffer.size(); for purge: history, Len(sent) at the call
  got,            \* bytes it has placed in the caller's buffer or line
  part,           \* read's `copied' when it entered ::recv
  timed,          \* read_line was given a timeout > 0
  from,           \* history: Len(consumed) when the call began
  res,            \* what the last call returned, when it has returned
  nonblock,       \* history: the application made this connection's socket
                  \* non-blocking, and no purge has come since
  consumed        \* history: the bytes handed to the application or purged

implVars == <<sock, rx_buf, rx_head, read_timeout, write_timeout>>
callVars == <<op, want, got, part, timed, from, res, nonblock>>
portVars == <<implVars, callVars, consumed>>
vars     == <<linkVars, portVars>>

Calls == {"read", "read_exact", "read_byte", "read_line", "purge"}
Min2(a, b) == IF a <= b THEN a ELSE b

is_open == sock /\ handle = "open"

(* The cached bytes; cached_bytes_available() is its length.               *)
Cached == SubSeq(rx_buf, rx_head + 1, Len(rx_buf))

(* Definitions named Bug... are mistakes the properties must notice: each  *)
(* one is a faulty version of the definition after it; nothing uses them.  *)
BugHeadNotReset == rx_buf' = << >> /\ UNCHANGED rx_head

clear_rx_cache == rx_buf' = << >> /\ rx_head' = 0

NoResult == [op |-> "none", want |-> 0, data |-> << >>, ok |-> FALSE,
             from |-> 0, to |-> 0]

(* The call returns d; ok tells success from timeout, EOF or a closed port.*)
Return(call, size, start, d, ok) ==
  /\ op' = "idle" /\ want' = 0 /\ got' = << >> /\ part' = 0
  /\ timed' = FALSE /\ from' = 0
  /\ res' = [op |-> call, want |-> size, data |-> d, ok |-> ok,
             from |-> start, to |-> Len(consumed')]
  /\ nonblock' = IF ok /\ call \in {"open", "purge", "set_blocking"} THEN FALSE
                 ELSE (nonblock \/ call = "set_nonblocking")

(* The call enters ::recv.                                                 *)
Block(call, size, start, d, copied) ==
  /\ op' = call /\ want' = size /\ got' = d /\ part' = copied
  /\ from' = start
  /\ res' = NoResult
  /\ UNCHANGED nonblock

-----------------------------------------------------------------------------
(* read and read_exact.                                                    *)

BugRecvFirst(call, n) ==
  /\ consumed' = consumed
  /\ Block(call, n, Len(consumed), << >>, 0)
  /\ UNCHANGED <<timed, implVars, linkVars>>

(* read's first part: drain the cache into the caller's buffer, then, if   *)
(* the buffer is not full, recv straight into the rest of it.              *)
DrainThenRecv(call, n) ==
  LET k == Min2(Len(Cached), n)
      d == SubSeq(rx_buf, rx_head + 1, rx_head + k)
  IN  /\ rx_head' = rx_head + k
      /\ consumed' = consumed \o d
      /\ IF k = n THEN Return(call, n, Len(consumed), d, TRUE)
                  ELSE /\ Block(call, n, Len(consumed), d, k)
                       /\ UNCHANGED timed
      /\ UNCHANGED <<rx_buf, sock, read_timeout, write_timeout, linkVars>>

(* A call that returns without touching the port.                          *)
ReturnAtOnce(call, n, ok) ==
  /\ consumed' = consumed
  /\ Return(call, n, Len(consumed), << >>, ok)
  /\ UNCHANGED <<implVars, linkVars>>

Read(n) ==
  /\ op = "idle"
  /\ \/ (~is_open \/ n = 0) /\ ReturnAtOnce("read", n, FALSE)
     \/ is_open /\ n > 0 /\ DrainThenRecv("read", n)

BugForgetsCopied(k) ==
  /\ op = "read"
  /\ RecvData(want - Len(got), k)
  /\ consumed' = consumed \o Take(krx, k)
  /\ Return("read", want, from, Take(krx, k), TRUE)
  /\ UNCHANGED <<implVars, handle, blocking, rcvtimeo, sndtimeo, link, sent>>

ReadRecv(k) ==
  /\ op = "read"
  /\ RecvData(want - Len(got), k)
  /\ consumed' = consumed \o Take(krx, k)
  /\ Return("read", want, from, got \o Take(krx, k), TRUE)
  /\ UNCHANGED <<implVars, handle, blocking, rcvtimeo, sndtimeo, link, sent>>

ReadRecvFails ==
  /\ op = "read"
  /\ RecvFails
  /\ consumed' = consumed
  /\ Return("read", want, from, got, got # << >>)
  /\ UNCHANGED <<implVars, linkVars>>

(* read_exact calls read until its buffer is full or read returns 0.       *)
ReadExact(n) ==
  /\ op = "idle"
  /\ \/ n = 0 /\ ReturnAtOnce("read_exact", n, TRUE)
     \/ n > 0 /\ ~is_open /\ ReturnAtOnce("read_exact", n, FALSE)
     \/ n > 0 /\ is_open /\ DrainThenRecv("read_exact", n)

ReadExactRecv(k) ==
  /\ op = "read_exact"
  /\ RecvData(want - Len(got), k)
  /\ consumed' = consumed \o Take(krx, k)
  /\ LET d == got \o Take(krx, k)
     IN  IF Len(d) = want
           THEN Return("read_exact", want, from, d, TRUE)
           ELSE Block("read_exact", want, from, d, 0) /\ UNCHANGED timed
  /\ UNCHANGED <<implVars, handle, blocking, rcvtimeo, sndtimeo, link, sent>>

BugRetriesForever ==
  /\ op = "read_exact"
  /\ RecvFails
  /\ Block("read_exact", want, from, got, 0)
  /\ UNCHANGED <<timed, consumed, implVars, linkVars>>

(* A read that drained cached bytes before its recv failed returns their   *)
(* number, not 0, so the loop calls read once more.                        *)
ReadExactRecvFails ==
  /\ op = "read_exact"
  /\ RecvFails
  /\ consumed' = consumed
  /\ IF part > 0
       THEN Block("read_exact", want, from, got, 0) /\ UNCHANGED timed
       ELSE Return("read_exact", want, from, got, FALSE)
  /\ UNCHANGED <<implVars, linkVars>>

-----------------------------------------------------------------------------
(* refill_rx_cache and the calls that use it.                              *)

(* The cache after refill_rx_cache received k bytes: what was left of it,  *)
(* moved to the front, and the new bytes.                                  *)
Refilled(k) == Cached \o Take(krx, k)

ReadByte ==
  /\ op = "idle"
  /\ \/ ~is_open /\ ReturnAtOnce("read_byte", 1, FALSE)
     \/ /\ is_open /\ Cached # << >>
        /\ rx_head' = rx_head + 1
        /\ consumed' = Append(consumed, rx_buf[rx_head + 1])
        /\ Return("read_byte", 1, Len(consumed), <<rx_buf[rx_head + 1]>>, TRUE)
        /\ UNCHANGED <<rx_buf, sock, read_timeout, write_timeout, linkVars>>
     \/ /\ is_open /\ Cached = << >>
        /\ clear_rx_cache
        /\ Block("read_byte", 1, Len(consumed), << >>, 0)
        /\ UNCHANGED <<timed, consumed, sock, read_timeout, write_timeout, linkVars>>

BugByteNotTaken(k) ==
  /\ op = "read_byte"
  /\ RecvData(Chunk, k)
  /\ rx_buf' = Refilled(k)
  /\ rx_head' = 0
  /\ consumed' = Append(consumed, rx_buf'[1])
  /\ Return("read_byte", 1, from, <<rx_buf'[1]>>, TRUE)
  /\ UNCHANGED <<sock, read_timeout, write_timeout,
                 handle, blocking, rcvtimeo, sndtimeo, link, sent>>

ReadByteRecv(k) ==
  /\ op = "read_byte"
  /\ RecvData(Chunk, k)
  /\ rx_buf' = Refilled(k)
  /\ rx_head' = 1
  /\ consumed' = Append(consumed, rx_buf'[1])
  /\ Return("read_byte", 1, from, <<rx_buf'[1]>>, TRUE)
  /\ UNCHANGED <<sock, read_timeout, write_timeout,
                 handle, blocking, rcvtimeo, sndtimeo, link, sent>>

ReadByteRecvFails ==
  /\ op = "read_byte"
  /\ RecvFails
  /\ consumed' = consumed
  /\ Return("read_byte", 1, from, << >>, FALSE)
  /\ UNCHANGED <<implVars, linkVars>>

HasDelim(s) == \E i \in 1..Len(s) : s[i] = Delim
FirstDelim(s, i) == s[i] = Delim /\ \A j \in 1..(i - 1) : s[j] # Delim

StripCR(l) ==
  IF l # << >> /\ l[Len(l)] = CR THEN SubSeq(l, 1, Len(l) - 1) ELSE l

(* One turn of read_line's loop, with the cache holding buf from head on   *)
(* and acc already in the line: take bytes up to the delimiter; or take    *)
(* all of them and give up because the time is over, or go and refill.     *)
ScanLine(buf, head, acc, start, tmo) ==
  LET s == SubSeq(buf, head + 1, Len(buf))
  IN  \/ \E i \in 1..Len(s) :
           /\ FirstDelim(s, i)
           /\ rx_buf' = buf /\ rx_head' = head + i
           /\ consumed' = consumed \o SubSeq(buf, head + 1, head + i)
           /\ Return("read_line", 0, start,
                     StripCR(acc \o SubSeq(buf, head + 1, head + i - 1)), TRUE)
      \/ /\ ~HasDelim(s) /\ tmo
         /\ rx_buf' = buf /\ rx_head' = Len(buf)
         /\ consumed' = consumed \o s
         /\ Return("read_line", 0, start, acc \o s, FALSE)
      \/ /\ ~HasDelim(s)
         /\ clear_rx_cache
         /\ consumed' = consumed \o s
         /\ Block("read_line", 0, start, acc \o s, 0)
         /\ timed' = tmo

ReadLine(tmo) ==
  /\ op = "idle"
  /\ \/ ~is_open /\ ReturnAtOnce("read_line", 0, FALSE)
     \/ /\ is_open
        /\ ScanLine(rx_buf, rx_head, << >>, Len(consumed), tmo)
        /\ UNCHANGED <<sock, read_timeout, write_timeout, linkVars>>

BugLineRestarts(k) ==
  /\ op = "read_line"
  /\ RecvData(Chunk, k)
  /\ ScanLine(Refilled(k), 0, << >>, from, timed)
  /\ UNCHANGED <<sock, read_timeout, write_timeout,
                 handle, blocking, rcvtimeo, sndtimeo, link, sent>>

ReadLineRecv(k) ==
  /\ op = "read_line"
  /\ RecvData(Chunk, k)
  /\ ScanLine(Refilled(k), 0, got, from, timed)
  /\ UNCHANGED <<sock, read_timeout, write_timeout,
                 handle, blocking, rcvtimeo, sndtimeo, link, sent>>

ReadLineRecvFails ==
  /\ op = "read_line"
  /\ RecvFails
  /\ consumed' = consumed
  /\ Return("read_line", 0, from, got, FALSE)
  /\ UNCHANGED <<implVars, linkVars>>

-----------------------------------------------------------------------------
(* get_rx_queue_status and purge.                                          *)

BugCountsReadBytes == Len(rx_buf) + Len(krx)

get_rx_queue_status == (Len(rx_buf) - rx_head) + Len(krx)

GetRxQueueStatus ==
  /\ op = "idle"
  /\ ReturnAtOnce("get_rx_queue_status",
                  IF is_open THEN get_rx_queue_status ELSE 0, is_open)

BugPurgesCacheOnly(rx) ==
  /\ op = "idle"
  /\ clear_rx_cache
  /\ consumed' = IF is_open THEN consumed \o Cached ELSE consumed
  /\ Return("purge", Len(sent), Len(consumed), << >>, is_open)
  /\ UNCHANGED <<sock, read_timeout, write_timeout, linkVars>>

(* purge(flags): only the Rx flag has an effect.                           *)
Purge(rx) ==
  /\ op = "idle"
  /\ \/ ~rx /\ ReturnAtOnce("purge", 0, FALSE)
     \/ /\ rx
        /\ clear_rx_cache
        /\ consumed' = IF is_open THEN consumed \o Cached ELSE consumed
        /\ IF is_open
             THEN Block("purge", Len(sent), Len(consumed), << >>, 0) /\ UNCHANGED timed
             ELSE Return("purge", 0, Len(consumed), << >>, FALSE)
        /\ IF sock THEN SocketSetBlocking(FALSE) ELSE UNCHANGED blocking
        /\ UNCHANGED <<sock, read_timeout, write_timeout,
                       handle, rcvtimeo, sndtimeo, link, krx, sent>>

PurgeRecv(k) ==
  /\ op = "purge"
  /\ RecvData(Chunk, k)
  /\ consumed' = consumed \o Take(krx, k)
  /\ UNCHANGED <<implVars, callVars, handle, blocking, rcvtimeo, sndtimeo, link, sent>>

BugStaysNonBlocking ==
  /\ op = "purge"
  /\ RecvFails
  /\ consumed' = consumed
  /\ Return("purge", want, from, << >>, TRUE)
  /\ UNCHANGED <<implVars, linkVars>>

PurgeRecvFails ==
  /\ op = "purge"
  /\ RecvFails
  /\ SocketSetBlocking(TRUE)
  /\ consumed' = consumed
  /\ Return("purge", want, from, << >>, TRUE)
  /\ UNCHANGED <<implVars, handle, rcvtimeo, sndtimeo, link, krx, sent>>

-----------------------------------------------------------------------------
(* Life cycle.                                                             *)

(* close(): the cache is cleared, the socket closed and released.          *)
ClosePort ==
  /\ clear_rx_cache
  /\ sock' = FALSE
  /\ SocketClose
  /\ sent' = << >>
  /\ consumed' = << >>

Close ==
  /\ op = "idle"
  /\ ClosePort
  /\ Return("close", 0, 0, << >>, TRUE)
  /\ UNCHANGED <<read_timeout, write_timeout>>

BugKeepsOldCache ==
  /\ sock' = TRUE
  /\ FromNative
  /\ sndtimeo' = write_timeout /\ rcvtimeo' = read_timeout
  /\ consumed' = << >>
  /\ UNCHANGED <<rx_buf, rx_head>>

(* Once close() is done the port takes the new socket and configures it.   *)
TakeSocket ==
  /\ clear_rx_cache
  /\ sock' = TRUE
  /\ FromNative
  /\ sndtimeo' = write_timeout /\ rcvtimeo' = read_timeout
  /\ consumed' = << >>

(* open, open_by_uuid and attach of a live socket.  An attached socket that*)
(* received data before is this one after a few PeerSend steps; one that   *)
(* is non-blocking is this one after RawSetBlocking(FALSE).                *)
Open ==
  /\ op = "idle"
  /\ TakeSocket
  /\ Return("open", 0, 0, << >>, TRUE)
  /\ UNCHANGED <<read_timeout, write_timeout>>

(* The connection cannot be made, or the socket to attach is not open.     *)
OpenFails ==
  /\ op = "idle"
  /\ ClosePort
  /\ Return("open", 0, 0, << >>, FALSE)
  /\ UNCHANGED <<read_timeout, write_timeout>>

(* The text overloads return before close() when the text does not parse.  *)
OpenUnparsable ==
  /\ op = "idle"
  /\ ReturnAtOnce("open", 0, FALSE)

SetTimeouts(rd, wr) ==
  /\ op = "idle"
  /\ read_timeout' = rd /\ write_timeout' = wr
  /\ IF sock THEN SocketSetTimeouts(wr, rd) ELSE UNCHANGED <<sndtimeo, rcvtimeo>>
  /\ consumed' = consumed
  /\ Return("set_timeouts", 0, Len(consumed), << >>, TRUE)
  /\ UNCHANGED <<sock, rx_buf, rx_head, handle, blocking, link, krx, sent>>

(* underlying_socket()->close(): the port keeps the Socket and its cache.  *)
RawClose ==
  /\ op = "idle" /\ is_open
  /\ SocketClose
  /\ consumed' = consumed
  /\ Return("raw_close", 0, Len(consumed), << >>, TRUE)
  /\ UNCHANGED <<implVars, sent>>

(* underlying_socket()->set_blocking(b).                                   *)
RawSetBlocking(b) ==
  /\ op = "idle" /\ is_open
  /\ SocketSetBlocking(b)
  /\ consumed' = consumed
  /\ Return(IF b THEN "set_blocking" ELSE "set_nonblocking", 0, Len(consumed), << >>, TRUE)
  /\ UNCHANGED <<implVars, handle, rcvtimeo, sndtimeo, link, krx, sent>>

-----------------------------------------------------------------------------
Init ==
  /\ handle = "invalid" /\ blocking = TRUE /\ link = "none"
  /\ rcvtimeo = "forever" /\ sndtimeo = "forever"
  /\ krx = << >> /\ sent = << >>
  /\ sock = FALSE /\ rx_buf = << >> /\ rx_head = 0
  /\ read_timeout = "finite" /\ write_timeout = "finite"
  /\ op = "idle" /\ want = 0 /\ got = << >> /\ part = 0 /\ timed = FALSE
  /\ from = 0 /\ res = NoResult /\ nonblock = FALSE /\ consumed = << >>

(* The application makes a call.                                           *)
CallNext ==
  \/ \E n \in 0..MaxWant : Read(n) \/ ReadExact(n)
  \/ ReadByte
  \/ \E tmo \in BOOLEAN : ReadLine(tmo)
  \/ GetRxQueueStatus
  \/ \E rx \in BOOLEAN : Purge(rx)
  \/ Open \/ OpenFails \/ OpenUnparsable \/ Close \/ RawClose
  \/ \E b \in BOOLEAN : RawSetBlocking(b)
  \/ \E rd, wr \in Timeouts : SetTimeouts(rd, wr)

(* A blocked ::recv returns.                                               *)
RecvNext ==
  \/ \E k \in 1..Len(krx) :
       \/ ReadRecv(k) \/ ReadExactRecv(k) \/ ReadByteRecv(k)
       \/ ReadLineRecv(k) \/ PurgeRecv(k)
  \/ ReadRecvFails \/ ReadExactRecvFails \/ ReadByteRecvFails
  \/ ReadLineRecvFails \/ PurgeRecvFails

EnvNext == PeerNext /\ UNCHANGED portVars

Next == CallNext \/ RecvNext \/ EnvNext

Spec == Init /\ [][Next]_vars

(* The kernel wakes a thread whose ::recv can return, and the thread runs. *)
FairSpec == Spec /\ WF_vars(RecvNext)
-----------------------------------------------------------------------------
(* Properties.                                                             *)

Data == Seq(Byte)
Result ==
  [op : Calls \cup {"none", "get_rx_queue_status", "open", "close", "set_timeouts", "raw_close",
                 "set_blocking", "set_nonblocking"},
   want : Nat, data : Data, ok : BOOLEAN, from : Nat, to : Nat]

PortTypeOK ==
  /\ sock \in BOOLEAN
  /\ rx_buf \in Data /\ rx_head \in 0..Len(rx_buf)
  /\ read_timeout \in Timeout /\ write_timeout \in Timeout
  /\ consumed \in Data

CallTypeOK ==
  /\ op \in Calls \cup {"idle"}
  /\ want \in Nat /\ got \in Data /\ part \in Nat
  /\ timed \in BOOLEAN /\ from \in Nat /\ nonblock \in BOOLEAN
  /\ res \in Result

(* Every variable stays in its domain, and rx_head never runs past the end *)
(* of rx_buf (cached_bytes_available subtracts them as unsigned numbers).  *)
TypeOK == LinkTypeOK /\ PortTypeOK /\ CallTypeOK

(* The bytes the application has got (or purged), then the cached ones,    *)
(* then the ones still in the kernel are, in this order, exactly what the  *)
(* peer sent: mixing read, read_exact, read_byte, read_line and purge, the *)
(* cache neither loses, repeats nor reorders a byte, and never shows bytes *)
(* of an earlier connection.                                               *)
StreamIntegrity ==
  is_open => consumed \o Cached \o krx = sent

(* The bytes of the stream that the last completed call took.              *)
ResRaw == SubSeq(consumed, res.from + 1, res.to)

(* read, read_exact and read_byte return the very bytes they took from the *)
(* stream, never more than asked for; read_exact reports success exactly   *)
(* when it filled the buffer.                                              *)
ReadsReturnStreamBytes ==
  res.op \in {"read", "read_exact", "read_byte"} =>
    /\ res.data = ResRaw
    /\ Len(res.data) <= res.want
    /\ res.op \in {"read_exact", "read_byte"} => (res.ok <=> Len(res.data) = res.want)

(* However the line was cut into ::recv chunks, read_line takes either one *)
(* delimiter, as its last byte, and returns what precedes it without the   *)
(* final '\r'; or, on timeout and EOF, no delimiter, and returns all.      *)
ReadLineFraming ==
  res.op = "read_line" =>
    LET n     == Len(ResRaw)
        delim == {i \in 1..n : ResRaw[i] = Delim}
        cr    == IF n > 1 /\ ResRaw[n - 1] = CR THEN 1 ELSE 0
    IN  IF res.ok
          THEN delim = {n} /\ res.data = SubSeq(ResRaw, 1, n - 1 - cr)
          ELSE delim = {} /\ res.data = ResRaw

(* The kernel's timeouts are the ones the application configured, whether  *)
(* it did so before or after the port was opened, and not interchanged.    *)
TimeoutsApplied ==
  is_open => rcvtimeo = read_timeout /\ sndtimeo = write_timeout

(* purge makes the socket non-blocking only while it drains it, and leaves *)
(* it blocking even when the application had made it non-blocking; no other*)
(* call changes the mode the application chose.                            *)
BlockingRestored ==
  is_open /\ op # "purge" => (blocking <=> ~nonblock)

(* Bytes that get_rx_queue_status counted are there to be read: a read of  *)
(* that many cannot have to wait for the peer.                             *)
QueueStatusHonest ==
  op = "idle" /\ is_open /\ res.op = "get_rx_queue_status" =>
    res.want <= Len(Cached) + Len(krx)

(* A completed purge has discarded every byte that had arrived before it   *)
(* was called, from the cache and from the kernel.                         *)
PurgeIsComplete ==
  res.op = "purge" /\ res.ok => res.to >= res.want

(* A port without a socket holds no kernel handle and no cached bytes.     *)
NoOrphanHandle ==
  ~sock => handle = "invalid" /\ rx_buf = << >>

(* A call blocked in ::recv has an open port and an empty cache: this is   *)
(* what makes receiving past the cache (read, purge) keep the order.       *)
RecvOnlyWhenDrained ==
  op # "idle" => is_open /\ Cached = << >>

(* With a finite read timeout or a non-blocking socket (purge's always is),*)
(* and a peer that sends finitely many bytes on a connection, no call stays*)
(* in ::recv for ever.                                                     *)
CallsReturn ==
  (op # "idle" /\ (rcvtimeo = "finite" \/ ~blocking)) ~> (op = "idle")

(* read, which "reads available data", returns once it has taken available *)
(* bytes out of the cache for its caller.                                  *)
ReadReturnsAvailable == (op = "read" /\ part > 0) ~> (op = "idle")

(* What the port implements: an ordered stream of bytes.                   *)
Stream == INSTANCE ByteStream WITH open <- is_open, written <- sent, taken <- consumed
StreamSpec == Stream!Spec
=============================================================================
