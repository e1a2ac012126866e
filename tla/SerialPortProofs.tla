-------------------------- MODULE SerialPortProofs --------------------------
(***************************************************************************)
(* Proofs about SerialPort, for every alphabet, chunk size and bound.      *)
(***************************************************************************)
EXTENDS SerialPort, SequenceTheorems, TLAPS

-----------------------------------------------------------------------------
(* Sequences.                                                              *)

(* Appending byte i of s is appending a piece of length one.               *)
LEMMA AppendByte ==
  ASSUME NEW S, NEW c \in Seq(S), NEW s \in Seq(S), NEW i \in 1..Len(s)
  PROVE  Append(c, s[i]) = c \o SubSeq(s, i, i) /\ s[i] \in S
<1>1. s[i] \in S
  BY ElementOfSeq
<1>2. SubSeq(s, i, i) = <<s[i]>>
  <2>1. i \in i..Len(s) /\ i + 1 \in Int /\ i \in Int /\ i < i + 1
    BY LenProperties
  <2>2. SubSeq(s, i, i) = <<s[i]>> \o SubSeq(s, i + 1, i)
    BY <2>1, SubSeqRecursiveFirst
  <2>3. SubSeq(s, i + 1, i) = << >>
    BY <2>1, SubSeqEmpty
  <2>4. <<s[i]>> \in Seq(S)
    BY <1>1
  <2> QED
    BY <2>2, <2>3, <2>4, ConcatEmptySeq
<1> QED
  BY <1>1, <1>2, AppendIsConcat

(* Facts about Data, to be cited without the definition of Data.           *)
LEMMA DataEmpty == << >> \in Data /\ Len(<< >>) = 0
BY EmptySeq DEF Data

(* The length of data is a natural number.                                 *)
LEMMA DataLen == \A s \in Data : Len(s) \in Nat
BY LenProperties DEF Data

(* Data put together is data.                                              *)
LEMMA DataConcat == \A a, b \in Data : a \o b \in Data
BY ConcatProperties DEF Data

(* The empty sequence is neutral.                                          *)
LEMMA DataConcatEmpty == \A a \in Data : a \o << >> = a /\ << >> \o a = a
BY ConcatEmptySeq DEF Data

(* Putting data together is associative.                                   *)
LEMMA DataAssoc == \A a, b, c \in Data : (a \o b) \o c = a \o (b \o c)
<1> SUFFICES ASSUME NEW a \in Data, NEW b \in Data, NEW c \in Data
             PROVE  (a \o b) \o c = a \o (b \o c)
  OBVIOUS
<1> QED
  BY ConcatAssociative DEF Data

(* Concatenation as an opaque operator: associativity is then used by the  *)
(* provers as a rewriting of terms, not as a fact about functions.         *)
Cat(a, b) == a \o b

(* Data put together is data, for Cat.                                     *)
LEMMA CatType == \A a, b \in Data : Cat(a, b) \in Data
BY DataConcat DEF Cat

(* Putting data together is associative, for Cat.                          *)
LEMMA CatAssoc == \A a, b, c \in Data : Cat(Cat(a, b), c) = Cat(a, Cat(b, c))
BY DataAssoc DEF Cat

(* What a call does to the stream: c has been consumed, e is cached, k is  *)
(* in the kernel; d is taken off the front of e and k, and e2 and k2 are   *)
(* what is left.  Then the whole is what it was.                           *)
LEMMA CatMove ==
  ASSUME NEW c \in Data, NEW e \in Data, NEW k \in Data,
         NEW d \in Data, NEW e2 \in Data, NEW k2 \in Data,
         Cat(Cat(d, e2), k2) = Cat(e, k)
  PROVE  Cat(Cat(Cat(c, d), e2), k2) = Cat(Cat(c, e), k)
<1>1. Cat(Cat(c, e), k) = Cat(c, Cat(e, k))
  BY CatAssoc
<1>2. Cat(d, e2) \in Data
  BY CatType
<1>3. Cat(Cat(Cat(c, d), e2), k2) = Cat(Cat(c, Cat(d, e2)), k2)
  BY CatAssoc
<1>4. Cat(Cat(c, Cat(d, e2)), k2) = Cat(c, Cat(Cat(d, e2), k2))
  BY <1>2, CatAssoc
<1> QED
  BY <1>1, <1>3, <1>4

(* Cutting the bytes of s from h on at k: both pieces are data, and put    *)
(* together again they are what was cut.                                   *)
LEMMA DataCut ==
  \A s \in Data : \A h \in 0..Len(s) : \A k \in 0..(Len(s) - h) :
    /\ SubSeq(s, h + 1, h + k) \in Data
    /\ Len(SubSeq(s, h + 1, h + k)) = k
    /\ SubSeq(s, h + k + 1, Len(s)) \in Data
    /\ SubSeq(s, h + 1, h + k) \o SubSeq(s, h + k + 1, Len(s))
         = SubSeq(s, h + 1, Len(s))
<1> SUFFICES ASSUME NEW s \in Seq(Byte), NEW h \in 0..Len(s), NEW k \in 0..(Len(s) - h)
             PROVE  /\ SubSeq(s, h + 1, h + k) \in Seq(Byte)
                    /\ Len(SubSeq(s, h + 1, h + k)) = k
                    /\ SubSeq(s, h + k + 1, Len(s)) \in Seq(Byte)
                    /\ SubSeq(s, h + 1, h + k) \o SubSeq(s, h + k + 1, Len(s))
                         = SubSeq(s, h + 1, Len(s))
  BY DEF Data
<1>1. Len(s) \in Nat
  BY LenProperties
<1>2. \A i \in 1..Len(s) : s[i] \in Byte
  BY ElementOfSeq
<1>3. /\ SubSeq(s, h + 1, h + k) \in Seq(Byte)
      /\ Len(SubSeq(s, h + 1, h + k)) = k
  BY <1>1, <1>2, SubSeqProperties
<1>4. SubSeq(s, h + k + 1, Len(s)) \in Seq(Byte)
  BY <1>1, <1>2, SubSeqProperties
<1>5. SubSeq(s, h + 1, h + k) \o SubSeq(s, h + k + 1, Len(s))
        = SubSeq(s, h + 1, Len(s))
  <2>1. h + 1 \in 1..Len(s)+1 /\ h + k \in (h + 1) - 1 .. Len(s) /\ Len(s) \in h + k .. Len(s)
    BY <1>1
  <2> QED
    BY <2>1, ConcatAdjacentSubSeq
<1> QED
  BY <1>3, <1>4, <1>5

(* What ::recv hands over and what it leaves in the kernel's queue.        *)
LEMMA DataTakeDrop ==
  \A s \in Data : \A k \in 0..Len(s) :
    /\ Take(s, k) \in Data /\ Len(Take(s, k)) = k
    /\ Drop(s, k) \in Data
    /\ Take(s, k) \o Drop(s, k) = s
<1> SUFFICES ASSUME NEW s \in Data, NEW k \in 0..Len(s)
             PROVE  /\ Take(s, k) \in Data /\ Len(Take(s, k)) = k
                    /\ Drop(s, k) \in Data
                    /\ Take(s, k) \o Drop(s, k) = s
  OBVIOUS
<1>1. Len(s) \in Nat
  BY DataLen
<1>2. SubSeq(s, 1, Len(s)) = s
  BY SubSeqFull DEF Data
<1>3. PICK h \in 0..Len(s) : h = 0
  BY <1>1
<1>4. k \in 0..(Len(s) - h)
  BY <1>1, <1>3
<1>5. /\ SubSeq(s, h + 1, h + k) \in Data
      /\ Len(SubSeq(s, h + 1, h + k)) = k
      /\ SubSeq(s, h + k + 1, Len(s)) \in Data
      /\ SubSeq(s, h + 1, h + k) \o SubSeq(s, h + k + 1, Len(s))
           = SubSeq(s, h + 1, Len(s))
  BY <1>4, DataCut
<1>6. h + 1 = 1 /\ h + k = k
  BY <1>1, <1>3
<1> QED
  BY <1>2, <1>5, <1>6 DEF Take, Drop

(* The bytes of s that are left from position h on.                        *)
LEMMA DataRest ==
  \A s \in Data : \A h \in 0..Len(s) :
    SubSeq(s, h + 1, Len(s)) \in Data /\ Len(SubSeq(s, h + 1, Len(s))) = Len(s) - h
<1> SUFFICES ASSUME NEW s \in Seq(Byte), NEW h \in 0..Len(s)
             PROVE  /\ SubSeq(s, h + 1, Len(s)) \in Seq(Byte)
                    /\ Len(SubSeq(s, h + 1, Len(s))) = Len(s) - h
  BY DEF Data
<1>1. Len(s) \in Nat
  BY LenProperties
<1>2. \A i \in 1..Len(s) : s[i] \in Byte
  BY ElementOfSeq
<1> QED
  BY <1>1, <1>2, SubSeqProperties

-----------------------------------------------------------------------------
(* The inductive invariant.  StreamIntegrity alone is not inductive: the   *)
(* calls that receive past the cache (read into the caller's buffer, purge *)
(* into nothing) keep the order only because the cache is empty whenever a *)
(* call is inside ::recv.                                                  *)
Inv == TypeOK /\ StreamIntegrity /\ RecvOnlyWhenDrained

(* The cached bytes are data; there are rx_buf.size() - rx_head of them.   *)
LEMMA CachedType ==
  ASSUME TypeOK
  PROVE  Cached \in Data /\ Len(Cached) = Len(rx_buf) - rx_head
BY DataRest DEF TypeOK, PortTypeOK, Cached

(* A port that was just constructed satisfies Inv.                         *)
LEMMA InitInv == Init => Inv
<1> SUFFICES ASSUME Init PROVE Inv
  OBVIOUS
<1>1. << >> \in Seq(Byte) /\ Len(<< >>) = 0
  BY EmptySeq
<1>2. NoResult \in Result
  BY <1>1 DEF NoResult, Result, Data, Calls
<1>3. TypeOK
  <2>1. /\ blocking \in BOOLEAN /\ sock \in BOOLEAN /\ timed \in BOOLEAN
        /\ nonblock \in BOOLEAN
    BY DEF Init
  <2>2. /\ handle \in {"open", "invalid"}
        /\ link \in {"up", "eof", "lost", "none"}
        /\ rcvtimeo \in Timeout /\ sndtimeo \in Timeout
        /\ read_timeout \in Timeout /\ write_timeout \in Timeout
        /\ op \in Calls \cup {"idle"}
    BY DEF Init, Timeout, Calls
  <2>3. /\ krx \in Data /\ sent \in Data /\ rx_buf \in Data /\ got \in Data
        /\ consumed \in Data
    BY <1>1 DEF Init, Data
  <2>4. rx_head \in 0..Len(rx_buf) /\ want \in Nat /\ part \in Nat /\ from \in Nat
    BY <1>1 DEF Init
  <2>5. res \in Result
    BY <1>2 DEF Init
  <2> QED
    BY <2>1, <2>2, <2>3, <2>4, <2>5 DEF TypeOK, LinkTypeOK, PortTypeOK, CallTypeOK, Data
<1> QED
  BY <1>3 DEF Init, Inv, StreamIntegrity, RecvOnlyWhenDrained, is_open

-----------------------------------------------------------------------------
(* The bookkeeping of calls.                                               *)

(* A call that returns leaves well-typed bookkeeping and an idle port.     *)
LEMMA ReturnType ==
  ASSUME NEW call \in Calls \cup {"none", "get_rx_queue_status", "open", "close",
                                  "set_timeouts", "raw_close",
                                  "set_blocking", "set_nonblocking"},
         NEW size \in Nat, NEW start \in Nat, NEW d \in Data, NEW ok \in BOOLEAN,
         consumed' \in Data,
         Return(call, size, start, d, ok)
  PROVE  CallTypeOK' /\ op' = "idle"
<1>1. << >> \in Data /\ Len(consumed') \in Nat
  BY EmptySeq, LenProperties DEF Data
<1>2. res' \in Result
  BY <1>1 DEF Return, Result
<1>3. timed' \in BOOLEAN /\ nonblock' \in BOOLEAN
  BY DEF Return
<1> QED
  BY <1>1, <1>2, <1>3 DEF Return, CallTypeOK, Data, Result

(* A call that enters ::recv leaves well-typed bookkeeping.                *)
LEMMA BlockType ==
  ASSUME CallTypeOK,
         NEW call \in Calls, NEW size \in Nat, NEW start \in Nat, NEW d \in Data,
         NEW copied \in Nat,
         Block(call, size, start, d, copied), timed' \in BOOLEAN
  PROVE  CallTypeOK'
<1>1. NoResult \in Result
  BY DataEmpty DEF NoResult, Result, Calls
<1>2. nonblock' \in BOOLEAN
  BY DEF Block, CallTypeOK
<1> QED
  BY <1>1, <1>2 DEF Block, CallTypeOK

(* The step every call makes on the stream: d is taken from the front of   *)
(* what is cached and queued, and the rest stays, in its order.            *)
LEMMA Move ==
  ASSUME Inv,
         NEW d \in Data,
         consumed' = consumed \o d,
         rx_buf' \in Data, rx_head' \in 0..Len(rx_buf'), krx' \in Data,
         (d \o Cached') \o krx' = Cached \o krx,
         blocking' \in BOOLEAN,
         UNCHANGED <<sock, read_timeout, write_timeout, handle, rcvtimeo,
                     sndtimeo, link, sent>>,
         CallTypeOK',
         op' # "idle" => is_open /\ Cached' = << >>
  PROVE  Inv'
<1>1. TypeOK'
  <2>1. LinkTypeOK'
    BY DEF Inv, TypeOK, LinkTypeOK, Data
  <2>2. PortTypeOK'
    <3>1. consumed' \in Data
      BY ConcatProperties DEF Inv, TypeOK, PortTypeOK, Data
    <3> QED
      BY <3>1 DEF Inv, TypeOK, PortTypeOK
  <2> QED
    BY <2>1, <2>2 DEF TypeOK
<1>2. StreamIntegrity'
  <2> SUFFICES ASSUME is_open' PROVE consumed' \o Cached' \o krx' = sent'
    BY DEF StreamIntegrity
  <2>1. consumed \o Cached \o krx = sent
    BY DEF Inv, StreamIntegrity, is_open
  <2>2. /\ consumed \in Data /\ Cached \in Data /\ krx \in Data
        /\ Cached' \in Data
    BY CachedType, DataRest DEF Inv, TypeOK, PortTypeOK, LinkTypeOK, Data, Cached
  <2>3. Cat(Cat(d, Cached'), krx') = Cat(Cached, krx)
    BY DEF Cat
  <2>4. Cat(Cat(Cat(consumed, d), Cached'), krx') = Cat(Cat(consumed, Cached), krx)
    BY <2>2, <2>3, CatMove
  <2> QED
    BY <2>1, <2>4 DEF Cat
<1>3. RecvOnlyWhenDrained'
  BY DEF RecvOnlyWhenDrained, is_open
<1> QED
  BY <1>1, <1>2, <1>3 DEF Inv

(* Dropping a final '\r' of data gives data.                               *)
LEMMA StripCRType == \A l \in Data : StripCR(l) \in Data
<1> SUFFICES ASSUME NEW l \in Seq(Byte) PROVE StripCR(l) \in Seq(Byte)
  BY DEF Data
<1>1. Len(l) \in Nat /\ \A i \in 1..Len(l) : l[i] \in Byte
  BY LenProperties, ElementOfSeq
<1>2. SubSeq(l, 1, Len(l) - 1) \in Seq(Byte)
  BY <1>1, SubSeqProperties
<1> QED
  BY <1>2 DEF StripCR

(* One turn of read_line takes d off the front of the cache it scans, and  *)
(* goes back to ::recv only with an empty cache.                           *)
LEMMA ScanLineMoves ==
  ASSUME CallTypeOK, consumed \in Data,
         NEW buf \in Data, NEW head \in 0..Len(buf), NEW acc \in Data,
         NEW start \in Nat, NEW tmo \in BOOLEAN,
         ScanLine(buf, head, acc, start, tmo)
  PROVE  /\ CallTypeOK'
         /\ op' # "idle" => Cached' = << >>
         /\ rx_buf' \in Data /\ rx_head' \in 0..Len(rx_buf')
         /\ \E d \in Data : /\ consumed' = consumed \o d
                           /\ d \o Cached' = SubSeq(buf, head + 1, Len(buf))
<1> DEFINE s == SubSeq(buf, head + 1, Len(buf))
<1>1. s \in Data /\ Len(s) = Len(buf) - head /\ Len(buf) \in Nat
  BY DataRest, DataLen
<1>2. "read_line" \in Calls
  BY DEF Calls
<1>3. CASE \E i \in 1..Len(s) :
             /\ rx_buf' = buf /\ rx_head' = head + i
             /\ consumed' = consumed \o SubSeq(buf, head + 1, head + i)
             /\ Return("read_line", 0, start,
                       StripCR(acc \o SubSeq(buf, head + 1, head + i - 1)), TRUE)
  <2>1. PICK i \in 1..Len(s) :
             /\ rx_buf' = buf /\ rx_head' = head + i
             /\ consumed' = consumed \o SubSeq(buf, head + 1, head + i)
             /\ Return("read_line", 0, start,
                       StripCR(acc \o SubSeq(buf, head + 1, head + i - 1)), TRUE)
    BY <1>3
  <2>2. i \in 0..(Len(buf) - head) /\ i - 1 \in 0..(Len(buf) - head)
        /\ head + (i - 1) = head + i - 1
    BY <1>1
  <2>3. /\ SubSeq(buf, head + 1, head + i) \in Data
        /\ SubSeq(buf, head + 1, head + i - 1) \in Data
        /\ SubSeq(buf, head + 1, head + i) \o SubSeq(buf, head + i + 1, Len(buf)) = s
    BY <2>2, DataCut
  <2>4. StripCR(acc \o SubSeq(buf, head + 1, head + i - 1)) \in Data
    BY <2>3, DataConcat, StripCRType
  <2>5. consumed' \in Data
    BY <2>1, <2>3, DataConcat
  <2>6. CallTypeOK' /\ op' = "idle"
    BY <1>2, <2>1, <2>4, <2>5, ReturnType
  <2>7. rx_buf' \in Data /\ rx_head' \in 0..Len(rx_buf')
    BY <1>1, <2>1
  <2>8. Cached' = SubSeq(buf, head + i + 1, Len(buf))
    BY <2>1 DEF Cached
  <2>9. SubSeq(buf, head + 1, head + i) \o Cached' = s
    BY <2>3, <2>8
  <2>10. \E d \in Data : consumed' = consumed \o d /\ d \o Cached' = s
    BY <2>1, <2>3, <2>9, Zenon
  <2> QED
    BY <2>6, <2>7, <2>10
<1>4. CASE /\ rx_buf' = buf /\ rx_head' = Len(buf)
           /\ consumed' = consumed \o s
           /\ Return("read_line", 0, start, acc \o s, FALSE)
  <2>1. consumed' \in Data /\ acc \o s \in Data
    BY <1>1, <1>4, DataConcat
  <2>2. CallTypeOK' /\ op' = "idle"
    BY <1>2, <1>4, <2>1, ReturnType
  <2>3. Cached' = << >>
    BY <1>1, <1>4, SubSeqEmpty DEF Cached
  <2>4. s \o Cached' = s
    BY <1>1, <2>3, DataConcatEmpty
  <2>5. rx_buf' \in Data /\ rx_head' \in 0..Len(rx_buf')
    BY <1>1, <1>4
  <2>6. \E d \in Data : consumed' = consumed \o d /\ d \o Cached' = s
    BY <1>1, <1>4, <2>4, Zenon
  <2> QED
    BY <2>2, <2>5, <2>6, Zenon
<1>5. CASE /\ clear_rx_cache
           /\ consumed' = consumed \o s
           /\ Block("read_line", 0, start, acc \o s, 0)
           /\ timed' = tmo
  <2>1. acc \o s \in Data
    BY <1>1, DataConcat
  <2>2. timed' \in BOOLEAN
    BY <1>5
  <2>3. CallTypeOK'
    BY <1>2, <1>5, <2>1, <2>2, BlockType
  <2>4. Cached' = << >> /\ rx_buf' \in Data /\ rx_head' \in 0..Len(rx_buf')
    BY <1>5, SubSeqEmpty, DataEmpty DEF Cached, clear_rx_cache
  <2>5. s \o Cached' = s
    BY <1>1, <2>4, DataConcatEmpty
  <2> QED
    BY <1>1, <1>5, <2>3, <2>4, <2>5
<1> QED
  BY <1>3, <1>4, <1>5 DEF ScanLine

-----------------------------------------------------------------------------
(* Every step preserves Inv.                                               *)

(* A step that only changes the bookkeeping of the call.                   *)
LEMMA Still ==
  ASSUME Inv, UNCHANGED <<implVars, linkVars>>, consumed' = consumed,
         CallTypeOK', op' # "idle" => op # "idle"
  PROVE  Inv'
<1>1. TypeOK'
  BY DEF Inv, TypeOK, PortTypeOK, LinkTypeOK, implVars, linkVars
<1>2. StreamIntegrity'
  BY DEF Inv, StreamIntegrity, is_open, Cached, implVars, linkVars
<1>3. RecvOnlyWhenDrained'
  BY DEF Inv, RecvOnlyWhenDrained, is_open, Cached, implVars, linkVars
<1> QED
  BY <1>1, <1>2, <1>3 DEF Inv

(* A call that returns without touching the port.                          *)
LEMMA ReturnAtOnceInv ==
  ASSUME Inv, NEW call \in Calls \cup {"get_rx_queue_status", "open"},
         NEW n \in Nat, NEW ok \in BOOLEAN, ReturnAtOnce(call, n, ok)
  PROVE  Inv'
<1>1. consumed' = consumed /\ consumed \in Data /\ Len(consumed) \in Nat
  BY DataLen DEF ReturnAtOnce, Inv, TypeOK, PortTypeOK
<1>2. Return(call, n, Len(consumed), << >>, ok)
  BY DEF ReturnAtOnce
<1>3. CallTypeOK' /\ op' = "idle"
  BY <1>1, <1>2, DataEmpty, ReturnType
<1> QED
  BY <1>1, <1>3, Still DEF ReturnAtOnce

(* Receiving past the empty cache: what read and purge do.                 *)
LEMMA DirectRecv ==
  ASSUME Inv, op # "idle", NEW k \in 1..Len(krx),
         krx' = Drop(krx, k), consumed' = consumed \o Take(krx, k),
         UNCHANGED <<implVars, handle, blocking, rcvtimeo, sndtimeo, link, sent>>,
         CallTypeOK'
  PROVE  Inv'
<1>1. /\ is_open /\ Cached = << >> /\ krx \in Data /\ k \in 0..Len(krx)
      /\ rx_buf' \in Data /\ rx_head' \in 0..Len(rx_buf') /\ blocking' \in BOOLEAN
  BY DataLen DEF Inv, RecvOnlyWhenDrained, TypeOK, LinkTypeOK, PortTypeOK, Data, implVars
<1>2. Cached' = << >>
  BY <1>1 DEF Cached, implVars
<1>3. Take(krx, k) \in Data /\ Drop(krx, k) \in Data
      /\ Take(krx, k) \o Drop(krx, k) = krx
  BY <1>1, DataTakeDrop
<1>4. (Take(krx, k) \o Cached') \o krx' = Cached \o krx
  BY <1>1, <1>2, <1>3, DataConcatEmpty
<1> QED
  BY <1>1, <1>2, <1>3, <1>4, Move DEF implVars

(* The first part of read: the front of the cache goes to the caller.      *)
LEMMA DrainThenRecvInv ==
  ASSUME Inv, op = "idle", is_open, NEW call \in {"read", "read_exact"},
         NEW n \in Nat, DrainThenRecv(call, n)
  PROVE  Inv'
<1> DEFINE k == Min2(Len(Cached), n)
           d == SubSeq(rx_buf, rx_head + 1, rx_head + k)
<1>1. /\ rx_buf \in Data /\ rx_head \in 0..Len(rx_buf) /\ Len(rx_buf) \in Nat
      /\ consumed \in Data /\ Len(consumed) \in Nat /\ krx \in Data
      /\ Cached \in Data /\ Len(Cached) = Len(rx_buf) - rx_head
      /\ CallTypeOK /\ blocking \in BOOLEAN
  BY CachedType, DataLen DEF Inv, TypeOK, PortTypeOK, LinkTypeOK, Data
<1>2. k \in 0..(Len(rx_buf) - rx_head) /\ k \in Nat
  BY <1>1 DEF Min2
<1>3. d \in Data /\ Len(d) = k
      /\ d \o SubSeq(rx_buf, rx_head + k + 1, Len(rx_buf)) = Cached
  BY <1>1, <1>2, DataCut DEF Cached
<1>4. /\ rx_head' = rx_head + k /\ consumed' = consumed \o d
      /\ UNCHANGED <<rx_buf, sock, read_timeout, write_timeout, linkVars>>
      /\ IF k = n THEN Return(call, n, Len(consumed), d, TRUE)
                  ELSE Block(call, n, Len(consumed), d, k) /\ UNCHANGED timed
  BY DEF DrainThenRecv
<1>5. rx_head' \in 0..Len(rx_buf')
  BY <1>1, <1>2, <1>4
<1>6. Cached' = SubSeq(rx_buf, rx_head + k + 1, Len(rx_buf))
  BY <1>4 DEF Cached
<1>7. consumed' \in Data
  BY <1>1, <1>3, <1>4, DataConcat
<1>8. call \in Calls
  BY DEF Calls
<1>9. CallTypeOK' /\ (op' # "idle" => k # n)
  <2>1. CASE k = n
    BY <1>1, <1>3, <1>4, <1>7, <1>8, <2>1, ReturnType
  <2>2. CASE k # n
    <3>1. timed' \in BOOLEAN
      BY <1>1, <1>4, <2>2 DEF CallTypeOK
    <3> QED
      BY <1>1, <1>2, <1>3, <1>4, <1>8, <2>2, <3>1, BlockType
  <2> QED
    BY <2>1, <2>2
<1>10. op' # "idle" => Cached' = << >>
  <2> SUFFICES ASSUME op' # "idle" PROVE Cached' = << >>
    OBVIOUS
  <2>1. k = Len(rx_buf) - rx_head
    BY <1>1, <1>9 DEF Min2
  <2>2. Len(rx_buf) < rx_head + k + 1
    BY <1>1, <2>1
  <2> QED
    BY <1>1, <1>2, <1>6, <2>2, SubSeqEmpty
<1>11. (d \o Cached') \o krx' = Cached \o krx
  BY <1>3, <1>4, <1>6 DEF linkVars
<1> QED
  BY <1>1, <1>3, <1>4, <1>5, <1>9, <1>10, <1>11, Move DEF linkVars

(* read and read_exact, up to their first ::recv.                          *)
LEMMA ReadInv ==
  ASSUME Inv, NEW n \in Nat, Read(n) \/ ReadExact(n)
  PROVE  Inv'
<1>1. "read" \in Calls /\ "read_exact" \in Calls /\ TRUE \in BOOLEAN /\ FALSE \in BOOLEAN
  BY DEF Calls
<1>2. CASE \E ok \in BOOLEAN : ReturnAtOnce("read", n, ok) \/ ReturnAtOnce("read_exact", n, ok)
  BY <1>1, <1>2, ReturnAtOnceInv
<1>3. CASE op = "idle" /\ is_open /\ DrainThenRecv("read", n)
  BY <1>3, DrainThenRecvInv
<1>4. CASE op = "idle" /\ is_open /\ DrainThenRecv("read_exact", n)
  BY <1>4, DrainThenRecvInv
<1> QED
  BY <1>1, <1>2, <1>3, <1>4 DEF Read, ReadExact

(* read and read_exact, when ::recv returns data.                          *)
LEMMA ReadRecvInv ==
  ASSUME Inv, NEW k \in 1..Len(krx), ReadRecv(k) \/ ReadExactRecv(k)
  PROVE  Inv'
<1>1. /\ consumed \in Data /\ krx \in Data /\ got \in Data /\ want \in Nat
      /\ from \in Nat /\ CallTypeOK /\ k \in 0..Len(krx)
  BY DataLen DEF Inv, TypeOK, PortTypeOK, CallTypeOK, LinkTypeOK, Data
<1>2. Take(krx, k) \in Data
  BY <1>1, DataTakeDrop
<1>3. /\ consumed' = consumed \o Take(krx, k) /\ krx' = Drop(krx, k) /\ op # "idle"
      /\ UNCHANGED <<implVars, handle, blocking, rcvtimeo, sndtimeo, link, sent>>
  BY DEF ReadRecv, ReadExactRecv, RecvData
<1>4. consumed' \in Data /\ got \o Take(krx, k) \in Data
  BY <1>1, <1>2, <1>3, DataConcat
<1>5. "read" \in Calls /\ "read_exact" \in Calls
  BY DEF Calls
<1>6. CallTypeOK'
  <2>1. CASE Return("read", want, from, got \o Take(krx, k), TRUE)
    BY <1>1, <1>4, <1>5, <2>1, ReturnType
  <2>2. CASE Return("read_exact", want, from, got \o Take(krx, k), TRUE)
    BY <1>1, <1>4, <1>5, <2>2, ReturnType
  <2>3. CASE Block("read_exact", want, from, got \o Take(krx, k), 0) /\ UNCHANGED timed
    <3>1. timed' \in BOOLEAN
      BY <1>1, <2>3 DEF CallTypeOK
    <3> QED
      BY <1>1, <1>4, <1>5, <2>3, <3>1, BlockType
  <2> QED
    BY <2>1, <2>2, <2>3 DEF ReadRecv, ReadExactRecv
<1> QED
  BY <1>3, <1>6, DirectRecv

(* The calls whose ::recv fails.                                           *)
LEMMA RecvFailsInv ==
  ASSUME Inv, \/ ReadRecvFails \/ ReadExactRecvFails \/ ReadByteRecvFails
              \/ ReadLineRecvFails
  PROVE  Inv'
<1>1. /\ consumed \in Data /\ got \in Data /\ want \in Nat /\ from \in Nat /\ CallTypeOK
  BY DEF Inv, TypeOK, PortTypeOK, CallTypeOK
<1>2. /\ consumed' = consumed /\ op # "idle" /\ UNCHANGED <<implVars, linkVars>>
  BY DEF ReadRecvFails, ReadExactRecvFails, ReadByteRecvFails, ReadLineRecvFails
<1>3. {"read", "read_exact", "read_byte", "read_line"} \subseteq Calls
  BY DEF Calls
<1>4. CallTypeOK'
  <2>1. CASE ReadRecvFails
    <3>1. (got # << >>) \in BOOLEAN /\ Return("read", want, from, got, got # << >>)
      BY <2>1 DEF ReadRecvFails
    <3> QED
      BY <1>1, <1>2, <1>3, <3>1, ReturnType
  <2>2. CASE Return("read_exact", want, from, got, FALSE)
    BY <1>1, <1>2, <1>3, <2>2, ReturnType
  <2>3. CASE Block("read_exact", want, from, got, 0) /\ UNCHANGED timed
    <3>1. timed' \in BOOLEAN
      BY <1>1, <2>3 DEF CallTypeOK
    <3> QED
      BY <1>1, <1>3, <2>3, <3>1, BlockType
  <2>4. CASE Return("read_byte", 1, from, << >>, FALSE)
    BY <1>1, <1>2, <1>3, <2>4, DataEmpty, ReturnType
  <2>5. CASE Return("read_line", 0, from, got, FALSE)
    BY <1>1, <1>2, <1>3, <2>5, ReturnType
  <2> QED
    BY <2>1, <2>2, <2>3, <2>4, <2>5 DEF ReadExactRecvFails, ReadByteRecvFails,
       ReadLineRecvFails
<1> QED
  BY <1>2, <1>4, Still

(* read_byte, up to its ::recv.                                            *)
LEMMA ReadByteInv ==
  ASSUME Inv, ReadByte
  PROVE  Inv'
<1>1. /\ rx_buf \in Data /\ rx_head \in 0..Len(rx_buf) /\ Len(rx_buf) \in Nat
      /\ consumed \in Data /\ Len(consumed) \in Nat /\ krx \in Data
      /\ Cached \in Data /\ Len(Cached) = Len(rx_buf) - rx_head
      /\ CallTypeOK /\ blocking \in BOOLEAN
  BY CachedType, DataLen DEF Inv, TypeOK, PortTypeOK, LinkTypeOK, Data
<1>2. "read_byte" \in Calls /\ 1 \in Nat /\ 0 \in Nat
  BY DEF Calls
<1>3. CASE ReturnAtOnce("read_byte", 1, FALSE)
  BY <1>2, <1>3, ReturnAtOnceInv
<1>4. CASE /\ is_open /\ Cached # << >>
           /\ rx_head' = rx_head + 1
           /\ consumed' = Append(consumed, rx_buf[rx_head + 1])
           /\ Return("read_byte", 1, Len(consumed), <<rx_buf[rx_head + 1]>>, TRUE)
           /\ UNCHANGED <<rx_buf, sock, read_timeout, write_timeout, linkVars>>
  <2> DEFINE d == SubSeq(rx_buf, rx_head + 1, rx_head + 1)
  <2>1. Len(Cached) # 0
    BY <1>1, <1>4, EmptySeq DEF Data
  <2>2. 1 \in 0..(Len(rx_buf) - rx_head) /\ rx_head + 1 \in 1..Len(rx_buf)
    BY <1>1, <2>1
  <2>3. d \in Data /\ d \o SubSeq(rx_buf, rx_head + 1 + 1, Len(rx_buf)) = Cached
    BY <1>1, <2>2, DataCut DEF Cached
  <2>4. consumed' = consumed \o d /\ rx_buf[rx_head + 1] \in Byte
    BY <1>1, <1>4, <2>2, AppendByte DEF Data
  <2>5. Cached' = SubSeq(rx_buf, rx_head + 1 + 1, Len(rx_buf))
    BY <1>4 DEF Cached
  <2>6. consumed' \in Data /\ <<rx_buf[rx_head + 1]>> \in Data
    BY <1>1, <2>3, <2>4, DataConcat DEF Data
  <2>7. CallTypeOK' /\ op' = "idle"
    BY <1>1, <1>2, <1>4, <2>6, ReturnType
  <2>8. rx_head' \in 0..Len(rx_buf')
    BY <1>1, <1>4, <2>2
  <2>9. (d \o Cached') \o krx' = Cached \o krx
    BY <1>4, <2>3, <2>5 DEF linkVars
  <2> QED
    BY <1>1, <1>4, <2>3, <2>4, <2>7, <2>8, <2>9, Move DEF linkVars
<1>5. CASE /\ is_open /\ Cached = << >>
           /\ clear_rx_cache
           /\ Block("read_byte", 1, Len(consumed), << >>, 0)
           /\ UNCHANGED <<timed, consumed, sock, read_timeout, write_timeout, linkVars>>
  <2>1. timed' \in BOOLEAN
    BY <1>1, <1>5 DEF CallTypeOK
  <2>2. CallTypeOK'
    BY <1>1, <1>2, <1>5, <2>1, DataEmpty, BlockType
  <2>3. Cached' = << >> /\ rx_buf' \in Data /\ rx_head' \in 0..Len(rx_buf')
    BY <1>5, SubSeqEmpty, DataEmpty DEF Cached, clear_rx_cache
  <2>4. consumed' = consumed \o << >> /\ << >> \o Cached' = << >>
    BY <1>1, <1>5, <2>3, DataEmpty, DataConcatEmpty
  <2>5. (<< >> \o Cached') \o krx' = Cached \o krx
    BY <1>5, <2>4 DEF linkVars
  <2> QED
    BY <1>1, <1>5, <2>2, <2>3, <2>4, <2>5, DataEmpty, Move DEF linkVars
<1> QED
  BY <1>3, <1>4, <1>5 DEF ReadByte

(* refill_rx_cache: the cache it fills was empty, so it now holds exactly  *)
(* what was received.                                                      *)
LEMMA RefilledIs ==
  ASSUME Inv, op # "idle", NEW k \in 1..Len(krx)
  PROVE  /\ Refilled(k) = Take(krx, k) /\ Refilled(k) \in Data /\ Len(Refilled(k)) = k
         /\ Drop(krx, k) \in Data
         /\ Refilled(k) \o Drop(krx, k) = Cached \o krx
<1>1. Cached = << >> /\ krx \in Data /\ k \in 0..Len(krx)
  BY DataLen DEF Inv, RecvOnlyWhenDrained, TypeOK, LinkTypeOK, Data
<1>2. /\ Take(krx, k) \in Data /\ Len(Take(krx, k)) = k /\ Drop(krx, k) \in Data
      /\ Take(krx, k) \o Drop(krx, k) = krx
  BY <1>1, DataTakeDrop
<1>3. Refilled(k) = Take(krx, k) /\ Cached \o krx = krx
  BY <1>1, <1>2, DataConcatEmpty DEF Refilled
<1> QED
  BY <1>2, <1>3

(* read_byte, when the refill has received data.                           *)
LEMMA ReadByteRecvInv ==
  ASSUME Inv, NEW k \in 1..Len(krx), ReadByteRecv(k)
  PROVE  Inv'
<1> DEFINE t == Refilled(k)
           d == SubSeq(t, 1, 1)
<1>1. /\ consumed \in Data /\ krx \in Data /\ from \in Nat /\ CallTypeOK
      /\ blocking \in BOOLEAN /\ k \in Nat /\ k >= 1
  BY DataLen DEF Inv, TypeOK, PortTypeOK, CallTypeOK, LinkTypeOK, Data
<1>2. /\ op = "read_byte" /\ krx' = Drop(krx, k)
      /\ rx_buf' = t /\ rx_head' = 1
      /\ consumed' = Append(consumed, t[1])
      /\ Return("read_byte", 1, from, <<t[1]>>, TRUE)
      /\ UNCHANGED <<sock, read_timeout, write_timeout,
                     handle, blocking, rcvtimeo, sndtimeo, link, sent>>
  BY DEF ReadByteRecv, RecvData
<1>3. t \in Data /\ Len(t) = k /\ Drop(krx, k) \in Data
      /\ t \o Drop(krx, k) = Cached \o krx
  BY <1>2, RefilledIs
<1>4. consumed' = consumed \o d /\ t[1] \in Byte
  BY <1>1, <1>2, <1>3, AppendByte DEF Data
<1>5. d \in Data /\ d \o SubSeq(t, 2, Len(t)) = t
  <2>1. PICK h \in 0..Len(t) : h = 0
    BY <1>1, <1>3
  <2>2. 1 \in 0..(Len(t) - h) /\ h + 1 = 1 /\ h + 1 + 1 = 2
    BY <1>1, <1>3, <2>1
  <2>3. SubSeq(t, h + 1, h + 1) \in Data
        /\ SubSeq(t, h + 1, h + 1) \o SubSeq(t, h + 1 + 1, Len(t)) = SubSeq(t, h + 1, Len(t))
    BY <1>3, <2>2, DataCut
  <2>4. SubSeq(t, 1, Len(t)) = t
    BY <1>3, SubSeqFull DEF Data
  <2> QED
    BY <2>2, <2>3, <2>4
<1>6. Cached' = SubSeq(t, 2, Len(t))
  BY <1>2 DEF Cached
<1>7. consumed' \in Data /\ <<t[1]>> \in Data
  BY <1>1, <1>4, <1>5, DataConcat DEF Data
<1>8. CallTypeOK' /\ op' = "idle"
  <2>1. "read_byte" \in Calls /\ 1 \in Nat
    BY DEF Calls
  <2> QED
    BY <1>1, <1>2, <1>7, <2>1, ReturnType
<1>9. rx_buf' \in Data /\ rx_head' \in 0..Len(rx_buf') /\ krx' \in Data
  BY <1>1, <1>2, <1>3
<1>10. (d \o Cached') \o krx' = Cached \o krx
  BY <1>2, <1>3, <1>5, <1>6
<1> QED
  BY <1>1, <1>2, <1>4, <1>5, <1>8, <1>9, <1>10, Move

(* read_line, up to its first ::recv.                                      *)
LEMMA ReadLineInv ==
  ASSUME Inv, NEW tmo \in BOOLEAN, ReadLine(tmo)
  PROVE  Inv'
<1>1. CASE ReturnAtOnce("read_line", 0, FALSE)
  <2>1. "read_line" \in Calls /\ 0 \in Nat
    BY DEF Calls
  <2> QED
    BY <1>1, <2>1, ReturnAtOnceInv
<1>2. CASE /\ is_open
           /\ ScanLine(rx_buf, rx_head, << >>, Len(consumed), tmo)
           /\ UNCHANGED <<sock, read_timeout, write_timeout, linkVars>>
  <2>1. /\ rx_buf \in Data /\ rx_head \in 0..Len(rx_buf) /\ consumed \in Data
        /\ Len(consumed) \in Nat /\ CallTypeOK /\ krx \in Data /\ blocking \in BOOLEAN
    BY DataLen DEF Inv, TypeOK, PortTypeOK, LinkTypeOK, Data
  <2>2. /\ CallTypeOK'
        /\ op' # "idle" => Cached' = << >>
        /\ rx_buf' \in Data /\ rx_head' \in 0..Len(rx_buf')
        /\ \E d \in Data : /\ consumed' = consumed \o d
                          /\ d \o Cached' = SubSeq(rx_buf, rx_head + 1, Len(rx_buf))
    BY <1>2, <2>1, DataEmpty, ScanLineMoves
  <2>3. PICK d \in Data : consumed' = consumed \o d /\ d \o Cached' = Cached
    BY <2>2 DEF Cached
  <2>4. (d \o Cached') \o krx' = Cached \o krx /\ krx' \in Data
    BY <1>2, <2>1, <2>3 DEF linkVars
  <2> QED
    BY <1>2, <2>1, <2>2, <2>3, <2>4, Move DEF linkVars
<1> QED
  BY <1>1, <1>2 DEF ReadLine

(* read_line, when a refill has received data.                             *)
LEMMA ReadLineRecvInv ==
  ASSUME Inv, NEW k \in 1..Len(krx), ReadLineRecv(k)
  PROVE  Inv'
<1> DEFINE t == Refilled(k)
<1>1. /\ op = "read_line" /\ krx' = Drop(krx, k)
      /\ ScanLine(t, 0, got, from, timed)
      /\ UNCHANGED <<sock, read_timeout, write_timeout,
                     handle, blocking, rcvtimeo, sndtimeo, link, sent>>
  BY DEF ReadLineRecv, RecvData
<1>2. /\ consumed \in Data /\ got \in Data /\ from \in Nat /\ CallTypeOK
      /\ blocking \in BOOLEAN /\ is_open
  BY <1>1 DEF Inv, TypeOK, PortTypeOK, CallTypeOK, LinkTypeOK, RecvOnlyWhenDrained
<1>3. timed \in BOOLEAN
  BY <1>2 DEF CallTypeOK
<1>4. t \in Data /\ Drop(krx, k) \in Data /\ t \o Drop(krx, k) = Cached \o krx
      /\ Len(t) \in Nat
  BY <1>1, RefilledIs, DataLen
<1>5. SubSeq(t, 0 + 1, Len(t)) = t
  <2>1. SubSeq(t, 1, Len(t)) = t
    BY <1>4, SubSeqFull DEF Data
  <2> QED
    BY <2>1
<1>6. /\ CallTypeOK'
      /\ op' # "idle" => Cached' = << >>
      /\ rx_buf' \in Data /\ rx_head' \in 0..Len(rx_buf')
      /\ \E d \in Data : consumed' = consumed \o d /\ d \o Cached' = t
  <2>1. PICK h \in 0..Len(t) : h = 0
    BY <1>4
  <2>2. ScanLine(t, h, got, from, timed)
    BY <1>1, <2>1
  <2>3. /\ CallTypeOK'
        /\ op' # "idle" => Cached' = << >>
        /\ rx_buf' \in Data /\ rx_head' \in 0..Len(rx_buf')
        /\ \E d \in Data : /\ consumed' = consumed \o d
                          /\ d \o Cached' = SubSeq(t, h + 1, Len(t))
    BY <1>2, <1>3, <1>4, <2>2, ScanLineMoves
  <2>4. SubSeq(t, h + 1, Len(t)) = t
    BY <1>5, <2>1
  <2> QED
    BY <2>3, <2>4
<1>7. PICK d \in Data : consumed' = consumed \o d /\ d \o Cached' = t
  BY <1>6
<1>8. (d \o Cached') \o krx' = Cached \o krx /\ krx' \in Data /\ blocking' \in BOOLEAN
  BY <1>1, <1>2, <1>4, <1>7
<1> QED
  BY <1>1, <1>2, <1>6, <1>7, <1>8, Move

(* get_rx_queue_status only looks.                                         *)
LEMMA QueueStatusInv ==
  ASSUME Inv, GetRxQueueStatus
  PROVE  Inv'
<1>1. (IF is_open THEN get_rx_queue_status ELSE 0) \in Nat
  <2>1. rx_head \in 0..Len(rx_buf) /\ Len(rx_buf) \in Nat /\ Len(krx) \in Nat
    BY DataLen DEF Inv, TypeOK, PortTypeOK, LinkTypeOK, Data
  <2> QED
    BY <2>1 DEF get_rx_queue_status
<1>2. is_open \in BOOLEAN
  BY DEF is_open
<1> QED
  BY <1>1, <1>2, ReturnAtOnceInv DEF GetRxQueueStatus

(* purge, up to its first ::recv: the cache is discarded.                  *)
LEMMA PurgeInv ==
  ASSUME Inv, NEW rx \in BOOLEAN, Purge(rx)
  PROVE  Inv'
<1>1. "purge" \in Calls /\ 0 \in Nat
  BY DEF Calls
<1>2. CASE ReturnAtOnce("purge", 0, FALSE)
  BY <1>1, <1>2, ReturnAtOnceInv
<1>3. CASE /\ op = "idle"
           /\ clear_rx_cache
           /\ consumed' = IF is_open THEN consumed \o Cached ELSE consumed
           /\ IF is_open
                THEN Block("purge", Len(sent), Len(consumed), << >>, 0) /\ UNCHANGED timed
                ELSE Return("purge", 0, Len(consumed), << >>, FALSE)
           /\ IF sock THEN SocketSetBlocking(FALSE) ELSE UNCHANGED blocking
           /\ UNCHANGED <<sock, read_timeout, write_timeout,
                          handle, rcvtimeo, sndtimeo, link, krx, sent>>
  <2>1. /\ consumed \in Data /\ Len(consumed) \in Nat /\ Len(sent) \in Nat
        /\ CallTypeOK /\ krx \in Data /\ sent \in Data /\ Cached \in Data
    BY CachedType, DataLen DEF Inv, TypeOK, PortTypeOK, LinkTypeOK, Data
  <2>2. blocking' \in BOOLEAN
    BY <1>3 DEF SocketSetBlocking, Inv, TypeOK, LinkTypeOK
  <2>3. Cached' = << >> /\ rx_buf' \in Data /\ rx_head' \in 0..Len(rx_buf')
    BY <1>3, SubSeqEmpty, DataEmpty DEF Cached, clear_rx_cache
  <2>4. CASE is_open
    <3>1. timed' \in BOOLEAN
      BY <1>3, <2>1, <2>4 DEF CallTypeOK
    <3>2. CallTypeOK'
      BY <1>1, <1>3, <2>1, <2>4, <3>1, DataEmpty, BlockType
    <3>3. (Cached \o Cached') \o krx' = Cached \o krx /\ krx' \in Data
      BY <1>3, <2>1, <2>3, DataConcatEmpty
    <3> QED
      BY <1>3, <2>1, <2>2, <2>3, <2>4, <3>2, <3>3, Move
  <2>5. CASE ~is_open
    <3>1. consumed' \in Data
      BY <1>3, <2>1, <2>5
    <3>2. CallTypeOK' /\ op' = "idle"
      BY <1>1, <1>3, <2>1, <2>5, <3>1, DataEmpty, ReturnType
    <3>3. LinkTypeOK'
      BY <1>3, <2>2 DEF Inv, TypeOK, LinkTypeOK
    <3>4. PortTypeOK'
      BY <1>3, <2>3, <3>1 DEF Inv, TypeOK, PortTypeOK
    <3>5. ~is_open'
      BY <1>3, <2>5 DEF is_open
    <3> QED
      BY <3>2, <3>3, <3>4, <3>5 DEF Inv, TypeOK, StreamIntegrity, RecvOnlyWhenDrained
  <2> QED
    BY <2>4, <2>5
<1> QED
  BY <1>2, <1>3 DEF Purge

(* purge's drain loop, and the return of purge: it discards what it        *)
(* receives, and ends by making the socket blocking again.                 *)
LEMMA PurgeRecvInv ==
  ASSUME Inv, \/ \E k \in 1..Len(krx) : PurgeRecv(k)
              \/ PurgeRecvFails
  PROVE  Inv'
<1>1. CASE \E k \in 1..Len(krx) : PurgeRecv(k)
  <2>1. PICK k \in 1..Len(krx) : PurgeRecv(k)
    BY <1>1
  <2>2. CallTypeOK'
    BY <2>1 DEF PurgeRecv, callVars, Inv, TypeOK, CallTypeOK
  <2> QED
    BY <2>1, <2>2, DirectRecv DEF PurgeRecv, RecvData
<1>2. CASE PurgeRecvFails
  <2>1. /\ consumed \in Data /\ want \in Nat /\ from \in Nat /\ krx \in Data
        /\ rx_buf \in Data /\ rx_head \in 0..Len(rx_buf) /\ Cached \in Data
    BY CachedType DEF Inv, TypeOK, PortTypeOK, CallTypeOK, LinkTypeOK, Data
  <2>2. /\ consumed' = consumed /\ krx' = krx /\ Cached' = Cached
        /\ Return("purge", want, from, << >>, TRUE)
        /\ UNCHANGED <<implVars, handle, rcvtimeo, sndtimeo, link, sent>>
    BY <1>2 DEF PurgeRecvFails, Cached, implVars
  <2>3. blocking' \in BOOLEAN
    BY <1>2 DEF PurgeRecvFails, SocketSetBlocking, Inv, TypeOK, LinkTypeOK
  <2>4. "purge" \in Calls
    BY DEF Calls
  <2>5. CallTypeOK' /\ op' = "idle"
    BY <2>1, <2>2, <2>4, DataEmpty, ReturnType
  <2>6. consumed' = consumed \o << >> /\ (<< >> \o Cached') \o krx' = Cached \o krx
    BY <2>1, <2>2, DataConcatEmpty
  <2> QED
    BY <2>1, <2>2, <2>3, <2>5, <2>6, DataEmpty, Move DEF implVars
<1> QED
  BY <1>1, <1>2

(* Taking a new connection, or giving the old one up, starts an empty      *)
(* stream with an empty cache.                                             *)
LEMMA LifeCycleInv ==
  ASSUME Inv, Open \/ OpenFails \/ Close
  PROVE  Inv'
<1>1. /\ clear_rx_cache /\ krx' = << >> /\ sent' = << >> /\ consumed' = << >>
      /\ UNCHANGED <<read_timeout, write_timeout>>
      /\ sock' \in BOOLEAN /\ handle' \in {"open", "invalid"}
      /\ link' \in {"up", "eof", "lost", "none"}
  BY DEF Open, OpenFails, Close, TakeSocket, FromNative, ClosePort, SocketClose
<1>2. blocking' \in BOOLEAN
  BY DEF Open, OpenFails, Close, TakeSocket, FromNative, ClosePort, SocketClose
<1>3. rcvtimeo' \in Timeout /\ sndtimeo' \in Timeout
  BY DEF Open, OpenFails, Close, TakeSocket, ClosePort, SocketClose, Timeout, Inv,
     TypeOK, PortTypeOK
<1>4. CallTypeOK' /\ op' = "idle"
  <2>1. CASE Return("open", 0, 0, << >>, TRUE)
    BY <1>1, <2>1, DataEmpty, ReturnType
  <2>2. CASE Return("open", 0, 0, << >>, FALSE)
    BY <1>1, <2>2, DataEmpty, ReturnType
  <2>3. CASE Return("close", 0, 0, << >>, TRUE)
    BY <1>1, <2>3, DataEmpty, ReturnType
  <2> QED
    BY <2>1, <2>2, <2>3 DEF Open, OpenFails, Close
<1>5. LinkTypeOK'
  BY <1>1, <1>2, <1>3, DataEmpty DEF LinkTypeOK, Data
<1>6. PortTypeOK'
  BY <1>1, DataEmpty DEF PortTypeOK, clear_rx_cache, Inv, TypeOK
<1>7. Cached' = << >>
  BY <1>1, SubSeqEmpty, DataEmpty DEF Cached, clear_rx_cache
<1>8. StreamIntegrity'
  BY <1>1, <1>7, DataEmpty, DataConcatEmpty DEF StreamIntegrity
<1> QED
  BY <1>4, <1>5, <1>6, <1>8 DEF Inv, TypeOK, RecvOnlyWhenDrained

(* set_timeouts leaves the stream alone.                                   *)
LEMMA SetTimeoutsInv ==
  ASSUME Inv, NEW rd \in Timeouts, NEW wr \in Timeouts, SetTimeouts(rd, wr)
  PROVE  Inv'
<1>1. rd \in Timeout /\ wr \in Timeout
  BY SerialPortAssumption
<1>2. consumed' = consumed /\ consumed \in Data /\ Len(consumed) \in Nat
  BY DataLen DEF SetTimeouts, Inv, TypeOK, PortTypeOK
<1>3. CallTypeOK' /\ op' = "idle"
  BY <1>2, DataEmpty, ReturnType DEF SetTimeouts
<1>4. rcvtimeo' \in Timeout /\ sndtimeo' \in Timeout
  BY <1>1 DEF SetTimeouts, SocketSetTimeouts, Inv, TypeOK, LinkTypeOK
<1>5. LinkTypeOK' /\ PortTypeOK'
  BY <1>1, <1>2, <1>4 DEF SetTimeouts, Inv, TypeOK, LinkTypeOK, PortTypeOK
<1>6. StreamIntegrity'
  BY DEF SetTimeouts, Inv, StreamIntegrity, is_open, Cached
<1> QED
  BY <1>3, <1>5, <1>6 DEF Inv, TypeOK, RecvOnlyWhenDrained

(* Closing the Socket under the port: the port is no longer open.          *)
LEMMA RawCloseInv ==
  ASSUME Inv, RawClose
  PROVE  Inv'
<1>1. consumed' = consumed /\ consumed \in Data /\ Len(consumed) \in Nat
  BY DataLen DEF RawClose, Inv, TypeOK, PortTypeOK
<1>2. CallTypeOK' /\ op' = "idle"
  BY <1>1, DataEmpty, ReturnType DEF RawClose
<1>3. LinkTypeOK' /\ PortTypeOK'
  BY <1>1, DataEmpty DEF RawClose, SocketClose, implVars, Inv, TypeOK, LinkTypeOK,
     PortTypeOK, Timeout, Data
<1>4. ~is_open'
  BY DEF RawClose, SocketClose, is_open
<1> QED
  BY <1>2, <1>3, <1>4 DEF Inv, TypeOK, StreamIntegrity, RecvOnlyWhenDrained

(* Changing the socket's mode leaves the stream alone.                     *)
LEMMA RawSetBlockingInv ==
  ASSUME Inv, NEW b \in BOOLEAN, RawSetBlocking(b)
  PROVE  Inv'
<1>1. consumed' = consumed /\ consumed \in Data /\ Len(consumed) \in Nat
  BY DataLen DEF RawSetBlocking, Inv, TypeOK, PortTypeOK
<1>2. CallTypeOK' /\ op' = "idle"
  <2>1. CASE b
    BY <1>1, <2>1, DataEmpty, ReturnType DEF RawSetBlocking
  <2>2. CASE ~b
    BY <1>1, <2>2, DataEmpty, ReturnType DEF RawSetBlocking
  <2> QED
    BY <2>1, <2>2
<1>3. blocking' \in BOOLEAN
  BY DEF RawSetBlocking, SocketSetBlocking, Inv, TypeOK, LinkTypeOK
<1>4. LinkTypeOK' /\ PortTypeOK'
  BY <1>1, <1>3 DEF RawSetBlocking, implVars, Inv, TypeOK, LinkTypeOK, PortTypeOK
<1>5. StreamIntegrity'
  BY DEF RawSetBlocking, implVars, Inv, StreamIntegrity, is_open, Cached
<1> QED
  BY <1>2, <1>4, <1>5 DEF Inv, TypeOK, RecvOnlyWhenDrained

(* The peer's steps add to the end of the stream, or end it.               *)
LEMMA EnvInv ==
  ASSUME Inv, EnvNext
  PROVE  Inv'
<1>1. CallTypeOK' /\ PortTypeOK'
  BY DEF EnvNext, portVars, implVars, callVars, Inv, TypeOK, CallTypeOK, PortTypeOK
<1>2. RecvOnlyWhenDrained'
  <2>1. UNCHANGED <<handle, portVars>>
    BY DEF EnvNext, PeerNext, PeerSend, PeerDisconnects, LinkLoss
  <2> QED
    BY <2>1 DEF Inv, RecvOnlyWhenDrained, is_open, Cached, portVars, implVars, callVars
<1>3. CASE \E b \in Byte : PeerSend(b)
  <2>1. PICK b \in Byte : PeerSend(b)
    BY <1>3
  <2>2. krx \in Data /\ sent \in Data /\ consumed \in Data /\ Cached \in Data
    BY CachedType DEF Inv, TypeOK, LinkTypeOK, PortTypeOK, Data
  <2>3. <<b>> \in Data /\ krx' = krx \o <<b>> /\ sent' = sent \o <<b>>
    BY <2>1, <2>2, AppendIsConcat DEF PeerSend, Data
  <2>4. krx' \in Data /\ sent' \in Data
    BY <2>2, <2>3, DataConcat
  <2>5. LinkTypeOK'
    BY <2>1, <2>4 DEF PeerSend, Inv, TypeOK, LinkTypeOK, Data
  <2>6. StreamIntegrity'
    <3> SUFFICES ASSUME is_open' PROVE consumed' \o Cached' \o krx' = sent'
      BY DEF StreamIntegrity
    <3>1. consumed \o Cached \o krx = sent
      BY <2>1 DEF EnvNext, portVars, implVars, PeerSend, is_open, Inv, StreamIntegrity
    <3>2. consumed' = consumed /\ Cached' = Cached
      BY DEF EnvNext, portVars, implVars, Cached
    <3>3. consumed \o Cached \in Data
      BY <2>2, DataConcat
    <3>4. ((consumed \o Cached) \o krx) \o <<b>> = (consumed \o Cached) \o (krx \o <<b>>)
      BY <2>2, <2>3, <3>3, DataAssoc, Zenon
    <3> QED
      BY <2>3, <3>1, <3>2, <3>4, Zenon
  <2> QED
    BY <1>1, <1>2, <2>5, <2>6 DEF Inv, TypeOK
<1>4. CASE PeerDisconnects \/ LinkLoss
  <2>1. LinkTypeOK'
    BY <1>4 DEF PeerDisconnects, LinkLoss, Inv, TypeOK, LinkTypeOK
  <2>2. StreamIntegrity'
    BY <1>4 DEF PeerDisconnects, LinkLoss, EnvNext, portVars, implVars, Inv,
       StreamIntegrity, is_open, Cached
  <2> QED
    BY <1>1, <1>2, <2>1, <2>2 DEF Inv, TypeOK
<1> QED
  BY <1>3, <1>4 DEF EnvNext, PeerNext

(* A stuttering step.                                                      *)
LEMMA StutterInv ==
  ASSUME Inv, UNCHANGED vars
  PROVE  Inv'
<1>1. CallTypeOK'
  BY DEF vars, portVars, callVars, Inv, TypeOK, CallTypeOK
<1>2. op' # "idle" => op # "idle"
  BY DEF vars, portVars, callVars
<1> QED
  BY <1>1, <1>2, Still DEF vars, portVars

(* Inv is inductive.                                                       *)
LEMMA NextInv == Inv /\ [Next]_vars => Inv'
<1> SUFFICES ASSUME Inv, [Next]_vars PROVE Inv'
  OBVIOUS
<1>1. CASE CallNext
  <2>1. CASE \E n \in 0..MaxWant : Read(n) \/ ReadExact(n)
    BY <2>1, ReadInv, SerialPortAssumption
  <2>2. CASE ReadByte
    BY <2>2, ReadByteInv
  <2>3. CASE \E tmo \in BOOLEAN : ReadLine(tmo)
    BY <2>3, ReadLineInv
  <2>4. CASE GetRxQueueStatus
    BY <2>4, QueueStatusInv
  <2>5. CASE \E rx \in BOOLEAN : Purge(rx)
    BY <2>5, PurgeInv
  <2>6. CASE Open \/ OpenFails \/ Close
    BY <2>6, LifeCycleInv
  <2>7. CASE OpenUnparsable
    BY <2>7, ReturnAtOnceInv DEF OpenUnparsable
  <2>8. CASE RawClose
    BY <2>8, RawCloseInv
  <2>9. CASE \E rd, wr \in Timeouts : SetTimeouts(rd, wr)
    BY <2>9, SetTimeoutsInv
  <2>10. CASE \E b \in BOOLEAN : RawSetBlocking(b)
    BY <2>10, RawSetBlockingInv
  <2> QED
    BY <1>1, <2>1, <2>2, <2>3, <2>4, <2>5, <2>6, <2>7, <2>8, <2>9, <2>10 DEF CallNext
<1>2. CASE RecvNext
  <2>1. CASE \E k \in 1..Len(krx) : ReadRecv(k) \/ ReadExactRecv(k)
    BY <2>1, ReadRecvInv
  <2>2. CASE \E k \in 1..Len(krx) : ReadByteRecv(k)
    BY <2>2, ReadByteRecvInv
  <2>3. CASE \E k \in 1..Len(krx) : ReadLineRecv(k)
    BY <2>3, ReadLineRecvInv
  <2>4. CASE \/ \E k \in 1..Len(krx) : PurgeRecv(k)
             \/ PurgeRecvFails
    BY <2>4, PurgeRecvInv
  <2>5. CASE \/ ReadRecvFails \/ ReadExactRecvFails \/ ReadByteRecvFails
             \/ ReadLineRecvFails
    BY <2>5, RecvFailsInv
  <2> QED
    BY <1>2, <2>1, <2>2, <2>3, <2>4, <2>5 DEF RecvNext
<1>3. CASE EnvNext
  BY <1>3, EnvInv
<1>4. CASE UNCHANGED vars
  BY <1>4, StutterInv
<1> QED
  BY <1>1, <1>2, <1>3, <1>4 DEF Next

-----------------------------------------------------------------------------
(* The invariant holds in every reachable state.                           *)
THEOREM Invariance == Spec => []Inv
BY InitInv, NextInv, PTL DEF Spec

(* Every variable of the port stays in its domain; in particular rx_head   *)
(* never passes the end of rx_buf.                                         *)
THEOREM TypeCorrect == Spec => []TypeOK
<1>1. Inv => TypeOK
  BY DEF Inv
<1> QED
  BY <1>1, Invariance, PTL

(* However read, read_exact, read_byte, read_line and purge are mixed, and *)
(* however the kernel cuts the stream, the application has got a prefix of *)
(* what the peer sent, and the cache and the kernel hold the rest in order.*)
THEOREM Integrity == Spec => []StreamIntegrity
<1>1. Inv => StreamIntegrity
  BY DEF Inv
<1> QED
  BY <1>1, Invariance, PTL

(* No call receives from the socket while bytes are cached.                *)
THEOREM DrainedFirst == Spec => []RecvOnlyWhenDrained
<1>1. Inv => RecvOnlyWhenDrained
  BY DEF Inv
<1> QED
  BY <1>1, Invariance, PTL

-----------------------------------------------------------------------------
(* The socket's configuration.                                             *)

(* The three facts about the configuration need one another only through   *)
(* sock and handle; together with Inv they are inductive.                  *)
ConfigInv == TimeoutsApplied /\ BlockingRestored /\ NoOrphanHandle

ConfigVars == <<sock, handle, blocking, nonblock, rcvtimeo, sndtimeo,
                read_timeout, write_timeout>>

(* A step that leaves the configuration alone, does not end a purge and    *)
(* touches the cache of a port with a socket only.                         *)
LEMMA ConfigKept ==
  ASSUME ConfigInv, UNCHANGED ConfigVars, op = "purge" => op' = "purge",
         rx_buf' = rx_buf \/ rx_buf' = << >> \/ sock
  PROVE  ConfigInv'
<1>1. TimeoutsApplied'
  BY DEF ConfigInv, ConfigVars, TimeoutsApplied, is_open
<1>2. BlockingRestored'
  BY DEF ConfigInv, ConfigVars, BlockingRestored, is_open
<1>3. NoOrphanHandle'
  BY DEF ConfigInv, ConfigVars, NoOrphanHandle
<1> QED
  BY <1>1, <1>2, <1>3 DEF ConfigInv

(* The calls that read leave the history of the socket's mode alone.       *)
LEMMA ReturnMode ==
  ASSUME Inv, NEW call, NEW n, NEW start, NEW d, NEW ok,
         call \in {"read", "read_exact", "read_byte", "read_line",
                   "get_rx_queue_status", "set_timeouts"} \/ ~ok,
         call # "set_nonblocking",
         Return(call, n, start, d, ok)
  PROVE  nonblock' = nonblock /\ op' = "idle"
<1>1. nonblock \in BOOLEAN
  BY DEF Inv, TypeOK, CallTypeOK
<1>2. nonblock' = (nonblock \/ call = "set_nonblocking")
  BY DEF Return
<1>3. (nonblock \/ call = "set_nonblocking") = nonblock
  BY <1>1
<1> QED
  BY <1>2, <1>3 DEF Return

(* Calls that return at once.                                              *)
LEMMA ReturnAtOnceConfig ==
  ASSUME Inv, ConfigInv, op = "idle", NEW call, NEW n, NEW ok,
         call \in {"read", "read_exact", "read_byte", "read_line",
                   "get_rx_queue_status", "set_timeouts"} \/ ~ok,
         call # "set_nonblocking",
         ReturnAtOnce(call, n, ok)
  PROVE  ConfigInv'
<1>1. Return(call, n, Len(consumed), << >>, ok) /\ UNCHANGED <<implVars, linkVars>>
  BY DEF ReturnAtOnce
<1>2. nonblock' = nonblock
  BY <1>1, ReturnMode
<1> QED
  BY <1>1, <1>2, ConfigKept DEF ConfigVars, implVars, linkVars

(* The reading calls, up to their first ::recv.                            *)
LEMMA ReadConfig ==
  ASSUME Inv, ConfigInv, NEW n \in Nat, Read(n) \/ ReadExact(n)
  PROVE  ConfigInv'
<1>1. op = "idle"
  BY DEF Read, ReadExact
<1>2. CASE \E call \in {"read", "read_exact"}, ok \in BOOLEAN : ReturnAtOnce(call, n, ok)
  BY <1>1, <1>2, ReturnAtOnceConfig
<1>3. ASSUME NEW call \in {"read", "read_exact"}, DrainThenRecv(call, n)
      PROVE  ConfigInv'
  <2>1. nonblock' = nonblock
    <3>1. CASE \E d : Return(call, n, Len(consumed), d, TRUE)
      BY <3>1, ReturnMode
    <3>2. CASE \E d, k : Block(call, n, Len(consumed), d, k)
      BY <3>2 DEF Block
    <3> QED
      BY <1>3, <3>1, <3>2 DEF DrainThenRecv
  <2>2. UNCHANGED <<rx_buf, sock, read_timeout, write_timeout, linkVars>>
    BY <1>3 DEF DrainThenRecv
  <2> QED
    BY <1>1, <2>1, <2>2, ConfigKept DEF ConfigVars, linkVars
<1> QED
  BY <1>2, <1>3 DEF Read, ReadExact

(* read and read_exact, when ::recv returns.                               *)
LEMMA ReadRecvConfig ==
  ASSUME Inv, ConfigInv,
         \/ \E k \in 1..Len(krx) : ReadRecv(k) \/ ReadExactRecv(k)
         \/ ReadRecvFails \/ ReadExactRecvFails \/ ReadByteRecvFails
         \/ ReadLineRecvFails
  PROVE  ConfigInv'
<1>1. op # "purge"
  BY DEF ReadRecv, ReadExactRecv, ReadRecvFails, ReadExactRecvFails, ReadByteRecvFails,
     ReadLineRecvFails
<1>2. UNCHANGED <<implVars, handle, blocking, rcvtimeo, sndtimeo>>
  BY DEF ReadRecv, ReadExactRecv, ReadRecvFails, ReadExactRecvFails, ReadByteRecvFails,
     ReadLineRecvFails, linkVars
<1>3. nonblock' = nonblock
  <2>1. ASSUME NEW call \in {"read", "read_exact", "read_byte", "read_line"},
               NEW n, NEW d, NEW ok, Return(call, n, from, d, ok)
        PROVE  nonblock' = nonblock
    BY <2>1, ReturnMode
  <2>2. ASSUME NEW n, NEW d, Block("read_exact", n, from, d, 0)
        PROVE  nonblock' = nonblock
    BY <2>2 DEF Block
  <2>3. CASE \E k \in 1..Len(krx) : ReadRecv(k) \/ ReadExactRecv(k)
    BY <2>1, <2>2, <2>3 DEF ReadRecv, ReadExactRecv
  <2>4. CASE ReadRecvFails \/ ReadExactRecvFails
    BY <2>1, <2>2, <2>4 DEF ReadRecvFails, ReadExactRecvFails
  <2>5. CASE ReadByteRecvFails \/ ReadLineRecvFails
    BY <2>1, <2>5 DEF ReadByteRecvFails, ReadLineRecvFails
  <2> QED
    BY <2>3, <2>4, <2>5
<1> QED
  BY <1>1, <1>2, <1>3, ConfigKept DEF ConfigVars, implVars

(* read_byte.                                                              *)
LEMMA ReadByteConfig ==
  ASSUME Inv, ConfigInv, ReadByte \/ \E k \in 1..Len(krx) : ReadByteRecv(k)
  PROVE  ConfigInv'
<1>1. CASE ReadByte
  <2>1. op = "idle"
    BY <1>1 DEF ReadByte
  <2>2. CASE ReturnAtOnce("read_byte", 1, FALSE)
    BY <2>1, <2>2, ReturnAtOnceConfig
  <2>3. CASE /\ is_open
             /\ rx_buf' = rx_buf \/ rx_buf' = << >>
             /\ \/ \E d : Return("read_byte", 1, Len(consumed), d, TRUE)
                \/ Block("read_byte", 1, Len(consumed), << >>, 0)
             /\ UNCHANGED <<sock, read_timeout, write_timeout, linkVars>>
    <3>1. nonblock' = nonblock
      BY <2>3, ReturnMode DEF Block
    <3> QED
      BY <2>1, <2>3, <3>1, ConfigKept DEF ConfigVars, linkVars
  <2> QED
    BY <1>1, <2>2, <2>3 DEF ReadByte, clear_rx_cache
<1>2. CASE \E k \in 1..Len(krx) : ReadByteRecv(k)
  <2>1. PICK k \in 1..Len(krx) : ReadByteRecv(k)
    BY <1>2
  <2>2. op = "read_byte" /\ UNCHANGED <<sock, read_timeout, write_timeout,
                            handle, blocking, rcvtimeo, sndtimeo>>
    BY <2>1 DEF ReadByteRecv
  <2>3. nonblock' = nonblock
    BY <2>1, ReturnMode DEF ReadByteRecv
  <2>4. sock
    BY <2>2 DEF Inv, RecvOnlyWhenDrained, is_open
  <2> QED
    BY <2>2, <2>3, <2>4, ConfigKept DEF ConfigVars
<1> QED
  BY <1>1, <1>2

(* read_line.                                                              *)
LEMMA ReadLineConfig ==
  ASSUME Inv, ConfigInv, \/ \E tmo \in BOOLEAN : ReadLine(tmo)
                         \/ \E k \in 1..Len(krx) : ReadLineRecv(k)
  PROVE  ConfigInv'
<1>1. CASE op = "idle" /\ ReturnAtOnce("read_line", 0, FALSE)
  BY <1>1, ReturnAtOnceConfig
<1>2. CASE /\ op # "purge" /\ sock
           /\ \E buf, head, acc, start, tmo : ScanLine(buf, head, acc, start, tmo)
           /\ UNCHANGED <<sock, read_timeout, write_timeout,
                          handle, blocking, rcvtimeo, sndtimeo>>
  <2>1. ASSUME NEW start, NEW d, NEW ok, Return("read_line", 0, start, d, ok)
        PROVE  nonblock' = nonblock
    BY <2>1, ReturnMode
  <2>2. ASSUME NEW start, NEW d, Block("read_line", 0, start, d, 0)
        PROVE  nonblock' = nonblock
    BY <2>2 DEF Block
  <2>3. PICK buf, head, acc, start, tmo : ScanLine(buf, head, acc, start, tmo)
    BY <1>2
  <2>4. \/ \E i : Return("read_line", 0, start,
                       StripCR(acc \o SubSeq(buf, head + 1, head + i - 1)), TRUE)
        \/ Return("read_line", 0, start, acc \o SubSeq(buf, head + 1, Len(buf)), FALSE)
        \/ Block("read_line", 0, start, acc \o SubSeq(buf, head + 1, Len(buf)), 0)
    BY <2>3, Zenon DEF ScanLine
  <2>5. nonblock' = nonblock
    BY <2>1, <2>2, <2>4, Zenon
  <2> QED
    BY <1>2, <2>5, ConfigKept DEF ConfigVars
<1>3. CASE \E tmo \in BOOLEAN : ReadLine(tmo)
  BY <1>1, <1>2, <1>3 DEF ReadLine, is_open, linkVars
<1>4. CASE \E k \in 1..Len(krx) : ReadLineRecv(k)
  <2>1. op = "read_line"
    BY <1>4 DEF ReadLineRecv
  <2>2. sock
    BY <2>1 DEF Inv, RecvOnlyWhenDrained, is_open
  <2> QED
    BY <1>2, <1>4, <2>1, <2>2 DEF ReadLineRecv
<1> QED
  BY <1>3, <1>4

(* purge: the socket is non-blocking while it is drained, and blocking, as *)
(* the history says, when purge returns.                                   *)
LEMMA PurgeConfig ==
  ASSUME Inv, ConfigInv, \/ \E rx \in BOOLEAN : Purge(rx)
                         \/ \E k \in 1..Len(krx) : PurgeRecv(k)
                         \/ PurgeRecvFails
  PROVE  ConfigInv'
<1>1. CASE op = "idle" /\ ReturnAtOnce("purge", 0, FALSE)
  BY <1>1, ReturnAtOnceConfig
<1>2. CASE /\ op = "idle" /\ is_open /\ clear_rx_cache
           /\ Block("purge", Len(sent), Len(consumed), << >>, 0)
           /\ UNCHANGED <<sock, read_timeout, write_timeout, handle, rcvtimeo, sndtimeo>>
  <2>1. op' = "purge" /\ rx_buf' = << >>
    BY <1>2 DEF Block, clear_rx_cache
  <2> QED
    BY <1>2, <2>1 DEF ConfigInv, TimeoutsApplied, BlockingRestored, NoOrphanHandle, is_open
<1>3. CASE /\ ~is_open /\ clear_rx_cache
           /\ UNCHANGED <<sock, handle>>
  <2>1. ~is_open' /\ rx_buf' = << >>
    BY <1>3 DEF is_open, clear_rx_cache
  <2> QED
    BY <1>3, <2>1 DEF ConfigInv, TimeoutsApplied, BlockingRestored, NoOrphanHandle
<1>4. CASE \E rx \in BOOLEAN : Purge(rx)
  BY <1>1, <1>2, <1>3, <1>4 DEF Purge
<1>5. CASE \E k \in 1..Len(krx) : PurgeRecv(k)
  BY <1>5, ConfigKept DEF PurgeRecv, implVars, callVars, ConfigVars
<1>6. CASE PurgeRecvFails
  <2>1. Return("purge", want, from, << >>, TRUE) /\ handle = "open"
        /\ UNCHANGED <<implVars, handle, rcvtimeo, sndtimeo>>
    BY <1>6 DEF PurgeRecvFails, RecvFails
  <2>2. blocking' = TRUE
    BY <1>6, <2>1 DEF PurgeRecvFails, SocketSetBlocking
  <2>3. nonblock' = FALSE
    BY <2>1 DEF Return
  <2>4. BlockingRestored'
    BY <2>2, <2>3 DEF BlockingRestored
  <2> QED
    BY <2>1, <2>4 DEF ConfigInv, TimeoutsApplied, NoOrphanHandle, is_open, implVars
<1> QED
  BY <1>4, <1>5, <1>6

(* The calls that configure, take or give up the socket.                   *)
LEMMA LifeCycleConfig ==
  ASSUME Inv, ConfigInv,
         \/ Open \/ OpenFails \/ OpenUnparsable \/ Close \/ RawClose
         \/ \E b \in BOOLEAN : RawSetBlocking(b)
         \/ \E rd, wr \in Timeouts : SetTimeouts(rd, wr)
  PROVE  ConfigInv'
<1> USE DEF ConfigInv, TimeoutsApplied, BlockingRestored, NoOrphanHandle
<1>1. CASE Open
  <2>1. nonblock' = FALSE /\ blocking' = TRUE
    BY <1>1 DEF Open, TakeSocket, FromNative, Return
  <2>2. BlockingRestored'
    BY <2>1
  <2>3. TimeoutsApplied' /\ NoOrphanHandle'
    BY <1>1 DEF Open, TakeSocket
  <2> QED
    BY <2>2, <2>3
<1>2. CASE OpenFails \/ Close
  <2>1. ~is_open' /\ handle' = "invalid" /\ rx_buf' = << >>
    BY <1>2 DEF OpenFails, Close, ClosePort, SocketClose, clear_rx_cache, is_open
  <2> QED
    BY <2>1
<1>3. CASE OpenUnparsable
  BY <1>3, ReturnAtOnceConfig DEF OpenUnparsable
<1>4. CASE RawClose
  <2>1. ~is_open' /\ handle' = "invalid" /\ UNCHANGED <<sock, rx_buf>>
    BY <1>4 DEF RawClose, SocketClose, implVars, is_open
  <2> QED
    BY <2>1
<1>5. ASSUME NEW b \in BOOLEAN, RawSetBlocking(b) PROVE ConfigInv'
  <2>1. blocking' = b /\ UNCHANGED <<implVars, handle, rcvtimeo, sndtimeo>>
    BY <1>5 DEF RawSetBlocking, SocketSetBlocking, is_open
  <2>2. CASE b
    <3>1. nonblock' = FALSE
      BY <1>5, <2>2 DEF RawSetBlocking, Return
    <3>2. BlockingRestored'
      BY <2>1, <2>2, <3>1
    <3> QED
      BY <2>1, <3>2 DEF implVars, is_open
  <2>3. CASE ~b
    <3>1. nonblock' = TRUE
      BY <1>5, <2>3 DEF RawSetBlocking, Return
    <3>2. BlockingRestored'
      BY <2>1, <2>3, <3>1
    <3> QED
      BY <2>1, <3>2 DEF implVars, is_open
  <2> QED
    BY <2>2, <2>3
<1>6. ASSUME NEW rd \in Timeouts, NEW wr \in Timeouts, SetTimeouts(rd, wr)
      PROVE  ConfigInv'
  <2>1. nonblock' = nonblock /\ UNCHANGED <<sock, rx_buf, handle, blocking>> /\ op = "idle"
    BY <1>6, ReturnMode DEF SetTimeouts
  <2>2. TimeoutsApplied'
    BY <1>6 DEF SetTimeouts, SocketSetTimeouts, is_open
  <2>3. BlockingRestored' /\ NoOrphanHandle'
    BY <2>1 DEF is_open
  <2> QED
    BY <2>2, <2>3
<1> QED
  BY <1>1, <1>2, <1>3, <1>4, <1>5, <1>6

(* With Inv, ConfigInv is inductive.                                       *)
LEMMA NextConfig == Inv /\ ConfigInv /\ [Next]_vars => ConfigInv'
<1> SUFFICES ASSUME Inv, ConfigInv, [Next]_vars PROVE ConfigInv'
  OBVIOUS
<1>1. CASE CallNext
  <2>1. CASE \E n \in 0..MaxWant : Read(n) \/ ReadExact(n)
    BY <2>1, ReadConfig, SerialPortAssumption
  <2>2. CASE GetRxQueueStatus
    BY <2>2, ReturnAtOnceConfig DEF GetRxQueueStatus
  <2> QED
    BY <1>1, <2>1, <2>2, ReadByteConfig, ReadLineConfig, PurgeConfig, LifeCycleConfig
       DEF CallNext
<1>2. CASE RecvNext
  BY <1>2, ReadRecvConfig, ReadByteConfig, ReadLineConfig, PurgeConfig DEF RecvNext
<1>3. CASE EnvNext
  BY <1>3, ConfigKept DEF EnvNext, PeerNext, PeerSend, PeerDisconnects, LinkLoss,
     portVars, implVars, callVars, ConfigVars
<1>4. CASE UNCHANGED vars
  BY <1>4, ConfigKept DEF vars, portVars, implVars, callVars, linkVars, ConfigVars
<1> QED
  BY <1>1, <1>2, <1>3, <1>4 DEF Next

(* The configuration holds in every reachable state.                       *)
LEMMA ConfigInvariance == Spec => []ConfigInv
<1>1. Init => ConfigInv
  BY DEF Init, ConfigInv, TimeoutsApplied, BlockingRestored, NoOrphanHandle, is_open
<1> QED
  BY <1>1, NextConfig, Invariance, PTL DEF Spec

(* set_timeouts before or after open, an open that replaces a connection,  *)
(* a socket closed under the port: while the port is open the kernel's     *)
(* timeouts are the configured ones, each in its own direction.            *)
THEOREM TimeoutsCorrect == Spec => []TimeoutsApplied
<1>1. ConfigInv => TimeoutsApplied
  BY DEF ConfigInv
<1> QED
  BY <1>1, ConfigInvariance, PTL

(* Outside purge an open port's socket is in the mode the application      *)
(* chose, except that a purge leaves it blocking.                          *)
THEOREM BlockingCorrect == Spec => []BlockingRestored
<1>1. ConfigInv => BlockingRestored
  BY DEF ConfigInv
<1> QED
  BY <1>1, ConfigInvariance, PTL

(* A port that has given its socket up holds neither handle nor bytes.     *)
THEOREM NoOrphan == Spec => []NoOrphanHandle
<1>1. ConfigInv => NoOrphanHandle
  BY DEF ConfigInv
<1> QED
  BY <1>1, ConfigInvariance, PTL

-----------------------------------------------------------------------------
(* SerialPort implements ByteStream: with its cache, its calls blocked in  *)
(* ::recv and its configuration forgotten, the port is a stream the        *)
(* application takes prefixes of.                                          *)

(* The peer can send only while the port is open: a port that lets go of a *)
(* Socket closes it, so no connection is up behind a port that is shut.    *)
LinkIsOwned == link = "up" => is_open

(* LinkIsOwned is inductive.                                               *)
LEMMA NextLink == Inv /\ LinkIsOwned /\ [Next]_vars => LinkIsOwned'
<1> SUFFICES ASSUME Inv, LinkIsOwned, [Next]_vars PROVE LinkIsOwned'
  OBVIOUS
<1>1. CASE UNCHANGED <<sock, handle, link>>
  BY <1>1 DEF LinkIsOwned, is_open
<1>2. CASE Open
  BY <1>2 DEF Open, TakeSocket, FromNative, LinkIsOwned, is_open
<1>3. CASE OpenFails \/ Close \/ RawClose
  BY <1>3 DEF OpenFails, Close, RawClose, ClosePort, SocketClose, LinkIsOwned
<1>4. CASE CallNext
  <2>1. CASE \E n \in 0..MaxWant : Read(n) \/ ReadExact(n)
    BY <1>1, <2>1 DEF Read, ReadExact, ReturnAtOnce, DrainThenRecv, implVars, linkVars
  <2>2. CASE ReadByte
    BY <1>1, <2>2 DEF ReadByte, ReturnAtOnce, implVars, linkVars
  <2>3. CASE \E tmo \in BOOLEAN : ReadLine(tmo)
    BY <1>1, <2>3 DEF ReadLine, ReturnAtOnce, implVars, linkVars
  <2>4. CASE GetRxQueueStatus \/ OpenUnparsable
    BY <1>1, <2>4 DEF GetRxQueueStatus, OpenUnparsable, ReturnAtOnce, implVars, linkVars
  <2>5. CASE \E rx \in BOOLEAN : Purge(rx)
    BY <1>1, <2>5 DEF Purge, ReturnAtOnce, implVars, linkVars
  <2>6. CASE \/ \E rd, wr \in Timeouts : SetTimeouts(rd, wr)
             \/ \E b \in BOOLEAN : RawSetBlocking(b)
    BY <1>1, <2>6 DEF SetTimeouts, RawSetBlocking, implVars
  <2> QED
    BY <1>2, <1>3, <1>4, <2>1, <2>2, <2>3, <2>4, <2>5, <2>6 DEF CallNext
<1>5. CASE RecvNext
  BY <1>1, <1>5 DEF RecvNext, ReadRecv, ReadExactRecv, ReadByteRecv, ReadLineRecv,
     PurgeRecv, ReadRecvFails, ReadExactRecvFails, ReadByteRecvFails, ReadLineRecvFails,
     PurgeRecvFails, implVars, linkVars
<1>6. CASE EnvNext
  BY <1>6 DEF EnvNext, PeerNext, PeerSend, PeerDisconnects, LinkLoss, portVars, implVars,
     LinkIsOwned, is_open
<1>7. CASE UNCHANGED vars
  BY <1>1, <1>7 DEF vars, portVars, implVars, linkVars
<1> QED
  BY <1>4, <1>5, <1>6, <1>7 DEF Next

(* LinkIsOwned holds in every reachable state.                             *)
LEMMA LinkInvariance == Spec => []LinkIsOwned
<1>1. Init => LinkIsOwned
  BY DEF Init, LinkIsOwned
<1> QED
  BY <1>1, NextLink, Invariance, PTL DEF Spec

-----------------------------------------------------------------------------
(* Steps of the port as steps of the stream.                               *)

(* A step that takes the bytes d.                                          *)
TakesPiece(d) == is_open /\ is_open' /\ sent' = sent /\ consumed' = consumed \o d

(* A step that leaves the stream alone.                                    *)
Idles == UNCHANGED <<sock, handle, sent, consumed>>

(* The beginning of a concatenation.                                       *)
LEMMA DataPrefix ==
  \A a, b \in Data : SubSeq(a \o b, 1, Len(a)) = a /\ Len(a \o b) = Len(a) + Len(b)
<1> SUFFICES ASSUME NEW a \in Seq(Byte), NEW b \in Seq(Byte)
             PROVE  SubSeq(a \o b, 1, Len(a)) = a /\ Len(a \o b) = Len(a) + Len(b)
  BY DEF Data
<1>1. Len(a \o b) = Len(a) + Len(b) /\ Len(a) \in Nat
  BY ConcatProperties, LenProperties
<1>2. SubSeq(a \o b, 1, Len(a)) = a
  <2>1. CASE Len(a) = 0
    <3>1. a = << >>
      BY <2>1, EmptySeq
    <3>2. SubSeq(a \o b, 1, Len(a)) = << >>
      BY <2>1, SubSeqEmpty
    <3> QED
      BY <3>1, <3>2
  <2>2. CASE Len(a) # 0
    <3>1. 1 \in 1..Len(a) /\ Len(a) \in 1..Len(a)
      BY <1>1, <2>2
    <3>2. SubSeq(a \o b, 1, Len(a)) = SubSeq(a, 1, Len(a))
      BY <3>1, SubSeqOfConcat1
    <3> QED
      BY <3>2, SubSeqFull
  <2> QED
    BY <2>1, <2>2
<1> QED
  BY <1>1, <1>2

(* Taking bytes is a step of the stream, because what the application has  *)
(* is a prefix of what was sent in the state before and in the state after.*)
LEMMA TakesIsStep ==
  ASSUME Inv, Inv', NEW d \in Data, TakesPiece(d)
  PROVE  [Stream!Next]_(Stream!streamVars)
<1>1. /\ consumed \in Data /\ consumed' \in Data /\ Cached' \in Data /\ krx' \in Data
      /\ (consumed' \o Cached') \o krx' = sent
  BY DataRest DEF Inv, TypeOK, PortTypeOK, LinkTypeOK, StreamIntegrity, TakesPiece, Data, Cached
<1>2. Cached' \o krx' \in Data
  BY <1>1, DataConcat
<1>3. Cat(Cat(consumed', Cached'), krx') = Cat(consumed', Cat(Cached', krx'))
  BY <1>1, CatAssoc
<1>4. consumed' \o (Cached' \o krx') = sent
  BY <1>1, <1>3 DEF Cat
<1>5. /\ SubSeq(sent, 1, Len(consumed')) = consumed'
      /\ Len(sent) = Len(consumed') + Len(Cached' \o krx')
  BY <1>1, <1>2, <1>4, DataPrefix
<1>6. Len(consumed') = Len(consumed) + Len(d)
  BY <1>1, DataPrefix DEF TakesPiece
<1>7. Len(consumed) \in Nat /\ Len(d) \in Nat /\ Len(Cached' \o krx') \in Nat
  BY <1>1, <1>2, DataLen
<1>8. is_open' = is_open
  BY DEF TakesPiece, is_open
<1>9. CASE Len(d) = 0
  <2>1. d = << >>
    BY <1>9, EmptySeq DEF Data
  <2>2. consumed' = consumed
    BY <1>1, <2>1, DataConcatEmpty DEF TakesPiece
  <2> QED
    BY <1>8, <2>2 DEF TakesPiece, Stream!streamVars
<1>10. CASE Len(d) # 0
  <2>1. Len(consumed') \in (Len(consumed) + 1)..Len(sent)
    BY <1>5, <1>6, <1>7, <1>10
  <2>2. \E n \in (Len(consumed) + 1)..Len(sent) : consumed' = SubSeq(sent, 1, n)
    BY <1>5, <2>1
  <2>3. Stream!TakeNext
    BY <1>8, <2>2 DEF TakesPiece, Stream!TakeNext
  <2> QED
    BY <2>3 DEF Stream!Next
<1> QED
  BY <1>9, <1>10

(* Leaving the stream alone is a stuttering step of it.                    *)
LEMMA IdlesIsStep ==
  ASSUME Idles
  PROVE  [Stream!Next]_(Stream!streamVars)
<1>1. is_open' = is_open
  BY DEF Idles, is_open
<1> QED
  BY <1>1 DEF Idles, Stream!streamVars

(* What a call that reads does to the stream.                              *)
Reads == Idles \/ \E d \in Data : TakesPiece(d)

(* A call that returns at once, or whose ::recv fails, takes nothing.      *)
LEMMA NothingTaken ==
  ASSUME UNCHANGED <<implVars, handle, sent>>, consumed' = consumed
  PROVE  Reads
BY DEF Reads, Idles, implVars

(* read and read_exact, up to their first ::recv, take what is cached.     *)
LEMMA DrainReads ==
  ASSUME Inv, is_open, NEW call, NEW n \in Nat, DrainThenRecv(call, n)
  PROVE  Reads
<1> DEFINE k == Min2(Len(Cached), n)
           d == SubSeq(rx_buf, rx_head + 1, rx_head + k)
<1>1. /\ rx_buf \in Data /\ rx_head \in 0..Len(rx_buf) /\ Len(rx_buf) \in Nat
      /\ Len(Cached) = Len(rx_buf) - rx_head
  BY CachedType, DataLen DEF Inv, TypeOK, PortTypeOK
<1>2. k \in 0..(Len(rx_buf) - rx_head)
  BY <1>1 DEF Min2
<1>3. d \in Data
  BY <1>1, <1>2, DataCut
<1>4. consumed' = consumed \o d /\ sent' = sent /\ UNCHANGED <<sock, handle>>
  BY DEF DrainThenRecv, linkVars
<1>5. TakesPiece(d)
  BY <1>4 DEF TakesPiece, is_open
<1> QED
  BY <1>3, <1>5 DEF Reads

(* read, read_exact and read_byte before they have to wait.                *)
LEMMA ReadReads ==
  ASSUME Inv, (\E n \in Nat : Read(n) \/ ReadExact(n)) \/ ReadByte
  PROVE  Reads
<1>1. ASSUME NEW call, NEW n, NEW ok, ReturnAtOnce(call, n, ok) PROVE Reads
  BY <1>1, NothingTaken DEF ReturnAtOnce, linkVars
<1>2. ASSUME NEW n \in Nat, Read(n) \/ ReadExact(n) PROVE Reads
  BY <1>1, <1>2, DrainReads DEF Read, ReadExact
<1>3. CASE /\ is_open /\ Cached # << >>
           /\ consumed' = Append(consumed, rx_buf[rx_head + 1])
           /\ UNCHANGED <<sock, linkVars>>
  <2>1. /\ rx_buf \in Data /\ rx_head \in 0..Len(rx_buf) /\ Len(rx_buf) \in Nat
        /\ Cached \in Data /\ Len(Cached) = Len(rx_buf) - rx_head /\ consumed \in Data
    BY CachedType, DataLen DEF Inv, TypeOK, PortTypeOK
  <2>2. Len(Cached) # 0
    BY <1>3, <2>1, EmptySeq DEF Data
  <2>3. rx_head + 1 \in 1..Len(rx_buf) /\ 1 \in 0..(Len(rx_buf) - rx_head)
    BY <2>1, <2>2
  <2>4. SubSeq(rx_buf, rx_head + 1, rx_head + 1) \in Data
    BY <2>1, <2>3, DataCut
  <2>5. consumed' = consumed \o SubSeq(rx_buf, rx_head + 1, rx_head + 1)
    BY <1>3, <2>1, <2>3, AppendByte DEF Data
  <2>6. TakesPiece(SubSeq(rx_buf, rx_head + 1, rx_head + 1))
    BY <1>3, <2>5 DEF TakesPiece, is_open, linkVars
  <2> QED
    BY <2>4, <2>6 DEF Reads
<1>4. CASE ReadByte
  <2>1. CASE UNCHANGED <<consumed, sock, linkVars>>
    BY <2>1 DEF Reads, Idles, linkVars
  <2> QED
    BY <1>1, <1>3, <1>4, <2>1 DEF ReadByte
<1> QED
  BY <1>2, <1>4

(* read_line before it has to wait.                                        *)
LEMMA ReadLineReads ==
  ASSUME Inv, NEW tmo \in BOOLEAN, ReadLine(tmo)
  PROVE  Reads
<1>1. CASE ReturnAtOnce("read_line", 0, FALSE)
  BY <1>1, NothingTaken DEF ReturnAtOnce, linkVars
<1>2. CASE /\ is_open
           /\ ScanLine(rx_buf, rx_head, << >>, Len(consumed), tmo)
           /\ UNCHANGED <<sock, read_timeout, write_timeout, linkVars>>
  <2>1. /\ rx_buf \in Data /\ rx_head \in 0..Len(rx_buf) /\ consumed \in Data
        /\ Len(consumed) \in Nat /\ CallTypeOK
    BY DataLen DEF Inv, TypeOK, PortTypeOK
  <2>2. \E d \in Data : consumed' = consumed \o d
    BY <1>2, <2>1, DataEmpty, ScanLineMoves
  <2>3. is_open' /\ sent' = sent
    BY <1>2 DEF is_open, linkVars
  <2> QED
    BY <1>2, <2>2, <2>3 DEF Reads, TakesPiece
<1> QED
  BY <1>1, <1>2 DEF ReadLine

(* The calls blocked in ::recv, when it returns data.                      *)
LEMMA RecvReads ==
  ASSUME Inv, NEW k \in 1..Len(krx),
         \/ ReadRecv(k) \/ ReadExactRecv(k) \/ ReadByteRecv(k)
         \/ ReadLineRecv(k) \/ PurgeRecv(k)
  PROVE  Reads
<1>1. /\ krx \in Data /\ k \in 0..Len(krx) /\ consumed \in Data
      /\ got \in Data /\ from \in Nat /\ timed \in BOOLEAN /\ CallTypeOK
  BY DataLen DEF Inv, TypeOK, LinkTypeOK, PortTypeOK, CallTypeOK, Data
<1>2. /\ op # "idle" /\ is_open /\ sent' = sent /\ UNCHANGED <<sock, handle>>
  <2>1. op # "idle" /\ sent' = sent /\ UNCHANGED <<sock, handle>>
    BY DEF ReadRecv, ReadExactRecv, ReadByteRecv, ReadLineRecv, PurgeRecv, implVars
  <2> QED
    BY <2>1 DEF Inv, RecvOnlyWhenDrained
<1>3. is_open'
  BY <1>2 DEF is_open
<1>4. \E d \in Data : consumed' = consumed \o d
  <2>1. CASE ReadRecv(k) \/ ReadExactRecv(k) \/ PurgeRecv(k)
    <3>1. Take(krx, k) \in Data
      BY <1>1, DataTakeDrop
    <3> QED
      BY <2>1, <3>1 DEF ReadRecv, ReadExactRecv, PurgeRecv
  <2>2. CASE ReadByteRecv(k)
    <3>1. Refilled(k) \in Data /\ Len(Refilled(k)) = k /\ 1 \in 1..k
      BY <1>1, <1>2, RefilledIs, DataLen
    <3>2. consumed' = consumed \o SubSeq(Refilled(k), 1, 1) /\ Refilled(k)[1] \in Byte
      <4>1. consumed' = Append(consumed, Refilled(k)[1])
        BY <2>2 DEF ReadByteRecv
      <4>2. /\ Append(consumed, Refilled(k)[1]) = consumed \o SubSeq(Refilled(k), 1, 1)
            /\ Refilled(k)[1] \in Byte
        BY <1>1, <3>1, AppendByte DEF Data
      <4> QED
        BY <4>1, <4>2
    <3>3. SubSeq(Refilled(k), 1, 1) \in Data
      BY <3>1, <3>2, SubSeqProperties DEF Data
    <3> QED
      BY <3>2, <3>3
  <2>3. CASE ReadLineRecv(k)
    <3>1. Refilled(k) \in Data /\ Len(Refilled(k)) \in Nat
      BY <1>2, RefilledIs, DataLen
    <3>2. PICK h \in 0..Len(Refilled(k)) : h = 0
      BY <3>1
    <3>3. ScanLine(Refilled(k), h, got, from, timed)
      BY <2>3, <3>2 DEF ReadLineRecv
    <3> QED
      BY <1>1, <3>1, <3>3, ScanLineMoves
  <2> QED
    BY <2>1, <2>2, <2>3
<1> QED
  BY <1>2, <1>3, <1>4 DEF Reads, TakesPiece

(* The steps in which the application takes bytes, or none.                *)
LEMMA ReadsIsStep ==
  ASSUME Inv, Inv', Reads
  PROVE  [Stream!Next]_(Stream!streamVars)
BY TakesIsStep, IdlesIsStep DEF Reads

(* purge, up to its first ::recv, takes what is cached.                    *)
LEMMA PurgeReads ==
  ASSUME Inv, NEW rx \in BOOLEAN, Purge(rx)
  PROVE  Reads
<1>1. UNCHANGED <<sock, handle, sent>>
  BY DEF Purge, ReturnAtOnce, implVars, linkVars
<1>2. consumed' = consumed \/ (is_open /\ consumed' = consumed \o Cached)
  BY DEF Purge, ReturnAtOnce
<1>3. Cached \in Data
  BY CachedType DEF Inv
<1>4. CASE consumed' = consumed
  BY <1>1, <1>4 DEF Reads, Idles
<1>5. CASE is_open /\ consumed' = consumed \o Cached
  <2>1. TakesPiece(Cached)
    BY <1>1, <1>5 DEF TakesPiece, is_open
  <2> QED
    BY <1>3, <2>1 DEF Reads
<1> QED
  BY <1>2, <1>4, <1>5

-----------------------------------------------------------------------------
(* Every step of the port is a step of the stream, or leaves it alone.     *)
LEMMA StepRefines ==
  Inv /\ Inv' /\ LinkIsOwned /\ [Next]_vars => [Stream!Next]_(Stream!streamVars)
<1> SUFFICES ASSUME Inv, Inv', LinkIsOwned, [Next]_vars
             PROVE  [Stream!Next]_(Stream!streamVars)
  OBVIOUS
<1>1. CASE CallNext
  <2>1. CASE \E n \in 0..MaxWant : Read(n) \/ ReadExact(n)
    BY <2>1, ReadReads, ReadsIsStep, SerialPortAssumption
  <2>2. CASE ReadByte
    BY <2>2, ReadReads, ReadsIsStep
  <2>3. CASE \E tmo \in BOOLEAN : ReadLine(tmo)
    BY <2>3, ReadLineReads, ReadsIsStep
  <2>4. CASE GetRxQueueStatus \/ OpenUnparsable
    BY <2>4, NothingTaken, ReadsIsStep DEF GetRxQueueStatus, OpenUnparsable, ReturnAtOnce,
       linkVars
  <2>5. CASE \E rx \in BOOLEAN : Purge(rx)
    BY <2>5, PurgeReads, ReadsIsStep
  <2>6. CASE Open
    <3>1. is_open' = TRUE /\ sent' = << >> /\ consumed' = << >>
      BY <2>6 DEF Open, TakeSocket, FromNative, is_open
    <3> QED
      BY <3>1 DEF Stream!Next, Stream!Reopen
  <2>7. CASE OpenFails \/ Close
    <3>1. is_open' = FALSE /\ sent' = << >> /\ consumed' = << >>
      BY <2>7 DEF OpenFails, Close, ClosePort, is_open
    <3> QED
      BY <3>1 DEF Stream!Next, Stream!Shut
  <2>8. CASE RawClose
    <3>1. is_open' = FALSE /\ sent' = sent /\ consumed' = consumed
      BY <2>8 DEF RawClose, SocketClose, is_open
    <3> QED
      BY <3>1 DEF Stream!Next, Stream!Shut
  <2>9. CASE \/ \E rd, wr \in Timeouts : SetTimeouts(rd, wr)
             \/ \E b \in BOOLEAN : RawSetBlocking(b)
    BY <2>9, IdlesIsStep DEF SetTimeouts, RawSetBlocking, implVars, Idles
  <2> QED
    BY <1>1, <2>1, <2>2, <2>3, <2>4, <2>5, <2>6, <2>7, <2>8, <2>9 DEF CallNext
<1>2. CASE RecvNext
  <2>1. CASE \E k \in 1..Len(krx) :
               \/ ReadRecv(k) \/ ReadExactRecv(k) \/ ReadByteRecv(k)
               \/ ReadLineRecv(k) \/ PurgeRecv(k)
    BY <2>1, RecvReads, ReadsIsStep
  <2>2. CASE \/ ReadRecvFails \/ ReadExactRecvFails \/ ReadByteRecvFails
             \/ ReadLineRecvFails \/ PurgeRecvFails
    BY <2>2, NothingTaken, ReadsIsStep DEF ReadRecvFails, ReadExactRecvFails,
       ReadByteRecvFails, ReadLineRecvFails, PurgeRecvFails, linkVars
  <2> QED
    BY <1>2, <2>1, <2>2 DEF RecvNext
<1>3. CASE EnvNext
  <2>1. UNCHANGED <<sock, handle, consumed>>
    BY <1>3 DEF EnvNext, PeerNext, PeerSend, PeerDisconnects, LinkLoss, portVars, implVars
  <2>2. is_open' = is_open
    BY <2>1 DEF is_open
  <2>3. CASE \E b \in Byte : PeerSend(b)
    <3>1. is_open /\ \E b \in Byte : sent' = Append(sent, b)
      BY <2>3 DEF PeerSend, LinkIsOwned
    <3> QED
      BY <2>1, <2>2, <3>1 DEF Stream!Next, Stream!Write
  <2>4. CASE PeerDisconnects \/ LinkLoss
    BY <2>1, <2>4, IdlesIsStep DEF PeerDisconnects, LinkLoss, Idles
  <2> QED
    BY <1>3, <2>3, <2>4 DEF EnvNext, PeerNext
<1>4. CASE UNCHANGED vars
  BY <1>4, IdlesIsStep DEF vars, portVars, implVars, linkVars, Idles
<1> QED
  BY <1>1, <1>2, <1>3, <1>4 DEF Next

(* The port implements the abstract stream of bytes: whatever mix of calls *)
(* the application makes, it takes the peer's bytes in order, each once,   *)
(* and none of an earlier connection.                                      *)
THEOREM Refinement == Spec => StreamSpec
<1>1. Init => Stream!Init
  <2> SUFFICES ASSUME Init PROVE Stream!Init
    OBVIOUS
  <2>1. is_open = FALSE /\ sent = << >> /\ consumed = << >>
    BY DEF Init, is_open
  <2> QED
    BY <2>1 DEF Stream!Init
<1> QED
  BY <1>1, StepRefines, Invariance, LinkInvariance, PTL DEF Spec, StreamSpec, Stream!Spec
=============================================================================
