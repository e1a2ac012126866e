--------------------------- MODULE SerialPortResults ---------------------------
(***************************************************************************)
(* Proofs about what SerialPort's calls return: read, read_exact,          *)
(* read_byte, read_line, get_rx_queue_status and purge, for every          *)
(* alphabet, chunk size and bound, however the kernel cuts the stream.     *)
(***************************************************************************)
EXTENDS SerialPortProofs

-----------------------------------------------------------------------------
(* The inductive invariant.                                                *)

(* The part of the stream c after its first n bytes.                       *)
Since(c, n) == SubSeq(c, n + 1, Len(c))

(* What a call inside ::recv has done so far: all that it took from the    *)
(* stream is in the caller's buffer or line, which is not full and has no  *)
(* delimiter; and purge remembers how much had arrived.                    *)
CallTaken ==
  op # "idle" =>
    /\ res = NoResult
    /\ from <= Len(consumed)
    /\ op # "purge" => got = Since(consumed, from)
    /\ op \in {"read", "read_exact"} => Len(got) < want
    /\ op = "read_byte" => want = 1 /\ got = << >>
    /\ op = "read_line" => ~HasDelim(got)
    /\ op = "purge" => want <= Len(sent)

ResultInv ==
  /\ CallTaken
  /\ ReadsReturnStreamBytes /\ ReadLineFraming
  /\ QueueStatusHonest /\ PurgeIsComplete

-----------------------------------------------------------------------------
(* Pieces of the stream.                                                   *)

(* Nothing was taken since the last byte.                                  *)
LEMMA SinceNone == \A c \in Data : Since(c, Len(c)) = << >>
<1> SUFFICES ASSUME NEW c \in Seq(Byte) PROVE Since(c, Len(c)) = << >>
  BY DEF Data
<1>1. Len(c) \in Nat
  BY LenProperties
<1> QED
  BY <1>1, SubSeqEmpty DEF Since

(* What was taken since byte n, when d is taken as well.                   *)
LEMMA SinceGrows ==
  \A c, d \in Data : \A n \in 0..Len(c) :
    Since(c \o d, n) = Since(c, n) \o d /\ Since(c, n) \in Data
<1> SUFFICES ASSUME NEW c \in Seq(Byte), NEW d \in Seq(Byte), NEW n \in 0..Len(c)
             PROVE  Since(c \o d, n) = Since(c, n) \o d /\ Since(c, n) \in Seq(Byte)
  BY DEF Data
<1>1. ASSUME NEW s \in Seq(Byte), NEW m \in 0..Len(s)
      PROVE  /\ Since(s, m) \in Seq(Byte) /\ Len(Since(s, m)) = Len(s) - m
             /\ \A i \in 1..(Len(s) - m) : Since(s, m)[i] = s[m + i]
  <2>1. Len(s) \in Nat /\ \A j \in m + 1..Len(s) : s[j] \in Byte
    BY LenProperties, ElementOfSeq
  <2>2. ASSUME NEW i \in 1..(Len(s) - m) PROVE SubSeq(s, m + 1, Len(s))[i] = s[m + i]
    <3>1. m + 1 \in Int /\ Len(s) \in Int /\ i \in 1..(Len(s) - (m + 1) + 1)
      BY <2>1
    <3>2. SubSeq(s, m + 1, Len(s))[i] = s[m + 1 + i - 1]
      BY <2>1, <3>1, SubSeqProperties
    <3>3. m + 1 + i - 1 = m + i
      BY <2>1
    <3> QED
      BY <3>2, <3>3
  <2> QED
    BY <2>2, DataRest DEF Since, Data
<1>2. ASSUME NEW p \in Seq(Byte), NEW q \in Seq(Byte)
      PROVE  /\ Cat(p, q) \in Seq(Byte) /\ Len(Cat(p, q)) = Len(p) + Len(q)
             /\ \A i \in 1..(Len(p) + Len(q)) :
                  Cat(p, q)[i] = IF i <= Len(p) THEN p[i] ELSE q[i - Len(p)]
  BY ConcatProperties DEF Cat
<1>3. Len(c) \in Nat /\ Len(d) \in Nat
  BY LenProperties
<1>4. PICK w \in Seq(Byte) :
        /\ w = Since(c, n) /\ Len(w) = Len(c) - n
        /\ \A i \in 1..(Len(c) - n) : w[i] = c[n + i]
  BY <1>1, Zenon
<1>5. PICK e \in Seq(Byte) :
        /\ e = Cat(c, d) /\ Len(e) = Len(c) + Len(d)
        /\ \A i \in 1..(Len(c) + Len(d)) :
             e[i] = IF i <= Len(c) THEN c[i] ELSE d[i - Len(c)]
  BY <1>2, Zenon
<1>6. PICK u \in Seq(Byte) :
        /\ u = Cat(w, d) /\ Len(u) = Len(w) + Len(d)
        /\ \A i \in 1..(Len(w) + Len(d)) :
             u[i] = IF i <= Len(w) THEN w[i] ELSE d[i - Len(w)]
  BY <1>2, Zenon
<1>7. n \in 0..Len(e)
  BY <1>3, <1>5
<1>8. PICK v \in Seq(Byte) :
        /\ v = Since(e, n) /\ Len(v) = Len(e) - n
        /\ \A i \in 1..(Len(e) - n) : v[i] = e[n + i]
  BY <1>1, <1>7, Zenon
<1>9. Len(u) = Len(v)
  BY <1>3, <1>4, <1>5, <1>6, <1>8
<1>10. ASSUME NEW i \in 1..Len(v) PROVE v[i] = u[i]
  <2>1. /\ i \in 1..(Len(e) - n) /\ n + i \in 1..(Len(c) + Len(d))
        /\ i \in 1..(Len(w) + Len(d))
    BY <1>3, <1>4, <1>5, <1>8
  <2>2. /\ v[i] = e[n + i]
        /\ e[n + i] = IF n + i <= Len(c) THEN c[n + i] ELSE d[n + i - Len(c)]
        /\ u[i] = IF i <= Len(w) THEN w[i] ELSE d[i - Len(w)]
    <3>1. v[i] = e[n + i]
      BY <1>8, <2>1
    <3>2. e[n + i] = IF n + i <= Len(c) THEN c[n + i] ELSE d[n + i - Len(c)]
      BY <1>5, <2>1
    <3>3. u[i] = IF i <= Len(w) THEN w[i] ELSE d[i - Len(w)]
      BY <1>6, <2>1
    <3> QED
      BY <3>1, <3>2, <3>3
  <2>3. PICK l \in Nat : l = Len(w)
    BY LenProperties
  <2>4. l = Len(c) - n
    BY <1>4, <2>3
  <2>5. /\ n + i <= Len(c) <=> i <= l
        /\ n + i - Len(c) = i - l
        /\ i <= l => i \in 1..(Len(c) - n)
    BY <1>3, <2>1, <2>4
  <2> QED
    BY <1>4, <2>2, <2>3, <2>5
<1>11. v = u
  BY <1>9, <1>10, SeqEqual
<1> QED
  BY <1>4, <1>5, <1>6, <1>8, <1>11 DEF Cat

(* Taking d when n bytes had been taken before.                            *)
LEMMA SinceStart ==
  \A c, d \in Data : Since(c \o d, Len(c)) = d
<1> SUFFICES ASSUME NEW c \in Data, NEW d \in Data PROVE Since(c \o d, Len(c)) = d
  OBVIOUS
<1>1. Len(c) \in 0..Len(c)
  BY DataLen
<1> QED
  BY <1>1, SinceGrows, SinceNone, DataConcatEmpty

-----------------------------------------------------------------------------
(* The end of a call.                                                      *)

(* What Return records.                                                    *)
LEMMA ReturnRecords ==
  ASSUME NEW call, NEW size, NEW start, NEW d, NEW ok, Return(call, size, start, d, ok)
  PROVE  /\ op' = "idle" /\ res'.op = call /\ res'.want = size /\ res'.data = d
         /\ res'.ok = ok /\ res'.to = Len(consumed')
         /\ ResRaw' = Since(consumed', start)
<1>1. res' = [op |-> call, want |-> size, data |-> d, ok |-> ok,
              from |-> start, to |-> Len(consumed')]
  BY DEF Return
<1>2. res'.from = start /\ res'.to = Len(consumed')
  BY <1>1
<1>3. ResRaw' = Since(consumed', start)
  BY <1>2 DEF ResRaw, Since
<1> QED
  BY <1>1, <1>3 DEF Return

(* read, read_exact and read_byte return.                                  *)
LEMMA ReadReturns ==
  ASSUME NEW call \in {"read", "read_exact", "read_byte"}, NEW size, NEW start, NEW d,
         NEW ok, Return(call, size, start, d, ok),
         d = Since(consumed', start), Len(d) <= size,
         call # "read" => (ok <=> Len(d) = size)
  PROVE  ResultInv'
<1>1. /\ op' = "idle" /\ res'.op = call /\ res'.want = size /\ res'.data = d
      /\ res'.ok = ok /\ ResRaw' = Since(consumed', start)
  BY ReturnRecords
<1>2. CallTaken' /\ ReadLineFraming' /\ QueueStatusHonest' /\ PurgeIsComplete'
  BY <1>1 DEF CallTaken, ReadLineFraming, QueueStatusHonest, PurgeIsComplete
<1>3. ReadsReturnStreamBytes'
  BY <1>1 DEF ReadsReturnStreamBytes
<1> QED
  BY <1>2, <1>3 DEF ResultInv

(* What a complete line is, with the bytes taken for it in raw: one        *)
(* delimiter, the last, and the data before it less a CR.                  *)
Framed(raw, d) ==
  /\ {i \in 1..Len(raw) : raw[i] = Delim} = {Len(raw)}
  /\ d = SubSeq(raw, 1, Len(raw) - 1 -
                  (IF Len(raw) > 1 /\ raw[Len(raw) - 1] = CR THEN 1 ELSE 0))

(* read_line returns.                                                      *)
LEMMA LineReturns ==
  ASSUME NEW size, NEW start, NEW d, NEW ok \in BOOLEAN,
         Return("read_line", size, start, d, ok), NEW raw, raw = Since(consumed', start),
         ok => Framed(raw, d),
         ~ok => {i \in 1..Len(raw) : raw[i] = Delim} = {} /\ d = raw
  PROVE  ResultInv'
<1>1. /\ op' = "idle" /\ res'.op = "read_line" /\ res'.data = d
      /\ res'.ok = ok /\ ResRaw' = raw
  BY ReturnRecords
<1>2. CallTaken' /\ ReadsReturnStreamBytes' /\ QueueStatusHonest' /\ PurgeIsComplete'
  BY <1>1 DEF CallTaken, ReadsReturnStreamBytes, QueueStatusHonest, PurgeIsComplete
<1>3. ReadLineFraming'
  BY <1>1 DEF ReadLineFraming, Framed
<1> QED
  BY <1>2, <1>3 DEF ResultInv

(* The calls about whose results there is less to say.                     *)
LEMMA OtherReturns ==
  ASSUME NEW call, call \notin {"read", "read_exact", "read_byte", "read_line"},
         NEW size, NEW start, NEW d, NEW ok, Return(call, size, start, d, ok),
         call = "get_rx_queue_status" /\ is_open' => size <= Len(Cached') + Len(krx'),
         call = "purge" /\ ok => Len(consumed') >= size
  PROVE  ResultInv'
<1>1. /\ op' = "idle" /\ res'.op = call /\ res'.want = size
      /\ res'.ok = ok /\ res'.to = Len(consumed')
  BY ReturnRecords
<1>2. CallTaken' /\ ReadsReturnStreamBytes' /\ ReadLineFraming'
  BY <1>1 DEF CallTaken, ReadsReturnStreamBytes, ReadLineFraming
<1>3. QueueStatusHonest' /\ PurgeIsComplete'
  BY <1>1 DEF QueueStatusHonest, PurgeIsComplete
<1> QED
  BY <1>2, <1>3 DEF ResultInv

(* A call enters, or goes back to, ::recv.                                 *)
LEMMA BlocksInv ==
  ASSUME NEW call, NEW size, NEW start, NEW d, NEW copied,
         Block(call, size, start, d, copied), start <= Len(consumed'),
         call # "purge" => d = Since(consumed', start),
         call \in {"read", "read_exact"} => Len(d) < size,
         call = "read_byte" => size = 1 /\ d = << >>,
         call = "read_line" => ~HasDelim(d),
         call = "purge" => size <= Len(sent')
  PROVE  ResultInv'
<1>1. /\ op' = call /\ want' = size /\ got' = d /\ from' = start /\ res' = NoResult
  BY DEF Block
<1>2. NoResult.op = "none"
  BY DEF NoResult
<1>3. /\ ReadsReturnStreamBytes' /\ ReadLineFraming' /\ QueueStatusHonest'
      /\ PurgeIsComplete'
  BY <1>1, <1>2 DEF ReadsReturnStreamBytes, ReadLineFraming, QueueStatusHonest,
     PurgeIsComplete
<1>4. CallTaken'
  BY <1>1 DEF CallTaken
<1> QED
  BY <1>3, <1>4 DEF ResultInv

-----------------------------------------------------------------------------
(* Every step preserves ResultInv.                                         *)

(* What a step that takes d does to the history of the stream.             *)
LEMMA Takes ==
  ASSUME Inv, CallTaken, op # "idle", op # "purge", NEW d \in Data, consumed' = consumed \o d
  PROVE  /\ got \o d = Since(consumed', from) /\ Len(got \o d) = Len(got) + Len(d)
         /\ from <= Len(consumed')
<1>1. /\ consumed \in Data /\ got \in Data /\ from \in Nat /\ Len(consumed) \in Nat
      /\ Len(got) \in Nat /\ Len(d) \in Nat
  BY DataLen DEF Inv, TypeOK, PortTypeOK, CallTypeOK
<1>2. from \in 0..Len(consumed) /\ got = Since(consumed, from)
  BY <1>1 DEF CallTaken
<1>3. Len(consumed \o d) = Len(consumed) + Len(d) /\ Len(got \o d) = Len(got) + Len(d)
  BY <1>1, ConcatProperties DEF Data
<1>4. got \o d = Since(consumed', from)
  BY <1>1, <1>2, SinceGrows
<1>5. from <= Len(consumed')
  BY <1>1, <1>2, <1>3
<1> QED
  BY <1>3, <1>4, <1>5

(* Calls that return at once.                                              *)
LEMMA ReturnAtOnceResult ==
  ASSUME Inv, NEW call, NEW n \in Nat, NEW ok \in BOOLEAN, ReturnAtOnce(call, n, ok),
         call \in {"read_exact", "read_byte"} => (ok <=> n = 0),
         call = "read_line" => ~ok,
         call = "get_rx_queue_status" /\ is_open => n <= Len(Cached) + Len(krx),
         call = "purge" => ~ok
  PROVE  ResultInv'
<1>1. /\ Return(call, n, Len(consumed), << >>, ok) /\ consumed' = consumed
      /\ UNCHANGED <<sock, handle, rx_buf, rx_head, krx>>
  BY DEF ReturnAtOnce, implVars, linkVars
<1>2. Since(consumed', Len(consumed)) = << >> /\ Len(<< >>) = 0
  BY <1>1, SinceNone, DataEmpty DEF Inv, TypeOK, PortTypeOK
<1>3. CASE call \in {"read", "read_exact", "read_byte"}
  <2>1. Len(<< >>) <= n /\ (call # "read" => (ok <=> Len(<< >>) = n))
    BY <1>2, <1>3
  <2> QED
    BY <1>1, <1>2, <1>3, <2>1, ReadReturns
<1>4. CASE call = "read_line"
  <2>1. PICK raw : raw = Since(consumed', Len(consumed))
    OBVIOUS
  <2>2. Return("read_line", n, Len(consumed), raw, ok) /\ ~ok
    BY <1>1, <1>2, <1>4, <2>1
  <2>3. {i \in 1..Len(raw) : raw[i] = Delim} = {}
    BY <1>2, <2>1
  <2> QED
    BY <2>1, <2>2, <2>3, LineReturns
<1>5. CASE call \notin {"read", "read_exact", "read_byte", "read_line"}
  <2>1. is_open' = is_open /\ Cached' = Cached
    BY <1>1 DEF is_open, Cached
  <2> QED
    BY <1>1, <1>5, <2>1, OtherReturns
<1> QED
  BY <1>3, <1>4, <1>5

(* read and read_exact, up to their first ::recv.                          *)
LEMMA ReadResult ==
  ASSUME Inv, NEW n \in 0..MaxWant, Read(n) \/ ReadExact(n)
  PROVE  ResultInv'
<1>0. n \in Nat /\ (n = 0 \/ n > 0)
  BY SerialPortAssumption
<1>1. ASSUME NEW ok \in BOOLEAN, ReturnAtOnce("read", n, ok) PROVE ResultInv'
  BY <1>0, <1>1, ReturnAtOnceResult
<1>2. CASE n = 0 /\ ReturnAtOnce("read_exact", n, TRUE)
  BY <1>0, <1>2, ReturnAtOnceResult
<1>3. CASE n > 0 /\ ReturnAtOnce("read_exact", n, FALSE)
  <2>1. PICK ok \in BOOLEAN : ok = FALSE
    OBVIOUS
  <2>2. n # 0
    BY <1>0, <1>3
  <2>3. ReturnAtOnce("read_exact", n, ok)
    BY <1>3, <2>1
  <2>4. ok <=> n = 0
    BY <2>1, <2>2
  <2> QED
    BY <1>0, <2>3, <2>4, ReturnAtOnceResult
<1>4. ASSUME NEW call \in {"read", "read_exact"}, DrainThenRecv(call, n) PROVE ResultInv'
  <2>1. PICK k : k = Min2(Len(Cached), n)
    OBVIOUS
  <2>2. PICK d : d = SubSeq(rx_buf, rx_head + 1, rx_head + k)
    OBVIOUS
  <2>3. /\ consumed' = consumed \o d
        /\ IF k = n THEN Return(call, n, Len(consumed), d, TRUE)
                    ELSE Block(call, n, Len(consumed), d, k)
    BY <1>4, <2>1, <2>2 DEF DrainThenRecv
  <2>4. rx_buf \in Data /\ rx_head \in 0..Len(rx_buf) /\ consumed \in Data
    BY DEF Inv, TypeOK, PortTypeOK
  <2>5. k \in 0..(Len(rx_buf) - rx_head) /\ k <= n /\ k \in Nat
    BY <1>0, <2>1, <2>4, CachedType, DataLen DEF Inv, Min2
  <2>6. d \in Data /\ Len(d) = k
    BY <2>2, <2>4, <2>5, DataCut
  <2>7. d = Since(consumed', Len(consumed))
    BY <2>3, <2>4, <2>6, SinceStart
  <2>8. Len(consumed) <= Len(consumed')
    <3>1. Len(consumed') = Len(consumed) + Len(d) /\ Len(consumed) \in Nat
      BY <2>3, <2>4, <2>6, ConcatProperties, DataLen DEF Data
    <3> QED
      BY <2>5, <2>6, <3>1
  <2>9. CASE k = n
    <3>1. Return(call, n, Len(consumed), d, TRUE)
      BY <2>3, <2>9
    <3>2. Len(d) <= n /\ (call # "read" => (TRUE <=> Len(d) = n))
      BY <1>0, <2>6, <2>9
    <3> QED
      BY <2>7, <3>1, <3>2, ReadReturns
  <2>10. CASE k # n
    <3>1. Block(call, n, Len(consumed), d, k)
      BY <2>3, <2>10
    <3>2. Len(d) < n
      BY <1>0, <2>5, <2>6, <2>10
    <3> QED
      BY <2>7, <2>8, <3>1, <3>2, BlocksInv
  <2> QED
    BY <2>9, <2>10
<1> QED
  BY <1>0, <1>1, <1>2, <1>3, <1>4 DEF Read, ReadExact

(* read and read_exact, when ::recv returns.                               *)
LEMMA ReadRecvResult ==
  ASSUME Inv, ResultInv,
         \/ \E k \in 1..Len(krx) : ReadRecv(k) \/ ReadExactRecv(k)
         \/ ReadRecvFails \/ ReadExactRecvFails
  PROVE  ResultInv'
<1>0. /\ krx \in Data /\ got \in Data /\ want \in Nat /\ Len(krx) \in Nat /\ Len(got) \in Nat
      /\ CallTaken /\ consumed \in Data
  BY DataLen DEF Inv, TypeOK, CallTypeOK, LinkTypeOK, PortTypeOK, Data, ResultInv
<1>1. ASSUME NEW k \in 1..Len(krx), ReadRecv(k) \/ ReadExactRecv(k) PROVE ResultInv'
  <2>1. PICK d : d = Take(krx, k)
    OBVIOUS
  <2>2. d \in Data /\ Len(d) = k
    BY <1>0, <2>1, DataTakeDrop
  <2>3. /\ consumed' = consumed \o d /\ op \in {"read", "read_exact"}
        /\ RecvData(want - Len(got), k)
    BY <1>1, <2>1 DEF ReadRecv, ReadExactRecv
  <2>4. /\ got \o d = Since(consumed', from) /\ Len(got \o d) = Len(got) + k
        /\ from <= Len(consumed')
    BY <1>0, <2>2, <2>3, Takes
  <2>5. Len(got \o d) <= want
    BY <1>0, <2>3, <2>4 DEF RecvData
  <2>6. CASE ReadRecv(k)
    BY <2>1, <2>4, <2>5, <2>6, ReadReturns DEF ReadRecv
  <2>7. CASE ReadExactRecv(k) /\ Len(got \o d) = want
    <3>1. Return("read_exact", want, from, got \o d, TRUE)
      BY <2>1, <2>7 DEF ReadExactRecv
    <3>2. TRUE <=> Len(got \o d) = want
      BY <2>7
    <3> QED
      BY <2>4, <2>5, <3>1, <3>2, ReadReturns
  <2>8. CASE ReadExactRecv(k) /\ Len(got \o d) # want
    <3>1. Block("read_exact", want, from, got \o d, 0)
      BY <2>1, <2>8 DEF ReadExactRecv
    <3>2. PICK m : m = Len(got \o d)
      OBVIOUS
    <3>3. m = Len(got) + k /\ m <= want /\ m # want
      BY <2>4, <2>5, <2>8, <3>2
    <3>4. m < want
      BY <1>0, <3>3
    <3> QED
      BY <2>4, <3>1, <3>2, <3>4, BlocksInv
  <2> QED
    BY <1>1, <2>6, <2>7, <2>8
<1>2. CASE ReadRecvFails \/ ReadExactRecvFails
  <2>1. consumed' = consumed /\ op \in {"read", "read_exact"}
    BY <1>2 DEF ReadRecvFails, ReadExactRecvFails
  <2>2. got = Since(consumed', from) /\ from <= Len(consumed') /\ Len(got) < want
    BY <1>0, <2>1 DEF CallTaken
  <2>3. Len(got) <= want /\ Len(got) # want
    BY <1>0, <2>2
  <2>4. CASE ReadRecvFails
    BY <2>2, <2>3, <2>4, ReadReturns DEF ReadRecvFails
  <2>5. CASE ReadExactRecvFails /\ part > 0
    <3>1. Block("read_exact", want, from, got, 0)
      BY <2>5 DEF ReadExactRecvFails
    <3> QED
      BY <2>2, <3>1, BlocksInv
  <2>6. CASE ReadExactRecvFails /\ ~(part > 0)
    <3>1. Return("read_exact", want, from, got, FALSE)
      BY <2>6 DEF ReadExactRecvFails
    <3>2. FALSE <=> Len(got) = want
      BY <2>3
    <3> QED
      BY <2>2, <2>3, <3>1, <3>2, ReadReturns
  <2> QED
    BY <1>2, <2>4, <2>5, <2>6
<1> QED
  BY <1>1, <1>2

(* read_byte.                                                              *)
LEMMA ReadByteResult ==
  ASSUME Inv, ResultInv,
         ReadByte \/ (\E k \in 1..Len(krx) : ReadByteRecv(k)) \/ ReadByteRecvFails
  PROVE  ResultInv'
<1>0. /\ rx_buf \in Data /\ rx_head \in 0..Len(rx_buf) /\ Len(rx_buf) \in Nat
      /\ consumed \in Data /\ Len(consumed) \in Nat /\ krx \in Data /\ Len(krx) \in Nat
      /\ CallTaken
  BY DataLen DEF Inv, TypeOK, PortTypeOK, LinkTypeOK, Data, ResultInv
<1>1. ASSUME NEW s \in Data, NEW i \in 1..Len(s), NEW start, start = Len(consumed),
             consumed' = Append(consumed, s[i]),
             Return("read_byte", 1, start, <<s[i]>>, TRUE)
      PROVE  ResultInv'
  <2>1. PICK d : d = <<s[i]>>
    OBVIOUS
  <2>2. d \in Data /\ Len(d) = 1 /\ consumed' = consumed \o d
    <3>1. s[i] \in Byte /\ consumed \in Seq(Byte)
      BY <1>0, ElementOfSeq DEF Data
    <3>2. Append(consumed, s[i]) = consumed \o <<s[i]>>
      BY <3>1, AppendIsConcat
    <3>3. <<s[i]>> \in Seq(Byte) /\ Len(<<s[i]>>) = 1
      BY <3>1
    <3> QED
      BY <1>1, <2>1, <3>2, <3>3 DEF Data
  <2>3. d = Since(consumed', start)
    BY <1>0, <1>1, <2>2, SinceStart
  <2>4. Len(d) <= 1 /\ (TRUE <=> Len(d) = 1)
    BY <2>2
  <2> QED
    BY <1>1, <2>1, <2>3, <2>4, ReadReturns
<1>2. CASE ReadByte
  <2>1. CASE ReturnAtOnce("read_byte", 1, FALSE)
    <3>1. PICK n \in Nat : n = 1
      OBVIOUS
    <3>2. PICK ok \in BOOLEAN : ok = FALSE
      OBVIOUS
    <3>3. ReturnAtOnce("read_byte", n, ok)
      BY <2>1, <3>1, <3>2
    <3>4. n # 0
      BY <3>1
    <3>5. ok <=> n = 0
      BY <3>2, <3>4
    <3> QED
      BY <3>3, <3>5, ReturnAtOnceResult
  <2>2. CASE /\ Cached # << >>
             /\ consumed' = Append(consumed, rx_buf[rx_head + 1])
             /\ Return("read_byte", 1, Len(consumed), <<rx_buf[rx_head + 1]>>, TRUE)
    <3>1. Len(Cached) # 0 /\ Len(Cached) = Len(rx_buf) - rx_head
      BY <2>2, CachedType, EmptySeq DEF Data, Inv
    <3>2. rx_head + 1 \in 1..Len(rx_buf)
      BY <1>0, <3>1
    <3>3. PICK i \in 1..Len(rx_buf) : i = rx_head + 1
      BY <3>2
    <3>4. /\ consumed' = Append(consumed, rx_buf[i])
          /\ Return("read_byte", 1, Len(consumed), <<rx_buf[i]>>, TRUE)
      BY <2>2, <3>3
    <3> QED
      BY <1>0, <1>1, <3>4, Zenon
  <2>3. CASE Block("read_byte", 1, Len(consumed), << >>, 0) /\ UNCHANGED consumed
    <3>1. << >> = Since(consumed', Len(consumed)) /\ Len(consumed) <= Len(consumed')
      BY <1>0, <2>3, SinceNone
    <3> QED
      BY <2>3, <3>1, BlocksInv
  <2> QED
    BY <1>2, <2>1, <2>2, <2>3 DEF ReadByte
<1>3. ASSUME NEW k \in 1..Len(krx), ReadByteRecv(k) PROVE ResultInv'
  <2>1. PICK t : t = Refilled(k)
    OBVIOUS
  <2>2. /\ op = "read_byte" /\ consumed' = Append(consumed, t[1])
        /\ Return("read_byte", 1, from, <<t[1]>>, TRUE)
    BY <1>3, <2>1 DEF ReadByteRecv
  <2>3. t \in Data /\ 1 \in 1..Len(t)
    BY <1>0, <1>3, <2>1, <2>2, RefilledIs
  <2>4. from = Len(consumed)
    <3>1. from \in 0..Len(consumed) /\ Since(consumed, from) = << >>
      BY <1>0, <2>2 DEF CallTaken, Inv, TypeOK, CallTypeOK
    <3>2. Len(Since(consumed, from)) = Len(consumed) - from
      BY <1>0, <3>1, DataRest DEF Since
    <3> QED
      BY <1>0, <3>1, <3>2, DataEmpty
  <2> QED
    BY <1>1, <2>2, <2>3, <2>4
<1>4. CASE ReadByteRecvFails
  <2>1. /\ consumed' = consumed /\ op = "read_byte"
        /\ Return("read_byte", 1, from, << >>, FALSE)
    BY <1>4 DEF ReadByteRecvFails
  <2>2. << >> = Since(consumed', from)
    BY <1>0, <2>1 DEF CallTaken
  <2>3. Len(<< >>) <= 1 /\ (FALSE <=> Len(<< >>) = 1)
    BY DataEmpty
  <2> QED
    BY <2>1, <2>2, <2>3, ReadReturns
<1> QED
  BY <1>2, <1>3, <1>4

-----------------------------------------------------------------------------
(* read_line.                                                              *)

(* Data without a delimiter, put together, has none.                       *)
LEMMA NoDelim ==
  \A a, b \in Data : ~HasDelim(a) /\ ~HasDelim(b) => ~HasDelim(a \o b)
<1> SUFFICES ASSUME NEW a \in Data, NEW b \in Data, ~HasDelim(a), ~HasDelim(b),
                    NEW i \in 1..Len(a \o b)
             PROVE  (a \o b)[i] # Delim
  BY Zenon DEF HasDelim
<1>1. /\ Len(a) \in Nat /\ Len(b) \in Nat /\ Len(a \o b) = Len(a) + Len(b)
      /\ (a \o b)[i] = IF i <= Len(a) THEN a[i] ELSE b[i - Len(a)]
  BY DataLen, ConcatProperties DEF Data
<1>2. i <= Len(a) => i \in 1..Len(a)
  BY <1>1
<1>3. ~(i <= Len(a)) => i - Len(a) \in 1..Len(b)
  BY <1>1
<1> QED
  BY <1>1, <1>2, <1>3 DEF HasDelim

(* Dropping the last byte of raw, and a '\r' before it.                    *)
LEMMA LineCut ==
  ASSUME NEW raw \in Data, NEW l \in Data, Len(raw) = Len(l) + 1,
         \A j \in 1..Len(l) : l[j] = raw[j]
  PROVE  StripCR(l) = SubSeq(raw, 1, Len(raw) - 1 -
                               (IF Len(raw) > 1 /\ raw[Len(raw) - 1] = CR THEN 1 ELSE 0))
<1>1. Len(l) \in Nat /\ raw \in Seq(Byte) /\ l \in Seq(Byte)
  BY DataLen DEF Data
<1>2. ASSUME NEW m \in 0..Len(l) PROVE SubSeq(raw, 1, m) = SubSeq(l, 1, m)
  <2>1. \A j \in 1..m : raw[j] \in Byte /\ l[j] = raw[j]
    BY <1>1, ElementOfSeq
  <2>2. 1 \in Int /\ m \in Int /\ m - 1 + 1 = m
    BY <1>1
  <2>3. /\ SubSeq(raw, 1, m) \in Seq(Byte) /\ SubSeq(l, 1, m) \in Seq(Byte)
        /\ Len(SubSeq(raw, 1, m)) = (IF 1 <= m THEN m ELSE 0)
        /\ Len(SubSeq(l, 1, m)) = (IF 1 <= m THEN m ELSE 0)
        /\ \A j \in 1..m : SubSeq(raw, 1, m)[j] = raw[1 + j - 1]
        /\ \A j \in 1..m : SubSeq(l, 1, m)[j] = l[1 + j - 1]
    BY <2>1, <2>2, SubSeqProperties
  <2>4. \A j \in 1..m : 1 + j - 1 = j
    OBVIOUS
  <2>5. Len(SubSeq(raw, 1, m)) = m
    BY <1>1, <2>3
  <2> QED
    BY <2>1, <2>3, <2>4, <2>5, SeqEqual
<1>3. SubSeq(l, 1, Len(l)) = l
  BY <1>1, SubSeqFull
<1>4. CASE l = << >>
  <2>1. Len(l) = 0 /\ ~(Len(raw) > 1)
    BY <1>1, <1>4, DataEmpty
  <2> QED
    BY <1>1, <1>2, <1>3, <1>4, <2>1 DEF StripCR
<1>5. CASE l # << >>
  <2>1. Len(l) # 0
    BY <1>1, <1>5, EmptySeq
  <2>2. Len(raw) > 1 /\ Len(raw) - 1 = Len(l) /\ Len(l) \in 1..Len(l)
    BY <1>1, <2>1
  <2>3. raw[Len(raw) - 1] = l[Len(l)]
    BY <2>2
  <2>4. CASE l[Len(l)] = CR
    <3>1. StripCR(l) = SubSeq(l, 1, Len(l) - 1) /\ Len(l) - 1 \in 0..Len(l)
      BY <1>1, <1>5, <2>1, <2>4 DEF StripCR
    <3>2. Len(raw) - 1 - 1 = Len(l) - 1
      BY <1>1
    <3> QED
      BY <1>2, <2>2, <2>3, <2>4, <3>1, <3>2
  <2>5. CASE l[Len(l)] # CR
    <3>1. StripCR(l) = SubSeq(l, 1, Len(l))
      BY <1>3, <2>5 DEF StripCR
    <3>2. Len(raw) - 1 - 0 = Len(l) /\ Len(l) \in 0..Len(l)
      BY <1>1
    <3> QED
      BY <1>2, <2>2, <2>3, <2>5, <3>1, <3>2
  <2> QED
    BY <2>4, <2>5
<1> QED
  BY <1>4, <1>5

(* The k bytes of s after the first h.                                     *)
Piece(s, h, k) == SubSeq(s, h + 1, h + k)

(* The bytes of a piece of data.                                           *)
LEMMA PieceBytes ==
  ASSUME NEW s \in Data, NEW h \in 0..Len(s), NEW k \in 0..(Len(s) - h)
  PROVE  /\ Piece(s, h, k) \in Data /\ Len(Piece(s, h, k)) = k
         /\ \A j \in 1..k : Piece(s, h, k)[j] = s[h + j]
<1>1. Len(s) \in Nat /\ s \in Seq(Byte)
  BY DataLen DEF Data
<1>2. Piece(s, h, k) \in Data /\ Len(Piece(s, h, k)) = k
  BY DataCut DEF Piece
<1>3. ASSUME NEW j \in 1..k PROVE Piece(s, h, k)[j] = s[h + j]
  <2>1. /\ h + 1 \in Int /\ h + k \in Int /\ j \in 1..(h + k - (h + 1) + 1)
        /\ h + 1 + j - 1 = h + j
    BY <1>1
  <2>2. \A m \in (h + 1)..(h + k) : s[m] \in Byte
    BY <1>1, ElementOfSeq
  <2>3. SubSeq(s, h + 1, h + k)[j] = s[h + 1 + j - 1]
    BY <2>1, <2>2, SubSeqProperties
  <2> QED
    BY <2>1, <2>3 DEF Piece
<1> QED
  BY <1>2, <1>3

(* A line that ends at the first delimiter of the cached bytes.            *)
LEMMA LineEnds ==
  ASSUME NEW acc \in Data, ~HasDelim(acc), NEW buf \in Data, NEW head \in 0..Len(buf),
         NEW i \in 1..(Len(buf) - head),
         FirstDelim(SubSeq(buf, head + 1, Len(buf)), i),
         NEW raw, raw = acc \o SubSeq(buf, head + 1, head + i),
         NEW d, d = StripCR(acc \o SubSeq(buf, head + 1, head + i - 1))
  PROVE  Framed(raw, d)
<1>1. Len(buf) \in Nat /\ Len(acc) \in Nat
  BY DataLen
<1>2. PICK s : s = SubSeq(buf, head + 1, Len(buf))
  OBVIOUS
<1>3. PICK p : p = SubSeq(buf, head + 1, head + i) /\ p = Piece(buf, head, i)
  BY DEF Piece
<1>4. PICK q : q = SubSeq(buf, head + 1, head + i - 1) /\ q = Piece(buf, head, i - 1)
  <2>1. head + (i - 1) = head + i - 1
    BY <1>1
  <2> QED
    BY <2>1 DEF Piece
<1>5. \A j \in 1..(Len(buf) - head) : s[j] = buf[head + j]
  <2>1. Len(buf) - head \in 0..(Len(buf) - head) /\ head + (Len(buf) - head) = Len(buf)
    BY <1>1
  <2>2. s = Piece(buf, head, Len(buf) - head)
    BY <1>2, <2>1 DEF Piece
  <2> QED
    BY <2>1, <2>2, PieceBytes
<1>6. p \in Data /\ Len(p) = i /\ \A j \in 1..i : p[j] = buf[head + j]
  <2>1. i \in 0..(Len(buf) - head)
    BY <1>1
  <2>2. p = Piece(buf, head, i)
    BY <1>3
  <2>3. /\ Piece(buf, head, i) \in Data /\ Len(Piece(buf, head, i)) = i
        /\ \A j \in 1..i : Piece(buf, head, i)[j] = buf[head + j]
    BY <2>1, PieceBytes
  <2> QED
    BY <2>2, <2>3
<1>7. q \in Data /\ Len(q) = i - 1 /\ \A j \in 1..(i - 1) : q[j] = buf[head + j]
  <2>1. i - 1 \in 0..(Len(buf) - head)
    BY <1>1
  <2>2. q = Piece(buf, head, i - 1)
    BY <1>4
  <2>3. /\ Piece(buf, head, i - 1) \in Data /\ Len(Piece(buf, head, i - 1)) = i - 1
        /\ \A j \in 1..(i - 1) : Piece(buf, head, i - 1)[j] = buf[head + j]
    BY <2>1, PieceBytes
  <2> QED
    BY <2>2, <2>3
<1>8. PICK l : l = acc \o q
  OBVIOUS
<1>9. /\ raw \in Data /\ Len(raw) = Len(acc) + i
      /\ \A j \in 1..(Len(acc) + i) : raw[j] = IF j <= Len(acc) THEN acc[j] ELSE p[j - Len(acc)]
  BY <1>3, <1>6, ConcatProperties DEF Data
<1>10. /\ l \in Data /\ Len(l) = Len(acc) + (i - 1)
       /\ \A j \in 1..(Len(acc) + (i - 1)) :
            l[j] = IF j <= Len(acc) THEN acc[j] ELSE q[j - Len(acc)]
  <2>1. /\ l \in Data /\ Len(l) = Len(acc) + Len(q)
        /\ \A j \in 1..(Len(acc) + Len(q)) :
             l[j] = IF j <= Len(acc) THEN acc[j] ELSE q[j - Len(acc)]
    BY <1>7, <1>8, ConcatProperties DEF Data
  <2> QED
    BY <1>7, <2>1
<1>11. p[i] = Delim /\ \A j \in 1..(i - 1) : p[j] # Delim
  <2>1. s[i] = Delim /\ \A j \in 1..(i - 1) : s[j] # Delim
    BY <1>2 DEF FirstDelim
  <2>2. i \in 1..i /\ \A j \in 1..(i - 1) : j \in 1..i /\ j \in 1..(Len(buf) - head)
    BY <1>1
  <2> QED
    BY <1>5, <1>6, <2>1, <2>2
<1>12. raw[Len(raw)] = Delim
  <2>1. /\ Len(acc) + i \in 1..(Len(acc) + i) /\ ~(Len(acc) + i <= Len(acc))
        /\ Len(acc) + i - Len(acc) = i
    BY <1>1
  <2> QED
    BY <1>9, <1>11, <2>1
<1>13. ASSUME NEW j \in 1..(Len(acc) + (i - 1)) PROVE l[j] = raw[j] /\ raw[j] # Delim
  <2>1. j \in 1..(Len(acc) + i)
    BY <1>1
  <2>2. CASE j <= Len(acc)
    <3>1. j \in 1..Len(acc)
      BY <1>1, <2>2
    <3> QED
      BY <1>9, <1>10, <2>1, <2>2, <3>1 DEF HasDelim
  <2>3. CASE ~(j <= Len(acc))
    <3>1. j - Len(acc) \in 1..(i - 1) /\ j - Len(acc) \in 1..i
      BY <1>1, <2>3
    <3>2. raw[j] = p[j - Len(acc)]
      BY <1>9, <2>1, <2>3
    <3>3. l[j] = q[j - Len(acc)]
      BY <1>10, <2>3
    <3>4. p[j - Len(acc)] = buf[head + (j - Len(acc))] /\ p[j - Len(acc)] # Delim
      BY <1>6, <1>11, <3>1
    <3>5. q[j - Len(acc)] = buf[head + (j - Len(acc))]
      BY <1>7, <3>1
    <3> QED
      BY <3>2, <3>3, <3>4, <3>5
  <2> QED
    BY <2>2, <2>3
<1>14. Len(raw) = Len(l) + 1 /\ Len(raw) \in 1..Len(raw)
       /\ \A j \in 1..Len(raw) : j = Len(raw) \/ j \in 1..(Len(acc) + (i - 1))
  BY <1>1, <1>9, <1>10
<1>15. {j \in 1..Len(raw) : raw[j] = Delim} = {Len(raw)}
  BY <1>12, <1>13, <1>14
<1>16. StripCR(l) = SubSeq(raw, 1, Len(raw) - 1 -
                       (IF Len(raw) > 1 /\ raw[Len(raw) - 1] = CR THEN 1 ELSE 0))
  <2>1. \A j \in 1..Len(l) : l[j] = raw[j]
    BY <1>10, <1>13
  <2> QED
    BY <1>9, <1>10, <1>14, <2>1, LineCut, Zenon
<1>17. d = StripCR(l)
  BY <1>4, <1>8
<1> QED
  BY <1>15, <1>16, <1>17 DEF Framed

(* One turn of read_line's loop, with all it took so far in acc.           *)
LEMMA ScanLineResult ==
  ASSUME consumed \in Data, NEW buf \in Data, NEW head \in 0..Len(buf), NEW acc \in Data,
         NEW start \in 0..Len(consumed), NEW tmo \in BOOLEAN,
         acc = Since(consumed, start), ~HasDelim(acc),
         ScanLine(buf, head, acc, start, tmo)
  PROVE  ResultInv'
<1>1. PICK s : s = SubSeq(buf, head + 1, Len(buf))
  OBVIOUS
<1>2. s \in Data /\ Len(s) = Len(buf) - head /\ Len(buf) \in Nat /\ Len(consumed) \in Nat
  BY <1>1, DataRest, DataLen
<1>3. ASSUME NEW d \in Data, consumed' = consumed \o d
      PROVE  acc \o d = Since(consumed', start) /\ start <= Len(consumed')
  <2>1. Len(consumed \o d) = Len(consumed) + Len(d) /\ Len(d) \in Nat
    BY <1>3, ConcatProperties, DataLen DEF Data
  <2>2. start <= Len(consumed \o d)
    BY <1>2, <2>1
  <2>3. Since(consumed \o d, start) = Since(consumed, start) \o d
    BY <1>3, SinceGrows
  <2> QED
    BY <1>3, <2>2, <2>3
<1>4. ASSUME NEW i \in 1..Len(s), FirstDelim(s, i),
             consumed' = consumed \o SubSeq(buf, head + 1, head + i),
             Return("read_line", 0, start,
                    StripCR(acc \o SubSeq(buf, head + 1, head + i - 1)), TRUE)
      PROVE  ResultInv'
  <2>1. i \in 1..(Len(buf) - head) /\ i \in 0..(Len(buf) - head)
    BY <1>2
  <2>2. SubSeq(buf, head + 1, head + i) \in Data
    BY <2>1, DataCut
  <2>3. PICK raw : raw = acc \o SubSeq(buf, head + 1, head + i)
    OBVIOUS
  <2>4. raw = Since(consumed', start)
    BY <1>3, <1>4, <2>2, <2>3
  <2>5. PICK d : d = StripCR(acc \o SubSeq(buf, head + 1, head + i - 1))
    OBVIOUS
  <2>6. Framed(raw, d)
    <3>1. FirstDelim(SubSeq(buf, head + 1, Len(buf)), i)
      BY <1>1, <1>4
    <3> QED
      BY <2>1, <2>3, <2>5, <3>1, LineEnds
  <2>7. PICK ok \in BOOLEAN : ok = TRUE
    OBVIOUS
  <2>8. ok /\ Return("read_line", 0, start, d, ok)
    BY <1>4, <2>5, <2>7
  <2> QED
    BY <2>4, <2>6, <2>8, LineReturns
<1>5. CASE /\ ~HasDelim(s) /\ consumed' = consumed \o s
           /\ Return("read_line", 0, start, acc \o s, FALSE)
  <2>1. PICK raw : raw = acc \o s
    OBVIOUS
  <2>2. ~HasDelim(raw) /\ raw = Since(consumed', start)
    BY <1>2, <1>3, <1>5, <2>1, NoDelim
  <2>3. {j \in 1..Len(raw) : raw[j] = Delim} = {}
    BY <2>2 DEF HasDelim
  <2>4. PICK ok \in BOOLEAN : ok = FALSE
    OBVIOUS
  <2>5. ~ok /\ Return("read_line", 0, start, raw, ok)
    BY <1>5, <2>1, <2>4
  <2> QED
    BY <2>2, <2>3, <2>5, LineReturns
<1>6. CASE /\ ~HasDelim(s) /\ consumed' = consumed \o s
           /\ Block("read_line", 0, start, acc \o s, 0)
  <2>1. PICK raw : raw = acc \o s
    OBVIOUS
  <2>2. ~HasDelim(raw) /\ raw = Since(consumed', start) /\ start <= Len(consumed')
    BY <1>2, <1>3, <1>6, <2>1, NoDelim
  <2>3. Block("read_line", 0, start, raw, 0)
    BY <1>6, <2>1
  <2> QED
    BY <2>2, <2>3, BlocksInv
<1> QED
  BY <1>1, <1>4, <1>5, <1>6 DEF ScanLine

(* read_line.                                                              *)
LEMMA ReadLineResult ==
  ASSUME Inv, ResultInv,
         \/ \E tmo \in BOOLEAN : ReadLine(tmo)
         \/ \E k \in 1..Len(krx) : ReadLineRecv(k)
         \/ ReadLineRecvFails
  PROVE  ResultInv'
<1>0. /\ rx_buf \in Data /\ rx_head \in 0..Len(rx_buf) /\ consumed \in Data
      /\ Len(consumed) \in Nat /\ got \in Data /\ timed \in BOOLEAN /\ from \in Nat
      /\ CallTaken
  BY DataLen DEF Inv, TypeOK, PortTypeOK, CallTypeOK, ResultInv
<1>1. ASSUME NEW tmo \in BOOLEAN, ReadLine(tmo) PROVE ResultInv'
  <2>1. CASE ReturnAtOnce("read_line", 0, FALSE)
    BY <2>1, ReturnAtOnceResult
  <2>2. CASE ScanLine(rx_buf, rx_head, << >>, Len(consumed), tmo)
    <3>1. ~HasDelim(<< >>) /\ << >> = Since(consumed, Len(consumed)) /\ << >> \in Data
      BY <1>0, SinceNone, DataEmpty DEF HasDelim
    <3>2. Len(consumed) \in 0..Len(consumed)
      BY <1>0
    <3> QED
      BY <1>0, <2>2, <3>1, <3>2, ScanLineResult
  <2> QED
    BY <1>1, <2>1, <2>2 DEF ReadLine
<1>2. ASSUME NEW k \in 1..Len(krx), ReadLineRecv(k) PROVE ResultInv'
  <2>1. op = "read_line" /\ ScanLine(Refilled(k), 0, got, from, timed)
    BY <1>2 DEF ReadLineRecv
  <2>2. Refilled(k) \in Data /\ Len(Refilled(k)) \in Nat
    BY <2>1, RefilledIs, DataLen
  <2>3. from \in 0..Len(consumed) /\ got = Since(consumed, from) /\ ~HasDelim(got)
    BY <1>0, <2>1 DEF CallTaken
  <2>4. PICK h \in 0..Len(Refilled(k)) : h = 0
    BY <2>2
  <2>5. ScanLine(Refilled(k), h, got, from, timed)
    BY <2>1, <2>4
  <2> QED
    BY <1>0, <2>2, <2>3, <2>5, ScanLineResult
<1>3. CASE ReadLineRecvFails
  <2>1. /\ op = "read_line" /\ consumed' = consumed
        /\ Return("read_line", 0, from, got, FALSE)
    BY <1>3 DEF ReadLineRecvFails
  <2>2. got = Since(consumed', from) /\ ~HasDelim(got)
    BY <1>0, <2>1 DEF CallTaken
  <2>3. {j \in 1..Len(got) : got[j] = Delim} = {}
    BY <2>2 DEF HasDelim
  <2>4. PICK ok \in BOOLEAN : ok = FALSE
    OBVIOUS
  <2>5. ~ok /\ Return("read_line", 0, from, got, ok)
    BY <2>1, <2>4
  <2> QED
    BY <2>2, <2>3, <2>5, LineReturns
<1> QED
  BY <1>1, <1>2, <1>3

-----------------------------------------------------------------------------
(* The other calls.                                                        *)

(* get_rx_queue_status: what it counts can be read.                        *)
LEMMA QueueStatusResult ==
  ASSUME Inv, GetRxQueueStatus
  PROVE  ResultInv'
<1>1. /\ Len(Cached) = Len(rx_buf) - rx_head /\ Len(Cached) \in Nat /\ Len(krx) \in Nat
      /\ rx_head \in Nat
  BY CachedType, DataLen DEF Inv, TypeOK, PortTypeOK, LinkTypeOK, Data
<1>2. PICK n : n = (IF is_open THEN get_rx_queue_status ELSE 0)
  OBVIOUS
<1>3. n \in Nat /\ (is_open => n <= Len(Cached) + Len(krx))
  BY <1>1, <1>2 DEF get_rx_queue_status
<1>4. PICK ok \in BOOLEAN : ok = is_open
  BY DEF is_open, Inv, TypeOK, PortTypeOK
<1>5. ReturnAtOnce("get_rx_queue_status", n, ok)
  BY <1>2, <1>4 DEF GetRxQueueStatus
<1> QED
  BY <1>3, <1>5, ReturnAtOnceResult

(* purge: it returns when the cache and the kernel's queue are empty, that *)
(* is, when all that was sent has been consumed.                           *)
LEMMA PurgeResult ==
  ASSUME Inv, Inv', ResultInv,
         \/ \E rx \in BOOLEAN : Purge(rx)
         \/ \E k \in 1..Len(krx) : PurgeRecv(k)
         \/ PurgeRecvFails
  PROVE  ResultInv'
<1>0. /\ consumed \in Data /\ consumed' \in Data /\ krx \in Data /\ sent \in Data
      /\ Len(consumed) \in Nat /\ Len(sent) \in Nat /\ CallTaken /\ Cached \in Data
  BY DataLen, CachedType DEF Inv, TypeOK, PortTypeOK, LinkTypeOK, Data, ResultInv
<1>1. ASSUME NEW d \in Data, consumed' = consumed \o d
      PROVE  Len(consumed) <= Len(consumed')
  <2>1. Len(consumed \o d) = Len(consumed) + Len(d) /\ Len(d) \in Nat
    BY <1>0, <1>1, ConcatProperties, DataLen DEF Data
  <2> QED
    BY <1>0, <1>1, <2>1
<1>2. ASSUME NEW rx \in BOOLEAN, Purge(rx) PROVE ResultInv'
  <2>1. CASE ReturnAtOnce("purge", 0, FALSE)
    BY <2>1, ReturnAtOnceResult
  <2>2. CASE Return("purge", 0, Len(consumed), << >>, FALSE)
    BY <2>2, OtherReturns
  <2>3. CASE /\ Block("purge", Len(sent), Len(consumed), << >>, 0)
             /\ consumed' = consumed \o Cached /\ UNCHANGED sent
    <3>1. Len(consumed) <= Len(consumed') /\ Len(sent) <= Len(sent')
      BY <1>0, <1>1, <2>3
    <3> QED
      BY <2>3, <3>1, BlocksInv
  <2> QED
    BY <1>2, <2>1, <2>2, <2>3 DEF Purge
<1>3. ASSUME NEW k \in 1..Len(krx), PurgeRecv(k) PROVE ResultInv'
  <2>1. /\ op = "purge" /\ consumed' = consumed \o Take(krx, k)
        /\ UNCHANGED <<op, want, got, from, res, sent>>
    BY <1>3 DEF PurgeRecv, callVars
  <2>2. Take(krx, k) \in Data
    BY <1>0, DataTakeDrop, DataLen
  <2>3. Len(consumed) <= Len(consumed') /\ Len(consumed') \in Nat /\ from \in Nat
    BY <1>0, <1>1, <2>1, <2>2, DataLen DEF Inv, TypeOK, CallTypeOK
  <2>4. from <= Len(consumed) /\ res = NoResult /\ want <= Len(sent)
    BY <1>0, <2>1 DEF CallTaken
  <2>5. from <= Len(consumed')
    BY <1>0, <2>3, <2>4
  <2>6. CallTaken'
    BY <2>1, <2>4, <2>5 DEF CallTaken
  <2>7. NoResult.op = "none"
    BY DEF NoResult
  <2>8. /\ ReadsReturnStreamBytes' /\ ReadLineFraming' /\ QueueStatusHonest'
        /\ PurgeIsComplete'
    BY <2>1, <2>4, <2>7 DEF ReadsReturnStreamBytes, ReadLineFraming, QueueStatusHonest,
       PurgeIsComplete
  <2> QED
    BY <2>6, <2>8 DEF ResultInv
<1>4. CASE PurgeRecvFails
  <2>1. /\ op = "purge" /\ krx = << >> /\ consumed' = consumed
        /\ Return("purge", want, from, << >>, TRUE)
    BY <1>4 DEF PurgeRecvFails, RecvFails
  <2>2. consumed = sent
    <3>1. consumed \o Cached \o krx = sent /\ Cached = << >>
      BY <2>1 DEF Inv, RecvOnlyWhenDrained, StreamIntegrity
    <3> QED
      BY <1>0, <2>1, <3>1, DataConcatEmpty
  <2>3. want <= Len(sent)
    BY <1>0, <2>1 DEF CallTaken
  <2>4. Len(consumed') >= want
    BY <1>0, <2>1, <2>2, <2>3 DEF Inv, TypeOK, CallTypeOK
  <2> QED
    BY <2>1, <2>4, OtherReturns
<1> QED
  BY <1>2, <1>3, <1>4

(* The calls that take, give up or configure the socket.                   *)
LEMMA LifeCycleResult ==
  ASSUME \/ Open \/ OpenFails \/ Close \/ RawClose
         \/ \E b \in BOOLEAN : RawSetBlocking(b)
         \/ \E rd, wr \in Timeouts : SetTimeouts(rd, wr)
  PROVE  ResultInv'
<1>1. ASSUME NEW call \in {"open", "close", "raw_close", "set_blocking", "set_nonblocking",
                           "set_timeouts"},
             NEW start, NEW ok, Return(call, 0, start, << >>, ok)
      PROVE  ResultInv'
  BY <1>1, OtherReturns
<1>2. CASE Open \/ OpenFails \/ Close
  BY <1>1, <1>2 DEF Open, OpenFails, Close
<1>3. CASE RawClose \/ (\E rd, wr \in Timeouts : SetTimeouts(rd, wr))
  BY <1>1, <1>3 DEF RawClose, SetTimeouts
<1>4. ASSUME NEW b \in BOOLEAN, RawSetBlocking(b) PROVE ResultInv'
  BY <1>1, <1>4 DEF RawSetBlocking
<1> QED
  BY <1>2, <1>3, <1>4

(* The peer: what was counted stays, what was returned is not touched.     *)
LEMMA EnvResult ==
  ASSUME Inv, Inv', ResultInv, EnvNext
  PROVE  ResultInv'
<1>1. UNCHANGED <<op, want, got, from, res, consumed, sock, rx_buf, rx_head, handle>>
  BY DEF EnvNext, PeerNext, PeerSend, PeerDisconnects, LinkLoss, portVars, implVars, callVars
<1>2. /\ krx \in Data /\ sent \in Data /\ Len(krx) \in Nat /\ Len(sent) \in Nat
      /\ Len(krx') \in Nat /\ Len(sent') \in Nat
  BY DataLen DEF Inv, TypeOK, LinkTypeOK, Data
<1>3. Len(krx) <= Len(krx') /\ Len(sent) <= Len(sent')
  <2>1. CASE UNCHANGED <<krx, sent>>
    BY <1>2, <2>1
  <2>2. ASSUME NEW b \in Byte, PeerSend(b) PROVE Len(krx) <= Len(krx') /\ Len(sent) <= Len(sent')
    <3>1. Len(krx') = Len(krx) + 1 /\ Len(sent') = Len(sent) + 1
      BY <1>2, <2>2, AppendProperties DEF PeerSend, Data
    <3> QED
      BY <1>2, <3>1
  <2> QED
    BY <2>1, <2>2 DEF EnvNext, PeerNext, PeerDisconnects, LinkLoss
<1>4. CallTaken'
  BY <1>1, <1>2, <1>3 DEF ResultInv, CallTaken, Inv, TypeOK, CallTypeOK
<1>5. ReadsReturnStreamBytes' /\ ReadLineFraming' /\ PurgeIsComplete'
  BY <1>1 DEF ResultInv, ReadsReturnStreamBytes, ReadLineFraming, PurgeIsComplete, ResRaw
<1>6. QueueStatusHonest'
  <2>1. Cached' = Cached /\ is_open' = is_open
    BY <1>1 DEF Cached, is_open
  <2>2. Len(Cached) \in Nat /\ res.want \in Nat
    BY CachedType, DataLen DEF Inv, TypeOK, CallTypeOK, Result
  <2> QED
    BY <1>1, <1>2, <1>3, <2>1, <2>2 DEF ResultInv, QueueStatusHonest
<1> QED
  BY <1>4, <1>5, <1>6 DEF ResultInv

-----------------------------------------------------------------------------
(* The invariant and what follows from it.                                 *)

(* Nothing has been called yet.                                            *)
LEMMA InitResult == Init => ResultInv
<1> SUFFICES ASSUME Init PROVE ResultInv
  OBVIOUS
<1>1. op = "idle" /\ res.op = "none"
  BY DEF Init, NoResult
<1> QED
  BY <1>1 DEF ResultInv, CallTaken, ReadsReturnStreamBytes, ReadLineFraming,
     QueueStatusHonest, PurgeIsComplete

(* The application makes a call.                                           *)
LEMMA CallNextResult ==
  ASSUME Inv, Inv', ResultInv, CallNext
  PROVE  ResultInv'
<1>1. CASE \E n \in 0..MaxWant : Read(n) \/ ReadExact(n)
  BY <1>1, ReadResult
<1>2. CASE ReadByte
  BY <1>2, ReadByteResult
<1>3. CASE \E tmo \in BOOLEAN : ReadLine(tmo)
  BY <1>3, ReadLineResult
<1>4. CASE GetRxQueueStatus
  BY <1>4, QueueStatusResult
<1>5. CASE \E rx \in BOOLEAN : Purge(rx)
  BY <1>5, PurgeResult
<1>6. CASE OpenUnparsable
  BY <1>6, ReturnAtOnceResult DEF OpenUnparsable
<1>7. CASE \/ Open \/ OpenFails \/ Close \/ RawClose
           \/ \E b \in BOOLEAN : RawSetBlocking(b)
           \/ \E rd, wr \in Timeouts : SetTimeouts(rd, wr)
  BY <1>7, LifeCycleResult
<1> QED
  BY <1>1, <1>2, <1>3, <1>4, <1>5, <1>6, <1>7 DEF CallNext

(* A blocked ::recv returns.                                               *)
LEMMA RecvNextResult ==
  ASSUME Inv, Inv', ResultInv, RecvNext
  PROVE  ResultInv'
<1>1. CASE \/ \E k \in 1..Len(krx) : ReadRecv(k) \/ ReadExactRecv(k)
           \/ ReadRecvFails \/ ReadExactRecvFails
  BY <1>1, ReadRecvResult
<1>2. CASE (\E k \in 1..Len(krx) : ReadByteRecv(k)) \/ ReadByteRecvFails
  BY <1>2, ReadByteResult
<1>3. CASE (\E k \in 1..Len(krx) : ReadLineRecv(k)) \/ ReadLineRecvFails
  BY <1>3, ReadLineResult
<1>4. CASE (\E k \in 1..Len(krx) : PurgeRecv(k)) \/ PurgeRecvFails
  BY <1>4, PurgeResult
<1> QED
  BY <1>1, <1>2, <1>3, <1>4 DEF RecvNext

LEMMA NextResult == Inv /\ Inv' /\ ResultInv /\ [Next]_vars => ResultInv'
<1> SUFFICES ASSUME Inv, Inv', ResultInv, [Next]_vars PROVE ResultInv'
  OBVIOUS
<1>1. CASE UNCHANGED vars
  <2>1. UNCHANGED <<op, want, got, from, res, consumed, sent, krx, sock, handle, rx_buf, rx_head>>
    BY <1>1 DEF vars, portVars, implVars, callVars, linkVars
  <2>2. UNCHANGED <<is_open, Cached>>
    BY <2>1 DEF is_open, Cached
  <2>3. CallTaken'
    BY <2>1 DEF ResultInv, CallTaken
  <2> QED
    BY <2>1, <2>2, <2>3 DEF ResultInv, ReadsReturnStreamBytes, ReadLineFraming,
       QueueStatusHonest, PurgeIsComplete, ResRaw
<1> QED
  BY <1>1, CallNextResult, RecvNextResult, EnvResult DEF Next

(* In every reachable state the last call's result is right, and so is     *)
(* what an unfinished call has gathered.                                   *)
THEOREM ResultInvariance == Spec => []ResultInv
<1>1. Spec => []Inv
  BY Invariance
<1> QED
  BY <1>1, InitResult, NextResult, PTL DEF Spec

(* read, read_exact and read_byte return exactly the bytes they took from  *)
(* the stream, never more than asked for, and read_exact and read_byte     *)
(* report success just when they filled the buffer.                        *)
THEOREM ReadsCorrect == Spec => []ReadsReturnStreamBytes
<1>1. ResultInv => ReadsReturnStreamBytes
  BY DEF ResultInv
<1> QED
  BY <1>1, ResultInvariance, PTL

(* However ::recv cuts the stream, read_line returns the bytes up to the   *)
(* first delimiter without the final CR, or, on timeout and EOF, all that  *)
(* it took, in which there is no delimiter.                                *)
THEOREM LinesFramed == Spec => []ReadLineFraming
<1>1. ResultInv => ReadLineFraming
  BY DEF ResultInv
<1> QED
  BY <1>1, ResultInvariance, PTL

(* The bytes that get_rx_queue_status counted are there to be read.        *)
THEOREM CountsHonest == Spec => []QueueStatusHonest
<1>1. ResultInv => QueueStatusHonest
  BY DEF ResultInv
<1> QED
  BY <1>1, ResultInvariance, PTL

(* A purge that reports success has discarded all that had arrived when it *)
(* was called.                                                             *)
THEOREM PurgeEmpties == Spec => []PurgeIsComplete
<1>1. ResultInv => PurgeIsComplete
  BY DEF ResultInv
<1> QED
  BY <1>1, ResultInvariance, PTL
=============================================================================
