--------------------------- MODULE EchoBenchProofs ---------------------------
(***************************************************************************)
(* Proofs about EchoBench, for every chunk, total, buffer and capacity.    *)
(***************************************************************************)
EXTENDS EchoBench, TLAPS

(* The server has counted, or is about to receive, what the client sent.   *)
Counted ==
  /\ total_bytes + c2s <= Total
  /\ conn = "up" /\ ~failed =>
       total_bytes + c2s = total_sent + (IF cpc = "send" THEN done ELSE 0)

(* send_all and recv_all are in progress only while bytes are missing.     *)
Busy ==
  /\ cpc \in {"send", "recv"} => ~failed /\ done < current
  /\ cpc = "send" => total_sent + current <= Total
  /\ spc = "send" => server_echo /\ pending > 0
  /\ spc # "send" => pending = 0

(* The inductive invariant: EchoAccounting needs Busy (a byte in the       *)
(* server's hands is not overwritten), TypeOK's bounds need Counted.       *)
Inv == TypeOK /\ EchoAccounting /\ Counted /\ Busy

USE BenchAssumption

(* Losing some of the bytes under way keeps the count within the total.    *)
LEMMA FewerFit ==
  ASSUME NEW b \in Nat, NEW x \in Nat, NEW y \in 0..x, b + x <= Total
  PROVE  b + y <= Total
OBVIOUS

(* A chunk no larger than what is left of the total (current_chunk) does   *)
(* not pass the total.                                                     *)
LEMMA DifferenceFits ==
  ASSUME NEW t \in Nat, NEW x \in Nat, x <= Total - t
  PROVE  t + x <= Total
OBVIOUS

(* The state before the first client.                                      *)
LEMMA InitInv == Init => Inv
<1> SUFFICES ASSUME Init PROVE Inv
  OBVIOUS
<1>1. client_echo \in BOOLEAN /\ server_echo \in BOOLEAN /\ failed \in BOOLEAN
  BY DEF Init
<1>2. TypeOK
  BY <1>1 DEF Init, TypeOK
<1>3. EchoAccounting /\ Counted /\ Busy
  BY DEF Init, EchoAccounting, Counted, Busy
<1> QED
  BY <1>2, <1>3 DEF Inv

(* The size of a chunk: positive as long as bytes are left.                *)
LEMMA CurrentChunkType ==
  ASSUME NEW t \in 0..Total
  PROVE  /\ CurrentChunk(t) \in 0..Chunk
         /\ CurrentChunk(t) <= Total - t
         /\ t < Total => CurrentChunk(t) > 0
BY DEF CurrentChunk

(* A new client starts from nothing.                                       *)
LEMMA ClientStartsInv == Inv /\ ClientStarts => Inv'
<1> SUFFICES ASSUME Inv, ClientStarts PROVE Inv'
  OBVIOUS
<1>1. PICK z \in 0..Total : z = 0
  OBVIOUS
<1>2. CurrentChunk(0) \in 0..Chunk /\ CurrentChunk(0) <= Total /\ CurrentChunk(0) > 0
  BY <1>1, CurrentChunkType
<1>3. client_echo' \in BOOLEAN /\ server_echo' \in BOOLEAN /\ failed' \in BOOLEAN
  BY DEF ClientStarts, Inv, TypeOK
<1>4. TypeOK'
  BY <1>2, <1>3 DEF ClientStarts, TypeOK
<1>5. EchoAccounting'
  BY DEF ClientStarts, EchoAccounting, Outstanding
<1>6. Counted' /\ Busy'
  BY <1>2 DEF ClientStarts, Counted, Busy
<1> QED
  BY <1>4, <1>5, <1>6 DEF Inv

(* A turn of the client's send_all.                                        *)
LEMMA ClientSendInv ==
  ASSUME Inv, NEW n \in 1..Cap, ClientSend(n)
  PROVE  Inv'
<1>1. /\ cpc = "send" /\ conn = "up" /\ n <= current - done /\ c2s + n <= Cap
      /\ c2s' = c2s + n
      /\ UNCHANGED <<client_echo, failed, conn, s2c, serverVars>>
  BY DEF ClientSend
<1>2. /\ ~failed /\ done < current /\ total_sent + current <= Total
      /\ total_bytes + c2s = total_sent + done
  BY <1>1 DEF Inv, Counted, Busy
<1>3. CASE /\ done + n < current /\ done' = done + n
           /\ UNCHANGED <<cpc, current, total_sent>>
  BY <1>1, <1>2, <1>3 DEF Inv, TypeOK, EchoAccounting, Counted, Busy, Outstanding, serverVars
<1>4. CASE /\ done + n = current /\ total_sent' = total_sent + current
           /\ client_echo /\ cpc' = "recv" /\ done' = 0 /\ UNCHANGED current
  BY <1>1, <1>2, <1>4 DEF Inv, TypeOK, EchoAccounting, Counted, Busy, Outstanding, serverVars
<1>5. CASE /\ done + n = current /\ total_sent' = total_sent + current
           /\ ~client_echo /\ NextChunk(total_sent + current)
  <2>1. total_sent + current \in 0..Total
    BY <1>2 DEF Inv, TypeOK
  <2>a. /\ current' \in 0..Chunk /\ current' <= Total - total_sent'
        /\ total_sent' \in 0..Total
    BY <1>5, <2>1, CurrentChunkType DEF NextChunk
  <2>b. /\ total_sent' < Total => current' > 0
        /\ cpc' = IF total_sent' < Total THEN "send" ELSE "close"
        /\ done' = 0
    BY <1>5, <2>1, CurrentChunkType DEF NextChunk
  <2>3. TypeOK'
    BY <1>1, <2>a, <2>b DEF Inv, TypeOK, serverVars
  <2>4. EchoAccounting'
    BY <1>1, <1>5 DEF EchoAccounting
  <2>5. Counted'
    BY <1>1, <1>2, <1>5, <2>a, <2>b DEF Inv, TypeOK, Counted, serverVars
  <2>6. Busy'
    <3>1. cpc' \in {"send", "recv"} => ~failed' /\ done' < current'
      BY <1>1, <1>2, <2>a, <2>b
    <3>2. total_sent' + current' <= Total
      <4>1. total_sent' \in Nat /\ current' \in Nat
        BY <2>a
      <4>2. current' <= Total - total_sent'
        BY <2>a
      <4> QED
        BY <4>1, <4>2, DifferenceFits
    <3>3. /\ spc' = "send" => server_echo' /\ pending' > 0
          /\ spc' # "send" => pending' = 0
      BY <1>1 DEF Inv, Busy, serverVars
    <3> QED
      BY <3>1, <3>2, <3>3 DEF Busy
  <2> QED
    BY <2>3, <2>4, <2>5, <2>6 DEF Inv
<1> QED
  BY <1>1, <1>3, <1>4, <1>5 DEF ClientSend

(* A turn of the client's recv_all.                                        *)
LEMMA ClientRecvInv ==
  ASSUME Inv, NEW n \in 1..Cap, ClientRecv(n)
  PROVE  Inv'
<1>1. /\ cpc = "recv" /\ n <= s2c /\ n <= current - done /\ s2c' = s2c - n
      /\ UNCHANGED <<client_echo, total_sent, failed, conn, c2s, serverVars>>
  BY DEF ClientRecv
<1>2. CASE done + n < current /\ done' = done + n /\ UNCHANGED <<cpc, current>>
  BY <1>1, <1>2 DEF Inv, TypeOK, EchoAccounting, Counted, Busy, Outstanding, serverVars
<1>3. CASE done + n = current /\ NextChunk(total_sent)
  <2>1. total_sent \in 0..Total
    BY DEF Inv, TypeOK
  <2> QED
    BY <1>1, <1>3, <2>1, CurrentChunkType
       DEF NextChunk, Inv, TypeOK, EchoAccounting, Counted, Busy, Outstanding, serverVars
<1> QED
  BY <1>1, <1>2, <1>3 DEF ClientRecv

(* The client gives up, or closes.                                         *)
LEMMA ClientEndsInv ==
  Inv /\ (ClientSendFails \/ ClientRecvFails \/ ClientCloses) => Inv'
<1>1. ASSUME Inv, ClientBreaks PROVE Inv'
  BY <1>1 DEF ClientBreaks, Inv, TypeOK, EchoAccounting, Counted, Busy, serverVars
<1>2. ASSUME Inv, ClientCloses PROVE Inv'
  <2>1. /\ conn' # "up" /\ conn' \in {"none", "up", "closed", "lost"}
        /\ cpc' = "idle" /\ c2s' \in 0..c2s /\ s2c' = 0
        /\ UNCHANGED <<client_echo, current, done, total_sent, failed, serverVars>>
    BY <1>2 DEF ClientCloses, Inv, TypeOK
  <2>2. TypeOK'
    BY <1>2, <2>1 DEF Inv, TypeOK, serverVars
  <2>3. EchoAccounting' /\ Busy'
    BY <1>2, <2>1 DEF Inv, EchoAccounting, Busy, serverVars
  <2>4. Counted'
    <3>1. total_bytes + c2s <= Total /\ total_bytes \in Nat /\ c2s \in Nat
      BY <1>2 DEF Inv, TypeOK, Counted
    <3>2. total_bytes + c2s' <= Total
      BY <2>1, <3>1, FewerFit
    <3> QED
      BY <2>1, <3>2 DEF Counted, serverVars
  <2> QED
    BY <2>2, <2>3, <2>4 DEF Inv
<1> QED
  BY <1>1, <1>2 DEF ClientSendFails, ClientRecvFails

(* The server's loop.                                                      *)
LEMMA ServerInv == Inv /\ ServerNext => Inv'
<1> SUFFICES ASSUME Inv, ServerNext PROVE Inv'
  OBVIOUS
<1>1. CASE \E n \in 1..Cap : ServerRecv(n)
  BY <1>1 DEF ServerRecv, Inv, TypeOK, EchoAccounting, Counted, Busy, Outstanding, clientVars
<1>2. CASE \E n \in 1..Cap : ServerSend(n)
  BY <1>2 DEF ServerSend, Inv, TypeOK, EchoAccounting, Counted, Busy, Outstanding, clientVars
<1>3. CASE ServerFails
  BY <1>3 DEF ServerFails, Inv, TypeOK, EchoAccounting, Counted, Busy, Outstanding, clientVars
<1> QED
  BY <1>1, <1>2, <1>3 DEF ServerNext

(* The link dies.                                                          *)
LEMMA LinkLossInv == Inv /\ LinkLoss => Inv'
<1> SUFFICES ASSUME Inv, LinkLoss PROVE Inv'
  OBVIOUS
<1>1. TypeOK'
  BY DEF LinkLoss, Inv, TypeOK, clientVars, serverVars
<1>2. EchoAccounting' /\ Busy'
  BY DEF LinkLoss, Inv, EchoAccounting, Busy, clientVars, serverVars
<1>3. Counted'
  <2>1. total_bytes + c2s <= Total /\ total_bytes \in Nat /\ c2s \in Nat
    BY DEF Inv, TypeOK, Counted
  <2>2. total_bytes + c2s' <= Total
    BY <2>1, FewerFit DEF LinkLoss
  <2> QED
    BY <2>2 DEF LinkLoss, Counted, serverVars
<1> QED
  BY <1>1, <1>2, <1>3 DEF Inv

(* Inv is inductive.                                                       *)
LEMMA NextInv == Inv /\ [Next]_vars => Inv'
<1> SUFFICES ASSUME Inv, [Next]_vars PROVE Inv'
  OBVIOUS
<1>1. CASE ClientStarts
  BY <1>1, ClientStartsInv
<1>2. CASE ClientNext
  BY <1>2, ClientSendInv, ClientRecvInv, ClientEndsInv DEF ClientNext
<1>3. CASE ServerNext
  BY <1>3, ServerInv
<1>4. CASE LinkLoss
  BY <1>4, LinkLossInv
<1>5. CASE UNCHANGED vars
  BY <1>5 DEF vars, Inv, TypeOK, EchoAccounting, Counted, Busy, Outstanding
<1> QED
  BY <1>1, <1>2, <1>3, <1>4, <1>5 DEF Next

(* The invariant holds in every reachable state.                           *)
THEOREM BenchInvariance == Spec => []Inv
BY InitInv, NextInv, PTL DEF Spec

(* Partial sends and receives neither lose nor double a byte of a chunk.   *)
THEOREM Accounting == Spec => []EchoAccounting
<1>1. Inv => EchoAccounting
  BY DEF Inv
<1> QED
  BY <1>1, BenchInvariance, PTL

(* When a chunk has come back, the server has counted as many bytes as the *)
(* client, and nothing is under way.                                       *)
THEOREM RoundTrip == Spec => []RoundTripAcknowledged
<1>1. Inv => RoundTripAcknowledged
  BY DEF Inv, RoundTripAcknowledged, TypeOK, EchoAccounting, Counted, Outstanding
<1> QED
  BY <1>1, BenchInvariance, PTL

(* A chunk of at most 2 * Cap + 1 bytes cannot make the two programs block *)
(* each other, unless their --echo flags disagree.                         *)
THEOREM NeverBlocked == Spec => []NoMutualBlock
<1>1. Inv => NoMutualBlock
  BY DEF Inv, NoMutualBlock, MutualBlock, TypeOK, EchoAccounting, Busy, Outstanding
<1> QED
  BY <1>1, BenchInvariance, PTL

(* The counters keep their bounds: no direction holds more than Cap bytes, *)
(* the server never counts more than the client was to send.               *)
THEOREM BenchTypeCorrect == Spec => []TypeOK
<1>1. Inv => TypeOK
  BY DEF Inv
<1> QED
  BY <1>1, BenchInvariance, PTL
=============================================================================
