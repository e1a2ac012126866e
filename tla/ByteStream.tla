----------------------------- MODULE ByteStream -----------------------------
(***************************************************************************)
(* What a serial port promises about received data: while it is open, the  *)
(* application takes the bytes the peer has written, in order, each once.  *)
(***************************************************************************)
EXTENDS Integers, Sequences

CONSTANT Byte

VARIABLES
  open,       \* the port is open
  written,    \* the bytes the peer has written since it was opened
  taken       \* the ones the application has read or discarded

streamVars == <<open, written, taken>>

Init == open = FALSE /\ written = << >> /\ taken = << >>

Write ==
  /\ open
  /\ \E b \in Byte : written' = Append(written, b)
  /\ UNCHANGED <<open, taken>>

(* The next bytes of the stream, as many as have been written at most.     *)
TakeNext ==
  /\ open
  /\ \E n \in (Len(taken) + 1)..Len(written) : taken' = SubSeq(written, 1, n)
  /\ UNCHANGED <<open, written>>

(* A new connection, with nothing of the old one in it.                    *)
Reopen == open' = TRUE /\ written' = << >> /\ taken' = << >>

(* While the port is shut nothing is taken; what was left is dropped.      *)
Shut ==
  /\ open' = FALSE
  /\ \/ UNCHANGED <<written, taken>>
     \/ written' = << >> /\ taken' = << >>

Next == Write \/ TakeNext \/ Reopen \/ Shut

Spec == Init /\ [][Next]_streamVars
=============================================================================
