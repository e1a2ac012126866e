--------------------------- MODULE ChatEchoProofs ---------------------------
(***************************************************************************)
(* Proofs about ChatEcho: for every build, way to start it and number of   *)
(* messages under way, what the two threads of chat_echo print and leave   *)
(* behind is right in every interleaving.                                  *)
(***************************************************************************)
EXTENDS ChatEcho, TLAPS

(* What "[Peer disconnected]" may be printed for.  The peer does not come  *)
(* back and sends nothing once it is gone, and what has timed out has      *)
(* timed out, so this stays true.                                          *)
Excused == (peer = "gone" /\ inbox = 0) \/ timedout

(* The flag is cleared before the socket is closed, the descriptor closed  *)
(* before the handle is reset, and the program left after the join.        *)
ClosesInOrder ==
  /\ main \in {"close", "reset", "join", "exit"} => ~running
  /\ fd <=> main \notin {"reset", "join", "exit"}
  /\ handle <=> main \notin {"join", "exit"}
  /\ main = "exit" => reader = "done"

(* The reader sees a receive fail because of the main thread only after    *)
(* the flag is cleared; the flag is read between failure and report.       *)
ReportsInOrder ==
  /\ reader = "failed" => ~running \/ Excused
  /\ reader = "report" => Excused
  /\ reported => Excused

Inv == TypeOK /\ ClosesInOrder /\ ReportsInOrder

-----------------------------------------------------------------------------
(* The program starts with an open socket and two threads at their loops.  *)
LEMMA InitInv == Init => Inv
<1>1. 0 \in 0..MaxInbox
  BY ChatAssumption
<1>2. Init => TypeOK
  BY <1>1 DEF Init, TypeOK
<1>3. Init => ClosesInOrder /\ ReportsInOrder
  BY DEF Init, ClosesInOrder, ReportsInOrder
<1> QED
  BY <1>2, <1>3 DEF Inv

(* The reader's steps.                                                     *)
LEMMA ReaderInv == Inv /\ ReaderNext => Inv'
<1> SUFFICES ASSUME Inv, ReaderNext PROVE Inv'
  OBVIOUS
<1> USE ChatAssumption DEF Inv, TypeOK, ClosesInOrder, ReportsInOrder, Excused, build
<1>1. CASE ReaderLoop
  BY <1>1 DEF ReaderLoop
<1>2. CASE ReaderIsOpen
  BY <1>2 DEF ReaderIsOpen
<1>3. CASE ReaderCalls
  BY <1>3 DEF ReaderCalls
<1>4. CASE ReaderRecv
  BY <1>4 DEF ReaderRecv
<1>5. CASE ReaderRecvFails
  BY <1>5 DEF ReaderRecvFails
<1>6. CASE ReaderTimesOut
  BY <1>6 DEF ReaderTimesOut
<1>7. CASE ReaderFailed
  BY <1>7 DEF ReaderFailed
<1>8. CASE ReaderReports
  BY <1>8 DEF ReaderReports
<1> QED
  BY <1>1, <1>2, <1>3, <1>4, <1>5, <1>6, <1>7, <1>8 DEF ReaderNext

(* The main thread's steps.                                                *)
LEMMA MainInv == Inv /\ MainNext => Inv'
<1> SUFFICES ASSUME Inv, MainNext PROVE Inv'
  OBVIOUS
<1> USE DEF Inv, TypeOK, ClosesInOrder, ReportsInOrder, Excused, build
<1>1. CASE MainLoop
  BY <1>1 DEF MainLoop
<1>2. CASE MainSend
  BY <1>2 DEF MainSend
<1>3. CASE MainStops
  BY <1>3 DEF MainStops
<1>4. CASE MainCloses
  BY <1>4 DEF MainCloses
<1>5. CASE MainResetsHandle
  BY <1>5 DEF MainResetsHandle
<1>6. CASE MainJoins
  BY <1>6 DEF MainJoins
<1> QED
  BY <1>1, <1>2, <1>3, <1>4, <1>5, <1>6 DEF MainNext

(* The user and the peer.                                                  *)
LEMMA OutsideInv ==
  ASSUME Inv,
         (\E line \in {"text", "quit", "eof"} : UserTypes(line))
           \/ PeerSends \/ PeerDisconnects
  PROVE  Inv'
<1> USE ChatAssumption DEF Inv, TypeOK, ClosesInOrder, ReportsInOrder, Excused, build
<1>1. ASSUME NEW line \in {"text", "quit", "eof"}, UserTypes(line) PROVE Inv'
  BY <1>1 DEF UserTypes
<1>2. CASE PeerSends
  BY <1>2 DEF PeerSends
<1>3. CASE PeerDisconnects
  BY <1>3 DEF PeerDisconnects
<1> QED
  BY <1>1, <1>2, <1>3

(* Inv holds in every reachable state.                                     *)
THEOREM ChatInvariance == Spec => []Inv
<1>1. Inv /\ [Next]_vars => Inv'
  <2>1. Inv /\ UNCHANGED vars => Inv'
    BY DEF vars, build, Inv, TypeOK, ClosesInOrder, ReportsInOrder, Excused
  <2> QED
    BY <2>1, ReaderInv, MainInv, OutsideInv DEF Next
<1> QED
  BY <1>1, InitInv, PTL DEF Spec

(* Every variable of the two threads stays in its domain.                  *)
THEOREM ChatTypeCorrect == Spec => []TypeOK
<1>1. Inv => TypeOK
  BY DEF Inv
<1> QED
  BY <1>1, ChatInvariance, PTL

(* The reader never takes the main thread's own close for a disconnected   *)
(* peer, in whatever order the two threads read and write the flag, the    *)
(* handle and the descriptor: it reports after the last message of a peer  *)
(* that is gone, or after a receive that has timed out.                    *)
THEOREM ReportsAreTrue == Spec => []ReportIsTrue
<1>1. Inv => ReportIsTrue
  BY DEF Inv, ReportsInOrder, Excused, ReportIsTrue
<1> QED
  BY <1>1, ChatInvariance, PTL

(* When chat_echo returns from main, its reader no longer uses the Socket  *)
(* and the flag, and the descriptor is closed.                             *)
THEOREM ExitsClean == Spec => []ExitIsClean
<1>1. Inv => ExitIsClean
  BY DEF Inv, ClosesInOrder, ExitIsClean
<1> QED
  BY <1>1, ChatInvariance, PTL
=============================================================================
