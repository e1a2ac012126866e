----------------------------- MODULE SerialDemo -----------------------------
(***************************************************************************)
(* A session of examples/serial_port_demo.cpp: the client program sends AT *)
(* commands over its SerialPort and reads lines until a final one, the     *)
(* server program emulates the device.  Both write with write_line, whose  *)
(* result neither looks at, and read with read_line.                       *)
(*                                                                         *)
(* What travels is a sequence of tokens: the smallest pieces of a line     *)
(* that the programs tell apart.  queue[p] is all that p has yet to read:  *)
(* the cache of its SerialPort (SerialPort.tla shows that it keeps the     *)
(* order), its kernel's queue and what is on the air.  Since part of it may*)
(* not have arrived, a receive can time out whatever queue[p] holds.       *)
(***************************************************************************)
EXTENDS Integers, Sequences

CONSTANT MaxEarly   \* bound: timeouts although there is more to read or room to write

ASSUME DemoAssumption == MaxEarly \in Nat

Side == {"client", "server"}
Peer(p) == IF p = "client" THEN "server" ELSE "client"

(* The lines without their end; an unknown command is answered with ERROR. *)
AT      == <<"AT">>
AtInfo  == <<"AT", "+INFO">>
AtPurge == <<"AT", "+PURGE">>
AtQuit  == <<"AT", "+QUIT">>
OK      == <<"OK">>
Info    == <<"+INFO: SimpleRFCOMM">>
Bye     == <<"BYE">>
Error   == <<"ERROR", ": UNKNOWN COMMAND">>

commands == <<AT, AtInfo, AtPurge, AtQuit>>
Eol      == <<"\r", "\n">>

Token == {"AT", "+INFO", "+PURGE", "+QUIT", "OK", "+INFO: SimpleRFCOMM", "BYE",
          "ERROR", ": UNKNOWN COMMAND", "\r", "\n"}

VARIABLES
  queue,      \* queue[p]: what p has yet to read
  line,       \* line[p]: what the read_line in progress has taken
  out,        \* out[p]: what is left of the write_line calls p is making
  cmd,        \* the client's position in commands; past the end: port closed
  quit,       \* the server left its loop
  link,       \* "up" or "lost"
  matched,    \* history: each command so far ended with the line that answers it
  early,      \* the number of early timeouts
  cut         \* history: a read_line returned before the end of its line, a
              \* write_line failed, or the link was lost

vars == <<queue, line, out, cmd, quit, link, matched, early, cut>>

Closed == cmd > Len(commands)

(* Faulty: the client does not close its port.                             *)
BugNeverCloses(p) == p = "client" \/ ~(quit /\ out["server"] = << >>)

(* p has not closed its port; the server's goes when main returns.         *)
Active(p) == IF p = "client" THEN ~Closed ELSE ~(quit /\ out["server"] = << >>)

Connected == link = "up" /\ Active("client") /\ Active("server")

Take(s, n) == SubSeq(s, 1, n)
Drop(s, n) == SubSeq(s, n + 1, Len(s))

Init ==
  /\ queue = [p \in Side |-> << >>]
  /\ line = [p \in Side |-> << >>]
  /\ out = [p \in Side |-> IF p = "client" THEN <<commands[1] \o Eol>> ELSE << >>]
  /\ cmd = 1 /\ quit = FALSE /\ link = "up"
  /\ matched = TRUE /\ early = 0 /\ cut = FALSE

-----------------------------------------------------------------------------
(* write_line, by Socket::send_all.  The line is on its way as a whole: a  *)
(* part that ::send has yet to accept is to the reader a part that has yet *)
(* to arrive.                                                              *)

(* An early timeout.                                                       *)
Early == early < MaxEarly /\ early' = early + 1

WriteLine(p) ==
  /\ Connected /\ out[p] # << >>
  /\ queue' = [queue EXCEPT ![Peer(p)] = @ \o Head(out[p])]
  /\ out' = [out EXCEPT ![p] = Tail(@)]
  /\ UNCHANGED <<line, cmd, quit, link, matched, early, cut>>

(* ::send fails after k tokens: the peer is gone, or SO_SNDTIMEO is over.  *)
(* write_line returns false, and the program goes on.                      *)
WriteLineFails(p, k) ==
  /\ Active(p) /\ out[p] # << >> /\ k < Len(Head(out[p]))
  /\ queue' = [queue EXCEPT ![Peer(p)] = @ \o Take(Head(out[p]), k)]
  /\ out' = [out EXCEPT ![p] = Tail(@)]
  /\ cut' = TRUE
  /\ IF Connected THEN Early ELSE k = 0 /\ UNCHANGED early
  /\ UNCHANGED <<line, cmd, quit, link, matched>>

-----------------------------------------------------------------------------
(* What the programs do with the line l that read_line returned, when rest *)
(* is what is left to read.                                                *)

(* Faulty: the client goes on after any line, not only after a final one.  *)
BugTakesAnyLine(l) == TRUE

(* resp.empty(), or resp is OK or BYE or starts with ERROR.                *)
EndsCommand(l) == l \in {<< >>, OK, Bye} \/ (l # << >> /\ Head(l) = "ERROR")

(* The line that answers the command for good.                             *)
Expected(c) == IF commands[c] = AtQuit THEN Bye ELSE OK

ClientHandles(l, rest) ==
  /\ queue' = [queue EXCEPT !["client"] = rest]
  /\ IF EndsCommand(l)
       THEN /\ cmd' = cmd + 1
            /\ matched' = (matched /\ l = Expected(cmd))
            /\ out' = [out EXCEPT !["client"] =
                         IF cmd < Len(commands) THEN <<commands[cmd + 1] \o Eol>> ELSE << >>]
       ELSE UNCHANGED <<cmd, matched, out>>
  /\ UNCHANGED quit

(* The lines the server answers with.                                      *)
Answer(l) ==
  CASE l = << >>   -> << >>
    [] l = AtInfo  -> <<Info \o Eol, OK \o Eol>>
    [] l = AtQuit  -> <<Bye \o Eol>>
    [] l \in {AT, AtPurge} -> <<OK \o Eol>>
    [] OTHER -> <<Error \o Eol>>

(* Faulty: the server stays in its loop.                                   *)
BugNeverQuits(l, rest) ==
  /\ queue' = [queue EXCEPT !["server"] = rest]
  /\ out' = [out EXCEPT !["server"] = Answer(l)]
  /\ UNCHANGED <<cmd, matched, quit>>

(* purge, before the answer, discards what has arrived by then.            *)
ServerHandles(l, rest) ==
  /\ \E k \in 0..Len(rest) :
       /\ k = 0 \/ l = AtPurge
       /\ queue' = [queue EXCEPT !["server"] = Drop(rest, k)]
  /\ out' = [out EXCEPT !["server"] = Answer(l)]
  /\ quit' = (l = AtQuit)
  /\ UNCHANGED <<cmd, matched>>

Handles(p, l, rest) ==
  IF p = "client" THEN ClientHandles(l, rest) ELSE ServerHandles(l, rest)

-----------------------------------------------------------------------------
(* read_line.                                                              *)

StripCR(l) == IF l # << >> /\ l[Len(l)] = "\r" THEN SubSeq(l, 1, Len(l) - 1) ELSE l

Reading(p) == Active(p) /\ out[p] = << >>

(* The next token is taken; the delimiter ends the line.                   *)
Recv(p) ==
  /\ Reading(p) /\ queue[p] # << >>
  /\ IF Head(queue[p]) = "\n"
       THEN /\ Handles(p, StripCR(line[p]), Tail(queue[p]))
            /\ line' = [line EXCEPT ![p] = << >>]
       ELSE /\ queue' = [queue EXCEPT ![p] = Tail(@)]
            /\ line' = [line EXCEPT ![p] = Append(@, Head(queue[p]))]
            /\ UNCHANGED <<out, cmd, quit, matched>>
  /\ UNCHANGED <<link, early, cut>>

(* Faulty: the client waits until it has read something.                   *)
BugWaitsForever(p) ==
  /\ Reading(p) /\ (p = "client" => line[p] # << >>)
  /\ Handles(p, line[p], queue[p])
  /\ line' = [line EXCEPT ![p] = << >>]
  /\ cut' = (cut \/ p = "client" \/ line[p] # << >>)
  /\ IF queue[p] # << >> THEN Early ELSE UNCHANGED early
  /\ UNCHANGED link

(* Timeout, or disconnect: read_line returns what it has.  To the server,  *)
(* whose client may well take its time, no line at all means nothing.      *)
RecvFails(p) ==
  /\ Reading(p)
  /\ Handles(p, line[p], queue[p])
  /\ line' = [line EXCEPT ![p] = << >>]
  /\ cut' = (cut \/ p = "client" \/ line[p] # << >>)
  /\ IF queue[p] # << >> THEN Early ELSE UNCHANGED early
  /\ UNCHANGED link

(* The radio link dies, and with it what is on the air.                    *)
LinkLoss ==
  /\ Connected
  /\ link' = "lost"
  /\ \E n \in 0..Len(queue["client"]), m \in 0..Len(queue["server"]) :
       queue' = [p \in Side |-> Take(queue[p], IF p = "client" THEN n ELSE m)]
  /\ cut' = TRUE
  /\ UNCHANGED <<line, out, cmd, quit, matched, early>>

-----------------------------------------------------------------------------
Step(p) ==
  \/ WriteLine(p)
  \/ \E k \in 0..3 : WriteLineFails(p, k)
  \/ Recv(p) \/ RecvFails(p)

Next == (\E p \in Side : Step(p)) \/ LinkLoss

Spec == Init /\ [][Next]_vars

(* Both programs run; every receive and send ends, by its timeout if by    *)
(* nothing else.                                                           *)
FairSpec == Spec /\ \A p \in Side : WF_vars(Step(p))
-----------------------------------------------------------------------------
(* Properties.                                                             *)

(* Every variable stays in its domain.                                     *)
TypeOK ==
  /\ queue \in [Side -> Seq(Token)] /\ line \in [Side -> Seq(Token)]
  /\ out \in [Side -> Seq(Seq(Token))]
  /\ cmd \in 1..(Len(commands) + 1) /\ quit \in BOOLEAN /\ link \in {"up", "lost"}
  /\ matched \in BOOLEAN /\ early \in 0..MaxEarly /\ cut \in BOOLEAN

(* As long as no line was cut, the two programs are in step: each command  *)
(* has got its own answer, and nothing is on the way in either direction   *)
(* when the client writes the next one; so the purge of AT+PURGE discards  *)
(* no command, and no answer is taken for that of a later command.         *)
InStep ==
  ~cut =>
    /\ matched
    /\ out["client"] # << >> =>
         /\ queue = [p \in Side |-> << >>] /\ line = queue
         /\ out["server"] = << >>

(* Whatever is cut or lost, the client gets through its commands.          *)
ClientFinishes == <>Closed

(* A session without cuts ends on both sides.                              *)
SessionEnds == <>(cut \/ (Closed /\ ~Active("server")))

(* The server's loop runs while its port is "open and connected": it ends  *)
(* once the client is gone.                                                *)
ServerEnds == Closed ~> ~Active("server")
=============================================================================
