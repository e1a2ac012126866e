-------------------------- MODULE SerialDemoProofs --------------------------
(***************************************************************************)
(* Proofs about SerialDemo, however often receives and sends time out      *)
(* early: as long as no line is cut, client and server stay in step.       *)
(***************************************************************************)
EXTENDS SerialDemo, SequenceTheorems, TLAPS

-----------------------------------------------------------------------------
(* The inductive invariant: the phases of a command in a session in which  *)
(* no line has been cut.                                                   *)

(* Nothing is on its way to p.                                             *)
Quiet(p) == line[p] = << >> /\ queue[p] = << >>

(* The line that carries l.                                                *)
Framed(l) == l \o Eol

(* p has taken k tokens of the line w, and r follows it.                   *)
InLine(p, w, k, r) ==
  k \in 0..(Len(w) - 1) /\ line[p] = Take(w, k) /\ queue[p] = Drop(w, k) \o r

Command == commands[cmd]

(* The client is about to write the command.                               *)
Writing ==
  /\ out["client"] = <<Framed(Command)>> /\ out["server"] = << >>
  /\ Quiet("client") /\ Quiet("server") /\ ~quit

(* The command is on its way.                                              *)
Sent ==
  /\ out["client"] = << >> /\ out["server"] = << >>
  /\ Quiet("client") /\ ~quit
  /\ \E k \in Nat : InLine("server", Framed(Command), k, << >>)

(* The server writes its answer, and the client reads it, up to the final  *)
(* line; only that of AT+INFO has a line before it.                        *)
FinalLine == Framed(Expected(cmd))
InfoLine  == Framed(Info)

Answered ==
  /\ out["client"] = << >> /\ Quiet("server") /\ (quit <=> Command = AtQuit)
  /\ \/ Quiet("client") /\ out["server"] = <<FinalLine>>
     \/ out["server"] = << >> /\ \E k \in Nat : InLine("client", FinalLine, k, << >>)
     \/ Command = AtInfo /\ Quiet("client") /\ out["server"] = <<InfoLine, FinalLine>>
     \/ /\ Command = AtInfo
        /\ out["server"] = <<FinalLine>>
        /\ \E k \in Nat : InLine("client", InfoLine, k, << >>)
     \/ /\ Command = AtInfo
        /\ out["server"] = << >>
        /\ \E k \in Nat : InLine("client", InfoLine, k, FinalLine)

(* Both programs are through.                                              *)
Over ==
  /\ out["client"] = << >> /\ out["server"] = << >>
  /\ Quiet("client") /\ Quiet("server") /\ quit

Session ==
  /\ matched /\ link = "up"
  /\ IF Closed THEN Over ELSE Writing \/ Sent \/ Answered

Inv == TypeOK /\ (~cut => Session)

-----------------------------------------------------------------------------
(* Lines.                                                                  *)

(* What a line holds besides its end.                                      *)
Plain == Token \ {"\r", "\n"}

(* The lines of the programs.                                              *)
LEMMA PlainLines ==
  /\ Len(commands) = 4
  /\ commands[1] = AT /\ commands[2] = AtInfo /\ commands[3] = AtPurge /\ commands[4] = AtQuit
  /\ AT \in Seq(Plain) /\ AtInfo \in Seq(Plain) /\ AtPurge \in Seq(Plain)
  /\ AtQuit \in Seq(Plain) /\ OK \in Seq(Plain) /\ Info \in Seq(Plain)
  /\ Bye \in Seq(Plain) /\ Error \in Seq(Plain)
BY DEF commands, AT, AtInfo, AtPurge, AtQuit, OK, Info, Bye, Error, Plain, Token

(* They are told apart, and none is empty.                                 *)
LEMMA LinesDiffer ==
  /\ AT # << >> /\ AtInfo # << >> /\ AtPurge # << >> /\ AtQuit # << >>
  /\ AT \notin {AtInfo, AtPurge, AtQuit} /\ AtInfo \notin {AtPurge, AtQuit}
  /\ AtPurge # AtQuit /\ OK # Bye /\ Info \notin {<< >>, OK, Bye}
  /\ Head(Info) # "ERROR"
BY DEF AT, AtInfo, AtPurge, AtQuit, OK, Info, Bye

(* A piece of a sequence.                                                  *)
LEMMA TakeDrop ==
  ASSUME NEW S, NEW s \in Seq(S), NEW k \in 0..Len(s)
  PROVE  /\ Take(s, k) \in Seq(S) /\ Len(Take(s, k)) = k
         /\ \A j \in 1..k : Take(s, k)[j] = s[j]
         /\ Drop(s, k) \in Seq(S) /\ Len(Drop(s, k)) = Len(s) - k
         /\ \A j \in 1..(Len(s) - k) : Drop(s, k)[j] = s[k + j]
<1>1. Len(s) \in Nat
  BY LenProperties
<1>2. Take(s, k) \in Seq(S) /\ Len(Take(s, k)) = k
  BY <1>1, SubSeqProperties DEF Take
<1>3. Drop(s, k) \in Seq(S) /\ Len(Drop(s, k)) = Len(s) - k
  BY <1>1, SubSeqProperties DEF Drop
<1>4. ASSUME NEW j \in 1..k PROVE Take(s, k)[j] = s[j]
  BY <1>1, SubSeqProperties DEF Take
<1>5. ASSUME NEW j \in 1..(Len(s) - k) PROVE Drop(s, k)[j] = s[k + j]
  BY <1>1, SubSeqProperties DEF Drop
<1> QED
  BY <1>2, <1>3, <1>4, <1>5

(* The next token, when r follows what is left.                            *)
LEMMA NextToken ==
  ASSUME NEW S, NEW s \in Seq(S), NEW k \in 0..(Len(s) - 1), NEW r \in Seq(S)
  PROVE  /\ Drop(s, k) \o r # << >> /\ Head(Drop(s, k) \o r) = s[k + 1]
         /\ Tail(Drop(s, k) \o r) = Drop(s, k + 1) \o r
         /\ Append(Take(s, k), s[k + 1]) = Take(s, k + 1)
<1>1. /\ Len(s) \in Nat /\ Len(r) \in Nat /\ k \in 0..Len(s) /\ k + 1 \in 0..Len(s)
      /\ k + 1 \in 1..Len(s)
  BY LenProperties
<1>2. PICK d : d = Drop(s, k)
  OBVIOUS
<1>3. /\ d \in Seq(S) /\ Len(d) = Len(s) - k
      /\ \A j \in 1..(Len(s) - k) : d[j] = s[k + j]
  BY <1>1, <1>2, TakeDrop
<1>4. PICK e : e = Drop(s, k + 1)
  OBVIOUS
<1>5. /\ e \in Seq(S) /\ Len(e) = Len(s) - (k + 1)
      /\ \A j \in 1..(Len(s) - (k + 1)) : e[j] = s[k + 1 + j]
  BY <1>1, <1>4, TakeDrop
<1>6. /\ d \o r \in Seq(S) /\ Len(d \o r) = Len(d) + Len(r)
      /\ \A j \in 1..(Len(d) + Len(r)) :
           (d \o r)[j] = IF j <= Len(d) THEN d[j] ELSE r[j - Len(d)]
  BY <1>3, ConcatProperties
<1>7. /\ e \o r \in Seq(S) /\ Len(e \o r) = Len(e) + Len(r)
      /\ \A j \in 1..(Len(e) + Len(r)) :
           (e \o r)[j] = IF j <= Len(e) THEN e[j] ELSE r[j - Len(e)]
  BY <1>5, ConcatProperties
<1>8. Len(d \o r) # 0
  BY <1>1, <1>3, <1>6
<1>9. d \o r # << >>
  BY <1>8, EmptySeq
<1>10. Head(d \o r) = s[k + 1]
  <2>1. (d \o r)[1] = s[k + 1]
    <3>1. 1 \in 1..(Len(d) + Len(r)) /\ 1 <= Len(d) /\ 1 \in 1..(Len(s) - k)
      BY <1>1, <1>3
    <3> QED
      BY <1>3, <1>6, <3>1
  <2> QED
    BY <1>6, <1>9, <2>1, HeadTailProperties
<1>11. Tail(d \o r) = e \o r
  <2>1. PICK t : t = Tail(d \o r)
    OBVIOUS
  <2>2. /\ t \in Seq(S) /\ Len(t) = Len(d \o r) - 1
        /\ \A j \in 1..Len(t) : t[j] = (d \o r)[j + 1]
    BY <1>6, <1>9, <2>1, HeadTailProperties
  <2>3. Len(t) = Len(e \o r)
    BY <1>1, <1>3, <1>5, <1>6, <1>7, <2>2
  <2>4. ASSUME NEW j \in 1..Len(t) PROVE t[j] = (e \o r)[j]
    <3>1. /\ j + 1 \in 1..(Len(d) + Len(r)) /\ j \in 1..(Len(e) + Len(r))
          /\ (j + 1 <= Len(d) <=> j <= Len(e))
          /\ j <= Len(e) => j + 1 \in 1..(Len(s) - k) /\ j \in 1..(Len(s) - (k + 1))
          /\ j + 1 - Len(d) = j - Len(e) /\ k + (j + 1) = k + 1 + j
      BY <1>1, <1>3, <1>5, <1>6, <2>2
    <3>2. t[j] = (d \o r)[j + 1]
      BY <2>2
    <3>3. CASE j <= Len(e)
      <4>1. (d \o r)[j + 1] = d[j + 1] /\ (e \o r)[j] = e[j]
        BY <1>6, <1>7, <3>1, <3>3
      <4>2. d[j + 1] = s[k + (j + 1)] /\ e[j] = s[k + 1 + j]
        BY <1>3, <1>5, <3>1, <3>3
      <4> QED
        BY <3>1, <3>2, <4>1, <4>2
    <3>4. CASE ~(j <= Len(e))
      <4>1. (d \o r)[j + 1] = r[j + 1 - Len(d)] /\ (e \o r)[j] = r[j - Len(e)]
        BY <1>6, <1>7, <3>1, <3>4
      <4> QED
        BY <3>1, <3>2, <4>1
    <3> QED
      BY <3>3, <3>4
  <2> QED
    BY <1>7, <2>1, <2>2, <2>3, <2>4, SeqEqual
<1>12. Append(Take(s, k), s[k + 1]) = Take(s, k + 1)
  <2>1. PICK a : a = Take(s, k)
    OBVIOUS
  <2>2. a \in Seq(S) /\ Len(a) = k /\ \A j \in 1..k : a[j] = s[j]
    BY <1>1, <2>1, TakeDrop
  <2>3. PICK b : b = Take(s, k + 1)
    OBVIOUS
  <2>4. b \in Seq(S) /\ Len(b) = k + 1 /\ \A j \in 1..(k + 1) : b[j] = s[j]
    BY <1>1, <2>3, TakeDrop
  <2>5. s[k + 1] \in S
    BY <1>1, ElementOfSeq
  <2>6. PICK c : c = Append(a, s[k + 1])
    OBVIOUS
  <2>7. /\ c \in Seq(S) /\ Len(c) = k + 1 /\ c[k + 1] = s[k + 1]
        /\ \A j \in 1..k : c[j] = a[j]
    BY <2>2, <2>5, <2>6, AppendProperties
  <2>8. \A j \in 1..(k + 1) : c[j] = b[j]
    <3>1. k + 1 \in 1..(k + 1) /\ \A j \in 1..(k + 1) : j \in 1..k \/ j = k + 1
      BY <1>1
    <3> QED
      BY <2>2, <2>4, <2>7, <3>1
  <2>9. c = b
    BY <2>4, <2>7, <2>8, SeqEqual
  <2> QED
    BY <2>1, <2>3, <2>6, <2>9
<1> QED
  BY <1>2, <1>4, <1>9, <1>10, <1>11, <1>12

(* A line's beginning and its end.                                         *)
LEMMA WholeLine ==
  ASSUME NEW S, NEW s \in Seq(S), NEW r \in Seq(S)
  PROVE  /\ Take(s, 0) = << >> /\ Drop(s, 0) = s
         /\ Drop(s, Len(s)) \o r = r
<1>1. Len(s) \in Nat
  BY LenProperties
<1>2. Take(s, 0) = << >>
  <2>1. Len(Take(s, 0)) = 0 /\ Take(s, 0) \in Seq(S)
    BY <1>1, TakeDrop
  <2> QED
    BY <2>1, EmptySeq
<1>3. Drop(s, 0) = s
  <2>1. PICK d : d = Drop(s, 0)
    OBVIOUS
  <2>2. d \in Seq(S) /\ Len(d) = Len(s) /\ \A j \in 1..Len(s) : d[j] = s[j]
    <3>1. PICK k \in 0..Len(s) : k = 0
      BY <1>1
    <3>2. /\ d \in Seq(S) /\ Len(d) = Len(s) - k
          /\ \A j \in 1..(Len(s) - k) : d[j] = s[k + j]
      BY <2>1, <3>1, TakeDrop
    <3>3. Len(s) - k = Len(s) /\ \A j \in 1..Len(s) : k + j = j
      BY <1>1, <3>1
    <3> QED
      BY <3>2, <3>3
  <2> QED
    BY <2>1, <2>2, SeqEqual
<1>4. Drop(s, Len(s)) = << >>
  <2>1. Len(Drop(s, Len(s))) = 0 /\ Drop(s, Len(s)) \in Seq(S)
    BY <1>1, TakeDrop
  <2> QED
    BY <2>1, EmptySeq
<1> QED
  BY <1>2, <1>3, <1>4, ConcatEmptySeq

(* The delimiter is the last token of a line, and what precedes it is the  *)
(* line and the '\r'.                                                      *)
LEMMA LineShape ==
  ASSUME NEW l \in Seq(Plain)
  PROVE  /\ Framed(l) \in Seq(Token) /\ Len(Framed(l)) = Len(l) + 2
         /\ \A k \in 1..Len(Framed(l)) : Framed(l)[k] = "\n" <=> k = Len(Framed(l))
         /\ StripCR(Take(Framed(l), Len(Framed(l)) - 1)) = l
<1>1. Len(l) \in Nat /\ l \in Seq(Token)
  BY LenProperties, SeqMonotonic DEF Plain
<1>2. Eol \in Seq(Token) /\ Len(Eol) = 2 /\ Eol[1] = "\r" /\ Eol[2] = "\n"
  BY DEF Eol, Token
<1>3. PICK w : w = Framed(l)
  OBVIOUS
<1>4. /\ w \in Seq(Token) /\ Len(w) = Len(l) + 2
      /\ \A k \in 1..(Len(l) + 2) : w[k] = IF k <= Len(l) THEN l[k] ELSE Eol[k - Len(l)]
  <2>1. PICK e : e = Eol
    OBVIOUS
  <2>2. e \in Seq(Token) /\ Len(e) = 2 /\ w = l \o e
    BY <1>2, <1>3, <2>1 DEF Framed
  <2>3. /\ w \in Seq(Token) /\ Len(w) = Len(l) + Len(e)
        /\ \A k \in 1..(Len(l) + Len(e)) : w[k] = IF k <= Len(l) THEN l[k] ELSE e[k - Len(l)]
    BY <1>1, <2>2, ConcatProperties
  <2> QED
    BY <2>1, <2>2, <2>3
<1>5. \A k \in 1..Len(l) : w[k] = l[k] /\ l[k] # "\n" /\ l[k] # "\r"
  <2>1. \A k \in 1..Len(l) : l[k] \in Plain /\ k \in 1..(Len(l) + 2) /\ k <= Len(l)
    BY <1>1, ElementOfSeq
  <2> QED
    BY <1>4, <2>1 DEF Plain
<1>6. w[Len(l) + 1] = "\r" /\ w[Len(l) + 2] = "\n"
  <2>1. /\ Len(l) + 1 \in 1..(Len(l) + 2) /\ ~(Len(l) + 1 <= Len(l))
        /\ Len(l) + 2 \in 1..(Len(l) + 2) /\ ~(Len(l) + 2 <= Len(l))
        /\ Len(l) + 1 - Len(l) = 1 /\ Len(l) + 2 - Len(l) = 2
    BY <1>1
  <2> QED
    BY <1>2, <1>4, <2>1
<1>7. \A k \in 1..Len(w) : w[k] = "\n" <=> k = Len(w)
  <2>1. \A k \in 1..Len(w) : (k \in 1..Len(l) /\ k # Len(w)) \/ k = Len(l) + 1 \/ k = Len(l) + 2
    BY <1>1, <1>4
  <2>2. Len(l) + 1 # Len(w) /\ Len(l) + 2 = Len(w)
    BY <1>1, <1>4
  <2> QED
    BY <1>5, <1>6, <2>1, <2>2
<1>8. PICK t : t = Take(w, Len(w) - 1)
  OBVIOUS
<1>9. t \in Seq(Token) /\ Len(t) = Len(l) + 1 /\ \A j \in 1..(Len(l) + 1) : t[j] = w[j]
  <2>1. Len(w) - 1 \in 0..Len(w) /\ Len(w) - 1 = Len(l) + 1
    BY <1>1, <1>4
  <2>2. PICK n \in 0..Len(w) : n = Len(w) - 1
    BY <2>1
  <2>3. t \in Seq(Token) /\ Len(t) = n /\ \A j \in 1..n : t[j] = w[j]
    BY <1>4, <1>8, <2>2, TakeDrop
  <2> QED
    BY <2>1, <2>2, <2>3
<1>10. StripCR(t) = SubSeq(t, 1, Len(l))
  <2>1. Len(t) # 0 /\ Len(t) \in 1..(Len(l) + 1) /\ Len(t) - 1 = Len(l)
    BY <1>1, <1>9
  <2>2. t # << >> /\ t[Len(t)] = "\r"
    BY <1>6, <1>9, <2>1, EmptySeq
  <2> QED
    BY <2>1, <2>2 DEF StripCR
<1>11. SubSeq(t, 1, Len(l)) = l
  <2>1. Take(t, Len(l)) = SubSeq(t, 1, Len(l)) /\ Len(l) \in 0..Len(t)
    BY <1>1, <1>9 DEF Take
  <2>2. PICK u : u = Take(t, Len(l))
    OBVIOUS
  <2>3. u \in Seq(Token) /\ Len(u) = Len(l) /\ \A j \in 1..Len(l) : u[j] = t[j]
    BY <1>9, <2>1, <2>2, TakeDrop
  <2>4. \A j \in 1..Len(l) : u[j] = l[j]
    <3>1. \A j \in 1..Len(l) : j \in 1..(Len(l) + 1)
      BY <1>1
    <3> QED
      BY <1>5, <1>9, <2>3, <3>1
  <2> QED
    BY <1>1, <2>1, <2>2, <2>3, <2>4, SeqEqual
<1> QED
  BY <1>3, <1>4, <1>7, <1>8, <1>10, <1>11

-----------------------------------------------------------------------------
(* The domains.                                                            *)

(* What the server answers are lines.                                      *)
LEMMA AnswerType == \A l : Answer(l) \in Seq(Seq(Token))
<1> SUFFICES ASSUME NEW l PROVE Answer(l) \in Seq(Seq(Token))
  OBVIOUS
<1>1. /\ Framed(OK) \in Seq(Token) /\ Framed(Info) \in Seq(Token)
      /\ Framed(Bye) \in Seq(Token) /\ Framed(Error) \in Seq(Token)
  BY PlainLines, LineShape
<1>2. \A v, w \in Seq(Token) : << >> \in Seq(Seq(Token)) /\ <<v>> \in Seq(Seq(Token))
                                 /\ <<v, w>> \in Seq(Seq(Token))
  OBVIOUS
<1>3. Answer(l) \in {<< >>, <<Framed(Info), Framed(OK)>>, <<Framed(Bye)>>, <<Framed(OK)>>,
                     <<Framed(Error)>>}
  BY DEF Answer, Framed
<1> QED
  BY <1>1, <1>2, <1>3

(* What a program does with a line.                                        *)
LEMMA HandlesTypes ==
  ASSUME TypeOK, NEW p \in Side, NEW l, NEW rest \in Seq(Token),
         Active(p), Handles(p, l, rest)
  PROVE  /\ queue' \in [Side -> Seq(Token)] /\ out' \in [Side -> Seq(Seq(Token))]
         /\ cmd' \in 1..(Len(commands) + 1) /\ quit' \in BOOLEAN /\ matched' \in BOOLEAN
<1>1. CASE p = "client"
  <2>1. ClientHandles(l, rest) /\ ~Closed
    BY <1>1 DEF Handles, Active
  <2>2. queue' \in [Side -> Seq(Token)] /\ quit' \in BOOLEAN
    BY <2>1 DEF ClientHandles, TypeOK, Side
  <2>3. CASE EndsCommand(l)
    <3>1. cmd \in 1..4 /\ cmd' = cmd + 1 /\ matched' = (matched /\ l = Expected(cmd))
      BY <2>1, <2>3, PlainLines DEF ClientHandles, Closed, TypeOK
    <3>2. PICK new : new = (IF cmd < Len(commands) THEN <<Framed(commands[cmd + 1])>> ELSE << >>)
      OBVIOUS
    <3>3. new \in Seq(Seq(Token))
      <4>1. CASE cmd < Len(commands)
        <5>1. cmd + 1 \in {2, 3, 4}
          BY <3>1, <4>1, PlainLines
        <5>2. commands[cmd + 1] \in Seq(Plain)
          BY <5>1, PlainLines
        <5>3. Framed(commands[cmd + 1]) \in Seq(Token)
          BY <5>2, LineShape
        <5> QED
          BY <3>2, <4>1, <5>3
      <4>2. CASE ~(cmd < Len(commands))
        BY <3>2, <4>2
      <4> QED
        BY <4>1, <4>2
    <3>4. out' = [out EXCEPT !["client"] = new]
      BY <2>1, <2>3, <3>2 DEF ClientHandles, Framed
    <3>5. out' \in [Side -> Seq(Seq(Token))]
      BY <3>3, <3>4 DEF TypeOK, Side
    <3>6. cmd' \in 1..(Len(commands) + 1)
      BY <3>1, PlainLines
    <3>7. matched' \in BOOLEAN
      BY <3>1
    <3> QED
      BY <2>2, <3>5, <3>6, <3>7
  <2>4. CASE ~EndsCommand(l)
    BY <2>1, <2>2, <2>4 DEF ClientHandles, TypeOK
  <2> QED
    BY <2>3, <2>4
<1>2. CASE p = "server"
  <2>1. ServerHandles(l, rest)
    BY <1>2 DEF Handles
  <2>2. PICK k \in 0..Len(rest) : queue' = [queue EXCEPT !["server"] = Drop(rest, k)]
    BY <2>1 DEF ServerHandles
  <2>3. Drop(rest, k) \in Seq(Token)
    BY TakeDrop
  <2>4. queue' \in [Side -> Seq(Token)]
    BY <2>2, <2>3 DEF TypeOK, Side
  <2>5. out' \in [Side -> Seq(Seq(Token))]
    BY <2>1, AnswerType DEF ServerHandles, TypeOK, Side
  <2> QED
    BY <2>1, <2>4, <2>5 DEF ServerHandles, TypeOK
<1> QED
  BY <1>1, <1>2 DEF Side

(* Every step keeps to the domains.                                        *)
LEMMA NextTypes == TypeOK /\ [Next]_vars => TypeOK'
<1> SUFFICES ASSUME TypeOK, [Next]_vars PROVE TypeOK'
  OBVIOUS
<1>0. /\ queue \in [Side -> Seq(Token)] /\ line \in [Side -> Seq(Token)]
      /\ out \in [Side -> Seq(Seq(Token))] /\ early \in 0..MaxEarly /\ MaxEarly \in Nat
      /\ \A p \in Side : Peer(p) \in Side
  BY DemoAssumption DEF TypeOK, Side, Peer
<1>1. early' \in 0..MaxEarly /\ link' \in {"up", "lost"} /\ cut' \in BOOLEAN
  <2>1. CASE \E p \in Side : Step(p)
    <3>1. UNCHANGED early \/ Early
      BY <2>1 DEF Step, WriteLine, WriteLineFails, Recv, RecvFails
    <3>2. UNCHANGED link /\ cut' \in BOOLEAN
      BY <2>1 DEF Step, WriteLine, WriteLineFails, Recv, RecvFails, TypeOK
    <3> QED
      BY <1>0, <3>1, <3>2 DEF Early, TypeOK
  <2>2. CASE LinkLoss
    BY <2>2 DEF LinkLoss, TypeOK
  <2>3. CASE UNCHANGED vars
    BY <2>3 DEF vars, TypeOK
  <2> QED
    BY <2>1, <2>2, <2>3 DEF Next
<1>2. ASSUME NEW p \in Side, WriteLine(p) \/ \E k \in 0..3 : WriteLineFails(p, k)
      PROVE  TypeOK'
  <2>1. /\ out[p] # << >> /\ out' = [out EXCEPT ![p] = Tail(@)]
        /\ UNCHANGED <<line, cmd, quit, matched>>
    BY <1>2 DEF WriteLine, WriteLineFails
  <2>2. Head(out[p]) \in Seq(Token) /\ Tail(out[p]) \in Seq(Seq(Token))
    BY <1>0, <2>1, HeadTailProperties
  <2>3. PICK w \in Seq(Token) : queue' = [queue EXCEPT ![Peer(p)] = @ \o w]
    <3>1. CASE WriteLine(p)
      BY <2>2, <3>1 DEF WriteLine
    <3>2. ASSUME NEW k \in 0..3, WriteLineFails(p, k)
          PROVE  \E w \in Seq(Token) : queue' = [queue EXCEPT ![Peer(p)] = @ \o w]
      <4>1. k \in 0..Len(Head(out[p]))
        BY <2>2, <3>2, LenProperties DEF WriteLineFails
      <4>2. Take(Head(out[p]), k) \in Seq(Token)
        BY <2>2, <4>1, TakeDrop
      <4> QED
        BY <3>2, <4>2 DEF WriteLineFails
    <3> QED
      BY <1>2, <3>1, <3>2
  <2>4. queue[Peer(p)] \o w \in Seq(Token)
    BY <1>0, ConcatProperties
  <2>5. queue' \in [Side -> Seq(Token)]
    BY <1>0, <2>3, <2>4
  <2>6. out' \in [Side -> Seq(Seq(Token))]
    BY <1>0, <2>1, <2>2
  <2> QED
    BY <1>1, <2>1, <2>5, <2>6 DEF TypeOK
<1>3. ASSUME NEW p \in Side, Recv(p) PROVE TypeOK'
  <2>1. queue[p] \in Seq(Token) /\ queue[p] # << >> /\ Active(p)
    BY <1>0, <1>3 DEF Recv, Reading
  <2>2. Head(queue[p]) \in Token /\ Tail(queue[p]) \in Seq(Token)
    BY <2>1, HeadTailProperties
  <2>3. CASE Head(queue[p]) = "\n"
    <3>1. Handles(p, StripCR(line[p]), Tail(queue[p])) /\ line' = [line EXCEPT ![p] = << >>]
      BY <1>3, <2>3 DEF Recv
    <3>2. line' \in [Side -> Seq(Token)]
      BY <1>0, <3>1
    <3> QED
      BY <1>1, <2>1, <2>2, <3>1, <3>2, HandlesTypes DEF TypeOK
  <2>4. CASE Head(queue[p]) # "\n"
    <3>1. /\ queue' = [queue EXCEPT ![p] = Tail(@)]
          /\ line' = [line EXCEPT ![p] = Append(@, Head(queue[p]))]
          /\ UNCHANGED <<out, cmd, quit, matched>>
      BY <1>3, <2>4 DEF Recv
    <3>2. Append(line[p], Head(queue[p])) \in Seq(Token)
      BY <1>0, <2>2, AppendProperties
    <3>3. queue' \in [Side -> Seq(Token)] /\ line' \in [Side -> Seq(Token)]
      BY <1>0, <2>2, <3>1, <3>2
    <3> QED
      BY <1>1, <3>1, <3>3 DEF TypeOK
  <2> QED
    BY <2>3, <2>4
<1>4. ASSUME NEW p \in Side, RecvFails(p) PROVE TypeOK'
  <2>1. /\ Active(p) /\ Handles(p, line[p], queue[p]) /\ queue[p] \in Seq(Token)
        /\ line' = [line EXCEPT ![p] = << >>]
    BY <1>0, <1>4 DEF RecvFails, Reading
  <2>2. line' \in [Side -> Seq(Token)]
    BY <1>0, <2>1
  <2> QED
    BY <1>1, <2>1, <2>2, HandlesTypes DEF TypeOK
<1>5. CASE LinkLoss
  <2>1. PICK n \in 0..Len(queue["client"]), m \in 0..Len(queue["server"]) :
          queue' = [p \in Side |-> Take(queue[p], IF p = "client" THEN n ELSE m)]
    BY <1>5 DEF LinkLoss
  <2>2. ASSUME NEW p \in Side
        PROVE  Take(queue[p], IF p = "client" THEN n ELSE m) \in Seq(Token)
    <3>1. queue["client"] \in Seq(Token) /\ queue["server"] \in Seq(Token)
      BY <1>0 DEF Side
    <3>2. Take(queue["client"], n) \in Seq(Token) /\ Take(queue["server"], m) \in Seq(Token)
      BY <3>1, TakeDrop
    <3> QED
      BY <3>2 DEF Side
  <2>3. queue' \in [Side -> Seq(Token)]
    BY <2>1, <2>2
  <2> QED
    BY <1>1, <1>5, <2>3 DEF LinkLoss, TypeOK
<1>6. CASE UNCHANGED vars
  BY <1>6 DEF vars, TypeOK
<1> QED
  BY <1>2, <1>3, <1>4, <1>5, <1>6 DEF Next, Step

-----------------------------------------------------------------------------
(* Reading a line, token by token.                                         *)

(* A read of p leaves alone what is the other program's.                   *)
LEMMA ReadsItsOwn ==
  ASSUME TypeOK, NEW p \in Side, NEW q \in Side, p # q, Recv(p)
  PROVE  line'[q] = line[q] /\ queue'[q] = queue[q] /\ UNCHANGED <<link, early, cut>>
<1>1. line'[q] = line[q] /\ UNCHANGED <<link, early, cut>>
  BY DEF Recv, TypeOK
<1>2. CASE Head(queue[p]) = "\n"
  <2>1. Handles(p, StripCR(line[p]), Tail(queue[p]))
    BY <1>2 DEF Recv
  <2>2. \E new : queue' = [queue EXCEPT ![p] = new]
    BY <2>1 DEF Handles, ClientHandles, ServerHandles, Side
  <2> QED
    BY <1>1, <2>2 DEF TypeOK
<1>3. CASE Head(queue[p]) # "\n"
  BY <1>1, <1>3 DEF Recv, TypeOK
<1> QED
  BY <1>2, <1>3

(* A line that is being read goes on, or is whole and is handled.          *)
LEMMA LineStep ==
  ASSUME TypeOK, NEW p \in Side, NEW l \in Seq(Plain), NEW k \in Nat, NEW r \in Seq(Token),
         InLine(p, Framed(l), k, r), Recv(p)
  PROVE  \/ Handles(p, l, r) /\ line' = [line EXCEPT ![p] = << >>]
         \/ InLine(p, Framed(l), k + 1, r)' /\ UNCHANGED <<out, cmd, quit, matched>>
<1>1. PICK w : w = Framed(l)
  OBVIOUS
<1>2. /\ w \in Seq(Token) /\ Len(w) = Len(l) + 2 /\ Len(l) \in Nat
      /\ \A j \in 1..Len(w) : w[j] = "\n" <=> j = Len(w)
      /\ StripCR(Take(w, Len(w) - 1)) = l
  BY <1>1, LineShape, LenProperties
<1>3. k \in 0..(Len(w) - 1) /\ line[p] = Take(w, k) /\ queue[p] = Drop(w, k) \o r
  BY <1>1 DEF InLine
<1>4. /\ Head(queue[p]) = w[k + 1] /\ Tail(queue[p]) = Drop(w, k + 1) \o r
      /\ Append(line[p], w[k + 1]) = Take(w, k + 1)
  <2>1. /\ Head(Drop(w, k) \o r) = w[k + 1] /\ Tail(Drop(w, k) \o r) = Drop(w, k + 1) \o r
        /\ Append(Take(w, k), w[k + 1]) = Take(w, k + 1)
    BY <1>2, <1>3, NextToken, Zenon
  <2> QED
    BY <1>3, <2>1, Zenon
<1>5. k + 1 \in 1..Len(w)
  BY <1>2, <1>3
<1>6. CASE k + 1 = Len(w)
  <2>1. Head(queue[p]) = "\n"
    BY <1>2, <1>4, <1>5, <1>6
  <2>2. Handles(p, StripCR(line[p]), Tail(queue[p])) /\ line' = [line EXCEPT ![p] = << >>]
    BY <2>1 DEF Recv
  <2>3. k = Len(w) - 1
    BY <1>2, <1>6
  <2>4. StripCR(line[p]) = l
    BY <1>2, <1>3, <2>3
  <2>5. Tail(queue[p]) = r
    BY <1>2, <1>4, <1>6, WholeLine
  <2> QED
    BY <2>2, <2>4, <2>5
<1>7. CASE k + 1 # Len(w)
  <2>1. Head(queue[p]) # "\n"
    BY <1>2, <1>4, <1>5, <1>7
  <2>2. /\ queue' = [queue EXCEPT ![p] = Tail(@)]
        /\ line' = [line EXCEPT ![p] = Append(@, Head(queue[p]))]
        /\ UNCHANGED <<out, cmd, quit, matched>>
    BY <2>1 DEF Recv
  <2>3. line'[p] = Take(w, k + 1) /\ queue'[p] = Drop(w, k + 1) \o r
    BY <1>4, <2>2 DEF TypeOK
  <2>4. k + 1 \in 0..(Len(w) - 1)
    BY <1>2, <1>5, <1>7
  <2> QED
    BY <1>1, <2>2, <2>3, <2>4 DEF InLine
<1> QED
  BY <1>6, <1>7

(* A line of which p has yet to read everything.                           *)
LEMMA NewLine ==
  ASSUME NEW l \in Seq(Plain), NEW p \in Side, line'[p] = << >>, queue'[p] = Framed(l)
  PROVE  InLine(p, Framed(l), 0, << >>)'
<1>1. Framed(l) \in Seq(Token) /\ Len(Framed(l)) = Len(l) + 2 /\ Len(l) \in Nat
  BY LineShape, LenProperties
<1>2. Take(Framed(l), 0) = << >> /\ Drop(Framed(l), 0) = Framed(l)
  BY <1>1, WholeLine
<1>3. Framed(l) \o << >> = Framed(l)
  BY <1>1, ConcatEmptySeq
<1>4. 0 \in 0..(Len(Framed(l)) - 1)
  BY <1>1
<1> QED
  BY <1>2, <1>3, <1>4 DEF InLine

-----------------------------------------------------------------------------
(* The steps of a session in which nothing is cut.                         *)

(* The commands, and the lines that answer them.                           *)
LEMMA Dialogue ==
  ASSUME cmd \in 1..4
  PROVE  /\ Command \in Seq(Plain) /\ Expected(cmd) \in Seq(Plain) /\ Command # << >>
         /\ EndsCommand(Expected(cmd)) /\ ~EndsCommand(Info)
         /\ Answer(Command) = IF Command = AtInfo THEN <<InfoLine, FinalLine>>
                                                  ELSE <<FinalLine>>
         /\ Command = AtQuit <=> cmd = 4
<1>1. ~EndsCommand(Info)
  BY LinesDiffer DEF EndsCommand
<1>2. cmd = 1 \/ cmd = 2 \/ cmd = 3 \/ cmd = 4
  OBVIOUS
<1>3. CASE cmd = 1
  <2>1. Command = AT /\ Expected(cmd) = OK
    BY <1>3, PlainLines, LinesDiffer DEF Command, Expected
  <2>2. Answer(Command) = <<FinalLine>>
    BY <2>1, LinesDiffer DEF Answer, FinalLine, Framed
  <2> QED
    BY <1>1, <1>3, <2>1, <2>2, PlainLines, LinesDiffer DEF EndsCommand
<1>4. CASE cmd = 2
  <2>1. Command = AtInfo /\ Expected(cmd) = OK
    BY <1>4, PlainLines, LinesDiffer DEF Command, Expected
  <2>2. Answer(Command) = <<InfoLine, FinalLine>>
    BY <2>1, LinesDiffer DEF Answer, InfoLine, FinalLine, Framed
  <2> QED
    BY <1>1, <1>4, <2>1, <2>2, PlainLines, LinesDiffer DEF EndsCommand
<1>5. CASE cmd = 3
  <2>1. Command = AtPurge /\ Expected(cmd) = OK
    BY <1>5, PlainLines, LinesDiffer DEF Command, Expected
  <2>2. Answer(Command) = <<FinalLine>>
    BY <2>1, LinesDiffer DEF Answer, FinalLine, Framed
  <2> QED
    BY <1>1, <1>5, <2>1, <2>2, PlainLines, LinesDiffer DEF EndsCommand
<1>6. CASE cmd = 4
  <2>1. Command = AtQuit /\ Expected(cmd) = Bye
    BY <1>6, PlainLines DEF Command, Expected
  <2>2. Answer(Command) = <<FinalLine>>
    BY <2>1, LinesDiffer DEF Answer, FinalLine, Framed
  <2> QED
    BY <1>1, <1>6, <2>1, <2>2, PlainLines, LinesDiffer DEF EndsCommand
<1> QED
  BY <1>2, <1>3, <1>4, <1>5, <1>6

(* The client is not through yet.                                          *)
LEMMA OpenRange ==
  ASSUME TypeOK, ~Closed
  PROVE  /\ cmd \in 1..4
         /\ queue \in [Side -> Seq(Token)] /\ line \in [Side -> Seq(Token)]
         /\ out \in [Side -> Seq(Seq(Token))]
         /\ FinalLine \in Seq(Token) /\ InfoLine \in Seq(Token)
         /\ Framed(Command) \in Seq(Token)
<1>1. cmd \in 1..4
  BY PlainLines DEF TypeOK, Closed
<1>2. Command \in Seq(Plain) /\ Expected(cmd) \in Seq(Plain) /\ Info \in Seq(Plain)
  BY <1>1, Dialogue, PlainLines
<1>3. Framed(Command) \in Seq(Token) /\ Framed(Expected(cmd)) \in Seq(Token)
      /\ Framed(Info) \in Seq(Token)
  BY <1>2, LineShape
<1> QED
  BY <1>1, <1>3 DEF TypeOK, FinalLine, InfoLine

(* Both programs are through: there is nothing left to do.                 *)
LEMMA OverStands ==
  ASSUME Over, Closed, NEW p \in Side
  PROVE  ~WriteLine(p) /\ ~Recv(p) /\ ~RecvFails(p)
<1>1. ~Active("client") /\ ~Active("server")
  BY DEF Over, Active
<1>2. ~Active(p)
  BY <1>1 DEF Side
<1> QED
  BY <1>2, <1>1 DEF WriteLine, Connected, Recv, RecvFails, Reading

(* The client writes its command.                                          *)
LEMMA ClientWrites ==
  ASSUME TypeOK, Session, ~Closed, WriteLine("client")
  PROVE  Session'
<1>1. /\ out["client"] # << >> /\ queue' = [queue EXCEPT !["server"] = @ \o Head(out["client"])]
      /\ out' = [out EXCEPT !["client"] = Tail(@)]
      /\ UNCHANGED <<line, cmd, quit, link, matched, early, cut>>
  BY DEF WriteLine, Peer
<1>2. Writing
  BY <1>1 DEF Session, Sent, Answered
<1>3. /\ cmd \in 1..4 /\ Command \in Seq(Plain) /\ Framed(Command) \in Seq(Token)
      /\ queue \in [Side -> Seq(Token)] /\ out \in [Side -> Seq(Seq(Token))]
  BY OpenRange, Dialogue
<1>4. PICK w : w = Framed(Command)
  OBVIOUS
<1>5. w \in Seq(Token) /\ Head(<<w>>) = w /\ Tail(<<w>>) = << >>
  BY <1>3, <1>4
<1>6. /\ queue'["server"] = w /\ queue'["client"] = << >>
      /\ out'["client"] = << >> /\ out'["server"] = << >>
  <2>1. << >> \o w = w
    BY <1>5, ConcatEmptySeq
  <2> QED
    BY <1>1, <1>2, <1>3, <1>4, <1>5, <2>1 DEF Writing, Quiet, Side
<1>7. PICK l \in Seq(Plain) : l = Command
  BY <1>3
<1>8. InLine("server", Framed(Command), 0, << >>)'
  <2>1. line'["server"] = << >> /\ queue'["server"] = Framed(l)
    BY <1>1, <1>2, <1>4, <1>6, <1>7 DEF Writing, Quiet
  <2>2. InLine("server", Framed(l), 0, << >>)'
    BY <2>1, NewLine DEF Side
  <2> QED
    BY <1>1, <1>7, <2>2 DEF Command
<1>9. Sent'
  BY <1>1, <1>2, <1>6, <1>8 DEF Sent, Writing, Quiet
<1> QED
  BY <1>1, <1>9 DEF Session, Closed

(* The server writes a line of its answer.                                 *)
LEMMA ServerWrites ==
  ASSUME TypeOK, Session, ~Closed, WriteLine("server")
  PROVE  Session'
<1>1. /\ out["server"] # << >> /\ queue' = [queue EXCEPT !["client"] = @ \o Head(out["server"])]
      /\ out' = [out EXCEPT !["server"] = Tail(@)]
      /\ UNCHANGED <<line, cmd, quit, link, matched, early, cut>>
  BY DEF WriteLine, Peer
<1>2. Answered
  BY <1>1 DEF Session, Sent, Writing
<1>3. /\ queue \in [Side -> Seq(Token)] /\ out \in [Side -> Seq(Seq(Token))]
      /\ FinalLine \in Seq(Token) /\ InfoLine \in Seq(Token)
      /\ Expected(cmd) \in Seq(Plain) /\ Info \in Seq(Plain)
  BY OpenRange, Dialogue, PlainLines
<1>4. PICK f \in Seq(Token) : f = FinalLine
  BY <1>3
<1>5. PICK i \in Seq(Token) : i = InfoLine
  BY <1>3
<1>6. /\ Head(<<f>>) = f /\ Tail(<<f>>) = << >> /\ Head(<<i, f>>) = i /\ Tail(<<i, f>>) = <<f>>
      /\ << >> \o f = f /\ << >> \o i = i
  BY ConcatEmptySeq
<1>7. /\ queue'["server"] = queue["server"] /\ out'["client"] = out["client"]
      /\ queue'["client"] = queue["client"] \o Head(out["server"])
      /\ out'["server"] = Tail(out["server"])
  BY <1>1, <1>3 DEF Side
<1>8. /\ FinalLine' = f /\ InfoLine' = i /\ (Command = AtInfo)' = (Command = AtInfo)
      /\ (out["client"] = << >> /\ Quiet("server") /\ (quit <=> Command = AtQuit))'
  BY <1>1, <1>2, <1>4, <1>5, <1>7 DEF Answered, Quiet, Command, FinalLine, InfoLine
<1>9. ASSUME Quiet("client") /\ out["server"] = <<FinalLine>>
      PROVE  Answered'
  <2>1. queue'["client"] = f /\ line'["client"] = << >> /\ out'["server"] = << >>
    BY <1>1, <1>4, <1>6, <1>7, <1>9 DEF Quiet
  <2>2. PICK l \in Seq(Plain) : l = Expected(cmd)
    BY <1>3
  <2>3. InLine("client", Framed(l), 0, << >>)'
    BY <1>4, <2>1, <2>2, NewLine DEF Side, FinalLine
  <2>4. InLine("client", FinalLine, 0, << >>)'
    BY <1>1, <2>2, <2>3 DEF FinalLine
  <2>5. (out["server"] = << >> /\ \E k \in Nat : InLine("client", FinalLine, k, << >>))'
    BY <2>1, <2>4
  <2> QED
    BY <1>8, <2>5 DEF Answered
<1>10. ASSUME Command = AtInfo /\ Quiet("client") /\ out["server"] = <<InfoLine, FinalLine>>
       PROVE  Answered'
  <2>1. queue'["client"] = i /\ line'["client"] = << >> /\ out'["server"] = <<f>>
    BY <1>1, <1>4, <1>5, <1>6, <1>7, <1>10 DEF Quiet
  <2>2. InLine("client", Framed(Info), 0, << >>)'
    BY <1>3, <1>5, <2>1, NewLine DEF Side, InfoLine
  <2>3. InLine("client", InfoLine, 0, << >>)'
    BY <2>2 DEF InfoLine
  <2>4. (/\ Command = AtInfo /\ out["server"] = <<FinalLine>>
         /\ \E k \in Nat : InLine("client", InfoLine, k, << >>))'
    BY <1>8, <1>10, <2>1, <2>3
  <2> QED
    BY <1>8, <2>4 DEF Answered
<1>11. ASSUME /\ Command = AtInfo /\ out["server"] = <<FinalLine>>
              /\ \E k \in Nat : InLine("client", InfoLine, k, << >>)
       PROVE  Answered'
  <2>1. PICK k \in Nat : InLine("client", InfoLine, k, << >>)
    BY <1>11
  <2>2. k \in 0..(Len(i) - 1) /\ line["client"] = Take(i, k) /\ queue["client"] = Drop(i, k) \o << >>
    BY <1>5, <2>1 DEF InLine
  <2>3. Drop(i, k) \in Seq(Token)
    <3>1. k \in 0..Len(i)
      BY <2>2, LenProperties
    <3> QED
      BY <3>1, TakeDrop
  <2>4. queue["client"] = Drop(i, k)
    BY <2>2, <2>3, ConcatEmptySeq
  <2>5. /\ queue'["client"] = Drop(i, k) \o f /\ line'["client"] = Take(i, k)
        /\ out'["server"] = << >>
    BY <1>1, <1>4, <1>6, <1>7, <1>11, <2>2, <2>4
  <2>6. InLine("client", InfoLine, k, FinalLine)'
    BY <1>8, <2>2, <2>5 DEF InLine
  <2>7. (/\ Command = AtInfo /\ out["server"] = << >>
         /\ \E j \in Nat : InLine("client", InfoLine, j, FinalLine))'
    BY <1>8, <1>11, <2>5, <2>6
  <2> QED
    BY <1>8, <2>7 DEF Answered
<1>12. Answered'
  BY <1>1, <1>2, <1>9, <1>10, <1>11 DEF Answered
<1> QED
  BY <1>1, <1>12 DEF Session, Closed

(* The server reads the command, and answers it.                           *)
LEMMA ServerReads ==
  ASSUME TypeOK, Session, ~Closed, Recv("server")
  PROVE  Session'
<1>1. /\ out["server"] = << >> /\ queue["server"] # << >>
      /\ line'["client"] = line["client"] /\ queue'["client"] = queue["client"]
      /\ UNCHANGED <<link, early, cut>>
  BY ReadsItsOwn DEF Recv, Reading, Side
<1>2. Sent
  BY <1>1 DEF Session, Writing, Answered, Quiet
<1>3. cmd \in 1..4 /\ Command \in Seq(Plain) /\ Command # << >>
  BY OpenRange, Dialogue
<1>4. PICK l \in Seq(Plain) : l = Command
  BY <1>3
<1>5. PICK k \in Nat : InLine("server", Framed(l), k, << >>)
  BY <1>2, <1>4 DEF Sent
<1>6. PICK r \in Seq(Token) : r = << >>
  BY EmptySeq
<1>7. \/ Handles("server", l, r) /\ line' = [line EXCEPT !["server"] = << >>]
      \/ InLine("server", Framed(l), k + 1, r)' /\ UNCHANGED <<out, cmd, quit, matched>>
  BY <1>5, <1>6, LineStep DEF Side
<1>8. CASE InLine("server", Framed(l), k + 1, r)' /\ UNCHANGED <<out, cmd, quit, matched>>
  <2>1. InLine("server", Framed(Command), k + 1, << >>)'
    BY <1>4, <1>6, <1>8 DEF Command
  <2>2. Sent'
    BY <1>1, <1>2, <1>8, <2>1 DEF Sent, Quiet
  <2> QED
    BY <1>1, <1>8, <2>2 DEF Session, Closed
<1>9. CASE Handles("server", l, r) /\ line' = [line EXCEPT !["server"] = << >>]
  <2>1. ServerHandles(l, r)
    BY <1>9 DEF Handles
  <2>2. PICK n \in 0..Len(r) : queue' = [queue EXCEPT !["server"] = Drop(r, n)]
    BY <2>1 DEF ServerHandles
  <2>3. Drop(r, n) = << >>
    <3>1. Len(r) = 0 /\ n = 0 /\ Len(r) - n = 0
      BY <1>6, <2>2, EmptySeq
    <3>2. Drop(r, n) \in Seq(Token) /\ Len(Drop(r, n)) = Len(r) - n
      BY TakeDrop
    <3> QED
      BY <3>1, <3>2, EmptySeq
  <2>4. /\ out' = [out EXCEPT !["server"] = Answer(l)] /\ quit' = (l = AtQuit)
        /\ UNCHANGED <<cmd, matched>>
    BY <2>1 DEF ServerHandles
  <2>5. (out["client"] = << >> /\ Quiet("server") /\ Quiet("client"))'
    BY <1>1, <1>2, <1>9, <2>2, <2>3, <2>4 DEF Sent, Quiet, TypeOK, Side
  <2>6. (quit <=> Command = AtQuit)'
    BY <1>4, <2>4 DEF Command
  <2>7. out'["server"] = Answer(l)
    BY <2>4 DEF TypeOK, Side
  <2>8. FinalLine' = FinalLine /\ InfoLine' = InfoLine /\ (Command = AtInfo)' = (Command = AtInfo)
    BY <2>4 DEF FinalLine, InfoLine, Command
  <2>9. Answer(l) = IF Command = AtInfo THEN <<InfoLine, FinalLine>> ELSE <<FinalLine>>
    BY <1>3, <1>4, Dialogue
  <2>10. Answered'
    BY <2>5, <2>6, <2>7, <2>8, <2>9 DEF Answered
  <2> QED
    BY <1>1, <2>4, <2>10 DEF Session, Closed
<1> QED
  BY <1>7, <1>8, <1>9

(* The client has read the final line: its next command, or the end.       *)
LEMMA ClientGoesOn ==
  ASSUME TypeOK, Session, ~Closed, Answered, out["server"] = << >>,
         ClientHandles(Expected(cmd), << >>), line' = [line EXCEPT !["client"] = << >>],
         UNCHANGED <<link, early, cut>>
  PROVE  Session'
<1>1. cmd \in 1..4 /\ EndsCommand(Expected(cmd)) /\ (Command = AtQuit <=> cmd = 4)
  BY OpenRange, Dialogue
<1>2. cmd' = cmd + 1 /\ matched' = TRUE /\ quit' = quit /\ matched
  BY <1>1 DEF ClientHandles, Session
<1>3. Quiet("client")' /\ Quiet("server")' /\ out'["server"] = << >>
  <2>1. queue' = [queue EXCEPT !["client"] = << >>]
    BY DEF ClientHandles
  <2>2. out'["server"] = << >>
    BY <1>1 DEF ClientHandles, TypeOK, Side
  <2> QED
    BY <2>1, <2>2 DEF Answered, Quiet, TypeOK, Side
<1>4. CASE cmd = 4
  <2>1. Closed' /\ quit' /\ out'["client"] = << >>
    <3>1. cmd' > 4 /\ ~(cmd < 4)
      BY <1>2, <1>4
    <3>2. out'["client"] = << >>
      BY <1>1, <3>1, PlainLines DEF ClientHandles, TypeOK, Side
    <3> QED
      BY <1>1, <1>2, <1>4, <3>1, <3>2, PlainLines DEF Closed, Answered
  <2>2. Over'
    BY <1>3, <2>1 DEF Over
  <2> QED
    BY <1>2, <2>1, <2>2 DEF Session
<1>5. CASE cmd # 4
  <2>1. cmd < 4 /\ ~(cmd' > 4)
    BY <1>1, <1>2, <1>5
  <2>2. ~Closed' /\ ~quit'
    BY <1>1, <1>2, <1>5, <2>1, PlainLines DEF Closed, Answered
  <2>3. out'["client"] = <<Framed(Command)'>>
    BY <1>1, <1>2, <2>1, PlainLines DEF ClientHandles, TypeOK, Side, Framed, Command
  <2>4. Writing'
    BY <1>3, <2>2, <2>3 DEF Writing, Command, Framed
  <2> QED
    BY <1>2, <2>2, <2>4 DEF Session
<1> QED
  BY <1>4, <1>5

(* The client reads the answer.                                            *)
LEMMA ClientReads ==
  ASSUME TypeOK, Session, ~Closed, Recv("client")
  PROVE  Session'
<1>1. /\ out["client"] = << >> /\ queue["client"] # << >>
      /\ line'["server"] = line["server"] /\ queue'["server"] = queue["server"]
      /\ UNCHANGED <<link, early, cut>>
  BY ReadsItsOwn DEF Recv, Reading, Side
<1>2. Answered
  BY <1>1 DEF Session, Writing, Sent, Quiet
<1>3. /\ cmd \in 1..4 /\ Expected(cmd) \in Seq(Plain) /\ Info \in Seq(Plain)
      /\ FinalLine \in Seq(Token) /\ ~EndsCommand(Info)
  BY OpenRange, Dialogue, PlainLines
<1>4. ASSUME UNCHANGED <<out, cmd, quit, matched>>
      PROVE  /\ FinalLine' = FinalLine /\ InfoLine' = InfoLine
             /\ (Command = AtInfo)' = (Command = AtInfo)
             /\ (out["client"] = << >> /\ Quiet("server") /\ (quit <=> Command = AtQuit))'
             /\ Answered' => Session'
  <2>1. /\ FinalLine' = FinalLine /\ InfoLine' = InfoLine
        /\ (Command = AtInfo)' = (Command = AtInfo)
    BY <1>4 DEF FinalLine, InfoLine, Command
  <2>2. (out["client"] = << >> /\ Quiet("server") /\ (quit <=> Command = AtQuit))'
    BY <1>1, <1>2, <1>4 DEF Answered, Quiet, Command
  <2>3. Answered' => Session'
    BY <1>1, <1>4 DEF Session, Closed
  <2> QED
    BY <2>1, <2>2, <2>3
<1>5. PICK e \in Seq(Token) : e = << >>
  BY EmptySeq
<1>6. CASE out["server"] = << >> /\ \E k \in Nat : InLine("client", FinalLine, k, << >>)
  <2>1. PICK k \in Nat : InLine("client", FinalLine, k, << >>)
    BY <1>6
  <2>2. PICK l \in Seq(Plain) : l = Expected(cmd)
    BY <1>3
  <2>3. InLine("client", Framed(l), k, e)
    BY <1>5, <2>1, <2>2 DEF FinalLine
  <2>4. \/ Handles("client", l, e) /\ line' = [line EXCEPT !["client"] = << >>]
        \/ InLine("client", Framed(l), k + 1, e)' /\ UNCHANGED <<out, cmd, quit, matched>>
    BY <2>3, LineStep DEF Side
  <2>5. CASE Handles("client", l, e) /\ line' = [line EXCEPT !["client"] = << >>]
    <3>1. ClientHandles(Expected(cmd), << >>)
      BY <1>5, <2>2, <2>5 DEF Handles
    <3> QED
      BY <1>1, <1>2, <1>6, <2>5, <3>1, ClientGoesOn
  <2>6. CASE InLine("client", Framed(l), k + 1, e)' /\ UNCHANGED <<out, cmd, quit, matched>>
    <3>1. InLine("client", FinalLine, k + 1, << >>)'
      BY <1>5, <2>2, <2>6 DEF FinalLine
    <3>2. (out["server"] = << >> /\ \E j \in Nat : InLine("client", FinalLine, j, << >>))'
      BY <1>6, <2>6, <3>1
    <3>3. Answered'
      BY <1>4, <2>6, <3>2 DEF Answered
    <3> QED
      BY <1>4, <2>6, <3>3
  <2> QED
    BY <2>4, <2>5, <2>6
<1>7. ASSUME NEW r \in Seq(Token), Handles("client", Info, r),
             line' = [line EXCEPT !["client"] = << >>]
      PROVE  /\ UNCHANGED <<out, cmd, quit, matched>>
             /\ line'["client"] = << >> /\ queue'["client"] = r
  <2>1. ClientHandles(Info, r)
    BY <1>7 DEF Handles
  <2> QED
    BY <1>3, <1>7, <2>1 DEF ClientHandles, TypeOK, Side
<1>8. CASE /\ Command = AtInfo
           /\ out["server"] = <<FinalLine>>
           /\ \E k \in Nat : InLine("client", InfoLine, k, << >>)
  <2>1. PICK k \in Nat : InLine("client", Framed(Info), k, e)
    BY <1>5, <1>8 DEF InfoLine
  <2>2. \/ Handles("client", Info, e) /\ line' = [line EXCEPT !["client"] = << >>]
        \/ InLine("client", Framed(Info), k + 1, e)' /\ UNCHANGED <<out, cmd, quit, matched>>
    BY <1>3, <2>1, LineStep DEF Side
  <2>3. CASE Handles("client", Info, e) /\ line' = [line EXCEPT !["client"] = << >>]
    <3>1. UNCHANGED <<out, cmd, quit, matched>> /\ Quiet("client")'
      BY <1>5, <1>7, <2>3 DEF Quiet
    <3>2. (Quiet("client") /\ out["server"] = <<FinalLine>>)'
      BY <1>4, <1>8, <3>1
    <3>3. Answered'
      BY <1>4, <3>1, <3>2 DEF Answered
    <3> QED
      BY <1>4, <3>1, <3>3
  <2>4. CASE InLine("client", Framed(Info), k + 1, e)' /\ UNCHANGED <<out, cmd, quit, matched>>
    <3>1. InLine("client", InfoLine, k + 1, << >>)'
      BY <1>5, <2>4 DEF InfoLine
    <3>2. (/\ Command = AtInfo /\ out["server"] = <<FinalLine>>
           /\ \E j \in Nat : InLine("client", InfoLine, j, << >>))'
      BY <1>4, <1>8, <2>4, <3>1
    <3>3. Answered'
      BY <1>4, <2>4, <3>2 DEF Answered
    <3> QED
      BY <1>4, <2>4, <3>3
  <2> QED
    BY <2>2, <2>3, <2>4
<1>9. CASE /\ Command = AtInfo
           /\ out["server"] = << >>
           /\ \E k \in Nat : InLine("client", InfoLine, k, FinalLine)
  <2>1. PICK f \in Seq(Token) : f = FinalLine
    BY <1>3
  <2>2. PICK k \in Nat : InLine("client", Framed(Info), k, f)
    BY <1>9, <2>1 DEF InfoLine
  <2>3. \/ Handles("client", Info, f) /\ line' = [line EXCEPT !["client"] = << >>]
        \/ InLine("client", Framed(Info), k + 1, f)' /\ UNCHANGED <<out, cmd, quit, matched>>
    BY <1>3, <2>2, LineStep DEF Side
  <2>4. CASE Handles("client", Info, f) /\ line' = [line EXCEPT !["client"] = << >>]
    <3>1. /\ UNCHANGED <<out, cmd, quit, matched>>
          /\ line'["client"] = << >> /\ queue'["client"] = f
      BY <1>7, <2>4
    <3>2. PICK l \in Seq(Plain) : l = Expected(cmd)
      BY <1>3
    <3>3. InLine("client", Framed(l), 0, << >>)'
      BY <2>1, <3>1, <3>2, NewLine DEF Side, FinalLine
    <3>4. InLine("client", FinalLine, 0, << >>)'
      BY <3>1, <3>2, <3>3 DEF FinalLine
    <3>5. (out["server"] = << >> /\ \E j \in Nat : InLine("client", FinalLine, j, << >>))'
      BY <1>9, <3>1, <3>4
    <3>6. Answered'
      BY <1>4, <3>1, <3>5 DEF Answered
    <3> QED
      BY <1>4, <3>1, <3>6
  <2>5. CASE InLine("client", Framed(Info), k + 1, f)' /\ UNCHANGED <<out, cmd, quit, matched>>
    <3>1. InLine("client", InfoLine, k + 1, FinalLine)'
      BY <1>4, <2>1, <2>5 DEF InfoLine
    <3>2. (/\ Command = AtInfo /\ out["server"] = << >>
           /\ \E j \in Nat : InLine("client", InfoLine, j, FinalLine))'
      BY <1>4, <1>9, <2>5, <3>1
    <3>3. Answered'
      BY <1>4, <2>5, <3>2 DEF Answered
    <3> QED
      BY <1>4, <2>5, <3>3
  <2> QED
    BY <2>3, <2>4, <2>5
<1>10. ~Quiet("client")
  BY <1>1 DEF Quiet
<1> QED
  BY <1>2, <1>6, <1>8, <1>9, <1>10 DEF Answered

(* The server's read_line times out before it has read anything.           *)
LEMMA ServerWaits ==
  ASSUME TypeOK, line["server"] = << >>, RecvFails("server")
  PROVE  UNCHANGED <<queue, line, out, cmd, quit, link, matched>>
<1>1. /\ out["server"] = << >> /\ ~quit /\ ServerHandles(<< >>, queue["server"])
      /\ line' = [line EXCEPT !["server"] = << >>] /\ UNCHANGED link
  BY DEF RecvFails, Reading, Active, Handles
<1>2. PICK k \in 0..Len(queue["server"]) :
        /\ k = 0 \/ << >> = AtPurge
        /\ queue' = [queue EXCEPT !["server"] = Drop(queue["server"], k)]
  BY <1>1 DEF ServerHandles
<1>3. k = 0 /\ queue["server"] \in Seq(Token)
  BY <1>2, LinesDiffer DEF TypeOK, Side
<1>4. Drop(queue["server"], 0) = queue["server"]
  BY <1>3, WholeLine, EmptySeq
<1>5. queue' = queue
  BY <1>2, <1>3, <1>4 DEF TypeOK, Side
<1>6. Answer(<< >>) = << >>
  BY LinesDiffer DEF Answer
<1>7. /\ out' = [out EXCEPT !["server"] = Answer(<< >>)] /\ quit' = (<< >> = AtQuit)
      /\ UNCHANGED <<cmd, matched>>
  BY <1>1 DEF ServerHandles
<1>8. out' = out /\ line' = line
  BY <1>1, <1>6, <1>7 DEF TypeOK, Side
<1>9. quit' = quit
  BY <1>1, <1>7, LinesDiffer DEF TypeOK
<1> QED
  BY <1>1, <1>5, <1>7, <1>8, <1>9

(* The session begins with the client's first command.                     *)
LEMMA InitInv == Init => Inv
<1> SUFFICES ASSUME Init PROVE Inv
  OBVIOUS
<1>1. /\ commands[1] \in Seq(Plain) /\ Len(commands) = 4
      /\ Framed(commands[1]) \in Seq(Token) /\ << >> \in Seq(Token)
  BY PlainLines, LineShape, EmptySeq
<1>2. PICK w \in Seq(Token) : w = Framed(commands[1])
  BY <1>1
<1>3. out = [p \in Side |-> IF p = "client" THEN <<w>> ELSE << >>]
  BY <1>2 DEF Init, Framed
<1>4. out \in [Side -> Seq(Seq(Token))]
  BY <1>3
<1>5. TypeOK
  <2>1. queue \in [Side -> Seq(Token)] /\ line \in [Side -> Seq(Token)]
    BY <1>1 DEF Init
  <2>2. cmd \in 1..(Len(commands) + 1) /\ early \in 0..MaxEarly
    BY <1>1, DemoAssumption DEF Init
  <2>3. quit \in BOOLEAN /\ link \in {"up", "lost"} /\ matched \in BOOLEAN /\ cut \in BOOLEAN
    BY DEF Init
  <2> QED
    BY <1>4, <2>1, <2>2, <2>3 DEF TypeOK
<1>6. ~Closed /\ cmd = 1 /\ ~quit
  BY <1>1 DEF Init, Closed
<1>7. Quiet("client") /\ Quiet("server")
  BY DEF Init, Quiet, Side
<1>8. Writing
  BY <1>2, <1>3, <1>6, <1>7 DEF Writing, Command, Side
<1> QED
  BY <1>5, <1>6, <1>8 DEF Inv, Session, Init

(* Every step keeps the invariant.                                         *)
LEMMA NextInv == Inv /\ [Next]_vars => Inv'
<1> SUFFICES ASSUME Inv, [Next]_vars PROVE Inv'
  OBVIOUS
<1>1. TypeOK /\ TypeOK'
  BY NextTypes DEF Inv
<1> SUFFICES ASSUME ~cut' PROVE Session'
  BY <1>1 DEF Inv
<1>2. ~cut /\ Session
  <2>1. ~cut
    BY DEF Next, Step, WriteLine, WriteLineFails, Recv, RecvFails, LinkLoss, vars
  <2> QED
    BY <2>1 DEF Inv
<1>3. ASSUME UNCHANGED <<queue, line, out, cmd, quit, link, matched>> PROVE Session'
  BY <1>2, <1>3 DEF Session, Closed, Over, Writing, Sent, Answered, Quiet, InLine, Command,
                    FinalLine, InfoLine
<1>4. ASSUME NEW p \in Side, WriteLine(p) PROVE Session'
  <2>1. ~Closed
    BY <1>4 DEF WriteLine, Connected, Active
  <2> QED
    BY <1>1, <1>2, <1>4, <2>1, ClientWrites, ServerWrites DEF Side
<1>5. ASSUME NEW p \in Side, Recv(p) PROVE Session'
  <2>1. ~Closed
    <3>1. Closed => Over
      BY <1>2 DEF Session
    <3> QED
      BY <1>5, <3>1, OverStands
  <2> QED
    BY <1>1, <1>2, <1>5, <2>1, ClientReads, ServerReads DEF Side
<1>6. ASSUME NEW p \in Side, RecvFails(p) PROVE Session'
  <2>1. p = "server" /\ line["server"] = << >>
    BY <1>6 DEF RecvFails, Side
  <2>2. UNCHANGED <<queue, line, out, cmd, quit, link, matched>>
    BY <1>1, <1>6, <2>1, ServerWaits
  <2> QED
    BY <1>3, <2>2
<1>7. CASE UNCHANGED vars
  BY <1>3, <1>7 DEF vars
<1>8. ~LinkLoss /\ \A p \in Side, k \in 0..3 : ~WriteLineFails(p, k)
  BY DEF LinkLoss, WriteLineFails
<1> QED
  BY <1>4, <1>5, <1>6, <1>7, <1>8 DEF Next, Step

(* The inductive invariant of the session: while nothing is cut, the two   *)
(* programs are in the same phase of the same command.                     *)
THEOREM DemoInvariance == Spec => []Inv
BY InitInv, NextInv, PTL DEF Spec

(* Every variable of the two programs stays in its domain.                 *)
THEOREM DemoTypeCorrect == Spec => []TypeOK
<1>1. Inv => TypeOK
  BY DEF Inv
<1> QED
  BY <1>1, DemoInvariance, PTL

(* In a session in which no line is cut, each command of the client has    *)
(* got its own answer, and nothing is on the way when the client writes    *)
(* the next one: the purge of AT+PURGE never discards a command.           *)
THEOREM StaysInStep == Spec => []InStep
<1>1. Inv => InStep
  <2> SUFFICES ASSUME Inv, ~cut
               PROVE  /\ matched
                      /\ out["client"] # << >> =>
                           /\ queue = [p \in Side |-> << >>] /\ line = queue
                           /\ out["server"] = << >>
    BY DEF InStep
  <2>1. TypeOK /\ Session
    BY DEF Inv
  <2>2. ASSUME out["client"] # << >>
        PROVE  queue = [p \in Side |-> << >>] /\ line = queue /\ out["server"] = << >>
    <3>1. Quiet("client") /\ Quiet("server") /\ out["server"] = << >>
      BY <2>1, <2>2 DEF Session, Over, Writing, Sent, Answered
    <3>2. \A p \in Side : queue[p] = << >> /\ line[p] = << >>
      BY <3>1 DEF Quiet, Side
    <3>3. queue = [p \in Side |-> << >>] /\ line = [p \in Side |-> << >>]
      BY <2>1, <3>2 DEF TypeOK
    <3> QED
      BY <3>1, <3>3
  <2> QED
    BY <2>1, <2>2 DEF Session
<1> QED
  BY <1>1, DemoInvariance, PTL
=============================================================================
