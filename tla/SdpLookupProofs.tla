--------------------------- MODULE SdpLookupProofs ---------------------------
(***************************************************************************)
(* Proofs about SdpLookup: resolve_channel's walk is exact for answers of  *)
(* every length and shape.                                                 *)
(***************************************************************************)
EXTENDS SdpLookup, TLAPS

-----------------------------------------------------------------------------
(* The inductive invariant.                                                *)

(* The descriptor of item m has ended by item n.                           *)
Ended(m, n) == \E k \in m..n : answer[k] \notin Element

(* over says that the open descriptor had its value after RFCOMM.          *)
OverExact ==
  /\ over => \E m \in 1..Len(answer) : AfterRfcomm(m) /\ ~Ended(m, Len(answer))
  /\ ~over => \A m \in 1..Len(answer) : AfterRfcomm(m) => Ended(m, Len(answer))

(* Until then, proto[i - 1] is RFCOMM right after RFCOMM's UUID was read,  *)
(* and at no other time: a value that is no channel does not hide it.      *)
LastExact ==
  ~over => (last = {Rfcomm} <=> Len(answer) > 0 /\ answer[Len(answer)] = Rfcomm)

Inv ==
  /\ TypeOK /\ OverExact /\ LastExact
  /\ status = "walking" => found_channel = 0
  /\ LookupExact

-----------------------------------------------------------------------------
(* Items and answers.                                                      *)

(* UUIDs, values and the marks that open a list are told apart.            *)
LEMMA Items ==
  /\ Element \subseteq Item
  /\ \A x \in ProtocolUuid : x \in Element /\ x \notin Value
  /\ \A x \in Value : x \in Element /\ x # Rfcomm /\ x \in Int
  /\ \A x \in {NextRecord, NextStack, NextDescriptor} : x \in Item /\ x \notin Element
  /\ Rfcomm \in ProtocolUuid
BY LookupAssumption DEF Item, Element, ProtocolUuid, Value, Rfcomm, L2cap, Rfcomm128,
   NextRecord, NextStack, NextDescriptor

(* Reading an item leaves the ones before it in place.                     *)
LEMMA Grows ==
  ASSUME TypeOK, NEW x \in Item, answer' = Append(answer, x)
  PROVE  /\ Len(answer) \in Nat /\ Len(answer') = Len(answer) + 1
         /\ \A k \in 1..Len(answer) : answer'[k] = answer[k]
         /\ answer'[Len(answer) + 1] = x
         /\ answer' \in Seq(Item)
BY DEF TypeOK

(* So the items before it mean what they meant.                            *)
LEMMA PastKept ==
  ASSUME TypeOK, NEW x \in Item, answer' = Append(answer, x), NEW m \in 1..Len(answer)
  PROVE  /\ AfterRfcomm(m)' <=> AfterRfcomm(m)
         /\ IsChannel(m)' <=> IsChannel(m)
         /\ Ended(m, Len(answer))' <=> Ended(m, Len(answer)) \/ x \notin Element
<1>1. /\ Len(answer) \in Nat /\ Len(answer') = Len(answer) + 1
      /\ \A k \in 1..Len(answer) : answer'[k] = answer[k]
      /\ answer'[Len(answer) + 1] = x
  BY Grows
<1>2. ASSUME NEW i \in 1..Len(answer) PROVE AfterRfcomm(i)' <=> AfterRfcomm(i)
  BY <1>1 DEF AfterRfcomm
<1>3. IsChannel(m)' <=> IsChannel(m)
  <2>1. \A i \in 1..(m - 1) : i \in 1..Len(answer) /\ i..m \subseteq 1..Len(answer)
    BY <1>1
  <2>2. ASSUME NEW i \in 1..(m - 1)
        PROVE  (\E k \in i..m : answer'[k] \notin Element)
                 <=> (\E k \in i..m : answer[k] \notin Element)
    BY <1>1, <2>1
  <2> QED
    BY <1>1, <1>2, <2>1, <2>2, Zenon DEF IsChannel
<1>4. Ended(m, Len(answer))' <=> Ended(m, Len(answer)) \/ x \notin Element
  <2>1. \A k \in m..Len(answer') : k \in m..Len(answer) \/ k = Len(answer) + 1
    BY <1>1
  <2>2. /\ m..Len(answer) \subseteq 1..Len(answer) /\ m..Len(answer) \subseteq m..Len(answer')
        /\ Len(answer) + 1 \in m..Len(answer')
    BY <1>1
  <2>3. ASSUME NEW k \in m..Len(answer'), answer'[k] \notin Element
        PROVE  Ended(m, Len(answer)) \/ x \notin Element
    BY <1>1, <2>1, <2>2, <2>3 DEF Ended
  <2>4. ASSUME NEW k \in m..Len(answer), answer[k] \notin Element
        PROVE  k \in m..Len(answer') /\ answer'[k] \notin Element
    BY <1>1, <2>2, <2>4
  <2> QED
    BY <1>1, <2>2, <2>3, <2>4, Zenon DEF Ended
<1> QED
  BY <1>2, <1>3, <1>4

-----------------------------------------------------------------------------
(* The walk.                                                               *)

(* The item just read is a channel exactly when it is a value that is not  *)
(* 0, after RFCOMM's UUID, in a descriptor that is not over.               *)
LEMMA NewChannel ==
  ASSUME Inv, NEW x \in Item, answer' = Append(answer, x), NEW n, n = Len(answer) + 1
  PROVE  /\ AfterRfcomm(n)' <=> x \in Value /\ Len(answer) > 0 /\ answer[Len(answer)] = Rfcomm
         /\ IsChannel(n)' <=> x \in Value /\ x > 0 /\ last = {Rfcomm} /\ ~over
         /\ x \in Value => ~Ended(n, n)'
<1>1. /\ Len(answer) \in Nat /\ Len(answer') = Len(answer) + 1
      /\ \A k \in 1..Len(answer) : answer'[k] = answer[k]
      /\ answer'[Len(answer) + 1] = x
  BY Grows DEF Inv
<1>2. AfterRfcomm(n)' <=> x \in Value /\ Len(answer) > 0 /\ answer[Len(answer)] = Rfcomm
  <2>1. Len(answer) > 0 => n - 1 = Len(answer) /\ Len(answer) \in 1..Len(answer)
    BY <1>1
  <2>2. n > 1 <=> Len(answer) > 0
    BY <1>1
  <2> QED
    BY <1>1, <2>1, <2>2 DEF AfterRfcomm
<1>3. ASSUME x \in Value, NEW m \in 1..Len(answer)
      PROVE  (\E k \in m..n : answer'[k] \notin Element) <=> Ended(m, Len(answer))
  <2>1. Ended(m, Len(answer))' <=> Ended(m, Len(answer))
    BY <1>3, PastKept, Items DEF Inv
  <2> QED
    BY <1>1, <2>1 DEF Ended
<1>4. x \in Value => ((\A m \in 1..(n - 1) : AfterRfcomm(m)' =>
                         \E k \in m..n : answer'[k] \notin Element) <=> ~over)
  <2>1. 1..(n - 1) = 1..Len(answer)
    BY <1>1
  <2>2. \A m \in 1..Len(answer) : AfterRfcomm(m)' <=> AfterRfcomm(m)
    BY PastKept DEF Inv
  <2>3. over \in BOOLEAN
    BY DEF Inv, TypeOK
  <2> QED
    BY <1>3, <2>1, <2>2, <2>3, Zenon DEF Inv, OverExact
<1>5. IsChannel(n)' <=> x \in Value /\ x > 0 /\ last = {Rfcomm} /\ ~over
  <2>1. IsChannel(n)' <=> /\ AfterRfcomm(n)' /\ x > 0
                          /\ \A m \in 1..(n - 1) : AfterRfcomm(m)' =>
                               \E k \in m..n : answer'[k] \notin Element
    BY <1>1 DEF IsChannel
  <2> QED
    BY <1>2, <1>4, <2>1 DEF Inv, LastExact
<1>6. x \in Value => ~Ended(n, n)'
  <2>1. n..n = {n}
    BY <1>1
  <2> QED
    BY <1>1, <2>1, Items DEF Ended
<1> QED
  BY <1>2, <1>5, <1>6

(* LookupExact, after the walk has read one more item.                     *)
LEMMA ExactAfterRead ==
  ASSUME Inv, NEW x \in Item, answer' = Append(answer, x), status = "walking",
         IF status' = "returned" /\ found_channel' > 0
           THEN x \in Value /\ x > 0 /\ last = {Rfcomm} /\ ~over /\ found_channel' = x
           ELSE ~(x \in Value /\ x > 0 /\ last = {Rfcomm} /\ ~over)
  PROVE  LookupExact'
<1>0. PICK n : n = Len(answer) + 1
  OBVIOUS
<1>1. Len(answer) \in Nat /\ Len(answer') = n /\ answer'[n] = x
  BY <1>0, Grows DEF Inv
<1>2. \A m \in 1..Len(answer) : ~IsChannel(m)'
  <2>1. \A m \in 1..Len(answer) : ~IsChannel(m)
    BY DEF Inv, LookupExact
  <2> QED
    BY <2>1, PastKept DEF Inv
<1>3. IsChannel(n)' <=> x \in Value /\ x > 0 /\ last = {Rfcomm} /\ ~over
  BY <1>0, NewChannel
<1>4. n \in 1..n /\ \A m \in 1..n : m \in 1..Len(answer) \/ m = n
  BY <1>0, <1>1
<1>5. {m \in 1..n : IsChannel(m)'} =
        IF x \in Value /\ x > 0 /\ last = {Rfcomm} /\ ~over THEN {n} ELSE {}
  BY <1>2, <1>3, <1>4
<1> QED
  BY <1>1, <1>5 DEF LookupExact

(* A mark that opens a list ends the descriptor.                           *)
LEMMA OpenListInv ==
  ASSUME Inv, status = "walking", NEW x \in {NextRecord, NextStack, NextDescriptor},
         OpenList(x), answer' = Append(answer, x), Len(answer) < MaxItems
  PROVE  Inv'
<1>1. x \in Item /\ x \notin Element /\ x \notin Value /\ x # Rfcomm
  BY Items
<1>2. PICK n : n = Len(answer) + 1
  OBVIOUS
<1>3. /\ Len(answer) \in Nat /\ Len(answer') = n /\ answer'[n] = x /\ answer' \in Seq(Item)
      /\ \A m \in 1..n : m \in 1..Len(answer) \/ m = n
  BY <1>1, <1>2, Grows DEF Inv
<1>4. last' = {} /\ over' = FALSE /\ UNCHANGED <<found_channel, status>>
  BY DEF OpenList
<1>5. TypeOK'
  <2>1. depth' \in 0..3
    BY DEF OpenList, NextRecord, NextStack, NextDescriptor
  <2>2. Len(answer') <= MaxItems
    BY <1>2, <1>3, LookupAssumption
  <2> QED
    BY <1>3, <1>4, <2>1, <2>2 DEF Inv, TypeOK
<1>6. ASSUME NEW m \in 1..n, AfterRfcomm(m)' PROVE Ended(m, Len(answer))'
  <2>1. m \in 1..Len(answer)
    BY <1>1, <1>2, <1>3, <1>6, NewChannel
  <2> QED
    BY <1>1, <2>1, PastKept DEF Inv
<1>7. OverExact'
  BY <1>3, <1>4, <1>6 DEF OverExact
<1>8. LastExact'
  BY <1>1, <1>3, <1>4 DEF LastExact
<1>9. LookupExact'
  BY <1>1, <1>4, ExactAfterRead DEF Inv
<1> QED
  BY <1>4, <1>5, <1>7, <1>8, <1>9 DEF Inv

(* A UUID is remembered, unless the descriptor is over.                    *)
LEMMA ReadUuidInv ==
  ASSUME Inv, status = "walking", NEW x \in ProtocolUuid, ReadUuid(x),
         answer' = Append(answer, x), Len(answer) < MaxItems
  PROVE  Inv'
<1>1. x \in Item /\ x \in Element /\ x \notin Value
  BY Items
<1>2. PICK n : n = Len(answer) + 1
  OBVIOUS
<1>3. /\ Len(answer) \in Nat /\ Len(answer') = n /\ answer'[n] = x /\ answer' \in Seq(Item)
      /\ \A m \in 1..n : m \in 1..Len(answer) \/ m = n
      /\ 1..Len(answer) \subseteq 1..n
  BY <1>1, <1>2, Grows DEF Inv
<1>4. /\ last' = (IF over THEN last ELSE {x}) /\ depth = 3
      /\ UNCHANGED <<depth, over, found_channel, status>>
  BY DEF ReadUuid
<1>5. TypeOK'
  <2>1. Len(answer') <= MaxItems
    BY <1>2, <1>3, LookupAssumption
  <2>2. last' \in {{}} \cup {{u} : u \in ProtocolUuid}
    BY <1>4 DEF Inv, TypeOK
  <2> QED
    BY <1>3, <1>4, <2>1, <2>2 DEF Inv, TypeOK
<1>6. \A m \in 1..Len(answer) :
        /\ AfterRfcomm(m)' <=> AfterRfcomm(m)
        /\ Ended(m, Len(answer))' <=> Ended(m, Len(answer))
  BY <1>1, PastKept DEF Inv
<1>7. ~AfterRfcomm(n)'
  BY <1>1, <1>2, NewChannel
<1>8. OverExact'
  BY <1>3, <1>4, <1>6, <1>7 DEF Inv, OverExact
<1>9. LastExact'
  <2>1. ~over => (last' = {Rfcomm} <=> x = Rfcomm)
    BY <1>4
  <2>2. n > 0
    BY <1>2, <1>3
  <2> QED
    BY <1>3, <1>4, <2>1, <2>2 DEF LastExact
<1>10. LookupExact'
  BY <1>1, <1>4, ExactAfterRead DEF Inv
<1> QED
  BY <1>4, <1>5, <1>8, <1>9, <1>10 DEF Inv

(* A value after RFCOMM's UUID is the channel, and ends the descriptor.    *)
LEMMA ReadValueInv ==
  ASSUME Inv, status = "walking", NEW x \in Value, ReadValue(x),
         answer' = Append(answer, x), Len(answer) < MaxItems
  PROVE  Inv'
<1>1. x \in Item /\ x \in Element /\ x # Rfcomm /\ x \in Int /\ (x > 0 \/ x = 0)
  BY Items, LookupAssumption DEF Value
<1>2. PICK n : n = Len(answer) + 1
  OBVIOUS
<1>3. /\ Len(answer) \in Nat /\ Len(answer') = n /\ answer'[n] = x /\ answer' \in Seq(Item)
      /\ \A m \in 1..n : m \in 1..Len(answer) \/ m = n
      /\ 1..Len(answer) \subseteq 1..n /\ n \in 1..n
  BY <1>1, <1>2, Grows DEF Inv
<1>4. depth = 3 /\ UNCHANGED <<depth, last>>
  BY DEF ReadValue
<1>5. CASE last = {Rfcomm} /\ ~over
  <2>1. over' = TRUE /\ found_channel' = x /\ status' = (IF x > 0 THEN "returned" ELSE status)
    BY <1>5 DEF ReadValue
  <2>2. TypeOK'
    <3>1. Len(answer') <= MaxItems
      BY <1>2, <1>3, LookupAssumption
    <3> QED
      BY <1>3, <1>4, <2>1, <3>1 DEF Inv, TypeOK
  <2>3. AfterRfcomm(n)' /\ ~Ended(n, Len(answer))'
    <3>1. Len(answer) > 0 /\ answer[Len(answer)] = Rfcomm
      BY <1>5 DEF Inv, LastExact
    <3> QED
      BY <1>1, <1>2, <1>3, <3>1, NewChannel DEF Ended
  <2>4. OverExact'
    BY <1>3, <2>1, <2>3 DEF OverExact
  <2>5. LastExact'
    BY <2>1 DEF LastExact
  <2>6. LookupExact'
    BY <1>1, <1>5, <2>1, ExactAfterRead
  <2>7. status' = "walking" => found_channel' = 0
    BY <1>1, <2>1
  <2> QED
    BY <2>2, <2>4, <2>5, <2>6, <2>7 DEF Inv
<1>6. CASE ~(last = {Rfcomm} /\ ~over)
  <2>1. UNCHANGED <<over, found_channel, status>>
    BY <1>6 DEF ReadValue
  <2>2. TypeOK'
    <3>1. Len(answer') <= MaxItems
      BY <1>2, <1>3, LookupAssumption
    <3> QED
      BY <1>3, <1>4, <2>1, <3>1 DEF Inv, TypeOK
  <2>3. \A m \in 1..Len(answer) :
          /\ AfterRfcomm(m)' <=> AfterRfcomm(m)
          /\ Ended(m, Len(answer))' <=> Ended(m, Len(answer))
    BY <1>1, PastKept DEF Inv
  <2>4. ~over => ~AfterRfcomm(n)'
    BY <1>1, <1>2, <1>6, NewChannel DEF Inv, LastExact
  <2>5. OverExact'
    BY <1>3, <2>1, <2>3, <2>4 DEF Inv, OverExact
  <2>6. LastExact'
    BY <1>1, <1>3, <1>4, <1>6, <2>1 DEF LastExact
  <2>7. LookupExact'
    BY <1>1, <1>6, <2>1, ExactAfterRead DEF Inv
  <2> QED
    BY <2>1, <2>2, <2>5, <2>6, <2>7 DEF Inv
<1> QED
  BY <1>5, <1>6

(* No more items: the walk returns with what it has.                       *)
LEMMA EndInv == Inv /\ EndOfAnswer => Inv'
<1> SUFFICES ASSUME Inv, EndOfAnswer PROVE Inv'
  OBVIOUS
<1>1. found_channel' = 0 /\ status' = "returned" /\ UNCHANGED <<answer, depth, last, over>>
  BY DEF EndOfAnswer, Inv
<1>2. TypeOK' /\ OverExact' /\ LastExact'
  BY <1>1 DEF Inv, TypeOK, OverExact, LastExact, AfterRfcomm, Ended, EndOfAnswer
<1>3. LookupExact'
  BY <1>1 DEF Inv, LookupExact, IsChannel, AfterRfcomm, EndOfAnswer
<1> QED
  BY <1>1, <1>2, <1>3 DEF Inv

(* Inv holds in every reachable state.                                     *)
THEOREM LookupInvariance == Spec => []Inv
<1>1. Init => Inv
  <2> SUFFICES ASSUME Init PROVE Inv
    OBVIOUS
  <2>1. /\ answer = << >> /\ Len(answer) = 0 /\ answer \in Seq(Item) /\ 0 \in Value
        /\ Len(answer) <= MaxItems
    BY LookupAssumption DEF Init, Value
  <2>2. TypeOK
    <3>1. last \in {{}} \cup {{u} : u \in ProtocolUuid} /\ depth \in 0..3
      BY DEF Init
    <3> QED
      BY <2>1, <3>1, Zenon DEF Init, TypeOK
  <2>3. 1..Len(answer) = {}
    BY <2>1
  <2>4. OverExact
    BY <2>3 DEF Init, OverExact
  <2>5. LastExact
    BY <2>1 DEF Init, LastExact
  <2>6. LookupExact
    BY <2>3 DEF Init, LookupExact
  <2> QED
    BY <2>2, <2>4, <2>5, <2>6 DEF Init, Inv
<1>2. Inv /\ [Next]_vars => Inv'
  <2> SUFFICES ASSUME Inv, [Next]_vars PROVE Inv'
    OBVIOUS
  <2>1. ASSUME NEW x \in Item, ReadItem(x) PROVE Inv'
    BY <2>1, OpenListInv, ReadUuidInv, ReadValueInv DEF ReadItem
  <2>2. CASE UNCHANGED vars
    BY <2>2 DEF vars, Inv, TypeOK, OverExact, LastExact, LookupExact, IsChannel, AfterRfcomm,
       Ended
  <2> QED
    BY <2>1, <2>2, EndInv DEF Next
<1> QED
  BY <1>1, <1>2, PTL DEF Spec

(* The walk's variables stay in their domains, and what is known of a      *)
(* descriptor's protocols does not outlive the descriptor.                 *)
THEOREM LookupTypeCorrect == Spec => []TypeOK
<1>1. Inv => TypeOK
  BY DEF Inv
<1> QED
  BY <1>1, LookupInvariance, PTL

(* resolve_channel returns the first channel of any answer, of any length  *)
(* and nesting, and nullopt exactly when there is none.                    *)
THEOREM LookupIsExact == Spec => []LookupExact
<1>1. Inv => LookupExact
  BY DEF Inv
<1> QED
  BY <1>1, LookupInvariance, PTL
=============================================================================
