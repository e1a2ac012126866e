------------------------------ MODULE SdpLookup ------------------------------
(***************************************************************************)
(* sdp::resolve_channel on Linux: the walk through the records that the    *)
(* daemon of the other device answered with.                               *)
(*                                                                         *)
(* The answer is nested lists: records, in a record protocol stacks, in a  *)
(* stack protocol descriptors, in a descriptor data elements.  Here it is  *)
(* one sequence, in which NextRecord, NextStack and NextDescriptor open a  *)
(* list; what follows, a data element, is a protocol's UUID or the value   *)
(* of an SDP_UINT8 (elements of other types change nothing).  The walk     *)
(* reads it item by item, and each item is chosen as it is read.           *)
(***************************************************************************)
EXTENDS Integers, Sequences

CONSTANTS
  MaxValue,   \* bound: the largest value of an SDP_UINT8 (255)
  MaxItems    \* bound: items of an answer

ASSUME LookupAssumption == MaxValue \in Nat /\ MaxItems \in Nat

NextRecord     == -1
NextStack      == -2
NextDescriptor == -3

(* UUIDs by what the walk reads of them, value.uuid16.  A 128-bit UUID has *)
(* its most significant bytes there, so that RFCOMM in this form is not    *)
(* told from another protocol.                                             *)
Rfcomm    == -4
L2cap     == -5
Rfcomm128 == -6

ProtocolUuid == {Rfcomm, L2cap, Rfcomm128}
Value   == 0..MaxValue
Element == ProtocolUuid \cup Value
Item    == {NextRecord, NextStack, NextDescriptor} \cup Element

VARIABLES
  answer,         \* the items so far
  depth,          \* the lists open: 0, or up to a record, a stack, a descriptor
  last,           \* {proto[i - 1]}, or {} when i = 0
  over,           \* the loop over the descriptor's elements was left by a break
  found_channel,
  status          \* "walking" or "returned"

vars == <<answer, depth, last, over, found_channel, status>>

Init ==
  /\ answer = << >> /\ depth = 0 /\ last = {} /\ over = FALSE
  /\ found_channel = 0 /\ status = "walking"

-----------------------------------------------------------------------------
(* Faulty: proto and i are not those of the descriptor.                    *)
BugProtoOutlives(list) ==
  /\ depth >= -1 - list
  /\ depth' = -list
  /\ over' = FALSE
  /\ UNCHANGED <<last, found_channel, status>>

(* The list that was read to its end, or left by a break, is followed by   *)
(* the next of its kind or of an outer one; proto and i start afresh.      *)
OpenList(list) ==
  /\ depth >= -1 - list
  /\ depth' = -list
  /\ last' = {} /\ over' = FALSE
  /\ UNCHANGED <<found_channel, status>>

(* proto[i++]                                                              *)
ReadUuid(u) ==
  /\ depth = 3
  /\ last' = IF over THEN last ELSE {u}
  /\ UNCHANGED <<depth, over, found_channel, status>>

(* Faulty: any value after any protocol will do.                           *)
BugAnyProtocol(v) ==
  /\ depth = 3
  /\ IF last # {} /\ ~over
       THEN /\ found_channel' = v
            /\ over' = TRUE
            /\ status' = IF v > 0 THEN "returned" ELSE status
       ELSE UNCHANGED <<found_channel, over, status>>
  /\ UNCHANGED <<depth, last>>

(* The value after RFCOMM's UUID ends the loop; if it is not 0 the outer   *)
(* loops end, too.                                                         *)
ReadValue(v) ==
  /\ depth = 3
  /\ IF last = {Rfcomm} /\ ~over
       THEN /\ found_channel' = v
            /\ over' = TRUE
            /\ status' = IF v > 0 THEN "returned" ELSE status
       ELSE UNCHANGED <<found_channel, over, status>>
  /\ UNCHANGED <<depth, last>>

ReadItem(x) ==
  /\ status = "walking" /\ Len(answer) < MaxItems
  /\ \/ x \in {NextRecord, NextStack, NextDescriptor} /\ OpenList(x)
     \/ x \in ProtocolUuid /\ ReadUuid(x)
     \/ x \in Value /\ ReadValue(x)
  /\ answer' = Append(answer, x)

(* No more records, or no answer at all: nullopt.                          *)
EndOfAnswer ==
  /\ status = "walking"
  /\ status' = "returned"
  /\ UNCHANGED <<answer, depth, last, over, found_channel>>

Next == (\E x \in Item : ReadItem(x)) \/ EndOfAnswer

Spec == Init /\ [][Next]_vars

-----------------------------------------------------------------------------
(* Properties.                                                             *)

(* Every variable stays in its domain; what is known of a descriptor's     *)
(* protocols is not known outside of it.                                   *)
TypeOK ==
  /\ answer \in Seq(Item) /\ Len(answer) <= MaxItems
  /\ depth \in 0..3
  /\ last \in {{}} \cup {{u} : u \in ProtocolUuid} /\ over \in BOOLEAN
  /\ depth # 3 => last = {} /\ ~over
  /\ found_channel \in Value
  /\ status \in {"walking", "returned"}

(* Item n is a value right after RFCOMM's UUID, the first such value of    *)
(* its descriptor.                                                         *)
AfterRfcomm(n) == n > 1 /\ answer[n] \in Value /\ answer[n - 1] = Rfcomm
IsChannel(n) ==
  /\ AfterRfcomm(n) /\ answer[n] > 0
  /\ \A m \in 1..(n - 1) : AfterRfcomm(m) => \E k \in m..n : answer[k] \notin Element

(* resolve_channel returns the first channel of the answer, or nullopt if  *)
(* there is none: it neither stops at a record without one, at a channel 0 *)
(* or at another protocol's value, nor goes past the first.                *)
LookupExact ==
  LET channels == {n \in 1..Len(answer) : IsChannel(n)}
  IN  IF status = "returned" /\ found_channel > 0
        THEN channels = {Len(answer)} /\ found_channel = answer[Len(answer)]
        ELSE channels = {}
=============================================================================
