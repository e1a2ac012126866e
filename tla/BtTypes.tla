------------------------------- MODULE BtTypes -------------------------------
(***************************************************************************)
(* rfcomm::Address and rfcomm::Uuid (include/simple_rfcomm/types.hpp) and  *)
(* their native forms (src/platform.hpp): the three parsing loops of       *)
(* try_parse as they go through a text, one character a step, and the      *)
(* conversions, against a description of which texts stand for what.       *)
(*                                                                         *)
(* A character is its value if it is a hexadecimal digit (of either case), *)
(* else one of Colon, Dash and Other.                                      *)
(***************************************************************************)
EXTENDS Integers, Sequences

CONSTANTS
  Base,       \* the base of a digit (16); a byte has two digits
  AddrLen,    \* bytes of an Address (6)
  UuidLen,    \* bytes of a Uuid (16)
  BaseUuid,   \* the bytes of the Bluetooth Base UUID
  GuidSplit,  \* where Data2, Data3 and Data4 of a GUID begin (4, 6 and 8)
  MaxText     \* bound: characters of a text

ASSUME TypesAssumption ==
  /\ Base \in Nat /\ Base > 1
  /\ AddrLen \in Nat \ {0}
  /\ UuidLen \in Nat /\ UuidLen >= 4
  /\ BaseUuid \in [1..UuidLen -> 0..(Base * Base - 1)]
  /\ GuidSplit \in [1..3 -> 1..UuidLen]
  /\ GuidSplit[1] < GuidSplit[2] /\ GuidSplit[2] < GuidSplit[3]
  /\ MaxText \in Nat /\ MaxText >= 4

Colon == -1
Dash  == -2
Other == -3

Digit == 0..(Base - 1)
Char  == Digit \cup {Colon, Dash, Other}
Byte  == 0..(Base * Base - 1)
Address == [1..AddrLen -> Byte]
Uuid    == [1..UuidLen -> Byte]

VARIABLES
  kind,         \* the loop: "address", "uuid", or "short" (a text of length 4)
  text,         \* the characters read so far
  parsed,       \* the elements of parsed[] below byte_idx
  current_val,  \* the digits not yet in parsed, as a number ("short": val)
  digits,       \* how many they are
  status        \* "parsing", "rejected" (returned inside the loop), "failed"
                \* (after it) or "ok"

vars == <<kind, text, parsed, current_val, digits, status>>

Init ==
  /\ kind \in {"address", "uuid", "short"}
  /\ text = << >> /\ parsed = << >> /\ current_val = 0 /\ digits = 0
  /\ status = "parsing"

Reject == status' = "rejected" /\ UNCHANGED <<parsed, current_val, digits>>

(* A digit more.                                                           *)
Shift(c) ==
  /\ current_val' = current_val * Base + c
  /\ digits' = digits + 1
  /\ UNCHANGED <<parsed, status>>

(* parsed[byte_idx++] = static_cast<uint8_t>(val)                          *)
Store(val) ==
  /\ parsed' = Append(parsed, val % (Base * Base))
  /\ current_val' = 0 /\ digits' = 0
  /\ UNCHANGED status

-----------------------------------------------------------------------------
(* Address::try_parse.                                                     *)

(* Faulty: a group may have one digit.                                     *)
BugShortGroup(c) ==
  \/ c \in Digit /\ digits < 2 /\ Shift(c)
  \/ c \in Digit /\ digits >= 2 /\ Reject
  \/ c \in {Colon, Dash} /\ digits > 0 /\ Len(parsed) < AddrLen - 1 /\ Store(current_val)
  \/ c \in {Colon, Dash} /\ ~(digits > 0 /\ Len(parsed) < AddrLen - 1) /\ Reject
  \/ c = Other /\ Reject

(* Faulty: a separator may follow the last group.                          *)
BugOneGroupMore(c) ==
  \/ c \in Digit /\ digits < 2 /\ Shift(c)
  \/ c \in Digit /\ digits >= 2 /\ Reject
  \/ c \in {Colon, Dash} /\ digits = 2 /\ Store(current_val)
  \/ c \in {Colon, Dash} /\ digits # 2 /\ Reject
  \/ c = Other /\ Reject

AddressChar(c) ==
  \/ c \in Digit /\ digits < 2 /\ Shift(c)
  \/ c \in Digit /\ digits >= 2 /\ Reject
  \/ c \in {Colon, Dash} /\ digits = 2 /\ Len(parsed) < AddrLen - 1 /\ Store(current_val)
  \/ c \in {Colon, Dash} /\ ~(digits = 2 /\ Len(parsed) < AddrLen - 1) /\ Reject
  \/ c = Other /\ Reject

AddressEnd ==
  \/ /\ digits = 2 /\ Len(parsed) = AddrLen - 1
     /\ parsed' = Append(parsed, current_val)
     /\ status' = "ok"
  \/ /\ ~(digits = 2 /\ Len(parsed) = AddrLen - 1)
     /\ status' = "failed"
     /\ UNCHANGED parsed

-----------------------------------------------------------------------------
(* Uuid::try_parse.                                                        *)

(* Dashes are skipped wherever they are; the second digit makes a byte.    *)
UuidChar(c) ==
  \/ c = Dash /\ UNCHANGED <<parsed, current_val, digits, status>>
  \/ c \in {Colon, Other} /\ Reject
  \/ c \in Digit /\ digits = 0 /\ Shift(c)
  \/ c \in Digit /\ digits = 1 /\ Len(parsed) < UuidLen /\ Store(current_val * Base + c)
  \/ c \in Digit /\ digits = 1 /\ Len(parsed) >= UuidLen /\ Reject

(* Faulty: a digit too many is not noticed.                                *)
BugOddDigit ==
  /\ status' = IF Len(parsed) = UuidLen THEN "ok" ELSE "failed"
  /\ UNCHANGED parsed

UuidEnd ==
  /\ status' = IF digits = 0 /\ Len(parsed) = UuidLen THEN "ok" ELSE "failed"
  /\ UNCHANGED parsed

(* The text has length 4.                                                  *)
ShortChar(c) == (c \in Digit /\ Shift(c)) \/ (c \notin Digit /\ Reject)

from_16bit(short_uuid) ==
  [i \in 1..UuidLen |->
     CASE i = 3 -> (short_uuid \div (Base * Base)) % (Base * Base)
       [] i = 4 -> short_uuid % (Base * Base)
       [] OTHER -> BaseUuid[i]]

ShortEnd == parsed' = from_16bit(current_val) /\ status' = "ok"

-----------------------------------------------------------------------------
(* The next character, or the end of the text.                             *)

ReadChar(c) ==
  /\ status = "parsing" /\ Len(text) < IF kind = "short" THEN 4 ELSE MaxText
  /\ CASE kind = "address" -> AddressChar(c)
       [] kind = "uuid"    -> UuidChar(c)
       [] kind = "short"   -> ShortChar(c)
  /\ text' = Append(text, c)
  /\ UNCHANGED kind

EndOfText ==
  /\ status = "parsing"
  /\ CASE kind = "address" -> AddressEnd
       [] kind = "uuid"    -> Len(text) # 4 /\ UuidEnd
       [] kind = "short"   -> Len(text) = 4 /\ ShortEnd
  /\ UNCHANGED <<kind, text, current_val, digits>>

Next == (\E c \in Char : ReadChar(c)) \/ EndOfText

Spec == Init /\ [][Next]_vars

-----------------------------------------------------------------------------
(* Conversions.                                                            *)

(* The number with these bytes, the first one most significant.            *)
BigEndian(b) ==
  LET val[i \in 0..Len(b)] == IF i = 0 THEN 0 ELSE val[i - 1] * (Base * Base) + b[i]
  IN  val[Len(b)]

(* The n lowest bytes of a number: the last one is val & 0xFF, the one     *)
(* before it the same after val >>= 8, and so on.                          *)
BytesOf(val, n) ==
  LET shifted[k \in 0..n] == IF k = 0 THEN val ELSE shifted[k - 1] \div (Base * Base)
  IN  [i \in 1..n |-> shifted[n - i] % (Base * Base)]

to_uint64(a)     == BigEndian(a)
from_uint64(val) == BytesOf(val, AddrLen)

(* bdaddr_t has the least significant byte first.                          *)
address_to_bdaddr(a) == [i \in 1..AddrLen |-> a[AddrLen + 1 - i]]
bdaddr_to_address(b) == [i \in 1..AddrLen |-> b[AddrLen + 1 - i]]

(* to_string: two digits a byte; a separator before these bytes.           *)
ToString(b, separator, before) ==
  LET str[i \in 0..Len(b)] ==
        IF i = 0 THEN << >>
        ELSE str[i - 1] \o (IF i \in before THEN <<separator>> ELSE << >>)
                        \o <<b[i] \div Base, b[i] % Base>>
  IN  str[Len(b)]

AddressToString(a) == ToString(a, Colon, 2..AddrLen)
UuidToString(u)    == ToString(u, Dash, {5, 7, 9, 11})

(* A GUID: three numbers and the bytes of Data4.                           *)
uuid_to_guid(u) ==
  [Data1 |-> BigEndian(SubSeq(u, 1, GuidSplit[1])),
   Data2 |-> BigEndian(SubSeq(u, GuidSplit[1] + 1, GuidSplit[2])),
   Data3 |-> BigEndian(SubSeq(u, GuidSplit[2] + 1, GuidSplit[3])),
   Data4 |-> SubSeq(u, GuidSplit[3] + 1, UuidLen)]

(* Faulty: Data2 and Data3 are interchanged.                               *)
BugGuidSwapped(g) ==
  BytesOf(g.Data1, GuidSplit[1]) \o BytesOf(g.Data3, GuidSplit[3] - GuidSplit[2])
    \o BytesOf(g.Data2, GuidSplit[2] - GuidSplit[1]) \o g.Data4

guid_to_uuid(g) ==
  BytesOf(g.Data1, GuidSplit[1]) \o BytesOf(g.Data2, GuidSplit[2] - GuidSplit[1])
    \o BytesOf(g.Data3, GuidSplit[3] - GuidSplit[2]) \o g.Data4

-----------------------------------------------------------------------------
(* Properties.                                                             *)

(* Every variable stays in its domain; in particular no loop writes past   *)
(* the end of parsed[].                                                    *)
TypeOK ==
  /\ kind \in {"address", "uuid", "short"}
  /\ text \in Seq(Char) /\ Len(text) <= MaxText
  /\ parsed \in Seq(Byte)
  /\ Len(parsed) <= IF kind = "address" THEN AddrLen ELSE UuidLen
  /\ current_val \in 0..(Base * Base * Base * Base - 1) /\ digits \in 0..4
  /\ status \in {"parsing", "rejected", "failed", "ok"}

(* c may be character i of "XX:XX:...:XX", where each separator may also   *)
(* be a dash, whatever the other ones are: "XX:XX-XX" has the pattern, too.*)
AddressPattern(i, c) ==
  i < 3 * AddrLen /\ IF i % 3 = 0 THEN c \in {Colon, Dash} ELSE c \in Digit

(* Address::try_parse accepts exactly the texts of that pattern, and gives *)
(* the bytes they show; what it rejects early has no acceptable extension, *)
(* what it goes on with has one.                                           *)
AddressParseExact ==
  kind = "address" =>
    LET fits == \A i \in 1..Len(text) : AddressPattern(i, text[i])
        all  == Len(text) = 3 * AddrLen - 1
    IN  CASE status = "parsing"  -> fits
          [] status = "rejected" -> ~fits
          [] status = "failed"   -> ~(fits /\ all)
          [] status = "ok"       ->
               /\ fits /\ all
               /\ parsed = [i \in 1..AddrLen |-> text[3 * i - 2] * Base + text[3 * i - 1]]

(* The digits of a text, in their order.                                   *)
DigitsOf(s) ==
  LET taken[i \in 0..Len(s)] ==
        IF i = 0 THEN << >>
        ELSE IF s[i] \in Digit THEN Append(taken[i - 1], s[i]) ELSE taken[i - 1]
  IN  taken[Len(s)]

(* Uuid::try_parse accepts a text, other than of length 4, exactly if it   *)
(* is 2 * UuidLen digits and some dashes, and gives the digits' bytes; and *)
(* one of length 4 exactly if it is digits, which are, in their order, the *)
(* third and fourth byte of the Base UUID.                                 *)
UuidParseExact ==
  LET ds == DigitsOf(text)
  IN
  /\ kind = "uuid" =>
       LET fits == \A i \in 1..Len(text) : text[i] \in Digit \cup {Dash}
       IN  CASE status = "parsing"  -> fits /\ Len(ds) <= 2 * UuidLen + 1
             [] status = "rejected" -> ~fits \/ Len(ds) > 2 * UuidLen
             [] status = "failed"   -> fits /\ Len(ds) # 2 * UuidLen
             [] status = "ok"       ->
                  /\ fits /\ Len(ds) = 2 * UuidLen
                  /\ parsed = [i \in 1..UuidLen |-> ds[2 * i - 1] * Base + ds[2 * i]]
  /\ kind = "short" =>
       CASE status = "parsing"  -> ds = text
         [] status = "rejected" -> ds # text
         [] status = "failed"   -> FALSE
         [] status = "ok"       ->
              /\ ds = text /\ Len(text) = 4
              /\ parsed = [BaseUuid EXCEPT ![3] = ds[1] * Base + ds[2],
                                           ![4] = ds[3] * Base + ds[4]]

(* The powers 0, ..., n of the base of a byte.                             *)
Weights(n) ==
  LET weight[i \in 0..n] == IF i = 0 THEN 1 ELSE weight[i - 1] * (Base * Base)
  IN  weight

(* The number with these bytes, the last one most significant.             *)
LittleEndian(b) ==
  LET sum[i \in 0..Len(b)] ==
        IF i = 0 THEN 0 ELSE sum[i - 1] + b[i] * Weights(Len(b))[i - 1]
  IN  sum[Len(b)]

(* The value that was parsed, and its text, survive every conversion and   *)
(* back; and both platforms see the same address: the number Windows takes *)
(* is the one that Linux's bytes, least significant first, stand for.      *)
ConversionsAgree ==
  /\ kind = "address" /\ status = "ok" =>
       /\ from_uint64(to_uint64(parsed)) = parsed
       /\ bdaddr_to_address(address_to_bdaddr(parsed)) = parsed
       /\ LittleEndian(address_to_bdaddr(parsed)) = to_uint64(parsed)
       /\ \A i \in 1..Len(text) :
            AddressToString(parsed)[i] = IF i % 3 = 0 THEN Colon ELSE text[i]
  /\ kind \in {"uuid", "short"} /\ status = "ok" =>
       guid_to_uuid(uuid_to_guid(parsed)) = parsed
  /\ kind = "uuid" /\ status = "ok" =>
       DigitsOf(UuidToString(parsed)) = DigitsOf(text)
=============================================================================
