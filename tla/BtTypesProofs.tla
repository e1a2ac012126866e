---------------------------- MODULE BtTypesProofs ----------------------------
(***************************************************************************)
(* Proofs about BtTypes, for every base of the digits, length of Address   *)
(* and Uuid, division of a GUID and length of the texts: no loop writes    *)
(* past the end of parsed[], the two try_parse accept exactly the texts    *)
(* that show an address or a UUID, and what they accept survives every     *)
(* conversion and back.                                                    *)
(***************************************************************************)
EXTENDS BtTypes, SequenceTheorems, FiniteSetTheorems, TLAPS

-----------------------------------------------------------------------------
(* The inductive invariant.                                                *)

(* The numbers of d digits, d = 0, ..., 4.                                 *)
Power(d) == CASE d = 0 -> 1
              [] d = 1 -> Base
              [] d = 2 -> Base * Base
              [] d = 3 -> Base * Base * Base
              [] d = 4 -> Base * Base * Base * Base

Limit == IF kind = "address" THEN AddrLen ELSE UuidLen

Types ==
  /\ kind \in {"address", "uuid", "short"}
  /\ text \in Seq(Char) /\ Len(text) <= MaxText
  /\ parsed \in Seq(Byte) /\ Len(parsed) <= Limit
  /\ digits \in 0..4 /\ current_val \in 0..(Power(digits) - 1)
  /\ status \in {"parsing", "rejected", "failed", "ok"}

(* How far a loop can be: an address has a byte to go, which may have its  *)
(* two digits; of a UUID's byte there is at most one digit; and a short    *)
(* text is all digits.                                                     *)
Loop ==
  status = "parsing" =>
    /\ kind = "address" => digits <= 2 /\ Len(parsed) < AddrLen
    /\ kind = "uuid" => digits <= 1
    /\ kind = "short" => parsed = << >> /\ digits = Len(text) /\ Len(text) <= 4

(* What the loop of Address::try_parse has understood of the text.         *)
Understood ==
  /\ Len(text) = 3 * Len(parsed) + digits
  /\ \A i \in 1..Len(parsed) : parsed[i] = text[3 * i - 2] * Base + text[3 * i - 1]
  /\ digits = 1 => current_val = text[Len(text)]
  /\ digits = 2 => current_val = text[Len(text) - 1] * Base + text[Len(text)]

Inv ==
  /\ Types /\ Loop
  /\ kind = "address" /\ status = "parsing" => Understood
  /\ AddressParseExact

-----------------------------------------------------------------------------
(* Numbers.                                                                *)

(* Products of the base.                                                   *)
LEMMA Powers ==
  /\ Base * Base \in Nat /\ Base * Base >= 1
  /\ Base * Base * Base \in Nat /\ Base * Base * Base >= 1
  /\ Base * Base * Base * Base \in Nat /\ Base * Base * Base * Base >= 1
<1>1. ASSUME NEW p \in Nat, p >= 1 PROVE p * Base \in Nat /\ p * Base >= 1
  BY <1>1, TypesAssumption
<1>2. Base \in Nat /\ Base >= 1
  BY TypesAssumption
<1>3. Base * Base \in Nat /\ Base * Base >= 1
  BY <1>1, <1>2
<1>4. Base * Base * Base \in Nat /\ Base * Base * Base >= 1
  BY <1>1, <1>3
<1> QED
  BY <1>1, <1>3, <1>4

(* A digit more, below the bound of the digits before it.                  *)
LEMMA DigitMore ==
  ASSUME NEW p \in Nat, NEW v \in 0..(p - 1), NEW c \in Digit
  PROVE  v * Base + c \in 0..(p * Base - 1)
<1>1. Base \in Nat /\ c \in 0..(Base - 1)
  BY TypesAssumption DEF Digit
<1>2. PICK k \in Nat : k = p - 1 - v
  OBVIOUS
<1>3. v * Base \in Nat /\ k * Base \in Nat
  BY <1>1
<1>4. p = v + k + 1
  BY <1>2
<1>5. p * Base = v * Base + k * Base + Base
  BY <1>1, <1>4
<1> QED
  BY <1>1, <1>3, <1>5

(* A digit more is a number of one digit more.                             *)
LEMMA ShiftValue ==
  ASSUME NEW d \in 0..3, NEW v \in 0..(Power(d) - 1), NEW c \in Digit
  PROVE  v * Base + c \in 0..(Power(d + 1) - 1)
<1>1. Power(d) \in Nat
  BY Powers, TypesAssumption DEF Power
<1>2. Power(d + 1) = Power(d) * Base
  <2>1. CASE d = 0
    BY <2>1, TypesAssumption DEF Power
  <2>2. CASE d = 1
    BY <2>2 DEF Power
  <2>3. CASE d = 2
    BY <2>3 DEF Power
  <2>4. CASE d = 3
    BY <2>4 DEF Power
  <2> QED
    BY <2>1, <2>2, <2>3, <2>4
<1> QED
  BY <1>1, <1>2, DigitMore

(* What the cast to uint8_t leaves is a byte.                              *)
LEMMA ModByte == \A v \in Nat : v % (Base * Base) \in Byte
<1>1. PICK b \in Nat : b = Base * Base /\ b >= 1
  BY Powers
<1>2. \A v \in Nat : v % b \in 0..(b - 1)
  BY <1>1
<1> QED
  BY <1>1, <1>2 DEF Byte

-----------------------------------------------------------------------------
(* The domains.                                                            *)

(* The text with a character more.                                         *)
LEMMA TextGrows ==
  ASSUME text \in Seq(Char), NEW c \in Char, text' = Append(text, c)
  PROVE  /\ text' \in Seq(Char) /\ Len(text) \in Nat /\ Len(text') = Len(text) + 1
         /\ \A i \in 1..Len(text) : text'[i] = text[i]
         /\ text'[Len(text) + 1] = c
BY AppendProperties, LenProperties

(* An element more of parsed[].                                            *)
LEMMA ParsedGrows ==
  ASSUME parsed \in Seq(Byte), NEW b \in Byte, parsed' = Append(parsed, b)
  PROVE  /\ parsed' \in Seq(Byte) /\ Len(parsed) \in Nat /\ Len(parsed') = Len(parsed) + 1
         /\ \A i \in 1..Len(parsed) : parsed'[i] = parsed[i]
         /\ parsed'[Len(parsed) + 1] = b
BY AppendProperties, LenProperties

(* Nothing is read yet.                                                    *)
LEMMA InitInv == Init => Inv
<1> SUFFICES ASSUME Init PROVE Inv
  OBVIOUS
<1>1. /\ << >> \in Seq(Char) /\ << >> \in Seq(Byte)
      /\ Len(text) = 0 /\ Len(parsed) = 0
  BY EmptySeq DEF Init
<1>2. Power(digits) = 1
  BY DEF Init, Power
<1>3. Types
  BY <1>1, <1>2, TypesAssumption DEF Init, Types, Limit
<1>4. Loop
  BY <1>1, TypesAssumption DEF Init, Loop
<1>5. Understood
  BY <1>1 DEF Init, Understood
<1>6. AddressParseExact
  BY <1>1 DEF Init, AddressParseExact
<1> QED
  BY <1>3, <1>4, <1>5, <1>6 DEF Inv

(* The number that is being read.                                          *)
LEMMA ValueNat ==
  ASSUME Types
  PROVE  /\ current_val \in Nat /\ Power(digits) \in Nat
         /\ digits = 2 => current_val \in Byte
<1>1. Power(digits) \in Nat
  BY Powers, TypesAssumption DEF Types, Power
<1>2. digits = 2 => Power(digits) = Base * Base
  BY DEF Power
<1> QED
  BY <1>1, <1>2 DEF Types, Byte

(* A character is refused.                                                 *)
LEMMA RejectTypes ==
  ASSUME Types, Reject, UNCHANGED kind, text' \in Seq(Char), Len(text') <= MaxText
  PROVE  Types' /\ Loop'
<1>1. UNCHANGED <<parsed, current_val, digits, kind>> /\ status' = "rejected"
  BY DEF Reject
<1>2. Power(digits)' = Power(digits) /\ Limit' = Limit
  BY <1>1 DEF Power, Limit
<1>3. Loop'
  BY <1>1 DEF Loop
<1> QED
  BY <1>1, <1>2, <1>3 DEF Types

(* A digit more.                                                           *)
LEMMA ShiftTypes ==
  ASSUME Types, NEW c \in Digit, Shift(c), digits < 4, UNCHANGED kind,
         text' \in Seq(Char), Len(text') <= MaxText
  PROVE  Types'
<1>1. digits \in 0..3
  BY DEF Types
<1>2. PICK d \in 0..3 : d = digits
  BY <1>1
<1>3. current_val * Base + c \in 0..(Power(d + 1) - 1)
  BY <1>2, ShiftValue DEF Types
<1>4. /\ current_val' = current_val * Base + c /\ digits' = d + 1
      /\ UNCHANGED <<parsed, status, kind>>
  BY <1>2 DEF Shift
<1>5. Power(digits)' = Power(d + 1) /\ Limit' = Limit
  BY <1>4 DEF Power, Limit
<1>6. current_val' \in 0..(Power(digits)' - 1)
  BY <1>3, <1>4, <1>5
<1>7. digits' \in 0..4
  BY <1>4
<1> QED
  BY <1>4, <1>5, <1>6, <1>7 DEF Types

(* A byte more.                                                            *)
LEMMA StoreTypes ==
  ASSUME Types, NEW v \in Nat, Store(v), Len(parsed) < Limit, UNCHANGED kind,
         text' \in Seq(Char), Len(text') <= MaxText
  PROVE  Types' /\ Len(parsed') = Len(parsed) + 1 /\ Len(parsed) \in Nat
<1>1. PICK b \in Byte : b = v % (Base * Base)
  BY ModByte
<1>2. /\ parsed' = Append(parsed, b) /\ current_val' = 0 /\ digits' = 0
      /\ UNCHANGED <<status, kind>>
  BY <1>1 DEF Store
<1>3. parsed' \in Seq(Byte) /\ Len(parsed) \in Nat /\ Len(parsed') = Len(parsed) + 1
  BY <1>2, ParsedGrows DEF Types
<1>4. Power(digits)' = 1 /\ Limit' = Limit /\ Limit \in Nat
  BY <1>2, TypesAssumption DEF Power, Limit
<1>5. Len(parsed') <= Limit'
  BY <1>3, <1>4
<1> QED
  BY <1>2, <1>3, <1>4, <1>5 DEF Types

(* A character is read: the loops keep to their domains.                   *)
LEMMA ReadCharTypes ==
  ASSUME Types, Loop, NEW c \in Char, ReadChar(c)
  PROVE  Types' /\ Loop'
<1>1. /\ text' = Append(text, c) /\ UNCHANGED kind /\ status = "parsing"
      /\ text' \in Seq(Char) /\ Len(text) \in Nat /\ Len(text') = Len(text) + 1
  BY TextGrows DEF ReadChar, Types
<1>2. Len(text') <= MaxText /\ (kind = "short" => Len(text') <= 4)
  BY <1>1, TypesAssumption DEF ReadChar
<1>3. Len(parsed) \in Nat /\ digits \in 0..4
  BY LenProperties DEF Types
<1>4. ASSUME Reject PROVE Types' /\ Loop'
  BY <1>1, <1>2, <1>4, RejectTypes
<1>5. ASSUME kind = "address", AddressChar(c) PROVE Types' /\ Loop'
  <2>1. CASE c \in Digit /\ digits < 2 /\ Shift(c)
    <3>1. digits' <= 2 /\ UNCHANGED <<parsed, status>>
      BY <1>3, <2>1 DEF Shift
    <3>2. Loop'
      BY <1>1, <1>5, <3>1 DEF Loop
    <3>3. digits < 4
      BY <1>3, <2>1
    <3> QED
      BY <1>1, <1>2, <2>1, <3>2, <3>3, ShiftTypes
  <2>2. CASE digits = 2 /\ Len(parsed) < AddrLen - 1 /\ Store(current_val)
    <3>1. Len(parsed) < Limit
      BY <1>3, <1>5, <2>2, TypesAssumption DEF Limit
    <3>2. Types' /\ Len(parsed') = Len(parsed) + 1
      BY <1>1, <1>2, <2>2, <3>1, StoreTypes, ValueNat
    <3>3. digits' = 0 /\ Len(parsed') < AddrLen
      BY <1>3, <2>2, <3>2, TypesAssumption DEF Store
    <3>4. Loop'
      BY <1>1, <1>5, <3>3 DEF Loop
    <3> QED
      BY <3>2, <3>4
  <2> QED
    BY <1>4, <1>5, <2>1, <2>2 DEF AddressChar
<1>6. ASSUME kind = "uuid", UuidChar(c) PROVE Types' /\ Loop'
  <2>1. CASE UNCHANGED <<parsed, current_val, digits, status>>
    <3>1. Power(digits)' = Power(digits) /\ Limit' = Limit
      BY <1>1, <2>1 DEF Power, Limit
    <3>2. Loop'
      BY <1>1, <1>6, <2>1 DEF Loop
    <3> QED
      BY <1>1, <1>2, <2>1, <3>1, <3>2 DEF Types
  <2>2. CASE c \in Digit /\ digits = 0 /\ Shift(c)
    <3>1. digits' <= 1 /\ UNCHANGED <<parsed, status>>
      BY <2>2 DEF Shift
    <3>2. Loop'
      BY <1>1, <1>6, <3>1 DEF Loop
    <3>3. digits < 4
      BY <2>2
    <3> QED
      BY <1>1, <1>2, <2>2, <3>2, <3>3, ShiftTypes
  <2>3. CASE /\ c \in Digit /\ Len(parsed) < UuidLen
             /\ Store(current_val * Base + c)
    <3>1. PICK v \in Nat : v = current_val * Base + c
      <4>1. PICK n \in Nat : n = current_val
        BY ValueNat
      <4>2. n * Base \in Nat
        BY TypesAssumption
      <4>3. PICK m \in Nat : m = current_val * Base
        BY <4>1, <4>2
      <4>4. m + c \in Nat
        BY <2>3, TypesAssumption DEF Digit
      <4> QED
        BY <4>3, <4>4
    <3>2. Store(v) /\ Len(parsed) < Limit
      BY <1>6, <2>3, <3>1 DEF Limit
    <3>3. Types'
      BY <1>1, <1>2, <3>2, StoreTypes
    <3>4. digits' <= 1
      BY <3>2 DEF Store
    <3>5. Loop'
      BY <1>1, <1>6, <3>4 DEF Loop
    <3> QED
      BY <3>3, <3>5
  <2> QED
    BY <1>4, <1>6, <2>1, <2>2, <2>3 DEF UuidChar
<1>7. ASSUME kind = "short", ShortChar(c) PROVE Types' /\ Loop'
  <2>1. CASE c \in Digit /\ Shift(c)
    <3>1. parsed = << >> /\ digits = Len(text) /\ Len(text) + 1 <= 4
      BY <1>1, <1>2, <1>7 DEF Loop
    <3>2. digits < 4 /\ digits' = Len(text') /\ parsed' = << >> /\ status' = "parsing"
      BY <1>1, <1>3, <2>1, <3>1 DEF Shift
    <3>3. Loop'
      BY <1>1, <1>2, <1>7, <3>2 DEF Loop
    <3> QED
      BY <1>1, <1>2, <2>1, <3>2, <3>3, ShiftTypes
  <2> QED
    BY <1>4, <1>7, <2>1 DEF ShortChar
<1> QED
  BY <1>5, <1>6, <1>7 DEF ReadChar, Types

(* A function on 1..n is a sequence of length n.                           *)
LEMMA FunIsSeq ==
  ASSUME NEW S, NEW n \in Nat, NEW f \in [1..n -> S]
  PROVE  f \in Seq(S) /\ Len(f) = n
<1>1. f \in Seq(S)
  BY SeqDef
<1>2. Len(f) \in Nat /\ 1..Len(f) = 1..n
  BY <1>1, LenProperties
<1> QED
  BY <1>1, <1>2

(* from_16bit fills a whole Uuid.                                          *)
LEMMA ShortUuid == \A v \in Nat : from_16bit(v) \in Uuid
<1> SUFFICES ASSUME NEW v \in Nat PROVE from_16bit(v) \in Uuid
  OBVIOUS
<1>1. PICK b \in Nat : b = Base * Base /\ b >= 1
  BY Powers
<1>2. v \div b \in Nat
  BY <1>1
<1>3. (v \div (Base * Base)) % (Base * Base) \in Byte /\ v % (Base * Base) \in Byte
  BY <1>1, <1>2, ModByte
<1>4. \A i \in 1..UuidLen : BaseUuid[i] \in Byte
  BY TypesAssumption DEF Byte
<1>5. ASSUME NEW i \in 1..UuidLen
      PROVE  (CASE i = 3 -> (v \div (Base * Base)) % (Base * Base)
                [] i = 4 -> v % (Base * Base)
                [] OTHER -> BaseUuid[i]) \in Byte
  BY <1>3, <1>4
<1> QED
  BY <1>5, Zenon DEF from_16bit, Uuid

(* The end of the text: an Address gets its last byte, a short Uuid all.   *)
LEMMA EndTypes ==
  ASSUME Types, Loop, EndOfText
  PROVE  Types' /\ Loop'
<1>1. UNCHANGED <<kind, text, current_val, digits>> /\ status = "parsing"
  BY DEF EndOfText
<1>2. Power(digits)' = Power(digits) /\ Limit' = Limit
  BY <1>1 DEF Power, Limit
<1>3. ASSUME parsed' \in Seq(Byte), Len(parsed') <= Limit, status' \in {"failed", "ok"}
      PROVE  Types' /\ Loop'
  <2>1. Loop'
    BY <1>3 DEF Loop
  <2> QED
    BY <1>1, <1>2, <1>3, <2>1 DEF Types
<1>4. ASSUME UNCHANGED parsed, status' \in {"failed", "ok"} PROVE Types' /\ Loop'
  BY <1>3, <1>4 DEF Types
<1>5. ASSUME kind = "address", AddressEnd PROVE Types' /\ Loop'
  <2>1. CASE /\ digits = 2 /\ Len(parsed) = AddrLen - 1
             /\ parsed' = Append(parsed, current_val) /\ status' = "ok"
    <3>1. current_val \in Byte
      BY <2>1, ValueNat
    <3>2. parsed' \in Seq(Byte) /\ Len(parsed') = AddrLen
      BY <2>1, <3>1, ParsedGrows, TypesAssumption DEF Types
    <3>3. Len(parsed') <= Limit
      BY <1>5, <3>2, TypesAssumption DEF Limit
    <3> QED
      BY <1>3, <2>1, <3>2, <3>3
  <2> QED
    BY <1>4, <1>5, <2>1 DEF AddressEnd
<1>6. ASSUME kind = "uuid", UuidEnd PROVE Types' /\ Loop'
  BY <1>4, <1>6 DEF UuidEnd
<1>7. ASSUME kind = "short", ShortEnd PROVE Types' /\ Loop'
  <2>1. parsed' \in Uuid /\ status' = "ok"
    BY <1>7, ShortUuid, ValueNat DEF ShortEnd
  <2>2. parsed' \in Seq(Byte) /\ Len(parsed') = UuidLen
    BY <2>1, FunIsSeq, TypesAssumption DEF Uuid
  <2>3. Len(parsed') <= Limit
    BY <1>7, <2>2, TypesAssumption DEF Limit
  <2> QED
    BY <1>3, <2>1, <2>2, <2>3
<1> QED
  BY <1>5, <1>6, <1>7 DEF EndOfText, Types

-----------------------------------------------------------------------------
(* Address::try_parse.                                                     *)

(* All of the text fits the pattern.                                       *)
Fits == \A i \in 1..Len(text) : AddressPattern(i, text[i])

(* A character more fits or does not.                                      *)
LEMMA FitsMore ==
  ASSUME text \in Seq(Char), NEW c \in Char, text' = Append(text, c), Fits
  PROVE  Fits' <=> AddressPattern(Len(text) + 1, c)
<1>1. /\ Len(text) \in Nat /\ Len(text') = Len(text) + 1
      /\ \A i \in 1..Len(text) : text'[i] = text[i]
      /\ text'[Len(text) + 1] = c
  BY TextGrows
<1>2. Len(text) + 1 \in 1..Len(text')
      /\ \A i \in 1..Len(text') : i = Len(text) + 1 \/ i \in 1..Len(text)
  BY <1>1
<1>3. Fits' <=> \A i \in 1..Len(text') : AddressPattern(i, text'[i])
  BY DEF Fits, AddressPattern
<1>4. ASSUME Fits' PROVE AddressPattern(Len(text) + 1, c)
  BY <1>1, <1>2, <1>3, <1>4, Zenon
<1>5. ASSUME AddressPattern(Len(text) + 1, c) PROVE Fits'
  <2> SUFFICES ASSUME NEW i \in 1..Len(text') PROVE AddressPattern(i, text'[i])
    BY <1>3
  <2>1. CASE i = Len(text) + 1
    BY <1>1, <1>5, <2>1
  <2>2. CASE i \in 1..Len(text)
    BY <1>1, <2>2 DEF Fits
  <2> QED
    BY <1>2, <2>1, <2>2
<1> QED
  BY <1>4, <1>5

(* Where the next character is: the third of each group is a separator.    *)
LEMMA Position ==
  ASSUME NEW n \in Nat, NEW g \in Nat, NEW d \in 0..2, n = 3 * g + d
  PROVE  ((n + 1) % 3 = 0) <=> (d = 2)
OBVIOUS

(* What exactness means in the loop and on leaving it.                     *)
LEMMA ExactIs ==
  ASSUME kind = "address"
  PROVE  /\ status = "parsing" => (AddressParseExact <=> Fits)
         /\ status = "rejected" => (AddressParseExact <=> ~Fits)
         /\ status = "failed" =>
              (AddressParseExact <=> ~(Fits /\ Len(text) = 3 * AddrLen - 1))
         /\ status = "ok" =>
              (AddressParseExact <=>
                 /\ Fits /\ Len(text) = 3 * AddrLen - 1
                 /\ parsed = [i \in 1..AddrLen |-> text[3 * i - 2] * Base + text[3 * i - 1]])
BY DEF AddressParseExact, Fits

(* The same after a step.                                                  *)
LEMMA ExactNext ==
  ASSUME kind' = "address"
  PROVE  /\ status' = "parsing" => (AddressParseExact' <=> Fits')
         /\ status' = "rejected" => (AddressParseExact' <=> ~Fits')
         /\ status' = "failed" =>
              (AddressParseExact' <=> ~(Fits' /\ Len(text') = 3 * AddrLen - 1))
         /\ status' = "ok" =>
              (AddressParseExact' <=>
                 /\ Fits' /\ Len(text') = 3 * AddrLen - 1
                 /\ parsed' = [i \in 1..AddrLen |->
                                 text'[3 * i - 2] * Base + text'[3 * i - 1]])
BY DEF AddressParseExact, Fits

(* Digits are no separators.                                               *)
LEMMA CharKinds ==
  ASSUME NEW c \in Char
  PROVE  /\ c \in Digit \/ c \in {Colon, Dash} \/ c = Other
         /\ c \in Digit => c \notin {Colon, Dash}
         /\ Other \notin Digit /\ Other \notin {Colon, Dash}
BY TypesAssumption DEF Char, Digit, Colon, Dash, Other

(* The bytes that are complete, with a character more.                     *)
LEMMA BytesStay ==
  ASSUME text \in Seq(Char), NEW c \in Char, text' = Append(text, c),
         NEW g \in Nat, 3 * g <= Len(text),
         \A i \in 1..g : parsed[i] = text[3 * i - 2] * Base + text[3 * i - 1]
  PROVE  \A i \in 1..g : parsed[i] = text'[3 * i - 2] * Base + text'[3 * i - 1]
<1> SUFFICES ASSUME NEW i \in 1..g
             PROVE  parsed[i] = text'[3 * i - 2] * Base + text'[3 * i - 1]
  OBVIOUS
<1>1. Len(text) \in Nat /\ \A j \in 1..Len(text) : text'[j] = text[j]
  BY TextGrows
<1>2. 3 * i - 2 \in 1..Len(text) /\ 3 * i - 1 \in 1..Len(text)
  BY <1>1
<1>3. text'[3 * i - 2] = text[3 * i - 2] /\ text'[3 * i - 1] = text[3 * i - 1]
  BY <1>1, <1>2
<1> QED
  BY <1>3

(* A byte is its own remainder.                                            *)
LEMMA ByteMod == \A v \in Byte : v % (Base * Base) = v
<1>1. PICK b \in Nat : b = Base * Base /\ b >= 1
  BY Powers
<1>2. \A v \in 0..(b - 1) : v % b = v
  BY <1>1
<1> QED
  BY <1>1, <1>2 DEF Byte

(* The loop reads a character.                                             *)
LEMMA AddressCharExact ==
  ASSUME Inv, kind = "address", NEW c \in Char, ReadChar(c)
  PROVE  (status' = "parsing" => Understood') /\ AddressParseExact'
<1>1. /\ text' = Append(text, c) /\ kind' = "address" /\ status = "parsing"
      /\ AddressChar(c) /\ text \in Seq(Char)
  BY DEF ReadChar, Inv, Types
<1>2. PICK n \in Nat : n = Len(text)
  BY <1>1, LenProperties
<1>3. PICK g \in Nat : g = Len(parsed)
  BY LenProperties DEF Inv, Types
<1>4. PICK d \in 0..2 : d = digits
  BY <1>1 DEF Inv, Types, Loop
<1>5. n = 3 * g + d /\ g < AddrLen /\ Fits
  BY <1>1, <1>2, <1>3, <1>4, ExactIs DEF Inv, Understood, Loop
<1>5a. /\ \A i \in 1..g : parsed[i] = text[3 * i - 2] * Base + text[3 * i - 1]
       /\ d = 1 => current_val = text[n]
       /\ d = 2 => current_val = text[n - 1] * Base + text[n]
  BY <1>1, <1>2, <1>3, <1>4 DEF Inv, Understood
<1>6. /\ Len(text') = n + 1 /\ text'[n + 1] = c
      /\ \A j \in 1..n : text'[j] = text[j]
  BY <1>1, <1>2, TextGrows
<1>7. Fits' <=> n + 1 < 3 * AddrLen /\ (IF d = 2 THEN c \in {Colon, Dash} ELSE c \in Digit)
  <2>1. Fits' <=> AddressPattern(n + 1, c)
    BY <1>1, <1>2, <1>5, FitsMore
  <2>2. ((n + 1) % 3 = 0) <=> (d = 2)
    BY <1>5, Position
  <2> QED
    BY <2>1, <2>2 DEF AddressPattern
<1>8. n + 1 < 3 * AddrLen <=> ~(d = 2 /\ g = AddrLen - 1)
  BY <1>5, TypesAssumption
<1>9. \A i \in 1..g : parsed[i] = text'[3 * i - 2] * Base + text'[3 * i - 1]
  <2>1. 3 * g <= Len(text)
    BY <1>2, <1>5
  <2> QED
    BY <1>1, <1>5a, <2>1, BytesStay
<1>10. CASE c \in Digit /\ d < 2 /\ Shift(c)
  <2>1. Fits' /\ status' = "parsing"
    BY <1>1, <1>7, <1>8, <1>10 DEF Shift
  <2>2. AddressParseExact'
    BY <1>1, <2>1, ExactNext
  <2>3. /\ digits' = d + 1 /\ current_val' = current_val * Base + c /\ parsed' = parsed
    BY <1>4, <1>10 DEF Shift
  <2>4. Len(text') = 3 * Len(parsed') + digits'
    BY <1>3, <1>5, <1>6, <2>3
  <2>5. digits' = 1 => current_val' = text'[Len(text')]
    <3>1. SUFFICES ASSUME d = 0 PROVE current_val' = c
      BY <1>6, <2>3
    <3>2. current_val = 0
      BY <1>4, <3>1 DEF Inv, Types, Power
    <3>3. 0 * Base + c = c
      BY <1>10, TypesAssumption DEF Digit
    <3> QED
      BY <2>3, <3>2, <3>3
  <2>6. digits' = 2 => current_val' = text'[Len(text') - 1] * Base + text'[Len(text')]
    <3>1. SUFFICES ASSUME d = 1 PROVE current_val' = text'[n + 1 - 1] * Base + c
      BY <1>6, <2>3
    <3>2. n \in 1..n /\ n + 1 - 1 = n
      BY <1>5, <3>1
    <3>3. text'[n + 1 - 1] = current_val
      BY <1>5a, <1>6, <3>1, <3>2
    <3> QED
      BY <2>3, <3>3
  <2>7. \A i \in 1..Len(parsed') :
          parsed'[i] = text'[3 * i - 2] * Base + text'[3 * i - 1]
    BY <1>3, <1>9, <2>3
  <2> QED
    BY <2>2, <2>4, <2>5, <2>6, <2>7 DEF Understood
<1>11. CASE /\ c \in {Colon, Dash} /\ d = 2 /\ g < AddrLen - 1
            /\ Store(current_val)
  <2>1. Fits' /\ status' = "parsing"
    BY <1>1, <1>7, <1>8, <1>11, TypesAssumption DEF Store
  <2>2. AddressParseExact'
    BY <1>1, <2>1, ExactNext
  <2>3. current_val \in Byte /\ parsed \in Seq(Byte)
    BY <1>4, <1>11, ValueNat DEF Inv, Types
  <2>4. parsed' = Append(parsed, current_val) /\ digits' = 0
    BY <1>11, <2>3, ByteMod DEF Store
  <2>5. /\ Len(parsed') = g + 1 /\ parsed'[g + 1] = current_val
        /\ \A i \in 1..g : parsed'[i] = parsed[i]
    BY <1>3, <2>3, <2>4, ParsedGrows
  <2>6. Len(text') = 3 * Len(parsed') + digits'
    BY <1>5, <1>6, <1>11, <2>4, <2>5
  <2>7. parsed'[g + 1] = text'[3 * (g + 1) - 2] * Base + text'[3 * (g + 1) - 1]
    <3>1. /\ 3 * (g + 1) - 2 = n - 1 /\ 3 * (g + 1) - 1 = n
          /\ n - 1 \in 1..n /\ n \in 1..n
      BY <1>5, <1>11
    <3>2. text'[n - 1] = text[n - 1] /\ text'[n] = text[n]
      BY <1>6, <3>1
    <3>3. parsed'[g + 1] = text'[n - 1] * Base + text'[n]
      BY <1>5a, <1>11, <2>5, <3>2
    <3> QED
      BY <3>1, <3>3
  <2>8. ASSUME NEW i \in 1..Len(parsed')
        PROVE  parsed'[i] = text'[3 * i - 2] * Base + text'[3 * i - 1]
    <3>1. i \in 1..g \/ i = g + 1
      BY <2>5
    <3>2. CASE i \in 1..g
      BY <1>9, <2>5, <3>2
    <3>3. CASE i = g + 1
      BY <2>7, <3>3
    <3> QED
      BY <3>1, <3>2, <3>3
  <2> QED
    BY <2>2, <2>4, <2>6, <2>8 DEF Understood
<1>12. CASE /\ Reject
            /\ \/ c \in Digit /\ d >= 2
               \/ c \in {Colon, Dash} /\ ~(d = 2 /\ g < AddrLen - 1)
               \/ c = Other
  <2>1. ~Fits'
    BY <1>5, <1>7, <1>8, <1>12, CharKinds, TypesAssumption
  <2>2. status' = "rejected"
    BY <1>12 DEF Reject
  <2> QED
    BY <1>1, <2>1, <2>2, ExactNext
<1> QED
  BY <1>1, <1>3, <1>4, <1>10, <1>11, <1>12 DEF AddressChar

(* The text ends.                                                          *)
LEMMA AddressEndExact ==
  ASSUME Inv, kind = "address", EndOfText
  PROVE  (status' = "parsing" => Understood') /\ AddressParseExact'
<1>1. /\ UNCHANGED <<kind, text>> /\ status = "parsing" /\ AddressEnd
      /\ text \in Seq(Char) /\ parsed \in Seq(Byte) /\ kind' = "address"
  BY DEF EndOfText, Inv, Types
<1>2. PICK g \in Nat : g = Len(parsed)
  BY <1>1, LenProperties
<1>3. PICK d \in 0..2 : d = digits
  BY <1>1 DEF Inv, Types, Loop
<1>4. Len(text) = 3 * g + d /\ Fits
  BY <1>1, <1>2, <1>3, ExactIs DEF Inv, Understood
<1>4a. /\ \A i \in 1..g : parsed[i] = text[3 * i - 2] * Base + text[3 * i - 1]
       /\ d = 2 => current_val = text[Len(text) - 1] * Base + text[Len(text)]
  BY <1>1, <1>2, <1>3 DEF Inv, Understood
<1>5. Fits' <=> Fits
  BY <1>1 DEF Fits, AddressPattern
<1>6. CASE ~(d = 2 /\ g = AddrLen - 1) /\ status' = "failed"
  <2>1. Len(text') # 3 * AddrLen - 1
    BY <1>1, <1>4, <1>6, TypesAssumption
  <2> QED
    BY <1>1, <1>6, <2>1, ExactNext
<1>7. CASE /\ d = 2 /\ g = AddrLen - 1 /\ status' = "ok"
           /\ parsed' = Append(parsed, current_val)
  <2>1. Len(text') = 3 * AddrLen - 1 /\ g + 1 = AddrLen
    BY <1>1, <1>4, <1>7, TypesAssumption
  <2>2. current_val \in Byte
    BY <1>3, <1>7, ValueNat DEF Inv
  <2>3. /\ parsed' \in Seq(Byte) /\ Len(parsed') = AddrLen
        /\ parsed'[g + 1] = current_val /\ \A i \in 1..g : parsed'[i] = parsed[i]
    BY <1>1, <1>2, <1>7, <2>1, <2>2, ParsedGrows
  <2>4. ASSUME NEW i \in 1..AddrLen
        PROVE  parsed'[i] = text'[3 * i - 2] * Base + text'[3 * i - 1]
    <3>1. i \in 1..g \/ i = g + 1
      BY <2>1
    <3>2. CASE i \in 1..g
      BY <1>1, <1>4a, <2>3, <3>2
    <3>3. CASE i = g + 1
      <4>1. 3 * i - 2 = Len(text) - 1 /\ 3 * i - 1 = Len(text)
        BY <1>4, <1>7, <3>3
      <4>2. parsed'[i] = text[Len(text) - 1] * Base + text[Len(text)]
        BY <1>4a, <1>7, <2>3, <3>3
      <4> QED
        BY <1>1, <4>1, <4>2
    <3> QED
      BY <3>1, <3>2, <3>3
  <2>5. parsed' \in [1..AddrLen -> Byte]
    BY <2>3, LenProperties
  <2>6. parsed' = [i \in 1..AddrLen |-> text'[3 * i - 2] * Base + text'[3 * i - 1]]
    BY <2>4, <2>5
  <2> QED
    BY <1>1, <1>4, <1>5, <1>7, <2>1, <2>6, ExactNext
<1> QED
  BY <1>1, <1>2, <1>3, <1>6, <1>7 DEF AddressEnd

-----------------------------------------------------------------------------
(* The invariant and what follows from it.                                 *)

LEMMA NextInv == Inv /\ [Next]_vars => Inv'
<1> SUFFICES ASSUME Inv, [Next]_vars PROVE Inv'
  OBVIOUS
<1>1. ASSUME NEW c \in Char, ReadChar(c) PROVE Inv'
  <2>1. Types' /\ Loop' /\ UNCHANGED kind
    BY <1>1, ReadCharTypes DEF Inv, ReadChar
  <2>2. CASE kind = "address"
    BY <1>1, <2>1, <2>2, AddressCharExact DEF Inv
  <2>3. CASE kind # "address"
    BY <2>1, <2>3 DEF Inv, AddressParseExact
  <2> QED
    BY <2>2, <2>3
<1>2. CASE EndOfText
  <2>1. Types' /\ Loop' /\ UNCHANGED kind
    BY <1>2, EndTypes DEF Inv, EndOfText
  <2>2. CASE kind = "address"
    BY <1>2, <2>1, <2>2, AddressEndExact DEF Inv
  <2>3. CASE kind # "address"
    BY <2>1, <2>3 DEF Inv, AddressParseExact
  <2> QED
    BY <2>2, <2>3
<1>3. CASE UNCHANGED vars
  <2>1. UNCHANGED <<kind, text, parsed, current_val, digits, status>>
    BY <1>3 DEF vars
  <2>2. Types'
    BY <2>1 DEF Inv, Types, Limit, Power
  <2>3. Loop' /\ (Understood' <=> Understood)
    BY <2>1 DEF Inv, Loop, Understood
  <2>4. AddressParseExact'
    BY <2>1 DEF Inv, AddressParseExact, AddressPattern
  <2> QED
    BY <2>1, <2>2, <2>3, <2>4 DEF Inv
<1> QED
  BY <1>1, <1>2, <1>3 DEF Next

(* The loops' invariant holds in every reachable state.                    *)
THEOREM ParserInvariance == Spec => []Inv
BY InitInv, NextInv, PTL DEF Spec

(* Every variable stays in its domain: no text makes a loop of try_parse   *)
(* write past the end of parsed[], or the number it reads overflow.        *)
THEOREM ParserTypeCorrect == Spec => []TypeOK
<1>1. Inv => TypeOK
  <2> SUFFICES ASSUME Inv PROVE TypeOK
    OBVIOUS
  <2>1. Power(digits) \in Nat /\ Power(digits) <= Base * Base * Base * Base
    <3>1. ASSUME NEW p \in Nat, p >= 1 PROVE p * Base \in Nat /\ p <= p * Base
      BY <3>1, TypesAssumption
    <3>2. /\ 1 <= Base /\ Base <= Base * Base /\ Base * Base <= Base * Base * Base
          /\ Base * Base * Base <= Base * Base * Base * Base
      BY <3>1, Powers, TypesAssumption
    <3>3. /\ digits \in {0, 1, 2, 3, 4} /\ Base \in Nat
      BY TypesAssumption DEF Inv, Types
    <3>4. Power(digits) \in {1, Base, Base * Base, Base * Base * Base,
                             Base * Base * Base * Base}
      BY <3>3 DEF Power
    <3> QED
      BY <3>2, <3>3, <3>4, Powers
  <2>2. current_val \in 0..(Base * Base * Base * Base - 1)
    BY <2>1, Powers DEF Inv, Types
  <2> QED
    BY <2>2 DEF Inv, Types, Limit, TypeOK
<1> QED
  BY <1>1, ParserInvariance, PTL

(* Address::try_parse accepts exactly the texts of the pattern XX:...:XX,  *)
(* where each separator is a colon or a dash on its own account, and gives *)
(* the bytes they show; what it rejects in the loop has no acceptable      *)
(* extension.                                                              *)
THEOREM AddressParsing == Spec => []AddressParseExact
<1>1. Inv => AddressParseExact
  BY DEF Inv
<1> QED
  BY <1>1, ParserInvariance, PTL

-----------------------------------------------------------------------------
(* Induction, and functions defined by it.                                 *)

(* A set that holds 0, and with each number its successor, holds all of    *)
(* 0..n: else i |-> i + 1 would map a finite set into itself without 0.    *)
LEMMA SetInduction ==
  ASSUME NEW T, NEW n \in Nat, 0 \in T, \A i \in 0..(n - 1) : i \in T => i + 1 \in T
  PROVE  \A i \in 0..n : i \in T
<1> SUFFICES ASSUME NEW m \in 0..n, m \notin T PROVE FALSE
  OBVIOUS
<1>1. PICK A : A = {i \in 0..m : i \in T}
  OBVIOUS
<1>2. IsFiniteSet(A) /\ Cardinality(A) \in Nat
  <2>1. IsFiniteSet(0..m) /\ A \in SUBSET (0..m)
    BY <1>1, FS_Interval
  <2>2. IsFiniteSet(A)
    BY <2>1, FS_Subset
  <2> QED
    BY <2>2, FS_CardinalityType
<1>3. 0 \in A
  BY <1>1
<1>4. ASSUME NEW i \in A PROVE i + 1 \in A \ {0}
  BY <1>1
<1>5. PICK f : f = [i \in A |-> i + 1]
  OBVIOUS
<1>6. f \in [A -> A \ {0}] /\ \A i, j \in A : f[i] = f[j] => i = j
  BY <1>1, <1>4, <1>5
<1>7. f \in Injection(A, A \ {0})
  BY <1>6 DEF Injection, IsInjective
<1>8. IsFiniteSet(A \ {0}) /\ Cardinality(A \ {0}) = Cardinality(A) - 1
  BY <1>2, <1>3, FS_RemoveElement
<1>9. Cardinality(A) <= Cardinality(A \ {0})
  BY <1>7, <1>8, FS_Injection
<1> QED
  BY <1>2, <1>8, <1>9

(* The steps of a recursion on 0..n with values in X, and a solution of it *)
(* that begins with a.                                                     *)
Steps(X, n, step) == step \in [1..n -> [X -> X]]
Solves(g, X, n, a, step) ==
  g \in [0..n -> X] /\ g[0] = a /\ \A i \in 1..n : g[i] = step[i][g[i - 1]]

(* A recursion has a solution.                                             *)
LEMMA Recursion ==
  ASSUME NEW X, NEW n \in Nat, NEW a \in X, NEW step, Steps(X, n, step)
  PROVE  \E g : Solves(g, X, n, a, step)
<1>0. step \in [1..n -> [X -> X]]
  BY DEF Steps
<1>1. PICK T : T = {m \in 0..n : \E g \in [0..m -> X] :
                      g[0] = a /\ \A i \in 1..m : g[i] = step[i][g[i - 1]]}
  OBVIOUS
<1>2. 0 \in T
  <2>1. PICK g : g = [i \in 0..0 |-> a]
    OBVIOUS
  <2>2. g \in [0..0 -> X] /\ g[0] = a /\ \A i \in 1..0 : g[i] = step[i][g[i - 1]]
    BY <2>1
  <2> QED
    BY <1>1, <2>2
<1>3. ASSUME NEW m \in 0..(n - 1), m \in T PROVE m + 1 \in T
  <2>1. PICK g \in [0..m -> X] : g[0] = a /\ \A i \in 1..m : g[i] = step[i][g[i - 1]]
    BY <1>1, <1>3
  <2>2. m + 1 \in 1..n /\ m \in 0..m
    OBVIOUS
  <2>3. PICK x \in X : x = step[m + 1][g[m]]
    BY <1>0, <2>1, <2>2
  <2>4. PICK h : h = [i \in 0..(m + 1) |-> IF i = m + 1 THEN x ELSE g[i]]
    OBVIOUS
  <2>5. \A i \in 0..(m + 1) : i = m + 1 \/ i \in 0..m
    OBVIOUS
  <2>6. h \in [0..(m + 1) -> X]
    BY <2>1, <2>4, <2>5
  <2>7. h[m + 1] = x /\ \A i \in 0..m : h[i] = g[i]
    BY <2>4
  <2>8. h[0] = a
    BY <2>1, <2>7
  <2>9. ASSUME NEW i \in 1..(m + 1) PROVE h[i] = step[i][h[i - 1]]
    <3>1. i - 1 \in 0..m /\ (i = m + 1 \/ i \in 1..m)
      OBVIOUS
    <3>2. CASE i = m + 1
      <4>1. i - 1 = m
        BY <3>2
      <4> QED
        BY <2>2, <2>3, <2>7, <3>2, <4>1
    <3>3. CASE i \in 1..m
      BY <2>1, <2>7, <3>1, <3>3
    <3> QED
      BY <3>1, <3>2, <3>3
  <2>10. m + 1 \in 0..n
    OBVIOUS
  <2> QED
    BY <1>1, <2>6, <2>8, <2>9, <2>10
<1>4. n \in T
  <2>1. \A i \in 0..n : i \in T
    BY <1>2, <1>3, SetInduction
  <2> QED
    BY <2>1
<1> QED
  BY <1>1, <1>4 DEF Solves

(* Two functions with the same beginning and the same steps.               *)
StepsAgree(f, g, n) ==
  f[0] = g[0] /\ \A i \in 0..(n - 1) : f[i] = g[i] => f[i + 1] = g[i + 1]
Agree(f, g, n) == \A i \in 0..n : f[i] = g[i]

LEMMA SameSteps ==
  ASSUME NEW n \in Nat, NEW f, NEW g, StepsAgree(f, g, n)
  PROVE  Agree(f, g, n)
<1>1. PICK T : T = {i \in 0..n : f[i] = g[i]}
  OBVIOUS
<1>2. 0 \in T /\ \A i \in 0..(n - 1) : i \in T => i + 1 \in T
  BY <1>1 DEF StepsAgree
<1>3. \A i \in 0..n : i \in T
  BY <1>2, SetInduction
<1> QED
  BY <1>1, <1>3 DEF Agree

(* The digits of each prefix of a text.                                    *)
LEMMA DigitsTaken ==
  ASSUME NEW s \in Seq(Char)
  PROVE  \E f \in [0..Len(s) -> Seq(Digit)] :
           /\ f[0] = << >> /\ DigitsOf(s) = f[Len(s)]
           /\ \A i \in 1..Len(s) :
                f[i] = IF s[i] \in Digit THEN Append(f[i - 1], s[i]) ELSE f[i - 1]
<1>1. PICK n \in Nat : n = Len(s)
  BY LenProperties
<1>2. PICK step : step = [i \in 1..n |-> [x \in Seq(Digit) |->
                            IF s[i] \in Digit THEN Append(x, s[i]) ELSE x]]
  OBVIOUS
<1>3. step \in [1..n -> [Seq(Digit) -> Seq(Digit)]]
  <2>1. \A i \in 1..n, x \in Seq(Digit) :
          (IF s[i] \in Digit THEN Append(x, s[i]) ELSE x) \in Seq(Digit)
    BY AppendProperties
  <2> QED
    BY <1>2, <2>1
<1>4. PICK g \in [0..n -> Seq(Digit)] : g[0] = << >> /\ \A i \in 1..n : g[i] = step[i][g[i - 1]]
  <2>1. PICK e \in Seq(Digit) : e = << >>
    BY EmptySeq
  <2>2. \E g : Solves(g, Seq(Digit), n, e, step)
    BY <1>3, Recursion, Zenon DEF Steps
  <2> QED
    BY <2>1, <2>2, Zenon DEF Solves
<1>5. \A i \in 1..n : g[i] = IF s[i] \in Digit THEN Append(g[i - 1], s[i]) ELSE g[i - 1]
  <2>1. \A i \in 1..n : i - 1 \in 0..n
    OBVIOUS
  <2> QED
    BY <1>2, <1>4, <2>1
<1>6. g = [i \in 0..n |-> IF i = 0 THEN << >>
                          ELSE IF s[i] \in Digit THEN Append(g[i - 1], s[i]) ELSE g[i - 1]]
  <2>1. \A i \in 0..n : i = 0 \/ i \in 1..n
    OBVIOUS
  <2> QED
    BY <1>4, <1>5, <2>1
<1>7. PICK c : c = CHOOSE f : f = [i \in 0..n |-> IF i = 0 THEN << >>
                          ELSE IF s[i] \in Digit THEN Append(f[i - 1], s[i]) ELSE f[i - 1]]
  OBVIOUS
<1>8. c = [i \in 0..n |-> IF i = 0 THEN << >>
                          ELSE IF s[i] \in Digit THEN Append(c[i - 1], s[i]) ELSE c[i - 1]]
  BY <1>6, <1>7, Zenon
<1>9. DigitsOf(s) = c[n]
  BY <1>1, <1>7 DEF DigitsOf
<1>10. \A i \in 0..n : c[i] = g[i]
  <2>1. c[0] = g[0]
    BY <1>4, <1>8
  <2>2. ASSUME NEW i \in 0..(n - 1), c[i] = g[i] PROVE c[i + 1] = g[i + 1]
    <3>1. PICK j \in 1..n : j = i + 1 /\ j - 1 = i /\ j # 0 /\ j \in 0..n
      OBVIOUS
    <3>2. c[j] = IF s[j] \in Digit THEN Append(c[j - 1], s[j]) ELSE c[j - 1]
      BY <1>8, <3>1, Zenon
    <3>3. c[j - 1] = g[j - 1]
      BY <2>2, <3>1, Zenon
    <3>4. g[j] = IF s[j] \in Digit THEN Append(g[j - 1], s[j]) ELSE g[j - 1]
      BY <1>5, Zenon
    <3>5. c[j] = g[j]
      BY <3>2, <3>3, <3>4
    <3> QED
      BY <3>1, <3>5
  <2>3. StepsAgree(c, g, n)
    BY <2>1, <2>2 DEF StepsAgree
  <2>4. Agree(c, g, n)
    BY <2>3, SameSteps
  <2> QED
    BY <2>4 DEF Agree
<1> QED
  BY <1>1, <1>4, <1>5, <1>9, <1>10

(* A text without characters has no digits.                                *)
LEMMA DigitsNone == DigitsOf(<< >>) = << >>
<1>1. PICK s \in Seq(Char) : s = << >>
  BY EmptySeq
<1>2. Len(s) = 0
  BY <1>1, EmptySeq
<1>3. PICK f \in [0..Len(s) -> Seq(Digit)] : f[0] = << >> /\ DigitsOf(s) = f[Len(s)]
  BY DigitsTaken, Zenon
<1> QED
  BY <1>1, <1>2, <1>3

(* The digits of a text with a character more.                             *)
LEMMA DigitsMore ==
  ASSUME NEW s \in Seq(Char), NEW c \in Char
  PROVE  /\ DigitsOf(s) \in Seq(Digit)
         /\ DigitsOf(Append(s, c)) = IF c \in Digit THEN Append(DigitsOf(s), c) ELSE DigitsOf(s)
<1>1. PICK n \in Nat : n = Len(s)
  BY LenProperties
<1>2. PICK t \in Seq(Char) : t = Append(s, c)
  BY AppendProperties
<1>3. Len(t) = n + 1 /\ t[n + 1] = c /\ \A i \in 1..n : t[i] = s[i]
  BY <1>1, <1>2, AppendProperties
<1>4. PICK f \in [0..n -> Seq(Digit)] :
        /\ f[0] = << >> /\ DigitsOf(s) = f[n]
        /\ \A i \in 1..n : f[i] = IF s[i] \in Digit THEN Append(f[i - 1], s[i]) ELSE f[i - 1]
  BY <1>1, DigitsTaken
<1>5. PICK g \in [0..(n + 1) -> Seq(Digit)] :
        /\ g[0] = << >> /\ DigitsOf(t) = g[n + 1]
        /\ \A i \in 1..(n + 1) : g[i] = IF t[i] \in Digit THEN Append(g[i - 1], t[i]) ELSE g[i - 1]
  <2>1. \E g \in [0..Len(t) -> Seq(Digit)] :
          /\ g[0] = << >> /\ DigitsOf(t) = g[Len(t)]
          /\ \A i \in 1..Len(t) : g[i] = IF t[i] \in Digit THEN Append(g[i - 1], t[i]) ELSE g[i - 1]
    BY DigitsTaken, Zenon
  <2> QED
    BY <1>3, <2>1, Zenon
<1>6. \A i \in 0..n : f[i] = g[i]
  <2>1. ASSUME NEW i \in 0..(n - 1), f[i] = g[i] PROVE f[i + 1] = g[i + 1]
    <3>1. PICK j \in 1..n : j = i + 1 /\ j - 1 = i /\ j \in 1..(n + 1)
      OBVIOUS
    <3>2. f[j] = IF s[j] \in Digit THEN Append(f[j - 1], s[j]) ELSE f[j - 1]
      BY <1>4, Zenon
    <3>3. g[j] = IF s[j] \in Digit THEN Append(g[j - 1], s[j]) ELSE g[j - 1]
      <4>1. t[j] = s[j]
        BY <1>3
      <4>2. g[j] = IF t[j] \in Digit THEN Append(g[j - 1], t[j]) ELSE g[j - 1]
        BY <1>5, <3>1, Zenon
      <4> QED
        BY <4>1, <4>2
    <3>4. f[j - 1] = g[j - 1]
      BY <2>1, <3>1
    <3>5. f[j] = g[j]
      BY <3>2, <3>3, <3>4
    <3> QED
      BY <3>1, <3>5
  <2>2. f[0] = g[0]
    BY <1>4, <1>5
  <2>3. StepsAgree(f, g, n)
    BY <2>1, <2>2 DEF StepsAgree
  <2>4. Agree(f, g, n)
    BY <2>3, SameSteps
  <2> QED
    BY <2>4 DEF Agree
<1>7. g[n + 1] = IF c \in Digit THEN Append(g[n], c) ELSE g[n]
  <2>1. PICK j \in 1..(n + 1) : j = n + 1 /\ j - 1 = n
    OBVIOUS
  <2>2. g[j] = IF t[j] \in Digit THEN Append(g[j - 1], t[j]) ELSE g[j - 1]
    BY <1>5, Zenon
  <2> QED
    BY <1>3, <2>1, <2>2
<1>8. DigitsOf(s) \in Seq(Digit) /\ g[n] = DigitsOf(s)
  BY <1>4, <1>6
<1> QED
  BY <1>2, <1>5, <1>7, <1>8

-----------------------------------------------------------------------------
(* Uuid::try_parse.                                                        *)

(* The digits of the text.                                                 *)
Digits == DigitsOf(text)

(* What the loop has understood of the text: the digits of the complete    *)
(* bytes, and perhaps one more.                                            *)
Digested ==
  /\ Len(Digits) = 2 * Len(parsed) + digits
  /\ \A i \in 1..Len(parsed) : parsed[i] = Digits[2 * i - 1] * Base + Digits[2 * i]
  /\ digits = 1 => current_val = Digits[Len(Digits)]

(* The number that digit d is appended to.                                 *)
Number(s, d) ==
  CASE d = 0 -> 0
    [] d = 1 -> s[1]
    [] d = 2 -> s[1] * Base + s[2]
    [] d = 3 -> (s[1] * Base + s[2]) * Base + s[3]
    [] d = 4 -> ((s[1] * Base + s[2]) * Base + s[3]) * Base + s[4]

UuidInv ==
  /\ Inv
  /\ kind = "uuid" /\ status = "parsing" => Digested
  /\ kind = "short" /\ status = "parsing" => current_val = Number(text, Len(text))
  /\ UuidParseExact

(* The text is digits and dashes.                                          *)
DigitsAndDashes == \A i \in 1..Len(text) : text[i] \in Digit \cup {Dash}

(* What exactness means in the loop and on leaving it.                     *)
LEMMA UuidExactNext ==
  /\ kind' = "uuid" /\ status' = "parsing" =>
       (UuidParseExact' <=> DigitsAndDashes' /\ Len(Digits') <= 2 * UuidLen + 1)
  /\ kind' = "uuid" /\ status' = "rejected" =>
       (UuidParseExact' <=> ~DigitsAndDashes' \/ Len(Digits') > 2 * UuidLen)
  /\ kind' = "uuid" /\ status' = "failed" =>
       (UuidParseExact' <=> DigitsAndDashes' /\ Len(Digits') # 2 * UuidLen)
  /\ kind' = "uuid" /\ status' = "ok" =>
       (UuidParseExact' <=>
          /\ DigitsAndDashes' /\ Len(Digits') = 2 * UuidLen
          /\ parsed' = [i \in 1..UuidLen |-> Digits'[2 * i - 1] * Base + Digits'[2 * i]])
  /\ kind' = "short" /\ status' = "parsing" => (UuidParseExact' <=> Digits' = text')
  /\ kind' = "short" /\ status' = "rejected" => (UuidParseExact' <=> Digits' # text')
  /\ kind' = "short" /\ status' = "ok" =>
       (UuidParseExact' <=>
          /\ Digits' = text' /\ Len(text') = 4
          /\ parsed' = [BaseUuid EXCEPT ![3] = Digits'[1] * Base + Digits'[2],
                                        ![4] = Digits'[3] * Base + Digits'[4]])
  /\ kind' = "address" => UuidParseExact'
<1>1. CASE kind' = "uuid"
  BY <1>1 DEF UuidParseExact, Digits, DigitsAndDashes
<1>2. CASE kind' = "short"
  BY <1>2 DEF UuidParseExact, Digits
<1>3. CASE kind' = "address"
  BY <1>3 DEF UuidParseExact
<1> QED
  BY <1>1, <1>2, <1>3

(* The same before a step.                                                 *)
LEMMA UuidExactIs ==
  ASSUME UuidParseExact
  PROVE  /\ kind = "uuid" /\ status = "parsing" =>
              DigitsAndDashes /\ Len(Digits) <= 2 * UuidLen + 1
         /\ kind = "short" /\ status = "parsing" => Digits = text
         /\ kind = "uuid" /\ status = "ok" =>
              /\ DigitsAndDashes /\ Len(Digits) = 2 * UuidLen
              /\ parsed = [i \in 1..UuidLen |-> Digits[2 * i - 1] * Base + Digits[2 * i]]
<1>1. CASE kind = "uuid"
  BY <1>1 DEF UuidParseExact, Digits, DigitsAndDashes
<1>2. CASE kind = "short"
  BY <1>2 DEF UuidParseExact, Digits
<1> QED
  BY <1>1, <1>2

(* A character more of the text.                                           *)
LEMMA DigitsGrow ==
  ASSUME text \in Seq(Char), NEW c \in Char, text' = Append(text, c)
  PROVE  /\ Digits \in Seq(Digit) /\ Len(Digits) \in Nat
         /\ c \notin Digit => Digits' = Digits
         /\ c \in Digit => /\ Digits' \in Seq(Digit) /\ Len(Digits') = Len(Digits) + 1
                           /\ Digits'[Len(Digits) + 1] = c
                           /\ \A i \in 1..Len(Digits) : Digits'[i] = Digits[i]
         /\ DigitsAndDashes' <=> DigitsAndDashes /\ c \in Digit \cup {Dash}
<1>1. PICK s \in Seq(Char) : s = text
  OBVIOUS
<1>2. PICK ds \in Seq(Digit) : ds = Digits
  BY <1>1, DigitsMore DEF Digits
<1>3. Digits' = DigitsOf(Append(s, c))
  BY <1>1 DEF Digits
<1>4. Digits' = IF c \in Digit THEN Append(ds, c) ELSE ds
  BY <1>1, <1>2, <1>3, DigitsMore DEF Digits
<1>5. Len(ds) \in Nat
  BY LenProperties
<1>6. c \notin Digit => Digits' = Digits
  BY <1>2, <1>4
<1>7. c \in Digit => /\ Digits' \in Seq(Digit) /\ Len(Digits') = Len(ds) + 1
                     /\ Digits'[Len(ds) + 1] = c
                     /\ \A i \in 1..Len(ds) : Digits'[i] = ds[i]
  <2> SUFFICES ASSUME c \in Digit
               PROVE  /\ Digits' \in Seq(Digit) /\ Len(Digits') = Len(ds) + 1
                      /\ Digits'[Len(ds) + 1] = c
                      /\ \A i \in 1..Len(ds) : Digits'[i] = ds[i]
    OBVIOUS
  <2>1. PICK es : es = Append(ds, c)
    OBVIOUS
  <2>2. /\ es \in Seq(Digit) /\ Len(es) = Len(ds) + 1 /\ es[Len(ds) + 1] = c
        /\ \A i \in 1..Len(ds) : es[i] = ds[i]
    BY <2>1, AppendProperties
  <2>3. Digits' = es
    BY <1>4, <2>1
  <2> QED
    BY <2>2, <2>3
<1>8. DigitsAndDashes' <=> DigitsAndDashes /\ c \in Digit \cup {Dash}
  <2>1. /\ Len(text) \in Nat /\ Len(text') = Len(text) + 1
        /\ \A i \in 1..Len(text) : text'[i] = text[i]
        /\ text'[Len(text) + 1] = c
    BY TextGrows
  <2>2. /\ Len(text) + 1 \in 1..Len(text')
        /\ \A i \in 1..Len(text') : i = Len(text) + 1 \/ i \in 1..Len(text)
        /\ \A i \in 1..Len(text) : i \in 1..Len(text')
    BY <2>1
  <2>3. ASSUME DigitsAndDashes' PROVE DigitsAndDashes /\ c \in Digit \cup {Dash}
    BY <2>1, <2>2, <2>3 DEF DigitsAndDashes
  <2>4. ASSUME DigitsAndDashes, c \in Digit \cup {Dash} PROVE DigitsAndDashes'
    BY <2>1, <2>2, <2>4 DEF DigitsAndDashes
  <2> QED
    BY <2>3, <2>4
<1> QED
  BY <1>2, <1>5, <1>6, <1>7, <1>8

(* The bytes that are complete, with a digit more.                         *)
LEMMA PairsStay ==
  ASSUME NEW n \in Nat, NEW g \in Nat, 2 * g <= n,
         NEW ds, NEW es, \A j \in 1..n : es[j] = ds[j],
         \A i \in 1..g : parsed[i] = ds[2 * i - 1] * Base + ds[2 * i]
  PROVE  \A i \in 1..g : parsed[i] = es[2 * i - 1] * Base + es[2 * i]
<1> SUFFICES ASSUME NEW i \in 1..g PROVE parsed[i] = es[2 * i - 1] * Base + es[2 * i]
  OBVIOUS
<1>1. 2 * i - 1 \in 1..n /\ 2 * i \in 1..n
  OBVIOUS
<1>2. es[2 * i - 1] = ds[2 * i - 1] /\ es[2 * i] = ds[2 * i]
  BY <1>1
<1> QED
  BY <1>2

(* The loop reads a character.                                             *)
LEMMA UuidCharExact ==
  ASSUME UuidInv, kind = "uuid", NEW c \in Char, ReadChar(c)
  PROVE  (status' = "parsing" => Digested') /\ UuidParseExact'
<1>1. /\ text' = Append(text, c) /\ kind' = "uuid" /\ status = "parsing" /\ UuidChar(c)
      /\ text \in Seq(Char) /\ parsed \in Seq(Byte) /\ Inv /\ UuidParseExact /\ Types
  BY DEF ReadChar, UuidInv, Inv, Types
<1>2. PICK g \in Nat : g = Len(parsed) /\ g <= UuidLen
  BY <1>1, LenProperties DEF Types, Limit
<1>3. PICK d \in 0..1 : d = digits
  BY <1>1 DEF Inv, Types, Loop
<1>4. PICK n \in Nat : n = Len(Digits)
  BY <1>1, DigitsGrow
<1>5. /\ DigitsAndDashes /\ n = 2 * g + d
      /\ \A i \in 1..g : parsed[i] = Digits[2 * i - 1] * Base + Digits[2 * i]
      /\ d = 1 => current_val = Digits[n]
  BY <1>1, <1>2, <1>3, <1>4, UuidExactIs DEF UuidInv, Digested
<1>6. UuidLen \in Nat /\ (c \in Digit \/ c = Dash \/ c \in {Colon, Other})
  BY TypesAssumption DEF Char
<1>7. /\ c \notin Digit => Digits' = Digits
      /\ c \in Digit => /\ Digits' \in Seq(Digit) /\ Len(Digits') = n + 1 /\ Digits'[n + 1] = c
                        /\ \A i \in 1..n : Digits'[i] = Digits[i]
      /\ DigitsAndDashes' <=> c \in Digit \cup {Dash}
      /\ Digits \in Seq(Digit)
  BY <1>1, <1>4, <1>5, DigitsGrow
<1>8. CASE c = Dash /\ UNCHANGED <<parsed, current_val, digits, status>>
  <2>1. c \notin Digit
    BY <1>8, CharKinds
  <2>2. Digits' = Digits /\ DigitsAndDashes'
    BY <1>7, <1>8, <2>1
  <2>3. Digested'
    BY <1>2, <1>3, <1>4, <1>5, <1>8, <2>2 DEF Digested
  <2>4. Len(Digits') <= 2 * UuidLen + 1
    <3>1. n = 2 * g + d /\ Len(Digits') = n /\ UuidLen \in Nat
      BY <1>4, <1>5, <2>2, TypesAssumption
    <3> QED
      BY <1>2, <3>1
  <2> QED
    BY <1>1, <1>8, <2>2, <2>3, <2>4, UuidExactNext
<1>9. CASE c \in {Colon, Other} /\ Reject
  <2>1. c \notin Digit \cup {Dash}
    BY <1>9, TypesAssumption DEF Digit, Dash, Colon, Other
  <2> QED
    BY <1>1, <1>7, <1>9, <2>1, UuidExactNext DEF Reject
<1>10. CASE c \in Digit /\ d = 0 /\ Shift(c)
  <2>1. parsed' = parsed /\ digits' = 1 /\ current_val' = current_val * Base + c
        /\ status' = "parsing"
    <3>1. parsed' = parsed /\ digits' = digits + 1 /\ current_val' = current_val * Base + c
          /\ status' = "parsing"
      BY <1>1, <1>10, Zenon DEF Shift
    <3>2. digits = 0 /\ digits' = digits + 1
      BY <1>3, <1>10, <3>1, Zenon
    <3>3. digits' = 1
      BY <3>2
    <3> QED
      BY <3>1, <3>3
  <2>2. current_val' = c
    <3>1. current_val = 0
      BY <1>1, <1>3, <1>10 DEF Types, Power
    <3> QED
      BY <1>10, <2>1, <3>1, TypesAssumption DEF Digit
  <2>3. \A i \in 1..g : parsed[i] = Digits'[2 * i - 1] * Base + Digits'[2 * i]
    <3>1. 2 * g <= n
      BY <1>5
    <3> QED
      BY <1>5, <1>7, <1>10, <3>1, PairsStay
  <2>4. Len(Digits') = 2 * g + 1 /\ n + 1 = Len(Digits')
    BY <1>5, <1>7, <1>10
  <2>5. Digested'
    BY <1>2, <1>7, <1>10, <2>1, <2>2, <2>3, <2>4 DEF Digested
  <2>6. Len(Digits') <= 2 * UuidLen + 1
    BY <1>2, <2>4, TypesAssumption
  <2> QED
    BY <1>1, <1>7, <1>10, <2>1, <2>5, <2>6, UuidExactNext
<1>11. CASE c \in Digit /\ d = 1 /\ g < UuidLen /\ Store(current_val * Base + c)
  <2>1. n \in 1..n
    BY <1>5, <1>11
  <2>2. PICK b \in Digit : b = Digits[n] /\ b = current_val
    BY <1>4, <1>5, <1>7, <1>11, <2>1, ElementOfSeq
  <2>3. PICK v \in Byte : v = b * Base + c
    <3>1. b \in 0..(Base - 1) /\ Base \in Nat
      BY TypesAssumption DEF Digit
    <3>2. b * Base + c \in 0..(Base * Base - 1)
      BY <1>11, <3>1, DigitMore
    <3> QED
      BY <3>2 DEF Byte
  <2>4. parsed' = Append(parsed, v) /\ digits' = 0 /\ status' = "parsing"
    BY <1>1, <1>11, <2>2, <2>3, ByteMod DEF Store
  <2>5. /\ Len(parsed') = g + 1 /\ parsed'[g + 1] = v
        /\ \A i \in 1..g : parsed'[i] = parsed[i]
    BY <1>1, <1>2, <2>4, ParsedGrows
  <2>6. /\ 2 * g <= n /\ n = 2 * (g + 1) - 1 /\ n + 1 = 2 * (g + 1) /\ n + 1 <= 2 * UuidLen + 1
        /\ \A i \in 1..(g + 1) : i = g + 1 \/ i \in 1..g
    BY <1>5, <1>11, TypesAssumption
  <2>7. \A i \in 1..g : parsed[i] = Digits'[2 * i - 1] * Base + Digits'[2 * i]
    BY <1>5, <1>7, <1>11, <2>6, PairsStay
  <2>8. Digits'[n] = b /\ Digits'[n + 1] = c
    BY <1>7, <1>11, <2>1, <2>2
  <2>9. ASSUME NEW i \in 1..(g + 1)
        PROVE  parsed'[i] = Digits'[2 * i - 1] * Base + Digits'[2 * i]
    <3>1. CASE i \in 1..g
      BY <2>5, <2>7, <3>1
    <3>2. CASE i = g + 1
      <4>1. 2 * i - 1 = n /\ 2 * i = n + 1
        BY <2>6, <3>2
      <4> QED
        BY <2>3, <2>5, <2>8, <3>2, <4>1
    <3> QED
      BY <2>6, <3>1, <3>2
  <2>10. Len(Digits') = 2 * Len(parsed') + digits'
    BY <1>7, <1>11, <2>4, <2>5, <2>6
  <2>11. Digested'
    BY <2>4, <2>5, <2>9, <2>10 DEF Digested
  <2> QED
    BY <1>1, <1>7, <1>11, <2>4, <2>6, <2>11, UuidExactNext
<1>12. CASE c \in Digit /\ d = 1 /\ g >= UuidLen /\ Reject
  <2>1. Len(Digits') > 2 * UuidLen
    BY <1>5, <1>7, <1>12, TypesAssumption
  <2> QED
    BY <1>1, <1>12, <2>1, UuidExactNext DEF Reject
<1> QED
  BY <1>1, <1>2, <1>3, <1>8, <1>9, <1>10, <1>11, <1>12 DEF UuidChar

(* The text ends.                                                          *)
LEMMA UuidEndExact ==
  ASSUME UuidInv, kind = "uuid", EndOfText
  PROVE  status' # "parsing" /\ UuidParseExact'
<1>1. /\ UNCHANGED <<kind, text, parsed, digits>> /\ status = "parsing" /\ UuidEnd
      /\ text \in Seq(Char) /\ parsed \in Seq(Byte) /\ kind' = "uuid" /\ UuidParseExact
      /\ Len(parsed) \in Nat /\ Types /\ Inv
  BY LenProperties DEF EndOfText, UuidEnd, UuidInv, Inv, Types
<1>2. PICK g \in Nat : g = Len(parsed)
  BY <1>1
<1>3. PICK d \in 0..1 : d = digits
  BY <1>1 DEF Inv, Types, Loop
<1>4. /\ DigitsAndDashes /\ Len(Digits) = 2 * g + d
      /\ \A i \in 1..g : parsed[i] = Digits[2 * i - 1] * Base + Digits[2 * i]
  BY <1>1, <1>2, <1>3, UuidExactIs DEF UuidInv, Digested
<1>5. Digits' = Digits /\ DigitsAndDashes'
  BY <1>1, <1>4 DEF Digits, DigitsAndDashes
<1>6. CASE d = 0 /\ g = UuidLen /\ status' = "ok"
  <2>1. Len(Digits') = 2 * UuidLen
    BY <1>4, <1>5, <1>6
  <2>2. parsed \in [1..UuidLen -> Byte]
    BY <1>1, <1>2, <1>6, LenProperties
  <2>3. parsed' = [i \in 1..UuidLen |-> Digits'[2 * i - 1] * Base + Digits'[2 * i]]
    BY <1>1, <1>4, <1>5, <1>6, <2>2
  <2> QED
    BY <1>1, <1>5, <1>6, <2>1, <2>3, UuidExactNext
<1>7. CASE ~(d = 0 /\ g = UuidLen) /\ status' = "failed"
  <2>1. Len(Digits') # 2 * UuidLen
    <3>1. Len(Digits') = 2 * g + d /\ UuidLen \in Nat
      BY <1>4, <1>5, TypesAssumption
    <3> QED
      BY <1>7, <3>1
  <2> QED
    BY <1>1, <1>5, <1>7, <2>1, UuidExactNext
<1> QED
  BY <1>1, <1>2, <1>3, <1>6, <1>7 DEF UuidEnd

(* The loop over a short text reads a character.                           *)
LEMMA ShortCharExact ==
  ASSUME UuidInv, kind = "short", NEW c \in Char, ReadChar(c)
  PROVE  /\ status' = "parsing" => current_val' = Number(text', Len(text'))
         /\ UuidParseExact'
<1>1. /\ text' = Append(text, c) /\ kind' = "short" /\ status = "parsing" /\ ShortChar(c)
      /\ text \in Seq(Char) /\ Len(text) < 4 /\ Digits = text
      /\ current_val = Number(text, Len(text))
  BY UuidExactIs DEF ReadChar, UuidInv, Inv, Types
<1>2. /\ text' \in Seq(Char) /\ Len(text) \in Nat /\ Len(text') = Len(text) + 1
      /\ \A i \in 1..Len(text) : text'[i] = text[i]
      /\ text'[Len(text) + 1] = c
  BY <1>1, TextGrows
<1>3. /\ c \notin Digit => Digits' = Digits
      /\ c \in Digit => /\ Digits' \in Seq(Digit) /\ Len(Digits') = Len(Digits) + 1
                        /\ Digits'[Len(Digits) + 1] = c
                        /\ \A i \in 1..Len(Digits) : Digits'[i] = Digits[i]
  BY <1>1, DigitsGrow
<1>4. CASE c \notin Digit /\ Reject
  <2>1. Len(Digits') # Len(text')
    BY <1>1, <1>2, <1>3, <1>4
  <2> QED
    BY <1>1, <1>4, <2>1, UuidExactNext DEF Reject
<1>5. CASE c \in Digit /\ Shift(c)
  <2>1. status' = "parsing" /\ current_val' = current_val * Base + c
    BY <1>1, <1>5 DEF Shift
  <2>2. Digits' = text'
    <3>1. PICK ds \in Seq(Digit) : ds = Digits'
      BY <1>3, <1>5
    <3>2. PICK n \in Nat : n = Len(text)
      BY <1>2
    <3>3. Len(ds) = n + 1 /\ \A i \in 1..(n + 1) : i = n + 1 \/ i \in 1..n
      BY <1>1, <1>3, <1>5, <3>1, <3>2
    <3>4. /\ ds[n + 1] = c /\ text'[n + 1] = c
          /\ \A i \in 1..n : ds[i] = text[i] /\ text'[i] = text[i]
      BY <1>1, <1>2, <1>3, <1>5, <3>1, <3>2
    <3>5. \A i \in 1..(n + 1) : ds[i] = text'[i]
      BY <3>3, <3>4
    <3>6. Len(text') = Len(ds) /\ ds \in Seq(Char)
      BY <1>2, <3>2, <3>3, SeqMonotonic DEF Char
    <3> QED
      BY <1>2, <3>1, <3>3, <3>5, <3>6, SeqEqual
  <2>3. current_val' = Number(text', Len(text'))
    <3>1. PICK n \in {0, 1, 2, 3} : n = Len(text)
      <4>1. PICK n \in Nat : n = Len(text) /\ n < 4
        BY <1>1, <1>2, Zenon
      <4>2. n \in {0, 1, 2, 3}
        BY <4>1
      <4> QED
        BY <4>1, <4>2, Zenon
    <3>2. PICK t : t = text'
      OBVIOUS
    <3>3. t[n + 1] = c /\ Len(t) = n + 1 /\ \A i \in 1..n : t[i] = text[i]
      BY <1>2, <3>1, <3>2
    <3>4. current_val' = Number(text, n) * Base + c
      BY <1>1, <2>1, <3>1
    <3>5. Number(text, n) * Base + c = Number(t, n + 1)
      <4>1. CASE n = 0
        BY <1>5, <3>3, <4>1, TypesAssumption DEF Number, Digit
      <4>2. CASE n = 1
        BY <3>3, <4>2 DEF Number
      <4>3. CASE n = 2
        BY <3>3, <4>3 DEF Number
      <4>4. CASE n = 3
        BY <3>3, <4>4 DEF Number
      <4> QED
        BY <4>1, <4>2, <4>3, <4>4
    <3> QED
      BY <3>2, <3>3, <3>4, <3>5
  <2> QED
    BY <1>1, <2>1, <2>2, <2>3, UuidExactNext
<1> QED
  BY <1>1, <1>4, <1>5 DEF ShortChar

(* Quotient and remainder.                                                 *)
LEMMA DivMod ==
  ASSUME NEW m \in Nat, m >= 1, NEW q \in Nat, NEW r \in 0..(m - 1)
  PROVE  (q * m + r) \div m = q /\ (q * m + r) % m = r
<1>1. PICK v \in Nat : v = q * m + r
  OBVIOUS
<1>2. PICK x \in Nat : x = v \div m
  BY <1>1
<1>3. PICK y \in 0..(m - 1) : y = v % m
  BY <1>1
<1>4. v = m * x + y
  BY <1>1, <1>2, <1>3
<1>5. x = q
  <2>1. CASE x < q
    <3>1. PICK k \in Nat : q = x + 1 + k
      BY <2>1
    <3>2. q * m = m * x + m + k * m /\ k * m \in Nat
      BY <3>1
    <3> QED
      BY <1>1, <1>4, <3>2
  <2>2. CASE x > q
    <3>1. PICK k \in Nat : x = q + 1 + k
      BY <2>2
    <3>2. m * x = q * m + m + k * m /\ k * m \in Nat
      BY <3>1
    <3> QED
      BY <1>1, <1>4, <3>2
  <2> QED
    BY <2>1, <2>2
<1>6. y = r
  BY <1>1, <1>4, <1>5
<1> QED
  BY <1>1, <1>2, <1>3, <1>5, <1>6

(* The Base UUID with these bytes for its third and fourth.                *)
InBaseUuid(h, l) ==
  [i \in 1..UuidLen |-> CASE i = 3 -> h [] i = 4 -> l [] OTHER -> BaseUuid[i]]

(* A short text ends: its number, taken apart, has the text's digits.      *)
LEMMA ShortEndExact ==
  ASSUME UuidInv, kind = "short", EndOfText
  PROVE  status' # "parsing" /\ UuidParseExact'
<1>1. /\ UNCHANGED <<kind, text>> /\ status = "parsing" /\ kind' = "short"
      /\ text \in Seq(Char) /\ Len(text) = 4 /\ Digits = text
      /\ status' = "ok" /\ parsed' = from_16bit(current_val) /\ current_val = Number(text, 4)
  BY UuidExactIs DEF EndOfText, ShortEnd, UuidInv, Inv, Types
<1>2. Digits' = Digits /\ Digits \in Seq(Digit)
  <2>1. Digits' = Digits
    BY <1>1 DEF Digits
  <2>2. PICK c \in Char : TRUE
    BY DEF Char
  <2> QED
    BY <1>1, <2>1, <2>2, DigitsMore DEF Digits
<1>3. PICK t1 \in Digit, t2 \in Digit, t3 \in Digit, t4 \in Digit :
        t1 = Digits[1] /\ t2 = Digits[2] /\ t3 = Digits[3] /\ t4 = Digits[4]
  <2>1. Len(Digits) = 4
    BY <1>1
  <2>2. 1 \in 1..Len(Digits) /\ 2 \in 1..Len(Digits) /\ 3 \in 1..Len(Digits) /\ 4 \in 1..Len(Digits)
    BY <2>1
  <2> QED
    BY <1>2, <2>2, ElementOfSeq
<1>4. PICK m \in Nat : m = Base * Base /\ m >= 1
  BY Powers
<1>5. \A a, b \in Digit : a * Base + b \in 0..(m - 1)
  <2> SUFFICES ASSUME NEW a \in Digit, NEW b \in Digit PROVE a * Base + b \in 0..(m - 1)
    OBVIOUS
  <2>1. a \in 0..(Base - 1) /\ Base \in Nat
    BY TypesAssumption DEF Digit
  <2> QED
    BY <1>4, <2>1, DigitMore
<1>6. PICK q \in 0..(m - 1) : q = t1 * Base + t2
  BY <1>5
<1>7. PICK r \in 0..(m - 1) : r = t3 * Base + t4
  BY <1>5
<1>8. current_val = q * m + r
  <2>1. current_val = ((t1 * Base + t2) * Base + t3) * Base + t4
    BY <1>1, <1>3 DEF Number
  <2>2. Base \in Nat /\ t3 \in Nat /\ t4 \in Nat /\ q \in Nat
    BY TypesAssumption DEF Digit
  <2>3. (q * Base + t3) * Base + t4 = q * (Base * Base) + (t3 * Base + t4)
    BY <2>2
  <2> QED
    BY <1>4, <1>6, <1>7, <2>1, <2>3
<1>9. (current_val \div m) % m = q /\ current_val % m = r
  <2>1. current_val \div m = q /\ current_val % m = r
    <3>1. (q * m + r) \div m = q /\ (q * m + r) % m = r
      <4>1. q \in Nat
        OBVIOUS
      <4> QED
        BY <1>4, <4>1, DivMod, Zenon
    <3> QED
      BY <1>8, <3>1, Zenon
  <2>2. q % m = q
    BY <1>4
  <2> QED
    BY <2>1, <2>2
<1>10. parsed' = [BaseUuid EXCEPT ![3] = Digits'[1] * Base + Digits'[2],
                                  ![4] = Digits'[3] * Base + Digits'[4]]
  <2>1. Digits'[1] * Base + Digits'[2] = q /\ Digits'[3] * Base + Digits'[4] = r
    BY <1>2, <1>3, <1>6, <1>7
  <2>2. BaseUuid \in [1..UuidLen -> 0..(Base * Base - 1)] /\ 3 # 4
    BY TypesAssumption
  <2>3. parsed' = InBaseUuid(q, r)
    <3>1. (current_val \div (Base * Base)) % (Base * Base) = q /\ current_val % (Base * Base) = r
      BY <1>4, <1>9, Zenon
    <3>2. from_16bit(current_val) = InBaseUuid((current_val \div (Base * Base)) % (Base * Base),
                                               current_val % (Base * Base))
      BY DEF from_16bit, InBaseUuid
    <3> QED
      BY <1>1, <3>1, <3>2, Zenon
  <2>4. [BaseUuid EXCEPT ![3] = q, ![4] = r] = InBaseUuid(q, r)
    BY <2>2 DEF InBaseUuid
  <2> QED
    BY <2>1, <2>3, <2>4
<1> QED
  BY <1>1, <1>2, <1>10, UuidExactNext

(* The invariant of both loops of Uuid::try_parse.                         *)
LEMMA UuidInitInv == Init => UuidInv
<1> SUFFICES ASSUME Init PROVE UuidInv
  OBVIOUS
<1>1. /\ Inv /\ text = << >> /\ parsed = << >> /\ digits = 0 /\ current_val = 0
      /\ status = "parsing" /\ UuidLen \in Nat
  BY InitInv, TypesAssumption DEF Init
<1>2. Digits = << >> /\ Len(Digits) = 0 /\ Len(text) = 0 /\ Len(parsed) = 0
  BY <1>1, DigitsNone, EmptySeq DEF Digits
<1>3. Digested
  BY <1>1, <1>2 DEF Digested
<1>4. current_val = Number(text, Len(text))
  BY <1>1, <1>2 DEF Number
<1>5. UuidParseExact
  <2>1. \A i \in 1..Len(text) : text[i] \in Digit \cup {Dash}
    BY <1>2
  <2>2. Len(DigitsOf(text)) <= 2 * UuidLen + 1 /\ DigitsOf(text) = text
    BY <1>1, <1>2 DEF Digits
  <2> QED
    BY <1>1, <2>1, <2>2 DEF UuidParseExact
<1> QED
  BY <1>1, <1>3, <1>4, <1>5 DEF UuidInv

(* Every step keeps it.                                                    *)
LEMMA UuidNextInv == UuidInv /\ [Next]_vars => UuidInv'
<1> SUFFICES ASSUME UuidInv, [Next]_vars PROVE UuidInv'
  OBVIOUS
<1>1. Inv' /\ Inv /\ kind \in {"address", "uuid", "short"}
  BY NextInv DEF UuidInv, Inv, Types
<1>2. ASSUME NEW c \in Char, ReadChar(c) PROVE UuidInv'
  <2>1. UNCHANGED kind
    BY <1>2 DEF ReadChar
  <2>2. CASE kind = "uuid"
    BY <1>1, <1>2, <2>1, <2>2, UuidCharExact DEF UuidInv
  <2>3. CASE kind = "short"
    BY <1>1, <1>2, <2>1, <2>3, ShortCharExact DEF UuidInv, Number
  <2>4. CASE kind = "address"
    BY <1>1, <2>1, <2>4, UuidExactNext DEF UuidInv
  <2> QED
    BY <1>1, <2>2, <2>3, <2>4
<1>3. CASE EndOfText
  <2>1. UNCHANGED kind
    BY <1>3 DEF EndOfText
  <2>2. CASE kind = "uuid"
    BY <1>1, <1>3, <2>1, <2>2, UuidEndExact DEF UuidInv
  <2>3. CASE kind = "short"
    BY <1>1, <1>3, <2>1, <2>3, ShortEndExact DEF UuidInv
  <2>4. CASE kind = "address"
    BY <1>1, <2>1, <2>4, UuidExactNext DEF UuidInv
  <2> QED
    BY <1>1, <2>2, <2>3, <2>4
<1>4. CASE UNCHANGED vars
  <2>1. UNCHANGED <<kind, text, parsed, current_val, digits, status>>
    BY <1>4 DEF vars
  <2>2. Digested' <=> Digested
    BY <2>1 DEF Digested, Digits
  <2>3. UuidParseExact' <=> UuidParseExact
    BY <2>1 DEF UuidParseExact
  <2>4. Number(text', Len(text')) = Number(text, Len(text))
    BY <2>1
  <2> QED
    BY <1>1, <2>1, <2>2, <2>3, <2>4 DEF UuidInv
<1> QED
  BY <1>2, <1>3, <1>4 DEF Next

(* The invariant of the loops, those of Uuid::try_parse included.          *)
THEOREM UuidInvariance == Spec => []UuidInv
BY UuidInitInv, UuidNextInv, PTL DEF Spec

(* Uuid::try_parse accepts exactly the texts with as many digits as a UUID *)
(* has and dashes anywhere, and gives their bytes; of length 4, exactly    *)
(* four digits, which become the third and fourth byte of the Base UUID.   *)
THEOREM UuidParsing == Spec => []UuidParseExact
<1>1. UuidInv => UuidParseExact
  BY DEF UuidInv
<1> QED
  BY <1>1, UuidInvariance, PTL

-----------------------------------------------------------------------------
(* Numbers and their bytes.                                                *)

(* The loop of to_uint64.                                                  *)
LEMMA BigEndianSteps ==
  ASSUME NEW b \in Seq(Byte)
  PROVE  \E f \in [0..Len(b) -> Nat] :
           /\ f[0] = 0 /\ BigEndian(b) = f[Len(b)]
           /\ \A i \in 1..Len(b) : f[i] = f[i - 1] * (Base * Base) + b[i]
<1>1. PICK n \in Nat : n = Len(b)
  BY LenProperties
<1>2. PICK step : step = [i \in 1..n |-> [x \in Nat |-> x * (Base * Base) + b[i]]]
  OBVIOUS
<1>3. Steps(Nat, n, step)
  <2>1. PICK m \in Nat : m = Base * Base
    BY Powers
  <2>2. \A i \in 1..n : b[i] \in Nat
    BY <1>1, <2>1, ElementOfSeq DEF Byte
  <2>3. \A i \in 1..n, x \in Nat : x * m + b[i] \in Nat
    BY <2>2
  <2> QED
    BY <1>2, <2>1, <2>3 DEF Steps
<1>4. PICK g : Solves(g, Nat, n, 0, step)
  <2>1. PICK z \in Nat : z = 0
    OBVIOUS
  <2>2. \E g : Solves(g, Nat, n, z, step)
    BY <1>3, Recursion, Zenon
  <2> QED
    BY <2>1, <2>2, Zenon
<1>5. /\ g \in [0..n -> Nat] /\ g[0] = 0
      /\ \A i \in 1..n : g[i] = g[i - 1] * (Base * Base) + b[i]
  <2>1. \A i \in 1..n : i - 1 \in 0..n
    OBVIOUS
  <2> QED
    BY <1>2, <1>4, <2>1, Zenon DEF Solves
<1>6. g = [i \in 0..n |-> IF i = 0 THEN 0 ELSE g[i - 1] * (Base * Base) + b[i]]
  <2>1. \A i \in 0..n : i = 0 \/ i \in 1..n
    OBVIOUS
  <2> QED
    BY <1>5, <2>1
<1>7. PICK c : c = CHOOSE f : f = [i \in 0..n |-> IF i = 0 THEN 0
                                                  ELSE f[i - 1] * (Base * Base) + b[i]]
  OBVIOUS
<1>8. c = [i \in 0..n |-> IF i = 0 THEN 0 ELSE c[i - 1] * (Base * Base) + b[i]]
  BY <1>6, <1>7, Zenon
<1>9. BigEndian(b) = c[n]
  BY <1>1, <1>7 DEF BigEndian
<1>10. \A i \in 0..n : c[i] = g[i]
  <2>1. c[0] = g[0]
    BY <1>5, <1>8
  <2>2. ASSUME NEW i \in 0..(n - 1), c[i] = g[i] PROVE c[i + 1] = g[i + 1]
    <3>1. PICK j \in 1..n : j = i + 1 /\ j - 1 = i /\ j # 0 /\ j \in 0..n
      OBVIOUS
    <3>2. c[j] = c[j - 1] * (Base * Base) + b[j]
      BY <1>8, <3>1, Zenon
    <3>3. c[j - 1] = g[j - 1]
      BY <2>2, <3>1, Zenon
    <3>4. c[j] = g[j]
      BY <1>5, <3>2, <3>3, Zenon
    <3> QED
      BY <3>1, <3>4
  <2>3. StepsAgree(c, g, n)
    BY <2>1, <2>2 DEF StepsAgree
  <2>4. Agree(c, g, n)
    BY <2>3, SameSteps
  <2> QED
    BY <2>4 DEF Agree
<1> QED
  BY <1>1, <1>5, <1>9, <1>10

(* The loop of from_uint64.                                                *)
LEMMA BytesSteps ==
  ASSUME NEW v \in Nat, NEW n \in Nat
  PROVE  \E f \in [0..n -> Nat] :
           /\ f[0] = v /\ \A i \in 1..n : f[i] = f[i - 1] \div (Base * Base)
           /\ \A i \in 1..n : BytesOf(v, n)[i] = f[n - i] % (Base * Base)
<1>2. PICK step : step = [i \in 1..n |-> [x \in Nat |-> x \div (Base * Base)]]
  OBVIOUS
<1>3. Steps(Nat, n, step)
  <2>1. PICK m \in Nat : m = Base * Base /\ m >= 1
    BY Powers
  <2>2. \A x \in Nat : x \div m \in Nat
    BY <2>1
  <2> QED
    BY <1>2, <2>1, <2>2 DEF Steps
<1>4. PICK g : Solves(g, Nat, n, v, step)
  BY <1>3, Recursion, Zenon
<1>5. /\ g \in [0..n -> Nat] /\ g[0] = v
      /\ \A i \in 1..n : g[i] = g[i - 1] \div (Base * Base)
  <2>1. \A i \in 1..n : i - 1 \in 0..n
    OBVIOUS
  <2> QED
    BY <1>2, <1>4, <2>1, Zenon DEF Solves
<1>6. g = [i \in 0..n |-> IF i = 0 THEN v ELSE g[i - 1] \div (Base * Base)]
  <2>1. \A i \in 0..n : i = 0 \/ i \in 1..n
    OBVIOUS
  <2> QED
    BY <1>5, <2>1
<1>7. PICK c : c = CHOOSE f : f = [i \in 0..n |-> IF i = 0 THEN v ELSE f[i - 1] \div (Base * Base)]
  OBVIOUS
<1>8. c = [i \in 0..n |-> IF i = 0 THEN v ELSE c[i - 1] \div (Base * Base)]
  BY <1>6, <1>7, Zenon
<1>9. \A i \in 1..n : BytesOf(v, n)[i] = c[n - i] % (Base * Base)
  BY <1>7 DEF BytesOf
<1>10. \A i \in 0..n : c[i] = g[i]
  <2>1. c[0] = g[0]
    BY <1>5, <1>8
  <2>2. ASSUME NEW i \in 0..(n - 1), c[i] = g[i] PROVE c[i + 1] = g[i + 1]
    <3>1. PICK j \in 1..n : j = i + 1 /\ j - 1 = i /\ j # 0 /\ j \in 0..n
      OBVIOUS
    <3>2. c[j] = c[j - 1] \div (Base * Base)
      BY <1>8, <3>1, Zenon
    <3>3. c[j - 1] = g[j - 1]
      BY <2>2, <3>1, Zenon
    <3>4. c[j] = g[j]
      BY <1>5, <3>2, <3>3, Zenon
    <3> QED
      BY <3>1, <3>4
  <2>3. StepsAgree(c, g, n)
    BY <2>1, <2>2 DEF StepsAgree
  <2>4. Agree(c, g, n)
    BY <2>3, SameSteps
  <2> QED
    BY <2>4 DEF Agree
<1>11. \A i \in 1..n : n - i \in 0..n
  OBVIOUS
<1> QED
  BY <1>5, <1>9, <1>10, <1>11, Zenon

(* The bytes of the number with these bytes.                               *)
LEMMA BytesOfNumber ==
  ASSUME NEW b \in Seq(Byte)
  PROVE  BigEndian(b) \in Nat /\ BytesOf(BigEndian(b), Len(b)) = b
<1>1. PICK n \in Nat : n = Len(b)
  BY LenProperties
<1>2. PICK m \in Nat : m = Base * Base /\ m >= 1
  BY Powers
<1>3. PICK f \in [0..n -> Nat] :
        /\ f[0] = 0 /\ BigEndian(b) = f[n]
        /\ \A i \in 1..n : f[i] = f[i - 1] * m + b[i]
  BY <1>1, <1>2, BigEndianSteps
<1>4. PICK v \in Nat : v = BigEndian(b) /\ v = f[n]
  BY <1>3
<1>5. PICK h \in [0..n -> Nat] :
        /\ h[0] = v /\ \A i \in 1..n : h[i] = h[i - 1] \div m
        /\ \A i \in 1..n : BytesOf(v, n)[i] = h[n - i] % m
  <2>1. \E h \in [0..n -> Nat] :
          /\ h[0] = v /\ \A i \in 1..n : h[i] = h[i - 1] \div (Base * Base)
          /\ \A i \in 1..n : BytesOf(v, n)[i] = h[n - i] % (Base * Base)
    BY BytesSteps, Zenon
  <2> QED
    BY <1>2, <2>1, Zenon
<1>6. \A i \in 1..n : b[i] \in 0..(m - 1)
  BY <1>1, <1>2, ElementOfSeq DEF Byte
<1>7. ASSUME NEW i \in 1..n PROVE f[i] \div m = f[i - 1] /\ f[i] % m = b[i]
  <2>1. PICK q \in Nat : q = f[i - 1]
    BY <1>3
  <2>2. PICK r \in 0..(m - 1) : r = b[i]
    BY <1>6
  <2>3. f[i] = q * m + r
    BY <1>3, <2>1, <2>2, Zenon
  <2>4. (q * m + r) \div m = q /\ (q * m + r) % m = r
    BY <1>2, DivMod, Zenon
  <2> QED
    BY <2>1, <2>2, <2>3, <2>4, Zenon
<1>8. \A k \in 0..n : h[k] = f[n - k]
  <2>1. PICK T : T = {k \in 0..n : h[k] = f[n - k]}
    OBVIOUS
  <2>2. 0 \in T
    <3>1. n - 0 = n /\ 0 \in 0..n
      OBVIOUS
    <3> QED
      BY <1>4, <1>5, <2>1, <3>1
  <2>3. ASSUME NEW k \in 0..(n - 1), k \in T PROVE k + 1 \in T
    <3>1. PICK j \in 1..n : j = n - k
      OBVIOUS
    <3>2. PICK l \in 1..n : l = k + 1
      OBVIOUS
    <3>3. l - 1 = k /\ n - l = j - 1 /\ l \in 0..n
      BY <3>1, <3>2
    <3>4. h[l] = h[k] \div m
      BY <1>5, <3>3, Zenon
    <3>5. h[k] = f[j]
      BY <2>1, <2>3, <3>1
    <3>6. f[j] \div m = f[j - 1]
      BY <1>7
    <3>7. h[l] = f[n - l]
      BY <3>3, <3>4, <3>5, <3>6, Zenon
    <3> QED
      BY <2>1, <3>2, <3>3, <3>7
  <2>4. \A k \in 0..n : k \in T
    BY <2>2, <2>3, SetInduction
  <2> QED
    BY <2>1, <2>4
<1>9. ASSUME NEW i \in 1..n PROVE BytesOf(v, n)[i] = b[i]
  <2>1. n - i \in 0..n /\ n - (n - i) = i
    OBVIOUS
  <2>2. h[n - i] = f[i]
    BY <1>8, <2>1
  <2> QED
    BY <1>5, <1>7, <2>2
<1>10. BytesOf(v, n) = [i \in 1..n |-> BytesOf(v, n)[i]]
  BY DEF BytesOf
<1>11. b = [i \in 1..n |-> b[i]]
  BY <1>1, LenProperties
<1>12. BytesOf(v, n) = b
  BY <1>9, <1>10, <1>11
<1> QED
  BY <1>1, <1>4, <1>12

(* The sum of the weighted bytes.                                          *)
LEMMA LittleEndianSteps ==
  ASSUME NEW n \in Nat, NEW b \in Seq(Byte), Len(b) = n
  PROVE  \E w \in [0..n -> Nat], f \in [0..n -> Nat] :
           /\ w[0] = 1 /\ \A i \in 1..n : w[i] = w[i - 1] * (Base * Base)
           /\ f[0] = 0 /\ \A i \in 1..n : f[i] = f[i - 1] + b[i] * w[i - 1]
           /\ LittleEndian(b) = f[n]
<1>1. n = Len(b)
  OBVIOUS
<1>2. PICK m \in Nat : m = Base * Base
  BY Powers
<1>3. \A i \in 1..n : i - 1 \in 0..n
  OBVIOUS
<1>4. \A i \in 0..n : i = 0 \/ i \in 1..n
  OBVIOUS
<1>5. PICK w : /\ w = Weights(n)
               /\ w = CHOOSE f : f = [i \in 0..n |-> IF i = 0 THEN 1 ELSE f[i - 1] * (Base * Base)]
  BY DEF Weights
<1>6. /\ w \in [0..n -> Nat] /\ w[0] = 1
      /\ \A i \in 1..n : w[i] = w[i - 1] * (Base * Base)
  <2>1. PICK step : step = [i \in 1..n |-> [x \in Nat |-> x * (Base * Base)]]
    OBVIOUS
  <2>2. Steps(Nat, n, step)
    <3>1. \A x \in Nat : x * m \in Nat
      OBVIOUS
    <3> QED
      BY <1>2, <2>1, <3>1 DEF Steps
  <2>3. PICK g : Solves(g, Nat, n, 1, step)
    <3>1. PICK z \in Nat : z = 1
      OBVIOUS
    <3>2. \E g : Solves(g, Nat, n, z, step)
      BY <2>2, Recursion, Zenon
    <3> QED
      BY <3>1, <3>2, Zenon
  <2>4. g \in [0..n -> Nat] /\ g[0] = 1 /\ \A i \in 1..n : g[i] = g[i - 1] * (Base * Base)
    BY <1>3, <2>1, <2>3, Zenon DEF Solves
  <2>5. g = [i \in 0..n |-> IF i = 0 THEN 1 ELSE g[i - 1] * (Base * Base)]
    BY <1>4, <2>4
  <2>6. w = [i \in 0..n |-> IF i = 0 THEN 1 ELSE w[i - 1] * (Base * Base)]
    BY <1>5, <2>5, Zenon
  <2>7. w[0] = 1
    BY <2>6
  <2>8. \A i \in 1..n : w[i] = w[i - 1] * (Base * Base)
    <3>1. \A i \in 1..n : i \in 0..n /\ i # 0
      OBVIOUS
    <3> QED
      BY <2>6, <3>1, Zenon
  <2>9. \A i \in 0..n : w[i] = g[i]
    <3>1. ASSUME NEW i \in 0..(n - 1), w[i] = g[i] PROVE w[i + 1] = g[i + 1]
      <4>1. PICK j \in 1..n : j = i + 1 /\ j - 1 = i
        OBVIOUS
      <4>2. w[j] = w[i] * (Base * Base) /\ g[j] = g[i] * (Base * Base)
        BY <2>4, <2>8, <4>1, Zenon
      <4> QED
        BY <3>1, <4>1, <4>2
    <3>2. w[0] = g[0]
      BY <2>4, <2>7
    <3>3. StepsAgree(w, g, n)
      BY <3>1, <3>2 DEF StepsAgree
    <3>4. Agree(w, g, n)
      BY <3>3, SameSteps
    <3> QED
      BY <3>4 DEF Agree
  <2>10. w \in [0..n -> Nat]
    BY <2>4, <2>6, <2>9
  <2> QED
    BY <2>7, <2>8, <2>10
<1>7. PICK c : c = CHOOSE f : f = [i \in 0..n |-> IF i = 0 THEN 0
                                                  ELSE f[i - 1] + b[i] * Weights(n)[i - 1]]
  OBVIOUS
<1>8. LittleEndian(b) = c[n]
  BY <1>1, <1>7 DEF LittleEndian
<1>9. /\ c \in [0..n -> Nat] /\ c[0] = 0
      /\ \A i \in 1..n : c[i] = c[i - 1] + b[i] * w[i - 1]
  <2>1. PICK step : step = [i \in 1..n |-> [x \in Nat |-> x + b[i] * w[i - 1]]]
    OBVIOUS
  <2>2. Steps(Nat, n, step)
    <3>1. \A i \in 1..n : b[i] \in Nat
      BY <1>1, <1>2, ElementOfSeq DEF Byte
    <3>2. ASSUME NEW i \in 1..n, NEW x \in Nat PROVE x + b[i] * w[i - 1] \in Nat
      <4>1. w[i - 1] \in Nat /\ b[i] \in Nat
        BY <1>3, <1>6, <3>1
      <4> QED
        BY <4>1
    <3> QED
      BY <2>1, <3>2 DEF Steps
  <2>3. PICK g : Solves(g, Nat, n, 0, step)
    <3>1. PICK z \in Nat : z = 0
      OBVIOUS
    <3>2. \E g : Solves(g, Nat, n, z, step)
      BY <2>2, Recursion, Zenon
    <3> QED
      BY <3>1, <3>2, Zenon
  <2>4. g \in [0..n -> Nat] /\ g[0] = 0 /\ \A i \in 1..n : g[i] = g[i - 1] + b[i] * w[i - 1]
    BY <1>3, <2>1, <2>3, Zenon DEF Solves
  <2>5. g = [i \in 0..n |-> IF i = 0 THEN 0 ELSE g[i - 1] + b[i] * Weights(n)[i - 1]]
    <3>1. g = [i \in 0..n |-> IF i = 0 THEN 0 ELSE g[i - 1] + b[i] * w[i - 1]]
      BY <1>4, <2>4
    <3> QED
      BY <1>5, <3>1
  <2>6. c = [i \in 0..n |-> IF i = 0 THEN 0 ELSE c[i - 1] + b[i] * Weights(n)[i - 1]]
    BY <1>7, <2>5, Zenon
  <2>7. c[0] = 0
    BY <2>6
  <2>8. \A i \in 1..n : c[i] = c[i - 1] + b[i] * w[i - 1]
    <3>1. \A i \in 1..n : i \in 0..n /\ i # 0
      OBVIOUS
    <3>2. \A i \in 1..n : c[i] = c[i - 1] + b[i] * Weights(n)[i - 1]
      BY <2>6, <3>1, Zenon
    <3> QED
      BY <1>5, <3>2, Zenon
  <2>9. \A i \in 0..n : c[i] = g[i]
    <3>1. ASSUME NEW i \in 0..(n - 1), c[i] = g[i] PROVE c[i + 1] = g[i + 1]
      <4>1. PICK j \in 1..n : j = i + 1 /\ j - 1 = i
        OBVIOUS
      <4>2. c[j] = c[i] + b[j] * w[i] /\ g[j] = g[i] + b[j] * w[i]
        BY <2>4, <2>8, <4>1, Zenon
      <4>3. c[j] = g[j]
        BY <3>1, <4>2, Zenon
      <4> QED
        BY <4>1, <4>3, Zenon
    <3>2. c[0] = g[0]
      BY <2>4, <2>7
    <3>3. StepsAgree(c, g, n)
      BY <3>1, <3>2 DEF StepsAgree
    <3>4. Agree(c, g, n)
      BY <3>3, SameSteps
    <3> QED
      BY <3>4 DEF Agree
  <2>10. c \in [0..n -> Nat]
    BY <2>4, <2>6, <2>9
  <2> QED
    BY <2>7, <2>8, <2>10
<1> QED
  BY <1>1, <1>6, <1>8, <1>9, Zenon

(* Bytes in reverse are the same number, read from the other end.          *)
LEMMA Endianness ==
  ASSUME NEW n \in Nat, NEW a \in Seq(Byte), NEW b \in Seq(Byte), Len(a) = n, Len(b) = n,
         \A i \in 1..n : b[i] = a[n + 1 - i]
  PROVE  LittleEndian(b) = BigEndian(a)
<1>1. PICK m \in Nat : m = Base * Base
  BY Powers
<1>2. PICK f \in [0..n -> Nat] :
        /\ f[0] = 0 /\ BigEndian(a) = f[n]
        /\ \A i \in 1..n : f[i] = f[i - 1] * m + a[i]
  <2>1. \E f \in [0..Len(a) -> Nat] :
          /\ f[0] = 0 /\ BigEndian(a) = f[Len(a)]
          /\ \A i \in 1..Len(a) : f[i] = f[i - 1] * (Base * Base) + a[i]
    BY BigEndianSteps, Zenon
  <2> QED
    BY <1>1, <2>1, Zenon
<1>3. PICK w \in [0..n -> Nat], g \in [0..n -> Nat] :
        /\ w[0] = 1 /\ \A i \in 1..n : w[i] = w[i - 1] * m
        /\ g[0] = 0 /\ \A i \in 1..n : g[i] = g[i - 1] + b[i] * w[i - 1]
        /\ LittleEndian(b) = g[n]
  <2>1. \E w \in [0..n -> Nat], g \in [0..n -> Nat] :
          /\ w[0] = 1 /\ \A i \in 1..n : w[i] = w[i - 1] * (Base * Base)
          /\ g[0] = 0 /\ \A i \in 1..n : g[i] = g[i - 1] + b[i] * w[i - 1]
          /\ LittleEndian(b) = g[n]
    BY LittleEndianSteps, Zenon
  <2> QED
    BY <1>1, <2>1, Zenon
<1>4. \A i \in 1..n : a[i] \in Nat
  <2>1. \A i \in 1..n : a[i] \in Byte
    BY ElementOfSeq, Zenon
  <2>2. Byte \subseteq Nat
    BY <1>1 DEF Byte
  <2> QED
    BY <2>1, <2>2
<1>5. \A k \in 0..n : f[n] = f[n - k] * w[k] + g[k]
  <2>1. PICK T : T = {k \in 0..n : f[n] = f[n - k] * w[k] + g[k]}
    OBVIOUS
  <2>2. 0 \in T
    <3>1. PICK y \in Nat : y = f[n]
      BY <1>2
    <3>2. n - 0 = n /\ 0 \in 0..n /\ y = y * 1 + 0
      OBVIOUS
    <3> QED
      BY <1>3, <2>1, <3>1, <3>2
  <2>3. ASSUME NEW k \in 0..(n - 1), k \in T PROVE k + 1 \in T
    <3>1. PICK j \in 1..n : j = n - k
      OBVIOUS
    <3>2. PICK l \in 1..n : l = k + 1
      OBVIOUS
    <3>3. l - 1 = k /\ n - l = j - 1 /\ l \in 0..n /\ n + 1 - l = j /\ k \in 0..n /\ j - 1 \in 0..n
      BY <3>1, <3>2
    <3>4. PICK x \in Nat : x = f[j - 1]
      BY <1>2, <3>3
    <3>5. PICK z \in Nat : z = a[j] /\ z = b[l]
      BY <1>4, <3>3
    <3>6. PICK u \in Nat : u = w[k]
      BY <1>3, <3>3
    <3>7. PICK s \in Nat : s = g[k]
      BY <1>3, <3>3
    <3>8. f[j] = x * m + z
      BY <1>2, <3>4, <3>5, Zenon
    <3>9. w[l] = u * m /\ g[l] = s + z * u
      BY <1>3, <3>3, <3>5, <3>6, <3>7, Zenon
    <3>10. f[n] = f[j] * u + s
      BY <2>1, <2>3, <3>1, <3>6, <3>7
    <3>11. (x * m + z) * u + s = x * (u * m) + (s + z * u)
      OBVIOUS
    <3>12. f[n] = f[n - l] * w[l] + g[l]
      BY <3>3, <3>4, <3>8, <3>9, <3>10, <3>11, Zenon
    <3> QED
      BY <2>1, <3>2, <3>3, <3>12, Zenon
  <2>4. \A k \in 0..n : k \in T
    BY <2>2, <2>3, SetInduction
  <2> QED
    BY <2>1, <2>4
<1>6. PICK u \in Nat, s \in Nat : u = w[n] /\ s = g[n]
  BY <1>3
<1>7. f[n] = f[n - n] * u + s
  <2>1. n \in 0..n
    OBVIOUS
  <2> QED
    BY <1>5, <1>6, <2>1, Zenon
<1>8. n - n = 0 /\ 0 * u + s = s
  OBVIOUS
<1> QED
  BY <1>2, <1>3, <1>6, <1>7, <1>8, Zenon

-----------------------------------------------------------------------------
(* Bytes as text.                                                          *)

(* The two digits of a byte.                                               *)
LEMMA TwoDigits ==
  /\ \A v \in Byte : v \div Base \in Digit /\ v % Base \in Digit
  /\ \A c, d \in Digit : (c * Base + d) \div Base = c /\ (c * Base + d) % Base = d
<1>1. Base \in Nat /\ Base >= 1
  BY TypesAssumption
<1>2. ASSUME NEW v \in Byte PROVE v \div Base \in Digit /\ v % Base \in Digit
  <2>1. v \in Nat /\ v < Base * Base
    BY Powers DEF Byte
  <2>2. PICK q \in Nat : q = v \div Base
    BY <1>1, <2>1
  <2>3. PICK r \in 0..(Base - 1) : r = v % Base
    BY <1>1, <2>1
  <2>4. v = Base * q + r
    BY <1>1, <2>1, <2>2, <2>3
  <2>5. q < Base
    <3> SUFFICES ASSUME q >= Base PROVE FALSE
      BY <1>1
    <3>1. PICK k \in Nat : q = Base + k
      BY <1>1
    <3>2. Base * q = Base * Base + Base * k /\ Base * k \in Nat /\ Base * Base \in Nat
      BY <1>1, <3>1
    <3> QED
      BY <2>1, <2>4, <3>2
  <2> QED
    BY <1>1, <2>2, <2>3, <2>5 DEF Digit
<1>3. ASSUME NEW c \in Digit, NEW d \in Digit
      PROVE  (c * Base + d) \div Base = c /\ (c * Base + d) % Base = d
  <2>1. c \in Nat /\ d \in 0..(Base - 1)
    BY <1>1 DEF Digit
  <2> QED
    BY <1>1, <2>1, DivMod, Zenon
<1> QED
  BY <1>2, <1>3

(* to_string writes byte i.                                                *)
NextByte(x, separator, before, i, v) ==
  x \o (IF i \in before THEN <<separator>> ELSE << >>) \o <<v \div Base, v % Base>>

WithSeparator(x, separator, before, i) == IF i \in before THEN Append(x, separator) ELSE x

LEMMA NextByteIs ==
  ASSUME NEW x \in Seq(Char), NEW separator \in Char, NEW before, NEW i, NEW v \in Byte
  PROVE  /\ NextByte(x, separator, before, i, v) \in Seq(Char)
         /\ NextByte(x, separator, before, i, v) =
              Append(Append(WithSeparator(x, separator, before, i), v \div Base), v % Base)
<1>1. PICK d \in Char, e \in Char : d = v \div Base /\ e = v % Base
  BY TwoDigits DEF Char
<1>2. PICK y \in Seq(Char) : y = x \o (IF i \in before THEN <<separator>> ELSE << >>)
  <2>1. (IF i \in before THEN <<separator>> ELSE << >>) \in Seq(Char)
    OBVIOUS
  <2> QED
    BY <2>1, ConcatProperties
<1>3. y = WithSeparator(x, separator, before, i)
  <2>1. x \o <<separator>> = Append(x, separator)
    BY AppendIsConcat
  <2>2. x \o << >> = x
    BY ConcatEmptySeq
  <2> QED
    BY <1>2, <2>1, <2>2 DEF WithSeparator
<1>4. y \o <<d, e>> = Append(Append(y, d), e)
  <2>1. <<d, e>> = <<d>> \o <<e>> /\ <<d>> \in Seq(Char) /\ <<e>> \in Seq(Char)
    <3>1. <<d>> \in Seq(Char) /\ <<e>> \in Seq(Char) /\ <<d, e>> \in Seq(Char)
      OBVIOUS
    <3>2. PICK u \in Seq(Char) : u = <<d>> /\ Len(u) = 1 /\ u[1] = d
      BY <3>1
    <3>3. PICK z \in Seq(Char) : z = <<d, e>> /\ Len(z) = 2 /\ z[1] = d /\ z[2] = e
      BY <3>1
    <3>4. PICK a \in Seq(Char) : a = Append(u, e) /\ Len(a) = 2 /\ a[1] = d /\ a[2] = e
      <4>1. Append(u, e) \in Seq(Char) /\ Len(Append(u, e)) = Len(u) + 1
            /\ Append(u, e)[Len(u) + 1] = e /\ \A j \in 1..Len(u) : Append(u, e)[j] = u[j]
        BY AppendProperties
      <4>2. Len(u) + 1 = 2 /\ 1 \in 1..Len(u)
        BY <3>2
      <4>3. Append(u, e)[2] = e /\ Append(u, e)[1] = d /\ Len(Append(u, e)) = 2
        BY <3>2, <4>1, <4>2, Zenon
      <4> QED
        BY <4>1, <4>3, Zenon
    <3>5. \A j \in 1..2 : a[j] = z[j]
      <4>1. \A j \in 1..2 : j = 1 \/ j = 2
        OBVIOUS
      <4> QED
        BY <3>3, <3>4, <4>1
    <3>6. a = z
      BY <3>3, <3>4, <3>5, SeqEqual
    <3>7. Append(u, e) = u \o <<e>>
      BY AppendIsConcat
    <3> QED
      BY <3>1, <3>2, <3>3, <3>4, <3>6, <3>7
  <2>2. y \o (<<d>> \o <<e>>) = (y \o <<d>>) \o <<e>>
    BY <2>1, ConcatAssociative
  <2>3. y \o <<d>> = Append(y, d) /\ Append(y, d) \in Seq(Char)
    BY AppendIsConcat, AppendProperties
  <2>4. Append(y, d) \o <<e>> = Append(Append(y, d), e)
    BY <2>3, AppendIsConcat
  <2> QED
    BY <2>1, <2>2, <2>3, <2>4
<1>5. NextByte(x, separator, before, i, v) = y \o <<d, e>>
  BY <1>1, <1>2, Zenon DEF NextByte
<1>6. Append(Append(y, d), e) \in Seq(Char)
  BY AppendProperties
<1> QED
  BY <1>1, <1>3, <1>4, <1>5, <1>6, Zenon

(* The loop of to_string.                                                  *)
Writes(f, n, b, separator, before) ==
  /\ f \in [0..n -> Seq(Char)] /\ f[0] = << >>
  /\ ToString(b, separator, before) = f[n]
  /\ \A i \in 1..n : f[i] = NextByte(f[i - 1], separator, before, i, b[i])

LEMMA ToStringSteps ==
  ASSUME NEW n \in Nat, NEW b \in Seq(Byte), Len(b) = n, NEW separator \in Char, NEW before
  PROVE  \E f : Writes(f, n, b, separator, before)
<1>1. n = Len(b)
  OBVIOUS
<1>2. PICK step : step = [i \in 1..n |-> [x \in Seq(Char) |->
                            NextByte(x, separator, before, i, b[i])]]
  OBVIOUS
<1>3. Steps(Seq(Char), n, step)
  <2>1. \A i \in 1..n : b[i] \in Byte
    BY ElementOfSeq, Zenon
  <2>2. \A i \in 1..n, x \in Seq(Char) : NextByte(x, separator, before, i, b[i]) \in Seq(Char)
    BY <2>1, NextByteIs
  <2> QED
    BY <1>2, <2>2 DEF Steps
<1>4. PICK g : Solves(g, Seq(Char), n, << >>, step)
  <2>1. PICK e \in Seq(Char) : e = << >>
    BY EmptySeq
  <2>2. \E g : Solves(g, Seq(Char), n, e, step)
    BY <1>3, Recursion, Zenon
  <2> QED
    BY <2>1, <2>2, Zenon
<1>5. /\ g \in [0..n -> Seq(Char)] /\ g[0] = << >>
      /\ \A i \in 1..n : g[i] = NextByte(g[i - 1], separator, before, i, b[i])
  <2>1. \A i \in 1..n : i - 1 \in 0..n
    OBVIOUS
  <2> QED
    BY <1>2, <1>4, <2>1, Zenon DEF Solves
<1>6. g = [i \in 0..n |-> IF i = 0 THEN << >>
                          ELSE NextByte(g[i - 1], separator, before, i, b[i])]
  <2>1. \A i \in 0..n : i = 0 \/ i \in 1..n
    OBVIOUS
  <2> QED
    BY <1>5, <2>1
<1>7. PICK c : c = CHOOSE f : f = [i \in 0..n |-> IF i = 0 THEN << >>
                          ELSE NextByte(f[i - 1], separator, before, i, b[i])]
  OBVIOUS
<1>8. c = [i \in 0..n |-> IF i = 0 THEN << >>
                          ELSE NextByte(c[i - 1], separator, before, i, b[i])]
  BY <1>6, <1>7, Zenon
<1>9. ToString(b, separator, before) = c[n]
  BY <1>1, <1>7 DEF ToString, NextByte
<1>10. \A i \in 0..n : c[i] = g[i]
  <2>1. c[0] = g[0]
    BY <1>5, <1>8
  <2>2. ASSUME NEW i \in 0..(n - 1), c[i] = g[i] PROVE c[i + 1] = g[i + 1]
    <3>1. PICK j \in 1..n : j = i + 1 /\ j - 1 = i /\ j # 0 /\ j \in 0..n
      OBVIOUS
    <3>2. c[j] = NextByte(c[j - 1], separator, before, j, b[j])
      BY <1>8, <3>1, Zenon
    <3>3. c[j - 1] = g[j - 1]
      BY <2>2, <3>1, Zenon
    <3>4. c[j] = g[j]
      BY <1>5, <3>2, <3>3, Zenon
    <3> QED
      BY <3>1, <3>4
  <2>3. StepsAgree(c, g, n)
    BY <2>1, <2>2 DEF StepsAgree
  <2>4. Agree(c, g, n)
    BY <2>3, SameSteps
  <2> QED
    BY <2>4 DEF Agree
<1> QED
  <2>1. n \in 0..n
    OBVIOUS
  <2> QED
    BY <1>5, <1>9, <1>10, <2>1, Zenon DEF Writes

(* Two characters more.                                                    *)
LEMMA TwoMore ==
  ASSUME NEW S, NEW s \in Seq(S), NEW d \in S, NEW e \in S, NEW n \in Nat, Len(s) = n
  PROVE  LET t == Append(Append(s, d), e)
         IN  /\ t \in Seq(S) /\ Len(t) = n + 2 /\ t[n + 1] = d /\ t[n + 2] = e
             /\ \A i \in 1..n : t[i] = s[i]
<1>1. PICK u : u = Append(s, d)
  OBVIOUS
<1>2. u \in Seq(S) /\ Len(u) = n + 1 /\ u[n + 1] = d /\ \A i \in 1..n : u[i] = s[i]
  BY <1>1, AppendProperties
<1>3. PICK t : t = Append(u, e)
  OBVIOUS
<1>4. t \in Seq(S) /\ Len(t) = Len(u) + 1 /\ t[Len(u) + 1] = e /\ \A i \in 1..Len(u) : t[i] = u[i]
  BY <1>2, <1>3, AppendProperties
<1>5. Len(u) + 1 = n + 2 /\ n + 1 \in 1..Len(u) /\ \A i \in 1..n : i \in 1..Len(u)
  BY <1>2
<1>6. t[n + 1] = d /\ t[n + 2] = e /\ Len(t) = n + 2 /\ \A i \in 1..n : t[i] = s[i]
  BY <1>2, <1>4, <1>5, Zenon
<1> QED
  BY <1>1, <1>3, <1>4, <1>6

(* s shows the first k bytes of a, with colons between them.               *)
Colons(s, a, k) ==
  /\ Len(s) = 3 * k - 1
  /\ \A i \in 1..k : /\ s[3 * i - 2] = a[i] \div Base /\ s[3 * i - 1] = a[i] % Base
                     /\ i < k => s[3 * i] = Colon

(* Address::to_string shows all of them.                                   *)
LEMMA AddressText ==
  ASSUME NEW a \in Seq(Byte), Len(a) = AddrLen
  PROVE  Colons(AddressToString(a), a, AddrLen)
<1>1. PICK n \in Nat : n = AddrLen /\ n >= 1
  BY TypesAssumption
<1>2. \A v \in Byte : v \div Base \in Char /\ v % Base \in Char
  BY TwoDigits DEF Char
<1>3. PICK before : before = 2..n
  OBVIOUS
<1>3a. PICK col \in Char : col = Colon
  BY DEF Char
<1>4. PICK f \in [0..n -> Seq(Char)] :
        /\ f[0] = << >> /\ ToString(a, col, before) = f[n]
        /\ \A i \in 1..n : f[i] = NextByte(f[i - 1], col, before, i, a[i])
  <2>1. \E f : Writes(f, n, a, col, before)
    BY <1>1, ToStringSteps
  <2> QED
    BY <2>1, Zenon DEF Writes
<1>5. AddressToString(a) = f[n]
  BY <1>1, <1>3, <1>3a, <1>4, Zenon DEF AddressToString
<1>6. \A i \in 1..n : a[i] \in Byte
  BY <1>1, ElementOfSeq, Zenon
<1>7. PICK T : T = {k \in 0..n : k >= 1 => Colons(f[k], a, k)}
  OBVIOUS
<1>8. 0 \in T
  BY <1>7
<1>9. ASSUME NEW k \in 0..(n - 1), k \in T PROVE k + 1 \in T
  <2>1. PICK j \in 1..n : j = k + 1 /\ j - 1 = k /\ k \in 0..n
    OBVIOUS
  <2>2. PICK d \in Char, e \in Char : d = a[j] \div Base /\ e = a[j] % Base
    BY <1>2, <1>6
  <2>3. PICK x \in Seq(Char) : x = f[k]
    BY <1>4, <2>1
  <2>4. f[j] = Append(Append(WithSeparator(x, col, before, j), d), e)
    <3>1. f[j] = NextByte(x, col, before, j, a[j])
      BY <1>4, <2>1, <2>3, Zenon
    <3>2. PICK v \in Byte : v = a[j]
      BY <1>6
    <3>3. NextByte(x, col, before, j, v)
            = Append(Append(WithSeparator(x, col, before, j), v \div Base), v % Base)
      BY NextByteIs
    <3> QED
      BY <2>2, <3>1, <3>2, <3>3, Zenon
  <2>5. CASE k = 0
    <3>1. j = 1 /\ j \notin before /\ Len(x) = 0
      BY <1>3, <1>4, <2>1, <2>3, <2>5, EmptySeq
    <3>2. PICK t : t = Append(Append(x, d), e)
      OBVIOUS
    <3>3. f[j] = t
      BY <2>4, <3>1, <3>2 DEF WithSeparator
    <3>4. Len(t) = 0 + 2 /\ t[0 + 1] = d /\ t[0 + 2] = e
      <4>1. PICK z \in Nat : z = 0
        OBVIOUS
      <4>2. Len(t) = z + 2 /\ t[z + 1] = d /\ t[z + 2] = e
        BY <3>1, <3>2, <4>1, TwoMore
      <4> QED
        BY <4>1, <4>2
    <3>5. Len(t) = 3 * 1 - 1 /\ t[3 * 1 - 2] = d /\ t[3 * 1 - 1] = e
      BY <3>4
    <3>6. Colons(t, a, 1)
      <4>1. \A i \in 1..1 : i = 1 /\ ~(i < 1)
        OBVIOUS
      <4> QED
        BY <2>2, <3>1, <3>5, <4>1 DEF Colons
    <3> QED
      BY <1>7, <2>1, <3>1, <3>3, <3>6
  <2>6. CASE k >= 1
    <3>1. j \in before
      BY <1>3, <2>1, <2>6
    <3>2. Colons(x, a, k)
      BY <1>7, <1>9, <2>3, <2>6
    <3>3. PICK y \in Seq(Char) : y = Append(x, col)
      BY AppendProperties
    <3>4. PICK l \in Nat : l = 3 * k - 1 /\ l = Len(x)
      BY <2>6, <3>2 DEF Colons
    <3>5. Len(y) = l + 1 /\ y[l + 1] = Colon /\ \A i \in 1..l : y[i] = x[i]
      <4>1. /\ Len(Append(x, col)) = Len(x) + 1 /\ Append(x, col)[Len(x) + 1] = col
            /\ \A i \in 1..Len(x) : Append(x, col)[i] = x[i]
        BY AppendProperties
      <4> QED
        BY <1>3a, <3>3, <3>4, <4>1, Zenon
    <3>6. PICK t : t = Append(Append(y, d), e)
      OBVIOUS
    <3>7. f[j] = t
      BY <2>4, <3>1, <3>3, <3>6 DEF WithSeparator
    <3>8. PICK p \in Nat : p = 3 * k /\ p = l + 1
      BY <3>4
    <3>9. Len(t) = p + 2 /\ t[p + 1] = d /\ t[p + 2] = e /\ \A i \in 1..p : t[i] = y[i]
      <4>1. Len(y) = p
        BY <3>5, <3>8
      <4> QED
        BY <3>6, <4>1, TwoMore
    <3>10. /\ p + 2 = 3 * j - 1 /\ p + 1 = 3 * j - 2 /\ p \in 1..p /\ \A i \in 1..l : i \in 1..p
           /\ \A i \in 1..j : i = j \/ i = k \/ (i \in 1..k /\ i < k)
           /\ \A i \in 1..k : /\ 3 * i - 2 \in 1..l /\ 3 * i - 1 \in 1..l
                              /\ i < k => 3 * i \in 1..l
      BY <2>1, <2>6, <3>4, <3>8
    <3>11. \A i \in 1..l : t[i] = x[i]
      BY <3>5, <3>9, <3>10, Zenon
    <3>12. t[p] = Colon
      BY <3>5, <3>8, <3>9, <3>10
    <3>13. ASSUME NEW i \in 1..k
           PROVE  /\ t[3 * i - 2] = a[i] \div Base /\ t[3 * i - 1] = a[i] % Base
                  /\ i < k => t[3 * i] = Colon
      <4>1. /\ x[3 * i - 2] = a[i] \div Base /\ x[3 * i - 1] = a[i] % Base
            /\ i < k => x[3 * i] = Colon
        BY <3>2 DEF Colons
      <4> QED
        BY <3>10, <3>11, <4>1, Zenon
    <3>14. ASSUME NEW i \in 1..j
           PROVE  /\ t[3 * i - 2] = a[i] \div Base /\ t[3 * i - 1] = a[i] % Base
                  /\ i < j => t[3 * i] = Colon
      <4>1. CASE i = j
        BY <2>2, <3>9, <3>10, <4>1
      <4>2. CASE i = k
        <5>1. i \in 1..k /\ 3 * i = p
          BY <2>6, <3>8, <4>2
        <5> QED
          BY <3>12, <3>13, <5>1
      <4>3. CASE i \in 1..k /\ i < k
        BY <3>13, <4>3
      <4> QED
        BY <3>10, <4>1, <4>2, <4>3
    <3>15. Colons(t, a, j)
      BY <3>9, <3>10, <3>14 DEF Colons
    <3> QED
      BY <1>7, <2>1, <3>7, <3>15
  <2> QED
    BY <2>5, <2>6
<1>10. n \in T
  <2>1. \A i \in 0..n : i \in T
    BY <1>8, <1>9, SetInduction
  <2> QED
    BY <2>1
<1> QED
  BY <1>1, <1>5, <1>7, <1>10

(* s holds the digits of the first k bytes of u.                           *)
Pairs(s, u, k) ==
  /\ s \in Seq(Digit) /\ Len(s) = 2 * k
  /\ \A i \in 1..k : s[2 * i - 1] = u[i] \div Base /\ s[2 * i] = u[i] % Base

(* The digits that to_string writes for a byte; dashes are none.           *)
LEMMA DigitsWritten ==
  ASSUME NEW x \in Seq(Char), NEW before, NEW i, NEW v \in Byte
  PROVE  DigitsOf(NextByte(x, Dash, before, i, v))
           = Append(Append(DigitsOf(x), v \div Base), v % Base)
<1>1. PICK d \in Digit, e \in Digit : d = v \div Base /\ e = v % Base
  BY TwoDigits
<1>2. d \in Char /\ e \in Char
  BY DEF Char
<1>3. PICK dash \in Char : dash = Dash /\ dash \notin Digit
  BY TypesAssumption DEF Char, Dash, Digit
<1>4. PICK y \in Seq(Char) : y = WithSeparator(x, dash, before, i)
  BY AppendProperties DEF WithSeparator
<1>5. DigitsOf(y) = DigitsOf(x)
  <2>1. DigitsOf(Append(x, dash)) = DigitsOf(x)
    BY <1>3, DigitsMore
  <2> QED
    BY <1>4, <2>1 DEF WithSeparator
<1>6. NextByte(x, dash, before, i, v) = Append(Append(y, d), e)
  <2>1. NextByte(x, dash, before, i, v)
          = Append(Append(WithSeparator(x, dash, before, i), v \div Base), v % Base)
    BY NextByteIs
  <2> QED
    BY <1>1, <1>4, <2>1, Zenon
<1>7. PICK z \in Seq(Char) : z = Append(y, d)
  BY <1>2, AppendProperties
<1>8. DigitsOf(z) = Append(DigitsOf(y), d)
  BY <1>2, <1>7, DigitsMore
<1>9. DigitsOf(Append(z, e)) = Append(DigitsOf(z), e)
  BY <1>2, DigitsMore
<1> QED
  BY <1>1, <1>3, <1>5, <1>6, <1>7, <1>8, <1>9, Zenon

(* Uuid::to_string shows the digits of all bytes, in their order.          *)
LEMMA UuidText ==
  ASSUME NEW u \in Seq(Byte), Len(u) = UuidLen
  PROVE  Pairs(DigitsOf(UuidToString(u)), u, UuidLen)
<1>1. PICK n \in Nat : n = UuidLen
  BY TypesAssumption
<1>2. PICK before : before = {5, 7, 9, 11}
  OBVIOUS
<1>3. PICK dash \in Char : dash = Dash
  BY DEF Char
<1>4. PICK f \in [0..n -> Seq(Char)] :
        /\ f[0] = << >> /\ ToString(u, dash, before) = f[n]
        /\ \A i \in 1..n : f[i] = NextByte(f[i - 1], dash, before, i, u[i])
  <2>1. \E f : Writes(f, n, u, dash, before)
    BY <1>1, ToStringSteps
  <2> QED
    BY <2>1, Zenon DEF Writes
<1>5. UuidToString(u) = f[n]
  BY <1>2, <1>3, <1>4, Zenon DEF UuidToString
<1>6. \A i \in 1..n : u[i] \in Byte
  BY <1>1, ElementOfSeq, Zenon
<1>7. PICK T : T = {k \in 0..n : Pairs(DigitsOf(f[k]), u, k)}
  OBVIOUS
<1>8. 0 \in T
  <2>1. PICK s : s = DigitsOf(f[0])
    OBVIOUS
  <2>2. s = << >> /\ s \in Seq(Digit) /\ Len(s) = 0
    BY <1>4, <2>1, DigitsNone, EmptySeq
  <2>3. Pairs(s, u, 0)
    BY <2>2 DEF Pairs
  <2> QED
    BY <1>7, <2>1, <2>3
<1>9. ASSUME NEW k \in 0..(n - 1), k \in T PROVE k + 1 \in T
  <2>1. PICK j \in 1..n : j = k + 1 /\ j - 1 = k /\ k \in 0..n /\ j \in 0..n
    OBVIOUS
  <2>2. PICK d \in Digit, e \in Digit : d = u[j] \div Base /\ e = u[j] % Base
    BY <1>6, TwoDigits
  <2>3. PICK x \in Seq(Char) : x = f[k]
    BY <1>4, <2>1
  <2>4. PICK s \in Seq(Digit) : s = DigitsOf(x) /\ Pairs(s, u, k)
    BY <1>7, <1>9, <2>3 DEF Pairs
  <2>5. DigitsOf(f[j]) = Append(Append(s, d), e)
    <3>1. f[j] = NextByte(x, Dash, before, j, u[j])
      BY <1>3, <1>4, <2>1, <2>3, Zenon
    <3>2. PICK v \in Byte : v = u[j]
      BY <1>6
    <3>3. DigitsOf(NextByte(x, Dash, before, j, v))
            = Append(Append(DigitsOf(x), v \div Base), v % Base)
      BY DigitsWritten
    <3> QED
      BY <2>2, <2>4, <3>1, <3>2, <3>3, Zenon
  <2>6. PICK t : t = Append(Append(s, d), e)
    OBVIOUS
  <2>7. PICK p \in Nat : p = 2 * k /\ p = Len(s)
    BY <2>4 DEF Pairs
  <2>8. t \in Seq(Digit) /\ Len(t) = p + 2 /\ t[p + 1] = d /\ t[p + 2] = e
        /\ \A i \in 1..p : t[i] = s[i]
    BY <2>6, <2>7, TwoMore
  <2>9. /\ p + 2 = 2 * j /\ p + 1 = 2 * j - 1 /\ \A i \in 1..j : i = j \/ i \in 1..k
        /\ \A i \in 1..k : 2 * i - 1 \in 1..p /\ 2 * i \in 1..p
    BY <2>1, <2>7
  <2>10. ASSUME NEW i \in 1..j PROVE t[2 * i - 1] = u[i] \div Base /\ t[2 * i] = u[i] % Base
    <3>1. CASE i = j
      BY <2>2, <2>8, <2>9, <3>1
    <3>2. CASE i \in 1..k
      <4>1. s[2 * i - 1] = u[i] \div Base /\ s[2 * i] = u[i] % Base
        BY <2>4, <3>2 DEF Pairs
      <4> QED
        BY <2>8, <2>9, <3>2, <4>1, Zenon
    <3> QED
      BY <2>9, <3>1, <3>2
  <2>11. Pairs(t, u, j)
    BY <2>8, <2>9, <2>10 DEF Pairs
  <2> QED
    BY <1>7, <2>1, <2>5, <2>6, <2>11
<1>10. n \in T
  <2>1. \A i \in 0..n : i \in T
    BY <1>8, <1>9, SetInduction
  <2> QED
    BY <2>1
<1> QED
  BY <1>1, <1>5, <1>7, <1>10

-----------------------------------------------------------------------------
(* The native forms.                                                       *)

(* A sequence cut in two.                                                  *)
LEMMA Cut ==
  ASSUME NEW u \in Seq(Byte), NEW n \in Nat, Len(u) = n, NEW k \in 0..n, NEW q \in k..n
  PROVE  /\ SubSeq(u, 1, k) \o SubSeq(u, k + 1, q) = SubSeq(u, 1, q)
         /\ SubSeq(u, k + 1, q) \in Seq(Byte) /\ Len(SubSeq(u, k + 1, q)) = q - k
<1>1. PICK m \in Int : m = k + 1
  OBVIOUS
<1>2. PICK p \in 1..(Len(u) + 1) : p = 1
  OBVIOUS
<1>3. k \in (p - 1)..Len(u) /\ q \in k..Len(u)
  BY <1>2
<1>4. SubSeq(u, p, k) \o SubSeq(u, k + 1, q) = SubSeq(u, p, q)
  BY <1>3, ConcatAdjacentSubSeq, Zenon
<1>5. \A i \in m..q : u[i] \in Byte
  <2>1. \A i \in m..q : i \in 1..Len(u)
    BY <1>1
  <2> QED
    BY <2>1, ElementOfSeq, Zenon
<1>6. q \in Int
  OBVIOUS
<1>7. PICK s : s = SubSeq(u, m, q)
  OBVIOUS
<1>8. s \in Seq(Byte) /\ Len(s) = IF m <= q THEN q - m + 1 ELSE 0
  BY <1>5, <1>6, <1>7, SubSeqProperties
<1>9. (IF m <= q THEN q - m + 1 ELSE 0) = q - k
  BY <1>1
<1>10. s \in Seq(Byte) /\ Len(s) = q - k
  BY <1>8, <1>9
<1> QED
  BY <1>1, <1>2, <1>4, <1>7, <1>10, Zenon

(* A GUID taken apart and put together again.                              *)
LEMMA GuidBack ==
  ASSUME NEW u \in Seq(Byte), Len(u) = UuidLen
  PROVE  guid_to_uuid(uuid_to_guid(u)) = u
<1>1. PICK n \in Nat : n = UuidLen
  BY TypesAssumption
<1>2. PICK g1 \in 1..n, g2 \in 1..n, g3 \in 1..n :
        /\ g1 = GuidSplit[1] /\ g2 = GuidSplit[2] /\ g3 = GuidSplit[3] /\ g1 < g2 /\ g2 < g3
  BY <1>1, TypesAssumption
<1>3. PICK u1, u2, u3, u4 :
        /\ u1 = SubSeq(u, 1, g1) /\ u2 = SubSeq(u, g1 + 1, g2)
        /\ u3 = SubSeq(u, g2 + 1, g3) /\ u4 = SubSeq(u, g3 + 1, n)
  OBVIOUS
<1>4. u1 \in Seq(Byte) /\ Len(u1) = g1
  <2>1. PICK z \in 0..n : z = 0
    OBVIOUS
  <2>2. g1 \in z..n /\ z + 1 = 1 /\ g1 - z = g1
    BY <2>1
  <2>3. SubSeq(u, z + 1, g1) \in Seq(Byte) /\ Len(SubSeq(u, z + 1, g1)) = g1 - z
    BY <1>1, <2>2, Cut, Zenon
  <2> QED
    BY <1>3, <2>2, <2>3, Zenon
<1>5. /\ g1 \in 0..n /\ g2 \in 0..n /\ g3 \in 0..n /\ g2 \in g1..n /\ g3 \in g2..n /\ n \in g3..n
  BY <1>2
<1>6. u1 \o u2 = SubSeq(u, 1, g2) /\ u2 \in Seq(Byte) /\ Len(u2) = g2 - g1
  <2>1. Len(u) = n /\ g1 \in 0..n /\ g2 \in g1..n
    BY <1>1, <1>5
  <2>2. SubSeq(u, 1, g1) \o SubSeq(u, g1 + 1, g2) = SubSeq(u, 1, g2)
    BY <2>1, Cut, Zenon
  <2>3. SubSeq(u, g1 + 1, g2) \in Seq(Byte)
    BY <2>1, Cut, Zenon
  <2>4. Len(SubSeq(u, g1 + 1, g2)) = g2 - g1
    BY <2>1, Cut, Zenon
  <2> QED
    BY <1>3, <2>2, <2>3, <2>4, Zenon
<1>7. SubSeq(u, 1, g2) \o u3 = SubSeq(u, 1, g3) /\ u3 \in Seq(Byte) /\ Len(u3) = g3 - g2
  <2>1. Len(u) = n /\ g2 \in 0..n /\ g3 \in g2..n
    BY <1>1, <1>5
  <2>2. SubSeq(u, 1, g2) \o SubSeq(u, g2 + 1, g3) = SubSeq(u, 1, g3)
    BY <2>1, Cut, Zenon
  <2>3. SubSeq(u, g2 + 1, g3) \in Seq(Byte)
    BY <2>1, Cut, Zenon
  <2>4. Len(SubSeq(u, g2 + 1, g3)) = g3 - g2
    BY <2>1, Cut, Zenon
  <2> QED
    BY <1>3, <2>2, <2>3, <2>4, Zenon
<1>8. SubSeq(u, 1, g3) \o u4 = SubSeq(u, 1, n)
  BY <1>1, <1>3, <1>5, Cut, Zenon
<1>9. /\ BytesOf(BigEndian(u1), g1) = u1 /\ BytesOf(BigEndian(u2), g2 - g1) = u2
      /\ BytesOf(BigEndian(u3), g3 - g2) = u3
  BY <1>4, <1>6, <1>7, BytesOfNumber, Zenon
<1>10. guid_to_uuid(uuid_to_guid(u)) = u1 \o u2 \o u3 \o u4
  <2>1. PICK g : g = uuid_to_guid(u)
    OBVIOUS
  <2>2. /\ g.Data1 = BigEndian(u1) /\ g.Data2 = BigEndian(u2) /\ g.Data3 = BigEndian(u3)
        /\ g.Data4 = u4
    BY <1>1, <1>2, <1>3, <2>1 DEF uuid_to_guid
  <2>3. guid_to_uuid(g) = BytesOf(g.Data1, g1) \o BytesOf(g.Data2, g2 - g1)
                            \o BytesOf(g.Data3, g3 - g2) \o g.Data4
    BY <1>2, Zenon DEF guid_to_uuid
  <2> QED
    BY <1>9, <2>1, <2>2, <2>3, Zenon
<1>11. SubSeq(u, 1, n) = u
  BY <1>1, SubSeqFull, Zenon
<1> QED
  BY <1>6, <1>7, <1>8, <1>10, <1>11, Zenon

(* An address as a number and as a bdaddr_t, and back; and the number is   *)
(* the one that the bdaddr_t, least significant byte first, stands for.    *)
LEMMA AddressForms ==
  ASSUME NEW a \in Seq(Byte), Len(a) = AddrLen
  PROVE  /\ from_uint64(to_uint64(a)) = a
         /\ bdaddr_to_address(address_to_bdaddr(a)) = a
         /\ LittleEndian(address_to_bdaddr(a)) = to_uint64(a)
<1>1. PICK n \in Nat : n = AddrLen
  BY TypesAssumption
<1>2. from_uint64(to_uint64(a)) = a
  BY BytesOfNumber, Zenon DEF from_uint64, to_uint64
<1>3. PICK b : b = [i \in 1..n |-> a[n + 1 - i]]
  OBVIOUS
<1>4. address_to_bdaddr(a) = b
  BY <1>1, <1>3, Zenon DEF address_to_bdaddr
<1>5. \A i \in 1..n : n + 1 - i \in 1..n /\ n + 1 - (n + 1 - i) = i
  OBVIOUS
<1>6. \A i \in 1..n : a[i] \in Byte
  BY <1>1, ElementOfSeq, Zenon
<1>7. b \in [1..n -> Byte] /\ \A i \in 1..n : b[i] = a[n + 1 - i]
  BY <1>3, <1>5, <1>6
<1>8. b \in Seq(Byte) /\ Len(b) = n
  BY <1>7, FunIsSeq
<1>9. LittleEndian(address_to_bdaddr(a)) = to_uint64(a)
  BY <1>1, <1>4, <1>7, <1>8, Endianness, Zenon DEF to_uint64
<1>10. PICK c : c = [i \in 1..n |-> b[n + 1 - i]]
  OBVIOUS
<1>11. bdaddr_to_address(b) = c
  BY <1>1, <1>10, Zenon DEF bdaddr_to_address
<1>12. \A i \in 1..n : c[i] = a[i]
  BY <1>5, <1>7, <1>10
<1>13. c \in [1..n -> Byte]
  BY <1>5, <1>7, <1>10
<1>14. c \in Seq(Byte) /\ Len(c) = n
  BY <1>13, FunIsSeq
<1>15. c = a
  BY <1>1, <1>12, <1>14, SeqEqual, Zenon
<1> QED
  BY <1>2, <1>4, <1>9, <1>11, <1>15

(* Address::to_string shows the text that was parsed, with colons.         *)
LEMMA AddressShown ==
  ASSUME Inv, kind = "address", status = "ok", NEW j \in 1..Len(text)
  PROVE  AddressToString(parsed)[j] = IF j % 3 = 0 THEN Colon ELSE text[j]
<1>1. PICK n \in Nat : n = AddrLen /\ n >= 1
  BY TypesAssumption
<1>2. /\ Fits /\ Len(text) = 3 * n - 1
      /\ parsed = [i \in 1..n |-> text[3 * i - 2] * Base + text[3 * i - 1]]
  BY <1>1, ExactIs DEF Inv
<1>3. parsed \in Seq(Byte) /\ Len(parsed) = n
  <2>1. parsed \in Seq(Byte) /\ DOMAIN parsed = 1..n
    BY <1>2 DEF Inv, Types
  <2> QED
    BY <2>1, LenProperties
<1>4. PICK s : s = AddressToString(parsed)
  OBVIOUS
<1>5. \A i \in 1..n : /\ s[3 * i - 2] = parsed[i] \div Base /\ s[3 * i - 1] = parsed[i] % Base
                      /\ i < n => s[3 * i] = Colon
  BY <1>1, <1>3, <1>4, AddressText DEF Colons
<1>6. ASSUME NEW i \in 1..n
      PROVE  s[3 * i - 2] = text[3 * i - 2] /\ s[3 * i - 1] = text[3 * i - 1]
  <2>1. /\ 3 * i - 2 \in 1..Len(text) /\ (3 * i - 2) % 3 # 0
        /\ 3 * i - 1 \in 1..Len(text) /\ (3 * i - 1) % 3 # 0
    BY <1>2
  <2>2. PICK d \in Digit, e \in Digit : d = text[3 * i - 2] /\ e = text[3 * i - 1]
    BY <1>2, <2>1 DEF Fits, AddressPattern
  <2>3. parsed[i] = d * Base + e
    BY <1>2, <2>2
  <2>4. (d * Base + e) \div Base = d /\ (d * Base + e) % Base = e
    BY TwoDigits
  <2> QED
    BY <1>5, <2>2, <2>3, <2>4, Zenon
<1>7. \/ \E i \in 1..n : j = 3 * i - 2 /\ j % 3 # 0
      \/ \E i \in 1..n : j = 3 * i - 1 /\ j % 3 # 0
      \/ \E i \in 1..n : j = 3 * i /\ i < n /\ j % 3 = 0
  <2>1. j \in Nat /\ 1 <= j /\ j <= 3 * n - 1
    BY <1>2
  <2>2. PICK q \in Nat, r \in 0..2 : j = 3 * q + r /\ j % 3 = r
    BY <2>1
  <2>3. CASE r = 0
    BY <2>1, <2>2, <2>3
  <2>4. CASE r = 1
    <3>1. q + 1 \in 1..n /\ j = 3 * (q + 1) - 2
      BY <2>1, <2>2, <2>4
    <3> QED
      BY <2>2, <2>4, <3>1
  <2>5. CASE r = 2
    <3>1. q + 1 \in 1..n /\ j = 3 * (q + 1) - 1
      BY <2>1, <2>2, <2>5
    <3> QED
      BY <2>2, <2>5, <3>1
  <2> QED
    BY <2>3, <2>4, <2>5
<1>8. s[j] = IF j % 3 = 0 THEN Colon ELSE text[j]
  <2>1. CASE \E i \in 1..n : j = 3 * i - 2 /\ j % 3 # 0
    BY <1>6, <2>1
  <2>2. CASE \E i \in 1..n : j = 3 * i - 1 /\ j % 3 # 0
    BY <1>6, <2>2
  <2>3. CASE \E i \in 1..n : j = 3 * i /\ i < n /\ j % 3 = 0
    BY <1>5, <2>3
  <2> QED
    BY <1>7, <2>1, <2>2, <2>3
<1> QED
  BY <1>4, <1>8

(* A Uuid that was accepted has all its bytes.                             *)
LEMMA UuidComplete ==
  ASSUME UuidInv, kind \in {"uuid", "short"}, status = "ok"
  PROVE  parsed \in Seq(Byte) /\ Len(parsed) = UuidLen
<1>1. PICK n \in Nat : n = UuidLen
  BY TypesAssumption
<1>2. parsed \in Seq(Byte) /\ UuidParseExact
  BY DEF UuidInv, Inv, Types
<1>3. DOMAIN parsed = 1..n
  <2>1. CASE kind = "uuid"
    BY <1>1, <1>2, <2>1, UuidExactIs
  <2>2. CASE kind = "short"
    <3>1. \E b, c : parsed = [BaseUuid EXCEPT ![3] = b, ![4] = c]
      BY <1>2, <2>2 DEF UuidParseExact
    <3>2. DOMAIN BaseUuid = 1..n
      BY <1>1, TypesAssumption
    <3> QED
      BY <3>1, <3>2
  <2> QED
    BY <2>1, <2>2
<1> QED
  BY <1>1, <1>2, <1>3, LenProperties

(* Half a number, and what is left.                                        *)
LEMMA Parity == \A j \in Nat : \E q \in Nat, r \in 0..1 : j = 2 * q + r
<1> SUFFICES ASSUME NEW j \in Nat PROVE \E q \in Nat, r \in 0..1 : j = 2 * q + r
  OBVIOUS
<1>1. PICK q \in Int, r \in Int : q = j \div 2 /\ r = j % 2
  OBVIOUS
<1>2. r \in 0..1 /\ q \in Nat /\ j = 2 * q + r
  BY <1>1
<1> QED
  BY <1>2

(* Uuid::to_string shows the digits that were parsed.                      *)
LEMMA UuidShown ==
  ASSUME UuidInv, kind = "uuid", status = "ok"
  PROVE  DigitsOf(UuidToString(parsed)) = Digits
<1>1. PICK n \in Nat : n = UuidLen
  BY TypesAssumption
<1>2. PICK s : s = DigitsOf(UuidToString(parsed))
  OBVIOUS
<1>3. /\ s \in Seq(Digit) /\ Len(s) = 2 * n
      /\ \A i \in 1..n : s[2 * i - 1] = parsed[i] \div Base /\ s[2 * i] = parsed[i] % Base
  BY <1>1, <1>2, UuidComplete, UuidText DEF Pairs
<1>4. /\ Len(Digits) = 2 * n
      /\ parsed = [i \in 1..n |-> Digits[2 * i - 1] * Base + Digits[2 * i]]
  BY <1>1, UuidExactIs DEF UuidInv
<1>5. PICK ds \in Seq(Digit) : ds = Digits
  <2>1. PICK c \in Char : TRUE
    BY DEF Char
  <2>2. text \in Seq(Char)
    BY DEF UuidInv, Inv, Types
  <2> QED
    BY <2>1, <2>2, DigitsMore DEF Digits
<1>6. ASSUME NEW i \in 1..n PROVE s[2 * i - 1] = ds[2 * i - 1] /\ s[2 * i] = ds[2 * i]
  <2>1. 2 * i - 1 \in 1..Len(ds) /\ 2 * i \in 1..Len(ds)
    BY <1>4, <1>5
  <2>2. PICK d \in Digit, e \in Digit : d = ds[2 * i - 1] /\ e = ds[2 * i]
    BY <2>1, ElementOfSeq
  <2>3. parsed[i] = d * Base + e
    BY <1>4, <1>5, <2>2
  <2>4. (d * Base + e) \div Base = d /\ (d * Base + e) % Base = e
    BY TwoDigits
  <2> QED
    BY <1>3, <2>2, <2>3, <2>4, Zenon
<1>7. ASSUME NEW j \in 1..Len(s) PROVE s[j] = ds[j]
  <2>1. j \in Nat /\ 1 <= j /\ j <= 2 * n
    BY <1>3
  <2>2. PICK q \in Nat, r \in 0..1 : j = 2 * q + r
    BY <2>1, Parity
  <2>3. CASE r = 0
    <3>1. q \in 1..n /\ j = 2 * q
      BY <2>1, <2>2, <2>3
    <3> QED
      BY <1>6, <3>1
  <2>4. CASE r = 1
    <3>1. PICK i \in 1..n : i = q + 1 /\ j = 2 * i - 1
      BY <2>1, <2>2, <2>4
    <3> QED
      BY <1>6, <3>1
  <2> QED
    BY <2>3, <2>4
<1>8. s = ds
  BY <1>3, <1>4, <1>5, <1>7, SeqEqual
<1> QED
  BY <1>2, <1>5, <1>8

-----------------------------------------------------------------------------
(* What is parsed, and its text, survive every conversion and back: an     *)
(* address as the number of Windows and the bdaddr_t of Linux, which agree *)
(* on it, and as a text; a Uuid as a GUID and as a text.                   *)
THEOREM Conversions == Spec => []ConversionsAgree
<1>1. UuidInv => ConversionsAgree
  <2> SUFFICES ASSUME UuidInv PROVE ConversionsAgree
    OBVIOUS
  <2>1. ASSUME kind = "address", status = "ok"
        PROVE  /\ from_uint64(to_uint64(parsed)) = parsed
               /\ bdaddr_to_address(address_to_bdaddr(parsed)) = parsed
               /\ LittleEndian(address_to_bdaddr(parsed)) = to_uint64(parsed)
               /\ \A i \in 1..Len(text) :
                    AddressToString(parsed)[i] = IF i % 3 = 0 THEN Colon ELSE text[i]
    <3>1. Inv /\ parsed \in Seq(Byte) /\ AddressParseExact
      BY DEF UuidInv, Inv, Types
    <3>2. Len(parsed) = AddrLen
      <4>1. PICK n \in Nat : n = AddrLen
        BY TypesAssumption
      <4>2. DOMAIN parsed = 1..n
        BY <2>1, <3>1, <4>1, ExactIs
      <4> QED
        BY <3>1, <4>1, <4>2, LenProperties
    <3>3. /\ from_uint64(to_uint64(parsed)) = parsed
          /\ bdaddr_to_address(address_to_bdaddr(parsed)) = parsed
          /\ LittleEndian(address_to_bdaddr(parsed)) = to_uint64(parsed)
      BY <3>1, <3>2, AddressForms, Zenon
    <3>4. \A i \in 1..Len(text) :
            AddressToString(parsed)[i] = IF i % 3 = 0 THEN Colon ELSE text[i]
      BY <2>1, <3>1, AddressShown
    <3> QED
      BY <3>3, <3>4
  <2>2. ASSUME kind \in {"uuid", "short"}, status = "ok"
        PROVE  guid_to_uuid(uuid_to_guid(parsed)) = parsed
    BY <2>2, UuidComplete, GuidBack
  <2>3. ASSUME kind = "uuid", status = "ok"
        PROVE  DigitsOf(UuidToString(parsed)) = DigitsOf(text)
    BY <2>3, UuidShown DEF Digits
  <2> QED
    BY <2>1, <2>2, <2>3, Zenon DEF ConversionsAgree
<1> QED
  BY <1>1, UuidInvariance, PTL
=============================================================================
