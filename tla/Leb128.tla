------------------------------- MODULE Leb128 --------------------------------
(***************************************************************************)
(* The LEB128 decoders, one byte per turn of their loops: "c" is the       *)
(* extension of the Python frontend (src/frontend/leb128/leb128.c), "qi"   *)
(* and "x3" are the parsers of the two C++ frontends                       *)
(* (frontend2/leb128_*_parser.h and frontend2/binparse/leb128_parsers.h).  *)
(* A byte has Group bits of the number and a top bit that says another     *)
(* byte follows.  The bytes are drawn one at a time, and the buffer may    *)
(* end before any of them.  The wrapper in C then builds a tuple of two    *)
(* Python integers, each of which may fail for want of memory.             *)
(***************************************************************************)
EXTENDS Powers, Sequences

CONSTANTS
  Group,    (* bits of a byte below the top one: 7                          *)
  DestBits, (* bits of uint_least64_t and uintmax_t: 64                     *)
  Widths,   (* the widths asked of the C parsers                            *)
  Types,    (* the x3 parsers: bits of the type, and bits asked for         *)
  MaxBytes  (* bound: bytes of a buffer                                     *)

ASSUME SizesAssumption ==
  /\ Group \in Nat \ {0}
  /\ DestBits \in Nat \ {0}
  /\ DestBits % (Group + 1) = 0
  /\ DestBits % Group # 0  (* 64 is no multiple of 7 *)
  /\ Widths \subseteq Nat
  /\ Types \subseteq [dest : 1 .. DestBits, bits : Nat]
  /\ MaxBytes \in Nat

VARIABLES
  parser, signed, (* which of the parsers runs                              *)
  little_endian,  (* the machine's byte order                               *)
  dest, width,    (* bits of the result's type; the argument or BitCount    *)
  read,           (* history: the bytes from begin to pos                   *)
  consumed,       (* how far the caller's iterator has moved                *)
  value, shift,   (* the locals of the loop                                 *)
  status,         (* the phase, or how the call ended                       *)
  result,         (* what *dest was set to                                  *)
  live            (* references the wrapper holds                           *)

request == <<parser, signed, little_endian, dest, width>>
vars == <<request, read, consumed, value, shift, status, result, live>>

Modulus == Pow2[dest]
Byte == 0 .. Pow2[Group + 1] - 1
Low(b) == b % Pow2[Group]
Continues(b) == b >= Pow2[Group]
SignBit(b) == Low(b) >= Pow2[Group - 1]

Errors == {"bigwidth", "badwidth", "smallbuffer", "nomemory"}

(* What may be asked of each parser; the bits a qi parser decodes are the  *)
(* type's.                                                                 *)
Asked ==
  \/ parser = "c" /\ dest = DestBits /\ width \in Widths
  \/ parser = "qi" /\ dest = DestBits /\ width = DestBits
  \/ parser = "x3" /\ [dest |-> dest, bits |-> width] \in Types

Init ==
  /\ parser \in {"c", "qi", "x3"}
  /\ signed \in BOOLEAN
  /\ little_endian \in BOOLEAN
  /\ dest \in {DestBits} \cup {t.dest : t \in Types}
  /\ width \in Widths \cup {DestBits} \cup {t.bits : t \in Types}
  /\ Asked
  /\ read = << >>
  /\ consumed = 0
  /\ value = 0
  /\ shift = 0
  /\ status = IF width <= dest THEN "reading" ELSE "bigwidth"
  /\ result = 0
  /\ live = {}

------------------------------------------------------------------------------
(* The loop.                                                               *)

(* Variant: the width is compared a group too late. *)
ExhaustedLate == shift > width + Group

(* Variant: a last group that only fits in part is refused. *)
ExhaustedEarly == shift + Group > width

(* The signed C parser lets one more byte in when shift = width. *)
WidthExhausted ==
  IF parser = "c" /\ signed THEN shift > width ELSE shift >= width

(* Where the C parser meets the end of a buffer that had a first byte; the *)
(* unsigned C++ parsers return false.                                      *)
BufferEnds ==
  /\ status = "reading"
  /\ IF parser = "c" THEN read # << >> ELSE ~signed
  /\ status' = "smallbuffer"
  /\ UNCHANGED <<request, read, consumed, value, shift, result, live>>

(* The signed C++ parsers do not look for the end and read past it.  What  *)
(* follows is not the program's any more.                                  *)
BufferOverrun ==
  /\ status = "reading"
  /\ parser # "c" /\ signed
  /\ ~WidthExhausted
  /\ status' = "overrun"
  /\ UNCHANGED <<request, read, consumed, value, shift, result, live>>

TooWide ==
  /\ status = "reading"
  /\ WidthExhausted
  /\ status' = "badwidth"
  /\ UNCHANGED <<request, read, consumed, value, shift, result, live>>

(* Bits shifted out of the destination are lost.  The x3 parsers work on a *)
(* copy of the caller's iterator, the qi parsers on the iterator itself.   *)
ReadByte(b) ==
  /\ status = "reading"
  /\ ~WidthExhausted
  /\ Len(read) < MaxBytes
  /\ read' = Append(read, b)
  /\ value' = (value + Low(b) * Pow2[shift]) % Modulus
  /\ shift' = IF signed \/ Continues(b) THEN shift + Group ELSE shift
  /\ status' = IF Continues(b) THEN "reading" ELSE "read"
  /\ consumed' = IF parser = "qi" THEN consumed + 1 ELSE consumed
  /\ UNCHANGED <<request, result, live>>

------------------------------------------------------------------------------
(* After the loop.                                                         *)

LastByte == read[Len(read)]

(* Variant: the sign is looked for in the top bit. *)
TopBit(b) == Continues(b)

NegativeByte(b) == SignBit(b)

(* Where the sign ends: the C parser extends it to the whole type, the C++ *)
(* parsers only if the bits asked for are not all read.                    *)
SignLimit == IF parser = "c" THEN dest ELSE width

SignExtended ==
  IF signed /\ shift < SignLimit /\ NegativeByte(LastByte)
  THEN value + (Modulus - Pow2[shift])
  ELSE value

(* Variant: the test sees the byte order. *)
SystemIsLittleEndian == little_endian

(* 0x01020304 is stored in eight bytes, so the first is 4 or 0, never 1.   *)
sys_is_little_endian == (IF little_endian THEN 4 ELSE 0) = 1

ByteSwap(v) ==
  LET n == dest \div (Group + 1)
      Place(i) == Pow2[(Group + 1) * i]
      At(i) == (v \div Place(i)) % Place(1)
      Sum[i \in 0 .. n] == IF i = 0 THEN 0 ELSE Sum[i - 1] + At(i - 1) * Place(n - i)
  IN  Sum[n]

ToType(v) == IF signed /\ v >= Modulus \div 2 THEN v - Modulus ELSE v

Finish ==
  /\ status = "read"
  /\ result' = ToType(IF parser = "c" /\ sys_is_little_endian THEN ByteSwap(SignExtended)
                        ELSE SignExtended)
  /\ status' = IF parser = "c" THEN "parsed" ELSE "ok"
  /\ consumed' = Len(read)
  /\ UNCHANGED <<request, read, value, shift, live>>

(* The wrapper: PyTuple_New, then the value, then the count. *)
Objects == << "result", "int_value", "int_count" >>

NextObject == Objects[(IF "result" \notin live THEN 1 ELSE IF "int_value" \notin live THEN 2 ELSE 3)]

Create ==
  /\ status = "parsed"
  /\ live' = live \cup {NextObject}
  /\ status' = IF NextObject = "int_count" THEN "ok" ELSE "parsed"
  /\ UNCHANGED <<request, read, consumed, value, shift, result>>

(* Variant: the second failure jumps past the first clean-up. *)
ReleasedWithoutValue == IF NextObject = "int_count" THEN {"result"} ELSE live

(* What the labels second_conversion_failed and first_conversion_failed,   *)
(* which falls through from it, give back.                                 *)
Released ==
  CASE NextObject = "int_count" -> {"int_value", "result"}
    [] NextObject = "int_value" -> {"result"}
    [] OTHER                    -> {}

CreateFails ==
  /\ status = "parsed"
  /\ live' = live \ Released
  /\ status' = "nomemory"
  /\ UNCHANGED <<request, read, consumed, value, shift, result>>

Next ==
  \/ BufferEnds \/ BufferOverrun \/ TooWide
  \/ \E b \in Byte : ReadByte(b)
  \/ Finish \/ Create \/ CreateFails

Spec == Init /\ [][Next]_vars

------------------------------------------------------------------------------
(* Properties.                                                             *)

(* The numbers of the type. *)
Values == IF signed THEN -(Modulus \div 2) .. Modulus \div 2 - 1 ELSE 0 .. Modulus - 1

TypeOK ==
  /\ Asked
  /\ consumed \in 0 .. MaxBytes
  /\ read \in Seq(Byte) /\ Len(read) <= MaxBytes
  /\ value \in 0 .. Modulus - 1
  /\ shift \in 0 .. DestBits + Group
  /\ result \in Values
  /\ status \in {"reading", "read", "parsed", "ok", "overrun"} \cup Errors
  /\ live \subseteq {Objects[i] : i \in 1 .. 3}

(* No byte is shifted by the whole width of the destination or more, which *)
(* C leaves undefined, although the parsers stop at different shifts.      *)
ShiftDefined == status = "reading" /\ ~WidthExhausted => shift < dest

(* The number a sequence of bytes stands for, at any precision.            *)
Weight(bytes) ==
  LET Sum[i \in 0 .. Len(bytes)] ==
        IF i = 0 THEN 0 ELSE Sum[i - 1] + Low(bytes[i]) * Pow2[Group * (i - 1)]
  IN  Sum[Len(bytes)]

Denoted ==
  Weight(read) - (IF signed /\ SignBit(LastByte) THEN Pow2[Group * Len(read)] ELSE 0)

(* varint7, the parser of 7 bits in 8: its one byte reaches the bits asked *)
(* for, so that the sign is never extended and a negative number comes     *)
(* back as a positive one (binparse/leb128_parsers.h:70), unless its last  *)
(* byte reaches the end of the type as well.                               *)
SignDropped ==
  parser = "x3" /\ signed /\ width <= shift /\ shift < dest /\ SignBit(LastByte)

Offset == IF SignDropped THEN Pow2[shift] ELSE 0

(* What each parser returns is the number encoded, as far as the           *)
(* destination can hold it, on machines of either byte order: the byte     *)
(* swap behind sys_is_little_endian must not take place.  The sign that    *)
(* varint7 drops is the one exception.                                     *)
Decoded == status \in {"parsed", "ok"} => (result - Denoted - Offset) % Modulus = 0

(* The encoders of test.py (which also drives read_signed).                *)
Rest(n) == n \div Pow2[Group]
Ends(n) ==
  IF signed THEN \/ Rest(n) = 0 /\ ~SignBit(n)
                 \/ Rest(n) = -1 /\ SignBit(n)
  ELSE Rest(n) = 0
Encoding[n \in Values] ==
  IF Ends(n) THEN << Low(n) >> ELSE << Low(n) + Pow2[Group] >> \o Encoding[Rest(n)]

ValuesOfWidth ==
  IF width = 0 THEN {}
  ELSE IF signed THEN -Pow2[width - 1] .. Pow2[width - 1] - 1
  ELSE 0 .. Pow2[width] - 1

(* Every number of the width asked for comes back from its encoding:       *)
(* neither parser runs out of width before the end of it.  An encoding     *)
(* that goes on when its bytes have given the width is refused, but for    *)
(* the one byte that the signed parser lets in when the width is a         *)
(* multiple of the group (leb128.c:114).                                   *)
StartsEncodingOf(v) ==
  /\ Len(read) < Len(Encoding[v])
  /\ \A k \in 1 .. Len(read) : read[k] = Encoding[v][k]

RoundTrip ==
  \A v \in ValuesOfWidth :
    /\ status = "badwidth" => ~StartsEncodingOf(v)
    /\ status \in {"parsed", "ok"} /\ read = Encoding[v] => result = v + Offset
    /\ status \in {"parsed", "ok"} =>
         LET before == Group * (Len(read) - 1)
         IN  before < width \/ (parser = "c" /\ signed /\ before = width)

(* A failed call leaves nothing behind: the wrapper in C holds no          *)
(* reference (a successful one all three), and an alternative of the x3    *)
(* grammar is tried on the bytes this one was.  The qi parsers keep what   *)
(* they read (frontend2/leb128_u_parser.h:58).                             *)
NothingLeaks ==
  /\ status \in Errors => live = {}
  /\ status = "ok" /\ parser = "c" => live = {Objects[i] : i \in 1 .. 3}
  /\ status \in Errors /\ parser # "qi" => consumed = 0 \/ status = "nomemory"

==============================================================================
