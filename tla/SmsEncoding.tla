---------------------------- MODULE SmsEncoding ----------------------------
(***************************************************************************)
(* How a text becomes SMS: which alphabet, how many parts, where the cuts  *)
(* are, and the octets of each part of a long message.                     *)
(*                                                                         *)
(* A text is a sequence of UTF-16 code units, of which six kinds are told  *)
(* apart: b, a and e are in the GSM alphabet, b (plain Latin) under the    *)
(* code it has in UTF-8, a under another one, e at the price of two        *)
(* septets; u is not in it; hi and lo are the halves of a surrogate pair.  *)
(*                                                                         *)
(* Sources: utils/sms-encoding.js, utils/pdu.js, utils/zte-http.js.  The   *)
(* handset at the end, which reads the octets back, is external.           *)
(***************************************************************************)
EXTENDS Naturals, Sequences, FiniteSets, SequencesExt

CONSTANTS
    Octets,                \* of user data in one SMS (140)
    GsmSingle, GsmPart,    \* GSM7_SINGLE, GSM7_PER_SEGMENT
    UcsSingle, UcsPart,    \* UCS2_SINGLE, UCS2_PER_SEGMENT
    MaxSegments            \* MAX_SEGMENTS

\* The limits are those of the octets, less a 6-octet header in a part.
ASSUME LimitsAssumption ==
    /\ Octets \in Nat /\ Octets > 9 /\ MaxSegments \in Nat \ {0}
    /\ GsmSingle = (8 * Octets) \div 7 /\ GsmPart = (8 * (Octets - 6)) \div 7
    /\ UcsSingle = Octets \div 2       /\ UcsPart = (Octets - 6) \div 2

Units == {"b", "a", "e", "u", "hi", "lo"}

-----------------------------------------------------------------------------
\* Segments.

IsGsm7(text) == \A i \in DOMAIN text : text[i] \in {"b", "a", "e"}

gsm7Cost(x) == IF x = "e" THEN 2 ELSE 1

SeptetsOf(text) == FoldLeft(LAMBDA k, x : k + gsm7Cost(x), 0, text)

\* Greedy: a unit that does not fit opens the next part.
splitGsm7(text) ==
    LET Put(s, x) ==
            IF s.septets + gsm7Cost(x) > GsmPart
            THEN [parts |-> Append(s.parts, s.part), part |-> <<x>>,
                  septets |-> gsm7Cost(x)]
            ELSE [s EXCEPT !.part = Append(@, x), !.septets = @ + gsm7Cost(x)]
        end == FoldLeft(Put, [parts |-> <<>>, part |-> <<>>, septets |-> 0], text)
    IN  IF end.part = <<>> THEN end.parts ELSE Append(end.parts, end.part)

\* Mutant: a part ends where it is full.
PartEnd_AnyUnit(text, i) == IF i + UcsPart < Len(text) THEN i + UcsPart ELSE Len(text)

\* A part that starts after unit i is full or the last; the first half of a
\* pair is left to the next part.
PartEnd(text, i) ==
    LET full == IF i + UcsPart < Len(text) THEN i + UcsPart ELSE Len(text)
    IN  IF full < Len(text) /\ text[full] = "hi" THEN full - 1 ELSE full

splitUcs2(text) ==
    LET from[i \in 0..Len(text)] ==
            IF i = Len(text) THEN <<>>
            ELSE <<SubSeq(text, i + 1, PartEnd(text, i))>> \o from[PartEnd(text, i)]
    IN  from[0]

analyzeMessage(text) ==
    LET gsm == IsGsm7(text)
        segments == IF gsm
                    THEN IF SeptetsOf(text) <= GsmSingle THEN 1 ELSE Len(splitGsm7(text))
                    ELSE IF Len(text) <= UcsSingle THEN 1 ELSE Len(splitUcs2(text))
    IN  [encoding |-> IF gsm THEN "GSM" ELSE "UCS2", segments |-> segments,
         ok |-> segments <= MaxSegments]

\* The zte-http driver sends UCS2 only and leaves the cutting to the stick.
analyzeUcs2(text) ==
    LET segments == IF Len(text) <= UcsSingle THEN 1
                    ELSE (Len(text) + UcsPart - 1) \div UcsPart
    IN  [encoding |-> "UCS2", segments |-> segments, ok |-> segments <= MaxSegments]

splitMessage(text) ==
    LET info == analyzeMessage(text)
    IN  IF info.segments = 1 THEN <<text>>
        ELSE IF info.encoding = "GSM" THEN splitGsm7(text) ELSE splitUcs2(text)

-----------------------------------------------------------------------------
\* Octets.  One code stands for each kind of unit.

Gsm7 == [b |-> <<65>>, a |-> <<0>>, e |-> <<27, 101>>]

gsm7Septets(text) == FlattenSeq([i \in DOMAIN text |-> Gsm7[text[i]]])

\* What port.write makes of a text in the GSM alphabet.
Utf8 == [b |-> <<65>>, a |-> <<64>>, e |-> <<226, 130, 172>>]

utf8Octets(text) == FlattenSeq([i \in DOMAIN text |-> Utf8[text[i]]])

Utf16 == [b |-> <<0, 65>>, a |-> <<0, 64>>, e |-> <<32, 172>>, u |-> <<4, 16>>,
          hi |-> <<216, 61>>, lo |-> <<222, 0>>]

\* Buffer.from(text, 'utf16le').swap16()
ucs2Octets(text) == FlattenSeq([i \in DOMAIN text |-> Utf16[text[i]]])

\* acc holds accBits bits that are not written yet, lowest first.
packSeptets(septets, fillBits) ==
    LET Put(s, x) ==
            LET acc == s.acc + x * 2^s.bits
            IN  IF s.bits + 7 >= 8
                THEN [out |-> Append(s.out, acc % 256), acc |-> acc \div 256,
                      bits |-> s.bits - 1]
                ELSE [s EXCEPT !.acc = acc, !.bits = @ + 7]
        end == FoldLeft(Put, [out |-> <<>>, acc |-> 0, bits |-> fillBits], septets)
    IN  IF end.bits > 0 THEN Append(end.out, end.acc % 256) ELSE end.out

\* Two digits to an octet, the first in the low half, F for the missing last.
encodeAddress(digits) ==
    [k \in 1..(Len(digits) + 1) \div 2 |->
        digits[2 * k - 1] + 16 * (IF 2 * k <= Len(digits) THEN digits[2 * k] ELSE 15)]

\* The TPDU of one part: header, address, PID, DCS, validity, UDL, concatenation
\* header, text.  The type of address tells an international number.
buildSubmitPdu(number, text, encoding, ref, part, total) ==
    LET body == IF encoding = "GSM" THEN packSeptets(gsm7Septets(text), 1)
                                    ELSE ucs2Octets(text)
        udl  == IF encoding = "GSM" THEN 7 + Len(gsm7Septets(text)) ELSE 6 + Len(body)
    IN  <<81, 0, Len(number.digits), IF number.plus THEN 145 ELSE 129>>
        \o encodeAddress(number.digits)
        \o <<0, IF encoding = "GSM" THEN 0 ELSE 8, 167, udl>>
        \o <<5, 0, 3, ref, total, part>> \o body

buildConcatPdus(number, parts, encoding, ref) ==
    [i \in DOMAIN parts |->
        buildSubmitPdu(number, parts[i], encoding, ref, i, Len(parts))]

-----------------------------------------------------------------------------
\* What the far end makes of a TPDU (3GPP 23.040, 23.038).

Nibble(octets, i) == IF i % 2 = 1 THEN octets[(i + 1) \div 2] % 16
                                  ELSE octets[i \div 2] \div 16

\* Septet i of a body that begins with one bit of fill.
SeptetAt(body, i) ==
    FoldLeft(LAMBDA v, k : LET j == 7 * (i - 1) + 1 + k
                           IN  v + ((body[j \div 8 + 1] \div 2^(j % 8)) % 2) * 2^k,
             0, <<0, 1, 2, 3, 4, 5, 6>>)

\* The units of a sequence of GSM codes; ESC makes one of two.
ReadGsm7(codes) ==
    FlattenSeq([i \in DOMAIN codes |->
        LET code == IF i > 1 /\ codes[i - 1] = 27 THEN <<27, codes[i]>> ELSE <<codes[i]>>
        IN  IF codes[i] = 27 THEN <<>>
            ELSE IF \E x \in DOMAIN Gsm7 : Gsm7[x] = code
            THEN <<CHOOSE x \in DOMAIN Gsm7 : Gsm7[x] = code>>
            ELSE <<"?">>])

ReadUcs2(body) ==
    [i \in 1..Len(body) \div 2 |->
        IF \E x \in Units : Utf16[x] = <<body[2 * i - 1], body[2 * i]>>
        THEN CHOOSE x \in Units : Utf16[x] = <<body[2 * i - 1], body[2 * i]>>
        ELSE "?"]

Decode(tpdu) ==
    LET at   == 4 + (tpdu[3] + 1) \div 2   \* octets up to the end of the address
        body == SubSeq(tpdu, at + 11, Len(tpdu))
        udl  == tpdu[at + 4]
    IN  [to    |-> [plus   |-> tpdu[4] = 145,
                    digits |-> [i \in 1..tpdu[3] |-> Nibble(SubSeq(tpdu, 5, at), i)]],
         ref   |-> tpdu[at + 8], total |-> tpdu[at + 9], part |-> tpdu[at + 10],
         size  |-> 6 + Len(body),
         \* UDL counts what is there, and no octet is left over
         whole |-> IF tpdu[at + 2] = 0 THEN Len(body) = (7 * udl + 7) \div 8 - 6
                                       ELSE Len(body) = udl - 6,
         text  |-> IF tpdu[at + 2] = 0
                   THEN ReadGsm7([i \in 1..udl - 7 |-> SeptetAt(body, i)])
                   ELSE ReadUcs2(body)]
=============================================================================
