----------------------------- MODULE MCGateway -----------------------------
(***************************************************************************)
(* Instance of Gateway for TLC.  An SMS of 14 octets instead of 140 keeps  *)
(* every proportion: 9 septets and one bit of fill, or 4 units, follow the *)
(* header and leave no octet over, as 153 and 67 do.                       *)
(***************************************************************************)
EXTENDS Gateway

CONSTANTS s1, z1, a1

Times(x, k) == FlattenSeq([i \in 1..k |-> x])

\* Texts around every limit, of each kind of unit, with any two units behind and,
\* where a unit takes two places, one before, so that every cut falls everywhere.
Odd == {Times(<<"e">>, k) : k \in 1..14} \union {Times(<<"hi", "lo">>, k) : k \in 1..6}
Fillers ==
    {Times(<<"b">>, k) : k \in {0} \union 6..10 \union 14..19 \union 24..28}
    \union {Times(<<"u">>, k) : k \in 1..13} \union Odd \union {<<"b">> \o f : f \in Odd}
Tails == UNION {[1..k -> Units] : k \in 0..2}
AllTexts == {f \o t : f \in Fillers, t \in Tails} \ {<<>>}

\* A short text, and one that is three parts with GSM 7-bit, too long as UCS2.
Samples == {<<"b">>, Times(<<"b">>, 20)}

TwoFleets == {<<s1, z1, a1>>, <<a1, s1>>}
Kind == (s1 :> "serial") @@ (z1 :> "zte-http") @@ (a1 :> "adb")

\* One number of odd length, whose last octet is filled up, and a national one.
TwoNumbers == {[plus |-> TRUE, digits |-> <<9, 9, 3, 6, 5>>],
               [plus |-> FALSE, digits |-> <<8, 6>>]}
=============================================================================
