---------------------------- MODULE RandomString ----------------------------
(***************************************************************************)
(* The arithmetic of randomString (internal/provider/static): how many     *)
(* random bytes are drawn for n characters, how they are encoded, and why  *)
(* encoded[:n] is always there and never padded.                           *)
(***************************************************************************)
EXTENDS Integers

\* Variant: rounded down.
ByteLenDown(n) == (n * 6) \div 8

\* The random bytes drawn for n characters of six bits.
ByteLen(n) == (n * 6 + 7) \div 8

\* base64.URLEncoding: four characters for every three bytes begun; those after
\* the last that carries a bit are padding.
Encoded(bytes) == 4 * ((bytes + 2) \div 3)
Carrying(bytes) == (bytes * 8 + 5) \div 6

\* The first n characters exist, none of them is padding and every bit of them
\* comes from the random source.
Enough(n) ==
  /\ n <= Carrying(ByteLen(n)) /\ Carrying(ByteLen(n)) <= Encoded(ByteLen(n))
  /\ n * 6 <= ByteLen(n) * 8
=============================================================================
