------------------------------ MODULE Checksum ------------------------------
(***************************************************************************)
(* parser.ChecksumHex, and what a CRC16-CCITT is.  The register and the    *)
(* bytes are the sets of the bits that are one in them; a set of exponents *)
(* is at the same time a polynomial over GF(2).                            *)
(***************************************************************************)
EXTENDS Integers, Sequences

CONSTANT Byte

ASSUME ChecksumAssumption == Byte \subseteq SUBSET (0..7)

VARIABLES body, \* what the loop has read of the body
          crc   \* the register

checksumVars == <<body, crc>>

\* The exclusive or, and the sum of two polynomials.
Plus(p, q) == (p \ q) \union (q \ p)

\* Shifted left by k bits, or multiplied by x^k.
Shift(p, k) == {e + k : e \in p}

\* A register of 32 bits: what is shifted out stays in it.
ShiftOutWide(c) == IF 15 \in c THEN Plus(Shift(c, 1), {12, 5, 0}) ELSE Shift(c, 1)

\* One bit of the loop, in a uint16: 0x1021 has the bits 12, 5 and 0.
ShiftOut(c) == LET shifted == Shift(c, 1) \intersect 0..15
               IN IF 15 \in c THEN Plus(shifted, {12, 5, 0}) ELSE shifted

\* The eight bits of a byte.
Absorb(c, byte) == LET Two(r)  == ShiftOut(ShiftOut(r))
                       Four(r) == Two(Two(r))
                   IN Four(Four(Plus(c, Shift(byte, 8))))

ChecksumInit == body = <<>> /\ crc = 0..15

NextByte(b) == body' = Append(body, b) /\ crc' = Absorb(crc, b)

ChecksumSpec == ChecksumInit /\ [][\E b \in Byte : NextByte(b)]_checksumVars

-----------------------------------------------------------------------------
(* The reference: division by x^16 + x^12 + x^5 + 1.                       *)

TimesGenerator(q) == Plus(Plus(Shift(q, 16), Shift(q, 12)), Plus(Shift(q, 5), q))

\* The body, sixteen zeros behind it, its first sixteen bits inverted.
Dividend(text) ==
    LET n == Len(text) IN
    Plus(UNION {Shift(text[i], 8 * (n - i) + 16) : i \in 1..n}, (8 * n)..(8 * n + 15))

\* parser.ChecksumHex: the register is the remainder of the division, the
\* CRC16-CCITT that devices compute: it is shorter than the divisor, and
\* differs from the dividend by a multiple of it.
ChecksumIsCrc ==
    /\ crc \subseteq 0..15
    /\ \E q \in SUBSET (0..(8 * Len(body) - 1)) :
          Dividend(body) = Plus(TimesGenerator(q), crc)
=============================================================================
