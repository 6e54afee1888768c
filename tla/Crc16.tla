-------------------------------- MODULE Crc16 --------------------------------
(***************************************************************************)
(* The checksum of the serial frames: the register machine of crc.c with    *)
(* the parameters serial.c (17-30) gives it, those of CRC-16/CCITT-FALSE,   *)
(* and the polynomial division it stands for.                              *)
(*                                                                         *)
(* A register, or a polynomial over the field of two elements, is the set   *)
(* of its bits, or exponents: exclusive or is symmetric difference.        *)
(***************************************************************************)
EXTENDS Integers, Sequences

Width == 16
Poly == {0, 5, 12}        \* 0x1021
Preset == 0..(Width - 1)  \* 0xFFFF

Xor(a, b) == (a \ b) \cup (b \ a)
ShiftedBy(n, a) == {i + n : i \in a}
BitsOf(byte) == {i \in 0..7 : (byte \div 2^i) % 2 = 1}

(* One bit: the top bit decides whether the polynomial is subtracted; what *)
(* leaves the width is cut off.                                            *)
Shifted(reg) ==
  IF Width - 1 \in reg
  THEN Xor(ShiftedBy(1, reg), Poly) \cap (0..(Width - 1))
  ELSE ShiftedBy(1, reg)

(* Registers are handed from step to step as the one element of a set, so  *)
(* that TLC evaluates each of them once.                                   *)

(* cm_nxt: a byte enters at the top, and eight bits are shifted out. *)
AfterByte(reg, byte) ==
  LET after[n \in 0..8] ==
        IF n = 0 THEN {Xor(reg, ShiftedBy(Width - 8, BitsOf(byte)))}
                 ELSE {Shifted(r) : r \in after[n - 1]}
  IN UNION after[8]

ChecksumFrom(preset, bytes) ==
  LET after[n \in 0..Len(bytes)] ==
        IF n = 0 THEN {preset} ELSE {AfterByte(r, bytes[n]) : r \in after[n - 1]}
  IN UNION after[Len(bytes)]

MutChecksum(bytes) == ChecksumFrom({}, bytes)

(* calculate_crc16_ccitt_false: cm_ini, cm_blk and cm_crc. *)
Checksum(bytes) == ChecksumFrom(Preset, bytes)

(* The two bytes that carry it, high byte first. *)
ByteOf(bits) ==
  LET sum[n \in 0..8] == IF n = 0 THEN 0
                         ELSE sum[n - 1] + (IF n - 1 \in bits THEN 2^(n - 1) ELSE 0)
  IN sum[8]

ChecksumBytes(bytes) ==
  <<ByteOf({i \in 0..7 : i + 8 \in Checksum(bytes)}),
    ByteOf({i \in 0..7 : i \in Checksum(bytes)})>>

-----------------------------------------------------------------------------
(* The reference: the bytes are the coefficients of a polynomial, first     *)
(* byte and highest bit first; its first 16 coefficients are inverted, it   *)
(* is multiplied by x^16 and divided by x^16 + x^12 + x^5 + 1.              *)

Generator == Poly \cup {Width}

Dividend(bytes) ==
  Xor(UNION {ShiftedBy(Width + 8 * (Len(bytes) - k), BitsOf(bytes[k])) : k \in 1..Len(bytes)},
      ShiftedBy(8 * Len(bytes), Preset))

(* The coefficient of x^d is removed. *)
Subtracted(r, d) == IF d \in r THEN Xor(r, ShiftedBy(d - Width, Generator)) ELSE r

Remainder(bytes) ==
  LET rest[n \in 0..(8 * Len(bytes))] ==   \* n coefficients have been removed
        IF n = 0 THEN {Dividend(bytes)}
        ELSE {Subtracted(r, 8 * Len(bytes) + Width - n) : r \in rest[n - 1]}
  IN UNION rest[8 * Len(bytes)]

=============================================================================
