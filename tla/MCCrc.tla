--------------------------------- MODULE MCCrc ---------------------------------
(* A single byte, a few bytes, the most bytes for which CRC-8-CCITT finds    *)
(* every error of two bits, and those of the biggest packet on I2C.          *)
EXTENDS Crc

\* <<0>>, <<1, 0x55>>, fourteen and thirty-one bytes 0xA5.
Short == <<{}>>
Middle == <<{0}, {0, 2, 4, 6}>>
Long == [i \in 1 .. 14 |-> {0, 2, 5, 7}]
Longest == [i \in 1 .. 31 |-> {0, 2, 5, 7}]

MCMessages == {Short, Middle, Long, Longest}
MCFlips(b, m) ==
  IF m = Longest THEN IF b = "I2C" THEN {0, 1, 3} ELSE {}
  ELSE IF m = Long THEN {0, 1, 2} ELSE {0, 1, 2, 3}
=============================================================================
