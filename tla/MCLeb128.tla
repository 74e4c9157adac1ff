------------------------------ MODULE MCLeb128 -------------------------------
(* Instance for TLC: bytes of four bits, three of them the number's, and a *)
(* destination of two bytes; widths of one bit, of one group, in between,  *)
(* of the destination, and one too large.                                  *)
EXTENDS Leb128

MCWidths == {1, 3, 5, 8, 9}
(* Three bits in a type of one byte, as seven in eight; a whole type; and  *)
(* bits whose last group goes past the end of the type.                    *)
MCTypes == {[dest |-> 4, bits |-> 3], [dest |-> 8, bits |-> 8], [dest |-> 8, bits |-> 7]}
==============================================================================
