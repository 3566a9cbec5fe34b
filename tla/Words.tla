------------------------------- MODULE Words -------------------------------
(***************************************************************************)
(* Instruction words as the sets of the positions of their 1 bits, and the  *)
(* instructions they stand for.  Both uint32_t words and uint16_t halfwords  *)
(* are such sets: x | y is a union, and a shift with a mask moves positions. *)
(***************************************************************************)
EXTENDS Binary

Bit == 0..31

(* The bits of the 32-bit number v, and (v << at) of a field v of at most   *)
(* 12 bits.                                                                 *)
ToBits(v) == Bits(v, 31) \cup {k \in {31} : v < 0}
Place(v, at) == {k + at : k \in Bits(v, 12)}

(* getBits(w, x, y) << at: bits x..y of w, the lowest of them put at `at`.  *)
Move(w, x, y, at) == {k - x + at : k \in w \cap (x..y)}

Field(w, x, y) == Number(Move(w, x, y, 0), y - x + 1)

(* A word below 2^31 as a number, and any word as an int32_t.               *)
ToNat(w) == Number(w, 31)
ToInt(w) == IF 31 \in w THEN -1 - ToNat(Bit \ w) ELSE ToNat(w)

(* An instruction: its mnemonic, its operands; operands it lacks are 0.     *)
(* rs1 is the immediate of csrrwi, csrrsi and csrrci, imm the CSR's number  *)
(* in all six, the shift amount of a shift, and counts pages of 4096 in lui *)
(* and auipc.                                                               *)
Instr(op, rd, rs1, rs2, imm) ==
  [op |-> op, rd |-> rd, rs1 |-> rs1, rs2 |-> rs2, imm |-> imm]
=============================================================================
