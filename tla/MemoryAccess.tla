---------------------------- MODULE MemoryAccess ----------------------------
(***************************************************************************)
(* The memory_access crate: decoding the syndrome of a data abort into the *)
(* guest's load or store, and extending the value that a load returns.     *)
(* Syndromes have their true layout; a byte has BYTE bits, so that every   *)
(* value of a register can be enumerated.                                  *)
(***************************************************************************)
EXTENDS Integers, PowersOfTwo

CONSTANTS
    BYTE,                   \* the bits of a byte: 8 in the code
    FAULT_IPA_PAGE_SHIFT,
    None

ASSUME MemoryAccessAssumption ==
    BYTE \in Nat \ {0} /\ FAULT_IPA_PAGE_SHIFT \in Nat

MemoryAccessWidth == {"U8", "U16", "U32", "U64"}

bits(width) ==
    CASE width = "U8" -> BYTE
      [] width = "U16" -> 2 * BYTE
      [] width = "U32" -> 4 * BYTE
      [] width = "U64" -> 8 * BYTE

\* The values of a 64-bit register.
Word == 0..Pow2[bits("U64")] - 1

\* A cast that is forgotten.
cast_none(n) == n

\* A two's complement integer as an unsigned one: cast_unsigned().
cast_unsigned(n) == n % Pow2[bits("U64")]

\* value & width.mask()
Masked(value, width) == value % Pow2[bits(width)]

-----------------------------------------------------------------------------
(* The syndrome *)

Field(iss, shift, width) == (iss \div 2^shift) % 2^width

decode_valid_instruction_syndrome(iss) == Field(iss, 24, 1) = 1

decode_memory_access_width(iss) ==
    <<"U8", "U16", "U32", "U64">>[Field(iss, 22, 2) + 1]

decode_memory_access_sign_extend(iss) == Field(iss, 21, 1) = 1

decode_memory_access_register_index(iss) == Field(iss, 16, 5)

decode_memory_access_register_width_64(iss) == Field(iss, 15, 1) = 1

decode_memory_access_is_write(iss) == Field(iss, 6, 1) = 1

decode_fault_ipa(hpfar_fipa, far_va) ==
    hpfar_fipa * Pow2[FAULT_IPA_PAGE_SHIFT] + (far_va % Pow2[FAULT_IPA_PAGE_SHIFT])

DecodedMemoryAccess ==
    [ipa : Nat, width : MemoryAccessWidth, kind : {"Read", "Write"}, value : Word,
     register_index : 0..31, sign_extend : BOOLEAN, register_width_64 : BOOLEAN]

\* The access, or None.  registers[i] is what read_register(i) returns.
decode_memory_access(iss, hpfar_fipa, far_va, registers) ==
    LET width == decode_memory_access_width(iss)
        index == decode_memory_access_register_index(iss)
        write == decode_memory_access_is_write(iss)
    IN  IF ~decode_valid_instruction_syndrome(iss) \/ (write /\ registers[index] = None)
          THEN None
          ELSE [ipa |-> decode_fault_ipa(hpfar_fipa, far_va),
                width |-> width,
                kind |-> IF write THEN "Write" ELSE "Read",
                value |-> IF write THEN Masked(registers[index], width) ELSE 0,
                register_index |-> index,
                sign_extend |-> decode_memory_access_sign_extend(iss),
                register_width_64 |-> decode_memory_access_register_width_64(iss)]

-----------------------------------------------------------------------------
(* The result of a load *)

\* A result that is not cut to the target register.
ExtendUncut(value, width, sign_extend, register_width_64) ==
    LET shift == bits("U64") - bits(width)
        shifted == (Masked(value, width) * Pow2[shift]) % Pow2[bits("U64")]
        signed == IF shifted < Pow2[bits("U64") - 1] THEN shifted ELSE shifted - Pow2[bits("U64")]
    IN  IF sign_extend /\ width # "U64" THEN cast_unsigned(signed \div Pow2[shift])
                                        ELSE Masked(value, width)

\* The sign bit is shifted up to the top and arithmetically down again.
extend_read_result(value, width, sign_extend, register_width_64) ==
    LET shift == bits("U64") - bits(width)
        shifted == (Masked(value, width) * Pow2[shift]) % Pow2[bits("U64")]
        signed == IF shifted < Pow2[bits("U64") - 1] THEN shifted ELSE shifted - Pow2[bits("U64")]
        extended == IF sign_extend /\ width # "U64" THEN cast_unsigned(signed \div Pow2[shift])
                                                    ELSE Masked(value, width)
    IN  IF register_width_64 THEN extended ELSE Masked(extended, "U32")

=============================================================================
