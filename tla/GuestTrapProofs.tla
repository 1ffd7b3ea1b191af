-------------------------- MODULE GuestTrapProofs --------------------------
(***************************************************************************)
(* Proofs about GuestTrap and MemoryAccess, for any number of cores, any   *)
(* programs of the guests, any registry of handlers and any size of byte   *)
(* and page.                                                               *)
(***************************************************************************)
EXTENDS GuestTrap, NatLemmas

-----------------------------------------------------------------------------
(* Shifts and masks *)

\* The widths and their masks; a doubleword is two words.
LEMMA Widths ==
    ASSUME NEW w \in MemoryAccessWidth
    PROVE  /\ bits(w) \in Nat \ {0} /\ bits("U32") \in Nat \ {0} /\ bits("U64") \in Nat \ {0}
           /\ bits("U64") = bits("U32") + bits("U32")
           /\ bits("U64") - bits(w) \in Nat
           /\ w # "U64" => bits("U32") - bits(w) \in Nat
<1>1. BYTE \in Nat \ {0}
  BY MemoryAccessAssumption, Zenon
<1>2. w = "U8" \/ w = "U16" \/ w = "U32" \/ w = "U64"
  BY Zenon DEF MemoryAccessWidth
<1>3. bits("U8") = BYTE /\ bits("U16") = 2 * BYTE /\ bits("U32") = 4 * BYTE
      /\ bits("U64") = 8 * BYTE
  BY Zenon DEF bits
<1> QED
  BY <1>1, <1>2, <1>3

\* The powers of two at hand in extend_read_result.
LEMMA Masks ==
    ASSUME NEW w \in MemoryAccessWidth
    PROVE  LET B == Pow2[bits(w)]
               S == Pow2[bits("U64") - bits(w)]
               H == Pow2[bits("U32")]
               T == Pow2[bits("U64")]
               half == Pow2[bits(w) - 1]
           IN  /\ B \in Nat \ {0} /\ S \in Nat \ {0} /\ H \in Nat \ {0} /\ T \in Nat \ {0}
               /\ half \in Nat \ {0} /\ B = 2 * half
               /\ T = B * S /\ T = H * H /\ Pow2[bits("U64") - 1] = half * S
               /\ w # "U64" => \E K \in Nat \ {0} : H = B * K
               /\ w = "U64" => S = 1
<1>1. \A n \in Nat : Pow2[n] \in Nat \ {0}
  BY Pow2Above
<1>2. \A n \in Nat \ {0} : n - 1 \in Nat /\ Pow2[n] = 2 * Pow2[n - 1]
  <2> SUFFICES ASSUME NEW n \in Nat \ {0}
               PROVE  n - 1 \in Nat /\ Pow2[n] = 2 * Pow2[n - 1]
    BY Zenon
  <2>1. n - 1 \in Nat /\ (n - 1) + 1 = n
    OBVIOUS
  <2> QED
    BY <2>1, Pow2Steps, Zenon
<1>3. \A m, n \in Nat : n - m \in Nat => Pow2[n] = Pow2[m] * Pow2[n - m]
  <2> SUFFICES ASSUME NEW m \in Nat, NEW n \in Nat, n - m \in Nat
               PROVE  Pow2[n] = Pow2[m] * Pow2[n - m]
    BY Zenon
  <2>1. m + (n - m) = n
    OBVIOUS
  <2> QED
    BY <2>1, Pow2Sum, Zenon
<1> DEFINE B == Pow2[bits(w)]
           S == Pow2[bits("U64") - bits(w)]
           H == Pow2[bits("U32")]
           T == Pow2[bits("U64")]
           half == Pow2[bits(w) - 1]
           top == Pow2[bits("U64") - 1]
<1>4. /\ B \in Nat \ {0} /\ S \in Nat \ {0} /\ H \in Nat \ {0} /\ T \in Nat \ {0}
      /\ half \in Nat \ {0} /\ top \in Nat /\ B = 2 * half /\ T = 2 * top /\ T = B * S
  BY <1>1, <1>2, <1>3, Widths, Zenon
<1>5. T = H * H
  BY Widths, Pow2Sum, Zenon
<1>6. w # "U64" => \E K \in Nat \ {0} : H = B * K
  <2> SUFFICES ASSUME w # "U64"
               PROVE  \E K \in Nat \ {0} : H = B * K
    BY Zenon
  <2>1. bits("U32") - bits(w) \in Nat /\ bits(w) \in Nat /\ bits("U32") \in Nat
    BY Widths, Zenon
  <2> QED
    BY <1>1, <1>3, <2>1, Zenon
<1>7. w = "U64" => S = 1
  BY Widths, Pow2Steps
<1> HIDE DEF B, S, H, T, half, top
<1>8. top = half * S
  BY <1>4
<1> QED
  BY <1>4, <1>5, <1>6, <1>7, <1>8, Zenon DEF B, S, H, T, half, top

\* extend_read_result() leaves in the register what the architecture puts
\* there, for every value, width, sign and target.
THEOREM ExtendExact ==
    ASSUME NEW i \in AccessInstruction, i.width = "U64" => i.sf, NEW v \in Nat
    PROVE  /\ extend_read_result(v, i.width, i.signed, i.sf) = Loaded(v, i)
           /\ Loaded(v, i) \in Word
<1> DEFINE w == i.width
           B == Pow2[bits(w)]
           S == Pow2[bits("U64") - bits(w)]
           H == Pow2[bits("U32")]
           T == Pow2[bits("U64")]
           half == Pow2[bits(w) - 1]
           low == v % B
           extended == IF i.signed /\ w # "U64" /\ low >= half THEN low - B + T ELSE low
<1>1. w \in MemoryAccessWidth /\ i.signed \in BOOLEAN /\ i.sf \in BOOLEAN
  BY Zenon DEF AccessInstruction
<1>2. /\ B \in Nat \ {0} /\ S \in Nat \ {0} /\ H \in Nat \ {0} /\ T \in Nat \ {0}
      /\ half \in Nat \ {0} /\ B = 2 * half
      /\ T = B * S /\ T = H * H /\ Pow2[bits("U64") - 1] = half * S
      /\ w # "U64" => \E K \in Nat \ {0} : H = B * K
      /\ w = "U64" => S = 1
  BY <1>1, Masks, Zenon
<1>3. low \in 0..B - 1
  BY <1>2
<1>4. T - B \in Nat
  <2>1. ASSUME NEW b \in Nat \ {0}, NEW s \in Nat \ {0}
        PROVE  b * s - b \in Nat
    OBVIOUS
  <2> QED
    BY <1>2, <2>1, Zenon
<1>5. LET shifted == (Masked(v, w) * S) % T
          signed == IF shifted < Pow2[bits("U64") - 1] THEN shifted ELSE shifted - T
      IN  (IF i.signed /\ w # "U64" THEN cast_unsigned(signed \div S) ELSE Masked(v, w))
              = extended
  <2> DEFINE shifted == (low * S) % T
             signed == IF shifted < half * S THEN shifted ELSE shifted - T
  <2>1. Masked(v, w) = low /\ \A n : cast_unsigned(n) = n % T
    BY Zenon DEF Masked, cast_unsigned
  <2> HIDE DEF B, S, T, half, low
  <2>2. /\ shifted = low * S /\ (shifted < half * S <=> low < half)
        /\ (low * S) \div S = low /\ (low * S - T) \div S = low - B
    BY <1>2, <1>3, SignCopied
  <2>3. signed \div S = IF low < half THEN low ELSE low - B
    BY <2>2, Zenon
  <2>4. low \in 0..T - 1 /\ low - B + T \in 0..T - 1
    BY <1>2, <1>3, <1>4
  <2>5. low % T = low /\ (low - B) % T = low - B + T
    <3>1. T \in Nat \ {0} /\ low \in Int /\ low - B \in Int
      BY <1>2, <1>3
    <3> QED
      BY <2>4, <3>1, ReducedOnce, Zenon
  <2>7. (IF i.signed /\ w # "U64" THEN (signed \div S) % T ELSE low) = extended
    BY <1>2, <1>3, <2>3, <2>5
  <2> QED
    BY <1>2, <2>1, <2>7, Zenon
<1>6. extend_read_result(v, w, i.signed, i.sf) = IF i.sf THEN extended ELSE extended % H
  BY <1>5, Zenon DEF extend_read_result, Masked
<1>7. Loaded(v, i) = IF i.signed /\ low >= half
                       THEN low + (IF i.sf THEN T ELSE H) - B ELSE low
  BY Zenon DEF Loaded
<1>8. extended \in 0..T - 1
  BY <1>2, <1>3, <1>4
<1>9. CASE i.sf
  <2>1. w = "U64" => T = B
    BY <1>2, Zenon
  <2>2. Loaded(v, i) = extended
    BY <1>1, <1>2, <1>3, <1>7, <1>9, <2>1
  <2> QED
    BY <1>6, <1>8, <1>9, <2>2, Zenon DEF Word
<1>10. CASE ~i.sf
  <2>1. PICK K \in Nat \ {0} : H = B * K
    BY <1>2, <1>10, Zenon
  <2>2. H - B \in Nat
    <3>1. ASSUME NEW b \in Nat \ {0}, NEW k \in Nat \ {0}
          PROVE  b * k - b \in Nat
      OBVIOUS
    <3> QED
      BY <1>2, <2>1, <3>1, Zenon
  <2>3. T - H \in Nat
    <3>1. ASSUME NEW h \in Nat \ {0}
          PROVE  h * h - h \in Nat
      OBVIOUS
    <3> QED
      BY <1>2, <3>1, Zenon
  <2> HIDE DEF B, S, H, T, half, low
  <2>4. low % H = low
    <3>1. low \in 0..H - 1
      BY <1>2, <1>3, <2>2
    <3> QED
      BY <1>2, <1>3, <3>1, ReducedOnce
  <2>5. (low - B + T) % H = low + H - B
    <3>1. low - B + H \in 0..H - 1 /\ low - B \in Int
      BY <1>2, <1>3, <2>2
    <3>2. (low - B + H * H) % H = low - B + H
      BY <1>2, <3>1, ReducedOnce, Zenon
    <3> QED
      BY <1>2, <1>3, <3>2
  <2>6. extended % H = IF i.signed /\ low >= half THEN low + H - B ELSE low
    BY <1>10, <2>4, <2>5, Zenon
  <2>7. low \in 0..T - 1 /\ low + H - B \in 0..T - 1
    BY <1>2, <1>3, <2>2, <2>3
  <2>8. Loaded(v, i) \in 0..T - 1
    BY <1>7, <1>10, <2>7, Zenon
  <2> QED
    BY <1>6, <1>7, <1>10, <2>6, <2>8, Zenon DEF Word, T
<1> QED
  BY <1>1, <1>9, <1>10, Zenon

-----------------------------------------------------------------------------
(* The syndrome *)

\* The size of an access in the syndrome, and in the table that decodes it.
LEMMA SizeCode ==
    ASSUME NEW i \in AccessInstruction
    PROVE  LET s == CHOOSE s \in 0..3 : Pow2[s] * BYTE = bits(i.width)
           IN  s \in 0..3 /\ <<"U8", "U16", "U32", "U64">>[s + 1] = i.width
<1>1. Pow2[0] = 1 /\ Pow2[1] = 2 /\ Pow2[2] = 4 /\ Pow2[3] = 8
  <2>1. Pow2[0] = 1 /\ Pow2[0 + 1] = 2 * Pow2[0] /\ Pow2[1 + 1] = 2 * Pow2[1]
        /\ Pow2[2 + 1] = 2 * Pow2[2]
    BY Pow2Steps, Zenon
  <2> QED
    BY <2>1
<1>2. BYTE \in Nat \ {0}
  BY MemoryAccessAssumption, Zenon
<1>3. bits("U8") = BYTE /\ bits("U16") = 2 * BYTE /\ bits("U32") = 4 * BYTE
      /\ bits("U64") = 8 * BYTE
  BY Zenon DEF bits
<1>4. i.width = "U8" \/ i.width = "U16" \/ i.width = "U32" \/ i.width = "U64"
  BY Zenon DEF AccessInstruction, MemoryAccessWidth
<1> DEFINE P(s) == Pow2[s] * BYTE = bits(i.width)
           s == CHOOSE s \in 0..3 : P(s)
<1>5. \E n \in 0..3 : P(n)
  <2>1. P(0) \/ P(1) \/ P(2) \/ P(3)
    BY <1>1, <1>2, <1>3, <1>4
  <2> QED
    BY <2>1
<1>6. s \in 0..3 /\ P(s)
  BY <1>5, Zenon
<1> HIDE DEF s
<1>7. s = 0 \/ s = 1 \/ s = 2 \/ s = 3
  BY <1>6
<1>8. <<"U8", "U16", "U32", "U64">>[s + 1] = i.width
  BY <1>1, <1>2, <1>3, <1>4, <1>6, <1>7
<1> QED
  BY <1>6, <1>8, Zenon DEF s

\* Each field of the syndrome, read back by its shift and mask.
LEMMA IssFields ==
    ASSUME NEW i \in AccessInstruction
    PROVE  /\ Iss(i) \in Nat
           /\ decode_valid_instruction_syndrome(Iss(i)) <=> i.isv
           /\ decode_memory_access_is_write(Iss(i)) <=> i.op = "store"
           /\ i.isv => /\ decode_memory_access_width(Iss(i)) = i.width
                       /\ decode_memory_access_sign_extend(Iss(i)) = i.signed
                       /\ decode_memory_access_register_index(Iss(i)) = i.reg
                       /\ decode_memory_access_register_width_64(Iss(i)) = i.sf
<1> DEFINE size == CHOOSE s \in 0..3 : Pow2[s] * BYTE = bits(i.width)
<1>1. size \in 0..3 /\ <<"U8", "U16", "U32", "U64">>[size + 1] = i.width
  BY SizeCode, Zenon
<1>2. PICK b \in 0..1 : b = Bit(i.signed) /\ (b = 1 <=> i.signed)
  BY DEF Bit
<1>3. PICK f \in 0..1 : f = Bit(i.sf) /\ (f = 1 <=> i.sf)
  BY DEF Bit
<1>4. PICK w \in 0..1 : w = Bit(i.op = "store") /\ (w = 1 <=> i.op = "store")
  BY DEF Bit
<1>5. PICK reg \in 0..31 : reg = i.reg
  BY Zenon DEF AccessInstruction
<1>6. i.isv \in BOOLEAN /\ i.signed \in BOOLEAN /\ i.sf \in BOOLEAN
  BY Zenon DEF AccessInstruction
<1>7. CASE ~i.isv
  <2>1. Iss(i) = w * 2^6 + 7
    BY <1>4, <1>7, Zenon DEF Iss
  <2>2. Iss(i) \in Nat /\ Field(Iss(i), 24, 1) = 0 /\ Field(Iss(i), 6, 1) = w
    BY <2>1 DEF Field
  <2> QED
    BY <1>4, <1>7, <2>2 DEF decode_valid_instruction_syndrome, decode_memory_access_is_write
<1>8. CASE i.isv
  <2>1. Iss(i) = 2^24 + size * 2^22 + b * 2^21 + reg * 2^16 + f * 2^15 + w * 2^6 + 7
    BY <1>2, <1>3, <1>4, <1>5, <1>8, Zenon DEF Iss
  <2> HIDE DEF size
  <2>2. /\ Iss(i) \in Nat /\ Field(Iss(i), 24, 1) = 1 /\ Field(Iss(i), 22, 2) = size
        /\ Field(Iss(i), 21, 1) = b
    BY <1>1, <2>1 DEF Field
  <2>3. /\ Field(Iss(i), 16, 5) = reg /\ Field(Iss(i), 15, 1) = f /\ Field(Iss(i), 6, 1) = w
    BY <1>1, <2>1 DEF Field
  <2> HIDE DEF Field
  <2>4. /\ decode_valid_instruction_syndrome(Iss(i)) /\ decode_memory_access_width(Iss(i)) = i.width
        /\ decode_memory_access_register_index(Iss(i)) = i.reg
    BY <1>1, <1>5, <2>2, <2>3, Zenon DEF decode_valid_instruction_syndrome,
                                         decode_memory_access_width,
                                         decode_memory_access_register_index
  <2>5. decode_memory_access_is_write(Iss(i)) <=> i.op = "store"
    BY <1>4, <2>3, Zenon DEF decode_memory_access_is_write
  <2>6. /\ decode_memory_access_sign_extend(Iss(i)) = i.signed
        /\ decode_memory_access_register_width_64(Iss(i)) = i.sf
    BY <1>2, <1>3, <1>6, <2>2, <2>3, Zenon DEF decode_memory_access_sign_extend,
                                        decode_memory_access_register_width_64
  <2> QED
    BY <1>8, <2>2, <2>4, <2>5, <2>6, Zenon
<1> QED
  BY <1>6, <1>7, <1>8, Zenon

\* What the vector and sync_lower save, and what the processor reports.
SavedFrame(g, i) ==
    [registers |-> [n \in 0..18 |-> g.x[n]], fp |-> g.x[29], sp |-> g.x[30],
     elr |-> IF i.op = "hvc" THEN g.pc + 4 ELSE g.pc, spsr |-> g.spsr,
     nonvolatile |-> [n \in 0..9 |-> g.x[19 + n]]]

SyndromeOf(i) ==
    [ec |-> ExceptionClass(i), iss |-> IF IsAccess(i) THEN Iss(i) ELSE 0,
     far |-> IF IsAccess(i) THEN i.va ELSE 0,
     fipa |-> IF IsAccess(i) THEN i.ipa \div Pow2[FAULT_IPA_PAGE_SHIFT] ELSE 0]

\* The guest's access.
Stored(i, g) == IF i.reg = 31 THEN 0 ELSE g.x[i.reg] % Pow2[bits(i.width)]

Decoded(i, g) ==
    [ipa |-> i.ipa, width |-> i.width, kind |-> IF i.op = "store" THEN "Write" ELSE "Read",
     value |-> IF i.op = "store" THEN Stored(i, g) ELSE 0, register_index |-> i.reg,
     sign_extend |-> i.signed, register_width_64 |-> i.sf]

\* read_gpr() finds every register of the guest in the saved frame.
LEMMA ReadSaved ==
    ASSUME NEW g, NEW i, NEW n \in 0..31
    PROVE  read_gpr(SavedFrame(g, i), n) = IF n = 31 THEN 0 ELSE g.x[n]
<1>1. CASE n \in 0..18
  BY <1>1 DEF read_gpr, SavedFrame
<1>2. CASE n \in 19..28
  <2>1. n \notin 0..18 /\ n - 19 \in 0..9 /\ 19 + (n - 19) = n /\ n # 31
    BY <1>2
  <2> QED
    BY <1>2, <2>1, Zenon DEF read_gpr, SavedFrame
<1>3. CASE n \in 29..31
  <2>1. n \notin 0..18 /\ n \notin 19..28 /\ (n = 29 \/ n = 30 \/ n = 31)
    BY <1>3
  <2> QED
    BY <2>1 DEF read_gpr, SavedFrame
<1> QED
  BY <1>1, <1>2, <1>3

\* A register and a page of the guest, in numbers.
LEMMA WordsArePositive ==
    Word \subseteq Nat /\ 0 \in Word /\ Pow2[FAULT_IPA_PAGE_SHIFT] \in Nat \ {0}
<1>1. "U64" \in MemoryAccessWidth
  BY Zenon DEF MemoryAccessWidth
<1>2. Pow2[bits("U64")] \in Nat \ {0}
  BY <1>1, Masks, Zenon
<1>3. FAULT_IPA_PAGE_SHIFT \in Nat
  BY MemoryAccessAssumption, Zenon
<1> QED
  BY <1>2, <1>3, Pow2Above DEF Word

\* What a store gives to the handler.
LEMMA StoredValue ==
    ASSUME NEW i \in AccessInstruction, NEW g \in GuestState
    PROVE  /\ Stored(i, g) \in Word
           /\ Masked(read_gpr(SavedFrame(g, i), i.reg), i.width) = Stored(i, g)
           /\ read_gpr(SavedFrame(g, i), i.reg) # None
<1> DEFINE B == Pow2[bits(i.width)]
           T == Pow2[bits("U64")]
           v == read_gpr(SavedFrame(g, i), i.reg)
<1>1. i.width \in MemoryAccessWidth /\ i.reg \in 0..31
  BY Zenon DEF AccessInstruction
<1>2. B \in Nat \ {0} /\ T \in Nat
  BY <1>1, Masks, Zenon
<1>3. v = IF i.reg = 31 THEN 0 ELSE g.x[i.reg]
  BY <1>1, ReadSaved
<1>4. v \in Word
  <2>1. g.x \in [Registers -> Word]
    BY Zenon DEF GuestState
  <2>2. i.reg # 31 => i.reg \in Registers
    BY <1>1 DEF Registers
  <2> QED
    BY <1>3, <2>1, <2>2, WordsArePositive, Zenon
<1>5. v # None
  BY <1>4, WordsArePositive, NoneAssumption, Zenon
<1> HIDE DEF v
<1>6. v \in 0..T - 1 /\ v \in Nat
  BY <1>4, WordsArePositive, Zenon DEF Word
<1> HIDE DEF B, T
<1>7. v % B \in 0..T - 1
  <2>1. v % B <= v /\ v % B \in Nat
    BY <1>2, <1>6
  <2> QED
    BY <1>2, <1>6, <2>1
<1>8. 0 % B = 0
  BY <1>2
<1>9. v % B = Stored(i, g)
  BY <1>3, <1>8, Zenon DEF Stored, B
<1> QED
  BY <1>5, <1>7, <1>9, Zenon DEF Masked, B, v, T, Word

\* decode_memory_access() recovers the guest's access from the syndrome and
\* the frame, whatever the instruction.
THEOREM DecodeExact ==
    ASSUME NEW i \in AccessInstruction, NEW g \in GuestState,
           i.va % Pow2[FAULT_IPA_PAGE_SHIFT] = i.ipa % Pow2[FAULT_IPA_PAGE_SHIFT]
    PROVE  LET s == SyndromeOf(i)
               f == SavedFrame(g, i)
           IN  /\ decode_memory_access(s.iss, s.fipa, s.far, [n \in 0..31 |-> read_gpr(f, n)])
                      = IF i.isv THEN Decoded(i, g) ELSE None
               /\ Decoded(i, g) \in DecodedMemoryAccess
<1> DEFINE P == Pow2[FAULT_IPA_PAGE_SHIFT]
           registers == [n \in 0..31 |-> read_gpr(SavedFrame(g, i), n)]
<1>1. /\ i.op \in {"load", "store"} /\ i.width \in MemoryAccessWidth /\ i.reg \in 0..31
      /\ i.signed \in BOOLEAN /\ i.sf \in BOOLEAN /\ i.isv \in BOOLEAN /\ i.va \in Nat
      /\ i.ipa \in Stage2!U64
  BY Zenon DEF AccessInstruction
<1>2. i.ipa \in Nat
  BY <1>1, RegistryAssumption DEF Stage2!U64
<1>3. P \in Nat \ {0}
  BY WordsArePositive, Zenon
<1>4. SyndromeOf(i).iss = Iss(i) /\ SyndromeOf(i).far = i.va /\ SyndromeOf(i).fipa = i.ipa \div P
  BY <1>1, Zenon DEF SyndromeOf, IsAccess
<1>5. decode_fault_ipa(i.ipa \div P, i.va) = i.ipa
  <2>1. (i.ipa \div P) * P + (i.ipa % P) = i.ipa
    BY <1>2, <1>3
  <2> QED
    BY <2>1, Zenon DEF decode_fault_ipa
<1>6. registers[i.reg] = read_gpr(SavedFrame(g, i), i.reg)
  BY <1>1, Zenon
<1>7. registers[i.reg] # None /\ Masked(registers[i.reg], i.width) = Stored(i, g)
  BY <1>6, StoredValue, Zenon
<1> HIDE DEF registers, P
<1>8. decode_memory_access(Iss(i), i.ipa \div P, i.va, registers)
          = IF i.isv THEN Decoded(i, g) ELSE None
  <2>1. CASE ~i.isv
    BY <2>1, IssFields, Zenon DEF decode_memory_access
  <2>2. CASE i.isv
    <3>1. /\ decode_valid_instruction_syndrome(Iss(i))
          /\ decode_memory_access_is_write(Iss(i)) <=> i.op = "store"
          /\ decode_memory_access_width(Iss(i)) = i.width
          /\ decode_memory_access_sign_extend(Iss(i)) = i.signed
          /\ decode_memory_access_register_index(Iss(i)) = i.reg
          /\ decode_memory_access_register_width_64(Iss(i)) = i.sf
      BY <2>2, IssFields, Zenon
    <3> QED
      BY <1>5, <1>7, <2>2, <3>1, Zenon DEF decode_memory_access, Decoded
  <2> QED
    BY <1>1, <2>1, <2>2, Zenon
<1>9. Decoded(i, g) \in DecodedMemoryAccess
  <2>1. Stored(i, g) \in Word /\ 0 \in Word
    BY StoredValue, WordsArePositive, Zenon
  <2> QED
    BY <1>1, <1>2, <2>1, Zenon DEF Decoded, DecodedMemoryAccess
<1> QED
  BY <1>4, <1>8, <1>9, Zenon DEF registers, P

-----------------------------------------------------------------------------
(* The frame *)

\* The saved frame, and the frame after a write to a register, are frames.
LEMMA SavedIsFrame ==
    ASSUME NEW g \in GuestState, NEW i
    PROVE  SavedFrame(g, i) \in Frame
<1>1. /\ g.x \in [Registers -> Word] /\ g.pc \in Nat /\ g.pc + 4 \in Nat
      /\ g.spsr \in {"EL1h", "EL0t", "EL1h_masked"}
  BY DEF GuestState
<1>2. /\ \A n \in 0..18 : n \in Registers
      /\ \A n \in 0..9 : 19 + n \in Registers
      /\ 29 \in Registers /\ 30 \in Registers
  BY DEF Registers
<1> QED
  BY <1>1, <1>2, Zenon DEF SavedFrame, Frame

\* Writing a register in a frame gives a frame.
LEMMA WriteIsFrame ==
    ASSUME NEW f \in Frame, NEW n \in 0..31, NEW v \in Word
    PROVE  write_gpr(f, n, v) \in Frame
<1>1. CASE n \in 0..18
  <2>1. write_gpr(f, n, v) = [f EXCEPT !.registers[n] = v]
    BY <1>1 DEF write_gpr
  <2> QED
    BY <2>1 DEF Frame
<1>2. CASE n \in 19..28
  <2>1. write_gpr(f, n, v) = [f EXCEPT !.nonvolatile[n - 19] = v]
    BY <1>2 DEF write_gpr
  <2> QED
    BY <2>1 DEF Frame
<1>3. CASE n \in 29..31
  <2>1. n \notin 0..18 /\ n \notin 19..28 /\ (n = 29 \/ n = 30 \/ n = 31)
    BY <1>3
  <2> QED
    BY <2>1 DEF write_gpr, Frame
<1> QED
  BY <1>1, <1>2, <1>3

-----------------------------------------------------------------------------
(* Callbacks *)

\* Only a load of the counter that succeeds counts, and it returns the count.
LEMMA ReadResult ==
    ASSUME NEW count \in Word, NEW use, NEW offset, NEW width,
           NEW r \in ReadResults(use, offset, width, count)
    PROVE  LET counts == use = "filtered" /\ offset = 16 /\ r.result = "Ok" IN
           /\ r.result \in {"Ok", "Fault"} /\ r.value \in Word
           /\ r.counter = IF counts THEN cast_unsigned(count + 1) ELSE count
           /\ counts => r.value = count
<1>1. 0 \in Word
  BY WordsArePositive, Zenon
<1>2. CASE use = "filtered"
  <2>1. r = read_filtered_mmio(offset, width, count)
    BY <1>2, Zenon DEF ReadResults
  <2>2. CASE width = "U64" /\ offset = 16
    BY <1>2, <2>1, <2>2, Zenon DEF read_filtered_mmio
  <2>3. CASE ~(width = "U64" /\ offset = 16) /\ width = "U64" /\ offset \in DOMAIN FilteredValues
    <3>1. FilteredValues[offset] \in Word
      BY <2>3, ResultAssumption, Zenon
    <3> QED
      BY <1>2, <2>1, <2>3, <3>1, Zenon DEF read_filtered_mmio
  <2>4. CASE ~(width = "U64" /\ offset = 16) /\ ~(width = "U64" /\ offset \in DOMAIN FilteredValues)
    BY <1>1, <1>2, <2>1, <2>4, Zenon DEF read_filtered_mmio
  <2> QED
    BY <2>2, <2>3, <2>4, Zenon
<1>3. CASE use # "filtered"
  BY <1>1, <1>3, ResultAssumption DEF ReadResults
<1> QED
  BY <1>2, <1>3, Zenon

\* What the handler of a write can answer: the value is untouched and so is the counter.
LEMMA WriteResult ==
    ASSUME NEW count, NEW use, NEW offset, NEW width, NEW value,
           NEW r \in WriteResults(use, offset, width, value, count)
    PROVE  r.result \in {"Ok", "Fault"} /\ r.value = value /\ r.counter = count
BY DEF WriteResults, write_filtered_mmio

-----------------------------------------------------------------------------
(* The registry *)

\* find() is exact on the registry that the builder made: the handler of the
\* region that holds the address and the offset in it, or none.
FindExactly ==
    \A ipa \in Stage2!U64 :
        /\ \A k \in DOMAIN Regions :
               Regions[k].base_ipa <= ipa /\ ipa < Regions[k].end_ipa =>
                   Stage2!find(ipa) = [use |-> Regions[k].handler,
                                       offset |-> ipa - Regions[k].base_ipa]
        /\ (\A k \in DOMAIN Regions :
                ~(Regions[k].base_ipa <= ipa /\ ipa < Regions[k].end_ipa)) =>
                   Stage2!find(ipa) = [use |-> None, offset |-> 0]

\* The access of the guest that must reach a handler is the one that find()
\* has a callback for.
LEMMA RequiredExact ==
    ASSUME FindExactly, NEW i \in AccessInstruction, NEW g \in GuestState
    PROVE  LET match == Stage2!find(i.ipa)
               kind == IF i.op = "store" THEN "Write" ELSE "Read"
               called == i.isv /\ match.use # None /\ HasCallback(match.use, kind)
           IN  /\ called => /\ match.offset \in Nat
                            /\ match = [use |-> match.use, offset |-> match.offset]
                            /\ match.use \in {"filtered", "read_only", "write_only"}
                            /\ RequiredAccess(i, g) =
                                   [use |-> match.use, offset |-> match.offset,
                                    width |-> i.width,
                                    stored |-> IF i.op = "store" THEN Stored(i, g) ELSE 0]
               /\ ~called => RequiredAccess(i, g) = None
<1> DEFINE match == Stage2!find(i.ipa)
           kind == IF i.op = "store" THEN "Write" ELSE "Read"
           Covers(k) == Regions[k].base_ipa <= i.ipa /\ i.ipa < Regions[k].end_ipa
           covering == {k \in DOMAIN Regions : Covers(k) /\ HasCallback(Regions[k].handler, kind)}
           stored == IF i.op = "store" THEN Stored(i, g) ELSE 0
<1>1. /\ i.op \in {"load", "store"} /\ i.ipa \in Stage2!U64 /\ i.isv \in BOOLEAN
  BY Zenon DEF AccessInstruction
<1>2. RequiredAccess(i, g) =
          IF ~i.isv \/ covering = {} THEN None
          ELSE [use |-> Regions[CHOOSE k \in covering : TRUE].handler,
                offset |-> i.ipa - Regions[CHOOSE k \in covering : TRUE].base_ipa,
                width |-> i.width, stored |-> stored]
  BY <1>1, Zenon DEF RequiredAccess, Stored
<1>3. ASSUME NEW k \in DOMAIN Regions, Covers(k)
      PROVE  /\ match = [use |-> Regions[k].handler, offset |-> i.ipa - Regions[k].base_ipa]
             /\ i.ipa - Regions[k].base_ipa \in Nat
             /\ Regions[k].handler # None
             /\ Regions[k].handler \in {"filtered", "read_only", "write_only"}
  <2>1. match = [use |-> Regions[k].handler, offset |-> i.ipa - Regions[k].base_ipa]
    BY <1>1, <1>3, Zenon DEF FindExactly
  <2>2. Regions[k] \in Stage2!Region
    BY RegistryAssumption
  <2>3. Regions[k].base_ipa \in Nat /\ i.ipa \in Nat
    BY <1>1, <2>2, RegistryAssumption DEF Stage2!Region, Stage2!U64
  <2>4. Regions[k].handler \in {"filtered", "read_only", "write_only"}
    BY <2>2, Zenon DEF Stage2!Region
  <2> HIDE DEF match
  <2>5. i.ipa - Regions[k].base_ipa \in Nat
    BY <1>3, <2>3
  <2>6. Regions[k].handler # None
    BY <2>4, NoneAssumption, Zenon
  <2> QED
    BY <2>1, <2>4, <2>5, <2>6, Zenon
<1>4. match.use # None => \E k \in DOMAIN Regions : Covers(k)
  BY <1>1 DEF FindExactly
<1> HIDE DEF match, covering, stored, kind
<1>5. ASSUME match.use # None, HasCallback(match.use, kind)
      PROVE  covering # {}
  <2>1. PICK k \in DOMAIN Regions : Covers(k)
    BY <1>4, <1>5, Zenon
  <2>2. match.use = Regions[k].handler
    BY <1>3, <2>1
  <2> QED
    BY <1>5, <2>1, <2>2, Zenon DEF covering
<1>6. ASSUME covering # {}
      PROVE  /\ match.use # None /\ HasCallback(match.use, kind) /\ match.offset \in Nat
             /\ match = [use |-> match.use, offset |-> match.offset]
             /\ match.offset = i.ipa - Regions[CHOOSE k \in covering : TRUE].base_ipa
             /\ match.use = Regions[CHOOSE k \in covering : TRUE].handler
             /\ match.use \in {"filtered", "read_only", "write_only"}
  <2> DEFINE k == CHOOSE k \in covering : TRUE
  <2>1. k \in covering
    BY <1>6, Zenon
  <2> HIDE DEF k
  <2>2. k \in DOMAIN Regions /\ Covers(k) /\ HasCallback(Regions[k].handler, kind)
    BY <2>1, Zenon DEF covering
  <2>3. /\ match = [use |-> Regions[k].handler, offset |-> i.ipa - Regions[k].base_ipa]
        /\ i.ipa - Regions[k].base_ipa \in Nat /\ Regions[k].handler # None
        /\ Regions[k].handler \in {"filtered", "read_only", "write_only"}
    BY <1>3, <2>2, Zenon
  <2>4. match.use = Regions[k].handler /\ match.offset = i.ipa - Regions[k].base_ipa
    BY <2>3, Zenon
  <2> QED
    BY <2>2, <2>3, <2>4, Zenon DEF k
<1>7. ASSUME i.isv, match.use # None, HasCallback(match.use, kind)
      PROVE  /\ match.offset \in Nat /\ match = [use |-> match.use, offset |-> match.offset]
             /\ match.use \in {"filtered", "read_only", "write_only"}
             /\ RequiredAccess(i, g) = [use |-> match.use, offset |-> match.offset,
                                        width |-> i.width, stored |-> stored]
  BY <1>2, <1>5, <1>6, <1>7, Zenon
<1>8. ASSUME ~(i.isv /\ match.use # None /\ HasCallback(match.use, kind))
      PROVE  RequiredAccess(i, g) = None
  BY <1>2, <1>6, <1>8, Zenon
<1> QED
  BY <1>7, <1>8, Zenon DEF match, stored, kind

\* The answer is one that the device may give to the guest's access.
Replied(i, g, a, count, count_after) ==
    IF a = None THEN RequiredAccess(i, g) = None
    ELSE /\ RequiredAccess(i, g) # None /\ a.result \in {"Ok", "Fault"}
         /\ \E r \in Replies(i, RequiredAccess(i, g), count) :
               r.result = a.result /\ r.value = a.value /\ r.counter = count_after

\* try_memory_access_handler() asks the handler for the guest's own access, and
\* for nothing else; the frame is that of the executed instruction or the old
\* one, and the counter counts the loads of it that succeed.
LEMMA AccessHandled ==
    ASSUME FindExactly, counter \in Word, NEW i \in AccessInstruction, NEW g \in GuestState,
           i.width = "U64" => i.sf,
           i.va % Pow2[FAULT_IPA_PAGE_SHIFT] = i.ipa % Pow2[FAULT_IPA_PAGE_SHIFT],
           NEW done \in try_memory_access_handler(SavedFrame(g, i), SyndromeOf(i))
    PROVE  LET f == SavedFrame(g, i)
               a == done.answer
               counted == CountsLoad(i) /\ a # None /\ a.result = "Ok"
           IN  /\ Asked(i, g, a) /\ Replied(i, g, a, counter, done.counter)
               /\ done.ok <=> (a # None /\ a.result = "Ok")
               /\ done.ok =>
                     /\ a.value \in Word
                     /\ done.frame = advance_pc(IF i.op = "store" THEN f
                                                ELSE write_gpr(f, i.reg, Loaded(a.value, i)))
               /\ ~done.ok => done.frame = f
               /\ done.counter = IF counted THEN cast_unsigned(counter + 1) ELSE counter
               /\ counted => a.value = counter
<1> DEFINE f == SavedFrame(g, i)
           s == SyndromeOf(i)
           a == done.answer
           counted == CountsLoad(i) /\ a # None /\ a.result = "Ok"
           decoded == decode_memory_access(s.iss, s.fipa, s.far, [n \in 0..31 |-> read_gpr(f, n)])
           match == Stage2!find(decoded.ipa)
           results == IF decoded.kind = "Read"
                        THEN ReadResults(match.use, match.offset, decoded.width, counter)
                        ELSE WriteResults(match.use, match.offset, decoded.width,
                                          decoded.value, counter)
           Written(r) == IF decoded.kind # "Read" THEN f
                         ELSE write_gpr(f, decoded.register_index,
                                  extend_read_result(r.value, decoded.width,
                                      decoded.sign_extend, decoded.register_width_64))
           called == decoded # None /\ match.use # None /\ HasCallback(match.use, decoded.kind)
           Done(r) == [ok |-> r.result = "Ok" /\ Written(r) # None,
                       frame |-> IF r.result = "Ok" /\ Written(r) # None
                                   THEN advance_pc(Written(r)) ELSE f,
                       counter |-> r.counter,
                       answer |-> [kind |-> decoded.kind, offset |-> match.offset,
                                   width |-> decoded.width, value |-> r.value,
                                   result |-> r.result]]
<1>1. /\ i.op \in {"load", "store"} /\ i.width \in MemoryAccessWidth /\ i.reg \in 0..31
      /\ i.isv \in BOOLEAN
  BY Zenon DEF AccessInstruction
<1>2. done \in IF ~called
                 THEN {[ok |-> FALSE, frame |-> f, counter |-> counter, answer |-> None]}
                 ELSE {Done(r) : r \in results}
  BY Zenon DEF try_memory_access_handler
<1>3. decoded = IF i.isv THEN Decoded(i, g) ELSE None
  BY DecodeExact, Zenon
<1>4. Decoded(i, g) \in DecodedMemoryAccess /\ Decoded(i, g) # None
  BY DecodeExact, NoneAssumption, Zenon
<1>5. f \in Frame
  BY SavedIsFrame, Zenon
<1> HIDE DEF f, s, decoded, match, results, Written, called, Done, a, counted
<1>6. called <=> i.isv /\ Stage2!find(i.ipa).use # None
                 /\ HasCallback(Stage2!find(i.ipa).use, IF i.op = "store" THEN "Write" ELSE "Read")
  BY <1>3, <1>4, Zenon DEF Decoded, called, match
<1>7. CASE ~called
  <2>1. done = [ok |-> FALSE, frame |-> f, counter |-> counter, answer |-> None]
    BY <1>2, <1>7, Zenon
  <2>2. RequiredAccess(i, g) = None
    BY <1>6, <1>7, RequiredExact, Zenon
  <2> QED
    BY <2>1, <2>2, Zenon DEF Asked, Replied, f, a, counted
<1>8. CASE called
  <2>1. PICK r \in results : done = Done(r)
    BY <1>2, <1>8, Zenon
  <2>2. i.isv /\ decoded = Decoded(i, g)
    BY <1>3, <1>6, <1>8, Zenon
  <2>3. /\ decoded.ipa = i.ipa /\ decoded.width = i.width /\ decoded.register_index = i.reg
        /\ decoded.kind = IF i.op = "store" THEN "Write" ELSE "Read"
        /\ decoded.sign_extend = i.signed /\ decoded.register_width_64 = i.sf
        /\ i.op = "store" => decoded.value = Stored(i, g)
    BY <2>2, Zenon DEF Decoded
  <2>4. /\ match.offset \in Nat /\ match = [use |-> match.use, offset |-> match.offset]
        /\ match.use \in {"filtered", "read_only", "write_only"}
        /\ RequiredAccess(i, g) = [use |-> match.use, offset |-> match.offset,
                                   width |-> i.width,
                                   stored |-> IF i.op = "store" THEN Stored(i, g) ELSE 0]
    BY <1>6, <1>8, <2>3, RequiredExact DEF match
  <2>5. IF i.op = "store" THEN Stored(i, g) \in Word ELSE TRUE
    BY <1>4, Zenon DEF Decoded, DecodedMemoryAccess
  <2>6. RequiredAccess(i, g) # None
    <3>1. 0 \in Word
      BY WordsArePositive, Zenon
    <3>2. RequiredAccess(i, g) \in [use : {"filtered", "read_only", "write_only"},
                                    offset : Nat, width : MemoryAccessWidth, stored : Word]
      BY <1>1, <2>4, <2>5, <3>1
    <3> QED
      BY <3>2, NoneAssumption, Zenon
  <2>7. CountsLoad(i) <=> i.op = "load" /\ match.use = "filtered" /\ match.offset = 16
    <3>1. match = Stage2!find(i.ipa)
      BY <2>3, Zenon DEF match
    <3>2. match = [use |-> "filtered", offset |-> 16]
              <=> match.use = "filtered" /\ match.offset = 16
      BY <2>4
    <3> QED
      BY <3>1, <3>2, Zenon DEF CountsLoad
  <2>8. /\ r.result \in {"Ok", "Fault"} /\ r.value \in Word
        /\ i.op = "store" => r.value = Stored(i, g)
        /\ r.counter = IF CountsLoad(i) /\ r.result = "Ok" THEN cast_unsigned(counter + 1) ELSE counter
        /\ CountsLoad(i) /\ r.result = "Ok" => r.value = counter
    <3>1. CASE i.op = "load"
      <4>1. r \in ReadResults(match.use, match.offset, i.width, counter)
        BY <2>3, <3>1, Zenon DEF results
      <4> QED
        BY <2>7, <3>1, <4>1, ReadResult
    <3>2. CASE i.op = "store"
      <4>1. r \in WriteResults(match.use, match.offset, i.width, Stored(i, g), counter)
        BY <2>3, <3>2, Zenon DEF results
      <4>2. r.result \in {"Ok", "Fault"} /\ r.value = Stored(i, g) /\ r.counter = counter
        BY <4>1, WriteResult
      <4> QED
        BY <2>5, <2>7, <3>2, <4>2, Zenon
    <3> QED
      BY <1>1, <3>1, <3>2, Zenon
  <2>9. Written(r) = (IF i.op = "store" THEN f ELSE write_gpr(f, i.reg, Loaded(r.value, i)))
        /\ Written(r) # None
    <3>1. r.value \in Nat
      BY <2>8, WordsArePositive, Zenon
    <3>2. /\ extend_read_result(r.value, i.width, i.signed, i.sf) = Loaded(r.value, i)
          /\ Loaded(r.value, i) \in Word
      BY <3>1, ExtendExact, Zenon
    <3>3. Written(r) = IF i.op = "store" THEN f ELSE write_gpr(f, i.reg, Loaded(r.value, i))
      BY <1>1, <2>3, <3>2, Zenon DEF Written
    <3>4. write_gpr(f, i.reg, Loaded(r.value, i)) \in Frame
      BY <1>1, <1>5, <3>2, WriteIsFrame, Zenon
    <3> QED
      BY <1>5, <3>3, <3>4, NoneAssumption, Zenon
  <2>10. a = [kind |-> decoded.kind, offset |-> match.offset, width |-> decoded.width,
              value |-> r.value, result |-> r.result]
    BY <2>1, Zenon DEF Done, a
  <2>11. a \in Answer /\ a # None
    <3>1. decoded.kind \in {"Read", "Write"} /\ decoded.width \in MemoryAccessWidth
      BY <1>1, <2>3, Zenon
    <3>2. a \in Answer
      BY <2>4, <2>8, <2>10, <3>1, Zenon DEF Answer
    <3> QED
      BY <3>2, NoneAssumption, Zenon
  <2>12. /\ done.ok <=> r.result = "Ok"
         /\ done.ok => done.frame = advance_pc(Written(r))
         /\ ~done.ok => done.frame = f
         /\ done.counter = r.counter
    BY <2>1, <2>9, Zenon DEF Done
  <2>13. Asked(i, g, a)
    <3>1. /\ RequiredAccess(i, g).offset = match.offset
          /\ RequiredAccess(i, g).width = i.width
          /\ i.op = "store" => RequiredAccess(i, g).stored = Stored(i, g)
      BY <2>4
    <3>2. /\ a.offset = match.offset /\ a.width = i.width /\ a.value = r.value
          /\ a.kind = IF i.op = "load" THEN "Read" ELSE "Write"
      BY <1>1, <2>3, <2>10, Zenon
    <3>3. i.op = "store" => a.value = RequiredAccess(i, g).stored
      BY <2>8, <3>1, <3>2, Zenon
    <3> QED
      BY <2>6, <2>11, <3>1, <3>2, <3>3, Zenon DEF Asked
  <2>14. a.result = r.result /\ a.value = r.value
    BY <2>10, Zenon
  <2>15. r \in Replies(i, RequiredAccess(i, g), counter)
    <3>1. /\ RequiredAccess(i, g).use = match.use /\ RequiredAccess(i, g).width = i.width
          /\ RequiredAccess(i, g).offset = match.offset
          /\ i.op = "store" => RequiredAccess(i, g).stored = Stored(i, g)
      BY <2>4
    <3> QED
      BY <1>1, <2>1, <2>3, <3>1, Zenon DEF Replies, results
  <2>16. Replied(i, g, a, counter, done.counter)
    BY <2>6, <2>8, <2>11, <2>12, <2>14, <2>15, Zenon DEF Replied
  <2> QED
    BY <2>8, <2>9, <2>11, <2>12, <2>13, <2>14, <2>16 DEF f, a, counted
<1> QED
  BY <1>7, <1>8, Zenon DEF a, counted, f

-----------------------------------------------------------------------------
(* The inductive invariant *)

\* What the guest must see of its instruction.
Sees(i, g, a, after) ==
    IF IsAccess(i)
      THEN /\ Asked(i, g, a)
           /\ IF a # None /\ a.result = "Ok" THEN Emulated(i, g, a, after)
                                             ELSE Aborted(i, g, after)
      ELSE Answered(g, a, after)

\* What a core knows in each phase: until it returns, restoring the frame would
\* show the guest its instruction executed.
CoreInv(c) ==
    /\ phase[c] = "guest" =>
          /\ frame[c] = None
          /\ IF insn[c] = None THEN answer[c] = None
             ELSE Sees(insn[c], before[c], answer[c], guest[c])
    /\ phase[c] = "handle_sync_lower" =>
          /\ insn[c] \in program[c].instructions /\ before[c] = guest[c] /\ answer[c] = None
          /\ frame[c] = SavedFrame(guest[c], insn[c]) /\ syndrome[c] = SyndromeOf(insn[c])
    /\ phase[c] = "return" =>
          /\ insn[c] \in program[c].instructions /\ frame[c] \in Frame
          /\ Sees(insn[c], before[c], answer[c], Restored(guest[c], frame[c]))
    /\ phase[c] = "panic" => frame[c] \in Frame

TrapInv ==
    /\ phase \in [Cores -> {"guest", "handle_sync_lower", "return", "panic"}]
    /\ program \in Programs /\ guest \in [Cores -> GuestState]
    /\ DOMAIN frame = Cores /\ DOMAIN syndrome = Cores
    /\ DOMAIN insn = Cores /\ DOMAIN before = Cores /\ DOMAIN answer = Cores
    /\ \A c \in Cores : CoreInv(c)

\* The cores that hold a value of the counter, and those that may take one.
Held == {c \in Cores : Holding(c)}

InFlight ==
    {c \in Cores : phase[c] \in {"handle_sync_lower", "return"} /\ CountsLoad(insn[c])}

\* No two loads have the same value, and the loads under way are few.
CounterInv ==
    /\ counter \in Nat
    /\ loaded \cup {answer[c].value : c \in Held} = 0..counter - 1
    /\ \A c \in Held : answer[c].value \notin loaded
    /\ \A c, d \in Held : answer[c].value = answer[d].value => c = d
    /\ Cardinality(loaded) + Cardinality(Held) = counter
    /\ Cardinality(loaded) + Cardinality(InFlight) <= MAX_COUNTER_LOADS + Cardinality(Cores)

-----------------------------------------------------------------------------
(* Restoring the frame *)

\* The guest after the frame is restored is a state of the guest.
LEMMA RestoredIsState ==
    ASSUME NEW g \in GuestState, NEW f \in Frame
    PROVE  Restored(g, f) \in GuestState
<1>1. /\ f.registers \in [0..18 -> Word] /\ f.nonvolatile \in [0..9 -> Word]
      /\ f.fp \in Word /\ f.sp \in Word /\ f.elr \in Nat
      /\ f.spsr \in {"EL1h", "EL0t", "EL1h_masked"}
  BY Zenon DEF Frame
<1>2. ASSUME NEW n \in Registers
      PROVE  RestoredRegister(f, n) \in Word
  <2>1. CASE n \in 0..18
    BY <1>1, <2>1 DEF RestoredRegister
  <2>2. CASE n \in 19..28
    <3>1. n - 19 \in 0..9 /\ n \notin 0..18
      BY <2>2
    <3> QED
      BY <1>1, <2>2, <3>1, Zenon DEF RestoredRegister
  <2>3. CASE n \notin 0..28
    <3>1. (n = 29 \/ n = 30) /\ n \notin 0..18 /\ n \notin 19..28
      BY <2>3 DEF Registers
    <3> QED
      BY <1>1, <3>1, Zenon DEF RestoredRegister
  <2> QED
    BY <2>1, <2>2, <2>3
<1>3. [n \in Registers |-> RestoredRegister(f, n)] \in [Registers -> Word]
  BY <1>2, Zenon
<1> QED
  BY <1>1, <1>3, Zenon DEF GuestState, Restored

\* What the registers of the frame are for the guest.
Restores(f, x) ==
    /\ \A n \in 0..18 : f.registers[n] = x[n]
    /\ \A n \in 19..28 : f.nonvolatile[n - 19] = x[n]
    /\ f.fp = x[29] /\ f.sp = x[30]

\* A frame that has the values of x restores them.
LEMMA RestoredValues ==
    ASSUME NEW g \in GuestState, NEW f, NEW x \in [Registers -> Word], Restores(f, x)
    PROVE  Restored(g, f) = [g EXCEPT !.x = x, !.pc = f.elr, !.spsr = f.spsr]
<1>1. ASSUME NEW n \in Registers
      PROVE  RestoredRegister(f, n) = x[n]
  <2>1. CASE n \in 0..18
    BY <2>1, Zenon DEF Restores, RestoredRegister
  <2>2. CASE n \in 19..28
    <3>1. n \notin 0..18
      BY <2>2
    <3> QED
      BY <2>2, <3>1 DEF Restores, RestoredRegister
  <2>3. CASE n \notin 0..28
    <3>1. (n = 29 \/ n = 30) /\ n \notin 0..18 /\ n \notin 19..28
      BY <2>3 DEF Registers
    <3> QED
      BY <3>1, Zenon DEF Restores, RestoredRegister
  <2> QED
    BY <2>1, <2>2, <2>3
<1>2. [n \in Registers |-> RestoredRegister(f, n)] = x
  BY <1>1, Zenon
<1> QED
  BY <1>2, Zenon DEF Restored

\* The saved frame restores the guest's registers.
LEMMA SavedRestores ==
    ASSUME NEW g \in GuestState, NEW i
    PROVE  /\ Restores(SavedFrame(g, i), g.x)
           /\ SavedFrame(g, i).elr = IF i.op = "hvc" THEN g.pc + 4 ELSE g.pc
           /\ SavedFrame(g, i).spsr = g.spsr
<1>1. \A n \in 19..28 : n - 19 \in 0..9 /\ 19 + (n - 19) = n
  OBVIOUS
<1> QED
  BY <1>1, Zenon DEF SavedFrame, Restores

\* After write_gpr() it restores them with the one written.
LEMMA WriteRestores ==
    ASSUME NEW f \in Frame, NEW x \in [Registers -> Word], Restores(f, x),
           NEW r \in 0..31, NEW v \in Word
    PROVE  /\ Restores(write_gpr(f, r, v), [n \in Registers |-> IF n = r THEN v ELSE x[n]])
           /\ write_gpr(f, r, v).elr = f.elr /\ write_gpr(f, r, v).spsr = f.spsr
<1> DEFINE y == [n \in Registers |-> IF n = r THEN v ELSE x[n]]
<1>1. \A n \in 0..30 : y[n] = IF n = r THEN v ELSE x[n]
  BY Zenon DEF Registers
<1> HIDE DEF y
<1>2. f.registers \in [0..18 -> Word] /\ f.nonvolatile \in [0..9 -> Word]
  BY Zenon DEF Frame
<1>3. CASE r \in 0..18
  <2>1. write_gpr(f, r, v) = [f EXCEPT !.registers[r] = v]
    BY <1>3 DEF write_gpr
  <2> QED
    BY <1>1, <1>2, <1>3, <2>1 DEF Restores, Frame, y
<1>4. CASE r \in 19..28
  <2>1. write_gpr(f, r, v) = [f EXCEPT !.nonvolatile[r - 19] = v]
    BY <1>4 DEF write_gpr
  <2>2. \A n \in 19..28 : n - 19 \in 0..9 /\ (n - 19 = r - 19 <=> n = r)
    BY <1>4
  <2> QED
    BY <1>1, <1>2, <1>4, <2>1, <2>2 DEF Restores, Frame, y
<1>5. CASE r \in 29..31
  <2>1. r \notin 0..18 /\ r \notin 19..28 /\ (r = 29 \/ r = 30 \/ r = 31)
    BY <1>5
  <2>2. write_gpr(f, r, v) = IF r = 29 THEN [f EXCEPT !.fp = v]
                             ELSE IF r = 30 THEN [f EXCEPT !.sp = v] ELSE f
    BY <2>1 DEF write_gpr
  <2>3. \A n \in 0..28 : y[n] = x[n]
    BY <1>1, <1>5
  <2>4. /\ y[29] = IF r = 29 THEN v ELSE x[29]
        /\ y[30] = IF r = 30 THEN v ELSE x[30]
    BY <1>1
  <2>5. DOMAIN f = {"registers", "fp", "sp", "elr", "spsr", "nonvolatile"}
    BY Zenon DEF Frame
  <2>6. /\ write_gpr(f, r, v).registers = f.registers
        /\ write_gpr(f, r, v).nonvolatile = f.nonvolatile
        /\ write_gpr(f, r, v).fp = IF r = 29 THEN v ELSE f.fp
        /\ write_gpr(f, r, v).sp = IF r = 30 THEN v ELSE f.sp
        /\ write_gpr(f, r, v).elr = f.elr /\ write_gpr(f, r, v).spsr = f.spsr
    BY <2>2, <2>5
  <2>7. /\ \A n \in 0..18 : f.registers[n] = y[n]
        /\ \A n \in 19..28 : f.nonvolatile[n - 19] = y[n]
    BY <2>3 DEF Restores
  <2>8. /\ write_gpr(f, r, v).fp = y[29]
        /\ write_gpr(f, r, v).sp = y[30]
    BY <2>4, <2>6, Zenon DEF Restores
  <2>9. Restores(write_gpr(f, r, v), y)
    BY <2>6, <2>7, <2>8 DEF Restores
  <2> QED
    BY <2>6, <2>9, Zenon DEF y
<1> QED
  BY <1>3, <1>4, <1>5

\* A load that returns v, or a store: the registers and the program counter.
LEMMA EmulatedFrame ==
    ASSUME NEW i \in AccessInstruction, NEW g \in GuestState, NEW a, a.value \in Word,
           i.width = "U64" => i.sf
    PROVE  LET f == SavedFrame(g, i)
               done == advance_pc(IF i.op = "store" THEN f
                                  ELSE write_gpr(f, i.reg, Loaded(a.value, i)))
           IN  done \in Frame /\ Emulated(i, g, a, Restored(g, done))
<1> DEFINE f == SavedFrame(g, i)
           v == Loaded(a.value, i)
           written == IF i.op = "store" THEN f ELSE write_gpr(f, i.reg, v)
           done == advance_pc(written)
           x == [n \in Registers |-> IF i.op = "load" /\ n = i.reg THEN v ELSE g.x[n]]
<1>1. i.op \in {"load", "store"} /\ i.reg \in 0..31
  BY Zenon DEF AccessInstruction
<1>2. v \in Word
  <2>1. a.value \in Nat
    BY WordsArePositive, Zenon
  <2> QED
    BY <2>1, ExtendExact, Zenon
<1>3. g.x \in [Registers -> Word] /\ g.pc \in Nat
  BY Zenon DEF GuestState
<1>4. f \in Frame /\ Restores(f, g.x) /\ f.elr = g.pc /\ f.spsr = g.spsr
  <2>1. i.op # "hvc"
    BY <1>1, Zenon
  <2> QED
    BY <2>1, SavedIsFrame, SavedRestores, Zenon
<1> HIDE DEF f, v
<1>5. x \in [Registers -> Word]
  BY <1>2, <1>3, Zenon
<1>6. written \in Frame /\ Restores(written, x) /\ written.elr = g.pc /\ written.spsr = g.spsr
  <2>1. CASE i.op = "load"
    <3>1. x = [n \in Registers |-> IF n = i.reg THEN v ELSE g.x[n]]
      BY <2>1, Zenon
    <3>2. written = write_gpr(f, i.reg, v)
      BY <2>1, Zenon
    <3> HIDE DEF x, written
    <3> QED
      BY <1>1, <1>2, <1>3, <1>4, <3>1, <3>2, WriteIsFrame, WriteRestores
  <2>2. CASE i.op = "store"
    <3>1. x = g.x
      BY <1>3, <2>2, Zenon
    <3>2. written = f
      BY <2>2, Zenon
    <3> HIDE DEF x, written
    <3> QED
      BY <1>4, <3>1, <3>2, Zenon
  <2> QED
    BY <1>1, <2>1, <2>2, Zenon
<1> HIDE DEF x, written
<1>7. done \in Frame /\ done.elr = g.pc + 4 /\ done.spsr = g.spsr
  BY <1>3, <1>6 DEF advance_pc, Frame
<1>8. Restores(done, x)
  BY <1>6, Zenon DEF advance_pc, Frame, Restores
<1> HIDE DEF done
<1>9. Restored(g, done) = [g EXCEPT !.x = x, !.pc = g.pc + 4, !.spsr = g.spsr]
  <2>1. Restored(g, done) = [g EXCEPT !.x = x, !.pc = done.elr, !.spsr = done.spsr]
    BY <1>5, <1>8, RestoredValues
  <2> QED
    BY <1>7, <2>1, Zenon
<1>10. Restored(g, done) = [g EXCEPT !.pc = g.pc + 4, !.x = x]
  BY <1>9, Zenon DEF GuestState
<1> QED
  BY <1>7, <1>10, Zenon DEF Emulated, x, done, written, f, v

\* inject_data_abort() is the entry of an exception at the instruction.
LEMMA AbortedFrame ==
    ASSUME NEW i \in AccessInstruction, NEW g \in GuestState
    PROVE  LET f == SavedFrame(g, i)
               entry == InjectedGuest(g, f, SyndromeOf(i))
               injected == InjectedFrame(g, f)
           IN  /\ entry \in GuestState /\ injected \in Frame
               /\ Aborted(i, g, Restored(entry, injected))
<1> DEFINE f == SavedFrame(g, i)
           entry == InjectedGuest(g, f, SyndromeOf(i))
           injected == InjectedFrame(g, f)
<1>1. /\ i.op \in {"load", "store"} /\ i.va \in Nat /\ i.reg \in 0..31
      /\ i.isv \in BOOLEAN /\ i.width \in MemoryAccessWidth
  BY Zenon DEF AccessInstruction
<1>2. /\ g.x \in [Registers -> Word] /\ g.pc \in Nat /\ g.vbar_el1 \in Nat
      /\ g.spsr \in {"EL1h", "EL0t", "EL1h_masked"}
  BY Zenon DEF GuestState
<1>3. f \in Frame /\ Restores(f, g.x) /\ f.elr = g.pc /\ f.spsr = g.spsr
  <2>1. i.op # "hvc"
    BY <1>1, Zenon
  <2> QED
    BY <2>1, SavedIsFrame, SavedRestores, Zenon
<1>4. Iss(i) \in Nat
  BY IssFields, Zenon
<1>5. SyndromeOf(i).far = i.va /\ SyndromeOf(i).iss = Iss(i)
  BY <1>1, Zenon DEF SyndromeOf, IsAccess
<1> HIDE DEF f
<1>6. entry = [g EXCEPT !.elr_el1 = g.pc, !.spsr_el1 = g.spsr, !.far_el1 = i.va,
                        !.esr_el1 = [ec |-> EC_DATA_ABORT_SAME_EL, iss |-> Iss(i)]]
  BY <1>3, <1>5, Zenon DEF InjectedGuest
<1>7. entry \in GuestState
  <2> DEFINE esr == [ec |-> EC_DATA_ABORT_SAME_EL, iss |-> Iss(i)]
  <2>1. esr \in [ec : Nat, iss : Nat]
    BY <1>4, Zenon DEF EC_DATA_ABORT_SAME_EL
  <2>2. entry = [g EXCEPT !.elr_el1 = g.pc, !.spsr_el1 = g.spsr, !.far_el1 = i.va,
                          !.esr_el1 = esr]
    BY <1>6, Zenon
  <2> HIDE DEF esr, entry
  <2> QED
    BY <1>1, <1>2, <2>1, <2>2, Zenon DEF GuestState
<1>8. /\ entry.x = g.x /\ entry.vbar_el1 = g.vbar_el1 /\ entry.elr_el1 = g.pc
      /\ entry.spsr_el1 = g.spsr /\ entry.far_el1 = i.va
      /\ entry.esr_el1 = [ec |-> EC_DATA_ABORT_SAME_EL, iss |-> Iss(i)]
  BY <1>6, Zenon DEF GuestState
<1> HIDE DEF entry
<1>9. /\ injected \in Frame /\ injected.elr = g.vbar_el1 + 512
      /\ injected.spsr = "EL1h_masked"
  <2> DEFINE vector == g.vbar_el1 + 512
  <2>1. vector \in Nat
    BY <1>2
  <2>2. injected = [f EXCEPT !.elr = vector, !.spsr = "EL1h_masked"]
    BY Zenon DEF InjectedFrame
  <2> HIDE DEF injected, vector
  <2>3. injected \in Frame
    BY <1>3, <2>1, <2>2, Zenon DEF Frame
  <2>4. injected.elr = vector /\ injected.spsr = "EL1h_masked"
    BY <1>3, <2>2, Zenon DEF Frame
  <2> QED
    BY <2>3, <2>4, Zenon DEF vector
<1>10. Restores(injected, g.x)
  BY <1>3 DEF InjectedFrame, Frame, Restores
<1> HIDE DEF injected
<1>11. Restored(entry, injected) =
          [entry EXCEPT !.x = g.x, !.pc = g.vbar_el1 + 512, !.spsr = "EL1h_masked"]
  <2>1. Restored(entry, injected) =
            [entry EXCEPT !.x = g.x, !.pc = injected.elr, !.spsr = injected.spsr]
    <3>1. g.x \in [Registers -> Word]
      BY <1>2, Zenon
    <3> QED
      BY <1>7, <1>10, <3>1, RestoredValues, Zenon
  <2> QED
    BY <1>9, <2>1
<1>12. Aborted(i, g, Restored(entry, injected))
  BY <1>7, <1>8, <1>11 DEF Aborted, GuestState
<1> QED
  BY <1>7, <1>9, <1>12, Zenon DEF entry, injected, f

\* error_to_u64() and cast_unsigned() of an error are its two's complement.
LEMMA NegativeCast ==
    /\ \A e \in HvcErrors : cast_unsigned(e) = Pow2[bits("U64")] + e /\ cast_unsigned(e) \in Word
    /\ cast_unsigned(-1) = Pow2[bits("U64")] - 1 /\ cast_unsigned(-1) \in Word
<1> DEFINE M == Pow2[bits("U64")]
<1>1. M \in Nat \ {0} /\ M > 1
  <2>1. "U64" \in MemoryAccessWidth
    BY Zenon DEF MemoryAccessWidth
  <2> QED
    BY <2>1, Masks
<1>2. Word = 0..M - 1 /\ \A n : cast_unsigned(n) = n % M
  BY Zenon DEF Word, cast_unsigned
<1> HIDE DEF M
<1>3. ASSUME NEW e \in Int, e + M \in 0..M - 1
      PROVE  cast_unsigned(e) = M + e /\ cast_unsigned(e) \in Word
  <2>1. e % M = e + M
    BY <1>1, <1>3, ReducedOnce, Zenon
  <2> QED
    BY <1>1, <1>2, <1>3, <2>1
<1>4. ASSUME NEW e \in HvcErrors
      PROVE  e \in Int /\ e + M \in 0..M - 1
  <2>1. PICK n \in Word \ {0} : e = -n
    BY Zenon DEF HvcErrors
  <2> QED
    BY <1>1, <1>2, <2>1
<1>5. -1 \in Int /\ -1 + M \in 0..M - 1
  BY <1>1
<1>6. cast_unsigned(-1) = M + (-1) /\ cast_unsigned(-1) \in Word
  BY <1>3, <1>5, Zenon
<1>7. M + (-1) = M - 1
  BY <1>1, Zenon
<1> QED
  BY <1>3, <1>4, <1>6, <1>7, Zenon DEF M

\* A call returns a response of the platform or of PSCI.
LEMMA CallResultTyped ==
    ASSUME NEW id, NEW r \in CallResults(id)
    PROVE  r \in HvcResult
<1>1. CASE id \in PsciIds
  <2>1. 0 \in Word
    BY WordsArePositive, Zenon
  <2>2. ASSUME NEW v \in PsciValues
        PROVE  HvcResponse(v) \in HvcResult
    <3>1. v \in Word
      BY ResultAssumption, Zenon
    <3>2. <<v, 0, 0, 0>> \in [1..4 -> Word]
      BY <2>1, <3>1
    <3> QED
      BY <3>2, Zenon DEF HvcResponse, HvcResult
  <2>3. [kind : {"Err"}, error : PsciErrors] \subseteq HvcResult
    BY ResultAssumption, Zenon DEF HvcResult
  <2> QED
    BY <1>1, <2>2, <2>3, Zenon DEF CallResults, try_handle_psci
<1>2. CASE id \notin PsciIds /\ id \in DOMAIN PlatformHvc
  BY <1>2, ResultAssumption, Zenon DEF CallResults
<1>3. CASE id \notin PsciIds /\ id \notin DOMAIN PlatformHvc
  BY <1>3 DEF CallResults, HvcResult
<1> QED
  BY <1>1, <1>2, <1>3, Zenon

\* The registers after a call that returned r.
AnsweredRegister(r, x, n) ==
    CASE r.kind = "Success" /\ n \in 0..3 -> r.regs[n + 1]
      [] r.kind = "SuccessLarge" /\ n \in 0..17 -> r.regs[n + 1]
      [] r.kind = "Err" /\ n = 0 -> Pow2[bits("U64")] + r.error
      [] r.kind = "Unhandled" /\ n = 0 -> Pow2[bits("U64")] - 1
      [] OTHER -> x[n]

\* modify_register_state() writes the registers of the response to the frame.
LEMMA ModifiedFrame ==
    ASSUME NEW f \in Frame, NEW x \in [Registers -> Word], Restores(f, x),
           NEW r \in HvcResult
    PROVE  LET m == modify_register_state(f, r)
               y == [n \in Registers |-> AnsweredRegister(r, x, n)]
           IN  /\ m \in Frame /\ y \in [Registers -> Word] /\ Restores(m, y)
               /\ m.elr = f.elr /\ m.spsr = f.spsr
<1> DEFINE m == modify_register_state(f, r)
           y == [n \in Registers |-> AnsweredRegister(r, x, n)]
           Goal == /\ m \in Frame /\ y \in [Registers -> Word] /\ Restores(m, y)
                   /\ m.elr = f.elr /\ m.spsr = f.spsr
<1> SUFFICES Goal
  BY Zenon
<1>1. f.registers \in [0..18 -> Word]
  BY Zenon DEF Frame
<1>2. ASSUME NEW k \in {4, 18}, r.regs \in [1..k -> Word], Len(r.regs) = k,
             m = [f EXCEPT !.registers =
                    [n \in 0..18 |-> IF n < Len(r.regs) THEN r.regs[n + 1] ELSE f.registers[n]]],
             \A n \in Registers : AnsweredRegister(r, x, n) = IF n < k THEN r.regs[n + 1] ELSE x[n]
      PROVE  Goal
  <2> DEFINE regs == [n \in 0..18 |-> IF n < Len(r.regs) THEN r.regs[n + 1] ELSE f.registers[n]]
  <2>1. k \in 1..18 /\ \A n \in Registers : n < k => n + 1 \in 1..k
    BY DEF Registers
  <2>2. \A n \in Registers : AnsweredRegister(r, x, n) \in Word
    BY <1>2, <2>1
  <2>3. y \in [Registers -> Word]
    BY <2>2, Zenon
  <2>4. \A n \in 0..18 : n \in Registers
    BY DEF Registers
  <2>5. regs \in [0..18 -> Word]
    BY <1>1, <1>2, <2>1, <2>4, Zenon
  <2>6. \A n \in Registers : y[n] = IF n < k THEN r.regs[n + 1] ELSE x[n]
    BY <1>2, Zenon
  <2>7. \A n \in 0..18 : regs[n] = IF n < k THEN r.regs[n + 1] ELSE x[n]
    BY <1>2, Zenon DEF Restores
  <2>8. m = [f EXCEPT !.registers = regs]
    BY <1>2, Zenon
  <2> HIDE DEF regs, y, m
  <2>9. m \in Frame /\ m.elr = f.elr /\ m.spsr = f.spsr
    BY <2>5, <2>8, Zenon DEF Frame
  <2>10. Restores(m, y)
    <3>1. m.registers = regs /\ m.nonvolatile = f.nonvolatile /\ m.fp = f.fp /\ m.sp = f.sp
      BY <2>8, Zenon DEF Frame
    <3>2. \A n \in 0..18 : regs[n] = y[n]
      BY <2>4, <2>6, <2>7, Zenon
    <3>3. \A n \in 19..30 : y[n] = x[n]
      BY <2>1, <2>6 DEF Registers
    <3>4. /\ \A n \in 19..28 : f.nonvolatile[n - 19] = x[n]
          /\ f.fp = x[29] /\ f.sp = x[30]
      BY Zenon DEF Restores
    <3>5. \A n \in 0..18 : m.registers[n] = y[n]
      BY <3>1, <3>2, Zenon
    <3>6. \A n \in 19..28 : m.nonvolatile[n - 19] = y[n]
      BY <3>1, <3>3, <3>4
    <3>7. m.fp = y[29] /\ m.sp = y[30]
      BY <3>1, <3>3, <3>4
    <3> QED
      BY <3>5, <3>6, <3>7, Zenon DEF Restores
  <2> QED
    BY <2>3, <2>9, <2>10, Zenon
<1>3. ASSUME NEW v \in Word, m = write_gpr(f, 0, v),
             \A n \in Registers : AnsweredRegister(r, x, n) = IF n = 0 THEN v ELSE x[n]
      PROVE  Goal
  <2>1. y = [n \in Registers |-> IF n = 0 THEN v ELSE x[n]]
    BY <1>3, Zenon
  <2>2. y \in [Registers -> Word]
    BY <2>1, Zenon
  <2>3. 0 \in 0..31
    OBVIOUS
  <2> HIDE DEF y, m
  <2>4. m \in Frame
    BY <1>3, <2>3, WriteIsFrame, Zenon
  <2>5. Restores(m, y) /\ m.elr = f.elr /\ m.spsr = f.spsr
    BY <1>3, <2>1, <2>3, WriteRestores
  <2> QED
    BY <2>2, <2>4, <2>5, Zenon
<1>4. CASE r \in [kind : {"Success"}, regs : [1..4 -> Word]]
  <2>1. r.kind = "Success" /\ r.regs \in [1..4 -> Word]
    BY <1>4, Zenon
  <2>2. Len(r.regs) = 4
    BY <2>1
  <2>3. \A n \in Registers : AnsweredRegister(r, x, n) = IF n < 4 THEN r.regs[n + 1] ELSE x[n]
    BY <2>1 DEF AnsweredRegister, Registers
  <2>4. m = [f EXCEPT !.registers =
               [n \in 0..18 |-> IF n < Len(r.regs) THEN r.regs[n + 1] ELSE f.registers[n]]]
    BY <2>1, Zenon DEF modify_register_state
  <2> HIDE DEF m, Goal
  <2> QED
    BY <1>2, <2>1, <2>2, <2>3, <2>4, Zenon
<1>5. CASE r \in [kind : {"SuccessLarge"}, regs : [1..18 -> Word]]
  <2>1. r.kind = "SuccessLarge" /\ r.regs \in [1..18 -> Word]
    BY <1>5, Zenon
  <2>2. Len(r.regs) = 18
    BY <2>1
  <2>3. \A n \in Registers : AnsweredRegister(r, x, n) = IF n < 18 THEN r.regs[n + 1] ELSE x[n]
    BY <2>1 DEF AnsweredRegister, Registers
  <2>4. m = [f EXCEPT !.registers =
               [n \in 0..18 |-> IF n < Len(r.regs) THEN r.regs[n + 1] ELSE f.registers[n]]]
    BY <2>1, Zenon DEF modify_register_state
  <2> HIDE DEF m, Goal
  <2> QED
    BY <1>2, <2>1, <2>2, <2>3, <2>4, Zenon
<1>6. CASE r \in [kind : {"Err"}, error : HvcErrors]
  <2>1. r.kind = "Err" /\ r.error \in HvcErrors
    BY <1>6, Zenon
  <2>2. cast_unsigned(r.error) = Pow2[bits("U64")] + r.error /\ cast_unsigned(r.error) \in Word
    BY <2>1, NegativeCast, Zenon
  <2>3. \A n \in Registers :
            AnsweredRegister(r, x, n) = IF n = 0 THEN cast_unsigned(r.error) ELSE x[n]
    BY <2>1, <2>2, Zenon DEF AnsweredRegister
  <2>4. m = write_gpr(f, 0, cast_unsigned(r.error))
    BY <2>1, Zenon DEF modify_register_state
  <2> HIDE DEF m, Goal
  <2> QED
    BY <1>3, <2>2, <2>3, <2>4, Zenon
<1>7. CASE r \in [kind : {"Unhandled"}]
  <2>1. r.kind = "Unhandled"
    BY <1>7, Zenon
  <2>2. cast_unsigned(-1) = Pow2[bits("U64")] - 1 /\ cast_unsigned(-1) \in Word
    BY NegativeCast, Zenon
  <2>3. \A n \in Registers :
            AnsweredRegister(r, x, n) = IF n = 0 THEN cast_unsigned(-1) ELSE x[n]
    BY <2>1, <2>2, Zenon DEF AnsweredRegister
  <2>4. m = write_gpr(f, 0, cast_unsigned(-1))
    BY <2>1, Zenon DEF modify_register_state
  <2> HIDE DEF m, Goal
  <2> QED
    BY <1>3, <2>2, <2>3, <2>4, Zenon
<1> HIDE DEF Goal
<1> QED
  BY <1>4, <1>5, <1>6, <1>7, Zenon DEF HvcResult

\* The frame that handle_hvc and handle_smc leave.
CallFrame(g, i, r) ==
    LET m == modify_register_state(SavedFrame(g, i), r)
    IN  IF i.op = "smc" THEN advance_pc(m) ELSE m

\* A call returns after the instruction, whether HVC or SMC, with its result.
LEMMA AnsweredFrame ==
    ASSUME NEW g \in GuestState, NEW i, i.op \in {"hvc", "smc"}, NEW r \in CallResults(g.x[0])
    PROVE  CallFrame(g, i, r) \in Frame /\ Answered(g, r, Restored(g, CallFrame(g, i, r)))
<1> DEFINE f == SavedFrame(g, i)
           m == modify_register_state(f, r)
           done == IF i.op = "smc" THEN advance_pc(m) ELSE m
           y == [n \in Registers |-> AnsweredRegister(r, g.x, n)]
<1>1. g.x \in [Registers -> Word] /\ g.pc \in Nat
  BY Zenon DEF GuestState
<1>2. /\ f \in Frame /\ Restores(f, g.x) /\ f.spsr = g.spsr
      /\ f.elr = IF i.op = "hvc" THEN g.pc + 4 ELSE g.pc
  BY SavedIsFrame, SavedRestores, Zenon
<1>3. r \in HvcResult
  BY CallResultTyped, Zenon
<1>4. /\ m \in Frame /\ y \in [Registers -> Word] /\ Restores(m, y)
      /\ m.elr = f.elr /\ m.spsr = f.spsr
  <2> HIDE DEF f
  <2> QED
    BY <1>1, <1>2, <1>3, ModifiedFrame, Zenon
<1> HIDE DEF m, f, y
<1>5. done \in Frame /\ done.elr = g.pc + 4 /\ done.spsr = g.spsr
  <2>1. CASE i.op = "smc"
    <3>1. m.elr = g.pc /\ done = advance_pc(m)
      BY <1>2, <1>4, <2>1, Zenon
    <3> HIDE DEF done
    <3> QED
      BY <1>1, <1>2, <1>4, <3>1 DEF advance_pc, Frame
  <2>2. CASE i.op = "hvc"
    <3>1. done = m
      BY <2>2, Zenon
    <3> HIDE DEF done
    <3> QED
      BY <1>2, <1>4, <2>2, <3>1, Zenon
  <2> QED
    BY <2>1, <2>2, Zenon
<1>6. Restores(done, y)
  <2>1. CASE i.op = "smc"
    BY <1>4, <2>1, Zenon DEF advance_pc, Frame, Restores
  <2>2. CASE i.op = "hvc"
    BY <1>4, <2>2, Zenon
  <2> QED
    BY <2>1, <2>2, Zenon
<1> HIDE DEF done
<1>7. Restored(g, done) = [g EXCEPT !.x = y, !.pc = done.elr, !.spsr = done.spsr]
  BY <1>4, <1>6, RestoredValues
<1>8. Restored(g, done) = [g EXCEPT !.pc = g.pc + 4, !.x = y]
  BY <1>5, <1>7, Zenon DEF GuestState
<1>9. Answered(g, r, Restored(g, done))
  BY <1>8, Zenon DEF Answered, y, AnsweredRegister
<1>10. done = CallFrame(g, i, r)
  BY Zenon DEF done, m, f, CallFrame
<1> QED
  BY <1>5, <1>9, <1>10, Zenon

-----------------------------------------------------------------------------
(* Steps of a core *)

\* The exception class that handle_sync_lower reads is that of the instruction.
LEMMA ClassOf ==
    ASSUME NEW i \in Instruction
    PROVE  /\ SyndromeOf(i).ec = EC_HVC <=> i.op = "hvc"
           /\ SyndromeOf(i).ec = EC_SMC <=> i.op = "smc"
           /\ SyndromeOf(i).ec = EC_DATA_ABORT_LOWER_EL <=> i \in AccessInstruction
           /\ IsAccess(i) <=> i \in AccessInstruction
<1>1. i \in AccessInstruction <=> i.op \in {"load", "store"}
  BY Zenon DEF Instruction, AccessInstruction
<1>2. i.op \in {"load", "store", "hvc", "smc", "fetch"}
  BY Zenon DEF Instruction, AccessInstruction
<1>3. SyndromeOf(i).ec = ExceptionClass(i)
  BY Zenon DEF SyndromeOf
<1> QED
  BY <1>1, <1>2, <1>3 DEF ExceptionClass, IsAccess, EC_HVC, EC_SMC, EC_DATA_ABORT_LOWER_EL

\* What the guest executes is an instruction as GuestAssumption has it.
LEMMA ProgramTyped ==
    ASSUME program \in Programs, NEW c \in Cores
    PROVE  /\ program[c].states \subseteq GuestState
           /\ \A i \in program[c].instructions :
                 /\ i \in Instruction /\ i # None
                 /\ i \in AccessInstruction =>
                       /\ i.width = "U64" => i.sf
                       /\ i.va % Pow2[FAULT_IPA_PAGE_SHIFT] = i.ipa % Pow2[FAULT_IPA_PAGE_SHIFT]
<1>1. program \in [Cores -> [instructions : SUBSET Instruction, states : SUBSET GuestState]]
  BY GuestAssumption, Zenon
<1>2. program[c].states \subseteq GuestState /\ program[c].instructions \subseteq Instruction
  BY <1>1, Zenon
<1> QED
  BY <1>2, GuestAssumption, NoneAssumption, Zenon

\* A step of one core leaves the others as they are.
LEMMA OneCore ==
    ASSUME TrapInv, NEW c \in Cores, program' = program,
           phase' \in [Cores -> {"guest", "handle_sync_lower", "return", "panic"}],
           guest' \in [Cores -> GuestState],
           DOMAIN frame' = Cores, DOMAIN syndrome' = Cores, DOMAIN insn' = Cores,
           DOMAIN before' = Cores, DOMAIN answer' = Cores,
           \A d \in Cores \ {c} :
               /\ phase'[d] = phase[d] /\ guest'[d] = guest[d] /\ frame'[d] = frame[d]
               /\ syndrome'[d] = syndrome[d] /\ insn'[d] = insn[d]
               /\ before'[d] = before[d] /\ answer'[d] = answer[d],
           CoreInv(c)'
    PROVE  TrapInv'
<1>1. ASSUME NEW d \in Cores \ {c}
      PROVE  CoreInv(d)'
  <2>1. CoreInv(d)
    BY Zenon DEF TrapInv
  <2>2. /\ phase'[d] = phase[d] /\ guest'[d] = guest[d] /\ frame'[d] = frame[d]
        /\ syndrome'[d] = syndrome[d] /\ insn'[d] = insn[d]
        /\ before'[d] = before[d] /\ answer'[d] = answer[d] /\ program' = program
    BY Zenon
  <2> QED
    BY <2>1, <2>2, Zenon DEF CoreInv
<1>2. \A d \in Cores : CoreInv(d)'
  BY <1>1, Zenon
<1> QED
  BY <1>2, Zenon DEF TrapInv

\* The exception saves the guest's registers and leaves the guest as it was.
LEMMA TrapStep ==
    ASSUME TrapInv, NEW c \in Cores, NEW i \in program[c].instructions, Trap(c, i)
    PROVE  TrapInv'
<1>1. /\ phase \in [Cores -> {"guest", "handle_sync_lower", "return", "panic"}]
      /\ program \in Programs /\ guest \in [Cores -> GuestState] /\ DOMAIN frame = Cores
      /\ DOMAIN syndrome = Cores /\ DOMAIN insn = Cores /\ DOMAIN before = Cores
      /\ DOMAIN answer = Cores /\ CoreInv(c)
  BY Zenon DEF TrapInv
<1>2. /\ phase[c] = "guest" /\ insn[c] = None
      /\ phase' = [phase EXCEPT ![c] = "handle_sync_lower"]
      /\ frame' = [frame EXCEPT ![c] = SavedFrame(guest[c], i)]
      /\ syndrome' = [syndrome EXCEPT ![c] = SyndromeOf(i)]
      /\ insn' = [insn EXCEPT ![c] = i] /\ before' = [before EXCEPT ![c] = guest[c]]
      /\ guest' = guest /\ program' = program /\ answer' = answer
  BY Zenon DEF Trap, VolatileFrame, SavedFrame, SyndromeOf
<1>3. answer[c] = None
  BY <1>1, <1>2, Zenon DEF CoreInv
<1>4. CoreInv(c)'
  BY <1>1, <1>2, <1>3, Zenon DEF CoreInv
<1>5. phase' \in [Cores -> {"guest", "handle_sync_lower", "return", "panic"}]
  BY <1>1, <1>2, Zenon
<1>6. guest' \in [Cores -> GuestState]
  BY <1>1, <1>2, Zenon
<1>7. /\ DOMAIN frame' = Cores /\ DOMAIN syndrome' = Cores /\ DOMAIN insn' = Cores
      /\ DOMAIN before' = Cores /\ DOMAIN answer' = Cores
  BY <1>1, <1>2, Zenon
<1>8. ASSUME NEW d \in Cores \ {c}
      PROVE  /\ phase'[d] = phase[d] /\ guest'[d] = guest[d] /\ frame'[d] = frame[d]
             /\ syndrome'[d] = syndrome[d] /\ insn'[d] = insn[d]
             /\ before'[d] = before[d] /\ answer'[d] = answer[d]
  BY <1>1, <1>2, Zenon
<1> QED
  BY <1>2, <1>4, <1>5, <1>6, <1>7, <1>8, OneCore

\* What a step of the handler is for the machine that the guest sees: the
\* instruction has been executed when the core will return, and has stopped the
\* core otherwise.
Handled(c) ==
    /\ phase[c] = "handle_sync_lower" /\ insn[c] \in program[c].instructions
    /\ program' = program /\ insn' = insn
    /\ \A d \in Cores \ {c} :
          phase'[d] = phase[d] /\ guest'[d] = guest[d] /\ frame'[d] = frame[d]
    /\ \/ /\ phase'[c] = "return"
          /\ Executes(insn[c], guest[c], counter, Restored(guest'[c], frame'[c]), counter')
       \/ /\ phase'[c] = "panic" /\ guest'[c] = guest[c] /\ counter' = counter
          /\ Stops(insn[c], guest[c], counter)

\* A call leaves in the frame what the guest must find.
LEMMA CallStep ==
    ASSUME TrapInv, NEW c \in Cores, HandleCall(c)
    PROVE  TrapInv' /\ ~CountsLoad(insn[c]) /\ Handled(c)
<1> DEFINE i == insn[c]
           g == guest[c]
<1>1. /\ phase \in [Cores -> {"guest", "handle_sync_lower", "return", "panic"}]
      /\ program \in Programs /\ guest \in [Cores -> GuestState] /\ DOMAIN frame = Cores
      /\ DOMAIN syndrome = Cores /\ DOMAIN insn = Cores /\ DOMAIN before = Cores
      /\ DOMAIN answer = Cores /\ CoreInv(c)
  BY Zenon DEF TrapInv
<1>2. /\ phase[c] = "handle_sync_lower" /\ syndrome[c].ec \in {EC_HVC, EC_SMC}
      /\ phase' = [phase EXCEPT ![c] = "return"]
      /\ guest' = guest /\ syndrome' = syndrome /\ program' = program
      /\ insn' = insn /\ before' = before /\ counter' = counter
  BY Zenon DEF HandleCall
<1>3. /\ i \in program[c].instructions /\ before[c] = g
      /\ frame[c] = SavedFrame(g, i) /\ syndrome[c] = SyndromeOf(i)
  BY <1>1, <1>2, Zenon DEF CoreInv
<1>4. i \in Instruction /\ g \in GuestState
  BY <1>1, <1>3, ProgramTyped, Zenon
<1>5. i.op \in {"hvc", "smc"} /\ (syndrome[c].ec = EC_SMC <=> i.op = "smc")
  BY <1>2, <1>3, <1>4, ClassOf, Zenon
<1>6. ~IsAccess(i) /\ ~CountsLoad(i)
  BY <1>5, Zenon DEF IsAccess, CountsLoad
<1>7. frame[c].registers[0] = g.x[0]
  <2>1. SavedFrame(g, i).registers = [n \in 0..18 |-> g.x[n]]
    BY Zenon DEF SavedFrame
  <2>2. 0 \in 0..18
    OBVIOUS
  <2> QED
    BY <1>3, <2>1, <2>2, Zenon
<1> DEFINE Left(r) == CallFrame(g, i, r)
<1>8. PICK r \in CallResults(g.x[0]) :
          /\ frame' = [frame EXCEPT ![c] = Left(r)]
          /\ answer' = [answer EXCEPT ![c] = r]
  BY <1>3, <1>5, <1>7, Zenon DEF HandleCall, CallFrame
<1>9. Left(r) \in Frame /\ Answered(g, r, Restored(g, Left(r)))
  <2>1. i.op \in {"hvc", "smc"} /\ g \in GuestState
    BY <1>4, <1>5, Zenon
  <2> HIDE DEF g, i
  <2>2. CallFrame(g, i, r) \in Frame /\ Answered(g, r, Restored(g, CallFrame(g, i, r)))
    <3> HIDE DEF Left
    <3> QED
      BY <2>1, AnsweredFrame
  <2> QED
    BY <2>2, Zenon
<1> HIDE DEF Left
<1>10. Sees(i, g, r, Restored(g, Left(r)))
  BY <1>6, <1>9, Zenon DEF Sees
<1>11. CoreInv(c)'
  BY <1>1, <1>2, <1>3, <1>8, <1>9, <1>10 DEF CoreInv
<1>12. phase' \in [Cores -> {"guest", "handle_sync_lower", "return", "panic"}]
  BY <1>1, <1>2, Zenon
<1>13. guest' \in [Cores -> GuestState]
  BY <1>1, <1>2, Zenon
<1>14. /\ DOMAIN frame' = Cores /\ DOMAIN syndrome' = Cores /\ DOMAIN insn' = Cores
       /\ DOMAIN before' = Cores /\ DOMAIN answer' = Cores
  BY <1>1, <1>2, <1>8
<1>15. ASSUME NEW d \in Cores \ {c}
       PROVE  /\ phase'[d] = phase[d] /\ guest'[d] = guest[d] /\ frame'[d] = frame[d]
              /\ syndrome'[d] = syndrome[d] /\ insn'[d] = insn[d]
              /\ before'[d] = before[d] /\ answer'[d] = answer[d]
  BY <1>1, <1>2, <1>8, Zenon
<1>16. TrapInv'
  BY <1>2, <1>11, <1>12, <1>13, <1>14, <1>15, OneCore
<1>17. Executes(i, g, counter, Restored(g, Left(r)), counter)
  BY <1>5, <1>8, <1>9, Zenon DEF Executes
<1>18. phase'[c] = "return" /\ guest'[c] = g /\ frame'[c] = Left(r)
  BY <1>1, <1>2, <1>8, Zenon
<1>19. Handled(c)
  BY <1>2, <1>3, <1>15, <1>17, <1>18 DEF Handled
<1> QED
  BY <1>6, <1>16, <1>19, Zenon

\* An exception that handle_sync_lower does not know stops the core.
LEMMA UnexpectedStep ==
    ASSUME TrapInv, NEW c \in Cores, UnexpectedException(c)
    PROVE  TrapInv' /\ Handled(c)
<1>1. /\ phase \in [Cores -> {"guest", "handle_sync_lower", "return", "panic"}]
      /\ program \in Programs /\ guest \in [Cores -> GuestState] /\ DOMAIN frame = Cores
      /\ DOMAIN syndrome = Cores /\ DOMAIN insn = Cores /\ DOMAIN before = Cores
      /\ DOMAIN answer = Cores /\ CoreInv(c)
  BY Zenon DEF TrapInv
<1>2. /\ phase[c] = "handle_sync_lower" /\ phase' = [phase EXCEPT ![c] = "panic"]
      /\ guest' = guest /\ frame' = frame /\ syndrome' = syndrome /\ program' = program
      /\ insn' = insn /\ before' = before /\ answer' = answer /\ counter' = counter
  BY Zenon DEF UnexpectedException
<1>3. frame[c] \in Frame
  <2>1. frame[c] = SavedFrame(guest[c], insn[c]) /\ guest[c] \in GuestState
    BY <1>1, <1>2, Zenon DEF CoreInv
  <2> QED
    BY <2>1, SavedIsFrame, Zenon
<1>4. CoreInv(c)'
  BY <1>1, <1>2, <1>3, Zenon DEF CoreInv
<1>5. phase' \in [Cores -> {"guest", "handle_sync_lower", "return", "panic"}]
  BY <1>1, <1>2, Zenon
<1>6. ASSUME NEW d \in Cores \ {c}
      PROVE  phase'[d] = phase[d]
  BY <1>1, <1>2, Zenon
<1>7. TrapInv'
  BY <1>1, <1>2, <1>4, <1>5, <1>6, OneCore
<1>8. insn[c] \in program[c].instructions /\ syndrome[c] = SyndromeOf(insn[c])
  BY <1>1, <1>2, Zenon DEF CoreInv
<1>9. insn[c] \in Instruction
  BY <1>1, <1>8, ProgramTyped
<1>10. insn[c].op = "fetch"
  <2>1. syndrome[c].ec \notin {EC_HVC, EC_SMC, EC_DATA_ABORT_LOWER_EL}
    BY Zenon DEF UnexpectedException
  <2>2. insn[c].op \notin {"hvc", "smc"} /\ insn[c] \notin AccessInstruction
    BY <1>8, <1>9, <2>1, ClassOf
  <2> QED
    BY <1>9, <2>2, Zenon DEF Instruction
<1>11. phase'[c] = "panic" /\ Stops(insn[c], guest[c], counter)
  BY <1>1, <1>2, <1>10, Zenon DEF Stops
<1>12. Handled(c)
  BY <1>2, <1>6, <1>8, <1>11 DEF Handled
<1> QED
  BY <1>7, <1>12, Zenon

\* The guest finds itself in the state that the frame restores.
LEMMA ReturnStep ==
    ASSUME TrapInv, NEW c \in Cores, Return(c)
    PROVE  TrapInv'
<1> DEFINE g == guest[c]
           f == frame[c]
<1>1. /\ phase \in [Cores -> {"guest", "handle_sync_lower", "return", "panic"}]
      /\ program \in Programs /\ guest \in [Cores -> GuestState] /\ DOMAIN frame = Cores
      /\ DOMAIN syndrome = Cores /\ DOMAIN insn = Cores /\ DOMAIN before = Cores
      /\ DOMAIN answer = Cores /\ CoreInv(c)
  BY Zenon DEF TrapInv
<1>2. /\ phase[c] = "return" /\ phase' = [phase EXCEPT ![c] = "guest"]
      /\ frame' = [frame EXCEPT ![c] = None] /\ syndrome' = [syndrome EXCEPT ![c] = None]
      /\ program' = program /\ insn' = insn /\ before' = before /\ answer' = answer
  BY Zenon DEF Return
<1>3. guest' = [guest EXCEPT ![c] = Restored(g, f)]
  BY Zenon DEF Return
<1>4. /\ insn[c] \in program[c].instructions /\ f \in Frame
      /\ Sees(insn[c], before[c], answer[c], Restored(g, f))
  BY <1>1, <1>2, Zenon DEF CoreInv
<1>5. insn[c] # None /\ g \in GuestState
  BY <1>1, <1>4, ProgramTyped, Zenon
<1>7. Restored(g, f) \in GuestState
  BY <1>4, <1>5, RestoredIsState, Zenon
<1> DEFINE after == Restored(g, f)
<1>8. /\ after \in GuestState /\ Sees(insn[c], before[c], answer[c], after)
      /\ guest' = [guest EXCEPT ![c] = after]
  BY <1>3, <1>4, <1>7
<1> HIDE DEF after
<1>9. CoreInv(c)'
  BY <1>1, <1>2, <1>5, <1>8 DEF CoreInv
<1>10. phase' \in [Cores -> {"guest", "handle_sync_lower", "return", "panic"}]
  BY <1>1, <1>2, Zenon
<1>11. guest' \in [Cores -> GuestState]
  BY <1>1, <1>8, Zenon
<1>12. /\ DOMAIN frame' = Cores /\ DOMAIN syndrome' = Cores /\ DOMAIN insn' = Cores
       /\ DOMAIN before' = Cores /\ DOMAIN answer' = Cores
  BY <1>1, <1>2, Zenon
<1>13. ASSUME NEW d \in Cores \ {c}
       PROVE  /\ phase'[d] = phase[d] /\ guest'[d] = guest[d] /\ frame'[d] = frame[d]
              /\ syndrome'[d] = syndrome[d] /\ insn'[d] = insn[d]
              /\ before'[d] = before[d] /\ answer'[d] = answer[d]
  BY <1>1, <1>2, <1>8, Zenon
<1> QED
  BY <1>2, <1>9, <1>10, <1>11, <1>12, <1>13, OneCore

\* The guest goes on.
LEMMA RunsStep ==
    ASSUME TrapInv, NEW c \in Cores, GuestRuns(c)
    PROVE  TrapInv'
<1>1. /\ phase \in [Cores -> {"guest", "handle_sync_lower", "return", "panic"}]
      /\ program \in Programs /\ guest \in [Cores -> GuestState] /\ DOMAIN frame = Cores
      /\ DOMAIN syndrome = Cores /\ DOMAIN insn = Cores /\ DOMAIN before = Cores
      /\ DOMAIN answer = Cores /\ CoreInv(c)
  BY Zenon DEF TrapInv
<1>2. /\ phase[c] = "guest" /\ phase' = phase /\ frame' = frame /\ syndrome' = syndrome
      /\ program' = program /\ insn' = [insn EXCEPT ![c] = None]
      /\ before' = [before EXCEPT ![c] = None] /\ answer' = [answer EXCEPT ![c] = None]
  BY Zenon DEF GuestRuns
<1>3. PICK g \in program[c].states : guest' = [guest EXCEPT ![c] = g]
  BY Zenon DEF GuestRuns
<1>4. g \in GuestState
  BY <1>1, ProgramTyped, Zenon
<1>5. CoreInv(c)'
  BY <1>1, <1>2, Zenon DEF CoreInv
<1>6. guest' \in [Cores -> GuestState]
  BY <1>1, <1>3, <1>4, Zenon
<1>7. /\ DOMAIN frame' = Cores /\ DOMAIN syndrome' = Cores /\ DOMAIN insn' = Cores
      /\ DOMAIN before' = Cores /\ DOMAIN answer' = Cores
  BY <1>1, <1>2, Zenon
<1>8. ASSUME NEW d \in Cores \ {c}
      PROVE  /\ phase'[d] = phase[d] /\ guest'[d] = guest[d] /\ frame'[d] = frame[d]
             /\ syndrome'[d] = syndrome[d] /\ insn'[d] = insn[d]
             /\ before'[d] = before[d] /\ answer'[d] = answer[d]
  BY <1>1, <1>2, <1>3, Zenon
<1> QED
  BY <1>1, <1>2, <1>5, <1>6, <1>7, <1>8, OneCore

\* The guests start in states of their programs.
LEMMA TrapInit == Init => TrapInv
<1> SUFFICES ASSUME Init PROVE TrapInv
  BY Zenon
<1>1. program \in Programs
  BY Zenon DEF Init
<1>2. guest \in [Cores -> GuestState]
  <2>1. guest \in [Cores -> UNION {program[c].states : c \in Cores}]
        /\ \A c \in Cores : guest[c] \in program[c].states
    BY Zenon DEF Init
  <2>2. \A c \in Cores : guest[c] \in GuestState
    BY <1>1, <2>1, ProgramTyped, Zenon
  <2> QED
    BY <2>1, <2>2, Zenon
<1>3. ASSUME NEW c \in Cores
      PROVE  CoreInv(c)
  BY Zenon DEF Init, CoreInv
<1> QED
  BY <1>1, <1>2, <1>3, Zenon DEF Init, TrapInv

-----------------------------------------------------------------------------
(* The counter *)

\* What a step may do to the values of the counter: no core takes or loads one,
\* a core takes the next one, or a core returns to the guest with the one it holds.
Kept ==
    /\ counter' = counter /\ loaded' = loaded /\ Held' = Held
    /\ \A d \in Held : answer'[d] = answer[d]
    /\ InFlight' \subseteq InFlight \/ Cardinality(loaded) < MAX_COUNTER_LOADS

Taken(c) ==
    /\ c \in InFlight \ Held
    /\ counter' = cast_unsigned(counter + 1) /\ loaded' = loaded
    /\ Held' = Held \cup {c} /\ answer'[c].value = counter
    /\ \A d \in Held : answer'[d] = answer[d]
    /\ InFlight' \subseteq InFlight

Returned(c) ==
    /\ c \in Held /\ counter' = counter /\ answer' = answer
    /\ loaded' = loaded \cup {answer[c].value}
    /\ Held' = Held \ {c} /\ InFlight' = InFlight \ {c}

CounterMoves == Kept \/ \E c \in Cores : Taken(c) \/ Returned(c)

\* A step of one core does not change what the others hold.
LEMMA OthersHold ==
    ASSUME NEW c \in Cores,
           \A d \in Cores \ {c} : /\ phase'[d] = phase[d] /\ insn'[d] = insn[d]
                                  /\ answer'[d] = answer[d]
    PROVE  Held' \ {c} = Held \ {c} /\ InFlight' \ {c} = InFlight \ {c}
<1>1. ASSUME NEW d \in Cores \ {c}
      PROVE  (d \in Held' <=> d \in Held) /\ (d \in InFlight' <=> d \in InFlight)
  BY <1>1, Zenon DEF Held, InFlight, Holding
<1>2. Held \subseteq Cores /\ Held' \subseteq Cores /\ InFlight \subseteq Cores
      /\ InFlight' \subseteq Cores
  BY Zenon DEF Held, InFlight
<1> QED
  BY <1>1, <1>2, Zenon

\* The steps other than the access itself.
LEMMA CounterTrap ==
    ASSUME TrapInv, NEW c \in Cores, NEW i \in program[c].instructions, Trap(c, i)
    PROVE  CounterMoves
<1>1. /\ phase[c] = "guest" /\ DOMAIN phase = Cores /\ DOMAIN insn = Cores
      /\ phase' = [phase EXCEPT ![c] = "handle_sync_lower"]
      /\ insn' = [insn EXCEPT ![c] = i] /\ counter' = counter /\ loaded' = loaded
      /\ answer' = answer
      /\ CountsLoad(i) => Cardinality(loaded) < MAX_COUNTER_LOADS
  BY Zenon DEF Trap, TrapInv
<1>2. Held' \ {c} = Held \ {c} /\ InFlight' \ {c} = InFlight \ {c}
  BY <1>1, OthersHold, Zenon
<1>3. phase'[c] = "handle_sync_lower" /\ insn'[c] = i
  BY <1>1, Zenon
<1>4. c \notin Held /\ c \notin Held'
  BY <1>1, <1>3, Zenon DEF Held, Holding
<1>5. ~CountsLoad(i) => c \notin InFlight'
  BY <1>3, Zenon DEF InFlight
<1>6. Held' = Held
  BY <1>2, <1>4
<1>7. InFlight' \subseteq InFlight \/ Cardinality(loaded) < MAX_COUNTER_LOADS
  BY <1>1, <1>2, <1>5, Zenon
<1> QED
  BY <1>1, <1>6, <1>7, Zenon DEF CounterMoves, Kept

\* HandleCall takes no value of the counter: the answer of an HVC or SMC is not a load.
LEMMA CounterCall ==
    ASSUME TrapInv, NEW c \in Cores, HandleCall(c)
    PROVE  CounterMoves
<1>1. /\ phase[c] = "handle_sync_lower" /\ DOMAIN phase = Cores /\ DOMAIN answer = Cores
      /\ phase' = [phase EXCEPT ![c] = "return"] /\ insn' = insn
      /\ counter' = counter /\ loaded' = loaded
  BY Zenon DEF HandleCall, TrapInv
<1>2. PICK r : answer' = [answer EXCEPT ![c] = r]
  BY Zenon DEF HandleCall
<1>3. Held' \ {c} = Held \ {c} /\ InFlight' \ {c} = InFlight \ {c}
  BY <1>1, <1>2, OthersHold, Zenon
<1>4. ~CountsLoad(insn[c]) /\ insn'[c] = insn[c]
  BY <1>1, CallStep, Zenon
<1>5. c \notin Held /\ c \notin Held' /\ c \notin InFlight'
  BY <1>4, Zenon DEF Held, Holding, InFlight
<1>6. Held' = Held /\ InFlight' \subseteq InFlight
  BY <1>3, <1>5
<1>7. \A d \in Held : answer'[d] = answer[d]
  BY <1>1, <1>2, <1>5, Zenon DEF Held
<1> QED
  BY <1>1, <1>6, <1>7, Zenon DEF CounterMoves, Kept

\* A panic in UnexpectedException leaves the values held and loaded as they are.
LEMMA CounterUnexpected ==
    ASSUME TrapInv, NEW c \in Cores, UnexpectedException(c)
    PROVE  CounterMoves
<1>1. /\ phase[c] = "handle_sync_lower" /\ DOMAIN phase = Cores
      /\ phase' = [phase EXCEPT ![c] = "panic"] /\ insn' = insn /\ answer' = answer
      /\ counter' = counter /\ loaded' = loaded
  BY Zenon DEF UnexpectedException, TrapInv
<1>2. Held' \ {c} = Held \ {c} /\ InFlight' \ {c} = InFlight \ {c}
  BY <1>1, OthersHold, Zenon
<1>3. phase'[c] = "panic"
  BY <1>1, Zenon
<1>4. c \notin Held /\ c \notin Held' /\ c \notin InFlight'
  BY <1>1, <1>3, Zenon DEF Held, Holding, InFlight
<1>5. Held' = Held /\ InFlight' \subseteq InFlight
  BY <1>2, <1>4
<1> QED
  BY <1>1, <1>5, Zenon DEF CounterMoves, Kept

\* Return hands the value a load holds to the guest: it moves from held to loaded.
LEMMA CounterReturn ==
    ASSUME TrapInv, NEW c \in Cores, Return(c)
    PROVE  CounterMoves
<1>1. /\ phase[c] = "return" /\ DOMAIN phase = Cores
      /\ phase' = [phase EXCEPT ![c] = "guest"] /\ insn' = insn /\ answer' = answer
      /\ counter' = counter
  BY Zenon DEF Return, TrapInv
<1>2. Held' \ {c} = Held \ {c} /\ InFlight' \ {c} = InFlight \ {c}
  BY <1>1, OthersHold, Zenon
<1>3. phase'[c] = "guest"
  BY <1>1, Zenon
<1>4. c \notin Held' /\ c \notin InFlight'
  BY <1>3, Zenon DEF Held, Holding, InFlight
<1>5. loaded' = IF c \in Held THEN loaded \cup {answer[c].value} ELSE loaded
  BY <1>1, Zenon DEF Return, Held, Holding
<1>6. CASE c \in Held
  BY <1>1, <1>2, <1>4, <1>5, <1>6 DEF CounterMoves, Returned
<1>7. CASE c \notin Held
  <2>1. Held' = Held /\ InFlight' \subseteq InFlight /\ loaded' = loaded
    BY <1>2, <1>4, <1>5, <1>7
  <2> QED
    BY <1>1, <2>1, Zenon DEF CounterMoves, Kept
<1> QED
  BY <1>6, <1>7, Zenon

\* A guest that runs on has no load in flight and holds no value.
LEMMA CounterRuns ==
    ASSUME TrapInv, NEW c \in Cores, GuestRuns(c)
    PROVE  CounterMoves
<1>1. /\ phase[c] = "guest" /\ DOMAIN insn = Cores /\ DOMAIN answer = Cores
      /\ phase' = phase /\ insn' = [insn EXCEPT ![c] = None]
      /\ answer' = [answer EXCEPT ![c] = None]
      /\ counter' = counter /\ loaded' = loaded
  BY Zenon DEF GuestRuns, TrapInv
<1>2. Held' \ {c} = Held \ {c} /\ InFlight' \ {c} = InFlight \ {c}
  BY <1>1, OthersHold, Zenon
<1>3. c \notin Held /\ c \notin Held' /\ c \notin InFlight'
  BY <1>1, Zenon DEF Held, Holding, InFlight
<1>4. Held' = Held /\ InFlight' \subseteq InFlight
  BY <1>2, <1>3
<1>5. \A d \in Held : answer'[d] = answer[d]
  BY <1>1, <1>3, Zenon DEF Held
<1> QED
  BY <1>1, <1>4, <1>5, Zenon DEF CounterMoves, Kept

\* An access that the device answers is executed with its answer,
LEMMA ExecutesAccess ==
    ASSUME NEW i, NEW g, NEW a, NEW count, NEW count_after, NEW after,
           IsAccess(i), a # None, a.result = "Ok", Emulated(i, g, a, after),
           Replied(i, g, a, count, count_after)
    PROVE  Executes(i, g, count, after, count_after)
<1>1. PICK r \in Replies(i, RequiredAccess(i, g), count) :
          r.result = "Ok" /\ r.value = a.value /\ r.counter = count_after
  BY Zenon DEF Replied
<1>2. Emulated(i, g, r, after)
  BY <1>1, Zenon DEF Emulated
<1>3. RequiredAccess(i, g) # None
  BY Zenon DEF Replied
<1> QED
  BY <1>1, <1>2, <1>3, Zenon DEF Executes

\* and any other one is an abort, for a guest that has a vector.
LEMMA ExecutesAbort ==
    ASSUME NEW i, NEW g, NEW a, NEW count, NEW count_after, NEW after,
           IsAccess(i), ~(a # None /\ a.result = "Ok"), count_after = count,
           Replied(i, g, a, count, count_after)
    PROVE  /\ g.vbar_el1 # 0 /\ Aborted(i, g, after) => Executes(i, g, count, after, count_after)
           /\ g.vbar_el1 = 0 => Stops(i, g, count)
<1>1. RequiredAccess(i, g) # None =>
          \E r \in Replies(i, RequiredAccess(i, g), count) : r.result = "Fault"
  BY Zenon DEF Replied
<1> QED
  BY <1>1, Zenon DEF Executes, Stops

\* A data abort leaves in the frame what the guest must find, and the counter
\* moves with the loads that succeed.
LEMMA AccessStep ==
    ASSUME FindExactly, TrapInv, counter \in Word, NEW c \in Cores, HandleDataAbort(c)
    PROVE  TrapInv' /\ CounterMoves /\ Handled(c)
<1> DEFINE i == insn[c]
           g == guest[c]
           f == SavedFrame(g, i)
           s == SyndromeOf(i)
<1>1. /\ phase \in [Cores -> {"guest", "handle_sync_lower", "return", "panic"}]
      /\ program \in Programs /\ guest \in [Cores -> GuestState] /\ DOMAIN frame = Cores
      /\ DOMAIN syndrome = Cores /\ DOMAIN insn = Cores /\ DOMAIN before = Cores
      /\ DOMAIN answer = Cores /\ CoreInv(c)
  BY Zenon DEF TrapInv
<1>2. /\ phase[c] = "handle_sync_lower" /\ syndrome[c].ec = EC_DATA_ABORT_LOWER_EL
      /\ syndrome' = syndrome /\ program' = program /\ insn' = insn /\ before' = before
      /\ loaded' = loaded
  BY Zenon DEF HandleDataAbort
<1>3. /\ i \in program[c].instructions /\ before[c] = g /\ frame[c] = f /\ syndrome[c] = s
  BY <1>1, <1>2, Zenon DEF CoreInv
<1>4. /\ i \in AccessInstruction /\ IsAccess(i) /\ g \in GuestState
      /\ i.width = "U64" => i.sf
      /\ i.va % Pow2[FAULT_IPA_PAGE_SHIFT] = i.ipa % Pow2[FAULT_IPA_PAGE_SHIFT]
  BY <1>1, <1>2, <1>3, ClassOf, ProgramTyped, Zenon
<1>5. counter \in Word
  BY Zenon
<1>6. PICK done \in try_memory_access_handler(f, s) :
          /\ counter' = done.counter
          /\ answer' = [answer EXCEPT ![c] = done.answer]
          /\ \/ /\ done.ok
                /\ phase' = [phase EXCEPT ![c] = "return"]
                /\ frame' = [frame EXCEPT ![c] = done.frame]
                /\ guest' = guest
             \/ /\ ~done.ok /\ g.vbar_el1 # 0
                /\ phase' = [phase EXCEPT ![c] = "return"]
                /\ guest' = [guest EXCEPT ![c] = InjectedGuest(g, done.frame, s)]
                /\ frame' = [frame EXCEPT ![c] = InjectedFrame(g, done.frame)]
             \/ /\ ~done.ok /\ g.vbar_el1 = 0
                /\ phase' = [phase EXCEPT ![c] = "panic"]
                /\ guest' = guest /\ frame' = frame
  BY <1>3, Zenon DEF HandleDataAbort
<1> DEFINE a == done.answer
           counted == CountsLoad(i) /\ a # None /\ a.result = "Ok"
<1>7. /\ Asked(i, g, a) /\ Replied(i, g, a, counter, done.counter)
      /\ done.ok <=> (a # None /\ a.result = "Ok")
      /\ done.ok =>
            /\ a.value \in Word
            /\ done.frame = advance_pc(IF i.op = "store" THEN f
                                       ELSE write_gpr(f, i.reg, Loaded(a.value, i)))
      /\ ~done.ok => done.frame = f
      /\ done.counter = IF counted THEN cast_unsigned(counter + 1) ELSE counter
      /\ counted => a.value = counter
  BY <1>4, <1>5, AccessHandled, Zenon
<1>8. f \in Frame
  BY <1>4, SavedIsFrame, Zenon
<1> DEFINE entry == InjectedGuest(g, f, s)
           injected == InjectedFrame(g, f)
<1>9. entry \in GuestState /\ injected \in Frame /\ Aborted(i, g, Restored(entry, injected))
  BY <1>4, AbortedFrame, Zenon
<1>10. done.ok => done.frame \in Frame /\ Emulated(i, g, a, Restored(g, done.frame))
  BY <1>4, <1>7, EmulatedFrame, Zenon
<1>11. /\ done.ok => Sees(i, g, a, Restored(g, done.frame))
       /\ ~done.ok => Sees(i, g, a, Restored(entry, injected))
  BY <1>4, <1>7, <1>9, <1>10 DEF Sees
<1>12. \/ /\ done.ok
          /\ phase' = [phase EXCEPT ![c] = "return"]
          /\ frame' = [frame EXCEPT ![c] = done.frame] /\ guest' = guest
       \/ /\ ~done.ok /\ g.vbar_el1 # 0
          /\ phase' = [phase EXCEPT ![c] = "return"]
          /\ frame' = [frame EXCEPT ![c] = injected] /\ guest' = [guest EXCEPT ![c] = entry]
       \/ /\ ~done.ok /\ g.vbar_el1 = 0
          /\ phase' = [phase EXCEPT ![c] = "panic"] /\ guest' = guest /\ frame' = frame
  BY <1>6, <1>7, Zenon
<1>13. answer' = [answer EXCEPT ![c] = a]
  BY <1>6, Zenon
<1>14. counter' = IF counted THEN cast_unsigned(counter + 1) ELSE counter
  BY <1>6, <1>7, Zenon
<1> HIDE DEF f, s, a, counted, entry, injected
<1>15. phase' \in [Cores -> {"guest", "handle_sync_lower", "return", "panic"}]
  BY <1>1, <1>12, Zenon
<1>16. guest' \in [Cores -> GuestState]
  BY <1>1, <1>9, <1>12, Zenon
<1>17. /\ DOMAIN frame' = Cores /\ DOMAIN syndrome' = Cores /\ DOMAIN insn' = Cores
       /\ DOMAIN before' = Cores /\ DOMAIN answer' = Cores
  BY <1>1, <1>2, <1>12, <1>13
<1>18. ASSUME NEW d \in Cores \ {c}
       PROVE  /\ phase'[d] = phase[d] /\ guest'[d] = guest[d] /\ frame'[d] = frame[d]
              /\ syndrome'[d] = syndrome[d] /\ insn'[d] = insn[d]
              /\ before'[d] = before[d] /\ answer'[d] = answer[d]
  BY <1>1, <1>2, <1>12, <1>13, Zenon
<1>19. answer'[c] = a /\ insn'[c] = i /\ before'[c] = g /\ program'[c] = program[c]
  BY <1>1, <1>2, <1>3, <1>13
<1>20. CoreInv(c)'
  <2>1. CASE done.ok
    <3>1. phase'[c] = "return" /\ frame'[c] = done.frame /\ guest'[c] = g
      BY <1>1, <1>12, <2>1, Zenon
    <3> QED
      BY <1>3, <1>10, <1>11, <1>19, <2>1, <3>1 DEF CoreInv
  <2>2. CASE ~done.ok /\ phase'[c] = "return"
    <3>1. frame'[c] = injected /\ guest'[c] = entry
      BY <1>1, <1>12, <2>2, Zenon
    <3> QED
      BY <1>3, <1>9, <1>11, <1>19, <2>2, <3>1 DEF CoreInv
  <2>3. CASE phase'[c] = "panic"
    <3>1. frame'[c] \in Frame
      BY <1>1, <1>3, <1>8, <1>12, <2>3
    <3> QED
      BY <2>3, <3>1, Zenon DEF CoreInv
  <2> QED
    BY <1>1, <1>12, <2>1, <2>2, <2>3
<1>21. TrapInv'
  BY <1>2, <1>15, <1>16, <1>17, <1>18, <1>20, OneCore
<1>22. Held' \ {c} = Held \ {c} /\ InFlight' \ {c} = InFlight \ {c}
  BY <1>18, OthersHold
<1>23. c \notin Held /\ (c \in InFlight <=> CountsLoad(i)) /\ (c \in InFlight' => CountsLoad(i))
  BY <1>2, <1>19, Zenon DEF Held, Holding, InFlight
<1>24. InFlight' \subseteq InFlight
  BY <1>22, <1>23
<1>25. \A d \in Held : answer'[d] = answer[d]
  BY <1>18, <1>23, Zenon DEF Held
<1>26. c \in Held' <=> counted
  <2>1. c \in Held' <=> phase'[c] = "return" /\ counted
    BY <1>19, Zenon DEF Held, Holding, counted
  <2>2. counted => phase'[c] = "return"
    BY <1>1, <1>7, <1>12 DEF counted, a
  <2> QED
    BY <2>1, <2>2, Zenon
<1>27. ASSUME counted
       PROVE  CounterMoves
  <2>1. c \in InFlight \ Held
    BY <1>23, <1>27 DEF counted
  <2>2. counter' = cast_unsigned(counter + 1) /\ answer'[c].value = counter
    BY <1>7, <1>14, <1>19, <1>27 DEF counted, a
  <2>3. Held' = Held \cup {c}
    BY <1>22, <1>23, <1>26, <1>27
  <2> QED
    BY <1>2, <1>24, <1>25, <2>1, <2>2, <2>3 DEF CounterMoves, Taken
<1>28. ASSUME ~counted
       PROVE  CounterMoves
  <2>1. Held' = Held /\ counter' = counter
    BY <1>14, <1>22, <1>23, <1>26, <1>28
  <2> QED
    BY <1>2, <1>24, <1>25, <2>1 DEF CounterMoves, Kept
<1>29. Handled(c)
  <2>1. Replied(i, g, a, counter, counter')
    BY <1>6, <1>7, Zenon DEF a
  <2>2. CASE done.ok
    <3>1. phase'[c] = "return" /\ frame'[c] = done.frame /\ guest'[c] = g
      BY <1>1, <1>12, <2>2
    <3>2. a # None /\ a.result = "Ok" /\ Emulated(i, g, a, Restored(g, done.frame))
      BY <1>7, <1>10, <2>2, Zenon DEF a
    <3>3. Executes(i, g, counter, Restored(g, done.frame), counter')
      BY <1>4, <2>1, <3>2, ExecutesAccess
    <3> QED
      BY <1>2, <1>3, <1>18, <3>1, <3>3 DEF Handled
  <2>3. ~done.ok => /\ counter' = counter /\ ~(a # None /\ a.result = "Ok")
    BY <1>7, <1>14, Zenon DEF counted, a
  <2>4. CASE ~done.ok /\ g.vbar_el1 # 0
    <3>1. phase'[c] = "return" /\ frame'[c] = injected /\ guest'[c] = entry
      BY <1>1, <1>12, <2>4
    <3>2. Executes(i, g, counter, Restored(entry, injected), counter')
      BY <1>4, <1>9, <2>1, <2>3, <2>4, ExecutesAbort
    <3> QED
      BY <1>2, <1>3, <1>18, <3>1, <3>2 DEF Handled
  <2>5. CASE ~done.ok /\ g.vbar_el1 = 0
    <3>1. phase'[c] = "panic" /\ guest'[c] = g
      BY <1>1, <1>12, <2>5
    <3>2. Stops(i, g, counter)
      BY <1>4, <2>1, <2>3, <2>5, ExecutesAbort
    <3> QED
      BY <1>2, <1>3, <1>18, <2>3, <2>5, <3>1, <3>2 DEF Handled
  <2> QED
    BY <2>2, <2>4, <2>5, Zenon
<1> QED
  BY <1>21, <1>27, <1>28, <1>29

\* Every step keeps the invariant of the cores, and moves the counter's values so.
LEMMA TrapNext ==
    ASSUME FindExactly, TrapInv, counter \in Word, [Next]_vars
    PROVE  TrapInv' /\ CounterMoves
<1>1. ASSUME NEW c \in Cores, NEW i \in program[c].instructions, Trap(c, i)
      PROVE  TrapInv' /\ CounterMoves
  BY <1>1, TrapStep, CounterTrap
<1>2. ASSUME NEW c \in Cores, HandleDataAbort(c)
      PROVE  TrapInv' /\ CounterMoves
  BY <1>2, AccessStep, Zenon
<1>3. ASSUME NEW c \in Cores, HandleCall(c)
      PROVE  TrapInv' /\ CounterMoves
  BY <1>3, CallStep, CounterCall, Zenon
<1>4. ASSUME NEW c \in Cores, UnexpectedException(c)
      PROVE  TrapInv' /\ CounterMoves
  BY <1>4, UnexpectedStep, CounterUnexpected, Zenon
<1>5. ASSUME NEW c \in Cores, Return(c)
      PROVE  TrapInv' /\ CounterMoves
  BY <1>5, ReturnStep, CounterReturn, Zenon
<1>6. ASSUME NEW c \in Cores, GuestRuns(c)
      PROVE  TrapInv' /\ CounterMoves
  BY <1>6, RunsStep, CounterRuns, Zenon
<1>7. CASE UNCHANGED vars
  <2>1. /\ phase' = phase /\ guest' = guest /\ frame' = frame /\ syndrome' = syndrome
        /\ counter' = counter /\ program' = program /\ insn' = insn
        /\ before' = before /\ answer' = answer /\ loaded' = loaded
    BY <1>7, Zenon DEF vars
  <2>2. \A c \in Cores : CoreInv(c)'
    BY <2>1 DEF TrapInv, CoreInv
  <2>3. TrapInv'
    BY <2>1, <2>2, Zenon DEF TrapInv
  <2>4. Held' = Held /\ InFlight' = InFlight
    BY <2>1, Zenon DEF Held, Holding, InFlight
  <2> QED
    BY <2>1, <2>3, <2>4, Zenon DEF CounterMoves, Kept
<1>8. CASE Stopped
  BY <1>7, <1>8, Zenon DEF Stopped
<1> QED
  BY <1>1, <1>2, <1>3, <1>4, <1>5, <1>6, <1>7, <1>8 DEF Next

\* The invariants say more than the types.
LEMMA TrapTypes ==
    ASSUME TrapInv, counter \in Word, loaded \subseteq Word
    PROVE  TypeOK
<1>1. counter \in Word /\ loaded \subseteq Word
  BY Zenon
<1>2. /\ phase \in [Cores -> {"guest", "handle_sync_lower", "return", "panic"}]
      /\ guest \in [Cores -> GuestState] /\ DOMAIN guest = Cores
  BY Zenon DEF TrapInv
<1>3. ASSUME NEW c \in Cores
      PROVE  /\ guest[c].x \in [Registers -> Word] /\ guest[c].pc \in Nat
             /\ frame[c] = None <=> phase[c] = "guest"
             /\ frame[c] # None => /\ frame[c].registers \in [0..18 -> Word]
                                   /\ frame[c].nonvolatile \in [0..9 -> Word]
                                   /\ frame[c].fp \in Word /\ frame[c].sp \in Word
                                   /\ frame[c].elr \in Nat
  <2>1. guest[c] \in GuestState /\ CoreInv(c)
    BY <1>2, Zenon DEF TrapInv
  <2>2. guest[c].x \in [Registers -> Word] /\ guest[c].pc \in Nat
    BY <2>1, Zenon DEF GuestState
  <2>3. phase[c] = "guest" => frame[c] = None
    BY <2>1, Zenon DEF CoreInv
  <2>4. phase[c] # "guest" => frame[c] \in Frame
    BY <1>2, <2>1, SavedIsFrame, Zenon DEF CoreInv
  <2> QED
    BY <2>2, <2>3, <2>4, NoneAssumption DEF Frame
<1> QED
  BY <1>1, <1>2, <1>3 DEF TypeOK

\* And what the guest must see of a trapped instruction.
LEMMA TrapSees ==
    ASSUME TrapInv
    PROVE  GuestSeesExecution
<1> SUFFICES ASSUME NEW c \in Cores, phase[c] = "guest", insn[c] # None
             PROVE  Sees(insn[c], before[c], answer[c], guest[c])
  BY Zenon DEF GuestSeesExecution, Sees
<1> QED
  BY Zenon DEF TrapInv, CoreInv

-----------------------------------------------------------------------------
(* The machine that the guest sees *)

\* A step of one core leaves what the guest sees of the others.
LEMMA OthersSeen ==
    ASSUME NEW c \in Cores,
           \A d \in Cores \ {c} : /\ phase'[d] = phase[d] /\ guest'[d] = guest[d]
                                  /\ frame'[d] = frame[d] /\ insn'[d] = insn[d]
    PROVE  /\ Views' = [Views EXCEPT ![c] = Views'[c]]
           /\ Executed' = [Executed EXCEPT ![c] = Executed'[c]]
           /\ Panicked' \ {c} = Panicked \ {c}
<1>1. ASSUME NEW d \in Cores \ {c}
      PROVE  Views'[d] = Views[d] /\ Executed'[d] = Executed[d] /\ (d \in Panicked' <=> d \in Panicked)
  BY <1>1, Zenon DEF Views, Executed, Panicked
<1>2. Views = [d \in Cores |-> Views[d]] /\ Views' = [d \in Cores |-> Views'[d]]
  BY Zenon DEF Views
<1>3. Executed = [d \in Cores |-> Executed[d]] /\ Executed' = [d \in Cores |-> Executed'[d]]
  BY Zenon DEF Executed
<1>4. Panicked \subseteq Cores /\ Panicked' \subseteq Cores
  BY Zenon DEF Panicked
<1>5. Panicked' \ {c} = Panicked \ {c}
  BY <1>1, <1>4, Zenon
<1>6. Views' = [Views EXCEPT ![c] = Views'[c]]
  BY <1>1, <1>2, Zenon
<1>7. Executed' = [Executed EXCEPT ![c] = Executed'[c]]
  BY <1>1, <1>3, Zenon
<1> QED
  BY <1>5, <1>6, <1>7, Zenon

\* The guest does not see a step after which it sees the same of the core.
LEMMA Unseen ==
    ASSUME NEW c \in Cores, program' = program, counter' = counter,
           \A d \in Cores \ {c} : /\ phase'[d] = phase[d] /\ guest'[d] = guest[d]
                                  /\ frame'[d] = frame[d] /\ insn'[d] = insn[d],
           Views'[c] = Views[c], Executed'[c] = Executed[c], c \notin Panicked, c \notin Panicked'
    PROVE  UNCHANGED Machine!machine
<1>1. /\ Views' = [Views EXCEPT ![c] = Views'[c]]
      /\ Executed' = [Executed EXCEPT ![c] = Executed'[c]]
      /\ Panicked' \ {c} = Panicked \ {c}
  BY OthersSeen, Zenon
<1>2. Views' = Views
  BY <1>1, Zenon DEF Views
<1>3. Executed' = Executed
  BY <1>1, Zenon DEF Executed
<1>4. Panicked' = Panicked
  BY <1>1
<1> QED
  BY <1>2, <1>3, <1>4, Zenon DEF Machine!machine

\* The exception is taken without the guest's knowledge,
LEMMA TrapUnseen ==
    ASSUME TrapInv, NEW c \in Cores, NEW i \in program[c].instructions, Trap(c, i)
    PROVE  UNCHANGED Machine!machine
<1>1. /\ DOMAIN phase = Cores /\ DOMAIN frame = Cores /\ DOMAIN insn = Cores
      /\ phase[c] = "guest" /\ insn[c] = None
      /\ phase' = [phase EXCEPT ![c] = "handle_sync_lower"]
      /\ insn' = [insn EXCEPT ![c] = i]
      /\ guest' = guest /\ program' = program /\ counter' = counter
  BY Zenon DEF Trap, TrapInv
<1>2. \A d \in Cores \ {c} : frame'[d] = frame[d]
  BY <1>1, Zenon DEF Trap
<1>3. \A d \in Cores \ {c} : /\ phase'[d] = phase[d] /\ guest'[d] = guest[d]
                              /\ frame'[d] = frame[d] /\ insn'[d] = insn[d]
  BY <1>1, <1>2, Zenon
<1>4. phase'[c] = "handle_sync_lower" /\ guest'[c] = guest[c]
  BY <1>1, Zenon
<1>5. Views'[c] = Views[c] /\ Executed'[c] = Executed[c] /\ c \notin Panicked /\ c \notin Panicked'
  BY <1>1, <1>4, Zenon DEF Views, Executed, Panicked
<1> QED
  BY <1>1, <1>3, <1>5, Unseen, Zenon

\* and so is the return.
LEMMA ReturnUnseen ==
    ASSUME TrapInv, NEW c \in Cores, Return(c)
    PROVE  UNCHANGED Machine!machine
<1>1. /\ DOMAIN phase = Cores /\ DOMAIN frame = Cores /\ DOMAIN guest = Cores
      /\ phase[c] = "return" /\ phase' = [phase EXCEPT ![c] = "guest"]
      /\ frame' = [frame EXCEPT ![c] = None]
      /\ insn' = insn /\ program' = program /\ counter' = counter
      /\ guest' = [guest EXCEPT ![c] = Restored(guest[c], frame[c])]
  BY Zenon DEF Return, TrapInv
<1>2. \A d \in Cores \ {c} : /\ phase'[d] = phase[d] /\ guest'[d] = guest[d]
                              /\ frame'[d] = frame[d] /\ insn'[d] = insn[d]
  BY <1>1, Zenon
<1>3. /\ phase'[c] = "guest" /\ insn'[c] = insn[c]
      /\ guest'[c] = Restored(guest[c], frame[c])
  BY <1>1, Zenon
<1>4. Views'[c] = Views[c] /\ Executed'[c] = Executed[c] /\ c \notin Panicked /\ c \notin Panicked'
  BY <1>1, <1>3, Zenon DEF Views, Executed, Panicked
<1> QED
  BY <1>1, <1>2, <1>4, Unseen, Zenon

\* The step of the handler that decides is the step of the machine.
LEMMA HandledSeen ==
    ASSUME TrapInv, NEW c \in Cores, Handled(c)
    PROVE  Machine!Next
<1>1. /\ phase[c] = "handle_sync_lower" /\ insn[c] \in program[c].instructions
      /\ program' = program /\ insn' = insn
      /\ \A d \in Cores \ {c} :
            phase'[d] = phase[d] /\ guest'[d] = guest[d] /\ frame'[d] = frame[d]
  BY Zenon DEF Handled
<1>2. /\ Views' = [Views EXCEPT ![c] = Views'[c]]
      /\ Executed' = [Executed EXCEPT ![c] = Executed'[c]]
      /\ Panicked' \ {c} = Panicked \ {c}
  BY <1>1, OthersSeen, Zenon
<1>3. Views[c] = guest[c] /\ Executed[c] = None /\ c \notin Panicked
  BY <1>1, Zenon DEF Views, Executed, Panicked
<1>4. ASSUME phase'[c] = "return",
             Executes(insn[c], guest[c], counter, Restored(guest'[c], frame'[c]), counter')
      PROVE  Machine!Execute(c)
  <2>1. /\ Views'[c] = Restored(guest'[c], frame'[c]) /\ Executed'[c] = insn[c]
        /\ c \notin Panicked'
    BY <1>1, <1>4, Zenon DEF Views, Executed, Panicked
  <2>2. Panicked' = Panicked
    BY <1>2, <1>3, <2>1
  <2>3. Executes(Executed'[c], Views[c], counter, Views'[c], counter')
    BY <1>3, <1>4, <2>1, Zenon
  <2>4. Executed'[c] \in program[c].instructions
    BY <1>1, <2>1, Zenon
  <2> QED
    BY <1>1, <1>2, <1>3, <2>2, <2>3, <2>4 DEF Machine!Execute
<1>5. ASSUME phase'[c] = "panic", guest'[c] = guest[c], counter' = counter,
             Stops(insn[c], guest[c], counter)
      PROVE  Machine!Stop(c)
  <2>1. Views'[c] = Views[c] /\ Executed'[c] = Executed[c] /\ c \in Panicked'
    BY <1>1, <1>3, <1>5, Zenon DEF Views, Executed, Panicked
  <2>2. Panicked' = Panicked \cup {c}
    BY <1>2, <1>3, <2>1, Zenon
  <2>3. Views' = Views
    BY <1>2, <2>1, Zenon DEF Views
  <2>4. Executed' = Executed
    BY <1>2, <2>1, Zenon DEF Executed
  <2>5. Stops(insn[c], Views[c], counter)
    BY <1>3, <1>5, Zenon
  <2> QED
    BY <1>1, <1>3, <1>5, <2>2, <2>3, <2>4, <2>5 DEF Machine!Stop
<1> QED
  BY <1>4, <1>5, Zenon DEF Handled, Machine!Next

\* The guest's other instructions are those of the machine.
LEMMA RunsSeen ==
    ASSUME TrapInv, NEW c \in Cores, GuestRuns(c)
    PROVE  Machine!Next
<1>1. /\ DOMAIN insn = Cores /\ DOMAIN guest = Cores
      /\ phase[c] = "guest" /\ insn[c] # None /\ phase' = phase /\ frame' = frame
      /\ insn' = [insn EXCEPT ![c] = None] /\ program' = program /\ counter' = counter
  BY Zenon DEF GuestRuns, TrapInv
<1>2. PICK g \in program[c].states : guest' = [guest EXCEPT ![c] = g]
  BY Zenon DEF GuestRuns
<1>3. \A d \in Cores \ {c} : /\ phase'[d] = phase[d] /\ guest'[d] = guest[d]
                              /\ frame'[d] = frame[d] /\ insn'[d] = insn[d]
  BY <1>1, <1>2, Zenon
<1>4. /\ Views' = [Views EXCEPT ![c] = Views'[c]]
      /\ Executed' = [Executed EXCEPT ![c] = Executed'[c]]
  BY <1>3, OthersSeen, Zenon
<1>5. guest'[c] = g /\ insn'[c] = None
  BY <1>1, <1>2, Zenon
<1>6. Views'[c] = g /\ Executed[c] # None /\ Executed'[c] = None
  BY <1>1, <1>5 DEF Views, Executed
<1>7. Panicked' = Panicked
  BY <1>1, Zenon DEF Panicked
<1>8. Machine!Run(c)
  BY <1>1, <1>4, <1>6, <1>7 DEF Machine!Run
<1> QED
  BY <1>8, Zenon DEF Machine!Next

\* Every step is a step of the machine, or one that the guest does not see.
LEMMA MachineNext ==
    ASSUME FindExactly, TrapInv, counter \in Word, [Next]_vars
    PROVE  [Machine!Next]_(Machine!machine)
<1>1. ASSUME NEW c \in Cores, NEW i \in program[c].instructions, Trap(c, i)
      PROVE  UNCHANGED Machine!machine
  BY <1>1, TrapUnseen, Zenon
<1>2. ASSUME NEW c \in Cores, Return(c)
      PROVE  UNCHANGED Machine!machine
  BY <1>2, ReturnUnseen, Zenon
<1>3. ASSUME NEW c \in Cores, HandleDataAbort(c) \/ HandleCall(c) \/ UnexpectedException(c)
      PROVE  Machine!Next
  <2>1. Handled(c)
    BY <1>3, AccessStep, CallStep, UnexpectedStep
  <2> QED
    BY <2>1, HandledSeen
<1>4. ASSUME NEW c \in Cores, GuestRuns(c)
      PROVE  Machine!Next
  BY <1>4, RunsSeen
<1>5. CASE UNCHANGED vars
  BY <1>5, Zenon DEF vars, Machine!machine, Views, Executed, Panicked
<1>6. CASE Stopped
  BY <1>5, <1>6, Zenon DEF Stopped
<1> QED
  BY <1>1, <1>2, <1>3, <1>4, <1>5, <1>6 DEF Next

\* The machine starts as RITM does.
LEMMA MachineInit == Init => Machine!Init
<1> SUFFICES ASSUME Init PROVE Machine!Init
  BY Zenon
<1>1. /\ phase = [c \in Cores |-> "guest"] /\ insn = [c \in Cores |-> None]
      /\ program \in Programs /\ counter = 0
      /\ guest \in [Cores -> UNION {program[c].states : c \in Cores}]
      /\ \A c \in Cores : guest[c] \in program[c].states
  BY Zenon DEF Init
<1>2. Views = guest
  BY <1>1, Zenon DEF Views
<1>3. Executed = [c \in Cores |-> None] /\ Panicked = {}
  BY <1>1, Zenon DEF Executed, Panicked
<1> QED
  BY <1>1, <1>2, <1>3, Zenon DEF Machine!Init

-----------------------------------------------------------------------------
(* The values of the counter *)

\* What the argument needs of the sizes of finite sets: of cores, and of values
\* below the counter.
Countable ==
    /\ \A S \in SUBSET Cores :
          /\ Cardinality(S) \in Nat
          /\ \A T \in SUBSET S : Cardinality(T) <= Cardinality(S)
          /\ \A c \in Cores \ S : Cardinality(S \cup {c}) = Cardinality(S) + 1
          /\ \A c \in S : Cardinality(S \ {c}) = Cardinality(S) - 1
    /\ \A n \in Nat : \A S \in SUBSET (0..n - 1) :
          /\ Cardinality(S) \in Nat
          /\ \A k \in 0..n - 1 : k \notin S => Cardinality(S \cup {k}) = Cardinality(S) + 1
    /\ Cardinality({}) = 0

\* The sizes of the counter's invariant.
LEMMA CounterSizes ==
    ASSUME CounterInv, Countable
    PROVE  /\ Held \in SUBSET InFlight /\ InFlight \in SUBSET Cores
           /\ Cardinality(loaded) \in Nat /\ Cardinality(Held) \in Nat
           /\ Cardinality(InFlight) \in Nat /\ Cardinality(Cores) \in Nat
           /\ Cardinality(Held) <= Cardinality(InFlight)
           /\ Cardinality(InFlight) <= Cardinality(Cores)
           /\ MAX_COUNTER_LOADS \in Nat
<1>1. Held \in SUBSET InFlight /\ InFlight \in SUBSET Cores /\ Cores \in SUBSET Cores
  BY Zenon DEF Held, InFlight, Holding
<1>2. counter \in Nat /\ loaded \in SUBSET (0..counter - 1)
  BY Zenon DEF CounterInv
<1> QED
  BY <1>1, <1>2, CounterAssumption, Zenon DEF Countable

\* The counter fits its word, and goes on fitting when a core takes a value.
LEMMA CounterFits ==
    ASSUME CounterInv, Countable
    PROVE  /\ counter \in Word /\ loaded \subseteq Word
           /\ \A c \in InFlight \ Held : cast_unsigned(counter + 1) = counter + 1
<1> DEFINE M == Pow2[bits("U64")]
<1>1. /\ counter \in Nat /\ loaded \subseteq 0..counter - 1
      /\ Cardinality(loaded) + Cardinality(Held) = counter
      /\ Cardinality(loaded) + Cardinality(InFlight) <= MAX_COUNTER_LOADS + Cardinality(Cores)
  BY Zenon DEF CounterInv
<1>2. /\ M \in Nat \ {0} /\ MAX_COUNTER_LOADS + Cardinality(Cores) < M
      /\ Word = 0..M - 1 /\ cast_unsigned(counter + 1) = (counter + 1) % M
  <2>1. "U64" \in MemoryAccessWidth
    BY Zenon DEF MemoryAccessWidth
  <2>2. M \in Nat \ {0}
    BY <2>1, Masks, Zenon
  <2> QED
    BY <2>2, CounterAssumption, Zenon DEF Word, cast_unsigned
<1> HIDE DEF M
<1>3. counter \in Word /\ loaded \subseteq Word
  BY <1>1, <1>2, CounterSizes
<1>4. ASSUME NEW c \in InFlight \ Held
      PROVE  cast_unsigned(counter + 1) = counter + 1
  <2>1. Held \cup {c} \in SUBSET InFlight /\ InFlight \in SUBSET Cores /\ Held \in SUBSET Cores
    BY CounterSizes, Zenon
  <2>2. /\ Cardinality(Held \cup {c}) = Cardinality(Held) + 1
        /\ Cardinality(Held \cup {c}) <= Cardinality(InFlight)
    BY <2>1, Zenon DEF Countable
  <2>3. counter + 1 \in Int /\ counter + 1 \in 0..M - 1
    BY <1>1, <1>2, <2>2, CounterSizes
  <2> QED
    BY <1>2, <2>3, ReducedOnce, Zenon
<1> QED
  BY <1>3, <1>4, Zenon

\* A step in which no core takes or loads a value.
LEMMA CounterKept ==
    ASSUME CounterInv, Countable, Kept
    PROVE  CounterInv'
<1> USE DEF Kept
<1>1. {answer'[d].value : d \in Held} = {answer[d].value : d \in Held}
  BY Zenon
<1>2. /\ loaded' \cup {answer'[d].value : d \in Held'} = 0..counter' - 1
      /\ \A d \in Held' : answer'[d].value \notin loaded'
      /\ \A d, e \in Held' : answer'[d].value = answer'[e].value => d = e
  BY <1>1 DEF CounterInv
<1>3. Cardinality(loaded) + Cardinality(InFlight') <= MAX_COUNTER_LOADS + Cardinality(Cores)
  <2>1. InFlight' \in SUBSET Cores /\ Cores \in SUBSET Cores
    BY Zenon DEF InFlight
  <2>2. /\ Cardinality(InFlight') \in Nat /\ Cardinality(InFlight') <= Cardinality(Cores)
        /\ InFlight' \subseteq InFlight => Cardinality(InFlight') <= Cardinality(InFlight)
    BY <2>1, CounterSizes, Zenon DEF Countable
  <2> QED
    BY <2>2, CounterSizes DEF CounterInv
<1> QED
  BY <1>2, <1>3, Zenon DEF CounterInv

\* A core takes the value of the counter, and the counter goes on.
LEMMA CounterTaken ==
    ASSUME CounterInv, Countable, NEW c \in Cores, Taken(c)
    PROVE  CounterInv'
<1>1. /\ c \in InFlight \ Held /\ counter' = counter + 1 /\ loaded' = loaded
      /\ Held' = Held \cup {c} /\ answer'[c].value = counter
      /\ \A d \in Held : answer'[d].value = answer[d].value
      /\ InFlight' \subseteq InFlight
  BY CounterFits, Zenon DEF Taken
<1>2. /\ counter \in Nat /\ counter' \in Nat
      /\ loaded \cup {answer[d].value : d \in Held} = 0..counter - 1
      /\ \A d \in Held : answer[d].value \notin loaded
      /\ \A d, e \in Held : answer[d].value = answer[e].value => d = e
  BY <1>1 DEF CounterInv
<1>3. loaded' \cup {answer'[d].value : d \in Held'} = 0..counter' - 1
  <2>1. {answer'[d].value : d \in Held'} = {answer[d].value : d \in Held} \cup {counter}
    BY <1>1, Zenon
  <2>2. 0..(counter + 1) - 1 = (0..counter - 1) \cup {counter}
    BY <1>2
  <2>3. loaded \cup {answer'[d].value : d \in Held'} = 0..(counter + 1) - 1
    BY <1>2, <2>1, <2>2, Zenon
  <2> QED
    BY <1>1, <2>3, Zenon
<1>4. counter \notin loaded /\ \A d \in Held : answer[d].value # counter
  <2>1. counter \notin 0..counter - 1
    BY <1>2
  <2> QED
    BY <1>2, <2>1, Zenon
<1>5. /\ \A d \in Held' : answer'[d].value \notin loaded'
      /\ \A d, e \in Held' : answer'[d].value = answer'[e].value => d = e
  BY <1>1, <1>2, <1>4
<1>6. Cardinality(Held') = Cardinality(Held) + 1
  <2>1. Held \in SUBSET Cores /\ c \in Cores \ Held
    BY <1>1, CounterSizes, Zenon
  <2>2. Cardinality(Held \cup {c}) = Cardinality(Held) + 1
    BY <2>1, Zenon DEF Countable
  <2> QED
    BY <1>1, <2>2, Zenon
<1>7. Cardinality(loaded') + Cardinality(Held') = counter'
  BY <1>1, <1>2, <1>6, CounterSizes DEF CounterInv
<1>8. Cardinality(loaded') + Cardinality(InFlight') <= MAX_COUNTER_LOADS + Cardinality(Cores)
  <2>1. /\ InFlight' \in SUBSET InFlight /\ InFlight \in SUBSET Cores
        /\ InFlight' \in SUBSET Cores
    BY <1>1, CounterSizes, Zenon
  <2>2. Cardinality(InFlight') \in Nat /\ Cardinality(InFlight') <= Cardinality(InFlight)
    BY <2>1, Zenon DEF Countable
  <2> QED
    BY <1>1, <2>2, CounterSizes DEF CounterInv
<1> QED
  BY <1>2, <1>3, <1>5, <1>7, <1>8 DEF CounterInv

\* A core returns to the guest with the value it holds.
LEMMA CounterReturned ==
    ASSUME CounterInv, Countable, NEW c \in Cores, Returned(c)
    PROVE  CounterInv'
<1>1. /\ c \in Held /\ counter' = counter /\ answer' = answer
      /\ loaded' = loaded \cup {answer[c].value}
      /\ Held' = Held \ {c} /\ InFlight' = InFlight \ {c}
  BY Zenon DEF Returned
<1>2. /\ counter \in Nat
      /\ loaded \cup {answer[d].value : d \in Held} = 0..counter - 1
      /\ \A d \in Held : answer[d].value \notin loaded
      /\ \A d, e \in Held : answer[d].value = answer[e].value => d = e
  BY Zenon DEF CounterInv
<1>3. loaded' \cup {answer'[d].value : d \in Held'} = 0..counter' - 1
  <2>1. {answer[d].value : d \in Held} = {answer[c].value} \cup {answer[d].value : d \in Held \ {c}}
    BY <1>1, Zenon
  <2> QED
    BY <1>1, <1>2, <2>1, Zenon
<1>4. /\ \A d \in Held' : answer'[d].value \notin loaded'
      /\ \A d, e \in Held' : answer'[d].value = answer'[e].value => d = e
  BY <1>1, <1>2, Zenon
<1>5. Cardinality(loaded') = Cardinality(loaded) + 1
  <2>1. loaded \in SUBSET (0..counter - 1) /\ answer[c].value \in (0..counter - 1) \ loaded
    BY <1>1, <1>2, Zenon
  <2>2. Cardinality(loaded \cup {answer[c].value}) = Cardinality(loaded) + 1
    BY <1>2, <2>1, Zenon DEF Countable
  <2> QED
    BY <1>1, <2>2, Zenon
<1>6. /\ Cardinality(Held') = Cardinality(Held) - 1
      /\ Cardinality(InFlight') = Cardinality(InFlight) - 1
  <2>1. /\ Held \in SUBSET Cores /\ InFlight \in SUBSET Cores /\ c \in Held /\ c \in InFlight
    BY <1>1, CounterSizes, Zenon
  <2>2. /\ Cardinality(Held \ {c}) = Cardinality(Held) - 1
        /\ Cardinality(InFlight \ {c}) = Cardinality(InFlight) - 1
    BY <2>1, Zenon DEF Countable
  <2> QED
    BY <1>1, <2>2, Zenon
<1>7. /\ Cardinality(loaded') + Cardinality(Held') = counter'
      /\ Cardinality(loaded') + Cardinality(InFlight') <= MAX_COUNTER_LOADS + Cardinality(Cores)
  BY <1>1, <1>5, <1>6, CounterSizes DEF CounterInv
<1> QED
  BY <1>1, <1>2, <1>3, <1>4, <1>7 DEF CounterInv

\* However the values move, none is lost and none is counted twice.
LEMMA CounterNext ==
    ASSUME CounterInv, Countable, CounterMoves
    PROVE  CounterInv'
  BY CounterKept, CounterTaken, CounterReturned, Zenon DEF CounterMoves

\* Nothing is held or loaded at first, and the counter is 0.
LEMMA CounterInit ==
    ASSUME Init, Countable
    PROVE  CounterInv
<1>1. Held = {} /\ InFlight = {} /\ counter = 0 /\ loaded = {}
  BY Zenon DEF Init, Held, Holding, InFlight
<1>2. Cardinality({}) = 0 /\ Cardinality(Cores) \in Nat /\ MAX_COUNTER_LOADS \in Nat
  BY CounterAssumption, Zenon DEF Countable
<1> QED
  BY <1>1, <1>2 DEF CounterInv

-----------------------------------------------------------------------------
(* Theorems *)

Search == INSTANCE Stage2BuilderProofs WITH
    PAGE_SIZE <- Pow2[FAULT_IPA_PAGE_SHIFT], MAP_LIMIT <- U64_MAX,
    MAX_ALLOWED_RANGES <- 0, MAX_MEMORY_ACCESS_HANDLERS <- Len(Regions),
    Attributes <- {}, Handlers <- {"filtered", "read_only", "write_only"},
    Unused <- None, idmap <- <<>>, regions <- Regions, allowed <- <<>>,
    phase <- "built", result <- "Ok", granted <- {}

\* The registry of the guest is sorted, so the bisection is exact on it.
LEMMA FindCovering == FindExactly
<1> SUFFICES ASSUME NEW ipa \in Stage2!U64
             PROVE  /\ \A k \in DOMAIN Regions :
                          Regions[k].base_ipa <= ipa /\ ipa < Regions[k].end_ipa =>
                              Stage2!find(ipa) = [use |-> Regions[k].handler,
                                                  offset |-> ipa - Regions[k].base_ipa]
                    /\ (\A k \in DOMAIN Regions :
                           ~(Regions[k].base_ipa <= ipa /\ ipa < Regions[k].end_ipa)) =>
                              Stage2!find(ipa) = [use |-> None, offset |-> 0]
  BY DEF FindExactly
<1>1. Stage2!find(ipa) = Search!find(ipa)
  BY DEF Stage2!find, Search!find, Stage2!Bisect, Search!Bisect, Stage2!Compare, Search!Compare,
         Stage2!end_ipa, Search!end_ipa, Stage2!checked_range_end_overflows,
         Search!checked_range_end_overflows
<1>2. Regions \in Seq(Search!Region) /\ ipa \in Search!U64
  BY RegistryAssumption DEF Stage2!Region, Search!Region, Stage2!U64, Search!U64
<1>3. Search!Sorted
  <2>1. ASSUME NEW k \in DOMAIN Regions
        PROVE  /\ Search!WellFormed(Regions[k])
               /\ Regions[k].end_ipa = Regions[k].base_ipa + Regions[k].size
    <3>1. /\ Regions[k].base_ipa \in Stage2!Pages /\ Regions[k].size > 0
          /\ Regions[k].end_ipa = Regions[k].base_ipa + Regions[k].size
      BY RegistryAssumption
    <3>2. Regions[k] \in Stage2!Region
      BY RegistryAssumption
    <3>3. /\ Regions[k].size \in Nat /\ Regions[k].base_ipa \in Nat
          /\ Regions[k].end_ipa \in Stage2!U64
      BY <3>2, RegistryAssumption DEF Stage2!Region, Stage2!U64
    <3>4. Regions[k].base_ipa < Regions[k].end_ipa
      BY <3>1, <3>3
    <3> QED
      BY <3>1, <3>3, <3>4 DEF Search!WellFormed, Stage2!Pages, Search!Pages, Stage2!U64, Search!U64
  <2> QED
    BY <2>1, RegistryAssumption DEF Search!Sorted
<1>4. /\ Pow2[FAULT_IPA_PAGE_SHIFT] \in Nat \ {0} /\ U64_MAX \in Nat /\ Len(Regions) \in Nat
      /\ None \notin {"filtered", "read_only", "write_only"}
  BY WordsArePositive, RegistryAssumption, NoneAssumption
<1> QED
  BY <1>1, <1>2, <1>3, <1>4, Search!FindExact

INSTANCE FiniteSetTheorems

\* The cores are finitely many, and so are the values below the counter.
LEMMA FinitelyMany == Countable
<1>1. ASSUME NEW S \in SUBSET Cores
      PROVE  /\ Cardinality(S) \in Nat
             /\ \A T \in SUBSET S : Cardinality(T) <= Cardinality(S)
             /\ \A c \in Cores \ S : Cardinality(S \cup {c}) = Cardinality(S) + 1
             /\ \A c \in S : Cardinality(S \ {c}) = Cardinality(S) - 1
  <2>1. IsFiniteSet(S)
    BY CounterAssumption, FS_Subset
  <2> QED
    BY <2>1, FS_CardinalityType, FS_Subset, FS_AddElement, FS_RemoveElement
<1>2. ASSUME NEW n \in Nat, NEW S \in SUBSET (0..n - 1)
      PROVE  /\ Cardinality(S) \in Nat
             /\ \A k \in 0..n - 1 : k \notin S => Cardinality(S \cup {k}) = Cardinality(S) + 1
  <2>1. 0 \in Int /\ n - 1 \in Int
    OBVIOUS
  <2>2. IsFiniteSet(0..n - 1)
    BY <2>1, FS_Interval
  <2>3. IsFiniteSet(S)
    BY <2>2, FS_Subset
  <2> QED
    BY <2>3, FS_CardinalityType, FS_AddElement
<1> QED
  BY <1>1, <1>2, FS_EmptySet, Zenon DEF Countable

\* The inductive invariant holds throughout.
LEMMA TrapInvariant == Spec => [](TrapInv /\ CounterInv)
<1>1. Init => TrapInv /\ CounterInv
  BY TrapInit, CounterInit, FinitelyMany
<1>2. TrapInv /\ CounterInv /\ [Next]_vars => (TrapInv /\ CounterInv)'
  BY CounterFits, FinitelyMany, FindCovering, TrapNext, CounterNext
<1> QED
  BY <1>1, <1>2, PTL DEF Spec

\* The guest finds each trapped instruction executed as the architecture says.
THEOREM GuestExecutes == Spec => []GuestSeesExecution
<1>1. TrapInv => GuestSeesExecution
  BY TrapSees
<1> QED
  BY <1>1, TrapInvariant, PTL

\* Each value of FILTERED_MMIO_COUNTER is loaded once, and none is skipped.
THEOREM CounterIsExact == Spec => []CounterExact
<1>1. CounterInv => CounterExact
  BY DEF CounterInv, CounterExact, Held
<1> QED
  BY <1>1, TrapInvariant, PTL

\* Trap and emulation implement the machine that the guest sees: each trapped
\* instruction takes effect in one step, on the core and on the device.
THEOREM TrapImplementsMachine == Spec => ImplementsMachine
<1>1. TrapInv /\ CounterInv /\ [Next]_vars => [Machine!Next]_(Machine!machine)
  BY CounterFits, FinitelyMany, FindCovering, MachineNext
<1> QED
  BY <1>1, MachineInit, TrapInvariant, PTL DEF Spec, ImplementsMachine, Machine!Spec

\* Registers and the counter hold words, and a core has a frame exactly while it
\* is in the handler.
THEOREM TrapTypeCorrect == Spec => []TypeOK
<1>1. TrapInv /\ CounterInv => TypeOK
  BY CounterFits, FinitelyMany, TrapTypes
<1> QED
  BY <1>1, TrapInvariant, PTL

=============================================================================
