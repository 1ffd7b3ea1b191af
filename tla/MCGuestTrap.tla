---------------------------- MODULE MCGuestTrap ----------------------------
(* Instances of GuestTrap with bytes of one bit and pages of 64 bytes. *)
EXTENDS GuestTrap

CONSTANTS c1, c2

MCRegions ==
    <<[base_ipa |-> 64, size |-> 64, end_ipa |-> 128, handler |-> "filtered"],
      [base_ipa |-> 192, size |-> 64, end_ipa |-> 256, handler |-> "read_only"],
      [base_ipa |-> 256, size |-> 64, end_ipa |-> 320, handler |-> "write_only"]>>

MCPsciIds == {132, 133}

MCPsciErrors == {-1, -2}

\* 240 is the identifier that QEMU handles.
MCPlatformHvc ==
    [id \in {240, 241, 242} |->
        CASE id = 240 -> HvcResponse(222)
          [] id = 241 -> [kind |-> "SuccessLarge", regs |-> [n \in 1..18 |-> 100 + n]]
          [] id = 242 -> [kind |-> "Err", error |-> -3]]

MCFilteredValues ==
    [offset \in {0, 24, 32, 40} |->
        CASE offset = 0 -> 239 [] offset = 24 -> 17 [] offset = 32 -> 85 [] offset = 40 -> 153]

\* Registers that all differ; x0 is the function identifier of a call.
MCGuest(x0, mode, vbar) ==
    [x |-> [n \in Registers |-> IF n = 0 THEN x0 ELSE 255 - 7 * n], pc |-> 16,
     spsr |-> mode, vbar_el1 |-> vbar, elr_el1 |-> 0, spsr_el1 |-> "EL0t",
     far_el1 |-> 0, esr_el1 |-> [ec |-> 0, iss |-> 0]]

MCGuests ==
    {MCGuest(id, "EL1h", 2048) : id \in {5, 132, 240, 241, 242}}
    \cup {MCGuest(5, "EL0t", 2048), MCGuest(5, "EL1h", 0)}

\* The loads and stores of the instruction set, by width, sign and target size.
MCForms ==
    {<<"load", "U8", FALSE, FALSE>>, <<"load", "U8", TRUE, FALSE>>, <<"load", "U8", TRUE, TRUE>>,
     <<"load", "U16", FALSE, FALSE>>, <<"load", "U16", TRUE, FALSE>>, <<"load", "U16", TRUE, TRUE>>,
     <<"load", "U32", FALSE, FALSE>>, <<"load", "U32", TRUE, TRUE>>, <<"load", "U64", FALSE, TRUE>>,
     <<"store", "U8", FALSE, FALSE>>, <<"store", "U16", FALSE, FALSE>>,
     <<"store", "U32", FALSE, FALSE>>, <<"store", "U64", FALSE, TRUE>>}

\* A page of the guest's address space is not the page of the same number.
MCAccess(form, reg, ipa, isv) ==
    [op |-> form[1], width |-> form[2], signed |-> form[3], sf |-> form[4],
     reg |-> reg, ipa |-> ipa, va |-> 4096 + (ipa % 64), isv |-> isv]

MCCalls == {[op |-> "hvc"], [op |-> "smc"], [op |-> "fetch"]}

MCInstructions ==
    {MCAccess(form, reg, ipa, TRUE) :
        form \in MCForms, reg \in {0, 18, 19, 28, 29, 30, 31},
        ipa \in {64, 72, 80, 127, 128, 200, 320}}
    \cup {MCAccess(form, 3, 264, TRUE) : form \in MCForms}
    \cup {MCAccess(form, 3, 80, FALSE) : form \in MCForms}
    \cup MCCalls

\* Few instructions, about the counter.
MCCounterInstructions ==
    {MCAccess(form, 19, 80, TRUE) : form \in {f \in MCForms : f[1] = "load"}}
    \cup {MCAccess(<<"load", "U64", FALSE, TRUE>>, 0, 88, TRUE), [op |-> "hvc"]}

MCCounterGuests == {MCGuest(132, "EL1h", 2048)}

\* One core that executes everything, or two that load the counter.
MCPrograms ==
    {[c \in {c1, c2} |->
        IF c = c1 THEN [instructions |-> MCInstructions, states |-> MCGuests]
                  ELSE [instructions |-> {}, states |-> MCCounterGuests]],
     [c \in {c1, c2} |->
        [instructions |-> MCCounterInstructions, states |-> MCCounterGuests]]}

=============================================================================
