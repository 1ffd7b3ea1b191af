------------------------------- MODULE MCBoot -------------------------------
(* Boot on a map of a few pages, with pages of four bytes and words of two. *)
EXTENDS Boot

BankAt(address, size) == <<[address |-> address, size |-> size]>>

Bank(size) == BankAt(DRAM_START, size)

Tree(reg, bootargs) == [memory_node |-> TRUE, reg |-> reg, bootargs |-> bootargs]

On(x0, fdt_at, fdt, dtb_size, shared_heap) ==
    [x0 |-> x0, x1 |-> 11, x2 |-> 12, x3 |-> 13, fdt |-> fdt, fdt_at |-> fdt_at,
     dtb_size |-> dtb_size, shared_heap |-> shared_heap]

\* The bank ends in the image, at its end, behind it, at and behind the end of
\* what RITM maps, and behind the end of the address space; or it starts late:
\* below the image, at its start, in it and behind it.
Banks == {Bank(size) : size \in {20, 24, 40, 96, 112, 170}}
         \cup {BankAt(address, 40) : address \in {36, 40, 44, 60}}
         \cup {<<>>, <<[address |-> 32, size |-> 60], [address |-> 92, size |-> 8]>>}

BootArgLists == {<<>>, <<"quiet">>, <<"ritm.boot_mode=el2">>, <<"ritm.boot_mode=el1">>,
                 <<"ritm.boot_mode=?", "ritm.boot_mode=el2">>,
                 <<"ritm.boot_mode=el1", "ritm.boot_mode=el2">>}

Fdts == {Tree(reg, bootargs) : reg \in Banks, bootargs \in BootArgLists}
        \cup {[memory_node |-> FALSE, reg |-> <<>>, bootargs |-> <<>>]}

\* Every device tree; every place of the shared heap, relative to a page and to
\* a word, with trees that fit and trees that do not; every place of the tree.
MCMachines ==
    {On(0, DRAM_START, fdt, 3, 42) : fdt \in Fdts}
    \cup {On(0, DRAM_START, Tree(Bank(40), bootargs), dtb_size, shared_heap) :
              bootargs \in {<<>>, <<"ritm.boot_mode=el2">>},
              dtb_size \in {1, 3, 4, 7, 8}, shared_heap \in 40..47}
    \cup {On(x0, fdt_at, Tree(Bank(96), <<>>), 3, 42) :
              x0 \in {0, 36, 70, 100}, fdt_at \in {32, 36, 70, 100}}

=============================================================================
