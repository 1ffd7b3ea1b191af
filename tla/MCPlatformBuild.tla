-------------------------- MODULE MCPlatformBuild --------------------------
(***************************************************************************)
(* The build script with the two platforms of the repository and one more, *)
(* and configurations with a repeated key, a missing key and each error.   *)
(***************************************************************************)
EXTENDS PlatformBuild

CONSTANT board

MCNames == {qemu, qemu_bl33, board}

Pair(key, number) == [kind |-> "pair", key |-> key, digits |-> TRUE, number |-> number]
Image(number) == Pair(RITM_IMAGE_ADDRESS_KEY, number)
Load(number) == Pair(PAYLOAD_ADDRESS_KEY, number)
Comment == [kind |-> "comment"]

MCShipped ==
    [p \in MCNames |-> IF p = qemu THEN <<Comment, Image(7), Load(2)>>
                       ELSE IF p = qemu_bl33 THEN <<Comment, Image(3), Load(4)>>
                       ELSE None]

MCConfigs ==
    {MCShipped[qemu], MCShipped[qemu_bl33],
     <<Image(7), Load(2), Image(5)>>,
     <<Image(7), Load(16)>>,
     <<Image(7)>>,
     <<Image(7), [kind |-> "no_equals"], Load(2)>>,
     <<Image(7), [Load(2) EXCEPT !.digits = FALSE], Load(2)>>,
     <<Pair("", 1), Image(7), Load(2)>>}

MCPayloads ==
    {[size |-> 7, data |-> 1], [size |-> 8, data |-> 2], [size |-> 9, data |-> 1]}

=============================================================================
