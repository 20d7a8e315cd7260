---------------------------- MODULE MCSerialLink ----------------------------
(***************************************************************************)
(* Programs for SerialLink: one whose packet has the checksum 0x21, the    *)
(* one value of it that makes hal_Loader store what follows; and one that  *)
(* has a zero in the middle, as all tests of the repository have, and      *)
(* 0x21 in the second byte after it (LDC_I8 0, LDC_C8 '!', LDC 0, PutI,    *)
(* HALT); what is stored of it prints, perhaps the byte that the host takes *)
(* for an acknowledgement.                                                 *)
(***************************************************************************)
EXTENDS SerialLink, TLC

Stored21 == <<145, 108, 0>>
Exclaim  == <<217, 0, 215, 33, 144, 255, 130, 0>>

MCPrograms == {Stored21, Exclaim}
MCExclaim  == {Exclaim}

MCPrinted  == Stored21 :> {Text} @@ Exclaim :> {H!ACK, Text}
MCText     == [p \in MCPrograms |-> {Text}]
=============================================================================
