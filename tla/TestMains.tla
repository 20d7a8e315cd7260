------------------------------ MODULE TestMains ------------------------------
(***************************************************************************)
(* The test mains that print on the console of the target, as sequences of *)
(* calls for Board: tvmstack.c, tout.c, hal_TestInterman0.c, and the       *)
(* private test of bsl_COut.c (one pass of its endless loop).              *)
(*                                                                         *)
(* The numbers of tout.c are the ends of the ranges of i32 and u32, here   *)
(* of words of 28 bits: like 32 bits they give numbers of equal length in  *)
(* base 10 for the lowest i32 and the highest u32, and whole digits in     *)
(* base 16.                                                                *)
(***************************************************************************)
EXTENDS Integers, Sequences

PutS(text) == <<"PutS", text>>
PutC(c)    == <<"PutC", c>>

tvmstack ==
  <<<<"Hal_Init">>,
    PutS(<<"Test", " VM Operand Stack:", "\n">>),
    PutS(<<"[", " ", "]", "[", " ", "2", " ", "1", " ", "]", "[", " ", "3", " ", "]",
           "[", " ", "3", " ", "3", " ", "]", "[", " ", "9", " ", "]",
           "[", " ", "8", " ", "9", " ", "]", "[", " ", "1", " ", "]",
           "[", " ", "]", "\n">>),
    <<"Stack_New">>, <<"Stack_GetEnumerator">>, <<"Stack_Print">>,
    <<"Stack_Push", 1>>, <<"Stack_Push", 2>>, <<"Stack_Print">>,
    <<"Stack_add">>, <<"Stack_Print">>,
    <<"Stack_dup">>, <<"Stack_Print">>,
    <<"Stack_mul">>, <<"Stack_Print">>,
    <<"Stack_Push_top", -1>>, <<"Stack_Print">>,
    <<"Stack_sub">>, <<"Stack_Print">>,
    <<"Stack_Pop">>, <<"Stack_Print">>,
    <<"PutN">>>>

tout ==
  <<<<"Hal_Init">>,
    PutS(<<"Test", " Out:", "<", "2", "\n">>),
    PutS(<<"Bools: [", "T", "|", "F", "|", "T", "|", "T", "]", "\n">>),
    PutS(<<"Ints:  [", "-", "1", "|",
           "-", "1", "3", "4", "2", "1", "7", "7", "2", "8", "|",
           "1", "3", "4", "2", "1", "7", "7", "2", "7", "|",
           "2", "6", "8", "4", "3", "5", "4", "5", "5", "|",
           "F", "F", "F", "F", "F", "F", "F", "]", "\n">>),
    PutS(<<"Bools: [">>),
    <<"PutB", -1>>, PutC("|"), <<"PutB", 0>>, PutC("|"),
    <<"PutB", 1>>, PutC("|"), <<"PutB", 2>>, PutS(<<"]", "\n">>),
    PutS(<<"Ints:  [">>),
    <<"PutI", -1>>, PutC("|"), <<"PutI", -(2^27)>>, PutC("|"),
    <<"PutI", 2^27 - 1>>, PutC("|"), <<"PutU", 2^28 - 1>>, PutC("|"),
    <<"PutX", 2^28 - 1>>,
    PutS(<<"]", "\n">>)>>

TestCout ==
  <<<<"Hal_Init">>,
    PutS(<<"Test", " xtoa", "\n">>),
    PutS(<<"1", "2", "3", "4", "5", "6", "7", "8", "9", "A", "B", "C", "D", "E", "F",
           "\n">>),
    <<"PutI", 1234>>, <<"PutU", 56789>>, <<"PutX", \hABCDEF>>,
    <<"PutN">>>>

I  == <<PutS(<<"I">>), <<"PutS_GetStatusReg">>>>
SI == <<PutS(<<"SI">>), <<"PutS_saveStatus">>>>
Bar == <<PutS(<<" | ">>)>>
EI  == <<PutS(<<"<EI>">>), <<"Interrupt_Enable">>>>
DI  == <<PutS(<<"<DI>">>), <<"Interrupt_Disable">>>>
SDI == <<PutS(<<"<SDI>">>), <<"Interrupt_SaveAndDisable">>>>
RI  == <<PutS(<<"<RI>">>), <<"Interrupt_Restore">>>>

hal_TestInterman0 ==
  <<<<"Hal_Init">>,
    PutS(<<"Test", " #0 - Interrupt Manager", "\n">>),
    PutS(<<"OnEntry: I", "[d]", " | ", "<EI>", "I", "[e]", "<DI>", "I", "[d]", " | ",
           "<SDI>", "SI", "[d]", "I", "[d]", "<RI>", "I", "[d]", " | ",
           "<EI>", "I", "[e]", "<SDI>", "SI", "[e]", "I", "[d]", "<RI>", "I", "[e]",
           " | ", "OnExit: I", "[e]", "\n">>),
    PutS(<<"OnEntry: I">>), <<"PutS_GetStatusReg">>>>
  \o Bar \o EI \o I \o DI \o I
  \o Bar \o SDI \o SI \o I \o RI \o I
  \o Bar \o EI \o I \o SDI \o SI \o I \o RI \o I
  \o Bar \o <<PutS(<<"OnExit: I">>), <<"PutS_GetStatusReg">>, <<"PutN">>>>
=============================================================================
