---------------------------- MODULE MCRecordCfg ----------------------------
(* RecordCfg for TLC. *)
EXTENDS RecordCfg

\* A caller with a loop and a fork, and a function that is called from two places,
\* calls a third one and is called back by it; two names for the same address.
Calls ==
  [symbols |-> {<<1, "main">>, <<3, "f">>, <<3, "alias">>, <<4, "Skip">>},
   jumps |-> [a \in Key |-> CASE a = 1 -> {2, 3} [] a = 2 -> {1, 3} [] a = 3 -> {2, 4}
                              [] a = 4 -> {3} [] OTHER -> {}]]

\* Images of which only the symbols matter: one to four of them.
Symbols == Key \X {"f", "g"}
SymbolSets == {{s, t, u, v} : s, t, u, v \in Symbols}

AllPrograms ==
  {Calls} \cup {[symbols |-> S, jumps |-> [a \in Key |-> {}]] : S \in SymbolSets}
=============================================================================
