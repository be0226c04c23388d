-------------------------- MODULE RoundRobinTurns --------------------------
(***************************************************************************)
(* RoundRobinKernel with a history variable that counts turns.             *)
(***************************************************************************)
EXTENDS RoundRobinKernel

\* turns[c][d]: the turns, up to two, d got since c last got one or was created.
VARIABLE turns

NoTurns == [d \in Contexts |-> 0]

\* d gets the CPU.
CountTurn(d) ==
  turns' = [c \in Contexts |->
              IF c = d THEN NoTurns
              ELSE [turns[c] EXCEPT ![d] = IF @ = 2 THEN 2 ELSE @ + 1]]

HInit == Init /\ turns = [c \in Contexts |-> NoTurns]

HNext ==
  \/ (boot \/ yield) /\ CountTurn(esp0')
  \/ syscall_dup_thread /\ turns' = [turns EXCEPT ![ReserveBase + idx_reserve'] = NoTurns]
  \/ /\ HighLevelInit \/ scheduler_init_task \/ syscall_or_exception \/ TimerInterrupt
     /\ UNCHANGED turns

HSpec == HInit /\ [][HNext]_<<vars, turns>>

\* Nobody gets two turns while another thread waits for one: a thread waits for
\* at most one turn of each other thread, also of the ones created meanwhile.
NoOvertaking == Booted => \A c, d \in Live : c # d => turns[c][d] <= 1
=============================================================================
