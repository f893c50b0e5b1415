---------------------------- MODULE MCScheduler ----------------------------
(* A small instance of Scheduler: three requests, a GPU that holds two or   *)
(* three of them at a time.                                                *)
EXTENDS Scheduler

MCGroup == 1 .. 3
MCSeqs == MCGroup \X (1 .. 4)
MCBestOfs == {<<1, 1, 1>>, <<1, 2, 1>>}
MCPromptLens == {<<1, 1, 2>>, <<1, 7, 8>>}
MCGpuBlocks == {<<"gpu", k>> : k \in 1 .. 4}
MCCpuBlocks == {<<"cpu", k>> : k \in 1 .. 3}
=============================================================================
