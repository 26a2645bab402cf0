--------------------------- MODULE MCListThreads ----------------------------
(* ListThreads with the sequences of threads that a cfg cannot write. *)
EXTENDS ListThreads

MCCounters == <<"inc">>
MCSwappers == <<"swap1", "swap2">>
=============================================================================
