---------------------------- MODULE MCVirtQueue -----------------------------
(***************************************************************************)
(* kernel_main in short: the constructor's command, the set-up, the first  *)
(* picture, one printf before and three after the logger got the terminal, *)
(* and the last log.  With its 16 commands, and those of the reports, both *)
(* rings of five slots and the counters, modulo 8, wrap several times, and *)
(* the commands start at every slot.                                       *)
(***************************************************************************)
EXTENDS VirtQueue

MCProgram ==
  << "info", "create", "attach", "scanout", "transfer", "flush", "printf", "terminal",
     "printf", "printf", "printf", "log" >>
=============================================================================
