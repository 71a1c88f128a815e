--------------------------- MODULE CommandChannel ---------------------------
(***************************************************************************)
(* What the functions of the GPU driver take the virtqueue for: a remote   *)
(* procedure call.  One command is under way at a time, the device carries *)
(* it out exactly once, and the caller returns with that command's answer. *)
(***************************************************************************)
EXTENDS Sequences, Naturals

CONSTANTS Commands, NoCommand

VARIABLES
  request,   \* the command that is under way, or NoCommand
  answered,  \* it has been carried out
  done,      \* the commands carried out so far, with their answers, in order
  result     \* the answer with which the last call returned

vars == << request, answered, done, result >>

Init ==
  /\ request = NoCommand
  /\ answered = FALSE
  /\ done = << >>
  /\ result = "none"

Call(c) ==
  /\ request = NoCommand
  /\ request' = c
  /\ UNCHANGED << answered, done, result >>

Execute(a) ==
  /\ request # NoCommand
  /\ ~answered
  /\ answered' = TRUE
  /\ done' = Append(done, [cmd |-> request, answer |-> a])
  /\ UNCHANGED << request, result >>

Return ==
  /\ answered
  /\ request' = NoCommand
  /\ answered' = FALSE
  /\ result' = done[Len(done)].answer
  /\ UNCHANGED done

Next ==
  \/ \E c \in Commands : Call(c)
  \/ \E a \in {"ok", "error"} : Execute(a)
  \/ Return

Spec == Init /\ [][Next]_vars
=============================================================================
