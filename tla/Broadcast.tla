----------------------------- MODULE Broadcast -----------------------------
(***************************************************************************)
(* What the core threads of proc_ui promise to whoever submits a command:  *)
(* every core runs it, once, and the submitter goes on only when all have. *)
(***************************************************************************)
EXTENDS Sequences

CONSTANTS Core, Command

VARIABLES
    command,    \* the command submitted last
    ran,        \* what each core ran since it was submitted
    submitted   \* whether the submitter still waits

Init ==
    /\ command \in Command
    /\ ran = [c \in Core |-> <<>>]
    /\ ~submitted

Submit(cmd) ==
    /\ ~submitted
    /\ submitted' = TRUE
    /\ command' = cmd
    /\ ran' = [c \in Core |-> <<>>]

Run(c) ==
    /\ submitted /\ ran[c] = <<>>
    /\ ran' = [ran EXCEPT ![c] = <<command>>]
    /\ UNCHANGED <<command, submitted>>

Done ==
    /\ submitted /\ \A c \in Core : ran[c] = <<command>>
    /\ submitted' = FALSE
    /\ UNCHANGED <<command, ran>>

Next ==
    \/ \E cmd \in Command : Submit(cmd)
    \/ \E c \in Core : Run(c)
    \/ Done

Spec == Init /\ [][Next]_<<command, ran, submitted>>
=============================================================================
