---------------------------- MODULE FileService ----------------------------
(***************************************************************************)
(* What the user of the shell of hw3 may expect: each command is answered  *)
(* before the next one is read, and the answer is a function of the image, *)
(* whatever commands came before.                                          *)
(***************************************************************************)
CONSTANTS
    Command, NoCommand, NoAnswer,
    Answer(_),     \* the answer that the image determines
    Sure(_),       \* the commands for which it is promised
    MayStop(_)     \* those that may end the program

VARIABLES asked, answer, running

serviceVars == <<asked, answer, running>>

Ask ==
    /\ running /\ asked = NoCommand
    /\ asked' \in Command
    /\ answer' = NoAnswer
    /\ UNCHANGED running

Reply ==
    /\ running /\ asked # NoCommand
    /\ asked' = NoCommand
    /\ Sure(asked) => answer' = Answer(asked)
    /\ UNCHANGED running

Stop ==
    /\ running /\ asked # NoCommand
    /\ running' = FALSE
    /\ MayStop(asked)
    /\ UNCHANGED <<asked, answer>>

ServiceInit == asked = NoCommand /\ answer = NoAnswer /\ running = TRUE

ServiceSpec == ServiceInit /\ [][Ask \/ Reply \/ Stop]_serviceVars
=============================================================================
