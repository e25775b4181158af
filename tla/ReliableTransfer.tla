--------------------------- MODULE ReliableTransfer ---------------------------
(***************************************************************************)
(* What a reliability layer promises its two applications for one          *)
(* transfer, with no chunks, acknowledgements or timeouts: the receiver    *)
(* decides once, COMPLETE exactly when the transfer is complete then;      *)
(* the sender's poll ends once, with success only when the transfer is     *)
(* complete or when the receiver parted without the sender following, and  *)
(* with failure only after the receiver decided INCOMPLETE.                *)
(* SelectiveRepeat and ErasureCoding are both shown to implement this      *)
(* specification.                                                          *)
(***************************************************************************)
VARIABLES complete,  \* the receiver has what the layer calls a complete transfer
          verdict,   \* what the receiver decided: "none" before
          parted,    \* the receiver hung up and the sender may have missed why
          result     \* what the sender's poll returned: "none" before

vars == <<complete, verdict, parted, result>>

Init == ~complete /\ verdict = "none" /\ ~parted /\ result = "none"

\* The last of the data comes in, or is recovered.
Finish ==
    /\ verdict = "none"
    /\ complete' = TRUE
    /\ UNCHANGED <<verdict, parted, result>>

Decide ==
    /\ verdict = "none"
    /\ verdict' = IF complete THEN "COMPLETE" ELSE "INCOMPLETE"
    /\ UNCHANGED <<complete, parted, result>>

Part ==
    /\ verdict # "none"
    /\ parted' = TRUE
    /\ UNCHANGED <<complete, verdict, result>>

Succeed ==
    /\ result = "none"
    /\ complete \/ parted
    /\ result' = "0"
    /\ UNCHANGED <<complete, verdict, parted>>

Fail ==
    /\ result = "none"
    /\ verdict = "INCOMPLETE"
    /\ result' = "-1"
    /\ UNCHANGED <<complete, verdict, parted>>

Next == Finish \/ Decide \/ Part \/ Succeed \/ Fail

Spec == Init /\ [][Next]_vars
===============================================================================
