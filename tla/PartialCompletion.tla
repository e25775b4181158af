-------------------------- MODULE PartialCompletion --------------------------
(***************************************************************************)
(* What the receive side of SDR promises for one posted receive, with no   *)
(* threads, bitmaps or sockets: packets land in the user buffer in any     *)
(* order, a chunk is shown as complete only when every packet of it has    *)
(* landed, and the receive ends once, telling the sender COMPLETE_ACK      *)
(* exactly when all chunks were shown complete, INCOMPLETE_NACK otherwise, *)
(* or nothing when the connection is gone.  The buffer is not spoilt while *)
(* the receive is open; afterwards packets may still land, and a late one  *)
(* may spoil it.  ReceivePath is shown to implement this specification.    *)
(***************************************************************************)
CONSTANTS Packets,      \* the packet offsets of the message
          Chunks,       \* the chunk identifiers of the message
          PacketsOf(_)  \* the packet offsets of a chunk

VARIABLES landed,       \* packets whose own payload is in the user buffer
          shown,        \* chunks the chunk bitmap shows as complete
          over,         \* the application has taken its buffer back
          spoilt,       \* a late packet was written where it should not be
          outcome       \* what the sender was told: "none" until the receive ends

vars == <<landed, shown, over, spoilt, outcome>>

Init == landed = {} /\ shown = {} /\ over = FALSE /\ spoilt = FALSE /\ outcome = "none"

Land(p) ==
    /\ landed' = landed \cup {p}
    /\ UNCHANGED <<shown, over, spoilt, outcome>>

Show(c) ==
    /\ ~over
    /\ PacketsOf(c) \subseteq landed
    /\ shown' = shown \cup {c}
    /\ UNCHANGED <<landed, over, spoilt, outcome>>

TakeBack ==
    /\ over' = TRUE
    /\ UNCHANGED <<landed, shown, spoilt, outcome>>

Spoil ==
    /\ over
    /\ spoilt' = TRUE
    /\ landed' \in SUBSET Packets
    /\ UNCHANGED <<shown, over, outcome>>

End ==
    /\ over
    /\ outcome = "none"
    /\ outcome' \in {IF shown = Chunks THEN "COMPLETE_ACK" ELSE "INCOMPLETE_NACK", "unsent"}
    /\ UNCHANGED <<landed, shown, over, spoilt>>

Next ==
    \/ \E p \in Packets : Land(p)
    \/ \E c \in Chunks : Show(c)
    \/ TakeBack
    \/ Spoil
    \/ End

Spec == Init /\ [][Next]_vars
==============================================================================
