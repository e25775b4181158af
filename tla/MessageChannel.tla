---------------------------- MODULE MessageChannel ----------------------------
(***************************************************************************)
(* What one direction of the control connection promises its users, with   *)
(* no bytes, segments or timeouts: messages are sent one after the other,  *)
(* and receive_message returns them in order, each at most once and        *)
(* without a gap, until the framing breaks; from then on messages may be   *)
(* missing or mangled, but none comes twice, too late or from nowhere.     *)
(* The end of the connection is seen only after all messages, unless the   *)
(* framing broke or the connection failed.  ControlChannel is shown to     *)
(* implement this specification; Rendezvous, SelectiveRepeat and           *)
(* ErasureCoding use an unbroken one as a queue.                           *)
(***************************************************************************)
EXTENDS Integers

CONSTANT Messages     \* names of messages, integers in the order of sending

VARIABLES sent,       \* the messages sent, whole or in part
          delivered,  \* the messages the receiver was given
          closed,     \* the sending end is closed
          ended,      \* the receiving end has given the connection up
          broken,     \* the framing was lost
          failed      \* the connection failed under the receiver

vars == <<sent, delivered, closed, ended, broken, failed>>

Init == sent = {} /\ delivered = {} /\ ~closed /\ ~ended /\ ~broken /\ ~failed

IsNext(m) == \A s \in sent : s < m

Send(m) ==
    /\ ~closed
    /\ IsNext(m)
    /\ sent' = sent \cup {m}
    /\ UNCHANGED <<delivered, closed, ended, broken, failed>>

SendPart(m) ==
    /\ ~closed
    /\ IsNext(m)
    /\ sent' \in {sent, sent \cup {m}}
    /\ broken' = TRUE
    /\ UNCHANGED <<delivered, closed, ended, failed>>

Close ==
    /\ ~closed
    /\ closed' = TRUE
    /\ UNCHANGED <<sent, delivered, ended, broken, failed>>

Deliver(m) ==
    /\ ~ended
    /\ m \in sent
    /\ \A d \in delivered : d < m
    /\ delivered = {s \in sent : s < m} \/ broken
    /\ delivered' = delivered \cup {m}
    /\ UNCHANGED <<sent, closed, ended, broken, failed>>

Break ==
    /\ ~ended
    /\ broken' = TRUE
    /\ UNCHANGED <<sent, delivered, closed, ended, failed>>

End ==
    /\ closed /\ ~ended
    /\ delivered = sent \/ broken
    /\ ended' = TRUE
    /\ UNCHANGED <<sent, delivered, closed, broken, failed>>

Fail ==
    /\ ~ended
    /\ ended' = TRUE
    /\ failed' = TRUE
    /\ UNCHANGED <<sent, delivered, closed, broken>>

Next ==
    \/ \E m \in Messages : Send(m) \/ SendPart(m) \/ Deliver(m)
    \/ Close \/ Break \/ End \/ Fail

Spec == Init /\ [][Next]_vars
===============================================================================
