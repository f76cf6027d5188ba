------------------------------ MODULE Delivery ------------------------------
(***************************************************************************)
(* What a protected channel promises: messages are numbered as they are    *)
(* sent, may be lost, delayed and reordered, and are delivered at most     *)
(* once each.  An ordered channel delivers a prefix of what was sent.      *)
(***************************************************************************)
EXTENDS Naturals

CONSTANT Limit       \* messages one key may protect

VARIABLES ordered,   \* the channel is a stream
          sent,      \* messages sent so far
          delivered  \* message -> how often it was delivered

Messages == 0 .. Limit - 1

Init == ordered \in BOOLEAN /\ sent = 0 /\ delivered = [m \in Messages |-> 0]

Send == sent < Limit /\ sent' = sent + 1 /\ UNCHANGED <<ordered, delivered>>

Deliver(m) ==
    /\ m < sent
    /\ delivered[m] = 0
    /\ ordered => \A n \in Messages : n < m => delivered[n] > 0
    /\ delivered' = [delivered EXCEPT ![m] = 1]
    /\ UNCHANGED <<ordered, sent>>

Next == Send \/ \E m \in Messages : Deliver(m)

Spec == Init /\ [][Next]_<<ordered, sent, delivered>>
=============================================================================
