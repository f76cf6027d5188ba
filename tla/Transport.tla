----------------------------- MODULE Transport -----------------------------
(***************************************************************************)
(* The three things the public service does for a connection before and    *)
(* after it handles a message: Listener admits it and counts it, Records   *)
(* protects what it receives, Outgoing queues, encodes and sends.          *)
(*                                                                         *)
(* They share no state but the end of a connection, which each of them may *)
(* meet in any state; so a behaviour is one of one part.                   *)
(***************************************************************************)
EXTENDS Records, Listener, Outgoing

CONSTANT Parts   \* bound: the parts a behaviour may be of

VARIABLE part

TransportInit ==
    /\ part \in Parts
    /\ Init /\ ListenerInit /\ OutgoingInit
    /\ part # "records" => channel = "UDP"

TransportNext ==
    \/ part = "records" /\ Next /\ UNCHANGED <<part, listenerVars, outgoingVars>>
    \/ part = "listener" /\ ListenerNext /\ UNCHANGED <<part, vars, outgoingVars>>
    \/ part = "outgoing" /\ OutgoingNext /\ UNCHANGED <<part, vars, listenerVars>>

TransportSpec == TransportInit /\ [][TransportNext]_<<part, vars, listenerVars, outgoingVars>>
=============================================================================
