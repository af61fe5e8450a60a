----------------------------- MODULE FifoLink -----------------------------
(***************************************************************************)
(* What a router's output promises the hosts: a packet is either refused   *)
(* on arrival or leaves at the other end of the link, in the order of      *)
(* arrival, and it does leave.                                             *)
(***************************************************************************)
EXTENDS Naturals, Sequences

CONSTANT Packet

VARIABLES
    line,   \* packets taken and not yet handed up at the other end
    up      \* how many have been handed up

lvars == <<line, up>>

Init == line = <<>> /\ up = 0

Accept(p) == line' = Append(line, p) /\ UNCHANGED up

HandUp ==
    /\ line # <<>>
    /\ line' = Tail(line)
    /\ up' = up + 1

Next == HandUp \/ \E p \in Packet : Accept(p)

Spec == Init /\ [][Next]_lvars /\ WF_lvars(HandUp)
=============================================================================
