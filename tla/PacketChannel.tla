--------------------------- MODULE PacketChannel ---------------------------
(***************************************************************************)
(* What one direction of a GG-IPC connection promises to the code above    *)
(* it: packets arrive whole, in the order in which their sends succeeded,   *)
(* and at most once.  The channel may be cut.  Senders are not told: their  *)
(* sends may go on to succeed, but nothing sent after the cut arrives.      *)
(***************************************************************************)
EXTENDS Naturals, Sequences

CONSTANT Packet

VARIABLES
    sent,       \* packets whose send has succeeded
    received,   \* packets handed to the receiver
    cut         \* the packets sent before the cut; a singleton, or {}

vars == <<sent, received, cut>>

Init ==
    /\ sent = <<>>
    /\ received = <<>>
    /\ cut = {}

Send(p) ==
    /\ sent' = Append(sent, p)
    /\ UNCHANGED <<received, cut>>

Receive ==
    /\ Len(received) < Len(sent)
    /\ \A n \in cut : Len(received) < n
    /\ received' = Append(received, sent[Len(received) + 1])
    /\ UNCHANGED <<sent, cut>>

Cut ==
    /\ cut = {}
    /\ cut' = {Len(sent)}
    /\ UNCHANGED <<sent, received>>

Next == (\E p \in Packet : Send(p)) \/ Receive \/ Cut

Spec == Init /\ [][Next]_vars
=============================================================================
