---------------------------- MODULE LampStream ----------------------------
(***************************************************************************)
(* What the daemon promises about the bytes it hands to the mood lamp:     *)
(* they form one stream, and the lamp's file descriptor takes that stream  *)
(* from the front, without a gap, a repetition or a swap, until the daemon *)
(* stops.  A byte is known by its place in the stream (1, 2, ...): the     *)
(* code between write() and the descriptor never looks at its value.       *)
(***************************************************************************)
EXTENDS Naturals, Sequences

CONSTANT MaxAccepted      \* bound, a natural number: how many bytes are ever accepted

VARIABLES
    accepted,             \* how many bytes have been accepted
    device,               \* the places of the bytes the descriptor has taken
    stopped               \* the process has ended

vars == <<accepted, device, stopped>>

Init ==
    /\ accepted = 0
    /\ device = <<>>
    /\ stopped = FALSE

Accept(n) ==
    /\ ~stopped
    /\ accepted + n <= MaxAccepted
    /\ accepted' = accepted + n
    /\ UNCHANGED <<device, stopped>>

\* The descriptor takes the next k bytes of the stream.
Transfer(k) ==
    /\ ~stopped
    /\ Len(device) + k <= accepted
    /\ device' = device \o [i \in 1..k |-> Len(device) + i]
    /\ UNCHANGED <<accepted, stopped>>

Stop ==
    /\ ~stopped
    /\ stopped' = TRUE
    /\ UNCHANGED <<accepted, device>>

TransferSome == \E k \in 1..(accepted - Len(device)) : Transfer(k)

Next ==
    \/ \E n \in 1..MaxAccepted : Accept(n)
    \/ TransferSome
    \/ Stop

Spec == Init /\ [][Next]_vars

\* Unless the daemon stops, what it accepted keeps moving to the lamp.
FairSpec == Spec /\ WF_vars(TransferSome)
=============================================================================
