---------------------------- MODULE FrameStream ----------------------------
(***************************************************************************)
(* What a writer and a reader promise together, whatever happens to the    *)
(* bytes between them: a sender hands over messages, a receiver gets them, *)
(* each once and in order, and each of the two learns that the stream has  *)
(* ended only when that is so.  Session implements it.                     *)
(***************************************************************************)
EXTENDS Naturals, Sequences

CONSTANTS
    Message,
    MaxFrames  \* bound on the messages that the promise is stated for

VARIABLES
    handshake,      \* does the stream begin and end with a handshake?
    handed,         \* the messages the sender was told are written
    got,            \* the messages the receiver was given
    stopped,        \* the sender has stopped the stream
    receiverEnded,  \* the receiver was told that the stream has ended
    senderEnded,    \* so was the sender
    broken          \* the connection is lost, or the handshake was refused

vars == <<handshake, handed, got, stopped, receiverEnded, senderEnded, broken>>

TypeOK ==
    /\ handshake \in BOOLEAN
    /\ handed \in Seq(Message) /\ got \in Seq(Message)
    /\ stopped \in BOOLEAN /\ broken \in BOOLEAN
    /\ receiverEnded \in BOOLEAN /\ senderEnded \in BOOLEAN

Init ==
    /\ handshake = FALSE
    /\ handed = <<>> /\ got = <<>>
    /\ stopped = FALSE /\ broken = FALSE
    /\ receiverEnded = FALSE /\ senderEnded = FALSE

(* The sender chooses a handshake before anything else.                     *)
Choose ==
    /\ handed = <<>> /\ ~stopped
    /\ handshake' \in BOOLEAN
    /\ UNCHANGED <<handed, got, stopped, receiverEnded, senderEnded, broken>>

Hand(m) ==
    /\ ~stopped /\ ~broken
    /\ handed' = Append(handed, m)
    /\ UNCHANGED <<handshake, got, stopped, receiverEnded, senderEnded, broken>>

Stop ==
    /\ ~stopped /\ ~broken
    /\ stopped' = TRUE
    /\ UNCHANGED <<handshake, handed, got, receiverEnded, senderEnded, broken>>

Deliver ==
    /\ Len(got) < Len(handed)
    /\ got' = Append(got, handed[Len(got) + 1])
    /\ UNCHANGED <<handshake, handed, stopped, receiverEnded, senderEnded, broken>>

(* Even on a connection that broke: all of the stream may have come through. *)
ReceiverEnds ==
    /\ stopped /\ got = handed
    /\ receiverEnded' = TRUE
    /\ UNCHANGED <<handshake, handed, got, stopped, senderEnded, broken>>

(* With a handshake the sender ends after the receiver.                     *)
SenderEnds ==
    /\ stopped /\ ~broken
    /\ handshake => receiverEnded
    /\ senderEnded' = TRUE
    /\ UNCHANGED <<handshake, handed, got, stopped, receiverEnded, broken>>

Break ==
    /\ broken' = TRUE
    /\ UNCHANGED <<handshake, handed, got, stopped, receiverEnded, senderEnded>>

Next ==
    \/ Choose
    \/ \E m \in Message : Hand(m)
    \/ Stop
    \/ Deliver
    \/ ReceiverEnds
    \/ SenderEnds
    \/ Break

Spec == Init /\ [][Next]_vars

(* Every message handed over comes through, and a stream that is stopped    *)
(* ends for both, unless the connection breaks.                             *)
Promise ==
    /\ \A n \in 1..MaxFrames : Len(handed) >= n ~> Len(got) >= n \/ broken
    /\ stopped ~> receiverEnded \/ broken
    /\ stopped ~> senderEnded \/ broken

=============================================================================
