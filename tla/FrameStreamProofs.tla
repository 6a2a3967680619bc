------------------------ MODULE FrameStreamProofs ------------------------
(***************************************************************************)
(* What the abstract stream of frames promises in every state, for any     *)
(* messages and any number of them: with FrameStreamImplemented of         *)
(* SessionProofs, it is what a sender and a receiver can rely on.          *)
(***************************************************************************)
EXTENDS FrameStream, TLAPS

(* The receiver has been given the first of the messages handed over.       *)
GotFirst ==
    /\ Len(got) <= Len(handed)
    /\ \A i \in 1..Len(got) : got[i] = handed[i]

(* The end is reported to a receiver that has all, and to the sender of a   *)
(* handshake after that.                                                    *)
EndMeansAll ==
    /\ receiverEnded => stopped /\ got = handed
    /\ senderEnded => stopped /\ (handshake => receiverEnded)

Inv == TypeOK /\ GotFirst /\ EndMeansAll

LEMMA InitInv == Init => Inv
<1>1. Init => TypeOK
  <2>1. <<>> \in Seq(Message)
    OBVIOUS
  <2> QED
    BY <2>1, Zenon DEF Init, TypeOK
<1>2. Init => GotFirst
  BY DEF Init, GotFirst
<1>3. Init => EndMeansAll
  BY DEF Init, EndMeansAll
<1> QED
  BY <1>1, <1>2, <1>3 DEF Inv

LEMMA NextInv == Inv /\ [Next]_vars => Inv'
<1> SUFFICES ASSUME Inv, [Next]_vars
             PROVE  Inv'
  OBVIOUS
<1> USE DEF Inv, TypeOK, GotFirst, EndMeansAll
<1>1. CASE Choose
  BY <1>1 DEF Choose
<1>2. ASSUME NEW m \in Message, Hand(m)
      PROVE  Inv'
  <2>1. /\ handed' = Append(handed, m) /\ Len(handed') = Len(handed) + 1
        /\ handed' \in Seq(Message)
        /\ \A i \in 1..Len(handed) : handed'[i] = handed[i]
    BY <1>2 DEF Hand
  <2> QED
    BY <1>2, <2>1 DEF Hand
<1>3. CASE Stop
  BY <1>3 DEF Stop
<1>4. CASE Deliver
  <2>1. Len(got) + 1 \in 1..Len(handed)
    BY <1>4 DEF Deliver
  <2>2. handed[Len(got) + 1] \in Message
    BY <2>1
  <2>3. /\ got' \in Seq(Message) /\ Len(got') = Len(got) + 1
        /\ \A i \in 1..Len(got) : got'[i] = got[i]
        /\ got'[Len(got) + 1] = handed[Len(got) + 1]
    BY <1>4, <2>2 DEF Deliver
  <2>4. got # handed
    BY <1>4 DEF Deliver
  <2> QED
    BY <1>4, <2>1, <2>3, <2>4 DEF Deliver
<1>5. CASE ReceiverEnds
  BY <1>5 DEF ReceiverEnds
<1>6. CASE SenderEnds
  BY <1>6 DEF SenderEnds
<1>7. CASE Break
  BY <1>7 DEF Break
<1>8. CASE UNCHANGED vars
  BY <1>8 DEF vars
<1> QED
  BY <1>1, <1>2, <1>3, <1>4, <1>5, <1>6, <1>7, <1>8 DEF Next

(* No message reaches the receiver twice, out of order or unasked for, and  *)
(* who is told that the stream has ended can rely on all of it: the         *)
(* receiver has every message that was handed over, and the sender of a     *)
(* handshake knows that (writer.c:320-382, reader.c:289-342).               *)
THEOREM EndIsTheWhole ==
    Spec => [](/\ GotFirst
               /\ receiverEnded => got = handed
               /\ senderEnded /\ handshake => got = handed)
<1>1. Inv => /\ GotFirst
             /\ receiverEnded => got = handed
             /\ senderEnded /\ handshake => got = handed
  BY DEF Inv, EndMeansAll
<1> QED
  BY <1>1, InitInv, NextInv, PTL DEF Spec
=============================================================================
