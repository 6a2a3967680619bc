------------------------------ MODULE Session ------------------------------
(***************************************************************************)
(* A sender and a receiver on one connection: a Writer driven by the loop  *)
(* of src/examples/sender.c (for any number of messages) and a Reader      *)
(* driven by that of src/examples/receiver.c.  What the one has written is *)
(* what the other can read; the connection may be lost at any time, with   *)
(* what was written before still to be read.                               *)
(*                                                                         *)
(* A variable of Writer has w before its name here, one of Reader an r.    *)
(***************************************************************************)
EXTENDS Encoder

CONSTANTS
    InitSize, InitInc, InitMax,        \* the buffers of both
    AnswerSize, AnswerInc, AnswerMax,  \* the reader's write_buf, the writer's read_buf
    Bidirectional,  \* what both may choose for the handshake
    MaxFrames,      \* bound on the messages that are written
    MayLose         \* may the connection be lost?

ASSUME SizeAssumption ==
    /\ InitSize \in Nat \ {0} /\ InitInc \in Nat \ {0} /\ InitMax \in Nat
    /\ InitSize <= InitMax
    /\ AnswerSize \in Nat \ {0} /\ AnswerInc \in Nat \ {0} /\ AnswerMax \in Nat
    /\ AnswerSize <= AnswerMax
    /\ AnswerSize > HeaderLen + FieldLen  \* dnswire.h:25

ASSUME CallAssumption ==
    Bidirectional \subseteq BOOLEAN /\ MaxFrames \in Nat /\ MayLose \in BOOLEAN

VARIABLES
    down, up,  \* all cells written to the receiver, and to the sender
    lost,      \* the connection is lost: no more cells are written
    wstate, wencoder, wdnstap, wbuf, wsize, winc, wmax, wat, wleft, wpopped,
    wdecoder, wread_buf, wread_size, wread_at, wread_left, wbidirectional,
    wres, wtaken, wencoded, wacked, wtunes,
    rstate, rdecoder, rbuf, rsize, rinc, rmax, rat, rleft, rpushed,
    rencoder, rwrite_buf, rwrite_size, rwrite_at, rwrite_left,
    rallow_bidirectional, ris_bidirectional, rres, rtaken, rdecoded, rdelivered, rtunes

senderVars ==
    <<wstate, wencoder, wdnstap, wbuf, wsize, winc, wmax, wat, wleft, wpopped,
      wdecoder, wread_buf, wread_size, wread_at, wread_left, wbidirectional,
      wres, wtaken, wencoded, wacked, wtunes>>
receiverVars ==
    <<rstate, rdecoder, rbuf, rsize, rinc, rmax, rat, rleft, rpushed,
      rencoder, rwrite_buf, rwrite_size, rwrite_at, rwrite_left,
      rallow_bidirectional, ris_bidirectional, rres, rtaken, rdecoded, rdelivered, rtunes>>
vars == <<down, up, lost, senderVars, receiverVars>>

(* The two, each with what is proved about it.                              *)
W == INSTANCE WriterProofs WITH
        ReadSize <- AnswerSize, ReadInc <- AnswerInc, ReadMax <- AnswerMax,
        Accepts <- {}, Api <- {"write"}, PopLens <- {}, Tunings <- {}, MaxTunes <- 0,
        MoveWithData <- FALSE, PopStops <- FALSE, PopAnswers <- FALSE,
        ReadyInPieces <- FALSE, ShortWrites <- TRUE, FinishInPieces <- FALSE,
        IOErrors <- FALSE, AllocMayFail <- FALSE,
        state <- wstate, encoder <- wencoder, dnstap <- wdnstap, buf <- wbuf, size <- wsize,
        inc <- winc, max <- wmax, at <- wat, left <- wleft, popped <- wpopped,
        decoder <- wdecoder, read_buf <- wread_buf, read_size <- wread_size,
        read_at <- wread_at, read_left <- wread_left, bidirectional <- wbidirectional,
        res <- wres, out <- down, input <- up, taken <- wtaken,
        encoded <- wencoded, acked <- wacked, tunes <- wtunes

(* A read(2) that finds nothing waits, unless the connection is lost.       *)
R == INSTANCE ReaderProofs WITH
        Streams <- {[hello |-> <<>>, body |-> <<Junk>>]},
        WriteSize <- AnswerSize, WriteInc <- AnswerInc, WriteMax <- AnswerMax,
        Api <- {"read"}, OutLens <- {}, Tunings <- {}, MaxTunes <- 0,
        ShortWrites <- FALSE, IOErrors <- FALSE, AllocMayFail <- FALSE,
        state <- rstate, decoder <- rdecoder, buf <- rbuf, size <- rsize, inc <- rinc,
        max <- rmax, at <- rat, left <- rleft, pushed <- rpushed, encoder <- rencoder,
        write_buf <- rwrite_buf, write_size <- rwrite_size, write_at <- rwrite_at,
        write_left <- rwrite_left, allow_bidirectional <- rallow_bidirectional,
        is_bidirectional <- ris_bidirectional, res <- rres,
        input <- down, rest <- IF lost THEN <<>> ELSE <<Junk>>, out <- up,
        taken <- rtaken, decoded <- rdecoded, delivered <- rdelivered, tunes <- rtunes

Ended == {"error", "abort", "endofdata"}  \* the results that end both loops

-----------------------------------------------------------------------------
Init ==
    /\ lost = FALSE
    /\ W!Init
    /\ R!Init

(***************************************************************************)
(* sender.c: a message is set before the first write and after each that   *)
(* returned ok, until the stream is stopped.  Its loop ends, and the       *)
(* connection with it, when a piece of ACCEPT makes a write return         *)
(* need_more (sender.c:153): that is Lose.  A sender that goes on then is  *)
(* a behaviour of the module as well.                                      *)
(***************************************************************************)
Sends(A) ==
    /\ ~lost
    /\ wres \notin Ended
    /\ UNCHANGED <<lost, receiverVars>>
    /\ A

SenderChooses(b) == Sends(W!SetBidirectional(b))

HandOver(m) ==
    /\ wres \in {"init", "ok"}
    /\ wencoder # "control_stop"
    /\ Sends(W!SetDnstap(m))

SenderStops ==
    /\ wres = "ok"
    /\ Sends(W!StopCall)

SenderWrites ==
    /\ wdnstap # NoDnstap
    /\ Sends(W!Write)

(***************************************************************************)
(* receiver.c, which goes on reading until an error or the end.            *)
(***************************************************************************)
Receives(A) ==
    /\ rres \notin Ended
    /\ UNCHANGED <<lost, senderVars>>
    /\ A

ReceiverChooses(b) == Receives(R!AllowBidirectional(b))

ReceiverCalls == Receives(R!Read)

(* The connection breaks, or one of the two closes it.                      *)
Lose ==
    /\ MayLose /\ ~lost
    /\ lost' = TRUE
    /\ UNCHANGED <<down, up, senderVars, receiverVars>>

Next ==
    \/ \E b \in Bidirectional : SenderChooses(b) \/ ReceiverChooses(b)
    \/ \E m \in Message : HandOver(m)
    \/ SenderStops
    \/ SenderWrites
    \/ ReceiverCalls
    \/ Lose

Spec == Init /\ [][Next]_vars

(* Both loops go on; when a sender stops, or loses the connection, is its   *)
(* own affair.                                                              *)
FairSpec == Spec /\ WF_vars(SenderWrites) /\ WF_vars(ReceiverCalls)

-----------------------------------------------------------------------------
(***************************************************************************)
(* Properties.                                                             *)
(***************************************************************************)
Broken == lost \/ rres = "error"

FS == INSTANCE FrameStream WITH
        handshake <- wbidirectional, handed <- wacked, got <- rdelivered,
        stopped <- wencoder \in {"control_stop", "done"},
        receiverEnded <- rstate = "done", senderEnded <- wstate = "done",
        broken <- Broken

(* The writer and the reader together are a stream of frames: what the       *)
(* sender was told is written the receiver gets, once and in order; the end *)
(* is reported to the receiver after all messages, and to the sender of a   *)
(* handshake after the receiver (writer.c:320-382, reader.c:289-342).       *)
ImplementsFrameStream == FS!Spec

(* As long as both go on and the connection holds, all of it comes about:   *)
(* every message that was reported written is delivered, a stream that is   *)
(* stopped ends for both.                                                   *)
KeepsPromise == FS!Promise

(* The two ends agree on the handshake before a frame is on the wire, and a *)
(* sender that asked for none is not answered (reader.c:235-254,            *)
(* writer.c:272-276).                                                       *)
HandshakeAgreed ==
    /\ Payloads(down) # <<>> => (wbidirectional => ris_bidirectional)
    /\ ~wbidirectional => up = <<>> /\ ~ris_bidirectional

(* From end to end no cell is lost, repeated or out of place: what the       *)
(* writer encoded is what the reader decoded, what waits in its buffer, what *)
(* is on the way and what waits in the writer's buffer.                     *)
EndToEnd ==
    wencoded = SubSeq(down, 1, rdecoded)
                 \o Slice(rbuf, rat, rleft)
                 \o SubSeq(down, rtaken + 1, Len(down))
                 \o Slice(wbuf, wat - wleft, wleft)

(* The receiver of this writer's stream does not fail unless the connection *)
(* is lost or it was not to answer READY: no stream that was put together   *)
(* here, however it is cut, is one the reader cannot take (reader.c:249,    *)
(* 314-317, 398, 462-470).                                                  *)
FailsForAReason == rres = "error" => lost \/ (wbidirectional /\ ~ris_bidirectional)

(* Nor is the sender told of an error as long as its connection holds: its   *)
(* own stream is one the encoder has room for, in whatever pieces it goes    *)
(* out, and what it reads of the answer is what its decoder waits for, ACCEPT *)
(* before START and FINISH not before STOP is out (writer.c:184-194,         *)
(* 500-551, 655-693).  A receiver that does not answer makes it wait.       *)
SenderTakesIt == wres # "error"

(* A sender with a message to write, that goes on writing, is told that it  *)
(* is written, through a handshake if it asked for one: neither end waits   *)
(* for the other for ever.                                                  *)
FirstIsWritten == wdnstap # NoDnstap ~> wacked # <<>> \/ Broken

=============================================================================
