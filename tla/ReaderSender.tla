---------------------------- MODULE ReaderSender ----------------------------
(***************************************************************************)
(* src/examples/reader_sender.c: one program with a reader, which reads a  *)
(* file, and a writer, which sends what was read to a peer.  The writer is *)
(* given a pointer to the reader's message, not the message: what it       *)
(* encodes is what the reader's decoder holds by then.                     *)
(*                                                                         *)
(* A variable of Writer has w before its name here, one of Reader an r.    *)
(***************************************************************************)
EXTENDS Encoder

CONSTANTS
    Files,                             \* what may be in the file
    Accepts,                           \* what the peer may answer READY with
    InitSize, InitInc, InitMax,        \* the buffers of both
    AnswerSize, AnswerInc, AnswerMax,  \* the writer's read_buf
    IOErrors,                          \* may the socket fail?
    MaxFrames                          \* bound on the messages of a file

ASSUME SizeAssumption ==
    /\ InitSize \in Nat \ {0} /\ InitInc \in Nat \ {0} /\ InitMax \in Nat
    /\ InitSize <= InitMax
    /\ AnswerSize \in Nat \ {0} /\ AnswerInc \in Nat \ {0} /\ AnswerMax \in Nat
    /\ AnswerSize <= AnswerMax

ASSUME CallAssumption ==
    /\ Files \subseteq Seq(Cell) /\ Accepts \subseteq Seq(Cell)
    /\ IOErrors \in BOOLEAN /\ MaxFrames \in Nat

VARIABLES
    pc,        \* where the program is
    message,   \* the message the reader's decoder holds
    shared,    \* was the writer given the pointer to it?
    file, down, up,  \* the cells of the file, to the peer and from it
    wstate, wencoder, wbuf, wsize, winc, wmax, wat, wleft, wpopped,
    wdecoder, wread_buf, wread_size, wread_at, wread_left, wbidirectional,
    wres, wtaken, wencoded, wacked, wtunes,
    rstate, rdecoder, rbuf, rsize, rinc, rmax, rat, rleft, rpushed,
    rencoder, rwrite_buf, rwrite_size, rwrite_at, rwrite_left,
    rallow_bidirectional, ris_bidirectional, rres, rtaken, rout, rdecoded, rdelivered, rtunes

writerVars ==
    <<down, wstate, wencoder, wbuf, wsize, winc, wmax, wat, wleft, wpopped,
      wdecoder, wread_buf, wread_size, wread_at, wread_left, wbidirectional,
      wres, wtaken, wencoded, wacked, wtunes>>
readerVars ==
    <<file, rstate, rdecoder, rbuf, rsize, rinc, rmax, rat, rleft, rpushed,
      rencoder, rwrite_buf, rwrite_size, rwrite_at, rwrite_left,
      rallow_bidirectional, ris_bidirectional, rres, rtaken, rout, rdecoded, rdelivered, rtunes>>
vars == <<pc, message, shared, up, writerVars, readerVars>>

Freed == "freed"  \* dnstap_cleanup() was called and nothing unpacked since

(* The writer may be given a pointer to a message that is gone.             *)
W == INSTANCE WriterProofs WITH
        Message <- Message \cup {Freed},
        ReadSize <- AnswerSize, ReadInc <- AnswerInc, ReadMax <- AnswerMax,
        Bidirectional <- {TRUE}, Api <- {"write"}, PopLens <- {}, Tunings <- {}, MaxTunes <- 0,
        MoveWithData <- FALSE, PopStops <- FALSE, PopAnswers <- FALSE,
        ReadyInPieces <- FALSE, ShortWrites <- TRUE, FinishInPieces <- FALSE,
        AllocMayFail <- FALSE,
        state <- wstate, encoder <- wencoder, dnstap <- IF shared THEN message ELSE NoDnstap,
        buf <- wbuf, size <- wsize,
        inc <- winc, max <- wmax, at <- wat, left <- wleft, popped <- wpopped,
        decoder <- wdecoder, read_buf <- wread_buf, read_size <- wread_size,
        read_at <- wread_at, read_left <- wread_left, bidirectional <- wbidirectional,
        res <- wres, out <- down, input <- up, taken <- wtaken,
        encoded <- wencoded, acked <- wacked, tunes <- wtunes

(* The reader does not answer: its buffer for that is as small as it can be. *)
R == INSTANCE ReaderProofs WITH
        Streams <- {[hello |-> f, body |-> <<>>] : f \in Files},
        WriteSize <- HeaderLen + FieldLen + 1, WriteInc <- 1, WriteMax <- HeaderLen + FieldLen + 1,
        Bidirectional <- {}, Api <- {"read"}, OutLens <- {}, Tunings <- {}, MaxTunes <- 0,
        ShortWrites <- FALSE, IOErrors <- FALSE, AllocMayFail <- FALSE,
        state <- rstate, decoder <- rdecoder, buf <- rbuf, size <- rsize, inc <- rinc,
        max <- rmax, at <- rat, left <- rleft, pushed <- rpushed, encoder <- rencoder,
        write_buf <- rwrite_buf, write_size <- rwrite_size, write_at <- rwrite_at,
        write_left <- rwrite_left, allow_bidirectional <- rallow_bidirectional,
        is_bidirectional <- ris_bidirectional, res <- rres,
        input <- file, rest <- <<>>, out <- rout,
        taken <- rtaken, decoded <- rdecoded, delivered <- rdelivered, tunes <- rtunes

-----------------------------------------------------------------------------
Init ==
    /\ pc = "init"
    /\ message = Freed /\ shared = FALSE
    /\ W!Init
    /\ R!Init

(* dnswire_writer_set_bidirectional(), before the socket is connected.      *)
Begin ==
    /\ pc = "init"
    /\ pc' = "reading"
    /\ UNCHANGED <<message, shared, readerVars>>
    /\ W!SetBidirectional(TRUE)

(* The frame the reader's decoder has just gone through did not unpack: the *)
(* message before it is freed already (decoder.c:168-171).                  *)
UnpackFailed ==
    /\ rres' = "error"
    /\ rdecoder'.state = "reading_frames"
    /\ rleft' >= FrameLen
    /\ rbuf'[rat' + 1][1] = Frame(BadPayload)

(* Mutant: on an error the file is read on.                                 *)
ReadFileGoesOn ==
    /\ pc = "reading"
    /\ R!Read
    /\ message' = IF rres' = "have_dnstap" THEN rdelivered'[Len(rdelivered')] ELSE message
    /\ shared' = (shared \/ rres' = "have_dnstap")
    /\ pc' = CASE rres' = "have_dnstap" -> "sending"
               [] rres' = "endofdata" -> "stop"
               [] OTHER -> "reading"
    /\ UNCHANGED <<up, writerVars>>

ReadFile ==
    /\ pc = "reading"
    /\ R!Read
    /\ message' = CASE rres' = "have_dnstap" -> rdelivered'[Len(rdelivered')]
                    [] UnpackFailed -> Freed
                    [] OTHER -> message
    /\ shared' = (shared \/ rres' = "have_dnstap")
    /\ pc' = CASE rres' = "have_dnstap" -> "sending"
               [] rres' \in {"again", "need_more"} -> "reading"
               [] OTHER -> "stop"
    /\ UNCHANGED <<up, writerVars>>

(* What the loops make of a write: a call that waits goes on, one that      *)
(* failed an assertion was the program's last.                              *)
Unfinished == wres' \in {"again", "blocked", "abort"}

(* Mutant: on an error the next message is read.                            *)
SendMessageGoesOn ==
    /\ pc = "sending"
    /\ UNCHANGED <<message, shared, readerVars>>
    /\ W!Write
    /\ pc' = IF Unfinished THEN "sending" ELSE "reading"

SendMessage ==
    /\ pc = "sending"
    /\ UNCHANGED <<message, shared, readerVars>>
    /\ W!Write
    /\ pc' = CASE Unfinished -> "sending"
               [] wres' = "ok" -> "reading"
               [] OTHER -> "stop"

(* Mutant: dnswire_writer_stop() is not called.                             *)
StopStreamNot ==
    /\ pc = "stop"
    /\ pc' = "stopping"
    /\ UNCHANGED <<message, shared, readerVars, writerVars, up>>

(* dnswire_writer_stop() fails when no message was sent yet; the program    *)
(* does not look.                                                           *)
StopStream ==
    /\ pc = "stop"
    /\ pc' = "stopping"
    /\ UNCHANGED <<message, shared, readerVars>>
    /\ \/ W!StopCall
       \/ ~CanStop(wencoder) /\ UNCHANGED <<writerVars, up>>

SendStop ==
    /\ pc = "stopping"
    /\ UNCHANGED <<message, shared, readerVars>>
    /\ W!Write
    /\ pc' = IF Unfinished THEN "stopping" ELSE "exit"

Program == Begin \/ ReadFile \/ SendMessage \/ StopStream \/ SendStop

Peer == /\ UNCHANGED <<pc, message, shared, readerVars>>
        /\ W!PeerAccept \/ W!PeerFinish

(* The end of the process.                                                  *)
Exited == pc = "exit" /\ UNCHANGED vars

Next == Program \/ Peer \/ Exited

Spec == Init /\ [][Next]_vars

(* The program does not wait except in read(2), for a peer that answers.    *)
FairSpec == Spec /\ WF_vars(Program) /\ WF_vars(Peer)

-----------------------------------------------------------------------------
(***************************************************************************)
(* Properties.                                                             *)
(***************************************************************************)

(* Though the writer follows a pointer into the reader, it encodes the      *)
(* messages of the file, each at most once and in their order, and never    *)
(* one that was freed.                                                      *)
ForwardedInOrder ==
    \E n \in 0..Len(rdelivered) : Payloads(wencoded) = SubSeq(rdelivered, 1, n)

(* When the peer has seen the stream end, also after an error of the socket *)
(* or in the file, it has one whole stream with all that was read from the  *)
(* file; only the message that met the error of the socket may be missing.  *)
WholeWhenStopped ==
    pc = "exit" /\ wres = "endofdata" =>
        \E lost \in (IF rres = "have_dnstap" THEN {0, 1} ELSE {0}) :
           LET n == Len(rdelivered) - lost IN
           /\ Payloads(down) = SubSeq(rdelivered, 1, n)
           /\ Len(down) = Len(W!ReadyCells \o W!StartCells \o W!StopCells) + FrameLen * n
           /\ W!EndsWith(down, W!StopCells)

(* The program ends, for every file and every peer that accepts: "loop      *)
(* again until it's stopped" (reader_sender.c:135-137, 189).                *)
Exits == <>(pc = "exit")

(* Unless a write returns an error or, with a piece of ACCEPT, need_more    *)
(* (both end the loops), a file with a message in it comes to be a stream   *)
(* that the peer has seen the end of.                                       *)
FileArrives ==
    [](wres \notin {"error", "need_more"}) /\ <>(rdelivered # <<>>)
        => <>(pc = "exit" /\ wres = "endofdata")

=============================================================================
