------------------------------ MODULE UvSession ------------------------------
(***************************************************************************)
(* src/examples/client_receiver_uv.c on one of the connections of the      *)
(* daemon: a Reader that is pushed what the socket gives to the callback   *)
(* client_read().  A variable of Reader has an r before its name here.     *)
(***************************************************************************)
EXTENDS UvDaemon

CONSTANTS
    Receiver,                    \* the connection of the receiver
    InitSize, InitInc, InitMax   \* the reader's buffer

ASSUME ReceiverAssumption == Receiver \in Clients

ASSUME SizeAssumption ==
    InitSize \in Nat \ {0} /\ InitInc \in Nat \ {0} /\ InitMax \in Nat /\ InitSize <= InitMax

VARIABLES
    chunk,   \* how many of the cells of this callback are still to be pushed
    came,    \* how many cells had come by the last callback
    before,  \* and by the one before it
    pushes,  \* calls of push() in this callback
    rstate, rdecoder, rbuf, rsize, rinc, rmax, rat, rleft, rpushed,
    rencoder, rwrite_buf, rwrite_size, rwrite_at, rwrite_left,
    rallow_bidirectional, ris_bidirectional, rres, rtaken, rout, rdecoded, rdelivered, rtunes

receiverVars ==
    <<chunk, came, before, pushes, rstate, rdecoder, rbuf, rsize, rinc, rmax, rat, rleft, rpushed,
      rencoder, rwrite_buf, rwrite_size, rwrite_at, rwrite_left,
      rallow_bidirectional, ris_bidirectional, rres, rtaken, rout, rdecoded, rdelivered, rtunes>>
vars == <<daemonVars, receiverVars>>

R == INSTANCE ReaderProofs WITH
        Streams <- {[hello |-> <<>>, body |-> <<>>]},
        WriteSize <- HeaderLen + FieldLen + 1, WriteInc <- 1, WriteMax <- HeaderLen + FieldLen + 1,
        Bidirectional <- {FALSE}, Api <- {"push"}, OutLens <- {0}, Tunings <- {}, MaxTunes <- 0,
        ShortWrites <- FALSE, IOErrors <- FALSE, AllocMayFail <- FALSE,
        state <- rstate, decoder <- rdecoder, buf <- rbuf, size <- rsize, inc <- rinc,
        max <- rmax, at <- rat, left <- rleft, pushed <- rpushed, encoder <- rencoder,
        write_buf <- rwrite_buf, write_size <- rwrite_size, write_at <- rwrite_at,
        write_left <- rwrite_left, allow_bidirectional <- rallow_bidirectional,
        is_bidirectional <- ris_bidirectional, res <- rres,
        input <- down[Receiver], rest <- <<>>, out <- rout,
        taken <- rtaken, decoded <- rdecoded, delivered <- rdelivered, tunes <- rtunes

Init ==
    /\ DaemonInit
    /\ chunk = 0 /\ came = 0 /\ before = 0 /\ pushes = 0
    /\ R!Init

-----------------------------------------------------------------------------
(* client_read() is called with all that has come.                          *)
Receive ==
    /\ chunk = 0 /\ ~gone[Receiver]
    /\ R!Available > 0
    /\ chunk' = R!Available
    /\ came' = Len(down[Receiver])
    /\ before' = came
    /\ pushes' = 0
    /\ UNCHANGED <<daemonVars, rstate, rdecoder, rbuf, rsize, rinc, rmax, rat, rleft, rpushed,
                   rencoder, rwrite_buf, rwrite_size, rwrite_at, rwrite_left,
                   rallow_bidirectional, ris_bidirectional, rres, rtaken, rout, rdecoded,
                   rdelivered, rtunes>>

(* Mutant: every push is taken to have moved all of it.                     *)
PushChunkOnce ==
    /\ chunk > 0
    /\ UNCHANGED <<daemonVars, came, before>>
    /\ R!Push(chunk, 0)
    /\ chunk' = 0 /\ pushes' = 0

(* The loop in it: what was not moved into the reader is pushed again.  At  *)
(* the end of the stream, or after an error, the socket is closed.          *)
PushChunk ==
    /\ chunk > 0
    /\ UNCHANGED <<phase, ticks, clients, state, conn, buf, left, result, down, came, before>>
    /\ R!Push(chunk, 0)
    /\ \/ /\ rres' \in {"have_dnstap", "again", "need_more"}
          /\ chunk' = chunk - rpushed'
          /\ pushes' = IF chunk' = 0 THEN 0 ELSE pushes + 1
          /\ UNCHANGED gone
       \/ /\ rres' \notin {"have_dnstap", "again", "need_more"}
          /\ chunk' = 0 /\ pushes' = 0
          /\ gone' = [gone EXCEPT ![Receiver] = TRUE]

Next ==
    \/ DaemonNext /\ UNCHANGED receiverVars
    \/ \E c \in Clients : Leave(c) /\ UNCHANGED receiverVars
    \/ Receive
    \/ PushChunk

Spec == Init /\ [][Next]_vars

FairSpec == Spec /\ DaemonFairness

-----------------------------------------------------------------------------
(***************************************************************************)
(* Properties.                                                             *)
(***************************************************************************)

(* The stream that the daemon puts together itself is one that the reader   *)
(* takes, and the receiver gets messages the daemon made, none of them      *)
(* twice and in their order.                                                *)
ReceivesWhatWasMade ==
    /\ rres \notin {"error", "abort"}
    /\ \A i, j \in DOMAIN rdelivered : i < j =>
          \E a, b \in DOMAIN Made : a < b /\ rdelivered[i] = Made[a] /\ rdelivered[j] = Made[b]

(* Where a frame ends in s.                                                 *)
FrameEnds(s) == {i \in DOMAIN s : s[i][1].kind = "frame" /\ s[i][2] = FrameLen}

(* Though a callback ends with whole messages left in the reader's buffer   *)
(* (client_receiver_uv.c:37), no message waits for longer than until the    *)
(* end of the callback after the one that brought the end of it.            *)
CatchesUp ==
    chunk = 0 =>
        Len(rdelivered) >= Cardinality({i \in FrameEnds(down[Receiver]) : i <= before})

(* The loop in client_read() ends: the pushes that go on to be needed are   *)
(* no more than the cells that were moved and those the buffer can hold,    *)
(* each of which is decoded once (client_receiver_uv.c:34-66).              *)
PushLoopEnds == pushes <= rtaken - before + rmax

=============================================================================
