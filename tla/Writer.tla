------------------------------- MODULE Writer -------------------------------
(***************************************************************************)
(* src/src/writer.c: a caller hands a writer DNSTAP messages, one at a     *)
(* time, and has it put them on the wire with dnswire_writer_pop() or      *)
(* dnswire_writer_write().  The peer that answers the handshake is part of *)
(* the module: what it was sent is `out`, what it has sent is `input`.     *)
(*                                                                         *)
(* The struct dnswire_writer is spread over variables of the same names;   *)
(* `dnstap` is encoder.dnstap and `encoder` is encoder.state.              *)
(***************************************************************************)
EXTENDS Decoder, Encoder

CONSTANTS
    InitSize, InitInc, InitMax,   \* size, inc and max after dnswire_writer_init()
    ReadSize, ReadInc, ReadMax,   \* read_size, read_inc and read_max
    Bidirectional, \* the arguments dnswire_writer_set_bidirectional() is called with
    Accepts,       \* what the peer may answer READY with
    Api,           \* which of "pop" and "write" the caller uses
    PopLens,       \* the room the caller gives a pop
    MaxFrames,     \* bound on the messages that are written
    Tunings,       \* the arguments of set_bufsize(), set_bufinc() and set_bufmax()
    MaxTunes,      \* bound on the number of those calls
    MoveWithData,  \* may set_bufsize() have to move data?
    PopStops,      \* may a pop give the end of a frame after the stream was stopped?
    PopAnswers,    \* may a pop be given what the peer sent?
    ReadyInPieces, \* may a call leave some of READY to be sent?
    ShortWrites,   \* may write(2) write less than it was given?
    FinishInPieces, \* may read(2) return less of FINISH than is there?
    IOErrors,      \* may read(2) and write(2) fail?
    AllocMayFail   \* may realloc() fail?

ASSUME SizeAssumption ==
    /\ InitSize \in Nat \ {0} /\ InitInc \in Nat \ {0} /\ InitMax \in Nat
    /\ InitSize <= InitMax
    /\ ReadSize \in Nat \ {0} /\ ReadInc \in Nat \ {0} /\ ReadMax \in Nat
    /\ ReadSize <= ReadMax

ASSUME CallAssumption ==
    /\ Bidirectional \subseteq BOOLEAN
    /\ Accepts \subseteq Seq(Cell)
    /\ PopLens \subseteq Nat \ {0}
    /\ Tunings \subseteq Nat \ {0}
    /\ MaxTunes \in Nat /\ MaxFrames \in Nat
    /\ MoveWithData \in BOOLEAN
    /\ PopStops \in BOOLEAN /\ PopAnswers \in BOOLEAN
    /\ ReadyInPieces \in BOOLEAN
    /\ ShortWrites \in BOOLEAN /\ FinishInPieces \in BOOLEAN
    /\ IOErrors \in BOOLEAN /\ AllocMayFail \in BOOLEAN

VARIABLES
    state, encoder, dnstap, buf, size, inc, max, at, left, popped,
    decoder, read_buf, read_size, read_at, read_left, bidirectional,
    res,      \* what the last pop or write returned; "init" before the first,
              \* "abort" after a failed assertion, "blocked" while a write that
              \* has written all it had waits in read(2)
    out,      \* all cells the peer was given
    input,    \* all cells the peer has sent
    taken,    \* how many cells of input the writer was given
    encoded,  \* all cells the encoder has produced
    acked,    \* the messages that were reported written: dnswire_ok
    tunes     \* calls of set_bufsize(), set_bufinc() and set_bufmax() so far

outVars  == <<encoder, buf, size, at, left, popped, out, encoded>>
inVars   == <<decoder, read_buf, read_size, read_at, read_left, taken>>
tuneVars == <<inc, max, tunes>>
callVars == <<dnstap, bidirectional, acked>>
vars == <<state, outVars, inVars, tuneVars, callVars, res, input>>

WriterState == {"encoding_ready", "writing_ready", "reading_accept",
                "decoding_accept", "encoding", "writing", "stopping",
                "encoding_stop", "writing_stop", "reading_finish",
                "decoding_finish", "done"}

Result == {"init", "ok", "error", "again", "need_more", "endofdata", "abort", "blocked"}

ReadyCells  == Encoding("control_ready", NoDnstap).cells
StartCells  == Encoding("control_start", NoDnstap).cells
StopCells   == Encoding("control_stop", NoDnstap).cells
FinishCells == Encoding("control_finish", NoDnstap).cells

-----------------------------------------------------------------------------
Init ==
    /\ state = "encoding" /\ encoder = "control_start" /\ dnstap = NoDnstap
    /\ size = InitSize /\ inc = InitInc /\ max = InitMax
    /\ buf = [i \in 1..InitSize |-> Junk]
    /\ at = 0 /\ left = 0 /\ popped = 0
    /\ decoder = DecoderInit
    /\ read_buf = <<>> /\ read_size = ReadSize /\ read_at = 0 /\ read_left = 0
    /\ bidirectional = FALSE
    /\ res = "init"
    /\ out = <<>> /\ input = <<>> /\ taken = 0
    /\ encoded = <<>> /\ acked = <<>> /\ tunes = 0

-----------------------------------------------------------------------------
(***************************************************************************)
(* The peer answers READY once it has all of it, and STOP with FINISH.     *)
(***************************************************************************)
EndsWith(s, t) == Len(t) <= Len(s) /\ SubSeq(s, Len(s) - Len(t) + 1, Len(s)) = t

PeerAccept ==
    /\ bidirectional
    /\ input = <<>>
    /\ Len(out) >= Len(ReadyCells)
    /\ input' \in Accepts
    /\ UNCHANGED <<state, outVars, inVars, tuneVars, callVars, res>>

PeerFinish ==
    /\ bidirectional
    /\ input \in Accepts
    /\ EndsWith(out, StopCells)
    /\ input' = input \o FinishCells
    /\ UNCHANGED <<state, outVars, inVars, tuneVars, callVars, res>>

-----------------------------------------------------------------------------
(***************************************************************************)
(* What the caller does between the calls that write.                      *)
(* dnswire_writer_set_bidirectional() comes before all of them.            *)
(***************************************************************************)
SetBidirectional(b) ==
    /\ res = "init"
    /\ \/ /\ b
          /\ read_buf' = IF read_buf = <<>> THEN [i \in 1..read_size |-> Junk] ELSE read_buf
          /\ encoder' = "control_ready"
          /\ state' = "encoding_ready"
       \/ /\ ~b
          /\ encoder' = "control_start"
          /\ state' = "encoding"
          /\ UNCHANGED read_buf
    /\ bidirectional' = b
    /\ UNCHANGED <<buf, size, at, left, popped, out, encoded, decoder, read_size, read_at,
                   read_left, taken, tuneVars, dnstap, acked, res, input>>

Between == res \notin {"abort", "blocked"}

SetDnstap(m) ==
    /\ Between
    /\ dnstap' = m
    /\ UNCHANGED <<state, outVars, inVars, tuneVars, bidirectional, acked, res, input>>

(* dnswire_writer_stop(): an error, and no change, unless frames are sent.  *)
StopCall ==
    /\ Between
    /\ CanStop(encoder)
    /\ encoder' = "control_stop"
    /\ state' = "stopping"
    /\ UNCHANGED <<buf, size, at, left, popped, out, encoded, inVars, tuneVars, callVars,
                   res, input>>

Tune ==
    /\ Between
    /\ tunes < MaxTunes
    /\ tunes' = tunes + 1
    /\ UNCHANGED <<state, encoder, left, popped, out, encoded, inVars, callVars, res, input>>

SetBufsize(n) ==
    /\ Tune
    /\ left <= n /\ n <= max
    /\ \/ /\ at + left > n
          /\ MoveWithData
          /\ at' = 0
          /\ LET moved == IF left > 0 THEN MoveToStart(buf, at, left) ELSE buf
             IN  \/ buf' = Realloc(moved, n) /\ size' = n
                 \/ AllocMayFail /\ buf' = moved /\ UNCHANGED size
       \/ /\ at + left <= n
          /\ buf' = Realloc(buf, n)
          /\ size' = n
          /\ UNCHANGED at
    /\ UNCHANGED <<inc, max>>

SetBufinc(n) ==
    /\ Tune
    /\ inc' = n
    /\ UNCHANGED <<buf, size, at, max>>

SetBufmax(n) ==
    /\ Tune
    /\ n >= size
    /\ max' = n
    /\ UNCHANGED <<buf, size, at, inc>>

-----------------------------------------------------------------------------
(***************************************************************************)
(* Giving cells to the peer.  A call c is [api, len, inlen]: the room for  *)
(* the cells a pop gives and the cells it is given.  l cells are left in   *)
(* the block b before offset a.                                            *)
(***************************************************************************)
SendsAll(c, l) == IF c.api = "pop" THEN {c.len} ELSE 1..l  \* mutant: no minimum

Sends(c, l) ==
    CASE c.api = "pop" -> {LeastOf(l, c.len)}
      [] c.api = "write" /\ ShortWrites -> 1..l
      [] OTHER -> IF l = 0 THEN {} ELSE {l}

(* write(2) fails, or was given nothing to write.                           *)
SendFails(c, l) == c.api = "write" /\ (l = 0 \/ IOErrors)

(* Mutants: at is not reset; every piece is taken from the start.           *)
SentKeepsAt(c, b, a, l, n, sent) ==
    /\ buf' = b /\ at' = a /\ left' = l - n
    /\ out' = sent \o Slice(b, a - l, n)
    /\ popped' = IF c.api = "pop" THEN n ELSE popped
SentFromStart(c, b, a, l, n, sent) ==
    /\ buf' = b /\ at' = (IF l = n THEN 0 ELSE a) /\ left' = l - n
    /\ out' = sent \o Slice(b, 0, n)
    /\ popped' = IF c.api = "pop" THEN n ELSE popped

(* n of the l cells are gone; `sent` is what the peer has got by then.      *)
Sent(c, b, a, l, n, sent) ==
    /\ buf' = b
    /\ at' = IF l = n THEN 0 ELSE a
    /\ left' = l - n
    /\ out' = sent \o Slice(b, a - l, n)
    /\ popped' = IF c.api = "pop" THEN n ELSE popped

NotSent(b, a, l, sent) ==
    /\ buf' = b /\ at' = a /\ left' = l
    /\ out' = sent
    /\ UNCHANGED popped

-----------------------------------------------------------------------------
(***************************************************************************)
(* Decoding the peer's answer: rb is the block and l the cells in it.      *)
(***************************************************************************)
(* Mutant: read_at does not move on.                                        *)
ConsumeKeepsReadAt(rb, l, n) ==
    /\ read_buf' = rb /\ read_left' = l - n /\ UNCHANGED <<read_at, read_size>>

Consume(rb, l, n) ==
    /\ read_buf' = rb
    /\ read_left' = l - n
    /\ read_at' = IF l = n THEN 0 ELSE read_at + n
    /\ UNCHANGED read_size

Keep(rb, l) ==
    /\ read_buf' = rb
    /\ read_left' = l
    /\ UNCHANGED <<read_size, read_at>>

(* Room for more of the answer.  After a piece of FINISH, too, the writer   *)
(* goes on as if it waited for ACCEPT (writer.c:426, 684).                  *)
NeedMore(rb, l, decoding) ==
    \/ /\ l < read_size
       /\ read_buf' = IF read_at > 0 THEN MoveToStart(rb, read_at, l) ELSE rb
       /\ read_at' = 0
       /\ read_left' = l
       /\ state' = "reading_accept"
       /\ res' = "need_more"
       /\ UNCHANGED read_size
    \/ /\ l >= read_size
       /\ read_size < ReadMax
       /\ read_size' = Expanded(read_size, ReadInc, ReadMax)
       /\ read_buf' = Realloc(rb, read_size')
       /\ read_left' = l
       /\ state' = "reading_accept"
       /\ res' = "need_more"
       /\ UNCHANGED read_at
    \/ /\ l >= read_size
       /\ read_size >= ReadMax \/ AllocMayFail
       /\ Keep(rb, l)
       /\ state' = decoding
       /\ res' = "error"

Abort(rb, l, decoding) ==
    /\ Keep(rb, l)
    /\ state' = decoding
    /\ res' = "abort"
    /\ UNCHANGED decoder

(* Mutant: any content type will do.                                        *)
AcceptedAny(r) == TRUE

(* Did the peer accept the DNSTAP content type?                             *)
Accepted(r) == r.decoder.accept_support_dnstap_protobuf

DecodingAccept(rb, l) ==
    \/ l = 0 /\ Abort(rb, l, "decoding_accept")
    \/ /\ l > 0
       /\ \E r \in {Decode(decoder, Slice(rb, read_at, l))} :
             /\ decoder' = r.decoder
             /\ \/ /\ r.res = "bidirectional"
                   /\ Consume(rb, l, r.n)
                   /\ IF Accepted(r)
                      THEN state' = "encoding" /\ res' = "again"
                      ELSE state' = "decoding_accept" /\ res' = "error"
                \/ /\ r.res = "again"
                   /\ Consume(rb, l, r.n)
                   /\ state' = IF l = r.n THEN "reading_accept" ELSE "decoding_accept"
                   /\ res' = "again"
                \/ /\ r.res = "need_more"
                   /\ NeedMore(rb, l, "decoding_accept")
                \/ /\ r.res \in {"error", "have_dnstap", "endofdata"}
                   /\ Keep(rb, l)
                   /\ state' = "decoding_accept"
                   /\ res' = "error"

DecodingFinish(rb, l) ==
    \/ l = 0 /\ Abort(rb, l, "decoding_finish")
    \/ /\ l > 0
       /\ \E r \in {Decode(decoder, Slice(rb, read_at, l))} :
             /\ decoder' = r.decoder
             /\ \/ /\ r.res = "endofdata"
                   /\ Keep(rb, l)
                   /\ state' = "done"
                   /\ res' = "endofdata"
                \/ /\ r.res = "need_more"
                   /\ NeedMore(rb, l, "decoding_finish")
                \/ /\ r.res \in {"error", "again", "have_dnstap", "bidirectional"}
                   /\ Keep(rb, l)
                   /\ state' = "decoding_finish"
                   /\ res' = "error"

DecodingAnswer(answer, rb, l) == IF answer = "accept" THEN DecodingAccept(rb, l)
                                                      ELSE DecodingFinish(rb, l)

ReadingAccept(answer) == "reading_accept"  \* mutant: whatever is awaited
Reading(answer) == IF answer = "accept" THEN "reading_accept" ELSE "reading_finish"

-----------------------------------------------------------------------------
(***************************************************************************)
(* Taking in the answer.                                                   *)
(***************************************************************************)
Available == Len(input) - taken
Space == read_size - read_at - read_left

(* The block once the next n cells of the input are behind what is in it.   *)
Filled(n) == Overlay(read_buf, read_at + read_left, Slice(input, taken, n))

(* pop() with l cells left to give counts what it was given in `left`, not  *)
(* in `read_left` (writer.c:258, 392).                                      *)
PopReads(answer, c, l) ==
    \/ /\ c.inlen = 0
       /\ res' = "need_more"
       /\ state' = Reading(answer)
       /\ left' = l
       /\ UNCHANGED inVars
    \/ /\ c.inlen > 0
       /\ LET n == LeastOf(Space, c.inlen) IN
             /\ left' = l + n
             /\ taken' = taken + n
             /\ \E rb \in {Filled(n)} : DecodingAnswer(answer, rb, read_left)

WriteReads(answer) ==
    \/ /\ \E n \in 1..LeastOf(Space, Available) :
             /\ answer = "accept" \/ FinishInPieces \/ n = LeastOf(Space, Available)
             /\ taken' = taken + n
             /\ \E rb \in {Filled(n)} : DecodingAnswer(answer, rb, read_left + n)
    \/ /\ Space = 0 \/ IOErrors
       /\ res' = "error"
       /\ UNCHANGED <<state, inVars>>

ReadAnswer(answer, c) ==
    /\ state = Reading(answer)
    /\ \/ /\ c.api = "pop"
          /\ PopReads(answer, c, left)
          /\ popped' = 0
       \/ /\ c.api = "write"
          /\ WriteReads(answer)
          /\ UNCHANGED <<left, popped>>
    /\ UNCHANGED <<encoder, buf, size, at, out, encoded>>

DecodeAnswer(answer, c) ==
    /\ state = IF answer = "accept" THEN "decoding_accept" ELSE "decoding_finish"
    /\ DecodingAnswer(answer, read_buf, read_left)
    /\ popped' = IF c.api = "pop" THEN 0 ELSE popped
    /\ UNCHANGED <<encoder, buf, size, at, left, out, encoded, taken>>

-----------------------------------------------------------------------------
(***************************************************************************)
(* READY, then START and the frames, then STOP.  Each is encoded, unless   *)
(* it already is, and what can be is sent; `next` is the state in which    *)
(* the rest waits.                                                         *)
(***************************************************************************)
(* Mutant: ACCEPT is not waited for.                                        *)
SendReadyOneWay(c, b, a, l, next) ==
    /\ \E n \in Sends(c, l) : Sent(c, b, a, l, n, out)
    /\ state' = "encoding" /\ res' = "again"
    /\ UNCHANGED inVars

SendReady(c, b, a, l, next) ==
    \/ \E n \in Sends(c, l) :
          \/ /\ n < l
             /\ ReadyInPieces
             /\ Sent(c, b, a, l, n, out)
             /\ state' = next
             /\ res' = "again"
             /\ UNCHANGED inVars
          \/ /\ n = l
             /\ buf' = b /\ at' = 0
             /\ out' = out \o Slice(b, a - l, n)
             /\ \/ /\ c.api = "pop"
                   /\ popped' = n
                   /\ PopReads("accept", c, 0)
                \/ /\ c.api = "write"
                   /\ left' = 0
                   /\ state' = "reading_accept"
                   /\ res' = "blocked"
                   /\ UNCHANGED <<popped, inVars>>
    \/ /\ SendFails(c, l)
       /\ ReadyInPieces
       /\ NotSent(b, a, l, out)
       /\ state' = next
       /\ res' = "error"
       /\ UNCHANGED inVars

SendFrames(c, b, a, l, returns) ==
    \/ \E n \in Sends(c, l) :
          /\ Sent(c, b, a, l, n, out)
          /\ state' = IF n = l THEN "encoding" ELSE "writing"
          /\ res' = returns
    \/ /\ SendFails(c, l)
       /\ NotSent(b, a, l, out)
       /\ state' = "writing"
       /\ res' = "error"

(* Mutant: done after the first piece of STOP.                              *)
SendStopOnce(c, b, a, l, sent) ==
    /\ \E n \in Sends(c, l) : Sent(c, b, a, l, n, sent)
    /\ state' = "done" /\ res' = "endofdata"

SendStop(c, b, a, l, sent) ==
    \/ \E n \in Sends(c, l) :
          /\ Sent(c, b, a, l, n, sent)
          /\ \/ /\ n < l
                /\ state' = "writing_stop"
                /\ res' = "again"
             \/ /\ n = l
                /\ bidirectional
                /\ state' = "reading_finish"
                /\ res' = "again"
             \/ /\ n = l
                /\ ~bidirectional
                /\ state' = "done"
                /\ res' = "endofdata"
    \/ /\ SendFails(c, l)
       /\ NotSent(b, a, l, sent)
       /\ state' = "writing_stop"
       /\ res' = "error"

(* The ways _encoding() can end with l cells left before offset a.          *)
Outcomes(a, l) ==
    {[res |-> o.res, state |-> o.state, size |-> o.size, cells |-> o.cells, buf |-> o.buf,
      at |-> a + Len(o.cells), left |-> l + Len(o.cells)] :
        o \in EncodeLoop(encoder, dnstap, buf, size, inc, max, a, AllocMayFail)}

Encodes(o) ==
    /\ encoder' = o.state
    /\ size' = o.size
    /\ encoded' = encoded \o o.cells

(* Nothing was encoded, and the call returns; a pop may have given n cells.  *)
EncodeFails(c, o, next, sent, n) ==
    /\ o.res \in {"error", "abort"}
    /\ buf' = o.buf /\ at' = o.at /\ left' = o.left
    /\ out' = sent
    /\ popped' = IF c.api = "pop" THEN n ELSE popped
    /\ state' = next
    /\ res' = o.res

EncodeReady(c) ==
    /\ state = "encoding_ready"
    /\ \E o \in Outcomes(at, left) :
          /\ Encodes(o)
          /\ \/ /\ EncodeFails(c, o, state, out, 0)
                /\ UNCHANGED inVars
             \/ /\ o.res \notin {"error", "abort"}
                /\ SendReady(c, o.buf, o.at, o.left, "writing")  \* writer.c:232, 455

WriteReady(c) ==
    /\ state = "writing_ready"
    /\ SendReady(c, buf, at, left, "writing_ready")
    /\ UNCHANGED <<encoder, size, encoded>>

(* dnswire_ok, which tells the caller that its message was written, is      *)
(* returned when the message was encoded.                                   *)
EncodeFrames(c) ==
    /\ state = "encoding"
    /\ \E o \in Outcomes(at, left) :
          /\ Encodes(o)
          /\ \/ EncodeFails(c, o, state, out, 0)
             \/ /\ o.res \notin {"error", "abort"}
                /\ SendFrames(c, o.buf, o.at, o.left, o.res)
    /\ UNCHANGED inVars

(* Mutant: ok once more when the rest of the frame is sent.                 *)
WriteFramesOk(c) ==
    /\ state = "writing"
    /\ SendFrames(c, buf, at, left, "ok")
    /\ UNCHANGED <<encoder, size, encoded, inVars>>

WriteFrames(c) ==
    /\ state = "writing"
    /\ SendFrames(c, buf, at, left, "again")
    /\ UNCHANGED <<encoder, size, encoded, inVars>>

(* STOP follows the cells given; the call has just given n more of them.     *)
EncodeStop(c, a, l, given, n) ==
    \E o \in Outcomes(a, l) :
       /\ Encodes(o)
       /\ \/ EncodeFails(c, o, "encoding_stop", given, n)
          \/ /\ o.res = "endofdata"
             /\ SendStop(c, o.buf, o.at, o.left, IF c.api = "pop" THEN out ELSE given)

(* What is left goes out before STOP is encoded.  A pop that gives all of   *)
(* it goes on to encode STOP and gives that in its place: the data it has   *)
(* copied out is overwritten and popped counts STOP only (writer.c:342-376).*)
Stopping(c) ==
    /\ state = "stopping"
    /\ \/ /\ left = 0
          /\ EncodeStop(c, at, 0, out, 0)
       \/ /\ left > 0
          /\ \E n \in Sends(c, left) :
                \/ /\ n < left
                   /\ Sent(c, buf, at, left, n, out)
                   /\ state' = "stopping"
                   /\ res' = "again"
                   /\ UNCHANGED <<encoder, size, encoded>>
                \/ /\ n = left
                   /\ EncodeStop(c, 0, 0, out \o Slice(buf, at - left, n), n)
       \/ /\ left > 0
          /\ SendFails(c, left)
          /\ NotSent(buf, at, left, out)
          /\ res' = "error"
          /\ UNCHANGED <<state, encoder, size, encoded>>
    /\ UNCHANGED inVars

EncodingStop(c) ==
    /\ state = "encoding_stop"
    /\ EncodeStop(c, at, left, out, 0)
    /\ UNCHANGED inVars

WriteStop(c) ==
    /\ state = "writing_stop"
    /\ SendStop(c, buf, at, left, out)
    /\ UNCHANGED <<encoder, size, encoded, inVars>>

Done(c) ==
    /\ state = "done"
    /\ res' = "error"
    /\ popped' = IF c.api = "pop" THEN 0 ELSE popped
    /\ UNCHANGED <<state, encoder, buf, size, at, left, out, encoded, inVars>>

-----------------------------------------------------------------------------
(***************************************************************************)
(* The calls.                                                              *)
(***************************************************************************)
Call(c) ==
    /\ c.api \in Api
    /\ c.inlen = 0 \/ PopAnswers
    /\ c.api = "pop" /\ state = "stopping" => left = 0 \/ c.len < left \/ PopStops
    /\ res # "abort"
    /\ res = "blocked" => c.api = "write"
    /\ Len(Payloads(encoded)) < MaxFrames \/ state # "encoding" \/ encoder # "frames"
    /\ \/ EncodeReady(c)
       \/ WriteReady(c)
       \/ ReadAnswer("accept", c)
       \/ DecodeAnswer("accept", c)
       \/ EncodeFrames(c)
       \/ WriteFrames(c)
       \/ Stopping(c)
       \/ EncodingStop(c)
       \/ WriteStop(c)
       \/ ReadAnswer("finish", c)
       \/ DecodeAnswer("finish", c)
       \/ Done(c)
    /\ acked' = IF res' = "ok" THEN Append(acked, dnstap) ELSE acked
    /\ UNCHANGED <<dnstap, bidirectional, tuneVars, input>>

(* dnswire_writer_pop() with room for len cells, given the next inlen.      *)
Pop(len, inlen) == Call([api |-> "pop", len |-> len, inlen |-> inlen])

(* dnswire_writer_write().                                                  *)
Write == Call([api |-> "write", len |-> 0, inlen |-> 0])

Next ==
    \/ PeerAccept
    \/ PeerFinish
    \/ \E b \in Bidirectional : SetBidirectional(b)
    \/ \E m \in Message : SetDnstap(m)
    \/ StopCall
    \/ \E n \in Tunings : SetBufsize(n) \/ SetBufinc(n) \/ SetBufmax(n)
    \/ \E len \in PopLens, inlen \in 0..Available : Pop(len, inlen)
    \/ Write

Spec == Init /\ [][Next]_vars

-----------------------------------------------------------------------------
(***************************************************************************)
(* Properties.                                                             *)
(***************************************************************************)

(* Every variable has its type.                                             *)
TypeOK ==
    /\ state \in WriterState /\ res \in Result
    /\ encoder \in EncoderState /\ decoder \in DecoderType
    /\ dnstap \in Message \cup {NoDnstap}
    /\ buf \in Seq(Cell) /\ read_buf \in Seq(Cell)
    /\ size \in Nat /\ inc \in Nat /\ max \in Nat /\ at \in Nat /\ left \in Nat
    /\ popped \in Nat /\ read_size \in Nat /\ read_at \in Nat /\ read_left \in Nat
    /\ bidirectional \in BOOLEAN
    /\ out \in Seq(Cell) /\ input \in Seq(Cell) /\ taken \in 0..Len(input)
    /\ encoded \in Seq(Cell) /\ acked \in Seq(Message) /\ tunes \in 0..MaxTunes

(* The data stays inside the allocations: left <= at <= size <= max, and for *)
(* what is read read_at + read_left <= read_size.                           *)
BufferBounds ==
    /\ Len(buf) = size
    /\ left <= at /\ at <= size /\ size <= max
    /\ left = 0 => at = 0
    /\ read_buf # <<>> => Len(read_buf) = read_size
    /\ read_at + read_left <= read_size

(* The decoder went through an answer that does not accept the DNSTAP       *)
(* content type, and the call returned an error.                            *)
Refused == /\ decoder.state \in {"reading_start", "checking_finish"}
           /\ ~decoder.accept_support_dnstap_protobuf

(* No call fails an assertion of the decoder or the encoder (decoder.c:48,  *)
(* encoder.c:52-53), unless the caller goes on after the peer has refused.  *)
NeverAborts == res = "abort" => Refused

(* What the peer has and what waits in the buffer is, in order, exactly     *)
(* what was encoded, however it is cut into pops and writes, and whatever   *)
(* happens to the buffer in between.                                        *)
OutIntact == out \o Slice(buf, at - left, left) = encoded

(* A message that was reported written is encoded exactly once, in its      *)
(* turn.  A message whose write(2) failed is encoded too, but the caller    *)
(* is never told so: the rest of it goes out with `again` (writer.c:287-307, *)
(* 540-566); without such an error no other message is encoded.             *)
AckedOnce ==
    /\ acked \in Subsequences(Payloads(encoded))
    /\ ~IOErrors => acked = Payloads(encoded)

(* When the caller is told that the stream has ended, the peer has every     *)
(* message that was reported written, then STOP, and the writer has seen    *)
(* FINISH from a peer that was asked to send it (sender.c:129-152).         *)
AckedOnWire ==
    res = "endofdata" =>
        /\ acked \in Subsequences(Payloads(out))
        /\ out = encoded
        /\ EndsWith(out, StopCells)
        /\ bidirectional => EndsWith(SubSeq(input, 1, taken), FinishCells)

(* With a handshake nothing follows READY until the peer has accepted the   *)
(* DNSTAP content type (writer.c:272-276).                                  *)
StartAfterAccept ==
    bidirectional /\ Len(encoded) > Len(ReadyCells) =>
        /\ decoder.state \in {"checking_finish", "done"}
        /\ decoder.accept_support_dnstap_protobuf

(* What is left in read_buf is the end of what the writer was given.        *)
AnswerIntact ==
    EndsWith(SubSeq(input, 1, taken), Slice(read_buf, read_at, read_left))

=============================================================================
