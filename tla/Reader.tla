------------------------------- MODULE Reader -------------------------------
(***************************************************************************)
(* src/src/reader.c: a caller feeds a reader the bytes of a peer, with     *)
(* dnswire_reader_push() or dnswire_reader_read(), and gets DNSTAP         *)
(* messages.  The peer and the channel to it are part of the module: what  *)
(* the peer has sent is `input`, what it was sent back is `out`.           *)
(*                                                                         *)
(* The struct dnswire_reader is spread over variables of the same names.   *)
(***************************************************************************)
EXTENDS Decoder, Encoder

CONSTANTS
    Streams,       \* what a peer may send: [hello : cells sent at once,
                   \*   body : cells sent once ACCEPT has come back in full]
    InitSize, InitInc, InitMax,     \* size, inc and max after dnswire_reader_init()
    WriteSize, WriteInc, WriteMax,  \* write_size, write_inc and write_max
    Bidirectional, \* the arguments dnswire_reader_allow_bidirectional() is called with
    Api,           \* which of "push" and "read" the caller uses
    OutLens,       \* the room, *out_len, the caller gives a push
    Tunings,       \* the arguments of set_bufsize(), set_bufinc() and set_bufmax()
    MaxTunes,      \* bound on the number of those calls
    ShortWrites,   \* may write(2) write less than it was given?
    IOErrors,      \* may read(2) and write(2) fail?
    AllocMayFail   \* may realloc() fail?

ASSUME SizeAssumption ==
    /\ InitSize \in Nat \ {0} /\ InitInc \in Nat \ {0} /\ InitMax \in Nat
    /\ InitSize <= InitMax
    /\ WriteSize \in Nat \ {0} /\ WriteInc \in Nat \ {0} /\ WriteMax \in Nat
    /\ WriteSize <= WriteMax

(* DNSWIRE_DEFAULT_BUF_SIZE has room for ACCEPT and more (dnswire.h:25), and  *)
(* there is no function that changes write_size.                             *)
ASSUME AnswerAssumption == WriteSize > HeaderLen + FieldLen

ASSUME CallAssumption ==
    /\ Bidirectional \subseteq BOOLEAN
    /\ OutLens \subseteq Nat
    /\ Tunings \subseteq Nat \ {0}
    /\ MaxTunes \in Nat
    /\ ShortWrites \in BOOLEAN /\ IOErrors \in BOOLEAN /\ AllocMayFail \in BOOLEAN

ASSUME StreamAssumption == Streams \subseteq [hello : Seq(Cell), body : Seq(Cell)]

VARIABLES
    state, decoder, buf, size, inc, max, at, left, pushed,
    encoder, write_buf, write_size, write_at, write_left,
    allow_bidirectional, is_bidirectional,
    res,        \* what the last push or read returned; "init" before the first,
                \* "abort" after a failed assertion
    input,      \* all cells the peer has sent so far
    rest,       \* the cells it sends once ACCEPT has come back
    taken,      \* how many cells of input the reader was given
    out,        \* all cells the reader has given back to the peer
    decoded,    \* how many cells of input the decoder has gone through
    delivered,  \* the messages the caller got
    tunes       \* calls of set_bufsize(), set_bufinc() and set_bufmax() so far

inVars   == <<buf, size, at, left>>
outVars  == <<encoder, write_buf, write_size, write_at, write_left, out>>
bidirVars == <<allow_bidirectional, is_bidirectional>>
peerVars == <<input, rest>>
tuneVars == <<inc, max, tunes>>
vars == <<state, decoder, inVars, inc, max, pushed, outVars, bidirVars, res,
          peerVars, taken, decoded, delivered, tunes>>

ReaderState == {"reading_control", "decoding_control", "encoding_accept",
                "writing_accept", "reading", "decoding", "encoding_finish",
                "writing_finish", "done"}

Result == {"init", "error", "again", "need_more", "have_dnstap", "endofdata", "abort"}

(* The two pairs of states with one shape: control elements, then frames.   *)
ControlPhase == [reading |-> "reading_control", decoding |-> "decoding_control"]
FramePhase   == [reading |-> "reading", decoding |-> "decoding"]
Phase == {ControlPhase, FramePhase}

(* ACCEPT as it is encoded; the peer waits for it before it sends START.    *)
Accept == Encoding("control_accept", NoDnstap).cells
Finish == Encoding("control_finish", NoDnstap).cells

-----------------------------------------------------------------------------
Init ==
    /\ state = "reading_control"
    /\ decoder = DecoderInit
    /\ size = InitSize /\ inc = InitInc /\ max = InitMax
    /\ buf = [i \in 1..InitSize |-> Junk]
    /\ at = 0 /\ left = 0 /\ pushed = 0
    /\ encoder = "control_start"
    /\ write_buf = <<>> /\ write_size = WriteSize
    /\ write_at = 0 /\ write_left = 0
    /\ allow_bidirectional = FALSE /\ is_bidirectional = FALSE
    /\ res = "init"
    /\ \E s \in Streams : input = s.hello /\ rest = s.body
    /\ taken = 0 /\ out = <<>> /\ decoded = 0 /\ delivered = <<>> /\ tunes = 0

-----------------------------------------------------------------------------
(***************************************************************************)
(* The peer.  Its bytes arrive in pieces: how many a push or a read gets   *)
(* is chosen there.                                                        *)
(***************************************************************************)
PeerSend ==
    /\ rest # <<>>
    /\ input = <<>> \/ Len(out) >= Len(Accept)
    /\ input' = input \o rest
    /\ rest' = <<>>
    /\ UNCHANGED <<state, decoder, inVars, pushed, outVars, bidirVars, res,
                   taken, decoded, delivered, tuneVars>>

-----------------------------------------------------------------------------
(***************************************************************************)
(* Configuration.  dnswire_reader_allow_bidirectional() is called before   *)
(* the first push or read, the buffer may be tuned between any two calls.  *)
(***************************************************************************)
AllowBidirectional(b) ==
    /\ res = "init"
    /\ \/ /\ b
          /\ write_buf' = IF write_buf = <<>> THEN [i \in 1..write_size |-> Junk] ELSE write_buf
          /\ encoder' = "control_accept"
       \/ /\ ~b
          /\ encoder' = "control_start"
          /\ UNCHANGED write_buf
    /\ allow_bidirectional' = b
    /\ UNCHANGED <<state, decoder, inVars, pushed, write_size, write_at, write_left, out,
                   is_bidirectional, res, peerVars, taken, decoded, delivered, tuneVars>>

Tune ==
    /\ tunes < MaxTunes
    /\ tunes' = tunes + 1
    /\ UNCHANGED <<state, decoder, left, pushed, outVars, bidirVars, res,
                   peerVars, taken, decoded, delivered>>

SetBufsize(n) ==
    /\ Tune
    /\ left <= n /\ n <= max  \* else an error and no change
    /\ \/ /\ at + left > n
          /\ buf' = Realloc(MoveToStart(buf, at, left), n)
          /\ at' = 0
          /\ size' = n
       \/ /\ at + left <= n
          /\ buf' = Realloc(buf, n)
          /\ size' = n
          /\ UNCHANGED at
       \/ /\ AllocMayFail
          /\ at + left > n
          /\ buf' = MoveToStart(buf, at, left)
          /\ at' = 0
          /\ UNCHANGED size
    /\ UNCHANGED <<inc, max>>

SetBufinc(n) ==
    /\ Tune
    /\ inc' = n
    /\ UNCHANGED <<buf, size, at, max>>

SetBufmax(n) ==
    /\ Tune
    /\ n >= size
    /\ max' = n
    /\ UNCHANGED <<buf, size, at, inc>>

-----------------------------------------------------------------------------
(***************************************************************************)
(* What push and read do with what is in the buffer: the cases             *)
(* decoding_control and decoding.  A call reaches them with the block b    *)
(* and l cells to decode in it; `more` says that a push was given more     *)
(* than it could move into the buffer.                                     *)
(***************************************************************************)
Window(b, l) == Slice(b, at, l)

(* Mutants: the state, or at, is not reset when the buffer is empty.        *)
ConsumeStays(b, l, n, emptied, others) ==
    /\ buf' = b /\ left' = l - n /\ at' = (IF l = n THEN 0 ELSE at + n)
    /\ decoded' = decoded + n /\ state' = others /\ UNCHANGED size
ConsumeKeepsAt(b, l, n, emptied, others) ==
    /\ buf' = b /\ left' = l - n /\ at' = at + n
    /\ decoded' = decoded + n /\ state' = (IF l = n THEN emptied ELSE others) /\ UNCHANGED size

(* The element that was decoded leaves the buffer; where the code goes on   *)
(* depends on whether that empties it.                                      *)
Consume(b, l, n, emptied, others) ==
    /\ buf' = b
    /\ left' = l - n
    /\ at' = IF l = n THEN 0 ELSE at + n
    /\ decoded' = decoded + n
    /\ state' = IF l = n THEN emptied ELSE others
    /\ UNCHANGED size

(* The decoder consumes nothing.                                            *)
Keep(b, l, next) ==
    /\ buf' = b
    /\ left' = l
    /\ state' = next
    /\ UNCHANGED <<size, at, decoded>>

(* Mutant: what was decoded is not taken out of the buffer.                 *)
AgainKeeps(b, l, ph, r) ==
    /\ r.res = "again" /\ Keep(b, l, ph.decoding) /\ res' = "again"
    /\ UNCHANGED <<is_bidirectional, delivered>>

Again(b, l, ph, r) ==
    /\ r.res = "again"
    /\ Consume(b, l, r.n, ph.reading, ph.decoding)
    /\ res' = "again"
    /\ UNCHANGED <<is_bidirectional, delivered>>

(* READY: refused, or answered with ACCEPT.                                 *)
Ready(b, l, ph, r) ==
    /\ r.res = "bidirectional"
    /\ ph = ControlPhase
    /\ IF allow_bidirectional /\ r.decoder.ready_support_dnstap_protobuf
       THEN /\ Consume(b, l, r.n, "encoding_accept", "encoding_accept")
            /\ res' = "again"
       ELSE /\ Consume(b, l, r.n, ph.reading, ph.decoding)
            /\ res' = "error"
    /\ is_bidirectional' = (allow_bidirectional \/ is_bidirectional)
    /\ UNCHANGED delivered

(* Make room for the rest of an element: compact, expand, or give up.       *)
NeedMore(b, l, ph, r, more) ==
    /\ r.res = "need_more"
    /\ \/ /\ l < size
          /\ buf' = IF at > 0 THEN MoveToStart(b, at, l) ELSE b
          /\ at' = 0
          /\ state' = ph.reading
          /\ res' = IF more THEN "again" ELSE "need_more"
          /\ UNCHANGED size
       \/ /\ l >= size
          /\ size < max
          /\ size' = Expanded(size, inc, max)
          /\ buf' = Realloc(b, size')
          /\ state' = ph.reading
          /\ res' = IF more THEN "again" ELSE "need_more"
          /\ UNCHANGED at
       \/ /\ l >= size
          /\ size >= max \/ AllocMayFail
          /\ buf' = b
          /\ state' = ph.decoding
          /\ res' = "error"
          /\ UNCHANGED <<size, at>>
    /\ left' = l
    /\ UNCHANGED <<decoded, is_bidirectional, delivered>>

(* Mutant: the frame stays in the buffer.                                   *)
HaveDnstapKeeps(b, l, r) ==
    /\ r.res = "have_dnstap" /\ Keep(b, l, "decoding") /\ res' = "have_dnstap"
    /\ delivered' = Append(delivered, r.msg) /\ UNCHANGED is_bidirectional

HaveDnstap(b, l, r) ==
    /\ r.res = "have_dnstap"
    /\ Consume(b, l, r.n, "reading", "decoding")
    /\ delivered' = Append(delivered, r.msg)
    /\ res' = "have_dnstap"
    /\ UNCHANGED is_bidirectional

(* Mutant: no FINISH for a bidirectional stream.                            *)
EndOfDataOneWay(b, l, r) ==
    /\ r.res = "endofdata" /\ Keep(b, l, "done") /\ res' = "endofdata"
    /\ UNCHANGED <<is_bidirectional, delivered>>

(* STOP: finished, or answered with FINISH.                                 *)
EndOfData(b, l, r) ==
    /\ r.res = "endofdata"
    /\ \/ /\ is_bidirectional
          /\ Keep(b, l, "encoding_finish")
          /\ res' = "again"
       \/ /\ ~is_bidirectional
          /\ Keep(b, l, "done")
          /\ res' = "endofdata"
    /\ UNCHANGED <<is_bidirectional, delivered>>

DecodeError(b, l, ph, r) ==
    /\ \/ r.res = "error"
       \/ r.res = "bidirectional" /\ ph = FramePhase
    /\ Keep(b, l, ph.decoding)
    /\ res' = "error"
    /\ UNCHANGED <<is_bidirectional, delivered>>

(* dnswire_decoder_decode() asserts that there is something to decode.      *)
NothingToDecode(b, l, ph) ==
    /\ l = 0
    /\ Keep(b, l, ph.decoding)
    /\ res' = "abort"
    /\ UNCHANGED <<decoder, is_bidirectional, delivered>>

Decoding(b, l, ph, more) ==
    \/ NothingToDecode(b, l, ph)
    \/ /\ l > 0
       /\ \E r \in {Decode(decoder, Window(b, l))} :
             /\ decoder' = r.decoder
             /\ \/ Again(b, l, ph, r)
                \/ Ready(b, l, ph, r)
                \/ NeedMore(b, l, ph, r, more)
                \/ HaveDnstap(b, l, r)
                \/ EndOfData(b, l, r)
                \/ DecodeError(b, l, ph, r)

-----------------------------------------------------------------------------
(***************************************************************************)
(* Taking in what the peer sent.  Space is what is free after the data.    *)
(***************************************************************************)
Available == Len(input) - taken
Space == size - at - left

(* The block once the next n cells of the input are behind what is in it.   *)
Filled(n) == Overlay(buf, at + left, Slice(input, taken, n))

(* Mutant: the caller is not told that there was more to push.              *)
TakeAndDecodeSilent(n, ph, more) ==
    /\ taken' = taken + n
    /\ \E b \in {Filled(n)} : Decoding(b, left + n, ph, FALSE)

(* Move the next n cells of the input behind the data and decode.           *)
TakeAndDecode(n, ph, more) ==
    /\ taken' = taken + n
    /\ \E b \in {Filled(n)} : Decoding(b, left + n, ph, more)

(* push() with len = n: it moves no more than fits.  If nothing fits it     *)
(* still decodes.                                                           *)
PushInput(n) ==
    \E ph \in Phase :
       \/ /\ state = ph.reading
          /\ n = 0
          /\ pushed' = 0
          /\ res' = "need_more"
          /\ UNCHANGED <<state, decoder, inVars, is_bidirectional, taken, decoded, delivered>>
       \/ /\ state = ph.reading
          /\ n > 0
          /\ pushed' = LeastOf(Space, n)
          /\ TakeAndDecode(LeastOf(Space, n), ph, Space < n)
       \/ /\ state = ph.decoding
          /\ pushed' = 0
          /\ Decoding(buf, left, ph, n > 0)
          /\ UNCHANGED taken

(* read(): read(2) returns some of what is there.  With nothing to come, no *)
(* space to read into, or an error of the descriptor it fails.              *)
ReadInput ==
    \E ph \in Phase :
       \/ /\ state = ph.reading
          /\ \E n \in 1..LeastOf(Space, Available) : TakeAndDecode(n, ph, FALSE)
          /\ UNCHANGED pushed
       \/ /\ state = ph.reading
          /\ \/ Available = 0 /\ rest = <<>>
             \/ Space = 0
             \/ IOErrors
          /\ res' = "error"
          /\ UNCHANGED <<state, decoder, inVars, pushed, is_bidirectional, taken,
                         decoded, delivered>>
       \/ /\ state = ph.decoding
          /\ Decoding(buf, left, ph, FALSE)
          /\ UNCHANGED <<pushed, taken>>

-----------------------------------------------------------------------------
(***************************************************************************)
(* Answering the peer.  A call encodes the answer when it is not encoded   *)
(* yet and goes on to write it: the two are one step.                      *)
(***************************************************************************)
Answer == {[encoding |-> "encoding_accept", writing |-> "writing_accept",
            encoded |-> "again", written |-> "reading_control", returns |-> "again"],
           [encoding |-> "encoding_finish", writing |-> "writing_finish",
            encoded |-> "endofdata", written |-> "done", returns |-> "endofdata"]}

(* Mutant: every piece is taken from the start of the block.                *)
GiveFromStart(b, a, l, n, ans) ==
    /\ out' = out \o Slice(b, 0, n)
    /\ write_buf' = b /\ write_left' = l - n /\ write_at' = (IF l = n THEN 0 ELSE a)
    /\ state' = (IF l = n THEN ans.written ELSE ans.writing)
    /\ res' = (IF l = n THEN ans.returns ELSE "again")

(* n cells of the answer go out of the block b, which has l left at a.      *)
Give(b, a, l, n, ans) ==
    /\ out' = out \o Slice(b, a - l, n)
    /\ write_buf' = b
    /\ write_left' = l - n
    /\ write_at' = IF l = n THEN 0 ELSE a
    /\ state' = IF l = n THEN ans.written ELSE ans.writing
    /\ res' = IF l = n THEN ans.returns ELSE "again"

(* write(2) fails, or has nothing to write: the answer stays encoded.       *)
GiveNothing(b, a, l, ans) ==
    /\ res' = "error"
    /\ write_buf' = b
    /\ write_at' = a
    /\ write_left' = l
    /\ state' = ans.writing
    /\ UNCHANGED out

(* Mutant: gives as much as there is room for, whatever is left.            *)
WriteAll(call, k, b, a, l, ans) ==
    \/ Give(b, a, l, k, ans)
    \/ call = "read" /\ IOErrors /\ GiveNothing(b, a, l, ans)

(* A push gives what fits in its out_len, k; write(2) takes k or all.        *)
Write(call, k, b, a, l, ans) ==
    \/ /\ call = "push" \/ l > 0
       /\ Give(b, a, l, LeastOf(l, k), ans)
    \/ /\ call = "read"
       /\ l = 0 \/ IOErrors
       /\ GiveNothing(b, a, l, ans)

EncodeAndWrite(call, k, ans) ==
    \E o \in EncodeLoop(encoder, NoDnstap, write_buf, write_size, WriteInc, WriteMax,
                        write_at, AllocMayFail) :
        LET n == Len(o.cells) IN
        /\ encoder' = o.state
        /\ write_size' = o.size
        /\ \/ /\ o.res = ans.encoded
              /\ Write(call, k, o.buf, write_at + n, write_left + n, ans)
           \/ /\ o.res # ans.encoded
              /\ res' = IF o.res = "abort" THEN "abort" ELSE "error"
              /\ write_buf' = o.buf
              /\ write_at' = write_at + n
              /\ write_left' = write_left + n
              /\ UNCHANGED <<state, out>>

Answering(call, k) ==
    \E ans \in Answer :
       \/ /\ state = ans.encoding
          /\ EncodeAndWrite(call, k, ans)
       \/ /\ state = ans.writing
          /\ Write(call, k, write_buf, write_at, write_left, ans)
          /\ UNCHANGED <<encoder, write_size>>

-----------------------------------------------------------------------------
(***************************************************************************)
(* The calls.  A call on a reader that is done is an error.                *)
(***************************************************************************)
Done ==
    /\ state = "done"
    /\ res' = "error"
    /\ UNCHANGED <<state, outVars>>

(* dnswire_reader_push() with the next n cells and room for outlen cells.   *)
Push(n, outlen) ==
    /\ "push" \in Api
    /\ res # "abort"
    /\ \/ /\ PushInput(n)
          /\ UNCHANGED outVars
       \/ /\ Answering("push", outlen) \/ Done
          /\ pushed' = 0
          /\ UNCHANGED <<decoder, inVars, is_bidirectional, taken, decoded, delivered>>
    /\ UNCHANGED <<allow_bidirectional, peerVars, tuneVars>>

(* dnswire_reader_read().                                                   *)
Read ==
    /\ "read" \in Api
    /\ res # "abort"
    /\ \/ /\ ReadInput
          /\ UNCHANGED outVars
       \/ /\ \/ \E k \in (IF ShortWrites THEN 1..WriteMax ELSE {WriteMax}) : Answering("read", k)
             \/ Done
          /\ UNCHANGED <<decoder, inVars, pushed, is_bidirectional, taken, decoded, delivered>>
    /\ UNCHANGED <<allow_bidirectional, peerVars, tuneVars>>

Next ==
    \/ PeerSend
    \/ \E b \in Bidirectional : AllowBidirectional(b)
    \/ \E n \in Tunings : SetBufsize(n) \/ SetBufinc(n) \/ SetBufmax(n)
    \/ \E n \in 0..Available, outlen \in OutLens : Push(n, outlen)
    \/ Read

Spec == Init /\ [][Next]_vars

-----------------------------------------------------------------------------
(***************************************************************************)
(* Properties.                                                             *)
(***************************************************************************)

(* Every variable has its type.                                             *)
TypeOK ==
    /\ state \in ReaderState /\ res \in Result
    /\ decoder \in DecoderType /\ encoder \in EncoderState
    /\ buf \in Seq(Cell) /\ write_buf \in Seq(Cell)
    /\ size \in Nat /\ inc \in Nat /\ max \in Nat /\ at \in Nat /\ left \in Nat
    /\ pushed \in Nat /\ write_size \in Nat /\ write_at \in Nat /\ write_left \in Nat
    /\ allow_bidirectional \in BOOLEAN /\ is_bidirectional \in BOOLEAN
    /\ input \in Seq(Cell) /\ rest \in Seq(Cell) /\ out \in Seq(Cell)
    /\ taken \in 0..Len(input) /\ decoded \in 0..taken
    /\ delivered \in Seq(Message) /\ tunes \in 0..MaxTunes

(* The data stays inside the allocation whatever the calls, the pieces the  *)
(* input comes in and the tuning: at + left <= size <= max, for the answer  *)
(* write_left <= write_at <= write_size (reader.c:223-229, 265-287).        *)
InputInBounds ==
    /\ Len(buf) = size
    /\ at + left <= size
    /\ size <= max
    /\ left = 0 => at = 0

AnswerInBounds ==
    /\ write_buf # <<>> => Len(write_buf) = write_size
    /\ write_left <= write_at
    /\ write_at <= write_size

BufferBounds == InputInBounds /\ AnswerInBounds

(* No call fails an assertion of the decoder or the encoder: the decoder is *)
(* never entered with nothing to decode, the encoder never without room     *)
(* (decoder.c:48, encoder.c:52-53).                                         *)
NeverAborts == res # "abort"

(* What is in the buffer is exactly what the reader was given and the       *)
(* decoder has not gone through: nothing lost, repeated or moved wrongly by *)
(* the memcpy, memmove and realloc of push, read and set_bufsize.           *)
WindowIntact ==
    /\ left = taken - decoded
    /\ Slice(buf, at, left) = SubSeq(input, decoded + 1, taken)

(* The caller gets the messages of the frames the decoder went through,     *)
(* each once and in the order of the stream.                                *)
DeliveredInOrder == delivered = Payloads(SubSeq(input, 1, decoded))

(* The reader ends the stream only at a STOP it has reached, after all that *)
(* came before it; the caller of a bidirectional stream is told so only     *)
(* when the peer has been given ACCEPT and all of FINISH.                   *)
EndsAtStop ==
    /\ state \in {"encoding_finish", "writing_finish", "done"} =>
          decoded < Len(input) /\ input[decoded + 1] = <<Control("STOP", 0), 1>>
    /\ res = "endofdata" => out = IF is_bidirectional THEN Accept \o Finish ELSE <<>>

(* The peer is answered with nothing but ACCEPT and then FINISH, in pieces  *)
(* that fit together, ACCEPT only after all of its READY was decoded.       *)
AnswersIntact ==
    LET answered == out \o Slice(write_buf, write_at - write_left, write_left)
    IN  /\ answered \in {<<>>, Accept, Accept \o Finish}
        /\ answered # <<>> =>
              /\ is_bidirectional
              /\ \E i \in 1..decoded : /\ input[i][1].kind = "field"
                                       /\ input[i][2] = FieldLen

(* "Need more" means it: the buffer holds no whole element the caller could *)
(* be given without more input, and there is room for the input             *)
(* (reader.c:265-287).  A push of nothing is told so whatever is buffered.  *)
NeedMoreNeedsMore ==
    [][res' = "need_more" =>
          \A n \in 1..Available, outlen \in OutLens :
             Push(n, outlen) \/ Read =>
                /\ left' > 0 => left' < Size(buf'[at' + 1][1])
                /\ Space' > 0]_vars

(* A push that asks for more has moved all it was given into the buffer, so *)
(* a caller that fetches new data then loses none (reader.c:289-293).       *)
NeedMoreTookAll ==
    [][res' = "need_more" =>
          \A n \in 1..Available, outlen \in OutLens :
             Push(n, outlen) => taken' = taken + n]_vars

(* Only set_bufsize() makes the buffer smaller: a call that needs more      *)
(* space expands it (reader.h:47 "How much the buffer will be increased     *)
(* by").                                                                    *)
OnlyExpands == [][tunes' = tunes => size' >= size]_vars

=============================================================================
