---------------------------- MODULE WriterProofs ----------------------------
(***************************************************************************)
(* Proofs about Writer for all messages, answers and sizes, however the     *)
(* stream is cut into pops and writes.                                     *)
(***************************************************************************)
EXTENDS Writer, CodingProofs

(* No increment is so large that the block for the answer wraps around      *)
(* size_t when it is expanded.                                              *)
NoWrap == ReadMax + ReadInc < SizeMod

(* What loses data in the code is left alone: set_bufsize() does not move   *)
(* what is in the buffer (writer.c:134), a pop gives the end of the frames   *)
(* and STOP apart (writer.c:342-376), and the answers are read, not popped   *)
(* (writer.c:258, 392).                                                     *)
Avoided == ~MoveWithData /\ ~PopStops /\ ~PopAnswers

(* Calls of dnswire_writer_pop() and dnswire_writer_write().                *)
Calls == [api : {"pop", "write"}, len : Nat, inlen : {0}]

-----------------------------------------------------------------------------
(***************************************************************************)
(* The invariant.                                                          *)
(***************************************************************************)
(* Where the encoder can be when the writer is in state s.                  *)
EncoderIn(s) ==
    CASE s = "encoding_ready" -> {"control_ready"}
      [] s = "writing_ready"  -> {"control_start"}
      [] s \in {"reading_accept", "decoding_accept"} -> {"control_start", "done"}
      [] s = "encoding" -> {"control_start", "frames", "done"}
      [] s = "writing"  -> {"control_start", "frames"}
      [] s \in {"stopping", "encoding_stop"} -> {"control_stop"}
      [] OTHER -> {"done"}

(* The states in which an answer is awaited, and those in which nothing     *)
(* waits to be sent.                                                        *)
Answering == {"reading_accept", "decoding_accept", "reading_finish", "decoding_finish"}
Empty == Answering \cup {"encoding_ready", "encoding", "encoding_stop", "done"}

StateInv ==
    /\ encoder \in EncoderIn(state)
    /\ state \in Empty => left = 0
    /\ state \in Answering \cup {"encoding_ready", "writing_ready"} => bidirectional

(* l cells wait before offset a of the block b, which has z cells; with     *)
(* what was sent they are all that was encoded.                             *)
Loaded(b, z, a, l, sent, enc) ==
    /\ b \in Seq(Cell) /\ z \in Nat /\ Len(b) = z /\ z > 0
    /\ a \in Nat /\ l \in Nat /\ l <= a /\ a <= z
    /\ l = 0 => a = 0
    /\ sent \in Seq(Cell) /\ enc \in Seq(Cell)
    /\ sent \o Slice(b, a - l, l) = enc

OutInv ==
    /\ Loaded(buf, size, at, left, out, encoded)
    /\ max \in Nat /\ size <= max
    /\ popped \in Nat

(* l cells from offset a of b are the last of the t the writer was given.   *)
Holds(b, a, l, t) == l <= t /\ \A i \in 1..l : b[a + i] = input[(t - l) + i]

(* The same for the answer, in the block b.                                 *)
Filling(b, z, a, l, t) ==
    /\ b \in Seq(Cell) /\ z \in Nat
    /\ b # <<>> => Len(b) = z
    /\ l > 0 => b # <<>>
    /\ z > 0 /\ z <= ReadMax
    /\ a \in Nat /\ l \in Nat /\ a + l <= z
    /\ t \in Nat /\ t <= Len(input)
    /\ Holds(b, a, l, t)

InInv ==
    /\ Filling(read_buf, read_size, read_at, read_left, taken)
    /\ input \in Seq(Cell)
    /\ bidirectional => read_buf # <<>>
    /\ decoder \in DecoderType /\ AcceptNoted(decoder)
    /\ decoder.accept_support_dnstap_protobuf =>
          \E i \in 1..taken : input[i][1].kind = "field" /\ input[i][2] = FieldLen
    /\ state = "decoding_accept" /\ read_left = 0 => Refused
    /\ state = "decoding_finish" => read_left > 0

(* Before the first call that writes nothing has happened.                  *)
FreshInv ==
    res = "init" =>
        /\ state \in {"encoding_ready", "encoding"}
        /\ encoder \in {"control_ready", "control_start"}
        /\ left = 0 /\ encoded = <<>> /\ out = <<>>
        /\ decoder = DecoderInit /\ read_left = 0 /\ taken = 0

(* What is left of the types.                                               *)
CallInv ==
    /\ state \in WriterState /\ res \in Result /\ encoder \in EncoderState
    /\ dnstap \in Message \cup {NoDnstap} /\ inc \in Nat
    /\ bidirectional \in BOOLEAN
    /\ acked \in Seq(Message) /\ tunes \in 0..MaxTunes
    /\ NeverAborts

Inv == StateInv /\ OutInv /\ InInv /\ FreshInv /\ CallInv

(* The invariant has the types, the bounds and what the peer gets.          *)
LEMMA InvGives ==
    ASSUME Inv
    PROVE  TypeOK /\ BufferBounds /\ NeverAborts /\ OutIntact
  <1>1. taken \in 0..Len(input)
    <2>1. Len(input) \in Nat
      BY DEF Inv, InInv
    <2> QED BY <2>1 DEF Inv, InInv, Filling
  <1>2. /\ buf \in Seq(Cell) /\ size \in Nat /\ Len(buf) = size /\ max \in Nat /\ size <= max
        /\ at \in Nat /\ left \in Nat /\ left <= at /\ at <= size /\ (left = 0 => at = 0)
        /\ out \in Seq(Cell) /\ encoded \in Seq(Cell) /\ popped \in Nat
        /\ OutIntact
    BY DEF Inv, OutInv, Loaded, OutIntact
  <1>3. /\ read_buf \in Seq(Cell) /\ read_size \in Nat /\ read_at \in Nat /\ read_left \in Nat
        /\ read_buf # <<>> => Len(read_buf) = read_size
        /\ read_at + read_left <= read_size
        /\ input \in Seq(Cell) /\ decoder \in DecoderType
    BY DEF Inv, InInv, Filling
  <1>4. TypeOK
    BY <1>1, <1>2, <1>3 DEF Inv, CallInv, TypeOK
  <1>5. BufferBounds
    BY <1>2, <1>3 DEF BufferBounds
  <1> QED BY <1>2, <1>4, <1>5 DEF Inv, CallInv

-----------------------------------------------------------------------------
(***************************************************************************)
(* The buffer.                                                             *)
(***************************************************************************)
(* What is left when n of the l cells are given to the peer waits behind    *)
(* them.                                                                    *)
LEMMA SentLeaves ==
    ASSUME NEW c \in Calls, NEW b, NEW a, NEW l, NEW n \in Nat, NEW sent, n <= l,
           Loaded(b, size', a, l, sent, encoded'),
           max' \in Nat, size' <= max', popped \in Nat,
           Sent(c, b, a, l, n, sent)
    PROVE  OutInv' /\ left' = l - n /\ Len(out') >= Len(sent)
  <1>1. /\ b \in Seq(Cell) /\ size' \in Nat /\ Len(b) = size' /\ size' > 0
        /\ a \in Nat /\ l \in Nat /\ l <= a /\ a <= size'
        /\ sent \in Seq(Cell) /\ encoded' \in Seq(Cell)
        /\ sent \o Slice(b, a - l, l) = encoded'
    BY DEF Loaded
  <1>2. /\ buf' = b /\ at' = (IF l = n THEN 0 ELSE a) /\ left' = l - n
        /\ out' = sent \o Slice(b, a - l, n)
        /\ popped' = IF c.api = "pop" THEN n ELSE popped
    BY DEF Sent
  <1> DEFINE p == a - l
             m == l - n
  <1>3. /\ p \in Nat /\ m \in Nat /\ n + m = l /\ p + n = a - m
        /\ Slice(b, p, n) \in Seq(Cell) /\ Slice(b, p + n, m) \in Seq(Cell)
        /\ Slice(b, p, n + m) = Slice(b, p, n) \o Slice(b, p + n, m)
    <2>1. p \in Nat /\ m \in Nat /\ n + m = l /\ p + n = a - m
      BY <1>1
    <2> HIDE DEF p, m
    <2>2. p \in Int /\ p + n \in Int /\ b \in Seq(Cell)
      BY <1>1, <2>1
    <2> QED BY <2>1, <2>2, SliceType, SliceConcat
  <1>4. Slice(b, p, l) = Slice(b, p, n) \o Slice(b, p + n, m)
    BY <1>3
  <1>5. (sent \o Slice(b, p, n)) \o Slice(b, p + n, m) = encoded'
    <2>1. \A s, t, u \in Seq(Cell) : (s \o t) \o u = s \o (t \o u)
      OBVIOUS
    <2>2. sent \o Slice(b, p, l) = encoded' /\ sent \in Seq(Cell)
      BY <1>1
    <2>3. sent \o (Slice(b, p, n) \o Slice(b, p + n, m)) = encoded'
      BY <1>4, <2>2
    <2> HIDE DEF p, m
    <2> QED BY <1>3, <2>1, <2>2, <2>3
  <1>6. out' \in Seq(Cell) /\ Len(out') >= Len(sent)
    <2> DEFINE w == Slice(b, p, n)
    <2>1. out' = sent \o w /\ w \in Seq(Cell) /\ sent \in Seq(Cell)
      BY <1>1, <1>2, <1>3
    <2> HIDE DEF w
    <2>2. Len(sent \o w) = Len(sent) + Len(w) /\ Len(sent) \in Nat /\ Len(w) \in Nat
      BY <2>1
    <2>3. out' \in Seq(Cell)
      BY <2>1
    <2> QED BY <2>1, <2>2, <2>3
  <1>7. out' \o Slice(b, at' - left', left') = encoded'
    <2>1. CASE l = n
      <3>1. Slice(b, p + n, m) = <<>> /\ Slice(b, at' - left', left') = <<>>
        BY <1>2, <2>1, SliceEmpty
      <3> QED BY <1>2, <1>5, <3>1
    <2>2. CASE l # n
      BY <1>2, <1>3, <1>5, <2>2
    <2> QED BY <2>1, <2>2
  <1>8. /\ at' \in Nat /\ left' \in Nat /\ left' <= at' /\ at' <= size'
        /\ left' = 0 => at' = 0
        /\ popped' \in Nat
    BY <1>1, <1>2
  <1> QED BY <1>1, <1>2, <1>6, <1>7, <1>8 DEF OutInv, Loaded

(* And when nothing is, all of it waits.                                    *)
LEMMA KeptLeaves ==
    ASSUME NEW b, NEW a, NEW l, NEW sent,
           Loaded(b, size', a, l, sent, encoded'),
           max' \in Nat, size' <= max', popped' \in Nat,
           buf' = b, at' = a, left' = l, out' = sent
    PROVE  OutInv' /\ Len(out') >= Len(sent)
  <1>1. Len(sent) \in Nat
    BY DEF Loaded
  <1> QED BY <1>1 DEF OutInv, Loaded

(* A call gives no more than there is.                                      *)
LEMMA SendsType ==
    ASSUME NEW c \in Calls, NEW l \in Nat, NEW n \in Sends(c, l)
    PROVE  n \in Nat /\ n <= l
  <1>1. c.len \in Nat
    BY DEF Calls
  <1> QED BY <1>1 DEF Sends, LeastOf

(* An empty buffer has what is encoded next, all of it or nothing.          *)
LEMMA EncodesLoads ==
    ASSUME Inv, NEW o \in Outcomes(0, 0), Encodes(o)
    PROVE  /\ Loaded(o.buf, size', o.at, o.left, encoded, encoded') /\ size' <= max
           /\ \/ /\ encoder' = Encoding(encoder, dnstap).next
                 /\ encoded' = encoded \o Encoding(encoder, dnstap).cells
                 /\ o.res = Encoding(encoder, dnstap).res
              \/ /\ UNCHANGED <<encoder, encoded>>
                 /\ o.res = "error"
           /\ o.res = "error" => UNCHANGED <<encoder, encoded>> /\ o.left = 0
  <1> DEFINE x == Encoding(encoder, dnstap)
  <1>1. /\ encoder \in EncoderState /\ dnstap \in Message \cup {NoDnstap}
        /\ buf \in Seq(Cell) /\ size \in Nat /\ Len(buf) = size /\ size > 0
        /\ inc \in Nat /\ max \in Nat /\ size <= max /\ encoded \in Seq(Cell)
        /\ AllocMayFail \in BOOLEAN /\ 0 \in Nat /\ 0 <= size
    BY CallAssumption DEF Inv, CallInv, OutInv, Loaded
  <1>2. /\ x.cells \in Seq(Cell)
        /\ x.res \in {"again", "ok", "endofdata", "error"}
        /\ x.res = "error" => x.next = encoder
        /\ x.res = "error" => x.cells = <<>>
    BY <1>1, EncodingType
  <1>3. PICK e \in EncodeLoop(encoder, dnstap, buf, size, inc, max, 0, AllocMayFail) :
            /\ o.res = e.res /\ o.state = e.state /\ o.size = e.size /\ o.cells = e.cells
            /\ o.buf = e.buf /\ o.at = 0 + Len(e.cells) /\ o.left = 0 + Len(e.cells)
    BY DEF Outcomes
  <1>4. /\ e.size \in Nat /\ size <= e.size /\ e.size <= max
        /\ e.buf \in Seq(Cell) /\ Len(e.buf) = e.size
        /\ e.cells \in Seq(Cell) /\ 0 + Len(e.cells) <= e.size
        /\ \/ e.cells = x.cells /\ e.res = x.res /\ e.state = x.next
           \/ /\ e.cells = <<>> /\ e.state = encoder
              /\ e.res \in {"error", "abort"}
              /\ e.res = "abort" => buf = <<>> \/ size <= 0
    BY <1>1, <1>2, EncodeLoopType
  <1>5. Slice(e.buf, 0, Len(e.cells)) = e.cells
    BY <1>1, <1>2, EncodeLoopAtStart
  <1> HIDE DEF x
  <1>6. e.res # "abort"
    BY <1>1, <1>2, <1>4
  <1>7. /\ encoder' = e.state /\ size' = e.size /\ encoded' = encoded \o e.cells
        /\ o.buf = e.buf /\ o.at = Len(e.cells) /\ o.left = Len(e.cells) /\ o.res = e.res
        /\ Len(e.cells) \in Nat /\ Len(e.cells) <= size'
    BY <1>3, <1>4 DEF Encodes
  <1>8. Slice(o.buf, 0, o.left) = e.cells
    BY <1>5, <1>7
  <1>9. o.at - o.left = 0
    BY <1>7
  <1>10. encoded' \in Seq(Cell) /\ encoded \o Slice(o.buf, o.at - o.left, o.left) = encoded'
    <2>1. encoded \o e.cells \in Seq(Cell)
      BY <1>1, <1>4
    <2> QED BY <1>7, <1>8, <1>9, <2>1
  <1>11. e.cells = <<>> => encoded' = encoded /\ o.left = 0
    BY <1>1, <1>7
  <1>12. Loaded(o.buf, size', o.at, o.left, encoded, encoded')
    BY <1>1, <1>4, <1>7, <1>10 DEF Loaded
  <1>13. size' <= max
    BY <1>4, <1>7
  <1> QED BY <1>2, <1>4, <1>6, <1>7, <1>11, <1>12, <1>13 DEF x

-----------------------------------------------------------------------------
(***************************************************************************)
(* The calls that send: what one of them leads to.                         *)
(***************************************************************************)
(* The encoder stays where it is, or has put the next element behind what   *)
(* it had encoded.                                                          *)
EncoderStep ==
    \/ UNCHANGED <<encoder, encoded>>
    \/ /\ state \in {"encoding_ready", "encoding", "stopping", "encoding_stop"}
       /\ encoder' = Encoding(encoder, dnstap).next
       /\ encoded' = encoded \o Encoding(encoder, dnstap).cells

OutStep ==
    /\ StateInv' /\ OutInv' /\ Len(out') >= Len(out)
    /\ EncoderStep
    /\ UNCHANGED inVars
    /\ state' \in WriterState \ {"decoding_accept", "decoding_finish"}
    /\ state' \in {"encoding", "writing"} => state \in {"encoding", "writing"} \/ ReadyInPieces
    /\ state' = "done" => ~bidirectional \/ state = "done"
    /\ res' \in {"ok", "error", "again", "need_more", "endofdata", "blocked"}
    /\ res' = "ok" => dnstap \in Message /\ encoder = "frames"
    /\ res' = "endofdata" => state' = "done"

(* What the encoder encodes in the states the writer has it in.             *)
LEMMA EncodingSteps ==
    ASSUME NEW d \in Message \cup {NoDnstap}
    PROVE  /\ Encoding("control_ready", d).next = "control_start"
           /\ Encoding("control_ready", d).res = "again"
           /\ Encoding("control_start", d).next = "frames"
           /\ Encoding("control_start", d).res = "again"
           /\ Encoding("frames", d).next = "frames"
           /\ Encoding("frames", d).res \in {"ok", "error"}
           /\ Encoding("frames", d).res = "ok" => d \in Message
           /\ Encoding("control_stop", d).next = "done"
           /\ Encoding("control_stop", d).res = "endofdata"
           /\ Encoding("done", d).next = "done"
           /\ Encoding("done", d).res = "error"
  BY DEF Encoding

(* READY is given in full, or some of it waits.                             *)
LEMMA SendReadyStep ==
    ASSUME Inv, NEW c \in Calls, UNCHANGED <<bidirectional, max>>, bidirectional,
           NEW b, NEW a, NEW l, NEW next \in {"writing", "writing_ready"},
           Loaded(b, size', a, l, out, encoded'), size' <= max,
           encoder' = "control_start", EncoderStep,
           next = "writing" \/ state = "writing_ready",
           SendReady(c, b, a, l, next)
    PROVE  OutStep
  <1>1. l \in Nat /\ max' \in Nat /\ size' <= max' /\ popped \in Nat
    BY DEF Inv, OutInv, Loaded
  <1>2. \A n \in Sends(c, l) : n \in Nat /\ n <= l
    BY <1>1, SendsType
  <1>3. ASSUME NEW n \in Sends(c, l), ReadyInPieces, n < l, Sent(c, b, a, l, n, out),
               state' = next, res' = "again", UNCHANGED inVars
        PROVE  OutStep
    <2>1. OutInv' /\ Len(out') >= Len(out)
      BY <1>1, <1>2, <1>3, SentLeaves
    <2> QED BY <1>3, <2>1 DEF OutStep, StateInv, EncoderIn, Empty, Answering, WriterState
  <1>4. ASSUME NEW n \in Sends(c, l), n = l, Sent(c, b, a, l, n, out),
               state' = "reading_accept", res' \in {"need_more", "blocked"}, UNCHANGED inVars
        PROVE  OutStep
    <2>1. OutInv' /\ left' = 0 /\ Len(out') >= Len(out)
      BY <1>1, <1>2, <1>4, SentLeaves
    <2> QED BY <1>4, <2>1 DEF OutStep, StateInv, EncoderIn, Empty, Answering, WriterState
  <1>5. ASSUME ReadyInPieces, NotSent(b, a, l, out),
               state' = next, res' = "error", UNCHANGED inVars
        PROVE  OutStep
    <2>1. OutInv' /\ Len(out') >= Len(out)
      BY <1>1, <1>5, KeptLeaves DEF NotSent
    <2> QED BY <1>5, <2>1 DEF OutStep, StateInv, EncoderIn, Empty, Answering, WriterState
  <1>6. ASSUME NEW n \in Sends(c, l), n = l, buf' = b, at' = 0,
               out' = out \o Slice(b, a - l, n),
               \/ c.api = "pop" /\ popped' = n /\ PopReads("accept", c, 0)
               \/ /\ c.api = "write" /\ left' = 0 /\ state' = "reading_accept"
                  /\ res' = "blocked" /\ UNCHANGED <<popped, inVars>>
        PROVE  OutStep
    <2>1. c.inlen = 0
      BY DEF Calls
    <2>2. /\ left' = 0 /\ state' = "reading_accept" /\ res' \in {"need_more", "blocked"}
          /\ UNCHANGED inVars
          /\ popped' = IF c.api = "pop" THEN n ELSE popped
      BY <1>6, <2>1 DEF PopReads, Reading
    <2>3. Sent(c, b, a, l, n, out)
      BY <1>1, <1>6, <2>2 DEF Sent
    <2> QED BY <1>4, <1>6, <2>2, <2>3
  <1> QED BY <1>3, <1>5, <1>6 DEF SendReady

LEMMA EncodeReadyStep ==
    ASSUME Inv, NEW c \in Calls, UNCHANGED <<bidirectional, max>>, EncodeReady(c)
    PROVE  OutStep
  <1>1. /\ state = "encoding_ready" /\ encoder = "control_ready" /\ left = 0 /\ at = 0
        /\ bidirectional /\ out = encoded /\ max \in Nat /\ popped \in Nat
    <2>1. /\ state = "encoding_ready" /\ encoder = "control_ready" /\ left = 0 /\ bidirectional
      BY DEF EncodeReady, Inv, StateInv, EncoderIn, Empty
    <2>2. at = 0 /\ out \in Seq(Cell) /\ out \o Slice(buf, at - left, left) = encoded
      BY <2>1 DEF Inv, OutInv, Loaded
    <2>3. out = encoded
      BY <2>1, <2>2, SliceEmpty
    <2> QED BY <2>1, <2>2, <2>3 DEF Inv, OutInv
  <1>2. PICK o \in Outcomes(0, 0) :
           /\ Encodes(o)
           /\ \/ EncodeFails(c, o, state, out, 0) /\ UNCHANGED inVars
              \/ /\ o.res \notin {"error", "abort"}
                 /\ SendReady(c, o.buf, o.at, o.left, "writing")
    BY <1>1 DEF EncodeReady
  <1>3. dnstap \in Message \cup {NoDnstap}
    BY DEF Inv, CallInv
  <1>4. /\ Loaded(o.buf, size', o.at, o.left, out, encoded') /\ size' <= max
        /\ o.res = "error" => UNCHANGED <<encoder, encoded>> /\ o.left = 0
        /\ \/ /\ encoder' = Encoding(encoder, dnstap).next
              /\ encoded' = encoded \o Encoding(encoder, dnstap).cells
              /\ o.res = Encoding(encoder, dnstap).res
           \/ o.res = "error"
    BY <1>1, <1>2, EncodesLoads
  <1>5. o.res \in {"again", "error"}
    BY <1>1, <1>3, <1>4, EncodingSteps
  <1>6. CASE EncodeFails(c, o, state, out, 0) /\ UNCHANGED inVars
    <2>1. /\ buf' = o.buf /\ at' = o.at /\ left' = o.left /\ out' = out
          /\ popped' \in Nat /\ state' = state /\ res' = "error" /\ o.res = "error"
      BY <1>1, <1>5, <1>6 DEF EncodeFails
    <2>2. OutInv' /\ Len(out') >= Len(out)
      BY <1>1, <1>4, <2>1, KeptLeaves
    <2> QED BY <1>1, <1>4, <1>6, <2>1, <2>2
            DEF OutStep, EncoderStep, StateInv, EncoderIn, Empty, Answering, WriterState
  <1>7. CASE o.res \notin {"error", "abort"} /\ SendReady(c, o.buf, o.at, o.left, "writing")
    <2>1. encoder' = "control_start" /\ EncoderStep
      BY <1>1, <1>3, <1>4, <1>7, EncodingSteps DEF EncoderStep
    <2> QED BY <1>1, <1>4, <1>7, <2>1, SendReadyStep
  <1> QED BY <1>2, <1>6, <1>7

LEMMA WriteReadyStep ==
    ASSUME Inv, NEW c \in Calls, UNCHANGED <<bidirectional, max>>, WriteReady(c)
    PROVE  OutStep
  <1>1. /\ state = "writing_ready" /\ bidirectional /\ encoder' = "control_start"
        /\ EncoderStep /\ SendReady(c, buf, at, left, "writing_ready")
    BY DEF WriteReady, Inv, StateInv, EncoderIn, EncoderStep
  <1>2. Loaded(buf, size', at, left, out, encoded') /\ size' <= max
    BY DEF WriteReady, Inv, OutInv
  <1> QED BY <1>1, <1>2, SendReadyStep

-----------------------------------------------------------------------------
(* START and the frames are given, or wait.                                 *)
LEMMA SendFramesStep ==
    ASSUME Inv, NEW c \in Calls, UNCHANGED <<bidirectional, max, inVars>>,
           NEW b, NEW a, NEW l, NEW returns \in {"again", "ok"},
           Loaded(b, size', a, l, out, encoded'), size' <= max,
           state \in {"encoding", "writing"},
           encoder' \in {"control_start", "frames"}, EncoderStep,
           returns = "ok" => dnstap \in Message /\ encoder = "frames",
           SendFrames(c, b, a, l, returns)
    PROVE  OutStep
  <1>1. l \in Nat /\ max' \in Nat /\ size' <= max' /\ popped \in Nat
    BY DEF Inv, OutInv, Loaded
  <1>2. ASSUME NEW n \in Sends(c, l), Sent(c, b, a, l, n, out),
               state' = (IF n = l THEN "encoding" ELSE "writing"), res' = returns
        PROVE  OutStep
    <2>1. OutInv' /\ left' = l - n /\ n \in Nat /\ Len(out') >= Len(out)
      BY <1>1, <1>2, SendsType, SentLeaves
    <2>2. state' = "encoding" => left' = 0
      BY <1>1, <1>2, <2>1
    <2> QED BY <1>2, <2>1, <2>2 DEF OutStep, StateInv, EncoderIn, Empty, Answering, WriterState
  <1>3. ASSUME NotSent(b, a, l, out), state' = "writing", res' = "error"
        PROVE  OutStep
    <2>1. OutInv' /\ Len(out') >= Len(out)
      BY <1>1, <1>3, KeptLeaves DEF NotSent
    <2> QED BY <1>3, <2>1 DEF OutStep, StateInv, EncoderIn, Empty, Answering, WriterState
  <1> QED BY <1>2, <1>3 DEF SendFrames

LEMMA EncodeFramesStep ==
    ASSUME Inv, NEW c \in Calls, UNCHANGED <<bidirectional, max>>, EncodeFrames(c)
    PROVE  OutStep
  <1>1. /\ state = "encoding" /\ encoder \in {"control_start", "frames", "done"}
        /\ left = 0 /\ at = 0 /\ out = encoded /\ max \in Nat /\ popped \in Nat
    <2>1. state = "encoding" /\ encoder \in {"control_start", "frames", "done"} /\ left = 0
      BY DEF EncodeFrames, Inv, StateInv, EncoderIn, Empty
    <2>2. at = 0 /\ out \in Seq(Cell) /\ out \o Slice(buf, at - left, left) = encoded
      BY <2>1 DEF Inv, OutInv, Loaded
    <2>3. out = encoded
      BY <2>1, <2>2, SliceEmpty
    <2> QED BY <2>1, <2>2, <2>3 DEF Inv, OutInv
  <1>2. UNCHANGED inVars
    BY DEF EncodeFrames
  <1>3. PICK o \in Outcomes(0, 0) :
           /\ Encodes(o)
           /\ \/ EncodeFails(c, o, state, out, 0)
              \/ /\ o.res \notin {"error", "abort"}
                 /\ SendFrames(c, o.buf, o.at, o.left, o.res)
    BY <1>1 DEF EncodeFrames
  <1>4. dnstap \in Message \cup {NoDnstap}
    BY DEF Inv, CallInv
  <1>5. /\ Loaded(o.buf, size', o.at, o.left, out, encoded') /\ size' <= max
        /\ o.res = "error" => UNCHANGED <<encoder, encoded>> /\ o.left = 0
        /\ \/ /\ encoder' = Encoding(encoder, dnstap).next
              /\ encoded' = encoded \o Encoding(encoder, dnstap).cells
              /\ o.res = Encoding(encoder, dnstap).res
           \/ o.res = "error"
    BY <1>1, <1>3, EncodesLoads
  <1>6. o.res \in {"again", "ok", "error"} /\ (o.res = "ok" => dnstap \in Message /\ encoder = "frames")
    BY <1>1, <1>4, <1>5, EncodingSteps
  <1>7. CASE EncodeFails(c, o, state, out, 0)
    <2>1. /\ buf' = o.buf /\ at' = o.at /\ left' = o.left /\ out' = out
          /\ popped' \in Nat /\ state' = state /\ res' = "error" /\ o.res = "error"
      BY <1>1, <1>6, <1>7 DEF EncodeFails
    <2>2. OutInv' /\ Len(out') >= Len(out)
      BY <1>1, <1>5, <2>1, KeptLeaves
    <2> QED BY <1>1, <1>2, <1>5, <2>1, <2>2
            DEF OutStep, EncoderStep, StateInv, EncoderIn, Empty, Answering, WriterState
  <1>8. CASE o.res \notin {"error", "abort"} /\ SendFrames(c, o.buf, o.at, o.left, o.res)
    <2>1. encoder' = "frames" /\ EncoderStep
      BY <1>1, <1>4, <1>5, <1>8, EncodingSteps DEF EncoderStep
    <2> QED BY <1>1, <1>2, <1>5, <1>6, <1>8, <2>1, SendFramesStep
  <1> QED BY <1>3, <1>7, <1>8

LEMMA WriteFramesStep ==
    ASSUME Inv, NEW c \in Calls, UNCHANGED <<bidirectional, max>>, WriteFrames(c)
    PROVE  OutStep
  <1>1. /\ state = "writing" /\ encoder' \in {"control_start", "frames"} /\ UNCHANGED inVars
        /\ EncoderStep /\ SendFrames(c, buf, at, left, "again")
    BY DEF WriteFrames, Inv, StateInv, EncoderIn, EncoderStep
  <1>2. Loaded(buf, size', at, left, out, encoded') /\ size' <= max
    BY DEF WriteFrames, Inv, OutInv
  <1> QED BY <1>1, <1>2, SendFramesStep

-----------------------------------------------------------------------------
(* STOP is given, or waits.                                                 *)
LEMMA SendStopStep ==
    ASSUME Inv, NEW c \in Calls, UNCHANGED <<bidirectional, max, inVars>>,
           NEW b, NEW a, NEW l, NEW sent,
           Loaded(b, size', a, l, sent, encoded'), size' <= max,
           encoder' = "done", EncoderStep, Len(sent) >= Len(out),
           SendStop(c, b, a, l, sent)
    PROVE  OutStep
  <1>1. l \in Nat /\ max' \in Nat /\ size' <= max' /\ popped \in Nat
    BY DEF Inv, OutInv, Loaded
  <1>2. ASSUME NEW n \in Sends(c, l), Sent(c, b, a, l, n, sent)
        PROVE  OutInv' /\ (n = l => left' = 0) /\ Len(out') >= Len(out)
    <2>1. n \in Nat /\ n <= l
      BY <1>1, SendsType
    <2>2. OutInv' /\ left' = l - n /\ Len(out') >= Len(sent)
      BY <1>1, <1>2, <2>1, SentLeaves
    <2>3. Len(out') \in Nat /\ Len(sent) \in Nat /\ Len(out) \in Nat
      <3>1. out' \in Seq(Cell)
        BY <2>2 DEF OutInv, Loaded
      <3>2. sent \in Seq(Cell)
        BY DEF Loaded
      <3>3. out \in Seq(Cell)
        BY DEF Inv, OutInv, Loaded
      <3> QED BY <3>1, <3>2, <3>3
    <2> QED BY <1>1, <2>1, <2>2, <2>3
  <1>3. ASSUME NEW n \in Sends(c, l), Sent(c, b, a, l, n, sent),
               \/ state' = "writing_stop" /\ res' = "again"
               \/ n = l /\ bidirectional /\ state' = "reading_finish" /\ res' = "again"
               \/ n = l /\ ~bidirectional /\ state' = "done" /\ res' = "endofdata"
        PROVE  OutStep
    BY <1>2, <1>3 DEF OutStep, StateInv, EncoderIn, Empty, Answering, WriterState
  <1>4. ASSUME NotSent(b, a, l, sent), state' = "writing_stop", res' = "error"
        PROVE  OutStep
    <2>1. OutInv' /\ out' = sent
      BY <1>1, <1>4, KeptLeaves DEF NotSent
    <2> QED BY <1>4, <2>1 DEF OutStep, StateInv, EncoderIn, Empty, Answering, WriterState
  <1> QED BY <1>3, <1>4 DEF SendStop

LEMMA WriteStopStep ==
    ASSUME Inv, NEW c \in Calls, UNCHANGED <<bidirectional, max>>, WriteStop(c)
    PROVE  OutStep
  <1>1. /\ state = "writing_stop" /\ encoder' = "done" /\ UNCHANGED inVars
        /\ EncoderStep /\ SendStop(c, buf, at, left, out)
    BY DEF WriteStop, Inv, StateInv, EncoderIn, EncoderStep
  <1>2. Loaded(buf, size', at, left, out, encoded') /\ size' <= max
    BY DEF WriteStop, Inv, OutInv
  <1>3. Len(out) \in Nat
    BY DEF Inv, OutInv, Loaded
  <1> QED BY <1>1, <1>2, <1>3, SendStopStep

(* STOP is encoded when all that comes before it is given.                  *)
LEMMA EncodeStopStep ==
    ASSUME Inv, NEW c \in Calls, UNCHANGED <<bidirectional, max, inVars>>,
           state \in {"stopping", "encoding_stop"}, NEW n \in Nat, NEW given, given = encoded,
           c.api = "pop" => out = given, Len(given) >= Len(out),
           EncodeStop(c, 0, 0, given, n)
    PROVE  OutStep
  <1>1. encoder = "control_stop" /\ dnstap \in Message \cup {NoDnstap}
        /\ max \in Nat /\ popped \in Nat
    BY DEF Inv, StateInv, EncoderIn, CallInv, OutInv
  <1>2. PICK o \in Outcomes(0, 0) :
           /\ Encodes(o)
           /\ \/ EncodeFails(c, o, "encoding_stop", given, n)
              \/ o.res = "endofdata" /\ SendStop(c, o.buf, o.at, o.left, given)
    BY DEF EncodeStop
  <1>3. /\ Loaded(o.buf, size', o.at, o.left, given, encoded') /\ size' <= max
        /\ o.res = "error" => UNCHANGED <<encoder, encoded>> /\ o.left = 0
        /\ \/ /\ encoder' = Encoding(encoder, dnstap).next
              /\ encoded' = encoded \o Encoding(encoder, dnstap).cells
              /\ o.res = Encoding(encoder, dnstap).res
           \/ o.res = "error"
    BY <1>2, EncodesLoads
  <1>4. o.res \in {"endofdata", "error"}
    BY <1>1, <1>3, EncodingSteps
  <1>5. CASE EncodeFails(c, o, "encoding_stop", given, n)
    <2>1. /\ buf' = o.buf /\ at' = o.at /\ left' = o.left /\ out' = given
          /\ popped' \in Nat /\ state' = "encoding_stop" /\ res' = "error" /\ o.res = "error"
      BY <1>1, <1>4, <1>5 DEF EncodeFails
    <2>2. OutInv' /\ Len(out') >= Len(out)
      BY <1>1, <1>3, <2>1, KeptLeaves
    <2> QED BY <1>1, <1>3, <2>1, <2>2
            DEF OutStep, EncoderStep, StateInv, EncoderIn, Empty, Answering, WriterState
  <1>6. CASE o.res = "endofdata" /\ SendStop(c, o.buf, o.at, o.left, given)
    <2>1. encoder' = "done" /\ EncoderStep
      BY <1>1, <1>3, <1>6, EncodingSteps DEF EncoderStep
    <2> QED BY <1>3, <1>6, <2>1, SendStopStep
  <1> QED BY <1>2, <1>5, <1>6

LEMMA EncodingStopStep ==
    ASSUME Inv, NEW c \in Calls, UNCHANGED <<bidirectional, max>>, EncodingStop(c)
    PROVE  OutStep
  <1>1. /\ state = "encoding_stop" /\ left = 0 /\ UNCHANGED inVars
        /\ EncodeStop(c, at, left, out, 0)
    BY DEF EncodingStop, Inv, StateInv, Empty
  <1>2. at = 0 /\ out \in Seq(Cell) /\ out \o Slice(buf, at - left, left) = encoded
    BY <1>1 DEF Inv, OutInv, Loaded
  <1>3. out = encoded /\ Len(out) \in Nat
    BY <1>1, <1>2, SliceEmpty
  <1> QED BY <1>1, <1>2, <1>3, EncodeStopStep

LEMMA StoppingStep ==
    ASSUME Inv, NEW c \in Calls, UNCHANGED <<bidirectional, max>>, Stopping(c),
           c.api = "pop" => left = 0 \/ c.len < left
    PROVE  OutStep
  <1>1. state = "stopping" /\ encoder = "control_stop" /\ UNCHANGED inVars
    BY DEF Stopping, Inv, StateInv, EncoderIn
  <1>2. /\ left \in Nat /\ max \in Nat /\ size <= max /\ popped \in Nat
        /\ Loaded(buf, size, at, left, out, encoded)
    BY DEF Inv, OutInv, Loaded
  <1>3. CASE left = 0 /\ EncodeStop(c, at, 0, out, 0)
    <2>1. at = 0 /\ out \in Seq(Cell) /\ out \o Slice(buf, at - left, left) = encoded
      BY <1>2, <1>3 DEF Loaded
    <2>2. out = encoded /\ Len(out) \in Nat
      BY <1>3, <2>1, SliceEmpty
    <2> QED BY <1>1, <1>3, <2>1, <2>2, EncodeStopStep
  <1>4. ASSUME NEW n \in Sends(c, left), Sent(c, buf, at, left, n, out),
               state' = "stopping", res' = "again", UNCHANGED <<encoder, size, encoded>>
        PROVE  OutStep
    <2>1. n \in Nat /\ n <= left
      BY <1>2, SendsType
    <2>2. Loaded(buf, size', at, left, out, encoded') /\ max' \in Nat /\ size' <= max'
      BY <1>2, <1>4
    <2>3. OutInv' /\ Len(out') >= Len(out)
      BY <1>2, <1>4, <2>1, <2>2, SentLeaves
    <2> QED BY <1>1, <1>4, <2>3
            DEF OutStep, EncoderStep, StateInv, EncoderIn, Empty, Answering, WriterState
  <1>5. ASSUME NEW n \in Sends(c, left), n = left, left > 0,
               EncodeStop(c, 0, 0, out \o Slice(buf, at - left, n), n)
        PROVE  OutStep
    <2>1. c.api # "pop"
      BY <1>2, <1>5 DEF Sends, LeastOf, Calls
    <2>2. out \o Slice(buf, at - left, n) = encoded
      BY <1>2, <1>5 DEF Loaded
    <2>3. n \in Nat
      BY <1>2, <1>5
    <2>4. Len(encoded) >= Len(out)
      <3> DEFINE w == Slice(buf, at - left, left)
      <3>1. out \in Seq(Cell) /\ out \o w = encoded /\ w \in Seq(Cell)
        <4>1. at - left \in Int
          BY <1>2 DEF Loaded
        <4> QED BY <1>2, <4>1, SliceType DEF Loaded
      <3> HIDE DEF w
      <3> QED BY <3>1
    <2> QED BY <1>1, <1>5, <2>1, <2>2, <2>3, <2>4, EncodeStopStep
  <1>6. ASSUME NotSent(buf, at, left, out), res' = "error",
               UNCHANGED <<state, encoder, size, encoded>>
        PROVE  OutStep
    <2>1. OutInv' /\ Len(out') >= Len(out)
      BY <1>2, <1>6, KeptLeaves DEF NotSent
    <2> QED BY <1>1, <1>6, <2>1
            DEF OutStep, EncoderStep, StateInv, EncoderIn, Empty, Answering, WriterState
  <1> QED BY <1>3, <1>4, <1>5, <1>6 DEF Stopping

LEMMA DoneStep ==
    ASSUME Inv, NEW c \in Calls, UNCHANGED <<bidirectional, max>>, Done(c)
    PROVE  OutStep
  <1>1. /\ state = "done" /\ encoder = "done" /\ left = 0 /\ max \in Nat /\ popped \in Nat
        /\ Loaded(buf, size, at, left, out, encoded) /\ size <= max
    BY DEF Done, Inv, StateInv, EncoderIn, Empty, OutInv
  <1>2. /\ state' = "done" /\ res' = "error" /\ popped' \in Nat
        /\ UNCHANGED <<encoder, buf, size, at, left, out, encoded, inVars>>
    BY <1>1 DEF Done
  <1>3. OutInv' /\ Len(out') >= Len(out)
    <2>1. Len(out) \in Nat
      BY <1>1 DEF Loaded
    <2> QED BY <1>1, <1>2, <2>1 DEF OutInv
  <1> QED BY <1>1, <1>2, <1>3
          DEF OutStep, EncoderStep, StateInv, EncoderIn, Empty, Answering, WriterState

-----------------------------------------------------------------------------
(***************************************************************************)
(* Taking in the answer.                                                   *)
(***************************************************************************)
(* FINISH starts at the k-th cell that was sent, and ends within the first  *)
(* t.                                                                       *)
FinishAt(k, t) ==
    /\ k \in Nat /\ k > 0 /\ k + HeaderLen <= t + 1
    /\ input[k][1].kind = "control" /\ input[k][1].what = "FINISH" /\ input[k][2] = 1

(* What going through a piece of the answer leads to.                       *)
Answered ==
    /\ InInv'
    /\ state' \in Answering \cup {"encoding", "done"}
    /\ state' \in {"reading_finish", "decoding_finish", "done"} => encoder = "done"
    /\ decoder.accept_support_dnstap_protobuf => decoder'.accept_support_dnstap_protobuf
    /\ decoder.state \in AcceptOver => decoder'.state \in AcceptOver
    /\ state' = "encoding" =>
          decoder'.state \in AcceptOver /\ decoder'.accept_support_dnstap_protobuf
    /\ state' = "done" /\ decoder.state \in AcceptOver => \E k \in Nat : FinishAt(k, taken')
    /\ res' \in {"again", "error", "need_more", "endofdata", "abort"}
    /\ res' = "abort" => Refused'
    /\ res' = "endofdata" => state' = "done"

(* Taking an element out leaves what followed it.                           *)
LEMMA ConsumeKeepsAnswer ==
    ASSUME NEW rb, NEW l, NEW n \in 1..l, Filling(rb, read_size, read_at, l, taken'),
           Consume(rb, l, n)
    PROVE  /\ Filling(read_buf', read_size', read_at', read_left', taken')
           /\ read_buf' = rb /\ read_left' = l - n
  <1>1. /\ read_at \in Nat /\ l \in Nat /\ read_at + l <= read_size /\ read_size \in Nat
        /\ taken' \in Nat /\ l <= taken'
        /\ \A i \in 1..l : rb[read_at + i] = input[(taken' - l) + i]
    BY DEF Filling, Holds
  <1>2. /\ read_buf' = rb /\ read_left' = l - n /\ read_size' = read_size
        /\ read_at' = IF l = n THEN 0 ELSE read_at + n
    BY DEF Consume
  <1>3. Holds(rb, read_at', read_left', taken')
    <2>1. ASSUME NEW i \in 1..(l - n)
          PROVE  rb[read_at' + i] = input[(taken' - read_left') + i]
      <3>1. n + i \in 1..l /\ l # n
        BY <1>1
      <3>2. /\ read_at' + i = read_at + (n + i)
            /\ (taken' - read_left') + i = (taken' - l) + (n + i)
        BY <1>1, <1>2, <3>1
      <3> QED BY <1>1, <3>1, <3>2
    <2> QED BY <1>1, <1>2, <2>1 DEF Holds
  <1>4. read_at' \in Nat /\ read_left' \in Nat /\ read_at' + read_left' <= read_size'
    BY <1>1, <1>2
  <1> QED BY <1>2, <1>3, <1>4 DEF Filling

(* Making room for more of the answer keeps what is there, moved to the      *)
(* start or in a larger block.                                              *)
LEMMA NeedMoreKeepsAnswer ==
    ASSUME NoWrap, NEW rb, NEW l \in Nat \ {0}, NEW decoding,
           Filling(rb, read_size, read_at, l, taken'), rb # <<>>,
           NeedMore(rb, l, decoding)
    PROVE  /\ Filling(read_buf', read_size', read_at', read_left', taken')
           /\ read_buf' # <<>> /\ read_left' = l
           /\ \/ state' = "reading_accept" /\ res' = "need_more"
              \/ state' = decoding /\ res' = "error"
  <1>1. /\ read_at \in Nat /\ read_at + l <= read_size /\ read_size \in Nat
        /\ read_size > 0 /\ read_size <= ReadMax
        /\ taken' \in Nat /\ taken' <= Len(input) /\ l <= taken'
        /\ rb \in Seq(Cell) /\ Len(rb) = read_size
    BY DEF Filling, Holds
  <1>2. \A i \in 1..l : rb[read_at + i] = input[(taken' - l) + i]
    BY DEF Filling, Holds
  <1>3. ASSUME NEW b \in Seq(Cell), NEW z \in Nat, NEW a \in Nat, Len(b) = z, z > 0,
               z <= ReadMax, a + l <= z, \A i \in 1..l : b[a + i] = rb[read_at + i]
        PROVE  Filling(b, z, a, l, taken') /\ b # <<>>
    <2>1. b # <<>>
      BY <1>3
    <2>2. \A i \in 1..l : b[a + i] = input[(taken' - l) + i]
      BY <1>2, <1>3
    <2>3. Holds(b, a, l, taken')
      BY <1>1, <2>2 DEF Holds
    <2> QED BY <1>1, <1>3, <2>1, <2>3 DEF Filling
  <1>4. ASSUME l < read_size, read_at' = 0, read_left' = l, read_size' = read_size,
               read_buf' = IF read_at > 0 THEN MoveToStart(rb, read_at, l) ELSE rb
        PROVE  Filling(read_buf', read_size', read_at', read_left', taken') /\ read_buf' # <<>>
    <2>1. /\ MoveToStart(rb, read_at, l) \in Seq(Cell)
          /\ Len(MoveToStart(rb, read_at, l)) = read_size
          /\ \A i \in 1..l : MoveToStart(rb, read_at, l)[i] = rb[read_at + i]
      BY <1>1, MoveToStartType
    <2>2. /\ read_buf' \in Seq(Cell) /\ Len(read_buf') = read_size
          /\ \A i \in 1..l : read_buf'[0 + i] = rb[read_at + i]
      <3>1. CASE read_at > 0
        <4>1. read_buf' = MoveToStart(rb, read_at, l)
          BY <1>4, <3>1
        <4>2. \A i \in 1..l : 0 + i = i
          BY <1>1
        <4> QED BY <2>1, <4>1, <4>2
      <3>2. CASE read_at = 0
        BY <1>1, <1>4, <3>2
      <3> QED BY <1>1, <3>1, <3>2
    <2> QED BY <1>1, <1>3, <1>4, <2>2
  <1>5. ASSUME l >= read_size, read_size < ReadMax,
               read_size' = Expanded(read_size, ReadInc, ReadMax),
               read_buf' = Realloc(rb, read_size'), read_left' = l, read_at' = read_at
        PROVE  Filling(read_buf', read_size', read_at', read_left', taken') /\ read_buf' # <<>>
    <2>1. read_size' \in Nat /\ read_size < read_size' /\ read_size' <= ReadMax
      <3>1. ReadInc \in Nat \ {0} /\ ReadMax \in Nat /\ read_size + ReadInc < SizeMod
        BY <1>1, <1>5, SizeAssumption, SizeModAssumption DEF NoWrap
      <3> QED BY <1>1, <1>5, <3>1, ExpandedType
    <2>2. /\ read_buf' \in Seq(Cell) /\ Len(read_buf') = read_size'
          /\ \A i \in 1..read_size' : i <= Len(rb) => read_buf'[i] = rb[i]
      BY <1>1, <1>5, <2>1, ReallocType
    <2>3. \A i \in 1..l : read_at + i \in 1..read_size' /\ read_at + i <= Len(rb)
      BY <1>1, <2>1
    <2>4. \A i \in 1..l : read_buf'[read_at + i] = rb[read_at + i]
      BY <2>2, <2>3
    <2> QED BY <1>1, <1>3, <1>5, <2>1, <2>2, <2>4
  <1>6. ASSUME Keep(rb, l)
        PROVE  Filling(read_buf', read_size', read_at', read_left', taken') /\ read_buf' # <<>>
    BY <1>6 DEF Keep
  <1> QED BY <1>4, <1>5, <1>6 DEF NeedMore, Keep

(* The decoder after a piece of the answer.                                 *)
LEMMA AnswerDecodes ==
    ASSUME Inv, NEW rb, NEW l \in Nat \ {0}, Filling(rb, read_size, read_at, l, taken'),
           rb # <<>>, taken' >= taken, NEW r, r = Decode(decoder, Slice(rb, read_at, l))
    PROVE  /\ r.decoder \in DecoderType /\ AcceptNoted(r.decoder)
           /\ r.res \in DecodeResult
           /\ r.res \in Consuming => r.n \in 1..l
           /\ decoder.accept_support_dnstap_protobuf => r.decoder.accept_support_dnstap_protobuf
           /\ decoder.state \in AcceptOver => r.decoder.state \in AcceptOver
           /\ r.res = "bidirectional" => r.decoder.state \in {"reading_start", "checking_finish"}
           /\ r.res = "endofdata" /\ decoder.state \in AcceptOver => \E k \in Nat : FinishAt(k, taken')
           /\ r.decoder.accept_support_dnstap_protobuf =>
                 \E i \in 1..taken' : input[i][1].kind = "field" /\ input[i][2] = FieldLen
  <1>1. /\ read_at \in Nat /\ read_at + l <= read_size /\ read_size \in Nat
        /\ taken' \in Nat /\ l <= taken' /\ rb \in Seq(Cell) /\ Len(rb) = read_size
        /\ \A i \in 1..l : rb[read_at + i] = input[(taken' - l) + i]
    BY DEF Filling, Holds
  <1> DEFINE w == Slice(rb, read_at, l)
  <1>2. /\ w \in Seq(Cell) /\ Len(w) = l
        /\ \A i \in 1..l : read_at + i \in 1..Len(rb) => w[i] = rb[read_at + i]
    <2>1. read_at \in Int /\ l \in Nat
      BY <1>1
    <2> QED BY <1>1, <2>1, SliceType
  <1>3. w # <<>> /\ r = Decode(decoder, w) /\ decoder \in DecoderType /\ AcceptNoted(decoder)
    BY <1>2 DEF Inv, InInv
  <1>4. \A i \in 1..l : w[i] = input[(taken' - l) + i]
    <2>1. \A i \in 1..l : read_at + i \in 1..Len(rb)
      BY <1>1
    <2> QED BY <1>1, <1>2, <2>1
  <1> HIDE DEF w
  <1>5. /\ r.decoder \in DecoderType /\ r.res \in DecodeResult
        /\ r.res \in Consuming => r.n \in 1..l
    BY <1>2, <1>3, DecodeType
  <1>6. /\ AcceptNoted(r.decoder)
        /\ decoder.accept_support_dnstap_protobuf => r.decoder.accept_support_dnstap_protobuf
        /\ r.res = "bidirectional" => r.decoder.state \in {"reading_start", "checking_finish"}
        /\ decoder.state \in AcceptOver => r.decoder.state \in AcceptOver
    BY <1>2, <1>3, DecodeHandshake
  <1>7. ASSUME r.res = "endofdata", decoder.state \in AcceptOver
        PROVE  \E k \in Nat : FinishAt(k, taken')
    <2>1. /\ HeaderLen <= l
          /\ w[1][1].kind = "control" /\ w[1][1].what = "FINISH" /\ w[1][2] = 1
      BY <1>2, <1>3, <1>7, DecodeFinish
    <2> DEFINE k == (taken' - l) + 1
    <2>2. k \in Nat /\ k > 0 /\ k + HeaderLen <= taken' + 1
      <3>1. taken' \in Nat /\ l \in Nat /\ l <= taken' /\ HeaderLen \in Nat /\ HeaderLen <= l
        BY <1>1, <2>1, LengthAssumption
      <3>2. \A a, b, c \in Nat : c <= b /\ b <= a =>
               (a - b) + 1 \in Nat /\ (a - b) + 1 > 0 /\ ((a - b) + 1) + c <= a + 1
        OBVIOUS
      <3> QED BY <3>1, <3>2
    <2>3. input[k] = w[1]
      <3>1. 1 \in 1..l
        OBVIOUS
      <3> QED BY <1>4, <3>1
    <2> HIDE DEF k
    <2> QED BY <2>1, <2>2, <2>3 DEF FinishAt
  <1>8. ASSUME r.decoder.accept_support_dnstap_protobuf
        PROVE  \E i \in 1..taken' : input[i][1].kind = "field" /\ input[i][2] = FieldLen
    <2>1. CASE decoder.accept_support_dnstap_protobuf
      <3>1. taken \in Nat
        BY DEF Inv, InInv, Filling
      <3>2. \A i \in 1..taken : i \in 1..taken'
        BY <1>1, <3>1
      <3> QED BY <2>1, <3>2 DEF Inv, InInv
    <2>2. CASE ~decoder.accept_support_dnstap_protobuf
      <3>1. /\ FieldLen \in 1..l
            /\ w[FieldLen][1].kind = "field" /\ w[FieldLen][2] = FieldLen
        BY <1>2, <1>3, <1>8, <2>2, DecodeOffer
      <3> DEFINE i == (taken' - l) + FieldLen
      <3>2. i \in 1..taken'
        BY <1>1, <3>1
      <3>3. input[i] = w[FieldLen]
        BY <1>4, <3>1
      <3> HIDE DEF i
      <3> QED BY <3>1, <3>2, <3>3
    <2> QED BY <2>1, <2>2
  <1> QED BY <1>5, <1>6, <1>7, <1>8

(* ACCEPT is awaited.                                                       *)
LEMMA DecodingAcceptStep ==
    ASSUME NoWrap, Inv, NEW rb, NEW l \in Nat, UNCHANGED <<input, bidirectional>>,
           Filling(rb, read_size, read_at, l, taken'), rb # <<>>,
           l = 0 => Refused, taken' >= taken,
           DecodingAccept(rb, l)
    PROVE  Answered
  <1>1. /\ input \in Seq(Cell) /\ decoder \in DecoderType /\ AcceptNoted(decoder)
        /\ decoder.accept_support_dnstap_protobuf =>
              \E i \in 1..taken' : input[i][1].kind = "field" /\ input[i][2] = FieldLen
    <2>1. taken \in Nat /\ taken' \in Nat
      BY DEF Inv, InInv, Filling
    <2>2. \A i \in 1..taken : i \in 1..taken'
      BY <2>1
    <2> QED BY <2>2 DEF Inv, InInv
  <1>2. CASE l = 0 /\ Abort(rb, l, "decoding_accept")
    <2>1. /\ state' = "decoding_accept" /\ res' = "abort" /\ decoder' = decoder /\ Refused
          /\ read_buf' = rb /\ read_left' = l /\ read_size' = read_size /\ read_at' = read_at
      BY <1>2 DEF Abort, Keep
    <2> QED BY <1>1, <2>1 DEF Answered, InInv, Refused, Answering, Filling, Holds
  <1>3. CASE l > 0
    <2>1. PICK r \in {Decode(decoder, Slice(rb, read_at, l))} :
             /\ decoder' = r.decoder
             /\ \/ /\ r.res = "bidirectional"
                   /\ Consume(rb, l, r.n)
                   /\ IF Accepted(r)
                      THEN state' = "encoding" /\ res' = "again"
                      ELSE state' = "decoding_accept" /\ res' = "error"
                \/ /\ r.res = "again"
                   /\ Consume(rb, l, r.n)
                   /\ state' = IF l = r.n THEN "reading_accept" ELSE "decoding_accept"
                   /\ res' = "again"
                \/ /\ r.res = "need_more"
                   /\ NeedMore(rb, l, "decoding_accept")
                \/ /\ r.res \in {"error", "have_dnstap", "endofdata"}
                   /\ Keep(rb, l)
                   /\ state' = "decoding_accept"
                   /\ res' = "error"
      BY <1>3 DEF DecodingAccept
    <2>2. /\ r.decoder \in DecoderType /\ AcceptNoted(r.decoder)
          /\ r.res \in Consuming => r.n \in 1..l
          /\ decoder.accept_support_dnstap_protobuf => r.decoder.accept_support_dnstap_protobuf
          /\ decoder.state \in AcceptOver => r.decoder.state \in AcceptOver
          /\ r.res = "bidirectional" => r.decoder.state \in {"reading_start", "checking_finish"}
          /\ r.decoder.accept_support_dnstap_protobuf =>
                \E i \in 1..taken' : input[i][1].kind = "field" /\ input[i][2] = FieldLen
      <3>1. l \in Nat \ {0}
        BY <1>3
      <3> QED BY <2>1, <3>1, AnswerDecodes
    <2>3. ASSUME Filling(read_buf', read_size', read_at', read_left', taken'), read_buf' # <<>>,
                 state' \in {"reading_accept", "decoding_accept", "encoding"},
                 state' = "decoding_accept" /\ read_left' = 0 => Refused',
                 state' = "encoding" =>
                    decoder'.state \in AcceptOver /\ decoder'.accept_support_dnstap_protobuf,
                 res' \in {"again", "error", "need_more"}
          PROVE  Answered
      BY <1>1, <2>1, <2>2, <2>3 DEF Answered, InInv, Answering, Filling, Holds
    <2>4. CASE r.res \in {"bidirectional", "again"} /\ Consume(rb, l, r.n)
      <3>1. r.n \in 1..l
        BY <2>2, <2>4 DEF Consuming
      <3>2. /\ Filling(read_buf', read_size', read_at', read_left', taken')
            /\ read_buf' = rb /\ read_left' = l - r.n
        BY <2>4, <3>1, ConsumeKeepsAnswer
      <3>3. CASE r.res = "bidirectional" /\ Accepted(r) /\ state' = "encoding" /\ res' = "again"
        <4>1. decoder'.accept_support_dnstap_protobuf /\ decoder'.state = "checking_finish"
          BY <2>1, <2>2, <3>3 DEF Accepted, AcceptNoted
        <4> QED BY <2>3, <3>2, <3>3, <4>1 DEF AcceptOver
      <3>4. CASE /\ r.res = "bidirectional" /\ ~Accepted(r)
                 /\ state' = "decoding_accept" /\ res' = "error"
        <4>1. Refused'
          BY <2>1, <2>2, <3>4 DEF Accepted, Refused
        <4> QED BY <2>3, <3>2, <3>4, <4>1
      <3>5. CASE /\ r.res = "again" /\ res' = "again"
                 /\ state' = IF l = r.n THEN "reading_accept" ELSE "decoding_accept"
        <4>1. state' = "decoding_accept" => read_left' # 0
          BY <3>1, <3>2, <3>5
        <4> QED BY <2>3, <3>2, <3>5, <4>1
      <3> QED BY <2>1, <2>4, <3>3, <3>4, <3>5
    <2>5. CASE NeedMore(rb, l, "decoding_accept")
      <3>1. l \in Nat \ {0}
        BY <1>3
      <3>2. /\ Filling(read_buf', read_size', read_at', read_left', taken')
            /\ read_buf' # <<>> /\ read_left' = l
            /\ \/ state' = "reading_accept" /\ res' = "need_more"
               \/ state' = "decoding_accept" /\ res' = "error"
        BY <2>5, <3>1, NeedMoreKeepsAnswer
      <3> QED BY <2>3, <3>1, <3>2
    <2>6. CASE Keep(rb, l) /\ state' = "decoding_accept" /\ res' = "error"
      <3>1. /\ read_buf' = rb /\ read_left' = l /\ read_size' = read_size /\ read_at' = read_at
        BY <2>6 DEF Keep
      <3> QED BY <1>3, <2>3, <2>6, <3>1
    <2> QED BY <2>1, <2>4, <2>5, <2>6
  <1> QED BY <1>2, <1>3 DEF DecodingAccept

(* FINISH is awaited.                                                       *)
LEMMA DecodingFinishStep ==
    ASSUME NoWrap, Inv, NEW rb, NEW l \in Nat \ {0}, UNCHANGED <<input, bidirectional>>,
           Filling(rb, read_size, read_at, l, taken'), rb # <<>>, encoder = "done",
           taken' >= taken, DecodingFinish(rb, l)
    PROVE  Answered
  <1>1. input \in Seq(Cell) /\ l > 0
    BY DEF Inv, InInv, Filling, Holds
  <1>2. PICK r \in {Decode(decoder, Slice(rb, read_at, l))} :
           /\ decoder' = r.decoder
           /\ \/ /\ r.res = "endofdata"
                 /\ Keep(rb, l)
                 /\ state' = "done"
                 /\ res' = "endofdata"
              \/ /\ r.res = "need_more"
                 /\ NeedMore(rb, l, "decoding_finish")
              \/ /\ r.res \in {"error", "again", "have_dnstap", "bidirectional"}
                 /\ Keep(rb, l)
                 /\ state' = "decoding_finish"
                 /\ res' = "error"
    BY <1>1 DEF DecodingFinish
  <1>3. /\ r.decoder \in DecoderType /\ AcceptNoted(r.decoder)
        /\ decoder.accept_support_dnstap_protobuf => r.decoder.accept_support_dnstap_protobuf
        /\ decoder.state \in AcceptOver => r.decoder.state \in AcceptOver
        /\ r.res = "endofdata" /\ decoder.state \in AcceptOver => \E k \in Nat : FinishAt(k, taken')
        /\ r.decoder.accept_support_dnstap_protobuf =>
              \E i \in 1..taken' : input[i][1].kind = "field" /\ input[i][2] = FieldLen
    BY <1>2, AnswerDecodes
  <1>4. ASSUME Filling(read_buf', read_size', read_at', read_left', taken'), read_buf' # <<>>,
               read_left' = l,
               \/ state' = "done" /\ res' = "endofdata" /\ r.res = "endofdata"
               \/ state' = "reading_accept" /\ res' = "need_more"
               \/ state' = "decoding_finish" /\ res' = "error"
        PROVE  Answered
    BY <1>1, <1>2, <1>3, <1>4 DEF Answered, InInv, Answering, Filling, Holds
  <1>5. CASE NeedMore(rb, l, "decoding_finish")
    <2>1. /\ Filling(read_buf', read_size', read_at', read_left', taken')
          /\ read_buf' # <<>> /\ read_left' = l
          /\ \/ state' = "reading_accept" /\ res' = "need_more"
             \/ state' = "decoding_finish" /\ res' = "error"
      BY <1>5, NeedMoreKeepsAnswer
    <2> QED BY <1>4, <2>1
  <1>6. CASE /\ Keep(rb, l)
             /\ \/ r.res = "endofdata" /\ state' = "done" /\ res' = "endofdata"
                \/ state' = "decoding_finish" /\ res' = "error"
    <2>1. /\ read_buf' = rb /\ read_left' = l /\ read_size' = read_size /\ read_at' = read_at
      BY <1>6 DEF Keep
    <2> QED BY <1>4, <1>6, <2>1
  <1> QED BY <1>2, <1>5, <1>6

(* What read(2) brings is put behind what is in the block.                  *)
LEMMA FilledHolds ==
    ASSUME Inv, read_buf # <<>>, NEW n \in Nat, n <= Space, n <= Available, taken' = taken + n
    PROVE  Filling(Filled(n), read_size, read_at, read_left + n, taken') /\ Filled(n) # <<>>
  <1>1. /\ read_at \in Nat /\ read_left \in Nat /\ read_at + read_left <= read_size
        /\ read_size \in Nat /\ read_size > 0 /\ read_size <= ReadMax
        /\ taken \in Nat /\ read_left <= taken
        /\ read_buf \in Seq(Cell) /\ Len(read_buf) = read_size /\ input \in Seq(Cell)
        /\ \A i \in 1..read_left : read_buf[read_at + i] = input[(taken - read_left) + i]
    BY DEF Inv, InInv, Filling, Holds
  <1>2. /\ read_at + (read_left + n) <= read_size
        /\ taken + n <= Len(input) /\ Len(input) \in Nat
        /\ read_left + n \in Nat /\ taken + n \in Nat /\ read_left + n <= taken + n
    BY <1>1 DEF Space, Available
  <1> DEFINE p == read_at + read_left
             s == Slice(input, taken, n)
             rb == Overlay(read_buf, p, s)
  <1>3. /\ s \in Seq(Cell) /\ Len(s) = n
        /\ \A i \in 1..n : s[i] = input[taken + i]
    <2>1. \A i \in 1..n : taken + i \in 1..Len(input)
      BY <1>1, <1>2
    <2>2. taken \in Int
      BY <1>1
    <2> QED BY <1>1, <2>1, <2>2, SliceType
  <1> HIDE DEF s
  <1>4. p \in Int
    BY <1>1
  <1>5. /\ rb \in Seq(Cell) /\ Len(rb) = read_size
        /\ \A i \in 1..read_size :
              rb[i] = IF i - p \in 1..n THEN s[i - p] ELSE read_buf[i]
    BY SMTT(30), <1>1, <1>3, <1>4, OverlayType
  <1> HIDE DEF rb
  <1>6. ASSUME NEW i \in 1..(read_left + n)
        PROVE  rb[read_at + i] = input[((taken + n) - (read_left + n)) + i]
    <2>1. read_at + i \in 1..read_size /\ (taken + n) - (read_left + n) = taken - read_left
      BY <1>1, <1>2
    <2>2. CASE i <= read_left
      <3>1. (read_at + i) - p \notin 1..n /\ i \in 1..read_left
        BY <1>1, <2>2
      <3> QED BY <1>1, <1>5, <2>1, <3>1
    <2>3. CASE i > read_left
      <3>1. /\ (read_at + i) - p = i - read_left /\ i - read_left \in 1..n
            /\ taken + (i - read_left) = (taken - read_left) + i
        BY <1>1, <2>3
      <3>2. rb[read_at + i] = s[i - read_left]
        BY <1>5, <2>1, <3>1
      <3> QED BY <1>3, <2>1, <3>1, <3>2
    <2> QED BY <1>1, <2>2, <2>3
  <1>7. Filled(n) = rb
    BY DEF Filled, rb, s
  <1>8. Holds(rb, read_at, read_left + n, taken + n)
    BY <1>2, <1>6 DEF Holds
  <1>9. rb # <<>>
    BY <1>1, <1>5
  <1> QED BY <1>1, <1>2, <1>5, <1>7, <1>8, <1>9 DEF Filling

(* A call that takes in or goes through the answer.                         *)
InStep ==
    /\ state \in Answering
    /\ Answered
    /\ popped' \in Nat
    /\ UNCHANGED <<encoder, buf, size, at, left, out, encoded>>

LEMMA ReadAnswerStep ==
    ASSUME NoWrap, Inv, NEW c \in Calls, NEW answer \in {"accept", "finish"},
           UNCHANGED <<input, bidirectional, max>>, ReadAnswer(answer, c)
    PROVE  OutStep \/ InStep
  <1>1. /\ state = Reading(answer) /\ state \in {"reading_accept", "reading_finish"}
        /\ state = "reading_accept" <=> answer = "accept"
        /\ UNCHANGED <<encoder, buf, size, at, out, encoded>>
        /\ popped \in Nat /\ left \in Nat /\ max \in Nat /\ c.inlen = 0
    BY DEF ReadAnswer, Reading, Inv, OutInv, Loaded, Calls
  <1>2. /\ bidirectional /\ read_buf # <<>> /\ left = 0
        /\ encoder \in EncoderIn(state)
    BY <1>1 DEF Inv, StateInv, InInv, Answering, Empty
  <1>3. ASSUME state' = state, res' \in {"need_more", "error"}, left' = left, popped' \in Nat,
               UNCHANGED inVars
        PROVE  OutStep
    <2>1. OutInv' /\ Len(out') >= Len(out)
      BY <1>1, <1>3 DEF Inv, OutInv, Loaded
    <2> QED BY <1>1, <1>2, <1>3, <2>1
            DEF OutStep, EncoderStep, StateInv, EncoderIn, Empty, Answering, WriterState
  <1>4. CASE c.api = "pop" /\ PopReads(answer, c, left) /\ popped' = 0
    BY <1>1, <1>3, <1>4 DEF PopReads
  <1>5. CASE c.api = "write" /\ WriteReads(answer) /\ UNCHANGED <<left, popped>>
    <2>1. CASE res' = "error" /\ UNCHANGED <<state, inVars>>
      BY <1>1, <1>3, <1>5, <2>1
    <2>2. ASSUME NEW n \in 1..LeastOf(Space, Available), taken' = taken + n,
                 DecodingAnswer(answer, Filled(n), read_left + n)
          PROVE  InStep
      <3>1. Space \in Int /\ Available \in Int /\ read_left \in Nat
        BY DEF Inv, InInv, Filling, Space, Available
      <3>2. /\ n \in Nat /\ n <= Space /\ n <= Available /\ taken' >= taken
            /\ read_left + n \in Nat \ {0} /\ read_left + n \in Nat
            /\ read_left + n # 0
        BY <2>2, <3>1 DEF Inv, InInv, Filling, LeastOf
      <3>3. Filling(Filled(n), read_size, read_at, read_left + n, taken') /\ Filled(n) # <<>>
        BY <1>2, <2>2, <3>2, FilledHolds
      <3>4. CASE answer = "accept"
        <4>1. DecodingAccept(Filled(n), read_left + n)
          BY <2>2, <3>4 DEF DecodingAnswer
        <4>2. Answered
          BY <3>2, <3>3, <4>1, DecodingAcceptStep
        <4> QED BY <1>1, <1>5, <4>2 DEF InStep, Answering
      <3>5. CASE answer = "finish"
        <4>1. DecodingFinish(Filled(n), read_left + n) /\ encoder = "done"
          BY <1>1, <1>2, <2>2, <3>5 DEF DecodingAnswer, EncoderIn
        <4>2. Answered
          BY <3>2, <3>3, <4>1, DecodingFinishStep
        <4> QED BY <1>1, <1>5, <4>2 DEF InStep, Answering
      <3> QED BY <3>4, <3>5
    <2> QED BY <1>5, <2>1, <2>2 DEF WriteReads
  <1> QED BY <1>4, <1>5 DEF ReadAnswer

LEMMA DecodeAnswerStep ==
    ASSUME NoWrap, Inv, NEW c \in Calls, NEW answer \in {"accept", "finish"},
           UNCHANGED <<input, bidirectional, max>>, DecodeAnswer(answer, c)
    PROVE  InStep
  <1>1. /\ state = IF answer = "accept" THEN "decoding_accept" ELSE "decoding_finish"
        /\ DecodingAnswer(answer, read_buf, read_left)
        /\ UNCHANGED <<encoder, buf, size, at, left, out, encoded, taken>>
        /\ popped' = IF c.api = "pop" THEN 0 ELSE popped
        /\ popped \in Nat
    BY DEF DecodeAnswer, Inv, OutInv
  <1>2. /\ read_buf # <<>> /\ read_left \in Nat
        /\ Filling(read_buf, read_size, read_at, read_left, taken')
        /\ encoder \in EncoderIn(state)
        /\ state \in Answering
        /\ state = "decoding_accept" /\ read_left = 0 => Refused
        /\ state = "decoding_finish" => read_left > 0
        /\ taken' >= taken
    BY <1>1 DEF Inv, StateInv, InInv, Answering, Filling, Holds
  <1>3. CASE answer = "accept"
    <2>1. DecodingAccept(read_buf, read_left) /\ (read_left = 0 => Refused)
      BY <1>1, <1>2, <1>3 DEF DecodingAnswer
    <2>2. Answered
      BY <1>2, <2>1, DecodingAcceptStep
    <2> QED BY <1>1, <1>2, <2>2 DEF InStep
  <1>4. CASE answer = "finish"
    <2>1. DecodingFinish(read_buf, read_left) /\ read_left \in Nat \ {0} /\ encoder = "done"
      BY <1>1, <1>2, <1>4 DEF DecodingAnswer, EncoderIn
    <2>2. Answered
      BY <1>2, <2>1, DecodingFinishStep
    <2> QED BY <1>1, <1>2, <2>2 DEF InStep
  <1> QED BY <1>3, <1>4

-----------------------------------------------------------------------------
(***************************************************************************)
(* The steps.                                                              *)
(***************************************************************************)
(* A call sends or takes in, never both, unless answers are popped.         *)
LEMMA CallSteps ==
    ASSUME NoWrap, Avoided, Inv, NEW c \in [api : {"pop", "write"}, len : Nat, inlen : Nat],
           Call(c)
    PROVE  OutStep \/ InStep
  <1>1. /\ c \in Calls
        /\ c.api = "pop" /\ state = "stopping" => left = 0 \/ c.len < left
        /\ UNCHANGED <<bidirectional, max, input>>
    BY DEF Call, Avoided, Calls, tuneVars
  <1> USE <1>1
  <1>2. CASE EncodeReady(c)
    BY <1>2, EncodeReadyStep
  <1>3. CASE WriteReady(c)
    BY <1>3, WriteReadyStep
  <1>4. CASE ReadAnswer("accept", c) \/ ReadAnswer("finish", c)
    BY <1>4, ReadAnswerStep
  <1>5. CASE DecodeAnswer("accept", c) \/ DecodeAnswer("finish", c)
    BY <1>5, DecodeAnswerStep
  <1>6. CASE EncodeFrames(c)
    BY <1>6, EncodeFramesStep
  <1>7. CASE WriteFrames(c)
    BY <1>7, WriteFramesStep
  <1>8. CASE Stopping(c)
    <2>1. c.api = "pop" => left = 0 \/ c.len < left
      BY <1>8 DEF Stopping
    <2> QED BY <1>8, <2>1, StoppingStep
  <1>9. CASE EncodingStop(c)
    BY <1>9, EncodingStopStep
  <1>10. CASE WriteStop(c)
    BY <1>10, WriteStopStep
  <1>11. CASE Done(c)
    BY <1>11, DoneStep
  <1> QED BY <1>2, <1>3, <1>4, <1>5, <1>6, <1>7, <1>8, <1>9, <1>10, <1>11 DEF Call

LEMMA CallInvariant ==
    ASSUME NoWrap, Avoided, Inv, NEW c \in [api : {"pop", "write"}, len : Nat, inlen : Nat],
           Call(c)
    PROVE  Inv'
  <1>1. /\ acked' = IF res' = "ok" THEN Append(acked, dnstap) ELSE acked
        /\ UNCHANGED <<dnstap, bidirectional, inc, max, tunes, input>>
    BY DEF Call, tuneVars
  <1>2. CASE OutStep
    <2>1. InInv'
      BY <1>1, <1>2 DEF OutStep, Inv, InInv, inVars, Filling, Holds
    <2>2. CallInv'
      <3>1. encoder' \in EncoderState
        BY <1>2 DEF OutStep, StateInv, EncoderIn, EncoderState
      <3>2. acked' \in Seq(Message)
        BY <1>1, <1>2 DEF OutStep, Inv, CallInv
      <3> QED BY <1>1, <1>2, <3>1, <3>2 DEF OutStep, Inv, CallInv, NeverAborts, Result
    <2> QED BY <1>2, <2>1, <2>2 DEF OutStep, Inv, FreshInv
  <1>3. CASE InStep
    <2>1. OutInv'
      BY <1>1, <1>3 DEF InStep, Inv, OutInv
    <2>2. encoder \in {"control_start", "done"} /\ left = 0 /\ bidirectional
      BY <1>3 DEF InStep, Inv, StateInv, EncoderIn, Answering, Empty
    <2>3. StateInv'
      BY <1>1, <1>3, <2>2 DEF InStep, Answered, StateInv, EncoderIn, Answering, Empty
    <2>4. CallInv'
      BY <1>1, <1>3 DEF InStep, Answered, Inv, CallInv, NeverAborts, Result, WriterState, Answering
    <2> QED BY <1>3, <2>1, <2>3, <2>4 DEF InStep, Answered, Inv, FreshInv
  <1> QED BY <1>2, <1>3, CallSteps

-----------------------------------------------------------------------------
(* What the peer has got stays what it is: a call puts more behind it.       *)
LEMMA OutGrows ==
    ASSUME NoWrap, Avoided, Inv, NEW c \in [api : {"pop", "write"}, len : Nat, inlen : Nat],
           Call(c)
    PROVE  \E x \in Seq(Cell) : out' = out \o x
  <1>1. CASE out' = out
    <2>1. out \in Seq(Cell)
      BY DEF Inv, OutInv, Loaded
    <2>2. out = out \o <<>> /\ <<>> \in Seq(Cell)
      BY <2>1
    <2> QED BY <1>1, <2>2
  <1>2. CASE OutStep
    <2> DEFINE w == Slice(buf, at - left, left)
               v == Slice(buf', at' - left', left')
    <2>1. /\ out \in Seq(Cell) /\ w \in Seq(Cell) /\ encoded = out \o w
          /\ out' \in Seq(Cell) /\ v \in Seq(Cell) /\ encoded' = out' \o v
      <3>1. /\ buf \in Seq(Cell) /\ at - left \in Int /\ left \in Nat
            /\ buf' \in Seq(Cell) /\ at' - left' \in Int /\ left' \in Nat
            /\ out \in Seq(Cell) /\ encoded = out \o w
            /\ out' \in Seq(Cell) /\ encoded' = out' \o v
        <4>1. Loaded(buf, size, at, left, out, encoded)
          BY DEF Inv, OutInv
        <4>2. Loaded(buf, size, at, left, out, encoded)'
          BY <1>2 DEF OutStep, OutInv
        <4>3. /\ buf \in Seq(Cell) /\ at \in Nat /\ left \in Nat
              /\ out \in Seq(Cell) /\ encoded = out \o w
          BY <4>1 DEF Loaded
        <4>4. /\ buf' \in Seq(Cell) /\ at' \in Nat /\ left' \in Nat
              /\ out' \in Seq(Cell) /\ encoded' = out' \o v
          BY <4>2 DEF Loaded
        <4> QED BY <4>3, <4>4
      <3> QED BY <3>1, SliceType
    <2> HIDE DEF w, v
    <2>2. \E u \in Seq(Cell) : encoded' = encoded \o u
      <3> DEFINE c1 == Encoding(encoder, dnstap).cells
      <3>1. encoded \in Seq(Cell)
        BY DEF Inv, OutInv, Loaded
      <3>2. encoded = encoded \o <<>> /\ <<>> \in Seq(Cell)
        BY <3>1
      <3>3. c1 \in Seq(Cell)
        BY EncodingType DEF Inv, CallInv
      <3>4. encoded' = encoded \/ encoded' = encoded \o c1
        BY <1>2 DEF OutStep, EncoderStep
      <3> HIDE DEF c1
      <3> QED BY <3>2, <3>3, <3>4
    <2>3. PICK u \in Seq(Cell) : encoded' = encoded \o u
      BY <2>2
    <2>4. Len(out) <= Len(out') /\ Len(out) \in Nat /\ Len(out') \in Nat
      BY <1>2, <2>1 DEF OutStep
    <2>5. ASSUME NEW i \in 1..Len(out)
          PROVE  out'[i] = out[i]
      <3>1. encoded \in Seq(Cell) /\ i \in 1..Len(encoded) /\ encoded[i] = out[i]
        BY <2>1
      <3>2. encoded'[i] = encoded[i]
        BY <2>3, <3>1
      <3>3. encoded'[i] = out'[i]
        BY <2>1, <2>4
      <3> QED BY <3>1, <3>2, <3>3
    <2> DEFINE x == SubSeq(out', Len(out) + 1, Len(out'))
    <2>6. /\ x \in Seq(Cell) /\ Len(x) = Len(out') - Len(out)
          /\ \A i \in 1..Len(x) : x[i] = out'[Len(out) + i]
      BY <2>1, <2>4
    <2> HIDE DEF x
    <2> DEFINE y == out \o x
    <2>7. /\ y \in Seq(Cell) /\ Len(y) = Len(out')
          /\ \A i \in 1..Len(out) : y[i] = out[i]
          /\ \A i \in 1..Len(x) : y[Len(out) + i] = x[i]
      BY <2>1, <2>4, <2>6
    <2>8. ASSUME NEW i \in 1..Len(out')
          PROVE  y[i] = out'[i]
      <3> HIDE DEF y
      <3>1. CASE i <= Len(out)
        <4>1. i \in 1..Len(out)
          BY <2>4, <3>1
        <4> QED BY <2>5, <2>7, <4>1
      <3>2. CASE i > Len(out)
        <4>1. i - Len(out) \in 1..Len(x) /\ Len(out) + (i - Len(out)) = i
          BY <2>4, <2>6, <3>2
        <4> QED BY <2>6, <2>7, <4>1
      <3> QED BY <2>4, <3>1, <3>2
    <2> HIDE DEF y
    <2>9. y = out'
      <3>1. /\ y \in Seq(Cell) /\ out' \in Seq(Cell) /\ Len(y) = Len(out')
            /\ \A i \in 1..Len(out') : y[i] = out'[i]
        BY <2>1, <2>7, <2>8
      <3> QED BY <3>1
    <2> QED BY <2>6, <2>9 DEF y
  <1> QED BY <1>1, <1>2, CallSteps DEF InStep

(* The peer sends, and the writer has what it was given before.             *)
LEMMA InputGrows ==
    ASSUME Inv, NEW x \in Seq(Cell), input' = input \o x,
           UNCHANGED <<state, outVars, inVars, tuneVars, callVars, res>>
    PROVE  /\ Inv'
           /\ \A i \in 1..taken : input'[i] = input[i]
  <1>1. UNCHANGED <<state, outVars, inVars, tuneVars, callVars, res>>
    OBVIOUS
  <1>2. /\ input \in Seq(Cell) /\ taken \in Nat /\ taken <= Len(input)
        /\ Filling(read_buf, read_size, read_at, read_left, taken)
    BY DEF Inv, InInv, Filling
  <1>3. /\ input' \in Seq(Cell) /\ Len(input) <= Len(input')
        /\ \A i \in 1..Len(input) : input'[i] = input[i]
    BY <1>2
  <1>4. \A i \in 1..taken : input'[i] = input[i]
    BY <1>2, <1>3
  <1>5. \A i \in 1..read_left : (taken - read_left) + i \in 1..taken
    BY <1>2 DEF Filling, Holds
  <1>6. InInv'
    <2>1. taken <= Len(input')
      <3>1. Len(input) \in Nat /\ Len(input') \in Nat
        BY <1>2, <1>3
      <3> QED BY <1>2, <1>3, <3>1
    <2>2. \A i \in 1..read_left : read_buf[read_at + i] = input'[(taken - read_left) + i]
      BY <1>2, <1>4, <1>5 DEF Filling, Holds
    <2>3. Filling(read_buf, read_size, read_at, read_left, taken)'
      BY <1>1, <1>2, <2>1, <2>2 DEF Filling, Holds, inVars
    <2>4. /\ decoder' = decoder /\ taken' = taken
          /\ decoder.accept_support_dnstap_protobuf =>
                \E i \in 1..taken : input'[i][1].kind = "field" /\ input'[i][2] = FieldLen
      BY <1>1, <1>4 DEF Inv, InInv, inVars
    <2>5. decoder'.accept_support_dnstap_protobuf =>
             \E i \in 1..taken' : input'[i][1].kind = "field" /\ input'[i][2] = FieldLen
      <3>1. decoder'.accept_support_dnstap_protobuf = decoder.accept_support_dnstap_protobuf
        BY <2>4
      <3>2. 1..taken' = 1..taken
        BY <2>4
      <3> QED BY <2>4, <3>1, <3>2, Zenon
    <2>6. /\ bidirectional' => read_buf' # <<>>
          /\ decoder' \in DecoderType /\ AcceptNoted(decoder')
          /\ state' = "decoding_accept" /\ read_left' = 0 => Refused'
          /\ state' = "decoding_finish" => read_left' > 0
      BY <1>1 DEF Inv, InInv, inVars, callVars, Refused
    <2> QED BY <1>3, <2>3, <2>5, <2>6 DEF InInv
  <1>7. StateInv' /\ OutInv' /\ FreshInv' /\ CallInv'
    BY <1>1 DEF Inv, StateInv, OutInv, FreshInv, CallInv, NeverAborts, Refused,
                outVars, inVars, tuneVars, callVars
  <1> QED BY <1>4, <1>6, <1>7 DEF Inv

LEMMA PeerStep ==
    ASSUME Inv, PeerAccept \/ PeerFinish
    PROVE  /\ Inv'
           /\ \A i \in 1..taken : input'[i] = input[i]
  <1>1. /\ UNCHANGED <<state, outVars, inVars, tuneVars, callVars, res>>
        /\ \/ input = <<>> /\ input' \in Accepts
           \/ input \in Accepts /\ input' = input \o FinishCells
    BY DEF PeerAccept, PeerFinish
  <1>2. CASE input = <<>> /\ input' \in Accepts
    <2>1. input' \in Seq(Cell)
      BY <1>2, CallAssumption
    <2>2. input' = input \o input'
      BY <1>2, <2>1
    <2> QED BY <1>1, <2>1, <2>2, InputGrows
  <1>3. CASE input' = input \o FinishCells
    <2>1. FinishCells \in Seq(Cell)
      BY AnswerCells DEF FinishCells
    <2> QED BY <1>1, <1>3, <2>1, InputGrows
  <1> QED BY <1>1, <1>2, <1>3

(* Before the first call the caller chooses whether there is a handshake.   *)
LEMMA SetBidirectionalStep ==
    ASSUME Inv, NEW b \in BOOLEAN, SetBidirectional(b)
    PROVE  Inv'
  <1>1. /\ res = "init" /\ bidirectional' = b
        /\ UNCHANGED <<buf, size, at, left, popped, out, encoded, decoder, read_size, read_at,
                       read_left, taken, tuneVars, dnstap, acked, res, input>>
        /\ encoder' = IF b THEN "control_ready" ELSE "control_start"
        /\ state' = IF b THEN "encoding_ready" ELSE "encoding"
        /\ read_buf' = IF b /\ read_buf = <<>> THEN [i \in 1..read_size |-> Junk] ELSE read_buf
    BY DEF SetBidirectional
  <1>2. /\ left = 0 /\ decoder = DecoderInit /\ read_left = 0 /\ taken = 0
        /\ encoded = <<>> /\ out = <<>>
    BY <1>1 DEF Inv, FreshInv
  <1>3. /\ read_buf \in Seq(Cell) /\ read_size \in Nat /\ read_size > 0
        /\ read_buf # <<>> => Len(read_buf) = read_size
    BY DEF Inv, InInv, Filling
  <1>4. /\ read_buf' \in Seq(Cell)
        /\ read_buf' # <<>> => Len(read_buf') = read_size
        /\ b => read_buf' # <<>>
    <2>1. /\ [i \in 1..read_size |-> Junk] \in Seq(Cell)
          /\ Len([i \in 1..read_size |-> Junk]) = read_size
      BY <1>3, JunkType
    <2> QED BY <1>1, <1>3, <2>1
  <1>5. InInv'
    BY <1>1, <1>2, <1>4 DEF Inv, InInv, Filling, Holds
  <1>6. StateInv'
    BY <1>1, <1>2 DEF StateInv, EncoderIn, Answering, Empty
  <1>7. OutInv'
    BY <1>1 DEF Inv, OutInv, tuneVars
  <1>8. FreshInv'
    BY <1>1, <1>2 DEF FreshInv
  <1>9. CallInv'
    BY <1>1 DEF Inv, CallInv, NeverAborts, WriterState, EncoderState, tuneVars
  <1> QED BY <1>5, <1>6, <1>7, <1>8, <1>9 DEF Inv

(* The caller hands over a message, or stops the frames.                    *)
LEMMA CallerStep ==
    ASSUME Inv, (\E m \in Message : SetDnstap(m)) \/ StopCall
    PROVE  Inv'
  <1>1. CASE \E m \in Message : SetDnstap(m)
    BY <1>1 DEF SetDnstap, Inv, StateInv, OutInv, InInv, Filling, Holds, FreshInv, CallInv,
                NeverAborts, Refused, outVars, inVars, tuneVars
  <1>2. CASE StopCall
    <2>1. /\ encoder = "frames" /\ encoder' = "control_stop" /\ state' = "stopping"
          /\ UNCHANGED <<buf, size, at, left, popped, out, encoded, inVars, tuneVars, callVars,
                         res, input>>
      BY <1>2 DEF StopCall, CanStop
    <2>2. res # "init"
      BY <2>1 DEF Inv, FreshInv
    <2>3. StateInv'
      BY <2>1 DEF StateInv, EncoderIn, Answering, Empty
    <2>4. OutInv' /\ FreshInv'
      BY <2>1, <2>2 DEF Inv, OutInv, FreshInv, tuneVars
    <2>5. InInv'
      BY <2>1 DEF Inv, InInv, Filling, Holds, inVars, callVars
    <2>6. CallInv'
      BY <2>1 DEF Inv, CallInv, NeverAborts, Refused, WriterState, EncoderState,
                  inVars, tuneVars, callVars
    <2> QED BY <2>3, <2>4, <2>5, <2>6 DEF Inv
  <1> QED BY <1>1, <1>2

(* Tuning leaves what waits in the buffer.                                  *)
LEMMA TuneStep ==
    ASSUME Avoided, Inv, NEW n \in Tunings, SetBufsize(n) \/ SetBufinc(n) \/ SetBufmax(n)
    PROVE  Inv'
  <1>1. /\ tunes' = tunes + 1 /\ tunes < MaxTunes
        /\ UNCHANGED <<state, encoder, left, popped, out, encoded, inVars, callVars, res, input>>
    BY DEF SetBufsize, SetBufinc, SetBufmax, Tune
  <1>2. n \in Nat /\ n > 0
    BY CallAssumption
  <1>3. /\ buf \in Seq(Cell) /\ size \in Nat /\ Len(buf) = size /\ size > 0
        /\ at \in Nat /\ left \in Nat /\ left <= at /\ at <= size /\ (left = 0 => at = 0)
        /\ max \in Nat /\ size <= max /\ inc \in Nat
        /\ out \o Slice(buf, at - left, left) = encoded
        /\ out \in Seq(Cell) /\ encoded \in Seq(Cell) /\ popped \in Nat
    BY DEF Inv, OutInv, Loaded, CallInv
  <1>4. OutInv' /\ inc' \in Nat
    <2>1. CASE SetBufsize(n)
      <3>1. /\ at + left <= n /\ n <= max /\ buf' = Realloc(buf, n) /\ size' = n /\ at' = at
            /\ inc' = inc /\ max' = max
        BY <2>1 DEF SetBufsize, Avoided
      <3> DEFINE p == at - left
      <3>2. p \in Nat /\ p + left <= Len(buf) /\ p + left <= n /\ at <= n
        BY <1>2, <1>3, <3>1
      <3> HIDE DEF p
      <3>3. /\ buf' \in Seq(Cell) /\ Len(buf') = n
            /\ Slice(buf', p, left) = Slice(buf, p, left)
        <4>1. Realloc(buf, n) \in Seq(Cell) /\ Len(Realloc(buf, n)) = n
          BY <1>2, <1>3, ReallocType
        <4>2. Slice(Realloc(buf, n), p, left) = Slice(buf, p, left)
          <5>1. buf \in Seq(Cell) /\ left \in Nat
            BY <1>3
          <5> QED BY <1>2, <3>2, <5>1, ReallocSlice
        <4> QED BY <3>1, <4>1, <4>2
      <3> QED BY <1>1, <1>2, <1>3, <3>1, <3>2, <3>3 DEF OutInv, Loaded, p
    <2>2. CASE SetBufinc(n) \/ SetBufmax(n)
      <3>1. /\ UNCHANGED <<buf, size, at>> /\ inc' \in Nat
            /\ max' \in Nat /\ size <= max'
        BY <1>2, <1>3, <2>2 DEF SetBufinc, SetBufmax
      <3> QED BY <1>1, <1>3, <3>1 DEF OutInv, Loaded
    <2> QED BY <2>1, <2>2
  <1>5. tunes' \in 0..MaxTunes
    BY <1>1, CallAssumption DEF Inv, CallInv
  <1>6. StateInv' /\ FreshInv'
    BY <1>1 DEF Inv, StateInv, FreshInv, inVars, callVars
  <1>7. InInv'
    BY <1>1 DEF Inv, InInv, Filling, Holds, Refused, inVars, callVars
  <1>8. CallInv'
    BY <1>1, <1>4, <1>5 DEF Inv, CallInv, NeverAborts, Refused, inVars, callVars
  <1> QED BY <1>4, <1>6, <1>7, <1>8 DEF Inv

-----------------------------------------------------------------------------
(***************************************************************************)
(* The theorems.                                                           *)
(***************************************************************************)
(* The invariant holds at the start.                                        *)
LEMMA InitInv ==
    ASSUME Init
    PROVE  Inv
  <1>1. /\ InitSize \in Nat /\ InitSize > 0 /\ InitMax \in Nat /\ InitSize <= InitMax
        /\ InitInc \in Nat /\ ReadSize \in Nat /\ ReadSize > 0 /\ ReadSize <= ReadMax
        /\ MaxTunes \in Nat
    BY SizeAssumption, CallAssumption
  <1>2. /\ state = "encoding" /\ encoder = "control_start" /\ dnstap = NoDnstap
        /\ size = InitSize /\ inc = InitInc /\ max = InitMax
        /\ at = 0 /\ left = 0 /\ popped = 0 /\ decoder = DecoderInit
        /\ read_buf = <<>> /\ read_size = ReadSize /\ read_at = 0 /\ read_left = 0
        /\ bidirectional = FALSE /\ res = "init"
        /\ out = <<>> /\ input = <<>> /\ taken = 0
        /\ encoded = <<>> /\ acked = <<>> /\ tunes = 0
    BY DEF Init
  <1>3. buf \in Seq(Cell) /\ Len(buf) = InitSize
    <2>1. buf = [i \in 1..InitSize |-> Junk]
      BY DEF Init
    <2> QED BY <1>1, <2>1, JunkType
  <1>4. Slice(buf, 0, 0) = <<>> /\ <<>> \o <<>> = <<>>
    BY SliceEmpty
  <1>5. DecoderInit \in DecoderType /\ AcceptNoted(DecoderInit)
    BY DEF DecoderInit, DecoderType, DecoderState, TinyReaderInit, TinyReader, ControlType,
           AcceptNoted
  <1>6. OutInv
    <2>1. at - left = 0
      BY <1>2
    <2> QED BY <1>1, <1>2, <1>3, <1>4, <2>1 DEF OutInv, Loaded
  <1>7. InInv
    <2>1. decoder.accept_support_dnstap_protobuf = FALSE
      BY <1>2 DEF DecoderInit
    <2> QED BY <1>1, <1>2, <1>5, <2>1 DEF InInv, Filling, Holds
  <1>8. StateInv /\ FreshInv
    BY <1>2 DEF StateInv, EncoderIn, Answering, Empty, FreshInv
  <1>9. CallInv
    <2>1. acked \in Seq(Message) /\ tunes \in 0..MaxTunes
      BY <1>1, <1>2
    <2> QED BY <1>1, <1>2, <2>1 DEF CallInv, NeverAborts, WriterState, Result, EncoderState
  <1> QED BY <1>6, <1>7, <1>8, <1>9 DEF Inv

(* Every step keeps it.                                                     *)
LEMMA NextInv ==
    ASSUME NoWrap, Avoided, Inv, [Next]_vars
    PROVE  Inv'
  <1>1. CASE PeerAccept \/ PeerFinish
    BY <1>1, PeerStep
  <1>2. ASSUME NEW b \in Bidirectional, SetBidirectional(b)
        PROVE  Inv'
    BY <1>2, CallAssumption, SetBidirectionalStep
  <1>3. CASE (\E m \in Message : SetDnstap(m)) \/ StopCall
    BY <1>3, CallerStep
  <1>4. ASSUME NEW n \in Tunings, SetBufsize(n) \/ SetBufinc(n) \/ SetBufmax(n)
        PROVE  Inv'
    BY <1>4, TuneStep
  <1>5. ASSUME NEW len \in PopLens, NEW inlen \in 0..Available, Pop(len, inlen)
        PROVE  Inv'
    <2>1. len \in Nat /\ inlen \in Nat
      <3>1. Available \in Int
        BY DEF Inv, InInv, Filling, Available
      <3> QED BY <3>1, CallAssumption
    <2> QED BY <1>5, <2>1, CallInvariant DEF Pop
  <1>6. CASE Write
    BY <1>6, CallInvariant DEF Write
  <1>7. CASE UNCHANGED vars
    BY <1>7 DEF vars, outVars, inVars, tuneVars, callVars, Inv, StateInv, OutInv, InInv,
                Filling, Holds, FreshInv, CallInv, NeverAborts, Refused
  <1> QED BY <1>1, <1>2, <1>3, <1>4, <1>5, <1>6, <1>7 DEF Next

(* The invariant holds in every state the writer reaches.                   *)
THEOREM Invariance ==
    ASSUME NoWrap, Avoided
    PROVE  Spec => []Inv
  <1>1. Init => Inv
    BY InitInv
  <1>2. Inv /\ [Next]_vars => Inv'
    BY NextInv
  <1> QED BY <1>1, <1>2, PTL DEF Spec

(* Type correctness, the bounds of both buffers (writer.c:105-155, 160-170,  *)
(* 378-425) and the assertions of the decoder and the encoder (decoder.c:48, *)
(* encoder.c:52-53): for every message, size, tuning and cut.               *)
THEOREM TypeCorrect ==
    ASSUME NoWrap, Avoided
    PROVE  Spec => []TypeOK
  <1>1. Inv => TypeOK
    BY InvGives
  <1> QED BY <1>1, Invariance, PTL

THEOREM StaysInBounds ==
    ASSUME NoWrap, Avoided
    PROVE  Spec => []BufferBounds
  <1>1. Inv => BufferBounds
    BY InvGives
  <1> QED BY <1>1, Invariance, PTL

THEOREM NoAssertionFails ==
    ASSUME NoWrap, Avoided
    PROVE  Spec => []NeverAborts
  <1>1. Inv => NeverAborts
    BY InvGives
  <1> QED BY <1>1, Invariance, PTL

(* What the peer has and what waits is what was encoded, in order, whatever *)
(* pops, short and failed writes, expansions and tunings come in between    *)
(* (writer.c:160-170, 287-307, 540-566).                                    *)
THEOREM NothingLost ==
    ASSUME NoWrap, Avoided
    PROVE  Spec => []OutIntact
  <1>1. Inv => OutIntact
    BY InvGives
  <1> QED BY <1>1, Invariance, PTL

(* What is left of the answer in its block is the end of what was read,     *)
(* moved, expanded or not (writer.c:378-425, 640-684).                      *)
THEOREM AnswerKept ==
    ASSUME NoWrap, Avoided
    PROVE  Spec => []AnswerIntact
  <1>1. ASSUME Inv
        PROVE  AnswerIntact
    <2>1. /\ read_at \in Nat /\ read_left \in Nat /\ taken \in Nat /\ read_size \in Nat
          /\ read_left <= taken /\ taken <= Len(input) /\ read_at + read_left <= read_size
          /\ input \in Seq(Cell) /\ read_buf \in Seq(Cell)
          /\ read_left > 0 => Len(read_buf) = read_size
          /\ \A i \in 1..read_left : read_buf[read_at + i] = input[(taken - read_left) + i]
      BY <1>1 DEF Inv, InInv, Filling, Holds
    <2> DEFINE s == SubSeq(input, 1, taken)
               t == Slice(read_buf, read_at, read_left)
    <2>2. /\ s \in Seq(Cell) /\ Len(s) = taken
          /\ \A i \in 1..taken : s[i] = input[i]
      BY <2>1
    <2>3. /\ t \in Seq(Cell) /\ Len(t) = read_left
          /\ \A i \in 1..read_left : t[i] = input[(taken - read_left) + i]
      <3>1. read_at \in Int /\ read_left \in Nat
        BY <2>1
      <3>2. /\ t \in Seq(Cell) /\ Len(t) = read_left
            /\ \A i \in 1..read_left : read_at + i \in 1..Len(read_buf) => t[i] = read_buf[read_at + i]
        BY <2>1, <3>1, SliceType
      <3>3. \A i \in 1..read_left : read_at + i \in 1..Len(read_buf)
        BY <2>1
      <3> QED BY <2>1, <3>2, <3>3
    <2> HIDE DEF s, t
    <2>4. \A i \in 1..read_left : t[i] = s[(taken - read_left) + i]
      <3>1. \A i \in 1..read_left : (taken - read_left) + i \in 1..taken
        BY <2>1
      <3> QED BY <2>2, <2>3, <3>1
    <2> DEFINE u == SubSeq(s, taken - read_left + 1, taken)
    <2>5. /\ u \in Seq(Cell) /\ Len(u) = read_left
          /\ \A i \in 1..read_left : u[i] = s[(taken - read_left) + i]
      BY <2>1, <2>2
    <2> HIDE DEF u
    <2>6. u = t
      BY <2>3, <2>4, <2>5
    <2>7. EndsWith(s, t)
      BY <2>1, <2>2, <2>3, <2>6 DEF EndsWith, u
    <2> QED BY <2>7 DEF AnswerIntact, s, t
  <1>2. Inv => AnswerIntact
    BY <1>1
  <1> QED BY <1>2, Invariance, PTL

-----------------------------------------------------------------------------
(***************************************************************************)
(* The messages that were reported written.                                *)
(***************************************************************************)
(* A call returns ok exactly when it has put the message behind what was    *)
(* encoded, unless write(2) has failed after that.                          *)
LEMMA CallAcks ==
    ASSUME NoWrap, Avoided, Inv, NEW c \in [api : {"pop", "write"}, len : Nat, inlen : Nat],
           Call(c)
    PROVE  \E x \in Seq(Cell) :
              /\ encoded' = encoded \o x
              /\ \/ res' = "ok" /\ dnstap \in Message /\ Payloads(x) = <<dnstap>>
                 \/ res' # "ok" /\ (~IOErrors => Payloads(x) = <<>>)
<1>1. /\ encoder \in EncoderState /\ encoder \in EncoderIn(state) /\ encoded \in Seq(Cell)
      /\ dnstap \in Message \cup {NoDnstap}
  BY DEF Inv, StateInv, CallInv, OutInv, Loaded
<1> DEFINE x == Encoding(encoder, dnstap)
<1>2. /\ x.cells \in Seq(Cell) /\ <<>> \in Seq(Cell) /\ Payloads(<<>>) = <<>>
      /\ encoded \o <<>> = encoded
      /\ x.res = "ok" => Payloads(x.cells) = <<dnstap>> /\ Len(x.cells) > 0 /\ dnstap \in Message
      /\ x.res # "ok" => Payloads(x.cells) = <<>>
  BY <1>1, EncodingType, EncodingPayloads, PayloadsNone
<1>3. c.inlen = 0
  BY DEF Call, Avoided
<1>4. CASE state = "encoding"
  <2>1. left = 0 /\ at = 0
    BY <1>4 DEF Inv, StateInv, OutInv, Loaded, Empty
  <2>2. EncodeFrames(c)
    BY <1>4 DEF Call, EncodeReady, WriteReady, ReadAnswer, DecodeAnswer, WriteFrames, Stopping,
                EncodingStop, WriteStop, Done, Reading
  <2>3. PICK o \in Outcomes(0, 0) :
           /\ Encodes(o)
           /\ \/ EncodeFails(c, o, state, out, 0)
              \/ /\ o.res \notin {"error", "abort"}
                 /\ SendFrames(c, o.buf, o.at, o.left, o.res)
    BY <2>1, <2>2 DEF EncodeFrames
  <2>4. /\ \/ encoded' = encoded \o x.cells /\ o.res = x.res
           \/ encoded' = encoded /\ o.res = "error"
        /\ o.res = "error" => encoded' = encoded
    BY <2>3, EncodesLoads DEF x
  <2>5. CASE EncodeFails(c, o, state, out, 0)
    <3>1. res' # "ok" /\ res' = o.res /\ o.res \in {"error", "abort"}
      BY <2>5 DEF EncodeFails
    <3>2. x.res # "abort"
      BY <1>1, EncodingType
    <3>3. encoded' = encoded \o <<>>
      BY <1>2, <2>4, <3>1, <3>2
    <3> QED BY <1>2, <3>1, <3>3
  <2>6. CASE o.res \notin {"error", "abort"} /\ SendFrames(c, o.buf, o.at, o.left, o.res)
    <3>1. encoded' = encoded \o x.cells /\ o.res = x.res
      BY <2>4, <2>6
    <3>2. CASE res' = o.res
      BY <1>2, <3>1, <3>2
    <3>3. CASE SendFails(c, o.left) /\ res' = "error"
      <4>1. x.res = "ok" => o.left > 0
        <5>1. PICK e \in EncodeLoop(encoder, dnstap, buf, size, inc, max, 0, AllocMayFail) :
                 o.res = e.res /\ o.cells = e.cells /\ o.left = 0 + Len(e.cells)
          BY DEF Outcomes
        <5>2. encoded' = encoded \o e.cells
          BY <2>3, <5>1 DEF Encodes
        <5>3. /\ buf \in Seq(Cell) /\ size \in Nat /\ inc \in Nat /\ max \in Nat
              /\ size <= max /\ 0 \in Nat /\ 0 <= size /\ AllocMayFail \in BOOLEAN
          BY CallAssumption DEF Inv, OutInv, Loaded, CallInv
        <5>4. e.cells = x.cells \/ e.res \in {"error", "abort"}
          <6>1. Encoding(encoder, dnstap).cells \in Seq(Cell)
            BY <1>2
          <6> QED BY <5>3, <6>1, EncodeLoopType
        <5> HIDE DEF x
        <5> QED BY <1>2, <2>6, <5>1, <5>4
      <4>2. x.res = "ok" => IOErrors
        <5>1. o.left = 0 => x.res # "ok"
          BY <4>1
        <5> QED BY <3>3, <5>1 DEF SendFails
      <4> HIDE DEF x
      <4> QED BY <1>2, <3>1, <3>3, <4>2
    <3> QED BY <2>6, <3>2, <3>3 DEF SendFrames
  <2> QED BY <2>3, <2>5, <2>6
<1>5. CASE state # "encoding"
  <2>1. res' # "ok"
    BY <1>3, <1>5
       DEF Call, EncodeReady, SendReady, PopReads, WriteReads, WriteReady, ReadAnswer,
           DecodeAnswer, DecodingAnswer, DecodingAccept, DecodingFinish, NeedMore, Abort,
           EncodeFrames, WriteFrames, SendFrames, Stopping, EncodeStop, SendStop, EncodeFails,
           EncodingStop, WriteStop, Done
  <2>2. OutStep \/ InStep
    BY CallSteps
  <2>3. \/ encoded' = encoded
        \/ x.res # "ok" /\ encoded' = encoded \o x.cells
    <3>1. CASE InStep \/ UNCHANGED <<encoder, encoded>>
      BY <3>1 DEF InStep
    <3>2. CASE /\ state \in {"encoding_ready", "encoding", "stopping", "encoding_stop"}
               /\ encoded' = encoded \o x.cells
      <4>1. encoder \in {"control_ready", "control_stop"}
        BY <1>1, <1>5, <3>2 DEF EncoderIn
      <4> QED BY <1>1, <3>2, <4>1, EncodingSteps
    <3> QED BY <2>2, <3>1, <3>2 DEF OutStep, EncoderStep
  <2> HIDE DEF x
  <2> QED BY <1>2, <2>1, <2>3
<1> QED BY <1>4, <1>5

(* So what the caller was told is what was encoded.                         *)
LEMMA NextAcks ==
    ASSUME NoWrap, Avoided, Inv, AckedOnce, [Next]_vars
    PROVE  AckedOnce'
<1> DEFINE P == Message \cup {BadPayload}
           p == Payloads(encoded)
<1>1. /\ encoded \in Seq(Cell) /\ acked \in Seq(Message)
      /\ acked \in Subsequences(p)
      /\ ~IOErrors => acked = p
  BY DEF Inv, OutInv, Loaded, CallInv, AckedOnce
<1>2. p \in Seq(P) /\ acked \in Seq(P)
  BY <1>1, PayloadsAt
<1>3. ASSUME NEW c \in [api : {"pop", "write"}, len : Nat, inlen : Nat], Call(c)
      PROVE  AckedOnce'
  <2>1. PICK x \in Seq(Cell) :
            /\ encoded' = encoded \o x
            /\ \/ res' = "ok" /\ dnstap \in Message /\ Payloads(x) = <<dnstap>>
               \/ res' # "ok" /\ (~IOErrors => Payloads(x) = <<>>)
    BY <1>3, CallAcks
  <2>2. acked' = IF res' = "ok" THEN Append(acked, dnstap) ELSE acked
    BY <1>3 DEF Call
  <2> DEFINE q == Payloads(x)
  <2>3. Payloads(encoded') = p \o q /\ q \in Seq(P)
    BY <1>1, <2>1, PayloadsConcat, PayloadsAt
  <2> HIDE DEF p, q
  <2>4. CASE res' = "ok" /\ dnstap \in Message /\ q = <<dnstap>>
    <3>1. Append(acked, dnstap) \in Subsequences(p \o <<dnstap>>)
      BY <1>1, <1>2, <2>4, SubsequencesAppend
    <3>2. ~IOErrors => Append(acked, dnstap) = p \o <<dnstap>>
      <4>1. Append(acked, dnstap) = acked \o <<dnstap>>
        BY <1>1
      <4> QED BY <1>1, <4>1
    <3> QED BY <2>2, <2>3, <2>4, <3>1, <3>2 DEF AckedOnce
  <2>5. CASE res' # "ok" /\ (~IOErrors => q = <<>>)
    <3>1. acked \in Subsequences(p \o q)
      BY <1>1, <1>2, <2>3, SubsequencesGrow
    <3>2. p \o <<>> = p
      BY <1>2
    <3> QED BY <1>1, <2>2, <2>3, <2>5, <3>1, <3>2 DEF AckedOnce
  <2> QED BY <2>1, <2>4, <2>5 DEF q
<1>4. ASSUME NEW len \in PopLens, NEW inlen \in 0..Available, Pop(len, inlen)
      PROVE  AckedOnce'
  <2>1. len \in Nat /\ inlen \in Nat
    <3>1. Available \in Int
      BY DEF Inv, InInv, Filling, Available
    <3> QED BY <3>1, CallAssumption
  <2> QED BY <1>3, <1>4, <2>1 DEF Pop
<1>5. CASE Write
  BY <1>3, <1>5 DEF Write
<1>6. CASE UNCHANGED <<encoded, acked>>
  BY <1>6 DEF AckedOnce
<1>7. ASSUME \/ PeerAccept \/ PeerFinish \/ StopCall \/ UNCHANGED vars
             \/ \E b \in Bidirectional : SetBidirectional(b)
             \/ \E m \in Message : SetDnstap(m)
             \/ \E n \in Tunings : SetBufsize(n) \/ SetBufinc(n) \/ SetBufmax(n)
      PROVE  UNCHANGED <<encoded, acked>>
  BY <1>7 DEF PeerAccept, PeerFinish, StopCall, SetBidirectional, SetDnstap, SetBufsize,
              SetBufinc, SetBufmax, Tune, vars, outVars, callVars
<1> QED BY <1>4, <1>5, <1>6, <1>7 DEF Next

LEMMA InitAcks ==
    ASSUME Init
    PROVE  AckedOnce
<1>1. encoded = <<>> /\ acked = <<>>
  BY DEF Init
<1>2. <<>> \in Seq(Message) /\ Len(<<>>) = 0
  OBVIOUS
<1>3. Picks(<<>>, <<>>, <<>>)
  BY DEF Picks
<1>4. <<>> \in Subsequences(<<>>)
  <2> DEFINE e == <<>>
  <2>1. e \in Seq(Message) /\ Len(e) <= Len(e) /\ Picks(e, e, e)
    BY <1>2, <1>3
  <2> HIDE DEF e
  <2>2. e \in Subsequences(e)
    BY <2>1, SubsequencesPick
  <2> QED BY <2>2 DEF e
<1> QED BY <1>1, <1>4, PayloadsNone DEF AckedOnce

(* Every message the caller was told is written is encoded, once and in its *)
(* turn; and as long as write(2) does not fail, no other message is         *)
(* (writer.c:287-307, 540-566).                                             *)
THEOREM AcknowledgedOnce ==
    ASSUME NoWrap, Avoided
    PROVE  Spec => []AckedOnce
<1>1. Inv /\ AckedOnce /\ [Next]_vars => AckedOnce'
  BY NextAcks
<1>2. Init => AckedOnce
  BY InitAcks
<1> QED BY <1>1, <1>2, Invariance, PTL DEF Spec

-----------------------------------------------------------------------------
(***************************************************************************)
(* The handshake and the end of the stream.                                *)
(***************************************************************************)
AcceptedByPeer ==
    decoder.state \in AcceptOver /\ decoder.accept_support_dnstap_protobuf

(* How far the encoder has come says what has been encoded, and that the    *)
(* peer has accepted.                                                       *)
HandshakeInv ==
    bidirectional =>
        /\ encoder = "control_ready" => encoded = <<>>
        /\ encoder = "control_start" => encoded = ReadyCells
        /\ encoder \notin {"control_ready", "control_start"} \/ state \in {"encoding", "writing"}
              => AcceptedByPeer

(* What has been encoded when the encoder is done, and what the writer was   *)
(* given when it is.                                                        *)
EndInv ==
    /\ encoder = "done" => EndsWith(encoded, StopCells)
    /\ res = "endofdata" => state = "done"
    /\ state = "done" /\ bidirectional => \E k \in Nat : FinishAt(k, taken)

ProtocolInv == Inv /\ HandshakeInv /\ EndInv

(* What the peer of this module sends.                                      *)
PeerInv ==
    \/ input = <<>>
    \/ input \in Accepts
    \/ \E a \in Accepts : input = a \o FinishCells

(* Something ends with what was put behind it.                              *)
LEMMA EndsWithLast ==
    ASSUME NEW s \in Seq(Cell), NEW t \in Seq(Cell)
    PROVE  EndsWith(s \o t, t)
  <1> DEFINE u == s \o t
             v == SubSeq(u, Len(u) - Len(t) + 1, Len(u))
  <1>1. /\ u \in Seq(Cell) /\ Len(u) = Len(s) + Len(t)
        /\ \A i \in 1..Len(t) : u[Len(s) + i] = t[i]
    OBVIOUS
  <1> HIDE DEF u
  <1>2. Len(s) \in Nat /\ Len(t) \in Nat
    OBVIOUS
  <1>3. /\ v \in Seq(Cell) /\ Len(v) = Len(t)
        /\ \A i \in 1..Len(t) : v[i] = u[Len(s) + i]
    BY <1>1, <1>2
  <1> HIDE DEF v
  <1>4. v = t
    BY <1>1, <1>3
  <1>5. Len(t) <= Len(u)
    BY <1>1, <1>2
  <1> QED BY <1>4, <1>5 DEF EndsWith, u, v

(* What the encoder encodes, once more: READY first and STOP last.          *)
LEMMA EncoderSteps ==
    ASSUME Inv, EncoderStep
    PROVE  /\ encoder' = "control_ready" => UNCHANGED <<encoder, encoded>>
           /\ encoder' = "control_start" =>
                 \/ UNCHANGED <<encoder, encoded>>
                 \/ encoder = "control_ready" /\ encoded' = encoded \o ReadyCells
           /\ encoder' \notin {"control_ready", "control_start"} =>
                 \/ encoder \notin {"control_ready", "control_start"}
                 \/ encoder = "control_start" /\ state = "encoding"
           /\ encoder' = "done" =>
                 \/ UNCHANGED <<encoder, encoded>>
                 \/ encoder = "control_stop" /\ encoded' = encoded \o StopCells
                 \/ encoder = "done" /\ encoded' = encoded
  <1>1. /\ encoder \in EncoderIn(state) /\ encoder \in EncoderState
        /\ dnstap \in Message \cup {NoDnstap} /\ encoded \in Seq(Cell)
    BY DEF Inv, StateInv, CallInv, OutInv, Loaded
  <1>2. CASE UNCHANGED <<encoder, encoded>>
    <2>1. encoder = "control_start" \/ encoder # "control_start"
      OBVIOUS
    <2> QED BY <1>2
  <1>3. CASE /\ state \in {"encoding_ready", "encoding", "stopping", "encoding_stop"}
             /\ encoder' = Encoding(encoder, dnstap).next
             /\ encoded' = encoded \o Encoding(encoder, dnstap).cells
    <2>1. encoder \in {"control_ready", "control_start", "frames", "done", "control_stop"}
      BY <1>1, <1>3 DEF EncoderIn
    <2>2. encoder \in {"control_start", "frames", "done"} => state = "encoding"
      BY <1>1, <1>3 DEF EncoderIn
    <2>3. /\ Encoding("control_ready", dnstap).cells = ReadyCells
          /\ Encoding("control_stop", dnstap).cells = StopCells
          /\ Encoding("done", dnstap).cells = <<>>
      BY DEF Encoding, ReadyCells, StopCells
    <2>4. encoded \o <<>> = encoded
      BY <1>1
    <2> QED BY <1>1, <1>3, <2>1, <2>2, <2>3, <2>4, EncodingSteps
  <1> QED BY <1>2, <1>3 DEF EncoderStep

(* A call that sends keeps to the protocol.                                 *)
LEMMA OutStepProtocol ==
    ASSUME ~ReadyInPieces, ProtocolInv, UNCHANGED <<bidirectional, input>>, OutStep
    PROVE  HandshakeInv' /\ EndInv'
  <1>1. /\ Inv /\ HandshakeInv /\ EndInv /\ EncoderStep
        /\ UNCHANGED <<decoder, taken>>
        /\ encoded \in Seq(Cell)
    BY DEF ProtocolInv, OutStep, inVars, Inv, OutInv, Loaded
  <1>2. /\ encoder' = "control_ready" => UNCHANGED <<encoder, encoded>>
        /\ encoder' = "control_start" =>
              \/ UNCHANGED <<encoder, encoded>>
              \/ encoder = "control_ready" /\ encoded' = encoded \o ReadyCells
        /\ encoder' \notin {"control_ready", "control_start"} =>
              \/ encoder \notin {"control_ready", "control_start"}
              \/ encoder = "control_start" /\ state = "encoding"
        /\ encoder' = "done" =>
              \/ UNCHANGED <<encoder, encoded>>
              \/ encoder = "control_stop" /\ encoded' = encoded \o StopCells
              \/ encoder = "done" /\ encoded' = encoded
    BY <1>1, EncoderSteps
  <1>3. ReadyCells \in Seq(Cell) /\ StopCells \in Seq(Cell)
    BY EncodingType DEF ReadyCells, StopCells, EncoderState
  <1>4. <<>> \o ReadyCells = ReadyCells
    BY <1>3
  <1>5. EndsWith(encoded \o StopCells, StopCells)
    BY <1>1, <1>3, EndsWithLast
  <1>6. HandshakeInv'
    BY <1>1, <1>2, <1>4 DEF HandshakeInv, AcceptedByPeer, OutStep
  <1>7. EndInv'
    <2>1. encoder' = "done" => EndsWith(encoded', StopCells)
      BY <1>1, <1>2, <1>5 DEF EndInv
    <2> QED BY <1>1, <2>1 DEF EndInv, OutStep, FinishAt
  <1> QED BY <1>6, <1>7

(* And so does one that takes in the answer.                                *)
LEMMA InStepProtocol ==
    ASSUME ProtocolInv, UNCHANGED <<bidirectional, input>>, InStep
    PROVE  HandshakeInv' /\ EndInv'
  <1>1. /\ Inv /\ HandshakeInv /\ EndInv /\ Answered /\ UNCHANGED <<encoder, encoded>>
        /\ bidirectional
    BY DEF ProtocolInv, InStep, Inv, StateInv
  <1>2. AcceptedByPeer => AcceptedByPeer'
    BY <1>1 DEF Answered, AcceptedByPeer
  <1>3. HandshakeInv'
    BY <1>1, <1>2 DEF HandshakeInv, Answered, Answering, AcceptedByPeer
  <1>4. EndInv'
    <2>1. state' = "done" => \E k \in Nat : FinishAt(k, taken')
      <3>1. state' = "done" => AcceptedByPeer
        BY <1>1 DEF Answered, HandshakeInv
      <3> QED BY <1>1, <3>1 DEF Answered, AcceptedByPeer
    <2> QED BY <1>1, <2>1 DEF EndInv, Answered, FinishAt
  <1> QED BY <1>3, <1>4

(* More of the answer changes nothing of what was given.                    *)
LEMMA InputGrowsProtocol ==
    ASSUME ProtocolInv, NEW x \in Seq(Cell), input' = input \o x,
           UNCHANGED <<state, outVars, inVars, tuneVars, callVars, res>>
    PROVE  ProtocolInv'
  <1>1. Inv /\ HandshakeInv /\ EndInv
    BY DEF ProtocolInv
  <1>2. Inv' /\ taken \in Nat /\ \A i \in 1..taken : input'[i] = input[i]
    BY <1>1, InputGrows DEF Inv, InInv, Filling
  <1>3. UNCHANGED <<state, encoder, encoded, decoder, taken, bidirectional, res>>
    BY DEF outVars, inVars, callVars
  <1>4. \A k \in Nat : FinishAt(k, taken) => FinishAt(k, taken)'
    <2>1. ASSUME NEW k \in Nat, FinishAt(k, taken)
          PROVE  k \in 1..taken
      BY <1>2, <2>1, LengthAssumption DEF FinishAt
    <2> QED BY <1>2, <1>3, <2>1 DEF FinishAt
  <1>5. EndInv'
    BY <1>1, <1>3, <1>4 DEF EndInv
  <1>6. HandshakeInv'
    BY <1>1, <1>3 DEF HandshakeInv, AcceptedByPeer
  <1> QED BY <1>2, <1>5, <1>6 DEF ProtocolInv

(* Every step keeps to the protocol.                                        *)
LEMMA NextProtocol ==
    ASSUME NoWrap, Avoided, ~ReadyInPieces, ProtocolInv, [Next]_vars
    PROVE  ProtocolInv'
  <1>1. Inv /\ HandshakeInv /\ EndInv /\ Inv'
    BY NextInv DEF ProtocolInv
  <1>2. CASE PeerAccept \/ PeerFinish
    <2>1. /\ UNCHANGED <<state, outVars, inVars, tuneVars, callVars, res>>
          /\ \/ input = <<>> /\ input' \in Accepts
             \/ input \in Accepts /\ input' = input \o FinishCells
      BY <1>2 DEF PeerAccept, PeerFinish
    <2>2. \E x \in Seq(Cell) : input' = input \o x
      <3>1. CASE input = <<>> /\ input' \in Accepts
        <4>1. input' \in Seq(Cell) /\ input' = <<>> \o input'
          BY <3>1, CallAssumption
        <4> QED BY <3>1, <4>1
      <3>2. CASE input' = input \o FinishCells
        <4>1. FinishCells \in Seq(Cell)
          BY AnswerCells DEF FinishCells
        <4> QED BY <3>2, <4>1
      <3> QED BY <2>1, <3>1, <3>2
    <2> QED BY <2>1, <2>2, InputGrowsProtocol
  <1>3. ASSUME NEW b \in Bidirectional, SetBidirectional(b)
        PROVE  ProtocolInv'
    <2>1. /\ res = "init" /\ bidirectional' = b /\ b \in BOOLEAN
          /\ encoded = <<>>
          /\ UNCHANGED <<encoded, taken, res, input>>
          /\ IF b THEN encoder' = "control_ready" /\ state' = "encoding_ready"
                  ELSE encoder' = "control_start" /\ state' = "encoding"
      BY <1>1, <1>3, CallAssumption DEF SetBidirectional, Inv, FreshInv
    <2>2. HandshakeInv'
      BY <2>1 DEF HandshakeInv
    <2>3. EndInv'
      BY <1>1, <2>1 DEF EndInv
    <2> QED BY <1>1, <2>2, <2>3 DEF ProtocolInv
  <1>4. CASE StopCall
    <2>1. /\ encoder = "frames" /\ encoder' = "control_stop" /\ state' = "stopping"
          /\ UNCHANGED <<encoded, decoder, taken, bidirectional, res, input>>
      BY <1>4 DEF StopCall, CanStop, inVars, callVars
    <2>2. res # "endofdata"
      BY <1>1, <2>1 DEF EndInv, Inv, StateInv, EncoderIn
    <2>3. HandshakeInv'
      BY <1>1, <2>1 DEF HandshakeInv, AcceptedByPeer
    <2>4. EndInv'
      BY <1>1, <2>1, <2>2 DEF EndInv
    <2> QED BY <1>1, <2>3, <2>4 DEF ProtocolInv
  <1>5. CASE \/ \E m \in Message : SetDnstap(m)
             \/ \E n \in Tunings : SetBufsize(n) \/ SetBufinc(n) \/ SetBufmax(n)
             \/ UNCHANGED vars
    <2>1. UNCHANGED <<state, encoder, encoded, decoder, taken, bidirectional, res, input>>
      BY <1>5 DEF SetDnstap, SetBufsize, SetBufinc, SetBufmax, Tune, vars,
                  outVars, inVars, callVars
    <2>2. HandshakeInv' /\ EndInv'
      BY <1>1, <2>1 DEF HandshakeInv, AcceptedByPeer, EndInv, FinishAt
    <2> QED BY <1>1, <2>2 DEF ProtocolInv
  <1>6. ASSUME NEW c \in [api : {"pop", "write"}, len : Nat, inlen : Nat], Call(c)
        PROVE  ProtocolInv'
    <2>1. (OutStep \/ InStep) /\ UNCHANGED <<bidirectional, input>>
      BY <1>1, <1>6, CallSteps DEF Call
    <2> QED BY <1>1, <2>1, OutStepProtocol, InStepProtocol DEF ProtocolInv
  <1>7. ASSUME NEW len \in PopLens, NEW inlen \in 0..Available, Pop(len, inlen)
        PROVE  ProtocolInv'
    <2>1. len \in Nat /\ inlen \in Nat
      <3>1. Available \in Int
        BY <1>1 DEF Inv, InInv, Filling, Available
      <3> QED BY <3>1, CallAssumption
    <2> QED BY <1>6, <1>7, <2>1 DEF Pop
  <1>8. CASE Write
    BY <1>6, <1>8 DEF Write
  <1> QED BY <1>2, <1>3, <1>4, <1>5, <1>7, <1>8 DEF Next

(* And the peer to its part of it.                                          *)
LEMMA NextPeer ==
    ASSUME PeerInv, [Next]_vars
    PROVE  PeerInv'
  <1>1. CASE PeerAccept \/ PeerFinish
    BY <1>1 DEF PeerAccept, PeerFinish, PeerInv
  <1>2. CASE UNCHANGED input
    BY <1>2 DEF PeerInv
  <1>3. (PeerAccept \/ PeerFinish) \/ UNCHANGED input
    BY DEF Next, SetBidirectional, SetDnstap, StopCall, SetBufsize, SetBufinc, SetBufmax, Tune,
           Pop, Write, Call, vars
  <1> QED BY <1>1, <1>2, <1>3

LEMMA InitProtocol ==
    ASSUME Init
    PROVE  ProtocolInv /\ PeerInv
  <1>1. /\ state = "encoding" /\ encoder = "control_start" /\ bidirectional = FALSE
        /\ res = "init" /\ input = <<>> /\ taken = 0
    BY DEF Init
  <1> QED BY <1>1, InitInv DEF ProtocolInv, HandshakeInv, EndInv, PeerInv

(* As long as READY goes out in one piece - a short write or a small pop of  *)
(* it makes the writer skip the answer (writer.c:232, 455) - the writer      *)
(* keeps to the protocol.                                                   *)
THEOREM ProtocolKept ==
    ASSUME NoWrap, Avoided, ~ReadyInPieces
    PROVE  Spec => [](ProtocolInv /\ PeerInv)
  <1>1. ProtocolInv /\ PeerInv /\ [Next]_vars => ProtocolInv' /\ PeerInv'
    BY NextProtocol, NextPeer
  <1>2. Init => ProtocolInv /\ PeerInv
    BY InitProtocol
  <1> QED BY <1>1, <1>2, PTL DEF Spec

(* With a handshake nothing follows READY until the peer has accepted the   *)
(* DNSTAP content type (writer.c:272-276).                                  *)
THEOREM NothingBeforeAccept ==
    ASSUME NoWrap, Avoided, ~ReadyInPieces
    PROVE  Spec => []StartAfterAccept
  <1>1. ASSUME ProtocolInv
        PROVE  StartAfterAccept
    <2>1. CASE encoder = "control_ready" /\ bidirectional
      <3>1. encoded = <<>> /\ Len(<<>>) = 0
        BY <1>1, <2>1 DEF ProtocolInv, HandshakeInv
      <3>2. Len(ReadyCells) \in Nat
        BY EncodingType DEF ReadyCells, EncoderState
      <3> QED BY <3>1, <3>2 DEF StartAfterAccept
    <2>2. CASE encoder = "control_start" /\ bidirectional
      <3>1. encoded = ReadyCells /\ Len(ReadyCells) \in Nat
        BY <1>1, <2>2, EncodingType DEF ProtocolInv, HandshakeInv, ReadyCells, EncoderState
      <3> QED BY <3>1 DEF StartAfterAccept
    <2>3. CASE encoder \notin {"control_ready", "control_start"} /\ bidirectional
      BY <1>1, <2>3 DEF ProtocolInv, HandshakeInv, AcceptedByPeer, AcceptOver, StartAfterAccept
    <2>4. CASE ~bidirectional
      BY <2>4 DEF StartAfterAccept
    <2> QED BY <2>1, <2>2, <2>3, <2>4
  <1>2. ProtocolInv => StartAfterAccept
    BY <1>1
  <1> QED BY <1>2, ProtocolKept, PTL

(* No answer to READY has FINISH in it.                                     *)
NoEarlyFinish ==
    \A a \in Accepts : \A i \in 1..Len(a) : a[i][1].what # "FINISH"

(* A FINISH the writer was given in full is the end of what the peer sends.  *)
LEMMA FinishEnds ==
    ASSUME NoEarlyFinish, Inv, PeerInv, NEW k \in Nat, FinishAt(k, taken)
    PROVE  EndsWith(SubSeq(input, 1, taken), FinishCells)
  <1>1. /\ input \in Seq(Cell) /\ taken \in Nat /\ taken <= Len(input)
        /\ k > 0 /\ k + HeaderLen <= taken + 1
        /\ input[k][1].what = "FINISH" /\ input[k][2] = 1
        /\ HeaderLen \in Nat /\ HeaderLen > 0
    BY LengthAssumption DEF Inv, InInv, Filling, FinishAt
  <1>2. k \in 1..Len(input) /\ Len(input) \in Nat
    BY <1>1
  <1>3. FinishCells \in Seq(Cell) /\ Len(FinishCells) = HeaderLen
    BY AnswerCells DEF FinishCells
  <1>4. PICK a \in Accepts : input = a \o FinishCells
    <2>1. input # <<>>
      BY <1>2
    <2>2. input \notin Accepts
      BY <1>1, <1>2 DEF NoEarlyFinish
    <2> QED BY <2>1, <2>2 DEF PeerInv
  <1>5. a \in Seq(Cell) /\ Len(a) \in Nat
    BY CallAssumption
  <1>6. Len(input) = Len(a) + HeaderLen
    <2>1. \A s, t \in Seq(Cell) : Len(s \o t) = Len(s) + Len(t)
      OBVIOUS
    <2> QED BY <1>3, <1>4, <1>5, <2>1
  <1>7. k > Len(a)
    <2>1. ASSUME k <= Len(a)
          PROVE  FALSE
      <3>1. k \in 1..Len(a) /\ input[k] = a[k]
        BY <1>1, <1>3, <1>4, <1>5, <2>1
      <3> QED BY <1>1, <3>1 DEF NoEarlyFinish
    <2> QED BY <1>5, <2>1
  <1>8. k = Len(a) + 1
    <2>1. k - Len(a) \in 1..HeaderLen
      BY <1>1, <1>2, <1>5, <1>6, <1>7
    <2>2. input[k] = FinishCells[k - Len(a)]
      BY <1>3, <1>4, <1>5, <1>7, <2>1
    <2>3. FinishCells = [i \in 1..HeaderLen |-> <<Control("FINISH", 0), i>>]
      BY DEF FinishCells, Encoding, Cells, Size, Control
    <2>4. input[k][2] = k - Len(a)
      BY <2>1, <2>2, <2>3
    <2> QED BY <1>1, <1>5, <2>4
  <1>9. taken = Len(input)
    BY <1>1, <1>2, <1>5, <1>6, <1>8
  <1>10. SubSeq(input, 1, taken) = input
    BY <1>1, <1>9
  <1>11. EndsWith(a \o FinishCells, FinishCells)
    BY <1>3, <1>5, EndsWithLast
  <1> QED BY <1>4, <1>10, <1>11

(* When the caller is told that the stream has ended, the peer has all that *)
(* was encoded, with STOP at the end, and has said FINISH if it was asked   *)
(* to (writer.c:342-376, 640-684; sender.c:129-152).                        *)
THEOREM EndedMeansWritten ==
    ASSUME NoWrap, Avoided, ~ReadyInPieces, NoEarlyFinish
    PROVE  Spec => []AckedOnWire
  <1>1. ASSUME ProtocolInv, PeerInv, AckedOnce, res = "endofdata"
        PROVE  /\ acked \in Subsequences(Payloads(out))
               /\ out = encoded
               /\ EndsWith(out, StopCells)
               /\ bidirectional => EndsWith(SubSeq(input, 1, taken), FinishCells)
    <2>1. Inv /\ HandshakeInv /\ EndInv /\ state = "done"
      BY <1>1 DEF ProtocolInv, EndInv
    <2>2. left = 0 /\ encoder = "done"
      BY <2>1 DEF Inv, StateInv, EncoderIn, Empty
    <2>3. out = encoded
      <3>1. out \in Seq(Cell) /\ out \o Slice(buf, at - left, left) = encoded
        BY <2>1 DEF Inv, OutInv, Loaded
      <3> QED BY <2>2, <3>1, SliceEmpty
    <2>4. EndsWith(out, StopCells)
      BY <2>1, <2>2, <2>3 DEF EndInv
    <2>5. ASSUME bidirectional
          PROVE  EndsWith(SubSeq(input, 1, taken), FinishCells)
      <3>1. PICK k \in Nat : FinishAt(k, taken)
        BY <2>1, <2>5 DEF EndInv
      <3> QED BY <1>1, <2>1, <3>1, FinishEnds
    <2> QED BY <1>1, <2>3, <2>4, <2>5 DEF AckedOnce
  <1>2. ProtocolInv /\ PeerInv /\ AckedOnce => AckedOnWire
    BY <1>1 DEF AckedOnWire
  <1> QED BY <1>2, ProtocolKept, AcknowledgedOnce, PTL

-----------------------------------------------------------------------------
(***************************************************************************)
(* What is on the wire.                                                    *)
(***************************************************************************)
Before == IF bidirectional THEN HeaderLen + FieldLen ELSE 0

WireInv ==
    /\ Orderly(encoded, Before) /\ Complete(encoded)
    /\ encoder # "done" => Open(encoded)
    /\ encoder = "control_ready" => bidirectional /\ encoded = <<>>
    /\ encoder = "control_start" => Len(encoded) = Before
    /\ encoder \in {"frames", "control_stop"} => Len(encoded) >= Before + HeaderLen + FieldLen

(* What the encoder puts behind what it has encoded belongs there.          *)
LEMMA EncoderKeepsWire ==
    ASSUME Inv, WireInv, EncoderStep, UNCHANGED bidirectional
    PROVE  WireInv'
  <1>1. /\ encoder \in EncoderIn(state) /\ encoder \in EncoderState
        /\ dnstap \in Message \cup {NoDnstap} /\ encoded \in Seq(Cell)
    BY DEF Inv, StateInv, CallInv, OutInv, Loaded
  <1>2. Before' = Before /\ Before \in Preamble /\ Before \in Nat
    BY LengthAssumption DEF Before, Preamble
  <1>3. /\ Orderly(encoded, Before) /\ Complete(encoded)
        /\ encoder # "done" => Open(encoded)
        /\ encoder = "control_ready" => bidirectional /\ encoded = <<>>
        /\ encoder = "control_start" => Len(encoded) = Before
        /\ encoder \in {"frames", "control_stop"} => Len(encoded) >= Before + HeaderLen + FieldLen
    BY DEF WireInv
  <1>4. CASE UNCHANGED <<encoder, encoded>>
    BY <1>2, <1>3, <1>4 DEF WireInv
  <1>5. CASE /\ state \in {"encoding_ready", "encoding", "stopping", "encoding_stop"}
             /\ encoder' = Encoding(encoder, dnstap).next
             /\ encoded' = encoded \o Encoding(encoder, dnstap).cells
    <2>1. encoder \in {"control_ready", "control_start", "frames", "done", "control_stop"}
      BY <1>1, <1>5 DEF EncoderIn
    <2>2. Len(encoded) \in Nat
      BY <1>1
    <2>3. CASE encoder = "control_ready"
      <3> DEFINE e == Control("READY", 1)
      <3>1. /\ encoder' = "control_start"
            /\ encoded' = encoded \o (Cells(e) \o Cells(Field("dnstap")))
        BY <1>5, <2>3 DEF Encoding
      <3>2. Len(encoded) = 0 /\ Before = HeaderLen + FieldLen /\ Before > 0
        BY <1>3, <2>3, LengthAssumption DEF Before
      <3>3. /\ Belongs(e, Len(encoded) + 1, Before)
            /\ Belongs(Field("dnstap"), Len(encoded) + HeaderLen + 1, Before)
        BY <3>2, LengthAssumption DEF Belongs
      <3>4. Size(e) = HeaderLen /\ e # StopElement
        BY DEF Size, Control, StopElement
      <3> HIDE DEF e
      <3>5. /\ Orderly(encoded', Before) /\ Complete(encoded') /\ Open(encoded')
            /\ Len(encoded') = Len(encoded) + HeaderLen + FieldLen
        BY <1>1, <1>2, <1>3, <2>3, <3>1, <3>3, <3>4, PairGrows
      <3>6. Len(encoded') = Before
        BY <3>2, <3>5, LengthAssumption
      <3> QED BY <1>2, <3>1, <3>5, <3>6 DEF WireInv
    <2>4. CASE encoder = "control_start"
      <3> DEFINE e == Control("START", 1)
      <3>1. /\ encoder' = "frames"
            /\ encoded' = encoded \o (Cells(e) \o Cells(Field("dnstap")))
        BY <1>5, <2>4 DEF Encoding
      <3>2. Len(encoded) = Before
        BY <1>3, <2>4
      <3>3. /\ Belongs(e, Len(encoded) + 1, Before)
            /\ Belongs(Field("dnstap"), Len(encoded) + HeaderLen + 1, Before)
        BY <3>2 DEF Belongs
      <3>4. Size(e) = HeaderLen /\ e # StopElement
        BY DEF Size, Control, StopElement
      <3> HIDE DEF e
      <3>5. /\ Orderly(encoded', Before) /\ Complete(encoded') /\ Open(encoded')
            /\ Len(encoded') = Len(encoded) + HeaderLen + FieldLen
        BY <1>1, <1>2, <1>3, <2>4, <3>1, <3>3, <3>4, PairGrows
      <3>6. Len(encoded') >= Before + HeaderLen + FieldLen
        BY <1>2, <3>2, <3>5, LengthAssumption
      <3> QED BY <1>2, <3>1, <3>5, <3>6 DEF WireInv
    <2>5. ASSUME encoder \in {"frames", "control_stop"}, NEW e,
                 encoded' = encoded \o Cells(e),
                 e = StopElement \/ \E m \in Message : e = Frame(m),
                 encoder' = IF e = StopElement THEN "done" ELSE "frames"
          PROVE  WireInv'
      <3>1. Len(encoded) + 1 > Before + HeaderLen + FieldLen
        BY <1>2, <1>3, <2>2, <2>5, LengthAssumption
      <3>2. Belongs(e, Len(encoded) + 1, Before)
        BY <2>5, <3>1 DEF Belongs
      <3>3. /\ Len(encoded') = Len(encoded) + Size(e)
            /\ Orderly(encoded', Before) /\ Complete(encoded')
            /\ e # StopElement => Open(encoded')
        BY <1>1, <1>2, <1>3, <2>5, <3>2, OrderlyGrows
      <3>4. Size(e) \in Nat
        BY LengthAssumption DEF Size
      <3>5. Len(encoded') >= Before + HeaderLen + FieldLen
        BY <1>2, <2>2, <3>1, <3>3, <3>4, LengthAssumption
      <3> QED BY <1>2, <2>5, <3>3, <3>5 DEF WireInv
    <2>6. CASE encoder = "control_stop"
      <3>1. encoder' = "done" /\ encoded' = encoded \o Cells(StopElement)
        BY <1>5, <2>6 DEF Encoding, StopElement
      <3> QED BY <2>5, <2>6, <3>1
    <2>7. CASE encoder = "frames" /\ dnstap # NoDnstap
      <3>1. /\ encoder' = "frames" /\ encoded' = encoded \o Cells(Frame(dnstap))
            /\ dnstap \in Message
        BY <1>1, <1>5, <2>7 DEF Encoding
      <3>2. Frame(dnstap) # StopElement
        BY DEF Frame, StopElement, Control
      <3> QED BY <2>5, <2>7, <3>1, <3>2
    <2>8. CASE encoder = "done" \/ (encoder = "frames" /\ dnstap = NoDnstap)
      <3>1. encoder' = encoder /\ encoded' = encoded \o <<>>
        BY <1>5, <2>8 DEF Encoding
      <3>2. encoded \o <<>> = encoded
        BY <1>1
      <3> QED BY <1>4, <3>1, <3>2
    <2> QED BY <2>1, <2>3, <2>4, <2>6, <2>7, <2>8
  <1> QED BY <1>4, <1>5 DEF EncoderStep

LEMMA NextWire ==
    ASSUME NoWrap, Avoided, Inv, WireInv, [Next]_vars
    PROVE  WireInv'
  <1>1. ASSUME NEW c \in [api : {"pop", "write"}, len : Nat, inlen : Nat], Call(c)
        PROVE  WireInv'
    <2>1. (OutStep \/ InStep) /\ UNCHANGED bidirectional
      BY <1>1, CallSteps DEF Call
    <2>2. EncoderStep
      BY <2>1 DEF OutStep, InStep, EncoderStep
    <2> QED BY <2>1, <2>2, EncoderKeepsWire
  <1>2. ASSUME NEW len \in PopLens, NEW inlen \in 0..Available, Pop(len, inlen)
        PROVE  WireInv'
    <2>1. len \in Nat /\ inlen \in Nat
      <3>1. Available \in Int
        BY DEF Inv, InInv, Filling, Available
      <3> QED BY <3>1, CallAssumption
    <2> QED BY <1>1, <1>2, <2>1 DEF Pop
  <1>3. CASE Write
    BY <1>1, <1>3 DEF Write
  <1>4. ASSUME NEW b \in Bidirectional, SetBidirectional(b)
        PROVE  WireInv'
    <2>1. /\ res = "init" /\ bidirectional' = b /\ b \in BOOLEAN /\ encoded' = encoded
          /\ encoder' = IF b THEN "control_ready" ELSE "control_start"
      BY <1>4, CallAssumption DEF SetBidirectional
    <2>2. encoded' = <<>> /\ Len(<<>>) = 0
      BY <2>1 DEF Inv, FreshInv
    <2>3. Orderly(encoded', Before') /\ Complete(encoded') /\ Open(encoded')
      BY <2>2 DEF Orderly, Complete, Open
    <2> QED BY <2>1, <2>2, <2>3 DEF WireInv, Before
  <1>5. CASE StopCall
    <2>1. /\ encoder = "frames" /\ encoder' = "control_stop"
          /\ UNCHANGED <<encoded, bidirectional>>
      BY <1>5 DEF StopCall, CanStop, callVars
    <2> QED BY <2>1 DEF WireInv, Before
  <1>6. CASE UNCHANGED <<encoder, encoded, bidirectional>>
    BY <1>6 DEF WireInv, Before
  <1>7. ASSUME \/ PeerAccept \/ PeerFinish \/ UNCHANGED vars
               \/ \E m \in Message : SetDnstap(m)
               \/ \E n \in Tunings : SetBufsize(n) \/ SetBufinc(n) \/ SetBufmax(n)
        PROVE  UNCHANGED <<encoder, encoded, bidirectional>>
    BY <1>7 DEF PeerAccept, PeerFinish, SetDnstap, SetBufsize, SetBufinc, SetBufmax, Tune, vars,
                outVars, callVars
  <1> QED BY <1>2, <1>3, <1>4, <1>5, <1>6, <1>7 DEF Next

LEMMA InitWire ==
    ASSUME Init
    PROVE  WireInv
  <1>1. encoder = "control_start" /\ bidirectional = FALSE /\ encoded = <<>> /\ Len(<<>>) = 0
    BY DEF Init
  <1>2. Orderly(encoded, Before) /\ Complete(encoded) /\ Open(encoded)
    BY <1>1 DEF Orderly, Complete, Open
  <1> QED BY <1>1, <1>2 DEF WireInv, Before

(* What the peer has is the beginning of what was encoded.                  *)
LEMMA SentOrderly ==
    ASSUME NEW b, NEW z, NEW a, NEW l, NEW sent, NEW enc, Loaded(b, z, a, l, sent, enc),
           NEW p, Orderly(enc, p)
    PROVE  sent \in Seq(Cell) /\ Orderly(sent, p)
  <1> DEFINE w == Slice(b, a - l, l)
  <1>1. /\ sent \in Seq(Cell) /\ sent \o w = enc
        /\ b \in Seq(Cell) /\ a \in Nat /\ l \in Nat
    BY DEF Loaded
  <1>2. w \in Seq(Cell)
    <2>1. a - l \in Int
      BY <1>1
    <2> QED BY <1>1, <2>1, SliceType
  <1>3. Orderly(sent \o w, p)
    BY <1>1
  <1> HIDE DEF w
  <1> QED BY <1>1, <1>2, <1>3, OrderlyPrefix

(* What the peer has been given is orderly at any time, in whatever pieces   *)
(* it went out: READY with the DNSTAP content type if there is a handshake,  *)
(* START with it, whole frames, and nothing behind STOP (encoder.c:55-184,   *)
(* writer.c:224-376).                                                       *)
THEOREM OrderlyWritten ==
    ASSUME NoWrap, Avoided
    PROVE  Spec => []Orderly(out, Before)
  <1>1. Inv /\ WireInv => Orderly(out, Before)
    BY SentOrderly DEF Inv, OutInv, WireInv
  <1>2. Inv /\ WireInv /\ [Next]_vars => WireInv'
    BY NextWire
  <1>3. Init => WireInv
    BY InitWire
  <1> QED BY <1>1, <1>2, <1>3, Invariance, PTL DEF Spec

-----------------------------------------------------------------------------
(***************************************************************************)
(* What the caller sees of a call: ok is for a message, when frames are    *)
(* sent; the end comes after stop(), and is the end.                       *)
(***************************************************************************)
LEMMA CallObserved ==
    ASSUME NoWrap, Avoided, Inv, NEW c \in [api : {"pop", "write"}, len : Nat, inlen : Nat],
           Call(c)
    PROVE  /\ UNCHANGED <<bidirectional, dnstap>>
           /\ \/ /\ res' = "ok" /\ dnstap \in Message /\ acked' = Append(acked, dnstap)
                 /\ encoder = "frames" /\ encoder' = "frames"
                 /\ state # "done" /\ state' # "done"
              \/ res' # "ok" /\ acked' = acked
           /\ encoder' \in {"control_stop", "done"} <=> encoder \in {"control_stop", "done"}
           /\ state' = "done" => encoder \in {"control_stop", "done"}
           /\ state = "done" => state' = "done"
  <1>1. /\ acked' = IF res' = "ok" THEN Append(acked, dnstap) ELSE acked
        /\ UNCHANGED <<bidirectional, dnstap>>
    BY DEF Call
  <1>2. /\ encoder \in EncoderIn(state) /\ dnstap \in Message \cup {NoDnstap}
        /\ encoder \in EncoderState
    BY DEF Inv, StateInv, CallInv
  <1>3. Inv'
    BY CallInvariant
  <1>4. encoder' \in EncoderIn(state')
    BY <1>3 DEF Inv, StateInv
  <1>5. state = "done" => state' = "done"
    BY DEF Call, EncodeReady, WriteReady, ReadAnswer, DecodeAnswer, EncodeFrames, WriteFrames,
           Stopping, EncodingStop, WriteStop, Done, Reading
  <1>6. /\ encoder' \in {"control_stop", "done"} <=> encoder \in {"control_stop", "done"}
        /\ encoder = "frames" => encoder' = "frames"
        /\ encoder' = "done" => encoder \in {"control_stop", "done"}
    <2>1. CASE UNCHANGED encoder
      BY <2>1
    <2>2. CASE /\ state \in {"encoding_ready", "encoding", "stopping", "encoding_stop"}
               /\ encoder' = Encoding(encoder, dnstap).next
      <3>1. encoder \in {"control_ready", "control_start", "frames", "done", "control_stop"}
        BY <1>2, <2>2 DEF EncoderIn
      <3> QED BY <1>2, <2>2, <3>1, EncodingSteps
    <2>3. OutStep \/ InStep
      BY CallSteps
    <2> QED BY <2>1, <2>2, <2>3 DEF OutStep, EncoderStep, InStep
  <1>7. res' = "ok" => dnstap \in Message /\ encoder = "frames"
    <2>1. OutStep \/ InStep
      BY CallSteps
    <2> QED BY <2>1 DEF OutStep, InStep, Answered
  <1>8. state' = "done" => encoder' = "done"
    BY <1>4 DEF EncoderIn
  <1>9. state = "done" => encoder = "done"
    BY <1>2 DEF EncoderIn
  <1> QED BY <1>1, <1>5, <1>6, <1>7, <1>8, <1>9

-----------------------------------------------------------------------------
(***************************************************************************)
(* What a call encodes, when write(2) may fail too.                        *)
(***************************************************************************)
(* The next element but a frame, or nothing: c cells.                       *)
ControlEncoded(c) ==
    \/ encoder' = encoder /\ c = 0
    \/ encoder = "control_ready" /\ encoder' = "control_start" /\ c = ContentLen
    \/ encoder = "control_start" /\ encoder' = "frames" /\ c = ContentLen
    \/ encoder = "control_stop" /\ encoder' = "done" /\ c = HeaderLen

LEMMA EncodingLengths ==
    ASSUME NEW d \in Message \cup {NoDnstap}
    PROVE  /\ Len(Encoding("control_ready", d).cells) = ContentLen
           /\ Len(Encoding("control_start", d).cells) = ContentLen
           /\ Len(Encoding("control_stop", d).cells) = HeaderLen
           /\ Len(Encoding("done", d).cells) = 0
           /\ d = NoDnstap => Len(Encoding("frames", d).cells) = 0
           /\ d # NoDnstap => Len(Encoding("frames", d).cells) = FrameLen
  <1> DEFINE F == Cells(Field("dnstap"))
             C(t, n) == Cells(Control(t, n))
  <1>1. /\ Field("dnstap") \in Element /\ Size(Field("dnstap")) = FieldLen
        /\ \A t \in ControlType, n \in Nat :
              Control(t, n) \in Element /\ Size(Control(t, n)) = HeaderLen
    BY DEF Field, Control, Element, FieldValue, ControlType, Size
  <1>2. \A e \in Element : Cells(e) \in Seq(Cell) /\ Len(Cells(e)) = Size(e)
    BY LengthAssumption DEF Cells, Size, Cell
  <1>3. F \in Seq(Cell) /\ Len(F) = FieldLen
    BY <1>1, <1>2
  <1>4. \A t \in ControlType, n \in Nat : C(t, n) \in Seq(Cell) /\ Len(C(t, n)) = HeaderLen
    BY <1>1, <1>2
  <1>5. \A s, t \in Seq(Cell) : Len(s \o t) = Len(s) + Len(t)
    OBVIOUS
  <1>6. ASSUME d # NoDnstap
        PROVE  Len(Cells(Frame(d))) = FrameLen
    <2>1. Frame(d) \in Element /\ Size(Frame(d)) = FrameLen
      BY <1>6 DEF Frame, Element, Size
    <2> QED BY <1>2, <2>1
  <1>7. Len(<<>>) = 0
    OBVIOUS
  <1>8. /\ Encoding("control_ready", d).cells = C("READY", 1) \o F
        /\ Encoding("control_start", d).cells = C("START", 1) \o F
        /\ Encoding("control_stop", d).cells = C("STOP", 0)
        /\ Encoding("done", d).cells = <<>>
        /\ d = NoDnstap => Encoding("frames", d).cells = <<>>
        /\ d # NoDnstap => Encoding("frames", d).cells = Cells(Frame(d))
    BY DEF Encoding
  <1>9. /\ "READY" \in ControlType /\ "START" \in ControlType /\ "STOP" \in ControlType
        /\ 0 \in Nat /\ 1 \in Nat
    BY DEF ControlType
  <1>10. /\ Len(C("READY", 1) \o F) = HeaderLen + FieldLen
         /\ Len(C("START", 1) \o F) = HeaderLen + FieldLen
         /\ Len(C("STOP", 0)) = HeaderLen
    <2>1. /\ C("READY", 1) \in Seq(Cell) /\ Len(C("READY", 1)) = HeaderLen
          /\ C("START", 1) \in Seq(Cell) /\ Len(C("START", 1)) = HeaderLen
          /\ C("STOP", 0) \in Seq(Cell) /\ Len(C("STOP", 0)) = HeaderLen
      BY <1>4, <1>9
    <2> HIDE DEF F, C
    <2> QED BY <1>3, <1>5, <2>1
  <1> HIDE DEF F, C
  <1> QED BY <1>6, <1>7, <1>8, <1>10 DEF ContentLen

(* A call encodes the message, once, and then returns ok or an error; or it *)
(* encodes no message and does not return ok.                               *)
LEMMA CallEncodes ==
    ASSUME NoWrap, Avoided, Inv, NEW c \in [api : {"pop", "write"}, len : Nat, inlen : Nat],
           Call(c)
    PROVE  \E x \in Seq(Cell) :
              /\ encoded' = encoded \o x
              /\ \/ /\ Payloads(x) = <<dnstap>> /\ Len(x) = FrameLen
                    /\ dnstap \in Message /\ dnstap # NoDnstap
                    /\ encoder = "frames" /\ encoder' = "frames"
                    /\ res' \in {"ok", "error"}
                 \/ /\ Payloads(x) = <<>> /\ res' # "ok"
                    /\ ControlEncoded(Len(x))
  <1>1. /\ encoder \in EncoderState /\ encoder \in EncoderIn(state) /\ encoded \in Seq(Cell)
        /\ dnstap \in Message \cup {NoDnstap}
    BY DEF Inv, StateInv, CallInv, OutInv, Loaded
  <1> DEFINE x == Encoding(encoder, dnstap)
  <1>2. /\ x.cells \in Seq(Cell) /\ <<>> \in Seq(Cell) /\ Payloads(<<>>) = <<>> /\ Len(<<>>) = 0
        /\ encoded \o <<>> = encoded
        /\ x.res = "ok" => Payloads(x.cells) = <<dnstap>> /\ dnstap \in Message
        /\ x.res # "ok" => Payloads(x.cells) = <<>>
    BY <1>1, EncodingType, EncodingPayloads, PayloadsNone
  <1>3. (OutStep \/ InStep) /\ c.inlen = 0
    BY CallSteps DEF Call, Avoided
  <1>4. ASSUME UNCHANGED <<encoder, encoded>>, res' # "ok"
        PROVE  \E y \in Seq(Cell) : /\ encoded' = encoded \o y
                                    /\ Payloads(y) = <<>> /\ ControlEncoded(Len(y))
    BY <1>2, <1>4 DEF ControlEncoded
  <1>5. CASE state = "encoding"
    <2>1. left = 0 /\ at = 0
      BY <1>5 DEF Inv, StateInv, OutInv, Loaded, Empty
    <2>2. EncodeFrames(c)
      BY <1>5 DEF Call, EncodeReady, WriteReady, ReadAnswer, DecodeAnswer, WriteFrames, Stopping,
                  EncodingStop, WriteStop, Done, Reading
    <2>3. PICK o \in Outcomes(0, 0) :
             /\ Encodes(o)
             /\ \/ EncodeFails(c, o, state, out, 0)
                \/ /\ o.res \notin {"error", "abort"}
                   /\ SendFrames(c, o.buf, o.at, o.left, o.res)
      BY <2>1, <2>2 DEF EncodeFrames
    <2>4. /\ \/ encoder' = x.next /\ encoded' = encoded \o x.cells /\ o.res = x.res
             \/ UNCHANGED <<encoder, encoded>> /\ o.res = "error"
          /\ o.res = "error" => UNCHANGED <<encoder, encoded>>
      BY <2>3, EncodesLoads
    <2>5. CASE EncodeFails(c, o, state, out, 0)
      <3>1. res' # "ok" /\ o.res \in {"error", "abort"}
        BY <2>5 DEF EncodeFails
      <3>2. x.res # "abort"
        BY <1>1, EncodingType
      <3>3. UNCHANGED <<encoder, encoded>>
        BY <2>4, <3>1, <3>2
      <3> QED BY <1>4, <3>1, <3>3
    <2>6. CASE o.res \notin {"error", "abort"} /\ SendFrames(c, o.buf, o.at, o.left, o.res)
      <3>1. /\ encoder' = x.next /\ encoded' = encoded \o x.cells /\ o.res = x.res
            /\ x.res # "error"
        BY <2>4, <2>6
      <3>2. res' \in {o.res, "error"}
        BY <2>6 DEF SendFrames
      <3>3. encoder \in {"control_start", "frames", "done"}
        BY <1>1, <1>5 DEF EncoderIn
      <3>4. encoder # "done"
        BY <1>1, <3>1, EncodingSteps
      <3>5. CASE encoder = "frames"
        <4>1. x.res = "ok" /\ x.next = "frames"
          BY <1>1, <3>1, <3>5, EncodingSteps
        <4>2. Len(x.cells) = FrameLen /\ dnstap # NoDnstap
          <5>1. dnstap # NoDnstap
            BY <1>1, <3>1, <3>5 DEF Encoding
          <5> QED BY <1>1, <3>5, <5>1, EncodingLengths
        <4> HIDE DEF x
        <4> QED BY <1>2, <3>1, <3>2, <3>5, <4>1, <4>2
      <3>6. CASE encoder = "control_start"
        <4>1. x.res = "again" /\ x.next = "frames" /\ Len(x.cells) = ContentLen
          BY <1>1, <3>6, EncodingSteps, EncodingLengths
        <4> HIDE DEF x
        <4> QED BY <1>2, <3>1, <3>2, <3>6, <4>1 DEF ControlEncoded
      <3> QED BY <3>3, <3>4, <3>5, <3>6
    <2> QED BY <2>3, <2>5, <2>6
  <1>6. CASE state # "encoding"
    <2>1. res' # "ok"
      BY <1>3, <1>6
         DEF Call, EncodeReady, SendReady, PopReads, WriteReads, WriteReady, ReadAnswer,
             DecodeAnswer, DecodingAnswer, DecodingAccept, DecodingFinish, NeedMore, Abort,
             EncodeFrames, WriteFrames, SendFrames, Stopping, EncodeStop, SendStop, EncodeFails,
             EncodingStop, WriteStop, Done
    <2>2. CASE UNCHANGED <<encoder, encoded>>
      BY <1>4, <2>1, <2>2
    <2>3. CASE /\ state \in {"encoding_ready", "encoding", "stopping", "encoding_stop"}
               /\ encoder' = x.next /\ encoded' = encoded \o x.cells
      <3>1. encoder \in {"control_ready", "control_stop"}
        BY <1>1, <1>6, <2>3 DEF EncoderIn
      <3>2. x.res # "ok"
        BY <1>1, <3>1, EncodingSteps
      <3>3. ControlEncoded(Len(x.cells))
        BY <1>1, <2>3, <3>1, EncodingSteps, EncodingLengths DEF ControlEncoded
      <3> HIDE DEF x
      <3> QED BY <1>2, <2>1, <2>3, <3>2, <3>3
    <2> QED BY <1>3, <2>2, <2>3 DEF OutStep, EncoderStep, InStep
  <1> QED BY <1>5, <1>6

-----------------------------------------------------------------------------
(***************************************************************************)
(* Nothing is encoded but the handshake, START, the messages and STOP.     *)
(***************************************************************************)
(* How many cells that is when the encoder is in state e, n messages have   *)
(* been encoded and the handshake takes b cells.                            *)
EncodedLen(b, e, n) ==
    CASE e = "control_ready" -> 0
      [] e = "control_start" -> b
      [] e \in {"frames", "control_stop"} -> b + ContentLen + FrameLen * n
      [] OTHER -> b + ContentLen + FrameLen * n + HeaderLen

LengthInv ==
    /\ Len(encoded) = EncodedLen(Before, encoder, Len(Payloads(encoded)))
    /\ encoder = "control_ready" => bidirectional
    /\ encoder \in {"control_ready", "control_start"} => Payloads(encoded) = <<>>

(* The arithmetic of one more message.                                      *)
LEMMA OneMore ==
    ASSUME NEW f \in Nat, NEW n \in Nat
    PROVE  f * (n + 1) = f * n + f /\ f * n \in Nat /\ f * 0 = 0
  OBVIOUS

LEMMA CallLength ==
    ASSUME NoWrap, Avoided, Inv, LengthInv,
           NEW c \in [api : {"pop", "write"}, len : Nat, inlen : Nat], Call(c)
    PROVE  LengthInv'
  <1>1. PICK x \in Seq(Cell) :
            /\ encoded' = encoded \o x
            /\ \/ /\ Payloads(x) = <<dnstap>> /\ Len(x) = FrameLen
                  /\ dnstap \in Message /\ dnstap # NoDnstap
                  /\ encoder = "frames" /\ encoder' = "frames"
                  /\ res' \in {"ok", "error"}
               \/ /\ Payloads(x) = <<>> /\ res' # "ok"
                  /\ ControlEncoded(Len(x))
    BY CallEncodes
  <1> DEFINE p == Payloads(encoded)
             q == Payloads(x)
             n == Len(p)
             z == Len(encoded)
  <1>2. /\ encoded \in Seq(Cell) /\ z \in Nat /\ Len(x) \in Nat
        /\ p \in Seq(Message \cup {BadPayload}) /\ q \in Seq(Message \cup {BadPayload})
        /\ Payloads(encoded') = p \o q
        /\ Len(encoded') = z + Len(x)
    <2>1. encoded \in Seq(Cell)
      BY DEF Inv, OutInv, Loaded
    <2> QED BY <1>1, <2>1, PayloadsAt, PayloadsConcat
  <1>3. /\ bidirectional' = bidirectional /\ Before' = Before
        /\ Before \in Nat /\ ContentLen \in Nat /\ ContentLen > 0
        /\ HeaderLen \in Nat /\ FrameLen \in Nat
        /\ encoder = "control_ready" => Before = ContentLen
    BY LengthAssumption DEF Call, Before, ContentLen, LengthInv
  <1>4. /\ z = EncodedLen(Before, encoder, n) /\ n \in Nat
        /\ encoder \in {"control_ready", "control_start"} => p = <<>>
    BY <1>2 DEF LengthInv
  <1> HIDE DEF p, q, n, z
  <1>5. CASE q = <<dnstap>> /\ Len(x) = FrameLen /\ encoder = "frames" /\ encoder' = "frames"
    <2>1. Len(p \o q) = n + 1
      BY <1>2, <1>5 DEF n
    <2>2. z = Before + ContentLen + FrameLen * n
      BY <1>4, <1>5 DEF EncodedLen
    <2>3. FrameLen * (n + 1) = FrameLen * n + FrameLen /\ FrameLen * n \in Nat
      BY <1>3, <1>4, OneMore
    <2>4. z + Len(x) = Before + ContentLen + FrameLen * (n + 1)
      BY <1>2, <1>3, <1>5, <2>2, <2>3
    <2>5. Len(encoded') = EncodedLen(Before', encoder', Len(Payloads(encoded')))
      BY <1>2, <1>3, <1>5, <2>1, <2>4 DEF EncodedLen
    <2> QED BY <1>5, <2>5 DEF LengthInv
  <1>6. CASE q = <<>> /\ ControlEncoded(Len(x))
    <2>1. Payloads(encoded') = p
      BY <1>2, <1>6
    <2>2. encoder \in {"control_ready", "control_start"} => n = 0 /\ FrameLen * n = 0
      <3>1. p = <<>> => n = 0
        BY DEF n
      <3>2. FrameLen * 0 = 0
        BY <1>3, OneMore
      <3> QED BY <1>4, <3>1, <3>2
    <2>3. z + Len(x) = EncodedLen(Before, encoder', n)
      BY <1>2, <1>3, <1>4, <1>6, <2>2 DEF EncodedLen, ControlEncoded
    <2>4. Len(encoded') = EncodedLen(Before', encoder', Len(Payloads(encoded')))
      BY <1>2, <1>3, <2>1, <2>3 DEF n
    <2>5. /\ encoder' = "control_ready" => encoder = "control_ready"
          /\ encoder' = "control_start" => encoder \in {"control_ready", "control_start"}
      BY <1>6 DEF ControlEncoded
    <2> QED BY <1>3, <1>4, <2>1, <2>4, <2>5 DEF LengthInv
  <1> QED BY <1>1, <1>5, <1>6 DEF q

LEMMA NextLength ==
    ASSUME NoWrap, Avoided, Inv, LengthInv, [Next]_vars
    PROVE  LengthInv'
  <1>1. ASSUME NEW len \in PopLens, NEW inlen \in 0..Available, Pop(len, inlen)
        PROVE  LengthInv'
    <2>1. len \in Nat /\ inlen \in Nat
      <3>1. Available \in Int
        BY DEF Inv, InInv, Filling, Available
      <3> QED BY <3>1, CallAssumption
    <2> QED BY <1>1, <2>1, CallLength DEF Pop
  <1>2. CASE Write
    BY <1>2, CallLength DEF Write
  <1>3. ASSUME NEW b \in Bidirectional, SetBidirectional(b)
        PROVE  LengthInv'
    <2>1. /\ res = "init" /\ bidirectional' = b /\ b \in BOOLEAN /\ encoded' = encoded
          /\ encoder' = IF b THEN "control_ready" ELSE "control_start"
      BY <1>3, CallAssumption DEF SetBidirectional
    <2>2. encoded' = <<>> /\ Len(<<>>) = 0 /\ Payloads(<<>>) = <<>>
      BY <2>1, PayloadsNone DEF Inv, FreshInv
    <2> QED BY <2>1, <2>2 DEF LengthInv, EncodedLen, Before
  <1>4. CASE StopCall
    <2>1. /\ encoder = "frames" /\ encoder' = "control_stop"
          /\ UNCHANGED <<encoded, bidirectional>>
      BY <1>4 DEF StopCall, CanStop, callVars
    <2> QED BY <2>1 DEF LengthInv, EncodedLen, Before
  <1>5. CASE UNCHANGED <<encoder, encoded, bidirectional>>
    BY <1>5 DEF LengthInv, EncodedLen, Before
  <1>6. ASSUME \/ PeerAccept \/ PeerFinish \/ UNCHANGED vars
               \/ \E m \in Message : SetDnstap(m)
               \/ \E n \in Tunings : SetBufsize(n) \/ SetBufinc(n) \/ SetBufmax(n)
        PROVE  UNCHANGED <<encoder, encoded, bidirectional>>
    BY <1>6 DEF PeerAccept, PeerFinish, SetDnstap, SetBufsize, SetBufinc, SetBufmax, Tune, vars,
                outVars, callVars
  <1> QED BY <1>1, <1>2, <1>3, <1>4, <1>5, <1>6 DEF Next

LEMMA InitLength ==
    ASSUME Init
    PROVE  LengthInv
  <1>1. encoder = "control_start" /\ bidirectional = FALSE /\ encoded = <<>> /\ Len(<<>>) = 0
    BY DEF Init
  <1> QED BY <1>1, PayloadsNone DEF LengthInv, EncodedLen, Before


-----------------------------------------------------------------------------
(***************************************************************************)
(* A writer that writes to a reader which answers it.                      *)
(***************************************************************************)
Undisturbed ==
    /\ ~IOErrors /\ ~AllocMayFail /\ ~ReadyInPieces /\ ~FinishInPieces
    /\ Tunings = {}
    /\ ContentLen <= InitMax /\ FrameLen <= InitMax
    /\ ContentLen < ReadSize

(* What the reader has answered so far, FINISH not before it had STOP.     *)
GoodAnswer ==
    /\ Len(input) \in {0, ContentLen, ContentLen + HeaderLen}
    /\ \A i \in 1..Len(input) : input[i] = AnswerCell(i)
    /\ Len(input) > ContentLen => encoder = "done"

(* Where the decoder is in it, and that there is room for the rest; what     *)
(* waits to be sent; and that no call fails.                               *)
AwaitsAccept == {"encoding_ready", "reading_accept", "decoding_accept"}
ServedInv ==
    /\ res # "error"
    /\ max = InitMax /\ read_size = ReadSize
    /\ res = "init" => read_at = 0
    /\ state \notin {"writing_ready", "decoding_finish"}
    /\ state \in {"writing", "writing_stop"} => left > 0
    /\ state \in {"reading_accept", "decoding_accept", "encoding"} => encoder # "done"
    /\ state = "decoding_accept" => read_left > 0
    /\ state = "done" => res = "endofdata"
    /\ state \in AwaitsAccept =>
          /\ AnswerAt(decoder, taken - read_left) /\ taken - read_left < ContentLen
          /\ read_at <= taken - read_left
    /\ bidirectional /\ state \notin AwaitsAccept \cup {"done"} =>
          /\ AnswerAt(decoder, ContentLen) /\ taken = ContentLen /\ read_left = 0 /\ read_at = 0

(* What is to be encoded next is, all of it.                               *)
LEMMA EncodesServed ==
    ASSUME Inv, Undisturbed, max = InitMax, NEW o \in Outcomes(0, 0), Encodes(o),
           encoder # "done", encoder = "frames" => dnstap # NoDnstap
    PROVE  /\ o.res \notin {"error", "abort"} /\ o.left \in Nat \ {0}
           /\ encoder' = Encoding(encoder, dnstap).next /\ o.res = Encoding(encoder, dnstap).res
  <1> DEFINE x == Encoding(encoder, dnstap)
             Sizes == Expansions(size, inc, max)
  <1>1. /\ encoder \in EncoderState /\ dnstap \in Message \cup {NoDnstap}
        /\ encoder \in EncoderIn(state)
        /\ buf \in Seq(Cell) /\ size \in Nat /\ Len(buf) = size /\ size > 0
        /\ inc \in Nat /\ max \in Nat /\ size <= max
    BY DEF Inv, StateInv, CallInv, OutInv, Loaded
  <1>2. encoder \in {"control_ready", "control_start", "frames", "control_stop"}
    BY <1>1 DEF EncoderIn
  <1>3. Len(x.cells) \in Nat \ {0} /\ Len(x.cells) <= max
    <2>1. Len(x.cells) \in {ContentLen, HeaderLen, FrameLen}
      BY <1>1, <1>2, EncodingLengths
    <2>2. /\ HeaderLen \in Nat \ {0} /\ FrameLen \in Nat \ {0} /\ ContentLen \in Nat \ {0}
          /\ HeaderLen <= ContentLen /\ ContentLen <= max /\ FrameLen <= max
      BY LengthAssumption DEF Undisturbed, ContentLen
    <2> HIDE DEF x
    <2> QED BY <1>1, <2>1, <2>2
  <1>4. x.res \in {"again", "ok", "endofdata"}
    <2>1. encoder = "frames" => x.res = "ok"
      BY <1>2 DEF Encoding
    <2> QED BY <1>1, <1>2, <2>1, EncodingSteps
  <1>5. PICK e \in EncodeLoop(encoder, dnstap, buf, size, inc, max, 0, AllocMayFail) :
            /\ o.res = e.res /\ o.left = 0 + Len(e.cells)
    BY DEF Outcomes
  <1>6. ~(buf = <<>> \/ size <= 0) /\ ~AllocMayFail
    BY <1>1 DEF Undisturbed
  <1>7. \/ \E z \in Sizes : e = [res |-> x.res, state |-> x.next, size |-> z, cells |-> x.cells,
                                 buf |-> Overlay(Realloc(buf, z), 0, x.cells)]
        \/ \E z \in Sizes : z = max /\ \A v \in Sizes : v <= z => ~(Len(x.cells) <= v - 0)
    BY <1>5, <1>6 DEF EncodeLoop
  <1> HIDE DEF x, Sizes
  <1>8. PICK z \in Sizes : e = [res |-> x.res, state |-> x.next, size |-> z, cells |-> x.cells,
                                buf |-> Overlay(Realloc(buf, z), 0, x.cells)]
    BY <1>1, <1>3, <1>7
  <1>9. o.res = x.res /\ o.left = Len(x.cells)
    BY <1>3, <1>5, <1>8
  <1>10. encoder' = x.next
    BY <1>4, <1>9, EncodesLoads DEF x
  <1> QED BY <1>3, <1>4, <1>9, <1>10 DEF x

(* A write(2) on a connection that holds takes some of what is left.       *)
LEMMA SendsSome ==
    ASSUME Undisturbed, NEW c \in Calls, c.api = "write", NEW l \in Nat \ {0}
    PROVE  ~SendFails(c, l) /\ \A n \in Sends(c, l) : n \in 1..l
  BY DEF Undisturbed, SendFails, Sends

(* A call that sends.                                                      *)
LEMMA OutServed ==
    ASSUME ServedInv, UNCHANGED <<inVars, max, bidirectional>>,
           state \notin AwaitsAccept \cup {"done"},
           res' \notin {"error", "init"},
           state' \notin AwaitsAccept \cup {"writing_ready", "decoding_finish"},
           state' \in {"writing", "writing_stop"} => left' > 0,
           state' = "encoding" => encoder' # "done",
           state' = "done" => res' = "endofdata"
    PROVE  ServedInv'
  BY DEF ServedInv, inVars, AwaitsAccept

(* A call that goes through a piece of ACCEPT.                             *)
LEMMA AcceptServed ==
    ASSUME NoWrap, Inv, Undisturbed, ServedInv, GoodAnswer,
           UNCHANGED <<input, bidirectional, max, encoder, left>>, encoder # "done",
           NEW rb, NEW l \in Nat \ {0}, Filling(rb, read_size, read_at, l, taken'), rb # <<>>,
           NEW n \in Nat, n + l = taken', n < ContentLen, AnswerAt(decoder, n), read_at <= n,
           state \in {"reading_accept", "decoding_accept"}, DecodingAccept(rb, l)
    PROVE  ServedInv'
  <1> DEFINE w == Slice(rb, read_at, l)
             r == Decode(decoder, w)
  <1>1. /\ HeaderLen \in Nat \ {0} /\ FieldLen \in Nat \ {0} /\ ContentLen = HeaderLen + FieldLen
        /\ ContentLen \in Nat
    BY LengthAssumption DEF ContentLen
  <1>2. /\ read_at \in Nat /\ read_size \in Nat /\ read_at + l <= read_size
        /\ taken' \in Nat /\ l <= taken' /\ taken' <= Len(input)
        /\ rb \in Seq(Cell) /\ Len(rb) = read_size
    BY DEF Filling, Holds
  <1>3. \A i \in 1..l : rb[read_at + i] = input[n + i]
    <2>1. \A i \in 1..l : rb[read_at + i] = input[(taken' - l) + i]
      BY DEF Filling, Holds
    <2>2. taken' - l = n
      <3>1. \A x, y \in Nat : (x + y) - y = x
        OBVIOUS
      <3>2. (n + l) - l = n /\ n + l = taken'
        BY <3>1
      <3> QED BY <3>2
    <2> QED BY <2>1, <2>2
  <1>4. Len(input) \in Nat /\ Len(input) <= ContentLen
    <2>1. Len(input) \in {0, ContentLen, ContentLen + HeaderLen} /\ ~(Len(input) > ContentLen)
      BY DEF GoodAnswer
    <2> QED BY <1>1, <2>1
  <1>5. \A i \in 1..Len(input) : input[i] = AnswerCell(i)
    BY DEF GoodAnswer
  <1>6. /\ taken' <= ContentLen
        /\ read_size = ReadSize /\ ContentLen < read_size /\ max = InitMax
    BY <1>1, <1>2, <1>4 DEF ServedInv, Undisturbed
  <1>7. /\ w \in Seq(Cell) /\ Len(w) = l /\ w # <<>>
        /\ \A i \in 1..Len(w) : w[i] = AnswerCell(n + i)
    <2>1. /\ w \in Seq(Cell) /\ Len(w) = l
          /\ \A i \in 1..l : read_at + i \in 1..Len(rb) => w[i] = rb[read_at + i]
      <3>1. read_at \in Int /\ l \in Nat
        BY <1>2
      <3> QED BY <1>2, <3>1, SliceType
    <2> HIDE DEF w
    <2>2. \A i \in 1..l : read_at + i \in 1..Len(rb) /\ n + i \in 1..Len(input)
      <3> TAKE i \in 1..l
      <3> QED BY <1>2, <1>4, <1>6
    <2>3. \A i \in 1..l : w[i] = AnswerCell(n + i)
      BY <1>3, <1>5, <2>1, <2>2
    <2> QED BY <2>1, <2>3
  <1> HIDE DEF w
  <1>8. \/ r.res = "need_more" /\ r.decoder = decoder
        \/ /\ r.res = "again" /\ r.n \in 1..l /\ n + r.n < ContentLen
           /\ AnswerAt(r.decoder, n + r.n)
        \/ /\ r.res = "bidirectional" /\ r.n \in 1..l /\ n + r.n = ContentLen
           /\ AnswerAt(r.decoder, n + r.n) /\ r.decoder.accept_support_dnstap_protobuf
    BY <1>6, <1>7, AnswerDecoded
  <1>9. /\ decoder' = r.decoder
        /\ \/ /\ r.res = "bidirectional"
              /\ Consume(rb, l, r.n)
              /\ r.decoder.accept_support_dnstap_protobuf => state' = "encoding" /\ res' = "again"
           \/ /\ r.res = "again"
              /\ Consume(rb, l, r.n)
              /\ state' = IF l = r.n THEN "reading_accept" ELSE "decoding_accept"
              /\ res' = "again"
           \/ /\ r.res = "need_more"
              /\ NeedMore(rb, l, "decoding_accept")
    <2>1. \E q \in {r} :
             /\ decoder' = q.decoder
             /\ \/ /\ q.res = "bidirectional"
                   /\ Consume(rb, l, q.n)
                   /\ IF Accepted(q)
                      THEN state' = "encoding" /\ res' = "again"
                      ELSE state' = "decoding_accept" /\ res' = "error"
                \/ /\ q.res = "again"
                   /\ Consume(rb, l, q.n)
                   /\ state' = IF l = q.n THEN "reading_accept" ELSE "decoding_accept"
                   /\ res' = "again"
                \/ /\ q.res = "need_more"
                   /\ NeedMore(rb, l, "decoding_accept")
                \/ /\ q.res \in {"error", "have_dnstap", "endofdata"}
                   /\ Keep(rb, l)
                   /\ state' = "decoding_accept"
                   /\ res' = "error"
      BY DEF DecodingAccept, w
    <2> HIDE DEF r
    <2>2. r.res \notin {"error", "have_dnstap", "endofdata"}
      BY <1>8
    <2> QED BY <2>1, <2>2 DEF Accepted
  <1> HIDE DEF r
  <1>10. ASSUME read_size' = read_size, res' \in {"again", "need_more"},
               \/ /\ state' \in {"reading_accept", "decoding_accept"}
                  /\ AnswerAt(decoder', taken' - read_left') /\ taken' - read_left' < ContentLen
                  /\ read_at' <= taken' - read_left'
                  /\ state' = "decoding_accept" => read_left' > 0
               \/ /\ state' = "encoding"
                  /\ AnswerAt(decoder', ContentLen) /\ taken' = ContentLen
                  /\ read_left' = 0 /\ read_at' = 0
        PROVE  ServedInv'
    BY <1>6, <1>10 DEF ServedInv, AwaitsAccept
  <1>11. CASE r.res = "bidirectional"
    <2>1. /\ r.n \in 1..l /\ n + r.n = ContentLen /\ AnswerAt(r.decoder, n + r.n)
          /\ Consume(rb, l, r.n) /\ state' = "encoding" /\ res' = "again"
      BY <1>8, <1>9, <1>11
    <2>2. l = r.n /\ taken' = ContentLen
      BY <1>1, <1>2, <1>6, <2>1
    <2>3. read_left' = 0 /\ read_at' = 0 /\ read_size' = read_size
      BY <2>1, <2>2 DEF Consume
    <2> QED BY <1>9, <1>10, <2>1, <2>2, <2>3
  <1>12. CASE r.res = "again"
    <2>1. /\ r.n \in 1..l /\ n + r.n < ContentLen /\ AnswerAt(r.decoder, n + r.n)
          /\ Consume(rb, l, r.n) /\ res' = "again"
          /\ state' = IF l = r.n THEN "reading_accept" ELSE "decoding_accept"
      BY <1>8, <1>9, <1>12
    <2>2. /\ read_left' = l - r.n /\ read_at' = (IF l = r.n THEN 0 ELSE read_at + r.n)
          /\ read_size' = read_size
      BY <2>1 DEF Consume
    <2>3. /\ taken' - read_left' = n + r.n /\ read_at' <= n + r.n
          /\ l # r.n => read_left' > 0
      <3>1. \A x, y, z, a \in Nat : z <= y /\ a <= x =>
               /\ (x + y) - (y - z) = x + z /\ a + z <= x + z /\ 0 <= x + z
               /\ y # z => y - z > 0
        OBVIOUS
      <3>2. n \in Nat /\ l \in Nat /\ r.n \in Nat /\ r.n <= l /\ read_at \in Nat
        BY <1>2, <2>1
      <3>3. /\ (n + l) - (l - r.n) = n + r.n /\ read_at + r.n <= n + r.n /\ 0 <= n + r.n
            /\ l # r.n => l - r.n > 0
        BY <3>1, <3>2
      <3> QED BY <2>2, <3>3
    <2> QED BY <1>9, <1>10, <2>1, <2>2, <2>3
  <1>13. CASE r.res = "need_more"
    <2>1. r.decoder = decoder /\ NeedMore(rb, l, "decoding_accept")
      BY <1>8, <1>9, <1>13
    <2>2. ~(l >= read_size)
      BY <1>1, <1>2, <1>6
    <2>3. /\ read_at' = 0 /\ read_left' = l /\ read_size' = read_size
          /\ state' = "reading_accept" /\ res' = "need_more"
      BY <2>1, <2>2 DEF NeedMore
    <2>4. taken' - read_left' = n /\ 0 <= n
      <3>1. \A x, y \in Nat : (x + y) - y = x /\ 0 <= x
        OBVIOUS
      <3>2. (n + l) - l = n /\ 0 <= n /\ n + l = taken'
        BY <3>1
      <3> QED BY <2>3, <3>2
    <2> QED BY <1>6, <1>9, <1>10, <2>1, <2>3, <2>4
  <1> QED BY <1>9, <1>11, <1>12, <1>13

(* A call that reads FINISH, which comes in one piece.                     *)
LEMMA FinishServed ==
    ASSUME Inv, Undisturbed, ServedInv, GoodAnswer,
           UNCHANGED <<input, bidirectional, max, encoder, left>>,
           NEW c \in Calls, c.api = "write", state = "reading_finish", ReadAnswer("finish", c)
    PROVE  ServedInv'
  <1>1. /\ HeaderLen \in Nat \ {0} /\ FieldLen \in Nat \ {0} /\ ContentLen = HeaderLen + FieldLen
        /\ ContentLen \in Nat
    BY LengthAssumption DEF ContentLen
  <1>2. /\ bidirectional /\ AnswerAt(decoder, ContentLen)
        /\ taken = ContentLen /\ read_left = 0 /\ read_at = 0
        /\ read_size = ReadSize /\ ContentLen < read_size /\ max = InitMax
    BY DEF Inv, StateInv, Answering, ServedInv, AwaitsAccept, Undisturbed
  <1>3. /\ read_buf # <<>> /\ read_buf \in Seq(Cell) /\ Len(read_buf) = read_size
        /\ read_size \in Nat /\ taken <= Len(input) /\ input \in Seq(Cell) /\ Len(input) \in Nat
    BY <1>2 DEF Inv, InInv, Filling
  <1>4. /\ Available \in Nat /\ Available \in {0, HeaderLen}
        /\ Space = read_size /\ Space # 0 /\ ~IOErrors /\ ~FinishInPieces
        /\ Available <= Space
    <2>1. Len(input) \in {0, ContentLen, ContentLen + HeaderLen}
      BY DEF GoodAnswer
    <2>2. ~IOErrors /\ ~FinishInPieces
      BY DEF Undisturbed
    <2> QED BY <1>1, <1>2, <1>3, <2>1, <2>2 DEF Available, Space
  <1>5. WriteReads("finish")
    BY DEF ReadAnswer
  <1>6. PICK k \in 1..LeastOf(Space, Available) :
           /\ k = LeastOf(Space, Available)
           /\ taken' = taken + k
           /\ DecodingAnswer("finish", Filled(k), read_left + k)
    BY <1>4, <1>5 DEF WriteReads
  <1>7. k = HeaderLen /\ Available = HeaderLen /\ k \in Nat /\ k <= Space
    BY <1>1, <1>3, <1>4, <1>6 DEF LeastOf
  <1>8. DecodingFinish(Filled(k), HeaderLen) /\ taken' = ContentLen + HeaderLen
    BY <1>1, <1>2, <1>6, <1>7 DEF DecodingAnswer
  <1>9. Filling(Filled(k), read_size, read_at, HeaderLen, taken') /\ Filled(k) # <<>>
    <2>1. read_left + k = HeaderLen
      BY <1>1, <1>2, <1>7
    <2>2. Filling(Filled(k), read_size, read_at, read_left + k, taken') /\ Filled(k) # <<>>
      BY <1>3, <1>4, <1>6, <1>7, FilledHolds
    <2> QED BY <2>1, <2>2
  <1> DEFINE rb == Filled(k)
             w == Slice(rb, read_at, HeaderLen)
             r == Decode(decoder, w)
  <1>10. /\ w \in Seq(Cell) /\ Len(w) = HeaderLen /\ w # <<>>
         /\ \A i \in 1..Len(w) : w[i] = AnswerCell(ContentLen + i)
    <2>1. /\ rb \in Seq(Cell) /\ Len(rb) = read_size
          /\ \A i \in 1..HeaderLen : rb[read_at + i] = input[(taken' - HeaderLen) + i]
      BY <1>9 DEF Filling, Holds
    <2> HIDE DEF rb
    <2>2. /\ w \in Seq(Cell) /\ Len(w) = HeaderLen
          /\ \A i \in 1..HeaderLen : read_at + i \in 1..Len(rb) => w[i] = rb[read_at + i]
      <3>1. read_at \in Int /\ HeaderLen \in Nat
        BY <1>1, <1>2
      <3> QED BY <2>1, <3>1, SliceType
    <2> HIDE DEF w
    <2>3. Len(input) = ContentLen + HeaderLen
      BY <1>1, <1>2, <1>3, <1>7 DEF Available
    <2>4. \A i \in 1..HeaderLen : /\ read_at + i \in 1..Len(rb)
                                  /\ (taken' - HeaderLen) + i = ContentLen + i
                                  /\ ContentLen + i \in 1..Len(input)
      BY <1>1, <1>2, <1>3, <1>8, <2>1, <2>3
    <2>5. \A i \in 1..HeaderLen : w[i] = AnswerCell(ContentLen + i)
      BY <2>1, <2>2, <2>4 DEF GoodAnswer
    <2> QED BY <1>1, <2>2, <2>5
  <1> HIDE DEF w
  <1>11. r.res = "endofdata"
    BY <1>1, <1>2, <1>10, AnswerDecoded
  <1>12. state' = "done" /\ res' = "endofdata" /\ read_size' = read_size
    <2>1. \E q \in {r} :
             \/ /\ q.res = "endofdata"
                /\ Keep(rb, HeaderLen)
                /\ state' = "done"
                /\ res' = "endofdata"
             \/ q.res \in {"need_more", "error", "again", "have_dnstap", "bidirectional"}
      BY <1>1, <1>8 DEF DecodingFinish, w
    <2> HIDE DEF r
    <2> QED BY <1>11, <2>1 DEF Keep
  <1> QED BY <1>2, <1>12 DEF ServedInv, AwaitsAccept

(* No call of a writer with a message fails.                               *)
LEMMA CallServed ==
    ASSUME NoWrap, Avoided, Inv, Undisturbed, ServedInv, GoodAnswer,
           NEW c \in Calls, c.api = "write", Call(c), dnstap # NoDnstap, res # "endofdata"
    PROVE  ServedInv'
  <1>1. /\ UNCHANGED <<bidirectional, max, input>> /\ max = InitMax
        /\ state \notin {"done", "writing_ready", "decoding_finish"} /\ c.inlen = 0
        /\ encoder \in EncoderIn(state) /\ (state \in Empty => left = 0 /\ at = 0)
        /\ left \in Nat
        /\ state \in AwaitsAccept => bidirectional
    BY DEF Call, tuneVars, ServedInv, Calls, Inv, StateInv, OutInv, Loaded, AwaitsAccept, Answering
  <1>2. CASE EncodeReady(c)
    <2>1. state = "encoding_ready" /\ left = 0 /\ at = 0 /\ encoder = "control_ready"
      BY <1>1, <1>2 DEF EncodeReady, Empty, EncoderIn
    <2>2. PICK o \in Outcomes(0, 0) :
             /\ Encodes(o)
             /\ \/ EncodeFails(c, o, state, out, 0)
                \/ SendReady(c, o.buf, o.at, o.left, "writing")
      BY <1>2, <2>1 DEF EncodeReady
    <2>3. /\ o.res \notin {"error", "abort"} /\ o.left \in Nat \ {0}
          /\ encoder' = Encoding(encoder, dnstap).next
      BY <1>1, <2>1, <2>2, EncodesServed
    <2>4. SendReady(c, o.buf, o.at, o.left, "writing") /\ ~ReadyInPieces
      BY <2>2, <2>3 DEF EncodeFails, Undisturbed
    <2>5. state' = "reading_accept" /\ res' = "blocked" /\ UNCHANGED inVars
      BY <2>4 DEF SendReady
    <2>6. encoder' # "done"
      BY <2>1, <2>3 DEF Encoding
    <2> QED BY <1>1, <2>1, <2>5, <2>6 DEF ServedInv, AwaitsAccept, inVars
  <1>3. CASE ReadAnswer("accept", c)
    <2>1. state = "reading_accept" /\ WriteReads("accept") /\ UNCHANGED <<encoder, left>>
      BY <1>3 DEF ReadAnswer, Reading
    <2>2. /\ encoder # "done" /\ read_at <= taken - read_left
          /\ taken - read_left < ContentLen /\ read_size = ReadSize /\ bidirectional
      BY <1>1, <2>1 DEF ServedInv, AwaitsAccept
    <2>3. /\ taken \in Nat /\ read_left \in Nat /\ read_at \in Nat /\ read_left <= taken
          /\ read_buf # <<>> /\ taken <= Len(input) /\ Len(input) \in Nat
          /\ read_size \in Nat
      BY <2>2 DEF Inv, InInv, Filling, Holds
    <2>4. Space > 0 /\ Space \in Nat /\ ~IOErrors
      <3>1. Len(input) <= ContentLen /\ ContentLen < read_size /\ ContentLen \in Nat /\ ~IOErrors
        BY <2>2, <2>3, LengthAssumption DEF GoodAnswer, ContentLen, Undisturbed
      <3> QED BY <2>2, <2>3, <3>1 DEF Space
    <2>5. PICK n \in 1..LeastOf(Space, Available) :
             taken' = taken + n /\ DecodingAnswer("accept", Filled(n), read_left + n)
      BY <2>1, <2>4 DEF WriteReads
    <2>6. Available \in Nat
      BY <2>3 DEF Available
    <2>7. n \in Nat /\ n <= Space /\ n <= Available /\ read_left + n \in Nat \ {0}
      BY <2>3, <2>4, <2>5, <2>6 DEF LeastOf
    <2>8. Filling(Filled(n), read_size, read_at, read_left + n, taken') /\ Filled(n) # <<>>
      BY <2>3, <2>5, <2>7, FilledHolds
    <2>9. /\ taken - read_left \in Nat /\ (taken - read_left) + (read_left + n) = taken'
          /\ AnswerAt(decoder, taken - read_left)
      BY <2>1, <2>3, <2>5, <2>7 DEF ServedInv, AwaitsAccept
    <2>10. DecodingAccept(Filled(n), read_left + n)
      BY <2>5 DEF DecodingAnswer
    <2> QED BY <1>1, <2>1, <2>2, <2>7, <2>8, <2>9, <2>10, AcceptServed
  <1>4. CASE DecodeAnswer("accept", c)
    <2>1. /\ state = "decoding_accept" /\ DecodingAccept(read_buf, read_left)
          /\ UNCHANGED <<encoder, left, taken>>
      BY <1>4 DEF DecodeAnswer, DecodingAnswer
    <2>2. /\ encoder # "done" /\ read_left > 0 /\ bidirectional /\ read_at <= taken - read_left
          /\ taken - read_left < ContentLen /\ AnswerAt(decoder, taken - read_left)
      BY <1>1, <2>1 DEF ServedInv, AwaitsAccept
    <2>3. /\ Filling(read_buf, read_size, read_at, read_left, taken) /\ read_buf # <<>>
          /\ read_left \in Nat \ {0}
      BY <2>2 DEF Inv, InInv, Filling
    <2>4. Filling(read_buf, read_size, read_at, read_left, taken')
          /\ taken - read_left \in Nat /\ (taken - read_left) + read_left = taken'
      BY <1>1, <2>1, <2>3 DEF Filling, Holds
    <2> QED BY <1>1, <2>1, <2>2, <2>3, <2>4, AcceptServed
  <1>5. CASE EncodeFrames(c)
    <2>1. /\ state = "encoding" /\ left = 0 /\ at = 0 /\ UNCHANGED inVars
          /\ encoder \in {"control_start", "frames"}
      BY <1>1, <1>5 DEF EncodeFrames, Empty, EncoderIn, ServedInv
    <2>2. PICK o \in Outcomes(0, 0) :
             /\ Encodes(o)
             /\ \/ EncodeFails(c, o, state, out, 0)
                \/ SendFrames(c, o.buf, o.at, o.left, o.res)
      BY <1>5, <2>1 DEF EncodeFrames
    <2>3. /\ o.res \notin {"error", "abort"} /\ o.left \in Nat \ {0}
          /\ encoder' = Encoding(encoder, dnstap).next /\ o.res = Encoding(encoder, dnstap).res
      BY <1>1, <2>1, <2>2, EncodesServed
    <2>4. SendFrames(c, o.buf, o.at, o.left, o.res)
      BY <2>2, <2>3 DEF EncodeFails
    <2>5. PICK n \in 1..o.left :
             /\ left' = o.left - n
             /\ state' = IF n = o.left THEN "encoding" ELSE "writing"
             /\ res' = o.res
      BY <2>3, <2>4, SendsSome DEF SendFrames, Sent
    <2>6. o.res \in {"again", "ok"} /\ encoder' = "frames"
      BY <2>1, <2>3 DEF Encoding
    <2>7. state' = "writing" => left' > 0
      BY <2>3, <2>5
    <2> QED BY <1>1, <2>1, <2>5, <2>6, <2>7, OutServed DEF AwaitsAccept
  <1>6. CASE WriteFrames(c)
    <2>1. /\ state = "writing" /\ left \in Nat \ {0} /\ UNCHANGED <<inVars, encoder>>
          /\ encoder \in {"control_start", "frames"}
          /\ SendFrames(c, buf, at, left, "again")
      BY <1>1, <1>6 DEF WriteFrames, EncoderIn, ServedInv
    <2>2. PICK n \in 1..left :
             /\ left' = left - n
             /\ state' = IF n = left THEN "encoding" ELSE "writing"
             /\ res' = "again"
      BY <2>1, SendsSome DEF SendFrames, Sent
    <2>3. state' = "writing" => left' > 0
      BY <2>1, <2>2
    <2> QED BY <1>1, <2>1, <2>2, <2>3, OutServed DEF AwaitsAccept
  (* STOP is encoded, and sent.                                              *)
  <1>7. ASSUME NEW b, NEW a, NEW l \in Nat \ {0}, NEW sent, SendStop(c, b, a, l, sent),
               UNCHANGED inVars, state \in {"stopping", "encoding_stop", "writing_stop"}
        PROVE  ServedInv'
    <2>1. PICK n \in 1..l :
             /\ left' = l - n
             /\ \/ n < l /\ state' = "writing_stop" /\ res' = "again"
                \/ n = l /\ state' = "reading_finish" /\ res' = "again"
                \/ n = l /\ state' = "done" /\ res' = "endofdata"
      BY <1>7, SendsSome DEF SendStop, Sent
    <2>2. state' = "writing_stop" => left' > 0
      BY <1>7, <2>1
    <2> QED BY <1>1, <1>7, <2>1, <2>2, OutServed DEF AwaitsAccept
  <1>8. ASSUME NEW given, NEW n, EncodeStop(c, 0, 0, given, n), UNCHANGED inVars,
               state \in {"stopping", "encoding_stop"}
        PROVE  ServedInv'
    <2>1. encoder = "control_stop"
      BY <1>1, <1>8 DEF EncoderIn
    <2>2. PICK o \in Outcomes(0, 0) :
             /\ Encodes(o)
             /\ \/ EncodeFails(c, o, "encoding_stop", given, n)
                \/ SendStop(c, o.buf, o.at, o.left, IF c.api = "pop" THEN out ELSE given)
      BY <1>8 DEF EncodeStop
    <2>3. o.res \notin {"error", "abort"} /\ o.left \in Nat \ {0}
      BY <1>1, <2>1, <2>2, EncodesServed
    <2>4. SendStop(c, o.buf, o.at, o.left, IF c.api = "pop" THEN out ELSE given)
      BY <2>2, <2>3 DEF EncodeFails
    <2> QED BY <1>7, <1>8, <2>3, <2>4
  <1>9. CASE Stopping(c)
    <2>1. state = "stopping" /\ UNCHANGED inVars
      BY <1>9 DEF Stopping
    <2>2. CASE left = 0 /\ EncodeStop(c, at, 0, out, 0)
      <3>1. at = 0
        BY <2>2 DEF Inv, OutInv, Loaded
      <3> QED BY <1>8, <2>1, <2>2, <3>1
    <2>3. CASE left > 0
      <3>1. left \in Nat \ {0} /\ ~SendFails(c, left)
        BY <1>1, <2>3, SendsSome
      <3>2. CASE state' = "stopping" /\ res' = "again"
        BY <1>1, <2>1, <3>2, OutServed DEF AwaitsAccept
      <3>3. CASE \E n \in Sends(c, left) :
                    n = left /\ EncodeStop(c, 0, 0, out \o Slice(buf, at - left, n), n)
        BY <1>8, <2>1, <3>3
      <3> QED BY <1>9, <2>3, <3>1, <3>2, <3>3 DEF Stopping
    <2> QED BY <1>1, <1>9, <2>2, <2>3 DEF Stopping
  <1>10. CASE EncodingStop(c)
    <2>1. state = "encoding_stop" /\ EncodeStop(c, 0, 0, out, 0) /\ UNCHANGED inVars
      BY <1>1, <1>10 DEF EncodingStop, Empty
    <2> QED BY <1>8, <2>1
  <1>11. CASE WriteStop(c)
    <2>1. /\ state = "writing_stop" /\ SendStop(c, buf, at, left, out) /\ UNCHANGED inVars
          /\ left \in Nat \ {0}
      BY <1>1, <1>11 DEF WriteStop, ServedInv
    <2> QED BY <1>7, <2>1
  <1>12. CASE ReadAnswer("finish", c)
    <2>1. state = "reading_finish" /\ UNCHANGED <<encoder, left>>
      BY <1>1, <1>12 DEF ReadAnswer, Reading
    <2> QED BY <1>1, <1>12, <2>1, FinishServed
  <1>13. ~WriteReady(c) /\ ~DecodeAnswer("finish", c) /\ ~Done(c)
    BY <1>1 DEF WriteReady, DecodeAnswer, Done
  <1> QED BY <1>2, <1>3, <1>4, <1>5, <1>6, <1>9, <1>10, <1>11, <1>12, <1>13 DEF Call

(* Nor does what its caller does between the calls disturb it.             *)
LEMMA CallerServed ==
    ASSUME Inv, ServedInv, \/ \E b \in Bidirectional : SetBidirectional(b)
                           \/ \E m \in Message : SetDnstap(m)
                           \/ StopCall
    PROVE  ServedInv'
  <1>1. CASE \E b \in Bidirectional : SetBidirectional(b)
    <2>1. PICK b \in Bidirectional : SetBidirectional(b)
      BY <1>1
    <2>2. /\ res = "init" /\ decoder = DecoderInit /\ read_left = 0 /\ taken = 0 /\ read_at = 0
      BY <2>1 DEF SetBidirectional, Inv, FreshInv, ServedInv
    <2>3. /\ UNCHANGED <<left, decoder, read_size, read_at, read_left, taken, max, res>>
          /\ \/ state' = "encoding_ready" /\ bidirectional'
             \/ state' = "encoding" /\ encoder' = "control_start" /\ ~bidirectional'
      BY <2>1, CallAssumption DEF SetBidirectional, tuneVars
    <2>4. AnswerAt(decoder, 0) /\ 0 - 0 = 0 /\ 0 < ContentLen
      BY <2>2, LengthAssumption DEF AnswerAt, ContentLen
    <2> QED BY <2>2, <2>3, <2>4 DEF ServedInv, AwaitsAccept
  <1>2. CASE \E m \in Message : SetDnstap(m)
    BY <1>2 DEF SetDnstap, ServedInv, AwaitsAccept, outVars, inVars, tuneVars
  <1>3. CASE StopCall
    <2>1. encoder = "frames" /\ state \in {"encoding", "writing"}
      BY <1>3 DEF StopCall, CanStop, Inv, StateInv, CallInv, EncoderIn, WriterState
    <2> QED BY <1>3, <2>1 DEF StopCall, ServedInv, AwaitsAccept, inVars, tuneVars, callVars
  <1> QED BY <1>1, <1>2, <1>3

LEMMA InitServed ==
    ASSUME Init
    PROVE  ServedInv
  BY DEF Init, ServedInv, AwaitsAccept

=============================================================================
