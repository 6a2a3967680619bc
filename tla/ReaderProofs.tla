---------------------------- MODULE ReaderProofs ----------------------------
(***************************************************************************)
(* Proofs about Reader for every stream, every cut of it into pushes and   *)
(* reads, every size of the buffers and every tuning; and, at the end, for *)
(* an orderly stream, which is what a writer sends.                        *)
(***************************************************************************)
EXTENDS Reader, CodingProofs

(* No increment is so large that adding it to a size wraps around size_t.   *)
NoWrap ==
    \A i \in Tunings \cup {InitInc}, m \in Tunings \cup {InitMax} : m + i < SizeMod

(* Taking: the reader waits for input or goes through it.                   *)
Taking == {"reading_control", "decoding_control", "reading", "decoding"}

(* l cells from offset a of b are the input from the d-th on.               *)
Holds(b, a, l, d) == \A i \in 1..l : b[a + i] = input[d + i]

(* The buffer: within its bounds, never empty in a state that decodes, and  *)
(* a window on the input between what was decoded and what was taken.       *)
InputInv ==
    /\ InputInBounds
    /\ size > 0
    /\ inc \in Tunings \cup {InitInc} /\ max \in Tunings \cup {InitMax}
    /\ state \in {"decoding_control", "decoding"} => left > 0
    /\ taken = decoded + left
    /\ Holds(buf, at, left, decoded)

(* The answer: nothing of it is there while input is taken, ACCEPT is the   *)
(* next to be encoded until the handshake is over, and wherever there is    *)
(* something to encode there is room for a cell of it.                      *)
AnswerInv ==
    /\ AnswerInBounds
    /\ WriteSize <= write_size /\ write_size <= WriteMax
    /\ allow_bidirectional \/ is_bidirectional => write_buf # <<>>
    /\ decoder.state \in Early =>
          encoder = IF allow_bidirectional THEN "control_accept" ELSE "control_start"
    /\ state \in Taking =>
          /\ write_at = 0
          /\ is_bidirectional => encoder \in {"control_accept", "control_finish"}
    /\ state \notin Taking => decoder.state \notin Early
    /\ state = "encoding_accept" =>
          is_bidirectional /\ encoder = "control_accept" /\ write_at = 0
    /\ state = "writing_accept" => is_bidirectional /\ encoder = "control_finish"
    /\ state = "encoding_finish" =>
          /\ is_bidirectional
          /\ \/ encoder = "control_accept" /\ write_at = 0
             \/ encoder = "control_finish" /\ write_at <= HeaderLen + FieldLen

(* Before the first call nothing has happened.                              *)
FreshInv ==
    res = "init" => state = "reading_control" /\ decoder = DecoderInit /\ ~is_bidirectional

(* What was encoded for the peer so far, when e is to be encoded next.      *)
AnswerSoFar(e) == CASE e = "control_finish" -> Accept
                    [] e = "done"           -> Accept \o Finish
                    [] OTHER                -> <<>>

ReadyDecoded == \E i \in 1..decoded : input[i][1].kind = "field" /\ input[i][2] = FieldLen

(* The content of the answer: what went out and what waits is what was      *)
(* encoded, and nothing is encoded but for a peer whose READY was decoded.  *)
ContentInv ==
    /\ encoder \in {"control_start", "control_accept", "control_finish", "done"}
    /\ out \o Slice(write_buf, write_at - write_left, write_left) = AnswerSoFar(encoder)
    /\ encoder \in {"control_finish", "done"} => is_bidirectional
    /\ state = "writing_finish" => encoder = "done"
    /\ is_bidirectional => ReadyDecoded
    /\ res = "endofdata" => out = IF is_bidirectional THEN Accept \o Finish ELSE <<>>

(* FINISH is what a reader sends and never what it is sent, and a STOP has  *)
(* no fields.                                                               *)
SentToReader(c) ==
    c[1].kind = "control" =>
        c[1].what # "FINISH" /\ (c[1].what = "STOP" => c[1].fields = 0)
AllSent(s) == \A i \in 1..Len(s) : SentToReader(s[i])
NoFinishSent == \A s \in Streams : AllSent(s.hello) /\ AllSent(s.body)

(* A reader that ends stands before a STOP.                                 *)
StopInv ==
    NoFinishSent =>
        /\ AllSent(input) /\ AllSent(rest)
        /\ state \in {"encoding_finish", "writing_finish", "done"} =>
              decoded < Len(input) /\ input[decoded + 1] = <<Control("STOP", 0), 1>>

Inv == TypeOK /\ NeverAborts /\ InputInv /\ AnswerInv /\ FreshInv
          /\ DeliveredInOrder /\ ContentInv /\ StopInv

-----------------------------------------------------------------------------
(***************************************************************************)
(* The buffer.  A call brings a block b with l cells to decode in it.      *)
(***************************************************************************)
(* What is in the block b before the decoder is entered.                    *)
Loaded(b, l) ==
    /\ b \in Seq(Cell) /\ Len(b) = size
    /\ size \in Nat /\ max \in Nat /\ at \in Nat /\ decoded \in Nat /\ taken' \in Nat
    /\ l \in Nat /\ l > 0 /\ at + l <= size /\ size <= max
    /\ taken' = decoded + l
    /\ Holds(b, at, l, decoded)

(* And what is in the buffer afterwards.                                    *)
Left ==
    /\ buf' \in Seq(Cell) /\ Len(buf') = size'
    /\ size' \in Nat /\ at' \in Nat /\ decoded' \in Nat
    /\ left' \in Nat /\ at' + left' <= size'
    /\ size <= size' /\ size' <= max
    /\ left' = 0 => at' = 0
    /\ taken' = decoded' + left'
    /\ Holds(buf', at', left', decoded')

(* Taking an element out leaves what followed it.                           *)
LEMMA ConsumeLeaves ==
    ASSUME NEW b \in Seq(Cell), NEW l \in Nat, Loaded(b, l), UNCHANGED input,
           NEW n \in 1..l, NEW emptied, NEW others, Consume(b, l, n, emptied, others)
    PROVE  /\ Left
           /\ IF left' = 0 THEN state' = emptied ELSE state' = others
  <1>1. buf' = b /\ state' = IF l = n THEN emptied ELSE others
    BY DEF Consume
  <1>2. /\ left' = l - n /\ decoded' = decoded + n /\ size' = size
        /\ at' = IF l = n THEN 0 ELSE at + n
    BY DEF Consume
  <1>3. /\ l \in Nat /\ at \in Nat /\ decoded \in Nat /\ size \in Nat /\ taken' \in Nat
        /\ max \in Nat
        /\ at + l <= size /\ size <= max /\ taken' = decoded + l
    BY DEF Loaded
  <1>4. b \in Seq(Cell) /\ Len(b) = size /\ Holds(b, at, l, decoded)
    BY DEF Loaded
  <1>5. ASSUME NEW i \in 1..left'
        PROVE  n + i \in 1..l /\ at' + i = at + (n + i) /\ decoded' + i = decoded + (n + i)
    BY <1>2, <1>3
  <1>6. Holds(buf', at', left', decoded')
    BY <1>1, <1>4, <1>5 DEF Holds
  <1>7. /\ size' \in Nat /\ at' \in Nat /\ decoded' \in Nat
        /\ left' \in Nat /\ at' + left' <= size'
        /\ size <= size' /\ size' <= max
        /\ left' = 0 => at' = 0
        /\ taken' = decoded' + left'
        /\ left' = 0 <=> l = n
    BY <1>2, <1>3
  <1> QED BY <1>1, <1>2, <1>4, <1>6, <1>7 DEF Left

(* Keeping it leaves everything.                                            *)
LEMMA KeepLeaves ==
    ASSUME NEW b \in Seq(Cell), NEW l \in Nat, Loaded(b, l), UNCHANGED input, NEW next, Keep(b, l, next)
    PROVE  Left /\ left' > 0 /\ state' = next
  <1>1. /\ buf' = b /\ left' = l /\ decoded' = decoded /\ size' = size /\ at' = at
        /\ state' = next
    BY DEF Keep
  <1> QED BY <1>1 DEF Loaded, Left, Holds

(* Neither compacting nor expanding loses anything, whatever realloc() does.*)
LEMMA NeedMoreLeaves ==
    ASSUME NEW b \in Seq(Cell), NEW l \in Nat, Loaded(b, l), UNCHANGED input,
           inc \in Nat \ {0}, size + inc < SizeMod,
           NEW ph \in Phase, NEW r, NEW more \in BOOLEAN, NeedMore(b, l, ph, r, more)
    PROVE  /\ Left /\ left' > 0
           /\ state' \in {ph.reading, ph.decoding}
           /\ res' \in {"again", "need_more", "error"}
           /\ res' = "need_more" => ~more
  <1> USE DEF Loaded
  <1>1. left' = l /\ decoded' = decoded
    BY DEF NeedMore
  <1>2. CASE /\ l < size
             /\ buf' = IF at > 0 THEN MoveToStart(b, at, l) ELSE b
             /\ at' = 0 /\ size' = size
    <2>1. CASE at = 0
      BY <1>1, <1>2, <2>1 DEF NeedMore, Left, Holds
    <2>2. CASE at > 0
      <3>1. /\ buf' \in Seq(Cell) /\ Len(buf') = size
            /\ \A i \in 1..l : buf'[i] = b[at + i]
        BY <1>2, <2>2, MoveToStartType
      <3>2. ASSUME NEW i \in 1..l
            PROVE  buf'[0 + i] = input[decoded + i]
        BY <3>1 DEF Holds
      <3>3. Holds(buf', at', left', decoded')
        BY <1>1, <1>2, <3>2 DEF Holds
      <3>4. Left
        BY <1>1, <1>2, <3>1, <3>3 DEF Left
      <3> QED BY <1>1, <3>4 DEF NeedMore
    <2> QED BY <2>1, <2>2
  <1>3. CASE /\ l >= size /\ size < max
             /\ size' = Expanded(size, inc, max)
             /\ buf' = Realloc(b, size') /\ at' = at
    <2>1. size' \in Nat /\ size < size' /\ size' <= max
      BY <1>3, ExpandedType
    <2>2. /\ buf' \in Seq(Cell) /\ Len(buf') = size'
          /\ \A i \in 1..size' : i <= Len(b) => buf'[i] = b[i]
      BY <1>3, <2>1, ReallocType
    <2>3. ASSUME NEW i \in 1..l
          PROVE  buf'[at' + i] = b[at + i]
      <3>1. at + i \in 1..size' /\ at + i <= Len(b)
        BY <2>1
      <3> QED BY <1>3, <2>2, <3>1
    <2>4. Left
      BY <1>1, <1>3, <2>1, <2>2, <2>3 DEF Left, Holds
    <2> QED BY <1>1, <2>4 DEF NeedMore
  <1>4. CASE buf' = b /\ at' = at /\ size' = size
    <2>1. Left
      BY <1>1, <1>4 DEF Left, Holds
    <2> QED BY <1>1, <2>1 DEF NeedMore
  <1> QED BY <1>2, <1>3, <1>4 DEF NeedMore

-----------------------------------------------------------------------------
(***************************************************************************)
(* Decoding.                                                               *)
(***************************************************************************)
(* As long as input is taken, only READY changes what there is to answer.   *)
LEMMA StillTaking ==
    ASSUME AnswerInv, state \in Taking, state' \in Taking,
           UNCHANGED <<outVars, allow_bidirectional, is_bidirectional>>,
           decoder'.state \in Early => decoder.state \in Early
    PROVE  AnswerInv'
  BY DEF AnswerInv, AnswerInBounds, Taking, outVars

(* A call that decodes keeps the buffer and the answer as they should be,   *)
(* fails no assertion, and does not ask for more when it has more.          *)
LEMMA DecodingKeeps ==
    ASSUME NEW b \in Seq(Cell), NEW l \in Nat, Loaded(b, l),
           TypeOK, AnswerInv,
           UNCHANGED <<input, outVars, allow_bidirectional>>,
           inc \in Nat \ {0}, size + inc < SizeMod,
           NEW ph \in Phase, state \in {ph.reading, ph.decoding},
           NEW more \in BOOLEAN, Decoding(b, l, ph, more)
    PROVE  /\ Left /\ AnswerInv'
           /\ state' \in ReaderState
           /\ state' \in {"decoding_control", "decoding"} => left' > 0
           /\ res' \in {"again", "need_more", "have_dnstap", "endofdata", "error"}
           /\ res' = "need_more" => ~more
           /\ decoder' \in DecoderType
           /\ is_bidirectional' \in BOOLEAN
           /\ delivered' \in Seq(Message)
  <1> DEFINE r == Decode(decoder, Window(b, l))
  <1>1. /\ Window(b, l) \in Seq(Cell) /\ Len(Window(b, l)) = l /\ Window(b, l) # <<>>
    <2>1. at \in Int /\ l > 0
      BY DEF TypeOK, Loaded
    <2> QED BY <2>1, SliceType DEF Window
  <1>2. decoder \in DecoderType /\ is_bidirectional \in BOOLEAN
        /\ allow_bidirectional \in BOOLEAN /\ delivered \in Seq(Message)
    BY DEF TypeOK
  <1>3. /\ r.decoder \in DecoderType
        /\ r.res \in DecodeResult
        /\ r.res \in Consuming => r.n \in 1..l
        /\ r.res = "have_dnstap" => r.msg \in Message
        /\ r.decoder.state \in Early => decoder.state \in Early
        /\ r.res = "bidirectional" => decoder.state \in Early /\ r.decoder.state \notin Early
        /\ r.res = "endofdata" => r.decoder.state \notin Early
    BY <1>1, <1>2, DecodeType
  <1> HIDE DEF r
  <1>4. /\ decoder' = r.decoder
        /\ \/ Again(b, l, ph, r)
           \/ Ready(b, l, ph, r)
           \/ NeedMore(b, l, ph, r, more)
           \/ HaveDnstap(b, l, r)
           \/ EndOfData(b, l, r)
           \/ DecodeError(b, l, ph, r)
    BY DEF Decoding, NothingToDecode, Loaded, r
  <1>5. ph.reading \in {"reading_control", "reading"}
        /\ ph.decoding \in {"decoding_control", "decoding"}
    BY DEF Phase, ControlPhase, FramePhase
  <1>6. state \in Taking
    BY <1>5 DEF Taking
  <1>7. decoder'.state \in Early => decoder.state \in Early
    BY <1>3, <1>4
  <1>8. CASE Again(b, l, ph, r)
    <2>1. r.n \in 1..l /\ Consume(b, l, r.n, ph.reading, ph.decoding)
      BY <1>3, <1>8 DEF Again, Consuming
    <2>2. Left /\ state' = IF left' = 0 THEN ph.reading ELSE ph.decoding
      BY <2>1, ConsumeLeaves
    <2>3. state' \in Taking /\ (state' \in {"decoding_control", "decoding"} => left' > 0)
      BY <2>2, <1>5 DEF Taking, Left
    <2>4. UNCHANGED <<is_bidirectional, delivered>> /\ res' = "again"
      BY <1>8 DEF Again
    <2>5. AnswerInv'
      BY <1>6, <1>7, <2>3, <2>4, StillTaking
    <2> QED BY <1>2, <1>3, <1>4, <2>2, <2>3, <2>4, <2>5 DEF Taking, ReaderState
  <1>9. CASE HaveDnstap(b, l, r)
    <2>1. r.n \in 1..l /\ r.msg \in Message /\ Consume(b, l, r.n, "reading", "decoding")
      BY <1>3, <1>9 DEF HaveDnstap, Consuming
    <2>2. Left /\ state' = IF left' = 0 THEN "reading" ELSE "decoding"
      BY <2>1, ConsumeLeaves
    <2>3. state' \in Taking /\ (state' \in {"decoding_control", "decoding"} => left' > 0)
      BY <2>2 DEF Taking, Left
    <2>4. /\ UNCHANGED is_bidirectional /\ res' = "have_dnstap"
          /\ delivered' = Append(delivered, r.msg)
      BY <1>9 DEF HaveDnstap
    <2>5. AnswerInv'
      BY <1>6, <1>7, <2>3, <2>4, StillTaking
    <2>6. delivered' \in Seq(Message)
      BY <1>2, <2>1, <2>4
    <2> QED BY <1>2, <1>3, <1>4, <2>2, <2>3, <2>4, <2>5, <2>6 DEF Taking, ReaderState
  <1>10. CASE NeedMore(b, l, ph, r, more)
    <2>1. /\ Left /\ left' > 0
          /\ state' \in {ph.reading, ph.decoding}
          /\ res' \in {"again", "need_more", "error"}
          /\ res' = "need_more" => ~more
      BY <1>10, NeedMoreLeaves
    <2>2. UNCHANGED <<is_bidirectional, delivered>>
      BY <1>10 DEF NeedMore
    <2>3. state' \in Taking
      BY <1>5, <2>1 DEF Taking
    <2>4. AnswerInv'
      BY <1>6, <1>7, <2>2, <2>3, StillTaking
    <2> QED BY <1>2, <1>3, <1>4, <2>1, <2>2, <2>3, <2>4 DEF Taking, ReaderState
  <1>11. CASE DecodeError(b, l, ph, r)
    <2>1. Keep(b, l, ph.decoding) /\ res' = "error" /\ UNCHANGED <<is_bidirectional, delivered>>
      BY <1>11 DEF DecodeError
    <2>2. Left /\ left' > 0 /\ state' = ph.decoding
      BY <2>1, KeepLeaves
    <2>3. state' \in Taking
      BY <1>5, <2>2 DEF Taking
    <2>4. AnswerInv'
      BY <1>6, <1>7, <2>1, <2>3, StillTaking
    <2> QED BY <1>2, <1>3, <1>4, <2>1, <2>2, <2>3, <2>4 DEF Taking, ReaderState
  <1>12. CASE EndOfData(b, l, r)
    <2>1. /\ Keep(b, l, IF is_bidirectional THEN "encoding_finish" ELSE "done")
          /\ res' \in {"again", "endofdata"}
          /\ UNCHANGED <<is_bidirectional, delivered>>
      BY <1>12 DEF EndOfData
    <2>2. Left /\ left' > 0 /\ state' = IF is_bidirectional THEN "encoding_finish" ELSE "done"
      BY <2>1, KeepLeaves
    <2>3. decoder'.state \notin Early
      BY <1>3, <1>4, <1>12 DEF EndOfData
    <2>4. AnswerInv'
      BY <1>6, <2>1, <2>2, <2>3, LengthAssumption DEF AnswerInv, AnswerInBounds, Taking, outVars
    <2> QED BY <1>2, <1>3, <1>4, <2>1, <2>2, <2>4 DEF ReaderState
  <1>13. CASE Ready(b, l, ph, r)
    <2>1. /\ r.res = "bidirectional" /\ ph = ControlPhase
          /\ is_bidirectional' = (allow_bidirectional \/ is_bidirectional)
          /\ UNCHANGED delivered
          /\ res' \in {"again", "error"}
      BY <1>13 DEF Ready
    <2>2. r.n \in 1..l /\ decoder.state \in Early /\ decoder'.state \notin Early
      BY <1>3, <1>4, <2>1 DEF Consuming
    <2>3. CASE allow_bidirectional /\ r.decoder.ready_support_dnstap_protobuf
      <3>1. Consume(b, l, r.n, "encoding_accept", "encoding_accept")
        BY <1>13, <2>3 DEF Ready
      <3>2. Left /\ state' = "encoding_accept"
        BY <2>2, <3>1, ConsumeLeaves
      <3>3. AnswerInv'
        BY <1>6, <2>1, <2>2, <2>3, <3>2 DEF AnswerInv, AnswerInBounds, Taking, outVars
      <3> QED BY <1>2, <1>3, <1>4, <2>1, <3>2, <3>3 DEF ReaderState
    <2>4. CASE ~(allow_bidirectional /\ r.decoder.ready_support_dnstap_protobuf)
      <3>1. Consume(b, l, r.n, ph.reading, ph.decoding)
        BY <1>13, <2>4 DEF Ready
      <3>2. Left /\ state' = IF left' = 0 THEN ph.reading ELSE ph.decoding
        BY <2>2, <3>1, ConsumeLeaves
      <3>3. state' \in Taking /\ (state' \in {"decoding_control", "decoding"} => left' > 0)
        BY <3>2, <1>5 DEF Taking, Left
      <3>4. AnswerInv'
        BY <1>2, <1>6, <2>1, <2>2, <3>3 DEF AnswerInv, AnswerInBounds, Taking, outVars
      <3> QED BY <1>2, <1>3, <1>4, <2>1, <3>2, <3>3, <3>4 DEF Taking, ReaderState
    <2> QED BY <2>3, <2>4
  <1> QED BY <1>4, <1>8, <1>9, <1>10, <1>11, <1>12, <1>13

-----------------------------------------------------------------------------
(***************************************************************************)
(* What was decoded.                                                       *)
(***************************************************************************)
(* The decoder sees the next cells of the input.                            *)
LEMMA WindowIsInput ==
    ASSUME TypeOK, NEW b \in Seq(Cell), NEW l \in Nat, Loaded(b, l), taken' <= Len(input)
    PROVE  /\ Window(b, l) \in Seq(Cell) /\ Len(Window(b, l)) = l /\ Window(b, l) # <<>>
           /\ \A i \in 1..l : Window(b, l)[i] = input[decoded + i]
           /\ \A n \in 1..l : /\ SubSeq(Window(b, l), 1, n) = SubSeq(input, decoded + 1, decoded + n)
                              /\ decoded + n <= Len(input)
  <1> DEFINE w == Window(b, l)
  <1>1. /\ at \in Nat /\ decoded \in Nat /\ l > 0 /\ at + l <= size /\ Len(b) = size
        /\ input \in Seq(Cell) /\ Len(input) \in Nat /\ decoded + l <= Len(input)
        /\ Holds(b, at, l, decoded)
    BY DEF Loaded, TypeOK
  <1>2. /\ w \in Seq(Cell) /\ Len(w) = l
        /\ \A i \in 1..l : at + i \in 1..Len(b) => w[i] = b[at + i]
    BY <1>1, SliceType DEF Window
  <1> HIDE DEF w
  <1>3. ASSUME NEW i \in 1..l
        PROVE  w[i] = input[decoded + i]
    <2>1. at + i \in 1..Len(b)
      BY <1>1
    <2> QED BY <1>1, <1>2, <2>1 DEF Holds
  <1>4. ASSUME NEW n \in 1..l
        PROVE  SubSeq(w, 1, n) = SubSeq(input, decoded + 1, decoded + n) /\ decoded + n <= Len(input)
    <2>1. decoded + n <= Len(input) /\ n \in Nat /\ n <= l
      BY <1>1
    <2> DEFINE x == SubSeq(w, 1, n)
               y == SubSeq(input, decoded + 1, decoded + n)
    <2>2. x \in Seq(Cell) /\ Len(x) = n /\ \A i \in 1..n : x[i] = w[i]
      BY <1>2, <2>1
    <2>3. y \in Seq(Cell) /\ Len(y) = n /\ \A i \in 1..n : y[i] = input[decoded + i]
      BY SMTT(30), <1>1, <2>1
    <2>4. \A i \in 1..n : x[i] = y[i]
      BY <1>3, <2>1, <2>2, <2>3
    <2> HIDE DEF x, y
    <2>5. x = y
      BY <2>2, <2>3, <2>4
    <2> QED BY <2>1, <2>5 DEF x, y
  <1>5. w # <<>>
    BY <1>1, <1>2
  <1> QED BY <1>2, <1>3, <1>4, <1>5 DEF w

LEMMA PrefixGrows ==
    ASSUME NEW s \in Seq(Cell), NEW d \in Nat, NEW n \in Nat, d + n <= Len(s)
    PROVE  /\ SubSeq(s, 1, d) \in Seq(Cell) /\ SubSeq(s, d + 1, d + n) \in Seq(Cell)
           /\ SubSeq(s, 1, d + n) = SubSeq(s, 1, d) \o SubSeq(s, d + 1, d + n)
  <1> DEFINE x == SubSeq(s, 1, d)
             y == SubSeq(s, d + 1, d + n)
             z == SubSeq(s, 1, d + n)
  <1>1. x \in Seq(Cell) /\ Len(x) = d /\ \A i \in 1..d : x[i] = s[i]
    OBVIOUS
  <1>2. y \in Seq(Cell) /\ Len(y) = n /\ \A i \in 1..n : y[i] = s[d + i]
    OBVIOUS
  <1>3. z \in Seq(Cell) /\ Len(z) = d + n /\ \A i \in 1..(d + n) : z[i] = s[i]
    OBVIOUS
  <1> HIDE DEF x, y, z
  <1>4. x \o y \in Seq(Cell) /\ Len(x \o y) = d + n
    <2>1. x \in Seq(Cell) /\ y \in Seq(Cell) /\ Len(x) = d /\ Len(y) = n
      BY <1>1, <1>2
    <2> QED BY <2>1
  <1>5. ASSUME NEW i \in 1..(d + n)
        PROVE  (x \o y)[i] = z[i]
    <2>0. i \in Nat /\ (i <= d \/ i > d)
      OBVIOUS
    <2>1. CASE i <= d
      BY <1>1, <1>2, <1>3, <2>1
    <2>2. CASE i > d
      <3>1. i - d \in 1..n /\ d + (i - d) = i
        BY <2>2
      <3>2. (x \o y)[i] = y[i - d]
        BY <1>1, <1>2, <2>2
      <3> QED BY <1>2, <1>3, <3>1, <3>2
    <2> QED BY <2>0, <2>1, <2>2
  <1>6. z = x \o y
    BY <1>3, <1>4, <1>5
  <1> QED BY <1>1, <1>2, <1>6 DEF x, y, z

(* What a call takes out of the buffer and what it hands over go together.  *)
LEMMA DecodingTakes ==
    ASSUME NEW b, NEW l \in Nat, l > 0, NEW ph \in Phase, NEW more, Decoding(b, l, ph, more)
    PROVE  LET r == Decode(decoder, Window(b, l)) IN
           \/ /\ r.res \in Consuming /\ decoded' = decoded + r.n
              /\ delivered' = IF r.res = "have_dnstap" THEN Append(delivered, r.msg) ELSE delivered
           \/ UNCHANGED <<decoded, delivered>>
  <1> DEFINE r == Decode(decoder, Window(b, l))
  <1>1. \/ Again(b, l, ph, r)
        \/ Ready(b, l, ph, r)
        \/ NeedMore(b, l, ph, r, more)
        \/ HaveDnstap(b, l, r)
        \/ EndOfData(b, l, r)
        \/ DecodeError(b, l, ph, r)
    BY DEF Decoding, NothingToDecode
  <1> HIDE DEF r
  <1>2. CASE Again(b, l, ph, r) \/ Ready(b, l, ph, r)
    <2>1. r.res \in {"again", "bidirectional"} /\ decoded' = decoded + r.n /\ UNCHANGED delivered
      BY <1>2 DEF Again, Ready, Consume
    <2> QED BY <2>1 DEF Consuming, r
  <1>3. CASE HaveDnstap(b, l, r)
    <2>1. /\ r.res = "have_dnstap" /\ decoded' = decoded + r.n
          /\ delivered' = Append(delivered, r.msg)
      BY <1>3 DEF HaveDnstap, Consume
    <2> QED BY <2>1 DEF Consuming, r
  <1>4. CASE NeedMore(b, l, ph, r, more) \/ EndOfData(b, l, r) \/ DecodeError(b, l, ph, r)
    BY <1>4 DEF NeedMore, EndOfData, DecodeError, Keep
  <1> QED BY <1>1, <1>2, <1>3, <1>4

(* The messages stay those of what was decoded.                             *)
LEMMA DecodingDelivers ==
    ASSUME TypeOK, DeliveredInOrder, NEW b \in Seq(Cell), NEW l \in Nat, Loaded(b, l),
           taken' <= Len(input), UNCHANGED input,
           NEW ph \in Phase, NEW more, Decoding(b, l, ph, more)
    PROVE  DeliveredInOrder'
  <1> DEFINE w == Window(b, l)
             r == Decode(decoder, w)
  <1>1. decoder \in DecoderType /\ delivered \in Seq(Message) /\ input \in Seq(Cell)
        /\ decoded \in Nat /\ l > 0
    BY DEF TypeOK, Loaded
  <1>2. /\ w \in Seq(Cell) /\ w # <<>> /\ Len(w) = l
        /\ \A n \in 1..l : /\ SubSeq(w, 1, n) = SubSeq(input, decoded + 1, decoded + n)
                           /\ decoded + n <= Len(input)
    BY WindowIsInput
  <1>3. \/ /\ r.res \in Consuming /\ decoded' = decoded + r.n
           /\ delivered' = IF r.res = "have_dnstap" THEN Append(delivered, r.msg) ELSE delivered
        \/ UNCHANGED <<decoded, delivered>>
    BY <1>1, DecodingTakes
  <1> HIDE DEF w
  <1>4. CASE UNCHANGED <<decoded, delivered>>
    BY <1>4 DEF DeliveredInOrder
  <1>5. CASE /\ r.res \in Consuming /\ decoded' = decoded + r.n
             /\ delivered' = IF r.res = "have_dnstap" THEN Append(delivered, r.msg) ELSE delivered
    <2> DEFINE n == r.n
    <2>1. n \in 1..l /\ (r.res = "have_dnstap" => r.msg \in Message)
      BY <1>1, <1>2, <1>5, DecodeType
    <2>2. Payloads(SubSeq(w, 1, n)) = IF r.res = "have_dnstap" THEN <<r.msg>> ELSE <<>>
      BY <1>1, <1>2, <1>5, DecodePayloads
    <2>3. decoded' = decoded + n
          /\ delivered' = IF r.res = "have_dnstap" THEN Append(delivered, r.msg) ELSE delivered
      BY <1>5
    <2> HIDE DEF r, n
    <2> DEFINE x == SubSeq(input, 1, decoded)
               y == SubSeq(input, decoded + 1, decoded + n)
    <2>4. /\ x \in Seq(Cell) /\ y \in Seq(Cell) /\ SubSeq(input, 1, decoded + n) = x \o y
          /\ y = SubSeq(w, 1, n)
      <3>1. decoded + n <= Len(input) /\ y = SubSeq(w, 1, n)
        BY <1>2, <2>1, Zenon
      <3>2. n \in Nat
        BY <2>1
      <3> QED BY <1>1, <3>1, <3>2, PrefixGrows
    <2>5. delivered = Payloads(x)
      BY DEF DeliveredInOrder
    <2> HIDE DEF x, y
    <2>6. Payloads(x \o y) = Payloads(x) \o Payloads(y)
      BY <2>4, PayloadsConcat
    <2>7. delivered' = delivered \o Payloads(y)
      <3>1. delivered \o <<>> = delivered /\ \A m : Append(delivered, m) = delivered \o <<m>>
        BY <1>1
      <3> QED BY <2>2, <2>3, <2>4, <3>1
    <2> QED BY <2>3, <2>4, <2>5, <2>6, <2>7 DEF DeliveredInOrder
  <1> QED BY <1>3, <1>4, <1>5

(* Decoding answers nothing; the handshake is on when all of READY is       *)
(* decoded, and a stream without one ends with nothing answered.            *)
LEMMA DecodingContent ==
    ASSUME TypeOK, AnswerInv, ContentInv, NEW b \in Seq(Cell), NEW l \in Nat, Loaded(b, l),
           taken' <= Len(input), UNCHANGED <<input, outVars>>,
           NEW ph \in Phase, state \in {ph.reading, ph.decoding},
           NEW more, Decoding(b, l, ph, more)
    PROVE  ContentInv'
  <1> DEFINE w == Window(b, l)
             r == Decode(decoder, w)
  <1>1. /\ w \in Seq(Cell) /\ w # <<>> /\ Len(w) = l
        /\ \A i \in 1..l : w[i] = input[decoded + i]
    BY WindowIsInput
  <1>2. /\ decoder \in DecoderType /\ decoded \in Nat /\ l > 0 /\ out \in Seq(Cell)
        /\ allow_bidirectional \in BOOLEAN /\ is_bidirectional \in BOOLEAN
        /\ write_left \in Nat /\ write_at \in Nat
    BY DEF TypeOK, Loaded
  <1>3. UNCHANGED <<encoder, write_buf, write_at, write_left, out>>
    BY DEF outVars
  <1>4. \/ Again(b, l, ph, r)
        \/ Ready(b, l, ph, r)
        \/ NeedMore(b, l, ph, r, more)
        \/ HaveDnstap(b, l, r)
        \/ EndOfData(b, l, r)
        \/ DecodeError(b, l, ph, r)
    BY <1>2 DEF Decoding, NothingToDecode
  <1>5. /\ ph.reading \in {"reading_control", "reading"}
        /\ ph.decoding \in {"decoding_control", "decoding"}
    BY DEF Phase, ControlPhase, FramePhase
  <1>6. state \in Taking
    BY <1>5 DEF Taking
  <1> HIDE DEF w
  <1>7. r.res \in Consuming => r.n \in 1..l
    BY <1>1, <1>2, DecodeType
  <1>8. decoded' \in Nat /\ decoded <= decoded'
    <2>1. (r.res \in Consuming /\ decoded' = decoded + r.n) \/ UNCHANGED decoded
      BY <1>2, DecodingTakes DEF w
    <2> HIDE DEF r
    <2> QED BY <1>2, <1>7, <2>1
  <1>9. r.res = "bidirectional" /\ decoded' = decoded + r.n => ReadyDecoded'
    <2> SUFFICES ASSUME r.res = "bidirectional", decoded' = decoded + r.n
                 PROVE  ReadyDecoded'
      OBVIOUS
    <2> DEFINE e == w[1][1]
    <2>1. r.res \in Consuming
      BY DEF Consuming
    <2>2. e \in Element /\ r.n = Size(e) /\ SubSeq(w, 1, r.n) = Cells(e) /\ e.kind = "field"
      BY <1>1, <1>2, <2>1, DecodeElement
    <2>3. r.n \in 1..l
      BY <1>7, <2>1
    <2> HIDE DEF r, e
    <2>4. r.n = FieldLen /\ Cells(e)[r.n] = <<e, r.n>>
      BY <2>2, <2>3, LengthAssumption DEF Size, Cells
    <2>5. w[r.n] = SubSeq(w, 1, r.n)[r.n]
      BY <1>1, <2>3
    <2>6. input[decoded + r.n] = <<e, FieldLen>>
      BY <1>1, <2>2, <2>3, <2>4, <2>5
    <2>7. decoded + r.n \in 1..decoded'
      BY <1>2, <2>3
    <2> QED BY <2>2, <2>6, <2>7 DEF ReadyDecoded
  <1> HIDE DEF r
  <1>10. /\ is_bidirectional => is_bidirectional'
         /\ is_bidirectional' => is_bidirectional \/ ReadyDecoded'
         /\ state' # "writing_finish"
         /\ res' = "endofdata" => ~is_bidirectional'
    <2>1. CASE Again(b, l, ph, r)
      BY <1>5, <2>1 DEF Again, Consume
    <2>2. CASE Ready(b, l, ph, r)
      <3>1. /\ is_bidirectional' = (allow_bidirectional \/ is_bidirectional)
            /\ res' \in {"again", "error"}
            /\ r.res = "bidirectional" /\ decoded' = decoded + r.n
            /\ state' \in {"encoding_accept", ph.reading, ph.decoding}
        BY <2>2 DEF Ready, Consume
      <3> QED BY <1>5, <1>9, <3>1
    <2>3. CASE NeedMore(b, l, ph, r, more)
      BY <1>5, <2>3 DEF NeedMore
    <2>4. CASE HaveDnstap(b, l, r)
      BY <2>4 DEF HaveDnstap, Consume
    <2>5. CASE EndOfData(b, l, r)
      BY <2>5 DEF EndOfData, Keep
    <2>6. CASE DecodeError(b, l, ph, r)
      BY <1>5, <2>6 DEF DecodeError, Keep
    <2> QED BY <1>4, <2>1, <2>2, <2>3, <2>4, <2>5, <2>6
  <1>11. ReadyDecoded => ReadyDecoded'
    BY <1>2, <1>8 DEF ReadyDecoded
  <1>12. ~is_bidirectional => out = <<>>
    <2> SUFFICES ASSUME ~is_bidirectional
                 PROVE  out = <<>>
      OBVIOUS
    <2>1. AnswerSoFar(encoder) = <<>>
      BY DEF ContentInv, AnswerSoFar
    <2>2. write_left = 0
      <3>1. write_at = 0 /\ write_left <= write_at
        BY <1>6 DEF AnswerInv, AnswerInBounds
      <3> QED BY <1>2, <3>1
    <2>3. out \o <<>> = <<>>
      BY <2>1, <2>2, SliceEmpty DEF ContentInv
    <2> QED BY <1>2, <2>3
  <1> QED BY <1>3, <1>10, <1>11, <1>12 DEF ContentInv

(* The decoder ends a stream only at a STOP when no FINISH is sent.         *)
LEMMA DecodingStops ==
    ASSUME TypeOK, StopInv, NEW b \in Seq(Cell), NEW l \in Nat, Loaded(b, l),
           taken' <= Len(input), UNCHANGED peerVars,
           NEW ph \in Phase, NEW more, Decoding(b, l, ph, more)
    PROVE  StopInv'
  <1> SUFFICES ASSUME NoFinishSent
               PROVE  /\ AllSent(input)' /\ AllSent(rest)'
                      /\ state' \in {"encoding_finish", "writing_finish", "done"} =>
                            decoded' < Len(input') /\ input'[decoded' + 1] = <<Control("STOP", 0), 1>>
    BY DEF StopInv
  <1>1. /\ UNCHANGED <<input, rest>> /\ AllSent(input) /\ AllSent(rest)
        /\ decoder \in DecoderType /\ decoded \in Nat /\ l > 0
        /\ input \in Seq(Cell) /\ Len(input) \in Nat
    BY DEF StopInv, peerVars, TypeOK, Loaded
  <1> DEFINE w == Window(b, l)
             r == Decode(decoder, w)
             e == w[1][1]
  <1>2. AllSent(input)' /\ AllSent(rest)'
    BY <1>1 DEF AllSent
  <1>3. ASSUME EndOfData(b, l, r)
        PROVE  decoded' < Len(input') /\ input'[decoded' + 1] = <<Control("STOP", 0), 1>>
    <2>1. decoded' = decoded /\ r.res = "endofdata"
      BY <1>3 DEF EndOfData, Keep
    <2>2. /\ w \in Seq(Cell) /\ w # <<>> /\ Len(w) = l
          /\ \A i \in 1..l : w[i] = input[decoded + i]
          /\ \A n \in 1..l : decoded + n <= Len(input)
      BY <1>1, WindowIsInput
    <2>3. w[1] = <<e, 1>> /\ e \in Element /\ e.kind = "control" /\ e.what \in {"STOP", "FINISH"}
      <3> HIDE DEF w
      <3> QED BY <1>1, <2>1, <2>2, DecodeStop
    <2> HIDE DEF w, e
    <2>4. w[1] = input[decoded + 1] /\ decoded + 1 <= Len(input) /\ decoded + 1 \in 1..Len(input)
      <3>1. 1 \in 1..l
        BY <1>1
      <3>2. w[1] = input[decoded + 1] /\ decoded + 1 <= Len(input)
        BY <2>2, <3>1
      <3> QED BY <1>1, <3>2
    <2>5. SentToReader(w[1])
      BY <1>1, <2>4 DEF AllSent
    <2>6. e.what = "STOP" /\ e.fields = 0
      BY <2>3, <2>5 DEF SentToReader
    <2>7. e = Control("STOP", 0)
      BY <2>3, <2>6 DEF Element, Control
    <2> QED BY <1>1, <2>1, <2>3, <2>4, <2>7
  <1> HIDE DEF r
  <1>4. /\ ph.reading \in {"reading_control", "reading"}
        /\ ph.decoding \in {"decoding_control", "decoding"}
    BY DEF Phase, ControlPhase, FramePhase
  <1>5. \/ EndOfData(b, l, r)
        \/ state' \in {"encoding_accept", "reading", "decoding", ph.reading, ph.decoding}
    <2>1. \/ Again(b, l, ph, r)
          \/ Ready(b, l, ph, r)
          \/ NeedMore(b, l, ph, r, more)
          \/ HaveDnstap(b, l, r)
          \/ EndOfData(b, l, r)
          \/ DecodeError(b, l, ph, r)
      BY <1>1 DEF Decoding, NothingToDecode, r
    <2> QED BY <2>1 DEF Again, Ready, NeedMore, HaveDnstap, DecodeError, Consume, Keep
  <1> QED BY <1>2, <1>3, <1>4, <1>5

-----------------------------------------------------------------------------
(***************************************************************************)
(* Answering.                                                              *)
(***************************************************************************)
(* What is written leaves what is left behind it in its place.              *)
LEMMA WriteKeeps ==
    ASSUME NEW b \in Seq(Cell), NEW a \in Nat, NEW l \in Nat, l <= a,
           NEW call, NEW k \in Nat, NEW ans \in Answer, out \in Seq(Cell),
           Write(call, k, b, a, l, ans)
    PROVE  /\ write_buf' = b
           /\ write_left' \in Nat /\ write_at' \in {0, a} /\ write_left' <= write_at'
           /\ \/ state' = ans.written /\ write_at' = 0
              \/ state' = ans.writing
           /\ res' \in {"again", "endofdata", "error"}
           /\ out' \in Seq(Cell)
  <1> DEFINE n == LeastOf(l, k)
  <1>1. ans.returns \in {"again", "endofdata"}
    BY DEF Answer
  <1>2. CASE Give(b, a, l, n, ans)
    <2>1. n \in Nat /\ n <= l /\ a - l \in Int
      BY DEF LeastOf
    <2>2. Slice(b, a - l, n) \in Seq(Cell)
      BY <2>1, SliceType
    <2> HIDE DEF n
    <2>3. out' \in Seq(Cell)
      BY <1>2, <2>2 DEF Give
    <2>4. /\ write_left' = l - n /\ write_at' = IF l = n THEN 0 ELSE a
          /\ write_buf' = b
          /\ state' = IF l = n THEN ans.written ELSE ans.writing
          /\ res' = IF l = n THEN ans.returns ELSE "again"
      BY <1>2 DEF Give
    <2>5. write_left' \in Nat /\ write_at' \in {0, a} /\ write_left' <= write_at'
      BY <2>1, <2>4
    <2> QED BY <1>1, <2>3, <2>4, <2>5
  <1>3. CASE GiveNothing(b, a, l, ans)
    BY <1>3 DEF GiveNothing
  <1> QED BY <1>2, <1>3 DEF Write

(* ACCEPT fits into what dnswire_reader_init() made the size, so it is      *)
(* encoded at once; FINISH may follow it when ACCEPT was never written.     *)
LEMMA EncodingKeeps ==
    ASSUME TypeOK, AnswerInv, NEW ans \in Answer, state = ans.encoding,
           NEW o \in EncodeLoop(encoder, NoDnstap, write_buf, write_size, WriteInc, WriteMax,
                                write_at, AllocMayFail)
    PROVE  /\ o.size \in Nat /\ WriteSize <= o.size /\ o.size <= WriteMax
           /\ o.buf \in Seq(Cell) /\ Len(o.buf) = o.size /\ o.buf # <<>>
           /\ o.cells \in Seq(Cell) /\ write_at + Len(o.cells) <= o.size
           /\ o.res # "abort" /\ o.state \in EncoderState
           /\ o.res = ans.encoded => o.state = IF ans.encoding = "encoding_accept"
                                               THEN "control_finish" ELSE "done"
           /\ o.res # ans.encoded =>
                 /\ ans.encoding = "encoding_finish"
                 /\ \/ /\ o.state = "control_finish"
                       /\ write_at + Len(o.cells) <= HeaderLen + FieldLen
                    \/ /\ o.state = "control_accept" /\ write_at + Len(o.cells) = 0
  <1> DEFINE x == Encoding(encoder, NoDnstap)
  <1>1. /\ write_buf \in Seq(Cell) /\ write_size \in Nat /\ write_at \in Nat
        /\ WriteSize \in Nat /\ WriteInc \in Nat /\ WriteMax \in Nat
        /\ HeaderLen \in Nat /\ FieldLen \in Nat
        /\ AllocMayFail \in BOOLEAN /\ encoder \in EncoderState
    BY SizeAssumption, CallAssumption, LengthAssumption DEF TypeOK
  <1>2. /\ ans.encoding \in {"encoding_accept", "encoding_finish"}
        /\ ans.encoded = IF ans.encoding = "encoding_accept" THEN "again" ELSE "endofdata"
    BY DEF Answer
  <1>3. /\ WriteSize <= write_size /\ write_size <= WriteMax
        /\ write_at <= HeaderLen + FieldLen
        /\ write_buf # <<>>
        /\ \/ encoder = "control_accept" /\ write_at = 0
           \/ encoder = "control_finish" /\ ans.encoding = "encoding_finish"
    BY <1>1, <1>2 DEF AnswerInv
  <1>4. /\ HeaderLen + FieldLen < write_size
        /\ write_at < write_size /\ write_at <= write_size
    BY <1>1, <1>3, AnswerAssumption
  <1>5. /\ x.cells \in Seq(Cell) /\ x.res # "abort"
        /\ encoder = "control_accept" =>
              Len(x.cells) = HeaderLen + FieldLen /\ x.res = "again" /\ x.next = "control_finish"
        /\ encoder = "control_finish" => x.res = "endofdata" /\ x.next = "done"
    BY <1>3, AnswerCells
  <1>6. /\ o.size \in Nat /\ write_size <= o.size /\ o.size <= WriteMax
        /\ o.buf \in Seq(Cell) /\ Len(o.buf) = o.size
        /\ o.cells \in Seq(Cell) /\ write_at + Len(o.cells) <= o.size
        /\ \/ o.cells = x.cells /\ o.res = x.res /\ o.state = x.next
           \/ /\ o.cells = <<>> /\ o.state = encoder
              /\ o.res \in {"error", "abort"}
              /\ o.res = "abort" => write_buf = <<>> \/ write_size <= write_at
              /\ \/ write_size < write_at + Len(x.cells)
                 \/ write_buf = <<>> \/ write_size <= write_at
    <2>1. /\ write_buf \in Seq(Cell) /\ write_size \in Nat /\ WriteInc \in Nat
          /\ WriteMax \in Nat /\ write_at \in Nat /\ AllocMayFail \in BOOLEAN
          /\ write_size <= WriteMax /\ write_at <= write_size
          /\ Encoding(encoder, NoDnstap).cells \in Seq(Cell)
      BY <1>1, <1>3, <1>4, <1>5
    <2> QED BY <2>1, EncodeLoopType
  <1> HIDE DEF x
  <1>7. o.buf # <<>> /\ WriteSize <= o.size
    BY <1>1, <1>3, <1>4, <1>6
  <1>8. CASE o.cells = x.cells /\ o.res = x.res /\ o.state = x.next
    BY <1>1, <1>2, <1>3, <1>5, <1>6, <1>7, <1>8 DEF EncoderState
  <1>9. CASE /\ o.cells = <<>> /\ o.state = encoder /\ o.res \in {"error", "abort"}
             /\ o.res = "abort" => write_buf = <<>> \/ write_size <= write_at
             /\ \/ write_size < write_at + Len(x.cells)
                \/ write_buf = <<>> \/ write_size <= write_at
    <2>1. ~(write_size <= write_at) /\ Len(o.cells) = 0 /\ write_at + Len(o.cells) = write_at
      BY <1>1, <1>4, <1>9
    <2>2. o.res = "error" /\ write_size < write_at + Len(x.cells)
      BY <1>3, <1>9, <2>1
    <2>3. encoder # "control_accept"
      BY <1>1, <1>3, <1>4, <1>5, <2>2
    <2> QED BY <1>2, <1>3, <1>6, <1>7, <1>9, <2>1, <2>2, <2>3 DEF EncoderState
  <1> QED BY <1>6, <1>8, <1>9

(* A call that answers keeps the answer as it should be and never fails an  *)
(* assertion; it goes back to taking input only when ACCEPT is written.     *)
LEMMA AnsweringKeeps ==
    ASSUME TypeOK, AnswerInv, UNCHANGED <<allow_bidirectional, is_bidirectional, decoder>>,
           NEW call, NEW k \in Nat, Answering(call, k)
    PROVE  /\ AnswerInv'
           /\ state' \in ReaderState \ {"decoding_control", "decoding"}
           /\ res' \in {"again", "endofdata", "error"}
           /\ encoder' \in EncoderState
           /\ write_buf' \in Seq(Cell) /\ out' \in Seq(Cell)
           /\ write_size' \in Nat /\ write_at' \in Nat /\ write_left' \in Nat
  <1>1. /\ write_buf \in Seq(Cell) /\ out \in Seq(Cell) /\ encoder \in EncoderState
        /\ write_size \in Nat /\ write_at \in Nat /\ write_left \in Nat
    BY DEF TypeOK
  <1>2. write_left <= write_at
    BY DEF AnswerInv, AnswerInBounds
  <1>3. PICK ans \in Answer :
           \/ state = ans.encoding /\ EncodeAndWrite(call, k, ans)
           \/ /\ state = ans.writing
              /\ Write(call, k, write_buf, write_at, write_left, ans)
              /\ UNCHANGED <<encoder, write_size>>
    BY DEF Answering
  <1>4. \/ /\ ans.encoding = "encoding_accept" /\ ans.writing = "writing_accept"
           /\ ans.written = "reading_control"
        \/ /\ ans.encoding = "encoding_finish" /\ ans.writing = "writing_finish"
           /\ ans.written = "done"
    BY DEF Answer
  <1>5. state \notin Taking /\ decoder.state \notin Early /\ decoder'.state \notin Early
    <2>1. state \notin Taking
      BY <1>3, <1>4 DEF Taking
    <2> QED BY <2>1 DEF AnswerInv
  <1>6. is_bidirectional \/ state \in {"writing_finish"}
    BY <1>3, <1>4 DEF AnswerInv
  <1>7. CASE state = ans.writing
    <2>1. Write(call, k, write_buf, write_at, write_left, ans) /\ UNCHANGED <<encoder, write_size>>
      BY <1>3, <1>4, <1>7
    <2>2. /\ write_buf' = write_buf
          /\ write_left' \in Nat /\ write_at' \in {0, write_at} /\ write_left' <= write_at'
          /\ \/ state' = ans.written /\ write_at' = 0
             \/ state' = ans.writing
          /\ res' \in {"again", "endofdata", "error"}
          /\ out' \in Seq(Cell)
      BY <1>1, <1>2, <2>1, WriteKeeps
    <2>3. AnswerInBounds'
      BY <1>1, <2>1, <2>2 DEF AnswerInv, AnswerInBounds
    <2>4. AnswerInv'
      BY <1>4, <1>5, <1>7, <2>1, <2>2, <2>3 DEF AnswerInv, Taking
    <2> QED BY <1>1, <1>4, <2>1, <2>2, <2>4 DEF ReaderState
  <1>8. CASE state = ans.encoding
    <2>1. EncodeAndWrite(call, k, ans)
      BY <1>3, <1>4, <1>8
    <2>2. PICK o \in EncodeLoop(encoder, NoDnstap, write_buf, write_size, WriteInc, WriteMax,
                                write_at, AllocMayFail) :
             /\ encoder' = o.state
             /\ write_size' = o.size
             /\ \/ /\ o.res = ans.encoded
                   /\ Write(call, k, o.buf, write_at + Len(o.cells), write_left + Len(o.cells), ans)
                \/ /\ o.res # ans.encoded
                   /\ res' = IF o.res = "abort" THEN "abort" ELSE "error"
                   /\ write_buf' = o.buf
                   /\ write_at' = write_at + Len(o.cells)
                   /\ write_left' = write_left + Len(o.cells)
                   /\ UNCHANGED <<state, out>>
      BY <2>1 DEF EncodeAndWrite
    <2>3. /\ o.size \in Nat /\ WriteSize <= o.size /\ o.size <= WriteMax
          /\ o.buf \in Seq(Cell) /\ Len(o.buf) = o.size /\ o.buf # <<>>
          /\ o.cells \in Seq(Cell) /\ write_at + Len(o.cells) <= o.size
          /\ o.res # "abort" /\ o.state \in EncoderState
          /\ o.res = ans.encoded => o.state = IF ans.encoding = "encoding_accept"
                                              THEN "control_finish" ELSE "done"
          /\ o.res # ans.encoded =>
                /\ ans.encoding = "encoding_finish"
                /\ \/ /\ o.state = "control_finish"
                      /\ write_at + Len(o.cells) <= HeaderLen + FieldLen
                   \/ /\ o.state = "control_accept" /\ write_at + Len(o.cells) = 0
      BY <1>8, EncodingKeeps
    <2> DEFINE a == write_at + Len(o.cells)
               l == write_left + Len(o.cells)
    <2>4. a \in Nat /\ l \in Nat /\ l <= a /\ a <= o.size
      BY <1>1, <1>2, <2>3
    <2>5. CASE o.res = ans.encoded
      <3>1. Write(call, k, o.buf, a, l, ans)
        BY <2>2, <2>5
      <3> HIDE DEF a, l
      <3>2. /\ write_buf' = o.buf
            /\ write_left' \in Nat /\ write_at' \in {0, a} /\ write_left' <= write_at'
            /\ \/ state' = ans.written /\ write_at' = 0
               \/ state' = ans.writing
            /\ res' \in {"again", "endofdata", "error"}
            /\ out' \in Seq(Cell)
        BY <1>1, <2>3, <2>4, <3>1, WriteKeeps
      <3>3. AnswerInBounds'
        BY <2>2, <2>3, <2>4, <3>2 DEF AnswerInBounds
      <3>4. is_bidirectional'
        BY <1>4, <1>6, <1>8
      <3>5. encoder' = IF ans.encoding = "encoding_accept" THEN "control_finish" ELSE "done"
        BY <2>2, <2>3, <2>5
      <3>6. WriteSize <= write_size' /\ write_size' <= WriteMax /\ write_buf' # <<>>
        BY <2>2, <2>3, <3>2
      <3>7. AnswerInv'
        BY <1>4, <1>5, <3>2, <3>3, <3>4, <3>5, <3>6 DEF AnswerInv, Taking
      <3> QED BY <1>4, <2>2, <2>3, <2>4, <3>2, <3>7 DEF ReaderState
    <2>6. CASE o.res # ans.encoded
      <3>1. /\ res' = "error" /\ write_buf' = o.buf /\ write_at' = a /\ write_left' = l
            /\ UNCHANGED <<state, out>>
        BY <2>2, <2>3, <2>6
      <3> HIDE DEF a, l
      <3>2. AnswerInBounds'
        BY <2>2, <2>3, <2>4, <3>1 DEF AnswerInBounds
      <3>3. /\ state' = "encoding_finish" /\ is_bidirectional'
            /\ \/ encoder' = "control_finish" /\ write_at' <= HeaderLen + FieldLen
               \/ encoder' = "control_accept" /\ write_at' = 0
        BY <1>4, <1>6, <1>8, <2>2, <2>3, <2>6, <3>1 DEF a
      <3>4. WriteSize <= write_size' /\ write_size' <= WriteMax /\ write_buf' # <<>>
        BY <2>2, <2>3, <3>1
      <3>5. AnswerInv'
        BY <1>5, <3>2, <3>3, <3>4 DEF AnswerInv, Taking
      <3> QED BY <1>1, <2>2, <2>3, <2>4, <3>1, <3>3, <3>5 DEF ReaderState
    <2> QED BY <2>5, <2>6
  <1> QED BY <1>3, <1>7, <1>8

(* What is written and what is left together stay what they were; a call    *)
(* says that the stream has ended when nothing of the answer is left.       *)
LEMMA WriteContent ==
    ASSUME NEW b \in Seq(Cell), NEW a \in Nat, NEW l \in Nat, l <= a,
           NEW call, NEW k \in Nat, NEW ans \in Answer, out \in Seq(Cell),
           NEW all \in Seq(Cell), out \o Slice(b, a - l, l) = all,
           Write(call, k, b, a, l, ans)
    PROVE  /\ out' \o Slice(write_buf', write_at' - write_left', write_left') = all
           /\ res' = "endofdata" => ans.encoding = "encoding_finish" /\ out' = all
           /\ state' \in {ans.written, ans.writing}
  <1>1. CASE GiveNothing(b, a, l, ans)
    BY <1>1 DEF GiveNothing
  <1>2. CASE Give(b, a, l, LeastOf(l, k), ans)
    <2> DEFINE n == LeastOf(l, k)
    <2>1. /\ write_buf' = b /\ write_left' = l - n /\ write_at' = (IF l = n THEN 0 ELSE a)
          /\ out' = out \o Slice(b, a - l, n)
          /\ state' \in {ans.written, ans.writing}
          /\ res' = IF l = n THEN ans.returns ELSE "again"
      BY <1>2 DEF Give
    <2>2. n \in Nat /\ n <= l
      BY DEF LeastOf
    <2> HIDE DEF n
    <2>3. out' \in Seq(Cell) /\ Joined(out', b, a, write_left', all)
      <3>1. Joined(out, b, a, l, all)
        BY DEF Joined
      <3> QED BY <2>1, <2>2, <3>1, PartGiven
    <2>4. CASE l = n
      <3>1. write_left' = 0 /\ Slice(write_buf', write_at' - write_left', write_left') = <<>>
            /\ Slice(b, a - write_left', write_left') = <<>>
        BY <2>1, <2>2, <2>4, SliceEmpty
      <3>2. out' \o <<>> = all
        BY <2>3, <3>1 DEF Joined
      <3>3. out' = all
        <4>1. \A s \in Seq(Cell) : s \o <<>> = s
          OBVIOUS
        <4> QED BY <2>3, <3>2, <4>1
      <3>4. ans.returns = "endofdata" => ans.encoding = "encoding_finish"
        BY DEF Answer
      <3> QED BY <2>1, <2>4, <3>1, <3>2, <3>3, <3>4
    <2>5. CASE l # n
      <3>1. out' \o Slice(write_buf', write_at' - write_left', write_left') = all
        BY <2>1, <2>3, <2>5 DEF Joined
      <3> QED BY <2>1, <2>5, <3>1
    <2> QED BY <2>4, <2>5
  <1> QED BY <1>1, <1>2 DEF Write

(* ACCEPT is encoded first, FINISH behind it.                               *)
LEMMA EncodingContent ==
    ASSUME TypeOK, AnswerInv, ContentInv, NEW ans \in Answer, state = ans.encoding,
           NEW o \in EncodeLoop(encoder, NoDnstap, write_buf, write_size, WriteInc, WriteMax,
                                write_at, AllocMayFail)
    PROVE  /\ o.state \in {"control_accept", "control_finish", "done"}
           /\ AnswerSoFar(o.state) \in Seq(Cell)
           /\ out \o Slice(o.buf, (write_at + Len(o.cells)) - (write_left + Len(o.cells)),
                            write_left + Len(o.cells)) = AnswerSoFar(o.state)
  <1> DEFINE x == Encoding(encoder, NoDnstap)
             p == write_at - write_left
  <1>1. /\ write_buf \in Seq(Cell) /\ write_size \in Nat /\ write_at \in Nat
        /\ write_left \in Nat /\ out \in Seq(Cell)
        /\ WriteInc \in Nat /\ WriteMax \in Nat /\ AllocMayFail \in BOOLEAN
    BY SizeAssumption, CallAssumption DEF TypeOK
  <1>2. ans.encoding \in {"encoding_accept", "encoding_finish"}
    BY DEF Answer
  <1>3. /\ encoder \in {"control_accept", "control_finish"}
        /\ write_buf # <<>> /\ Len(write_buf) = write_size /\ write_size <= WriteMax
        /\ write_left <= write_at /\ write_at <= write_size
    BY <1>2 DEF AnswerInv, AnswerInBounds
  <1>4. /\ x.cells \in Seq(Cell)
        /\ x.cells = (IF encoder = "control_accept" THEN Accept ELSE Finish)
        /\ x.next = (IF encoder = "control_accept" THEN "control_finish" ELSE "done")
        /\ Accept \in Seq(Cell) /\ Finish \in Seq(Cell)
    BY <1>3, AnswerCells DEF Accept, Finish
  <1>5. /\ o.cells \in Seq(Cell)
        /\ \/ o.cells = x.cells /\ o.state = x.next
           \/ o.cells = <<>> /\ o.state = encoder
    BY SMTT(30), <1>1, <1>3, <1>4, EncodeLoopType
  <1>6. Appends(o, write_buf, write_at)
    <2>1. write_size <= Len(write_buf)
      BY <1>1, <1>3
    <2> QED BY <1>1, <1>3, <1>4, <2>1, EncodeLoopExtends
  <1> HIDE DEF x
  <1>7. /\ p \in Nat /\ p + write_left = write_at
        /\ (write_at + Len(o.cells)) - (write_left + Len(o.cells)) = p
    <2>1. Len(o.cells) \in Nat
      BY <1>5
    <2> QED BY <1>1, <1>3, <2>1
  <1> DEFINE held == Slice(write_buf, p, write_left)
  <1>8. Slice(o.buf, p, write_left + Len(o.cells)) = held \o o.cells
    <2> HIDE DEF p
    <2> QED BY <1>1, <1>6, <1>7 DEF Appends
  <1>9. out \o held = AnswerSoFar(encoder)
    BY DEF ContentInv
  <1>10. held \in Seq(Cell)
    <2>1. p \in Int
      BY <1>7
    <2> HIDE DEF p
    <2> QED BY <1>1, <2>1, SliceType
  <1>11. out \o (held \o o.cells) = AnswerSoFar(encoder) \o o.cells
    <2> HIDE DEF held
    <2>1. (out \o held) \o o.cells = out \o (held \o o.cells)
      BY <1>1, <1>5, <1>10, ConcatAssociates
    <2> QED BY <1>9, <2>1
  <1>12. AnswerSoFar(encoder) \o o.cells = AnswerSoFar(o.state)
    <2>1. \A s \in Seq(Cell) : <<>> \o s = s /\ s \o <<>> = s
      OBVIOUS
    <2>2. AnswerSoFar(encoder) = IF encoder = "control_accept" THEN <<>> ELSE Accept
      BY <1>3 DEF AnswerSoFar
    <2>3. CASE o.cells = <<>> /\ o.state = encoder
      BY <1>3, <1>4, <2>1, <2>2, <2>3
    <2>4. CASE o.cells = x.cells /\ o.state = x.next
      <3>1. CASE encoder = "control_accept"
        <4>1. o.cells = Accept /\ AnswerSoFar(o.state) = Accept
          BY <1>4, <2>4, <3>1 DEF AnswerSoFar
        <4> QED BY <1>4, <2>1, <2>2, <3>1, <4>1
      <3>2. CASE encoder = "control_finish"
        <4>1. o.cells = Finish /\ AnswerSoFar(o.state) = Accept \o Finish
          BY <1>4, <2>4, <3>2 DEF AnswerSoFar
        <4> QED BY <2>2, <3>2, <4>1
      <3> QED BY <1>3, <3>1, <3>2
    <2> QED BY <1>5, <2>3, <2>4
  <1>13. o.state \in {"control_accept", "control_finish", "done"}
    BY <1>3, <1>4, <1>5
  <1>14. AnswerSoFar(o.state) \in Seq(Cell)
    <2>1. \A s, t \in Seq(Cell) : s \o t \in Seq(Cell)
      OBVIOUS
    <2>2. Accept \o Finish \in Seq(Cell)
      BY <1>4, <2>1
    <2> QED BY <1>4, <1>13, <2>2 DEF AnswerSoFar
  <1> HIDE DEF p, held
  <1> QED BY <1>7, <1>8, <1>11, <1>12, <1>13, <1>14

(* A call that answers gives the peer the next of ACCEPT and FINISH.        *)
LEMMA AnsweringContent ==
    ASSUME TypeOK, AnswerInv, ContentInv, UNCHANGED <<is_bidirectional, input, decoded>>,
           NEW call, NEW k \in Nat, Answering(call, k)
    PROVE  /\ ContentInv'
           /\ state' \in {"encoding_finish", "writing_finish", "done"} =>
                 state \in {"encoding_finish", "writing_finish"}
  <1>1. /\ write_buf \in Seq(Cell) /\ out \in Seq(Cell)
        /\ write_at \in Nat /\ write_left \in Nat /\ write_left <= write_at
        /\ encoder \in {"control_start", "control_accept", "control_finish", "done"}
        /\ out \o Slice(write_buf, write_at - write_left, write_left) = AnswerSoFar(encoder)
        /\ Accept \in Seq(Cell) /\ Finish \in Seq(Cell)
    BY AnswerCells DEF TypeOK, AnswerInv, AnswerInBounds, ContentInv, Accept, Finish
  <1>2. PICK ans \in Answer :
           \/ state = ans.encoding /\ EncodeAndWrite(call, k, ans)
           \/ /\ state = ans.writing
              /\ Write(call, k, write_buf, write_at, write_left, ans)
              /\ UNCHANGED <<encoder, write_size>>
    BY DEF Answering
  <1>3. \/ /\ ans.encoding = "encoding_accept" /\ ans.writing = "writing_accept"
           /\ ans.written = "reading_control" /\ ans.encoded = "again"
        \/ /\ ans.encoding = "encoding_finish" /\ ans.writing = "writing_finish"
           /\ ans.written = "done" /\ ans.encoded = "endofdata"
    BY DEF Answer
  <1>4. is_bidirectional => ReadyDecoded'
    BY DEF ContentInv, ReadyDecoded
  <1>5. CASE state = ans.writing
    <2>1. /\ Write(call, k, write_buf, write_at, write_left, ans)
          /\ UNCHANGED encoder
      BY <1>2, <1>3, <1>5
    <2>2. AnswerSoFar(encoder) \in Seq(Cell)
      <3>1. \A s, t \in Seq(Cell) : s \o t \in Seq(Cell)
        OBVIOUS
      <3>2. Accept \o Finish \in Seq(Cell)
        BY <1>1, <3>1
      <3> QED BY <1>1, <3>2 DEF AnswerSoFar
    <2>3. /\ out' \o Slice(write_buf', write_at' - write_left', write_left') = AnswerSoFar(encoder)
          /\ res' = "endofdata" => ans.encoding = "encoding_finish" /\ out' = AnswerSoFar(encoder)
          /\ state' \in {ans.written, ans.writing}
      BY <1>1, <2>1, <2>2, WriteContent
    <2>4. ans.encoding = "encoding_finish" => encoder = "done" /\ is_bidirectional
      BY <1>3, <1>5 DEF ContentInv
    <2>5. res' = "endofdata" => out' = Accept \o Finish
      BY <2>3, <2>4 DEF AnswerSoFar
    <2>6. ContentInv'
      BY <1>3, <1>4, <2>1, <2>3, <2>4, <2>5 DEF ContentInv
    <2> QED BY <1>3, <1>5, <2>3, <2>6
  <1>6. CASE state = ans.encoding
    <2>1. PICK o \in EncodeLoop(encoder, NoDnstap, write_buf, write_size, WriteInc, WriteMax,
                                write_at, AllocMayFail) :
             /\ encoder' = o.state
             /\ \/ /\ o.res = ans.encoded
                   /\ Write(call, k, o.buf, write_at + Len(o.cells), write_left + Len(o.cells), ans)
                \/ /\ o.res # ans.encoded
                   /\ res' = IF o.res = "abort" THEN "abort" ELSE "error"
                   /\ write_buf' = o.buf
                   /\ write_at' = write_at + Len(o.cells)
                   /\ write_left' = write_left + Len(o.cells)
                   /\ UNCHANGED <<state, out>>
      <3>1. EncodeAndWrite(call, k, ans)
        BY <1>2, <1>3, <1>6
      <3> QED BY <3>1 DEF EncodeAndWrite
    <2> DEFINE a == write_at + Len(o.cells)
               l == write_left + Len(o.cells)
    <2>2. /\ o.state \in {"control_accept", "control_finish", "done"}
          /\ AnswerSoFar(o.state) \in Seq(Cell)
          /\ out \o Slice(o.buf, a - l, l) = AnswerSoFar(o.state)
      BY <1>6, EncodingContent
    <2>3. /\ o.buf \in Seq(Cell) /\ o.cells \in Seq(Cell)
          /\ o.res = ans.encoded => o.state = IF ans.encoding = "encoding_accept"
                                              THEN "control_finish" ELSE "done"
      BY <1>6, EncodingKeeps
    <2>4. a \in Nat /\ l \in Nat /\ l <= a
      BY <1>1, <2>3
    <2>5. is_bidirectional
      BY <1>3, <1>6 DEF AnswerInv
    <2>6. CASE o.res = ans.encoded
      <3>1. Write(call, k, o.buf, a, l, ans)
        BY <2>1, <2>6
      <3> HIDE DEF a, l
      <3>2. /\ out' \o Slice(write_buf', write_at' - write_left', write_left') = AnswerSoFar(o.state)
            /\ res' = "endofdata" => ans.encoding = "encoding_finish" /\ out' = AnswerSoFar(o.state)
            /\ state' \in {ans.written, ans.writing}
        BY <1>1, <2>2, <2>3, <2>4, <3>1, WriteContent
      <3>3. ans.encoding = "encoding_finish" => o.state = "done"
        BY <1>3, <2>3, <2>6
      <3>4. res' = "endofdata" => out' = Accept \o Finish
        BY <3>2, <3>3 DEF AnswerSoFar
      <3>5. ContentInv'
        BY <1>3, <1>4, <2>1, <2>2, <2>5, <3>2, <3>3, <3>4 DEF ContentInv
      <3> QED BY <1>3, <1>6, <3>2, <3>5
    <2>7. CASE o.res # ans.encoded
      <3>1. /\ res' \in {"abort", "error"} /\ write_buf' = o.buf /\ write_at' = a
            /\ write_left' = l /\ UNCHANGED <<state, out>>
        BY <2>1, <2>7
      <3> HIDE DEF a, l
      <3>2. out' \o Slice(write_buf', write_at' - write_left', write_left') = AnswerSoFar(o.state)
        BY <2>2, <3>1
      <3>3. ContentInv'
        BY <1>3, <1>4, <1>6, <2>1, <2>2, <2>5, <3>1, <3>2 DEF ContentInv
      <3> QED BY <1>3, <1>6, <3>1, <3>3
    <2> QED BY <2>6, <2>7
  <1> QED BY <1>2, <1>5, <1>6

-----------------------------------------------------------------------------
(***************************************************************************)
(* The calls.                                                              *)
(***************************************************************************)
(* What of the invariant is arithmetic.                                     *)
LEMMA InputFacts ==
    ASSUME NoWrap, TypeOK, InputInv
    PROVE  /\ size \in Nat /\ max \in Nat /\ at \in Nat /\ left \in Nat
           /\ taken \in Nat /\ decoded \in Nat /\ Len(input) \in Nat
           /\ at + left <= size /\ size <= max /\ size > 0
           /\ left = 0 => at = 0
           /\ taken = decoded + left /\ taken <= Len(input)
           /\ inc \in Nat \ {0} /\ size + inc < SizeMod
  <1>1. /\ size \in Nat /\ max \in Nat /\ inc \in Nat /\ at \in Nat /\ left \in Nat
        /\ input \in Seq(Cell) /\ taken \in 0..Len(input) /\ decoded \in 0..taken
    BY DEF TypeOK
  <1>2. /\ at + left <= size /\ size <= max /\ size > 0
        /\ left = 0 => at = 0
        /\ taken = decoded + left
    BY DEF InputInv, InputInBounds
  <1>3. inc \in Nat \ {0}
    BY SizeAssumption, CallAssumption DEF InputInv
  <1>4. max + inc < SizeMod
    BY DEF NoWrap, InputInv
  <1> QED BY <1>1, <1>2, <1>3, <1>4, SizeModAssumption

(* The next cells of the input are put behind what is in the buffer.        *)
LEMMA TakeLoads ==
    ASSUME NoWrap, TypeOK, InputInv,
           NEW n \in Nat, n <= Space, n <= Available, left + n > 0, taken' = taken + n
    PROVE  /\ Overlay(buf, at + left, Slice(input, taken, n)) \in Seq(Cell)
           /\ left + n \in Nat
           /\ Loaded(Overlay(buf, at + left, Slice(input, taken, n)), left + n)
           /\ taken' \in 0..Len(input)
  <1> DEFINE s == Slice(input, taken, n)
             b == Overlay(buf, at + left, s)
  <1>1. buf \in Seq(Cell) /\ input \in Seq(Cell) /\ Len(buf) = size /\ Holds(buf, at, left, decoded)
    BY DEF TypeOK, InputInv, InputInBounds
  <1>2. /\ size \in Nat /\ max \in Nat /\ at \in Nat /\ left \in Nat
        /\ taken \in Nat /\ decoded \in Nat /\ Len(input) \in Nat
        /\ at + left <= size /\ size <= max
        /\ taken = decoded + left
        /\ n <= size - at - left /\ taken + n <= Len(input)
    <2>1. /\ size \in Nat /\ max \in Nat /\ at \in Nat /\ left \in Nat
          /\ taken \in Nat /\ decoded \in Nat /\ Len(input) \in Nat
          /\ at + left <= size /\ size <= max /\ taken = decoded + left
      BY InputFacts
    <2>2. n <= size - at - left /\ n <= Len(input) - taken
      BY DEF Space, Available
    <2> QED BY <2>1, <2>2
  <1>3. /\ s \in Seq(Cell) /\ Len(s) = n
        /\ \A i \in 1..n : taken + i \in 1..Len(input) => s[i] = input[taken + i]
    <2>1. input \in Seq(Cell) /\ taken \in Int
      BY <1>1, <1>2
    <2> QED BY <2>1, SliceType
  <1> HIDE DEF s
  <1>4. /\ b \in Seq(Cell) /\ Len(b) = size
        /\ \A i \in 1..size :
              b[i] = IF i - (at + left) \in 1..n THEN s[i - (at + left)] ELSE buf[i]
    <2> DEFINE k == at + left
    <2>1. k \in Int
      BY <1>2
    <2> HIDE DEF k
    <2>2. /\ Overlay(buf, k, s) \in Seq(Cell)
          /\ Len(Overlay(buf, k, s)) = Len(buf)
          /\ \A i \in 1..Len(buf) :
                Overlay(buf, k, s)[i] = IF i - k \in 1..Len(s) THEN s[i - k] ELSE buf[i]
      BY <1>1, <1>3, <2>1, OverlayType
    <2> QED BY <1>1, <1>3, <2>2 DEF k
  <1> HIDE DEF b
  <1>5. ASSUME NEW i \in 1..(left + n)
        PROVE  b[at + i] = input[decoded + i]
    <2>1. i \in Nat /\ at + i \in 1..size
      BY <1>2
    <2>2. CASE i <= left
      <3>1. i \in 1..left /\ (at + i) - (at + left) \notin 1..n
        BY <1>2, <2>1, <2>2
      <3>2. buf[at + i] = input[decoded + i]
        BY <1>1, <3>1 DEF Holds
      <3> QED BY <1>4, <2>1, <3>1, <3>2
    <2>3. CASE i > left
      <3>1. /\ (at + i) - (at + left) = i - left /\ i - left \in 1..n
            /\ taken + (i - left) = decoded + i /\ taken + (i - left) \in 1..Len(input)
        BY <1>2, <2>1, <2>3
      <3>2. s[i - left] = input[decoded + i]
        BY <1>3, <3>1
      <3> QED BY <1>4, <2>1, <3>1, <3>2
    <2> QED BY <2>1, <2>2, <2>3, <1>2
  <1>6. Holds(b, at, left + n, decoded)
    BY <1>5 DEF Holds
  <1>7. /\ left + n \in Nat /\ at + (left + n) <= size /\ taken' = decoded + (left + n)
        /\ taken' \in Nat /\ taken' \in 0..Len(input)
    BY <1>2
  <1>8. Loaded(b, left + n)
    BY <1>2, <1>4, <1>6, <1>7 DEF Loaded
  <1> QED BY <1>4, <1>7, <1>8 DEF b, s

(* A step that decodes keeps the invariant.                                 *)
LEMMA DecodingStep ==
    ASSUME NoWrap, Inv, NEW b \in Seq(Cell), NEW l \in Nat, Loaded(b, l),
           NEW ph \in Phase, state \in {ph.reading, ph.decoding},
           NEW more \in BOOLEAN, Decoding(b, l, ph, more),
           pushed' \in Nat, taken' \in 0..Len(input),
           UNCHANGED <<outVars, allow_bidirectional, peerVars, tuneVars>>
    PROVE  Inv' /\ size <= size' /\ (res' = "need_more" => ~more)
  <1> USE DEF Inv
  <1>1. inc \in Nat \ {0} /\ size + inc < SizeMod
    BY InputFacts
  <1>2. UNCHANGED <<input, outVars, allow_bidirectional>>
    BY DEF peerVars
  <1>3. /\ Left /\ AnswerInv'
        /\ state' \in ReaderState
        /\ state' \in {"decoding_control", "decoding"} => left' > 0
        /\ res' \in {"again", "need_more", "have_dnstap", "endofdata", "error"}
        /\ res' = "need_more" => ~more
        /\ decoder' \in DecoderType
        /\ is_bidirectional' \in BOOLEAN
        /\ delivered' \in Seq(Message)
    BY <1>1, <1>2, DecodingKeeps
  <1>4. /\ buf' \in Seq(Cell) /\ Len(buf') = size' /\ Holds(buf', at', left', decoded')
        /\ size' \in Nat /\ at' \in Nat /\ decoded' \in Nat /\ left' \in Nat
        /\ at' + left' <= size' /\ size <= size' /\ size' <= max
        /\ left' = 0 => at' = 0
        /\ taken' = decoded' + left'
    BY <1>3 DEF Left
  <1>5. size' > 0 /\ decoded' \in 0..taken'
    <2>1. size \in Nat /\ size > 0 /\ taken' \in Nat
      BY InputFacts DEF Loaded
    <2> QED BY <1>4, <2>1
  <1>6. /\ input' = input /\ rest' = rest /\ inc' = inc /\ max' = max /\ tunes' = tunes
        /\ write_buf' = write_buf /\ write_size' = write_size /\ write_at' = write_at
        /\ write_left' = write_left /\ out' = out /\ encoder' = encoder
        /\ allow_bidirectional' = allow_bidirectional
    BY DEF peerVars, tuneVars, outVars
  <1>7. TypeOK'
    <2>1. res' \in Result
      BY <1>3 DEF Result
    <2> QED BY <1>3, <1>4, <1>5, <1>6, <2>1 DEF TypeOK
  <1>8. InputInv'
    BY <1>3, <1>4, <1>5, <1>6 DEF InputInv, InputInBounds, Holds
  <1>9. NeverAborts' /\ FreshInv'
    BY <1>3 DEF NeverAborts, FreshInv
  <1>10. taken' <= Len(input)
    <2>1. Len(input) \in Nat
      BY DEF TypeOK
    <2> QED BY <2>1
  <1>11. DeliveredInOrder'
    BY <1>2, <1>10, DecodingDelivers
  <1>12. ContentInv'
    BY <1>2, <1>10, DecodingContent
  <1>13. StopInv'
    BY <1>10, DecodingStops
  <1> QED BY <1>3, <1>4, <1>7, <1>8, <1>9, <1>11, <1>12, <1>13

(* What is in the buffer already is loaded as it is.                        *)
LEMMA BufferLoaded ==
    ASSUME NoWrap, TypeOK, InputInv, state \in {"decoding_control", "decoding"},
           taken' = taken
    PROVE  /\ buf \in Seq(Cell) /\ left \in Nat
           /\ Loaded(buf, left)
           /\ taken' \in 0..Len(input)
  <1>1. /\ size \in Nat /\ max \in Nat /\ at \in Nat /\ left \in Nat
        /\ taken \in Nat /\ decoded \in Nat
        /\ at + left <= size /\ size <= max /\ taken = decoded + left
    BY InputFacts
  <1>2. /\ buf \in Seq(Cell) /\ Len(buf) = size /\ Holds(buf, at, left, decoded) /\ left > 0
        /\ taken \in 0..Len(input)
    BY DEF TypeOK, InputInv, InputInBounds
  <1> QED BY <1>1, <1>2 DEF Loaded

(* A step that answers keeps the invariant.                                 *)
LEMMA AnsweringStep ==
    ASSUME Inv, NEW call, NEW k \in Nat, Answering(call, k), pushed' \in Nat,
           UNCHANGED <<decoder, inVars, is_bidirectional, taken, decoded, delivered,
                       allow_bidirectional, peerVars, tuneVars>>
    PROVE  Inv' /\ UNCHANGED size /\ res' # "need_more"
  <1> USE DEF Inv
  <1>1. /\ AnswerInv'
        /\ state' \in ReaderState \ {"decoding_control", "decoding"}
        /\ res' \in {"again", "endofdata", "error"}
        /\ encoder' \in EncoderState
        /\ write_buf' \in Seq(Cell) /\ out' \in Seq(Cell)
        /\ write_size' \in Nat /\ write_at' \in Nat /\ write_left' \in Nat
    BY AnsweringKeeps
  <1>2. TypeOK'
    BY <1>1 DEF TypeOK, Result, inVars, peerVars, tuneVars
  <1>3. InputInv'
    BY <1>1 DEF InputInv, InputInBounds, Holds, inVars, peerVars, tuneVars
  <1>4. /\ ContentInv'
        /\ state' \in {"encoding_finish", "writing_finish", "done"} =>
              state \in {"encoding_finish", "writing_finish"}
    BY AnsweringContent DEF peerVars
  <1>5. StopInv'
    BY <1>4 DEF StopInv, AllSent, peerVars
  <1>6. DeliveredInOrder'
    BY DEF DeliveredInOrder, peerVars
  <1> QED BY <1>1, <1>2, <1>3, <1>4, <1>5, <1>6 DEF NeverAborts, FreshInv, inVars

(* A call that does nothing but return keeps the invariant.                 *)
LEMMA IdleStep ==
    ASSUME Inv, pushed' \in Nat, res' \in {"need_more", "error"},
           UNCHANGED <<state, decoder, inVars, outVars, bidirVars, peerVars, taken, decoded,
                       delivered, tuneVars>>
    PROVE  Inv' /\ UNCHANGED <<size, taken>>
  <1> USE DEF Inv, inVars, outVars, bidirVars, peerVars, tuneVars
  <1>1. TypeOK'
    BY DEF TypeOK, Result
  <1>2. InputInv'
    BY DEF InputInv, InputInBounds, Holds
  <1>3. AnswerInv'
    BY DEF AnswerInv, AnswerInBounds
  <1>4. DeliveredInOrder' /\ ContentInv' /\ StopInv'
    BY DEF DeliveredInOrder, ContentInv, ReadyDecoded, StopInv, AllSent
  <1> QED BY <1>1, <1>2, <1>3, <1>4 DEF NeverAborts, FreshInv

(* dnswire_reader_push() keeps the invariant, makes the buffer no smaller,  *)
(* and asks for more only when it has taken all it was given.               *)
LEMMA PushStep ==
    ASSUME NoWrap, Inv, NEW n \in 0..Available, NEW outlen \in OutLens, Push(n, outlen)
    PROVE  Inv' /\ size <= size' /\ (res' = "need_more" => taken' = taken + n)
  <1>1. /\ size \in Nat /\ at \in Nat /\ left \in Nat /\ taken \in Nat /\ Len(input) \in Nat
        /\ at + left <= size /\ size > 0 /\ (left = 0 => at = 0)
        /\ taken <= Len(input)
    BY InputFacts DEF Inv
  <1>2. /\ n \in Nat /\ Available \in Nat /\ n <= Available
        /\ Space \in Nat /\ (Space = 0 => left > 0)
    BY <1>1 DEF Available, Space
  <1>3. UNCHANGED <<allow_bidirectional, peerVars, tuneVars>>
    BY DEF Push
  <1>4. CASE PushInput(n) /\ UNCHANGED outVars
    <2>1. PICK ph \in Phase :
             \/ /\ state = ph.reading
                /\ n = 0
                /\ pushed' = 0
                /\ res' = "need_more"
                /\ UNCHANGED <<state, decoder, inVars, is_bidirectional, taken, decoded, delivered>>
             \/ /\ state = ph.reading
                /\ n > 0
                /\ pushed' = LeastOf(Space, n)
                /\ TakeAndDecode(LeastOf(Space, n), ph, Space < n)
             \/ /\ state = ph.decoding
                /\ pushed' = 0
                /\ Decoding(buf, left, ph, n > 0)
                /\ UNCHANGED taken
      BY <1>4 DEF PushInput
    <2>2. CASE /\ n = 0 /\ pushed' = 0 /\ res' = "need_more"
               /\ UNCHANGED <<state, decoder, inVars, is_bidirectional, taken, decoded, delivered>>
      <3>1. Inv' /\ UNCHANGED <<size, taken>>
        BY <1>3, <1>4, <2>2, IdleStep DEF bidirVars
      <3> QED BY <1>1, <2>2, <3>1
    <2>3. CASE /\ state = ph.reading /\ n > 0 /\ pushed' = LeastOf(Space, n)
               /\ TakeAndDecode(LeastOf(Space, n), ph, Space < n)
      <3> DEFINE m == LeastOf(Space, n)
                 b == Overlay(buf, at + left, Slice(input, taken, m))
                 more == Space < n
      <3>1. n > 0 /\ left \in Nat
        BY <1>1, <2>3
      <3>2. m \in Nat /\ m <= Space /\ m <= Available /\ left + m > 0 /\ (~more => m = n)
        BY <1>2, <3>1 DEF LeastOf
      <3>3. taken' = taken + m /\ Decoding(b, left + m, ph, more) /\ pushed' = m
        BY <2>3 DEF TakeAndDecode, Filled
      <3>4. more \in BOOLEAN
        OBVIOUS
      <3> HIDE DEF m, more
      <3>5. /\ b \in Seq(Cell) /\ left + m \in Nat /\ Loaded(b, left + m)
            /\ taken' \in 0..Len(input)
        BY <3>2, <3>3, TakeLoads DEF Inv
      <3> HIDE DEF b
      <3>6. Inv' /\ size <= size' /\ (res' = "need_more" => ~more)
        BY <1>3, <1>4, <2>3, <3>2, <3>3, <3>4, <3>5, DecodingStep
      <3> QED BY <3>2, <3>3, <3>6
    <2>4. CASE /\ state = ph.decoding /\ pushed' = 0 /\ Decoding(buf, left, ph, n > 0)
               /\ UNCHANGED taken
      <3>1. state \in {"decoding_control", "decoding"}
        BY <2>4 DEF Phase, ControlPhase, FramePhase
      <3>2. /\ buf \in Seq(Cell) /\ left \in Nat /\ Loaded(buf, left)
            /\ taken' \in 0..Len(input)
        BY <2>4, <3>1, BufferLoaded DEF Inv
      <3> DEFINE more == n > 0
      <3>3. more \in BOOLEAN /\ (~more => taken' = taken + n)
        BY <1>1, <1>2, <2>4
      <3>4. Decoding(buf, left, ph, more) /\ pushed' \in Nat
        BY <2>4
      <3> HIDE DEF more
      <3>5. Inv' /\ size <= size' /\ (res' = "need_more" => ~more)
        BY <1>3, <1>4, <2>4, <3>2, <3>3, <3>4, DecodingStep
      <3> QED BY <3>3, <3>5
    <2> QED BY <2>1, <2>2, <2>3, <2>4
  <1>5. CASE /\ Answering("push", outlen) /\ pushed' = 0
             /\ UNCHANGED <<decoder, inVars, is_bidirectional, taken, decoded, delivered>>
    <2>1. outlen \in Nat
      BY CallAssumption
    <2>2. Inv' /\ UNCHANGED size /\ res' # "need_more"
      BY <1>3, <1>5, <2>1, AnsweringStep
    <2> QED BY <1>1, <2>2
  <1>6. CASE /\ Done /\ pushed' = 0
             /\ UNCHANGED <<decoder, inVars, is_bidirectional, taken, decoded, delivered>>
    <2>1. res' = "error" /\ UNCHANGED <<state, outVars>>
      BY <1>6 DEF Done
    <2>2. Inv' /\ UNCHANGED <<size, taken>>
      BY <1>3, <1>6, <2>1, IdleStep DEF bidirVars
    <2> QED BY <1>1, <2>1, <2>2
  <1> QED BY <1>4, <1>5, <1>6 DEF Push

(* dnswire_reader_read() keeps the invariant and makes the buffer no        *)
(* smaller.                                                                 *)
LEMMA ReadStep ==
    ASSUME NoWrap, Inv, Read
    PROVE  Inv' /\ size <= size'
  <1>1. /\ size \in Nat /\ at \in Nat /\ left \in Nat /\ taken \in Nat /\ Len(input) \in Nat
        /\ at + left <= size /\ taken <= Len(input) /\ pushed \in Nat
    BY InputFacts DEF Inv, TypeOK
  <1>2. Space \in Nat /\ Available \in Nat
    BY <1>1 DEF Available, Space
  <1>3. UNCHANGED <<allow_bidirectional, peerVars, tuneVars>>
    BY DEF Read
  <1>4. CASE ReadInput /\ UNCHANGED outVars
    <2>1. PICK ph \in Phase :
             \/ /\ state = ph.reading
                /\ \E n \in 1..LeastOf(Space, Available) : TakeAndDecode(n, ph, FALSE)
                /\ UNCHANGED pushed
             \/ /\ res' = "error"
                /\ UNCHANGED <<state, decoder, inVars, pushed, is_bidirectional, taken,
                               decoded, delivered>>
             \/ /\ state = ph.decoding
                /\ Decoding(buf, left, ph, FALSE)
                /\ UNCHANGED <<pushed, taken>>
      BY <1>4 DEF ReadInput
    <2>2. ASSUME state = ph.reading, UNCHANGED pushed,
                 NEW n \in 1..LeastOf(Space, Available), TakeAndDecode(n, ph, FALSE)
          PROVE  Inv' /\ size <= size'
      <3> DEFINE b == Overlay(buf, at + left, Slice(input, taken, n))
      <3>1. n \in Nat /\ n <= Space /\ n <= Available /\ left + n > 0
        BY <1>1, <1>2 DEF LeastOf
      <3>2. taken' = taken + n /\ Decoding(b, left + n, ph, FALSE)
        BY <2>2 DEF TakeAndDecode, Filled
      <3>3. /\ b \in Seq(Cell) /\ left + n \in Nat /\ Loaded(b, left + n)
            /\ taken' \in 0..Len(input)
        BY <3>1, <3>2, TakeLoads DEF Inv
      <3>4. pushed' \in Nat
        BY <1>1, <2>2
      <3> HIDE DEF b
      <3> QED BY <1>3, <1>4, <2>2, <3>2, <3>3, <3>4, DecodingStep
    <2>3. CASE /\ res' = "error"
               /\ UNCHANGED <<state, decoder, inVars, pushed, is_bidirectional, taken,
                              decoded, delivered>>
      <3>1. Inv' /\ UNCHANGED <<size, taken>>
        BY <1>1, <1>3, <1>4, <2>3, IdleStep DEF bidirVars
      <3> QED BY <1>1, <3>1
    <2>4. CASE /\ state = ph.decoding /\ Decoding(buf, left, ph, FALSE)
               /\ UNCHANGED <<pushed, taken>>
      <3>1. state \in {"decoding_control", "decoding"}
        BY <2>4 DEF Phase, ControlPhase, FramePhase
      <3>2. /\ buf \in Seq(Cell) /\ left \in Nat /\ Loaded(buf, left)
            /\ taken' \in 0..Len(input)
        BY <2>4, <3>1, BufferLoaded DEF Inv
      <3> QED BY <1>1, <1>3, <1>4, <2>4, <3>2, DecodingStep
    <2> QED BY <2>1, <2>2, <2>3, <2>4
  <1>5. ASSUME NEW k \in (IF ShortWrites THEN 1..WriteMax ELSE {WriteMax}), Answering("read", k),
               UNCHANGED <<decoder, inVars, pushed, is_bidirectional, taken, decoded, delivered>>
        PROVE  Inv' /\ size <= size'
    <2>1. k \in Nat
      BY SizeAssumption
    <2>2. Inv' /\ UNCHANGED size
      BY <1>1, <1>3, <1>5, <2>1, AnsweringStep
    <2> QED BY <1>1, <2>2
  <1>6. CASE /\ Done
             /\ UNCHANGED <<decoder, inVars, pushed, is_bidirectional, taken, decoded, delivered>>
    <2>1. res' = "error" /\ UNCHANGED <<state, outVars>>
      BY <1>6 DEF Done
    <2>2. Inv' /\ UNCHANGED <<size, taken>>
      BY <1>1, <1>3, <1>6, <2>1, IdleStep DEF bidirVars
    <2> QED BY <1>1, <2>2
  <1> QED BY <1>4, <1>5, <1>6 DEF Read

(* What the peer has got stays what it is: a call puts more behind it.       *)
LEMMA WriteGrows ==
    ASSUME NEW b \in Seq(Cell), NEW a \in Nat, NEW l \in Nat, NEW call, NEW k \in Nat,
           NEW ans \in Answer, out \in Seq(Cell), Write(call, k, b, a, l, ans)
    PROVE  \E x \in Seq(Cell) : out' = out \o x
  <1> DEFINE n == LeastOf(l, k)
  <1>1. CASE Give(b, a, l, n, ans)
    <2>1. n \in Nat /\ a - l \in Int
      BY DEF LeastOf
    <2>2. Slice(b, a - l, n) \in Seq(Cell)
      BY <2>1, SliceType
    <2> HIDE DEF n
    <2> QED BY <1>1, <2>2 DEF Give
  <1>2. CASE UNCHANGED out
    <2>1. out = out \o <<>> /\ <<>> \in Seq(Cell)
      OBVIOUS
    <2> QED BY <1>2, <2>1
  <1> QED BY <1>1, <1>2 DEF Write, GiveNothing

LEMMA OutGrows ==
    ASSUME Inv, Read
    PROVE  \E x \in Seq(Cell) : out' = out \o x
  <1>1. /\ out \in Seq(Cell) /\ write_buf \in Seq(Cell)
        /\ write_at \in Nat /\ write_left \in Nat
    BY DEF Inv, TypeOK
  <1>2. CASE UNCHANGED out
    <2>1. out = out \o <<>> /\ <<>> \in Seq(Cell)
      BY <1>1
    <2> QED BY <1>2, <2>1
  <1>3. ASSUME NEW k \in (IF ShortWrites THEN 1..WriteMax ELSE {WriteMax}), Answering("read", k)
        PROVE  \E x \in Seq(Cell) : out' = out \o x
    <2>1. k \in Nat
      BY SizeAssumption
    <2>2. PICK ans \in Answer :
             \/ state = ans.encoding /\ EncodeAndWrite("read", k, ans)
             \/ Write("read", k, write_buf, write_at, write_left, ans)
      BY <1>3 DEF Answering
    <2>3. CASE state = ans.encoding /\ EncodeAndWrite("read", k, ans)
      <3>1. PICK o \in EncodeLoop(encoder, NoDnstap, write_buf, write_size, WriteInc, WriteMax,
                                  write_at, AllocMayFail) :
               \/ Write("read", k, o.buf, write_at + Len(o.cells), write_left + Len(o.cells), ans)
               \/ UNCHANGED out
        BY <2>3 DEF EncodeAndWrite
      <3>2. o.buf \in Seq(Cell) /\ o.cells \in Seq(Cell)
        BY <2>3, EncodingKeeps DEF Inv
      <3> DEFINE a == write_at + Len(o.cells)
                 l == write_left + Len(o.cells)
      <3>3. a \in Nat /\ l \in Nat
        BY <1>1, <3>2
      <3>4. Write("read", k, o.buf, a, l, ans) \/ UNCHANGED out
        BY <3>1
      <3> HIDE DEF a, l
      <3> QED BY <1>1, <1>2, <2>1, <3>2, <3>3, <3>4, WriteGrows
    <2> QED BY <1>1, <2>1, <2>2, <2>3, WriteGrows
  <1> QED BY <1>2, <1>3 DEF Read, Done, outVars

-----------------------------------------------------------------------------
(***************************************************************************)
(* The peer and the configuration.                                         *)
(***************************************************************************)
(* More to read changes nothing in the buffer.                              *)
LEMMA InputGrows ==
    ASSUME Inv, NEW x \in Seq(Cell), input' = input \o x, rest' \in Seq(Cell),
           NoFinishSent => AllSent(input') /\ AllSent(rest'),
           UNCHANGED <<state, decoder, inVars, pushed, outVars, bidirVars, res,
                       taken, decoded, delivered, tuneVars>>
    PROVE  Inv'
  <1>1. /\ input' = input \o x
        /\ UNCHANGED <<state, decoder, inVars, pushed, outVars, bidirVars, res,
                       taken, decoded, delivered, tuneVars>>
    OBVIOUS
  <1>2. /\ input \in Seq(Cell) /\ x \in Seq(Cell) /\ taken \in 0..Len(input)
        /\ decoded \in 0..taken /\ left \in Nat
    BY DEF Inv, TypeOK
  <1>3. /\ input' \in Seq(Cell) /\ rest' \in Seq(Cell)
        /\ Len(input') = Len(input) + Len(x)
        /\ \A i \in 1..Len(input) : input'[i] = input[i]
    BY <1>1, <1>2
  <1>4. taken \in 0..Len(input')
    <2>1. Len(input) \in Nat /\ Len(x) \in Nat
      BY <1>2
    <2> QED BY <1>2, <1>3, <2>1
  <1>5. ASSUME NEW i \in 1..left
        PROVE  buf[at + i] = input'[decoded + i]
    <2>1. taken = decoded + left /\ buf[at + i] = input[decoded + i]
      BY DEF Inv, InputInv, Holds
    <2>2. decoded + i \in 1..Len(input)
      <3>1. Len(input) \in Nat
        BY <1>2
      <3> QED BY <1>2, <2>1, <3>1
    <2> QED BY <1>3, <2>1, <2>2
  <1>6. TypeOK'
    BY <1>1, <1>3, <1>4
       DEF Inv, TypeOK, inVars, outVars, bidirVars, tuneVars
  <1>7. InputInv'
    BY <1>1, <1>5 DEF Inv, InputInv, InputInBounds, Holds, inVars, tuneVars
  <1>8. AnswerInv' /\ NeverAborts' /\ FreshInv'
    BY <1>1 DEF Inv, AnswerInv, AnswerInBounds, NeverAborts, FreshInv, outVars, bidirVars
  <1>9. decoded \in Nat /\ Len(input) \in Nat /\ Len(x) \in Nat /\ decoded <= Len(input)
    BY <1>2
  <1>10. SubSeq(input', 1, decoded) = SubSeq(input, 1, decoded)
    <2> DEFINE u == SubSeq(input, 1, decoded)
               v == SubSeq(input', 1, decoded)
    <2>1. u \in Seq(Cell) /\ Len(u) = decoded /\ \A i \in 1..decoded : u[i] = input[i]
      BY <1>2, <1>9
    <2>2. v \in Seq(Cell) /\ Len(v) = decoded /\ \A i \in 1..decoded : v[i] = input'[i]
      <3>1. decoded <= Len(input')
        BY <1>3, <1>9
      <3> QED BY <1>3, <1>9, <3>1
    <2>3. \A i \in 1..decoded : u[i] = v[i]
      <3>1. \A i \in 1..decoded : i \in 1..Len(input)
        BY <1>9
      <3> QED BY <1>3, <2>1, <2>2, <3>1
    <2> HIDE DEF u, v
    <2>4. u = v
      BY <2>1, <2>2, <2>3
    <2> QED BY <2>4 DEF u, v
  <1>11. DeliveredInOrder'
    BY <1>1, <1>10 DEF Inv, DeliveredInOrder
  <1>12. ReadyDecoded => ReadyDecoded'
    <2>1. \A i \in 1..decoded : i \in 1..Len(input)
      BY <1>9
    <2> QED BY <1>1, <1>3, <2>1 DEF ReadyDecoded
  <1>13. ContentInv'
    BY <1>1, <1>12 DEF Inv, ContentInv, outVars, bidirVars
  <1>14. StopInv'
    <2> SUFFICES ASSUME NoFinishSent
                 PROVE  /\ AllSent(input)' /\ AllSent(rest)'
                        /\ state' \in {"encoding_finish", "writing_finish", "done"} =>
                              decoded' < Len(input') /\ input'[decoded' + 1] = <<Control("STOP", 0), 1>>
      BY DEF StopInv
    <2>1. state \in {"encoding_finish", "writing_finish", "done"} =>
             decoded < Len(input) /\ input[decoded + 1] = <<Control("STOP", 0), 1>>
      BY DEF Inv, StopInv
    <2>2. AllSent(input)' /\ AllSent(rest)'
      BY DEF AllSent
    <2>3. decoded < Len(input) => decoded < Len(input') /\ decoded + 1 \in 1..Len(input)
      BY <1>3, <1>9
    <2> QED BY <1>1, <1>3, <2>1, <2>2, <2>3
  <1> QED BY <1>6, <1>7, <1>8, <1>11, <1>13, <1>14 DEF Inv

LEMMA PeerSendStep ==
    ASSUME Inv, PeerSend
    PROVE  Inv'
  <1>1. /\ input' = input \o rest /\ rest' = <<>>
        /\ UNCHANGED <<state, decoder, inVars, pushed, outVars, bidirVars, res,
                       taken, decoded, delivered, tuneVars>>
    BY DEF PeerSend
  <1>2. input \in Seq(Cell) /\ rest \in Seq(Cell) /\ <<>> \in Seq(Cell)
    BY DEF Inv, TypeOK
  <1>3. /\ Len(input') = Len(input) + Len(rest) /\ Len(input) \in Nat /\ Len(rest) \in Nat
        /\ \A i \in 1..Len(input) : input'[i] = input[i]
    BY <1>1, <1>2
  <1>4. ASSUME NoFinishSent, NEW i \in 1..Len(input')
        PROVE  SentToReader(input'[i])
    <2>1. AllSent(input) /\ AllSent(rest)
      BY <1>4 DEF Inv, StopInv
    <2>2. CASE i \in 1..Len(input)
      BY <1>3, <2>1, <2>2 DEF AllSent
    <2>3. CASE i \notin 1..Len(input)
      <3>1. i - Len(input) \in 1..Len(rest)
        BY <1>3, <2>3
      <3>2. input'[i] = rest[i - Len(input)]
        BY <1>1, <1>2, <1>3, <2>3
      <3> QED BY <2>1, <3>1, <3>2 DEF AllSent
    <2> QED BY <2>2, <2>3
  <1>5. NoFinishSent => AllSent(input') /\ AllSent(rest')
    BY <1>1, <1>4 DEF AllSent
  <1> QED BY <1>1, <1>2, <1>5, InputGrows

(* Allowing the handshake provides the block for the answer.                *)
LEMMA AllowBidirectionalStep ==
    ASSUME Inv, NEW b \in Bidirectional, AllowBidirectional(b)
    PROVE  Inv'
  <1>1. /\ res = "init" /\ allow_bidirectional' = b
        /\ UNCHANGED <<state, decoder, inVars, pushed, write_size, write_at, write_left, out,
                       is_bidirectional, res, peerVars, taken, decoded, delivered, tuneVars>>
        /\ encoder' = IF b THEN "control_accept" ELSE "control_start"
        /\ write_buf' = IF b /\ write_buf = <<>> THEN [i \in 1..write_size |-> Junk] ELSE write_buf
    BY DEF AllowBidirectional
  <1>2. b \in BOOLEAN
    BY CallAssumption
  <1>3. /\ write_buf \in Seq(Cell) /\ write_size \in Nat /\ write_size > 0
        /\ write_buf # <<>> => Len(write_buf) = write_size
    BY SizeAssumption DEF Inv, TypeOK, AnswerInv, AnswerInBounds
  <1>4. /\ write_buf' \in Seq(Cell)
        /\ write_buf' # <<>> => Len(write_buf') = write_size
        /\ b => write_buf' # <<>>
    <2>1. /\ [i \in 1..write_size |-> Junk] \in Seq(Cell)
          /\ Len([i \in 1..write_size |-> Junk]) = write_size
      BY <1>3, JunkType
    <2> QED BY <1>1, <1>2, <1>3, <2>1
  <1>5. state = "reading_control" /\ ~is_bidirectional /\ write_at = 0
    BY <1>1 DEF Inv, FreshInv, AnswerInv, Taking
  <1>6. TypeOK'
    BY <1>1, <1>2, <1>4 DEF Inv, TypeOK, EncoderState, inVars, peerVars, tuneVars
  <1>7. InputInv'
    BY <1>1 DEF Inv, InputInv, InputInBounds, Holds, inVars, peerVars, tuneVars
  <1>8. AnswerInv'
    BY <1>1, <1>2, <1>4, <1>5 DEF Inv, AnswerInv, AnswerInBounds, Taking
  <1>9. ContentInv'
    <2>1. encoder \in {"control_start", "control_accept"}
      BY <1>5 DEF Inv, ContentInv
    <2>2. write_left = 0
      <3>1. write_left \in Nat /\ write_left <= write_at
        BY DEF Inv, TypeOK, AnswerInv, AnswerInBounds
      <3> QED BY <1>5, <3>1
    <2>3. /\ Slice(write_buf, write_at - write_left, write_left) = <<>>
          /\ Slice(write_buf', write_at' - write_left', write_left') = <<>>
      BY <1>1, <2>2, SliceEmpty
    <2>4. AnswerSoFar(encoder') = AnswerSoFar(encoder)
      BY <1>1, <2>1 DEF AnswerSoFar
    <2>5. encoder' \in {"control_start", "control_accept"}
      BY <1>1
    <2> QED BY <1>1, <1>5, <2>3, <2>4, <2>5 DEF Inv, ContentInv
  <1>10. DeliveredInOrder' /\ StopInv'
    BY <1>1 DEF Inv, DeliveredInOrder, StopInv, AllSent, peerVars
  <1> QED BY <1>1, <1>6, <1>7, <1>8, <1>9, <1>10 DEF Inv, NeverAborts, FreshInv

(* Tuning that keeps the window inside the buffer keeps the invariant.      *)
LEMMA TuneKeeps ==
    ASSUME Inv, Tune,
           buf' \in Seq(Cell), Len(buf') = size', size' \in Nat, size' > 0, at' \in Nat,
           at' + left <= size', size' <= max', left = 0 => at' = 0,
           inc' \in Nat, max' \in Nat,
           inc' \in Tunings \cup {InitInc}, max' \in Tunings \cup {InitMax},
           Holds(buf', at', left, decoded)
    PROVE  Inv'
  <1>1. /\ tunes' = tunes + 1 /\ tunes < MaxTunes
        /\ UNCHANGED <<state, decoder, left, pushed, outVars, bidirVars, res,
                       peerVars, taken, decoded, delivered>>
    BY DEF Tune
  <1>2. tunes' \in 0..MaxTunes
    BY <1>1, CallAssumption DEF Inv, TypeOK
  <1>3. TypeOK'
    BY <1>1, <1>2 DEF Inv, TypeOK, outVars, bidirVars, peerVars
  <1>4. InputInv'
    BY <1>1 DEF Inv, InputInv, InputInBounds, Holds, peerVars
  <1>5. AnswerInv' /\ NeverAborts' /\ FreshInv'
    BY <1>1 DEF Inv, AnswerInv, AnswerInBounds, NeverAborts, FreshInv, outVars, bidirVars
  <1>6. DeliveredInOrder' /\ ContentInv' /\ StopInv'
    BY <1>1 DEF Inv, DeliveredInOrder, ContentInv, ReadyDecoded, StopInv, AllSent, outVars,
                bidirVars, peerVars
  <1> QED BY <1>3, <1>4, <1>5, <1>6 DEF Inv

(* dnswire_reader_set_bufsize() keeps what is in the buffer, moved to the   *)
(* start or not, and whether or not realloc() succeeds.                     *)
LEMMA SetBufsizeStep ==
    ASSUME NoWrap, Inv, NEW n \in Tunings, SetBufsize(n)
    PROVE  Inv'
  <1>1. /\ size \in Nat /\ max \in Nat /\ at \in Nat /\ left \in Nat /\ decoded \in Nat
        /\ at + left <= size /\ size <= max /\ size > 0 /\ (left = 0 => at = 0)
    BY InputFacts DEF Inv
  <1>2. /\ buf \in Seq(Cell) /\ Len(buf) = size /\ Holds(buf, at, left, decoded)
        /\ inc \in Nat /\ inc \in Tunings \cup {InitInc} /\ max \in Tunings \cup {InitMax}
    BY DEF Inv, TypeOK, InputInv, InputInBounds
  <1>3. n \in Nat /\ n > 0
    BY CallAssumption
  <1>4. Tune /\ inc' = inc /\ max' = max /\ left <= n /\ n <= max
    BY DEF SetBufsize
  <1> DEFINE moved == MoveToStart(buf, at, left)
  <1>5. /\ moved \in Seq(Cell) /\ Len(moved) = size
        /\ \A i \in 1..left : moved[i] = buf[at + i]
    BY <1>1, <1>2, MoveToStartType
  <1> HIDE DEF moved
  <1>6. ASSUME NEW b \in Seq(Cell), \A i \in 1..left : b[i] = moved[i]
        PROVE  Holds(b, 0, left, decoded)
    <2>1. ASSUME NEW i \in 1..left
          PROVE  b[0 + i] = input[decoded + i]
      BY <1>2, <1>5, <1>6 DEF Holds
    <2> QED BY <2>1 DEF Holds
  <1>7. CASE buf' = Realloc(moved, n) /\ at' = 0 /\ size' = n
    <2>1. /\ buf' \in Seq(Cell) /\ Len(buf') = n
          /\ \A i \in 1..n : i <= size => buf'[i] = moved[i]
      BY <1>3, <1>5, <1>7, ReallocType
    <2>2. \A i \in 1..left : i \in 1..n /\ i <= size
      BY <1>1, <1>3, <1>4
    <2>3. Holds(buf', 0, left, decoded)
      BY <1>6, <2>1, <2>2
    <2> QED BY <1>1, <1>2, <1>3, <1>4, <1>7, <2>1, <2>3, TuneKeeps
  <1>8. CASE buf' = Realloc(buf, n) /\ at' = at /\ size' = n /\ at + left <= n
    <2>1. /\ buf' \in Seq(Cell) /\ Len(buf') = n
          /\ \A i \in 1..n : i <= size => buf'[i] = buf[i]
      BY <1>2, <1>3, <1>8, ReallocType
    <2>2. \A i \in 1..left : at + i \in 1..n /\ at + i <= size
      BY <1>1, <1>3, <1>8
    <2>3. Holds(buf', at, left, decoded)
      BY <1>2, <2>1, <2>2 DEF Holds
    <2> QED BY <1>1, <1>2, <1>3, <1>4, <1>8, <2>1, <2>3, TuneKeeps
  <1>9. CASE buf' = moved /\ at' = 0 /\ size' = size
    <2>1. Holds(buf', 0, left, decoded)
      BY <1>5, <1>6, <1>9
    <2> QED BY <1>1, <1>2, <1>4, <1>5, <1>9, <2>1, TuneKeeps
  <1> QED BY <1>7, <1>8, <1>9 DEF SetBufsize, moved

(* dnswire_reader_set_bufinc() and dnswire_reader_set_bufmax() keep the     *)
(* maximum above the size.                                                  *)
LEMMA SetBufStep ==
    ASSUME NoWrap, Inv, NEW n \in Tunings, SetBufinc(n) \/ SetBufmax(n)
    PROVE  Inv'
  <1>1. /\ size \in Nat /\ max \in Nat /\ at \in Nat /\ left \in Nat /\ inc \in Nat
        /\ at + left <= size /\ size <= max /\ size > 0 /\ (left = 0 => at = 0)
    BY InputFacts DEF Inv
  <1>2. /\ buf \in Seq(Cell) /\ Len(buf) = size /\ Holds(buf, at, left, decoded)
        /\ inc \in Tunings \cup {InitInc} /\ max \in Tunings \cup {InitMax}
    BY DEF Inv, TypeOK, InputInv, InputInBounds
  <1>3. n \in Nat
    BY CallAssumption
  <1>4. /\ Tune /\ UNCHANGED <<buf, size, at>>
        /\ \/ inc' = n /\ max' = max
           \/ inc' = inc /\ max' = n /\ n >= size
    BY DEF SetBufinc, SetBufmax
  <1> QED BY <1>1, <1>2, <1>3, <1>4, TuneKeeps

-----------------------------------------------------------------------------
(***************************************************************************)
(* The theorems.                                                           *)
(***************************************************************************)
(* The invariant holds at the start.                                        *)
LEMMA InitInv ==
    ASSUME NoWrap, Init
    PROVE  Inv
  <1>1. PICK s \in Streams : input = s.hello /\ rest = s.body
    BY DEF Init
  <1>2. input \in Seq(Cell) /\ rest \in Seq(Cell)
    BY <1>1, StreamAssumption
  <1>3. /\ state = "reading_control" /\ decoder = DecoderInit /\ encoder = "control_start"
        /\ size = InitSize /\ inc = InitInc /\ max = InitMax
        /\ at = 0 /\ left = 0 /\ pushed = 0
        /\ write_buf = <<>> /\ write_size = WriteSize /\ write_at = 0 /\ write_left = 0
        /\ allow_bidirectional = FALSE /\ is_bidirectional = FALSE /\ res = "init"
        /\ taken = 0 /\ out = <<>> /\ decoded = 0 /\ delivered = <<>> /\ tunes = 0
    BY DEF Init
  <1>4. buf \in Seq(Cell) /\ Len(buf) = InitSize
    <2>1. buf = [i \in 1..InitSize |-> Junk] /\ InitSize \in Nat
      BY SizeAssumption DEF Init
    <2> QED BY <2>1, JunkType
  <1>5. DecoderInit \in DecoderType
    BY DEF DecoderInit, DecoderType, DecoderState, TinyReaderInit, TinyReader, ControlType
  <1>6. Len(input) \in Nat
    BY <1>2
  <1>7. TypeOK
    <2>1. state \in ReaderState /\ res \in Result /\ encoder \in EncoderState
      BY <1>3 DEF ReaderState, Result, EncoderState
    <2>2. /\ size \in Nat /\ inc \in Nat /\ max \in Nat /\ at \in Nat /\ left \in Nat
          /\ pushed \in Nat /\ write_size \in Nat /\ write_at \in Nat /\ write_left \in Nat
      BY <1>3, SizeAssumption
    <2>3. taken \in 0..Len(input) /\ decoded \in 0..taken /\ tunes \in 0..MaxTunes
      BY <1>3, <1>6, CallAssumption
    <2>4. allow_bidirectional \in BOOLEAN /\ is_bidirectional \in BOOLEAN
      BY <1>3
    <2>5. write_buf \in Seq(Cell) /\ out \in Seq(Cell) /\ delivered \in Seq(Message)
      BY <1>3
    <2> QED BY <1>2, <1>3, <1>4, <1>5, <2>1, <2>2, <2>3, <2>4, <2>5 DEF TypeOK
  <1>8. InputInv
    BY <1>3, <1>4, SizeAssumption DEF InputInv, InputInBounds, Holds
  <1>9. AnswerInv
    BY <1>3, SizeAssumption DEF AnswerInv, AnswerInBounds, Taking
  <1>10. DeliveredInOrder
    <2> DEFINE x == SubSeq(input, 1, 0)
    <2>1. x = <<>>
      BY <1>2
    <2>2. x \in Seq(Cell) /\ Heads(x) = {}
      BY <2>1 DEF Heads
    <2> HIDE DEF x
    <2>3. Payloads(x) \in Seq(Message \cup {BadPayload}) /\ Len(Payloads(x)) = 0
      BY <2>2, PayloadsAt, FS_EmptySet
    <2>4. Payloads(x) = <<>>
      BY <2>3
    <2> QED BY <1>3, <2>4 DEF DeliveredInOrder, x
  <1>11. ContentInv
    <2>1. Slice(write_buf, write_at - write_left, write_left) = <<>>
      BY <1>3, SliceEmpty
    <2>2. out \o <<>> = <<>>
      BY <1>3
    <2> QED BY <1>3, <2>1, <2>2 DEF ContentInv, AnswerSoFar
  <1>12. StopInv
    BY <1>1, <1>3 DEF StopInv, NoFinishSent
  <1> QED BY <1>3, <1>7, <1>8, <1>9, <1>10, <1>11, <1>12 DEF Inv, NeverAborts, FreshInv

(* Every step keeps it.                                                     *)
LEMMA NextInv ==
    ASSUME NoWrap, Inv, [Next]_vars
    PROVE  Inv'
  <1>1. CASE PeerSend
    BY <1>1, PeerSendStep
  <1>2. ASSUME NEW b \in Bidirectional, AllowBidirectional(b)
        PROVE  Inv'
    BY <1>2, AllowBidirectionalStep
  <1>3. ASSUME NEW n \in Tunings, SetBufsize(n) \/ SetBufinc(n) \/ SetBufmax(n)
        PROVE  Inv'
    BY <1>3, SetBufsizeStep, SetBufStep
  <1>4. ASSUME NEW n \in 0..Available, NEW outlen \in OutLens, Push(n, outlen)
        PROVE  Inv'
    BY <1>4, PushStep
  <1>5. CASE Read
    BY <1>5, ReadStep
  <1>6. CASE UNCHANGED vars
    <2> USE <1>6 DEF vars, inVars, outVars, bidirVars, peerVars, Inv
    <2>1. TypeOK' /\ NeverAborts' /\ FreshInv'
      BY DEF TypeOK, NeverAborts, FreshInv
    <2>2. InputInv' /\ AnswerInv'
      BY DEF InputInv, InputInBounds, Holds, AnswerInv, AnswerInBounds
    <2>3. DeliveredInOrder'
      BY DEF DeliveredInOrder
    <2>4. ContentInv'
      BY DEF ContentInv, ReadyDecoded
    <2>5. StopInv'
      BY DEF StopInv, AllSent
    <2> QED BY <2>1, <2>2, <2>3, <2>4, <2>5
  <1> QED BY <1>1, <1>2, <1>3, <1>4, <1>5, <1>6 DEF Next

(* The invariant holds in every state the reader reaches.                   *)
THEOREM Invariance ==
    ASSUME NoWrap
    PROVE  Spec => []Inv
  <1>1. Init => Inv
    BY InitInv
  <1>2. Inv /\ [Next]_vars => Inv'
    BY NextInv
  <1> QED BY <1>1, <1>2, PTL DEF Spec

(* The buffers: whatever a peer sends, however it is cut, whatever the      *)
(* caller sets and whatever realloc(), read(2) and write(2) do, the reader  *)
(* stays inside what it allocated (reader.c:223-229, 265-287, 330-338).     *)
THEOREM StaysInBounds ==
    ASSUME NoWrap
    PROVE  Spec => []BufferBounds
  <1>1. Inv => BufferBounds
    BY DEF Inv, InputInv, AnswerInv, BufferBounds
  <1> QED BY <1>1, Invariance, PTL

(* The assertions of the decoder and the encoder (decoder.c:48,             *)
(* encoder.c:52-53) never fail.                                             *)
THEOREM NoAssertionFails ==
    ASSUME NoWrap
    PROVE  Spec => []NeverAborts
  <1>1. Inv => NeverAborts
    BY DEF Inv
  <1> QED BY <1>1, Invariance, PTL

(* Type correctness: every variable of the reader keeps its type.           *)
THEOREM TypeCorrect ==
    ASSUME NoWrap
    PROVE  Spec => []TypeOK
  <1>1. Inv => TypeOK
    BY DEF Inv
  <1> QED BY <1>1, Invariance, PTL

(* The buffer holds what was taken and is not decoded yet.                  *)
LEMMA Windowed ==
    ASSUME NoWrap, Inv
    PROVE  WindowIntact
  <1>0. TypeOK /\ InputInv
    BY DEF Inv
  <1>1. /\ at \in Nat /\ left \in Nat /\ decoded \in Nat /\ taken \in Nat /\ size \in Nat
        /\ Len(input) \in Nat /\ taken <= Len(input) /\ at + left <= size
    BY <1>0, InputFacts
  <1>2. /\ buf \in Seq(Cell) /\ Len(buf) = size /\ input \in Seq(Cell)
        /\ taken = decoded + left /\ Holds(buf, at, left, decoded)
    BY <1>0 DEF TypeOK, InputInv, InputInBounds
  <1>3. left = taken - decoded
    BY <1>1, <1>2
  <1>4. SubSeq(input, decoded + 1, taken) = [i \in 1..left |-> input[decoded + i]]
    <2> DEFINE w == SubSeq(input, decoded + 1, taken)
    <2>0. decoded \in Nat /\ decoded + left = taken /\ taken <= Len(input)
      BY <1>1, <1>2
    <2>1. /\ w \in Seq(Cell) /\ Len(w) = left
          /\ \A i \in 1..left : w[i] = input[decoded + i]
      BY SMTT(30), <1>1, <1>2, <2>0
    <2> HIDE DEF w
    <2>2. w = [i \in 1..Len(w) |-> w[i]]
      BY <2>1
    <2> QED BY <2>1, <2>2 DEF w
  <1>5. \A i \in 1..left : at + i \in 1..Len(buf)
    BY <1>1, <1>2
  <1>6. Slice(buf, at, left) = [i \in 1..left |-> input[decoded + i]]
    BY <1>2, <1>5 DEF Slice, Holds
  <1> QED BY <1>3, <1>4, <1>6 DEF WindowIntact

(* The data: the buffer holds what was taken and is not decoded yet, all of *)
(* it and in its order, after any memcpy, memmove and realloc               *)
(* (reader.c:223-229, 265-287; set_bufsize, reader.c:118-131).              *)
THEOREM NothingLost ==
    ASSUME NoWrap
    PROVE  Spec => []WindowIntact
  <1>1. Inv => WindowIntact
    BY Windowed
  <1> QED BY <1>1, Invariance, PTL

(* The messages: the caller gets those of the frames that were decoded, in  *)
(* the order of the stream, each once and none but those (decoder.c:165-172,*)
(* reader.c:295-304, 400-407).                                              *)
THEOREM MessagesInOrder ==
    ASSUME NoWrap
    PROVE  Spec => []DeliveredInOrder
  <1>1. Inv => DeliveredInOrder
    BY DEF Inv
  <1> QED BY <1>1, Invariance, PTL

(* The answer: what goes back to the peer and what waits for it is ACCEPT,  *)
(* then FINISH behind it, and nothing before all of a READY was decoded     *)
(* (reader.c:235-254, 319-342, 422-446).                                    *)
THEOREM AnswersKept ==
    ASSUME NoWrap
    PROVE  Spec => []AnswersIntact
  <1>1. ASSUME Inv
        PROVE  AnswersIntact
    <2> DEFINE answered == out \o Slice(write_buf, write_at - write_left, write_left)
    <2>1. /\ encoder \in {"control_start", "control_accept", "control_finish", "done"}
          /\ answered = AnswerSoFar(encoder)
          /\ encoder \in {"control_finish", "done"} => is_bidirectional
          /\ is_bidirectional => ReadyDecoded
      BY <1>1 DEF Inv, ContentInv
    <2> HIDE DEF answered
    <2>2. answered \in {<<>>, Accept, Accept \o Finish}
      BY <2>1 DEF AnswerSoFar
    <2>3. answered # <<>> => is_bidirectional /\ ReadyDecoded
      BY <2>1 DEF AnswerSoFar
    <2> QED BY <2>2, <2>3 DEF AnswersIntact, ReadyDecoded, answered
  <1>2. Inv => AnswersIntact
    BY <1>1
  <1> QED BY <1>2, Invariance, PTL

(* The end: a reader ends a stream at a STOP it has reached and nowhere     *)
(* else, and tells so to the caller of a bidirectional one when the peer    *)
(* has all of ACCEPT and FINISH (reader.c:306-312, 409-415, 433-446).  A    *)
(* FINISH, had the peer sent one behind an ACCEPT of its own, would be      *)
(* taken for it.                                                            *)
THEOREM EndsOnlyAtStop ==
    ASSUME NoWrap, NoFinishSent
    PROVE  Spec => []EndsAtStop
  <1>1. Inv => EndsAtStop
    BY DEF Inv, ContentInv, StopInv, EndsAtStop
  <1> QED BY <1>1, Invariance, PTL

(* A push that asks for more has moved all it was given into the buffer     *)
(* (reader.c:289-293).                                                      *)
THEOREM PushLosesNothing ==
    ASSUME NoWrap
    PROVE  Spec => NeedMoreTookAll
  <1> DEFINE TookAll == res' = "need_more" =>
                            \A n \in 1..Available, outlen \in OutLens :
                               Push(n, outlen) => taken' = taken + n
  <1>1. Inv /\ [Next]_vars => [TookAll]_vars
    <2> SUFFICES ASSUME Inv, res' = "need_more", NEW n \in 1..Available,
                        NEW outlen \in OutLens, Push(n, outlen)
                 PROVE  taken' = taken + n
      OBVIOUS
    <2>1. Available \in Int
      BY InputFacts DEF Inv, Available
    <2>2. n \in 0..Available
      BY <2>1
    <2> QED BY <2>2, PushStep
  <1>2. Spec => [][TookAll]_vars
    BY <1>1, Invariance, PTL DEF Spec
  <1> QED BY <1>2 DEF NeedMoreTookAll

(* No step but a tuning makes the buffer smaller (reader.c:276-283).        *)
THEOREM NeverShrinks ==
    ASSUME NoWrap
    PROVE  Spec => OnlyExpands
  <1> DEFINE Expands == tunes' = tunes => size' >= size
  <1>1. ASSUME Inv, [Next]_vars
        PROVE  [Expands]_vars
    <2>1. size \in Nat /\ size' \in Nat /\ tunes \in Nat /\ MaxTunes \in Nat
      <3>1. Inv'
        BY <1>1, NextInv
      <3> QED BY <1>1, <3>1, CallAssumption DEF Inv, TypeOK
    <2>2. CASE PeerSend
      BY <2>1, <2>2 DEF PeerSend, inVars
    <2>3. ASSUME NEW b \in Bidirectional, AllowBidirectional(b)
          PROVE  Expands
      BY <2>1, <2>3 DEF AllowBidirectional, inVars
    <2>4. ASSUME NEW n \in Tunings, SetBufsize(n) \/ SetBufinc(n) \/ SetBufmax(n)
          PROVE  Expands
      <3>1. tunes' = tunes + 1
        BY <2>4 DEF SetBufsize, SetBufinc, SetBufmax, Tune
      <3> QED BY <2>1, <3>1
    <2>5. ASSUME NEW n \in 0..Available, NEW outlen \in OutLens, Push(n, outlen)
          PROVE  Expands
      BY <1>1, <2>1, <2>5, PushStep
    <2>6. CASE Read
      BY <1>1, <2>1, <2>6, ReadStep
    <2> QED BY <1>1, <2>2, <2>3, <2>4, <2>5, <2>6 DEF Next
  <1>2. Inv /\ [Next]_vars => [Expands]_vars
    BY <1>1
  <1> QED BY <1>2, Invariance, PTL DEF Spec, OnlyExpands

(* A call that needs more has found no whole element and leaves room.       *)
LEMMA MoreIsNeeded ==
    ASSUME NEW b \in Seq(Cell), NEW l \in Nat, Loaded(b, l), TypeOK, UNCHANGED input,
           inc \in Nat \ {0}, size + inc < SizeMod,
           NEW ph \in Phase, NEW more \in BOOLEAN, Decoding(b, l, ph, more), res' = "need_more"
    PROVE  left' < Size(buf'[at' + 1][1]) /\ Space' > 0
  <1> DEFINE w == Window(b, l)
             t == TinyRead(decoder.reader, w)
             r == Decode(decoder, w)
  <1>1. /\ l > 0 /\ at \in Nat /\ size \in Nat /\ at + l <= size /\ Len(b) = size
        /\ Holds(b, at, l, decoded) /\ max \in Nat
    BY DEF Loaded
  <1>2. w \in Seq(Cell) /\ Len(w) = l /\ w # <<>> /\ w[1] = b[at + 1]
    <2> HIDE DEF w
    <2>1. at \in Int
      BY <1>1
    <2>2. w = Slice(b, at, l)
      BY DEF w, Window
    <2>3. /\ w \in Seq(Cell) /\ Len(w) = l
          /\ \A i \in 1..l : at + i \in 1..Len(b) => w[i] = b[at + i]
      BY <2>1, <2>2, SliceType
    <2>4. 1 \in 1..l /\ at + 1 \in 1..Len(b)
      BY <1>1
    <2> QED BY <1>1, <2>3, <2>4
  <1> HIDE DEF w
  <1>3. NeedMore(b, l, ph, r, more)
    <2>1. \E q \in {r} :
             \/ Again(b, l, ph, q) \/ Ready(b, l, ph, q) \/ NeedMore(b, l, ph, q, more)
             \/ HaveDnstap(b, l, q) \/ EndOfData(b, l, q) \/ DecodeError(b, l, ph, q)
      BY <1>1 DEF Decoding, NothingToDecode, w
    <2> HIDE DEF r
    <2> QED BY <2>1 DEF Again, Ready, HaveDnstap, EndOfData, DecodeError
  <1>4. l < Size(w[1][1])
    <2>1. r.res = "need_more"
      BY <1>3 DEF NeedMore
    <2>2. r.res = Verdict(decoder, t).res
      BY DEF Decode
    <2> HIDE DEF r, t
    <2>3. t.res = "need_more"
      BY <2>1, <2>2 DEF Verdict
    <2> QED BY <1>2, <2>3 DEF t, TinyRead, ReadControl, ReadField
  <1>5. left' = l /\ buf'[at' + 1] = b[at + 1]
    <2>1. left' = l /\ decoded' = decoded
      BY <1>3 DEF NeedMore
    <2>2. Holds(buf', at', left', decoded')
      BY <1>3, NeedMoreLeaves DEF Left
    <2>3. 1 \in 1..l
      BY <1>1
    <2> QED BY <1>1, <2>1, <2>2, <2>3 DEF Holds
  <1>6. Space' > 0
    <2>1. CASE l < size /\ at' = 0 /\ size' = size
      <3>1. Space' = (size - 0) - l
        BY <1>5, <2>1 DEF Space
      <3> QED BY <1>1, <2>1, <3>1
    <2>2. CASE l >= size /\ size < max /\ size' = Expanded(size, inc, max) /\ at' = at
      <3> DEFINE n == Expanded(size, inc, max)
      <3>1. n \in Nat /\ size < n
        BY <1>1, <2>2, ExpandedType
      <3> HIDE DEF n
      <3>2. Space' = (n - at) - l
        BY <1>5, <2>2 DEF Space, n
      <3> QED BY <1>1, <2>2, <3>1, <3>2
    <2> QED BY <1>3, <2>1, <2>2 DEF NeedMore
  <1> QED BY <1>2, <1>4, <1>5, <1>6

(* A call that asks for more needs it: no element that is whole is kept     *)
(* from the caller, and there is room for what it is to bring               *)
(* (reader.c:265-287).                                                      *)
THEOREM NeedsWhatItAsksFor ==
    ASSUME NoWrap
    PROVE  Spec => NeedMoreNeedsMore
  <1> DEFINE Needs == res' = "need_more" =>
                          \A n \in 1..Available, outlen \in OutLens :
                             Push(n, outlen) \/ Read =>
                                /\ left' > 0 => left' < Size(buf'[at' + 1][1])
                                /\ Space' > 0
  <1>1. ASSUME Inv, res' = "need_more", NEW n \in 1..Available,
               NEW outlen \in OutLens, Push(n, outlen) \/ Read
        PROVE  left' < Size(buf'[at' + 1][1]) /\ Space' > 0
    <2>1. /\ size \in Nat /\ at \in Nat /\ left \in Nat /\ taken \in Nat /\ Len(input) \in Nat
          /\ at + left <= size /\ size > 0 /\ (left = 0 => at = 0) /\ taken <= Len(input)
          /\ inc \in Nat \ {0} /\ size + inc < SizeMod
      BY <1>1, InputFacts DEF Inv
    <2>2. /\ n \in Nat /\ n > 0 /\ Available \in Nat /\ n <= Available
          /\ Space \in Nat /\ (Space = 0 => left > 0) /\ UNCHANGED input
      BY <1>1, <2>1 DEF Available, Space, Push, Read, peerVars
    <2>3. ASSUME NEW ph \in Phase, NEW m \in Nat, m <= Space, m <= Available, left + m > 0,
                 NEW more \in BOOLEAN, TakeAndDecode(m, ph, more)
          PROVE  left' < Size(buf'[at' + 1][1]) /\ Space' > 0
      <3> DEFINE b == Overlay(buf, at + left, Slice(input, taken, m))
      <3>1. taken' = taken + m /\ Decoding(b, left + m, ph, more)
        BY <2>3 DEF TakeAndDecode, Filled
      <3>2. b \in Seq(Cell) /\ left + m \in Nat /\ Loaded(b, left + m)
        BY <1>1, <2>3, <3>1, TakeLoads DEF Inv
      <3> HIDE DEF b
      <3> QED BY <1>1, <2>1, <2>2, <3>1, <3>2, MoreIsNeeded DEF Inv
    <2>4. ASSUME NEW ph \in Phase, state = ph.decoding, taken' = taken,
                 NEW more \in BOOLEAN, Decoding(buf, left, ph, more)
          PROVE  left' < Size(buf'[at' + 1][1]) /\ Space' > 0
      <3>1. state \in {"decoding_control", "decoding"}
        BY <2>4 DEF Phase, ControlPhase, FramePhase
      <3>2. buf \in Seq(Cell) /\ left \in Nat /\ Loaded(buf, left)
        BY <1>1, <2>4, <3>1, BufferLoaded DEF Inv
      <3> QED BY <1>1, <2>1, <2>2, <2>4, <3>2, MoreIsNeeded DEF Inv
    <2>5. ASSUME NEW call, NEW k, Answering(call, k)
          PROVE  FALSE
      BY <1>1, <2>5 DEF Answering, Answer, EncodeAndWrite, Write, Give, GiveNothing
    <2>6. ~Done
      BY <1>1 DEF Done
    <2>7. CASE Push(n, outlen)
      <3>1. PushInput(n)
        BY <2>5, <2>6, <2>7 DEF Push
      <3>2. PICK ph \in Phase :
               \/ n = 0
               \/ TakeAndDecode(LeastOf(Space, n), ph, Space < n)
               \/ /\ state = ph.decoding
                  /\ Decoding(buf, left, ph, n > 0)
                  /\ UNCHANGED taken
        BY <3>1 DEF PushInput
      <3> DEFINE m == LeastOf(Space, n)
                 more == Space < n
                 some == n > 0
      <3>3. m \in Nat /\ m <= Space /\ m <= Available /\ left + m > 0 /\ more \in BOOLEAN
            /\ some \in BOOLEAN
        BY <2>1, <2>2 DEF LeastOf
      <3>4. \/ TakeAndDecode(m, ph, more)
            \/ state = ph.decoding /\ Decoding(buf, left, ph, some) /\ taken' = taken
        BY <2>2, <3>2
      <3> HIDE DEF m, more, some
      <3> QED BY <2>3, <2>4, <3>3, <3>4
    <2>8. CASE Read
      <3>1. ReadInput
        BY <2>5, <2>6, <2>8 DEF Read
      <3>2. PICK ph \in Phase :
               \/ \E k \in 1..LeastOf(Space, Available) : TakeAndDecode(k, ph, FALSE)
               \/ /\ state = ph.decoding
                  /\ Decoding(buf, left, ph, FALSE)
                  /\ UNCHANGED taken
        BY <1>1, <3>1 DEF ReadInput
      <3>3. ASSUME NEW k \in 1..LeastOf(Space, Available)
            PROVE  k \in Nat /\ k <= Space /\ k <= Available /\ left + k > 0
        BY <2>1, <2>2 DEF LeastOf
      <3> QED BY <2>3, <2>4, <3>2, <3>3
    <2> QED BY <1>1, <2>7, <2>8
  <1>2. Inv /\ [Next]_vars => [Needs]_vars
    BY <1>1
  <1>3. Spec => [][Needs]_vars
    BY <1>2, Invariance, PTL DEF Spec
  <1> QED BY <1>3 DEF NeedMoreNeedsMore

-----------------------------------------------------------------------------
(***************************************************************************)
(* A reader that is sent an orderly stream, with READY in its first p      *)
(* cells, on a connection that works: by read(), or, without READY, by     *)
(* push().                                                                 *)
(***************************************************************************)
(* The n-th cell is the last of an element, or nothing was decoded.         *)
Boundary(n) == n = 0 \/ \E k \in 1..n : input[k][2] = 1 /\ k + Size(input[k][1]) = n + 1

(* Every element fits into the buffer, once it is expanded.                 *)
ElementsFit ==
    \A m \in Tunings \cup {InitMax} : HeaderLen <= m /\ FieldLen <= m /\ FrameLen <= m

(* The decoder is where the stream is, an answer is given whole, and a call *)
(* fails only when the connection is lost, or READY was not to be answered. *)
OrderlyInv(p) ==
    /\ state \notin {"writing_accept", "writing_finish"}
    /\ Boundary(decoded)
    /\ state \in Taking \cup {"encoding_accept"} => DecoderAt(decoder, decoded, p)
    /\ state = "encoding_accept" => p > 0 /\ decoded = p
    /\ state \in {"reading", "decoding"} => decoded > p
    /\ state \in {"reading_control", "reading"} => at + left < size
    /\ is_bidirectional => p > 0 /\ decoded >= p
    /\ is_bidirectional /\ state \notin {"encoding_accept", "done"} =>
          encoder = "control_finish" /\ write_at = 0
    /\ encoder = "done" => state = "done"
    /\ state = "done" => res = "endofdata"
    /\ ElementsFit /\ res = "error" =>
          rest = <<>> \/ (p > 0 /\ decoded >= p /\ ~is_bidirectional)

(* What comes next begins an element.                                       *)
LEMMA BoundaryAhead ==
    ASSUME TypeOK, NEW p, Orderly(input, p), Boundary(decoded), decoded < Len(input)
    PROVE  input[decoded + 1][2] = 1
  <1>1. input \in Seq(Cell) /\ Len(input) \in Nat /\ decoded \in Nat
    BY DEF TypeOK
  <1>2. CASE decoded = 0
    <2>1. 1 \in 1..Len(input)
      BY <1>1
    <2>2. \E k \in 1..1 : input[k][2] = 1
      BY <2>1 DEF Orderly
    <2> QED BY <1>2, <2>2
  <1>3. CASE decoded # 0
    <2>1. PICK k \in 1..decoded : input[k][2] = 1 /\ k + Size(input[k][1]) = decoded + 1
      BY <1>3 DEF Boundary
    <2>2. k \in 1..Len(input) /\ decoded + 1 <= Len(input)
      BY <1>1
    <2>3. Begins(input, k, p)
      BY <2>1, <2>2 DEF Orderly
    <2> QED BY <2>1, <2>2, <2>3 DEF Begins
  <1> QED BY <1>2, <1>3

(* A call that goes on with l cells in the buffer takes the element that is *)
(* next, or finds that it is not all there and waits.                       *)
Advances(l) ==
    LET e == input[decoded + 1][1] IN
    res' # "error" /\ state' \in Taking =>
        \/ /\ left' = l - Size(e) /\ decoded' = decoded + Size(e) /\ Size(e) \in Nat \ {0}
           /\ state' \in {"reading_control", "reading"} => left' = 0
        \/ /\ left' = l /\ decoded' = decoded /\ l < Size(e)
           /\ state' \in {"reading_control", "reading"}

(* A call that decodes.  It ends only at STOP, and fails at none of a      *)
(* stream without a handshake.                                              *)
LEMMA DecodingOrderly ==
    ASSUME NoWrap, BadPayload \notin Message, ~AllocMayFail,
           Inv, NEW p \in Preamble, Orderly(input, p), OrderlyInv(p),
           NEW b \in Seq(Cell), NEW l \in Nat, Loaded(b, l), taken' <= Len(input),
           NEW ph \in Phase, state \in {ph.reading, ph.decoding},
           NEW more \in BOOLEAN, Decoding(b, l, ph, more),
           UNCHANGED <<outVars, allow_bidirectional, peerVars>>
    PROVE  /\ OrderlyInv(p)'
           /\ res' \in {"again", "need_more", "have_dnstap", "endofdata", "error"}
           /\ res' = "error" => p > 0 \/ ~ElementsFit
           /\ res' = "endofdata" => ~Open(input)
           /\ Advances(l)
  <1> DEFINE w == Window(b, l)
             r == Decode(decoder, w)
             e == input[decoded + 1][1]
  <1>1. /\ input \in Seq(Cell) /\ decoder \in DecoderType /\ Len(input) \in Nat
        /\ decoded \in Nat /\ is_bidirectional \in BOOLEAN /\ allow_bidirectional \in BOOLEAN
        /\ at \in Nat /\ size \in Nat /\ size > 0 /\ max \in Tunings \cup {InitMax}
        /\ TypeOK
    BY DEF Inv, TypeOK, InputInv
  <1>2. /\ w \in Seq(Cell) /\ Len(w) = l /\ w # <<>>
        /\ \A i \in 1..l : w[i] = input[decoded + i]
    BY WindowIsInput DEF Inv
  <1>3. l > 0 /\ decoded + l <= Len(input) /\ at + l <= size /\ size <= max /\ max \in Nat
    <2>1. l > 0 /\ taken' = decoded + l /\ at + l <= size /\ size <= max /\ max \in Nat
      BY DEF Loaded
    <2> QED BY <2>1
  <1>4. /\ state \in Taking /\ DecoderAt(decoder, decoded, p) /\ Boundary(decoded)
        /\ p \in Nat
        /\ encoder # "done"
        /\ is_bidirectional => p > 0 /\ decoded >= p
        /\ is_bidirectional => encoder = "control_finish" /\ write_at = 0
        /\ ph = FramePhase => decoded > p
    BY LengthAssumption DEF OrderlyInv, Phase, ControlPhase, FramePhase, Taking, Preamble
  <1>5. input[decoded + 1][2] = 1
    BY <1>1, <1>3, <1>4, BoundaryAhead
  <1>6. /\ e \in Element
        /\ \/ r.res = "need_more" /\ r.decoder = decoder /\ Len(w) < Size(e)
           \/ /\ r.res = "endofdata" /\ e = StopElement /\ r.decoder.state = "done"
              /\ decoder.state = "reading_frames"
           \/ /\ r.res \in Consuming /\ r.n = Size(e) /\ Size(e) \in Nat \ {0}
              /\ DecoderAt(r.decoder, decoded + r.n, p)
              /\ r.res = "bidirectional" =>
                    p > 0 /\ decoded + r.n = p /\ r.decoder.ready_support_dnstap_protobuf
              /\ r.res = "have_dnstap" => decoder.state = "reading_frames"
    <2>1. /\ decoded + Len(w) <= Len(input) /\ w \in Seq(Cell) /\ w # <<>>
          /\ \A i \in 1..Len(w) : w[i] = input[decoded + i]
      BY <1>2, <1>3
    <2> HIDE DEF w
    <2> QED BY <1>1, <1>4, <1>5, <2>1, OrderlyDecodes
  <1>7. /\ decoder' = r.decoder
        /\ \/ Again(b, l, ph, r) \/ Ready(b, l, ph, r) \/ NeedMore(b, l, ph, r, more)
           \/ HaveDnstap(b, l, r) \/ EndOfData(b, l, r) \/ DecodeError(b, l, ph, r)
    <2>1. l # 0
      BY <1>3
    <2>2. \E q \in {r} :
             /\ decoder' = q.decoder
             /\ \/ Again(b, l, ph, q) \/ Ready(b, l, ph, q) \/ NeedMore(b, l, ph, q, more)
                \/ HaveDnstap(b, l, q) \/ EndOfData(b, l, q) \/ DecodeError(b, l, ph, q)
      BY <2>1 DEF Decoding, NothingToDecode
    <2> HIDE DEF r
    <2> QED BY <2>2
  <1> DEFINE Goal == /\ OrderlyInv(p)'
                     /\ res' \in {"again", "need_more", "have_dnstap", "endofdata", "error"}
                     /\ res' = "error" => p > 0 \/ ~ElementsFit
                     /\ res' = "endofdata" => ~Open(input)
                     /\ Advances(l)
  <1> SUFFICES Goal
    OBVIOUS
  <1>8. /\ encoder' = encoder /\ write_at' = write_at /\ rest' = rest /\ input' = input
        /\ allow_bidirectional' = allow_bidirectional
    BY DEF outVars, peerVars
  <1>9. ph \in {ControlPhase, FramePhase}
    BY DEF Phase
  <1>10. decoder.state = "reading_frames" => decoded > p
    BY <1>1, <1>4, LengthAssumption DEF DecoderAt, DecoderInit
  <1> HIDE DEF w, r, e
  (* What is taken out is an element.                                        *)
  <1>11. ASSUME NEW emptied, NEW others, Consume(b, l, r.n, emptied, others),
                r.res \in Consuming
         PROVE  /\ decoded' = decoded + r.n /\ decoded' > decoded /\ decoded' \in Nat
                /\ Boundary(decoded') /\ Boundary(decoded)'
                /\ DecoderAt(decoder', decoded', p)
                /\ \/ state' = others
                   \/ state' = emptied /\ at' + left' < size'
                /\ emptied \in {"reading_control", "reading"}
                      /\ others \notin {"reading_control", "reading"} => Advances(l)
    <2>1. r.n = Size(e) /\ Size(e) \in Nat \ {0} /\ DecoderAt(r.decoder, decoded + r.n, p)
      BY <1>6, <1>11 DEF Consuming
    <2>2. /\ decoded' = decoded + r.n /\ left' = l - r.n /\ size' = size
          /\ at' = (IF l = r.n THEN 0 ELSE at + r.n)
          /\ state' = IF l = r.n THEN emptied ELSE others
      BY <1>11 DEF Consume
    <2>3. decoded' > decoded /\ decoded' \in Nat
      BY <1>1, <2>1, <2>2
    <2> DEFINE k == decoded + 1
    <2>4. k \in 1..decoded' /\ k + Size(e) = decoded' + 1
      BY <1>1, <2>1, <2>2
    <2>5. input[k][2] = 1 /\ Size(input[k][1]) = Size(e)
      BY <1>5 DEF e
    <2> HIDE DEF k
    <2>6. Boundary(decoded')
      BY <2>4, <2>5 DEF Boundary
    <2>7. Boundary(decoded)'
      BY <1>8, <2>4, <2>5 DEF Boundary
    <2>8. state' = others \/ (state' = emptied /\ at' + left' < size')
      BY <1>1, <2>1, <2>2
    <2>9. emptied \in {"reading_control", "reading"}
              /\ others \notin {"reading_control", "reading"} => Advances(l)
      <3>1. left' = l - Size(e) /\ decoded' = decoded + Size(e) /\ Size(e) \in Nat \ {0}
        BY <2>1, <2>2
      <3>2. others \notin {"reading_control", "reading"}
               /\ state' \in {"reading_control", "reading"} => left' = 0
        BY <1>1, <2>1, <2>2
      <3> QED BY <3>1, <3>2 DEF Advances, e
    <2> QED BY <1>7, <2>1, <2>2, <2>3, <2>6, <2>7, <2>8, <2>9
  (* Or nothing is.                                                          *)
  <1>12. decoded' = decoded => Boundary(decoded)'
    BY <1>4, <1>8 DEF Boundary
  <1>13. CASE Again(b, l, ph, r)
    <2>1. /\ Consume(b, l, r.n, ph.reading, ph.decoding) /\ res' = "again"
          /\ r.res \in Consuming /\ is_bidirectional' = is_bidirectional
      BY <1>13 DEF Again, Consuming
    <2>2. /\ decoded' > decoded /\ decoded' \in Nat /\ Boundary(decoded)'
          /\ DecoderAt(decoder', decoded', p)
          /\ \/ state' = ph.decoding
             \/ state' = ph.reading /\ at' + left' < size'
          /\ Advances(l)
      BY <1>9, <1>11, <2>1 DEF ControlPhase, FramePhase
    <2>3. /\ decoded' >= p \/ ~is_bidirectional
          /\ ph = FramePhase => decoded' > p
      BY <1>1, <1>4, <2>2
    <2> QED BY <1>4, <1>8, <1>9, <2>1, <2>2, <2>3
            DEF OrderlyInv, ControlPhase, FramePhase, Taking
  <1>14. CASE Ready(b, l, ph, r)
    <2>1. /\ r.res = "bidirectional" /\ r.res \in Consuming /\ ph = ControlPhase
          /\ is_bidirectional' = (allow_bidirectional \/ is_bidirectional)
          /\ IF allow_bidirectional /\ r.decoder.ready_support_dnstap_protobuf
             THEN /\ Consume(b, l, r.n, "encoding_accept", "encoding_accept")
                  /\ res' = "again"
             ELSE /\ Consume(b, l, r.n, ph.reading, ph.decoding)
                  /\ res' = "error"
      BY <1>14 DEF Ready, Consuming
    <2>2. p > 0 /\ decoded + r.n = p /\ r.decoder.ready_support_dnstap_protobuf
      BY <1>6, <2>1
    <2>3. CASE allow_bidirectional
      <3>1. /\ decoded' = p /\ Boundary(decoded)' /\ DecoderAt(decoder', decoded', p)
            /\ state' = "encoding_accept"
        BY <1>11, <2>1, <2>2, <2>3
      <3>2. Advances(l)
        BY <3>1 DEF Advances, Taking
      <3> QED BY <1>4, <1>8, <2>1, <2>2, <2>3, <3>1, <3>2 DEF OrderlyInv, Taking
    <2>4. CASE ~allow_bidirectional
      <3>1. /\ decoded' = p /\ decoded' > decoded /\ Boundary(decoded)'
            /\ DecoderAt(decoder', decoded', p)
            /\ \/ state' = ph.decoding
               \/ state' = ph.reading /\ at' + left' < size'
        BY <1>11, <2>1, <2>2, <2>4
      <3>2. ~is_bidirectional
        BY <1>1, <1>4, <3>1
      <3>3. decoded' >= p
        BY <1>4, <3>1
      <3>4. Advances(l)
        BY <2>1, <2>4 DEF Advances
      <3> QED BY <1>4, <1>8, <2>1, <2>2, <2>4, <3>1, <3>2, <3>3, <3>4
              DEF OrderlyInv, ControlPhase, Taking
    <2> QED BY <2>3, <2>4
  <1>15. CASE NeedMore(b, l, ph, r, more)
    <2> DEFINE Waits == IF more THEN "again" ELSE "need_more"
    <2>1. /\ r.res = "need_more" /\ decoded' = decoded /\ left' = l
          /\ is_bidirectional' = is_bidirectional
          /\ \/ /\ l < size /\ at' = 0 /\ size' = size
                /\ state' = ph.reading /\ res' = Waits
             \/ /\ l >= size /\ size < max /\ size' = Expanded(size, inc, max) /\ at' = at
                /\ state' = ph.reading /\ res' = Waits
             \/ /\ l >= size /\ size >= max
                /\ state' = ph.decoding /\ res' = "error"
      BY <1>15 DEF NeedMore
    <2>2. decoder' = decoder /\ Len(w) < Size(e)
      BY <1>6, <1>7, <2>1 DEF Consuming
    <2>3. Boundary(decoded)' /\ DecoderAt(decoder', decoded', p)
      BY <1>4, <1>12, <2>1, <2>2
    <2>4. state' = ph.reading => at' + left' < size'
      <3>1. CASE l < size /\ at' = 0 /\ size' = size
        BY <1>1, <2>1, <3>1
      <3>2. CASE l >= size /\ size < max /\ size' = Expanded(size, inc, max) /\ at' = at
        <4>1. inc \in Nat \ {0} /\ size + inc < SizeMod
          BY InputFacts DEF Inv
        <4>2. size' \in Nat /\ size < size'
          BY <1>1, <1>3, <3>2, <4>1, ExpandedType
        <4> QED BY <1>1, <1>3, <2>1, <3>2, <4>2
      <3>3. CASE state' = ph.decoding
        <4>1. ph.reading # ph.decoding
          BY DEF Phase, ControlPhase, FramePhase
        <4> QED BY <3>3, <4>1
      <3> QED BY <2>1, <3>1, <3>2, <3>3
    <2>5. ElementsFit => res' # "error"
      <3> SUFFICES ASSUME ElementsFit, l >= size, size >= max
                   PROVE  FALSE
        BY <2>1
      <3>1. Size(e) <= max
        <4>1. HeaderLen <= max /\ FieldLen <= max /\ FrameLen <= max
          BY <1>1 DEF ElementsFit
        <4>2. Size(e) \in {HeaderLen, FieldLen, FrameLen, 1}
          BY DEF Size
        <4>3. 1 <= max
          BY <1>1, <1>3
        <4> QED BY <4>1, <4>2, <4>3
      <3>2. Size(e) \in Nat
        BY LengthAssumption DEF Size
      <3> QED BY <1>1, <1>2, <1>3, <2>2, <3>1, <3>2
    <2>6. state' \in {ph.reading, ph.decoding} /\ res' \in {"again", "need_more", "error"}
      BY <2>1
    <2>7. Advances(l)
      <3>1. l < Size(e)
        BY <1>2, <2>2
      <3>2. ph.reading \in {"reading_control", "reading"}
        BY <1>9 DEF ControlPhase, FramePhase
      <3> QED BY <2>1, <3>1, <3>2 DEF Advances, e
    <2> QED BY <1>4, <1>8, <1>9, <2>1, <2>3, <2>4, <2>5, <2>6, <2>7
            DEF OrderlyInv, ControlPhase, FramePhase, Taking, ElementsFit
  <1>16. CASE HaveDnstap(b, l, r)
    <2>1. /\ Consume(b, l, r.n, "reading", "decoding") /\ res' = "have_dnstap"
          /\ r.res = "have_dnstap" /\ r.res \in Consuming
          /\ is_bidirectional' = is_bidirectional
      BY <1>16 DEF HaveDnstap, Consuming
    <2>2. /\ decoded' > decoded /\ decoded' \in Nat /\ Boundary(decoded)'
          /\ DecoderAt(decoder', decoded', p)
          /\ \/ state' = "decoding"
             \/ state' = "reading" /\ at' + left' < size'
          /\ Advances(l)
      BY <1>11, <2>1
    <2>3. decoded > p
      BY <1>6, <1>10, <2>1
    <2>4. decoded' > p /\ decoded' >= p
      BY <1>1, <1>4, <2>2, <2>3
    <2> QED BY <1>4, <1>8, <2>1, <2>2, <2>4 DEF OrderlyInv, Taking
  <1>17. CASE EndOfData(b, l, r)
    <2>1. /\ decoded' = decoded /\ is_bidirectional' = is_bidirectional
          /\ \/ is_bidirectional /\ state' = "encoding_finish" /\ res' = "again"
             \/ ~is_bidirectional /\ state' = "done" /\ res' = "endofdata"
      BY <1>17 DEF EndOfData, Keep
    <2>2. ~Open(input)
      <3>1. decoded + 1 \in 1..Len(input) /\ input[decoded + 1][1] = StopElement
        BY <1>1, <1>3, <1>6, <1>17 DEF EndOfData, Consuming, e
      <3> QED BY <3>1 DEF Open
    <2>3. Advances(l)
      BY <2>1 DEF Advances, Taking
    <2> QED BY <1>4, <1>8, <1>12, <2>1, <2>2, <2>3 DEF OrderlyInv, Taking
  <1>18. CASE DecodeError(b, l, ph, r)
    <2>1. r.res = "error" \/ (r.res = "bidirectional" /\ ph = FramePhase)
      BY <1>18 DEF DecodeError
    <2>2. r.res # "error"
      BY <1>6 DEF Consuming
    <2>3. p > 0 /\ decoded + r.n = p /\ r.n \in Nat /\ decoded > p
      BY <1>4, <1>6, <2>1, <2>2
    <2> QED BY <1>1, <1>4, <2>3
  <1> QED BY <1>7, <1>13, <1>14, <1>15, <1>16, <1>17, <1>18

(* A call that answers: all of the answer is encoded and given at once.     *)
LEMMA AnsweringOrderly ==
    ASSUME ~AllocMayFail, ~IOErrors, Inv, NEW p \in Preamble, OrderlyInv(p),
           out = <<>> /\ p > 0 => Len(input) <= p,
           Answering("read", WriteMax),
           UNCHANGED <<decoder, inVars, is_bidirectional, decoded, peerVars>>
    PROVE  OrderlyInv(p)'
  <1>1. state \notin {"writing_accept", "writing_finish"} /\ encoder # "done"
    <2>1. state # "done"
      BY DEF Answering, Answer
    <2> QED BY <2>1 DEF OrderlyInv
  <1>2. PICK ans \in Answer : state = ans.encoding /\ EncodeAndWrite("read", WriteMax, ans)
    BY <1>1 DEF Answering, Answer
  <1>3. /\ state \in {"encoding_accept", "encoding_finish"}
        /\ is_bidirectional
        /\ encoder = IF state = "encoding_accept" THEN "control_accept" ELSE "control_finish"
        /\ write_at = 0 /\ write_left = 0 /\ write_buf # <<>>
    <2>1. state = "encoding_accept" \/ state = "encoding_finish"
      BY <1>2 DEF Answer
    <2>2. write_left \in Nat /\ write_left <= write_at
      BY DEF Inv, TypeOK, AnswerInv, AnswerInBounds
    <2>3. /\ is_bidirectional
          /\ state = "encoding_accept" => encoder = "control_accept" /\ write_at = 0
          /\ state = "encoding_finish" => encoder = "control_finish" /\ write_at = 0
      BY <2>1 DEF Inv, AnswerInv, OrderlyInv
    <2>4. write_buf # <<>>
      BY <2>3 DEF Inv, AnswerInv
    <2> QED BY <2>1, <2>2, <2>3, <2>4
  <1>4. PICK o \in EncodeLoop(encoder, NoDnstap, write_buf, write_size, WriteInc, WriteMax,
                              write_at, AllocMayFail) :
           LET n == Len(o.cells) IN
           /\ encoder' = o.state
           /\ \/ /\ o.res = ans.encoded
                 /\ Write("read", WriteMax, o.buf, write_at + n, write_left + n, ans)
              \/ o.res # ans.encoded
    BY <1>2 DEF EncodeAndWrite
  <1> DEFINE x == Encoding(encoder, NoDnstap)
             n == Len(o.cells)
  <1>5. /\ x.cells \in Seq(Cell) /\ Len(x.cells) \in Nat \ {0}
        /\ Len(x.cells) <= HeaderLen + FieldLen
        /\ x.res = (IF state = "encoding_accept" THEN "again" ELSE "endofdata")
        /\ x.next = (IF state = "encoding_accept" THEN "control_finish" ELSE "done")
    BY <1>3, AnswerCells, LengthAssumption
  <1>6. /\ write_buf \in Seq(Cell) /\ write_size \in Nat /\ WriteInc \in Nat
        /\ WriteMax \in Nat /\ write_at \in Nat /\ AllocMayFail \in BOOLEAN
        /\ write_size <= WriteMax /\ write_at <= write_size
        /\ HeaderLen + FieldLen < write_size
    <2>1. /\ write_buf \in Seq(Cell) /\ write_size \in Nat /\ write_at \in Nat
          /\ write_at <= write_size /\ write_size <= WriteMax /\ WriteSize <= write_size
      BY DEF Inv, TypeOK, AnswerInv, AnswerInBounds
    <2>2. HeaderLen + FieldLen < write_size
      BY <2>1, AnswerAssumption, LengthAssumption, SizeAssumption
    <2> QED BY <2>1, <2>2, SizeAssumption, CallAssumption
  <1>7. /\ o.cells = x.cells /\ o.res = x.res /\ o.state = x.next
        /\ Len(o.cells) <= o.size /\ o.size <= WriteMax /\ o.size \in Nat
    <2>1. /\ o.size \in Nat /\ o.size <= WriteMax
          /\ write_at + Len(o.cells) <= o.size /\ o.cells \in Seq(Cell)
          /\ \/ o.cells = x.cells /\ o.res = x.res /\ o.state = x.next
             \/ \/ write_size < write_at + Len(x.cells)
                \/ write_buf = <<>> \/ write_size <= write_at
      BY <1>5, <1>6, EncodeLoopType
    <2> HIDE DEF x
    <2>2. Len(x.cells) <= HeaderLen + FieldLen /\ Len(x.cells) \in Nat
      BY <1>5
    <2>3. ~(write_size < write_at + Len(x.cells)) /\ write_buf # <<>> /\ ~(write_size <= write_at)
      BY <1>3, <1>6, <2>2, LengthAssumption
    <2> QED BY <1>3, <2>1, <2>3
  <1>8. /\ o.res = ans.encoded
        /\ ans.returns = IF state = "encoding_accept" THEN "again" ELSE "endofdata"
        /\ ans.written = IF state = "encoding_accept" THEN "reading_control" ELSE "done"
    BY <1>2, <1>3, <1>5, <1>7 DEF Answer
  <1>9. n \in Nat \ {0} /\ n <= WriteMax
    <2> HIDE DEF x
    <2> QED BY <1>5, <1>6, <1>7
  <1>10. Write("read", WriteMax, o.buf, n, n, ans)
    <2>1. write_at + n = n /\ write_left + n = n
      BY <1>3, <1>9
    <2> HIDE DEF n
    <2> QED BY <1>4, <1>8, <2>1 DEF n
  <1> HIDE DEF n, x
  <1>11. Give(o.buf, n, n, n, ans)
    <2>1. LeastOf(n, WriteMax) = n
      BY <1>6, <1>9 DEF LeastOf
    <2> QED BY <1>9, <1>10, <2>1 DEF Write
  <1>12. /\ encoder' = (IF state = "encoding_accept" THEN "control_finish" ELSE "done")
         /\ write_at' = 0
         /\ state' = (IF state = "encoding_accept" THEN "reading_control" ELSE "done")
         /\ res' = (IF state = "encoding_accept" THEN "again" ELSE "endofdata")
    BY <1>4, <1>5, <1>7, <1>8, <1>11 DEF Give
  <1>13. /\ decoder' = decoder /\ at' = at /\ left' = left /\ size' = size
         /\ is_bidirectional' = is_bidirectional /\ decoded' = decoded
         /\ input' = input /\ rest' = rest
    BY DEF inVars, peerVars
  <1>14. Boundary(decoded)'
    BY <1>13 DEF OrderlyInv, Boundary
  <1>15. CASE state = "encoding_accept"
    <2>1. p > 0 /\ decoded = p /\ DecoderAt(decoder, decoded, p) /\ p \in Nat
      BY <1>15, LengthAssumption DEF OrderlyInv, Preamble
    <2>2. out = <<>>
      <3>1. out \o Slice(write_buf, write_at - write_left, write_left) = <<>>
        BY <1>3, <1>15 DEF Inv, ContentInv, AnswerSoFar
      <3>2. Slice(write_buf, 0, 0) = <<>> /\ out \in Seq(Cell)
        BY SliceEmpty DEF Inv, TypeOK
      <3>3. write_at - write_left = 0 /\ write_left = 0
        BY <1>3
      <3>4. out \o <<>> = <<>>
        BY <3>1, <3>2, <3>3
      <3> QED BY <3>2, <3>4
    <2>3. at + left < size
      <3>1. /\ taken = decoded + left /\ taken \in Nat /\ left \in Nat /\ decoded \in Nat
            /\ taken <= Len(input) /\ Len(input) \in Nat
            /\ left = 0 => at = 0
            /\ size \in Nat /\ size > 0
        BY DEF Inv, TypeOK, InputInv, InputInBounds
      <3>2. Len(input) <= p
        BY <2>1, <2>2
      <3> QED BY <2>1, <3>1, <3>2
    <2> QED BY <1>1, <1>3, <1>12, <1>13, <1>14, <1>15, <2>1, <2>3 DEF OrderlyInv, Taking
  <1>16. CASE state = "encoding_finish"
    BY <1>3, <1>12, <1>13, <1>14, <1>16 DEF OrderlyInv, Taking
  <1> QED BY <1>3, <1>15, <1>16

(* A call of read().                                                        *)
LEMMA ReadOrderly ==
    ASSUME NoWrap, BadPayload \notin Message, ~AllocMayFail, ~IOErrors, ~ShortWrites,
           Inv, NEW p \in Preamble, Orderly(input, p), OrderlyInv(p),
           out = <<>> /\ p > 0 => Len(input) <= p,
           res \notin {"error", "endofdata"}, Read
    PROVE  OrderlyInv(p)'
  <1>1. /\ size \in Nat /\ at \in Nat /\ left \in Nat /\ taken \in Nat /\ Len(input) \in Nat
        /\ at + left <= size /\ taken <= Len(input)
    BY InputFacts DEF Inv, TypeOK
  <1>2. Space \in Nat /\ Available \in Nat
    BY <1>1 DEF Available, Space
  <1>3. UNCHANGED <<allow_bidirectional, peerVars>>
    BY DEF Read
  <1>4. CASE ReadInput /\ UNCHANGED outVars
    <2>1. PICK ph \in Phase :
             \/ /\ state = ph.reading
                /\ \E n \in 1..LeastOf(Space, Available) : TakeAndDecode(n, ph, FALSE)
             \/ /\ state = ph.reading
                /\ (Available = 0 /\ rest = <<>>) \/ Space = 0
                /\ res' = "error"
                /\ UNCHANGED <<state, decoder, inVars, is_bidirectional, decoded>>
             \/ /\ state = ph.decoding
                /\ Decoding(buf, left, ph, FALSE)
                /\ UNCHANGED taken
      BY <1>4 DEF ReadInput
    <2>2. ASSUME state = ph.reading,
                 NEW n \in 1..LeastOf(Space, Available), TakeAndDecode(n, ph, FALSE)
          PROVE  OrderlyInv(p)'
      <3> DEFINE b == Overlay(buf, at + left, Slice(input, taken, n))
      <3>1. n \in Nat /\ n <= Space /\ n <= Available /\ left + n > 0
        BY <1>1, <1>2 DEF LeastOf
      <3>2. taken' = taken + n /\ Decoding(b, left + n, ph, FALSE)
        BY <2>2 DEF TakeAndDecode, Filled
      <3>3. /\ b \in Seq(Cell) /\ left + n \in Nat /\ Loaded(b, left + n)
            /\ taken' \in 0..Len(input)
        BY <3>1, <3>2, TakeLoads DEF Inv
      <3>4. taken' <= Len(input)
        BY <1>1, <3>3
      <3> HIDE DEF b
      <3> QED BY <1>3, <1>4, <2>2, <3>2, <3>3, <3>4, DecodingOrderly
    <2>3. CASE /\ state = ph.reading
               /\ (Available = 0 /\ rest = <<>>) \/ Space = 0
               /\ res' = "error"
               /\ UNCHANGED <<state, decoder, inVars, is_bidirectional, decoded>>
      <3>1. state \in {"reading_control", "reading"}
        BY <2>3 DEF Phase, ControlPhase, FramePhase
      <3>2. Space # 0
        BY <1>1, <3>1 DEF OrderlyInv, Space
      <3>3. rest' = <<>> /\ rest = <<>>
        BY <1>3, <2>3, <3>2 DEF peerVars
      <3> QED BY <1>3, <1>4, <2>3, <3>1, <3>3
              DEF OrderlyInv, Boundary, Taking, inVars, outVars, peerVars
    <2>4. CASE state = ph.decoding /\ Decoding(buf, left, ph, FALSE) /\ UNCHANGED taken
      <3>1. state \in {"decoding_control", "decoding"}
        BY <2>4 DEF Phase, ControlPhase, FramePhase
      <3>2. /\ buf \in Seq(Cell) /\ left \in Nat /\ Loaded(buf, left)
            /\ taken' <= Len(input)
        BY <1>1, <2>4, <3>1, BufferLoaded DEF Inv
      <3> QED BY <1>3, <1>4, <2>4, <3>2, DecodingOrderly
    <2> QED BY <2>1, <2>2, <2>3, <2>4
  <1>5. ASSUME Answering("read", WriteMax),
               UNCHANGED <<decoder, inVars, is_bidirectional, decoded>>
        PROVE  OrderlyInv(p)'
    BY <1>3, <1>5, AnsweringOrderly
  <1>6. ~Done
    BY DEF Done, OrderlyInv
  <1> QED BY <1>4, <1>5, <1>6 DEF Read

(* A call of push(), when there is no handshake and no STOP has come.       *)
LEMMA PushOrderly ==
    ASSUME NoWrap, BadPayload \notin Message, ~AllocMayFail, ElementsFit,
           Inv, Orderly(input, 0), Open(input), OrderlyInv(0), state \in Taking,
           NEW n \in 1..Available, NEW outlen \in OutLens, Push(n, outlen)
    PROVE  /\ OrderlyInv(0)' /\ state' \in Taking
           /\ res' \in {"again", "need_more", "have_dnstap"}
           /\ pushed' \in 0..n /\ taken' = taken + pushed'
           /\ pushed' > 0 <=> state \in {"reading_control", "reading"}
           /\ Advances(left + pushed')
  <1>1. /\ size \in Nat /\ at \in Nat /\ left \in Nat /\ taken \in Nat /\ Len(input) \in Nat
        /\ at + left <= size /\ taken <= Len(input)
    BY InputFacts DEF Inv, TypeOK
  <1>2. n \in Nat /\ n > 0 /\ n <= Available /\ Space \in Nat /\ Available \in Nat
    BY <1>1 DEF Available, Space
  <1>3. PushInput(n) /\ UNCHANGED <<outVars, allow_bidirectional, peerVars>>
    <2>1. ~Answering("push", outlen) /\ ~Done
      BY DEF Answering, Answer, Done, Taking
    <2> QED BY <2>1 DEF Push
  <1>4. 0 \in Preamble
    BY DEF Preamble
  <1> DEFINE Goal == /\ OrderlyInv(0)' /\ res' \in {"again", "need_more", "have_dnstap"}
                     /\ pushed' \in 0..n /\ taken' = taken + pushed'
                     /\ pushed' > 0 <=> state \in {"reading_control", "reading"}
                     /\ Advances(left + pushed')
  (* Whatever it decodes.                                                    *)
  <1>5. ASSUME NEW b \in Seq(Cell), NEW l \in Nat, Loaded(b, l), taken' <= Len(input),
               NEW ph \in Phase, state \in {ph.reading, ph.decoding},
               NEW more \in BOOLEAN, Decoding(b, l, ph, more)
        PROVE  OrderlyInv(0)' /\ res' \in {"again", "need_more", "have_dnstap"} /\ Advances(l)
    <2>1. /\ OrderlyInv(0)' /\ Advances(l)
          /\ res' \in {"again", "need_more", "have_dnstap", "endofdata", "error"}
          /\ res' = "error" => 0 > 0 \/ ~ElementsFit
          /\ res' = "endofdata" => ~Open(input)
      BY <1>3, <1>4, <1>5, DecodingOrderly
    <2> QED BY <2>1
  <1>6. PICK ph \in Phase :
           \/ /\ state = ph.reading
              /\ pushed' = LeastOf(Space, n)
              /\ TakeAndDecode(LeastOf(Space, n), ph, Space < n)
           \/ /\ state = ph.decoding
              /\ pushed' = 0
              /\ Decoding(buf, left, ph, n > 0)
              /\ UNCHANGED taken
    BY <1>2, <1>3 DEF PushInput
  <1>7. ASSUME /\ state = ph.reading /\ pushed' = LeastOf(Space, n)
               /\ TakeAndDecode(LeastOf(Space, n), ph, Space < n)
        PROVE  Goal
    <2> DEFINE m == LeastOf(Space, n)
               b == Overlay(buf, at + left, Slice(input, taken, m))
               more == Space < n
    <2>1. state \in {"reading_control", "reading"}
      BY <1>7 DEF Phase, ControlPhase, FramePhase
    <2>2. Space > 0
      BY <1>1, <2>1 DEF OrderlyInv, Space
    <2>3. m \in Nat /\ m <= Space /\ m <= n /\ m <= Available /\ left + m > 0
      BY <1>1, <1>2, <2>2 DEF LeastOf
    <2>4. /\ taken' = taken + m /\ Decoding(b, left + m, ph, more) /\ pushed' = m
          /\ more \in BOOLEAN
      BY <1>7 DEF TakeAndDecode, Filled
    <2> HIDE DEF m, more
    <2>5. /\ b \in Seq(Cell) /\ left + m \in Nat /\ Loaded(b, left + m)
          /\ taken' \in 0..Len(input)
      BY <2>3, <2>4, TakeLoads DEF Inv
    <2> HIDE DEF b
    <2>6. taken' <= Len(input)
      BY <1>1, <2>5
    <2>7. /\ OrderlyInv(0)' /\ res' \in {"again", "need_more", "have_dnstap"}
          /\ Advances(left + m)
      BY <1>5, <1>7, <2>4, <2>5, <2>6
    <2>8. pushed' \in 0..n /\ taken' = taken + pushed'
      BY <1>2, <2>3, <2>4
    <2>9. pushed' > 0 <=> state \in {"reading_control", "reading"}
      BY <1>2, <2>1, <2>2, <2>4 DEF m, LeastOf
    <2>10. Advances(left + pushed')
      BY <2>4, <2>7
    <2> QED BY <2>7, <2>8, <2>9, <2>10
  <1>8. ASSUME /\ state = ph.decoding /\ pushed' = 0 /\ Decoding(buf, left, ph, n > 0)
               /\ UNCHANGED taken
        PROVE  Goal
    <2>1. state \in {"decoding_control", "decoding"}
      BY <1>8 DEF Phase, ControlPhase, FramePhase
    <2>2. buf \in Seq(Cell) /\ left \in Nat /\ Loaded(buf, left) /\ taken' <= Len(input)
      BY <1>1, <1>8, <2>1, BufferLoaded DEF Inv
    <2> DEFINE more == n > 0
    <2>3. more \in BOOLEAN /\ Decoding(buf, left, ph, more)
      BY <1>8
    <2> HIDE DEF more
    <2>4. OrderlyInv(0)' /\ res' \in {"again", "need_more", "have_dnstap"} /\ Advances(left)
      BY <1>5, <1>8, <2>2, <2>3
    <2>5. pushed' \in 0..n /\ taken' = taken + pushed'
      BY <1>1, <1>2, <1>8
    <2>6. pushed' > 0 <=> state \in {"reading_control", "reading"}
      BY <1>8, <2>1
    <2>7. Advances(left + pushed')
      <3>1. left + pushed' = left
        BY <1>1, <1>8
      <3> QED BY <2>4, <3>1
    <2> QED BY <2>4, <2>5, <2>6, <2>7
  <1>9. Goal
    BY <1>6, <1>7, <1>8
  <1>10. state' \in Taking
    <2>1. Inv'
      <3>1. n \in 0..Available
        BY <1>2
      <3> QED BY <3>1, PushStep
    <2>2. state' \in ReaderState /\ (state' = "encoding_finish" => is_bidirectional')
      BY <2>1 DEF Inv, TypeOK, AnswerInv
    <2>3. res' # "endofdata" /\ ~(0 > 0)
      BY <1>9
    <2>4. /\ state' \notin {"writing_accept", "writing_finish"}
          /\ state' = "encoding_accept" => 0 > 0
          /\ is_bidirectional' => 0 > 0
          /\ state' = "done" => res' = "endofdata"
      BY <1>9 DEF OrderlyInv
    <2> QED BY <2>2, <2>3, <2>4 DEF ReaderState, Taking
  <1> QED BY <1>9, <1>10

(* What waits in a reader that reads is less than an element.               *)
Short ==
    state \in {"reading_control", "reading"} => left = 0 \/ left < Size(input[decoded + 1][1])

LEMMA TakenOut ==
    ASSUME NEW l \in Nat, NEW m \in Nat, NEW z \in Nat \ {0}
    PROVE  /\ (l + m) - z < l + m
           /\ l = 0 \/ l < z => (l + m) - z < m
           /\ m = 0 => (l + m) - z <= l
  OBVIOUS

(* A push that moves cells leaves fewer than those when it leaves more to    *)
(* decode; one that moves none takes an element out, or reads next.          *)
LEMMA PushShort ==
    ASSUME TypeOK, Short, state \in Taking, state' \in Taking, res' # "error", UNCHANGED input,
           left' \in Nat, pushed' \in Nat,
           pushed' > 0 <=> state \in {"reading_control", "reading"},
           Advances(left + pushed')
    PROVE  /\ Short'
           /\ state' \in {"decoding_control", "decoding"} => left' < left + pushed'
           /\ pushed' > 0 /\ state' \in {"decoding_control", "decoding"} => left' < pushed'
           /\ pushed' = 0 => left' <= left
  <1> DEFINE e == input[decoded + 1][1]
             z == Size(e)
             l == left + pushed'
  <1>1. left \in Nat
    BY DEF TypeOK
  <1>2. \/ /\ left' = l - z /\ decoded' = decoded + z /\ z \in Nat \ {0}
           /\ state' \in {"reading_control", "reading"} => left' = 0
        \/ /\ left' = l /\ decoded' = decoded /\ l < z
           /\ state' \in {"reading_control", "reading"}
    BY DEF Advances
  <1>3. Short'
    <2>1. CASE left' = 0 \/ state' \notin {"reading_control", "reading"}
      BY <2>1 DEF Short
    <2>2. CASE left' = l /\ decoded' = decoded /\ l < z
      BY <2>2 DEF Short
    <2> QED BY <1>2, <2>1, <2>2
  <1>4. pushed' > 0 => left = 0 \/ left < z
    BY DEF Short
  <1> HIDE DEF z
  <1>5. CASE left' = l - z /\ z \in Nat \ {0}
    <2>0. left' = (left + pushed') - z /\ z \in Nat \ {0} /\ pushed' \in Nat
      BY <1>5
    <2>1. /\ (left + pushed') - z < left + pushed'
          /\ left = 0 \/ left < z => (left + pushed') - z < pushed'
          /\ pushed' = 0 => (left + pushed') - z <= left
      BY <1>1, <2>0, TakenOut
    <2> QED BY <1>3, <1>4, <2>0, <2>1
  <1>6. CASE left' = l /\ state' \in {"reading_control", "reading"}
    <2>1. pushed' = 0 => left' <= left
      <3>1. pushed' = 0 => left + pushed' = left
        BY <1>1
      <3> QED BY <1>1, <1>6, <3>1
    <2>2. state' \notin {"decoding_control", "decoding"}
      BY <1>6
    <2> QED BY <1>3, <2>1, <2>2
  <1> QED BY <1>2, <1>5, <1>6

(* No FINISH is in an orderly stream, and no field behind STOP.             *)
LEMMA OrderlySent ==
    ASSUME NEW p \in Preamble, NEW s \in Seq(Cell), Orderly(s, p)
    PROVE  AllSent(s)
  <1> SUFFICES ASSUME NEW i \in 1..Len(s)
               PROVE  SentToReader(s[i])
    BY DEF AllSent
  <1>1. PICK k \in 1..i : Belongs(s[k][1], k, p) /\ s[i] = <<s[k][1], (i - k) + 1>>
    BY OrderlyCell
  <1> DEFINE e == s[k][1]
             c == s[i]
  <1>2. c[1] = e
    BY <1>1
  <1>3. Belongs(e, k, p)
    BY <1>1
  <1> HIDE DEF e, c
  <1>4. e.kind = "control" => e.what # "FINISH" /\ (e.what = "STOP" => e.fields = 0)
    BY <1>3 DEF Belongs, Control, Field, Frame, StopElement
  <1>5. SentToReader(c)
    BY <1>2, <1>4 DEF SentToReader
  <1> QED BY <1>5 DEF c

(* A choice about the handshake, which comes first.                         *)
LEMMA AllowOrderly ==
    ASSUME Inv, NEW p \in Preamble, OrderlyInv(p), NEW b, AllowBidirectional(b)
    PROVE  OrderlyInv(p)'
  <1>1. /\ encoder' \in {"control_accept", "control_start"}
        /\ UNCHANGED <<state, decoder, inVars, write_at, is_bidirectional, res, peerVars, decoded>>
        /\ res = "init"
    BY DEF AllowBidirectional
  <1>2. state = "reading_control" /\ ~is_bidirectional
    BY <1>1 DEF Inv, FreshInv
  <1> QED BY <1>1, <1>2 DEF OrderlyInv, Boundary, Taking, inVars, peerVars

(* More to read; how much of it is READY matters once some of it is decoded.*)
LEMMA InputGrowsOrderly ==
    ASSUME Inv, NEW p \in Preamble, NEW q \in Preamble, p = q \/ decoded = 0, OrderlyInv(p),
           NEW x \in Seq(Cell), input' = input \o x, rest = <<>> => rest' = <<>>,
           UNCHANGED <<state, decoder, inVars, outVars, bidirVars, res, decoded>>
    PROVE  OrderlyInv(q)'
  <1>1. /\ input \in Seq(Cell) /\ decoded \in Nat /\ decoded <= Len(input) /\ Len(input) \in Nat
        /\ at \in Nat /\ left \in Nat /\ size \in Nat
        /\ p \in Nat /\ q \in Nat
    <2>1. p \in Nat /\ q \in Nat
      BY LengthAssumption DEF Preamble
    <2>2. /\ input \in Seq(Cell) /\ taken \in 0..Len(input) /\ decoded \in 0..taken
          /\ at \in Nat /\ left \in Nat /\ size \in Nat
      BY DEF Inv, TypeOK
    <2> QED BY <2>1, <2>2
  <1>2. Boundary(decoded)'
    <2>1. decoded' = decoded /\ \A i \in 1..decoded : input'[i] = input[i]
      BY <1>1
    <2> QED BY <2>1 DEF OrderlyInv, Boundary
  <1>3. /\ state' = state /\ decoder' = decoder /\ at' = at /\ left' = left /\ size' = size
        /\ encoder' = encoder /\ write_at' = write_at /\ is_bidirectional' = is_bidirectional
        /\ res' = res /\ decoded' = decoded
    BY DEF inVars, outVars, bidirVars
  <1>4. CASE p = q
    BY <1>2, <1>3, <1>4 DEF OrderlyInv
  <1>5. CASE decoded = 0
    <2>1. /\ state \in Taking \cup {"encoding_accept"} => DecoderAt(decoder, decoded, q)
          /\ state # "encoding_accept" /\ ~is_bidirectional
          /\ state \notin {"reading", "decoding"}
      BY <1>1, <1>5, LengthAssumption DEF OrderlyInv, DecoderAt
    <2>2. ElementsFit /\ res = "error" => rest = <<>>
      BY <1>1, <1>5 DEF OrderlyInv
    <2> QED BY <1>2, <1>3, <2>1, <2>2 DEF OrderlyInv, ElementsFit
  <1> QED BY <1>4, <1>5

LEMMA InitOrderly ==
    ASSUME Init, NEW p \in Preamble
    PROVE  OrderlyInv(p)
  <1>1. InitSize \in Nat \ {0}
    BY SizeAssumption
  <1> QED BY <1>1 DEF Init, OrderlyInv, Boundary, DecoderAt, Taking


(* A read() delivers nothing, or one message, and says so.                  *)
LEMMA ReadObserved ==
    ASSUME Read
    PROVE  \/ res' # "have_dnstap" /\ delivered' = delivered
           \/ res' = "have_dnstap" /\ \E m : delivered' = Append(delivered, m)
  <1>1. ASSUME NEW b, NEW l, NEW ph, NEW more, Decoding(b, l, ph, more)
        PROVE  \/ res' # "have_dnstap" /\ delivered' = delivered
               \/ res' = "have_dnstap" /\ \E m : delivered' = Append(delivered, m)
    BY <1>1 DEF Decoding, NothingToDecode, Again, Ready, NeedMore, HaveDnstap, EndOfData, DecodeError
  <1>2. CASE ReadInput
    BY <1>1, <1>2 DEF ReadInput, TakeAndDecode
  <1>3. ASSUME NEW k, Answering("read", k)
        PROVE  res' # "have_dnstap"
    BY <1>3 DEF Answering, Answer, EncodeAndWrite, Write, Give, GiveNothing
  <1>4. CASE /\ \/ \E k : Answering("read", k)
                \/ Done
             /\ UNCHANGED delivered
    BY <1>3, <1>4 DEF Done
  <1> QED BY <1>2, <1>4 DEF Read

=============================================================================
