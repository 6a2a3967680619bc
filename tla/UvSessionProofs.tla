-------------------------- MODULE UvSessionProofs --------------------------
(***************************************************************************)
(* Proofs about the daemon, for any number of clients that come, read as    *)
(* slowly as they like and go, and about the receiver on one of its         *)
(* connections.                                                            *)
(***************************************************************************)
EXTENDS UvSession, CodingProofs

DaemonTypeOK ==
    /\ phase \in {"timers", "callbacks", "events", "closing", "crashed"}
    /\ ticks \in 0..Len(Made)
    /\ clients \in Seq(Clients)
    /\ state \in [Clients -> ClientState]
    /\ conn \in [Clients -> {"none", "open", "closing", "freed"}]
    /\ buf \in [Clients -> Seq(Cell)]
    /\ left \in [Clients -> Nat]
    /\ result \in [Clients -> {"none", "ok", "failed"}]
    /\ down \in [Clients -> Seq(Cell)]
    /\ gone \in [Clients -> BOOLEAN]

(* The list has the clients whose handle is there; a handle is being closed *)
(* from a callback or an event on until the end of that turn of the loop;   *)
(* a client that may be written to has nothing left to write.               *)
ClientInv(c) ==
    /\ c \in ToSet(clients) => conn[c] \in {"open", "closing"}
    /\ conn[c] = "none" => state[c] = "no_state" /\ left[c] = 0 /\ down[c] = <<>>
    /\ conn[c] = "closing" => phase \in {"events", "closing", "crashed"}
    /\ state[c] = "started" => left[c] = 0 /\ result[c] = "none"
    /\ result[c] # "none" => left[c] = 0 /\ conn[c] = "open"
    /\ left[c] <= Len(buf[c])

(* A stream that is whole: START, and frames with messages of the first n   *)
(* that are made.                                                          *)
Promised(s, n) ==
    /\ Orderly(s, 0) /\ Complete(s) /\ Open(s)
    /\ Payloads(s) \in Subsequences(SubSeq(Made, 1, n))

(* What a client was sent is a whole stream, or would be with what it was   *)
(* not sent any more.                                                       *)
SentInv(c) ==
    /\ \E t \in Seq(Cell) : Promised(down[c] \o t, ticks)
    /\ conn[c] = "open" /\ result[c] # "failed" =>
          Promised(Stream(c), ticks) /\ Len(Stream(c)) >= Len(StartCells)

DaemonInv == DaemonTypeOK /\ \A c \in Clients : ClientInv(c) /\ SentInv(c)

(* A client that closes has nothing left to be written.                     *)
ClosingInv ==
    /\ phase # "crashed"
    /\ \A c \in Clients : conn[c] = "closing" => left[c] = 0

-----------------------------------------------------------------------------
(***************************************************************************)
(* The streams.                                                            *)
(***************************************************************************)
(* START is the beginning of an orderly stream.                             *)
LEMMA StartPromised ==
    /\ StartCells \in Seq(Cell) /\ Len(StartCells) = HeaderLen + FieldLen /\ Len(StartCells) > 0
    /\ Orderly(StartCells, 0) /\ Complete(StartCells) /\ Open(StartCells)
    /\ Payloads(StartCells) = <<>>
  <1> DEFINE e == Control("START", 1)
             none == <<>>
             x == Cells(e) \o Cells(Field("dnstap"))
  <1>1. none \in Seq(Cell) /\ Len(none) = 0
    OBVIOUS
  <1>2. Orderly(none, 0) /\ Complete(none) /\ Open(none)
    <2> HIDE DEF none
    <2> QED BY <1>1 DEF Orderly, Complete, Open
  <1>3. Belongs(e, 0 + 1, 0) /\ Belongs(Field("dnstap"), 0 + HeaderLen + 1, 0)
    BY LengthAssumption DEF Belongs
  <1>4. Size(e) = HeaderLen /\ e # StopElement /\ 0 \in Preamble
    BY DEF Control, Size, StopElement, Preamble
  <1> HIDE DEF none, e
  <1>5. LET t == none \o x
        IN  Orderly(t, 0) /\ Complete(t) /\ Open(t) /\ Len(t) = Len(none) + HeaderLen + FieldLen
    BY <1>1, <1>2, <1>3, <1>4, PairGrows
  <1>6. x = StartCells
    BY DEF StartCells, Encoding, e
  <1>7. StartCells \in Seq(Cell) /\ Payloads(StartCells) = <<>>
    <2>1. Encoding("control_start", NoDnstap).res # "ok"
      BY DEF Encoding
    <2>2. "control_start" \in EncoderState
      BY DEF EncoderState
    <2> QED BY <2>1, <2>2, EncodingType, EncodingPayloads DEF StartCells
  <1>8. none \o x = StartCells
    BY <1>6, <1>7 DEF none
  <1>9. Len(none) + HeaderLen + FieldLen = HeaderLen + FieldLen /\ HeaderLen + FieldLen > 0
    BY <1>1, LengthAssumption
  <1> QED BY <1>5, <1>7, <1>8, <1>9

(* A stream stays one when another message is made.                         *)
LEMMA PromisedGrows ==
    ASSUME NEW n \in Nat, n < Len(Made), NEW s \in Seq(Cell), Promised(s, n)
    PROVE  Promised(s, n + 1)
  <1> DEFINE P == Message \cup {BadPayload}
             p == SubSeq(Made, 1, n)
             m == Made[n + 1]
  <1>1. Made \in Seq(Message) /\ Len(Made) \in Nat
    BY DaemonAssumption
  <1>2. p \in Seq(P) /\ m \in P /\ <<m>> \in Seq(P)
    BY <1>1
  <1>3. SubSeq(Made, 1, n + 1) = p \o <<m>>
    BY <1>1
  <1>4. Payloads(s) \in Seq(P)
    BY PayloadsAt
  <1> HIDE DEF p, m, P
  <1>5. Payloads(s) \in Subsequences(p \o <<m>>)
    BY <1>2, <1>4, SubsequencesGrow DEF Promised, p
  <1> QED BY <1>3, <1>5 DEF Promised

(* And when that message is put behind it in a frame.                       *)
LEMMA PromisedTick ==
    ASSUME NEW n \in Nat, n < Len(Made), NEW s \in Seq(Cell), Promised(s, n),
           Len(s) >= Len(StartCells)
    PROVE  /\ FrameCells(n + 1) \in Seq(Cell) /\ Len(FrameCells(n + 1)) > 0
           /\ Promised(s \o FrameCells(n + 1), n + 1)
  <1> DEFINE P == Message \cup {BadPayload}
             p == SubSeq(Made, 1, n)
             m == Made[n + 1]
             e == Frame(m)
             x == Cells(e)
  <1>1. Made \in Seq(Message) /\ Len(Made) \in Nat
    BY DaemonAssumption
  <1>2. p \in Seq(P) /\ m \in P /\ m \in Message
    BY <1>1
  <1>3. SubSeq(Made, 1, n + 1) = p \o <<m>>
    BY <1>1
  <1>4. Payloads(s) \in Seq(P)
    BY PayloadsAt
  <1> HIDE DEF p, m, P
  <1>5. e \in Element /\ e.kind = "frame" /\ e.what = m /\ e # StopElement
    BY <1>2 DEF Frame, Element, StopElement, Control
  <1>6. Belongs(e, Len(s) + 1, 0)
    <2>1. Len(s) + 1 > 0 + HeaderLen + FieldLen
      BY StartPromised, LengthAssumption
    <2> QED BY <1>2, <2>1 DEF Belongs
  <1> HIDE DEF e
  <1>7. x \in Seq(Cell) /\ Len(x) > 0 /\ Payloads(x) = <<m>>
    BY <1>5, CellsType, PayloadsCells
  <1>8. 0 \in Preamble
    BY DEF Preamble
  <1>9. Orderly(s \o x, 0) /\ Complete(s \o x) /\ Open(s \o x)
    BY <1>5, <1>6, <1>8, OrderlyGrows DEF Promised
  <1> HIDE DEF x
  <1>10. Payloads(s \o x) = Append(Payloads(s), m)
    <2>1. Payloads(s \o x) = Payloads(s) \o <<m>>
      BY <1>7, PayloadsConcat
    <2> QED BY <1>2, <1>4, <2>1
  <1>11. Append(Payloads(s), m) \in Subsequences(p \o <<m>>)
    BY <1>2, <1>4, SubsequencesAppend DEF Promised, p
  <1>12. FrameCells(n + 1) = x
    BY DEF FrameCells, x, e, m
  <1> QED BY <1>3, <1>7, <1>9, <1>10, <1>11, <1>12 DEF Promised

-----------------------------------------------------------------------------
(***************************************************************************)
(* uv_write().                                                             *)
(***************************************************************************)
(* What it does to one client: it fails, or the socket takes the first k    *)
(* cells.                                                                  *)
Given(c, x, k) ==
    /\ buf'[c] = x
    /\ down'[c] = down[c] \o SubSeq(x, 1, k)
    /\ \/ k = 0 /\ left'[c] = 0 /\ result'[c] = "failed"
       \/ left'[c] = Len(x) - k /\ result'[c] = IF k = Len(x) THEN "ok" ELSE result[c]

(* A part of a sequence, cut in two.                                        *)
LEMMA SplitAt ==
    ASSUME NEW x \in Seq(Cell), NEW j \in 0..Len(x), NEW k \in j..Len(x)
    PROVE  /\ SubSeq(x, j + 1, k) \in Seq(Cell) /\ SubSeq(x, k + 1, Len(x)) \in Seq(Cell)
           /\ SubSeq(x, j + 1, k) \o SubSeq(x, k + 1, Len(x)) = SubSeq(x, j + 1, Len(x))
  <1> DEFINE y == SubSeq(x, j + 1, k)
             z == SubSeq(x, k + 1, Len(x))
             v == SubSeq(x, j + 1, Len(x))
             u == y \o z
  <1>1. Len(x) \in Nat /\ k \in Nat /\ j \in Nat /\ j <= k /\ k <= Len(x)
    OBVIOUS
  <1>2. y \in Seq(Cell) /\ Len(y) = k - j /\ \A i \in 1..(k - j) : y[i] = x[j + i]
    BY <1>1
  <1>3. z \in Seq(Cell) /\ Len(z) = Len(x) - k /\ \A i \in 1..(Len(x) - k) : z[i] = x[k + i]
    BY <1>1
  <1>4. v \in Seq(Cell) /\ Len(v) = Len(x) - j /\ \A i \in 1..(Len(x) - j) : v[i] = x[j + i]
    BY <1>1
  <1> HIDE DEF y, z, v
  <1>5. u \in Seq(Cell) /\ Len(u) = Len(x) - j
    <2>0. y \in Seq(Cell) /\ z \in Seq(Cell)
      BY <1>2, <1>3
    <2>1. u \in Seq(Cell) /\ Len(u) = Len(y) + Len(z)
      BY <2>0
    <2> HIDE DEF u
    <2> QED BY <1>1, <1>2, <1>3, <2>1
  <1>6. ASSUME NEW i \in 1..(Len(x) - j)
        PROVE  u[i] = v[i]
    <2>1. CASE i \in 1..(k - j)
      BY <1>1, <1>2, <1>3, <1>4, <2>1
    <2>2. CASE i \notin 1..(k - j)
      <3>1. i - (k - j) \in 1..(Len(x) - k) /\ k + (i - (k - j)) = j + i
        BY <1>1, <2>2
      <3>2. u[i] = z[i - (k - j)]
        BY <1>1, <1>2, <1>3, <2>2
      <3> QED BY <1>3, <1>4, <3>1, <3>2
    <2> QED BY <2>1, <2>2
  <1> HIDE DEF u
  <1>7. u = v
    BY <1>4, <1>5, <1>6
  <1> QED BY <1>2, <1>3, <1>7 DEF u, v, y, z

LEMMA CutAt ==
    ASSUME NEW x \in Seq(Cell), NEW k \in 0..Len(x)
    PROVE  /\ SubSeq(x, 1, k) \in Seq(Cell) /\ SubSeq(x, k + 1, Len(x)) \in Seq(Cell)
           /\ SubSeq(x, 1, k) \o SubSeq(x, k + 1, Len(x)) = x
  <1>1. 0 \in 0..Len(x) /\ 0 + 1 = 1 /\ SubSeq(x, 1, Len(x)) = x
    OBVIOUS
  <1> QED BY <1>1, SplitAt

LEMMA UvWriteGives ==
    ASSUME DaemonTypeOK, NEW C \in SUBSET Clients, NEW x \in Seq(Cell), UvWrite(C, x),
           NEW c \in Clients
    PROVE  /\ c \notin C => /\ buf'[c] = buf[c] /\ left'[c] = left[c]
                            /\ result'[c] = result[c] /\ down'[c] = down[c]
           /\ c \in C => \E k \in 0..Len(x) : Given(c, x, k)
  <1>1. PICK failing \in SUBSET {d \in C : gone[d]}, taken \in [C -> 0..Len(x)] :
          /\ \A d \in failing : taken[d] = 0
          /\ buf' = [d \in Clients |-> IF d \in C THEN x ELSE buf[d]]
          /\ down' = [d \in Clients |-> IF d \in C THEN down[d] \o SubSeq(x, 1, taken[d]) ELSE down[d]]
          /\ left' = [d \in Clients |-> IF d \in failing THEN 0
                                        ELSE IF d \in C THEN Len(x) - taken[d]
                                        ELSE left[d]]
          /\ result' = [d \in Clients |-> IF d \in failing THEN "failed"
                                          ELSE IF d \in C /\ taken[d] = Len(x) THEN "ok"
                                          ELSE result[d]]
    BY DEF UvWrite
  <1>2. c \in failing => c \in C
    BY <1>1
  <1>3. CASE c \notin C
    BY <1>1, <1>2, <1>3
  <1>4. CASE c \in C
    <2>1. taken[c] \in 0..Len(x)
      BY <1>1, <1>4
    <2>2. Given(c, x, taken[c])
      BY <1>1, <1>4 DEF Given
    <2> QED BY <1>4, <2>1, <2>2
  <1> QED BY <1>3, <1>4

LEMMA UvWriteType ==
    ASSUME DaemonTypeOK, NEW C \in SUBSET Clients, NEW x \in Seq(Cell), UvWrite(C, x)
    PROVE  /\ buf' \in [Clients -> Seq(Cell)] /\ left' \in [Clients -> Nat]
           /\ result' \in [Clients -> {"none", "ok", "failed"}]
           /\ down' \in [Clients -> Seq(Cell)]
  <1>1. /\ buf' = [c \in Clients |-> buf'[c]] /\ left' = [c \in Clients |-> left'[c]]
        /\ result' = [c \in Clients |-> result'[c]] /\ down' = [c \in Clients |-> down'[c]]
    BY DEF UvWrite
  <1>2. ASSUME NEW c \in Clients
        PROVE  /\ buf'[c] \in Seq(Cell) /\ left'[c] \in Nat
               /\ result'[c] \in {"none", "ok", "failed"} /\ down'[c] \in Seq(Cell)
    <2>1. /\ buf[c] \in Seq(Cell) /\ left[c] \in Nat
          /\ result[c] \in {"none", "ok", "failed"} /\ down[c] \in Seq(Cell)
      BY DEF DaemonTypeOK
    <2>2. CASE c \notin C
      BY <2>1, <2>2, UvWriteGives
    <2>3. CASE c \in C
      <3>1. PICK k \in 0..Len(x) : Given(c, x, k)
        BY <2>3, UvWriteGives
      <3>2. down[c] \o SubSeq(x, 1, k) \in Seq(Cell)
        BY <2>1
      <3>3. Len(x) - k \in Nat
        OBVIOUS
      <3> QED BY <2>1, <3>1, <3>2, <3>3 DEF Given
    <2> QED BY <2>2, <2>3
  <1> QED BY <1>1, <1>2

(* A client that has nothing left to be written has a whole stream behind   *)
(* the write, if that is what x makes of its stream.                        *)
LEMMA UvWriteSends ==
    ASSUME DaemonTypeOK, NEW c \in Clients, NEW x \in Seq(Cell), Len(x) > 0,
           NEW k \in 0..Len(x), Given(c, x, k), left[c] = 0, result[c] = "none",
           NEW n, n = ticks', NEW t \in Seq(Cell), Promised(down[c] \o t, n),
           Promised(down[c] \o x, n), Len(down[c] \o x) >= Len(StartCells)
    PROVE  /\ \E u \in Seq(Cell) : Promised(down'[c] \o u, n)
           /\ result'[c] # "failed" =>
                 /\ Promised(Stream(c)', n) /\ Len(Stream(c)') >= Len(StartCells)
           /\ left'[c] <= Len(buf'[c])
           /\ result'[c] # "none" => left'[c] = 0
  <1>1. down[c] \in Seq(Cell) /\ Len(x) \in Nat /\ k \in Nat /\ k <= Len(x)
    BY DEF DaemonTypeOK
  <1> DEFINE y == SubSeq(x, 1, k)
             z == SubSeq(x, k + 1, Len(x))
  <1>2. y \in Seq(Cell) /\ z \in Seq(Cell) /\ y \o z = x
    <2>1. 0 \in 0..Len(x) /\ k \in 0..Len(x) /\ 0 + 1 = 1
      BY <1>1
    <2>2. SubSeq(x, 1, Len(x)) = x
      BY <1>1
    <2> QED BY ZenonT(30), <2>1, <2>2, SplitAt
  <1> HIDE DEF y, z
  <1>3. (down[c] \o y) \o z = down[c] \o x
    <2>1. (down[c] \o y) \o z = down[c] \o (y \o z)
      BY ZenonT(30), <1>1, <1>2, ConcatAssociates
    <2> QED BY <1>2, <2>1
  <1>4. CASE k = 0 /\ left'[c] = 0 /\ result'[c] = "failed"
    <2>1. y = <<>>
      BY <1>4 DEF y
    <2>2. down'[c] = down[c] \o y /\ buf'[c] = x
      BY DEF Given, y
    <2>3. down'[c] = down[c]
      BY <1>1, <2>1, <2>2
    <2>4. left'[c] <= Len(buf'[c])
      BY <1>1, <1>4, <2>2
    <2> QED BY <1>4, <2>3, <2>4
  <1>5. CASE left'[c] = Len(x) - k /\ result'[c] = IF k = Len(x) THEN "ok" ELSE result[c]
    <2>1. down'[c] = down[c] \o y /\ buf'[c] = x
      BY DEF Given, y
    <2>2. Len(x) - left'[c] + 1 = k + 1
      BY <1>1, <1>5
    <2>3. Stream(c)' = down[c] \o x
      BY <1>3, <2>1, <2>2 DEF Stream, z
    <2>4. Promised(down'[c] \o z, n)
      BY <1>3, <2>1
    <2>5. left'[c] <= Len(buf'[c]) /\ (result'[c] # "none" => left'[c] = 0)
      BY <1>1, <1>5, <2>1
    <2> QED BY <1>2, <2>3, <2>4, <2>5
  <1> QED BY <1>4, <1>5 DEF Given

-----------------------------------------------------------------------------
(***************************************************************************)
(* What each step does to one client.                                      *)
(***************************************************************************)
(* No message is a sequence of those that were made.                        *)
LEMMA StartsPromised ==
    ASSUME NEW n \in 0..Len(Made)
    PROVE  Promised(<<>>, n) /\ Promised(StartCells, n)
  <1> DEFINE P == Message
             none == <<>>
             p == SubSeq(Made, 1, n)
  <1>1. Made \in Seq(Message) /\ Len(Made) \in Nat
    BY DaemonAssumption
  <1>2. none \in Seq(P) /\ p \in Seq(P) /\ none \o p = p
    BY <1>1
  <1>3. none \in Subsequences(none)
    <2>1. none = [i \in 1..0 |-> none[none[i]]] /\ none \in [1..0 -> DOMAIN none]
      OBVIOUS
    <2>2. Len(none) = 0 /\ \A i, j \in 1..0 : i < j => none[i] < none[j]
      OBVIOUS
    <2>3. Picks(none, none, none)
      BY <2>1, <2>2 DEF Picks
    <2>4. \E f : Picks(f, none, none)
      BY <2>3
    <2> HIDE DEF none
    <2>5. Len(none) <= Len(none)
      BY <2>2
    <2> QED BY <1>2, <2>4, <2>5, SubsequencesPick
  <1>4. none \in Subsequences(p)
    <2> HIDE DEF none, p
    <2> QED BY <1>2, <1>3, SubsequencesGrow
  <1>5. none \in Seq(Cell) /\ Len(none) = 0 /\ Payloads(none) = none
    BY PayloadsNone
  <1> HIDE DEF none
  <1>6. Orderly(none, 0) /\ Complete(none) /\ Open(none)
    BY <1>5 DEF Orderly, Complete, Open
  <1> QED BY <1>4, <1>5, <1>6, StartPromised DEF Promised, none

(* A stream that has all of it sent.                                        *)
LEMMA StreamSent ==
    ASSUME DaemonTypeOK, NEW c \in Clients, left[c] = 0
    PROVE  Stream(c) = down[c]
  <1>1. down[c] \in Seq(Cell) /\ buf[c] \in Seq(Cell)
    BY DEF DaemonTypeOK
  <1>2. SubSeq(buf[c], Len(buf[c]) - left[c] + 1, Len(buf[c])) = <<>>
    BY <1>1
  <1>3. Stream(c) = down[c] \o <<>>
    BY <1>2 DEF Stream
  <1> QED BY <1>1, <1>3

(* A client that nothing is sent to and that does not begin.                *)
LEMMA SentKept ==
    ASSUME DaemonTypeOK, NEW c \in Clients, SentInv(c), ticks' = ticks,
           down'[c] = down[c],
           conn'[c] = "open" /\ result'[c] # "failed" =>
              /\ conn[c] = "open" /\ result[c] # "failed"
              /\ buf'[c] = buf[c] /\ left'[c] = left[c]
    PROVE  SentInv(c)'
  <1>1. \E t \in Seq(Cell) : Promised(down'[c] \o t, ticks')
    BY DEF SentInv
  <1>2. ASSUME conn'[c] = "open" /\ result'[c] # "failed"
        PROVE  Promised(Stream(c)', ticks') /\ Len(Stream(c)') >= Len(StartCells)
    <2>1. Stream(c)' = Stream(c)
      BY <1>2 DEF Stream
    <2> QED BY <1>2, <2>1 DEF SentInv
  <1> QED BY <1>1, <1>2 DEF SentInv

(* tick(): who is available is sent the next message, who is not is sent    *)
(* nothing of it.                                                          *)
LEMMA TickStep ==
    ASSUME DaemonInv, Tick
    PROVE  DaemonInv'
  <1> DEFINE n == ticks
             x == FrameCells(ticks')
  <1>1. /\ DaemonTypeOK /\ phase = "timers" /\ ticks < Len(Made) /\ ticks' = ticks + 1
        /\ UvWrite(Available, x) /\ phase' = "callbacks"
        /\ state' = [c \in Clients |-> IF c \in Available THEN "writing_frame" ELSE state[c]]
        /\ clients' = clients /\ conn' = conn /\ gone' = gone
    BY DEF DaemonInv, Tick
  <1>2. n \in Nat /\ Len(Made) \in Nat /\ n < Len(Made) /\ ticks' = n + 1 /\ ticks' \in 0..Len(Made)
    BY <1>1, DaemonAssumption DEF DaemonTypeOK
  <1>3. Available \in SUBSET Clients
    BY <1>1 DEF Available, ToSet, DaemonTypeOK
  <1>4. x \in Seq(Cell) /\ Len(x) > 0
    <2>1. Frame(Made[n + 1]) \in Element
      <3>1. Made[n + 1] \in Message
        BY <1>2, DaemonAssumption
      <3> QED BY <3>1 DEF Frame, Element
    <2> QED BY <1>2, <2>1, CellsType DEF FrameCells
  <1> HIDE DEF n, x
  <1>5. DaemonTypeOK'
    <2>1. /\ buf' \in [Clients -> Seq(Cell)] /\ left' \in [Clients -> Nat]
          /\ result' \in [Clients -> {"none", "ok", "failed"}]
          /\ down' \in [Clients -> Seq(Cell)]
      BY <1>1, <1>3, <1>4, UvWriteType
    <2>2. state' \in [Clients -> ClientState]
      BY <1>1 DEF DaemonTypeOK, ClientState
    <2> QED BY <1>1, <1>2, <2>1, <2>2 DEF DaemonTypeOK
  <1>6. ASSUME NEW c \in Clients
        PROVE  ClientInv(c)' /\ SentInv(c)'
    <2>1. ClientInv(c) /\ SentInv(c) /\ down[c] \in Seq(Cell)
      BY <1>1 DEF DaemonInv, DaemonTypeOK
    <2>2. conn[c] # "closing"
      BY <1>1, <2>1 DEF ClientInv
    <2>3. PICK t \in Seq(Cell) : Promised(down[c] \o t, n)
      BY <2>1 DEF SentInv, n
    <2>4. Promised(down[c] \o t, n + 1)
      <3>1. down[c] \o t \in Seq(Cell)
        BY <2>1
      <3> HIDE DEF Promised
      <3> QED BY <1>2, <2>3, <3>1, PromisedGrows
    <2>5. CASE c \notin Available
      <3>1. /\ buf'[c] = buf[c] /\ left'[c] = left[c] /\ result'[c] = result[c]
            /\ down'[c] = down[c] /\ state'[c] = state[c]
        BY <1>1, <1>3, <1>4, <2>5, UvWriteGives
      <3>2. ClientInv(c)'
        BY <1>1, <2>1, <2>2, <3>1 DEF ClientInv
      <3>3. Stream(c)' = Stream(c)
        BY <3>1 DEF Stream
      <3>4. ASSUME Promised(Stream(c), n)
            PROVE  Promised(Stream(c), n + 1)
        <4>1. Stream(c) \in Seq(Cell)
          <5>1. buf[c] \in Seq(Cell) /\ left[c] \in Nat
            BY <1>1 DEF DaemonTypeOK
          <5>2. left[c] <= Len(buf[c])
            BY <2>1 DEF ClientInv
          <5>3. SubSeq(buf[c], Len(buf[c]) - left[c] + 1, Len(buf[c])) \in Seq(Cell)
            BY <5>1, <5>2
          <5> QED BY <2>1, <5>3 DEF Stream
        <4> QED BY <1>2, <3>4, <4>1, PromisedGrows
      <3>5. SentInv(c)'
        BY <1>1, <1>2, <2>1, <2>4, <3>1, <3>3, <3>4 DEF SentInv, n
      <3> QED BY <3>2, <3>5
    <2>6. CASE c \in Available
      <3>1. c \in ToSet(clients) /\ state[c] = "started"
        BY <2>6 DEF Available
      <3>2. left[c] = 0 /\ result[c] = "none" /\ conn[c] = "open"
        BY <2>1, <2>2, <3>1 DEF ClientInv
      <3>3. Stream(c) = down[c]
        BY <1>1, <3>2, StreamSent
      <3>4. Promised(down[c], n) /\ Len(down[c]) >= Len(StartCells)
        BY <2>1, <3>2, <3>3 DEF SentInv, n
      <3>5. Promised(down[c] \o x, n + 1)
        BY <1>2, <2>1, <3>4, PromisedTick DEF x
      <3>6. Len(down[c] \o x) >= Len(StartCells)
        BY <1>4, <2>1, <3>4, StartPromised
      <3>7. PICK k \in 0..Len(x) : Given(c, x, k)
        BY <1>1, <1>3, <1>4, <2>6, UvWriteGives
      <3>8. /\ \E u \in Seq(Cell) : Promised(down'[c] \o u, ticks')
            /\ result'[c] # "failed" =>
                  /\ Promised(Stream(c)', ticks') /\ Len(Stream(c)') >= Len(StartCells)
            /\ left'[c] <= Len(buf'[c])
            /\ result'[c] # "none" => left'[c] = 0
        BY <1>1, <1>2, <1>4, <2>4, <3>2, <3>5, <3>6, <3>7, UvWriteSends
      <3>9. state'[c] = "writing_frame"
        BY <1>1, <2>6
      <3> QED BY <1>1, <3>1, <3>2, <3>8, <3>9 DEF ClientInv, SentInv
    <2> QED BY <2>5, <2>6
  <1> QED BY <1>5, <1>6 DEF DaemonInv

(* Timers that are not due, and turns of the loop.                          *)
LEMMA TurnStep ==
    ASSUME DaemonInv, NotDue \/ NoMoreEvents \/ (\E c \in Clients : Leave(c))
    PROVE  DaemonInv'
  <1>1. /\ UNCHANGED <<ticks, clients, state, conn, buf, left, result, down>>
        /\ \/ phase = "timers" /\ phase' = "callbacks"
           \/ phase = "events" /\ phase' = "closing"
           \/ phase' = phase
        /\ gone' \in [Clients -> BOOLEAN]
    BY DEF DaemonInv, DaemonTypeOK, NotDue, NoMoreEvents, Leave
  <1>2. DaemonTypeOK'
    BY <1>1 DEF DaemonInv, DaemonTypeOK
  <1>3. ASSUME NEW c \in Clients
        PROVE  ClientInv(c)' /\ SentInv(c)'
    <2>1. ClientInv(c)'
      BY <1>1 DEF DaemonInv, ClientInv
    <2>2. SentInv(c)'
      BY <1>1, SentKept DEF DaemonInv
    <2> QED BY <2>1, <2>2
  <1> QED BY <1>2, <1>3 DEF DaemonInv

(* client_write(), for the writes that are done.                            *)
LEMMA CallbacksStep ==
    ASSUME DaemonInv, Callbacks
    PROVE  DaemonInv'
  <1>1. /\ UNCHANGED <<ticks, clients, buf, left, down, gone>>
        /\ phase = "callbacks" /\ phase' = "events"
    BY DEF Callbacks
  <1>2. ASSUME NEW c \in Clients
        PROVE  /\ state'[c] = IF result[c] = "ok" THEN "started" ELSE state[c]
               /\ conn'[c] = IF result[c] = "failed" THEN "closing" ELSE conn[c]
               /\ result'[c] = "none"
    BY DEF Callbacks
  <1>3. DaemonTypeOK'
    <2>1. /\ state' \in [Clients -> ClientState]
          /\ conn' \in [Clients -> {"none", "open", "closing", "freed"}]
          /\ result' \in [Clients -> {"none", "ok", "failed"}]
      BY DEF DaemonInv, DaemonTypeOK, Callbacks, ClientState
    <2> QED BY <1>1, <2>1 DEF DaemonInv, DaemonTypeOK
  <1>4. ASSUME NEW c \in Clients
        PROVE  ClientInv(c)' /\ SentInv(c)'
    <2>1. ClientInv(c)'
      BY <1>1, <1>2 DEF DaemonInv, ClientInv
    <2>2. SentInv(c)'
      BY <1>1, <1>2, SentKept DEF DaemonInv
    <2> QED BY <2>1, <2>2
  <1> QED BY <1>3, <1>4 DEF DaemonInv

(* A connection is accepted, and sent START, or it is not.                  *)
LEMMA ConnectionStep ==
    ASSUME DaemonInv, NEW d \in Clients, OnNewConnection(d)
    PROVE  DaemonInv'
  <1>1. /\ DaemonTypeOK /\ phase = "events" /\ conn[d] = "none"
        /\ clients' = <<d>> \o clients /\ UNCHANGED <<phase, ticks, gone>>
    BY DEF DaemonInv, OnNewConnection
  <1>2. clients' \in Seq(Clients) /\ ToSet(clients') = ToSet(clients) \cup {d}
    <2> DEFINE s == <<d>> \o clients
    <2>1. clients \in Seq(Clients) /\ Len(clients) \in Nat
      BY <1>1 DEF DaemonTypeOK
    <2>2. /\ s \in Seq(Clients) /\ DOMAIN s = 1..(Len(clients) + 1)
          /\ s[1] = d /\ \A i \in 1..Len(clients) : s[i + 1] = clients[i]
      BY <2>1
    <2> HIDE DEF s
    <2>3. ASSUME NEW e \in ToSet(s)
          PROVE  e \in ToSet(clients) \cup {d}
      <3>1. PICK i \in DOMAIN s : e = s[i]
        BY DEF ToSet
      <3>2. CASE i = 1
        BY <2>2, <3>1, <3>2
      <3>3. CASE i # 1
        <4>1. i - 1 \in 1..Len(clients) /\ (i - 1) + 1 = i
          BY <2>1, <2>2, <3>3
        <4>2. e = clients[i - 1] /\ i - 1 \in DOMAIN clients
          BY <2>1, <2>2, <3>1, <4>1
        <4> QED BY <4>2 DEF ToSet
      <3> QED BY <3>2, <3>3
    <2>4. ASSUME NEW e \in ToSet(clients)
          PROVE  e \in ToSet(s)
      <3>1. PICK i \in DOMAIN clients : e = clients[i]
        BY DEF ToSet
      <3>2. i \in 1..Len(clients) /\ i + 1 \in DOMAIN s
        BY <2>1, <2>2
      <3> QED BY <2>2, <3>1, <3>2 DEF ToSet
    <2>5. d \in ToSet(s)
      <3>1. 1 \in DOMAIN s
        BY <2>1, <2>2
      <3> QED BY <2>2, <3>1 DEF ToSet
    <2> QED BY <1>1, <2>2, <2>3, <2>4, <2>5 DEF s
  <1>3. ClientInv(d) /\ SentInv(d) /\ ticks \in 0..Len(Made)
    BY <1>1 DEF DaemonInv, DaemonTypeOK
  <1>4. state[d] = "no_state" /\ left[d] = 0 /\ down[d] = <<>> /\ result[d] = "none"
    BY <1>1, <1>3 DEF ClientInv, DaemonTypeOK
  <1>5. CASE /\ conn' = [conn EXCEPT ![d] = "open"]
             /\ UvWrite({d}, StartCells)
             /\ state' = [state EXCEPT ![d] = "writing_start"]
    <2>1. {d} \in SUBSET Clients /\ StartCells \in Seq(Cell) /\ Len(StartCells) > 0
      BY StartPromised
    <2>2. DaemonTypeOK'
      <3>1. /\ buf' \in [Clients -> Seq(Cell)] /\ left' \in [Clients -> Nat]
            /\ result' \in [Clients -> {"none", "ok", "failed"}]
            /\ down' \in [Clients -> Seq(Cell)]
        BY <1>1, <1>5, <2>1, UvWriteType
      <3>2. /\ state' \in [Clients -> ClientState]
            /\ conn' \in [Clients -> {"none", "open", "closing", "freed"}]
        BY <1>1, <1>5 DEF DaemonTypeOK, ClientState
      <3> QED BY <1>1, <1>2, <3>1, <3>2 DEF DaemonTypeOK
    <2>3. ASSUME NEW c \in Clients, c # d
          PROVE  ClientInv(c)' /\ SentInv(c)'
      <3>1. /\ buf'[c] = buf[c] /\ left'[c] = left[c] /\ result'[c] = result[c]
            /\ down'[c] = down[c] /\ state'[c] = state[c] /\ conn'[c] = conn[c]
        <4>1. c \notin {d}
          BY <2>3
        <4>2. state'[c] = state[c] /\ conn'[c] = conn[c]
          BY <1>1, <1>5, <2>3 DEF DaemonTypeOK
        <4> QED BY <1>1, <1>5, <2>1, <4>1, <4>2, UvWriteGives
      <3>2. ClientInv(c) /\ SentInv(c)
        BY DEF DaemonInv
      <3>3. ClientInv(c)'
        BY <1>1, <1>2, <2>3, <3>1, <3>2 DEF ClientInv
      <3>4. SentInv(c)'
        BY <1>1, <3>1, <3>2, SentKept
      <3> QED BY <3>3, <3>4
    <2>4. ClientInv(d)' /\ SentInv(d)'
      <3>1. PICK k \in 0..Len(StartCells) : Given(d, StartCells, k)
        BY <1>1, <1>5, <2>1, UvWriteGives
      <3>2. down[d] \o <<>> = <<>> /\ down[d] \o StartCells = StartCells /\ <<>> \in Seq(Cell)
        BY <1>4, <2>1
      <3>3. Promised(down[d] \o <<>>, ticks) /\ Promised(down[d] \o StartCells, ticks)
        <4> HIDE DEF Promised
        <4> QED BY <1>3, <3>2, StartsPromised
      <3>4. Len(down[d] \o StartCells) >= Len(StartCells)
        BY <2>1, <3>2
      <3>5. ticks' = ticks
        BY <1>1
      <3>6. /\ \E u \in Seq(Cell) : Promised(down'[d] \o u, ticks)
            /\ result'[d] # "failed" =>
                  /\ Promised(Stream(d)', ticks) /\ Len(Stream(d)') >= Len(StartCells)
            /\ left'[d] <= Len(buf'[d])
            /\ result'[d] # "none" => left'[d] = 0
        <4> HIDE DEF Promised
        <4> QED BY <1>1, <1>4, <2>1, <3>1, <3>2, <3>3, <3>4, <3>5, UvWriteSends
      <3>7. state'[d] = "writing_start" /\ conn'[d] = "open"
        BY <1>1, <1>5 DEF DaemonTypeOK
      <3> QED BY <1>1, <3>6, <3>7 DEF ClientInv, SentInv
    <2> QED BY <2>2, <2>3, <2>4 DEF DaemonInv
  <1>6. CASE /\ conn' = [conn EXCEPT ![d] = "closing"]
             /\ UNCHANGED <<buf, left, result, down, state>>
    <2>1. DaemonTypeOK'
      BY <1>1, <1>2, <1>6 DEF DaemonTypeOK
    <2>2. ASSUME NEW c \in Clients
          PROVE  ClientInv(c)' /\ SentInv(c)'
      <3>1. ClientInv(c) /\ SentInv(c) /\ conn'[c] = IF c = d THEN "closing" ELSE conn[c]
        BY <1>1, <1>6 DEF DaemonInv, DaemonTypeOK
      <3>2. ClientInv(c)'
        BY <1>1, <1>2, <1>4, <1>6, <3>1 DEF ClientInv
      <3>3. SentInv(c)'
        BY <1>1, <1>6, <3>1, SentKept
      <3> QED BY <3>2, <3>3
    <2> QED BY <2>1, <2>2 DEF DaemonInv
  <1> QED BY <1>5, <1>6 DEF OnNewConnection

(* client_read().                                                           *)
LEMMA ClientReadStep ==
    ASSUME DaemonInv, NEW d \in Clients, ClientRead(d)
    PROVE  DaemonInv'
  <1>1. /\ DaemonTypeOK /\ phase = "events" /\ conn[d] = "open" /\ result[d] = "none"
        /\ conn' = [conn EXCEPT ![d] = "closing"]
        /\ UNCHANGED <<phase, ticks, clients, state, buf, left, result, down, gone>>
    BY DEF DaemonInv, ClientRead
  <1>2. DaemonTypeOK'
    BY <1>1 DEF DaemonTypeOK
  <1>3. ASSUME NEW c \in Clients
        PROVE  ClientInv(c)' /\ SentInv(c)'
    <2>1. ClientInv(c) /\ SentInv(c) /\ conn'[c] = IF c = d THEN "closing" ELSE conn[c]
      BY <1>1 DEF DaemonInv, DaemonTypeOK
    <2>2. ClientInv(c)'
      BY <1>1, <2>1 DEF ClientInv
    <2>3. SentInv(c)'
      BY <1>1, <2>1, SentKept
    <2> QED BY <2>2, <2>3
  <1> QED BY <1>2, <1>3 DEF DaemonInv

(* More of a write that waits.                                              *)
LEMMA WritableStep ==
    ASSUME DaemonInv, NEW d \in Clients, NEW k \in 1..left[d], Writable(d, k)
    PROVE  DaemonInv'
  <1>1. /\ DaemonTypeOK /\ phase = "events" /\ conn[d] = "open"
        /\ UNCHANGED <<phase, ticks, clients, buf, result, gone>>
        /\ ClientInv(d) /\ SentInv(d)
    BY DEF DaemonInv, Writable
  <1>2. /\ left[d] \in Nat /\ k \in Nat /\ 0 < k /\ k <= left[d] /\ left[d] <= Len(buf[d])
        /\ buf[d] \in Seq(Cell) /\ down[d] \in Seq(Cell) /\ Len(buf[d]) \in Nat
    BY <1>1 DEF ClientInv, DaemonTypeOK
  <1>3. result[d] = "none"
    BY <1>1, <1>2 DEF ClientInv
  <1> DEFINE l == left[d]
             b == buf[d]
             y == SubSeq(b, Len(b) - l + 1, Len(b) - l + k)
             z == SubSeq(b, Len(b) - l + k + 1, Len(b))
  <1>4. CASE /\ down' = [down EXCEPT ![d] = @ \o y]
             /\ left' = [left EXCEPT ![d] = @ - k]
             /\ state' = [state EXCEPT ![d] = IF left[d] = k THEN "started" ELSE @]
             /\ UNCHANGED conn
    <2>1. /\ y \in Seq(Cell) /\ z \in Seq(Cell)
          /\ y \o z = SubSeq(b, Len(b) - l + 1, Len(b))
      <3>1. Len(b) - l \in 0..Len(b) /\ Len(b) - l + k \in (Len(b) - l)..Len(b)
        BY <1>2
      <3> HIDE DEF b, l
      <3> QED BY <1>2, <3>1, SplitAt DEF b
    <2>2. DaemonTypeOK'
      <3>0. left[d] - k \in Nat
        BY <1>2
      <3> HIDE DEF y
      <3>1. down[d] \o y \in Seq(Cell) /\ left[d] - k \in Nat
        BY <1>2, <2>1, <3>0
      <3>2. /\ down' \in [Clients -> Seq(Cell)] /\ left' \in [Clients -> Nat]
            /\ state' \in [Clients -> ClientState]
        BY <1>1, <1>4, <3>1 DEF DaemonTypeOK, ClientState
      <3> QED BY <1>1, <1>4, <3>2 DEF DaemonTypeOK
    <2>3. ASSUME NEW c \in Clients, c # d
          PROVE  ClientInv(c)' /\ SentInv(c)'
      <3>1. /\ left'[c] = left[c] /\ down'[c] = down[c] /\ state'[c] = state[c]
        BY <1>1, <1>4, <2>3 DEF DaemonTypeOK
      <3>2. ClientInv(c) /\ SentInv(c)
        BY DEF DaemonInv
      <3>3. ClientInv(c)'
        BY <1>1, <1>4, <3>1, <3>2 DEF ClientInv
      <3>4. SentInv(c)'
        BY <1>1, <1>4, <3>1, <3>2, SentKept
      <3> QED BY <3>3, <3>4
    <2>4. /\ left'[d] = l - k /\ down'[d] = down[d] \o y
          /\ state'[d] = IF l = k THEN "started" ELSE state[d]
      BY <1>1, <1>4 DEF DaemonTypeOK
    <2>5. ClientInv(d)'
      <3> HIDE DEF y
      <3> QED BY <1>1, <1>2, <1>3, <1>4, <2>4 DEF ClientInv
    <2>6. Stream(d)' = down'[d] \o z
      <3>1. Len(b) - (l - k) + 1 = Len(b) - l + k + 1
        BY <1>2
      <3> QED BY <1>1, <2>4, <3>1 DEF Stream
    <2>7. Stream(d)' = Stream(d)
      <3>1. (down[d] \o y) \o z = down[d] \o (y \o z)
        <4> HIDE DEF y, z, b, l
        <4> QED BY <1>2, <2>1, ConcatAssociates
      <3> QED BY <2>1, <2>4, <2>6, <3>1 DEF Stream
    <2>8. SentInv(d)'
      <3>1. Promised(Stream(d), ticks) /\ Len(Stream(d)) >= Len(StartCells)
        BY <1>1, <1>3 DEF SentInv
      <3>2. Promised(down'[d] \o z, ticks) /\ z \in Seq(Cell)
        BY <2>1, <2>6, <2>7, <3>1
      <3> QED BY <1>1, <2>7, <3>1, <3>2 DEF SentInv
    <2> QED BY <2>2, <2>3, <2>5, <2>8 DEF DaemonInv
  <1>5. CASE /\ left' = [left EXCEPT ![d] = 0]
             /\ conn' = [conn EXCEPT ![d] = "closing"]
             /\ UNCHANGED <<down, state>>
    <2>1. DaemonTypeOK'
      BY <1>1, <1>5 DEF DaemonTypeOK
    <2>2. ASSUME NEW c \in Clients
          PROVE  ClientInv(c)' /\ SentInv(c)'
      <3>1. /\ ClientInv(c) /\ SentInv(c) /\ conn'[c] = IF c = d THEN "closing" ELSE conn[c]
            /\ left'[c] = IF c = d THEN 0 ELSE left[c]
        BY <1>1, <1>5 DEF DaemonInv, DaemonTypeOK
      <3>2. ClientInv(c)'
        <4>1. Len(buf[c]) >= 0
          BY <1>1 DEF DaemonTypeOK
        <4> QED BY <1>1, <1>3, <1>5, <3>1, <4>1 DEF ClientInv
      <3>3. SentInv(c)'
        BY <1>1, <1>5, <3>1, SentKept
      <3> QED BY <3>2, <3>3
    <2> QED BY <2>1, <2>2 DEF DaemonInv
  <1> QED BY <1>4, <1>5 DEF Writable

(* client_close(): the clients that closed are out of the list.             *)
LEMMA CloseStep ==
    ASSUME DaemonInv, Close
    PROVE  DaemonInv'
  <1> DEFINE closing == {c \in Clients : conn[c] = "closing"}
             I == {i \in DOMAIN clients : clients[i] \notin closing}
  <1>1. /\ DaemonTypeOK /\ phase = "closing"
        /\ UNCHANGED <<ticks, state, buf, left, result, down, gone>>
    BY DEF DaemonInv, Close
  <1>2. CASE phase' = "crashed" /\ UNCHANGED <<clients, conn>>
    <2>1. DaemonTypeOK'
      BY <1>1, <1>2 DEF DaemonTypeOK
    <2>2. ASSUME NEW c \in Clients
          PROVE  ClientInv(c)' /\ SentInv(c)'
      <3>1. ClientInv(c)'
        BY <1>1, <1>2 DEF DaemonInv, ClientInv
      <3>2. SentInv(c)'
        BY <1>1, <1>2, SentKept DEF DaemonInv
      <3> QED BY <3>1, <3>2
    <2> QED BY <2>1, <2>2 DEF DaemonInv
  <1>3. CASE /\ phase' = "timers"
             /\ clients' = Selected(clients, I)
             /\ conn' = [c \in Clients |-> IF c \in closing THEN "freed" ELSE conn[c]]
    <2>1. clients \in Seq(Clients) /\ I \in SUBSET DOMAIN clients
      BY <1>1 DEF DaemonTypeOK
    <2>2. clients' \in Seq(Clients)
      BY <1>3, <2>1, SelectedAt
    <2>3. DaemonTypeOK'
      BY <1>1, <1>3, <2>2 DEF DaemonTypeOK
    <2>4. ASSUME NEW c \in ToSet(clients')
          PROVE  c \in ToSet(clients) /\ c \notin closing
      <3>1. /\ Len(Selected(clients, I)) = Cardinality(I)
            /\ \A i \in I : Selected(clients, I)[Rank(I, i)] = clients[i]
        BY <2>1, SelectedAt
      <3>2. DOMAIN clients' = 1..Cardinality(I)
        BY <1>3, <2>2, <3>1
      <3>3. PICK k \in 1..Cardinality(I) : c = clients'[k]
        BY <3>2 DEF ToSet
      <3>4. Len(clients) \in Nat /\ I \in SUBSET (1..Len(clients))
        BY <2>1
      <3>5. PICK i \in I : Rank(I, i) = k
        <4> HIDE DEF I
        <4> QED BY <3>4, RankType
      <3>6. c = clients[i] /\ i \in DOMAIN clients /\ clients[i] \notin closing
        BY <1>3, <3>1, <3>3, <3>5
      <3> QED BY <3>6 DEF ToSet
    <2>5. ASSUME NEW c \in Clients
          PROVE  ClientInv(c)' /\ SentInv(c)'
      <3>1. /\ conn'[c] = IF conn[c] = "closing" THEN "freed" ELSE conn[c]
            /\ ClientInv(c) /\ SentInv(c)
        BY <1>3 DEF DaemonInv
      <3>2. c \in ToSet(clients') => c \in ToSet(clients) /\ conn[c] # "closing"
        BY <2>4
      <3> HIDE DEF closing, I
      <3>3. ClientInv(c)'
        BY <1>1, <1>3, <3>1, <3>2 DEF ClientInv
      <3>4. SentInv(c)'
        BY <1>1, <3>1, SentKept
      <3> QED BY <3>3, <3>4
    <2> QED BY <2>3, <2>5 DEF DaemonInv
  <1> QED BY <1>2, <1>3 DEF Close

-----------------------------------------------------------------------------
(***************************************************************************)
(* The daemon.                                                             *)
(***************************************************************************)
LEMMA InitDaemon ==
    ASSUME DaemonInit
    PROVE  DaemonInv /\ ClosingInv
  <1>1. Len(Made) \in Nat
    BY DaemonAssumption
  <1>2. /\ phase = "timers" /\ ticks = 0 /\ clients = <<>>
        /\ \A c \in Clients : /\ state[c] = "no_state" /\ conn[c] = "none" /\ left[c] = 0
                              /\ buf[c] = <<>> /\ result[c] = "none" /\ down[c] = <<>>
    BY DEF DaemonInit
  <1>3. DaemonTypeOK
    BY <1>1 DEF DaemonInit, DaemonTypeOK, ClientState
  <1>4. ASSUME NEW c \in Clients
        PROVE  ClientInv(c) /\ SentInv(c)
    <2>1. ClientInv(c)
      BY <1>2 DEF ClientInv, ToSet
    <2>2. Promised(<<>>, 0)
      <3> HIDE DEF Promised
      <3> QED BY <1>1, StartsPromised
    <2>3. down[c] \o <<>> = <<>> /\ <<>> \in Seq(Cell)
      BY <1>2
    <2>4. SentInv(c)
      <3> HIDE DEF Promised
      <3> QED BY <1>2, <2>2, <2>3 DEF SentInv
    <2> QED BY <2>1, <2>4
  <1> QED BY <1>2, <1>3, <1>4 DEF DaemonInv, ClosingInv

(* What the receiver does changes nothing of it, except that it may leave.  *)
LEMMA ReceiverApart ==
    ASSUME DaemonInv, Receive \/ PushChunk \/ UNCHANGED vars
    PROVE  /\ DaemonInv'
           /\ UNCHANGED <<phase, ticks, clients, state, conn, buf, left, result, down>>
  <1>1. /\ UNCHANGED <<phase, ticks, clients, state, conn, buf, left, result, down>>
        /\ gone' \in [Clients -> BOOLEAN]
    BY DEF DaemonInv, DaemonTypeOK, Receive, PushChunk, daemonVars, vars
  <1>2. DaemonTypeOK'
    BY <1>1 DEF DaemonInv, DaemonTypeOK
  <1>3. ASSUME NEW c \in Clients
        PROVE  ClientInv(c)' /\ SentInv(c)'
    <2>1. ClientInv(c)'
      BY <1>1 DEF DaemonInv, ClientInv
    <2>2. SentInv(c)'
      BY <1>1, SentKept DEF DaemonInv
    <2> QED BY <2>1, <2>2
  <1> QED BY <1>1, <1>2, <1>3 DEF DaemonInv

LEMMA NextDaemonInv ==
    ASSUME DaemonInv, [Next]_vars
    PROVE  DaemonInv'
  <1>1. CASE DaemonNext
    BY <1>1, TurnStep, CallbacksStep, CloseStep, TickStep, ConnectionStep, ClientReadStep,
       WritableStep DEF DaemonNext, Loop, WritableAny
  <1>2. CASE \E c \in Clients : Leave(c)
    BY <1>2, TurnStep
  <1>3. CASE Receive \/ PushChunk \/ UNCHANGED vars
    BY <1>3, ReceiverApart
  <1> QED BY <1>1, <1>2, <1>3 DEF Next

(* The list of clients, their handles and their streams are as DaemonInv    *)
(* says, whatever the clients do.                                           *)
THEOREM DaemonInvariance == Spec => []DaemonInv
  <1>1. Init => DaemonInv
    BY InitDaemon DEF Init
  <1>2. DaemonInv /\ [Next]_vars => DaemonInv'
    BY NextDaemonInv
  <1> QED BY <1>1, <1>2, PTL DEF Spec

(* What every client is sent is a whole stream: START, then frames with the *)
(* messages that were made, in their order and none twice, for any number   *)
(* of clients, however slowly they read and whenever they come and go       *)
(* (daemon_sender_uv.c:98-112, 114-160, 167-214).                          *)
THEOREM StreamsAreWhole == Spec => []StreamIsWhole
  <1>1. DaemonInv => StreamIsWhole
    BY DEF DaemonInv, SentInv, Promised, StreamIsWhole
  <1> QED BY <1>1, DaemonInvariance, PTL

(* A handle that is being closed has no write that waits.                   *)
LEMMA NextClosing ==
    ASSUME ~ClosesWhileWriting, DaemonInv, DaemonInv', ClosingInv, [Next]_vars
    PROVE  ClosingInv'
  <1>1. CASE Tick
    <2>1. DaemonTypeOK /\ phase' = "callbacks"
      BY <1>1 DEF DaemonInv, Tick
    <2> QED BY <2>1 DEF DaemonInv, ClientInv, ClosingInv
  <1>2. CASE NotDue \/ NoMoreEvents \/ (\E c \in Clients : Leave(c))
    BY <1>2 DEF ClosingInv, NotDue, NoMoreEvents, Leave
  <1>3. CASE Callbacks
    <2>1. phase' = "events" /\ left' = left
      BY <1>3 DEF Callbacks
    <2>2. ASSUME NEW c \in Clients
          PROVE  conn'[c] = IF result[c] = "failed" THEN "closing" ELSE conn[c]
      BY <1>3 DEF Callbacks
    <2> QED BY <2>1, <2>2 DEF DaemonInv, ClientInv, ClosingInv
  <1>4. CASE Close
    <2>1. left' = left
      BY <1>4 DEF Close
    <2>2. phase' = "timers"
      BY <1>4 DEF Close, ClosingInv
    <2> QED BY <2>2 DEF DaemonInv, ClientInv, ClosingInv
  <1>5. ASSUME NEW d \in Clients, OnNewConnection(d)
        PROVE  ClosingInv'
    <2>1. /\ DaemonTypeOK /\ phase' = phase /\ conn[d] = "none"
          /\ \A c \in Clients : ClientInv(c)
      BY <1>5 DEF DaemonInv, OnNewConnection
    <2>2. CASE conn' = [conn EXCEPT ![d] = "open"] /\ UvWrite({d}, StartCells)
      <3>1. ASSUME NEW c \in Clients, c # d
            PROVE  left'[c] = left[c] /\ conn'[c] = conn[c]
        <4>1. c \notin {d} /\ {d} \in SUBSET Clients /\ StartCells \in Seq(Cell)
          BY <3>1, StartPromised
        <4>2. left'[c] = left[c]
          BY <2>1, <2>2, <4>1, UvWriteGives
        <4>3. conn'[c] = conn[c]
          BY <2>1, <2>2, <3>1 DEF DaemonTypeOK
        <4> QED BY <4>2, <4>3
      <3>2. conn'[d] = "open"
        BY <2>1, <2>2 DEF DaemonTypeOK
      <3> QED BY <2>1, <3>1, <3>2 DEF ClosingInv
    <2>3. CASE conn' = [conn EXCEPT ![d] = "closing"] /\ left' = left
      <3>1. left[d] = 0
        BY <2>1 DEF ClientInv
      <3> QED BY <2>1, <2>3, <3>1 DEF ClosingInv, DaemonTypeOK
    <2> QED BY <1>5, <2>2, <2>3 DEF OnNewConnection
  <1>6. ASSUME NEW d \in Clients, ClientRead(d)
        PROVE  ClosingInv'
    <2>1. /\ DaemonTypeOK /\ phase' = phase /\ left' = left /\ left[d] = 0
          /\ conn' = [conn EXCEPT ![d] = "closing"]
      BY <1>6 DEF DaemonInv, ClientRead
    <2> QED BY <2>1 DEF ClosingInv, DaemonTypeOK
  <1>7. ASSUME NEW d \in Clients, NEW k \in 1..left[d], Writable(d, k)
        PROVE  ClosingInv'
    <2>1. DaemonTypeOK /\ phase' = phase /\ conn[d] = "open"
      BY <1>7 DEF DaemonInv, Writable
    <2>2. \/ conn' = conn /\ left' = [left EXCEPT ![d] = @ - k]
          \/ conn' = [conn EXCEPT ![d] = "closing"] /\ left' = [left EXCEPT ![d] = 0]
      BY <1>7 DEF Writable
    <2> QED BY <2>1, <2>2 DEF ClosingInv, DaemonTypeOK
  <1>8. CASE Receive \/ PushChunk \/ UNCHANGED vars
    <2>1. UNCHANGED <<phase, conn, left>>
      BY <1>8, ReceiverApart
    <2> QED BY <2>1 DEF ClosingInv
  <1> QED BY <1>1, <1>2, <1>3, <1>4, <1>5, <1>6, <1>7, <1>8
          DEF Next, DaemonNext, Loop, WritableAny

(* As long as no client closes while a write to it waits, no assertion of   *)
(* libuv fails, and no client that was freed is in the list tick() goes     *)
(* through (daemon_sender_uv.c:53-73, 81-112, 202-213).                     *)
THEOREM ClosedOnce ==
    ASSUME ~ClosesWhileWriting
    PROVE  Spec => []ClosesOnce
  <1>1. Init => DaemonInv /\ ClosingInv
    BY InitDaemon DEF Init
  <1>2. (DaemonInv /\ ClosingInv) /\ [Next]_vars => (DaemonInv /\ ClosingInv)'
    BY NextDaemonInv, NextClosing
  <1>3. DaemonInv /\ ClosingInv => ClosesOnce
    <2> SUFFICES ASSUME DaemonInv, ClosingInv
                 PROVE  ClosesOnce
      OBVIOUS
    <2>1. ToSet(clients) \subseteq Clients
      BY DEF DaemonInv, DaemonTypeOK, ToSet
    <2> QED BY <2>1 DEF DaemonInv, ClientInv, ClosingInv, ClosesOnce
  <1> QED BY <1>1, <1>2, <1>3, PTL DEF Spec

-----------------------------------------------------------------------------
(***************************************************************************)
(* The receiver.                                                           *)
(***************************************************************************)
(* The reader waits for more of the stream or goes through it, and what the *)
(* callback has still to push has come.                                     *)
ReceiverInv ==
    /\ R!Inv /\ R!OrderlyInv(0)
    /\ rstate \in R!Taking
    /\ rres \in {"init", "again", "need_more", "have_dnstap"}
    /\ chunk \in 0..R!Available

(* No message is left behind of what had come by the callback before.       *)
CaughtUp == \A i \in FrameEnds(down[Receiver]) : i <= before => i <= rdecoded

(* A push in a state that decodes takes an element out, or is followed by   *)
(* one that moves cells; those of an element that was short, after which    *)
(* fewer wait than were moved.                                              *)
LoopInv ==
    /\ before \in Nat /\ before <= rtaken /\ came = rtaken + chunk
    /\ R!Short
    /\ pushes \in Nat /\ pushes <= (rtaken - before) + rmax
    /\ rstate \in {"decoding_control", "decoding"} =>
          pushes + rleft <= (rtaken - before) + rmax
    /\ chunk = 0 => pushes = 0 /\ CaughtUp

(* What the instance defines anew is what is defined here.                  *)
LEMMA SameCells == R!Cell = Cell /\ R!BadPayload = BadPayload /\ 0 \in R!Preamble
  BY DEF R!Cell, Cell, R!Element, Element, R!ControlType, ControlType, R!FieldValue, FieldValue,
         R!BadPayload, BadPayload, R!Preamble

LEMMA SamePayloads == \A s : R!Payloads(s) = Payloads(s)
  BY DEF R!Payloads, Payloads, R!Selected, Selected, R!Rank, Rank, R!Heads, Heads,
         R!Cardinality, Cardinality

LEMMA SameOrder == \A s : R!Orderly(s, 0) = Orderly(s, 0) /\ R!Open(s) = Open(s)
  <1>1. /\ R!StopElement = StopElement
        /\ \A e : R!Size(e) = Size(e)
        /\ \A t, n : R!Control(t, n) = Control(t, n)
        /\ \A v : R!Field(v) = Field(v) /\ R!Frame(v) = Frame(v)
    BY DEF R!StopElement, StopElement, R!Size, Size, R!Control, Control, R!Field, Field,
           R!Frame, Frame
  <1>2. \A e, i : R!Belongs(e, i, 0) = Belongs(e, i, 0)
    BY <1>1 DEF R!Belongs, Belongs
  <1>3. \A s, i : R!Begins(s, i, 0) = Begins(s, i, 0)
    BY <1>1, <1>2 DEF R!Begins, Begins
  <1>4. \A s : R!Orderly(s, 0) = Orderly(s, 0)
    BY <1>1, <1>3 DEF R!Orderly, Orderly
  <1>5. \A s : R!Open(s) = Open(s)
    BY <1>1 DEF R!Open, Open
  <1> QED BY <1>4, <1>5

(* The reader is one as its module assumes it.                              *)
LEMMA ReaderAssumed ==
    /\ HeaderLen + FieldLen + 1 \in Nat \ {0} /\ HeaderLen + FieldLen + 1 > HeaderLen + FieldLen
    /\ HeaderLen + FieldLen + 1 <= HeaderLen + FieldLen + 1
    /\ 1 \in Nat \ {0} /\ 0 \in Nat /\ {FALSE} \subseteq BOOLEAN /\ {0} \subseteq Nat
    /\ {[hello |-> <<>>, body |-> <<>>]} \subseteq [hello : Seq(R!Cell), body : Seq(R!Cell)]
  BY LengthAssumption

(* What was sent of a stream that is promised is a stream a reader takes.   *)
LEMMA SentIsOrderly ==
    ASSUME NEW s \in Seq(Cell), NEW n, \E t \in Seq(Cell) : Promised(s \o t, n)
    PROVE  s \in Seq(R!Cell) /\ R!Orderly(s, 0) /\ R!Open(s) /\ R!AllSent(s)
  <1>1. PICK t \in Seq(Cell) : Orderly(s \o t, 0) /\ Open(s \o t)
    BY DEF Promised
  <1>2. Orderly(s, 0)
    BY <1>1, OrderlyPrefix
  <1>3. Open(s)
    <2>1. ASSUME NEW i \in 1..Len(s)
          PROVE  i \in 1..Len(s \o t) /\ (s \o t)[i] = s[i]
      OBVIOUS
    <2> QED BY <1>1, <2>1 DEF Open
  <1>4. s \in Seq(R!Cell) /\ R!Orderly(s, 0) /\ R!Open(s) /\ 0 \in R!Preamble
    BY <1>2, <1>3, SameCells, SameOrder
  <1> QED BY <1>4, R!OrderlySent, LengthAssumption, SizeModAssumption, SizeAssumption,
             ReaderAssumed

(* The daemon sends more, and takes nothing back.                           *)
LEMMA MoreIsSent ==
    ASSUME DaemonInv, NEW c \in Clients, DaemonNext
    PROVE  \E x \in Seq(Cell) : down'[c] = down[c] \o x
  <1>1. DaemonTypeOK /\ down[c] \in Seq(Cell) /\ ClientInv(c)
    BY DEF DaemonInv, DaemonTypeOK
  <1>2. down[c] = down[c] \o <<>> /\ <<>> \in Seq(Cell)
    BY <1>1
  <1>3. ASSUME NEW C \in SUBSET Clients, NEW x \in Seq(Cell), UvWrite(C, x)
        PROVE  \E y \in Seq(Cell) : down'[c] = down[c] \o y
    <2>1. CASE c \notin C
      BY <1>1, <1>2, <1>3, <2>1, UvWriteGives
    <2>2. CASE c \in C
      <3>1. PICK k \in 0..Len(x) : Given(c, x, k)
        BY <1>1, <1>3, <2>2, UvWriteGives
      <3>2. SubSeq(x, 1, k) \in Seq(Cell)
        OBVIOUS
      <3> QED BY <3>1, <3>2 DEF Given
    <2> QED BY <2>1, <2>2
  <1>4. CASE Tick
    <2>1. Available \in SUBSET Clients
      BY <1>1 DEF Available, ToSet, DaemonTypeOK
    <2>2. FrameCells(ticks') \in Seq(Cell)
      <3>1. ticks \in Nat /\ ticks < Len(Made) /\ ticks' = ticks + 1 /\ Len(Made) \in Nat
        BY <1>1, <1>4, DaemonAssumption DEF Tick, DaemonTypeOK
      <3>2. Made[ticks'] \in Message
        BY <3>1, DaemonAssumption
      <3>3. Frame(Made[ticks']) \in Element
        BY <3>2 DEF Frame, Element
      <3> QED BY <3>3, CellsType DEF FrameCells
    <2>3. UvWrite(Available, FrameCells(ticks'))
      BY <1>4 DEF Tick
    <2> QED BY <1>3, <2>1, <2>2, <2>3
  <1>5. CASE UNCHANGED down
    BY <1>2, <1>5
  <1>6. ASSUME NEW d \in Clients, OnNewConnection(d)
        PROVE  \E y \in Seq(Cell) : down'[c] = down[c] \o y
    <2>1. CASE UvWrite({d}, StartCells)
      <3>1. {d} \in SUBSET Clients /\ StartCells \in Seq(Cell)
        BY StartPromised
      <3> QED BY <1>3, <2>1, <3>1
    <2> QED BY <1>5, <1>6, <2>1 DEF OnNewConnection
  <1>7. ASSUME NEW d \in Clients, NEW k \in 1..left[d], Writable(d, k)
        PROVE  \E y \in Seq(Cell) : down'[c] = down[c] \o y
    <2> DEFINE y == SubSeq(buf[d], Len(buf[d]) - left[d] + 1, Len(buf[d]) - left[d] + k)
    <2>1. /\ left[d] \in Nat /\ k \in Nat /\ k <= left[d] /\ left[d] <= Len(buf[d])
          /\ buf[d] \in Seq(Cell) /\ Len(buf[d]) \in Nat
      BY <1>1 DEF DaemonInv, ClientInv, DaemonTypeOK
    <2>2. y \in Seq(Cell)
      <3>1. Len(buf[d]) - left[d] \in 0..Len(buf[d])
            /\ Len(buf[d]) - left[d] + k \in (Len(buf[d]) - left[d])..Len(buf[d])
        BY <2>1
      <3> QED BY <2>1, <3>1, SplitAt
    <2>3. down' = [down EXCEPT ![d] = @ \o y] \/ down' = down
      BY <1>7 DEF Writable
    <2> HIDE DEF y
    <2>4. CASE down' = [down EXCEPT ![d] = @ \o y] /\ c = d
      BY <1>1, <2>2, <2>4 DEF DaemonTypeOK
    <2>5. CASE down'[c] = down[c]
      BY <1>2, <2>5
    <2> QED BY <1>1, <2>3, <2>4, <2>5 DEF DaemonTypeOK
  <1>8. CASE \E d \in Clients : ClientRead(d)
    BY <1>5, <1>8 DEF ClientRead
  <1>9. CASE Loop
    BY <1>5, <1>9 DEF Loop, NotDue, Callbacks, NoMoreEvents, Close
  <1> QED BY <1>4, <1>6, <1>7, <1>8, <1>9 DEF DaemonNext, WritableAny

(* That more has come changes nothing for the reader.                       *)
LEMMA MoreComes ==
    ASSUME DaemonInv, DaemonInv', ReceiverInv,
           NEW x \in Seq(Cell), down'[Receiver] = down[Receiver] \o x,
           UNCHANGED <<rstate, rdecoder, rbuf, rsize, rinc, rmax, rat, rleft, rpushed,
                       rencoder, rwrite_buf, rwrite_size, rwrite_at, rwrite_left,
                       rallow_bidirectional, ris_bidirectional, rres, rtaken, rout, rdecoded,
                       rdelivered, rtunes>>,
           chunk' = chunk \/ chunk' = R!Available
    PROVE  ReceiverInv'
  <1>1. /\ down[Receiver] \in Seq(Cell) /\ down'[Receiver] \in Seq(Cell)
        /\ \E t \in Seq(Cell) : Promised(down'[Receiver] \o t, ticks')
    BY ReceiverAssumption DEF DaemonInv, DaemonTypeOK, SentInv
  <1>2. R!AllSent(down'[Receiver])
    <2> HIDE DEF Promised
    <2> QED BY <1>1, SentIsOrderly
  <1>3. <<>> \in Seq(R!Cell) /\ R!AllSent(<<>>) /\ x \in Seq(R!Cell)
    BY SameCells DEF R!AllSent
  <1>4. UNCHANGED <<rstate, rdecoder, R!inVars, rpushed, R!outVars, R!bidirVars, rres,
                    rtaken, rdecoded, rdelivered, R!tuneVars>>
    BY DEF R!inVars, R!outVars, R!bidirVars, R!tuneVars
  <1>5. R!Inv /\ R!OrderlyInv(0)
    BY DEF ReceiverInv
  <1>6. R!Inv'
    BY <1>2, <1>3, <1>4, <1>5, R!InputGrows, LengthAssumption, SizeModAssumption,
       SizeAssumption, ReaderAssumed
  <1>7. R!OrderlyInv(0)'
    BY <1>3, <1>4, <1>5, SameCells, R!InputGrowsOrderly, LengthAssumption, SizeModAssumption,
       SizeAssumption, ReaderAssumed
  <1>8. chunk' \in 0..R!Available'
    <2>1. /\ Len(down'[Receiver]) = Len(down[Receiver]) + Len(x)
          /\ Len(down[Receiver]) \in Nat /\ Len(x) \in Nat
      BY <1>1
    <2>2. /\ rtaken \in 0..Len(down[Receiver]) /\ rtaken' = rtaken
          /\ chunk \in 0..(Len(down[Receiver]) - rtaken)
          /\ chunk' = chunk \/ chunk' = Len(down[Receiver]) - rtaken
      BY <1>5 DEF R!Inv, R!TypeOK, R!Available, ReceiverInv
    <2>3. chunk' \in 0..(Len(down'[Receiver]) - rtaken')
      BY <2>1, <2>2
    <2> QED BY <2>3 DEF R!Available
  <1> QED BY <1>6, <1>7, <1>8 DEF ReceiverInv, R!Taking

LEMMA StillToPush ==
    ASSUME NEW n \in Nat, NEW k \in Nat, NEW c \in Nat, c <= n - k, NEW m \in 0..c
    PROVE  c - m \in 0..(n - (k + m))
  OBVIOUS

(* A push moves a part of what came, fails at nothing and does not end.     *)
LEMMA PushChunkMoves ==
    ASSUME R!NoWrap, R!ElementsFit, BadPayload \notin Message, DaemonInv, ReceiverInv, PushChunk
    PROVE  /\ R!Inv' /\ R!OrderlyInv(0)' /\ rstate' \in R!Taking
           /\ rres' \in {"again", "need_more", "have_dnstap"}
           /\ rpushed' \in 0..chunk /\ rtaken' = rtaken + rpushed'
           /\ chunk \in Nat \ {0} /\ chunk' = chunk - rpushed' /\ chunk' \in 0..R!Available'
           /\ down' = down /\ came' = came /\ before' = before /\ rmax' = rmax
           /\ pushes' = (IF chunk' = 0 THEN 0 ELSE pushes + 1)
           /\ rpushed' > 0 <=> rstate \in {"reading_control", "reading"}
           /\ R!Advances(rleft + rpushed')
  <1>1. /\ down[Receiver] \in Seq(Cell)
        /\ \E t \in Seq(Cell) : Promised(down[Receiver] \o t, ticks)
    BY ReceiverAssumption DEF DaemonInv, DaemonTypeOK, SentInv
  <1>2. R!Orderly(down[Receiver], 0) /\ R!Open(down[Receiver])
    <2> HIDE DEF Promised
    <2> QED BY <1>1, SentIsOrderly
  <1>3. R!Inv /\ R!OrderlyInv(0) /\ rstate \in R!Taking /\ R!BadPayload \notin Message
    BY SameCells DEF ReceiverInv
  <1>4. Len(down[Receiver]) \in Nat /\ rtaken \in Nat /\ chunk \in Nat
    BY <1>1, <1>3 DEF ReceiverInv, R!Inv, R!TypeOK
  <1>5. R!Push(chunk, 0) /\ chunk \in 1..R!Available /\ chunk \in 0..R!Available
    BY <1>4 DEF PushChunk, ReceiverInv
  <1>6. R!Inv'
    BY <1>3, <1>5, R!PushStep, LengthAssumption, SizeModAssumption, SizeAssumption, ReaderAssumed
  <1>7. /\ R!OrderlyInv(0)' /\ rstate' \in R!Taking
        /\ rres' \in {"again", "need_more", "have_dnstap"}
        /\ rpushed' \in 0..chunk /\ rtaken' = rtaken + rpushed'
        /\ rpushed' > 0 <=> rstate \in {"reading_control", "reading"}
        /\ R!Advances(rleft + rpushed')
    BY <1>2, <1>3, <1>5, R!PushOrderly, LengthAssumption, SizeModAssumption, SizeAssumption,
       ReaderAssumed
  <1>8. /\ chunk > 0 /\ chunk' = chunk - rpushed' /\ down' = down /\ came' = came
        /\ before' = before /\ pushes' = (IF chunk' = 0 THEN 0 ELSE pushes + 1)
    BY <1>7 DEF PushChunk
  <1>9. chunk' \in 0..R!Available'
    <2>1. chunk <= Len(down[Receiver]) - rtaken
      BY <1>4, <1>5 DEF R!Available
    <2>2. chunk - rpushed' \in 0..(Len(down[Receiver]) - (rtaken + rpushed'))
      BY <1>4, <1>7, <2>1, StillToPush
    <2> QED BY <1>7, <1>8, <2>2 DEF R!Available
  <1>10. rmax' = rmax
    BY <1>5 DEF R!Push, R!tuneVars
  <1>11. chunk \in Nat \ {0}
    BY <1>4, <1>8
  <1> QED BY <1>6, <1>7, <1>8, <1>9, <1>10, <1>11

LEMMA PushChunkStep ==
    ASSUME R!NoWrap, R!ElementsFit, BadPayload \notin Message, DaemonInv, ReceiverInv, PushChunk
    PROVE  ReceiverInv'
  BY PushChunkMoves DEF ReceiverInv, R!Taking

LEMMA InitReceiver ==
    ASSUME R!NoWrap, Init
    PROVE  ReceiverInv
  <1>1. R!Init /\ chunk = 0
    BY DEF Init
  <1>2. R!Inv
    BY <1>1, R!InitInv, LengthAssumption, SizeModAssumption, SizeAssumption, ReaderAssumed
  <1>3. R!OrderlyInv(0)
    BY <1>1, SameCells, R!InitOrderly, LengthAssumption, SizeModAssumption, SizeAssumption,
       ReaderAssumed
  <1>4. rstate = "reading_control" /\ rres = "init"
    BY <1>1 DEF R!Init
  <1>5. chunk \in 0..R!Available
    <2>1. rtaken \in 0..Len(down[Receiver]) /\ Len(down[Receiver]) \in Nat
      BY <1>2 DEF R!Inv, R!TypeOK
    <2> QED BY <1>1, <2>1 DEF R!Available
  <1> QED BY <1>2, <1>3, <1>4, <1>5 DEF ReceiverInv, R!Taking

LEMMA NextReceiver ==
    ASSUME R!NoWrap, R!ElementsFit, BadPayload \notin Message,
           DaemonInv, DaemonInv', ReceiverInv, [Next]_vars
    PROVE  ReceiverInv'
  <1>1. down[Receiver] = down[Receiver] \o <<>> /\ <<>> \in Seq(Cell)
    BY ReceiverAssumption DEF DaemonInv, DaemonTypeOK
  <1>2. CASE DaemonNext /\ UNCHANGED receiverVars
    <2>1. PICK x \in Seq(Cell) : down'[Receiver] = down[Receiver] \o x
      BY <1>2, MoreIsSent, ReceiverAssumption
    <2> QED BY <1>2, <2>1, MoreComes DEF receiverVars
  <1>3. CASE \/ (\E c \in Clients : Leave(c)) /\ UNCHANGED receiverVars
             \/ UNCHANGED vars
    <2>1. down' = down /\ UNCHANGED receiverVars
      BY <1>3 DEF Leave, vars, daemonVars
    <2>2. down'[Receiver] = down[Receiver] \o <<>>
      BY <1>1, <2>1
    <2> QED BY <1>1, <2>1, <2>2, MoreComes DEF receiverVars
  <1>4. CASE Receive
    <2>1. down' = down /\ chunk' = R!Available
      BY <1>4 DEF Receive, daemonVars
    <2>2. down'[Receiver] = down[Receiver] \o <<>>
      BY <1>1, <2>1
    <2> QED BY <1>1, <1>4, <2>1, <2>2, MoreComes DEF Receive
  <1>5. CASE PushChunk
    BY <1>5, PushChunkStep
  <1> QED BY <1>2, <1>3, <1>4, <1>5 DEF Next

(* What is delivered is a beginning of the messages that are sent, which    *)
(* are messages that were made.                                             *)
LEMMA DeliveredWereMade ==
    ASSUME DaemonInv, ReceiverInv, NEW i \in DOMAIN rdelivered, NEW j \in DOMAIN rdelivered, i < j
    PROVE  \E a, b \in DOMAIN Made : a < b /\ rdelivered[i] = Made[a] /\ rdelivered[j] = Made[b]
  <1> DEFINE s == down[Receiver]
             P == Message \cup {BadPayload}
             x == SubSeq(s, 1, rdecoded)
             made == SubSeq(Made, 1, ticks)
  <1>1. s \in Seq(Cell) /\ ticks \in 0..Len(Made)
    BY ReceiverAssumption DEF DaemonInv, DaemonTypeOK
  <1>2. PICK t \in Seq(Cell) : Payloads(s \o t) \in Subsequences(made)
    BY ReceiverAssumption DEF DaemonInv, SentInv, Promised
  <1>3. rdelivered = Payloads(x) /\ rdecoded \in 0..Len(s)
    <2>1. rdelivered = R!Payloads(SubSeq(down[Receiver], 1, rdecoded))
      BY DEF ReceiverInv, R!Inv, R!DeliveredInOrder
    <2>2. rtaken \in 0..Len(s) /\ rdecoded \in 0..rtaken /\ Len(s) \in Nat
      BY <1>1 DEF ReceiverInv, R!Inv, R!TypeOK
    <2> QED BY <2>1, <2>2, SamePayloads
  <1> DEFINE y == SubSeq(s, rdecoded + 1, Len(s)) \o t
             u == Payloads(s \o t)
  <1>4. x \in Seq(Cell) /\ y \in Seq(Cell) /\ s \o t = x \o y
    <2> DEFINE z == SubSeq(s, rdecoded + 1, Len(s))
    <2>1. x \in Seq(Cell) /\ z \in Seq(Cell) /\ x \o z = s /\ t \in Seq(Cell)
      <3> HIDE DEF s
      <3> QED BY <1>1, <1>3, CutAt
    <2>2. y = z \o t
      OBVIOUS
    <2> HIDE DEF x, y, z, s
    <2>3. (x \o z) \o t = x \o (z \o t)
      BY <2>1, ConcatAssociates
    <2>4. y \in Seq(Cell)
      BY <2>1, <2>2
    <2> QED BY <2>1, <2>2, <2>3, <2>4
  <1> HIDE DEF x, y, s
  <1>5. u = Payloads(x) \o Payloads(y)
    BY <1>4, PayloadsConcat
  <1>6. /\ u \in Seq(P) /\ Payloads(x) \in Seq(P) /\ Payloads(y) \in Seq(P)
    <2>1. s \o t \in Seq(Cell)
      BY <1>1, <1>2
    <2> QED BY <1>4, <2>1, PayloadsAt
  <1>7. made \in Seq(P) /\ Len(made) = ticks /\ \A k \in 1..ticks : made[k] = Made[k]
        /\ DOMAIN made \subseteq DOMAIN Made /\ DOMAIN made = 1..ticks
    BY <1>1, DaemonAssumption
  <1> HIDE DEF u, P, made
  <1>8. PICK f : Picks(f, u, made)
    BY <1>2, <1>6, <1>7, SubsequencesPick DEF u
  <1>9. /\ i \in 1..Len(u) /\ j \in 1..Len(u)
        /\ rdelivered[i] = u[i] /\ rdelivered[j] = u[j]
    BY <1>3, <1>5, <1>6
  <1>10. /\ f[i] \in DOMAIN made /\ f[j] \in DOMAIN made /\ f[i] < f[j]
         /\ u[i] = made[f[i]] /\ u[j] = made[f[j]]
    BY <1>8, <1>9 DEF Picks
  <1> QED BY <1>7, <1>9, <1>10

(* The receiver of the daemon fails at nothing it is sent, however it comes *)
(* in pieces, and gets messages that were made, in their order and none     *)
(* twice (client_receiver_uv.c:29-71, daemon_sender_uv.c:98-214).           *)
THEOREM ReceivesTheMade ==
    ASSUME R!NoWrap, R!ElementsFit, BadPayload \notin Message
    PROVE  Spec => []ReceivesWhatWasMade
  <1>1. Init => DaemonInv /\ ReceiverInv
    BY InitDaemon, InitReceiver DEF Init
  <1>2. (DaemonInv /\ ReceiverInv) /\ [Next]_vars => (DaemonInv /\ ReceiverInv)'
    BY NextDaemonInv, NextReceiver
  <1>3. DaemonInv /\ ReceiverInv => ReceivesWhatWasMade
    <2> SUFFICES ASSUME DaemonInv, ReceiverInv
                 PROVE  ReceivesWhatWasMade
      OBVIOUS
    <2>1. rres \notin {"error", "abort"}
      BY DEF ReceiverInv
    <2> QED BY <2>1, DeliveredWereMade DEF ReceivesWhatWasMade
  <1> QED BY <1>1, <1>2, <1>3, PTL DEF Spec

-----------------------------------------------------------------------------
(***************************************************************************)
(* The loop in client_read().                                              *)
(***************************************************************************)
(* No frame ends in what waits when it is less than an element.             *)
LEMMA NothingEnds ==
    ASSUME NEW s \in Seq(Cell), Orderly(s, 0), NEW d \in Nat, NEW l \in Nat, d + l <= Len(s),
           l > 0 => s[d + 1][2] = 1 /\ l < Size(s[d + 1][1]),
           NEW i \in FrameEnds(s), i <= d + l
    PROVE  i <= d
  <1> SUFFICES ASSUME i > d
               PROVE  FALSE
    BY DEF FrameEnds
  <1> DEFINE e == s[d + 1][1]
             k == i - d
  <1>1. i \in 1..Len(s) /\ s[i][1].kind = "frame" /\ s[i][2] = FrameLen
    BY DEF FrameEnds
  <1>2. k \in 1..l /\ d + 1 \in 1..Len(s) /\ l > 0 /\ ((d + 1) - 1) + k = i /\ Len(s) \in Nat
    BY <1>1
  <1>3. s[d + 1][2] = 1 /\ l < Size(e)
    BY <1>2
  <1>4. Begins(s, d + 1, 0)
    BY <1>2, <1>3 DEF Orderly
  <1>5. \A n \in 1..Size(e) : ((d + 1) - 1) + n <= Len(s) => s[((d + 1) - 1) + n] = <<e, n>>
    BY <1>4 DEF Begins
  <1>6. Size(e) \in Nat
    BY LengthAssumption DEF Size
  <1> HIDE DEF e
  <1>7. k \in 1..Size(e) /\ k < Size(e) /\ i <= Len(s)
    BY <1>1, <1>2, <1>3, <1>6
  <1>8. s[i] = <<e, k>>
    BY <1>2, <1>5, <1>7
  <1>9. e.kind = "frame" /\ k = FrameLen
    BY <1>1, <1>8
  <1>10. Size(e) = FrameLen
    BY <1>9 DEF Size
  <1> QED BY <1>7, <1>9, <1>10, LengthAssumption

(* What a push costs.  t cells are taken, b of them before this callback,   *)
(* and m fit into the buffer; l wait, q pushes were made, and one more, of  *)
(* c cells, moves k and leaves n.                                           *)
LEMMA PushRoom ==
    ASSUME NEW b \in Nat, NEW t \in Nat, b <= t, NEW m \in Nat, NEW k \in Nat
    PROVE  /\ (t - b) + m \in Nat /\ b <= t + k
           /\ ((t + k) - b) + m = ((t - b) + m) + k /\ m <= ((t - b) + m) + k
  OBVIOUS

LEMMA PushMoves ==
    ASSUME NEW c \in Nat, NEW k \in 0..c, NEW t \in Nat
    PROVE  /\ k \in Nat /\ t + c = (t + k) + (c - k) /\ t + k \in Nat
           /\ c > 0 /\ c - k = 0 => k \in Nat \ {0}
           /\ k > 0 \/ k = 0
  OBVIOUS

LEMMA MovingCosts ==
    ASSUME NEW r \in Nat, NEW q \in Nat, q <= r, NEW k \in Nat \ {0}, NEW n \in Nat
    PROVE  q + 1 <= r + k /\ (n < k => (q + 1) + n <= r + k)
  OBVIOUS

LEMMA DecodingCosts ==
    ASSUME NEW r \in Nat, NEW q \in Nat, NEW l \in Nat \ {0}, q + l <= r, NEW n \in Nat
    PROVE  q + 1 <= r + 0 /\ (n < l => (q + 1) + n <= r + 0) /\ l + 0 = l
  OBVIOUS

LEMMA NoPushes ==
    ASSUME NEW r \in Nat, NEW k \in Nat, NEW m \in Nat, m <= r + k, NEW n \in 0..m
    PROVE  0 <= r + k /\ 0 + n <= r + k
  OBVIOUS

LEMMA WithinSize ==
    ASSUME NEW a \in Nat, NEW l \in Nat, NEW z \in Nat, NEW m \in Nat, a + l <= z, z <= m
    PROVE  l \in 0..m
  OBVIOUS

LEMMA WithinTaken ==
    ASSUME NEW n \in Nat, NEW t \in 0..n, NEW d \in 0..t
    PROVE  d \in Nat /\ t \in Nat /\ t <= n
  OBVIOUS

(* What a push that moves k cells and leaves l of them behind d leaves of   *)
(* what had come before it is nothing.                                      *)
LEMMA LastPushCatchesUp ==
    ASSUME DaemonInv, ReceiverInv, NEW b \in Nat, b <= rtaken, NEW k \in Nat \ {0},
           NEW d \in Nat, NEW l \in Nat, d + l = rtaken + k, rtaken + k <= Len(down[Receiver]),
           \/ l < k \/ l = 0
           \/ d = rdecoded /\ l < R!Size(down[Receiver][rdecoded + 1][1]),
           NEW i \in FrameEnds(down[Receiver]), i <= b
    PROVE  i <= d
  <1> DEFINE s == down[Receiver]
             e == s[rdecoded + 1][1]
  <1>1. /\ s \in Seq(Cell) /\ \E t \in Seq(Cell) : Promised(s \o t, ticks)
    BY ReceiverAssumption DEF DaemonInv, DaemonTypeOK, SentInv
  <1>2. Orderly(s, 0) /\ R!Orderly(s, 0)
    <2> HIDE DEF Promised
    <2>1. R!Orderly(s, 0)
      BY <1>1, SentIsOrderly
    <2> QED BY <2>1, SameOrder
  <1>3. R!TypeOK /\ R!Boundary(rdecoded)
    BY DEF ReceiverInv, R!Inv, R!OrderlyInv
  <1>4. rtaken \in Nat /\ rdecoded \in Nat /\ i \in Nat /\ Len(s) \in Nat
    BY <1>1, <1>3 DEF R!TypeOK, FrameEnds
  <1>5. CASE l < k \/ l = 0
    BY <1>4, <1>5
  <1>6. CASE d = rdecoded /\ l < R!Size(e) /\ l # 0
    <2>1. rdecoded < Len(s)
      BY <1>4, <1>6
    <2>2. s[rdecoded + 1][2] = 1
      BY <1>2, <1>3, <2>1, R!BoundaryAhead, LengthAssumption, SizeModAssumption, SizeAssumption,
         ReaderAssumed
    <2>3. R!Size(e) = Size(e)
      BY DEF R!Size, Size
    <2>4. /\ d + l <= Len(s) /\ i <= d + l
          /\ l > 0 => s[d + 1][2] = 1 /\ l < Size(s[d + 1][1])
      BY <1>4, <1>6, <2>2, <2>3
    <2> HIDE DEF s
    <2> QED BY <1>1, <1>2, <2>4, NothingEnds DEF s
  <1> QED BY <1>5, <1>6

LEMMA PushChunkLoop ==
    ASSUME R!NoWrap, R!ElementsFit, BadPayload \notin Message,
           DaemonInv, ReceiverInv, LoopInv, PushChunk
    PROVE  LoopInv'
  <1>1. /\ R!Inv' /\ rstate' \in R!Taking
        /\ rres' \in {"again", "need_more", "have_dnstap"}
        /\ rpushed' \in 0..chunk /\ rtaken' = rtaken + rpushed'
        /\ chunk \in Nat \ {0} /\ chunk' = chunk - rpushed' /\ chunk' \in 0..R!Available'
        /\ down' = down /\ came' = came /\ before' = before /\ rmax' = rmax
        /\ pushes' = (IF chunk' = 0 THEN 0 ELSE pushes + 1)
        /\ rpushed' > 0 <=> rstate \in {"reading_control", "reading"}
        /\ R!Advances(rleft + rpushed')
    BY PushChunkMoves
  <1>2. R!TypeOK /\ R!TypeOK' /\ R!InputInv /\ R!InputInv' /\ rstate \in R!Taking /\ R!Short
    BY <1>1 DEF ReceiverInv, R!Inv, LoopInv
  <1>3. rtaken \in Nat /\ rleft \in Nat /\ rmax \in Nat /\ chunk > 0 /\ chunk \in Nat
    BY <1>1, <1>2 DEF R!TypeOK
  <1>4. rleft' \in Nat /\ rleft' \in 0..rmax
    <2>1. rleft' \in Nat /\ rsize' \in Nat /\ rat' \in Nat /\ rmax' \in Nat
      BY <1>2 DEF R!TypeOK
    <2>2. rat' + rleft' <= rsize' /\ rsize' <= rmax'
      BY <1>2 DEF R!InputInv, R!InputInBounds
    <2> QED BY <1>1, <2>1, <2>2, WithinSize
  <1>5. /\ before \in Nat /\ before <= rtaken /\ pushes \in Nat /\ came = rtaken + chunk
        /\ pushes <= (rtaken - before) + rmax
        /\ rstate \in {"decoding_control", "decoding"} =>
              rleft > 0 /\ pushes + rleft <= (rtaken - before) + rmax
    BY <1>2 DEF LoopInv, R!InputInv
  <1> DEFINE t == rtaken + rpushed'
             room == (rtaken - before) + rmax
  <1>6. /\ rpushed' \in Nat /\ t \in Nat /\ rtaken + chunk = t + (chunk - rpushed')
        /\ chunk - rpushed' = 0 => rpushed' \in Nat \ {0}
        /\ rpushed' > 0 \/ rpushed' = 0
    <2>1. rpushed' \in 0..chunk
      BY <1>1
    <2> QED BY <1>3, <2>1, PushMoves
  <1>7. /\ R!Short'
        /\ rstate' \in {"decoding_control", "decoding"} => rleft' < rleft + rpushed'
        /\ rpushed' > 0 /\ rstate' \in {"decoding_control", "decoding"} => rleft' < rpushed'
    BY <1>1, <1>2, <1>4, <1>6, R!PushShort, LengthAssumption, SizeModAssumption, SizeAssumption,
       ReaderAssumed
  <1>8. /\ room \in Nat /\ before <= t
        /\ (t - before) + rmax = room + rpushed' /\ rmax <= room + rpushed'
    BY <1>3, <1>5, <1>6, PushRoom
  <1>9. rtaken' = t /\ before' = before /\ rmax' = rmax /\ came' = t + chunk'
    BY <1>1, <1>5, <1>6
  <1>10. rpushed' > 0 => rpushed' \in Nat \ {0}
    BY <1>6
  <1> HIDE DEF t, room
  <1>11. CASE chunk' = 0
    <2>1. CaughtUp'
      <3> SUFFICES ASSUME NEW i \in FrameEnds(down[Receiver]), i <= before
                   PROVE  i <= rdecoded'
        BY <1>1 DEF CaughtUp
      <3>1. rpushed' \in Nat \ {0}
        BY <1>1, <1>6, <1>11
      <3>2. /\ rdecoded' \in Nat /\ rdecoded' + rleft' = rtaken + rpushed'
            /\ rtaken + rpushed' <= Len(down[Receiver])
        <4>1. Len(down[Receiver]) \in Nat
          BY ReceiverAssumption DEF DaemonInv, DaemonTypeOK
        <4>2. rtaken' \in 0..Len(down'[Receiver]) /\ rdecoded' \in 0..rtaken'
          BY <1>2 DEF R!TypeOK
        <4>3. rtaken' \in 0..Len(down[Receiver])
          BY <1>1, <4>2
        <4>4. rdecoded' \in Nat /\ rtaken' <= Len(down[Receiver])
          BY <4>1, <4>2, <4>3, WithinTaken
        <4>5. rtaken' = rdecoded' + rleft'
          BY <1>2 DEF R!InputInv
        <4> QED BY <1>1, <4>4, <4>5
      <3>3. \/ rleft' < rpushed' \/ rleft' = 0
            \/ /\ rdecoded' = rdecoded
               /\ rleft' < R!Size(down[Receiver][rdecoded + 1][1])
        <4>1. CASE rstate' \in {"decoding_control", "decoding"}
          BY <1>6, <1>7, <3>1, <4>1
        <4>2. CASE rstate' \in {"reading_control", "reading"}
          BY <1>1, <4>2 DEF R!Advances
        <4> QED BY <1>1, <4>1, <4>2 DEF R!Taking
      <3> QED BY <1>4, <1>5, <3>1, <3>2, <3>3, LastPushCatchesUp
    <2>2. pushes' = 0
      BY <1>1, <1>11
    <2>3. 0 \in Nat /\ 0 <= room + rpushed' /\ 0 + rleft' <= room + rpushed'
      BY <1>3, <1>4, <1>6, <1>8, NoPushes
    <2> QED BY <1>5, <1>7, <1>8, <1>9, <2>1, <2>2, <2>3 DEF LoopInv
  <1>12. CASE chunk' # 0
    <2>1. pushes' = pushes + 1 /\ pushes + 1 \in Nat
      BY <1>1, <1>5, <1>12
    <2>2. CASE rpushed' > 0
      <3>1. pushes <= room
        BY <1>5 DEF room
      <3>2. /\ pushes + 1 <= room + rpushed'
            /\ rleft' < rpushed' => (pushes + 1) + rleft' <= room + rpushed'
        BY <1>4, <1>5, <1>8, <1>10, <2>2, <3>1, MovingCosts
      <3> QED BY <1>5, <1>7, <1>8, <1>9, <1>12, <2>1, <2>2, <3>2 DEF LoopInv
    <2>3. CASE rpushed' = 0
      <3>1. rstate \in {"decoding_control", "decoding"}
        BY <1>1, <1>2, <2>3 DEF R!Taking
      <3>2. rleft \in Nat \ {0} /\ pushes + rleft <= room
        BY <1>3, <1>5, <3>1 DEF room
      <3>3. /\ pushes + 1 <= room + 0 /\ rleft + 0 = rleft
            /\ rleft' < rleft => (pushes + 1) + rleft' <= room + 0
        BY <1>4, <1>5, <1>8, <3>2, DecodingCosts
      <3> QED BY <1>5, <1>7, <1>8, <1>9, <1>12, <2>1, <2>3, <3>3 DEF LoopInv
    <2> QED BY <1>6, <2>2, <2>3
  <1> QED BY <1>11, <1>12

(* That more has come changes nothing for the loop, either.                 *)
LEMMA MoreComesLoop ==
    ASSUME DaemonInv, ReceiverInv, LoopInv,
           NEW x \in Seq(Cell), down'[Receiver] = down[Receiver] \o x, UNCHANGED receiverVars
    PROVE  LoopInv'
  <1> DEFINE s == down[Receiver]
             t == s \o x
  <1>1. /\ s \in Seq(Cell) /\ Len(s) \in Nat
        /\ \A i \in 1..Len(s) : i \in 1..Len(t) /\ t[i] = s[i]
    <2>1. s \in Seq(Cell)
      BY ReceiverAssumption DEF DaemonInv, DaemonTypeOK
    <2> HIDE DEF s
    <2> QED BY <2>1
  <1>2. /\ rtaken \in 0..Len(s) /\ rdecoded \in 0..rtaken /\ rleft \in Nat
        /\ rtaken = rdecoded + rleft
    BY DEF ReceiverInv, R!Inv, R!TypeOK, R!InputInv
  <1>3. down'[Receiver] = t
    OBVIOUS
  <1> HIDE DEF s, t
  <1>4. /\ chunk' = chunk /\ came' = came /\ before' = before /\ pushes' = pushes
        /\ rstate' = rstate /\ rleft' = rleft /\ rmax' = rmax /\ rtaken' = rtaken
        /\ rdecoded' = rdecoded
    BY DEF receiverVars
  <1>5. R!Short'
    <2>1. rleft # 0 => rdecoded + 1 \in 1..Len(s)
      BY <1>1, <1>2
    <2>2. rleft # 0 => t[rdecoded + 1] = s[rdecoded + 1]
      BY <1>1, <2>1
    <2> QED BY <1>3, <1>4, <2>2 DEF LoopInv, R!Short, R!Size, s
  <1>6. CaughtUp => CaughtUp'
    <2> SUFFICES ASSUME CaughtUp, NEW i \in FrameEnds(t), i <= before
                 PROVE  i <= rdecoded
      BY <1>3, <1>4 DEF CaughtUp
    <2>1. i \in DOMAIN t /\ t[i][1].kind = "frame" /\ t[i][2] = FrameLen
      BY DEF FrameEnds
    <2>2. i \in 1..Len(s)
      <3>1. t \in Seq(Cell)
        BY <1>1 DEF t
      <3>2. i \in Nat \ {0}
        BY <2>1, <3>1
      <3>3. before \in Nat /\ before <= rtaken
        BY DEF LoopInv
      <3> QED BY <1>1, <1>2, <3>2, <3>3
    <2>3. i \in FrameEnds(s)
      BY <1>1, <2>1, <2>2 DEF FrameEnds
    <2> QED BY <2>3 DEF CaughtUp, s
  <1> QED BY <1>4, <1>5, <1>6 DEF LoopInv

LEMMA ReceiveLoop ==
    ASSUME DaemonInv, ReceiverInv, LoopInv, Receive
    PROVE  LoopInv'
  <1>1. /\ chunk = 0 /\ chunk' = R!Available /\ R!Available > 0
        /\ came' = Len(down[Receiver]) /\ before' = came /\ pushes' = 0
        /\ rstate' = rstate /\ rleft' = rleft /\ rmax' = rmax /\ rtaken' = rtaken
        /\ rdecoded' = rdecoded /\ down' = down
    BY DEF Receive, daemonVars
  <1>2. /\ Len(down[Receiver]) \in Nat /\ rtaken \in 0..Len(down[Receiver])
        /\ rleft \in Nat /\ rat \in Nat /\ rsize \in Nat /\ rmax \in Nat
        /\ rat + rleft <= rsize /\ rsize <= rmax
    <2>1. Len(down[Receiver]) \in Nat
      BY ReceiverAssumption DEF DaemonInv, DaemonTypeOK
    <2>2. rtaken \in 0..Len(down[Receiver]) /\ rleft \in Nat /\ rat \in Nat /\ rsize \in Nat
          /\ rmax \in Nat
      BY DEF ReceiverInv, R!Inv, R!TypeOK
    <2>3. rat + rleft <= rsize /\ rsize <= rmax
      BY DEF ReceiverInv, R!Inv, R!InputInv, R!InputInBounds
    <2> QED BY <2>1, <2>2, <2>3
  <1>3. came = rtaken
    BY <1>1, <1>2 DEF LoopInv
  <1>4. /\ rtaken \in Nat /\ rtaken <= rtaken
        /\ Len(down[Receiver]) = rtaken + (Len(down[Receiver]) - rtaken)
        /\ 0 <= (rtaken - rtaken) + rmax /\ 0 + rleft <= (rtaken - rtaken) + rmax
    BY <1>2
  <1>5. R!Short'
    BY <1>1 DEF LoopInv, R!Short, R!Size
  <1>6. came' = rtaken' + chunk' /\ chunk' # 0
    BY <1>1, <1>4 DEF R!Available
  <1> QED BY <1>1, <1>3, <1>4, <1>5, <1>6 DEF LoopInv

LEMMA InitLoop ==
    ASSUME Init
    PROVE  LoopInv
  <1>1. /\ chunk = 0 /\ came = 0 /\ before = 0 /\ pushes = 0
        /\ rtaken = 0 /\ rleft = 0 /\ rmax = InitMax /\ rdecoded = 0
        /\ rstate = "reading_control"
    BY DEF Init, R!Init
  <1>2. R!Short
    BY <1>1 DEF R!Short
  <1>3. CaughtUp
    BY <1>1 DEF CaughtUp
  <1> QED BY <1>1, <1>2, <1>3, SizeAssumption DEF LoopInv

LEMMA NextLoop ==
    ASSUME R!NoWrap, R!ElementsFit, BadPayload \notin Message,
           DaemonInv, ReceiverInv, LoopInv, [Next]_vars
    PROVE  LoopInv'
  <1>1. down[Receiver] = down[Receiver] \o <<>> /\ <<>> \in Seq(Cell)
    BY ReceiverAssumption DEF DaemonInv, DaemonTypeOK
  <1>2. CASE DaemonNext /\ UNCHANGED receiverVars
    <2>1. PICK x \in Seq(Cell) : down'[Receiver] = down[Receiver] \o x
      BY <1>2, MoreIsSent, ReceiverAssumption
    <2> QED BY <1>2, <2>1, MoreComesLoop
  <1>3. CASE \/ (\E c \in Clients : Leave(c)) /\ UNCHANGED receiverVars
             \/ UNCHANGED vars
    <2>1. down' = down /\ UNCHANGED receiverVars
      BY <1>3 DEF Leave, vars, daemonVars
    <2>2. down'[Receiver] = down[Receiver] \o <<>>
      BY <1>1, <2>1
    <2> QED BY <1>1, <2>1, <2>2, MoreComesLoop
  <1>4. CASE Receive
    BY <1>4, ReceiveLoop
  <1>5. CASE PushChunk
    BY <1>5, PushChunkLoop
  <1> QED BY <1>2, <1>3, <1>4, <1>5 DEF Next

LEMMA LoopInvariance ==
    ASSUME R!NoWrap, R!ElementsFit, BadPayload \notin Message
    PROVE  Spec => [](DaemonInv /\ ReceiverInv /\ LoopInv)
  <1>1. Init => DaemonInv /\ ReceiverInv /\ LoopInv
    BY InitDaemon, InitReceiver, InitLoop DEF Init
  <1>2. (DaemonInv /\ ReceiverInv /\ LoopInv) /\ [Next]_vars
           => (DaemonInv /\ ReceiverInv /\ LoopInv)'
    BY NextDaemonInv, NextReceiver, NextLoop
  <1> QED BY <1>1, <1>2, PTL DEF Spec

(* The loop in client_read() goes round no more often than there are cells  *)
(* to move and to decode, whatever came (client_receiver_uv.c:34-66).       *)
THEOREM LoopIsBounded ==
    ASSUME R!NoWrap, R!ElementsFit, BadPayload \notin Message
    PROVE  Spec => []PushLoopEnds
  <1>1. LoopInv => PushLoopEnds
    BY DEF LoopInv, PushLoopEnds
  <1> QED BY <1>1, LoopInvariance, PTL

(* The frames that end in the first d cells of an orderly stream begin in   *)
(* them.                                                                   *)
LEMMA EndedFrames ==
    ASSUME NEW s \in Seq(Cell), Orderly(s, 0), NEW d \in 0..Len(s),
           NEW E \in SUBSET FrameEnds(s), \A i \in E : i <= d
    PROVE  Cardinality(E) <= Len(Payloads(SubSeq(s, 1, d)))
  <1> DEFINE x == SubSeq(s, 1, d)
             H == Heads(x)
             f == [i \in E |-> (i - FrameLen) + 1]
  <1>1. x \in Seq(Cell) /\ Len(x) = d /\ \A i \in 1..d : x[i] = s[i]
    <2>1. d \in Nat /\ d <= Len(s) /\ Len(s) \in Nat
      OBVIOUS
    <2> QED BY <2>1
  <1> HIDE DEF x
  <1>2. ASSUME NEW i \in E
        PROVE  (i - FrameLen) + 1 \in H /\ i \in Nat
    <2>1. i \in 1..Len(s) /\ s[i][1].kind = "frame" /\ s[i][2] = FrameLen /\ i <= d
      BY DEF FrameEnds
    <2>2. 0 \in Preamble
      BY DEF Preamble
    <2>3. PICK k \in 1..i : s[k][2] = 1 /\ s[i] = <<s[k][1], (i - k) + 1>>
      BY <2>1, <2>2, OrderlyCell
    <2>4. s[k][1].kind = "frame" /\ (i - k) + 1 = FrameLen
      BY <2>1, <2>3
    <2>5. k = (i - FrameLen) + 1 /\ k \in 1..d /\ i \in Nat
      BY <2>1, <2>4, LengthAssumption
    <2>6. x[k] = s[k] /\ k \in DOMAIN x
      BY <1>1, <2>5
    <2> QED BY <2>3, <2>4, <2>5, <2>6 DEF Heads
  <1>3. f \in Injection(E, H)
    <2>1. f \in [E -> H]
      BY <1>2
    <2>2. ASSUME NEW i \in E, NEW j \in E, f[i] = f[j]
          PROVE  i = j
      <3>1. (i - FrameLen) + 1 = (j - FrameLen) + 1 /\ i \in Nat /\ j \in Nat
        BY <1>2, <2>2
      <3> QED BY <3>1, LengthAssumption
    <2> HIDE DEF f, H
    <2> QED BY <2>1, <2>2 DEF Injection, IsInjective
  <1>4. IsFiniteSet(H)
    <2>1. H \in SUBSET (1..d) /\ IsFiniteSet(1..d)
      BY <1>1, HeadsType, FS_Interval
    <2> QED BY <2>1, FS_Subset
  <1> HIDE DEF f, H
  <1>5. Cardinality(E) <= Cardinality(H)
    BY <1>3, <1>4, FS_Injection
  <1>6. Len(Payloads(x)) = Cardinality(H)
    BY <1>1, PayloadsAt DEF H
  <1> QED BY <1>5, <1>6 DEF x

(* A message whose end came by the callback before is delivered by the end  *)
(* of this one, though whole messages may be left in the buffer              *)
(* (client_receiver_uv.c:34-66).                                            *)
THEOREM NoneWaitsLonger ==
    ASSUME R!NoWrap, R!ElementsFit, BadPayload \notin Message
    PROVE  Spec => []CatchesUp
  <1>1. DaemonInv /\ ReceiverInv /\ LoopInv => CatchesUp
    <2> SUFFICES ASSUME DaemonInv, ReceiverInv, LoopInv, chunk = 0
                 PROVE  CatchesUp
      BY DEF CatchesUp
    <2> DEFINE s == down[Receiver]
               E == {i \in FrameEnds(s) : i <= before}
    <2>1. /\ s \in Seq(Cell) /\ \E t \in Seq(Cell) : Promised(s \o t, ticks)
      BY ReceiverAssumption DEF DaemonInv, DaemonTypeOK, SentInv
    <2>2. Orderly(s, 0)
      <3> HIDE DEF Promised
      <3>1. R!Orderly(s, 0)
        BY <2>1, SentIsOrderly
      <3> QED BY <3>1, SameOrder
    <2>3. rdecoded \in 0..Len(s) /\ rdelivered = Payloads(SubSeq(s, 1, rdecoded))
      <3>1. rtaken \in 0..Len(s) /\ rdecoded \in 0..rtaken
        BY DEF ReceiverInv, R!Inv, R!TypeOK
      <3>2. Len(s) \in Nat
        BY <2>1
      <3>3. rdelivered = R!Payloads(SubSeq(down[Receiver], 1, rdecoded))
        BY DEF ReceiverInv, R!Inv, R!DeliveredInOrder
      <3> QED BY <3>1, <3>2, <3>3, SamePayloads
    <2>4. E \in SUBSET FrameEnds(s) /\ \A i \in E : i <= rdecoded
      BY DEF LoopInv, CaughtUp
    <2> HIDE DEF s, E
    <2>5. Cardinality(E) <= Len(rdelivered)
      BY <2>1, <2>2, <2>3, <2>4, EndedFrames
    <2>6. Len(rdelivered) >= Cardinality(E)
      <3>1. Len(rdelivered) \in Nat /\ Cardinality(E) \in Nat
        <4>1. SubSeq(s, 1, rdecoded) \in Seq(Cell)
          BY <2>1, <2>3
        <4>2. Payloads(SubSeq(s, 1, rdecoded)) \in Seq(Message \cup {BadPayload})
          BY <4>1, PayloadsAt
        <4>3. E \in SUBSET (1..Len(s)) /\ Len(s) \in Nat
          BY <2>1, <2>4 DEF FrameEnds
        <4>4. IsFiniteSet(E)
          <5>1. IsFiniteSet(1..Len(s))
            BY <4>3, FS_Interval
          <5> QED BY <4>3, <5>1, FS_Subset
        <4> QED BY <2>3, <4>2, <4>4, FS_CardinalityType
      <3> QED BY <2>5, <3>1
    <2> QED BY <2>6 DEF CatchesUp, E, s
  <1> QED BY <1>1, LoopInvariance, PTL

=============================================================================
