--------------------------- MODULE SessionProofs ---------------------------
(***************************************************************************)
(* Proofs about Session, a writer and a reader on one connection, for all  *)
(* messages, sizes and cuts of the stream: what is proved of each, put     *)
(* together.                                                               *)
(***************************************************************************)
EXTENDS Session, CodingProofs

(* No increment is so large that adding it to a size wraps around size_t.   *)
NoWrap == InitMax + InitInc < SizeMod /\ AnswerMax + AnswerInc < SizeMod

-----------------------------------------------------------------------------
(***************************************************************************)
(* What the instances define anew is what is defined here.                 *)
(***************************************************************************)
LEMMA SameCells == W!Cell = Cell /\ R!Cell = Cell
  BY DEF W!Cell, R!Cell, Cell, W!Element, R!Element, Element, W!ControlType, R!ControlType,
         ControlType, W!FieldValue, R!FieldValue, FieldValue,
         W!BadPayload, R!BadPayload, BadPayload

LEMMA SamePayloads == \A s : W!Payloads(s) = Payloads(s) /\ R!Payloads(s) = Payloads(s)
  BY DEF W!Payloads, R!Payloads, Payloads, W!Selected, R!Selected, Selected,
         W!Rank, R!Rank, Rank, W!Heads, R!Heads, Heads,
         W!Cardinality, R!Cardinality, Cardinality

LEMMA SameSlices ==
    \A b, a, n : W!Slice(b, a, n) = Slice(b, a, n) /\ R!Slice(b, a, n) = Slice(b, a, n)
  BY DEF W!Slice, R!Slice, Slice, W!Junk, R!Junk, Junk

LEMMA SameOrder ==
    \A s, p : /\ W!Orderly(s, p) = Orderly(s, p)
              /\ W!Complete(s) = Complete(s) /\ W!Open(s) = Open(s)
  <1>1. /\ W!StopElement = StopElement
        /\ \A e : W!Size(e) = Size(e)
        /\ \A t, n : W!Control(t, n) = Control(t, n)
        /\ \A v : W!Field(v) = Field(v) /\ W!Frame(v) = Frame(v)
    BY DEF W!StopElement, StopElement, W!Size, Size, W!Control, Control, W!Field, Field,
           W!Frame, Frame
  <1>2. \A e, i, p : W!Belongs(e, i, p) = Belongs(e, i, p)
    BY <1>1 DEF W!Belongs, Belongs
  <1>3. \A s, i, p : W!Begins(s, i, p) = Begins(s, i, p)
    BY <1>1, <1>2 DEF W!Begins, Begins
  <1>4. \A s, p : W!Orderly(s, p) = Orderly(s, p)
    BY <1>1, <1>3 DEF W!Orderly, Orderly
  <1>5. \A s : W!Complete(s) = Complete(s) /\ W!Open(s) = Open(s)
    BY <1>1 DEF W!Complete, Complete, W!Open, Open
  <1> QED BY <1>4, <1>5

LEMMA SameOrderR ==
    /\ \A s, p : R!Orderly(s, p) = Orderly(s, p)
    /\ R!Preamble = Preamble /\ R!BadPayload = BadPayload
  <1>1. /\ R!StopElement = StopElement
        /\ \A e : R!Size(e) = Size(e)
        /\ \A t, n : R!Control(t, n) = Control(t, n)
        /\ \A v : R!Field(v) = Field(v) /\ R!Frame(v) = Frame(v)
    BY DEF R!StopElement, StopElement, R!Size, Size, R!Control, Control, R!Field, Field,
           R!Frame, Frame
  <1>2. \A e, i, p : R!Belongs(e, i, p) = Belongs(e, i, p)
    BY <1>1 DEF R!Belongs, Belongs
  <1>3. \A s, i, p : R!Begins(s, i, p) = Begins(s, i, p)
    BY <1>1, <1>2 DEF R!Begins, Begins
  <1>4. \A s, p : R!Orderly(s, p) = Orderly(s, p)
    BY <1>1, <1>3 DEF R!Orderly, Orderly
  <1>5. R!Preamble = Preamble /\ R!BadPayload = BadPayload
    BY DEF R!Preamble, Preamble, R!BadPayload, BadPayload
  <1> QED BY <1>4, <1>5

(* The stream that a reader of its own would be sent has no cell.           *)
LEMMA StreamOK ==
    {[hello |-> <<>>, body |-> <<Junk>>]} \subseteq [hello : Seq(R!Cell), body : Seq(R!Cell)]
  BY JunkType, SameCells

-----------------------------------------------------------------------------
(***************************************************************************)
(* The invariant: that of the writer, whose peer is the reader, and that   *)
(* of the reader, whose peer is the writer.                                *)
(***************************************************************************)
Parts == W!ProtocolInv /\ W!AckedOnce /\ W!WireInv /\ R!Inv /\ lost \in BOOLEAN

(* What the writer has written is what a reader may be sent.                *)
LEMMA SentToReceiver ==
    ASSUME NEW b, NEW z, NEW a, NEW l, NEW sent, NEW enc, W!Loaded(b, z, a, l, sent, enc),
           NEW p \in Preamble, W!Orderly(enc, p)
    PROVE  sent \in Seq(Cell) /\ Orderly(sent, p) /\ R!AllSent(sent)
  <1>1. sent \in Seq(W!Cell) /\ W!Orderly(sent, p)
    BY W!SentOrderly, LengthAssumption, SizeModAssumption, SizeAssumption, CallAssumption
  <1>2. sent \in Seq(Cell) /\ Orderly(sent, p)
    BY <1>1, SameCells, SameOrder
  <1>3. sent \in Seq(R!Cell) /\ R!Orderly(sent, p) /\ p \in R!Preamble
    BY <1>2, SameCells, SameOrderR
  <1> QED BY <1>2, <1>3, R!OrderlySent, LengthAssumption, SizeModAssumption, SizeAssumption,
             CallAssumption, StreamOK

LEMMA InitParts ==
    ASSUME NoWrap, Init
    PROVE  Parts
  <1>1. W!Init /\ R!Init /\ lost = FALSE
    BY DEF Init
  <1>2. W!ProtocolInv
    BY <1>1, W!InitProtocol, LengthAssumption, SizeModAssumption, SizeAssumption, CallAssumption
  <1>3. W!AckedOnce
    BY <1>1, W!InitAcks, LengthAssumption, SizeModAssumption, SizeAssumption, CallAssumption
  <1>4. W!WireInv
    BY <1>1, W!InitWire, LengthAssumption, SizeModAssumption, SizeAssumption, CallAssumption
  <1>5. R!NoWrap
    BY DEF NoWrap, R!NoWrap
  <1>6. R!Inv
    BY <1>1, <1>5, R!InitInv, LengthAssumption, SizeModAssumption, SizeAssumption,
       CallAssumption, StreamOK
  <1> QED BY <1>1, <1>2, <1>3, <1>4, <1>6 DEF Parts

(* Every step of the sender is one of the writer, and all the receiver sees *)
(* of it is that there is more to read.                                     *)
LEMMA SenderIsWriter ==
    ASSUME NoWrap, W!Inv,
           \/ \E b \in Bidirectional : SenderChooses(b)
           \/ \E m \in Message : HandOver(m)
           \/ SenderStops
           \/ SenderWrites
    PROVE  /\ W!Next /\ UNCHANGED <<up, lost, receiverVars>> /\ ~lost
           /\ \E x \in Seq(Cell) : down' = down \o x
  <1>1. W!NoWrap /\ W!Avoided
    BY DEF NoWrap, W!NoWrap, W!Avoided
  <1>2. down \in Seq(Cell)
    BY SameCells DEF W!Inv, W!OutInv, W!Loaded
  <1>3. down = down \o <<>> /\ <<>> \in Seq(Cell)
    BY <1>2
  <1>4. ASSUME NEW b \in Bidirectional, SenderChooses(b)
        PROVE  W!Next /\ UNCHANGED <<up, lost, receiverVars>> /\ ~lost /\ UNCHANGED down
    BY <1>4 DEF SenderChooses, Sends, W!Next, W!SetBidirectional
  <1>5. ASSUME NEW m \in Message, HandOver(m)
        PROVE  W!Next /\ UNCHANGED <<up, lost, receiverVars>> /\ ~lost /\ UNCHANGED down
    BY <1>5 DEF HandOver, Sends, W!Next, W!SetDnstap, W!outVars
  <1>6. CASE SenderStops
    <2>1. W!Next /\ UNCHANGED <<up, lost, receiverVars>> /\ ~lost /\ UNCHANGED down
      BY <1>6 DEF SenderStops, Sends, W!Next, W!StopCall
    <2> QED BY <1>3, <2>1
  <1>7. CASE SenderWrites
    <2>1. W!Write /\ UNCHANGED <<lost, receiverVars>> /\ ~lost
      BY <1>7 DEF SenderWrites, Sends
    <2> DEFINE c == [api |-> "write", len |-> 0, inlen |-> 0]
    <2>2. c \in [api : {"pop", "write"}, len : Nat, inlen : Nat] /\ W!Call(c)
      BY <2>1 DEF W!Write
    <2>3. UNCHANGED up
      BY <2>2 DEF W!Call
    <2> HIDE DEF c
    <2>4. \E x \in Seq(W!Cell) : down' = down \o x
      BY <1>1, <2>2, W!OutGrows, LengthAssumption, SizeModAssumption, SizeAssumption,
         CallAssumption
    <2> QED BY <2>1, <2>3, <2>4, SameCells DEF W!Next
  <1> QED BY <1>3, <1>4, <1>5, <1>6, <1>7

LEMMA SenderKeeps ==
    ASSUME NoWrap, Parts,
           \/ \E b \in Bidirectional : SenderChooses(b)
           \/ \E m \in Message : HandOver(m)
           \/ SenderStops
           \/ SenderWrites
    PROVE  Parts'
  <1>1. W!NoWrap /\ W!Avoided /\ ~FALSE
    BY DEF NoWrap, W!NoWrap, W!Avoided
  <1>2. W!ProtocolInv /\ W!Inv /\ W!AckedOnce /\ W!WireInv /\ R!Inv /\ lost \in BOOLEAN
    BY DEF Parts, W!ProtocolInv
  <1>3. W!Next /\ UNCHANGED <<up, lost, receiverVars>> /\ ~lost
    BY <1>2, SenderIsWriter
  <1>4. PICK x \in Seq(Cell) : down' = down \o x
    BY <1>2, SenderIsWriter
  <1>5. W!ProtocolInv'
    BY <1>1, <1>2, <1>3, W!NextProtocol, LengthAssumption, SizeModAssumption, SizeAssumption,
       CallAssumption
  <1>6. W!AckedOnce'
    BY <1>1, <1>2, <1>3, W!NextAcks, LengthAssumption, SizeModAssumption, SizeAssumption,
       CallAssumption
  <1>7. W!WireInv'
    BY <1>1, <1>2, <1>3, W!NextWire, LengthAssumption, SizeModAssumption, SizeAssumption,
       CallAssumption
  <1>8. R!AllSent(down')
    <2>1. W!Loaded(wbuf', wsize', wat', wleft', down', wencoded')
      BY <1>5 DEF W!ProtocolInv, W!Inv, W!OutInv
    <2>2. W!Orderly(wencoded', W!Before') /\ W!Before' \in Preamble
      BY <1>7 DEF W!WireInv, W!Before, Preamble
    <2> QED BY <2>1, <2>2, SentToReceiver
  <1>9. R!Inv'
    <2>1. R!AllSent(IF lost' THEN <<>> ELSE <<Junk>>)
      BY DEF R!AllSent, R!SentToReader, Junk
    <2>2. (IF lost' THEN <<>> ELSE <<Junk>>) \in Seq(R!Cell)
      BY JunkType, SameCells
    <2>3. x \in Seq(R!Cell)
      BY SameCells
    <2>4. UNCHANGED <<rstate, rdecoder, R!inVars, rpushed, R!outVars, R!bidirVars, rres,
                      rtaken, rdecoded, rdelivered, R!tuneVars>>
      BY <1>3 DEF receiverVars, R!inVars, R!outVars, R!bidirVars, R!tuneVars
    <2> QED BY <1>2, <1>4, <1>8, <2>1, <2>2, <2>3, <2>4, R!InputGrows, LengthAssumption,
               SizeModAssumption, SizeAssumption, CallAssumption, StreamOK
  <1> QED BY <1>2, <1>3, <1>5, <1>6, <1>7, <1>9 DEF Parts

(* Every step of the receiver is one of the reader, and all the sender sees *)
(* of it is that there is more to read.                                     *)
LEMMA ReceiverIsReader ==
    ASSUME R!Inv, (\E b \in Bidirectional : ReceiverChooses(b)) \/ ReceiverCalls
    PROVE  /\ R!Next /\ UNCHANGED <<down, lost, senderVars>>
           /\ \E x \in Seq(Cell) : up' = up \o x
  <1>1. up \in Seq(Cell)
    BY SameCells DEF R!Inv, R!TypeOK
  <1>2. up = up \o <<>> /\ <<>> \in Seq(Cell)
    BY <1>1
  <1>3. ASSUME NEW b \in Bidirectional, ReceiverChooses(b)
        PROVE  R!Next /\ UNCHANGED <<down, lost, senderVars>> /\ UNCHANGED up
    BY <1>3 DEF ReceiverChooses, Receives, R!Next, R!AllowBidirectional, R!peerVars
  <1>4. CASE ReceiverCalls
    <2>1. R!Read /\ UNCHANGED <<lost, senderVars>>
      BY <1>4 DEF ReceiverCalls, Receives
    <2>2. R!Next /\ UNCHANGED down
      BY <2>1 DEF R!Next, R!Read, R!peerVars
    <2>3. \E x \in Seq(R!Cell) : up' = up \o x
      BY <2>1, R!OutGrows, LengthAssumption, SizeModAssumption, SizeAssumption,
         CallAssumption, StreamOK
    <2> QED BY <2>1, <2>2, <2>3, SameCells
  <1> QED BY <1>2, <1>3, <1>4

LEMMA ReceiverKeeps ==
    ASSUME NoWrap, Parts, (\E b \in Bidirectional : ReceiverChooses(b)) \/ ReceiverCalls
    PROVE  Parts'
  <1>1. R!NoWrap
    BY DEF NoWrap, R!NoWrap
  <1>2. W!ProtocolInv /\ W!AckedOnce /\ W!WireInv /\ R!Inv /\ lost \in BOOLEAN
    BY DEF Parts
  <1>3. R!Next /\ UNCHANGED <<down, lost, senderVars>>
    BY <1>2, ReceiverIsReader
  <1>4. PICK x \in Seq(Cell) : up' = up \o x
    BY <1>2, ReceiverIsReader
  <1>5. R!Inv'
    BY <1>1, <1>2, <1>3, R!NextInv, LengthAssumption, SizeModAssumption, SizeAssumption,
       CallAssumption, StreamOK
  <1>6. W!ProtocolInv'
    <2>1. UNCHANGED <<wstate, W!outVars, W!inVars, W!tuneVars, W!callVars, wres>>
      BY <1>3 DEF senderVars, W!outVars, W!inVars, W!tuneVars, W!callVars
    <2> QED BY <1>2, <1>4, <2>1, SameCells, W!InputGrowsProtocol, LengthAssumption,
               SizeModAssumption, SizeAssumption, CallAssumption
  <1>7. W!AckedOnce' /\ W!WireInv'
    BY <1>2, <1>3 DEF senderVars, W!AckedOnce, W!WireInv, W!Before
  <1> QED BY <1>2, <1>3, <1>5, <1>6, <1>7 DEF Parts

(* When the connection is lost, there is no more to come.                   *)
LEMMA LoseKeeps ==
    ASSUME NoWrap, Parts, Lose
    PROVE  Parts'
  <1>1. W!NoWrap /\ W!Avoided
    BY DEF NoWrap, W!NoWrap, W!Avoided
  <1>2. /\ W!ProtocolInv /\ W!Inv /\ W!AckedOnce /\ W!WireInv /\ R!Inv
        /\ lost' = TRUE /\ UNCHANGED <<down, up, senderVars, receiverVars>>
    BY DEF Parts, W!ProtocolInv, Lose
  <1>3. UNCHANGED W!vars
    BY <1>2 DEF senderVars, W!vars, W!outVars, W!inVars, W!tuneVars, W!callVars
  <1>4. W!ProtocolInv'
    BY <1>1, <1>2, <1>3, W!NextProtocol, LengthAssumption, SizeModAssumption, SizeAssumption,
       CallAssumption
  <1>5. W!AckedOnce' /\ W!WireInv'
    BY <1>2 DEF senderVars, W!AckedOnce, W!WireInv, W!Before
  <1>6. R!Inv'
    <2>1. down \in Seq(R!Cell) /\ down' = down \o <<>> /\ <<>> \in Seq(R!Cell)
      <3>1. down \in Seq(R!Cell)
        BY <1>2 DEF R!Inv, R!TypeOK
      <3> QED BY <1>2, <3>1
    <2>2. /\ R!AllSent(down')
          /\ R!AllSent(IF lost' THEN <<>> ELSE <<Junk>>)
          /\ (IF lost' THEN <<>> ELSE <<Junk>>) \in Seq(R!Cell)
      <3>1. W!Loaded(wbuf, wsize, wat, wleft, down, wencoded)
        BY <1>2 DEF W!Inv, W!OutInv
      <3>2. W!Orderly(wencoded, W!Before) /\ W!Before \in Preamble
        BY <1>2 DEF W!WireInv, W!Before, Preamble
      <3>3. R!AllSent(down)
        BY <3>1, <3>2, SentToReceiver
      <3> QED BY <1>2, <3>3 DEF R!AllSent
    <2>3. UNCHANGED <<rstate, rdecoder, R!inVars, rpushed, R!outVars, R!bidirVars, rres,
                      rtaken, rdecoded, rdelivered, R!tuneVars>>
      BY <1>2 DEF receiverVars, R!inVars, R!outVars, R!bidirVars, R!tuneVars
    <2> QED BY <1>2, <2>1, <2>2, <2>3, R!InputGrows, LengthAssumption, SizeModAssumption,
               SizeAssumption, CallAssumption, StreamOK
  <1> QED BY <1>2, <1>4, <1>5, <1>6 DEF Parts

(* The invariant holds in every state the two reach.                        *)
THEOREM Invariance ==
    ASSUME NoWrap
    PROVE  Spec => []Parts
  <1>1. Parts /\ [Next]_vars => Parts'
    <2> SUFFICES ASSUME Parts, [Next]_vars
                 PROVE  Parts'
      OBVIOUS
    <2>1. CASE Next
      BY <2>1, SenderKeeps, ReceiverKeeps, LoseKeeps DEF Next
    <2>2. CASE UNCHANGED vars
      <3>1. W!NoWrap /\ W!Avoided /\ R!NoWrap /\ W!Inv
        BY DEF NoWrap, W!NoWrap, W!Avoided, R!NoWrap, Parts, W!ProtocolInv
      <3>2. UNCHANGED W!vars /\ UNCHANGED R!vars /\ UNCHANGED lost
        BY <2>2 DEF vars, senderVars, receiverVars, W!vars, W!outVars, W!inVars, W!tuneVars,
                    W!callVars, R!vars, R!inVars, R!outVars, R!bidirVars, R!peerVars, R!tuneVars
      <3>3. W!ProtocolInv'
        BY <3>1, <3>2, W!NextProtocol, LengthAssumption, SizeModAssumption, SizeAssumption,
           CallAssumption DEF Parts
      <3>4. W!AckedOnce' /\ W!WireInv'
        BY <2>2 DEF Parts, vars, senderVars, W!AckedOnce, W!WireInv, W!Before
      <3>5. R!Inv'
        BY <3>1, <3>2, R!NextInv, LengthAssumption, SizeModAssumption, SizeAssumption,
           CallAssumption, StreamOK DEF Parts
      <3> QED BY <3>2, <3>3, <3>4, <3>5 DEF Parts
    <2> QED BY <2>1, <2>2
  <1>2. Init => Parts
    BY InitParts
  <1> QED BY <1>1, <1>2, PTL DEF Spec

-----------------------------------------------------------------------------
(***************************************************************************)
(* From end to end.                                                        *)
(***************************************************************************)
(* What the two invariants say of the cells on their way.                   *)
LEMMA OnTheWay ==
    ASSUME NoWrap, Parts
    PROVE  /\ down \in Seq(Cell) /\ Len(down) \in Nat /\ wencoded \in Seq(Cell)
           /\ rdecoded \in Nat /\ rleft \in Nat /\ rtaken \in Nat
           /\ rtaken = rdecoded + rleft /\ rtaken <= Len(down)
           /\ Slice(rbuf, rat, rleft) = SubSeq(down, rdecoded + 1, rtaken)
           /\ Slice(wbuf, wat - wleft, wleft) \in Seq(Cell)
           /\ down \o Slice(wbuf, wat - wleft, wleft) = wencoded
  <1>1. W!Loaded(wbuf, wsize, wat, wleft, down, wencoded)
    BY DEF Parts, W!ProtocolInv, W!Inv, W!OutInv
  <1>2. /\ down \in Seq(Cell) /\ wencoded \in Seq(Cell) /\ wbuf \in Seq(Cell)
        /\ wat \in Nat /\ wleft \in Nat
        /\ down \o Slice(wbuf, wat - wleft, wleft) = wencoded
    BY <1>1, SameCells, SameSlices DEF W!Loaded
  <1>3. Slice(wbuf, wat - wleft, wleft) \in Seq(Cell)
    <2>1. wat - wleft \in Int
      BY <1>2
    <2> QED BY <1>2, <2>1, SliceType
  <1>4. R!Inv /\ R!NoWrap
    BY DEF Parts, NoWrap, R!NoWrap
  <1>5. rleft = rtaken - rdecoded /\ Slice(rbuf, rat, rleft) = SubSeq(down, rdecoded + 1, rtaken)
    <2>1. R!WindowIntact
      BY <1>4, R!Windowed, LengthAssumption, SizeModAssumption, SizeAssumption,
         CallAssumption, StreamOK
    <2> QED BY <2>1, SameSlices DEF R!WindowIntact
  <1>6. /\ rleft \in Nat /\ rtaken \in Nat /\ rdecoded \in Nat /\ rtaken <= Len(down)
        /\ Len(down) \in Nat
    BY <1>2, <1>4 DEF R!Inv, R!TypeOK
  <1>7. rtaken = rdecoded + rleft
    BY <1>5, <1>6
  <1> QED BY <1>2, <1>3, <1>5, <1>6, <1>7

(* What comes before the d-th cell and the next n of them.                  *)
LEMMA PrefixJoins ==
    ASSUME NEW s \in Seq(Cell), NEW d \in Nat, NEW n \in Nat, d + n <= Len(s)
    PROVE  /\ SubSeq(s, 1, d) \in Seq(Cell) /\ SubSeq(s, d + 1, d + n) \in Seq(Cell)
           /\ SubSeq(s, 1, d + n) = SubSeq(s, 1, d) \o SubSeq(s, d + 1, d + n)
  <1>1. s \in Seq(R!Cell)
    BY SameCells
  <1> QED BY <1>1, SameCells, R!PrefixGrows, LengthAssumption, SizeModAssumption, SizeAssumption,
             CallAssumption, StreamOK

(* What was encoded begins with what was decoded.                           *)
LEMMA DecodedFirst ==
    ASSUME NoWrap, Parts
    PROVE  /\ SubSeq(down, 1, rdecoded) \in Seq(Cell) /\ Len(SubSeq(down, 1, rdecoded)) = rdecoded
           /\ \E y \in Seq(Cell) : wencoded = SubSeq(down, 1, rdecoded) \o y
  <1> DEFINE x == SubSeq(down, 1, rdecoded)
             n == Len(down) - rdecoded
             y == SubSeq(down, rdecoded + 1, rdecoded + n)
             z == Slice(wbuf, wat - wleft, wleft)
  <1>1. /\ down \in Seq(Cell) /\ rdecoded \in Nat /\ n \in Nat /\ rdecoded + n = Len(down)
        /\ z \in Seq(Cell) /\ wencoded = down \o z
    BY OnTheWay
  <1>2. x \in Seq(Cell) /\ y \in Seq(Cell) /\ SubSeq(down, 1, rdecoded + n) = x \o y
    <2> HIDE DEF n
    <2> QED BY <1>1, PrefixJoins
  <1>3. SubSeq(down, 1, rdecoded + n) = down
    BY <1>1
  <1>4. Len(x) = rdecoded
    <2> HIDE DEF n
    <2>1. rdecoded <= Len(down)
      BY <1>1
    <2> QED BY <1>1, <2>1
  <1>5. wencoded = (x \o y) \o z
    BY <1>1, <1>2, <1>3
  <1> HIDE DEF x, y, z
  <1>6. (x \o y) \o z = x \o (y \o z)
    BY <1>1, <1>2, ConcatAssociates
  <1>7. y \o z \in Seq(Cell)
    <2>1. y \in Seq(Cell) /\ z \in Seq(Cell)
      BY <1>1, <1>2
    <2> QED BY <2>1
  <1>8. wencoded = x \o (y \o z)
    BY <1>5, <1>6
  <1> QED BY <1>2, <1>4, <1>7, <1>8 DEF x

(* From end to end no cell is lost, repeated or out of place, however the   *)
(* stream is cut into writes and reads, and whatever is compacted and       *)
(* expanded on the way (writer.c:160-170, 287-307; reader.c:223-229,        *)
(* 265-287).                                                                *)
THEOREM NothingLostBetween ==
    ASSUME NoWrap
    PROVE  Spec => []EndToEnd
  <1>1. ASSUME Parts
        PROVE  EndToEnd
    <2> DEFINE n == Len(down) - rtaken
    <2>0. /\ down \in Seq(Cell) /\ rdecoded \in Nat /\ rleft \in Nat /\ rtaken \in Nat
          /\ rtaken = rdecoded + rleft /\ rtaken <= Len(down) /\ Len(down) \in Nat
      BY <1>1, OnTheWay
    <2>1. /\ n \in Nat /\ rtaken + n = Len(down)
          /\ rdecoded + rleft <= Len(down)
      BY <2>0
    <2>2. SubSeq(down, 1, rtaken) = SubSeq(down, 1, rdecoded) \o SubSeq(down, rdecoded + 1, rtaken)
      BY <2>0, <2>1, PrefixJoins
    <2>3. SubSeq(down, 1, Len(down)) = SubSeq(down, 1, rtaken) \o SubSeq(down, rtaken + 1, Len(down))
      <3> HIDE DEF n
      <3>1. SubSeq(down, 1, rtaken + n)
               = SubSeq(down, 1, rtaken) \o SubSeq(down, rtaken + 1, rtaken + n)
        <4>1. rtaken + n <= Len(down)
          BY <2>0, <2>1
        <4> QED BY <2>0, <2>1, <4>1, PrefixJoins
      <3> QED BY <2>1, <3>1
    <2>4. SubSeq(down, 1, Len(down)) = down
      BY <2>0
    <2>5. /\ Slice(rbuf, rat, rleft) = SubSeq(down, rdecoded + 1, rtaken)
          /\ down \o Slice(wbuf, wat - wleft, wleft) = wencoded
      BY <1>1, OnTheWay
    <2> QED BY <2>2, <2>3, <2>4, <2>5 DEF EndToEnd
  <1>2. Parts => EndToEnd
    BY <1>1
  <1> QED BY <1>2, Invariance, PTL

(* What was delivered is the beginning of what was reported written.        *)
LEMMA DeliveredFirst ==
    ASSUME NoWrap, Parts
    PROVE  /\ rdelivered \in Seq(Message) /\ wacked \in Seq(Message)
           /\ wacked = Payloads(wencoded)
           /\ rdelivered = Payloads(SubSeq(down, 1, rdecoded))
           /\ \E q \in Seq(Message \cup {BadPayload}) : wacked = rdelivered \o q
  <1>1. rdelivered \in Seq(Message) /\ rdelivered = Payloads(SubSeq(down, 1, rdecoded))
    BY SamePayloads DEF Parts, R!Inv, R!TypeOK, R!DeliveredInOrder
  <1>2. wacked \in Seq(Message) /\ wacked = Payloads(wencoded)
    BY SamePayloads DEF Parts, W!ProtocolInv, W!Inv, W!CallInv, W!AckedOnce
  <1> DEFINE x == SubSeq(down, 1, rdecoded)
  <1>3. PICK y \in Seq(Cell) : x \in Seq(Cell) /\ wencoded = x \o y
    BY DecodedFirst
  <1> HIDE DEF x
  <1>4. Payloads(x \o y) = Payloads(x) \o Payloads(y)
    BY <1>3, PayloadsConcat
  <1>5. Payloads(y) \in Seq(Message \cup {BadPayload})
    BY PayloadsAt
  <1>6. wacked = rdelivered \o Payloads(y)
    BY <1>1, <1>2, <1>3, <1>4 DEF x
  <1> QED BY <1>1, <1>2, <1>5, <1>6

(* A STOP is the last there is in a stream of a writer.                     *)
LEMMA StopIsLast ==
    ASSUME NEW p \in Preamble, NEW x \in Seq(Cell), NEW y \in Seq(Cell), Orderly(x \o y, p),
           Len(y) > 0, y[1] = <<StopElement, 1>>
    PROVE  Payloads(y) = <<>> /\ ~Open(x \o y)
  <1> DEFINE s == x \o y
             k == Len(x) + 1
  <1>1. /\ s \in Seq(Cell) /\ Len(s) = Len(x) + Len(y) /\ Len(x) \in Nat /\ Len(y) \in Nat
        /\ \A i \in 1..Len(y) : s[Len(x) + i] = y[i]
    OBVIOUS
  <1>2. Orderly(s, p)
    OBVIOUS
  <1> HIDE DEF s
  <1>3. k \in 1..Len(s) /\ s[k] = <<StopElement, 1>> /\ k \in Nat
    <2>1. 1 \in 1..Len(y)
      BY <1>1
    <2> QED BY <1>1, <2>1
  <1>4. s[k][1] = StopElement /\ s[k][2] = 1
    BY <1>3
  <1>5. Begins(s, k, p)
    BY <1>2, <1>3, <1>4 DEF Orderly
  <1> HIDE DEF k
  <1>6. Size(StopElement) = HeaderLen /\ HeaderLen \in Nat \ {0} /\ StopElement.kind = "control"
    BY LengthAssumption DEF StopElement, Control, Size
  <1>7. /\ \A j \in 1..HeaderLen : (k - 1) + j <= Len(s) => s[(k - 1) + j] = <<StopElement, j>>
        /\ ~(k + HeaderLen <= Len(s))
    BY <1>4, <1>5, <1>6 DEF Begins
  <1>8. ASSUME NEW j \in 1..Len(y)
        PROVE  y[j][1].kind = "control"
    <2>1. j \in 1..HeaderLen /\ (k - 1) + j = Len(x) + j /\ Len(x) + j <= Len(s)
      BY <1>1, <1>3, <1>6, <1>7 DEF k
    <2>2. s[Len(x) + j] = <<StopElement, j>>
      BY <1>7, <2>1
    <2>3. y[j] = <<StopElement, j>>
      BY <1>1, <2>2
    <2> QED BY <1>6, <2>3
  <1>9. Heads(y) = {}
    <2>1. DOMAIN y = 1..Len(y)
      OBVIOUS
    <2> QED BY <1>8, <2>1 DEF Heads
  <1>10. Payloads(y) \in Seq(Message \cup {BadPayload}) /\ Len(Payloads(y)) = 0
    BY <1>9, PayloadsAt, FS_EmptySet
  <1>11. Payloads(y) = <<>>
    BY <1>10
  <1>12. ~Open(s)
    BY <1>3, <1>4 DEF Open
  <1> QED BY <1>11, <1>12 DEF s

(* A receiver that was told of the end has got all there was, and the       *)
(* sender has stopped.                                                      *)
LEMMA EndedAfterAll ==
    ASSUME NoWrap, Parts, rstate \in {"encoding_finish", "writing_finish", "done"}
    PROVE  wencoder = "done" /\ rdelivered = wacked
  <1> DEFINE x == SubSeq(down, 1, rdecoded)
  <1>1. PICK y \in Seq(Cell) : x \in Seq(Cell) /\ Len(x) = rdecoded /\ wencoded = x \o y
    BY DecodedFirst
  <1>2. /\ down \in Seq(Cell) /\ rdecoded \in Nat /\ Len(down) \in Nat
        /\ down \o Slice(wbuf, wat - wleft, wleft) = wencoded
        /\ Slice(wbuf, wat - wleft, wleft) \in Seq(Cell)
    BY OnTheWay
  <1>3. rdecoded < Len(down) /\ down[rdecoded + 1] = <<StopElement, 1>>
    <2>1. R!StopInv /\ R!NoFinishSent
      BY DEF Parts, R!Inv, R!NoFinishSent, R!AllSent, R!SentToReader, Junk
    <2>2. R!Control("STOP", 0) = StopElement
      BY DEF R!Control, StopElement, Control
    <2> QED BY <2>1, <2>2 DEF R!StopInv
  <1>4. wencoded[rdecoded + 1] = <<StopElement, 1>> /\ rdecoded + 1 <= Len(wencoded)
    <2> DEFINE z == Slice(wbuf, wat - wleft, wleft)
    <2>1. rdecoded + 1 \in 1..Len(down)
      BY <1>2, <1>3
    <2>2. z \in Seq(Cell) /\ wencoded = down \o z
      BY <1>2
    <2> HIDE DEF z
    <2>3. wencoded[rdecoded + 1] = down[rdecoded + 1]
      BY <1>2, <2>1, <2>2
    <2>4. Len(wencoded) = Len(down) + Len(z) /\ Len(z) \in Nat
      BY <1>2, <2>2
    <2> QED BY <1>2, <1>3, <2>1, <2>3, <2>4
  <1> HIDE DEF x
  <1>5. Len(y) > 0 /\ y[1] = <<StopElement, 1>>
    <2>0. Len(x \o y) = Len(x) + Len(y) /\ Len(y) \in Nat
      <3>1. x \in Seq(Cell) /\ y \in Seq(Cell)
        BY <1>1
      <3>2. \A s, t \in Seq(Cell) : Len(s \o t) = Len(s) + Len(t) /\ Len(t) \in Nat
        OBVIOUS
      <3> QED BY <3>1, <3>2
    <2>1. Len(wencoded) = rdecoded + Len(y) /\ Len(y) \in Nat
      BY <1>1, <2>0
    <2>2. Len(y) > 0
      BY <1>2, <1>4, <2>1
    <2>3. 1 \in 1..Len(y)
      BY <2>1, <2>2
    <2>4. wencoded[rdecoded + 1] = y[1]
      BY <1>1, <2>3
    <2> QED BY <1>4, <2>2, <2>4
  <1>6. Orderly(x \o y, W!Before) /\ W!Before \in Preamble /\ (wencoder # "done" => Open(x \o y))
    <2>1. W!Orderly(wencoded, W!Before) /\ (wencoder # "done" => W!Open(wencoded))
      BY DEF Parts, W!WireInv
    <2>2. W!Before \in Preamble
      BY DEF W!Before, Preamble
    <2> QED BY <1>1, <2>1, <2>2, SameOrder
  <1>7. Payloads(y) = <<>> /\ ~Open(x \o y)
    BY <1>1, <1>5, <1>6, StopIsLast
  <1>8. Payloads(x \o y) = Payloads(x) \o Payloads(y) /\ Payloads(x) \in Seq(Message \cup {BadPayload})
    BY <1>1, PayloadsConcat, PayloadsAt
  <1>9. Payloads(x \o y) = Payloads(x)
    BY <1>7, <1>8
  <1> QED BY <1>1, <1>6, <1>7, <1>9, DeliveredFirst DEF x

(* What the receiver gets is the beginning of what the sender was told is   *)
(* written, and all of it when the receiver is told of the end, which is    *)
(* after the sender has stopped (reader.c:295-312, 400-415; writer.c:287-   *)
(* 307, 320-382).                                                           *)
Delivered ==
    /\ rdelivered = SubSeq(wacked, 1, Len(rdelivered))
    /\ rstate = "done" => wencoder = "done" /\ rdelivered = wacked

THEOREM DeliveredOnceInOrder ==
    ASSUME NoWrap
    PROVE  Spec => []Delivered
  <1>1. ASSUME Parts
        PROVE  rdelivered = SubSeq(wacked, 1, Len(rdelivered))
    <2> DEFINE P == Message \cup {BadPayload}
    <2>1. PICK q \in Seq(P) : wacked = rdelivered \o q
      BY <1>1, DeliveredFirst
    <2>2. rdelivered \in Seq(P)
      BY <1>1, DeliveredFirst
    <2> HIDE DEF P
    <2> QED BY <2>1, <2>2
  <1>2. Parts => Delivered
    BY <1>1, EndedAfterAll DEF Delivered
  <1> QED BY <1>2, Invariance, PTL

-----------------------------------------------------------------------------
(***************************************************************************)
(* The receiver of an orderly stream.                                      *)
(***************************************************************************)
(* Every element fits into the reader's buffer, once it is expanded.        *)
ElementsFit == HeaderLen <= InitMax /\ FieldLen <= InitMax /\ FrameLen <= InitMax

ReceiverOrderly == R!OrderlyInv(W!Before)

(* A sender with a handshake is past READY only with an answer, and the     *)
(* answer is the reader's.                                                  *)
LEMMA AnsweredFirst ==
    ASSUME NoWrap, Parts, wbidirectional, wencoder \notin {"control_ready", "control_start"}
    PROVE  up # <<>> /\ ris_bidirectional
  <1>1. W!HandshakeInv /\ W!Inv /\ R!Inv
    BY DEF Parts, W!ProtocolInv
  <1>2. wdecoder.accept_support_dnstap_protobuf
    BY <1>1 DEF W!HandshakeInv, W!AcceptedByPeer
  <1>3. PICK i \in 1..wtaken : up[i][1].kind = "field"
    BY <1>1, <1>2 DEF W!Inv, W!InInv
  <1>4. up \in Seq(Cell) /\ wtaken \in Nat /\ wtaken <= Len(up) /\ Len(up) \in Nat
    BY <1>1, SameCells DEF W!Inv, W!InInv, W!Filling
  <1>5. up # <<>>
    BY <1>3, <1>4
  <1>6. rencoder \in {"control_finish", "done"}
    <2> DEFINE z == R!Slice(rwrite_buf, rwrite_at - rwrite_left, rwrite_left)
    <2>1. up \o z = R!AnswerSoFar(rencoder)
      BY <1>1 DEF R!Inv, R!ContentInv
    <2>2. z \in Seq(Cell)
      <3>1. rwrite_buf \in Seq(Cell) /\ rwrite_at - rwrite_left \in Int /\ rwrite_left \in Nat
        BY <1>1, SameCells DEF R!Inv, R!TypeOK
      <3> QED BY <3>1, SliceType, SameSlices
    <2> HIDE DEF z
    <2>3. up \o z # <<>>
      BY <1>4, <1>5, <2>2
    <2> QED BY <2>1, <2>3 DEF R!AnswerSoFar
  <1> QED BY <1>1, <1>5, <1>6 DEF R!Inv, R!ContentInv

(* So the receiver is sent an orderly stream, START not before it answered. *)
LEMMA ReceiverSees ==
    ASSUME NoWrap, Parts
    PROVE  /\ W!Before \in Preamble /\ R!Orderly(down, W!Before)
           /\ up = <<>> /\ W!Before > 0 => Len(down) <= W!Before
  <1>1. W!Before \in Preamble
    BY DEF W!Before, Preamble
  <1>2. R!Orderly(down, W!Before)
    <2>1. W!Loaded(wbuf, wsize, wat, wleft, down, wencoded) /\ W!Orderly(wencoded, W!Before)
      BY DEF Parts, W!ProtocolInv, W!Inv, W!OutInv, W!WireInv
    <2> QED BY <1>1, <2>1, SentToReceiver, SameOrderR
  <1>3. ASSUME up = <<>>, W!Before > 0
        PROVE  Len(down) <= W!Before
    <2>1. wbidirectional
      BY <1>3 DEF W!Before
    <2>2. wencoder \in {"control_ready", "control_start"}
      BY <1>3, <2>1, AnsweredFirst
    <2>3. Len(wencoded) <= W!Before
      <3>1. Len(<<>>) = 0
        OBVIOUS
      <3>2. W!Before \in Nat
        BY LengthAssumption DEF W!Before
      <3> QED BY <1>3, <2>2, <3>1, <3>2 DEF Parts, W!WireInv
    <2>4. Len(down) <= Len(wencoded)
      <3> DEFINE z == Slice(wbuf, wat - wleft, wleft)
      <3>1. z \in Seq(Cell) /\ down \in Seq(Cell) /\ down \o z = wencoded
        BY OnTheWay
      <3> HIDE DEF z
      <3>2. Len(wencoded) = Len(down) + Len(z)
        BY <3>1
      <3> QED BY <3>1, <3>2
    <2> QED BY <2>3, <2>4, LengthAssumption, OnTheWay DEF W!Before, Parts, W!ProtocolInv,
               W!Inv, W!OutInv, W!Loaded
  <1> QED BY <1>1, <1>2, <1>3

(* The receiver keeps to it, whatever the sender does.                      *)
LEMMA SenderOrderly ==
    ASSUME NoWrap, Parts, ReceiverOrderly,
           \/ \E b \in Bidirectional : SenderChooses(b)
           \/ \E m \in Message : HandOver(m)
           \/ SenderStops
           \/ SenderWrites
    PROVE  ReceiverOrderly'
  <1>1. W!Inv /\ R!Inv /\ W!NoWrap /\ W!Avoided
    BY DEF Parts, W!ProtocolInv, NoWrap, W!NoWrap, W!Avoided
  <1>2. UNCHANGED <<up, lost, receiverVars>>
    BY <1>1, SenderIsWriter
  <1>3. PICK x \in Seq(Cell) : down' = down \o x
    BY <1>1, SenderIsWriter
  <1>4. wbidirectional' = wbidirectional \/ rdecoded = 0
    <2>1. ASSUME NEW b \in Bidirectional, SenderChooses(b)
          PROVE  rdecoded = 0
      <3>1. wres = "init"
        BY <2>1 DEF SenderChooses, Sends, W!SetBidirectional
      <3>2. Len(down) = 0
        BY <1>1, <3>1 DEF W!Inv, W!FreshInv
      <3>3. rdecoded \in Nat /\ rleft \in Nat /\ rtaken = rdecoded + rleft /\ rtaken <= Len(down)
        BY OnTheWay
      <3> QED BY <3>2, <3>3
    <2>2. ASSUME NEW m \in Message, HandOver(m)
          PROVE  wbidirectional' = wbidirectional
      BY <2>2 DEF HandOver, Sends, W!SetDnstap
    <2>3. CASE SenderStops
      BY <2>3 DEF SenderStops, Sends, W!StopCall, W!callVars
    <2>4. CASE SenderWrites
      BY <2>4 DEF SenderWrites, Sends, W!Write, W!Call
    <2> QED BY <2>1, <2>2, <2>3, <2>4
  <1>5. PICK p \in R!Preamble : p = W!Before
    BY SameOrderR DEF W!Before, Preamble
  <1>6. PICK q \in R!Preamble : q = W!Before'
    BY SameOrderR DEF W!Before, Preamble
  <1>7. p = q \/ rdecoded = 0
    BY <1>4, <1>5, <1>6 DEF W!Before
  <1>8. R!OrderlyInv(q)'
    <2>1. R!OrderlyInv(p)
      BY <1>5 DEF ReceiverOrderly
    <2>2. UNCHANGED <<rstate, rdecoder, R!inVars, R!outVars, R!bidirVars, rres, rdecoded>>
      BY <1>2 DEF receiverVars, R!inVars, R!outVars, R!bidirVars
    <2>3. x \in Seq(R!Cell)
      BY SameCells
    <2>4. (IF lost THEN <<>> ELSE <<Junk>>) = <<>> => (IF lost' THEN <<>> ELSE <<Junk>>) = <<>>
      BY <1>2
    <2> QED BY <1>1, <1>3, <1>7, <2>1, <2>2, <2>3, <2>4, R!InputGrowsOrderly, LengthAssumption,
               SizeModAssumption, SizeAssumption, CallAssumption, StreamOK
  <1> QED BY <1>6, <1>8 DEF ReceiverOrderly, R!OrderlyInv

(* And whatever it does itself.                                             *)
LEMMA ReceiverStaysOrderly ==
    ASSUME NoWrap, BadPayload \notin Message, Parts, ReceiverOrderly,
           (\E b \in Bidirectional : ReceiverChooses(b)) \/ ReceiverCalls
    PROVE  ReceiverOrderly'
  <1>1. R!Inv /\ R!NoWrap /\ UNCHANGED <<down, lost, senderVars>>
    BY ReceiverIsReader DEF Parts, NoWrap, R!NoWrap
  <1>2. W!Before' = W!Before
    BY <1>1 DEF senderVars, W!Before
  <1>3. PICK p \in R!Preamble : p = W!Before
    BY SameOrderR DEF W!Before, Preamble
  <1>4. R!OrderlyInv(p)
    BY <1>3 DEF ReceiverOrderly
  <1>5. ASSUME NEW b \in Bidirectional, ReceiverChooses(b)
        PROVE  R!OrderlyInv(p)'
    <2>1. R!AllowBidirectional(b)
      BY <1>5 DEF ReceiverChooses, Receives
    <2> QED BY <1>1, <1>4, <2>1, R!AllowOrderly, LengthAssumption,
               SizeModAssumption, SizeAssumption, CallAssumption, StreamOK
  <1>6. ASSUME ReceiverCalls
        PROVE  R!OrderlyInv(p)'
    <2>1. R!Read /\ rres \notin {"error", "endofdata"}
      BY <1>6 DEF ReceiverCalls, Receives, Ended
    <2>2. /\ R!Orderly(down, p)
          /\ up = <<>> /\ p > 0 => Len(down) <= p
      BY <1>3, ReceiverSees
    <2>3. R!BadPayload \notin Message /\ ~FALSE
      BY SameOrderR
    <2> QED BY <1>1, <1>4, <2>1, <2>2, <2>3, R!ReadOrderly, LengthAssumption,
               SizeModAssumption, SizeAssumption, CallAssumption, StreamOK
  <1>7. R!OrderlyInv(p)'
    BY <1>5, <1>6
  <1>8. p = W!Before'
    BY <1>2, <1>3
  <1> QED BY <1>7, <1>8 DEF ReceiverOrderly, R!OrderlyInv

(* A connection that is lost, or a step in which nothing happens.           *)
LEMMA IdleOrderly ==
    ASSUME NoWrap, Parts, ReceiverOrderly, Lose \/ UNCHANGED vars
    PROVE  ReceiverOrderly'
  <1>1. R!Inv /\ UNCHANGED <<down, up, wbidirectional, receiverVars>> /\ (lost => lost')
    BY DEF Parts, Lose, vars, senderVars
  <1>2. PICK p \in R!Preamble : p = W!Before
    BY SameOrderR DEF W!Before, Preamble
  <1>3. p = W!Before'
    BY <1>1, <1>2 DEF W!Before
  <1>4. R!OrderlyInv(p)
    BY <1>2 DEF ReceiverOrderly
  <1>5. down' = down \o <<>> /\ <<>> \in Seq(R!Cell)
    <2>1. down \in Seq(Cell)
      BY OnTheWay
    <2> QED BY <1>1, <2>1
  <1>6. UNCHANGED <<rstate, rdecoder, R!inVars, R!outVars, R!bidirVars, rres, rdecoded>>
    BY <1>1 DEF receiverVars, R!inVars, R!outVars, R!bidirVars
  <1>7. (IF lost THEN <<>> ELSE <<Junk>>) = <<>> => (IF lost' THEN <<>> ELSE <<Junk>>) = <<>>
    BY <1>1
  <1>8. R!OrderlyInv(p)'
    BY <1>1, <1>4, <1>5, <1>6, <1>7, R!InputGrowsOrderly, LengthAssumption,
       SizeModAssumption, SizeAssumption, CallAssumption, StreamOK
  <1> QED BY <1>3, <1>8 DEF ReceiverOrderly, R!OrderlyInv

(* The receiver of a stream of this writer never meets anything that does   *)
(* not belong there, and it fails only when the connection is lost or it    *)
(* was not to answer (reader.c:216-254, 289-342).                           *)
THEOREM ReceivesOrderly ==
    ASSUME NoWrap, BadPayload \notin Message
    PROVE  Spec => [](Parts /\ ReceiverOrderly)
  <1>1. Init => Parts /\ ReceiverOrderly
    <2> SUFFICES ASSUME Init
                 PROVE  Parts /\ ReceiverOrderly
      OBVIOUS
    <2>1. R!Init
      BY DEF Init
    <2>2. PICK p \in R!Preamble : p = W!Before
      BY SameOrderR DEF W!Before, Preamble
    <2>3. R!OrderlyInv(p)
      BY <2>1, R!InitOrderly, LengthAssumption, SizeModAssumption, SizeAssumption,
         CallAssumption, StreamOK
    <2> QED BY <2>2, <2>3, InitParts DEF ReceiverOrderly
  <1>2. Parts /\ Parts' /\ ReceiverOrderly /\ [Next]_vars => ReceiverOrderly'
    BY SenderOrderly, ReceiverStaysOrderly, IdleOrderly DEF Next
  <1> QED BY <1>1, <1>2, Invariance, PTL DEF Spec


-----------------------------------------------------------------------------
(***************************************************************************)
(* The handshake.                                                          *)
(***************************************************************************)
(* What was written so far has the first of the frames there will be.       *)
LEMMA WrittenFirst ==
    ASSUME NoWrap, Parts, Payloads(wencoded) = <<>>
    PROVE  Payloads(down) = <<>>
  <1> DEFINE z == Slice(wbuf, wat - wleft, wleft)
  <1>1. down \in Seq(Cell) /\ z \in Seq(Cell) /\ down \o z = wencoded
    BY OnTheWay
  <1> HIDE DEF z
  <1>2. Payloads(down \o z) = Payloads(down) \o Payloads(z)
    BY <1>1, PayloadsConcat
  <1> DEFINE p == Payloads(down)
             q == Payloads(z)
             P == Message \cup {BadPayload}
  <1>3. p \in Seq(P) /\ q \in Seq(P) /\ p \o q = <<>>
    BY <1>1, <1>2, PayloadsAt
  <1> HIDE DEF p, q, P
  <1>4. p = <<>>
    <2>1. Len(p \o q) = Len(p) + Len(q) /\ Len(p) \in Nat /\ Len(q) \in Nat
      BY <1>3
    <2>2. Len(p) = 0
      BY <1>3, <2>1
    <2> QED BY <1>3, <2>2
  <1> QED BY <1>4 DEF p

(* A frame is on the wire only when the encoder is past READY and START.    *)
LEMMA FramesAfterHandshake ==
    ASSUME NoWrap, Parts, wbidirectional, wencoder \in {"control_ready", "control_start"}
    PROVE  Payloads(wencoded) = <<>>
  <1>1. CASE wencoder = "control_ready"
    <2>1. wencoded = <<>>
      BY <1>1 DEF Parts, W!WireInv
    <2> QED BY <2>1, PayloadsNone
  <1>2. CASE wencoder = "control_start"
    <2>1. wencoded = W!ReadyCells
      BY <1>2 DEF Parts, W!ProtocolInv, W!HandshakeInv
    <2>2. W!ReadyCells = Encoding("control_ready", NoDnstap).cells
      BY DEF W!ReadyCells, W!Encoding, Encoding, W!Cells, Cells, W!Size, Size, W!Control, Control,
             W!Field, Field, W!Frame, Frame, W!NoDnstap, NoDnstap
    <2>3. "control_ready" \in EncoderState /\ Encoding("control_ready", NoDnstap).res # "ok"
      BY DEF Encoding, EncoderState
    <2> QED BY <2>1, <2>2, <2>3, EncodingPayloads
  <1> QED BY <1>1, <1>2

(* The receiver answers none but a sender that asked for it.                *)
LEMMA NoAnswerUnasked ==
    ASSUME NoWrap, Parts, ReceiverOrderly, ~wbidirectional
    PROVE  up = <<>> /\ ~ris_bidirectional
  <1>1. W!Before = 0
    BY DEF W!Before
  <1>2. ~ris_bidirectional
    BY <1>1 DEF ReceiverOrderly, R!OrderlyInv
  <1>3. R!ContentInv /\ R!TypeOK
    BY DEF Parts, R!Inv
  <1>4. R!AnswerSoFar(rencoder) = <<>>
    BY <1>2, <1>3 DEF R!ContentInv, R!AnswerSoFar
  <1> DEFINE z == R!Slice(rwrite_buf, rwrite_at - rwrite_left, rwrite_left)
  <1>5. up \in Seq(Cell) /\ z \in Seq(Cell)
    <2>1. rwrite_buf \in Seq(Cell) /\ rwrite_at - rwrite_left \in Int /\ rwrite_left \in Nat
      BY <1>3, SameCells DEF R!TypeOK
    <2> QED BY <1>3, <2>1, SliceType, SameSlices, SameCells DEF R!TypeOK
  <1>6. up \o z = <<>>
    BY <1>3, <1>4 DEF R!ContentInv
  <1> HIDE DEF z
  <1>7. up = <<>>
    <2>1. Len(up \o z) = Len(up) + Len(z) /\ Len(up) \in Nat /\ Len(z) \in Nat
      BY <1>5
    <2>2. Len(up) = 0
      BY <1>6, <2>1
    <2> QED BY <1>5, <2>2
  <1> QED BY <1>2, <1>7

(* The two agree on the handshake before a frame is on the wire, and none   *)
(* is answered that asked for none (reader.c:235-254, writer.c:272-276).    *)
THEOREM AgreesOnHandshake ==
    ASSUME NoWrap, BadPayload \notin Message
    PROVE  Spec => []HandshakeAgreed
  <1>1. ASSUME Parts, ReceiverOrderly
        PROVE  HandshakeAgreed
    <2>1. Payloads(down) # <<>> /\ wbidirectional => ris_bidirectional
      BY <1>1, WrittenFirst, FramesAfterHandshake, AnsweredFirst
    <2> QED BY <1>1, <2>1, NoAnswerUnasked DEF HandshakeAgreed
  <1>2. Parts /\ ReceiverOrderly => HandshakeAgreed
    BY <1>1
  <1> QED BY <1>2, ReceivesOrderly, PTL


-----------------------------------------------------------------------------
(***************************************************************************)
(* The two are a stream of frames.                                         *)
(***************************************************************************)
(* FINISH is on its way back only when the reader was told of the end.      *)
LEMMA FinishIsLast ==
    ASSUME NoWrap, Parts, NEW k \in Nat, W!FinishAt(k, wtaken)
    PROVE  rencoder = "done"
  <1>1. R!ContentInv /\ R!TypeOK /\ W!InInv
    BY DEF Parts, R!Inv, W!ProtocolInv, W!Inv
  <1>2. up \in Seq(Cell) /\ k \in 1..Len(up) /\ up[k][1].what = "FINISH"
    <2>1. up \in Seq(Cell) /\ wtaken \in Nat /\ wtaken <= Len(up)
      BY <1>1, SameCells DEF W!InInv, W!Filling
    <2> QED BY <2>1, LengthAssumption DEF W!FinishAt
  <1> DEFINE z == R!Slice(rwrite_buf, rwrite_at - rwrite_left, rwrite_left)
             a == R!AnswerSoFar(rencoder)
  <1>3. z \in Seq(Cell)
    <2>1. rwrite_buf \in Seq(Cell) /\ rwrite_at - rwrite_left \in Int /\ rwrite_left \in Nat
      BY <1>1, SameCells DEF R!TypeOK
    <2> QED BY <2>1, SliceType, SameSlices
  <1>4. up \o z = a
    BY <1>1 DEF R!ContentInv
  <1> HIDE DEF z
  <1>5. k \in 1..Len(a) /\ a[k] = up[k]
    <2>1. /\ Len(up \o z) = Len(up) + Len(z) /\ Len(up) \in Nat /\ Len(z) \in Nat
          /\ (up \o z)[k] = up[k]
      BY <1>2, <1>3
    <2> QED BY <1>2, <1>4, <2>1
  <1>6. ASSUME rencoder # "done"
        PROVE  FALSE
    <2>1. a = <<>> \/ a = R!Accept
      BY <1>6 DEF R!AnswerSoFar
    <2>2. a = R!Accept
      BY <1>5, <2>1
    <2>3. R!Accept = Cells(Control("ACCEPT", 1)) \o Cells(Field("dnstap"))
      BY DEF R!Accept, R!Encoding, R!Cells, Cells, R!Size, Size, R!Control, Control,
             R!Field, Field, R!Frame, Frame
    <2> DEFINE x == Cells(Control("ACCEPT", 1))
               y == Cells(Field("dnstap"))
    <2>4. /\ x \in Seq(Cell) /\ \A i \in 1..Len(x) : x[i][1].what = "ACCEPT"
          /\ y \in Seq(Cell) /\ \A i \in 1..Len(y) : y[i][1].what = "dnstap"
      <3>1. Control("ACCEPT", 1) \in Element /\ Field("dnstap") \in Element
        BY DEF Control, Field, Element, ControlType, FieldValue
      <3>2. /\ x \in Seq(Cell) /\ Len(x) = Size(Control("ACCEPT", 1))
            /\ y \in Seq(Cell) /\ Len(y) = Size(Field("dnstap"))
        BY <3>1, CellsType
      <3> QED BY <3>2 DEF Cells, Control, Field
    <2> HIDE DEF x, y, a
    <2>5. k \in 1..Len(x \o y) /\ (x \o y)[k][1].what = "FINISH"
      BY <1>2, <1>5, <2>2, <2>3 DEF x, y
    <2>6. k \in 1..Len(x) \/ k - Len(x) \in 1..Len(y)
      BY <2>4, <2>5
    <2>7. CASE k \in 1..Len(x)
      BY <2>4, <2>5, <2>7
    <2>8. CASE k \notin 1..Len(x)
      <3>1. k - Len(x) \in 1..Len(y) /\ (x \o y)[k] = y[k - Len(x)]
        BY <2>4, <2>5, <2>6, <2>8
      <3> QED BY <2>4, <2>5, <3>1
    <2> QED BY <2>7, <2>8
  <1> QED BY <1>6

(* What the promise rests on, besides what was delivered: a frame or STOP   *)
(* is sent only on a connection that holds, a sender with a handshake ends  *)
(* after the receiver.                                                      *)
Agreed ==
    /\ rdelivered \in Seq(Message) /\ wacked \in Seq(Message)
    /\ Len(rdelivered) <= Len(wacked)
    /\ wencoder \notin {"control_ready", "control_start"} /\ rres = "error" => lost
    /\ wencoder \in {"control_ready", "control_start"} => wacked = <<>>
    /\ wbidirectional /\ wstate = "done" => rstate = "done"
    /\ rstate = "done" => rres = "endofdata"

LEMMA PartsAgree ==
    ASSUME NoWrap, BadPayload \notin Message, ElementsFit, Parts, ReceiverOrderly
    PROVE  Agreed
  <1>1. rdelivered \in Seq(Message) /\ wacked \in Seq(Message) /\ wacked = Payloads(wencoded)
    BY DeliveredFirst
  <1>2. Len(rdelivered) <= Len(wacked)
    <2> DEFINE P == Message \cup {BadPayload}
    <2>1. PICK q \in Seq(P) : wacked = rdelivered \o q
      BY DeliveredFirst
    <2>2. rdelivered \in Seq(P)
      BY <1>1
    <2> HIDE DEF P
    <2>3. Len(rdelivered \o q) = Len(rdelivered) + Len(q) /\ Len(rdelivered) \in Nat /\ Len(q) \in Nat
      BY <2>1, <2>2
    <2> QED BY <2>1, <2>3
  <1>3. ASSUME wencoder \notin {"control_ready", "control_start"}, rres = "error"
        PROVE  lost
    <2>1. R!ElementsFit
      BY DEF ElementsFit, R!ElementsFit
    <2>2. lost \/ (W!Before > 0 /\ ~ris_bidirectional)
      BY <1>3, <2>1 DEF ReceiverOrderly, R!OrderlyInv
    <2>3. W!Before > 0 => wbidirectional
      BY DEF W!Before
    <2> QED BY <1>3, <2>2, <2>3, AnsweredFirst
  <1>4. ASSUME wencoder \in {"control_ready", "control_start"}
        PROVE  wacked = <<>>
    <2>1. CASE wbidirectional
      BY <1>1, <1>4, <2>1, FramesAfterHandshake
    <2>2. CASE ~wbidirectional
      <3>1. wencoder = "control_start" /\ Len(wencoded) = 0
        BY <1>4, <2>2 DEF Parts, W!WireInv, W!Before
      <3>2. wencoded = <<>>
        BY <3>1, OnTheWay
      <3> QED BY <1>1, <3>2, PayloadsNone
    <2> QED BY <2>1, <2>2
  <1>5. ASSUME wbidirectional, wstate = "done"
        PROVE  rstate = "done"
    <2>1. PICK k \in Nat : W!FinishAt(k, wtaken)
      BY <1>5 DEF Parts, W!ProtocolInv, W!EndInv
    <2>2. rencoder = "done"
      BY <2>1, FinishIsLast
    <2> QED BY <2>2 DEF ReceiverOrderly, R!OrderlyInv
  <1>6. rstate = "done" => rres = "endofdata"
    BY DEF ReceiverOrderly, R!OrderlyInv
  <1> QED BY <1>1, <1>2, <1>3, <1>4, <1>5, <1>6 DEF Agreed


(* What the sender does is what the promise lets it do.                     *)
LEMMA SenderRefines ==
    ASSUME NoWrap, Parts, Parts', Agreed, Agreed', Delivered, Delivered',
           \/ \E b \in Bidirectional : SenderChooses(b)
           \/ \E m \in Message : HandOver(m)
           \/ SenderStops
           \/ SenderWrites
    PROVE  [FS!Next]_FS!vars
  <1>1. W!NoWrap /\ W!Avoided /\ W!Inv /\ wacked = Payloads(wencoded) /\ wencoded \in Seq(Cell)
    BY OnTheWay, DeliveredFirst DEF NoWrap, W!NoWrap, W!Avoided, Parts, W!ProtocolInv
  <1>2. UNCHANGED <<lost, rres, rstate, rdelivered>> /\ ~lost
    BY <1>1, SenderIsWriter DEF receiverVars
  <1>3. UNCHANGED Broken
    BY <1>2 DEF Broken
  <1>4. ASSUME NEW b \in Bidirectional, SenderChooses(b)
        PROVE  FS!Choose
    <2>1. /\ wres = "init" /\ wbidirectional' = b /\ wacked' = wacked
          /\ wencoder' \in {"control_ready", "control_start"}
          /\ wstate' \in {"encoding_ready", "encoding"}
      BY <1>4 DEF SenderChooses, Sends, W!SetBidirectional
    <2>2. /\ wencoder \in {"control_ready", "control_start"}
          /\ wstate \in {"encoding_ready", "encoding"}
      BY <1>1, <2>1 DEF W!Inv, W!FreshInv
    <2>3. wacked = <<>> /\ b \in BOOLEAN
      BY <2>2, CallAssumption DEF Agreed
    <2> QED BY <1>2, <1>3, <2>1, <2>2, <2>3 DEF FS!Choose
  <1>5. ASSUME NEW m \in Message, HandOver(m)
        PROVE  UNCHANGED FS!vars
    <2>1. UNCHANGED <<wbidirectional, wacked, wencoder, wstate>>
      BY <1>5 DEF HandOver, Sends, W!SetDnstap, W!outVars
    <2> QED BY <1>2, <1>3, <2>1 DEF FS!vars
  <1>6. CASE SenderStops
    <2>1. /\ wencoder = "frames" /\ wencoder' = "control_stop" /\ wstate' = "stopping"
          /\ UNCHANGED <<wbidirectional, wacked>>
      BY <1>6 DEF SenderStops, Sends, W!StopCall, W!CanStop, W!callVars
    <2>2. wstate # "done"
      BY <1>1, <2>1 DEF W!Inv, W!StateInv, W!EncoderIn
    <2>3. ~Broken
      BY <1>2, <2>1 DEF Broken, Agreed
    <2>4. FS!Stop
      BY <1>2, <1>3, <2>1, <2>2, <2>3 DEF FS!Stop
    <2> QED BY <2>4 DEF FS!Next
  <1>7. CASE SenderWrites
    <2> DEFINE c == [api |-> "write", len |-> 0, inlen |-> 0]
    <2>1. c \in [api : {"pop", "write"}, len : Nat, inlen : Nat] /\ W!Call(c)
      BY <1>7 DEF SenderWrites, Sends, W!Write
    <2> HIDE DEF c
    <2>2. /\ UNCHANGED wbidirectional
          /\ \/ /\ wres' = "ok" /\ wdnstap \in Message /\ wacked' = Append(wacked, wdnstap)
                /\ wencoder = "frames" /\ wencoder' = "frames"
                /\ wstate # "done" /\ wstate' # "done"
             \/ wres' # "ok" /\ wacked' = wacked
          /\ wencoder' \in {"control_stop", "done"} <=> wencoder \in {"control_stop", "done"}
          /\ wstate' = "done" => wencoder \in {"control_stop", "done"}
          /\ wstate = "done" => wstate' = "done"
      BY <1>1, <2>1, W!CallObserved, LengthAssumption, SizeModAssumption, SizeAssumption,
         CallAssumption
    <2>3. ASSUME wres' = "ok", wdnstap \in Message, wacked' = Append(wacked, wdnstap),
                 wencoder = "frames", wencoder' = "frames",
                 wstate # "done", wstate' # "done"
          PROVE  FS!Hand(wdnstap)
      <3>1. ~Broken
        BY <1>2, <2>3 DEF Broken, Agreed
      <3> QED BY <1>2, <1>3, <2>2, <2>3, <3>1 DEF FS!Hand
    <2>4. ASSUME wacked' = wacked, wstate' = "done", wstate # "done"
          PROVE  FS!SenderEnds
      <3>1. wencoder \in {"control_stop", "done"} /\ wencoder' \in {"control_stop", "done"}
        BY <2>2, <2>4
      <3>2. ~Broken
        BY <1>2, <3>1 DEF Broken, Agreed
      <3>3. wbidirectional => rstate = "done"
        BY <1>2, <2>2, <2>4 DEF Agreed
      <3> QED BY <1>2, <1>3, <2>2, <2>4, <3>1, <3>2, <3>3 DEF FS!SenderEnds
    <2>5. ASSUME wacked' = wacked, (wstate' = "done") = (wstate = "done")
          PROVE  UNCHANGED FS!vars
      BY <1>2, <1>3, <2>2, <2>5 DEF FS!vars
    <2> QED BY <2>2, <2>3, <2>4, <2>5 DEF FS!Next
  <1> QED BY <1>4, <1>5, <1>6, <1>7 DEF FS!Next

(* So is what the receiver does.                                            *)
LEMMA ReceiverRefines ==
    ASSUME NoWrap, Parts, Agreed, Agreed', Delivered, Delivered',
           (\E b \in Bidirectional : ReceiverChooses(b)) \/ ReceiverCalls
    PROVE  [FS!Next]_FS!vars
  <1>1. UNCHANGED <<lost, wbidirectional, wacked, wencoder, wstate>>
    BY ReceiverIsReader DEF Parts, senderVars
  <1>2. ASSUME NEW b \in Bidirectional, ReceiverChooses(b)
        PROVE  UNCHANGED FS!vars
    <2>1. UNCHANGED <<rstate, rres, rdelivered>>
      BY <1>2 DEF ReceiverChooses, Receives, R!AllowBidirectional
    <2> QED BY <1>1, <2>1 DEF FS!vars, Broken
  <1>3. CASE ReceiverCalls
    <2>1. rres \notin {"error", "endofdata"} /\ R!Read
      BY <1>3 DEF ReceiverCalls, Receives, Ended
    <2>2. \/ rdelivered' = rdelivered
          \/ rres' = "have_dnstap" /\ \E m : rdelivered' = Append(rdelivered, m)
      BY <2>1, R!ReadObserved, LengthAssumption, SizeModAssumption, SizeAssumption,
         CallAssumption, StreamOK
    <2>3. rstate # "done" /\ (rstate' = "done" => rres' = "endofdata")
      BY <2>1 DEF Agreed
    <2>4. ASSUME rres' = "have_dnstap", NEW m, rdelivered' = Append(rdelivered, m)
          PROVE  FS!Deliver
      <3>1. rstate' # "done" /\ Broken' = Broken
        BY <1>1, <2>1, <2>3, <2>4 DEF Broken
      <3>2. /\ rdelivered' = SubSeq(wacked, 1, Len(rdelivered'))
            /\ Len(rdelivered') <= Len(wacked)
        BY <1>1 DEF Delivered, Agreed
      <3>3. /\ rdelivered \in Seq(Message) /\ wacked \in Seq(Message)
            /\ rdelivered = SubSeq(wacked, 1, Len(rdelivered))
            /\ rdelivered' \in Seq(Message)
        BY DEF Delivered, Agreed
      <3>4. Len(rdelivered') = Len(rdelivered) + 1 /\ Len(rdelivered) \in Nat
        BY <2>4, <3>3
      <3>5. Len(rdelivered) < Len(wacked) /\ m = wacked[Len(rdelivered) + 1]
        <4>1. m = rdelivered'[Len(rdelivered) + 1]
          BY <2>4, <3>3
        <4> DEFINE n == Len(rdelivered) + 1
        <4>2. n \in 1..Len(wacked) /\ rdelivered' = SubSeq(wacked, 1, n)
          BY <3>2, <3>3, <3>4
        <4> HIDE DEF n
        <4>3. SubSeq(wacked, 1, n)[n] = wacked[n]
          BY <3>3, <4>2
        <4> QED BY <3>2, <3>3, <3>4, <4>1, <4>2, <4>3 DEF n
      <3> QED BY <1>1, <2>3, <2>4, <3>1, <3>5 DEF FS!Deliver
    <2>5. ASSUME rdelivered' = rdelivered, rstate' = "done"
          PROVE  FS!ReceiverEnds
      <3>1. Broken' = Broken
        BY <1>1, <2>1, <2>3, <2>5 DEF Broken
      <3>2. wencoder \in {"control_stop", "done"} /\ rdelivered = wacked
        BY <1>1, <2>5 DEF Delivered
      <3> QED BY <1>1, <2>5, <3>1, <3>2 DEF FS!ReceiverEnds
    <2>6. ASSUME rdelivered' = rdelivered, rstate' # "done", rres' = "error"
          PROVE  FS!Break
      BY <1>1, <2>3, <2>6 DEF FS!Break, Broken
    <2>7. ASSUME rdelivered' = rdelivered, rstate' # "done", rres' # "error"
          PROVE  UNCHANGED FS!vars
      BY <1>1, <2>1, <2>3, <2>7 DEF FS!vars, Broken
    <2> QED BY <2>2, <2>4, <2>5, <2>6, <2>7 DEF FS!Next
  <1> QED BY <1>2, <1>3

(* A connection that is lost breaks the stream, and nothing else.           *)
LEMMA LossRefines ==
    ASSUME Lose \/ UNCHANGED vars
    PROVE  [FS!Next]_FS!vars
  <1>1. CASE Lose
    <2>1. lost' = TRUE /\ UNCHANGED <<senderVars, receiverVars>>
      BY <1>1 DEF Lose
    <2>2. FS!Break
      BY <2>1 DEF FS!Break, Broken, senderVars, receiverVars
    <2> QED BY <2>2 DEF FS!Next
  <1>2. CASE UNCHANGED vars
    BY <1>2 DEF vars, senderVars, receiverVars, FS!vars, Broken
  <1> QED BY <1>1, <1>2

(* A writer and a reader together are a stream of frames: what the sender    *)
(* was told is written is what the receiver gets, once and in order; the    *)
(* receiver is told of the end after all of it, and the sender of a stream  *)
(* with a handshake after the receiver (writer.c:320-382, reader.c:289-342).*)
THEOREM FrameStreamImplemented ==
    ASSUME NoWrap, BadPayload \notin Message, ElementsFit
    PROVE  Spec => ImplementsFrameStream
  <1> DEFINE Good == Parts /\ ReceiverOrderly /\ Agreed /\ Delivered
  <1>1. Spec => []Good
    BY PartsAgree, ReceivesOrderly, DeliveredOnceInOrder, PTL
  <1>2. Init => FS!Init
    <2> SUFFICES ASSUME Init
                 PROVE  FS!Init
      OBVIOUS
    <2>1. /\ lost = FALSE /\ wbidirectional = FALSE /\ wacked = <<>>
          /\ wencoder = "control_start" /\ wstate = "encoding"
          /\ rdelivered = <<>> /\ rstate = "reading_control" /\ rres = "init"
      BY DEF Init, W!Init, R!Init
    <2> QED BY <2>1 DEF FS!Init, Broken
  <1>3. Good /\ Good' /\ [Next]_vars => [FS!Next]_FS!vars
    BY SenderRefines, ReceiverRefines, LossRefines DEF Next
  <1> QED BY <1>1, <1>2, <1>3, PTL DEF Spec, ImplementsFrameStream, FS!Spec


(* And it does not break by itself: as long as the connection holds, the    *)
(* receiver fails only when it was sent READY and was not to answer         *)
(* (reader.c:249, 314-317, 398, 462-470).                                   *)
THEOREM ReceiverTakesIt ==
    ASSUME NoWrap, BadPayload \notin Message, ElementsFit
    PROVE  Spec => []FailsForAReason
  <1>1. ASSUME ReceiverOrderly
        PROVE  FailsForAReason
    <2>1. R!ElementsFit
      BY DEF ElementsFit, R!ElementsFit
    <2>2. W!Before > 0 => wbidirectional
      BY DEF W!Before
    <2> QED BY <1>1, <2>1, <2>2 DEF FailsForAReason, ReceiverOrderly, R!OrderlyInv
  <1>2. Parts /\ ReceiverOrderly => FailsForAReason
    BY <1>1
  <1> QED BY <1>2, ReceivesOrderly, PTL

-----------------------------------------------------------------------------
(***************************************************************************)
(* The sender of a stream that is answered.                                *)
(***************************************************************************)
(* A control header is encoded with its field, and fits like that into the  *)
(* writer's buffer once it is expanded.                                    *)
SendersFit == HeaderLen + FieldLen <= InitMax /\ FrameLen <= InitMax

SenderServed == W!ServedInv

LEMMA NothingDisturbs ==
    ASSUME SendersFit
    PROVE  W!Undisturbed
  BY SizeAssumption DEF SendersFit, W!Undisturbed, W!ContentLen

(* What the sender reads is the reader's answer, ACCEPT and then FINISH,    *)
(* each as a whole, and FINISH not before the sender's own STOP.           *)
LEMMA SenderSees ==
    ASSUME NoWrap, Parts, ReceiverOrderly
    PROVE  W!GoodAnswer
  <1> DEFINE z == R!Slice(rwrite_buf, rwrite_at - rwrite_left, rwrite_left)
             a == Encoding("control_accept", NoDnstap).cells
             f == Encoding("control_finish", NoDnstap).cells
  <1>1. R!ContentInv /\ R!TypeOK /\ R!AnswerInv /\ R!OrderlyInv(W!Before)
    BY DEF Parts, R!Inv, ReceiverOrderly
  <1>2. R!Accept = a /\ R!Finish = f
    BY DEF R!Accept, R!Finish, R!Encoding, Encoding, R!Cells, Cells, R!Size, Size,
           R!Control, Control, R!Field, Field, R!Frame, Frame, R!NoDnstap, NoDnstap
  <1>3. /\ a \in Seq(Cell) /\ f \in Seq(Cell)
        /\ Len(a) = ContentLen /\ Len(a \o f) = ContentLen + HeaderLen
        /\ \A i \in 1..ContentLen : a[i] = AnswerCell(i)
        /\ \A i \in 1..(ContentLen + HeaderLen) : (a \o f)[i] = AnswerCell(i)
    BY AnswerEncoded
  <1>4. /\ HeaderLen \in Nat \ {0} /\ ContentLen \in Nat /\ W!ContentLen = ContentLen
        /\ \A i : W!AnswerCell(i) = AnswerCell(i)
    BY LengthAssumption DEF ContentLen, W!ContentLen, AnswerCell, W!AnswerCell,
       W!Control, Control, W!Field, Field
  <1>5. up \in Seq(Cell) /\ z \in Seq(Cell) /\ rwrite_left \in Nat /\ rwrite_at \in Nat
    <2>1. rwrite_buf \in Seq(Cell) /\ rwrite_at - rwrite_left \in Int /\ rwrite_left \in Nat
      BY <1>1, SameCells DEF R!TypeOK
    <2> QED BY <1>1, <2>1, SliceType, SameSlices, SameCells DEF R!TypeOK
  <1>6. up \o z = R!AnswerSoFar(rencoder)
    BY <1>1 DEF R!ContentInv
  <1>7. rwrite_left = 0 => z = <<>>
    BY DEF R!Slice
  <1> HIDE DEF z, a, f
  <1>8. Len(up \o z) = Len(up) + Len(z) /\ Len(up) \in Nat /\ Len(z) \in Nat
    BY <1>5
  (* Nothing, ACCEPT, or all of it.                                          *)
  <1>9. \/ up = <<>>
        \/ up = a
        \/ up = a \o f /\ rencoder = "done"
    <2>1. CASE rencoder = "control_finish"
      <3>1. ris_bidirectional /\ up \o z = a
        BY <1>1, <1>2, <1>6, <2>1 DEF R!ContentInv, R!AnswerSoFar
      <3>2. rstate # "done"
        <4>1. ASSUME rstate = "done"
              PROVE  up = a \o f
          BY <1>1, <1>2, <3>1, <4>1 DEF R!OrderlyInv, R!ContentInv
        <4>2. Len(a \o f) > Len(a)
          BY <1>3, <1>4
        <4> QED BY <1>3, <1>4, <1>8, <3>1, <4>1, <4>2
      <3>3. rwrite_at = 0
        BY <1>1, <2>1, <3>1, <3>2 DEF R!OrderlyInv, R!AnswerInv
      <3>4. z = <<>>
        BY <1>1, <1>5, <1>7, <3>3 DEF R!AnswerInv, R!AnswerInBounds
      <3> QED BY <1>5, <3>1, <3>4
    <2>2. CASE rencoder = "done"
      <3>1. ris_bidirectional /\ rres = "endofdata"
        BY <1>1, <2>2 DEF R!ContentInv, R!OrderlyInv
      <3> QED BY <1>1, <1>2, <2>2, <3>1 DEF R!ContentInv
    <2>3. CASE rencoder \notin {"control_finish", "done"}
      <3>1. up \o z = <<>>
        BY <1>6, <2>3 DEF R!AnswerSoFar
      <3>2. Len(up) = 0
        BY <1>8, <3>1
      <3> QED BY <1>5, <3>2
    <2> QED BY <2>1, <2>2, <2>3
  <1>10. rencoder = "done" => wencoder = "done"
    <2>1. rencoder = "done" => rstate = "done"
      BY <1>1 DEF R!OrderlyInv
    <2> QED BY <2>1, EndedAfterAll
  <1>11. CASE up = <<>>
    <2>1. Len(up) = 0
      BY <1>11
    <2> QED BY <1>4, <2>1 DEF W!GoodAnswer
  <1>12. CASE up = a
    BY <1>3, <1>4, <1>12 DEF W!GoodAnswer
  <1>13. CASE up = a \o f /\ rencoder = "done"
    BY <1>3, <1>4, <1>10, <1>13 DEF W!GoodAnswer
  <1> QED BY <1>9, <1>11, <1>12, <1>13

(* None of the calls it makes fails.                                       *)
LEMMA SenderStaysServed ==
    ASSUME NoWrap, SendersFit, Parts, ReceiverOrderly, SenderServed,
           \/ \E b \in Bidirectional : SenderChooses(b)
           \/ \E m \in Message : HandOver(m)
           \/ SenderStops
           \/ SenderWrites
    PROVE  SenderServed'
  <1>1. W!Inv /\ W!NoWrap /\ W!Avoided /\ W!ServedInv
    BY DEF Parts, W!ProtocolInv, NoWrap, W!NoWrap, W!Avoided, SenderServed
  <1>2. W!GoodAnswer /\ W!Undisturbed
    BY SenderSees, NothingDisturbs
  <1>3. CASE SenderWrites
    <2> DEFINE c == [api |-> "write", len |-> 0, inlen |-> 0]
    <2>1. W!Write /\ wdnstap # NoDnstap /\ wres # "endofdata"
      BY <1>3 DEF SenderWrites, Sends, Ended
    <2>2. c \in W!Calls /\ c.api = "write" /\ W!Call(c)
      BY <2>1 DEF W!Write, W!Calls
    <2>3. wdnstap # W!NoDnstap
      BY <2>1, Zenon DEF W!NoDnstap, NoDnstap
    <2> HIDE DEF c
    <2>4. W!ServedInv'
      BY <1>1, <1>2, <2>1, <2>2, <2>3, W!CallServed, LengthAssumption, SizeModAssumption,
         SizeAssumption, CallAssumption
    <2> QED BY <2>4 DEF SenderServed
  <1>4. ASSUME \/ \E b \in Bidirectional : W!SetBidirectional(b)
               \/ \E m \in Message : W!SetDnstap(m)
               \/ W!StopCall
        PROVE  SenderServed'
    <2>1. W!ServedInv'
      BY <1>1, <1>4, W!CallerServed, LengthAssumption, SizeModAssumption, SizeAssumption,
         CallAssumption
    <2> QED BY <2>1 DEF SenderServed
  <1> QED BY <1>3, <1>4 DEF SenderChooses, HandOver, SenderStops, Sends

(* The sender of a connection that holds is never told of an error, however *)
(* its stream is cut into writes, when its messages fit and its peer is     *)
(* this reader (writer.c:383-470, 480-520).                                *)
THEOREM SenderIsServed ==
    ASSUME NoWrap, BadPayload \notin Message, SendersFit
    PROVE  Spec => []SenderTakesIt
  <1> DEFINE Good == Parts /\ ReceiverOrderly
  <1>1. Spec => []Good
    BY ReceivesOrderly
  <1>2. Init => SenderServed
    <2>1. Init => W!Init
      BY DEF Init
    <2> QED BY <2>1, W!InitServed, LengthAssumption, SizeModAssumption, SizeAssumption,
               CallAssumption DEF SenderServed
  <1>3. Good /\ SenderServed /\ [Next]_vars => SenderServed'
    <2> SUFFICES ASSUME Good, SenderServed, [Next]_vars
                 PROVE  SenderServed'
      OBVIOUS
    <2>1. CASE \/ \E b \in Bidirectional : SenderChooses(b)
               \/ \E m \in Message : HandOver(m)
               \/ SenderStops
               \/ SenderWrites
      BY <2>1, SenderStaysServed
    <2>2. ASSUME UNCHANGED senderVars
          PROVE  SenderServed'
      BY <2>2 DEF senderVars, SenderServed, W!ServedInv
    <2>3. ((\E b \in Bidirectional : ReceiverChooses(b)) \/ ReceiverCalls \/ Lose \/ UNCHANGED vars)
             => UNCHANGED senderVars
      BY DEF ReceiverChooses, ReceiverCalls, Receives, Lose, vars
    <2> QED BY <2>1, <2>2, <2>3 DEF Next
  <1>4. SenderServed => SenderTakesIt
    BY DEF SenderServed, W!ServedInv, SenderTakesIt
  <1> QED BY <1>1, <1>2, <1>3, <1>4, PTL DEF Spec

=============================================================================
