------------------------- MODULE ReaderSenderProofs -------------------------
(***************************************************************************)
(* Proofs about ReaderSender, for every file, every answer of the peer,     *)
(* all sizes and every way the socket may fail.                            *)
(***************************************************************************)
EXTENDS ReaderSender, CodingProofs

(* No increment is so large that adding it to a size wraps around size_t.   *)
NoWrap == InitMax + InitInc < SizeMod /\ AnswerMax + AnswerInc < SizeMod

-----------------------------------------------------------------------------
(***************************************************************************)
(* The invariant.                                                          *)
(***************************************************************************)
LastRead == rdelivered[Len(rdelivered)]

(* Nothing that was read waits to be encoded, or the last message does and  *)
(* the pointer the writer has still leads to it.                            *)
CaughtUp == Payloads(wencoded) = rdelivered

Behind ==
    /\ rdelivered # <<>> /\ message = LastRead
    /\ rres = "have_dnstap"
    /\ Payloads(wencoded) = SubSeq(rdelivered, 1, Len(rdelivered) - 1)

(* Where the program is says whether there is a message to be encoded; and  *)
(* a message that was encoded cannot be encoded once more: the pointer to   *)
(* it stays where it is, but the loop reads on or the stream is stopped.    *)
RelayInv ==
    /\ message \in Message \cup {Freed}
    /\ shared = (rdelivered # <<>>)
    /\ pc \in {"init", "reading", "sending", "stop", "stopping", "exit"}
    /\ wbidirectional = (pc # "init")
    /\ pc = "init" => wres = "init" /\ rdelivered = <<>>
    /\ pc \in {"init", "reading"} =>
          /\ CaughtUp
          /\ wres \in {"init", "ok"}
          /\ shared => wencoder = "frames"
    /\ pc = "sending" => Behind
    /\ pc \in {"stop", "stopping", "exit"} => Behind \/ CaughtUp
    /\ pc = "stop" /\ shared => Behind \/ wencoder = "frames"
    /\ pc = "stopping" /\ shared => Behind \/ wencoder \in {"control_stop", "done"}

Parts == W!ProtocolInv /\ W!LengthInv /\ R!Inv /\ RelayInv

-----------------------------------------------------------------------------
(***************************************************************************)
(* What the instances define anew is what is defined here, but that the    *)
(* writer may have a message that was freed.                               *)
(***************************************************************************)
LEMMA SameCells == Cell \subseteq W!Cell /\ R!Cell = Cell
  <1>1. Element \subseteq W!Element
    BY DEF W!Element, Element, W!ControlType, ControlType, W!FieldValue, FieldValue,
           W!BadPayload, BadPayload
  <1>2. \A e : W!Size(e) = Size(e)
    BY DEF W!Size, Size
  <1>3. R!Cell = Cell
    BY DEF R!Cell, Cell, R!Element, Element, R!ControlType, ControlType, R!FieldValue,
           FieldValue, R!BadPayload, BadPayload
  <1>4. Cell \subseteq W!Cell
    BY <1>1, <1>2 DEF W!Cell, Cell
  <1> QED BY <1>3, <1>4

LEMMA SamePayloads == \A s : W!Payloads(s) = Payloads(s)
  BY DEF W!Payloads, Payloads, W!Selected, Selected, W!Rank, Rank, W!Heads, Heads,
         W!Cardinality, Cardinality

LEMMA AcceptsOK == Accepts \subseteq Seq(W!Cell)
  BY CallAssumption, SameCells

LEMMA FilesOK ==
    {[hello |-> f, body |-> <<>>] : f \in Files} \subseteq [hello : Seq(R!Cell), body : Seq(R!Cell)]
  <1>1. \A f \in Files : f \in Seq(R!Cell)
    BY CallAssumption, SameCells
  <1>2. <<>> \in Seq(R!Cell)
    OBVIOUS
  <1>3. ASSUME NEW f \in Files
        PROVE  [hello |-> f, body |-> <<>>] \in [hello : Seq(R!Cell), body : Seq(R!Cell)]
    BY <1>1, <1>2
  <1> HIDE DEF R!Cell
  <1> QED BY <1>3

-----------------------------------------------------------------------------
(***************************************************************************)
(* The last message of those that were read.                               *)
(***************************************************************************)
LEMMA AllButLast ==
    ASSUME NEW S, NEW s \in Seq(S), NEW m \in S
    PROVE  /\ Append(s, m) \in Seq(S) /\ Append(s, m) # <<>>
           /\ Len(Append(s, m)) = Len(s) + 1
           /\ Append(s, m)[Len(Append(s, m))] = m
           /\ SubSeq(Append(s, m), 1, Len(Append(s, m)) - 1) = s
  OBVIOUS

LEMMA LastBack ==
    ASSUME NEW S, NEW s \in Seq(S), s # <<>>
    PROVE  /\ SubSeq(s, 1, Len(s) - 1) \o <<s[Len(s)]>> = s
           /\ s[Len(s)] \in S /\ Len(s) \in Nat /\ Len(s) > 0
           /\ SubSeq(s, 1, Len(s) - 1) \in Seq(S)
           /\ Len(SubSeq(s, 1, Len(s) - 1)) = Len(s) - 1
           /\ SubSeq(s, 1, Len(s)) = s
  OBVIOUS

-----------------------------------------------------------------------------
(***************************************************************************)
(* The steps.                                                              *)
(***************************************************************************)
LEMMA InitParts ==
    ASSUME NoWrap, Init
    PROVE  Parts
  <1>1. W!Init /\ R!Init /\ pc = "init" /\ message = Freed /\ shared = FALSE
    BY DEF Init
  <1>2. W!ProtocolInv
    BY <1>1, W!InitProtocol, LengthAssumption, SizeModAssumption, SizeAssumption,
       CallAssumption, AcceptsOK
  <1>3. W!LengthInv
    BY <1>1, W!InitLength, LengthAssumption, SizeModAssumption, SizeAssumption,
       CallAssumption, AcceptsOK
  <1>4. R!NoWrap
    BY DEF NoWrap, R!NoWrap
  <1>5. R!Inv
    BY <1>1, <1>4, R!InitInv, LengthAssumption, SizeModAssumption, SizeAssumption,
       CallAssumption, FilesOK
  <1>6. RelayInv
    <2>1. /\ wencoded = <<>> /\ wres = "init" /\ wbidirectional = FALSE
          /\ rdelivered = <<>>
      BY <1>1 DEF W!Init, R!Init
    <2> QED BY <1>1, <2>1, PayloadsNone DEF RelayInv, CaughtUp
  <1> QED BY <1>2, <1>3, <1>5, <1>6 DEF Parts

(* A step of the writer or of its peer keeps what is proved of the writer.  *)
LEMMA WriterKeeps ==
    ASSUME NoWrap, W!ProtocolInv, W!LengthInv, [W!Next]_W!vars
    PROVE  W!ProtocolInv' /\ W!LengthInv'
  <1>1. W!NoWrap /\ W!Avoided /\ ~FALSE /\ W!Inv
    BY DEF NoWrap, W!NoWrap, W!Avoided, W!ProtocolInv
  <1>2. W!ProtocolInv'
    BY <1>1, W!NextProtocol, LengthAssumption, SizeModAssumption, SizeAssumption,
       CallAssumption, AcceptsOK
  <1>3. W!LengthInv'
    BY <1>1, W!NextLength, LengthAssumption, SizeModAssumption, SizeAssumption,
       CallAssumption, AcceptsOK
  <1> QED BY <1>2, <1>3

(* So does one of the reader for the reader, and a read delivers a message  *)
(* exactly if it says so.                                                   *)
LEMMA ReaderKeeps ==
    ASSUME NoWrap, R!Inv, [R!Next]_R!vars
    PROVE  R!Inv'
  <1>1. R!NoWrap
    BY DEF NoWrap, R!NoWrap
  <1> QED BY <1>1, R!NextInv, LengthAssumption, SizeModAssumption, SizeAssumption,
             CallAssumption, FilesOK

LEMMA ReadDelivers ==
    ASSUME NoWrap, R!Inv, R!Read
    PROVE  /\ R!Inv' /\ rdelivered \in Seq(Message)
           /\ \/ rres' # "have_dnstap" /\ rdelivered' = rdelivered
              \/ /\ rres' = "have_dnstap"
                 /\ \E m \in Message : rdelivered' = Append(rdelivered, m)
  <1>1. R!Inv'
    BY ReaderKeeps DEF R!Next
  <1>2. rdelivered \in Seq(Message) /\ rdelivered' \in Seq(Message)
    BY <1>1 DEF R!Inv, R!TypeOK
  <1>3. \/ rres' # "have_dnstap" /\ rdelivered' = rdelivered
        \/ rres' = "have_dnstap" /\ \E m : rdelivered' = Append(rdelivered, m)
    BY R!ReadObserved, LengthAssumption, SizeModAssumption, SizeAssumption,
       CallAssumption, FilesOK
  <1>4. ASSUME NEW m, rdelivered' = Append(rdelivered, m)
        PROVE  m \in Message
    <2>1. Len(rdelivered') = Len(rdelivered) + 1 /\ rdelivered'[Len(rdelivered) + 1] = m
          /\ Len(rdelivered) \in Nat
      BY <1>2, <1>4
    <2>2. Len(rdelivered) + 1 \in 1..Len(rdelivered')
      BY <2>1
    <2>3. \A i \in 1..Len(rdelivered') : rdelivered'[i] \in Message
      BY <1>2
    <2> QED BY <2>1, <2>2, <2>3
  <1> QED BY <1>1, <1>2, <1>3, <1>4

LEMMA BeginKeeps ==
    ASSUME NoWrap, Parts, Begin
    PROVE  Parts'
  <1>1. /\ pc = "init" /\ pc' = "reading" /\ W!SetBidirectional(TRUE)
        /\ UNCHANGED <<message, shared, readerVars>>
    BY DEF Begin
  <1>2. W!ProtocolInv' /\ W!LengthInv'
    BY <1>1, WriterKeeps DEF Parts, W!Next
  <1>3. R!Inv'
    <2>1. UNCHANGED R!vars
      BY <1>1 DEF readerVars, R!vars, R!inVars, R!outVars, R!bidirVars, R!peerVars, R!tuneVars
    <2> QED BY <2>1, ReaderKeeps DEF Parts
  <1>4. RelayInv'
    <2>1. wbidirectional' = TRUE /\ UNCHANGED <<wres, wencoded, rdelivered>>
      BY <1>1 DEF W!SetBidirectional, readerVars
    <2> QED BY <1>1, <2>1 DEF Parts, RelayInv, CaughtUp
  <1> QED BY <1>2, <1>3, <1>4 DEF Parts

(* What was read is behind what was encoded by then; a frame that does not  *)
(* unpack leaves a pointer to nothing, and the program stops.               *)
LEMMA ReadFileKeeps ==
    ASSUME NoWrap, Parts, ReadFile
    PROVE  Parts'
  <1>1. /\ pc = "reading" /\ R!Read /\ UNCHANGED <<up, writerVars>>
        /\ shared' = (shared \/ rres' = "have_dnstap")
        /\ message' = CASE rres' = "have_dnstap" -> rdelivered'[Len(rdelivered')]
                        [] UnpackFailed -> Freed
                        [] OTHER -> message
        /\ pc' = CASE rres' = "have_dnstap" -> "sending"
                   [] rres' \in {"again", "need_more"} -> "reading"
                   [] OTHER -> "stop"
    BY DEF ReadFile
  <1>2. /\ R!Inv' /\ rdelivered \in Seq(Message)
        /\ \/ rres' # "have_dnstap" /\ rdelivered' = rdelivered
           \/ /\ rres' = "have_dnstap"
              /\ \E m \in Message : rdelivered' = Append(rdelivered, m)
    BY <1>1, ReadDelivers DEF Parts
  <1>3. UNCHANGED <<wres, wencoder, wencoded, wbidirectional>>
    BY <1>1 DEF writerVars
  <1>4. /\ message \in Message \cup {Freed} /\ shared = (rdelivered # <<>>)
        /\ wbidirectional /\ CaughtUp /\ wres \in {"init", "ok"}
        /\ shared => wencoder = "frames"
    BY <1>1 DEF Parts, RelayInv
  <1>5. RelayInv' /\ shared' \in BOOLEAN /\ message' \in Message \cup {Freed}
    <2>1. ASSUME NEW m \in Message, rres' = "have_dnstap", rdelivered' = Append(rdelivered, m)
          PROVE  RelayInv' /\ shared' \in BOOLEAN /\ message' \in Message \cup {Freed}
      <3>1. pc' = "sending" /\ message' = rdelivered'[Len(rdelivered')]
        <4>1. rres' = "have_dnstap" /\ ~UnpackFailed
          BY <2>1 DEF UnpackFailed
        <4> QED BY <1>1, <4>1
      <3>4. shared' = TRUE
        BY <1>1, <2>1, Zenon
      <3>2. /\ rdelivered' # <<>> /\ rdelivered'[Len(rdelivered')] = m
            /\ SubSeq(rdelivered', 1, Len(rdelivered') - 1) = rdelivered
        BY <1>2, <2>1, AllButLast
      <3>3. Behind'
        BY <1>3, <1>4, <2>1, <3>1, <3>2 DEF Behind, LastRead, CaughtUp
      <3> QED BY <1>3, <1>4, <3>1, <3>2, <3>3, <3>4 DEF RelayInv
    <2>2. ASSUME rres' # "have_dnstap", rdelivered' = rdelivered
          PROVE  RelayInv' /\ shared' \in BOOLEAN /\ message' \in Message \cup {Freed}
      <3>1. pc' \in {"reading", "stop"} /\ message' \in {message, Freed} /\ shared' = shared
        BY <1>1, <1>4, <2>2
      <3>2. CaughtUp'
        BY <1>3, <1>4, <2>2 DEF CaughtUp
      <3> QED BY <1>3, <1>4, <2>2, <3>1, <3>2 DEF RelayInv
    <2> QED BY <1>2, <2>1, <2>2
  <1>6. W!ProtocolInv' /\ W!LengthInv'
    <2> DEFINE d == IF shared THEN message ELSE NoDnstap
    <2>1. UNCHANGED <<wstate, W!outVars, W!inVars, W!tuneVars, wbidirectional, wacked, wres, up>>
      BY <1>1 DEF writerVars, W!outVars, W!inVars, W!tuneVars
    <2>2. W!Between
      BY <1>4 DEF W!Between
    <2>3. CASE d' = d
      <3>1. UNCHANGED W!vars
        BY <2>1, <2>3 DEF W!vars, W!callVars
      <3> QED BY <3>1, WriterKeeps DEF Parts
    <2>4. CASE d' # d
      <3>1. d' \in Message \cup {Freed}
        BY <1>1, <1>4, <1>5, <2>4
      <3>2. W!SetDnstap(d')
        BY <2>1, <2>2 DEF W!SetDnstap
      <3>3. W!Next
        BY <3>1, <3>2 DEF W!Next
      <3> QED BY <3>3, WriterKeeps DEF Parts
    <2> QED BY <2>3, <2>4
  <1> QED BY <1>2, <1>5, <1>6 DEF Parts

(* A write encodes what the pointer leads to, or no message.                *)
LEMMA WriteEncodes ==
    ASSUME NoWrap, Parts, W!Write
    PROVE  /\ W!ProtocolInv' /\ W!LengthInv' /\ UNCHANGED wbidirectional
           /\ wencoder' \in {"control_stop", "done"} <=> wencoder \in {"control_stop", "done"}
           /\ \/ /\ shared /\ Payloads(wencoded') = Payloads(wencoded) \o <<message>>
                 /\ wencoder = "frames" /\ wencoder' = "frames"
                 /\ wres' \in {"ok", "error"}
              \/ Payloads(wencoded') = Payloads(wencoded) /\ wres' # "ok"
  <1> DEFINE c == [api |-> "write", len |-> 0, inlen |-> 0]
             d == IF shared THEN message ELSE NoDnstap
  <1>1. W!ProtocolInv' /\ W!LengthInv'
    BY WriterKeeps DEF Parts, W!Next
  <1>2. /\ W!NoWrap /\ W!Avoided /\ W!Inv
        /\ c \in [api : {"pop", "write"}, len : Nat, inlen : Nat] /\ W!Call(c)
    BY DEF NoWrap, W!NoWrap, W!Avoided, Parts, W!ProtocolInv, W!Write
  <1>3. /\ UNCHANGED wbidirectional
        /\ wencoder' \in {"control_stop", "done"} <=> wencoder \in {"control_stop", "done"}
    BY <1>2, W!CallObserved, LengthAssumption, SizeModAssumption, SizeAssumption,
       CallAssumption, AcceptsOK
  <1>4. PICK x \in Seq(W!Cell) :
           /\ wencoded' = wencoded \o x
           /\ \/ /\ W!Payloads(x) = <<d>> /\ d # W!NoDnstap
                 /\ wencoder = "frames" /\ wencoder' = "frames"
                 /\ wres' \in {"ok", "error"}
              \/ W!Payloads(x) = <<>> /\ wres' # "ok"
    <2> HIDE DEF c
    <2> QED BY <1>2, W!CallEncodes, LengthAssumption, SizeModAssumption, SizeAssumption,
               CallAssumption, AcceptsOK
  <1>5. Payloads(wencoded') = Payloads(wencoded) \o Payloads(x)
    <2>1. wencoded \in Seq(W!Cell)
      BY <1>2 DEF W!Inv, W!OutInv, W!Loaded
    <2>2. W!Payloads(wencoded \o x) = W!Payloads(wencoded) \o W!Payloads(x)
      BY <2>1, W!PayloadsConcat, LengthAssumption, SizeModAssumption, SizeAssumption,
         CallAssumption, AcceptsOK
    <2> QED BY <1>4, <2>2, SamePayloads
  <1>6. Payloads(wencoded) \o <<>> = Payloads(wencoded)
    <2>1. wencoded \in Seq(W!Cell)
      BY <1>2 DEF W!Inv, W!OutInv, W!Loaded
    <2>2. W!Payloads(wencoded) \in Seq((Message \cup {Freed}) \cup {W!BadPayload})
      BY <2>1, W!PayloadsAt, LengthAssumption, SizeModAssumption, SizeAssumption,
         CallAssumption, AcceptsOK
    <2> QED BY <2>2, SamePayloads
  <1> QED BY <1>1, <1>3, <1>4, <1>5, <1>6, SamePayloads DEF W!NoDnstap, NoDnstap

(* With the message the program was behind by, nothing is left to encode.   *)
LEMMA CatchUp ==
    ASSUME Parts, Behind, Payloads(wencoded') = Payloads(wencoded) \o <<message>>,
           UNCHANGED rdelivered
    PROVE  CaughtUp'
  <1>1. rdelivered \in Seq(Message) /\ rdelivered # <<>>
    BY DEF Parts, R!Inv, R!TypeOK, Behind
  <1>2. SubSeq(rdelivered, 1, Len(rdelivered) - 1) \o <<rdelivered[Len(rdelivered)]>> = rdelivered
    BY <1>1, LastBack
  <1> QED BY <1>2 DEF Behind, LastRead, CaughtUp

(* What a step leaves to the reader and to the program.                     *)
LEMMA ReaderStays ==
    ASSUME NoWrap, Parts, UNCHANGED readerVars
    PROVE  R!Inv' /\ UNCHANGED <<rdelivered, rres>>
  <1>1. UNCHANGED R!vars
    BY DEF readerVars, R!vars, R!inVars, R!outVars, R!bidirVars, R!peerVars, R!tuneVars
  <1>2. UNCHANGED <<rdelivered, rres>>
    BY DEF readerVars
  <1> QED BY <1>1, <1>2, ReaderKeeps DEF Parts

LEMMA SendMessageKeeps ==
    ASSUME NoWrap, Parts, SendMessage
    PROVE  Parts'
  <1>1. /\ pc = "sending" /\ UNCHANGED <<message, shared, readerVars>> /\ W!Write
        /\ pc' = CASE wres' \in {"again", "blocked", "abort"} -> "sending"
                   [] wres' = "ok" -> "reading"
                   [] OTHER -> "stop"
    BY DEF SendMessage, Unfinished
  <1>2. /\ W!ProtocolInv' /\ W!LengthInv' /\ UNCHANGED wbidirectional
        /\ \/ /\ Payloads(wencoded') = Payloads(wencoded) \o <<message>>
              /\ wencoder' = "frames" /\ wres' \in {"ok", "error"}
           \/ Payloads(wencoded') = Payloads(wencoded) /\ wres' # "ok"
    BY <1>1, WriteEncodes
  <1>3. R!Inv' /\ UNCHANGED <<rdelivered, rres>>
    BY <1>1, ReaderStays
  <1>4. /\ Behind /\ wbidirectional /\ message \in Message \cup {Freed}
        /\ shared = (rdelivered # <<>>)
    BY <1>1 DEF Parts, RelayInv
  <1>5. CASE /\ Payloads(wencoded') = Payloads(wencoded) \o <<message>>
             /\ wencoder' = "frames" /\ wres' \in {"ok", "error"}
    <2>1. CaughtUp'
      BY <1>3, <1>4, <1>5, CatchUp
    <2>2. pc' \in {"reading", "stop"} /\ (pc' = "reading" => wres' = "ok")
      BY <1>1, <1>5
    <2>3. RelayInv'
      BY <1>1, <1>2, <1>3, <1>4, <1>5, <2>1, <2>2 DEF RelayInv
    <2> QED BY <1>2, <1>3, <2>3 DEF Parts
  <1>6. CASE Payloads(wencoded') = Payloads(wencoded) /\ wres' # "ok"
    <2>1. Behind'
      BY <1>1, <1>3, <1>4, <1>6 DEF Behind, LastRead
    <2>2. pc' \in {"sending", "stop"}
      BY <1>1, <1>6
    <2>3. RelayInv'
      BY <1>1, <1>2, <1>3, <1>4, <2>1, <2>2 DEF RelayInv
    <2> QED BY <1>2, <1>3, <2>3 DEF Parts
  <1> QED BY <1>2, <1>5, <1>6

(* The stream is stopped, and then no frame is encoded; or dnswire_writer_  *)
(* stop() has failed, and the last message may still be.                    *)
LEMMA StopStreamKeeps ==
    ASSUME NoWrap, Parts, StopStream
    PROVE  Parts'
  <1>1. /\ pc = "stop" /\ pc' = "stopping" /\ UNCHANGED <<message, shared, readerVars>>
        /\ \/ W!StopCall
           \/ wencoder # "frames" /\ UNCHANGED <<writerVars, up>>
    BY DEF StopStream, CanStop
  <1>2. R!Inv' /\ UNCHANGED <<rdelivered, rres>>
    BY <1>1, ReaderStays
  <1>3. /\ wbidirectional /\ message \in Message \cup {Freed}
        /\ shared = (rdelivered # <<>>)
        /\ Behind \/ CaughtUp
        /\ shared => Behind \/ wencoder = "frames"
    BY <1>1 DEF Parts, RelayInv
  <1>4. CASE W!StopCall
    <2>1. wencoder' = "control_stop" /\ UNCHANGED <<wencoded, wbidirectional>>
      BY <1>4 DEF W!StopCall, W!callVars
    <2>2. W!ProtocolInv' /\ W!LengthInv'
      BY <1>4, WriterKeeps DEF Parts, W!Next
    <2>3. Behind' \/ CaughtUp'
      BY <1>1, <1>2, <1>3, <2>1 DEF Behind, CaughtUp, LastRead
    <2>4. RelayInv'
      BY <1>1, <1>2, <1>3, <2>1, <2>3 DEF RelayInv
    <2> QED BY <1>2, <2>2, <2>4 DEF Parts
  <1>5. CASE wencoder # "frames" /\ UNCHANGED <<writerVars, up>>
    <2>1. UNCHANGED W!vars
      BY <1>1, <1>5 DEF writerVars, W!vars, W!outVars, W!inVars, W!tuneVars, W!callVars
    <2>2. W!ProtocolInv' /\ W!LengthInv'
      BY <2>1, WriterKeeps DEF Parts
    <2>3. UNCHANGED <<wencoded, wbidirectional>>
      BY <1>5 DEF writerVars
    <2>4. Behind' \/ CaughtUp'
      BY <1>1, <1>2, <1>3, <2>3 DEF Behind, CaughtUp, LastRead
    <2>5. shared => Behind'
      BY <1>1, <1>2, <1>3, <1>5, <2>3 DEF Behind, LastRead
    <2>6. RelayInv'
      BY <1>1, <1>2, <1>3, <2>3, <2>4, <2>5 DEF RelayInv
    <2> QED BY <1>2, <2>2, <2>6 DEF Parts
  <1> QED BY <1>1, <1>4, <1>5

LEMMA SendStopKeeps ==
    ASSUME NoWrap, Parts, SendStop
    PROVE  Parts'
  <1>1. /\ pc = "stopping" /\ UNCHANGED <<message, shared, readerVars>> /\ W!Write
        /\ pc' = IF wres' \in {"again", "blocked", "abort"} THEN "stopping" ELSE "exit"
    BY DEF SendStop, Unfinished
  <1>2. /\ W!ProtocolInv' /\ W!LengthInv' /\ UNCHANGED wbidirectional
        /\ wencoder' \in {"control_stop", "done"} <=> wencoder \in {"control_stop", "done"}
        /\ \/ /\ shared /\ Payloads(wencoded') = Payloads(wencoded) \o <<message>>
              /\ wencoder = "frames" /\ wres' \in {"ok", "error"}
           \/ Payloads(wencoded') = Payloads(wencoded)
    BY <1>1, WriteEncodes
  <1>3. R!Inv' /\ UNCHANGED <<rdelivered, rres>>
    BY <1>1, ReaderStays
  <1>4. /\ wbidirectional /\ message \in Message \cup {Freed}
        /\ shared = (rdelivered # <<>>)
        /\ Behind \/ CaughtUp
        /\ shared => Behind \/ wencoder \in {"control_stop", "done"}
    BY <1>1 DEF Parts, RelayInv
  <1>5. CASE /\ shared /\ Payloads(wencoded') = Payloads(wencoded) \o <<message>>
             /\ wencoder = "frames" /\ wres' \in {"ok", "error"}
    <2>1. CaughtUp'
      BY <1>3, <1>4, <1>5, CatchUp
    <2>2. pc' = "exit"
      BY <1>1, <1>5
    <2>3. RelayInv'
      BY <1>1, <1>2, <1>3, <1>4, <2>1, <2>2 DEF RelayInv
    <2> QED BY <1>2, <1>3, <2>3 DEF Parts
  <1>6. CASE Payloads(wencoded') = Payloads(wencoded)
    <2>1. (Behind => Behind') /\ (CaughtUp => CaughtUp')
      BY <1>1, <1>3, <1>6 DEF Behind, CaughtUp, LastRead
    <2>2. pc' \in {"stopping", "exit"}
      BY <1>1
    <2>3. RelayInv'
      BY <1>1, <1>2, <1>3, <1>4, <2>1, <2>2 DEF RelayInv
    <2> QED BY <1>2, <1>3, <2>3 DEF Parts
  <1> QED BY <1>2, <1>5, <1>6

LEMMA PeerKeeps ==
    ASSUME NoWrap, Parts, Peer
    PROVE  Parts'
  <1>1. UNCHANGED <<pc, message, shared, readerVars>> /\ (W!PeerAccept \/ W!PeerFinish)
    BY DEF Peer
  <1>2. W!ProtocolInv' /\ W!LengthInv'
    BY <1>1, WriterKeeps DEF Parts, W!Next
  <1>3. R!Inv' /\ UNCHANGED <<rdelivered, rres>>
    BY <1>1, ReaderStays
  <1>4. UNCHANGED <<wencoder, wencoded, wbidirectional, wres>>
    BY <1>1 DEF W!PeerAccept, W!PeerFinish, W!outVars, W!callVars
  <1>5. RelayInv'
    BY <1>1, <1>3, <1>4 DEF Parts, RelayInv, Behind, CaughtUp, LastRead
  <1> QED BY <1>2, <1>3, <1>5 DEF Parts

LEMMA StutterKeeps ==
    ASSUME NoWrap, Parts, UNCHANGED vars
    PROVE  Parts'
  <1>1. UNCHANGED <<pc, message, shared, up, writerVars, readerVars>>
    BY DEF vars
  <1>2. W!ProtocolInv' /\ W!LengthInv'
    <2>1. UNCHANGED W!vars
      BY <1>1 DEF writerVars, W!vars, W!outVars, W!inVars, W!tuneVars, W!callVars
    <2> QED BY <2>1, WriterKeeps DEF Parts
  <1>3. R!Inv' /\ UNCHANGED <<rdelivered, rres>>
    BY <1>1, ReaderStays
  <1>4. RelayInv'
    BY <1>1, <1>3 DEF Parts, RelayInv, Behind, CaughtUp, LastRead, writerVars
  <1> QED BY <1>2, <1>3, <1>4 DEF Parts

(* The invariant holds in every state the program reaches.                  *)
THEOREM Invariance ==
    ASSUME NoWrap
    PROVE  Spec => []Parts
  <1>1. Parts /\ [Next]_vars => Parts'
    BY BeginKeeps, ReadFileKeeps, SendMessageKeeps, StopStreamKeeps, SendStopKeeps, PeerKeeps,
       StutterKeeps DEF Next, Program, Exited
  <1>2. Init => Parts
    BY InitParts
  <1> QED BY <1>1, <1>2, PTL DEF Spec

-----------------------------------------------------------------------------
(***************************************************************************)
(* What the peer gets.                                                     *)
(***************************************************************************)
(* What was encoded is what was read, or all of it but the last message.    *)
LEMMA Forwarded ==
    ASSUME Parts
    PROVE  /\ rdelivered \in Seq(Message) /\ Len(rdelivered) \in Nat
           /\ \/ Payloads(wencoded) = SubSeq(rdelivered, 1, Len(rdelivered))
              \/ /\ Len(rdelivered) > 0 /\ rres = "have_dnstap"
                 /\ Payloads(wencoded) = SubSeq(rdelivered, 1, Len(rdelivered) - 1)
  <1>1. rdelivered \in Seq(Message) /\ Len(rdelivered) \in Nat
    BY DEF Parts, R!Inv, R!TypeOK
  <1>2. CaughtUp \/ Behind
    BY DEF Parts, RelayInv
  <1>3. SubSeq(rdelivered, 1, Len(rdelivered)) = rdelivered
    BY <1>1
  <1>4. rdelivered # <<>> => Len(rdelivered) > 0
    BY <1>1
  <1> QED BY <1>1, <1>2, <1>3, <1>4 DEF CaughtUp, Behind

(* The writer follows a pointer into the reader, and yet encodes the        *)
(* messages of the file, each at most once and in their order, and never    *)
(* one that was freed (reader_sender.c:141-187; decoder.c:168-171).          *)
THEOREM ForwardsInOrder ==
    ASSUME NoWrap
    PROVE  Spec => []ForwardedInOrder
  <1>1. ASSUME Parts
        PROVE  ForwardedInOrder
    <2> DEFINE N == Len(rdelivered)
    <2>1. /\ N \in Nat
          /\ \/ Payloads(wencoded) = SubSeq(rdelivered, 1, N)
             \/ N > 0 /\ Payloads(wencoded) = SubSeq(rdelivered, 1, N - 1)
      BY <1>1, Forwarded
    <2>2. N \in 0..N /\ (N > 0 => N - 1 \in 0..N)
      BY <2>1
    <2> HIDE DEF N
    <2>3. \E n \in 0..N : Payloads(wencoded) = SubSeq(rdelivered, 1, n)
      BY <2>1, <2>2
    <2> QED BY <2>3 DEF ForwardedInOrder, N
  <1>2. Parts => ForwardedInOrder
    BY <1>1
  <1> QED BY <1>2, Invariance, PTL

(* When the writer has said that the stream is over, the peer has all that  *)
(* was encoded: a READY, a START, the messages and a STOP, and no more.     *)
LEMMA EndedWhole ==
    ASSUME NoWrap, Parts, pc = "exit", wres = "endofdata"
    PROVE  /\ down = wencoded /\ W!EndsWith(down, W!StopCells)
           /\ Len(down) = Len(W!ReadyCells \o W!StartCells \o W!StopCells)
                            + FrameLen * Len(Payloads(wencoded))
  <1>1. /\ W!Inv /\ W!EndInv /\ W!LengthInv /\ wbidirectional /\ wstate = "done"
    BY DEF Parts, W!ProtocolInv, W!EndInv, RelayInv
  <1>2. wleft = 0 /\ wencoder = "done"
    BY <1>1 DEF W!Inv, W!StateInv, W!EncoderIn, W!Empty
  <1>3. down = wencoded
    <2>1. /\ down \in Seq(W!Cell) /\ down \o W!Slice(wbuf, wat - wleft, wleft) = wencoded
      BY <1>1 DEF W!Inv, W!OutInv, W!Loaded
    <2>2. W!Slice(wbuf, wat - wleft, wleft) = <<>>
      BY <1>2, W!SliceEmpty, LengthAssumption, SizeModAssumption, SizeAssumption,
         CallAssumption, AcceptsOK
    <2> QED BY <2>1, <2>2
  <1>4. W!EndsWith(down, W!StopCells)
    BY <1>1, <1>2, <1>3 DEF W!EndInv
  <1> DEFINE r == W!ReadyCells
             s == W!StartCells
             t == W!StopCells
  <1>5. /\ r \in Seq(W!Cell) /\ Len(r) = HeaderLen + FieldLen
        /\ s \in Seq(W!Cell) /\ Len(s) = HeaderLen + FieldLen
        /\ t \in Seq(W!Cell) /\ Len(t) = HeaderLen
    <2>1. \A e \in W!EncoderState : W!Encoding(e, W!NoDnstap).cells \in Seq(W!Cell)
      BY W!EncodingType, LengthAssumption, SizeModAssumption, SizeAssumption,
         CallAssumption, AcceptsOK
    <2>2. /\ Len(W!Encoding("control_ready", W!NoDnstap).cells) = W!ContentLen
          /\ Len(W!Encoding("control_start", W!NoDnstap).cells) = W!ContentLen
          /\ Len(W!Encoding("control_stop", W!NoDnstap).cells) = HeaderLen
      BY W!EncodingLengths, LengthAssumption, SizeModAssumption, SizeAssumption,
         CallAssumption, AcceptsOK
    <2> QED BY <2>1, <2>2 DEF W!EncoderState, W!ReadyCells, W!StartCells, W!StopCells, W!ContentLen
  <1> HIDE DEF r, s, t
  <1>6. Len(r \o s \o t) = (Len(r) + Len(s)) + Len(t)
    <2>1. \A u, v \in Seq(W!Cell) : u \o v \in Seq(W!Cell) /\ Len(u \o v) = Len(u) + Len(v)
      OBVIOUS
    <2> QED BY <1>5, <2>1
  <1>7. Len(wencoded) = W!Before + W!ContentLen + FrameLen * Len(Payloads(wencoded)) + HeaderLen
    BY <1>1, <1>2, SamePayloads DEF W!LengthInv, W!EncodedLen
  <1>8. /\ W!Before = HeaderLen + FieldLen /\ W!ContentLen = HeaderLen + FieldLen
        /\ HeaderLen \in Nat /\ FieldLen \in Nat
    BY <1>1, LengthAssumption DEF W!Before, W!ContentLen
  <1>9. FrameLen * Len(Payloads(wencoded)) \in Int
    <2>1. Len(Payloads(wencoded)) \in Nat
      <3>1. rdelivered \in Seq(Message) /\ (CaughtUp \/ Behind)
        BY DEF Parts, R!Inv, R!TypeOK, RelayInv
      <3>2. \A n \in Int : Len(SubSeq(rdelivered, 1, n)) \in Nat
        BY <3>1
      <3> QED BY <3>1, <3>2 DEF CaughtUp, Behind
    <2> QED BY <2>1, LengthAssumption
  <1>10. ASSUME NEW k \in Int, Len(wencoded) = W!Before + W!ContentLen + k + HeaderLen
         PROVE  Len(wencoded) = Len(r \o s \o t) + k
    BY <1>5, <1>6, <1>8, <1>10
  <1>11. Len(wencoded) = Len(r \o s \o t) + FrameLen * Len(Payloads(wencoded))
    BY <1>7, <1>9, <1>10
  <1> QED BY <1>3, <1>4, <1>11 DEF r, s, t

(* When the peer has seen the stream end, also after an error of the socket *)
(* or in the file, it has one whole stream with all that was read from the  *)
(* file, but for the message that met the error (reader_sender.c:141-210).  *)
THEOREM WholeForPeer ==
    ASSUME NoWrap
    PROVE  Spec => []WholeWhenStopped
  <1>1. ASSUME Parts, pc = "exit", wres = "endofdata"
        PROVE  \E lost \in (IF rres = "have_dnstap" THEN {0, 1} ELSE {0}) :
                  LET n == Len(rdelivered) - lost IN
                  /\ Payloads(down) = SubSeq(rdelivered, 1, n)
                  /\ Len(down) = Len(W!ReadyCells \o W!StartCells \o W!StopCells) + FrameLen * n
                  /\ W!EndsWith(down, W!StopCells)
    <2> DEFINE N == Len(rdelivered)
               h == Len(W!ReadyCells \o W!StartCells \o W!StopCells)
               G(n) == /\ Payloads(down) = SubSeq(rdelivered, 1, n)
                       /\ Len(down) = h + FrameLen * n
                       /\ W!EndsWith(down, W!StopCells)
    <2>1. /\ down = wencoded /\ W!EndsWith(down, W!StopCells)
          /\ Len(down) = h + FrameLen * Len(Payloads(wencoded))
      BY <1>1, EndedWhole
    <2>2. /\ rdelivered \in Seq(Message) /\ N \in Nat
          /\ \/ Payloads(wencoded) = SubSeq(rdelivered, 1, N)
             \/ /\ N > 0 /\ rres = "have_dnstap"
                /\ Payloads(wencoded) = SubSeq(rdelivered, 1, N - 1)
      BY <1>1, Forwarded
    <2>3. \A n \in 0..N : Len(SubSeq(rdelivered, 1, n)) = n
      BY <2>2
    <2>4. N - 0 = N /\ N \in 0..N /\ (N > 0 => N - 1 \in 0..N)
      BY <2>2
    <2> HIDE DEF N, h
    <2>5. CASE Payloads(wencoded) = SubSeq(rdelivered, 1, N)
      <3>1. G(N - 0)
        BY <2>1, <2>3, <2>4, <2>5
      <3> QED BY <3>1 DEF N, h
    <2>6. CASE /\ N > 0 /\ rres = "have_dnstap"
               /\ Payloads(wencoded) = SubSeq(rdelivered, 1, N - 1)
      <3>1. G(N - 1)
        BY <2>1, <2>3, <2>4, <2>6
      <3> QED BY <2>6, <3>1 DEF N, h
    <2> QED BY <2>2, <2>5, <2>6
  <1>2. Parts => WholeWhenStopped
    BY <1>1 DEF WholeWhenStopped
  <1> QED BY <1>2, Invariance, PTL

=============================================================================
