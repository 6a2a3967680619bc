--------------------------- MODULE MCReaderSender ---------------------------
(***************************************************************************)
(* Files and answers for model checking ReaderSender.                      *)
(***************************************************************************)
EXTENDS ReaderSender, MCStreams

(* A whole file, one that is cut at and inside a frame, one with a frame    *)
(* that does not unpack after one that does, one without a frame, none.     *)
MCFiles ==
    {Body, SubSeq(Body, 1, Len(Body) - 2), SubSeq(Body, 1, Len(Body) - 4),
     StartWith("dnstap") \o Cells(Frame(m1)) \o Cells(Frame(BadPayload)) \o Stop,
     StartWith("dnstap") \o Stop, <<>>}

Accept      == Encoding("control_accept", NoDnstap).cells
AcceptTwo   == Cells(Control("ACCEPT", 2)) \o Cells(Field("other")) \o Cells(Field("dnstap"))
AcceptOther == Cells(Control("ACCEPT", 1)) \o Cells(Field("other"))

GoodAccepts == {Accept, AcceptTwo}
AllAccepts  == GoodAccepts \cup {AcceptOther}
=============================================================================
