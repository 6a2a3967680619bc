------------------------------ MODULE MCWriter ------------------------------
(***************************************************************************)
(* Answers for model checking Writer.                                      *)
(***************************************************************************)
EXTENDS Writer

CONSTANTS m1, m2

(* ACCEPT as dnswire itself encodes it, and with two content types.         *)
Accept      == Encoding("control_accept", NoDnstap).cells
AcceptTwo   == Cells(Control("ACCEPT", 2)) \o Cells(Field("other")) \o Cells(Field("dnstap"))
AcceptOther == Cells(Control("ACCEPT", 1)) \o Cells(Field("other"))
NotAccept   == {AcceptOther, ReadyCells, FinishCells, Cells(Frame(m1)),
                Cells(Control("ACCEPT", 1)) \o Cells(Field("unknown"))}

GoodAccepts == {Accept, AcceptTwo}
AllAccepts  == GoodAccepts \cup NotAccept
=============================================================================
