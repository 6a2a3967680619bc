----------------------------- MODULE MCStreams -----------------------------
(***************************************************************************)
(* The cells of which the streams and files for model checking are made.   *)
(***************************************************************************)
EXTENDS Tinyframe

CONSTANTS m1, m2

ReadyWith(fields) == Cells(Control("READY", Len(fields)))
                       \o (IF Len(fields) = 1 THEN Cells(Field(fields[1]))
                           ELSE Cells(Field(fields[1])) \o Cells(Field(fields[2])))
StartWith(field)  == Cells(Control("START", 1)) \o Cells(Field(field))
Stop   == Cells(Control("STOP", 0))
Frames == Cells(Frame(m1)) \o Cells(Frame(m2))
Body   == StartWith("dnstap") \o Frames \o Stop
=============================================================================
