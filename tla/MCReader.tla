------------------------------ MODULE MCReader ------------------------------
(***************************************************************************)
(* Streams for model checking Reader.                                      *)
(***************************************************************************)
EXTENDS Reader, MCStreams

(* A sender without and one with a handshake, with one and two content      *)
(* types in its READY.                                                      *)
OneWay    == [hello |-> <<>>, body |-> Body]
Handshake == [hello |-> ReadyWith(<<"dnstap">>), body |-> Body]
TwoTypes  == [hello |-> ReadyWith(<<"other", "dnstap">>), body |-> Body]

(* Senders the reader has to refuse or cannot follow: another content type, *)
(* a frame that does not unpack, a stream cut inside a frame, an ACCEPT     *)
(* where a READY belongs, more frames after STOP, a stream that goes on     *)
(* although its READY was refused.                                          *)
NotDnstap == {[hello |-> ReadyWith(<<"other">>), body |-> Body],
              [hello |-> <<>>, body |-> StartWith("other") \o Stop],
              [hello |-> ReadyWith(<<"unknown">>), body |-> <<>>]}
Broken == {[hello |-> <<>>, body |-> StartWith("dnstap") \o Cells(Frame(m1))
                                       \o Cells(Frame(BadPayload)) \o Stop],
           [hello |-> <<>>, body |-> StartWith("dnstap") \o SubSeq(Frames, 1, FrameLen + 1)],
           [hello |-> Cells(Control("ACCEPT", 1)) \o Cells(Field("dnstap")), body |-> <<>>],
           [hello |-> <<>>, body |-> Body \o Frames],
           [hello |-> <<>>, body |-> ReadyWith(<<"other">>) \o Body]}

WholeStreams == {OneWay, Handshake, TwoTypes}
AllStreams   == WholeStreams \cup NotDnstap \cup Broken
=============================================================================
