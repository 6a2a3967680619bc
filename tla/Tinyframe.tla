----------------------------- MODULE Tinyframe -----------------------------
(***************************************************************************)
(* The wire format and the Frame Streams parser of the external library    *)
(* tinyframe, as src/src/decoder.c and src/src/encoder.c use it.           *)
(*                                                                         *)
(* A stream is a sequence of elements: control headers, the fields that    *)
(* follow a control header, and data frames.  What the callers see is that *)
(* an element is a run of bytes that can only be parsed once all of it is  *)
(* there, so a byte is a pair <<element, index>>, called a cell, and an    *)
(* element is the sequence of its cells.  How long the elements are does   *)
(* not matter beyond being longer than nothing: the lengths are constants. *)
(***************************************************************************)
EXTENDS Integers, Sequences, FiniteSets

CONSTANTS Message,    \* the DNSTAP messages a frame can carry
          HeaderLen,  \* cells of a control header (12 bytes on the wire)
          FieldLen,   \* cells of a control field
          FrameLen    \* cells of a data frame

ASSUME LengthAssumption == /\ HeaderLen \in Nat \ {0}
                           /\ FieldLen \in Nat \ {0}
                           /\ FrameLen \in Nat \ {0}

ControlType == {"READY", "ACCEPT", "START", "STOP", "FINISH"}

(* What a field holds: the DNSTAP content type, a content type strncmp()    *)
(* tells apart from it, or a field of a type that is not CONTENT_TYPE.      *)
FieldValue == {"dnstap", "other", "unknown"}

(* A frame whose payload protobuf cannot unpack.                            *)
BadPayload == "bad payload"

Element ==
    [kind : {"control"}, what : ControlType, fields : Nat]
      \cup [kind : {"field"}, what : FieldValue, fields : {0}]
      \cup [kind : {"frame"}, what : Message \cup {BadPayload}, fields : {0}]
      \cup [kind : {"junk"}, what : {"junk"}, fields : {0}]

Control(type, n) == [kind |-> "control", what |-> type, fields |-> n]
Field(value)     == [kind |-> "field", what |-> value, fields |-> 0]
Frame(m)         == [kind |-> "frame", what |-> m, fields |-> 0]

Size(e) == CASE e.kind = "control" -> HeaderLen
             [] e.kind = "field"   -> FieldLen
             [] e.kind = "frame"   -> FrameLen
             [] OTHER              -> 1

Cell == Element \X Nat

(* Bytes nobody wrote: fresh memory, or memory outside an allocation.       *)
Junk == <<[kind |-> "junk", what |-> "junk", fields |-> 0], 0>>

Cells(e) == [i \in 1..Size(e) |-> <<e, i>>]

(* What s has at the positions in I, in their order: SelectSeq, put without  *)
(* recursion, for proofs.                                                   *)
Rank(I, i) == Cardinality({j \in I : j <= i})
Selected(s, I) == [k \in 1..Cardinality(I) |-> s[CHOOSE i \in I : Rank(I, i) = k]]

(* The payloads of the frames that begin in s.                              *)
Heads(s) == {i \in DOMAIN s : s[i][1].kind = "frame" /\ s[i][2] = 1}
Payloads(s) ==
    LET heads == Selected(s, Heads(s))
    IN  [k \in 1..Len(heads) |-> heads[k][1].what]

(* What is left of s when elements are taken out of it.                     *)
Subsequences(s) ==
    UNION {{[i \in 1..n |-> s[f[i]]] : f \in
              {g \in [1..n -> DOMAIN s] : \A i, j \in 1..n : i < j => g[i] < g[j]}} :
           n \in 0..Len(s)}

-----------------------------------------------------------------------------
(***************************************************************************)
(* An orderly stream, which is what a sender is to send: READY with the    *)
(* DNSTAP content type when there is a handshake, START with it, frames,   *)
(* STOP.  p is how many cells come before START.                           *)
(***************************************************************************)
StopElement == Control("STOP", 0)

(* The element e that begins at the i-th cell belongs there.                *)
Belongs(e, i, p) ==
    \/ p > 0 /\ i = 1 /\ e = Control("READY", 1)
    \/ p > 0 /\ i = HeaderLen + 1 /\ e = Field("dnstap")
    \/ i = p + 1 /\ e = Control("START", 1)
    \/ i = p + HeaderLen + 1 /\ e = Field("dnstap")
    \/ i > p + HeaderLen + FieldLen /\ e = StopElement
    \/ i > p + HeaderLen + FieldLen /\ \E m \in Message : e = Frame(m)

(* The element that begins at the i-th cell of s is all there, as far as s  *)
(* goes, and the next one follows, unless it is STOP.                       *)
Begins(s, i, p) ==
    LET e == s[i][1] IN
    /\ s[i][2] = 1
    /\ Belongs(e, i, p)
    /\ \A k \in 1..Size(e) : (i - 1) + k <= Len(s) => s[(i - 1) + k] = <<e, k>>
    /\ i + Size(e) <= Len(s) => s[i + Size(e)][2] = 1 /\ e # StopElement

Orderly(s, p) ==
    /\ \A i \in 1..Len(s) : s[i][2] = 1 => Begins(s, i, p)
    /\ \A i \in 1..Len(s) : \E k \in 1..i : s[k][2] = 1 /\ i < k + Size(s[k][1])

(* It ends with an element, or goes on after it, and STOP has not come.     *)
Complete(s) == \A i \in 1..Len(s) : s[i][2] = 1 => i + Size(s[i][1]) <= Len(s) + 1
Open(s) == \A i \in 1..Len(s) : s[i][1] # StopElement

-----------------------------------------------------------------------------
(***************************************************************************)
(* struct tinyframe_reader: which element is expected next, the type of    *)
(* the last control header and how many of its fields are left             *)
(* (control_length_left).                                                  *)
(***************************************************************************)
TinyReader == [expect : {"control", "field", "frame", "closed"},
               type   : ControlType,
               fields : Nat]

TinyReaderInit == [expect |-> "control", type |-> "READY", fields |-> 0]

(* After the last field of READY or ACCEPT another control header follows,  *)
(* after that of START the frames do.                                       *)
AfterFields(type) == IF type = "START" THEN "frame" ELSE "control"

(* The control header e, read where it is allowed.                          *)
ReadControl(r, e) ==
    IF e.what \in {"STOP", "FINISH"}
    THEN [res    |-> IF e.what = "STOP" THEN "stopped" ELSE "finished",
          reader |-> [r EXCEPT !.expect = "closed", !.type = e.what]]
    ELSE [res    |-> "have_control",
          reader |-> [expect |-> IF e.fields = 0 THEN AfterFields(e.what) ELSE "field",
                      type   |-> e.what,
                      fields |-> e.fields]]

ReadField(r) ==
    [res    |-> "have_control_field",
     reader |-> [r EXCEPT !.fields = @ - 1,
                          !.expect = IF r.fields = 1 THEN AfterFields(r.type) ELSE @]]

(* Is e an element the reader may meet?  Between the frames the only        *)
(* control that may come is STOP.                                           *)
Expected(r, e) ==
    \/ r.expect = "control" /\ e.kind = "control" /\ e.what # "STOP"
    \/ r.expect = "field" /\ e.kind = "field" /\ r.fields > 0
    \/ r.expect = "frame" /\ e.kind = "frame"
    \/ r.expect = "frame" /\ e.kind = "control" /\ e.what = "STOP"

Whole(w, e) == SubSeq(w, 1, Size(e)) = Cells(e)

(***************************************************************************)
(* tinyframe_read() on the cells w, which are at least one.  `n` is its    *)
(* bytes_read and `el` the element that was read.  Cells that are not a    *)
(* whole element from its first cell on are bytes that were misplaced:     *)
(* parsing them is an error.                                               *)
(***************************************************************************)
TinyRead(r, w) ==
    LET e == w[1][1]
        Result(x) == [res |-> x.res, reader |-> x.reader, el |-> e, n |-> Size(e)]
    IN  IF Len(w) < Size(e) THEN [res |-> "need_more", reader |-> r, el |-> e, n |-> 0]
        ELSE IF ~Whole(w, e) \/ ~Expected(r, e)
             THEN [res |-> "error", reader |-> r, el |-> e, n |-> 0]
        ELSE CASE e.kind = "control" -> Result(ReadControl(r, e))
               [] e.kind = "field"   -> Result(ReadField(r))
               [] OTHER              -> Result([res |-> "have_frame", reader |-> r])

=============================================================================
