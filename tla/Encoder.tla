------------------------------ MODULE Encoder ------------------------------
(***************************************************************************)
(* src/src/encoder.c: what is put on the wire next, and when; and the loop   *)
(* around it that reader.c and writer.c each have as _encoding().            *)
(***************************************************************************)
EXTENDS Buffers

EncoderState == {"control_ready", "control_start", "control_accept",
                 "control_finish", "frames", "control_stop", "done"}

NoDnstap == "no dnstap"  \* encoder.dnstap = 0

(***************************************************************************)
(* What the encoder in state s has to put on the wire, what it returns     *)
(* when that fits and the state it moves to.                               *)
(***************************************************************************)
Encoding(s, dnstap) ==
    LET ContentType == Cells(Field("dnstap")) IN
    CASE s = "control_ready" ->
           [cells |-> Cells(Control("READY", 1)) \o ContentType,
            res |-> "again", next |-> "control_start"]
      [] s = "control_start" ->
           [cells |-> Cells(Control("START", 1)) \o ContentType,
            res |-> "again", next |-> "frames"]
      [] s = "control_accept" ->
           [cells |-> Cells(Control("ACCEPT", 1)) \o ContentType,
            res |-> "again", next |-> "control_finish"]
      [] s = "control_finish" ->
           [cells |-> Cells(Control("FINISH", 0)), res |-> "endofdata", next |-> "done"]
      [] s = "frames" /\ dnstap # NoDnstap ->
           [cells |-> Cells(Frame(dnstap)), res |-> "ok", next |-> "frames"]
      [] s = "control_stop" ->
           [cells |-> Cells(Control("STOP", 0)), res |-> "endofdata", next |-> "done"]
      [] OTHER ->
           [cells |-> <<>>, res |-> "error", next |-> s]

(* dnswire_encoder_stop(): only the frames can be stopped.                  *)
CanStop(s) == s = "frames"

-----------------------------------------------------------------------------
(***************************************************************************)
(* _encoding(): encode at offset `at` of a block of `size` cells, and each *)
(* time there is no room expand the block and try again.  The loop passes  *)
(* through the sizes in Expansions and stops at the first one that fits,   *)
(* at max, or at a realloc() that fails.                                   *)
(***************************************************************************)
Expansions(size, inc, max) == {LeastOf(size + k * inc, max) : k \in 0..max}

(* What can come out of the loop: [res, state of the encoder, block, size,  *)
(* cells encoded].  No room at all, or no block, fails the assertions of    *)
(* dnswire_encoder_encode().                                                *)
EncodeLoop(s, dnstap, b, size, inc, max, at, allocMayFail) ==
    LET x == Encoding(s, dnstap)
        Fits(z) == Len(x.cells) <= z - at
        Sizes == Expansions(size, inc, max)
        Encoded(z) == [res |-> x.res, state |-> x.next, size |-> z, cells |-> x.cells,
                       buf |-> Overlay(Realloc(b, z), at, x.cells)]
        Failed(z, res) == [res |-> res, state |-> s, size |-> z, cells |-> <<>>,
                           buf |-> Realloc(b, z)]
    IN  IF b = <<>> \/ size <= at THEN {Failed(size, "abort")}
        ELSE {Encoded(z) : z \in {y \in Sizes : Fits(y) /\ \A v \in Sizes : Fits(v) => y <= v}}
               \cup {Failed(z, "error") : z \in {y \in Sizes :
                        /\ \A v \in Sizes : v <= y => ~Fits(v)
                        /\ y = max \/ allocMayFail}}

=============================================================================
