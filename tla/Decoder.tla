------------------------------ MODULE Decoder ------------------------------
(***************************************************************************)
(* src/src/decoder.c: the state machine that turns the elements of a       *)
(* stream into the results the reader and the writer act upon.             *)
(***************************************************************************)
EXTENDS Tinyframe

DecoderState == {"reading_control", "checking_ready", "checking_accept",
                 "reading_start", "checking_start", "reading_frames",
                 "checking_finish", "done"}

DecoderType == [state  : DecoderState,
                reader : TinyReader,
                ready_support_dnstap_protobuf  : BOOLEAN,
                accept_support_dnstap_protobuf : BOOLEAN]

DecoderInit == [state  |-> "reading_control",
                reader |-> TinyReaderInit,
                ready_support_dnstap_protobuf  |-> FALSE,
                accept_support_dnstap_protobuf |-> FALSE]

(***************************************************************************)
(* What the decoder d returns for t, the result of tinyframe_read(), and   *)
(* the state it moves to.                                                  *)
(***************************************************************************)
Verdict(d, t) ==
    LET Is(s, r) == d.state = s /\ t.res = r
        what == t.el.what
        To(res, s) == [res |-> res, state |-> s]
        NoFieldLeft == t.reader.fields = 0
    IN
    CASE d.state # "done" /\ t.res = "need_more" ->
           To("need_more", d.state)
      [] Is("reading_control", "have_control") /\ what = "READY" ->
           To("again", "checking_ready")
      [] Is("reading_control", "have_control") /\ what = "ACCEPT" ->
           To("again", "checking_accept")
      [] d.state \in {"reading_control", "reading_start"} /\ t.res = "have_control"
           /\ what = "START" ->
           To("again", "checking_start")
      [] Is("checking_ready", "have_control_field") /\ what # "unknown" ->
           IF NoFieldLeft THEN To("bidirectional", "reading_start")
                          ELSE To("again", d.state)
      [] Is("checking_accept", "have_control_field") /\ what # "unknown" ->
           IF NoFieldLeft THEN To("bidirectional", "checking_finish")
                          ELSE To("again", d.state)
      [] Is("checking_start", "have_control_field") /\ what = "dnstap" ->
           To("again", "reading_frames")
      [] Is("reading_frames", "have_frame") /\ what # BadPayload ->
           To("have_dnstap", d.state)
      [] Is("reading_frames", "stopped") \/ Is("checking_finish", "finished") ->
           To("endofdata", "done")
      [] OTHER ->
           To("error", d.state)

(***************************************************************************)
(* One call of dnswire_decoder_decode() with the cells w (at least one:    *)
(* assert(len)).  The result holds what the call returns, the decoder      *)
(* after it, dnswire_decoder_decoded() and the message it unpacked.  The   *)
(* tinyframe reader moves on whatever the verdict, and the DNSTAP content  *)
(* type is noted when it is among those offered.                           *)
(***************************************************************************)
Decode(d, w) ==
    LET t == TinyRead(d.reader, w)
        v == Verdict(d, t)
        Offers(s) == d.state = s /\ t.res = "have_control_field" /\ t.el.what = "dnstap"
    IN  [res     |-> v.res,
         decoder |-> [state  |-> v.state,
                      reader |-> t.reader,
                      ready_support_dnstap_protobuf |->
                          d.ready_support_dnstap_protobuf \/ Offers("checking_ready"),
                      accept_support_dnstap_protobuf |->
                          d.accept_support_dnstap_protobuf \/ Offers("checking_accept")],
         n       |-> t.n,
         msg     |-> t.el.what]

=============================================================================
