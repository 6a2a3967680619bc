# Verification of dnswire

TLA+ models of dnswire, a C library that reads and writes DNSTAP messages in
Frame Streams, and of the programs in its `examples`; TLC configurations that
check them on small instances; TLAPS proofs, for every instance, about the reader,
the writer, the two of them on one connection, struct dnstap, the libuv daemon with
its receiver, and what a stream promises. All paths are relative to the repository;
`reader.c` and the like are in `src/src/`.

    tlc -config MCReaderCalls.cfg MCReader      # one run; see "The runs"
    tlapm ReaderProofs.tla                      # the proofs; see "The theorems"

## 1. The system

A *sender* runs a **writer**, a *receiver* a **reader**. The wire carries
control frames and data frames: START, frames, STOP; or, with the optional
handshake (*bidirectional*), READY, then ACCEPT back, then START, frames, STOP,
and FINISH back. There are no threads. The difficulty is in the *pieces*: any
call may take or give any number of bytes, so the state machines stop and resume
in the middle of everything, and the caller configures them in between. Around
the state machines are loops and callbacks that act on what the calls return.

| component | state | operations | interacts with |
|---|---|---|---|
| reader (`reader.c`) | `state` (9 values), input buffer `buf/size/inc/max/at/left/pushed`, answer buffer `write_*`, two bidirectional flags | init, allow_bidirectional, set_bufsize/inc/max, push, read, fread | calls decoder and encoder; reads from the caller or read(2); gives the answer to the caller or write(2) |
| writer (`writer.c`) | `state` (12 values), output buffer `buf/size/inc/max/at/left/popped`, answer buffer `read_*`, `bidirectional` | init, set_bidirectional, set_dnstap, set_bufsize/inc/max, pop, write, stop | calls encoder and decoder; the other way round |
| decoder (`decoder.c`) | `state` (8 values), a tinyframe reader, two flags for what was offered, the unpacked message | decode | calls tinyframe and dnstap |
| encoder (`encoder.c`) | `state` (7 values), a reference to the message | encode, stop | calls tinyframe and dnstap |
| tinyframe (external) | which element comes next, how much of a control frame is left | read, write_control, write_frame | |
| dnstap (`dnstap.c`, `dnswire/dnstap.h`, `gen-macros.sh`) | the unpacked object, copies of its parts, pointers between them, what was allocated | initialise, setters, use/clear policy, decode, accessors, encode, cleanup | protobuf-c code; decoder, encoder and the caller share one struct |
| sender and receiver (`sender.c`, `receiver.c`, `writer.c`, `reader.c` in `src/examples/`) | a socket | a loop around a writer, one around a reader | each other, over a connection that may break |
| reader_sender | a file, a socket | two loops around a reader and a writer | the writer is given a pointer into the reader |
| libuv daemon and client | the list of clients; for each a state, a handle, a buffer | callbacks: new connection, tick, read, write done, close | each other, through libuv's loop; the client through a reader |

What makes each correct:

* **reader**: it stays inside its buffers, gives the decoder exactly the bytes
  that came, once and in order, never calls the decoder with nothing (an
  `assert`), delivers each message once, asks for more only when it needs more
  and has taken what it was given, answers with ACCEPT and FINISH and nothing else.
* **writer**: it stays inside its buffers; what the peer gets is what was encoded,
  each message once; nothing follows READY before an acceptable ACCEPT; the
  end is reported when everything is out.
* **decoder, encoder**: the protocol order, and that progress is reported when
  bytes were consumed.
* **sender with receiver**: every message that was reported written arrives, once
  and in order; nobody takes part of a stream for the whole; neither waits for the
  other for ever.
* **dnstap**: no use of an object after it was freed; what the accessors show is
  what is encoded.
* **reader_sender**: every message of the file is sent, none after it was freed,
  and the program ends.
* **libuv examples**: every handle is closed once; a buffer is not written over
  while it waits; one client does not stop the others; the receiver keeps up.

The behaviours that are hard to test are listed, with the line where each bites,
in `PROJECT.json` under `hazards`; the properties are written for them.

## 2. The modules

| module | models | builds on |
|---|---|---|
| `Tinyframe` | the wire format, `tinyframe_read()` (external, as decoder.c uses it), what an orderly stream is | |
| `Buffers` | memcpy, memmove, realloc and size_t arithmetic on blocks | `Tinyframe` |
| `Decoder` | `dnswire_decoder_decode()` as a function of a decoder and a window | `Tinyframe` |
| `Encoder` | `dnswire_encoder_encode()`, `_stop()`, and the loop `_encoding()` of reader.c and writer.c | `Buffers` |
| `Reader` | the reader, and a peer that sends to it | `Decoder`, `Encoder` |
| `Writer` | the writer, and a peer that answers it | `Decoder`, `Encoder` |
| `FrameStream` | abstract: what a sender and a receiver promise together | |
| `Session` | sender.c and receiver.c on one connection | instances of `Writer` and `Reader`, with their theorems; implements `FrameStream` |
| `ReaderSender` | reader_sender.c, its file and its peer | instances of `Writer` and `Reader`, with their theorems |
| `Dnstap` | struct dnstap, its pointers, copies and setters | |
| `UvDaemon` | daemon_sender_uv.c on the event loop | `Encoder` |
| `UvSession` | client_receiver_uv.c on a connection of the daemon | `UvDaemon`, an instance of `Reader` with its theorems |
| `MCStreams`, `MCReader`, `MCWriter`, `MCSession`, `MCReaderSender`, `MCUvSession` | the streams, files and answers TLC tries | |
| `CodingProofs` | lemmas: blocks of memory, the encoding loop, sequences and their payloads, what one decode returns | TLAPS, `Decoder`, `Encoder` |
| `ReaderProofs`, `WriterProofs` | theorems about `Reader` and `Writer` | `CodingProofs` |
| `SessionProofs` | theorems about `Session`, from those of its two parts | `Session`, `CodingProofs` |
| `ReaderSenderProofs` | theorems about `ReaderSender`, from those of its two parts | `ReaderSender`, `CodingProofs` |
| `UvSessionProofs` | theorems about `UvDaemon` and `UvSession`; the receiver from those of `Reader` | `UvSession`, `CodingProofs` |
| `DnstapProofs`, `FrameStreamProofs` | theorems about `Dnstap` and `FrameStream` | TLAPS |

### How bytes are modelled

What the code sees of the bytes is that an element (a control header, a control
field, a data frame) can be parsed only when all of it is there. So a byte is a
*cell* `<<element, index>>`, an element is the sequence of its cells, and the
lengths are the constants `HeaderLen`, `FieldLen`, `FrameLen`. A block of memory
is a sequence of cells exactly as long as the allocation. Reading outside a
block, or fresh memory, yields `Junk`; writing outside it is lost. A window that
does not start with a whole, correctly ordered element is an error of
tinyframe, so an offset that has gone wrong shows up, as a wrong stream or as an
error. A content type is `"dnstap"`, `"other"` (strncmp tells it apart) or
`"unknown"` (the field is not a content type); a payload is a message or
`BadPayload`, which protobuf cannot unpack. The strncmp of decoder.c is bounded
by the length of the *field*, so a proper prefix of the DNSTAP content type
counts as `"dnstap"`.

### Reader and Writer

The C structs are spread over variables with the fields' names. `res` is what the
last push, read, pop or write returned (`"abort"`: an assertion failed). History
variables, which no guard of the code reads, make the properties sayable:
`input` (all cells the peer has sent), `taken` (how many the component was
given), `decoded` (how many its decoder went through), `out` (all cells it has
given back), `delivered`, `encoded`, `acked`.

One action is one call of the API, the whole of it: `Push(n, outlen)`, `Read`,
`Pop(len, inlen)`, `Write`, and one action for each configuration call. Each
state of the switch is a disjunct, named after it or after what happens there;
the falls through of the C switch (`reading` into `decoding`, `encoding_accept`
into `writing_accept`) are composed in one step as in the code. `reading_control`
and `decoding_control` share their operators with `reading` and `decoding`: the C
code is the same but for the READY case. push and read share them as well: the
differences (where bytes come from and go, `more`, `pushed`, who can fail) are in
`PushInput` and `ReadInput`, and in `Write`. So do pop and write, except where
the copies in writer.c differ, which is where `Writer` takes care to differ too
(`PopReads`, `EncodeStop`).

The peer is part of the module. It sends `hello`, waits for ACCEPT if that was
READY, sends the rest (`PeerSend`); or answers READY and STOP (`PeerAccept`,
`PeerFinish`). Its bytes are in transit from then on, and each call takes as many
as it likes: that is the channel.

Not in the modules, or simplified:

* malloc failing in init and allow_bidirectional (the call reports it and there is
  no reader), and the destroy functions.
* `dnswire_reader_fread` and `dnswire_writer_fwrite` are inline functions that call read and write
  on the descriptor of the FILE.
* A failed configuration call changes nothing and is not a step; its result is
  not recorded. (The one that does change something, a set_bufsize() whose
  realloc() fails after the memmove, is a step.)
* A write(2) that has written all of READY goes on to read(2) in the same call and
  may block there. The step is split: `res = "blocked"` in between, when no other
  call can be made.
* The sum in `_encoding()` (`Expansions`) does not wrap; the one in `Expanded`
  does, modulo `SizeMod`.
* set_dnstap() stores a reference; in `Writer` and `Session` the message behind it
  does not change while it is written. In `ReaderSender` it may.

### FrameStream and Session

`FrameStream` has what the two users see and nothing of the bytes: messages handed
over, messages got, stopped, ended here, ended there, broken. `Session` has a
`Writer` and a `Reader` whose channels are each other: the writer's `out` is the
reader's `input` (`down`), the reader's `out` the writer's `input` (`up`). The peers
that those modules have of their own are not used. Its actions are what the
loops of the examples do: choose the handshake (on either side, so the two may
disagree), hand over a message when the last call said ok, write, stop, read.
`Lose` breaks the connection between any two cells; what was written can still be
read, then read(2) finds the end. It is also what a loop that gives up looks like
to the other side.

The refinement mapping (`FS` in `Session`) is: `handed` is what the sender was told
is written (`wacked`), which is *before* it is all on the wire; `got` what the
receiver's read() delivered; `stopped` that the encoder has been stopped; the ends
are the states `done`. `ImplementsFrameStream` is `FS!Spec`, `KeepsPromise` is its
liveness. The two parts are instances of `WriterProofs` and `ReaderProofs`, which
extend `Writer` and `Reader`: so their theorems can be cited about this writer and
this reader.

### ReaderSender

`pc` is where the program is in the two loops: reading the file, sending, about to
stop, stopping. The module's point is that `message`, which the writer's `dnstap`
is instantiated with, belongs to the reader's decoder: it is replaced when the
next frame is unpacked and freed (`"freed"`) when that fails (decoder.c:168-171). The
loops' conditions are followed as they are, `done != 2` (always true) and the
stop that fails for a file without a message included.

### Dnstap

The struct's pointers are the state: to nothing, to the struct's own part, into
the unpacked object, into one that is freed. Encoding and the accessors find
their values along different pointers (`Packed`, `Shown`), the decoded values are
copied and replaced where unknown, cleanup frees. One value of an enumeration
stands for all that are treated alike, one field for all that are. `bad` records
that memory was used or freed that may not be. `Careful` states the rules that a
caller has to keep and the code does not check; they are listed in the module.

### UvDaemon and UvSession

libuv is external and modelled from how the code uses it: its loop goes through
timers (`Tick`, `NotDue`), callbacks of writes that are done (`Callbacks`), events
(`OnNewConnection`, `ClientRead`, `Writable`) and closing handles (`Close`). uv_write() writes
at once what the socket has room for and waits with the rest (`UvWrite`); closing a
handle cancels what waits and calls its callback. The buffer of a client belongs
to the client, so that a second write into it while the first waits is a wrong
`down`. In `UvSession` one of the clients is client_receiver_uv.c: `Receive` is its
callback, `PushChunk` one turn of the loop in it, with the whole of `Reader` as the
instance that is pushed to.

## 3. The runs

Symmetry is not used: the order of the two messages matters to the properties.

| run | asks | bounds, states |
|---|---|---|
| `reader_calls` | is the reader safe, whatever is called in whatever order on every stream: push and read mixed, short writes, realloc and descriptor failing, a resize? does need_more mean it? | elements of 2, 2 and 3 cells; buffer 2 to 6; one resize to 1, 5 or 9; room for 1 or 4 cells of an answer; 11 streams; 44,833 |
| `writer_calls` | is what is sent what was encoded, each message once, START only after ACCEPT, whatever is called: pop and write mixed, every answer in any pieces, failures, resizes? | elements of 2, 1 and 3; buffer 1 to 4; pops of 1, 2 or 4; two frames; two resizes to 2, 4 or 6; 7 answers; about 615,000 |
| `session` | do sender and receiver together implement the abstract stream, when the connection may break? do they keep its promise when it does not? do they agree on the handshake? does a receiver fail only when it may, and a sender never? | frames of 2 cells; buffers 2 to 3, answers of 4; two frames; all four choices of handshake; 13,973 |
| `reader_sender` | does the program send what is in the file, and end? | files with and without messages, cut and broken; errors of the socket; up to two frames; a peer that accepts; 1,392 |
| `dnstap` | is a struct dnstap safe and does it show what it encodes, in every order of calls by a careful caller? | every frame; 30,912 |
| `uv` | are handles closed once, buffers not written over, clients independent? does the receiver get what was made, and keep up? | two clients that come and go, one of them slow and the receiver; two ticks; frames of 3 cells; the reader's buffer 2, and 6 once it was expanded; 393,021 |

Why the bounds are enough: every element has at least two cells except where one is
stated, so it can be cut in its middle; buffers begin smaller than a frame (in `session`
as large as one) and end barely larger, so that they are compacted, expanded (with an increment that `max`
cuts short) and full; two messages are needed to tell order and repetition,
and in `reader_sender` one that is replaced while another is on its way;
two clients for one to disturb the other. The frames of `session` have 2 cells, because
its liveness properties make every state some ten times as slow; its safety is proved
for every length. In `uv` the reader's buffer grows from 2 cells to two frames at once
(an increment of 5 that `max` cuts to 4: a buffer is expanded only when an element does
not fit, so one that grew by 1 would stay at 3). So a callback can end with a whole
message left in it: there a `CatchesUp` with `came` in place of `before` fails.
Where there is a writer, and in `uv`, fields have 1 cell, to
keep the number of states down.

The streams (`MCReader`) are: one way; with READY of one and of two content types; a
READY, a START and a field the reader refuses; a payload that does not unpack; a
stream cut within a frame; ACCEPT instead of READY; frames after STOP; a peer that
ignores that its READY was refused. The answers (`MCWriter`) are ACCEPT with one and
with two content types, ACCEPT of another, and four that are no ACCEPT it can read.

Deadlock is checked except where the system really may stop: in `session` and `uv`
(both loops have ended; all that is to be made is made), in `writer_calls` (a call
after the answer was refused fails an assertion, and the program is gone), and in the two
violation runs in which the program is gone too.

Every property of every passing run has a mutant in `PROJECT.json`: a definition
of the model with a plausible bug, for which TLC finds the property violated.

### What the passing runs leave out on purpose

The models follow the code, including the places where it does not do what its
documentation or tests say (next section). Each of them breaks several
properties. So that the rest can be checked, constants say whether the
environment brings those situations about, and the passing runs turn off exactly
the ones that matter to them. They restrict callers, peers and the network, not the
code: no action of the code is changed.

| constant, off in | situation |
|---|---|
| `MoveWithData`; `writer_calls` | a set_bufsize() that has to move data |
| `PopStops`; `writer_calls` | a pop that gives the last of a frame after stop() |
| `PopAnswers`; `writer_calls` | a pop that is given the peer's answer |
| `ReadyInPieces`; all | a call that leaves a part of READY to be written |
| `FinishInPieces`; `session`, `reader_sender` | a read(2) that returns a part of FINISH |
| `Accepts` without refusals; `reader_sender` | a peer that refuses (in `writer_calls` it does) |
| `ClosesWhileWriting`; `uv` | a client that closes while a write to it waits |
| not `Careful`; `dnstap` | a caller that breaks the rules in the module |

### Disagreements with the documentation and the tests

Each of these has a run that TLC must find violated, and a finding in `PROJECT.json`:

| run | what happens |
|---|---|
| `writer_ready_in_pieces` | writer.c:232, 455: a READY written in two pieces continues in state `writing`, and START follows without ACCEPT |
| `writer_pop_handshake` | writer.c:258: pop() counts the answer in `left` instead of `read_left`; the decoder is called with length 0 and asserts |
| `writer_pop_stop` | writer.c:342: a pop that gives the last of a frame in state `stopping` overwrites it with STOP |
| `writer_set_bufsize` | writer.c:128: set_bufsize() moves as if `at` were the start of the data, which in the writer is its end |
| `reader_sender_refused` | writer.c:502: after a refused ACCEPT the program stops the stream all the same, and that call fails `assert(len)` in the decoder |
| `uv_daemon_closes` | daemon_sender_uv.c:94, 107: a client that closes while a write to it waits has its handle closed twice, and the daemon fails an assertion |

Met while modelling and without a run of their own, because the passing runs keep
away from them or no text says what should happen:

* writer.c:426, 684: a FINISH read in two pieces goes to `reading_accept`, where its
  end is an error. (The test writer_unixsock.c:54, 118-121 expects a stream that was
  finished.)
* reader.c:277: `size + inc` may wrap; with `SizeMod` 16 and `inc` 15 TLC finds the
  buffer made smaller than its data. The proofs assume this away (`NoWrap`).
* writer.c:335, 572: dnswire_ok is returned when a message is *encoded* and some of
  it sent, not when it is written; when the first write(2) fails the call is an
  error although the message stays queued, so a caller that hands it over again
  sends it twice.
* reader.c:462: after set_bufsize(left) the reader's read(2) is asked for 0 bytes, and
  its 0 is taken for an error; push expands instead.
* reader.c:340, 584: START sent together with READY stays in the buffer after ACCEPT
  was written; the reader waits for more input before it looks at it.
* reader.c:249: after refusing a READY the reader, called again, goes on with the
  stream and, if is_bidirectional was set, answers ACCEPT and FINISH together at
  the end.
* sender.c:153, reader_sender.c:168: need_more, which the writer returns when only a
  piece of ACCEPT has come, ends the loops as an error would.
* reader_sender.c:189-193: for a file without messages dnswire_writer_stop() fails
  and nobody looks. The writes after it send READY and START and then fail: STOP is
  never sent, the peer sees a stream without an end, and the program exits with 0.
* client_receiver_uv.c:37: the loop ends when all is pushed, with whole messages left
  in the buffer. Those that end in what one callback brought are out when the loop of the next one ends
  (`CatchesUp`), and are lost if the connection ends before.
* dnswire/dnstap.h:136-172: the setters do not know UPDATE_QUERY, UPDATE_RESPONSE, DOT, DOH,
  DNSCrypt and DOQ and set them as unknown, though decoding knows them and
  CHANGES:5-6, 45-49 tells of them.
* gen-macros.sh:15: `_policy_type_alloced` is never reset; setting the type of a decoded
  policy after one that was set frees memory of the unpacked object. With
  `Careful = FALSE` TLC finds it in three calls: set the type, decode, set the type.
* dnswire/dnstap.h:175: dnstap_message_use_policy() on a decoded message makes the unpacked
  object point to the struct, which cleanup then frees.
* dnswire/dnstap.h:132: what is set on a decoded message is shown and not encoded.
* dnstap.c:99, decoder.c:168-171: `dnstap` and `message` are copies whose pointers dangle
  after cleanup or a failed unpack; create_dnstap.c:20, 60, 73, 98: after return.

### Fairness

Nothing in the library runs by itself, so liveness is a property of programs:

* `Session`: weak fairness of `SenderWrites` and `ReceiverCalls`, the loops of
  `src/examples/sender.c:126-157` and `receiver.c:130-160`, which call again on again.
  Nothing is asked of handing over, stopping, choosing, or of *how much* a call takes:
  one cell at a time is a fair run.
* `ReaderSender`: weak fairness of the program, which waits nowhere but in read(2), and
  of the peer, which answers.
* `UvSession`: weak fairness of libuv's loop; strong fairness of `Tick`, because the timer
  is due again and again but only in one phase of the loop; and, for each slow
  client, of the socket getting room, because a client that has not left reads.
  `KeepsTicking` says nothing of the receiver, so none is asked of it: that the loop in its
  callback ends is the invariant `PushLoopEnds`, a bound on its turns.

## 4. The theorems

Each holds for every value of the constants that satisfies the named ASSUMEs of the
modules, which TLC evaluates in every run: sizes positive and no larger than their
maxima (`SizeAssumption`: what init and the setters guarantee), the reader's answer
buffer larger than an ACCEPT (`AnswerAssumption`: its size is a compile-time constant
no function changes), element lengths positive. So: for all messages, streams,
answers, element lengths, sizes, increments and maxima, tunings, ways to cut what comes
and goes, and outcomes of realloc(), read(2) and write(2).

| module | theorem | property |
|---|---|---|
| `ReaderProofs` | `TypeCorrect` | `TypeOK` |
| | `StaysInBounds` | `BufferBounds`: `at + left <= size <= max`, `write_left <= write_at <= write_size` |
| | `NoAssertionFails` | `NeverAborts`: no assert of the decoder or encoder fails |
| | `NothingLost` | `WindowIntact`: the buffer is exactly what was taken and is not decoded |
| | `MessagesInOrder` | `DeliveredInOrder`: the caller gets the messages of the decoded frames, in order |
| | `AnswersKept` | `AnswersIntact`: ACCEPT, then FINISH, in pieces that fit, after a READY |
| | `EndsOnlyAtStop` | `EndsAtStop`: the end is a STOP, and told when FINISH is out |
| | `PushLosesNothing` | `NeedMoreTookAll`: need_more only after taking all |
| | `NeedsWhatItAsksFor` | `NeedMoreNeedsMore`: need_more only when no whole element waits, and with room for more |
| | `NeverShrinks` | `OnlyExpands`: only a tuning may shrink the buffer |
| `WriterProofs` | `TypeCorrect` | `TypeOK` |
| | `StaysInBounds` | `BufferBounds` |
| | `NoAssertionFails` | `NeverAborts` |
| | `NothingLost` | `OutIntact`: what went out and what waits is what was encoded |
| | `AnswerKept` | `AnswerIntact`: what is left of the answer is its end |
| | `AcknowledgedOnce` | `AckedOnce`: each ok is one message encoded, in its turn |
| | `ProtocolKept` | (the protocol part of the invariant) |
| | `NothingBeforeAccept` | `StartAfterAccept`: START only after ACCEPT |
| | `EndedMeansWritten` | `AckedOnWire`: the end is told when all is on the wire, STOP last |
| | `OrderlyWritten` | (START, a content type, whole frames, STOP: an orderly stream, cut anywhere) |
| `SessionProofs` | `NothingLostBetween` | `EndToEnd`: what is encoded is what is decoded, in the reader, on the way, or in the writer |
| | `DeliveredOnceInOrder` | (the receiver gets a prefix of what was acknowledged; at its end, all of it) |
| | `ReceivesOrderly` | (the decoder is where the stream is: nothing comes that does not belong there) |
| | `AgreesOnHandshake` | `HandshakeAgreed` |
| | `FrameStreamImplemented` | `ImplementsFrameStream`: the refinement |
| | `ReceiverTakesIt` | `FailsForAReason`: the receiver fails only when the connection is lost or it was not to answer |
| | `SenderIsServed` | `SenderTakesIt`: the sender of a connection that holds is never told of an error |
| `ReaderSenderProofs` | `ForwardsInOrder` | `ForwardedInOrder`: what is encoded is what was read, each message once, none that was freed |
| | `WholeForPeer` | `WholeWhenStopped`: a peer that saw the end has one whole stream, and all messages but the one that met an error |
| `UvSessionProofs` | `StreamsAreWhole` | `StreamIsWhole`: every client is sent START and whole frames of what was made |
| | `ClosedOnce` | `ClosesOnce`: no handle is closed twice, no freed client is in the list |
| | `ReceivesTheMade` | `ReceivesWhatWasMade`: the receiver refuses nothing and gets what was made, in order |
| | `LoopIsBounded` | `PushLoopEnds`: the loop in the callback ends |
| | `NoneWaitsLonger` | `CatchesUp`: no message waits for longer than one more callback |
| `DnstapProofs` | `TypeCorrect` | `TypeOK` |
| | `MemoryIsSafe` | `NoBadMemory`: nothing freed is used, nothing foreign is freed |
| | `ShowsTruly` | `ShowsWhatIsEncoded` |
| `FrameStreamProofs` | `EndIsTheWhole` | (what the abstract stream gives a receiver that is told of the end) |

### Hypotheses

Some theorems have a hypothesis besides. Each is a line of the code that does not do what
it should when the hypothesis fails, most of them with a violation run above:

| hypothesis | in | without it |
|---|---|---|
| `NoWrap` | reader, writer, session, `ReaderSender`, the receiver of `UvSession` | `size + inc` wraps around `size_t` and a block shrinks (reader.c:277; of the writer only the answer's block matters: the encoding loop's sum is not modelled modulo `SizeMod`) |
| `Avoided` = no `MoveWithData`, `PopStops`, `PopAnswers` | writer | writer.c:128, 342, 258: the runs `writer_set_bufsize`, `writer_pop_stop`, `writer_pop_handshake` |
| `~ReadyInPieces` | `ProtocolKept` and what follows from it | writer.c:232, 455: the run `writer_ready_in_pieces` |
| `NoEarlyFinish` | `EndedMeansWritten` | the peer answers READY with an ACCEPT that has a FINISH behind it; the writer takes that for the end |
| `NoFinishSent` | reader, `EndsOnlyAtStop` | the peer sends ACCEPT and FINISH itself; tinyframe and the decoder take them where a READY may come, and the reader ends without a STOP |
| `BadPayload \notin Message` | session, `UvSession` | a message that protobuf cannot unpack: dnswire_writer_set_dnstap() and the daemon's tick() are given a struct, which packs to something that unpacks |
| `ElementsFit` | session, `FrameStreamImplemented` and `ReceiverTakesIt`; the receiver of `UvSession` | an element is larger than the reader's maximum: the reader fails (reader.c:398, 314) while the sender goes on and is told of the end, which no abstract step is |
| `SendersFit` | session, `SenderIsServed` | a message, or a control header with its field, which the encoder makes in one piece, is larger than the writer's maximum: the writer fails (writer.c:185-187) |
| `~ClosesWhileWriting` | `ClosedOnce` | daemon_sender_uv.c:94, 107: the run `uv_daemon_closes` |
| `Careful` | dnstap | the caller's rules, listed in `Dnstap` |

`DeliveredInOrder`, `WindowIntact`, `AnswersIntact` and the bounds need no hypothesis about
the peer: what it sends may be any sequence of cells.

### The reader's argument

`Inv` is the inductive invariant, the conjunction of

* `TypeOK` and `NeverAborts`;
* `InputInv`: the bounds; `size > 0`; in a decoding state `left > 0` (this is
  what keeps the decoder's assert from failing: every branch that empties the
  buffer leaves the decoding states); and, the heart of it,
  `taken = decoded + left` with `Holds(buf, at, left, decoded)`: the i-th cell of
  the window is the (decoded + i)-th of the input;
* `AnswerInv`: the bounds of the answer, and where the encoder stands in each
  state. It is what shows that there is room to encode in `encoding_finish`: FINISH
  comes next and the buffer is empty or holds an ACCEPT, no more; or, when a READY
  was refused and the caller went on, ACCEPT comes first and the buffer is empty.
  It needs the decoder's state: before START is decoded the encoder is where
  allow_bidirectional left it (`Early`);
* `FreshInv`: before the first call nothing has happened, which is why
  allow_bidirectional may reset the encoder;
* `ContentInv`: what went out and what waits is what the encoder has produced so far
  (`AnswerSoFar`), and nothing as long as no whole READY was decoded;
* `StopInv`: after the end was decided, a STOP stands at `decoded + 1`; the decoder does
  not pass it;
* `DeliveredInOrder`, which is inductive with the rest: one decode consumes nothing, or one
  whole element at the front of the window (`DecodeElement`), which `Holds` makes
  the element at `decoded + 1` of the input; its payloads are the message delivered
  (`DecodePayloads`), and the payloads of a concatenation are the concatenation
  of the payloads (`PayloadsConcat`).

`Payloads` is defined without recursion, by the rank of each frame's first cell among
all, so that this last lemma can be proved: a SelectSeq would need an induction over the
sequence that no installed prover can instantiate.

### The writer's argument

`Inv` of `WriterProofs` is the conjunction of the type, `StateInv` (which states
the encoder may be in in each state, and in which states nothing waits), `OutInv`
(`Loaded`: `out \o Slice(buf, at - left, left) = encoded` with the bounds; `left = 0` implies
`at = 0`, because in the writer `at` is the *end* of the data and an encoding appends
behind it), `InInv` (the block of the answer: its cells are the last ones taken),
`FreshInv` and `CallInv` (a call never sees the abort of an earlier one). For
`NeverAborts` it says that in a decoding state the answer's buffer is not empty unless
the answer was refused (writer.c:502), and that the encoder always has room:
nothing waits where the code encodes but in `encoding_stop`.

`AckedOnce` is shown by an induction of its own on top of `Inv`: a step that returns
ok has encoded one frame, the one of `dnstap`, at the end of `encoded`; every
other step leaves the payloads and `acked` alone, or encodes a frame whose write(2)
failed, which only the descriptor's errors bring about (`CallAcks`, `NextAcks`).
The set `Subsequences(s)` is a set of functions picked by increasing maps; `Picks` names
one such map, and `SubsequencesGrow` and `SubsequencesAppend` say how it is extended
when an element is appended to `s` and taken, or not.

`ProtocolInv` adds what holds when READY is not cut: what was encoded ends with what
the encoder's state says (READY, START, STOP), the decoder stands where the
writer's state says, START was encoded only when the decoder has accepted the DNSTAP
content type, and the end is reported only when everything is out and the answer
was a FINISH. `AckedOnWire` follows from it with `AckedOnce` and `OutIntact`.

### A sender and a receiver

`Parts` is the conjunction of what was proved of the two: the writer's `ProtocolInv`,
`AckedOnce` and `WireInv`, the reader's `Inv`. It is an invariant of `Session` because a
step of one side is a step of its instance and, for the other side, one in which its
channel grows; that this keeps the other's invariant is a lemma of each
(`InputGrows`, `InputGrowsWire`). From it, in this order:

* `EndToEnd`: the writer's `Loaded` and the reader's `Holds` speak of the same cells,
  those of `down`.
* `DeliveredOnceInOrder`: what was delivered are the payloads of what was decoded
  (`MessagesInOrder`), which is a prefix of what was encoded, whose payloads are
  what was acknowledged (`AckedOnce`; nothing was encoded without an ok, because
  in `Session` the descriptor fails only by `Lose`).
* `ReceivesOrderly`: what the writer encodes is an orderly stream (`OrderlyWritten`): the
  elements of START, frames, STOP behind a preamble that says whether there is a
  handshake. The decoder of a reader that reads such a stream is always at the
  place the stream is at (`OrderlyInv`, a second invariant of the reader in
  `ReaderProofs`), one element at a time (`CodingProofs` has the lemmas: an
  orderly element is taken, a part of one is waited for).
* `HandshakeAgreed`: START is encoded when ACCEPT was decoded, ACCEPT is encoded when
  READY was, and what is encoded on one side is decoded on the other; none is answered
  that did not ask (`NoAnswerUnasked`).
* `FinishIsLast`: FINISH comes back when the reader has decoded STOP, which is after
  everything. With the above, `Agreed` gives the abstract state's own invariants.
* `FrameStreamImplemented`: each step maps to an abstract one. `SenderChooses` is
  `Choose`, `SenderStops` is `Stop`, `SenderWrites` is `Hand`, `SenderEnds` or a stutter
  (`SenderRefines`); `ReceiverCalls` is `Deliver`, `ReceiverEnds`, `Break` or a stutter
  (`ReceiverRefines`); `Lose` is `Break` (`LossRefines`). A call that delivers delivers
  the *next* message acknowledged, because the writer says ok at the encoding and
  nothing can be decoded before it is encoded.
* `ReceiverTakesIt`: of the ways in which the reader can fail, an orderly stream whose
  elements fit leaves the descriptor, and a READY it is not to answer.
* `SenderIsServed`: what the writer has to read is nothing, the reader's ACCEPT, or that and
  FINISH, and FINISH only once the writer's own encoder is done (`SenderSees`, from the
  reader's `ContentInv` and `EndedAfterAll`). The writer has an invariant of its own for a peer
  like that (`ServedInv` in `WriterProofs`): its decoder is before ACCEPT, between header
  and field, or behind it (`AnswerAt`), and there is room for the rest of what it reads.
  `CallServed` goes through the writer's states: what is to be encoded fits
  (`EncodesServed`), a piece of ACCEPT is taken or waited for (`AcceptServed`, from
  `AnswerDecoded` in `CodingProofs`), FINISH ends the stream (`FinishServed`). A sender whose
  receiver does not answer waits; it is told nothing.

`Session` itself fixes what the theorems about its two parts have as hypotheses: no set_bufsize(),
no failing realloc(), a READY that is written in one piece and a FINISH that is read
in one. (Where this does not hold, "Disagreements" says what happens.)

`EndIsTheWhole`, proved of the abstract stream, then holds of the concrete one: a sender
that is told of the end of a stream with a handshake knows that the receiver has all
of it.

### reader_sender's argument

The writer's `dnstap` is a pointer into the reader's decoder: it is set once, and every
read() after that frees and fills what it leads to, whatever the writer is doing.
`Parts` is the conjunction of the writer's `ProtocolInv` and `LengthInv`, the reader's
`Inv`, and `RelayInv`, which says of each place in the program what the writer may find at
the end of its pointer. At any time what was encoded is what was read (`CaughtUp`), or
lacks the last message, to which the pointer still leads (`Behind`):

* `ReadFileKeeps`: a read() is made only when nothing is behind. One that delivers makes
  the program `Behind` and send; one that ends, fails or cannot unpack leaves it
  caught up and stops, whatever the pointer leads to then. `Encoder`'s state tells
  why that is harmless: it is `frames`, and the next encoding is of a STOP.
* `SendMessageKeeps`: a call of the writer may encode the message; this makes the program
  caught up, and it reads on or stops when the call is done. `WriteEncodes` is the one place
  that looks into the writer: a call encodes at most one frame, of what the
  pointer leads to, and says ok exactly when it did, unless the socket failed.
* `LengthInv`, proved of any writer in `WriterProofs`, counts cells: the encoder's state and the
  number of payloads give the length of all that was encoded. With `EndInv` and
  `OutIntact` this is `WholeWhenStopped`: a READY, a START, so many frames, a STOP, and nothing
  else.

The peer may answer anything, or refuse. The writer's messages include the freed one, so
that it is not encoded is shown and not assumed.

### The daemon's argument

`StreamsAreWhole` needs two facts of every client (`DaemonInv`):

* `ClientInv`: who is in the list has a handle that is open or closing; a handle is
  closing only from the callbacks to the end of that turn of the loop; and a client that
  is `started` has nothing left to be written and no callback to come. The last is why
  tick() may write over its buffer.
* `SentInv`: what was sent and what waits (`Stream`) is a whole stream whose payloads are
  picked from what was made so far. For a client whose write failed or whose handle is
  closing that is lost with the write; but what it *was* sent is still the beginning of
  such a stream, which is what the receiver of a broken connection has.

`ClosedOnce` adds that nothing waits in a handle that is closing (`ClosingInv`), which is where
`~ClosesWhileWriting` is needed.

For the receiver, `down[Receiver]` is an orderly stream without a handshake by `SentInv`, and so
`ReceiverInv`, the two invariants of `Reader` with its state among those that take or
decode, is kept: a step of the daemon only makes the input grow, and a `PushChunk` is a
push, which `ReaderProofs` shows to be orderly (`PushOrderly`). `LoopInv` counts: a push that
moves nothing is made in a decoding state, decodes one element and so costs at least a cell
of the buffer, and one that moves cells pays for itself (`MovingCosts`, `DecodingCosts`).
For `CatchesUp` it holds what such a push leaves (`Short`, `LastPushCatchesUp`): the last push of a loop
moved cells, so either fewer cells are left than it moved, all of them of this
callback, or the window begins with an element that is not whole. The reader's
`NeedsWhatItAsksFor` follows from the same lemmas (`MoreIsNeeded`), for any input.

### Dnstap's argument

The invariant relates the pointers: what the struct's parts point to is there as long
as something points to it (`UnpackedInv`), no pointer that a careful caller follows
leads to what is freed (`FreedInv`), the copies say what the unpacked object says, with
unknown values replaced (`CopyInv`). The type needs no rule of the caller; the rest needs
`Careful`.

### How it was found

Every invariant was first checked with TLC on the instance of a run. Then:
`CodingProofs` says what slice, memcpy, memmove, realloc, the expansion and the
encoding loop return, and what one decode returns, and that it
consumes at least one cell, at most what is there, whenever the caller relies on it
(`DecodeType`); the proof modules show for each branch of an operation that each part
of the invariant is kept, put them together per action (`PushStep`, `ReadStep`,
`CallStep`, ...) into `InitInv`, `NextInv` and `Invariance`. The action properties are
consequences of `Inv` and of the stronger conclusions of the steps.

`FrameStreamProofs` proves of the abstract stream, for every number of messages
(`EndIsTheWhole`): what was got is a prefix of what was handed over; a receiver that
is told of the end has all of it; so does the receiver of a sender that is told of
the end in a handshake. The inductive invariant adds that an end is only reported
once the stream is stopped, for nothing is handed over then. With the refinement
that `SessionProofs` proves, it is what users of the library can rely on.

**Only model-checked.** Liveness (`KeepsPromise`, `FirstIsWritten`, `Exits`, `FileArrives`,
`KeepsTicking`, `BusyEnds`): fairness and ENABLED are beyond the prover.
Every invariant and action property of the passing runs is proved.

## 5. The plan

The modules and runs above and the theorems are done. What could be added:

1. `Session` with a set_bufsize() in the middle of a stream, and with a realloc() that
   fails: the theorems about `Reader` and `Writer` cover both, those about the two
   together do not.

### Not modelled

* The protobuf-c code, which is generated; its effect on the struct is in `Dnstap`.
* Trace, string tables, `print_dnstap.c`: printing. `create_dnstap.c`: the making of one
  constant message; its pointers to its own locals are a matter of C lifetimes that
  no module has addresses for.
* How the examples parse their command line and set up their sockets, and how they
  open files; the `reader` and `writer` examples, whose loops are behaviours of the
  callers in `Reader` and `Writer`.
* In the uv examples: a malloc() for a client that fails (`client_new`), an uv_write() of START
  that fails at once, and what client_receiver_uv.c does when its read ends or fails
  (it closes its handle; the receiver's leaving is `Leave`).
* The tests, which were read for what callers do and expect; packaging and build files.
