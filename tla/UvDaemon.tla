------------------------------ MODULE UvDaemon ------------------------------
(***************************************************************************)
(* src/examples/daemon_sender_uv.c: a daemon on a libuv loop that sends    *)
(* what it makes once a second to the clients that have connected, without *)
(* a handshake.  The loop goes through its phases over and over: timers,   *)
(* the callbacks of writes that are done, events of the sockets, handles   *)
(* that are being closed; a callback runs to its end.                      *)
(***************************************************************************)
EXTENDS Encoder, SequencesExt

CONSTANTS
    Clients,  \* the connections that may be made, each of them once
    Slow,     \* the clients whose socket may have no room for all of a write
    Made,     \* the messages that tick() makes, one after the other
    ClosesWhileWriting  \* may a client close while a write to it waits?

ASSUME DaemonAssumption ==
    /\ Slow \subseteq Clients
    /\ Made \in Seq(Message)
    /\ ClosesWhileWriting \in BOOLEAN

VARIABLES
    phase,     \* of the loop; "crashed" after a failed assertion of libuv
    ticks,     \* calls of tick() so far
    clients,   \* the list of clients, the newest first
    state,     \* of each client
    conn,      \* of its handle
    buf, left, \* what is written to it, and how much of it is left to write
    result,    \* of the write whose callback is still to come
    down,      \* all cells the client was sent
    gone       \* has the client closed the connection?

daemonVars == <<phase, ticks, clients, state, conn, buf, left, result, down, gone>>

ClientState == {"no_state", "writing_start", "started", "writing_frame"}

StartCells == Encoding("control_start", NoDnstap).cells
FrameCells(i) == Cells(Frame(Made[i]))

DaemonInit ==
    /\ phase = "timers" /\ ticks = 0 /\ clients = <<>>
    /\ state = [c \in Clients |-> "no_state"]
    /\ conn = [c \in Clients |-> "none"]
    /\ buf = [c \in Clients |-> <<>>] /\ left = [c \in Clients |-> 0]
    /\ result = [c \in Clients |-> "none"]
    /\ down = [c \in Clients |-> <<>>]
    /\ gone = [c \in Clients |-> FALSE]

-----------------------------------------------------------------------------
(***************************************************************************)
(* uv_write() of the cells x to the clients in C: the socket takes what it *)
(* has room for, at once.  When that is all, or the write fails, the       *)
(* callback comes in the next phase of callbacks; else the rest waits for  *)
(* room.  A write to a client that is gone may fail.                       *)
(***************************************************************************)
UvWrite(C, x) ==
    \E failing \in SUBSET {c \in C : gone[c]}, taken \in [C -> 0..Len(x)] :
        /\ \A c \in failing : taken[c] = 0
        /\ \A c \in C \ (failing \cup Slow) : taken[c] = Len(x)
        /\ buf' = [c \in Clients |-> IF c \in C THEN x ELSE buf[c]]
        /\ down' = [c \in Clients |-> IF c \in C THEN down[c] \o SubSeq(x, 1, taken[c]) ELSE down[c]]
        /\ left' = [c \in Clients |-> IF c \in failing THEN 0
                                      ELSE IF c \in C THEN Len(x) - taken[c]
                                      ELSE left[c]]
        /\ result' = [c \in Clients |-> IF c \in failing THEN "failed"
                                        ELSE IF c \in C /\ taken[c] = Len(x) THEN "ok"
                                        ELSE result[c]]

(***************************************************************************)
(* Timers: tick() makes a message and sends it to the clients that are not *)
(* busy.                                                                   *)
(***************************************************************************)
(* Mutant: the clients that are busy are not left out.                      *)
AllClients == {c \in ToSet(clients) : state[c] # "no_state"}

Available == {c \in ToSet(clients) : state[c] = "started"}

(* Mutant: the timer is started without a repeat.                           *)
TickOnce ==
    /\ phase = "timers"
    /\ ticks = 0
    /\ ticks' = 1
    /\ UvWrite(Available, FrameCells(1))
    /\ state' = [c \in Clients |-> IF c \in Available THEN "writing_frame" ELSE state[c]]
    /\ phase' = "callbacks"
    /\ UNCHANGED <<clients, conn, gone>>

Tick ==
    /\ phase = "timers"
    /\ ticks < Len(Made)
    /\ ticks' = ticks + 1
    /\ UvWrite(Available, FrameCells(ticks'))
    /\ state' = [c \in Clients |-> IF c \in Available THEN "writing_frame" ELSE state[c]]
    /\ phase' = "callbacks"
    /\ UNCHANGED <<clients, conn, gone>>

NotDue ==
    /\ phase = "timers"
    /\ phase' = "callbacks"
    /\ UNCHANGED <<ticks, clients, state, conn, buf, left, result, down, gone>>

(* Mutant: only the write of a frame is looked at.                          *)
CallbacksFrame ==
    /\ phase = "callbacks"
    /\ phase' = "events"
    /\ state' = [c \in Clients |-> IF result[c] = "ok" /\ state[c] = "writing_frame"
                                  THEN "started" ELSE state[c]]
    /\ conn' = [c \in Clients |-> IF result[c] = "failed" THEN "closing" ELSE conn[c]]
    /\ result' = [c \in Clients |-> "none"]
    /\ UNCHANGED <<ticks, clients, buf, left, down, gone>>

(***************************************************************************)
(* client_write(), for the writes that are done.                           *)
(***************************************************************************)
Callbacks ==
    /\ phase = "callbacks"
    /\ phase' = "events"
    /\ state' = [c \in Clients |-> IF result[c] = "ok" THEN "started" ELSE state[c]]
    /\ conn' = [c \in Clients |-> IF result[c] = "failed" THEN "closing" ELSE conn[c]]
    /\ result' = [c \in Clients |-> "none"]
    /\ UNCHANGED <<ticks, clients, buf, left, down, gone>>

-----------------------------------------------------------------------------
(***************************************************************************)
(* Events of the sockets.                                                  *)
(***************************************************************************)
OnNewConnection(c) ==
    /\ phase = "events"
    /\ conn[c] = "none"
    /\ clients' = <<c>> \o clients
    /\ \/ /\ conn' = [conn EXCEPT ![c] = "open"]
          /\ UvWrite({c}, StartCells)
          /\ state' = [state EXCEPT ![c] = "writing_start"]
       \/ /\ conn' = [conn EXCEPT ![c] = "closing"]  \* uv_accept() fails
          /\ UNCHANGED <<buf, left, result, down, state>>
    /\ UNCHANGED <<phase, ticks, gone>>

(* client_read(): the client has closed the connection.                     *)
ClientRead(c) ==
    /\ phase = "events"
    /\ conn[c] = "open" /\ gone[c]
    /\ result[c] = "none"  \* the socket is polled since the last phase of events
    /\ ClosesWhileWriting \/ left[c] = 0
    /\ conn' = [conn EXCEPT ![c] = "closing"]
    /\ UNCHANGED <<phase, ticks, clients, state, buf, left, result, down, gone>>

(* There is room for k more cells of a write that waits.  When it is done,  *)
(* or fails, client_write() is called.                                      *)
Writable(c, k) ==
    /\ phase = "events"
    /\ conn[c] = "open"
    /\ left[c] >= k
    /\ \/ /\ down' = [down EXCEPT ![c] = @ \o SubSeq(buf[c], Len(buf[c]) - left[c] + 1,
                                                              Len(buf[c]) - left[c] + k)]
          /\ left' = [left EXCEPT ![c] = @ - k]
          /\ state' = [state EXCEPT ![c] = IF left[c] = k THEN "started" ELSE @]
          /\ UNCHANGED conn
       \/ /\ gone[c]
          /\ left' = [left EXCEPT ![c] = 0]
          /\ conn' = [conn EXCEPT ![c] = "closing"]
          /\ UNCHANGED <<down, state>>
    /\ UNCHANGED <<phase, ticks, clients, buf, result, gone>>

NoMoreEvents ==
    /\ phase = "events"
    /\ phase' = "closing"
    /\ UNCHANGED <<ticks, clients, state, conn, buf, left, result, down, gone>>

(* Mutant: only a client at the head is taken out of the list.              *)
CloseHead ==
    LET closing == {c \in Clients : conn[c] = "closing"} IN
    /\ phase = "closing"
    /\ \A c \in closing : left[c] = 0
    /\ phase' = "timers"
    /\ clients' = IF clients # <<>> /\ Head(clients) \in closing THEN Tail(clients) ELSE clients
    /\ conn' = [c \in Clients |-> IF c \in closing THEN "freed" ELSE conn[c]]
    /\ UNCHANGED <<ticks, state, buf, left, result, down, gone>>

(***************************************************************************)
(* Handles that are being closed: a write that waits is cancelled, its     *)
(* callback, client_write(), closes the handle again and an assertion of   *)
(* uv_close() fails.  client_close() takes the client out of the list and  *)
(* frees it.                                                               *)
(***************************************************************************)
Close ==
    LET closing == {c \in Clients : conn[c] = "closing"} IN
    /\ phase = "closing"
    /\ \/ /\ \E c \in closing : left[c] > 0
          /\ phase' = "crashed"
          /\ UNCHANGED <<clients, conn>>
       \/ /\ \A c \in closing : left[c] = 0
          /\ phase' = "timers"
          /\ clients' = Selected(clients, {i \in DOMAIN clients : clients[i] \notin closing})
          /\ conn' = [c \in Clients |-> IF c \in closing THEN "freed" ELSE conn[c]]
    /\ UNCHANGED <<ticks, state, buf, left, result, down, gone>>

(* A client closes its end.                                                 *)
Leave(c) ==
    /\ conn[c] = "open" /\ ~gone[c]
    /\ gone' = [gone EXCEPT ![c] = TRUE]
    /\ UNCHANGED <<phase, ticks, clients, state, conn, buf, left, result, down>>

-----------------------------------------------------------------------------
Loop == NotDue \/ Callbacks \/ NoMoreEvents \/ Close

WritableAny(c) == \E k \in 1..left[c] : Writable(c, k)

DaemonNext ==
    \/ Loop
    \/ Tick
    \/ \E c \in Clients : OnNewConnection(c) \/ ClientRead(c) \/ WritableAny(c)

(* The loop goes on, the timer is due every second, and a client that has   *)
(* not left reads what it is sent.                                          *)
DaemonFairness ==
    /\ WF_daemonVars(Loop)
    /\ SF_daemonVars(Tick)
    /\ \A c \in Slow : SF_daemonVars(WritableAny(c))

-----------------------------------------------------------------------------
(***************************************************************************)
(* Properties.                                                             *)
(***************************************************************************)

(* No assertion of libuv fails, a handle is closed once, and the list that  *)
(* tick() goes through holds no client that was freed.                      *)
ClosesOnce ==
    /\ phase # "crashed"
    /\ \A c \in ToSet(clients) : conn[c] # "freed"

(* What a client has been sent, and what waits in its buffer to be sent.    *)
Stream(c) == down[c] \o SubSeq(buf[c], Len(buf[c]) - left[c] + 1, Len(buf[c]))

(* It is START and then whole frames, with the messages that were made, in  *)
(* their order and none of them twice, though tick() copies the next one    *)
(* into the same buffer (daemon_sender_uv.c:203-213).                       *)
StreamIsWhole ==
    \A c \in Clients :
        conn[c] = "open" /\ result[c] # "failed" =>
            /\ Orderly(Stream(c), 0) /\ Complete(Stream(c)) /\ Open(Stream(c))
            /\ Len(Stream(c)) >= Len(StartCells)
            /\ Payloads(Stream(c)) \in Subsequences(SubSeq(Made, 1, ticks))

(* tick() "is called every second and will create a DNSTAP message and send *)
(* it to all available clients" (daemon_sender_uv.c:162-165): it goes on to *)
(* be called, whatever the clients do.                                      *)
KeepsTicking == <>(ticks = Len(Made))

(* A client that is busy becomes available again, or is gone.               *)
BusyEnds ==
    \A c \in Clients :
        state[c] \in {"writing_start", "writing_frame"} ~> state[c] = "started" \/ gone[c]

=============================================================================
