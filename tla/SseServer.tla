-------------------------------- MODULE SseServer --------------------------------
(***************************************************************************)
(* essence::net::sse_server (src/src/net/sse_server.cpp), one connection   *)
(* of it, and the parser of the client at the other end                    *)
(* (src/src/net/sse_client.cpp).                                           *)
(*                                                                         *)
(* Any thread that holds the connection may send a message or tick; a call *)
(* puts its pieces into the response one by one, and nothing keeps two     *)
(* calls apart.  The client cuts what arrives into lines.  Closing the     *)
(* connection, losing it and closing the server happen at any moment.      *)
(*                                                                         *)
(* The HTTP library is external: a listener that closes lets no handler    *)
(* begin, waits for one that runs, and then drops its connections; a reply *)
(* ends when its buffer is closed and everything in it was sent, or fails. *)
(***************************************************************************)
EXTENDS Naturals, SequencesExt

CONSTANTS
    Thread,             \* the threads that send and tick
    Ticker,             \* those that tick
    Char,               \* what texts are made of
    Outbox,             \* what a thread has to send, each once: [data, id]
    MaxTicks,           \* bound on the number of ticks
    MaxCloses,          \* bound: how often the server renews its stop source
    None

ASSUME BoundsAssumption == MaxTicks \in Nat /\ MaxCloses \in Nat

(* A message with the lines of its data and its identifier, as sequences.  *)
Message == [data : Seq(Seq(Char)), id : Seq(Char)]

ASSUME OutboxAssumption == \A t \in Thread : Outbox[t] \subseteq Message

ASSUME NoneAssumption == None \notin Message

(* An element of the data is one line. *)
ASSUME LineAssumption == "\n" \notin Char

VARIABLES
    listening, source,  \* the listener is open; stop_source_, by number
    stopped,            \* the sources that were asked to stop
    closing, reopens,   \* where sse_server::close() is; it was called by open()
    handler,            \* handle_request: "none", "begun", "done"
    token,              \* the source whose token the connection has
    writable,           \* rw_buffer is open for output
    closeFlag,          \* close_flag
    reply,              \* response_task: "running", "ended", "failed", "done"
    reports,            \* how often on_error was called
    closer,             \* where sse_connection::close() is
    todo,               \* what the call of a thread has still to put
    wire,               \* what is in the response for the client to read
    pending,            \* the client's message
    sending,            \* history: the message of a thread's call, None in a tick
    disturbed,          \* history: threads whose call was not alone, or was cut
    sent, ticks,        \* history: messages begun, ticks
    whole,              \* history: the messages sent undisturbed
    ends,               \* history: where, in wire, those end that are still to be read
    received            \* history: what was dispatched at the ends of the others

server == <<listening, source, stopped, closing, reopens>>
connection == <<token, writable, closeFlag, reply, reports, closer>>
client == <<pending, received, ends>>
calls == <<todo, sending, disturbed, sent, ticks, whole>>
vars == <<server, handler, connection, client, wire, calls>>

LF == "\n"
Symbol == Char \cup {"data:", "id:", ":", LF}
Blank == [data |-> <<>>, id |-> <<>>]

Init ==
    /\ listening = FALSE /\ source = 0 /\ stopped = {} /\ closing = "rest" /\ reopens = FALSE
    /\ handler = "none" /\ token = 0
    /\ writable = FALSE /\ closeFlag = FALSE /\ reply = "none" /\ reports = 0 /\ closer = "rest"
    /\ todo = [t \in Thread |-> <<>>] /\ sending = [t \in Thread |-> None]
    /\ wire = <<>> /\ pending = Blank
    /\ disturbed = {} /\ sent = {} /\ ticks = 0
    /\ whole = <<>> /\ ends = <<>> /\ received = <<>>

-----------------------------------------------------------------------------
(* The server *)

(* close(), by itself or as the first thing open() does *)
Close(again) ==
    /\ closing = "rest" /\ source < MaxCloses
    /\ closing' = "listener" /\ reopens' = again
    /\ stopped' = stopped \cup {source}
    /\ UNCHANGED <<listening, source, handler, connection, client, wire, calls>>

(* The connection is lost, with what was on its way. *)
LoseReply == reply' = "failed" /\ wire' = <<>>

CloseListenerWhen(ready) ==
    /\ closing = "listener" /\ ready
    /\ closing' = "renew"
    /\ listening' = FALSE
    /\ IF reply = "running" THEN LoseReply ELSE UNCHANGED <<reply, wire>>
    /\ UNCHANGED <<source, stopped, reopens, handler, token, writable, closeFlag, reports, closer,
                   client, calls>>

(* Fault: a handler that runs is not waited for. *)
CloseListenerEarly == CloseListenerWhen(TRUE)

CloseListener == CloseListenerWhen(handler # "begun")

Renew ==
    /\ closing = "renew"
    /\ source' = source + 1
    /\ closing' = IF reopens THEN "open" ELSE "rest"
    /\ reopens' = FALSE
    /\ UNCHANGED <<listening, stopped, handler, connection, client, wire, calls>>

Listen ==
    /\ closing = "open"
    /\ listening' = TRUE /\ closing' = "rest"
    /\ UNCHANGED <<source, stopped, reopens, handler, connection, client, wire, calls>>

BeginRequest ==
    /\ listening /\ handler = "none"
    /\ handler' = "begun"
    /\ UNCHANGED <<server, connection, client, wire, calls>>

(* handle_request(): the token of the moment, and a reply that has begun. *)
HandleRequest ==
    /\ handler = "begun"
    /\ handler' = "done"
    /\ token' = source
    /\ writable' = TRUE /\ reply' = "running"
    /\ UNCHANGED <<server, closeFlag, reports, closer, client, wire, calls>>

-----------------------------------------------------------------------------
(* The threads that have the connection *)

Canceled == token \in stopped \/ closeFlag

Busy == {t \in Thread : todo[t] # <<>>}

(* The pieces a call puts. *)
Line(prefix, text) == <<<<prefix>>, text, <<LF>>>>

DataLines(data) ==
    [n \in 1 .. 3 * Len(data) |-> Line("data:", data[((n - 1) \div 3) + 1])[((n - 1) % 3) + 1]]

Lines(m) ==
    DataLines(m.data)
        \o (IF m.data = <<>> THEN <<<<"data:">>, <<LF>>>> ELSE <<>>)
        \o (IF m.id # <<>> THEN Line("id:", m.id) ELSE <<>>)

(* Fault: no blank line after the message. *)
PiecesUnended(m) == Lines(m)

Pieces(m) == Lines(m) \o <<<<LF>>>>

TickPieces == <<<<":">>, <<LF>>, <<LF>>>>

(* A thread looks at canceled() and calls; the connection may be canceled  *)
(* or closed before its first piece.                                       *)
Begin(t, pieces, message) ==
    /\ handler = "done" /\ ~Canceled
    /\ t \notin Busy
    /\ todo' = [todo EXCEPT ![t] = pieces]
    /\ sending' = [sending EXCEPT ![t] = message]
    /\ disturbed' = IF Busy = {} THEN disturbed ELSE Busy \cup {t}
    /\ UNCHANGED <<server, handler, connection, client, wire, whole>>

SendMessage(t, m) ==
    /\ m \in Outbox[t] \ sent
    /\ sent' = sent \cup {m}
    /\ Begin(t, Pieces(m), m)
    /\ UNCHANGED ticks

Tick(t) ==
    /\ t \in Ticker /\ ticks < MaxTicks
    /\ ticks' = ticks + 1
    /\ Begin(t, TickPieces, None)
    /\ UNCHANGED sent

(* A closed buffer takes nothing, and nobody looks; what the buffer of a   *)
(* lost connection takes, nobody reads.                                    *)
Put(t) ==
    LET taken == writable /\ reply = "running"
        cut == IF taken THEN disturbed ELSE disturbed \cup {t}
        last == Len(todo[t]) = 1
        arrives == last /\ t \notin cut /\ sending[t] # None
    IN  /\ todo[t] # <<>>
        /\ wire' = IF taken THEN wire \o Head(todo[t]) ELSE wire
        /\ todo' = [todo EXCEPT ![t] = Tail(@)]
        /\ disturbed' = IF last THEN cut \ {t} ELSE cut
        /\ whole' = IF arrives THEN Append(whole, sending[t]) ELSE whole
        /\ ends' = IF arrives THEN Append(ends, Len(wire')) ELSE ends
        /\ sending' = IF last THEN [sending EXCEPT ![t] = None] ELSE sending
        /\ UNCHANGED <<server, handler, connection, pending, received, sent, ticks>>

(* sse_connection::close() *)
CloseBufferTo(open) ==
    /\ handler = "done" /\ closer = "rest"
    /\ closer' = "flag" /\ writable' = open
    /\ UNCHANGED <<server, handler, token, closeFlag, reply, reports, client, wire, calls>>

(* Fault: the buffer is left open. *)
CloseBufferForgotten == CloseBufferTo(writable)

CloseBuffer == CloseBufferTo(FALSE)

CloseFlagTo(flag) ==
    /\ closer = "flag"
    /\ closer' = "wait" /\ closeFlag' = flag
    /\ UNCHANGED <<server, handler, token, writable, reply, reports, client, wire, calls>>

(* Fault: the connection is not canceled. *)
CloseFlagForgotten == CloseFlagTo(closeFlag)

CloseFlag == CloseFlagTo(TRUE)

CloseWaitsFor(states) ==
    /\ closer = "wait" /\ reply \in states
    /\ closer' = "closed"
    /\ UNCHANGED <<server, handler, token, writable, closeFlag, reply, reports, client, wire, calls>>

(* Fault: the reply is waited for, but not its continuation. *)
CloseWaitsLess == CloseWaitsFor({"ended", "failed", "done"})

CloseWaits == CloseWaitsFor({"done"})

-----------------------------------------------------------------------------
(* The reply and the network *)

Lose ==
    /\ reply = "running"
    /\ LoseReply
    /\ UNCHANGED <<server, handler, token, writable, closeFlag, reports, closer, client, calls>>

EndReply ==
    /\ reply = "running" /\ ~writable /\ wire = <<>>
    /\ reply' = "ended"
    /\ UNCHANGED <<server, handler, token, writable, closeFlag, reports, closer, client, wire, calls>>

(* raise_error() of the connection, the continuation of the reply *)
RaiseErrorWith(flag) ==
    /\ reply \in {"ended", "failed"}
    /\ reply' = "done"
    /\ closeFlag' = (closeFlag \/ (flag /\ reply = "failed"))
    /\ reports' = IF reply = "failed" THEN reports + 1 ELSE reports
    /\ UNCHANGED <<server, handler, token, writable, closer, client, wire, calls>>

(* Fault: the error is reported, and the connection not canceled. *)
RaiseErrorOnly == RaiseErrorWith(FALSE)

RaiseError == RaiseErrorWith(TRUE)

(* What a client gets for a message. *)
Decoded(m) == [data |-> IF m.data = <<>> THEN <<<<>>>> ELSE m.data, id |-> m.id]

(* parse_line() *)
Parsed(line, m) ==
    CASE line[1] = "data:" -> [m EXCEPT !.data = Append(@, Tail(line))]
      [] line[1] = "id:" -> [m EXCEPT !.id = Tail(line)]
      [] OTHER -> m

(* The line up to n has been read. *)
ReadTo(n) ==
    LET reached == ends # <<>> /\ Head(ends) = n
        later == IF reached THEN Tail(ends) ELSE ends
    IN  /\ wire' = SubSeq(wire, n + 1, Len(wire))
        /\ ends' = [k \in DOMAIN later |-> later[k] - n]
        /\ received' = IF reached /\ n = 1 THEN Append(received, pending) ELSE received

(* A blank line dispatches the message. *)
ReceiveThen(rest) ==
    /\ reply = "running"
    /\ \E n \in DOMAIN wire :
          /\ wire[n] = LF /\ LF \notin ToSet(SubSeq(wire, 1, n - 1))
          /\ ReadTo(n)
          /\ pending' = IF n = 1 THEN rest ELSE Parsed(SubSeq(wire, 1, n - 1), pending)
    /\ UNCHANGED <<server, handler, connection, calls>>

(* Fault: the data of a message stays for the next one. *)
ReceiveKeeping == ReceiveThen([pending EXCEPT !.id = <<>>])

Receive == ReceiveThen(Blank)

(* What is left of an unfinished line. *)
ReceiveRest ==
    /\ reply = "running" /\ ~writable
    /\ wire # <<>> /\ LF \notin ToSet(wire)
    /\ wire' = <<>>
    /\ pending' = Parsed(wire, pending)
    /\ UNCHANGED <<server, handler, connection, received, ends, calls>>

ServerStep == CloseListener \/ Renew \/ Listen \/ HandleRequest
ThreadStep == \E t \in Thread : Put(t)
CloserStep == CloseFlag \/ CloseWaits
NetworkStep == EndReply \/ RaiseError \/ Receive \/ ReceiveRest

Next ==
    \/ \E again \in BOOLEAN : Close(again)
    \/ BeginRequest
    \/ \E t \in Thread : Tick(t) \/ \E m \in Outbox[t] : SendMessage(t, m)
    \/ CloseBuffer \/ Lose
    \/ ServerStep \/ ThreadStep \/ CloserStep \/ NetworkStep

(* Calls that have begun go on, and the network delivers or fails. *)
Fairness ==
    /\ WF_vars(ServerStep) /\ WF_vars(ThreadStep) /\ WF_vars(CloserStep)
    /\ WF_vars(NetworkStep)

Spec == Init /\ [][Next]_vars /\ Fairness
-----------------------------------------------------------------------------
(* Properties *)

TypeOK ==
    /\ source \in 0 .. MaxCloses /\ stopped \subseteq 0 .. source /\ token \in 0 .. source
    /\ closing \in {"rest", "listener", "renew", "open"}
    /\ handler \in {"none", "begun", "done"}
    /\ reply \in {"none", "running", "ended", "failed", "done"}
    /\ closer \in {"rest", "flag", "wait", "closed"}
    /\ {listening, reopens, writable, closeFlag} \subseteq BOOLEAN
    /\ closer = "closed" => Canceled /\ ~writable
    /\ reports \in 0 .. 1 /\ disturbed \subseteq Busy

(* However the calls of several threads were mixed, when none is running   *)
(* the response ends with a blank line: a mixed-up message never spoils    *)
(* one that is sent later, unless the connection was closed.               *)
CleanBoundary ==
    writable /\ reply = "running" /\ Busy = {} =>
        IF wire = <<>> THEN pending = Blank
        ELSE \A k \in {Len(wire), Len(wire) - 1} : k > 0 => wire[k] = LF

(* A message that was sent while no other call was running, and before the *)
(* connection was closed, arrives as it was sent, and in order, if the     *)
(* client reads that far, whatever ticks and mixed-up messages came        *)
(* before it.                                                              *)
Delivered ==
    LET expected == [k \in DOMAIN whole |-> Decoded(whole[k])]
    IN  IsPrefix(received, expected) /\ (reply = "running" /\ wire = <<>> => received = expected)

(* Once sse_server::close() has returned, and for every connection of an   *)
(* earlier opening, canceled() holds; this needs the listener to wait for  *)
(* the handler that is about to take its token.                            *)
ServerCloseCancels ==
    handler = "done" /\ (token < source \/ (closing = "rest" /\ ~listening)) => token \in stopped

(* After close() of the connection has returned, on_error is not called.   *)
ClosedQuiet == [][closer = "closed" => reports' = reports]_vars

(* close() of a connection comes back while the network delivers or fails. *)
CloseReturns == closer # "rest" ~> closer = "closed"

(* A connection that was lost, or dropped by the server, is reported and   *)
(* canceled.                                                               *)
LossNoticed == reply = "failed" ~> closeFlag /\ reports = 1

(* Whatever was mixed up before, a message sent by itself arrives.         *)
Delivery == TypeOK /\ CleanBoundary /\ Delivered

(* close() of a connection comes back, and after that nothing is reported. *)
Closing == CloseReturns /\ ClosedQuiet
-----------------------------------------------------------------------------
(* The inductive invariant behind ServerCloseCancels, ClosedQuiet and      *)
(* CleanBoundary.  SseServerProofs strengthens it for Delivered.           *)

(* Every source but the last was stopped before it was renewed, and a       *)
(* connection of the last one has a listener that is open, or about to be   *)
(* renewed.                                                                 *)
ServerInv ==
    /\ \A k \in 0 .. source : k < source \/ closing \in {"listener", "renew"} => k \in stopped
    /\ closing \in {"listener", "renew"} => source < MaxCloses
    /\ listening => closing \in {"rest", "listener"}
    /\ handler = "begun" => listening
    /\ handler = "done" /\ token = source => listening \/ closing = "renew"

(* Before its handler the connection is untouched; close() of it closes the *)
(* buffer, cancels and then waits for the continuation of the reply.        *)
ConnectionInv ==
    /\ handler # "done" =>
          /\ reply = "none" /\ closer = "rest" /\ ~writable
          /\ Busy = {} /\ wire = <<>> /\ pending = Blank
    /\ reply # "done" => reports = 0
    /\ closer # "rest" => ~writable
    /\ closer \in {"wait", "closed"} => closeFlag
    /\ closer = "closed" => reply = "done"

(* What is left of a call ends with a blank line. *)
EndsBlank(pieces) == \A k \in {Len(pieces), Len(pieces) - 1} : k > 0 => pieces[k] = <<LF>>

CallsInv ==
    /\ todo \in [Thread -> Seq(Seq(Symbol))] /\ wire \in Seq(Symbol)
    /\ \A t \in Thread : EndsBlank(todo[t])

(* When every running call has its last piece left, a line has just ended.  *)
LineEnded ==
    writable /\ reply = "running" /\ (\A t \in Busy : Len(todo[t]) = 1) =>
        wire = <<>> \/ wire[Len(wire)] = LF

IInv == TypeOK /\ ServerInv /\ ConnectionInv /\ CallsInv /\ LineEnded /\ CleanBoundary
===============================================================================
