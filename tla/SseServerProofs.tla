---------------------------- MODULE SseServerProofs ----------------------------
(***************************************************************************)
(* Theorems about SseServer, for any threads and messages and any number   *)
(* of openings: closing the server cancels its connections, a connection   *)
(* that was closed is quiet, calls that were mixed up leave the response   *)
(* at a boundary, and a message sent by itself arrives.                    *)
(***************************************************************************)
EXTENDS SseServer, TLAPS

-----------------------------------------------------------------------------
(* What a call puts.                                                       *)

LEMMA EmptyHasNoLength == ASSUME NEW S, NEW s \in Seq(S) PROVE s = <<>> <=> Len(s) = 0
OBVIOUS

(* Pieces that end a line. *)
EndsLine(pieces) ==
  pieces \in Seq(Seq(Symbol)) /\ Len(pieces) > 0 /\ pieces[Len(pieces)] = <<LF>>

(* A call has at least two pieces to put, and the last two end a line each. *)
IsCall(pieces) == pieces \in Seq(Seq(Symbol)) /\ Len(pieces) >= 2 /\ EndsBlank(pieces)

LEMMA NothingJoined == ASSUME NEW S, NEW s \in Seq(S) PROVE s \o <<>> = s
OBVIOUS

LEMMA JoinedEndsLine ==
  ASSUME NEW x \in Seq(Seq(Symbol)), NEW y, EndsLine(y)
  PROVE  EndsLine(x \o y)
BY DEF EndsLine

LEMMA BlankLineAfter ==
  ASSUME NEW x, EndsLine(x)
  PROVE  IsCall(x \o <<<<LF>>>>)
<1>1. <<LF>> \in Seq(Symbol)
  BY DEF Symbol
<1>2. /\ x \o <<<<LF>>>> \in Seq(Seq(Symbol)) /\ Len(x \o <<<<LF>>>>) = Len(x) + 1
      /\ (x \o <<<<LF>>>>)[Len(x)] = <<LF>> /\ (x \o <<<<LF>>>>)[Len(x) + 1] = <<LF>>
  BY <1>1 DEF EndsLine
<1> QED
  BY <1>2 DEF EndsLine, IsCall, EndsBlank

LEMMA LineIsSequence ==
  ASSUME NEW prefix \in Symbol, NEW text \in Seq(Char)
  PROVE  /\ Line(prefix, text) \in Seq(Seq(Symbol)) /\ Len(Line(prefix, text)) = 3
         /\ Line(prefix, text)[3] = <<LF>> /\ EndsLine(Line(prefix, text))
<1>1. <<prefix>> \in Seq(Symbol) /\ <<LF>> \in Seq(Symbol) /\ text \in Seq(Symbol)
  BY DEF Symbol
<1> QED
  BY <1>1 DEF Line, EndsLine

LEMMA DataLinesAreSequences ==
  ASSUME NEW data \in Seq(Seq(Char))
  PROVE  /\ DataLines(data) \in Seq(Seq(Symbol)) /\ Len(DataLines(data)) = 3 * Len(data)
         /\ data # <<>> => DataLines(data)[3 * Len(data)] = <<LF>>
<1>1. Len(data) \in Nat /\ DOMAIN data = 1 .. Len(data)
  OBVIOUS
<1>2. ASSUME NEW n \in 1 .. 3 * Len(data)
      PROVE  /\ ((n - 1) \div 3) + 1 \in DOMAIN data /\ ((n - 1) % 3) + 1 \in 1 .. 3
             /\ n = 3 * Len(data) => ((n - 1) % 3) + 1 = 3
  BY <1>1, Z3
<1>3. \A n \in 1 .. 3 * Len(data) :
         Line("data:", data[((n - 1) \div 3) + 1])[((n - 1) % 3) + 1] \in Seq(Symbol)
  <2> TAKE n \in 1 .. 3 * Len(data)
  <2> DEFINE text == data[((n - 1) \div 3) + 1]
             k == ((n - 1) % 3) + 1
  <2>1. text \in Seq(Char) /\ k \in 1 .. 3
    BY <1>2
  <2> HIDE DEF text, k
  <2>2. Line("data:", text)[k] \in Seq(Symbol)
    <3>1. "data:" \in Symbol
      BY DEF Symbol
    <3>2. Line("data:", text) \in Seq(Seq(Symbol)) /\ Len(Line("data:", text)) = 3
      BY <2>1, <3>1, LineIsSequence
    <3> QED
      BY <2>1, <3>2
  <2> QED
    BY <2>2 DEF text, k
<1>4. DataLines(data) \in Seq(Seq(Symbol)) /\ Len(DataLines(data)) = 3 * Len(data)
  BY <1>1, <1>3 DEF DataLines
<1>5. ASSUME data # <<>> PROVE DataLines(data)[3 * Len(data)] = <<LF>>
  <2> DEFINE n == 3 * Len(data)
  <2>1. n \in 1 .. 3 * Len(data) /\ n = 3 * Len(data)
    BY <1>1, <1>5
  <2> HIDE DEF n
  <2> DEFINE text == data[((n - 1) \div 3) + 1]
  <2>2. ((n - 1) \div 3) + 1 \in DOMAIN data /\ ((n - 1) % 3) + 1 = 3
    <3> HIDE DEF text
    <3> QED
      BY <1>2, <2>1
  <2>3. DataLines(data)[n] = Line("data:", text)[((n - 1) % 3) + 1]
    BY <2>1 DEF DataLines
  <2>4. text \in Seq(Char)
    BY <2>2
  <2>5. "data:" \in Symbol
    BY DEF Symbol
  <2> HIDE DEF text
  <2> QED
    BY <2>1, <2>2, <2>3, <2>4, <2>5, LineIsSequence
<1> QED
  BY <1>4, <1>5

LEMMA TickIsCall == IsCall(TickPieces)
<1>1. <<":">> \in Seq(Symbol) /\ <<LF>> \in Seq(Symbol)
  BY DEF Symbol
<1> QED
  BY <1>1 DEF IsCall, TickPieces, EndsBlank

LEMMA PiecesAreCall ==
  ASSUME NEW m \in Message
  PROVE  IsCall(Pieces(m))
<1> DEFINE data == DataLines(m.data)
           empty == IF m.data = <<>> THEN <<<<"data:">>, <<LF>>>> ELSE <<>>
           id == IF m.id # <<>> THEN Line("id:", m.id) ELSE <<>>
<1>1. Lines(m) = data \o empty \o id
  BY DEF Lines
<1>2. data \in Seq(Seq(Symbol)) /\ (m.data # <<>> => EndsLine(data))
  <2>1. m.data \in Seq(Seq(Char)) /\ Len(m.data) \in Nat
    BY DEF Message
  <2>2. /\ data \in Seq(Seq(Symbol)) /\ Len(data) = 3 * Len(m.data)
        /\ m.data # <<>> => data[3 * Len(m.data)] = <<LF>>
    BY <2>1, DataLinesAreSequences
  <2>3. m.data # <<>> => 3 * Len(m.data) > 0
    BY <2>1
  <2> QED
    BY <2>2, <2>3 DEF EndsLine
<1>3. m.data = <<>> => EndsLine(empty)
  BY DEF EndsLine, Symbol
<1>4. m.data # <<>> => empty = <<>>
  OBVIOUS
<1>5. m.id # <<>> => EndsLine(id)
  <2>1. EndsLine(Line("id:", m.id))
    <3>1. m.id \in Seq(Char) /\ "id:" \in Symbol
      BY DEF Symbol, Message
    <3> QED
      BY <3>1, LineIsSequence
  <2> QED
    BY <2>1
<1>6. m.id = <<>> => id = <<>>
  OBVIOUS
<1> HIDE DEF data, empty, id
<1>7. EndsLine(data \o empty)
  <2>1. CASE m.data = <<>>
    BY <1>2, <1>3, <2>1, JoinedEndsLine
  <2>2. CASE m.data # <<>>
    <3>1. data \o empty = data
      BY <1>2, <1>4, <2>2, NothingJoined
    <3> QED
      BY <1>2, <2>2, <3>1
  <2> QED
    BY <2>1, <2>2
<1>8. EndsLine(data \o empty \o id)
  <2> DEFINE before == data \o empty
  <2>1. before \in Seq(Seq(Symbol)) /\ EndsLine(before)
    BY <1>7 DEF EndsLine
  <2> HIDE DEF before
  <2>2. EndsLine(before \o id)
    <3>1. CASE m.id # <<>>
      BY <1>5, <2>1, <3>1, JoinedEndsLine
    <3>2. CASE m.id = <<>>
      <4>1. before \o id = before
        BY <1>6, <2>1, <3>2, NothingJoined
      <4> QED
        BY <2>1, <4>1
    <3> QED
      BY <3>1, <3>2
  <2> QED
    BY <2>2 DEF before
<1> QED
  BY <1>1, <1>8, BlankLineAfter DEF Pieces

-----------------------------------------------------------------------------
(* The steps that put nothing into the response and take nothing out.      *)

LEMMA ResponseUndisturbed ==
  ASSUME CallsInv, LineEnded, CleanBoundary, UNCHANGED <<todo, wire, pending, writable, reply>>
  PROVE  CallsInv' /\ LineEnded' /\ CleanBoundary' /\ Busy' = Busy
BY DEF CallsInv, LineEnded, CleanBoundary, Busy

(* Once the response is closed or over, how it ends does not matter. *)
LEMMA ResponseOver ==
  ASSUME CallsInv, UNCHANGED todo, wire' = wire \/ wire' = <<>>, ~(writable' /\ reply' = "running")
  PROVE  CallsInv' /\ LineEnded' /\ CleanBoundary' /\ Busy' = Busy
<1>1. wire' \in Seq(Symbol)
  <2>1. wire \in Seq(Symbol) /\ <<>> \in Seq(Symbol)
    BY DEF CallsInv
  <2> QED
    BY <2>1
<1>2. CallsInv' /\ Busy' = Busy
  BY <1>1 DEF CallsInv, Busy
<1>3. LineEnded' /\ CleanBoundary'
  BY DEF LineEnded, CleanBoundary
<1> QED
  BY <1>2, <1>3

LEMMA CloseKeeps == ASSUME IInv, NEW again \in BOOLEAN, Close(again) PROVE IInv'
<1>1. CallsInv' /\ LineEnded' /\ CleanBoundary' /\ Busy' = Busy
  BY ResponseUndisturbed DEF IInv, Close, connection, client, calls
<1>2. TypeOK'
  BY <1>1 DEF IInv, TypeOK, Close, connection, client, calls, Canceled
<1>3. ServerInv'
  BY DEF IInv, TypeOK, ServerInv, Close, connection
<1>4. ConnectionInv'
  BY <1>1 DEF IInv, TypeOK, ConnectionInv, Close, connection, client, calls
<1> QED
  BY <1>1, <1>2, <1>3, <1>4 DEF IInv

LEMMA CloseListenerKeeps == ASSUME IInv, CloseListener PROVE IInv'
<1> USE DEF CloseListener, CloseListenerWhen, LoseReply, client, calls
<1>1. CallsInv' /\ LineEnded' /\ CleanBoundary' /\ Busy' = Busy
  <2>1. CASE reply = "running"
    BY <2>1, ResponseOver DEF IInv
  <2>2. CASE reply # "running"
    BY <2>2, ResponseUndisturbed DEF IInv
  <2> QED
    BY <2>1, <2>2
<1>2. TypeOK'
  BY <1>1 DEF IInv, TypeOK, Canceled
<1>3. ServerInv'
  BY DEF IInv, TypeOK, ServerInv
<1>4. ConnectionInv'
  BY <1>1 DEF IInv, TypeOK, ConnectionInv
<1> QED
  BY <1>1, <1>2, <1>3, <1>4 DEF IInv

LEMMA RenewKeeps == ASSUME IInv, Renew PROVE IInv'
<1> USE DEF Renew, connection, client, calls
<1>1. CallsInv' /\ LineEnded' /\ CleanBoundary' /\ Busy' = Busy
  BY ResponseUndisturbed DEF IInv
<1>2. TypeOK'
  <2>1. source' \in 0 .. MaxCloses /\ 0 .. source \subseteq 0 .. source' /\ source' = source + 1
    BY BoundsAssumption DEF IInv, TypeOK, ServerInv
  <2>2. stopped' \subseteq 0 .. source' /\ token' \in 0 .. source'
    BY <2>1 DEF IInv, TypeOK
  <2>3. closing' \in {"rest", "listener", "renew", "open"} /\ reopens' \in BOOLEAN
    OBVIOUS
  <2> QED
    BY <1>1, <2>1, <2>2, <2>3 DEF IInv, TypeOK, Canceled
<1>3. ServerInv'
  BY BoundsAssumption DEF IInv, TypeOK, ServerInv
<1>4. ConnectionInv'
  BY <1>1 DEF IInv, ConnectionInv
<1> QED
  BY <1>1, <1>2, <1>3, <1>4 DEF IInv

LEMMA ListenKeeps == ASSUME IInv, Listen PROVE IInv'
<1> USE DEF Listen, connection, client, calls
<1>1. CallsInv' /\ LineEnded' /\ CleanBoundary' /\ Busy' = Busy
  BY ResponseUndisturbed DEF IInv
<1>2. TypeOK'
  BY <1>1 DEF IInv, TypeOK, Canceled
<1>3. ServerInv'
  BY DEF IInv, TypeOK, ServerInv
<1>4. ConnectionInv'
  BY <1>1 DEF IInv, TypeOK, ConnectionInv
<1> QED
  BY <1>1, <1>2, <1>3, <1>4 DEF IInv

LEMMA BeginRequestKeeps == ASSUME IInv, BeginRequest PROVE IInv'
<1> USE DEF BeginRequest, server, connection, client, calls
<1>1. CallsInv' /\ LineEnded' /\ CleanBoundary' /\ Busy' = Busy
  BY ResponseUndisturbed DEF IInv
<1>2. TypeOK'
  BY <1>1 DEF IInv, TypeOK, Canceled
<1>3. ServerInv'
  BY DEF IInv, TypeOK, ServerInv
<1>4. ConnectionInv'
  BY <1>1 DEF IInv, TypeOK, ConnectionInv
<1> QED
  BY <1>1, <1>2, <1>3, <1>4 DEF IInv

LEMMA HandleRequestKeeps == ASSUME IInv, HandleRequest PROVE IInv'
<1> USE DEF HandleRequest, server, client, calls
<1>1. Busy' = Busy /\ Busy = {} /\ wire' = <<>> /\ pending' = Blank
  BY DEF IInv, ConnectionInv, Busy
<1>2. CallsInv' /\ LineEnded' /\ CleanBoundary'
  BY <1>1 DEF IInv, CallsInv, LineEnded, CleanBoundary, Blank
<1>3. TypeOK'
  BY <1>1, BoundsAssumption DEF IInv, TypeOK, ConnectionInv, Canceled
<1>4. ServerInv'
  BY DEF IInv, TypeOK, ServerInv
<1>5. ConnectionInv'
  BY <1>1 DEF IInv, TypeOK, ConnectionInv
<1> QED
  BY <1>2, <1>3, <1>4, <1>5 DEF IInv

LEMMA ClosingKeeps == ASSUME IInv, CloseBuffer \/ CloseFlag \/ CloseWaits PROVE IInv'
<1> USE DEF server, client, calls
<1>1. CASE CloseBuffer
  <2> USE <1>1 DEF CloseBuffer, CloseBufferTo
  <2>1. CallsInv' /\ LineEnded' /\ CleanBoundary' /\ Busy' = Busy
    BY ResponseOver DEF IInv
  <2>2. TypeOK'
    BY <2>1 DEF IInv, TypeOK, Canceled
  <2>3. ServerInv'
    BY DEF IInv, ServerInv
  <2>4. ConnectionInv'
    BY <2>1 DEF IInv, TypeOK, ConnectionInv
  <2> QED
    BY <2>1, <2>2, <2>3, <2>4 DEF IInv
<1>2. CASE CloseFlag
  <2> USE <1>2 DEF CloseFlag, CloseFlagTo
  <2>1. CallsInv' /\ LineEnded' /\ CleanBoundary' /\ Busy' = Busy
    BY ResponseUndisturbed DEF IInv
  <2>2. TypeOK'
    BY <2>1 DEF IInv, TypeOK, Canceled
  <2>3. ServerInv'
    BY DEF IInv, ServerInv
  <2>4. ConnectionInv'
    BY <2>1 DEF IInv, TypeOK, ConnectionInv
  <2> QED
    BY <2>1, <2>2, <2>3, <2>4 DEF IInv
<1>3. CASE CloseWaits
  <2> USE <1>3 DEF CloseWaits, CloseWaitsFor
  <2>1. CallsInv' /\ LineEnded' /\ CleanBoundary' /\ Busy' = Busy
    BY ResponseUndisturbed DEF IInv
  <2>2. TypeOK'
    <3>1. closeFlag' /\ ~writable'
      BY DEF IInv, ConnectionInv
    <3> QED
      BY <2>1, <3>1 DEF IInv, TypeOK, Canceled
  <2>3. ServerInv'
    BY DEF IInv, ServerInv
  <2>4. ConnectionInv'
    BY <2>1 DEF IInv, TypeOK, ConnectionInv
  <2> QED
    BY <2>1, <2>2, <2>3, <2>4 DEF IInv
<1> QED
  BY <1>1, <1>2, <1>3

LEMMA ReplyKeeps == ASSUME IInv, Lose \/ EndReply \/ RaiseError PROVE IInv'
<1> USE DEF server, client, calls
<1>1. CASE Lose \/ EndReply
  <2> USE <1>1 DEF Lose, LoseReply, EndReply
  <2>1. CallsInv' /\ LineEnded' /\ CleanBoundary' /\ Busy' = Busy
    BY ResponseOver DEF IInv
  <2>2. TypeOK'
    <3>1. closer' = "closed" => Canceled' /\ ~writable'
      BY DEF IInv, TypeOK, Canceled
    <3>2. reply' \in {"failed", "ended"}
      OBVIOUS
    <3>3. UNCHANGED <<source, stopped, token, closing, handler, closer, listening, reopens,
                      writable, closeFlag, reports, disturbed>>
      OBVIOUS
    <3> QED
      BY <2>1, <3>1, <3>2, <3>3, SMT DEF IInv, TypeOK
  <2>3. ServerInv'
    BY DEF IInv, ServerInv
  <2>4. ConnectionInv'
    BY <2>1 DEF IInv, TypeOK, ConnectionInv
  <2> QED
    BY <2>1, <2>2, <2>3, <2>4 DEF IInv
<1>2. CASE RaiseError
  <2> USE <1>2 DEF RaiseError, RaiseErrorWith
  <2>1. CallsInv' /\ LineEnded' /\ CleanBoundary' /\ Busy' = Busy
    BY ResponseOver DEF IInv
  <2>2. closeFlag' \in BOOLEAN /\ reports' \in 0 .. 1
    BY DEF IInv, TypeOK, ConnectionInv
  <2>3. TypeOK'
    BY <2>1, <2>2 DEF IInv, TypeOK, Canceled
  <2>4. ServerInv'
    BY DEF IInv, ServerInv
  <2>5. ConnectionInv'
    BY <2>1 DEF IInv, TypeOK, ConnectionInv
  <2> QED
    BY <2>1, <2>3, <2>4, <2>5 DEF IInv
<1> QED
  BY <1>1, <1>2
-----------------------------------------------------------------------------
(* The calls.                                                              *)

LEMMA BeginKeeps ==
  ASSUME IInv, NEW t \in Thread, NEW pieces, IsCall(pieces), NEW message, Begin(t, pieces, message)
  PROVE  IInv'
<1> USE DEF Begin, server, connection, client
<1>1. todo' = [todo EXCEPT ![t] = pieces] /\ Len(pieces) >= 2 /\ EndsBlank(pieces)
  BY DEF IsCall
<1>2. CallsInv'
  BY <1>1 DEF IInv, CallsInv, IsCall
<1>3. Busy' = Busy \cup {t} /\ todo'[t] = pieces /\ Len(pieces) \in Nat
  <2>1. todo'[t] = pieces /\ pieces # <<>> /\ Len(pieces) \in Nat
    BY <1>1 DEF IInv, CallsInv, IsCall
  <2>2. \A u \in Thread \ {t} : todo'[u] = todo[u]
    BY <1>1 DEF IInv, CallsInv
  <2> QED
    BY <1>1, <2>1, <2>2 DEF Busy
<1>4. LineEnded' /\ CleanBoundary'
  <2>1. t \in Busy'
    BY <1>3
  <2>2. pieces \in Seq(Seq(Symbol))
    BY DEF IsCall
  <2>3. Len(todo'[t]) # 1
    <3>1. ASSUME Len(pieces) = 1 PROVE FALSE
      BY <1>1, <2>2, <3>1
    <3> QED
      BY <1>3, <3>1
  <2> QED
    BY <2>1, <2>3 DEF LineEnded, CleanBoundary
<1>5. TypeOK'
  BY <1>3 DEF IInv, TypeOK, Canceled
<1>6. ServerInv' /\ ConnectionInv'
  BY DEF IInv, ServerInv, ConnectionInv
<1> QED
  BY <1>2, <1>4, <1>5, <1>6 DEF IInv

LEMMA PutKeeps == ASSUME IInv, NEW t \in Thread, Put(t) PROVE IInv'
<1> DEFINE taken == writable /\ reply = "running"
           pieces == todo[t]
<1> USE DEF server, connection, client
<1>1. /\ pieces \in Seq(Seq(Symbol)) /\ EndsBlank(pieces) /\ Len(pieces) \in Nat \ {0}
      /\ wire \in Seq(Symbol) /\ t \in Busy
  BY DEF IInv, CallsInv, Put, Busy
<1>2. /\ todo'[t] = Tail(pieces)
      /\ \A u \in Thread \ {t} : todo'[u] = todo[u]
      /\ todo' = [todo EXCEPT ![t] = Tail(pieces)]
      /\ wire' = IF taken THEN wire \o Head(pieces) ELSE wire
      /\ UNCHANGED <<server, handler, connection, pending>>
  BY DEF IInv, CallsInv, Put
<1> HIDE DEF pieces
<1>3. /\ Tail(pieces) \in Seq(Seq(Symbol)) /\ EndsBlank(Tail(pieces))
      /\ Len(Tail(pieces)) = Len(pieces) - 1 /\ Head(pieces) \in Seq(Symbol)
      /\ Len(pieces) \in {1, 2} => Head(pieces) = <<LF>>
      /\ Tail(pieces) = <<>> <=> Len(pieces) = 1
  <2>1. /\ Tail(pieces) \in Seq(Seq(Symbol)) /\ Len(Tail(pieces)) = Len(pieces) - 1
        /\ \A k \in 1 .. Len(pieces) - 1 : Tail(pieces)[k] = pieces[k + 1]
        /\ Head(pieces) = pieces[1] /\ Head(pieces) \in Seq(Symbol)
    BY <1>1
  <2>2. EndsBlank(Tail(pieces))
    <3>0. Len(Tail(pieces)) = Len(pieces) - 1 /\ Len(Tail(pieces)) - 1 = Len(pieces) - 2
      BY <1>1, <2>1
    <3> SUFFICES ASSUME NEW k \in {Len(pieces) - 1, Len(pieces) - 2}, k > 0
                 PROVE  Tail(pieces)[k] = <<LF>>
      BY <3>0, Zenon DEF EndsBlank
    <3>1. k \in 1 .. Len(pieces) - 1 /\ k + 1 \in {Len(pieces), Len(pieces) - 1} /\ k + 1 > 0
      BY <1>1
    <3> QED
      BY <1>1, <2>1, <3>1 DEF EndsBlank
  <2>3. Len(pieces) \in {1, 2} => pieces[1] = <<LF>>
    <3>1. 1 \in {Len(pieces), Len(pieces) - 1} <=> Len(pieces) \in {1, 2}
      BY <1>1
    <3> QED
      BY <1>1, <3>1 DEF EndsBlank
  <2>4. Tail(pieces) = <<>> <=> Len(pieces) = 1
    <3> DEFINE rest == Tail(pieces)
               size == Len(pieces)
    <3>1. rest \in Seq(Seq(Symbol)) /\ Len(rest) = size - 1 /\ size \in Nat
      BY <1>1, <2>1
    <3> HIDE DEF rest, size
    <3>2. rest = <<>> <=> Len(rest) = 0
      BY <3>1, EmptyHasNoLength
    <3>3. rest = <<>> <=> size = 1
      BY <3>1, <3>2
    <3> QED
      BY <3>3 DEF rest, size
  <2> QED
    BY <2>1, <2>2, <2>3, <2>4
<1>4. Busy' = IF Len(pieces) = 1 THEN Busy \ {t} ELSE Busy
  BY <1>1, <1>2, <1>3 DEF Busy
<1>5. CallsInv'
  <2>1. wire' \in Seq(Symbol)
    BY <1>1, <1>2, <1>3
  <2>2. todo' \in [Thread -> Seq(Seq(Symbol))]
    BY <1>2, <1>3 DEF IInv, CallsInv
  <2>3. \A u \in Thread : EndsBlank(todo'[u])
    BY <1>2, <1>3 DEF IInv, CallsInv
  <2> QED
    BY <2>1, <2>2, <2>3 DEF CallsInv
<1>6. LineEnded'
  <2> SUFFICES ASSUME taken, \A u \in Busy' : Len(todo'[u]) = 1
               PROVE  wire'[Len(wire')] = LF
    BY <1>2 DEF LineEnded
  <2>1. Len(pieces) \in {1, 2}
    <3>1. Len(pieces) # 1 => t \in Busy'
      BY <1>1, <1>4
    <3>2. t \in Busy' => Len(pieces) - 1 = 1
      BY <1>2, <1>3
    <3> QED
      BY <1>1, <3>1, <3>2
  <2>2. wire' = wire \o <<LF>>
    BY <1>2, <1>3, <2>1
  <2> QED
    BY <1>1, <2>2
<1>7. CleanBoundary'
  <2> SUFFICES ASSUME taken, Busy' = {}
               PROVE  /\ wire' # <<>>
                      /\ \A k \in {Len(wire'), Len(wire') - 1} : k > 0 => wire'[k] = LF
    BY <1>2 DEF CleanBoundary
  <2>1. Len(pieces) = 1 /\ Busy = {t}
    BY <1>1, <1>4
  <2>2. wire = <<>> \/ wire[Len(wire)] = LF
    BY <2>1 DEF IInv, LineEnded, pieces
  <2>3. wire' = wire \o <<LF>>
    BY <1>2, <1>3, <2>1
  <2> QED
    BY <1>1, <2>2, <2>3
<1>8. TypeOK'
  <2>1. disturbed' \subseteq Busy'
    <3>1. CASE Len(pieces) = 1
      BY <1>4, <3>1 DEF IInv, TypeOK, Put, pieces
    <3>2. CASE Len(pieces) # 1
      BY <1>1, <1>4, <3>2 DEF IInv, TypeOK, Put, pieces
    <3> QED
      BY <3>1, <3>2
  <2> QED
    BY <1>2, <2>1 DEF IInv, TypeOK, Canceled
<1>9. ServerInv'
  BY <1>2 DEF IInv, ServerInv
<1>10. ConnectionInv'
  BY <1>1, <1>2 DEF IInv, ConnectionInv
<1> QED
  BY <1>5, <1>6, <1>7, <1>8, <1>9, <1>10 DEF IInv

-----------------------------------------------------------------------------
(* The client.                                                             *)

LEMMA ReceiveKeeps == ASSUME IInv, Receive PROVE IInv'
<1> USE DEF server, connection, calls
<1>0. PICK n \in DOMAIN wire :
      /\ wire[n] = LF /\ LF \notin ToSet(SubSeq(wire, 1, n - 1))
      /\ wire' = SubSeq(wire, n + 1, Len(wire))
      /\ n = 1 => pending' = Blank
  BY DEF Receive, ReceiveThen, ReadTo
<1>1. UNCHANGED <<server, handler, connection, calls>> /\ reply = "running"
  BY DEF Receive, ReceiveThen, ReadTo
<1>2. wire \in Seq(Symbol) /\ Len(wire) \in Nat /\ n \in 1 .. Len(wire)
  BY <1>0 DEF IInv, CallsInv
<1>3. /\ wire' \in Seq(Symbol) /\ Len(wire') = Len(wire) - n /\ Len(wire') \in Nat
      /\ \A k \in 1 .. Len(wire') : wire'[k] = wire[n + k]
  BY <1>0, <1>2
<1>4. \A k \in 1 .. n - 1 : wire[k] # LF
  <2>1. /\ DOMAIN SubSeq(wire, 1, n - 1) = 1 .. n - 1
        /\ \A k \in 1 .. n - 1 : SubSeq(wire, 1, n - 1)[k] = wire[k]
    BY <1>2
  <2> QED
    BY <1>0, <2>1 DEF ToSet
<1>5. wire' = <<>> <=> n = Len(wire)
  <2>1. wire' = <<>> <=> Len(wire') = 0
    BY <1>3, EmptyHasNoLength
  <2> QED
    BY <1>2, <1>3, <2>1
<1>6. Busy' = Busy /\ CallsInv'
  BY <1>1, <1>3 DEF IInv, CallsInv, Busy
<1>7. LineEnded'
  <2> SUFFICES ASSUME writable, \A u \in Busy : Len(todo[u]) = 1, wire' # <<>>
               PROVE  wire'[Len(wire')] = LF
    BY <1>1, <1>6 DEF LineEnded
  <2>1. wire[Len(wire)] = LF
    BY <1>0, <1>1, <1>2 DEF IInv, LineEnded
  <2>2. n # Len(wire) /\ Len(wire') \in Nat /\ Len(wire') = Len(wire) - n
    BY <1>3, <1>5
  <2>3. Len(wire') \in 1 .. Len(wire') /\ n + Len(wire') = Len(wire)
    <3>1. \A a, b \in Nat : n \in 1 .. a /\ n # a /\ b = a - n => b \in 1 .. b /\ n + b = a
      OBVIOUS
    <3> QED
      BY <1>2, <2>2, <3>1
  <2> QED
    BY <1>3, <2>1, <2>3
<1>8. CleanBoundary'
  <2> SUFFICES ASSUME writable, Busy = {}
               PROVE  IF wire' = <<>> THEN pending' = Blank
                      ELSE \A k \in {Len(wire'), Len(wire') - 1} : k > 0 => wire'[k] = LF
    BY <1>1, <1>6 DEF CleanBoundary
  <2>1. \A k \in {Len(wire), Len(wire) - 1} : k > 0 => wire[k] = LF
    BY <1>0, <1>1, <1>2 DEF IInv, CleanBoundary
  <2>2. CASE wire' = <<>>
    <3>1. n = Len(wire) /\ ~(n - 1 > 0)
      BY <1>2, <1>4, <1>5, <2>1, <2>2
    <3> QED
      BY <1>0, <1>2, <2>2, <3>1
  <2>3. CASE wire' # <<>>
    <3>1. \A k \in {Len(wire'), Len(wire') - 1} : n + k \in {Len(wire), Len(wire) - 1}
      BY <1>2, <1>3, SMTT(30)
    <3>2. ASSUME NEW k \in {Len(wire'), Len(wire') - 1}, k > 0 PROVE wire'[k] = LF
      <4>1. k \in {Len(wire'), Len(wire') - 1} /\ Len(wire') \in Nat
        BY <1>3
      <4>2. k \in 1 .. Len(wire') /\ n + k > 0
        BY <1>2, <3>2, <4>1
      <4> QED
        BY <1>3, <2>1, <3>1, <4>2
    <3> QED
      BY <2>3, <3>2
  <2> QED
    BY <2>2, <2>3
<1>9. TypeOK' /\ ServerInv'
  BY <1>1, <1>6 DEF IInv, TypeOK, Canceled, ServerInv
<1>10. ConnectionInv'
  BY <1>1 DEF IInv, ConnectionInv
<1> QED
  BY <1>6, <1>7, <1>8, <1>9, <1>10 DEF IInv

LEMMA ReceiveRestKeeps == ASSUME IInv, ReceiveRest PROVE IInv'
<1> USE DEF ReceiveRest, server, connection, calls
<1>1. CallsInv' /\ LineEnded' /\ CleanBoundary' /\ Busy' = Busy
  BY ResponseOver DEF IInv
<1>2. TypeOK' /\ ServerInv'
  BY <1>1 DEF IInv, TypeOK, Canceled, ServerInv
<1>3. ConnectionInv'
  BY DEF IInv, ConnectionInv
<1> QED
  BY <1>1, <1>2, <1>3 DEF IInv
-----------------------------------------------------------------------------
(* The inductive invariant.                                                *)

LEMMA InitHolds == Init => IInv
<1> SUFFICES ASSUME Init PROVE IInv
  OBVIOUS
<1> USE DEF Init
<1>1. Busy = {}
  BY DEF Busy
<1>2. TypeOK /\ ServerInv /\ ConnectionInv
  <2>1. TypeOK
    <3>1. source \in 0 .. MaxCloses /\ stopped \subseteq 0 .. source /\ token \in 0 .. source
      BY BoundsAssumption
    <3>2. {listening, reopens, writable, closeFlag} \subseteq BOOLEAN /\ closer # "closed"
      OBVIOUS
    <3>3. reports \in 0 .. 1 /\ disturbed \subseteq Busy
      OBVIOUS
    <3> QED
      BY <3>1, <3>2, <3>3 DEF TypeOK
  <2>2. ServerInv
    BY DEF ServerInv
  <2>3. ConnectionInv
    BY <1>1 DEF ConnectionInv
  <2> QED
    BY <2>1, <2>2, <2>3
<1>3. CallsInv
  BY DEF CallsInv, EndsBlank
<1>4. LineEnded /\ CleanBoundary
  BY DEF LineEnded, CleanBoundary
<1> QED
  BY <1>2, <1>3, <1>4 DEF IInv

LEMMA NextKeeps == IInv /\ [Next]_vars => IInv'
<1> SUFFICES ASSUME IInv, [Next]_vars PROVE IInv'
  OBVIOUS
<1>1. ASSUME NEW again \in BOOLEAN, Close(again) PROVE IInv'
  BY <1>1, CloseKeeps
<1>2. ASSUME NEW t \in Thread, Tick(t) PROVE IInv'
  <2>1. Begin(t, TickPieces, None)
    BY <1>2 DEF Tick
  <2> QED
    BY <2>1, TickIsCall, BeginKeeps
<1>3. ASSUME NEW t \in Thread, NEW m \in Outbox[t], SendMessage(t, m) PROVE IInv'
  <2>1. Begin(t, Pieces(m), m)
    BY <1>3 DEF SendMessage
  <2>2. IsCall(Pieces(m))
    BY OutboxAssumption, PiecesAreCall DEF Message
  <2> QED
    BY <2>1, <2>2, BeginKeeps
<1>4. CASE ServerStep
  BY <1>4, CloseListenerKeeps, RenewKeeps, ListenKeeps, HandleRequestKeeps DEF ServerStep
<1>5. CASE ThreadStep
  BY <1>5, PutKeeps DEF ThreadStep
<1>6. CASE CloseBuffer \/ CloserStep
  BY <1>6, ClosingKeeps DEF CloserStep
<1>7. CASE Lose \/ NetworkStep
  BY <1>7, ReplyKeeps, ReceiveKeeps, ReceiveRestKeeps DEF NetworkStep
<1>8. CASE UNCHANGED vars
  <2> USE <1>8 DEF vars, server, connection, client, calls
  <2>1. CallsInv' /\ LineEnded' /\ CleanBoundary' /\ Busy' = Busy
    BY ResponseUndisturbed DEF IInv
  <2>2. TypeOK' /\ ServerInv'
    BY <2>1 DEF IInv, TypeOK, Canceled, ServerInv
  <2>3. ConnectionInv'
    BY <2>1 DEF IInv, ConnectionInv
  <2> QED
    BY <2>1, <2>2, <2>3 DEF IInv
<1> QED
  BY <1>1, <1>2, <1>3, <1>4, <1>5, <1>6, <1>7, <1>8, BeginRequestKeeps DEF Next

LEMMA Invariant == Spec => []IInv
BY InitHolds, NextKeeps, PTL DEF Spec

-----------------------------------------------------------------------------
(* The messages on their way, which IInv does not follow.                  *)

(* How many pieces the data of a message has. *)
DataPieces(m) == IF m.data = <<>> THEN 2 ELSE 3 * Len(m.data)

(* What the client has when it has read r pieces of a message and is at    *)
(* the beginning of a line.                                                *)
HasRead(m, r, got) ==
    \/ \E i \in 0 .. Len(m.data) :
          r = 3 * i /\ got = [data |-> SubSeq(m.data, 1, i), id |-> <<>>]
    \/ r = DataPieces(m) /\ got = [data |-> Decoded(m).data, id |-> <<>>]
    \/ r = Len(Pieces(m)) - 1 /\ got = Decoded(m)

(* The pieces after the r-th of a message, up to the j-th, are in the      *)
(* response, the k-th up to position[k].                                   *)
PlacedAt(m, r, j, position, response) ==
    /\ \A k \in r .. j : position[k] <= Len(response) /\ \A l \in k .. j : position[k] <= position[l]
    /\ \A k \in r + 1 .. j :
          /\ position[k] = position[k - 1] + Len(Pieces(m)[k])
          /\ \A x \in 1 .. Len(Pieces(m)[k]) : response[position[k - 1] + x] = Pieces(m)[k][x]

(* The first j pieces of a message were put into the response and end at   *)
(* the place given; the client has read r of them, or will be at the       *)
(* beginning of a message when it gets there.                              *)
InPlace(m, j, end, response, got) ==
    \E r \in 0 .. j : \E position \in [r .. j -> Nat] :
        /\ r < Len(Pieces(m)) /\ position[j] = end
        /\ PlacedAt(m, r, j, position, response)
        /\ IF position[r] = 0 THEN HasRead(m, r, got)
           ELSE r = 0 /\ \A k \in {position[r], position[r] - 1} : k > 0 => response[k] = LF

(* The pieces of its message that a call has put. *)
PutSoFar(t) == Len(Pieces(sending[t])) - Len(todo[t])

(* A call that is not disturbed is alone, and its message is in place as   *)
(* far as it was put.                                                      *)
AloneInv ==
    /\ sending \in [Thread -> Message \cup {None}]
    /\ \A t \in Busy \ disturbed : Busy = {t}
    /\ \A t \in Busy : sending[t] # None =>
          /\ PutSoFar(t) \in Nat
          /\ todo[t] = SubSeq(Pieces(sending[t]), PutSoFar(t) + 1, Len(Pieces(sending[t])))
    /\ \A t \in Busy \ disturbed : sending[t] # None /\ writable /\ reply = "running" =>
          InPlace(sending[t], PutSoFar(t), Len(wire), wire, pending)

(* The messages sent undisturbed are received, or in place. *)
ArrivalInv ==
    /\ whole \in Seq(Message) /\ received \in Seq({Decoded(m) : m \in Message}) /\ ends \in Seq(Nat)
    /\ Len(whole) = Len(received) + Len(ends)
    /\ \A k \in DOMAIN received : received[k] = Decoded(whole[k])
    /\ reply = "none" => ends = <<>>
    /\ reply = "running" =>
          \A k \in DOMAIN ends :
             LET m == whole[Len(received) + k]
             IN  /\ InPlace(m, Len(Pieces(m)), ends[k], wire, pending)
                 /\ \A l \in 1 .. k - 1 : ends[l] < ends[k]

(* Both invariants of the messages on their way. *)
WayInv == AloneInv /\ ArrivalInv

-----------------------------------------------------------------------------
(* The lines of a message.                                                 *)

LEMMA JoinedIs ==
  ASSUME NEW S, NEW x \in Seq(S), NEW y \in Seq(S)
  PROVE  /\ x \o y \in Seq(S) /\ Len(x) \in Nat /\ Len(y) \in Nat /\ Len(x \o y) = Len(x) + Len(y)
         /\ \A k \in 1 .. Len(x) : (x \o y)[k] = x[k]
         /\ \A k \in 1 .. Len(y) : (x \o y)[Len(x) + k] = y[k]
OBVIOUS

(* The three pieces after the r-th of a message are a line. *)
LineAt(pieces, r, prefix, text) ==
  /\ pieces[r + 1] = <<prefix>> /\ pieces[r + 2] = text /\ pieces[r + 3] = <<LF>>

LEMMA DataLineAt ==
  ASSUME NEW data \in Seq(Seq(Char)), NEW i \in 0 .. Len(data) - 1
  PROVE  LineAt(DataLines(data), 3 * i, "data:", data[i + 1])
<1>1. Len(data) \in Nat /\ i \in Nat /\ i + 1 \in DOMAIN data /\ data[i + 1] \in Seq(Char)
  OBVIOUS
<1>2. ASSUME NEW k \in 1 .. 3
      PROVE  DataLines(data)[3 * i + k] = Line("data:", data[i + 1])[k]
  <2>1. 3 * i + k \in 1 .. 3 * Len(data)
    BY <1>1
  <2>2. ((3 * i + k - 1) \div 3) + 1 = i + 1 /\ ((3 * i + k - 1) % 3) + 1 = k
    BY <1>1, Z3
  <2> DEFINE n == 3 * i + k
  <2>3. n \in 1 .. 3 * Len(data) /\ ((n - 1) \div 3) + 1 = i + 1 /\ ((n - 1) % 3) + 1 = k
    BY <2>1, <2>2
  <2> HIDE DEF n
  <2>4. DataLines(data)[n] = Line("data:", data[i + 1])[k]
    BY <2>3 DEF DataLines
  <2> QED
    BY <2>4 DEF n
<1>3. /\ Line("data:", data[i + 1])[1] = <<"data:">> /\ Line("data:", data[i + 1])[2] = data[i + 1]
      /\ Line("data:", data[i + 1])[3] = <<LF>>
  BY DEF Line
<1>4. 1 \in 1 .. 3 /\ 2 \in 1 .. 3 /\ 3 \in 1 .. 3
  OBVIOUS
<1> HIDE DEF Line
<1> QED
  BY <1>2, <1>3, <1>4 DEF LineAt

(* What the pieces of a message are, by their places. *)
LEMMA PiecesOf ==
  ASSUME NEW m \in Message
  PROVE  /\ Pieces(m) \in Seq(Seq(Symbol)) /\ DataPieces(m) \in Nat /\ DataPieces(m) >= 2
         /\ Len(Pieces(m)) = DataPieces(m) + (IF m.id = <<>> THEN 1 ELSE 4)
         /\ Pieces(m)[Len(Pieces(m))] = <<LF>>
         /\ \A i \in 0 .. Len(m.data) - 1 :
               3 * i + 3 <= DataPieces(m) /\ LineAt(Pieces(m), 3 * i, "data:", m.data[i + 1])
         /\ m.data = <<>> => Pieces(m)[1] = <<"data:">> /\ Pieces(m)[2] = <<LF>>
         /\ m.id # <<>> => LineAt(Pieces(m), DataPieces(m), "id:", m.id)
<1> DEFINE data == DataLines(m.data)
           empty == IF m.data = <<>> THEN <<<<"data:">>, <<LF>>>> ELSE <<>>
           id == IF m.id # <<>> THEN Line("id:", m.id) ELSE <<>>
           header == data \o empty
           D == Len(header)
           I == Len(id)
<1>1. m.data \in Seq(Seq(Char)) /\ m.id \in Seq(Char) /\ Len(m.data) \in Nat
  BY DEF Message
<1>2. Pieces(m) = (header \o id) \o <<<<LF>>>>
  BY DEF Pieces, Lines
<1>3. data \in Seq(Seq(Symbol)) /\ Len(data) = 3 * Len(m.data)
  BY <1>1, DataLinesAreSequences
<1>4. /\ empty \in Seq(Seq(Symbol)) /\ Len(empty) = IF m.data = <<>> THEN 2 ELSE 0
      /\ m.data = <<>> => empty[1] = <<"data:">> /\ empty[2] = <<LF>>
  <2>1. <<"data:">> \in Seq(Symbol) /\ <<LF>> \in Seq(Symbol)
    BY DEF Symbol
  <2>2. CASE m.data = <<>>
    BY <2>1, <2>2
  <2>3. CASE m.data # <<>>
    BY <2>3
  <2> QED
    BY <2>2, <2>3
<1>5. m.data = <<>> <=> Len(m.data) = 0
  BY <1>1, EmptyHasNoLength
<1> HIDE DEF data, empty
<1>6. header \in Seq(Seq(Symbol)) /\ D = DataPieces(m) /\ D \in Nat /\ D >= 2
  <2>1. header \in Seq(Seq(Symbol)) /\ D = Len(data) + Len(empty)
    BY <1>3, <1>4, JoinedIs, Zenon
  <2>2. D \in Nat /\ D = (IF m.data = <<>> THEN 2 ELSE 3 * Len(m.data)) /\ D >= 2
    <3> HIDE DEF header, D
    <3>1. CASE m.data = <<>>
      BY <1>3, <1>4, <1>5, <2>1, <3>1
    <3>2. CASE m.data # <<>>
      <4>1. Len(m.data) > 0
        BY <1>1, <1>5, <3>2
      <4>2. D = 3 * Len(m.data) + 0
        BY <1>3, <1>4, <2>1, <3>2
      <4> QED
        BY <1>1, <3>2, <4>1, <4>2
    <3> QED
      BY <3>1, <3>2
  <2> QED
    BY <2>1, <2>2 DEF DataPieces
<1>7. \A k \in 1 .. Len(data) : header[k] = data[k]
  BY <1>3, <1>4
<1>8. m.data = <<>> => header[1] = <<"data:">> /\ header[2] = <<LF>>
  <2> SUFFICES ASSUME m.data = <<>> PROVE header[1] = <<"data:">> /\ header[2] = <<LF>>
    OBVIOUS
  <2>1. Len(data) = 0 /\ Len(empty) = 2
    BY <1>1, <1>3, <1>4, <1>5
  <2>2. header[1] = empty[1] /\ header[2] = empty[2]
    BY <1>3, <1>4, <2>1
  <2> QED
    BY <1>4, <2>2
<1>9. /\ id \in Seq(Seq(Symbol)) /\ I = IF m.id = <<>> THEN 0 ELSE 3
      /\ m.id # <<>> => id[1] = <<"id:">> /\ id[2] = m.id /\ id[3] = <<LF>>
  <2>1. "id:" \in Symbol
    BY DEF Symbol
  <2>2. Line("id:", m.id) \in Seq(Seq(Symbol)) /\ Len(Line("id:", m.id)) = 3
    BY <1>1, <2>1, LineIsSequence
  <2> QED
    BY <2>2 DEF Line
<1> HIDE DEF header, id
<1>10. /\ Pieces(m) \in Seq(Seq(Symbol)) /\ Len(Pieces(m)) = D + I + 1
       /\ \A k \in 1 .. D : Pieces(m)[k] = header[k]
       /\ \A k \in 1 .. I : Pieces(m)[D + k] = id[k]
       /\ Pieces(m)[D + I + 1] = <<LF>>
  <2>0. <<<<LF>>>> \in Seq(Seq(Symbol)) /\ Len(<<<<LF>>>>) = 1
    BY DEF Symbol
  <2> DEFINE both == header \o id
  <2>1. both \in Seq(Seq(Symbol)) /\ Len(both) = D + I
    BY <1>6, <1>9, JoinedIs, Zenon
  <2>2. (\A k \in 1 .. D : both[k] = header[k]) /\ (\A k \in 1 .. I : both[D + k] = id[k])
    <3>1. header \in Seq(Seq(Symbol)) /\ id \in Seq(Seq(Symbol))
      BY <1>6, <1>9
    <3> QED
      BY <3>1, JoinedIs
  <2> HIDE DEF both, D, I
  <2>3. D \in Nat /\ I \in Nat
    BY <1>6, <1>9
  <2>4. /\ both \o <<<<LF>>>> \in Seq(Seq(Symbol)) /\ Len(both \o <<<<LF>>>>) = D + I + 1
        /\ \A k \in 1 .. D + I : (both \o <<<<LF>>>>)[k] = both[k]
        /\ (both \o <<<<LF>>>>)[D + I + 1] = <<LF>>
    BY <2>0, <2>1, <2>3
  <2>5. Pieces(m) = both \o <<<<LF>>>>
    BY <1>2 DEF both
  <2> QED
    BY <2>2, <2>3, <2>4, <2>5
<1> HIDE DEF D, I
<1>11. ASSUME NEW i \in 0 .. Len(m.data) - 1
       PROVE  3 * i + 3 <= DataPieces(m) /\ LineAt(Pieces(m), 3 * i, "data:", m.data[i + 1])
  <2>1. LineAt(data, 3 * i, "data:", m.data[i + 1])
    BY <1>1, DataLineAt DEF data
  <2>2. m.data # <<>> /\ i \in Nat /\ 3 * i + 3 <= 3 * Len(m.data)
    BY <1>1, <1>5
  <2>3. DataPieces(m) = 3 * Len(m.data)
    BY <2>2 DEF DataPieces
  <2>4. \A k \in {3 * i + 1, 3 * i + 2, 3 * i + 3} : k \in 1 .. D /\ k \in 1 .. Len(data)
    BY <1>1, <1>3, <1>6, <2>2, <2>3
  <2>5. \A k \in {3 * i + 1, 3 * i + 2, 3 * i + 3} : Pieces(m)[k] = data[k]
    BY <1>7, <1>10, <2>4
  <2> QED
    BY <2>1, <2>2, <2>3, <2>5 DEF LineAt
<1>12. m.id # <<>> => LineAt(Pieces(m), DataPieces(m), "id:", m.id)
  <2>1. m.id # <<>> => 1 \in 1 .. I /\ 2 \in 1 .. I /\ 3 \in 1 .. I
    BY <1>9 DEF I
  <2> QED
    BY <1>6, <1>9, <1>10, <2>1 DEF LineAt
<1>13. 1 \in 1 .. D /\ 2 \in 1 .. D
  BY <1>6
<1>14. Len(Pieces(m)) = DataPieces(m) + (IF m.id = <<>> THEN 1 ELSE 4)
  BY <1>6, <1>9, <1>10 DEF I
<1> QED
  BY <1>6, <1>8, <1>10, <1>11, <1>12, <1>13, <1>14

(* The pieces of a message after the r-th begin with a line of l of them. *)
IsLine(m, r, l, prefix, text) ==
  /\ l \in {2, 3} /\ r + l < Len(Pieces(m))
  /\ prefix \in {"data:", "id:"} /\ text \in Seq(Char)
  /\ Pieces(m)[r + 1] = <<prefix>> /\ Pieces(m)[r + l] = <<LF>>
  /\ IF l = 2 THEN text = <<>> ELSE Pieces(m)[r + 2] = text

LEMMA ParsedIs ==
  ASSUME NEW prefix \in {"data:", "id:"}, NEW text \in Seq(Char), NEW got
  PROVE  Parsed(<<prefix>> \o text, got) =
            IF prefix = "data:" THEN [got EXCEPT !.data = Append(@, text)] ELSE [got EXCEPT !.id = text]
<1> DEFINE line == <<prefix>> \o text
<1>1. line[1] = prefix /\ Tail(line) = text
  <2>1. text \in Seq(Symbol) /\ <<prefix>> \in Seq(Symbol) /\ Len(<<prefix>>) = 1
    BY DEF Symbol
  <2>2. line[1] = prefix
    BY <2>1
  <2>3. /\ Tail(line) \in Seq(Symbol) /\ Len(Tail(line)) = Len(text)
        /\ \A k \in 1 .. Len(text) : Tail(line)[k] = text[k]
    BY <2>1
  <2> HIDE DEF line
  <2> QED
    BY <2>1, <2>2, <2>3
<1> HIDE DEF line
<1>2. prefix = "id:" => prefix # "data:"
  OBVIOUS
<1> QED
  BY <1>1, <1>2 DEF Parsed, line

(* At the beginning of a line the client is either at the blank one, with  *)
(* the whole message, or reads one more line of it.                        *)
LEMMA NextLine ==
  ASSUME NEW m \in Message, NEW r \in Nat, NEW got, HasRead(m, r, got)
  PROVE  \/ r = Len(Pieces(m)) - 1 /\ got = Decoded(m)
         \/ \E l \in {2, 3}, prefix \in {"data:", "id:"}, text \in Seq(Char) :
               IsLine(m, r, l, prefix, text) /\ HasRead(m, r + l, Parsed(<<prefix>> \o text, got))
<1> DEFINE L == Len(Pieces(m))
           Goal == \E l \in {2, 3}, prefix \in {"data:", "id:"}, text \in Seq(Char) :
                      IsLine(m, r, l, prefix, text) /\ HasRead(m, r + l, Parsed(<<prefix>> \o text, got))
<1>1. /\ m.data \in Seq(Seq(Char)) /\ m.id \in Seq(Char)
      /\ Len(m.data) \in Nat /\ (m.data = <<>> <=> Len(m.data) = 0)
  <2>1. m.data \in Seq(Seq(Char)) /\ m.id \in Seq(Char)
    BY DEF Message
  <2> QED
    BY <2>1, EmptyHasNoLength
<1>2. /\ DataPieces(m) \in Nat /\ L = DataPieces(m) + (IF m.id = <<>> THEN 1 ELSE 4) /\ L \in Nat
      /\ DataPieces(m) = IF m.data = <<>> THEN 2 ELSE 3 * Len(m.data)
  <2>1. DataPieces(m) \in Nat /\ L = DataPieces(m) + (IF m.id = <<>> THEN 1 ELSE 4)
    BY PiecesOf
  <2> HIDE DEF L
  <2>2. L \in Nat
    BY <2>1
  <2> QED
    BY <2>1, <2>2 DEF DataPieces
<1>3. Decoded(m) = [data |-> Decoded(m).data, id |-> m.id] /\ (m.data # <<>> => Decoded(m).data = m.data)
  BY DEF Decoded
<1>6. L >= DataPieces(m) + 1
  <2> HIDE DEF L
  <2> QED
    BY <1>2
<1>4. ASSUME r = DataPieces(m), got = [data |-> Decoded(m).data, id |-> <<>>]
      PROVE  (r = L - 1 /\ got = Decoded(m)) \/ Goal
  <2>1. CASE m.id = <<>>
    BY <1>2, <1>3, <1>4, <2>1
  <2>2. CASE m.id # <<>>
    <3>1. IsLine(m, r, 3, "id:", m.id)
      <4>1. LineAt(Pieces(m), r, "id:", m.id)
        BY <1>4, <2>2, PiecesOf
      <4>2. r + 3 < L
        <5> HIDE DEF L
        <5> QED
          BY <1>2, <1>4, <2>2
      <4> QED
        BY <1>1, <4>1, <4>2 DEF IsLine, LineAt
    <3>2. Parsed(<<"id:">> \o m.id, got) = [got EXCEPT !.id = m.id]
      BY <1>1, ParsedIs
    <3>3. Parsed(<<"id:">> \o m.id, got) = Decoded(m)
      BY <1>3, <1>4, <3>2
    <3>4. HasRead(m, r + 3, Decoded(m))
      BY <1>2, <1>4, <2>2 DEF HasRead
    <3> QED
      BY <1>1, <3>1, <3>3, <3>4
  <2> QED
    BY <2>1, <2>2
<1>5. ASSUME NEW i \in 0 .. Len(m.data), r = 3 * i, got = [data |-> SubSeq(m.data, 1, i), id |-> <<>>]
      PROVE  (r = L - 1 /\ got = Decoded(m)) \/ Goal
  <2>0. i \in Nat /\ i <= Len(m.data)
    BY <1>1
  <2>1. CASE i < Len(m.data)
    <3> DEFINE text == m.data[i + 1]
    <3>1. text \in Seq(Char) /\ i \in 0 .. Len(m.data) - 1 /\ i + 1 \in 0 .. Len(m.data)
      BY <1>1, <2>0, <2>1
    <3>2. LineAt(Pieces(m), 3 * i, "data:", m.data[i + 1]) /\ 3 * i + 3 <= DataPieces(m)
      BY <3>1, PiecesOf
    <3>3. IsLine(m, r, 3, "data:", text)
      <4>1. r + 3 < L
        <5> HIDE DEF L
        <5>1. DataPieces(m) \in Nat /\ L \in Nat /\ i \in Nat
          BY <1>2, <2>0
        <5>2. r = 3 * i /\ 3 * i + 3 <= DataPieces(m)
          BY <1>5, <3>2
        <5> QED
          BY <1>6, <5>1, <5>2
      <4>2. LineAt(Pieces(m), r, "data:", text)
        BY <1>5, <3>2
      <4> HIDE DEF text
      <4> QED
        BY <3>1, <4>1, <4>2 DEF IsLine, LineAt
    <3>4. Parsed(<<"data:">> \o text, got) = [got EXCEPT !.data = Append(@, text)]
      BY <3>1, ParsedIs
    <3>5. Append(SubSeq(m.data, 1, i), text) = SubSeq(m.data, 1, i + 1)
      BY <1>1, <2>0, <2>1
    <3>6. Parsed(<<"data:">> \o text, got) = [data |-> SubSeq(m.data, 1, i + 1), id |-> <<>>]
      BY <1>5, <3>4, <3>5
    <3>7. r + 3 = 3 * (i + 1)
      BY <1>5, <2>0
    <3>8. HasRead(m, r + 3, [data |-> SubSeq(m.data, 1, i + 1), id |-> <<>>])
      BY <3>1, <3>7 DEF HasRead
    <3> QED
      BY <3>1, <3>3, <3>6, <3>8
  <2>2. CASE i = Len(m.data) /\ m.data # <<>>
    <3>1. SubSeq(m.data, 1, i) = m.data
      BY <1>1, <2>2
    <3> QED
      BY <1>2, <1>3, <1>4, <1>5, <2>2, <3>1
  <2>3. CASE i = Len(m.data) /\ m.data = <<>>
    <3>1. r = 0 /\ SubSeq(m.data, 1, i) = <<>> /\ <<>> \in Seq(Char)
      BY <1>1, <1>5, <2>3
    <3>2. IsLine(m, r, 2, "data:", <<>>)
      BY <1>1, <1>2, <2>3, <3>1, PiecesOf DEF IsLine
    <3>3. Parsed(<<"data:">> \o <<>>, got) = [got EXCEPT !.data = Append(@, <<>>)]
      BY <3>1, ParsedIs
    <3>4. Parsed(<<"data:">> \o <<>>, got) = [data |-> Decoded(m).data, id |-> <<>>]
      BY <1>5, <2>3, <3>1, <3>3 DEF Decoded
    <3>5. HasRead(m, r + 2, [data |-> Decoded(m).data, id |-> <<>>])
      BY <1>2, <2>3, <3>1 DEF HasRead
    <3> QED
      BY <3>1, <3>2, <3>4, <3>5
  <2> QED
    BY <1>1, <2>0, <2>1, <2>2, <2>3
<1> QED
  BY <1>4, <1>5 DEF HasRead

-----------------------------------------------------------------------------
(* The place of a message in the response.                                 *)

(* What the client knows when it gets to the pieces that are still there. *)
Entered(m, r, place, response, got) ==
  IF place = 0 THEN HasRead(m, r, got)
  ELSE r = 0 /\ \A k \in {place, place - 1} : k > 0 => response[k] = LF

LEMMA InPlaceIs ==
  ASSUME NEW m, NEW j, NEW end, NEW response, NEW got
  PROVE  InPlace(m, j, end, response, got) <=>
            \E r \in 0 .. j : \E position \in [r .. j -> Nat] :
               /\ r < Len(Pieces(m)) /\ position[j] = end
               /\ PlacedAt(m, r, j, position, response)
               /\ Entered(m, r, position[r], response, got)
BY DEF InPlace, Entered

LEMMA NothingRead == ASSUME NEW m \in Message PROVE HasRead(m, 0, Blank)
<1>1. m.data \in Seq(Seq(Char))
  BY DEF Message
<1>2. 0 \in 0 .. Len(m.data) /\ SubSeq(m.data, 1, 0) = <<>> /\ 3 * 0 = 0
  BY <1>1
<1> QED
  BY <1>2 DEF HasRead, Blank

LEMMA BeginsInPlace ==
  ASSUME NEW m \in Message, NEW response \in Seq(Symbol), NEW got,
         IF response = <<>> THEN got = Blank
         ELSE \A k \in {Len(response), Len(response) - 1} : k > 0 => response[k] = LF
  PROVE  InPlace(m, 0, Len(response), response, got)
<1> DEFINE position == [k \in 0 .. 0 |-> Len(response)]
<1>1. Len(response) \in Nat /\ (response = <<>> <=> Len(response) = 0) /\ 0 .. 0 = {0}
  BY EmptyHasNoLength
<1>2. position \in [0 .. 0 -> Nat] /\ position[0] = Len(response)
  BY <1>1
<1>3. 0 < Len(Pieces(m))
  BY PiecesOf
<1> HIDE DEF position
<1>4. PlacedAt(m, 0, 0, position, response)
  BY <1>1, <1>2 DEF PlacedAt
<1>5. HasRead(m, 0, Blank)
  BY NothingRead
<1>6. Entered(m, 0, position[0], response, got)
  BY <1>1, <1>2, <1>5 DEF Entered
<1>7. 0 \in 0 .. 0
  BY <1>1
<1> QED
  BY <1>2, <1>3, <1>4, <1>6, <1>7, InPlaceIs

LEMMA StaysInPlace ==
  ASSUME NEW m \in Message, NEW j \in 0 .. Len(Pieces(m)), NEW end, NEW got,
         NEW response \in Seq(Symbol), NEW more \in Seq(Symbol),
         InPlace(m, j, end, response, got)
  PROVE  InPlace(m, j, end, response \o more, got)
<1>1. PICK r \in 0 .. j : \E position \in [r .. j -> Nat] :
               /\ r < Len(Pieces(m)) /\ position[j] = end
               /\ PlacedAt(m, r, j, position, response)
               /\ Entered(m, r, position[r], response, got)
  BY InPlaceIs
<1>2. PICK position \in [r .. j -> Nat] :
               /\ r < Len(Pieces(m)) /\ position[j] = end
               /\ PlacedAt(m, r, j, position, response)
               /\ Entered(m, r, position[r], response, got)
  BY <1>1
<1>0. \A k \in r + 1 .. j : Pieces(m)[k] \in Seq(Symbol) /\ Len(Pieces(m)[k]) \in Nat
  <2>1. Pieces(m) \in Seq(Seq(Symbol)) /\ Len(Pieces(m)) \in Nat
    BY PiecesOf
  <2>2. \A k \in r + 1 .. j : k \in 1 .. Len(Pieces(m))
    BY <2>1
  <2> QED
    BY <2>1, <2>2
<1> DEFINE longer == response \o more
<1>3. /\ Len(response) \in Nat /\ Len(longer) \in Nat /\ Len(longer) >= Len(response)
      /\ \A k \in 1 .. Len(response) : longer[k] = response[k]
  OBVIOUS
<1>4. \A k \in r .. j : position[k] \in Nat /\ position[k] <= Len(response)
  BY <1>2 DEF PlacedAt
<1> HIDE DEF longer
<1>5. PlacedAt(m, r, j, position, longer)
  <2>1. ASSUME NEW k \in r .. j
        PROVE  position[k] <= Len(longer) /\ \A l \in k .. j : position[k] <= position[l]
    BY <1>2, <1>3, <1>4 DEF PlacedAt
  <2>2. ASSUME NEW k \in r + 1 .. j
        PROVE  /\ position[k] = position[k - 1] + Len(Pieces(m)[k])
               /\ \A x \in 1 .. Len(Pieces(m)[k]) : longer[position[k - 1] + x] = Pieces(m)[k][x]
    <3>1. /\ position[k] = position[k - 1] + Len(Pieces(m)[k])
          /\ \A x \in 1 .. Len(Pieces(m)[k]) : response[position[k - 1] + x] = Pieces(m)[k][x]
      BY <1>2 DEF PlacedAt
    <3>2. k \in r .. j /\ k - 1 \in r .. j
      OBVIOUS
    <3>3. ASSUME NEW x \in 1 .. Len(Pieces(m)[k]) PROVE position[k - 1] + x \in 1 .. Len(response)
      <4>1. position[k] \in Nat /\ position[k - 1] \in Nat /\ position[k] <= Len(response)
        BY <1>4, <3>2
      <4>2. Len(Pieces(m)[k]) \in Nat /\ Len(response) \in Nat
        BY <1>0, <1>3
      <4>3. \A a, b, c, n \in Nat : \A y \in 1 .. c : b = a + c /\ b <= n => a + y \in 1 .. n
        OBVIOUS
      <4> QED
        BY <3>1, <4>1, <4>2, <4>3
    <3> QED
      BY <1>3, <3>1, <3>3
  <2> QED
    BY <2>1, <2>2 DEF PlacedAt
<1>6. Entered(m, r, position[r], longer, got)
  <2>1. position[r] \in Nat /\ position[r] <= Len(response)
    BY <1>4
  <2>2. \A k \in {position[r], position[r] - 1} : k > 0 => longer[k] = response[k]
    <3> SUFFICES ASSUME NEW k \in {position[r], position[r] - 1}, k > 0 PROVE longer[k] = response[k]
      OBVIOUS
    <3>1. k \in 1 .. Len(response)
      BY <1>3, <2>1
    <3> QED
      BY <1>3, <3>1
  <2> QED
    BY <1>2, <2>2 DEF Entered
<1>7. InPlace(m, j, end, longer, got)
  BY <1>2, <1>5, <1>6, InPlaceIs
<1> QED
  BY <1>7 DEF longer

LEMMA OneMoreInPlace ==
  ASSUME NEW m \in Message, NEW j \in 0 .. Len(Pieces(m)) - 1, NEW got, NEW response \in Seq(Symbol),
         NEW piece \in Seq(Symbol), piece = Pieces(m)[j + 1],
         InPlace(m, j, Len(response), response, got)
  PROVE  InPlace(m, j + 1, Len(response \o piece), response \o piece, got)
<1> DEFINE longer == response \o piece
<1>0. Len(Pieces(m)) \in Nat /\ j \in 0 .. Len(Pieces(m)) /\ j \in Nat
  <2>1. Len(Pieces(m)) \in Nat
    BY PiecesOf
  <2> QED
    BY <2>1
<1>1. InPlace(m, j, Len(response), longer, got)
  BY <1>0, StaysInPlace
<1>2. PICK r \in 0 .. j : \E position \in [r .. j -> Nat] :
               /\ r < Len(Pieces(m)) /\ position[j] = Len(response)
               /\ PlacedAt(m, r, j, position, longer)
               /\ Entered(m, r, position[r], longer, got)
  BY <1>1, InPlaceIs
<1>3. PICK position \in [r .. j -> Nat] :
               /\ r < Len(Pieces(m)) /\ position[j] = Len(response)
               /\ PlacedAt(m, r, j, position, longer)
               /\ Entered(m, r, position[r], longer, got)
  BY <1>2
<1>4. /\ Len(response) \in Nat /\ Len(piece) \in Nat /\ Len(longer) = Len(response) + Len(piece)
      /\ \A x \in 1 .. Len(piece) : longer[Len(response) + x] = piece[x]
  OBVIOUS
<1> HIDE DEF longer
<1> DEFINE extended == [k \in r .. j + 1 |-> IF k = j + 1 THEN Len(longer) ELSE position[k]]
<1>5. /\ extended \in [r .. j + 1 -> Nat] /\ extended[j + 1] = Len(longer)
      /\ \A k \in r .. j : extended[k] = position[k] /\ position[k] \in Nat
      /\ \A k \in r .. j + 1 : k \in r .. j \/ k = j + 1
  BY <1>4
<1> HIDE DEF extended
<1>6. \A k \in r .. j : position[k] <= Len(longer)
  BY <1>3 DEF PlacedAt
<1>7. PlacedAt(m, r, j + 1, extended, longer)
  <2>1. ASSUME NEW k \in r .. j + 1
        PROVE  extended[k] <= Len(longer) /\ \A l \in k .. j + 1 : extended[k] <= extended[l]
    <3>1. extended[k] <= Len(longer)
      <4>1. CASE k = j + 1
        BY <1>4, <1>5, <4>1
      <4>2. CASE k # j + 1
        BY <1>5, <1>6, <4>2
      <4> QED
        BY <4>1, <4>2
    <3>2. ASSUME NEW l \in k .. j + 1 PROVE extended[k] <= extended[l]
      <4>1. CASE l = j + 1
        BY <1>5, <3>1, <4>1
      <4>2. CASE l # j + 1
        <5>1. k \in r .. j /\ l \in k .. j /\ l \in r .. j
          BY <4>2
        <5> QED
          BY <1>3, <1>5, <5>1 DEF PlacedAt
      <4> QED
        BY <4>1, <4>2
    <3> QED
      BY <3>1, <3>2
  <2>2. ASSUME NEW k \in r + 1 .. j + 1
        PROVE  /\ extended[k] = extended[k - 1] + Len(Pieces(m)[k])
               /\ \A x \in 1 .. Len(Pieces(m)[k]) : longer[extended[k - 1] + x] = Pieces(m)[k][x]
    <3>1. CASE k = j + 1
      <4>1. k - 1 = j /\ j \in r .. j
        BY <3>1
      <4>2. extended[k - 1] = Len(response) /\ extended[k] = Len(longer)
        BY <1>3, <1>5, <3>1, <4>1
      <4> QED
        BY <1>4, <3>1, <4>2
    <3>2. CASE k # j + 1
      <4>1. k \in r + 1 .. j /\ k \in r .. j /\ k - 1 \in r .. j
        BY <3>2
      <4> QED
        BY <1>3, <1>5, <4>1 DEF PlacedAt
    <3> QED
      BY <3>1, <3>2
  <2> QED
    BY <2>1, <2>2 DEF PlacedAt
<1>8. Entered(m, r, extended[r], longer, got)
  BY <1>3, <1>5
<1>9. r \in 0 .. j + 1
  OBVIOUS
<1>10. InPlace(m, j + 1, Len(longer), longer, got)
  BY <1>3, <1>5, <1>7, <1>8, <1>9, InPlaceIs
<1> QED
  BY <1>10 DEF longer

LEMMA Remaining ==
  ASSUME NEW S, NEW s \in Seq(S), NEW n \in 1 .. Len(s)
  PROVE  /\ Len(s) \in Nat /\ n \in Nat /\ SubSeq(s, n + 1, Len(s)) \in Seq(S)
         /\ Len(SubSeq(s, n + 1, Len(s))) = Len(s) - n
         /\ \A x \in 1 .. Len(s) - n : SubSeq(s, n + 1, Len(s))[x] = s[n + x]
OBVIOUS

(* What is left of the response when n of its symbols are gone. *)
LEMMA ShiftInPlace ==
  ASSUME NEW m \in Message, NEW j \in 0 .. Len(Pieces(m)), NEW r \in 0 .. j, r < Len(Pieces(m)),
         NEW position \in [r .. j -> Nat],
         NEW response \in Seq(Symbol), PlacedAt(m, r, j, position, response),
         NEW n \in 1 .. Len(response), n <= position[r],
         NEW rest, rest = SubSeq(response, n + 1, Len(response)),
         NEW next, Entered(m, r, position[r] - n, rest, next)
  PROVE  position[j] >= n /\ InPlace(m, j, position[j] - n, rest, next)
<1>0. \A k \in r + 1 .. j : Pieces(m)[k] \in Seq(Symbol) /\ Len(Pieces(m)[k]) \in Nat
  <2>1. Pieces(m) \in Seq(Seq(Symbol)) /\ Len(Pieces(m)) \in Nat
    BY PiecesOf
  <2>2. \A k \in r + 1 .. j : k \in 1 .. Len(Pieces(m))
    BY <2>1
  <2> QED
    BY <2>1, <2>2, SMTT(30)
<1>1. /\ Len(response) \in Nat /\ n \in Nat /\ Len(rest) = Len(response) - n
      /\ \A x \in 1 .. Len(response) - n : rest[x] = response[n + x]
  BY Remaining
<1>2. j \in Nat /\ r \in Nat /\ r \in r .. j /\ j \in r .. j
  <2>1. Len(Pieces(m)) \in Nat
    BY PiecesOf
  <2> QED
    BY <2>1
<1>3. \A k \in r .. j : /\ position[k] \in Nat /\ position[k] >= n
                        /\ position[k] <= Len(response)
  BY <1>1, <1>2 DEF PlacedAt
<1> DEFINE shifted == [k \in r .. j |-> position[k] - n]
<1>4. /\ shifted \in [r .. j -> Nat]
      /\ \A k \in r .. j : shifted[k] = position[k] - n
  BY <1>1, <1>3, SMTT(30)
<1> HIDE DEF shifted
<1>5. PlacedAt(m, r, j, shifted, rest)
  <2>1. ASSUME NEW k \in r .. j
        PROVE  shifted[k] <= Len(rest) /\ \A l \in k .. j : shifted[k] <= shifted[l]
    <3>1. shifted[k] <= Len(rest)
      <4>1. \A a, b \in Nat : a <= b => a - n <= b - n
        BY <1>1
      <4> QED
        BY <1>1, <1>3, <1>4, <4>1
    <3>2. ASSUME NEW l \in k .. j PROVE shifted[k] <= shifted[l]
      <4>1. l \in r .. j
        BY <1>2
      <4>2. position[k] <= position[l]
        BY DEF PlacedAt
      <4> QED
        BY <1>1, <1>3, <1>4, <4>1, <4>2
    <3> QED
      BY <3>1, <3>2
  <2>2. ASSUME NEW k \in r + 1 .. j
        PROVE  /\ shifted[k] = shifted[k - 1] + Len(Pieces(m)[k])
               /\ \A x \in 1 .. Len(Pieces(m)[k]) : rest[shifted[k - 1] + x] = Pieces(m)[k][x]
    <3>1. k \in r .. j /\ k - 1 \in r .. j
      BY <1>2
    <3>2. position[k] = position[k - 1] + Len(Pieces(m)[k])
      BY DEF PlacedAt
    <3>3. position[k] \in Nat /\ position[k - 1] \in Nat /\ Len(Pieces(m)[k]) \in Nat
      BY <1>0, <1>3, <3>1
    <3>4. shifted[k] = position[k] - n /\ shifted[k - 1] = position[k - 1] - n
      BY <1>4, <3>1
    <3>5. position[k] <= Len(response) /\ position[k - 1] >= n
      BY <1>3, <3>1
    <3>6. ASSUME NEW x \in 1 .. Len(Pieces(m)[k]) PROVE rest[shifted[k - 1] + x] = Pieces(m)[k][x]
      <4>1. \A a, b, c, d \in Nat : \A y \in 1 .. c :
               b = a + c /\ b <= d /\ a >= n => (a - n) + y \in 1 .. d - n /\ n + ((a - n) + y) = a + y
        BY <1>1
      <4>2. /\ (position[k - 1] - n) + x \in 1 .. Len(response) - n
            /\ n + ((position[k - 1] - n) + x) = position[k - 1] + x
        <5> DEFINE a == position[k - 1]
                   b == position[k]
                   c == Len(Pieces(m)[k])
                   d == Len(response)
        <5>1. a \in Nat /\ b \in Nat /\ c \in Nat /\ d \in Nat /\ x \in 1 .. c /\ b = a + c /\ b <= d /\ a >= n
          BY <1>1, <3>2, <3>3, <3>5
        <5> HIDE DEF a, b, c, d
        <5>2. (a - n) + x \in 1 .. d - n /\ n + ((a - n) + x) = a + x
          BY <4>1, <5>1
        <5> QED
          BY <5>2 DEF a, d
      <4>3. response[position[k - 1] + x] = Pieces(m)[k][x]
        BY DEF PlacedAt
      <4> DEFINE z == (position[k - 1] - n) + x
      <4>4. z \in 1 .. Len(response) - n /\ n + z = position[k - 1] + x /\ z = shifted[k - 1] + x
        BY <3>4, <4>2
      <4> HIDE DEF z
      <4>5. rest[z] = response[n + z]
        BY <1>1, <4>4
      <4> QED
        BY <4>3, <4>4, <4>5
    <3> QED
      <4>1. \A a, b, c \in Nat : b = a + c => b - n = (a - n) + c
        BY <1>1
      <4>2. shifted[k] = shifted[k - 1] + Len(Pieces(m)[k])
        <5> DEFINE c == Len(Pieces(m)[k])
        <5>1. c \in Nat /\ position[k] = position[k - 1] + c
          BY <3>2, <3>3
        <5> HIDE DEF c
        <5>2. position[k] - n = (position[k - 1] - n) + c
          BY <3>3, <4>1, <5>1
        <5>3. shifted[k] = shifted[k - 1] + c
          BY <3>4, <5>2, Zenon
        <5> QED
          BY <5>3 DEF c
      <4> QED
        BY <3>6, <4>2
  <2> QED
    BY <2>1, <2>2 DEF PlacedAt
<1>6. Entered(m, r, shifted[r], rest, next)
  BY <1>2, <1>4
<1>7. InPlace(m, j, position[j] - n, rest, next)
  BY <1>2, <1>4, <1>5, <1>6, InPlaceIs
<1> QED
  BY <1>2, <1>3, <1>7

(* The last piece of a message is a blank line. *)
LEMMA LastInPlace ==
  ASSUME NEW m \in Message, NEW r \in 0 .. Len(Pieces(m)) - 1,
         NEW position \in [r .. Len(Pieces(m)) -> Nat], NEW response,
         PlacedAt(m, r, Len(Pieces(m)), position, response)
  PROVE  /\ position[Len(Pieces(m))] = position[Len(Pieces(m)) - 1] + 1
         /\ response[position[Len(Pieces(m))]] = LF
<1> DEFINE L == Len(Pieces(m))
<1>1. Pieces(m)[L] = <<LF>> /\ Len(Pieces(m)[L]) = 1 /\ Pieces(m)[L][1] = LF
  <2>1. Pieces(m)[L] = <<LF>>
    BY PiecesOf
  <2>2. Len(<<LF>>) = 1 /\ <<LF>>[1] = LF
    OBVIOUS
  <2> QED
    BY <2>1, <2>2, Zenon
<1>2. L \in Nat
  BY PiecesOf
<1>3. L \in r + 1 .. L /\ 1 \in 1 .. 1
  <2>1. \A a \in Nat : \A b \in 0 .. a - 1 : a \in b + 1 .. a
    OBVIOUS
  <2> QED
    BY <1>2, <2>1
<1> QED
  BY <1>1, <1>3, ZenonT(40) DEF PlacedAt

(* A line at the beginning of the response, as far as it was put. *)
LineUpTo(j, r, l, prefix, text, position, response) ==
  /\ j >= r + 1 => position[r + 1] = 1 /\ response[1] = prefix
  /\ j >= r + 2 /\ l = 3 => /\ position[r + 2] = 1 + Len(text)
                           /\ \A x \in 1 .. Len(text) : response[1 + x] = text[x]
  /\ j >= r + l => position[r + l] = 2 + Len(text) /\ response[2 + Len(text)] = LF

LEMMA LineInPlace ==
  ASSUME NEW m \in Message, NEW j \in 0 .. Len(Pieces(m)), NEW r \in 0 .. j,
         NEW position \in [r .. j -> Nat],
         NEW response, PlacedAt(m, r, j, position, response), position[r] = 0,
         NEW l, NEW prefix, NEW text, IsLine(m, r, l, prefix, text)
  PROVE  LineUpTo(j, r, l, prefix, text, position, response)
<1>1. j \in Nat /\ r \in Nat
  <2>1. Len(Pieces(m)) \in Nat
    BY PiecesOf
  <2> QED
    BY <2>1
<1>2. l \in {2, 3} /\ text \in Seq(Char) /\ Len(text) \in Nat
  BY DEF IsLine
<1>3. ASSUME j >= r + 1 PROVE position[r + 1] = 1 /\ response[1] = prefix
  <2>1. r + 1 \in r + 1 .. j /\ (r + 1) - 1 = r
    BY <1>1, <1>3
  <2>2. Pieces(m)[r + 1] = <<prefix>> /\ Len(<<prefix>>) = 1 /\ <<prefix>>[1] = prefix /\ 1 \in 1 .. 1
    BY DEF IsLine
  <2>3. /\ position[r + 1] = position[r] + Len(Pieces(m)[r + 1])
        /\ \A x \in 1 .. Len(Pieces(m)[r + 1]) : response[position[r] + x] = Pieces(m)[r + 1][x]
    BY <2>1, SMTT(30) DEF PlacedAt
  <2> QED
    BY <2>2, <2>3
<1>4. ASSUME j >= r + 2, l = 3
      PROVE  position[r + 2] = 1 + Len(text) /\ \A x \in 1 .. Len(text) : response[1 + x] = text[x]
  <2>1. r + 2 \in r + 1 .. j /\ (r + 2) - 1 = r + 1 /\ j >= r + 1
    BY <1>1, <1>4
  <2>2. Pieces(m)[r + 2] = text
    BY <1>4 DEF IsLine
  <2> DEFINE k == r + 2
  <2>3. /\ position[k] = position[k - 1] + Len(Pieces(m)[k])
        /\ \A x \in 1 .. Len(Pieces(m)[k]) : response[position[k - 1] + x] = Pieces(m)[k][x]
    <3>1. k \in r + 1 .. j
      BY <2>1
    <3> HIDE DEF k
    <3> QED
      BY <3>1 DEF PlacedAt
  <2> QED
    BY <1>3, <2>1, <2>2, <2>3, SMTT(30)
<1>5. ASSUME j >= r + l PROVE position[r + l] = 2 + Len(text) /\ response[2 + Len(text)] = LF
  <2>1. r + l \in r + 1 .. j
    BY <1>1, <1>2, <1>5
  <2>2. Pieces(m)[r + l] = <<LF>> /\ Len(<<LF>>) = 1 /\ <<LF>>[1] = LF /\ 1 \in 1 .. 1
    BY DEF IsLine
  <2>3. /\ position[r + l] = position[(r + l) - 1] + 1
        /\ response[position[(r + l) - 1] + 1] = LF
    BY <2>1, <2>2, ZenonT(40) DEF PlacedAt
  <2>4. position[(r + l) - 1] = 1 + Len(text)
    <3>1. CASE l = 2
      <4>1. text = <<>> /\ (r + l) - 1 = r + 1 /\ j >= r + 1
        BY <1>1, <1>5, <3>1 DEF IsLine
      <4> QED
        BY <1>3, <4>1
    <3>2. CASE l = 3
      <4>1. (r + l) - 1 = r + 2 /\ j >= r + 2
        BY <1>1, <1>5, <3>2
      <4> QED
        BY <1>4, <3>2, <4>1
    <3> QED
      BY <1>2, <3>1, <3>2
  <2> QED
    BY <1>2, <2>3, <2>4
<1> QED
  BY <1>3, <1>4, <1>5 DEF LineUpTo

(* A line up to n is read: either the message was whole, and is received,  *)
(* or it is in place in what is left.                                      *)
ReadOrLeft(m, j, end, n, got, rest, next) ==
  \/ j = Len(Pieces(m)) /\ end = n /\ n = 1 /\ got = Decoded(m)
  \/ end >= n /\ (j = Len(Pieces(m)) => end > n) /\ InPlace(m, j, end - n, rest, next)

LEMMA ReadInPlace ==
  ASSUME NEW m \in Message, NEW j \in 0 .. Len(Pieces(m)), NEW end, NEW got,
         NEW response \in Seq(Symbol), InPlace(m, j, end, response, got),
         j = Len(Pieces(m)) \/ end = Len(response),
         NEW n \in 1 .. Len(response), response[n] = LF, \A k \in 1 .. n - 1 : response[k] # LF,
         NEW rest, rest = SubSeq(response, n + 1, Len(response)),
         NEW next, next = IF n = 1 THEN Blank ELSE Parsed(SubSeq(response, 1, n - 1), got)
  PROVE  ReadOrLeft(m, j, end, n, got, rest, next)
<1> DEFINE L == Len(Pieces(m))
<1>0. L \in Nat /\ j \in Nat /\ j <= L
  <2>1. L \in Nat
    BY PiecesOf
  <2> QED
    BY <2>1
<1>1. PICK r \in 0 .. j : \E position \in [r .. j -> Nat] :
               /\ r < Len(Pieces(m)) /\ position[j] = end
               /\ PlacedAt(m, r, j, position, response)
               /\ Entered(m, r, position[r], response, got)
  BY InPlaceIs
<1>2. PICK position \in [r .. j -> Nat] :
               /\ r < Len(Pieces(m)) /\ position[j] = end
               /\ PlacedAt(m, r, j, position, response)
               /\ Entered(m, r, position[r], response, got)
  BY <1>1
<1>3. /\ r \in Nat /\ r <= j /\ r < L /\ r \in r .. j /\ j \in r .. j
      /\ n \in Nat /\ n >= 1 /\ Len(response) \in Nat /\ n <= Len(response)
  BY <1>0, <1>2
<1>4. \A k \in r .. j : position[k] \in Nat /\ position[k] <= Len(response)
  BY <1>2 DEF PlacedAt
<1>5. ASSUME j = L PROVE /\ position[L] = position[L - 1] + 1 /\ L - 1 \in r .. j
                         /\ response[end] = LF /\ end \in Nat
                         /\ \A k \in r .. L - 1 : position[k] < end
  <2>1. L - 1 \in r .. j /\ r \in 0 .. L - 1 /\ position \in [r .. L -> Nat]
    BY <1>0, <1>3, <1>5
  <2>2. position[L] = position[L - 1] + 1 /\ response[position[L]] = LF
    BY <1>2, <1>5, <2>1, LastInPlace
  <2>3. end = position[L] /\ end \in Nat
    BY <1>2, <1>3, <1>4, <1>5
  <2>4. ASSUME NEW k \in r .. L - 1 PROVE position[k] < end
    <3>1. k \in r .. j /\ L - 1 \in k .. j
      BY <1>0, <1>3, <1>5, <2>1
    <3>2. position[k] <= position[L - 1] /\ position[k] \in Nat /\ position[L - 1] \in Nat
      BY <1>2, <1>4, <2>1, <3>1 DEF PlacedAt
    <3>3. end = position[L - 1] + 1
      BY <2>2, <2>3
    <3> DEFINE a == position[k]
               b == position[L - 1]
    <3>4. a <= b /\ a \in Nat /\ b \in Nat /\ end = b + 1
      BY <3>2, <3>3
    <3> HIDE DEF a, b
    <3>5. a < end
      BY <3>4
    <3> QED
      BY <3>5 DEF a
  <2> QED
    BY <2>1, <2>2, <2>3, <2>4
<1>8. \A x \in 1 .. Len(response) - n : rest[x] = response[n + x]
  BY Remaining
<1>6. CASE position[r] >= n
  <2> DEFINE p == position[r]
  <2>1. p \in Nat /\ p # 0 /\ p >= n /\ p <= Len(response)
    BY <1>3, <1>4, <1>6
  <2>2. r = 0 /\ \A k \in {p, p - 1} : k > 0 => response[k] = LF
    BY <1>2, <2>1 DEF Entered
  <2> HIDE DEF p
  <2>3. Entered(m, r, p - n, rest, next)
    <3>1. CASE p = n
      <4>1. n = 1
        <5> SUFFICES ASSUME n # 1 PROVE FALSE
          OBVIOUS
        <5>1. n - 1 \in 1 .. n - 1 /\ n - 1 > 0 /\ n - 1 \in {p, p - 1}
          BY <1>3, <3>1
        <5> QED
          BY <2>2, <5>1
      <4>2. p - n = 0
        BY <2>1, <3>1
      <4> QED
        BY <2>2, <4>1, <4>2, NothingRead DEF Entered
    <3>2. CASE p # n
      <4>1. p - n # 0
        BY <1>3, <2>1, <3>2
      <4>2. ASSUME NEW k \in {p - n, (p - n) - 1}, k > 0 PROVE rest[k] = LF
        <5>1. k \in 1 .. Len(response) - n /\ n + k \in {p, p - 1} /\ n + k > 0
          BY <1>3, <2>1, <4>2
        <5>2. rest[k] = response[n + k]
          BY <1>8, <5>1
        <5> QED
          BY <2>2, <5>1, <5>2
      <4> QED
        BY <2>2, <4>1, <4>2 DEF Entered
    <3> QED
      BY <3>1, <3>2
  <2>4. end >= n /\ InPlace(m, j, end - n, rest, next)
    BY <1>2, <2>1, <2>3, ShiftInPlace DEF p
  <2>5. j = L => end > n
    <3> SUFFICES ASSUME j = L PROVE end > n
      OBVIOUS
    <3>1. r \in r .. L - 1
      BY <1>0, <1>3
    <3>2. position[r] < end /\ end \in Nat
      BY <1>5, <3>1
    <3> QED
      BY <1>3, <2>1, <3>2 DEF p
  <2> QED
    BY <2>4, <2>5 DEF ReadOrLeft
<1>7. CASE position[r] < n
  <2>1. position[r] = 0
    <3> SUFFICES ASSUME position[r] # 0 PROVE FALSE
      OBVIOUS
    <3>1. position[r] \in 1 .. n - 1 /\ position[r] > 0
      BY <1>3, <1>4, <1>7
    <3>2. response[position[r]] = LF
      BY <1>2, <3>1 DEF Entered
    <3> QED
      BY <3>1, <3>2
  <2>2. HasRead(m, r, got)
    BY <1>2, <2>1 DEF Entered
  <2>3. CASE r = L - 1 /\ got = Decoded(m)
    <3>1. j = L
      <4> SUFFICES ASSUME j # L PROVE FALSE
        OBVIOUS
      <4>1. r = j
        BY <1>0, <1>3, <2>3
      <4>2. Len(response) = 0
        BY <1>2, <2>1, <4>1
      <4> QED
        BY <1>3, <4>2
    <3>2. end = 1
      BY <1>2, <1>5, <2>1, <2>3, <3>1
    <3>3. n = 1
      <4> SUFFICES ASSUME n # 1 PROVE FALSE
        OBVIOUS
      <4>1. 1 \in 1 .. n - 1
        BY <1>3
      <4> QED
        BY <1>5, <3>1, <3>2, <4>1
    <3> QED
      BY <2>3, <3>1, <3>2, <3>3 DEF ReadOrLeft
  <2>4. ASSUME NEW l \in {2, 3}, NEW prefix \in {"data:", "id:"}, NEW text \in Seq(Char),
               IsLine(m, r, l, prefix, text), HasRead(m, r + l, Parsed(<<prefix>> \o text, got))
        PROVE  end >= n /\ (j = L => end > n) /\ InPlace(m, j, end - n, rest, next)
    <3> DEFINE T == Len(text)
    <3>1. T \in Nat /\ prefix # LF /\ \A x \in 1 .. T : text[x] # LF
      <4>1. \A x \in 1 .. T : text[x] \in Char
        OBVIOUS
      <4> QED
        BY <4>1, LineAssumption DEF LF
    <3>2. r + l < L
      BY <2>4 DEF IsLine
    <3>3. /\ j >= r + 1 => position[r + 1] = 1 /\ response[1] = prefix
          /\ j >= r + 2 /\ l = 3 => position[r + 2] = 1 + T /\ \A x \in 1 .. T : response[1 + x] = text[x]
          /\ j >= r + l => position[r + l] = 2 + T /\ response[2 + T] = LF
      <4>1. PlacedAt(m, r, j, position, response) /\ position[r] = 0 /\ IsLine(m, r, l, prefix, text)
        BY <1>2, <2>1, <2>4
      <4>2. LineUpTo(j, r, l, prefix, text, position, response)
        BY <4>1, LineInPlace
      <4> QED
        BY <4>2 DEF LineUpTo
    <3> HIDE DEF T
    <3>4. l = 2 => T = 0
      BY <2>4 DEF IsLine, T
    <3>5. j >= r + l
      <4> SUFFICES ASSUME ~(j >= r + l) PROVE FALSE
        OBVIOUS
      <4>1. j # L /\ position[j] = Len(response)
        BY <1>0, <1>2, <1>3, <3>2
      <4>2. j = r \/ j = r + 1 \/ (j = r + 2 /\ l = 3)
        BY <1>0, <1>3
      <4>3. CASE j = r
        BY <1>3, <2>1, <4>1, <4>3
      <4>4. CASE j = r + 1
        <5>1. Len(response) = 1 /\ response[1] = prefix
          BY <1>0, <3>3, <4>1, <4>4
        <5> QED
          BY <1>3, <3>1, <5>1
      <4>5. CASE j = r + 2 /\ l = 3
        <5>1. Len(response) = 1 + T /\ response[1] = prefix /\ \A x \in 1 .. T : response[1 + x] = text[x]
          BY <1>0, <1>3, <3>3, <4>1, <4>5
        <5>2. CASE n = 1
          BY <3>1, <5>1, <5>2
        <5>3. CASE n # 1
          <6>1. n - 1 \in 1 .. T /\ 1 + (n - 1) = n
            BY <1>3, <3>1, <5>1, <5>3
          <6> QED
            BY <3>1, <5>1, <6>1
        <5> QED
          BY <5>2, <5>3
      <4> QED
        BY <4>2, <4>3, <4>4, <4>5
    <3>6. /\ position[r + l] = 2 + T /\ response[2 + T] = LF /\ response[1] = prefix
          /\ \A x \in 1 .. T : response[1 + x] = text[x]
      <4>1. j >= r + 1 /\ j >= r + 2
        BY <1>0, <1>3, <3>5
      <4>2. CASE l = 2
        BY <3>3, <3>4, <3>5, <4>1, <4>2
      <4>3. CASE l = 3
        BY <3>3, <3>5, <4>1, <4>3
      <4> QED
        BY <4>2, <4>3
    <3>7. n = 2 + T
      <4>1. ~(2 + T < n)
        <5> SUFFICES ASSUME 2 + T < n PROVE FALSE
          OBVIOUS
        <5>1. 2 + T \in 1 .. n - 1
          BY <1>3, <3>1
        <5> QED
          BY <3>6, <5>1
      <4>2. ~(n < 2 + T)
        <5> SUFFICES ASSUME n < 2 + T PROVE FALSE
          OBVIOUS
        <5>1. CASE n = 1
          BY <3>1, <3>6, <5>1
        <5>2. CASE n # 1
          <6>1. n - 1 \in 1 .. T /\ 1 + (n - 1) = n
            BY <1>3, <3>1, <5>2
          <6> QED
            BY <3>1, <3>6, <6>1, SMTT(30)
        <5> QED
          BY <5>1, <5>2
      <4> QED
        BY <1>3, <3>1, <4>1, <4>2
    <3>8. SubSeq(response, 1, n - 1) = <<prefix>> \o text
      <4> DEFINE line == SubSeq(response, 1, n - 1)
                 text_line == <<prefix>> \o text
      <4>1. /\ text_line \in Seq(Symbol) /\ Len(text_line) = 1 + T /\ text_line[1] = prefix
            /\ \A x \in 1 .. T : text_line[1 + x] = text[x]
        <5>1. <<prefix>> \in Seq(Symbol) /\ text \in Seq(Symbol) /\ Len(<<prefix>>) = 1
          BY DEF Symbol
        <5> QED
          BY <5>1, SMTT(30) DEF T
      <4>2. /\ line \in Seq(Symbol) /\ Len(line) = 1 + T
            /\ \A k \in 1 .. 1 + T : line[k] = response[k]
        BY <1>3, <3>1, <3>7
      <4>3. ASSUME NEW k \in 1 .. 1 + T PROVE line[k] = text_line[k]
        <5>1. CASE k = 1
          BY <3>6, <4>1, <4>2, <5>1
        <5>2. CASE k # 1
          <6>1. k - 1 \in 1 .. T /\ 1 + (k - 1) = k
            BY <3>1, <5>2
          <6>2. text_line[k] = text[k - 1] /\ response[k] = text[k - 1]
            <7> HIDE DEF text_line
            <7> QED
              BY <3>6, <4>1, <6>1
          <6> QED
            BY <4>2, <6>2
        <5> QED
          BY <5>1, <5>2
      <4> HIDE DEF line, text_line
      <4>4. line = text_line
        BY <4>1, <4>2, <4>3
      <4> QED
        BY <4>4 DEF line, text_line
    <3>9. next = Parsed(<<prefix>> \o text, got)
      <4>1. n # 1
        BY <3>1, <3>7
      <4> QED
        BY <3>8, <4>1
    <3> DEFINE s == r + l
               later == [k \in s .. j |-> position[k]]
    <3>10. /\ s \in 0 .. j /\ s \in Nat /\ s < L /\ s >= r /\ s \in s .. j /\ j \in s .. j
           /\ \A k \in s .. j : k \in r .. j
      BY <1>0, <1>3, <3>2, <3>5
    <3>11. later \in [s .. j -> Nat] /\ \A k \in s .. j : later[k] = position[k]
      BY <3>10
    <3> HIDE DEF s, later
    <3>12. PlacedAt(m, s, j, later, response)
      <4>1. ASSUME NEW k \in s .. j
            PROVE  later[k] <= Len(response) /\ \A x \in k .. j : later[k] <= later[x]
        <5>1. position[k] <= Len(response) /\ \A x \in k .. j : position[k] <= position[x]
          BY <1>2, <3>10 DEF PlacedAt
        <5>2. \A x \in k .. j : x \in s .. j
          BY <3>10
        <5> QED
          BY <3>11, <5>1, <5>2
      <4>2. ASSUME NEW k \in s + 1 .. j
            PROVE  /\ later[k] = later[k - 1] + Len(Pieces(m)[k])
                   /\ \A x \in 1 .. Len(Pieces(m)[k]) : response[later[k - 1] + x] = Pieces(m)[k][x]
        <5>1. k \in r + 1 .. j /\ k \in s .. j /\ k - 1 \in s .. j
          BY <1>0, <1>3, <3>10
        <5>2. later[k] = position[k] /\ later[k - 1] = position[k - 1]
          BY <3>11, <5>1
        <5> QED
          BY <1>2, <5>1, <5>2, ZenonT(40) DEF PlacedAt
      <4> QED
        BY <4>1, <4>2 DEF PlacedAt
    <3>13. later[s] = n /\ later[j] = end
      BY <1>2, <3>6, <3>7, <3>10, <3>11 DEF s
    <3>14. Entered(m, s, later[s] - n, rest, next)
      <4>1. later[s] - n = 0
        BY <1>3, <3>13
      <4> QED
        BY <2>4, <3>9, <4>1 DEF Entered, s
    <3>15. end >= n /\ InPlace(m, j, end - n, rest, next)
      <4>1. n <= later[s]
        BY <1>3, <3>13
      <4> QED
        BY <3>10, <3>11, <3>12, <3>13, <3>14, <4>1, ShiftInPlace
    <3>16. j = L => end > n
      <4> SUFFICES ASSUME j = L PROVE end > n
        OBVIOUS
      <4>1. s \in r .. L - 1
        BY <1>0, <1>3, <3>10
      <4>2. position[s] < end /\ position[s] = n
        BY <1>5, <3>10, <3>11, <3>13, <4>1
      <4> QED
        BY <1>3, <1>5, <4>2
    <3> QED
      BY <3>15, <3>16
  <2> QED
    BY <1>3, <2>2, <2>3, <2>4, NextLine, SMTT(30) DEF ReadOrLeft
<1> QED
  BY <1>3, <1>4, <1>6, <1>7 DEF ReadOrLeft

LEMMA EndInPlace ==
  ASSUME NEW m \in Message, NEW end, NEW response, NEW got,
         InPlace(m, Len(Pieces(m)), end, response, got)
  PROVE  end \in Nat /\ end >= 1 /\ end <= Len(response) /\ response[end] = LF
<1> DEFINE L == Len(Pieces(m))
<1>0. L \in Nat
  BY PiecesOf
<1>1. PICK r \in 0 .. L : \E position \in [r .. L -> Nat] :
               /\ r < L /\ position[L] = end
               /\ PlacedAt(m, r, L, position, response)
  BY InPlaceIs
<1>2. PICK position \in [r .. L -> Nat] :
               /\ r < L /\ position[L] = end
               /\ PlacedAt(m, r, L, position, response)
  BY <1>1
<1>3. r \in 0 .. L - 1 /\ L \in r .. L /\ L - 1 \in r .. L
  BY <1>0, <1>2
<1>4. position[L] = position[L - 1] + 1 /\ response[position[L]] = LF
  BY <1>2, <1>3, LastInPlace
<1>5. position[L] <= Len(response)
  BY <1>2, <1>3 DEF PlacedAt
<1>6. position[L] \in Nat /\ position[L - 1] \in Nat
  BY <1>2, <1>3
<1>7. position[L] >= 1
  BY <1>4, <1>6
<1> QED
  BY <1>2, <1>4, <1>5, <1>6, <1>7

-----------------------------------------------------------------------------
(* The steps that neither put anything nor read.                           *)

LEMMA WayUndisturbed ==
  ASSUME WayInv, UNCHANGED <<client, calls>>,
         reply' = "none" => reply = "none",
         reply' = "running" => reply = "running" /\ wire' = wire /\ (writable' => writable)
  PROVE  WayInv'
<1> USE DEF client, calls
<1>1. Busy' = Busy /\ \A t \in Thread : PutSoFar(t)' = PutSoFar(t)
  BY DEF Busy, PutSoFar
<1>2. AloneInv'
  <2>1. sending' \in [Thread -> Message \cup {None}] /\ \A t \in Busy' \ disturbed' : Busy' = {t}
    BY <1>1 DEF WayInv, AloneInv
  <2>2. ASSUME NEW t \in Busy', sending'[t] # None
        PROVE  /\ PutSoFar(t)' \in Nat
               /\ todo'[t] = SubSeq(Pieces(sending'[t]), PutSoFar(t)' + 1, Len(Pieces(sending'[t])))
    <3>1. t \in Thread /\ t \in Busy
      BY <1>1 DEF Busy
    <3> QED
      BY <1>1, <2>2, <3>1 DEF WayInv, AloneInv
  <2>3. ASSUME NEW t \in Busy' \ disturbed', sending'[t] # None, writable', reply' = "running"
        PROVE  InPlace(sending'[t], PutSoFar(t)', Len(wire'), wire', pending')
    <3>1. t \in Thread /\ t \in Busy \ disturbed
      BY <1>1 DEF Busy
    <3>2. InPlace(sending[t], PutSoFar(t), Len(wire), wire, pending)
      BY <2>3, <3>1 DEF WayInv, AloneInv
    <3> QED
      BY <1>1, <2>3, <3>1, <3>2
  <2> QED
    BY <2>1, <2>2, <2>3 DEF AloneInv
<1>3. ArrivalInv'
  BY DEF WayInv, ArrivalInv
<1> QED
  BY <1>2, <1>3 DEF WayInv

LEMMA HandlingKeepsWay == ASSUME IInv, WayInv, HandleRequest PROVE WayInv'
<1> USE DEF HandleRequest, server, client, calls
<1>1. Busy' = Busy /\ Busy = {} /\ ends = <<>>
  BY DEF IInv, ConnectionInv, Busy, WayInv, ArrivalInv
<1>2. AloneInv'
  BY <1>1 DEF WayInv, AloneInv
<1>3. ArrivalInv'
  BY <1>1 DEF WayInv, ArrivalInv
<1> QED
  BY <1>2, <1>3 DEF WayInv

LEMMA BeginKeepsWay ==
  ASSUME IInv, WayInv, NEW t \in Thread, NEW pieces, IsCall(pieces), NEW message,
         message = None \/ (message \in Message /\ pieces = Pieces(message)),
         Begin(t, pieces, message)
  PROVE  WayInv'
<1> USE DEF Begin, server, connection, client
<1>1. /\ todo' = [todo EXCEPT ![t] = pieces] /\ sending' = [sending EXCEPT ![t] = message]
      /\ todo \in [Thread -> Seq(Seq(Symbol))] /\ sending \in [Thread -> Message \cup {None}]
      /\ pieces \in Seq(Seq(Symbol)) /\ Len(pieces) \in Nat /\ Len(pieces) >= 2
  BY DEF IInv, CallsInv, IsCall, WayInv, AloneInv
<1>2. /\ todo'[t] = pieces /\ sending'[t] = message
      /\ \A u \in Thread \ {t} : todo'[u] = todo[u] /\ sending'[u] = sending[u]
  BY <1>1
<1>3. Busy' = Busy \cup {t}
  <2>1. pieces # <<>>
    BY <1>1
  <2> QED
    BY <1>2, <2>1 DEF Busy
<1>4. ASSUME NEW u \in Busy' \ disturbed' PROVE Busy = {} /\ u = t /\ Busy' = {t}
  BY <1>3, <1>4
<1>5. ASSUME NEW u \in Busy', sending'[u] # None
      PROVE  /\ PutSoFar(u)' \in Nat
             /\ todo'[u] = SubSeq(Pieces(sending'[u]), PutSoFar(u)' + 1, Len(Pieces(sending'[u])))
             /\ u = t => PutSoFar(u)' = 0
  <2>1. CASE u = t
    <3>1. pieces = Pieces(message) /\ sending'[u] = message /\ todo'[u] = pieces
      BY <1>2, <1>5, <2>1
    <3>2. PutSoFar(u)' = Len(pieces) - Len(pieces)
      BY <3>1 DEF PutSoFar
    <3>3. PutSoFar(u)' = 0 /\ SubSeq(pieces, 0 + 1, Len(pieces)) = pieces
      BY <1>1, <3>2
    <3> QED
      BY <3>1, <3>3
  <2>2. CASE u # t
    <3>1. u \in Busy /\ u \in Thread \ {t}
      BY <1>3, <2>2 DEF Busy
    <3>2. todo'[u] = todo[u] /\ sending'[u] = sending[u] /\ PutSoFar(u)' = PutSoFar(u)
      BY <1>2, <3>1 DEF PutSoFar
    <3> QED
      BY <1>5, <2>2, <3>1, <3>2 DEF WayInv, AloneInv
  <2> QED
    BY <2>1, <2>2
<1>6. ASSUME NEW u \in Busy' \ disturbed', sending'[u] # None, writable', reply' = "running"
      PROVE  InPlace(sending'[u], PutSoFar(u)', Len(wire'), wire', pending')
  <2>1. u = t /\ Busy = {} /\ message \in Message /\ sending'[u] = message
    BY <1>2, <1>4, <1>6
  <2>2. PutSoFar(u)' = 0
    BY <1>5, <1>6, <2>1
  <2>3. IF wire = <<>> THEN pending = Blank
        ELSE \A k \in {Len(wire), Len(wire) - 1} : k > 0 => wire[k] = LF
    BY <1>6, <2>1 DEF IInv, CleanBoundary
  <2>4. InPlace(message, 0, Len(wire), wire, pending)
    <3>1. wire \in Seq(Symbol)
      BY DEF IInv, CallsInv
    <3> QED
      BY <2>1, <2>3, <3>1, BeginsInPlace
  <2> QED
    BY <2>1, <2>2, <2>4
<1>7. AloneInv'
  <2>1. sending' \in [Thread -> Message \cup {None}]
    BY <1>1
  <2> QED
    BY <1>4, <1>5, <1>6, <2>1 DEF AloneInv
<1>8. ArrivalInv'
  BY DEF WayInv, ArrivalInv
<1> QED
  BY <1>7, <1>8 DEF WayInv

LEMMA TailIs ==
  ASSUME NEW S, NEW s \in Seq(S), Len(s) > 0
  PROVE  /\ Tail(s) \in Seq(S) /\ Len(Tail(s)) = Len(s) - 1 /\ Head(s) = s[1]
         /\ \A x \in 1 .. Len(s) - 1 : Tail(s)[x] = s[x + 1]
OBVIOUS

LEMMA RestOf ==
  ASSUME NEW S, NEW s \in Seq(S), NEW k \in 0 .. Len(s) - 1, NEW rest, rest = SubSeq(s, k + 1, Len(s))
  PROVE  Head(rest) = s[k + 1] /\ Tail(rest) = SubSeq(s, (k + 1) + 1, Len(s))
<1>1. /\ k \in Nat /\ Len(s) \in Nat /\ rest \in Seq(S) /\ Len(rest) = Len(s) - k /\ Len(rest) > 0
      /\ \A x \in 1 .. Len(s) - k : rest[x] = s[k + x]
  OBVIOUS
<1> DEFINE later == SubSeq(s, (k + 1) + 1, Len(s))
<1>2. /\ later \in Seq(S) /\ Len(later) = Len(s) - (k + 1)
      /\ \A x \in 1 .. Len(s) - (k + 1) : later[x] = s[(k + 1) + x]
  <2>1. k + 1 \in 1 .. Len(s)
    BY <1>1
  <2> QED
    BY <2>1, Remaining
<1>3. /\ Tail(rest) \in Seq(S) /\ Len(Tail(rest)) = Len(rest) - 1 /\ Head(rest) = rest[1]
      /\ \A x \in 1 .. Len(rest) - 1 : Tail(rest)[x] = rest[x + 1]
  BY <1>1, TailIs
<1> DEFINE tail == Tail(rest)
<1> HIDE DEF later
<1>4. tail = later
  <2>1. Len(later) = Len(tail)
    BY <1>1, <1>2, <1>3
  <2>2. ASSUME NEW x \in 1 .. Len(later) PROVE later[x] = tail[x]
    <3>1. x \in 1 .. Len(rest) - 1 /\ x + 1 \in 1 .. Len(s) - k /\ k + (x + 1) = (k + 1) + x
      BY <1>1, <1>2
    <3> QED
      BY <1>1, <1>2, <1>3, <3>1
  <2>3. later \in Seq(S) /\ tail \in Seq(S)
    BY <1>2, <1>3
  <2> HIDE DEF tail
  <2> QED
    BY <2>1, <2>2, <2>3
<1> QED
  BY <1>1, <1>3, <1>4 DEF later

LEMMA AppendedIs ==
  ASSUME NEW S, NEW s \in Seq(S), NEW e \in S
  PROVE  /\ Append(s, e) \in Seq(S) /\ Len(s) \in Nat /\ Len(Append(s, e)) = Len(s) + 1
         /\ \A k \in 1 .. Len(s) : Append(s, e)[k] = s[k]
         /\ Append(s, e)[Len(s) + 1] = e
OBVIOUS

LEMMA PutKeepsWay ==
  ASSUME IInv, WayInv, NEW t \in Thread, Put(t)
  PROVE  WayInv'
<1> DEFINE taken == writable /\ reply = "running"
           last == Len(todo[t]) = 1
           cut == IF taken THEN disturbed ELSE disturbed \cup {t}
           arrives == last /\ t \notin cut /\ sending[t] # None
<1>1. /\ todo[t] # <<>> /\ wire' = IF taken THEN wire \o Head(todo[t]) ELSE wire
      /\ todo' = [todo EXCEPT ![t] = Tail(@)]
      /\ disturbed' = IF last THEN cut \ {t} ELSE cut
      /\ whole' = IF arrives THEN Append(whole, sending[t]) ELSE whole
      /\ ends' = IF arrives THEN Append(ends, Len(wire')) ELSE ends
      /\ sending' = IF last THEN [sending EXCEPT ![t] = None] ELSE sending
      /\ pending' = pending /\ received' = received /\ writable' = writable /\ reply' = reply
  BY DEF Put, connection
<1>2. /\ todo \in [Thread -> Seq(Seq(Symbol))] /\ wire \in Seq(Symbol)
      /\ sending \in [Thread -> Message \cup {None}]
      /\ todo[t] \in Seq(Seq(Symbol)) /\ Len(todo[t]) \in Nat \ {0}
      /\ Head(todo[t]) \in Seq(Symbol) /\ Tail(todo[t]) \in Seq(Seq(Symbol))
      /\ Len(Tail(todo[t])) = Len(todo[t]) - 1
  <2>1. /\ todo \in [Thread -> Seq(Seq(Symbol))] /\ wire \in Seq(Symbol)
        /\ sending \in [Thread -> Message \cup {None}]
    BY DEF IInv, CallsInv, WayInv, AloneInv
  <2>2. todo[t] \in Seq(Seq(Symbol))
    BY <2>1
  <2> QED
    BY <1>1, <2>1, <2>2
<1>3. /\ todo'[t] = Tail(todo[t]) /\ \A u \in Thread \ {t} : todo'[u] = todo[u]
      /\ sending'[t] = IF last THEN None ELSE sending[t]
      /\ \A u \in Thread \ {t} : sending'[u] = sending[u]
  BY <1>1, <1>2
<1>4. t \in Busy /\ Busy' = IF last THEN Busy \ {t} ELSE Busy
  <2>1. Tail(todo[t]) = <<>> <=> last
    <3>1. Tail(todo[t]) = <<>> <=> Len(Tail(todo[t])) = 0
      BY <1>2, EmptyHasNoLength
    <3> QED
      BY <1>2, <3>1, SMTT(30)
  <2> QED
    BY <1>1, <1>3, <2>1 DEF Busy
<1> HIDE DEF last, cut, arrives, taken
<1>5. ASSUME NEW u \in Busy' \ disturbed'
      PROVE  u = t /\ ~last /\ taken /\ t \notin disturbed /\ Busy = {t} /\ Busy' = {t}
  <2>1. u \notin disturbed /\ (u = t => ~last)
    BY <1>1, <1>4, <1>5 DEF cut
  <2>2. Busy = {u}
    BY <1>4, <1>5, <2>1 DEF WayInv, AloneInv
  <2>3. u = t /\ ~last
    BY <1>4, <2>1, <2>2
  <2>4. taken
    BY <1>1, <1>5, <2>3 DEF cut
  <2> QED
    BY <1>4, <2>1, <2>2, <2>3, <2>4
<1>6. ASSUME sending[t] # None
      PROVE  LET m == sending[t]
             IN  /\ m \in Message /\ PutSoFar(t) \in 0 .. Len(Pieces(m)) - 1
                 /\ Head(todo[t]) = Pieces(m)[PutSoFar(t) + 1]
                 /\ Tail(todo[t]) = SubSeq(Pieces(m), (PutSoFar(t) + 1) + 1, Len(Pieces(m)))
                 /\ Len(Pieces(m)) - Len(Tail(todo[t])) = PutSoFar(t) + 1
                 /\ last => PutSoFar(t) = Len(Pieces(m)) - 1
  <2> DEFINE m == sending[t]
             P == Pieces(m)
             k == PutSoFar(t)
  <2>1. m \in Message
    BY <1>2, <1>6
  <2>2. P \in Seq(Seq(Symbol)) /\ Len(P) \in Nat
    <3>1. P \in Seq(Seq(Symbol))
      BY <2>1, PiecesOf
    <3> QED
      BY <3>1
  <2>3. k \in Nat /\ todo[t] = SubSeq(P, k + 1, Len(P)) /\ k = Len(P) - Len(todo[t])
    BY <1>4, <1>6 DEF WayInv, AloneInv, PutSoFar
  <2> HIDE DEF m, P, k
  <2>4. k \in 0 .. Len(P) - 1
    BY <1>2, <2>2, <2>3
  <2>5. Head(todo[t]) = P[k + 1] /\ Tail(todo[t]) = SubSeq(P, (k + 1) + 1, Len(P))
    <3> DEFINE rest == todo[t]
               S == Seq(Symbol)
    <3>1. P \in Seq(S) /\ k \in 0 .. Len(P) - 1 /\ rest = SubSeq(P, k + 1, Len(P))
      BY <2>2, <2>3, <2>4
    <3> HIDE DEF rest, S
    <3>2. Head(rest) = P[k + 1] /\ Tail(rest) = SubSeq(P, (k + 1) + 1, Len(P))
      BY <3>1, RestOf, Zenon
    <3> QED
      BY <3>2 DEF rest
  <2>6. Len(P) - Len(Tail(todo[t])) = k + 1
    <3> DEFINE a == Len(todo[t])
               b == Len(Tail(todo[t]))
    <3>1. a \in Nat /\ b = a - 1 /\ k = Len(P) - a
      BY <1>2, <2>3
    <3> HIDE DEF a, b
    <3>2. Len(P) - b = k + 1
      BY <2>2, <3>1
    <3> QED
      BY <3>2 DEF b
  <2>7. last => k = Len(P) - 1
    BY <1>2, <2>2, <2>3 DEF last
  <2> QED
    BY <2>1, <2>4, <2>5, <2>6, <2>7 DEF m, P, k
<1>7. ASSUME sending[t] # None, t \notin disturbed, taken
      PROVE  /\ wire' \in Seq(Symbol)
             /\ InPlace(sending[t], PutSoFar(t) + 1, Len(wire'), wire', pending)
  <2> DEFINE m == sending[t]
             piece == Head(todo[t])
  <2>1. InPlace(m, PutSoFar(t), Len(wire), wire, pending)
    BY <1>4, <1>7 DEF WayInv, AloneInv, taken
  <2>2. m \in Message /\ PutSoFar(t) \in 0 .. Len(Pieces(m)) - 1 /\ piece = Pieces(m)[PutSoFar(t) + 1]
    BY <1>6, <1>7
  <2>3. piece \in Seq(Symbol) /\ wire \in Seq(Symbol) /\ wire' = wire \o piece
    BY <1>1, <1>2, <1>7
  <2> HIDE DEF m, piece
  <2>4. InPlace(m, PutSoFar(t) + 1, Len(wire \o piece), wire \o piece, pending)
    BY <2>1, <2>2, <2>3, OneMoreInPlace
  <2>5. wire' \in Seq(Symbol)
    BY <2>3
  <2> QED
    BY <2>3, <2>4, <2>5 DEF m
<1>8. AloneInv'
  <2>1. sending' \in [Thread -> Message \cup {None}]
    BY <1>1, <1>2
  <2>2. \A u \in Busy' \ disturbed' : Busy' = {u}
    BY <1>5
  <2>3. ASSUME NEW u \in Busy', sending'[u] # None
        PROVE  /\ PutSoFar(u)' \in Nat
               /\ todo'[u] = SubSeq(Pieces(sending'[u]), PutSoFar(u)' + 1, Len(Pieces(sending'[u])))
    <3>1. CASE u = t
      <4>1. sending'[t] = sending[t] /\ sending[t] # None
        BY <1>3, <2>3, <3>1
      <4>2. PutSoFar(t)' = PutSoFar(t) + 1
        BY <1>3, <1>6, <4>1 DEF PutSoFar
      <4>3. PutSoFar(t) \in Nat
        BY <1>4, <4>1 DEF WayInv, AloneInv
      <4>4. todo'[t] = SubSeq(Pieces(sending[t]), (PutSoFar(t) + 1) + 1, Len(Pieces(sending[t])))
        BY <1>3, <1>6, <4>1
      <4>5. PutSoFar(t)' \in Nat
        BY <4>2, <4>3
      <4>6. todo'[t] = SubSeq(Pieces(sending'[t]), PutSoFar(t)' + 1, Len(Pieces(sending'[t])))
        BY <4>1, <4>2, <4>4, Zenon
      <4> QED
        BY <3>1, <4>5, <4>6
    <3>2. CASE u # t
      <4>1. u \in Busy /\ u \in Thread \ {t}
        BY <1>4, <2>3, <3>2 DEF Busy
      <4>2. todo'[u] = todo[u] /\ sending'[u] = sending[u] /\ PutSoFar(u)' = PutSoFar(u)
        BY <1>3, <4>1 DEF PutSoFar
      <4> QED
        BY <2>3, <4>1, <4>2 DEF WayInv, AloneInv
    <3> QED
      BY <3>1, <3>2
  <2>4. ASSUME NEW u \in Busy' \ disturbed', sending'[u] # None, writable', reply' = "running"
        PROVE  InPlace(sending'[u], PutSoFar(u)', Len(wire'), wire', pending')
    <3>1. u = t /\ ~last /\ taken /\ t \notin disturbed
      BY <1>5, <2>4
    <3>2. sending'[t] = sending[t] /\ sending[t] # None
      BY <1>3, <2>4, <3>1
    <3>3. PutSoFar(t)' = PutSoFar(t) + 1
      BY <1>3, <1>6, <3>2 DEF PutSoFar
    <3> QED
      BY <1>1, <1>7, <3>1, <3>2, <3>3
  <2> QED
    BY <2>1, <2>2, <2>3, <2>4 DEF AloneInv
<1>9. /\ whole \in Seq(Message) /\ received \in Seq({Decoded(m) : m \in Message}) /\ ends \in Seq(Nat)
      /\ Len(whole) = Len(received) + Len(ends) /\ \A k \in DOMAIN received : received[k] = Decoded(whole[k])
      /\ Len(received) \in Nat /\ Len(ends) \in Nat /\ Len(whole) \in Nat
      /\ DOMAIN ends = 1 .. Len(ends) /\ DOMAIN received = 1 .. Len(received)
  <2>1. whole \in Seq(Message) /\ received \in Seq({Decoded(m) : m \in Message}) /\ ends \in Seq(Nat)
    BY DEF WayInv, ArrivalInv
  <2>2. Len(received) \in Nat /\ Len(ends) \in Nat /\ Len(whole) \in Nat
    BY <2>1
  <2>3. DOMAIN ends = 1 .. Len(ends) /\ DOMAIN received = 1 .. Len(received)
    BY <2>1
  <2> QED
    BY <2>1, <2>2, <2>3 DEF WayInv, ArrivalInv
<1>10. ASSUME NEW k \in DOMAIN ends, reply = "running"
       PROVE  LET m == whole[Len(received) + k]
              IN  /\ m \in Message /\ Len(received) + k \in 1 .. Len(whole)
                  /\ InPlace(m, Len(Pieces(m)), ends[k], wire', pending)
                  /\ ends[k] <= Len(wire) /\ \A l \in 1 .. k - 1 : ends[l] < ends[k]
  <2> DEFINE m == whole[Len(received) + k]
  <2>1. Len(received) + k \in 1 .. Len(whole)
    BY <1>9
  <2>2. m \in Message
    BY <1>9, <2>1
  <2>3. InPlace(m, Len(Pieces(m)), ends[k], wire, pending) /\ \A l \in 1 .. k - 1 : ends[l] < ends[k]
    BY <1>10 DEF WayInv, ArrivalInv
  <2> HIDE DEF m
  <2>4. ends[k] <= Len(wire)
    BY <2>2, <2>3, EndInPlace
  <2>5. Len(Pieces(m)) \in 0 .. Len(Pieces(m))
    <3>1. Len(Pieces(m)) \in Nat
      BY <2>2, PiecesOf
    <3> QED
      BY <3>1
  <2>6. InPlace(m, Len(Pieces(m)), ends[k], wire', pending)
    <3>1. CASE taken
      <4>1. InPlace(m, Len(Pieces(m)), ends[k], wire \o Head(todo[t]), pending)
        BY <1>2, <2>2, <2>3, <2>5, StaysInPlace
      <4> QED
        BY <1>1, <3>1, <4>1
    <3>2. CASE ~taken
      BY <1>1, <2>3, <3>2
    <3> QED
      BY <3>1, <3>2
  <2> QED
    BY <2>1, <2>2, <2>3, <2>4, <2>6 DEF m
<1>11. ArrivalInv'
  <2>1. CASE ~arrives
    <3>1. whole' = whole /\ ends' = ends
      BY <1>1, <2>1
    <3>2. reply' = "none" => ends' = <<>>
      BY <1>1, <3>1 DEF WayInv, ArrivalInv
    <3> QED
      BY <1>1, <1>9, <1>10, <3>1, <3>2 DEF ArrivalInv
  <2>2. CASE arrives
    <3> DEFINE m == sending[t]
               E == Len(ends)
               R == Len(received)
               W == Len(wire')
    <3>1. taken /\ t \notin disturbed /\ sending[t] # None /\ last
      BY <2>2 DEF arrives, cut
    <3>2. m \in Message /\ PutSoFar(t) = Len(Pieces(m)) - 1 /\ Len(Pieces(m)) \in Nat /\ Head(todo[t]) = <<LF>>
      <4>1. m \in Message /\ PutSoFar(t) = Len(Pieces(m)) - 1 /\ Head(todo[t]) = Pieces(m)[PutSoFar(t) + 1]
        BY <1>6, <3>1
      <4> HIDE DEF m
      <4>2. Len(Pieces(m)) \in Nat /\ Pieces(m)[Len(Pieces(m))] = <<LF>>
        BY <4>1, PiecesOf
      <4>3. (Len(Pieces(m)) - 1) + 1 = Len(Pieces(m))
        BY <4>2
      <4> QED
        BY <4>1, <4>2, <4>3
    <3>3. W \in Nat /\ W = Len(wire) + 1
      <4>1. wire' = wire \o <<LF>> /\ wire \in Seq(Symbol)
        BY <1>1, <1>2, <3>1, <3>2
      <4> QED
        BY <4>1
    <3>4. InPlace(m, Len(Pieces(m)), W, wire', pending)
      <4>1. PutSoFar(t) + 1 = Len(Pieces(m))
        BY <3>2
      <4>2. InPlace(sending[t], PutSoFar(t) + 1, Len(wire'), wire', pending)
        BY <1>7, <3>1
      <4> QED
        BY <4>1, <4>2
    <3>5. ends' = Append(ends, W) /\ whole' = Append(whole, m)
      BY <1>1, <2>2
    <3> HIDE DEF m, W
    <3>6. /\ ends' \in Seq(Nat) /\ Len(ends') = E + 1 /\ ends'[E + 1] = W
          /\ \A k \in 1 .. E : ends'[k] = ends[k]
      BY <1>9, <3>3, <3>5, AppendedIs
    <3>7. /\ whole' \in Seq(Message) /\ Len(whole') = Len(whole) + 1 /\ whole'[Len(whole) + 1] = m
          /\ \A k \in 1 .. Len(whole) : whole'[k] = whole[k]
      BY <1>9, <3>2, <3>5, AppendedIs
    <3> HIDE DEF E, R
    <3>8. E \in Nat /\ R \in Nat /\ Len(whole) = R + E /\ Len(received') = R
      BY <1>1, <1>9 DEF E, R
    <3>9. reply' = "running"
      BY <1>1, <3>1 DEF taken
    <3>10. ASSUME NEW k \in DOMAIN ends'
           PROVE  LET n == whole'[R + k]
                  IN  /\ InPlace(n, Len(Pieces(n)), ends'[k], wire', pending')
                      /\ \A l \in 1 .. k - 1 : ends'[l] < ends'[k]
      <4>1. DOMAIN ends' = 1 .. E + 1
        BY <3>6
      <4>2. CASE k \in 1 .. E
        <5>1. k \in DOMAIN ends /\ reply = "running"
          BY <1>9, <3>1, <4>2 DEF E, taken
        <5>2. R + k \in 1 .. Len(whole)
          BY <1>10, <5>1 DEF R
        <5>3. whole'[R + k] = whole[R + k] /\ ends'[k] = ends[k]
          BY <3>6, <3>7, <4>2, <5>2
        <5>4. \A l \in 1 .. k - 1 : ends'[l] = ends[l] /\ ends[l] < ends[k]
          <6>1. \A l \in 1 .. k - 1 : l \in 1 .. E
            BY <3>8, <4>2
          <6> QED
            BY <1>10, <3>6, <5>1, <6>1
        <5>5. InPlace(whole[R + k], Len(Pieces(whole[R + k])), ends[k], wire', pending)
          BY <1>10, <5>1 DEF R
        <5> QED
          BY <1>1, <5>3, <5>4, <5>5
      <4>3. CASE k = E + 1
        <5>1. R + k = Len(whole) + 1
          BY <3>8, <4>3
        <5>2. whole'[R + k] = m /\ ends'[k] = W
          BY <3>6, <3>7, <4>3, <5>1
        <5>3. ASSUME NEW l \in 1 .. k - 1 PROVE ends'[l] < W
          <6>1. l \in 1 .. E /\ l \in DOMAIN ends /\ ends[l] \in Nat /\ Len(wire) \in Nat
            <7>1. l \in 1 .. E
              BY <3>8, <4>3, <5>3
            <7>2. l \in DOMAIN ends
              BY <1>9, <7>1 DEF E
            <7> QED
              BY <1>2, <1>9, <7>1, <7>2
          <6>2. ends[l] <= Len(wire)
            BY <1>10, <3>1, <6>1 DEF taken
          <6>3. ends'[l] = ends[l]
            BY <3>6, <6>1
          <6>4. ends[l] < W
            BY <3>3, <6>1, <6>2
          <6> QED
            BY <6>3, <6>4
        <5> QED
          BY <1>1, <3>4, <5>2, <5>3
      <4> QED
        BY <3>8, <4>1, <4>2, <4>3
    <3>11. ASSUME NEW k \in DOMAIN received' PROVE received'[k] = Decoded(whole'[k])
      <4>1. k \in DOMAIN received /\ k \in 1 .. Len(whole)
        BY <1>1, <1>9, <3>8, <3>11 DEF R
      <4> QED
        BY <1>1, <1>9, <3>7, <4>1
    <3>12. Len(whole') = Len(received') + Len(ends')
      BY <3>6, <3>7, <3>8
    <3> QED
      BY <1>1, <1>9, <3>6, <3>7, <3>8, <3>9, <3>10, <3>11, <3>12 DEF ArrivalInv
  <2> QED
    BY <2>1, <2>2
<1> QED
  BY <1>8, <1>11 DEF WayInv

LEMMA ReceiveKeepsWay == ASSUME IInv, WayInv, Receive PROVE WayInv'
<1>1. PICK n \in DOMAIN wire :
      /\ wire[n] = LF /\ LF \notin ToSet(SubSeq(wire, 1, n - 1)) /\ ReadTo(n)
      /\ pending' = IF n = 1 THEN Blank ELSE Parsed(SubSeq(wire, 1, n - 1), pending)
  BY DEF Receive, ReceiveThen
<1> DEFINE reached == ends # <<>> /\ Head(ends) = n
           R == Len(received)
           E == Len(ends)
<1>2. /\ UNCHANGED <<todo, sending, disturbed, whole, writable, reply>> /\ reply = "running"
      /\ wire' = SubSeq(wire, n + 1, Len(wire))
      /\ ends' = [k \in DOMAIN (IF reached THEN Tail(ends) ELSE ends) |->
                    (IF reached THEN Tail(ends) ELSE ends)[k] - n]
      /\ received' = IF reached /\ n = 1 THEN Append(received, pending) ELSE received
  BY <1>1 DEF Receive, ReceiveThen, ReadTo, connection, calls
<1>3. /\ wire \in Seq(Symbol) /\ Len(wire) \in Nat /\ n \in 1 .. Len(wire) /\ n \in Nat /\ n >= 1
      /\ Len(wire') = Len(wire) - n
  <2>1. wire \in Seq(Symbol)
    BY DEF IInv, CallsInv
  <2>2. Len(wire) \in Nat /\ n \in 1 .. Len(wire)
    BY <1>1, <2>1
  <2> QED
    BY <1>2, <2>1, <2>2, Remaining
<1>4. \A k \in 1 .. n - 1 : wire[k] # LF
  <2>1. /\ DOMAIN SubSeq(wire, 1, n - 1) = 1 .. n - 1
        /\ \A k \in 1 .. n - 1 : SubSeq(wire, 1, n - 1)[k] = wire[k]
    BY <1>3
  <2> QED
    BY <1>1, <2>1 DEF ToSet
<1>5. /\ whole \in Seq(Message) /\ received \in Seq({Decoded(m) : m \in Message}) /\ ends \in Seq(Nat)
      /\ Len(whole) = R + E /\ (\A k \in 1 .. R : received[k] = Decoded(whole[k]))
      /\ R \in Nat /\ E \in Nat /\ DOMAIN ends = 1 .. E
  <2>1. whole \in Seq(Message) /\ received \in Seq({Decoded(m) : m \in Message}) /\ ends \in Seq(Nat)
    BY DEF WayInv, ArrivalInv
  <2>2. R \in Nat /\ E \in Nat /\ DOMAIN ends = 1 .. E /\ DOMAIN received = 1 .. R
    BY <2>1
  <2> QED
    BY <2>1, <2>2 DEF WayInv, ArrivalInv
<1>6. ASSUME NEW k \in 1 .. E
      PROVE  LET m == whole[R + k]
             IN  /\ m \in Message /\ ends[k] \in Nat /\ R + k \in 1 .. Len(whole)
                 /\ \A l \in 1 .. k - 1 : ends[l] < ends[k]
                 /\ \/ k = 1 /\ ends[k] = n /\ n = 1 /\ pending = Decoded(m)
                    \/ ends[k] > n /\ InPlace(m, Len(Pieces(m)), ends[k] - n, wire', pending')
  <2> DEFINE m == whole[R + k]
  <2>1. R + k \in 1 .. Len(whole) /\ ends[k] \in Nat
    BY <1>5
  <2>2. m \in Message
    BY <1>5, <2>1
  <2>3. InPlace(m, Len(Pieces(m)), ends[k], wire, pending) /\ \A l \in 1 .. k - 1 : ends[l] < ends[k]
    BY <1>2, <1>5 DEF WayInv, ArrivalInv
  <2>4. k # 1 => ends[1] >= 1 /\ ends[1] < ends[k] /\ ends[1] \in Nat
    <3> SUFFICES ASSUME k # 1 PROVE ends[1] >= 1 /\ ends[1] < ends[k] /\ ends[1] \in Nat
      OBVIOUS
    <3>1. 1 \in 1 .. E /\ 1 \in 1 .. k - 1 /\ R + 1 \in 1 .. Len(whole) /\ 1 \in DOMAIN ends
      BY <1>5
    <3>2. whole[R + 1] \in Message
      BY <1>5, <3>1
    <3>3. InPlace(whole[R + 1], Len(Pieces(whole[R + 1])), ends[1], wire, pending)
      BY <1>2, <3>1 DEF WayInv, ArrivalInv
    <3>4. ends[1] >= 1
      BY <3>2, <3>3, EndInPlace
    <3> QED
      BY <1>5, <2>3, <3>1, <3>4
  <2> HIDE DEF m, R
  <2>5. Len(Pieces(m)) \in 0 .. Len(Pieces(m))
    <3>1. Len(Pieces(m)) \in Nat
      BY <2>2, PiecesOf
    <3> QED
      BY <3>1
  <2>6. \/ ends[k] = n /\ n = 1 /\ pending = Decoded(m)
        \/ ends[k] > n /\ InPlace(m, Len(Pieces(m)), ends[k] - n, wire', pending')
    <3> DEFINE j == Len(Pieces(m))
               end == ends[k]
               rest == wire'
               next == pending'
    <3>1. /\ m \in Message /\ j \in 0 .. Len(Pieces(m)) /\ j = Len(Pieces(m))
          /\ InPlace(m, j, end, wire, pending)
      BY <2>2, <2>3, <2>5
    <3>2. /\ wire \in Seq(Symbol) /\ n \in 1 .. Len(wire) /\ wire[n] = LF /\ \A x \in 1 .. n - 1 : wire[x] # LF
          /\ rest = SubSeq(wire, n + 1, Len(wire))
          /\ next = IF n = 1 THEN Blank ELSE Parsed(SubSeq(wire, 1, n - 1), pending)
      BY <1>1, <1>2, <1>3, <1>4
    <3> HIDE DEF j, end, rest, next
    <3>3. ReadOrLeft(m, j, end, n, pending, rest, next)
      BY <3>1, <3>2, ReadInPlace
    <3> QED
      BY <3>1, <3>3 DEF j, end, rest, next, ReadOrLeft
  <2>7. ends[k] = n /\ n = 1 => k = 1
    BY <2>4
  <2> QED
    BY <2>1, <2>2, <2>3, <2>6, <2>7 DEF m
<1>7. AloneInv'
  <2>1. Busy' = Busy /\ \A t \in Thread : PutSoFar(t)' = PutSoFar(t)
    BY <1>2 DEF Busy, PutSoFar
  <2>2. sending' \in [Thread -> Message \cup {None}] /\ \A t \in Busy' \ disturbed' : Busy' = {t}
    BY <1>2, <2>1 DEF WayInv, AloneInv
  <2>3. ASSUME NEW t \in Busy', sending'[t] # None
        PROVE  /\ PutSoFar(t)' \in Nat
               /\ todo'[t] = SubSeq(Pieces(sending'[t]), PutSoFar(t)' + 1, Len(Pieces(sending'[t])))
    <3>1. t \in Thread /\ t \in Busy
      BY <2>1 DEF Busy
    <3> QED
      BY <1>2, <2>1, <2>3, <3>1 DEF WayInv, AloneInv
  <2>4. ASSUME NEW t \in Busy' \ disturbed', sending'[t] # None, writable', reply' = "running"
        PROVE  InPlace(sending'[t], PutSoFar(t)', Len(wire'), wire', pending')
    <3> DEFINE m == sending[t]
               j == PutSoFar(t)
    <3>1. t \in Thread /\ t \in Busy \ disturbed /\ m # None /\ writable
      BY <1>2, <2>1, <2>4 DEF Busy
    <3>2. m \in Message
      BY <3>1 DEF WayInv, AloneInv
    <3>3. InPlace(m, j, Len(wire), wire, pending) /\ j \in Nat
      BY <1>2, <3>1 DEF WayInv, AloneInv
    <3>4. j \in 0 .. Len(Pieces(m)) /\ j # Len(Pieces(m))
      <4>1. Len(Pieces(m)) \in Nat
        BY <3>2, PiecesOf
      <4>2. Len(todo[t]) \in Nat /\ Len(todo[t]) # 0
        <5>1. todo[t] \in Seq(Seq(Symbol)) /\ todo[t] # <<>>
          BY <3>1 DEF IInv, CallsInv, Busy
        <5> QED
          BY <5>1, EmptyHasNoLength
      <4>3. j = Len(Pieces(m)) - Len(todo[t])
        BY DEF PutSoFar
      <4> HIDE DEF m, j
      <4> QED
        BY <3>3, <4>1, <4>2, <4>3
    <3> HIDE DEF m, j
    <3>5. ReadOrLeft(m, j, Len(wire), n, pending, wire', pending')
      BY <1>1, <1>2, <1>3, <1>4, <3>2, <3>3, <3>4, ReadInPlace
    <3>6. InPlace(m, j, Len(wire) - n, wire', pending')
      BY <3>4, <3>5 DEF ReadOrLeft
    <3> QED
      BY <1>2, <1>3, <2>1, <3>1, <3>6 DEF m, j
  <2> QED
    BY <2>1, <2>2, <2>3, <2>4 DEF AloneInv
<1>8. ArrivalInv'
  <2>1. CASE reached
    <3>1. E # 0 /\ ends[1] = n /\ 1 \in 1 .. E
      <4>1. E # 0
        BY <1>5, <2>1, EmptyHasNoLength
      <4>2. Head(ends) = ends[1]
        BY <1>5, <4>1
      <4> QED
        BY <1>5, <2>1, <4>1, <4>2
    <3>2. n = 1 /\ pending = Decoded(whole[R + 1]) /\ whole[R + 1] \in Message
      BY <1>3, <1>6, <3>1
    <3>3. /\ Tail(ends) \in Seq(Nat) /\ DOMAIN Tail(ends) = 1 .. E - 1
          /\ \A k \in 1 .. E - 1 : Tail(ends)[k] = ends[k + 1]
      BY <1>5, <3>1
    <3>4. /\ DOMAIN ends' = 1 .. E - 1
          /\ \A k \in 1 .. E - 1 : ends'[k] = ends[k + 1] - n
      BY <1>2, <2>1, <3>3
    <3>5. received' = Append(received, pending)
      BY <1>2, <2>1, <3>2
    <3>6. /\ received' \in Seq({Decoded(m) : m \in Message}) /\ Len(received') = R + 1
          /\ (\A k \in 1 .. R : received'[k] = received[k]) /\ received'[R + 1] = pending
      <4>1. pending \in {Decoded(m) : m \in Message}
        BY <3>2
      <4> QED
        BY <1>5, <3>5, <4>1, AppendedIs
    <3>7. ASSUME NEW k \in 1 .. E - 1
          PROVE  /\ k + 1 \in 1 .. E /\ ends[k + 1] > n /\ ends[k + 1] \in Nat
                 /\ R + (k + 1) = (R + 1) + k
      <4>1. k + 1 \in 1 .. E /\ k + 1 # 1 /\ R + (k + 1) = (R + 1) + k
        BY <1>5
      <4> QED
        BY <1>6, <4>1
    <3> HIDE DEF reached, R, E
    <3>8. ends' \in Seq(Nat) /\ Len(ends') = E - 1
      <4>1. E - 1 \in Nat
        BY <1>5, <3>1
      <4>2. \A k \in 1 .. E - 1 : ends[k + 1] - n \in Nat
        BY <1>3, <3>7
      <4>3. \A k \in 1 .. E - 1 : ends'[k] \in Nat
        BY <3>4, <4>2
      <4>4. ends' = [k \in 1 .. E - 1 |-> ends'[k]]
        BY <1>2, <3>4
      <4> QED
        BY <3>4, <4>1, <4>3, <4>4
    <3>9. ASSUME NEW k \in DOMAIN ends'
          PROVE  LET m == whole'[Len(received') + k]
                 IN  /\ InPlace(m, Len(Pieces(m)), ends'[k], wire', pending')
                     /\ \A l \in 1 .. k - 1 : ends'[l] < ends'[k]
      <4>1. k \in 1 .. E - 1
        BY <3>4
      <4>2. Len(received') + k = R + (k + 1)
        BY <3>6, <3>7, <4>1
      <4>3. whole'[Len(received') + k] = whole[R + (k + 1)] /\ ends'[k] = ends[k + 1] - n
        BY <1>2, <3>4, <4>1, <4>2
      <4>4. InPlace(whole[R + (k + 1)], Len(Pieces(whole[R + (k + 1)])), ends[k + 1] - n, wire', pending')
        BY <1>6, <3>7, <4>1
      <4>5. ASSUME NEW l \in 1 .. k - 1 PROVE ends'[l] < ends'[k]
        <5>1. l \in 1 .. E - 1 /\ l + 1 \in 1 .. (k + 1) - 1
          BY <1>5, <4>1, SMTT(30)
        <5>2. ends[l + 1] < ends[k + 1] /\ ends[l + 1] \in Nat /\ ends[k + 1] \in Nat
          BY <1>6, <3>7, <4>1, <5>1
        <5>3. ends[l + 1] - n < ends[k + 1] - n
          BY <1>3, <5>2
        <5> QED
          BY <3>4, <4>3, <5>1, <5>3
      <4> QED
        BY <4>3, <4>4, <4>5
    <3>10. ASSUME NEW k \in DOMAIN received' PROVE received'[k] = Decoded(whole'[k])
      <4>1. k \in 1 .. R \/ k = R + 1
        BY <1>5, <3>6
      <4> QED
        BY <1>2, <1>5, <3>2, <3>6, <4>1
    <3>11. Len(whole') = Len(received') + Len(ends')
      <4>1. Len(whole') = R + E /\ Len(received') = R + 1 /\ Len(ends') = E - 1
        BY <1>2, <1>5, <3>6, <3>8
      <4> QED
        BY <1>5, <4>1
    <3> QED
      BY <1>2, <1>5, <3>6, <3>8, <3>9, <3>10, <3>11 DEF ArrivalInv
  <2>2. CASE ~reached
    <3>1. received' = received
      BY <1>2, <2>2
    <3>2. DOMAIN ends' = 1 .. E /\ ends' = [k \in 1 .. E |-> ends[k] - n]
      BY <1>2, <1>5, <2>2
    <3>3. ASSUME NEW k \in 1 .. E PROVE ends[k] > n /\ ends[k] \in Nat /\ ends'[k] = ends[k] - n
      <4>1. ends[1] # n
        <5>1. ends # <<>> /\ Head(ends) = ends[1]
          BY <1>5, EmptyHasNoLength
        <5> QED
          BY <2>2, <5>1
      <4> QED
        BY <1>6, <3>2, <4>1
    <3> HIDE DEF reached, R, E
    <3>4. ends' \in Seq(Nat) /\ Len(ends') = E
      <4>1. \A k \in 1 .. E : ends[k] - n \in Nat
        BY <1>3, <3>3
      <4> QED
        BY <1>5, <3>2, <4>1
    <3>5. ASSUME NEW k \in DOMAIN ends'
          PROVE  LET m == whole'[Len(received') + k]
                 IN  /\ InPlace(m, Len(Pieces(m)), ends'[k], wire', pending')
                     /\ \A l \in 1 .. k - 1 : ends'[l] < ends'[k]
      <4>1. k \in 1 .. E
        BY <3>2
      <4>2. whole'[Len(received') + k] = whole[R + k] /\ ends'[k] = ends[k] - n
        BY <1>2, <3>1, <3>3, <4>1 DEF R
      <4>3. InPlace(whole[R + k], Len(Pieces(whole[R + k])), ends[k] - n, wire', pending')
        <5>1. ends[k] # n
          BY <1>3, <3>3, <4>1
        <5> QED
          BY <1>6, <4>1, <5>1
      <4>4. ASSUME NEW l \in 1 .. k - 1 PROVE ends'[l] < ends'[k]
        <5>1. l \in 1 .. E
          BY <1>5, <4>1
        <5>2. ends[l] < ends[k]
          BY <1>6, <4>1
        <5>3. ends[l] \in Nat /\ ends[k] \in Nat
          BY <3>3, <4>1, <5>1
        <5>4. ends[l] - n < ends[k] - n
          BY <1>3, <5>2, <5>3
        <5> QED
          BY <3>3, <4>2, <5>1, <5>4
      <4> QED
        BY <4>2, <4>3, <4>4
    <3>6. \A k \in DOMAIN received' : received'[k] = Decoded(whole'[k])
      BY <1>2, <3>1 DEF WayInv, ArrivalInv
    <3>7. Len(whole') = Len(received') + Len(ends') /\ received' \in Seq({Decoded(m) : m \in Message})
      BY <1>2, <1>5, <3>1, <3>4 DEF R
    <3> QED
      BY <1>2, <1>5, <3>4, <3>5, <3>6, <3>7 DEF ArrivalInv
  <2> QED
    BY <2>1, <2>2
<1> QED
  BY <1>7, <1>8 DEF WayInv

LEMMA ReceiveRestKeepsWay == ASSUME IInv, WayInv, ReceiveRest PROVE WayInv'
<1> USE DEF ReceiveRest, server, connection, calls
<1>1. ends = <<>>
  <2> SUFFICES ASSUME ends # <<>> PROVE FALSE
    OBVIOUS
  <2> DEFINE m == whole[Len(received) + 1]
  <2>1. /\ whole \in Seq(Message) /\ received \in Seq({Decoded(k) : k \in Message}) /\ ends \in Seq(Nat)
        /\ Len(whole) = Len(received) + Len(ends)
    BY DEF WayInv, ArrivalInv
  <2>2. 1 \in DOMAIN ends /\ Len(received) + 1 \in 1 .. Len(whole)
    BY <2>1
  <2>3. m \in Message
    BY <2>1, <2>2
  <2>4. InPlace(m, Len(Pieces(m)), ends[1], wire, pending)
    BY <2>2 DEF WayInv, ArrivalInv
  <2> HIDE DEF m
  <2>5. ends[1] \in 1 .. Len(wire) /\ wire[ends[1]] = LF
    <3>1. wire \in Seq(Symbol)
      BY DEF IInv, CallsInv
    <3>2. ends[1] \in Nat /\ ends[1] >= 1 /\ ends[1] <= Len(wire) /\ wire[ends[1]] = LF
      BY <2>3, <2>4, EndInPlace
    <3> QED
      BY <3>1, <3>2
  <2>6. ends[1] \in DOMAIN wire
    BY <2>5 DEF IInv, CallsInv
  <2> QED
    BY <2>5, <2>6 DEF ToSet
<1>2. AloneInv'
  <2>1. Busy' = Busy /\ \A t \in Thread : PutSoFar(t)' = PutSoFar(t)
    BY DEF Busy, PutSoFar
  <2>2. sending' \in [Thread -> Message \cup {None}] /\ \A t \in Busy' \ disturbed' : Busy' = {t}
    BY <2>1 DEF WayInv, AloneInv
  <2>3. ASSUME NEW t \in Busy', sending'[t] # None
        PROVE  /\ PutSoFar(t)' \in Nat
               /\ todo'[t] = SubSeq(Pieces(sending'[t]), PutSoFar(t)' + 1, Len(Pieces(sending'[t])))
    <3>1. t \in Thread /\ t \in Busy
      BY <2>1 DEF Busy
    <3> QED
      BY <2>1, <2>3, <3>1 DEF WayInv, AloneInv
  <2> QED
    BY <2>1, <2>2, <2>3 DEF AloneInv
<1>3. ArrivalInv'
  BY <1>1 DEF WayInv, ArrivalInv
<1> QED
  BY <1>2, <1>3 DEF WayInv

LEMMA InitOnTheWay == Init => WayInv
<1> SUFFICES ASSUME Init PROVE WayInv
  OBVIOUS
<1>1. Busy = {}
  BY DEF Init, Busy
<1>2. AloneInv
  BY <1>1 DEF Init, AloneInv
<1>3. ArrivalInv
  BY DEF Init, ArrivalInv
<1> QED
  BY <1>2, <1>3 DEF WayInv

LEMMA NextKeepsWay == IInv /\ WayInv /\ [Next]_vars => WayInv'
<1> SUFFICES ASSUME IInv, WayInv, [Next]_vars PROVE WayInv'
  OBVIOUS
<1>1. ASSUME NEW again \in BOOLEAN, Close(again) PROVE WayInv'
  BY <1>1, WayUndisturbed DEF Close, connection
<1>2. ASSUME NEW t \in Thread, Tick(t) PROVE WayInv'
  <2>1. Begin(t, TickPieces, None)
    BY <1>2 DEF Tick
  <2> QED
    BY <2>1, TickIsCall, BeginKeepsWay
<1>3. ASSUME NEW t \in Thread, NEW m \in Outbox[t], SendMessage(t, m) PROVE WayInv'
  <2>1. Begin(t, Pieces(m), m)
    BY <1>3 DEF SendMessage
  <2>2. IsCall(Pieces(m)) /\ m \in Message
    BY OutboxAssumption, PiecesAreCall DEF Message
  <2> QED
    BY <2>1, <2>2, BeginKeepsWay
<1>4. CASE ServerStep
  <2>1. CASE CloseListener
    BY <2>1, WayUndisturbed DEF CloseListener, CloseListenerWhen, LoseReply
  <2>2. CASE Renew \/ Listen
    BY <2>2, WayUndisturbed DEF Renew, Listen, connection
  <2> QED
    BY <1>4, <2>1, <2>2, HandlingKeepsWay DEF ServerStep
<1>5. CASE ThreadStep
  BY <1>5, PutKeepsWay DEF ThreadStep
<1>6. CASE BeginRequest \/ CloseBuffer \/ CloserStep
  BY <1>6, WayUndisturbed DEF BeginRequest, connection, CloseBuffer, CloseBufferTo, CloserStep,
     CloseFlag, CloseFlagTo, CloseWaits, CloseWaitsFor
<1>7. CASE Lose \/ EndReply \/ RaiseError
  BY <1>7, WayUndisturbed DEF Lose, LoseReply, EndReply, RaiseError, RaiseErrorWith
<1>8. CASE Receive \/ ReceiveRest
  BY <1>8, ReceiveKeepsWay, ReceiveRestKeepsWay
<1>9. CASE UNCHANGED vars
  BY <1>9, WayUndisturbed DEF vars, connection
<1> QED
  BY <1>1, <1>2, <1>3, <1>4, <1>5, <1>6, <1>7, <1>8, <1>9 DEF Next, NetworkStep

(* What has been read is what was sent; what was sent and not read is in   *)
(* the response, so that an empty one leaves nothing.                      *)
LEMMA ArrivedAsSent == ArrivalInv => Delivered
<1> SUFFICES ASSUME ArrivalInv PROVE Delivered
  OBVIOUS
<1> DEFINE expected == [k \in DOMAIN whole |-> Decoded(whole[k])]
           R == Len(received)
<1>1. /\ whole \in Seq(Message) /\ received \in Seq({Decoded(m) : m \in Message}) /\ ends \in Seq(Nat)
      /\ Len(whole) = R + Len(ends)
  BY DEF ArrivalInv
<1>2. /\ R \in Nat /\ Len(ends) \in Nat /\ DOMAIN received = 1 .. R /\ DOMAIN whole = 1 .. Len(whole)
      /\ Len(whole) \in Nat /\ R <= Len(whole)
  BY <1>1
<1>3. /\ expected \in Seq({Decoded(m) : m \in Message}) /\ Len(expected) = Len(whole)
      /\ \A k \in 1 .. Len(whole) : expected[k] = Decoded(whole[k])
  <2>1. \A k \in 1 .. Len(whole) : Decoded(whole[k]) \in {Decoded(m) : m \in Message}
    BY <1>1
  <2> QED
    BY <1>2, <2>1
<1>4. \A k \in 1 .. R : received[k] = expected[k]
  <2>1. \A k \in 1 .. R : received[k] = Decoded(whole[k]) /\ k \in 1 .. Len(whole)
    BY <1>2, SMTT(30) DEF ArrivalInv
  <2> HIDE DEF expected
  <2> QED
    BY <1>3, <2>1
<1> HIDE DEF expected
<1>5. IsPrefix(received, expected)
  BY <1>1, <1>2, <1>3, <1>4 DEF IsPrefix
<1>6. ASSUME reply = "running", wire = <<>> PROVE received = expected
  <2>1. ends = <<>>
    <3> SUFFICES ASSUME ends # <<>> PROVE FALSE
      OBVIOUS
    <3> DEFINE m == whole[R + 1]
    <3>1. 1 \in DOMAIN ends /\ R + 1 \in 1 .. Len(whole)
      BY <1>1, <1>2
    <3>2. m \in Message
      BY <1>1, <3>1
    <3>3. InPlace(m, Len(Pieces(m)), ends[1], wire, pending)
      BY <1>6, <3>1 DEF ArrivalInv
    <3> HIDE DEF m
    <3>4. ends[1] \in Nat /\ ends[1] >= 1 /\ ends[1] <= Len(wire)
      BY <3>2, <3>3, EndInPlace
    <3> QED
      BY <1>6, <3>4
  <2>2. R = Len(whole)
    BY <1>1, <1>2, <2>1
  <2> QED
    BY <1>1, <1>3, <1>4, <2>2
<1> QED
  BY <1>5, <1>6 DEF Delivered, expected

-----------------------------------------------------------------------------
(* The theorems.                                                           *)

(* Once sse_server::close() has returned, and for every connection of an     *)
(* earlier opening, canceled() holds.                                        *)
THEOREM ClosingServerCancels == Spec => []ServerCloseCancels
<1>1. IInv => ServerCloseCancels
  BY DEF IInv, TypeOK, ServerInv, ServerCloseCancels
<1> QED
  BY <1>1, Invariant, PTL

(* However the calls of any number of threads are mixed, the response is at  *)
(* the end of a message when none is running.                                *)
THEOREM MixingEnds == Spec => [](TypeOK /\ CleanBoundary)
<1>1. IInv => TypeOK /\ CleanBoundary
  BY DEF IInv
<1> QED
  BY <1>1, Invariant, PTL

(* After close() of a connection has returned, no error is reported: it has  *)
(* waited for the continuation that reports one.                             *)
THEOREM ClosedIsQuiet == Spec => ClosedQuiet
<1>1. ASSUME IInv, [Next]_vars PROVE [closer = "closed" => reports' = reports]_vars
  <2> SUFFICES ASSUME Next, closer = "closed" PROVE reports' = reports
    BY <1>1
  <2>1. reply = "done"
    BY <1>1 DEF IInv, ConnectionInv
  <2> QED
    BY <2>1 DEF Next, ServerStep, ThreadStep, CloserStep, NetworkStep, Close, BeginRequest, Tick,
       SendMessage, Begin, Put, CloseBuffer, CloseBufferTo, Lose, CloseListener, CloseListenerWhen,
       Renew, Listen, HandleRequest, CloseFlag, CloseFlagTo, CloseWaits, CloseWaitsFor, EndReply,
       RaiseError, RaiseErrorWith, Receive, ReceiveThen, ReceiveRest, connection
<1> QED
  BY <1>1, Invariant, PTL DEF Spec, ClosedQuiet

(* A message that is sent while no other call is running, and before the    *)
(* connection is closed, arrives as it was sent and in order, whatever was   *)
(* mixed up in the response before it: it begins at the beginning of a line, *)
(* with nothing pending, and each of its lines is read as it was put.        *)
THEOREM MessagesArrive == Spec => []Delivery
<1>1. Spec => []WayInv
  BY InitOnTheWay, NextKeepsWay, Invariant, PTL DEF Spec
<1>2. IInv /\ WayInv => Delivery
  BY ArrivedAsSent DEF IInv, WayInv, Delivery
<1> QED
  BY <1>1, <1>2, Invariant, PTL
===============================================================================
