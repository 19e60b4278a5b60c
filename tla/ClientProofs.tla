---------------------------- MODULE ClientProofs ----------------------------
(***************************************************************************)
(* Theorems about SseClient, for any number of calls: connections do not   *)
(* mix, nothing happens after close(), and a reported timeout is real.     *)
(* Theorems about HttpClient follow; its state is apart from SseClient's.  *)
(***************************************************************************)
EXTENDS SseClient, HttpClient, TLAPS

LEMMA OwnerKeeps == IInv /\ (OwnerCall \/ OwnerStep) => IInv'
<1> SUFFICES ASSUME IInv, OwnerCall \/ OwnerStep PROVE IInv'
  OBVIOUS
<1> USE CallsAssumption
    DEF IInv, TypeOK, JoinedInv, SourceInv, SilentAfterClose, Over, Source, OwnerStates,
        RequestStates, DeadlineStates, call, OwnerGoto
<1>1. CASE OwnerCall
  <2>1. PICK g \in {"connect", "close", "destroy"} : Call(g)
    BY <1>1 DEF OwnerCall
  <2>2. timeout' \in BOOLEAN /\ closed' \in BOOLEAN /\ overtaken' \in BOOLEAN
    BY <2>1 DEF Call
  <2> QED
    BY <2>1, <2>2 DEF Call
<1>2. CASE Cancel
  BY <1>2 DEF Cancel, CancelSources
<1>3. CASE Notify
  BY <1>3 DEF Notify, Woken
<1>4. CASE JoinRequest
  BY <1>4 DEF JoinRequest, JoinRequestWhen
<1>5. CASE JoinDeadline
  BY <1>5 DEF JoinDeadline, JoinDeadlineWhen
<1>6. CASE JoinThrows
  BY <1>6 DEF JoinThrows
<1>7. CASE Renew
  BY <1>7 DEF Renew, RenewThen, AfterClose
<1>8. CASE Request
  BY <1>8 DEF Request
<1>9. CASE StoreStage
  BY <1>9 DEF StoreStage, Unanswered
<1>10. CASE CreateDeadline
  BY <1>10 DEF CreateDeadline
<1> QED
  BY <1>1, <1>2, <1>3, <1>4, <1>5, <1>6, <1>7, <1>8, <1>9, <1>10 DEF OwnerStep

LEMMA TasksKeep ==
  IInv /\ (RequestStep \/ DeadlineStep \/ SpuriousWakeup \/ Timeout) => IInv'
<1> SUFFICES ASSUME IInv, RequestStep \/ DeadlineStep \/ SpuriousWakeup \/ Timeout PROVE IInv'
  OBVIOUS
<1> USE CallsAssumption
    DEF IInv, TypeOK, JoinedInv, SourceInv, SilentAfterClose, Over, Source, OwnerStates,
        RequestStates, DeadlineStates, call
<1>1. CASE RequestStep
  <2> USE DEF RequestGoto, rest
  <2>1. CASE Answered
    BY <2>1 DEF Answered
  <2>2. CASE Fails
    BY <2>2 DEF Fails
  <2>3. CASE Abandoned
    BY <2>3 DEF Abandoned
  <2>4. CASE Read
    BY <2>4 DEF Read
  <2>5. CASE Line
    BY <2>5 DEF Line
  <2>6. CASE EndOfStream
    BY <2>6 DEF EndOfStream
  <2>7. CASE MessageHandled
    BY <2>7 DEF MessageHandled
  <2>8. CASE MessageThrows
    BY <2>8 DEF MessageThrows
  <2>9. CASE ErrorHandled
    BY <2>9 DEF ErrorHandled
  <2>10. CASE ErrorThrows
    BY <2>10 DEF ErrorThrows
  <2>11. CASE StoreIdle
    BY <2>11 DEF StoreIdle
  <2>12. CASE NotifyDeadline
    BY <2>12 DEF NotifyDeadline, Woken
  <2> QED
    BY <1>1, <2>1, <2>2, <2>3, <2>4, <2>5, <2>6, <2>7, <2>8, <2>9, <2>10, <2>11, <2>12
    DEF RequestStep
<1>2. CASE DeadlineStep \/ SpuriousWakeup \/ Timeout
  <2> USE DEF DeadlineGoto
  <2>1. CASE Test
    BY <2>1 DEF Test
  <2>2. CASE Block
    BY <2>2 DEF Block
  <2>3. CASE GiveUp
    BY <2>3 DEF GiveUp, GiveUpUnless
  <2>4. CASE TimeoutHandled
    BY <2>4 DEF TimeoutHandled
  <2>5. CASE TimeoutThrows
    BY <2>5 DEF TimeoutThrows
  <2>6. CASE CancelSource
    BY <2>6 DEF CancelSource
  <2>7. CASE SpuriousWakeup
    BY <2>7 DEF SpuriousWakeup
  <2>8. CASE Timeout
    BY <2>8 DEF Timeout
  <2> QED
    BY <1>2, <2>1, <2>2, <2>3, <2>4, <2>5, <2>6, <2>7, <2>8 DEF DeadlineStep
<1> QED
  BY <1>1, <1>2

LEMMA Invariant == Spec => []IInv
<1>1. Init => IInv
  <2> SUFFICES ASSUME Init PROVE IInv
    OBVIOUS
  <2>1. timeout \in BOOLEAN /\ closed \in BOOLEAN /\ overtaken \in BOOLEAN
    BY TimeoutsAssumption DEF Init
  <2> QED
    BY <2>1, CallsAssumption
     DEF Init, IInv, TypeOK, JoinedInv, SourceInv, SilentAfterClose, Over, Source,
         OwnerStates, RequestStates, DeadlineStates
<1>2. IInv /\ [Next]_vars => IInv'
  <2>1. IInv /\ UNCHANGED vars => IInv'
    BY DEF IInv, TypeOK, JoinedInv, SourceInv, SilentAfterClose, vars, call
  <2> QED
    BY <2>1, OwnerKeeps, TasksKeep DEF Next
<1> QED
  BY <1>1, <1>2, PTL DEF Spec

(* Every state of the client is well typed. *)
THEOREM TypeCorrect == Spec => []TypeOK
<1>1. IInv => TypeOK
  BY DEF IInv
<1> QED
  BY <1>1, Invariant, PTL

(* The tasks of one connection never run under the token of another, and   *)
(* no request starts canceled: close() joins both tasks before it renews   *)
(* the source.                                                             *)
THEOREM ConnectionsAreSeparate == Spec => []Separate
<1>1. IInv => Separate
  BY DEF IInv, SourceInv, Separate
<1> QED
  BY <1>1, Invariant, PTL

(* No handler is running or will be called once close() has returned.      *)
THEOREM ClosedIsSilent == Spec => []SilentAfterClose
<1>1. IInv => SilentAfterClose
  BY DEF IInv
<1> QED
  BY <1>1, Invariant, PTL

LEMMA StageStep == IInv /\ StageInv /\ [Next]_vars => StageInv'
<1> SUFFICES ASSUME IInv, StageInv, [Next]_vars PROVE StageInv'
  OBVIOUS
<1> USE DEF StageInv, Unanswered, IInv, TypeOK, call
<1>1. CASE OwnerCall \/ Cancel \/ Notify \/ JoinDeadline \/ JoinThrows \/ Renew \/ CreateDeadline
  BY <1>1 DEF OwnerCall, Call, Cancel, CancelSources, Notify, JoinDeadline, JoinDeadlineWhen,
     JoinThrows, Renew, RenewThen, CreateDeadline
<1>2. CASE JoinRequest \/ Request \/ StoreStage
  BY <1>2 DEF JoinRequest, JoinRequestWhen, Request, StoreStage
<1>3. CASE RequestStep
  BY <1>3 DEF RequestStep, RequestGoto, rest, Answered, Fails, Abandoned, Read, Line, EndOfStream,
     MessageHandled, MessageThrows, ErrorHandled, ErrorThrows, StoreIdle, NotifyDeadline
<1>4. CASE DeadlineStep \/ SpuriousWakeup \/ Timeout
  BY <1>4 DEF DeadlineStep, DeadlineGoto, Test, Block, GiveUp, GiveUpUnless, TimeoutHandled,
     TimeoutThrows, CancelSource, SpuriousWakeup, Timeout
<1>5. CASE UNCHANGED vars
  BY <1>5 DEF vars
<1> QED
  BY <1>1, <1>2, <1>3, <1>4, <1>5 DEF Next, OwnerStep

(* A timeout is reported only for a request without an answer, or one      *)
(* whose stage connect() has overwritten.                                  *)
THEOREM TimeoutsAreReal == Spec => TimeoutIsReal
<1>1. Init => StageInv
  BY DEF Init, StageInv
<1>2. StageInv /\ [Next]_vars =>
        [deadline = "timed_out" /\ deadline' = "on_error" => request \in Unanswered \/ overtaken]_vars
  <2> SUFFICES ASSUME StageInv, Next, deadline = "timed_out", deadline' = "on_error"
               PROVE  request \in Unanswered \/ overtaken
    BY DEF vars
  <2>1. CASE GiveUp
    BY <2>1 DEF GiveUp, GiveUpUnless, DeadlineGoto, StopWaiting, StageInv
  <2>2. CASE ~ GiveUp
    BY <2>2 DEF Next, OwnerCall, Call, OwnerStep, Cancel, CancelSources, Notify, Woken,
       JoinRequest, JoinRequestWhen, JoinDeadline, JoinDeadlineWhen, JoinThrows, Renew, RenewThen,
       Request, StoreStage, CreateDeadline, RequestStep, Answered, Fails, Abandoned, Read, Line,
       EndOfStream, MessageHandled, MessageThrows, ErrorHandled, ErrorThrows, StoreIdle,
       NotifyDeadline, DeadlineStep, DeadlineGoto, Test, Block, TimeoutHandled, TimeoutThrows,
       CancelSource, SpuriousWakeup, Timeout
  <2> QED
    BY <2>1, <2>2
<1> QED
  BY <1>1, <1>2, StageStep, Invariant, PTL DEF Spec, TimeoutIsReal

-----------------------------------------------------------------------------
(* The requests of HttpClient, beside those of the SSE client: whose       *)
(* content size a report carries, and what holds of a call that has ended, *)
(* for any number of commits, downloads and pieces of a body.              *)

(* The cell of a call is one of the cells, and only commits share theirs.  *)
LEMMA HttpCells ==
  /\ \A c \in HttpCall : Cell(c) \in Cells
  /\ \A c, d \in HttpCall : Cell(c) = Cell(d) => c = d \/ {c, d} \subseteq Commit
BY CallAssumption, CellAssumption DEF Cell, Cells, HttpCall

LEMMA HttpStarts == HttpInit => HttpIInv
BY CallAssumption, CellAssumption, BytesAssumption
   DEF HttpInit, HttpIInv, HttpTypeOK, ProgressInv, CellInv, SizeReported, EndedWell, WholeBody,
       LateOnlyRefused, Stage, Transfer, Response

(* The steps of the caller and its continuations. *)
LEMMA HttpCallKeeps ==
  ASSUME HttpIInv, NEW c \in HttpCall,
         Send(c) \/ HandleHeaders(c) \/ HandleBody(c)
  PROVE  HttpIInv'
<1> USE CallAssumption, CellAssumption, BytesAssumption
    DEF HttpIInv, ProgressInv, CellInv, SizeReported, EndedWell, WholeBody, LateOnlyRefused,
        HttpTypeOK, Stage, Transfer, Response
<1>1. CASE Send(c)
  BY <1>1 DEF Send
<1>2. CASE HandleHeaders(c)
  BY <1>2, HttpCells DEF HandleHeaders, Accepts, Kept
<1>3. CASE HandleBody(c)
  BY <1>3 DEF HandleBody, Ready
<1> QED
  BY <1>1, <1>2, <1>3

(* The steps of the transfer and of the progress handler. *)
LEMMA HttpTransferKeeps ==
  ASSUME HttpIInv, NEW c \in HttpCall,
         Headers(c) \/ Progress(c) \/ EndOfBody(c) \/ Lose(c) \/ Expire(c)
  PROVE  HttpIInv'
<1> USE CallAssumption, CellAssumption, BytesAssumption
    DEF HttpIInv, ProgressInv, CellInv, SizeReported, EndedWell, WholeBody, LateOnlyRefused,
        HttpTypeOK, Stage, Transfer, Response
<1>1. CASE Headers(c)
  BY <1>1 DEF Headers
<1>2. CASE Progress(c)
  BY <1>2, HttpCells DEF Progress, Ended
<1>3. CASE EndOfBody(c)
  BY <1>3 DEF EndOfBody
<1>4. CASE Lose(c) \/ Expire(c)
  BY <1>4 DEF Lose, Expire, CutOff
<1> QED
  BY <1>1, <1>2, <1>3, <1>4

LEMMA HttpInvariant == HttpSpec => []HttpIInv
<1>1. HttpIInv /\ [HttpNext]_httpVars => HttpIInv'
  <2>1. HttpIInv /\ UNCHANGED httpVars => HttpIInv'
    BY DEF HttpIInv, ProgressInv, CellInv, SizeReported, EndedWell,
       WholeBody, LateOnlyRefused, HttpTypeOK, httpVars
  <2> QED
    BY <2>1, HttpCallKeeps, HttpTransferKeeps DEF HttpNext, Step
<1> QED
  BY <1>1, HttpStarts, PTL DEF HttpSpec

(* A progress report carries the content size of the call's own response,  *)
(* or, of a commit, that of another commit of the client; never one of a   *)
(* response that was refused or has not come.                              *)
THEOREM ReportedSizes == HttpSpec => []SizeReported
<1>1. HttpIInv => SizeReported
  BY DEF HttpIInv
<1> QED
  BY <1>1, HttpInvariant, PTL

(* A call that returned has the whole body of an accepted response, and a  *)
(* progress handler is called after the end of its call only when the      *)
(* response was refused.                                                   *)
THEOREM CallsEndWell == HttpSpec => []EndedWell
<1>1. HttpIInv => EndedWell
  BY DEF HttpIInv
<1> QED
  BY <1>1, HttpInvariant, PTL
===============================================================================
