-------------------------------- MODULE SseClient --------------------------------
(***************************************************************************)
(* essence::net::sse_client (src/src/net/sse_client.cpp): the thread that  *)
(* calls connect(), close() and the destructor, and the two tasks that a   *)
(* connect() starts.  The request task waits for the response, reads the   *)
(* stream and reports errors; the deadline task gives up on a connection   *)
(* that stays "connecting" for too long.  They share stage_, a condition   *)
(* variable that is notified without its mutex, and the source of the      *)
(* cancellation tokens, named here by the connection it was made for.      *)
(*                                                                         *)
(* The network is the environment: it answers, refuses, delivers lines,    *)
(* falls silent or fails.  Handlers return or throw; they do not call back *)
(* into the client, whose close() would wait for the task it runs on.      *)
(***************************************************************************)
EXTENDS Naturals

CONSTANTS
    MaxCalls,           \* bound: how many calls renew the source of the tokens
    Timeouts            \* whether a deadline is configured: a set of BOOLEANs

ASSUME CallsAssumption == MaxCalls \in Nat
ASSUME TimeoutsAssumption == Timeouts \subseteq BOOLEAN

Source == 0 .. MaxCalls

VARIABLES
    timeout,            \* timeout_ # no_timeout
    stage,              \* stage_
    source,             \* cancellation_token_source_
    canceled,           \* the sources that were canceled
    owner, goal,        \* where the owner is, and in which call
    request, deadline,  \* where the tasks are; "none" before the first, and for
                        \* request_task_ also after a reset
    token,              \* the token of the tasks
    closed,             \* history: the last call was close() and returned
    overtaken           \* history: the stage of the request was overwritten by
                        \* the connect() that started it

call == <<timeout, goal>>
vars == <<call, stage, source, canceled, owner, request, deadline, token, closed, overtaken>>

OwnerStates == {"rest", "cancel", "notify", "join_request", "join_deadline", "renew",
                "request", "store_stage", "create_deadline", "gone", "terminated"}
RequestStates == {"none", "requesting", "head", "reading", "polling", "on_message",
                  "on_error", "store_idle", "notify", "done", "faulted"}
DeadlineStates == {"none", "test", "block", "wait", "timed_out", "on_error", "cancel",
                   "done", "faulted"}

TypeOK ==
    /\ timeout \in BOOLEAN
    /\ stage \in {"idle", "connecting", "connected"}
    /\ source \in Source /\ canceled \subseteq Source /\ token \in Source
    /\ owner \in OwnerStates
    /\ goal \in {"none", "connect", "close", "destroy"}
    /\ owner \in {"request", "store_stage", "create_deadline"} => goal = "connect"
    /\ request \in RequestStates /\ deadline \in DeadlineStates
    /\ closed \in BOOLEAN /\ overtaken \in BOOLEAN

Init ==
    /\ timeout \in Timeouts
    /\ stage = "idle" /\ source = 0 /\ canceled = {} /\ token = 0
    /\ owner = "rest" /\ goal = "none"
    /\ request = "none" /\ deadline = "none"
    /\ closed = FALSE /\ overtaken = FALSE

-----------------------------------------------------------------------------
(* The owner.  All three calls begin with close(). *)

OwnerGoto(from, to) ==
    /\ owner = from
    /\ owner' = to

Call(g) ==
    /\ OwnerGoto("rest", "cancel")
    /\ source < MaxCalls
    /\ goal' = g
    /\ closed' = FALSE
    /\ UNCHANGED <<timeout, stage, source, canceled, request, deadline, token, overtaken>>

CancelSources(set) ==
    /\ OwnerGoto("cancel", "notify")
    /\ canceled' = canceled \cup set
    /\ UNCHANGED <<call, stage, source, request, deadline, token, closed, overtaken>>

(* Fault: close() only waits. *)
CancelForgotten == CancelSources({})

Cancel == CancelSources({source})

Woken == IF deadline = "wait" THEN "test" ELSE deadline

Notify ==
    /\ OwnerGoto("notify", "join_request")
    /\ deadline' = Woken
    /\ UNCHANGED <<call, stage, source, canceled, request, token, closed, overtaken>>

(* wait() and reset(). *)
JoinRequestWhen(ready) ==
    /\ OwnerGoto("join_request", "join_deadline")
    /\ ready
    /\ request' = IF request = "done" THEN "none" ELSE request
    /\ UNCHANGED <<call, stage, source, canceled, deadline, token, closed, overtaken>>

(* Fault: the request is left to end by itself. *)
JoinRequestNever == JoinRequestWhen(request # "faulted")

JoinRequest == JoinRequestWhen(request \in {"none", "done"})

JoinDeadlineWhen(ready) ==
    /\ OwnerGoto("join_deadline", "renew")
    /\ ready
    /\ UNCHANGED <<call, stage, source, canceled, request, deadline, token, closed, overtaken>>

(* Fault: the deadline task is left to end by itself. *)
JoinDeadlineNever == JoinDeadlineWhen(deadline # "faulted")

JoinDeadline == JoinDeadlineWhen(deadline \in {"none", "done"})

(* wait() throws what a handler threw; the destructor may not. *)
JoinThrows ==
    /\ \/ owner = "join_request" /\ request = "faulted"
       \/ owner = "join_deadline" /\ deadline = "faulted"
    /\ owner' = IF goal = "destroy" THEN "terminated" ELSE "rest"
    /\ UNCHANGED <<call, stage, source, canceled, request, deadline, token, closed, overtaken>>

(* A new source; close() is over. *)
RenewThen(new, next) ==
    /\ OwnerGoto("renew", next)
    /\ source' = new
    /\ closed' = (goal # "connect")
    /\ UNCHANGED <<call, stage, canceled, request, deadline, token, overtaken>>

AfterClose == CASE goal = "connect" -> "request" [] goal = "close" -> "rest" [] OTHER -> "gone"

(* Fault: close() goes on as connect() does. *)
RenewAndRequest == RenewThen(source + 1, "request")

Renew == RenewThen(source + 1, AfterClose)

Request ==
    /\ OwnerGoto("request", "store_stage")
    /\ request' = "requesting"
    /\ token' = source
    /\ overtaken' = FALSE
    /\ UNCHANGED <<call, stage, source, canceled, deadline, closed>>

(* Where stage_ is still what connect() stores. *)
Unanswered == {"requesting", "on_error", "store_idle", "faulted"}

(* The request may already have been answered, or be over. *)
StoreStage ==
    /\ OwnerGoto("store_stage", IF timeout THEN "create_deadline" ELSE "rest")
    /\ stage' = "connecting"
    /\ overtaken' = (request \notin Unanswered)
    /\ UNCHANGED <<call, source, canceled, request, deadline, token, closed>>

CreateDeadline ==
    /\ OwnerGoto("create_deadline", "rest")
    /\ deadline' = "test"
    /\ UNCHANGED <<call, stage, source, canceled, request, token, closed, overtaken>>

-----------------------------------------------------------------------------
(* The request task *)

rest == <<call, source, canceled, owner, token, closed, overtaken>>
Canceled == token \in canceled

RequestGoto(from, to) ==
    /\ request \in from
    /\ request' = to
    /\ UNCHANGED rest

Answered ==
    /\ RequestGoto({"requesting"}, "head")
    /\ stage' = "connected"
    /\ UNCHANGED deadline

(* No connection, a status that is an error, or a stream that breaks. *)
Fails ==
    /\ RequestGoto({"requesting", "reading", "polling"}, "on_error")
    /\ UNCHANGED <<stage, deadline>>

(* A canceled request ends without an exception. *)
Abandoned ==
    /\ RequestGoto({"requesting", "head", "polling"}, "store_idle")
    /\ Canceled
    /\ UNCHANGED <<stage, deadline>>

Read ==
    /\ RequestGoto({"head"}, "reading")
    /\ ~Canceled
    /\ UNCHANGED <<stage, deadline>>

(* A field of a message, or the blank line that ends it. *)
Line == \E next \in {"head", "on_message"} :
    /\ RequestGoto({"reading", "polling"}, next)
    /\ request = "polling" => ~Canceled
    /\ UNCHANGED <<stage, deadline>>

EndOfStream ==
    /\ RequestGoto({"reading"}, "polling")
    /\ UNCHANGED <<stage, deadline>>

MessageHandled ==
    /\ RequestGoto({"on_message"}, "head")
    /\ UNCHANGED <<stage, deadline>>

MessageThrows ==
    /\ RequestGoto({"on_message"}, "on_error")
    /\ UNCHANGED <<stage, deadline>>

ErrorHandled ==
    /\ RequestGoto({"on_error"}, "store_idle")
    /\ UNCHANGED <<stage, deadline>>

ErrorThrows ==
    /\ RequestGoto({"on_error"}, "faulted")
    /\ UNCHANGED <<stage, deadline>>

StoreIdle ==
    /\ RequestGoto({"store_idle"}, "notify")
    /\ stage' = "idle"
    /\ UNCHANGED deadline

NotifyDeadline ==
    /\ RequestGoto({"notify"}, "done")
    /\ deadline' = Woken
    /\ UNCHANGED stage

-----------------------------------------------------------------------------
(* The deadline task *)

DeadlineGoto(from, to) ==
    /\ deadline = from
    /\ deadline' = to
    /\ UNCHANGED <<call, stage, source, owner, request, token, closed, overtaken>>

StopWaiting == stage # "connecting" \/ Canceled

Test ==
    /\ DeadlineGoto("test", IF StopWaiting THEN "done" ELSE "block")
    /\ UNCHANGED canceled

Block == DeadlineGoto("block", "wait") /\ UNCHANGED canceled

SpuriousWakeup == DeadlineGoto("wait", "test") /\ UNCHANGED canceled

Timeout == DeadlineGoto("wait", "timed_out") /\ UNCHANGED canceled

GiveUpUnless(stop) ==
    /\ DeadlineGoto("timed_out", IF stop THEN "done" ELSE "on_error")
    /\ UNCHANGED canceled

(* Faults: the time has expired, whatever the stage; the deadline is over. *)
GiveUpAlways == GiveUpUnless(FALSE)
GiveUpNever == GiveUpUnless(TRUE)

GiveUp == GiveUpUnless(StopWaiting)

TimeoutHandled == DeadlineGoto("on_error", "cancel") /\ UNCHANGED canceled

TimeoutThrows == DeadlineGoto("on_error", "faulted") /\ UNCHANGED canceled

CancelSource ==
    /\ DeadlineGoto("cancel", "done")
    /\ canceled' = canceled \cup {source}

-----------------------------------------------------------------------------
OwnerCall == \E g \in {"connect", "close", "destroy"} : Call(g)

OwnerStep ==
    Cancel \/ Notify \/ JoinRequest \/ JoinDeadline \/ JoinThrows \/ Renew
        \/ Request \/ StoreStage \/ CreateDeadline

RequestStep ==
    \/ Answered \/ Fails \/ Abandoned \/ Read \/ Line \/ EndOfStream
    \/ MessageHandled \/ MessageThrows \/ ErrorHandled \/ ErrorThrows \/ StoreIdle \/ NotifyDeadline

DeadlineStep == Test \/ Block \/ GiveUp \/ TimeoutHandled \/ TimeoutThrows \/ CancelSource

Next == OwnerCall \/ OwnerStep \/ RequestStep \/ DeadlineStep \/ SpuriousWakeup \/ Timeout

Spec == Init /\ [][Next]_vars

(* Tasks are scheduled, handlers come to an end, time passes; the network  *)
(* owes nothing until the request is canceled.  Wakeups without a           *)
(* notification come to an end.                                            *)
Fairness ==
    /\ <>[][~ SpuriousWakeup]_vars
    /\ WF_vars(OwnerStep) /\ WF_vars(DeadlineStep) /\ WF_vars(Timeout)
    /\ WF_vars(RequestStep /\ (request \in {"requesting", "reading", "polling"} => Canceled))

FairSpec == Spec /\ Fairness
-----------------------------------------------------------------------------
(* Properties *)

Over == {"none", "done", "faulted"}

(* Connections do not mix: a task that runs has the token of the source    *)
(* that the next close() will cancel, the deadline task therefore cancels  *)
(* its own connection only, and no request starts with a canceled token.   *)
Separate ==
    /\ request \notin Over \/ deadline \notin Over => token = source
    /\ owner = "request" => source \notin canceled

(* Once close() has returned, no handler is running and none will be       *)
(* called until the next connect().                                        *)
SilentAfterClose == closed => request \in Over /\ deadline \in Over

(* The deadline gives up only on a connection that has not been answered,  *)
(* except one whose stage was overwritten by the "connecting" that         *)
(* connect() stores after it has started the request.                      *)
TimeoutIsReal ==
    [][deadline = "timed_out" /\ deadline' = "on_error" => request \in Unanswered \/ overtaken]_vars

(* close(), and the one in connect() and in the destructor, comes back,    *)
(* although its notification may fall between the deadline's test and its  *)
(* block.                                                                  *)
CloseReturns == owner = "cancel" ~> owner \in {"rest", "request", "gone", "terminated"}

(* A connection that is never answered is reported.                        *)
UnansweredReported ==
    timeout /\ owner = "rest" /\ request = "requesting" /\ deadline = "test"
        ~> deadline = "on_error" \/ request # "requesting" \/ owner # "rest"
-----------------------------------------------------------------------------
(* The inductive invariants behind them. *)

(* close() lets go of the source only when both tasks are over.            *)
JoinedInv ==
    /\ owner \in {"join_deadline", "renew", "request"} => request = "none"
    /\ owner \in {"renew", "request", "store_stage", "create_deadline"} =>
          deadline \in {"none", "done"}
    /\ closed => owner \in {"rest", "gone"}
    /\ owner = "request" => goal = "connect"

SourceInv ==
    /\ request \notin Over \/ deadline \notin Over => token = source
    /\ \A s \in canceled : s <= source
    /\ owner = "request" => source \notin canceled
    /\ owner \in {"store_stage", "create_deadline"} => token = source
    /\ owner \in {"cancel", "notify", "join_request", "join_deadline", "renew"} =>
          source < MaxCalls

(* A stage that stays "connecting" belongs to a request in that stage.     *)
StageInv == stage = "connecting" => request \in Unanswered \/ overtaken

IInv == TypeOK /\ JoinedInv /\ SourceInv /\ SilentAfterClose
===============================================================================
