------------------------------ MODULE HttpClient ------------------------------
(***************************************************************************)
(* HTTP requests, src/net/http_client.cpp: the commits of one http_client, *)
(* a const object that many threads may use, and download_file(), which    *)
(* has a client of its own.  A call sends its request, two continuations   *)
(* run on the library's threads, and the caller waits for the last one;    *)
(* the progress handler runs on yet another thread, as the body arrives.   *)
(*                                                                         *)
(* The length of a response is kept where the progress handler finds it:   *)
(* one place for all the commits of a client, a local variable of          *)
(* download_file().  The value is abstracted to the call whose response    *)
(* declared it.  The transfer, external, is a body of MaxBytes pieces that *)
(* arrives in order, unless the connection is lost or the server falls     *)
(* silent.  A silent server is given up at the timeout of the client's     *)
(* configuration, if it has one: under http_client_config::no_timeout,     *)
(* 2^32 - 1 seconds, it is not.                                            *)
(***************************************************************************)
EXTENDS Naturals

CONSTANTS
    Commit,     \* calls of commit_json_nop, commit_json and commit_bytes
    Download,   \* calls of download_file
    None,       \* an empty std::optional
    MaxBytes,   \* the pieces of a body
    Timed       \* the calls whose configuration has a timeout

ASSUME CallAssumption  == Commit \cap Download = {} /\ None \notin Commit \cup Download
ASSUME CellAssumption  == "client" \notin Download    \* the cell of the commits
ASSUME BytesAssumption == MaxBytes \in Nat \ {0}

HttpCall == Commit \cup Download

\* The commits have the configuration of their client, a download one of its own.
ASSUME TimedAssumption ==
    Timed \subseteq HttpCall /\ (Commit \subseteq Timed \/ Commit \cap Timed = {})

VARIABLES
    pc,         \* where a call is: see Stage
    net,        \* its transfer
    response,   \* its response: of an unsuccessful status, or without or with a length
    got,        \* pieces of its body that arrived
    size,       \* download_content_size_, download_content_size
    report,     \* the content size the last progress report of the call had
    late        \* a report came after the call had ended

httpVars == <<pc, net, response, got, size, report, late>>

Stage    == {"idle", "sent", "stored", "returned", "failed"}
\* "cut": the body ended before it was whole; "lost": there was no response.
Transfer == {"none", "waiting", "body", "done", "cut", "lost"}
Response == {"refused", "plain", "sized"}

\* Where the length of a call's response is kept.
\* Fault: one variable for all, downloads included.
CellShared(c) == "client"
Cell(c) == IF c \in Commit THEN "client" ELSE c
Cells == {"client"} \cup Download

Ended(c) == pc[c] \in {"returned", "failed"}

HttpInit ==
    /\ pc = [c \in HttpCall |-> "idle"]
    /\ net = [c \in HttpCall |-> "none"]
    /\ response = [c \in HttpCall |-> "plain"]
    /\ got = [c \in HttpCall |-> 0]
    /\ size = [k \in Cells |-> None]
    /\ report = [c \in HttpCall |-> None]
    /\ late = [c \in HttpCall |-> FALSE]

-----------------------------------------------------------------------------
(* The call.                                                               *)

\* The header handler may throw, and then nothing is sent.
Send(c) ==
    /\ pc[c] = "idle"
    /\ \/ /\ pc' = [pc EXCEPT ![c] = "sent"]
          /\ net' = [net EXCEPT ![c] = "waiting"]
       \/ pc' = [pc EXCEPT ![c] = "failed"] /\ UNCHANGED net
    /\ UNCHANGED <<response, got, size, report, late>>

\* ensure_status_code().
\* Fault: every response is taken.
AcceptsAll(c) == TRUE
Accepts(c) == response[c] # "refused"

\* The length kept after the response of c: an absent one changes nothing.
\* Fault: an absent length is kept as zero.
KeptAlways(c) == IF response[c] = "sized" THEN c ELSE 0
Kept(c) == IF response[c] = "sized" THEN c ELSE size[Cell(c)]

\* The first continuation of extract_body, once the headers are there.
HandleHeaders(c) ==
    /\ pc[c] = "sent"
    /\ net[c] \notin {"none", "waiting"}
    /\ IF net[c] # "lost" /\ Accepts(c)
       THEN /\ pc' = [pc EXCEPT ![c] = "stored"]
            /\ size' = [size EXCEPT ![Cell(c)] = Kept(c)]
       ELSE pc' = [pc EXCEPT ![c] = "failed"] /\ UNCHANGED size
    /\ UNCHANGED <<net, response, got, report, late>>

\* content_ready().
\* Fault: the body is not waited for; a transfer cut off is waited for.
ReadyAtOnce(c) == TRUE
ReadyWhenDone(c) == net[c] = "done"
Ready(c) == net[c] \in {"done", "cut"}

\* The second continuation reads what is there; a commit then parses it.  A body
\* cut off is an exception, and so is a commit's body that is not JSON.
HandleBody(c) ==
    /\ pc[c] = "stored"
    /\ Ready(c)
    /\ \/ net[c] # "cut" /\ pc' = [pc EXCEPT ![c] = "returned"]
       \/ (net[c] = "cut" \/ c \in Commit) /\ pc' = [pc EXCEPT ![c] = "failed"]
    /\ UNCHANGED <<net, response, got, size, report, late>>

-----------------------------------------------------------------------------
(* The transfer (external) and the progress handler.                       *)

Headers(c) ==
    /\ net[c] = "waiting"
    /\ net' = [net EXCEPT ![c] = "body"]
    /\ \E r \in Response : response' = [response EXCEPT ![c] = r]
    /\ UNCHANGED <<pc, got, size, report, late>>

\* The handler set by set_progress_handlers() for one more piece of the body: it
\* reads the content size where the call left it.
Progress(c) ==
    /\ net[c] = "body"
    /\ got[c] < MaxBytes
    /\ got' = [got EXCEPT ![c] = @ + 1]
    /\ report' = [report EXCEPT ![c] = size[Cell(c)]]
    /\ late' = [late EXCEPT ![c] = @ \/ Ended(c)]
    /\ UNCHANGED <<pc, net, response, size>>

EndOfBody(c) ==
    /\ net[c] = "body"
    /\ got[c] = MaxBytes
    /\ net' = [net EXCEPT ![c] = "done"]
    /\ UNCHANGED <<pc, response, got, size, report, late>>

\* The transfer ends before the body is whole.
CutOff(c) ==
    /\ net[c] \in {"waiting", "body"}
    /\ net' = [net EXCEPT ![c] = IF @ = "body" THEN "cut" ELSE "lost"]
    /\ UNCHANGED <<pc, response, got, size, report, late>>

\* The connection is lost.
Lose(c) == CutOff(c)

\* The timeout of the client's configuration expires.
Expire(c) == c \in Timed /\ CutOff(c)

Step(c) ==
    \/ Send(c) \/ HandleHeaders(c) \/ HandleBody(c)
    \/ Headers(c) \/ Progress(c) \/ EndOfBody(c) \/ Lose(c) \/ Expire(c)

HttpNext == \E c \in HttpCall : Step(c)

\* The library runs the continuations and a timeout that was set expires; the
\* server need not answer.
HttpFairness == \A c \in HttpCall :
    /\ WF_httpVars(HandleHeaders(c) \/ HandleBody(c))
    /\ WF_httpVars(Expire(c))

HttpSpec == HttpInit /\ [][HttpNext]_httpVars /\ HttpFairness

-----------------------------------------------------------------------------
(* Properties.                                                             *)

\* Type invariant.
HttpTypeOK ==
    /\ pc \in [HttpCall -> Stage]
    /\ net \in [HttpCall -> Transfer]
    /\ response \in [HttpCall -> Response]
    /\ got \in [HttpCall -> 0..MaxBytes]
    /\ size \in [Cells -> HttpCall \cup {None}]
    /\ report \in [HttpCall -> HttpCall \cup {None}]
    /\ late \in [HttpCall -> BOOLEAN]

\* The content size a progress report carries: of a download, its own response's
\* or none; of a commit, that of some commit of the same client whose response
\* was accepted and declared a length, which may be an earlier one's or that of
\* one under way on another thread.
SizeReported ==
    \A c \in HttpCall :
        LET from == report[c]
        IN from # None => /\ from = c \/ {c, from} \subseteq Commit
                          /\ response[from] = "sized"
                          /\ pc[from] \notin {"idle", "sent"}

\* A call returns only a whole body, of a response with a successful status.
WholeBody == \A c \in HttpCall :
    pc[c] = "returned" => response[c] # "refused" /\ net[c] = "done" /\ got[c] = MaxBytes

\* The progress handler, which refers to local variables of download_file(), is
\* called after the call's end only for a response of an unsuccessful status,
\* whose body nobody waits for.
LateOnlyRefused == \A c \in HttpCall :
    late[c] => pc[c] = "failed" /\ response[c] = "refused"

\* The response of c is refused, or its transfer is over.
Decided(c) == net[c] \in {"done", "cut", "lost"} \/ (net[c] = "body" /\ ~Accepts(c))

\* The caller of a request that was sent is not left waiting when the transfer is
\* over, however it ended, or the response refused; and under a timeout neither
\* when the server is silent.  (Without one, commit_bytes_impl() and
\* download_file() wait for as long as the server does not answer.)
CallEnds == \A c \in HttpCall :
    /\ Decided(c) ~> Ended(c)
    /\ (pc[c] = "sent" /\ c \in Timed) ~> Ended(c)

\* What a call has returned is whole, and its progress handler, whose locals are
\* gone then, is called no more unless the response was refused.
EndedWell == HttpTypeOK /\ WholeBody /\ LateOnlyRefused

-----------------------------------------------------------------------------
(* The inductive invariant behind SizeReported and EndedWell.              *)

\* How far a call may be, given its transfer.
ProgressInv == \A c \in HttpCall :
    /\ pc[c] = "idle" => net[c] = "none"
    /\ pc[c] = "sent" => net[c] # "none"
    /\ pc[c] \in {"stored", "returned"} =>
          response[c] # "refused" /\ net[c] \in {"body", "done", "cut"}
    /\ pc[c] = "returned" => net[c] = "done"
    /\ pc[c] = "failed" => net[c] # "waiting"
    /\ pc[c] = "failed" /\ net[c] = "body" => response[c] = "refused"
    /\ net[c] = "done" => got[c] = MaxBytes

\* What a cell holds was declared by a call whose cell it is.
CellInv == \A k \in Cells : size[k] # None =>
    /\ Cell(size[k]) = k
    /\ response[size[k]] = "sized"
    /\ pc[size[k]] \notin {"idle", "sent"}

HttpIInv == HttpTypeOK /\ ProgressInv /\ CellInv /\ SizeReported /\ EndedWell
=============================================================================
