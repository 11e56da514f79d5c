----------------------------- MODULE HttpRequest -----------------------------
(***************************************************************************)
(* One request on its way through the router: the middleware, the binder   *)
(* of the generated code, a handler, and the answers of errors.go, with a  *)
(* client that may leave, a service that may fail, panic or hang, and the  *)
(* deadlines of the server on either side.                                 *)
(*                                                                         *)
(* A definition named Def_Something is Def with a mistake in it.           *)
(***************************************************************************)
EXTENDS Deadlines, Sequences

CONSTANTS
  WriteTimeout, \* HTTP_WRITE_TIMEOUT, of a configuration that was accepted
  ReadTimeout,  \* HTTP_READ_TIMEOUT
  Lag,          \* bound: what the service takes to notice the end of its context
  Horizon       \* bound: the age at which a request is no longer looked at

ASSUME RequestAssumption ==
  /\ WriteTimeout \in Durations /\ RoomToAnswer(WriteTimeout)
  /\ ReadTimeout \in Nat \ {0} /\ Lag \in Nat /\ Horizon \in Nat

(* What of a request its answer depends on: what the binder makes of its   *)
(* parameters, whether its body decodes, whether its pair parses.          *)
Requests ==
  [route : {"create"}, params : {"fit", "malformed", "repeated"},
   body : BOOLEAN, pair : BOOLEAN]
  \cup [route : {"get"}, params : {"fit", "malformed"}, body : {TRUE}, pair : {TRUE}]
  \cup [route : {"latest"}, params : {"fit", "malformed", "missing"},
        body : {TRUE}, pair : BOOLEAN]

VARIABLES
  req,     \* the request
  at,      \* where it is
  level,   \* the layer of middleware that is next to unwind
  clock,   \* time since its headers were read
  ctx,     \* the context of the handler: live, canceled or out of time
  gone,    \* the client has left
  result,  \* what the service returned
  answer,  \* the answer whose status line is out
  spoilt,  \* history: a second answer was begun
  logged,  \* the answer the access log has recorded
  sent     \* what the server made of it all

context == <<clock, ctx, gone>>
vars == <<req, at, level, context, result, answer, spoilt, logged, sent>>

(* NewRouter, innermost first.                                             *)
Middleware_LogInside == <<"accessLog", "recoverPanic", "requestTimeout", "requestID">>
Middleware == <<"recoverPanic", "requestTimeout", "accessLog", "requestID">>

Refusals == {"invalid_request", "invalid_pair"}
Successes == {"accepted", "ok"}
Answers == Refusals \cup Successes
           \cup {"not_found", "key_conflict", "internal_error", "none"}

Unwinding == {"returned", "panicked", "aborted"}

TypeOK ==
  /\ req \in Requests
  /\ at \in {"binding", "reading", "parsing", "calling", "replying",
             "encoding", "finished"} \cup Unwinding
  /\ level \in 1..Len(Middleware) + 1
  /\ clock \in 0..Horizon
  /\ ctx \in {"live", "canceled", "expired"}
  /\ gone \in BOOLEAN /\ spoilt \in BOOLEAN
  /\ result \in {"none", "ok", "conflict", "not_found", "error"}
  /\ answer \in Answers
  /\ logged \in Answers \cup {"unlogged"}
  /\ sent \in Answers \cup {"unsent", "empty", "nothing"}
  /\ at \notin Unwinding \cup {"finished"} => level = 1
  /\ ctx = "canceled" => gone

Init ==
  /\ req \in Requests
  /\ at = "binding"
  /\ level = 1
  /\ clock = 0 /\ ctx = "live" /\ gone = FALSE
  /\ result = "none" /\ answer = "none" /\ spoilt = FALSE
  /\ logged = "unlogged" /\ sent = "unsent"
-----------------------------------------------------------------------------
(***************************************************************************)
(* Answers.                                                                *)
(***************************************************************************)
WriteError(code) ==
  /\ answer' = IF answer = "none" THEN code ELSE answer
  /\ spoilt' = (spoilt \/ answer # "none")

(* Whoever left is not answered; whoever ran out of time is.               *)
ClientGone_OrLate == ctx # "live"
ClientGone == ctx = "canceled"

WriteInternal ==
  IF ClientGone THEN UNCHANGED <<answer, spoilt>> ELSE WriteError("internal_error")

WriteParamError ==
  \/ /\ req.route = "latest" /\ req.params = "missing"
     /\ WriteError("invalid_pair")
  \/ /\ req.route \in {"create", "get"}
     /\ WriteError("invalid_request")
  \/ /\ req.route = "latest" /\ req.params = "malformed"
     /\ WriteInternal

Refuse(code) ==
  /\ WriteError(code)
  /\ at' = "returned"
-----------------------------------------------------------------------------
(***************************************************************************)
(* The handlers.                                                           *)
(***************************************************************************)
AfterBinding ==
  CASE req.route = "create" -> "reading"
    [] req.route = "latest" -> "parsing"
    [] req.route = "get" -> "calling"

Bind ==
  /\ at = "binding"
  /\ \/ /\ req.params = "fit"
        /\ at' = AfterBinding
        /\ UNCHANGED <<answer, spoilt>>
     \/ /\ req.params # "fit"
        /\ WriteParamError
        /\ at' = "returned"
  /\ UNCHANGED <<req, level, context, result, logged, sent>>

(* The body arrives, or it is cut short: too long, by the read timeout, or *)
(* by the client.                                                          *)
ReadBody ==
  /\ at = "reading"
  /\ \/ /\ req.body
        /\ at' = "parsing"
        /\ UNCHANGED <<answer, spoilt>>
     \/ /\ ~req.body \/ gone \/ clock >= ReadTimeout
        /\ Refuse("invalid_request")
  /\ UNCHANGED <<req, level, context, result, logged, sent>>

Parse ==
  /\ at = "parsing"
  /\ \/ /\ req.pair
        /\ at' = "calling"
        /\ UNCHANGED <<answer, spoilt>>
     \/ /\ ~req.pair
        /\ Refuse("invalid_pair")
  /\ UNCHANGED <<req, level, context, result, logged, sent>>

Results ==
  {"ok", "error"} \cup IF req.route = "create" THEN {"conflict"} ELSE {"not_found"}

ServiceReturns ==
  /\ at = "calling"
  /\ result' \in Results
  /\ at' = "replying"
  /\ UNCHANGED <<req, level, context, answer, spoilt, logged, sent>>

(* A panic of the service, http.ErrAbortHandler among them, or, once the   *)
(* status line is out, of the encoder.                                     *)
Panic ==
  /\ \/ at = "calling" /\ at' \in {"panicked", "aborted"}
     \/ at = "encoding" /\ at' = "panicked"
  /\ UNCHANGED <<req, level, context, result, answer, spoilt, logged, sent>>

Reply ==
  /\ at = "replying"
  /\ \/ result = "conflict" /\ Refuse("key_conflict")
     \/ result = "not_found" /\ Refuse("not_found")
     \/ result = "error" /\ WriteInternal /\ at' = "returned"
     \/ /\ result = "ok"
        /\ answer' = IF req.route = "create" THEN "accepted" ELSE "ok"
        /\ at' = "encoding"
        /\ UNCHANGED spoilt
  /\ UNCHANGED <<req, level, context, result, logged, sent>>

(* The body is written, or it fails and that is logged.                    *)
Encode ==
  /\ at = "encoding"
  /\ at' = "returned"
  /\ UNCHANGED <<req, level, context, result, answer, spoilt, logged, sent>>
-----------------------------------------------------------------------------
(***************************************************************************)
(* The middleware on the way out, and net/http.                            *)
(***************************************************************************)
(* The status is known to recoverPanic if accessLog wraps the writer       *)
(* outside of it.                                                          *)
Answered_Unknown == FALSE
Answered ==
  /\ answer # "none"
  /\ \E outer \in level + 1..Len(Middleware) : Middleware[outer] = "accessLog"

RecoverPanic ==
  IF at = "panicked" THEN
    /\ at' = "returned"
    /\ IF Answered THEN UNCHANGED <<answer, spoilt>> ELSE WriteError("internal_error")
  ELSE UNCHANGED <<at, answer, spoilt>>

Unwind ==
  /\ at \in Unwinding
  /\ level <= Len(Middleware)
  /\ level' = level + 1
  /\ \/ /\ Middleware[level] = "recoverPanic"
        /\ RecoverPanic
        /\ UNCHANGED logged
     \/ /\ Middleware[level] = "accessLog"
        /\ logged' = answer
        /\ UNCHANGED <<at, answer, spoilt>>
     \/ /\ Middleware[level] \in {"requestTimeout", "requestID"}
        /\ UNCHANGED <<at, answer, spoilt, logged>>
  /\ UNCHANGED <<req, context, result, sent>>

(* A handler that returned without a word is answered 200 by net/http; a   *)
(* panic closes the connection; and past the write timeout nothing is      *)
(* written.                                                                *)
Finish ==
  /\ at \in Unwinding
  /\ level > Len(Middleware)
  /\ sent' = IF gone \/ at # "returned" \/ clock >= WriteTimeout THEN "nothing"
             ELSE IF answer = "none" THEN "empty" ELSE answer
  /\ at' = "finished"
  /\ UNCHANGED <<req, level, context, result, answer, spoilt, logged>>
-----------------------------------------------------------------------------
(***************************************************************************)
(* Around them.  net/http notices that a client has left only once it has  *)
(* read the whole request.                                                 *)
(***************************************************************************)
ClientLeaves ==
  /\ ~gone /\ at # "finished"
  /\ gone' = TRUE
  /\ UNCHANGED <<req, at, level, clock, ctx, result, answer, spoilt, logged, sent>>

Cancel ==
  /\ gone /\ ctx = "live"
  /\ at \notin {"reading", "finished"}
  /\ ctx' = "canceled"
  /\ UNCHANGED <<req, at, level, clock, gone, result, answer, spoilt, logged, sent>>

(* requestTimeout.                                                         *)
Due_Never == FALSE
Due == clock >= HandlerTimeout(WriteTimeout)

Expire ==
  /\ Due /\ ctx = "live"
  /\ at # "finished"
  /\ ctx' = "expired"
  /\ UNCHANGED <<req, at, level, clock, gone, result, answer, spoilt, logged, sent>>

(* Time passes over a body that is awaited and a service that is at work,  *)
(* which returns within Lag once its context has ended.                    *)
Tick ==
  /\ \/ at = "reading" /\ clock < ReadTimeout
     \/ at = "calling" /\ ctx = "live"
     \/ at = "calling" /\ clock < HandlerTimeout(WriteTimeout) + Lag
  /\ ctx = "live" => ~Due
  /\ clock < Horizon
  /\ clock' = clock + 1
  /\ UNCHANGED <<req, at, level, ctx, gone, result, answer, spoilt, logged, sent>>

Handle ==
  \/ Bind \/ ReadBody \/ Parse \/ ServiceReturns \/ Panic \/ Reply \/ Encode
  \/ Unwind \/ Finish

Next == Handle \/ ClientLeaves \/ Cancel \/ Expire \/ Tick

Spec == Init /\ [][Next]_vars

(* The handler runs; its deadline fires; a service whose context has ended *)
(* returns; a body that does not come runs into the read timeout.  Nothing *)
(* is said of a service whose context is live.                             *)
Runs ==
  \/ Bind \/ Parse \/ Reply \/ Encode \/ Unwind \/ Finish
  \/ at = "reading" /\ clock >= ReadTimeout /\ ReadBody
  \/ ctx # "live" /\ ServiceReturns

FairSpec == Spec /\ WF_vars(Runs) /\ WF_vars(Expire) /\ WF_vars(Tick)
-----------------------------------------------------------------------------
(***************************************************************************)
(* Properties.                                                             *)
(***************************************************************************)
(* recoverPanic: "a second WriteHeader is refused, and the envelope would  *)
(* land inside a body that is already valid".  Whatever panics when, no    *)
(* second answer is begun.                                                 *)
OneAnswer == ~spoilt

(* accessLog: the panic "becomes a status before the deferred log line     *)
(* reads one".  The log has the answer that goes out, or none if none      *)
(* does; unless the handler has yet to return.                             *)
LogTellsAnswer ==
  /\ logged # "unlogged" => logged = answer
  /\ at = "finished" => logged # "unlogged"

(* requestTimeout and handlerTimeoutMargin: "a handler which runs out of   *)
(* time still has room to write its answer".  A client that stays is       *)
(* answered in the envelope, in time, whatever failed, if the service      *)
(* notices its end within the margin and no body is awaited past it; the   *)
(* one exception is the deliberate abort.                                  *)
InTime == Lag < Margin /\ ReadTimeout <= HandlerTimeout(WriteTimeout)

StayingClientAnswered ==
  at = "finished" /\ ~gone /\ InTime =>
    \/ sent \in Answers \ {"none"}
    \/ sent = "nothing" /\ answer = "none" /\ result = "none"

(* The inductive invariant behind these: what is out follows from what the *)
(* service said, from the panic that was recovered, or from a refusal.     *)
AnswerFollows ==
  /\ answer \in Successes => result = "ok"
  /\ at = "encoding" => answer # "none" /\ result = "ok"
  /\ at \in {"binding", "reading", "parsing", "calling", "replying"} => answer = "none"
  /\ at \in {"binding", "reading", "parsing", "calling"} => result = "none"
  /\ at = "aborted" => answer = "none" /\ result = "none"
  /\ at = "returned" /\ answer = "none" => gone
  /\ at = "panicked" => level = 1
  /\ level <= 3 => logged = "unlogged"
  /\ level > 3 => logged = answer
  /\ at = "finished" => level = 5

Paced ==
  InTime => clock < WriteTimeout

IInv ==
  TypeOK /\ AnswerFollows /\ Paced /\ OneAnswer /\ StayingClientAnswered

(* "Without this a query against a stopped database holds a goroutine and  *)
(* a pooled connection for the length of the outage": a request ends,      *)
(* however long the service would take and whether or not its body comes.  *)
RequestEnds == <>(at = "finished")

(* writeParamError: the spec makes a missing, malformed and unsupported    *)
(* pair one answer, and "every parameter it declares is covered above".    *)
ParamsRefused == at = "returned" /\ req.params # "fit" => answer # "internal_error"
=============================================================================
