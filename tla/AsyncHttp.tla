------------------------------ MODULE AsyncHttp ------------------------------
(***************************************************************************)
(* One HTTP task (async/async_http.cpp) from its creation to the moment    *)
(* the frame loop takes its result and releases its arena                  *)
(* (async/async_task.cpp, AsyncTaskResult).                                *)
(*                                                                         *)
(* The task is a chain of requests: the user function of stage s handles   *)
(* the answer to request s and may go on to stage s + 1.  The pool gives   *)
(* it to one worker at a time (ThreadPool!RunsAlone), so there is one      *)
(* worker here; the other actors are the frame loop that polls the task,   *)
(* the server and curl, and the clock.  The arena is what the task, its    *)
(* work item and its http extension live in.                               *)
(***************************************************************************)
EXTENDS Naturals

CONSTANTS Stages,      \* requests the user functions chain at most
          MaxHttp,     \* max_http_retries
          MaxTask,     \* max_task_retries
          RetryDelay,  \* the 10 s before a retry, in ticks
          Timeout      \* timeout_us, in ticks

ASSUME AsyncHttpAssumption ==
  /\ Stages \in Nat \ {0}
  /\ MaxHttp \in Nat /\ MaxTask \in Nat
  /\ RetryDelay \in Nat /\ Timeout \in Nat

VARIABLES
  cur_http_retry_count,
  cur_task_retry_count,
  next_func,        \* stage of the user function to call
  next_http_info,   \* stage of the request to send
  configured,       \* stage of the request in the curl session
  curl_ctx,         \* "open" or "cleaned"
  chunk_list,       \* whose bytes it holds: "this" attempt's, an "earlier" one's
  error,            \* task_status->error
  done,             \* task_status->done
  arena,            \* "live" or "released"
  worker,           \* what a worker is doing with the task
  continuation,     \* the function the task goes on with, or "none"
  us_delay,         \* ticks before it may be taken again
  elapsed,          \* ticks since task_start_us, counted up to Timeout + 1
  answer,           \* how the last run of a function ended
  result            \* what the frame loop was told: "none", "success", "error"

retries == <<cur_http_retry_count, cur_task_retry_count>>
request == <<next_func, next_http_info, configured, chunk_list>>
status  == <<curl_ctx, error, done, arena, result>>
vars    == <<retries, request, status, worker, continuation, us_delay, elapsed, answer>>

-----------------------------------------------------------------------------
\* async_http_task_run, with a request that can be configured: the first request
\* is in the session and the task in the pool.
Init ==
  /\ cur_http_retry_count = 0 /\ cur_task_retry_count = 0
  /\ next_func = 1 /\ next_http_info = 1 /\ configured = 1
  /\ curl_ctx = "open" /\ chunk_list = {}
  /\ error = FALSE /\ done = FALSE /\ arena = "live" /\ result = "none"
  /\ worker = "queued" /\ continuation = "_http_main" /\ us_delay = 0
  /\ elapsed = 0 /\ answer = "none"

\* A worker takes the task and calls its function: _worker_task_func.
Take ==
  /\ worker = "queued" /\ us_delay = 0
  /\ worker' = continuation
  /\ UNCHANGED <<retries, request, status, continuation, us_delay, elapsed, answer>>

\* The function returns {}.
ReturnNothing ==
  /\ continuation' = "none" /\ us_delay' = 0
  /\ worker' = "cleanup"

\* The function returns a continuation.
ReturnNext(func, delay) ==
  /\ continuation' = func /\ us_delay' = delay
  /\ worker' = "queued"

Fail ==
  /\ error' = TRUE
  /\ ReturnNothing
  /\ UNCHANGED <<curl_ctx, done, arena, result>>

-----------------------------------------------------------------------------
(* _http_main                                                              *)

\* Mutant: the task is not given a deadline.
MutantTimedOut == FALSE

TimedOut == elapsed > Timeout

TimesOut ==
  /\ worker = "_http_main" /\ TimedOut
  /\ Fail
  /\ answer' = "timeout"
  /\ UNCHANGED <<retries, request, elapsed>>

\* curl_multi_perform: the transfer is not over; _libcurl_callback may have
\* received a part of the answer.
StillRunning ==
  /\ worker = "_http_main" /\ ~TimedOut
  /\ chunk_list' \in {chunk_list, chunk_list \cup {"this"}}
  /\ ReturnNext("_http_main", 0)
  /\ UNCHANGED <<retries, next_func, next_http_info, configured, status, elapsed, answer>>

\* curl_multi_perform fails.  Only http_ctx->error records it.
MultiError ==
  /\ worker = "_http_main" /\ ~TimedOut
  /\ ReturnNothing
  /\ answer' = "multi_error"
  /\ UNCHANGED <<retries, request, status, elapsed>>

\* The transfer is over but curl has no message about it.
NoMessage ==
  /\ worker = "_http_main" /\ ~TimedOut
  /\ Fail
  /\ answer' = "no_message"
  /\ UNCHANGED <<retries, request, elapsed>>

\* The attempt that ends makes what was received of its answer an earlier one's.
Aged(chunks) == {"earlier" : bytes \in chunks}

\* Mutant: the session is reset, the list of chunks is not.
MutantReset(chunks) == chunks

\* _curl_reset: what is left of the chunks received so far.
Reset(chunks) == {}

\* _curl_reset, then _async_http_configure with the request of stage s, for the function
\* of stage f: the task goes on, or fails with what curl refused.
Send(s, f, delay) ==
  /\ chunk_list' = Reset(Aged(chunk_list))
  /\ \/ /\ configured' = s /\ next_http_info' = s /\ next_func' = f
        /\ ReturnNext("_http_main", delay)
        /\ UNCHANGED status
     \/ Fail /\ UNCHANGED <<next_func, next_http_info, configured>>

\* Mutant: one retry too many.
MutantHttpBudget == cur_http_retry_count <= MaxHttp

HttpBudget == cur_http_retry_count < MaxHttp
TaskBudget == cur_task_retry_count < MaxTask

RetryRequest ==
  /\ HttpBudget
  /\ cur_http_retry_count' = cur_http_retry_count + 1
  /\ Send(next_http_info, next_func, RetryDelay)
  /\ UNCHANGED cur_task_retry_count

\* Mutant: the first request is sent again, the function is not set back.
MutantRestartTask ==
  /\ ~HttpBudget /\ TaskBudget
  /\ cur_task_retry_count' = cur_task_retry_count + 1
  /\ cur_http_retry_count' = 0
  /\ Send(1, next_func, RetryDelay)

\* The chain starts over with the first request.
RestartTask ==
  /\ ~HttpBudget /\ TaskBudget
  /\ cur_task_retry_count' = cur_task_retry_count + 1
  /\ cur_http_retry_count' = 0
  /\ Send(1, 1, RetryDelay)

\* The transfer failed or the answer is an HTTP error.  With both budgets used up
\* retry is still set, and the request goes out again without delay.
TransferFails ==
  /\ worker = "_http_main" /\ ~TimedOut
  /\ \/ RetryRequest
     \/ RestartTask
     \/ /\ ~HttpBudget /\ ~TaskBudget
        /\ Send(next_http_info, next_func, 0)
        /\ UNCHANGED retries
  /\ answer' = "transfer_failed"
  /\ UNCHANGED elapsed

\* The user function calls the answer a failure.
UserFails ==
  /\ worker = "_http_main" /\ ~TimedOut
  /\ \/ RetryRequest
     \/ RestartTask
     \/ /\ ~HttpBudget /\ ~TaskBudget
        /\ Fail
        /\ UNCHANGED <<retries, request>>
  /\ answer' = "user_failed"
  /\ UNCHANGED elapsed

\* The user function asks for the same request again, after a delay of its own.
UserReschedules ==
  /\ worker = "_http_main" /\ ~TimedOut
  /\ cur_http_retry_count' = 0
  /\ \E d \in {0, 1} : Send(next_http_info, next_func, d)
  /\ answer' = "rescheduled"
  /\ UNCHANGED <<cur_task_retry_count, elapsed>>

\* The user function goes on with the next request.
UserContinues ==
  /\ worker = "_http_main" /\ ~TimedOut
  /\ next_func < Stages
  /\ cur_http_retry_count' = 0
  /\ Send(next_func + 1, next_func + 1, 0)
  /\ answer' = "continued"
  /\ UNCHANGED <<cur_task_retry_count, elapsed>>

\* The user function ends the chain, or ends it with a function that is no longer
\* about HTTP (osm.cpp: parse_osm_data).
UserSucceeds ==
  /\ worker = "_http_main" /\ ~TimedOut
  /\ cur_http_retry_count' = 0
  /\ ReturnNothing \/ ReturnNext("next_task", 0)
  /\ answer' = "succeeded"
  /\ UNCHANGED <<cur_task_retry_count, request, status, elapsed>>

\* parse_osm_data: it may set the error, and nothing follows.
NextTask ==
  /\ worker = "next_task"
  /\ ReturnNothing
  /\ error' \in BOOLEAN
  /\ UNCHANGED <<retries, request, curl_ctx, done, arena, result, elapsed, answer>>

-----------------------------------------------------------------------------
(* The end of _worker_task_func, and the frame loop.                       *)

\* Mutant: done is published before the curl handles are gone.
MutantCleanUp ==
  /\ worker = "cleanup"
  /\ done' = TRUE
  /\ worker' = "publish"
  /\ UNCHANGED <<retries, request, curl_ctx, error, arena, result,
                 continuation, us_delay, elapsed, answer>>

CleanUp ==
  /\ worker = "cleanup"
  /\ curl_ctx' = "cleaned"
  /\ worker' = "publish"
  /\ UNCHANGED <<retries, request, error, done, arena, result,
                 continuation, us_delay, elapsed, answer>>

Publish ==
  /\ worker = "publish"
  /\ done' = TRUE
  /\ worker' = "idle"
  /\ UNCHANGED <<retries, request, curl_ctx, error, arena, result,
                 continuation, us_delay, elapsed, answer>>

\* AsyncTaskResult: the frame loop takes the result, and its destructor releases
\* the arena.
TakeResult ==
  /\ done /\ arena = "live"
  /\ done' = FALSE
  /\ result' = IF error THEN "error" ELSE "success"
  /\ arena' = "released"
  /\ UNCHANGED <<retries, request, curl_ctx, error, worker,
                 continuation, us_delay, elapsed, answer>>

Tick ==
  /\ elapsed' = IF elapsed > Timeout THEN elapsed ELSE elapsed + 1
  /\ us_delay' = IF us_delay = 0 THEN 0 ELSE us_delay - 1
  /\ UNCHANGED <<retries, request, status, worker, continuation, answer>>

HttpMain ==
  \/ TimesOut \/ StillRunning \/ MultiError \/ NoMessage
  \/ TransferFails \/ UserFails \/ UserReschedules \/ UserContinues \/ UserSucceeds

WorkerStep == Take \/ HttpMain \/ NextTask \/ CleanUp \/ Publish

Next == WorkerStep \/ TakeResult \/ Tick

Spec == Init /\ [][Next]_vars

\* Workers serve the pool, frames go on polling and time passes.
FairSpec == Spec /\ WF_vars(WorkerStep) /\ WF_vars(TakeResult) /\ WF_vars(Tick)

-----------------------------------------------------------------------------
\* The variables have their types; the retry counters stay within what the task was
\* configured with (async_http.cpp:382-401).
TypeOK ==
  /\ cur_http_retry_count \in 0 .. MaxHttp
  /\ cur_task_retry_count \in 0 .. MaxTask
  /\ next_func \in 1 .. Stages
  /\ next_http_info \in 1 .. Stages
  /\ configured \in 1 .. Stages
  /\ curl_ctx \in {"open", "cleaned"}
  /\ chunk_list \subseteq {"this", "earlier"}
  /\ error \in BOOLEAN /\ done \in BOOLEAN
  /\ arena \in {"live", "released"}
  /\ result \in {"none", "success", "error"}
  /\ worker \in {"queued", "_http_main", "next_task", "cleanup", "publish", "idle"}
  /\ continuation \in {"_http_main", "next_task", "none"}
  /\ us_delay \in Nat
  /\ elapsed \in 0 .. Timeout + 1
  /\ answer \in {"none", "timeout", "multi_error", "no_message", "transfer_failed",
                 "user_failed", "rescheduled", "continued", "succeeded"}

\* async_task.cpp:19-29: while the task is in the pool or in a worker's hands its arena
\* is not released, and when it is, curl's handles are already gone.
ArenaAliveWhileUsed ==
  /\ worker # "idle" => arena = "live"
  /\ arena = "released" => curl_ctx = "cleaned"

\* The answer a user function gets is the answer to the request it was written for.
RequestsPaired ==
  continuation = "_http_main" => next_func = configured /\ next_http_info = configured

\* The chunks it is handed are all of the attempt that is in the session: an attempt that
\* failed half way, an answer that asked to be polled again, or the answer of the stage
\* before leaves none (async_http.cpp:162, 413, 454).
AnswersFromOneAttempt == continuation = "_http_main" => "earlier" \notin chunk_list

\* async_http.cpp:404-424, 443-458: whatever retries and restarts there were, a user
\* function gets the answer to its own request, and no byte that an earlier attempt
\* received with it.
AnswersMatchRequests == RequestsPaired /\ AnswersFromOneAttempt

\* async_http.cpp:304-310: every task ends, with a server that never answers, errors
\* for ever or is polled for ever: its result is taken.
TaskEnds == <>(result # "none")

\* async_http.cpp:376 "retry if call not succesful and max retries have not been
\* reached": a transfer that fails with both budgets used up is not tried again.
NoRetryWithoutBudget ==
  [][TransferFails /\ ~HttpBudget /\ ~TaskBudget => worker' = "cleanup"]_vars
=============================================================================
