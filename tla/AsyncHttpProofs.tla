--------------------------- MODULE AsyncHttpProofs ---------------------------
(***************************************************************************)
(* For every number of requests, every retry budget and every timeout: the *)
(* arena of an HTTP task is not released while a worker can still touch    *)
(* it, and a user function gets the answer it was written for.             *)
(***************************************************************************)
EXTENDS AsyncHttp, TLAPS

\* What a worker still does with the task: done is published last, after curl's
\* handles are gone, and only then can the frame loop release the arena.
DoneIsLast ==
  /\ done => worker = "idle"
  /\ arena = "released" => worker = "idle"
  /\ worker \in {"publish", "idle"} => curl_ctx = "cleaned"

Functions == continuation \in {"_http_main", "next_task", "none"}

ReleaseInv == Functions /\ DoneIsLast /\ ArenaAliveWhileUsed

\* _http_main runs only as the continuation, so it finds request and function as
\* Send left them.
PairingInv ==
  /\ worker = "_http_main" => continuation = "_http_main"
  /\ AnswersMatchRequests

-----------------------------------------------------------------------------
\* A step of _http_main sets neither done nor arena, and ends with the task in the
\* queue or on its way to the cleanup (async_http.cpp:293-480).
LEMMA HttpMainKeepsStatus ==
  HttpMain => /\ worker = "_http_main"
              /\ worker' \in {"queued", "cleanup"}
              /\ continuation' \in {"_http_main", "next_task", "none"}
              /\ UNCHANGED <<done, arena, curl_ctx>>
BY Zenon DEF HttpMain, TimesOut, StillRunning, MultiError, NoMessage, TransferFails,
   UserFails, UserReschedules, UserContinues, UserSucceeds, RetryRequest, RestartTask,
   Send, Fail, ReturnNothing, ReturnNext, status

\* For every value of the constants, the arena outlives every use of it
\* (async_task.cpp:19-31).
THEOREM ArenaSafe == Spec => []ArenaAliveWhileUsed
<1>1. Init => ReleaseInv
  BY DEF Init, ReleaseInv, Functions, DoneIsLast, ArenaAliveWhileUsed
<1>2. ReleaseInv /\ [Next]_vars => ReleaseInv'
  <2> SUFFICES ASSUME ReleaseInv, [Next]_vars PROVE ReleaseInv'
    OBVIOUS
  <2> USE DEF ReleaseInv, Functions, DoneIsLast, ArenaAliveWhileUsed
  <2>1. CASE Take
    BY <2>1 DEF Take, status
  <2>2. CASE HttpMain
    BY <2>2, HttpMainKeepsStatus
  <2>3. CASE NextTask
    BY <2>3 DEF NextTask, ReturnNothing
  <2>4. CASE CleanUp
    BY <2>4 DEF CleanUp
  <2>5. CASE Publish
    BY <2>5 DEF Publish
  <2>6. CASE TakeResult
    BY <2>6 DEF TakeResult
  <2>7. CASE Tick
    BY <2>7 DEF Tick, status
  <2>8. CASE UNCHANGED vars
    BY <2>8 DEF vars, status
  <2> QED
    BY <2>1, <2>2, <2>3, <2>4, <2>5, <2>6, <2>7, <2>8 DEF Next, WorkerStep
<1>3. ReleaseInv => ArenaAliveWhileUsed
  BY DEF ReleaseInv
<1> QED
  BY <1>1, <1>2, <1>3, PTL DEF Spec

-----------------------------------------------------------------------------
\* Sending the request of stage s for the function of stage s leaves the two paired
\* and drops what was received before (async_http.cpp:413, 420-431, 454-463).
LEMMA SendPairs ==
  ASSUME NEW s, NEW delay, Send(s, s, delay)
  PROVE  PairingInv'
BY DEF Send, Reset, Fail, ReturnNothing, ReturnNext, PairingInv, AnswersMatchRequests,
       RequestsPaired, AnswersFromOneAttempt

\* Returning nothing leaves nothing to be paired (async_task.cpp:11-19).
LEMMA NothingToPair == ReturnNothing => PairingInv'
BY DEF ReturnNothing, PairingInv, AnswersMatchRequests, RequestsPaired, AnswersFromOneAttempt

\* For every value of the constants, each user function is called with an answer to its
\* own request, and with no chunk that an earlier attempt received, whatever was retried,
\* polled again or started over (async_http.cpp:404-463).
THEOREM AnswersPaired == Spec => []AnswersMatchRequests
<1>1. Init => PairingInv
  BY DEF Init, PairingInv, AnswersMatchRequests, RequestsPaired, AnswersFromOneAttempt
<1>2. PairingInv /\ [Next]_vars => PairingInv'
  <2> SUFFICES ASSUME PairingInv, [Next]_vars PROVE PairingInv'
    OBVIOUS
  <2> USE DEF PairingInv, AnswersMatchRequests, RequestsPaired, AnswersFromOneAttempt
  <2>1. CASE Take
    BY <2>1 DEF Take, request
  <2>2. CASE TimesOut \/ MultiError \/ NoMessage
    BY <2>2, NothingToPair DEF TimesOut, MultiError, NoMessage, Fail
  <2>3. CASE StillRunning
    BY <2>3 DEF StillRunning, ReturnNext
  <2>4. ASSUME worker = "_http_main", RetryRequest PROVE PairingInv'
    <3>1. next_http_info = next_func
      BY <2>4
    <3> QED
      BY <3>1, <2>4, SendPairs DEF RetryRequest
  <2>5. ASSUME RestartTask PROVE PairingInv'
    BY <2>5, SendPairs DEF RestartTask
  <2>6. CASE TransferFails
    <3>1. worker = "_http_main" /\ next_http_info = next_func
      BY <2>6 DEF TransferFails
    <3> QED
      BY <3>1, <2>4, <2>5, <2>6, SendPairs DEF TransferFails
  <2>7. CASE UserFails
    BY <2>4, <2>5, <2>7, NothingToPair DEF UserFails, Fail
  <2>8. CASE UserReschedules
    <3>1. worker = "_http_main" /\ next_http_info = next_func
      BY <2>8 DEF UserReschedules
    <3> QED
      BY <3>1, <2>8, SendPairs DEF UserReschedules
  <2>9. CASE UserContinues
    BY <2>9, SendPairs DEF UserContinues
  <2>10. CASE UserSucceeds
    BY <2>10, NothingToPair DEF UserSucceeds, ReturnNext
  <2>11. CASE NextTask
    BY <2>11, NothingToPair DEF NextTask
  <2>12. CASE CleanUp \/ Publish \/ TakeResult
    BY <2>12 DEF CleanUp, Publish, TakeResult, request
  <2>13. CASE Tick
    BY <2>13 DEF Tick, request
  <2>14. CASE UNCHANGED vars
    BY <2>14 DEF vars, request
  <2> QED
    BY <2>1, <2>2, <2>3, <2>6, <2>7, <2>8, <2>9, <2>10, <2>11, <2>12, <2>13, <2>14
    DEF Next, WorkerStep, HttpMain
<1>3. PairingInv => AnswersMatchRequests
  BY DEF PairingInv
<1> QED
  BY <1>1, <1>2, <1>3, PTL DEF Spec
-----------------------------------------------------------------------------
\* A task in the queue has a function to go on with: without it a worker that takes
\* the task would be nowhere in the code.
TypeInv == TypeOK /\ (worker = "queued" => continuation # "none")

\* However a request is sent, its stage is one of the chain's.
LEMMA SendKeepsType ==
  ASSUME TypeInv, NEW s \in 1 .. Stages, NEW f \in 1 .. Stages, NEW d \in Nat, Send(s, f, d)
  PROVE  /\ next_func' \in 1 .. Stages /\ next_http_info' \in 1 .. Stages
         /\ configured' \in 1 .. Stages
         /\ chunk_list' = {} /\ UNCHANGED <<curl_ctx, done, arena, result>>
         /\ error' \in BOOLEAN /\ us_delay' \in Nat
         /\ worker' \in {"queued", "cleanup"}
         /\ continuation' \in {"_http_main", "none"}
         /\ worker' = "queued" => continuation' # "none"
<1>1. CASE /\ configured' = s /\ next_http_info' = s /\ next_func' = f
           /\ ReturnNext("_http_main", d)
           /\ UNCHANGED status
  BY <1>1 DEF TypeInv, TypeOK, Send, Reset, ReturnNext, status
<1>2. CASE Fail /\ UNCHANGED <<next_func, next_http_info, configured>>
  BY <1>2 DEF TypeInv, TypeOK, Send, Reset, Fail, ReturnNothing
<1>3. QED BY <1>1, <1>2 DEF Send

\* Neither budget is ever exceeded (async_http.cpp:382-401).
LEMMA RetryKeepsType ==
  ASSUME TypeInv, RetryRequest \/ RestartTask, UNCHANGED elapsed,
         answer' \in {"transfer_failed", "user_failed"}
  PROVE  TypeInv'
<1>0. 1 \in 1 .. Stages /\ RetryDelay \in Nat /\ next_func \in 1 .. Stages /\ next_http_info \in 1 .. Stages
      /\ MaxHttp \in Nat /\ MaxTask \in Nat
  BY AsyncHttpAssumption DEF TypeInv, TypeOK
<1>1. CASE RetryRequest
  <2>1. Send(next_http_info, next_func, RetryDelay) /\ cur_http_retry_count' \in 0 .. MaxHttp
        /\ UNCHANGED cur_task_retry_count
    BY <1>0, <1>1 DEF RetryRequest, HttpBudget, TypeInv, TypeOK
  <2>2. QED BY <1>0, <2>1, SendKeepsType DEF TypeInv, TypeOK
<1>2. CASE RestartTask
  <2>1. Send(1, 1, RetryDelay) /\ cur_http_retry_count' \in 0 .. MaxHttp
        /\ cur_task_retry_count' \in 0 .. MaxTask
    BY <1>0, <1>2 DEF RestartTask, TaskBudget, TypeInv, TypeOK
  <2>2. QED BY <1>0, <2>1, SendKeepsType DEF TypeInv, TypeOK
<1>3. QED BY <1>1, <1>2

\* For every value of the constants: the retry counters never exceed what the task
\* was configured with, and no request is sent that the chain does not have.
THEOREM BudgetsKept == Spec => []TypeOK
<1> USE AsyncHttpAssumption
<1>1. Init => TypeInv
  <2> SUFFICES ASSUME Init PROVE TypeInv
    OBVIOUS
  <2>0. error \in BOOLEAN /\ done \in BOOLEAN
    BY Zenon DEF Init
  <2>1. /\ 1 \in 1 .. Stages /\ 0 \in 0 .. MaxHttp /\ 0 \in 0 .. MaxTask
        /\ 0 \in 0 .. Timeout + 1
    OBVIOUS
  <2>2. QED BY <2>0, <2>1 DEF Init, TypeInv, TypeOK
<1>2. TypeInv /\ [Next]_vars => TypeInv'
  <2> SUFFICES ASSUME TypeInv, [Next]_vars PROVE TypeInv'
    OBVIOUS
  <2>0. TypeOK /\ (worker = "queued" => continuation # "none")
    BY DEF TypeInv
  <2> USE DEF TypeOK, retries, request, status
  <2>1. CASE Take
    BY <2>0, <2>1 DEF Take, TypeInv
  <2>2. CASE TimesOut \/ MultiError \/ NoMessage
    <3>1. /\ error' \in BOOLEAN /\ us_delay' = 0 /\ continuation' = "none" /\ worker' = "cleanup"
          /\ UNCHANGED <<retries, request, curl_ctx, done, arena, result, elapsed>>
          /\ answer' \in {"timeout", "multi_error", "no_message"}
      BY <2>0, <2>2 DEF TimesOut, MultiError, NoMessage, Fail, ReturnNothing
    <3>2. QED BY <2>0, <3>1 DEF TypeInv
  <2>3. CASE StillRunning
    BY <2>0, <2>3 DEF StillRunning, ReturnNext, TypeInv
  <2>4. CASE TransferFails
    <3>1. CASE Send(next_http_info, next_func, 0) /\ UNCHANGED <<retries, elapsed>> /\ answer' = "transfer_failed"
      BY <2>0, <3>1, SendKeepsType DEF TypeInv
    <3>2. QED BY <2>4, <3>1, RetryKeepsType DEF TransferFails
  <2>5. CASE UserFails
    <3>1. CASE Fail /\ UNCHANGED <<retries, request, elapsed>> /\ answer' = "user_failed"
      <4>1. /\ error' \in BOOLEAN /\ us_delay' = 0 /\ continuation' = "none" /\ worker' = "cleanup"
            /\ UNCHANGED <<retries, request, curl_ctx, done, arena, result, elapsed>>
        BY <3>1 DEF Fail, ReturnNothing
      <4>2. QED BY <2>0, <3>1, <4>1 DEF TypeInv
    <3>2. QED BY <2>5, <3>1, RetryKeepsType DEF UserFails
  <2>6. CASE UserReschedules
    <3>1. PICK d \in {0, 1} : Send(next_http_info, next_func, d)
      BY <2>6 DEF UserReschedules
    <3>2. QED BY <2>0, <2>6, <3>1, SendKeepsType DEF UserReschedules, TypeInv
  <2>7. CASE UserContinues
    <3>1. next_func + 1 \in 1 .. Stages
      BY <2>0, <2>7 DEF UserContinues
    <3>2. QED BY <2>0, <2>7, <3>1, SendKeepsType DEF UserContinues, TypeInv
  <2>8. CASE UserSucceeds
    BY <2>0, <2>8 DEF UserSucceeds, ReturnNothing, ReturnNext, TypeInv
  <2>9. CASE NextTask
    BY <2>0, <2>9 DEF NextTask, ReturnNothing, TypeInv
  <2>10. CASE CleanUp \/ Publish
    <3>1. done' \in BOOLEAN
      BY <2>0, <2>10 DEF CleanUp, Publish
    <3>2. QED BY <2>0, <2>10, <3>1, ZenonT(60) DEF CleanUp, Publish, TypeInv
  <2>11. CASE TakeResult
    BY <2>0, <2>11 DEF TakeResult, TypeInv
  <2>12. CASE Tick
    BY <2>0, <2>12 DEF Tick, TypeInv
  <2>13. CASE UNCHANGED vars
    BY <2>0, <2>13 DEF vars, TypeInv
  <2>14. QED
    BY <2>1, <2>2, <2>3, <2>4, <2>5, <2>6, <2>7, <2>8, <2>9, <2>10, <2>11, <2>12, <2>13
    DEF Next, WorkerStep, HttpMain
<1>3. QED BY <1>1, <1>2, PTL DEF Spec, TypeInv
=============================================================================
