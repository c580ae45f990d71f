------------------------------- MODULE Netascore -------------------------------
(***************************************************************************)
(* The chain of requests that fetches a NetAScore file (city/neta.cpp):    *)
(* create a job, ask for its status until it is done, list its files, and  *)
(* download the edges.  AsyncHttp models the task that carries the chain:  *)
(* a request that fails is sent again, and when its retries are used up    *)
(* the chain starts over, with what task_state holds from before.          *)
(***************************************************************************)
EXTENDS Integers, Sequences, SequencesExt

CONSTANTS MaxHttp, \* http retries of a request
          MaxTask, \* times the chain starts over
          MaxPolls \* bound: status answers that say the job goes on

VARIABLES func,     \* the function that gets the next answer, or how the task ended
          request,  \* the request under way: [kind, job, key]
          queue,    \* download_queue: [job_id, keys]
          listed,   \* the file that each job of the server has, or none
          tries,    \* cur_http_retry_count
          starts,   \* cur_task_retry_count
          polls,
          saved     \* what was written to the cache: [job, key], or none

netaVars == <<func, request, queue, listed, tries, starts, polls, saved>>

NoJob == 0
Nothing == [job |-> NoJob, key |-> NoJob]
Request(kind, job, key) == [kind |-> kind, job |-> job, key |-> key]
JobsApi == Request("create", NoJob, NoJob)

\* netascore_async_task_create, for a file that is not in the cache.
NetaInit ==
  /\ func = "netascore_job_create_complete" /\ request = JobsApi
  /\ queue = [job_id |-> NoJob, keys |-> <<>>]
  /\ listed = <<>>
  /\ tries = 0 /\ starts = 0 /\ polls = 0
  /\ saved = Nothing

\* UserFuncResult::success with a request and the function for its answer.
GoOn(req, f) ==
  /\ request' = req /\ func' = f
  /\ tries' = 0
  /\ UNCHANGED starts

\* The whole chain took longer than timeout_us.
Timeout ==
  /\ func \notin {"success", "error"}
  /\ func' = "error"
  /\ UNCHANGED <<request, queue, listed, tries, starts, polls, saved>>

\* The transfer failed or the function called the answer a failure.  (A transfer that
\* still fails when all is used up is sent again all the same; nothing changes here.)
TryAgain ==
  /\ func \notin {"success", "error"}
  /\ \/ /\ tries < MaxHttp
        /\ tries' = tries + 1
        /\ UNCHANGED <<func, request, starts>>
     \/ /\ tries = MaxHttp /\ starts < MaxTask
        /\ starts' = starts + 1 /\ tries' = 0
        /\ func' = "netascore_job_create_complete" /\ request' = JobsApi
     \/ /\ tries = MaxHttp /\ starts = MaxTask
        /\ func' = "error"
        /\ UNCHANGED <<request, tries, starts>>
  /\ UNCHANGED <<queue, listed, polls, saved>>

\* Mutant: the files found before the chain started over stay in the queue.
MutantNewQueue(job) == [queue EXCEPT !.job_id = job]

NewQueue(job) == [job_id |-> job, keys |-> <<>>]

\* The server makes a job, whose id and state the answer has.
netascore_job_create_complete ==
  LET job == Len(listed) + 1
  IN  /\ func = "netascore_job_create_complete"
      /\ listed' = Append(listed, NoJob)
      /\ queue' = NewQueue(job)
      /\ GoOn(Request("status", job, NoJob), "_netascore_job_status_complete")
      /\ UNCHANGED <<polls, saved>>

\* Still queued or running: the same request again, later.
_netascore_job_status_goes_on ==
  /\ func = "_netascore_job_status_complete" /\ polls < MaxPolls
  /\ polls' = polls + 1
  /\ queue' = [queue EXCEPT !.job_id = request.job]
  /\ GoOn(request, func)
  /\ UNCHANGED <<listed, saved>>

_netascore_job_status_complete ==
  /\ func = "_netascore_job_status_complete"
  /\ queue' = [queue EXCEPT !.job_id = request.job]
  /\ GoOn(Request("downloads", request.job, NoJob), "_netascore_downloads_complete")
  /\ UNCHANGED <<listed, polls, saved>>

\* _netascore_download_enqueue of the file with the edges, and the request for the
\* first file of the queue (_netascore_next_download_http_info).
_netascore_downloads_complete ==
  /\ func = "_netascore_downloads_complete"
  /\ listed' = [listed EXCEPT ![request.job] = request.job]
  /\ queue' = [queue EXCEPT !.keys = Append(@, request.job)]
  /\ GoOn(Request("download", queue.job_id, queue'.keys[1]), "_netascore_download_file_complete")
  /\ UNCHANGED <<polls, saved>>

_netascore_download_file_complete ==
  /\ func = "_netascore_download_file_complete" /\ queue.keys # <<>>
  /\ queue' = [queue EXCEPT !.keys = Tail(@)]
  /\ saved' = [job |-> request.job, key |-> request.key]
  /\ func' = "success"
  /\ UNCHANGED <<request, listed, tries, starts, polls>>

NetaNext ==
  \/ TryAgain \/ Timeout
  \/ netascore_job_create_complete
  \/ _netascore_job_status_goes_on \/ _netascore_job_status_complete
  \/ _netascore_downloads_complete \/ _netascore_download_file_complete

-----------------------------------------------------------------------------
\* A file that is asked for and saved is the one the same job listed, and of the
\* last job made, however often requests were sent again and the chain started
\* over; and a task that succeeded has saved one.
FileOfItsJob ==
  /\ request.kind = "download" => /\ request.job = Len(listed)
                                  /\ request.key = listed[request.job]
  /\ saved # Nothing => saved.job = Len(listed) /\ saved.key = listed[saved.job]
  /\ func = "success" <=> saved # Nothing
  /\ func = "_netascore_download_file_complete" => queue.keys # <<>>
=============================================================================
