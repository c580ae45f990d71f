------------------------------- MODULE Websocket -------------------------------
(***************************************************************************)
(* async/async_websocket.cpp: the session that the frame loop reads once a *)
(* frame.  A read lets curl deliver chunks to a callback, which gathers    *)
(* them until a message ends; then it hands over the messages gathered and *)
(* clears their arena.  A broken connection is configured again by the     *)
(* read that sees it.                                                      *)
(*                                                                         *)
(* Messages are numbered as the server sends them, each in Parts chunks.   *)
(***************************************************************************)
EXTENDS Integers, Sequences, SequencesExt

CONSTANTS Parts,      \* chunks of a message, of one or more frames
          MaxMessages, \* bound: messages the server sends
          MaxReads    \* bound: reads

VARIABLES phase,      \* "none", or the session is "idle", "performing" or "ended"
          error,      \* ws_session->error
          added_to_multi, \* curl runs the session
          wire,       \* [msg, part] of the next chunk to arrive
          chunk_list, \* curl_ctx->chunk_list, as [msg, part, epoch, read]
          msg_list,   \* ws_session->msg_list, as [chunks, intact, epoch]
          epoch,      \* how often msg_arena was cleared
          reads,      \* reads begun
          latest,     \* the messages the last read returned
          newest      \* the newest message an earlier read returned

websocketVars == <<phase, error, added_to_multi, wire, chunk_list, msg_list, epoch, reads, latest,
                   newest>>

WebsocketInit ==
  /\ phase = "none" /\ error = "none" /\ added_to_multi = FALSE
  /\ wire = [msg |-> 1, part |-> 1]
  /\ chunk_list = <<>> /\ msg_list = <<>>
  /\ epoch = 0 /\ reads = 0
  /\ latest = <<>> /\ newest = 0

\* _async_http_configure either sets every option or names what failed.
_async_http_configure ==
  /\ error' \in {"none", "configure"}
  /\ added_to_multi' = (error' = "none")

\* async_websocket_start: a path that is no websocket's leaves a session that was
\* never configured.
async_websocket_start ==
  /\ phase = "none"
  /\ phase' = "idle"
  /\ \E is_websocket \in BOOLEAN :
       IF is_websocket THEN _async_http_configure ELSE UNCHANGED <<error, added_to_multi>>
  /\ UNCHANGED <<wire, chunk_list, msg_list, epoch, reads, latest, newest>>

\* _async_websocket_read enters curl.
ReadBegin ==
  /\ phase = "idle" /\ reads < MaxReads
  /\ phase' = "performing"
  /\ reads' = reads + 1
  /\ UNCHANGED <<error, added_to_multi, wire, chunk_list, msg_list, epoch, latest, newest>>

\* What msg_arena still holds of something written in an epoch.
Kept(x) == x.epoch = epoch

\* A message gathered from a list: the chunks written since msg_arena was cleared
\* are as they were, the memory of earlier ones was handed out again.
str8_from_chunk_list(chunks) ==
  [chunks |-> chunks, intact |-> \A i \in DOMAIN chunks : Kept(chunks[i]), epoch |-> epoch]

\* _libcurl_ws_callback: the last chunk of a message ends it.
_libcurl_ws_callback ==
  LET gathered == Append(chunk_list, [msg |-> wire.msg, part |-> wire.part, epoch |-> epoch,
                                      read |-> reads])
      message_done == wire.part = Parts
  IN  /\ phase = "performing" /\ added_to_multi /\ wire.msg <= MaxMessages
      /\ wire' = IF message_done THEN [msg |-> wire.msg + 1, part |-> 1]
                                 ELSE [wire EXCEPT !.part = @ + 1]
      /\ chunk_list' = IF message_done THEN <<>> ELSE gathered
      /\ msg_list' = IF message_done THEN Append(msg_list, str8_from_chunk_list(gathered))
                                     ELSE msg_list
      /\ UNCHANGED <<phase, error, added_to_multi, epoch, reads, latest, newest>>

\* _ws_main: curl reports the connection's end once; without a report an error
\* of an earlier configuration stays.  What the server had begun is lost with the
\* connection, so the next message starts afresh.
_ws_main(seen) ==
  \/ seen = error /\ UNCHANGED wire
  \/ /\ added_to_multi /\ seen \in {"curl", "http", "disconnected"}
     /\ wire' = IF wire.part = 1 THEN wire ELSE [msg |-> wire.msg + 1, part |-> 1]

\* Mutant: the chunks of the broken connection stay.
MutantCurlReset == UNCHANGED chunk_list

\* _curl_reset forgets what was gathered.
_curl_reset == chunk_list' = <<>>

Number(m) == m.chunks[1].msg

\* The messages are copied for the caller, and then their arena is cleared.
HandOver ==
  /\ latest' = [i \in DOMAIN msg_list |-> [msg_list[i] EXCEPT !.intact = @ /\ Kept(msg_list[i])]]
  /\ msg_list' = <<>>
  /\ epoch' = epoch + 1

\* The rest of _async_websocket_read: a seen error is replaced by the outcome of
\* configuring again, and the messages are handed over and their arena cleared.
ReadEnd ==
  /\ phase = "performing"
  /\ \E seen \in {"none", "configure", "curl", "http", "disconnected"} :
       /\ _ws_main(seen)
       /\ IF seen # "none" THEN _curl_reset /\ _async_http_configure
                           ELSE UNCHANGED <<chunk_list, error, added_to_multi>>
  /\ HandOver
  /\ newest' = IF msg_list = <<>> THEN newest ELSE Number(Last(msg_list))
  /\ phase' = "idle"
  /\ UNCHANGED reads

\* _async_http_connection_end, from the connection's destructor.
_async_http_connection_end ==
  /\ phase = "idle"
  /\ phase' = "ended"
  /\ msg_list' = <<>> /\ chunk_list' = <<>>
  /\ UNCHANGED <<error, added_to_multi, wire, epoch, reads, latest, newest>>

WebsocketNext ==
  \/ async_websocket_start \/ ReadBegin \/ _libcurl_ws_callback \/ ReadEnd
  \/ _async_http_connection_end

-----------------------------------------------------------------------------
Whole(m) == LET n == Number(m) IN
  /\ Len(m.chunks) = Parts
  /\ \A p \in 1 .. Parts : m.chunks[p].msg = n /\ m.chunks[p].part = p

\* What a read returns (_async_websocket_read) are messages the server sent, each
\* whole, once and in its order, also after the connection broke in the middle of
\* one; and the bytes of a message that came within this read are as they were
\* sent.  (The first chunks of a message that spans reads are lost with msg_arena.)
ReadsWholeMessages ==
  /\ \A i \in DOMAIN latest :
       /\ Whole(latest[i])
       /\ (\A p \in 1 .. Parts : latest[i].chunks[p].read = reads) => latest[i].intact
       /\ \A k \in 1 .. i - 1 : Number(latest[k]) < Number(latest[i])
  /\ \A i \in DOMAIN msg_list : newest < Number(msg_list[i])
=============================================================================
