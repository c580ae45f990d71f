------------------------------- MODULE OsFiles -------------------------------
(***************************************************************************)
(* Whole files read and written (os_core/os_core.cpp) over the partial     *)
(* reads and writes of the two systems (os_core_linux.c, os_core_win32.cpp)*)
(* while another process may cut the file short, and a directory that is   *)
(* emptied (os_clear_directory).                                           *)
(*                                                                         *)
(* A file is a sequence of bytes.  Between two of the system's calls the   *)
(* state is that of the loop in os_file_read or os_file_write.             *)
(***************************************************************************)
EXTENDS Integers, Sequences, FiniteSets, SequencesExt, FiniteSetsExt

CONSTANTS Contents, \* what is written, and what the file holds before
          Trees,    \* directories: functions from paths to "file", "folder" or "link"
          MaxCalls  \* bound: calls of the system that leave a loop where it is

VARIABLES windows, \* the build
          file,    \* the bytes on disk
          before,  \* the bytes before this call
          call,    \* [op, state, data, base, done, size]
          calls,   \* calls without progress
          tree,    \* the directory to be emptied, without itself
          visit,   \* the folders being walked: [path, left] with the entries not met yet
          good     \* os_clear_directory goes well

fileVars == <<windows, file, before, call, calls, tree, visit, good>>

NoCall == [op |-> "none", state |-> "idle", data |-> <<>>, base |-> 0, done |-> 0, size |-> 0]

Children(t, path) == {p \in DOMAIN t : Len(p) = Len(path) + 1 /\ IsPrefix(path, p)}

FilesInit ==
  /\ windows \in BOOLEAN /\ file \in Contents /\ before = file
  /\ call = NoCall /\ calls = 0
  /\ tree \in Trees /\ visit = <<[path |-> <<>>, left |-> Children(tree, <<>>)]>> /\ good = TRUE

Rest == UNCHANGED <<windows, tree, visit, good>>

-----------------------------------------------------------------------------
\* Mutant: data is written from the start of a file that is appended to.
MutantBase(op) == 0

\* Where the write begins: os_append_data_to_file_path takes the size of the file.
Base(op) == IF op = "append" THEN Len(file) ELSE 0

\* os_file_open: only Windows empties a file that is opened to be written.
Opened(op) == IF op = "write" /\ windows THEN <<>> ELSE file

\* os_write_data_to_file_path, os_append_data_to_file_path
WriteBegin(op, data) ==
  /\ call.state = "idle" /\ (op = "append" => data # <<>>)
  /\ call' = [op |-> op, state |-> "loop", data |-> data, base |-> Base(op), done |-> 0,
              size |-> Len(data)]
  /\ before' = file /\ file' = Opened(op) /\ calls' = 0
  /\ Rest

\* os_data_from_file_path: the size is asked for first.
ReadBegin ==
  /\ call.state = "idle"
  /\ call' = [op |-> "read", state |-> "loop", data |-> <<>>, base |-> 0, done |-> 0,
              size |-> Len(file)]
  /\ before' = file /\ calls' = 0
  /\ UNCHANGED file /\ Rest

Looping == call.state = "loop" /\ call.done < call.size

Overwritten(f, at, bytes) ==
  [i \in 1 .. Max({Len(f), at + Len(bytes)}) |->
     IF i \in at + 1 .. at + Len(bytes) THEN bytes[i - at] ELSE IF i <= Len(f) THEN f[i] ELSE "zero"]

\* Linux appends wherever the file ends.
Position == IF call.op = "append" /\ ~windows THEN Len(file) ELSE call.base + call.done

\* os_file_write: a call of the system writes some of what is left.
Written(n) ==
  /\ Looping /\ call.op # "read"
  /\ file' = Overwritten(file, Position, SubSeq(call.data, call.done + 1, call.done + n))
  /\ call' = [call EXCEPT !.done = @ + n]
  /\ UNCHANGED <<before, calls>> /\ Rest

\* os_file_read: a call reads some of what the file still has there; on Windows less
\* than was asked for ends the loop, elsewhere it goes on.
Read(n) ==
  /\ Looping /\ call.op = "read"
  /\ n <= Len(file) - call.done
  /\ call' = [call EXCEPT !.done = @ + n, !.data = @ \o SubSeq(file, call.done + 1, call.done + n),
                          !.state = IF windows /\ n < call.size - call.done THEN "done" ELSE @]
  /\ UNCHANGED <<file, before, calls>> /\ Rest

\* A call that was interrupted, or on Linux one at the end of the file, which the
\* loop makes again and again.
Nothing ==
  /\ Looping /\ calls < MaxCalls
  /\ calls' = calls + 1
  /\ call' = [call EXCEPT !.state = IF windows THEN "done" ELSE @]
  /\ UNCHANGED <<file, before>> /\ Rest

\* A call that fails, and the end of the loop; what is still missing is not reported.
Break ==
  /\ call.state = "loop"
  /\ call' = [call EXCEPT !.state = "done"]
  /\ UNCHANGED <<file, before, calls>> /\ Rest

\* Another process cuts the file while it is read; Windows does not let it open the
\* file to write.
CutShort ==
  /\ ~windows /\ call.op = "read" /\ call.state = "loop" /\ file # <<>>
  /\ file' = Front(file)
  /\ UNCHANGED <<before, call, calls>> /\ Rest

-----------------------------------------------------------------------------
Here == Last(visit)

Without(p) == [q \in DOMAIN tree \ {p} |-> tree[q]]

\* os_clear_directory: an entry of the folder.  A folder is walked first; a link, also
\* one to a folder, is removed and not followed.
ClearEntry ==
  /\ visit # <<>> /\ Here.left # {}
  /\ \E p \in Here.left :
       LET on == [visit EXCEPT ![Len(visit)].left = @ \ {p}]
       IN  IF tree[p] = "folder"
             THEN /\ visit' = Append(on, [path |-> p, left |-> Children(tree, p)])
                  /\ UNCHANGED <<tree, good>>
             ELSE /\ visit' = on
                  /\ \/ tree' = Without(p) /\ UNCHANGED good
                     \/ good' = FALSE /\ UNCHANGED tree
  /\ UNCHANGED <<windows, file, before, call, calls>>

\* The folder is walked and is removed, if it is empty; not the one asked for.
ClearFolder ==
  /\ visit # <<>> /\ Here.left = {}
  /\ visit' = Front(visit)
  /\ \/ Len(visit) > 1 /\ Children(tree, Here.path) = {} /\ tree' = Without(Here.path) /\ UNCHANGED good
     \/ Len(visit) > 1 /\ good' = FALSE /\ UNCHANGED tree
     \/ Len(visit) = 1 /\ UNCHANGED <<tree, good>>
  /\ UNCHANGED <<windows, file, before, call, calls>>

FilesNext ==
  \/ \E op \in {"write", "append"} : \E data \in Contents : WriteBegin(op, data)
  \/ ReadBegin
  \/ \E n \in 1 .. call.size - call.done : Written(n) \/ Read(n)
  \/ Nothing \/ Break \/ CutShort
  \/ ClearEntry \/ ClearFolder

-----------------------------------------------------------------------------
Whole == call.state = "done" /\ call.done = call.size

\* A whole write leaves its bytes and, on Linux, the end of a longer file behind them;
\* a whole append leaves the old bytes first; and no write changes what is elsewhere
\* in the file, however the loop was cut into calls.
WritesExact ==
  /\ call.op = "append" => file = before \o SubSeq(call.data, 1, call.done)
  /\ call.op = "write" =>
       /\ SubSeq(file, 1, call.done) = SubSeq(call.data, 1, call.done)
       /\ windows => Len(file) = call.done
       /\ ~windows => \A i \in call.done + 1 .. Len(before) : file[i] = before[i]

\* What a read returns is the beginning of the file as it was when it was opened, in
\* order and without a hole, and all of it unless the read ended early.
ReadsExact ==
  call.op = "read" =>
    /\ IsPrefix(call.data, before) /\ Len(call.data) = call.done
    /\ Whole => call.data = before

\* A directory that was emptied well has nothing in it; no entry is left without its
\* folder on the way, and what is walked is there.
ClearedExact ==
  /\ visit = <<>> /\ good => DOMAIN tree = {}
  /\ \A p \in DOMAIN tree : Len(p) > 1 => Front(p) \in DOMAIN tree /\ tree[Front(p)] = "folder"
  /\ \A i \in DOMAIN visit : i > 1 => visit[i].path \in DOMAIN tree

FilesExact == WritesExact /\ ReadsExact /\ ClearedExact
=============================================================================
