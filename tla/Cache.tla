--------------------------------- MODULE Cache ---------------------------------
(***************************************************************************)
(* base/cache.cpp: answers of the network kept in a data file, with a meta *)
(* file that names the input they answer and when they were written.  Its  *)
(* users (city/city.cpp, osm/osm.cpp, city/neta.cpp) write only after a    *)
(* read was refused.  The program may stop between the two files, a write  *)
(* may fail and an answer may be empty; the input changes with the area's  *)
(* configuration.  Windows opens a file to write as an empty one, Linux    *)
(* leaves its bytes (os_file_open): what is shorter is written over the    *)
(* start of what was there.                                                *)
(***************************************************************************)
EXTENDS Integers

CONSTANTS Inputs, \* what is hashed: the bounding boxes or requests
          Ttl,    \* 10000 seconds, in steps of the clock
          MaxTime, \* bound: the clock
          LongAnswers, \* the inputs whose answer is longer than the others'
          LongHashes   \* the inputs whose hash has a digit more than the others'

VARIABLES windows,   \* the build
          data,      \* no file, or [input, content] with content whole, partial, empty or mixed
          meta,      \* no file, or [input, time]
          now,       \* os_now_unix
          asked,     \* the input of the read or write under way
          phase,     \* "idle", "miss", "answered" or "data_written"
          content,   \* what was fetched
          accepted,  \* what the last read returned as valid, and when
          written,   \* when the last meta file was written
          disturbed  \* a data file was written in part or over a longer one, without
                     \* its meta file next to one of another input, or the meta file
                     \* over a longer one

cacheVars == <<windows, data, meta, now, asked, phase, content, accepted, written,
               disturbed>>

NoFile == [input |-> "none"]

CacheInit ==
  /\ windows \in BOOLEAN /\ written = 0
  /\ data = NoFile /\ meta = NoFile
  /\ now = 0
  /\ asked \in Inputs
  /\ phase = "idle"
  /\ content = "none"
  /\ accepted = NoFile
  /\ disturbed = FALSE

\* Mutant: the hash is not compared.
MutantNeedsUpdate(input) == meta = NoFile \/ now > meta.time + Ttl

\* cache_needs_update: no meta file, of another input, or too old.
cache_needs_update(input) ==
  \/ meta = NoFile
  \/ meta.input # input
  \/ now > meta.time + Ttl

\* cache_read: refused also when there is no data file.
cache_read(input) ==
  LET refused == data = NoFile \/ cache_needs_update(input)
  IN  /\ phase = "idle"
      /\ asked' = input
      /\ accepted' = IF refused THEN NoFile
                     ELSE [input |-> data.input, content |-> data.content, read |-> now]
      /\ phase' = IF refused THEN "miss" ELSE "idle"
      /\ UNCHANGED <<windows, data, meta, now, content, written, disturbed>>

\* The answer of the network, or none: then nothing is written.
Fetch ==
  /\ phase = "miss"
  /\ \/ \E c \in {"whole", "empty"} : content' = c /\ phase' = "answered"
     \/ phase' = "idle" /\ UNCHANGED content
  /\ UNCHANGED <<windows, data, meta, now, asked, accepted, written, disturbed>>

\* The data file has bytes behind those that are written now.
Longer == /\ ~windows /\ data # NoFile /\ data.content # "empty"
          /\ \/ content = "empty"
             \/ data.input \in LongAnswers /\ asked \notin LongAnswers
             \/ data.content = "mixed"

\* cache_write, the data file: a failure is only logged and leaves the file
\* written in part.
WriteData ==
  /\ phase = "answered"
  /\ \E c \in {IF Longer THEN "mixed" ELSE content, "partial"} :
       /\ data' = [input |-> asked, content |-> c]
       /\ disturbed' = (disturbed \/ c # content)
  /\ phase' = "data_written"
  /\ UNCHANGED <<windows, meta, now, asked, content, accepted, written>>

\* The text of the meta file is the hash, a tab and the time: over a longer one the
\* time gets the digits left behind, and never passes.
StretchedTime == MaxTime
MetaStretched == ~windows /\ meta # NoFile /\ meta.input \in LongHashes /\ asked \notin LongHashes

\* The meta file now on disk goes on naming another input than the data file.
LeavesMeta == disturbed' = (disturbed \/ (meta # NoFile /\ meta.input # asked))

\* cache_write, the meta file, unless the content is empty; its failure is only
\* logged too.
WriteMeta ==
  /\ phase = "data_written"
  /\ \/ /\ content # "empty"
        /\ meta' = [input |-> asked, time |-> IF MetaStretched THEN StretchedTime ELSE now]
        /\ written' = now
        /\ disturbed' = (disturbed \/ MetaStretched)
     \/ UNCHANGED <<meta, written>> /\ LeavesMeta
  /\ phase' = "idle"
  /\ UNCHANGED <<windows, data, now, asked, content, accepted>>

\* The program stops and is started again.
Restart ==
  /\ phase # "idle"
  /\ phase' = "idle"
  /\ IF phase = "data_written" THEN LeavesMeta ELSE UNCHANGED disturbed
  /\ accepted' = NoFile
  /\ UNCHANGED <<windows, data, meta, now, asked, content, written>>

Tick ==
  /\ now < MaxTime
  /\ now' = now + 1
  /\ UNCHANGED <<windows, data, meta, asked, phase, content, accepted, written, disturbed>>

CacheNext ==
  \/ \E i \in Inputs : cache_read(i)
  \/ Fetch \/ WriteData \/ WriteMeta \/ Restart \/ Tick

-----------------------------------------------------------------------------
\* The meta file (cache_write, cache_needs_update) vouches for the data file: what
\* a read accepts is the whole answer to the input asked for, written no longer ago
\* than the time to live, also when the program stopped between the two files and
\* the input is asked for again.  What breaks this is a data file written in part,
\* whose meta file is written all the same, a data file left beside the meta file
\* of another input, and on Linux either file written over a longer one: the answer
\* goes on with the old one's end, or is accepted for good.
MetaVouchesForData ==
  ~disturbed => /\ accepted # NoFile => /\ accepted.input = asked /\ accepted.content = "whole"
                                        /\ accepted.read <= written + Ttl
                /\ meta # NoFile => data # NoFile
                /\ meta # NoFile /\ phase = "idle" => data.input = meta.input
=============================================================================
