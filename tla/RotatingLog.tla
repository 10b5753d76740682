----------------------------- MODULE RotatingLog -----------------------------
(***************************************************************************)
(* The rotating JSONL writer (blackboxrs/logging/writer.py) and the log    *)
(* directory it leaves behind, over crashes and restarts of the daemon.    *)
(* One write() is several file operations; readers of the directory and    *)
(* crashes come between them.                                              *)
(*                                                                         *)
(* Abstractions.  A file is numbered in creation order; its name is the    *)
(* pair <<creation time, collision suffix>>, ordered like the strings      *)
(* (suffixes stay below 10).  A line is <<event number, length>>; event 0  *)
(* is the torn end a crash can leave.  The wall clock is never set back.   *)
(***************************************************************************)
EXTENDS Naturals, FiniteSets, Sequences

CONSTANTS
    MaxBytes,       \* max_file_mb
    MaxFiles,       \* max_files
    MaxAge,         \* max_age_hours; 0 disables expiry
    Lengths,        \* line lengths
    MaxEvents,      \* bound: events written
    MaxClock,       \* bound: wall clock
    MaxStarts,      \* bound: starts of the daemon
    MaxFaults       \* bound: file operations that have failed

ASSUME RotatingLogAssumption ==
    /\ MaxBytes \in Nat /\ MaxFiles \in Nat \ {0} /\ MaxAge \in Nat
    /\ Lengths \subseteq Nat \ {0}
    /\ MaxEvents \in Nat /\ MaxClock \in Nat /\ MaxStarts \in Nat
    /\ MaxFaults \in Nat

VARIABLES
    name,       \* name of every file ever created
    content,    \* its lines, kept for readers that hold it open
    mtime,      \* its modification time
    files,      \* the files in the directory
    current,    \* _current_file, 0 for None
    size,       \* _current_size
    pc,         \* the file operation the writer is at
    line,       \* the line being written
    doomed,     \* files _cleanup_old_files has still to unlink
    clock,      \* wall clock
    last,       \* number of the last event handed to write()
    starts,     \* how often the daemon was started
    stopping,   \* LoggingPipeline.stop has closed the writer
    stuck,      \* history: files whose unlink failed
    failed      \* history: events whose write() raised

faults == <<stuck, failed>>
wvars == <<name, content, mtime, files, current, size, pc, line, doomed, last, starts, stopping,
          faults>>
logvars == <<wvars, clock>>

Created == 1 .. Len(name)

\* A bug: the suffix is compared before the time.
BeforeBySuffix(f, g) ==
    \/ name[f][2] < name[g][2]
    \/ name[f][2] = name[g][2] /\ name[f][1] < name[g][1]

\* Lexicographic order of the file names.
Before(f, g) ==
    \/ name[f][1] < name[g][1]
    \/ name[f][1] = name[g][1] /\ name[f][2] < name[g][2]

\* The newest of a set of files, by name: sorted(...)[-1].
Newest(S) == CHOOSE f \in S : \A g \in S \ {f} : Before(g, f)

TypeOK ==
    /\ name \in Seq(Nat \X Nat)
    /\ content \in Seq(Seq((0 .. MaxEvents) \X Lengths)) /\ Len(content) = Len(name)
    /\ mtime \in Seq(0 .. MaxClock) /\ Len(mtime) = Len(name)
    /\ files \in SUBSET Created
    /\ current \in Created \cup {0}
    /\ size \in Nat
    /\ pc \in {"down", "boot", "idle", "rotate", "open", "retain", "unlink", "expire",
               "append"}
    /\ line \in (0 .. MaxEvents) \X (Lengths \cup {0})
    /\ doomed \in SUBSET Created
    /\ clock \in 0 .. MaxClock
    /\ last \in 0 .. MaxEvents
    /\ starts \in 0 .. MaxStarts
    /\ stuck \in SUBSET Created
    /\ failed \in SUBSET (1 .. MaxEvents)
    /\ stopping \in BOOLEAN
    \* The assertion in write().
    /\ pc = "append" /\ ~stopping => current # 0

Init ==
    /\ name = <<>> /\ content = <<>> /\ mtime = <<>>
    /\ files = {} /\ doomed = {}
    /\ current = 0 /\ size = 0
    /\ pc = "down"
    /\ line = <<0, 0>>
    /\ clock = 0 /\ last = 0 /\ starts = 0
    /\ stopping = FALSE
    /\ stuck = {} /\ failed = {}
-----------------------------------------------------------------------------
(* The writer's life *)

\* The constructor, up to _cleanup_expired_files.
Construct ==
    /\ pc = "down"
    /\ starts < MaxStarts
    /\ starts' = starts + 1
    /\ pc' = "boot"
    /\ UNCHANGED <<name, content, mtime, files, current, size, line, doomed, clock, last,
                   stopping, faults>>

\* LoggingPipeline.stop: no further event is taken, and the writer is closed
\* in whatever write() the thread is when the 2 s of join() are over.
Close ==
    /\ pc \notin {"down", "boot"}
    /\ ~stopping
    /\ stopping' = TRUE
    /\ current' = 0
    /\ size' = 0
    /\ UNCHANGED <<name, content, mtime, files, pc, line, doomed, clock, last, starts, faults>>

\* The process exits or dies; a line being appended is lost or torn.
Crash ==
    /\ pc # "down"
    /\ \/ UNCHANGED content
       \/ /\ pc = "append" /\ current # 0
          /\ content' = [content EXCEPT ![current] = Append(@, <<0, line[2]>>)]
    /\ stopping' = FALSE
    /\ current' = 0
    /\ size' = 0
    /\ doomed' = {}
    /\ pc' = "down"
    /\ UNCHANGED <<name, mtime, files, line, clock, last, starts, faults>>
-----------------------------------------------------------------------------
(* write() *)

\* Does a line of this length make write() rotate first?
Full(len) == current # 0 /\ size + len > MaxBytes

\* write() up to its first file operation; _rotate begins with close().
Write(len) ==
    /\ pc = "idle"
    /\ ~stopping
    /\ last < MaxEvents
    /\ last' = last + 1
    /\ line' = <<last + 1, len>>
    /\ pc' = IF Full(len) THEN "rotate" ELSE IF current = 0 THEN "open" ELSE "append"
    /\ current' = IF Full(len) THEN 0 ELSE current
    /\ size' = IF Full(len) THEN 0 ELSE size
    /\ UNCHANGED <<name, content, mtime, files, doomed, clock, starts, stopping, faults>>

\* The suffix exclusive creation ends up with at the present time.
FreeSuffix == CHOOSE k \in 0 .. Cardinality(files) :
    /\ \A f \in files : name[f] # <<clock, k>>
    /\ \A j \in 0 .. k - 1 : \E f \in files : name[f] = <<clock, j>>

\* _open_new_file.  A file outlives the microsecond it was created in.
OpenNew ==
    /\ pc \in {"open", "rotate"}
    /\ \A f \in Created \ files : name[f][1] < clock
    /\ name' = Append(name, <<clock, FreeSuffix>>)
    /\ content' = Append(content, <<>>)
    /\ mtime' = Append(mtime, clock)
    /\ files' = files \cup {Len(name) + 1}
    /\ current' = Len(name) + 1
    /\ size' = 0
    /\ pc' = IF pc = "rotate" THEN "retain" ELSE "append"
    /\ UNCHANGED <<line, doomed, clock, last, starts,
                   stopping, faults>>

MayFail == Cardinality(stuck) + Cardinality(failed) < MaxFaults

\* open() raises: the pipeline logs it and drops the event.
OpenFails ==
    /\ MayFail
    /\ pc \in {"open", "rotate"}
    /\ pc' = "idle"
    /\ failed' = failed \cup {line[1]}
    /\ UNCHANGED <<name, content, mtime, files, current, size, line, doomed, clock, last,
                   starts, stopping, stuck>>

\* Two bugs: files are deleted from the wrong end, or one too few.
ExcessNewest == {f \in files :
    Cardinality({g \in files : Before(f, g)}) + MaxFiles < Cardinality(files)}
ExcessOneLess == {f \in files :
    Cardinality({g \in files : Before(g, f)}) + MaxFiles + 1 < Cardinality(files)}

\* Files to delete: the first len(log_files) - max_files by name.
Excess == {f \in files :
    Cardinality({g \in files : Before(g, f)}) + MaxFiles < Cardinality(files)}

\* _cleanup_old_files lists the directory...
Retain ==
    /\ pc = "retain"
    /\ doomed' = Excess
    /\ pc' = "unlink"
    /\ UNCHANGED <<name, content, mtime, files, current, size, line, clock, last, starts,
                   stopping, faults>>

\* ...and unlinks the excess, oldest name first; a failure is logged and
\* the loop goes on.
Unlink(f) ==
    /\ pc = "unlink"
    /\ f \in doomed
    /\ \A g \in doomed \ {f} : Before(f, g)
    /\ doomed' = doomed \ {f}
    /\ \/ files' = files \ {f} /\ stuck' = stuck \ {f}
       \/ MayFail /\ stuck' = stuck \cup {f} /\ UNCHANGED files
    /\ UNCHANGED <<name, content, mtime, current, size, pc, line, clock, last, starts,
                   stopping, failed>>

Unlinked ==
    /\ pc = "unlink"
    /\ doomed = {}
    /\ pc' = "expire"
    /\ UNCHANGED <<name, content, mtime, files, current, size, line, doomed, clock, last,
                   starts, stopping, faults>>

Expired(f) == MaxAge > 0 /\ mtime[f] + MaxAge < clock

\* A bug: the open file is not spared.
ExpireAny(f) ==
    /\ pc \in {"boot", "expire"}
    /\ f \in files
    /\ Expired(f)
    /\ files' = files \ {f}
    /\ UNCHANGED <<name, content, mtime, current, size, pc, line, doomed, clock, last,
                   starts, stopping, faults>>

\* _cleanup_expired_files, in the order glob() happens to give; it may end
\* (ExpireDone) with files left, whose stat or unlink failed.
Expire(f) ==
    /\ pc \in {"boot", "expire"}
    /\ f \in files
    /\ f # current
    /\ Expired(f)
    /\ files' = files \ {f}
    /\ UNCHANGED <<name, content, mtime, current, size, pc, line, doomed, clock, last,
                   starts, stopping, faults>>

ExpireDone ==
    /\ pc \in {"boot", "expire"}
    /\ pc' = IF pc = "boot" THEN "idle" ELSE "append"
    /\ UNCHANGED <<name, content, mtime, files, current, size, line, doomed, clock, last,
                   starts, stopping, faults>>

\* The line reaches the file.
AppendLine ==
    /\ pc = "append" /\ current # 0
    /\ content' = [content EXCEPT ![current] = Append(@, line)]
    /\ mtime' = [mtime EXCEPT ![current] = clock]
    /\ size' = size + line[2]
    /\ pc' = "idle"
    /\ UNCHANGED <<name, files, current, line, doomed, clock, last, starts,
                   stopping, faults>>

\* write() or flush() raises (a full disk).  The bytes may stay in the
\* buffer and reach the file with the next line, uncounted.
AppendFails ==
    /\ MayFail
    /\ pc = "append" /\ current # 0
    /\ content' \in {content, [content EXCEPT ![current] = Append(@, line)]}
    /\ failed' = failed \cup {line[1]}
    /\ pc' = "idle"
    /\ UNCHANGED <<name, mtime, files, current, size, line, doomed, clock, last, starts,
                   stopping, stuck>>

\* close() came in between: the assertion fails, the pipeline drops the event.
AppendClosed ==
    /\ pc = "append" /\ current = 0
    /\ failed' = failed \cup {line[1]}
    /\ pc' = "idle"
    /\ UNCHANGED <<name, content, mtime, files, current, size, line, doomed, clock, last,
                   starts, stopping, stuck>>
-----------------------------------------------------------------------------
\* The wall clock.
Tick ==
    /\ clock < MaxClock
    /\ clock' = clock + 1
    /\ UNCHANGED wvars

Writer ==
    \/ Construct \/ (\E len \in Lengths : Write(len)) \/ OpenNew \/ OpenFails \/ Retain
    \/ (\E f \in doomed : Unlink(f)) \/ Unlinked \/ (\E f \in files : Expire(f))
    \/ ExpireDone \/ AppendLine \/ AppendFails \/ AppendClosed

LogNext == Writer \/ Close \/ Crash \/ Tick

LogSpec == Init /\ [][LogNext]_logvars
-----------------------------------------------------------------------------
\* Only the end of the log is kept: a file goes before any younger one does,
\* except that expired files go in any order and a failed unlink leaves its
\* file until the next rotation.
OldestGoFirst ==
    \A f \in files \ stuck, g \in Created \ files : f < g => Expired(f)

\* read_all returns the events in the order they were written, across
\* rotations, failed writes, crashes and restarts.
ReadAllInOrder ==
    \A f, g \in files :
        \A i \in 1 .. Len(content[f]), j \in 1 .. Len(content[g]) :
            (Before(f, g) \/ (f = g /\ i < j)) /\ content[f][i][1] > 0 /\ content[g][j][1] > 0
                => content[f][i][1] < content[g][j][1]

\* The file being written is never deleted under the writer, and readers
\* that look for the newest file find it.
CurrentIsNewest ==
    current # 0 => current \in files /\ current = Newest(files)

\* The lines of a file whose write() did not raise, and their bytes.
Counted(f) == {i \in 1 .. Len(content[f]) : content[f][i][1] \notin failed \cup {0}}
Bytes(f) == UNION {{i} \X (1 .. content[f][i][2]) : i \in Counted(f)}

\* The byte counter is right whatever failed before: leaving out lines whose
\* write() raised, no file outgrows max_file_mb unless one line alone does.
FileSizeBounded ==
    /\ \A f \in Created : Cardinality(Bytes(f)) <= MaxBytes \/ Cardinality(Counted(f)) = 1
    /\ current # 0 => size = Cardinality(Bytes(current))

\* A rotation leaves at most max_files files behind, besides those that could
\* not be unlinked.
RotationRestoresLimit ==
    pc = "expire" => Cardinality(files \ stuck) <= MaxFiles

\* Both limits hold as far as the code enforces them: the size of a file at
\* every write, their number at every rotation (RotatingJsonlWriter).
LimitsKept == FileSizeBounded /\ RotationRestoresLimit
=============================================================================
