------------------------------- MODULE LogTail -------------------------------
(***************************************************************************)
(* "blackboxrs logs --follow" (_iter_tail_events in blackboxrs/cli/app.py):*)
(* another process follows the newest log file while the daemon writes,    *)
(* rotates, prunes, crashes and restarts.  An open file stays readable     *)
(* after it is unlinked.                                                   *)
(***************************************************************************)
EXTENDS RotatingLog

VARIABLES
    tpc,        \* where the follower is
    tfile,      \* current: the file it has open
    tpos,       \* lines of it consumed
    tnext,      \* the newest file it has seen in the directory
    yielded     \* events it has printed

tailvars == <<tpc, tfile, tpos, tnext, yielded>>
vars == <<logvars, tailvars>>

TailTypeOK ==
    /\ tpc \in {"start", "open", "read", "check", "switch", "over", "raised"}
    /\ tfile \in Created \cup {0}
    /\ tpos \in 0 .. IF tfile = 0 THEN 0 ELSE Len(content[tfile])
    /\ tnext \in Created \cup {0}
    /\ yielded \in Seq(1 .. MaxEvents)

TailInit ==
    /\ Init
    /\ tpc = "start" /\ tfile = 0 /\ tpos = 0 /\ tnext = 0
    /\ yielded = <<>>

\* _latest_log_file_in: without a log file the follower ends at once.
TailStart ==
    /\ tpc = "start"
    /\ IF files = {} THEN tpc' = "over" /\ UNCHANGED tnext
                     ELSE tpc' = "open" /\ tnext' = Newest(files)
    /\ UNCHANGED <<logvars, tfile, tpos, yielded>>

\* open() and seek to the end; the file may have been pruned in between,
\* and FileNotFoundError is not caught.
TailOpen ==
    /\ tpc = "open"
    /\ IF tnext \in files
         THEN /\ tpc' = "read"
              /\ tfile' = tnext
              /\ tpos' = Len(content[tnext])
         ELSE tpc' = "raised" /\ UNCHANGED <<tfile, tpos>>
    /\ UNCHANGED <<logvars, tnext, yielded>>

\* A line is there; a malformed one (event 0) is skipped.
TailLine ==
    /\ tpc = "read"
    /\ tpos < Len(content[tfile])
    /\ tpos' = tpos + 1
    /\ LET e == content[tfile][tpos + 1][1] IN
         yielded' = IF e = 0 THEN yielded ELSE Append(yielded, e)
    /\ UNCHANGED <<logvars, tpc, tfile, tnext>>

\* readline() returned "".
TailEof ==
    /\ tpc = "read"
    /\ tpos = Len(content[tfile])
    /\ tpc' = "check"
    /\ UNCHANGED <<logvars, tfile, tpos, tnext, yielded>>

\* Two bugs: any other file will do, or it does not look.
TailCheckAny ==
    /\ tpc = "check"
    /\ IF files \subseteq {tfile}
         THEN tpc' = "read" /\ UNCHANGED tnext
         ELSE tpc' = "switch" /\ tnext' \in files \ {tfile}
    /\ UNCHANGED <<logvars, tfile, tpos, yielded>>

TailCheckNever ==
    /\ tpc = "check"
    /\ tpc' = "read"
    /\ UNCHANGED <<logvars, tfile, tpos, tnext, yielded>>

\* Look for a newer file; if there is none, sleep and read on.
TailCheck ==
    /\ tpc = "check"
    /\ IF files # {} /\ Newest(files) # tfile
         THEN tpc' = "switch" /\ tnext' = Newest(files)
         ELSE tpc' = "read" /\ UNCHANGED tnext
    /\ UNCHANGED <<logvars, tfile, tpos, yielded>>

\* Close the old file, read the new one from its start.
TailSwitch ==
    /\ tpc = "switch"
    /\ IF tnext \in files THEN tpc' = "read" /\ tfile' = tnext /\ tpos' = 0
                          ELSE tpc' = "raised" /\ UNCHANGED <<tfile, tpos>>
    /\ UNCHANGED <<logvars, tnext, yielded>>

Follow == TailStart \/ TailOpen \/ TailLine \/ TailEof \/ TailCheck \/ TailSwitch

WriterStep == LogNext /\ UNCHANGED tailvars

Next == WriterStep \/ Follow

Spec == TailInit /\ [][Next]_vars

\* The follower polls for ever; the writer may stop anywhere.
FairSpec == Spec /\ WF_vars(Follow)
-----------------------------------------------------------------------------
\* No event is printed twice or out of order, whatever the writer rotates
\* and prunes between two steps of the follower (_iter_tail_events).  It does
\* not hold with retention by age (MaxAge > 0): a daemon that starts deletes
\* expired files in the order of the directory, a newer one perhaps before an
\* older one, and a follower that looks in between goes back to the older.
TailInOrder ==
    \A i, j \in 1 .. Len(yielded) : i < j => yielded[i] < yielded[j]

\* The follower does not get stuck on a file that is no longer the newest:
\* once the daemon is quiet it comes to the end of the newest file.
CaughtUp == tpc \in {"over", "raised"} \/ (tfile = Newest(files) /\ tpos = Len(content[tfile]))
TailCatchesUp == <>[](files # {} /\ tpc # "start" => CaughtUp)
=============================================================================
