-------------------------- MODULE IncidentBuilder ---------------------------
(***************************************************************************)
(* Building evidence bundles (blackboxrs/incident/builder.py, bundle.py,   *)
(* recurrence.py, core/signatures/).  "blackboxrs incident build" is a     *)
(* process of its own: builds of the same or of other windows may run side *)
(* by side, each may die between two file operations, the daemon goes on   *)
(* rotating the log meanwhile, and the robot may be upgraded between two   *)
(* builds.  A bundle is a directory of files; opening one for writing      *)
(* truncates it.                                                           *)
(*                                                                         *)
(* Abstractions.  A complete file is the number of the build that wrote    *)
(* it.  The files that nothing but the report reads (events.jsonl,         *)
(* snapshots.json, diff.json, timeline.json) are left out.  A scan of the  *)
(* incidents directory is one step: builds that run meanwhile change one   *)
(* bundle each.  The log only loses old events, for the windows that are   *)
(* built are over.                                                         *)
(***************************************************************************)
EXTENDS CauseRanking

CONSTANTS
    Logs,           \* event logs
    Windows,        \* records [start, end]
    Toolchains,     \* what the signatures are taken from
    Queries,        \* version queries that can fail
    Here, Other,    \* host names
    Absent, Torn,   \* a file not there, or truncated
    Installed,      \* the toolchain at first
    Contended,      \* bound: logs with more than one build
    Existing,       \* bound: window and host of the bundle those have at first
    MaxBuilds,      \* bound: builds, and the bundle there is at first
    MaxFaults       \* bound: builds that die, queries that fail, events
                    \* the log loses, and upgrades

\* What the logs are made of: the schema of an event, and the severity of
\* every alarm is one of those the ranking knows.
Events == UNION {Range(events) : events \in Logs}

IsEvent(e) ==
    /\ e = [t |-> e.t, type |-> e.type, subject |-> e.subject, value |-> e.value,
            class |-> e.class, severity |-> e.severity, session |-> e.session]
    /\ e.t \in Int
    /\ e.type = "anomaly" => e.severity \in DOMAIN SeverityRank

ASSUME IncidentBuilderAssumption ==
    /\ Logs \subseteq Seq(Events) /\ \A e \in Events : IsEvent(e)
    /\ Windows \subseteq [start : Int, end : Int]
    /\ Contended \subseteq Logs /\ Installed \in Toolchains
    /\ Existing \subseteq [window : Windows, host : {Here, Other}]
    /\ MaxBuilds \in Nat \ {0} /\ MaxFaults \in Nat
    /\ Absent \notin Nat /\ Torn \notin Nat /\ Absent # Torn

\* In the order build() writes them.
FileOrder == <<"triggers.json", "config.json", "versions.json", "fingerprint.json",
               "incident.json", "report.md">>
Files == Range(FileOrder)

VARIABLES
    log,        \* the events in the log directory, in file order
    toolchain,  \* what the robot is configured with and runs
    store,      \* the incidents directory: file contents by bundle id
    built,      \* every build() so far, a record each
    faults      \* builds dead, queries failed, events lost and upgrades so far

buildVars == <<log, toolchain, store, built, faults>>

\* LogReader.read_all(start, end): the events of the window, in file order.
Slice(events, w) ==
    LET kept  == {i \in DOMAIN events : w.start <= events[i].t /\ events[i].t <= w.end}
        first == AntiFunction([i \in kept |-> Cardinality(kept \cap 1 .. i)])
    IN  [n \in DOMAIN first |-> events[first[n]]]

\* _session_from_events
Session(events) ==
    LET named == {i \in DOMAIN events : events[i].session # None}
    IN  IF named = {} THEN "unknown" ELSE events[CHOOSE i \in named : \A j \in named : i <= j].session

\* _make_incident_id
IncidentId(w, session, host) == <<w.start, session, host>>

\* VersionSignatureCollector: a query that fails leaves its key empty.
Versions(tools, failing) ==
    [k \in DOMAIN tools.versions |-> IF k \in failing THEN None ELSE tools.versions[k]]

\* With ConfigSignatureCollector, which reads the environment.
Collected(tools, failing) ==
    [config |-> tools.config, versions |-> Versions(tools, failing)]

\* What build() has in memory before it looks at other bundles.
Build(w, host, sig) ==
    LET events == Slice(log, w)
    IN  [id |-> IncidentId(w, Session(events), host), window |-> w, host |-> host,
         events |-> events, sig |-> sig, fingerprint |-> Fingerprint(events, w),
         pc |-> "scan", step |-> 1, best |-> None, baseline |-> None, prior |-> {},
         causes |-> <<>>]

\* The bundle there is at first: an earlier one, or one of another robot.
Complete == [file \in Files |-> 1]

Init ==
    /\ log \in Logs
    /\ toolchain = Installed
    /\ faults = 0
    /\ IF log \notin Contended THEN built = <<>> /\ store = <<>>
       ELSE \E e \in Existing :
            LET b == Build(e.window, e.host, Collected(toolchain, {}))
            IN  built = <<[b EXCEPT !.pc = "done"]>> /\ store = [id \in {b.id} |-> Complete]

Alive(n) == built[n].pc \notin {"done", "dead"}
Running == {n \in DOMAIN built : Alive(n)}

\* build() up to the BundleWriter, which creates the directory.
Begin(w, failing) ==
    LET b == Build(w, Here, Collected(toolchain, failing))
    IN  /\ Len(built) < IF log \in Contended THEN MaxBuilds ELSE 1
        /\ Cardinality(Running) < 2
        /\ failing # {} => faults < MaxFaults
        /\ built' = Append(built, b)
        /\ store' = [id \in DOMAIN store \cup {b.id} |->
                        IF id \in DOMAIN store THEN store[id] ELSE [file \in Files |-> Absent]]
        /\ faults' = IF failing = {} THEN faults ELSE faults + 1
        /\ UNCHANGED <<log, toolchain>>

Readable(id, file) == store[id][file] \in Nat
The(id, file) == built[store[id][file]]

\* A bug: bundles of any time are taken for earlier.
EarlierByAnyTime(n, id) ==
    /\ id # built[n].id
    /\ Readable(id, "incident.json")
    /\ The(id, "incident.json").host = Here

\* A bundle of this robot whose window ended before the build's began.
\* What is unreadable is skipped.
IsEarlier(n, id) ==
    /\ id # built[n].id
    /\ Readable(id, "incident.json")
    /\ The(id, "incident.json").host = Here
    /\ The(id, "incident.json").window.end < built[n].window.start

\* _load_prior_signatures chooses the latest of them (of two that end at the
\* same time the first by name; here, either)...
Scan(n) ==
    /\ built[n].pc = "scan"
    /\ LET earlier == {id \in DOMAIN store : IsEarlier(n, id)}
           end(id) == The(id, "incident.json").window.end
       IN  \E best \in IF earlier = {} THEN {None} ELSE earlier :
            /\ \A id \in earlier : end(id) <= end(best)
            /\ built' = [built EXCEPT ![n].pc = "load", ![n].best = best]
    /\ UNCHANGED <<log, toolchain, store, faults>>

\* ...and reads its signatures; if it cannot, there is no baseline.
LoadBaseline(n) ==
    /\ built[n].pc = "load"
    /\ LET best == built[n].best
       IN  built' = [built EXCEPT ![n].pc = "rank", ![n].baseline =
            IF best # None /\ Readable(best, "config.json") /\ Readable(best, "versions.json")
            THEN [config   |-> The(best, "config.json").sig.config,
                  versions |-> The(best, "versions.json").sig.versions,
                  from     |-> {store[best]["config.json"], store[best]["versions.json"]}]
            ELSE None]
    /\ UNCHANGED <<log, toolchain, store, faults>>

\* A bug: the walk ends at the first bundle that cannot be read.
MatchesUntilUnreadable(n) ==
    IF \A id \in DOMAIN store \ {built[n].id} : Readable(id, "fingerprint.json")
    THEN {id \in DOMAIN store : /\ IsEarlier(n, id)
                                /\ The(id, "fingerprint.json").fingerprint = built[n].fingerprint}
    ELSE {}

\* FingerprintIndex.lookup
Matches(n) ==
    {id \in DOMAIN store :
        /\ IsEarlier(n, id)
        /\ Readable(id, "fingerprint.json")
        /\ The(id, "fingerprint.json").fingerprint = built[n].fingerprint}

\* The recurrence lookup and the ranking.
RankCauses(n) ==
    /\ built[n].pc = "rank"
    /\ LET b == built[n]
       IN  built' = [built EXCEPT ![n].pc = "open", ![n].prior = Matches(n),
            ![n].causes = Rank(b.events, Timeline(b.events, b.window), b.baseline, b.sig,
                               Matches(n))]
    /\ UNCHANGED <<log, toolchain, store, faults>>

\* A bug: the incident is written first.
IncidentFirst(n) == (<<"incident.json">> \o FileOrder)[built[n].step]

\* The file a build is at.
NextFile(n) == FileOrder[built[n].step]

\* What render() reads; an absent signature, timeline or trigger file is
\* put up with, a torn one raises.
Rendered == Files \ {"report.md"}

\* open(..., "w"), for the report after it has been rendered...
Open(n) ==
    /\ built[n].pc = "open"
    /\ NextFile(n) = "report.md" => \A file \in Rendered : store[built[n].id][file] # Torn
    /\ store' = [store EXCEPT ![built[n].id][NextFile(n)] = Torn]
    /\ built' = [built EXCEPT ![n].pc = "fill"]
    /\ UNCHANGED <<log, toolchain, faults>>

\* render() raises: no report.
RenderFails(n) ==
    /\ built[n].pc = "open"
    /\ NextFile(n) = "report.md"
    /\ \E file \in Rendered : store[built[n].id][file] = Torn
    /\ built' = [built EXCEPT ![n].pc = "dead"]
    /\ UNCHANGED <<log, toolchain, store, faults>>

\* ...and the content.  Two builds of one bundle that have the file open at
\* the same time write over each other.
Fill(n) ==
    /\ built[n].pc = "fill"
    /\ \E content \in IF store[built[n].id][NextFile(n)] = Torn THEN {n} ELSE {n, Torn} :
        store' = [store EXCEPT ![built[n].id][NextFile(n)] = content]
    /\ built' = [built EXCEPT ![n].pc = IF built[n].step = Len(FileOrder) THEN "done" ELSE "open",
                              ![n].step = IF @ = Len(FileOrder) THEN @ ELSE @ + 1]
    /\ UNCHANGED <<log, toolchain, faults>>

\* The process dies.
Die(n) ==
    /\ Alive(n)
    /\ faults < MaxFaults
    /\ faults' = faults + 1
    /\ built' = [built EXCEPT ![n].pc = "dead"]
    /\ UNCHANGED <<log, toolchain, store>>

\* Retention deletes the oldest events.
LoseOldest ==
    /\ faults < MaxFaults /\ log \in Contended /\ log # <<>>
    /\ faults' = faults + 1
    /\ log' = Tail(log)
    /\ UNCHANGED <<toolchain, store, built>>

\* The robot gets other software or settings.
Upgrade ==
    /\ faults < MaxFaults /\ log \in Contended
    /\ faults' = faults + 1
    /\ toolchain' \in Toolchains \ {toolchain}
    /\ UNCHANGED <<log, store, built>>

BuildStep(n) ==
    \/ Scan(n) \/ LoadBaseline(n) \/ RankCauses(n)
    \/ Open(n) \/ RenderFails(n) \/ Fill(n) \/ Die(n)

BuildNext ==
    \/ \E w \in Windows, failing \in SUBSET Queries : Begin(w, failing)
    \/ \E n \in DOMAIN built : BuildStep(n)
    \/ LoseOldest \/ Upgrade
=============================================================================
