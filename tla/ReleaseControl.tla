----------------------------- MODULE ReleaseControl -----------------------------
(***************************************************************************)
(* The release that runs, and the change from one to the next              *)
(* (entrypoints/cli/release_commands.py: operate_release;                  *)
(* governance/release/deployment.py).                                      *)
(*                                                                         *)
(* Each invocation of operate_release is a supervisor process: under the   *)
(* cutover lock it checks the record of the release that runs, stops its   *)
(* supervisor, takes the writer lock, starts its own group of services,    *)
(* and falls back to the release it replaced when they do not become       *)
(* ready.  It then watches them, and recovers once, to the same release.   *)
(* A service is a process in a session of its own: it survives a           *)
(* supervisor that is killed.  A lock does not.                            *)
(***************************************************************************)
EXTENDS Integers, FiniteSets

CONSTANTS Supervisors,  \* invocations of operate_release
          Releases,     \* what they are asked to run
          NoRelease, Nobody,
          MaxKills      \* bound of the supervisors killed

ASSUME ReleaseAssumption ==
    NoRelease \notin Releases /\ Nobody \notin Supervisors /\ MaxKills \in Nat

VARIABLES sup,       \* supervisor -> where it is, what it runs, what it would fall back
                     \* to (back, then spare), whether it still may, was ready, must stop
          record,    \* active-release.json
          cutover,   \* who holds the cutover lock
          writer,    \* who holds the writer lock
          groups,    \* the groups of service processes that run
          lost,      \* those whose supervisor was killed and that nobody looks for
          kills

releaseVars == <<sup, record, cutover, writer, groups, lost, kills>>

Group    == [by : Supervisors, of : Releases, try : 1..3]
Statuses == {"STARTING", "READY", "STOPPING", "FAILED"}

RecordRow ==
    [status : Statuses \cup {"none"}, unit : Releases \cup {NoRelease},
     back : Releases \cup {NoRelease}, by : Supervisors \cup {Nobody}, pids : SUBSET Group]

NoRecord == [status |-> "none", unit |-> NoRelease, back |-> NoRelease,
             by |-> Nobody, pids |-> {}]

Stages == {"idle", "checking", "signalling", "waiting", "leasing", "launching", "launched",
           "starting", "retreating", "ready", "closing", "ended", "killed"}

SupRow ==
    [at : Stages, unit : Releases \cup {NoRelease}, back : Releases \cup {NoRelease},
     spare : Releases \cup {NoRelease}, try : 1..3, may : BOOLEAN, was : BOOLEAN,
     stop : BOOLEAN, seen : RecordRow]

ReleaseTypeOK ==
    /\ sup \in [Supervisors -> SupRow]
    /\ record \in RecordRow /\ (record # NoRecord => record.back # record.unit)
    /\ {cutover, writer} \subseteq Supervisors \cup {Nobody}
    /\ lost \subseteq groups /\ groups \subseteq Group /\ kills \in 0..MaxKills

ReleaseInit ==
    /\ sup = [s \in Supervisors |->
                 [at |-> "idle", unit |-> NoRelease, back |-> NoRelease, spare |-> NoRelease,
                  try |-> 1, may |-> TRUE, was |-> FALSE, stop |-> FALSE,
                  seen |-> NoRecord]]
    /\ record = NoRecord /\ cutover = Nobody /\ writer = Nobody
    /\ groups = {} /\ lost = {} /\ kills = 0

At(s, stage)  == sup[s].at = stage
Exists(s)     == s # Nobody /\ sup[s].at \notin {"idle", "ended", "killed"}
Mine(s)       == {g \in groups : g.by = s}
Freed(lock, s) == IF lock = s THEN Nobody ELSE lock
Moves(s, stage) == sup' = [sup EXCEPT ![s].at = stage]

\* The state file as s would write it now.
Recorded(s, status) ==
    [status |-> status, unit |-> sup[s].unit, back |-> sup[s].back, by |-> s, pids |-> Mine(s)]

\* s gives up or is done: its locks go with it.
Ends(s) ==
    /\ sup' = [sup EXCEPT ![s].at = "ended", ![s].seen = NoRecord]
    /\ cutover' = Freed(cutover, s) /\ writer' = Freed(writer, s)

-----------------------------------------------------------------------------
(* The cutover.                                                            *)

\* The cutover lock is not waited for.
Invoke(s, r) ==
    /\ At(s, "idle")
    /\ IF cutover = Nobody
       THEN /\ sup' = [sup EXCEPT ![s].at = "checking", ![s].unit = r]
            /\ cutover' = s
       ELSE Moves(s, "ended") /\ UNCHANGED cutover
    /\ UNCHANGED <<record, writer, groups, lost, kills>>

SafeToReplace(cur)  == Exists(cur.by) /\ writer # Nobody

\* Mutant of StoppedEntirely: its services are not looked for.
StoppedItself(cur)   == ~Exists(cur.by)
StoppedEntirely(cur) == ~Exists(cur.by) /\ groups \cap cur.pids = {}

MayRecover(cur) == StoppedEntirely(cur) /\ cur.back # NoRelease

\* What a release is replaced by when it fails; never by itself.
BackFrom(unit, r) == IF r = unit THEN NoRelease ELSE r

\* The record decides: a ready release is replaced, an interrupted one
\* recovered if nothing of it runs and it names what to fall back to.
CheckRecord(s) ==
    /\ At(s, "checking")
    /\ \/ /\ record = NoRecord
          /\ Moves(s, "leasing") /\ UNCHANGED <<cutover, writer>>
       \/ /\ record.status = "READY" /\ SafeToReplace(record)
          /\ sup' = [sup EXCEPT ![s].at = "signalling", ![s].seen = record,
                                ![s].back = BackFrom(sup[s].unit, record.unit),
                                ![s].spare = record.back]
          /\ UNCHANGED <<cutover, writer>>
       \/ /\ record.status \in Statuses \ {"READY"} /\ MayRecover(record)
          /\ sup' = [sup EXCEPT ![s].at = "leasing",
                                ![s].back = BackFrom(sup[s].unit, record.back)]
          /\ UNCHANGED <<cutover, writer>>
    /\ UNCHANGED <<record, groups, lost, kills>>

\* Anything else, an unhealthy release, or a candidate that does not pass.
Refuse(s) ==
    /\ At(s, "checking")
    /\ Ends(s)
    /\ UNCHANGED <<record, groups, lost, kills>>

SignalPrevious(s) ==
    /\ At(s, "signalling")
    /\ IF Exists(sup[s].seen.by)
       THEN sup' = [sup EXCEPT ![s].at = "waiting", ![sup[s].seen.by].stop = TRUE]
            /\ UNCHANGED <<cutover, writer>>
       ELSE Ends(s)
    /\ UNCHANGED <<record, groups, lost, kills>>

PreviousStopped(s) ==
    /\ At(s, "waiting") /\ StoppedEntirely(sup[s].seen)
    /\ sup' = [sup EXCEPT ![s].at = "leasing", ![s].seen = NoRecord]
    /\ UNCHANGED <<record, cutover, writer, groups, lost, kills>>

\* Not within its 30 seconds.
PreviousStays(s) ==
    /\ At(s, "waiting") /\ ~StoppedEntirely(sup[s].seen)
    /\ Ends(s)
    /\ UNCHANGED <<record, groups, lost, kills>>

TakeWriter(s) ==
    /\ At(s, "leasing") /\ writer = Nobody
    /\ writer' = s /\ Moves(s, "launching")
    /\ UNCHANGED <<record, cutover, groups, lost, kills>>

-----------------------------------------------------------------------------
(* The services.                                                           *)

\* The processes start...
Launch(s) ==
    /\ At(s, "launching")
    /\ groups' = groups \cup {[by |-> s, of |-> sup[s].unit, try |-> sup[s].try]}
    /\ Moves(s, "launched")
    /\ UNCHANGED <<record, cutover, writer, lost, kills>>

\* ... and are recorded.
RecordStarting(s) ==
    /\ At(s, "launched")
    /\ record' = Recorded(s, "STARTING") /\ Moves(s, "starting")
    /\ UNCHANGED <<cutover, writer, groups, lost, kills>>

\* Ready: the cutover is over.
BecomeReady(s) ==
    /\ At(s, "starting")
    /\ record' = Recorded(s, "READY")
    /\ sup' = [sup EXCEPT ![s].at = "ready", ![s].was = TRUE, ![s].may = @ \/ ~sup[s].was]
    /\ cutover' = Freed(cutover, s)
    /\ UNCHANGED <<writer, groups, lost, kills>>

\* A service exits, or the group is not ready in time.
StartFails(s) ==
    /\ At(s, "starting")
    /\ record' = Recorded(s, "FAILED") /\ Moves(s, "retreating")
    /\ UNCHANGED <<cutover, writer, groups, lost, kills>>

ServiceExits(s) ==
    /\ At(s, "ready")
    /\ record' = Recorded(s, "FAILED")
    /\ Moves(s, IF sup[s].may THEN "retreating" ELSE "closing")
    /\ UNCHANGED <<cutover, writer, groups, lost, kills>>

\* The group stops whole; then the release it replaced starts, once during
\* the cutover and once after it.
Retreat(s) ==
    /\ At(s, "retreating")
    /\ groups' = groups \ Mine(s)
    /\ IF ~sup[s].may \/ sup[s].back = NoRelease THEN Ends(s)
       ELSE /\ sup' = [sup EXCEPT ![s].at = "launching", ![s].try = @ + 1, ![s].may = FALSE,
                                  ![s].unit = sup[s].back,
                                  ![s].back = BackFrom(sup[s].back, sup[s].spare)]
            /\ UNCHANGED <<cutover, writer>>
    /\ UNCHANGED <<record, lost, kills>>

\* A planned stop is seen only while ready.
StopPlanned(s) ==
    /\ At(s, "ready") /\ sup[s].stop
    /\ record' = Recorded(s, "STOPPING") /\ Moves(s, "closing")
    /\ UNCHANGED <<cutover, writer, groups, lost, kills>>

Close(s) ==
    /\ At(s, "closing")
    /\ groups' = groups \ Mine(s)
    /\ Ends(s)
    /\ UNCHANGED <<record, lost, kills>>

-----------------------------------------------------------------------------
(* The environment.                                                        *)

\* An operator stops the release that runs.
Terminate(s) ==
    /\ Exists(s) /\ ~sup[s].stop
    /\ sup' = [sup EXCEPT ![s].stop = TRUE]
    /\ UNCHANGED <<record, cutover, writer, groups, lost, kills>>

\* A candidate waits for the processes of the record it read: a group that
\* its predecessor recovered to since is not among them.
Overlooked(s, g) ==
    \E c \in Supervisors : At(c, "waiting") /\ sup[c].seen.by = s /\ g \notin sup[c].seen.pids

Kill(s) ==
    /\ Exists(s) /\ kills < MaxKills
    /\ kills' = kills + 1
    /\ sup' = [sup EXCEPT ![s].at = "killed", ![s].seen = NoRecord]
    /\ cutover' = Freed(cutover, s) /\ writer' = Freed(writer, s)
    /\ lost' = lost \cup {g \in Mine(s) : g \notin record.pids \/ Overlooked(s, g)}
    /\ UNCHANGED <<record, groups>>

\* What outlived its supervisor ends some day.
OrphanEnds(g) ==
    /\ g \in groups /\ ~Exists(g.by)
    /\ groups' = groups \ {g} /\ lost' = lost \ {g}
    /\ UNCHANGED <<sup, record, cutover, writer, kills>>

ReleaseNext ==
    \/ \E s \in Supervisors :
          \/ \E r \in Releases : Invoke(s, r)
          \/ CheckRecord(s) \/ Refuse(s) \/ SignalPrevious(s) \/ PreviousStopped(s)
          \/ PreviousStays(s) \/ TakeWriter(s) \/ Launch(s) \/ RecordStarting(s)
          \/ BecomeReady(s) \/ StartFails(s) \/ ServiceExits(s) \/ Retreat(s)
          \/ StopPlanned(s) \/ Close(s) \/ Terminate(s) \/ Kill(s)
    \/ \E g \in groups : OrphanEnds(g)

ReleaseSpec == ReleaseInit /\ [][ReleaseNext]_releaseVars

-----------------------------------------------------------------------------
(* Properties.                                                             *)

\* One group of services writes at any time, whatever supervisors are
\* invoked, stopped and killed, if what a killed one left is looked for
\* (release_commands.py refuses to recover beside a living process).
OneRecordedGroup == lost = {} => Cardinality(groups) <= 1

\* The same without that condition (docs/ARCHITECTURE.md: one group of
\* writers at any time).  It fails: start_core comes before the record.
OneWriterGroup == Cardinality(groups) <= 1

-----------------------------------------------------------------------------
(* Why one group writes: the inductive invariant of these properties.      *)

Replacing == {"checking", "signalling", "waiting", "leasing"}
Serving   == {"launched", "starting", "retreating", "ready", "closing"}
Writing   == Serving \cup {"launching"}

\* Each lock is held by who needs it, and a fresh invocation holds none.
LocksHeld ==
    \A s \in Supervisors :
        /\ sup[s].at \in Replacing => cutover = s
        /\ cutover = s => sup[s].at \in Replacing \cup Writing /\ ~sup[s].was
        /\ sup[s].at \in Writing <=> writer = s
        /\ sup[s].at \in Writing /\ ~sup[s].was => cutover = s
        /\ At(s, "idle") => ~sup[s].was

\* How often a supervisor still falls back, and to what.
FallsBackTwice ==
    \A s \in Supervisors :
        /\ At(s, "idle") => sup[s].back = NoRelease /\ sup[s].may /\ sup[s].try = 1
        /\ Exists(s) => sup[s].unit \in Releases /\ sup[s].back # sup[s].unit
        /\ sup[s].may \/ ~sup[s].was => sup[s].try <= 2
        /\ sup[s].may /\ ~sup[s].was => sup[s].try = 1

\* The record names the writer, once that has written it, and one group.
RecordIsTheWriters ==
    /\ \A s \in Supervisors :
          writer = s /\ (sup[s].was \/ sup[s].at \notin {"launching", "launched"})
             => record.by = s
    /\ record.by = Nobody => record = NoRecord
    /\ \A g \in record.pids : g.by = record.by
    /\ \A g, h \in record.pids : g = h

\* A candidate on its way in: who writes is whom it read of, then nobody.
PredecessorIsKnown ==
    \A c \in Supervisors :
        /\ sup[c].at \in {"signalling", "waiting"} =>
               /\ sup[c].seen.by = record.by /\ record.by # Nobody
               /\ writer \in {Nobody, record.by}
        /\ At(c, "leasing") => writer = Nobody

\* A living group is its supervisor's present one.  One that outlived its
\* supervisor is recorded and waited for until somebody may write again.
GroupsAreKnown ==
    /\ \A g \in groups :
          /\ sup[g.by].at \in Serving \cup {"killed"}
          /\ ~At(g.by, "killed") => g.of = sup[g.by].unit /\ g.try = sup[g.by].try
    /\ \A g \in lost : At(g.by, "killed")
    /\ \A g \in groups \ lost : At(g.by, "killed") =>
          /\ g \in record.pids /\ writer = Nobody
          /\ \A c \in Supervisors :
                ~At(c, "leasing") /\ (At(c, "waiting") => g \in sup[c].seen.pids)

ReleaseInvariant ==
    /\ ReleaseTypeOK /\ LocksHeld /\ FallsBackTwice /\ RecordIsTheWriters
    /\ PredecessorIsKnown /\ GroupsAreKnown

=============================================================================
