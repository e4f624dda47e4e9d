----------------------------- MODULE ControlProofs -----------------------------
(* Theorems about what controls the machine and the capital, each for every  *)
(* value of its constants.                                                   *)
EXTENDS ReleaseControl, ProductForecast, PortfolioChoice, FrozenHistory,
        CapitalIncrement,
        FiniteSetTheorems, WellFoundedInduction, TLAPS

-----------------------------------------------------------------------------
(* ReleaseControl.                                                           *)

\* Who holds a lock is no longer new, and the stages are different names.
LEMMA NoRecordType == NoRecord \in RecordRow /\ NoRecord.by = Nobody /\ NoRecord.pids = {}
BY DEF NoRecord, RecordRow

\* The invariant says these of each supervisor; citing it once keeps the
\* steps below small.
LEMMA SupervisorFacts ==
    ASSUME ReleaseInvariant, NEW s \in Supervisors
    PROVE  /\ sup[s] \in SupRow /\ s # Nobody
           /\ sup[s].seen \in RecordRow /\ sup[s].at \in Stages /\ sup[s].try \in 1..3
BY ReleaseAssumption DEF ReleaseInvariant, ReleaseTypeOK, SupRow

\* Nothing lives before the first invocation.
LEMMA ReleaseInitSafe == ReleaseInit => ReleaseInvariant
<1>. SUFFICES ASSUME ReleaseInit PROVE ReleaseInvariant
  OBVIOUS
<1>. USE ReleaseAssumption, NoRecordType DEF ReleaseInit
<1>1. ReleaseTypeOK
  BY DEF ReleaseTypeOK, SupRow, Stages
<1>2. LocksHeld
  BY DEF LocksHeld, Replacing, Serving, Writing
<1>3. FallsBackTwice
  BY DEF FallsBackTwice, At, Exists
<1>4. RecordIsTheWriters
  BY DEF RecordIsTheWriters
<1>5. PredecessorIsKnown
  BY DEF PredecessorIsKnown, At
<1>6. GroupsAreKnown
  BY DEF GroupsAreKnown
<1>7. QED
  BY <1>1, <1>2, <1>3, <1>4, <1>5, <1>6 DEF ReleaseInvariant

\* A living supervisor that holds the cutover without the writer lock is alone
\* in replacing, and the writer, if any, was ready and is the record's.
LEMMA ReplacingAlone ==
    ASSUME ReleaseInvariant, NEW s \in Supervisors, sup[s].at \in Replacing
    PROVE  /\ cutover = s
           /\ \A c \in Supervisors \ {s} : sup[c].at \notin Replacing
           /\ \A c \in Supervisors : writer = c =>
                 sup[c].was /\ record.by = c /\ c # s
BY DEF ReleaseInvariant, LocksHeld, RecordIsTheWriters, Replacing, Serving, Writing

\* An invocation takes the cutover lock or gives up.
LEMMA InvokeSafe ==
    ASSUME ReleaseInvariant, NEW s \in Supervisors, NEW r \in Releases, Invoke(s, r)
    PROVE  ReleaseInvariant'
<1>. USE ReleaseAssumption
<1>1. /\ sup[s].at = "idle" /\ sup \in [Supervisors -> SupRow]
      /\ UNCHANGED <<record, writer, groups, lost, kills>>
  BY DEF Invoke, At, ReleaseInvariant, ReleaseTypeOK
<1>2. CASE cutover = Nobody
  <2>1. /\ sup' = [sup EXCEPT ![s].at = "checking", ![s].unit = r] /\ cutover' = s
    BY <1>2 DEF Invoke
  <2>2. /\ \A c \in Supervisors \ {s} : sup'[c] = sup[c]
        /\ sup'[s].at = "checking" /\ sup'[s].unit = r /\ sup'[s].back = sup[s].back
        /\ sup'[s].may = sup[s].may /\ sup'[s].was = sup[s].was /\ sup'[s].try = sup[s].try
        /\ sup'[s].seen = sup[s].seen /\ sup' \in [Supervisors -> SupRow]
    <3>1. PICK row : row = [sup[s] EXCEPT !.at = "checking", !.unit = r]
      OBVIOUS
    <3>2. sup[s] \in SupRow
      BY <1>1
    <3>3. /\ row \in SupRow /\ row.at = "checking" /\ row.unit = r /\ row.back = sup[s].back
          /\ row.may = sup[s].may /\ row.was = sup[s].was /\ row.try = sup[s].try
          /\ row.seen = sup[s].seen
      BY <3>1, <3>2 DEF SupRow, Stages
    <3>4. sup' = [sup EXCEPT ![s] = row]
      BY <1>1, <2>1, <3>1
    <3>5. QED
      BY <1>1, <3>3, <3>4
  <2>3. ReleaseTypeOK'
    BY <1>1, <2>1, <2>2 DEF ReleaseInvariant, ReleaseTypeOK
  <2>4. LocksHeld'
    BY <1>1, <1>2, <2>1, <2>2 DEF ReleaseInvariant, LocksHeld, At, Replacing, Serving, Writing
  <2>5. FallsBackTwice'
    BY <1>1, <2>2 DEF ReleaseInvariant, FallsBackTwice, At, Exists
  <2>6. RecordIsTheWriters'
    BY <1>1, <2>2 DEF ReleaseInvariant, RecordIsTheWriters, LocksHeld, Serving, Writing
  <2>7. PredecessorIsKnown'
    BY <1>1, <2>2 DEF ReleaseInvariant, PredecessorIsKnown, At
  <2>8. GroupsAreKnown'
    BY <1>1, <2>2 DEF ReleaseInvariant, GroupsAreKnown, At, Serving, ReleaseTypeOK, Group
  <2>9. QED
    BY <2>3, <2>4, <2>5, <2>6, <2>7, <2>8 DEF ReleaseInvariant
<1>3. CASE cutover # Nobody
  <2>1. /\ sup' = [sup EXCEPT ![s].at = "ended"] /\ cutover' = cutover
    BY <1>3 DEF Invoke, Moves
  <2>2. /\ \A c \in Supervisors \ {s} : sup'[c] = sup[c]
        /\ sup'[s].at = "ended" /\ sup'[s].unit = sup[s].unit /\ sup'[s].back = sup[s].back
        /\ sup'[s].may = sup[s].may /\ sup'[s].was = sup[s].was /\ sup'[s].try = sup[s].try
        /\ sup'[s].seen = sup[s].seen /\ sup' \in [Supervisors -> SupRow]
    BY <1>1, <2>1 DEF SupRow, Stages
  <2>3. ReleaseTypeOK'
    BY <1>1, <2>1, <2>2 DEF ReleaseInvariant, ReleaseTypeOK
  <2>4. LocksHeld'
    BY <1>1, <2>1, <2>2 DEF ReleaseInvariant, LocksHeld, At, Replacing, Serving, Writing
  <2>5. FallsBackTwice'
    BY <1>1, <2>2 DEF ReleaseInvariant, FallsBackTwice, At, Exists
  <2>6. RecordIsTheWriters'
    BY <1>1, <2>2 DEF ReleaseInvariant, RecordIsTheWriters, LocksHeld, Serving, Writing
  <2>7. PredecessorIsKnown'
    BY <1>1, <2>2 DEF ReleaseInvariant, PredecessorIsKnown, At
  <2>8. GroupsAreKnown'
    BY <1>1, <2>2 DEF ReleaseInvariant, GroupsAreKnown, At, Serving, ReleaseTypeOK, Group
  <2>9. QED
    BY <2>3, <2>4, <2>5, <2>6, <2>7, <2>8 DEF ReleaseInvariant
<1>4. QED
  BY <1>2, <1>3

\* A candidate that gives up before it writes leaves everything as it was.
LEMMA GivingUpSafe ==
    ASSUME ReleaseInvariant, NEW s \in Supervisors, sup[s].at \in Replacing, Ends(s),
           UNCHANGED <<record, groups, lost, kills>>
    PROVE  ReleaseInvariant'
<1>. USE ReleaseAssumption
<1>1. sup \in [Supervisors -> SupRow] /\ cutover = s /\ writer # s
  BY ReplacingAlone DEF ReleaseInvariant, ReleaseTypeOK
<1>2. cutover' = Nobody /\ writer' = writer
  BY <1>1 DEF Ends, Freed
<1>3. /\ \A c \in Supervisors \ {s} : sup'[c] = sup[c]
      /\ sup'[s].at = "ended" /\ sup'[s].may = sup[s].may /\ sup'[s].was = sup[s].was
      /\ sup'[s].try = sup[s].try /\ sup' \in [Supervisors -> SupRow]
  <2>1. PICK row : row = [sup[s] EXCEPT !.at = "ended", !.seen = NoRecord]
    OBVIOUS
  <2>2. sup[s] \in SupRow
    BY <1>1
  <2>3. /\ row \in SupRow /\ row.at = "ended" /\ row.may = sup[s].may
        /\ row.was = sup[s].was /\ row.try = sup[s].try
    BY <2>1, <2>2, NoRecordType DEF SupRow, Stages
  <2>4. sup' = [sup EXCEPT ![s] = row]
    BY <1>1, <2>1 DEF Ends
  <2>5. QED
    BY <1>1, <2>3, <2>4
<1>4. ReleaseTypeOK'
  BY <1>2, <1>3 DEF ReleaseInvariant, ReleaseTypeOK
<1>5. LocksHeld'
  BY <1>1, <1>2, <1>3 DEF ReleaseInvariant, LocksHeld, At, Replacing, Serving, Writing
<1>6. FallsBackTwice'
  BY <1>3 DEF ReleaseInvariant, FallsBackTwice, At, Exists
<1>7. RecordIsTheWriters'
  BY <1>1, <1>2, <1>3 DEF ReleaseInvariant, RecordIsTheWriters
<1>8. PredecessorIsKnown'
  BY <1>2, <1>3 DEF ReleaseInvariant, PredecessorIsKnown, At
<1>9. GroupsAreKnown'
  BY <1>2, <1>3 DEF ReleaseInvariant, GroupsAreKnown, At, Serving, Replacing,
                    ReleaseTypeOK, Group
<1>10. QED
  BY <1>4, <1>5, <1>6, <1>7, <1>8, <1>9 DEF ReleaseInvariant

\* A release is admitted beside the writer it read of, or when nobody writes
\* and nothing of the recorded group is left.
LEMMA CheckRecordSafe ==
    ASSUME ReleaseInvariant, NEW s \in Supervisors, CheckRecord(s)
    PROVE  ReleaseInvariant'
<1>. USE ReleaseAssumption
<1>1. /\ sup[s].at = "checking" /\ sup \in [Supervisors -> SupRow] /\ record \in RecordRow
      /\ UNCHANGED <<record, cutover, writer, groups, lost, kills>>
  BY DEF CheckRecord, At, ReleaseInvariant, ReleaseTypeOK
<1>2. /\ cutover = s /\ \A c \in Supervisors \ {s} : sup[c].at \notin Replacing
      /\ \A c \in Supervisors : writer = c => record.by = c /\ c # s
  BY <1>1, ReplacingAlone DEF Replacing
<1>3. /\ writer \in Supervisors \cup {Nobody}
      /\ \A c \in Supervisors : writer = c => Exists(c)
  BY DEF ReleaseInvariant, ReleaseTypeOK, LocksHeld, Serving, Writing, Exists
<1>4. sup[s].unit \in Releases /\ sup[s].back # sup[s].unit
  BY <1>1 DEF ReleaseInvariant, FallsBackTwice, Exists
<1>. DEFINE Admitted(stage) ==
        /\ \A c \in Supervisors \ {s} : sup'[c] = sup[c]
        /\ sup'[s].at = stage /\ sup'[s].unit = sup[s].unit /\ sup'[s].back # sup[s].unit
        /\ sup'[s].may = sup[s].may /\ sup'[s].was = sup[s].was /\ sup'[s].try = sup[s].try
        /\ sup' \in [Supervisors -> SupRow]
<1>5. ASSUME NEW stage \in {"signalling", "leasing"}, Admitted(stage),
             stage = "leasing" => writer = Nobody /\ groups \cap record.pids = {},
             stage = "signalling" => writer = record.by /\ sup'[s].seen = record
                                     /\ record.by # Nobody
      PROVE  ReleaseInvariant'
  <2>1. ReleaseTypeOK'
    BY <1>1, <1>5 DEF ReleaseInvariant, ReleaseTypeOK
  <2>2. LocksHeld'
    BY <1>1, <1>2, <1>5 DEF ReleaseInvariant, LocksHeld, At, Replacing, Serving, Writing
  <2>3. FallsBackTwice'
    BY <1>1, <1>4, <1>5 DEF ReleaseInvariant, FallsBackTwice, At, Exists
  <2>4. RecordIsTheWriters'
    BY <1>1, <1>2, <1>5 DEF ReleaseInvariant, RecordIsTheWriters
  <2>5. PredecessorIsKnown'
    BY <1>1, <1>2, <1>5 DEF ReleaseInvariant, PredecessorIsKnown, At, Replacing
  <2>6. GroupsAreKnown'
    BY <1>1, <1>2, <1>5 DEF ReleaseInvariant, GroupsAreKnown, At, Serving, Replacing,
                            ReleaseTypeOK, Group
  <2>7. QED
    BY <2>1, <2>2, <2>3, <2>4, <2>5, <2>6 DEF ReleaseInvariant
<1>6. \A b \in Releases \cup {NoRelease} : /\ BackFrom(sup[s].unit, b) \in Releases \cup {NoRelease}
                                           /\ BackFrom(sup[s].unit, b) # sup[s].unit
  BY <1>4 DEF BackFrom
<1>7. record.back \in Releases \cup {NoRelease} /\ record.unit \in Releases \cup {NoRelease}
  BY <1>1 DEF RecordRow
<1>8. CASE record = NoRecord /\ Moves(s, "leasing")
  <2>1. Admitted("leasing")
    BY <1>1, <1>4, <1>8 DEF Moves, SupRow, Stages
  <2>2. writer = Nobody /\ groups \cap record.pids = {}
    BY <1>2, <1>3, <1>8, NoRecordType
  <2>3. QED
    BY <1>5, <2>1, <2>2
<1>9. CASE /\ record.status = "READY" /\ SafeToReplace(record)
           /\ sup' = [sup EXCEPT ![s].at = "signalling", ![s].seen = record,
                                 ![s].back = BackFrom(sup[s].unit, record.unit),
                                 ![s].spare = record.back]
  <2>1. PICK b : b = BackFrom(sup[s].unit, record.unit)
    OBVIOUS
  <2>2. PICK row : row = [sup[s] EXCEPT !.at = "signalling", !.seen = record,
                                        !.back = b, !.spare = record.back]
    OBVIOUS
  <2>3. sup[s] \in SupRow /\ b \in Releases \cup {NoRelease} /\ b # sup[s].unit
    BY <1>1, <1>6, <1>7, <2>1
  <2>4. /\ row \in SupRow /\ row.at = "signalling" /\ row.unit = sup[s].unit /\ row.back = b
        /\ row.may = sup[s].may /\ row.was = sup[s].was /\ row.try = sup[s].try
        /\ row.seen = record
    BY <1>1, <1>7, <2>2, <2>3 DEF SupRow, Stages
  <2>5. sup' = [sup EXCEPT ![s] = row]
    BY <1>1, <1>9, <2>1, <2>2
  <2>6. Admitted("signalling") /\ sup'[s].seen = record
    BY <1>1, <2>3, <2>4, <2>5
  <2>7. writer = record.by /\ record.by # Nobody
    BY <1>2, <1>3, <1>9 DEF SafeToReplace, Exists
  <2>8. QED
    BY <1>5, <2>6, <2>7
<1>10. CASE /\ MayRecover(record)
            /\ sup' = [sup EXCEPT ![s].at = "leasing",
                                  ![s].back = BackFrom(sup[s].unit, record.back)]
  <2>1. PICK b : b = BackFrom(sup[s].unit, record.back)
    OBVIOUS
  <2>2. PICK row : row = [sup[s] EXCEPT !.at = "leasing", !.back = b]
    OBVIOUS
  <2>3. sup[s] \in SupRow /\ b \in Releases \cup {NoRelease} /\ b # sup[s].unit
    BY <1>1, <1>6, <1>7, <2>1
  <2>4. /\ row \in SupRow /\ row.at = "leasing" /\ row.unit = sup[s].unit /\ row.back = b
        /\ row.may = sup[s].may /\ row.was = sup[s].was /\ row.try = sup[s].try
    BY <2>2, <2>3 DEF SupRow, Stages
  <2>5. sup' = [sup EXCEPT ![s] = row]
    BY <1>1, <1>10, <2>1, <2>2
  <2>6. Admitted("leasing")
    BY <1>1, <2>3, <2>4, <2>5
  <2>7. writer = Nobody /\ groups \cap record.pids = {}
    BY <1>2, <1>3, <1>10 DEF MayRecover, StoppedEntirely
  <2>8. QED
    BY <1>5, <2>6, <2>7
<1>11. QED
  BY <1>8, <1>9, <1>10 DEF CheckRecord

\* Refusing is giving up.
LEMMA RefuseSafe ==
    ASSUME ReleaseInvariant, NEW s \in Supervisors, Refuse(s)
    PROVE  ReleaseInvariant'
BY GivingUpSafe DEF Refuse, At, Replacing

\* So is waiting too long.
LEMMA PreviousStaysSafe ==
    ASSUME ReleaseInvariant, NEW s \in Supervisors, PreviousStays(s)
    PROVE  ReleaseInvariant'
BY GivingUpSafe DEF PreviousStays, At, Replacing

\* A candidate that is let on: only stages change, and flags to stop.
LEMMA LetOnSafe ==
    ASSUME ReleaseInvariant, NEW s \in Supervisors, sup[s].at \in {"signalling", "waiting"},
           NEW stage \in {"waiting", "leasing"},
           sup' \in [Supervisors -> SupRow],
           \A c \in Supervisors \ {s} :
              /\ sup'[c].at = sup[c].at /\ sup'[c].unit = sup[c].unit
              /\ sup'[c].back = sup[c].back /\ sup'[c].may = sup[c].may
              /\ sup'[c].was = sup[c].was /\ sup'[c].try = sup[c].try
              /\ sup'[c].seen = sup[c].seen,
           /\ sup'[s].at = stage /\ sup'[s].unit = sup[s].unit
           /\ sup'[s].back = sup[s].back /\ sup'[s].may = sup[s].may
           /\ sup'[s].was = sup[s].was /\ sup'[s].try = sup[s].try,
           stage = "waiting" => Exists(record.by) /\ sup'[s].seen = sup[s].seen,
           stage = "leasing" => ~Exists(record.by) /\ groups \cap sup[s].seen.pids = {}
                                /\ sup[s].at = "waiting",
           UNCHANGED <<record, cutover, writer, groups, lost, kills>>
    PROVE  ReleaseInvariant'
<1>. USE ReleaseAssumption
<1>1. /\ cutover = s /\ \A c \in Supervisors \ {s} : sup[c].at \notin Replacing
      /\ sup[s].at \in Replacing
  BY ReplacingAlone DEF Replacing
<1>2. record.by # Nobody /\ writer \in {Nobody, record.by}
  BY DEF ReleaseInvariant, PredecessorIsKnown
<1>3. record.by \in Supervisors
  BY <1>2 DEF ReleaseInvariant, ReleaseTypeOK, RecordRow
<1>4. stage = "leasing" => writer = Nobody
  BY <1>2, <1>3 DEF ReleaseInvariant, LocksHeld, Writing, Serving, Exists
<1>5. \A g \in groups \ lost : At(g.by, "killed") => g \in record.pids /\ g.by = record.by
  BY DEF ReleaseInvariant, GroupsAreKnown, RecordIsTheWriters
<1>6. ReleaseTypeOK'
  BY DEF ReleaseInvariant, ReleaseTypeOK
<1>7. LocksHeld'
  BY <1>1 DEF ReleaseInvariant, LocksHeld, At, Replacing, Serving, Writing
<1>8. FallsBackTwice'
  BY <1>1 DEF ReleaseInvariant, FallsBackTwice, At, Exists, Replacing
<1>9. RecordIsTheWriters'
  BY <1>1 DEF ReleaseInvariant, RecordIsTheWriters, LocksHeld, Replacing, Serving, Writing
<1>10. PredecessorIsKnown'
  BY <1>1, <1>2, <1>4 DEF ReleaseInvariant, PredecessorIsKnown, At, Replacing
<1>11. GroupsAreKnown'
  <2>1. \A g \in groups : g.by \in Supervisors /\ g.by # s
    BY <1>1 DEF ReleaseInvariant, GroupsAreKnown, Serving, Replacing, ReleaseTypeOK, Group
  <2>2. /\ \A g \in groups :
             /\ sup'[g.by].at \in Serving \cup {"killed"}
             /\ sup'[g.by].at # "killed" => g.of = sup'[g.by].unit /\ g.try = sup'[g.by].try
        /\ \A g \in lost : sup'[g.by].at = "killed"
    BY <2>1 DEF ReleaseInvariant, GroupsAreKnown, At, ReleaseTypeOK
  <2>3. ASSUME NEW g \in groups \ lost, sup'[g.by].at = "killed"
        PROVE  /\ g \in record.pids /\ writer = Nobody
               /\ \A c \in Supervisors : sup'[c].at # "leasing"
               /\ \A c \in Supervisors : sup'[c].at = "waiting" => g \in sup'[c].seen.pids
    <3>1. sup[g.by].at = "killed"
      BY <2>1, <2>3
    <3>2. g \in record.pids /\ g.by = record.by /\ writer = Nobody
      BY <1>5, <2>3, <3>1 DEF At, ReleaseInvariant, GroupsAreKnown
    <3>3. ~Exists(record.by)
      BY <3>1, <3>2 DEF Exists
    <3>4. stage = "leasing" => g \in sup[s].seen.pids
      BY <2>3, <3>1 DEF ReleaseInvariant, GroupsAreKnown, At
    <3>5. FALSE
      BY <2>3, <3>3, <3>4
    <3>6. QED
      BY <3>5
  <2>4. QED
    BY <2>2, <2>3 DEF GroupsAreKnown, At
<1>12. QED
  BY <1>6, <1>7, <1>8, <1>9, <1>10, <1>11 DEF ReleaseInvariant

\* A predecessor is signalled, or found gone.
LEMMA SignalPreviousSafe ==
    ASSUME ReleaseInvariant, NEW s \in Supervisors, SignalPrevious(s)
    PROVE  ReleaseInvariant'
<1>1. /\ sup[s].at = "signalling" /\ sup \in [Supervisors -> SupRow]
      /\ sup[s].seen.by = record.by /\ UNCHANGED <<record, groups, lost, kills>>
  BY DEF SignalPrevious, At, ReleaseInvariant, ReleaseTypeOK, PredecessorIsKnown
<1>2. CASE Exists(record.by)
  <2>1. PICK p : p = record.by
    OBVIOUS
  <2>2. /\ sup' = [sup EXCEPT ![s].at = "waiting", ![p].stop = TRUE]
        /\ UNCHANGED <<cutover, writer>> /\ p \in Supervisors
    BY <1>1, <1>2, <2>1 DEF SignalPrevious, Exists, ReleaseInvariant, ReleaseTypeOK, RecordRow
  <2>3. PICK old : old = [sup EXCEPT ![s].at = "waiting"]
    OBVIOUS
  <2>4. old \in [Supervisors -> SupRow]
    BY <1>1, <2>3 DEF SupRow, Stages
  <2>5. sup' = [old EXCEPT ![p].stop = TRUE]
    BY <2>2, <2>3
  <2>6. PICK row : row = [old[p] EXCEPT !.stop = TRUE]
    OBVIOUS
  <2>7. /\ sup' \in [Supervisors -> SupRow]
        /\ \A c \in Supervisors :
              /\ sup'[c].at = old[c].at /\ sup'[c].unit = old[c].unit
              /\ sup'[c].back = old[c].back /\ sup'[c].may = old[c].may
              /\ sup'[c].was = old[c].was /\ sup'[c].try = old[c].try
              /\ sup'[c].seen = old[c].seen
    <3>1. old[p] \in SupRow
      BY <2>2, <2>4
    <3>2. /\ row \in SupRow /\ row.at = old[p].at /\ row.unit = old[p].unit
          /\ row.back = old[p].back /\ row.may = old[p].may /\ row.was = old[p].was
          /\ row.try = old[p].try /\ row.seen = old[p].seen
      BY <2>6, <3>1 DEF SupRow
    <3>3. sup' = [old EXCEPT ![p] = row]
      BY <2>5, <2>6
    <3>4. QED
      BY <2>2, <2>4, <3>2, <3>3
  <2>8. /\ \A c \in Supervisors \ {s} : old[c] = sup[c]
        /\ old[s].at = "waiting" /\ old[s].unit = sup[s].unit
        /\ old[s].back = sup[s].back /\ old[s].may = sup[s].may
        /\ old[s].was = sup[s].was /\ old[s].try = sup[s].try /\ old[s].seen = sup[s].seen
    BY <1>1, <2>3 DEF SupRow
  <2>9. /\ \A c \in Supervisors \ {s} :
              /\ sup'[c].at = sup[c].at /\ sup'[c].unit = sup[c].unit
              /\ sup'[c].back = sup[c].back /\ sup'[c].may = sup[c].may
              /\ sup'[c].was = sup[c].was /\ sup'[c].try = sup[c].try
              /\ sup'[c].seen = sup[c].seen
        /\ sup'[s].at = "waiting" /\ sup'[s].unit = sup[s].unit
        /\ sup'[s].back = sup[s].back /\ sup'[s].may = sup[s].may
        /\ sup'[s].was = sup[s].was /\ sup'[s].try = sup[s].try
        /\ sup'[s].seen = sup[s].seen
    BY <2>7, <2>8
  <2>10. QED
    BY <1>1, <1>2, <2>2, <2>7, <2>9, LetOnSafe
<1>3. CASE ~Exists(record.by)
  <2>1. Ends(s)
    BY <1>1, <1>3 DEF SignalPrevious
  <2>2. QED
    BY <1>1, <2>1, GivingUpSafe DEF Replacing
<1>4. QED
  BY <1>2, <1>3

\* The predecessor is gone, and so is everything it recorded.
LEMMA PreviousStoppedSafe ==
    ASSUME ReleaseInvariant, NEW s \in Supervisors, PreviousStopped(s)
    PROVE  ReleaseInvariant'
<1>1. /\ sup[s].at = "waiting" /\ sup \in [Supervisors -> SupRow]
      /\ sup[s].seen.by = record.by /\ ~Exists(record.by)
      /\ groups \cap sup[s].seen.pids = {}
      /\ sup' = [sup EXCEPT ![s].at = "leasing", ![s].seen = NoRecord]
      /\ UNCHANGED <<record, cutover, writer, groups, lost, kills>>
  BY DEF PreviousStopped, StoppedEntirely, At, ReleaseInvariant, ReleaseTypeOK,
         PredecessorIsKnown
<1>2. PICK row : row = [sup[s] EXCEPT !.at = "leasing", !.seen = NoRecord]
  OBVIOUS
<1>3. sup[s] \in SupRow
  BY <1>1
<1>4. /\ row \in SupRow /\ row.at = "leasing" /\ row.unit = sup[s].unit
      /\ row.back = sup[s].back /\ row.may = sup[s].may /\ row.was = sup[s].was
      /\ row.try = sup[s].try
  BY <1>2, <1>3, NoRecordType DEF SupRow, Stages
<1>5. sup' = [sup EXCEPT ![s] = row]
  BY <1>1, <1>2
<1>6. /\ \A c \in Supervisors \ {s} : sup'[c] = sup[c]
      /\ sup'[s] = row /\ sup' \in [Supervisors -> SupRow]
  BY <1>1, <1>4, <1>5
<1>7. QED
  BY <1>1, <1>4, <1>6, LetOnSafe

\* The writer lock is free once the way is clear, and only one is on its way.
LEMMA TakeWriterSafe ==
    ASSUME ReleaseInvariant, NEW s \in Supervisors, TakeWriter(s)
    PROVE  ReleaseInvariant'
<1>. USE ReleaseAssumption
<1>1. /\ sup[s].at = "leasing" /\ writer = Nobody /\ writer' = s
      /\ sup \in [Supervisors -> SupRow]
      /\ sup' = [sup EXCEPT ![s].at = "launching"]
      /\ UNCHANGED <<record, cutover, groups, lost, kills>>
  BY DEF TakeWriter, Moves, At, ReleaseInvariant, ReleaseTypeOK
<1>2. /\ cutover = s /\ \A c \in Supervisors \ {s} : sup[c].at \notin Replacing
      /\ ~sup[s].was
  BY <1>1, ReplacingAlone DEF Replacing, ReleaseInvariant, LocksHeld
<1>3. /\ \A c \in Supervisors \ {s} : sup'[c] = sup[c]
      /\ sup'[s].at = "launching" /\ sup'[s].unit = sup[s].unit /\ sup'[s].back = sup[s].back
      /\ sup'[s].may = sup[s].may /\ sup'[s].was = sup[s].was /\ sup'[s].try = sup[s].try
      /\ sup' \in [Supervisors -> SupRow]
  BY <1>1 DEF SupRow, Stages
<1>4. ReleaseTypeOK'
  BY <1>1, <1>3 DEF ReleaseInvariant, ReleaseTypeOK
<1>5. LocksHeld'
  BY <1>1, <1>2, <1>3 DEF ReleaseInvariant, LocksHeld, At, Replacing, Serving, Writing
<1>6. FallsBackTwice'
  BY <1>1, <1>3 DEF ReleaseInvariant, FallsBackTwice, At, Exists
<1>7. RecordIsTheWriters'
  BY <1>1, <1>2, <1>3 DEF ReleaseInvariant, RecordIsTheWriters
<1>8. PredecessorIsKnown'
  BY <1>1, <1>2, <1>3 DEF ReleaseInvariant, PredecessorIsKnown, At, Replacing
<1>9. GroupsAreKnown'
  BY <1>1, <1>2, <1>3 DEF ReleaseInvariant, GroupsAreKnown, At, Serving, Replacing,
                          ReleaseTypeOK, Group
<1>10. QED
  BY <1>4, <1>5, <1>6, <1>7, <1>8, <1>9 DEF ReleaseInvariant

\* What the writer's step may change: its own row, the record in its name, and
\* the groups, of which its own stay its present one.
LEMMA WriterSafe ==
    ASSUME ReleaseInvariant, NEW s \in Supervisors, sup[s].at \in Writing,
           sup' \in [Supervisors -> SupRow],
           \A c \in Supervisors \ {s} : sup'[c] = sup[c],
           sup'[s].at \in Writing, sup[s].was => sup'[s].was,
           sup'[s].unit \in Releases, sup'[s].back # sup'[s].unit,
           sup'[s].may \/ ~sup'[s].was => sup'[s].try <= 2,
           sup'[s].may /\ ~sup'[s].was => sup'[s].try = 1,
           sup'[s].was \/ sup'[s].at \notin {"launching", "launched"} => record'.by = s,
           \/ record' = record
           \/ /\ record' \in RecordRow /\ record'.by = s /\ record'.pids = Mine(s)
              /\ record'.back # record'.unit,
           \A g \in groups' : g.by # s => g \in groups,
           \A g \in groups : g.by # s => g \in groups',
           \A g \in groups' : g.by = s => g \in Group /\ sup'[s].at \in Serving
                                          /\ g.of = sup'[s].unit /\ g.try = sup'[s].try,
           \/ cutover' = cutover /\ (sup[s].was <=> sup'[s].was)
           \/ cutover' = Freed(cutover, s) /\ sup'[s].was,
           UNCHANGED <<writer, lost, kills>>
    PROVE  ReleaseInvariant'
<1>. USE ReleaseAssumption
<1>1. /\ writer = s /\ s # Nobody /\ sup[s].was \in BOOLEAN
      /\ \A c \in Supervisors \ {s} : sup[c].at \notin Writing
      /\ \A c \in Supervisors : sup[c].at # "leasing"
  BY DEF ReleaseInvariant, LocksHeld, PredecessorIsKnown, At, ReleaseTypeOK, SupRow
<1>2. \A g \in groups \ lost : ~At(g.by, "killed")
  BY <1>1 DEF ReleaseInvariant, GroupsAreKnown
<1>3. /\ \A g \in lost : g \in groups /\ g \in Group /\ sup[g.by].at = "killed" /\ g.by # s
      /\ \A g \in groups : g \in Group /\ g.by \in Supervisors
  BY DEF ReleaseInvariant, GroupsAreKnown, ReleaseTypeOK, At, Group, Writing, Serving
<1>4. ReleaseTypeOK'
  <2>1. lost' \subseteq groups'
    BY <1>3
  <2>2. groups' \subseteq Group
    BY <1>3
  <2>3. record' \in RecordRow /\ (record' # NoRecord => record'.back # record'.unit)
    BY DEF ReleaseInvariant, ReleaseTypeOK
  <2>4. {cutover', writer'} \subseteq Supervisors \cup {Nobody}
    BY DEF ReleaseInvariant, ReleaseTypeOK, Freed
  <2>5. kills' \in 0..MaxKills
    BY DEF ReleaseInvariant, ReleaseTypeOK
  <2>6. QED
    BY <2>1, <2>2, <2>3, <2>4, <2>5 DEF ReleaseTypeOK
<1>5. LocksHeld'
  <2>1. ASSUME NEW c \in Supervisors \ {s}
        PROVE  /\ sup'[c].at \in Replacing => cutover' = c
               /\ cutover' = c => sup'[c].at \in Replacing \cup Writing /\ ~sup'[c].was
               /\ sup'[c].at \in Writing <=> writer' = c
               /\ sup'[c].at \in Writing /\ ~sup'[c].was => cutover' = c
               /\ sup'[c].at = "idle" => ~sup'[c].was
    BY <1>1, <2>1 DEF ReleaseInvariant, LocksHeld, At, Freed
  <2>2. /\ sup'[s].at \in Replacing => cutover' = s
        /\ cutover' = s => sup'[s].at \in Replacing \cup Writing /\ ~sup'[s].was
        /\ sup'[s].at \in Writing <=> writer' = s
        /\ sup'[s].at \in Writing /\ ~sup'[s].was => cutover' = s
        /\ sup'[s].at = "idle" => ~sup'[s].was
    BY <1>1 DEF ReleaseInvariant, LocksHeld, Freed, Replacing, Writing, Serving
  <2>3. QED
    BY <2>1, <2>2 DEF LocksHeld, At
<1>6. FallsBackTwice'
  BY DEF ReleaseInvariant, FallsBackTwice, At, Exists, Writing, Serving
<1>7. \A g, h \in groups : g.by = s /\ h.by = s => g = h
  <2>1. \A g \in groups : g.by = s => g \in Group /\ g.of = sup[s].unit /\ g.try = sup[s].try
    BY <1>3 DEF ReleaseInvariant, GroupsAreKnown, At, Writing, Serving
  <2>2. QED
    BY <2>1 DEF Group
<1>8. RecordIsTheWriters'
  <2>1. /\ record'.by = Nobody => record' = NoRecord
        /\ \A g \in record'.pids : g.by = record'.by
        /\ \A g, h \in record'.pids : g = h
    BY <1>1, <1>7 DEF ReleaseInvariant, RecordIsTheWriters, Mine
  <2>2. QED
    BY <1>1, <2>1 DEF RecordIsTheWriters
<1>9. PredecessorIsKnown'
  <2>1. ASSUME NEW c \in Supervisors, sup'[c].at \in {"signalling", "waiting"}
        PROVE  /\ sup'[c].seen.by = record'.by /\ record'.by # Nobody
               /\ writer' \in {Nobody, record'.by}
    <3>1. c # s /\ sup'[c] = sup[c]
      BY <2>1 DEF Writing, Serving
    <3>2. record.by = s /\ sup[c].seen.by = record.by
      BY <1>1, <2>1, <3>1 DEF ReleaseInvariant, PredecessorIsKnown
    <3>3. QED
      BY <1>1, <3>1, <3>2
  <2>2. \A c \in Supervisors : sup'[c].at # "leasing"
    BY <1>1 DEF Writing, Serving
  <2>3. QED
    BY <2>1, <2>2 DEF PredecessorIsKnown, At
<1>10. GroupsAreKnown'
  <2>1. ASSUME NEW g \in groups'
        PROVE  /\ sup'[g.by].at \in Serving \cup {"killed"}
               /\ sup'[g.by].at # "killed" => g.of = sup'[g.by].unit /\ g.try = sup'[g.by].try
               /\ g \notin lost => sup'[g.by].at # "killed"
    <3>1. CASE g.by = s
      BY <2>1, <3>1 DEF Serving
    <3>2. CASE g.by # s
      <4>1. g \in groups /\ sup'[g.by] = sup[g.by]
        BY <1>3, <2>1, <3>2
      <4>2. QED
        BY <1>2, <4>1 DEF ReleaseInvariant, GroupsAreKnown, At
    <3>3. QED
      BY <3>1, <3>2
  <2>2. \A g \in lost' : sup'[g.by].at = "killed"
    BY <1>3 DEF Group
  <2>3. QED
    BY <2>1, <2>2 DEF GroupsAreKnown, At
<1>11. QED
  BY <1>4, <1>5, <1>6, <1>8, <1>9, <1>10 DEF ReleaseInvariant

\* What the state file says of a writer that serves.
LEMMA RecordedType ==
    ASSUME ReleaseInvariant, NEW s \in Supervisors, NEW status \in Statuses,
           Exists(s)
    PROVE  LET r == Recorded(s, status)
           IN  /\ r \in RecordRow /\ r.by = s /\ r.pids = Mine(s) /\ r.back # r.unit
<1>1. sup[s] \in SupRow /\ groups \subseteq Group /\ sup[s].back # sup[s].unit
  BY DEF ReleaseInvariant, ReleaseTypeOK, FallsBackTwice
<1>2. Mine(s) \in SUBSET Group
  BY <1>1 DEF Mine
<1>3. QED
  BY <1>1, <1>2 DEF Recorded, RecordRow, SupRow

\* What the invariant says of a writer, for the steps below.
LEMMA WriterFacts ==
    ASSUME ReleaseInvariant, NEW s \in Supervisors, sup[s].at \in Writing
    PROVE  /\ sup \in [Supervisors -> SupRow] /\ sup[s] \in SupRow /\ Exists(s)
           /\ sup[s].unit \in Releases /\ sup[s].back # sup[s].unit /\ writer = s
           /\ sup[s].may \/ ~sup[s].was => sup[s].try <= 2
           /\ sup[s].may /\ ~sup[s].was => sup[s].try = 1
           /\ sup[s].was \/ sup[s].at \notin {"launching", "launched"} => record.by = s
           /\ groups \subseteq Group
           /\ \A g \in groups : g.by = s => /\ g \in Group /\ sup[s].at \in Serving
                                            /\ g.of = sup[s].unit /\ g.try = sup[s].try
<1>1. sup \in [Supervisors -> SupRow] /\ groups \subseteq Group /\ writer = s
  BY DEF ReleaseInvariant, ReleaseTypeOK, LocksHeld
<1>2. Exists(s)
  BY ReleaseAssumption DEF Exists, Writing, Serving
<1>3. /\ sup[s].unit \in Releases /\ sup[s].back # sup[s].unit
      /\ sup[s].may \/ ~sup[s].was => sup[s].try <= 2
      /\ sup[s].may /\ ~sup[s].was => sup[s].try = 1
  BY <1>2 DEF ReleaseInvariant, FallsBackTwice
<1>4. sup[s].was \/ sup[s].at \notin {"launching", "launched"} => record.by = s
  BY <1>1 DEF ReleaseInvariant, RecordIsTheWriters
<1>5. \A g \in groups : g.by = s => /\ g \in Group /\ sup[s].at \in Serving
                                    /\ g.of = sup[s].unit /\ g.try = sup[s].try
  BY <1>1 DEF ReleaseInvariant, GroupsAreKnown, At, Writing, Serving
<1>6. QED
  BY <1>1, <1>2, <1>3, <1>4, <1>5

\* A writer that moves to another stage, its group with it.
LEMMA WriterMoves ==
    ASSUME NEW s \in Supervisors, sup \in [Supervisors -> SupRow],
           NEW stage \in Stages, Moves(s, stage)
    PROVE  /\ sup' \in [Supervisors -> SupRow]
           /\ \A c \in Supervisors \ {s} : sup'[c] = sup[c]
           /\ sup'[s].at = stage /\ sup'[s].unit = sup[s].unit /\ sup'[s].back = sup[s].back
           /\ sup'[s].may = sup[s].may /\ sup'[s].was = sup[s].was /\ sup'[s].try = sup[s].try
<1>1. sup[s] \in SupRow /\ sup' = [sup EXCEPT ![s].at = stage]
  BY DEF Moves
<1>2. PICK row : row = [sup[s] EXCEPT !.at = stage]
  OBVIOUS
<1>3. /\ row \in SupRow /\ row.at = stage /\ row.unit = sup[s].unit /\ row.back = sup[s].back
      /\ row.may = sup[s].may /\ row.was = sup[s].was /\ row.try = sup[s].try
  BY <1>1, <1>2 DEF SupRow
<1>4. sup' = [sup EXCEPT ![s] = row]
  BY <1>1, <1>2
<1>5. QED
  BY <1>3, <1>4

\* The writer's processes start; it had none.
LEMMA LaunchSafe ==
    ASSUME ReleaseInvariant, NEW s \in Supervisors, Launch(s)
    PROVE  ReleaseInvariant'
<1>1. /\ sup[s].at = "launching" /\ sup[s].at \in Writing /\ Moves(s, "launched")
      /\ groups' = groups \cup {[by |-> s, of |-> sup[s].unit, try |-> sup[s].try]}
      /\ UNCHANGED <<record, cutover, writer, lost, kills>>
  BY DEF Launch, At, Writing
<1>2. \A g \in groups : g.by # s
  BY <1>1, WriterFacts DEF Serving
<1>3. [by |-> s, of |-> sup[s].unit, try |-> sup[s].try] \in Group
  BY <1>1, WriterFacts DEF Group, SupRow
<1>4. /\ sup' \in [Supervisors -> SupRow] /\ \A c \in Supervisors \ {s} : sup'[c] = sup[c]
      /\ sup'[s].at = "launched" /\ sup'[s].unit = sup[s].unit /\ sup'[s].back = sup[s].back
      /\ sup'[s].may = sup[s].may /\ sup'[s].was = sup[s].was /\ sup'[s].try = sup[s].try
  BY <1>1, WriterFacts, WriterMoves DEF Stages
<1>5. \A g \in groups' : g.by = s => g \in Group /\ sup'[s].at \in Serving
                                     /\ g.of = sup'[s].unit /\ g.try = sup'[s].try
  BY <1>1, <1>2, <1>3, <1>4 DEF Serving
<1>6. /\ \A g \in groups' : g.by # s => g \in groups
      /\ \A g \in groups : g.by # s => g \in groups'
  BY <1>1
<1>7. /\ sup'[s].at \in Writing /\ sup'[s].unit \in Releases /\ sup'[s].back # sup'[s].unit
      /\ sup'[s].may \/ ~sup'[s].was => sup'[s].try <= 2
      /\ sup'[s].may /\ ~sup'[s].was => sup'[s].try = 1
      /\ (sup'[s].was => record'.by = s) /\ (sup[s].was <=> sup'[s].was)
  BY <1>1, <1>4, WriterFacts DEF Writing, Serving
<1>8. QED
  BY <1>1, <1>4, <1>5, <1>6, <1>7, WriterSafe

\* A writer that writes the record and goes on.
LEMMA RecordingSafe ==
    ASSUME ReleaseInvariant, NEW s \in Supervisors, sup[s].at \in Serving,
           NEW stage \in Serving \ {"launched"}, Moves(s, stage),
           NEW status \in Statuses, record' = Recorded(s, status),
           UNCHANGED <<cutover, writer, groups, lost, kills>>
    PROVE  ReleaseInvariant'
<1>1. sup[s].at \in Writing /\ stage \in Stages
  BY DEF Writing, Serving, Stages
<1>2. /\ sup' \in [Supervisors -> SupRow] /\ \A c \in Supervisors \ {s} : sup'[c] = sup[c]
      /\ sup'[s].at = stage /\ sup'[s].unit = sup[s].unit /\ sup'[s].back = sup[s].back
      /\ sup'[s].may = sup[s].may /\ sup'[s].was = sup[s].was /\ sup'[s].try = sup[s].try
  BY <1>1, WriterFacts, WriterMoves
<1>3. /\ record' \in RecordRow /\ record'.by = s /\ record'.pids = Mine(s)
      /\ record'.back # record'.unit
  BY <1>1, WriterFacts, RecordedType
<1>4. /\ sup'[s].at \in Writing /\ sup'[s].unit \in Releases /\ sup'[s].back # sup'[s].unit
      /\ sup'[s].may \/ ~sup'[s].was => sup'[s].try <= 2
      /\ sup'[s].may /\ ~sup'[s].was => sup'[s].try = 1
      /\ (sup[s].was <=> sup'[s].was)
  BY <1>1, <1>2, WriterFacts DEF Writing
<1>5. \A g \in groups' : g.by = s => g \in Group /\ sup'[s].at \in Serving
                                     /\ g.of = sup'[s].unit /\ g.try = sup'[s].try
  BY <1>1, <1>2, WriterFacts
<1>6. QED
  BY <1>1, <1>2, <1>3, <1>4, <1>5, WriterSafe

\* Each step that records the state of the services.
LEMMA RecordingsSafe ==
    ASSUME ReleaseInvariant, NEW s \in Supervisors,
           RecordStarting(s) \/ StartFails(s) \/ ServiceExits(s) \/ StopPlanned(s)
    PROVE  ReleaseInvariant'
BY RecordingSafe DEF RecordStarting, StartFails, ServiceExits, StopPlanned, At, Serving,
                     Statuses

\* A group that is ready ends the cutover.
LEMMA BecomeReadySafe ==
    ASSUME ReleaseInvariant, NEW s \in Supervisors, BecomeReady(s)
    PROVE  ReleaseInvariant'
<1>1. /\ sup[s].at = "starting" /\ sup[s].at \in Writing /\ sup[s].at \in Serving
      /\ record' = Recorded(s, "READY") /\ cutover' = Freed(cutover, s)
      /\ UNCHANGED <<writer, groups, lost, kills>>
  BY DEF BecomeReady, At, Writing, Serving
<1>2. PICK m : m = (sup[s].may \/ ~sup[s].was)
  OBVIOUS
<1>3. m \in BOOLEAN /\ (m => sup[s].try <= 2)
  BY <1>1, <1>2, WriterFacts
<1>4. PICK row : row = [sup[s] EXCEPT !.at = "ready", !.was = TRUE, !.may = m]
  OBVIOUS
<1>5. sup[s] \in SupRow /\ sup \in [Supervisors -> SupRow]
  BY <1>1, WriterFacts
<1>6. /\ row \in SupRow /\ row.at = "ready" /\ row.unit = sup[s].unit /\ row.was = TRUE
      /\ row.back = sup[s].back /\ row.try = sup[s].try
  BY <1>3, <1>4, <1>5 DEF SupRow, Stages
<1>7. row.may = m
  BY <1>4, <1>5 DEF SupRow
<1>8. sup' = [sup EXCEPT ![s] = row]
  BY <1>2, <1>4, <1>5 DEF BecomeReady
<1>9. /\ sup' \in [Supervisors -> SupRow] /\ \A c \in Supervisors \ {s} : sup'[c] = sup[c]
      /\ sup'[s] = row
  BY <1>5, <1>6, <1>8
<1>10. /\ record' \in RecordRow /\ record'.by = s /\ record'.pids = Mine(s)
       /\ record'.back # record'.unit
  BY <1>1, WriterFacts, RecordedType DEF Statuses
<1>11. sup'[s].may \/ ~sup'[s].was => sup'[s].try <= 2
  BY <1>3, <1>6, <1>7, <1>9
<1>12. QED
  BY <1>1, <1>6, <1>9, <1>10, <1>11, WriterFacts, WriterSafe DEF Writing, Serving

\* A writer that ends with its whole group.
LEMMA EndingSafe ==
    ASSUME ReleaseInvariant, NEW s \in Supervisors, sup[s].at \in Writing, Ends(s),
           groups' = groups \ Mine(s), UNCHANGED <<record, lost, kills>>
    PROVE  ReleaseInvariant'
<1>. USE ReleaseAssumption
<1>1. /\ sup \in [Supervisors -> SupRow] /\ writer = s /\ s # Nobody
      /\ \A c \in Supervisors \ {s} : sup[c].at \notin Writing
  BY WriterFacts DEF ReleaseInvariant, LocksHeld
<1>2. /\ cutover' \in {cutover, Nobody} /\ cutover' # s /\ writer' = Nobody
      /\ (cutover # s => cutover' = cutover)
  BY <1>1 DEF Ends, Freed
<1>3. /\ \A c \in Supervisors \ {s} : sup'[c] = sup[c]
      /\ sup'[s].at = "ended" /\ sup'[s].may = sup[s].may /\ sup'[s].was = sup[s].was
      /\ sup'[s].try = sup[s].try /\ sup' \in [Supervisors -> SupRow]
  <2>1. PICK row : row = [sup[s] EXCEPT !.at = "ended", !.seen = NoRecord]
    OBVIOUS
  <2>2. sup[s] \in SupRow
    BY <1>1
  <2>3. /\ row \in SupRow /\ row.at = "ended" /\ row.may = sup[s].may
        /\ row.was = sup[s].was /\ row.try = sup[s].try
    BY <2>1, <2>2, NoRecordType DEF SupRow, Stages
  <2>4. sup' = [sup EXCEPT ![s] = row]
    BY <1>1, <2>1 DEF Ends
  <2>5. QED
    BY <1>1, <2>3, <2>4
<1>4. /\ \A g \in lost : g \in groups /\ sup[g.by].at = "killed" /\ g.by # s
                         /\ g.by \in Supervisors
      /\ \A g \in groups' : g \in groups /\ g.by # s /\ g.by \in Supervisors
      /\ \A g \in groups \ lost : ~At(g.by, "killed")
  BY <1>1 DEF ReleaseInvariant, GroupsAreKnown, ReleaseTypeOK, At, Group, Writing, Serving,
              Mine
<1>5. ReleaseTypeOK'
  <2>1. lost' \subseteq groups'
    BY <1>4 DEF Mine
  <2>2. QED
    BY <1>2, <1>3, <1>4, <2>1 DEF ReleaseInvariant, ReleaseTypeOK
<1>6. LocksHeld'
  BY <1>1, <1>2, <1>3 DEF ReleaseInvariant, LocksHeld, At, Replacing, Serving, Writing
<1>7. FallsBackTwice'
  BY <1>3 DEF ReleaseInvariant, FallsBackTwice, At, Exists
<1>8. RecordIsTheWriters'
  BY <1>2 DEF ReleaseInvariant, RecordIsTheWriters
<1>9. PredecessorIsKnown'
  BY <1>1, <1>2, <1>3 DEF ReleaseInvariant, PredecessorIsKnown, At
<1>10. GroupsAreKnown'
  BY <1>3, <1>4 DEF ReleaseInvariant, GroupsAreKnown, At
<1>11. QED
  BY <1>5, <1>6, <1>7, <1>8, <1>9, <1>10 DEF ReleaseInvariant

\* A service that closes leaves nothing.
LEMMA CloseSafe ==
    ASSUME ReleaseInvariant, NEW s \in Supervisors, Close(s)
    PROVE  ReleaseInvariant'
BY EndingSafe DEF Close, At, Writing, Serving

\* A group that failed stops whole before the release it replaced starts.
LEMMA RetreatSafe ==
    ASSUME ReleaseInvariant, NEW s \in Supervisors, Retreat(s)
    PROVE  ReleaseInvariant'
<1>1. /\ sup[s].at = "retreating" /\ sup[s].at \in Writing
      /\ groups' = groups \ Mine(s) /\ UNCHANGED <<record, lost, kills>>
  BY DEF Retreat, At, Writing, Serving
<1>2. CASE ~sup[s].may \/ sup[s].back = NoRelease
  BY <1>1, <1>2, EndingSafe DEF Retreat
<1>3. CASE sup[s].may /\ sup[s].back # NoRelease
  <2>1. /\ UNCHANGED <<cutover, writer>>
        /\ sup' = [sup EXCEPT ![s].at = "launching", ![s].try = @ + 1, ![s].may = FALSE,
                              ![s].unit = sup[s].back,
                              ![s].back = BackFrom(sup[s].back, sup[s].spare)]
    BY <1>3 DEF Retreat
  <2>2. /\ sup[s] \in SupRow /\ sup \in [Supervisors -> SupRow] /\ record.by = s
        /\ sup[s].try <= 2 /\ (~sup[s].was => sup[s].try = 1) /\ groups \subseteq Group
    BY <1>1, <1>3, WriterFacts
  <2>3. PICK t : t = sup[s].try + 1
    OBVIOUS
  <2>4. PICK u : u = sup[s].back
    OBVIOUS
  <2>5. PICK b : b = BackFrom(sup[s].back, sup[s].spare)
    OBVIOUS
  <2>6. /\ t \in 1..3 /\ u \in Releases /\ b # u /\ b \in Releases \cup {NoRelease}
        /\ (~sup[s].was => t <= 2)
    BY <1>3, <2>2, <2>3, <2>4, <2>5, ReleaseAssumption DEF SupRow, BackFrom
  <2>7. PICK row : row = [sup[s] EXCEPT !.at = "launching", !.try = t, !.may = FALSE,
                                        !.unit = u, !.back = b]
    OBVIOUS
  <2>8. /\ row \in SupRow /\ row.at = "launching" /\ row.unit = u /\ row.back = b
        /\ row.may = FALSE /\ row.try = t /\ row.was = sup[s].was
    BY <2>2, <2>6, <2>7 DEF SupRow, Stages
  <2>9. sup' = [sup EXCEPT ![s] = row]
    BY <2>1, <2>2, <2>3, <2>4, <2>5, <2>7
  <2>10. /\ sup' \in [Supervisors -> SupRow] /\ \A c \in Supervisors \ {s} : sup'[c] = sup[c]
         /\ sup'[s] = row
    BY <2>2, <2>8, <2>9
  <2>11. /\ \A g \in groups' : g.by # s => g \in groups
         /\ \A g \in groups : g.by # s => g \in groups'
         /\ \A g \in groups' : g.by # s
    BY <1>1 DEF Mine
  <2>12. /\ sup'[s].at \in Writing /\ sup'[s].unit \in Releases /\ sup'[s].back # sup'[s].unit
         /\ (sup'[s].was <=> sup[s].was) /\ ~sup'[s].may
    BY <2>6, <2>8, <2>10 DEF Writing
  <2>13. sup'[s].may \/ ~sup'[s].was => sup'[s].try <= 2
    BY <2>2, <2>6, <2>8, <2>10
  <2>14. /\ cutover' = cutover /\ record' = record /\ record'.by = s
         /\ sup'[s].may /\ ~sup'[s].was => sup'[s].try = 1
         /\ sup[s].was => sup'[s].was
         /\ UNCHANGED <<writer, lost, kills>>
         /\ sup'[s].was \/ sup'[s].at \notin {"launching", "launched"} => record'.by = s
         /\ \A g \in groups' : g.by = s => g \in Group /\ sup'[s].at \in Serving
                                          /\ g.of = sup'[s].unit /\ g.try = sup'[s].try
    BY <1>1, <2>1, <2>2, <2>11, <2>12
  <2>15. QED
    BY <1>1, <2>10, <2>11, <2>12, <2>13, <2>14, WriterSafe
<1>4. QED
  BY <1>2, <1>3

\* An order to stop changes nothing else.
LEMMA TerminateSafe ==
    ASSUME ReleaseInvariant, NEW s \in Supervisors, Terminate(s)
    PROVE  ReleaseInvariant'
<1>1. /\ sup \in [Supervisors -> SupRow] /\ sup' = [sup EXCEPT ![s].stop = TRUE]
      /\ UNCHANGED <<record, cutover, writer, groups, lost, kills>>
  BY DEF Terminate, ReleaseInvariant, ReleaseTypeOK
<1>2. PICK row : row = [sup[s] EXCEPT !.stop = TRUE]
  OBVIOUS
<1>3. sup[s] \in SupRow
  BY <1>1
<1>4. /\ row \in SupRow /\ row.at = sup[s].at /\ row.unit = sup[s].unit
      /\ row.back = sup[s].back /\ row.may = sup[s].may /\ row.was = sup[s].was
      /\ row.try = sup[s].try /\ row.seen = sup[s].seen
  BY <1>2, <1>3 DEF SupRow
<1>5. sup' = [sup EXCEPT ![s] = row]
  BY <1>1, <1>2
<1>6. /\ sup' \in [Supervisors -> SupRow]
      /\ \A c \in Supervisors :
           /\ sup'[c].at = sup[c].at /\ sup'[c].unit = sup[c].unit
           /\ sup'[c].back = sup[c].back /\ (sup'[c].may <=> sup[c].may)
           /\ (sup'[c].was <=> sup[c].was) /\ sup'[c].try = sup[c].try
           /\ sup'[c].seen = sup[c].seen
  BY <1>1, <1>4, <1>5
<1>7. \A c \in Supervisors \cup {Nobody} : Exists(c)' = Exists(c)
  BY <1>6 DEF Exists
<1>8. ReleaseTypeOK'
  BY <1>1, <1>6 DEF ReleaseInvariant, ReleaseTypeOK
<1>9. LocksHeld'
  BY <1>1, <1>6 DEF ReleaseInvariant, LocksHeld, At
<1>10. FallsBackTwice'
  BY <1>6, <1>7 DEF ReleaseInvariant, FallsBackTwice, At
<1>11. RecordIsTheWriters'
  BY <1>1, <1>6 DEF ReleaseInvariant, RecordIsTheWriters
<1>12. PredecessorIsKnown'
  BY <1>1, <1>6 DEF ReleaseInvariant, PredecessorIsKnown, At
<1>13. GroupsAreKnown'
  BY <1>1, <1>6 DEF ReleaseInvariant, GroupsAreKnown, At, ReleaseTypeOK, Group
<1>14. QED
  BY <1>8, <1>9, <1>10, <1>11, <1>12, <1>13 DEF ReleaseInvariant

\* A supervisor that is killed leaves its services, its locks free, and is
\* looked for by the record and by a candidate that waits for it.
LEMMA KillSafe ==
    ASSUME ReleaseInvariant, NEW s \in Supervisors, Kill(s)
    PROVE  ReleaseInvariant'
<1>. USE ReleaseAssumption
<1>1. /\ sup \in [Supervisors -> SupRow] /\ sup[s].at \notin {"idle", "ended", "killed"}
      /\ s # Nobody /\ kills' \in 0..MaxKills /\ UNCHANGED <<record, groups>>
      /\ lost' = lost \cup {g \in Mine(s) : g \notin record.pids \/ Overlooked(s, g)}
      /\ cutover' \in {cutover, Nobody} /\ cutover' # s
      /\ (cutover # s => cutover' = cutover)
      /\ writer' \in {writer, Nobody} /\ writer' # s /\ (writer # s => writer' = writer)
  BY DEF Kill, Freed, Exists, ReleaseInvariant, ReleaseTypeOK
<1>2. /\ \A c \in Supervisors \ {s} : sup'[c] = sup[c]
      /\ sup'[s].at = "killed" /\ sup'[s].may = sup[s].may /\ sup'[s].was = sup[s].was
      /\ sup'[s].try = sup[s].try /\ sup' \in [Supervisors -> SupRow]
  <2>1. PICK row : row = [sup[s] EXCEPT !.at = "killed", !.seen = NoRecord]
    OBVIOUS
  <2>2. sup[s] \in SupRow
    BY <1>1
  <2>3. /\ row \in SupRow /\ row.at = "killed" /\ row.may = sup[s].may
        /\ row.was = sup[s].was /\ row.try = sup[s].try
    BY <2>1, <2>2, NoRecordType DEF SupRow, Stages
  <2>4. sup' = [sup EXCEPT ![s] = row]
    BY <1>1, <2>1 DEF Kill
  <2>5. QED
    BY <1>1, <2>3, <2>4
<1>3. ReleaseTypeOK'
  BY <1>1, <1>2 DEF ReleaseInvariant, ReleaseTypeOK, Mine
<1>4. LocksHeld'
  BY <1>1, <1>2 DEF ReleaseInvariant, LocksHeld, At, Replacing, Serving, Writing
<1>5. FallsBackTwice'
  BY <1>2 DEF ReleaseInvariant, FallsBackTwice, At, Exists
<1>6. RecordIsTheWriters'
  BY <1>1, <1>2 DEF ReleaseInvariant, RecordIsTheWriters
<1>7. PredecessorIsKnown'
  BY <1>1, <1>2 DEF ReleaseInvariant, PredecessorIsKnown, At
<1>8. GroupsAreKnown'
  <2>1. \A g \in groups : g.by \in Supervisors
    BY DEF ReleaseInvariant, ReleaseTypeOK, Group
  <2>2. /\ \A g \in groups :
             /\ sup'[g.by].at \in Serving \cup {"killed"}
             /\ sup'[g.by].at # "killed" => g.of = sup'[g.by].unit /\ g.try = sup'[g.by].try
        /\ \A g \in lost' : sup'[g.by].at = "killed"
    BY <1>1, <1>2, <2>1 DEF ReleaseInvariant, GroupsAreKnown, At, Mine, ReleaseTypeOK
  <2>3. ASSUME NEW g \in groups \ lost', sup'[g.by].at = "killed"
        PROVE  /\ g \in record.pids /\ writer' = Nobody
               /\ \A c \in Supervisors : sup'[c].at # "leasing"
               /\ \A c \in Supervisors : sup'[c].at = "waiting" => g \in sup'[c].seen.pids
    <3>1. CASE g.by = s
      <4>1. g \in record.pids /\ ~Overlooked(s, g)
        BY <1>1, <2>3, <3>1 DEF Mine
      <4>2. sup[s].at \in Serving /\ writer = s /\ record.by = s
        BY <1>1, <2>3, <3>1, <4>1 DEF ReleaseInvariant, GroupsAreKnown, At, LocksHeld, Writing,
                                      RecordIsTheWriters
      <4>3. writer' = Nobody /\ \A c \in Supervisors : sup'[c].at # "leasing"
        BY <1>1, <1>2, <4>2 DEF ReleaseInvariant, PredecessorIsKnown, At
      <4>4. ASSUME NEW c \in Supervisors, sup'[c].at = "waiting"
            PROVE  g \in sup'[c].seen.pids
        <5>1. c # s /\ sup'[c] = sup[c]
          BY <1>2, <4>4
        <5>2. sup[c].seen.by = s
          BY <4>2, <4>4, <5>1 DEF ReleaseInvariant, PredecessorIsKnown
        <5>3. QED
          BY <4>1, <4>4, <5>1, <5>2 DEF Overlooked, At
      <4>5. QED
        BY <4>1, <4>3, <4>4
    <3>2. CASE g.by # s
      <4>1. g \in groups \ lost /\ At(g.by, "killed")
        BY <1>1, <1>2, <2>1, <2>3, <3>2 DEF At
      <4>2. QED
        BY <1>1, <1>2, <4>1 DEF ReleaseInvariant, GroupsAreKnown, At
    <3>3. QED
      BY <3>1, <3>2
  <2>4. QED
    BY <1>1, <2>2, <2>3 DEF GroupsAreKnown, At
<1>9. QED
  BY <1>3, <1>4, <1>5, <1>6, <1>7, <1>8 DEF ReleaseInvariant

\* What outlived its supervisor may end.
LEMMA OrphanEndsSafe ==
    ASSUME ReleaseInvariant, NEW g \in groups, OrphanEnds(g)
    PROVE  ReleaseInvariant'
<1>1. groups' = groups \ {g} /\ lost' = lost \ {g}
      /\ UNCHANGED <<sup, record, cutover, writer, kills>>
  BY DEF OrphanEnds
<1>2. ReleaseTypeOK'
  BY <1>1 DEF ReleaseInvariant, ReleaseTypeOK
<1>3. LocksHeld' /\ RecordIsTheWriters'
  BY <1>1 DEF ReleaseInvariant, LocksHeld, RecordIsTheWriters, At
<1>4. FallsBackTwice' /\ PredecessorIsKnown'
  BY <1>1 DEF ReleaseInvariant, FallsBackTwice, PredecessorIsKnown, At, Exists
<1>5. GroupsAreKnown'
  BY <1>1 DEF ReleaseInvariant, GroupsAreKnown, At
<1>6. QED
  BY <1>2, <1>3, <1>4, <1>5 DEF ReleaseInvariant

\* Every step keeps the invariant.
LEMMA ReleaseStepSafe == ReleaseInvariant /\ [ReleaseNext]_releaseVars => ReleaseInvariant'
<1>. SUFFICES ASSUME ReleaseInvariant, [ReleaseNext]_releaseVars PROVE ReleaseInvariant'
  OBVIOUS
<1>1. CASE UNCHANGED releaseVars
  BY <1>1 DEF releaseVars, ReleaseInvariant, ReleaseTypeOK, LocksHeld, FallsBackTwice,
              RecordIsTheWriters, PredecessorIsKnown, GroupsAreKnown, At, Exists
<1>2. ASSUME NEW s \in Supervisors,
             \/ \E r \in Releases : Invoke(s, r)
             \/ CheckRecord(s) \/ Refuse(s) \/ SignalPrevious(s) \/ PreviousStopped(s)
             \/ PreviousStays(s) \/ TakeWriter(s) \/ Launch(s) \/ RecordStarting(s)
             \/ BecomeReady(s) \/ StartFails(s) \/ ServiceExits(s) \/ Retreat(s)
             \/ StopPlanned(s) \/ Close(s) \/ Terminate(s) \/ Kill(s)
      PROVE  ReleaseInvariant'
  BY <1>2, InvokeSafe, CheckRecordSafe, RefuseSafe, SignalPreviousSafe, PreviousStoppedSafe,
     PreviousStaysSafe, TakeWriterSafe, LaunchSafe, RecordingsSafe, BecomeReadySafe,
     RetreatSafe, CloseSafe, TerminateSafe, KillSafe
<1>3. ASSUME NEW g \in groups, OrphanEnds(g)
      PROVE  ReleaseInvariant'
  BY <1>3, OrphanEndsSafe
<1>4. QED
  BY <1>1, <1>2, <1>3 DEF ReleaseNext

\* The inductive invariant of the release: whoever is invoked, stopped or
\* killed and whatever is asked to run, the locks, the record and the groups
\* of processes agree as it says (release_commands.py: operate_release).
THEOREM ReleaseSafe == ReleaseSpec => []ReleaseInvariant
<1>1. ReleaseInit => ReleaseInvariant
  BY ReleaseInitSafe
<1>2. ReleaseInvariant /\ [ReleaseNext]_releaseVars => ReleaseInvariant'
  BY ReleaseStepSafe
<1>3. QED
  BY <1>1, <1>2, PTL DEF ReleaseSpec

\* The groups that are looked for are one at most.
LEMMA OneIsLookedFor ==
    ASSUME ReleaseInvariant, NEW g \in groups \ lost, NEW h \in groups \ lost
    PROVE  g = h
<1>1. g \in Group /\ h \in Group
  BY DEF ReleaseInvariant, ReleaseTypeOK
<1>2. ASSUME NEW x \in groups \ lost, x \in Group
      PROVE  \/ sup[x.by].at = "killed" /\ x \in record.pids /\ writer = Nobody
             \/ /\ writer = x.by /\ x.by # Nobody
                /\ x.of = sup[x.by].unit /\ x.try = sup[x.by].try
  BY <1>2, ReleaseAssumption DEF ReleaseInvariant, GroupsAreKnown, LocksHeld, At, Writing, Group
<1>3. CASE g \in record.pids /\ h \in record.pids
  BY <1>3 DEF ReleaseInvariant, RecordIsTheWriters
<1>4. CASE g.by = h.by /\ g.of = h.of /\ g.try = h.try
  BY <1>1, <1>4 DEF Group
<1>5. QED
  BY <1>1, <1>2, <1>3, <1>4

\* One group of services writes at any time, however many supervisors are
\* invoked, stopped and killed, as long as what a killed one left is looked
\* for (release_commands.py: check_record, start_core, stop_core).
THEOREM OneGroupRuns == ReleaseSpec => []OneRecordedGroup
<1>1. ReleaseInvariant => OneRecordedGroup
  <2>. SUFFICES ASSUME ReleaseInvariant, lost = {} PROVE Cardinality(groups) <= 1
    BY DEF OneRecordedGroup
  <2>1. \A g, h \in groups : g = h
    BY OneIsLookedFor
  <2>2. CASE groups = {}
    BY <2>2, FS_EmptySet
  <2>3. CASE groups # {}
    <3>1. PICK g \in groups : TRUE
      BY <2>3
    <3>2. groups = {g}
      BY <2>1, <3>1
    <3>3. Cardinality({g}) = 1
      BY FS_Singleton
    <3>4. QED
      BY <3>2, <3>3
  <2>4. QED
    BY <2>2, <2>3
<1>2. QED
  BY <1>1, ReleaseSafe, PTL

\* Every reachable state of the release is well typed.
THEOREM ReleaseTypeCorrect == ReleaseSpec => []ReleaseTypeOK
<1>1. ReleaseInvariant => ReleaseTypeOK
  BY DEF ReleaseInvariant
<1>2. QED
  BY <1>1, ReleaseSafe, PTL

-----------------------------------------------------------------------------
(* Numbers.                                                                  *)

\* A set of numbers that is not empty has a least one.
LEMMA LeastNat ==
    ASSUME NEW S \in SUBSET Nat, S # {}
    PROVE  \E m \in S : \A n \in S : m <= n
<1>1. PICK R : R = OpToRel(<, Nat)
  OBVIOUS
<1>2. IsWellFoundedOn(R, Nat)
  BY <1>1, NatLessThanWellFounded
<1>3. PICK m \in S : \A n \in S : <<n, m>> \notin R
  BY <1>2, WFMin
<1>4. \A n, k \in Nat : n < k => <<n, k>> \in R
  BY <1>1 DEF OpToRel
<1>5. \A n \in S : n \in Nat /\ m \in Nat /\ ~(n < m)
  BY <1>3, <1>4
<1>6. \A n \in S : m <= n
  BY <1>5
<1>7. QED
  BY <1>3, <1>6

\* A number is its quotient times the divisor and less than the divisor more.
LEMMA DivFacts ==
    ASSUME NEW n \in Nat, NEW k \in Nat, k > 0
    PROVE  /\ n \div k \in Nat /\ k * (n \div k) \in Nat
           /\ k * (n \div k) <= n /\ n < k * (n \div k) + k
OBVIOUS

\* Multiplication by an interval keeps the order.
LEMMA TimesKeepsOrder ==
    ASSUME NEW a \in Int, NEW b \in Int, NEW k \in Nat, k > 0
    PROVE  /\ k * a \in Int /\ (a < b <=> k * a < k * b) /\ (a <= b <=> k * a <= k * b)
           /\ (k * a = k * b => a = b) /\ k * (a + 1) = k * a + k /\ k * (a - 1) = k * a - k
           /\ k * a + k * b = k * (a + b)
OBVIOUS

\* The multiples are what leaves nothing.
LEMMA Multiples ==
    ASSUME NEW t \in Nat, NEW k \in Nat, k > 0
    PROVE  /\ t % k = 0 => t = k * (t \div k)
           /\ \A q \in Nat : (k * q) % k = 0
OBVIOUS

-----------------------------------------------------------------------------
(* ProductForecast.                                                         *)

\* The numbers of the module are numbers.
LEMMA ProductNumbers ==
    /\ Interval \in Nat /\ Interval > 0 /\ 1 \in Directions /\ Directions \subseteq Nat
    /\ Available \in [Sources -> Nat] /\ HorizonEnd \in [Sources -> Nat]
<1>1. /\ Interval \in Nat /\ Interval > 0
      /\ Available \in [Sources -> Nat] /\ HorizonEnd \in [Sources -> Nat]
  BY ProductAssumption
<1>2. PICK c \in Nat : c = Cardinality(Directions)
  BY ProductAssumption, FS_CardinalityType
<1>3. Directions = 1..c /\ Directions # {}
  BY <1>2, ProductAssumption
<1>4. 1 \in Directions /\ Directions \subseteq Nat
  BY <1>3
<1>5. QED
  BY <1>1, <1>4

\* Multiple a of k is the first behind h.
FirstBehind(k, a, h) == k * a - k <= h /\ h < k * a
CountFits(k, h, e, a) ==
    Cardinality({t \in (h + 1)..e : t % k = 0})
      = IF k * a > e THEN 0 ELSE (e - k * a) \div k + 1

\* How many multiples lie behind one time and not behind another, when the
\* first of them is known.
LEMMA CountMultiples ==
    ASSUME NEW k \in Nat, k > 0, NEW h \in Nat, NEW e \in Nat, NEW a \in Nat,
           FirstBehind(k, a, h)
    PROVE  CountFits(k, h, e, a)
<1>. USE DEF FirstBehind, CountFits
<1>. DEFINE T == {t \in (h + 1)..e : t % k = 0}
<1>1. ASSUME NEW t \in T PROVE t \in Nat /\ t \div k \in Nat /\ t = k * (t \div k) /\ a <= t \div k
  <2>1. t \in Nat /\ t % k = 0 /\ h < t
    OBVIOUS
  <2>2. t \div k \in Nat /\ t = k * (t \div k)
    BY <2>1, DivFacts, Multiples
  <2>3. PICK q \in Nat : q = t \div k
    BY <2>2
  <2>4. k * (a - 1) < k * q /\ a - 1 \in Int
    BY <2>1, <2>2, <2>3, TimesKeepsOrder
  <2>5. a - 1 < q
    BY <2>4, TimesKeepsOrder
  <2>6. QED
    BY <2>1, <2>2, <2>3, <2>5
<1>2. k * a \in Nat
  OBVIOUS
<1>3. CASE k * a > e
  <2>1. ASSUME NEW t \in T PROVE FALSE
    <3>1. t <= e /\ t \in Nat
      OBVIOUS
    <3>2. PICK q \in Nat : q = t \div k /\ t = k * q /\ a <= q
      BY <1>1
    <3>3. k * a <= k * q
      BY <3>2, TimesKeepsOrder
    <3>4. QED
      BY <1>2, <1>3, <3>1, <3>2, <3>3
  <2>2. T = {}
    BY <2>1
  <2>3. QED
    BY <1>3, <2>2, FS_EmptySet
<1>4. CASE ~(k * a > e)
  <2>1. PICK room \in Nat : room = e - k * a
    BY <1>2, <1>4
  <2>2. PICK m \in Nat : m = room \div k /\ k * m <= room /\ room < k * m + k
    BY <2>1, DivFacts
  <2>. DEFINE f == [q \in a..(a + m) |-> k * q]
  <2>3. ASSUME NEW q \in a..(a + m) PROVE k * q \in T
    <3>1. q \in Nat /\ k * a <= k * q /\ k * q <= k * (a + m) /\ k * q \in Nat
      BY TimesKeepsOrder
    <3>2. k * (a + m) = k * a + k * m /\ k * m \in Nat
      BY TimesKeepsOrder
    <3>3. k * q <= e /\ h < k * q
      BY <1>2, <2>1, <2>2, <3>1, <3>2
    <3>4. (k * q) % k = 0
      BY <3>1, Multiples
    <3>5. QED
      BY <3>1, <3>3, <3>4
  <2>4. ASSUME NEW t \in T PROVE \E q \in a..(a + m) : k * q = t
    <3>1. PICK q \in Nat : q = t \div k /\ t = k * q /\ a <= q
      BY <1>1
    <3>2. t <= e /\ t \in Nat
      OBVIOUS
    <3>3. k * (a + m + 1) = k * a + k * m + k /\ k * m \in Nat
      <4>1. k * (a + m) = k * a + k * m
        BY TimesKeepsOrder
      <4>2. k * (a + m + 1) = k * (a + m) + k
        BY TimesKeepsOrder
      <4>3. QED
        BY <4>1, <4>2
    <3>4. k * q < k * (a + m + 1)
      BY <1>2, <2>1, <2>2, <3>1, <3>2, <3>3
    <3>5. q < a + m + 1
      BY <3>4, TimesKeepsOrder
    <3>6. q \in a..(a + m)
      BY <3>1, <3>5
    <3>7. QED
      BY <3>1, <3>6
  <2>5. \A q, r \in a..(a + m) : k * q = k * r => q = r
    BY TimesKeepsOrder
  <2>6. f \in Bijection(a..(a + m), T)
    <3>1. f \in [a..(a + m) -> T] /\ \A q \in a..(a + m) : f[q] = k * q
      BY <2>3
    <3>. HIDE DEF f, T
    <3>2. \A q, r \in a..(a + m) : f[q] = f[r] => q = r
      BY <2>5, <3>1
    <3>3. \A t \in T : \E q \in a..(a + m) : f[q] = t
      BY <2>4, <3>1
    <3>4. IsInjective(f)
      BY <3>1, <3>2 DEF IsInjective
    <3>5. QED
      BY <3>1, <3>3, <3>4 DEF Bijection, Injection, Surjection
  <2>7. IsFiniteSet(a..(a + m)) /\ Cardinality(a..(a + m)) = m + 1
    <3>1. Cardinality(a..(a + m)) = IF a > a + m THEN 0 ELSE (a + m) - a + 1
      BY FS_Interval
    <3>2. IsFiniteSet(a..(a + m))
      BY FS_Interval
    <3>3. QED
      BY <3>1, <3>2
  <2>8. Cardinality(T) = m + 1
    BY <2>6, <2>7, FS_Bijection DEF ExistsBijection
  <2>9. QED
    BY <1>4, <2>1, <2>2, <2>8
<1>5. QED
  BY <1>3, <1>4

\* The next funding of a decision is the first multiple after it, unless the
\* interval is not known and it is that which the market state told.
LEMMA NextIsFirst ==
    ASSUME FundingInvariant
    PROVE  /\ \E a \in Nat : SaidNext = Interval * a /\ Interval * a - Interval <= hour
           /\ \E a \in Nat : NextFunding(Interval) = Interval * a
                             /\ Interval * a - Interval <= hour /\ hour < Interval * a
<1>1. PICK k \in Nat : k = Interval /\ k > 0
  BY ProductNumbers
<1>2. PICK m \in Nat, now \in Nat : m = heard["market"] /\ now = hour /\ m <= now
  BY DEF FundingInvariant, Feeds
<1>3. PICK b \in Nat : b = m \div k /\ k * b \in Nat /\ k * b <= m /\ m < k * b + k
  BY <1>1, DivFacts
<1>4. SaidNext = k * (b + 1) /\ k * (b + 1) = k * b + k /\ b + 1 \in Nat
  <2>1. SaidNext = k * (b + 1)
    BY <1>1, <1>2, <1>3 DEF SaidNext
  <2>2. k * (b + 1) = k * b + k /\ b + 1 \in Nat
    BY <1>1, <1>3, TimesKeepsOrder
  <2>3. QED
    BY <2>1, <2>2
<1>5. k * (b + 1) - k <= now
  BY <1>2, <1>3, <1>4
<1>6. CASE now < k * (b + 1)
  <2>1. NextFunding(Interval) = k * (b + 1)
    BY <1>1, <1>2, <1>4, <1>6, <1>3 DEF NextFunding
  <2>2. QED
    BY <1>1, <1>2, <1>4, <1>5, <1>6, <2>1
<1>7. CASE ~(now < k * (b + 1))
  <2>1. PICK room \in Nat : room = now - k * (b + 1)
    BY <1>3, <1>4, <1>7
  <2>2. PICK c \in Nat : c = room \div k /\ k * c \in Nat /\ k * c <= room /\ room < k * c + k
    BY <1>1, <2>1, DivFacts
  <2>3. NextFunding(Interval) = k * (b + 1) + k * (c + 1)
    BY <1>1, <1>2, <1>3, <1>4, <1>7, <2>1, <2>2 DEF NextFunding, Unknown
  <2>4. k * (b + 1) + k * (c + 1) = k * (b + 1 + (c + 1)) /\ k * (c + 1) = k * c + k
    BY <1>1, TimesKeepsOrder
  <2>5. PICK a \in Nat : a = b + 1 + (c + 1)
    BY <1>4
  <2>6. NextFunding(Interval) = k * a /\ k * a = now - room + k * c + k
    BY <1>3, <1>4, <2>1, <2>3, <2>4, <2>5
  <2>7. k * a - k <= now /\ now < k * a
    BY <2>2, <2>6
  <2>8. QED
    BY <1>1, <1>2, <1>4, <1>5, <2>6, <2>7
<1>8. QED
  BY <1>6, <1>7

\* A decision expects each funding after it and not after its horizon.
LEMMA ExpectedIsCounted ==
    ASSUME FundingInvariant, NEW f \in Sources, NEW interval \in KnownIntervals,
           Projectable(f, interval)
    PROVE  Expected(f, interval)
             = Cardinality({t \in (hour + 1)..HorizonEnd[f] : t % Interval = 0})
<1>1. PICK k \in Nat : k = Interval /\ k > 0
  BY ProductNumbers
<1>2. PICK now \in Nat, e \in Nat : now = hour /\ e = HorizonEnd[f] /\ now < e
  BY ProductNumbers DEF FundingInvariant, Projectable
<1>3. CASE interval = Interval
  <2>1. PICK a \in Nat : NextFunding(Interval) = k * a /\ k * a - k <= now /\ now < k * a
    BY <1>1, <1>2, NextIsFirst
  <2>2. Cardinality({t \in (now + 1)..e : t % k = 0})
          = IF k * a > e THEN 0 ELSE (e - k * a) \div k + 1
    <3>1. k \in Nat /\ k > 0 /\ now \in Nat /\ e \in Nat /\ a \in Nat
      BY <1>1
    <3>2. FirstBehind(k, a, now)
      BY <2>1 DEF FirstBehind
    <3>3. CountFits(k, now, e, a)
      BY <3>1, <3>2, CountMultiples
    <3>4. QED
      BY <3>3 DEF CountFits
  <2>3. QED
    BY <1>1, <1>2, <1>3, <2>1, <2>2 DEF Expected
<1>4. CASE interval = Unknown
  <2>1. PICK a \in Nat : SaidNext = k * a /\ k * a - k <= now
    BY <1>1, <1>2, NextIsFirst
  <2>2. ~(k * a <= e)
    BY <1>2, <1>4, <2>1 DEF Projectable
  <2>3. k * a \in Nat /\ k * a > e /\ now < k * a
    BY <1>1, <1>2, <2>2
  <2>4. Cardinality({t \in (now + 1)..e : t % k = 0})
          = IF k * a > e THEN 0 ELSE (e - k * a) \div k + 1
    <3>1. k \in Nat /\ k > 0 /\ now \in Nat /\ e \in Nat /\ a \in Nat
      BY <1>1
    <3>2. FirstBehind(k, a, now)
      BY <2>1, <2>3 DEF FirstBehind
    <3>3. CountFits(k, now, e, a)
      BY <3>1, <3>2, CountMultiples
    <3>4. QED
      BY <3>3 DEF CountFits
  <2>5. NextFunding(interval) = k * a
    BY <1>4, <2>1 DEF NextFunding
  <2>6. QED
    BY <1>1, <1>2, <2>3, <2>4, <2>5 DEF Expected
<1>5. QED
  BY <1>3, <1>4 DEF KnownIntervals

\* A decision is made of such projections.
LEMMA ProjectCounted ==
    ASSUME FundingInvariant, NEW f \in Sources, Project(f)
    PROVE  FundingInvariant'
<1>1. PICK interval \in KnownIntervals :
         /\ Projectable(f, interval)
         /\ decision' = [pc |-> "record",
                         todo |-> {[source |-> f, at |-> hour, direction |-> d,
                                    until |-> ValidUntil(f),
                                    fundings |-> Expected(f, interval)] : d \in Directions}]
  BY DEF Project
<1>2. PICK n : n = Expected(f, interval)
        /\ n = Cardinality({t \in (hour + 1)..HorizonEnd[f] : t % Interval = 0})
  BY <1>1, ExpectedIsCounted
<1>3. PICK until : until = ValidUntil(f)
  OBVIOUS
<1>4. PICK todo : todo = {[source |-> f, at |-> hour, direction |-> d, until |-> until,
                           fundings |-> n] : d \in Directions}
  OBVIOUS
<1>5. decision' = [pc |-> "record", todo |-> todo] /\ todo # {}
  BY <1>1, <1>2, <1>3, <1>4, ProductNumbers
<1>6. \A p \in todo :
         /\ p.direction \in Nat
         /\ p.fundings = Cardinality({t \in (p.at + 1)..End(p) : t % Interval = 0})
  <2>1. ASSUME NEW d \in Directions, NEW p,
               p = [source |-> f, at |-> hour, direction |-> d, until |-> until, fundings |-> n]
        PROVE  /\ p.direction \in Nat
               /\ p.fundings = Cardinality({t \in (p.at + 1)..End(p) : t % Interval = 0})
    <3>1. p.direction = d /\ p.at = hour /\ End(p) = HorizonEnd[f] /\ p.fundings = n
      BY <2>1 DEF End
    <3>2. QED
      BY <1>2, <3>1, ProductNumbers
  <2>2. QED
    BY <1>4, <2>1
<1>7. UNCHANGED <<hour, heard, projected>>
  BY DEF Project
<1>8. QED
  BY <1>5, <1>6, <1>7 DEF FundingInvariant, FundingIsCounted, End

\* What is recorded was decided.
LEMMA RecordCounted ==
    ASSUME FundingInvariant, RecordProjection
    PROVE  FundingInvariant'
<1>. DEFINE todo == decision.todo
            p == CHOOSE q \in todo : \A r \in todo : q.direction <= r.direction
<1>1. todo # {} /\ \A q \in todo : q.direction \in Nat
  BY DEF FundingInvariant, RecordProjection
<1>2. \E q \in todo : \A r \in todo : q.direction <= r.direction
  <2>1. {q.direction : q \in todo} \in SUBSET Nat /\ {q.direction : q \in todo} # {}
    BY <1>1
  <2>2. PICK m \in {q.direction : q \in todo} : \A n \in {q.direction : q \in todo} : m <= n
    BY <2>1, LeastNat
  <2>3. QED
    BY <2>2
<1>3. p \in todo
  BY <1>2
<1>4. PICK one \in todo : one = p
  BY <1>3
<1>5. projected' = projected \cup {one} /\ UNCHANGED <<hour, heard>>
      /\ decision' = IF todo \ {one} = {} THEN NoDecision
                     ELSE [decision EXCEPT !.todo = todo \ {one}]
  BY <1>4 DEF RecordProjection
<1>6. FundingIsCounted'
  BY <1>5 DEF FundingInvariant, FundingIsCounted, End
<1>7. /\ decision' = [pc |-> decision'.pc, todo |-> decision'.todo]
      /\ decision'.pc = "record" => decision'.todo # {}
      /\ decision'.todo \subseteq todo
  <2>1. CASE todo \ {one} = {}
    BY <1>5, <2>1 DEF NoDecision
  <2>2. CASE todo \ {one} # {}
    <3>1. decision = [pc |-> decision.pc, todo |-> decision.todo]
      BY DEF FundingInvariant
    <3>2. decision' = [pc |-> decision.pc, todo |-> todo \ {one}]
      BY <1>5, <2>2, <3>1
    <3>3. QED
      BY <2>2, <3>2
  <2>3. QED
    BY <2>1, <2>2
<1>8. QED
  BY <1>5, <1>6, <1>7 DEF FundingInvariant, End

\* Every step of the projections keeps the counts of their fundings.
THEOREM FundingInvariantHolds == ProductSpec => []FundingInvariant
<1>1. ProductInit => FundingInvariant
  BY DEF ProductInit, NoDecision, FundingInvariant, FundingIsCounted
<1>2. FundingInvariant /\ [ProductNext]_productVars => FundingInvariant'
  <2>1. SUFFICES ASSUME FundingInvariant, [ProductNext]_productVars PROVE FundingInvariant'
    OBVIOUS
  <2>2. ASSUME UNCHANGED <<decision, projected>>,
               hour' \in Nat /\ heard' \in [Feeds -> Nat] /\ \A d \in Feeds : heard'[d] <= hour'
        PROVE  FundingInvariant'
    BY <2>1, <2>2 DEF FundingInvariant, FundingIsCounted, End
  <2>3. hour \in Nat /\ heard \in [Feeds -> Nat] /\ \A d \in Feeds : heard[d] <= hour
    BY <2>1 DEF FundingInvariant
  <2>4. CASE HourPasses
    BY <2>2, <2>3, <2>4 DEF HourPasses
  <2>5. ASSUME NEW d \in Feeds, Observe(d) PROVE FundingInvariant'
    BY <2>2, <2>3, <2>5 DEF Observe
  <2>6. CASE StoreFunding \/ StartPass \/ SettleOne \/ PassDies \/ UNCHANGED productVars
    BY <2>2, <2>3, <2>6 DEF StoreFunding, StartPass, SettleOne, PassDies, productVars
  <2>7. CASE DecisionDies
    BY <2>1, <2>3, <2>7 DEF DecisionDies, NoDecision, FundingInvariant, FundingIsCounted, End
  <2>8. QED
    BY <2>1, <2>4, <2>5, <2>6, <2>7, ProjectCounted, RecordCounted DEF ProductNext
<1>3. QED
  BY <1>1, <1>2, PTL DEF ProductSpec

\* A projection expects each funding after its decision and not after its
\* horizon, once, whatever the market state it was told by said.
THEOREM FundingsAreCounted == ProductSpec => []FundingIsCounted
BY FundingInvariantHolds, PTL DEF FundingInvariant

\* A batch has all that is overdue, or is full of what is as late.
LEMMA BatchIsLateFirst ==
    ASSUME SettlementInvariant, NEW b \in Batches
    PROVE  /\ b \subseteq Due
           /\ \/ {p \in Due : Late(p, hour)} \subseteq b
              \/ Cardinality(b) = BatchSize /\ \A p \in b : Late(p, hour)
<1>1. PICK D : D = Due
  OBVIOUS
<1>2. D \subseteq projected /\ IsFiniteSet(projected)
  BY <1>1 DEF Due, SettlementInvariant
<1>3. IsFiniteSet(D)
  BY <1>2, FS_Subset
<1>4. b \in SUBSET D /\ \A p \in b, q \in D \ b : End(p) <= End(q)
  BY <1>1 DEF Batches, FirstDue
<1>5. Cardinality(b) = IF Cardinality(D) < BatchSize THEN Cardinality(D) ELSE BatchSize
  BY <1>1 DEF Batches
<1>6. CASE Cardinality(D) < BatchSize
  <2>1. Cardinality(b) = Cardinality(D)
    BY <1>5, <1>6
  <2>2. b = D
    BY <1>3, <1>4, <2>1, FS_Subset
  <2>3. QED
    BY <1>1, <2>2
<1>7. CASE ~(Cardinality(D) < BatchSize)
  <2>1. Cardinality(b) = BatchSize
    BY <1>5, <1>7
  <2>2. ASSUME NEW q \in D \ b, Late(q, hour), NEW p \in b PROVE Late(p, hour)
    <3>1. p.source \in Sources /\ q.source \in Sources /\ hour \in Nat
      BY <1>2, <1>4, <2>2 DEF SettlementInvariant
    <3>2. PICK x \in Nat, y \in Nat, t \in Nat : x = End(p) /\ y = End(q) /\ t = hour
      BY <3>1, ProductAssumption DEF End
    <3>3. x <= y /\ x <= t /\ y <= t /\ t - y >= Grace /\ Grace \in Nat
      BY <1>1, <1>4, <2>2, <3>2, ProductAssumption DEF Due, Late
    <3>4. t - x >= Grace
      BY <3>2, <3>3
    <3>5. QED
      BY <3>2, <3>4 DEF Late
  <2>3. QED
    BY <1>1, <1>4, <2>1, <2>2
<1>8. QED
  BY <1>1, <1>4, <1>6, <1>7

\* A pass is a record of what it has in hand and owes.
LEMMA PassShape ==
    ASSUME SettlementInvariant
    PROVE  \E todo, overdue \in SUBSET projected, asof, ended \in Nat, pc \in {"rest", "settle", "done"} :
              pass = [pc |-> pc, asof |-> asof, todo |-> todo, overdue |-> overdue, ended |-> ended]
<1>1. PICK todo, overdue, asof, ended, pc :
         /\ todo = pass.todo /\ overdue = pass.overdue /\ asof = pass.asof
         /\ ended = pass.ended /\ pc = pass.pc
  OBVIOUS
<1>2. pass = [pc |-> pc, asof |-> asof, todo |-> todo, overdue |-> overdue, ended |-> ended]
  BY <1>1 DEF SettlementInvariant
<1>3. /\ todo \in SUBSET projected /\ overdue \in SUBSET projected
      /\ asof \in Nat /\ ended \in Nat /\ pc \in {"rest", "settle", "done"}
  BY <1>1 DEF SettlementInvariant
<1>4. QED
  BY <1>2, <1>3

\* What leaves the pass and its outcomes as they are keeps the invariant.
LEMMA SettlementUndisturbed ==
    ASSUME SettlementInvariant, hour' \in Nat, UNCHANGED <<pass, terminal>>,
           projected \subseteq projected', IsFiniteSet(projected'),
           \A p \in projected' \cup decision'.todo : p.source \in Sources
    PROVE  SettlementInvariant'
BY DEF SettlementInvariant, Late, End

\* A pass that starts has its batch in hand.
LEMMA StartPassSettles ==
    ASSUME SettlementInvariant, StartPass PROVE SettlementInvariant'
<1>1. UNCHANGED <<hour, decision, projected, terminal>>
  BY DEF StartPass
<1>2. PICK b \in Batches :
         pass' = [pc |-> "settle", asof |-> hour, todo |-> b,
                  overdue |-> {p \in Due : Late(p, hour)}, ended |-> 0]
  BY DEF StartPass
<1>3. PICK late : late = {p \in Due : Late(p, hour)}
  OBVIOUS
<1>4. /\ b \subseteq projected /\ late \subseteq projected
      /\ late \subseteq b \/ (Cardinality(b) = BatchSize /\ \A p \in b : Late(p, hour))
  BY <1>3, BatchIsLateFirst DEF Due
<1>5. PICK t : t = hour /\ t = hour' /\ t \in Nat
  BY <1>1 DEF SettlementInvariant
<1>6. pass' = [pc |-> "settle", asof |-> t, todo |-> b, overdue |-> late, ended |-> 0]
  BY <1>2, <1>3, <1>5
<1>7. \A p \in late : Late(p, t)
  BY <1>3, <1>5
<1>8. BatchSize \in Nat
  BY ProductAssumption
<1>9. Cardinality(b) = BatchSize => Cardinality(b) + 0 = BatchSize
  BY <1>8
<1>10. (pass.pc # "rest" =>
          /\ \A p \in pass.overdue : Late(p, pass.asof)
          /\ \/ pass.overdue \subseteq DOMAIN terminal \cup pass.todo
             \/ /\ Cardinality(pass.todo) + pass.ended = BatchSize
                /\ \A p \in pass.todo : Late(p, pass.asof))'
  BY <1>4, <1>5, <1>6, <1>7, <1>9 DEF Late, End
<1>11. QED
  BY <1>1, <1>4, <1>5, <1>6, <1>10 DEF SettlementInvariant

\* A projection that waits is not overdue; every other one is terminal.
LEMMA SettleOneSettles ==
    ASSUME SettlementInvariant, SettleOne PROVE SettlementInvariant'
<1>1. UNCHANGED <<hour, decision, projected>> /\ pass.pc = "settle"
  BY DEF SettleOne
<1>2. PICK todo \in SUBSET projected, overdue \in SUBSET projected,
           asof \in Nat, ended \in Nat, pc \in {"rest", "settle", "done"} :
         pass = [pc |-> pc, asof |-> asof, todo |-> todo, overdue |-> overdue, ended |-> ended]
  BY PassShape
<1>3. PICK p \in todo, waits \in BOOLEAN, rest \in SUBSET todo, status \in {"SETTLED", "UNAVAILABLE"} :
         /\ rest = todo \ {p}
         /\ waits => ~Late(p, asof)
         /\ terminal' = IF waits THEN terminal
                        ELSE [q \in DOMAIN terminal \cup {p} |->
                                IF q # p THEN terminal[q] ELSE status]
         /\ pass' = [pass EXCEPT
                       !.todo  = rest,
                       !.ended = IF waits THEN @ ELSE @ + 1,
                       !.pc    = IF rest = {} THEN "done" ELSE "settle"]
  <2>1. PICK p \in todo, priced \in BOOLEAN :
           LET complete == priced /\ FundingComplete(p)
               waits == ~complete /\ ~Late(p, pass.asof)
               rest  == pass.todo \ {p}
           IN  /\ terminal' = IF waits THEN terminal
                              ELSE [q \in DOMAIN terminal \cup {p} |->
                                     IF q # p THEN terminal[q]
                                     ELSE IF complete THEN "SETTLED" ELSE "UNAVAILABLE"]
               /\ pass' = [pass EXCEPT
                             !.todo  = rest,
                             !.ended = IF waits THEN @ ELSE @ + 1,
                             !.pc    = IF rest = {} THEN "done" ELSE "settle"]
    BY <1>2 DEF SettleOne
  <2>2. PICK complete \in BOOLEAN : complete = (priced /\ FundingComplete(p))
    OBVIOUS
  <2>3. PICK waits \in BOOLEAN : waits = (~complete /\ ~Late(p, asof))
    OBVIOUS
  <2>4. PICK rest \in SUBSET todo : rest = todo \ {p}
    OBVIOUS
  <2>5. PICK status \in {"SETTLED", "UNAVAILABLE"} :
           status = IF complete THEN "SETTLED" ELSE "UNAVAILABLE"
    OBVIOUS
  <2>6. pass.asof = asof /\ pass.todo = todo
    BY <1>2
  <2>7. terminal' = IF waits THEN terminal
                    ELSE [q \in DOMAIN terminal \cup {p} |->
                            IF q # p THEN terminal[q] ELSE status]
    BY <2>1, <2>2, <2>3, <2>5, <2>6
  <2>8. pass' = [pass EXCEPT
                   !.todo  = rest,
                   !.ended = IF waits THEN @ ELSE @ + 1,
                   !.pc    = IF rest = {} THEN "done" ELSE "settle"]
    BY <2>1, <2>2, <2>3, <2>4, <2>6
  <2>9. QED
    BY <2>3, <2>4, <2>7, <2>8
<1>4. PICK more \in Nat : more = IF waits THEN ended ELSE ended + 1
  OBVIOUS
<1>5. PICK next \in {"settle", "done"} : next = IF rest = {} THEN "done" ELSE "settle"
  OBVIOUS
<1>6. pass' = [pc |-> next, asof |-> asof, todo |-> rest, overdue |-> overdue, ended |-> more]
  BY <1>2, <1>3, <1>4, <1>5
<1>7. DOMAIN terminal' = IF waits THEN DOMAIN terminal ELSE DOMAIN terminal \cup {p}
  BY <1>3
<1>8. \A q \in overdue : Late(q, asof)
  BY <1>1, <1>2 DEF SettlementInvariant
<1>9. /\ pass'.pc # "settle" => pass'.todo = {}
       /\ pass'.pc # "rest" /\ pass'.todo = rest /\ pass'.overdue = overdue
       /\ pass'.asof = asof /\ pass'.ended = more
  BY <1>5, <1>6
<1>10. CASE overdue \subseteq DOMAIN terminal \cup todo
  <2>1. overdue \subseteq DOMAIN terminal' \cup rest
    BY <1>3, <1>7, <1>8, <1>10
  <2>2. QED
    BY <1>1, <1>6, <1>8, <1>9, <2>1 DEF SettlementInvariant, Late, End
<1>11. CASE Cardinality(todo) + ended = BatchSize /\ \A q \in todo : Late(q, asof)
  <2>1. ~waits /\ more = ended + 1
    BY <1>3, <1>4, <1>11
  <2>2. IsFiniteSet(todo)
    BY FS_Subset DEF SettlementInvariant
  <2>3. Cardinality(rest) = Cardinality(todo) - 1 /\ Cardinality(todo) \in Nat
    BY <1>3, <2>2, FS_RemoveElement, FS_CardinalityType
  <2>4. Cardinality(rest) + more = BatchSize
    BY <1>11, <2>1, <2>3
  <2>5. \A q \in rest : Late(q, asof)
    BY <1>3, <1>11
  <2>6. QED
    BY <1>1, <1>6, <1>8, <1>9, <2>4, <2>5 DEF SettlementInvariant, Late, End
<1>12. QED
  BY <1>1, <1>2, <1>10, <1>11 DEF SettlementInvariant

\* What is recorded was decided, and is of a persisted forecast.
LEMMA RecordedWasDecided ==
    ASSUME FundingInvariant, RecordProjection
    PROVE  \E p \in decision.todo :
              /\ projected' = projected \cup {p} /\ UNCHANGED <<hour, terminal, pass>>
              /\ decision' = IF decision.todo \ {p} = {} THEN NoDecision
                             ELSE [decision EXCEPT !.todo = decision.todo \ {p}]
<1>1. PICK todo : todo = decision.todo /\ todo # {} /\ \A q \in todo : q.direction \in Nat
  BY DEF FundingInvariant, RecordProjection
<1>2. \E q \in todo : \A r \in todo : q.direction <= r.direction
  <2>1. {q.direction : q \in todo} \in SUBSET Nat /\ {q.direction : q \in todo} # {}
    BY <1>1
  <2>2. PICK m \in {q.direction : q \in todo} : \A n \in {q.direction : q \in todo} : m <= n
    BY <2>1, LeastNat
  <2>3. QED
    BY <2>2
<1>3. PICK p : p = CHOOSE q \in todo : \A r \in todo : q.direction <= r.direction
  OBVIOUS
<1>4. p \in todo
  BY <1>2, <1>3
<1>5. /\ projected' = projected \cup {p} /\ UNCHANGED <<hour, terminal, pass>>
      /\ decision' = IF decision.todo \ {p} = {} THEN NoDecision
                     ELSE [decision EXCEPT !.todo = decision.todo \ {p}]
  BY <1>1, <1>3 DEF RecordProjection
<1>6. QED
  BY <1>1, <1>4, <1>5

\* Every step of the projections and their settlement keeps what a pass owes.
THEOREM SettlementSafe == ProductSpec => []SettlementInvariant
<1>1. ProductInit => SettlementInvariant
  <2>. SUFFICES ASSUME ProductInit PROVE SettlementInvariant
    OBVIOUS
  <2>1. QED
    BY FS_EmptySet DEF ProductInit, NoDecision, NoPass, SettlementInvariant
<1>2. FundingInvariant /\ SettlementInvariant /\ [ProductNext]_productVars => SettlementInvariant'
  <2>. SUFFICES ASSUME FundingInvariant, SettlementInvariant, [ProductNext]_productVars
                PROVE  SettlementInvariant'
    OBVIOUS
  <2>1. /\ hour \in Nat /\ IsFiniteSet(projected)
        /\ \A p \in projected \cup decision.todo : p.source \in Sources
    BY DEF SettlementInvariant
  <2>2. ASSUME UNCHANGED <<pass, terminal, projected>>, hour' \in {hour, hour + 1},
               decision' = decision \/ decision' = NoDecision
        PROVE  SettlementInvariant'
    BY <2>1, <2>2, SettlementUndisturbed DEF NoDecision
  <2>3. CASE HourPasses
    BY <2>2, <2>3 DEF HourPasses
  <2>4. CASE StoreFunding \/ DecisionDies \/ UNCHANGED productVars
    BY <2>2, <2>4 DEF StoreFunding, DecisionDies, productVars
  <2>5. ASSUME NEW d \in Feeds, Observe(d) PROVE SettlementInvariant'
    BY <2>2, <2>5 DEF Observe
  <2>6. ASSUME NEW f \in Sources, Project(f) PROVE SettlementInvariant'
    <3>1. UNCHANGED <<hour, projected, terminal, pass>>
      BY <2>6 DEF Project
    <3>2. \A p \in decision'.todo : p.source = f
      BY <2>6 DEF Project
    <3>3. QED
      BY <2>1, <2>6, <3>1, <3>2, SettlementUndisturbed
  <2>7. CASE RecordProjection
    <3>1. PICK p \in decision.todo :
             /\ projected' = projected \cup {p} /\ UNCHANGED <<hour, terminal, pass>>
             /\ decision' = IF decision.todo \ {p} = {} THEN NoDecision
                            ELSE [decision EXCEPT !.todo = decision.todo \ {p}]
      BY <2>7, RecordedWasDecided
    <3>2. \A q \in decision'.todo : q \in decision.todo
      <4>1. CASE decision.todo \ {p} = {}
        BY <3>1, <4>1 DEF NoDecision
      <4>2. CASE decision.todo \ {p} # {}
        <5>1. decision = [pc |-> decision.pc, todo |-> decision.todo]
          BY DEF FundingInvariant
        <5>2. decision' = [pc |-> decision.pc, todo |-> decision.todo \ {p}]
          BY <3>1, <4>2, <5>1
        <5>3. QED
          BY <5>2
      <4>3. QED
        BY <4>1, <4>2
    <3>3. IsFiniteSet(projected')
      BY <2>1, <3>1, FS_AddElement
    <3>4. QED
      BY <2>1, <3>1, <3>2, <3>3, SettlementUndisturbed
  <2>8. CASE PassDies
    BY <2>8 DEF PassDies, NoPass, SettlementInvariant
  <2>9. QED
    BY <2>3, <2>4, <2>5, <2>6, <2>7, <2>8, StartPassSettles, SettleOneSettles DEF ProductNext
<1>3. QED
  BY <1>1, <1>2, FundingInvariantHolds, PTL DEF ProductSpec

\* A settlement that ran to its end leaves no projection past its grace open
\* unless it was full of outcomes (forecast/product/settlement.py orders its
\* batch by the end of the horizon): those that wait never crowd them out.
THEOREM OverdueAreSettled == ProductSpec => []SettlesTheOverdue
<1>1. SettlementInvariant => SettlesTheOverdue
  <2>. SUFFICES ASSUME SettlementInvariant, pass.pc = "done"
                PROVE  pass.overdue \subseteq DOMAIN terminal \/ pass.ended = BatchSize
    BY DEF SettlesTheOverdue
  <2>1. PICK todo \in SUBSET projected, overdue \in SUBSET projected,
             asof \in Nat, ended \in Nat, pc \in {"rest", "settle", "done"} :
           pass = [pc |-> pc, asof |-> asof, todo |-> todo, overdue |-> overdue, ended |-> ended]
    BY PassShape
  <2>2. pass.todo = {} /\ Cardinality(pass.todo) = 0
    BY FS_EmptySet DEF SettlementInvariant
  <2>3. QED
    BY <2>1, <2>2 DEF SettlementInvariant
<1>2. QED
  BY <1>1, SettlementSafe, PTL

-----------------------------------------------------------------------------
(* Sums over finite sets.                                                    *)

\* The element of a set a sum takes next.
Any(s) == CHOOSE x \in s : TRUE

\* What a function of the subsets must say to be the sums of f over them.
SumsUp(f, S, sums) ==
    sums = [s \in SUBSET S |->
              IF s = {} THEN 0
              ELSE f[Any(s)] + sums[s \ {Any(s)}]]

\* A total is what such a function says of the whole.
LEMMA TotalIs ==
    ASSUME NEW f, NEW S
    PROVE  Total(f, S) = (CHOOSE sums : SumsUp(f, S, sums))[S]
BY DEF Total, MapThenSumSet, MapThenFoldSet, SumsUp, Any

\* There is one: were there a size up to which it does not reach, then a
\* least, and the sums up to the size before would reach it.
LEMMA SumsExist ==
    ASSUME NEW S, IsFiniteSet(S), NEW f \in [S -> Int]
    PROVE  \E sums : SumsUp(f, S, sums)
<1>. DEFINE D(n) == {s \in SUBSET S : Cardinality(s) <= n}
            Sum(h, s) == IF s = {} THEN 0 ELSE f[Any(s)] + h[s \ {Any(s)}]
            Good(n) == \E h \in [D(n) -> Int] : \A s \in D(n) : h[s] = Sum(h, s)
<1>1. \A s \in SUBSET S : IsFiniteSet(s) /\ Cardinality(s) \in Nat /\ Cardinality(s) <= Cardinality(S)
  BY FS_Subset, FS_CardinalityType
<1>2. \A s \in SUBSET S : s # {} => Any(s) \in s /\ f[Any(s)] \in Int
  BY DEF Any
<1>3. \A s \in SUBSET S : s # {} => Cardinality(s \ {Any(s)}) = Cardinality(s) - 1
  BY <1>1, <1>2, FS_RemoveElement
<1>4. Good(0)
  <2>1. \A s \in D(0) : s = {}
    BY <1>1, FS_EmptySet
  <2>2. PICK h : h = [s \in D(0) |-> 0]
    OBVIOUS
  <2>3. h \in [D(0) -> Int] /\ \A s \in D(0) : h[s] = Sum(h, s)
    BY <2>1, <2>2
  <2>4. QED
    BY <2>3
<1>5. ASSUME NEW n \in Nat, Good(n) PROVE Good(n + 1)
  <2>1. PICK h \in [D(n) -> Int] : \A s \in D(n) : h[s] = Sum(h, s)
    BY <1>5
  <2>2. \A s \in D(n + 1) : s # {} => s \ {Any(s)} \in D(n)
    BY <1>1, <1>3
  <2>3. PICK g : g = [s \in D(n + 1) |-> Sum(h, s)]
    OBVIOUS
  <2>4. ASSUME NEW s \in D(n + 1) PROVE Sum(h, s) \in Int
    BY <1>2, <2>1, <2>2
  <2>5. g \in [D(n + 1) -> Int]
    BY <2>3, <2>4
  <2>6. \A s \in D(n) : s \in D(n + 1) /\ g[s] = h[s]
    <3>1. \A s \in D(n) : s \in D(n + 1)
      BY <1>1
    <3>. HIDE DEF D
    <3>2. \A s \in D(n) : g[s] = Sum(h, s)
      BY <2>3, <3>1
    <3>. HIDE DEF Sum
    <3>3. QED
      BY <2>1, <3>1, <3>2
  <2>7. \A s \in D(n + 1) : g[s] = Sum(g, s)
    BY <2>2, <2>3, <2>6
  <2>8. QED
    BY <2>5, <2>7
<1>6. \A n \in Nat : Good(n)
  <2>1. PICK Bad : Bad = {n \in Nat : ~Good(n)}
    OBVIOUS
  <2>. HIDE DEF Good
  <2>2. ASSUME Bad # {} PROVE FALSE
    <3>1. PICK m \in Bad : \A n \in Bad : m <= n
      BY <2>1, <2>2, LeastNat
    <3>2. m \in Nat /\ m # 0 /\ m - 1 \in Nat
      BY <1>4, <2>1, <3>1
    <3>3. m - 1 \notin Bad
      BY <3>1, <3>2
    <3>4. Good(m - 1 + 1)
      BY <1>5, <2>1, <3>2, <3>3
    <3>5. m - 1 + 1 = m
      BY <3>2
    <3>6. QED
      BY <2>1, <3>1, <3>4, <3>5
  <2>3. QED
    BY <2>1, <2>2
<1>7. Cardinality(S) \in Nat /\ D(Cardinality(S)) = SUBSET S
  BY <1>1
<1>8. PICK h \in [SUBSET S -> Int] : \A s \in SUBSET S : h[s] = Sum(h, s)
  <2>1. PICK n \in Nat : n = Cardinality(S)
    BY <1>7
  <2>2. D(n) = SUBSET S
    BY <1>7, <2>1
  <2>. HIDE DEF D, Sum
  <2>3. \E h \in [D(n) -> Int] : \A s \in D(n) : h[s] = Sum(h, s)
    BY <1>6
  <2>4. QED
    BY <2>2, <2>3
<1>9. SumsUp(f, S, h)
  BY <1>8 DEF SumsUp
<1>10. QED
  BY <1>9

\* The parts of a finite set, from the empty one on: what holds of it and
\* carries over from the parts with one element less holds of the set.
LEMMA PartByPart ==
    ASSUME NEW S, IsFiniteSet(S), NEW Good, {} \in Good,
           \A s \in SUBSET S : s # {} /\ (\A x \in s : s \ {x} \in Good) => s \in Good
    PROVE  S \in Good
<1>1. \A s \in SUBSET S : IsFiniteSet(s) /\ Cardinality(s) \in Nat
  BY FS_Subset, FS_CardinalityType
<1>2. \A s \in SUBSET S : \A x \in s : Cardinality(s \ {x}) = Cardinality(s) - 1
  BY <1>1, FS_RemoveElement
<1>3. PICK Bad : Bad = {n \in Nat : \E s \in SUBSET S : Cardinality(s) = n /\ s \notin Good}
  OBVIOUS
<1>4. ASSUME Bad # {} PROVE FALSE
  <2>1. PICK n \in Bad : \A o \in Bad : n <= o
    BY <1>3, <1>4, LeastNat
  <2>2. PICK s \in SUBSET S : Cardinality(s) = n /\ s \notin Good
    BY <1>3, <2>1
  <2>3. PICK x \in s : s \ {x} \notin Good
    BY <2>2
  <2>4. s \ {x} \in SUBSET S /\ Cardinality(s \ {x}) = n - 1
    BY <1>2, <2>2
  <2>5. n - 1 \in Bad /\ n \in Nat
    BY <1>1, <1>3, <2>1, <2>3, <2>4
  <2>6. QED
    BY <2>1, <2>5
<1>5. QED
  BY <1>1, <1>3, <1>4

\* The sums over the parts, each a term more, and the last of them the total.
Unfolds(f, S, F) ==
    /\ Total(f, S) = F[S] /\ F[{}] = 0
    /\ \A s \in SUBSET S : s # {} => F[s] = f[Any(s)] + F[s \ {Any(s)}]

\* Every total has such sums.
LEMMA TotalUnfolds ==
    ASSUME NEW S, IsFiniteSet(S), NEW f \in [S -> Int]
    PROVE  \E F : Unfolds(f, S, F)
<1>1. PICK F : F = (CHOOSE sums : SumsUp(f, S, sums)) /\ SumsUp(f, S, F)
  BY SumsExist
<1>2. Total(f, S) = F[S]
  BY <1>1, TotalIs
<1>3. {} \in SUBSET S
  OBVIOUS
<1>4. \A s \in SUBSET S : F[s] = IF s = {} THEN 0 ELSE f[Any(s)] + F[s \ {Any(s)}]
  BY <1>1 DEF SumsUp
<1>5. F[{}] = 0
  BY <1>3, <1>4
<1>6. QED
  BY <1>2, <1>4, <1>5 DEF Unfolds

\* Totals are numbers, and compare as their terms do.
LEMMA TotalsCompare ==
    ASSUME NEW S, IsFiniteSet(S), NEW f \in [S -> Int], NEW g \in [S -> Int],
           NEW k \in Int, NEW m \in Int, \A p \in S : k * f[p] <= m * g[p]
    PROVE  /\ Total(f, S) \in Int /\ Total(g, S) \in Int
           /\ k * Total(f, S) <= m * Total(g, S)
<1>1. PICK F : Unfolds(f, S, F)
  BY TotalUnfolds
<1>2. PICK G : Unfolds(g, S, G)
  BY TotalUnfolds
<1>3. \A s \in SUBSET S : s # {} => Any(s) \in s /\ s \ {Any(s)} \in SUBSET S
  BY DEF Any
<1>4. PICK Good : Good = {s \in SUBSET S : F[s] \in Int /\ G[s] \in Int /\ k * F[s] <= m * G[s]}
  OBVIOUS
<1>5. {} \in Good
  BY <1>1, <1>2, <1>4 DEF Unfolds
<1>6. ASSUME NEW s \in SUBSET S, s # {}, \A x \in s : s \ {x} \in Good PROVE s \in Good
  <2>0. PICK e \in S : e = Any(s)
    BY <1>3, <1>6
  <2>. DEFINE r == s \ {e}
  <2>9. r \in Good
    BY <1>3, <1>6, <2>0
  <2>1. PICK x \in Int, y \in Int, a \in Int, b \in Int :
           x = F[s \ {Any(s)}] /\ y = G[s \ {Any(s)}] /\ a = f[Any(s)] /\ b = g[Any(s)]
           /\ k * x <= m * y /\ k * a <= m * b
    <3>1. F[r] \in Int /\ G[r] \in Int /\ k * F[r] <= m * G[r]
      BY <1>4, <2>9
    <3>2. f[e] \in Int /\ g[e] \in Int /\ k * f[e] <= m * g[e]
      OBVIOUS
    <3>3. QED
      BY <2>0, <3>1, <3>2
  <2>2. F[s] = a + x /\ G[s] = b + y
    BY <1>1, <1>2, <1>6, <2>1 DEF Unfolds
  <2>3. k * (a + x) <= m * (b + y)
    BY <2>1
  <2>4. QED
    BY <1>4, <2>1, <2>2, <2>3
<1>7. S \in Good
  BY <1>5, <1>6, PartByPart
<1>8. QED
  BY <1>1, <1>2, <1>4, <1>7 DEF Unfolds

\* Two combinations with the same factors make one.
LEMMA Combine ==
    ASSUME NEW k \in Int, NEW m \in Int, NEW a \in Int, NEW b \in Int, NEW x \in Int, NEW y \in Int
    PROVE  (k * a + m * b) + (k * x + m * y) = k * (a + x) + m * (b + y)
OBVIOUS

\* A function is made of two others, k of the one and m of the other.
Combines(h, k, f, m, g, S) == \A p \in S : h[p] = k * f[p] + m * g[p]

\* The total of a combination is that of the totals.
LEMMA TotalIsLinear ==
    ASSUME NEW S, IsFiniteSet(S), NEW f \in [S -> Int], NEW g \in [S -> Int],
           NEW h \in [S -> Int], NEW k \in Int, NEW m \in Int, Combines(h, k, f, m, g, S)
    PROVE  Total(h, S) = k * Total(f, S) + m * Total(g, S)
<1>1. PICK F : Unfolds(f, S, F)
  BY TotalUnfolds
<1>2. PICK G : Unfolds(g, S, G)
  BY TotalUnfolds
<1>3. PICK H : Unfolds(h, S, H)
  BY TotalUnfolds
<1>4. \A s \in SUBSET S : s # {} => Any(s) \in s /\ s \ {Any(s)} \in SUBSET S
  BY DEF Any
<1>5. PICK Good : Good = {s \in SUBSET S : /\ F[s] \in Int /\ G[s] \in Int
                                           /\ H[s] = k * F[s] + m * G[s]}
  OBVIOUS
<1>6. {} \in Good
  BY <1>1, <1>2, <1>3, <1>5 DEF Unfolds
<1>7. ASSUME NEW s \in SUBSET S, s # {}, \A x \in s : s \ {x} \in Good PROVE s \in Good
  <2>0. PICK e \in S : e = Any(s)
    BY <1>4, <1>7
  <2>. DEFINE r == s \ {e}
  <2>9. r \in Good
    BY <1>4, <1>7, <2>0
  <2>1. PICK x \in Int, y \in Int, a \in Int, b \in Int :
           /\ x = F[s \ {Any(s)}] /\ y = G[s \ {Any(s)}] /\ a = f[Any(s)] /\ b = g[Any(s)]
           /\ H[s \ {Any(s)}] = k * x + m * y /\ h[Any(s)] = k * a + m * b
    <3>1. F[r] \in Int /\ G[r] \in Int /\ H[r] = k * F[r] + m * G[r]
      BY <1>5, <2>9
    <3>2. f[e] \in Int /\ g[e] \in Int /\ h[e] = k * f[e] + m * g[e]
      BY DEF Combines
    <3>3. QED
      BY <2>0, <3>1, <3>2
  <2>2. F[s] = a + x /\ G[s] = b + y /\ H[s] = (k * a + m * b) + (k * x + m * y)
    BY <1>1, <1>2, <1>3, <1>7, <2>1 DEF Unfolds
  <2>3. (k * a + m * b) + (k * x + m * y) = k * (a + x) + m * (b + y)
    BY <2>1, Combine
  <2>4. QED
    BY <1>5, <2>1, <2>2, <2>3
<1>8. S \in Good
  BY <1>6, <1>7, PartByPart
<1>9. QED
  BY <1>1, <1>2, <1>3, <1>5, <1>8 DEF Unfolds

\* The total of ones and zeros is the number of the ones.
LEMMA TotalCounts ==
    ASSUME NEW S, IsFiniteSet(S), NEW P \in SUBSET S
    PROVE  Total([p \in S |-> IF p \in P THEN 1 ELSE 0], S) = Cardinality(P)
<1>1. PICK f \in [S -> Int] : f = [p \in S |-> IF p \in P THEN 1 ELSE 0]
  <2>1. \A p \in S : (IF p \in P THEN 1 ELSE 0) \in Int
    OBVIOUS
  <2>2. QED
    BY <2>1
<1>2. PICK F : Unfolds(f, S, F)
  BY TotalUnfolds
<1>3. \A s \in SUBSET S : s # {} => Any(s) \in s /\ s \ {Any(s)} \in SUBSET S
  BY DEF Any
<1>4. PICK Good : Good = {s \in SUBSET S : F[s] = Cardinality(P \cap s)}
  OBVIOUS
<1>5. {} \in Good
  <2>1. P \cap {} = {}
    OBVIOUS
  <2>2. QED
    BY <1>2, <1>4, <2>1, FS_EmptySet DEF Unfolds
<1>6. ASSUME NEW s \in SUBSET S, s # {}, \A x \in s : s \ {x} \in Good PROVE s \in Good
  <2>1. PICK x \in s : x = Any(s) /\ F[s \ {x}] = Cardinality(P \cap (s \ {x}))
                       /\ F[s] = f[x] + F[s \ {x}]
    BY <1>2, <1>3, <1>4, <1>6 DEF Unfolds
  <2>2. IsFiniteSet(P \cap s) /\ Cardinality(P \cap s) \in Nat
    BY FS_Subset, FS_CardinalityType
  <2>3. CASE x \in P
    <3>1. P \cap (s \ {x}) = (P \cap s) \ {x} /\ x \in P \cap s
      BY <2>3
    <3>2. Cardinality((P \cap s) \ {x}) = Cardinality(P \cap s) - 1
      BY <2>2, <3>1, FS_RemoveElement
    <3>3. f[x] = 1
      BY <1>1, <2>3
    <3>4. QED
      BY <1>4, <2>1, <2>2, <3>1, <3>2, <3>3
  <2>4. CASE x \notin P
    <3>1. P \cap (s \ {x}) = P \cap s /\ f[x] = 0
      BY <1>1, <2>4
    <3>2. QED
      BY <1>4, <2>1, <2>2, <3>1
  <2>5. QED
    BY <2>3, <2>4
<1>7. S \in Good
  BY <1>5, <1>6, PartByPart
<1>8. P \cap S = P
  OBVIOUS
<1>9. QED
  BY <1>1, <1>2, <1>4, <1>7, <1>8 DEF Unfolds

\* The total of what is not negative is not negative.
LEMMA TotalIsNat ==
    ASSUME NEW S, IsFiniteSet(S), NEW f \in [S -> Nat]
    PROVE  Total(f, S) \in Nat
<1>1. PICK k \in Int, m \in Int : k = 0 /\ m = 1
  OBVIOUS
<1>2. f \in [S -> Int] /\ \A p \in S : k * f[p] <= m * f[p]
  BY <1>1
<1>3. Total(f, S) \in Int /\ k * Total(f, S) <= m * Total(f, S)
  BY <1>2, TotalsCompare
<1>4. QED
  BY <1>1, <1>3

-----------------------------------------------------------------------------
(* PortfolioChoice.                                                          *)

\* The assumptions one by one, as the provers need them.
LEMMA PortfolioNumbers ==
    /\ Products \subseteq Nat /\ IsFiniteSet(Products) /\ Products # {}
    /\ Half \in Nat /\ Fee \in Nat /\ Depth \in Nat /\ Depth > 0 /\ Swing \in Nat /\ Swing > 0
    /\ Equity \in Nat /\ SingleLimit \in Nat /\ TotalLimit \in Nat
    /\ \A v \in Views : v.edge \in Int
BY PortfolioAssumption

\* A ratio of numbers is a number.
LEMMA RatioIsNat ==
    ASSUME NEW n \in Nat, NEW m \in Nat, m > 0
    PROVE  n \div m \in Nat
OBVIOUS

\* A product of numbers is a number.
LEMMA ProductIsNat ==
    ASSUME NEW n \in Nat, NEW m \in Nat
    PROVE  n * m \in Nat
OBVIOUS

\* What the depth of the book costs is a number.
LEMMA DepthCostIsNat ==
    ASSUME NEW n \in Nat
    PROVE  DepthCost(n) \in Nat
<1>1. CASE n <= Depth
  BY <1>1 DEF DepthCost
<1>2. CASE ~(n <= Depth)
  <2>1. n - Depth \in Nat
    BY <1>2, PortfolioNumbers
  <2>2. PICK a \in Nat : a = Half * n
    BY PortfolioNumbers, ProductIsNat
  <2>3. a * (n - Depth) \in Nat
    BY <2>1, ProductIsNat
  <2>4. (a * (n - Depth)) \div Depth \in Nat
    BY <2>3, PortfolioNumbers, RatioIsNat
  <2>5. QED
    BY <1>2, <2>2, <2>4 DEF DepthCost
<1>3. QED
  BY <1>1, <1>2

\* The lesser, the greater and the gap of two numbers.
LEMMA LesserFacts ==
    ASSUME NEW a \in Nat, NEW b \in Nat
    PROVE  /\ Lesser(a, b) \in Nat /\ Lesser(a, b) <= a /\ Lesser(a, b) <= b
           /\ Greater(a, b) \in Nat /\ Gap(a, b) \in Nat
           /\ (b = 0 => Lesser(a, b) = 0)
BY DEF Lesser, Greater, Gap

\* A transition costs what is not negative.
LEMMA TransitionCostIsNat ==
    ASSUME NEW cur \in Nat, NEW n \in Nat
    PROVE  TransitionCost(cur, n) \in Nat
<1>1. PICK up \in Nat, down \in Nat : up = Gap(n, cur) /\ down = Gap(cur, n)
  BY LesserFacts
<1>2. PICK x \in Nat, y \in Nat, z \in Nat :
         x = DepthCost(up) /\ y = DepthCost(down) /\ z = DepthCost(n)
  BY DepthCostIsNat
<1>3. PICK t \in Nat : t = up + down + n
  OBVIOUS
<1>4. Fee * t \in Nat /\ Half * n \in Nat
  BY PortfolioNumbers, ProductIsNat
<1>5. TransitionCost(cur, n) = Fee * t + Half * n + x + y + z
  BY <1>1, <1>2, <1>3 DEF TransitionCost
<1>6. QED
  BY <1>4, <1>5

\* A value is made of numbers, and a size of nothing is worth nothing.
LEMMA ValuedAtFacts ==
    ASSUME PortfolioTypeOK, NEW p \in Products, NEW n \in Nat, NEW floor
    PROVE  /\ ValuedAt(p, n, floor).size = n
           /\ ValuedAt(p, n, floor).net \in Int
           /\ n = 0 => ValuedAt(p, n, floor).net <= 0
<1>1. PICK cur \in Nat, edge \in Int : cur = held[p] /\ edge = view[p].edge
  BY PortfolioNumbers DEF PortfolioTypeOK
<1>2. PICK cost \in Nat : cost = TransitionCost(cur, n)
  BY TransitionCostIsNat
<1>3. PICK keep \in Nat, add \in Nat : keep = Lesser(cur, n) /\ add = Gap(n, cur) /\ (n = 0 => keep = 0)
  BY LesserFacts
<1>4. PICK x \in Int, y \in Nat, z \in Nat :
         x = edge * n /\ y = Half * keep /\ z = Half * add /\ (n = 0 => x = 0 /\ y = 0)
  <2>1. edge * n \in Int /\ Half * keep \in Nat /\ Half * add \in Nat
    BY PortfolioNumbers, ProductIsNat
  <2>2. n = 0 => edge * n = 0 /\ Half * keep = 0
    BY <1>3, PortfolioNumbers
  <2>3. QED
    BY <2>1, <2>2
<1>5. GrossValue(p, held[p], n) = x + y - z
  BY <1>1, <1>3, <1>4 DEF GrossValue
<1>6. ValuedAt(p, n, floor).net = GrossValue(p, held[p], n) - TransitionCost(held[p], n)
      /\ ValuedAt(p, n, floor).size = n
  BY DEF ValuedAt
<1>7. ValuedAt(p, n, floor).net = x + y - z - cost
  BY <1>1, <1>2, <1>5, <1>6
<1>8. QED
  BY <1>4, <1>6, <1>7

\* So it is for a product, whatever size its value is taken at.
LEMMA ValuedFacts ==
    ASSUME PortfolioTypeOK, NEW p \in Products, NEW n \in Nat
    PROVE  /\ Valued(p, n).size \in Nat /\ Valued(p, n).net \in Int
           /\ Valued(p, n).size = 0 => Valued(p, n).net <= 0
<1>1. held[p] \in Nat
  BY DEF PortfolioTypeOK
<1>2. PICK least \in Nat : least = Lesser(held[p], n)
  BY <1>1, LesserFacts
<1>3. PICK floor : floor = -TransitionCost(held[p], 0)
  OBVIOUS
<1>4. Valued(p, n) = ValuedAt(p, n, 0) \/ Valued(p, n) = ValuedAt(p, least, floor)
  BY <1>2, <1>3 DEF Valued
<1>5. QED
  BY <1>4, ValuedAtFacts

\* What a product may have is a number.
LEMMA CapIsNat ==
    ASSUME PortfolioTypeOK, NEW p \in Products
    PROVE  Cap(p) \in Nat
<1>1. held[p] \in Nat /\ SingleLimit \in Nat
  BY PortfolioNumbers DEF PortfolioTypeOK
<1>2. Lesser(SingleLimit, held[p]) \in Nat
  BY <1>1, LesserFacts
<1>3. QED
  BY <1>1, <1>2 DEF Cap

\* A product's worth is that of the size it may have.
LEMMA WorthFacts ==
    ASSUME PortfolioTypeOK
    PROVE  /\ DOMAIN Worth \subseteq Products
           /\ \A p \in DOMAIN Worth :
                /\ Worth[p].size \in Nat /\ Worth[p].net \in Int
                /\ Worth[p].size = 0 => Worth[p].net <= 0
<1>1. DOMAIN Worth \subseteq Products /\ \A p \in DOMAIN Worth : Worth[p] = Valued(p, Cap(p))
  BY DEF Worth
<1>2. QED
  BY <1>1, CapIsNat, ValuedFacts

\* What is asked for a product is a number.
LEMMA RequestedIsNat ==
    ASSUME PortfolioTypeOK, NEW w, NEW p \in Products,
           w[p].size \in Nat, w[p].net \in Int, w[p].size = 0 => w[p].net <= 0
    PROVE  Requested(w, p) \in Nat
<1>1. PICK size \in Nat, net \in Int, cur \in Nat :
         size = w[p].size /\ net = w[p].net /\ cur = held[p] /\ (size = 0 => net <= 0)
  BY DEF PortfolioTypeOK
<1>2. CASE net <= 0
  BY <1>1, <1>2, LesserFacts DEF Requested
<1>3. CASE ~(net <= 0)
  <2>1. net \in Nat /\ size > 0
    BY <1>1, <1>3
  <2>2. PICK a \in Nat, b \in Nat : a = Equity * net /\ b = size * Swing /\ b > 0
    <3>1. Equity * net \in Nat /\ size * Swing \in Nat
      BY <2>1, PortfolioNumbers, ProductIsNat
    <3>2. size * Swing > 0
      BY <2>1, PortfolioNumbers
    <3>3. QED
      BY <3>1, <3>2
  <2>3. PICK c \in Nat : c = a \div b
    BY <2>2, RatioIsNat
  <2>4. PICK d \in Nat : d = Lesser(SingleLimit, c)
    BY PortfolioNumbers, LesserFacts
  <2>5. PICK e \in Nat : e = Greater(cur, d)
    BY LesserFacts
  <2>6. Requested(w, p) = Lesser(size, e)
    BY <1>1, <1>3, <2>2, <2>3, <2>4, <2>5 DEF Requested
  <2>7. QED
    BY <2>6, LesserFacts
<1>4. QED
  BY <1>2, <1>3

\* What is desired of the products selected are numbers.
LEMMA DesiredIsNat ==
    ASSUME PortfolioTypeOK
    PROVE  Desired(Worth) \in [Selected(Worth) -> Nat]
<1>1. PICK w : w = Worth
  OBVIOUS
<1>2. PICK S \in SUBSET Products : S = Selected(w) /\ S \subseteq DOMAIN w
  BY <1>1, WorthFacts DEF Selected
<1>3. IsFiniteSet(S)
  BY <1>2, PortfolioNumbers, FS_Subset
<1>4. \A p \in S : Requested(w, p) \in Nat /\ held[p] \in Nat
  BY <1>1, <1>2, WorthFacts, RequestedIsNat DEF PortfolioTypeOK
<1>5. PICK kept : kept = [p \in S |-> Lesser(Requested(w, p), held[p])]
  OBVIOUS
<1>6. PICK added : added = [p \in S |-> Requested(w, p) - kept[p]]
  OBVIOUS
<1>7. kept \in [S -> Nat] /\ added \in [S -> Nat]
  <2>1. ASSUME NEW p \in S PROVE kept[p] \in Nat /\ Requested(w, p) - kept[p] \in Nat
    <3>1. PICK a \in Nat, b \in Nat : a = Requested(w, p) /\ b = held[p]
      BY <1>4
    <3>2. PICK c \in Nat : c = Lesser(a, b) /\ c <= a
      BY LesserFacts
    <3>3. kept[p] = c
      BY <1>5, <3>1, <3>2
    <3>4. QED
      BY <3>1, <3>2, <3>3
  <2>2. QED
    BY <1>5, <1>6, <2>1
<1>8. PICK room \in Nat, all \in Nat : room = Gap(TotalLimit, Total(kept, S)) /\ all = Total(added, S)
  <2>1. Total(kept, S) \in Nat /\ Total(added, S) \in Nat
    BY <1>3, <1>7, TotalIsNat
  <2>2. Gap(TotalLimit, Total(kept, S)) \in Nat
    BY <2>1, PortfolioNumbers, LesserFacts
  <2>3. QED
    BY <2>1, <2>2
<1>9. \A p \in S : kept[p] + (IF all <= room THEN added[p] ELSE (added[p] * room) \div all) \in Nat
  <2>1. ASSUME NEW p \in S, ~(all <= room) PROVE (added[p] * room) \div all \in Nat
    <3>1. added[p] * room \in Nat /\ all > 0
      BY <1>7, <2>1, ProductIsNat
    <3>2. QED
      BY <3>1, RatioIsNat
  <2>2. QED
    BY <1>7, <2>1
<1>10. Desired(w) = [p \in S |-> kept[p] + (IF all <= room THEN added[p]
                                            ELSE (added[p] * room) \div all)]
  BY <1>2, <1>5, <1>6, <1>8 DEF Desired
<1>11. QED
  BY <1>1, <1>2, <1>9, <1>10

\* A decision is made of numbers, and wants only what it selected.
LEMMA DecidedFacts ==
    ASSUME PortfolioTypeOK
    PROVE  /\ Decided(Worth) \in [Products -> Nat]
           /\ \A p \in Products : Decided(Worth)[p] > 0 => p \in Selected(Worth)
<1>1. PICK w : w = Worth
  OBVIOUS
<1>2. PICK d : d = Desired(w) /\ d \in [Selected(w) -> Nat]
  BY <1>1, DesiredIsNat
<1>. DEFINE Final(p) == IF p \notin DOMAIN d THEN 0
                        ELSE IF d[p] = 0 THEN 0
                        ELSE LET v == Valued(p, d[p]) IN IF v.ok THEN v.size ELSE 0
<1>3. Decided(w) = [p \in Products |-> Final(p)]
  BY <1>2 DEF Decided
<1>4. ASSUME NEW p \in Products
      PROVE  Final(p) \in Nat /\ (Final(p) > 0 => p \in Selected(w))
  <2>1. CASE p \notin Selected(w)
    BY <1>2, <2>1
  <2>2. CASE p \in Selected(w)
    <3>1. d[p] \in Nat
      BY <1>2, <2>2
    <3>2. Valued(p, d[p]).size \in Nat
      BY <3>1, ValuedFacts
    <3>3. QED
      BY <2>2, <3>2
  <2>3. QED
    BY <2>1, <2>2
<1>. HIDE DEF Final
<1>5. QED
  BY <1>1, <1>3, <1>4

\* Of one exposure a decision selects one product, and if one is held, that.
LEMMA SelectedOnce ==
    ASSUME PortfolioInvariant, NEW p \in Selected(Worth), NEW q \in Products,
           ExposureOf[p] = ExposureOf[q], q \in Selected(Worth) \/ held[q] > 0
    PROVE  p = q
<1>1. PICK w : w = Worth
  OBVIOUS
<1>2. \A r \in Selected(w) :
        /\ r \in Products
        /\ IF Holding(ExposureOf[r]) = {} THEN r = Foremost(w, Candidates(w, ExposureOf[r]))
           ELSE r \in Holding(ExposureOf[r])
  <2>1. ASSUME NEW r \in Selected(w)
        PROVE  /\ r \in DOMAIN w
               /\ IF Holding(ExposureOf[r]) = {} THEN r = Foremost(w, Candidates(w, ExposureOf[r]))
                  ELSE r \in Holding(ExposureOf[r])
    BY <2>1, Zenon DEF Selected
  <2>2. DOMAIN w \subseteq Products
    BY <1>1, WorthFacts DEF PortfolioInvariant
  <2>3. QED
    BY <2>1, <2>2
<1>3. \A r, s \in Products :
        ExposureOf[r] = ExposureOf[s] /\ held[r] > 0 /\ held[s] > 0 => r = s
  BY DEF PortfolioInvariant, InPlay
<1>4. CASE Holding(ExposureOf[p]) = {}
  <2>1. ~(held[q] > 0)
    BY <1>4 DEF Holding
  <2>2. QED
    BY <1>1, <1>2, <1>4, <2>1
<1>5. CASE Holding(ExposureOf[p]) # {}
  <2>1. p \in Products /\ held[p] > 0
    BY <1>1, <1>2, <1>5 DEF Holding
  <2>2. held[q] > 0
    BY <1>1, <1>2, <1>5 DEF Holding
  <2>3. QED
    BY <1>3, <2>1, <2>2
<1>6. QED
  BY <1>4, <1>5

\* Fractions that follow each other follow the first.
LEMMA FractionsChain ==
    ASSUME NEW a \in Nat, NEW b \in Nat, NEW c \in Nat, NEW d \in Nat, NEW e \in Nat, NEW f \in Nat,
           d > 0, a * d <= c * b, c * f <= e * d
    PROVE  a * f <= e * b
<1>1. (a * d) * f <= (c * b) * f
  OBVIOUS
<1>2. (c * f) * b <= (e * d) * b
  OBVIOUS
<1>3. (a * d) * f = d * (a * f) /\ (c * b) * f = (c * f) * b /\ (e * d) * b = d * (e * b)
  OBVIOUS
<1>4. PICK x \in Nat, y \in Nat : x = a * f /\ y = e * b
  BY ProductIsNat
<1>5. d * x <= d * y
  BY <1>1, <1>2, <1>3, <1>4
<1>6. x <= y
  BY <1>5, TimesKeepsOrder
<1>7. QED
  BY <1>4, <1>6

\* Of finitely many fractions one is the least.
LEMMA LeastFraction ==
    ASSUME NEW S, IsFiniteSet(S), S # {}, NEW num \in [S -> Nat], NEW den \in [S -> Nat],
           \A l \in S : den[l] > 0
    PROVE  \E m \in S : \A l \in S : num[m] * den[l] <= num[l] * den[m]
<1>. DEFINE Below(m, l) == num[m] * den[l] <= num[l] * den[m]
<1>1. \A l, m \in S : Below(l, m) \/ Below(m, l)
  <2>1. ASSUME NEW l \in S, NEW m \in S PROVE Below(l, m) \/ Below(m, l)
    <3>1. num[l] * den[m] \in Nat /\ num[m] * den[l] \in Nat
      BY ProductIsNat
    <3>2. QED
      BY <3>1
  <2>2. QED
    BY <2>1
<1>2. \A k, l, m \in S : Below(k, l) /\ Below(l, m) => Below(k, m)
  BY FractionsChain
<1>. HIDE DEF Below
<1>3. PICK Good : Good = {s \in SUBSET S : s = {} \/ \E m \in s : \A l \in s : Below(m, l)}
  OBVIOUS
<1>4. {} \in Good
  BY <1>3
<1>5. ASSUME NEW s \in SUBSET S, s # {}, \A x \in s : s \ {x} \in Good PROVE s \in Good
  <2>1. PICK x \in s : s \ {x} \in Good
    BY <1>5
  <2>2. CASE s \ {x} = {}
    <3>1. \A l \in s : Below(x, l)
      BY <1>1, <2>2
    <3>2. QED
      BY <1>3, <3>1
  <2>3. CASE s \ {x} # {}
    <3>1. PICK m \in s \ {x} : \A l \in s \ {x} : Below(m, l)
      BY <1>3, <2>1, <2>3
    <3>2. CASE Below(m, x)
      BY <1>3, <3>1, <3>2
    <3>3. CASE Below(x, m)
      <4>1. Below(x, x)
        BY <1>1
      <4>2. \A l \in s : Below(x, l)
        BY <1>2, <3>1, <3>3, <4>1
      <4>3. QED
        BY <1>3, <4>2
    <3>4. QED
      BY <1>1, <3>2, <3>3
  <2>4. QED
    BY <2>2, <2>3
<1>6. S \in Good
  BY <1>4, <1>5, PartByPart
<1>7. QED
  BY <1>3, <1>6 DEF Below

\* Rounding down keeps the order of fractions.
LEMMA FloorsCompare ==
    ASSUME NEW n \in Nat, NEW a \in Nat, NEW b \in Nat, NEW c \in Nat, NEW d \in Nat,
           b > 0, d > 0, a * d <= c * b
    PROVE  (n * a) \div b <= (n * c) \div d
<1>1. PICK x \in Nat, y \in Nat : x = n * a /\ y = n * c
  BY ProductIsNat
<1>2. PICK q \in Nat, r \in Nat : q = x \div b /\ r = y \div d
  BY RatioIsNat
<1>3. b * q <= x /\ b * q \in Nat
  BY <1>2, DivFacts
<1>4. y < d * r + d /\ d * r \in Nat
  BY <1>2, DivFacts
<1>5. x * d <= y * b
  <2>1. n * (a * d) <= n * (c * b)
    <3>1. a * d \in Nat /\ c * b \in Nat
      BY ProductIsNat
    <3>2. QED
      BY <3>1
  <2>2. n * (a * d) = x * d /\ n * (c * b) = y * b
    BY <1>1
  <2>3. QED
    BY <2>1, <2>2
<1>6. (b * q) * d <= x * d
  BY <1>3
<1>7. b * (q * d) <= b * y
  <2>1. (b * q) * d = b * (q * d) /\ y * b = b * y /\ x * d \in Nat
    BY ProductIsNat
  <2>2. (b * q) * d \in Nat /\ y * b \in Nat
    BY <1>3, ProductIsNat
  <2>3. QED
    BY <1>5, <1>6, <2>1, <2>2
<1>8. q * d <= y
  <2>1. q * d \in Int /\ y \in Int
    BY ProductIsNat
  <2>2. QED
    BY <1>7, <2>1, TimesKeepsOrder
<1>9. d * q < d * (r + 1)
  <2>1. d * (r + 1) = d * r + d /\ d * q = q * d
    BY TimesKeepsOrder
  <2>2. d * q \in Nat
    BY ProductIsNat
  <2>3. QED
    BY <1>4, <1>8, <2>1, <2>2
<1>10. q < r + 1
  BY <1>9, TimesKeepsOrder
<1>11. QED
  BY <1>1, <1>2, <1>10

\* The greatest size is one of the sizes, and no size is greater.
LEMMA GreatestSize ==
    ASSUME NEW n \in [Products -> Nat]
    PROVE  /\ Max({n[p] : p \in Products}) \in {n[p] : p \in Products}
           /\ \A p \in Products : n[p] <= Max({n[q] : q \in Products})
<1>1. PICK Good : Good = {s \in SUBSET Products : s = {} \/ \E p \in s : \A q \in s : n[p] >= n[q]}
  OBVIOUS
<1>2. {} \in Good
  BY <1>1
<1>3. ASSUME NEW s \in SUBSET Products, s # {}, \A x \in s : s \ {x} \in Good PROVE s \in Good
  <2>1. PICK x \in s : s \ {x} \in Good
    BY <1>3
  <2>2. CASE s \ {x} = {}
    BY <1>1, <2>2
  <2>3. CASE s \ {x} # {}
    <3>1. PICK m \in s \ {x} : \A l \in s \ {x} : n[m] >= n[l]
      BY <1>1, <2>1, <2>3
    <3>2. CASE n[m] >= n[x]
      BY <1>1, <3>1, <3>2
    <3>3. CASE ~(n[m] >= n[x])
      <4>1. \A l \in s : n[x] >= n[l]
        BY <3>1, <3>3
      <4>2. QED
        BY <1>1, <4>1
    <3>4. QED
      BY <3>2, <3>3
  <2>4. QED
    BY <2>2, <2>3
<1>4. Products \in Good
  BY <1>2, <1>3, PartByPart, PortfolioNumbers
<1>5. PICK p \in Products : \A q \in Products : n[p] >= n[q]
  BY <1>1, <1>4, PortfolioNumbers
<1>6. PICK T : T = {n[q] : q \in Products}
  OBVIOUS
<1>7. \E x \in T : \A y \in T : x >= y
  BY <1>5, <1>6
<1>8. Max(T) \in T /\ \A y \in T : Max(T) >= y
  BY <1>7 DEF Max
<1>9. T \subseteq Nat
  BY <1>6
<1>10. QED
  BY <1>6, <1>8, <1>9

\* The limits are four numbers.
LEMMA LimitFacts ==
    /\ IsFiniteSet(DOMAIN Limits) /\ DOMAIN Limits = {"gross", "net", "instrument", "margin"}
    /\ \A l \in DOMAIN Limits : Limits[l] \in Nat
<1>1. DOMAIN Limits = {"gross", "net", "instrument", "margin"}
  BY PortfolioAssumption
<1>2. PICK S : S = {"gross"} /\ IsFiniteSet(S)
  BY FS_Singleton
<1>3. IsFiniteSet({"gross", "net", "instrument", "margin"})
  <2>1. IsFiniteSet(S \cup {"net"})
    BY <1>2, FS_AddElement
  <2>2. IsFiniteSet((S \cup {"net"}) \cup {"instrument"})
    BY <2>1, FS_AddElement
  <2>3. IsFiniteSet(((S \cup {"net"}) \cup {"instrument"}) \cup {"margin"})
    BY <2>2, FS_AddElement
  <2>4. ((S \cup {"net"}) \cup {"instrument"}) \cup {"margin"}
          = {"gross", "net", "instrument", "margin"}
    BY <1>2
  <2>5. QED
    BY <2>3, <2>4
<1>4. QED
  BY <1>1, <1>3, PortfolioAssumption

\* One limit is the tightest, for every size alike: all shrink by one factor,
\* which no load over its limit would have greater.
LEMMA TightestLimit ==
    ASSUME NEW load \in [DOMAIN Limits -> Nat]
    PROVE  \E k \in Nat, m \in Nat :
              /\ m > 0 /\ k <= m
              /\ \A l \in DOMAIN Limits : k * load[l] <= m * Limits[l]
              /\ \A n \in Nat :
                    Min({Fit(n, load[l], Limits[l]) : l \in DOMAIN Limits}) = (n * k) \div m
<1>. DEFINE D == DOMAIN Limits
<1>1. PICK num : num = [l \in D |-> IF load[l] <= Limits[l] THEN 1 ELSE Limits[l]]
  OBVIOUS
<1>2. PICK den : den = [l \in D |-> IF load[l] <= Limits[l] THEN 1 ELSE load[l]]
  OBVIOUS
<1>3. num \in [D -> Nat] /\ den \in [D -> Nat] /\ \A l \in D : den[l] > 0 /\ num[l] <= den[l]
  <2>1. ASSUME NEW l \in D
        PROVE  /\ (IF load[l] <= Limits[l] THEN 1 ELSE Limits[l]) \in Nat
               /\ (IF load[l] <= Limits[l] THEN 1 ELSE load[l]) \in Nat
               /\ (IF load[l] <= Limits[l] THEN 1 ELSE load[l]) > 0
               /\ (IF load[l] <= Limits[l] THEN 1 ELSE Limits[l])
                    <= (IF load[l] <= Limits[l] THEN 1 ELSE load[l])
    BY LimitFacts
  <2>2. QED
    BY <1>1, <1>2, <2>1
<1>4. PICK t \in D : \A l \in D : num[t] * den[l] <= num[l] * den[t]
  <2>1. D # {} /\ IsFiniteSet(D)
    BY LimitFacts
  <2>. HIDE DEF D
  <2>2. QED
    BY <1>3, <2>1, LeastFraction
<1>5. PICK k \in Nat, m \in Nat : k = num[t] /\ m = den[t] /\ m > 0 /\ k <= m
  BY <1>3
<1>6. ASSUME NEW l \in D PROVE k * load[l] <= m * Limits[l]
  <2>1. PICK a \in Nat, b \in Nat : a = load[l] /\ b = Limits[l]
    BY LimitFacts
  <2>2. CASE a <= b
    <3>1. k * a <= m * a /\ m * a <= m * b
      BY <1>5, <2>2
    <3>2. k * a \in Nat /\ m * a \in Nat /\ m * b \in Nat
      BY ProductIsNat
    <3>3. QED
      BY <2>1, <3>1, <3>2
  <2>3. CASE ~(a <= b)
    <3>1. num[l] = b /\ den[l] = a
      BY <1>1, <1>2, <2>1, <2>3
    <3>2. k * a <= b * m
      BY <1>4, <1>5, <3>1
    <3>3. b * m = m * b
      OBVIOUS
    <3>4. QED
      BY <2>1, <3>2, <3>3
  <2>4. QED
    BY <2>2, <2>3
<1>7. ASSUME NEW n \in Nat
      PROVE  Min({Fit(n, load[l], Limits[l]) : l \in D}) = (n * k) \div m
  <2>1. ASSUME NEW l \in D PROVE Fit(n, load[l], Limits[l]) = (n * num[l]) \div den[l]
    <3>1. CASE load[l] <= Limits[l]
      <4>1. num[l] = 1 /\ den[l] = 1 /\ (n * 1) \div 1 = n
        BY <1>1, <1>2, <3>1
      <4>2. QED
        BY <3>1, <4>1 DEF Fit
    <3>2. CASE ~(load[l] <= Limits[l])
      BY <1>1, <1>2, <3>2 DEF Fit
    <3>3. QED
      BY <3>1, <3>2
  <2>2. \A l \in D : (n * k) \div m <= (n * num[l]) \div den[l] /\ (n * num[l]) \div den[l] \in Nat
    <3>1. ASSUME NEW l \in D
          PROVE  (n * k) \div m <= (n * num[l]) \div den[l] /\ (n * num[l]) \div den[l] \in Nat
      <4>1. PICK c \in Nat, d \in Nat : c = num[l] /\ d = den[l] /\ d > 0 /\ k * d <= c * m
        BY <1>3, <1>4, <1>5
      <4>2. (n * k) \div m <= (n * c) \div d
        BY <1>5, <4>1, FloorsCompare
      <4>3. (n * c) \div d \in Nat
        BY <4>1, ProductIsNat, RatioIsNat
      <4>4. QED
        BY <4>1, <4>2, <4>3
    <3>2. QED
      BY <3>1
  <2>3. PICK T : T = {Fit(n, load[l], Limits[l]) : l \in D}
    OBVIOUS
  <2>4. PICK x \in Nat : x = (n * k) \div m
    BY <1>5, ProductIsNat, RatioIsNat
  <2>5. x \in T
    BY <1>5, <2>1, <2>3, <2>4
  <2>6. T \subseteq Nat /\ \A y \in T : x <= y
    BY <2>1, <2>2, <2>3, <2>4
  <2>7. PICK z : z = Min(T)
    OBVIOUS
  <2>8. z \in T /\ \A y \in T : z <= y
    BY <2>5, <2>6, <2>7 DEF Min
  <2>9. z <= x /\ x <= z /\ z \in Nat
    BY <2>5, <2>6, <2>8
  <2>10. QED
    BY <2>3, <2>4, <2>7, <2>9
<1>8. QED
  BY <1>5, <1>6, <1>7

\* The loads of a portfolio are numbers, its net load the greater of its net
\* either way.
LEMMA LoadFacts ==
    ASSUME NEW n \in [Products -> Nat]
    PROVE  /\ Loads(n) \in [DOMAIN Limits -> Nat] /\ Net(n) \in Int
           /\ Loads(n)["gross"] = Total(n, Products)
           /\ \A side \in {1, -1} : side * Net(n) <= Loads(n)["net"]
           /\ Loads(n)["instrument"] = Max({n[p] : p \in Products})
           /\ Loads(n)["margin"] = Total([p \in Products |-> MarginOf[p] * n[p]], Products)
<1>1. Total(n, Products) \in Nat
  BY TotalIsNat, PortfolioNumbers
<1>2. PICK x \in Int : x = Net(n)
  <2>1. \A p \in Products : SignOf[p] * n[p] \in Int
    BY PortfolioAssumption
  <2>2. PICK s \in [Products -> Int] : s = [p \in Products |-> SignOf[p] * n[p]]
    BY <2>1
  <2>3. Total(s, Products) \in Int
    <3>1. PICK k \in Int : \A p \in Products : k * s[p] <= k * s[p]
      <4>1. \A p \in Products : 0 * s[p] <= 0 * s[p]
        OBVIOUS
      <4>2. QED
        BY <4>1
    <3>2. QED
      BY <3>1, TotalsCompare, PortfolioNumbers
  <2>4. QED
    BY <2>2, <2>3 DEF Net
<1>3. Greater(x, -x) \in Nat /\ \A side \in {1, -1} : side * x <= Greater(x, -x)
  BY DEF Greater
<1>4. Max({n[p] : p \in Products}) \in Nat
  BY GreatestSize
<1>5. Total([p \in Products |-> MarginOf[p] * n[p]], Products) \in Nat
  <2>1. \A p \in Products : MarginOf[p] * n[p] \in Nat
    BY PortfolioAssumption, ProductIsNat
  <2>2. PICK s \in [Products -> Nat] : s = [p \in Products |-> MarginOf[p] * n[p]]
    BY <2>1
  <2>3. QED
    BY <2>2, TotalIsNat, PortfolioNumbers
<1>6. PICK g \in Nat, e \in Nat, i \in Nat, r \in Nat :
         /\ g = Total(n, Products) /\ e = Greater(x, -x) /\ i = Max({n[p] : p \in Products})
         /\ r = Total([p \in Products |-> MarginOf[p] * n[p]], Products)
  BY <1>1, <1>3, <1>4, <1>5
<1>7. Loads(n) = [gross |-> g, net |-> e, instrument |-> i, margin |-> r]
  BY <1>2, <1>6 DEF Loads
<1>8. Loads(n) \in [DOMAIN Limits -> Nat]
  BY <1>7, LimitFacts
<1>9. QED
  BY <1>2, <1>3, <1>6, <1>7, <1>8

\* What is rounded down by less than one.
LEMMA FloorFacts ==
    ASSUME NEW n \in Nat, NEW k \in Nat, NEW m \in Nat, m > 0
    PROVE  /\ (n * k) \div m \in Nat /\ n * k \in Nat
           /\ m * ((n * k) \div m) <= n * k /\ n * k <= m * ((n * k) \div m) + (m - 1)
           /\ n = 0 => (n * k) \div m = 0
<1>1. PICK x \in Nat : x = n * k /\ (n = 0 => x = 0)
  BY ProductIsNat
<1>2. x \div m \in Nat /\ m * (x \div m) \in Nat /\ m * (x \div m) <= x /\ x < m * (x \div m) + m
  BY DivFacts
<1>3. x = 0 => x \div m = 0
  OBVIOUS
<1>4. QED
  BY <1>1, <1>2, <1>3

\* What fits a limit when all of it is multiplied fits it.
LEMMA Cancel ==
    ASSUME NEW m \in Nat, m > 0, NEW t \in Int, NEW b \in Int, m * t <= m * b
    PROVE  t <= b
BY TimesKeepsOrder

\* A sum of shrunk terms that are not negative fits where the sum did.
LEMMA ShrunkTotal ==
    ASSUME NEW f \in [Products -> Nat], NEW g \in [Products -> Nat],
           NEW k \in Nat, NEW m \in Nat, NEW limit \in Nat, m > 0,
           \A p \in Products : m * g[p] <= k * f[p],
           k * Total(f, Products) <= m * limit
    PROVE  Total(g, Products) <= limit
<1>1. g \in [Products -> Int] /\ f \in [Products -> Int] /\ m \in Int /\ k \in Int
  OBVIOUS
<1>2. /\ Total(g, Products) \in Int /\ Total(f, Products) \in Int
      /\ m * Total(g, Products) <= k * Total(f, Products)
  BY <1>1, TotalsCompare, PortfolioNumbers
<1>3. PICK a \in Int, b \in Int : a = Total(g, Products) /\ b = Total(f, Products)
  BY <1>2
<1>4. m * a \in Int /\ k * b \in Int /\ m * limit \in Int
  OBVIOUS
<1>5. m * a <= m * limit
  BY <1>2, <1>3, <1>4
<1>6. QED
  BY <1>3, <1>5, Cancel

\* Each size is the k-th m-th part of what it was, rounded down.
Shrinks(n, a, k, m) ==
    \A p \in Products : /\ m * a[p] <= k * n[p] /\ k * n[p] <= m * a[p] + (m - 1)
                        /\ n[p] = 0 => a[p] = 0

\* The net of a side falls with its own legs and is left over its limit by
\* less than a size for each leg of the other side.
LEMMA ShrunkNet ==
    ASSUME NEW n \in [Products -> Nat], NEW a \in [Products -> Nat],
           NEW k \in Nat, NEW m \in Nat, NEW limit \in Nat, NEW side \in {1, -1}, m > 0,
           Shrinks(n, a, k, m),
           k * (side * Net(n)) <= m * limit,
           \A p, q \in Products : ExposureOf[p] = ExposureOf[q] /\ n[p] > 0 /\ n[q] > 0 => p = q
    PROVE  side * Net(a) <= limit + Gap(Cardinality(Across(side)), 1)
<1>. DEFINE S == Products
<1>1. PICK legs \in SUBSET S : legs = {p \in S : SignOf[p] = -side /\ n[p] > 0}
  OBVIOUS
<1>2. IsFiniteSet(S) /\ SignOf \in [S -> {1, -1}]
  BY PortfolioAssumption
<1>3. PICK N \in [S -> Int] : N = [p \in S |-> SignOf[p] * n[p]]
  <2>1. \A p \in S : SignOf[p] * n[p] \in Int
    BY <1>2
  <2>2. QED
    BY <2>1
<1>4. PICK A \in [S -> Int] : A = [p \in S |-> SignOf[p] * a[p]]
  <2>1. \A p \in S : SignOf[p] * a[p] \in Int
    BY <1>2
  <2>2. QED
    BY <2>1
<1>5. PICK one \in [S -> Int] : one = [p \in S |-> IF p \in legs THEN 1 ELSE 0]
  <2>1. \A p \in S : (IF p \in legs THEN 1 ELSE 0) \in Int
    OBVIOUS
  <2>2. QED
    BY <2>1
<1>6. PICK c \in Nat : c = Cardinality(legs) /\ c = Total(one, S)
  <2>1. Total(one, S) = Cardinality(legs)
    BY <1>2, <1>5, TotalCounts
  <2>2. Cardinality(legs) \in Nat
    BY <1>2, FS_Subset, FS_CardinalityType
  <2>3. QED
    BY <2>1, <2>2
<1>7. PICK x \in Int, y \in Int : x = Net(n) /\ x = Total(N, S) /\ y = Net(a) /\ y = Total(A, S)
  <2>1. Net(n) \in Int /\ Net(a) \in Int
    BY LoadFacts
  <2>2. Net(n) = Total(N, S) /\ Net(a) = Total(A, S)
    BY <1>3, <1>4 DEF Net
  <2>3. QED
    BY <2>1, <2>2
<1>8. PICK u \in Int, v \in Int, w \in Int : u = m * side /\ v = k * side /\ w = m - 1
  OBVIOUS
<1>9. PICK g \in [S -> Int] : g = [p \in S |-> v * N[p] + w * one[p]]
  <2>1. \A p \in S : v * N[p] + w * one[p] \in Int
    OBVIOUS
  <2>2. QED
    BY <2>1
<1>10. ASSUME NEW p \in S PROVE u * A[p] <= 1 * g[p]
  <2>1. PICK q \in Nat, r \in Nat : q = n[p] /\ r = a[p] /\ m * r <= k * q
                                    /\ k * q <= m * r + (m - 1) /\ (q = 0 => r = 0)
    BY DEF Shrinks
  <2>2. m * r \in Nat /\ k * q \in Nat
    BY ProductIsNat
  <2>3. CASE SignOf[p] = side
    <3>1. A[p] = side * r /\ N[p] = side * q /\ one[p] = 0
      BY <1>1, <1>3, <1>4, <1>5, <2>1, <2>3
    <3>2. u * A[p] = m * r /\ v * N[p] = k * q
      BY <1>8, <3>1
    <3>3. g[p] = k * q
      BY <1>9, <3>1, <3>2, <2>2
    <3>4. QED
      BY <2>1, <2>2, <3>2, <3>3
  <2>4. CASE SignOf[p] # side
    <3>1. SignOf[p] = -side
      BY <1>2, <2>4
    <3>2. A[p] = -side * r /\ N[p] = -side * q /\ one[p] = IF q > 0 THEN 1 ELSE 0
      <4>1. A[p] = SignOf[p] * a[p] /\ N[p] = SignOf[p] * n[p]
        BY <1>3, <1>4
      <4>2. A[p] = -side * r /\ N[p] = -side * q
        BY <2>1, <3>1, <4>1
      <4>3. one[p] = IF p \in legs THEN 1 ELSE 0
        BY <1>5
      <4>4. p \in legs <=> q > 0
        BY <1>1, <2>1, <3>1
      <4>5. QED
        BY <4>2, <4>3, <4>4
    <3>3. u * A[p] = -(m * r) /\ v * N[p] = -(k * q)
      BY <1>8, <3>2
    <3>4. g[p] = -(k * q) + (IF q > 0 THEN m - 1 ELSE 0)
      <4>1. w * one[p] = IF q > 0 THEN m - 1 ELSE 0
        BY <1>8, <3>2
      <4>2. g[p] = v * N[p] + w * one[p]
        BY <1>9
      <4>3. QED
        BY <3>3, <4>1, <4>2
    <3>5. q = 0 => m * r = 0 /\ k * q = 0
      BY <2>1
    <3>6. QED
      BY <2>1, <2>2, <3>3, <3>4, <3>5
  <2>5. QED
    BY <2>3, <2>4
<1>11. u * y <= v * x + w * c
  <2>1. Total(g, S) = v * x + w * c
    <3>1. Combines(g, v, N, w, one, S)
      BY <1>9 DEF Combines
    <3>2. Total(g, S) = v * Total(N, S) + w * Total(one, S)
      BY <1>2, <3>1, TotalIsLinear
    <3>3. QED
      BY <1>6, <1>7, <3>2
  <2>2. u * Total(A, S) <= 1 * Total(g, S) /\ Total(g, S) \in Int
    <3>1. PICK i \in Int : i = 1
      OBVIOUS
    <3>2. \A p \in S : u * A[p] <= i * g[p]
      BY <1>10, <3>1
    <3>3. u * Total(A, S) <= i * Total(g, S) /\ Total(g, S) \in Int
      BY <1>2, <3>2, TotalsCompare
    <3>4. QED
      BY <3>1, <3>3
  <2>3. QED
    BY <1>7, <2>1, <2>2
<1>12. c <= Cardinality(Across(side)) /\ Cardinality(Across(side)) \in Nat
  <2>1. PICK T : T = Across(side)
    OBVIOUS
  <2>2. \A p \in legs : ExposureOf[p] \in T
    BY <1>1, <2>1 DEF Across
  <2>3. PICK e : e = [p \in legs |-> ExposureOf[p]]
    OBVIOUS
  <2>4. e \in [legs -> T] /\ \A p, q \in legs : e[p] = e[q] => p = q
    BY <1>1, <2>2, <2>3
  <2>5. IsInjective(e)
    BY <2>4 DEF IsInjective
  <2>6. e \in Injection(legs, T)
    BY <2>4, <2>5 DEF Injection
  <2>7. IsFiniteSet(T)
    <3>1. PICK C \in SUBSET S : C = {q \in S : SignOf[q] = -side}
      OBVIOUS
    <3>2. IsFiniteSet(C)
      BY <1>2, FS_Subset
    <3>3. PICK h : h = [q \in C |-> ExposureOf[q]]
      OBVIOUS
    <3>4. T = {ExposureOf[q] : q \in C}
      BY <2>1, <3>1 DEF Across
    <3>5. h \in [C -> T] /\ \A t \in T : \E q \in C : h[q] = t
      BY <3>3, <3>4
    <3>6. h \in Surjection(C, T)
      BY <3>5 DEF Surjection
    <3>7. QED
      BY <3>2, <3>6, FS_Surjection
  <2>8. Cardinality(legs) <= Cardinality(T)
    BY <2>6, <2>7, FS_Injection
  <2>9. Cardinality(T) \in Nat
    BY <2>7, FS_CardinalityType
  <2>10. QED
    BY <1>6, <2>1, <2>8, <2>9
<1>13. PICK z \in Int : z = side * y /\ u * y = m * z /\ v * x = k * (side * x)
  BY <1>8
<1>20. PICK rest \in Int, most \in Int, now \in Int :
          rest = (m - 1) * c /\ most = m * limit /\ now = m * z
  OBVIOUS
<1>14. now <= most + rest
  <2>1. k * (side * x) <= m * limit
    BY <1>7
  <2>2. k * (side * x) \in Int /\ m * limit \in Int /\ m * z \in Int /\ (m - 1) * c \in Int
    OBVIOUS
  <2>3. m * z <= k * (side * x) + (m - 1) * c
    BY <1>8, <1>11, <1>13
  <2>4. QED
    BY <1>20, <2>1, <2>2, <2>3
<1>15. z <= limit + Gap(c, 1)
  <2>1. CASE c = 0
    <3>1. (m - 1) * c = 0 /\ Gap(c, 1) = 0
      BY <2>1 DEF Gap, Greater
    <3>2. rest = 0
      BY <1>20, <3>1
    <3>5. now <= most
      BY <1>14, <3>2
    <3>3. z <= limit
      BY <1>20, <3>5, Cancel
    <3>4. QED
      BY <3>1, <3>3
  <2>2. CASE c > 0
    <3>1. Gap(c, 1) = c - 1
      BY <2>2 DEF Gap, Greater
    <3>2. most + rest < m * (limit + c)
      <4>1. m * (limit + c) = m * limit + m * c
        BY TimesKeepsOrder
      <4>2. (m - 1) * c = m * c - c
        OBVIOUS
      <4>3. m * limit \in Int /\ m * c \in Int
        OBVIOUS
      <4>4. QED
        BY <1>20, <2>2, <4>1, <4>2, <4>3
    <3>3. m * z < m * (limit + c)
      <4>1. PICK sum \in Int : sum = m * (limit + c)
        OBVIOUS
      <4>2. now < sum
        BY <1>14, <3>2, <4>1
      <4>3. QED
        BY <1>20, <4>1, <4>2
    <3>4. z < limit + c
      BY <3>3, TimesKeepsOrder
    <3>5. QED
      BY <3>1, <3>4
  <2>3. QED
    BY <2>1, <2>2
<1>16. QED
  <2>1. PICK d \in Nat : d = Cardinality(Across(side)) /\ c <= d
    BY <1>12
  <2>2. Gap(c, 1) <= Gap(d, 1) /\ Gap(c, 1) \in Int /\ Gap(d, 1) \in Int
    BY <2>1 DEF Gap, Greater
  <2>3. QED
    BY <1>7, <1>13, <1>15, <2>1, <2>2

\* What the risk engine approves of sizes can be held.
LEMMA ApprovedFits ==
    ASSUME NEW n \in [Products -> Nat], NEW a,
           a = [p \in Products |-> Min({Fit(n[p], Loads(n)[l], Limits[l]) : l \in DOMAIN Limits})],
           \A p, q \in Products : ExposureOf[p] = ExposureOf[q] /\ n[p] > 0 /\ n[q] > 0 => p = q
    PROVE  /\ a \in [Products -> Nat] /\ \A p \in Products : a[p] > 0 => n[p] > 0
           /\ \A l \in DOMAIN Limits \ {"net"} : Loads(a)[l] <= Limits[l]
           /\ \A side \in {1, -1} :
                 side * Net(a) <= Limits["net"] + Gap(Cardinality(Across(side)), 1)
<1>1. PICK load \in [DOMAIN Limits -> Nat] : load = Loads(n)
  BY LoadFacts
<1>2. PICK k \in Nat, m \in Nat :
         /\ m > 0 /\ \A l \in DOMAIN Limits : k * load[l] <= m * Limits[l]
         /\ k <= m
         /\ \A s \in Nat :
               Min({Fit(s, load[l], Limits[l]) : l \in DOMAIN Limits}) = (s * k) \div m
  BY TightestLimit
<1>3. a = [p \in Products |-> (n[p] * k) \div m]
  <2>1. \A p \in Products : n[p] \in Nat
    OBVIOUS
  <2>2. QED
    BY <1>1, <1>2, <2>1
<1>4. ASSUME NEW p \in Products
      PROVE  /\ a[p] \in Nat /\ m * a[p] <= k * n[p] /\ k * n[p] <= m * a[p] + (m - 1)
             /\ n[p] = 0 => a[p] = 0
  <2>1. PICK s \in Nat : s = n[p]
    OBVIOUS
  <2>2. s * k = k * s
    OBVIOUS
  <2>3. a[p] = (s * k) \div m
    BY <1>3, <2>1
  <2>4. PICK r \in Nat : r = (s * k) \div m /\ m * r <= s * k /\ s * k <= m * r + (m - 1)
                         /\ (s = 0 => r = 0)
    BY <1>2, FloorFacts
  <2>5. QED
    BY <2>1, <2>2, <2>3, <2>4
<1>5. a \in [Products -> Nat] /\ Shrinks(n, a, k, m)
  BY <1>3, <1>4 DEF Shrinks
<1>6. \A p \in Products : a[p] > 0 => n[p] > 0
  BY <1>4
<1>7. /\ load["gross"] = Total(n, Products) /\ load["instrument"] = Max({n[p] : p \in Products})
      /\ load["margin"] = Total([p \in Products |-> MarginOf[p] * n[p]], Products)
      /\ \A side \in {1, -1} : side * Net(n) <= load["net"]
  BY <1>1, LoadFacts
<1>8. /\ Loads(a)["gross"] = Total(a, Products) /\ Loads(a)["instrument"] = Max({a[p] : p \in Products})
      /\ Loads(a)["margin"] = Total([p \in Products |-> MarginOf[p] * a[p]], Products)
  BY <1>5, LoadFacts
<1>9. DOMAIN Limits = {"gross", "net", "instrument", "margin"}
      /\ \A l \in DOMAIN Limits : Limits[l] \in Nat /\ k * load[l] <= m * Limits[l]
  BY <1>2, LimitFacts
<1>10. Total(a, Products) <= Limits["gross"]
  <2>1. PICK limit \in Nat : limit = Limits["gross"] /\ k * Total(n, Products) <= m * limit
    BY <1>7, <1>9
  <2>2. \A p \in Products : m * a[p] <= k * n[p]
    BY <1>4
  <2>3. QED
    BY <1>2, <1>5, <2>1, <2>2, ShrunkTotal
<1>11. Total([p \in Products |-> MarginOf[p] * a[p]], Products) <= Limits["margin"]
  <2>1. PICK f \in [Products -> Nat] : f = [p \in Products |-> MarginOf[p] * n[p]]
    <3>1. \A p \in Products : MarginOf[p] * n[p] \in Nat
      BY PortfolioAssumption, ProductIsNat
    <3>2. QED
      BY <3>1
  <2>2. PICK g \in [Products -> Nat] : g = [p \in Products |-> MarginOf[p] * a[p]]
    <3>1. \A p \in Products : MarginOf[p] * a[p] \in Nat
      BY <1>4, PortfolioAssumption, ProductIsNat
    <3>2. QED
      BY <3>1
  <2>3. PICK limit \in Nat : limit = Limits["margin"] /\ k * Total(f, Products) <= m * limit
    BY <1>7, <1>9, <2>1
  <2>4. ASSUME NEW p \in Products PROVE m * g[p] <= k * f[p]
    <3>1. PICK c \in Nat, s \in Nat, r \in Nat :
             c = MarginOf[p] /\ s = n[p] /\ r = a[p] /\ m * r <= k * s
      BY <1>4, PortfolioAssumption
    <3>2. m * (c * r) = c * (m * r) /\ k * (c * s) = c * (k * s)
      OBVIOUS
    <3>3. m * r \in Nat /\ k * s \in Nat
      BY ProductIsNat
    <3>4. c * (m * r) <= c * (k * s)
      BY <3>1, <3>3
    <3>5. g[p] = c * r /\ f[p] = c * s
      BY <2>1, <2>2, <3>1
    <3>6. QED
      BY <3>2, <3>4, <3>5
  <2>5. QED
    BY <1>2, <2>2, <2>3, <2>4, ShrunkTotal
<1>12. Max({a[p] : p \in Products}) <= Limits["instrument"]
  <2>1. PICK p \in Products : Max({a[q] : q \in Products}) = a[p]
    BY <1>5, GreatestSize
  <2>2. PICK s \in Nat, r \in Nat, most \in Nat, limit \in Nat :
           /\ s = n[p] /\ r = a[p] /\ most = load["instrument"] /\ limit = Limits["instrument"]
           /\ s <= most /\ m * r <= k * s /\ k * most <= m * limit
    <3>1. n[p] <= load["instrument"] /\ load["instrument"] \in Nat
      BY <1>7, <1>9, GreatestSize
    <3>2. k * load["instrument"] <= m * Limits["instrument"] /\ Limits["instrument"] \in Nat
      BY <1>9
    <3>3. m * a[p] <= k * n[p] /\ a[p] \in Nat /\ n[p] \in Nat
      BY <1>4
    <3>4. QED
      BY <3>1, <3>2, <3>3
  <2>3. k * s <= k * most /\ k * s \in Nat /\ k * most \in Nat /\ m * r \in Nat /\ m * limit \in Nat
    BY <2>2, ProductIsNat
  <2>4. m * r <= m * limit
    BY <2>2, <2>3
  <2>5. r <= limit
    BY <1>2, <2>4, Cancel
  <2>6. QED
    BY <2>1, <2>2, <2>5
<1>13. ASSUME NEW side \in {1, -1}
       PROVE  side * Net(a) <= Limits["net"] + Gap(Cardinality(Across(side)), 1)
  <2>1. PICK limit \in Nat, x \in Int, most \in Nat :
           /\ limit = Limits["net"] /\ x = side * Net(n) /\ most = load["net"]
           /\ x <= most /\ k * most <= m * limit
    <3>1. Net(n) \in Int /\ side * Net(n) <= load["net"]
      BY <1>7, LoadFacts
    <3>2. side * Net(n) \in Int
      BY <3>1
    <3>3. k * load["net"] <= m * Limits["net"] /\ Limits["net"] \in Nat /\ load["net"] \in Nat
      BY <1>9
    <3>4. QED
      BY <3>1, <3>2, <3>3
  <2>2. k * x <= k * most /\ k * x \in Int /\ k * most \in Int /\ m * limit \in Int
    BY <2>1
  <2>3. k * (side * Net(n)) <= m * limit
    BY <2>1, <2>2
  <2>4. QED
    BY <1>2, <1>5, <2>1, <2>3, ShrunkNet
<1>14. QED
  BY <1>5, <1>6, <1>8, <1>9, <1>10, <1>11, <1>12, <1>13

\* A decision keeps the invariant.
LEMMA DecideKeeps ==
    ASSUME PortfolioInvariant, Decide PROVE PortfolioInvariant'
<1>1. PortfolioTypeOK /\ target = NoPlan /\ plan = NoPlan
  BY DEF PortfolioInvariant, Decide
<1>2. PICK d \in [Products -> Nat] :
         d = target' /\ \A p \in Products : d[p] > 0 => p \in Selected(Worth)
  BY <1>1, DecidedFacts DEF Decide
<1>3. UNCHANGED <<held, view, plan>> /\ left' \subseteq Products
  BY <1>1 DEF Decide, PortfolioTypeOK
<1>4. \A p \in Products : ~(plan[p] > 0) /\ held[p] \in Nat
  BY <1>1 DEF NoPlan, PortfolioTypeOK
<1>5. ASSUME NEW p \in Products, NEW q \in Products, ExposureOf[p] = ExposureOf[q],
             held[p] > 0 \/ d[p] > 0, held[q] > 0 \/ d[q] > 0
      PROVE  p = q
  <2>1. CASE d[p] > 0
    BY <1>2, <1>5, <2>1, SelectedOnce
  <2>2. CASE d[q] > 0
    BY <1>2, <1>5, <2>2, SelectedOnce
  <2>3. CASE held[p] > 0 /\ held[q] > 0
    BY <1>5, <2>3 DEF PortfolioInvariant, InPlay
  <2>4. QED
    BY <1>5, <2>1, <2>2, <2>3
<1>6. PortfolioTypeOK'
  BY <1>1, <1>2, <1>3 DEF PortfolioTypeOK, NoPlan
<1>7. (\A p, q \in Products :
          ExposureOf[p] = ExposureOf[q] /\ InPlay(p) /\ InPlay(q) => p = q)'
  BY <1>2, <1>3, <1>4, <1>5 DEF InPlay
<1>8. ApprovedIsHoldable'
  BY <1>1, <1>3 DEF ApprovedIsHoldable, NoPlan
<1>9. QED
  BY <1>6, <1>7, <1>8 DEF PortfolioInvariant

\* What the gate leaves of a target was wanted or is held.
LEMMA GatedFacts ==
    ASSUME PortfolioTypeOK, NEW want \in [Products -> Nat], NEW gate
    PROVE  /\ Gated(want, gate) \in [Products -> Nat]
           /\ \A p \in Products : Gated(want, gate)[p] > 0 => want[p] > 0 \/ held[p] > 0
<1>1. \A p \in Products : held[p] \in Nat
  BY DEF PortfolioTypeOK
<1>2. \A p \in Products : Gated(want, gate)[p] \in {0, want[p], held[p]}
  BY DEF Gated
<1>3. Gated(want, gate) = [p \in Products |-> Gated(want, gate)[p]]
  BY DEF Gated
<1>4. QED
  BY <1>1, <1>2, <1>3

\* An approval keeps the invariant.
LEMMA ApproveKeeps ==
    ASSUME PortfolioInvariant, Approve PROVE PortfolioInvariant'
<1>1. PortfolioTypeOK
  BY DEF PortfolioInvariant
<1>2. PICK want \in [Products -> Nat] : want = target
  BY <1>1 DEF Approve, PortfolioTypeOK
<1>3. PICK gate : plan' = Approved(target, gate)
  BY DEF Approve
<1>4. PICK n \in [Products -> Nat] :
         /\ n = Gated(want, gate)
         /\ \A p \in Products : n[p] > 0 => want[p] > 0 \/ held[p] > 0
  BY <1>1, GatedFacts
<1>5. PICK a : a = [p \in Products |-> Min({Fit(n[p], Loads(n)[l], Limits[l]) : l \in DOMAIN Limits})]
  OBVIOUS
<1>6. plan' = a
  BY <1>2, <1>3, <1>4, <1>5 DEF Approved
<1>7. \A p, q \in Products :
         ExposureOf[p] = ExposureOf[q] /\ (held[p] > 0 \/ want[p] > 0) /\ (held[q] > 0 \/ want[q] > 0)
            => p = q
  BY <1>2 DEF PortfolioInvariant, InPlay
<1>8. \A p, q \in Products : ExposureOf[p] = ExposureOf[q] /\ n[p] > 0 /\ n[q] > 0 => p = q
  BY <1>4, <1>7
<1>9. /\ a \in [Products -> Nat] /\ \A p \in Products : a[p] > 0 => n[p] > 0
      /\ \A l \in DOMAIN Limits \ {"net"} : Loads(a)[l] <= Limits[l]
      /\ \A side \in {1, -1} : side * Net(a) <= Limits["net"] + Gap(Cardinality(Across(side)), 1)
  BY <1>5, <1>8, ApprovedFits
<1>10. UNCHANGED <<held, view, left>> /\ target' = NoPlan
  BY DEF Approve
<1>11. PortfolioTypeOK'
  BY <1>1, <1>6, <1>9, <1>10 DEF PortfolioTypeOK, NoPlan
<1>12. \A p \in Products : ~(target'[p] > 0)
  BY <1>10 DEF NoPlan
<1>13. (\A p, q \in Products :
          ExposureOf[p] = ExposureOf[q] /\ InPlay(p) /\ InPlay(q) => p = q)'
  <2>1. \A p \in Products : InPlay(p)' => held[p] > 0 \/ want[p] > 0
    BY <1>4, <1>6, <1>9, <1>10, <1>12 DEF InPlay
  <2>2. QED
    BY <1>7, <2>1
<1>14. ApprovedIsHoldable'
  <2>1. Loads(plan)' = Loads(a) /\ Net(plan)' = Net(a)
    BY <1>6 DEF Loads, Net
  <2>2. QED
    BY <1>9, <2>1 DEF ApprovedIsHoldable, Across, Gap, Greater
<1>15. QED
  BY <1>11, <1>13, <1>14 DEF PortfolioInvariant

\* A plan that holds nothing is within every limit.
LEMMA NothingFits ==
    ASSUME NEW a, a = [p \in Products |-> 0]
    PROVE  /\ \A l \in DOMAIN Limits \ {"net"} : Loads(a)[l] <= Limits[l]
           /\ \A side \in {1, -1} :
                 side * Net(a) <= Limits["net"] + Gap(Cardinality(Across(side)), 1)
<1>1. a \in [Products -> Nat]
  BY DEF Nat
<1>2. PICK load \in [DOMAIN Limits -> Nat] : load = Loads(a)
  BY <1>1, LoadFacts
<1>3. ASSUME NEW l \in DOMAIN Limits PROVE Fit(0, load[l], Limits[l]) = 0
  <2>1. PICK x \in Nat, y \in Nat : x = load[l] /\ y = Limits[l]
    BY LimitFacts
  <2>2. CASE x <= y
    BY <2>1, <2>2 DEF Fit
  <2>3. CASE ~(x <= y)
    <3>1. (0 * y) \div x = 0
      BY <2>3
    <3>2. QED
      BY <2>1, <2>3, <3>1 DEF Fit
  <2>4. QED
    BY <2>2, <2>3
<1>4. {Fit(0, load[l], Limits[l]) : l \in DOMAIN Limits} = {0}
  <2>1. "net" \in DOMAIN Limits
    BY LimitFacts
  <2>2. QED
    BY <1>3, <2>1
<1>5. Min({0}) = 0
  BY DEF Min
<1>6. a = [p \in Products |-> Min({Fit(a[p], Loads(a)[l], Limits[l]) : l \in DOMAIN Limits})]
  <2>1. \A p \in Products : a[p] = 0
    OBVIOUS
  <2>2. \A p \in Products : Min({Fit(a[p], Loads(a)[l], Limits[l]) : l \in DOMAIN Limits}) = 0
    BY <1>2, <1>4, <1>5, <2>1
  <2>3. QED
    BY <2>2
<1>7. \A p \in Products : ~(a[p] > 0)
  OBVIOUS
<1>8. QED
  BY <1>1, <1>6, <1>7, ApprovedFits

\* An exit plan keeps the invariant.
LEMMA ProtectKeeps ==
    ASSUME PortfolioInvariant, Protect PROVE PortfolioInvariant'
<1>1. PICK a : a = [p \in Products |-> 0] /\ plan' = a
  BY DEF Protect
<1>2. UNCHANGED <<held, view, target, left>> /\ a \in [Products -> Nat]
  BY <1>1 DEF Protect
<1>3. PortfolioTypeOK'
  BY <1>1, <1>2 DEF PortfolioInvariant, PortfolioTypeOK, NoPlan
<1>4. (\A p, q \in Products :
          ExposureOf[p] = ExposureOf[q] /\ InPlay(p) /\ InPlay(q) => p = q)'
  <2>1. \A p \in Products : ~(a[p] > 0)
    BY <1>1
  <2>2. QED
    BY <1>1, <1>2, <2>1 DEF PortfolioInvariant, InPlay
<1>5. ApprovedIsHoldable'
  <2>1. Loads(plan)' = Loads(a) /\ Net(plan)' = Net(a)
    BY <1>1 DEF Loads, Net
  <2>2. QED
    BY <1>1, <2>1, NothingFits DEF ApprovedIsHoldable, Across, Gap, Greater
<1>6. QED
  BY <1>3, <1>4, <1>5 DEF PortfolioInvariant

\* Execution keeps the invariant: it moves only what is held or planned.
LEMMA ExecuteKeeps ==
    ASSUME PortfolioInvariant, NEW p \in Products, Execute(p) PROVE PortfolioInvariant'
<1>1. PortfolioTypeOK /\ UNCHANGED <<view, target, plan, left>> /\ plan # NoPlan
  BY DEF PortfolioInvariant, Execute
<1>2. PICK size \in Nat, aim \in Nat : size = held[p] /\ aim = plan[p] /\ size # aim
  BY <1>1 DEF PortfolioTypeOK, Execute
<1>3. PICK next \in Nat : next = (IF size < aim THEN size + 1 ELSE size - 1)
                          /\ (next > 0 => size > 0 \/ aim > 0)
  BY <1>2
<1>4. held' = [held EXCEPT ![p] = next] /\ held \in [Products -> Nat]
  BY <1>1, <1>2, <1>3 DEF Execute, PortfolioTypeOK
<1>5. PortfolioTypeOK'
  BY <1>1, <1>4 DEF PortfolioTypeOK, NoPlan
<1>6. \A q \in Products : InPlay(q)' => InPlay(q)
  BY <1>1, <1>2, <1>3, <1>4 DEF InPlay
<1>7. ApprovedIsHoldable'
  <2>1. Loads(plan)' = Loads(plan) /\ Net(plan)' = Net(plan)
    BY <1>1 DEF Loads, Net
  <2>2. QED
    BY <1>1, <2>1 DEF PortfolioInvariant, ApprovedIsHoldable, NoPlan, Across, Gap, Greater
<1>8. QED
  BY <1>5, <1>6, <1>7 DEF PortfolioInvariant

\* What ends a plan or a target, or leaves them, keeps the invariant.
LEMMA RestKeeps ==
    ASSUME PortfolioInvariant, UNCHANGED held, view' \in [Products -> Views], left' \subseteq Products,
           target' \in {target, NoPlan}, plan' \in {plan, NoPlan}
    PROVE  PortfolioInvariant'
<1>1. PortfolioTypeOK
  BY DEF PortfolioInvariant
<1>2. PortfolioTypeOK'
  BY <1>1 DEF PortfolioTypeOK, NoPlan
<1>3. \A q \in Products : ~(NoPlan[q] > 0)
  BY DEF NoPlan
<1>4. \A q \in Products : InPlay(q)' => InPlay(q)
  BY <1>3 DEF InPlay
<1>5. ApprovedIsHoldable'
  <2>1. CASE plan' = NoPlan
    BY <2>1 DEF ApprovedIsHoldable, NoPlan
  <2>2. CASE plan' = plan
    <3>1. Loads(plan)' = Loads(plan) /\ Net(plan)' = Net(plan)
      BY <2>2 DEF Loads, Net
    <3>2. QED
      BY <2>2, <3>1 DEF PortfolioInvariant, ApprovedIsHoldable, NoPlan, Across, Gap, Greater
  <2>3. QED
    BY <2>1, <2>2
<1>6. QED
  BY <1>2, <1>4, <1>5 DEF PortfolioInvariant

\* Every step of the portfolio, its cycles and its executions, keeps the
\* products of an exposure apart and what is approved within the limits.
THEOREM PortfolioSafe == PortfolioSpec => []PortfolioInvariant
<1>1. PortfolioInit => PortfolioInvariant
  <2>. SUFFICES ASSUME PortfolioInit PROVE PortfolioInvariant
    OBVIOUS
  <2>1. \A p \in Products : ~InPlay(p)
    BY DEF PortfolioInit, InPlay, NoPlan
  <2>2. PortfolioTypeOK
    BY DEF PortfolioInit, PortfolioTypeOK, NoPlan
  <2>3. QED
    BY <2>1, <2>2 DEF PortfolioInvariant, PortfolioInit, ApprovedIsHoldable
<1>2. PortfolioInvariant /\ [PortfolioNext]_portfolioVars => PortfolioInvariant'
  <2>. SUFFICES ASSUME PortfolioInvariant, [PortfolioNext]_portfolioVars
                PROVE  PortfolioInvariant'
    OBVIOUS
  <2>1. view \in [Products -> Views] /\ left \subseteq Products
    BY DEF PortfolioInvariant, PortfolioTypeOK
  <2>2. CASE Reject
    BY <2>1, <2>2, RestKeeps DEF Reject
  <2>3. CASE EndPlan
    BY <2>1, <2>3, RestKeeps DEF EndPlan
  <2>4. CASE MarketMoves
    BY <2>1, <2>4, RestKeeps DEF MarketMoves
  <2>5. CASE UNCHANGED portfolioVars
    BY <2>1, <2>5, RestKeeps DEF portfolioVars
  <2>6. QED
    BY <2>2, <2>3, <2>4, <2>5, DecideKeeps, ApproveKeeps, ProtectKeeps, ExecuteKeeps
       DEF PortfolioNext
<1>3. QED
  BY <1>1, <1>2, PTL DEF PortfolioSpec

\* However decisions, limits, half executed plans and exits follow each other,
\* no two products of one exposure are ever held together
\* (portfolio/decision.py raises on the second holding of an exposure).
THEOREM ExposuresStaySingle == PortfolioSpec => []OneProductPerExposure
<1>1. PortfolioInvariant => OneProductPerExposure
  <2>. SUFFICES ASSUME PortfolioInvariant, NEW x PROVE Cardinality(Holding(x)) <= 1
    BY DEF OneProductPerExposure
  <2>1. PICK H : H = Holding(x)
    OBVIOUS
  <2>2. \A p, q \in H : p = q
    BY <2>1 DEF Holding, PortfolioInvariant, InPlay
  <2>3. CASE H = {}
    BY <2>1, <2>3, FS_EmptySet
  <2>4. CASE H # {}
    <3>1. PICK p \in H : TRUE
      BY <2>4
    <3>2. H = {p}
      BY <2>2, <3>1
    <3>3. Cardinality({p}) = 1
      BY FS_Singleton
    <3>4. QED
      BY <2>1, <3>2, <3>3
  <2>5. QED
    BY <2>3, <2>4
<1>2. QED
  BY <1>1, PortfolioSafe, PTL

\* What the risk engine approves is within every limit of the review that
\* follows, to the rounding of the sizes of one side.
THEOREM ApprovalsAreHoldable == PortfolioSpec => []ApprovedIsHoldable
<1>1. PortfolioInvariant => ApprovedIsHoldable
  BY DEF PortfolioInvariant
<1>2. QED
  BY <1>1, PortfolioSafe, PTL

\* Every reachable state of the portfolio is well typed.
THEOREM PortfolioTypeCorrect == PortfolioSpec => []PortfolioTypeOK
<1>1. PortfolioInvariant => PortfolioTypeOK
  BY DEF PortfolioInvariant
<1>2. QED
  BY <1>1, PortfolioSafe, PTL

-----------------------------------------------------------------------------
(* PortfolioChoice: a switch is not undone.                                  *)

\* Depth costs more for each size the more is traded at once.
LEMMA DepthRatio ==
    ASSUME NEW k \in Nat, NEW h \in Nat, 0 < k, k <= h
    PROVE  DepthCost(k) * h <= DepthCost(h) * k
<1>1. PICK d \in Nat, a \in Nat : d = Depth /\ a = Half /\ d > 0
  BY PortfolioNumbers
<1>2. PICK q \in Nat, Q \in Nat : q = DepthCost(k) /\ Q = DepthCost(h)
  BY DepthCostIsNat
<1>3. CASE k <= d
  <2>1. q = 0
    BY <1>1, <1>2, <1>3 DEF DepthCost
  <2>2. Q * k \in Nat /\ q * h = 0
    BY <2>1, ProductIsNat
  <2>3. QED
    BY <1>2, <2>2
<1>4. CASE k = h
  BY <1>2, <1>4
<1>5. CASE ~(k <= d) /\ k # h /\ a = 0
  <2>1. (0 * k) * (k - d) = 0 /\ (0 * h) * (h - d) = 0 /\ 0 \div d = 0
    BY <1>1
  <2>2. q = 0 /\ Q = 0
    BY <1>1, <1>2, <1>5, <2>1 DEF DepthCost
  <2>3. QED
    BY <1>2, <2>2
<1>6. CASE ~(k <= d) /\ k # h /\ a # 0
  <2>1. PICK r \in Nat, R \in Nat, e \in Nat : r = k - d /\ R = h - d /\ e = h - k /\ e > 0 /\ R = r + e
    BY <1>6
  <2>2. PICK u \in Nat, v \in Nat, w \in Nat : u = a * r /\ v = a * R /\ w = a * e
    BY ProductIsNat
  <2>3. v = u + w
    BY <2>1, <2>2
  <2>4. w > 0
    BY <1>6, <2>1, <2>2
  <2>5. PICK x \in Nat, y \in Nat : x = k * u /\ y = h * v
    BY ProductIsNat
  <2>6. (a * k) * r = x /\ (a * h) * R = y
    BY <2>2, <2>5
  <2>7. q = x \div d
    BY <1>1, <1>2, <1>6, <2>1, <2>6 DEF DepthCost
  <2>8. Q = y \div d
    <3>1. ~(h <= d)
      BY <1>6
    <3>2. QED
      BY <1>1, <1>2, <2>1, <2>6, <3>1 DEF DepthCost
  <2>9. d * q <= x
    BY <1>1, <2>7, DivFacts
  <2>10. y < d * Q + d
    BY <1>1, <2>8, DivFacts
  <2>11. PICK z \in Nat : z = h * u
    BY ProductIsNat
  <2>12. y >= z + h
    <3>1. h * v = h * u + h * w
      BY <2>3
    <3>2. h * w >= h
      BY <2>4
    <3>3. QED
      BY <2>5, <2>11, <3>1, <3>2
  <2>13. PICK m \in Nat, n \in Nat : m = d * q /\ n = d * Q
    BY ProductIsNat
  <2>14. z <= n
    <3>1. h > d
      BY <1>6
    <3>2. QED
      BY <2>10, <2>12, <2>13, <3>1
  <2>15. m * h <= x * h /\ z * k <= n * k
    <3>1. m <= x
      BY <2>9, <2>13
    <3>2. QED
      BY <2>14, <3>1
  <2>16. x * h = z * k
    BY <2>5, <2>11
  <2>17. m * h <= n * k
    <3>1. m * h \in Nat /\ x * h \in Nat /\ n * k \in Nat
      BY ProductIsNat
    <3>2. QED
      BY <2>15, <2>16, <3>1
  <2>18. PICK s \in Nat, t \in Nat : s = q * h /\ t = Q * k
    BY ProductIsNat
  <2>19. m * h = d * s /\ n * k = d * t
    BY <2>13, <2>18
  <2>20. s <= t
    BY <1>1, <2>17, <2>19, TimesKeepsOrder
  <2>21. QED
    BY <1>2, <2>18, <2>20
<1>7. QED
  BY <1>3, <1>4, <1>5, <1>6

\* More costs more.
LEMMA DepthGrows ==
    ASSUME NEW k \in Nat, NEW h \in Nat, k <= h
    PROVE  DepthCost(k) <= DepthCost(h)
<1>1. PICK q \in Nat, Q \in Nat : q = DepthCost(k) /\ Q = DepthCost(h)
  BY DepthCostIsNat
<1>2. CASE k = 0
  <2>1. q = 0
    BY <1>1, <1>2, PortfolioNumbers DEF DepthCost
  <2>2. QED
    BY <1>1, <2>1
<1>3. CASE k # 0
  <2>1. q * h <= Q * k
    BY <1>1, <1>3, DepthRatio
  <2>2. Q * k <= Q * h
    OBVIOUS
  <2>3. PICK x \in Nat, y \in Nat, z \in Nat : x = h * q /\ y = Q * k /\ z = h * Q
    BY ProductIsNat
  <2>4. x <= z
    BY <2>1, <2>2, <2>3
  <2>5. QED
    BY <1>1, <1>3, <2>3, <2>4, TimesKeepsOrder
<1>4. QED
  BY <1>2, <1>3

\* What leaving a holding costs.
LEMMA ExitCost ==
    ASSUME NEW h \in Nat
    PROVE  TransitionCost(h, 0) = Fee * h + DepthCost(h)
<1>1. Gap(0, h) = 0 /\ Gap(h, 0) = h
  BY DEF Gap, Greater
<1>2. DepthCost(0) = 0
  BY PortfolioNumbers DEF DepthCost
<1>3. PICK d \in Nat : d = DepthCost(h)
  BY DepthCostIsNat
<1>4. Half * 0 = 0 /\ 0 + h + 0 = h
  BY PortfolioNumbers
<1>5. PICK f \in Nat : f = Fee * h
  BY PortfolioNumbers, ProductIsNat
<1>6. QED
  BY <1>1, <1>2, <1>3, <1>4, <1>5 DEF TransitionCost

\* For each size of it, leaving a smaller holding costs no more.
LEMMA ExitRatio ==
    ASSUME NEW k \in Nat, NEW h \in Nat, 0 < k, k <= h
    PROVE  TransitionCost(k, 0) * h <= TransitionCost(h, 0) * k
<1>1. PICK f \in Nat, q \in Nat, Q \in Nat : f = Fee /\ q = DepthCost(k) /\ Q = DepthCost(h)
  BY PortfolioNumbers, DepthCostIsNat
<1>2. TransitionCost(k, 0) = f * k + q /\ TransitionCost(h, 0) = f * h + Q
  BY <1>1, ExitCost
<1>3. (f * k + q) * h = f * k * h + q * h /\ (f * h + Q) * k = f * k * h + Q * k
  OBVIOUS
<1>4. PICK x \in Nat, y \in Nat, z \in Nat : x = f * k * h /\ y = q * h /\ z = Q * k
  BY ProductIsNat
<1>5. y <= z
  BY <1>1, <1>4, DepthRatio
<1>6. QED
  BY <1>2, <1>3, <1>4, <1>5

\* What is worth less the less of it is held.
LEMMA NetGrows ==
    ASSUME PortfolioTypeOK, NEW p \in Products,
           NEW k \in Nat, NEW h \in Nat, NEW n \in Nat, k <= h, h <= n
    PROVE  /\ NetAt(p, k, n) \in Int /\ NetAt(p, h, n) \in Int
           /\ NetAt(p, k, n) <= NetAt(p, h, n)
<1>1. PICK edge \in Int, a \in Nat, f \in Nat : edge = view[p].edge /\ a = Half /\ f = Fee
  BY PortfolioNumbers DEF PortfolioTypeOK
<1>2. PICK x \in Int, o \in Nat, e \in Nat : x = edge * n /\ o = a * n /\ e = DepthCost(n)
  <2>1. edge * n \in Int /\ a * n \in Nat
    BY ProductIsNat
  <2>2. QED
    BY <2>1, DepthCostIsNat
<1>3. ASSUME NEW c \in Nat, c <= n
      PROVE  \E r \in Nat : /\ r = n - c
                            /\ NetAt(p, c, n) = x + a * c - a * r - (f * (r + n) + o + DepthCost(r) + e)
  <2>1. PICK r \in Nat : r = n - c
    BY <1>3
  <2>2. Lesser(c, n) = c /\ Gap(n, c) = r /\ Gap(c, n) = 0
    BY <1>3, <2>1 DEF Lesser, Gap, Greater
  <2>3. DepthCost(0) = 0 /\ r + 0 + n = r + n
    BY PortfolioNumbers DEF DepthCost
  <2>4. PICK D \in Nat, t \in Nat, s \in Nat, g \in Nat :
            D = DepthCost(r) /\ t = f * (r + n) /\ s = a * c /\ g = a * r
    BY DepthCostIsNat, ProductIsNat
  <2>5. GrossValue(p, c, n) = x + s - g
    BY <1>1, <1>2, <2>2, <2>4 DEF GrossValue
  <2>6. TransitionCost(c, n) = t + o + D + 0 + e
    BY <1>1, <1>2, <2>2, <2>3, <2>4 DEF TransitionCost
  <2>7. NetAt(p, c, n) = x + s - g - (t + o + D + e)
    BY <2>5, <2>6 DEF NetAt
  <2>8. QED
    BY <2>1, <2>4, <2>7
<1>4. PICK r \in Nat : /\ r = n - k
                       /\ NetAt(p, k, n) = x + a * k - a * r - (f * (r + n) + o + DepthCost(r) + e)
  <2>1. k <= n
    OBVIOUS
  <2>2. QED
    BY <1>3, <2>1
<1>5. PICK R \in Nat : /\ R = n - h
                       /\ NetAt(p, h, n) = x + a * h - a * R - (f * (R + n) + o + DepthCost(R) + e)
  BY <1>3
<1>6. PICK c \in Nat, C \in Nat, b \in Nat, B \in Nat, d \in Nat, D \in Nat, t \in Nat, T \in Nat :
          /\ c = a * k /\ C = a * h /\ b = a * r /\ B = a * R
          /\ d = DepthCost(r) /\ D = DepthCost(R) /\ t = f * (r + n) /\ T = f * (R + n)
  <2>1. DepthCost(r) \in Nat /\ DepthCost(R) \in Nat
    BY DepthCostIsNat
  <2>2. a * k \in Nat /\ a * h \in Nat /\ a * r \in Nat /\ a * R \in Nat
    BY ProductIsNat
  <2>3. f * (r + n) \in Nat /\ f * (R + n) \in Nat
    BY ProductIsNat
  <2>4. QED
    BY <2>1, <2>2, <2>3
<1>7. R <= r
  BY <1>4, <1>5
<1>8. D <= d
  BY <1>6, <1>7, DepthGrows
<1>9. c <= C /\ B <= b
  <2>1. a * k <= a * h /\ a * R <= a * r
    BY <1>7
  <2>2. QED
    BY <1>6, <2>1
<1>10. T <= t
  <2>1. f * (R + n) <= f * (r + n)
    BY <1>7
  <2>2. QED
    BY <1>6, <2>1
<1>11. NetAt(p, k, n) = x + c - b - (t + o + d + e) /\ NetAt(p, h, n) = x + C - B - (T + o + D + e)
  BY <1>4, <1>5, <1>6
<1>12. QED
  BY <1>8, <1>9, <1>10, <1>11

\* Of three fractions in a row the first is before the last, and strictly if one
\* step is.
LEMMA RatiosChain ==
    ASSUME NEW a \in Int, NEW c \in Int, NEW e \in Int, NEW b \in Nat, NEW d \in Nat, NEW f \in Nat,
           b > 0, d > 0, f > 0, a * d >= c * b, c * f >= e * d
    PROVE  a * f >= e * b /\ (a * d > c * b \/ c * f > e * d => a * f > e * b)
<1>1. PICK x \in Int, y \in Int, u \in Int, v \in Int : x = a * d /\ y = c * b /\ u = c * f /\ v = e * d
  OBVIOUS
<1>2. f * x >= f * y /\ (x > y => f * x > f * y)
  BY <1>1, TimesKeepsOrder
<1>3. b * u >= b * v /\ (u > v => b * u > b * v)
  BY <1>1, TimesKeepsOrder
<1>4. PICK m \in Int, n \in Int : m = a * f /\ n = e * b
  OBVIOUS
<1>5. f * x = d * m /\ f * y = b * u /\ b * v = d * n
  BY <1>1, <1>4
<1>6. PICK p \in Int, q \in Int, r \in Int : p = d * m /\ q = b * u /\ r = d * n
  OBVIOUS
<1>7. p >= r /\ (x > y \/ u > v => p > r)
  <2>1. p >= q /\ (x > y => p > q)
    BY <1>2, <1>5, <1>6
  <2>2. q >= r /\ (u > v => q > r)
    BY <1>3, <1>5, <1>6
  <2>3. QED
    BY <2>1, <2>2
<1>8. m >= n /\ (p > r => m > n)
  BY <1>6, <1>7, TimesKeepsOrder
<1>9. QED
  BY <1>1, <1>4, <1>7, <1>8

\* What has a worth that can be compared.
Comparable(w, C) == \A p \in C : w[p].net \in Int /\ w[p].size \in Nat /\ w[p].size > 0

\* Of two that can be compared one beats the other.
LEMMA OneBeats ==
    ASSUME NEW w, NEW C \in SUBSET Products, Comparable(w, C), NEW p \in C, NEW q \in C, p # q
    PROVE  Beats(w, p, q) \/ Beats(w, q, p)
<1>1. PICK a \in Int, b \in Nat, c \in Int, d \in Nat :
          a = w[p].net /\ b = w[p].size /\ c = w[q].net /\ d = w[q].size
  BY DEF Comparable
<1>2. PICK x \in Int, y \in Int : x = a * d /\ y = c * b
  OBVIOUS
<1>3. p \in Nat /\ q \in Nat
  BY PortfolioNumbers
<1>4. x > y \/ y > x \/ (x = y /\ (p < q \/ q < p))
  BY <1>2, <1>3
<1>5. Beats(w, p, q) <=> x > y \/ (x = y /\ p < q)
  BY <1>1, <1>2 DEF Beats
<1>6. Beats(w, q, p) <=> y > x \/ (y = x /\ q < p)
  BY <1>1, <1>2 DEF Beats
<1>7. QED
  BY <1>4, <1>5, <1>6

\* Who beats the one that beats a third beats the third.
LEMMA BeatsChain ==
    ASSUME NEW w, NEW C \in SUBSET Products, Comparable(w, C),
           NEW p \in C, NEW q \in C, NEW r \in C, Beats(w, p, q), Beats(w, q, r)
    PROVE  Beats(w, p, r)
<1>1. PICK a \in Int, b \in Nat, c \in Int, d \in Nat, e \in Int, f \in Nat :
          /\ a = w[p].net /\ b = w[p].size /\ c = w[q].net /\ d = w[q].size
          /\ e = w[r].net /\ f = w[r].size /\ b > 0 /\ d > 0 /\ f > 0
  BY DEF Comparable
<1>2. p \in Nat /\ q \in Nat /\ r \in Nat
  BY PortfolioNumbers
<1>3. a * d > c * b \/ (a * d = c * b /\ p < q)
  BY <1>1 DEF Beats
<1>4. c * f > e * d \/ (c * f = e * d /\ q < r)
  BY <1>1 DEF Beats
<1>5. PICK x \in Int, y \in Int, u \in Int, v \in Int, m \in Int, n \in Int :
          x = a * d /\ y = c * b /\ u = c * f /\ v = e * d /\ m = a * f /\ n = e * b
  OBVIOUS
<1>6. x >= y /\ u >= v
  BY <1>3, <1>4, <1>5
<1>7. m >= n /\ (x > y \/ u > v => m > n)
  <2>1. a * d >= c * b /\ c * f >= e * d
    BY <1>5, <1>6
  <2>2. a * f >= e * b /\ (a * d > c * b \/ c * f > e * d => a * f > e * b)
    <3>1. b > 0 /\ d > 0 /\ f > 0
      BY <1>1
    <3>2. QED
      BY <2>1, <3>1, RatiosChain
  <2>3. QED
    BY <1>5, <2>2
<1>8. (x > y \/ p < q) /\ (u > v \/ q < r)
  BY <1>3, <1>4, <1>5
<1>9. m > n \/ (m = n /\ p < r)
  BY <1>2, <1>7, <1>8
<1>10. QED
  BY <1>1, <1>5, <1>9 DEF Beats

\* One of finitely many beats all others: it is the foremost.
LEMMA ForemostBeats ==
    ASSUME NEW w, NEW C \in SUBSET Products, C # {}, Comparable(w, C)
    PROVE  Foremost(w, C) \in C /\ \A q \in C \ {Foremost(w, C)} : Beats(w, Foremost(w, C), q)
<1>. DEFINE First(m, s) == \A q \in s \ {m} : Beats(w, m, q)
<1>1. IsFiniteSet(C)
  BY PortfolioNumbers, FS_Subset
<1>2. PICK Good : Good = {s \in SUBSET C : s = {} \/ \E m \in s : First(m, s)}
  OBVIOUS
<1>3. {} \in Good
  BY <1>2
<1>4. ASSUME NEW s \in SUBSET C, s # {}, \A x \in s : s \ {x} \in Good PROVE s \in Good
  <2>1. PICK x \in s : s \ {x} \in Good
    BY <1>4
  <2>2. CASE s \ {x} = {}
    <3>1. First(x, s)
      BY <2>2
    <3>2. QED
      BY <1>2, <3>1
  <2>3. CASE s \ {x} # {}
    <3>1. PICK m \in s \ {x} : First(m, s \ {x})
      BY <1>2, <2>1, <2>3
    <3>2. CASE Beats(w, m, x)
      <4>1. First(m, s)
        BY <3>1, <3>2
      <4>2. QED
        BY <1>2, <3>1, <4>1
    <3>3. CASE Beats(w, x, m)
      <4>1. ASSUME NEW q \in s \ {x} PROVE Beats(w, x, q)
        <5>1. CASE q = m
          BY <3>3, <5>1
        <5>2. CASE q # m
          <6>1. Beats(w, m, q)
            BY <3>1, <4>1, <5>2
          <6>2. x \in C /\ m \in C /\ q \in C
            BY <2>1, <3>1, <4>1
          <6>3. QED
            BY <3>3, <6>1, <6>2, BeatsChain
        <5>3. QED
          BY <5>1, <5>2
      <4>2. First(x, s)
        BY <4>1
      <4>3. QED
        BY <1>2, <2>1, <4>2
    <3>4. m \in C /\ x \in C /\ m # x
      BY <2>1, <3>1
    <3>5. QED
      BY <3>2, <3>3, <3>4, OneBeats
  <2>4. QED
    BY <2>2, <2>3
<1>5. C \in Good
  BY <1>1, <1>3, <1>4, PartByPart
<1>6. \E m \in C : \A q \in C \ {m} : Beats(w, m, q)
  BY <1>2, <1>5
<1>7. QED
  BY <1>6 DEF Foremost

-----------------------------------------------------------------------------
\* What a product that is worth having is worth: with nothing held it is fresh
\* and of the greatest size; of a holding it is at most what is held, or fresh
\* and of the greatest size.
AtMost(p)  == Worth[p].size <= held[p]
AtFull(p)  == /\ view[p].state = "fresh" /\ Worth[p].size = SingleLimit
              /\ Worth[p].net = NetAt(p, held[p], SingleLimit) /\ Worth[p].net > 0

LEMMA WorthHaving ==
    ASSUME PortfolioTypeOK, NEW p \in DOMAIN Worth, Worth[p].ok
    PROVE  /\ p \in Products /\ Worth[p].size \in Nat /\ Worth[p].size > 0 /\ Worth[p].net \in Int
           /\ AtFull(p) \/ (AtMost(p) /\ held[p] > 0)
<1>1. p \in Products /\ Worth[p] = Valued(p, Cap(p)) /\ Worth[p].size \in Nat /\ Worth[p].net \in Int
  BY WorthFacts DEF Worth
<1>2. PICK n \in Nat, h \in Nat : n = Cap(p) /\ h = held[p]
  BY <1>1, CapIsNat DEF PortfolioTypeOK
<1>3. PICK asked : asked = ValuedAt(p, n, 0)
  OBVIOUS
<1>4. /\ asked.size = n /\ asked.net = NetAt(p, h, n) /\ asked.valid = Valid(p, n)
      /\ asked.ok = (Valid(p, n) /\ asked.net > 0)
  BY <1>2, <1>3 DEF ValuedAt, NetAt
<1>5. CASE Worth[p] = asked
  <2>1. Valid(p, n) /\ asked.net > 0
    BY <1>4, <1>5
  <2>2. n > 0
    <3>1. n = 0 => asked.net <= 0
      BY <1>1, <1>3, ValuedAtFacts
    <3>2. asked.net \in Int
      BY <1>1, <1>5
    <3>3. QED
      BY <2>1, <3>1, <3>2
  <2>3. CASE view[p].state = "fresh"
    <3>1. n = SingleLimit
      BY <1>2, <2>3 DEF Cap
    <3>2. Worth[p].size = SingleLimit /\ Worth[p].net = NetAt(p, held[p], SingleLimit)
      BY <1>2, <1>4, <1>5, <3>1
    <3>3. Worth[p].net > 0 /\ Worth[p].size > 0
      BY <1>4, <1>5, <2>1, <2>2
    <3>4. QED
      BY <1>1, <2>3, <3>2, <3>3 DEF AtFull
  <2>4. CASE view[p].state # "fresh"
    <3>1. 0 < held[p] /\ n <= held[p]
      BY <2>1, <2>4 DEF Valid
    <3>2. QED
      BY <1>1, <1>4, <1>5, <2>2, <3>1 DEF AtMost
  <2>5. QED
    BY <2>3, <2>4
<1>6. CASE Worth[p] # asked
  <2>1. PICK least \in Nat : least = Lesser(h, n) /\ least <= h
    BY LesserFacts
  <2>2. PICK cost \in Nat : cost = TransitionCost(h, 0)
    BY TransitionCostIsNat
  <2>3. h # 0 /\ Worth[p] = ValuedAt(p, least, -cost)
    BY <1>1, <1>2, <1>3, <1>6, <2>1, <2>2 DEF Valued
  <2>4. Worth[p].size = least /\ Worth[p].net = NetAt(p, h, least) /\ Worth[p].net > -cost
    <3>1. ValuedAt(p, least, -cost).ok
      BY <2>3
    <3>2. /\ ValuedAt(p, least, -cost).size = least
          /\ ValuedAt(p, least, -cost).net = GrossValue(p, held[p], least) - TransitionCost(held[p], least)
      BY DEF ValuedAt
    <3>3. GrossValue(p, held[p], least) - TransitionCost(held[p], least) > -cost
      <4>1. ValuedAt(p, least, -cost).ok
              = (Valid(p, least)
                 /\ GrossValue(p, held[p], least) - TransitionCost(held[p], least) > -cost)
        BY DEF ValuedAt
      <4>2. QED
        BY <3>1, <4>1
    <3>4. QED
      BY <1>2, <2>3, <3>2, <3>3 DEF NetAt
  <2>5. least # 0
    <3>1. ASSUME least = 0 PROVE FALSE
      <4>1. GrossValue(p, h, 0) = 0
        <5>1. Lesser(h, 0) = 0 /\ Gap(0, h) = 0
          BY DEF Lesser, Gap, Greater
        <5>2. view[p].edge \in Int
          BY <1>1, PortfolioNumbers DEF PortfolioTypeOK
        <5>3. view[p].edge * 0 = 0 /\ Half * 0 = 0
          BY <5>2, PortfolioNumbers
        <5>4. QED
          BY <5>1, <5>3 DEF GrossValue
      <4>2. NetAt(p, h, least) = -cost
        BY <2>2, <3>1, <4>1 DEF NetAt
      <4>3. QED
        BY <2>4, <4>2
    <3>2. QED
      BY <3>1
  <2>6. QED
    BY <1>1, <1>2, <2>1, <2>3, <2>4, <2>5 DEF AtMost
<1>7. QED
  BY <1>5, <1>6

\* A fresh product that is worth its greatest size is a candidate at that.
LEMMA FreshIsWorthIt ==
    ASSUME PortfolioTypeOK, NEW p \in Products, view[p].state = "fresh",
           NetAt(p, held[p], SingleLimit) > 0
    PROVE  /\ p \in DOMAIN Worth /\ Worth[p].ok
           /\ Worth[p].size = SingleLimit /\ Worth[p].net = NetAt(p, held[p], SingleLimit)
<1>1. p \in DOMAIN Worth /\ Cap(p) = SingleLimit /\ Worth[p] = Valued(p, Cap(p))
  BY DEF Worth, Considered, Cap
<1>2. PICK asked : asked = ValuedAt(p, SingleLimit, 0)
  OBVIOUS
<1>3. /\ asked.size = SingleLimit /\ asked.net = NetAt(p, held[p], SingleLimit)
      /\ asked.ok = (Valid(p, SingleLimit) /\ asked.net > 0)
  BY <1>2 DEF ValuedAt, NetAt
<1>4. Valid(p, SingleLimit)
  BY DEF Valid
<1>5. asked.ok
  BY <1>3, <1>4
<1>6. Valued(p, SingleLimit) = asked
  BY <1>2, <1>5 DEF Valued
<1>7. QED
  BY <1>1, <1>3, <1>5, <1>6

\* No more is requested than what is worth having.
LEMMA RequestedWithin ==
    ASSUME PortfolioTypeOK, NEW w, NEW p \in Products,
           w[p].size \in Nat, w[p].net \in Int, w[p].size = 0 => w[p].net <= 0
    PROVE  Requested(w, p) <= w[p].size
<1>1. PICK size \in Nat, net \in Int, cur \in Nat :
         size = w[p].size /\ net = w[p].net /\ cur = held[p] /\ (size = 0 => net <= 0)
  BY DEF PortfolioTypeOK
<1>2. CASE net <= 0
  BY <1>1, <1>2, LesserFacts DEF Requested
<1>3. CASE ~(net <= 0)
  <2>1. net \in Nat /\ size > 0
    BY <1>1, <1>3
  <2>2. PICK a \in Nat, b \in Nat : a = Equity * net /\ b = size * Swing /\ b > 0
    <3>1. Equity * net \in Nat /\ size * Swing \in Nat
      BY <2>1, PortfolioNumbers, ProductIsNat
    <3>2. size * Swing > 0
      BY <2>1, PortfolioNumbers
    <3>3. QED
      BY <3>1, <3>2
  <2>3. PICK c \in Nat : c = a \div b
    BY <2>2, RatioIsNat
  <2>4. PICK d \in Nat : d = Lesser(SingleLimit, c)
    BY PortfolioNumbers, LesserFacts
  <2>5. PICK e \in Nat : e = Greater(cur, d)
    BY LesserFacts
  <2>6. Requested(w, p) = Lesser(size, e)
    BY <1>1, <1>3, <2>2, <2>3, <2>4, <2>5 DEF Requested
  <2>7. QED
    BY <1>1, <2>6, LesserFacts
<1>4. QED
  BY <1>2, <1>3

\* A share is not more than the whole.
LEMMA ShareIsWithin ==
    ASSUME NEW n \in Nat, NEW room \in Nat, NEW all \in Nat, room < all
    PROVE  (n * room) \div all \in Nat /\ (n * room) \div all <= n
<1>1. PICK x \in Nat, q \in Nat : x = n * room /\ q = x \div all
  BY ProductIsNat, RatioIsNat
<1>2. all * q <= x
  BY <1>1, DivFacts
<1>3. x <= all * n
  <2>1. n * room <= n * all
    OBVIOUS
  <2>2. QED
    BY <1>1, <2>1
<1>4. PICK y \in Nat, z \in Nat : y = all * q /\ z = all * n
  BY ProductIsNat
<1>5. y <= z
  BY <1>2, <1>3, <1>4
<1>6. q <= n
  BY <1>4, <1>5, TimesKeepsOrder
<1>7. QED
  BY <1>1, <1>6

\* What a decision desires of a product is not more than it requested.
LEMMA DesiredWithin ==
    ASSUME PortfolioTypeOK, NEW p \in Selected(Worth)
    PROVE  Desired(Worth)[p] <= Worth[p].size
<1>1. PICK w : w = Worth
  OBVIOUS
<1>2. PICK S \in SUBSET Products : S = Selected(w) /\ S \subseteq DOMAIN w
  BY <1>1, WorthFacts DEF Selected
<1>3. IsFiniteSet(S)
  BY <1>2, PortfolioNumbers, FS_Subset
<1>4. \A q \in S : Requested(w, q) \in Nat /\ held[q] \in Nat
  BY <1>1, <1>2, WorthFacts, RequestedIsNat DEF PortfolioTypeOK
<1>5. PICK kept : kept = [q \in S |-> Lesser(Requested(w, q), held[q])]
  OBVIOUS
<1>6. PICK added : added = [q \in S |-> Requested(w, q) - kept[q]]
  OBVIOUS
<1>7. kept \in [S -> Nat] /\ added \in [S -> Nat]
  <2>1. ASSUME NEW q \in S PROVE kept[q] \in Nat /\ Requested(w, q) - kept[q] \in Nat
    <3>1. PICK a \in Nat, b \in Nat : a = Requested(w, q) /\ b = held[q]
      BY <1>4
    <3>2. PICK c \in Nat : c = Lesser(a, b) /\ c <= a
      BY LesserFacts
    <3>3. kept[q] = c
      BY <1>5, <3>1, <3>2
    <3>4. QED
      BY <3>1, <3>2, <3>3
  <2>2. QED
    BY <1>5, <1>6, <2>1
<1>8. PICK room \in Nat, all \in Nat : room = Gap(TotalLimit, Total(kept, S)) /\ all = Total(added, S)
  <2>1. Total(kept, S) \in Nat /\ Total(added, S) \in Nat
    BY <1>3, <1>7, TotalIsNat
  <2>2. Gap(TotalLimit, Total(kept, S)) \in Nat
    BY <2>1, PortfolioNumbers, LesserFacts
  <2>3. QED
    BY <2>1, <2>2
<1>9. Desired(w) = [q \in S |-> kept[q] + (IF all <= room THEN added[q]
                                           ELSE (added[q] * room) \div all)]
  BY <1>2, <1>5, <1>6, <1>8 DEF Desired
<1>10. PICK k \in Nat, n \in Nat : k = kept[p] /\ n = added[p] /\ Requested(w, p) = k + n
  BY <1>1, <1>2, <1>4, <1>6, <1>7
<1>11. Desired(w)[p] <= k + n
  <2>1. CASE all <= room
    BY <1>1, <1>2, <1>9, <1>10, <2>1
  <2>2. CASE ~(all <= room)
    <3>1. (n * room) \div all \in Nat /\ (n * room) \div all <= n
      BY <2>2, ShareIsWithin
    <3>2. Desired(w)[p] = k + ((n * room) \div all)
      BY <1>1, <1>2, <1>9, <1>10, <2>2
    <3>3. QED
      BY <3>1, <3>2
  <2>3. QED
    BY <2>1, <2>2
<1>12. Requested(w, p) <= w[p].size /\ w[p].size \in Nat
  BY <1>1, <1>2, WorthFacts, RequestedWithin
<1>13. Desired(w)[p] \in Nat
  BY <1>1, DesiredIsNat
<1>14. QED
  BY <1>1, <1>10, <1>11, <1>12, <1>13

\* A decision takes what it selected, and no more than that is worth having.
LEMMA DecidedWithin ==
    ASSUME PortfolioTypeOK, NEW p \in Products
    PROVE  /\ Decided(Worth)[p] \in Nat
           /\ Decided(Worth)[p] # 0 => p \in Selected(Worth) /\ Decided(Worth)[p] <= Worth[p].size
<1>1. PICK w : w = Worth
  OBVIOUS
<1>2. PICK d : d = Desired(w) /\ d \in [Selected(w) -> Nat]
  BY <1>1, DesiredIsNat
<1>. DEFINE Final(q) == IF q \notin DOMAIN d THEN 0
                        ELSE IF d[q] = 0 THEN 0
                        ELSE LET v == Valued(q, d[q]) IN IF v.ok THEN v.size ELSE 0
<1>3. Decided(w) = [q \in Products |-> Final(q)]
  BY <1>2 DEF Decided
<1>4. p \in Selected(w) => Final(p) \in {0, Valued(p, d[p]).size}
  OBVIOUS
<1>5. p \notin Selected(w) => Final(p) = 0
  BY <1>2
<1>6. Decided(w)[p] = Final(p)
  BY <1>3
<1>. HIDE DEF Final
<1>7. CASE p \in Selected(w)
  <2>1. PICK n \in Nat, h \in Nat : n = d[p] /\ h = held[p]
    BY <1>2, <1>7 DEF PortfolioTypeOK
  <2>2. PICK least \in Nat : least = Lesser(h, n) /\ least <= n
    BY LesserFacts
  <2>3. Valued(p, n).size \in {n, least}
    <3>1. Valued(p, n) = ValuedAt(p, n, 0) \/ Valued(p, n) = ValuedAt(p, least, -TransitionCost(held[p], 0))
      BY <2>1, <2>2 DEF Valued
    <3>2. ValuedAt(p, n, 0).size = n /\ ValuedAt(p, least, -TransitionCost(held[p], 0)).size = least
      BY DEF ValuedAt
    <3>3. QED
      BY <3>1, <3>2
  <2>4. n <= w[p].size
    BY <1>1, <1>2, <1>7, <2>1, DesiredWithin
  <2>5. w[p].size \in Nat
    BY <1>1, <1>7, WorthFacts DEF Selected
  <2>6. Final(p) \in Nat /\ Final(p) <= w[p].size
    BY <1>4, <1>7, <2>1, <2>2, <2>3, <2>4, <2>5
  <2>7. QED
    BY <1>1, <1>6, <1>7, <2>6
<1>8. QED
  BY <1>1, <1>5, <1>6, <1>7

\* It never takes more than the greatest size or what is held.
LEMMA DecidedWithinLimit ==
    ASSUME SwitchInvariant, NEW p \in Products
    PROVE  Decided(Worth)[p] \in Nat /\ Decided(Worth)[p] <= SingleLimit
<1>1. PortfolioTypeOK /\ held[p] \in Nat /\ held[p] <= SingleLimit /\ SingleLimit \in Nat
  BY PortfolioNumbers DEF SwitchInvariant, PortfolioInvariant, PortfolioTypeOK
<1>2. PICK n \in Nat : n = Decided(Worth)[p] /\ (n # 0 => p \in Selected(Worth) /\ n <= Worth[p].size)
  BY <1>1, DecidedWithin
<1>3. ASSUME n # 0 PROVE n <= SingleLimit
  <2>1. p \in DOMAIN Worth /\ Worth[p].ok
    BY <1>2, <1>3 DEF Selected
  <2>2. PICK s \in Nat : s = Worth[p].size /\ (s = SingleLimit \/ s <= held[p])
    BY <1>1, <2>1, WorthHaving DEF AtFull, AtMost
  <2>3. QED
    BY <1>1, <1>2, <1>3, <2>2
<1>4. QED
  BY <1>1, <1>2, <1>3

\* Worth the switch from h is worth it from less, for whatever is worth more.
LEMMA WorthItFromLess ==
    ASSUME NEW k \in Nat, NEW h \in Nat, NEW L \in Nat, NEW t \in Nat, NEW T \in Nat,
           NEW m \in Int, NEW M \in Int, NEW B \in Int, NEW F \in Int,
           0 < k, k <= h, 0 < L, t * h <= T * k, m <= M, B <= F, B * h > M * h + T * L
    PROVE  (F * k) * L - (t * L) * L > (m * L) * k
<1>1. PICK b \in Int, x \in Int, y \in Nat : b = B * h /\ x = M * h /\ y = T * L
  BY ProductIsNat
<1>2. k * (x + y) < k * b
  <2>1. x + y < b
    BY <1>1
  <2>2. QED
    BY <2>1, TimesKeepsOrder
<1>3. h > 0
  OBVIOUS
<1>4. h * B <= h * F /\ h * m <= h * M
  BY <1>3, TimesKeepsOrder
<1>5. PICK f \in Int, n \in Int : f = h * F /\ n = h * m /\ b <= f /\ n <= x
  <2>1. b = h * B /\ x = h * M
    BY <1>1
  <2>2. QED
    BY <1>4, <2>1
<1>6. k * b <= k * f /\ k * n <= k * x
  BY <1>5, TimesKeepsOrder
<1>7. PICK u \in Nat, U \in Nat : u = t * h /\ U = T * k /\ u <= U
  BY ProductIsNat
<1>8. L * u <= L * U
  BY <1>7, TimesKeepsOrder
<1>9. L * U = k * y
  BY <1>1, <1>7
<1>10. PICK c1 \in Int, c2 \in Int, c3 \in Int, c4 \in Int, c5 \in Int, c6 \in Int :
           c1 = k * x /\ c2 = k * y /\ c3 = k * b /\ c4 = k * f /\ c5 = k * n /\ c6 = L * u
  OBVIOUS
<1>11. c5 + c6 < c4
  <2>1. k * (x + y) = c1 + c2
    BY <1>10
  <2>2. c1 + c2 < c3
    BY <1>2, <1>10, <2>1
  <2>3. c3 <= c4 /\ c5 <= c1
    BY <1>6, <1>10
  <2>4. c6 <= c2
    BY <1>8, <1>9, <1>10
  <2>5. QED
    BY <2>2, <2>3, <2>4
<1>12. PICK d1 \in Int, d2 \in Int, d3 \in Int : d1 = F * k /\ d2 = m * k /\ d3 = t * L
  OBVIOUS
<1>13. c4 = h * d1 /\ c5 = h * d2 /\ c6 = h * d3
  BY <1>5, <1>7, <1>10, <1>12
<1>14. h * d2 + h * d3 = h * (d2 + d3)
  OBVIOUS
<1>15. d2 + d3 < d1
  <2>1. h * (d2 + d3) < h * d1
    BY <1>11, <1>13, <1>14
  <2>2. QED
    BY <1>3, <2>1, TimesKeepsOrder
<1>16. L * (d2 + d3) < L * d1 /\ L * (d2 + d3) = L * d2 + L * d3
  BY <1>15, TimesKeepsOrder
<1>17. (F * k) * L = L * d1 /\ (t * L) * L = L * d3 /\ (m * L) * k = L * d2
  BY <1>12
<1>18. PICK e1 \in Int, e2 \in Int, e3 \in Int : e1 = L * d1 /\ e2 = L * d2 /\ e3 = L * d3
  OBVIOUS
<1>19. e2 + e3 < e1
  BY <1>16, <1>18
<1>20. QED
  BY <1>17, <1>18, <1>19

\* All candidates of an exposure can be compared.
LEMMA CandidatesCompare ==
    ASSUME PortfolioTypeOK, NEW x
    PROVE  Candidates(Worth, x) \in SUBSET Products /\ Comparable(Worth, Candidates(Worth, x))
<1>1. PICK w : w = Worth
  OBVIOUS
<1>2. \A p \in Candidates(w, x) : p \in DOMAIN w /\ w[p].ok
  BY DEF Candidates
<1>3. \A p \in Candidates(w, x) :
         p \in Products /\ w[p].net \in Int /\ w[p].size \in Nat /\ w[p].size > 0
  BY <1>1, <1>2, WorthHaving
<1>4. QED
  BY <1>1, <1>3 DEF Comparable

\* A candidate that is not held is fresh and worth its greatest size.
LEMMA OthersAreFresh ==
    ASSUME PortfolioTypeOK, NEW x, NEW b \in Candidates(Worth, x), held[b] = 0
    PROVE  /\ b \in Products /\ ExposureOf[b] = x /\ view[b].state = "fresh"
           /\ Worth[b].size = SingleLimit /\ Worth[b].net = NetAt(b, 0, SingleLimit)
           /\ NetAt(b, 0, SingleLimit) \in Int /\ NetAt(b, 0, SingleLimit) > 0
<1>1. b \in DOMAIN Worth /\ Worth[b].ok /\ ExposureOf[b] = x
  BY Zenon DEF Candidates
<1>2. b \in Products /\ Worth[b].net \in Int /\ (AtFull(b) \/ (AtMost(b) /\ held[b] > 0))
  BY <1>1, WorthHaving
<1>3. AtFull(b)
  BY <1>2
<1>4. QED
  BY <1>1, <1>2, <1>3 DEF AtFull

\* Of a product held, no other of its exposure is.
LEMMA OthersAreNotHeld ==
    ASSUME PortfolioInvariant, NEW p \in Products, NEW b \in Products,
           ExposureOf[b] = ExposureOf[p], b # p, held[p] > 0
    PROVE  held[b] = 0
<1>1. ~(held[b] > 0)
  BY DEF PortfolioInvariant, InPlay
<1>2. held[b] \in Nat
  BY DEF PortfolioInvariant, PortfolioTypeOK
<1>3. QED
  BY <1>1, <1>2

\* What a decision leaves, it leaves for what stays better.
LEMMA LeftForBetter ==
    ASSUME SwitchInvariant, NEW p \in Products, held[p] > 0, Leaves(Worth, p)
    PROVE  StaysLeft(p)
<1>1. PortfolioInvariant /\ PortfolioTypeOK
  BY DEF SwitchInvariant, PortfolioInvariant
<1>2. PICK h \in Nat, L \in Nat : h = held[p] /\ L = SingleLimit /\ 0 < h /\ h <= L /\ 0 < L
  BY <1>1, PortfolioAssumption DEF SwitchInvariant, PortfolioTypeOK
<1>3. PICK w : w = Worth
  OBVIOUS
<1>4. PICK C : C = Candidates(w, ExposureOf[p])
  OBVIOUS
<1>5. p \in DOMAIN w /\ w[p].ok
  BY <1>3 DEF Worth, Considered, Leaves
<1>6. C \in SUBSET Products /\ Comparable(w, C) /\ p \in C
  BY <1>1, <1>3, <1>4, <1>5, CandidatesCompare DEF Candidates
<1>7. PICK b \in C : b = Foremost(w, C)
  BY <1>6, ForemostBeats
<1>8. b # p /\ WorthTheSwitch(w, p, b)
  BY <1>3, <1>4, <1>7 DEF Leaves
<1>9. b \in Products /\ ExposureOf[b] = ExposureOf[p]
  BY <1>4, <1>6, <1>7 DEF Candidates
<1>10. held[b] = 0
  BY <1>1, <1>8, <1>9, OthersAreNotHeld
<1>11. PICK B \in Int : /\ B = NetAt(b, 0, SingleLimit) /\ B > 0 /\ view[b].state = "fresh"
                        /\ w[b].size = L /\ w[b].net = B
  BY <1>1, <1>2, <1>3, <1>4, <1>7, <1>10, OthersAreFresh
<1>12. PICK T \in Nat : T = TransitionCost(h, 0)
  BY TransitionCostIsNat
<1>13. ASSUME view[p].state = "fresh", NetAt(p, h, SingleLimit) > 0
       PROVE  B * h > NetAt(p, h, SingleLimit) * h + T * L
  <2>1. PICK M \in Int : M = NetAt(p, h, SingleLimit)
    BY <1>1, <1>2, NetGrows
  <2>2. w[p].size = L /\ w[p].net = M
    BY <1>1, <1>2, <1>3, <1>13, <2>1, FreshIsWorthIt
  <2>3. (B * h) * L - (T * L) * L > (M * L) * h
    BY <1>2, <1>8, <1>11, <1>12, <2>2 DEF WorthTheSwitch
  <2>4. PICK c \in Int, d \in Int, e \in Int : c = B * h /\ d = M * h /\ e = T * L
    OBVIOUS
  <2>5. (B * h) * L = L * c /\ (T * L) * L = L * e /\ (M * L) * h = L * d
    BY <2>4
  <2>6. L * (d + e) = L * d + L * e
    OBVIOUS
  <2>7. PICK u \in Int, v \in Int, y \in Int : u = L * c /\ v = L * d /\ y = L * e
    OBVIOUS
  <2>8. v + y < u
    BY <2>3, <2>5, <2>7
  <2>9. L * (d + e) < L * c
    BY <2>6, <2>7, <2>8
  <2>10. d + e < c
    BY <1>2, <2>9, TimesKeepsOrder
  <2>11. QED
    BY <2>1, <2>4, <2>10
<1>14. h \in 1..SingleLimit /\ held[p] <= h
  BY <1>2
<1>15. QED
  BY <1>2, <1>8, <1>9, <1>11, <1>12, <1>13, <1>14 DEF StaysLeft

\* A product that was left is taken up to what is held of it only.
LEMMA NotTakenBack ==
    ASSUME SwitchInvariant, NEW p \in Products, StaysLeft(p), p \in Selected(Worth)
    PROVE  Worth[p].size <= held[p]
<1>1. PortfolioInvariant /\ PortfolioTypeOK
  BY DEF SwitchInvariant, PortfolioInvariant
<1>2. PICK w : w = Worth
  OBVIOUS
<1>3. /\ p \in DOMAIN w /\ w[p].ok
      /\ IF Holding(ExposureOf[p]) = {} THEN p = Foremost(w, Candidates(w, ExposureOf[p]))
         ELSE p \in Holding(ExposureOf[p]) /\ ~Leaves(w, p)
  BY <1>2, Zenon DEF Selected
<1>4. AtFull(p) \/ AtMost(p)
  BY <1>1, <1>2, <1>3, WorthHaving
<1>5. ASSUME AtFull(p) PROVE FALSE
  <2>1. PICK b \in Products, h \in 1..SingleLimit :
           /\ b # p /\ ExposureOf[b] = ExposureOf[p] /\ held[p] <= h
           /\ view[p].state = "fresh" /\ NetAt(p, h, SingleLimit) > 0 =>
                 /\ view[b].state = "fresh" /\ NetAt(b, 0, SingleLimit) > 0
                 /\ NetAt(b, 0, SingleLimit) * h
                        > NetAt(p, h, SingleLimit) * h + TransitionCost(h, 0) * SingleLimit
    BY DEF StaysLeft
  <2>2. PICK L \in Nat, k \in Nat : L = SingleLimit /\ k = held[p] /\ 0 < L /\ k <= h /\ h <= L /\ 0 < h /\ h \in Nat
    BY <1>1, <2>1, PortfolioNumbers DEF PortfolioTypeOK
  <2>3. PICK m \in Int, M \in Int : m = NetAt(p, k, L) /\ M = NetAt(p, h, L) /\ m <= M
    BY <1>1, <2>2, NetGrows
  <2>4. m > 0 /\ view[p].state = "fresh" /\ w[p].size = L /\ w[p].net = m
    BY <1>2, <1>5, <2>2, <2>3 DEF AtFull
  <2>5. PICK T \in Nat : T = TransitionCost(h, 0)
    BY <2>2, TransitionCostIsNat
  <2>6. PICK B \in Int : B = NetAt(b, 0, L)
    <3>1. 0 \in Nat /\ 0 <= L /\ L <= L
      BY <2>2
    <3>2. QED
      BY <1>1, <2>1, <3>1, NetGrows
  <2>7. B > 0 /\ view[b].state = "fresh" /\ B * h > M * h + T * L
    BY <2>1, <2>2, <2>3, <2>4, <2>5, <2>6
  <2>8. B > M
    <3>1. PICK x \in Int, y \in Int, z \in Nat : x = h * B /\ y = h * M /\ z = T * L
      BY ProductIsNat
    <3>2. B * h = x /\ M * h = y
      BY <3>1
    <3>3. y < x
      BY <2>7, <3>1, <3>2
    <3>4. QED
      BY <2>2, <3>1, <3>3, TimesKeepsOrder
  <2>9. PICK C : C = Candidates(w, ExposureOf[p])
    OBVIOUS
  <2>10. C \in SUBSET Products /\ Comparable(w, C) /\ p \in C
    BY <1>1, <1>2, <1>3, <2>9, CandidatesCompare DEF Candidates
  <2>11. held[b] = 0 /\ (Holding(ExposureOf[p]) # {} => held[p] > 0)
    <3>1. CASE Holding(ExposureOf[p]) = {}
      <4>1. ~(held[b] > 0)
        BY <2>1, <3>1 DEF Holding
      <4>2. held[b] \in Nat
        BY <1>1, <2>1 DEF PortfolioTypeOK
      <4>3. QED
        BY <3>1, <4>1, <4>2
    <3>2. CASE Holding(ExposureOf[p]) # {}
      <4>1. held[p] > 0
        BY <1>3, <3>2 DEF Holding
      <4>2. QED
        BY <1>1, <2>1, <4>1, OthersAreNotHeld
    <3>3. QED
      BY <3>1, <3>2
  <2>12. b \in C /\ w[b].size = L /\ w[b].net = B
    <3>1. b \in DOMAIN w /\ w[b].ok /\ w[b].size = L /\ w[b].net = B
      BY <1>1, <1>2, <2>1, <2>2, <2>6, <2>7, <2>11, FreshIsWorthIt
    <3>2. QED
      BY <2>1, <2>9, <3>1 DEF Candidates
  <2>13. ~Beats(w, p, b)
    <3>1. PICK x \in Int, y \in Int : x = m * L /\ y = B * L
      OBVIOUS
    <3>2. x < y
      <4>1. L * m < L * B
        BY <2>2, <2>3, <2>8, TimesKeepsOrder
      <4>2. L * m = m * L /\ L * B = B * L
        OBVIOUS
      <4>3. QED
        BY <3>1, <4>1, <4>2
    <3>3. QED
      BY <2>4, <2>12, <3>1, <3>2 DEF Beats
  <2>14. PICK f \in C : f = Foremost(w, C) /\ \A q \in C \ {f} : Beats(w, f, q)
    BY <2>10, ForemostBeats
  <2>15. f # p
    BY <2>1, <2>12, <2>13, <2>14
  <2>16. Holding(ExposureOf[p]) # {} /\ ~Leaves(w, p)
    BY <1>3, <2>9, <2>14, <2>15
  <2>17. f \in Products /\ ExposureOf[f] = ExposureOf[p]
    BY <2>9, <2>10, <2>14 DEF Candidates
  <2>18. held[f] = 0
    BY <1>1, <2>11, <2>15, <2>16, <2>17, OthersAreNotHeld
  <2>19. PICK F \in Int : F = w[f].net /\ w[f].size = L
    BY <1>1, <1>2, <2>2, <2>9, <2>14, <2>18, OthersAreFresh
  <2>20. B <= F
    <3>1. CASE f = b
      BY <2>12, <2>19, <3>1
    <3>2. CASE f # b
      <4>1. Beats(w, f, b)
        BY <2>12, <2>14, <3>2
      <4>2. F * L >= B * L
        BY <2>12, <2>19, <4>1 DEF Beats
      <4>3. L * B <= L * F
        BY <4>2
      <4>4. QED
        BY <2>2, <4>3, TimesKeepsOrder
    <3>3. QED
      BY <3>1, <3>2
  <2>21. PICK t \in Nat : t = TransitionCost(k, 0)
    BY TransitionCostIsNat
  <2>22. k > 0
    BY <2>2, <2>11, <2>16
  <2>23. t * h <= T * k
    BY <2>2, <2>5, <2>21, <2>22, ExitRatio
  <2>24. (F * k) * L - (t * L) * L > (m * L) * k
    BY <2>2, <2>3, <2>7, <2>20, <2>22, <2>23, WorthItFromLess
  <2>25. WorthTheSwitch(w, p, f)
    BY <2>2, <2>4, <2>19, <2>21, <2>24 DEF WorthTheSwitch
  <2>26. Leaves(w, p)
    BY <1>3, <2>9, <2>14, <2>15, <2>25 DEF Leaves
  <2>27. QED
    BY <2>16, <2>26
<1>6. QED
  BY <1>4, <1>5 DEF AtMost

\* What the risk engine approves of a target is no more than the gate leaves.
LEMMA ApprovedWithin ==
    ASSUME PortfolioTypeOK, NEW want \in [Products -> Nat], NEW gate, NEW p \in Products
    PROVE  /\ Approved(want, gate)[p] \in Nat
           /\ \/ Approved(want, gate)[p] = 0
              \/ Approved(want, gate)[p] <= want[p]
              \/ Approved(want, gate)[p] <= held[p]
           /\ held[p] >= want[p] => Approved(want, gate)[p] <= held[p]
<1>1. PICK n \in [Products -> Nat] : n = Gated(want, gate)
  BY GatedFacts
<1>2. PICK load \in [DOMAIN Limits -> Nat] : load = Loads(n)
  BY LoadFacts
<1>3. PICK k \in Nat, m \in Nat :
         /\ m > 0 /\ k <= m
         /\ \A s \in Nat :
               Min({Fit(s, load[l], Limits[l]) : l \in DOMAIN Limits}) = (s * k) \div m
  BY TightestLimit
<1>4. PICK g \in Nat : g = n[p]
  OBVIOUS
<1>5. Approved(want, gate)[p] = (g * k) \div m
  <2>1. Approved(want, gate)[p] = Min({Fit(n[p], load[l], Limits[l]) : l \in DOMAIN Limits})
    BY <1>1, <1>2 DEF Approved
  <2>2. QED
    BY <1>3, <1>4, <2>1
<1>6. (g * k) \div m \in Nat /\ (g * k) \div m <= g
  <2>1. CASE k < m
    BY <1>3, <2>1, ShareIsWithin
  <2>2. CASE k = m
    BY <1>3, <2>2
  <2>3. QED
    BY <1>3, <2>1, <2>2
<1>7. PICK a \in Nat : a = Approved(want, gate)[p] /\ a <= g
  BY <1>5, <1>6
<1>8. PICK h \in Nat, t \in Nat : h = held[p] /\ t = want[p]
  BY DEF PortfolioTypeOK
<1>9. g \in {0, t, h}
  BY <1>1, <1>4, <1>8 DEF Gated
<1>10. QED
  BY <1>7, <1>8, <1>9

\* What was left stays left while no more of it is held.
LEMMA LeftStaysLeft ==
    ASSUME NEW p \in Products, StaysLeft(p), UNCHANGED view,
           held[p] \in Nat, held'[p] \in Nat, held'[p] <= held[p], SingleLimit \in Nat
    PROVE  StaysLeft(p)'
<1>1. PICK b \in Products, h \in 1..SingleLimit :
         /\ b # p /\ ExposureOf[b] = ExposureOf[p] /\ held[p] <= h
         /\ view[p].state = "fresh" /\ NetAt(p, h, SingleLimit) > 0 =>
               /\ view[b].state = "fresh" /\ NetAt(b, 0, SingleLimit) > 0
               /\ NetAt(b, 0, SingleLimit) * h
                      > NetAt(p, h, SingleLimit) * h + TransitionCost(h, 0) * SingleLimit
  BY DEF StaysLeft
<1>2. NetAt(p, h, SingleLimit)' = NetAt(p, h, SingleLimit)
      /\ NetAt(b, 0, SingleLimit)' = NetAt(b, 0, SingleLimit)
  BY DEF NetAt, GrossValue
<1>3. held'[p] <= h
  BY <1>1
<1>4. view'[p].state = "fresh" /\ NetAt(p, h, SingleLimit)' > 0 =>
         /\ view'[b].state = "fresh" /\ NetAt(b, 0, SingleLimit)' > 0
         /\ NetAt(b, 0, SingleLimit)' * h
                > NetAt(p, h, SingleLimit)' * h + TransitionCost(h, 0) * SingleLimit
  BY <1>1, <1>2
<1>5. QED
  BY <1>1, <1>3, <1>4 DEF StaysLeft

\* The sizes of a state, one product at a time.
LEMMA SizesOf ==
    ASSUME SwitchInvariant, NEW p \in Products
    PROVE  /\ held[p] \in Nat /\ held[p] <= SingleLimit /\ SingleLimit \in Nat
           /\ (target # NoPlan => target[p] \in Nat) /\ target[p] <= SingleLimit
           /\ (plan # NoPlan => plan[p] \in Nat) /\ plan[p] <= SingleLimit
           /\ NoPlan[p] = -1
<1>1. PortfolioTypeOK
  BY DEF SwitchInvariant, PortfolioInvariant
<1>2. QED
  BY <1>1, PortfolioNumbers DEF SwitchInvariant, PortfolioTypeOK, NoPlan

\* A decision keeps it: what it takes was not left, and what it leaves stays so.
LEMMA DecideKeepsSwitches ==
    ASSUME SwitchInvariant, Decide PROVE SwitchInvariant'
<1>1. PortfolioInvariant /\ PortfolioTypeOK /\ PortfolioInvariant'
  BY DecideKeeps DEF SwitchInvariant, PortfolioInvariant
<1>2. UNCHANGED <<held, view, plan>> /\ plan = NoPlan /\ plan' = NoPlan
  BY DEF Decide
<1>3. PICK d : d = Decided(Worth) /\ target' = d
  BY DEF Decide
<1>4. \A p \in Products : d[p] \in Nat /\ d[p] <= SingleLimit
  BY <1>3, DecidedWithinLimit
<1>5. ASSUME NEW p \in Products, NEW n \in {held'[p], target'[p], plan'[p]}
      PROVE  n <= SingleLimit
  BY <1>2, <1>3, <1>4, SizesOf
<1>6. ASSUME NEW p \in left' PROVE p \in Products /\ StaysLeft(p)
  <2>1. CASE p \in left
    BY <1>1, <2>1 DEF SwitchInvariant, PortfolioTypeOK
  <2>2. CASE p \notin left
    <3>1. p \in Products /\ held[p] > 0 /\ Leaves(Worth, p)
      BY <1>6, <2>2 DEF Decide
    <3>2. QED
      BY <3>1, LeftForBetter
  <2>3. QED
    BY <2>1, <2>2
<1>7. ASSUME NEW p \in left'
      PROVE  target'[p] <= held'[p] /\ plan'[p] <= held'[p] /\ StaysLeft(p)'
  <2>1. p \in Products /\ StaysLeft(p)
    BY <1>6
  <2>2. PICK h \in Nat : h = held[p] /\ h = held'[p] /\ NoPlan[p] = -1 /\ SingleLimit \in Nat
    BY <1>2, <2>1, SizesOf
  <2>3. d[p] <= h
    <3>1. PICK n \in Nat : n = d[p] /\ (n # 0 => p \in Selected(Worth) /\ n <= Worth[p].size)
      BY <1>1, <1>3, <2>1, DecidedWithin
    <3>2. ASSUME n # 0 PROVE n <= h
      <4>1. p \in Selected(Worth) /\ n <= Worth[p].size
        BY <3>1, <3>2
      <4>2. Worth[p].size <= h
        BY <2>1, <2>2, <4>1, NotTakenBack
      <4>3. Worth[p].size \in Nat
        BY <1>1, <2>1, <4>1, WorthHaving DEF Selected
      <4>4. QED
        BY <4>1, <4>2, <4>3
    <3>3. QED
      BY <3>1, <3>2
  <2>4. StaysLeft(p)'
    BY <1>2, <2>1, <2>2, LeftStaysLeft
  <2>5. QED
    BY <1>2, <1>3, <2>2, <2>3, <2>4
<1>8. QED
  BY <1>1, <1>2, <1>5, <1>7 DEF SwitchInvariant

\* An approval keeps it: it takes no more than the target or what is held.
LEMMA ApproveKeepsSwitches ==
    ASSUME SwitchInvariant, Approve PROVE SwitchInvariant'
<1>1. PortfolioInvariant /\ PortfolioTypeOK /\ PortfolioInvariant'
  BY ApproveKeeps DEF SwitchInvariant, PortfolioInvariant
<1>2. UNCHANGED <<held, view, left>> /\ target' = NoPlan /\ target # NoPlan
  BY DEF Approve
<1>3. PICK want \in [Products -> Nat] : want = target
  BY <1>1, <1>2 DEF PortfolioTypeOK
<1>4. PICK gate : plan' = Approved(want, gate)
  BY <1>3 DEF Approve
<1>5. ASSUME NEW p \in Products
      PROVE  /\ plan'[p] <= SingleLimit /\ held'[p] <= SingleLimit /\ target'[p] <= SingleLimit
             /\ held[p] >= want[p] => plan'[p] <= held[p]
  <2>1. PICK h \in Nat, t \in Nat, L \in Nat :
          h = held[p] /\ t = want[p] /\ L = SingleLimit /\ h <= L /\ t <= L
    BY <1>3, SizesOf
  <2>2. PICK a \in Nat : a = plan'[p] /\ (a = 0 \/ a <= t \/ a <= h) /\ (h >= t => a <= h)
    BY <1>1, <1>4, <2>1, ApprovedWithin
  <2>3. NoPlan[p] = -1
    BY SizesOf
  <2>4. QED
    BY <1>2, <2>1, <2>2, <2>3
<1>6. ASSUME NEW p \in left'
      PROVE  target'[p] <= held'[p] /\ plan'[p] <= held'[p] /\ StaysLeft(p)'
  <2>1. p \in Products /\ StaysLeft(p) /\ target[p] <= held[p]
    BY <1>1, <1>2 DEF SwitchInvariant, PortfolioTypeOK
  <2>2. PICK h \in Nat : h = held[p] /\ h = held'[p] /\ NoPlan[p] = -1 /\ SingleLimit \in Nat
    BY <1>2, <2>1, SizesOf
  <2>3. StaysLeft(p)'
    BY <1>2, <2>1, <2>2, LeftStaysLeft
  <2>4. h >= want[p]
    BY <1>3, <2>1, <2>2
  <2>5. QED
    BY <1>2, <1>5, <2>1, <2>2, <2>3, <2>4
<1>7. QED
  BY <1>1, <1>2, <1>5, <1>6 DEF SwitchInvariant

\* An exit keeps it.
LEMMA ProtectKeepsSwitches ==
    ASSUME SwitchInvariant, Protect PROVE SwitchInvariant'
<1>1. PortfolioInvariant /\ PortfolioTypeOK /\ PortfolioInvariant'
  BY ProtectKeeps DEF SwitchInvariant, PortfolioInvariant
<1>2. UNCHANGED <<held, view, target, left>> /\ target = NoPlan /\ target' = NoPlan
  BY DEF Protect
<1>3. plan' = [p \in Products |-> 0]
  BY DEF Protect
<1>4. ASSUME NEW p \in Products
      PROVE  /\ held[p] \in Nat /\ held'[p] = held[p] /\ SingleLimit \in Nat
             /\ plan'[p] <= SingleLimit /\ held'[p] <= SingleLimit /\ target'[p] <= SingleLimit
             /\ plan'[p] <= held[p] /\ target'[p] <= held[p]
  BY <1>2, <1>3, SizesOf
<1>5. ASSUME NEW p \in left'
      PROVE  target'[p] <= held'[p] /\ plan'[p] <= held'[p] /\ StaysLeft(p)'
  <2>1. p \in Products /\ StaysLeft(p)
    BY <1>1, <1>2 DEF SwitchInvariant, PortfolioTypeOK
  <2>2. PICK h \in Nat : h = held[p] /\ h = held'[p] /\ SingleLimit \in Nat
    BY <1>4, <2>1
  <2>3. StaysLeft(p)'
    BY <1>2, <2>1, <2>2, LeftStaysLeft
  <2>4. QED
    BY <1>4, <2>1, <2>3
<1>6. QED
  BY <1>1, <1>2, <1>4, <1>5 DEF SwitchInvariant

\* Execution keeps it: what was left it can only reduce.
LEMMA ExecuteKeepsSwitches ==
    ASSUME SwitchInvariant, NEW p \in Products, Execute(p) PROVE SwitchInvariant'
<1>1. PortfolioInvariant /\ PortfolioTypeOK /\ PortfolioInvariant'
  BY ExecuteKeeps DEF SwitchInvariant, PortfolioInvariant
<1>2. UNCHANGED <<view, target, plan, left>> /\ plan # NoPlan /\ target = NoPlan /\ target' = NoPlan
  BY DEF Execute, SwitchInvariant
<1>3. ASSUME NEW q \in Products
      PROVE  /\ held[q] \in Nat /\ held'[q] \in Nat /\ plan'[q] = plan[q] /\ SingleLimit \in Nat
             /\ plan'[q] <= SingleLimit /\ held'[q] <= SingleLimit /\ target'[q] <= SingleLimit
             /\ target'[q] <= held'[q]
             /\ plan[q] <= held[q] => plan'[q] <= held'[q] /\ held'[q] <= held[q]
  <2>1. PICK h \in Nat, a \in Nat, L \in Nat :
          h = held[q] /\ a = plan[q] /\ L = SingleLimit /\ h <= L /\ a <= L /\ target'[q] = -1
    BY <1>2, SizesOf
  <2>2. held'[q] = h \/ (h # a /\ held'[q] = IF h < a THEN h + 1 ELSE h - 1)
    BY <1>1, <2>1 DEF Execute, PortfolioTypeOK
  <2>3. PICK g \in Nat : g = held'[q] /\ g <= L /\ (a <= h => a <= g /\ g <= h)
    BY <2>1, <2>2
  <2>4. QED
    BY <1>2, <2>1, <2>3
<1>4. ASSUME NEW q \in left'
      PROVE  target'[q] <= held'[q] /\ plan'[q] <= held'[q] /\ StaysLeft(q)'
  <2>1. q \in Products /\ StaysLeft(q) /\ plan[q] <= held[q]
    BY <1>1, <1>2 DEF SwitchInvariant, PortfolioTypeOK
  <2>2. /\ held[q] \in Nat /\ held'[q] \in Nat /\ SingleLimit \in Nat
        /\ plan'[q] <= held'[q] /\ held'[q] <= held[q] /\ target'[q] <= held'[q]
    BY <1>3, <2>1
  <2>3. StaysLeft(q)'
    BY <1>2, <2>1, <2>2, LeftStaysLeft
  <2>4. QED
    BY <2>2, <2>3
<1>5. QED
  BY <1>1, <1>2, <1>3, <1>4 DEF SwitchInvariant

\* What ends a plan or a target keeps it, and a market that moves forgets what
\* was left.
LEMMA RestKeepsSwitches ==
    ASSUME SwitchInvariant, UNCHANGED held, view' \in [Products -> Views],
           (UNCHANGED <<view, left>>) \/ left' = {},
           target' \in {target, NoPlan}, plan' \in {plan, NoPlan}
    PROVE  SwitchInvariant'
<1>1. PortfolioInvariant /\ PortfolioTypeOK
  BY DEF SwitchInvariant, PortfolioInvariant
<1>2. left' \subseteq Products
  BY <1>1 DEF PortfolioTypeOK
<1>3. PortfolioInvariant'
  BY <1>1, <1>2, RestKeeps
<1>4. target' = NoPlan \/ plan' = NoPlan
  BY DEF SwitchInvariant
<1>5. ASSUME NEW p \in Products
      PROVE  /\ held[p] \in Nat /\ held'[p] = held[p] /\ SingleLimit \in Nat
             /\ plan'[p] <= SingleLimit /\ held'[p] <= SingleLimit /\ target'[p] <= SingleLimit
             /\ plan[p] <= held[p] => plan'[p] <= held[p]
             /\ target[p] <= held[p] => target'[p] <= held[p]
  BY SizesOf
<1>6. ASSUME NEW p \in left'
      PROVE  target'[p] <= held'[p] /\ plan'[p] <= held'[p] /\ StaysLeft(p)'
  <2>1. p \in left /\ UNCHANGED view
    BY <1>6
  <2>2. p \in Products /\ StaysLeft(p) /\ plan[p] <= held[p] /\ target[p] <= held[p]
    BY <1>1, <2>1 DEF SwitchInvariant, PortfolioTypeOK
  <2>3. PICK h \in Nat : h = held[p] /\ h = held'[p] /\ SingleLimit \in Nat
    BY <1>5, <2>2
  <2>4. StaysLeft(p)'
    BY <2>1, <2>2, <2>3, LeftStaysLeft
  <2>5. QED
    BY <1>5, <2>2, <2>4
<1>7. QED
  BY <1>3, <1>4, <1>5, <1>6 DEF SwitchInvariant

\* Every step of the portfolio keeps what was left worth leaving: the better
\* product stays worth the switch from whatever less is held of the other.
THEOREM SwitchSafe == PortfolioSpec => []SwitchInvariant
<1>1. PortfolioInit => SwitchInvariant
  <2>. SUFFICES ASSUME PortfolioInit PROVE SwitchInvariant
    OBVIOUS
  <2>1. \A p \in Products : ~InPlay(p)
    BY DEF PortfolioInit, InPlay, NoPlan
  <2>2. PortfolioTypeOK
    BY DEF PortfolioInit, PortfolioTypeOK, NoPlan
  <2>3. PortfolioInvariant
    BY <2>1, <2>2 DEF PortfolioInvariant, PortfolioInit, ApprovedIsHoldable
  <2>4. \A p \in Products : held[p] = 0 /\ target[p] = -1 /\ plan[p] = -1
    BY DEF PortfolioInit, NoPlan
  <2>5. \A p \in Products : \A n \in {held[p], target[p], plan[p]} : n <= SingleLimit
    BY <2>4, PortfolioNumbers
  <2>6. QED
    BY <2>3, <2>5 DEF SwitchInvariant, PortfolioInit
<1>2. SwitchInvariant /\ [PortfolioNext]_portfolioVars => SwitchInvariant'
  <2>. SUFFICES ASSUME SwitchInvariant, [PortfolioNext]_portfolioVars
                PROVE  SwitchInvariant'
    OBVIOUS
  <2>1. view \in [Products -> Views]
    BY DEF SwitchInvariant, PortfolioInvariant, PortfolioTypeOK
  <2>2. CASE Reject
    BY <2>1, <2>2, RestKeepsSwitches DEF Reject
  <2>3. CASE EndPlan
    BY <2>1, <2>3, RestKeepsSwitches DEF EndPlan
  <2>4. CASE MarketMoves
    BY <2>1, <2>4, RestKeepsSwitches DEF MarketMoves
  <2>5. CASE UNCHANGED portfolioVars
    BY <2>1, <2>5, RestKeepsSwitches DEF portfolioVars
  <2>6. QED
    BY <2>2, <2>3, <2>4, <2>5, DecideKeepsSwitches, ApproveKeepsSwitches,
       ProtectKeepsSwitches, ExecuteKeepsSwitches DEF PortfolioNext
<1>3. QED
  BY <1>1, <1>2, PTL DEF PortfolioSpec

\* A product that a decision left for a better one of its exposure is not taken
\* back while the market stays as it was, whatever part of the exit was executed
\* (portfolio/decision.py prices the switch from what is held now, which the
\* exit changes).
THEOREM SwitchesStand == PortfolioSpec => []SwitchIsNotUndone
<1>1. SwitchInvariant => SwitchIsNotUndone
  BY DEF SwitchInvariant, SwitchIsNotUndone
<1>2. QED
  BY <1>1, SwitchSafe, PTL
-----------------------------------------------------------------------------
(* FrozenHistory.                                                            *)

\* The bounds are numbers, and so is a slot.
LEMMA FrozenNumbers ==
    /\ PageSize \in Nat /\ PageSize > 0 /\ LastSlot \in Nat
    /\ MonthLength \in Nat /\ MonthLength > 0 /\ Bucket \in Nat /\ Bucket > 0
    /\ MaxCollected \in Nat
    /\ \A t \in 0..LastSlot : t \in Nat /\ t \in Int
BY FrozenAssumption

\* The first and the last of some slots.
LEMMA Extremes ==
    ASSUME NEW S \in SUBSET (0..LastSlot), S # {}
    PROVE  /\ Max(S) \in S /\ \A y \in S : y <= Max(S)
           /\ Min(S) \in S /\ \A y \in S : Min(S) <= y
<1>1. \E m \in S : \A y \in S : m <= y
  BY LeastNat, FrozenNumbers
<1>2. PICK T : T = {LastSlot - s : s \in S}
  OBVIOUS
<1>3. T \in SUBSET Nat /\ T # {}
  <2>1. \A s \in S : s \in Int /\ 0 <= s /\ s <= LastSlot
    BY FrozenNumbers
  <2>2. \A s \in S : LastSlot - s \in Nat
    BY <2>1, FrozenNumbers
  <2>3. QED
    BY <1>2, <2>2
<1>4. PICK x \in T : \A y \in T : x <= y
  BY <1>3, LeastNat
<1>5. PICK m \in S : x = LastSlot - m
  BY <1>2, <1>4
<1>6. \A y \in S : LastSlot - y \in T
  BY <1>2
<1>7. \A y \in S : m >= y
  BY <1>4, <1>5, <1>6, FrozenNumbers
<1>8. Max(S) \in S /\ \A y \in S : Max(S) >= y
  BY <1>5, <1>7 DEF Max
<1>9. Min(S) \in S /\ \A y \in S : Min(S) <= y
  BY <1>1 DEF Min
<1>10. \A y \in S : y \in Nat
  BY FrozenNumbers
<1>11. QED
  BY <1>8, <1>9, <1>10

\* Slots without a gap hold all that lies between two of them.
LEMMA Between ==
    ASSUME NEW S \in SUBSET (0..LastSlot), Contiguous(S),
           NEW a \in S, NEW b \in S, NEW x \in Nat, a <= x, x <= b
    PROVE  x \in S
<1>. DEFINE L == {y \in S : y <= x}
<1>1. L \in SUBSET (0..LastSlot) /\ L # {}
  OBVIOUS
<1>2. PICK m : m = Max(L) /\ m \in L /\ \A y \in L : y <= m
  BY <1>1, Extremes
<1>3. CASE m = x
  BY <1>2, <1>3
<1>4. CASE m # x
  <2>1. m \in Nat /\ m < x /\ m \in S
    BY <1>2, <1>4, FrozenNumbers
  <2>2. m # Max(S)
    <3>1. b <= Max(S) /\ Max(S) \in Nat /\ b \in Nat
      BY Extremes, FrozenNumbers
    <3>2. QED
      BY <2>1, <3>1
  <2>3. m + 1 \in S
    BY <2>1, <2>2 DEF Contiguous
  <2>4. m + 1 \in L
    BY <2>1, <2>3
  <2>5. QED
    BY <1>2, <2>1, <2>4
<1>5. QED
  BY <1>3, <1>4

\* Some slots are finite in number, and fewer are not more.
LEMMA SlotsAreFinite ==
    ASSUME NEW S \in SUBSET (0..LastSlot)
    PROVE  /\ IsFiniteSet(S) /\ Cardinality(S) \in Nat
           /\ \A T \in SUBSET S : Cardinality(T) <= Cardinality(S)
<1>1. IsFiniteSet(0..LastSlot)
  BY FrozenNumbers, FS_Interval
<1>2. IsFiniteSet(S)
  BY <1>1, FS_Subset
<1>3. QED
  BY <1>2, FS_Subset, FS_CardinalityType

\* A page is the first of what is offered.
LEMMA PageComesFirst ==
    ASSUME NEW offered \in SUBSET (0..LastSlot), NEW page,
           page = {t \in offered : Cardinality({u \in offered : u <= t}) <= PageSize}
    PROVE  /\ page = {} => offered = {}
           /\ \A t \in page, u \in offered : u <= t => u \in page
<1>1. \A t \in page, u \in offered : u <= t => u \in page
  <2>. SUFFICES ASSUME NEW t \in page, NEW u \in offered, u <= t PROVE u \in page
    OBVIOUS
  <2>1. /\ {v \in offered : v <= u} \in SUBSET {v \in offered : v <= t}
        /\ {v \in offered : v <= t} \in SUBSET (0..LastSlot)
        /\ {v \in offered : v <= u} \in SUBSET (0..LastSlot)
    <3>1. t \in Int /\ u \in Int /\ \A v \in offered : v \in Int
      BY FrozenNumbers
    <3>2. \A v \in offered : v <= u => v <= t
      BY <3>1
    <3>3. QED
      BY <3>2
  <2>2. /\ Cardinality({v \in offered : v <= u}) <= Cardinality({v \in offered : v <= t})
        /\ Cardinality({v \in offered : v <= u}) \in Nat
        /\ Cardinality({v \in offered : v <= t}) \in Nat
    BY <2>1, SlotsAreFinite
  <2>3. QED
    BY <2>2, FrozenNumbers
<1>2. ASSUME offered # {} PROVE page # {}
  <2>1. PICK m \in offered : \A y \in offered : m <= y
    BY <1>2, Extremes
  <2>2. {v \in offered : v <= m} = {m}
    <3>1. m \in Int /\ \A v \in offered : v \in Int
      BY FrozenNumbers
    <3>2. \A v \in offered : v <= m => v = m
      BY <2>1, <3>1
    <3>3. m <= m
      BY <3>1
    <3>4. QED
      BY <3>2, <3>3
  <2>3. Cardinality({v \in offered : v <= m}) = 1
    BY <2>2, FS_Singleton
  <2>4. QED
    BY <2>3, FrozenNumbers
<1>3. QED
  BY <1>1, <1>2

-----------------------------------------------------------------------------
(* What was true of a collection stays true.                                 *)

\* All but bars are collected when their window is over.
LEMMA WindowIsOver ==
    ASSUME NEW end \in 0..LastSlot, NEW at \in 0..LastSlot, EndsInTime(end, at),
           family \in Families, family # "bars"
    PROVE  end <= at
<1>1. end \in Nat /\ at \in Nat /\ at % MonthLength \in Nat
  BY FrozenNumbers
<1>2. at - (at % MonthLength) <= at
  BY <1>1
<1>3. CASE family \in {"archived", "verified"}
  <2>1. PICK rest : rest = at % MonthLength
    OBVIOUS
  <2>2. PICK last : last = at - rest
    OBVIOUS
  <2>3. end <= last
    BY <1>3, <2>1, <2>2 DEF EndsInTime
  <2>4. last <= at /\ last \in Int
    BY <1>1, <2>1, <2>2
  <2>5. QED
    BY <1>1, <2>3, <2>4
<1>4. CASE family \in {"events", "quotes"}
  BY <1>4 DEF EndsInTime
<1>5. CASE family = "series"
  BY <1>1, <1>5 DEF EndsInTime
<1>6. QED
  BY <1>3, <1>4, <1>5 DEF Families

\* What the source gets later changes nothing of what it had.
LEMMA HadStands ==
    ASSUME NEW w, NEW at \in 0..LastSlot, at <= tick, tick \in 0..LastSlot,
           facts' \in {facts, facts \cup {tick}}, UNCHANGED family
    PROVE  /\ HadBy(w, at)' = HadBy(w, at)
           /\ OwedOf(w, at)' = OwedOf(w, at)
<1>1. HadBy(w, at)' = HadBy(w, at)
  BY FrozenNumbers DEF HadBy, InWindow
<1>2. OwedOf(w, at)' = OwedOf(w, at)
  BY <1>1 DEF OwedOf, FirstOfBuckets
<1>3. QED
  BY <1>1, <1>2

\* So what was true of rows is.
LEMMA TruthStands ==
    ASSUME NEW w, NEW at \in 0..LastSlot, at <= tick, tick \in 0..LastSlot,
           facts' \in {facts, facts \cup {tick}}, UNCHANGED family
    PROVE  /\ RowsAreTrue(w) => RowsAreTrue(w)'
           /\ IsWhole(w, at) => IsWhole(w, at)'
<1>1. RowsAreTrue(w) => RowsAreTrue(w)'
  BY DEF RowsAreTrue, InWindow
<1>2. IsWhole(w, at) => IsWhole(w, at)'
  BY HadStands DEF IsWhole, SlotsOf, Contiguous
<1>3. QED
  BY <1>1, <1>2

\* And what was true of a collection.
LEMMA WorkStands ==
    ASSUME NEW w \in WorkRow, WorkIsTrue(w), tick \in 0..LastSlot, tick' >= tick,
           tick' \in 0..LastSlot, facts' \in {facts, facts \cup {tick}}, UNCHANGED family
    PROVE  WorkIsTrue(w)'
<1>1. w.at \in 0..LastSlot /\ w.at <= tick
  BY DEF WorkRow, WorkIsTrue
<1>2. /\ HadBy(w, w.at)' = HadBy(w, w.at) /\ OwedOf(w, w.at)' = OwedOf(w, w.at)
      /\ RowsAreTrue(w) => RowsAreTrue(w)'
      /\ IsWhole(w, w.at) => IsWhole(w, w.at)'
  BY <1>1, HadStands, TruthStands
<1>3. w.at <= tick'
  BY <1>1, FrozenNumbers
<1>4. EndsInTime(w.end, w.at) => EndsInTime(w.end, w.at)'
  BY DEF EndsInTime
<1>5. SlotsOf(w.rows)' = SlotsOf(w.rows)
  BY DEF SlotsOf
<1>6. QED
  BY <1>2, <1>3, <1>4, <1>5 DEF WorkIsTrue

\* The catalog stays true while the source gets more.
LEMMA CatalogStands ==
    ASSUME FrozenInvariant, tick' >= tick, tick' \in 0..LastSlot,
           facts' \in {facts, facts \cup {tick}}, UNCHANGED <<family, catalog>>
    PROVE  CatalogIsTrue'
<1>. SUFFICES ASSUME NEW d \in catalog
              PROVE  /\ d.at <= tick' /\ EndsInTime(d.id.end, d.at)'
                     /\ d.files = {"rows", "manifest"}
                     /\ RowsAreTrue(d.id)' /\ IsWhole(d.id, d.at)'
  BY DEF CatalogIsTrue
<1>1. /\ d.at \in 0..LastSlot /\ d.at <= tick /\ tick \in 0..LastSlot
      /\ EndsInTime(d.id.end, d.at) /\ d.files = {"rows", "manifest"}
      /\ RowsAreTrue(d.id) /\ IsWhole(d.id, d.at)
  BY DEF FrozenInvariant, FrozenTypeOK, CatalogIsTrue, Dataset
<1>2. d.at <= tick'
  BY <1>1, FrozenNumbers
<1>3. EndsInTime(d.id.end, d.at)'
  BY <1>1 DEF EndsInTime
<1>4. QED
  BY <1>1, <1>2, <1>3, TruthStands

\* One command goes on, and all else stays.
LEMMA OneGoesOn ==
    ASSUME FrozenInvariant, NEW k \in Keepers, NEW w \in WorkRow, WorkIsTrue(w),
           keeper' = [keeper EXCEPT ![k] = w], collected' \in 0..MaxCollected,
           UNCHANGED <<family, tick, facts, vintage, catalog>>
    PROVE  FrozenInvariant'
<1>1. tick \in 0..LastSlot /\ tick' >= tick /\ tick' \in 0..LastSlot
  BY FrozenNumbers DEF FrozenInvariant, FrozenTypeOK
<1>2. CatalogIsTrue'
  BY <1>1, CatalogStands
<1>3. keeper' \in [Keepers -> WorkRow]
  BY DEF FrozenInvariant
<1>4. \A j \in Keepers : WorkIsTrue(keeper[j])'
  <2>1. TAKE j \in Keepers
  <2>2. PICK v : v = keeper'[j]
    OBVIOUS
  <2>3. v \in WorkRow /\ WorkIsTrue(v)
    BY <2>2 DEF FrozenInvariant
  <2>4. WorkIsTrue(v)'
    BY <1>1, <2>3, WorkStands
  <2>5. QED
    BY <2>2, <2>4
<1>5. FrozenTypeOK'
  <2>1. \A j \in Keepers : /\ keeper'[j].step \in Steps /\ keeper'[j].rows \subseteq Row
                           /\ keeper'[j].cursor \in 0..(LastSlot + 1)
    BY <1>3 DEF WorkRow
  <2>2. QED
    BY <2>1 DEF FrozenInvariant, FrozenTypeOK
<1>6. \A t \in facts' : t < tick'
  BY DEF FrozenInvariant
<1>7. QED
  BY <1>2, <1>3, <1>4, <1>5, <1>6 DEF FrozenInvariant

-----------------------------------------------------------------------------
(* The collections, step by step.                                            *)

\* The rows of some slots, and their slots.
LEMMA RowsOfSlots ==
    ASSUME FrozenInvariant, NEW S \in SUBSET facts
    PROVE  /\ {RowOf(t) : t \in S} \subseteq Row
           /\ SlotsOf({RowOf(t) : t \in S}) = S
           /\ \A r \in {RowOf(t) : t \in S} : r.whole /\ r.slot \in S
           /\ \A r, s \in {RowOf(t) : t \in S} : r.vintage = s.vintage
<1>1. \A t \in S : t \in 0..LastSlot /\ t < tick /\ vintage \in 0..1
  BY DEF FrozenInvariant, FrozenTypeOK
<1>2. \A t \in S : /\ RowOf(t) \in Row /\ RowOf(t).slot = t /\ RowOf(t).whole
                   /\ RowOf(t).vintage = IF family = "series" THEN vintage ELSE 0
  <2>1. TAKE t \in S
  <2>2. PICK n : n = IF family = "series" THEN vintage ELSE 0
    OBVIOUS
  <2>3. n \in 0..1
    BY <1>1, <2>2
  <2>4. RowOf(t) = [slot |-> t, whole |-> t < tick, vintage |-> n]
    BY <2>2 DEF RowOf
  <2>5. (t < tick) = TRUE
    BY <1>1
  <2>6. RowOf(t) = [slot |-> t, whole |-> TRUE, vintage |-> n]
    BY <2>4, <2>5
  <2>7. QED
    BY <1>1, <2>2, <2>3, <2>6 DEF Row
<1>3. QED
  BY <1>2 DEF SlotsOf

\* What is known of a command, and of the facts.
LEMMA CommandFacts ==
    ASSUME FrozenInvariant, NEW k \in Keepers
    PROVE  /\ keeper[k] \in WorkRow /\ WorkIsTrue(keeper[k])
           /\ family \in Families /\ tick \in 0..LastSlot /\ facts \subseteq 0..LastSlot
           /\ collected \in 0..MaxCollected /\ vintage \in 0..1
           /\ keeper[k].at \in 0..LastSlot /\ keeper[k].end \in 0..LastSlot
           /\ keeper[k].start \in 0..LastSlot /\ keeper[k].cursor \in 0..(LastSlot + 1)
           /\ keeper[k].rows \subseteq Row /\ keeper[k].at <= tick
           /\ SlotsOf(keeper[k].rows) \subseteq 0..LastSlot
<1>1. keeper[k] \in WorkRow /\ WorkIsTrue(keeper[k])
  BY DEF FrozenInvariant
<1>2. SlotsOf(keeper[k].rows) \subseteq 0..LastSlot
  BY <1>1 DEF WorkRow, SlotsOf, Row
<1>3. QED
  BY <1>1, <1>2 DEF FrozenInvariant, FrozenTypeOK, WorkRow, WorkIsTrue

\* Nothing is read and nothing frozen at the beginning.
LEMMA FrozenBegins == FrozenInit => FrozenInvariant
<1>. SUFFICES ASSUME FrozenInit PROVE FrozenInvariant
  OBVIOUS
<1>1. NoWork \in WorkRow
  BY FrozenNumbers DEF NoWork, WorkRow, Steps
<1>2. \A k \in Keepers : keeper[k] = NoWork
  BY DEF FrozenInit
<1>3. WorkIsTrue(NoWork)
  BY FrozenNumbers DEF WorkIsTrue, NoWork, RowsAreTrue, FrozenInit
<1>4. keeper \in [Keepers -> WorkRow]
  BY <1>1 DEF FrozenInit
<1>5. FrozenTypeOK
  BY <1>1, <1>2, FrozenNumbers DEF FrozenInit, FrozenTypeOK, WorkRow
<1>6. QED
  BY <1>2, <1>3, <1>4, <1>5 DEF FrozenInit, FrozenInvariant, CatalogIsTrue

\* The source getting something of a slot that ends disturbs nothing.
LEMMA SlotEndsTrue == FrozenInvariant /\ SlotEnds => FrozenInvariant'
<1>. SUFFICES ASSUME FrozenInvariant, SlotEnds PROVE FrozenInvariant'
  OBVIOUS
<1>1. /\ tick \in 0..LastSlot /\ tick' = tick + 1 /\ tick' \in 0..LastSlot /\ tick' >= tick
      /\ facts' \in {facts, facts \cup {tick}}
      /\ UNCHANGED <<family, vintage, keeper, catalog, collected>>
  BY FrozenNumbers DEF FrozenInvariant, FrozenTypeOK, SlotEnds
<1>2. CatalogIsTrue'
  BY <1>1, CatalogStands
<1>3. \A k \in Keepers : WorkIsTrue(keeper[k])'
  <2>1. TAKE k \in Keepers
  <2>2. PICK v : v = keeper[k] /\ v = keeper'[k]
    BY <1>1
  <2>3. v \in WorkRow /\ WorkIsTrue(v)
    BY <2>2 DEF FrozenInvariant
  <2>4. WorkIsTrue(v)'
    BY <1>1, <2>3, WorkStands
  <2>5. QED
    BY <2>2, <2>4
<1>4. \A t \in facts' : t \in 0..LastSlot /\ t < tick'
  BY <1>1, FrozenNumbers DEF FrozenInvariant, FrozenTypeOK
<1>5. FrozenTypeOK' /\ keeper' \in [Keepers -> WorkRow]
  BY <1>1, <1>4 DEF FrozenInvariant, FrozenTypeOK
<1>6. QED
  BY <1>2, <1>3, <1>4, <1>5 DEF FrozenInvariant

\* A revision, or nothing, happens to the source.
LEMMA RevisionTrue ==
    FrozenInvariant /\ (SourceRevises \/ UNCHANGED frozenVars) => FrozenInvariant'
<1>. SUFFICES ASSUME FrozenInvariant, SourceRevises \/ UNCHANGED frozenVars
              PROVE  FrozenInvariant'
  OBVIOUS
<1>1. /\ tick \in 0..LastSlot /\ tick' >= tick /\ tick' \in 0..LastSlot
      /\ UNCHANGED <<family, tick, facts, keeper, catalog, collected>> /\ vintage' \in 0..1
  BY FrozenNumbers DEF FrozenInvariant, FrozenTypeOK, SourceRevises, frozenVars
<1>2. CatalogIsTrue'
  BY <1>1, CatalogStands
<1>3. \A k \in Keepers : WorkIsTrue(keeper[k])'
  <2>1. TAKE k \in Keepers
  <2>2. PICK v : v = keeper[k] /\ v = keeper'[k]
    BY <1>1
  <2>3. v \in WorkRow /\ WorkIsTrue(v)
    BY <2>2 DEF FrozenInvariant
  <2>4. WorkIsTrue(v)'
    BY <1>1, <2>3, WorkStands
  <2>5. QED
    BY <2>2, <2>4
<1>4. QED
  BY <1>1, <1>2, <1>3 DEF FrozenInvariant, FrozenTypeOK

\* A collection begins with nothing read.
LEMMA BeginTrue ==
    ASSUME FrozenInvariant, NEW k \in Keepers, BeginCollection(k)
    PROVE  FrozenInvariant'
<1>1. PICK start \in 0..(LastSlot - 1), end \in 1..LastSlot :
        /\ start < end /\ EndsInTime(end, tick)
        /\ keeper' = [keeper EXCEPT ![k] =
                [NoWork EXCEPT !.step = "reading", !.start = start, !.end = end,
                               !.at = tick, !.cursor = start]]
  BY DEF BeginCollection
<1>2. PICK w : w = [NoWork EXCEPT !.step = "reading", !.start = start, !.end = end,
                                  !.at = tick, !.cursor = start]
  OBVIOUS
<1>3. /\ w.step = "reading" /\ w.start = start /\ w.end = end /\ w.at = tick
      /\ w.cursor = start /\ w.rows = {} /\ w.files = {}
  BY <1>2 DEF NoWork
<1>4. start \in 0..LastSlot /\ end \in 0..LastSlot /\ start \in 0..(LastSlot + 1)
  BY FrozenNumbers
<1>5. w \in WorkRow
  BY <1>2, <1>4, CommandFacts DEF NoWork, WorkRow, Steps
<1>6. WorkIsTrue(w)
  <2>1. \A t \in HadBy(w, w.at) : ~(t < w.cursor)
    BY <1>3, <1>4, CommandFacts, FrozenNumbers DEF HadBy, InWindow
  <2>2. w.at <= tick /\ w.start <= w.cursor
    BY <1>3, <1>4, CommandFacts, FrozenNumbers
  <2>3. QED
    BY <1>1, <1>3, <2>1, <2>2 DEF WorkIsTrue, RowsAreTrue
<1>7. collected' \in 0..MaxCollected /\ UNCHANGED <<family, tick, facts, vintage, catalog>>
  BY CommandFacts, FrozenNumbers DEF BeginCollection
<1>8. QED
  BY <1>1, <1>2, <1>5, <1>6, <1>7, OneGoesOn

\* A page adds what is over, and the cursor passes nothing that is not added.
LEMMA ReadPageTrue ==
    ASSUME FrozenInvariant, NEW k \in Keepers, ReadPage(k)
    PROVE  FrozenInvariant'
<1>1. PICK w : w = keeper[k]
  OBVIOUS
<1>. DEFINE offered == {t \in facts \cup {tick} : w.cursor <= t /\ t < w.end}
            page    == PageFrom(w)
            taken   == {u \in page : Closed(u, w.at)}
            kept    == {RowOf(t) : t \in taken}
            v == IF w.cursor >= w.end \/ page = {}
                 THEN [w EXCEPT !.step = "checking"]
                 ELSE [w EXCEPT !.rows = @ \cup kept, !.cursor = Max(page) + 1]
<1>2. /\ family = "bars" /\ w.step = "reading" /\ keeper' = [keeper EXCEPT ![k] = v]
      /\ UNCHANGED <<family, tick, facts, vintage, catalog, collected>>
  BY <1>1 DEF ReadPage
<1>3. /\ w \in WorkRow /\ WorkIsTrue(w) /\ tick \in 0..LastSlot /\ facts \subseteq 0..LastSlot
      /\ w.at \in 0..LastSlot /\ w.end \in 0..LastSlot /\ w.start \in 0..LastSlot
      /\ w.cursor \in 0..(LastSlot + 1) /\ w.rows \subseteq Row /\ w.at <= tick
      /\ collected \in 0..MaxCollected
  BY <1>1, CommandFacts
<1>4. /\ offered \in SUBSET (0..LastSlot) /\ page \subseteq offered
      /\ page = {} => offered = {}
      /\ \A t \in page, u \in offered : u <= t => u \in page
  <2>1. offered \in SUBSET (0..LastSlot)
    BY <1>3
  <2>2. page = {t \in offered : Cardinality({u \in offered : u <= t}) <= PageSize}
    BY DEF PageFrom
  <2>3. QED
    BY <2>1, <2>2, PageComesFirst
<1>5. CASE w.cursor >= w.end \/ page = {}
  <2>1. /\ v.step = "checking" /\ v.rows = w.rows /\ v.at = w.at /\ v.end = w.end
        /\ v.start = w.start /\ v.cursor = w.cursor /\ v.files = w.files
        /\ v \in WorkRow
    BY <1>3, <1>5 DEF WorkRow, Steps
  <2>2. ASSUME NEW t \in HadBy(v, v.at) PROVE t \in SlotsOf(v.rows)
    <3>1. t \in facts /\ t \in HadBy(w, w.at) /\ w.start <= t /\ t < w.end /\ t \in 0..LastSlot
      BY <1>3, <2>1, <2>2 DEF HadBy, InWindow
    <3>2. t < w.cursor
      BY <1>3, <1>4, <1>5, <3>1, FrozenNumbers
    <3>3. QED
      BY <1>2, <1>3, <2>1, <3>1, <3>2 DEF WorkIsTrue
  <2>3. WorkIsTrue(v)
    BY <1>2, <1>3, <2>1, <2>2 DEF WorkIsTrue, RowsAreTrue, InWindow, OwedOf
  <2>4. QED
    BY <1>2, <1>3, <2>1, <2>3, OneGoesOn
<1>6. CASE ~(w.cursor >= w.end \/ page = {})
  <2>1. /\ v.step = "reading" /\ v.rows = w.rows \cup kept /\ v.at = w.at /\ v.end = w.end
        /\ v.start = w.start /\ v.cursor = Max(page) + 1 /\ v.files = w.files
    BY <1>2, <1>3, <1>6 DEF WorkRow
  <2>2. page \in SUBSET (0..LastSlot) /\ page # {}
    BY <1>4, <1>6
  <2>3. PICK m : m = Max(page) /\ m \in page /\ \A y \in page : y <= m
    BY <2>2, Extremes
  <2>4. taken \in SUBSET facts /\ \A t \in taken : t < w.at /\ w.cursor <= t /\ t < w.end
    BY <1>3, <1>4, FrozenNumbers DEF Closed
  <2>5. /\ kept \subseteq Row /\ SlotsOf(kept) = taken
        /\ \A r \in kept : r.whole /\ r.slot \in taken
        /\ \A r \in kept : r.vintage = 0
    <3>1. /\ kept \subseteq Row /\ SlotsOf(kept) = taken
          /\ \A r \in kept : r.whole /\ r.slot \in taken
      BY <2>4, RowsOfSlots
    <3>2. \A r \in kept : r.vintage = 0
      BY <1>2 DEF RowOf
    <3>3. QED
      BY <3>1, <3>2
  <2>6. m + 1 \in 0..(LastSlot + 1) /\ m \in 0..LastSlot
    BY <2>2, <2>3, FrozenNumbers
  <2>7. v \in WorkRow
    BY <1>3, <1>6, <2>3, <2>5, <2>6 DEF WorkRow
  <2>8. ASSUME NEW t \in HadBy(v, v.at), t < v.cursor PROVE t \in SlotsOf(v.rows)
    <3>1. /\ t \in facts /\ t \in HadBy(w, w.at) /\ w.start <= t /\ t < w.end /\ t \in 0..LastSlot
          /\ t < w.at /\ t <= m
      BY <1>3, <2>1, <2>3, <2>6, <2>8, FrozenNumbers DEF HadBy, InWindow
    <3>2. CASE t < w.cursor
      <4>1. t \in SlotsOf(w.rows)
        BY <1>2, <1>3, <3>1, <3>2 DEF WorkIsTrue
      <4>2. QED
        BY <2>1, <4>1 DEF SlotsOf
    <3>3. CASE ~(t < w.cursor)
      <4>1. t \in offered
        BY <1>3, <3>1, <3>3, FrozenNumbers
      <4>2. t \in taken
        BY <1>4, <2>3, <3>1, <4>1 DEF Closed
      <4>3. QED
        BY <2>1, <2>5, <4>2 DEF SlotsOf
    <3>4. QED
      BY <3>2, <3>3
  <2>9. RowsAreTrue(v) /\ v.start <= v.cursor
    <3>1. /\ RowsAreTrue(w) /\ w.start <= w.cursor /\ w.cursor <= m
      BY <1>3, <1>4, <2>3 DEF WorkIsTrue
    <3>2. \A t \in taken : t \in facts /\ InWindow(v, t)
      BY <1>3, <2>1, <2>4, <3>1, FrozenNumbers DEF InWindow
    <3>3. v.start <= v.cursor
      BY <1>3, <2>1, <2>3, <2>6, <3>1, FrozenNumbers
    <3>4. RowsAreTrue(v)
      BY <1>2, <2>1, <2>5, <3>1, <3>2 DEF RowsAreTrue, InWindow
    <3>5. QED
      BY <3>3, <3>4
  <2>10. WorkIsTrue(v)
    BY <1>2, <1>3, <2>1, <2>8, <2>9 DEF WorkIsTrue
  <2>11. QED
    BY <1>2, <1>3, <2>7, <2>10, OneGoesOn
<1>7. QED
  BY <1>5, <1>6

\* The archives hold some of what the source has of the window.
LEMMA ReadArchivesTrue ==
    ASSUME FrozenInvariant, NEW k \in Keepers, ReadArchives(k)
    PROVE  FrozenInvariant'
<1>1. PICK w : w = keeper[k]
  OBVIOUS
<1>2. /\ w \in WorkRow /\ WorkIsTrue(w) /\ w.step = "reading" /\ facts \subseteq 0..LastSlot
      /\ collected \in 0..MaxCollected /\ family \in {"archived", "verified"}
      /\ UNCHANGED <<family, tick, facts, vintage, catalog, collected>>
  BY <1>1, CommandFacts DEF ReadArchives
<1>3. PICK read : /\ read \in SUBSET facts /\ \A t \in read : InWindow(w, t)
                  /\ keeper' = [keeper EXCEPT ![k].rows = {RowOf(t) : t \in read},
                                ![k].step = IF read = {} THEN "refused"
                                            ELSE IF family = "verified"
                                                 THEN "verifying" ELSE "checking"]
  <2>1. PICK missing \in SUBSET (facts \cap MonthsCovering(keeper[k])) :
          LET read == {t \in (facts \cap MonthsCovering(keeper[k])) \ missing :
                          InWindow(keeper[k], t)}
          IN  keeper' = [keeper EXCEPT ![k].rows = {RowOf(t) : t \in read},
                                       ![k].step = IF read = {} THEN "refused"
                                                   ELSE IF family = "verified"
                                                        THEN "verifying" ELSE "checking"]
    BY Zenon DEF ReadArchives
  <2>2. PICK read : read = {t \in (facts \cap MonthsCovering(keeper[k])) \ missing :
                                InWindow(keeper[k], t)}
    OBVIOUS
  <2>3. read \in SUBSET facts /\ \A t \in read : InWindow(w, t)
    BY <1>1, <2>2
  <2>4. QED
    BY <2>1, <2>2, <2>3, Zenon
<1>4. PICK next : next = IF read = {} THEN "refused"
                         ELSE IF family = "verified" THEN "verifying" ELSE "checking"
  OBVIOUS
<1>5. PICK rows : rows = {RowOf(t) : t \in read}
  OBVIOUS
<1>6. PICK v : v = [w EXCEPT !.rows = rows, !.step = next]
  OBVIOUS
<1>7. keeper' = [keeper EXCEPT ![k] = v]
  BY <1>1, <1>3, <1>4, <1>5, <1>6 DEF FrozenInvariant
<1>8. /\ rows \subseteq Row /\ \A r \in rows : r.whole /\ r.slot \in read /\ r.vintage = 0
  <2>1. rows \subseteq Row /\ \A r \in rows : r.whole /\ r.slot \in read
    BY <1>3, <1>5, RowsOfSlots
  <2>2. \A r \in rows : r.vintage = 0
    BY <1>2, <1>5 DEF RowOf
  <2>3. QED
    BY <2>1, <2>2
<1>9. /\ v.rows = rows /\ v.step = next /\ v.at = w.at /\ v.start = w.start /\ v.end = w.end
      /\ v.cursor = w.cursor /\ v.files = w.files /\ v \in WorkRow
      /\ next \in {"refused", "verifying", "checking"}
      /\ next = "checking" => family = "archived"
  BY <1>2, <1>4, <1>6, <1>8 DEF WorkRow, Steps
<1>10. RowsAreTrue(v)
  BY <1>2, <1>3, <1>8, <1>9 DEF RowsAreTrue, InWindow
<1>11. WorkIsTrue(v)
  BY <1>2, <1>9, <1>10 DEF WorkIsTrue
<1>12. QED
  BY <1>2, <1>7, <1>9, <1>11, OneGoesOn

\* Verified settlements are all that the source has of the window.
LEMMA VerifyTrue ==
    ASSUME FrozenInvariant, NEW k \in Keepers, VerifyFunding(k)
    PROVE  FrozenInvariant'
<1>1. PICK w : w = keeper[k]
  OBVIOUS
<1>2. /\ w \in WorkRow /\ WorkIsTrue(w) /\ w.step = "verifying"
      /\ collected \in 0..MaxCollected
      /\ UNCHANGED <<family, tick, facts, vintage, catalog, collected>>
  BY <1>1, CommandFacts DEF VerifyFunding
<1>3. PICK next : next = IF SlotsOf(w.rows) = Tabled(w) THEN "checking" ELSE "refused"
  OBVIOUS
<1>4. PICK v : v = [w EXCEPT !.step = next]
  OBVIOUS
<1>5. keeper' = [keeper EXCEPT ![k] = v]
  BY <1>1, <1>3, <1>4 DEF FrozenInvariant, VerifyFunding
<1>6. /\ v.rows = w.rows /\ v.step = next /\ v.at = w.at /\ v.start = w.start /\ v.end = w.end
      /\ v.cursor = w.cursor /\ v.files = w.files /\ v \in WorkRow
      /\ next \in {"refused", "checking"}
      /\ next = "checking" => SlotsOf(w.rows) = Tabled(w)
  BY <1>2, <1>3, <1>4 DEF WorkRow, Steps
<1>7. RowsAreTrue(v)
  BY <1>2, <1>6 DEF WorkIsTrue, RowsAreTrue, InWindow
<1>8. next = "checking" => OwedOf(v, v.at) \subseteq SlotsOf(v.rows)
  BY <1>6 DEF OwedOf, HadBy, Tabled, FirstOfBuckets, InWindow
<1>9. WorkIsTrue(v)
  BY <1>2, <1>6, <1>7, <1>8 DEF WorkIsTrue
<1>10. QED
  BY <1>2, <1>5, <1>6, <1>9, OneGoesOn

\* What is selected at once covers what is owed.
LEMMA ReadAllTrue ==
    ASSUME FrozenInvariant, NEW k \in Keepers, ReadAll(k)
    PROVE  FrozenInvariant'
<1>1. PICK w : w = keeper[k]
  OBVIOUS
<1>2. PICK rows : rows = AllRows(w)
  OBVIOUS
<1>3. PICK v : v = [w EXCEPT !.step = "checking", !.rows = rows]
  OBVIOUS
<1>4. /\ w \in WorkRow /\ WorkIsTrue(w) /\ w.step = "reading"
      /\ collected \in 0..MaxCollected /\ facts \subseteq 0..LastSlot
      /\ family \in {"events", "quotes", "series"} /\ family \in Families
      /\ w.end \in 0..LastSlot /\ w.at \in 0..LastSlot
      /\ UNCHANGED <<family, tick, facts, vintage, catalog, collected>>
  BY <1>1, CommandFacts DEF ReadAll
<1>5. keeper' = [keeper EXCEPT ![k] = v]
  BY <1>1, <1>2, <1>3 DEF FrozenInvariant, ReadAll
<1>6. w.end <= w.at
  BY <1>4, WindowIsOver DEF WorkIsTrue
<1>7. HadBy(w, w.at) = Tabled(w)
  <2>1. w.end \in Int /\ w.at \in Int /\ \A t \in facts : t \in Int
    BY <1>4, FrozenNumbers
  <2>2. \A t \in facts : InWindow(w, t) => t < w.at
    BY <1>6, <2>1 DEF InWindow
  <2>3. QED
    BY <2>2 DEF HadBy, Tabled
<1>8. PICK S : S = CASE family = "series" -> facts
                     [] family = "quotes" -> FirstOfBuckets(Tabled(w))
                     [] OTHER             -> Tabled(w)
  OBVIOUS
<1>9. rows = {RowOf(t) : t \in S}
  BY <1>2, <1>4, <1>8 DEF AllRows, Published
<1>10. /\ S \in SUBSET facts /\ OwedOf(w, w.at) \subseteq S
       /\ family # "series" => \A t \in S : InWindow(w, t)
  <2>1. CASE family = "series"
    BY <1>8, <2>1 DEF OwedOf, HadBy
  <2>2. CASE family = "quotes"
    BY <1>7, <1>8, <2>2 DEF OwedOf, Tabled, FirstOfBuckets
  <2>3. CASE family = "events"
    BY <1>7, <1>8, <2>3 DEF OwedOf, Tabled
  <2>4. QED
    BY <1>4, <2>1, <2>2, <2>3
<1>11. /\ rows \subseteq Row /\ SlotsOf(rows) = S
       /\ \A r \in rows : r.whole /\ r.slot \in S
       /\ \A r, s \in rows : r.vintage = s.vintage
       /\ family # "series" => \A r \in rows : r.vintage = 0
  <2>1. /\ rows \subseteq Row /\ SlotsOf(rows) = S
        /\ \A r \in rows : r.whole /\ r.slot \in S
        /\ \A r, s \in rows : r.vintage = s.vintage
    BY <1>9, <1>10, RowsOfSlots
  <2>2. family # "series" => \A r \in rows : r.vintage = 0
    BY <1>9 DEF RowOf
  <2>3. QED
    BY <2>1, <2>2
<1>12. /\ v.rows = rows /\ v.step = "checking" /\ v.at = w.at /\ v.start = w.start
       /\ v.end = w.end /\ v.cursor = w.cursor /\ v.files = w.files /\ v \in WorkRow
  BY <1>3, <1>4, <1>11 DEF WorkRow, Steps
<1>13. RowsAreTrue(v)
  BY <1>10, <1>11, <1>12 DEF RowsAreTrue, InWindow
<1>14. OwedOf(v, v.at) = OwedOf(w, w.at)
  BY <1>12 DEF OwedOf, HadBy, InWindow
<1>15. WorkIsTrue(v)
  BY <1>4, <1>10, <1>11, <1>12, <1>13, <1>14 DEF WorkIsTrue
<1>16. QED
  BY <1>4, <1>5, <1>12, <1>15, OneGoesOn

\* What is accepted is whole: an archive whose ends are near those of its
\* window and that has no gap lacks at most what the window begins with.
LEMMA AcceptedIsWhole ==
    ASSUME NEW w \in WorkRow, WorkIsTrue(w), w.step = "checking", Acceptable(w),
           family \in Families, facts \subseteq 0..LastSlot
    PROVE  IsWhole(w, w.at)
<1>1. PICK S : S = SlotsOf(w.rows)
  OBVIOUS
<1>2. S \in SUBSET (0..LastSlot)
  BY <1>1 DEF WorkRow, SlotsOf, Row
<1>3. CASE family = "bars"
  BY <1>1, <1>3 DEF Acceptable, IsWhole, WorkIsTrue
<1>4. CASE family = "archived"
  <2>1. S # {} /\ Contiguous(S) /\ Min(S) - w.start <= 1 /\ w.end - Max(S) <= 1
    BY <1>1, <1>4 DEF Acceptable, FundingCovers
  <2>2. PICK a \in S, b \in S : a = Min(S) /\ b = Max(S)
    BY <1>2, <2>1, Extremes
  <2>3. ASSUME NEW t \in HadBy(w, w.at), t # w.start PROVE t \in S
    <3>1. t \in Nat /\ w.start <= t /\ t < w.end /\ w.start \in Nat /\ w.end \in Nat
      BY <2>3, FrozenNumbers DEF HadBy, InWindow, WorkRow
    <3>2. a \in Nat /\ b \in Nat
      BY <1>2, FrozenNumbers
    <3>3. a <= t /\ t <= b
      BY <2>1, <2>2, <2>3, <3>1, <3>2
    <3>4. QED
      BY <1>2, <2>1, <3>1, <3>3, Between
  <2>4. QED
    BY <1>1, <1>4, <2>3 DEF IsWhole, OwedOf
<1>5. CASE family \notin {"bars", "archived"}
  BY <1>5 DEF IsWhole, WorkIsTrue
<1>6. QED
  BY <1>3, <1>4, <1>5

\* A command that has ended holds nothing.
LEMMA NoWorkIsTrue ==
    ASSUME tick \in 0..LastSlot
    PROVE  NoWork \in WorkRow /\ WorkIsTrue(NoWork)
<1>1. NoWork \in WorkRow
  BY FrozenNumbers DEF NoWork, WorkRow, Steps
<1>2. WorkIsTrue(NoWork)
  BY FrozenNumbers DEF WorkIsTrue, NoWork, RowsAreTrue
<1>3. QED
  BY <1>1, <1>2

\* Only a collection that is whole is written.
LEMMA CheckTrue ==
    ASSUME FrozenInvariant, NEW k \in Keepers, CheckAndLook(k)
    PROVE  FrozenInvariant'
<1>1. PICK w : w = keeper[k]
  OBVIOUS
<1>2. PICK v : v = IF ~ Acceptable(w) THEN [w EXCEPT !.step = "refused"]
                   ELSE IF Stored(IdOf(w)) = {} THEN [w EXCEPT !.step = "rows"]
                   ELSE IF \A d \in Stored(IdOf(w)) : SameContent(d, w) THEN NoWork
                   ELSE [w EXCEPT !.step = "refused"]
  OBVIOUS
<1>3. /\ w \in WorkRow /\ WorkIsTrue(w) /\ w.step = "checking"
      /\ collected \in 0..MaxCollected /\ facts \subseteq 0..LastSlot
      /\ family \in Families /\ tick \in 0..LastSlot
      /\ UNCHANGED <<family, tick, facts, vintage, catalog, collected>>
  BY <1>1, CommandFacts DEF CheckAndLook
<1>4. keeper' = [keeper EXCEPT ![k] = v]
  BY <1>1, <1>2 DEF CheckAndLook
<1>5. \/ v = NoWork
      \/ v = [w EXCEPT !.step = "refused"]
      \/ v = [w EXCEPT !.step = "rows"] /\ Acceptable(w)
  BY <1>2
<1>6. CASE v = NoWork
  BY <1>3, <1>4, <1>6, NoWorkIsTrue, OneGoesOn
<1>7. CASE v = [w EXCEPT !.step = "refused"]
  <2>1. /\ v.rows = w.rows /\ v.step = "refused" /\ v.at = w.at /\ v.start = w.start
        /\ v.end = w.end /\ v.cursor = w.cursor /\ v.files = w.files /\ v \in WorkRow
    BY <1>3, <1>7 DEF WorkRow, Steps
  <2>2. WorkIsTrue(v)
    BY <1>3, <2>1 DEF WorkIsTrue, RowsAreTrue, InWindow
  <2>3. QED
    BY <1>3, <1>4, <2>1, <2>2, OneGoesOn
<1>8. CASE v = [w EXCEPT !.step = "rows"] /\ Acceptable(w)
  <2>1. /\ v.rows = w.rows /\ v.step = "rows" /\ v.at = w.at /\ v.start = w.start
        /\ v.end = w.end /\ v.cursor = w.cursor /\ v.files = w.files /\ v \in WorkRow
    BY <1>3, <1>8 DEF WorkRow, Steps
  <2>2. IsWhole(w, w.at)
    BY <1>3, <1>8, AcceptedIsWhole
  <2>3. IsWhole(v, v.at)
    BY <2>1, <2>2 DEF IsWhole, OwedOf, HadBy, InWindow
  <2>4. WorkIsTrue(v)
    BY <1>3, <2>1, <2>3 DEF WorkIsTrue, RowsAreTrue, InWindow
  <2>5. QED
    BY <1>3, <1>4, <2>1, <2>4, OneGoesOn
<1>9. QED
  BY <1>5, <1>6, <1>7, <1>8

\* The files are written one after the other.
LEMMA WriteTrue ==
    ASSUME FrozenInvariant, NEW k \in Keepers, WriteRows(k) \/ WriteManifest(k)
    PROVE  FrozenInvariant'
<1>1. PICK w : w = keeper[k]
  OBVIOUS
<1>2. PICK next, file : \/ w.step = "rows" /\ next = "manifest" /\ file = "rows"
                        \/ w.step = "manifest" /\ next = "replacing" /\ file = "manifest"
  BY <1>1 DEF WriteRows, WriteManifest
<1>3. PICK v : v = [w EXCEPT !.step = next, !.files = @ \cup {file}]
  OBVIOUS
<1>4. /\ w \in WorkRow /\ WorkIsTrue(w) /\ collected \in 0..MaxCollected
      /\ UNCHANGED <<family, tick, facts, vintage, catalog, collected>>
  BY <1>1, CommandFacts DEF WriteRows, WriteManifest
<1>5. keeper' = [keeper EXCEPT ![k] = v]
  BY <1>1, <1>2, <1>3 DEF FrozenInvariant, WriteRows, WriteManifest
<1>6. /\ v.rows = w.rows /\ v.step = next /\ v.at = w.at /\ v.start = w.start
      /\ v.end = w.end /\ v.cursor = w.cursor /\ v.files = w.files \cup {file} /\ v \in WorkRow
  BY <1>2, <1>3, <1>4 DEF WorkRow, Steps
<1>7. IsWhole(v, v.at)
  BY <1>2, <1>4, <1>6 DEF WorkIsTrue, IsWhole, OwedOf, HadBy, InWindow
<1>8. /\ next = "manifest" => "rows" \in v.files
      /\ next = "replacing" => v.files = {"rows", "manifest"}
  BY <1>2, <1>4, <1>6 DEF WorkIsTrue, WorkRow
<1>9. WorkIsTrue(v)
  BY <1>2, <1>4, <1>6, <1>7, <1>8 DEF WorkIsTrue, RowsAreTrue, InWindow
<1>10. QED
  BY <1>4, <1>5, <1>6, <1>9, OneGoesOn

\* A command that ends leaves nothing behind.
LEMMA CommandEndsTrue ==
    ASSUME FrozenInvariant, NEW k \in Keepers, CommandEnds(k)
    PROVE  FrozenInvariant'
BY CommandFacts, NoWorkIsTrue, OneGoesOn DEF CommandEnds

\* The directory takes its name in the catalog, or another had it.
LEMMA ReplaceTrue ==
    ASSUME FrozenInvariant, NEW k \in Keepers, ReplaceDirectory(k)
    PROVE  FrozenInvariant'
<1>1. PICK w : w = keeper[k]
  OBVIOUS
<1>2. /\ w \in WorkRow /\ WorkIsTrue(w) /\ w.step = "replacing" /\ tick \in 0..LastSlot
      /\ collected \in 0..MaxCollected
      /\ UNCHANGED <<family, tick, facts, vintage, collected>>
  BY <1>1, CommandFacts DEF ReplaceDirectory
<1>3. CASE Stored(IdOf(w)) # {}
  <2>1. PICK v : v = [w EXCEPT !.step = "refused", !.files = {}]
    OBVIOUS
  <2>2. keeper' = [keeper EXCEPT ![k] = v] /\ catalog' = catalog
    BY <1>1, <1>3, <2>1 DEF FrozenInvariant, ReplaceDirectory
  <2>3. /\ v.rows = w.rows /\ v.step = "refused" /\ v.at = w.at /\ v.start = w.start
        /\ v.end = w.end /\ v.cursor = w.cursor /\ v.files = {} /\ v \in WorkRow
    BY <1>2, <2>1 DEF WorkRow, Steps
  <2>4. WorkIsTrue(v)
    BY <1>2, <2>3 DEF WorkIsTrue, RowsAreTrue, InWindow
  <2>5. QED
    BY <1>2, <2>2, <2>3, <2>4, OneGoesOn
<1>4. CASE Stored(IdOf(w)) = {}
  <2>1. PICK d : d = [id |-> IdOf(w), at |-> w.at, files |-> w.files]
    OBVIOUS
  <2>2. keeper' = [keeper EXCEPT ![k] = NoWork] /\ catalog' = catalog \cup {d}
    BY <1>1, <1>4, <2>1 DEF ReplaceDirectory
  <2>3. d.at = w.at /\ d.files = w.files /\ d.id = IdOf(w)
        /\ d.id.rows = w.rows /\ d.id.start = w.start /\ d.id.end = w.end
    BY <2>1 DEF IdOf
  <2>4. d \in Dataset
    BY <1>2, <2>1, FrozenNumbers DEF IdOf, Dataset, Manifest, WorkRow
  <2>5. /\ d.at <= tick /\ EndsInTime(d.id.end, d.at) /\ d.files = {"rows", "manifest"}
        /\ RowsAreTrue(d.id) /\ IsWhole(d.id, d.at)
    BY <1>2, <2>3 DEF WorkIsTrue, RowsAreTrue, IsWhole, OwedOf, HadBy, InWindow
  <2>6. CatalogIsTrue'
    <3>1. ASSUME NEW e \in catalog'
          PROVE  /\ e.at <= tick' /\ EndsInTime(e.id.end, e.at)' /\ e.files = {"rows", "manifest"}
                 /\ RowsAreTrue(e.id)' /\ IsWhole(e.id, e.at)'
      <4>1. /\ e.at <= tick /\ EndsInTime(e.id.end, e.at) /\ e.files = {"rows", "manifest"}
            /\ RowsAreTrue(e.id) /\ IsWhole(e.id, e.at) /\ e.at \in 0..LastSlot
        BY <2>2, <2>4, <2>5, <3>1
           DEF FrozenInvariant, FrozenTypeOK, CatalogIsTrue, Dataset
      <4>2. EndsInTime(e.id.end, e.at)' <=> EndsInTime(e.id.end, e.at)
        BY <1>2 DEF EndsInTime
      <4>3. QED
        BY <1>2, <4>1, <4>2, TruthStands
    <3>2. QED
      BY <3>1 DEF CatalogIsTrue
  <2>7. NoWork \in WorkRow /\ WorkIsTrue(NoWork)
    BY <1>2, NoWorkIsTrue
  <2>8. \A j \in Keepers : WorkIsTrue(keeper[j])'
    <3>1. TAKE j \in Keepers
    <3>2. PICK v : v = keeper'[j]
      OBVIOUS
    <3>3. v \in WorkRow /\ WorkIsTrue(v)
      BY <2>2, <2>7, <3>2 DEF FrozenInvariant
    <3>4. tick' = tick /\ tick' >= tick /\ tick' \in 0..LastSlot /\ facts' = facts
      BY <1>2, FrozenNumbers
    <3>5. WorkIsTrue(v)'
      BY <1>2, <3>3, <3>4, WorkStands
    <3>6. QED
      BY <3>2, <3>5
  <2>9. keeper' \in [Keepers -> WorkRow] /\ \A e \in catalog' : e \in Dataset
    BY <2>2, <2>4, <2>7 DEF FrozenInvariant, FrozenTypeOK
  <2>10. FrozenTypeOK'
    BY <1>2, <2>9 DEF FrozenInvariant, FrozenTypeOK, WorkRow
  <2>11. \A t \in facts' : t < tick'
    BY <1>2 DEF FrozenInvariant
  <2>12. QED
    BY <2>6, <2>8, <2>9, <2>10, <2>11 DEF FrozenInvariant
<1>5. QED
  BY <1>3, <1>4

\* Every collection is true as far as it got, and every dataset of the catalog
\* is, whichever commands run at once and wherever they are killed.
THEOREM FrozenSafe == FrozenSpec => []FrozenInvariant
<1>1. FrozenInvariant /\ [FrozenNext]_frozenVars => FrozenInvariant'
  BY SlotEndsTrue, RevisionTrue, BeginTrue, ReadPageTrue, ReadArchivesTrue, VerifyTrue,
     ReadAllTrue, CheckTrue, WriteTrue, ReplaceTrue, CommandEndsTrue DEF FrozenNext
<1>2. QED
  BY <1>1, FrozenBegins, PTL DEF FrozenSpec

-----------------------------------------------------------------------------
(* What a window loaded from bars holds.                                     *)

\* A window of bars without a gap has none, and begins where it was asked to.
LEMMA WindowIsWhole ==
    ASSUME NEW d, NEW S \in SUBSET (0..LastSlot), S = SlotsOf(d.id.rows), S # {},
           Contiguous(S), NEW start \in 0..LastSlot, NEW end \in 0..LastSlot,
           NEW warmup \in Nat, start >= Min(S), NEW W, W = LoadWindow(d, start, end, warmup),
           W # {}
    PROVE  Contiguous(W) /\ start \in W
<1>. DEFINE before == {t \in S : t < start}
            inside == {t \in S : start <= t /\ t < end}
            warm   == {t \in before : Cardinality({u \in before : u >= t}) <= warmup}
<1>1. W = inside \cup warm /\ inside # {}
  BY DEF LoadWindow
<1>2. PICK i \in inside : TRUE
  BY <1>1
<1>3. /\ start \in Nat /\ end \in Nat /\ i \in Nat /\ \A t \in S : t \in Nat
      /\ i \in S /\ start <= i /\ i < end
  BY <1>2, FrozenNumbers
<1>4. start \in S
  BY <1>3, Between, Extremes
<1>5. start \in inside
  BY <1>3, <1>4
<1>6. W \in SUBSET (0..LastSlot) /\ W # {}
  BY <1>1
<1>7. ASSUME NEW t \in W, t + 1 \notin W PROVE t = Max(W)
  <2>1. CASE t \in inside
    <3>1. ASSUME NEW y \in W PROVE y <= t
      <4>1. SUFFICES ASSUME ~(y <= t) PROVE FALSE
        OBVIOUS
      <4>2. y \in inside /\ y \in Nat /\ t \in Nat /\ t + 1 <= y /\ t + 1 \in Nat
        BY <1>1, <1>3, <2>1, <3>1, <4>1
      <4>3. t + 1 \in S
        BY <2>1, <4>2, Between
      <4>4. t + 1 \in inside
        BY <1>3, <2>1, <4>2, <4>3
      <4>5. QED
        BY <1>1, <1>7, <4>4
    <3>2. PICK m : m = Max(W) /\ m \in W /\ \A y \in W : y <= m
      BY <1>6, Extremes
    <3>3. m <= t /\ t <= m /\ m \in Nat /\ t \in Nat
      BY <1>1, <1>3, <3>1, <3>2
    <3>4. QED
      BY <3>2, <3>3
  <2>2. CASE t \in warm
    <3>1. t \in Nat /\ t \in S /\ t + 1 <= start /\ t + 1 \in Nat /\ t <= t + 1
      BY <1>3, <2>2
    <3>2. t + 1 \in S
      BY <1>4, <3>1, Between
    <3>3. CASE t + 1 = start
      BY <1>1, <1>5, <1>7, <3>3
    <3>4. CASE t + 1 # start
      <4>1. t + 1 \in before
        BY <1>3, <3>1, <3>2, <3>4
      <4>2. /\ {u \in before : u >= t + 1} \in SUBSET {u \in before : u >= t}
            /\ {u \in before : u >= t} \in SUBSET (0..LastSlot)
            /\ {u \in before : u >= t + 1} \in SUBSET (0..LastSlot)
        BY <1>3, <3>1
      <4>3. /\ Cardinality({u \in before : u >= t + 1}) <= Cardinality({u \in before : u >= t})
            /\ Cardinality({u \in before : u >= t + 1}) \in Nat
            /\ Cardinality({u \in before : u >= t}) \in Nat
        BY <4>2, SlotsAreFinite
      <4>4. t + 1 \in warm
        BY <2>2, <4>1, <4>3
      <4>5. QED
        BY <1>1, <1>7, <4>4
    <3>5. QED
      BY <3>3, <3>4
  <2>3. QED
    BY <1>1, <2>1, <2>2
<1>8. QED
  BY <1>1, <1>5, <1>7 DEF Contiguous

\* The datasets of the catalog are complete on disk and true of their windows,
\* with any number of commands, pages, revisions and kills
\* (research/dataset.py, quote_dataset.py, economic_series.py).
THEOREM FrozenStaysTrue == FrozenSpec => []FrozenIsTrue
<1>1. FrozenInvariant => FrozenIsTrue
  <2>. SUFFICES ASSUME FrozenInvariant, NEW d \in catalog, NEW S, S = SlotsOf(d.id.rows)
                PROVE  /\ d.files = {"rows", "manifest"}
                       /\ \A r \in d.id.rows : r.whole
                       /\ Cardinality({r.vintage : r \in d.id.rows}) <= 1
                       /\ Owed(d) \subseteq S
                       /\ family # "series" => S \subseteq Tabled(d.id)
                       /\ family = "bars" =>
                           \A start, end \in 0..LastSlot, warmup \in 0..1 :
                               WindowAllowed(d, start, end) =>
                                   LET window == LoadWindow(d, start, end, warmup)
                                   IN  window # {} => /\ Contiguous(window)
                                                      /\ start \in window
    BY DEF FrozenIsTrue
  <2>1. /\ d.at <= tick /\ EndsInTime(d.id.end, d.at) /\ d.files = {"rows", "manifest"}
        /\ RowsAreTrue(d.id) /\ IsWhole(d.id, d.at) /\ d \in Dataset
    BY DEF FrozenInvariant, FrozenTypeOK, CatalogIsTrue
  <2>2. S \in SUBSET (0..LastSlot)
    BY <2>1 DEF SlotsOf, Dataset, Manifest, Row
  <2>3. Cardinality({r.vintage : r \in d.id.rows}) <= 1
    <3>1. CASE d.id.rows = {}
      <4>1. {r.vintage : r \in d.id.rows} = {}
        BY <3>1
      <4>2. QED
        BY <4>1, FS_EmptySet
    <3>2. CASE d.id.rows # {}
      <4>1. PICK r \in d.id.rows : TRUE
        BY <3>2
      <4>2. PICK vintages : vintages = {q.vintage : q \in d.id.rows}
        OBVIOUS
      <4>3. vintages = {r.vintage}
        BY <2>1, <4>1, <4>2 DEF RowsAreTrue
      <4>4. Cardinality(vintages) = 1
        BY <4>3, FS_Singleton
      <4>5. QED
        BY <4>2, <4>4
    <3>3. QED
      BY <3>1, <3>2
  <2>4. family # "series" => S \subseteq Tabled(d.id)
    BY <2>1 DEF RowsAreTrue, SlotsOf, Tabled
  <2>5. ASSUME family = "bars", NEW start \in 0..LastSlot, NEW end \in 0..LastSlot,
               NEW warmup \in 0..1, WindowAllowed(d, start, end),
               LoadWindow(d, start, end, warmup) # {}
        PROVE  /\ Contiguous(LoadWindow(d, start, end, warmup))
               /\ start \in LoadWindow(d, start, end, warmup)
    <3>1. S # {} /\ Contiguous(S)
      BY <2>1, <2>5 DEF IsWhole
    <3>2. start >= Min(S) /\ warmup \in Nat
      BY <2>5 DEF WindowAllowed
    <3>3. QED
      BY <2>2, <2>5, <3>1, <3>2, WindowIsWhole
  <2>6. Owed(d) \subseteq S
    BY <2>1 DEF IsWhole, Owed
  <2>7. QED
    BY <2>1, <2>3, <2>4, <2>5, <2>6 DEF RowsAreTrue
<1>2. QED
  BY <1>1, FrozenSafe, PTL

\* Every reachable state of the catalogs is well typed.
THEOREM FrozenTypeCorrect == FrozenSpec => []FrozenTypeOK
BY FrozenSafe, PTL DEF FrozenInvariant
-----------------------------------------------------------------------------
(* CapitalIncrement: the panels of a producer are in one line.               *)

Place(p, S) == Cardinality({q \in S : Sooner(q, p)})

LEMMA PlacesApart ==
    ASSUME NEW S, NEW top \in Nat, PanelsBy(S, top)
    PROVE  /\ Cardinality(S) \in Nat
           /\ \A p \in S : Place(p, S) + 1 \in 1..Cardinality(S)
           /\ \A p, q \in S : Place(p, S) = Place(q, S) => p = q
<1> DEFINE Prior(p) == {q \in S : Sooner(q, p)}
<1>0. IsFiniteSet(S) /\ Cardinality(S) \in Nat
  BY FS_CardinalityType DEF PanelsBy
<1>1. \A p : /\ Prior(p) \subseteq S /\ IsFiniteSet(Prior(p)) /\ Cardinality(Prior(p)) \in Nat
             /\ Place(p, S) = Cardinality(Prior(p))
  BY <1>0, FS_Subset, FS_CardinalityType DEF Place
<1>2. \A p \in S : p.at \in Nat /\ p.slot \in Nat
  <2>1. \A p \in S : p.slot \in Slots /\ p.at \in 0..top
    BY DEF PanelsBy
  <2>2. Slots \subseteq Nat
    BY IncrementAssumption
  <2>3. ASSUME NEW p \in S PROVE p.at \in Nat /\ p.slot \in Nat
    <3>1. p.slot \in Nat
      BY <2>1, <2>2
    <3>2. p.at \in 0..top
      BY <2>1
    <3>3. QED
      BY <3>1, <3>2
  <2>4. QED
    BY <2>3
<1>3. /\ \A p \in S : ~Sooner(p, p)
      /\ \A p, q, r \in S : Sooner(p, q) /\ Sooner(q, r) => Sooner(p, r)
      /\ \A p, q \in S : p # q => Sooner(p, q) \/ Sooner(q, p)
  BY <1>2 DEF Sooner, PanelsBy
<1>4. ASSUME NEW p \in S PROVE Cardinality(Prior(p)) < Cardinality(S)
  <2>1. p \notin Prior(p)
    BY <1>3
  <2>2. /\ Cardinality(Prior(p)) <= Cardinality(S)
        /\ Cardinality(S) = Cardinality(Prior(p)) => S = Prior(p)
    BY <1>0, <1>1, FS_Subset
  <2>3. QED
    BY <1>0, <1>1, <2>1, <2>2
<1>5. ASSUME NEW p \in S, NEW q \in S, Sooner(p, q)
      PROVE  Cardinality(Prior(p)) < Cardinality(Prior(q))
  <2>1. Prior(p) \subseteq Prior(q)
    BY <1>3, <1>5
  <2>2. p \in Prior(q) /\ p \notin Prior(p)
    BY <1>3, <1>5
  <2>3. /\ Cardinality(Prior(p)) <= Cardinality(Prior(q))
        /\ Cardinality(Prior(q)) = Cardinality(Prior(p)) => Prior(q) = Prior(p)
    BY <1>1, <2>1, FS_Subset
  <2>4. QED
    BY <1>1, <2>2, <2>3
<1> HIDE DEF Prior
<1>6. \A p \in S : Place(p, S) + 1 \in 1..Cardinality(S)
  BY <1>0, <1>1, <1>4
<1>7. ASSUME NEW p \in S, NEW q \in S, Place(p, S) = Place(q, S) PROVE p = q
  <2>1. SUFFICES ASSUME p # q PROVE FALSE
    OBVIOUS
  <2>2. Sooner(p, q) \/ Sooner(q, p)
    BY <1>3, <2>1
  <2>3. QED
    BY <1>1, <1>5, <1>7, <2>2
<1>8. QED
  BY <1>0, <1>6, <1>7

\* Each place of the line has one panel, and each panel a place.
LEMMA LineOfPanels ==
    ASSUME NEW S, NEW top \in Nat, PanelsBy(S, top)
    PROVE  /\ \A n \in 1..Cardinality(S) : Ordered(S)[n] \in S
           /\ \A p \in S : \E n \in 1..Cardinality(S) : Ordered(S)[n] = p
<1> DEFINE C == Cardinality(S)
           place == [p \in S |-> Place(p, S) + 1]
           Holds(p, n) == p \in S /\ Place(p, S) = n - 1
<1>0. IsFiniteSet(S) /\ C \in Nat
  BY FS_CardinalityType DEF PanelsBy
<1>1. place \in Injection(S, 1..C)
  <2>1. place \in [S -> 1..C]
    BY PlacesApart
  <2>2. \A p \in S : Place(p, S) \in Int
    BY <1>0, FS_Subset, FS_CardinalityType DEF Place
  <2>3. \A p, q \in S : place[p] = place[q] => p = q
    BY <2>2, PlacesApart
  <2>4. QED
    BY <2>1, <2>3 DEF Injection, IsInjective
<1>2. IsFiniteSet(1..C) /\ Cardinality(1..C) = C
  BY <1>0, FS_Interval
<1>3. place \in Surjection(S, 1..C)
  BY <1>0, <1>1, <1>2, FS_Injection
<1>4. ASSUME NEW n \in 1..C PROVE \E p \in S : Holds(p, n)
  <2>1. PICK p \in S : place[p] = n
    BY <1>3 DEF Surjection
  <2>2. Place(p, S) \in Int
    BY <1>0, FS_Subset, FS_CardinalityType DEF Place
  <2>3. QED
    BY <2>1, <2>2
<1>5. ASSUME NEW n \in 1..C PROVE Holds(Ordered(S)[n], n)
  <2>1. Ordered(S)[n] = CHOOSE p \in S : Place(p, S) = n - 1
    BY DEF Ordered, Place
  <2>2. \E p \in S : Place(p, S) = n - 1
    BY <1>4
  <2>3. QED
    BY <2>1, <2>2
<1>6. ASSUME NEW p \in S PROVE \E n \in 1..C : Ordered(S)[n] = p
  <2>1. Place(p, S) \in Int /\ Place(p, S) + 1 \in 1..C
    BY <1>0, PlacesApart, FS_Subset, FS_CardinalityType DEF Place
  <2>2. Holds(Ordered(S)[Place(p, S) + 1], Place(p, S) + 1)
    BY <1>5, <2>1
  <2>3. Ordered(S)[Place(p, S) + 1] = p
    BY <2>1, <2>2, PlacesApart
  <2>4. QED
    BY <2>1, <2>3
<1>7. QED
  BY <1>5, <1>6

-----------------------------------------------------------------------------
(* The replay exists, one panel after the other.                             *)

Advancing(t, S, market, top) ==
    t = [n \in 0..top |->
           IF n = 0 THEN NewAccount ELSE AdvanceAccount(t[n - 1], Ordered(S)[n], market)]

LEMMA AdvancingExists ==
    ASSUME NEW S, NEW market, NEW top \in Nat PROVE \E t : Advancing(t, S, market, top)
<1> DEFINE Body(t, n) ==
             IF n = 0 THEN NewAccount ELSE AdvanceAccount(t[n - 1], Ordered(S)[n], market)
           Reached(m) == \E t : t = [n \in 0..m |-> Body(t, n)]
           Missing == {m \in Nat : ~Reached(m)}
<1>1. SUFFICES Missing = {}
  BY DEF Missing, Advancing
<1>2. SUFFICES ASSUME Missing # {} PROVE FALSE
  OBVIOUS
<1>3. PICK m \in Missing : \A k \in Missing : m <= k
  BY <1>2, LeastNat
<1>4. m \in Nat /\ ~Reached(m)
  BY <1>3
<1>5. CASE m = 0
  <2> DEFINE t == [n \in 0..m |-> NewAccount]
  <2>1. \A n \in 0..m : Body(t, n) = NewAccount
    BY <1>5
  <2>2. t = [n \in 0..m |-> Body(t, n)]
    BY <2>1
  <2>3. QED
    BY <1>4, <2>2
<1>6. CASE m # 0
  <2>1. m - 1 \in Nat /\ m - 1 \notin Missing
    <3> HIDE DEF Missing
    <3>1. QED
      BY <1>3, <1>4, <1>6
  <2>2. PICK s : s = [n \in 0..(m - 1) |-> Body(s, n)]
    BY <2>1
  <2> DEFINE t == [n \in 0..m |-> Body(s, n)]
  <2>3. \A n \in 0..(m - 1) : t[n] = s[n]
    <3> HIDE DEF Body
    <3>1. QED
      BY <1>4, <2>1, <2>2
  <2>4. ASSUME NEW n \in 0..m PROVE Body(t, n) = Body(s, n)
    <3>1. n # 0 => n - 1 \in 0..(m - 1) /\ t[n - 1] = s[n - 1]
      <4> HIDE DEF t
      <4>1. QED
        BY <1>4, <2>3
    <3>2. QED
      BY <3>1
  <2>5. t = [n \in 0..m |-> Body(t, n)]
    BY <2>4
  <2>6. QED
    BY <1>4, <2>5
<1>7. QED
  BY <1>5, <1>6

\* The account after each panel.
LEMMA AdvancedBySteps ==
    ASSUME NEW S, NEW market, Cardinality(S) \in Nat
    PROVE  \E a : /\ Advanced(S, market) = a[Cardinality(S)]
                  /\ a[0] = NewAccount
                  /\ \A n \in 1..Cardinality(S) :
                        a[n] = AdvanceAccount(a[n - 1], Ordered(S)[n], market)
<1> DEFINE C == Cardinality(S)
           a == CHOOSE t : Advancing(t, S, market, C)
<1>1. Advancing(a, S, market, C)
  <2>1. \E t : Advancing(t, S, market, C)
    BY AdvancingExists
  <2>2. QED
    BY <2>1
<1>2. Advanced(S, market) = a[C]
  BY DEF Advanced, Advancing
<1> HIDE DEF a, C
<1>3. a = [n \in 0..C |->
             IF n = 0 THEN NewAccount ELSE AdvanceAccount(a[n - 1], Ordered(S)[n], market)]
  BY <1>1 DEF Advancing
<1>4. C \in Nat
  BY DEF C
<1>5. a[0] = NewAccount
  BY <1>3, <1>4
<1>6. \A n \in 1..C : a[n] = AdvanceAccount(a[n - 1], Ordered(S)[n], market)
  <2>1. TAKE n \in 1..C
  <2>2. n \in 0..C /\ n # 0
    BY <1>4
  <2>3. QED
    BY <1>3, <2>2
<1>7. QED
  BY <1>2, <1>5, <1>6 DEF C

-----------------------------------------------------------------------------
(* A replay of the past does not see what the market tells later.            *)

AgreesUntil(m, k, top) ==
    \A at \in 0..top :
        /\ at \in m.quoted <=> at \in k.quoted
        /\ \A t : t \in DOMAIN m.settled /\ m.settled[t] <= at
                  <=> t \in DOMAIN k.settled /\ k.settled[t] <= at

LEMMA ChargesAgree ==
    ASSUME NEW m, NEW k, NEW top \in Nat, AgreesUntil(m, k, top),
           NEW account, NEW at \in 0..top
    PROVE  Charge(account, at, m) = Charge(account, at, k)
<1>1. FundingsSeen(account, at, m) = FundingsSeen(account, at, k)
  BY DEF FundingsSeen, AgreesUntil
<1>2. QED
  BY <1>1 DEF Charge

LEMMA AdvanceAgrees ==
    ASSUME NEW m, NEW k, NEW top \in Nat, AgreesUntil(m, k, top),
           NEW account, NEW panel, panel.at \in 0..top
    PROVE  AdvanceAccount(account, panel, m) = AdvanceAccount(account, panel, k)
<1>1. Charge(account, panel.at, m) = Charge(account, panel.at, k)
  BY ChargesAgree
<1>2. panel.at \in m.quoted <=> panel.at \in k.quoted
  BY DEF AgreesUntil
<1>3. QED
  BY <1>1, <1>2 DEF AdvanceAccount

LEMMA LiquidateAgrees ==
    ASSUME NEW m, NEW k, NEW top \in Nat, AgreesUntil(m, k, top),
           NEW account, NEW at \in 0..top
    PROVE  Liquidate(account, at, m) = Liquidate(account, at, k)
<1>1. Charge(account, at, m) = Charge(account, at, k)
  BY ChargesAgree
<1>2. at \in m.quoted <=> at \in k.quoted
  BY DEF AgreesUntil
<1>3. QED
  BY <1>1, <1>2 DEF Liquidate

LEMMA AdvancedAgrees ==
    ASSUME NEW m, NEW k, NEW top \in Nat, AgreesUntil(m, k, top),
           NEW S, PanelsBy(S, top)
    PROVE  Advanced(S, m) = Advanced(S, k)
<1> DEFINE C == Cardinality(S)
<1>0. C \in Nat
  BY FS_CardinalityType DEF PanelsBy
<1>1. PICK a : /\ Advanced(S, m) = a[C] /\ a[0] = NewAccount
               /\ \A n \in 1..C : a[n] = AdvanceAccount(a[n - 1], Ordered(S)[n], m)
  BY <1>0, AdvancedBySteps
<1>2. PICK b : /\ Advanced(S, k) = b[C] /\ b[0] = NewAccount
               /\ \A n \in 1..C : b[n] = AdvanceAccount(b[n - 1], Ordered(S)[n], k)
  BY <1>0, AdvancedBySteps
<1> HIDE DEF C
<1>3. \A n \in 0..C : a[n] = b[n]
  <2> DEFINE Apart == {n \in 0..C : a[n] # b[n]}
  <2>1. SUFFICES ASSUME Apart # {} PROVE FALSE
    OBVIOUS
  <2>2. PICK n \in Apart : \A j \in Apart : n <= j
    <3>1. Apart \subseteq Nat
      BY <1>0
    <3> HIDE DEF Apart
    <3>2. QED
      BY <2>1, <3>1, LeastNat
  <2>3. n \in 0..C /\ a[n] # b[n]
    BY <2>2
  <2>4. n # 0
    BY <1>1, <1>2, <2>3
  <2>5. n - 1 \in 0..C /\ n \in 1..C /\ n - 1 \notin Apart
    <3> HIDE DEF Apart
    <3>1. QED
      BY <1>0, <2>2, <2>3, <2>4
  <2>6. a[n - 1] = b[n - 1]
    BY <2>5
  <2>7. Ordered(S)[n].at \in 0..top
    BY <2>5, LineOfPanels DEF PanelsBy, C
  <2>8. AdvanceAccount(a[n - 1], Ordered(S)[n], m) = AdvanceAccount(b[n - 1], Ordered(S)[n], k)
    BY <2>6, <2>7, AdvanceAgrees
  <2>9. QED
    BY <1>1, <1>2, <2>3, <2>5, <2>8
<1>4. QED
  BY <1>0, <1>1, <1>2, <1>3

LEMMA PathAgrees ==
    ASSUME NEW m, NEW k, NEW top \in Nat, AgreesUntil(m, k, top),
           NEW S, PanelsBy(S, top), NEW at \in 0..top
    PROVE  Path(S, at, m) = Path(S, at, k)
<1>1. Advanced(S, m) = Advanced(S, k)
  BY AdvancedAgrees
<1>2. Liquidate(Advanced(S, m), at, m) = Liquidate(Advanced(S, m), at, k)
  BY LiquidateAgrees
<1>3. QED
  BY <1>1, <1>2 DEF Path
-----------------------------------------------------------------------------
(* A path that stayed open took all its panels and ends at the mark.         *)

Stepped(a, n, S) ==
    /\ a = [at |-> a.at, since |-> a.since, hold |-> a.hold, charged |-> a.charged,
            steps |-> a.steps, state |-> "open"]
    /\ a.at = IF n = 0 THEN Never ELSE Ordered(S)[n].at
    /\ a.steps \in Seq(Slots) /\ Len(a.steps) = n
    /\ \A i \in 1..n : a.steps[i] = Ordered(S)[i].slot

Refused(a) == a.state \in {"input", "refused"}

LEMMA StepIsTaken ==
    ASSUME NEW S, NEW market, NEW a, NEW n \in Nat \ {0}, Stepped(a, n - 1, S),
           Ordered(S)[n].slot \in Slots
    PROVE  LET b == AdvanceAccount(a, Ordered(S)[n], market)
           IN  Stepped(b, n, S) \/ Refused(b)
<1> DEFINE panel == Ordered(S)[n]
           b == AdvanceAccount(a, panel, market)
           silent == \A c \in DOMAIN panel.kinds : panel.kinds[c] = "none"
<1>1. /\ [a EXCEPT !.state = "refused"].state = "refused"
      /\ [a EXCEPT !.state = "input"].state = "input"
      /\ a.state = "open"
  BY DEF Stepped
<1>2. \/ Refused(b)
      \/ b = [at |-> panel.at, since |-> panel.at, hold |-> HeldAfter(a, panel),
              charged |-> Charge(a, panel.at, market),
              steps |-> Append(a.steps, panel.slot), state |-> "open"]
  <2>1. CASE panel.at >= EvaluationAt(panel) /\ ~silent
    BY <1>1, <2>1 DEF AdvanceAccount, Refused
  <2>2. CASE /\ ~(panel.at >= EvaluationAt(panel) /\ ~silent)
             /\ panel.at \notin market.quoted /\ ~(silent /\ DOMAIN a.hold = {})
    BY <1>1, <2>2 DEF AdvanceAccount, Refused
  <2>3. CASE /\ ~(panel.at >= EvaluationAt(panel) /\ ~silent)
             /\ ~(panel.at \notin market.quoted /\ ~(silent /\ DOMAIN a.hold = {}))
             /\ panel.at <= a.at
    BY <1>1, <2>3 DEF AdvanceAccount, Refused
  <2>4. CASE /\ ~(panel.at >= EvaluationAt(panel) /\ ~silent)
             /\ ~(panel.at \notin market.quoted /\ ~(silent /\ DOMAIN a.hold = {}))
             /\ ~(panel.at <= a.at)
    BY <1>1, <2>4 DEF AdvanceAccount
  <2>5. QED
    BY <2>1, <2>2, <2>3, <2>4
<1> HIDE DEF b
<1>3. CASE b = [at |-> panel.at, since |-> panel.at, hold |-> HeldAfter(a, panel),
                charged |-> Charge(a, panel.at, market),
                steps |-> Append(a.steps, panel.slot), state |-> "open"]
  <2>3. /\ b.steps = Append(a.steps, panel.slot) /\ b.at = panel.at /\ b.state = "open"
        /\ b = [at |-> b.at, since |-> b.since, hold |-> b.hold, charged |-> b.charged,
                steps |-> b.steps, state |-> "open"]
    BY <1>3
  <2>4. /\ a.steps \in Seq(Slots) /\ Len(a.steps) = n - 1
        /\ \A i \in 1..(n - 1) : a.steps[i] = Ordered(S)[i].slot
    BY DEF Stepped
  <2>5. b.steps \in Seq(Slots) /\ Len(b.steps) = n
    BY <2>3, <2>4
  <2>6. ASSUME NEW i \in 1..n PROVE b.steps[i] = Ordered(S)[i].slot
    <3>1. CASE i = n
      BY <2>3, <2>4, <3>1
    <3>2. CASE i # n
      BY <2>3, <2>4, <3>2
    <3>3. QED
      BY <3>1, <3>2
  <2>7. Stepped(b, n, S)
    BY <2>3, <2>5, <2>6 DEF Stepped
  <2>8. QED
    BY <2>7 DEF b
<1>4. QED
  BY <1>2, <1>3 DEF b

LEMMA AccountIsFine ==
    ASSUME NEW S, NEW market, NEW top \in Nat, PanelsBy(S, top)
    PROVE  Stepped(Advanced(S, market), Cardinality(S), S) \/ Refused(Advanced(S, market))
<1> DEFINE C == Cardinality(S)
<1>0. C \in Nat
  BY FS_CardinalityType DEF PanelsBy
<1>1. PICK a : /\ Advanced(S, market) = a[C] /\ a[0] = NewAccount
               /\ \A n \in 1..C : a[n] = AdvanceAccount(a[n - 1], Ordered(S)[n], market)
  BY <1>0, AdvancedBySteps
<1>2. \A n \in 1..C : Ordered(S)[n].slot \in Slots
  BY LineOfPanels DEF PanelsBy
<1> HIDE DEF C
<1>3. \A n \in 0..C : Stepped(a[n], n, S) \/ Refused(a[n])
  <2> DEFINE Amiss == {n \in 0..C : ~(Stepped(a[n], n, S) \/ Refused(a[n]))}
  <2>1. SUFFICES ASSUME Amiss # {} PROVE FALSE
    OBVIOUS
  <2>2. PICK n \in Amiss : \A j \in Amiss : n <= j
    <3>1. Amiss \subseteq Nat
      BY <1>0
    <3> HIDE DEF Amiss
    <3>2. QED
      BY <2>1, <3>1, LeastNat
  <2>3. n \in 0..C /\ ~(Stepped(a[n], n, S) \/ Refused(a[n]))
    BY <2>2
  <2>4. n # 0
    <3>1. Stepped(NewAccount, 0, S)
      BY DEF Stepped, NewAccount
    <3>2. QED
      BY <1>1, <2>3, <3>1
  <2>5. n - 1 \in 0..C /\ n \in 1..C /\ n - 1 \notin Amiss
    <3> HIDE DEF Amiss
    <3>1. QED
      BY <1>0, <2>2, <2>3, <2>4
  <2>6. a[n] = AdvanceAccount(a[n - 1], Ordered(S)[n], market)
    BY <1>1, <2>5
  <2>7. CASE Refused(a[n - 1])
    <3>1. a[n] = a[n - 1]
      BY <2>6, <2>7 DEF AdvanceAccount, Refused
    <3>2. QED
      BY <2>3, <2>7, <3>1
  <2>8. CASE Stepped(a[n - 1], n - 1, S)
    <3>1. n \in Nat \ {0} /\ Ordered(S)[n].slot \in Slots
      BY <1>0, <1>2, <2>3, <2>4, <2>5
    <3> HIDE DEF Amiss
    <3>2. QED
      BY <2>3, <2>6, <2>8, <3>1, StepIsTaken
  <2>9. QED
    BY <2>5, <2>7, <2>8
<1>4. QED
  BY <1>0, <1>1, <1>3 DEF C

LEMMA OpenAccount ==
    ASSUME NEW S, NEW market, NEW top \in Nat, PanelsBy(S, top),
           Advanced(S, market).state = "open"
    PROVE  Stepped(Advanced(S, market), Cardinality(S), S)
<1>1. Stepped(Advanced(S, market), Cardinality(S), S) \/ Refused(Advanced(S, market))
  BY AccountIsFine
<1>2. QED
  BY <1>1 DEF Refused

\* A path is open, or lacks an input or was refused.
LEMMA PathStates ==
    ASSUME NEW S, NEW market, NEW top \in Nat, PanelsBy(S, top), NEW at
    PROVE  Path(S, at, market).state \in {"open", "input", "refused"}
<1> DEFINE a == Advanced(S, market)
<1>1. CASE Refused(a)
  BY <1>1 DEF Path, Refused
<1>2. CASE Stepped(a, Cardinality(S), S)
  <2>1. /\ [a EXCEPT !.state = "refused"].state = "refused"
        /\ [a EXCEPT !.state = "input"].state = "input"
        /\ a.state = "open"
        /\ [a EXCEPT !.at = at, !.since = at, !.hold = << >>,
                     !.charged = Charge(a, at, market)].state = "open"
    BY <1>2 DEF Stepped
  <2>2. Liquidate(a, at, market).state \in {"open", "input"}
    BY <2>1 DEF Liquidate
  <2>3. QED
    BY <2>1, <2>2 DEF Path
<1>3. QED
  BY <1>1, <1>2, AccountIsFine

LEMMA OpenPath ==
    ASSUME NEW S, NEW market, NEW top \in Nat, PanelsBy(S, top), NEW at \in 0..top,
           Path(S, at, market).state = "open"
    PROVE  /\ Path(S, at, market).at = at
           /\ Range(Path(S, at, market).steps) = SlotsTaken(S)
           /\ \/ Path(S, at, market).hold = << >>
              \/ TookItsEnd(Path(S, at, market), S)
<1> DEFINE C == Cardinality(S)
           a == Advanced(S, market)
           p == Path(S, at, market)
<1>0. C \in Nat /\ at \in Nat /\ (C = 0 <=> S = {})
  BY FS_CardinalityType, FS_EmptySet DEF PanelsBy
<1>1. a.state = "open" /\ p # [a EXCEPT !.state = "refused"]
  <2>1. a.state = "open"
    BY DEF Path
  <2>2. Stepped(a, C, S)
    BY <2>1, OpenAccount
  <2>3. [a EXCEPT !.state = "refused"].state = "refused"
    BY <2>2 DEF Stepped
  <2>4. QED
    BY <2>1, <2>3
<1>2. Stepped(a, C, S)
  BY <1>1, OpenAccount
<1>3. /\ S # {} => ~(at < Ordered(S)[C].at)
      /\ p = Liquidate(a, at, market)
  <2>1. ~(S # {} /\ at < Ordered(S)[C].at)
    BY <1>1 DEF Path
  <2>2. QED
    BY <1>1, <2>1 DEF Path
<1>4. C # 0 => Ordered(S)[C] \in S /\ Ordered(S)[C].at \in 0..top
  BY <1>0, LineOfPanels DEF PanelsBy
<1>5. /\ a.at = IF C = 0 THEN Never ELSE Ordered(S)[C].at
      /\ a.steps \in Seq(Slots) /\ Len(a.steps) = C
      /\ \A i \in 1..C : a.steps[i] = Ordered(S)[i].slot
      /\ [a EXCEPT !.state = "input"].state = "input"
  BY <1>2 DEF Stepped
<1> HIDE DEF a, p
<1>6. a.at <= at /\ a.at \in Int
  BY <1>0, <1>3, <1>4, <1>5 DEF Never
<1>7. p.state = "open"
  BY DEF p
<1>8. \/ p = a /\ a.at = at /\ C # 0
      \/ p = [a EXCEPT !.at = at, !.since = at, !.hold = << >>,
                       !.charged = Charge(a, at, market)]
  <2>1. CASE a.at >= at
    <3>1. a.at = at
      BY <1>0, <1>6, <2>1
    <3>2. C # 0
      BY <1>0, <1>5, <3>1 DEF Never
    <3>3. QED
      BY <1>3, <2>1, <3>1, <3>2 DEF Liquidate
  <2>2. CASE ~(a.at >= at)
    <3>1. ~(DOMAIN a.hold # {} /\ at \notin market.quoted)
      BY <1>3, <1>5, <1>7, <2>2 DEF Liquidate
    <3>2. QED
      BY <1>3, <2>2, <3>1 DEF Liquidate
  <2>3. QED
    BY <2>1, <2>2
<1>9. p.at = at /\ p.steps = a.steps /\ (p.hold = << >> \/ (C # 0 /\ a.at = at))
  <2>1. CASE p = a /\ a.at = at /\ C # 0
    BY <2>1
  <2>2. CASE p = [a EXCEPT !.at = at, !.since = at, !.hold = << >>,
                           !.charged = Charge(a, at, market)]
    BY <1>2, <2>2 DEF Stepped
  <2>3. QED
    BY <1>8, <2>1, <2>2
<1>10. Range(p.steps) = SlotsTaken(S)
  <2>1. DOMAIN a.steps = 1..C
    BY <1>5
  <2>2. Range(a.steps) = {a.steps[i] : i \in 1..C}
    BY <2>1 DEF Range
  <2>3. ASSUME NEW s \in Range(a.steps) PROVE s \in SlotsTaken(S)
    <3>1. PICK i \in 1..C : s = a.steps[i]
      BY <2>2
    <3>2. Ordered(S)[i] \in S /\ s = Ordered(S)[i].slot
      BY <1>5, <3>1, LineOfPanels
    <3>3. QED
      BY <3>2 DEF SlotsTaken
  <2>4. ASSUME NEW s \in SlotsTaken(S) PROVE s \in Range(a.steps)
    <3>1. PICK q \in S : s = q.slot
      BY DEF SlotsTaken
    <3>2. PICK i \in 1..C : Ordered(S)[i] = q
      BY LineOfPanels
    <3>3. QED
      BY <1>5, <2>2, <3>1, <3>2
  <2>5. QED
    BY <1>9, <2>3, <2>4
<1>11. ASSUME C # 0, a.at = at PROVE TookItsEnd(p, S)
  <2>1. Ordered(S)[C] \in S /\ Ordered(S)[C].at = p.at
    BY <1>4, <1>5, <1>9, <1>11
  <2>2. Ordered(S)[C].slot = p.steps[Len(p.steps)]
    BY <1>0, <1>5, <1>9, <1>11
  <2>3. QED
    BY <2>1, <2>2 DEF TookItsEnd
<1>12. QED
  BY <1>9, <1>10, <1>11 DEF p
-----------------------------------------------------------------------------
(* The panels a reader compares are of the past, one for each slot.          *)

LEMMA LastOfMany ==
    ASSUME NEW T, T # {}, NEW top \in Nat, T \subseteq 0..top
    PROVE  /\ (CHOOSE t \in T : \A u \in T : u <= t) \in T
           /\ \A u \in T : u <= (CHOOSE t \in T : \A v \in T : v <= t)
<1> DEFINE Left == {top - t : t \in T}
<1>1. Left \in SUBSET Nat /\ Left # {}
  <2>1. \A t \in T : t \in 0..top
    OBVIOUS
  <2>2. \A t \in 0..top : top - t \in Nat
    OBVIOUS
  <2>3. QED
    BY <2>1, <2>2
<1>2. PICK m \in Left : \A n \in Left : m <= n
  BY <1>1, LeastNat
<1>3. PICK t \in T : m = top - t
  BY <1>2
<1>4. \A u \in T : u <= t
  <2>1. TAKE u \in T
  <2>2. top - u \in Left
    OBVIOUS
  <2>3. top - t <= top - u
    BY <1>2, <1>3, <2>2
  <2>4. t \in 0..top /\ u \in 0..top
    OBVIOUS
  <2>5. QED
    BY <2>3, <2>4
<1>5. QED
  BY <1>4

LEMMA FewerPanels ==
    ASSUME NEW S, NEW at, PanelsBy(S, at), NEW R, R \subseteq S
    PROVE  PanelsBy(R, at)
<1>1. IsFiniteSet(R)
  BY FS_Subset DEF PanelsBy
<1>2. QED
  BY <1>1 DEF PanelsBy

LEMMA AsManySlots ==
    ASSUME NEW S, NEW at, PanelsBy(S, at)
    PROVE  IsFiniteSet(SlotsTaken(S)) /\ Cardinality(SlotsTaken(S)) = Cardinality(S)
<1> DEFINE f == [p \in S |-> p.slot]
<1>1. f \in Bijection(S, SlotsTaken(S))
  <2>1. f \in [S -> SlotsTaken(S)]
    BY DEF SlotsTaken
  <2>2. \A p, q \in S : f[p] = f[q] => p = q
    BY DEF PanelsBy
  <2>3. \A s \in SlotsTaken(S) : \E p \in S : f[p] = s
    BY DEF SlotsTaken
  <2>4. QED
    BY <2>1, <2>2, <2>3 DEF Bijection, Injection, Surjection, IsInjective
<1>2. IsFiniteSet(S)
  BY DEF PanelsBy
<1>3. QED
  BY <1>1, <1>2, FS_Bijection DEF ExistsBijection

LEMMA LatestIsPast ==
    ASSUME NEW S, NEW top \in Nat, PanelsBy(S, top), S # {},
           \A p \in S : EvaluationAt(p) <= top
    PROVE  Latest(S) \in 0..top
<1> DEFINE ends == {EvaluationAt(p) : p \in S}
<1>1. \A p \in S : EvaluationAt(p) \in 0..top
  <2>1. TAKE p \in S
  <2>2. p.slot \in Slots
    BY DEF PanelsBy
  <2>3. SlotAt[p.slot] \in Nat /\ Horizon \in Nat
    BY <2>2, IncrementAssumption
  <2>4. EvaluationAt(p) \in Nat
    BY <2>3 DEF EvaluationAt
  <2>5. QED
    BY <2>4
<1>2. ends # {} /\ ends \subseteq 0..top
  BY <1>1
<1>3. Latest(S) = CHOOSE t \in ends : \A u \in ends : u <= t
  BY DEF Latest
<1> HIDE DEF ends
<1>4. QED
  BY <1>2, <1>3, LastOfMany

LEMMA PanelIsPast ==
    ASSUME IncrementInvariant, NEW p \in Producers, NEW s \in Slots,
           \E c \in Contracts[s] : Ended(p, s, c)
    PROVE  PanelOf(p, s).slot = s /\ PanelOf(p, s).at \in 0..instant
<1> DEFINE asked == {c \in Contracts[s] : answers[p][<<s, c>>] # Unasked}
           times == {answers[p][<<s, c>>].at : c \in asked}
<1>0. instant \in Nat
  BY DEF IncrementInvariant, IncrementTypeOK
<1>1. \A c \in Contracts[s] : answers[p][<<s, c>>].at \in 0..instant
  <2>1. TAKE c \in Contracts[s]
  <2>2. <<s, c>> \in Cells
    BY DEF Cells
  <2>3. answers[p][<<s, c>>].at \in 0..LastInstant /\ answers[p][<<s, c>>].at <= instant
    BY <2>2 DEF IncrementInvariant, IncrementTypeOK
  <2>4. QED
    BY <1>0, <2>3
<1>2. asked # {}
  <2>1. PICK c \in Contracts[s] : Ended(p, s, c)
    OBVIOUS
  <2>2. answers[p][<<s, c>>] # Unasked
    BY <2>1 DEF Ended, Unasked, Terminals, Forecasts
  <2>3. QED
    BY <2>2
<1>3. times # {} /\ times \subseteq 0..instant
  BY <1>1, <1>2
<1>4. (CHOOSE t \in times : \A u \in times : u <= t) \in times
  <2> HIDE DEF times
  <2>1. QED
    BY <1>0, <1>3, LastOfMany
<1>5. /\ PanelOf(p, s).at = CHOOSE t \in times : \A u \in times : u <= t
      /\ PanelOf(p, s).slot = s
  BY DEF PanelOf
<1>6. QED
  BY <1>3, <1>4, <1>5

LEMMA PanelsArePast ==
    ASSUME IncrementInvariant, NEW p \in Producers
    PROVE  PanelsBy(CompletePanels(p), instant)
<1> DEFINE T == {t \in Slots : (\E c \in Contracts[t] : Ended(p, t, c)) /\ Open(p, t) = {}}
           f == [s \in T |-> PanelOf(p, s)]
<1>1. \A s \in T : PanelOf(p, s).slot = s /\ PanelOf(p, s).at \in 0..instant
  BY PanelIsPast
<1>2. CompletePanels(p) = {PanelOf(p, s) : s \in T}
  BY DEF CompletePanels
<1>3. IsFiniteSet(T)
  BY IncrementAssumption, FS_Subset
<1>4. T \subseteq Slots
  OBVIOUS
<1> HIDE DEF T
<1>5. f \in Surjection(T, CompletePanels(p))
  BY <1>2 DEF Surjection
<1>6. IsFiniteSet(CompletePanels(p))
  BY <1>3, <1>5, FS_Surjection
<1>7. \A q \in CompletePanels(p) : /\ q.slot \in T /\ q.at \in 0..instant
                                  /\ q = PanelOf(p, q.slot)
  BY <1>1, <1>2
<1>8. QED
  BY <1>4, <1>6, <1>7 DEF PanelsBy

-----------------------------------------------------------------------------
(* What is computed under a key is what a replay of the key gives.           *)

BothOpen(paths) == \A i \in 1..2 : paths[i].state = "open"

IsReplay(c, computed) ==
    /\ computed.evidence = Replayed(c, computed.key, Market)
    /\ KeyIsOfThePast(c, computed.key, instant)
    /\ BothOpen(computed.evidence)

LEMMA ComparedIsOpen ==
    ASSUME NEW key, NEW p, NEW q,
           p.state \in {"open", "input", "refused"}, q.state \in {"open", "input", "refused"},
           Compared(key, <<p, q>>).status = "EVIDENCE_AVAILABLE"
    PROVE  /\ Compared(key, <<p, q>>).key = key
           /\ Compared(key, <<p, q>>).evidence = <<p, q>>
           /\ BothOpen(<<p, q>>)
<1> DEFINE paths == <<p, q>>
           states == {paths[i].state : i \in DOMAIN paths}
<1>1. p.state \in states /\ q.state \in states
  OBVIOUS
<1>2. "input" \notin states /\ "refused" \notin states
  BY DEF Compared, Empty, Answer
<1>3. p.state = "open" /\ q.state = "open"
  BY <1>1, <1>2
<1>4. Compared(key, paths) = Answer("EVIDENCE_AVAILABLE", key, paths)
  BY <1>2 DEF Compared
<1>5. BothOpen(paths)
  BY <1>3 DEF BothOpen
<1>6. QED
  BY <1>4, <1>5 DEF Answer

LEMMA IncrementIsReplay ==
    ASSUME IncrementInvariant, ReadIncrement.status = "EVIDENCE_AVAILABLE"
    PROVE  IsReplay("increment", ReadIncrement)
<1> DEFINE cadence == PanelsForStratum(CompletePanels("posterior"), "cadence")
           candidate == EndedPanels(cadence)
           answered == PanelsForStratum(CompletePanels("prior"), "cadence")
           comparator == CommonPanels(candidate, answered)
           end == Latest(candidate)
           p == Path(candidate, end, Market)
           q == Path(comparator, end, Market)
           key == <<candidate, comparator>>
<1>0. instant \in Nat /\ "posterior" \in Producers /\ "prior" \in Producers
  BY DEF IncrementInvariant, IncrementTypeOK, Producers
<1>1. PanelsBy(candidate, instant) /\ \A r \in candidate : EvaluationAt(r) <= instant
  <2>1. candidate \subseteq CompletePanels("posterior")
    BY DEF EndedPanels, PanelsForStratum
  <2>2. PanelsBy(CompletePanels("posterior"), instant)
    BY <1>0, PanelsArePast
  <2>3. QED
    BY <2>1, <2>2, FewerPanels DEF EndedPanels
<1>2. PanelsBy(comparator, instant)
  <2>1. comparator \subseteq CompletePanels("prior")
    BY DEF CommonPanels, PanelsForStratum
  <2>2. PanelsBy(CompletePanels("prior"), instant)
    BY <1>0, PanelsArePast
  <2>3. QED
    BY <2>1, <2>2, FewerPanels
<1>3. SlotsTaken(comparator) \subseteq SlotsTaken(candidate)
  BY DEF SlotsTaken, CommonPanels
<1>4. /\ cadence # {} /\ candidate # {} /\ Cardinality(comparator) = Cardinality(candidate)
      /\ ReadIncrement = Compared(key, <<p, q>>)
  BY DEF ReadIncrement, PanelKey, Empty, Answer
<1> HIDE DEF candidate, comparator, cadence, answered
<1>5. end \in 0..instant
  BY <1>0, <1>1, <1>4, LatestIsPast
<1>6. SlotsTaken(candidate) = SlotsTaken(comparator)
  <2>1. /\ IsFiniteSet(SlotsTaken(candidate))
        /\ Cardinality(SlotsTaken(candidate)) = Cardinality(SlotsTaken(comparator))
    BY <1>1, <1>2, <1>4, AsManySlots
  <2>2. QED
    BY <1>3, <2>1, FS_Subset
<1>7. p.state \in {"open", "input", "refused"} /\ q.state \in {"open", "input", "refused"}
  BY <1>0, <1>1, <1>2, PathStates
<1> DEFINE computed == ReadIncrement
<1>8. computed.key = key /\ computed.evidence = <<p, q>> /\ BothOpen(<<p, q>>)
  <2> HIDE DEF p, q, key
  <2>1. QED
    BY <1>4, <1>7, ComparedIsOpen
<1>9. Replayed("increment", key, Market) = <<p, q>>
  BY DEF Replayed
<1>10. KeyIsOfThePast("increment", key, instant)
  BY <1>1, <1>2, <1>5, <1>6 DEF KeyIsOfThePast
<1> HIDE DEF p, q, key
<1>11. QED
  BY <1>8, <1>9, <1>10 DEF IsReplay

LEMMA ResponseIsReplay ==
    ASSUME IncrementInvariant, ReadEventResponse.status = "EVIDENCE_AVAILABLE"
    PROVE  IsReplay("response", ReadEventResponse)
<1> DEFINE known == CompletePanels("posterior")
           material == PanelsForStratum(known, "material")
           ends == EndedPanels(material)
           all == {p \in known : p.at <= Latest(ends)}
           cadence == PanelsForStratum(all, "cadence")
           end == Latest(ends)
           p == Path(all, end, Market)
           q == Path(cadence, end, Market)
           key == <<end, all>>
<1>0. instant \in Nat
  BY DEF IncrementInvariant, IncrementTypeOK
<1>1. PanelsBy(known, instant)
  BY PanelsArePast DEF Producers
<1>2. /\ ends \subseteq known /\ all \subseteq known /\ cadence \subseteq known
      /\ \A r \in ends : EvaluationAt(r) <= instant
  BY DEF EndedPanels, PanelsForStratum
<1>3. ends # {} /\ ReadEventResponse = Compared(key, <<p, q>>)
  BY DEF ReadEventResponse, Empty, Answer
<1>4. PanelsBy(ends, instant) /\ PanelsBy(all, instant) /\ PanelsBy(cadence, instant)
  <2> HIDE DEF ends, all, cadence, known
  <2>1. QED
    BY <1>1, <1>2, FewerPanels
<1>5. end \in 0..instant
  <2> HIDE DEF ends
  <2>1. QED
    BY <1>0, <1>2, <1>3, <1>4, LatestIsPast
<1>6. p.state \in {"open", "input", "refused"} /\ q.state \in {"open", "input", "refused"}
  <2> HIDE DEF all, cadence, ends
  <2>1. QED
    BY <1>0, <1>4, PathStates
<1>7. Replayed("response", key, Market) = <<p, q>>
  BY DEF Replayed
<1>8. KeyIsOfThePast("response", key, instant)
  <2> HIDE DEF all, end
  <2>1. QED
    BY <1>4, <1>5 DEF KeyIsOfThePast
<1> DEFINE computed == ReadEventResponse
<1> HIDE DEF p, q, key
<1>9. computed.key = key /\ computed.evidence = <<p, q>> /\ BothOpen(<<p, q>>)
  BY <1>3, <1>6, ComparedIsOpen
<1>10. QED
  BY <1>7, <1>8, <1>9 DEF IsReplay

LEMMA ComputedIsReplay ==
    ASSUME IncrementInvariant, NEW c \in {"increment", "response"},
           Computed(c).status = "EVIDENCE_AVAILABLE"
    PROVE  IsReplay(c, Computed(c))
<1>1. CASE c = "increment"
  BY <1>1, IncrementIsReplay DEF Computed
<1>2. CASE c = "response"
  BY <1>2, ResponseIsReplay DEF Computed
<1>3. QED
  BY <1>1, <1>2

-----------------------------------------------------------------------------
(* What is kept stays what a replay gives.                                   *)

LEMMA PastIsPast ==
    ASSUME NEW c, NEW key, NEW at \in Nat, NEW later \in Nat, at <= later,
           KeyIsOfThePast(c, key, at)
    PROVE  KeyIsOfThePast(c, key, later)
<1>1. \A n \in 0..at : n \in 0..later
  OBVIOUS
<1>2. \A S : PanelsBy(S, at) => PanelsBy(S, later)
  BY <1>1 DEF PanelsBy
<1>3. QED
  BY <1>1, <1>2 DEF KeyIsOfThePast

LEMMA ReplayAgrees ==
    ASSUME NEW m, NEW k, NEW at \in Nat, AgreesUntil(m, k, at),
           NEW c \in {"increment", "response"}, NEW key, KeyIsOfThePast(c, key, at)
    PROVE  Replayed(c, key, m) = Replayed(c, key, k)
<1>1. PanelsBy(key[2], at)
  BY DEF KeyIsOfThePast
<1>2. CASE c = "increment"
  <2>1. PanelsBy(key[1], at) /\ Latest(key[1]) \in 0..at
    BY <1>2 DEF KeyIsOfThePast
  <2>2. /\ Path(key[1], Latest(key[1]), m) = Path(key[1], Latest(key[1]), k)
        /\ Path(key[2], Latest(key[1]), m) = Path(key[2], Latest(key[1]), k)
    BY <1>1, <2>1, PathAgrees
  <2>3. QED
    BY <1>2, <2>2 DEF Replayed
<1>3. CASE c = "response"
  <2>1. key[1] \in 0..at
    BY <1>3 DEF KeyIsOfThePast
  <2>2. PanelsBy(PanelsForStratum(key[2], "cadence"), at)
    <3>1. PanelsForStratum(key[2], "cadence") \subseteq key[2]
      BY DEF PanelsForStratum
    <3>2. QED
      BY <1>1, <3>1, FewerPanels
  <2>3. /\ Path(key[2], key[1], m) = Path(key[2], key[1], k)
        /\ Path(PanelsForStratum(key[2], "cadence"), key[1], m)
             = Path(PanelsForStratum(key[2], "cadence"), key[1], k)
    BY <1>1, <2>1, <2>2, PathAgrees
  <2>4. QED
    BY <1>3, <2>3 DEF Replayed
<1>4. QED
  BY <1>2, <1>3

LEMMA KeptStays ==
    ASSUME NEW m, NEW k, NEW at \in Nat, NEW later \in Nat, at <= later,
           AgreesUntil(m, k, at), NEW c \in {"increment", "response"}, NEW kept,
           KeptIsReplay(c, kept, at, m)
    PROVE  KeptIsReplay(c, kept, later, k)
<1>1. CASE kept = NotKept
  BY <1>1 DEF KeptIsReplay
<1>2. CASE kept # NotKept
  <2>1. /\ kept = [key |-> kept.key, evidence |-> Replayed(c, kept.key, m)]
        /\ KeyIsOfThePast(c, kept.key, at)
        /\ \A i \in 1..2 : kept.evidence[i].state = "open"
    BY <1>2 DEF KeptIsReplay
  <2>2. Replayed(c, kept.key, m) = Replayed(c, kept.key, k)
    BY <2>1, ReplayAgrees
  <2>3. KeyIsOfThePast(c, kept.key, later)
    BY <2>1, PastIsPast
  <2>4. QED
    BY <2>1, <2>2, <2>3 DEF KeptIsReplay
<1>3. QED
  BY <1>1, <1>2

Comparisons == {"increment", "response"}
AllKept == \A c \in Comparisons : KeptIsReplay(c, cached[c], instant, Market)

LEMMA AllKeptStays ==
    ASSUME IncrementInvariant, cached' = cached, instant' \in Nat, instant <= instant',
           AgreesUntil(Market, Market', instant)
    PROVE  AllKept'
<1>1. instant \in Nat /\ DOMAIN cached = Comparisons
  BY DEF IncrementInvariant, IncrementTypeOK, Comparisons
<1>2. ASSUME NEW c \in Comparisons PROVE KeptIsReplay(c, cached[c], instant', Market')
  <2>1. PICK kept : kept = cached[c]
    OBVIOUS
  <2>2. KeptIsReplay(c, kept, instant, Market)
    BY <1>1, <2>1 DEF IncrementInvariant
  <2>3. PICK m, k, at, later : m = Market /\ k = Market' /\ at = instant /\ later = instant'
    OBVIOUS
  <2>4. KeptIsReplay(c, kept, later, k)
    BY <1>1, <2>2, <2>3, KeptStays DEF Comparisons
  <2>5. QED
    BY <2>1, <2>3, <2>4
<1>3. QED
  BY <1>2 DEF AllKept

LEMMA IncrementStarts == IncrementInit => IncrementInvariant
<1> SUFFICES ASSUME IncrementInit PROVE IncrementInvariant
  OBVIOUS
<1>1. IncrementTypeOK
  <2>1. [kind |-> "unasked", at |-> 0]
           \in [kind : Terminals \cup {"unasked", "due"}, at : 0..LastInstant]
    BY IncrementAssumption
  <2>2. DOMAIN settled = {}
    BY DEF IncrementInit
  <2>3. QED
    BY IncrementAssumption, <2>1, <2>2 DEF IncrementInit, IncrementTypeOK, Unasked
<1>2. \A p \in Producers, x \in Cells : answers[p][x].at <= instant
  BY DEF IncrementInit, Unasked
<1>3. \A c \in DOMAIN cached : KeptIsReplay(c, cached[c], instant, Market)
  BY DEF IncrementInit, KeptIsReplay
<1>4. QED
  BY <1>1, <1>2, <1>3 DEF IncrementInvariant
TypedAnswers ==
    /\ answers \in [Producers -> [Cells -> [kind : Terminals \cup {"unasked", "due"},
                                            at : 0..LastInstant]]]
    /\ \A p \in Producers, x \in Cells : answers[p][x].at <= instant

LEMMA AskKeepsAnswers ==
    ASSUME IncrementInvariant, NEW p \in Producers, NEW s \in Slots,
           NEW c \in Contracts[s], Ask(p, s, c)
    PROVE  TypedAnswers'
<1> DEFINE Told == [kind : Terminals \cup {"unasked", "due"}, at : 0..LastInstant]
           x == <<s, c>>
           told == IF p = "posterior" /\ answers["prior"][<<s, c>>].kind = "none"
                   THEN [kind |-> "none", at |-> instant] ELSE Asked
<1>1. /\ answers \in [Producers -> [Cells -> Told]]
      /\ \A q \in Producers, y \in Cells : answers[q][y].at <= instant
      /\ instant \in 0..LastInstant /\ instant \in Nat
  BY DEF IncrementInvariant, IncrementTypeOK
<1>2. /\ answers' = [answers EXCEPT ![p][x] = told] /\ instant' = instant
  BY DEF Ask
<1>3. told \in Told /\ told.at <= instant
  BY <1>1, IncrementAssumption DEF Asked, Terminals
<1>4. x \in Cells
  BY DEF Cells
<1> HIDE DEF Told, told, x
<1>5. answers' \in [Producers -> [Cells -> Told]]
  BY <1>1, <1>2, <1>3, <1>4
<1>6. ASSUME NEW q \in Producers, NEW y \in Cells PROVE answers'[q][y].at <= instant
  <2>1. answers'[q][y] = told \/ answers'[q][y] = answers[q][y]
    BY <1>1, <1>2, <1>4
  <2>2. QED
    BY <1>1, <1>3, <2>1
<1>7. QED
  BY <1>2, <1>5, <1>6 DEF TypedAnswers, Told

LEMMA AnswerKeepsAnswers ==
    ASSUME IncrementInvariant, NEW p \in Producers, NEW s \in Slots, AnswerSlot(p, s)
    PROVE  TypedAnswers'
<1> DEFINE Told == [kind : Terminals \cup {"unasked", "due"}, at : 0..LastInstant]
<1>1. /\ answers \in [Producers -> [Cells -> Told]]
      /\ \A q \in Producers, y \in Cells : answers[q][y].at <= instant
      /\ instant \in 0..LastInstant /\ instant \in Nat
  BY DEF IncrementInvariant, IncrementTypeOK
<1>2. PICK kinds \in [Open(p, s) -> Outlooks \cup {"none"}] :
         /\ answers' = [answers EXCEPT ![p] = [x \in Cells |->
                          IF x[1] = s /\ x[2] \in DOMAIN kinds
                          THEN [kind |-> kinds[x[2]], at |-> instant] ELSE answers[p][x]]]
         /\ instant' = instant
  BY DEF AnswerSlot
<1> DEFINE told == [x \in Cells |->
                      IF x[1] = s /\ x[2] \in DOMAIN kinds
                      THEN [kind |-> kinds[x[2]], at |-> instant] ELSE answers[p][x]]
<1>3. ASSUME NEW x \in Cells PROVE told[x] \in Told /\ told[x].at <= instant
  <2>1. CASE x[1] = s /\ x[2] \in DOMAIN kinds
    <3>1. kinds[x[2]] \in Terminals
      BY <2>1, IncrementAssumption DEF Terminals, Forecasts
    <3>2. told[x] = [kind |-> kinds[x[2]], at |-> instant]
      BY <2>1
    <3> HIDE DEF told
    <3>3. QED
      BY <1>1, <3>1, <3>2
  <2>2. CASE ~(x[1] = s /\ x[2] \in DOMAIN kinds)
    <3>1. told[x] = answers[p][x]
      BY <2>2
    <3> HIDE DEF told
    <3>2. QED
      BY <1>1, <3>1
  <2>3. QED
    BY <2>1, <2>2
<1>4. told \in [Cells -> Told]
  BY <1>3
<1>5. answers' = [answers EXCEPT ![p] = told]
  BY <1>2
<1> HIDE DEF told, Told
<1>6. answers' \in [Producers -> [Cells -> Told]]
  BY <1>1, <1>4, <1>5
<1>7. ASSUME NEW q \in Producers, NEW y \in Cells PROVE answers'[q][y].at <= instant
  <2>1. answers'[q][y] = told[y] \/ answers'[q][y] = answers[q][y]
    BY <1>1, <1>5
  <2>2. QED
    BY <1>1, <1>3, <2>1
<1>8. QED
  BY <1>2, <1>6, <1>7 DEF TypedAnswers, Told

LEMMA IncrementStep ==
    IncrementInvariant /\ [IncrementNext]_incrementVars => IncrementInvariant'
<1> SUFFICES ASSUME IncrementInvariant, [IncrementNext]_incrementVars
             PROVE  IncrementInvariant'
  OBVIOUS
<1>0. IncrementTypeOK /\ TypedAnswers /\ instant \in Nat /\ DOMAIN cached = Comparisons
  BY DEF IncrementInvariant, IncrementTypeOK, TypedAnswers, Comparisons
<1> DEFINE Safe == /\ instant' \in 0..LastInstant /\ quoted' \subseteq 0..instant'
                   /\ DOMAIN settled' \subseteq FundingAt
                   /\ \A t \in DOMAIN settled' : t < settled'[t]
                   /\ TypedAnswers' /\ DOMAIN cached' = Comparisons /\ AllKept'
<1>1. SUFFICES Safe
  BY DEF IncrementInvariant, IncrementTypeOK, TypedAnswers, Comparisons, AllKept
<1>2. ASSUME instant' = instant, cached' = cached, quoted' = quoted, settled' = settled
      PROVE  AllKept'
  <2>1. AgreesUntil(Market, Market', instant)
    BY <1>2 DEF Market, AgreesUntil
  <2>2. QED
    BY <1>0, <1>2, <2>1, AllKeptStays
<1>3. CASE InstantPasses
  <2>1. /\ instant' = instant + 1 /\ instant < LastInstant
        /\ quoted' = quoted \cup {instant + 1} \/ quoted' = quoted
        /\ settled' = settled /\ answers' = answers /\ cached' = cached
    BY <1>3 DEF InstantPasses
  <2>2. AgreesUntil(Market, Market', instant)
    <3>1. \A at \in 0..instant : at \in quoted <=> at \in quoted'
      BY <1>0, <2>1
    <3>2. QED
      BY <2>1, <3>1 DEF Market, AgreesUntil
  <2>3. AllKept'
    BY <1>0, <2>1, <2>2, AllKeptStays
  <2>4. instant' \in 0..LastInstant /\ quoted' \subseteq 0..instant'
    <3>1. instant \in 0..LastInstant /\ LastInstant \in Nat /\ quoted \subseteq 0..instant
      BY <1>0, IncrementAssumption DEF IncrementTypeOK
    <3>2. instant' \in 0..LastInstant
      BY <2>1, <3>1
    <3>3. ASSUME NEW t \in quoted' PROVE t \in 0..instant'
      <4>1. t \in 0..instant \/ t = instant + 1
        BY <2>1, <3>1, <3>3
      <4>2. QED
        BY <1>0, <2>1, <4>1
    <3>4. QED
      BY <3>2, <3>3
  <2>5. TypedAnswers'
    <3>1. \A p \in Producers, x \in Cells : answers[p][x].at \in 0..LastInstant
      BY <1>0 DEF TypedAnswers
    <3>2. \A p \in Producers, x \in Cells : answers[p][x].at <= instant + 1
      BY <1>0, <3>1 DEF TypedAnswers
    <3>3. QED
      BY <1>0, <2>1, <3>2 DEF TypedAnswers
  <2>6. QED
    BY <1>0, <2>1, <2>3, <2>4, <2>5 DEF IncrementTypeOK
<1>4. CASE FundingSettles
  <2>1. PICK t \in FundingAt \ DOMAIN settled :
           /\ t <= instant
           /\ settled' = [u \in DOMAIN settled \cup {t} |->
                            IF u = t THEN instant + 1 ELSE settled[u]]
    BY <1>4 DEF FundingSettles
  <2>2. instant' = instant /\ quoted' = quoted /\ answers' = answers /\ cached' = cached
    BY <1>4 DEF FundingSettles
  <2>3. t \in Nat
    BY IncrementAssumption
  <2>4. \A u \in DOMAIN settled' : u < settled'[u]
    BY <1>0, <2>1, <2>3 DEF IncrementTypeOK
  <2>5. DOMAIN settled' \subseteq FundingAt
    BY <1>0, <2>1 DEF IncrementTypeOK
  <2>6. AgreesUntil(Market, Market', instant)
    <3>1. ASSUME NEW at \in 0..instant, NEW u
          PROVE  u \in DOMAIN settled /\ settled[u] <= at
                   <=> u \in DOMAIN settled' /\ settled'[u] <= at
      BY <1>0, <2>1
    <3>2. QED
      BY <2>2, <3>1 DEF Market, AgreesUntil
  <2>7. AllKept'
    BY <1>0, <2>2, <2>6, AllKeptStays
  <2>8. TypedAnswers'
    BY <1>0, <2>2 DEF TypedAnswers
  <2>9. QED
    BY <1>0, <2>2, <2>4, <2>5, <2>7, <2>8 DEF IncrementTypeOK
<1>5. ASSUME NEW p \in Producers, NEW s \in Slots, AnswerSlot(p, s)
      PROVE  Safe
  <2>1. /\ instant' = instant /\ quoted' = quoted /\ settled' = settled /\ cached' = cached
    BY <1>5 DEF AnswerSlot
  <2>2. TypedAnswers'
    BY <1>5, AnswerKeepsAnswers
  <2>3. AllKept'
    BY <1>2, <2>1
  <2>4. QED
    BY <1>0, <2>1, <2>2, <2>3 DEF IncrementTypeOK
<1>6. ASSUME NEW p \in Producers, NEW s \in Slots, NEW c \in Contracts[s], Ask(p, s, c)
      PROVE  Safe
  <2>1. /\ instant' = instant /\ quoted' = quoted /\ settled' = settled /\ cached' = cached
    BY <1>6 DEF Ask
  <2>2. TypedAnswers'
    BY <1>6, AskKeepsAnswers
  <2>3. AllKept'
    BY <1>2, <2>1
  <2>4. QED
    BY <1>0, <2>1, <2>2, <2>3 DEF IncrementTypeOK
<1>7. ASSUME NEW c \in Comparisons, Read(c) PROVE Safe
  <2>1. /\ instant' = instant /\ quoted' = quoted /\ settled' = settled
        /\ answers' = answers
    BY <1>7 DEF Read
  <2>2. /\ Computed(c).status = "EVIDENCE_AVAILABLE"
        /\ cached' = [cached EXCEPT ![c] = [key |-> Computed(c).key,
                                            evidence |-> Computed(c).evidence]]
    BY <1>7 DEF Read
  <2>3. IsReplay(c, Computed(c))
    BY <2>2, ComputedIsReplay DEF Comparisons
  <2>4. PICK w : w = [key |-> Computed(c).key, evidence |-> Computed(c).evidence]
    OBVIOUS
  <2>5. KeptIsReplay(c, w, instant, Market)
    BY <2>3, <2>4 DEF IsReplay, BothOpen, KeptIsReplay
  <2>6. Market' = Market
    BY <2>1 DEF Market
  <2>7. ASSUME NEW d \in Comparisons
        PROVE  KeptIsReplay(d, cached'[d], instant, Market)
    <3>1. CASE d = c
      BY <1>0, <2>2, <2>4, <2>5, <3>1
    <3>2. CASE d # c
      <4>1. cached'[d] = cached[d]
        BY <1>0, <2>2, <3>2
      <4>2. QED
        BY <1>0, <4>1 DEF IncrementInvariant
    <3>3. QED
      BY <3>1, <3>2
  <2>8. AllKept'
    BY <2>1, <2>6, <2>7 DEF AllKept
  <2>9. TypedAnswers' /\ DOMAIN cached' = Comparisons
    BY <1>0, <2>1, <2>2 DEF TypedAnswers
  <2>10. QED
    BY <1>0, <2>1, <2>8, <2>9 DEF IncrementTypeOK
<1>8. CASE UNCHANGED incrementVars
  <2>1. /\ instant' = instant /\ quoted' = quoted /\ settled' = settled
        /\ answers' = answers /\ cached' = cached
    BY <1>8 DEF incrementVars
  <2>2. AllKept'
    BY <1>2, <2>1
  <2>3. TypedAnswers'
    BY <1>0, <2>1 DEF TypedAnswers
  <2>4. QED
    BY <1>0, <2>1, <2>2, <2>3 DEF IncrementTypeOK
<1>9. QED
  <2> HIDE DEF Safe
  <2>1. QED
    BY <1>0, <1>3, <1>4, <1>5, <1>6, <1>7, <1>8 DEF IncrementNext

LEMMA InvariantStands == IncrementInvariant => IncrementStands
<1> SUFFICES ASSUME IncrementInvariant PROVE IncrementStands
  OBVIOUS
<1>0. instant \in Nat /\ DOMAIN cached = Comparisons
  BY DEF IncrementInvariant, IncrementTypeOK, Comparisons
<1> DEFINE Recent(c) ==
             /\ Computed(c).status = "EVIDENCE_AVAILABLE" /\ Computed(c).key = cached[c].key
             => Computed(c).evidence = cached[c].evidence
           Even(c) ==
             LET kept   == cached[c].evidence
                 panels == KeyPanels(c, cached[c].key)
             IN  kept # << >> =>
                   /\ \A i \in 1..2 : kept[i].hold = << >> \/ TookItsEnd(kept[i], panels)
                   /\ c = "increment" => /\ kept[1].at = kept[2].at
                                         /\ Range(kept[1].steps) = Range(kept[2].steps)
<1>1. ASSUME NEW c \in Comparisons PROVE Recent(c)
  <2>1. SUFFICES ASSUME Computed(c).status = "EVIDENCE_AVAILABLE",
                        Computed(c).key = cached[c].key
                 PROVE  Computed(c).evidence = cached[c].evidence
    OBVIOUS
  <2>2. IsReplay(c, Computed(c))
    BY <2>1, ComputedIsReplay DEF Comparisons
  <2>3. cached[c].key # << >>
    BY <2>1, <2>2 DEF IsReplay, KeyIsOfThePast
  <2>4. KeptIsReplay(c, cached[c], instant, Market)
    BY <1>0 DEF IncrementInvariant
  <2>5. cached[c] # NotKept
    BY <2>3 DEF NotKept
  <2>6. cached[c] = [key |-> cached[c].key,
                     evidence |-> Replayed(c, cached[c].key, Market)]
    BY <2>4, <2>5 DEF KeptIsReplay
  <2>7. QED
    BY <2>1, <2>2, <2>6 DEF IsReplay
<1>2. ASSUME NEW c \in Comparisons PROVE Even(c)
  <2>1. SUFFICES ASSUME cached[c].evidence # << >> PROVE Even(c)
    OBVIOUS
  <2>2. PICK kept : kept = cached[c]
    OBVIOUS
  <2>3. kept # NotKept
    BY <2>1, <2>2 DEF NotKept
  <2>4. /\ kept = [key |-> kept.key, evidence |-> Replayed(c, kept.key, Market)]
        /\ KeyIsOfThePast(c, kept.key, instant)
        /\ \A i \in 1..2 : kept.evidence[i].state = "open"
    BY <1>0, <2>2, <2>3 DEF IncrementInvariant, KeptIsReplay
  <2>5. PICK key, end, S, R :
           /\ key = kept.key
           /\ end = IF c = "increment" THEN Latest(key[1]) ELSE key[1]
           /\ S = IF c = "increment" THEN key[1] ELSE key[2]
           /\ R = IF c = "increment" THEN key[2] ELSE PanelsForStratum(key[2], "cadence")
    OBVIOUS
  <2>6. kept.evidence = <<Path(S, end, Market), Path(R, end, Market)>>
    BY <2>4, <2>5 DEF Replayed, Comparisons
  <2>7. end \in 0..instant /\ PanelsBy(S, instant) /\ PanelsBy(R, instant)
    <3>1. CASE c = "increment"
      BY <2>4, <2>5, <3>1 DEF KeyIsOfThePast
    <3>2. CASE c # "increment"
      <4>1. R \subseteq key[2]
        BY <2>5, <3>2 DEF PanelsForStratum
      <4>2. end \in 0..instant /\ PanelsBy(key[2], instant)
        BY <2>4, <2>5, <3>2 DEF KeyIsOfThePast
      <4>3. QED
        BY <2>5, <3>2, <4>1, <4>2, FewerPanels
    <3>3. QED
      BY <3>1, <3>2
  <2>8. S \subseteq KeyPanels(c, key) /\ R \subseteq KeyPanels(c, key)
    BY <2>5 DEF KeyPanels, PanelsForStratum
  <2>9. PICK p, q : p = Path(S, end, Market) /\ q = Path(R, end, Market)
    OBVIOUS
  <2>10. /\ p.state = "open" /\ q.state = "open"
         /\ kept.evidence[1] = p /\ kept.evidence[2] = q
    BY <2>4, <2>6, <2>9
  <2>11. /\ p.at = end /\ Range(p.steps) = SlotsTaken(S)
         /\ p.hold = << >> \/ TookItsEnd(p, S)
    BY <1>0, <2>7, <2>9, <2>10, OpenPath
  <2>12. /\ q.at = end /\ Range(q.steps) = SlotsTaken(R)
         /\ q.hold = << >> \/ TookItsEnd(q, R)
    BY <1>0, <2>7, <2>9, <2>10, OpenPath
  <2>13. \A i \in 1..2 : \/ kept.evidence[i].hold = << >>
                         \/ TookItsEnd(kept.evidence[i], KeyPanels(c, key))
    BY <2>8, <2>10, <2>11, <2>12 DEF TookItsEnd
  <2>14. c = "increment" => SlotsTaken(S) = SlotsTaken(R)
    BY <2>4, <2>5 DEF KeyIsOfThePast
  <2>15. QED
    BY <2>2, <2>5, <2>10, <2>11, <2>12, <2>13, <2>14
<1>3. QED
  BY <1>0, <1>1, <1>2 DEF IncrementStands

THEOREM IncrementSafe == IncrementSpec => []IncrementInvariant
<1>1. IncrementInit => IncrementInvariant
  BY IncrementStarts
<1>2. IncrementInvariant /\ [IncrementNext]_incrementVars => IncrementInvariant'
  BY IncrementStep
<1>3. QED
  BY <1>1, <1>2, PTL DEF IncrementSpec

THEOREM IncrementKeepsStanding == IncrementSpec => []IncrementStands
<1>1. IncrementInvariant => IncrementStands
  BY InvariantStands
<1>2. QED
  BY <1>1, IncrementSafe, PTL
=============================================================================
