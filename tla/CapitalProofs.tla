----------------------------- MODULE CapitalProofs -----------------------------
(***************************************************************************)
(* Proofs about the capital cycle, for any number of panels, batches and    *)
(* interrupted attempts: CapitalInvariant is inductive, and it says what    *)
(* the ledgers of decisions, accounts, groups and receipts promise of each  *)
(* other.                                                                   *)
(***************************************************************************)
EXTENDS CapitalCycle, WellFoundedInduction, FiniteSetTheorems, TLAPS

-----------------------------------------------------------------------------
(* Sequences, and the greatest of a set of numbers.                         *)

\* An element of a sequence is in what the sequence is over.
LEMMA SeqElement == ASSUME NEW S, NEW q \in Seq(S), NEW i \in 1..Len(q) PROVE q[i] \in S
OBVIOUS

\* Appending adds one place behind the others.
LEMMA SeqAppended ==
    ASSUME NEW S, NEW q \in Seq(S), NEW x \in S
    PROVE  /\ Append(q, x) \in Seq(S)
           /\ Len(q) \in Nat /\ Len(Append(q, x)) = Len(q) + 1
           /\ Append(q, x)[Len(q) + 1] = x
           /\ \A i \in 1..Len(q) : Append(q, x)[i] = q[i]
OBVIOUS

\* Replacing an element keeps the length and the other elements.
LEMMA SeqReplaced ==
    ASSUME NEW S, NEW q \in Seq(S), NEW k \in 1..Len(q), NEW x \in S
    PROVE  /\ [q EXCEPT ![k] = x] \in Seq(S)
           /\ Len([q EXCEPT ![k] = x]) = Len(q)
           /\ [q EXCEPT ![k] = x][k] = x
           /\ \A i \in 1..Len(q) : i # k => [q EXCEPT ![k] = x][i] = q[i]
OBVIOUS

\* A bounded set of numbers that is not empty has a greatest one: it is as
\* far from the bound as the least distance.
LEMMA GreatestNat ==
    ASSUME NEW b \in Nat, NEW S \in SUBSET (0 .. b), S # {}
    PROVE  \E m \in S : \A n \in S : m >= n
<1>1. PICK R : R = OpToRel(<, Nat)
  OBVIOUS
<1>2. IsWellFoundedOn(R, Nat)
  BY <1>1, NatLessThanWellFounded
<1>3. PICK T : T = {b - x : x \in S}
  OBVIOUS
<1>4. T \in SUBSET Nat /\ T # {}
  <2>1. \A x \in S : x \in 0 .. b /\ b - x \in Nat
    OBVIOUS
  <2>2. QED
    BY <1>3, <2>1
<1>5. PICK t \in T : \A n \in T : <<n, t>> \notin R
  BY <1>2, <1>4, WFMin
<1>6. \A n \in T : n \in Nat /\ t \in Nat /\ ~(n < t)
  BY <1>1, <1>4, <1>5 DEF OpToRel
<1>7. PICK m \in S : t = b - m
  BY <1>3
<1>8. \A n \in S : b - n \in T
  BY <1>3
<1>9. \A n \in S : m >= n
  <2>1. SUFFICES ASSUME NEW n \in S PROVE m >= n
    OBVIOUS
  <2>2. ~(b - n < b - m)
    BY <1>6, <1>7, <1>8
  <2>3. n \in Nat /\ m \in Nat
    OBVIOUS
  <2>4. QED
    BY <2>2, <2>3
<1>10. QED
  BY <1>9

-----------------------------------------------------------------------------
(* Constants, cycles and panels.                                            *)

\* The bounds are numbers.
LEMMA Bounds ==
    /\ MaxPanel \in Nat /\ MaxPanel > 0 /\ PanelLife \in Nat /\ PanelLife > 0
    /\ MaxTime \in Nat /\ MaxTime > 0 /\ MaxAdvances \in Nat /\ MaxAdvances > 0
    /\ MaxAttempts \in Nat
BY LedgerAssumption, AttemptsAssumption

\* The cycle of a panel tells its panel, that of an observation its instant,
\* and the two are not confused.
LEMMA CyclesApart ==
    /\ PanelCycles \subseteq Cycles /\ NoCycle \notin Cycles
    /\ \A p \in Panels : PanelCycle(p) \in PanelCycles
    /\ \A t \in Time : WatchCycle(t) \in Cycles /\ WatchCycle(t) \notin PanelCycles
    /\ \A t, u \in Time : WatchCycle(t) = WatchCycle(u) => t = u
    /\ \A p, q \in Panels : PanelCycle(p) = PanelCycle(q) => p = q
    /\ \A p \in Panels : PanelCycle(p)[2] = p
<1>1. /\ "panel" # "watch" /\ "panel" # "none" /\ "watch" # "none"
  OBVIOUS
<1>2. /\ \A p : PanelCycle(p)[1] = "panel" /\ PanelCycle(p)[2] = p
      /\ \A t : WatchCycle(t)[1] = "watch" /\ WatchCycle(t)[2] = t
      /\ NoCycle[1] = "none"
  BY DEF PanelCycle, WatchCycle, NoCycle
<1>3. PanelCycles \subseteq Cycles /\ \A p \in Panels : PanelCycle(p) \in PanelCycles
  BY DEF PanelCycles, Cycles
<1>4. NoCycle \notin Cycles
  BY <1>1, <1>2 DEF PanelCycles, Cycles
<1>5. \A t \in Time : WatchCycle(t) \in Cycles /\ WatchCycle(t) \notin PanelCycles
  BY <1>1, <1>2 DEF PanelCycles, Cycles
<1>6. QED
  BY <1>2, <1>3, <1>4, <1>5

\* The newest active panel is one of them, if there is any.
LEMMA NewestIsActive ==
    ASSUME NEW t \in Time
    PROVE  /\ ActivePanels(t) \subseteq Panels
           /\ IF ActivePanels(t) = {} THEN NewestPanel(t) = 0
              ELSE NewestPanel(t) \in ActivePanels(t)
<1>1. PICK A : A = ActivePanels(t)
  OBVIOUS
<1>2. A \subseteq Panels /\ A \subseteq 1 .. MaxPanel
  BY <1>1 DEF ActivePanels, Panels
<1>3. NewestPanel(t) \in A \cup {0} /\ \A n \in A \cup {0} : NewestPanel(t) >= n
  <2>1. A \cup {0} \in SUBSET (0 .. MaxPanel) /\ A \cup {0} # {}
    BY <1>2, Bounds
  <2>2. \E m \in A \cup {0} : \A n \in A \cup {0} : m >= n
    BY <2>1, Bounds, GreatestNat
  <2>3. QED
    BY <1>1, <2>2 DEF NewestPanel, Max
<1>4. A # {} => NewestPanel(t) # 0
  <2>1. \A n \in A : n \in Nat /\ ~(0 >= n)
    BY <1>2, Bounds
  <2>2. QED
    BY <1>3, <2>1
<1>5. QED
  BY <1>1, <1>2, <1>3, <1>4

\* The snapshot an instant shows is one of them, or none.
LEMMA LatestIsOne ==
    ASSUME NEW t, LedgerTypeOK
    PROVE  LatestAccount(t) \in Nat
<1>1. HeadAccount \in Nat /\ \A i \in 1 .. HeadAccount : accounts[i].asOf \in Nat
  <2>1. accounts \in Seq(AccountRecord)
    BY DEF LedgerTypeOK
  <2>2. \A i \in 1 .. Len(accounts) : accounts[i] \in AccountRecord
    BY <2>1, SeqElement
  <2>3. QED
    BY <2>1, <2>2, Bounds DEF AccountRecord, Time, HeadAccount
<1>2. PICK V : V = {i \in 1 .. HeadAccount : accounts[i].asOf <= t}
  OBVIOUS
<1>3. CASE V = {}
  BY <1>2, <1>3 DEF LatestAccount
<1>4. CASE V # {}
  <2>1. PICK I : I = {accounts[i].asOf : i \in V}
    OBVIOUS
  <2>2. \A x \in I : x \in 0 .. MaxTime
    <3>1. accounts \in Seq(AccountRecord)
      BY DEF LedgerTypeOK
    <3>2. \A i \in 1 .. HeadAccount : accounts[i] \in AccountRecord
      BY <3>1, SeqElement DEF HeadAccount
    <3>3. QED
      BY <1>2, <2>1, <3>2 DEF AccountRecord, Time
  <2>3. PICK x \in I : \A y \in I : x >= y
    <3>1. MaxTime \in Nat
      BY Bounds
    <3>2. I \in SUBSET (0 .. MaxTime) /\ I # {}
      BY <1>4, <2>1, <2>2
    <3>3. QED
      BY <3>1, <3>2, GreatestNat
  <2>4. PICK J : J = {i \in V : accounts[i].asOf = x}
    OBVIOUS
  <2>5. J \in SUBSET (0 .. HeadAccount) /\ J # {}
    <3>1. J \subseteq V /\ \A i \in V : i \in 1 .. HeadAccount
      BY <1>2, <2>4
    <3>2. 1 .. HeadAccount \subseteq 0 .. HeadAccount
      BY <1>1
    <3>3. QED
      BY <2>1, <2>3, <2>4, <3>1, <3>2
  <2>6. PICK i \in J : \A j \in J : i >= j
    BY <1>1, <2>5, GreatestNat
  <2>7. \A j \in V : accounts[j].asOf < accounts[i].asOf
                     \/ (accounts[j].asOf = accounts[i].asOf /\ j <= i)
    <3>1. SUFFICES ASSUME NEW j \in V
                   PROVE  accounts[j].asOf < accounts[i].asOf
                          \/ (accounts[j].asOf = accounts[i].asOf /\ j <= i)
      OBVIOUS
    <3>2. accounts[i].asOf = x /\ x >= accounts[j].asOf
      BY <2>1, <2>3, <2>4
    <3>3. x \in Nat /\ accounts[j].asOf \in Nat /\ i \in Nat /\ j \in Nat
      BY <1>1, <1>2, <2>4, <3>2
    <3>4. CASE accounts[j].asOf = x
      <4>1. j \in J
        BY <2>4, <3>4
      <4>2. QED
        BY <2>6, <3>2, <3>3, <3>4, <4>1
    <3>5. QED
      BY <3>2, <3>3, <3>4
  <2>8. i \in V
    BY <2>4
  <2>9. \E k \in V : \A j \in V :
           accounts[j].asOf < accounts[k].asOf \/ (accounts[j].asOf = accounts[k].asOf /\ j <= k)
    <3>1. WITNESS i \in V
    <3>2. QED
      BY <2>7
  <2>10. LatestAccount(t) \in V
    BY <1>2, <1>4, <2>9 DEF LatestAccount
  <2>11. QED
    BY <1>2, <2>10
<1>5. QED
  BY <1>3, <1>4

-----------------------------------------------------------------------------
(* Steps of the attempt alone.                                              *)

StoredOK == LedgerTypeOK /\ LedgerInOrder /\ GroupsInOrder /\ ReceiptsInOrder

\* What is stored stays in order while nothing is written.
LEMMA StoredStays ==
    ASSUME StoredOK, UNCHANGED ledgerVars
    PROVE  StoredOK'
<1>1. /\ published' = published /\ accounts' = accounts /\ measured' = measured
      /\ targets' = targets /\ approved' = approved /\ plans' = plans
      /\ groups' = groups /\ exposure' = exposure /\ receipts' = receipts
  BY DEF ledgerVars, chainVars, venueVars
<1>2. LedgerTypeOK'
  BY <1>1 DEF StoredOK, LedgerTypeOK
<1>3. LedgerInOrder'
  BY <1>1 DEF StoredOK, LedgerInOrder, AccountsInOrder, DecidedOnMeasured, HeadAccount
<1>4. GroupsInOrder'
  BY <1>1 DEF StoredOK, GroupsInOrder, Begun, HeadAccount, Newest, ActivePanels
<1>5. ReceiptsInOrder'
  BY <1>1 DEF StoredOK, ReceiptsInOrder, Decides, Complete
<1>6. QED
  BY <1>2, <1>3, <1>4, <1>5 DEF StoredOK

\* The invariant in two halves: what is stored, and the attempt.
AttemptTypeOK ==
    /\ pc \in {"idle"} \cup Running \cup Ended
    /\ batch \in Time
    /\ attempts \in 0 .. MaxAttempts
    /\ run \in RunRecord
    /\ interrupted \in BOOLEAN

\* The invariant in the halves the steps are proved in: what is stored, and
\* what the attempt under way holds.
LEMMA InTwoHalves ==
    /\ CapitalInvariant <=> /\ StoredOK /\ AttemptTypeOK
                            /\ RunInOrder /\ ChainSoFar /\ ExposureIsKnown
    /\ CapitalInvariant' <=> /\ StoredOK' /\ AttemptTypeOK'
                             /\ RunInOrder' /\ ChainSoFar' /\ ExposureIsKnown'
BY DEF CapitalInvariant, StoredOK, AttemptTypeOK, TypeOK

\* An attempt that holds nothing is typed.
LEMMA NoRunIsTyped == NoRun \in RunRecord
<1>1. 0 \in Time /\ NoCycle \in Cycles \cup {NoCycle} /\ 0 \in {0} \cup Panels /\ 0 \in Nat
  BY Bounds DEF Time
<1>2. "none" \in {"none", "produce", "review", "replay"} /\ "NONE" \in {"NONE", "target", "review"}
  OBVIOUS
<1>3. QED
  BY <1>1, <1>2 DEF NoRun, RunRecord

\* An attempt that ends, or begins anew, leaves nothing behind, unless it
\* dies between the start of a group and its account.
LEMMA AttemptEnds ==
    ASSUME CapitalInvariant, StoredOK',
           accounts' = accounts, groups' = groups, exposure' = exposure, plans' = plans,
           pc' \in {"idle", "choose"} \cup Ended, run' = NoRun, batch' \in Time,
           attempts' \in 0 .. MaxAttempts, interrupted' \in BOOLEAN,
           interrupted => interrupted',
           ~interrupted' /\ pc \in {"execute", "project"} => NewestIsTrue
    PROVE  CapitalInvariant'
<1>1. pc' \notin Running \ {"choose"} /\ pc' \in {"idle"} \cup Running \cup Ended
  BY DEF Running, Ended
<1>2. AttemptTypeOK'
  BY <1>1, NoRunIsTyped DEF AttemptTypeOK
<1>3. RunInOrder'
  BY <1>1 DEF RunInOrder, Running, WithAccount
<1>4. ChainSoFar'
  BY <1>1 DEF ChainSoFar, Running
<1>5. ExposureIsKnown'
  <2>1. ExposureIsKnown
    BY InTwoHalves
  <2>2. SUFFICES ASSUME ~interrupted' PROVE ExposureIsKnown'
    BY DEF ExposureIsKnown
  <2>3. pc' \notin {"execute", "project"} /\ ~interrupted
    BY <1>1, <2>2 DEF Running
  <2>4. HeadAccount' = HeadAccount /\ Newest' = Newest /\ (NewestIsTrue)' = NewestIsTrue
    BY DEF HeadAccount, Newest, NewestIsTrue
  <2>5. HeadAccount > 0 /\ ~Newest.pending => NewestIsTrue
    BY <2>1, <2>2, <2>3 DEF ExposureIsKnown
  <2>6. QED
    BY <2>1, <2>3, <2>4, <2>5 DEF ExposureIsKnown
<1>6. QED
  BY <1>2, <1>3, <1>4, <1>5, InTwoHalves

\* The exposure stays known while nothing of it changes and the attempt is
\* not in the execution.
LEMMA ExposureStays ==
    ASSUME ExposureIsKnown, accounts' = accounts, groups' = groups, exposure' = exposure,
           \A c \in Cycles : groups[c].status = "OPEN" => plans'[c] = plans[c],
           interrupted' = interrupted,
           pc \notin {"execute", "project"}, pc' \notin {"execute", "project"}
    PROVE  ExposureIsKnown'
<1>1. HeadAccount' = HeadAccount /\ Newest' = Newest /\ (NewestIsTrue)' = NewestIsTrue
  BY DEF HeadAccount, Newest, NewestIsTrue
<1>2. QED
  BY <1>1 DEF ExposureIsKnown

-----------------------------------------------------------------------------
(* Panels appear, and batches and attempts come and go.                     *)

\* A panel that appears concerns no decision yet.
LEMMA PublishSafe == ASSUME CapitalInvariant, Publish PROVE CapitalInvariant'
<1>1. /\ StoredOK /\ AttemptTypeOK /\ RunInOrder /\ ChainSoFar /\ ExposureIsKnown
  BY InTwoHalves
<1>2. PICK p \in Panels, at \in {batch, batch + 1} : PublishAt(p, at)
  BY DEF Publish
<1>3. /\ published' = [published EXCEPT ![p] = at] /\ published[p] = NoTime
      /\ accounts' = accounts /\ measured' = measured /\ targets' = targets
      /\ approved' = approved /\ plans' = plans /\ groups' = groups
      /\ exposure' = exposure /\ receipts' = receipts
  BY <1>2 DEF PublishAt, chainVars, venueVars
<1>4. /\ pc' = pc /\ batch' = batch /\ attempts' = attempts /\ run' = run
      /\ interrupted' = interrupted
  BY DEF Publish, cycleVars
<1>5. /\ published \in [Panels -> Time \cup {NoTime, MaxTime + 1}]
      /\ batch \in 0 .. MaxTime
  BY <1>1 DEF StoredOK, LedgerTypeOK, AttemptTypeOK, Time
<1>6. at \in Time \cup {NoTime, MaxTime + 1}
  BY <1>5, Bounds DEF Time
<1>7. \A q \in Panels : published[q] # NoTime => published'[q] = published[q]
  BY <1>3, <1>5
<1>8. StoredOK'
  <2>1. LedgerTypeOK'
    BY <1>1, <1>3, <1>5, <1>6 DEF StoredOK, LedgerTypeOK
  <2>2. LedgerInOrder'
    BY <1>1, <1>3 DEF StoredOK, LedgerInOrder, AccountsInOrder, DecidedOnMeasured, HeadAccount
  <2>3. GroupsInOrder'
    <3>1. HeadAccount' = HeadAccount /\ Newest' = Newest /\ \A c : Begun(c)' <=> Begun(c)
      BY <1>3 DEF HeadAccount, Newest, Begun
    <3>2. \A c \in Cycles :
             (\E q \in ActivePanels(groups[c].started) : c = PanelCycle(q)) =>
             (\E q \in ActivePanels(groups[c].started) : c = PanelCycle(q))'
      BY <1>3, <1>7 DEF ActivePanels
    <3>3. QED
      BY <1>1, <1>3, <3>1, <3>2 DEF StoredOK, GroupsInOrder
  <2>4. ReceiptsInOrder'
    BY <1>1, <1>3 DEF StoredOK, ReceiptsInOrder, Decides, Complete
  <2>5. QED
    BY <2>1, <2>2, <2>3, <2>4 DEF StoredOK
<1>9. AttemptTypeOK'
  BY <1>1, <1>4 DEF AttemptTypeOK
<1>10. RunInOrder'
  <2>1. HeadAccount' = HeadAccount /\ Newest' = Newest
    BY <1>3 DEF HeadAccount, Newest
  <2>2. ActivePanels(batch) \subseteq ActivePanels(batch)'
    BY <1>4, <1>7 DEF ActivePanels
  <2>3. QED
    BY <1>1, <1>3, <1>4, <2>1, <2>2 DEF RunInOrder
<1>11. ChainSoFar'
  BY <1>1, <1>3, <1>4
  DEF ChainSoFar, OwnTarget, Want, Position, Newest, HeadAccount, Begun, Complete, Decides
<1>12. ExposureIsKnown'
  BY <1>1, <1>3, <1>4
  DEF ExposureIsKnown, NewestIsTrue, Newest, HeadAccount, ExecutionAccounts
<1>13. QED
  BY <1>8, <1>9, <1>10, <1>11, <1>12, InTwoHalves

\* The actions that only take up, give up or drop an attempt.
LEMMA BatchesSafe ==
    ASSUME CapitalInvariant, NewBatch \/ Rerun \/ Interrupt \/ InputUnavailable
    PROVE  CapitalInvariant'
<1>1. StoredOK /\ AttemptTypeOK
  BY InTwoHalves
<1>2. UNCHANGED ledgerVars
  BY DEF NewBatch, Rerun, Interrupt, InputUnavailable
<1>3. StoredOK' /\ accounts' = accounts /\ groups' = groups /\ exposure' = exposure /\ plans' = plans
  BY <1>1, <1>2, StoredStays DEF ledgerVars, chainVars, venueVars
<1>4. batch \in Time /\ attempts \in 0 .. MaxAttempts /\ interrupted \in BOOLEAN
  BY <1>1 DEF AttemptTypeOK
<1>5. CASE NewBatch
  <2>1. batch' \in Time /\ attempts' \in 0 .. MaxAttempts
    BY <1>4, <1>5, Bounds DEF NewBatch, Time
  <2>2. QED
    BY <1>3, <1>4, <1>5, <2>1, AttemptEnds DEF NewBatch, Ended
<1>6. CASE Rerun
  BY <1>3, <1>4, <1>6, AttemptEnds DEF Rerun, Goto, Ended
<1>7. CASE Interrupt
  <2>1. attempts' \in 0 .. MaxAttempts
    BY <1>4, <1>7, Bounds DEF Interrupt
  <2>2. /\ pc' \in {"idle", "choose"} \cup Ended /\ run' = NoRun /\ batch' \in Time
        /\ interrupted' \in BOOLEAN /\ (interrupted => interrupted')
        /\ (~interrupted' => pc \notin {"execute", "project"})
    BY <1>4, <1>7 DEF Interrupt, Ended
  <2>3. QED
    BY <1>3, <2>1, <2>2, AttemptEnds
<1>8. CASE InputUnavailable
  <2>1. pc \notin {"execute", "project"}
    BY <1>8 DEF InputUnavailable, NeedsQuotes
  <2>2. QED
    BY <1>3, <1>4, <1>8, <2>1, AttemptEnds DEF InputUnavailable, Goto, Ended
<1>9. QED
  BY <1>5, <1>6, <1>7, <1>8

-----------------------------------------------------------------------------
(* Which way the batch goes.                                                *)

\* What the attempt's own steps to the next transaction rest on.
LEMMA AttemptGoesOn ==
    ASSUME CapitalInvariant, UNCHANGED ledgerVars, NEW next, NEW r, Goto(next, r),
           next \in Running, r \in RunRecord, RunInOrder', ChainSoFar', ExposureIsKnown'
    PROVE  CapitalInvariant'
<1>1. StoredOK'
  BY InTwoHalves, StoredStays
<1>2. AttemptTypeOK'
  BY InTwoHalves DEF AttemptTypeOK, Goto
<1>3. QED
  BY <1>1, <1>2, InTwoHalves

\* Nothing of the exposure changes outside the execution.
LEMMA ExposureWaits ==
    ASSUME CapitalInvariant, UNCHANGED ledgerVars, NEW next, NEW r, Goto(next, r),
           pc \notin {"execute", "project"}, next \notin {"execute", "project"}
    PROVE  ExposureIsKnown'
BY InTwoHalves, ExposureStays DEF ledgerVars, chainVars, venueVars, Goto

\* A batch taken up, new or interrupted, begins with nothing in memory.
LEMMA ChooseSafe == ASSUME CapitalInvariant, Choose PROVE CapitalInvariant'
<1>1. AttemptTypeOK /\ UNCHANGED ledgerVars /\ pc = "choose"
  BY InTwoHalves DEF Choose
<1>2. PICK r : /\ Goto("read", r)
               /\ r = [run EXCEPT !.asOf = batch,
                                  !.mode = IF NewestPanel(batch) # 0
                                              /\ ~Disposed(PanelCycle(NewestPanel(batch)))
                                           THEN "produce" ELSE "review"]
  BY DEF Choose
<1>3. run \in RunRecord /\ batch \in Time
  BY <1>1 DEF AttemptTypeOK
<1>4. /\ r \in RunRecord /\ r.asOf = batch /\ r.mode \in {"produce", "review"}
      /\ r.mode = "produce" => NewestPanel(batch) # 0
      /\ r.panel = run.panel /\ r.by = run.by /\ r.executed = run.executed
  BY <1>2, <1>3 DEF RunRecord
<1>5. run = NoRun
  BY <1>1 DEF CapitalInvariant, RunInOrder
<1>6. r.panel = 0 /\ r.by = "NONE" /\ ~r.executed
  BY <1>4, <1>5 DEF NoRun
<1>7. pc' = "read" /\ run' = r /\ batch' = batch /\ published' = published
  BY <1>1, <1>2 DEF Goto, ledgerVars
<1>8. ActivePanels(batch)' = ActivePanels(batch)
  BY <1>7 DEF ActivePanels
<1>9. r.mode = "produce" => ActivePanels(batch) # {}
  BY <1>3, <1>4, NewestIsActive
<1>10. RunInOrder'
  BY <1>4, <1>6, <1>7, <1>8, <1>9 DEF RunInOrder, WithAccount, Running
<1>11. ChainSoFar'
  BY <1>7 DEF ChainSoFar
<1>12. ExposureIsKnown'
  BY <1>1, <1>2, ExposureWaits
<1>13. QED
  BY <1>1, <1>2, <1>4, <1>10, <1>11, <1>12, AttemptGoesOn DEF Running

\* The cycle and the instant of an observation, with what it takes along.
LEMMA Observes ==
    ASSUME CapitalInvariant, UNCHANGED ledgerVars, pc = "read",
           NEW r \in RunRecord, NEW t \in Time, Observe(r, t),
           r.mode # "replay" => t = batch, r.by = "NONE", ~r.executed,
           r.panel # 0 => r.already
    PROVE  CapitalInvariant'
<1>1. PICK s : s = [r EXCEPT !.asOf = t, !.cycle = WatchCycle(t)] /\ Goto("recover", s)
  BY DEF Observe
<1>2. WatchCycle(t) \in Cycles
  BY CyclesApart
<1>3. /\ s \in RunRecord /\ s.asOf = t /\ s.cycle = WatchCycle(t) /\ s.mode = r.mode
      /\ s.panel = r.panel /\ s.already = r.already /\ s.by = r.by /\ s.executed = r.executed
  BY <1>1, <1>2 DEF RunRecord
<1>4. pc' = "recover" /\ run' = s /\ batch' = batch
  BY <1>1 DEF Goto
<1>5. s.panel # 0 => s.panel \in Panels
  BY <1>3 DEF RunRecord
<1>6. RunInOrder'
  BY <1>3, <1>4, <1>5 DEF RunInOrder, WithAccount, Running
<1>7. ChainSoFar'
  BY <1>3, <1>4 DEF ChainSoFar
<1>8. ExposureIsKnown'
  BY <1>1, ExposureWaits
<1>9. QED
  BY <1>1, <1>3, <1>6, <1>7, <1>8, AttemptGoesOn DEF Running

\* A batch that has its receipt only repeats it.
LEMMA ReplaySafe == ASSUME CapitalInvariant, Replay PROVE CapitalInvariant'
<1>1. StoredOK /\ AttemptTypeOK /\ UNCHANGED ledgerVars /\ pc = "read"
  BY InTwoHalves DEF Replay
<1>2. PICK c : c = receipts[batch].target
  OBVIOUS
<1>3. run \in RunRecord /\ batch \in Time /\ run.by = "NONE" /\ ~run.executed /\ run.panel = 0
      /\ attempts \in 0 .. MaxAttempts /\ interrupted \in BOOLEAN
  BY <1>1 DEF AttemptTypeOK, CapitalInvariant, RunInOrder
<1>4. CASE Goto("done", NoRun) \/ Reject
  <2>1. StoredOK' /\ accounts' = accounts /\ groups' = groups /\ exposure' = exposure /\ plans' = plans
    BY <1>1, StoredStays DEF ledgerVars, chainVars, venueVars
  <2>2. QED
    BY <1>1, <1>3, <1>4, <2>1, AttemptEnds DEF Goto, Reject, Ended
<1>5. CASE /\ c # NoCycle /\ Complete(c)
           /\ Observe([run EXCEPT !.mode = "replay"], targets[c].asOf)
  <2>1. c \in Cycles
    <3>1. receipts[batch].target \in Cycles \cup {NoCycle}
      BY <1>1, <1>3 DEF StoredOK, LedgerTypeOK
    <3>2. QED
      BY <1>2, <1>5, <3>1
  <2>2. targets[c].asOf \in Time
    BY <1>1, <1>5, <2>1 DEF Complete, StoredOK, LedgerInOrder
  <2>3. PICK r : r = [run EXCEPT !.mode = "replay"]
    OBVIOUS
  <2>4. /\ r \in RunRecord /\ r.mode = "replay"
        /\ r.panel = run.panel /\ r.by = run.by /\ r.executed = run.executed
    BY <1>3, <2>3 DEF RunRecord
  <2>5. QED
    BY <1>1, <1>3, <1>5, <2>2, <2>3, <2>4, Observes
<1>6. QED
  BY <1>2, <1>4, <1>5 DEF Replay

\* Turning to a review writes nothing.
LEMMA ReviewSafe == ASSUME CapitalInvariant, Review PROVE CapitalInvariant'
<1>1. AttemptTypeOK /\ UNCHANGED ledgerVars /\ pc = "read" /\ Observe(run, batch)
  BY InTwoHalves DEF Review
<1>2. run \in RunRecord /\ batch \in Time /\ run.by = "NONE" /\ ~run.executed /\ run.panel = 0
  BY <1>1 DEF AttemptTypeOK, CapitalInvariant, RunInOrder
<1>3. QED
  BY <1>1, <1>2, Observes

\* What is read to produce a decision is what the ledgers say at that instant.
LEMMA ProduceSafe == ASSUME CapitalInvariant, Produce PROVE CapitalInvariant'
<1>1. StoredOK /\ AttemptTypeOK /\ UNCHANGED ledgerVars /\ pc = "read" /\ run.mode = "produce"
  BY InTwoHalves DEF Produce
<1>2. /\ run \in RunRecord /\ batch \in Time /\ run.by = "NONE" /\ ~run.executed
      /\ run.asOf = batch /\ ActivePanels(batch) # {}
  BY <1>1 DEF AttemptTypeOK, CapitalInvariant, RunInOrder
<1>3. PICK p : p = NewestPanel(batch) /\ p \in ActivePanels(batch) /\ p \in Panels
  BY <1>2, NewestIsActive
<1>4. PICK c : c = PanelCycle(p) /\ c \in Cycles /\ c \in PanelCycles
  BY <1>3, CyclesApart
<1>5. p # 0
  BY <1>3, Bounds DEF Panels
<1>6. PICK done \in BOOLEAN : done = Complete(c)
  BY DEF Complete
<1>7. PICK r : r = [run EXCEPT !.panel = p, !.cycle = c, !.already = done]
  OBVIOUS
<1>8. /\ r \in RunRecord /\ r.panel = p /\ r.cycle = c /\ r.already = done
      /\ r.mode = "produce" /\ r.asOf = batch /\ r.by = "NONE" /\ ~r.executed
  BY <1>1, <1>2, <1>3, <1>4, <1>6, <1>7 DEF RunRecord
<1>9. ActivePanels(batch)' = ActivePanels(batch)
  BY <1>1 DEF ActivePanels, ledgerVars, Produce, Observe, Goto
<1>10. /\ published' = published /\ targets' = targets /\ approved' = approved
       /\ plans' = plans /\ groups' = groups /\ receipts' = receipts
  BY <1>1 DEF ledgerVars, chainVars, venueVars
<1>11. CASE ~done /\ Goto("recover", r)
  <2>1. pc' = "recover" /\ run' = r /\ batch' = batch
    BY <1>11 DEF Goto
  <2>2. RunInOrder'
    BY <1>3, <1>4, <1>8, <1>9, <2>1 DEF RunInOrder, WithAccount, Running
  <2>3. \A t \in Time : ~Decides(t, c)
    BY <1>1, <1>4, <1>6, <1>11 DEF StoredOK, ReceiptsInOrder
  <2>4. \A t \in Time : ~Decides(t, c)'
    BY <1>10, <2>3 DEF Decides
  <2>5. ChainSoFar'
    BY <1>4, <1>8, <2>1, <2>4 DEF ChainSoFar, Decides
  <2>6. QED
    BY <1>1, <1>8, <1>11, <2>2, <2>5, ExposureWaits, AttemptGoesOn DEF Running
<1>12. CASE done /\ Goto("finish", [r EXCEPT !.by = "target"])
  <2>1. PICK s : s = [r EXCEPT !.by = "target"]
    OBVIOUS
  <2>2. /\ s \in RunRecord /\ s.panel = p /\ s.cycle = c /\ s.already
        /\ s.mode = "produce" /\ s.asOf = batch
    BY <1>8, <1>12, <2>1 DEF RunRecord
  <2>3. pc' = "finish" /\ run' = s /\ batch' = batch
    BY <1>12, <2>1 DEF Goto
  <2>4. RunInOrder'
    BY <1>3, <1>4, <1>9, <2>2, <2>3 DEF RunInOrder, WithAccount, Running
  <2>5. Complete(c)'
    BY <1>6, <1>10, <1>12 DEF Complete
  <2>6. ChainSoFar'
    BY <2>2, <2>3, <2>5 DEF ChainSoFar, Complete
  <2>7. QED
    BY <1>1, <1>12, <2>1, <2>2, <2>4, <2>6, ExposureWaits, AttemptGoesOn DEF Running
<1>13. CASE done /\ Observe(r, batch)
  BY <1>1, <1>2, <1>8, <1>13, Observes
<1>14. QED
  BY <1>3, <1>4, <1>6, <1>7, <1>11, <1>12, <1>13 DEF Produce

\* With no open group there is nothing to recover.
LEMMA NothingToRecoverSafe == ASSUME CapitalInvariant, NothingToRecover PROVE CapitalInvariant'
<1>1. StoredOK /\ AttemptTypeOK /\ RunInOrder /\ ChainSoFar /\ UNCHANGED ledgerVars
  BY InTwoHalves DEF NothingToRecover
<1>2. pc = "recover" /\ Goto("account", run) /\ run \in RunRecord
  BY <1>1 DEF NothingToRecover, AttemptTypeOK
<1>3. /\ published' = published /\ receipts' = receipts
      /\ pc' = "account" /\ run' = run /\ batch' = batch
  BY <1>1, <1>2 DEF ledgerVars, Goto
<1>4. RunInOrder'
  BY <1>1, <1>2, <1>3 DEF RunInOrder, WithAccount, Running, ActivePanels
<1>5. ChainSoFar'
  BY <1>1, <1>2, <1>3 DEF ChainSoFar, Running, Decides
<1>6. QED
  BY <1>1, <1>2, <1>4, <1>5, ExposureWaits, AttemptGoesOn DEF Running

-----------------------------------------------------------------------------
(* A group is advanced.                                                     *)

GroupRecord == [status   : {"NONE", "OPEN", "HEDGED", "FLAT"},
                advances : 0 .. MaxAdvances + 1,
                started  : Time \cup {NoTime},
                updated  : Time \cup {NoTime}]
PlanRecord == [by : {"NONE", "target", "review"}, account : Nat, trade : Int]
TargetRecord == [asOf : Time \cup {NoTime}, account : Nat, desired : {0, 1}]

\* What the types say of each entry of the ledgers.
LEMMA Typed ==
    ASSUME LedgerTypeOK
    PROVE  /\ groups \in [Cycles -> GroupRecord] /\ plans \in [Cycles -> PlanRecord]
           /\ targets \in [Cycles -> TargetRecord] /\ approved \in [Cycles -> {Undecided, 0, 1}]
           /\ accounts \in Seq(AccountRecord) /\ HeadAccount \in Nat
           /\ \A i \in 1 .. HeadAccount : accounts[i] \in AccountRecord
           /\ measured \in Nat /\ exposure \in Int
<1>1. accounts \in Seq(AccountRecord)
  BY DEF LedgerTypeOK
<1>2. HeadAccount \in Nat /\ \A i \in 1 .. HeadAccount : accounts[i] \in AccountRecord
  BY <1>1, SeqElement DEF HeadAccount
<1>3. QED
  BY <1>1, <1>2 DEF LedgerTypeOK, GroupRecord, PlanRecord, TargetRecord

\* What an account record is made of.
LEMMA AccountFields ==
    ASSUME NEW a \in AccountRecord
    PROVE  /\ a.asOf \in Nat /\ a.asOf \in Time /\ a.position \in Int
           /\ a.pending \in BOOLEAN /\ a.of \in Cycles \cup {NoCycle} /\ a.advances \in Nat
           /\ a.advances \in 0 .. MaxAdvances + 1
BY Bounds DEF AccountRecord, Time

\* Of the stored half, when the open group of a cycle advances.
LEMMA GroupAdvances ==
    ASSUME StoredOK, NEW c \in Cycles, groups[c].status = "OPEN", NEW t \in Time,
           Advance(c, t), UNCHANGED <<published, accounts, measured, chainVars, receipts>>
    PROVE  /\ StoredOK'
           /\ groups' \in [Cycles -> GroupRecord]
           /\ groups'[c].status # "NONE" /\ groups'[c].updated = t
           /\ groups'[c].advances = groups[c].advances + 1 /\ groups[c].advances \in Nat
           /\ \A d \in Cycles : d # c => groups'[d] = groups[d] /\ groups[d].status # "OPEN"
           /\ exposure \in {0, 1} /\ exposure + plans[c].trade \in {0, 1} =>
                /\ exposure' \in {0, 1}
                /\ \A d \in Cycles : groups'[d].status = "OPEN" => exposure' + plans[d].trade \in {0, 1}
<1>1. /\ published' = published /\ accounts' = accounts /\ measured' = measured
      /\ targets' = targets /\ approved' = approved /\ plans' = plans /\ receipts' = receipts
  BY DEF chainVars
<1>2. /\ LedgerTypeOK /\ groups \in [Cycles -> GroupRecord] /\ plans \in [Cycles -> PlanRecord]
      /\ HeadAccount \in Nat /\ \A i \in 1 .. HeadAccount : accounts[i] \in AccountRecord
      /\ exposure \in Int
  BY Typed DEF StoredOK
<1>3. PICK status \in {"OPEN", "HEDGED", "FLAT"} :
        /\ status = "OPEN" => groups[c].advances < MaxAdvances
        /\ groups' = [groups EXCEPT ![c].status = status,
                                    ![c].advances = @ + 1,
                                    ![c].updated = t]
        /\ exposure' = IF status = "HEDGED" THEN exposure + plans[c].trade ELSE exposure
  BY DEF Advance
<1>4. PICK g : g = [groups[c] EXCEPT !.status = status, !.advances = @ + 1, !.updated = t]
  OBVIOUS
<1>5. /\ status = "OPEN" => groups[c].advances < MaxAdvances
      /\ g = [groups[c] EXCEPT !.status = status, !.advances = @ + 1, !.updated = t]
      /\ groups' = [groups EXCEPT ![c] = g]
      /\ exposure' = IF status = "HEDGED" THEN exposure + plans[c].trade ELSE exposure
  BY <1>2, <1>3, <1>4
<1>6. groups[c].advances \in 0 .. MaxAdvances
  <2>1. groups[c].advances <= MaxAdvances
    BY DEF StoredOK, GroupsInOrder
  <2>2. QED
    BY <1>2, <2>1, Bounds DEF GroupRecord
<1>7. /\ g.status = status /\ g.advances = groups[c].advances + 1 /\ g.updated = t
      /\ g.started = groups[c].started /\ g \in GroupRecord
  <2>1. groups[c].advances + 1 \in 0 .. MaxAdvances + 1
    BY <1>6, Bounds
  <2>2. groups[c] \in GroupRecord
    BY <1>2
  <2>3. QED
    BY <1>5, <2>1, <2>2 DEF GroupRecord
<1>8. /\ groups' \in [Cycles -> GroupRecord] /\ groups'[c] = g
      /\ \A d \in Cycles : d # c => groups'[d] = groups[d] /\ groups[d].status # "OPEN"
  BY <1>2, <1>5, <1>7 DEF StoredOK, GroupsInOrder
<1>9. plans[c].trade \in Int /\ exposure' \in Int
  BY <1>2, <1>5 DEF PlanRecord
<1>10. LedgerTypeOK'
  BY <1>1, <1>2, <1>8, <1>9 DEF LedgerTypeOK, GroupRecord
<1>11. \A d \in Cycles : /\ groups'[d].status = "NONE" <=> groups[d].status = "NONE"
                        /\ groups'[d].started = groups[d].started
                        /\ groups'[d].advances >= groups[d].advances
  <2>1. \A d \in Cycles : groups[d].advances \in Nat
    BY <1>2, Bounds DEF GroupRecord
  <2>2. QED
    BY <1>5, <1>6, <1>7, <1>8, <2>1
<1>12. LedgerInOrder'
  <2>1. LedgerInOrder /\ HeadAccount' = HeadAccount
    BY <1>1 DEF StoredOK, HeadAccount
  <2>2. \A i \in 1 .. HeadAccount : accounts[i].of # NoCycle =>
            accounts[i].advances <= groups'[accounts[i].of].advances
    <3>1. SUFFICES ASSUME NEW i \in 1 .. HeadAccount, accounts[i].of # NoCycle
                   PROVE  accounts[i].advances <= groups'[accounts[i].of].advances
      OBVIOUS
    <3>2. PICK d \in Cycles : d = accounts[i].of
      BY <1>2, <3>1 DEF AccountRecord
    <3>3. accounts[i].advances <= groups[d].advances
      BY <2>1, <3>1, <3>2 DEF LedgerInOrder
    <3>4. accounts[i].advances \in Nat /\ groups[d].advances \in Nat /\ groups'[d].advances \in Nat
      BY <1>2, <1>8, Bounds DEF AccountRecord, GroupRecord
    <3>5. QED
      BY <1>11, <3>2, <3>3, <3>4
  <2>3. QED
    BY <1>1, <2>1, <2>2 DEF LedgerInOrder, AccountsInOrder, DecidedOnMeasured
<1>13. GroupsInOrder'
  <2>1. GroupsInOrder /\ HeadAccount' = HeadAccount /\ Newest' = Newest
    BY <1>1 DEF StoredOK, HeadAccount, Newest
  <2>2. ASSUME NEW d \in Cycles
        PROVE  /\ groups'[d].status = "NONE" => groups'[d] = NoGroup
               /\ groups'[d].status = "OPEN" => groups'[d].advances <= MaxAdvances
    <3>1. CASE d = c
      <4>1. groups[c].advances + 1 <= MaxAdvances \/ status # "OPEN"
        BY <1>5, <1>6, Bounds
      <4>2. QED
        BY <1>5, <1>7, <1>8, <3>1, <4>1
    <3>2. CASE d # c
      BY <1>8, <2>1, <3>2 DEF GroupsInOrder, Begun
    <3>3. QED
      BY <3>1, <3>2
  <2>3. ASSUME NEW d \in Cycles, groups'[d].status # "NONE"
        PROVE  /\ plans[d].by # "NONE"
               /\ HeadAccount > 0 /\ groups'[d].started <= Newest.asOf
               /\ plans[d].by = "target" =>
                    targets[d] # NoTarget /\ groups'[d].started = targets[d].asOf
               /\ plans[d].trade > 0 =>
                    \E p \in ActivePanels(groups'[d].started) : d = PanelCycle(p)
    <3>1. Begun(d) /\ groups'[d].started = groups[d].started
      BY <1>11, <2>3 DEF Begun
    <3>2. QED
      BY <2>1, <3>1 DEF GroupsInOrder
  <2>4. \A d, e \in Cycles : groups'[d].status = "OPEN" /\ groups'[e].status = "OPEN" => d = e
    BY <1>8
  <2>5. QED
    BY <1>1, <2>1, <2>2, <2>3, <2>4 DEF GroupsInOrder, Begun, ActivePanels
<1>14. ReceiptsInOrder'
  <2>1. \A d \in Cycles : Complete(d) => Complete(d)'
    BY <1>1, <1>11 DEF Complete
  <2>2. QED
    BY <1>1, <2>1 DEF StoredOK, ReceiptsInOrder, Decides
<1>15. ASSUME exposure \in {0, 1}, exposure + plans[c].trade \in {0, 1}
       PROVE  /\ exposure' \in {0, 1}
              /\ \A d \in Cycles : groups'[d].status = "OPEN" => exposure' + plans[d].trade \in {0, 1}
  <2>1. exposure' \in {0, 1}
    BY <1>5, <1>15
  <2>2. ASSUME NEW d \in Cycles, groups'[d].status = "OPEN"
        PROVE  exposure' + plans[d].trade \in {0, 1}
    <3>1. d = c /\ status = "OPEN"
      BY <1>7, <1>8, <2>2
    <3>2. QED
      BY <1>5, <1>15, <3>1
  <2>3. QED
    BY <2>1, <2>2
<1>16. StoredOK'
  BY <1>10, <1>12, <1>13, <1>14 DEF StoredOK
<1>17. groups'[c].status # "NONE" /\ groups'[c].updated = t
       /\ groups'[c].advances = groups[c].advances + 1 /\ groups[c].advances \in Nat
  BY <1>5, <1>6, <1>7, <1>8
<1>18. QED
  BY <1>8, <1>15, <1>16, <1>17

\* What an attempt under way holds.
LEMMA UnderWay ==
    ASSUME CapitalInvariant, pc \in Running \ {"choose", "read"}
    PROVE  /\ StoredOK /\ AttemptTypeOK /\ RunInOrder /\ ChainSoFar /\ ExposureIsKnown
           /\ run \in RunRecord /\ run.asOf \in Time /\ run.cycle \in Cycles
           /\ run.account \in Nat /\ run.panel \in {0} \cup Panels
           /\ batch \in Time /\ attempts \in 0 .. MaxAttempts /\ interrupted \in BOOLEAN
<1>1. StoredOK /\ AttemptTypeOK /\ RunInOrder /\ ChainSoFar /\ ExposureIsKnown
  BY InTwoHalves
<1>2. run \in RunRecord /\ batch \in Time /\ attempts \in 0 .. MaxAttempts /\ interrupted \in BOOLEAN
  BY <1>1 DEF AttemptTypeOK
<1>3. run.asOf \in Time /\ run.account \in Nat /\ run.panel \in {0} \cup Panels
  BY <1>2 DEF RunRecord
<1>4. \/ run.cycle = WatchCycle(run.asOf)
      \/ run.panel \in ActivePanels(batch) /\ run.cycle = PanelCycle(run.panel)
  BY <1>1 DEF RunInOrder
<1>5. run.cycle \in Cycles
  BY <1>2, <1>3, <1>4, CyclesApart, NewestIsActive
<1>6. QED
  BY <1>1, <1>2, <1>3, <1>5

\* Recovery advances the open group before anything else is decided.
LEMMA RecoverSafe == ASSUME CapitalInvariant, Recover PROVE CapitalInvariant'
<1>1. pc = "recover" /\ pc \in Running \ {"choose", "read"}
  BY DEF Recover, Running
<1>2. /\ StoredOK /\ AttemptTypeOK /\ RunInOrder /\ ChainSoFar /\ ExposureIsKnown
      /\ run \in RunRecord /\ run.asOf \in Time /\ batch \in Time
      /\ attempts \in 0 .. MaxAttempts /\ interrupted \in BOOLEAN
  BY <1>1, UnderWay
<1>3. UNCHANGED <<published, accounts, measured, chainVars, receipts>>
  BY DEF Recover
<1>4. CASE Reject /\ UNCHANGED venueVars
  <2>1. UNCHANGED ledgerVars
    BY <1>3, <1>4 DEF ledgerVars
  <2>2. StoredOK' /\ accounts' = accounts /\ groups' = groups /\ exposure' = exposure /\ plans' = plans
    BY <1>2, <2>1, StoredStays DEF ledgerVars, chainVars, venueVars
  <2>3. QED
    BY <1>1, <1>2, <1>4, <2>2, AttemptEnds DEF Reject, Goto, Ended
<1>5. ASSUME NEW c \in OpenAt(run.asOf), Advance(c, run.asOf),
             Goto("account", [run EXCEPT !.recovered = TRUE])
      PROVE  CapitalInvariant'
  <2>1. c \in Cycles /\ groups[c].status = "OPEN"
    BY <1>5 DEF OpenAt
  <2>2. PICK r : r = [run EXCEPT !.recovered = TRUE]
    OBVIOUS
  <2>3. /\ r \in RunRecord /\ r.mode = run.mode /\ r.asOf = run.asOf /\ r.cycle = run.cycle
        /\ r.panel = run.panel /\ r.already = run.already /\ r.by = run.by /\ r.executed = run.executed
    BY <1>2, <2>2 DEF RunRecord
  <2>4. /\ published' = published /\ accounts' = accounts /\ plans' = plans /\ receipts' = receipts
        /\ pc' = "account" /\ run' = r /\ batch' = batch /\ attempts' = attempts
        /\ interrupted' = interrupted
    BY <1>3, <1>5, <2>2 DEF Goto, chainVars
  <2>5. StoredOK'
    BY <1>2, <1>3, <1>5, <2>1, GroupAdvances
  <2>6. AttemptTypeOK'
    BY <1>2, <2>3, <2>4 DEF AttemptTypeOK, Running
  <2>7. RunInOrder'
    BY <1>1, <1>2, <2>3, <2>4 DEF RunInOrder, WithAccount, Running, ActivePanels
  <2>8. ChainSoFar'
    BY <1>1, <1>2, <2>3, <2>4 DEF ChainSoFar, Running, Decides
  <2>9. ExposureIsKnown'
    <3>1. SUFFICES ASSUME ~interrupted PROVE ExposureIsKnown'
      BY <2>4 DEF ExposureIsKnown
    <3>2. exposure \in {0, 1} /\ exposure + plans[c].trade \in {0, 1}
      BY <1>2, <2>1, <3>1 DEF ExposureIsKnown
    <3>3. /\ exposure' \in {0, 1}
          /\ \A d \in Cycles : groups'[d].status = "OPEN" => exposure' + plans[d].trade \in {0, 1}
      BY <1>2, <1>3, <1>5, <2>1, <3>2, GroupAdvances
    <3>4. HeadAccount > 0 /\ Newest.pending
      <4>1. HeadAccount > 0
        BY <1>2, <2>1 DEF StoredOK, GroupsInOrder, Begun
      <4>2. QED
        BY <1>1, <1>2, <2>1, <3>1, <4>1 DEF ExposureIsKnown, NewestIsTrue
    <3>5. HeadAccount' = HeadAccount /\ Newest' = Newest
      BY <2>4 DEF HeadAccount, Newest
    <3>6. QED
      BY <2>4, <3>3, <3>4, <3>5 DEF ExposureIsKnown
  <2>10. QED
    BY <2>5, <2>6, <2>7, <2>8, <2>9, InTwoHalves
<1>6. QED
  BY <1>4, <1>5 DEF Recover

\* Execution advances the group of the plan just started.
LEMMA ExecuteSafe == ASSUME CapitalInvariant, Execute PROVE CapitalInvariant'
<1>1. pc = "execute" /\ pc \in Running \ {"choose", "read"}
  BY DEF Execute, Running
<1>2. /\ StoredOK /\ AttemptTypeOK /\ RunInOrder /\ ChainSoFar /\ ExposureIsKnown
      /\ run \in RunRecord /\ run.asOf \in Time /\ run.cycle \in Cycles /\ batch \in Time
      /\ attempts \in 0 .. MaxAttempts /\ interrupted \in BOOLEAN
  BY <1>1, UnderWay
<1>3. UNCHANGED <<published, accounts, measured, chainVars, receipts>>
  BY DEF Execute
<1>4. /\ published' = published /\ accounts' = accounts /\ targets' = targets
      /\ approved' = approved /\ plans' = plans /\ receipts' = receipts
  BY <1>3 DEF chainVars
<1>5. PICK c \in Cycles : c = run.cycle
  BY <1>2
<1>6. HeadAccount' = HeadAccount /\ Newest' = Newest
  BY <1>4 DEF HeadAccount, Newest
<1>7. CASE Goto("project", run)
  <2>1. pc' = "project" /\ run' = run /\ batch' = batch /\ attempts' = attempts
        /\ interrupted' = interrupted
    BY <1>7 DEF Goto
  <2>2. AttemptTypeOK'
    BY <1>2, <2>1 DEF AttemptTypeOK, Running
  <2>3. RunInOrder'
    BY <1>1, <1>2, <1>4, <1>6, <2>1 DEF RunInOrder, WithAccount, Running, ActivePanels
  <2>4. ASSUME \A d \in Cycles : groups[d].status # "NONE" => groups'[d].status # "NONE"
        PROVE  ChainSoFar'
    <3>1. Begun(c) /\ (c \in PanelCycles => Complete(c))
      BY <1>1, <1>2, <1>5 DEF ChainSoFar
    <3>2. Begun(c)' /\ (c \in PanelCycles => Complete(c)')
      BY <1>4, <2>4, <3>1 DEF Begun, Complete
    <3>3. QED
      BY <1>1, <1>2, <1>4, <1>5, <2>1, <3>2 DEF ChainSoFar, Running, Decides, Begun, Complete
  <2>5. CASE groups[c].status = "OPEN" /\ Advance(c, run.asOf)
    <3>1. /\ StoredOK'
          /\ groups'[c].status # "NONE"
          /\ groups'[c].advances = groups[c].advances + 1 /\ groups[c].advances \in Nat
          /\ \A d \in Cycles : d # c => groups'[d] = groups[d] /\ groups[d].status # "OPEN"
      BY <1>2, <1>3, <2>5, GroupAdvances
    <3>2. ExposureIsKnown'
      <4>1. SUFFICES ASSUME ~interrupted PROVE ExposureIsKnown'
        BY <2>1 DEF ExposureIsKnown
      <4>2. exposure \in {0, 1} /\ exposure + plans[c].trade \in {0, 1}
        BY <1>2, <2>5, <4>1 DEF ExposureIsKnown
      <4>3. /\ exposure' \in {0, 1}
            /\ \A d \in Cycles : groups'[d].status = "OPEN" => exposure' + plans[d].trade \in {0, 1}
        BY <1>2, <1>3, <2>5, <4>2, GroupAdvances
      <4>4. \A i \in 1 .. HeadAccount : accounts[i].of = c =>
                accounts[i].advances # groups'[c].advances
        <5>1. SUFFICES ASSUME NEW i \in 1 .. HeadAccount, accounts[i].of = c
                       PROVE  accounts[i].advances # groups[c].advances + 1
          BY <3>1
        <5>2. accounts[i].advances \in Nat
          BY <1>2, Typed, AccountFields DEF StoredOK
        <5>3. accounts[i].advances <= groups[c].advances
          BY <1>2, <5>1, CyclesApart DEF StoredOK, LedgerInOrder
        <5>4. QED
          BY <3>1, <5>2, <5>3
      <4>5. (ExecutionAccounts(run.cycle, run.asOf) = {})'
        BY <1>4, <1>5, <1>6, <2>1, <4>4 DEF ExecutionAccounts
      <4>6. QED
        BY <1>4, <2>1, <4>3, <4>5 DEF ExposureIsKnown
    <3>3. ChainSoFar'
      BY <2>4, <3>1
    <3>4. QED
      BY <2>2, <2>3, <3>1, <3>2, <3>3, InTwoHalves
  <2>6. CASE groups[c].status # "OPEN" /\ UNCHANGED venueVars
    <3>1. StoredOK' /\ groups' = groups /\ exposure' = exposure
      BY <1>2, <1>3, <2>6, StoredStays DEF ledgerVars, venueVars
    <3>2. ChainSoFar'
      BY <2>4, <3>1
    <3>3. ExposureIsKnown'
      <4>1. ~interrupted => NewestIsTrue
        BY <1>1, <1>2, <1>5, <2>6 DEF ExposureIsKnown
      <4>2. NewestIsTrue' <=> NewestIsTrue
        BY <1>6, <3>1 DEF NewestIsTrue
      <4>3. QED
        BY <1>2, <1>4, <2>1, <3>1, <4>1, <4>2 DEF ExposureIsKnown
    <3>4. QED
      BY <2>2, <2>3, <3>1, <3>2, <3>3, InTwoHalves
  <2>7. QED
    BY <1>1, <1>5, <1>7, <2>1, <2>5, <2>6 DEF Execute, Reject, Goto
<1>8. CASE Reject
  <2>1. groups[c].status = "OPEN" /\ ~(run.asOf >= groups[c].updated) /\ UNCHANGED venueVars
    BY <1>5, <1>8 DEF Execute, Reject, Goto
  <2>2. StoredOK' /\ groups' = groups /\ exposure' = exposure
    BY <1>2, <1>3, <2>1, StoredStays DEF ledgerVars, venueVars
  <2>3. ~interrupted => NewestIsTrue
    <3>1. run.asOf \in Nat
      BY <1>2, Bounds DEF Time
    <3>2. groups[c].updated # run.asOf
      BY <2>1, <3>1
    <3>3. QED
      BY <1>1, <1>2, <1>5, <3>2 DEF ExposureIsKnown
  <2>4. QED
    BY <1>2, <1>4, <1>8, <2>2, <2>3, AttemptEnds DEF Reject, Goto, Ended
<1>9. QED
  BY <1>7, <1>8 DEF Execute

-----------------------------------------------------------------------------
(* A snapshot is appended.                                                  *)

\* A projected snapshot tells the exposure unless a group is open by then.
LEMMA ProjectionTells ==
    ASSUME LedgerTypeOK, NEW t \in Time, NEW c \in Cycles \cup {NoCycle},
           NEW a \in Projections(t, c)
    PROVE  /\ a \in AccountRecord /\ a.asOf = t /\ a.of = c
           /\ a.advances = IF c = NoCycle THEN 0 ELSE groups[c].advances
           /\ \/ a.position = exposure
              \/ \E g \in OpenAt(t) : a.position = exposure + plans[g].trade
           /\ a.pending <=> PendingAt(t) # {}
<1>1. /\ groups \in [Cycles -> GroupRecord] /\ plans \in [Cycles -> PlanRecord] /\ exposure \in Int
  BY Typed
<1>2. PICK held \in {exposure} \cup {exposure + plans[g].trade : g \in OpenAt(t)} :
        a = [asOf |-> t, position |-> held, pending |-> PendingAt(t) # {}, of |-> c,
             advances |-> IF c = NoCycle THEN 0 ELSE groups[c].advances, review |-> "NONE"]
  BY DEF Projections
<1>3. held = exposure \/ \E g \in OpenAt(t) : held = exposure + plans[g].trade
  BY <1>2
<1>4. held \in Int
  BY <1>1, <1>3 DEF OpenAt, PlanRecord
<1>5. (IF c = NoCycle THEN 0 ELSE groups[c].advances) \in 0 .. MaxAdvances + 1
  BY <1>1, Bounds DEF GroupRecord
<1>6. (PendingAt(t) # {}) \in BOOLEAN
  OBVIOUS
<1>7. a \in AccountRecord
  BY <1>2, <1>4, <1>5, <1>6 DEF AccountRecord
<1>8. /\ a.asOf = t /\ a.of = c /\ a.position = held /\ (a.pending <=> PendingAt(t) # {})
      /\ a.advances = IF c = NoCycle THEN 0 ELSE groups[c].advances
  BY <1>2
<1>9. QED
  BY <1>3, <1>7, <1>8

\* Of the stored half, when an account is projected behind the newest one.
LEMMA AccountAppends ==
    ASSUME StoredOK, NEW t \in Time, NEW c \in Cycles \cup {NoCycle}, NEW a \in Projections(t, c),
           HeadAccount > 0 => Newest.asOf <= t, a.position >= 0, accounts' = Append(accounts, a),
           UNCHANGED <<published, measured, chainVars, venueVars, receipts>>
    PROVE  /\ StoredOK'
           /\ HeadAccount \in Nat /\ HeadAccount' = HeadAccount + 1
           /\ Newest' = a /\ a.asOf = t
           /\ ~a.pending => NewestIsTrue'
<1>1. /\ LedgerTypeOK /\ LedgerInOrder /\ GroupsInOrder /\ ReceiptsInOrder
      /\ groups \in [Cycles -> GroupRecord]
      /\ accounts \in Seq(AccountRecord) /\ HeadAccount \in Nat
      /\ \A i \in 1 .. HeadAccount : accounts[i] \in AccountRecord
  BY Typed DEF StoredOK
<1>2. /\ published' = published /\ measured' = measured /\ targets' = targets
      /\ approved' = approved /\ plans' = plans /\ groups' = groups /\ exposure' = exposure
      /\ receipts' = receipts
  BY DEF chainVars, venueVars
<1>3. /\ a \in AccountRecord /\ a.asOf = t /\ a.of = c
      /\ a.advances = IF c = NoCycle THEN 0 ELSE groups[c].advances
      /\ \/ a.position = exposure
         \/ \E g \in OpenAt(t) : a.position = exposure + plans[g].trade
      /\ a.pending <=> PendingAt(t) # {}
  BY <1>1, ProjectionTells
<1>4. /\ accounts' \in Seq(AccountRecord) /\ HeadAccount' = HeadAccount + 1
      /\ accounts'[HeadAccount + 1] = a
      /\ \A i \in 1 .. HeadAccount : accounts'[i] = accounts[i]
  BY <1>1, <1>3, SeqAppended DEF HeadAccount
<1>5. Newest' = a
  BY <1>4 DEF Newest
<1>6. \A i \in 1 .. HeadAccount + 1 : i \in 1 .. HeadAccount \/ i = HeadAccount + 1
  BY <1>1
<1>7. t \in Nat /\ \A i \in 1 .. HeadAccount : accounts[i].asOf \in Nat /\ accounts[i].asOf <= t
  <2>1. t \in Nat /\ \A i \in 1 .. HeadAccount : accounts[i].asOf \in Nat
    BY <1>1, AccountFields, Bounds DEF Time
  <2>2. SUFFICES ASSUME NEW i \in 1 .. HeadAccount PROVE accounts[i].asOf <= t
    BY <2>1
  <2>3. HeadAccount > 0 /\ HeadAccount \in 1 .. HeadAccount
    BY <1>1
  <2>4. i < HeadAccount => accounts[i].asOf <= accounts[HeadAccount].asOf
    BY <1>1, <2>3 DEF LedgerInOrder, AccountsInOrder
  <2>5. i = HeadAccount \/ i < HeadAccount
    BY <1>1
  <2>6. accounts[HeadAccount].asOf <= t
    BY <2>3 DEF Newest
  <2>7. QED
    BY <2>1, <2>3, <2>4, <2>5, <2>6
<1>8. LedgerTypeOK'
  BY <1>1, <1>2, <1>4 DEF LedgerTypeOK
<1>9. LedgerInOrder'
  <2>1. AccountsInOrder'
    <3>1. SUFFICES ASSUME NEW i \in 1 .. HeadAccount + 1, NEW j \in 1 .. HeadAccount + 1, i < j
                   PROVE  accounts'[i].asOf <= accounts'[j].asOf
      BY <1>4 DEF AccountsInOrder
    <3>2. i \in 1 .. HeadAccount
      BY <1>1, <3>1
    <3>3. CASE j \in 1 .. HeadAccount
      BY <1>1, <1>4, <3>1, <3>2, <3>3 DEF LedgerInOrder, AccountsInOrder
    <3>4. CASE j = HeadAccount + 1
      BY <1>3, <1>4, <1>7, <3>2, <3>4
    <3>5. QED
      BY <1>6, <3>3, <3>4
  <2>2. ASSUME NEW i \in 1 .. HeadAccount + 1
        PROVE  /\ accounts'[i].position >= 0
               /\ accounts'[i].of # NoCycle => accounts'[i].advances <= groups[accounts'[i].of].advances
    <3>1. CASE i \in 1 .. HeadAccount
      BY <1>1, <1>4, <3>1 DEF LedgerInOrder
    <3>2. CASE i = HeadAccount + 1
      <4>1. c # NoCycle => groups[c].advances \in Nat
        BY <1>1, Bounds DEF GroupRecord
      <4>2. a.of # NoCycle => a.advances <= groups[a.of].advances
        BY <1>3, <4>1
      <4>3. accounts'[i] = a
        BY <1>4, <3>2
      <4>4. QED
        BY <4>2, <4>3
    <3>3. QED
      BY <1>6, <3>1, <3>2
  <2>3. QED
    BY <1>1, <1>2, <1>4, <2>1, <2>2 DEF LedgerInOrder, DecidedOnMeasured
<1>10. GroupsInOrder'
  <2>1. ASSUME NEW d \in Cycles, Begun(d)
        PROVE  HeadAccount + 1 > 0 /\ groups[d].started <= a.asOf
    <3>1. HeadAccount > 0 /\ groups[d].started <= Newest.asOf
      BY <1>1, <2>1 DEF GroupsInOrder
    <3>2. groups[d].started \in Int /\ Newest.asOf \in Nat
      <4>1. groups[d].started \in Time \cup {NoTime}
        BY <1>1 DEF GroupRecord
      <4>2. HeadAccount \in 1 .. HeadAccount
        BY <1>1, <3>1
      <4>3. QED
        BY <1>7, <4>1, <4>2, Bounds DEF Newest, Time, NoTime
    <3>3. QED
      BY <1>1, <1>3, <1>7, <3>1, <3>2
  <2>2. QED
    BY <1>1, <1>2, <1>4, <1>5, <2>1 DEF GroupsInOrder, Begun, ActivePanels
<1>11. ReceiptsInOrder'
  BY <1>1, <1>2 DEF ReceiptsInOrder, Decides, Complete
<1>12. ASSUME ~a.pending PROVE NewestIsTrue'
  <2>1. \A d \in Cycles : groups[d].status # "OPEN"
    <3>1. SUFFICES ASSUME NEW d \in Cycles, groups[d].status = "OPEN" PROVE FALSE
      OBVIOUS
    <3>2. HeadAccount > 0 /\ groups[d].started <= Newest.asOf
      BY <1>1, <3>1 DEF GroupsInOrder, Begun
    <3>3. groups[d].started \in Int /\ Newest.asOf \in Nat
      <4>1. groups[d].started \in Time \cup {NoTime}
        BY <1>1 DEF GroupRecord
      <4>2. HeadAccount \in 1 .. HeadAccount
        BY <1>1, <3>2
      <4>3. QED
        BY <1>7, <4>1, <4>2, Bounds DEF Newest, Time, NoTime
    <3>4. groups[d].started <= t
      BY <1>7, <3>2, <3>3
    <3>5. d \in PendingAt(t)
      BY <3>1, <3>4 DEF PendingAt
    <3>6. QED
      BY <1>3, <1>12, <3>5
  <2>2. OpenAt(t) = {}
    BY <2>1 DEF OpenAt
  <2>3. QED
    BY <1>2, <1>3, <1>5, <2>1, <2>2 DEF NewestIsTrue
<1>13. StoredOK'
  BY <1>8, <1>9, <1>10, <1>11 DEF StoredOK
<1>14. QED
  BY <1>1, <1>3, <1>4, <1>5, <1>12, <1>13

\* While the exposure is known no projection is short.
LEMMA ProjectionInRange ==
    ASSUME StoredOK, ExposureIsKnown, ~interrupted, NEW t \in Time,
           NEW c \in Cycles \cup {NoCycle}, NEW a \in Projections(t, c)
    PROVE  ~(a.position < 0)
<1>1. \/ a.position = exposure
      \/ \E g \in OpenAt(t) : a.position = exposure + plans[g].trade
  BY ProjectionTells DEF StoredOK
<1>2. /\ exposure \in {0, 1}
      /\ \A g \in OpenAt(t) : exposure + plans[g].trade \in {0, 1}
  BY DEF ExposureIsKnown, OpenAt
<1>3. a.position \in {0, 1}
  BY <1>1, <1>2
<1>4. QED
  BY <1>3

\* The account of an attempt is appended, reused or refused.
LEMMA AccountSafe == ASSUME CapitalInvariant, Account PROVE CapitalInvariant'
<1>1. pc = "account" /\ pc \in Running \ {"choose", "read"}
  BY DEF Account, Running
<1>2. /\ StoredOK /\ AttemptTypeOK /\ RunInOrder /\ ChainSoFar /\ ExposureIsKnown
      /\ run \in RunRecord /\ run.asOf \in Time /\ batch \in Time
      /\ attempts \in 0 .. MaxAttempts /\ interrupted \in BOOLEAN
  BY <1>1, UnderWay
<1>3. UNCHANGED <<published, measured, chainVars, venueVars, receipts>>
  BY DEF Account
<1>4. /\ published' = published /\ plans' = plans /\ groups' = groups
      /\ exposure' = exposure /\ receipts' = receipts
  BY <1>3 DEF chainVars, venueVars
<1>5. HeadAccount \in Nat /\ accounts \in Seq(AccountRecord)
      /\ \A i \in 1 .. HeadAccount : accounts[i] \in AccountRecord
  BY <1>2, Typed DEF StoredOK
<1>6. CASE Reject /\ accounts' = accounts
  <2>1. StoredOK'
    BY <1>2, <1>3, <1>6, StoredStays DEF ledgerVars
  <2>2. QED
    BY <1>1, <1>2, <1>4, <1>6, <2>1, AttemptEnds DEF Reject, Goto, Ended
<1>7. ASSUME NEW n \in Nat, n > 0, n = HeadAccount', Newest'.asOf = run.asOf,
             Goto("measure", [run EXCEPT !.account = n]), StoredOK',
             ~interrupted /\ ~Newest'.pending => NewestIsTrue'
      PROVE  CapitalInvariant'
  <2>1. PICK r : r = [run EXCEPT !.account = n]
    OBVIOUS
  <2>2. /\ r \in RunRecord /\ r.mode = run.mode /\ r.asOf = run.asOf /\ r.cycle = run.cycle
        /\ r.panel = run.panel /\ r.already = run.already /\ r.by = run.by
        /\ r.executed = run.executed /\ r.account = n
    BY <1>2, <2>1 DEF RunRecord
  <2>3. pc' = "measure" /\ run' = r /\ batch' = batch /\ attempts' = attempts
        /\ interrupted' = interrupted
    BY <1>7, <2>1 DEF Goto
  <2>4. AttemptTypeOK'
    BY <1>2, <2>2, <2>3 DEF AttemptTypeOK, Running
  <2>5. RunInOrder'
    <3>1. (HeadAccount > 0 /\ run.account = HeadAccount /\ Newest.asOf = run.asOf)'
      BY <1>7, <2>2, <2>3
    <3>2. QED
      BY <1>1, <1>2, <1>4, <2>2, <2>3, <3>1 DEF RunInOrder, Running, ActivePanels
  <2>6. ChainSoFar'
    BY <1>1, <1>2, <1>4, <2>2, <2>3 DEF ChainSoFar, Running, Decides
  <2>7. ExposureIsKnown'
    BY <1>2, <1>4, <1>7, <2>3 DEF ExposureIsKnown
  <2>8. QED
    BY <1>7, <2>4, <2>5, <2>6, <2>7, InTwoHalves
<1>8. CASE /\ HeadAccount > 0 /\ accounts[HeadAccount].asOf = run.asOf
           /\ Goto("measure", [run EXCEPT !.account = HeadAccount])
           /\ UNCHANGED accounts
  <2>1. /\ StoredOK' /\ HeadAccount' = HeadAccount /\ Newest' = Newest
        /\ (NewestIsTrue' <=> NewestIsTrue)
    BY <1>2, <1>3, <1>4, <1>8, StoredStays DEF ledgerVars, HeadAccount, Newest, NewestIsTrue
  <2>2. ~interrupted /\ ~Newest.pending => NewestIsTrue
    BY <1>1, <1>2, <1>8 DEF ExposureIsKnown
  <2>3. Newest.asOf = run.asOf
    BY <1>8 DEF Newest
  <2>4. QED
    BY <1>5, <1>7, <1>8, <2>1, <2>2, <2>3
<1>9. ASSUME NEW a \in Projections(run.asOf, NoCycle), ~(a.position < 0), ~Backdated(run.asOf),
             accounts' = Append(accounts, a),
             Goto("measure", [run EXCEPT !.account = HeadAccount + 1])
      PROVE  CapitalInvariant'
  <2>1. HeadAccount > 0 => Newest.asOf <= run.asOf
    <3>1. SUFFICES ASSUME HeadAccount > 0 PROVE Newest.asOf <= run.asOf
      OBVIOUS
    <3>2. HeadAccount \in 1 .. HeadAccount
      BY <1>5, <3>1
    <3>3. Newest.asOf \in Nat /\ run.asOf \in Nat
      BY <1>2, <1>5, <3>2, AccountFields, Bounds DEF Newest, Time
    <3>4. ~(Newest.asOf > run.asOf)
      BY <1>9, <3>1 DEF Backdated, Newest
    <3>5. QED
      BY <3>3, <3>4
  <2>2. a.position >= 0
    <3>1. a.position \in Int
      BY <1>2, ProjectionTells, AccountFields DEF StoredOK
    <3>2. QED
      BY <1>9, <3>1
  <2>3. /\ StoredOK' /\ HeadAccount' = HeadAccount + 1 /\ Newest' = a /\ a.asOf = run.asOf
        /\ ~a.pending => NewestIsTrue'
    BY <1>2, <1>3, <1>9, <2>1, <2>2, AccountAppends
  <2>4. HeadAccount + 1 \in Nat /\ HeadAccount + 1 > 0
    BY <1>5
  <2>5. QED
    BY <1>7, <1>9, <2>3, <2>4
<1>10. ASSUME ~Backdated(run.asOf), Project(NoCycle, "measure")
       PROVE  CapitalInvariant'
  BY <1>6, <1>9, <1>10 DEF Project
<1>11. QED
  BY <1>6, <1>8, <1>10 DEF Account

\* The account after an execution tells what was executed.
LEMMA ProjectExecutionSafe == ASSUME CapitalInvariant, ProjectExecution PROVE CapitalInvariant'
<1>1. pc = "project" /\ pc \in Running \ {"choose", "read"} /\ pc \in WithAccount
  BY DEF ProjectExecution, Running, WithAccount
<1>2. /\ StoredOK /\ AttemptTypeOK /\ RunInOrder /\ ChainSoFar /\ ExposureIsKnown
      /\ run \in RunRecord /\ run.asOf \in Time /\ run.cycle \in Cycles /\ batch \in Time
      /\ attempts \in 0 .. MaxAttempts /\ interrupted \in BOOLEAN
  BY <1>1, UnderWay
<1>3. UNCHANGED <<published, measured, chainVars, venueVars, receipts>>
  BY DEF ProjectExecution
<1>4. /\ published' = published /\ targets' = targets /\ approved' = approved /\ plans' = plans
      /\ groups' = groups /\ exposure' = exposure /\ receipts' = receipts
  BY <1>3 DEF chainVars, venueVars
<1>5. HeadAccount \in Nat /\ HeadAccount > 0 /\ Newest.asOf = run.asOf
  BY <1>1, <1>2, Typed DEF StoredOK, RunInOrder
<1>6. ASSUME NEW n \in Nat, Goto("remeasure", [run EXCEPT !.account = n]), StoredOK',
             HeadAccount' \in Nat, ~interrupted /\ ~Newest'.pending => NewestIsTrue'
      PROVE  CapitalInvariant'
  <2>1. PICK r : r = [run EXCEPT !.account = n]
    OBVIOUS
  <2>2. /\ r \in RunRecord /\ r.mode = run.mode /\ r.asOf = run.asOf /\ r.cycle = run.cycle
        /\ r.panel = run.panel /\ r.already = run.already /\ r.by = run.by
        /\ r.executed = run.executed /\ r.account = n
    BY <1>2, <2>1 DEF RunRecord
  <2>3. pc' = "remeasure" /\ run' = r /\ batch' = batch /\ attempts' = attempts
        /\ interrupted' = interrupted
    BY <1>6, <2>1 DEF Goto
  <2>4. AttemptTypeOK'
    BY <1>2, <2>2, <2>3 DEF AttemptTypeOK, Running
  <2>5. RunInOrder'
    BY <1>1, <1>2, <1>4, <2>2, <2>3 DEF RunInOrder, Running, ActivePanels, WithAccount
  <2>6. ChainSoFar'
    <3>1. Begun(run.cycle) /\ (run.cycle \in PanelCycles => Complete(run.cycle))
      BY <1>1, <1>2 DEF ChainSoFar
    <3>2. PICK c : c = run.cycle
      OBVIOUS
    <3>3. Begun(c)' /\ (c \in PanelCycles => Complete(c)')
      BY <1>4, <3>1, <3>2 DEF Begun, Complete
    <3>4. QED
      BY <1>1, <1>2, <1>4, <2>2, <2>3, <3>2, <3>3 DEF ChainSoFar, Running, Decides, Begun, Complete
  <2>7. ExposureIsKnown'
    BY <1>2, <1>4, <1>6, <2>3 DEF ExposureIsKnown
  <2>8. QED
    BY <1>6, <2>4, <2>5, <2>6, <2>7, InTwoHalves
<1>7. ASSUME NEW i \in ExecutionAccounts(run.cycle, run.asOf),
             Goto("remeasure", [run EXCEPT !.account = i]), accounts' = accounts
      PROVE  CapitalInvariant'
  <2>1. /\ StoredOK' /\ HeadAccount' = HeadAccount /\ Newest' = Newest
        /\ (NewestIsTrue' <=> NewestIsTrue)
    BY <1>2, <1>3, <1>4, <1>7, StoredStays DEF ledgerVars, HeadAccount, Newest, NewestIsTrue
  <2>2. ~interrupted => NewestIsTrue
    BY <1>1, <1>2, <1>7 DEF ExposureIsKnown
  <2>3. i \in Nat
    BY <1>5, <1>7 DEF ExecutionAccounts
  <2>4. QED
    BY <1>5, <1>6, <1>7, <2>1, <2>2, <2>3
<1>8. ASSUME NEW a \in Projections(run.asOf, run.cycle), a.position < 0, Reject, accounts' = accounts
      PROVE  CapitalInvariant'
  <2>1. StoredOK'
    BY <1>2, <1>3, <1>8, StoredStays DEF ledgerVars
  <2>2. interrupted
    BY <1>2, <1>8, ProjectionInRange
  <2>3. QED
    BY <1>2, <1>4, <1>8, <2>1, <2>2, AttemptEnds DEF Reject, Goto, Ended
<1>9. ASSUME NEW a \in Projections(run.asOf, run.cycle), ~(a.position < 0),
             accounts' = Append(accounts, a),
             Goto("remeasure", [run EXCEPT !.account = HeadAccount + 1])
      PROVE  CapitalInvariant'
  <2>1. Newest.asOf <= run.asOf
    BY <1>2, <1>5, Bounds DEF Time
  <2>2. a.position >= 0
    <3>1. a.position \in Int
      BY <1>2, ProjectionTells, AccountFields DEF StoredOK
    <3>2. QED
      BY <1>9, <3>1
  <2>3. /\ StoredOK' /\ HeadAccount' = HeadAccount + 1 /\ Newest' = a
        /\ ~a.pending => NewestIsTrue'
    BY <1>2, <1>3, <1>9, <2>1, <2>2, AccountAppends
  <2>4. HeadAccount + 1 \in Nat
    BY <1>5
  <2>5. QED
    BY <1>6, <1>9, <2>3, <2>4
<1>10. QED
  BY <1>7, <1>8, <1>9 DEF ProjectExecution, Project

-----------------------------------------------------------------------------
(* The accounts are measured, and the batch has its receipt.                *)

\* Measuring reaches further than before.
LEMMA MeasureReaches ==
    ASSUME StoredOK, NEW i \in Nat, measured' = MeasuredBy(i),
           UNCHANGED <<published, accounts, chainVars, venueVars, receipts>>
    PROVE  StoredOK' /\ measured' \in Nat /\ measured <= measured' /\ i <= measured'
<1>1. measured \in Nat /\ LedgerTypeOK /\ targets \in [Cycles -> TargetRecord]
  BY Typed DEF StoredOK
<1>2. measured' \in Nat /\ measured <= measured' /\ i <= measured'
  BY <1>1 DEF MeasuredBy
<1>3. /\ published' = published /\ accounts' = accounts /\ targets' = targets
      /\ approved' = approved /\ plans' = plans /\ groups' = groups /\ exposure' = exposure
      /\ receipts' = receipts
  BY DEF chainVars, venueVars
<1>4. LedgerTypeOK'
  BY <1>1, <1>2, <1>3 DEF LedgerTypeOK
<1>5. LedgerInOrder'
  <2>1. ASSUME NEW c \in Cycles, targets[c] # NoTarget PROVE targets[c].account <= measured'
    <3>1. targets[c].account <= measured
      BY <2>1 DEF StoredOK, LedgerInOrder, DecidedOnMeasured
    <3>2. targets[c].account \in Nat
      BY <1>1 DEF TargetRecord
    <3>3. QED
      BY <1>1, <1>2, <3>1, <3>2
  <2>2. QED
    BY <1>3, <2>1 DEF StoredOK, LedgerInOrder, AccountsInOrder, DecidedOnMeasured, HeadAccount
<1>6. GroupsInOrder'
  BY <1>3 DEF StoredOK, GroupsInOrder, Begun, HeadAccount, Newest, ActivePanels
<1>7. ReceiptsInOrder'
  BY <1>3 DEF StoredOK, ReceiptsInOrder, Decides, Complete
<1>8. QED
  BY <1>2, <1>4, <1>5, <1>6, <1>7 DEF StoredOK

\* The exposure stays known while the newest account only changes its review
\* and begun groups keep their plans.
LEMMA ExposureCarried ==
    ASSUME ExposureIsKnown, interrupted' = interrupted,
           HeadAccount' = HeadAccount, Newest'.position = Newest.position,
           Newest'.pending = Newest.pending, groups' = groups, exposure' = exposure,
           \A c \in Cycles : groups[c].status = "OPEN" => plans'[c] = plans[c],
           pc \notin {"execute", "project"}, pc' \notin {"execute", "project"}
    PROVE  ExposureIsKnown'
<1>1. NewestIsTrue' <=> NewestIsTrue
  BY DEF NewestIsTrue
<1>2. QED
  BY <1>1 DEF ExposureIsKnown

\* An attempt with nothing to execute ends, or goes to its receipt.
LEMMA Concludes ==
    ASSUME CapitalInvariant, pc \in {"measure", "protect", "plan"}, Conclude(run), StoredOK',
           published' = published, receipts' = receipts,
           NEW c, c = run.cycle, c \in PanelCycles => Complete(c)',
           HeadAccount' = HeadAccount, Newest'.position = Newest.position,
           Newest'.pending = Newest.pending, groups' = groups, exposure' = exposure,
           \A d \in Cycles : groups[d].status = "OPEN" => plans'[d] = plans[d]
    PROVE  CapitalInvariant'
<1>1. pc \in Running \ {"choose", "read"} /\ pc \notin {"execute", "project"}
  BY DEF Running
<1>2. /\ RunInOrder /\ ChainSoFar /\ ExposureIsKnown
      /\ run \in RunRecord /\ batch \in Time
      /\ attempts \in 0 .. MaxAttempts /\ interrupted \in BOOLEAN
  BY <1>1, UnderWay
<1>3. /\ batch' = batch /\ attempts' = attempts /\ interrupted' = interrupted
      /\ \/ pc' = "done" /\ run' = NoRun
         \/ pc' = "finish" /\ run' = run /\ run.mode # "replay"
  BY DEF Conclude, Goto
<1>4. AttemptTypeOK'
  BY <1>2, <1>3, NoRunIsTyped DEF AttemptTypeOK, Running, Ended
<1>5. RunInOrder'
  BY <1>1, <1>2, <1>3 DEF RunInOrder, WithAccount, Running, ActivePanels
<1>6. ChainSoFar'
  <2>1. CASE pc' = "done"
    BY <2>1 DEF ChainSoFar, Running
  <2>2. CASE pc' = "finish" /\ run' = run
    BY <1>1, <1>2, <2>2 DEF ChainSoFar, Running, Decides, Complete
  <2>3. QED
    BY <1>3, <2>1, <2>2
<1>7. ExposureIsKnown'
  BY <1>1, <1>2, <1>3, ExposureCarried
<1>8. QED
  BY <1>4, <1>5, <1>6, <1>7, InTwoHalves

\* The interval of an account is measured against the one before it.
LEMMA MeasureSafe == ASSUME CapitalInvariant, Measure PROVE CapitalInvariant'
<1>1. pc = "measure" /\ pc \in Running \ {"choose", "read"} /\ pc \in WithAccount
  BY DEF Measure, Running, WithAccount
<1>2. /\ StoredOK /\ AttemptTypeOK /\ RunInOrder /\ ChainSoFar /\ ExposureIsKnown
      /\ run \in RunRecord /\ run.account \in Nat /\ batch \in Time
      /\ attempts \in 0 .. MaxAttempts /\ interrupted \in BOOLEAN
  BY <1>1, UnderWay
<1>3. UNCHANGED <<published, accounts, chainVars, venueVars, receipts>>
  BY DEF Measure
<1>4. /\ published' = published /\ accounts' = accounts /\ targets' = targets
      /\ approved' = approved /\ plans' = plans
      /\ groups' = groups /\ exposure' = exposure /\ receipts' = receipts
  BY <1>3 DEF chainVars, venueVars
<1>5. HeadAccount' = HeadAccount /\ Newest' = Newest
  BY <1>4 DEF HeadAccount, Newest
<1>6. CASE Reject /\ UNCHANGED measured
  <2>1. StoredOK'
    BY <1>2, <1>3, <1>6, StoredStays DEF ledgerVars
  <2>2. QED
    BY <1>1, <1>2, <1>4, <1>6, <2>1, AttemptEnds DEF Reject, Goto, Ended
<1>7. ASSUME measured' = MeasuredBy(run.account) PROVE StoredOK' /\ run.account <= measured'
  BY <1>2, <1>3, <1>7, MeasureReaches
<1>8. ASSUME NEW next \in {"decide", "protect"}, measured' = MeasuredBy(run.account),
             Goto(next, run), next = "protect" => run.cycle \notin PanelCycles
      PROVE  CapitalInvariant'
  <2>1. StoredOK' /\ run.account <= measured'
    BY <1>7, <1>8
  <2>2. pc' = next /\ run' = run /\ batch' = batch /\ attempts' = attempts
        /\ interrupted' = interrupted
    BY <1>8 DEF Goto
  <2>3. AttemptTypeOK'
    BY <1>2, <2>2 DEF AttemptTypeOK, Running
  <2>4. RunInOrder'
    BY <1>1, <1>2, <1>4, <1>5, <1>8, <2>1, <2>2 DEF RunInOrder, WithAccount, Running, ActivePanels
  <2>5. ChainSoFar'
    BY <1>1, <1>2, <1>4, <2>2 DEF ChainSoFar, Running, Decides
  <2>6. ExposureIsKnown'
    BY <1>1, <1>2, <1>4, <1>8, <2>2, ExposureStays
  <2>7. QED
    BY <2>1, <2>3, <2>4, <2>5, <2>6, InTwoHalves
<1>9. CASE /\ measured' = MeasuredBy(run.account) /\ run.cycle \notin PanelCycles
           /\ Conclude(run)
  <2>1. PICK c : c = run.cycle /\ c \notin PanelCycles
    BY <1>9
  <2>2. QED
    BY <1>1, <1>4, <1>5, <1>7, <1>9, <2>1, Concludes
<1>10. QED
  BY <1>6, <1>8, <1>9 DEF Measure

\* So is that of the account after an execution.
LEMMA RemeasureSafe == ASSUME CapitalInvariant, Remeasure PROVE CapitalInvariant'
<1>1. pc = "remeasure" /\ pc \in Running \ {"choose", "read"}
  BY DEF Remeasure, Running
<1>2. /\ StoredOK /\ AttemptTypeOK /\ RunInOrder /\ ChainSoFar /\ ExposureIsKnown
      /\ run \in RunRecord /\ run.account \in Nat /\ batch \in Time
      /\ attempts \in 0 .. MaxAttempts /\ interrupted \in BOOLEAN
  BY <1>1, UnderWay
<1>3. UNCHANGED <<published, accounts, chainVars, venueVars, receipts>>
  BY DEF Remeasure
<1>4. /\ published' = published /\ accounts' = accounts /\ targets' = targets
      /\ approved' = approved /\ plans' = plans
      /\ groups' = groups /\ exposure' = exposure /\ receipts' = receipts
  BY <1>3 DEF chainVars, venueVars
<1>5. StoredOK'
  <2>1. CASE UNCHANGED measured
    BY <1>2, <1>3, <2>1, StoredStays DEF ledgerVars
  <2>2. CASE measured' = MeasuredBy(run.account)
    BY <1>2, <1>3, <2>2, MeasureReaches
  <2>3. QED
    BY <2>1, <2>2 DEF Remeasure
<1>6. CASE Reject \/ Goto("done", NoRun)
  BY <1>1, <1>2, <1>4, <1>5, <1>6, AttemptEnds DEF Reject, Goto, Ended
<1>7. CASE run.mode # "replay" /\ Goto("finish", [run EXCEPT !.executed = TRUE])
  <2>1. PICK r : r = [run EXCEPT !.executed = TRUE]
    OBVIOUS
  <2>2. /\ r \in RunRecord /\ r.mode = run.mode /\ r.asOf = run.asOf /\ r.cycle = run.cycle
        /\ r.panel = run.panel /\ r.already = run.already /\ r.by = run.by
        /\ r.executed /\ r.account = run.account
    BY <1>2, <2>1 DEF RunRecord
  <2>3. pc' = "finish" /\ run' = r /\ batch' = batch /\ attempts' = attempts
        /\ interrupted' = interrupted
    BY <1>7, <2>1 DEF Goto
  <2>4. AttemptTypeOK'
    BY <1>2, <2>2, <2>3 DEF AttemptTypeOK, Running
  <2>5. RunInOrder'
    BY <1>1, <1>2, <1>4, <1>7, <2>2, <2>3 DEF RunInOrder, WithAccount, Running, ActivePanels
  <2>6. ChainSoFar'
    <3>1. run.cycle \in PanelCycles => Complete(run.cycle)
      BY <1>1, <1>2 DEF ChainSoFar
    <3>2. PICK c : c = run.cycle
      OBVIOUS
    <3>3. c \in PanelCycles => Complete(c)'
      BY <1>4, <3>1, <3>2 DEF Complete
    <3>4. QED
      BY <1>1, <1>2, <1>4, <2>2, <2>3, <3>2, <3>3 DEF ChainSoFar, Running, Decides, Complete
  <2>7. ExposureIsKnown'
    BY <1>1, <1>2, <1>4, <2>3, ExposureStays
  <2>8. QED
    BY <1>5, <2>4, <2>5, <2>6, <2>7, InTwoHalves
<1>8. QED
  BY <1>6, <1>7 DEF Remeasure

\* The receipt names the target of its attempt, or repeats an earlier one.
LEMMA FinishSafe == ASSUME CapitalInvariant, Finish PROVE CapitalInvariant'
<1>1. pc = "finish" /\ pc \in Running \ {"choose", "read"} /\ pc \notin {"execute", "project"}
  BY DEF Finish, Running
<1>2. /\ StoredOK /\ AttemptTypeOK /\ RunInOrder /\ ChainSoFar /\ ExposureIsKnown
      /\ LedgerTypeOK /\ LedgerInOrder /\ GroupsInOrder /\ ReceiptsInOrder
      /\ run \in RunRecord /\ run.asOf \in Time /\ run.cycle \in Cycles
      /\ run.panel \in {0} \cup Panels /\ batch \in Time
      /\ attempts \in 0 .. MaxAttempts /\ interrupted \in BOOLEAN
  BY <1>1, UnderWay DEF StoredOK
<1>3. UNCHANGED <<published, accounts, measured, chainVars, venueVars>>
  BY DEF Finish
<1>4. /\ published' = published /\ accounts' = accounts /\ measured' = measured
      /\ targets' = targets /\ approved' = approved /\ plans' = plans
      /\ groups' = groups /\ exposure' = exposure
  BY <1>3 DEF chainVars, venueVars
<1>5. CASE Reject /\ UNCHANGED receipts
  <2>1. StoredOK'
    BY <1>2, <1>3, <1>5, StoredStays DEF ledgerVars
  <2>2. QED
    BY <1>1, <1>2, <1>4, <1>5, <2>1, AttemptEnds DEF Reject, Goto, Ended
<1>6. PICK account, outcome, target :
        /\ account = LatestAccount(batch)
        /\ outcome = ReceiptOutcome(run, account)
        /\ target = IF outcome = "RISK_EXIT" THEN NoCycle ELSE Decided(run)
  OBVIOUS
<1>7. CASE /\ ~(account = 0 \/ (run.panel # 0 /\ target \notin {NoCycle, PanelCycle(run.panel)}))
           /\ receipts' = [receipts EXCEPT ![batch] =
                              [outcome |-> outcome, target |-> target, account |-> account]]
           /\ Goto("done", NoRun)
  <2>1. run.panel # 0 => run.panel \in Panels
    BY <1>2
  <2>2. target \in Cycles \cup {NoCycle}
    BY <1>2, <1>6, <2>1, CyclesApart DEF Decided
  <2>3. outcome \in Outcomes
    BY <1>6 DEF ReceiptOutcome, Outcomes
  <2>4. account \in Nat
    BY <1>2, <1>6, LatestIsOne
  <2>5. PICK receipt : receipt = [outcome |-> outcome, target |-> target, account |-> account]
    OBVIOUS
  <2>6. receipt.outcome = outcome /\ receipt.target = target
    BY <2>5
  <2>7. /\ receipts' \in [Time -> [outcome : Outcomes, target : Cycles \cup {NoCycle}, account : Nat]]
        /\ receipts'[batch] = receipt
        /\ \A t \in Time : t # batch => receipts'[t] = receipts[t]
    BY <1>2, <1>7, <2>2, <2>3, <2>4, <2>5 DEF LedgerTypeOK
  <2>8. LedgerTypeOK'
    BY <1>2, <1>4, <2>7 DEF LedgerTypeOK
  <2>9. LedgerInOrder'
    BY <1>2, <1>4 DEF LedgerInOrder, AccountsInOrder, DecidedOnMeasured, HeadAccount
  <2>10. GroupsInOrder'
    BY <1>2, <1>4 DEF GroupsInOrder, Begun, HeadAccount, Newest, ActivePanels
  <2>11. ASSUME outcome = "TARGET_DECIDED", target # NoCycle
         PROVE  IF target \in PanelCycles
                THEN Complete(target) /\ \A t \in Time : ~Decides(t, target)
                ELSE target = WatchCycle(batch)
    <3>1. target = Decided(run) /\ ~run.already
      BY <1>6, <2>11 DEF ReceiptOutcome
    <3>2. run.asOf = batch
      BY <1>1, <1>2 DEF RunInOrder
    <3>3. \/ run.cycle = WatchCycle(batch)
          \/ run.panel \in ActivePanels(batch) /\ run.cycle = PanelCycle(run.panel)
      BY <1>1, <1>2, <3>2 DEF RunInOrder
    <3>4. CASE run.panel = 0
      <4>1. 0 \notin ActivePanels(batch)
        <5>1. 0 \notin Panels
          BY Bounds DEF Panels
        <5>2. QED
          BY <1>2, <5>1, NewestIsActive
      <4>2. run.cycle = WatchCycle(batch)
        BY <3>3, <3>4, <4>1
      <4>3. target = WatchCycle(batch)
        BY <2>11, <3>1, <3>4, <4>2 DEF Decided
      <4>4. QED
        BY <1>2, <4>3, CyclesApart
    <3>5. CASE run.panel # 0
      <4>1. run.panel \in Panels /\ run.cycle = PanelCycle(run.panel)
        BY <1>1, <1>2, <3>1, <3>5 DEF RunInOrder
      <4>2. target = PanelCycle(run.panel)
        BY <1>7, <2>11, <3>5
      <4>3. target \in PanelCycles /\ target = run.cycle
        BY <4>1, <4>2, CyclesApart
      <4>4. Complete(run.cycle) /\ \A t \in Time : ~Decides(t, PanelCycle(run.panel))
        BY <1>1, <1>2, <3>1, <3>5, <4>3 DEF ChainSoFar
      <4>5. QED
        BY <4>2, <4>3, <4>4
    <3>6. QED
      BY <3>4, <3>5
  <2>12. \A t \in Time, c \in Cycles : Decides(t, c)' =>
            IF t = batch THEN c = target /\ outcome = "TARGET_DECIDED" ELSE Decides(t, c)
    BY <2>6, <2>7 DEF Decides
  <2>13. NoCycle \notin Cycles
    BY CyclesApart
  <2>14. ASSUME NEW t \in Time, NEW c \in Cycles, Decides(t, c)'
         PROVE  IF c \in PanelCycles THEN Complete(c) ELSE c = WatchCycle(t)
    <3>1. CASE t = batch
      BY <2>11, <2>12, <2>13, <2>14, <3>1
    <3>2. CASE t # batch
      BY <1>2, <2>12, <2>14, <3>2 DEF ReceiptsInOrder
    <3>3. QED
      BY <3>1, <3>2
  <2>15. ASSUME NEW t \in Time, NEW u \in Time, NEW c \in Cycles, t # batch, u = batch,
                Decides(t, c)', Decides(u, c)'
         PROVE  FALSE
    <3>1. c = target /\ outcome = "TARGET_DECIDED" /\ Decides(t, c) /\ target # NoCycle
      <4>1. c = target /\ outcome = "TARGET_DECIDED"
        BY <2>12, <2>15
      <4>2. Decides(t, c)
        BY <2>12, <2>15
      <4>3. QED
        BY <2>13, <4>1, <4>2
    <3>2. CASE c \in PanelCycles
      BY <2>11, <3>1, <3>2
    <3>3. CASE c \notin PanelCycles
      <4>1. c = WatchCycle(batch) /\ c = WatchCycle(t)
        BY <1>2, <2>11, <3>1, <3>3 DEF ReceiptsInOrder
      <4>2. QED
        BY <1>2, <2>15, <4>1, CyclesApart
    <3>4. QED
      BY <3>2, <3>3
  <2>16. ASSUME NEW t \in Time, NEW u \in Time, NEW c \in Cycles, Decides(t, c)', Decides(u, c)'
         PROVE  t = u
    <3>1. CASE t = batch
      BY <2>15, <2>16, <3>1
    <3>2. CASE u = batch
      BY <2>15, <2>16, <3>2
    <3>3. CASE t # batch /\ u # batch
      BY <1>2, <2>12, <2>16, <3>3 DEF ReceiptsInOrder
    <3>4. QED
      BY <3>1, <3>2, <3>3
  <2>17. \A c \in Cycles : Complete(c)' <=> Complete(c)
    BY <1>4 DEF Complete
  <2>18. ReceiptsInOrder'
    BY <2>14, <2>16, <2>17 DEF ReceiptsInOrder
  <2>19. StoredOK'
    BY <2>8, <2>9, <2>10, <2>18 DEF StoredOK
  <2>20. QED
    BY <1>1, <1>2, <1>4, <1>7, <2>19, AttemptEnds DEF Goto, Ended
<1>8. QED
  BY <1>5, <1>6, <1>7 DEF Finish

-----------------------------------------------------------------------------
(* The decision: each record is kept as it was first written.               *)

\* A snapshot gets its holding review.
LEMMA ReviewKeeps ==
    ASSUME StoredOK, NEW k \in 1 .. HeadAccount, NEW o \in {"DEFER", "HOLD", "EXIT"},
           accounts' = [accounts EXCEPT ![k].review = o],
           UNCHANGED <<published, measured, chainVars, venueVars, receipts>>
    PROVE  /\ StoredOK' /\ HeadAccount' = HeadAccount
           /\ \A i \in 1 .. HeadAccount :
                /\ accounts'[i].asOf = accounts[i].asOf /\ accounts'[i].position = accounts[i].position
                /\ accounts'[i].pending = accounts[i].pending
<1>1. /\ LedgerTypeOK /\ LedgerInOrder /\ GroupsInOrder /\ ReceiptsInOrder
      /\ accounts \in Seq(AccountRecord) /\ HeadAccount \in Nat
      /\ \A i \in 1 .. HeadAccount : accounts[i] \in AccountRecord
  BY Typed DEF StoredOK
<1>2. /\ published' = published /\ measured' = measured /\ targets' = targets
      /\ approved' = approved /\ plans' = plans /\ groups' = groups /\ exposure' = exposure
      /\ receipts' = receipts
  BY DEF chainVars, venueVars
<1>3. PICK b : b = [accounts[k] EXCEPT !.review = o]
  OBVIOUS
<1>4. /\ b \in AccountRecord /\ b.asOf = accounts[k].asOf /\ b.position = accounts[k].position
      /\ b.pending = accounts[k].pending /\ b.of = accounts[k].of
      /\ b.advances = accounts[k].advances
  <2>1. accounts[k] \in AccountRecord
    BY <1>1
  <2>2. QED
    BY <1>3, <2>1 DEF AccountRecord
<1>5. accounts' = [accounts EXCEPT ![k] = b]
  BY <1>3
<1>6. /\ accounts' \in Seq(AccountRecord) /\ HeadAccount' = HeadAccount /\ accounts'[k] = b
      /\ \A i \in 1 .. HeadAccount : i # k => accounts'[i] = accounts[i]
  BY <1>1, <1>4, <1>5, SeqReplaced DEF HeadAccount
<1>7. \A i \in 1 .. HeadAccount :
        /\ accounts'[i].asOf = accounts[i].asOf /\ accounts'[i].position = accounts[i].position
        /\ accounts'[i].pending = accounts[i].pending /\ accounts'[i].of = accounts[i].of
        /\ accounts'[i].advances = accounts[i].advances
  BY <1>4, <1>6
<1>8. LedgerTypeOK'
  BY <1>1, <1>2, <1>6 DEF LedgerTypeOK
<1>9. LedgerInOrder'
  <2>1. AccountsInOrder'
    BY <1>1, <1>6, <1>7 DEF LedgerInOrder, AccountsInOrder
  <2>2. \A i \in 1 .. HeadAccount :
          /\ accounts'[i].position >= 0
          /\ accounts'[i].of # NoCycle => accounts'[i].advances <= groups[accounts'[i].of].advances
    BY <1>1, <1>7 DEF LedgerInOrder
  <2>3. QED
    BY <1>1, <1>2, <1>6, <2>1, <2>2 DEF LedgerInOrder, DecidedOnMeasured
<1>10. GroupsInOrder'
  <2>1. HeadAccount > 0 => Newest'.asOf = Newest.asOf
    <3>1. HeadAccount > 0 => HeadAccount \in 1 .. HeadAccount
      BY <1>1
    <3>2. QED
      BY <1>6, <1>7, <3>1 DEF Newest
  <2>2. QED
    BY <1>1, <1>2, <1>6, <2>1 DEF GroupsInOrder, Begun, ActivePanels
<1>11. ReceiptsInOrder'
  BY <1>1, <1>2 DEF ReceiptsInOrder, Decides, Complete
<1>12. QED
  BY <1>6, <1>7, <1>8, <1>9, <1>10, <1>11 DEF StoredOK

\* Protection decides a target that only reduces.
LEMMA ProtectSafe == ASSUME CapitalInvariant, Protect PROVE CapitalInvariant'
<1>1. pc = "protect" /\ pc \in Running \ {"choose", "read"} /\ pc \in WithAccount
  BY DEF Protect, Running, WithAccount
<1>2. /\ StoredOK /\ AttemptTypeOK /\ RunInOrder /\ ChainSoFar /\ ExposureIsKnown
      /\ run \in RunRecord /\ run.account \in Nat /\ batch \in Time
      /\ attempts \in 0 .. MaxAttempts /\ interrupted \in BOOLEAN
  BY <1>1, UnderWay
<1>3. UNCHANGED <<published, measured, chainVars, venueVars, receipts>>
  BY DEF Protect
<1>4. /\ published' = published /\ measured' = measured /\ plans' = plans
      /\ groups' = groups /\ exposure' = exposure /\ receipts' = receipts
  BY <1>3 DEF chainVars, venueVars
<1>5. /\ HeadAccount \in Nat /\ HeadAccount > 0 /\ run.account = HeadAccount
      /\ Newest.asOf = run.asOf /\ run.account <= measured /\ run.cycle \notin PanelCycles
      /\ HeadAccount \in 1 .. HeadAccount
  BY <1>1, <1>2, Typed DEF StoredOK, RunInOrder
<1>6. CASE Reject /\ UNCHANGED accounts
  <2>1. StoredOK'
    BY <1>2, <1>3, <1>6, StoredStays DEF ledgerVars
  <2>2. QED
    BY <1>1, <1>2, <1>4, <1>6, <2>1, AttemptEnds DEF Reject, Goto, Ended
<1>7. ASSUME NEW o \in {"DEFER", "HOLD", "EXIT"},
             accounts' = [accounts EXCEPT ![run.account].review = o],
             \/ Goto("plan", [run EXCEPT !.by = "review"])
             \/ Goto("decide", run)
             \/ Conclude(run)
      PROVE  CapitalInvariant'
  <2>1. /\ StoredOK' /\ HeadAccount' = HeadAccount /\ Newest'.asOf = Newest.asOf
        /\ Newest'.position = Newest.position /\ Newest'.pending = Newest.pending
    BY <1>2, <1>3, <1>5, <1>7, ReviewKeeps DEF Newest
  <2>2. ASSUME NEW next \in {"plan", "decide"}, NEW r \in RunRecord, Goto(next, r),
               r.mode = run.mode, r.asOf = run.asOf, r.cycle = run.cycle, r.panel = run.panel,
               r.already = run.already, r.account = run.account,
               next = "plan" => r.by = "review"
        PROVE  CapitalInvariant'
    <3>1. pc' = next /\ run' = r /\ batch' = batch /\ attempts' = attempts
          /\ interrupted' = interrupted
      BY <2>2 DEF Goto
    <3>2. AttemptTypeOK'
      BY <1>2, <2>2, <3>1 DEF AttemptTypeOK, Running
    <3>3. RunInOrder'
      BY <1>1, <1>2, <1>4, <1>5, <2>1, <2>2, <3>1
      DEF RunInOrder, WithAccount, Running, ActivePanels
    <3>4. ChainSoFar'
      BY <1>1, <1>2, <1>4, <1>5, <2>2, <3>1 DEF ChainSoFar, Running, Decides
    <3>5. ExposureIsKnown'
      BY <1>1, <1>2, <1>4, <2>1, <2>2, <3>1, ExposureCarried
    <3>6. QED
      BY <2>1, <3>2, <3>3, <3>4, <3>5, InTwoHalves
  <2>3. CASE Goto("plan", [run EXCEPT !.by = "review"])
    <3>1. PICK r : r = [run EXCEPT !.by = "review"]
      OBVIOUS
    <3>2. /\ r \in RunRecord /\ r.mode = run.mode /\ r.asOf = run.asOf /\ r.cycle = run.cycle
          /\ r.panel = run.panel /\ r.already = run.already /\ r.account = run.account
          /\ r.by = "review"
      BY <1>2, <3>1 DEF RunRecord
    <3>3. QED
      BY <2>2, <2>3, <3>1, <3>2
  <2>4. CASE Goto("decide", run)
    BY <1>2, <2>2, <2>4
  <2>5. CASE Conclude(run)
    <3>1. PICK c : c = run.cycle /\ c \notin PanelCycles
      BY <1>5
    <3>2. QED
      BY <1>1, <1>4, <2>1, <2>5, <3>1, Concludes
  <2>6. QED
    BY <1>7, <2>3, <2>4, <2>5
<1>8. QED
  BY <1>6, <1>7 DEF Protect

\* A chain that only gets what it lacked keeps what was complete.
LEMMA ChainGrows ==
    ASSUME StoredOK, LedgerTypeOK',
           UNCHANGED <<published, accounts, measured, venueVars, receipts>>,
           \A c \in Cycles : /\ targets[c] # NoTarget => targets'[c] = targets[c]
                             /\ approved[c] # Undecided => approved'[c] = approved[c]
                             /\ plans[c] # NoPlan => plans'[c] = plans[c]
                             /\ targets'[c] # NoTarget =>
                                  targets'[c].account <= measured /\ targets'[c].asOf \in Time
    PROVE  StoredOK' /\ \A c \in Cycles : Complete(c) => Complete(c)'
<1>1. /\ published' = published /\ accounts' = accounts /\ measured' = measured
      /\ groups' = groups /\ exposure' = exposure /\ receipts' = receipts
  BY DEF venueVars
<1>2. \A c \in Cycles : plans[c].by # "NONE" => plans'[c] = plans[c]
  BY DEF NoPlan
<1>3. HeadAccount' = HeadAccount /\ Newest' = Newest
  BY <1>1 DEF HeadAccount, Newest
<1>4. LedgerInOrder'
  BY <1>1, <1>3 DEF StoredOK, LedgerInOrder, AccountsInOrder, DecidedOnMeasured
<1>5. GroupsInOrder'
  <2>1. ASSUME NEW c \in Cycles, Begun(c)
        PROVE  /\ plans'[c] = plans[c] /\ plans[c].by # "NONE"
               /\ HeadAccount > 0 /\ groups[c].started <= Newest.asOf
               /\ plans[c].by = "target" =>
                    targets'[c] # NoTarget /\ groups[c].started = targets'[c].asOf
               /\ plans[c].trade > 0 =>
                    \E p \in ActivePanels(groups[c].started) : c = PanelCycle(p)
    BY <1>2, <2>1 DEF StoredOK, GroupsInOrder
  <2>2. QED
    BY <1>1, <1>3, <2>1 DEF StoredOK, GroupsInOrder, Begun, ActivePanels
<1>6. \A c \in Cycles : Complete(c) => Complete(c)'
  BY <1>1 DEF Complete
<1>7. ReceiptsInOrder'
  BY <1>1, <1>6 DEF StoredOK, ReceiptsInOrder, Decides
<1>8. QED
  BY <1>4, <1>5, <1>6, <1>7 DEF StoredOK

\* A target is decided on the account just measured.
LEMMA DecideSafe == ASSUME CapitalInvariant, Decide PROVE CapitalInvariant'
<1>1. pc = "decide" /\ pc \in Running \ {"choose", "read"} /\ pc \in WithAccount
  BY DEF Decide, Running, WithAccount
<1>2. /\ StoredOK /\ AttemptTypeOK /\ RunInOrder /\ ChainSoFar /\ ExposureIsKnown
      /\ run \in RunRecord /\ run.asOf \in Time /\ run.cycle \in Cycles
      /\ run.account \in Nat /\ batch \in Time
      /\ attempts \in 0 .. MaxAttempts /\ interrupted \in BOOLEAN
  BY <1>1, UnderWay
<1>3. UNCHANGED <<published, accounts, measured, approved, plans, venueVars, receipts>>
  BY DEF Decide
<1>4. /\ published' = published /\ accounts' = accounts /\ measured' = measured
      /\ approved' = approved /\ plans' = plans
      /\ groups' = groups /\ exposure' = exposure /\ receipts' = receipts
  BY <1>3 DEF venueVars
<1>5. HeadAccount' = HeadAccount /\ Newest' = Newest
  BY <1>4 DEF HeadAccount, Newest
<1>6. CASE Reject /\ UNCHANGED targets
  <2>1. StoredOK'
    BY <1>2, <1>3, <1>6, StoredStays DEF ledgerVars, chainVars
  <2>2. QED
    BY <1>1, <1>2, <1>4, <1>6, <2>1, AttemptEnds DEF Reject, Goto, Ended
<1>7. PICK c \in Cycles : c = run.cycle
  BY <1>2
<1>8. ASSUME NEW desired \in {0, 1}, NEW target,
             target = [asOf |-> run.asOf, account |-> run.account, desired |-> desired],
             MayDesire(c, desired, Position(run.account)), SameTarget(c, target),
             targets' = [targets EXCEPT ![c] = IF @ = NoTarget THEN target ELSE @],
             Goto("risk", [run EXCEPT !.by = "target"])
      PROVE  CapitalInvariant'
  <2>1. /\ target \in TargetRecord /\ target # NoTarget /\ target.asOf = run.asOf
        /\ target.account = run.account /\ target.desired = desired
    BY <1>2, <1>8, Bounds DEF TargetRecord, NoTarget, NoTime, Time
  <2>2. /\ LedgerTypeOK /\ targets \in [Cycles -> TargetRecord] /\ targets[c] \in {NoTarget, target}
    BY <1>2, <1>8, Typed DEF StoredOK, SameTarget
  <2>3. /\ targets' \in [Cycles -> TargetRecord] /\ targets'[c] = target
        /\ \A d \in Cycles : d # c => targets'[d] = targets[d]
    BY <1>8, <2>1, <2>2
  <2>4. LedgerTypeOK'
    BY <1>4, <2>2, <2>3 DEF LedgerTypeOK, TargetRecord
  <2>5. run.account <= measured
    BY <1>1, <1>2 DEF RunInOrder
  <2>6. \A d \in Cycles : /\ targets[d] # NoTarget => targets'[d] = targets[d]
                          /\ targets'[d] # NoTarget =>
                               targets'[d].account <= measured /\ targets'[d].asOf \in Time
    <3>1. SUFFICES ASSUME NEW d \in Cycles
                   PROVE  /\ targets[d] # NoTarget => targets'[d] = targets[d]
                          /\ targets'[d] # NoTarget =>
                               targets'[d].account <= measured /\ targets'[d].asOf \in Time
      OBVIOUS
    <3>2. CASE d = c
      BY <1>2, <2>1, <2>2, <2>3, <2>5, <3>2
    <3>3. CASE d # c
      BY <1>2, <2>3, <3>3 DEF StoredOK, LedgerInOrder, DecidedOnMeasured
    <3>4. QED
      BY <3>2, <3>3
  <2>7. StoredOK'
    BY <1>2, <1>3, <1>4, <2>4, <2>6, ChainGrows
  <2>8. PICK r : r = [run EXCEPT !.by = "target"]
    OBVIOUS
  <2>9. /\ r \in RunRecord /\ r.mode = run.mode /\ r.asOf = run.asOf /\ r.cycle = run.cycle
        /\ r.panel = run.panel /\ r.already = run.already /\ r.account = run.account
        /\ r.by = "target"
    BY <1>2, <2>8 DEF RunRecord
  <2>10. pc' = "risk" /\ run' = r /\ batch' = batch /\ attempts' = attempts
         /\ interrupted' = interrupted
    BY <1>8, <2>8 DEF Goto
  <2>11. AttemptTypeOK'
    BY <1>2, <2>9, <2>10 DEF AttemptTypeOK, Running
  <2>12. RunInOrder'
    BY <1>1, <1>2, <1>4, <1>5, <2>9, <2>10 DEF RunInOrder, WithAccount, Running, ActivePanels
  <2>13. ChainSoFar'
    <3>1. (Position(run.account))' = Position(run.account)
      BY <1>4, <2>9, <2>10 DEF Position
    <3>2. OwnTarget'
      BY <1>7, <1>8, <2>1, <2>3, <2>9, <2>10, <3>1 DEF OwnTarget, MayDesire
    <3>3. QED
      BY <1>1, <1>2, <1>4, <2>9, <2>10, <3>2 DEF ChainSoFar, Running, Decides
  <2>14. ExposureIsKnown'
    BY <1>1, <1>2, <1>4, <2>10, ExposureStays
  <2>15. QED
    BY <2>7, <2>11, <2>12, <2>13, <2>14, InTwoHalves
<1>9. QED
  BY <1>6, <1>7, <1>8 DEF Decide

\* Risk answers the target of its cycle.
LEMMA RiskSafe == ASSUME CapitalInvariant, Risk PROVE CapitalInvariant'
<1>1. pc = "risk" /\ pc \in Running \ {"choose", "read"} /\ pc \in WithAccount
  BY DEF Risk, Running, WithAccount
<1>2. /\ StoredOK /\ AttemptTypeOK /\ RunInOrder /\ ChainSoFar /\ ExposureIsKnown
      /\ run \in RunRecord /\ run.asOf \in Time /\ run.cycle \in Cycles
      /\ run.account \in Nat /\ batch \in Time
      /\ attempts \in 0 .. MaxAttempts /\ interrupted \in BOOLEAN
  BY <1>1, UnderWay
<1>3. UNCHANGED <<published, accounts, measured, targets, plans, venueVars, receipts>>
  BY DEF Risk
<1>4. /\ published' = published /\ accounts' = accounts /\ measured' = measured
      /\ targets' = targets /\ plans' = plans
      /\ groups' = groups /\ exposure' = exposure /\ receipts' = receipts
  BY <1>3 DEF venueVars
<1>5. HeadAccount' = HeadAccount /\ Newest' = Newest
  BY <1>4 DEF HeadAccount, Newest
<1>6. CASE Reject /\ UNCHANGED approved
  <2>1. StoredOK'
    BY <1>2, <1>3, <1>6, StoredStays DEF ledgerVars, chainVars
  <2>2. QED
    BY <1>1, <1>2, <1>4, <1>6, <2>1, AttemptEnds DEF Reject, Goto, Ended
<1>7. PICK c \in Cycles : c = run.cycle
  BY <1>2
<1>8. ASSUME NEW amount \in 0 .. targets[c].desired, approved[c] \in {Undecided, amount},
             approved' = [approved EXCEPT ![c] = amount], Goto("plan", run)
      PROVE  CapitalInvariant'
  <2>1. /\ LedgerTypeOK /\ LedgerInOrder /\ approved \in [Cycles -> {Undecided, 0, 1}]
        /\ targets \in [Cycles -> TargetRecord]
    BY <1>2, Typed DEF StoredOK
  <2>2. amount \in {0, 1}
    BY <1>8, <2>1 DEF TargetRecord
  <2>3. /\ approved' \in [Cycles -> {Undecided, 0, 1}] /\ approved'[c] = amount
        /\ \A d \in Cycles : approved[d] # Undecided => approved'[d] = approved[d]
    BY <1>8, <2>1, <2>2
  <2>4. LedgerTypeOK'
    BY <1>4, <2>1, <2>3 DEF LedgerTypeOK
  <2>5. StoredOK'
    BY <1>2, <1>3, <1>4, <2>1, <2>3, <2>4, ChainGrows DEF LedgerInOrder, DecidedOnMeasured
  <2>6. pc' = "plan" /\ run' = run /\ batch' = batch /\ attempts' = attempts
        /\ interrupted' = interrupted
    BY <1>8 DEF Goto
  <2>7. AttemptTypeOK'
    BY <1>2, <2>6 DEF AttemptTypeOK, Running
  <2>8. RunInOrder'
    BY <1>1, <1>2, <1>4, <1>5, <2>6 DEF RunInOrder, WithAccount, Running, ActivePanels
  <2>9. ChainSoFar'
    <3>1. OwnTarget
      BY <1>1, <1>2 DEF ChainSoFar
    <3>2. OwnTarget'
      BY <1>4, <2>6, <3>1 DEF OwnTarget, Position
    <3>3. approved'[c] \in 0 .. targets'[c].desired
      BY <1>4, <1>8, <2>3
    <3>4. QED
      BY <1>1, <1>2, <1>4, <1>7, <2>6, <3>2, <3>3 DEF ChainSoFar, Running, Decides
  <2>10. ExposureIsKnown'
    BY <1>1, <1>2, <1>4, <2>6, ExposureStays
  <2>11. QED
    BY <2>5, <2>7, <2>8, <2>9, <2>10, InTwoHalves
<1>9. QED
  BY <1>6, <1>7, <1>8 DEF Risk

\* What the attempt wants to hold is in range, and above what the account
\* holds only for a panel.
LEMMA WantInRange ==
    ASSUME CapitalInvariant, pc \in {"plan", "start"}
    PROVE  /\ Want \in {0, 1} /\ Position(run.account) \in Int /\ Position(run.account) >= 0
           /\ Want - Position(run.account) > 0 => run.cycle \in PanelCycles
           /\ run.cycle \in PanelCycles => OwnTarget /\ approved[run.cycle] # Undecided
           /\ run.by \in {"target", "review"}
           /\ run.by = "target" =>
                targets[run.cycle] # NoTarget /\ targets[run.cycle].asOf = run.asOf
<1>1. pc \in Running \ {"choose", "read"} /\ pc \in WithAccount
  BY DEF Running, WithAccount
<1>2. /\ StoredOK /\ RunInOrder /\ ChainSoFar
      /\ run \in RunRecord /\ run.cycle \in Cycles
  BY <1>1, UnderWay
<1>3. PICK c \in Cycles : c = run.cycle
  BY <1>2
<1>4. /\ HeadAccount \in Nat /\ HeadAccount > 0 /\ run.account = HeadAccount
      /\ HeadAccount \in 1 .. HeadAccount
      /\ approved \in [Cycles -> {Undecided, 0, 1}] /\ targets \in [Cycles -> TargetRecord]
      /\ \A i \in 1 .. HeadAccount : accounts[i] \in AccountRecord
  BY <1>1, <1>2, Typed DEF StoredOK, RunInOrder
<1>5. PICK held \in Int : held = Position(run.account) /\ held >= 0
  <2>1. Position(run.account) = accounts[HeadAccount].position
    BY <1>4 DEF Position
  <2>2. accounts[HeadAccount].position \in Int
    BY <1>4, AccountFields
  <2>3. accounts[HeadAccount].position >= 0
    BY <1>2, <1>4 DEF StoredOK, LedgerInOrder
  <2>4. QED
    BY <2>1, <2>2, <2>3
<1>6. CASE run.by = "review" /\ c \notin PanelCycles
  BY <1>3, <1>5, <1>6 DEF Want
<1>7. CASE OwnTarget /\ approved[c] \in 0 .. targets[c].desired
  <2>1. approved[c] \in {0, 1} /\ approved[c] # Undecided
    <3>1. targets[c].desired \in {0, 1}
      BY <1>4 DEF TargetRecord
    <3>2. QED
      BY <1>7, <3>1 DEF Undecided
  <2>2. approved[c] <= targets[c].desired /\ targets[c].desired \in Nat
    BY <1>4, <1>7 DEF TargetRecord
  <2>3. c \in PanelCycles \/ targets[c].desired <= held
    BY <1>3, <1>5, <1>7 DEF OwnTarget, MayDesire
  <2>4. run.by = "target" /\ Want = approved[c]
    BY <1>3, <1>7 DEF OwnTarget, Want
  <2>5. Want - held > 0 => c \in PanelCycles
    BY <1>5, <2>1, <2>2, <2>3, <2>4
  <2>6. QED
    BY <1>3, <1>5, <1>7, <2>1, <2>4, <2>5 DEF OwnTarget
<1>8. QED
  BY <1>2, <1>3, <1>6, <1>7 DEF ChainSoFar

\* A plan trades from the account to what was approved.
LEMMA PlanSafe == ASSUME CapitalInvariant, Plan PROVE CapitalInvariant'
<1>1. /\ pc = "plan" /\ pc \in Running \ {"choose", "read"} /\ pc \in WithAccount
      /\ pc \in {"measure", "protect", "plan"}
  BY DEF Plan, Running, WithAccount
<1>2. /\ StoredOK /\ AttemptTypeOK /\ RunInOrder /\ ChainSoFar /\ ExposureIsKnown
      /\ run \in RunRecord /\ run.asOf \in Time /\ run.cycle \in Cycles
      /\ run.account \in Nat /\ batch \in Time
      /\ attempts \in 0 .. MaxAttempts /\ interrupted \in BOOLEAN
  BY <1>1, UnderWay
<1>3. UNCHANGED <<published, accounts, measured, targets, approved, venueVars, receipts>>
  BY DEF Plan
<1>4. /\ published' = published /\ accounts' = accounts /\ measured' = measured
      /\ targets' = targets /\ approved' = approved
      /\ groups' = groups /\ exposure' = exposure /\ receipts' = receipts
  BY <1>3 DEF venueVars
<1>5. HeadAccount' = HeadAccount /\ Newest' = Newest
  BY <1>4 DEF HeadAccount, Newest
<1>6. PICK c \in Cycles : c = run.cycle
  BY <1>2
<1>7. /\ Want \in {0, 1} /\ Position(run.account) \in Int
      /\ c \in PanelCycles => OwnTarget /\ approved[c] # Undecided
      /\ run.by \in {"target", "review"}
  BY <1>1, <1>6, WantInRange
<1>8. CASE Reject /\ UNCHANGED plans
  <2>1. StoredOK'
    BY <1>2, <1>3, <1>8, StoredStays DEF ledgerVars, chainVars
  <2>2. QED
    BY <1>1, <1>2, <1>4, <1>8, <2>1, AttemptEnds DEF Reject, Goto, Ended
<1>9. run.account = HeadAccount /\ accounts[run.account] = Newest
  BY <1>1, <1>2 DEF RunInOrder, Newest
<1>10. ASSUME NEW trade \in Trades(accounts[run.account], Want - Position(run.account)),
              NEW plan, plan = [by |-> run.by, account |-> run.account, trade |-> trade],
              plans[c] \in {NoPlan, plan}, plans' = [plans EXCEPT ![c] = plan],
              IF trade = 0 THEN Conclude(run) ELSE Goto("start", run)
       PROVE  CapitalInvariant'
  <2>1. trade \in Int /\ (trade # 0 => ~Newest.pending /\ trade = Want - Position(run.account))
    BY <1>7, <1>9, <1>10 DEF Trades
  <2>2. plan \in PlanRecord /\ plan # NoPlan /\ plan.trade = trade
    BY <1>2, <1>7, <1>10, <2>1 DEF PlanRecord, NoPlan
  <2>3. /\ LedgerTypeOK /\ plans \in [Cycles -> PlanRecord]
    BY <1>2, Typed DEF StoredOK
  <2>4. /\ plans' \in [Cycles -> PlanRecord] /\ plans'[c] = plan
        /\ \A d \in Cycles : plans[d] # NoPlan => plans'[d] = plans[d]
    BY <1>10, <2>2, <2>3
  <2>5. LedgerTypeOK'
    BY <1>4, <2>3, <2>4 DEF LedgerTypeOK, PlanRecord
  <2>6. StoredOK'
    BY <1>2, <1>3, <1>4, <2>4, <2>5, ChainGrows DEF StoredOK, LedgerInOrder, DecidedOnMeasured
  <2>7. \A d \in Cycles : groups[d].status = "OPEN" => plans'[d] = plans[d]
    <3>1. \A d \in Cycles : groups[d].status = "OPEN" => plans[d].by # "NONE"
      BY <1>2 DEF StoredOK, GroupsInOrder, Begun
    <3>2. QED
      BY <2>4, <3>1 DEF NoPlan
  <2>8. CASE trade = 0 /\ Conclude(run)
    <3>1. c \in PanelCycles => Complete(c)'
      BY <1>4, <1>7, <1>6, <2>2, <2>4, <2>8 DEF Complete, OwnTarget
    <3>2. QED
      BY <1>1, <1>4, <1>5, <1>6, <2>6, <2>7, <2>8, <3>1, Concludes
  <2>9. CASE trade # 0 /\ Goto("start", run)
    <3>1. pc' = "start" /\ run' = run /\ batch' = batch /\ attempts' = attempts
          /\ interrupted' = interrupted
      BY <2>9 DEF Goto
    <3>2. AttemptTypeOK'
      BY <1>2, <3>1 DEF AttemptTypeOK, Running
    <3>3. RunInOrder'
      BY <1>1, <1>2, <1>4, <1>5, <3>1 DEF RunInOrder, WithAccount, Running, ActivePanels
    <3>4. ChainSoFar'
      <4>1. /\ Want' = Want /\ (Position(run.account))' = Position(run.account)
            /\ (OwnTarget' <=> OwnTarget)
        BY <1>4, <3>1 DEF Want, Position, OwnTarget
      <4>2. plans'[c] = [by |-> run.by, account |-> run.account,
                         trade |-> Want - Position(run.account)] /\ ~Newest.pending
        BY <1>10, <2>1, <2>4, <2>9
      <4>3. (plans[run.cycle] = [by |-> run.by, account |-> run.account,
                                 trade |-> Want - Position(run.account)] /\ ~Newest.pending)'
        BY <1>5, <1>6, <3>1, <4>1, <4>2
      <4>4. QED
        BY <1>1, <1>2, <1>4, <3>1, <4>1, <4>3 DEF ChainSoFar, Running, Decides
    <3>5. ExposureIsKnown'
      BY <1>1, <1>2, <1>4, <2>7, <3>1, ExposureStays
    <3>6. QED
      BY <2>6, <3>2, <3>3, <3>4, <3>5, InTwoHalves
  <2>10. QED
    BY <1>10, <2>8, <2>9
<1>11. QED
  BY <1>6, <1>8, <1>10 DEF Plan, Want

\* A group is started for its plan, once.
LEMMA StartSafe == ASSUME CapitalInvariant, Start PROVE CapitalInvariant'
<1>1. /\ pc = "start" /\ pc \in Running \ {"choose", "read"} /\ pc \in WithAccount
      /\ pc \notin {"execute", "project"}
  BY DEF Start, Running, WithAccount
<1>2. /\ StoredOK /\ AttemptTypeOK /\ RunInOrder /\ ChainSoFar /\ ExposureIsKnown
      /\ LedgerTypeOK /\ LedgerInOrder /\ GroupsInOrder /\ ReceiptsInOrder
      /\ run \in RunRecord /\ run.asOf \in Time /\ run.cycle \in Cycles
      /\ run.account \in Nat /\ batch \in Time
      /\ attempts \in 0 .. MaxAttempts /\ interrupted \in BOOLEAN
  BY <1>1, UnderWay DEF StoredOK
<1>3. UNCHANGED <<published, accounts, measured, chainVars, exposure, receipts>>
  BY DEF Start
<1>4. /\ published' = published /\ accounts' = accounts /\ measured' = measured
      /\ targets' = targets /\ approved' = approved /\ plans' = plans
      /\ exposure' = exposure /\ receipts' = receipts
  BY <1>3 DEF chainVars
<1>5. /\ HeadAccount' = HeadAccount /\ Newest' = Newest /\ HeadAccount \in Nat /\ HeadAccount > 0
      /\ run.account = HeadAccount /\ Newest.asOf = run.asOf
      /\ groups \in [Cycles -> GroupRecord] /\ plans \in [Cycles -> PlanRecord]
      /\ \A i \in 1 .. HeadAccount : accounts[i] \in AccountRecord
  BY <1>1, <1>2, <1>4, Typed DEF HeadAccount, Newest, RunInOrder
<1>6. PICK c \in Cycles : c = run.cycle
  BY <1>2
<1>7. PICK held \in Int : held = Position(run.account) /\ held = Newest.position
  <2>1. run.account # 0
    BY <1>5
  <2>2. QED
    BY <1>1, <1>5, <2>1, WantInRange DEF Position, Newest
<1>8. /\ Want \in {0, 1}
      /\ Want - held > 0 => c \in PanelCycles
      /\ c \in PanelCycles => OwnTarget /\ approved[c] # Undecided
      /\ run.by \in {"target", "review"}
      /\ run.by = "target" => targets[c] # NoTarget /\ targets[c].asOf = run.asOf
  BY <1>1, <1>6, <1>7, WantInRange
<1>9. /\ plans[c] = [by |-> run.by, account |-> run.account, trade |-> Want - held]
      /\ ~Newest.pending
  BY <1>1, <1>2, <1>6, <1>7 DEF ChainSoFar
<1>10. plans[c].by = run.by /\ plans[c].trade = Want - held /\ plans[c] # NoPlan
  BY <1>8, <1>9 DEF NoPlan
<1>11. ~interrupted => NewestIsTrue /\ exposure = held
  BY <1>1, <1>2, <1>5, <1>7, <1>9 DEF ExposureIsKnown, NewestIsTrue
<1>12. CASE Reject /\ UNCHANGED groups
  <2>1. StoredOK'
    BY <1>2, <1>3, <1>12, StoredStays DEF ledgerVars, venueVars
  <2>2. QED
    BY <1>1, <1>2, <1>4, <1>12, <2>1, AttemptEnds DEF Reject, Goto, Ended
<1>13. ASSUME Goto("execute", run), StoredOK',
              groups'[c].status # "NONE",
              ~interrupted => ExposureIsKnown'
       PROVE  CapitalInvariant'
  <2>1. pc' = "execute" /\ run' = run /\ batch' = batch /\ attempts' = attempts
        /\ interrupted' = interrupted
    BY <1>13 DEF Goto
  <2>2. AttemptTypeOK'
    BY <1>2, <2>1 DEF AttemptTypeOK, Running
  <2>3. RunInOrder'
    BY <1>1, <1>2, <1>4, <1>5, <2>1 DEF RunInOrder, WithAccount, Running, ActivePanels
  <2>4. ChainSoFar'
    <3>1. Begun(c)'
      BY <1>13 DEF Begun
    <3>2. c \in PanelCycles => Complete(c)'
      BY <1>4, <1>8, <1>10, <1>6, <1>13 DEF Complete, OwnTarget
    <3>3. QED
      BY <1>1, <1>2, <1>4, <1>6, <2>1, <3>1, <3>2 DEF ChainSoFar, Running, Decides, Begun, Complete
  <2>5. ExposureIsKnown'
    BY <1>13, <2>1 DEF ExposureIsKnown
  <2>6. QED
    BY <1>13, <2>2, <2>3, <2>4, <2>5, InTwoHalves
<1>14. CASE groups[c] # NoGroup /\ Goto("execute", run) /\ UNCHANGED groups
  <2>1. StoredOK'
    BY <1>2, <1>3, <1>14, StoredStays DEF ledgerVars, venueVars
  <2>2. groups'[c].status # "NONE"
    BY <1>2, <1>14 DEF GroupsInOrder, Begun
  <2>3. ~interrupted => ExposureIsKnown'
    <3>1. NewestIsTrue' <=> NewestIsTrue
      BY <1>4, <1>5, <1>14 DEF NewestIsTrue
    <3>2. QED
      BY <1>2, <1>4, <1>5, <1>11, <1>14, <3>1 DEF ExposureIsKnown, Goto
  <2>4. QED
    BY <1>13, <1>14, <2>1, <2>2, <2>3
<1>15. ASSUME groups[c] = NoGroup, \A other \in Cycles : groups[other].status # "OPEN",
              NEW g, g = [status |-> "OPEN", advances |-> 0,
                          started |-> run.asOf, updated |-> run.asOf],
              groups' = [groups EXCEPT ![c] = g], Goto("execute", run)
       PROVE  CapitalInvariant'
  <2>1. /\ g \in GroupRecord /\ g.status = "OPEN" /\ g.advances = 0
        /\ g.started = run.asOf /\ g.updated = run.asOf
    BY <1>2, <1>15, Bounds DEF GroupRecord
  <2>2. /\ groups' \in [Cycles -> GroupRecord] /\ groups'[c] = g
        /\ \A d \in Cycles : d # c => groups'[d] = groups[d]
    BY <1>5, <1>15, <2>1
  <2>3. LedgerTypeOK'
    BY <1>2, <1>4, <2>2 DEF LedgerTypeOK, GroupRecord
  <2>4. groups[c].status = "NONE" /\ groups[c].advances = 0
    BY <1>15 DEF NoGroup
  <2>5. LedgerInOrder'
    <3>1. \A d \in Cycles : groups'[d].advances = groups[d].advances
      BY <2>1, <2>2, <2>4
    <3>2. \A i \in 1 .. HeadAccount : accounts[i].of # NoCycle =>
              groups'[accounts[i].of].advances = groups[accounts[i].of].advances
      BY <1>5, <3>1, AccountFields
    <3>3. QED
      BY <1>2, <1>4, <1>5, <3>2 DEF LedgerInOrder, AccountsInOrder, DecidedOnMeasured
  <2>6. ASSUME NEW d \in Cycles
        PROVE  /\ groups'[d].status = "NONE" => groups'[d] = NoGroup
               /\ groups'[d].status = "OPEN" => d = c /\ groups'[d].advances <= MaxAdvances
    BY <1>2, <1>15, <2>1, <2>2, Bounds DEF GroupsInOrder, Begun
  <2>7. ASSUME NEW d \in Cycles, groups'[d].status # "NONE"
        PROVE  /\ plans[d].by # "NONE" /\ groups'[d].started <= Newest.asOf
               /\ plans[d].by = "target" =>
                    targets[d] # NoTarget /\ groups'[d].started = targets[d].asOf
               /\ plans[d].trade > 0 =>
                    \E p \in ActivePanels(groups'[d].started) : d = PanelCycle(p)
    <3>1. CASE d # c
      BY <1>2, <2>2, <2>7, <3>1 DEF GroupsInOrder, Begun
    <3>2. CASE d = c
      <4>1. plans[c].by # "NONE" /\ g.started <= Newest.asOf
        BY <1>2, <1>5, <1>8, <1>10, <2>1, Bounds DEF Time
      <4>2. plans[c].by = "target" => targets[c] # NoTarget /\ g.started = targets[c].asOf
        BY <1>8, <1>10, <2>1
      <4>3. ASSUME plans[c].trade > 0
            PROVE  \E p \in ActivePanels(g.started) : c = PanelCycle(p)
        <5>1. c \in PanelCycles
          BY <1>8, <1>10, <4>3
        <5>2. run.cycle # WatchCycle(run.asOf)
          BY <1>2, <1>6, <5>1, CyclesApart
        <5>3. /\ run.panel \in ActivePanels(batch) /\ run.cycle = PanelCycle(run.panel)
              /\ run.asOf = batch
          BY <1>1, <1>2, <5>2 DEF RunInOrder
        <5>4. QED
          BY <1>6, <2>1, <5>3
      <4>4. QED
        BY <2>2, <3>2, <4>1, <4>2, <4>3
    <3>3. QED
      BY <3>1, <3>2
  <2>8. GroupsInOrder'
    BY <1>4, <1>5, <2>6, <2>7 DEF GroupsInOrder, Begun, ActivePanels
  <2>9. ReceiptsInOrder'
    <3>1. \A d \in Cycles : Complete(d) => Complete(d)'
      BY <1>4, <2>1, <2>2 DEF Complete
    <3>2. QED
      BY <1>2, <1>4, <3>1 DEF ReceiptsInOrder, Decides
  <2>10. StoredOK'
    BY <2>3, <2>5, <2>8, <2>9 DEF StoredOK
  <2>11. groups'[c].status # "NONE"
    BY <2>1, <2>2
  <2>12. ASSUME ~interrupted PROVE ExposureIsKnown'
    <3>1. exposure \in {0, 1} /\ exposure + plans[c].trade \in {0, 1}
      <4>1. exposure = held /\ exposure \in {0, 1}
        BY <1>2, <1>11, <2>12 DEF ExposureIsKnown
      <4>2. held + (Want - held) = Want
        BY <1>7, <1>8
      <4>3. QED
        BY <1>8, <1>10, <4>1, <4>2
    <3>2. \A d \in Cycles : groups'[d].status = "OPEN" => exposure + plans[d].trade \in {0, 1}
      BY <2>6, <3>1
    <3>3. pc' = "execute" /\ run' = run
      BY <1>15 DEF Goto
    <3>4. (groups[run.cycle].status = "OPEN" /\ groups[run.cycle].updated = run.asOf)'
      BY <1>6, <2>1, <2>2, <3>3
    <3>5. QED
      BY <1>4, <3>1, <3>2, <3>3, <3>4 DEF ExposureIsKnown
  <2>13. QED
    BY <1>13, <1>15, <2>10, <2>11, <2>12
<1>16. QED
  BY <1>6, <1>12, <1>14, <1>15 DEF Start

-----------------------------------------------------------------------------
(* The theorems.                                                            *)

\* Empty ledgers keep every promise.
LEMMA InitSafe == Init => CapitalInvariant
<1>1. SUFFICES ASSUME Init PROVE CapitalInvariant
  OBVIOUS
<1>2. /\ published = [p \in Panels |-> NoTime] /\ accounts = <<>> /\ measured = 1
      /\ targets = [c \in Cycles |-> NoTarget] /\ approved = [c \in Cycles |-> Undecided]
      /\ plans = [c \in Cycles |-> NoPlan] /\ groups = [c \in Cycles |-> NoGroup]
      /\ exposure = 0 /\ receipts = [t \in Time |-> NoReceipt]
      /\ pc = "idle" /\ batch = 0 /\ attempts = 0 /\ run = NoRun /\ interrupted = FALSE
  BY <1>1 DEF Init, LedgerInit
<1>3. HeadAccount = 0
  BY <1>2 DEF HeadAccount
<1>4. LedgerTypeOK
  <2>1. /\ published \in [Panels -> Time \cup {NoTime, MaxTime + 1}]
        /\ accounts \in Seq(AccountRecord) /\ measured \in Nat /\ exposure \in Int
        /\ approved \in [Cycles -> {Undecided, 0, 1}]
    BY <1>2
  <2>2. /\ NoTarget \in [asOf : Time \cup {NoTime}, account : Nat, desired : {0, 1}]
        /\ NoPlan \in [by : {"NONE", "target", "review"}, account : Nat, trade : Int]
    BY DEF NoTarget, NoPlan
  <2>3. NoGroup \in [status   : {"NONE", "OPEN", "HEDGED", "FLAT"},
                     advances : 0 .. MaxAdvances + 1,
                     started  : Time \cup {NoTime},
                     updated  : Time \cup {NoTime}]
    BY Bounds DEF NoGroup
  <2>4. NoReceipt \in [outcome : Outcomes, target : Cycles \cup {NoCycle}, account : Nat]
    BY DEF NoReceipt, Outcomes
  <2>5. QED
    BY <1>2, <2>1, <2>2, <2>3, <2>4 DEF LedgerTypeOK
<1>5. TypeOK
  <2>1. 0 \in Time /\ 0 \in 0 .. MaxAttempts
    BY Bounds DEF Time
  <2>2. QED
    BY <1>2, <1>4, <2>1, NoRunIsTyped DEF TypeOK
<1>6. LedgerInOrder
  BY <1>2, <1>3 DEF LedgerInOrder, AccountsInOrder, DecidedOnMeasured
<1>7. GroupsInOrder
  BY <1>2 DEF GroupsInOrder, Begun, NoGroup
<1>8. ReceiptsInOrder
  BY <1>2 DEF ReceiptsInOrder, Decides, NoReceipt
<1>9. RunInOrder /\ ChainSoFar
  BY <1>2 DEF RunInOrder, ChainSoFar, Running, WithAccount
<1>10. ExposureIsKnown
  BY <1>2, <1>3 DEF ExposureIsKnown, NoGroup
<1>11. QED
  BY <1>5, <1>6, <1>7, <1>8, <1>9, <1>10 DEF CapitalInvariant

\* The invariant survives every step.
LEMMA StepSafe == ASSUME CapitalInvariant, [Next]_vars PROVE CapitalInvariant'
<1>1. CASE Publish
  BY <1>1, PublishSafe
<1>2. CASE NewBatch \/ Rerun \/ Interrupt \/ InputUnavailable
  BY <1>2, BatchesSafe
<1>3. CASE Attempt
  BY <1>3, ChooseSafe, ReplaySafe, ReviewSafe, ProduceSafe, NothingToRecoverSafe, RecoverSafe,
     AccountSafe, MeasureSafe, ProtectSafe, DecideSafe, RiskSafe, PlanSafe, StartSafe,
     ExecuteSafe, ProjectExecutionSafe, RemeasureSafe, FinishSafe DEF Attempt
<1>4. CASE UNCHANGED vars
  <2>1. /\ UNCHANGED ledgerVars /\ accounts' = accounts /\ groups' = groups /\ plans' = plans
        /\ exposure' = exposure /\ targets' = targets /\ approved' = approved
        /\ measured' = measured /\ receipts' = receipts /\ published' = published
        /\ pc' = pc /\ batch' = batch /\ attempts' = attempts /\ run' = run
        /\ interrupted' = interrupted
    BY <1>4 DEF vars, ledgerVars, cycleVars, chainVars, venueVars
  <2>2. StoredOK'
    BY <2>1, InTwoHalves, StoredStays
  <2>3. AttemptTypeOK' /\ RunInOrder'
    BY <2>1, InTwoHalves DEF AttemptTypeOK, RunInOrder, HeadAccount, Newest, ActivePanels
  <2>4. ChainSoFar'
    BY <2>1, InTwoHalves
    DEF ChainSoFar, OwnTarget, Want, Position, Newest, HeadAccount, Begun, Complete, Decides
  <2>5. ExposureIsKnown'
    BY <2>1, InTwoHalves
    DEF ExposureIsKnown, NewestIsTrue, Newest, HeadAccount, ExecutionAccounts
  <2>6. QED
    BY <2>2, <2>3, <2>4, <2>5, InTwoHalves
<1>5. QED
  BY <1>1, <1>2, <1>3, <1>4 DEF Next

\* The ledgers and the attempt stay in order, whatever is retried and when
\* (decision_cycle/capital.py and portfolio.py).
THEOREM CapitalSafe == Spec => []CapitalInvariant
<1>1. Init => CapitalInvariant
  BY InitSafe
<1>2. CapitalInvariant /\ [Next]_vars => CapitalInvariant'
  BY StepSafe
<1>3. QED
  BY <1>1, <1>2, PTL DEF Spec

\* The ledgers and the attempt in progress have their types.
THEOREM CapitalTypeCorrect == Spec => []TypeOK
<1>1. CapitalInvariant => TypeOK
  BY DEF CapitalInvariant
<1>2. QED
  BY <1>1, CapitalSafe, PTL

\* Unless an attempt dies in the execution itself, no retry buys or sells
\* twice: what was bought in all stays a position the sleeve may hold.
THEOREM RetriesStayInRange == Spec => []InRangeUnlessInterrupted
<1>1. CapitalInvariant => InRangeUnlessInterrupted
  BY DEF CapitalInvariant, ExposureIsKnown, InRangeUnlessInterrupted
<1>2. QED
  BY <1>1, CapitalSafe, PTL

\* No target rests on an account that the performance ledger does not reach.
THEOREM TargetsAreMeasured == Spec => []DecidedOnMeasured
<1>1. CapitalInvariant => DecidedOnMeasured
  BY DEF CapitalInvariant, LedgerInOrder
<1>2. QED
  BY <1>1, CapitalSafe, PTL

\* The account ledger is in the order of its instants, also when a retry
\* replays the instant of an older target.
THEOREM AccountsStayInOrder == Spec => []AccountsInOrder
<1>1. CapitalInvariant => AccountsInOrder
  BY DEF CapitalInvariant, LedgerInOrder
<1>2. QED
  BY <1>1, CapitalSafe, PTL

\* A group that a target authorises starts at the instant of that target: no
\* retry executes an old decision as a new one.
THEOREM GroupsStartWhenDecided == Spec => []StartedWhenDecided
<1>1. CapitalInvariant => StartedWhenDecided
  <2>1. SUFFICES ASSUME CapitalInvariant, NEW c \in Cycles, groups[c] # NoGroup,
                        plans[c].by = "target"
                 PROVE  groups[c].started = targets[c].asOf
    BY DEF StartedWhenDecided
  <2>2. QED
    BY <2>1 DEF CapitalInvariant, GroupsInOrder, Begun
<1>2. QED
  BY <1>1, CapitalSafe, PTL

\* A position is only entered on a forecast panel that is alive when its group
\* starts, however late the attempt that starts it.
THEOREM EntriesHaveLivePanels == Spec => []EnterOnlyOnLivePanel
<1>1. CapitalInvariant => EnterOnlyOnLivePanel
  <2>1. SUFFICES ASSUME CapitalInvariant, NEW c \in Cycles, groups[c] # NoGroup,
                        plans[c].trade > 0
                 PROVE  /\ c \in PanelCycles
                        /\ published[c[2]] <= groups[c].started
                        /\ groups[c].started < published[c[2]] + PanelLife
    BY DEF EnterOnlyOnLivePanel
  <2>2. PICK p \in ActivePanels(groups[c].started) : c = PanelCycle(p)
    BY <2>1 DEF CapitalInvariant, GroupsInOrder, Begun
  <2>3. p \in Panels
    BY DEF ActivePanels
  <2>4. c \in PanelCycles /\ c[2] = p
    BY <2>2, <2>3, CyclesApart
  <2>5. QED
    BY <2>4 DEF ActivePanels
<1>2. QED
  BY <1>1, CapitalSafe, PTL

\* A target is decided for one cause: of the receipts that name it one says it
\* was decided, and the others that it was decided already.
THEOREM TargetsAreDecidedOnce == Spec => []OneDecisionReceipt
<1>1. CapitalInvariant => OneDecisionReceipt
  <2>1. SUFFICES ASSUME CapitalInvariant, NEW c \in Cycles
                 PROVE  Cardinality({t \in Time : /\ receipts[t].target = c /\ c # NoCycle
                                                  /\ receipts[t].outcome = "TARGET_DECIDED"}) <= 1
    BY DEF OneDecisionReceipt
  <2>2. PICK S : S = {t \in Time : /\ receipts[t].target = c /\ c # NoCycle
                                   /\ receipts[t].outcome = "TARGET_DECIDED"}
    OBVIOUS
  <2>3. \A t, u \in S : t = u
    BY <2>1, <2>2 DEF CapitalInvariant, ReceiptsInOrder, Decides
  <2>4. CASE S = {}
    BY <2>2, <2>4, FS_EmptySet
  <2>5. CASE S # {}
    <3>1. PICK x \in S : TRUE
      BY <2>5
    <3>2. S = {x}
      BY <2>3, <3>1
    <3>3. Cardinality({x}) = 1
      BY FS_Singleton
    <3>4. Cardinality(S) <= 1
      BY <3>2, <3>3
    <3>5. QED
      BY <2>2, <3>4
  <2>6. QED
    BY <2>4, <2>5
<1>2. QED
  BY <1>1, CapitalSafe, PTL
=============================================================================
