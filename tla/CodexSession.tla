---------------------------- MODULE CodexSession ----------------------------
(***************************************************************************)
(* One execution of the Codex executor (forecast/codex/protocol.py): a     *)
(* turn of a local app server, read over a pipe and judged from what was   *)
(* read.  The server is the environment: it says what it does, except that *)
(* the notice that the turn completed may never be sent, and that it may   *)
(* stop answering or die at any moment.  What it did is kept beside what   *)
(* the client read of it, so that the judgement can be compared with it.   *)
(***************************************************************************)
EXTENDS Naturals, Sequences, FiniteSets

CONSTANTS MaxEvents    \* bound of what the server emits

ASSUME SessionAssumption == MaxEvents \in Nat

VARIABLES turn,      \* what the turn came to: running, completed, failed
          said,      \* agent messages and foreign items it produced
          pipe,      \* emitted and not read
          events,    \* read by the client, in order
          stage,     \* where the client is
          recovered, \* thread/read confirmed the completed turn
          verdict    \* the failure class, SUCCESS, or none yet

sessionVars == <<turn, said, pipe, events, stage, recovered, verdict>>

\* idle, active: status notices.  limit, broken: error notices, of an
\* account failure or of any other.  read: a thread/read answer that shows
\* this turn completed with its items; unread: any other answer to it.
Events == {"started", "refused", "message", "nontext", "reasoning", "foreign",
           "idle", "active", "limit", "broken", "completed", "failed",
           "read", "unread", "readerror"}
Stages == {"starting", "turn", "grace", "reading", "judging", "done"}
Verdicts == {"none", "SUCCESS", "FAILOVER", "TIMEOUT", "PROCESS_CRASH",
             "SCHEMA_INVALID", "TOOL_PERMISSION"}

SessionTypeOK ==
    /\ turn \in {"running", "completed", "failed"}
    /\ said \in [messages : 0..MaxEvents, foreign : 0..MaxEvents]
    /\ pipe \in Seq(Events) /\ events \in Seq(Events)
    /\ stage \in Stages /\ verdict \in Verdicts
    /\ recovered \in BOOLEAN
    /\ (stage = "done") = (verdict # "none")

Read(kinds) == \E i \in DOMAIN events : events[i] \in kinds
Messages    == {i \in DOMAIN events : events[i] = "message"}
Emitted     == Len(pipe) + Len(events)

SessionInit ==
    /\ turn = "running" /\ said = [messages |-> 0, foreign |-> 0]
    /\ pipe = <<>> /\ events = <<>>
    /\ stage = "starting" /\ recovered = FALSE /\ verdict = "none"

-----------------------------------------------------------------------------
(* The server.                                                             *)

Emit(e) == pipe' = Append(pipe, e)

ServerWorks ==
    /\ turn = "running" /\ stage # "done" /\ Emitted < MaxEvents
    /\ \E e \in {"message", "nontext", "reasoning", "foreign", "idle", "active",
                 "limit", "broken", "started", "refused"} :
         /\ Emit(e)
         /\ said' = [messages |-> said.messages
                                    + (IF e \in {"message", "nontext"} THEN 1 ELSE 0),
                     foreign  |-> said.foreign + (IF e = "foreign" THEN 1 ELSE 0)]
    /\ UNCHANGED <<turn, events, stage, recovered, verdict>>

\* The turn ends; its notice may get lost.
ServerEnds ==
    /\ turn = "running" /\ stage # "done"
    /\ turn' \in {"completed", "failed"}
    /\ \/ UNCHANGED pipe
       \/ Emitted < MaxEvents /\ Emit(turn')
    /\ UNCHANGED <<said, events, stage, recovered, verdict>>

\* The answer to thread/read: the turn as it stands.
ServerReads ==
    /\ stage = "reading" /\ Emitted < MaxEvents + 1
    /\ ~\E i \in DOMAIN pipe : pipe[i] \in {"read", "unread", "readerror"}
    /\ \/ turn = "completed" /\ said.messages = 1 /\ said.foreign = 0
          /\ Emit("read")
       \/ Emit("unread")
       \/ Emit("readerror")
    /\ UNCHANGED <<turn, said, events, stage, recovered, verdict>>

-----------------------------------------------------------------------------
(* The client.                                                             *)

LastStatus(seen) ==
    LET at == {i \in DOMAIN seen : seen[i] \in {"idle", "active"}}
    IN  IF at = {} THEN "none"
        ELSE seen[CHOOSE i \in at : \A j \in at : j <= i]

Has(seen, kinds) == \E i \in DOMAIN seen : seen[i] \in kinds

TurnEnded(seen) == Has(seen, {"completed", "failed"})

\* A message is there and the thread went idle, with no notice of an end.
TerminalMessageIsIdle(seen) ==
    /\ ~TurnEnded(seen)
    /\ ~Has(seen, {"limit", "broken", "refused", "readerror"})
    /\ Has(seen, {"message", "nontext"})
    /\ LastStatus(seen) = "idle"

AfterTurnRead(seen) ==
    IF TurnEnded(seen) THEN "judging"
    ELSE IF TerminalMessageIsIdle(seen) THEN "grace"
    ELSE "turn"

\* Mutant of Confirms: any answer that shows one message will do.
ConfirmsAny(seen, e) ==
    /\ e \in {"read", "unread"}
    /\ \E i \in DOMAIN seen : {j \in DOMAIN seen : seen[j] = "message"} = {i}

\* thread/read is believed only for one message, the one that was observed.
Confirms(seen, e) ==
    /\ e = "read"
    /\ ~Has(seen, {"nontext"})
    /\ \E i \in DOMAIN seen : {j \in DOMAIN seen : seen[j] = "message"} = {i}

ClientReads ==
    /\ stage \in {"starting", "turn", "grace", "reading"}
    /\ pipe # <<>>
    /\ LET e    == Head(pipe)
           seen == Append(events, e)
       IN  /\ pipe' = Tail(pipe)
           /\ events' = seen
           /\ CASE stage = "starting" ->
                     /\ stage' = IF e = "refused" THEN "done"
                                 ELSE IF e = "started" THEN AfterTurnRead(seen)
                                 ELSE stage
                     /\ verdict' \in IF e = "refused"
                                     THEN {"FAILOVER", "PROCESS_CRASH"}
                                     ELSE {verdict}
                     /\ UNCHANGED recovered
                [] stage = "turn" ->
                     /\ stage' = AfterTurnRead(seen)
                     /\ UNCHANGED <<recovered, verdict>>
                [] stage = "grace" ->
                     /\ stage' = IF TurnEnded(seen) THEN "judging" ELSE stage
                     /\ UNCHANGED <<recovered, verdict>>
                [] stage = "reading" ->
                     /\ stage' = IF e \in {"read", "unread", "readerror"}
                                 THEN "judging" ELSE stage
                     /\ recovered' = Confirms(seen, e)
                     /\ UNCHANGED verdict
    /\ UNCHANGED <<turn, said>>

\* The short grace for a late notice runs out: ask for the turn itself.
GraceExpires ==
    /\ stage = "grace"
    /\ stage' = "reading"
    /\ UNCHANGED <<turn, said, pipe, events, recovered, verdict>>

\* The deadline of the read in progress, the server's exit or a line that
\* is not JSON.
ReadFails ==
    /\ \/ stage \in {"starting", "turn", "reading"} /\ verdict' = "TIMEOUT"
       \/ stage \in {"starting", "turn", "grace", "reading"}
          /\ verdict' = "PROCESS_CRASH"
    /\ stage' = "done"
    /\ UNCHANGED <<turn, said, pipe, events, recovered>>

Completed == Read({"completed"})

\* The events that condemn a session whatever else it holds; the first one
\* names the failure.
Condemning ==
    {i \in DOMAIN events :
        \/ events[i] \in {"limit", "broken", "refused", "foreign", "nontext", "failed"}
        \/ events[i] = "readerror" /\ ~Completed}

FirstFailure ==
    LET e == events[CHOOSE i \in Condemning : \A j \in Condemning : i <= j]
    IN  CASE e = "limit"   -> "FAILOVER"
          [] e = "nontext" -> "SCHEMA_INVALID"
          [] e = "failed"  -> "PROCESS_CRASH"
          [] OTHER         -> "TOOL_PERMISSION"

\* What the server left on stderr counts only without a completed turn.
Judgement(stderr, valid) ==
    IF stderr # "none" /\ ~recovered /\ ~Completed THEN stderr
    ELSE IF Condemning # {} THEN FirstFailure
    ELSE IF ~Completed /\ ~recovered THEN "PROCESS_CRASH"
    ELSE IF ~\E i \in DOMAIN events : Messages = {i} THEN "SCHEMA_INVALID"
    ELSE IF ~valid THEN "SCHEMA_INVALID"
    ELSE "SUCCESS"

JudgeSession ==
    /\ stage = "judging"
    /\ \E stderr \in {"none", "FAILOVER", "PROCESS_CRASH", "TOOL_PERMISSION"},
          valid \in BOOLEAN :
         verdict' = Judgement(stderr, valid)
    /\ stage' = "done"
    /\ UNCHANGED <<turn, said, pipe, events, recovered>>

SessionNext ==
    \/ ServerWorks \/ ServerEnds \/ ServerReads
    \/ ClientReads \/ GraceExpires \/ ReadFails \/ JudgeSession

SessionSpec == SessionInit /\ [][SessionNext]_sessionVars

-----------------------------------------------------------------------------
\* An answer is accepted only from a turn that really completed, having said
\* one thing and used no tool, although the notice of its end may be lost
\* and the client judges from what it read before it stopped reading.
AcceptedTurnIsWhole ==
    verdict = "SUCCESS" =>
        /\ turn = "completed"
        /\ said.messages = 1
        /\ said.foreign = 0

\* What makes it inductive.  All that the server emitted, read or not.
Emission == events \o pipe

Places(kinds) == {i \in DOMAIN Emission : Emission[i] \in kinds}

\* What the turn said is what was emitted, no more and no less.
SaidIsEmitted ==
    /\ said.messages = Cardinality(Places({"message", "nontext"}))
    /\ said.foreign = Cardinality(Places({"foreign"}))

\* The notice of the end is true, and nothing is said behind it.
EndIsLast ==
    \A i \in Places({"completed"}) :
        /\ turn = "completed"
        /\ \A j \in Places({"message", "nontext", "foreign"}) : j < i

\* So is the answer of thread/read, and what the client took from it.
ReadIsTrue ==
    recovered \/ Places({"read"}) # {} =>
        turn = "completed" /\ said.messages = 1 /\ said.foreign = 0

SessionInvariant ==
    /\ SessionTypeOK /\ SaidIsEmitted /\ EndIsLast /\ ReadIsTrue
    /\ AcceptedTurnIsWhole
=============================================================================
