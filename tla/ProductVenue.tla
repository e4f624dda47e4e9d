---------------------------- MODULE ProductVenue ----------------------------
(* The order port of the execution group engine (execution/venue): orders   *)
(* keyed by a client order id that is a stable function of the leg and the  *)
(* attempt, the account position they produce, and the append-only ledger   *)
(* of order facts the system has seen (venue/observation.py).               *)
(*                                                                          *)
(* Submission and cancellation are those of the persistent paper venue      *)
(* (product_mock.py): idempotent by client id, atomic at the venue, with a  *)
(* response that may be lost before or after they took effect.  Working     *)
(* orders, partial fills of any size and orders closed by the exchange are  *)
(* the rest of what ProductOrderStatus admits.                              *)
EXTENDS GroupContract

VARIABLES
    order,     \* order[l][k]: the venue's order for attempt k of leg l
    position,  \* net quantity the account holds because of leg l
    ledger     \* ledger[l][k]: latest recorded fact about that order

venueVars == <<order, position, ledger>>

TerminalOrder == {"FILLED", "CANCELED", "REJECTED", "EXPIRED"}
LiveOrder == {"WORKING", "PARTIALLY_FILLED"}
OrderRecord == [status    : TerminalOrder \cup LiveOrder \cup {"NONE"},
                requested : Nat,
                filled    : Nat]
Observation == [at     : Time \cup {NoTime},
                status : TerminalOrder \cup LiveOrder \cup {"NONE"},
                filled : Nat]

NoOrder == [status |-> "NONE", requested |-> 0, filled |-> 0]
NoObservation == [at |-> NoTime, status |-> "NONE", filled |-> 0]

VenueInit ==
    /\ order = [l \in Legs |-> [k \in Attempts |-> NoOrder]]
    /\ position = [l \in Legs |-> 0]
    /\ ledger = [l \in Legs |-> [k \in Attempts |-> NoObservation]]

Placed(l, k) == order[l][k].status # "NONE"

\* A compensation reverses its target, so its fills count the other way.
Signed(k, quantity) == IF k = 0 THEN quantity ELSE -quantity

\* The last attempt of the bound is never refused or closed unfilled.
MayFail(k) == k < MaxAttempts

WithStatus(requested, filled) ==
    [status    |-> IF filled = requested THEN "FILLED"
                   ELSE IF filled > 0 THEN "PARTIALLY_FILLED" ELSE "WORKING",
     requested |-> requested,
     filled    |-> filled]

\* What an accepted submission may have become when the venue answers.
SubmitOutcomes(k, requested) ==
    {WithStatus(requested, filled) : filled \in 0 .. requested}
      \cup (IF MayFail(k)
            THEN {[status |-> "REJECTED", requested |-> requested, filled |-> 0]}
            ELSE {})

\* The venue's order becomes o; the account moves by what it newly filled.
SetOrder(l, k, o) ==
    /\ order' = [order EXCEPT ![l][k] = o]
    /\ position' = [position EXCEPT ![l] = @ + Signed(k, o.filled - order[l][k].filled)]

\* What a cancel request turns an existing order into.
Canceled(o) == IF o.status \in LiveOrder THEN [o EXCEPT !.status = "CANCELED"] ELSE o

\* Mutant: of two facts seen at the same instant the first one stays.
RecordedFirst(l, k, o, at) ==
    [ledger EXCEPT ![l][k] =
        IF at <= @.at THEN @ ELSE [at |-> at, status |-> o.status, filled |-> o.filled]]

\* A distinct fact is recorded once, with the as_of of the run that saw it;
\* the latest fact is the one with the latest as_of, ties by venue time.
Recorded(l, k, o, at) ==
    LET last == ledger[l][k]
        same == last.status = o.status /\ last.filled = o.filled
    IN  [ledger EXCEPT ![l][k] =
            IF same \/ at < last.at
            THEN last
            ELSE [at |-> at, status |-> o.status, filled |-> o.filled]]

\* The market fills more of a live order.
VenueFill(l, k) ==
    /\ order[l][k].status \in LiveOrder
    /\ \E filled \in (order[l][k].filled + 1) .. order[l][k].requested :
          SetOrder(l, k, WithStatus(order[l][k].requested, filled))
    /\ UNCHANGED ledger

\* The exchange itself ends a live order.  (It may also cancel one; nothing
\* reads the difference.)
VenueClose(l, k) ==
    /\ order[l][k].status \in LiveOrder
    /\ MayFail(k)
    /\ SetOrder(l, k, [order[l][k] EXCEPT !.status = "EXPIRED"])
    /\ UNCHANGED ledger

VenueTypeOK ==
    /\ order \in [Legs -> [Attempts -> OrderRecord]]
    /\ position \in [Legs -> Int]
    /\ ledger \in [Legs -> [Attempts -> Observation]]
=============================================================================
