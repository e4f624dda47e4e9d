--------------------------- MODULE AccountProjection ---------------------------
(***************************************************************************)
(* The account of a portfolio, rebuilt from the orders of its execution    *)
(* groups every time it is asked for:                                      *)
(*   execution/group/accounting.py   the projection                        *)
(*   portfolio/repository.py         the snapshot it continues             *)
(*   portfolio/evaluation.py         the trading cost of the same fills,   *)
(*                                   matched lot by lot                    *)
(*                                                                         *)
(* A leg is an order of one spot or perpetual product of the one           *)
(* instrument, with what it may be filled to and how late the venue says   *)
(* so.  Money is whole: the bids of an instance divide by every quantity   *)
(* that is averaged.  The high water, the slippage and the loss of         *)
(* compensations are sums of the same orders and are left out.             *)
(***************************************************************************)
EXTENDS Integers, FiniteSets, Sequences, FiniteSetsExt, Folds

CONSTANTS LegOf,        \* leg 1, 2, ... -> its order: product, side, sleeve, group,
                        \* role, what it may be filled to, delay of the answer
          ClientRanks,  \* orders a hash may give the client ids
          BidAt,        \* moment -> bid of the instrument
          Spread,       \* of its ask over its bid
          Commission,   \* fee of one unit
          FundingDue,   \* what one unit long pays at a funding
          FundingMoments, \* times of the fundings
          Capital,      \* cash the account starts with
          DayLength,    \* hours of a day
          LastMoment      \* bound of the time

ASSUME AccountAssumption ==
    /\ LegOf \in Seq([product : {"spot", "perp"}, side : {1, -1}, sleeve : STRING,
                           group : Nat, role : {"target", "compensation"},
                           fills : SUBSET (Nat \ {0}), delay : Nat])
    /\ ClientRanks \subseteq {r \in [DOMAIN LegOf -> Nat] :
                                \A k, l \in DOMAIN LegOf : r[k] = r[l] => k = l}
    /\ BidAt \in [0..LastMoment -> Nat \ {0}] /\ FundingMoments \subseteq Nat
    /\ {Spread, Commission, Capital, LastMoment} \subseteq Nat /\ DayLength \in Nat \ {0}
    /\ FundingDue \in Int

VARIABLES moment,      \* the time
          rankOf,    \* leg -> rank of its client id
          reports,   \* leg -> observations of its order, as they were recorded
          fundingSeen, \* funding moment -> moment it was observed, where it was
          account,   \* the head of the account ledger
          closedDays \* the daily results of the days before that of the head

accountVars == <<moment, rankOf, reports, fundingSeen, account, closedDays>>

Legs         == DOMAIN LegOf
HeldProducts == {"spot", "perp"}
Sleeves      == {LegOf[l].sleeve : l \in Legs}
NoReport     == [observed |-> 0, available |-> 0, filled |-> 0, paid |-> 0]
Flat         == [quantity |-> 0, average |-> 0]
NoPositions  == [p \in HeldProducts |-> Flat]
NoAccount    == [at |-> -1, seen |-> 0, cash |-> Capital, equity |-> Capital,
                 daily |-> 0, pricePnl |-> 0, funding |-> 0,
                 fees |-> 0, positions |-> NoPositions,
                 sleeves |-> [s \in Sleeves |-> NoPositions]]

AccountTypeOK ==
    /\ moment \in 0..LastMoment /\ rankOf \in ClientRanks
    /\ \A l \in Legs : \A i \in DOMAIN reports[l] :
           /\ reports[l][i].observed <= reports[l][i].available
           /\ reports[l][i].available <= moment /\ reports[l][i].filled \in LegOf[l].fills
    /\ DOMAIN fundingSeen \subseteq FundingMoments
    /\ account.at \in -1..moment
    /\ account.cash \in Nat /\ closedDays \in Int

AccountInit ==
    /\ moment = 0 /\ rankOf \in ClientRanks
    /\ reports = [l \in Legs |-> << >>] /\ fundingSeen = << >>
    /\ account = NoAccount /\ closedDays = 0

-----------------------------------------------------------------------------
(* What is observed.                                                       *)

Smaller(a, b) == IF a < b THEN a ELSE b
Magnitude(n)  == IF n < 0 THEN -n ELSE n
LatestReport(l)     == IF reports[l] = << >> THEN NoReport ELSE reports[l][Len(reports[l])]
SumOf(f, S)         == MapThenSumSet(LAMBDA x : f[x], S)

\* A sleeve has one group at a time, and a leg is reversed once it has ended.
Follows(k, l) ==
    /\ LegOf[k].sleeve = LegOf[l].sleeve
    /\ \/ LegOf[k].group > LegOf[l].group
       \/ /\ LegOf[k].group = LegOf[l].group
          /\ LegOf[k].role = "compensation" /\ LegOf[l].role = "target"

\* A compensation sells what its target bought, and no more.
MayFill(l, q) ==
    /\ q \in LegOf[l].fills /\ q > LatestReport(l).filled
    /\ \A k \in Legs : Follows(k, l) => reports[k] = << >>
    /\ LegOf[l].role = "compensation" =>
           \E k \in Legs : /\ LegOf[k].group = LegOf[l].group
                           /\ LegOf[k].product = LegOf[l].product
                           /\ LegOf[k].role = "target" /\ LatestReport(k).filled = q

\* The engine asks the venue and records the answer before it saves the leg.
ReportOrder(l) ==
    /\ \E q \in LegOf[l].fills :
           LET t == moment - LegOf[l].delay IN
           /\ MayFill(l, q) /\ t >= 0
           /\ LegOf[l].role = "target" /\ reports[l] = << >> => t <= account.at
           /\ \A k \in Legs : (k = l \/ Follows(l, k)) => LatestReport(k).observed <= t
           /\ reports' = [reports EXCEPT ![l] = Append(@,
                  [observed |-> t, available |-> moment, filled |-> q,
                   paid |-> LatestReport(l).paid + (q - LatestReport(l).filled) * BidAt[t]])]
    /\ UNCHANGED <<moment, rankOf, fundingSeen, account, closedDays>>

CollectFunding ==
    /\ \E t \in FundingMoments \ DOMAIN fundingSeen :
           /\ t <= moment
           /\ fundingSeen' = [u \in DOMAIN fundingSeen \cup {t} |->
                                IF u = t THEN moment ELSE fundingSeen[u]]
    /\ UNCHANGED <<moment, rankOf, reports, account, closedDays>>

MomentPasses ==
    /\ moment < LastMoment
    /\ moment' = moment + 1
    /\ UNCHANGED <<rankOf, reports, fundingSeen, account, closedDays>>

-----------------------------------------------------------------------------
(* The orders the projection reads.                                        *)

\* Keys are compared from their first parts on.
Earlier(a, b) ==
    \E i \in DOMAIN a : a[i] < b[i] /\ \A j \in 1..(i - 1) : a[j] = b[j]

\* Of what has a key, the last.
LastBy(key, S) == CHOOSE x \in S : \A y \in S \ {x} : Earlier(key[y], key[x])

\* What is visible is the observations of each leg; in which order those of
\* different legs were recorded decides nothing below.
SeenReports == SumOf([l \in Legs |-> Len(reports[l])], Legs)

\* An order that goes back in time or in what was filled is refused.
GoesBack(l) ==
    \E i \in 2..Len(reports[l]) :
        \/ reports[l][i].observed < reports[l][i - 1].observed
        \/ reports[l][i].filled < reports[l][i - 1].filled

LatestOrder(l) ==
    LET x == LatestReport(l)
    IN  [leg |-> l, observed |-> x.observed, available |-> x.available,
         filled |-> x.filled, paid |-> x.paid, fee |-> Commission * x.filled]

FilledLegs == {l \in Legs : LatestReport(l).filled > 0}
OrderKeys  == [l \in FilledLegs |-> LET o == LatestOrder(l)
                                    IN  <<o.observed, o.available, rankOf[l]>>]
LatestLeg(S) == LastBy(OrderKeys, S)

\* What an observation of a leg adds to the one before it.
Increment(z) ==
    LET l == z[1]
        i == z[2]
        x == reports[l][i]
        y == IF i = 1 THEN NoReport ELSE reports[l][i - 1]
    IN  [leg |-> l, observed |-> x.observed, filled |-> x.filled - y.filled,
         paid |-> x.paid - y.paid]

Observations == UNION {{l} \X DOMAIN reports[l] : l \in Legs}
ObservedBy(t) == {z \in Observations : reports[z[1]][z[2]].observed <= t}
FillKeys ==
    [z \in Observations |-> <<reports[z[1]][z[2]].observed, rankOf[z[1]], z[2]>>]
LatestFill(S) == LastBy(FillKeys, S)

-----------------------------------------------------------------------------
(* Positions.                                                              *)

SignedFill(o)   == LegOf[o.leg].side * o.filled
AveragePaid(o)  == o.paid \div o.filled

\* A slip: a position keeps the average it began with.
MovedKeepingAverage(h, d, x) ==
    CASE h.quantity = 0     -> [quantity |-> d, average |-> x]
      [] h.quantity + d = 0 -> Flat
      [] OTHER              -> [h EXCEPT !.quantity = @ + d]

\* Position h after a fill of d at price x.
Moved(h, d, x) ==
    LET left == h.quantity + d
    IN  CASE left = 0           -> Flat
          [] h.quantity * d > 0 -> [quantity |-> left,
                                    average |-> (h.average * Magnitude(h.quantity)
                                                 + x * Magnitude(d)) \div Magnitude(left)]
          [] h.quantity * d < 0 /\ h.quantity * left > 0 -> [h EXCEPT !.quantity = left]
          [] OTHER -> [quantity |-> left, average |-> x]

RealizedPnl(h, d, x) ==
    IF h.quantity * d >= 0 THEN 0
    ELSE (x - h.average) * Smaller(Magnitude(h.quantity), Magnitude(d))
             * (IF h.quantity > 0 THEN 1 ELSE -1)

\* Nothing is sold that is not held, in the spot market.
ShortSpot(o, h) == LegOf[o.leg].product = "spot" /\ h.quantity + SignedFill(o) < 0

ApplyPosition(held, o) ==
    [held EXCEPT ![LegOf[o.leg].product] = Moved(@, SignedFill(o), AveragePaid(o))]

\* The cash of spot trades moves in full, of perpetuals what they realize.
ApplyOrder(o, books) ==
    LET p == LegOf[o.leg].product
        s == LegOf[o.leg].sleeve
        h == books.positions[p]
    IN  [cash |-> books.cash - o.fee
                  + (IF p = "spot" THEN -LegOf[o.leg].side * o.paid
                     ELSE RealizedPnl(h, SignedFill(o), AveragePaid(o))),
         positions |-> ApplyPosition(books.positions, o),
         sleeves   |-> [books.sleeves EXCEPT ![s] = ApplyPosition(@, o)],
         refused   |-> \/ books.refused \/ ShortSpot(o, h)
                       \/ ShortSpot(o, books.sleeves[s][p])]

ApplyFill(o, books) ==
    [positions |-> ApplyPosition(books.positions, o),
     refused   |-> books.refused \/ ShortSpot(o, books.positions[LegOf[o.leg].product])]

\* The fundings in sight, each on what was held when it fell due.
Settlements == {t \in DOMAIN fundingSeen : t < moment}

NoFills == [positions |-> NoPositions, refused |-> FALSE]
BooksAt(t) == MapThenFoldSet(ApplyFill, NoFills, Increment, LatestFill, ObservedBy(t))

FundingPnl ==
    SumOf([t \in Settlements |-> -BooksAt(t).positions["perp"].quantity * FundingDue],
          Settlements)

\* A long position is worth the bid, a short one the ask.
MarkOf(h) == IF h.quantity > 0 THEN BidAt[moment] ELSE BidAt[moment] + Spread

EquityOf(cash, positions) ==
    cash + positions["spot"].quantity * MarkOf(positions["spot"])
         + (MarkOf(positions["perp"]) - positions["perp"].average) * positions["perp"].quantity

-----------------------------------------------------------------------------
(* The projection.                                                         *)

\* The change since the day before belongs to the day that sees it.
DailyPnl(equity) ==
    CASE account = NoAccount -> equity - Capital
      [] account.at >= 0 /\ account.at \div DayLength = moment \div DayLength
             -> account.daily + equity - account.equity
      [] OTHER -> equity - account.equity

NoBooks == [cash |-> Capital, positions |-> NoPositions,
            sleeves |-> [s \in Sleeves |-> NoPositions], refused |-> FALSE]
BookedOf(S) == MapThenFoldSet(ApplyOrder, NoBooks, LatestOrder, LatestLeg, S)
Booked == BookedOf(FilledLegs)

\* Facts on which the projection raises an error.
Rejected(books, cash) ==
    \/ \E l \in Legs : GoesBack(l)
    \/ books.refused \/ \E t \in Settlements : BooksAt(t).refused
    \/ cash < 0

\* A cycle projects the account of its instant once, and again after it has
\* executed.
ProjectAccount ==
    /\ account.at < moment \/ account.seen < SeenReports
    /\ LET books   == Booked
           funding == FundingPnl
           cash    == books.cash + funding
           equity  == EquityOf(cash, books.positions)
           fees    == SumOf([l \in Legs |-> Commission * LatestReport(l).filled], Legs)
       IN  /\ ~Rejected(books, cash)
           /\ account' = [at |-> moment, seen |-> SeenReports, cash |-> cash,
                          equity |-> equity,
                          daily |-> DailyPnl(equity),
                          pricePnl |-> equity - Capital - funding + fees,
                          funding |-> funding, fees |-> fees,
                          positions |-> books.positions, sleeves |-> books.sleeves]
           /\ closedDays' = IF account.at >= 0 /\ account.at \div DayLength < moment \div DayLength
                            THEN closedDays + account.daily ELSE closedDays
    /\ UNCHANGED <<moment, rankOf, reports, fundingSeen>>

AccountNext ==
    \/ MomentPasses \/ CollectFunding \/ ProjectAccount
    \/ \E l \in Legs : ReportOrder(l)

AccountSpec == AccountInit /\ [][AccountNext]_accountVars

-----------------------------------------------------------------------------
(* The trading cost of the same fills: the last unit bought is the first   *)
(* sold, in each product of each sleeve.                                   *)

\* A fill is as many units, each with its share of the fee.
Units == UNION {{l} \X (1..LatestReport(l).filled) : l \in Legs}
UnitKeys ==
    [u \in Units |-> <<LegOf[u[1]].group, LatestReport(u[1]).observed, rankOf[u[1]], u[2]>>]

LatestUnit(S) == LastBy(UnitKeys, S)

SideOf(u)   == LegOf[u[1]].side
PriceOf(u)  == AveragePaid(LatestOrder(u[1]))
SameLots(u, v) == /\ LegOf[u[1]].sleeve = LegOf[v[1]].sleeve
                  /\ LegOf[u[1]].product = LegOf[v[1]].product

NoTrips == [open |-> {}, gross |-> 0, fees |-> 0]

MatchUnit(u, trips) ==
    LET lots == {v \in trips.open : SameLots(u, v)}
        last == LatestUnit(lots)
    IN  IF lots # {} /\ SideOf(last) # SideOf(u)
        THEN [open  |-> trips.open \ {last},
              gross |-> trips.gross + (PriceOf(u) - PriceOf(last)) * SideOf(last),
              fees  |-> trips.fees + 2 * Commission]
        ELSE [trips EXCEPT !.open = @ \cup {u}]

TradingCost == MapThenFoldSet(MatchUnit, NoTrips, LAMBDA u : u, LatestUnit, Units)

NoLotOpen(trips) == trips.open = {}

-----------------------------------------------------------------------------
(* Properties.                                                             *)

NetHeld(p) ==
    SumOf([l \in Legs |-> IF LegOf[l].product = p THEN LegOf[l].side * LatestReport(l).filled
                          ELSE 0], Legs)

\* What leg l had filled by time t, as the reports known now tell it.
FilledBy(l, t) == Max({0} \cup {reports[l][i].filled : i \in {j \in DOMAIN reports[l] :
                                                                  reports[l][j].observed <= t}})
HeldBy(p, t) ==
    SumOf([l \in Legs |-> IF LegOf[l].product = p THEN LegOf[l].side * FilledBy(l, t) ELSE 0], Legs)

\* The equity of the account is its cash flows and what its net positions
\* would bring, in whatever order the orders were taken and averaged.
Flow(l) == -LegOf[l].side * LatestReport(l).paid - Commission * LatestReport(l).filled

WouldBring(n) == n * (IF n > 0 THEN BidAt[moment] ELSE BidAt[moment] + Spread)

EquityFollows(a) ==
    a.equity = Capital + SumOf([l \in Legs |-> Flow(l)], Legs)
               + SumOf([p \in HeldProducts |-> WouldBring(NetHeld(p))], HeldProducts)
               + SumOf([t \in Settlements |-> -HeldBy("perp", t) * FundingDue], Settlements)

\* The sleeves own what the account holds, and nothing else is owned.
SleevesOwnIt(a) ==
    \A p \in HeldProducts :
        /\ a.positions[p].quantity = NetHeld(p)
        /\ SumOf([s \in Sleeves |-> a.sleeves[s][p].quantity], Sleeves) = NetHeld(p)

\* Every projection (accounting.py) agrees with the facts it was made from: its
\* equity is what the orders paid and would bring, whatever the order they were
\* averaged in, the sides they crossed and the time a funding or a fill became
\* known; its sleeves add up to its positions; the daily results, the one of a
\* day without a projection included, add up to the net result; and the trading
\* cost matched lot by lot (evaluation.py) is that of the account once no lot is
\* open.
AccountFollowsFacts ==
    [][(account'.at # account.at \/ account'.seen # account.seen) =>
          /\ EquityFollows(account') /\ SleevesOwnIt(account')
          /\ closedDays' + account'.daily = account'.equity - Capital
          /\ LET cost == TradingCost
             IN  NoLotOpen(cost) => /\ cost.gross = account'.pricePnl
                                    /\ cost.fees = account'.fees]_accountVars

\* Averages lose nothing: every order was paid a whole average, and every
\* position that grew has one.  Decimal averages round in the last digit only.
AveragesAreWhole ==
    /\ \A l \in FilledLegs :
           AveragePaid(LatestOrder(l)) * LatestReport(l).filled = LatestReport(l).paid
    /\ \A l \in FilledLegs :
           LET before == BookedOf({k \in FilledLegs : Earlier(OrderKeys[k], OrderKeys[l])})
               h == before.positions[LegOf[l].product]
               d == SignedFill(LatestOrder(l))
               x == AveragePaid(LatestOrder(l))
           IN  h.quantity * d > 0 =>
                   Moved(h, d, x).average * (h.quantity + d) = h.average * h.quantity + x * d

\* The inductive invariant: what is recorded of a leg goes on only, what is in
\* sight is of the past, and the days so far make the result so far.
ReportRow == [observed : Nat, available : Nat, filled : Nat, paid : Int]

ReportsRise(rows) ==
    \A i \in 2..Len(rows) : /\ rows[i - 1].filled < rows[i].filled
                             /\ rows[i - 1].observed <= rows[i].observed

AccountInvariant ==
    /\ AccountTypeOK
    /\ reports \in [Legs -> Seq(ReportRow)]
    /\ \A l \in Legs : ReportsRise(reports[l])
    /\ DOMAIN fundingSeen \subseteq 0..moment
    /\ account = NoAccount \/ account.at >= 0
    /\ {account.equity, account.daily} \subseteq Int
    /\ closedDays + account.daily = account.equity - Capital

\* What the projection is for: the facts of an execution can always be projected.
\* Refuted: a spot target and its compensation of one run_once are observed at
\* one time, and _latest_orders and _incremental_fills then order them by their
\* client ids alone, where _visible_order_history puts the target first.
ProjectionSucceeds == ~Rejected(Booked, Booked.cash + FundingPnl)
=============================================================================
