-------------------------------- MODULE Figures --------------------------------
(***************************************************************************)
(* The reports: a master's statistics, the administrator's dashboard and   *)
(* page of one master, and what reviews add up to.  Each report is several *)
(* queries, side by side and in no transaction, on bookings and reviews    *)
(* that others go on changing.                                             *)
(***************************************************************************)
EXTENDS Integers, FiniteSetsExt
Machine == INSTANCE BookingStateMachine

CONSTANTS
  Visits,                          \* bookings of one master
  PriceOf, ClientOf, TradeOf,      \* what each is for, with whom, and of which service
  Trades, Areas, AreaOf,           \* services and the categories of each
  WindowDays,                      \* DAILY_EARNINGS_WINDOW_DAYS
  Ledgers,                         \* a bound: what the bookings may be at first
  MaxMoves                         \* a bound: the writes while a report is made

VARIABLES
  facts,             \* the rows
  report             \* the report being made

figuresVars == <<facts, report>>

\* day is that of completedAt, 0 before the window.  A booking is reviewed when it has a
\* rating; npsScore may be left out, and is then -1.
Fact == [ status : Machine!Statuses \cup {"NONE"}, accepted : BOOLEAN, day : 0 .. WindowDays,
          rating : 0 .. 5, nps : -1 .. 10, visible : BOOLEAN ]
Facts == [ of : [Visits -> Fact], withdrawn : SUBSET Trades ]

\* What was ever taken on has acceptedAt: accept() sets it, and so does an instant booking.
Taken == {"ACCEPTED", "IN_PROGRESS", "COMPLETED"}
TakenAccepted(rows) == \A v \in Visits : rows.of[v].status \in Taken => rows.of[v].accepted

ASSUME FiguresAssumption ==
  /\ PriceOf \in [Visits -> Nat] /\ TradeOf \in [Visits -> Trades] /\ AreaOf \in [Trades -> Areas]
  /\ IsFiniteSet(Visits) /\ IsFiniteSet(Trades) /\ WindowDays \in Nat \ {0} /\ MaxMoves \in Nat
  /\ Ledgers \subseteq Facts /\ \A rows \in Ledgers : TakenAccepted(rows)

\* What each report asks, a query each.
QueriesOf ==
  [ master    |-> {"earned", "daily", "counts", "completed"},
    dashboard |-> {"statuses", "accepted", "total", "volume", "categories", "reasons"},
    admin     |-> {"clients", "done", "unfinished", "monthly", "top"},
    reviews   |-> {"items", "count", "distribution", "scores", "areas"} ]
\* The categories of services are looked up once the services are known.
Following == [ categories |-> "volume", areas |-> "scores" ]

InitFigures ==
  /\ facts \in Ledgers
  /\ \E kind \in DOMAIN QueriesOf : report = [ kind |-> kind, read |-> {}, at |-> <<>>, moves |-> 0 ]

\* One query sees the rows of one moment.
Ask(query) ==
  /\ query \in QueriesOf[report.kind] \ report.read
  /\ query \in DOMAIN Following => Following[query] \in report.read
  /\ report' = [ report EXCEPT !.read = @ \cup {query},
                 !.at = [ q \in report.read \cup {query} |-> IF q = query THEN facts ELSE report.at[q] ] ]
  /\ UNCHANGED facts

\* What others write meanwhile: a booking is made, or moves; a review is hidden, or shown;
\* a service is withdrawn.
Changed(written) ==
  /\ report.moves < MaxMoves
  /\ facts' = written
  /\ report' = [ report EXCEPT !.moves = @ + 1 ]

Progressed(v, to) ==
  [ facts EXCEPT !.of[v].status = to,
                 !.of[v].accepted = @ \/ to = "ACCEPTED",
                 !.of[v].day = IF to = "COMPLETED" THEN WindowDays ELSE @ ]

Advance(v) ==
  \/ \E to \in {"PENDING", "ACCEPTED"} :               \* the second when it is booked at once
       facts.of[v].status = "NONE" /\ Changed(Progressed(v, to))
  \/ \E to \in Machine!Statuses, actor \in Machine!Actors :
       Machine!CanTransition(facts.of[v].status, to, actor) /\ Changed(Progressed(v, to))

Moderate(v) ==
  facts.of[v].rating # 0 /\ Changed([ facts EXCEPT !.of[v].visible = ~@ ])

WithdrawTrade(t) ==
  t \notin facts.withdrawn /\ Changed([ facts EXCEPT !.withdrawn = @ \cup {t} ])

NextFigures ==
  \/ \E kind \in DOMAIN QueriesOf : \E query \in QueriesOf[kind] : Ask(query)
  \/ \E v \in Visits : Advance(v) \/ Moderate(v)
  \/ \E t \in Trades : WithdrawTrade(t)
FiguresSpec == InitFigures /\ [][NextFigures]_figuresVars

-----------------------------------------------------------------------------
\* Of the rows a query saw: those in some statuses, what they cost, and how many there are.
In(rows, statuses) == { v \in Visits : rows.of[v].status \in statuses }
Booked(rows)  == In(rows, Machine!Statuses)
Done(rows)    == In(rows, {"COMPLETED"})
Sum(f, set)   == MapThenSumSet(LAMBDA x : f[x], set)
Worth(visits) == Sum(PriceOf, visits)
Count(visits) == Cardinality(visits)
Rounded(n, d) == (2 * n + d) \div (2 * d)          \* Math.round(n / d)
Permille(part, whole) == IF whole = 0 THEN 0 ELSE Rounded(1000 * part, whole)

CalledOff == {"REJECTED", "CANCELLED_BY_CLIENT", "CANCELLED_BY_MASTER", "CANCELLED_BY_ADMIN"}
UnexpiredOnly == CalledOff                         \* mutant: EXPIRED is left out here too
CancelledStatuses == CalledOff \cup {"EXPIRED"}

\* getMasterStats()
MasterStats(at) ==
  LET counts == at.counts
      done == Count(Done(counts))
      cancelled == Count(In(counts, CancelledStatuses))
      clients == { ClientOf[v] : v \in Done(at.completed) }
      repeated == { c \in clients : Count({ v \in Done(at.completed) : ClientOf[v] = c }) > 1 }
  IN  [ totalEarnings |-> Worth(Done(at.earned)),
        dailyEarnings |-> [ d \in 1 .. WindowDays |->
                              Worth({ v \in Done(at.daily) : at.daily.of[v].day = d }) ],
        pendingCount |-> Count(In(counts, {"PENDING"})),
        acceptedCount |-> Count(In(counts, {"ACCEPTED", "IN_PROGRESS"})),
        completedCount |-> done,
        cancelledCount |-> cancelled,
        completionRate |-> Permille(done, done + cancelled),
        earningsByCategory |-> [ a \in { AreaOf[TradeOf[v]] : v \in Done(at.completed) } |->
          LET of == { v \in Done(at.completed) : AreaOf[TradeOf[v]] = a }
          IN  [ total |-> Worth(of), completedCount |-> Count(of) ] ],
        repeatClientRate |-> Permille(Count(repeated), Count(clients)) ]

\* getDashboard(), of bookings all within the range asked for.
Dashboard(at) ==
  LET n(statuses) == Count(In(at.statuses, statuses))
      known == { t \in Trades : t \notin at.categories.withdrawn }     \* soft-deleted rows are not found
  IN  [ pending |-> n({"PENDING"}), accepted |-> n({"ACCEPTED"}), inProgress |-> n({"IN_PROGRESS"}),
        completed |-> n({"COMPLETED"}), cancelled |-> n(CalledOff), expired |-> n({"EXPIRED"}),
        everAccepted |-> Count({ v \in Booked(at.accepted) : at.accepted.of[v].accepted }),
        total |-> Count(Booked(at.total)),
        topCategories |-> [ a \in { AreaOf[t] : t \in known } |->
          Count({ v \in Booked(at.volume) : TradeOf[v] \in known /\ AreaOf[TradeOf[v]] = a }) ],
        cancellationReasons |-> Count(In(at.reasons, CalledOff)) ]

\* AdminMasterStatsService.getStats()
AdminStats(at) ==
  [ totalClientsServed |-> Count({ ClientOf[v] : v \in Done(at.clients) }),
    completedJobs |-> Count(Done(at.done)),
    unfinishedJobs |-> Count(In(at.unfinished, Machine!Statuses \ {"COMPLETED"})),
    monthly |-> [ bookings |-> Count(Booked(at.monthly)),
                  completed |-> Count({ v \in Done(at.monthly) : at.monthly.of[v].day > 0 }),
                  revenue |-> Worth({ v \in Done(at.monthly) : at.monthly.of[v].day > 0 }) ],
    topServices |-> [ t \in { TradeOf[v] : v \in Done(at.top) } |->
      [ completedCount |-> Count({ v \in Done(at.top) : TradeOf[v] = t }),
        revenue |-> Worth({ v \in Done(at.top) : TradeOf[v] = t }) ] ] ]

\* computeNps()
Nps(rows, visits) ==
  LET promoters == { v \in visits : rows.of[v].nps >= 9 }
      detractors == { v \in visits : rows.of[v].nps < 7 }
  IN  [ promoters |-> Count(promoters), detractors |-> Count(detractors),
        passives |-> Count(visits) - Count(promoters) - Count(detractors),
        responseCount |-> Count(visits),
        nps |-> IF visits = {} THEN 0
                ELSE Rounded(100 * (Count(promoters) - Count(detractors)), Count(visits)) ]

\* publicListing() and getNps(); a category is known by its services that are not removed.
VisibleOnes(rows) == { v \in Visits : rows.of[v].rating # 0 /\ rows.of[v].visible }
ReviewFigures(at) ==
  LET scored == { v \in VisibleOnes(at.scores) : at.scores.of[v].nps >= 0 }
      known == { v \in scored : TradeOf[v] \notin at.areas.withdrawn }
  IN  [ items |-> VisibleOnes(at.items), total |-> Count(VisibleOnes(at.count)),
        distribution |-> [ r \in 1 .. 5 |->
          Count({ v \in VisibleOnes(at.distribution) : at.distribution.of[v].rating = r }) ],
        overall |-> Nps(at.scores, scored),
        byCategory |-> [ a \in { AreaOf[TradeOf[v]] : v \in known } |->
          Nps(at.scores, { v \in known : AreaOf[TradeOf[v]] = a }) ] ]

-----------------------------------------------------------------------------
FiguresTypeOK ==
  /\ facts \in Facts
  /\ report.kind \in DOMAIN QueriesOf /\ report.read \subseteq QueriesOf[report.kind]
  /\ report.at \in [report.read -> Facts]
  /\ report.moves \in 0 .. MaxMoves

Apart(a, b) == IF a < b THEN b - a ELSE a - b
Plain(f) == Sum(f, DOMAIN f)
Total(figure, f) == Plain([ x \in DOMAIN f |-> f[x][figure] ])

MasterAgrees(s, moves) ==
  /\ Apart(s.pendingCount + s.acceptedCount + s.completedCount + s.cancelledCount,
           Count(Booked(facts))) <= moves
  /\ Apart(s.completedCount, Total("completedCount", s.earningsByCategory)) <= moves
  /\ s.completionRate \in 0 .. 1000 /\ s.repeatClientRate \in 0 .. 1000
  /\ moves = 0 => /\ s.totalEarnings = Total("total", s.earningsByCategory)
                  /\ Plain(s.dailyEarnings) <= s.totalEarnings

DashboardAgrees(d, moves) ==
  /\ Apart(d.pending + d.accepted + d.inProgress + d.completed + d.cancelled + d.expired, d.total) <= moves
  /\ Apart(d.cancellationReasons, d.cancelled) <= moves
  /\ d.accepted + d.inProgress + d.completed <= d.everAccepted + moves
  /\ moves = 0 => /\ Plain(d.topCategories) <= d.total
                  /\ facts.withdrawn = {} => Plain(d.topCategories) = d.total

AdminAgrees(s, moves) ==
  /\ Apart(s.completedJobs + s.unfinishedJobs, s.monthly.bookings) <= moves
  /\ Apart(s.completedJobs, Total("completedCount", s.topServices)) <= moves
  /\ s.totalClientsServed <= s.completedJobs + moves
  /\ s.monthly.completed <= s.completedJobs + moves
  /\ moves = 0 => s.monthly.revenue <= Total("revenue", s.topServices)

ReviewsAgree(r, moves) ==
  /\ Apart(r.total, Plain(r.distribution)) <= moves /\ Apart(r.total, Count(r.items)) <= moves
  /\ r.overall.responseCount <= r.total + moves
  /\ r.overall.nps \in -100 .. 100
  /\ Total("responseCount", r.byCategory) <= r.overall.responseCount
  /\ moves = 0 /\ facts.withdrawn = {} =>
       /\ Total("promoters", r.byCategory) = r.overall.promoters
       /\ Total("detractors", r.byCategory) = r.overall.detractors

\* BookingStatsService, DashboardService, AdminMasterStatsService, NpsService and
\* ReviewsService.publicListing: the figures of one report, read one by one, disagree by no
\* more than was written while they were read; with nothing written, every booking is under
\* one heading, and what is shown by category, day or service adds up to what is shown in all.
FiguresAgree ==
  report.read = QueriesOf[report.kind] =>
    CASE report.kind = "master"    -> MasterAgrees(MasterStats(report.at), report.moves)
      [] report.kind = "dashboard" -> DashboardAgrees(Dashboard(report.at), report.moves)
      [] report.kind = "admin"     -> AdminAgrees(AdminStats(report.at), report.moves)
      [] report.kind = "reviews"   -> ReviewsAgree(ReviewFigures(report.at), report.moves)
=============================================================================
