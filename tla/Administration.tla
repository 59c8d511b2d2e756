--------------------------- MODULE Administration ---------------------------
(***************************************************************************)
(* What administrators do and see (app/services/admin.py, behind the       *)
(* routes of app/api/v1/admin.py), while users sign up, sign in and submit *)
(* feedback (app/services/feedback.py).                                    *)
(*                                                                         *)
(* Each statement sees what is committed when it runs: a dashboard is put  *)
(* together from several of them, a list is read page by page in requests  *)
(* of their own, and a toggle of is_active loads the row and writes its    *)
(* negation later.  The figures on AI queries and log entries are counted  *)
(* by the same statements as those on users and are left out.              *)
(***************************************************************************)
EXTENDS Integers, FiniteSets, SequencesExt

CONSTANTS
    Users,        \* accounts of a behaviour
    Admins,       \* those with is_admin, which no request changes
    Notes,        \* ids of feedback items
    Requests,     \* the toggles of a behaviour
    PageSize,     \* page_size of the lists
    TicksPerDay,  \* resolution of the clock
    Week, Month,  \* 7 and 30 days in the code
    Ranges,       \* values of ?range= in days, None for "all"
    Start,        \* time at which a behaviour begins
    MaxClock,     \* bound: time at which the clock stops
    MaxWrites,    \* bound: requests that write
    None

Time    == 0..MaxClock
Account == [created : Time, login : Time \cup {None}, active : BOOLEAN]

ASSUME AdministrationAssumption ==
    /\ IsFiniteSet(Users) /\ IsFiniteSet(Notes)
    /\ Admins \subseteq Users /\ Admins # {}
    /\ None \notin Users \cup Nat \cup Account
    /\ {PageSize, TicksPerDay, Week, Month} \subseteq Nat \ {0}
    /\ Week <= Month
    /\ Ranges \ {None} \subseteq Nat \ {0}
    /\ {Start, MaxClock, MaxWrites} \subseteq Nat /\ Start <= MaxClock

VARIABLES
    clock,
    users,     \* table users
    joined,    \* ids of the accounts, by created_at
    feedback,  \* table feedback: the ids by created_at
    unread,    \* the items whose is_read is false
    requests,  \* how far each toggle got
    report,    \* the dashboard or list being read: reports do not disturb
               \* each other, and one at a time is enough
    writes,    \* those still allowed
    raced      \* history: an admin committed a toggle after being deactivated

vars == <<clock, users, joined, feedback, unread, requests, report, writes,
          raced>>

\* What a report leaves alone.
stored == <<clock, users, joined, feedback, unread, requests, writes, raced>>

\* The order of the statements of get_dashboard.
Order == <<"total", "week", "month", "period">>

Kinds  == {"users", "feedback", "unread"}
Count  == 0..Cardinality(Users)
Pages  == 1..(Cardinality(Users) + Cardinality(Notes) + 1)
Toggle == [pc : {"idle", "allowed", "loaded", "done"}, by : Admins \cup {None},
           target : Users \cup {None}, seen : BOOLEAN]

\* Days of the chart.
SeriesDays(range) == IF range = None THEN Month ELSE range

Dashboard ==
    [op : {"dashboard"}, pc : 1..(Len(Order) + 2), range : Ranges, now : Time,
     figures : [ToSet(Order) -> Count],
     bars    : UNION {[1..SeriesDays(range) -> Count] : range \in Ranges},
     known   : SUBSET Users]        \* history: accounts there at the beginning
Reader == [op : {"list"}, pc : {"reading", "done"}, by : Admins, kind : Kinds,
           page : Pages, seen : SUBSET (Users \cup Notes),
           due  : SUBSET (Users \cup Notes),  \* history: listed from the beginning
           shrunk : BOOLEAN]                  \* history: an item left the list
Nothing == [op |-> "none"]

Ended(pc) == [pc |-> pc, by |-> None, target |-> None, seen |-> FALSE]

TypeOK ==
    /\ clock    \in Time
    /\ users    \in [Users -> Account \cup {None}]
    /\ ToSet(joined) = {u \in Users : users[u] # None}
    /\ ToSet(feedback) \subseteq Notes
    /\ unread   \subseteq ToSet(feedback)
    /\ requests \in [Requests -> Toggle]
    /\ report   \in Dashboard \cup Reader \cup {Nothing}
    /\ writes   \in 0..MaxWrites
    /\ raced    \in BOOLEAN

\* The administrators are seeded or signed up long ago; the others have an
\* account of any age, or none.
Init ==
    /\ clock = Start
    /\ users \in [Users -> {a \in Account : a.active /\ a.created <= Start} \cup {None}]
    /\ \A u \in Users :
         /\ u \in Admins => users[u] = [created |-> 0, login |-> None, active |-> TRUE]
         /\ users[u] # None /\ users[u].login # None =>
              users[u].created <= users[u].login /\ users[u].login <= Start
    /\ joined \in SetToSeqs({u \in Users : users[u] # None})
    /\ \A i, j \in 1..Len(joined) :
         i < j => users[joined[i]].created <= users[joined[j]].created
    /\ \E S \in SUBSET Notes : feedback \in SetToSeqs(S) /\ unread = S
    /\ requests = [r \in Requests |-> Ended("idle")]
    /\ report = Nothing
    /\ writes = MaxWrites
    /\ raced = FALSE

-----------------------------------------------------------------------------
Accounts  == {u \in Users : users[u] # None}
Active(u) == users[u] # None /\ users[u].active
Day(t)    == t \div TicksPerDay

Tick ==
    /\ clock < MaxClock
    /\ clock' = clock + 1
    /\ UNCHANGED <<users, joined, feedback, unread, requests, report, writes, raced>>

Write == /\ writes > 0
         /\ writes' = writes - 1

\* created_at is taken before the commit: whatever is added, an account or an
\* item, may show up behind newer ones.
SignUp(u) ==
    /\ Write
    /\ users[u] = None
    /\ \E t \in {clock - 1, clock} \cap Time, i \in 1..(Len(joined) + 1) :
         /\ \A j \in 1..Len(joined) : IF j < i THEN users[joined[j]].created <= t
                                             ELSE users[joined[j]].created >= t
         /\ joined' = InsertAt(joined, i, u)
         /\ users' = [users EXCEPT ![u] = [created |-> t, login |-> t, active |-> TRUE]]
    /\ UNCHANGED <<clock, feedback, unread, requests, report, raced>>

SignIn(u) ==
    /\ Write
    /\ Active(u)
    /\ users' = [users EXCEPT ![u].login = clock]
    /\ UNCHANGED <<clock, joined, feedback, unread, requests, report, raced>>

Submit(n) ==
    /\ Write
    /\ \E u \in Users : Active(u)
    /\ n \notin ToSet(feedback)
    /\ \E i \in 1..(Len(feedback) + 1) : feedback' = InsertAt(feedback, i, n)
    /\ unread' = unread \cup {n}
    /\ UNCHANGED <<clock, users, joined, requests, report, raced>>

MarkRead(n) ==
    /\ Write
    /\ \E a \in Admins : Active(a)
    /\ n \in unread
    /\ unread' = unread \ {n}
    /\ report' = IF report.op = "list" /\ report.kind = "unread"
                 THEN [report EXCEPT !.shrunk = TRUE] ELSE report
    /\ UNCHANGED <<clock, users, joined, feedback, requests, raced>>

-----------------------------------------------------------------------------
(* Toggling an account: the guard of the route, the load, the commit.      *)

\* Faulty variant: nothing keeps an admin from his own account.
MayToggleAny(a, u) == Active(a) /\ u \in Users

MayToggle(a, u) == Active(a) /\ u # a

BeginToggle(r, a, u) ==
    /\ Write
    /\ requests[r].pc = "idle"
    /\ MayToggle(a, u)
    /\ requests' = [requests EXCEPT ![r] =
                      [pc |-> "allowed", by |-> a, target |-> u, seen |-> FALSE]]
    /\ UNCHANGED <<clock, users, joined, feedback, unread, report, raced>>

\* An account that is not there is a 404.
LoadToggle(r) ==
    LET q == requests[r]
    IN  /\ q.pc = "allowed"
        /\ requests' = [requests EXCEPT ![r] =
                          IF users[q.target] = None THEN Ended("done")
                          ELSE [@ EXCEPT !.pc = "loaded", !.seen = Active(q.target)]]
        /\ UNCHANGED <<clock, users, joined, feedback, unread, report, writes, raced>>

CommitToggle(r) ==
    LET q == requests[r]
    IN  /\ q.pc = "loaded"
        /\ users' = [users EXCEPT ![q.target].active = ~q.seen]
        /\ requests' = [requests EXCEPT ![r] = Ended("done")]
        /\ raced' = (raced \/ ~Active(q.by))
        /\ UNCHANGED <<clock, joined, feedback, unread, report, writes>>

-----------------------------------------------------------------------------
(* The dashboard, statement by statement.                                  *)

OpenDashboard(range) ==
    /\ report = Nothing
    /\ \E a \in Admins : Active(a)
    /\ report' = [op |-> "dashboard", pc |-> 1, range |-> range, now |-> clock,
                  figures |-> [f \in ToSet(Order) |-> 0],
                  bars |-> [d \in 1..SeriesDays(range) |-> 0], known |-> Accounts]
    /\ UNCHANGED stored

Ago(now, days) == now - days * TicksPerDay

SignedIn(since) == {u \in Accounts : users[u].login # None /\ users[u].login >= since}
SignedUp(since) == {u \in Accounts : users[u].created >= since}

\* Without a range the signups of the period are the total read before.
Figure(f) ==
    CASE f = "total"  -> Cardinality(Accounts)
      [] f = "week"   -> Cardinality(SignedIn(Ago(report.now, Week)))
      [] f = "month"  -> Cardinality(SignedIn(Ago(report.now, Month)))
      [] f = "period" -> IF report.range = None THEN report.figures["total"]
                         ELSE Cardinality(SignedUp(Ago(report.now, report.range)))

ReadFigure ==
    /\ report.op = "dashboard" /\ report.pc <= Len(Order)
    /\ report' = [report EXCEPT !.pc = @ + 1,
                               !.figures[Order[report.pc]] = Figure(Order[report.pc])]
    /\ UNCHANGED stored

\* Faulty variant: the window begins at the time of the day of the request.
WindowStartNow(now, days) == Ago(now, days - 1)

\* Midnight of the first day of the chart.
WindowStart(now, days) == Day(Ago(now, days - 1)) * TicksPerDay

Bar(start, d) == {u \in SignedUp(start) : Day(users[u].created) = Day(start) + d - 1}

ReadSeries ==
    /\ report.op = "dashboard" /\ report.pc = Len(Order) + 1
    /\ LET days  == SeriesDays(report.range)
           start == WindowStart(report.now, days)
       IN  report' = [report EXCEPT !.pc = @ + 1,
                        !.bars = [d \in 1..days |-> Cardinality(Bar(start, d))]]
    /\ UNCHANGED stored

-----------------------------------------------------------------------------
(* Lists, newest first, read page by page until a page is short.           *)

\* Rows of one created_at, to the microsecond, keep one order; the ORDER BY of the
\* code leaves theirs open.
Sorted(kind) == IF kind = "users" THEN joined ELSE feedback
Items(kind)  == IF kind = "unread" THEN unread ELSE ToSet(Sorted(kind))

NoOlder(s, x, y) == \E i, j \in DOMAIN s : i <= j /\ s[i] = x /\ s[j] = y

\* Position of x in its list, newest first.
Place(kind, x) == Cardinality({y \in Items(kind) : NoOlder(Sorted(kind), x, y)})

\* What OFFSET and LIMIT select.
Window(kind, offset) ==
    {x \in Items(kind) : Place(kind, x) \in (offset + 1)..(offset + PageSize)}

\* Faulty variant: the offset is that of the next page.
PageOffByOne(kind, page) == Window(kind, page * PageSize)

Page(kind, page) == Window(kind, (page - 1) * PageSize)

BeginList(a, kind) ==
    /\ report = Nothing
    /\ Active(a)
    /\ report' = [op |-> "list", pc |-> "reading", by |-> a, kind |-> kind, page |-> 1,
                  seen |-> {}, due |-> Items(kind), shrunk |-> FALSE]
    /\ UNCHANGED stored

\* Faulty variant: only an overfull page ends the list.
EndsNever(page) == Cardinality(page) > PageSize

Ends(page) == Cardinality(page) < PageSize

\* An admin who was deactivated meanwhile reads no further.
ReadPage ==
    /\ report.op = "list" /\ report.pc = "reading"
    /\ Active(report.by)
    /\ LET page == Page(report.kind, report.page)
       IN  report' = [report EXCEPT !.seen = @ \cup page,
                                    !.page = IF Ends(page) THEN @ ELSE @ + 1,
                                    !.pc = IF Ends(page) THEN "done" ELSE @]
    /\ UNCHANGED stored

-----------------------------------------------------------------------------
Visits ==
    \/ \E u \in Users : SignUp(u) \/ SignIn(u)
    \/ \E n \in Notes : Submit(n) \/ MarkRead(n)

Toggling == \E r \in Requests :
    \/ \E a \in Admins, u \in Users : BeginToggle(r, a, u)
    \/ LoadToggle(r) \/ CommitToggle(r)

Reporting ==
    \/ \E range \in Ranges : OpenDashboard(range)
    \/ ReadFigure \/ ReadSeries
    \/ \E a \in Admins, kind \in Kinds : BeginList(a, kind)
    \/ ReadPage

Next == Tick \/ Visits \/ Toggling \/ Reporting

Spec == Init /\ [][Next]_vars

-----------------------------------------------------------------------------
(* Properties.                                                             *)

\* Though counted by two statements with sign-ins in between, the users active
\* in the last seven days are never more than those active in the last thirty.
WeekWithinMonth ==
    report.op = "dashboard" /\ report.pc > Len(Order) =>
        report.figures["week"] <= report.figures["month"]

\* The accounts known from the beginning that belong to day d of the chart.
KnownOn(d) ==
    LET first == Day(report.now) - SeriesDays(report.range) + 1
    IN  {u \in report.known : Day(users[u].created) = first + d - 1}

\* The chart misses no account that was there when the dashboard was asked for:
\* its first day is a whole day whatever the hour of the request, and all that
\* the chart shows of those accounts is within the signups of the period.
ChartComplete ==
    report.op = "dashboard" /\ report.pc > Len(Order) + 1 =>
        LET days == 1..SeriesDays(report.range)
        IN  /\ \A d \in days : Cardinality(KnownOn(d)) <= report.bars[d]
            /\ Cardinality(UNION {KnownOn(d) : d \in days}) <= report.figures["period"]

\* What the figures of one dashboard may be held to.
FiguresAgree == WeekWithinMonth /\ ChartComplete

\* A list read to its end page by page holds every item it held at the start,
\* whatever was added meanwhile; only an item that left the list of unread
\* feedback can make the reader skip others.
NothingSkipped ==
    report.op = "list" /\ report.pc = "done" =>
        report.shrunk \/ report.due \subseteq report.seen

\* The guard of the route keeps one active admin: all can be deactivated only
\* by toggles that overlap, one of them of an admin who was active when his
\* request was let in and no longer when it was committed.
LockoutNeedsRace ==
    (\A a \in Admins : ~Active(a)) => raced
=============================================================================
