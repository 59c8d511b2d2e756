------------------------ MODULE AdministrationProofs ------------------------
(***************************************************************************)
(* Administration, for any number of administrators, users, toggles, items *)
(* and days: who can lock the administrators out, that the figures of one  *)
(* dashboard agree though they are counted apart, that a list read page by *)
(* page leaves nothing behind.                                             *)
(*                                                                         *)
(* A pending toggle is of somebody else (ToggleInv), so a commit leaves    *)
(* its author as active as he was.  Logins only move forward (UserInv), so *)
(* whoever was counted for the week is still there when the month is       *)
(* counted (FigureInv).  Accounts stay, and stay on their day (ChartInv).  *)
(* Lists grow in their order (TableInv, TablesGrow), so what is not read   *)
(* lies behind the pages read, and each position holds one item (Places):  *)
(* a page in front of another item is full (ListInv).                      *)
(***************************************************************************)
EXTENDS Administration, FiniteSetTheorems, TLAPS

UserInv ==
    /\ clock \in Time
    /\ users \in [Users -> Account \cup {None}]
    /\ \A u \in Users : users[u] # None /\ users[u].login # None => users[u].login <= clock

ToggleInv ==
    /\ requests \in [Requests -> Toggle]
    /\ \A r \in Requests :
          /\ requests[r].pc \in {"allowed", "loaded"} =>
                requests[r].by \in Admins /\ requests[r].target \in Users \ {requests[r].by}
          /\ requests[r].pc = "loaded" => users[requests[r].target] # None

Headline == {"total", "week", "month", "period"}
Charted  == [op : {"dashboard"}, pc : Nat \ {0}, range : Ranges, now : Time, figures : [Headline -> Nat],
             bars : UNION {[1..d -> Nat] : d \in Nat}, known : SUBSET Users]

\* A record, whatever its fields; what was counted for the week is there to be
\* counted for the month.
FigureInv ==
    /\ report = [field \in DOMAIN report |-> report[field]] /\ "op" \in DOMAIN report
    /\ report.op = "dashboard" =>
        /\ report \in Charted
        /\ report.pc > 2 => report.figures["week"] <= Cardinality(SignedIn(Ago(report.now, Week)))
        /\ report.pc > 3 => report.figures["week"] <= report.figures["month"]

IInv == UserInv /\ ToggleInv /\ FigureInv

-----------------------------------------------------------------------------
\* Times are numbers, and nothing that may be missing is None.
LEMMA TimeFacts ==
    /\ Time \subseteq Nat /\ None \notin Time /\ None \notin Account
    /\ \A a \in Account : a.created \in Time /\ a.login \in Time \cup {None} /\ a.active \in BOOLEAN
    /\ Week \in Nat /\ Month \in Nat /\ Week <= Month /\ TicksPerDay \in Nat
<1>1. MaxClock \in Nat
  BY AdministrationAssumption
<1>2. Time \subseteq Nat
  BY <1>1 DEF Time
<1> QED
  BY <1>2, AdministrationAssumption DEF Account

\* Sets of users are finite, and their sizes are ordered by inclusion.
LEMMA UserSets ==
    ASSUME NEW S \in SUBSET Users
    PROVE  /\ IsFiniteSet(S) /\ Cardinality(S) \in Nat
           /\ \A T \in SUBSET S : Cardinality(T) <= Cardinality(S)
<1>1. IsFiniteSet(S)
  BY FS_Subset, AdministrationAssumption
<1> QED
  BY <1>1, FS_Subset, FS_CardinalityType

LEMMA SignedInUsers == \A since : SignedIn(since) \in SUBSET Users
  BY DEF SignedIn, Accounts

\* The week is part of the month, at any time of the dashboard.
LEMMA WeekInMonth ==
    ASSUME NEW now \in Time, UserInv
    PROVE  Cardinality(SignedIn(Ago(now, Week))) <= Cardinality(SignedIn(Ago(now, Month)))
<1>1. Ago(now, Month) <= Ago(now, Week) /\ Ago(now, Week) \in Int /\ Ago(now, Month) \in Int
  <2>1. Week \in Nat /\ Month \in Nat /\ Week <= Month /\ TicksPerDay \in Nat
    BY AdministrationAssumption
  <2>2. Week * TicksPerDay <= Month * TicksPerDay
    BY <2>1
  <2>3. Week * TicksPerDay \in Nat /\ Month * TicksPerDay \in Nat /\ now \in Nat
    BY <2>1, TimeFacts
  <2> QED
    BY <2>2, <2>3 DEF Ago
<1>2. SignedIn(Ago(now, Week)) \subseteq SignedIn(Ago(now, Month))
  <2> SUFFICES ASSUME NEW u \in Accounts, users[u].login # None, users[u].login >= Ago(now, Week)
               PROVE  users[u].login >= Ago(now, Month)
    BY DEF SignedIn
  <2>1. users[u].login \in Int
    <3>1. users[u] \in Account
      BY DEF Accounts, UserInv
    <3>2. users[u].login \in Time
      BY <3>1, TimeFacts
    <3>3. users[u].login \in Nat
      BY <3>2, TimeFacts
    <3> QED
      BY <3>3
  <2> QED
    BY <1>1, <2>1
<1> QED
  BY <1>2, SignedInUsers, UserSets

\* A step after which every login is where it was or later keeps the figures.
LEMMA FiguresKept ==
    ASSUME IInv, UserInv',
           report' = report \/ (report.op = "list" /\ report' = [report EXCEPT !.shrunk = TRUE]),
           \A u \in Users : users[u] # None =>
              /\ users'[u] # None
              /\ \/ users'[u].login = users[u].login
                 \/ users'[u].login = clock
    PROVE  FigureInv'
<1>a. CASE report.op # "dashboard"
  BY <1>a DEF IInv, FigureInv
<1> SUFFICES ASSUME report.op = "dashboard" PROVE FigureInv'
  BY <1>a
<1>1. report' = report /\ report \in Charted
  BY DEF IInv, FigureInv
<1> DEFINE since == Ago(report.now, Week)
           before == SignedIn(since)
           after  == SignedIn(since)'
<1>2. since' = since
  BY <1>1 DEF Ago
<1>3. before \subseteq after
  <2> SUFFICES ASSUME NEW u \in Users, users[u] # None, users[u].login # None, users[u].login >= since
               PROVE  users'[u] # None /\ users'[u].login # None /\ users'[u].login >= since
    BY <1>2 DEF SignedIn, Accounts
  <2>1. clock \in Nat /\ users[u].login \in Nat /\ users[u].login <= clock /\ clock # None
    BY TimeFacts DEF IInv, UserInv
  <2>2. since \in Int
    <3>1. report.now \in Nat /\ Week * TicksPerDay \in Nat
      BY <1>1, TimeFacts DEF Charted
    <3> QED
      BY <3>1 DEF Ago
  <2> QED
    BY <2>1, <2>2
<1>4. before \in SUBSET Users /\ after \in SUBSET Users
  BY DEF SignedIn, Accounts
<1>5. /\ Cardinality(before) <= Cardinality(after)
      /\ Cardinality(before) \in Nat /\ Cardinality(after) \in Nat
  BY <1>3, <1>4, UserSets
<1>6. report.figures["week"] \in Nat
  BY <1>1 DEF Charted, Headline
<1> HIDE DEF before, after
<1>7. report.pc > 2 => report.figures["week"] <= Cardinality(before)
  BY DEF IInv, FigureInv, before
<1>8. report.pc > 2 => report.figures["week"] <= Cardinality(after)
  BY <1>5, <1>6, <1>7
<1>9. (report'.pc > 2 => report'.figures["week"] <= Cardinality(SignedIn(Ago(report.now, Week)))')
  BY <1>1, <1>8 DEF after
<1> QED
  BY <1>1, <1>9 DEF IInv, FigureInv

-----------------------------------------------------------------------------
\* Steps that change no account and no toggle.
LEMMA StoredKept ==
    ASSUME IInv, LockoutNeedsRace, UNCHANGED stored
    PROVE  UserInv' /\ ToggleInv' /\ LockoutNeedsRace'
<1>1. users' = users /\ clock' = clock /\ requests' = requests /\ raced' = raced
  BY DEF stored
<1> QED
  BY <1>1 DEF IInv, UserInv, ToggleInv, LockoutNeedsRace, Active

LEMMA TickKeeps ==
    ASSUME IInv, LockoutNeedsRace, Tick
    PROVE  IInv' /\ LockoutNeedsRace'
<1>1. clock' = clock + 1 /\ clock < MaxClock /\ users' = users /\ requests' = requests /\ raced' = raced /\ report' = report
  BY DEF Tick
<1>2. UserInv'
  <2> SUFFICES ASSUME NEW u \in Users, users[u] # None, users[u].login # None
               PROVE  users[u].login <= clock + 1
    BY <1>1, AdministrationAssumption DEF IInv, UserInv, Time
  <2>1. users[u].login \in Nat /\ users[u].login <= clock /\ clock \in Nat
    BY TimeFacts DEF IInv, UserInv
  <2> QED
    BY <2>1
<1>3. ToggleInv' /\ LockoutNeedsRace'
  BY <1>1 DEF IInv, ToggleInv, LockoutNeedsRace, Active
<1>4. FigureInv'
  BY <1>1, <1>2, FiguresKept
<1> QED
  BY <1>2, <1>3, <1>4 DEF IInv

LEMMA VisitsKeep ==
    ASSUME IInv, LockoutNeedsRace, Visits
    PROVE  IInv' /\ LockoutNeedsRace'
<1>1. CASE \E u \in Users : SignUp(u) \/ SignIn(u)
  <2>1. PICK u \in Users : SignUp(u) \/ SignIn(u)
    BY <1>1
  <2>2. /\ clock' = clock /\ requests' = requests /\ report' = report /\ raced' = raced
        /\ clock \in Time /\ clock \in Nat
    BY <2>1, TimeFacts DEF SignUp, SignIn, IInv, UserInv
  <2>3. PICK account : /\ users' = [users EXCEPT ![u] = account]
                       /\ account \in Account
                       /\ account.login \in Time /\ account.login <= clock
                       /\ users[u] # None => account.login = clock
                       /\ Active(u) => account.active
    <3>1. CASE SignUp(u)
      <4>1. PICK t \in {clock - 1, clock} \cap Time :
               users' = [users EXCEPT ![u] = [created |-> t, login |-> t, active |-> TRUE]]
        BY <3>1 DEF SignUp
      <4> DEFINE account == [created |-> t, login |-> t, active |-> TRUE]
      <4>2. account \in Account /\ account.login = t /\ account.active
        BY DEF Account
      <4>3. users' = [users EXCEPT ![u] = account] /\ users[u] = None
        BY <3>1, <4>1 DEF SignUp
      <4>4. t \in Time /\ t <= clock
        BY <2>2
      <4> HIDE DEF account
      <4> QED
        BY <4>2, <4>3, <4>4 DEF Active
    <3>2. CASE SignIn(u)
      <4>1. users[u] \in Account /\ users[u].active
        BY <3>2 DEF SignIn, Active, IInv, UserInv
      <4> DEFINE account == [users[u] EXCEPT !.login = clock]
      <4>2. account \in Account /\ account.login = clock /\ account.active
        BY <2>2, <4>1 DEF Account
      <4>3. users' = [users EXCEPT ![u] = account]
        BY <3>2 DEF SignIn
      <4>4. clock <= clock
        BY <2>2
      <4> HIDE DEF account
      <4> QED
        BY <2>2, <4>2, <4>3, <4>4
    <3> QED
      BY <2>1, <3>1, <3>2
  <2>4. account # None
    BY <2>3, TimeFacts
  <2>5. /\ users'[u] = account
        /\ \A v \in Users \ {u} : users'[v] = users[v]
    BY <2>3 DEF IInv, UserInv
  <2>6. UserInv'
    <3>1. users' \in [Users -> Account \cup {None}]
      BY <2>3 DEF IInv, UserInv
    <3> QED
      BY <2>2, <2>3, <2>5, <3>1 DEF IInv, UserInv
  <2>7. ToggleInv'
    BY <2>2, <2>4, <2>5 DEF IInv, ToggleInv
  <2>8. FigureInv'
    BY <2>2, <2>3, <2>4, <2>5, <2>6, FiguresKept
  <2>9. LockoutNeedsRace'
    <3>1. \A v \in Users : Active(v) => Active(v)'
      BY <2>3, <2>4, <2>5 DEF Active
    <3> QED
      BY <2>2, <3>1, AdministrationAssumption DEF LockoutNeedsRace
  <2> QED
    BY <2>6, <2>7, <2>8, <2>9 DEF IInv
<1>2. CASE \E n \in Notes : Submit(n) \/ MarkRead(n)
  <2>1. users' = users /\ clock' = clock /\ requests' = requests /\ raced' = raced
    BY <1>2 DEF Submit, MarkRead
  <2>2. UserInv' /\ ToggleInv' /\ LockoutNeedsRace'
    BY <2>1 DEF IInv, UserInv, ToggleInv, LockoutNeedsRace, Active
  <2>3. report' = report \/ (report.op = "list" /\ report' = [report EXCEPT !.shrunk = TRUE])
    BY <1>2 DEF Submit, MarkRead
  <2>4. FigureInv'
    BY <2>1, <2>2, <2>3, FiguresKept
  <2> QED
    BY <2>2, <2>4 DEF IInv
<1> QED
  BY <1>1, <1>2 DEF Visits

\* The author of a toggle that is committed stays as active as he was.
LEMMA TogglingKeeps ==
    ASSUME IInv, LockoutNeedsRace, Toggling
    PROVE  IInv' /\ LockoutNeedsRace'
<1>0. PICK r \in Requests : \/ \E a \in Admins, u \in Users : BeginToggle(r, a, u)
                            \/ LoadToggle(r) \/ CommitToggle(r)
  BY DEF Toggling
<1>1. CASE LoadToggle(r) \/ \E a \in Admins, u \in Users : BeginToggle(r, a, u)
  <2>1. users' = users /\ clock' = clock /\ raced' = raced /\ report' = report
    BY <1>1 DEF BeginToggle, LoadToggle
  <2>2. requests \in [Requests -> Toggle] /\ requests[r] \in Toggle
    BY DEF IInv, ToggleInv
  <2>3. PICK q : /\ requests' = [requests EXCEPT ![r] = q]
                 /\ q \in Toggle
                 /\ q.pc \in {"allowed", "loaded"} => q.by \in Admins /\ q.target \in Users \ {q.by}
                 /\ q.pc = "loaded" => users[q.target] # None
    <3>1. CASE \E a \in Admins, u \in Users : BeginToggle(r, a, u)
      <4>1. PICK a \in Admins, u \in Users : BeginToggle(r, a, u)
        BY <3>1
      <4> DEFINE q == [pc |-> "allowed", by |-> a, target |-> u, seen |-> FALSE]
      <4>2. q \in Toggle /\ q.pc = "allowed" /\ q.by = a /\ q.target = u
        BY DEF Toggle
      <4>3. requests' = [requests EXCEPT ![r] = q] /\ u # a
        BY <4>1 DEF BeginToggle, MayToggle
      <4> HIDE DEF q
      <4> QED
        BY <4>2, <4>3
    <3>2. CASE LoadToggle(r) /\ users[requests[r].target] = None
      <4>1. Ended("done") \in Toggle /\ Ended("done").pc = "done"
        BY DEF Ended, Toggle
      <4> QED
        BY <2>2, <3>2, <4>1 DEF LoadToggle
    <3>3. CASE LoadToggle(r) /\ users[requests[r].target] # None
      <4> DEFINE q == [requests[r] EXCEPT !.pc = "loaded", !.seen = Active(requests[r].target)]
      <4>1. /\ requests[r].pc = "allowed" /\ requests[r].by \in Admins
            /\ requests[r].target \in Users \ {requests[r].by}
        BY <3>3 DEF LoadToggle, IInv, ToggleInv
      <4>2. Active(requests[r].target) \in BOOLEAN
        BY <4>1 DEF Active, IInv, UserInv
      <4>3. /\ q \in Toggle /\ q.pc = "loaded" /\ q.by = requests[r].by /\ q.target = requests[r].target
        BY <2>2, <4>2 DEF Toggle
      <4>4. requests' = [requests EXCEPT ![r] = q]
        BY <2>2, <3>3 DEF LoadToggle
      <4> HIDE DEF q
      <4> QED
        BY <3>3, <4>1, <4>3, <4>4
    <3> QED
      BY <1>1, <3>1, <3>2, <3>3
  <2>4. ToggleInv'
    <3>1. requests'[r] = q /\ \A p \in Requests \ {r} : requests'[p] = requests[p]
      BY <2>2, <2>3
    <3> QED
      BY <2>1, <2>2, <2>3, <3>1 DEF IInv, ToggleInv
  <2>5. UserInv' /\ LockoutNeedsRace'
    BY <2>1 DEF IInv, UserInv, LockoutNeedsRace, Active
  <2>6. FigureInv'
    BY <2>1, <2>5, FiguresKept
  <2> QED
    BY <2>4, <2>5, <2>6 DEF IInv
<1>2. CASE CommitToggle(r)
  <2>1. PICK u, by : u = requests[r].target /\ by = requests[r].by
    OBVIOUS
  <2>2. /\ u \in Users /\ by \in Admins /\ u # by /\ users[u] # None
        /\ requests[r].seen \in BOOLEAN
    BY <1>2, <2>1 DEF CommitToggle, IInv, ToggleInv, Toggle
  <2>3. /\ clock' = clock /\ report' = report
        /\ users' = [users EXCEPT ![u].active = ~requests[r].seen]
        /\ raced' = (raced \/ ~Active(by))
        /\ requests' = [requests EXCEPT ![r] = Ended("done")]
    BY <1>2, <2>1 DEF CommitToggle
  <2>4. /\ \A v \in Users \ {u} : users'[v] = users[v]
        /\ users'[u] = [users[u] EXCEPT !.active = ~requests[r].seen]
        /\ users[u] \in Account
    BY <2>2, <2>3 DEF IInv, UserInv
  <2>5. /\ users'[u] \in Account
        /\ users'[u].login = users[u].login
    BY <2>2, <2>4 DEF Account
  <2>6. UserInv'
    BY <2>2, <2>3, <2>4, <2>5 DEF IInv, UserInv
  <2>7. users'[u] # None
    BY <2>5, TimeFacts
  <2>8. ToggleInv'
    <3>1. Ended("done") \in Toggle /\ Ended("done").pc = "done"
      BY DEF Ended, Toggle
    <3>2. requests'[r] = Ended("done") /\ \A p \in Requests \ {r} : requests'[p] = requests[p]
      BY <2>3 DEF IInv, ToggleInv
    <3> QED
      BY <2>3, <2>4, <2>7, <3>1, <3>2 DEF IInv, ToggleInv
  <2>9. FigureInv'
    BY <2>2, <2>3, <2>4, <2>5, <2>6, <2>7, FiguresKept
  <2>10. LockoutNeedsRace'
    <3>1. CASE Active(by)
      <4>1. by \in Users \ {u}
        BY <2>2, AdministrationAssumption
      <4>2. Active(by)'
        BY <2>4, <3>1, <4>1 DEF Active
      <4> QED
        BY <2>2, <4>2 DEF LockoutNeedsRace
    <3>2. CASE ~Active(by)
      BY <2>3, <3>2 DEF LockoutNeedsRace
    <3> QED
      BY <3>1, <3>2
  <2> QED
    BY <2>6, <2>8, <2>9, <2>10 DEF IInv
<1> QED
  BY <1>0, <1>1, <1>2

-----------------------------------------------------------------------------
LEMMA ChartedIsRecord ==
    ASSUME NEW q \in Charted
    PROVE  q = [field \in DOMAIN q |-> q[field]] /\ "op" \in DOMAIN q
  BY DEF Charted

\* Statements of a dashboard and pages of a list.
LEMMA ReportingKeeps ==
    ASSUME IInv, LockoutNeedsRace, Reporting
    PROVE  IInv' /\ LockoutNeedsRace'
<1>1. UNCHANGED stored
  BY DEF Reporting, OpenDashboard, ReadFigure, ReadSeries, BeginList, ReadPage
<1>2. UserInv' /\ ToggleInv' /\ LockoutNeedsRace'
  BY <1>1, StoredKept
<1>3. /\ users' = users
      /\ \A since : SignedIn(since)' = SignedIn(since)
  BY <1>1 DEF stored, SignedIn, Accounts
<1>4. Len(Order) = 4 /\ Order[1] = "total" /\ Order[2] = "week" /\ Order[3] = "month" /\ Order[4] = "period"
  BY DEF Order
<1>5. \A since : SignedIn(since) \in SUBSET Users /\ SignedUp(since) \in SUBSET Users
  BY DEF SignedIn, SignedUp, Accounts
<1>6. CASE \E range \in Ranges : OpenDashboard(range)
  <2>1. PICK range \in Ranges : OpenDashboard(range)
    BY <1>6
  <2>2. PICK days : days = SeriesDays(range)
    OBVIOUS
  <2>3. days \in Nat
    BY <2>2, AdministrationAssumption DEF SeriesDays
  <2>4. ToSet(Order) = Headline
    BY DEF ToSet, Order, Headline
  <2>5. report' = [op |-> "dashboard", pc |-> 1, range |-> range, now |-> clock,
                   figures |-> [f \in Headline |-> 0], bars |-> [d \in 1..days |-> 0], known |-> Accounts]
    BY <2>1, <2>2, <2>4 DEF OpenDashboard
  <2>6. report' \in Charted /\ report'.pc = 1
    BY <2>3, <2>5 DEF Charted, Accounts, IInv, UserInv
  <2>7. FigureInv'
    BY <2>6, ChartedIsRecord DEF FigureInv
  <2> QED
    BY <1>2, <2>7 DEF IInv
<1>7. CASE ReadFigure
  <2>1. /\ report \in Charted /\ report.op = "dashboard"
        /\ report.pc \in {1, 2, 3, 4} /\ report.now \in Time
        /\ report.figures \in [Headline -> Nat]
    BY <1>4, <1>7, SMTT(30) DEF ReadFigure, IInv, FigureInv, Charted
  <2>2. PICK f, v, pc : f = Order[report.pc] /\ v = Figure(f) /\ pc = report.pc + 1
    OBVIOUS
  <2>3. f \in Headline
    BY <1>4, <2>1, <2>2 DEF Headline
  <2>4. v \in Nat
    <3>1. Cardinality(Accounts) \in Nat
      BY UserSets DEF Accounts
    <3>2. \A since : Cardinality(SignedIn(since)) \in Nat /\ Cardinality(SignedUp(since)) \in Nat
      BY <1>5, UserSets
    <3>3. report.figures["total"] \in Nat
      BY <2>1 DEF Headline
    <3> QED
      BY <2>2, <2>3, <3>1, <3>2, <3>3 DEF Figure, Headline
  <2>5. report' = [report EXCEPT !.pc = pc, !.figures[f] = v]
    BY <1>7, <2>2 DEF ReadFigure
  <2>6. /\ report' \in Charted /\ report'.pc = pc /\ report'.now = report.now
        /\ report'.figures[f] = v
        /\ \A g \in Headline \ {f} : report'.figures[g] = report.figures[g]
    <3>1. pc \in Nat \ {0}
      BY <2>1, <2>2
    <3> QED
      BY <2>1, <2>3, <2>4, <2>5, <3>1 DEF Charted
  <2> DEFINE inWeek  == Cardinality(SignedIn(Ago(report.now, Week)))
             inMonth == Cardinality(SignedIn(Ago(report.now, Month)))
  <2>7. /\ inWeek \in Nat /\ inMonth \in Nat /\ inWeek <= inMonth
        /\ report.figures["week"] \in Nat /\ report.figures["month"] \in Nat
    BY <1>5, <2>1, UserSets, WeekInMonth DEF IInv, Headline
  <2>8. /\ report.pc > 2 => report.figures["week"] <= inWeek
        /\ report.pc > 3 => report.figures["week"] <= report.figures["month"]
    BY <2>1 DEF IInv, FigureInv
  <2>9. /\ pc > 2 => report'.figures["week"] <= inWeek
        /\ pc > 3 => report'.figures["week"] <= report'.figures["month"]
    <3>1. CASE report.pc = 1
      BY <2>2, <3>1
    <3>2. CASE report.pc = 2
      <4>1. f = "week" /\ v = inWeek
        BY <1>4, <2>2, <3>2 DEF Figure
      <4> QED
        BY <2>2, <2>6, <2>7, <3>2, <4>1
    <3>3. CASE report.pc = 3
      <4>1. f = "month" /\ v = inMonth
        BY <1>4, <2>2, <3>3 DEF Figure
      <4>2. report'.figures["week"] = report.figures["week"]
        BY <2>6, <4>1 DEF Headline
      <4> HIDE DEF inWeek, inMonth
      <4> QED
        BY <2>2, <2>6, <2>7, <2>8, <3>3, <4>1, <4>2
    <3>4. CASE report.pc = 4
      <4>1. f = "period"
        BY <1>4, <2>2, <3>4
      <4>2. /\ report'.figures["week"] = report.figures["week"]
            /\ report'.figures["month"] = report.figures["month"]
        BY <2>6, <4>1 DEF Headline
      <4> QED
        BY <2>8, <3>4, <4>2
    <3> QED
      BY <2>1, <3>1, <3>2, <3>3, <3>4
  <2>10. FigureInv'
    <3>1. SignedIn(Ago(report.now, Week))' = SignedIn(Ago(report.now, Week))
      BY <1>3, <2>6 DEF Ago, SignedIn, Accounts
    <3> QED
      BY <2>6, <2>9, <3>1, ChartedIsRecord DEF FigureInv
  <2> QED
    BY <1>2, <2>10 DEF IInv
<1>8. CASE ReadSeries
  <2>1. /\ report \in Charted /\ report.op = "dashboard"
        /\ report.pc \in Nat \ {0} /\ report.range \in Ranges
    BY <1>8 DEF ReadSeries, IInv, FigureInv, Charted
  <2>2. PICK days, bars, pc :
           /\ report' = [report EXCEPT !.pc = pc, !.bars = bars]
           /\ pc = report.pc + 1 /\ report.pc = 5
           /\ days = SeriesDays(report.range)
           /\ bars \in [1..days -> Nat]
    <3> DEFINE days  == SeriesDays(report.range)
               start == WindowStart(report.now, days)
               bars  == [d \in 1..days |-> Cardinality(Bar(start, d))]
    <3>1. \A d : Cardinality(Bar(start, d)) \in Nat
      BY <1>5, UserSets DEF Bar
    <3>2. bars \in [1..days -> Nat]
      BY <3>1
    <3>3. report' = [report EXCEPT !.pc = report.pc + 1, !.bars = bars] /\ report.pc = 5
      BY <1>4, <1>8 DEF ReadSeries
    <3> HIDE DEF days, start, bars
    <3>4. days = SeriesDays(report.range)
      BY DEF days
    <3> QED
      BY <3>2, <3>3, <3>4
  <2>3. days \in Nat
    BY <2>1, <2>2, AdministrationAssumption DEF SeriesDays
  <2>4. bars \in UNION {[1..d -> Nat] : d \in Nat} /\ pc \in Nat \ {0}
    BY <2>2, <2>3
  <2>5. /\ report' \in Charted /\ report'.now = report.now
        /\ report'.figures = report.figures
    BY <2>1, <2>2, <2>4 DEF Charted
  <2>6. FigureInv'
    <3>1. SignedIn(Ago(report.now, Week))' = SignedIn(Ago(report.now, Week))
      BY <1>3, <2>5 DEF Ago, SignedIn, Accounts
    <3>2. /\ report.figures["week"] <= Cardinality(SignedIn(Ago(report.now, Week)))
          /\ report.figures["week"] <= report.figures["month"]
      BY <2>1, <2>2 DEF IInv, FigureInv
    <3> QED
      BY <2>5, <3>1, <3>2, ChartedIsRecord DEF FigureInv
  <2> QED
    BY <1>2, <2>6 DEF IInv
<1>9. CASE (\E a \in Admins, kind \in Kinds : BeginList(a, kind)) \/ ReadPage
  <2>1. /\ report'.op = "list" /\ "op" \in DOMAIN report'
        /\ report' = [field \in DOMAIN report' |-> report'[field]]
    <3>1. CASE \E a \in Admins, kind \in Kinds : BeginList(a, kind)
      <4>1. PICK by, kind, due :
               report' = [op |-> "list", pc |-> "reading", by |-> by, kind |-> kind, page |-> 1,
                          seen |-> {}, due |-> due, shrunk |-> FALSE]
        BY <3>1 DEF BeginList
      <4>2. report' \in [op : {"list"}, pc : {"reading"}, by : {by}, kind : {kind}, page : {1},
                         seen : {{}}, due : {due}, shrunk : {FALSE}]
        BY <4>1
      <4> QED
        BY <4>2
    <3>2. CASE ReadPage
      <4>1. report.op = "list" /\ \E seen, page, pc :
               report' = [report EXCEPT !.seen = seen, !.page = page, !.pc = pc]
        BY <3>2 DEF ReadPage
      <4>2. report = [field \in DOMAIN report |-> report[field]] /\ "op" \in DOMAIN report
        BY DEF IInv, FigureInv
      <4> QED
        BY <4>1, <4>2
    <3> QED
      BY <1>9, <3>1, <3>2
  <2>2. FigureInv'
    BY <2>1 DEF FigureInv
  <2> QED
    BY <1>2, <2>2 DEF IInv
<1> QED
  BY <1>6, <1>7, <1>8, <1>9 DEF Reporting

-----------------------------------------------------------------------------
LEMMA InitKeeps == Init => IInv /\ LockoutNeedsRace
<1> SUFFICES ASSUME Init PROVE IInv /\ LockoutNeedsRace
  OBVIOUS
<1>1. users \in [Users -> {a \in Account : a.active /\ a.created <= Start} \cup {None}]
  BY DEF Init
<1>2. UserInv
  <2>1. clock = Start /\ Start \in Time
    BY AdministrationAssumption DEF Init, Time
  <2>2. users \in [Users -> Account \cup {None}]
    BY <1>1
  <2>3. \A u \in Users : users[u] # None /\ users[u].login # None => users[u].login <= clock
    BY <2>1 DEF Init
  <2> QED
    BY <2>1, <2>2, <2>3 DEF UserInv
<1>3. ToggleInv
  <2>1. Ended("idle") \in Toggle /\ Ended("idle").pc = "idle"
    BY DEF Ended, Toggle
  <2> QED
    BY <2>1 DEF Init, ToggleInv
<1>4. FigureInv
  <2>1. report \in [op : {"none"}]
    BY DEF Init, Nothing
  <2>2. report = [field \in DOMAIN report |-> report[field]] /\ "op" \in DOMAIN report
    BY <2>1
  <2> QED
    BY <2>1, <2>2 DEF FigureInv
<1>5. LockoutNeedsRace
  <2>1. PICK a \in Admins : TRUE
    BY AdministrationAssumption
  <2>2. a \in Users /\ users[a] = [created |-> 0, login |-> None, active |-> TRUE]
    BY AdministrationAssumption DEF Init
  <2>3. users[a] # None
    <3>1. MaxClock \in Nat
      BY AdministrationAssumption
    <3>2. 0 \in Time
      BY <3>1 DEF Time
    <3>3. users[a] \in Account
      BY <2>2, <3>2 DEF Account
    <3> QED
      BY <3>3, TimeFacts
  <2> QED
    BY <2>2, <2>3 DEF LockoutNeedsRace, Active
<1> QED
  BY <1>2, <1>3, <1>4, <1>5 DEF IInv

LEMMA StepKeeps == IInv /\ LockoutNeedsRace /\ [Next]_vars => IInv' /\ LockoutNeedsRace'
<1> SUFFICES ASSUME IInv, LockoutNeedsRace, [Next]_vars PROVE IInv' /\ LockoutNeedsRace'
  OBVIOUS
<1>1. CASE UNCHANGED vars
  <2>1. users' = users /\ UNCHANGED stored /\ report' = report
    BY <1>1 DEF vars, stored
  <2>2. UserInv' /\ ToggleInv' /\ LockoutNeedsRace'
    BY <2>1, StoredKept
  <2>3. FigureInv'
    BY <2>1, <2>2, FiguresKept
  <2> QED
    BY <2>2, <2>3 DEF IInv
<1> QED
  BY <1>1, TickKeeps, VisitsKeep, TogglingKeeps, ReportingKeeps DEF Next

LEMMA Invariance == Spec => [](IInv /\ LockoutNeedsRace)
  BY InitKeeps, StepKeeps, PTL DEF Spec

\* All administrators are deactivated only if one of them committed a toggle
\* that was let in before he was deactivated himself (admin.py:307).
THEOREM OnlyRacesLockOut == Spec => []LockoutNeedsRace
  BY Invariance, PTL

\* The figures of the week and of the month agree, though sign-ins happen
\* between the two statements that count them (admin.py:70-85).
THEOREM WeekIsWithinMonth == Spec => []WeekWithinMonth
<1>1. IInv => WeekWithinMonth
  <2> SUFFICES ASSUME IInv, report.op = "dashboard", report.pc > Len(Order)
               PROVE  report.figures["week"] <= report.figures["month"]
    BY DEF WeekWithinMonth
  <2>1. Len(Order) = 4
    BY DEF Order
  <2>2. report.pc \in Nat
    BY DEF IInv, FigureInv, Charted
  <2>3. report.pc > 3
    BY <2>1, <2>2
  <2> QED
    BY <2>3 DEF IInv, FigureInv
<1> QED
  BY <1>1, Invariance, PTL

-----------------------------------------------------------------------------
(* Lists.                                                                  *)

Once(s) == \A i, j \in DOMAIN s : s[i] = s[j] => i = j

\* Inserting an element moves those behind it by one and keeps their order.
LEMMA InsertedAt ==
    ASSUME NEW S, NEW s \in Seq(S), NEW e \in S, NEW i \in 1..(Len(s) + 1),
           NEW t, t = InsertAt(s, i, e)
    PROVE  /\ t \in Seq(S) /\ Len(t) = Len(s) + 1
           /\ \A j \in DOMAIN t : t[j] = IF j < i THEN s[j] ELSE IF j = i THEN e ELSE s[j - 1]
<1> DEFINE front == SubSeq(s, 1, i - 1)
           back  == SubSeq(s, i, Len(s))
<1>1. Len(s) \in Nat /\ DOMAIN s = 1..Len(s) /\ i \in Nat /\ i >= 1 /\ i - 1 <= Len(s)
  OBVIOUS
<1>2. /\ front \in Seq(S) /\ Len(front) = i - 1
      /\ \A j \in 1..(i - 1) : front[j] = s[j]
  BY <1>1
<1>3. /\ back \in Seq(S) /\ Len(back) = Len(s) - i + 1
      /\ \A j \in 1..(Len(s) - i + 1) : back[j] = s[i + j - 1]
  BY <1>1
<1> HIDE DEF front, back
<1>4. t = (front \o <<e>>) \o back
  BY DEF InsertAt, front, back
<1>5. /\ front \o <<e>> \in Seq(S) /\ Len(front \o <<e>>) = i
      /\ \A j \in 1..i : (front \o <<e>>)[j] = IF j < i THEN s[j] ELSE e
  BY <1>1, <1>2
<1> DEFINE head == front \o <<e>>
<1> HIDE DEF head
<1>6. /\ head \in Seq(S) /\ Len(head) = i /\ t = head \o back
      /\ \A j \in 1..i : head[j] = IF j < i THEN s[j] ELSE e
  BY <1>4, <1>5 DEF head
<1>7. t \in Seq(S) /\ Len(t) = Len(s) + 1
  BY <1>1, <1>3, <1>6
<1>8. ASSUME NEW j \in DOMAIN t
      PROVE  t[j] = IF j < i THEN s[j] ELSE IF j = i THEN e ELSE s[j - 1]
  <2>1. j \in 1..(Len(s) + 1)
    BY <1>7, <1>8
  <2>2. CASE j <= i
    <3>1. t[j] = head[j] /\ j \in 1..i
      BY <1>1, <1>3, <1>6, <2>1, <2>2
    <3> QED
      BY <1>6, <3>1
  <2>3. CASE j > i
    <3>1. t[j] = back[j - i]
      BY <1>1, <1>3, <1>6, <2>1, <2>3
    <3>2. j - i \in 1..(Len(s) - i + 1)
      BY <1>1, <2>1, <2>3
    <3>3. back[j - i] = s[i + (j - i) - 1]
      BY <1>3, <3>2
    <3> QED
      BY <1>1, <2>1, <2>3, <3>1, <3>3
  <2> QED
    BY <1>1, <2>1, <2>2, <2>3
<1> QED
  BY <1>7, <1>8

LEMMA Inserted ==
    ASSUME NEW S, NEW s \in Seq(S), Once(s), NEW e \in S \ ToSet(s),
           NEW i \in 1..(Len(s) + 1), NEW t, t = InsertAt(s, i, e)
    PROVE  /\ t \in Seq(S) /\ Once(t)
           /\ ToSet(t) = ToSet(s) \cup {e}
           /\ \A x, y : NoOlder(s, x, y) => NoOlder(t, x, y)
<1>1. /\ t \in Seq(S) /\ Len(t) = Len(s) + 1
      /\ \A j \in DOMAIN t : t[j] = IF j < i THEN s[j] ELSE IF j = i THEN e ELSE s[j - 1]
  BY InsertedAt
<1>2. /\ DOMAIN s = 1..Len(s) /\ DOMAIN t = 1..(Len(s) + 1) /\ Len(s) \in Nat
      /\ i \in 1..(Len(s) + 1)
  BY <1>1
<1>3. \A j \in DOMAIN s : s[j] # e
  BY DEF ToSet
<1> DEFINE to(j) == IF j < i THEN j ELSE j + 1
<1>4. /\ \A j \in DOMAIN s : to(j) \in DOMAIN t \ {i} /\ t[to(j)] = s[j]
      /\ \A j, k \in DOMAIN s : j <= k => to(j) <= to(k)
  <2>1. ASSUME NEW j \in DOMAIN s PROVE to(j) \in DOMAIN t \ {i} /\ t[to(j)] = s[j]
    <3>1. to(j) \in DOMAIN t /\ to(j) # i
      BY <1>2
    <3>2. t[to(j)] = IF to(j) < i THEN s[to(j)] ELSE IF to(j) = i THEN e ELSE s[to(j) - 1]
      BY <1>1, <3>1
    <3>3. CASE j < i
      BY <3>1, <3>2, <3>3
    <3>4. CASE ~(j < i)
      <4>1. j \in Int /\ i \in Int /\ to(j) = j + 1 /\ ~(to(j) < i) /\ to(j) - 1 = j
        BY <1>2, <3>4
      <4> QED
        BY <3>1, <3>2, <4>1
    <3> QED
      BY <3>3, <3>4
  <2>2. \A j, k \in DOMAIN s : j <= k => to(j) <= to(k)
    BY <1>2
  <2> QED
    BY <2>1, <2>2
<1>5. \A j \in DOMAIN t \ {i} : \E k \in DOMAIN s : j = to(k)
  <2> SUFFICES ASSUME NEW j \in DOMAIN t \ {i} PROVE \E k \in DOMAIN s : j = to(k)
    OBVIOUS
  <2>1. CASE j < i
    <3>1. j \in DOMAIN s /\ j = to(j)
      BY <1>2, <2>1
    <3> QED
      BY <3>1
  <2>2. CASE j > i
    <3>1. j - 1 \in DOMAIN s /\ j = to(j - 1)
      BY <1>2, <2>2
    <3> QED
      BY <3>1
  <2> QED
    BY <1>2, <2>1, <2>2
<1>6. t[i] = e /\ i \in DOMAIN t
  BY <1>1, <1>2
<1> HIDE DEF to
<1>7. Once(t)
  <2> SUFFICES ASSUME NEW j \in DOMAIN t, NEW k \in DOMAIN t, t[j] = t[k] PROVE j = k
    BY DEF Once
  <2>1. CASE j # i /\ k # i
    <3>1. PICK a \in DOMAIN s, b \in DOMAIN s : j = to(a) /\ k = to(b)
      BY <1>5, <2>1
    <3>2. s[a] = s[b]
      BY <1>4, <3>1
    <3> QED
      BY <3>1, <3>2 DEF Once
  <2>2. \A a \in DOMAIN t \ {i} : t[a] # e
    BY <1>3, <1>4, <1>5
  <2> QED
    BY <1>6, <2>1, <2>2
<1>8. ToSet(t) = ToSet(s) \cup {e}
  <2>1. \A j \in DOMAIN t : t[j] \in ToSet(s) \cup {e}
    BY <1>4, <1>5, <1>6 DEF ToSet
  <2>2. \A j \in DOMAIN s : s[j] \in ToSet(t)
    BY <1>4 DEF ToSet
  <2>3. e \in ToSet(t)
    BY <1>6 DEF ToSet
  <2> QED
    BY <2>1, <2>2, <2>3 DEF ToSet
<1>9. ASSUME NEW x, NEW y, NoOlder(s, x, y)
      PROVE  NoOlder(t, x, y)
  <2>1. PICK j \in DOMAIN s, k \in DOMAIN s : j <= k /\ s[j] = x /\ s[k] = y
    BY <1>9 DEF NoOlder
  <2>2. to(j) \in DOMAIN t /\ to(k) \in DOMAIN t /\ to(j) <= to(k) /\ t[to(j)] = x /\ t[to(k)] = y
    BY <1>4, <2>1
  <2> QED
    BY <2>2 DEF NoOlder
<1> QED
  BY <1>1, <1>7, <1>8, <1>9

\* What is listed from a set holds each of its elements once.
LEMMA Listed ==
    ASSUME NEW S, IsFiniteSet(S), NEW s \in SetToSeqs(S)
    PROVE  s \in Seq(S) /\ Once(s) /\ ToSet(s) = S
<1> DEFINE n == Cardinality(S)
<1>1. n \in Nat
  BY FS_CardinalityType
<1>2. s \in [1..n -> S] /\ \A i, j \in 1..n : i # j => s[i] # s[j]
  BY DEF SetToSeqs
<1>3. s \in Injection(1..n, S)
  BY <1>2 DEF Injection, IsInjective
<1>4. Cardinality(1..n) = n
  BY <1>1, FS_Interval
<1> HIDE DEF n
<1>5. s \in Surjection(1..n, S)
  BY <1>3, <1>4, FS_Injection DEF n
<1>6. ToSet(s) = S
  BY <1>2, <1>5 DEF ToSet, Surjection
<1> QED
  BY <1>1, <1>2, <1>6 DEF Once

\* The order of a list without repetitions.
LEMMA ListOrder ==
    ASSUME NEW S, NEW s \in Seq(S), Once(s)
    PROVE  /\ \A x \in ToSet(s) : NoOlder(s, x, x)
           /\ \A x, y \in ToSet(s) : NoOlder(s, x, y) \/ NoOlder(s, y, x)
           /\ \A x, y : NoOlder(s, x, y) /\ NoOlder(s, y, x) => x = y
           /\ \A x, y, z : NoOlder(s, x, y) /\ NoOlder(s, y, z) => NoOlder(s, x, z)
<1>1. DOMAIN s \subseteq Nat
  OBVIOUS
<1>2. \A x, y \in ToSet(s) : NoOlder(s, x, y) \/ NoOlder(s, y, x)
  <2> SUFFICES ASSUME NEW i \in DOMAIN s, NEW j \in DOMAIN s
               PROVE  NoOlder(s, s[i], s[j]) \/ NoOlder(s, s[j], s[i])
    BY DEF ToSet
  <2>1. i <= j \/ j <= i
    BY <1>1
  <2> QED
    BY <2>1 DEF NoOlder
<1>3. ASSUME NEW x, NEW y, NoOlder(s, x, y), NoOlder(s, y, x) PROVE x = y
  <2>1. PICK i \in DOMAIN s, j \in DOMAIN s : i <= j /\ s[i] = x /\ s[j] = y
    BY <1>3 DEF NoOlder
  <2>2. PICK k \in DOMAIN s, l \in DOMAIN s : k <= l /\ s[k] = y /\ s[l] = x
    BY <1>3 DEF NoOlder
  <2>3. k = j /\ l = i
    BY <2>1, <2>2 DEF Once
  <2>4. i = j
    BY <1>1, <2>1, <2>2, <2>3
  <2> QED
    BY <2>1, <2>4
<1>4. ASSUME NEW x, NEW y, NEW z, NoOlder(s, x, y), NoOlder(s, y, z) PROVE NoOlder(s, x, z)
  <2>1. PICK i \in DOMAIN s, j \in DOMAIN s : i <= j /\ s[i] = x /\ s[j] = y
    BY <1>4 DEF NoOlder
  <2>2. PICK k \in DOMAIN s, l \in DOMAIN s : k <= l /\ s[k] = y /\ s[l] = z
    BY <1>4 DEF NoOlder
  <2>3. k = j
    BY <2>1, <2>2 DEF Once
  <2>4. i <= l
    BY <1>1, <2>1, <2>2, <2>3
  <2> QED
    BY <2>1, <2>2, <2>4 DEF NoOlder
<1> QED
  BY <1>2, <1>3, <1>4
\* Each item of a list has a position of its own, from 1 to their number.
LEMMA Places ==
    ASSUME NEW S, NEW s \in Seq(S), Once(s), NEW I \in SUBSET ToSet(s), IsFiniteSet(I),
           NEW place, place = [x \in I |-> Cardinality({y \in I : NoOlder(s, x, y)})]
    PROVE  /\ place \in [I -> 1..Cardinality(I)]
           /\ place \in Surjection(I, 1..Cardinality(I))
<1> DEFINE Ahead(x) == {y \in I : NoOlder(s, x, y)}
           n == Cardinality(I)
<1>1. n \in Nat
  BY FS_CardinalityType
<1>2. /\ \A x \in I : NoOlder(s, x, x)
      /\ \A x, y \in I : NoOlder(s, x, y) \/ NoOlder(s, y, x)
      /\ \A x, y : NoOlder(s, x, y) /\ NoOlder(s, y, x) => x = y
      /\ \A x, y, z : NoOlder(s, x, y) /\ NoOlder(s, y, z) => NoOlder(s, x, z)
  BY ListOrder
<1>3. ASSUME NEW x \in I
      PROVE  /\ IsFiniteSet(Ahead(x)) /\ Cardinality(Ahead(x)) \in 1..n
  <2>1. Ahead(x) \in SUBSET I
    OBVIOUS
  <2>2. IsFiniteSet(Ahead(x)) /\ Cardinality(Ahead(x)) <= n
    BY <2>1, FS_Subset
  <2>3. Cardinality(Ahead(x)) \in Nat
    BY <2>2, FS_CardinalityType
  <2>4. Ahead(x) # {}
    BY <1>2
  <2>5. Cardinality(Ahead(x)) # 0
    BY <2>2, <2>4, FS_EmptySet
  <2> HIDE DEF Ahead
  <2> QED
    BY <1>1, <2>2, <2>3, <2>5
<1>4. ASSUME NEW x \in I, NEW y \in I, x # y, NoOlder(s, x, y)
      PROVE  Cardinality(Ahead(x)) # Cardinality(Ahead(y))
  <2>1. Ahead(y) \in SUBSET Ahead(x)
    BY <1>2, <1>4
  <2>2. x \in Ahead(x) /\ x \notin Ahead(y)
    BY <1>2, <1>4
  <2>3. IsFiniteSet(Ahead(x))
    BY <1>3
  <2> HIDE DEF Ahead
  <2> QED
    BY <2>1, <2>2, <2>3, FS_Subset
<1>5. \A x \in I : place[x] = Cardinality(Ahead(x))
  OBVIOUS
<1>6. \A x, y \in I : place[x] = place[y] => x = y
  BY <1>2, <1>4, <1>5
<1>7. place \in [I -> 1..n]
  <2>1. place = [x \in I |-> Cardinality(Ahead(x))]
    OBVIOUS
  <2> HIDE DEF n, Ahead
  <2> QED
    BY <1>3, <2>1
<1>8. place \in Injection(I, 1..n)
  BY <1>6, <1>7 DEF Injection, IsInjective
<1>9. IsFiniteSet(1..n) /\ Cardinality(1..n) = n
  BY <1>1, FS_Interval
<1>10. place \in Surjection(I, 1..n)
  BY <1>8, <1>9, FS_Injection
<1> QED
  BY <1>7, <1>10

\* With an item behind a page, the page is full.
LEMMA FullWindow ==
    ASSUME NEW I, IsFiniteSet(I), NEW place \in [I -> 1..Cardinality(I)],
           place \in Surjection(I, 1..Cardinality(I)),
           NEW offset \in Nat, NEW size \in Nat \ {0},
           NEW x \in I, place[x] > offset + size
    PROVE  Cardinality({y \in I : place[y] \in (offset + 1)..(offset + size)}) >= size
<1> DEFINE range == (offset + 1)..(offset + size)
           page  == {y \in I : place[y] \in range}
           f     == [y \in page |-> place[y]]
<1>1. Cardinality(I) \in Nat
  BY FS_CardinalityType
<1>2. range \subseteq 1..Cardinality(I)
  BY <1>1
<1>3. Cardinality(range) = size
  <2>1. offset + 1 \in Int /\ offset + size \in Int /\ ~(offset + 1 > offset + size)
    OBVIOUS
  <2>2. Cardinality(range) = (offset + size) - (offset + 1) + 1
    BY <2>1, FS_Interval
  <2> QED
    BY <2>2
<1>4. f \in Surjection(page, range)
  <2>1. f \in [page -> range]
    OBVIOUS
  <2>2. \A k \in range : \E y \in page : f[y] = k
    BY <1>2 DEF Surjection
  <2> QED
    BY <2>1, <2>2 DEF Surjection
<1>5. page \in SUBSET I
  OBVIOUS
<1> HIDE DEF f, page, range
<1>6. IsFiniteSet(page)
  BY <1>5, FS_Subset
<1>7. Cardinality(range) <= Cardinality(page)
  BY <1>4, <1>6, FS_Surjection
<1>8. Cardinality(page) >= size
  <2>1. Cardinality(page) \in Nat
    BY <1>6, FS_CardinalityType
  <2> QED
    BY <1>3, <1>7, <2>1
<1> QED
  BY <1>8 DEF page, range

-----------------------------------------------------------------------------
(* The lists of the administrators.                                        *)

\* The tables behind the lists.
TableInv ==
    /\ joined \in Seq(Users) /\ Once(joined) /\ ToSet(joined) = Accounts
    /\ feedback \in Seq(Notes) /\ Once(feedback) /\ unread \subseteq ToSet(feedback)
    /\ writes \in 0..MaxWrites /\ raced \in BOOLEAN

\* What was listed from the beginning and not read yet lies behind the pages read.
ListInv ==
    report.op = "list" =>
        /\ report \in Reader
        /\ report.shrunk \/ \A x \in report.due \ report.seen :
              /\ report.pc = "reading"
              /\ x \in Items(report.kind)
              /\ Place(report.kind, x) > (report.page - 1) * PageSize

LEMMA ListedKind ==
    ASSUME TableInv, NEW kind \in Kinds
    PROVE  /\ \E S : Sorted(kind) \in Seq(S)
           /\ Once(Sorted(kind)) /\ Items(kind) \subseteq ToSet(Sorted(kind))
           /\ IsFiniteSet(Items(kind)) /\ Items(kind) \subseteq Users \cup Notes
           /\ Cardinality(Items(kind)) \in 0..(Cardinality(Users) + Cardinality(Notes))
<1>1. /\ IsFiniteSet(Users) /\ Cardinality(Users) \in Nat
      /\ IsFiniteSet(Notes) /\ Cardinality(Notes) \in Nat
  BY AdministrationAssumption, FS_CardinalityType
<1>2. ToSet(joined) \subseteq Users /\ ToSet(feedback) \subseteq Notes
  BY DEF TableInv, ToSet
<1>3. Sorted(kind) = IF kind = "users" THEN joined ELSE feedback
  BY DEF Sorted
<1>4. Items(kind) = IF kind = "unread" THEN unread ELSE ToSet(Sorted(kind))
  BY DEF Items
<1>5. Items(kind) \subseteq ToSet(Sorted(kind))
  BY <1>3, <1>4 DEF TableInv
<1>6. \E T \in {Users, Notes} : Items(kind) \in SUBSET T
  BY <1>2, <1>3, <1>5
<1>7. /\ IsFiniteSet(Items(kind))
      /\ Cardinality(Items(kind)) <= Cardinality(Users) \/ Cardinality(Items(kind)) <= Cardinality(Notes)
  BY <1>1, <1>6, FS_Subset
<1>8. Cardinality(Items(kind)) \in Nat
  BY <1>7, FS_CardinalityType
<1>9. Cardinality(Items(kind)) \in 0..(Cardinality(Users) + Cardinality(Notes))
  BY <1>1, <1>7, <1>8
<1>10. (\E S : Sorted(kind) \in Seq(S)) /\ Once(Sorted(kind))
  BY <1>3 DEF TableInv
<1> QED
  BY <1>5, <1>6, <1>7, <1>9, <1>10

\* Positions in a list, and the page in front of an item.
LEMMA PlacesInList ==
    ASSUME TableInv, NEW kind \in Kinds
    PROVE  /\ \A x \in Items(kind) : Place(kind, x) \in 1..Cardinality(Items(kind))
           /\ \A page \in Nat \ {0}, x \in Items(kind) :
                 Place(kind, x) > page * PageSize => ~Ends(Page(kind, page))
           /\ \A page \in Nat \ {0} : ~Ends(Page(kind, page)) =>
                 page <= Cardinality(Items(kind))
           /\ \A page : Page(kind, page) \subseteq Items(kind)
<1> DEFINE I == Items(kind)
           s == Sorted(kind)
           n == Cardinality(I)
           place == [x \in I |-> Cardinality({y \in I : NoOlder(s, x, y)})]
<1>1. PICK S : s \in Seq(S)
  BY ListedKind
<1>2. Once(s) /\ I \subseteq ToSet(s) /\ IsFiniteSet(I) /\ n \in Nat
  BY ListedKind, FS_CardinalityType
<1>3. /\ place \in [I -> 1..n] /\ place \in Surjection(I, 1..n)
  <2> HIDE DEF I, s
  <2> QED
    BY <1>1, <1>2, Places
<1>4. \A x \in I : Place(kind, x) = place[x]
  BY DEF Place
<1>5. PageSize \in Nat \ {0}
  BY AdministrationAssumption
<1> HIDE DEF place, s
<1>6. \A page : Page(kind, page) = {y \in I : place[y] \in ((page - 1) * PageSize + 1)..((page - 1) * PageSize + PageSize)}
  BY <1>4 DEF Page, Window
<1> HIDE DEF n, I
<1>7. ASSUME NEW page \in Nat \ {0}
      PROVE  (page - 1) * PageSize \in Nat /\ (page - 1) * PageSize + PageSize = page * PageSize
             /\ page - 1 <= (page - 1) * PageSize
  <2> DEFINE k == page - 1
  <2>1. k \in Nat /\ page = k + 1
    OBVIOUS
  <2> HIDE DEF k
  <2>2. k * PageSize \in Nat /\ k * PageSize + PageSize = (k + 1) * PageSize /\ k <= k * PageSize
    BY <1>5, <2>1
  <2> QED
    BY <2>1, <2>2 DEF k
<1>8. ASSUME NEW page \in Nat \ {0}, NEW x \in I, place[x] > page * PageSize
      PROVE  ~Ends(Page(kind, page))
  <2> DEFINE offset == (page - 1) * PageSize
  <2>1. offset \in Nat /\ place[x] > offset + PageSize
    BY <1>7, <1>8
  <2> DEFINE window == {y \in I : place[y] \in (offset + 1)..(offset + PageSize)}
  <2>2. Page(kind, page) = window
    BY <1>6
  <2>3. window \in SUBSET I
    OBVIOUS
  <2> HIDE DEF offset
  <2>4. Cardinality(window) >= PageSize
    BY <1>2, <1>3, <1>5, <2>1, FullWindow DEF n
  <2> HIDE DEF window
  <2>5. Cardinality(window) \in Nat
    BY <1>2, <2>3, FS_Subset, FS_CardinalityType
  <2> QED
    BY <1>5, <2>2, <2>4, <2>5 DEF Ends
<1>9. ASSUME NEW page \in Nat \ {0}, ~Ends(Page(kind, page))
      PROVE  page <= n
  <2>1. Cardinality(Page(kind, page)) # 0
    BY <1>5, <1>9 DEF Ends
  <2>2. Page(kind, page) # {}
    BY <2>1, FS_EmptySet
  <2>3. PICK y \in I : place[y] \in ((page - 1) * PageSize + 1)..((page - 1) * PageSize + PageSize)
    BY <1>6, <2>2
  <2> DEFINE offset == (page - 1) * PageSize
  <2>4. place[y] \in 1..n /\ place[y] >= offset + 1
    BY <1>3, <1>5, <1>7, <2>3
  <2>5. offset \in Nat /\ page - 1 <= offset
    BY <1>7
  <2> HIDE DEF offset
  <2> QED
    BY <1>2, <2>4, <2>5
<1>10. \A x \in I : Place(kind, x) \in 1..n
  BY <1>3, <1>4
<1>11. \A page : Page(kind, page) \subseteq I
  BY <1>6
<1> QED
  BY <1>4, <1>8, <1>9, <1>10, <1>11 DEF I, n
-----------------------------------------------------------------------------
\* Accounts only come, and only SignUp adds one; when it was created stays.
LEMMA AccountsGrow ==
    ASSUME IInv, [Next]_vars
    PROVE  /\ \A u \in Accounts : users'[u] # None /\ users'[u].created = users[u].created
           /\ \/ Accounts' = Accounts /\ joined' = joined
              \/ \E u \in Users : SignUp(u) /\ u \notin Accounts /\ Accounts' = Accounts \cup {u}
<1>1. CASE users' = users /\ joined' = joined
  BY <1>1 DEF Accounts
<1>2. CASE \E u \in Users : SignUp(u)
  <2>1. PICK u \in Users : SignUp(u)
    BY <1>2
  <2>2. PICK account \in Account : users' = [users EXCEPT ![u] = account]
    <3>1. PICK t \in Time : users' = [users EXCEPT ![u] = [created |-> t, login |-> t, active |-> TRUE]]
      BY <2>1 DEF SignUp
    <3>2. [created |-> t, login |-> t, active |-> TRUE] \in Account
      BY DEF Account
    <3> QED
      BY <3>1, <3>2
  <2>3. users'[u] # None /\ users[u] = None /\ \A v \in Users \ {u} : users'[v] = users[v]
    BY <2>1, <2>2, TimeFacts DEF SignUp, IInv, UserInv
  <2> QED
    BY <2>1, <2>3 DEF Accounts
<1>3. ASSUME NEW u \in Users, users[u] # None, joined' = joined,
             NEW account \in Account, account.created = users[u].created,
             users' = [users EXCEPT ![u] = account]
      PROVE  /\ \A v \in Accounts : users'[v] # None /\ users'[v].created = users[v].created
             /\ Accounts' = Accounts /\ joined' = joined
  <2>1. users'[u] = account /\ account # None /\ \A v \in Users \ {u} : users'[v] = users[v]
    BY <1>3, TimeFacts DEF IInv, UserInv
  <2> QED
    BY <1>3, <2>1 DEF Accounts
<1>4. CASE \E u \in Users : SignIn(u)
  <2>1. PICK u \in Users : SignIn(u)
    BY <1>4
  <2>2. users[u] # None /\ users[u] \in Account /\ clock \in Time
    BY <2>1 DEF SignIn, Active, IInv, UserInv
  <2> DEFINE account == [users[u] EXCEPT !.login = clock]
  <2>3. account \in Account /\ account.created = users[u].created
    BY <2>2 DEF Account
  <2>4. users' = [users EXCEPT ![u] = account] /\ joined' = joined
    BY <2>1 DEF SignIn
  <2> HIDE DEF account
  <2> QED
    BY <1>3, <2>2, <2>3, <2>4
<1>5. CASE \E r \in Requests : CommitToggle(r)
  <2>1. PICK r \in Requests : CommitToggle(r)
    BY <1>5
  <2>2. PICK u, seen : u = requests[r].target /\ seen = requests[r].seen
    OBVIOUS
  <2>3. u \in Users /\ users[u] # None /\ users[u] \in Account /\ seen \in BOOLEAN
    BY <2>1, <2>2 DEF CommitToggle, IInv, ToggleInv, UserInv, Toggle
  <2> DEFINE account == [users[u] EXCEPT !.active = ~seen]
  <2>4. account \in Account /\ account.created = users[u].created
    BY <2>3 DEF Account
  <2>5. users' = [users EXCEPT ![u] = account] /\ joined' = joined
    BY <2>1, <2>2 DEF CommitToggle
  <2> HIDE DEF account
  <2> QED
    BY <1>3, <2>3, <2>4, <2>5
<1>6. CASE UNCHANGED vars \/ Tick \/ Reporting
  <2>1. users' = users /\ joined' = joined
    BY <1>6 DEF vars, Tick, Reporting, OpenDashboard, ReadFigure, ReadSeries, BeginList, ReadPage, stored
  <2> QED
    BY <1>1, <2>1
<1>7. CASE \E n \in Notes : Submit(n) \/ MarkRead(n)
  BY <1>1, <1>7 DEF Submit, MarkRead
<1>8. CASE \E r \in Requests : LoadToggle(r) \/ \E a \in Admins, u \in Users : BeginToggle(r, a, u)
  BY <1>1, <1>8 DEF LoadToggle, BeginToggle
<1> QED
  BY <1>2, <1>4, <1>5, <1>6, <1>7, <1>8 DEF Next, Visits, Toggling

\* A position in a list does not get smaller while the list grows in its order.
LEMMA PlaceKept ==
    ASSUME TableInv', NEW kind \in Kinds,
           Items(kind) \subseteq Items(kind)',
           \A x, y : NoOlder(Sorted(kind), x, y) => NoOlder(Sorted(kind)', x, y)
    PROVE  \A x : Place(kind, x) \in Nat /\ Place(kind, x)' \in Nat /\ Place(kind, x)' >= Place(kind, x)
<1> TAKE x
<1> DEFINE before == {y \in Items(kind) : NoOlder(Sorted(kind), x, y)}
           after  == {y \in Items(kind)' : NoOlder(Sorted(kind)', x, y)}
<1>1. before \in SUBSET after /\ after \in SUBSET Items(kind)'
  OBVIOUS
<1>2. IsFiniteSet(Items(kind)')
  <2>1. ToSet(joined)' \subseteq Users /\ ToSet(feedback)' \subseteq Notes /\ unread' \subseteq Notes
    BY DEF TableInv, ToSet
  <2>2. Items(kind)' \in SUBSET Users \/ Items(kind)' \in SUBSET Notes
    BY <2>1 DEF Items, Sorted
  <2> QED
    BY <2>2, FS_Subset, AdministrationAssumption
<1>3. Place(kind, x) = Cardinality(before) /\ Place(kind, x)' = Cardinality(after)
  BY DEF Place
<1> HIDE DEF before, after
<1>4. IsFiniteSet(after)
  BY <1>1, <1>2, FS_Subset
<1>5. IsFiniteSet(before) /\ Cardinality(before) <= Cardinality(after)
  BY <1>1, <1>4, FS_Subset
<1> QED
  BY <1>3, <1>4, <1>5, FS_CardinalityType

\* What a step does to the tables: rows are added in place, and only MarkRead
\* takes an item from a list.
LEMMA TablesGrow ==
    ASSUME IInv, TableInv, [Next]_vars
    PROVE  /\ TableInv'
           /\ \A kind \in Kinds :
                 /\ \A x, y : NoOlder(Sorted(kind), x, y) => NoOlder(Sorted(kind)', x, y)
                 /\ \/ Items(kind) \subseteq Items(kind)'
                    \/ kind = "unread" /\ \E n \in Notes : MarkRead(n)
<1>1. /\ joined' \in Seq(Users) /\ Once(joined)' /\ ToSet(joined)' = Accounts'
      /\ ToSet(joined) \subseteq ToSet(joined)'
      /\ \A x, y : NoOlder(joined, x, y) => NoOlder(joined', x, y)
  <2>1. CASE Accounts' = Accounts /\ joined' = joined
    BY <2>1 DEF TableInv, Once, ToSet
  <2>2. CASE \E u \in Users : SignUp(u) /\ u \notin Accounts /\ Accounts' = Accounts \cup {u}
    <3>1. PICK u \in Users : SignUp(u) /\ u \notin Accounts /\ Accounts' = Accounts \cup {u}
      BY <2>2
    <3>2. PICK i \in 1..(Len(joined) + 1) : joined' = InsertAt(joined, i, u)
      BY <3>1 DEF SignUp
    <3>3. PICK t : t = joined'
      OBVIOUS
    <3>4. joined \in Seq(Users) /\ Once(joined) /\ ToSet(joined) = Accounts /\ u \in Users \ ToSet(joined)
      BY <3>1 DEF TableInv
    <3>5. /\ t \in Seq(Users) /\ Once(t)
          /\ ToSet(t) = ToSet(joined) \cup {u}
          /\ \A x, y : NoOlder(joined, x, y) => NoOlder(t, x, y)
      BY <3>2, <3>3, <3>4, Inserted
    <3>6. Once(joined)' /\ ToSet(joined)' = ToSet(t)
      BY <3>3, <3>5 DEF Once, ToSet
    <3> QED
      BY <3>1, <3>3, <3>4, <3>5, <3>6
  <2> QED
    BY <2>1, <2>2, AccountsGrow
<1>2. /\ feedback' \in Seq(Notes) /\ Once(feedback)' /\ unread' \subseteq ToSet(feedback)'
      /\ ToSet(feedback) \subseteq ToSet(feedback)'
      /\ unread \subseteq unread' \/ \E n \in Notes : MarkRead(n)
      /\ \A x, y : NoOlder(feedback, x, y) => NoOlder(feedback', x, y)
  <2>1. CASE \E n \in Notes : Submit(n)
    <3>1. PICK n \in Notes : Submit(n)
      BY <2>1
    <3>2. PICK i \in 1..(Len(feedback) + 1) : feedback' = InsertAt(feedback, i, n)
      BY <3>1 DEF Submit
    <3>3. PICK t : t = feedback'
      OBVIOUS
    <3>4. feedback \in Seq(Notes) /\ Once(feedback) /\ n \in Notes \ ToSet(feedback)
      BY <3>1 DEF TableInv, Submit
    <3>5. /\ t \in Seq(Notes) /\ Once(t)
          /\ ToSet(t) = ToSet(feedback) \cup {n}
          /\ \A x, y : NoOlder(feedback, x, y) => NoOlder(t, x, y)
      BY <3>2, <3>3, <3>4, Inserted
    <3>6. Once(feedback)' /\ ToSet(feedback)' = ToSet(t)
      BY <3>3, <3>5 DEF Once, ToSet
    <3>7. unread' = unread \cup {n}
      BY <3>1 DEF Submit
    <3> QED
      BY <3>3, <3>5, <3>6, <3>7 DEF TableInv
  <2>2. CASE \E n \in Notes : MarkRead(n)
    <3>1. feedback' = feedback /\ unread' \subseteq unread
      BY <2>2 DEF MarkRead
    <3> QED
      BY <2>2, <3>1 DEF TableInv, Once, ToSet
  <2>3. CASE feedback' = feedback /\ unread' = unread
    BY <2>3 DEF TableInv, Once, ToSet
  <2>4. CASE UNCHANGED vars \/ Tick \/ Toggling \/ Reporting \/ \E u \in Users : SignUp(u) \/ SignIn(u)
    <3>1. feedback' = feedback /\ unread' = unread
      BY <2>4 DEF vars, Tick, Toggling, BeginToggle, LoadToggle, CommitToggle, Reporting,
                  OpenDashboard, ReadFigure, ReadSeries, BeginList, ReadPage, stored, SignUp, SignIn
    <3> QED
      BY <2>3, <3>1
  <2> QED
    BY <2>1, <2>2, <2>4 DEF Next, Visits
<1>3. writes' \in 0..MaxWrites
  <2>1. MaxWrites \in Nat /\ writes \in 0..MaxWrites
    BY AdministrationAssumption DEF TableInv
  <2>2. writes' = writes \/ (writes > 0 /\ writes' = writes - 1)
    <3>1. CASE UNCHANGED vars \/ Tick \/ Reporting
      BY <3>1 DEF vars, Tick, Reporting, OpenDashboard, ReadFigure, ReadSeries, BeginList, ReadPage, stored
    <3>2. CASE Visits \/ Toggling
      BY <3>2 DEF Visits, Toggling, SignUp, SignIn, Submit, MarkRead, BeginToggle, LoadToggle,
                  CommitToggle, Write
    <3> QED
      BY <3>1, <3>2 DEF Next
  <2> QED
    BY <2>1, <2>2
<1>4. raced' \in BOOLEAN
  <2>1. raced' = raced \/ \E r \in Requests : raced' = (raced \/ ~Active(requests[r].by))
    <3>1. CASE UNCHANGED vars \/ Tick \/ Reporting
      BY <3>1 DEF vars, Tick, Reporting, OpenDashboard, ReadFigure, ReadSeries, BeginList, ReadPage, stored
    <3>2. CASE Visits \/ Toggling
      BY <3>2 DEF Visits, Toggling, SignUp, SignIn, Submit, MarkRead, BeginToggle, LoadToggle, CommitToggle
    <3> QED
      BY <3>1, <3>2 DEF Next
  <2> QED
    BY <2>1 DEF TableInv
<1>5. TableInv'
  BY <1>1, <1>2, <1>3, <1>4 DEF TableInv
<1>6. ASSUME NEW kind \in Kinds
      PROVE  /\ \A x, y : NoOlder(Sorted(kind), x, y) => NoOlder(Sorted(kind)', x, y)
             /\ \/ Items(kind) \subseteq Items(kind)'
                \/ kind = "unread" /\ \E n \in Notes : MarkRead(n)
  <2>1. CASE kind = "users"
    BY <1>1, <2>1 DEF Sorted, Items
  <2>2. CASE kind = "feedback"
    BY <1>2, <2>2 DEF Sorted, Items
  <2>3. CASE kind = "unread"
    BY <1>2, <2>3 DEF Sorted, Items
  <2> QED
    BY <2>1, <2>2, <2>3 DEF Kinds
<1> QED
  BY <1>5, <1>6
-----------------------------------------------------------------------------
\* Which kind of report a step leaves behind.
LEMMA ReportSteps ==
    ASSUME IInv, [Next]_vars
    PROVE  /\ (\E range \in Ranges : OpenDashboard(range)) \/ ReadFigure \/ ReadSeries =>
                 report'.op = "dashboard"
           /\ (\E a \in Admins, kind \in Kinds : BeginList(a, kind)) \/ ReadPage =>
                 report'.op = "list"
           /\ UNCHANGED vars \/ Tick \/ Visits \/ Toggling =>
                 \/ report' = report
                 \/ /\ report.op = "list" /\ report.kind = "unread" /\ \E n \in Notes : MarkRead(n)
                    /\ report' = [report EXCEPT !.shrunk = TRUE]
<1>1. "op" \in DOMAIN report /\ report = [field \in DOMAIN report |-> report[field]]
  BY DEF IInv, FigureInv
<1>2. ASSUME NEW range \in Ranges, OpenDashboard(range) PROVE report'.op = "dashboard"
  <2>1. PICK pc, now, figures, bars, known :
           report' = [op |-> "dashboard", pc |-> pc, range |-> range, now |-> now,
                      figures |-> figures, bars |-> bars, known |-> known]
    BY <1>2 DEF OpenDashboard
  <2> QED
    BY <2>1
<1>3. ASSUME ReadFigure \/ ReadSeries PROVE report'.op = "dashboard"
  <2>1. report.op = "dashboard" /\ \E pc, figures, bars :
           \/ report' = [report EXCEPT !.pc = pc, !.figures = figures]
           \/ report' = [report EXCEPT !.pc = pc, !.bars = bars]
    BY <1>3 DEF ReadFigure, ReadSeries
  <2> QED
    BY <1>1, <2>1
<1>4. ASSUME NEW a \in Admins, NEW kind \in Kinds, BeginList(a, kind) PROVE report'.op = "list"
  <2>1. PICK due :
           report' = [op |-> "list", pc |-> "reading", by |-> a, kind |-> kind, page |-> 1,
                      seen |-> {}, due |-> due, shrunk |-> FALSE]
    BY <1>4 DEF BeginList
  <2> QED
    BY <2>1
<1>5. ASSUME ReadPage PROVE report'.op = "list"
  <2>1. report.op = "list" /\ \E seen, page, pc :
           report' = [report EXCEPT !.seen = seen, !.page = page, !.pc = pc]
    BY <1>5 DEF ReadPage
  <2> QED
    BY <1>1, <2>1
<1>6. ASSUME UNCHANGED vars \/ Tick \/ Visits \/ Toggling
      PROVE  \/ report' = report
             \/ /\ report.op = "list" /\ report.kind = "unread" /\ \E n \in Notes : MarkRead(n)
                /\ report' = [report EXCEPT !.shrunk = TRUE]
  BY <1>6 DEF vars, Tick, Visits, SignUp, SignIn, Submit, MarkRead, Toggling, BeginToggle, LoadToggle,
              CommitToggle
<1> QED
  BY <1>2, <1>3, <1>4, <1>5, <1>6

\* A list read page by page leaves nothing behind.
LEMMA ListsKept ==
    ASSUME IInv, TableInv, ListInv, [Next]_vars
    PROVE  ListInv'
<1>1. PageSize \in Nat \ {0}
  BY AdministrationAssumption
<1>2. CASE report.op = "list" /\ report.kind = "unread" /\ \E n \in Notes : MarkRead(n)
  <2>1. report \in Reader /\ report' = [report EXCEPT !.shrunk = TRUE]
    BY <1>2 DEF ListInv, MarkRead
  <2>2. report' \in Reader /\ report'.shrunk = TRUE
    BY <2>1 DEF Reader
  <2> QED
    BY <2>2 DEF ListInv
<1>3. CASE report' = report /\ ~(report.op = "list" /\ report.kind = "unread" /\ \E n \in Notes : MarkRead(n))
  <2> SUFFICES ASSUME report.op = "list" PROVE ListInv'
    BY <1>3 DEF ListInv
  <2>1. report \in Reader
    BY DEF ListInv
  <2>2. PICK kind, page : kind = report.kind /\ page = report.page
    OBVIOUS
  <2>3. kind \in Kinds
    BY <2>1, <2>2 DEF Reader
  <2>4. /\ Items(kind) \subseteq Items(kind)'
        /\ \A x, y : NoOlder(Sorted(kind), x, y) => NoOlder(Sorted(kind)', x, y)
        /\ TableInv'
    BY <1>3, <2>2, <2>3, TablesGrow
  <2>5. \A x : Place(kind, x) \in Nat /\ Place(kind, x)' \in Nat /\ Place(kind, x)' >= Place(kind, x)
    BY <2>3, <2>4, PlaceKept
  <2>6. (page - 1) * PageSize \in Int
    BY <1>1, <2>1, <2>2, AdministrationAssumption, FS_CardinalityType DEF Reader, Pages
  <2>7. ASSUME NEW x \in report.due \ report.seen, ~report.shrunk
        PROVE  x \in Items(kind)' /\ Place(kind, x)' > (page - 1) * PageSize /\ report.pc = "reading"
    <3>1. x \in Items(kind) /\ Place(kind, x) > (page - 1) * PageSize /\ report.pc = "reading"
      BY <2>2, <2>7 DEF ListInv
    <3> DEFINE offset == (page - 1) * PageSize
    <3>2. offset \in Int /\ Place(kind, x) > offset
      BY <2>6, <3>1
    <3> HIDE DEF offset
    <3>3. Place(kind, x)' > offset
      BY <2>5, <3>2
    <3> QED
      BY <2>4, <3>1, <3>3 DEF offset
  <2>8. report'.kind = kind /\ report'.page = page
    BY <1>3, <2>2
  <2> QED
    BY <1>3, <2>1, <2>7, <2>8 DEF ListInv, Place, Items, Sorted
<1>4. CASE (\E range \in Ranges : OpenDashboard(range)) \/ ReadFigure \/ ReadSeries
  <2>1. report'.op = "dashboard"
    BY <1>4, ReportSteps
  <2> QED
    BY <2>1 DEF ListInv
<1>5. CASE \E a \in Admins, kind \in Kinds : BeginList(a, kind)
  <2>1. PICK a \in Admins, kind \in Kinds : BeginList(a, kind)
    BY <1>5
  <2>2. PICK items : items = Items(kind)
    OBVIOUS
  <2>3. UNCHANGED stored
    BY <2>1 DEF BeginList
  <2>4. /\ items = Items(kind)' /\ items \subseteq Users \cup Notes
        /\ \A x \in items : Place(kind, x)' \in Nat /\ Place(kind, x)' >= 1
    <3>1. \A x \in items : Place(kind, x) \in 1..Cardinality(items)
      BY <2>2, PlacesInList
    <3>2. Cardinality(items) \in Nat /\ items \subseteq Users \cup Notes
      BY <2>2, ListedKind
    <3>3. \A x \in items : Place(kind, x) \in Nat /\ Place(kind, x) >= 1
      BY <3>1, <3>2
    <3> QED
      BY <2>2, <2>3, <3>2, <3>3 DEF stored, Place, Items, Sorted
  <2>5. report' = [op |-> "list", pc |-> "reading", by |-> a, kind |-> kind, page |-> 1,
                   seen |-> {}, due |-> items, shrunk |-> FALSE]
    BY <2>1, <2>2 DEF BeginList
  <2>6. 1 \in Pages
    BY AdministrationAssumption, FS_CardinalityType DEF Pages
  <2>7. report' \in Reader
    BY <2>4, <2>5, <2>6 DEF Reader
  <2>8. (1 - 1) * PageSize = 0
    BY <1>1
  <2>9. report'.kind = kind /\ report'.page = 1 /\ report'.due = items /\ report'.pc = "reading"
    BY <2>5
  <2>10. \A x \in items : x \in Items(kind)' /\ Place(kind, x)' > (1 - 1) * PageSize
    BY <2>4, <2>8
  <2> QED
    BY <2>7, <2>9, <2>10 DEF ListInv, Place, Items, Sorted
<1>6. CASE ReadPage
  <2>1. report \in Reader /\ report.op = "list" /\ report.pc = "reading" /\ UNCHANGED stored
    BY <1>6 DEF ReadPage, ListInv
  <2>2. PICK kind, page, window, items :
           /\ kind = report.kind /\ page = report.page
           /\ window = Page(kind, page) /\ items = Items(kind)
    OBVIOUS
  <2>3. kind \in Kinds /\ page \in Pages /\ Pages \subseteq Nat \ {0}
    BY <2>1, <2>2, AdministrationAssumption, FS_CardinalityType DEF Reader, Pages
  <2>4. /\ \A x \in items : Place(kind, x) \in 1..Cardinality(items)
        /\ \A x \in items : Place(kind, x) > page * PageSize => ~Ends(window)
        /\ ~Ends(window) => page <= Cardinality(items)
        /\ window \subseteq items
    BY <2>2, <2>3, PlacesInList
  <2>5. Cardinality(items) \in 0..(Cardinality(Users) + Cardinality(Notes)) /\ items \subseteq Users \cup Notes
    BY <2>2, <2>3, ListedKind
  <2>6. PICK next, pc :
           /\ report' = [report EXCEPT !.seen = report.seen \cup window, !.page = next, !.pc = pc]
           /\ Ends(window) => next = page /\ pc = "done"
           /\ ~Ends(window) => next = page + 1 /\ pc = "reading"
    BY <1>6, <2>1, <2>2 DEF ReadPage
  <2>7. next \in Pages
    <3>1. Cardinality(Users) \in Nat /\ Cardinality(Notes) \in Nat
      BY AdministrationAssumption, FS_CardinalityType
    <3> QED
      BY <2>3, <2>4, <2>5, <2>6, <3>1 DEF Pages
  <2>8. /\ report' \in Reader /\ report'.seen = report.seen \cup window /\ report'.due = report.due
        /\ report'.kind = kind /\ report'.page = next /\ report'.pc = pc /\ report'.shrunk = report.shrunk
    <3>1. window \subseteq Users \cup Notes /\ pc \in {"reading", "done"}
      BY <2>4, <2>5, <2>6
    <3> QED
      BY <2>1, <2>2, <2>6, <2>7, <3>1 DEF Reader
  <2>9. ASSUME NEW x \in report'.due \ report'.seen, ~report'.shrunk
        PROVE  x \in items /\ Place(kind, x) > (next - 1) * PageSize /\ pc = "reading"
    <3>1. x \in items /\ Place(kind, x) > (page - 1) * PageSize /\ x \notin window
      BY <2>1, <2>2, <2>8, <2>9 DEF ListInv
    <3>2. Place(kind, x) \in Nat
      BY <2>4, <2>5, <3>1
    <3>3. (page - 1) * PageSize + PageSize = page * PageSize /\ page * PageSize \in Nat
          /\ (page - 1) * PageSize \in Nat
      <4> DEFINE k == page - 1
      <4>1. k \in Nat /\ page = k + 1
        BY <2>3
      <4> HIDE DEF k
      <4>2. k * PageSize \in Nat /\ k * PageSize + PageSize = (k + 1) * PageSize
        BY <1>1, <4>1
      <4> QED
        BY <1>1, <4>1, <4>2 DEF k
    <3>4. Place(kind, x) > page * PageSize
      <4>1. Place(kind, x) \notin ((page - 1) * PageSize + 1)..((page - 1) * PageSize + PageSize)
        BY <2>2, <3>1 DEF Page, Window
      <4> DEFINE offset == (page - 1) * PageSize
      <4>2. offset \in Nat /\ Place(kind, x) > offset /\ Place(kind, x) \notin (offset + 1)..(offset + PageSize)
        BY <3>1, <3>3, <4>1
      <4> HIDE DEF offset
      <4>3. Place(kind, x) > offset + PageSize
        BY <1>1, <3>2, <4>2
      <4> QED
        BY <3>3, <4>3 DEF offset
    <3>5. ~Ends(window)
      BY <2>4, <3>1, <3>4
    <3>6. next = page + 1 /\ pc = "reading" /\ next - 1 = page
      BY <2>3, <2>6, <3>5
    <3> QED
      BY <3>1, <3>4, <3>6
  <2>10. \A x : (Place(kind, x)' = Place(kind, x)) /\ (x \in Items(kind)' <=> x \in items)
    BY <2>1, <2>2 DEF stored, Place, Items, Sorted
  <2>11. ASSUME NEW x \in report'.due \ report'.seen, ~report'.shrunk
         PROVE  x \in Items(kind)' /\ Place(kind, x)' > (next - 1) * PageSize /\ report'.pc = "reading"
    BY <2>8, <2>9, <2>10, <2>11
  <2> QED
    BY <2>8, <2>11 DEF ListInv, Place, Items, Sorted
<1>7. CASE UNCHANGED vars \/ Tick \/ Visits \/ Toggling
  <2>1. report' = report \/ (report.op = "list" /\ report.kind = "unread" /\ \E n \in Notes : MarkRead(n))
    BY <1>7, ReportSteps
  <2> QED
    BY <1>2, <1>3, <2>1
<1> QED
  BY <1>4, <1>5, <1>6, <1>7 DEF Next, Reporting
-----------------------------------------------------------------------------
(* The chart of the dashboard.                                             *)

\* The day of a time, and the only day it can be.
LEMMA Days ==
    ASSUME NEW t \in Int
    PROVE  /\ Day(t) \in Int
           /\ Day(t) * TicksPerDay <= t /\ t < Day(t) * TicksPerDay + TicksPerDay
           /\ \A d \in Int : d * TicksPerDay <= t /\ t < d * TicksPerDay + TicksPerDay => Day(t) = d
<1>1. TicksPerDay \in Nat \ {0}
  BY AdministrationAssumption
<1>2. /\ Day(t) \in Int
      /\ Day(t) * TicksPerDay <= t /\ t < Day(t) * TicksPerDay + TicksPerDay
  BY <1>1 DEF Day
<1>3. ASSUME NEW d \in Int, NEW e \in Int, d < e
      PROVE  d * TicksPerDay + TicksPerDay <= e * TicksPerDay
  <2> DEFINE k == e - d - 1
  <2>1. k \in Nat /\ e = d + 1 + k
    BY <1>3
  <2> HIDE DEF k
  <2>2. k * TicksPerDay \in Nat
    BY <1>1, <2>1
  <2>3. (d + 1 + k) * TicksPerDay = d * TicksPerDay + TicksPerDay + k * TicksPerDay
    BY <1>1, <2>1
  <2>4. d * TicksPerDay \in Int
    BY <1>1
  <2> QED
    BY <1>1, <2>1, <2>2, <2>3, <2>4
<1>4. ASSUME NEW d \in Int, d * TicksPerDay <= t, t < d * TicksPerDay + TicksPerDay
      PROVE  Day(t) = d
  <2> DEFINE e == Day(t)
  <2>1. e \in Int /\ e * TicksPerDay <= t /\ t < e * TicksPerDay + TicksPerDay
    BY <1>2
  <2> HIDE DEF e
  <2>2. ~(e < d) /\ ~(d < e)
    <3>1. d * TicksPerDay \in Int /\ e * TicksPerDay \in Int
      BY <1>1, <2>1
    <3>2. e < d => e * TicksPerDay + TicksPerDay <= d * TicksPerDay
      BY <1>3, <2>1
    <3>3. d < e => d * TicksPerDay + TicksPerDay <= e * TicksPerDay
      BY <1>3, <2>1
    <3> DEFINE p == d * TicksPerDay
               q == e * TicksPerDay
    <3>4. /\ p \in Int /\ q \in Int
          /\ e < d => q + TicksPerDay <= p
          /\ d < e => p + TicksPerDay <= q
          /\ p <= t /\ t < p + TicksPerDay /\ q <= t /\ t < q + TicksPerDay
      BY <1>4, <2>1, <3>1, <3>2, <3>3
    <3> HIDE DEF p, q
    <3> QED
      BY <1>1, <3>4
  <2> QED
    BY <2>1, <2>2 DEF e
<1> QED
  BY <1>2, <1>4

\* The chart begins at midnight of its first day, and whatever falls on that day
\* or later lies behind its beginning and behind that of the period.
LEMMA ChartStart ==
    ASSUME NEW now \in Nat, NEW days \in Nat \ {0},
           NEW first, first = Day(now) - days + 1
    PROVE  /\ first \in Int /\ Day(WindowStart(now, days)) = first
           /\ \A t \in Nat : Day(t) >= first =>
                 t >= WindowStart(now, days) /\ t >= Ago(now, days)
<1> DEFINE T == TicksPerDay
           today == Day(now)
<1>1. T \in Nat \ {0}
  BY AdministrationAssumption
<1>2. today \in Int /\ today * T <= now /\ now < today * T + T /\ first \in Int /\ first = today - days + 1
  BY Days
<1> HIDE DEF today
<1>3. /\ Ago(now, days - 1) = now - (days * T - T)
      /\ Ago(now, days) = now - days * T
      /\ first * T = today * T - days * T + T
  <2>1. (days - 1) * T = days * T - T
    BY <1>1
  <2>2. (today - days + 1) * T = today * T - days * T + T
    BY <1>1, <1>2
  <2> QED
    BY <1>2, <2>1, <2>2 DEF Ago
<1>4. Ago(now, days - 1) \in Int /\ Ago(now, days) \in Int /\ first * T \in Int
      /\ first * T <= Ago(now, days - 1) /\ Ago(now, days - 1) < first * T + T
      /\ Ago(now, days) < first * T
  <2> DEFINE p == today * T
             q == days * T
             r == first * T
  <2>1. p \in Int /\ q \in Int /\ r \in Int
    BY <1>1, <1>2
  <2>2. /\ Ago(now, days - 1) = now - (q - T) /\ Ago(now, days) = now - q
        /\ r = p - q + T /\ p <= now /\ now < p + T
    BY <1>2, <1>3
  <2> HIDE DEF p, q, r
  <2>3. /\ now - (q - T) \in Int /\ now - q \in Int
        /\ r <= now - (q - T) /\ now - (q - T) < r + T /\ now - q < r
    BY <1>1, <2>1, <2>2
  <2>4. /\ Ago(now, days - 1) \in Int /\ Ago(now, days) \in Int /\ r \in Int
        /\ r <= Ago(now, days - 1) /\ Ago(now, days - 1) < r + T
        /\ Ago(now, days) < r
    BY <2>1, <2>2, <2>3
  <2> QED
    BY <2>4 DEF r
<1>5. Day(Ago(now, days - 1)) = first
  BY <1>2, <1>4, Days
<1>6. WindowStart(now, days) = first * T
  BY <1>5 DEF WindowStart
<1>7. Day(first * T) = first
  <2>1. first * T <= first * T /\ first * T < first * T + T
    BY <1>1, <1>4
  <2> QED
    BY <1>2, <1>4, <2>1, Days
<1>8. ASSUME NEW t \in Nat, Day(t) >= first
      PROVE  t >= first * T
  <2> DEFINE d == Day(t)
             k == d - first
  <2>1. d \in Int /\ d * T <= t
    BY Days
  <2>2. k \in Nat /\ d = first + k
    BY <1>2, <1>8, <2>1
  <2> HIDE DEF d, k
  <2>3. (first + k) * T = first * T + k * T /\ k * T \in Nat
    BY <1>1, <1>2, <2>2
  <2> DEFINE r == first * T
             s == k * T
  <2>4. r \in Int /\ s \in Nat /\ r + s <= t
    BY <1>4, <2>1, <2>2, <2>3
  <2> HIDE DEF r, s
  <2>5. t >= r
    BY <2>4
  <2> QED
    BY <2>5 DEF r
<1>9. ASSUME NEW t \in Nat, Day(t) >= first
      PROVE  t >= Ago(now, days)
  <2> DEFINE r == first * T
  <2>1. r \in Int /\ t >= r /\ Ago(now, days) \in Int /\ Ago(now, days) < r
    BY <1>4, <1>8, <1>9
  <2> HIDE DEF r
  <2> QED
    BY <2>1
<1> QED
  BY <1>2, <1>6, <1>7, <1>8, <1>9
-----------------------------------------------------------------------------
\* What of a dashboard is read already covers the accounts known from the beginning.
ChartInv ==
    report.op = "dashboard" =>
        /\ report \in Dashboard
        /\ report.known \subseteq Accounts
        /\ report.pc > 1 => Cardinality(report.known) <= report.figures["total"]
        /\ report.pc > 4 => Cardinality(UNION {KnownOn(d) : d \in 1..SeriesDays(report.range)})
                                <= report.figures["period"]
        /\ report.pc > 5 => /\ report.bars \in [1..SeriesDays(report.range) -> Count]
                            /\ \A d \in 1..SeriesDays(report.range) :
                                  Cardinality(KnownOn(d)) <= report.bars[d]

Bars  == UNION {[1..SeriesDays(range) -> Count] : range \in Ranges}
Drawn == [op : {"dashboard"}, pc : 1..6, range : Ranges, now : Time, figures : [Headline -> Count],
          bars : Bars, known : SUBSET Users]

LEMMA Shapes ==
    /\ Len(Order) = 4
    /\ Order[1] = "total" /\ Order[2] = "week" /\ Order[3] = "month" /\ Order[4] = "period"
    /\ ToSet(Order) = Headline /\ Dashboard = Drawn
    /\ \A range \in Ranges : SeriesDays(range) \in Nat \ {0}
<1>1. Len(Order) = 4 /\ Order[1] = "total" /\ Order[2] = "week" /\ Order[3] = "month" /\ Order[4] = "period"
  BY DEF Order
<1>2. ToSet(Order) = Headline
  BY DEF ToSet, Order, Headline
<1>3. \A range \in Ranges : SeriesDays(range) \in Nat \ {0}
  BY AdministrationAssumption DEF SeriesDays
<1>4. Dashboard = Drawn
  <2>1. Len(Order) + 2 = 6
    BY <1>1
  <2> QED
    BY <1>2, <2>1 DEF Dashboard, Drawn, Bars
<1> QED
  BY <1>1, <1>2, <1>3, <1>4

\* Every count of accounts is one.
LEMMA Counted ==
    ASSUME NEW S \in SUBSET Users
    PROVE  Cardinality(S) \in Count
<1>1. Cardinality(S) \in Nat /\ Cardinality(Users) \in Nat /\ Cardinality(S) <= Cardinality(Users)
  BY UserSets, FS_Subset, FS_CardinalityType, AdministrationAssumption
<1> QED
  BY <1>1 DEF Count

\* When an account known was created does not change, nor on which day of the
\* chart it belongs.
LEMMA KnownKept ==
    ASSUME IInv, ChartInv, [Next]_vars, report.op = "dashboard", report'.op = "dashboard",
           report'.known = report.known, report'.now = report.now, report'.range = report.range
    PROVE  /\ report'.known \subseteq Accounts'
           /\ \A d : KnownOn(d)' = KnownOn(d)
           /\ \A d : KnownOn(d) \in SUBSET report.known
           /\ report.known \in SUBSET Users
<1>1. \A u \in Accounts : users'[u] # None /\ users'[u].created = users[u].created
  BY AccountsGrow
<1>2. report.known \subseteq Accounts /\ Accounts \subseteq Users
  BY DEF ChartInv, Accounts
<1>3. report'.known \subseteq Accounts'
  BY <1>1, <1>2 DEF Accounts
<1>4. \A u \in report.known : users'[u].created = users[u].created
  BY <1>1, <1>2
<1>5. \A d : KnownOn(d)' = KnownOn(d)
  BY <1>4 DEF KnownOn
<1> QED
  BY <1>2, <1>3, <1>5 DEF KnownOn

LEMMA ChartsKept ==
    ASSUME IInv, TableInv, ListInv, ChartInv, [Next]_vars
    PROVE  ChartInv'
<1>1. CASE report' = report
  <2> SUFFICES ASSUME report.op = "dashboard" PROVE ChartInv'
    BY <1>1 DEF ChartInv
  <2>1. report'.known \subseteq Accounts' /\ \A d : KnownOn(d)' = KnownOn(d)
    BY <1>1, KnownKept
  <2>2. PICK days : days = SeriesDays(report.range)
    OBVIOUS
  <2>3. {KnownOn(d)' : d \in 1..days} = {KnownOn(d) : d \in 1..days}
    BY <2>1
  <2>4. SeriesDays(report'.range) = days
    BY <1>1, <2>2
  <2> QED
    BY <1>1, <2>1, <2>2, <2>3, <2>4 DEF ChartInv, SeriesDays
<1>2. CASE report.op = "list" /\ report' = [report EXCEPT !.shrunk = TRUE]
  <2>1. report \in Reader
    BY <1>2 DEF ListInv
  <2>2. report'.op = "list"
    BY <1>2, <2>1 DEF Reader
  <2> QED
    BY <2>2 DEF ChartInv
<1>3. CASE (\E a \in Admins, kind \in Kinds : BeginList(a, kind)) \/ ReadPage
  <2>1. report'.op = "list"
    BY <1>3, ReportSteps
  <2> QED
    BY <2>1 DEF ChartInv
<1>4. CASE \E range \in Ranges : OpenDashboard(range)
  <2>1. PICK range \in Ranges : OpenDashboard(range)
    BY <1>4
  <2>2. PICK days, zeros, known : /\ days = SeriesDays(range) /\ known = Accounts
                                  /\ zeros = [d \in 1..days |-> 0]
    OBVIOUS
  <2>3. report' = [op |-> "dashboard", pc |-> 1, range |-> range, now |-> clock,
                   figures |-> [f \in Headline |-> 0], bars |-> zeros, known |-> known]
    BY <2>1, <2>2, Shapes DEF OpenDashboard
  <2>4. 0 \in Count
    BY AdministrationAssumption, FS_CardinalityType DEF Count
  <2>5. known \in SUBSET Users /\ clock \in Time /\ zeros \in [1..days -> Count]
        /\ [f \in Headline |-> 0] \in [Headline -> Count]
    BY <2>2, <2>4 DEF Accounts, IInv, UserInv
  <2>6. zeros \in Bars
    BY <2>2, <2>5 DEF Bars
  <2>7. report' \in Dashboard /\ report'.pc = 1 /\ report'.known = known
    BY <2>3, <2>5, <2>6, Shapes DEF Drawn
  <2>8. Accounts' = Accounts
    BY <2>1 DEF OpenDashboard, stored, Accounts
  <2> QED
    BY <2>2, <2>7, <2>8 DEF ChartInv
<1>5. CASE ReadFigure
  <2>1. /\ report \in Dashboard /\ report.op = "dashboard" /\ UNCHANGED stored
        /\ report.pc \in {1, 2, 3, 4} /\ report.now \in Time /\ report.range \in Ranges
        /\ report.figures \in [Headline -> Count]
    <3>1. report.op = "dashboard" /\ report.pc <= 4 /\ UNCHANGED stored
      BY <1>5, Shapes DEF ReadFigure
    <3>2. report \in Dashboard
      BY <3>1 DEF ChartInv
    <3>3. report.pc \in 1..6 /\ report.now \in Time /\ report.range \in Ranges
          /\ report.figures \in [Headline -> Count]
      BY <3>2, Shapes DEF Drawn
    <3> QED
      BY <3>1, <3>2, <3>3
  <2>2. PICK f, v, pc : f = Order[report.pc] /\ v = Figure(f) /\ pc = report.pc + 1
    OBVIOUS
  <2>3. f \in Headline /\ pc \in {2, 3, 4, 5}
    BY <2>1, <2>2, Shapes DEF Headline
  <2>4. v \in Count
    <3>1. Cardinality(Accounts) \in Count
      BY Counted DEF Accounts
    <3>2. \A since : SignedIn(since) \in SUBSET Users /\ SignedUp(since) \in SUBSET Users
      BY DEF SignedIn, SignedUp, Accounts
    <3>3. \A since : Cardinality(SignedIn(since)) \in Count /\ Cardinality(SignedUp(since)) \in Count
      BY <3>2, Counted
    <3>4. report.figures["total"] \in Count
      BY <2>1 DEF Headline
    <3> QED
      BY <2>2, <2>3, <3>1, <3>3, <3>4 DEF Figure, Headline
  <2>5. report' = [report EXCEPT !.pc = pc, !.figures[f] = v]
    BY <1>5, <2>2 DEF ReadFigure
  <2>6. /\ report' \in Dashboard /\ report'.op = "dashboard" /\ report'.pc = pc
        /\ report'.now = report.now /\ report'.range = report.range /\ report'.known = report.known
        /\ report'.figures[f] = v
        /\ \A g \in Headline \ {f} : report'.figures[g] = report.figures[g]
    <3>1. pc \in 1..6
      BY <2>3
    <3> QED
      BY <2>1, <2>3, <2>4, <2>5, <3>1, Shapes DEF Drawn
  <2>7. /\ report'.known \subseteq Accounts'
        /\ \A d : KnownOn(d)' = KnownOn(d)
        /\ \A d : KnownOn(d) \in SUBSET report.known
        /\ report.known \in SUBSET Users
    BY <2>1, <2>6, KnownKept
  <2>8. PICK days : days = SeriesDays(report.range)
    OBVIOUS
  <2>9. PICK shown : shown = UNION {KnownOn(d) : d \in 1..days}
    OBVIOUS
  <2>10. shown = UNION {KnownOn(d)' : d \in 1..days}
    <3>1. {KnownOn(d)' : d \in 1..days} = {KnownOn(d) : d \in 1..days}
      BY <2>7
    <3> QED
      BY <2>9, <3>1
  <2>11. shown \in SUBSET report.known
    BY <2>7, <2>9
  <2>12. /\ Cardinality(shown) \in Nat /\ Cardinality(report.known) \in Nat
         /\ Cardinality(shown) <= Cardinality(report.known)
    BY <2>7, <2>11, UserSets
  <2>13. pc > 1 => Cardinality(report.known) <= report'.figures["total"]
    <3>1. CASE report.pc = 1
      <4>1. f = "total" /\ v = Cardinality(Accounts)
        BY <2>2, <3>1, Shapes DEF Figure
      <4>2. report.known \in SUBSET Accounts /\ Accounts \in SUBSET Users
        BY <2>1 DEF ChartInv, Accounts
      <4>3. Cardinality(report.known) <= Cardinality(Accounts)
        BY <4>2, UserSets
      <4> QED
        BY <2>6, <4>1, <4>3
    <3>2. CASE report.pc > 1
      <4>1. f # "total"
        BY <2>1, <2>2, <3>2, Shapes
      <4>2. report'.figures["total"] = report.figures["total"]
        BY <2>6, <4>1 DEF Headline
      <4> QED
        BY <2>1, <3>2, <4>2 DEF ChartInv
    <3> QED
      BY <2>1, <3>1, <3>2
  <2>14. pc > 4 => Cardinality(shown) <= report'.figures["period"]
    <3> SUFFICES ASSUME report.pc = 4 PROVE Cardinality(shown) <= v
      BY <2>1, <2>2, <2>6, Shapes
    <3>1. f = "period"
      BY <2>2, Shapes
    <3>2. CASE report.range = None
      <4>1. v = report.figures["total"] /\ report.figures["total"] \in Count
        BY <2>1, <2>2, <3>1, <3>2 DEF Figure, Headline
      <4>2. Cardinality(report.known) <= report.figures["total"]
        BY <2>1 DEF ChartInv
      <4>3. v \in Nat
        BY <4>1 DEF Count
      <4> QED
        BY <2>12, <4>1, <4>2, <4>3
    <3>3. CASE report.range # None
      <4>1. days = report.range /\ days \in Nat \ {0} /\ report.now \in Nat
        BY <2>1, <2>8, <3>3, Shapes, TimeFacts DEF SeriesDays
      <4>2. v = Cardinality(SignedUp(Ago(report.now, days)))
        BY <2>2, <3>1, <3>3, <4>1 DEF Figure
      <4> DEFINE first == Day(report.now) - days + 1
      <4>3. /\ first \in Int
            /\ \A t \in Nat : Day(t) >= first => t >= Ago(report.now, days)
        BY <4>1, ChartStart
      <4>4. ASSUME NEW u \in shown PROVE u \in SignedUp(Ago(report.now, days))
        <5>1. PICK d \in 1..days : u \in KnownOn(d)
          BY <2>9
        <5>2. u \in report.known /\ Day(users[u].created) = first + d - 1
          BY <2>8, <5>1 DEF KnownOn
        <5>3. u \in Accounts
          BY <2>1, <5>2 DEF ChartInv
        <5>4. users[u].created \in Nat
          BY <5>3, TimeFacts DEF Accounts, IInv, UserInv
        <5>5. Day(users[u].created) >= first
          <6> HIDE DEF first
          <6> QED
            BY <4>1, <4>3, <5>2
        <5> HIDE DEF first
        <5> QED
          BY <4>3, <5>3, <5>4, <5>5 DEF SignedUp
      <4>5. SignedUp(Ago(report.now, days)) \in SUBSET Users
        BY DEF SignedUp, Accounts
      <4> QED
        BY <4>2, <4>4, <4>5, UserSets
    <3> QED
      BY <3>2, <3>3
  <2>15. pc <= 5
    BY <2>3
  <2>16. SeriesDays(report.range)' = days
    BY <2>6, <2>8 DEF SeriesDays
  <2>17. Cardinality(UNION {KnownOn(d) : d \in 1..SeriesDays(report.range)})' = Cardinality(shown)
    BY <2>10, <2>16
  <2>18. ~(report'.pc > 5) /\ report'.pc = pc
    BY <2>3, <2>6
  <2> QED
    BY <2>6, <2>7, <2>13, <2>14, <2>17, <2>18 DEF ChartInv
<1>6. CASE ReadSeries
  <2>1. /\ report \in Dashboard /\ report.op = "dashboard" /\ report.pc = 5 /\ UNCHANGED stored
        /\ report.range \in Ranges /\ report.now \in Nat
    <3>1. report.op = "dashboard" /\ report.pc = 5
      BY <1>6, Shapes DEF ReadSeries
    <3>2. report \in Dashboard
      BY <3>1 DEF ChartInv
    <3>3. report.range \in Ranges /\ report.now \in Time
      BY <3>2, Shapes DEF Drawn
    <3>4. report.now \in Nat /\ UNCHANGED stored
      BY <1>6, <3>3, TimeFacts DEF ReadSeries
    <3> QED
      BY <3>1, <3>2, <3>3, <3>4
  <2>2. PICK days, start, bars :
           /\ days = SeriesDays(report.range) /\ start = WindowStart(report.now, days)
           /\ bars = [d \in 1..days |-> Cardinality(Bar(start, d))]
    OBVIOUS
  <2>3. days \in Nat \ {0}
    BY <2>1, <2>2, Shapes
  <2>4. \A d : Bar(start, d) \in SUBSET Users
    BY DEF Bar, SignedUp, Accounts
  <2>5. bars \in [1..days -> Count]
    BY <2>2, <2>4, Counted
  <2>6. bars \in Bars
    BY <2>1, <2>2, <2>5 DEF Bars
  <2>7. report' = [report EXCEPT !.pc = 6, !.bars = bars]
    <3>1. report' = [report EXCEPT !.pc = report.pc + 1, !.bars = bars]
      BY <1>6, <2>2 DEF ReadSeries
    <3>2. report.pc + 1 = 6
      BY <2>1
    <3> QED
      BY <3>1, <3>2
  <2>8. /\ report' \in Dashboard /\ report'.op = "dashboard" /\ report'.pc = 6 /\ report'.bars = bars
        /\ report'.now = report.now /\ report'.range = report.range /\ report'.known = report.known
        /\ report'.figures = report.figures
    <3>1. report \in Drawn /\ 6 \in 1..6 /\ report.op = "dashboard"
      BY <2>1, Shapes
    <3>2. /\ report' \in Drawn /\ report'.op = "dashboard" /\ report'.pc = 6 /\ report'.bars = bars
          /\ report'.now = report.now /\ report'.range = report.range /\ report'.known = report.known
          /\ report'.figures = report.figures
      BY <2>6, <2>7, <3>1 DEF Drawn
    <3>3. Dashboard = Drawn
      BY Shapes
    <3>4. report' \in Dashboard
      BY <3>2, <3>3
    <3> QED
      BY <3>2, <3>4
  <2>9. /\ report'.known \subseteq Accounts'
        /\ \A d : KnownOn(d)' = KnownOn(d)
        /\ \A d : KnownOn(d) \in SUBSET report.known
        /\ report.known \in SUBSET Users
    BY <2>1, <2>8, KnownKept
  <2>10. ASSUME NEW d \in 1..days
         PROVE  Cardinality(KnownOn(d)) <= bars[d]
    <3> DEFINE first == Day(report.now) - days + 1
    <3>1. /\ first \in Int /\ Day(start) = first
          /\ \A t \in Nat : Day(t) >= first => t >= start
      <4>1. report.now \in Nat /\ start = WindowStart(report.now, days)
        BY <2>1, <2>2
      <4>2. /\ first \in Int /\ Day(WindowStart(report.now, days)) = first
            /\ \A t \in Nat : Day(t) >= first => t >= WindowStart(report.now, days)
        BY <2>3, <4>1, ChartStart
      <4> QED
        BY <4>1, <4>2
    <3>2. ASSUME NEW u \in KnownOn(d) PROVE u \in Bar(start, d)
      <4>1. u \in report.known /\ Day(users[u].created) = first + d - 1
        BY <2>2 DEF KnownOn
      <4>2. u \in Accounts
        BY <2>1, <4>1 DEF ChartInv
      <4>3. users[u].created \in Nat
        BY <4>2, TimeFacts DEF Accounts, IInv, UserInv
      <4> HIDE DEF first
      <4>4. Day(users[u].created) >= first
        BY <2>3, <3>1, <4>1
      <4> QED
        BY <3>1, <4>1, <4>2, <4>3, <4>4 DEF Bar, SignedUp
    <3>3. KnownOn(d) \in SUBSET Bar(start, d)
      BY <3>2
    <3>4. bars[d] = Cardinality(Bar(start, d))
      BY <2>2
    <3> QED
      BY <2>4, <3>3, <3>4, UserSets
  <2>11. {KnownOn(d)' : d \in 1..days} = {KnownOn(d) : d \in 1..days}
    BY <2>9
  <2>12. SeriesDays(report.range)' = days
    BY <2>2, <2>8 DEF SeriesDays
  <2>13. Cardinality(UNION {KnownOn(d) : d \in 1..SeriesDays(report.range)})'
           = Cardinality(UNION {KnownOn(d) : d \in 1..days})
    BY <2>11, <2>12
  <2>14. /\ Cardinality(report.known) <= report.figures["total"]
         /\ Cardinality(UNION {KnownOn(d) : d \in 1..days}) <= report.figures["period"]
    BY <2>1, <2>2 DEF ChartInv
  <2>15. \A d \in 1..days : Cardinality(KnownOn(d)') <= report'.bars[d]
    BY <2>8, <2>9, <2>10
  <2> QED
    BY <2>5, <2>8, <2>9, <2>12, <2>13, <2>14, <2>15 DEF ChartInv
<1>7. CASE UNCHANGED vars \/ Tick \/ Visits \/ Toggling
  <2>1. report' = report \/ (report.op = "list" /\ report' = [report EXCEPT !.shrunk = TRUE])
    BY <1>7, ReportSteps
  <2> QED
    BY <1>1, <1>2, <2>1
<1> QED
  BY <1>3, <1>4, <1>5, <1>6, <1>7 DEF Next, Reporting
-----------------------------------------------------------------------------
\* Nothing is reported, or a dashboard, or a list.
ReportInv == report = Nothing \/ report.op \in {"dashboard", "list"}

ReadingInv == TableInv /\ ListInv /\ ChartInv /\ ReportInv

LEMMA ReadingStarts == Init => ReadingInv
<1> SUFFICES ASSUME Init PROVE ReadingInv
  OBVIOUS
<1>1. joined \in Seq(Accounts) /\ Once(joined) /\ ToSet(joined) = Accounts
  <2>1. IsFiniteSet(Accounts)
    BY UserSets DEF Accounts
  <2>2. joined \in SetToSeqs(Accounts)
    BY DEF Init, Accounts
  <2> QED
    BY <2>1, <2>2, Listed
<1>2. joined \in Seq(Users)
  BY <1>1 DEF Accounts
<1>3. PICK S \in SUBSET Notes : feedback \in SetToSeqs(S) /\ unread = S
  BY DEF Init
<1>4. feedback \in Seq(S) /\ Once(feedback) /\ ToSet(feedback) = S
  <2>1. IsFiniteSet(S)
    BY FS_Subset, AdministrationAssumption
  <2> QED
    BY <1>3, <2>1, Listed
<1>5. feedback \in Seq(Notes)
  BY <1>4
<1>6. writes \in 0..MaxWrites /\ raced \in BOOLEAN
  <2>1. MaxWrites \in Nat
    BY AdministrationAssumption
  <2>2. writes = MaxWrites /\ raced = FALSE
    BY DEF Init
  <2>3. writes \in 0..MaxWrites
    BY <2>1, <2>2
  <2>4. raced \in BOOLEAN
    BY <2>2
  <2> QED
    BY <2>3, <2>4
<1>7. TableInv
  BY <1>1, <1>2, <1>3, <1>4, <1>5, <1>6 DEF TableInv
<1>8. report = Nothing /\ report.op = "none"
  BY DEF Init, Nothing
<1> QED
  BY <1>7, <1>8 DEF ReadingInv, ListInv, ChartInv, ReportInv

LEMMA ReadingStep == IInv /\ ReadingInv /\ [Next]_vars => ReadingInv'
<1> SUFFICES ASSUME IInv, ReadingInv, [Next]_vars PROVE ReadingInv'
  OBVIOUS
<1>1. TableInv' /\ ListInv' /\ ChartInv'
  BY TablesGrow, ListsKept, ChartsKept DEF ReadingInv
<1>2. ReportInv'
  <2>1. CASE (\E range \in Ranges : OpenDashboard(range)) \/ ReadFigure \/ ReadSeries
             \/ (\E a \in Admins, kind \in Kinds : BeginList(a, kind)) \/ ReadPage
    BY <2>1, ReportSteps DEF ReportInv
  <2>2. CASE UNCHANGED vars \/ Tick \/ Visits \/ Toggling
    <3>1. CASE report' = report
      BY <3>1 DEF ReadingInv, ReportInv, Nothing
    <3>2. CASE report.op = "list" /\ report' = [report EXCEPT !.shrunk = TRUE]
      <4>1. report \in Reader
        BY <3>2 DEF ReadingInv, ListInv
      <4>2. report'.op = "list"
        BY <3>2, <4>1 DEF Reader
      <4> QED
        BY <4>2 DEF ReportInv
    <3> QED
      BY <2>2, <3>1, <3>2, ReportSteps
  <2> QED
    BY <2>1, <2>2 DEF Next, Reporting
<1> QED
  BY <1>1, <1>2 DEF ReadingInv

LEMMA ReadingInvariance == Spec => [](IInv /\ ReadingInv)
  BY Invariance, ReadingStarts, ReadingStep, PTL DEF Spec

\* Every variable keeps its type: tables, toggles, dashboards and lists, of
\* which no reader turns more pages than there can be rows.
THEOREM TypeCorrect == Spec => []TypeOK
<1>1. IInv /\ ReadingInv => TypeOK
  <2> SUFFICES ASSUME IInv, ReadingInv PROVE TypeOK
    OBVIOUS
  <2>1. report \in Dashboard \cup Reader \cup {Nothing}
    BY DEF ReadingInv, ReportInv, ListInv, ChartInv
  <2>2. ToSet(feedback) \subseteq Notes
    BY DEF ReadingInv, TableInv, ToSet
  <2> QED
    BY <2>1, <2>2 DEF TypeOK, IInv, UserInv, ToggleInv, ReadingInv, TableInv, Accounts
<1> QED
  BY <1>1, ReadingInvariance, PTL

\* A dashboard agrees with itself: the week lies within the month, and the chart
\* misses no account that was there when it was asked for (admin.py:70-108, 156).
THEOREM DashboardsAgree == Spec => []FiguresAgree
<1>1. IInv /\ ReadingInv => ChartComplete
  <2> SUFFICES ASSUME IInv, ReadingInv, report.op = "dashboard", report.pc > Len(Order) + 1
               PROVE  LET days == 1..SeriesDays(report.range)
                      IN  /\ \A d \in days : Cardinality(KnownOn(d)) <= report.bars[d]
                          /\ Cardinality(UNION {KnownOn(d) : d \in days}) <= report.figures["period"]
    BY DEF ChartComplete
  <2>1. report \in Drawn
    BY Shapes DEF ReadingInv, ChartInv
  <2>2. report.pc > 4 /\ report.pc > 5
    <3>1. report.pc \in 1..6
      BY <2>1 DEF Drawn
    <3>2. report.pc > 4 + 1
      BY Shapes
    <3> QED
      BY <3>1, <3>2
  <2> QED
    BY <2>2 DEF ReadingInv, ChartInv
<1>2. Spec => []ChartComplete
  BY <1>1, ReadingInvariance, PTL
<1> QED
  BY <1>2, WeekIsWithinMonth, PTL DEF FiguresAgree

\* A list read page by page misses nothing it held at the start, whatever was
\* added meanwhile, unless an item left it (admin.py:225-229, 376-382).
THEOREM NothingIsSkipped == Spec => []NothingSkipped
<1>1. IInv /\ ReadingInv => NothingSkipped
  <2> SUFFICES ASSUME ReadingInv, report.op = "list", report.pc = "done", ~report.shrunk
               PROVE  report.due \subseteq report.seen
    BY DEF NothingSkipped
  <2>1. \A x \in report.due \ report.seen : report.pc = "reading"
    BY DEF ReadingInv, ListInv
  <2> QED
    BY <2>1
<1> QED
  BY <1>1, ReadingInvariance, PTL
=============================================================================
