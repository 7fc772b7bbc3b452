-------------------------------- MODULE Health --------------------------------
(***************************************************************************)
(* What the admins are told about a shoveler (portal.health): its status   *)
(* and since when, the tracker's blocks and runs, the chart.               *)
(*                                                                         *)
(* A page fixes its own "now" and then reads client_reports in several     *)
(* SELECTs.  Reports arrive in between, each trims the table, the nightly  *)
(* purge runs, and the shoveler may restart, report late or not at all.    *)
(* What a report says of the counters is anything parse_report lets        *)
(* through: either may be missing, and may be lower than before under the  *)
(* same started_at.  `reports` is all that was ever received; the table is *)
(* what is left of it.  A shoveler's reports differ in `at`, which orders  *)
(* them: lists of reports are sets here, rows[k - 1] is the newest before. *)
(* Time is exact; the chart and the tracker's blocks round it to seconds.  *)
(***************************************************************************)
EXTENDS Integers, FiniteSets

CONSTANTS
    Intervals,      \* report intervals a shoveler may run with
    Metrics,        \* what a report may say of received and published
    Second,         \* a second, in units of time
    Missed,         \* MISSED_REPORTS
    StaleAfterMin,  \* STALE_AFTER_MIN
    Window,         \* WINDOW
    EvidenceMin,    \* EVIDENCE_MIN
    Bucket,         \* BUCKET
    BucketsPerHour, \* a row of the hourly table is an hour
    Hours,          \* METRICS_RETENTION_HOURS
    Recent,         \* what the dashboard reads at first: an hour
    MaxTime,        \* bound of the model: the clock stops here
    MaxReports,     \* bound of the model: reports sent
    MaxRestarts,    \* bound of the model: restarts of the shoveler
    MaxOpen,        \* bound of the model: how long a page takes
    Null

VARIABLES
    now,        \* the wall clock
    proc,       \* the running shoveler process
    restarts,   \* history: how often the shoveler restarted
    reports,    \* history: the reports received
    cutoff,     \* from when on the table still has all of them
    page        \* the page being drawn

vars == <<now, proc, restarts, reports, cutoff, page>>

Times == 0 .. MaxTime

Hour == BucketsPerHour * Bucket

Retention == Hours * Hour

Count == Nat \cup {Null}            \* Null: the report does not have it

Process == [started : Times, interval : Intervals]

Row == [at : Times, started : Times, interval : Intervals,
        received : Count, published : Count]

Status == {"no-reports", "not-reporting", "no-packets", "not-publishing", "healthy"}

(* "error" is no status: assess raised, and the page is a 500. *)
Verdict == [status : Status \cup {"error"}, since : Times \cup {Null},
            known : BOOLEAN, got : Int]

Block == 1 .. Hours * BucketsPerHour

Page == [pc      : {"closed", "rows", "buckets", "reread", "drawn"},
         now     : Times,
         span    : {Recent, Retention},     \* the dashboard, a shoveler's page
         latest  : Row \cup {Null},
         rows    : SUBSET Row,
         blocks  : [Block -> Status \cup {"no-data"}],
         health  : Verdict \cup {Null}]

ASSUME ConstantsAssumption ==
    /\ Intervals \subseteq Nat \ {0}
    /\ Metrics \subseteq Count \X Count
    /\ {Second, EvidenceMin, Bucket, BucketsPerHour, Hours} \subseteq Nat \ {0}
    /\ Missed \in Nat \ {0, 1}
    /\ \A i \in Intervals : Second <= i
    /\ {StaleAfterMin, Window, Recent, MaxTime, MaxReports, MaxRestarts, MaxOpen} \subseteq Nat
    /\ EvidenceMin <= Window /\ Window <= Recent /\ Recent <= Retention
    /\ MaxOpen + Window <= Retention
    /\ Null \notin Nat /\ Null \notin Row /\ Null \notin Verdict

TypeOK ==
    /\ now \in Times
    /\ proc \in Process
    /\ restarts \in 0 .. MaxRestarts
    /\ reports \in SUBSET Row
    /\ cutoff \in (0 - Retention) .. MaxTime
    /\ page \in Page

Closed == [pc |-> "closed", now |-> 0, span |-> Recent, latest |-> Null,
           rows |-> {}, blocks |-> [i \in Block |-> "no-data"], health |-> Null]

Start(t, i) == [started |-> t, interval |-> i]

Init ==
    /\ now = 0
    /\ \E i \in Intervals : proc = Start(0, i)
    /\ restarts = 0
    /\ reports = {}
    /\ cutoff = 0 - Retention
    /\ page = Closed

-------------------------------------------------------------------------------
(* Reading reports back. *)

Newest(rows) == CHOOSE r \in rows : \A x \in rows : x.at <= r.at

Oldest(rows) == CHOOSE r \in rows : \A x \in rows : r.at <= x.at

Before(rows, r) == {x \in rows : x.at < r.at}

Prev(rows, r) == Newest(Before(rows, r))

Gap(row) == Missed * row.interval

GrewFromMissing(base, row, c) ==
    IF base[c] = Null \/ row[c] = Null THEN 0
    ELSE IF row[c] < base[c] THEN Null ELSE row[c] - base[c]

(* How much a counter grew; unknown if it was not sent or went down. *)
Grew(base, row, c) ==
    IF base[c] = Null \/ row[c] = Null THEN Null
    ELSE IF row[c] < base[c] THEN Null ELSE row[c] - base[c]

Delta(prev, cur, c) == IF prev.started # cur.started THEN Null ELSE Grew(prev, cur, c)

OwnRowsAtAnyTime(rows, latest, c) ==
    {r \in rows : r.started = latest.started /\ r[c] # Null}

(* Of the same process, and not newer than the report read before them. *)
OwnRows(rows, latest, c) ==
    {r \in rows : r.started = latest.started /\ r[c] # Null /\ r.at <= latest.at}

FromBeforeFirst(first, whole) ==
    [at |-> first.at - first.interval, received |-> first.received, known |-> whole]

FromFirst(first, whole) ==
    [at |-> first.at, received |-> first.received, known |-> whole]

(* When a counter last grew, and the packets received by then.  known is   *)
(* FALSE if it may have happened before the oldest row.                    *)
FlatSince(rows, latest, c) ==
    LET own   == OwnRows(rows, latest, c)
        grown == {r \in own : Before(own, r) # {} /\ Prev(own, r)[c] < r[c]}
        first == IF own = {} THEN latest ELSE Oldest(own)
    IN  CASE grown # {} ->
                 [at |-> Newest(grown).at, received |-> Newest(grown).received, known |-> TRUE]
          [] grown = {} /\ latest[c] = 0 ->
                 [at |-> latest.started, received |-> 0, known |-> TRUE]
          [] OTHER ->
                 FromFirst(first, rows # {} /\ latest.started >= Oldest(rows).at)

-------------------------------------------------------------------------------
(* The status. *)

Plain(status) == [status |-> status, since |-> Null, known |-> TRUE, got |-> 0]

Stale(latest, t) == t - latest.at > StaleAfterMin /\ t - latest.at > Gap(latest)

Zero == [received |-> 0, published |-> 0]

FirstInWindow(latest, rows, t) ==
    LET own == {r \in rows : r.started = latest.started /\ r.at >= t - Window}
    IN  IF own = {} THEN latest ELSE Oldest(own)

BaselineAlwaysZero(latest, rows, t) == [row |-> Zero, since |-> latest.started]

(* What the traffic is judged against: the first report in the window, or  *)
(* the start of the process if it falls within it.                         *)
Baseline(latest, rows, t) ==
    IF latest.started >= t - Window
      THEN [row |-> Zero, since |-> latest.started]
      ELSE [row |-> FirstInWindow(latest, rows, t), since |-> FirstInWindow(latest, rows, t).at]

StoppedSince(status, flat, got) ==
    [status |-> status, since |-> flat.at, known |-> flat.known, got |-> got]

(* What arrived since the row published last grew by is a TypeError if     *)
(* that row lacks packets_received.                                        *)
Unpublished(latest, flat) ==
    IF flat.received = Null THEN Plain("error")
    ELSE StoppedSince("not-publishing", flat, latest.received - flat.received)

Traffic(latest, rows, base) ==
    LET received  == Grew(base.row, latest, "received")
        published == Grew(base.row, latest, "published")
        flat(c)   == FlatSince(rows, latest, c)
    IN  CASE latest.at - base.since < EvidenceMin -> Plain("healthy")
          [] latest.at - base.since >= EvidenceMin /\ received = 0 ->
                 StoppedSince("no-packets", flat("received"), 0)
          [] latest.at - base.since >= EvidenceMin /\ received \notin {0, Null}
               /\ published = 0 -> Unpublished(latest, flat("published"))
          [] OTHER -> Plain("healthy")

Assess(latest, rows, t) ==
    CASE latest = Null -> Plain("no-reports")
      [] latest # Null /\ Stale(latest, t) ->
             [Plain("not-reporting") EXCEPT !.since = latest.at]
      [] OTHER -> Traffic(latest, rows, Baseline(latest, rows, t))

-------------------------------------------------------------------------------
(* The tracker. *)

(* LAG: the rows that add to a SUM, not after a restart or missed reports. *)
Steps(rows, some, c) ==
    {r \in some : /\ Before(rows, r) # {}
                  /\ r.at - Prev(rows, r).at <= Gap(Prev(rows, r))
                  /\ Delta(Prev(rows, r), r, c) # Null}

SumIsZero(rows, some, c) ==
    /\ Steps(rows, some, c) # {}
    /\ \A r \in Steps(rows, some, c) : Delta(Prev(rows, r), r, c) = 0

BucketState(rows, some) ==
    IF SumIsZero(rows, some, "received") THEN "no-packets"
    ELSE IF Steps(rows, some, "received") # {} /\ SumIsZero(rows, some, "published")
      THEN "not-publishing"
    ELSE "healthy"

(* The last report before the tracker begins, if there was none since. *)
SeedForgotten(latest, start) == {}

Seed(latest, start) == IF latest # Null /\ latest.at < start THEN {latest} ELSE {}

(* ROUND: an edge is reached half a second early. *)
AtLeast(r, edge) == 2 * edge <= 2 * r.at + Second

BlockRows(rows, start, i) ==
    {r \in rows : AtLeast(r, start + (i - 1) * Bucket) /\ ~AtLeast(r, start + i * Bucket)}

(* The states of the blocks.  One without reports keeps the state of the   *)
(* newest that had some (or of none) until too many reports are missing.   *)
Blocks(rows, latest, start) ==
    [i \in Block |->
        LET end    == start + i * Bucket
            inside == BlockRows(rows, start, i)
            seen   == {r \in rows : ~AtLeast(r, end)}
            newest == UNION {BlockRows(rows, start, j) :
                               j \in {k \in 1 .. i : Newest(seen) \in BlockRows(rows, start, k)}}
            last   == IF seen = {} THEN Seed(latest, start) ELSE newest
        IN  CASE last = {} -> "no-data"
              [] last # {} /\ inside = {} /\ \A r \in last : end - Newest(last).at > Gap(r) ->
                     "not-reporting"
              [] OTHER -> IF seen = {} THEN "no-data" ELSE BucketState(rows, last)]

(* Consecutive blocks in one state, by the first of them. *)
Runs(blocks, start) ==
    LET starts == {i \in Block : i = 1 \/ blocks[i - 1] # blocks[i]}
        stop   == Hours * BucketsPerHour + 1
        end(i) == CHOOSE e \in starts \cup {stop} :
                      e > i /\ \A k \in starts : k > i => e <= k
    IN  [i \in starts |-> [state |-> blocks[i], start |-> start + (i - 1) * Bucket,
                           end |-> start + (end(i) - 1) * Bucket]]

PinsAnywhere(last, health) == health.since # Null /\ last.state = health.status

(* The onset moves the start of the newest run by one block at most. *)
Pins(last, health) ==
    /\ health.since # Null
    /\ last.state = health.status
    /\ last.start - Bucket <= health.since /\ health.since <= last.start + Bucket

PinOnset(runs, health) ==
    LET last == CHOOSE i \in DOMAIN runs : \A k \in DOMAIN runs : k <= i
    IN  IF ~Pins(runs[last], health) THEN runs
        ELSE [i \in DOMAIN runs |->
                 CASE i = last -> [runs[i] EXCEPT !.start = health.since]
                   [] i # last /\ runs[i].end = runs[last].start ->
                          [runs[i] EXCEPT !.end = health.since]
                   [] OTHER -> runs[i]]

-------------------------------------------------------------------------------
(* The chart: points in whole seconds t, in the order of the times they    *)
(* stand for, each with its report and the one its rates start from.  A    *)
(* point without a report breaks the line after `prev`.                    *)

Whole(t) == t - (t % Second)

Point(at, prev, row) == [at |-> at, t |-> Whole(at), prev |-> prev, row |-> row]

EmptyPoint(at) == Point(at, Null, Null)

BridgesGaps(prev, at) == FALSE

MissedBetween(prev, at) == at - prev.at > Gap(prev)

RatedFrom(rows, r) ==
    IF Before(rows, r) = {} \/ MissedBetween(Prev(rows, r), r.at) THEN Null ELSE Prev(rows, r)

NextAt(rows, r, end) ==
    LET later == {x \in rows : x.at > r.at}
    IN  IF later = {} THEN end ELSE Oldest(later).at

Breaks(rows, end) ==
    {Point(r.at + r.interval, r, Null) : r \in {x \in rows : MissedBetween(x, NextAt(rows, x, end))}}

Series(rows, start, end) ==
    LET drawn == {Point(r.at, RatedFrom(rows, r), r) : r \in rows} \cup Breaks(rows, end)
        begun == IF \E p \in drawn : p.t <= start THEN drawn ELSE drawn \cup {EmptyPoint(start)}
    IN  IF \E p \in begun : p.t >= Whole(end) THEN begun ELSE begun \cup {EmptyPoint(end)}

(* The chart as a table: the reports whose packets an hour adds up. *)
Hourly(rows, start, h) ==
    Steps(rows, {r \in rows : start + (h - 1) * Hour <= r.at /\ r.at < start + h * Hour},
          "received")

-------------------------------------------------------------------------------
(* The shoveler. *)

Pending == page.pc \in {"rows", "buckets", "reread"}

Receive(received, published) ==
    [at |-> now, started |-> proc.started, interval |-> proc.interval,
     received |-> received, published |-> published]

(* POST /report: what it says is stored, the old rows are trimmed. *)
Report(received, published) ==
    /\ Cardinality(reports) < MaxReports /\ page.pc # "drawn"
    /\ \A r \in reports : r.at < now         \* (client_id, received_at) is the key
    /\ reports' = reports \cup {Receive(received, published)}
    /\ cutoff' = now - Retention
    /\ UNCHANGED <<now, proc, restarts, page>>

Restart(i) ==
    /\ proc.started < now /\ restarts < MaxRestarts
    /\ page.pc # "drawn"
    /\ proc' = Start(now, i)
    /\ restarts' = restarts + 1
    /\ UNCHANGED <<now, reports, cutoff, page>>

Tick ==
    /\ now < MaxTime
    /\ Pending => now < page.now + MaxOpen
    /\ page.pc # "drawn"
    /\ now' = now + 1
    /\ UNCHANGED <<proc, restarts, reports, cutoff, page>>

-------------------------------------------------------------------------------
(* The table, and the page, SELECT by SELECT. *)

Table == {r \in reports : r.at >= cutoff \/ r = Newest(reports)}

(* The nightly job trims the table too, but spares the latest report. *)
PurgeReports ==
    /\ page.pc # "drawn"
    /\ \E r \in Table : r # Newest(reports) /\ r.at < now - Retention
    /\ cutoff' = now - Retention
    /\ UNCHANGED <<now, proc, restarts, reports, page>>

Since(t) == {r \in Table : r.at >= t}

Start24h == page.now - Retention

OpenPage(span) ==
    /\ page.pc = "closed"
    /\ page' = [Closed EXCEPT !.pc = "rows", !.now = now, !.span = span,
                              !.latest = IF Table = {} THEN Null ELSE Newest(Table)]
    /\ UNCHANGED <<now, proc, restarts, reports, cutoff>>

ReadRows ==
    /\ page.pc = "rows"
    /\ page' = [page EXCEPT !.pc = "buckets", !.rows = Since(page.now - page.span)]
    /\ UNCHANGED <<now, proc, restarts, reports, cutoff>>

ReadBuckets ==
    /\ page.pc = "buckets"
    /\ page' = [page EXCEPT !.pc = "reread",
                            !.blocks = Blocks(Since(Start24h), page.latest, Start24h)]
    /\ UNCHANGED <<now, proc, restarts, reports, cutoff>>

PredatesStrictly(health) ==
    /\ health.status \in {"no-packets", "not-publishing"}
    /\ page.rows # {}
    /\ health.since < Oldest(page.rows).at

Predates(health) ==
    /\ health.status \in {"no-packets", "not-publishing"}
    /\ page.rows # {}
    /\ health.since <= Oldest(page.rows).at

(* The dashboard dates a problem older than its rows from all reports. *)
Draw ==
    /\ page.pc = "reread"
    /\ LET first == Assess(page.latest, page.rows, page.now)
           rows  == IF page.span = Recent /\ Predates(first)
                      THEN Since(page.now - Retention) ELSE page.rows
       IN  page' = [page EXCEPT !.pc = "drawn", !.rows = rows,
                                !.health = Assess(page.latest, rows, page.now)]
    /\ UNCHANGED <<now, proc, restarts, reports, cutoff>>

ClosePage ==
    /\ page.pc = "drawn"
    /\ page' = Closed
    /\ UNCHANGED <<now, proc, restarts, reports, cutoff>>

Next ==
    \/ \E m \in Metrics : Report(m[1], m[2])
    \/ \E i \in Intervals : Restart(i)
    \/ Tick
    \/ PurgeReports
    \/ \E span \in {Recent, Retention} : OpenPage(span)
    \/ ReadRows
    \/ ReadBuckets
    \/ Draw
    \/ ClosePage

Spec == Init /\ [][Next]_vars

-------------------------------------------------------------------------------
(* What the pages say, against all that was ever received. *)

Drawn == page.pc = "drawn"

Alarm == Drawn /\ page.health.status \in {"no-packets", "not-publishing"}

Counter == IF page.health.status = "no-packets" THEN "received" ELSE "published"

(* The reports of the process that sent the latest one, up to that one.    *)
Own == {r \in reports : r.started = page.latest.started /\ r.at <= page.latest.at}

Counted(c) == {r \in Own : r[c] # Null}

(* Those by which the counter had grown, the first one from 0. *)
Gained(c) ==
    {r \in Counted(c) :
        r[c] > (IF Before(Counted(c), r) = {} THEN 0 ELSE Prev(Counted(c), r)[c])}

Fell(c, t) == \E r, x \in Counted(c) : t <= r.at /\ r.at < x.at /\ x[c] < r[c]

(* "No packets received since 13:26": exactly the last report by which the *)
(* counter had grown, or else the start of the process; and so many        *)
(* packets have arrived since.  Only of a counter that is back at 0 may    *)
(* the start be told although it had grown, if no report kept shows it.    *)
(* "Since before 13:26": it had not grown since, and no two reports still  *)
(* kept show when, unless the dashboard's oldest row lacks the counter (it *)
(* then looks no further back).                                            *)
OnsetExact ==
    Alarm =>
        LET latest == page.latest
            health == page.health
            gained == Gained(Counter)
            Kept   == {r \in Counted(Counter) \cap Table : Start24h <= r.at}
            Shown  == {r \in gained : \E x \in Kept : x.at < r.at}
            Told(at, received) ==
                /\ health.since = at
                /\ Counter = "published" =>
                       received # Null /\ health.got = latest.received - received
        IN  IF health.known
              THEN \/ gained # {} /\ Told(Newest(gained).at, Newest(gained).received)
                   \/ Shown = {} /\ latest[Counter] = 0 /\ Told(latest.started, 0)
              ELSE /\ \A r \in gained : r.at <= health.since
                   /\ \/ Shown = {}
                      \/ page.span = Recent /\ Oldest(page.rows)[Counter] = Null

(* README: "Traffic checks wait until a process has run for 5 minutes."    *)
(* An alarm rests on that much of standstill, and "though packets arrived" *)
(* is said when some did, unless a counter fell within the process.        *)
AlarmHasEvidence ==
    Alarm =>
        LET latest == page.latest
            Reset  == Fell(Counter, page.now - Window)
        IN  /\ latest.started <= latest.at - EvidenceMin
            /\ ~Reset => \A r \in Counted(Counter) :
                             r.at >= latest.at - EvidenceMin => r[Counter] = latest[Counter]
            /\ (page.health.status = "not-publishing" /\ ~Reset
                 /\ ~Fell("received", page.health.since)) => page.health.got > 0

(* The same without its exception, of every page.  health.py: "A restart   *)
(* (a new started_at, or a counter going down) ... breaks the line", and   *)
(* db.py: "a report may omit any of them (NULL)".                          *)
PacketsArrived ==
    /\ Drawn => page.health.status # "error"
    /\ (Drawn /\ page.health.status = "not-publishing") => page.health.got > 0

(* A process that has run for EvidenceMin, reported on time over all of    *)
(* the window and received nothing in it is shown as "no packets", if      *)
(* its interval leaves the window room for the evidence.                   *)
SilentFlagged ==
    Drawn /\ page.latest # Null =>
        LET latest == page.latest
            begin  == IF latest.started >= page.now - Window THEN latest.started
                      ELSE page.now - Window
            seen   == {r \in Own : r.at >= begin}
            OnTime == /\ 2 * latest.interval <= Window - EvidenceMin
                      /\ \A t \in begin .. page.now - latest.interval :
                             \E r \in seen : t <= r.at /\ r.at <= t + latest.interval
            Silent == latest.received # Null /\
                      \A r \in seen : /\ r.received = latest.received
                                      /\ latest.started >= page.now - Window => r.received = 0
        IN  (OnTime /\ Silent /\ latest.at - latest.started >= EvidenceMin
               /\ ~Stale(latest, page.now))
                => page.health.status = "no-packets"

(* A block says "not reporting" only when the last report before its end,  *)
(* to the second, is more than Missed intervals older than that.  It says  *)
(* "no reports yet" of a shoveler last heard longer ago than that only if  *)
(* that report is among the first in the window and a new one came in, and *)
(* trimmed it, while the page was drawn.                                   *)
BlocksHonest ==
    Drawn =>
        \A i \in Block :
            LET end == Start24h + i * Bucket
                before == {r \in reports : ~AtLeast(r, end)}
            IN  /\ page.blocks[i] = "not-reporting" =>
                       before # {} /\ end - Newest(before).at > Gap(Newest(before))
                /\ (page.blocks[i] = "no-data" /\ page.latest # Null
                     /\ end - page.latest.at > Gap(page.latest))
                       => /\ Start24h <= page.latest.at /\ page.latest.at < Start24h + MaxOpen
                          /\ \E r \in reports : r.at >= page.now

(* The tracker's history has no hole, no overlap and no negative length,   *)
(* also after the newest run was moved to the exact onset.                 *)
RunsCover ==
    Drawn =>
        LET runs == PinOnset(Runs(page.blocks, Start24h), page.health)
            Follows(i, k) == i < k /\ \A m \in DOMAIN runs : m <= i \/ k <= m
        IN  /\ runs[1].start \in {Start24h, page.health.since}
            /\ \A i \in DOMAIN runs :
                   /\ runs[i].start <= runs[i].end
                   /\ \/ \E k \in DOMAIN runs : Follows(i, k) /\ runs[k].start = runs[i].end
                      \/ runs[i].end = page.now /\ \A m \in DOMAIN runs : m <= i

(* The chart spans the window, and only two reports can share a second: no *)
(* break, start or end falls into that of another point, and a break comes *)
(* before the next report.  A rate is drawn only between a process's       *)
(* consecutive reports, and never across missed ones; the hourly table     *)
(* adds up just what the chart draws.                                      *)
ChartTrue ==
    Drawn /\ page.span = Retention =>
        LET points == Series(page.rows, Start24h, page.now)
            rated  == {p \in points : /\ p.row # Null /\ p.prev # Null
                                      /\ Delta(p.prev, p.row, "received") # Null}
        IN  /\ \E p \in points : p.t <= Start24h
            /\ \E p \in points : p.t >= Whole(page.now)
            /\ \A p, q \in points : p.at = q.at => p = q
            /\ \A p, q \in points : p.t = q.t => p = q \/ Null \notin {p.row, q.row}
            /\ \A p \in points, r \in page.rows :
                   p.row = Null /\ p.prev # Null =>
                       p.prev.at < p.at /\ (r.at <= p.prev.at \/ p.at < r.at)
            /\ \A p \in rated :
                   /\ \A q \in points : q.at <= p.prev.at \/ p.at <= q.at
                   /\ p.prev.started = p.row.started
                   /\ p.at - p.prev.at <= Gap(p.prev)
            /\ \A g, h \in 1 .. Hours : g # h =>
                   Hourly(page.rows, Start24h, g) \cap Hourly(page.rows, Start24h, h) = {}
            /\ UNION {Hourly(page.rows, Start24h, h) : h \in 1 .. Hours}
                   = {p.row : p \in {q \in rated : q.at < page.now}}
===============================================================================
