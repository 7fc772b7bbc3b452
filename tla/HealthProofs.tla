------------------------------ MODULE HealthProofs ----------------------------
(***************************************************************************)
(* Everything Health says of a drawn page, proved for every value of the   *)
(* constants.                                                              *)
(*                                                                         *)
(* HealthInv is inductive.  HistoryInv orders what was received: processes *)
(* do not overlap and times differ, but the counters are free.  Opened and *)
(* RowsRead relate what a page has read to all of that: its rows have no   *)
(* gap up to the latest report (Reading), and reach as far back as the     *)
(* table did when they were read (Covers).  Judged and BlocksRead keep     *)
(* what verdict and blocks were made from.  The theorems at the end then   *)
(* follow from HealthInv alone, by what the operators of Health compute.   *)
(***************************************************************************)
EXTENDS Health, TLAPS, WellFoundedInduction

(* The reports received are in the order of the processes.                 *)
HistoryInv ==
    /\ proc.started <= now /\ cutoff <= now - Retention
    /\ \A r \in reports :
           /\ r.started <= r.at /\ r.at <= now /\ r.started <= proc.started
           /\ r.started # proc.started => r.at <= proc.started
    /\ \A r, x \in reports :
           /\ r.at = x.at => r = x
           /\ r.at < x.at => r.started <= x.started
           /\ r.started < x.started => r.at <= x.started

-------------------------------------------------------------------------------
(* The products the model's constants make.                                *)
LEMMA Lengths == Hour \in Nat \ {0} /\ Retention \in Nat \ {0}
<1>1. /\ Bucket \in Nat /\ BucketsPerHour \in Nat /\ Hours \in Nat
      /\ Bucket > 0 /\ BucketsPerHour > 0 /\ Hours > 0
  BY ConstantsAssumption DEF ConstantsAssumption
<1>2. \A i, k \in Nat : i > 0 /\ k > 0 => i * k \in Nat /\ i * k > 0
  OBVIOUS
<1>3. Hour \in Nat /\ Hour > 0
  BY <1>1, <1>2 DEF Hour
<1>4. QED
  BY <1>1, <1>2, <1>3 DEF Retention

(* A set of numbers has a smallest.                                        *)
LEMMA Smallest ==
    ASSUME NEW S, S \subseteq Nat, S # {}
    PROVE  \E m \in S : \A x \in S : m <= x
<1>1. \E m \in S : \A x \in S : <<x, m>> \notin OpToRel(<, Nat)
  BY WFMin, NatLessThanWellFounded
<1>2. PICK m \in S : \A x \in S : ~(x < m)
  BY <1>1 DEF OpToRel
<1>3. QED
  BY <1>2

(* Rows have an oldest and a newest.                                       *)
LEMMA OldestOf ==
    ASSUME NEW rows, rows \subseteq Row, rows # {}
    PROVE  Oldest(rows) \in rows /\ \A x \in rows : Oldest(rows).at <= x.at
<1> DEFINE Ages == {x.at : x \in rows}
<1>1. \A x \in rows : x.at \in Nat
  BY DEF Row, Times
<1>2. Ages \subseteq Nat /\ Ages # {}
  BY <1>1
<1>3. PICK m \in Ages : \A a \in Ages : m <= a
  BY <1>2, Smallest
<1>4. PICK r \in rows : r.at = m
  BY <1>3
<1>5. \A x \in rows : r.at <= x.at
  BY <1>3, <1>4
<1>6. QED
  BY <1>5 DEF Oldest

LEMMA NewestOf ==
    ASSUME NEW rows, rows \subseteq Row, rows # {}
    PROVE  Newest(rows) \in rows /\ \A x \in rows : x.at <= Newest(rows).at
<1> DEFINE Ages == {MaxTime - x.at : x \in rows}
<1>1. \A x \in rows : x.at \in 0 .. MaxTime
  BY DEF Row, Times
<1>2. Ages \subseteq Nat /\ Ages # {}
  BY <1>1, ConstantsAssumption DEF ConstantsAssumption
<1>3. PICK m \in Ages : \A a \in Ages : m <= a
  BY <1>2, Smallest
<1>4. PICK r \in rows : MaxTime - r.at = m
  BY <1>3
<1>5. \A x \in rows : x.at <= r.at
  <2> TAKE x \in rows
  <2>1. MaxTime - r.at <= MaxTime - x.at
    BY <1>3, <1>4
  <2>2. QED
    BY <1>1, <2>1, ConstantsAssumption DEF ConstantsAssumption
<1>6. QED
  BY <1>5 DEF Newest

-------------------------------------------------------------------------------
(* A new report comes last, with any counters.                             *)
LEMMA ReportTypes ==
    ASSUME TypeOK, NEW m \in Metrics, Report(m[1], m[2])
    PROVE  Receive(m[1], m[2]) \in Row /\ reports' \in SUBSET Row
<1>1. m[1] \in Count /\ m[2] \in Count
  BY ConstantsAssumption DEF ConstantsAssumption
<1>2. proc.started \in Times /\ proc.interval \in Intervals /\ now \in Times
  BY DEF TypeOK, Process
<1>3. Receive(m[1], m[2]) \in Row
  BY <1>1, <1>2 DEF Receive, Row
<1>4. QED
  BY <1>3 DEF Report, TypeOK

(* The order of history is kept.                                           *)
LEMMA HistoryReport ==
    ASSUME TypeOK, HistoryInv, NEW m \in Metrics, Report(m[1], m[2])
    PROVE  HistoryInv'
<1> DEFINE row == Receive(m[1], m[2])
<1>1. row \in Row
  BY ReportTypes
<1>2. /\ reports' = reports \cup {row} /\ now' = now /\ cutoff' = now - Retention
      /\ proc' = proc
      /\ \A r \in reports : r.at < now
  BY DEF Report
<1>3. row.at = now /\ row.started = proc.started /\ proc.started <= now
      /\ now \in Nat /\ proc.started \in Nat
  BY DEF Receive, HistoryInv, TypeOK, Process, Times
<1>4. \A r \in reports : r \in Row /\ r.at \in Nat /\ r.started \in Nat
  BY DEF TypeOK, Row, Times
<1> HIDE DEF row
<1>5. ASSUME NEW r \in reports'
      PROVE  /\ r.started <= r.at /\ r.at <= now /\ r.started <= proc.started
             /\ r.started # proc.started => r.at <= proc.started
  BY <1>2, <1>3 DEF HistoryInv
<1>6. ASSUME NEW r \in reports', NEW x \in reports'
      PROVE  /\ r.at = x.at => r = x
             /\ r.at < x.at => r.started <= x.started
             /\ r.started < x.started => r.at <= x.started
  <2>1. CASE r \in reports /\ x \in reports
    BY <2>1 DEF HistoryInv
  <2>2. CASE r = row /\ x = row
    BY <1>3, <2>2
  <2>3. CASE r \in reports /\ x = row
    BY <1>2, <1>3, <1>4, <2>3 DEF HistoryInv
  <2>4. CASE r = row /\ x \in reports
    <3>1. x.at < r.at /\ x.started <= r.started
      BY <1>2, <1>3, <2>4 DEF HistoryInv
    <3>2. /\ r.at \in Nat /\ x.at \in Nat /\ r.started \in Nat
          /\ x.started \in Nat
      BY <1>3, <1>4, <2>4
    <3>3. QED
      BY <3>1, <3>2
  <2>5. QED
    BY <1>2, <2>1, <2>2, <2>3, <2>4
<1>7. QED
  BY <1>2, <1>3, <1>5, <1>6, Lengths DEF HistoryInv

LEMMA HistoryStep ==
    ASSUME TypeOK, HistoryInv, [Next]_vars
    PROVE  HistoryInv'
<1>1. ASSUME NEW m \in Metrics, Report(m[1], m[2]) PROVE HistoryInv'
  BY <1>1, HistoryReport
<1>2. ASSUME NEW i \in Intervals, Restart(i) PROVE HistoryInv'
  <2>1. /\ reports' = reports /\ now' = now /\ cutoff' = cutoff /\ proc'.started = now
        /\ proc.started < now
    BY <1>2 DEF Restart, Start
  <2>2. now \in Nat /\ proc.started \in Nat /\ \A r \in reports : r.started \in Nat /\ r.at \in Nat
    BY DEF TypeOK, Process, Row, Times
  <2>3. ASSUME NEW r \in reports
        PROVE  /\ r.started <= r.at /\ r.at <= now /\ r.started <= now
               /\ r.started # now
    BY <2>1, <2>2 DEF HistoryInv
  <2>4. QED
    BY <2>1, <2>2, <2>3 DEF HistoryInv
<1>3. CASE Tick
  <2>1. /\ reports' = reports /\ now' = now + 1 /\ cutoff' = cutoff /\ proc' = proc
    BY <1>3 DEF Tick
  <2>2. /\ now \in Nat /\ proc.started \in Nat /\ cutoff \in Int /\ Retention \in Nat
        /\ \A r \in reports : r.at \in Nat
    BY Lengths DEF TypeOK, Process, Row, Times
  <2>3. proc'.started <= now' /\ cutoff' <= now' - Retention
    BY <2>1, <2>2 DEF HistoryInv
  <2>4. ASSUME NEW r \in reports
        PROVE  /\ r.started <= r.at /\ r.at <= now' /\ r.started <= proc'.started
               /\ r.started # proc'.started => r.at <= proc'.started
    BY <2>1, <2>2 DEF HistoryInv
  <2>5. QED
    BY <2>1, <2>3, <2>4 DEF HistoryInv
<1>4. CASE PurgeReports
  <2>1. now \in Nat /\ Retention \in Nat
    BY Lengths DEF TypeOK, Times
  <2>2. QED
    BY <1>4, <2>1 DEF PurgeReports, HistoryInv
<1>5. CASE UNCHANGED <<now, proc, restarts, reports, cutoff>>
  BY <1>5 DEF HistoryInv
<1>6. QED
  BY <1>1, <1>2, <1>3, <1>4, <1>5
     DEF Next, OpenPage, ReadRows, ReadBuckets, Draw, ClosePage, vars

LEMMA HistoryInit == Init => HistoryInv
BY Lengths DEF Init, HistoryInv, Start

-------------------------------------------------------------------------------
(* The reports of a report's process, up to that one, those that have a    *)
(* counter, and those by which it had grown.                               *)
OwnOf(latest) == {r \in reports : r.started = latest.started /\ r.at <= latest.at}

CountedOf(latest, c) == {r \in OwnOf(latest) : r[c] # Null}

GainedOf(latest, c) ==
    {r \in CountedOf(latest, c) :
        r[c] > (IF Before(CountedOf(latest, c), r) = {} THEN 0
                ELSE Prev(CountedOf(latest, c), r)[c])}

Counters == {"received", "published"}

(* What a page that was opened at t with this latest report has read.      *)
Reading(rows, latest, t) ==
    /\ rows \subseteq reports
    /\ \A p \in rows, x \in reports : p.at <= x.at /\ x.at <= latest.at => x \in rows
    /\ \A x \in reports : t - Window <= x.at /\ x.at <= latest.at => x \in rows

LEMMA CountedTypes ==
    ASSUME TypeOK, HistoryInv, NEW latest \in reports, NEW c \in Counters
    PROVE  /\ CountedOf(latest, c) \subseteq OwnOf(latest) /\ OwnOf(latest) \subseteq reports
           /\ CountedOf(latest, c) \subseteq Row
           /\ \A r \in OwnOf(latest) :
                  /\ r \in Row /\ r.at \in Nat /\ r.at \in Times /\ r.received \in Count
                  /\ r.started = latest.started /\ r.started <= r.at /\ r.at <= latest.at
           /\ \A r \in CountedOf(latest, c) : r[c] \in Nat
           /\ \A r, x \in OwnOf(latest) : r.at = x.at => r = x
           /\ latest.started \in Times /\ latest.started \in Nat
           /\ latest[c] # Null => latest \in CountedOf(latest, c)
<1>1. reports \subseteq Row /\ \A r \in Row : r.at \in Nat /\ r.at \in Times /\ r.started \in Times
                                              /\ r.started \in Nat /\ r.received \in Count
  BY DEF TypeOK, Row, Times
<1>2. \A r \in Row : r[c] \in Count
  BY DEF Row, Counters
<1>3. \A r \in Row : r[c] # Null => r[c] \in Nat
  BY <1>2 DEF Count
<1>4. OwnOf(latest) \subseteq reports /\ CountedOf(latest, c) \subseteq OwnOf(latest)
      /\ CountedOf(latest, c) \subseteq Row
  BY <1>1 DEF OwnOf, CountedOf
<1>5. \A r \in OwnOf(latest) : r.started = latest.started /\ r.started <= r.at /\ r.at <= latest.at
  BY <1>4 DEF OwnOf, HistoryInv
<1>6. \A r, x \in OwnOf(latest) : r.at = x.at => r = x
  BY <1>4 DEF HistoryInv
<1>7. \A r \in CountedOf(latest, c) : r[c] \in Nat
  BY <1>3, <1>4 DEF CountedOf
<1>8. latest[c] # Null => latest \in CountedOf(latest, c)
  BY <1>1 DEF CountedOf, OwnOf
<1>9. QED
  BY <1>1, <1>4, <1>5, <1>6, <1>7, <1>8

(* The rows of the process that are looked at.                             *)
LEMMA OwnRowsAre ==
    ASSUME NEW latest, NEW c, NEW rows \in SUBSET reports
    PROVE  OwnRows(rows, latest, c) = CountedOf(latest, c) \cap rows
BY DEF OwnRows, CountedOf, OwnOf

(* The reports among some, before which the counter grew.                  *)
GrownIn(own, c) == {r \in own : Before(own, r) # {} /\ Prev(own, r)[c] < r[c]}

(* What was read has no gap: a growth within it is one of the process, and *)
(* the other way round.                                                    *)
LEMMA GrownIsGained ==
    ASSUME TypeOK, HistoryInv, NEW latest \in reports, NEW c \in Counters,
           NEW rows, NEW t, Reading(rows, latest, t),
           NEW x \in CountedOf(latest, c) \cap rows,
           NEW r \in CountedOf(latest, c), x.at < r.at
    PROVE  /\ r \in rows
           /\ r \in GrownIn(CountedOf(latest, c) \cap rows, c) <=> r \in GainedOf(latest, c)
<1> DEFINE all == CountedOf(latest, c)
           own == all \cap rows
           p == Prev(own, r)
           q == Prev(all, r)
<1>1. /\ all \subseteq Row /\ all \subseteq reports /\ own \subseteq Row
      /\ \A y \in all : y.at \in Nat /\ y[c] \in Nat /\ y.at <= latest.at
      /\ \A y, z \in all : y.at = z.at => y = z
  BY CountedTypes
<1>2. r \in rows
  BY <1>1 DEF Reading
<1>3. x \in Before(own, r) /\ x \in Before(all, r)
  BY DEF Before
<1>4. p \in Before(own, r) /\ \A y \in Before(own, r) : y.at <= p.at
  BY <1>1, <1>3, NewestOf DEF Prev, Before
<1>5. q \in Before(all, r) /\ \A y \in Before(all, r) : y.at <= q.at
  BY <1>1, <1>3, NewestOf DEF Prev, Before
<1> HIDE DEF p, q
<1>6. p \in own /\ p.at < r.at /\ q \in all /\ q.at < r.at /\ x.at <= q.at
  BY <1>3, <1>4, <1>5 DEF Before
<1>7. q \in rows
  BY <1>1, <1>6 DEF Reading
<1>8. q \in Before(own, r) /\ p \in Before(all, r)
  BY <1>6, <1>7 DEF Before
<1>9. q.at <= p.at /\ p.at <= q.at
  BY <1>4, <1>5, <1>8
<1>10. q = p
  BY <1>1, <1>6, <1>9
<1>11. r \in GrownIn(own, c) <=> p[c] < r[c]
  BY <1>2, <1>3 DEF GrownIn, p
<1>12. r \in GainedOf(latest, c) <=> r[c] > q[c]
  BY <1>3 DEF GainedOf, q
<1>13. p[c] \in Nat /\ r[c] \in Nat
  BY <1>1, <1>6
<1>14. QED
  BY <1>2, <1>10, <1>11, <1>12, <1>13

(* Where it did not grow it is at most what it was at first.               *)
LEMMA NoGrowth ==
    ASSUME TypeOK, HistoryInv, NEW latest \in reports, NEW c \in Counters,
           NEW own \in SUBSET CountedOf(latest, c), GrownIn(own, c) = {},
           NEW d \in own, \A y \in own : d.at <= y.at,
           NEW x \in own
    PROVE  x[c] <= d[c]
<1> DEFINE bad == {y \in own : d[c] < y[c]}
<1>1. /\ own \subseteq Row
      /\ \A r \in own : r.at \in Nat /\ r[c] \in Nat
      /\ \A r, y \in own : r.at = y.at => r = y
  BY CountedTypes
<1>2. SUFFICES ASSUME bad # {} PROVE FALSE
  BY <1>1, <1>2
<1> DEFINE b == Oldest(bad)
           q == Prev(own, b)
<1>3. b \in bad /\ \A y \in bad : b.at <= y.at
  BY <1>1, <1>2, OldestOf
<1> HIDE DEF b
<1>4. b \in own /\ d[c] < b[c] /\ d.at <= b.at
  BY <1>3
<1>5. b # d /\ d.at < b.at
  BY <1>1, <1>4
<1>6. d \in Before(own, b)
  BY <1>5 DEF Before
<1>7. q \in Before(own, b)
  BY <1>1, <1>6, NewestOf DEF Prev, Before
<1> HIDE DEF q
<1>8. q \in own /\ q.at < b.at
  BY <1>7 DEF Before
<1>9. ~(d[c] < q[c])
  BY <1>1, <1>3, <1>4, <1>8
<1>10. q[c] < b[c]
  BY <1>1, <1>4, <1>8, <1>9
<1>11. b \in GrownIn(own, c)
  BY <1>4, <1>6, <1>10 DEF GrownIn, q
<1>12. QED
  BY <1>11

(* What _flat_since says: the last growth; the start of the process, of a  *)
(* counter that is 0; or the oldest row with the counter, if the process   *)
(* is older than the rows.  In the latter two no row shows a growth.       *)
NoneGrown(rows, latest, c) ==
    \A r \in GainedOf(latest, c), x \in CountedOf(latest, c) \cap rows : ~(x.at < r.at)

Dates(flat, r) == flat.at = r.at /\ flat.received = r.received

FlatIs(flat, rows, latest, c) ==
    /\ flat.at \in Times /\ flat.received \in Count /\ flat.known \in BOOLEAN
    /\ \/ /\ flat.known /\ GainedOf(latest, c) # {}
          /\ Dates(flat, Newest(GainedOf(latest, c)))
       \/ /\ flat.known /\ latest[c] = 0 /\ NoneGrown(rows, latest, c)
          /\ flat.at = latest.started /\ flat.received = 0
       \/ /\ ~flat.known /\ latest[c] # 0 /\ NoneGrown(rows, latest, c)
          /\ latest.started < Oldest(rows).at
          /\ \E d \in CountedOf(latest, c) \cap rows :
                 /\ Dates(flat, d)
                 /\ \A x \in CountedOf(latest, c) \cap rows : d.at <= x.at

(* The newest growth among the rows is the newest of all.                  *)
LEMMA FlatGrown ==
    ASSUME TypeOK, HistoryInv, NEW latest \in reports, NEW c \in Counters,
           NEW rows, NEW t, Reading(rows, latest, t),
           GrownIn(CountedOf(latest, c) \cap rows, c) # {}
    PROVE  /\ GainedOf(latest, c) # {}
           /\ Newest(GrownIn(CountedOf(latest, c) \cap rows, c)) = Newest(GainedOf(latest, c))
<1> DEFINE all == CountedOf(latest, c)
           own == all \cap rows
           grown == GrownIn(own, c)
           gained == GainedOf(latest, c)
           last == Newest(grown)
<1>1. /\ all \subseteq Row /\ \A y \in all : y.at \in Nat
      /\ \A y, z \in all : y.at = z.at => y = z
      /\ grown \subseteq own /\ gained \subseteq all
  BY CountedTypes DEF GrownIn, GainedOf
<1>2. last \in grown /\ \A r \in grown : r.at <= last.at
  BY <1>1, NewestOf
<1> HIDE DEF last
<1>3. last \in own /\ Before(own, last) # {}
  BY <1>2 DEF GrownIn
<1>4. PICK x \in own : x.at < last.at
  BY <1>3 DEF Before
<1>5. last \in gained
  BY <1>2, <1>3, <1>4, GrownIsGained
<1>6. ASSUME NEW g \in gained PROVE g.at <= last.at
  <2>1. SUFFICES ASSUME last.at < g.at PROVE FALSE
    BY <1>1, <1>3, <2>1
  <2>2. g \in grown
    BY <1>1, <1>3, <2>1, GrownIsGained
  <2>3. QED
    BY <1>1, <1>2, <1>3, <2>1, <2>2
<1>7. Newest(gained) \in gained /\ last.at <= Newest(gained).at
  BY <1>1, <1>5, NewestOf
<1> HIDE DEF gained
<1>8. Newest(gained) = last
  <2>1. Newest(gained).at <= last.at /\ Newest(gained) \in all /\ last \in all
    BY <1>1, <1>3, <1>6, <1>7
  <2>2. QED
    BY <1>1, <1>7, <2>1
<1>9. QED
  BY <1>5, <1>8 DEF last, gained

LEMMA FlatExact ==
    ASSUME TypeOK, HistoryInv, NEW latest \in reports, NEW c \in Counters, latest[c] # Null,
           NEW rows, NEW t, Reading(rows, latest, t), latest \in rows
    PROVE  FlatIs(FlatSince(rows, latest, c), rows, latest, c)
<1> DEFINE all == CountedOf(latest, c)
           own == all \cap rows
           grown == GrownIn(own, c)
           gained == GainedOf(latest, c)
           start == Oldest(own)
           flat == FlatSince(rows, latest, c)
           whole == rows # {} /\ latest.started >= Oldest(rows).at
<1>1. /\ all \subseteq Row /\ all \subseteq OwnOf(latest) /\ OwnOf(latest) \subseteq reports
      /\ \A y \in all : /\ y.at \in Nat /\ y.at \in Times /\ y[c] \in Nat /\ y.received \in Count
                        /\ y.started = latest.started /\ y.started <= y.at /\ y.at <= latest.at
      /\ \A y, z \in all : y.at = z.at => y = z
      /\ latest.started \in Times /\ latest.started \in Nat /\ latest \in own
  BY CountedTypes
<1>2. /\ rows \subseteq Row /\ rows # {} /\ OwnRows(rows, latest, c) = own /\ own \subseteq Row
  BY <1>1, OwnRowsAre DEF Reading, TypeOK
<1>3. /\ grown # {} =>
             flat = [at |-> Newest(grown).at, received |-> Newest(grown).received, known |-> TRUE]
      /\ grown = {} /\ latest[c] = 0 =>
             flat = [at |-> latest.started, received |-> 0, known |-> TRUE]
      /\ grown = {} /\ latest[c] # 0 =>
             flat = [at |-> start.at, received |-> start.received, known |-> whole]
  <2>1. own # {}
    BY <1>1
  <2>2. QED
    BY <1>2, <2>1 DEF FlatSince, FromFirst, GrownIn
<1>4. \A x : FlatIs([at |-> x.at, received |-> x.received, known |-> x.known], rows, latest, c)
                => FlatIs(x, rows, latest, c)
  BY DEF FlatIs, Dates
<1>5. gained \subseteq all
  BY DEF GainedOf
<1> HIDE DEF flat
<1>6. CASE grown # {}
  <2>1. gained # {} /\ Newest(grown) = Newest(gained)
    BY <1>6, FlatGrown
  <2>2. Newest(gained) \in all
    BY <1>1, <1>5, <2>1, NewestOf
  <2>3. /\ flat.at = Newest(gained).at /\ flat.received = Newest(gained).received
        /\ flat.known = TRUE
    BY <1>3, <1>6, <2>1
  <2>4. Newest(gained).at \in Times /\ Newest(gained).received \in Count
    BY <1>1, <2>2
  <2> HIDE DEF gained
  <2>5. FlatIs(flat, rows, latest, c)
    BY <2>1, <2>3, <2>4 DEF FlatIs, Dates, gained
  <2>6. QED
    BY <2>5 DEF flat
<1>7. grown = {} => NoneGrown(rows, latest, c)
  BY <1>1, <1>5, GrownIsGained DEF NoneGrown
<1>8. CASE grown = {} /\ latest[c] = 0
  <2>1. flat.at = latest.started /\ flat.received = 0 /\ flat.known = TRUE
    BY <1>3, <1>8
  <2>2. FlatIs(flat, rows, latest, c)
    BY <1>1, <1>7, <1>8, <2>1 DEF FlatIs, Count
  <2>3. QED
    BY <2>2 DEF flat
<1>9. CASE grown = {} /\ latest[c] # 0
  <2>1. start \in own /\ \A x \in own : start.at <= x.at
    BY <1>1, <1>2, OldestOf
  <2> HIDE DEF start
  <2>3. flat = [at |-> start.at, received |-> start.received, known |-> whole]
    BY <1>3, <1>9
  <2>2. flat.at = start.at /\ flat.received = start.received
    BY <2>3
  <2>4. flat.known \in BOOLEAN /\ (flat.known <=> latest.started >= Oldest(rows).at)
    <3>1. flat.known = whole
      BY <2>3, Zenon
    <3>2. QED
      BY <1>2, <3>1, Zenon
  <2>5. Oldest(rows) \in rows /\ Oldest(rows).at \in Nat /\ rows \subseteq reports
    BY <1>2, OldestOf DEF Row, Times, Reading
  <2>6. start.at \in Times /\ start.received \in Count /\ start \in all
    BY <1>1, <2>1
  <2>7. CASE latest.started >= Oldest(rows).at
    <3>1. all \subseteq rows
      BY <1>1, <2>5, <2>7 DEF Reading
    <3>2. latest[c] <= start[c] /\ start[c] > 0
      BY <1>1, <1>9, <2>1, NoGrowth
    <3>3. Before(all, start) = {}
      BY <1>1, <2>1, <3>1 DEF Before
    <3>4. start \in gained
      BY <1>1, <2>6, <3>2, <3>3 DEF GainedOf
    <3>5. ASSUME NEW g \in gained PROVE g = start
      <4>1. g \in all /\ g \in own
        BY <1>5, <3>1
      <4>2. start.at <= g.at /\ ~(start.at < g.at)
        BY <1>7, <1>9, <2>1, <4>1 DEF NoneGrown
      <4>3. QED
        BY <1>1, <2>6, <4>1, <4>2
    <3>6. Newest(gained) = start /\ gained # {}
      BY <1>1, <1>5, <3>4, <3>5, NewestOf
    <3>7. QED
      BY <2>2, <2>4, <2>6, <2>7, <3>6 DEF FlatIs, Dates, flat
  <2>8. CASE ~(latest.started >= Oldest(rows).at)
    <3>1. latest.started < Oldest(rows).at /\ ~flat.known
      BY <1>1, <2>4, <2>5, <2>8
    <3>2. Dates(flat, start)
      BY <2>2 DEF Dates
    <3>3. QED
      BY <1>7, <1>9, <2>1, <2>2, <2>4, <2>6, <3>1, <3>2 DEF FlatIs, flat
  <2>9. QED
    BY <2>7, <2>8
<1>10. QED
  BY <1>6, <1>8, <1>9

-------------------------------------------------------------------------------
(* A counter that is known to have stood still, or to have grown.          *)
LEMMA GrewIs ==
    ASSUME NEW base, NEW row, NEW c,
           base[c] \in Nat \cup {Null}, row[c] \in Nat \cup {Null}
    PROVE  /\ Grew(base, row, c) = 0 => base[c] \in Nat /\ row[c] = base[c]
           /\ Grew(base, row, c) \notin {0, Null} =>
                  base[c] \in Nat /\ row[c] \in Nat /\ base[c] < row[c]
           /\ base[c] \in Nat /\ row[c] = base[c] => Grew(base, row, c) = 0
BY ConstantsAssumption DEF ConstantsAssumption, Grew

(* What the traffic is judged against when it raises an alarm: the start   *)
(* of the process, or one of its reports, EvidenceMin before the latest.   *)
Standstill(latest, rows, c, t) ==
    \/ /\ latest.started <= latest.at - EvidenceMin /\ t - Window <= latest.started
       /\ latest[c] = 0
       /\ c = "published" => latest.received > 0
    \/ \E f \in OwnOf(latest) \cap rows :
           /\ f.at <= latest.at - EvidenceMin /\ t - Window <= f.at
           /\ f[c] = latest[c]
           /\ c = "published" => f.received \in Nat /\ f.received < latest.received

CounterOf(status) == IF status = "no-packets" THEN "received" ELSE "published"

LEMMA TrafficAlarm ==
    ASSUME TypeOK, HistoryInv, NEW latest \in reports, NEW base,
           base.row.received \in Count, base.row.published \in Count,
           base.since \in Int, NEW rows,
           Traffic(latest, rows, base).status \in {"no-packets", "not-publishing"}
    PROVE  LET v == Traffic(latest, rows, base)
               c == CounterOf(v.status)
               flat == FlatSince(rows, latest, c)
           IN  /\ latest.at - base.since >= EvidenceMin
               /\ base.row[c] \in Nat /\ latest[c] = base.row[c]
               /\ c = "published" =>
                      /\ base.row.received \in Nat /\ latest.received \in Nat
                      /\ base.row.received < latest.received /\ flat.received # Null
               /\ v.since = flat.at /\ v.known = flat.known
               /\ v.got = IF c = "received" THEN 0 ELSE latest.received - flat.received
               /\ v.status \in Status
               /\ v = [status |-> v.status, since |-> v.since, known |-> v.known, got |-> v.got]
<1> DEFINE v == Traffic(latest, rows, base)
           enough == latest.at - base.since >= EvidenceMin
           received == Grew(base.row, latest, "received")
           published == Grew(base.row, latest, "published")
           silent == StoppedSince("no-packets", FlatSince(rows, latest, "received"), 0)
           flatp == FlatSince(rows, latest, "published")
           blocked == StoppedSince("not-publishing", flatp, latest.received - flatp.received)
<1>1. /\ latest.received \in Nat \cup {Null} /\ latest.published \in Nat \cup {Null}
      /\ base.row.received \in Nat \cup {Null} /\ base.row.published \in Nat \cup {Null}
      /\ latest.at \in Int /\ EvidenceMin \in Int
  BY ConstantsAssumption DEF TypeOK, Row, Times, Count, ConstantsAssumption
<1>2. /\ ~enough <=> latest.at - base.since < EvidenceMin
  BY <1>1
<1>3. v = CASE ~enough -> Plain("healthy")
            [] enough /\ received = 0 -> silent
            [] enough /\ received \notin {0, Null} /\ published = 0 ->
                   IF flatp.received = Null THEN Plain("error") ELSE blocked
            [] OTHER -> Plain("healthy")
  BY <1>2 DEF Traffic, Unpublished
<1>4. /\ Plain("healthy").status = "healthy" /\ "healthy" \notin {"no-packets", "not-publishing"}
      /\ Plain("error").status = "error" /\ "error" \notin {"no-packets", "not-publishing"}
  BY DEF Plain
<1> HIDE DEF enough, received, published, silent, blocked, v
<1>5. \/ enough /\ received = 0 /\ v = silent
      \/ /\ enough /\ received \notin {0, Null} /\ published = 0
         /\ v = blocked /\ flatp.received # Null
  BY <1>3, <1>4 DEF v
<1>6. CASE enough /\ received = 0 /\ v = silent
  <2>1. /\ v.status = "no-packets" /\ v.since = FlatSince(rows, latest, "received").at
        /\ v.known = FlatSince(rows, latest, "received").known /\ v.got = 0
        /\ v = [status |-> v.status, since |-> v.since, known |-> v.known, got |-> v.got]
    BY <1>6 DEF silent, StoppedSince
  <2>2. base.row.received \in Nat /\ latest.received = base.row.received
    BY <1>1, <1>6, GrewIs DEF received
  <2>3. QED
    BY <1>6, <2>1, <2>2 DEF v, enough, CounterOf, Status
<1>7. CASE /\ enough /\ received \notin {0, Null} /\ published = 0
           /\ v = blocked /\ flatp.received # Null
  <2>1. /\ v.status = "not-publishing" /\ v.since = FlatSince(rows, latest, "published").at
        /\ v.known = FlatSince(rows, latest, "published").known
        /\ v.got = latest.received - FlatSince(rows, latest, "published").received
        /\ v = [status |-> v.status, since |-> v.since, known |-> v.known, got |-> v.got]
    BY <1>7 DEF blocked, StoppedSince
  <2>2. base.row.published \in Nat /\ latest.published = base.row.published
    BY <1>1, <1>7, GrewIs DEF published
  <2>3. /\ base.row.received \in Nat /\ latest.received \in Nat
        /\ base.row.received < latest.received
    BY <1>1, <1>7, GrewIs DEF received
  <2>4. QED
    BY <1>7, <2>1, <2>2, <2>3 DEF v, enough, CounterOf, Status
<1>8. QED
  BY <1>5, <1>6, <1>7

(* The first report in the window, if the process is older than it.        *)
LEMMA FirstInWindowIs ==
    ASSUME TypeOK, NEW latest \in reports, NEW rows \in SUBSET reports, NEW t \in Times
    PROVE  LET f == FirstInWindow(latest, rows, t)
           IN  /\ f \in Row /\ f \in reports /\ f.started = latest.started
               /\ f # latest => f \in rows /\ f.at >= t - Window
               /\ \A r \in rows : r.started = latest.started /\ r.at >= t - Window
                                    => f.at <= r.at
<1> DEFINE own == {r \in rows : r.started = latest.started /\ r.at >= t - Window}
<1>1. own \subseteq Row /\ latest \in Row /\ own \subseteq reports
  BY DEF TypeOK
<1>2. CASE own = {}
  BY <1>1, <1>2 DEF FirstInWindow
<1>3. CASE own # {}
  <2>1. Oldest(own) \in own /\ \A r \in own : Oldest(own).at <= r.at
    BY <1>1, <1>3, OldestOf
  <2>2. FirstInWindow(latest, rows, t) = Oldest(own)
    BY <1>3 DEF FirstInWindow
  <2>3. QED
    BY <1>1, <2>1, <2>2
<1>4. QED
  BY <1>2, <1>3

LEMMA BaselineTypes ==
    ASSUME TypeOK, NEW latest \in reports, NEW rows \in SUBSET reports, NEW t \in Times
    PROVE  LET base == Baseline(latest, rows, t)
           IN  /\ base.row.received \in Count /\ base.row.published \in Count
               /\ base.since \in Int
<1>1. /\ FirstInWindow(latest, rows, t) \in Row /\ latest.started \in Int
  BY FirstInWindowIs DEF TypeOK, Row, Times
<1>2. Zero.received \in Count /\ Zero.published \in Count
  BY DEF Zero, Count
<1>3. /\ FirstInWindow(latest, rows, t).at \in Int
      /\ FirstInWindow(latest, rows, t).received \in Count
      /\ FirstInWindow(latest, rows, t).published \in Count
  BY <1>1 DEF Row, Times
<1>4. QED
  BY <1>1, <1>2, <1>3 DEF Baseline

(* An alarm: of a process whose latest report has been read, which stood   *)
(* still for EvidenceMin, dated by _flat_since.                            *)
AlarmIs(v, latest, rows, t) ==
    LET c == CounterOf(v.status)
        flat == FlatSince(rows, latest, c)
    IN  /\ latest \in rows /\ latest[c] # Null /\ Standstill(latest, rows, c, t)
        /\ c = "published" => flat.received # Null /\ latest.received \in Nat
        /\ v.since = flat.at /\ v.known = flat.known
        /\ v.got = IF c = "received" THEN 0 ELSE latest.received - flat.received
        /\ v.status \in Status
        /\ v = [status |-> v.status, since |-> v.since, known |-> v.known, got |-> v.got]

LEMMA AssessAlarm ==
    ASSUME TypeOK, HistoryInv, NEW latest \in reports, NEW rows, NEW t \in Times,
           Reading(rows, latest, t),
           Assess(latest, rows, t).status \in {"no-packets", "not-publishing"}
    PROVE  AlarmIs(Assess(latest, rows, t), latest, rows, t)
<1> DEFINE v == Assess(latest, rows, t)
           c == CounterOf(v.status)
           base == Baseline(latest, rows, t)
           f == FirstInWindow(latest, rows, t)
<1>1. rows \in SUBSET reports /\ latest \in Row /\ latest # Null
  BY ConstantsAssumption DEF Reading, TypeOK, ConstantsAssumption
<1>2. v = Traffic(latest, rows, base)
  <2>1. [Plain("not-reporting") EXCEPT !.since = latest.at].status = "not-reporting"
    BY DEF Plain
  <2>2. "not-reporting" \notin {"no-packets", "not-publishing"}
    OBVIOUS
  <2>3. v = IF Stale(latest, t) THEN [Plain("not-reporting") EXCEPT !.since = latest.at]
            ELSE Traffic(latest, rows, base)
    BY <1>1 DEF Assess
  <2>4. QED
    BY <2>1, <2>2, <2>3
<1>3. base.row.received \in Count /\ base.row.published \in Count /\ base.since \in Int
  BY <1>1, BaselineTypes
<1>4. /\ latest.at - base.since >= EvidenceMin
      /\ base.row[c] \in Nat /\ latest[c] = base.row[c]
      /\ c = "published" =>
             /\ base.row.received \in Nat /\ latest.received \in Nat
             /\ base.row.received < latest.received
             /\ FlatSince(rows, latest, c).received # Null
      /\ v.since = FlatSince(rows, latest, c).at /\ v.known = FlatSince(rows, latest, c).known
      /\ v.got = IF c = "received" THEN 0
                 ELSE latest.received - FlatSince(rows, latest, c).received
      /\ v.status \in Status
      /\ v = [status |-> v.status, since |-> v.since, known |-> v.known, got |-> v.got]
  <2> HIDE DEF base
  <2>1. QED
    BY <1>2, <1>3, TrafficAlarm
<1>5. /\ latest.at \in Nat /\ latest.started \in Nat /\ latest.started <= latest.at
      /\ t \in Nat /\ EvidenceMin \in Nat /\ EvidenceMin > 0
      /\ Window \in Nat /\ c \in Counters
  BY <1>1, ConstantsAssumption DEF HistoryInv, Row, Times, ConstantsAssumption, CounterOf, Counters
<1>6. latest[c] # Null
  BY <1>4, ConstantsAssumption DEF ConstantsAssumption
<1> HIDE DEF v, c
<1>7. latest \in rows /\ Standstill(latest, rows, c, t)
  <2>1. CASE latest.started >= t - Window
    <3>1. base = [row |-> Zero, since |-> latest.started]
      BY <2>1 DEF Baseline
    <3>2. base.row[c] = 0 /\ base.row.received = 0 /\ base.since = latest.started
      BY <1>5, <3>1 DEF Zero, Counters
    <3>3. /\ latest.started <= latest.at - EvidenceMin /\ t - Window <= latest.at
          /\ t - Window <= latest.started
      BY <1>4, <1>5, <2>1, <3>2
    <3>4. latest \in rows
      BY <1>5, <3>3 DEF Reading
    <3>5. QED
      BY <1>4, <3>2, <3>3, <3>4 DEF Standstill
  <2>2. CASE ~(latest.started >= t - Window)
    <3>1. base = [row |-> f, since |-> f.at]
      BY <2>2 DEF Baseline
    <3>2. /\ f \in Row /\ f \in reports /\ f.started = latest.started
          /\ f # latest => f \in rows /\ f.at >= t - Window
      BY <1>1, FirstInWindowIs
    <3>3. f.at \in Nat /\ f.at <= latest.at - EvidenceMin
      <4>1. f.at \in Nat /\ base.since = f.at
        BY <3>1, <3>2 DEF Row, Times
      <4>2. QED
        BY <1>4, <1>5, <4>1
    <3>4. f # latest
      BY <1>5, <3>3
    <3>5. f \in rows /\ t - Window <= latest.at /\ f.at <= latest.at
      BY <1>5, <3>2, <3>3, <3>4
    <3>6. latest \in rows
      BY <1>5, <3>5 DEF Reading
    <3>7. f \in OwnOf(latest) \cap rows
      BY <3>2, <3>5 DEF OwnOf
    <3>8. /\ f[c] = latest[c]
          /\ c = "published" => f.received \in Nat /\ f.received < latest.received
      BY <1>4, <3>1
    <3>9. t - Window <= f.at
      BY <1>5, <3>2, <3>3, <3>4
    <3>10. QED
      BY <3>3, <3>6, <3>7, <3>8, <3>9 DEF Standstill
  <2>3. QED
    BY <2>1, <2>2
<1>8. QED
  BY <1>4, <1>6, <1>7 DEF AlarmIs, v, c

(* Without an alarm the verdict is a plain one, or there is none.          *)
LEMMA TrafficCases ==
    ASSUME NEW latest, NEW rows, NEW base
    PROVE  \/ Traffic(latest, rows, base) \in {Plain("healthy"), Plain("error")}
           \/ Traffic(latest, rows, base).status \in {"no-packets", "not-publishing"}
<1> DEFINE silent == StoppedSince("no-packets", FlatSince(rows, latest, "received"), 0)
           flatp == FlatSince(rows, latest, "published")
           blocked == StoppedSince("not-publishing", flatp, latest.received - flatp.received)
<1>1. Traffic(latest, rows, base) \in {Plain("healthy"), Plain("error"), silent, blocked}
  BY DEF Traffic, Unpublished
<1>2. silent.status = "no-packets" /\ blocked.status = "not-publishing"
  BY DEF StoppedSince
<1>3. QED
  BY <1>1, <1>2

(* Every verdict is well formed.                                           *)
LEMMA AssessType ==
    ASSUME TypeOK, HistoryInv, NEW latest \in reports \cup {Null}, NEW rows, NEW t \in Times,
           latest # Null => Reading(rows, latest, t)
    PROVE  Assess(latest, rows, t) \in Verdict
<1> DEFINE v == Assess(latest, rows, t)
<1>1. \A status \in Status \cup {"error"} : Plain(status) \in Verdict
  BY DEF Plain, Verdict
<1>2. CASE v.status \in {"no-packets", "not-publishing"} /\ latest # Null
  <2> DEFINE c == CounterOf(v.status)
             flat == FlatSince(rows, latest, c)
  <2>1. AlarmIs(v, latest, rows, t)
    BY <1>2, AssessAlarm
  <2>2. c \in Counters /\ latest \in reports
    BY <1>2 DEF CounterOf, Counters
  <2>3. FlatIs(flat, rows, latest, c)
    BY <1>2, <2>1, <2>2, FlatExact DEF AlarmIs
  <2> HIDE DEF c, flat, v
  <2>4. flat.at \in Times /\ flat.known \in BOOLEAN /\ flat.received \in Nat \cup {Null}
    BY <2>3 DEF FlatIs, Count
  <2>5. /\ v.since = flat.at /\ v.known = flat.known
        /\ v.got = IF c = "received" THEN 0 ELSE latest.received - flat.received
        /\ v.status \in Status
        /\ v = [status |-> v.status, since |-> v.since, known |-> v.known, got |-> v.got]
        /\ c = "published" => flat.received # Null /\ latest.received \in Nat
    BY <2>1 DEF AlarmIs, flat, c
  <2>6. v.got \in Int
    BY <2>2, <2>4, <2>5 DEF Counters
  <2>7. v \in Verdict
    BY <2>4, <2>5, <2>6 DEF Verdict
  <2>8. QED
    BY <2>7 DEF v
<1>3. CASE latest = Null
  BY <1>1, <1>3 DEF Assess, Status
<1>4. CASE latest # Null /\ v.status \notin {"no-packets", "not-publishing"}
  <2>1. CASE Stale(latest, t)
    <3>1. v = [Plain("not-reporting") EXCEPT !.since = latest.at]
      BY <1>4, <2>1 DEF Assess
    <3>2. latest.at \in Times
      BY <1>4 DEF TypeOK, Row
    <3>3. v = [status |-> "not-reporting", since |-> latest.at, known |-> TRUE, got |-> 0]
      BY <3>1 DEF Plain
    <3>4. "not-reporting" \in Status /\ 0 \in Int
      BY DEF Status
    <3>5. QED
      BY <3>2, <3>3, <3>4 DEF Verdict
  <2>2. CASE ~Stale(latest, t)
    <3>1. v = Traffic(latest, rows, Baseline(latest, rows, t))
      BY <1>4, <2>2 DEF Assess
    <3>2. v \in {Plain("healthy"), Plain("error")}
      BY <1>4, <3>1, TrafficCases
    <3>3. QED
      BY <1>1, <3>2 DEF Status
  <2>3. QED
    BY <2>1, <2>2
<1>5. QED
  BY <1>2, <1>3, <1>4

(* So are the blocks.                                                      *)
LEMMA BlocksType ==
    ASSUME NEW rows, NEW latest, NEW start
    PROVE  Blocks(rows, latest, start) \in [Block -> Status \cup {"no-data"}]
<1>1. \A some : BucketState(rows, some) \in Status
  BY DEF BucketState, Status
<1>2. ASSUME NEW i \in Block
      PROVE  Blocks(rows, latest, start)[i] \in Status \cup {"no-data"}
  BY <1>1 DEF Blocks, Status
<1>3. Blocks(rows, latest, start) = [i \in Block |-> Blocks(rows, latest, start)[i]]
  BY DEF Blocks
<1>4. QED
  BY <1>2, <1>3

-------------------------------------------------------------------------------
(* The page: fixed is what it was opened with, the rest has been read from *)
(* a table that grows at one end and is trimmed at the other.              *)
Opened ==
    page.pc # "closed" =>
        /\ page.now <= now /\ now <= page.now + MaxOpen
        /\ page.latest \in reports \cup {Null}
        /\ \A r \in reports : r.at < page.now => page.latest # Null /\ r.at <= page.latest.at

Covers(rows, span) ==
    page.latest # Null =>
        \A x \in Table : page.now - span <= x.at /\ x.at <= page.latest.at => x \in rows

RowsRead ==
    page.pc \in {"buckets", "reread", "drawn"} =>
        /\ page.rows \subseteq reports
        /\ \A r \in page.rows : Start24h <= r.at
        /\ page.latest # Null => Reading(page.rows, page.latest, page.now)
        /\ page.pc # "drawn" => Covers(page.rows, page.span)

Judged ==
    page.pc = "drawn" =>
        /\ page.health = Assess(page.latest, page.rows, page.now)
        /\ Covers(page.rows, Retention) \/ (page.span = Recent /\ ~Predates(page.health))

(* The rows the blocks are made from: the latest report is among them, or  *)
(* was trimmed by a newer one while the page was drawn.                    *)
BucketRows(rows) ==
    /\ \A r \in rows : Start24h <= r.at
    /\ \A p \in rows, x \in reports : p.at <= x.at /\ x.at < page.now => x \in rows
    /\ page.latest # Null /\ Start24h <= page.latest.at =>
           \/ page.latest \in rows
           \/ /\ page.latest.at < Start24h + MaxOpen
              /\ \E r \in reports : page.now <= r.at

BlocksRead ==
    page.pc \in {"reread", "drawn"} =>
        \E rows \in SUBSET reports :
            /\ BucketRows(rows)
            /\ page.blocks = Blocks(rows, page.latest, Start24h)

HealthInv ==
    TypeOK /\ HistoryInv /\ Opened /\ RowsRead /\ Judged /\ BlocksRead

(* What can be read at a time of the page.                                 *)
LEMMA SinceIs ==
    ASSUME TypeOK, HistoryInv, Opened, page.pc # "closed", NEW span \in {Recent, Retention}
    PROVE  LET rows == Since(page.now - span)
           IN  /\ rows \subseteq reports /\ rows \in SUBSET Row
               /\ \A r \in rows : page.now - span <= r.at /\ Start24h <= r.at
               /\ \A p \in rows, x \in reports : p.at <= x.at => x \in rows
               /\ page.latest # Null => Reading(rows, page.latest, page.now)
               /\ Covers(rows, span)
<1> DEFINE rows == Since(page.now - span)
           last == Newest(reports)
<1>1. /\ reports \subseteq Row /\ page.now \in Nat /\ now \in Nat /\ cutoff \in Int
      /\ span \in Nat /\ Retention \in Nat /\ Window <= span /\ span <= Retention
      /\ Window \in Nat /\ MaxOpen \in Nat /\ MaxOpen + Window <= Retention
  BY Lengths, ConstantsAssumption DEF TypeOK, Page, Times, ConstantsAssumption
<1>2. /\ \A r \in reports : r.at \in Nat
      /\ \A r, x \in reports : r.at = x.at => r = x
  BY <1>1 DEF HistoryInv, Row, Times
<1>3. \A r : r \in rows <=> r \in reports /\ (r.at >= cutoff \/ r = last) /\ r.at >= page.now - span
  BY DEF Since, Table
<1>4. \A r \in reports : r.at <= last.at
  BY <1>1, NewestOf
<1>5. cutoff <= page.now - Window
  BY <1>1 DEF HistoryInv, Opened
<1> HIDE DEF rows, last
<1>6. \A r \in rows : page.now - span <= r.at /\ Start24h <= r.at
  BY <1>1, <1>2, <1>3 DEF Start24h
<1>7. ASSUME NEW p \in rows, NEW x \in reports, p.at <= x.at PROVE x \in rows
  <2>1. p \in reports /\ p.at >= page.now - span
    BY <1>3
  <2>2. x.at >= page.now - span
    BY <1>1, <1>2, <1>7, <2>1
  <2>3. CASE p.at >= cutoff
    BY <1>1, <1>2, <1>3, <1>7, <2>1, <2>2, <2>3
  <2>4. CASE p = last
    <3>1. x.at <= p.at
      BY <1>4, <2>4
    <3>2. x = p
      BY <1>2, <1>7, <2>1, <3>1
    <3>3. QED
      BY <3>2
  <2>5. QED
    BY <1>3, <2>3, <2>4
<1>8. ASSUME NEW x \in reports, page.now - Window <= x.at PROVE x \in rows
  <2>1. x.at >= cutoff /\ x.at >= page.now - span
    BY <1>1, <1>2, <1>5, <1>8
  <2>2. QED
    BY <1>3, <2>1
<1>9. rows \subseteq reports
  BY <1>3
<1>10. page.latest # Null => Reading(rows, page.latest, page.now)
  BY <1>7, <1>8, <1>9 DEF Reading
<1>11. Covers(rows, span)
  BY <1>1, <1>2, <1>3 DEF Covers, Table, last
<1>12. QED
  BY <1>1, <1>6, <1>7, <1>9, <1>10, <1>11 DEF rows

(* A step that leaves the page alone adds at most reports that are newer   *)
(* than everything it read, and takes others out of the table.             *)
Later ==
    /\ page' = page /\ reports \subseteq reports'
    /\ \A x \in reports' \ reports :
           x.at \in Nat /\ (page.pc # "closed" => page.now <= x.at) /\ \A r \in reports : r.at < x.at
    /\ Table' \subseteq Table \cup (reports' \ reports)

LEMMA LaterKeeps ==
    ASSUME HealthInv, Later
    PROVE  RowsRead' /\ Judged' /\ BlocksRead'
<1>1. /\ reports \subseteq Row /\ page \in Page /\ page.now \in Nat
      /\ \A r \in reports : r.at \in Nat
  BY DEF HealthInv, TypeOK, Page, Row, Times
<1>2. /\ page' = page /\ reports \subseteq reports' /\ Table' \subseteq Table \cup (reports' \ reports)
  BY DEF Later
<1>3. ASSUME page.pc # "closed", page.latest # Null
      PROVE  /\ page.latest \in reports /\ page.latest.at \in Nat
             /\ \A x \in reports' : x.at <= page.latest.at => x \in reports
             /\ \A x \in Table' : x.at <= page.latest.at => x \in Table
  <2>1. page.latest \in reports /\ page.latest.at \in Nat
    BY <1>1, <1>3 DEF HealthInv, Opened
  <2>2. \A x \in reports' \ reports : x.at \in Nat /\ page.latest.at < x.at
    BY <2>1 DEF Later
  <2>3. \A x \in reports' : x.at <= page.latest.at => x \in reports
    BY <2>1, <2>2
  <2>4. \A x \in Table' : x.at <= page.latest.at => x \in Table
    BY <1>2, <2>1, <2>2
  <2>5. QED
    BY <2>1, <2>3, <2>4
<1>5. ASSUME page.pc # "closed", page.latest # Null, Reading(page.rows, page.latest, page.now)
      PROVE  Reading(page.rows, page.latest, page.now)'
  BY <1>2, <1>3, <1>5 DEF Reading
<1>6. RowsRead'
  <2>1. SUFFICES ASSUME page.pc \in {"buckets", "reread", "drawn"} PROVE RowsRead'
    BY <1>2 DEF RowsRead
  <2>2. /\ page.rows \subseteq reports
        /\ \A r \in page.rows : Start24h <= r.at
        /\ page.latest # Null => Reading(page.rows, page.latest, page.now)
        /\ page.pc # "drawn" => Covers(page.rows, page.span)
    BY <2>1 DEF HealthInv, RowsRead
  <2>3. page.latest # Null => Reading(page.rows, page.latest, page.now)'
    BY <1>5, <2>1, <2>2
  <2>4. page.pc # "drawn" => Covers(page.rows, page.span)'
    BY <1>2, <1>3, <2>1, <2>2 DEF Covers
  <2>5. QED
    BY <1>2, <2>2, <2>3, <2>4 DEF RowsRead, Start24h
<1>7. Judged'
  <2>1. SUFFICES ASSUME page.pc = "drawn" PROVE Judged'
    BY <1>2 DEF Judged
  <2>2. /\ page.health = Assess(page.latest, page.rows, page.now)
        /\ Covers(page.rows, Retention) \/ (page.span = Recent /\ ~Predates(page.health))
    BY <2>1 DEF HealthInv, Judged
  <2>3. Covers(page.rows, Retention) => Covers(page.rows, Retention)'
    BY <1>2, <1>3, <2>1 DEF Covers
  <2>4. ~Predates(page.health) => ~Predates(page.health)'
    BY <1>2 DEF Predates
  <2>5. QED
    BY <1>2, <2>2, <2>3, <2>4 DEF Judged
<1>8. BlocksRead'
  <2>1. SUFFICES ASSUME page.pc \in {"reread", "drawn"} PROVE BlocksRead'
    BY <1>2 DEF BlocksRead
  <2>2. PICK rows \in SUBSET reports :
            BucketRows(rows) /\ page.blocks = Blocks(rows, page.latest, Start24h)
    BY <2>1 DEF HealthInv, BlocksRead
  <2>3. \A x \in reports' : x.at < page.now => x \in reports
    BY <1>1, <2>1 DEF Later
  <2>4. BucketRows(rows)'
    BY <1>2, <2>2, <2>3 DEF BucketRows, Start24h
  <2>5. QED
    BY <1>2, <2>2, <2>4 DEF BlocksRead, Start24h
<1>9. QED
  BY <1>6, <1>7, <1>8

(* A report is such a step, and so is everything else outside of the page. *)
LEMMA ReportStep ==
    ASSUME HealthInv, NEW m \in Metrics, Report(m[1], m[2])
    PROVE  HealthInv'
<1> DEFINE row == Receive(m[1], m[2])
<1>1. /\ row \in Row /\ proc' \in Process /\ reports' \in SUBSET Row
  BY ReportTypes DEF HealthInv, TypeOK, Report
<1>2. /\ row.at = now /\ reports' = reports \cup {row} /\ \A r \in reports : r.at < now
      /\ now' = now /\ cutoff' = now - Retention /\ restarts' = restarts /\ page' = page
  BY DEF Report, Receive
<1> HIDE DEF row
<1>3. /\ now \in Times /\ now \in Nat /\ Retention \in Nat /\ MaxTime \in Nat /\ cutoff \in Int
      /\ reports \subseteq Row /\ restarts \in 0 .. MaxRestarts /\ page \in Page
      /\ \A r \in reports : r.at \in Nat
  BY Lengths, ConstantsAssumption DEF HealthInv, TypeOK, Times, Row, ConstantsAssumption
<1>4. cutoff' \in (0 - Retention) .. MaxTime /\ cutoff <= cutoff'
  BY <1>2, <1>3 DEF HealthInv, HistoryInv, Times
<1>5. TypeOK'
  BY <1>1, <1>2, <1>3, <1>4 DEF TypeOK
<1>6. HistoryInv'
  BY HistoryReport DEF HealthInv
<1>7. Opened'
  <2>1. SUFFICES ASSUME page.pc # "closed" PROVE Opened'
    BY <1>2 DEF Opened
  <2>2. /\ page.now <= now /\ now <= page.now + MaxOpen /\ page.latest \in reports \cup {Null}
        /\ \A r \in reports : r.at < page.now => page.latest # Null /\ r.at <= page.latest.at
    BY <2>1 DEF HealthInv, Opened
  <2>3. ~(row.at < page.now)
    BY <1>2, <1>3, <2>2 DEF Page, Times
  <2>4. QED
    BY <1>2, <2>2, <2>3 DEF Opened
<1>8. Newest(reports') = row
  <2>1. Newest(reports') \in reports' /\ \A r \in reports' : r.at <= Newest(reports').at
    BY <1>1, <1>2, NewestOf
  <2>2. Newest(reports') \in reports => Newest(reports').at < now /\ now <= Newest(reports').at
    BY <1>2, <2>1
  <2>3. QED
    BY <1>2, <1>3, <2>1, <2>2
<1>9. Table' \subseteq Table \cup (reports' \ reports)
  <2>1. SUFFICES ASSUME NEW x \in Table', x \in reports PROVE x \in Table
    BY DEF Table
  <2>2. x # row
    BY <1>2, <1>3, <2>1
  <2>3. x.at >= cutoff'
    BY <1>8, <2>1, <2>2 DEF Table
  <2>4. QED
    BY <1>3, <1>4, <2>1, <2>3 DEF Table
<1>10. Later
  BY <1>2, <1>3, <1>9 DEF Later, HealthInv, Opened
<1>11. QED
  BY <1>5, <1>6, <1>7, <1>10, LaterKeeps DEF HealthInv

LEMMA OutsideStep ==
    ASSUME HealthInv,
           (\E i \in Intervals : Restart(i)) \/ Tick \/ PurgeReports \/ UNCHANGED vars
    PROVE  HealthInv'
<1>1. /\ now \in Times /\ now \in Nat /\ Retention \in Nat /\ MaxTime \in Nat /\ cutoff \in Int
      /\ \A r \in reports : r \in Row /\ r.at \in Nat
      /\ page \in Page /\ page.now \in Nat /\ MaxOpen \in Nat
  BY Lengths, ConstantsAssumption
     DEF HealthInv, TypeOK, Times, Row, Page, ConstantsAssumption
<1>2. HistoryInv'
  BY HistoryStep DEF HealthInv, Next
<1>3. page' = page /\ reports' = reports
  BY DEF Restart, Tick, PurgeReports, vars
<1>4. TypeOK' /\ cutoff' >= cutoff
  <2>1. ASSUME NEW i \in Intervals, Restart(i) PROVE TypeOK' /\ cutoff' >= cutoff
    <3>1. Start(now, i) \in Process
      BY <1>1 DEF Start, Process
    <3>2. restarts' \in 0 .. MaxRestarts
      BY <2>1, ConstantsAssumption DEF Restart, HealthInv, TypeOK, ConstantsAssumption
    <3>3. QED
      BY <1>1, <2>1, <3>1, <3>2 DEF Restart, HealthInv, TypeOK
  <2>2. ASSUME Tick PROVE TypeOK' /\ cutoff' >= cutoff
    BY <1>1, <2>2 DEF Tick, HealthInv, TypeOK, Times
  <2>3. ASSUME PurgeReports PROVE TypeOK' /\ cutoff' >= cutoff
    BY <1>1, <2>3 DEF PurgeReports, HealthInv, TypeOK, HistoryInv, Times
  <2>4. ASSUME UNCHANGED vars PROVE TypeOK' /\ cutoff' >= cutoff
    BY <1>1, <2>4 DEF vars, HealthInv, TypeOK
  <2>5. QED
    BY <2>1, <2>2, <2>3, <2>4
<1>5. Opened'
  <2>1. ASSUME now' = now PROVE Opened'
    BY <1>3, <2>1 DEF HealthInv, Opened
  <2>2. ASSUME Tick PROVE Opened'
    <3>1. page.pc # "closed" => page.pc \in {"rows", "buckets", "reread", "drawn"}
      BY <1>1 DEF Page
    <3>2. page.pc # "closed" => now < page.now + MaxOpen /\ now' = now + 1
      BY <2>2, <3>1 DEF Tick, Pending
    <3>3. page.pc # "closed" => page.now <= now' /\ now' <= page.now + MaxOpen
      BY <1>1, <3>2 DEF HealthInv, Opened
    <3>4. QED
      BY <1>3, <3>3 DEF HealthInv, Opened
  <2>3. QED
    BY <2>1, <2>2 DEF Restart, PurgeReports, vars
<1>6. Later
  <2>1. Table' \subseteq Table
    <3>1. cutoff' \in Int
      BY <1>4, Lengths DEF TypeOK
    <3>2. QED
      BY <1>1, <1>3, <1>4, <3>1 DEF Table
  <2>2. QED
    BY <1>3, <2>1 DEF Later
<1>7. QED
  BY <1>2, <1>4, <1>5, <1>6, LaterKeeps DEF HealthInv

(* The steps of a page leave the rest alone.                               *)
LEMMA PageStep ==
    ASSUME HealthInv,
           (\E span \in {Recent, Retention} : OpenPage(span))
               \/ ReadRows \/ ReadBuckets \/ Draw \/ ClosePage
    PROVE  HealthInv'
<1>1. /\ now' = now /\ proc' = proc /\ restarts' = restarts /\ reports' = reports
      /\ cutoff' = cutoff /\ Table' = Table
  BY DEF OpenPage, ReadRows, ReadBuckets, Draw, ClosePage, Table
<1>2. HistoryInv'
  BY HistoryStep DEF HealthInv, Next
<1>3. page' \in Page => TypeOK'
  BY <1>1 DEF HealthInv, TypeOK
<1>4. /\ page \in Page /\ page.now \in Times /\ page.now \in Nat /\ now \in Times /\ now \in Nat
      /\ reports \subseteq Row /\ MaxOpen \in Nat /\ Recent \in Nat /\ Retention \in Nat
      /\ {} \in SUBSET Row
  BY Lengths, ConstantsAssumption DEF HealthInv, TypeOK, Page, Times, ConstantsAssumption
<1>5. /\ Closed.blocks \in [Block -> Status \cup {"no-data"}] /\ Closed \in Page
  BY <1>4, ConstantsAssumption DEF Closed, Page, Times, ConstantsAssumption
<1>6. ASSUME NEW span \in {Recent, Retention}, OpenPage(span) PROVE HealthInv'
  <2> DEFINE latest == IF Table = {} THEN Null ELSE Newest(Table)
  <2>1. page' = [Closed EXCEPT !.pc = "rows", !.now = now, !.span = span, !.latest = latest]
    BY <1>6 DEF OpenPage
  <2>2. /\ latest \in reports \cup {Null}
        /\ \A r \in reports : latest # Null /\ r.at <= latest.at
    <3>1. Table \subseteq reports
      BY DEF Table
    <3>2. CASE reports = {}
      BY <3>1, <3>2
    <3>3. CASE reports # {}
      <4>1. Newest(reports) \in reports /\ \A r \in reports : r.at <= Newest(reports).at
        BY <1>4, <3>3, NewestOf
      <4>2. Newest(reports) \in Table
        BY <4>1 DEF Table
      <4>3. Newest(Table) \in Table /\ \A r \in Table : r.at <= Newest(Table).at
        BY <1>4, <3>1, <4>2, NewestOf
      <4>4. Newest(Table).at = Newest(reports).at
        <5>1. \A r \in reports : r.at \in Nat
          BY <1>4 DEF Row, Times
        <5>2. QED
          BY <3>1, <4>1, <4>2, <4>3, <5>1
      <4>5. Newest(Table) # Null
        BY <1>4, <3>1, <4>3, ConstantsAssumption DEF ConstantsAssumption
      <4>6. QED
        BY <3>1, <4>1, <4>2, <4>3, <4>4, <4>5
    <3>4. QED
      BY <3>2, <3>3
  <2> HIDE DEF latest
  <2>3. latest \in Row \cup {Null}
    BY <1>4, <2>2
  <2>4. page' \in Page
    BY <1>4, <1>5, <2>1, <2>3 DEF Page, Closed
  <2>5. page'.pc = "rows" /\ page'.now = now /\ page'.latest = latest
    BY <2>1 DEF Closed
  <2>6. Opened'
    BY <1>1, <1>4, <2>2, <2>5 DEF Opened
  <2>7. RowsRead' /\ Judged' /\ BlocksRead'
    BY <2>5 DEF RowsRead, Judged, BlocksRead
  <2>8. QED
    BY <1>2, <1>3, <2>4, <2>6, <2>7 DEF HealthInv
<1>7. ASSUME ReadRows PROVE HealthInv'
  <2> DEFINE rows == Since(page.now - page.span)
  <2>1. page.pc = "rows" /\ page' = [page EXCEPT !.pc = "buckets", !.rows = rows]
    BY <1>7 DEF ReadRows
  <2>2. page.span \in {Recent, Retention}
    BY <1>4 DEF Page
  <2>3. /\ rows \subseteq reports /\ rows \in SUBSET Row
        /\ \A r \in rows : Start24h <= r.at
        /\ page.latest # Null => Reading(rows, page.latest, page.now)
        /\ Covers(rows, page.span)
    BY <2>1, <2>2, SinceIs DEF HealthInv
  <2> HIDE DEF rows
  <2>4. page' \in Page
    BY <1>4, <2>1, <2>3 DEF Page
  <2>5. /\ page'.pc = "buckets" /\ page'.rows = rows /\ page'.now = page.now
        /\ page'.latest = page.latest /\ page'.span = page.span
    BY <1>4, <2>1 DEF Page
  <2>6. Opened'
    BY <1>1, <2>1, <2>5 DEF HealthInv, Opened
  <2>7. RowsRead'
    BY <1>1, <2>3, <2>5 DEF RowsRead, Start24h, Reading, Covers
  <2>8. Judged' /\ BlocksRead'
    BY <2>5 DEF Judged, BlocksRead
  <2>9. QED
    BY <1>2, <1>3, <2>4, <2>6, <2>7, <2>8 DEF HealthInv
<1>8. ASSUME ReadBuckets PROVE HealthInv'
  <2> DEFINE rows == Since(Start24h)
             blocks == Blocks(rows, page.latest, Start24h)
  <2>1. page.pc = "buckets" /\ page' = [page EXCEPT !.pc = "reread", !.blocks = blocks]
    BY <1>8 DEF ReadBuckets
  <2>2. blocks \in [Block -> Status \cup {"no-data"}]
    BY BlocksType
  <2>3. /\ rows \subseteq reports
        /\ \A r \in rows : Start24h <= r.at
        /\ \A p \in rows, x \in reports : p.at <= x.at => x \in rows
    BY <2>1, SinceIs DEF HealthInv, Start24h
  <2>4. ASSUME page.latest # Null, Start24h <= page.latest.at
        PROVE  \/ page.latest \in rows
               \/ /\ page.latest.at < Start24h + MaxOpen
                  /\ \E r \in reports : page.now <= r.at
    <3>1. /\ page.latest \in reports /\ page.now <= now /\ now <= page.now + MaxOpen
          /\ \A r \in reports : r.at < page.now => r.at <= page.latest.at
          /\ cutoff <= now - Retention /\ cutoff \in Int
          /\ \A r, x \in reports : r.at = x.at => r = x
      BY <2>1, <2>4, Lengths DEF HealthInv, Opened, HistoryInv, TypeOK
    <3>2. \A r \in reports : r.at \in Nat
      BY <1>4 DEF Row, Times
    <3>3. CASE page.latest \in Table
      BY <1>4, <2>4, <3>1, <3>2, <3>3 DEF Since, Start24h
    <3>4. CASE page.latest \notin Table
      <4>1. page.latest.at < cutoff /\ page.latest # Newest(reports)
        BY <3>1, <3>2, <3>4 DEF Table
      <4>2. Newest(reports) \in reports /\ page.latest.at <= Newest(reports).at
        BY <1>4, <3>1, NewestOf
      <4>3. page.now <= Newest(reports).at
        BY <1>4, <3>1, <3>2, <4>1, <4>2
      <4>4. page.latest.at < Start24h + MaxOpen
        BY <1>4, <3>1, <3>2, <4>1 DEF Start24h
      <4>5. QED
        BY <4>2, <4>3, <4>4
    <3>5. QED
      BY <3>3, <3>4
  <2>5. BucketRows(rows)
    BY <2>3, <2>4 DEF BucketRows
  <2> HIDE DEF rows
  <2>6. page' \in Page
    BY <1>4, <2>1, <2>2 DEF Page
  <2>7. /\ page'.pc = "reread" /\ page'.rows = page.rows /\ page'.now = page.now
        /\ page'.latest = page.latest /\ page'.span = page.span /\ page'.blocks = blocks
    BY <1>4, <2>1 DEF Page
  <2>8. Opened'
    BY <1>1, <2>1, <2>7 DEF HealthInv, Opened
  <2>9. RowsRead'
    BY <1>1, <2>1, <2>7 DEF HealthInv, RowsRead, Start24h, Reading, Covers
  <2>10. BlocksRead'
    <3>1. PICK some \in SUBSET reports : some = rows
      BY <2>3
    <3>2. BucketRows(some)'
      BY <1>1, <2>5, <2>7, <3>1 DEF BucketRows, Start24h
    <3>3. page'.blocks = Blocks(some, page'.latest, page'.now - Retention)
      BY <2>7, <3>1 DEF Start24h
    <3>4. QED
      BY <1>1, <3>2, <3>3 DEF BlocksRead, Start24h
  <2>11. Judged'
    BY <2>7 DEF Judged
  <2>12. QED
    BY <1>2, <1>3, <2>6, <2>8, <2>9, <2>10, <2>11 DEF HealthInv
<1>9. ASSUME Draw PROVE HealthInv'
  <2> DEFINE first == Assess(page.latest, page.rows, page.now)
             again == page.span = Recent /\ Predates(first)
             rows == IF again THEN Since(page.now - Retention) ELSE page.rows
             health == Assess(page.latest, rows, page.now)
  <2>1. page.pc = "reread" /\ page' = [page EXCEPT !.pc = "drawn", !.rows = rows, !.health = health]
    BY <1>9 DEF Draw
  <2>2. /\ page.rows \subseteq reports /\ page.rows \in SUBSET Row
        /\ \A r \in page.rows : Start24h <= r.at
        /\ page.latest # Null => Reading(page.rows, page.latest, page.now)
        /\ Covers(page.rows, page.span)
    BY <1>4, <2>1 DEF HealthInv, RowsRead, Page
  <2>3. LET more == Since(page.now - Retention)
        IN  /\ more \subseteq reports /\ more \in SUBSET Row
            /\ \A r \in more : Start24h <= r.at
            /\ page.latest # Null => Reading(more, page.latest, page.now)
            /\ Covers(more, Retention)
    BY <2>1, SinceIs DEF HealthInv
  <2>4. /\ rows \subseteq reports /\ rows \in SUBSET Row
        /\ \A r \in rows : Start24h <= r.at
        /\ page.latest # Null => Reading(rows, page.latest, page.now)
    BY <2>2, <2>3
  <2>5. \/ Covers(rows, Retention)
        \/ rows = page.rows /\ page.span = Recent /\ ~Predates(health)
    <3>1. CASE again
      BY <2>3, <3>1
    <3>2. CASE ~again /\ page.span = Recent
      <4>1. rows = page.rows
        BY <3>2
      <4>2. health = first
        BY <4>1
      <4>3. ~Predates(first)
        BY <3>2
      <4>4. QED
        BY <3>2, <4>1, <4>2, <4>3
    <3>3. CASE ~again /\ page.span # Recent
      <4>1. page.span = Retention
        BY <1>4, <3>3 DEF Page
      <4>2. rows = page.rows
        BY <3>3
      <4>3. QED
        BY <2>2, <4>1, <4>2
    <3>4. QED
      BY <3>1, <3>2, <3>3
  <2>6. page.latest \in reports \cup {Null}
    BY <2>1 DEF HealthInv, Opened
  <2> HIDE DEF rows
  <2>7. health \in Verdict
    BY <1>4, <2>4, <2>6, AssessType DEF HealthInv
  <2> HIDE DEF health
  <2>8. page' \in Page
    BY <1>4, <2>1, <2>4, <2>7 DEF Page
  <2>9. /\ page'.pc = "drawn" /\ page'.rows = rows /\ page'.now = page.now
        /\ page'.latest = page.latest /\ page'.span = page.span /\ page'.blocks = page.blocks
        /\ page'.health = health
    BY <1>4, <2>1 DEF Page
  <2>10. Opened'
    BY <1>1, <2>1, <2>9 DEF HealthInv, Opened
  <2>11. RowsRead'
    BY <1>1, <2>4, <2>9 DEF RowsRead, Start24h, Reading
  <2>12. Judged'
    <3>1. page'.health = Assess(page'.latest, page'.rows, page'.now)
      BY <2>9 DEF health
    <3>2. CASE Covers(rows, Retention)
      <4>1. Covers(page.rows, Retention)'
        BY <1>1, <2>9, <3>2 DEF Covers
      <4>2. QED
        BY <3>1, <4>1 DEF Judged
    <3>3. CASE rows = page.rows /\ page.span = Recent /\ ~Predates(health)
      <4>1. ~Predates(page.health)' /\ page'.span = Recent
        BY <2>9, <3>3 DEF Predates
      <4>2. QED
        BY <3>1, <4>1 DEF Judged
    <3>4. QED
      BY <2>5, <3>2, <3>3
  <2>13. BlocksRead'
    <3>1. PICK some \in SUBSET reports :
              BucketRows(some) /\ page.blocks = Blocks(some, page.latest, Start24h)
      BY <2>1 DEF HealthInv, BlocksRead
    <3>2. BucketRows(some)'
      BY <1>1, <2>9, <3>1 DEF BucketRows, Start24h
    <3>3. QED
      BY <1>1, <2>9, <3>1, <3>2 DEF BlocksRead, Start24h
  <2>14. QED
    BY <1>2, <1>3, <2>8, <2>10, <2>11, <2>12, <2>13 DEF HealthInv
<1>10. ASSUME ClosePage PROVE HealthInv'
  <2>1. page' = Closed
    BY <1>10 DEF ClosePage
  <2>2. page'.pc = "closed"
    BY <2>1 DEF Closed
  <2>3. QED
    BY <1>2, <1>3, <1>5, <2>1, <2>2 DEF HealthInv, Opened, RowsRead, Judged, BlocksRead
<1>11. QED
  BY <1>6, <1>7, <1>8, <1>9, <1>10

LEMMA HealthInit == Init => HealthInv
<1> SUFFICES ASSUME Init PROVE HealthInv
  OBVIOUS
<1>1. Closed \in Page
  BY Lengths, ConstantsAssumption DEF Closed, Page, Times, ConstantsAssumption
<1>2. \A i \in Intervals : Start(0, i) \in Process
  BY ConstantsAssumption DEF Start, Process, Times, ConstantsAssumption
<1>3. TypeOK
  BY <1>1, <1>2, Lengths, ConstantsAssumption DEF Init, TypeOK, Times, ConstantsAssumption
<1>4. page.pc = "closed"
  BY DEF Init, Closed
<1>5. QED
  BY <1>3, <1>4, HistoryInit DEF HealthInv, Opened, RowsRead, Judged, BlocksRead

(* What the history and the page keep holds in every state.                *)
LEMMA HealthInvariant == Spec => []HealthInv
<1>1. HealthInv /\ [Next]_vars => HealthInv'
  BY ReportStep, OutsideStep, PageStep DEF Next
<1>2. QED
  BY HealthInit, <1>1, PTL DEF Spec

(* Verdicts, blocks and rows are well formed in every state.               *)
THEOREM TypeCorrect == Spec => []TypeOK
<1>1. HealthInv => TypeOK
  BY DEF HealthInv
<1>2. QED
  BY <1>1, HealthInvariant, PTL

-------------------------------------------------------------------------------
(* What an alarm that is shown rests on.                                   *)
LEMMA Alarmed ==
    ASSUME HealthInv, Alarm
    PROVE  LET flat == FlatSince(page.rows, page.latest, Counter)
           IN  /\ page.latest \in reports /\ page.latest \in page.rows
               /\ Counter \in Counters /\ page.latest[Counter] # Null
               /\ Reading(page.rows, page.latest, page.now) /\ page.latest # Null
               /\ Own = OwnOf(page.latest)
               /\ Counted(Counter) = CountedOf(page.latest, Counter)
               /\ Counted("received") = CountedOf(page.latest, "received")
               /\ Gained(Counter) = GainedOf(page.latest, Counter)
               /\ Counter = "published" => flat.received # Null /\ page.latest.received \in Nat
               /\ Standstill(page.latest, page.rows, Counter, page.now)
               /\ FlatIs(flat, page.rows, page.latest, Counter)
               /\ page.health.since = flat.at /\ page.health.known = flat.known
               /\ page.health.got = IF Counter = "received" THEN 0
                                    ELSE page.latest.received - flat.received
<1>1. /\ page.pc = "drawn" /\ page.health = Assess(page.latest, page.rows, page.now)
      /\ page.health.status \in {"no-packets", "not-publishing"}
  BY DEF HealthInv, Judged, Alarm, Drawn
<1>2. page.latest # Null
  <2>1. Plain("no-reports").status = "no-reports"
    BY DEF Plain
  <2>2. "no-reports" \notin {"no-packets", "not-publishing"}
    OBVIOUS
  <2>3. page.latest = Null => page.health = Plain("no-reports")
    BY <1>1 DEF Assess
  <2>4. QED
    BY <1>1, <2>1, <2>2, <2>3
<1>3. /\ page.latest \in reports /\ page.rows \subseteq reports
      /\ Reading(page.rows, page.latest, page.now)
  BY <1>1, <1>2 DEF HealthInv, Opened, RowsRead
<1>4. page.now \in Times /\ TypeOK /\ HistoryInv
  BY DEF HealthInv, TypeOK, Page
<1>5. Counter = CounterOf(page.health.status) /\ Counter \in Counters
  BY DEF Counter, CounterOf, Counters
<1>6. AlarmIs(page.health, page.latest, page.rows, page.now)
  BY <1>1, <1>3, <1>4, AssessAlarm
<1>7. /\ page.latest \in page.rows /\ page.latest[Counter] # Null
      /\ Standstill(page.latest, page.rows, Counter, page.now)
  BY <1>5, <1>6 DEF AlarmIs
<1>8. FlatIs(FlatSince(page.rows, page.latest, Counter), page.rows, page.latest, Counter)
  BY <1>3, <1>4, <1>5, <1>7, FlatExact
<1>9. Own = OwnOf(page.latest) /\ \A c : Counted(c) = CountedOf(page.latest, c)
  BY DEF Own, OwnOf, Counted, CountedOf
<1>10. Gained(Counter) = GainedOf(page.latest, Counter)
  BY <1>9 DEF Gained, GainedOf
<1>11. QED
  BY <1>2, <1>3, <1>10, <1>5, <1>6, <1>7, <1>8, <1>9 DEF AlarmIs

(* The oldest row is of the process if the process began before it.        *)
LEMMA OldestIsOwn ==
    ASSUME TypeOK, HistoryInv, NEW latest \in reports, NEW rows \in SUBSET reports,
           latest \in rows, latest.started < Oldest(rows).at
    PROVE  Oldest(rows) \in OwnOf(latest) \cap rows
<1> DEFINE o == Oldest(rows)
<1>1. rows \subseteq Row
  BY DEF TypeOK
<1>2. o \in rows /\ o.at <= latest.at
  BY <1>1, OldestOf
<1> HIDE DEF o
<1>3. /\ o.at \in Nat /\ latest.at \in Nat /\ o.started \in Nat /\ latest.started \in Nat
  BY <1>1, <1>2 DEF Row, Times
<1>4. latest.started < o.at
  BY DEF o
<1>5. o.started <= latest.started
  <2>1. CASE o.at = latest.at
    BY <1>2, <1>3, <2>1 DEF HistoryInv
  <2>2. CASE o.at < latest.at
    BY <1>2, <1>3, <2>2 DEF HistoryInv
  <2>3. QED
    BY <1>2, <1>3, <2>1, <2>2
<1>6. ~(o.started < latest.started)
  BY <1>2, <1>3, <1>4 DEF HistoryInv
<1>7. QED
  BY <1>2, <1>3, <1>5, <1>6 DEF OwnOf, o
(* "No packets received since 13:26" names the last report by which the    *)
(* counter had grown, or the start of the process; "since before 13:26" is *)
(* said only if no two reports still kept show when (_flat_since), with    *)
(* whatever counters the reports had, missing or falling.                  *)
THEOREM OnsetsAreExact == Spec => []OnsetExact
<1> DEFINE latest == page.latest
           health == page.health
           c      == Counter
           gained == Gained(Counter)
           Kept   == {r \in Counted(Counter) \cap Table : Start24h <= r.at}
           Shown  == {r \in gained : \E x \in Kept : x.at < r.at}
           Told(at, received) ==
               /\ health.since = at
               /\ Counter = "published" =>
                      received # Null /\ health.got = latest.received - received
           flat   == FlatSince(page.rows, page.latest, Counter)
<1>1. ASSUME HealthInv, Alarm
      PROVE  IF health.known
               THEN \/ gained # {} /\ Told(Newest(gained).at, Newest(gained).received)
                    \/ Shown = {} /\ latest[Counter] = 0 /\ Told(latest.started, 0)
               ELSE /\ \A r \in gained : r.at <= health.since
                    /\ \/ Shown = {}
                       \/ page.span = Recent /\ Oldest(page.rows)[Counter] = Null
  <2>1. /\ latest \in reports /\ latest \in page.rows /\ latest # Null
        /\ c \in Counters /\ Reading(page.rows, latest, page.now)
        /\ Counted(Counter) = CountedOf(latest, c) /\ gained = GainedOf(latest, c)
        /\ FlatIs(flat, page.rows, latest, c)
        /\ health.since = flat.at /\ health.known = flat.known
        /\ health.got = IF Counter = "received" THEN 0 ELSE latest.received - flat.received
        /\ Counter = "published" => flat.received # Null
        /\ Own = OwnOf(latest)
    BY <1>1, Alarmed
  <2>2. TypeOK /\ HistoryInv
    BY <1>1 DEF HealthInv
  <2>3. /\ page.rows \subseteq reports /\ page.rows # {} /\ page.rows \subseteq Row
        /\ \A r \in Row : r.at \in Nat
        /\ page.now \in Nat /\ Retention \in Nat
    BY <2>1, <2>2, Lengths DEF Reading, TypeOK, Page, Row, Times
  <2>4. Oldest(page.rows) \in page.rows
    BY <2>3, OldestOf
  <2>5. /\ \A r \in CountedOf(latest, c) :
               /\ r \in reports /\ r.at \in Nat /\ r.at <= latest.at
               /\ latest.started <= r.at
        /\ latest.started \in Nat /\ GainedOf(latest, c) \subseteq CountedOf(latest, c)
    BY <2>1, <2>2, CountedTypes DEF GainedOf
  <2>6. \/ Covers(page.rows, Retention)
        \/ page.span = Recent /\ health.since > Oldest(page.rows).at
    <3>1. Covers(page.rows, Retention) \/ (page.span = Recent /\ ~Predates(page.health))
      BY <1>1 DEF HealthInv, Judged, Alarm, Drawn
    <3>2. ~Predates(page.health) => ~(health.since <= Oldest(page.rows).at)
      BY <1>1, <2>3 DEF Predates, Alarm
    <3>3. health.since \in Nat /\ Oldest(page.rows).at \in Nat
      BY <2>1, <2>3, <2>4 DEF FlatIs, Times
    <3>4. QED
      BY <3>1, <3>2, <3>3
  <2>7. Covers(page.rows, Retention) => Kept \subseteq CountedOf(latest, c) \cap page.rows
    <3>1. SUFFICES ASSUME Covers(page.rows, Retention), NEW x \in Kept
                   PROVE  x \in CountedOf(latest, c) \cap page.rows
      OBVIOUS
    <3>2. x \in CountedOf(latest, c) /\ x \in Table /\ Start24h <= x.at
      BY <2>1
    <3>3. x \in page.rows
      BY <2>1, <2>3, <2>5, <3>1, <3>2 DEF Covers, Start24h
    <3>4. QED
      BY <3>2, <3>3
  <2>8. ASSUME NoneGrown(page.rows, latest, c), Kept \subseteq CountedOf(latest, c) \cap page.rows
        PROVE  Shown = {}
    BY <2>1, <2>8 DEF NoneGrown
  <2> HIDE DEF Shown, Kept, gained, flat, latest, health, c
  <2>9. CASE /\ flat.known /\ GainedOf(latest, c) # {}
             /\ Dates(flat, Newest(GainedOf(latest, c)))
    <3>1. gained # {} /\ Told(Newest(gained).at, Newest(gained).received)
      BY <2>1, <2>9 DEF Dates, Counters
    <3>2. QED
      BY <2>1, <2>9, <3>1
  <2>10. CASE /\ flat.known /\ latest[c] = 0 /\ NoneGrown(page.rows, latest, c)
              /\ flat.at = latest.started /\ flat.received = 0
    <3>1. Told(latest.started, 0)
      BY <2>1, <2>10, ConstantsAssumption DEF ConstantsAssumption
    <3>2. Kept \subseteq CountedOf(latest, c) \cap page.rows
      <4>1. CASE Covers(page.rows, Retention)
        BY <2>7, <4>1
      <4>2. CASE health.since > Oldest(page.rows).at
        <5>1. ASSUME NEW x \in CountedOf(latest, c) PROVE x \in page.rows
          <6>1. Oldest(page.rows).at <= x.at
            BY <2>1, <2>3, <2>4, <2>5, <2>10, <4>2
          <6>2. QED
            BY <2>1, <2>4, <2>5, <6>1 DEF Reading
        <5>2. QED
          BY <2>1, <5>1 DEF Kept
      <4>3. QED
        BY <2>6, <4>1, <4>2
    <3>3. Shown = {}
      BY <2>8, <2>10, <3>2
    <3>4. latest[Counter] = 0
      BY <2>10 DEF c
    <3>5. QED
      BY <2>1, <2>10, <3>1, <3>3, <3>4
  <2>11. ASSUME ~flat.known, NoneGrown(page.rows, latest, c), latest.started < Oldest(page.rows).at,
                NEW d \in CountedOf(latest, c) \cap page.rows, Dates(flat, d),
                \A x \in CountedOf(latest, c) \cap page.rows : d.at <= x.at
         PROVE  /\ \A r \in gained : r.at <= health.since
                /\ \/ Shown = {}
                   \/ page.span = Recent /\ Oldest(page.rows)[Counter] = Null
    <3>1. health.since = d.at /\ d.at \in Nat
      BY <2>1, <2>5, <2>11 DEF Dates
    <3>2. ASSUME NEW r \in gained PROVE r.at <= health.since
      <4>1. r \in GainedOf(latest, c) /\ r.at \in Nat
        BY <2>1, <2>5
      <4>2. ~(d.at < r.at)
        BY <2>11, <4>1 DEF NoneGrown
      <4>3. QED
        BY <3>1, <4>1, <4>2
    <3>3. CASE Covers(page.rows, Retention)
      BY <2>7, <2>8, <2>11, <3>2, <3>3
    <3>4. CASE page.span = Recent /\ health.since > Oldest(page.rows).at
      <4>1. Oldest(page.rows) \in OwnOf(latest)
        BY <2>1, <2>2, <2>3, <2>11, OldestIsOwn
      <4>2. Oldest(page.rows) \notin CountedOf(latest, c)
        BY <2>3, <2>4, <2>11, <3>1, <3>4
      <4>3. Oldest(page.rows)[Counter] = Null
        BY <4>1, <4>2 DEF CountedOf, c
      <4>4. QED
        BY <3>2, <3>4, <4>3
    <3>5. QED
      BY <2>6, <3>3, <3>4
  <2>12. flat.known => IF health.known
               THEN \/ gained # {} /\ Told(Newest(gained).at, Newest(gained).received)
                    \/ Shown = {} /\ latest[Counter] = 0 /\ Told(latest.started, 0)
               ELSE TRUE
    BY <2>1, <2>9, <2>10 DEF FlatIs
  <2>13. ~flat.known =>
             /\ \A r \in gained : r.at <= health.since
             /\ \/ Shown = {}
                \/ page.span = Recent /\ Oldest(page.rows)[Counter] = Null
    BY <2>1, <2>11 DEF FlatIs
  <2>14. QED
    BY <2>1, <2>12, <2>13
<1>2. HealthInv => OnsetExact
  BY <1>1 DEF OnsetExact
<1>3. QED
  BY <1>2, HealthInvariant, PTL

(* An alarm needs EvidenceMin of standstill within one process, and "not   *)
(* publishing" that packets arrived since (EVIDENCE_MIN in assess), unless *)
(* a counter went down under one started_at.                               *)
THEOREM AlarmsHaveEvidence == Spec => []AlarmHasEvidence
<1> DEFINE latest == page.latest
           Reset  == Fell(Counter, page.now - Window)
           still  == \A r \in Counted(Counter) :
                         r.at >= latest.at - EvidenceMin => r[Counter] = latest[Counter]
           arrived == page.health.got > 0
<1>1. ASSUME HealthInv, Alarm
      PROVE  /\ latest.started <= latest.at - EvidenceMin
             /\ ~Reset => still
             /\ (page.health.status = "not-publishing" /\ ~Reset
                   /\ ~Fell("received", page.health.since)) => arrived
  <2> DEFINE c == Counter
             all == CountedOf(latest, c)
             flat == FlatSince(page.rows, page.latest, Counter)
  <2>1. /\ latest \in reports /\ latest \in page.rows /\ c \in Counters /\ latest[c] # Null
        /\ Reading(page.rows, latest, page.now)
        /\ Counted(c) = all /\ Counted("received") = CountedOf(latest, "received")
        /\ Gained(c) = GainedOf(latest, c)
        /\ Standstill(latest, page.rows, c, page.now) /\ FlatIs(flat, page.rows, latest, c)
        /\ page.health.since = flat.at
        /\ page.health.got = IF c = "received" THEN 0 ELSE latest.received - flat.received
        /\ c = "published" => flat.received # Null /\ latest.received \in Nat
    BY <1>1, Alarmed
  <2>2. TypeOK /\ HistoryInv
    BY <1>1 DEF HealthInv
  <2>3. /\ EvidenceMin \in Nat /\ Window \in Nat /\ page.now \in Nat
        /\ latest.started \in Nat /\ latest.at \in Nat /\ flat.at \in Nat
        /\ flat.received \in Nat \cup {Null}
    BY <2>1, <2>2, ConstantsAssumption
       DEF TypeOK, Page, Row, Times, FlatIs, Count, ConstantsAssumption
  <2>4. /\ \A r \in all : /\ r \in OwnOf(latest) /\ r[c] \in Nat /\ r.at \in Nat
                           /\ r.at <= latest.at /\ latest.started <= r.at
        /\ \A r, x \in all : r.at = x.at => r = x
        /\ latest \in all /\ all \subseteq Row
        /\ GainedOf(latest, c) \subseteq all
    BY <2>1, <2>2, CountedTypes DEF GainedOf
  <2>5. ~Reset => \A r, x \in all : page.now - Window <= r.at /\ r.at < x.at => r[c] <= x[c]
    BY <2>1, <2>4 DEF Fell
  <2>6. page.health.status = "not-publishing" => c = "published"
    BY DEF Counter
  <2>7. ~Fell("received", page.health.since) =>
            \A r, x \in CountedOf(latest, "received") :
                flat.at <= r.at /\ r.at < x.at => ~(x.received < r.received)
    BY <2>1 DEF Fell
  <2>8. \A r \in OwnOf(latest) : r.received \in Nat => r \in CountedOf(latest, "received")
    BY ConstantsAssumption DEF CountedOf, ConstantsAssumption
  <2> HIDE DEF latest, Reset, c, all, flat
  <2>9. ASSUME latest.started <= latest.at - EvidenceMin, page.now - Window <= latest.started,
               latest[c] = 0, c = "published" => latest.received > 0
        PROVE  /\ ~Reset => \A r \in all : r[c] = latest[c]
               /\ ~Reset /\ c = "published" => page.health.got > 0
    <3>1. ASSUME ~Reset, NEW r \in all PROVE r[c] = latest[c]
      <4>1. page.now - Window <= r.at
        BY <2>3, <2>4, <2>9
      <4>2. r.at < latest.at => r[c] <= latest[c]
        BY <2>4, <2>5, <3>1, <4>1
      <4>3. r.at = latest.at => r = latest
        BY <2>4
      <4>4. QED
        BY <2>4, <2>3, <2>9, <4>2, <4>3
    <3>2. ASSUME ~Reset, c = "published" PROVE flat.received = 0
      <4>1. ASSUME NEW r \in GainedOf(latest, c) PROVE FALSE
        <5>1. r \in all /\ r[c] = 0
          BY <2>4, <2>9, <3>1, <3>2
        <5>2. CASE Before(all, r) = {}
          BY <5>1, <5>2 DEF GainedOf, all
        <5>3. CASE Before(all, r) # {}
          <6>1. Prev(all, r) \in all
            BY <2>4, <5>3, NewestOf DEF Prev, Before
          <6>2. Prev(all, r)[c] = 0
            BY <2>9, <3>1, <3>2, <6>1
          <6>3. QED
            BY <5>1, <5>3, <6>2 DEF GainedOf, all
        <5>4. QED
          BY <5>2, <5>3
      <4>2. QED
        BY <2>1, <2>9, <4>1 DEF FlatIs
    <3>3. QED
      BY <2>1, <2>3, <2>9, <3>1, <3>2
  <2>10. ASSUME NEW f \in OwnOf(latest) \cap page.rows,
                f.at <= latest.at - EvidenceMin, page.now - Window <= f.at, f[c] = latest[c],
                c = "published" => f.received \in Nat /\ f.received < latest.received
         PROVE  /\ latest.started <= latest.at - EvidenceMin
                /\ ~Reset => \A r \in all : r.at >= f.at => r[c] = latest[c]
                /\ (~Reset /\ c = "published" /\ ~Fell("received", page.health.since))
                       => page.health.got > 0
    <3>1. f \in all /\ f.at \in Nat
      BY <2>1, <2>4, <2>10 DEF CountedOf, all
    <3>2. latest.started <= latest.at - EvidenceMin
      BY <2>3, <2>4, <2>10, <3>1
    <3>3. ASSUME ~Reset, NEW r \in all, r.at >= f.at PROVE r[c] = latest[c]
      <4>1. page.now - Window <= r.at
        BY <2>3, <2>4, <2>10, <3>1, <3>3
      <4>2. r.at < latest.at => r[c] <= latest[c]
        BY <2>4, <2>5, <3>3, <4>1
      <4>3. f.at < r.at => f[c] <= r[c]
        BY <2>4, <2>5, <2>10, <3>1, <3>3
      <4>4. (r.at = latest.at => r = latest) /\ (r.at = f.at => r = f)
        BY <2>4, <3>1
      <4>5. QED
        BY <2>4, <2>10, <3>1, <3>3, <4>2, <4>3, <4>4
    <3>4. ASSUME ~Reset PROVE flat.received = 0 \/ \E d \in all : Dates(flat, d) /\ d.at <= f.at
      <4>1. ASSUME GainedOf(latest, c) # {}
            PROVE  /\ Newest(GainedOf(latest, c)) \in all
                   /\ Newest(GainedOf(latest, c)).at <= f.at
        <5> DEFINE d == Newest(GainedOf(latest, c))
        <5>1. d \in GainedOf(latest, c) /\ d \in all
          BY <2>4, <4>1, NewestOf
        <5> HIDE DEF d
        <5>2. SUFFICES ASSUME f.at < d.at PROVE FALSE
          BY <2>4, <3>1, <5>1 DEF d
        <5>3. f \in Before(all, d)
          BY <3>1, <5>2 DEF Before
        <5>4. /\ Prev(all, d) \in Before(all, d)
              /\ f.at <= Prev(all, d).at
          BY <2>4, <5>3, NewestOf DEF Prev, Before
        <5>5. Prev(all, d) \in all
          BY <5>4 DEF Before
        <5>6. Prev(all, d)[c] = latest[c] /\ d[c] = latest[c]
          BY <2>4, <3>1, <3>3, <3>4, <5>1, <5>2, <5>4, <5>5
        <5>7. d[c] > Prev(all, d)[c]
          BY <5>1, <5>3 DEF GainedOf, all
        <5>8. QED
          BY <2>4, <5>1, <5>6, <5>7
      <4>2. f \in CountedOf(latest, c) \cap page.rows
        BY <2>10, <3>1 DEF all
      <4>3. CASE /\ flat.known /\ GainedOf(latest, c) # {}
                 /\ Dates(flat, Newest(GainedOf(latest, c)))
        BY <4>1, <4>3
      <4>4. ASSUME NEW d \in CountedOf(latest, c) \cap page.rows, Dates(flat, d),
                   \A x \in CountedOf(latest, c) \cap page.rows : d.at <= x.at
            PROVE  \E e \in all : Dates(flat, e) /\ e.at <= f.at
        BY <4>2, <4>4 DEF all
      <4>5. QED
        BY <2>1, <4>3, <4>4 DEF FlatIs
    <3>5. ASSUME ~Reset, c = "published", ~Fell("received", page.health.since)
          PROVE  flat.received <= f.received /\ flat.received \in Nat
      <4>1. flat.received \in Nat /\ f.received \in Nat
        BY <2>1, <2>3, <2>10, <3>5
      <4>2. ASSUME NEW d \in all, Dates(flat, d), d.at <= f.at
            PROVE  flat.received <= f.received
        <5>1. d.received \in Nat /\ flat.received = d.received /\ flat.at = d.at /\ d.at \in Nat
          BY <2>4, <4>1, <4>2 DEF Dates
        <5>2. d \in CountedOf(latest, "received") /\ f \in CountedOf(latest, "received")
          BY <2>4, <2>8, <2>10, <4>1, <5>1
        <5>3. d.at < f.at => ~(f.received < d.received)
          BY <2>7, <3>5, <5>1, <5>2
        <5>4. d.at = f.at => d = f
          BY <2>4, <3>1
        <5>5. QED
          BY <3>1, <4>1, <4>2, <5>1, <5>3, <5>4
      <4>3. QED
        BY <3>4, <3>5, <4>1, <4>2
    <3>6. QED
      BY <2>1, <2>10, <3>2, <3>3, <3>5, <2>3
  <2>11. ASSUME NEW f \in OwnOf(latest) \cap page.rows,
                f.at <= latest.at - EvidenceMin, ~Reset,
                \A r \in all : r.at >= f.at => r[c] = latest[c],
                NEW r \in all, r.at >= latest.at - EvidenceMin
         PROVE  r[c] = latest[c]
    <3>1. f.at \in Nat
      BY <2>1, <2>2, CountedTypes DEF latest, c
    <3>2. r.at >= f.at
      BY <2>3, <2>4, <2>11, <3>1
    <3>3. QED
      BY <2>11, <3>2
  <2>12. \/ /\ latest.started <= latest.at - EvidenceMin /\ page.now - Window <= latest.started
            /\ latest[c] = 0 /\ (c = "published" => latest.received > 0)
         \/ \E f \in OwnOf(latest) \cap page.rows :
                /\ f.at <= latest.at - EvidenceMin /\ page.now - Window <= f.at
                /\ f[c] = latest[c]
                /\ c = "published" => f.received \in Nat /\ f.received < latest.received
    BY <2>1 DEF Standstill
  <2>13. /\ latest.started <= latest.at - EvidenceMin
         /\ ~Reset => \A r \in all : r.at >= latest.at - EvidenceMin => r[c] = latest[c]
         /\ (~Reset /\ c = "published" /\ ~Fell("received", page.health.since))
                => page.health.got > 0
    BY <2>9, <2>10, <2>11, <2>12
  <2>14. QED
    BY <2>1, <2>6, <2>13 DEF c
<1>2. HealthInv => AlarmHasEvidence
  BY <1>1 DEF AlarmHasEvidence
<1>3. QED
  BY <1>2, HealthInvariant, PTL

(* A counter of received packets that stands still long enough is said so. *)
LEMMA TrafficSilent ==
    ASSUME NEW latest, NEW rows, NEW base, latest.at \in Int, base.since \in Int,
           latest.at - base.since >= EvidenceMin,
           Grew(base.row, latest, "received") = 0
    PROVE  Traffic(latest, rows, base).status = "no-packets"
<1> DEFINE silent == StoppedSince("no-packets", FlatSince(rows, latest, "received"), 0)
<1>1. silent.status = "no-packets"
  BY DEF StoppedSince
<1>2. ~(latest.at - base.since < EvidenceMin)
  BY ConstantsAssumption DEF ConstantsAssumption
<1>3. Traffic(latest, rows, base) = silent
  BY <1>2 DEF Traffic
<1>4. QED
  BY <1>1, <1>3

(* A shoveler that has run for EvidenceMin, reported on time over the      *)
(* window and received nothing in it is shown as "no packets": however the *)
(* reports lie, the two at the window's ends are EvidenceMin apart.        *)
THEOREM SilenceIsFlagged == Spec => []SilentFlagged
<1> DEFINE latest == page.latest
           begin  == IF latest.started >= page.now - Window THEN latest.started
                     ELSE page.now - Window
           seen   == {r \in Own : r.at >= begin}
           OnTime == /\ 2 * latest.interval <= Window - EvidenceMin
                     /\ \A t \in begin .. page.now - latest.interval :
                            \E r \in seen : t <= r.at /\ r.at <= t + latest.interval
           Silent == latest.received # Null /\
                     \A r \in seen : /\ r.received = latest.received
                                     /\ latest.started >= page.now - Window => r.received = 0
<1>1. ASSUME HealthInv, Drawn, page.latest # Null, OnTime, Silent,
             latest.at - latest.started >= EvidenceMin, ~Stale(latest, page.now)
      PROVE  page.health.status = "no-packets"
  <2> DEFINE base == Baseline(latest, page.rows, page.now)
             f == FirstInWindow(latest, page.rows, page.now)
  <2>1. /\ latest \in reports /\ latest \in Row /\ page.rows \in SUBSET reports
        /\ Reading(page.rows, latest, page.now) /\ reports \subseteq Row
        /\ page.health = Assess(latest, page.rows, page.now)
    BY <1>1 DEF HealthInv, Opened, RowsRead, Judged, Drawn, TypeOK
  <2>2. page.health = Traffic(latest, page.rows, base)
    BY <1>1, <2>1 DEF Assess
  <2>3. /\ latest.at \in Nat /\ latest.started \in Nat /\ latest.received \in Nat
        /\ latest.interval \in Nat /\ page.now \in Nat /\ page.now \in Times
        /\ Window \in Nat /\ EvidenceMin \in Nat /\ EvidenceMin > 0
    <3>1. latest.interval \in Nat
      BY <2>1, ConstantsAssumption DEF Row, ConstantsAssumption
    <3>2. latest.at \in Nat /\ latest.started \in Nat /\ latest.received \in Nat
      BY <1>1, <2>1 DEF Row, Times, Count
    <3>3. page.now \in Nat /\ page.now \in Times
      BY <1>1 DEF HealthInv, TypeOK, Page, Times
    <3>4. QED
      BY <3>1, <3>2, <3>3, ConstantsAssumption DEF ConstantsAssumption
  <2>4. \A r \in Own : /\ r \in reports /\ r.at \in Nat /\ r.at <= latest.at
                        /\ r.started = latest.started
    BY <2>1 DEF Own, Row, Times
  <2>5. latest \in Own
    BY <2>1, <2>3 DEF Own
  <2> HIDE DEF latest
  <2>6. CASE latest.started >= page.now - Window
    <3>1. base = [row |-> Zero, since |-> latest.started]
      BY <2>6 DEF Baseline
    <3>2. latest.received = 0
      <4>1. latest \in seen
        BY <1>1, <2>3, <2>5, <2>6
      <4>2. QED
        BY <1>1, <2>6, <4>1
    <3>3. base.row.received = 0 /\ base.since = latest.started
      BY <3>1 DEF Zero
    <3>4. Grew(base.row, latest, "received") = 0
      BY <3>2, <3>3, GrewIs
    <3>5. latest.at - base.since >= EvidenceMin
      BY <1>1, <3>3
    <3> HIDE DEF base
    <3>6. QED
      BY <2>2, <2>3, <3>3, <3>4, <3>5, TrafficSilent
  <2>7. CASE ~(latest.started >= page.now - Window)
    <3>1. base = [row |-> f, since |-> f.at] /\ begin = page.now - Window
      BY <2>7 DEF Baseline
    <3>2. /\ f \in Row /\ f \in reports /\ f.started = latest.started
          /\ f # latest => f \in page.rows /\ f.at >= page.now - Window
          /\ \A r \in page.rows : r.started = latest.started /\ r.at >= page.now - Window
                                    => f.at <= r.at
      BY <1>1, <2>1, <2>3, FirstInWindowIs DEF HealthInv
    <3> HIDE DEF f
    <3>3. f.at \in Nat
      BY <3>2 DEF Row, Times
    <3>4. latest.interval <= Window /\ 2 * latest.interval <= Window - EvidenceMin
      BY <1>1, <2>3
    <3>5. PICK r \in seen : r.at <= page.now - Window + latest.interval
      <4>1. begin \in begin .. page.now - latest.interval
        BY <2>3, <3>1, <3>4
      <4>2. QED
        BY <1>1, <3>1, <4>1
    <3>6. PICK x \in seen : page.now - latest.interval <= x.at
      <4>1. page.now - latest.interval \in begin .. page.now - latest.interval
        BY <2>3, <3>1, <3>4
      <4>2. QED
        BY <1>1, <4>1
    <3>7. r \in page.rows /\ f.at <= r.at
      <4>1. /\ r \in reports /\ r.at >= page.now - Window /\ r.at <= latest.at
            /\ r.started = latest.started /\ r.at \in Nat
        BY <2>4, <3>1, <3>5
      <4>2. page.now - Window <= r.at
        BY <2>3, <4>1
      <4>3. r \in page.rows
        BY <2>1, <4>1, <4>2 DEF Reading
      <4>4. QED
        BY <3>2, <4>1, <4>3
    <3>8. latest.at - f.at >= EvidenceMin
      <4>1. r.at \in Nat /\ x.at \in Nat /\ x.at <= latest.at
        BY <2>4, <3>5, <3>6
      <4>2. QED
        BY <2>3, <3>3, <3>4, <3>5, <3>6, <3>7, <4>1
    <3>9. f.received = latest.received
      <4>1. f # latest /\ f.at <= latest.at
        BY <2>3, <3>3, <3>8
      <4>2. f \in seen
        BY <3>1, <3>2, <4>1 DEF Own, latest
      <4>3. QED
        BY <1>1, <4>2
    <3>10. base.row = f /\ base.since = f.at
      BY <3>1
    <3> HIDE DEF base
    <3>11. Grew(base.row, latest, "received") = 0
      BY <2>3, <3>3, <3>9, <3>10, GrewIs
    <3>12. QED
      BY <2>2, <2>3, <3>3, <3>8, <3>10, <3>11, TrafficSilent
  <2>8. QED
    BY <2>6, <2>7
<1>2. HealthInv => SilentFlagged
  BY <1>1 DEF SilentFlagged
<1>3. QED
  BY <1>2, HealthInvariant, PTL

-------------------------------------------------------------------------------
(* Equal widths follow each other: the i-th ends where the next begins.    *)
LEMMA Widths ==
    ASSUME NEW w \in Nat \ {0}
    PROVE  /\ \A i \in Nat : i * w \in Nat
           /\ \A i \in Int : (i - 1) * w = i * w - w /\ i * w \in Int
           /\ \A i, k \in Nat : k <= i => k * w <= i * w
           /\ \A i, k \in Nat : k < i => k * w <= (i - 1) * w /\ k * w < i * w
<1>1. \A i \in Nat : i * w \in Nat
  OBVIOUS
<1>2. \A i \in Int : (i - 1) * w = i * w - w /\ i * w \in Int
  OBVIOUS
<1>3. ASSUME NEW i \in Nat, NEW k \in Nat, k <= i PROVE k * w <= i * w
  <2>1. i - k \in Nat /\ (i - k) * w = i * w - k * w
    BY <1>3
  <2>2. (i - k) * w \in Nat /\ i * w \in Nat /\ k * w \in Nat
    BY <1>1, <2>1
  <2>3. QED
    BY <2>1, <2>2
<1>4. ASSUME NEW i \in Nat, NEW k \in Nat, k < i
      PROVE  k * w <= (i - 1) * w /\ k * w < i * w
  <2>1. i - 1 \in Nat /\ k <= i - 1
    BY <1>4
  <2>2. k * w <= (i - 1) * w
    BY <1>3, <2>1
  <2>3. QED
    BY <1>1, <1>2, <2>1, <2>2
<1>5. QED
  BY <1>1, <1>2, <1>3, <1>4

(* All of them up to the i-th together are what lies before its end.       *)
LEMMA WidthsCover ==
    ASSUME NEW w \in Nat \ {0}, NEW i \in Nat, NEW start \in Int, NEW x \in Int,
           start <= x, x < start + i * w
    PROVE  \E k \in 1 .. i : start + (k - 1) * w <= x /\ x < start + k * w
<1> DEFINE S == {k \in Nat : x < start + k * w}
<1>1. S \subseteq Nat /\ i \in S
  OBVIOUS
<1>2. PICK m \in S : \A k \in S : m <= k
  BY <1>1, Smallest
<1>3. m \in Nat /\ x < start + m * w /\ m <= i
  BY <1>1, <1>2
<1>4. m # 0
  BY <1>3
<1>5. m - 1 \in Nat /\ m - 1 \notin S
  BY <1>2, <1>3, <1>4
<1>6. (m - 1) * w \in Int
  BY <1>5, Widths
<1>7. start + (m - 1) * w <= x
  BY <1>5, <1>6
<1>8. m \in 1 .. i
  BY <1>3, <1>4
<1> HIDE DEF S
<1>9. QED
  BY <1>3, <1>7, <1>8

(* The blocks end with the page's present, and so do the hours.            *)
LEMMA BlocksEnd ==
    /\ Bucket \in Nat \ {0} /\ Hour \in Nat \ {0}
    /\ Hours * BucketsPerHour \in Nat \ {0} /\ Hours \in Nat \ {0}
    /\ (Hours * BucketsPerHour) * Bucket = Retention /\ Hours * Hour = Retention
    /\ \A i \in Block : i \in Nat /\ i > 0 /\ i * Bucket \in Nat /\ i * Bucket <= Retention
<1>1. /\ Bucket \in Nat \ {0} /\ BucketsPerHour \in Nat \ {0} /\ Hours \in Nat \ {0}
  BY ConstantsAssumption DEF ConstantsAssumption
<1>2. Hours * BucketsPerHour \in Nat \ {0}
  BY <1>1
<1>3. (Hours * BucketsPerHour) * Bucket = Hours * (BucketsPerHour * Bucket)
  BY <1>1
<1>4. ASSUME NEW i \in Block
      PROVE  i \in Nat /\ i > 0 /\ i * Bucket \in Nat /\ i * Bucket <= (Hours * BucketsPerHour) * Bucket
  <2> DEFINE n == Hours * BucketsPerHour
  <2>1. i \in Nat /\ i > 0 /\ i <= n /\ n \in Nat
    BY <1>2 DEF Block
  <2> HIDE DEF n
  <2>2. i * Bucket \in Nat /\ i * Bucket <= n * Bucket
    BY <1>1, <2>1, Widths
  <2>3. QED
    BY <2>1, <2>2 DEF n
<1>5. QED
  BY <1>1, <1>2, <1>3, <1>4, Lengths DEF Hour, Retention

(* The edge of a block is reached once and for all.                        *)
LEMMA Edges ==
    ASSUME NEW r, r.at \in Int, NEW edge \in Int
    PROVE  /\ edge <= r.at => AtLeast(r, edge)
           /\ ~AtLeast(r, edge) => r.at < edge
           /\ AtLeast(r, edge) => 2 * (edge - r.at) <= Second
           /\ edge - r.at >= Second => ~AtLeast(r, edge)
           /\ \A e \in Int : AtLeast(r, edge) /\ e <= edge => AtLeast(r, e)
           /\ \A x : x.at \in Int /\ r.at <= x.at /\ AtLeast(r, edge) => AtLeast(x, edge)
<1>1. Second \in Nat /\ Second > 0
  BY ConstantsAssumption DEF ConstantsAssumption
<1>2. QED
  BY <1>1 DEF AtLeast

(* Too many missed reports are more than two intervals, or two seconds.    *)
LEMMA Gaps ==
    ASSUME NEW r \in Row
    PROVE  /\ Gap(r) \in Nat /\ r.interval \in Nat /\ r.interval > 0 /\ Second <= r.interval
           /\ 2 * r.interval <= Gap(r) /\ Second \in Nat /\ Second > 0
<1>1. /\ r.interval \in Nat \ {0} /\ Second <= r.interval
      /\ Missed \in Nat /\ 2 <= Missed /\ Second \in Nat /\ Second > 0
  <2>1. r.interval \in Intervals
    BY DEF Row
  <2>2. r.interval \in Nat \ {0} /\ Second <= r.interval
    BY <2>1, ConstantsAssumption DEF ConstantsAssumption
  <2>3. Missed \in Nat /\ Second \in Nat /\ Second > 0 /\ Missed # 0 /\ Missed # 1
    BY ConstantsAssumption DEF ConstantsAssumption
  <2>4. QED
    BY <2>2, <2>3
<1>2. 2 * r.interval <= Missed * r.interval /\ Missed * r.interval \in Nat
  BY <1>1, Widths
<1>3. QED
  BY <1>1, <1>2 DEF Gap

(* The newest report before a block's end is in the newest block so far    *)
(* that has any, and is the newest of it.                                  *)
NewestBlocks(rows, start, i) ==
    LET seen == {r \in rows : ~AtLeast(r, start + i * Bucket)}
    IN  UNION {BlockRows(rows, start, j) :
                   j \in {k \in 1 .. i : Newest(seen) \in BlockRows(rows, start, k)}}

LEMMA NewestBlock ==
    ASSUME NEW rows \in SUBSET Row, \A r, x \in rows : r.at = x.at => r = x,
           NEW start \in Int, NEW i \in Block, \A r \in rows : start <= r.at,
           {r \in rows : ~AtLeast(r, start + i * Bucket)} # {}
    PROVE  LET seen == {r \in rows : ~AtLeast(r, start + i * Bucket)}
               last == NewestBlocks(rows, start, i)
           IN  /\ Newest(seen) \in last /\ Newest(seen) \in seen
               /\ \A r \in seen : r.at <= Newest(seen).at
               /\ last \subseteq seen /\ Newest(last) = Newest(seen)
<1> DEFINE seen == {r \in rows : ~AtLeast(r, start + i * Bucket)}
           n == Newest(seen)
           last == NewestBlocks(rows, start, i)
           S == {k \in Nat : ~AtLeast(n, start + k * Bucket)}
<1>1. seen \subseteq Row
  OBVIOUS
<1>2. n \in seen /\ \A r \in seen : r.at <= n.at
  BY <1>1, NewestOf
<1>3. \A r \in rows : r.at \in Int
  BY DEF Row, Times
<1>4. Bucket \in Nat \ {0} /\ i \in Nat /\ i * Bucket \in Nat
  BY BlocksEnd
<1>5. last = UNION {BlockRows(rows, start, j) :
                       j \in {m \in 1 .. i : n \in BlockRows(rows, start, m)}}
  BY DEF NewestBlocks
<1> HIDE DEF n
<1>6. PICK k \in S : \A m \in S : k <= m
  <2>1. S \subseteq Nat /\ i \in S
    BY <1>2, <1>4
  <2>2. QED
    BY <2>1, Smallest
<1>7. k \in Nat /\ k <= i /\ k # 0 /\ ~AtLeast(n, start + k * Bucket)
  <2>1. i \in S /\ k \in Nat /\ ~AtLeast(n, start + k * Bucket)
    BY <1>2, <1>4, <1>6
  <2>2. AtLeast(n, start) /\ start + 0 * Bucket = start
    BY <1>2, <1>3, <1>4, Edges
  <2>3. QED
    BY <1>6, <2>1, <2>2
<1>8. n \in BlockRows(rows, start, k) /\ k \in 1 .. i
  <2>1. k - 1 \in Nat /\ k - 1 \notin S /\ k \in 1 .. i
    BY <1>4, <1>6, <1>7
  <2>2. AtLeast(n, start + (k - 1) * Bucket)
    BY <2>1
  <2>3. QED
    BY <1>2, <1>7, <2>1, <2>2 DEF BlockRows
<1> HIDE DEF S
<1>9. n \in last
  BY <1>5, <1>8
<1>10. last \subseteq seen
  <2>1. SUFFICES ASSUME NEW j \in 1 .. i, NEW r \in BlockRows(rows, start, j)
                 PROVE  r \in seen
    BY <1>5
  <2>2. r \in rows /\ ~AtLeast(r, start + j * Bucket) /\ r.at \in Int
    BY <1>3 DEF BlockRows
  <2>3. /\ j * Bucket \in Nat /\ j * Bucket <= i * Bucket
    <3>1. j \in Nat /\ j <= i
      BY <1>4
    <3>2. QED
      BY <1>4, <3>1, Widths
  <2>4. start + j * Bucket \in Int /\ start + i * Bucket \in Int
        /\ start + j * Bucket <= start + i * Bucket
    BY <1>4, <2>3
  <2>5. ~AtLeast(r, start + i * Bucket)
    BY <2>2, <2>4, Edges
  <2>6. QED
    BY <2>2, <2>5
<1> HIDE DEF last
<1>11. Newest(last) = n
  <2>1. Newest(last) \in last /\ \A r \in last : r.at <= Newest(last).at
    BY <1>1, <1>9, <1>10, NewestOf
  <2>2. n.at <= Newest(last).at /\ Newest(last).at <= n.at /\ Newest(last) \in rows /\ n \in rows
    BY <1>2, <1>9, <1>10, <2>1
  <2>3. Newest(last).at = n.at
    BY <1>3, <2>2
  <2>4. QED
    BY <2>2, <2>3
<1>12. QED
  BY <1>2, <1>9, <1>10, <1>11 DEF n, last

(* The state of a block, by whether any report was seen until its end.     *)
LEMMA BlockIs ==
    ASSUME NEW rows, NEW latest, NEW start, NEW i \in Block
    PROVE  LET end    == start + i * Bucket
               inside == BlockRows(rows, start, i)
               seen   == {r \in rows : ~AtLeast(r, end)}
               last   == IF seen = {} THEN Seed(latest, start) ELSE NewestBlocks(rows, start, i)
               late   == last # {} /\ inside = {} /\ \A r \in last : end - Newest(last).at > Gap(r)
           IN  /\ Blocks(rows, latest, start)[i] = "not-reporting" <=> late
               /\ Blocks(rows, latest, start)[i] = "no-data" => last = {} \/ (~late /\ seen = {})
<1> DEFINE end    == start + i * Bucket
           inside == BlockRows(rows, start, i)
           seen   == {r \in rows : ~AtLeast(r, end)}
           last   == IF seen = {} THEN Seed(latest, start) ELSE NewestBlocks(rows, start, i)
           tail   == \A r \in last : end - Newest(last).at > Gap(r)
           late   == last # {} /\ inside = {} /\ tail
           state  == IF seen = {} THEN "no-data" ELSE BucketState(rows, last)
<1>1. Blocks(rows, latest, start)[i] =
          CASE last = {} -> "no-data"
            [] last # {} /\ inside = {} /\ tail -> "not-reporting"
            [] OTHER -> state
  BY DEF Blocks, NewestBlocks
<1>2. state \in {"no-packets", "not-publishing", "healthy", "no-data"}
      /\ (state = "no-data" => seen = {})
  BY DEF BucketState
<1> HIDE DEF last, inside, tail, state, seen
<1>3. /\ Blocks(rows, latest, start)[i] = "not-reporting" <=> late
      /\ Blocks(rows, latest, start)[i] = "no-data" => last = {} \/ (~late /\ seen = {})
  BY <1>1, <1>2
<1>4. QED
  BY <1>3 DEF last, inside, tail, seen

(* A block says "not reporting" only when the last report before its end   *)
(* is more than Missed intervals older than that, and "no reports yet" of  *)
(* a shoveler silent for longer only if its last report was trimmed by a   *)
(* new one under the page's eyes (blocks in portal.health).                *)
THEOREM BlocksAreHonest == Spec => []BlocksHonest
<1>1. ASSUME HealthInv, Drawn, NEW i \in Block
      PROVE  LET end == Start24h + i * Bucket
                 before == {r \in reports : ~AtLeast(r, end)}
             IN  /\ page.blocks[i] = "not-reporting" =>
                        before # {} /\ end - Newest(before).at > Gap(Newest(before))
                 /\ (page.blocks[i] = "no-data" /\ page.latest # Null
                      /\ end - page.latest.at > Gap(page.latest))
                        => /\ Start24h <= page.latest.at /\ page.latest.at < Start24h + MaxOpen
                           /\ \E r \in reports : r.at >= page.now
  <2> DEFINE end == Start24h + i * Bucket
             before == {r \in reports : ~AtLeast(r, end)}
             latest == page.latest
  <2>1. PICK rows \in SUBSET reports :
            BucketRows(rows) /\ page.blocks = Blocks(rows, latest, Start24h)
    BY <1>1 DEF HealthInv, BlocksRead, Drawn
  <2> DEFINE inside == BlockRows(rows, Start24h, i)
             seen   == {r \in rows : ~AtLeast(r, end)}
             last   == IF seen = {} THEN Seed(latest, Start24h)
                       ELSE NewestBlocks(rows, Start24h, i)
             late   == last # {} /\ inside = {} /\ \A r \in last : end - Newest(last).at > Gap(r)
  <2>2. /\ page.blocks[i] = "not-reporting" <=> late
        /\ page.blocks[i] = "no-data" => last = {} \/ (~late /\ seen = {})
    BY <2>1, BlockIs
  <2>3. /\ reports \subseteq Row /\ page.now \in Nat /\ Start24h \in Int /\ end \in Int
        /\ Start24h < end /\ end <= page.now
    <3>1. reports \subseteq Row /\ page.now \in Nat
      BY <1>1 DEF HealthInv, TypeOK, Page, Times
    <3>2. /\ i * Bucket \in Nat /\ i * Bucket <= Retention /\ 0 < i * Bucket
      <4>1. i \in Nat /\ i > 0 /\ i * Bucket \in Nat /\ i * Bucket <= Retention
        BY BlocksEnd
      <4>2. 0 * Bucket < i * Bucket /\ 0 * Bucket = 0
        BY <4>1, BlocksEnd, Widths
      <4>3. QED
        BY <4>1, <4>2
    <3>3. PICK some : some = i * Bucket
      OBVIOUS
    <3>4. /\ Start24h = page.now - Retention /\ end = page.now - Retention + some
          /\ some \in Nat /\ 0 < some /\ some <= Retention /\ Retention \in Nat
      BY <3>2, <3>3, Lengths DEF Start24h
    <3> HIDE DEF end
    <3>5. QED
      BY <3>1, <3>4
  <2>4. /\ \A r, x \in reports : r.at = x.at => r = x
        /\ \A r \in reports : /\ r.at \in Nat /\ Gap(r) \in Nat /\ Second < Gap(r)
                              /\ Second \in Nat
    <3>1. \A r, x \in reports : r.at = x.at => r = x
      BY <1>1 DEF HealthInv, HistoryInv
    <3>2. \A r \in reports : r \in Row /\ r.at \in Nat
      BY <2>3 DEF Row, Times
    <3>3. \A r \in reports : Gap(r) \in Nat /\ Second < Gap(r) /\ Second \in Nat
      BY <3>2, Gaps
    <3>4. QED
      BY <3>1, <3>2, <3>3
  <2>5. /\ latest \in reports \cup {Null}
        /\ \A r \in before : latest # Null /\ r.at <= latest.at
        /\ \A p \in rows, x \in before : p.at <= x.at => x \in rows
        /\ \A r \in rows : Start24h <= r.at
    <3>1. \A r \in before : r.at < end
      BY <2>3, <2>4, Edges
    <3>2. \A r \in before : r.at < page.now
      BY <2>3, <2>4, <3>1
    <3>3. QED
      BY <1>1, <2>1, <3>2 DEF HealthInv, Opened, Drawn, BucketRows
  <2>6. before \subseteq Row /\ (before # {} =>
            /\ Newest(before) \in before /\ \A r \in before : r.at <= Newest(before).at)
    BY <2>3, NewestOf
  <2>7. \A r \in before : (\A x \in before : x.at <= r.at) => Newest(before) = r
    <3> SUFFICES ASSUME NEW r \in before, \A x \in before : x.at <= r.at
                 PROVE  Newest(before) = r
      OBVIOUS
    <3>1. Newest(before) \in before /\ r.at <= Newest(before).at /\ Newest(before).at <= r.at
      BY <2>6
    <3>2. QED
      BY <2>4, <3>1
  <2>8. inside \subseteq seen
    BY DEF BlockRows
  <2> HIDE DEF end, latest
  <2>9. CASE seen # {}
    <3> DEFINE n == Newest(seen)
    <3>1. n \in last /\ n \in seen /\ (\A r \in seen : r.at <= n.at) /\ Newest(last) = n
      <4>1. rows \in SUBSET Row /\ \A r, x \in rows : r.at = x.at => r = x
        BY <2>3, <2>4
      <4>2. last = NewestBlocks(rows, Start24h, i)
        BY <2>9
      <4>3. QED
        BY <2>3, <2>5, <2>9, <4>1, <4>2, NewestBlock DEF end
    <3> HIDE DEF n, last
    <3>2. n \in before /\ n.at \in Nat
      BY <2>4, <3>1
    <3>3. ASSUME NEW x \in before PROVE x.at <= n.at
      <4>1. x.at \in Nat /\ (n.at <= x.at => x \in rows)
        BY <2>4, <2>5, <3>1
      <4>2. n.at <= x.at => x \in seen
        BY <4>1
      <4>3. QED
        BY <3>1, <3>2, <4>1, <4>2
    <3>4. Newest(before) = n
      BY <2>7, <3>2, <3>3
    <3>5. page.blocks[i] = "not-reporting" => end - n.at > Gap(n)
      BY <2>2, <3>1
    <3>6. page.blocks[i] # "no-data"
      BY <2>2, <2>9, <3>1
    <3>7. QED
      BY <3>2, <3>4, <3>5, <3>6 DEF end
  <2>10. CASE seen = {} /\ last = {}
    <3>1. page.blocks[i] # "not-reporting"
      BY <2>2, <2>10
    <3>2. ASSUME latest # Null, end - latest.at > Gap(latest)
          PROVE  /\ Start24h <= latest.at /\ latest.at < Start24h + MaxOpen
                 /\ \E r \in reports : r.at >= page.now
      <4>1. /\ latest \in reports /\ latest.at \in Nat /\ Gap(latest) \in Nat
            /\ Second < Gap(latest) /\ Second \in Nat
        BY <2>4, <2>5, <3>2
      <4>2. Seed(latest, Start24h) = {}
        BY <2>10
      <4>3. Start24h <= latest.at
        BY <2>3, <3>2, <4>1, <4>2 DEF Seed
      <4>4. ~AtLeast(latest, end)
        BY <2>3, <3>2, <4>1, Edges
      <4>5. latest \notin rows
        BY <2>10, <4>4
      <4>6. PICK r \in reports : latest.at < Start24h + MaxOpen /\ page.now <= r.at
        BY <2>1, <3>2, <4>3, <4>5 DEF BucketRows, latest
      <4>7. QED
        BY <2>3, <2>4, <4>3, <4>6
    <3>3. QED
      BY <3>1, <3>2 DEF end, latest
  <2>11. CASE seen = {} /\ last # {}
    <3>1. latest # Null /\ latest.at < Start24h /\ last = {latest}
      BY <2>11 DEF Seed
    <3>2. /\ latest \in reports /\ latest.at \in Nat /\ Gap(latest) \in Nat
          /\ Second < Gap(latest) /\ Second \in Nat
      BY <2>4, <2>5, <3>1
    <3>3. Newest({latest}) = latest
      <4>1. {latest} \subseteq Row
        BY <2>3, <3>2
      <4>2. QED
        BY <4>1, NewestOf
    <3>4. inside = {}
      BY <2>8, <2>11
    <3> HIDE DEF last, inside
    <3>5. late <=> end - latest.at > Gap(latest)
      BY <3>1, <3>3, <3>4
    <3> HIDE DEF late
    <3>6. ASSUME late
          PROVE  before # {} /\ end - Newest(before).at > Gap(Newest(before))
      <4>1. ~AtLeast(latest, end)
        BY <2>3, <3>2, <3>5, <3>6, Edges
      <4>2. latest \in before
        BY <3>2, <4>1
      <4>3. Newest(before) = latest
        BY <2>5, <2>7, <4>2
      <4>4. QED
        BY <3>5, <3>6, <4>2, <4>3
    <3>7. page.blocks[i] = "no-data" => ~late
      BY <2>2, <2>11
    <3>8. QED
      BY <2>2, <3>5, <3>6, <3>7 DEF end, latest
  <2>12. QED
    BY <2>9, <2>10, <2>11
<1>2. HealthInv => BlocksHonest
  BY <1>1 DEF BlocksHonest
<1>3. QED
  BY <1>2, HealthInvariant, PTL

-------------------------------------------------------------------------------
(* The first block of each run.                                            *)
Firsts(blocks) == {i \in Block : i = 1 \/ blocks[i - 1] # blocks[i]}

(* The runs before an onset is pinned: from their first block to that of   *)
(* the next run, or to the last block's end.                               *)
LEMMA RunsAre ==
    ASSUME NEW blocks, NEW start \in Int
    PROVE  LET runs == Runs(blocks, start)
               n    == Hours * BucketsPerHour
           IN  /\ DOMAIN runs = Firsts(blocks) /\ 1 \in Firsts(blocks)
               /\ Firsts(blocks) \subseteq 1 .. n
               /\ \A i \in Firsts(blocks) :
                      /\ runs[i].start = start + (i - 1) * Bucket
                      /\ \E e \in Firsts(blocks) \cup {n + 1} :
                             /\ e > i /\ \A k \in Firsts(blocks) : k > i => e <= k
                             /\ runs[i].end = start + (e - 1) * Bucket
                      /\ DOMAIN runs[i] = {"state", "start", "end"}
<1> DEFINE runs == Runs(blocks, start)
           n == Hours * BucketsPerHour
           starts == Firsts(blocks)
           end(i) == CHOOSE e \in starts \cup {n + 1} : e > i /\ \A k \in starts : k > i => e <= k
<1>1. n \in Nat /\ n > 0
  BY BlocksEnd
<1>2. starts \subseteq 1 .. n /\ 1 \in starts
  BY <1>1 DEF Firsts, Block
<1>3. runs = [i \in starts |-> [state |-> blocks[i], start |-> start + (i - 1) * Bucket,
                                 end |-> start + (end(i) - 1) * Bucket]]
  BY DEF Runs, Firsts
<1> HIDE DEF n, starts
<1>4. ASSUME NEW i \in starts
      PROVE  \E e \in starts \cup {n + 1} : e > i /\ \A k \in starts : k > i => e <= k
  <2> DEFINE S == {k \in starts \cup {n + 1} : k > i}
  <2>1. S \subseteq Nat /\ n + 1 \in S
    <3>1. i \in Nat /\ i <= n /\ starts \subseteq Nat
      BY <1>1, <1>2
    <3>2. n + 1 \in Nat /\ n + 1 > i
      BY <1>1, <3>1
    <3>3. QED
      BY <3>1, <3>2
  <2>2. PICK m \in S : \A k \in S : m <= k
    BY <2>1, Smallest
  <2>3. QED
    BY <2>2
<1>5. \A i \in starts :
          /\ end(i) \in starts \cup {n + 1}
          /\ end(i) > i /\ \A k \in starts : k > i => end(i) <= k
  BY <1>4
<1> HIDE DEF end
<1>6. \A i \in starts : /\ runs[i].start = start + (i - 1) * Bucket
                         /\ runs[i].end = start + (end(i) - 1) * Bucket
                         /\ DOMAIN runs[i] = {"state", "start", "end"}
  BY <1>3
<1>7. DOMAIN runs = starts
  BY <1>3
<1> HIDE DEF runs
<1>8. QED
  BY <1>2, <1>5, <1>6, <1>7 DEF starts, n, runs

(* The runs after it: only the start of the last and the end of the one    *)
(* before have moved, to the onset.                                        *)
PinnedIs(pinned, runs, firsts, health) ==
    \E last \in firsts :
        /\ \A k \in firsts : k <= last
        /\ DOMAIN pinned = firsts
        /\ \/ pinned = runs
           \/ /\ Pins(runs[last], health)
              /\ pinned[last].start = health.since /\ pinned[last].end = runs[last].end
              /\ \A i \in firsts \ {last} :
                     /\ pinned[i].start = runs[i].start
                     /\ pinned[i].end = IF runs[i].end = runs[last].start
                                          THEN health.since ELSE runs[i].end

LEMMA PinnedAre ==
    ASSUME NEW blocks, NEW start \in Int, NEW health
    PROVE  PinnedIs(PinOnset(Runs(blocks, start), health), Runs(blocks, start),
                    Firsts(blocks), health)
<1> DEFINE runs == Runs(blocks, start)
           firsts == Firsts(blocks)
           n == Hours * BucketsPerHour
           last == CHOOSE i \in DOMAIN runs : \A k \in DOMAIN runs : k <= i
           moved == [i \in DOMAIN runs |->
                        CASE i = last -> [runs[i] EXCEPT !.start = health.since]
                          [] i # last /\ runs[i].end = runs[last].start ->
                                 [runs[i] EXCEPT !.end = health.since]
                          [] OTHER -> runs[i]]
<1>1. /\ DOMAIN runs = firsts /\ 1 \in firsts /\ firsts \subseteq 1 .. n
      /\ \A i \in firsts : DOMAIN runs[i] = {"state", "start", "end"}
  BY RunsAre
<1>2. n \in Nat
  BY BlocksEnd
<1> HIDE DEF n, firsts, runs
<1>3. \E i \in firsts : \A k \in firsts : k <= i
  <2> DEFINE S == {n - i : i \in firsts}
  <2>1. S \subseteq Nat /\ S # {}
    BY <1>1, <1>2
  <2>2. PICK m \in S : \A k \in S : m <= k
    BY <2>1, Smallest
  <2>3. PICK i \in firsts : m = n - i
    BY <2>2
  <2>4. \A k \in firsts : k \in Nat /\ i \in Nat /\ n - i <= n - k
    BY <1>1, <2>2, <2>3
  <2>5. \A k \in firsts : k <= i
    BY <1>2, <2>4
  <2>6. QED
    BY <2>5
<1>4. last \in firsts /\ \A k \in firsts : k <= last
  BY <1>1, <1>3
<1>5. PinOnset(runs, health) = IF ~Pins(runs[last], health) THEN runs ELSE moved
  BY DEF PinOnset
<1> HIDE DEF last
<1>6. /\ DOMAIN moved = firsts
      /\ moved[last].start = health.since /\ moved[last].end = runs[last].end
      /\ \A i \in firsts \ {last} :
             /\ moved[i].start = runs[i].start
             /\ moved[i].end = IF runs[i].end = runs[last].start
                                 THEN health.since ELSE runs[i].end
  <2>1. DOMAIN moved = firsts
    BY <1>1
  <2>2. moved[last] = [runs[last] EXCEPT !.start = health.since]
    BY <1>1, <1>4
  <2>3. moved[last].start = health.since /\ moved[last].end = runs[last].end
    BY <1>1, <1>4, <2>2
  <2>4. ASSUME NEW i \in firsts \ {last}
        PROVE  /\ moved[i].start = runs[i].start
               /\ moved[i].end = IF runs[i].end = runs[last].start
                                   THEN health.since ELSE runs[i].end
    <3>1. moved[i] = IF runs[i].end = runs[last].start
                       THEN [runs[i] EXCEPT !.end = health.since] ELSE runs[i]
      BY <1>1, <2>4
    <3> HIDE DEF moved
    <3>2. QED
      BY <1>1, <3>1
  <2> HIDE DEF moved
  <2>5. QED
    BY <2>1, <2>3, <2>4
<1> HIDE DEF moved
<1>7. QED
  BY <1>1, <1>4, <1>5, <1>6 DEF PinnedIs, runs, firsts

(* The tracker's history has no hole, no overlap and no negative length,   *)
(* also after the newest run was moved to the exact onset, because that is *)
(* at most one block away (pin_onset in portal.health).                    *)
THEOREM RunsCoverTheDay == Spec => []RunsCover
<1> DEFINE runs == PinOnset(Runs(page.blocks, Start24h), page.health)
           Follows(i, k) == i < k /\ \A m \in DOMAIN runs : m <= i \/ k <= m
<1>1. ASSUME HealthInv, Drawn
      PROVE  /\ runs[1].start \in {Start24h, page.health.since}
             /\ \A i \in DOMAIN runs :
                    /\ runs[i].start <= runs[i].end
                    /\ \/ \E k \in DOMAIN runs : Follows(i, k) /\ runs[k].start = runs[i].end
                       \/ runs[i].end = page.now /\ \A m \in DOMAIN runs : m <= i
  <2> DEFINE raw    == Runs(page.blocks, Start24h)
             firsts == Firsts(page.blocks)
             n      == Hours * BucketsPerHour
             At(i)  == Start24h + (i - 1) * Bucket
             Next1(i, e) == e > i /\ \A k \in firsts : k > i => e <= k
  <2>1. /\ page.now \in Nat /\ Retention \in Nat /\ Bucket \in Nat \ {0} /\ n \in Nat
        /\ Start24h \in Int /\ At(n + 1) = page.now
    <3>1. page.now \in Nat
      BY <1>1 DEF HealthInv, TypeOK, Page, Times
    <3>2. n \in Nat /\ n * Bucket = Retention /\ Bucket \in Nat \ {0}
      BY BlocksEnd
    <3> HIDE DEF n
    <3>3. (n + 1 - 1) * Bucket = n * Bucket
      BY <3>2
    <3>4. QED
      BY <3>1, <3>2, <3>3, Lengths DEF Start24h
  <2>2. /\ 1 \in firsts /\ firsts \subseteq 1 .. n
        /\ \A i \in firsts :
               /\ raw[i].start = At(i)
               /\ \E e \in firsts \cup {n + 1} : Next1(i, e) /\ raw[i].end = At(e)
    BY <2>1, RunsAre
  <2>3. PICK last \in firsts :
            /\ \A k \in firsts : k <= last
            /\ DOMAIN runs = firsts
            /\ \/ runs = raw
               \/ /\ Pins(raw[last], page.health)
                  /\ runs[last].start = page.health.since /\ runs[last].end = raw[last].end
                  /\ \A i \in firsts \ {last} :
                         /\ runs[i].start = raw[i].start
                         /\ runs[i].end = IF raw[i].end = raw[last].start
                                            THEN page.health.since ELSE raw[i].end
    <3>1. PinnedIs(runs, raw, firsts, page.health)
      BY <2>1, PinnedAre
    <3> HIDE DEF runs, raw, firsts
    <3>2. QED
      BY <3>1 DEF PinnedIs
  <2>4. \A i, k \in 1 .. n + 1 : /\ At(i) \in Int /\ At(1) = Start24h
                                 /\ i < k => At(i) <= At(k) - Bucket /\ At(i) < At(k)
    <3> SUFFICES ASSUME NEW i \in 1 .. n + 1, NEW k \in 1 .. n + 1
                 PROVE  /\ At(i) \in Int /\ At(1) = Start24h
                        /\ i < k => At(i) <= At(k) - Bucket /\ At(i) < At(k)
      OBVIOUS
    <3>1. i - 1 \in Nat /\ k - 1 \in Nat
      BY <2>1
    <3>2. (i - 1) * Bucket \in Nat /\ (k - 1) * Bucket \in Nat
      BY <2>1, <3>1, Widths
    <3>3. ASSUME i < k PROVE (i - 1) * Bucket <= (k - 1) * Bucket - Bucket
      <4>1. i - 1 < k - 1
        BY <2>1, <3>3
      <4>2. (i - 1) * Bucket <= (k - 1 - 1) * Bucket /\ (k - 1 - 1) * Bucket = (k - 1) * Bucket - Bucket
        BY <2>1, <3>1, <4>1, Widths
      <4>3. QED
        BY <4>2
    <3>4. At(1) = Start24h
      BY <2>1
    <3>5. PICK a, b : a = (i - 1) * Bucket /\ b = (k - 1) * Bucket
      OBVIOUS
    <3>6. At(i) = Start24h + a /\ At(k) = Start24h + b /\ a \in Nat /\ b \in Nat
          /\ (i < k => a <= b - Bucket)
      BY <3>2, <3>3, <3>5
    <3> HIDE DEF At
    <3>7. QED
      BY <2>1, <3>4, <3>6
  <2> HIDE DEF At, n, firsts, raw, runs
  <2>5. ASSUME NEW i \in firsts
        PROVE  i \in 1 .. n + 1 /\ i \in Nat /\ i <= n /\ i <= last /\ last \in 1 .. n + 1
    BY <2>1, <2>2, <2>3
  <2>6. ASSUME NEW i \in firsts, i # last
        PROVE  \E e \in firsts : /\ i < e /\ e <= last /\ raw[i].end = At(e)
                                 /\ \A m \in firsts : m <= i \/ e <= m
    <3>1. PICK e \in firsts \cup {n + 1} : Next1(i, e) /\ raw[i].end = At(e)
      BY <2>2
    <3>2. i < last /\ last <= n
      BY <2>5, <2>6
    <3>3. e <= last
      BY <3>1, <3>2
    <3>4. e \in firsts
      BY <2>1, <2>5, <3>1, <3>2, <3>3
    <3>5. \A m \in firsts : m <= i \/ e <= m
      <4> TAKE m \in firsts
      <4>1. m > i => e <= m
        BY <3>1
      <4>2. m \in Nat /\ i \in Nat
        BY <2>5
      <4>3. QED
        BY <4>1, <4>2
    <3>6. i < e
      BY <2>5, <3>1, <3>4
    <3>7. QED
      BY <3>1, <3>3, <3>4, <3>5, <3>6
  <2>7. raw[last].end = page.now
    <3>1. PICK e \in firsts \cup {n + 1} : Next1(last, e) /\ raw[last].end = At(e)
      BY <2>2
    <3>2. e \notin firsts
      BY <2>5, <3>1
    <3>3. QED
      BY <2>1, <3>1, <3>2
  <2>8. page.now = At(n + 1) /\ last < n + 1 /\ n + 1 \in 1 .. n + 1 /\ last \in 1 .. n + 1
    BY <2>1, <2>5
  <2>9. CASE runs = raw
    <3>1. ASSUME NEW i \in firsts
          PROVE  /\ runs[i].start <= runs[i].end
                 /\ \/ \E k \in firsts : Follows(i, k) /\ runs[k].start = runs[i].end
                    \/ runs[i].end = page.now /\ \A m \in firsts : m <= i
      <4>1. CASE i = last
        BY <2>2, <2>3, <2>4, <2>5, <2>7, <2>8, <2>9, <4>1
      <4>2. CASE i # last
        <5>1. PICK e \in firsts : /\ i < e /\ e <= last /\ raw[i].end = At(e)
                                  /\ \A m \in firsts : m <= i \/ e <= m
          BY <2>6, <4>2
        <5>2. At(i) <= At(e)
          BY <2>4, <2>5, <5>1
        <5>3. Follows(i, e)
          BY <2>3, <5>1
        <5>4. raw[i].start = At(i) /\ raw[e].start = At(e)
          BY <2>2
        <5>5. QED
          BY <2>9, <5>1, <5>2, <5>3, <5>4
      <4>3. QED
        BY <4>1, <4>2
    <3>2. runs[1].start = Start24h
      BY <2>2, <2>4, <2>5, <2>9
    <3>3. QED
      BY <2>3, <3>1, <3>2
  <2>10. ASSUME Pins(raw[last], page.health),
                runs[last].start = page.health.since, runs[last].end = raw[last].end,
                \A i \in firsts \ {last} :
                    /\ runs[i].start = raw[i].start
                    /\ runs[i].end = IF raw[i].end = raw[last].start
                                       THEN page.health.since ELSE raw[i].end
         PROVE  /\ runs[1].start \in {Start24h, page.health.since}
                /\ \A i \in firsts :
                       /\ runs[i].start <= runs[i].end
                       /\ \/ \E k \in firsts : Follows(i, k) /\ runs[k].start = runs[i].end
                          \/ runs[i].end = page.now /\ \A m \in firsts : m <= i
    <3> DEFINE since == page.health.since
    <3>1. /\ since \in Int /\ At(last) - Bucket <= since /\ since <= At(last) + Bucket
          /\ raw[last].start = At(last)
      <4>1. page.health \in Verdict \cup {Null}
        BY <1>1 DEF HealthInv, TypeOK, Page
      <4>2. page.health # Null
        <5>1. /\ page.latest \in reports \cup {Null} /\ page.now \in Times
              /\ page.latest # Null => Reading(page.rows, page.latest, page.now)
              /\ page.health = Assess(page.latest, page.rows, page.now)
          BY <1>1 DEF HealthInv, Opened, RowsRead, Judged, Drawn, TypeOK, Page
        <5>2. page.health \in Verdict
          BY <1>1, <5>1, AssessType DEF HealthInv
        <5>3. QED
          BY <5>2, ConstantsAssumption DEF ConstantsAssumption
      <4>3. since \in Times
        BY <2>10, <4>1, <4>2 DEF Pins, Verdict
      <4>4. QED
        BY <2>2, <2>10, <4>3 DEF Pins, Times
    <3> HIDE DEF since
    <3>2. At(last) \in Int /\ At(last) <= page.now - Bucket
      BY <2>4, <2>8
    <3>3. /\ runs[last].start <= runs[last].end /\ runs[last].end = page.now
      BY <2>1, <2>7, <2>10, <3>1, <3>2 DEF since
    <3>4. ASSUME NEW i \in firsts, i # last
          PROVE  /\ runs[i].start <= runs[i].end
                 /\ \E k \in firsts : Follows(i, k) /\ runs[k].start = runs[i].end
      <4>1. PICK e \in firsts : /\ i < e /\ e <= last /\ raw[i].end = At(e)
                                /\ \A m \in firsts : m <= i \/ e <= m
        BY <2>6, <3>4
      <4>2. /\ At(i) \in Int /\ At(e) \in Int /\ At(i) < At(e)
            /\ i < last /\ At(i) <= At(last) - Bucket
            /\ e # last => At(e) < At(last)
        <5>1. i \in 1 .. n + 1 /\ e \in 1 .. n + 1 /\ last \in 1 .. n + 1 /\ i \in Nat /\ e \in Nat
          BY <2>5
        <5>2. i < last /\ (e # last => e < last)
          BY <2>5, <4>1, <5>1
        <5>3. QED
          BY <2>4, <4>1, <5>1, <5>2
      <4>3. Follows(i, e)
        BY <2>3, <4>1
      <4>4. runs[i].start = At(i)
        BY <2>2, <2>10, <3>4
      <4>5. CASE e = last
        <5>1. runs[i].end = since
          BY <2>10, <3>1, <3>4, <4>1, <4>5 DEF since
        <5>2. runs[e].start = since
          BY <2>10, <4>5 DEF since
        <5>3. At(i) <= since
          BY <2>1, <3>1, <3>2, <4>2
        <5>4. QED
          BY <4>3, <4>4, <5>1, <5>2, <5>3
      <4>6. CASE e # last
        <5>1. raw[i].end # raw[last].start
          BY <3>1, <3>2, <4>1, <4>2, <4>6
        <5>2. runs[i].end = At(e)
          BY <2>10, <3>4, <4>1, <5>1
        <5>3. runs[e].start = At(e)
          BY <2>2, <2>10, <4>6
        <5>4. At(i) <= At(e)
          BY <4>2
        <5>5. QED
          BY <4>3, <4>4, <5>2, <5>3, <5>4
      <4>7. QED
        BY <4>5, <4>6
    <3>5. runs[1].start \in {Start24h, since}
      <4>1. 1 # last => runs[1].start = At(1)
        BY <2>2, <2>10
      <4>2. At(1) = Start24h
        BY <2>2, <2>4, <2>5
      <4>3. QED
        BY <2>10, <4>1, <4>2 DEF since
    <3>6. QED
      BY <2>3, <3>3, <3>4, <3>5 DEF since
  <2>11. QED
    BY <2>3, <2>9, <2>10
<1>2. HealthInv => RunsCover
  BY <1>1 DEF RunsCover
<1>3. QED
  BY <1>2, HealthInvariant, PTL

-------------------------------------------------------------------------------
(* Rows that differ in their times, none of them Null.                     *)
Ordering(rows) ==
    /\ rows \subseteq Row
    /\ \A r, x \in rows : r.at = x.at => r = x

LEMMA RowTypes ==
    ASSUME NEW rows, Ordering(rows), NEW r \in rows
    PROVE  /\ r.at \in Nat /\ r.interval \in Nat \ {0} /\ r # Null
           /\ Gap(r) \in Nat /\ 2 * r.interval <= Gap(r)
           /\ Second \in Nat /\ Second > 0 /\ Second <= r.interval
<1>1. r \in Row
  BY DEF Ordering
<1>2. r.at \in Nat /\ r # Null
  BY <1>1, ConstantsAssumption DEF Row, Times, ConstantsAssumption
<1>3. QED
  BY <1>1, <1>2, Gaps

(* Whole seconds keep the order of times, and tell a second apart.         *)
LEMMA WholeIs ==
    ASSUME NEW t \in Int
    PROVE  /\ Whole(t) \in Int /\ Whole(t) <= t
           /\ \A u \in Int : t <= u => Whole(t) <= Whole(u)
           /\ \A u \in Int : t + Second <= u => Whole(t) < Whole(u)
<1>1. Second \in Nat \ {0}
  BY ConstantsAssumption DEF ConstantsAssumption
<1>2. \A u \in Int : u % Second \in 0 .. Second - 1
  BY <1>1
<1>3. \A u \in Int : u = Second * (u \div Second) + (u % Second) /\ u \div Second \in Int
  BY <1>1
<1>4. \A u \in Int : /\ Whole(u) = Second * (u \div Second) /\ Whole(u) \in Int
                     /\ Whole(u) <= u /\ u < Whole(u) + Second
  <2> TAKE u \in Int
  <2>1. /\ Second \in Int /\ u % Second \in Int /\ 0 <= u % Second /\ u % Second < Second
    BY <1>1, <1>2
  <2>2. PICK k \in Int : k = Second * (u \div Second)
    BY <1>1, <1>3
  <2>3. u = k + (u % Second) /\ Whole(u) = u - (u % Second)
    BY <1>3, <2>2 DEF Whole
  <2>4. QED
    BY <2>1, <2>2, <2>3
<1>5. \A u \in Int : t <= u => t \div Second <= u \div Second
  BY <1>1
<1>6. \A a, b \in Int : a <= b => Second * a <= Second * b
  <2> TAKE a, b \in Int
  <2> HAVE a <= b
  <2>1. QED
    BY <1>1
<1>7. ASSUME NEW u \in Int, t <= u PROVE Whole(t) <= Whole(u)
  BY <1>3, <1>4, <1>5, <1>6, <1>7
<1>8. ASSUME NEW u \in Int, t + Second <= u PROVE Whole(t) < Whole(u)
  BY <1>1, <1>4, <1>8
<1>9. QED
  BY <1>4, <1>7, <1>8

(* The row before a row.                                                   *)
LEMMA PrevIs ==
    ASSUME NEW rows, Ordering(rows), NEW r \in rows, Before(rows, r) # {}
    PROVE  /\ Prev(rows, r) \in rows /\ Prev(rows, r).at < r.at /\ Prev(rows, r) # Null
           /\ \A x \in rows : x.at < r.at => x.at <= Prev(rows, r).at
<1>1. Before(rows, r) \subseteq Row
  BY DEF Before, Ordering
<1>2. Prev(rows, r) \in Before(rows, r) /\ \A x \in Before(rows, r) : x.at <= Prev(rows, r).at
  BY <1>1, NewestOf DEF Prev
<1>3. Prev(rows, r) \in rows /\ Prev(rows, r).at < r.at
  BY <1>2 DEF Before
<1>4. Prev(rows, r) # Null
  BY <1>3, RowTypes
<1>5. QED
  BY <1>2, <1>3, <1>4 DEF Before

(* A break in the line: after a row, before the next, if that is late.     *)
IsBreak(p, rows, r) ==
    /\ p = Point(r.at + r.interval, r, Null)
    /\ r.at < p.at /\ r.at + Second <= p.at
    /\ \A x \in rows : r.at < x.at =>
           p.at < x.at /\ p.at + Second <= x.at /\ x.at - r.at > Gap(r)

LEMMA BreaksAre ==
    ASSUME NEW rows, Ordering(rows), NEW end \in Int, NEW p \in Breaks(rows, end)
    PROVE  \E r \in rows : IsBreak(p, rows, r)
<1>1. PICK r \in rows : p = Point(r.at + r.interval, r, Null)
                        /\ MissedBetween(r, NextAt(rows, r, end))
  BY DEF Breaks
<1>2. /\ r.at \in Nat /\ r.interval \in Nat \ {0} /\ Gap(r) \in Nat /\ 2 * r.interval <= Gap(r)
      /\ Second \in Nat /\ Second > 0 /\ Second <= r.interval
  BY RowTypes
<1>3. p.at = r.at + r.interval
  BY <1>1 DEF Point
<1>4. ASSUME NEW x \in rows, r.at < x.at
      PROVE  p.at < x.at /\ p.at + Second <= x.at /\ x.at - r.at > Gap(r)
  <2> DEFINE later == {y \in rows : y.at > r.at}
  <2>1. later \subseteq Row /\ x \in later
    <3>1. later \subseteq Row
      BY DEF Ordering
    <3>2. x.at \in Nat
      BY RowTypes
    <3>3. QED
      BY <1>2, <1>4, <3>1, <3>2
  <2>2. Oldest(later) \in later /\ Oldest(later).at <= x.at
    BY <2>1, OldestOf
  <2>3. NextAt(rows, r, end) = Oldest(later).at
    BY <2>1 DEF NextAt
  <2>4. Oldest(later).at - r.at > Gap(r)
    BY <1>1, <2>3 DEF MissedBetween
  <2>5. x.at \in Nat /\ Oldest(later).at \in Nat
    BY <2>2, RowTypes
  <2>6. QED
    BY <1>2, <1>3, <2>2, <2>4, <2>5
<1>5. r.at < p.at /\ r.at + Second <= p.at
  BY <1>2, <1>3
<1>6. QED
  BY <1>1, <1>4, <1>5 DEF IsBreak

(* The points of rows and breaks, and what is put at the ends.             *)
RowPoint(rows, r) == Point(r.at, RatedFrom(rows, r), r)

DrawnPoints(rows, end) == {RowPoint(rows, r) : r \in rows} \cup Breaks(rows, end)

LEMMA SeriesIs ==
    ASSUME NEW rows, NEW start \in Int, NEW end \in Int
    PROVE  LET points == Series(rows, start, end)
               drawn  == DrawnPoints(rows, end)
           IN  /\ drawn \subseteq points
               /\ \E p \in points : p.t <= start
               /\ \E p \in points : p.t >= Whole(end)
               /\ \A p \in points :
                      \/ p \in drawn
                      \/ p = EmptyPoint(start) /\ \A q \in drawn : ~(q.t <= start)
                      \/ p = EmptyPoint(end) /\ \A q \in points : q = p \/ ~(q.t >= Whole(end))
<1> DEFINE drawn == DrawnPoints(rows, end)
           begun == IF \E p \in drawn : p.t <= start THEN drawn ELSE drawn \cup {EmptyPoint(start)}
           points == IF \E p \in begun : p.t >= Whole(end) THEN begun
                     ELSE begun \cup {EmptyPoint(end)}
<1>1. Series(rows, start, end) = points
  BY DEF Series, DrawnPoints, RowPoint
<1> HIDE DEF drawn
<1>2. EmptyPoint(start).t <= start /\ EmptyPoint(end).t >= Whole(end)
  <2>1. EmptyPoint(start).t = Whole(start) /\ EmptyPoint(end).t = Whole(end)
    BY DEF EmptyPoint, Point
  <2>2. QED
    BY <2>1, WholeIs
<1>3. /\ drawn \subseteq begun /\ \E p \in begun : p.t <= start
      /\ \A p \in begun :
             p \in drawn \/ (p = EmptyPoint(start) /\ \A q \in drawn : ~(q.t <= start))
  BY <1>2
<1> HIDE DEF begun
<1>4. /\ begun \subseteq points /\ \E p \in points : p.t >= Whole(end)
      /\ \A p \in points :
             p \in begun \/ (p = EmptyPoint(end) /\ \A q \in begun : ~(q.t >= Whole(end)))
  BY <1>2
<1>5. \A p \in points :
          p \in begun \/ (p = EmptyPoint(end) /\ \A q \in points : q = p \/ ~(q.t >= Whole(end)))
  BY <1>4
<1> HIDE DEF points
<1>6. QED
  BY <1>1, <1>3, <1>4, <1>5 DEF drawn

(* A drawn point is a row's or a break's; only rows can share a second.    *)
LEMMA DrawnApart ==
    ASSUME NEW rows, Ordering(rows), NEW end \in Int
    PROVE  /\ \A p \in DrawnPoints(rows, end) : p.at \in Nat /\ p.t = Whole(p.at)
           /\ \A p \in DrawnPoints(rows, end) :
                  \E r \in rows : p = RowPoint(rows, r) \/ IsBreak(p, rows, r)
           /\ \A p, q \in DrawnPoints(rows, end) :
                  p.t = q.t => p = q \/ Null \notin {p.row, q.row}
           /\ \A p, q \in DrawnPoints(rows, end) : p.at = q.at => p = q
<1>1. /\ Second \in Int
      /\ \A r \in rows : r.at \in Nat /\ r.interval \in Nat /\ r # Null
  BY RowTypes, ConstantsAssumption DEF ConstantsAssumption
<1>2. \A p \in DrawnPoints(rows, end) : \E r \in rows : p = RowPoint(rows, r) \/ IsBreak(p, rows, r)
  BY BreaksAre DEF DrawnPoints
<1>3. \A r \in rows : /\ RowPoint(rows, r).at = r.at /\ RowPoint(rows, r).t = Whole(r.at)
                      /\ RowPoint(rows, r).row = r
  BY DEF RowPoint, Point
<1>4. ASSUME NEW p, NEW r \in rows, IsBreak(p, rows, r)
      PROVE  p.at = r.at + r.interval /\ p.at \in Nat /\ p.t = Whole(p.at)
  BY <1>1, <1>4 DEF IsBreak, Point
<1>5. ASSUME NEW p \in DrawnPoints(rows, end) PROVE p.at \in Nat /\ p.t = Whole(p.at)
  BY <1>1, <1>2, <1>3, <1>4
<1>6. ASSUME NEW p \in DrawnPoints(rows, end), NEW q \in DrawnPoints(rows, end),
             p.at + Second <= q.at
      PROVE  p.t < q.t
  <2>1. p.at \in Int /\ q.at \in Int
    BY <1>5
  <2>2. Whole(p.at) < Whole(q.at)
    BY <1>6, <2>1, WholeIs
  <2>3. QED
    BY <1>5, <2>2
<1>7. ASSUME NEW p \in DrawnPoints(rows, end), NEW q \in DrawnPoints(rows, end), p.t = q.t
      PROVE  p.at \in Nat /\ q.at \in Nat /\ ~(p.at + Second <= q.at) /\ ~(q.at + Second <= p.at)
  <2>1. p.t \in Int /\ q.t \in Int
    BY <1>5, WholeIs
  <2>2. QED
    BY <1>5, <1>6, <1>7, <2>1
<1>8. ASSUME NEW p \in DrawnPoints(rows, end), NEW q \in DrawnPoints(rows, end), p.t = q.t,
             NEW r \in rows, IsBreak(p, rows, r), NEW x \in rows, q = RowPoint(rows, x)
      PROVE  FALSE
  <2>1. r.at + Second <= p.at /\ (r.at < x.at => p.at + Second <= x.at) /\ q.at = x.at
    BY <1>3, <1>8 DEF IsBreak
  <2>2. QED
    BY <1>1, <1>7, <1>8, <2>1
<1>9. ASSUME NEW p \in DrawnPoints(rows, end), NEW q \in DrawnPoints(rows, end), p.t = q.t,
             NEW r \in rows, IsBreak(p, rows, r), NEW x \in rows, IsBreak(q, rows, x)
      PROVE  p = q
  <2>1. /\ r.at + Second <= p.at /\ (r.at < x.at => p.at + Second <= x.at)
        /\ x.at + Second <= q.at /\ (x.at < r.at => q.at + Second <= r.at)
        /\ r.at < p.at /\ x.at < q.at
    BY <1>9 DEF IsBreak
  <2>2. r.at = x.at
    BY <1>1, <1>7, <1>9, <2>1
  <2>3. QED
    BY <1>9, <2>2 DEF IsBreak, Ordering
<1>10. ASSUME NEW p \in DrawnPoints(rows, end), NEW q \in DrawnPoints(rows, end), p.t = q.t
       PROVE  \/ p = q
              \/ \E r, x \in rows : p = RowPoint(rows, r) /\ q = RowPoint(rows, x)
  BY <1>2, <1>8, <1>9, <1>10
<1>11. ASSUME NEW p \in DrawnPoints(rows, end), NEW q \in DrawnPoints(rows, end), p.t = q.t
       PROVE  p = q \/ Null \notin {p.row, q.row}
  BY <1>1, <1>3, <1>10, <1>11
<1>12. ASSUME NEW p \in DrawnPoints(rows, end), NEW q \in DrawnPoints(rows, end), p.at = q.at
       PROVE  p = q
  <2>1. p.t = q.t
    BY <1>5, <1>12
  <2>2. ASSUME NEW r \in rows, NEW x \in rows, p = RowPoint(rows, r), q = RowPoint(rows, x)
        PROVE  p = q
    BY <1>3, <1>12, <2>2 DEF Ordering
  <2>3. QED
    BY <1>10, <2>1, <2>2
<1>13. QED
  BY <1>2, <1>5, <1>11, <1>12

(* A rate is that of a row and the one before it, of the same process and  *)
(* not too long ago: just what the hourly table adds up.                   *)
Rated(p) == p.row # Null /\ p.prev # Null /\ Delta(p.prev, p.row, "received") # Null

LEMMA RatedIs ==
    ASSUME NEW rows, Ordering(rows), NEW start \in Int, NEW end \in Int
    PROVE  /\ \A p \in Series(rows, start, end) : Rated(p) =>
                  \E r \in Steps(rows, rows, "received") :
                      p = RowPoint(rows, r) /\ p.prev = Prev(rows, r)
           /\ \A r \in Steps(rows, rows, "received") :
                  RowPoint(rows, r) \in Series(rows, start, end) /\ Rated(RowPoint(rows, r))
<1>1. \A r \in rows : /\ RowPoint(rows, r).at = r.at /\ RowPoint(rows, r).row = r
                      /\ RowPoint(rows, r).prev = RatedFrom(rows, r)
  BY DEF RowPoint, Point
<1>2. \A p \in Series(rows, start, end) :
          p \in DrawnPoints(rows, end) \/ p = EmptyPoint(start) \/ p = EmptyPoint(end)
  BY SeriesIs
<1>3. \A t : EmptyPoint(t).row = Null
  BY DEF EmptyPoint, Point
<1>4. \A p, r : IsBreak(p, rows, r) => p.row = Null
  BY DEF IsBreak, Point
<1>5. ASSUME NEW p \in Series(rows, start, end), Rated(p)
      PROVE  \E r \in Steps(rows, rows, "received") :
                 p = RowPoint(rows, r) /\ p.prev = Prev(rows, r)
  <2>1. p.row # Null /\ p.prev # Null /\ Delta(p.prev, p.row, "received") # Null
    BY <1>5 DEF Rated
  <2>2. PICK r \in rows : p = RowPoint(rows, r)
    BY <1>2, <1>3, <1>4, <2>1, DrawnApart
  <2>3. RatedFrom(rows, r) # Null /\ p.row = r /\ p.prev = RatedFrom(rows, r)
    BY <1>1, <2>1, <2>2
  <2>4. Before(rows, r) # {} /\ ~MissedBetween(Prev(rows, r), r.at)
        /\ RatedFrom(rows, r) = Prev(rows, r)
    BY <2>3 DEF RatedFrom
  <2>5. r.at - Prev(rows, r).at <= Gap(Prev(rows, r))
    <3>1. /\ Prev(rows, r).at \in Nat /\ Gap(Prev(rows, r)) \in Nat /\ r.at \in Nat
      BY <2>4, PrevIs, RowTypes
    <3>2. QED
      BY <2>4, <3>1 DEF MissedBetween
  <2>6. r \in Steps(rows, rows, "received")
    BY <2>1, <2>3, <2>4, <2>5 DEF Steps
  <2>7. QED
    BY <2>2, <2>3, <2>4, <2>6
<1>6. ASSUME NEW r \in Steps(rows, rows, "received")
      PROVE  RowPoint(rows, r) \in Series(rows, start, end) /\ Rated(RowPoint(rows, r))
  <2>1. /\ r \in rows /\ Before(rows, r) # {}
        /\ r.at - Prev(rows, r).at <= Gap(Prev(rows, r))
        /\ Delta(Prev(rows, r), r, "received") # Null
    BY DEF Steps
  <2>2. /\ Prev(rows, r).at \in Nat /\ Gap(Prev(rows, r)) \in Nat /\ r.at \in Nat
        /\ Prev(rows, r) # Null /\ r # Null
    BY <2>1, PrevIs, RowTypes
  <2>3. RatedFrom(rows, r) = Prev(rows, r)
    BY <2>1, <2>2 DEF RatedFrom, MissedBetween
  <2>4. RowPoint(rows, r) \in Series(rows, start, end)
    <3>1. RowPoint(rows, r) \in DrawnPoints(rows, end)
      BY <2>1 DEF DrawnPoints
    <3>2. QED
      BY <3>1, SeriesIs
  <2>5. QED
    BY <1>1, <2>1, <2>2, <2>3, <2>4 DEF Rated
<1>7. QED
  BY <1>5, <1>6

(* Nothing lies between the two rows of a rate.                            *)
LEMMA RatedApart ==
    ASSUME NEW rows, Ordering(rows), NEW start \in Int, NEW end \in Int,
           \A x \in rows : start <= x.at,
           NEW r \in Steps(rows, rows, "received"), NEW q \in Series(rows, start, end)
    PROVE  q.at <= Prev(rows, r).at \/ r.at <= q.at
<1> DEFINE p == Prev(rows, r)
<1>1. /\ r \in rows /\ Before(rows, r) # {}
      /\ r.at - p.at <= Gap(p)
  BY DEF Steps
<1>2. /\ p \in rows /\ p.at < r.at /\ \A x \in rows : x.at < r.at => x.at <= p.at
  BY <1>1, PrevIs
<1> HIDE DEF p
<1>3. \A x \in rows : x.at \in Nat /\ Gap(x) \in Nat
  BY RowTypes
<1>4. ASSUME NEW x \in rows, q = RowPoint(rows, x) PROVE q.at <= p.at \/ r.at <= q.at
  <2>1. q.at = x.at
    BY <1>4 DEF RowPoint, Point
  <2>2. QED
    BY <1>1, <1>2, <1>3, <2>1
<1>5. ASSUME NEW x \in rows, IsBreak(q, rows, x), q \in DrawnPoints(rows, end)
      PROVE  q.at <= p.at \/ r.at <= q.at
  <2>1. x.at < q.at /\ q.at \in Nat /\ x.at \in Nat /\ p.at \in Nat /\ r.at \in Nat
    BY <1>1, <1>2, <1>3, <1>5, DrawnApart DEF IsBreak
  <2>2. CASE r.at <= x.at
    BY <2>1, <2>2
  <2>3. CASE x.at < p.at
    <3>1. q.at < p.at
      BY <1>2, <1>5, <2>3 DEF IsBreak
    <3>2. QED
      BY <2>1, <3>1
  <2>4. CASE x.at = p.at
    <3>1. x = p
      BY <1>2, <2>4 DEF Ordering
    <3>2. r.at - p.at > Gap(p)
      BY <1>1, <1>2, <1>5, <3>1 DEF IsBreak
    <3>3. QED
      BY <1>1, <1>2, <1>3, <2>1, <3>2
  <2>5. x.at < r.at => x.at <= p.at
    BY <1>2
  <2>6. QED
    BY <2>1, <2>2, <2>3, <2>4, <2>5
<1>6. CASE q = EmptyPoint(start)
  <2>1. q.at = start
    BY <1>6 DEF EmptyPoint, Point
  <2>2. QED
    BY <1>2, <2>1 DEF p
<1>7. CASE q = EmptyPoint(end) /\ \A s \in Series(rows, start, end) : s = q \/ ~(s.t >= Whole(end))
  <2> DEFINE s == RowPoint(rows, r)
  <2>1. q.at = end /\ q.row = Null
    BY <1>7 DEF EmptyPoint, Point
  <2>2. s.t = Whole(r.at) /\ s.row = r /\ r # Null
    BY <1>1, RowTypes DEF RowPoint, Point
  <2>3. s \in Series(rows, start, end)
    BY RatedIs
  <2>4. ~(r.at >= end)
    <3>1. ~(Whole(r.at) >= Whole(end))
      BY <1>7, <2>1, <2>2, <2>3
    <3>2. r.at \in Int /\ (end <= r.at => Whole(end) <= Whole(r.at))
      BY <1>1, <1>3, WholeIs
    <3>3. Whole(r.at) \in Int /\ Whole(end) \in Int
      BY <3>2, WholeIs
    <3>4. QED
      BY <3>1, <3>2, <3>3
  <2>5. QED
    BY <1>1, <1>3, <2>1, <2>4 DEF p
<1>8. QED
  <2>1. \/ q \in DrawnPoints(rows, end)
        \/ q = EmptyPoint(start)
        \/ q = EmptyPoint(end) /\ \A s \in Series(rows, start, end) : s = q \/ ~(s.t >= Whole(end))
    BY SeriesIs
  <2>2. q \in DrawnPoints(rows, end) => \E x \in rows : q = RowPoint(rows, x) \/ IsBreak(q, rows, x)
    BY DrawnApart
  <2>3. QED
    BY <1>4, <1>5, <1>6, <1>7, <2>1, <2>2 DEF p

(* The hours share no report, and leave none out.                          *)
LEMMA HoursAre ==
    ASSUME NEW rows, Ordering(rows), NEW start \in Int, \A x \in rows : start <= x.at
    PROVE  /\ \A g, h \in 1 .. Hours : g # h =>
                  Hourly(rows, start, g) \cap Hourly(rows, start, h) = {}
           /\ UNION {Hourly(rows, start, h) : h \in 1 .. Hours}
                  = {r \in Steps(rows, rows, "received") : r.at < start + Retention}
<1>1. /\ Hour \in Nat \ {0} /\ Hours \in Nat \ {0} /\ Hours * Hour = Retention
  BY BlocksEnd
<1>2. \A r \in rows : r.at \in Nat
  BY RowTypes
<1>3. \A h, r : r \in Hourly(rows, start, h) <=>
          /\ r \in Steps(rows, rows, "received")
          /\ start + (h - 1) * Hour <= r.at /\ r.at < start + h * Hour
  BY DEF Hourly, Steps
<1>4. \A h \in 1 .. Hours : h \in Nat /\ h - 1 \in Nat /\ h <= Hours
                             /\ h * Hour \in Nat /\ (h - 1) * Hour \in Nat /\ h * Hour <= Hours * Hour
  BY <1>1, Widths
<1>5. ASSUME NEW g \in 1 .. Hours, NEW h \in 1 .. Hours, g < h, NEW r \in Hourly(rows, start, g)
      PROVE  r \notin Hourly(rows, start, h)
  <2>1. g * Hour <= (h - 1) * Hour
    BY <1>1, <1>4, <1>5, Widths
  <2>2. r.at < start + g * Hour /\ r.at \in Nat
    BY <1>2, <1>3 DEF Steps
  <2>3. ~(start + (h - 1) * Hour <= r.at)
    BY <1>4, <2>1, <2>2
  <2>4. QED
    BY <1>3, <2>3
<1>6. ASSUME NEW g \in 1 .. Hours, NEW h \in 1 .. Hours, g # h
      PROVE  Hourly(rows, start, g) \cap Hourly(rows, start, h) = {}
  <2>1. g < h \/ h < g
    BY <1>4, <1>6
  <2>2. QED
    BY <1>5, <2>1
<1>7. ASSUME NEW h \in 1 .. Hours, NEW r \in Hourly(rows, start, h)
      PROVE  r \in Steps(rows, rows, "received") /\ r.at < start + Retention
  <2>1. r \in Steps(rows, rows, "received") /\ r.at < start + h * Hour /\ r.at \in Nat
    BY <1>2, <1>3 DEF Steps
  <2>2. QED
    BY <1>1, <1>4, <2>1
<1>8. ASSUME NEW r \in Steps(rows, rows, "received"), r.at < start + Retention
      PROVE  \E h \in 1 .. Hours : r \in Hourly(rows, start, h)
  <2>1. r.at \in Int /\ start <= r.at /\ r.at < start + Hours * Hour
    BY <1>1, <1>2, <1>8 DEF Steps
  <2>2. PICK h \in 1 .. Hours : start + (h - 1) * Hour <= r.at /\ r.at < start + h * Hour
    BY <1>1, <2>1, WidthsCover
  <2>3. QED
    BY <1>3, <2>2
<1>9. QED
  BY <1>6, <1>7, <1>8

(* The chart spans the window, and its points differ in their seconds, but *)
(* for reports within one second; a break comes between two reports, a     *)
(* rate between a process's consecutive ones and never across missed ones; *)
(* the hourly table adds up what the chart draws (series and hourly in     *)
(* portal.health).                                                         *)
THEOREM ChartIsTrue == Spec => []ChartTrue
<1> DEFINE points == Series(page.rows, Start24h, page.now)
           rated  == {p \in points : /\ p.row # Null /\ p.prev # Null
                                     /\ Delta(p.prev, p.row, "received") # Null}
<1>1. ASSUME HealthInv, Drawn
      PROVE  /\ \E p \in points : p.t <= Start24h
             /\ \E p \in points : p.t >= Whole(page.now)
             /\ \A p, q \in points : p.at = q.at => p = q
             /\ \A p, q \in points : p.t = q.t => p = q \/ Null \notin {p.row, q.row}
             /\ \A p \in points, r \in page.rows :
                    p.row = Null /\ p.prev # Null =>
                        p.prev.at < p.at /\ (r.at <= p.prev.at \/ p.at < r.at)
             /\ \A p \in rated :
                    /\ \A q \in points : q.at <= p.prev.at \/ p.at <= q.at
                    /\ p.prev.started = p.row.started
                    /\ p.at - p.prev.at <= Gap(p.prev)
             /\ \A g, h \in 1 .. Hours : g # h =>
                    Hourly(page.rows, Start24h, g) \cap Hourly(page.rows, Start24h, h) = {}
             /\ UNION {Hourly(page.rows, Start24h, h) : h \in 1 .. Hours}
                    = {p.row : p \in {q \in rated : q.at < page.now}}
  <2> DEFINE rows == page.rows
             start == Start24h
             end == page.now
             drawn == DrawnPoints(rows, end)
             steps == Steps(rows, rows, "received")
  <2>1. /\ Ordering(rows) /\ start \in Int /\ end \in Int /\ (\A x \in rows : start <= x.at)
        /\ start + Retention = end /\ end \in Nat
    <3>1. page.now \in Nat /\ Retention \in Nat
      BY <1>1, Lengths DEF HealthInv, TypeOK, Page, Times
    <3>2. page.rows \subseteq reports /\ \A r \in page.rows : Start24h <= r.at
      BY <1>1 DEF HealthInv, RowsRead, Drawn
    <3>3. Ordering(page.rows)
      BY <1>1, <3>2 DEF HealthInv, TypeOK, HistoryInv, Ordering
    <3>4. QED
      BY <3>1, <3>2, <3>3 DEF Start24h
  <2> HIDE DEF rows, start, end
  <2>2. points = Series(rows, start, end)
    BY DEF rows, start, end
  <2> HIDE DEF points
  <2>3. /\ drawn \subseteq points
        /\ \E p \in points : p.t <= start
        /\ \E p \in points : p.t >= Whole(end)
        /\ \A p \in points :
               \/ p \in drawn
               \/ p = EmptyPoint(start) /\ \A q \in drawn : ~(q.t <= start)
               \/ p = EmptyPoint(end) /\ \A q \in points : q = p \/ ~(q.t >= Whole(end))
    BY <2>1, <2>2, SeriesIs
  <2>4. /\ \A p \in drawn : p.at \in Nat /\ p.t = Whole(p.at)
        /\ \A p \in drawn : \E r \in rows : p = RowPoint(rows, r) \/ IsBreak(p, rows, r)
        /\ \A p, q \in drawn : p.t = q.t => p = q \/ Null \notin {p.row, q.row}
        /\ \A p, q \in drawn : p.at = q.at => p = q
    BY <2>1, DrawnApart
  <2>5. /\ EmptyPoint(start).t = Whole(start) /\ EmptyPoint(start).at = start
        /\ EmptyPoint(end).t = Whole(end) /\ EmptyPoint(end).at = end
        /\ EmptyPoint(start).prev = Null /\ EmptyPoint(end).prev = Null
        /\ Whole(start) \in Int /\ Whole(start) <= start /\ Whole(end) \in Int
    BY <2>1, WholeIs DEF EmptyPoint, Point
  <2> HIDE DEF drawn
  <2>6. /\ \A p, q \in points : p.t = q.t => p = q \/ (p \in drawn /\ q \in drawn)
        /\ \A p \in points : p.t = Whole(p.at)
    <3>1. ASSUME NEW s \in points, s = EmptyPoint(end), NEW x \in points, x.t = s.t,
                 \A y \in points : y = s \/ ~(y.t >= Whole(end))
          PROVE  x = s
      BY <2>5, <3>1
    <3>2. ASSUME NEW s \in points, s = EmptyPoint(start), NEW x \in drawn, x.t = s.t,
                 \A y \in drawn : ~(y.t <= start)
          PROVE  FALSE
      BY <2>5, <3>2
    <3>3. \A p \in points : p.t = Whole(p.at)
      BY <2>3, <2>4, <2>5
    <3>4. \A p, q \in points : p.t = q.t => p = q \/ (p \in drawn /\ q \in drawn)
      BY <2>3, <3>1, <3>2
    <3>5. QED
      BY <3>3, <3>4
  <2>7. ASSUME NEW p \in points, NEW r \in rows, p.row = Null, p.prev # Null
        PROVE  p.prev.at < p.at /\ (r.at <= p.prev.at \/ p.at < r.at)
    <3>1. p \in drawn
      BY <2>3, <2>5, <2>7
    <3>2. PICK x \in rows : p = RowPoint(rows, x) \/ IsBreak(p, rows, x)
      BY <2>4, <3>1
    <3>3. RowPoint(rows, x).row # Null
      BY <2>1, RowTypes DEF RowPoint, Point
    <3>4. IsBreak(p, rows, x)
      BY <2>7, <3>2, <3>3
    <3>5. p.prev = x
      BY <3>4 DEF IsBreak, Point
    <3>6. x.at \in Nat /\ r.at \in Nat
      BY <2>1, RowTypes
    <3>7. QED
      BY <3>4, <3>5, <3>6 DEF IsBreak
  <2>8. rated = {RowPoint(rows, r) : r \in steps}
    BY <2>1, <2>2, RatedIs DEF Rated
  <2>9. \A r \in steps : /\ RowPoint(rows, r).at = r.at /\ RowPoint(rows, r).row = r
                         /\ RowPoint(rows, r).prev = Prev(rows, r)
    <3> TAKE r \in steps
    <3>1. PICK s \in steps : RowPoint(rows, r) = RowPoint(rows, s)
                             /\ RowPoint(rows, r).prev = Prev(rows, s)
      BY <2>1, RatedIs
    <3>2. \A x : RowPoint(rows, x).at = x.at /\ RowPoint(rows, x).row = x
      BY DEF RowPoint, Point
    <3>3. QED
      BY <3>1, <3>2
  <2>10. ASSUME NEW r \in steps
         PROVE  /\ \A q \in points : q.at <= Prev(rows, r).at \/ r.at <= q.at
                /\ Prev(rows, r).started = r.started
                /\ r.at - Prev(rows, r).at <= Gap(Prev(rows, r))
    <3>1. \A q \in points : q.at <= Prev(rows, r).at \/ r.at <= q.at
      BY <2>1, <2>2, RatedApart
    <3>2. Delta(Prev(rows, r), r, "received") # Null /\ r.at - Prev(rows, r).at <= Gap(Prev(rows, r))
      BY DEF Steps
    <3>3. Prev(rows, r).started = r.started
      BY <3>2 DEF Delta
    <3>4. QED
      BY <3>1, <3>2, <3>3
  <2>11. /\ \A g, h \in 1 .. Hours : g # h => Hourly(rows, start, g) \cap Hourly(rows, start, h) = {}
         /\ UNION {Hourly(rows, start, h) : h \in 1 .. Hours} = {r \in steps : r.at < end}
    BY <2>1, HoursAre
  <2> HIDE DEF rated, steps
  <2>12. {p.row : p \in {q \in rated : q.at < end}} = {r \in steps : r.at < end}
    BY <2>8, <2>9
  <2>13. ASSUME NEW p \in rated
         PROVE  /\ \A q \in points : q.at <= p.prev.at \/ p.at <= q.at
                /\ p.prev.started = p.row.started
                /\ p.at - p.prev.at <= Gap(p.prev)
    BY <2>8, <2>9, <2>10
  <2>14. QED
    <3>1. /\ \A p, q \in points : p.at = q.at => p = q
          /\ \A p, q \in points : p.t = q.t => p = q \/ Null \notin {p.row, q.row}
      BY <2>4, <2>6
    <3>2. QED
      BY <2>3, <2>7, <2>11, <2>12, <2>13, <3>1 DEF rows, start, end
<1>2. HealthInv => ChartTrue
  BY <1>1 DEF ChartTrue
<1>3. QED
  BY <1>2, HealthInvariant, PTL
===============================================================================
