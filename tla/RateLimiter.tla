------------------------------ MODULE RateLimiter -----------------------------
(***************************************************************************)
(* tokens.RateLimiter, the sliding-window limiter in front of /token,      *)
(* /register and /report: for each key (a client id or an address) the     *)
(* times of the requests it let through, oldest first.  It lives in the    *)
(* portal process, so a restart forgets it.  check() runs on the event     *)
(* loop without an await and is one step.  The clock is monotonic.         *)
(***************************************************************************)
EXTENDS Integers, Sequences, FiniteSets

CONSTANTS
    Keys,       \* what requests are counted by
    Limit,      \* requests let through ...
    Window,     \* ... within this long
    MaxTime     \* bound of the model: the clock stops here

VARIABLES
    now,        \* time.monotonic()
    hits,       \* _hits: a deque of times for every key
    admitted    \* history: when requests got through, since the start

vars == <<now, hits, admitted>>

Times == 0 .. MaxTime

ASSUME ConstantsAssumption ==
    /\ Limit \in Nat \ {0} /\ Window \in Nat \ {0} /\ MaxTime \in Nat

TypeOK ==
    /\ now \in Times
    /\ hits \in [Keys -> Seq(Times)]
    /\ \A k \in Keys : Len(hits[k]) <= Limit
    /\ admitted \in [Keys -> Seq(Times)]

Init ==
    /\ now = 0
    /\ hits = [k \in Keys |-> << >>]
    /\ admitted = [k \in Keys |-> << >>]

(* The bucket without the hits that have left the window: popleft stops at *)
(* the first that has not.                                                 *)
GoneTooEarly(m) == m <= now - Window + 1

GoneTooLate(m) == m < now - Window

Gone(m) == m <= now - Window

Kept(bucket) ==
    LET n == CHOOSE n \in 0 .. Len(bucket) :
                 /\ \A i \in 1 .. n : Gone(bucket[i])
                 /\ n < Len(bucket) => ~Gone(bucket[n + 1])
    IN  SubSeq(bucket, n + 1, Len(bucket))

RoomForOneMore(bucket) == Len(bucket) <= Limit

Room(bucket) == Len(bucket) < Limit

(* check() returns True, and the hit is counted. *)
Admit(k) ==
    /\ Room(Kept(hits[k]))
    /\ hits' = [hits EXCEPT ![k] = Append(Kept(@), now)]
    /\ admitted' = [admitted EXCEPT ![k] = Append(@, now)]
    /\ UNCHANGED now

(* check() returns False: 429. *)
Refuse(k) ==
    /\ ~Room(Kept(hits[k]))
    /\ hits' = [hits EXCEPT ![k] = Kept(@)]
    /\ UNCHANGED <<now, admitted>>

Restart ==
    /\ hits' = [k \in Keys |-> << >>]
    /\ admitted' = [k \in Keys |-> << >>]
    /\ UNCHANGED now

Tick ==
    /\ now < MaxTime
    /\ now' = now + 1
    /\ UNCHANGED <<hits, admitted>>

Next ==
    \/ \E k \in Keys : Admit(k)
    \/ \E k \in Keys : Refuse(k)
    \/ Restart
    \/ Tick

Spec == Init /\ [][Next]_vars

-------------------------------------------------------------------------------

(* Requests of a key let through from time m up to, not including, m plus  *)
(* the window.                                                             *)
InWindow(k, m) ==
    {i \in DOMAIN admitted[k] : m <= admitted[k][i] /\ admitted[k][i] < m + Window}

(* No stretch of one window, wherever it starts, sees more than the limit  *)
(* let through by one process: not around the edge where old hits leave.   *)
NeverMoreThanLimit == \A k \in Keys, m \in Times : Cardinality(InWindow(k, m)) <= Limit

(* A key is refused only while the last window really holds the limit:     *)
(* refusals do not count, and other keys do not.                           *)
RefusedOnlyAtLimit ==
    \A k \in Keys : ~Room(Kept(hits[k])) => Cardinality(InWindow(k, now - Window + 1)) = Limit
===============================================================================
