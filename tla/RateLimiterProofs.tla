--------------------------- MODULE RateLimiterProofs --------------------------
(***************************************************************************)
(* RateLimiter keeps its promises for every limit, window and set of keys: *)
(* no window, wherever it starts, sees more than the limit, nobody is      *)
(* refused below it, and no deque is ever longer than it.  A deque is the  *)
(* end of the history of its key; what was dropped from it is too old to   *)
(* count, and any two hits that are the limit apart are a window apart.    *)
(***************************************************************************)
EXTENDS RateLimiter, TLAPS, FiniteSetTheorems, SequenceTheorems, WellFoundedInduction

USE ConstantsAssumption DEF ConstantsAssumption, Times

(* The deque holds the last of the admitted hits, the rest are gone.       *)
Remembers(bucket, history) ==
    LET n == Len(history) - Len(bucket)
    IN  /\ n >= 0
        /\ \A i \in 1 .. Len(bucket) : bucket[i] = history[n + i]
        /\ \A i \in 1 .. n : Gone(history[i])

(* Hits are in the order of time, and Limit of them take a window.         *)
Spaced(history) ==
    /\ \A i \in 1 .. Len(history) : history[i] <= now
    /\ \A i, j \in 1 .. Len(history) : i <= j => history[i] <= history[j]
    /\ \A i \in 1 .. Len(history) - Limit : history[i] + Window <= history[i + Limit]

LimiterInv ==
    /\ TypeOK
    /\ \A k \in Keys : Remembers(hits[k], admitted[k]) /\ Spaced(admitted[k])

(* A set of numbers has a smallest.                                        *)
LEMMA Smallest ==
    ASSUME NEW S, S \subseteq Nat, S # {}
    PROVE  \E m \in S : \A x \in S : m <= x
<1>1. \E m \in S : \A x \in S : <<x, m>> \notin OpToRel(<, Nat)
  BY WFMin, NatLessThanWellFounded
<1>2. PICK m \in S : \A x \in S : ~(x < m)
  BY <1>1 DEF OpToRel
<1>3. QED
  BY <1>2

(* popleft takes the hits that are gone from the front, and no other.      *)
LEMMA KeptIsEnd ==
    ASSUME NEW bucket \in Seq(Times), now \in Times
    PROVE  \E n \in 0 .. Len(bucket) :
               /\ Kept(bucket) \in Seq(Times)
               /\ Len(Kept(bucket)) = Len(bucket) - n
               /\ \A i \in 1 .. Len(bucket) - n : Kept(bucket)[i] = bucket[n + i]
               /\ \A i \in 1 .. n : Gone(bucket[i])
               /\ n < Len(bucket) => ~Gone(bucket[n + 1])
<1> DEFINE P(n) == /\ \A i \in 1 .. n : Gone(bucket[i])
                   /\ n < Len(bucket) => ~Gone(bucket[n + 1])
<1> DEFINE there == {i \in 1 .. Len(bucket) : ~Gone(bucket[i])}
<1>1. Len(bucket) \in Nat
  OBVIOUS
<1>2. \E n \in 0 .. Len(bucket) : P(n)
  <2>1. CASE there = {}
    <3>1. P(Len(bucket))
      BY <1>1, <2>1
    <3>2. QED
      BY <1>1, <3>1
  <2>2. CASE there # {}
    <3>1. there \subseteq Nat
      BY <1>1
    <3>2. PICK m \in there : \A x \in there : m <= x
      BY <2>2, <3>1, Smallest
    <3>3. m \in 1 .. Len(bucket) /\ ~Gone(bucket[m])
      BY <3>2
    <3>4. \A i \in 1 .. m - 1 : Gone(bucket[i])
      BY <1>1, <3>2, <3>3
    <3>5. P(m - 1)
      BY <1>1, <3>3, <3>4
    <3>6. m - 1 \in 0 .. Len(bucket)
      BY <1>1, <3>3
    <3>7. QED
      BY <3>5, <3>6
  <2>3. QED
    BY <2>1, <2>2
<1> DEFINE n == CHOOSE n \in 0 .. Len(bucket) : P(n)
<1>3. n \in 0 .. Len(bucket) /\ P(n)
  BY <1>2
<1>4. Kept(bucket) = SubSeq(bucket, n + 1, Len(bucket))
  BY DEF Kept
<1> HIDE DEF n
<1>5. \A i \in n + 1 .. Len(bucket) : bucket[i] \in Times
  BY <1>1, <1>3
<1>6. /\ Kept(bucket) \in Seq(Times)
      /\ Len(Kept(bucket)) = IF n + 1 <= Len(bucket) THEN Len(bucket) - (n + 1) + 1 ELSE 0
      /\ \A i \in 1 .. Len(bucket) - (n + 1) + 1 : Kept(bucket)[i] = bucket[n + 1 + i - 1]
  BY <1>1, <1>3, <1>4, <1>5, SubSeqProperties
<1>7. /\ Len(Kept(bucket)) = Len(bucket) - n
      /\ \A i \in 1 .. Len(bucket) - n : Kept(bucket)[i] = bucket[n + i]
  BY <1>1, <1>3, <1>6
<1>8. QED
  BY <1>3, <1>6, <1>7

(* Dropping the gone hits keeps the end of the history; when a whole limit *)
(* of hits is kept, all of them are of the last window.                    *)
LEMMA KeptRemembers ==
    ASSUME LimiterInv, NEW k \in Keys
    PROVE  /\ Kept(hits[k]) \in Seq(Times)
           /\ Len(Kept(hits[k])) <= Len(hits[k])
           /\ Remembers(Kept(hits[k]), admitted[k])
           /\ \A i \in 1 .. Len(Kept(hits[k])) : ~Gone(Kept(hits[k])[i])
<1> DEFINE h == hits[k]
           a == admitted[k]
<1>1. h \in Seq(Times) /\ a \in Seq(Times) /\ now \in Times
  BY DEF LimiterInv, TypeOK
<1>2. Remembers(h, a) /\ Spaced(a)
  BY DEF LimiterInv
<1> HIDE DEF h, a
<1>3. PICK n \in 0 .. Len(h) :
               /\ Kept(h) \in Seq(Times)
               /\ Len(Kept(h)) = Len(h) - n
               /\ \A i \in 1 .. Len(h) - n : Kept(h)[i] = h[n + i]
               /\ \A i \in 1 .. n : Gone(h[i])
               /\ n < Len(h) => ~Gone(h[n + 1])
  BY <1>1, KeptIsEnd
<1> DEFINE d == Len(a) - Len(h)
<1>4. /\ Len(h) \in Nat /\ Len(a) \in Nat /\ d \in Nat /\ n \in Nat /\ n <= Len(h)
      /\ Len(a) - Len(Kept(h)) = d + n
  BY <1>1, <1>2, <1>3 DEF Remembers
<1>5. \A i \in 1 .. Len(h) : h[i] = a[d + i]
  BY <1>2 DEF Remembers
<1>6. \A i \in 1 .. Len(Kept(h)) : Kept(h)[i] = a[d + n + i]
  BY <1>3, <1>4, <1>5
<1>7. \A i \in 1 .. d + n : Gone(a[i])
  <2> SUFFICES ASSUME NEW i \in 1 .. d + n PROVE Gone(a[i])
    OBVIOUS
  <2>1. CASE i <= d
    BY <1>2, <1>4, <2>1 DEF Remembers
  <2>2. CASE i > d
    <3>1. i - d \in 1 .. n /\ i - d \in 1 .. Len(h) /\ d + (i - d) = i
      BY <1>4, <2>2
    <3>2. Gone(h[i - d]) /\ h[i - d] = a[d + (i - d)]
      BY <1>3, <1>5, <3>1
    <3>3. QED
      BY <3>1, <3>2
  <2>3. QED
    BY <1>4, <2>1, <2>2
<1>8. Remembers(Kept(h), a)
  BY <1>4, <1>6, <1>7 DEF Remembers
<1>9. ASSUME NEW i \in 1 .. Len(Kept(h)) PROVE ~Gone(Kept(h)[i])
  <2>1. /\ n < Len(h) /\ n + 1 \in 1 .. Len(h) /\ d + n + i \in 1 .. Len(a)
        /\ d + (n + 1) \in 1 .. Len(a) /\ d + (n + 1) <= d + n + i
    BY <1>3, <1>4, <1>9
  <2>2. ~Gone(a[d + (n + 1)])
    BY <1>3, <1>5, <2>1
  <2>3. a[d + (n + 1)] <= a[d + n + i]
    BY <1>2, <2>1 DEF Spaced
  <2>4. a[d + (n + 1)] \in Nat /\ a[d + n + i] \in Nat
    <3>1. \A x \in 1 .. Len(a) : a[x] \in Nat
      BY <1>1
    <3>2. QED
      BY <2>1, <3>1
  <2>5. Kept(h)[i] = a[d + n + i]
    BY <1>6, <1>9
  <2>6. QED
    BY <1>1, <2>2, <2>3, <2>4, <2>5 DEF Gone
<1>10. QED
  BY <1>3, <1>4, <1>8, <1>9 DEF h, a

(* Every deque starts empty, like the history it remembers.                *)
LEMMA LimiterInit == Init => LimiterInv
BY DEF Init, LimiterInv, TypeOK, Remembers, Spaced

(* A hit that is let through goes to the end of both; the limit's worth of *)
(* hits before it reaches back to one that was dropped.                    *)
LEMMA AdmitStep ==
    ASSUME LimiterInv, NEW k \in Keys, Admit(k)
    PROVE  LimiterInv'
<1> DEFINE kept == Kept(hits[k])
           a == admitted[k]
           n == Len(a) - Len(kept)
<1>1. /\ kept \in Seq(Times) /\ a \in Seq(Times) /\ now \in Times /\ now' = now
      /\ Len(kept) < Limit /\ Remembers(kept, a) /\ Spaced(a)
  BY KeptRemembers DEF LimiterInv, TypeOK, Admit, Room
<1>2. /\ hits' = [hits EXCEPT ![k] = Append(kept, now)]
      /\ admitted' = [admitted EXCEPT ![k] = Append(a, now)]
  BY DEF Admit
<1>3. /\ hits'[k] = Append(kept, now) /\ admitted'[k] = Append(a, now)
      /\ \A o \in Keys \ {k} : hits'[o] = hits[o] /\ admitted'[o] = admitted[o]
  BY <1>2 DEF LimiterInv, TypeOK
<1> DEFINE newKept == Append(kept, now)
           newA == Append(a, now)
<1> HIDE DEF kept, a
<1>4. /\ Len(kept) \in Nat /\ Len(a) \in Nat /\ n \in Nat /\ n + Len(kept) = Len(a)
      /\ newKept \in Seq(Times) /\ newA \in Seq(Times)
      /\ Len(newKept) = Len(kept) + 1 /\ Len(newA) = Len(a) + 1
      /\ \A i \in 1 .. Len(a) : newA[i] = a[i] /\ a[i] \in Nat
      /\ \A i \in 1 .. Len(kept) : newKept[i] = kept[i]
      /\ newA[Len(a) + 1] = now /\ newKept[Len(kept) + 1] = now
  BY <1>1 DEF Remembers
<1>5. TypeOK'
  BY <1>1, <1>2, <1>4 DEF LimiterInv, TypeOK
<1> HIDE DEF newKept, newA
<1>6. Remembers(newKept, newA)
  <2>1. Len(newA) - Len(newKept) = n
    BY <1>4
  <2>2. ASSUME NEW i \in 1 .. Len(newKept) PROVE newKept[i] = newA[n + i]
    <3>1. CASE i \in 1 .. Len(kept)
      <4>1. n + i \in 1 .. Len(a) /\ kept[i] = a[n + i]
        BY <1>1, <1>4, <3>1 DEF Remembers
      <4>2. QED
        BY <1>4, <3>1, <4>1
    <3>2. CASE i = Len(kept) + 1
      <4>1. n + i = Len(a) + 1
        BY <1>4, <3>2
      <4>2. QED
        BY <1>4, <3>2, <4>1
    <3>3. QED
      BY <1>4, <3>1, <3>2
  <2>3. ASSUME NEW i \in 1 .. n PROVE Gone(newA[i])
    <3>1. i \in 1 .. Len(a)
      BY <1>4
    <3>2. Gone(a[i])
      BY <1>1 DEF Remembers
    <3>3. QED
      BY <1>4, <3>1, <3>2
  <2>4. n >= 0
    BY <1>4
  <2>5. QED
    BY <2>1, <2>2, <2>3, <2>4 DEF Remembers
<1>7. Spaced(newA)
  <2>1. ASSUME NEW i \in 1 .. Len(newA) PROVE newA[i] <= now /\ newA[i] \in Nat
    <3>1. CASE i \in 1 .. Len(a)
      BY <1>1, <1>4, <3>1 DEF Spaced
    <3>2. CASE i = Len(a) + 1
      BY <1>1, <1>4, <3>2
    <3>3. QED
      BY <1>4, <3>1, <3>2
  <2>2. ASSUME NEW i \in 1 .. Len(newA), NEW j \in 1 .. Len(newA), i <= j
        PROVE  newA[i] <= newA[j]
    <3>1. CASE j \in 1 .. Len(a)
      <4>1. i \in 1 .. Len(a)
        BY <1>4, <2>2, <3>1
      <4>2. a[i] <= a[j]
        BY <1>1, <2>2, <3>1, <4>1 DEF Spaced
      <4>3. QED
        BY <1>4, <3>1, <4>1, <4>2
    <3>2. CASE j = Len(a) + 1
      BY <1>4, <2>1, <3>2
    <3>3. QED
      BY <1>4, <3>1, <3>2
  <2>3. ASSUME NEW i \in 1 .. Len(newA) - Limit
        PROVE  newA[i] + Window <= newA[i + Limit]
    <3>1. CASE i + Limit = Len(a) + 1
      <4>1. i \in 1 .. n /\ i \in 1 .. Len(a) /\ newA[i + Limit] = now
        BY <1>1, <1>4, <3>1
      <4>2. Gone(newA[i]) /\ newA[i] \in Nat
        BY <1>1, <1>4, <4>1 DEF Remembers
      <4>3. QED
        BY <1>1, <4>1, <4>2 DEF Gone
    <3>2. CASE i + Limit # Len(a) + 1
      <4>1. Len(a) \in Nat /\ i \in Nat /\ i >= 1 /\ i <= Len(a) + 1 - Limit
        BY <1>4
      <4>2. i \in 1 .. Len(a) - Limit /\ i \in 1 .. Len(a) /\ i + Limit \in 1 .. Len(a)
        BY <3>2, <4>1
      <4>3. a[i] + Window <= a[i + Limit]
        BY <1>1, <4>2 DEF Spaced
      <4>4. QED
        BY <1>4, <4>2, <4>3
    <3>3. QED
      BY <3>1, <3>2
  <2>4. QED
    BY <2>1, <2>2, <2>3 DEF Spaced
<1>8. ASSUME NEW o \in Keys
      PROVE  (Remembers(hits[o], admitted[o]) /\ Spaced(admitted[o]))'
  <2>1. CASE o = k
    BY <1>1, <1>3, <1>6, <1>7, <2>1 DEF Remembers, Spaced, Gone, newKept, newA
  <2>2. CASE o # k
    BY <1>1, <1>3, <2>2 DEF LimiterInv, Remembers, Spaced, Gone
  <2>3. QED
    BY <2>1, <2>2
<1>9. QED
  BY <1>5, <1>8 DEF LimiterInv

(* Every other step drops what is gone, forgets all, or lets time pass,    *)
(* which makes nothing less gone.                                          *)
LEMMA LimiterStep == LimiterInv /\ [Next]_vars => LimiterInv'
<1> SUFFICES ASSUME LimiterInv, [Next]_vars PROVE LimiterInv'
  OBVIOUS
<1>1. ASSUME NEW k \in Keys, Admit(k) PROVE LimiterInv'
  BY <1>1, AdmitStep
<1>2. ASSUME NEW k \in Keys, Refuse(k) PROVE LimiterInv'
  <2> DEFINE kept == Kept(hits[k])
  <2>1. /\ kept \in Seq(Times) /\ Len(kept) <= Limit /\ Remembers(kept, admitted[k])
    BY KeptRemembers DEF LimiterInv, TypeOK
  <2>2. /\ hits' = [hits EXCEPT ![k] = kept] /\ UNCHANGED <<now, admitted>>
    BY <1>2 DEF Refuse
  <2> HIDE DEF kept
  <2>3. TypeOK'
    BY <2>1, <2>2 DEF LimiterInv, TypeOK
  <2>4. ASSUME NEW o \in Keys
        PROVE  (Remembers(hits[o], admitted[o]) /\ Spaced(admitted[o]))'
    <3>1. /\ hits'[o] = IF o = k THEN kept ELSE hits[o]
          /\ admitted'[o] = admitted[o] /\ now' = now
      BY <2>2 DEF LimiterInv, TypeOK
    <3>2. Remembers(hits'[o], admitted[o]) /\ Spaced(admitted[o])
      BY <2>1, <3>1 DEF LimiterInv
    <3>3. QED
      BY <3>1, <3>2 DEF Remembers, Spaced, Gone
  <2>5. QED
    BY <2>3, <2>4 DEF LimiterInv
<1>3. CASE Restart
  <2>1. TypeOK'
    BY <1>3 DEF Restart, LimiterInv, TypeOK
  <2>2. \A k \in Keys : hits'[k] = << >> /\ admitted'[k] = << >>
    BY <1>3 DEF Restart
  <2>3. \A k \in Keys : (Remembers(hits[k], admitted[k]) /\ Spaced(admitted[k]))'
    <3>1. /\ \A i \in 1 .. 0 : FALSE
          /\ \A i \in 1 .. 0 - Limit : FALSE
      OBVIOUS
    <3>2. Len(<< >>) = 0 /\ 0 - 0 = 0 /\ 0 >= 0
      OBVIOUS
    <3>3. \A k \in Keys : Remembers(hits[k], admitted[k])'
      BY <2>2, <3>1, <3>2 DEF Remembers
    <3>4. \A k \in Keys : Spaced(admitted[k])'
      BY <2>2, <3>1, <3>2 DEF Spaced
    <3>5. QED
      BY <3>3, <3>4
  <2>4. QED
    BY <2>1, <2>3 DEF LimiterInv
<1>4. CASE Tick
  <2>1. TypeOK' /\ now' = now + 1 /\ UNCHANGED <<hits, admitted>> /\ now \in Nat
    BY <1>4 DEF Tick, LimiterInv, TypeOK
  <2>2. ASSUME NEW k \in Keys
        PROVE  (Remembers(hits[k], admitted[k]) /\ Spaced(admitted[k]))'
    <3>1. /\ hits[k] \in Seq(Times) /\ admitted[k] \in Seq(Times)
          /\ \A i \in 1 .. Len(admitted[k]) : admitted[k][i] \in Nat
      BY DEF LimiterInv, TypeOK
    <3>2. Remembers(hits[k], admitted[k]) /\ Spaced(admitted[k])
      BY DEF LimiterInv
    <3>3. \A x \in Nat : Gone(x) => x <= now' - Window
      BY <2>1 DEF Gone
    <3>4. Remembers(hits[k], admitted[k])'
      <4> DEFINE n == Len(admitted[k]) - Len(hits[k])
      <4>1. /\ n >= 0
            /\ \A i \in 1 .. n : Gone(admitted[k][i])
            /\ \A i \in 1 .. Len(hits[k]) : hits[k][i] = admitted[k][n + i]
        BY <3>2 DEF Remembers
      <4>2. \A i \in 1 .. n : i \in 1 .. Len(admitted[k])
        BY <3>1, <4>1
      <4>3. \A i \in 1 .. n : admitted[k][i] <= now' - Window
        BY <3>1, <3>3, <4>1, <4>2
      <4>4. QED
        BY <2>1, <4>1, <4>3 DEF Remembers, Gone
    <3>5. Spaced(admitted[k])'
      BY <2>1, <3>1, <3>2 DEF Spaced
    <3>6. QED
      BY <3>4, <3>5
  <2>3. QED
    BY <2>1, <2>2 DEF LimiterInv
<1>5. CASE UNCHANGED vars
  BY <1>5 DEF vars, LimiterInv, TypeOK, Remembers, Spaced, Gone
<1>6. QED
  BY <1>1, <1>2, <1>3, <1>4, <1>5 DEF Next

(* The invariant holds in every state.                                     *)
LEMMA LimiterInvariant == Spec => []LimiterInv
BY LimiterInit, LimiterStep, PTL DEF Spec

(* No deque is ever longer than the limit, and times are times.            *)
THEOREM TypeCorrect == Spec => []TypeOK
<1>1. LimiterInv => TypeOK
  BY DEF LimiterInv
<1>2. QED
  BY <1>1, LimiterInvariant, PTL

(* No stretch of one window, wherever it starts, sees more hits than the   *)
(* limit: the first and the last of them are less than the limit apart.    *)
THEOREM WindowsHoldTheLimit == Spec => []NeverMoreThanLimit
<1>1. LimiterInv => NeverMoreThanLimit
  <2> SUFFICES ASSUME LimiterInv, NEW k \in Keys, NEW m \in Times
               PROVE  Cardinality(InWindow(k, m)) <= Limit
    BY DEF NeverMoreThanLimit
  <2> DEFINE a == admitted[k]
             W == InWindow(k, m)
  <2>1. /\ a \in Seq(Times) /\ Len(a) \in Nat /\ \A i \in 1 .. Len(a) : a[i] \in Nat
        /\ Spaced(a)
    BY DEF LimiterInv, TypeOK
  <2>2. W = {i \in 1 .. Len(a) : m <= a[i] /\ a[i] < m + Window}
    BY <2>1 DEF InWindow
  <2> HIDE DEF W, a
  <2>3. CASE W = {}
    BY <2>3, FS_EmptySet DEF W
  <2>4. CASE W # {}
    <3>1. PICK i \in W : \A x \in W : i <= x
      <4>1. W \subseteq Nat
        BY <2>1, <2>2
      <4>2. QED
        BY <2>4, <4>1, Smallest
    <3>2. ASSUME NEW x \in W PROVE x \in i .. i + Limit - 1
      <4>1. SUFFICES ASSUME x >= i + Limit PROVE FALSE
        BY <2>1, <2>2, <3>1
      <4>2. i \in 1 .. Len(a) - Limit /\ i + Limit \in 1 .. Len(a) /\ x \in 1 .. Len(a)
        BY <2>1, <2>2, <4>1
      <4>3. a[i] + Window <= a[i + Limit] /\ a[i + Limit] <= a[x]
        BY <2>1, <4>1, <4>2 DEF Spaced
      <4>4. QED
        BY <2>1, <2>2, <4>2, <4>3
    <3>3. /\ i \in Int /\ i + Limit - 1 \in Int /\ i <= i + Limit - 1
      BY <2>1, <2>2
    <3>4. IsFiniteSet(i .. i + Limit - 1) /\ Cardinality(i .. i + Limit - 1) = Limit
      <4> DEFINE j == i + Limit - 1
      <4>1. i \in Int /\ j \in Int
        BY <3>3
      <4> HIDE DEF j
      <4>2. /\ IsFiniteSet(i .. j)
            /\ Cardinality(i .. j) = IF i > j THEN 0 ELSE j - i + 1
        BY <4>1, FS_Interval, Zenon
      <4>3. ~(i > j) /\ j - i + 1 = Limit
        BY <3>3 DEF j
      <4>4. QED
        BY <4>2, <4>3 DEF j
    <3>5. QED
      BY <3>2, <3>4, FS_Subset DEF W
  <2>5. QED
    BY <2>3, <2>4
<1>2. QED
  BY <1>1, LimiterInvariant, PTL

(* Nobody is refused below the limit: what the deque holds when it has no  *)
(* room is exactly what was let through in the last window.                *)
THEOREM RefusalsAreDue == Spec => []RefusedOnlyAtLimit
<1>1. LimiterInv => RefusedOnlyAtLimit
  <2> SUFFICES ASSUME LimiterInv, NEW k \in Keys, ~Room(Kept(hits[k]))
               PROVE  Cardinality(InWindow(k, now - Window + 1)) = Limit
    BY DEF RefusedOnlyAtLimit
  <2> DEFINE a == admitted[k]
             kept == Kept(hits[k])
             n == Len(a) - Limit
  <2>1. /\ a \in Seq(Times) /\ Len(a) \in Nat /\ \A i \in 1 .. Len(a) : a[i] \in Nat
        /\ Spaced(a) /\ now \in Nat
    BY DEF LimiterInv, TypeOK
  <2>2. /\ kept \in Seq(Times) /\ Len(kept) = Limit /\ Remembers(kept, a)
        /\ \A i \in 1 .. Len(kept) : ~Gone(kept[i])
    BY KeptRemembers DEF Room, LimiterInv, TypeOK
  <2>3. InWindow(k, now - Window + 1)
            = {i \in 1 .. Len(a) : now - Window + 1 <= a[i] /\ a[i] < now - Window + 1 + Window}
    BY <2>1 DEF InWindow
  <2> HIDE DEF a, kept
  <2>4. n \in Nat /\ \A i \in 1 .. n : a[i] <= now - Window
    BY <2>1, <2>2 DEF Remembers, Gone
  <2>5. ASSUME NEW i \in n + 1 .. Len(a) PROVE now - Window < a[i] /\ a[i] <= now
    <3>1. i - n \in 1 .. Len(kept) /\ kept[i - n] = a[n + (i - n)]
      BY <2>1, <2>2, <2>4 DEF Remembers
    <3>2. ~Gone(a[i])
      BY <2>1, <2>2, <2>4, <3>1
    <3>3. QED
      BY <2>1, <2>4, <3>2 DEF Gone, Spaced
  <2>6. InWindow(k, now - Window + 1) = n + 1 .. Len(a)
    <3>1. ASSUME NEW i \in 1 .. Len(a), now - Window + 1 <= a[i] PROVE i \in n + 1 .. Len(a)
      <4>1. i \notin 1 .. n
        BY <2>1, <2>4, <3>1
      <4>2. QED
        BY <2>1, <2>4, <4>1
    <3>2. ASSUME NEW i \in n + 1 .. Len(a)
          PROVE  i \in 1 .. Len(a) /\ now - Window + 1 <= a[i] /\ a[i] < now - Window + 1 + Window
      BY <2>1, <2>4, <2>5
    <3>3. QED
      BY <2>3, <3>1, <3>2
  <2>7. /\ n + 1 \in Int /\ Len(a) \in Int /\ Len(a) = n + Limit
    BY <2>1, <2>4
  <2>8. Cardinality(n + 1 .. Len(a)) = IF n + 1 > Len(a) THEN 0 ELSE Len(a) - (n + 1) + 1
    BY <2>7, FS_Interval, Zenon
  <2>9. QED
    BY <2>4, <2>6, <2>7, <2>8
<1>2. QED
  BY <1>1, LimiterInvariant, PTL
===============================================================================
