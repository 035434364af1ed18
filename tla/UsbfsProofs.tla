---------------------------- MODULE UsbfsProofs ----------------------------
(***************************************************************************)
(* Theorems about Usbfs for every block size, length and number of rounds. *)
(***************************************************************************)
EXTENDS Usbfs, FiniteSetTheorems, SequenceTheorems, WellFoundedInduction, TLAPS

USE SizesAssumption

Places   == {"none", "kernel", "done", "reaped"}
Outcomes == {"ok", "killed", "shutdown", "stall", "error", "overflow"}
Results  == {"COMPLETED", "ERROR", "STALL", "OVERFLOW", "NO_DEVICE", "CANCELLED"}

Urb == [at : Places, size : Nat, start : Nat, len : Nat, st : Outcomes]

TypeOK ==
  /\ {plugged, reapAfter, removed, cancelling, short, broken} \subseteq BOOLEAN
  /\ kind \in Kinds /\ split \in Splits /\ length \in 0..MaxLength /\ rounds \in 0..Rounds
  /\ phase \in {"idle", "submitting", "pending", "finished"}
  /\ status \in Results \cup {"none"} /\ reapStatus \in Results
  /\ action \in {"NORMAL", "CANCELLED", "ERROR", "COMPLETED_EARLY", "SUBMIT_FAILED"}
  /\ lock \in {"free", "submit", "cancel", "handler", "report"}
  /\ {retired, transferred, offset, sent, next, reaped} \subseteq Nat
  /\ urbs \in Seq(Urb) /\ done \in Seq(Nat)
  /\ buffer \in [1..length -> Nat] 
  /\ disc \in [i : Nat, first : Nat \ {0}, last : Nat, ret : {"ok", "NO_DEVICE", "NOT_FOUND"}]

Requests == DOMAIN urbs
At(x)    == {u \in Requests : urbs[u].at = x}

-----------------------------------------------------------------------------
(* Facts about numbers and sequences.                                      *)

LEMMA Least ==
  ASSUME NEW S \in SUBSET Nat, S # {}
  PROVE  \E u \in S : \A v \in S : u <= v
<1> DEFINE T == {0..n : n \in S}
<1>1. T \subseteq FiniteSubsetsOf(Nat)
  <2>1. \A n \in S : 0..n \in SUBSET Nat /\ IsFiniteSet(0..n)
    BY FS_Interval
  <2>2. QED
    BY <2>1 DEF FiniteSubsetsOf
<1>2. IsWellFoundedOn(StrictSubsetOrdering(Nat), FiniteSubsetsOf(Nat))
  BY FS_StrictSubsetOrderingWellFounded, Zenon
<1>3. T # {}
  OBVIOUS
<1>4. PICK X \in T : \A Y \in T : ~ (<<Y, X>> \in StrictSubsetOrdering(Nat))
  <2> HIDE DEF T
  <2>1. QED
    BY <1>1, <1>2, <1>3, WFMin, Zenon
<1>5. PICK u \in S : X = 0..u
  OBVIOUS
<1>6. ASSUME NEW v \in S, v < u
      PROVE  FALSE
  <2>1. 0..v \in T
    OBVIOUS
  <2>2. 0..v \subseteq 0..u /\ 0..v # 0..u /\ 0..v \in SUBSET Nat /\ 0..u \in SUBSET Nat
    <3>1. u \in 0..u /\ u \notin 0..v
      BY <1>6
    <3>2. QED
      BY <3>1, <1>6
  <2>3. <<0..v, 0..u>> \in StrictSubsetOrdering(Nat)
    BY <2>2 DEF StrictSubsetOrdering
  <2>4. QED
    BY <2>1, <2>3, <1>4, <1>5
<1>7. QED
  BY <1>6

LEMMA SeqAsFunction ==
  ASSUME NEW S, NEW n \in Nat, NEW q \in [1..n -> S]
  PROVE  q \in Seq(S) /\ Len(q) = n
  BY SeqDef

\* A sequence keeps its length when its elements are changed.
LEMMA SeqChanged ==
  ASSUME NEW S, NEW s \in Seq(S), NEW t, t \in [DOMAIN s -> S]
  PROVE  t \in Seq(S) /\ Len(t) = Len(s) /\ DOMAIN t = DOMAIN s
<1>1. Len(s) \in Nat /\ DOMAIN s = 1..Len(s)
  BY LenProperties
<1>2. QED
  BY <1>1, SeqAsFunction

LEMMA ExceptType ==
  ASSUME NEW n \in Nat, NEW f \in [1..n -> Nat], NEW i \in Nat, NEW x \in Nat
  PROVE  [f EXCEPT ![i] = x] \in [1..n -> Nat]
  OBVIOUS

LEMMA EmptyIff ==
  ASSUME NEW S, NEW s \in Seq(S)
  PROVE  s = <<>> <=> Len(s) = 0
<1>1. Len(s) = 0 => s = <<>>
  BY SeqEqual, EmptySeq
<1>2. QED
  BY <1>1

LEMMA EmptyList ==
  ASSUME NEW S, NEW s \in Seq(S), \A i \in DOMAIN s : FALSE
  PROVE  s = <<>>
<1>1. Len(s) \in Nat /\ DOMAIN s = 1..Len(s)
  BY LenProperties
<1>2. Len(s) > 0 => 1 \in 1..Len(s)
  BY <1>1
<1>3. Len(s) = 0
  BY <1>1, <1>2
<1>4. QED
  BY <1>3, EmptyIff

\* The sequence names each request of S once.
Lists(q, S) == /\ q \in Seq(Nat) /\ DOMAIN q = 1..Len(q)
               /\ \A i \in DOMAIN q : q[i] \in S
               /\ \A u \in S : \E i \in DOMAIN q : q[i] = u
               /\ \A i, j \in DOMAIN q : q[i] = q[j] => i = j

\* What listing a finite set of numbers one way or the other gives.
LEMMA ListingProperties ==
  ASSUME NEW S \in SUBSET Nat, IsFiniteSet(S), NEW q \in Listings(S),
         Ascending(q) \/ Descending(q)
  PROVE  Lists(q, S)
<1>1. Cardinality(S) \in Nat
  BY FS_CardinalityType
<1>2. q \in [1..Cardinality(S) -> S] /\ S = {q[i] : i \in DOMAIN q}
  BY Zenon DEF Listings
<1>3. q \in Seq(S) /\ Len(q) = Cardinality(S)
  BY <1>1, <1>2, SeqAsFunction
<1>4. q \in Seq(Nat)
  BY <1>3, SeqMonotonic
<1>5. \A i, j \in DOMAIN q : q[i] = q[j] => i = j
  <2>1. \A i, j \in DOMAIN q : i \in Nat /\ j \in Nat /\ q[i] \in Nat /\ q[j] \in Nat
    BY <1>1, <1>2
  <2>2. \A i, j \in DOMAIN q : i < j => q[i] # q[j]
    BY <2>1 DEF Ascending, Descending
  <2>3. QED
    BY <2>1, <2>2
<1>6. QED
  BY <1>1, <1>2, <1>3, <1>4, <1>5 DEF Lists

\* A sequence that lists S may be put after one that names none of S.
LEMMA ListsAfterOne ==
  ASSUME NEW u \in Nat, NEW S \in SUBSET Nat, u \notin S, NEW q, Lists(q, S)
  PROVE  Lists(<<u>> \o q, S \cup {u})
<1> DEFINE n == Len(q)
           r == <<u>> \o q
<1>1. /\ n \in Nat /\ DOMAIN q = 1..n
      /\ \A i \in 1..n : q[i] \in S
      /\ \A v \in S : \E i \in 1..n : q[i] = v
      /\ \A i, j \in 1..n : q[i] = q[j] => i = j
  <2>1. q \in Seq(Nat) /\ DOMAIN q = 1..n
    BY Zenon DEF Lists
  <2>2. n \in Nat
    BY <2>1, LenProperties
  <2>3. QED
    BY <2>1, <2>2, Zenon DEF Lists
<1>2. /\ r \in Seq(Nat) /\ Len(r) = n + 1 /\ DOMAIN r = 1..n + 1
      /\ r[1] = u /\ \A i \in 2..n + 1 : r[i] = q[i - 1]
  BY <1>1 DEF Lists
<1> HIDE DEF r, n
<1>3. \A i \in 2..n + 1 : i - 1 \in 1..n /\ r[i] \in S
  BY <1>1, <1>2
<1>4. \A i \in 1..n + 1 : r[i] \in S \cup {u}
  BY <1>1, <1>2, <1>3
<1>5. \A v \in S \cup {u} : \E i \in 1..n + 1 : r[i] = v
  <2>1. ASSUME NEW v \in S PROVE \E i \in 1..n + 1 : r[i] = v
    <3>1. PICK i \in 1..n : q[i] = v
      BY <1>1
    <3>2. i + 1 \in 2..n + 1 /\ (i + 1) - 1 = i
      BY <3>1, <1>1
    <3>3. r[i + 1] = v
      BY <3>1, <3>2, <1>2
    <3>4. i + 1 \in 1..n + 1
      BY <3>1, <1>1
    <3>5. QED
      BY <3>3, <3>4
  <2>2. QED
    BY <2>1, <1>1, <1>2
<1>6. \A i, j \in 1..n + 1 : r[i] = r[j] => i = j
  <2>1. \A i \in 2..n + 1 : r[i] # u
    BY <1>3
  <2>2. \A i, j \in 2..n + 1 : r[i] = r[j] => i = j
    BY <1>1, <1>2, <1>3
  <2>3. \A i \in 1..n + 1 : i = 1 \/ i \in 2..n + 1
    BY <1>1
  <2>4. QED
    BY <2>1, <2>2, <2>3, <1>2
<1>7. QED
  BY <1>1, <1>2, <1>4, <1>5, <1>6 DEF Lists, r

-----------------------------------------------------------------------------
(* The requests a transfer is split into: they lie one after the other and *)
(* cover it.                                                               *)

LEMMA DivMod ==
  ASSUME NEW n \in Nat, NEW b \in Nat \ {0}
  PROVE  /\ n \div b \in Nat /\ n % b \in 0..b-1
         /\ n = b * (n \div b) + (n % b)
  OBVIOUS

LEMMA Quotient ==
  ASSUME NEW b \in Nat \ {0}, NEW q \in Nat, NEW p \in Nat,
         NEW r \in 0..b-1, NEW s \in 0..b-1, b * q + r = b * p + s
  PROVE  q = p
  OBVIOUS

LEMMA Multiples ==
  ASSUME NEW b \in Nat \ {0}, NEW p \in Int, NEW q \in Int
  PROVE  /\ b * p \in Int /\ b * (q + 1) = b * q + b
         /\ p < q => b * p + b <= b * q
         /\ p >= 0 => b * p \in Nat
  OBVIOUS

LEMMA UrbsNeededIs ==
  ASSUME NEW b \in Nat \ {0}, NEW n \in Nat
  PROVE  UrbsNeeded(b, n) =
           IF n = 0 THEN 1 ELSE (n \div b) + (IF n % b > 0 THEN 1 ELSE 0)
<1>1. CASE n = 0
  BY <1>1 DEF UrbsNeeded
<1>2. CASE n > 0
  <2> DEFINE m == n + b - 1
  <2>1. m \in Nat /\ UrbsNeeded(b, n) = m \div b
    BY <1>2 DEF UrbsNeeded
  <2> HIDE DEF m
  <2>2. /\ n \div b \in Nat /\ n % b \in 0..b-1 /\ n = b * (n \div b) + (n % b)
        /\ m \div b \in Nat /\ m % b \in 0..b-1 /\ m = b * (m \div b) + (m % b)
    BY <2>1, DivMod
  <2>3. CASE n % b = 0
    <3>1. m = b * (n \div b) + (b - 1)
      BY <2>2, <2>3 DEF m
    <3>2. m \div b = n \div b
      BY <2>2, <3>1, Quotient
    <3>3. QED
      BY <1>2, <2>1, <2>3, <3>2, <2>2
  <2>4. CASE n % b > 0
    <3>1. m = b * ((n \div b) + 1) + ((n % b) - 1)
      BY <2>2, <2>4, Multiples DEF m
    <3>2. (n \div b) + 1 \in Nat /\ (n % b) - 1 \in 0..b-1
      BY <2>2, <2>4
    <3>3. m \div b = (n \div b) + 1
      BY <2>2, <3>1, <3>2, Quotient
    <3>4. QED
      BY <1>2, <2>1, <2>4, <3>3
  <2>5. QED
    BY <2>2, <2>3, <2>4
<1>3. QED
  BY <1>1, <1>2

\* The requests s lie one after the other, within n bytes and up to the last one.
Covers(s, n) ==
  /\ Len(s) > 0 /\ s \in Seq(Urb)
  /\ \A u \in 1..Len(s) : s[u].start + s[u].size <= n
  /\ \A u, v \in 1..Len(s) : u < v => s[u].start + s[u].size <= s[v].start
  /\ \A u, v \in 1..Len(s) : v = u + 1 => s[u].start + s[u].size = s[v].start
  /\ s[1].start = 0 /\ s[Len(s)].start + s[Len(s)].size = n

Untouched(s) == \A u \in 1..Len(s) : s[u].at = "none" /\ s[u].st = "ok" /\ s[u].len = 0

LEMMA AllUrbsCover ==
  ASSUME NEW b \in Nat \ {0}, NEW n \in Nat
  PROVE  LET s == AllUrbs(b, n)
         IN  Covers(s, n) /\ Untouched(s) /\ Len(s) = UrbsNeeded(b, n)
<1> DEFINE N == UrbsNeeded(b, n)
           s == AllUrbs(b, n)
           q == n \div b
<1>1. q \in Nat /\ n % b \in 0..b-1 /\ n = b * q + (n % b)
  BY DivMod
<1>0. N = IF n = 0 THEN 1 ELSE q + (IF n % b > 0 THEN 1 ELSE 0)
  BY UrbsNeededIs
<1> HIDE DEF N, q
<1>2. /\ N \in Nat \ {0}
      /\ n = 0 => N = 1
      /\ n > 0 => N = q + (IF n % b > 0 THEN 1 ELSE 0)
  <2>1. n > 0 /\ n % b = 0 => q # 0
    <3>1. b * 0 = 0
      OBVIOUS
    <3>2. QED
      BY <1>1, <3>1
  <2>2. QED
    BY <1>0, <1>1, <2>1
<1>3. /\ s = [u \in 1..N |-> s[u]]
      /\ \A u \in 1..N : /\ s[u].at = "none" /\ s[u].st = "ok" /\ s[u].len = 0
                         /\ s[u].start = (u - 1) * b /\ s[u].size = UrbLength(b, n, u)
                         /\ s[u] = [at |-> "none", size |-> UrbLength(b, n, u),
                                    start |-> (u - 1) * b, len |-> 0, st |-> "ok"]
  BY DEF AllUrbs, N
<1> HIDE DEF s
<1>4. \A u \in 1..N : /\ b * (u - 1) \in Nat /\ (u - 1) * b = b * (u - 1)
                      /\ b * u = b * (u - 1) + b
                      /\ b * u \in Nat
  <2> TAKE u \in 1..N
  <2>1. u - 1 \in Nat /\ (u - 1) + 1 = u /\ u \in Nat
    BY <1>2
  <2>2. QED
    BY <2>1, Multiples
<1>5. \A u \in 1..N : /\ UrbLength(b, n, u) \in Nat /\ UrbLength(b, n, u) <= b
                      /\ u < N => UrbLength(b, n, u) = IF n = 0 THEN 0 ELSE b
                      /\ b * (u - 1) + UrbLength(b, n, u) <= n
                      /\ u = N => b * (u - 1) + UrbLength(b, n, u) = n
  <2> TAKE u \in 1..N
  <2>1. CASE n = 0
    <3>1. u = 1 /\ N = 1 /\ b * (u - 1) = 0
      BY <1>2, <2>1
    <3>2. QED
      BY <2>1, <3>1 DEF UrbLength
  <2>2. CASE n > 0 /\ n % b = 0
    <3>1. UrbLength(b, n, u) = b /\ N = q /\ b * N = n
      BY <2>2, <1>1, <1>2 DEF UrbLength
    <3>2. b * u <= b * N
      BY <1>2, Multiples
    <3>3. QED
      BY <3>1, <3>2, <1>4, <2>2
  <2>3. CASE n > 0 /\ n % b > 0
    <3>1. N = q + 1 /\ b * N = b * q + b
      BY <2>3, <1>1, <1>2, Multiples
    <3>2. CASE u = N
      <4>1. UrbLength(b, n, u) = n % b
        BY <2>3, <3>2 DEF UrbLength, N
      <4>2. u - 1 = q
        BY <3>1, <3>2, <1>1
      <4>3. QED
        BY <4>1, <4>2, <1>1, <3>2
    <3>3. CASE u < N
      <4>1. UrbLength(b, n, u) = b
        BY <2>3, <3>3 DEF UrbLength, N
      <4>2. b * u <= b * q
        <5>1. u \in Int /\ q \in Int /\ (u < q \/ u = q)
          BY <3>1, <3>3, <1>1
        <5>2. b * u \in Int /\ b * q \in Int /\ u < q => b * u + b <= b * q
          BY <5>1, Multiples
        <5>3. QED
          BY <5>1, <5>2, Multiples
      <4>3. QED
        BY <4>1, <4>2, <1>1, <1>4, <2>3, <3>3
    <3>4. QED
      BY <3>2, <3>3, <1>2
  <2>4. QED
    BY <2>1, <2>2, <2>3, <1>1
<1>6. \A u \in 1..N : s[u] \in Urb
  BY <1>3, <1>4, <1>5 DEF Urb, Places, Outcomes
<1>7. s \in Seq(Urb) /\ Len(s) = N
  <2>1. s \in [1..N -> Urb]
    BY <1>3, <1>6
  <2>2. QED
    BY <2>1, <1>2, SeqAsFunction
<1>8. ASSUME NEW u \in 1..N, NEW v \in 1..N
      PROVE  /\ u < v => s[u].start + s[u].size <= s[v].start
             /\ v = u + 1 => s[u].start + s[u].size = s[v].start
  <2>1. u < v => b * u <= b * (v - 1)
    <3>1. u \in Int /\ v - 1 \in Int /\ (u < v => u < v - 1 \/ u = v - 1)
      BY <1>2
    <3>2. b * u \in Int /\ b * (v - 1) \in Int /\ (u < v - 1 => b * u + b <= b * (v - 1))
      BY <3>1, Multiples
    <3>3. QED
      BY <3>1, <3>2
  <2>2. v = u + 1 => v - 1 = u /\ u < N /\ n # 0
    BY <1>2
  <2>3. /\ s[u].start = b * (u - 1) /\ s[v].start = b * (v - 1)
        /\ s[u].size = UrbLength(b, n, u)
    BY <1>3, <1>4
  <2>4. v = u + 1 => s[u].size = b
    BY <2>2, <2>3, <1>5
  <2>5. b * u = b * (u - 1) + b /\ b * (u - 1) \in Nat /\ b * (v - 1) \in Nat
    BY <1>4
  <2>6. s[u].size \in Nat /\ s[u].size <= b
    BY <2>3, <1>5
  <2>7. u < v => s[u].start + s[u].size <= s[v].start
    BY <2>1, <2>3, <2>5, <2>6
  <2>8. v = u + 1 => s[u].start + s[u].size = s[v].start
    BY <2>2, <2>3, <2>4, <2>5
  <2>9. QED
    BY <2>7, <2>8
<1>9. s[1].start = 0 /\ s[N].start + s[N].size = n
  <2>1. 1 \in 1..N /\ N \in 1..N /\ b * (1 - 1) = 0
    BY <1>2
  <2>2. s[1].start = 0
    BY <2>1, <1>3, <1>4
  <2>3. /\ s[N].start = b * (N - 1) /\ s[N].size = UrbLength(b, n, N)
        /\ b * (N - 1) + UrbLength(b, n, N) = n
    BY <2>1, <1>3, <1>4, <1>5
  <2>4. QED
    BY <2>2, <2>3
<1>10. Covers(s, n)
  <2>1. Len(s) = N /\ Len(s) > 0 /\ s \in Seq(Urb)
    BY <1>2, <1>7
  <2>2. \A u \in 1..N : s[u].start + s[u].size <= n
    BY <1>3, <1>4, <1>5
  <2>3. QED
    BY <2>1, <2>2, <1>8, <1>9 DEF Covers
<1>11. Untouched(s)
  BY <1>3, <1>7 DEF Untouched
<1>12. QED
  BY <1>7, <1>10, <1>11 DEF s, N

LEMMA OneUrb ==
  ASSUME NEW n \in Nat
  PROVE  UrbsNeeded(IF n = 0 THEN 1 ELSE n, n) = 1
<1>1. CASE n = 0
  BY <1>1 DEF UrbsNeeded
<1>2. CASE n > 0
  <2>1. n \div n \in Nat /\ n % n \in 0..n-1 /\ n = n * (n \div n) + (n % n)
    BY <1>2, DivMod
  <2>2. n * (n \div n) + (n % n) = n * 1 + 0
    BY <2>1
  <2>3. n \div n = 1
    BY <2>1, <2>2, <1>2, Quotient
  <2>4. QED
    BY <1>2, <2>1, <2>3, UrbsNeededIs
<1>3. QED
  BY <1>1, <1>2

-----------------------------------------------------------------------------
(* What the actions do to the requests.                                    *)

\* Those of S are at x now, and the rest is as it was.
Advance(S, x) ==
  /\ urbs' \in Seq(Urb) /\ NumUrbs' = NumUrbs /\ Requests' = Requests
  /\ \A v \in Requests \ S : urbs'[v] = urbs[v]
  /\ \A v \in S : /\ urbs'[v].at = x
                  /\ urbs'[v].len = urbs[v].len
                  /\ urbs'[v].size = urbs[v].size
                  /\ urbs'[v].start = urbs[v].start

\* The kernel is done with those of S, which are to be reaped in the order of q.
Finishes(S, q) ==
  /\ S \subseteq Pending /\ Lists(q, S)
  /\ Advance(S, "done") /\ done' = done \o q

LEMMA RequestsType ==
  ASSUME TypeOK
  PROVE  /\ NumUrbs \in Nat /\ Requests = 1..NumUrbs
         /\ \A u \in Requests : urbs[u] \in Urb
         /\ Pending = At("kernel") /\ Pending \in SUBSET Nat /\ IsFiniteSet(Pending)
<1>1. NumUrbs \in Nat /\ Requests = 1..NumUrbs /\ \A u \in Requests : urbs[u] \in Urb
  BY DEF TypeOK, NumUrbs, Requests
<1>2. Pending = At("kernel")
  BY DEF Pending, At, Requests
<1>3. Pending \in SUBSET (1..NumUrbs)
  BY <1>1 DEF Pending, Requests
<1>4. IsFiniteSet(Pending)
  <2>1. IsFiniteSet(1..NumUrbs)
    BY <1>1, FS_Interval
  <2>2. QED
    BY <2>1, <1>3, FS_Subset, Zenon
<1>5. QED
  BY <1>1, <1>2, <1>3, <1>4

\* The lemma behind the facts on each action: how the requests may change.
LEMMA Advances ==
  ASSUME TypeOK, NEW S \in SUBSET Requests, NEW x \in Places, NEW f \in [Requests -> Urb],
         urbs' = f,
         \A v \in Requests \ S : f[v] = urbs[v],
         \A v \in S : f[v].at = x /\ f[v].len = urbs[v].len /\ f[v].size = urbs[v].size
                                  /\ f[v].start = urbs[v].start
  PROVE  Advance(S, x)
<1>1. f \in Seq(Urb) /\ Len(f) = Len(urbs) /\ DOMAIN f = DOMAIN urbs
  BY SeqChanged DEF TypeOK, Requests
<1>2. QED
  BY <1>1 DEF Advance, NumUrbs, Requests

LEMMA SubmitUrbDoes ==
  ASSUME TypeOK, SubmitUrb
  PROVE  Advance({next}, "kernel") /\ urbs'[next].st = urbs[next].st
<1> DEFINE f == [urbs EXCEPT ![next].at = "kernel"]
<1>1. next \in Requests
  BY RequestsType DEF SubmitUrb
<1>2. /\ f \in [Requests -> Urb] /\ f[next].st = urbs[next].st
      /\ f[next].at = "kernel" /\ f[next].len = urbs[next].len /\ f[next].size = urbs[next].size
      /\ f[next].start = urbs[next].start /\ \A v \in Requests \ {next} : f[v] = urbs[v]
  BY <1>1, RequestsType DEF Urb, Places, Requests
<1>3. urbs' = f
  BY DEF SubmitUrb
<1> HIDE DEF f
<1>4. Advance({next}, "kernel")
  BY <1>1, <1>2, <1>3, Advances DEF Places
<1>5. QED
  BY <1>2, <1>3, <1>4

LEMMA DiscardUrbDoes ==
  ASSUME TypeOK, DiscardUrb
  PROVE  IF plugged /\ disc.i \in Pending
         THEN Finishes({disc.i}, <<disc.i>>) /\ urbs'[disc.i].st = "killed"
         ELSE UNCHANGED <<urbs, done>>
<1>1. CASE plugged /\ disc.i \in Pending
  <2> DEFINE u == disc.i
             f == [urbs EXCEPT ![u].at = "done", ![u].st = "killed"]
  <2>1. u \in Requests /\ u \in Nat
    BY <1>1, RequestsType DEF Pending, Requests
  <2>2. /\ f \in [Requests -> Urb] /\ f[u].st = "killed"
        /\ f[u].at = "done" /\ f[u].len = urbs[u].len /\ f[u].size = urbs[u].size
        /\ f[u].start = urbs[u].start /\ \A v \in Requests \ {u} : f[v] = urbs[v]
    BY <2>1, RequestsType DEF Urb, Places, Outcomes, Requests
  <2>3. urbs' = f /\ done' = Append(done, u)
    BY <1>1 DEF DiscardUrb
  <2> HIDE DEF f
  <2>4. Advance({u}, "done")
    BY <2>1, <2>2, <2>3, Advances DEF Places
  <2> HIDE DEF u
  <2>5. Lists(<<u>>, {u})
    BY <2>1 DEF Lists
  <2>6. done' = done \o <<u>>
    <3>1. done \in Seq(Nat)
      BY DEF TypeOK
    <3>2. QED
      BY <2>1, <2>3, <3>1, AppendIsConcat, Zenon
  <2>7. u \in Pending
    BY <1>1 DEF u
  <2>8. QED
    BY <1>1, <2>2, <2>3, <2>4, <2>5, <2>6, <2>7 DEF Finishes, u
<1>2. CASE ~ (plugged /\ disc.i \in Pending)
  BY <1>2 DEF DiscardUrb
<1>3. QED
  BY <1>1, <1>2

\* Every request that is done waits to be reaped, once; the one that was
\* reaped last is being handled; and a device that is gone keeps nothing.
ReapInv ==
  /\ Lists(done, At("done"))
  /\ reaped # 0 => reaped \in At("reaped")
  /\ ~ plugged => Pending = {}

LEMMA ReapDoes ==
  ASSUME TypeOK, ReapInv, Reap
  PROVE  /\ reaped' \in At("done") /\ Advance({reaped'}, "reaped")
         /\ urbs'[reaped'].st = urbs[reaped'].st /\ reaped' = done[1]
         /\ Len(done') = Len(done) - 1 /\ \A i \in 1..Len(done') : done'[i] = done[i + 1]
<1> DEFINE u == Head(done)
           f == [urbs EXCEPT ![u].at = "reaped"]
<1>0. done \in Seq(Nat) /\ done # <<>>
  BY DEF TypeOK, Reap
<1>1. /\ u = done[1] /\ 1 \in DOMAIN done
      /\ Len(Tail(done)) = Len(done) - 1
      /\ \A i \in 1..Len(Tail(done)) : Tail(done)[i] = done[i + 1]
  <2>1. Len(done) \in Nat /\ Len(done) # 0 /\ DOMAIN done = 1..Len(done)
    BY <1>0, EmptyIff, LenProperties
  <2>2. QED
    BY <1>0, <2>1
<1>2. u \in At("done")
  <2>1. \A i \in DOMAIN done : done[i] \in At("done")
    BY Zenon DEF ReapInv, Lists
  <2>2. QED
    BY <2>1, <1>1
<1>3. u \in Requests /\ u \in Nat
  BY <1>2, RequestsType DEF At
<1>4. /\ f \in [Requests -> Urb] /\ f[u].st = urbs[u].st
      /\ f[u].at = "reaped" /\ f[u].len = urbs[u].len /\ f[u].size = urbs[u].size
      /\ f[u].start = urbs[u].start /\ \A v \in Requests \ {u} : f[v] = urbs[v]
  BY <1>3, RequestsType DEF Urb, Places, Requests
<1>5. urbs' = f /\ reaped' = u /\ done' = Tail(done)
  BY DEF Reap
<1> HIDE DEF f, u
<1>6. Advance({u}, "reaped")
  BY <1>3, <1>4, <1>5, Advances DEF Places
<1>7. QED
  BY <1>1, <1>2, <1>4, <1>5, <1>6

LEMMA CurrentIs ==
  ASSUME TypeOK, Pending # {}
  PROVE  /\ Current \in Pending /\ Current \in Requests /\ Current \in Nat
         /\ \A v \in Pending : Current <= v
<1>1. \E u \in Pending : \A v \in Pending : u <= v
  BY RequestsType, Least
<1>2. Current \in Pending /\ \A v \in Pending : Current <= v
  BY <1>1, Zenon DEF Current
<1>3. QED
  BY <1>2, RequestsType DEF Pending, Requests

LEMMA DeliverDoes ==
  ASSUME TypeOK, Deliver
  PROVE  /\ Pending # {}
         /\ urbs' \in Seq(Urb) /\ NumUrbs' = NumUrbs /\ Requests' = Requests
         /\ \A v \in Requests \ {Current} : urbs'[v] = urbs[v]
         /\ urbs'[Current].at = "kernel" /\ urbs'[Current].st = urbs[Current].st
         /\ urbs'[Current].size = urbs[Current].size /\ urbs'[Current].start = urbs[Current].start
         /\ urbs'[Current].len = urbs[Current].len + 1 /\ urbs[Current].len < urbs[Current].size
<1> DEFINE u == Current
           f == [urbs EXCEPT ![u].len = @ + 1]
<1>0. Pending # {} /\ urbs[u].len < urbs[u].size /\ urbs' = f
  BY DEF Deliver
<1>1. u \in Requests /\ urbs[u].at = "kernel"
  BY <1>0, CurrentIs DEF Pending
<1> HIDE DEF u
<1>2. /\ f \in [Requests -> Urb] /\ f[u].st = urbs[u].st
      /\ f[u].at = "kernel" /\ f[u].len = urbs[u].len + 1 /\ f[u].size = urbs[u].size
      /\ f[u].start = urbs[u].start /\ \A v \in Requests \ {u} : f[v] = urbs[v]
  <2>1. urbs[u] \in Urb /\ \A v \in Requests : urbs[v] \in Urb
    BY <1>1, RequestsType
  <2>2. f[u] = [urbs[u] EXCEPT !.len = urbs[u].len + 1] /\ \A v \in Requests \ {u} : f[v] = urbs[v]
    BY <1>1 DEF Requests
  <2>3. [urbs[u] EXCEPT !.len = urbs[u].len + 1] \in Urb
    BY <2>1 DEF Urb
  <2>4. f = [v \in Requests |-> f[v]]
    BY DEF Requests
  <2> HIDE DEF f
  <2>5. f \in [Requests -> Urb]
    BY <2>1, <2>2, <2>3, <2>4
  <2>6. QED
    BY <1>1, <2>1, <2>2, <2>5 DEF Urb
<1> HIDE DEF f
<1>3. f \in Seq(Urb) /\ Len(f) = Len(urbs) /\ DOMAIN f = DOMAIN urbs
  BY <1>2, SeqChanged DEF TypeOK, Requests
<1>4. QED
  BY <1>0, <1>2, <1>3 DEF u, NumUrbs, Requests

LEMMA EndsDoes ==
  ASSUME TypeOK, NEW u \in Pending, NEW st \in Outcomes, NEW early \in BOOLEAN, Ends(u, st, early)
  PROVE  \E S \in SUBSET Pending, q \in Seq(Nat) :
           /\ u \in S /\ (S = {u} \/ (S = Pending /\ Continued /\ early))
           /\ Finishes(S, q) /\ urbs'[u].st = st
           /\ \A v \in S : v # u => urbs'[v].st = "killed"
<1> DEFINE K == IF Continued /\ early THEN Pending \ {u} ELSE {}
           S == K \cup {u}
           f == [v \in DOMAIN urbs |->
                  IF v = u THEN [urbs[v] EXCEPT !.at = "done", !.st = st]
                  ELSE IF v \in K THEN [urbs[v] EXCEPT !.at = "done", !.st = "killed"]
                  ELSE urbs[v]]
<1>1. PICK q \in Listings(K) : Ascending(q) /\ done' = done \o <<u>> \o q
  BY DEF Ends
<1>2. urbs' = f
  BY DEF Ends
<1>3. /\ K \in SUBSET Nat /\ IsFiniteSet(K) /\ u \notin K /\ u \in Nat /\ u \in Requests
      /\ S \in SUBSET Pending /\ S \in SUBSET Requests /\ (S = {u} \/ (S = Pending /\ Continued /\ early))
  <2>1. Pending \in SUBSET Requests /\ K \in SUBSET Pending /\ IsFiniteSet(Pending) /\ Pending \in SUBSET Nat
    BY RequestsType DEF Pending, Requests
  <2>2. IsFiniteSet(K)
    BY <2>1, FS_Subset, Zenon
  <2>3. u \notin K /\ (S = {u} \/ (S = Pending /\ Continued /\ early))
    <3>1. CASE Continued /\ early
      BY <3>1
    <3>2. CASE ~ (Continued /\ early)
      BY <3>2
    <3>3. QED
      BY <3>1, <3>2
  <2> HIDE DEF K
  <2>4. QED
    BY <2>1, <2>2, <2>3
<1>4. Lists(q, K)
  BY <1>1, <1>3, ListingProperties
<1>5. /\ f \in [Requests -> Urb] /\ f[u].st = st
      /\ \A v \in K : f[v].st = "killed"
      /\ \A v \in S : /\ f[v].at = "done" /\ f[v].len = urbs[v].len /\ f[v].size = urbs[v].size
                      /\ f[v].start = urbs[v].start
      /\ \A v \in Requests \ S : f[v] = urbs[v]
  <2>1. \A v \in Requests : urbs[v] \in Urb
    BY RequestsType
  <2>2. K \in SUBSET Requests
    BY <1>3
  <2> HIDE DEF K
  <2>3. QED
    BY <2>1, <2>2, <1>3 DEF Urb, Places, Outcomes, Requests
<1> HIDE DEF f, K
<1>6. Advance(S, "done")
  BY <1>2, <1>3, <1>5, Advances DEF Places
<1>7. Lists(<<u>> \o q, S)
  BY <1>3, <1>4, ListsAfterOne
<1>8. done' = done \o (<<u>> \o q)
  <2>1. done \in Seq(Nat) /\ <<u>> \in Seq(Nat) /\ q \in Seq(Nat)
    BY <1>3, <1>4 DEF TypeOK, Lists
  <2>2. (done \o <<u>>) \o q = done \o (<<u>> \o q)
    BY <2>1, ConcatAssociative
  <2>3. QED
    BY <1>1, <2>2
<1> DEFINE r == <<u>> \o q
<1>9. r \in Seq(Nat)
  BY <1>7 DEF Lists
<1>10. Finishes(S, r)
  BY <1>3, <1>6, <1>7, <1>8 DEF Finishes
<1>11. urbs'[u].st = st /\ (\A v \in S : v # u => urbs'[v].st = "killed") /\ u \in S
  BY <1>2, <1>5
<1> HIDE DEF r, S
<1>12. QED
  BY <1>3, <1>9, <1>10, <1>11

LEMMA UnplugDoes ==
  ASSUME TypeOK, Unplug
  PROVE  \E q \in Seq(Nat) : Finishes(Pending, q) /\ \A v \in Pending : urbs'[v].st = "shutdown"
<1> DEFINE f == [v \in DOMAIN urbs |-> IF v \in Pending
                   THEN [urbs[v] EXCEPT !.at = "done", !.st = "shutdown"] ELSE urbs[v]]
<1>1. PICK q \in Listings(Pending) : (Ascending(q) \/ Descending(q)) /\ done' = done \o q
  BY DEF Unplug
<1>2. urbs' = f
  BY DEF Unplug
<1>3. Lists(q, Pending)
  BY <1>1, RequestsType, ListingProperties
<1>4. Pending \in SUBSET Requests
  BY DEF Pending, Requests
<1>5. /\ f \in [Requests -> Urb]
      /\ \A v \in Pending : /\ f[v].at = "done" /\ f[v].len = urbs[v].len /\ f[v].size = urbs[v].size
                            /\ f[v].start = urbs[v].start /\ f[v].st = "shutdown"
      /\ \A v \in Requests \ Pending : f[v] = urbs[v]
  <2>1. \A v \in Requests : urbs[v] \in Urb
    BY RequestsType
  <2>2. QED
    BY <2>1, <1>4 DEF Urb, Places, Outcomes, Requests
<1> HIDE DEF f
<1>6. Advance(Pending, "done")
  BY <1>2, <1>4, <1>5, Advances DEF Places
<1>7. QED
  BY <1>1, <1>2, <1>3, <1>5, <1>6 DEF Finishes, Lists

-----------------------------------------------------------------------------
(* The invariant.                                                          *)

\* There are requests from the submission until the transfer is reported,
\* and a lock is held by a thread that has something to do.
PhaseInv ==
  /\ lock = "submit" <=> phase = "submitting"
  /\ lock \in {"cancel", "handler", "report"} => phase = "pending"
  /\ NumUrbs > 0 <=> (phase \in {"submitting", "pending"} /\ lock # "report")
  /\ IF lock = "submit" THEN next \in 1..NumUrbs + 1 ELSE next = 0
  /\ removed => ~ plugged
  /\ NumUrbs = 0 => reaped = 0 /\ done = <<>>

\* The requests cover the transfer, and none holds more than it may.
LayoutInv ==
  /\ NumUrbs > 0 => Covers(urbs, length)
  /\ \A u \in Requests : /\ urbs[u].len <= urbs[u].size
                         /\ urbs[u].at = "none" => urbs[u].len = 0
                         /\ urbs[u].st # "ok" => urbs[u].at \in {"done", "reaped"}
  /\ kind = "control" => NumUrbs <= 1

Submitting == lock = "submit" /\ next <= NumUrbs

\* Requests are submitted in order.
SubmitInv ==
  /\ \A u, v \in Requests : u < v /\ urbs[v].at # "none" => urbs[u].at # "none"
  /\ lock = "submit" => \A u \in Requests : u >= next => urbs[u].at = "none"
  /\ Submitting => \A u \in Requests : u < next => urbs[u].at # "none"

\* The requests nothing more is to come of: handled, or never submitted.
Settled == {u \in Requests : urbs[u].at \in {"none", "reaped"} /\ u # reaped}

CountInv ==
  IF Submitting
  THEN retired = 0 /\ \A u \in At("reaped") : u = reaped
  ELSE NumUrbs > 0 => retired = Cardinality(Settled)

\* Only the last request overflows, and it is the last to be reaped.
OverflowInv ==
  \A u \in Requests : urbs[u].st = "overflow" =>
    /\ u = NumUrbs /\ \A v \in Requests : urbs[v].at \in {"done", "reaped"}
    /\ urbs[u].at = "done" => done # <<>> /\ done[Len(done)] = u
    /\ urbs[u].at = "reaped" => done = <<>>

RequestInv == ReapInv /\ LayoutInv /\ SubmitInv /\ CountInv /\ OverflowInv

FsInv == TypeOK /\ PhaseInv /\ RequestInv

-----------------------------------------------------------------------------
(* Types.                                                                  *)

LEMMA MovedType ==
  ASSUME TypeOK, LayoutInv, NEW u \in Requests, NEW to \in Nat
  PROVE  Moved(u, to) \in [1..length -> Nat]
<1>1. /\ urbs[u].start \in Nat /\ urbs[u].len \in Nat /\ urbs[u].size \in Nat
      /\ urbs[u].len <= urbs[u].size /\ urbs[u].start + urbs[u].size <= length
  BY RequestsType DEF Urb, LayoutInv, Covers, NumUrbs
<1>2. buffer \in [1..length -> Nat] /\ length \in Nat
  BY DEF TypeOK
<1> DEFINE a == urbs[u].start
           n == urbs[u].len
<1>3. a \in Nat /\ n \in Nat /\ a + n <= length
  BY <1>1, <1>2
<1>4. Moved(u, to) = [i \in DOMAIN buffer |-> IF i \in to + 1..to + n THEN buffer[a + i - to] ELSE buffer[i]]
  BY DEF Moved
<1> HIDE DEF a, n
<1>5. \A i \in 1..length : i \in to + 1..to + n => a + i - to \in 1..length
  BY <1>2, <1>3
<1>6. QED
  BY <1>2, <1>4, <1>5

LEMMA IsoResultsType ==
  ASSUME TypeOK, NEW u \in Requests
  PROVE  IsoResults(u) \in [1..length -> Nat]
<1>1. urbs[u].start \in Nat /\ urbs[u].size \in Nat
  BY RequestsType DEF Urb
<1>2. buffer \in [1..length -> Nat] /\ length \in Nat /\ offset \in Nat
  BY DEF TypeOK
<1>3. ASSUME NEW i \in offset + 1..offset + urbs[u].size
      PROVE  urbs[u].start + i - offset \in Nat
  BY <1>1, <1>2
<1>4. QED
  BY <1>2, <1>3 DEF IsoResults

LEMMA HandleUrbDoes ==
  ASSUME TypeOK, ReapInv, HandleUrb
  PROVE  /\ reaped \in At("reaped") /\ reaped \in Requests
         /\ \/ urbs' = urbs /\ lock' \in {"free", "handler"}
            \/ /\ urbs' = <<>> /\ lock' = "report"
               /\ kind = "control" \/ AllRetired \/ urbs[reaped].st = "overflow"
<1>1. reaped \in At("reaped")
  BY DEF HandleUrb, ReapInv, TypeOK
<1>2. \/ urbs' = urbs /\ lock' \in {"free", "handler"}
      \/ /\ urbs' = <<>> /\ lock' = "report"
         /\ kind = "control" \/ AllRetired \/ urbs[reaped].st = "overflow"
  <2>1. CASE HandleBulk(reaped)
    <3>1. CASE BulkAbnormal(reaped)
      BY <3>1 DEF BulkAbnormal, Completed, WaitForMore
    <3>2. CASE BulkNormal(reaped)
      BY <3>2 DEF BulkNormal, Completed, WaitForMore, Remaining
    <3>3. QED
      BY <2>1, <3>1, <3>2 DEF HandleBulk
  <2>2. CASE HandleIso(reaped)
    BY <2>2 DEF HandleIso, Completed, WaitForMore
  <2>3. CASE HandleControl(reaped)
    BY <2>3 DEF HandleControl, Completed
  <2>4. QED
    BY <2>1, <2>2, <2>3 DEF HandleUrb
<1>3. QED
  BY <1>1, <1>2 DEF At

LEMMA HandleUrbType ==
  ASSUME TypeOK, ReapInv, LayoutInv, HandleUrb
  PROVE  TypeOK'
<1>1. reaped \in Requests /\ urbs[reaped].len \in Nat /\ urbs[reaped].size \in Nat
  BY HandleUrbDoes, RequestsType DEF Urb
<1>2. urbs' \in Seq(Urb)
  BY HandleUrbDoes, EmptySeq DEF TypeOK
<1>3. transferred' \in Nat /\ offset' \in Nat /\ retired' \in Nat /\ reaped' \in Nat
  <2>1. transferred \in Nat /\ offset \in Nat /\ retired \in Nat
    BY DEF TypeOK
  <2>2. /\ transferred' \in {transferred, transferred + urbs[reaped].len}
        /\ offset' \in {offset, offset + urbs[reaped].size}
        /\ retired' \in {retired, retired + 1} /\ reaped' = 0
    BY DEF HandleUrb, HandleBulk, HandleIso, HandleControl
  <2>3. QED
    BY <1>1, <2>1, <2>2
<1>4. lock' \in {"free", "handler", "report"}
  BY HandleUrbDoes
<1>5. buffer' \in [1..length -> Nat]
  <2>1. /\ transferred \in Nat /\ buffer \in [1..length -> Nat]
        /\ Moved(reaped, transferred) \in [1..length -> Nat]
        /\ IsoResults(reaped) \in [1..length -> Nat]
    BY <1>1, MovedType, IsoResultsType DEF TypeOK
  <2>2. buffer' \in {buffer, Moved(reaped, transferred), IsoResults(reaped)}
    BY DEF HandleUrb, HandleBulk, HandleIso, HandleControl, BulkAbnormal, BulkNormal
  <2>3. QED
    BY <2>1, <2>2
<1>6. \A st : FirstFailure(st) \in Results
  BY DEF FirstFailure, TypeOK, Results
<1>7. reapStatus' \in Results
  BY <1>6 DEF TypeOK, HandleUrb, HandleBulk, HandleIso, HandleControl, BulkAbnormal, BulkNormal, Results
<1>8. action' \in {action, "ERROR", "COMPLETED_EARLY"}
  BY DEF HandleUrb, HandleBulk, HandleIso, HandleControl, BulkAbnormal, BulkNormal
<1>9. disc' \in [i : Nat, first : Nat \ {0}, last : Nat, ret : {"ok", "NO_DEVICE", "NOT_FOUND"}]
  <2>1. disc' = disc \/ disc' = [i |-> NumUrbs, first |-> reaped + 1, last |-> NumUrbs, ret |-> "ok"]
    BY DEF HandleUrb, HandleBulk, HandleIso, HandleControl, BulkAbnormal, BulkNormal, WaitForMore,
           Completed, Remaining
  <2>2. reaped + 1 \in Nat \ {0} /\ NumUrbs \in Nat
    <3>1. reaped \in Nat
      BY DEF TypeOK
    <3>2. QED
      BY <3>1, RequestsType
  <2>3. disc \in [i : Nat, first : Nat \ {0}, last : Nat, ret : {"ok", "NO_DEVICE", "NOT_FOUND"}]
    BY DEF TypeOK
  <2>4. QED
    BY <2>1, <2>2, <2>3
<1>10. UNCHANGED <<kernel, request, phase, status, cancelling, done, sent, short, broken, next>>
  BY DEF HandleUrb
<1>11. QED
  BY <1>2, <1>3, <1>4, <1>5, <1>7, <1>8, <1>9, <1>10 DEF TypeOK, kernel, request

LEMMA SubmitBeginDoes ==
  ASSUME TypeOK, NEW k \in Kinds, NEW sp \in Splits, NEW n \in 0..MaxLength, SubmitBegin(k, sp, n)
  PROVE  /\ Covers(urbs', n) /\ Untouched(urbs') /\ length' = n /\ kind' = k
         /\ urbs' \in Seq(Urb) /\ Len(urbs') \in Nat \ {0} /\ Requests' = 1..Len(urbs')
         /\ k = "control" => Len(urbs') = 1
<1> DEFINE b == BlockLength(k, sp, n)
<1>1. n \in Nat /\ b \in Nat \ {0}
  BY DEF BlockLength
<1>2. urbs' = AllUrbs(b, n) /\ length' = n /\ kind' = k
  BY DEF SubmitBegin
<1> HIDE DEF b
<1>3. Covers(urbs', n) /\ Untouched(urbs') /\ Len(urbs') = UrbsNeeded(b, n)
  BY <1>1, <1>2, AllUrbsCover
<1>4. urbs' \in Seq(Urb) /\ Len(urbs') \in Nat \ {0} /\ DOMAIN urbs' = 1..Len(urbs')
  <2>1. urbs' \in Seq(Urb) /\ Len(urbs') > 0
    BY <1>3, Zenon DEF Covers
  <2>2. QED
    BY <2>1, LenProperties
<1>5. ASSUME k = "control"
      PROVE  UrbsNeeded(b, n) = 1
  <2>1. b = IF n = 0 THEN 1 ELSE n
    BY <1>5 DEF b, BlockLength
  <2>2. QED
    BY <1>1, <2>1, OneUrb
<1>6. QED
  BY <1>2, <1>3, <1>4, <1>5 DEF Requests

LEMMA SubmitBeginType ==
  ASSUME TypeOK, NEW k \in Kinds, NEW sp \in Splits, NEW n \in 0..MaxLength, SubmitBegin(k, sp, n)
  PROVE  TypeOK'
<1>1. urbs' \in Seq(Urb)
  BY SubmitBeginDoes
<1>2. buffer' \in [1..n -> Nat]
  BY DEF SubmitBegin
<1>3. rounds' \in 0..Rounds
  BY DEF SubmitBegin, TypeOK
<1>4. /\ kind' \in Kinds /\ split' \in Splits /\ length' = n /\ phase' = "submitting"
      /\ status' = "none" /\ reapStatus' = "COMPLETED" /\ action' = "NORMAL" /\ lock' = "submit"
      /\ retired' = 0 /\ transferred' = 0 /\ offset' = 0 /\ sent' = 0 /\ next' = 1
      /\ cancelling' = FALSE /\ short' = FALSE /\ broken' = FALSE
      /\ UNCHANGED <<plugged, reapAfter, removed, done, reaped, disc>>
  BY DEF SubmitBegin, kernel
<1>5. QED
  <2>1. /\ n \in Nat /\ {plugged, reapAfter, removed} \subseteq BOOLEAN
        /\ done \in Seq(Nat) /\ reaped \in Nat
        /\ disc \in [i : Nat, first : Nat \ {0}, last : Nat, ret : {"ok", "NO_DEVICE", "NOT_FOUND"}]
    BY DEF TypeOK
  <2>2. /\ {plugged', reapAfter', removed', cancelling', short', broken'} \subseteq BOOLEAN
        /\ {retired', transferred', offset', sent', next', reaped'} \subseteq Nat
    <3>1. {plugged', reapAfter', removed'} \subseteq BOOLEAN /\ reaped' \in Nat
      BY <1>4, <2>1
    <3>2. cancelling' \in BOOLEAN /\ short' \in BOOLEAN /\ broken' \in BOOLEAN
      BY <1>4
    <3>3. {retired', transferred', offset', sent', next', reaped'} \subseteq Nat
      BY <1>4, <3>1
    <3>4. QED
      BY <3>1, <3>2, <3>3
  <2>3. /\ phase' \in {"idle", "submitting", "pending", "finished"}
        /\ status' \in Results \cup {"none"} /\ reapStatus' \in Results
        /\ action' \in {"NORMAL", "CANCELLED", "ERROR", "COMPLETED_EARLY", "SUBMIT_FAILED"}
        /\ lock' \in {"free", "submit", "cancel", "handler", "report"}
    BY <1>4 DEF Results
  <2>4. kind' \in Kinds /\ split' \in Splits /\ length' \in 0..MaxLength /\ length' = n
    BY <1>4
  <2>5. /\ done' \in Seq(Nat)
        /\ disc' \in [i : Nat, first : Nat \ {0}, last : Nat, ret : {"ok", "NO_DEVICE", "NOT_FOUND"}]
    BY <1>4, <2>1
  <2>6. buffer' \in [1..length' -> Nat]
    BY <1>2, <2>4
  <2>7. QED
    BY <1>1, <1>3, <2>2, <2>3, <2>4, <2>5, <2>6 DEF TypeOK

LEMMA SubmitType ==
  ASSUME TypeOK, SubmitUrb \/ SubmitEnd \/ FirstUrbFails \/ LaterUrbFails
  PROVE  TypeOK'
<1>1. NumUrbs \in Nat /\ next \in Nat
  BY RequestsType DEF TypeOK
<1>2. CASE SubmitUrb
  <2>1. urbs' \in Seq(Urb)
    BY <1>2, SubmitUrbDoes DEF Advance
  <2>2. /\ next' = next + 1
        /\ UNCHANGED <<plugged, reapAfter, removed, kind, split, length, phase, status, cancelling,
                       retired, action, reapStatus, transferred, offset, done, sent, buffer,
                       short, broken, lock, reaped, disc, rounds>>
    BY <1>2 DEF SubmitUrb, kernel, request, private, device
  <2>3. next' \in Nat
    BY <1>1, <2>2
  <2>4. QED
    BY <2>1, <2>2, <2>3 DEF TypeOK
<1>3. CASE SubmitEnd
  BY <1>3 DEF TypeOK, SubmitEnd, kernel, request, private, device, NoDiscard
<1>4. CASE FirstUrbFails
  <2>1. urbs' \in Seq(Urb)
    BY <1>4, EmptySeq DEF FirstUrbFails
  <2>2. QED
    BY <1>4, <2>1 DEF TypeOK, FirstUrbFails, kernel, request, private, device
<1>5. CASE LaterUrbFails
  <2>1. retired' \in Nat /\ next' \in Nat
    <3>1. retired \in Nat
      BY DEF TypeOK
    <3>2. NotSubmitted \in Nat
      <4>1. next \in 2..NumUrbs
        BY <1>5 DEF LaterUrbFails
      <4>2. QED
        BY <1>1, <4>1 DEF NotSubmitted
    <3>3. QED
      BY <1>1, <1>5, <3>1, <3>2 DEF LaterUrbFails
  <2>2. disc' \in [i : Nat, first : Nat \ {0}, last : Nat, ret : {"ok", "NO_DEVICE", "NOT_FOUND"}]
    BY <1>1, <1>5 DEF TypeOK, LaterUrbFails
  <2>3. action' \in {"COMPLETED_EARLY", "SUBMIT_FAILED"}
    BY <1>5 DEF LaterUrbFails
  <2>4. UNCHANGED <<kernel, request, phase, status, cancelling, urbs, reapStatus,
                    transferred, offset, done, device, lock, reaped>>
    BY <1>5 DEF LaterUrbFails
  <2>5. QED
    BY <2>1, <2>2, <2>3, <2>4 DEF TypeOK, kernel, request, device
<1>6. QED
  BY <1>2, <1>3, <1>4, <1>5

LEMMA DiscardType ==
  ASSUME TypeOK, DiscardUrb \/ CancelBegin \/ CancelEnd \/ HandlerDiscarded
  PROVE  TypeOK'
<1>1. NumUrbs \in Nat
  BY RequestsType
<1>2. CASE DiscardUrb
  <2>1. urbs' \in Seq(Urb) /\ done' \in Seq(Nat)
    <3>1. CASE plugged /\ disc.i \in Pending
      <4>1. Finishes({disc.i}, <<disc.i>>)
        BY <1>2, <3>1, DiscardUrbDoes
      <4>2. urbs' \in Seq(Urb) /\ <<disc.i>> \in Seq(Nat) /\ done \in Seq(Nat) /\ done' = done \o <<disc.i>>
        BY <4>1 DEF Finishes, Advance, Lists, TypeOK
      <4>3. QED
        BY <4>2, ConcatProperties
    <3>2. CASE ~ (plugged /\ disc.i \in Pending)
      BY <1>2, <3>2, DiscardUrbDoes DEF TypeOK
    <3>3. QED
      BY <3>1, <3>2
  <2>2. disc' \in [i : Nat, first : Nat \ {0}, last : Nat, ret : {"ok", "NO_DEVICE", "NOT_FOUND"}]
    <3>1. disc \in [i : Nat, first : Nat \ {0}, last : Nat, ret : {"ok", "NO_DEVICE", "NOT_FOUND"}]
      BY DEF TypeOK
    <3>2. PICK n, r : /\ disc' = [disc EXCEPT !.i = n, !.ret = r]
                      /\ n = IF disc.i > disc.first THEN disc.i - 1 ELSE 0
                      /\ r \in {disc.ret, "NO_DEVICE", "NOT_FOUND"}
      BY <1>2 DEF DiscardUrb
    <3>3. n \in Nat
      BY <3>1, <3>2
    <3>4. QED
      BY <3>1, <3>2, <3>3
  <2>3. UNCHANGED <<kernel, request, phase, status, cancelling, private, device, lock, next, reaped>>
    BY <1>2 DEF DiscardUrb
  <2>4. QED
    BY <2>1, <2>2, <2>3 DEF TypeOK, kernel, request, private, device
<1>3. CASE CancelBegin
  <2>1. disc' \in [i : Nat, first : Nat \ {0}, last : Nat, ret : {"ok", "NO_DEVICE", "NOT_FOUND"}]
    BY <1>1, <1>3 DEF TypeOK, CancelBegin
  <2>2. lock' \in {lock, "cancel"} /\ cancelling' = TRUE
    BY <1>3 DEF CancelBegin
  <2>3. UNCHANGED <<kernel, request, phase, status, urbs, private, done, device, next, reaped>>
    BY <1>3 DEF CancelBegin
  <2>4. QED
    BY <2>1, <2>2, <2>3 DEF TypeOK, kernel, request, private, device
<1>4. CASE CancelEnd
  BY <1>4 DEF TypeOK, CancelEnd, ActionCancelled, NoDiscard, kernel, request, device
<1>5. CASE HandlerDiscarded
  BY <1>5 DEF TypeOK, HandlerDiscarded, NoDiscard, kernel, request, private, device
<1>6. QED
  BY <1>2, <1>3, <1>4, <1>5

LEMMA ReportType ==
  ASSUME TypeOK, ReapInv, Reap \/ Report \/ Disconnect \/ Take
  PROVE  TypeOK'
<1>1. CASE Reap
  <2>1. urbs' \in Seq(Urb) /\ reaped' \in Nat
    BY <1>1, ReapDoes, RequestsType DEF Advance, At
  <2>2. done' \in Seq(Nat)
    BY <1>1, HeadTailProperties DEF Reap, TypeOK
  <2>3. QED
    BY <1>1, <2>1, <2>2 DEF TypeOK, Reap, kernel, request, private, device
<1>2. CASE Report
  BY <1>2 DEF TypeOK, Report, Results, kernel, request, private, device
<1>3. CASE Disconnect
  <2>1. urbs' \in Seq(Urb) /\ done' \in Seq(Nat)
    BY <1>3, EmptySeq DEF Disconnect, TypeOK
  <2>2. removed' \in BOOLEAN /\ UNCHANGED <<plugged, reapAfter, cancelling, short, broken>>
    BY <1>3 DEF Disconnect, device
  <2>3. {plugged', reapAfter', removed', cancelling', short', broken'} \subseteq BOOLEAN
    BY <2>2 DEF TypeOK
  <2>4. /\ phase' \in {"idle", "submitting", "pending", "finished"}
        /\ status' \in Results \cup {"none"}
    BY <1>3 DEF Disconnect, Results, TypeOK
  <2>5. UNCHANGED <<kind, split, length, rounds, retired, action, reapStatus, transferred, offset,
                    sent, buffer, lock, next, reaped, disc>>
    BY <1>3 DEF Disconnect, request, private, device
  <2>6. QED
    BY <2>1, <2>3, <2>4, <2>5 DEF TypeOK
<1>4. CASE Take
  BY <1>4 DEF TypeOK, Take, kernel, request, private, device
<1>5. QED
  BY <1>1, <1>2, <1>3, <1>4

LEMMA WorldType ==
  ASSUME TypeOK, LayoutInv, WorldStep
  PROVE  TypeOK'
<1>1. \A S, q : Finishes(S, q) => urbs' \in Seq(Urb) /\ done' \in Seq(Nat)
  <2> TAKE S, q
  <2> HAVE Finishes(S, q)
  <2>1. urbs' \in Seq(Urb) /\ q \in Seq(Nat) /\ done \in Seq(Nat) /\ done' = done \o q
    BY DEF Finishes, Advance, Lists, TypeOK
  <2>2. QED
    BY <2>1, ConcatProperties
<1>2. CASE Deliver
  <2>1. urbs' \in Seq(Urb)
    BY <1>2, DeliverDoes
  <2>2. buffer' \in [1..length -> Nat] /\ sent' \in Nat
    <3>1. buffer \in [1..length -> Nat] /\ sent \in Nat
      BY DEF TypeOK
    <3> DEFINE i == urbs[Current].start + urbs[Current].len + 1
    <3>2. buffer' = [buffer EXCEPT ![i] = sent + 1] /\ i \in Nat
      <4>1. buffer' = [buffer EXCEPT ![i] = sent + 1]
        BY <1>2, Zenon DEF Deliver
      <4>2. urbs[Current] \in Urb
        BY <1>2, CurrentIs, RequestsType DEF Deliver
      <4>3. QED
        BY <4>1, <4>2 DEF Urb
    <3> HIDE DEF i
    <3>4. length \in Nat /\ sent + 1 \in Nat
      BY <3>1 DEF TypeOK
    <3>3. sent' = sent + 1
      BY <1>2, Zenon DEF Deliver
    <3>5. [buffer EXCEPT ![i] = sent + 1] \in [1..length -> Nat]
      BY <3>1, <3>2, <3>4, ExceptType
    <3>6. QED
      BY <3>2, <3>3, <3>4, <3>5
  <2>3. QED
    BY <1>2, <2>1, <2>2 DEF TypeOK, Deliver, kernel, request, private
<1>3. CASE UrbEnds
  <2>1. \E early \in BOOLEAN : Ends(Current, "ok", early) /\ short' = (short \/ early)
    BY <1>3 DEF UrbEnds
  <2>2. urbs' \in Seq(Urb) /\ done' \in Seq(Nat) /\ Current \in Pending
    BY <1>1, <1>3, <2>1, CurrentIs, EndsDoes DEF UrbEnds, Outcomes
  <2>3. short' \in BOOLEAN
    BY <2>1 DEF TypeOK
  <2>4. QED
    BY <2>1, <2>2, <2>3, <1>3 DEF UrbEnds, Ends, TypeOK, kernel, request, private
<1>4. CASE UrbFails
  <2>1. PICK st \in Outcomes : Ends(Current, st, TRUE)
    BY <1>4 DEF UrbFails, Outcomes
  <2>2. urbs' \in Seq(Urb) /\ done' \in Seq(Nat) /\ Current \in Pending
    BY <1>1, <1>4, <2>1, CurrentIs, EndsDoes DEF UrbFails
  <2>3. UNCHANGED <<kernel, request, phase, status, cancelling, private, sent, buffer,
                    lock, next, reaped, disc>>
    BY <2>1 DEF Ends
  <2>4. QED
    BY <2>2, <2>3, <1>4 DEF UrbFails, TypeOK, kernel, request, private
<1>5. CASE Unplug
  <2>1. urbs' \in Seq(Urb) /\ done' \in Seq(Nat)
    BY <1>1, <1>5, UnplugDoes
  <2>2. QED
    BY <1>5, <2>1 DEF Unplug, TypeOK, request, private, device
<1>6. QED
  BY <1>2, <1>3, <1>4, <1>5 DEF WorldStep

-----------------------------------------------------------------------------
(* The requests that are done are the ones to be reaped.                   *)

LEMMA ListsTogether ==
  ASSUME NEW A, NEW B, A \cap B = {}, NEW p, NEW q, Lists(p, A), Lists(q, B)
  PROVE  /\ Lists(p \o q, A \cup B) /\ Len(p \o q) = Len(p) + Len(q)
         /\ \A i \in 1..Len(p) : (p \o q)[i] = p[i]
         /\ \A i \in 1..Len(q) : (p \o q)[Len(p) + i] = q[i]
<1> DEFINE m == Len(p)
           n == Len(q)
           r == p \o q
<1>1. /\ m \in Nat /\ n \in Nat /\ DOMAIN p = 1..m /\ DOMAIN q = 1..n
      /\ p \in Seq(Nat) /\ q \in Seq(Nat)
  BY LenProperties, Zenon DEF Lists
<1>2. /\ r \in Seq(Nat) /\ Len(r) = m + n /\ DOMAIN r = 1..m + n
      /\ \A i \in 1..m + n : r[i] = IF i <= m THEN p[i] ELSE q[i - m]
  BY <1>1
<1>3. /\ \A i \in 1..m : p[i] \in A
      /\ \A u \in A : \E i \in 1..m : p[i] = u
      /\ \A i, j \in 1..m : p[i] = p[j] => i = j
      /\ \A i \in 1..n : q[i] \in B
      /\ \A u \in B : \E i \in 1..n : q[i] = u
      /\ \A i, j \in 1..n : q[i] = q[j] => i = j
  BY <1>1, Zenon DEF Lists
<1> HIDE DEF m, n, r
<1>4. \A i \in 1..n : m + i \in 1..m + n /\ r[m + i] = q[i]
  <2> TAKE i \in 1..n
  <2>1. m + i \in 1..m + n /\ (m + i) - m = i /\ ~ (m + i <= m)
    BY <1>1
  <2>2. QED
    BY <2>1, <1>2
<1>5. \A i \in 1..m + n : \/ i \in 1..m /\ r[i] = p[i]
                          \/ i - m \in 1..n /\ r[i] = q[i - m]
  BY <1>1, <1>2
<1>6. \A i \in 1..m : i \in 1..m + n /\ r[i] = p[i]
  BY <1>1, <1>2
<1>7. \A i \in 1..m + n : r[i] \in A \cup B
  BY <1>3, <1>5
<1>8. \A u \in A \cup B : \E i \in 1..m + n : r[i] = u
  <2>1. ASSUME NEW u \in A PROVE \E i \in 1..m + n : r[i] = u
    BY <1>3, <1>6
  <2>2. ASSUME NEW u \in B PROVE \E i \in 1..m + n : r[i] = u
    <3>1. PICK i \in 1..n : q[i] = u
      BY <1>3
    <3>2. QED
      BY <3>1, <1>4
  <2>3. QED
    BY <2>1, <2>2
<1>9. \A i, j \in 1..m + n : r[i] = r[j] => i = j
  <2> TAKE i, j \in 1..m + n
  <2> HAVE r[i] = r[j]
  <2>1. CASE i \in 1..m /\ r[i] = p[i] /\ j \in 1..m /\ r[j] = p[j]
    BY <2>1, <1>3
  <2>2. CASE i - m \in 1..n /\ r[i] = q[i - m] /\ j - m \in 1..n /\ r[j] = q[j - m]
    <3>1. i - m = j - m
      BY <2>2, <1>3
    <3>2. QED
      BY <3>1, <1>1
  <2>3. CASE i \in 1..m /\ r[i] = p[i] /\ j - m \in 1..n /\ r[j] = q[j - m]
    BY <2>3, <1>3
  <2>4. CASE i - m \in 1..n /\ r[i] = q[i - m] /\ j \in 1..m /\ r[j] = p[j]
    BY <2>4, <1>3
  <2>5. QED
    BY <2>1, <2>2, <2>3, <2>4, <1>5
<1>10. Lists(r, A \cup B)
  BY <1>1, <1>2, <1>7, <1>8, <1>9 DEF Lists
<1>11. QED
  BY <1>10, <1>2, <1>4, <1>6 DEF m, n, r

LEMMA ListsRest ==
  ASSUME NEW A, NEW q, Lists(q, A), NEW r \in Seq(Nat), Len(q) > 0, Len(r) = Len(q) - 1,
         \A i \in 1..Len(r) : r[i] = q[i + 1]
  PROVE  Lists(r, A \ {q[1]})
<1> DEFINE n == Len(r)
<1>1. /\ n \in Nat /\ DOMAIN r = 1..n /\ DOMAIN q = 1..n + 1
  <2>1. q \in Seq(Nat) /\ DOMAIN q = 1..Len(q)
    BY Zenon DEF Lists
  <2>2. Len(q) \in Nat /\ n \in Nat /\ DOMAIN r = 1..n
    BY <2>1, LenProperties
  <2>3. QED
    BY <2>1, <2>2
<1>2. /\ \A i \in 1..n + 1 : q[i] \in A
      /\ \A u \in A : \E i \in 1..n + 1 : q[i] = u
      /\ \A i, j \in 1..n + 1 : q[i] = q[j] => i = j
  BY <1>1, Zenon DEF Lists
<1>3. \A i \in 1..n : r[i] = q[i + 1] /\ i + 1 \in 1..n + 1 /\ i + 1 # 1 /\ 1 \in 1..n + 1
  BY <1>1
<1> HIDE DEF n
<1>4. \A i \in 1..n : r[i] \in A \ {q[1]}
  <2> TAKE i \in 1..n
  <2>1. q[i + 1] \in A /\ q[i + 1] # q[1]
    BY <1>2, <1>3
  <2>2. QED
    BY <2>1, <1>3
<1>5. \A u \in A \ {q[1]} : \E i \in 1..n : r[i] = u
  <2> TAKE u \in A \ {q[1]}
  <2>1. PICK i \in 1..n + 1 : q[i] = u
    BY <1>2
  <2>2. i # 1
    BY <2>1
  <2>3. i - 1 \in 1..n /\ (i - 1) + 1 = i
    BY <2>2, <1>1
  <2>4. r[i - 1] = u
    BY <2>1, <2>3, <1>3
  <2>5. QED
    BY <2>3, <2>4
<1>6. \A i, j \in 1..n : r[i] = r[j] => i = j
  <2> TAKE i, j \in 1..n
  <2> HAVE r[i] = r[j]
  <2>1. i + 1 = j + 1
    <3>1. q[i + 1] = q[j + 1] /\ i + 1 \in 1..n + 1 /\ j + 1 \in 1..n + 1
      BY <1>3
    <3>2. QED
      BY <3>1, <1>2
  <2>2. QED
    BY <2>1, <1>1
<1>7. QED
  BY <1>1, <1>4, <1>5, <1>6 DEF Lists, n

-----------------------------------------------------------------------------
(* Steps that keep the invariant on the requests.                          *)

LEMMA AdvanceDoes ==
  ASSUME TypeOK, NEW S \in SUBSET Requests, NEW x \in Places, Advance(S, x)
  PROVE  /\ Requests' = Requests /\ NumUrbs' = NumUrbs
         /\ \A v \in Requests : /\ urbs'[v] \in Urb
                                /\ urbs'[v].len = urbs[v].len
                                /\ urbs'[v].size = urbs[v].size
                                /\ urbs'[v].start = urbs[v].start
                                /\ urbs'[v].at = IF v \in S THEN x ELSE urbs[v].at
                                /\ v \notin S => urbs'[v].st = urbs[v].st
<1>1. urbs' \in Seq(Urb) /\ Requests' = Requests /\ NumUrbs' = NumUrbs
  BY DEF Advance
<1>2. \A v \in Requests' : urbs'[v] \in Urb
  <2>1. DOMAIN urbs' = 1..Len(urbs')
    BY <1>1, LenProperties
  <2>2. QED
    BY <1>1, <2>1, ElementOfSeq DEF Requests
<1>3. QED
  BY <1>1, <1>2 DEF Advance

LEMMA CoversKept ==
  ASSUME TypeOK, LayoutInv, UNCHANGED <<NumUrbs, Requests, length>>, urbs' \in Seq(Urb),
         \A v \in Requests : urbs'[v].size = urbs[v].size /\ urbs'[v].start = urbs[v].start
  PROVE  NumUrbs' > 0 => Covers(urbs', length')
<1> SUFFICES ASSUME NumUrbs' > 0 PROVE Covers(urbs', length')
  OBVIOUS
<1>1. /\ Len(urbs') = NumUrbs /\ Len(urbs) = NumUrbs /\ NumUrbs > 0 /\ Requests = 1..NumUrbs
      /\ NumUrbs \in Requests /\ 1 \in Requests /\ length' = length
  BY RequestsType DEF NumUrbs
<1>2. Covers(urbs, length)
  BY <1>1 DEF LayoutInv
<1> DEFINE N == NumUrbs
<1> HIDE DEF N
<1>3. /\ \A u \in 1..N : urbs[u].start + urbs[u].size <= length
      /\ \A u, v \in 1..N : u < v => urbs[u].start + urbs[u].size <= urbs[v].start
      /\ \A u, v \in 1..N : v = u + 1 => urbs[u].start + urbs[u].size = urbs[v].start
      /\ urbs[1].start = 0 /\ urbs[N].start + urbs[N].size = length
  BY <1>1, <1>2 DEF Covers, N
<1>4. \A v \in 1..N : urbs'[v].size = urbs[v].size /\ urbs'[v].start = urbs[v].start
  BY <1>1 DEF N
<1>5. /\ \A u \in 1..N : urbs'[u].start + urbs'[u].size <= length
      /\ \A u, v \in 1..N : u < v => urbs'[u].start + urbs'[u].size <= urbs'[v].start
      /\ \A u, v \in 1..N : v = u + 1 => urbs'[u].start + urbs'[u].size = urbs'[v].start
      /\ urbs'[1].start = 0 /\ urbs'[N].start + urbs'[N].size = length
  <2>1. 1 \in 1..N /\ N \in 1..N
    BY <1>1 DEF N
  <2>2. QED
    BY <1>3, <1>4, <2>1
<1>6. Len(urbs') = N /\ N > 0 /\ length' = length
  BY <1>1 DEF N
<1>7. QED
  BY <1>5, <1>6 DEF Covers

LEMMA QuietKeeps ==
  ASSUME TypeOK, RequestInv,
         UNCHANGED <<urbs, done, reaped, plugged, kind, length, retired>>,
         lock' = "submit" => lock = "submit" /\ next' = next,
         Submitting' <=> Submitting
  PROVE  RequestInv'
<1>1. UNCHANGED <<NumUrbs, Requests, Settled, Pending, At("done"), At("reaped")>>
  BY DEF NumUrbs, Requests, Settled, Pending, At
<1>2. ReapInv' /\ OverflowInv' /\ LayoutInv'
  BY <1>1 DEF RequestInv, ReapInv, OverflowInv, LayoutInv
<1>3. SubmitInv'
  BY <1>1 DEF RequestInv, SubmitInv, Submitting
<1>4. CountInv'
  BY <1>1 DEF RequestInv, CountInv
<1>5. QED
  BY <1>2, <1>3, <1>4 DEF RequestInv

LEMMA FinishesKeeps ==
  ASSUME TypeOK, RequestInv, NEW S, NEW q, Finishes(S, q),
         UNCHANGED <<kind, length, retired, lock, next, reaped>>,
         plugged' = plugged \/ S = Pending,
         \A v \in S : urbs'[v].st = "overflow" => v = NumUrbs /\ S = {v} /\ Pending = {v}
  PROVE  RequestInv'
<1>1. S \in SUBSET Requests /\ S \subseteq Pending /\ Advance(S, "done") /\ Lists(q, S)
  BY DEF Finishes, Pending, Requests
<1>2. /\ Requests' = Requests /\ NumUrbs' = NumUrbs
      /\ \A v \in Requests : /\ urbs'[v] \in Urb /\ urbs[v] \in Urb
                             /\ urbs'[v].len = urbs[v].len
                             /\ urbs'[v].size = urbs[v].size
                             /\ urbs'[v].start = urbs[v].start
                             /\ urbs'[v].at = IF v \in S THEN "done" ELSE urbs[v].at
                             /\ v \notin S => urbs'[v].st = urbs[v].st
  BY <1>1, AdvanceDoes, RequestsType DEF Places
<1>3. \A v \in S : urbs[v].at = "kernel" /\ v \in Requests
  BY <1>1 DEF Pending, Requests
<1>4. /\ At("done")' = At("done") \cup S /\ At("done") \cap S = {}
      /\ At("reaped")' = At("reaped") /\ Pending' = Pending \ S
      /\ Settled' = Settled
  BY <1>2, <1>3 DEF At, Settled, Pending, Requests
<1>5. /\ Lists(done', At("done")') /\ Len(done') = Len(done) + Len(q)
      /\ \A i \in 1..Len(done) : done'[i] = done[i]
      /\ \A i \in 1..Len(q) : done'[Len(done) + i] = q[i]
  <2>1. Lists(done, At("done")) /\ done' = done \o q
    BY DEF Finishes, RequestInv, ReapInv
  <2>2. At("done") \cap S = {} /\ At("done")' = At("done") \cup S
    BY <1>4
  <2>3. PICK A : A = At("done")
    OBVIOUS
  <2>4. /\ Lists(done \o q, A \cup S) /\ Len(done \o q) = Len(done) + Len(q)
        /\ \A i \in 1..Len(done) : (done \o q)[i] = done[i]
        /\ \A i \in 1..Len(q) : (done \o q)[Len(done) + i] = q[i]
    <3>1. A \cap S = {} /\ Lists(done, A) /\ Lists(q, S)
      BY <1>1, <2>1, <2>2, <2>3
    <3>2. Lists(done \o q, A \cup S)
      BY <3>1, ListsTogether, Zenon
    <3>6. Len(done \o q) = Len(done) + Len(q)
      BY <3>1, ListsTogether, SMT
    <3>3. \A i \in 1..Len(done) : (done \o q)[i] = done[i]
      BY <3>1, ListsTogether, SMT
    <3>4. \A i \in 1..Len(q) : (done \o q)[Len(done) + i] = q[i]
      BY <3>1, ListsTogether, SMT
    <3>5. QED
      BY <3>2, <3>3, <3>4, <3>6
  <2>5. QED
    BY <2>1, <2>2, <2>3, <2>4
<1>6. ReapInv'
  <2>1. reaped' # 0 => reaped' \in At("reaped")'
    BY <1>4 DEF RequestInv, ReapInv
  <2>2. ~ plugged' => Pending' = {}
    BY <1>4 DEF RequestInv, ReapInv
  <2>3. QED
    BY <1>5, <2>1, <2>2 DEF ReapInv
<1>7. LayoutInv'
  <2>1. NumUrbs' > 0 => Covers(urbs', length')
    BY <1>1, <1>2, CoversKept DEF RequestInv, Advance
  <2>2. QED
    BY <1>2, <1>3, <2>1 DEF LayoutInv, RequestInv
<1>8. SubmitInv'
  BY <1>2, <1>3, RequestsType DEF SubmitInv, RequestInv, Submitting
<1>9. CountInv'
  BY <1>2, <1>4 DEF CountInv, RequestInv, Submitting
<1>10. OverflowInv'
  <2> SUFFICES ASSUME NEW u \in Requests, urbs'[u].st = "overflow"
               PROVE  /\ u = NumUrbs /\ \A v \in Requests : urbs'[v].at \in {"done", "reaped"}
                      /\ urbs'[u].at = "done" => done' # <<>> /\ done'[Len(done')] = u
                      /\ urbs'[u].at = "reaped" => done' = <<>>
    BY <1>2 DEF OverflowInv
  <2>0. Len(done) \in Nat /\ Len(q) \in Nat /\ DOMAIN q = 1..Len(q) /\ done' \in Seq(Nat) /\ done \in Seq(Nat)
    BY <1>1, <1>5, LenProperties, Zenon DEF Lists, TypeOK
  <2>1. CASE u \in S
    <3>1. u = NumUrbs /\ S = {u} /\ Pending = {u}
      BY <2>1
    <3>2. \A v \in Requests : urbs[v].at # "none"
      <4>1. \A v \in Requests : v < u => urbs[v].at # "none"
        BY <1>3, <2>1 DEF RequestInv, SubmitInv
      <4>2. \A v \in Requests : v < u \/ v = u
        BY <3>1, RequestsType
      <4>3. QED
        BY <4>1, <4>2, <1>3, <2>1
    <3>3. \A v \in Requests : urbs'[v].at \in {"done", "reaped"}
      <4> TAKE v \in Requests
      <4>1. urbs[v].at \in Places
        BY <1>2 DEF Urb
      <4>2. urbs[v].at = "kernel" => v = u
        BY <3>1 DEF Pending, Requests
      <4>3. QED
        BY <4>1, <4>2, <3>1, <3>2, <1>2 DEF Places
    <3>4. Len(q) > 0 /\ q[Len(q)] = u
      <4>1. PICK i \in DOMAIN q : q[i] = u
        BY <1>1, <2>1 DEF Lists
      <4>2. Len(q) \in DOMAIN q
        BY <4>1, <2>0
      <4>3. q[Len(q)] \in S
        BY <1>1, <4>2 DEF Lists
      <4>4. QED
        BY <4>2, <4>3, <3>1, <2>0
    <3>5. done'[Len(done')] = u /\ Len(done') # 0
      BY <3>4, <1>5, <2>0
    <3>6. urbs'[u].at = "done"
      BY <2>1, <1>2
    <3>7. QED
      BY <3>1, <3>3, <3>5, <3>6, <2>0, EmptyIff
  <2>2. CASE u \notin S
    <3>1. /\ urbs[u].st = "overflow" /\ urbs'[u].at = urbs[u].at
          /\ u = NumUrbs /\ \A v \in Requests : urbs[v].at \in {"done", "reaped"}
          /\ urbs[u].at = "done" => done # <<>> /\ done[Len(done)] = u
          /\ urbs[u].at = "reaped" => done = <<>>
      BY <1>2, <2>2 DEF RequestInv, OverflowInv
    <3>2. S = {}
      BY <1>3, <3>1
    <3>3. Len(q) = 0
      <4>1. \A i \in 1..Len(q) : q[i] \in S
        BY <1>1, <2>0 DEF Lists
      <4>2. QED
        <5>1. Len(q) # 0 => 1 \in 1..Len(q)
          BY <2>0
        <5>2. QED
          BY <4>1, <5>1, <3>2
    <3>4. Len(done') = Len(done)
      BY <3>3, <1>5, <2>0
    <3>5. done # <<>> => done' # <<>> /\ done'[Len(done')] = done[Len(done)]
      <4>1. done # <<>> => Len(done) # 0 /\ Len(done) \in 1..Len(done)
        BY <2>0, EmptyIff
      <4>2. QED
        BY <4>1, <3>4, <1>5, <2>0, EmptyIff
    <3>6. done = <<>> => done' = <<>>
      BY <3>4, <2>0, EmptyIff
    <3>7. QED
      BY <3>1, <3>2, <3>5, <3>6, <1>2
  <2>3. QED
    BY <2>1, <2>2
<1>11. QED
  BY <1>6, <1>7, <1>8, <1>9, <1>10 DEF RequestInv

LEMMA EmptiedKeeps ==
  ASSUME urbs' = <<>>, done' = <<>>, reaped' = 0, lock' # "submit", kind' = kind
  PROVE  RequestInv'
<1>1. Requests' = {} /\ NumUrbs' = 0
  BY DEF Requests, NumUrbs
<1>2. At("done")' = {} /\ Pending' = {}
  BY <1>1 DEF At, Pending, Requests
<1>3. Lists(<<>>, {})
  BY DEF Lists
<1>4. ReapInv'
  BY <1>2, <1>3 DEF ReapInv
<1>5. LayoutInv' /\ SubmitInv' /\ CountInv' /\ OverflowInv'
  BY <1>1 DEF LayoutInv, SubmitInv, Submitting, CountInv, OverflowInv
<1>6. QED
  BY <1>4, <1>5 DEF RequestInv

LEMMA SubmitUrbKeeps ==
  ASSUME TypeOK, RequestInv, SubmitUrb
  PROVE  RequestInv'
<1>1. /\ next \in Requests /\ next \in Nat /\ NumUrbs \in Nat /\ Requests = 1..NumUrbs
      /\ lock = "submit" /\ lock' = "submit" /\ plugged /\ next' = next + 1
      /\ Advance({next}, "kernel") /\ urbs'[next].st = urbs[next].st
      /\ UNCHANGED <<plugged, done, reaped, retired, kind, length>>
  BY SubmitUrbDoes, RequestsType DEF SubmitUrb, kernel, private, request
<1>2. /\ Requests' = Requests /\ NumUrbs' = NumUrbs
      /\ \A v \in Requests : /\ urbs'[v].len = urbs[v].len
                             /\ urbs'[v].size = urbs[v].size
                             /\ urbs'[v].start = urbs[v].start
                             /\ urbs'[v].at = IF v = next THEN "kernel" ELSE urbs[v].at
                             /\ urbs'[v].st = urbs[v].st
  BY <1>1, AdvanceDoes DEF Places
<1>3. urbs[next].at = "none" /\ Submitting /\ \A u \in Requests : u < next => urbs[u].at # "none"
  BY <1>1 DEF RequestInv, SubmitInv, Submitting
<1>4. At("done")' = At("done") /\ At("reaped")' = At("reaped")
  BY <1>2, <1>3 DEF At
<1>5. ReapInv'
  BY <1>1, <1>4 DEF RequestInv, ReapInv
<1>6. LayoutInv'
  <2>1. NumUrbs' > 0 => Covers(urbs', length')
    BY <1>1, <1>2, CoversKept DEF RequestInv, Advance
  <2>2. QED
    BY <1>1, <1>2, <1>3, <2>1 DEF LayoutInv, RequestInv
<1>7. SubmitInv'
  BY <1>1, <1>2, <1>3 DEF SubmitInv, RequestInv, Submitting
<1>8. CountInv'
  <2>1. retired = 0 /\ \A u \in At("reaped") : u = reaped
    BY <1>3 DEF RequestInv, CountInv
  <2>2. CASE Submitting'
    BY <1>1, <1>4, <2>1, <2>2 DEF CountInv
  <2>3. CASE ~ Submitting'
    <3>1. next = NumUrbs
      BY <1>1, <1>2, <2>3 DEF Submitting
    <3>2. Settled' = {}
      <4>1. \A u \in Requests : u < next \/ u = next
        BY <1>1, <3>1
      <4>2. \A u \in Requests : urbs[u].at = "reaped" => u = reaped
        BY <2>1 DEF At
      <4>3. QED
        BY <1>1, <1>2, <1>3, <4>1, <4>2 DEF Settled
    <3>3. QED
      BY <1>1, <2>1, <2>3, <3>2, FS_EmptySet DEF CountInv
  <2>4. QED
    BY <2>2, <2>3
<1>9. OverflowInv'
  BY <1>1, <1>2, <1>3 DEF OverflowInv, RequestInv
<1>10. QED
  BY <1>5, <1>6, <1>7, <1>8, <1>9 DEF RequestInv

LEMMA ReapKeeps ==
  ASSUME TypeOK, RequestInv, TypeOK', Reap
  PROVE  RequestInv'
<1> DEFINE r == reaped'
<1>1. /\ r \in At("done") /\ Advance({r}, "reaped") /\ urbs'[r].st = urbs[r].st /\ r = done[1]
      /\ Len(done') = Len(done) - 1 /\ \A i \in 1..Len(done') : done'[i] = done[i + 1]
      /\ reaped = 0 /\ done # <<>>
      /\ UNCHANGED <<plugged, kind, length, retired, lock, next>>
  BY ReapDoes DEF RequestInv, Reap, kernel, request, private
<1>2. /\ Requests = 1..NumUrbs /\ NumUrbs \in Nat /\ r \in Requests /\ urbs[r].at = "done"
      /\ done \in Seq(Nat) /\ done' \in Seq(Nat) /\ Len(done) \in Nat \ {0}
      /\ DOMAIN done = 1..Len(done)
  <2>1. done \in Seq(Nat) /\ done' \in Seq(Nat)
    BY DEF TypeOK
  <2>2. Len(done) \in Nat \ {0} /\ DOMAIN done = 1..Len(done)
    BY <1>1, <2>1, EmptyIff, LenProperties
  <2>3. QED
    BY <1>1, <2>1, <2>2, RequestsType DEF At
<1>3. /\ Requests' = Requests /\ NumUrbs' = NumUrbs
      /\ \A v \in Requests : /\ urbs'[v].len = urbs[v].len
                             /\ urbs'[v].size = urbs[v].size
                             /\ urbs'[v].start = urbs[v].start
                             /\ urbs'[v].at = IF v = r THEN "reaped" ELSE urbs[v].at
                             /\ urbs'[v].st = urbs[v].st
  BY <1>1, <1>2, AdvanceDoes DEF Places
<1> HIDE DEF r
<1>4. /\ At("done")' = At("done") \ {r} /\ At("reaped")' = At("reaped") \cup {r}
      /\ Pending' = Pending
  BY <1>2, <1>3 DEF At, Pending, Requests
<1>5. ReapInv'
  <2>1. PICK A : A = At("done")
    OBVIOUS
  <2>2. Lists(done, A)
    BY <2>1 DEF RequestInv, ReapInv
  <2>3. Lists(done', A \ {done[1]})
    <3>1. done' \in Seq(Nat) /\ Len(done) > 0 /\ Len(done') = Len(done) - 1
      BY <1>1, <1>2
    <3>2. \A i \in 1..Len(done') : done'[i] = done[i + 1]
      BY <1>1
    <3>3. QED
      BY <2>2, <3>1, <3>2, ListsRest, Zenon
  <2>4. Lists(done', At("done")')
    BY <1>1, <1>4, <2>1, <2>3
  <2>5. reaped' \in At("reaped")' /\ (~ plugged' => Pending' = {})
    BY <1>1, <1>4 DEF RequestInv, ReapInv, r
  <2>6. QED
    BY <2>4, <2>5 DEF ReapInv
<1>6. LayoutInv'
  <2>1. NumUrbs' > 0 => Covers(urbs', length')
    BY <1>1, <1>3, CoversKept DEF RequestInv, Advance
  <2>2. QED
    BY <1>1, <1>3, <2>1 DEF LayoutInv, RequestInv
<1>7. SubmitInv'
  <2>1. \A v \in Requests : urbs'[v].at = "none" <=> urbs[v].at = "none"
    BY <1>2, <1>3
  <2>2. /\ \A u, v \in Requests : u < v /\ urbs[v].at # "none" => urbs[u].at # "none"
        /\ lock = "submit" => \A u \in Requests : u >= next => urbs[u].at = "none"
        /\ Submitting => \A u \in Requests : u < next => urbs[u].at # "none"
    BY DEF RequestInv, SubmitInv
  <2>3. lock' = lock /\ next' = next /\ (Submitting' <=> Submitting) /\ Requests' = Requests
    BY <1>1, <1>3 DEF Submitting
  <2>4. QED
    BY <2>1, <2>2, <2>3 DEF SubmitInv
<1>8. CountInv'
  <2>1. CASE Submitting
    <3>1. retired = 0 /\ At("reaped") = {}
      BY <2>1, <1>1, <1>2 DEF RequestInv, CountInv, At
    <3>2. QED
      BY <2>1, <3>1, <1>1, <1>3, <1>4 DEF CountInv, Submitting, r
  <2>2. CASE ~ Submitting
    <3>1. Settled' = Settled
      BY <1>1, <1>2, <1>3 DEF Settled, r
    <3>2. QED
      BY <2>2, <3>1, <1>1, <1>3 DEF RequestInv, CountInv, Submitting
  <2>3. QED
    BY <2>1, <2>2
<1>9. OverflowInv'
  <2> SUFFICES ASSUME NEW u \in Requests, urbs'[u].st = "overflow"
               PROVE  /\ u = NumUrbs /\ \A v \in Requests : urbs'[v].at \in {"done", "reaped"}
                      /\ urbs'[u].at = "done" => done' # <<>> /\ done'[Len(done')] = u
                      /\ urbs'[u].at = "reaped" => done' = <<>>
    BY <1>3 DEF OverflowInv
  <2>1. /\ u = NumUrbs /\ \A v \in Requests : urbs[v].at \in {"done", "reaped"}
        /\ urbs[u].at = "done" /\ done[Len(done)] = u
    BY <1>1, <1>3 DEF RequestInv, OverflowInv
  <2>2. CASE Len(done) = 1
    <3>1. r = u
      BY <1>1, <2>1, <2>2
    <3>2. done' = <<>>
      BY <1>1, <1>2, <2>2, EmptyIff
    <3>3. QED
      BY <3>1, <3>2, <2>1, <1>3
  <2>3. CASE Len(done) > 1
    <3>1. r # u
      <4>1. \A i, j \in DOMAIN done : done[i] = done[j] => i = j
        BY DEF RequestInv, ReapInv, Lists
      <4>2. 1 \in DOMAIN done /\ Len(done) \in DOMAIN done
        BY <1>2, <2>3
      <4>3. QED
        BY <4>1, <4>2, <1>1, <2>1, <2>3
    <3>2. done' # <<>> /\ done'[Len(done')] = u
      <4>1. Len(done') \in 1..Len(done') /\ Len(done') + 1 = Len(done) /\ Len(done') # 0
        <5>1. PICK m \in Nat : m = Len(done)
          BY <1>2
        <5>2. PICK l : l = Len(done')
          OBVIOUS
        <5>3. l = m - 1 /\ m > 1
          BY <1>1, <2>3, <5>1, <5>2
        <5>4. l \in 1..l /\ l + 1 = m /\ l # 0
          BY <5>3
        <5>5. QED
          BY <5>1, <5>2, <5>4
      <4>2. done'[Len(done')] = done[Len(done)]
        BY <4>1, <1>1
      <4>3. QED
        BY <4>1, <4>2, <1>2, <2>1, EmptyIff
    <3>3. QED
      BY <3>1, <3>2, <2>1, <1>3
  <2>4. QED
    BY <2>2, <2>3, <1>2
<1>10. QED
  BY <1>5, <1>6, <1>7, <1>8, <1>9 DEF RequestInv

LEMMA SettledFinite ==
  ASSUME TypeOK
  PROVE  /\ Settled \in SUBSET Requests /\ IsFiniteSet(Settled) /\ Cardinality(Settled) \in Nat
         /\ IsFiniteSet(Requests) /\ Cardinality(Requests) = NumUrbs
<1>1. Requests = 1..NumUrbs /\ NumUrbs \in Nat
  BY RequestsType
<1>2. IsFiniteSet(Requests) /\ Cardinality(Requests) = NumUrbs
  <2>1. IsFiniteSet(1..NumUrbs) /\ Cardinality(1..NumUrbs) = IF 1 > NumUrbs THEN 0 ELSE NumUrbs - 1 + 1
    BY <1>1, FS_Interval
  <2>2. QED
    BY <1>1, <2>1
<1>3. Settled \in SUBSET Requests
  BY DEF Settled
<1>4. IsFiniteSet(Settled)
  BY <1>2, <1>3, FS_Subset, Zenon
<1>5. QED
  BY <1>2, <1>3, <1>4, FS_CardinalityType, Zenon

\* When a transfer is over nothing of it is with the kernel, and nothing of it
\* is still to be reaped.
LEMMA AllSettled ==
  ASSUME TypeOK, PhaseInv, RequestInv, HandleUrb,
         kind = "control" \/ AllRetired \/ urbs[reaped].st = "overflow"
  PROVE  /\ \A u \in Requests : urbs[u].at \in {"none", "reaped"}
         /\ done = <<>>
<1>1. /\ reaped \in Requests /\ urbs[reaped].at = "reaped" /\ lock = "free" /\ reaped > 0
      /\ Requests = 1..NumUrbs /\ NumUrbs \in Nat /\ NumUrbs > 0
  BY HandleUrbDoes, RequestsType DEF At, HandleUrb, RequestInv
<1>2. \A u \in Requests : urbs[u].at \in {"none", "reaped"}
  <2>1. CASE kind = "control"
    <3>1. \A u \in Requests : u = reaped
      BY <1>1, <2>1 DEF RequestInv, LayoutInv
    <3>2. QED
      BY <1>1, <3>1
  <2>2. CASE AllRetired
    <3>1. retired = Cardinality(Settled)
      BY <1>1 DEF RequestInv, CountInv, Submitting
    <3>2. PICK S : S = Settled \cup {reaped}
      OBVIOUS
    <3>3. reaped \notin Settled /\ S \in SUBSET Requests
      BY <1>1, <3>2 DEF Settled
    <3>4. Cardinality(S) = Cardinality(Settled) + 1
      BY <3>2, <3>3, SettledFinite, FS_AddElement, Zenon
    <3>5. Cardinality(Requests) = Cardinality(S)
      BY <2>2, <3>1, <3>4, SettledFinite DEF AllRetired
    <3>6. S = Requests
      BY <3>3, <3>5, SettledFinite, FS_Subset, Zenon
    <3>7. QED
      BY <1>1, <3>2, <3>6 DEF Settled
  <2>3. CASE urbs[reaped].st = "overflow"
    <3>1. done = <<>> /\ \A v \in Requests : urbs[v].at \in {"done", "reaped"}
      BY <1>1, <2>3 DEF RequestInv, OverflowInv
    <3>2. At("done") = {}
      <4>1. \A u \in At("done") : \E i \in DOMAIN done : done[i] = u
        BY DEF RequestInv, ReapInv, Lists
      <4>2. DOMAIN done = {}
        BY <3>1
      <4>3. QED
        BY <4>1, <4>2
    <3>3. QED
      BY <3>1, <3>2 DEF At
  <2>4. QED
    BY <2>1, <2>2, <2>3
<1>3. done = <<>>
  <2>1. At("done") = {}
    BY <1>2 DEF At
  <2>2. done \in Seq(Nat) /\ \A i \in DOMAIN done : done[i] \in At("done")
    BY DEF RequestInv, ReapInv, Lists
  <2>3. DOMAIN done = {}
    BY <2>1, <2>2
  <2>4. Len(done) = 0
    BY <2>2, <2>3
  <2>5. QED
    BY <2>2, <2>4, EmptyIff
<1>4. QED
  BY <1>2, <1>3

LEMMA HandleUrbKeeps ==
  ASSUME TypeOK, PhaseInv, RequestInv, HandleUrb
  PROVE  RequestInv'
<1>1. /\ reaped \in Requests /\ urbs[reaped].at = "reaped" /\ lock = "free" /\ reaped > 0
      /\ Requests = 1..NumUrbs /\ NumUrbs \in Nat /\ reaped' = 0 /\ retired \in Nat
      /\ UNCHANGED <<plugged, kind, length, next, done>>
  BY HandleUrbDoes, RequestsType DEF At, HandleUrb, RequestInv, kernel, request, TypeOK
<1>2. CASE urbs' = <<>> /\ lock' = "report"
                        /\ (kind = "control" \/ AllRetired \/ urbs[reaped].st = "overflow")
  BY <1>1, <1>2, AllSettled, EmptiedKeeps
<1>3. CASE urbs' = urbs /\ lock' \in {"free", "handler"}
  <2>1. /\ UNCHANGED <<NumUrbs, Requests, Pending, At("done"), At("reaped")>>
        /\ ~ Submitting /\ ~ Submitting'
    BY <1>1, <1>3 DEF NumUrbs, Requests, Pending, At, Submitting
  <2>2. ReapInv' /\ LayoutInv' /\ OverflowInv' /\ SubmitInv'
    BY <1>1, <1>3, <2>1 DEF RequestInv, ReapInv, LayoutInv, OverflowInv, SubmitInv
  <2>3. retired' = retired + 1
    <3>1. kind # "control"
      BY <1>3 DEF HandleUrb, HandleBulk, HandleIso, HandleControl, Completed
    <3>2. QED
      BY <3>1 DEF HandleUrb
  <2>4. Settled' = Settled \cup {reaped} /\ reaped \notin Settled
    <3>1. Settled' = {u \in Requests : urbs[u].at \in {"none", "reaped"} /\ u # 0}
      BY <1>1, <1>3, <2>1 DEF Settled
    <3>2. \A u \in Requests : u # 0
      BY <1>1
    <3>3. QED
      BY <3>1, <3>2, <1>1 DEF Settled
  <2>5. Cardinality(Settled') = Cardinality(Settled) + 1
    <3>1. PICK S : S = Settled
      OBVIOUS
    <3>2. Cardinality(S \cup {reaped}) = Cardinality(S) + 1
      BY <3>1, <2>4, SettledFinite, FS_AddElement, Zenon
    <3>3. QED
      BY <3>1, <3>2, <2>4
  <2>6. retired = Cardinality(Settled)
    BY <1>1, <2>1 DEF RequestInv, CountInv
  <2>7. CountInv'
    BY <2>1, <2>3, <2>5, <2>6 DEF CountInv
  <2>8. QED
    BY <2>2, <2>7 DEF RequestInv
<1>4. QED
  BY <1>2, <1>3, HandleUrbDoes DEF RequestInv

LEMMA LaterUrbFailsKeeps ==
  ASSUME TypeOK, RequestInv, LaterUrbFails
  PROVE  RequestInv'
<1>1. /\ Requests = 1..NumUrbs /\ NumUrbs \in Nat /\ next \in 2..NumUrbs
      /\ lock = "submit" /\ lock' = "submit" /\ next' = NumUrbs + 1
      /\ UNCHANGED <<plugged, kind, length, urbs, done, reaped>>
  BY RequestsType DEF LaterUrbFails, kernel, request
<1>2. /\ UNCHANGED <<NumUrbs, Requests, Pending, At("done"), At("reaped"), Settled>>
      /\ Submitting /\ ~ Submitting'
  BY <1>1 DEF NumUrbs, Requests, Pending, At, Submitting, Settled
<1>3. ReapInv' /\ LayoutInv' /\ OverflowInv'
  BY <1>1, <1>2 DEF RequestInv, ReapInv, LayoutInv, OverflowInv
<1>4. SubmitInv'
  <2>1. \A u \in Requests : ~ (u >= next')
    BY <1>1
  <2>2. QED
    BY <1>1, <1>2, <2>1 DEF RequestInv, SubmitInv
<1>5. CountInv'
  <2>1. retired = 0 /\ \A u \in At("reaped") : u = reaped
    BY <1>2 DEF RequestInv, CountInv
  <2>2. retired' = NumUrbs - next + 1
    BY <1>1, <2>1 DEF LaterUrbFails, NotSubmitted
  <2>3. Settled = next..NumUrbs
    <3>1. /\ \A u \in Requests : u >= next => urbs[u].at = "none"
          /\ \A u \in Requests : u < next => urbs[u].at # "none"
      BY <1>1, <1>2 DEF RequestInv, SubmitInv
    <3>2. \A u \in Requests : urbs[u].at = "reaped" => u = reaped
      BY <2>1 DEF At
    <3>3. reaped # 0 => reaped \in Requests /\ urbs[reaped].at = "reaped"
      BY DEF RequestInv, ReapInv, At
    <3>4. \A u \in Requests : u \in Settled <=> u >= next
      BY <1>1, <3>1, <3>2, <3>3 DEF Settled
    <3>5. Settled \in SUBSET Requests
      BY DEF Settled
    <3>6. \A u \in Settled : u \in next..NumUrbs
      BY <1>1, <3>4, <3>5
    <3>7. \A u \in next..NumUrbs : u \in Settled
      BY <1>1, <3>4
    <3>8. QED
      BY <3>6, <3>7
  <2>4. Cardinality(Settled) = NumUrbs - next + 1
    BY <1>1, <2>3, FS_Interval
  <2>5. QED
    BY <1>2, <2>2, <2>4 DEF CountInv
<1>6. QED
  BY <1>3, <1>4, <1>5 DEF RequestInv

LEMMA DeliverKeeps ==
  ASSUME TypeOK, RequestInv, Deliver
  PROVE  RequestInv'
<1>1. /\ Requests' = Requests /\ NumUrbs' = NumUrbs /\ Current \in Requests
      /\ \A v \in Requests : /\ urbs'[v].size = urbs[v].size
                             /\ urbs'[v].start = urbs[v].start
                             /\ urbs'[v].at = urbs[v].at
                             /\ urbs'[v].st = urbs[v].st
                             /\ v # Current => urbs'[v].len = urbs[v].len
      /\ urbs[Current].at = "kernel" /\ urbs' \in Seq(Urb)
      /\ urbs'[Current].len = urbs[Current].len + 1 /\ urbs[Current].len < urbs[Current].size
  BY DeliverDoes, CurrentIs DEF Pending
<1>2. UNCHANGED <<plugged, kind, length, done, reaped, retired, lock, next>>
  BY DEF Deliver, kernel, request, private
<1>3. UNCHANGED <<Pending, At("done"), At("reaped"), Settled, Submitting>>
  BY <1>1, <1>2 DEF Pending, At, Settled, Submitting, Requests
<1>4. ReapInv' /\ OverflowInv' /\ SubmitInv' /\ CountInv'
  BY <1>1, <1>2, <1>3 DEF RequestInv, ReapInv, OverflowInv, SubmitInv, CountInv
<1>5. LayoutInv'
  <2>1. NumUrbs' > 0 => Covers(urbs', length')
    BY <1>1, <1>2, CoversKept DEF RequestInv
  <2>2. urbs[Current].len \in Nat /\ urbs[Current].size \in Nat
    BY <1>1, RequestsType DEF Urb
  <2>3. QED
    BY <1>1, <1>2, <2>1, <2>2 DEF LayoutInv, RequestInv
<1>6. QED
  BY <1>4, <1>5 DEF RequestInv

LEMMA SubmitBeginKeeps ==
  ASSUME TypeOK, PhaseInv, NEW k \in Kinds, NEW sp \in Splits, NEW n \in 0..MaxLength,
         SubmitBegin(k, sp, n)
  PROVE  RequestInv'
<1>1. NumUrbs \in Nat /\ reaped = 0 /\ done = <<>> /\ reaped' = 0 /\ done' = <<>>
  BY RequestsType DEF SubmitBegin, PhaseInv
<1>2. /\ Covers(urbs', n) /\ length' = n /\ kind' = k /\ Requests' = 1..NumUrbs'
      /\ NumUrbs' \in Nat \ {0} /\ urbs' \in Seq(Urb)
      /\ k = "control" => NumUrbs' = 1
  BY SubmitBeginDoes DEF NumUrbs
<1>3. \A u \in Requests' : urbs'[u].at = "none" /\ urbs'[u].st = "ok" /\ urbs'[u].len = 0
  BY <1>2, SubmitBeginDoes DEF Untouched, NumUrbs
<1>4. lock' = "submit" /\ next' = 1 /\ retired' = 0
  BY DEF SubmitBegin
<1>5. At("done")' = {} /\ At("reaped")' = {} /\ Pending' = {}
  BY <1>3 DEF At, Pending, Requests
<1>6. ReapInv'
  <2>1. Lists(<<>>, {})
    BY DEF Lists
  <2>2. QED
    BY <1>1, <1>5, <2>1 DEF ReapInv
<1>7. LayoutInv'
  <2>1. \A u \in Requests' : urbs'[u].size \in Nat
    <3>1. urbs' \in Seq(Urb) /\ Requests' = 1..Len(urbs')
      BY <1>2 DEF NumUrbs
    <3>2. \A u \in 1..Len(urbs') : urbs'[u] \in Urb
      BY <3>1, ElementOfSeq
    <3>3. QED
      BY <3>1, <3>2 DEF Urb
  <2>2. QED
    BY <1>2, <1>3, <2>1 DEF LayoutInv
<1>8. SubmitInv' /\ CountInv' /\ OverflowInv'
  BY <1>2, <1>3, <1>4, <1>5 DEF SubmitInv, CountInv, OverflowInv, Submitting
<1>9. QED
  BY <1>6, <1>7, <1>8 DEF RequestInv

-----------------------------------------------------------------------------
(* The invariant holds.                                                    *)

LEMMA WorldKeeps ==
  ASSUME TypeOK, RequestInv, UrbEnds \/ UrbFails \/ Unplug
  PROVE  /\ RequestInv' /\ NumUrbs' = NumUrbs
         /\ UNCHANGED <<phase, lock, next, reaped, removed>>
         /\ plugged' => plugged
<1>1. CASE UrbEnds
  <2>1. PICK early \in BOOLEAN : Ends(Current, "ok", early)
    BY <1>1 DEF UrbEnds
  <2>2. PICK S \in SUBSET Pending, q \in Seq(Nat) :
           /\ Finishes(S, q) /\ urbs'[Current].st = "ok"
           /\ \A v \in S : v # Current => urbs'[v].st = "killed"
    BY <1>1, <2>1, CurrentIs, EndsDoes DEF UrbEnds, Outcomes
  <2>3. UNCHANGED <<kernel, request, phase, status, cancelling, private, sent, buffer,
                    lock, next, reaped, disc>>
    BY <2>1 DEF Ends
  <2>4. \A v \in S : urbs'[v].st # "overflow"
    BY <2>2
  <2>5. RequestInv'
    BY <2>2, <2>3, <2>4, FinishesKeeps DEF kernel, request, private
  <2>6. QED
    BY <2>2, <2>3, <2>5 DEF Finishes, Advance, kernel
<1>2. CASE UrbFails
  <2>1. PICK st \in {"stall", "error", "overflow"} :
           (st = "overflow" => Current = NumUrbs) /\ Ends(Current, st, TRUE)
    BY <1>2 DEF UrbFails
  <2>2. Current \in Pending /\ Current \in Nat /\ \A v \in Pending : Current <= v
    BY <1>2, CurrentIs DEF UrbFails
  <2>3. PICK S \in SUBSET Pending, q \in Seq(Nat) :
           /\ Current \in S /\ Finishes(S, q) /\ urbs'[Current].st = st
           /\ \A v \in S : v # Current => urbs'[v].st = "killed"
    <3>1. st \in Outcomes /\ TRUE \in BOOLEAN
      BY DEF Outcomes
    <3>2. QED
      BY <2>1, <2>2, <3>1, EndsDoes, Zenon
  <2>4. UNCHANGED <<kernel, request, phase, status, cancelling, private, sent, buffer,
                    lock, next, reaped, disc>>
    BY <2>1 DEF Ends
  <2>5. ASSUME NEW v \in S, urbs'[v].st = "overflow"
        PROVE  v = NumUrbs /\ S = {v} /\ Pending = {v}
    <3>1. v = Current /\ st = "overflow" /\ v = NumUrbs
      BY <2>1, <2>3, <2>5
    <3>2. \A w \in Pending : w \in 1..NumUrbs /\ v <= w
      BY <2>2, <3>1, RequestsType DEF Pending, Requests
    <3>3. \A w \in Pending : w = v
      BY <3>1, <3>2, RequestsType
    <3>4. QED
      BY <2>2, <2>3, <3>1, <3>3
  <2>6. RequestInv'
    BY <2>3, <2>4, <2>5, FinishesKeeps DEF kernel, request, private
  <2>7. QED
    BY <2>3, <2>4, <2>6 DEF Finishes, Advance, kernel
<1>3. CASE Unplug
  <2>1. PICK q \in Seq(Nat) : Finishes(Pending, q) /\ \A v \in Pending : urbs'[v].st = "shutdown"
    BY <1>3, UnplugDoes
  <2>2. UNCHANGED <<removed, kind, length, phase, retired, lock, next, reaped>> /\ plugged
    BY <1>3 DEF Unplug, request, private
  <2>3. RequestInv'
    BY <2>1, <2>2, FinishesKeeps
  <2>4. QED
    BY <2>1, <2>2, <2>3 DEF Finishes, Advance
<1>4. QED
  BY <1>1, <1>2, <1>3

LEMMA DiscardKeeps ==
  ASSUME TypeOK, RequestInv, DiscardUrb
  PROVE  RequestInv' /\ NumUrbs' = NumUrbs
<1>1. UNCHANGED <<plugged, kind, length, retired, lock, next, reaped>>
  BY DEF DiscardUrb, kernel, request, private
<1>2. CASE plugged /\ disc.i \in Pending
  <2>1. Finishes({disc.i}, <<disc.i>>) /\ urbs'[disc.i].st = "killed"
    BY <1>2, DiscardUrbDoes
  <2>2. RequestInv'
    BY <1>1, <2>1, FinishesKeeps
  <2>3. QED
    BY <2>1, <2>2 DEF Finishes, Advance
<1>3. CASE ~ (plugged /\ disc.i \in Pending)
  <2>1. UNCHANGED <<urbs, done>>
    BY <1>3, DiscardUrbDoes
  <2>2. NumUrbs' = NumUrbs /\ (Submitting' <=> Submitting)
    BY <1>1, <2>1 DEF NumUrbs, Submitting
  <2>3. QED
    BY <1>1, <2>1, <2>2, QuietKeeps
<1>4. QED
  BY <1>2, <1>3

LEMMA FsNext ==
  ASSUME FsInv, [Next]_vars
  PROVE  FsInv'
<1> USE DEF FsInv
<1>0. NumUrbs \in Nat /\ (urbs = <<>> <=> NumUrbs = 0) /\ RequestInv /\ PhaseInv /\ TypeOK
  BY RequestsType, EmptyIff DEF TypeOK, NumUrbs
<1>1. ASSUME NEW k \in Kinds, NEW sp \in Splits, NEW n \in 0..MaxLength, SubmitBegin(k, sp, n)
      PROVE  FsInv'
  <2>1. TypeOK' /\ RequestInv'
    BY <1>1, SubmitBeginType, SubmitBeginKeeps
  <2>2. NumUrbs' \in Nat \ {0}
    BY <1>1, SubmitBeginDoes DEF NumUrbs
  <2>3. PhaseInv'
    <3>1. /\ lock' = "submit" /\ phase' = "submitting" /\ next' = 1
          /\ UNCHANGED <<plugged, removed>>
      BY <1>1 DEF SubmitBegin, kernel
    <3>2. next' \in 1..NumUrbs' + 1 /\ NumUrbs' > 0
      <4>1. PICK m \in Nat \ {0} : NumUrbs' = m
        BY <2>2
      <4>2. 1 \in 1..m + 1
        OBVIOUS
      <4>3. QED
        BY <3>1, <4>1, <4>2
    <3>3. removed => ~ plugged
      BY <1>0 DEF PhaseInv
    <3>4. QED
      BY <2>2, <3>1, <3>2, <3>3 DEF PhaseInv
  <2>4. QED
    BY <2>1, <2>3
<1>2. CASE SubmitUrb
  <2>1. TypeOK' /\ RequestInv' /\ NumUrbs' = NumUrbs
    BY <1>2, SubmitType, SubmitUrbKeeps, SubmitUrbDoes DEF Advance
  <2>2. PhaseInv'
    <3>1. /\ lock = "submit" /\ lock' = "submit" /\ next \in 1..NumUrbs /\ next' = next + 1
          /\ UNCHANGED <<phase, plugged, removed, reaped, done>>
      BY <1>2 DEF SubmitUrb, kernel
    <3>2. next' \in 1..NumUrbs + 1
      BY <1>0, <3>1
    <3>3. QED
      BY <1>0, <2>1, <3>1, <3>2 DEF PhaseInv
  <2>3. QED
    BY <2>1, <2>2
<1>3. CASE SubmitEnd
  <2>1. TypeOK' /\ RequestInv' /\ NumUrbs' = NumUrbs
    <3>1. ~ Submitting /\ ~ Submitting' /\ NumUrbs' = NumUrbs
      BY <1>0, <1>3 DEF Submitting, SubmitEnd, TypeOK, NumUrbs
    <3>2. RequestInv'
      BY <1>3, <3>1, QuietKeeps DEF SubmitEnd, kernel, request, private
    <3>3. QED
      BY <1>3, <3>1, <3>2, SubmitType
  <2>2. PhaseInv'
    BY <1>0, <1>3, <2>1 DEF PhaseInv, SubmitEnd, kernel
  <2>3. QED
    BY <2>1, <2>2
<1>4. CASE FirstUrbFails
  <2>1. done = <<>> /\ reaped = 0
    <3>1. \A u \in Requests : urbs[u].at = "none"
      BY <1>4, RequestsType DEF FirstUrbFails, RequestInv, SubmitInv
    <3>2. At("done") = {} /\ At("reaped") = {}
      BY <3>1 DEF At
    <3>3. \A i \in DOMAIN done : done[i] \in {}
      BY <3>2 DEF RequestInv, ReapInv, Lists
    <3>4. done = <<>>
      BY <3>3, EmptyList DEF TypeOK
    <3>5. QED
      BY <3>2, <3>4 DEF RequestInv, ReapInv
  <2>2. /\ urbs' = <<>> /\ done' = <<>> /\ reaped' = 0 /\ lock' = "free" /\ phase' = "idle"
        /\ next' = 0 /\ UNCHANGED <<kind, removed, plugged>>
    BY <1>4, <2>1 DEF FirstUrbFails, kernel, request
  <2>3. TypeOK' /\ RequestInv' /\ NumUrbs' = 0
    BY <1>4, <2>2, SubmitType, EmptiedKeeps DEF NumUrbs
  <2>4. PhaseInv'
    BY <2>2, <2>3, <1>0 DEF PhaseInv
  <2>5. QED
    BY <2>3, <2>4
<1>5. CASE LaterUrbFails
  <2>1. TypeOK' /\ RequestInv' /\ NumUrbs' = NumUrbs
    BY <1>5, SubmitType, LaterUrbFailsKeeps DEF LaterUrbFails, NumUrbs
  <2>2. PhaseInv'
    BY <1>0, <1>5, <2>1 DEF PhaseInv, LaterUrbFails, kernel
  <2>3. QED
    BY <2>1, <2>2
<1>6. CASE DiscardUrb
  <2>1. TypeOK' /\ RequestInv' /\ NumUrbs' = NumUrbs
    BY <1>6, DiscardType, DiscardKeeps
  <2>2. NumUrbs > 0 \/ done' = done
    BY <1>6, DiscardUrbDoes, RequestsType DEF Pending, Requests
  <2>3. PhaseInv'
    BY <1>0, <1>6, <2>1, <2>2 DEF PhaseInv, DiscardUrb, kernel
  <2>4. QED
    BY <2>1, <2>3
<1>7. CASE CancelBegin
  <2>1. TypeOK' /\ RequestInv' /\ NumUrbs' = NumUrbs
    <3>1. lock \in {"free", "report"} /\ lock' \in {lock, "cancel"} /\ NumUrbs' = NumUrbs
      BY <1>7 DEF CancelBegin, NumUrbs
    <3>2. RequestInv'
      BY <1>7, <3>1, QuietKeeps DEF CancelBegin, kernel, request, private, Submitting
    <3>3. QED
      BY <1>7, <3>1, <3>2, DiscardType
  <2>2. PhaseInv'
    BY <1>0, <1>7, <2>1 DEF PhaseInv, CancelBegin, kernel
  <2>3. QED
    BY <2>1, <2>2
<1>8. CASE CancelEnd \/ HandlerDiscarded
  <2>1. /\ lock \in {"cancel", "handler"} /\ lock' = "free" /\ NumUrbs' = NumUrbs
        /\ UNCHANGED <<urbs, done, reaped, plugged, removed, kind, length, retired, next, phase>>
    BY <1>8 DEF CancelEnd, HandlerDiscarded, NumUrbs, kernel, request, private
  <2>2. TypeOK' /\ RequestInv'
    BY <1>8, <2>1, DiscardType, QuietKeeps DEF Submitting
  <2>3. PhaseInv'
    BY <1>0, <2>1 DEF PhaseInv
  <2>4. QED
    BY <2>2, <2>3
<1>9. CASE Reap
  <2>1. TypeOK' /\ RequestInv' /\ NumUrbs' = NumUrbs
    BY <1>9, ReportType, ReapKeeps, ReapDoes DEF RequestInv, Advance
  <2>2. NumUrbs > 0
    BY <1>0, <1>9 DEF Reap, PhaseInv
  <2>3. PhaseInv'
    BY <1>0, <1>9, <2>1, <2>2 DEF PhaseInv, Reap, kernel
  <2>4. QED
    BY <2>1, <2>3
<1>10. CASE HandleUrb
  <2>1. TypeOK' /\ RequestInv'
    BY <1>10, HandleUrbType, HandleUrbKeeps DEF RequestInv
  <2>2. lock = "free" /\ NumUrbs > 0 /\ UNCHANGED <<phase, next, removed, plugged, done>> /\ reaped' = 0
    BY <1>0, <1>10 DEF HandleUrb, PhaseInv, kernel, TypeOK
  <2>3. CASE urbs' = urbs /\ lock' \in {"free", "handler"}
    <3>1. NumUrbs' = NumUrbs
      BY <2>3 DEF NumUrbs
    <3>2. QED
      BY <1>0, <2>1, <2>2, <2>3, <3>1 DEF PhaseInv
  <2>4. CASE urbs' = <<>> /\ lock' = "report"
                          /\ (kind = "control" \/ AllRetired \/ urbs[reaped].st = "overflow")
    <3>1. NumUrbs' = 0 /\ done' = <<>>
      BY <1>0, <1>10, <2>2, <2>4, AllSettled DEF NumUrbs
    <3>2. QED
      BY <1>0, <2>1, <2>2, <2>4, <3>1 DEF PhaseInv
  <2>5. QED
    BY <1>0, <1>10, <2>3, <2>4, HandleUrbDoes DEF RequestInv
<1>11. CASE Report
  <2>1. TypeOK' /\ RequestInv' /\ NumUrbs' = NumUrbs
    <3>1. ~ Submitting /\ ~ Submitting' /\ NumUrbs' = NumUrbs
      BY <1>11 DEF Submitting, Report, NumUrbs
    <3>2. RequestInv'
      BY <1>11, <3>1, QuietKeeps DEF Report, kernel, request, private
    <3>3. QED
      BY <1>11, <3>1, <3>2, ReportType DEF RequestInv
  <2>2. PhaseInv'
    BY <1>0, <1>11, <2>1 DEF PhaseInv, Report, kernel
  <2>3. QED
    BY <2>1, <2>2
<1>12. CASE Disconnect
  <2>1. TypeOK'
    BY <1>12, ReportType DEF RequestInv
  <2>2. /\ done' = <<>> /\ reaped = 0 /\ reaped' = 0 /\ lock = "free" /\ lock' = "free" /\ next' = next
        /\ ~ plugged' /\ kind' = kind
    BY <1>12 DEF Disconnect, request
  <2>3. urbs' = <<>> /\ phase' # "submitting" /\ phase' # "pending"
    BY <1>0, <1>12 DEF Disconnect, PhaseInv, InFlight, TypeOK
  <2>4. RequestInv' /\ NumUrbs' = 0
    BY <2>2, <2>3, EmptiedKeeps DEF NumUrbs
  <2>5. PhaseInv'
    BY <1>0, <2>2, <2>3, <2>4 DEF PhaseInv
  <2>6. QED
    BY <2>1, <2>4, <2>5
<1>13. CASE Take
  <2>1. TypeOK' /\ RequestInv' /\ NumUrbs' = NumUrbs
    <3>1. (Submitting' <=> Submitting) /\ NumUrbs' = NumUrbs
      BY <1>13 DEF Submitting, Take, NumUrbs
    <3>2. RequestInv'
      BY <1>13, <3>1, QuietKeeps DEF Take, kernel, request, private
    <3>3. QED
      BY <1>13, <3>1, <3>2, ReportType DEF RequestInv
  <2>2. PhaseInv'
    BY <1>0, <1>13, <2>1 DEF PhaseInv, Take, kernel
  <2>3. QED
    BY <2>1, <2>2
<1>14. CASE Deliver
  <2>1. TypeOK' /\ RequestInv' /\ NumUrbs' = NumUrbs
    BY <1>14, WorldType, DeliverKeeps, DeliverDoes DEF WorldStep, RequestInv
  <2>2. PhaseInv'
    BY <1>0, <1>14, <2>1 DEF PhaseInv, Deliver, kernel
  <2>3. QED
    BY <2>1, <2>2
<1>15. CASE UrbEnds \/ UrbFails \/ Unplug
  <2>1. TypeOK' /\ RequestInv' /\ NumUrbs' = NumUrbs
    BY <1>15, WorldType, WorldKeeps DEF WorldStep, RequestInv
  <2>2. UNCHANGED <<phase, lock, next, reaped, removed>> /\ (plugged' => plugged)
    BY <1>15, WorldKeeps
  <2>3. NumUrbs = 0 => done' = <<>>
    <3>1. ASSUME NumUrbs = 0
          PROVE  done' = <<>>
      <4>1. At("done")' = {}
        BY <1>0, <2>1, <3>1 DEF At, Requests, NumUrbs, TypeOK
      <4>2. done' \in Seq(Nat) /\ \A i \in DOMAIN done' : done'[i] \in {}
        BY <2>1, <4>1 DEF RequestInv, ReapInv, Lists
      <4>3. QED
        BY <4>2, EmptyList
    <3>2. QED
      BY <3>1
  <2>4. PhaseInv'
    BY <1>0, <2>1, <2>2, <2>3 DEF PhaseInv
  <2>5. QED
    BY <2>1, <2>4
<1>16. CASE UNCHANGED vars
  <2>1. TypeOK'
    BY <1>16 DEF TypeOK, vars, kernel, request, private, device
  <2>2. PhaseInv'
    BY <1>16 DEF PhaseInv, vars, NumUrbs, kernel
  <2>3. RequestInv'
    BY <1>16, QuietKeeps DEF vars, kernel, request, private, Submitting, NumUrbs
  <2>4. QED
    BY <2>1, <2>2, <2>3
<1>17. QED
  BY <1>1, <1>2, <1>3, <1>4, <1>5, <1>6, <1>7, <1>8, <1>9, <1>10, <1>11, <1>12, <1>13, <1>14,
     <1>15, <1>16 DEF Next, SubmitStep, CancelStep, HandlerStep, WorldStep, Over

LEMMA FsInit == Init => FsInv
<1> SUFFICES ASSUME Init PROVE FsInv
  OBVIOUS
<1>1. /\ urbs = <<>> /\ done = <<>> /\ Len(urbs) = 0 /\ DOMAIN urbs = {}
      /\ <<>> \in Seq(Urb) /\ <<>> \in Seq(Nat)
  BY DEF Init
<1>2. TypeOK
  <2>1. buffer \in [1..length -> Nat]
    <3>1. length = 0 /\ buffer = <<>> /\ 1..0 = {}
      BY DEF Init
    <3>2. QED
      BY <3>1
  <2>2. QED
    <3>1. length \in 0..MaxLength /\ rounds \in 0..Rounds
      BY DEF Init
    <3>2. disc \in [i : Nat, first : Nat \ {0}, last : Nat, ret : {"ok", "NO_DEVICE", "NOT_FOUND"}]
      BY DEF Init, NoDiscard
    <3>3. {plugged, reapAfter, removed, cancelling, short, broken} \subseteq BOOLEAN
      BY DEF Init
    <3>4. QED
      BY <1>1, <2>1, <3>1, <3>2, <3>3 DEF Init, TypeOK, Kinds, Splits, Results
<1>3. PhaseInv
  BY <1>1 DEF Init, PhaseInv, NumUrbs
<1>4. RequestInv
  <2>1. Requests = {} /\ At("done") = {} /\ Lists(<<>>, {}) /\ NumUrbs = 0 /\ reaped = 0
    BY <1>1 DEF Requests, At, Lists, NumUrbs, Init
  <2>2. ReapInv
    <3>1. plugged
      BY DEF Init
    <3>2. Lists(done, At("done"))
      BY <1>1, <2>1, Zenon
    <3>3. QED
      BY <2>1, <3>1, <3>2 DEF ReapInv
  <2>3. LayoutInv /\ SubmitInv /\ CountInv /\ OverflowInv
    BY <2>1, <1>1 DEF LayoutInv, SubmitInv, CountInv, OverflowInv, Submitting, Init
  <2>4. QED
    BY <2>2, <2>3 DEF RequestInv
<1>5. QED
  BY <1>2, <1>3, <1>4 DEF FsInv

LEMMA FsInvariant == Spec => []FsInv
  BY FsInit, FsNext, PTL DEF Spec

\* Every variable has its type: the counters do not become negative, what was
\* retired included, and the bytes of a transfer stay in its buffer.
THEOREM TypeCorrect == Spec => []TypeOK
<1>1. FsInv => TypeOK
  BY DEF FsInv
<1>2. QED
  BY <1>1, FsInvariant, PTL

-----------------------------------------------------------------------------
(* What is freed.                                                          *)

Frees == urbs # <<>> /\ urbs' = <<>> /\ ~ removed'

LEMMA OnlyWhenOver ==
  ASSUME FsInv, [Next]_vars, Frees
  PROVE  \A u \in DOMAIN urbs : urbs[u].at \in {"none", "reaped"}
<1>0. /\ NumUrbs \in Nat \ {0} /\ NumUrbs' = 0
      /\ TypeOK /\ PhaseInv /\ RequestInv
  BY RequestsType, EmptyIff DEF FsInv, TypeOK, NumUrbs, Frees
<1>1. CASE FirstUrbFails
  BY <1>0, <1>1, RequestsType DEF FirstUrbFails, RequestInv, SubmitInv, Requests
<1>2. CASE HandleUrb
  <2>1. urbs' # urbs
    BY DEF Frees
  <2>2. kind = "control" \/ AllRetired \/ urbs[reaped].st = "overflow"
    BY <1>0, <1>2, <2>1, HandleUrbDoes DEF RequestInv
  <2>3. QED
    BY <1>0, <1>2, <2>2, AllSettled DEF Requests
<1>3. CASE Disconnect
  BY <1>3 DEF Disconnect, Frees
<1>4. ASSUME NEW k \in Kinds, NEW sp \in Splits, NEW n \in 0..MaxLength, SubmitBegin(k, sp, n)
      PROVE  FALSE
  BY <1>0, <1>4, SubmitBeginDoes DEF NumUrbs
<1>5. CASE SubmitUrb \/ Reap \/ Deliver
  BY <1>0, <1>5, SubmitUrbDoes, ReapDoes, DeliverDoes DEF RequestInv, Advance
<1>6. CASE DiscardUrb \/ UrbEnds \/ UrbFails \/ Unplug
  BY <1>0, <1>6, DiscardKeeps, WorldKeeps
<1>7. CASE \/ SubmitEnd \/ LaterUrbFails \/ CancelBegin \/ CancelEnd
           \/ HandlerDiscarded \/ Report \/ Take \/ UNCHANGED vars
  <2>1. urbs' = urbs
    BY <1>7 DEF SubmitEnd, LaterUrbFails, CancelBegin, CancelEnd, HandlerDiscarded, Report,
                Take, vars
  <2>2. QED
    BY <2>1 DEF Frees
<1>8. QED
  BY <1>1, <1>2, <1>3, <1>4, <1>5, <1>6, <1>7
     DEF Next, SubmitStep, CancelStep, HandlerStep, WorldStep, Over

\* The requests are freed only when the kernel has none of them and none is still
\* to be reaped, unless the descriptor is gone: the transfer is not reported with
\* a request the kernel still writes to.
THEOREM FreedOnlyWhenOver == Spec => FreedWhenOver
<1>1. FsInv /\ [Next]_vars =>
        [urbs # <<>> /\ urbs' = <<>> /\ ~ removed' =>
           \A u \in DOMAIN urbs : urbs[u].at \in {"none", "reaped"}]_vars
  BY OnlyWhenOver DEF Frees
<1>2. QED
  BY <1>1, FsInvariant, PTL DEF Spec, FreedWhenOver


-----------------------------------------------------------------------------
(* The bytes of a bulk or interrupt transfer.                              *)

Data    == kind \in {"bulk", "interrupt"}
Handled == At("reaped") \ {reaped}

\* Request u is, or was, handed to the handler before v.
Before(u, v) ==
  \/ u \in Handled
  \/ u = reaped /\ v \notin Handled
  \/ \E i, j \in DOMAIN done : i < j /\ done[i] = u /\ done[j] = v
  \/ urbs[u].at \in {"done", "reaped"} /\ urbs[v].at = "kernel"

\* A request gets data only when those before it are over, so it is reaped later.
PrecedeInv == \A u, v \in Requests : u < v /\ urbs[v].len > 0 => Before(u, v)

\* Nothing is served after a stall, nor after the device is gone.
StopInv ==
  \A u \in Requests : urbs[u].st \in {"stall", "shutdown"} =>
    /\ urbs[u].st = "shutdown" => ~ plugged
    /\ \A v \in Requests : u < v => urbs[v].len = 0

\* While the transfer goes on as it should, what was handled was full.
FullInv ==
  Data /\ action = "NORMAL" =>
    \A u \in Handled : urbs[u].len = urbs[u].size \/ urbs[u].st \in {"stall", "shutdown"}

\* f[u] is how many bytes the first u requests of s have received.
Adds(s, f) ==
  /\ f \in [0..Len(s) -> Nat] /\ f[0] = 0
  /\ \A u \in 1..Len(s) : f[u] = f[u - 1] + s[u].len

\* t bytes were counted, those of the first k requests, once the ones in H are handled.
Counted(s, f, H, t, k) ==
  /\ k \in 0..Len(s) /\ t = f[k]
  /\ \A u \in 1..Len(s) : u <= k => u \in H \/ s[u].len = 0
  /\ \A u \in 1..Len(s) : u > k /\ u \in H => s[u].len = 0

\* Those bytes are at the start of b, the others where they were received.
Placed(s, f, H, t, b) ==
  /\ \A u \in 1..Len(s) : u \notin H =>
        \A i \in 1..s[u].len : b[s[u].start + i] = f[u - 1] + i
  /\ \A i \in 1..t : b[i] = i

BytesInv ==
  Data /\ NumUrbs > 0 =>
    \E f \in [0..NumUrbs -> Nat], k \in 0..NumUrbs :
       /\ Adds(urbs, f) /\ f[NumUrbs] = sent
       /\ Counted(urbs, f, Handled, transferred, k)
       /\ Placed(urbs, f, Handled, transferred, buffer)

\* The same once the requests are freed.
OverInv ==
  Data /\ NumUrbs = 0 /\ phase # "idle" /\ (status = "NO_DEVICE" => reapAfter) =>
    transferred = sent /\ \A i \in 1..sent : buffer[i] = i

StatusInv == phase \in {"submitting", "pending"} => status = "none"

ServedInv == PrecedeInv /\ StopInv /\ FullInv /\ BytesInv

DataInv == ServedInv /\ OverInv /\ StatusInv

-----------------------------------------------------------------------------
(* Sums.                                                                   *)

LEMMA AddsGrow ==
  ASSUME NEW s \in Seq(Urb), NEW f, Adds(s, f),
         NEW k \in 0..Len(s), NEW m \in 0..Len(s), k <= m
  PROVE  /\ f[k] <= f[m]
         /\ (\A w \in 1..Len(s) : k < w /\ w <= m => s[w].len = 0) => f[m] = f[k]
<1> DEFINE N == Len(s)
<1>1. /\ N \in Nat /\ k \in 0..N /\ m \in 0..N
      /\ \A u \in 1..N : s[u].len \in Nat /\ f[u] = f[u - 1] + s[u].len
      /\ \A u \in 0..N : f[u] \in Nat
  <2>1. N \in Nat /\ \A u \in 1..N : s[u] \in Urb
    BY ElementOfSeq, LenProperties
  <2>2. QED
    BY <2>1 DEF Adds, Urb
<1> HIDE DEF N
<1>2. f[k] <= f[m]
  <2> DEFINE S == {x \in k..N : f[x] < f[k]}
  <2>1. ASSUME S # {} PROVE FALSE
    <3>1. S \in SUBSET Nat
      BY <1>1
    <3>2. PICK x \in S : \A y \in S : x <= y
      BY <2>1, <3>1, Least
    <3>3. x \in 1..N /\ x - 1 \in k..N /\ x - 1 \notin S
      BY <1>1, <3>2
    <3>4. f[x] = f[x - 1] + s[x].len /\ s[x].len \in Nat
      BY <1>1, <3>3
    <3>5. f[x - 1] \in Nat /\ f[k] \in Nat /\ f[x] \in Nat
      BY <1>1, <3>3
    <3>6. f[x] < f[k] /\ ~ (f[x - 1] < f[k])
      BY <3>2, <3>3
    <3>7. QED
      BY <3>4, <3>5, <3>6
  <2>2. m \in k..N /\ m \notin S
    BY <1>1, <2>1
  <2>3. QED
    BY <1>1, <2>2
<1>3. ASSUME \A w \in 1..N : k < w /\ w <= m => s[w].len = 0
      PROVE  f[m] = f[k]
  <2> DEFINE S == {x \in k..m : f[x] # f[k]}
  <2>1. ASSUME S # {} PROVE FALSE
    <3>1. S \in SUBSET Nat
      BY <1>1
    <3>2. PICK x \in S : \A y \in S : x <= y
      BY <2>1, <3>1, Least
    <3>3. x \in 1..N /\ x - 1 \in k..m /\ x - 1 \notin S /\ k < x /\ x <= m
      BY <1>1, <3>2
    <3>4. f[x] = f[x - 1]
      <4>1. s[x].len = 0 /\ f[x - 1] \in Nat
        BY <1>1, <1>3, <3>3
      <4>2. QED
        BY <1>1, <3>3, <4>1
    <3>5. QED
      BY <1>1, <3>2, <3>3, <3>4
  <2>2. m \in k..m /\ m \notin S
    BY <1>1, <2>1
  <2>3. QED
    BY <1>1, <2>2
<1>4. QED
  BY <1>2, <1>3 DEF N

\* No request starts before the bytes of the earlier ones, and when those were
\* full it starts right behind them.
LEMMA AddsBound ==
  ASSUME NEW s \in Seq(Urb), NEW n \in Nat, Covers(s, n),
         \A w \in 1..Len(s) : s[w].len <= s[w].size,
         NEW f, Adds(s, f), NEW u \in 1..Len(s)
  PROVE  /\ f[u - 1] <= s[u].start
         /\ (\A w \in 1..Len(s) : w < u => s[w].len = s[w].size) => f[u - 1] = s[u].start
<1> DEFINE N == Len(s)
<1>1. /\ N \in Nat /\ u \in 1..N
      /\ \A w \in 1..N : /\ s[w].len \in Nat /\ s[w].size \in Nat /\ s[w].start \in Nat
                         /\ f[w] = f[w - 1] + s[w].len
                         /\ s[w].len <= s[w].size
      /\ \A w \in 0..N : f[w] \in Nat
  <2>1. N \in Nat /\ \A w \in 1..N : s[w] \in Urb
    BY ElementOfSeq, LenProperties
  <2>2. QED
    BY <2>1 DEF Adds, Urb
<1>2. /\ s[1].start = 0 /\ f[0] = 0
      /\ \A v, w \in 1..N : w = v + 1 => s[w].start = s[v].start + s[v].size
  BY DEF Covers, Adds
<1> HIDE DEF N
<1>3. f[u - 1] <= s[u].start
  <2> DEFINE S == {x \in 1..N : f[x - 1] > s[x].start}
  <2>1. ASSUME S # {} PROVE FALSE
    <3>1. S \in SUBSET Nat
      BY <1>1
    <3>2. PICK x \in S : \A y \in S : x <= y
      BY <2>1, <3>1, Least
    <3>3. x # 1
      BY <1>2, <3>2
    <3>4. x - 1 \in 1..N /\ (x - 1) - 1 \in 0..N /\ x - 1 \notin S /\ x = (x - 1) + 1 /\ x \in 1..N
      BY <1>1, <3>2, <3>3
    <3>5. PICK w : w = x - 1
      OBVIOUS
    <3>6. w \in 1..N /\ w \in 0..N /\ w - 1 \in 0..N /\ ~ (f[w - 1] > s[w].start) /\ x = w + 1
      BY <3>4, <3>5
    <3>7. /\ f[w] \in Nat /\ f[w - 1] \in Nat
          /\ s[w].start \in Nat /\ s[w].size \in Nat /\ s[w].len \in Nat
          /\ f[w] = f[w - 1] + s[w].len /\ s[w].len <= s[w].size
      BY <1>1, <3>6
    <3>8. s[x].start = s[w].start + s[w].size
      BY <1>2, <3>4, <3>6
    <3>9. f[w] > s[x].start
      BY <3>2, <3>5
    <3>10. f[w - 1] <= s[w].start
      <4>1. \A a, b \in Nat : ~ (a > b) => a <= b
        OBVIOUS
      <4>2. ~ (f[w - 1] > s[w].start) /\ f[w - 1] \in Nat /\ s[w].start \in Nat
        BY <3>6, <3>7
      <4>3. QED
        BY <4>1, <4>2
    <3>11. \A a, b, c, d, e \in Nat : (a <= b /\ c <= d /\ e = a + c) => ~ (e > b + d)
      OBVIOUS
    <3>12. ~ (f[w] > s[w].start + s[w].size)
      BY <3>7, <3>10, <3>11
    <3>13. QED
      BY <3>8, <3>9, <3>12
  <2>2. u \notin S
    BY <2>1
  <2>3. u - 1 \in 0..N
    BY <1>1
  <2>4. QED
    BY <1>1, <2>2, <2>3
<1>4. ASSUME \A w \in 1..N : w < u => s[w].len = s[w].size
      PROVE  f[u - 1] = s[u].start
  <2> DEFINE S == {x \in 1..u : f[x - 1] # s[x].start}
  <2>1. ASSUME S # {} PROVE FALSE
    <3>1. S \in SUBSET Nat
      BY <1>1
    <3>2. PICK x \in S : \A y \in S : x <= y
      BY <2>1, <3>1, Least
    <3>3. x # 1
      BY <1>2, <3>2
    <3>4. /\ x - 1 \in 1..N /\ (x - 1) - 1 \in 0..N /\ x - 1 \in 1..u /\ x - 1 \notin S
          /\ x = (x - 1) + 1 /\ x \in 1..N /\ x - 1 < u
      BY <1>1, <3>2, <3>3
    <3>5. f[(x - 1) - 1] = s[x - 1].start
      BY <3>4
    <3>6. f[x - 1] = f[(x - 1) - 1] + s[x - 1].len /\ s[x - 1].len = s[x - 1].size
      BY <1>1, <1>4, <3>4
    <3>7. s[x].start = s[x - 1].start + s[x - 1].size
      BY <1>2, <3>4
    <3>8. f[x - 1] # s[x].start
      BY <3>2
    <3>9. QED
      BY <1>1, <3>4, <3>5, <3>6, <3>7, <3>8
  <2>2. u \in 1..u
    BY <1>1
  <2>3. QED
    BY <2>1, <2>2
<1>5. QED
  BY <1>3, <1>4 DEF N

\* One more byte for request c.
LEMMA AddsOne ==
  ASSUME NEW s \in Seq(Urb), NEW t \in Seq(Urb), Len(t) = Len(s), NEW c \in 1..Len(s),
         t[c].len = s[c].len + 1, \A u \in 1..Len(s) : u # c => t[u].len = s[u].len,
         NEW f, Adds(s, f)
  PROVE  Adds(t, [m \in 0..Len(s) |-> IF m >= c THEN f[m] + 1 ELSE f[m]])
<1> DEFINE N == Len(s)
           g == [m \in 0..N |-> IF m >= c THEN f[m] + 1 ELSE f[m]]
<1>1. /\ N \in Nat /\ c \in 1..N /\ f[0] = 0
      /\ \A u \in 1..N : s[u].len \in Nat /\ f[u] = f[u - 1] + s[u].len
      /\ \A u \in 0..N : f[u] \in Nat
  <2>1. N \in Nat /\ \A u \in 1..N : s[u] \in Urb
    BY ElementOfSeq, LenProperties
  <2>2. QED
    BY <2>1 DEF Adds, Urb
<1>2. Len(t) = N /\ t[c].len = s[c].len + 1 /\ \A u \in 1..N : u # c => t[u].len = s[u].len
  OBVIOUS
<1> HIDE DEF N
<1>3. g \in [0..N -> Nat] /\ g[0] = 0
  BY <1>1
<1>4. ASSUME NEW u \in 1..N
      PROVE  g[u] = g[u - 1] + t[u].len
  <2>1. u \in 0..N /\ u - 1 \in 0..N
    BY <1>1
  <2>2. CASE u < c
    <3>1. ~ u >= c /\ ~ u - 1 >= c /\ u # c
      BY <1>1, <2>2
    <3>2. g[u] = f[u] /\ g[u - 1] = f[u - 1] /\ t[u].len = s[u].len
      BY <1>2, <2>1, <3>1
    <3>3. f[u] = f[u - 1] + s[u].len
      BY <1>1
    <3>4. QED
      BY <3>2, <3>3
  <2>3. CASE u = c
    <3>1. g[u] = f[u] + 1 /\ g[u - 1] = f[u - 1] /\ t[u].len = s[u].len + 1
      BY <1>1, <1>2, <2>1, <2>3
    <3>2. f[u] = f[u - 1] + s[u].len /\ s[u].len \in Nat /\ f[u - 1] \in Nat
      BY <1>1, <2>1
    <3>3. QED
      BY <3>1, <3>2
  <2>4. CASE u > c
    <3>1. u >= c /\ u - 1 >= c /\ u # c
      BY <1>1, <2>4
    <3>2. g[u] = f[u] + 1 /\ g[u - 1] = f[u - 1] + 1 /\ t[u].len = s[u].len
      BY <1>2, <2>1, <3>1
    <3>3. f[u] = f[u - 1] + s[u].len /\ s[u].len \in Nat /\ f[u - 1] \in Nat
      BY <1>1, <2>1
    <3>4. QED
      BY <3>2, <3>3
  <2>5. QED
    BY <1>1, <2>2, <2>3, <2>4
<1>5. Adds(t, g)
  BY <1>2, <1>3, <1>4 DEF Adds
<1>6. QED
  BY <1>5 DEF N

-----------------------------------------------------------------------------
(* What keeps the invariant.                                               *)

LEMMA BytesKept ==
  ASSUME TypeOK, BytesInv, UNCHANGED <<kind, sent, transferred, buffer, NumUrbs, Handled>>,
         \A v \in Requests : urbs'[v].len = urbs[v].len /\ urbs'[v].start = urbs[v].start
  PROVE  BytesInv'
<1> SUFFICES ASSUME Data', NumUrbs' > 0
             PROVE  \E f \in [0..NumUrbs' -> Nat], k \in 0..NumUrbs' :
                       /\ Adds(urbs', f) /\ f[NumUrbs'] = sent'
                       /\ Counted(urbs', f, Handled', transferred', k)
                       /\ Placed(urbs', f, Handled', transferred', buffer')
  BY DEF BytesInv
<1>1. PICK f \in [0..NumUrbs -> Nat], k \in 0..NumUrbs :
         /\ Adds(urbs, f) /\ f[NumUrbs] = sent
         /\ Counted(urbs, f, Handled, transferred, k)
         /\ Placed(urbs, f, Handled, transferred, buffer)
  BY DEF BytesInv, Data
<1>2. /\ Len(urbs') = Len(urbs) /\ 1..Len(urbs) = Requests
      /\ \A v \in 1..Len(urbs) : urbs'[v].len = urbs[v].len /\ urbs'[v].start = urbs[v].start
  BY RequestsType DEF NumUrbs
<1>3. Adds(urbs', f)
  BY <1>1, <1>2 DEF Adds
<1>4. Counted(urbs', f, Handled, transferred, k)
  BY <1>1, <1>2 DEF Counted
<1>5. Placed(urbs', f, Handled, transferred, buffer)
  BY <1>1, <1>2 DEF Placed
<1>6. QED
  BY <1>1, <1>3, <1>4, <1>5

\* Nothing comes before a request the kernel still has.
LEMMA NotBefore ==
  ASSUME TypeOK, ReapInv, NEW u \in Pending, NEW v, Before(u, v)
  PROVE  FALSE
<1>1. u \in Requests /\ urbs[u].at = "kernel" /\ u > 0
  BY RequestsType DEF Pending, Requests
<1>2. u \notin Handled
  BY <1>1 DEF Handled, At
<1>3. u # reaped
  <2>1. reaped # 0 => urbs[reaped].at = "reaped"
    BY DEF ReapInv, At
  <2>2. QED
    BY <1>1, <2>1
<1>4. \A i \in DOMAIN done : done[i] # u
  <2>1. \A i \in DOMAIN done : done[i] \in At("done")
    BY DEF ReapInv, Lists
  <2>2. QED
    BY <1>1, <2>1 DEF At
<1>5. QED
  BY <1>1, <1>2, <1>3, <1>4 DEF Before

\* Data that a pending request waits for has not gone to a later one.
LEMMA NothingLater ==
  ASSUME TypeOK, ReapInv, PrecedeInv, NEW u \in Pending, NEW v \in Requests, u < v
  PROVE  urbs[v].len = 0
<1>1. ~ (urbs[v].len > 0)
  <2>1. u \in Requests
    BY DEF Pending, Requests
  <2>2. QED
    BY <2>1, NotBefore DEF PrecedeInv
<1>2. urbs[v].len \in Nat
  BY RequestsType DEF Urb
<1>3. QED
  BY <1>1, <1>2

\* A step that leaves the requests and their data alone.
LEMMA ServedQuiet ==
  ASSUME TypeOK, ServedInv,
         UNCHANGED <<urbs, done, reaped, plugged, kind, sent, transferred, buffer>>,
         action' = "NORMAL" => action = "NORMAL"
  PROVE  ServedInv'
<1>1. UNCHANGED <<NumUrbs, Requests, At("reaped"), Handled>>
  BY DEF NumUrbs, Requests, At, Handled
<1>2. BytesInv'
  BY <1>1, BytesKept DEF ServedInv
<1>3. PrecedeInv'
  BY <1>1 DEF ServedInv, PrecedeInv, Before
<1>4. StopInv' /\ FullInv'
  BY <1>1 DEF ServedInv, StopInv, FullInv, Data
<1>5. QED
  BY <1>2, <1>3, <1>4 DEF ServedInv

\* What the end of some requests changes.
LEMMA FinishesMoves ==
  ASSUME TypeOK, NEW S, NEW q, Finishes(S, q), reaped' = reaped
  PROVE  /\ S \in SUBSET Requests /\ S \subseteq Pending /\ Lists(q, S) /\ done' = done \o q
         /\ Requests' = Requests /\ NumUrbs' = NumUrbs
         /\ \A v \in Requests : /\ urbs'[v].len = urbs[v].len
                                /\ urbs'[v].size = urbs[v].size
                                /\ urbs'[v].start = urbs[v].start
                                /\ urbs'[v].at = IF v \in S THEN "done" ELSE urbs[v].at
                                /\ v \notin S => urbs'[v].st = urbs[v].st
         /\ \A v \in S : urbs[v].at = "kernel" /\ v \in Requests
         /\ Handled' = Handled /\ Handled \in SUBSET Requests
         /\ \A v \in Handled : urbs[v].at = "reaped" /\ v \notin S
<1>1. S \in SUBSET Requests /\ S \subseteq Pending /\ Advance(S, "done") /\ Lists(q, S)
      /\ done' = done \o q
  BY DEF Finishes, Pending, Requests
<1>2. /\ Requests' = Requests /\ NumUrbs' = NumUrbs
      /\ \A v \in Requests : /\ urbs'[v].len = urbs[v].len
                             /\ urbs'[v].size = urbs[v].size
                             /\ urbs'[v].start = urbs[v].start
                             /\ urbs'[v].at = IF v \in S THEN "done" ELSE urbs[v].at
                             /\ v \notin S => urbs'[v].st = urbs[v].st
      /\ \A v \in S : urbs[v].at = "kernel" /\ v \in Requests
  BY <1>1, AdvanceDoes DEF Places, Pending, Requests
<1>3. Handled' = Handled /\ Handled \in SUBSET Requests
      /\ \A v \in Handled : urbs[v].at = "reaped" /\ v \notin S
  <2>1. \A v \in Requests : urbs'[v].at = "reaped" <=> urbs[v].at = "reaped"
    BY <1>2
  <2>2. At("reaped")' = At("reaped")
    BY <1>2, <2>1 DEF At
  <2>3. QED
    BY <1>2, <2>2 DEF Handled, At
<1>4. QED
  BY <1>1, <1>2, <1>3

LEMMA BeforeFinishes ==
  ASSUME TypeOK, RequestInv, NEW S, NEW q, Finishes(S, q), reaped' = reaped,
         NEW u \in Requests, NEW v \in Requests, Before(u, v)
  PROVE  Before(u, v)'
<1>1. /\ done \in Seq(Nat) /\ q \in Seq(Nat) /\ Len(done) \in Nat /\ Len(q) \in Nat
      /\ DOMAIN done = 1..Len(done) /\ DOMAIN q = 1..Len(q)
  BY FinishesMoves, LenProperties DEF Lists, TypeOK
<1>2. /\ DOMAIN done' = 1..Len(done) + Len(q)
      /\ \A i \in 1..Len(done) : done'[i] = done[i]
      /\ \A i \in 1..Len(q) : done'[Len(done) + i] = q[i]
  BY FinishesMoves, <1>1, ConcatProperties
<1>3. CASE u \in Handled
  BY FinishesMoves, <1>3 DEF Before
<1>4. CASE u = reaped /\ v \notin Handled
  BY FinishesMoves, <1>4 DEF Before
<1>5. ASSUME NEW i \in DOMAIN done, NEW j \in DOMAIN done, i < j, done[i] = u, done[j] = v
      PROVE  Before(u, v)'
  <2>1. i \in DOMAIN done' /\ j \in DOMAIN done' /\ done'[i] = u /\ done'[j] = v
    BY <1>1, <1>2, <1>5
  <2>2. QED
    BY <1>5, <2>1 DEF Before
<1>6. CASE urbs[u].at \in {"done", "reaped"} /\ urbs[v].at = "kernel"
  <2>1. u \notin S /\ urbs'[u].at = urbs[u].at
    BY FinishesMoves, <1>6
  <2>2. CASE v \notin S
    <3>1. urbs'[v].at = "kernel"
      BY FinishesMoves, <1>6, <2>2
    <3>2. QED
      BY <1>6, <2>1, <3>1 DEF Before
  <2>3. CASE v \in S /\ urbs[u].at = "reaped"
    <3>1. v \notin Handled /\ (u \in Handled \/ u = reaped)
      BY FinishesMoves, <2>3 DEF Handled, At
    <3>2. QED
      BY FinishesMoves, <3>1 DEF Before
  <2>4. CASE v \in S /\ urbs[u].at = "done"
    <3>1. PICK i \in DOMAIN done : done[i] = u
      BY <2>4 DEF RequestInv, ReapInv, Lists, At
    <3>2. PICK j \in DOMAIN q : q[j] = v
      BY FinishesMoves, <2>4 DEF Lists
    <3>3. /\ i \in DOMAIN done' /\ Len(done) + j \in DOMAIN done' /\ i < Len(done) + j
          /\ done'[i] = u /\ done'[Len(done) + j] = v
      BY <1>1, <1>2, <3>1, <3>2
    <3>4. QED
      BY <3>3 DEF Before
  <2>5. QED
    BY <1>6, <2>2, <2>3, <2>4
<1>7. QED
  BY <1>3, <1>4, <1>5, <1>6 DEF Before

\* The kernel is done with some requests.
LEMMA ServedFinishes ==
  ASSUME TypeOK, RequestInv, ServedInv, NEW S, NEW q, Finishes(S, q),
         UNCHANGED <<kind, sent, transferred, buffer, reaped, action>>,
         plugged' => plugged, \A v \in S : urbs'[v].st = "shutdown" => ~ plugged'
  PROVE  ServedInv'
<1>1. /\ S \in SUBSET Requests /\ S \subseteq Pending
      /\ Requests' = Requests /\ NumUrbs' = NumUrbs
      /\ \A v \in Requests : /\ urbs'[v].len = urbs[v].len
                             /\ urbs'[v].size = urbs[v].size
                             /\ urbs'[v].start = urbs[v].start
                             /\ v \notin S => urbs'[v].st = urbs[v].st
  BY FinishesMoves
<1>2. Handled' = Handled /\ Handled \in SUBSET Requests /\ \A v \in Handled : v \notin S
  BY FinishesMoves
<1>3. BytesInv'
  BY <1>1, <1>2, BytesKept DEF ServedInv
<1>4. FullInv'
  <2>1. \A v \in Handled : v \in Requests /\ urbs'[v].st = urbs[v].st
    BY <1>1, <1>2
  <2>2. QED
    BY <1>1, <1>2, <2>1 DEF ServedInv, FullInv, Data
<1>5. StopInv'
  <2> SUFFICES ASSUME NEW u \in Requests, urbs'[u].st \in {"stall", "shutdown"}
               PROVE  /\ urbs'[u].st = "shutdown" => ~ plugged'
                      /\ \A v \in Requests : u < v => urbs'[v].len = 0
    BY <1>1 DEF StopInv
  <2>1. CASE u \in S
    <3>1. \A v \in Requests : u < v => urbs[v].len = 0
      BY <1>1, <2>1, NothingLater DEF RequestInv, ServedInv
    <3>2. QED
      BY <1>1, <2>1, <3>1
  <2>2. CASE u \notin S
    BY <1>1, <2>2 DEF ServedInv, StopInv
  <2>3. QED
    BY <2>1, <2>2
<1>6. PrecedeInv'
  BY <1>1, BeforeFinishes DEF ServedInv, PrecedeInv
<1>7. QED
  BY <1>3, <1>4, <1>5, <1>6 DEF ServedInv

\* What taking a request from the kernel's list changes.
LEMMA ReapMoves ==
  ASSUME TypeOK, TypeOK', RequestInv, Reap
  PROVE  /\ reaped = 0 /\ reaped' \in Requests /\ urbs[reaped'].at = "done" /\ reaped' = done[1]
         /\ UNCHANGED <<plugged, kind, sent, transferred, buffer, action>>
         /\ Len(done') = Len(done) - 1 /\ \A i \in 1..Len(done') : done'[i] = done[i + 1]
         /\ Requests' = Requests /\ NumUrbs' = NumUrbs
         /\ \A v \in Requests : /\ urbs'[v].len = urbs[v].len
                                /\ urbs'[v].size = urbs[v].size
                                /\ urbs'[v].start = urbs[v].start
                                /\ urbs'[v].st = urbs[v].st
                                /\ urbs'[v].at = IF v = reaped' THEN "reaped" ELSE urbs[v].at
         /\ Handled' = Handled /\ Handled = At("reaped") /\ reaped' \notin Handled
         /\ Handled \in SUBSET Requests
<1> DEFINE r == reaped'
<1>1. /\ r \in At("done") /\ Advance({r}, "reaped") /\ urbs'[r].st = urbs[r].st /\ r = done[1]
      /\ Len(done') = Len(done) - 1 /\ \A i \in 1..Len(done') : done'[i] = done[i + 1]
      /\ reaped = 0 /\ UNCHANGED <<plugged, kind, sent, transferred, buffer, action>>
  BY ReapDoes DEF RequestInv, Reap, kernel, request, private, device
<1>2. r \in Requests /\ r > 0 /\ urbs[r].at = "done" /\ {r} \in SUBSET Requests
  BY <1>1, RequestsType DEF At
<1>3. /\ Requests' = Requests /\ NumUrbs' = NumUrbs
      /\ \A v \in Requests : /\ urbs'[v].len = urbs[v].len
                             /\ urbs'[v].size = urbs[v].size
                             /\ urbs'[v].start = urbs[v].start
                             /\ urbs'[v].st = urbs[v].st
                             /\ urbs'[v].at = IF v = r THEN "reaped" ELSE urbs[v].at
  BY <1>1, <1>2, AdvanceDoes DEF Places
<1> HIDE DEF r
<1>4. Handled' = Handled /\ Handled = At("reaped") /\ r \notin Handled /\ Handled \in SUBSET Requests
  <2>1. Handled = At("reaped")
    <3>1. 0 \notin Requests
      BY RequestsType
    <3>2. QED
      BY <1>1, <3>1 DEF Handled, At
  <2>2. At("reaped")' = At("reaped") \cup {r}
    BY <1>2, <1>3 DEF At
  <2>3. r \notin At("reaped")
    BY <1>2 DEF At
  <2>4. QED
    BY <2>1, <2>2, <2>3 DEF Handled, r, At
<1>5. QED
  BY <1>1, <1>2, <1>3, <1>4 DEF r

LEMMA BeforeReap ==
  ASSUME TypeOK, TypeOK', RequestInv, Reap, NEW u \in Requests, NEW v \in Requests, Before(u, v)
  PROVE  Before(u, v)'
<1>1. /\ done \in Seq(Nat) /\ Len(done) \in Nat /\ Len(done') \in Nat
      /\ DOMAIN done = 1..Len(done) /\ DOMAIN done' = 1..Len(done')
  BY LenProperties DEF TypeOK
<1>2. CASE u \in Handled
  BY ReapMoves, <1>2 DEF Before
<1>3. u # reaped
  BY ReapMoves, RequestsType
<1>4. ASSUME NEW i \in DOMAIN done, NEW j \in DOMAIN done, i < j, done[i] = u, done[j] = v
      PROVE  Before(u, v)'
  <2>1. CASE i = 1
    <3>1. reaped' = done[1] /\ Handled = At("reaped") /\ Handled' = Handled /\ reaped' # 0
      BY ReapMoves, RequestsType
    <3>2. u = reaped' /\ v # reaped'
      <4>1. done[i] # done[j]
        BY <1>1, <1>4 DEF RequestInv, ReapInv, Lists
      <4>2. QED
        BY <1>4, <2>1, <3>1, <4>1
    <3>3. v \notin Handled
      <4>1. v \in At("done")
        BY <1>4 DEF RequestInv, ReapInv, Lists
      <4>2. QED
        BY <3>1, <4>1 DEF At
    <3>4. QED
      BY <3>1, <3>2, <3>3 DEF Before
  <2>2. CASE i > 1
    <3>1. Len(done') = Len(done) - 1 /\ \A n \in 1..Len(done') : done'[n] = done[n + 1]
      BY ReapMoves
    <3>2. /\ i - 1 \in 1..Len(done') /\ j - 1 \in 1..Len(done') /\ i - 1 < j - 1
          /\ (i - 1) + 1 = i /\ (j - 1) + 1 = j
      BY <1>1, <1>4, <2>2, <3>1
    <3>3. done'[i - 1] = u /\ done'[j - 1] = v /\ i - 1 \in DOMAIN done' /\ j - 1 \in DOMAIN done'
      BY <1>1, <1>4, <3>1, <3>2
    <3>4. QED
      BY <3>2, <3>3 DEF Before
  <2>3. QED
    BY <1>1, <2>1, <2>2
<1>5. CASE urbs[u].at \in {"done", "reaped"} /\ urbs[v].at = "kernel"
  BY ReapMoves, <1>5 DEF Before
<1>6. QED
  BY <1>2, <1>3, <1>4, <1>5 DEF Before

LEMMA ServedReap ==
  ASSUME TypeOK, TypeOK', RequestInv, ServedInv, Reap
  PROVE  ServedInv'
<1>1. /\ UNCHANGED <<plugged, kind, sent, transferred, buffer, action>>
      /\ Requests' = Requests /\ NumUrbs' = NumUrbs
      /\ \A v \in Requests : /\ urbs'[v].len = urbs[v].len
                             /\ urbs'[v].size = urbs[v].size
                             /\ urbs'[v].start = urbs[v].start
                             /\ urbs'[v].st = urbs[v].st
      /\ Handled' = Handled /\ Handled \in SUBSET Requests
  BY ReapMoves
<1>2. BytesInv'
  BY <1>1, BytesKept DEF ServedInv
<1>3. StopInv' /\ FullInv'
  BY <1>1 DEF ServedInv, StopInv, FullInv, Data
<1>4. PrecedeInv'
  BY <1>1, BeforeReap DEF ServedInv, PrecedeInv
<1>5. QED
  BY <1>2, <1>3, <1>4 DEF ServedInv

\* What the submission of a request changes.
LEMMA SubmitMoves ==
  ASSUME TypeOK, RequestInv, SubmitUrb
  PROVE  /\ UNCHANGED <<plugged, kind, sent, transferred, buffer, action, done, reaped>>
         /\ lock = "submit" /\ next \in Requests
         /\ Requests' = Requests /\ NumUrbs' = NumUrbs
         /\ \A v \in Requests : /\ urbs'[v].len = urbs[v].len
                                /\ urbs'[v].size = urbs[v].size
                                /\ urbs'[v].start = urbs[v].start
                                /\ urbs'[v].st = urbs[v].st
                                /\ urbs'[v].at = IF v = next THEN "kernel" ELSE urbs[v].at
         /\ \A v \in Requests : v >= next => urbs[v].at = "none" /\ urbs[v].len = 0
         /\ Handled' = Handled /\ Handled \in SUBSET Requests
<1>1. /\ Advance({next}, "kernel") /\ urbs'[next].st = urbs[next].st
      /\ UNCHANGED <<plugged, kind, sent, transferred, buffer, action, done, reaped>>
      /\ lock = "submit" /\ next \in Requests
  BY SubmitUrbDoes, RequestsType DEF SubmitUrb, kernel, request, private, device
<1>2. /\ Requests' = Requests /\ NumUrbs' = NumUrbs
      /\ \A v \in Requests : /\ urbs'[v].len = urbs[v].len
                             /\ urbs'[v].size = urbs[v].size
                             /\ urbs'[v].start = urbs[v].start
                             /\ urbs'[v].st = urbs[v].st
                             /\ urbs'[v].at = IF v = next THEN "kernel" ELSE urbs[v].at
  BY <1>1, AdvanceDoes DEF Places
<1>3. /\ Requests = 1..NumUrbs /\ NumUrbs \in Nat
      /\ \A v \in Requests : v >= next => urbs[v].at = "none" /\ urbs[v].len = 0
  BY <1>1, RequestsType DEF RequestInv, SubmitInv, LayoutInv
<1>4. Handled' = Handled /\ Handled \in SUBSET Requests
  <2>1. \A v \in Requests : urbs'[v].at = "reaped" <=> urbs[v].at = "reaped"
    BY <1>1, <1>2, <1>3
  <2>2. At("reaped")' = At("reaped")
    BY <1>2, <2>1 DEF At
  <2>3. QED
    BY <1>1, <2>2 DEF Handled, At
<1>5. QED
  BY <1>1, <1>2, <1>3, <1>4

LEMMA ServedSubmit ==
  ASSUME TypeOK, RequestInv, ServedInv, SubmitUrb
  PROVE  ServedInv'
<1>1. /\ UNCHANGED <<plugged, kind, sent, transferred, buffer, action, done, reaped>>
      /\ next \in Requests /\ Requests' = Requests /\ NumUrbs' = NumUrbs
      /\ \A v \in Requests : /\ urbs'[v].len = urbs[v].len
                             /\ urbs'[v].size = urbs[v].size
                             /\ urbs'[v].start = urbs[v].start
                             /\ urbs'[v].st = urbs[v].st
                             /\ v # next => urbs'[v].at = urbs[v].at
      /\ Handled' = Handled
  BY SubmitMoves
<1>2. \A v \in Requests : v >= next => urbs[v].len = 0
  BY SubmitMoves
<1>3. BytesInv'
  BY <1>1, BytesKept DEF ServedInv
<1>4. StopInv' /\ FullInv'
  <2>1. Handled \in SUBSET Requests
    BY SubmitMoves
  <2>2. QED
    BY <1>1, <2>1 DEF ServedInv, StopInv, FullInv, Data
<1>5. PrecedeInv'
  <2> SUFFICES ASSUME NEW u \in Requests, NEW v \in Requests, u < v, urbs'[v].len > 0
               PROVE  Before(u, v)'
    BY <1>1 DEF PrecedeInv
  <2>1. Before(u, v)
    BY <1>1 DEF ServedInv, PrecedeInv
  <2>2. u # next /\ v # next
    <3>1. urbs[v].len > 0
      BY <1>1
    <3>2. ~ (v >= next)
      BY <1>2, <3>1
    <3>3. QED
      BY RequestsType, <1>1, <3>2
  <2>3. urbs'[u].at = urbs[u].at /\ urbs'[v].at = urbs[v].at
    BY <1>1, <2>2
  <2>4. QED
    BY <1>1, <2>1, <2>3 DEF Before
<1>6. QED
  BY <1>3, <1>4, <1>5 DEF ServedInv

LEMMA ServedBegin ==
  ASSUME TypeOK, PhaseInv, NEW k \in Kinds, NEW sp \in Splits, NEW n \in 0..MaxLength,
         SubmitBegin(k, sp, n)
  PROVE  ServedInv'
<1>1. /\ Untouched(urbs') /\ urbs' \in Seq(Urb) /\ Len(urbs') \in Nat \ {0}
      /\ Requests' = 1..Len(urbs')
  BY SubmitBeginDoes
<1>2. \A u \in Requests' : urbs'[u].at = "none" /\ urbs'[u].st = "ok" /\ urbs'[u].len = 0
  BY <1>1 DEF Untouched
<1>3. Handled' = {}
  BY <1>2 DEF Handled, At
<1>4. PrecedeInv' /\ StopInv' /\ FullInv'
  BY <1>2, <1>3 DEF PrecedeInv, StopInv, FullInv
<1>5. BytesInv'
  <2> DEFINE N == Len(urbs')
             f == [m \in 0..N |-> 0]
  <2>1. N \in Nat /\ NumUrbs' = N /\ sent' = 0 /\ transferred' = 0
    BY <1>1 DEF NumUrbs, SubmitBegin
  <2>2. \A u \in 1..N : urbs'[u].len = 0
    BY <1>1, <1>2
  <2>3. f \in [0..N -> Nat] /\ f[0] = 0 /\ f[N] = 0 /\ \A u \in 1..N : f[u] = 0 /\ f[u - 1] = 0
    BY <2>1
  <2> HIDE DEF f
  <2>4. Adds(urbs', f)
    BY <2>2, <2>3 DEF Adds
  <2>5. Counted(urbs', f, Handled', transferred', 0)
    BY <2>1, <2>2, <2>3, <1>3 DEF Counted
  <2>6. Placed(urbs', f, Handled', transferred', buffer')
    BY <2>1, <2>2 DEF Placed
  <2>7. 0 \in 0..NumUrbs' /\ f \in [0..NumUrbs' -> Nat] /\ f[NumUrbs'] = sent'
    BY <2>1, <2>3
  <2>8. QED
    BY <2>4, <2>5, <2>6, <2>7 DEF BytesInv
<1>6. QED
  BY <1>4, <1>5 DEF ServedInv

\* What Adds gives for the requests of the transfer.
LEMMA SumsAre ==
  ASSUME TypeOK, RequestInv, NumUrbs > 0, NEW f, Adds(urbs, f)
  PROVE  /\ Requests = 1..NumUrbs /\ NumUrbs = Len(urbs) /\ NumUrbs \in Nat /\ urbs \in Seq(Urb)
         /\ \A u \in 0..NumUrbs : f[u] \in Nat
         /\ \A u \in 1..NumUrbs :
              /\ urbs[u].len \in Nat /\ urbs[u].size \in Nat /\ urbs[u].start \in Nat
              /\ urbs[u].len <= urbs[u].size
              /\ f[u] = f[u - 1] + urbs[u].len /\ f[u - 1] <= urbs[u].start
              /\ urbs[u].start + urbs[u].size <= length
         /\ \A u, v \in 1..NumUrbs : u < v => urbs[u].start + urbs[u].size <= urbs[v].start
         /\ \A k, m \in 0..NumUrbs : k <= m =>
              /\ f[k] <= f[m]
              /\ (\A w \in 1..NumUrbs : k < w /\ w <= m => urbs[w].len = 0) => f[m] = f[k]
<1>1. /\ Requests = 1..NumUrbs /\ NumUrbs = Len(urbs) /\ NumUrbs \in Nat /\ urbs \in Seq(Urb)
      /\ \A u \in 1..NumUrbs : urbs[u] \in Urb
  BY RequestsType DEF TypeOK, NumUrbs
<1>2. Covers(urbs, length) /\ length \in Nat /\ \A u \in 1..NumUrbs : urbs[u].len <= urbs[u].size
  <2>1. length \in Nat
    BY DEF TypeOK
  <2>2. QED
    BY <1>1, <2>1 DEF RequestInv, LayoutInv
<1>3. \A u \in 1..NumUrbs : f[u - 1] <= urbs[u].start
  BY <1>1, <1>2, AddsBound
<1>4. \A u \in 1..NumUrbs : urbs[u].len \in Nat /\ urbs[u].size \in Nat /\ urbs[u].start \in Nat
  BY <1>1 DEF Urb
<1>5. /\ \A u \in 0..NumUrbs : f[u] \in Nat
      /\ \A u \in 1..NumUrbs : f[u] = f[u - 1] + urbs[u].len
  BY <1>1 DEF Adds
<1>6. /\ \A u \in 1..NumUrbs : urbs[u].start + urbs[u].size <= length
      /\ \A u, v \in 1..NumUrbs : u < v => urbs[u].start + urbs[u].size <= urbs[v].start
  BY <1>1, <1>2 DEF Covers
<1>7. \A k, m \in 0..NumUrbs : k <= m =>
        /\ f[k] <= f[m]
        /\ (\A w \in 1..NumUrbs : k < w /\ w <= m => urbs[w].len = 0) => f[m] = f[k]
  <2> TAKE k, m \in 0..NumUrbs
  <2> HAVE k <= m
  <2>1. k \in 0..Len(urbs) /\ m \in 0..Len(urbs) /\ urbs \in Seq(Urb) /\ Len(urbs) = NumUrbs
    BY <1>1
  <2>2. /\ f[k] <= f[m]
        /\ (\A w \in 1..Len(urbs) : k < w /\ w <= m => urbs[w].len = 0) => f[m] = f[k]
    BY <2>1, AddsGrow
  <2>3. QED
    BY <2>1, <2>2
<1>8. QED
  BY <1>1, <1>2, <1>3, <1>4, <1>5, <1>6, <1>7

LEMMA BytesDeliver ==
  ASSUME TypeOK, RequestInv, ServedInv, Deliver
  PROVE  BytesInv'
<1> SUFFICES ASSUME Data', NumUrbs' > 0
             PROVE  \E f \in [0..NumUrbs' -> Nat], k \in 0..NumUrbs' :
                       /\ Adds(urbs', f) /\ f[NumUrbs'] = sent'
                       /\ Counted(urbs', f, Handled', transferred', k)
                       /\ Placed(urbs', f, Handled', transferred', buffer')
  BY DEF BytesInv
<1>1. PICK c : c = Current
  OBVIOUS
<1>2. /\ urbs' \in Seq(Urb) /\ NumUrbs' = NumUrbs /\ Requests' = Requests
      /\ \A v \in Requests : /\ v # c => urbs'[v] = urbs[v]
                             /\ urbs'[v].at = urbs[v].at
                             /\ urbs'[v].start = urbs[v].start
      /\ urbs'[c].len = urbs[c].len + 1 /\ urbs[c].len < urbs[c].size
      /\ c \in Requests /\ c \in Pending /\ urbs[c].at = "kernel"
  <2>1. c \in Requests /\ c \in Pending /\ urbs[c].at = "kernel"
    BY <1>1, DeliverDoes, CurrentIs, RequestsType DEF At
  <2>2. QED
    BY <1>1, <2>1, DeliverDoes
<1>3. /\ sent' = sent + 1
      /\ buffer' = [buffer EXCEPT ![urbs[c].start + urbs[c].len + 1] = sent + 1]
      /\ UNCHANGED <<kind, transferred, reaped>>
  BY <1>1 DEF Deliver, request, private
<1>4. Handled' = Handled /\ c \notin Handled
  <2>1. At("reaped")' = At("reaped") /\ c \notin At("reaped")
    BY <1>2 DEF At
  <2>2. QED
    BY <1>3, <2>1 DEF Handled
<1>5. PICK f \in [0..NumUrbs -> Nat], k \in 0..NumUrbs :
         /\ Adds(urbs, f) /\ f[NumUrbs] = sent
         /\ Counted(urbs, f, Handled, transferred, k)
         /\ Placed(urbs, f, Handled, transferred, buffer)
  BY <1>2, <1>3 DEF BytesInv, Data, ServedInv
<1> DEFINE N == NumUrbs
           l == urbs[c].len
           a == urbs[c].start
           g == [m \in 0..N |-> IF m >= c THEN f[m] + 1 ELSE f[m]]
           h == IF k < c THEN k ELSE c - 1
<1>6. /\ Requests = 1..N /\ N = Len(urbs) /\ N \in Nat /\ N > 0 /\ urbs \in Seq(Urb)
      /\ \A u \in 0..N : f[u] \in Nat
      /\ \A u \in 1..N : /\ urbs[u].len \in Nat /\ urbs[u].size \in Nat /\ urbs[u].start \in Nat
                         /\ urbs[u].len <= urbs[u].size
                         /\ f[u] = f[u - 1] + urbs[u].len /\ f[u - 1] <= urbs[u].start
                         /\ urbs[u].start + urbs[u].size <= length
      /\ \A u, v \in 1..N : u < v => urbs[u].start + urbs[u].size <= urbs[v].start
      /\ \A i, m \in 0..N : i <= m =>
           /\ f[i] <= f[m]
           /\ (\A w \in 1..N : i < w /\ w <= m => urbs[w].len = 0) => f[m] = f[i]
  <2>1. N > 0
    BY <1>2
  <2>2. QED
    BY <1>5, <2>1, SumsAre
<1>7. /\ c \in 1..N /\ c \in 0..N /\ c - 1 \in 0..N /\ N \in 0..N /\ c <= N
      /\ l \in Nat /\ a \in Nat /\ f[c - 1] \in Nat /\ f[c] = f[c - 1] + l /\ f[c - 1] <= a
      /\ l < urbs[c].size /\ urbs[c].size \in Nat /\ a + urbs[c].size <= length
  <2>1. c \in 1..N
    BY <1>2, <1>6
  <2>2. c \in 0..N /\ c - 1 \in 0..N /\ N \in 0..N /\ c <= N
    BY <1>6, <2>1
  <2>3. QED
    BY <1>2, <1>6, <2>1, <2>2
<1>8. \A v \in 1..N : c < v => urbs[v].len = 0
  BY <1>2, <1>6, NothingLater DEF RequestInv, ServedInv
<1>9. f[c] = sent
  <2>1. f[N] = f[c]
    BY <1>6, <1>7, <1>8
  <2>2. QED
    BY <1>5, <2>1
<1>10. /\ h \in 0..N /\ h < c /\ transferred = f[h] /\ transferred <= a /\ g[h] = f[h]
       /\ \A u \in 1..N : u <= h => u <= k
       /\ \A u \in 1..N : u > h => u > k \/ u >= c
  <2>1. transferred = f[k] /\ (c <= k => c \in Handled \/ l = 0)
    BY <1>5, <1>6, <1>7 DEF Counted
  <2>2. CASE k < c
    <3>1. k <= c - 1 /\ h = k
      BY <1>6, <1>7, <2>2
    <3>2. f[k] <= f[c - 1]
      BY <1>6, <1>7, <3>1
    <3>3. g[k] = f[k] /\ f[k] \in Nat
      BY <1>6, <2>2, <1>7
    <3>4. transferred <= a
      BY <1>7, <2>1, <3>2, <3>3
    <3>5. QED
      BY <2>1, <2>2, <3>1, <3>3, <3>4
  <2>3. CASE ~ (k < c)
    <3>1. l = 0 /\ c <= k /\ h = c - 1
      BY <1>4, <1>6, <1>7, <2>1, <2>3
    <3>2. f[k] = f[c]
      <4>1. \A w \in 1..N : c < w /\ w <= k => urbs[w].len = 0
        BY <1>8
      <4>2. QED
        BY <1>6, <1>7, <3>1, <4>1
    <3>3. f[c] = f[c - 1]
      BY <1>7, <3>1
    <3>4. h < c /\ c - 1 < c
      BY <1>7, <3>1
    <3>5. g[h] = f[h]
      BY <1>7, <3>1, <3>4
    <3>6. \A u \in 1..N : u <= h => u <= k
      BY <1>6, <1>7, <3>1
    <3>7. \A u \in 1..N : u > h => u >= c
      BY <1>6, <1>7, <3>1
    <3>8. QED
      BY <1>7, <2>1, <3>1, <3>2, <3>3, <3>4, <3>5, <3>6, <3>7
  <2>4. QED
    BY <2>2, <2>3
<1>11. /\ g \in [0..N -> Nat] /\ g[N] = sent'
       /\ \A m \in 0..N : m < c => g[m] = f[m]
  <2>1. g[N] = f[N] + 1
    BY <1>6, <1>7
  <2>2. \A m \in 0..N : m < c => g[m] = f[m]
    BY <1>6, <1>7
  <2>3. QED
    BY <1>3, <1>5, <1>6, <2>1, <2>2
<1>12. /\ Len(urbs') = N
       /\ \A v \in 1..N : /\ v # c => urbs'[v].len = urbs[v].len
                          /\ urbs'[v].start = urbs[v].start
       /\ urbs'[c].len = l + 1
  BY <1>2, <1>6 DEF NumUrbs
<1>13. Adds(urbs', g)
  <2>1. /\ urbs' \in Seq(Urb) /\ urbs \in Seq(Urb) /\ Len(urbs') = Len(urbs) /\ c \in 1..Len(urbs)
        /\ urbs'[c].len = urbs[c].len + 1 /\ Adds(urbs, f)
        /\ \A u \in 1..Len(urbs) : u # c => urbs'[u].len = urbs[u].len
    BY <1>2, <1>5, <1>6, <1>7, <1>12
  <2>2. Adds(urbs', [m \in 0..Len(urbs) |-> IF m >= c THEN f[m] + 1 ELSE f[m]])
    BY <2>1, AddsOne
  <2>3. QED
    BY <1>6, <2>2
<1> HIDE DEF g, h, N, l, a
<1>14. Counted(urbs', g, Handled, transferred, h)
  <2>1. /\ \A u \in 1..N : u <= k => u \in Handled \/ urbs[u].len = 0
        /\ \A u \in 1..N : u > k /\ u \in Handled => urbs[u].len = 0
    BY <1>5, <1>6 DEF Counted
  <2>2. ASSUME NEW u \in 1..N, u <= h
        PROVE  u \in Handled \/ urbs'[u].len = 0
    <3>1. u <= k /\ u # c
      BY <2>2, <1>7, <1>10
    <3>2. QED
      BY <2>1, <3>1, <1>12
  <2>3. ASSUME NEW u \in 1..N, u > h, u \in Handled
        PROVE  urbs'[u].len = 0
    <3>1. u # c
      BY <1>4, <2>3
    <3>2. u > k \/ u > c
      BY <1>6, <1>7, <1>10, <2>3, <3>1
    <3>3. urbs[u].len = 0
      BY <2>1, <2>3, <3>2, <1>8
    <3>4. QED
      BY <1>12, <3>1, <3>3
  <2>4. QED
    BY <1>10, <1>12, <2>2, <2>3 DEF Counted
<1>15. Placed(urbs', g, Handled, transferred, buffer')
  <2> DEFINE p == a + l + 1
  <2>1. /\ \A u \in 1..N : u \notin Handled =>
              \A i \in 1..urbs[u].len : buffer[urbs[u].start + i] = f[u - 1] + i
        /\ \A i \in 1..transferred : buffer[i] = i
    BY <1>5, <1>6 DEF Placed
  <2>2. /\ \A i \in 1..length : i # p => buffer'[i] = buffer[i]
        /\ buffer'[p] = sent + 1 /\ length \in Nat /\ p \in 1..length
    <3>1. buffer \in [1..length -> Nat] /\ length \in Nat
      BY DEF TypeOK
    <3>2. p \in 1..length
      BY <1>7, <3>1
    <3>3. buffer' = [buffer EXCEPT ![p] = sent + 1]
      BY <1>3 DEF a, l
    <3>4. QED
      BY <3>1, <3>2, <3>3
  <2>0. /\ a \in Nat /\ l \in Nat /\ length \in Nat /\ p = a + l + 1
        /\ p <= length
    BY <1>7, <2>2
  <2> HIDE DEF p
  <2>3. ASSUME NEW i \in 1..transferred
        PROVE  buffer'[i] = i
    <3>1. PICK t \in Nat : t = transferred
      BY <1>6, <1>10
    <3>2. i \in 1..t /\ t <= a
      BY <1>10, <2>3, <3>1
    <3>3. i \in 1..length /\ i # p
      BY <2>0, <3>2
    <3>4. QED
      BY <2>1, <2>2, <3>3
  <2>4. ASSUME NEW u \in 1..N, u \notin Handled, NEW i \in 1..urbs'[u].len
        PROVE  buffer'[urbs'[u].start + i] = g[u - 1] + i
    <3>0. u \in Nat /\ u > 0 /\ u <= N /\ N \in Nat /\ c \in Nat
      BY <1>6, <1>7
    <3>1. CASE u < c
      <4>0. u - 1 \in 0..N /\ u - 1 < c /\ u # c
        BY <3>0, <3>1
      <4>1. i \in 1..urbs[u].len /\ urbs'[u].start = urbs[u].start
        BY <1>12, <2>4, <4>0
      <4>2. /\ urbs[u].start + urbs[u].size <= a
            /\ urbs[u].start \in Nat /\ urbs[u].size \in Nat /\ urbs[u].len \in Nat
            /\ urbs[u].len <= urbs[u].size
        BY <1>6, <1>7, <3>1 DEF a
      <4>3. urbs[u].start + i \in 1..length /\ urbs[u].start + i # p
        <5>1. \A x, y, z \in Nat : (x + z <= a /\ y <= z /\ i \in 1..y) =>
                x + i \in 1..length /\ x + i # p
          BY <2>0
        <5>2. QED
          BY <4>1, <4>2, <5>1
      <4>4. buffer'[urbs[u].start + i] = f[u - 1] + i
        BY <2>1, <2>2, <2>4, <4>1, <4>3, Zenon
      <4>5. QED
        BY <1>11, <4>0, <4>1, <4>4
    <3>2. CASE u > c
      <4>0. c < u /\ u # c
        BY <3>0, <3>2
      <4>1. urbs'[u].len = 0
        BY <1>8, <1>12, <4>0
      <4>2. QED
        BY <2>4, <4>1
    <3>3. CASE u = c
      <4>1. urbs'[u].start = a /\ g[u - 1] = f[c - 1] /\ i \in 1..l + 1
        BY <1>6, <1>7, <1>11, <1>12, <2>4, <3>3 DEF a
      <4>2. CASE i = l + 1
        <5>0. PICK n \in Nat : n = f[c - 1] /\ sent = n + l
          BY <1>7, <1>9
        <5>1. a + i = p /\ sent + 1 = f[c - 1] + i
          BY <2>0, <4>2, <5>0
        <5>2. QED
          BY <2>2, <4>1, <5>1
      <4>3. CASE i # l + 1
        <5>1. i \in 1..l /\ a + i \in 1..length /\ a + i # p
          BY <2>0, <4>1, <4>3
        <5>2. buffer[a + i] = f[c - 1] + i
          BY <1>4, <1>7, <2>1, <5>1 DEF a, l
        <5>3. QED
          BY <2>2, <4>1, <5>1, <5>2
      <4>4. QED
        BY <4>2, <4>3
    <3>4. QED
      BY <1>6, <1>7, <3>1, <3>2, <3>3
  <2>5. QED
    BY <1>12, <2>3, <2>4 DEF Placed
<1>16. QED
  BY <1>3, <1>4, <1>10, <1>11, <1>13, <1>14, <1>15, <1>2 DEF N

LEMMA ServedDeliver ==
  ASSUME TypeOK, RequestInv, ServedInv, Deliver
  PROVE  ServedInv'
<1>1. PICK c : c = Current
  OBVIOUS
<1>2. /\ NumUrbs' = NumUrbs /\ Requests' = Requests
      /\ \A v \in Requests : /\ v # c => urbs'[v] = urbs[v]
                             /\ urbs'[v].at = urbs[v].at
                             /\ urbs'[v].st = urbs[v].st
      /\ c \in Requests /\ c \in Pending /\ urbs[c].at = "kernel" /\ \A v \in Pending : c <= v
  <2>1. c \in Requests /\ c \in Pending /\ urbs[c].at = "kernel" /\ \A v \in Pending : c <= v
    BY <1>1, DeliverDoes, CurrentIs, RequestsType DEF At
  <2>2. QED
    BY <1>1, <2>1, DeliverDoes
<1>3. UNCHANGED <<kind, plugged, action, done, reaped>> /\ plugged /\ ~ Stalled
  BY DEF Deliver, kernel, request, private
<1>4. Handled' = Handled /\ c \notin Handled /\ Handled \in SUBSET Requests
  <2>1. At("reaped")' = At("reaped") /\ c \notin At("reaped")
    BY <1>2 DEF At
  <2>2. QED
    BY <1>3, <2>1 DEF Handled, At
<1>5. \A u \in Requests : urbs[u].st \notin {"stall", "shutdown"}
  <2>1. \A u \in Requests : urbs[u].st # "stall"
    BY <1>3 DEF Stalled, Requests
  <2>2. \A u \in Requests : urbs[u].st # "shutdown"
    BY <1>3 DEF ServedInv, StopInv
  <2>3. QED
    BY <2>1, <2>2
<1>6. StopInv'
  BY <1>2, <1>5 DEF StopInv
<1>7. FullInv'
  <2>1. \A u \in Handled : u \in Requests /\ urbs'[u] = urbs[u]
    BY <1>2, <1>4
  <2>2. QED
    BY <1>3, <1>4, <2>1 DEF ServedInv, FullInv, Data
<1>8. PrecedeInv'
  <2> SUFFICES ASSUME NEW u \in Requests, NEW v \in Requests, u < v, urbs'[v].len > 0
               PROVE  Before(u, v)'
    BY <1>2 DEF PrecedeInv
  <2>1. CASE v = c
    <3>1. u \notin Pending
      <4>1. u \in Nat /\ c \in Nat
        BY <1>2, RequestsType
      <4>2. ~ (c <= u)
        BY <2>1, <4>1
      <4>3. QED
        BY <1>2, <4>2
    <3>2. urbs[u].at # "none"
      BY <1>2, <2>1 DEF RequestInv, SubmitInv
    <3>3. urbs[u].at \in {"done", "reaped"}
      BY <3>1, <3>2, RequestsType DEF Urb, Places, Pending, Requests
    <3>4. QED
      BY <1>2, <2>1, <3>3 DEF Before
  <2>2. CASE v # c
    <3>1. Before(u, v)
      BY <1>2, <2>2 DEF ServedInv, PrecedeInv
    <3>2. QED
      BY <1>2, <1>3, <1>4, <3>1 DEF Before
  <2>3. QED
    BY <2>1, <2>2
<1>9. QED
  BY <1>6, <1>7, <1>8, BytesDeliver DEF ServedInv

-----------------------------------------------------------------------------
(* Handling a request.                                                     *)

\* What handling a request of a bulk or interrupt transfer changes.
LEMMA HandleBulkDoes ==
  ASSUME TypeOK, RequestInv, HandleUrb, Data
  PROVE  /\ reaped \in Requests /\ urbs[reaped].at = "reaped" /\ reaped \notin Handled
         /\ transferred' = transferred + urbs[reaped].len
         /\ \/ action # "NORMAL" /\ action' = action /\ buffer' = Moved(reaped, transferred)
            \/ /\ action = "NORMAL" /\ buffer' = buffer
               /\ (urbs' = urbs /\ action' = "NORMAL") =>
                     \/ urbs[reaped].len = urbs[reaped].size
                     \/ urbs[reaped].st \in {"stall", "shutdown"}
         /\ UNCHANGED <<plugged, reapAfter, kind, phase, status, sent, done>> /\ reaped' = 0
<1>1. /\ reaped \in Requests /\ urbs[reaped].at = "reaped" /\ reaped \notin Handled
  BY HandleUrbDoes DEF RequestInv, At, Handled
<1>2. HandleBulk(reaped) /\ reaped' = 0
  BY DEF HandleUrb, HandleIso, HandleControl, Data
<1>3. UNCHANGED <<plugged, reapAfter, kind, phase, status, sent, done>>
  BY DEF HandleUrb, kernel, request
<1>4. transferred' = transferred + urbs[reaped].len
  BY <1>2 DEF HandleBulk
<1>5. CASE BulkAbnormal(reaped)
  <2>1. action # "NORMAL" /\ action' = action /\ buffer' = Moved(reaped, transferred)
    BY <1>5 DEF BulkAbnormal
  <2>2. QED
    BY <1>1, <1>2, <1>3, <1>4, <2>1
<1>6. CASE BulkNormal(reaped)
  <2> DEFINE st == urbs[reaped].st
  <2>1. action = "NORMAL" /\ buffer' = buffer
    BY <1>6 DEF BulkNormal
  <2>2. ASSUME urbs' = urbs, action' = "NORMAL"
        PROVE  urbs[reaped].len = urbs[reaped].size \/ st \in {"stall", "shutdown"}
    <3>1. urbs # <<>>
      BY <1>1, EmptyIff, RequestsType DEF Requests, NumUrbs, TypeOK
    <3>2. ~ Completed
      BY <2>2, <3>1 DEF Completed
    <3>3. ~ (AllRetired \/ st = "overflow")
      BY <1>6, <3>2 DEF BulkNormal
    <3>4. st # "error"
      BY <1>6, <2>2 DEF BulkNormal
    <3>5. st \in {"stall", "shutdown"} \/ ~ (urbs[reaped].len < urbs[reaped].size)
      BY <1>6, <2>2, <3>3, <3>4 DEF BulkNormal
    <3>6. /\ urbs[reaped].len <= urbs[reaped].size
          /\ urbs[reaped].len \in Nat /\ urbs[reaped].size \in Nat
      BY <1>1, RequestsType DEF RequestInv, LayoutInv, Urb
    <3>7. QED
      BY <3>5, <3>6
  <2>3. QED
    BY <1>1, <1>2, <1>3, <1>4, <2>1, <2>2
<1>7. QED
  BY <1>2, <1>5, <1>6 DEF HandleBulk

\* A request that brings data is handled after all the earlier ones.
LEMMA EarlierHandled ==
  ASSUME TypeOK, RequestInv, ServedInv, reaped \in Requests, urbs[reaped].at = "reaped",
         urbs[reaped].len > 0, NEW w \in Requests, w < reaped
  PROVE  w \in Handled
<1>1. Before(w, reaped)
  BY DEF ServedInv, PrecedeInv
<1>2. \A i \in DOMAIN done : done[i] # reaped
  <2>1. \A i \in DOMAIN done : done[i] \in At("done")
    BY DEF RequestInv, ReapInv, Lists
  <2>2. QED
    BY <2>1 DEF At
<1>3. w # reaped
  BY RequestsType
<1>4. QED
  BY <1>1, <1>2, <1>3 DEF Before

LEMMA BytesHandled ==
  ASSUME TypeOK, RequestInv, ServedInv, HandleUrb, Data
  PROVE  \E f \in [0..NumUrbs -> Nat], k \in 0..NumUrbs :
            /\ Adds(urbs, f) /\ f[NumUrbs] = sent
            /\ Counted(urbs, f, Handled \cup {reaped}, transferred', k)
            /\ Placed(urbs, f, Handled \cup {reaped}, transferred', buffer')
<1>1. PICK u : u = reaped
  OBVIOUS
<1>2. /\ u \in Requests /\ urbs[u].at = "reaped" /\ u \notin Handled
      /\ transferred' = transferred + urbs[u].len
      /\ \/ action # "NORMAL" /\ buffer' = Moved(u, transferred)
         \/ action = "NORMAL" /\ buffer' = buffer
  BY <1>1, HandleBulkDoes
<1>3. NumUrbs > 0
  BY <1>2, RequestsType
<1>4. PICK f \in [0..NumUrbs -> Nat], k \in 0..NumUrbs :
         /\ Adds(urbs, f) /\ f[NumUrbs] = sent
         /\ Counted(urbs, f, Handled, transferred, k)
         /\ Placed(urbs, f, Handled, transferred, buffer)
  BY <1>3 DEF BytesInv, ServedInv
<1> DEFINE N == NumUrbs
           z == urbs[u].len
           a == urbs[u].start
           H == Handled \cup {u}
<1>5. /\ Requests = 1..N /\ N = Len(urbs) /\ N \in Nat /\ urbs \in Seq(Urb)
      /\ \A v \in 0..N : f[v] \in Nat
      /\ \A v \in 1..N : /\ urbs[v].len \in Nat /\ urbs[v].size \in Nat /\ urbs[v].start \in Nat
                         /\ urbs[v].len <= urbs[v].size
                         /\ f[v] = f[v - 1] + urbs[v].len /\ f[v - 1] <= urbs[v].start
                         /\ urbs[v].start + urbs[v].size <= length
      /\ \A v, w \in 1..N : v < w => urbs[v].start + urbs[v].size <= urbs[w].start
      /\ \A i, m \in 0..N : i <= m =>
           /\ f[i] <= f[m]
           /\ (\A w \in 1..N : i < w /\ w <= m => urbs[w].len = 0) => f[m] = f[i]
  BY <1>3, <1>4, SumsAre
<1>6. /\ u \in 1..N /\ u \in 0..N /\ u - 1 \in 0..N /\ u \in Nat /\ k \in Nat
      /\ z \in Nat /\ a \in Nat /\ f[u - 1] \in Nat /\ f[u] = f[u - 1] + z /\ f[u - 1] <= a
      /\ z <= urbs[u].size /\ urbs[u].size \in Nat /\ a + urbs[u].size <= length
      /\ transferred \in Nat
  <2>1. u \in 1..N
    BY <1>2, <1>5
  <2>2. u \in 0..N /\ u - 1 \in 0..N /\ u \in Nat /\ k \in Nat
    BY <1>5, <2>1
  <2>3. transferred \in Nat
    BY DEF TypeOK
  <2>4. QED
    BY <1>5, <2>1, <2>2, <2>3
<1>7. /\ transferred = f[k] /\ k \in 0..N
      /\ \A v \in 1..N : v <= k => v \in Handled \/ urbs[v].len = 0
      /\ \A v \in 1..N : v > k /\ v \in Handled => urbs[v].len = 0
      /\ \A v \in 1..N : v \notin Handled =>
            \A i \in 1..urbs[v].len : buffer[urbs[v].start + i] = f[v - 1] + i
      /\ \A i \in 1..transferred : buffer[i] = i
  BY <1>4, <1>5 DEF Counted, Placed
<1>8. buffer \in [1..length -> Nat] /\ length \in Nat
  BY DEF TypeOK
<1>9. transferred' = transferred + z
  BY <1>2
<1>10. Moved(u, transferred) =
         [i \in 1..length |-> IF i \in transferred + 1..transferred + z
                              THEN buffer[a + i - transferred] ELSE buffer[i]]
  BY <1>8 DEF Moved
<1> HIDE DEF N, z, a, H
<1>11. CASE z = 0
  <2>1. transferred' = transferred
    BY <1>6, <1>9, <1>11
  <2>2. buffer' = buffer
    <3>1. \A i : i \notin transferred + 1..transferred + z
      BY <1>6, <1>11
    <3>2. Moved(u, transferred) = [i \in 1..length |-> buffer[i]]
      BY <1>10, <3>1
    <3>3. QED
      BY <1>2, <1>8, <3>2
  <2>3. Counted(urbs, f, H, transferred, k)
    BY <1>5, <1>7, <1>11 DEF Counted, H, z
  <2>4. Placed(urbs, f, H, transferred, buffer)
    BY <1>5, <1>7 DEF Placed, H
  <2>5. QED
    BY <1>1, <1>4, <2>1, <2>2, <2>3, <2>4 DEF H
<1>12. CASE z > 0
  <2>1. \A w \in 1..N : w < u => w \in Handled
    BY <1>1, <1>2, <1>5, <1>12, EarlierHandled DEF z
  <2>2. u > k
    <3>1. ~ (u <= k)
      BY <1>2, <1>6, <1>7, <1>12 DEF z
    <3>2. QED
      BY <1>6, <3>1
  <2>3. transferred = f[u - 1]
    <3>1. k <= u - 1
      BY <1>6, <2>2
    <3>2. \A w \in 1..N : k < w /\ w <= u - 1 => urbs[w].len = 0
      <4>1. \A w \in 1..N : w <= u - 1 => w < u
        BY <1>5, <1>6
      <4>2. \A w \in 1..N : k < w => w > k
        BY <1>5, <1>6
      <4>3. QED
        BY <1>7, <2>1, <4>1, <4>2
    <3>3. QED
      BY <1>5, <1>6, <1>7, <3>1, <3>2
  <2>4. Counted(urbs, f, H, transferred', u)
    <3>1. transferred' = f[u]
      BY <1>6, <1>9, <2>3
    <3>2. \A v \in 1..N : v <= u => v \in H
      <4>1. \A v \in 1..N : v <= u => v < u \/ v = u
        BY <1>5, <1>6
      <4>2. QED
        BY <2>1, <4>1 DEF H
    <3>3. ASSUME NEW v \in 1..N, v > u, v \in H
          PROVE  urbs[v].len = 0
      <4>1. v > k /\ v # u
        BY <1>5, <1>6, <2>2, <3>3
      <4>2. QED
        BY <1>7, <3>3, <4>1 DEF H
    <3>4. QED
      BY <1>5, <1>6, <3>1, <3>2, <3>3 DEF Counted
  <2>5. \A v \in 1..N : v \notin H =>
          /\ v \notin Handled /\ v > u
          /\ \A i \in 1..urbs[v].len : /\ urbs[v].start + i > transferred + z
                                       /\ urbs[v].start + i \in 1..length
    <3> TAKE v \in 1..N
    <3> HAVE v \notin H
    <3>1. v \notin Handled /\ v # u /\ ~ (v < u)
      BY <2>1 DEF H
    <3>2. v > u /\ u < v
      BY <1>5, <1>6, <3>1
    <3>3. /\ a + urbs[u].size <= urbs[v].start
          /\ urbs[v].start \in Nat /\ urbs[v].size \in Nat /\ urbs[v].len \in Nat
          /\ urbs[v].len <= urbs[v].size /\ urbs[v].start + urbs[v].size <= length
      BY <1>5, <1>6, <3>2 DEF a
    <3>4. PICK b \in Nat : b = a + urbs[u].size /\ b >= transferred + z
      <4>1. transferred <= a
        BY <1>6, <2>3
      <4>2. \A t, x, y, n \in Nat : (t <= x /\ y <= n) => (x + n \in Nat /\ x + n >= t + y)
        OBVIOUS
      <4>3. a + urbs[u].size \in Nat /\ a + urbs[u].size >= transferred + z
        BY <1>6, <4>1, <4>2
      <4>4. QED
        BY <4>3
    <3>5. \A x, y, n \in Nat : (b <= x /\ n <= y /\ x + y <= length) =>
             \A i \in 1..n : x + i > transferred + z /\ x + i \in 1..length
      <4>1. PICK t : t = transferred + z
        OBVIOUS
      <4>2. t \in Nat /\ b \in Nat /\ b >= t /\ length \in Nat
        BY <1>6, <1>8, <3>4, <4>1
      <4>3. \A x, y, n \in Nat : (b <= x /\ n <= y /\ x + y <= length) =>
               \A i \in 1..n : x + i > t /\ x + i \in 1..length
        BY <4>2
      <4>4. QED
        BY <4>1, <4>3
    <3>6. \A i \in 1..urbs[v].len : /\ urbs[v].start + i > transferred + z
                                    /\ urbs[v].start + i \in 1..length
      BY <3>3, <3>4, <3>5
    <3>7. QED
      BY <3>1, <3>2, <3>6
  <2>6. \A j \in 1..z : buffer[a + j] = transferred + j
    BY <1>2, <1>6, <1>7, <2>3 DEF a, z
  <2>7. transferred + z <= length
    BY <1>6, <1>8, <2>3
  <2>8. CASE buffer' = Moved(u, transferred)
    <3>1. /\ \A i \in 1..length : i \in transferred + 1..transferred + z =>
                buffer'[i] = buffer[a + i - transferred]
          /\ \A i \in 1..length : i \notin transferred + 1..transferred + z =>
                buffer'[i] = buffer[i]
      BY <1>10, <2>8
    <3>2. ASSUME NEW i \in 1..transferred + z
          PROVE  buffer'[i] = i
      <4>1. i \in 1..length
        BY <1>6, <1>8, <2>7
      <4>2. CASE i <= transferred
        <5>1. i \in 1..transferred /\ i \notin transferred + 1..transferred + z
          BY <1>6, <4>2
        <5>2. QED
          BY <1>7, <3>1, <4>1, <5>1
      <4>3. CASE i > transferred
        <5>1. PICK j \in 1..z : i = transferred + j
          <6>1. i - transferred \in 1..z /\ i = transferred + (i - transferred)
            BY <1>6, <4>3
          <6>2. QED
            BY <6>1
        <5>2. i \in transferred + 1..transferred + z /\ a + i - transferred = a + j
          BY <1>6, <4>3, <5>1
        <5>3. QED
          BY <2>6, <3>1, <4>1, <5>1, <5>2
      <4>4. QED
        BY <1>6, <4>2, <4>3
    <3>3. ASSUME NEW v \in 1..N, v \notin H, NEW i \in 1..urbs[v].len
          PROVE  buffer'[urbs[v].start + i] = f[v - 1] + i
      <4>1. PICK p : p = urbs[v].start + i
        OBVIOUS
      <4>2. p \in 1..length /\ p > transferred + z /\ v \notin Handled
        BY <2>5, <3>3, <4>1
      <4>3. p \notin transferred + 1..transferred + z
        BY <1>6, <4>2
      <4>4. QED
        BY <1>7, <3>1, <3>3, <4>1, <4>2, <4>3
    <3>4. Placed(urbs, f, H, transferred', buffer')
      BY <1>5, <1>9, <3>2, <3>3 DEF Placed
    <3>5. QED
      BY <1>1, <1>4, <1>6, <2>4, <3>4 DEF H, N
  <2>9. CASE action = "NORMAL" /\ buffer' = buffer
    <3>1. \A w \in 1..N : w < u => urbs[w].len = urbs[w].size
      <4> TAKE w \in 1..N
      <4> HAVE w < u
      <4>1. w \in Handled /\ w \in Requests /\ urbs[u].len # 0
        BY <1>5, <1>6, <1>12, <2>1 DEF z
      <4>2. urbs[w].len = urbs[w].size \/ urbs[w].st \in {"stall", "shutdown"}
        BY <2>9, <4>1 DEF ServedInv, FullInv
      <4>3. urbs[w].st \notin {"stall", "shutdown"}
        BY <1>2, <4>1 DEF ServedInv, StopInv
      <4>4. QED
        BY <4>2, <4>3
    <3>2. a = transferred
      <4>1. /\ Covers(urbs, length) /\ urbs \in Seq(Urb) /\ length \in Nat /\ u \in 1..Len(urbs)
            /\ \A w \in 1..Len(urbs) : urbs[w].len <= urbs[w].size
            /\ \A w \in 1..Len(urbs) : w < u => urbs[w].len = urbs[w].size
        <5>1. Covers(urbs, length)
          BY <1>3 DEF RequestInv, LayoutInv
        <5>2. QED
          BY <1>5, <1>6, <1>8, <3>1, <5>1
      <4>2. f[u - 1] = urbs[u].start
        BY <1>4, <4>1, AddsBound
      <4>3. QED
        BY <2>3, <4>2 DEF a
    <3>3. ASSUME NEW i \in 1..transferred + z
          PROVE  buffer[i] = i
      <4>1. CASE i <= transferred
        <5>1. i \in 1..transferred
          BY <1>6, <4>1
        <5>2. QED
          BY <1>7, <5>1
      <4>2. CASE i > transferred
        <5>1. i - transferred \in 1..z /\ i = transferred + (i - transferred)
          BY <1>6, <4>2
        <5>2. PICK j \in 1..z : i = transferred + j
          BY <5>1
        <5>3. QED
          BY <2>6, <3>2, <5>2
      <4>3. QED
        BY <1>6, <4>1, <4>2
    <3>4. Placed(urbs, f, H, transferred', buffer)
      BY <1>5, <1>7, <1>9, <2>5, <3>3 DEF Placed
    <3>5. QED
      BY <1>1, <1>4, <1>6, <2>4, <2>9, <3>4 DEF H, N
  <2>10. QED
    BY <1>2, <2>8, <2>9
<1>13. z = 0 \/ z > 0
  BY <1>6
<1>14. QED
  BY <1>11, <1>12, <1>13

\* The transfer goes on.
LEMMA ServedHandled ==
  ASSUME TypeOK, RequestInv, ServedInv, HandleUrb, urbs' = urbs
  PROVE  ServedInv'
<1>1. /\ reaped \in Requests /\ urbs[reaped].at = "reaped" /\ reaped \notin Handled /\ reaped > 0
      /\ reaped' = 0 /\ UNCHANGED <<plugged, kind, sent, done>>
      /\ Requests = 1..NumUrbs /\ NumUrbs \in Nat
  BY HandleUrbDoes, RequestsType DEF RequestInv, At, Handled, HandleUrb, kernel, request
<1>2. NumUrbs' = NumUrbs /\ Requests' = Requests /\ At("reaped")' = At("reaped")
  BY DEF NumUrbs, Requests, At
<1>3. Handled' = Handled \cup {reaped}
  <2>1. Handled' = At("reaped") \ {0}
    BY <1>1, <1>2 DEF Handled
  <2>2. 0 \notin At("reaped") /\ reaped \in At("reaped")
    BY <1>1 DEF At
  <2>3. QED
    BY <2>1, <2>2 DEF Handled
<1>4. PrecedeInv'
  <2> SUFFICES ASSUME NEW u \in Requests, NEW v \in Requests, u < v, urbs[v].len > 0
               PROVE  Before(u, v)'
    BY <1>2 DEF PrecedeInv
  <2>1. Before(u, v)
    BY DEF ServedInv, PrecedeInv
  <2>2. QED
    BY <1>1, <1>3, <2>1 DEF Before
<1>5. StopInv'
  BY <1>1, <1>2 DEF ServedInv, StopInv
<1>6. BytesInv'
  <2> SUFFICES ASSUME Data', NumUrbs' > 0
               PROVE  BytesInv'
    BY DEF BytesInv
  <2>1. Data
    BY <1>1 DEF Data
  <2>2. QED
    BY <1>1, <1>2, <1>3, <2>1, BytesHandled DEF BytesInv
<1>7. FullInv'
  <2> SUFFICES ASSUME Data', action' = "NORMAL", NEW u \in Handled'
               PROVE  urbs[u].len = urbs[u].size \/ urbs[u].st \in {"stall", "shutdown"}
    BY DEF FullInv
  <2>1. Data
    BY <1>1 DEF Data
  <2>2. action = "NORMAL"
    BY <2>1, HandleBulkDoes
  <2>3. CASE u \in Handled
    BY <2>1, <2>2, <2>3 DEF ServedInv, FullInv
  <2>4. CASE u = reaped
    BY <2>1, <2>2, <2>4, HandleBulkDoes
  <2>5. QED
    BY <1>3, <2>3, <2>4
<1>8. QED
  BY <1>4, <1>5, <1>6, <1>7 DEF ServedInv

\* When nothing of the transfer is left, all that was sent has been counted.
LEMMA AllCounted ==
  ASSUME TypeOK, RequestInv, NumUrbs > 0, NEW f, Adds(urbs, f), f[NumUrbs] = sent,
         NEW H, NEW t \in Nat, NEW k, Counted(urbs, f, H, t, k),
         \A u \in Requests : u \in H \/ urbs[u].len = 0
  PROVE  t = sent
<1>1. /\ Requests = 1..NumUrbs /\ NumUrbs = Len(urbs) /\ NumUrbs \in Nat
      /\ \A i, m \in 0..NumUrbs : i <= m =>
           ((\A w \in 1..NumUrbs : i < w /\ w <= m => urbs[w].len = 0) => f[m] = f[i])
  BY SumsAre
<1>2. /\ k \in 0..NumUrbs /\ t = f[k]
      /\ \A u \in 1..NumUrbs : u > k /\ u \in H => urbs[u].len = 0
  BY <1>1 DEF Counted
<1>3. \A w \in 1..NumUrbs : k < w => urbs[w].len = 0
  <2>1. \A w \in 1..NumUrbs : k < w => w > k
    BY <1>1, <1>2
  <2>2. QED
    BY <1>1, <1>2, <2>1
<1>4. NumUrbs \in 0..NumUrbs /\ k <= NumUrbs
  BY <1>1, <1>2
<1>5. QED
  BY <1>1, <1>2, <1>3, <1>4

LEMMA EmptyServed ==
  ASSUME urbs' = <<>>
  PROVE  ServedInv'
<1>1. Requests' = {} /\ NumUrbs' = 0 /\ Handled' = {}
  BY DEF Requests, NumUrbs, Handled, At
<1>2. QED
  BY <1>1 DEF ServedInv, PrecedeInv, StopInv, FullInv, BytesInv

\* The transfer is over.
LEMMA OverHandled ==
  ASSUME TypeOK, TypeOK', PhaseInv, RequestInv, ServedInv, HandleUrb, urbs' = <<>>
  PROVE  OverInv'
<1> SUFFICES ASSUME Data'
             PROVE  transferred' = sent' /\ \A i \in 1..sent' : buffer'[i] = i
  BY DEF OverInv
<1>1. /\ reaped \in Requests /\ urbs[reaped].at = "reaped" /\ sent' = sent /\ Data
      /\ Requests = 1..NumUrbs /\ NumUrbs \in Nat
  BY HandleUrbDoes, RequestsType DEF RequestInv, At, HandleUrb, request, Data
<1>2. NumUrbs > 0
  BY <1>1
<1>3. PICK f \in [0..NumUrbs -> Nat], k \in 0..NumUrbs :
            /\ Adds(urbs, f) /\ f[NumUrbs] = sent
            /\ Counted(urbs, f, Handled \cup {reaped}, transferred', k)
            /\ Placed(urbs, f, Handled \cup {reaped}, transferred', buffer')
  BY <1>1, BytesHandled
<1>4. \A u \in Requests : u \in Handled \cup {reaped} \/ urbs[u].len = 0
  <2>1. urbs # urbs'
    <3>1. Len(urbs) > 0
      BY <1>2 DEF NumUrbs
    <3>2. QED
      BY <3>1
  <2>2. \A u \in Requests : urbs[u].at \in {"none", "reaped"}
    BY <2>1, HandleUrbDoes, AllSettled DEF RequestInv
  <2>3. \A u \in Requests : urbs[u].at = "none" => urbs[u].len = 0
    BY DEF RequestInv, LayoutInv
  <2>4. \A u \in Requests : urbs[u].at = "reaped" => u \in Handled \cup {reaped}
    BY DEF Handled, At
  <2>5. QED
    BY <2>2, <2>3, <2>4
<1>5. transferred' \in Nat
  BY DEF TypeOK
<1>6. transferred' = sent
  BY <1>2, <1>3, <1>4, <1>5, AllCounted
<1>7. QED
  BY <1>1, <1>3, <1>6 DEF Placed

\* The device is gone, and all that can be reaped has been.
LEMMA OverDisconnect ==
  ASSUME TypeOK, PhaseInv, RequestInv, DataInv, Disconnect
  PROVE  OverInv'
<1> SUFFICES ASSUME Data', phase' # "idle", status' = "NO_DEVICE" => reapAfter'
             PROVE  transferred' = sent' /\ \A i \in 1..sent' : buffer'[i] = i
  BY DEF OverInv
<1>1. /\ UNCHANGED <<transferred, sent, buffer, kind, reapAfter>> /\ Data
      /\ reaped = 0 /\ lock = "free" /\ ~ plugged
      /\ reapAfter => done = <<>>
  BY DEF Disconnect, request, private, device, Data
<1>2. CASE ~ InFlight
  <2>1. phase = "finished" /\ NumUrbs = 0
    <3>1. phase \in {"idle", "submitting", "pending", "finished"} /\ phase # "pending"
      BY <1>2 DEF TypeOK, InFlight
    <3>2. phase' = phase
      BY <1>2 DEF Disconnect
    <3>3. phase # "idle" /\ phase # "submitting"
      BY <1>1, <3>2 DEF PhaseInv
    <3>4. ~ (NumUrbs > 0)
      BY <3>1, <3>3 DEF PhaseInv
    <3>5. NumUrbs \in Nat
      BY RequestsType
    <3>6. QED
      BY <3>1, <3>3, <3>4, <3>5
  <2>2. status' = status /\ phase # "idle"
    BY <1>2, <2>1 DEF Disconnect
  <2>3. QED
    BY <1>1, <2>1, <2>2 DEF DataInv, OverInv
<1>3. CASE InFlight
  <2>1. reapAfter /\ done = <<>>
    BY <1>1, <1>3 DEF Disconnect
  <2>2. NumUrbs > 0
    BY <1>1, <1>3 DEF PhaseInv, InFlight
  <2>3. PICK f \in [0..NumUrbs -> Nat], k \in 0..NumUrbs :
           /\ Adds(urbs, f) /\ f[NumUrbs] = sent
           /\ Counted(urbs, f, Handled, transferred, k)
           /\ Placed(urbs, f, Handled, transferred, buffer)
    BY <1>1, <2>2 DEF BytesInv, ServedInv, DataInv
  <2>4. \A u \in Requests : u \in Handled \/ urbs[u].len = 0
    <3>1. \A u \in Requests : urbs[u].at # "kernel"
      BY <1>1 DEF RequestInv, ReapInv, Pending, Requests
    <3>2. \A u \in Requests : urbs[u].at # "done"
      BY <2>1 DEF RequestInv, ReapInv, Lists, At
    <3>3. \A u \in Requests : urbs[u].at \in Places /\ u # 0
      BY RequestsType DEF Urb
    <3>4. \A u \in Requests : urbs[u].at = "none" => urbs[u].len = 0
      BY DEF RequestInv, LayoutInv
    <3>5. \A u \in Requests : urbs[u].at = "reaped" => u \in Handled
      BY <1>1, <3>3 DEF Handled, At
    <3>6. QED
      BY <3>1, <3>2, <3>3, <3>4, <3>5 DEF Places
  <2>5. transferred \in Nat
    BY DEF TypeOK
  <2>6. transferred = sent
    BY <2>2, <2>3, <2>4, <2>5, AllCounted
  <2>7. QED
    BY <1>1, <2>3, <2>6 DEF Placed
<1>4. QED
  BY <1>2, <1>3

LEMMA OverKept ==
  ASSUME OverInv, UNCHANGED <<kind, reapAfter, NumUrbs>>,
         NumUrbs = 0 => UNCHANGED <<transferred, sent, buffer>>,
         phase' # "idle" => phase # "idle" \/ NumUrbs # 0,
         status' = status \/ status = "none"
  PROVE  OverInv'
  BY DEF OverInv, Data

LEMMA EndsAre ==
  ASSUME TypeOK, UrbEnds \/ UrbFails
  PROVE  \E S \in SUBSET Pending, q \in Seq(Nat) :
            Finishes(S, q) /\ \A v \in S : urbs'[v].st # "shutdown"
<1>1. Current \in Pending
  BY CurrentIs DEF UrbEnds, UrbFails
<1>2. CASE UrbEnds
  <2>1. PICK early \in BOOLEAN : Ends(Current, "ok", early)
    BY <1>2 DEF UrbEnds
  <2>2. PICK S \in SUBSET Pending, q \in Seq(Nat) :
           /\ Finishes(S, q) /\ urbs'[Current].st = "ok"
           /\ \A v \in S : v # Current => urbs'[v].st = "killed"
    BY <1>1, <2>1, EndsDoes DEF Outcomes
  <2>3. \A v \in S : urbs'[v].st # "shutdown"
    BY <2>2
  <2>4. QED
    BY <2>2, <2>3
<1>3. CASE UrbFails
  <2>1. PICK st \in {"stall", "error", "overflow"} : Ends(Current, st, TRUE)
    BY <1>3 DEF UrbFails
  <2>2. PICK S \in SUBSET Pending, q \in Seq(Nat) :
           /\ Current \in S /\ Finishes(S, q) /\ urbs'[Current].st = st
           /\ \A v \in S : v # Current => urbs'[v].st = "killed"
    <3>1. st \in Outcomes /\ TRUE \in BOOLEAN
      BY DEF Outcomes
    <3>2. QED
      BY <1>1, <2>1, <3>1, EndsDoes, Zenon
  <2>3. \A v \in S : urbs'[v].st # "shutdown"
    BY <2>1, <2>2
  <2>4. QED
    BY <2>2, <2>3
<1>4. QED
  BY <1>2, <1>3

LEMMA DataNext ==
  ASSUME FsInv, FsInv', DataInv, [Next]_vars
  PROVE  DataInv'
<1>0. /\ TypeOK /\ TypeOK' /\ PhaseInv /\ RequestInv /\ ServedInv /\ OverInv /\ StatusInv
      /\ NumUrbs \in Nat /\ (urbs = <<>> <=> NumUrbs = 0)
  BY RequestsType, EmptyIff DEF FsInv, DataInv, TypeOK, NumUrbs
<1>1. ASSUME NEW k \in Kinds, NEW sp \in Splits, NEW n \in 0..MaxLength, SubmitBegin(k, sp, n)
      PROVE  DataInv'
  <2>1. ServedInv'
    BY <1>0, <1>1, ServedBegin
  <2>2. NumUrbs' # 0 /\ status' = "none"
    BY <1>0, <1>1, SubmitBeginDoes DEF NumUrbs, SubmitBegin
  <2>3. QED
    BY <2>1, <2>2 DEF DataInv, OverInv, StatusInv
<1>2. CASE SubmitUrb
  <2>1. ServedInv'
    BY <1>0, <1>2, ServedSubmit
  <2>2. NumUrbs' = NumUrbs /\ NumUrbs # 0
    BY <1>0, <1>2, SubmitUrbDoes DEF Advance, SubmitUrb
  <2>3. UNCHANGED <<kind, reapAfter, phase, status>>
    BY <1>2 DEF SubmitUrb, kernel, request
  <2>4. QED
    BY <1>0, <2>1, <2>2, <2>3, OverKept DEF DataInv, StatusInv
<1>3. CASE \/ SubmitEnd \/ LaterUrbFails \/ CancelBegin \/ CancelEnd
           \/ HandlerDiscarded \/ Report \/ UNCHANGED vars
  <2>1. UNCHANGED <<urbs, done, reaped, plugged, kind, sent, transferred, buffer, reapAfter>>
    BY <1>3 DEF SubmitEnd, LaterUrbFails, CancelBegin, CancelEnd, HandlerDiscarded, Report,
                vars, kernel, request, private, device
  <2>2. action' = "NORMAL" => action = "NORMAL"
    BY <1>3 DEF SubmitEnd, LaterUrbFails, CancelBegin, CancelEnd, HandlerDiscarded, Report,
                vars, private, ActionCancelled
  <2>3. ServedInv' /\ NumUrbs' = NumUrbs
    BY <1>0, <2>1, <2>2, ServedQuiet DEF NumUrbs
  <2>4. \/ UNCHANGED <<phase, status>>
        \/ phase = "submitting" /\ phase' = "pending" /\ status' = status
        \/ phase = "pending" /\ phase' = "finished" /\ status = "none"
    <3>1. CASE SubmitEnd
      BY <1>0, <3>1 DEF SubmitEnd, PhaseInv
    <3>2. CASE Report
      BY <1>0, <3>2 DEF Report, PhaseInv, StatusInv
    <3>3. CASE \/ LaterUrbFails \/ CancelBegin \/ CancelEnd \/ HandlerDiscarded \/ UNCHANGED vars
      BY <3>3 DEF LaterUrbFails, CancelBegin, CancelEnd, HandlerDiscarded, vars
    <3>4. QED
      BY <1>3, <3>1, <3>2, <3>3
  <2>5. OverInv'
    BY <1>0, <2>1, <2>3, <2>4, OverKept
  <2>6. StatusInv'
    BY <1>0, <2>4 DEF StatusInv
  <2>7. QED
    BY <2>3, <2>5, <2>6 DEF DataInv
<1>4. CASE FirstUrbFails
  <2>1. urbs' = <<>> /\ phase' = "idle"
    BY <1>4 DEF FirstUrbFails
  <2>2. QED
    BY <2>1, EmptyServed DEF DataInv, OverInv, StatusInv
<1>5. CASE Take
  <2>1. /\ phase' = "idle" /\ action' = action
        /\ UNCHANGED <<urbs, done, reaped, plugged, kind, sent, transferred, buffer>>
    BY <1>5 DEF Take, kernel, request, private, device
  <2>2. ServedInv'
    BY <1>0, <2>1, ServedQuiet
  <2>3. QED
    BY <2>1, <2>2 DEF DataInv, OverInv, StatusInv
<1>6. CASE DiscardUrb
  <2>1. UNCHANGED <<kind, sent, transferred, buffer, reaped, action, plugged, reapAfter, phase, status>>
    BY <1>6 DEF DiscardUrb, kernel, request, private, device
  <2>2. ServedInv' /\ NumUrbs' = NumUrbs
    <3>1. CASE plugged /\ disc.i \in Pending
      <4>1. Finishes({disc.i}, <<disc.i>>) /\ urbs'[disc.i].st = "killed"
        BY <1>0, <1>6, <3>1, DiscardUrbDoes
      <4>2. QED
        BY <1>0, <2>1, <4>1, ServedFinishes DEF Finishes, Advance
    <3>2. CASE ~ (plugged /\ disc.i \in Pending)
      <4>1. UNCHANGED <<urbs, done>>
        BY <1>0, <1>6, <3>2, DiscardUrbDoes
      <4>2. QED
        BY <1>0, <2>1, <4>1, ServedQuiet DEF NumUrbs
    <3>3. QED
      BY <3>1, <3>2
  <2>3. QED
    BY <1>0, <2>1, <2>2, OverKept DEF DataInv, StatusInv
<1>7. CASE Reap
  <2>1. ServedInv'
    BY <1>0, <1>7, ServedReap
  <2>2. NumUrbs' = NumUrbs
    BY <1>0, <1>7, ReapDoes DEF RequestInv, Advance
  <2>3. UNCHANGED <<kind, sent, transferred, buffer, reapAfter, phase, status>>
    BY <1>7 DEF Reap, kernel, request, private, device
  <2>4. QED
    BY <1>0, <2>1, <2>2, <2>3, OverKept DEF DataInv, StatusInv
<1>8. CASE HandleUrb
  <2>1. UNCHANGED <<kind, reapAfter, phase, status>>
    BY <1>8 DEF HandleUrb, kernel, request
  <2>2. StatusInv'
    BY <1>0, <2>1 DEF StatusInv
  <2>3. CASE urbs' = urbs
    <3>1. NumUrbs' = NumUrbs /\ NumUrbs # 0
      BY <1>0, <1>8, <2>3, HandleUrbDoes, RequestsType DEF RequestInv, NumUrbs
    <3>2. OverInv'
      BY <1>0, <2>1, <3>1, OverKept
    <3>3. QED
      BY <1>0, <1>8, <2>2, <2>3, <3>2, ServedHandled DEF DataInv
  <2>4. CASE urbs' = <<>>
    BY <1>0, <1>8, <2>2, <2>4, OverHandled, EmptyServed DEF DataInv
  <2>5. QED
    BY <1>0, <1>8, <2>3, <2>4, HandleUrbDoes DEF RequestInv
<1>9. CASE Disconnect
  <2>1. urbs' = <<>>
    <3>1. CASE InFlight
      BY <1>9, <3>1 DEF Disconnect
    <3>2. CASE ~ InFlight
      <4>1. urbs' = urbs /\ lock = "free" /\ phase # "pending"
        BY <1>9, <3>2 DEF Disconnect, InFlight
      <4>2. NumUrbs = 0
        BY <1>0, <4>1 DEF PhaseInv
      <4>3. QED
        BY <1>0, <4>1, <4>2
    <3>3. QED
      BY <3>1, <3>2
  <2>2. StatusInv'
    <3>1. phase' # "pending" /\ phase' # "submitting"
      BY <1>0, <1>9 DEF Disconnect, InFlight, PhaseInv
    <3>2. QED
      BY <3>1 DEF StatusInv
  <2>3. OverInv'
    BY <1>0, <1>9, OverDisconnect DEF DataInv
  <2>4. QED
    BY <2>1, <2>2, <2>3, EmptyServed DEF DataInv
<1>10. CASE Deliver
  <2>1. ServedInv'
    BY <1>0, <1>10, ServedDeliver
  <2>2. NumUrbs' = NumUrbs /\ NumUrbs # 0
    <3>1. Current \in Requests
      BY <1>0, <1>10, DeliverDoes, CurrentIs
    <3>2. QED
      BY <1>0, <1>10, <3>1, DeliverDoes, RequestsType
  <2>3. UNCHANGED <<kind, reapAfter, phase, status>>
    BY <1>10 DEF Deliver, kernel, request
  <2>4. QED
    BY <1>0, <2>1, <2>2, <2>3, OverKept DEF DataInv, StatusInv
<1>11. CASE UrbEnds \/ UrbFails
  <2>1. PICK S \in SUBSET Pending, q \in Seq(Nat) :
           Finishes(S, q) /\ \A v \in S : urbs'[v].st # "shutdown"
    BY <1>0, <1>11, EndsAre
  <2>2. UNCHANGED <<kind, sent, transferred, buffer, reaped, action, plugged, reapAfter, phase, status>>
    BY <1>11 DEF UrbEnds, UrbFails, Ends, kernel, request, private
  <2>3. ServedInv' /\ NumUrbs' = NumUrbs
    BY <1>0, <2>1, <2>2, ServedFinishes DEF Finishes, Advance
  <2>4. QED
    BY <1>0, <2>2, <2>3, OverKept DEF DataInv, StatusInv
<1>12. CASE Unplug
  <2>1. PICK q \in Seq(Nat) : Finishes(Pending, q)
    BY <1>0, <1>12, UnplugDoes
  <2>2. /\ UNCHANGED <<kind, sent, transferred, buffer, reaped, action, reapAfter, phase, status>>
        /\ ~ plugged'
    BY <1>12 DEF Unplug, request, private, device
  <2>3. ServedInv' /\ NumUrbs' = NumUrbs
    BY <1>0, <2>1, <2>2, ServedFinishes DEF Finishes, Advance
  <2>4. QED
    BY <1>0, <2>2, <2>3, OverKept DEF DataInv, StatusInv
<1>13. QED
  BY <1>1, <1>2, <1>3, <1>4, <1>5, <1>6, <1>7, <1>8, <1>9, <1>10, <1>11, <1>12
     DEF Next, SubmitStep, CancelStep, HandlerStep, WorldStep, Over

LEMMA DataInit == Init => DataInv
<1> SUFFICES ASSUME Init PROVE DataInv
  OBVIOUS
<1>1. Requests = {} /\ NumUrbs = 0 /\ Handled = {} /\ phase = "idle"
  BY DEF Init, Requests, NumUrbs, Handled, At
<1>2. QED
  BY <1>1 DEF DataInv, ServedInv, PrecedeInv, StopInv, FullInv, BytesInv, OverInv, StatusInv

\* However a bulk or interrupt transfer is split, cancelled, stalled or unplugged, it is
\* reported with every byte the device sent, in order and without a hole.
THEOREM EveryByteCounted == Spec => []NoDataLost
<1>1. ASSUME FsInv, DataInv PROVE NoDataLost
  <2>1. phase = "finished" => NumUrbs = 0
    <3>1. NumUrbs \in Nat
      BY <1>1, RequestsType DEF FsInv
    <3>2. QED
      BY <1>1, <3>1 DEF FsInv, PhaseInv
  <2>2. OverInv
    BY <1>1 DEF DataInv
  <2>3. QED
    BY <2>1, <2>2 DEF OverInv, NoDataLost, Data
<1>2. FsInv /\ FsInv' /\ DataInv /\ [Next]_vars => DataInv'
  BY DataNext
<1>3. QED
  BY <1>1, <1>2, DataInit, FsInvariant, PTL DEF Spec

-----------------------------------------------------------------------------
(* What a transfer is reported with.                                       *)

Failures == {"stall", "error", "overflow"}

\* A request that is over without a failure, and not full, was cut short.
ShortInv ==
  \A u \in Requests : kind # "iso" /\ urbs[u].st = "ok" /\ urbs[u].at \in {"done", "reaped"} =>
    urbs[u].len = urbs[u].size \/ short

BrokenInv == broken /\ NumUrbs > 0 => \E u \in Requests : urbs[u].st \in Failures

\* Requests are served in order; what is over before its turn was killed.
OrderInv ==
  \A u, v \in Requests : urbs[u].at = "kernel" /\ u < v =>
    urbs[v].at \in {"none", "kernel"} \/ urbs[v].st = "killed"

\* A transfer that goes on as it should was submitted as a whole.
WholeInv == action = "NORMAL" /\ ~ Submitting => \A u \in Requests : urbs[u].at # "none"

\* The last request to be handled, or the last one that was, is of the vanished device.
Doomed ==
  ~ plugged /\ IF done # <<>> THEN urbs[done[Len(done)]].st = "shutdown"
               ELSE IF reaped # 0 THEN urbs[reaped].st = "shutdown"
               ELSE reapStatus # "COMPLETED"

\* Something the transfer cannot be completed after, or only as a short one.
Excused ==
  \/ action # "NORMAL"
  \/ cancelling /\ ~ plugged
  \/ kind = "iso" /\ Doomed
  \/ Data /\ (reapStatus # "COMPLETED" \/ (Continued /\ (short \/ broken)))

\* A cancellation has discarded a request.
Discarding == lock = "cancel" /\ disc.ret = "ok" /\ disc.i < NumUrbs

KilledInv ==
  kind # "control" /\ (\E u \in Requests : urbs[u].st = "killed") => Excused \/ Discarding

\* Who discards, and what it finds.
CancelInv ==
  /\ lock = "cancel" =>
       /\ cancelling /\ disc.i \in 0..NumUrbs /\ disc.first = 1 /\ disc.last = NumUrbs
       /\ disc.i = NumUrbs => disc.ret = "ok"
       /\ disc.ret = "NO_DEVICE" => ~ plugged
       /\ disc.ret = "NOT_FOUND" /\ kind # "control" => At("kernel") = {} \/ Excused
  /\ lock = "submit" /\ disc.i > 0 => action # "NORMAL"
  /\ lock \in {"free", "report"} => disc.i = 0
  /\ lock = "handler" => Data /\ (action # "NORMAL" \/ reapStatus # "COMPLETED")

\* While all is well, no request that was handled had failed.
FailInv ==
  Data /\ action = "NORMAL" /\ reapStatus = "COMPLETED" =>
    \A u \in Handled : urbs[u].st \in {"ok", "killed"}

EarlyInv ==
  Data /\ NumUrbs > 0 /\ action = "COMPLETED_EARLY" =>
    Continued \/ short \/ reapStatus # "COMPLETED" \/ (cancelling /\ ~ plugged)

ControlInv == kind = "control" /\ NumUrbs > 0 => transferred = 0

\* The results of an isochronous transfer are in place as long as its requests come
\* in order.
InOrder == \A u, v \in Requests : u < v /\ urbs[v].at \in {"done", "reaped"} => Before(u, v)

Copied ==
  /\ \A i \in 1..offset : buffer[i] = i
  /\ \A u \in Requests : u \notin Handled /\ (\A w \in Requests : w < u => w \in Handled) =>
        offset = urbs[u].start

IsoInv == kind = "iso" /\ NumUrbs > 0 => Excused \/ Discarding \/ (InOrder /\ Copied)

Complete ==
  IF kind = "iso" THEN \A i \in DOMAIN buffer : buffer[i] = i
  ELSE short \/ (transferred = length /\ ~ broken)

\* It is completed, or will be.
Completing == \/ lock = "report" /\ action # "CANCELLED" /\ reapStatus = "COMPLETED"
              \/ phase = "finished" /\ status = "COMPLETED"

FinalInv ==
  Completing /\ (plugged \/ ~ cancelling) /\ ~ (Continued /\ action = "COMPLETED_EARLY") =>
    Complete

OutcomeInv == /\ ShortInv /\ BrokenInv /\ OrderInv /\ WholeInv /\ KilledInv /\ CancelInv
              /\ FailInv /\ EarlyInv /\ ControlInv /\ IsoInv

-----------------------------------------------------------------------------
(* What excuses a transfer goes on doing so.                               *)

LEMMA ExcusedStays ==
  ASSUME Excused, UNCHANGED <<kind, split>>,
         action # "NORMAL" => action' # "NORMAL", cancelling => cancelling',
         plugged' => plugged, short => short', broken => broken',
         Data /\ reapStatus # "COMPLETED" => reapStatus' # "COMPLETED",
         kind = "iso" /\ Doomed => Doomed'
  PROVE  Excused'
<1>1. CASE action # "NORMAL"
  BY <1>1 DEF Excused
<1>2. CASE cancelling /\ ~ plugged
  BY <1>2 DEF Excused
<1>3. CASE kind = "iso" /\ Doomed
  BY <1>3 DEF Excused
<1>4. CASE Data /\ (reapStatus # "COMPLETED" \/ (Continued /\ (short \/ broken)))
  <2>1. Data' /\ (Continued => Continued')
    BY <1>4 DEF Data, Continued
  <2>2. QED
    BY <1>4, <2>1 DEF Excused
<1>5. QED
  BY <1>1, <1>2, <1>3, <1>4 DEF Excused

\* What the last of a vanished device's requests comes to.
LEMMA DoomedReap ==
  ASSUME TypeOK, TypeOK', RequestInv, Reap, Doomed
  PROVE  Doomed'
<1>1. /\ Len(done') = Len(done) - 1 /\ \A i \in 1..Len(done') : done'[i] = done[i + 1]
      /\ reaped' = done[1] /\ plugged' = plugged /\ reaped' \in Requests
      /\ \A v \in Requests : urbs'[v].st = urbs[v].st
  BY ReapMoves
<1>2. /\ Len(done) \in Nat /\ Len(done') \in Nat /\ Len(done) > 0 /\ done # <<>>
      /\ (done' = <<>> <=> Len(done') = 0)
      /\ \A i \in 1..Len(done) : done[i] \in Requests
      /\ reaped' # 0
  <2>1. done # <<>> /\ done \in Seq(Nat) /\ done' \in Seq(Nat)
    BY DEF Reap, TypeOK
  <2>2. \A i \in 1..Len(done) : done[i] \in Requests
    BY DEF RequestInv, ReapInv, Lists, At
  <2>3. reaped' # 0
    BY <1>1, RequestsType
  <2>4. Len(done) \in Nat /\ Len(done') \in Nat /\ (done' = <<>> <=> Len(done') = 0)
        /\ (done = <<>> <=> Len(done) = 0)
    BY <2>1, EmptyIff, LenProperties
  <2>5. QED
    BY <2>1, <2>2, <2>3, <2>4
<1>3. ~ plugged /\ urbs[done[Len(done)]].st = "shutdown"
  BY <1>2 DEF Doomed
<1>4. CASE Len(done') = 0
  <2>1. done' = <<>> /\ Len(done) = 1 /\ done[1] \in Requests
    BY <1>1, <1>2, <1>4
  <2>2. urbs'[reaped'].st = "shutdown"
    BY <1>1, <1>3, <2>1
  <2>3. QED
    BY <1>1, <1>2, <1>3, <2>1, <2>2 DEF Doomed
<1>5. CASE Len(done') # 0
  <2>1. done' # <<>> /\ Len(done') + 1 = Len(done) /\ Len(done') \in 1..Len(done')
        /\ Len(done) \in 1..Len(done)
    BY <1>1, <1>2, <1>5
  <2>2. done'[Len(done')] = done[Len(done)] /\ done[Len(done)] \in Requests
    BY <1>1, <1>2, <2>1
  <2>3. QED
    BY <1>1, <1>3, <2>1, <2>2 DEF Doomed
<1>6. QED
  BY <1>4, <1>5

LEMMA DoomedHandled ==
  ASSUME TypeOK, RequestInv, HandleUrb, urbs' = urbs, kind = "iso", Doomed
  PROVE  Doomed'
<1>1. /\ reaped # 0 /\ reaped' = 0 /\ UNCHANGED <<plugged, done>> /\ HandleIso(reaped)
  BY DEF HandleUrb, kernel, HandleBulk, HandleControl
<1>2. CASE done # <<>>
  BY <1>1, <1>2 DEF Doomed
<1>3. CASE done = <<>>
  <2>1. ~ plugged /\ urbs[reaped].st = "shutdown"
    BY <1>1, <1>3 DEF Doomed
  <2>2. reapStatus' # "COMPLETED"
    BY <1>1, <2>1 DEF HandleIso
  <2>3. QED
    BY <1>1, <1>3, <2>1, <2>2 DEF Doomed
<1>4. QED
  BY <1>2, <1>3

-----------------------------------------------------------------------------
(* What the steps of the kernel and the handler mean for the status.       *)

LEMMA EndsFully ==
  ASSUME TypeOK, UrbEnds \/ UrbFails
  PROVE  \E S \in SUBSET Pending, q \in Seq(Nat) :
            /\ Current \in S /\ Finishes(S, q)
            /\ \A v \in S : v # Current => urbs'[v].st = "killed"
            /\ S = {Current} \/ (S = Pending /\ Continued /\ (short' \/ broken'))
            /\ \/ /\ urbs'[Current].st = "ok" /\ broken' = broken
                  /\ kind = "iso" \/ ~ urbs[Current].len < urbs[Current].size \/ short'
               \/ urbs'[Current].st \in Failures
<1>1. Current \in Pending
  BY CurrentIs DEF UrbEnds, UrbFails
<1>2. CASE UrbEnds
  <2>1. PICK early \in BOOLEAN :
           /\ Ends(Current, "ok", early) /\ (early => short')
           /\ kind = "iso" \/ ~ urbs[Current].len < urbs[Current].size \/ early
    BY <1>2 DEF UrbEnds
  <2>2. broken' = broken /\ "ok" \in Outcomes /\ TRUE \in BOOLEAN /\ FALSE \in BOOLEAN
    BY <1>2 DEF UrbEnds, Outcomes
  <2>3. CASE early = TRUE
    <3>1. PICK st \in Outcomes : st = "ok" /\ Ends(Current, st, TRUE)
      BY <2>1, <2>2, <2>3
    <3>2. short'
      BY <2>1, <2>3
    <3>3. PICK S \in SUBSET Pending, q \in Seq(Nat) :
             /\ Current \in S /\ (S = {Current} \/ (S = Pending /\ Continued))
             /\ Finishes(S, q) /\ urbs'[Current].st = st
             /\ \A v \in S : v # Current => urbs'[v].st = "killed"
      <4>1. st \in Outcomes /\ TRUE \in BOOLEAN /\ Ends(Current, st, TRUE)
        BY <3>1
      <4>2. QED
        BY <1>1, <4>1, EndsDoes, Zenon
    <3>4. QED
      BY <2>2, <3>1, <3>2, <3>3
  <2>4. CASE early = FALSE
    <3>1. Ends(Current, "ok", FALSE)
      BY <2>1, <2>4
    <3>2. PICK S \in SUBSET Pending, q \in Seq(Nat) :
             /\ Current \in S /\ S = {Current}
             /\ Finishes(S, q) /\ urbs'[Current].st = "ok"
             /\ \A v \in S : v # Current => urbs'[v].st = "killed"
      BY <1>1, <2>2, <3>1, EndsDoes, Zenon
    <3>3. kind = "iso" \/ ~ urbs[Current].len < urbs[Current].size
      BY <2>1, <2>4
    <3>4. QED
      BY <2>2, <3>2, <3>3
  <2>5. QED
    BY <2>3, <2>4
<1>3. CASE UrbFails
  <2>1. PICK st \in Failures : Ends(Current, st, TRUE)
    BY <1>3 DEF UrbFails, Failures
  <2>2. PICK S \in SUBSET Pending, q \in Seq(Nat) :
           /\ Current \in S /\ (S = {Current} \/ (S = Pending /\ Continued))
           /\ Finishes(S, q) /\ urbs'[Current].st = st
           /\ \A v \in S : v # Current => urbs'[v].st = "killed"
    <3>1. st \in Outcomes /\ TRUE \in BOOLEAN
      BY <2>1 DEF Outcomes, Failures
    <3>2. QED
      BY <1>1, <2>1, <3>1, EndsDoes, Zenon
  <2>3. broken'
    BY <1>3 DEF UrbFails
  <2>4. QED
    BY <2>1, <2>2, <2>3
<1>4. QED
  BY <1>2, <1>3

LEMMA BulkStatus ==
  ASSUME TypeOK, RequestInv, HandleUrb, Data
  PROVE  /\ action # "NORMAL" => action' = action
         /\ action = "NORMAL" => action' \in {"NORMAL", "ERROR", "COMPLETED_EARLY"}
         /\ reapStatus # "COMPLETED" => reapStatus' # "COMPLETED"
         /\ action = "NORMAL" /\ reapStatus' = "COMPLETED" => urbs[reaped].st \in {"ok", "killed"}
         /\ action = "NORMAL" /\ action' = "COMPLETED_EARLY" =>
              urbs[reaped].len < urbs[reaped].size /\ urbs[reaped].st \in {"ok", "killed"}
         /\ lock' = "handler" => action' # "NORMAL" \/ reapStatus' # "COMPLETED"
         /\ urbs' = <<>> /\ reapStatus' = "COMPLETED" =>
              AllRetired /\ action \in {"NORMAL", "COMPLETED_EARLY"}
<1> DEFINE st == urbs[reaped].st
           b == urbs[reaped].len < urbs[reaped].size
<1>1. HandleBulk(reaped) /\ st \in Outcomes /\ urbs # <<>>
  <2>1. HandleBulk(reaped)
    BY DEF HandleUrb, HandleIso, HandleControl, Data
  <2>2. reaped \in Requests
    BY HandleUrbDoes DEF RequestInv
  <2>3. urbs[reaped] \in Urb /\ Requests = 1..NumUrbs
    BY <2>2, RequestsType
  <2>4. urbs # <<>>
    BY <2>2, <2>3 DEF NumUrbs
  <2>5. QED
    BY <2>1, <2>3, <2>4 DEF Urb
<1>2. CASE BulkAbnormal(reaped)
  <2>1. /\ action # "NORMAL" /\ action' = action
        /\ reapStatus' = IF AllRetired /\ action # "COMPLETED_EARLY" /\ reapStatus = "COMPLETED"
                         THEN "ERROR" ELSE reapStatus
        /\ lock' = "handler" => FALSE
        /\ urbs' = <<>> => AllRetired
    BY <1>1, <1>2 DEF BulkAbnormal, Completed, WaitForMore
  <2>2. QED
    BY <2>1
<1>3. CASE BulkNormal(reaped)
  <2>1. action = "NORMAL" /\ reapStatus' = FirstFailure(st)
    BY <1>3 DEF BulkNormal
  <2>2. /\ reapStatus # "COMPLETED" => reapStatus' # "COMPLETED"
        /\ reapStatus' = "COMPLETED" => st \in {"ok", "killed"}
    BY <1>1, <2>1 DEF FirstFailure, Outcomes
  <2>3. /\ action' \in {"NORMAL", "ERROR", "COMPLETED_EARLY"}
        /\ action' = "COMPLETED_EARLY" =>
             b /\ st \notin {"shutdown", "stall", "error", "overflow"}
        /\ st = "error" => action' = "ERROR"
        /\ b /\ ~ AllRetired /\ st \notin {"shutdown", "stall", "error", "overflow"} =>
             action' = "COMPLETED_EARLY"
    BY <1>3, <2>1 DEF BulkNormal
  <2>4. /\ lock' = "handler" =>
             ~ AllRetired /\ (st \in {"shutdown", "stall", "error"} \/ b) /\ st # "overflow"
        /\ urbs' = <<>> => AllRetired \/ st = "overflow"
    BY <1>1, <1>3 DEF BulkNormal, Completed, WaitForMore, Remaining
  <2>5. QED
    BY <1>1, <2>1, <2>2, <2>3, <2>4 DEF Outcomes
<1>4. QED
  BY <1>1, <1>2, <1>3 DEF HandleBulk

-----------------------------------------------------------------------------
(* What keeps the invariant.                                               *)

LEMMA OutcomeEmpty ==
  ASSUME urbs' = <<>>, lock' \in {"free", "report"}, disc'.i = 0
  PROVE  OutcomeInv'
<1>1. Requests' = {} /\ NumUrbs' = 0 /\ Handled' = {}
  BY DEF Requests, NumUrbs, Handled, At
<1>2. ShortInv' /\ BrokenInv' /\ OrderInv' /\ WholeInv' /\ KilledInv' /\ FailInv'
  BY <1>1 DEF ShortInv, BrokenInv, OrderInv, WholeInv, KilledInv, FailInv
<1>3. EarlyInv' /\ ControlInv' /\ IsoInv'
  BY <1>1 DEF EarlyInv, ControlInv, IsoInv
<1>4. CancelInv'
  BY DEF CancelInv
<1>5. QED
  BY <1>2, <1>3, <1>4 DEF OutcomeInv

LEMMA OutcomeBegin ==
  ASSUME TypeOK, TypeOK', PhaseInv, OutcomeInv,
         NEW k \in Kinds, NEW sp \in Splits, NEW n \in 0..MaxLength, SubmitBegin(k, sp, n)
  PROVE  OutcomeInv'
<1>1. /\ Untouched(urbs') /\ Requests' = 1..Len(urbs')
  BY SubmitBeginDoes
<1>2. \A u \in Requests' : urbs'[u].at = "none" /\ urbs'[u].st = "ok" /\ u \in Nat /\ u > 0
  BY <1>1 DEF Untouched
<1>3. Handled' = {}
  BY <1>2 DEF Handled, At
<1>4. /\ action' = "NORMAL" /\ broken' = FALSE /\ lock' = "submit" /\ transferred' = 0
      /\ offset' = 0 /\ next' = 1 /\ disc' = disc
  BY DEF SubmitBegin
<1>5. ShortInv' /\ BrokenInv' /\ OrderInv' /\ KilledInv' /\ FailInv'
  BY <1>2, <1>3, <1>4 DEF ShortInv, BrokenInv, OrderInv, KilledInv, FailInv
<1>6. EarlyInv' /\ ControlInv'
  BY <1>4 DEF EarlyInv, ControlInv
<1>7. WholeInv'
  <2>1. Requests' # {} => Submitting'
    BY <1>1, <1>4 DEF Submitting, NumUrbs
  <2>2. QED
    BY <2>1 DEF WholeInv
<1>8. IsoInv'
  <2>1. InOrder'
    BY <1>2 DEF InOrder
  <2>2. Copied'
    <3>1. Covers(urbs', n) /\ Len(urbs') \in Nat \ {0}
      BY SubmitBeginDoes
    <3>2. ASSUME NEW u \in Requests', \A w \in Requests' : w < u => w \in Handled'
          PROVE  offset' = urbs'[u].start
      <4>1. u = 1
        <5>1. 1 \in Requests' /\ 1 \notin Handled'
          BY <1>1, <1>3, <3>1
        <5>2. ~ (1 < u)
          BY <3>2, <5>1
        <5>3. QED
          BY <1>2, <5>2
      <4>2. QED
        BY <1>4, <3>1, <4>1 DEF Covers
    <3>3. QED
      BY <1>4, <3>2 DEF Copied
  <2>3. QED
    BY <2>1, <2>2 DEF IsoInv
<1>9. CancelInv'
  <2>1. disc'.i = 0
    BY <1>4 DEF SubmitBegin, OutcomeInv, CancelInv
  <2>2. QED
    BY <1>4, <2>1 DEF CancelInv
<1>10. QED
  BY <1>5, <1>6, <1>7, <1>8, <1>9 DEF OutcomeInv

\* A step that leaves the requests and what came of them alone.
LEMMA OutcomeQuiet ==
  ASSUME TypeOK, OutcomeInv,
         UNCHANGED <<urbs, done, reaped, plugged, kind, split, transferred, offset, buffer,
                     reapStatus, short, broken>>,
         cancelling => cancelling', action' = "NORMAL" => action = "NORMAL" /\ action' = action,
         action' = "COMPLETED_EARLY" => action' = action \/ Continued,
         Submitting => Submitting' \/ action' # "NORMAL",
         Discarding => Discarding' \/ Excused', CancelInv'
  PROVE  OutcomeInv'
<1>1. UNCHANGED <<NumUrbs, Requests, At("reaped"), Handled, Data, Continued, Doomed>>
  BY DEF NumUrbs, Requests, At, Handled, Data, Continued, Doomed
<1>2. Excused => Excused'
  <2>1. action # "NORMAL" => action' # "NORMAL"
    OBVIOUS
  <2>2. QED
    BY <1>1, <2>1, ExcusedStays
<1>3. ShortInv' /\ BrokenInv' /\ OrderInv'
  BY <1>1 DEF OutcomeInv, ShortInv, BrokenInv, OrderInv
<1>4. WholeInv'
  BY <1>1 DEF OutcomeInv, WholeInv
<1>5. KilledInv'
  BY <1>1, <1>2 DEF OutcomeInv, KilledInv
<1>6. FailInv' /\ ControlInv'
  BY <1>1 DEF OutcomeInv, FailInv, ControlInv
<1>7. EarlyInv'
  BY <1>1 DEF OutcomeInv, EarlyInv
<1>8. IsoInv'
  <2>1. UNCHANGED <<InOrder, Copied>>
    BY <1>1 DEF InOrder, Copied, Before
  <2>2. QED
    BY <1>1, <1>2, <2>1 DEF OutcomeInv, IsoInv
<1>9. QED
  BY <1>3, <1>4, <1>5, <1>6, <1>7, <1>8 DEF OutcomeInv

\* The kernel is done with some requests.
LEMMA OutcomeFinishes ==
  ASSUME TypeOK, RequestInv, OutcomeInv, NEW S, NEW q, Finishes(S, q),
         UNCHANGED <<kind, split, transferred, reapStatus, action, reaped, lock, next>>,
         cancelling' = cancelling, plugged' => plugged, short => short',
         \A v \in S : urbs'[v].st = "ok" /\ kind # "iso" => urbs[v].len = urbs[v].size \/ short',
         broken' => broken \/ \E v \in S : urbs'[v].st \in Failures,
         \A u \in Pending \ S, v \in S : u < v => urbs'[v].st = "killed",
         CancelInv', KilledInv', IsoInv'
  PROVE  OutcomeInv'
<1>1. /\ S \in SUBSET Requests /\ S \subseteq Pending
      /\ Requests' = Requests /\ NumUrbs' = NumUrbs
      /\ \A v \in Requests : /\ urbs'[v].len = urbs[v].len
                             /\ urbs'[v].size = urbs[v].size
                             /\ urbs'[v].at = IF v \in S THEN "done" ELSE urbs[v].at
                             /\ v \notin S => urbs'[v].st = urbs[v].st
      /\ \A v \in S : urbs[v].at = "kernel" /\ v \in Requests
  BY FinishesMoves
<1>2. Handled' = Handled /\ Handled \in SUBSET Requests /\ \A v \in Handled : v \notin S
  BY FinishesMoves
<1>3. Data' = Data /\ Continued' = Continued /\ Submitting' = Submitting
  BY <1>1 DEF Data, Continued, Submitting
<1>4. ShortInv'
  <2> SUFFICES ASSUME NEW u \in Requests, kind # "iso", urbs'[u].st = "ok",
                      urbs'[u].at \in {"done", "reaped"}
               PROVE  urbs'[u].len = urbs'[u].size \/ short'
    BY <1>1 DEF ShortInv
  <2>1. CASE u \in S
    BY <1>1, <2>1
  <2>2. CASE u \notin S
    <3>1. urbs[u].st = "ok" /\ urbs[u].at \in {"done", "reaped"}
      BY <1>1, <2>2
    <3>2. urbs[u].len = urbs[u].size \/ short
      BY <3>1 DEF OutcomeInv, ShortInv
    <3>3. QED
      BY <1>1, <3>2
  <2>3. QED
    BY <2>1, <2>2
<1>5. BrokenInv'
  <2> SUFFICES ASSUME broken', NumUrbs > 0
               PROVE  \E u \in Requests : urbs'[u].st \in Failures
    BY <1>1 DEF BrokenInv
  <2>1. CASE \E v \in S : urbs'[v].st \in Failures
    BY <1>1, <2>1
  <2>2. CASE broken
    <3>1. PICK u \in Requests : urbs[u].st \in Failures
      BY <2>2 DEF OutcomeInv, BrokenInv
    <3>2. urbs[u].st # "ok"
      BY <3>1 DEF Failures
    <3>3. u \notin S
      BY <1>1, <3>2 DEF RequestInv, LayoutInv
    <3>4. QED
      BY <1>1, <3>1, <3>3
  <2>3. QED
    BY <2>1, <2>2
<1>6. OrderInv'
  <2> SUFFICES ASSUME NEW u \in Requests, NEW v \in Requests, urbs'[u].at = "kernel", u < v
               PROVE  urbs'[v].at \in {"none", "kernel"} \/ urbs'[v].st = "killed"
    BY <1>1 DEF OrderInv
  <2>1. urbs[u].at = "kernel" /\ u \notin S
    BY <1>1
  <2>2. CASE v \in S
    BY <2>1, <2>2 DEF Pending, Requests
  <2>3. CASE v \notin S
    BY <1>1, <2>1, <2>3 DEF OutcomeInv, OrderInv
  <2>4. QED
    BY <2>2, <2>3
<1>7. WholeInv'
  <2>1. \A u \in Requests : urbs[u].at # "none" => urbs'[u].at # "none"
    BY <1>1
  <2>2. QED
    BY <1>1, <1>3, <2>1 DEF OutcomeInv, WholeInv
<1>8. FailInv'
  <2>1. \A u \in Handled : urbs'[u].st = urbs[u].st
    BY <1>1, <1>2
  <2>2. QED
    BY <1>2, <1>3, <2>1 DEF OutcomeInv, FailInv
<1>9. EarlyInv' /\ ControlInv'
  BY <1>1, <1>3 DEF OutcomeInv, EarlyInv, ControlInv
<1>10. QED
  BY <1>4, <1>5, <1>6, <1>7, <1>8, <1>9 DEF OutcomeInv

LEMMA OutcomeDiscard ==
  ASSUME TypeOK, PhaseInv, RequestInv, OutcomeInv, DiscardUrb,
         lock \in {"submit", "cancel", "handler"}
  PROVE  OutcomeInv'
<1> DEFINE u == disc.i
           d == disc'
<1>1. /\ u > 0 /\ u \in Nat /\ NumUrbs \in Nat /\ Requests = 1..NumUrbs
      /\ d.first = disc.first /\ d.last = disc.last
      /\ d.i = IF u > disc.first THEN u - 1 ELSE 0
      /\ d.ret = IF ~ plugged THEN "NO_DEVICE"
                 ELSE IF u \notin Pending /\ u = disc.last THEN "NOT_FOUND" ELSE disc.ret
      /\ disc.ret \in {"ok", "NO_DEVICE", "NOT_FOUND"}
  BY RequestsType DEF DiscardUrb, TypeOK
<1>2. UNCHANGED <<plugged, kind, split, transferred, offset, buffer, reapStatus, short, broken,
                  cancelling, action, lock, next, reaped>>
  BY DEF DiscardUrb, kernel, request, private, device
<1>3. CancelInv
  BY DEF OutcomeInv
<1>4. ASSUME lock = "cancel"
      PROVE  /\ cancelling /\ u \in 1..NumUrbs /\ d.i \in 0..NumUrbs /\ d.i < NumUrbs
             /\ d.first = 1 /\ d.last = NumUrbs /\ disc.last = NumUrbs
             /\ d.ret = "NO_DEVICE" => ~ plugged
             /\ d.ret = "NOT_FOUND" => disc.ret = "NOT_FOUND" \/ (u = NumUrbs /\ u \notin Pending)
             /\ disc.ret = "NO_DEVICE" => ~ plugged
             /\ disc.ret = "NOT_FOUND" /\ kind # "control" => At("kernel") = {} \/ Excused
             /\ Discarding => d.ret = "ok" \/ ~ plugged
  <2>1. /\ cancelling /\ disc.first = 1 /\ disc.last = NumUrbs /\ disc.i \in 0..NumUrbs
        /\ disc.ret = "NO_DEVICE" => ~ plugged
        /\ disc.ret = "NOT_FOUND" /\ kind # "control" => At("kernel") = {} \/ Excused
    BY <1>3, <1>4 DEF CancelInv
  <2>2. u \in 1..NumUrbs /\ d.i \in 0..NumUrbs /\ d.i < NumUrbs
    BY <1>1, <2>1
  <2>3. d.ret = "NO_DEVICE" => ~ plugged
    BY <1>1, <2>1
  <2>4. d.ret = "NOT_FOUND" => disc.ret = "NOT_FOUND" \/ (u = NumUrbs /\ u \notin Pending)
    BY <1>1, <2>1
  <2>5. Discarding => d.ret = "ok" \/ ~ plugged
    BY <1>1, <2>1 DEF Discarding
  <2>6. QED
    BY <1>1, <2>1, <2>2, <2>3, <2>4, <2>5
<1>5. lock \in {"submit", "handler"} => Excused \/ kind = "control"
  <2>1. CASE lock = "submit"
    BY <1>1, <1>3, <2>1 DEF CancelInv, Excused
  <2>2. CASE lock = "handler"
    BY <1>3, <2>2 DEF CancelInv, Excused
  <2>3. QED
    BY <2>1, <2>2
<1> HIDE DEF u, d
<1>6. CASE plugged /\ u \in Pending
  <2>1. Finishes({u}, <<u>>) /\ urbs'[u].st = "killed"
    BY <1>6, DiscardUrbDoes DEF u
  <2>2. /\ u \in Requests /\ urbs[u].at = "kernel"
        /\ Requests' = Requests /\ NumUrbs' = NumUrbs
        /\ \A v \in Requests : urbs'[v].at = IF v = u THEN "done" ELSE urbs[v].at
    BY <1>2, <2>1, FinishesMoves
  <2>3. Excused => Excused'
    <3>1. ~ Doomed
      BY <1>6 DEF Doomed
    <3>2. QED
      BY <1>2, <3>1, ExcusedStays
  <2>4. lock = "cancel" /\ kind # "control" => Excused' \/ Discarding'
    <3> SUFFICES ASSUME lock = "cancel", kind # "control"
                 PROVE  Excused' \/ Discarding'
      OBVIOUS
    <3>1. CASE d.ret = "ok"
      BY <1>2, <1>4, <2>2, <3>1 DEF Discarding, d
    <3>2. CASE d.ret # "ok"
      <4>1. d.ret = disc.ret /\ disc.ret = "NOT_FOUND"
        BY <1>1, <1>4, <1>6, <3>2 
      <4>2. At("kernel") # {}
        BY <2>2 DEF At
      <4>3. Excused
        BY <1>4, <4>1, <4>2
      <4>4. QED
        BY <2>3, <4>3
    <3>3. QED
      BY <3>1, <3>2
  <2>5. CancelInv'
    <3>1. CASE lock = "cancel"
      <4>1. d.ret = "NOT_FOUND" /\ kind # "control" => Excused'
        <5>1. Discarding' => d.ret = "ok"
          BY DEF Discarding, d
        <5>2. QED
          BY <2>4, <3>1, <5>1
      <4>2. QED
        BY <1>2, <1>4, <2>2, <3>1, <4>1 DEF CancelInv, d
    <3>2. CASE lock = "submit"
      BY <1>1, <1>2, <1>3, <3>2 DEF CancelInv, u
    <3>3. CASE lock = "handler"
      BY <1>2, <1>3, <3>3 DEF CancelInv, Data
    <3>4. QED
      BY <3>1, <3>2, <3>3
  <2>6. kind # "control" => Excused' \/ Discarding'
    BY <1>5, <2>3, <2>4
  <2>7. KilledInv' /\ IsoInv'
    BY <1>2, <2>6 DEF KilledInv, IsoInv
  <2>8. \A w \in Pending \ {u}, v \in {u} : w < v => urbs'[v].st = "killed"
    BY <2>1
  <2>9. QED
    BY <1>2, <2>1, <2>5, <2>7, <2>8, OutcomeFinishes
<1>7. CASE ~ (plugged /\ u \in Pending)
  <2>1. UNCHANGED <<urbs, done>>
    BY <1>7, DiscardUrbDoes DEF u
  <2>2. UNCHANGED <<NumUrbs, Requests, At("kernel"), Continued, Doomed, Submitting>>
    BY <1>2, <2>1 DEF NumUrbs, Requests, At, Continued, Doomed, Submitting
  <2>3. Excused => Excused'
    BY <1>2, <2>2, ExcusedStays
  <2>4. Discarding => Discarding' \/ Excused'
    <3> SUFFICES ASSUME Discarding PROVE Discarding' \/ Excused'
      OBVIOUS
    <3>1. lock = "cancel"
      BY DEF Discarding
    <3>2. CASE d.ret = "ok"
      BY <1>2, <1>4, <2>2, <3>1, <3>2 DEF Discarding, d
    <3>3. CASE ~ plugged
      BY <1>2, <1>4, <3>1, <3>3 DEF Excused
    <3>4. QED
      BY <1>4, <3>1, <3>2, <3>3
  <2>5. ASSUME lock = "cancel", d.ret = "NOT_FOUND", kind # "control"
        PROVE  At("kernel") = {} \/ Excused'
    <3>1. CASE disc.ret = "NOT_FOUND"
      BY <1>4, <2>3, <2>5, <3>1
    <3>2. CASE u = NumUrbs /\ u \notin Pending /\ disc.ret # "NOT_FOUND"
      <4>1. u \in Requests /\ urbs[u].at # "kernel" /\ ~ Discarding
        BY <1>1, <1>4, <2>5, <3>2 DEF Pending, Requests, Discarding, u
      <4>2. CASE action # "NORMAL"
        BY <2>3, <4>2 DEF Excused
      <4>3. CASE urbs[u].st = "killed"
        BY <2>3, <2>5, <4>1, <4>3 DEF OutcomeInv, KilledInv
      <4>4. CASE action = "NORMAL" /\ urbs[u].st # "killed"
        <5>1. urbs[u].at # "none"
          BY <2>5, <4>1, <4>4 DEF OutcomeInv, WholeInv, Submitting
        <5>2. \A w \in Requests : w < u => urbs[w].at # "kernel"
          BY <4>1, <4>4, <5>1 DEF OutcomeInv, OrderInv
        <5>3. \A w \in Requests : w < u \/ w = u
          BY <1>1, <3>2
        <5>4. QED
          BY <4>1, <5>2, <5>3 DEF At
      <4>5. QED
        BY <4>2, <4>3, <4>4
    <3>3. QED
      BY <1>4, <2>5, <3>1, <3>2
  <2>6. CancelInv'
    <3>1. CASE lock = "cancel"
      BY <1>2, <1>4, <2>2, <2>5, <3>1 DEF CancelInv, d
    <3>2. CASE lock = "submit"
      BY <1>1, <1>2, <1>3, <3>2 DEF CancelInv, u
    <3>3. CASE lock = "handler"
      BY <1>2, <1>3, <3>3 DEF CancelInv, Data
    <3>4. QED
      BY <3>1, <3>2, <3>3
  <2>7. QED
    BY <1>2, <2>1, <2>2, <2>4, <2>6, OutcomeQuiet
<1>8. QED
  BY <1>6, <1>7

\* The requests of an isochronous transfer that end go behind those that are over.
LEMMA InOrderFinishes ==
  ASSUME TypeOK, RequestInv, InOrder, NEW S, NEW q, Finishes(S, q), reaped' = reaped,
         \A v \in S : S = {v} /\ \A w \in Pending : v <= w
  PROVE  InOrder'
<1>1. /\ Requests' = Requests
      /\ \A v \in Requests : urbs'[v].at = IF v \in S THEN "done" ELSE urbs[v].at
      /\ \A v \in S : urbs[v].at = "kernel" /\ v \in Requests
  BY FinishesMoves
<1> SUFFICES ASSUME NEW u \in Requests, NEW v \in Requests, u < v, urbs'[v].at \in {"done", "reaped"}
             PROVE  Before(u, v)'
  BY <1>1 DEF InOrder
<1>2. CASE v \notin S
  <2>1. Before(u, v)
    BY <1>1, <1>2 DEF InOrder
  <2>2. QED
    BY <2>1, BeforeFinishes
<1>3. CASE v \in S
  <2>1. u \in Nat /\ v \in Nat /\ urbs[u].at \in Places
    BY RequestsType DEF Urb
  <2>2. urbs[u].at # "kernel"
    BY <1>3, <2>1 DEF Pending, Requests
  <2>3. urbs[u].at # "none"
    BY <1>1, <1>3 DEF RequestInv, SubmitInv
  <2>4. Before(u, v)
    BY <1>1, <1>3, <2>1, <2>2, <2>3 DEF Before, Places
  <2>5. QED
    BY <2>4, BeforeFinishes
<1>4. QED
  BY <1>2, <1>3

LEMMA OutcomeEnds ==
  ASSUME TypeOK, PhaseInv, RequestInv, OutcomeInv, UrbEnds \/ UrbFails
  PROVE  OutcomeInv'
<1>1. PICK S \in SUBSET Pending, q \in Seq(Nat) :
            /\ Current \in S /\ Finishes(S, q)
            /\ \A v \in S : v # Current => urbs'[v].st = "killed"
            /\ S = {Current} \/ (S = Pending /\ Continued /\ (short' \/ broken'))
            /\ \/ /\ urbs'[Current].st = "ok" /\ broken' = broken
                  /\ kind = "iso" \/ ~ urbs[Current].len < urbs[Current].size \/ short'
               \/ urbs'[Current].st \in Failures
  BY EndsFully
<1> DEFINE c == Current
<1>2. /\ UNCHANGED <<kind, split, transferred, offset, buffer, reapStatus, action, reaped, lock,
                     next, cancelling, plugged, disc>>
      /\ plugged /\ (short => short') /\ (broken => broken')
  <2>1. UNCHANGED <<kind, split, transferred, offset, buffer, reapStatus, action, reaped, lock,
                     next, cancelling, plugged, disc>>
    <3>1. CASE UrbEnds
      BY <3>1 DEF UrbEnds, Ends, kernel, request, private
    <3>2. CASE UrbFails
      BY <3>2 DEF UrbFails, Ends, kernel, request, private
    <3>3. QED
      BY <3>1, <3>2
  <2>2. plugged /\ (short => short') /\ (broken => broken')
    <3>1. CASE UrbEnds
      BY <3>1 DEF UrbEnds
    <3>2. CASE UrbFails
      BY <3>2 DEF UrbFails
    <3>3. QED
      BY <3>1, <3>2
  <2>3. QED
    BY <2>1, <2>2
<1>3. /\ c \in Pending /\ c \in Requests /\ c \in Nat /\ \A v \in Pending : c <= v
      /\ Pending \in SUBSET Nat
  BY CurrentIs, RequestsType DEF UrbEnds, UrbFails
<1>4. /\ Requests' = Requests /\ NumUrbs' = NumUrbs /\ Handled' = Handled
      /\ \A v \in Requests : /\ urbs'[v].at = IF v \in S THEN "done" ELSE urbs[v].at
                             /\ urbs'[v].start = urbs[v].start
                             /\ v \notin S => urbs'[v].st = urbs[v].st
  BY <1>1, <1>2, FinishesMoves
<1>5. Excused => Excused'
  <2>1. ~ Doomed
    BY <1>2 DEF Doomed
  <2>2. QED
    BY <1>2, <2>1, ExcusedStays
<1>6. Discarding' = Discarding
  BY <1>2, <1>4 DEF Discarding
<1>7. S # {c} => Excused'
  BY <1>1, <1>2 DEF Excused, Data, Continued
<1>8. CancelInv'
  <2>1. At("kernel")' \subseteq At("kernel")
    BY <1>4 DEF At
  <2>2. QED
    BY <1>2, <1>4, <1>5, <2>1 DEF OutcomeInv, CancelInv, Data
<1>9. KilledInv'
  <2> SUFFICES ASSUME kind # "control", NEW u \in Requests, urbs'[u].st = "killed"
               PROVE  Excused' \/ Discarding'
    BY <1>2, <1>4 DEF KilledInv
  <2>1. CASE u \in S /\ S = {c}
    <3>1. u = c
      BY <2>1
    <3>2. urbs'[c].st \in Failures \cup {"ok"}
      BY <1>1
    <3>3. QED
      BY <3>1, <3>2 DEF Failures
  <2>2. CASE u \notin S
    BY <1>4, <1>5, <1>6, <2>2 DEF OutcomeInv, KilledInv
  <2>3. QED
    BY <1>7, <2>1, <2>2
<1>10. IsoInv'
  <2> SUFFICES ASSUME kind = "iso", NumUrbs > 0, ~ Excused', ~ Discarding'
               PROVE  InOrder' /\ Copied'
    BY <1>2, <1>4 DEF IsoInv
  <2>1. InOrder /\ Copied /\ S = {c}
    BY <1>5, <1>6, <1>7 DEF OutcomeInv, IsoInv
  <2>2. InOrder'
    <3>1. \A v \in S : S = {v} /\ \A w \in Pending : v <= w
      BY <1>3, <2>1
    <3>2. QED
      BY <1>1, <1>2, <2>1, <3>1, InOrderFinishes
  <2>3. Copied'
    BY <1>2, <1>4, <2>1 DEF Copied
  <2>4. QED
    BY <2>2, <2>3
<1>11. \A v \in S : urbs'[v].st = "ok" /\ kind # "iso" => urbs[v].len = urbs[v].size \/ short'
  <2> SUFFICES ASSUME NEW v \in S, urbs'[v].st = "ok", kind # "iso"
               PROVE  urbs[v].len = urbs[v].size \/ short'
    OBVIOUS
  <2>1. v = c
    BY <1>1
  <2>2. ~ urbs[c].len < urbs[c].size \/ short'
    BY <1>1, <2>1 DEF Failures
  <2>3. urbs[c].len <= urbs[c].size /\ urbs[c].len \in Nat /\ urbs[c].size \in Nat
    BY <1>3, RequestsType DEF RequestInv, LayoutInv, Urb
  <2>4. QED
    BY <2>1, <2>2, <2>3
<1>12. broken' => broken \/ \E v \in S : urbs'[v].st \in Failures
  BY <1>1
<1>13. \A u \in Pending \ S, v \in S : u < v => urbs'[v].st = "killed"
  <2> SUFFICES ASSUME NEW u \in Pending \ S, NEW v \in S, u < v
               PROVE  urbs'[v].st = "killed"
    OBVIOUS
  <2>1. S # Pending
    OBVIOUS
  <2>2. v = c
    BY <1>1, <2>1
  <2>3. c <= u /\ u \in Nat
    BY <1>3
  <2>4. QED
    BY <1>3, <2>2, <2>3
<1> HIDE DEF c
<1>14. QED
  BY <1>1, <1>2, <1>8, <1>9, <1>10, <1>11, <1>12, <1>13, OutcomeFinishes

LEMMA OutcomeUnplug ==
  ASSUME TypeOK, PhaseInv, RequestInv, OutcomeInv, Unplug
  PROVE  OutcomeInv'
<1>1. PICK q \in Seq(Nat) : Finishes(Pending, q) /\ \A v \in Pending : urbs'[v].st = "shutdown"
  BY UnplugDoes
<1>2. /\ UNCHANGED <<kind, split, transferred, offset, buffer, reapStatus, action, reaped, lock,
                     next, cancelling, disc, short, broken>>
      /\ plugged /\ ~ plugged'
  BY DEF Unplug, request, private, device
<1>3. /\ Requests' = Requests /\ NumUrbs' = NumUrbs /\ Handled' = Handled
      /\ Pending \in SUBSET Requests
      /\ done' = done \o q /\ Lists(q, Pending)
      /\ \A v \in Requests : /\ urbs'[v].at = IF v \in Pending THEN "done" ELSE urbs[v].at
                             /\ urbs'[v].start = urbs[v].start
                             /\ v \notin Pending => urbs'[v].st = urbs[v].st
  BY <1>1, <1>2, FinishesMoves
<1>4. Excused => Excused'
  <2>1. ~ Doomed
    BY <1>2 DEF Doomed
  <2>2. QED
    BY <1>2, <2>1, ExcusedStays
<1>5. Discarding' = Discarding
  BY <1>2, <1>3 DEF Discarding
<1>6. CancelInv'
  <2>1. At("kernel")' \subseteq At("kernel")
    BY <1>3 DEF At
  <2>2. QED
    BY <1>2, <1>3, <1>4, <2>1 DEF OutcomeInv, CancelInv, Data
<1>7. KilledInv'
  <2> SUFFICES ASSUME kind # "control", NEW u \in Requests, urbs'[u].st = "killed"
               PROVE  Excused' \/ Discarding'
    BY <1>2, <1>3 DEF KilledInv
  <2>1. u \notin Pending
    BY <1>1
  <2>2. QED
    BY <1>3, <1>4, <1>5, <2>1 DEF OutcomeInv, KilledInv
<1>8. IsoInv'
  <2> SUFFICES ASSUME kind = "iso", NumUrbs > 0, ~ Excused', ~ Discarding'
               PROVE  InOrder' /\ Copied'
    BY <1>2, <1>3 DEF IsoInv
  <2>1. InOrder /\ Copied
    BY <1>4, <1>5 DEF OutcomeInv, IsoInv
  <2>2. CASE Pending = {}
    <3>1. InOrder'
      BY <1>1, <1>2, <2>1, <2>2, InOrderFinishes
    <3>2. Copied'
      BY <1>2, <1>3, <2>1 DEF Copied
    <3>3. QED
      BY <3>1, <3>2
  <2>3. CASE Pending # {}
    <3>1. /\ done \in Seq(Nat) /\ q \in Seq(Nat) /\ Len(done) \in Nat /\ Len(q) \in Nat
          /\ DOMAIN q = 1..Len(q)
      BY <1>3, LenProperties DEF Lists, TypeOK
    <3>2. DOMAIN q # {}
      BY <1>3, <2>3 DEF Lists
    <3>3. Len(q) \in 1..Len(q)
      BY <3>1, <3>2
    <3>4. /\ done' \in Seq(Nat) /\ Len(done') = Len(done) + Len(q)
          /\ done'[Len(done) + Len(q)] = q[Len(q)]
      BY <1>3, <3>1, <3>3, ConcatProperties
    <3>5. done' # <<>>
      BY <3>1, <3>3, <3>4, EmptyIff
    <3>6. q[Len(q)] \in Pending
      BY <1>3, <3>1, <3>3 DEF Lists
    <3>7. Doomed'
      BY <1>1, <1>2, <3>4, <3>5, <3>6 DEF Doomed
    <3>8. QED
      BY <1>2, <3>7 DEF Excused
  <2>4. QED
    BY <2>2, <2>3
<1>9. QED
  BY <1>1, <1>2, <1>6, <1>7, <1>8, OutcomeFinishes

LEMMA OutcomeSubmit ==
  ASSUME TypeOK, PhaseInv, RequestInv, OutcomeInv, SubmitUrb
  PROVE  OutcomeInv'
<1>1. /\ UNCHANGED <<plugged, kind, split, transferred, offset, buffer, action, done, reaped,
                     reapStatus, cancelling, short, broken, lock, disc>>
      /\ plugged /\ lock = "submit" /\ disc.i = 0 /\ next' = next + 1
  BY DEF SubmitUrb, kernel, request, private, device
<1>2. /\ Requests' = Requests /\ NumUrbs' = NumUrbs /\ Handled' = Handled /\ next \in Requests
      /\ \A v \in Requests : /\ urbs'[v].len = urbs[v].len
                             /\ urbs'[v].size = urbs[v].size
                             /\ urbs'[v].start = urbs[v].start
                             /\ urbs'[v].st = urbs[v].st
                             /\ urbs'[v].at = IF v = next THEN "kernel" ELSE urbs[v].at
      /\ \A v \in Requests : v >= next => urbs[v].at = "none"
      /\ Handled \in SUBSET Requests
  BY SubmitMoves
<1>3. Requests = 1..NumUrbs /\ NumUrbs \in Nat
  BY RequestsType
<1>4. Data' = Data /\ Continued' = Continued
  BY <1>1 DEF Data, Continued
<1>5. Excused => Excused'
  <2>1. ~ Doomed
    BY <1>1 DEF Doomed
  <2>2. QED
    BY <1>1, <2>1, ExcusedStays
<1>6. ShortInv' /\ BrokenInv'
  BY <1>1, <1>2 DEF OutcomeInv, ShortInv, BrokenInv
<1>7. OrderInv'
  <2> SUFFICES ASSUME NEW u \in Requests, NEW v \in Requests, urbs'[u].at = "kernel", u < v
               PROVE  urbs'[v].at \in {"none", "kernel"} \/ urbs'[v].st = "killed"
    BY <1>2 DEF OrderInv
  <2>1. CASE v >= next
    <3>1. urbs[v].at = "none"
      BY <1>2, <2>1
    <3>2. QED
      BY <1>2, <3>1
  <2>2. CASE ~ (v >= next)
    <3>1. u # next /\ v # next
      BY <1>2, <1>3, <2>2
    <3>2. urbs[u].at = "kernel" /\ urbs'[v].at = urbs[v].at
      BY <1>2, <3>1
    <3>3. QED
      BY <1>2, <3>2 DEF OutcomeInv, OrderInv
  <2>3. QED
    BY <2>1, <2>2
<1>8. WholeInv'
  <2> SUFFICES ASSUME ~ Submitting', NEW u \in Requests
               PROVE  urbs'[u].at # "none"
    BY <1>2 DEF WholeInv
  <2>1. next = NumUrbs /\ Submitting
    BY <1>1, <1>2, <1>3 DEF Submitting
  <2>2. CASE u = next
    BY <1>2, <2>2
  <2>3. CASE u # next
    <3>1. u < next
      BY <1>3, <2>1, <2>3
    <3>2. urbs[u].at # "none"
      BY <2>1, <3>1 DEF RequestInv, SubmitInv
    <3>3. QED
      BY <1>2, <2>3, <3>2
  <2>4. QED
    BY <2>2, <2>3
<1>9. KilledInv'
  <2>1. ~ Discarding
    BY <1>1 DEF Discarding
  <2>2. QED
    BY <1>1, <1>2, <1>5, <2>1 DEF OutcomeInv, KilledInv
<1>10. CancelInv'
  BY <1>1 DEF CancelInv
<1>11. FailInv'
  BY <1>1, <1>2, <1>4 DEF OutcomeInv, FailInv
<1>12. EarlyInv' /\ ControlInv'
  BY <1>1, <1>2, <1>4 DEF OutcomeInv, EarlyInv, ControlInv
<1>13. IsoInv'
  <2> SUFFICES ASSUME kind = "iso", NumUrbs > 0, ~ Excused'
               PROVE  InOrder' /\ Copied'
    BY <1>1, <1>2 DEF IsoInv
  <2>1. InOrder /\ Copied
    BY <1>1, <1>5 DEF OutcomeInv, IsoInv, Discarding
  <2>2. InOrder'
    <3> SUFFICES ASSUME NEW u \in Requests, NEW v \in Requests, u < v, urbs'[v].at \in {"done", "reaped"}
                 PROVE  Before(u, v)'
      BY <1>2 DEF InOrder
    <3>1. v # next /\ urbs[v].at \in {"done", "reaped"}
      BY <1>2
    <3>2. Before(u, v) /\ urbs[v].at # "kernel"
      BY <2>1, <3>1 DEF InOrder
    <3>3. QED
      BY <1>1, <1>2, <3>2 DEF Before
  <2>3. Copied'
    BY <1>1, <1>2, <2>1 DEF Copied
  <2>4. QED
    BY <2>2, <2>3
<1>14. QED
  BY <1>6, <1>7, <1>8, <1>9, <1>10, <1>11, <1>12, <1>13 DEF OutcomeInv

LEMMA OutcomeReap ==
  ASSUME TypeOK, TypeOK', PhaseInv, RequestInv, OutcomeInv, Reap
  PROVE  OutcomeInv'
<1> DEFINE r == reaped'
<1>1. UNCHANGED <<plugged, kind, split, transferred, offset, buffer, action,
                  reapStatus, cancelling, short, broken, lock, disc, next>>
  BY DEF Reap, kernel, request, private, device
<1>2. /\ Requests' = Requests /\ NumUrbs' = NumUrbs /\ Handled' = Handled
      /\ r \in Requests /\ urbs[r].at = "done"
      /\ \A v \in Requests : /\ urbs'[v].len = urbs[v].len
                             /\ urbs'[v].size = urbs[v].size
                             /\ urbs'[v].start = urbs[v].start
                             /\ urbs'[v].st = urbs[v].st
                             /\ urbs'[v].at = IF v = r THEN "reaped" ELSE urbs[v].at
      /\ Handled \in SUBSET Requests
  BY ReapMoves
<1> HIDE DEF r
<1>3. /\ Data' = Data /\ Continued' = Continued /\ Submitting' = Submitting
      /\ Discarding' = Discarding /\ At("kernel")' = At("kernel")
  <2>1. At("kernel")' = At("kernel")
    BY <1>2 DEF At
  <2>2. QED
    BY <1>1, <1>2, <2>1 DEF Data, Continued, Submitting, Discarding
<1>4. Excused => Excused'
  BY <1>1, DoomedReap, ExcusedStays
<1>5. ShortInv' /\ BrokenInv'
  BY <1>1, <1>2 DEF OutcomeInv, ShortInv, BrokenInv
<1>6. OrderInv' /\ WholeInv'
  BY <1>1, <1>2, <1>3 DEF OutcomeInv, OrderInv, WholeInv
<1>7. KilledInv'
  BY <1>1, <1>2, <1>3, <1>4 DEF OutcomeInv, KilledInv
<1>8. CancelInv'
  BY <1>1, <1>2, <1>3, <1>4 DEF OutcomeInv, CancelInv
<1>9. FailInv'
  BY <1>1, <1>2, <1>3 DEF OutcomeInv, FailInv
<1>10. EarlyInv' /\ ControlInv'
  BY <1>1, <1>2, <1>3 DEF OutcomeInv, EarlyInv, ControlInv
<1>11. IsoInv'
  <2> SUFFICES ASSUME kind = "iso", NumUrbs > 0, ~ Excused', ~ Discarding'
               PROVE  InOrder' /\ Copied'
    BY <1>1, <1>2 DEF IsoInv
  <2>1. InOrder /\ Copied
    BY <1>3, <1>4 DEF OutcomeInv, IsoInv
  <2>2. InOrder'
    <3> SUFFICES ASSUME NEW u \in Requests, NEW v \in Requests, u < v, urbs'[v].at \in {"done", "reaped"}
                 PROVE  Before(u, v)'
      BY <1>2 DEF InOrder
    <3>1. urbs[v].at \in {"done", "reaped"}
      BY <1>2
    <3>2. Before(u, v)
      BY <2>1, <3>1 DEF InOrder
    <3>3. QED
      BY <3>2, BeforeReap
  <2>3. Copied'
    BY <1>1, <1>2, <2>1 DEF Copied
  <2>4. QED
    BY <2>2, <2>3
<1>12. QED
  BY <1>5, <1>6, <1>7, <1>8, <1>9, <1>10, <1>11 DEF OutcomeInv

LEMMA OutcomeDeliver ==
  ASSUME TypeOK, PhaseInv, RequestInv, OutcomeInv, Deliver
  PROVE  OutcomeInv'
<1> DEFINE c == Current
<1>1. /\ UNCHANGED <<plugged, kind, split, transferred, offset, action, done, reaped,
                     reapStatus, cancelling, short, broken, lock, disc, next>>
      /\ kind # "iso" /\ plugged
  BY DEF Deliver, kernel, request, private
<1>2. /\ Requests' = Requests /\ NumUrbs' = NumUrbs /\ c \in Requests /\ urbs[c].at = "kernel"
      /\ \A v \in Requests : /\ v # c => urbs'[v].len = urbs[v].len
                             /\ urbs'[v].size = urbs[v].size
                             /\ urbs'[v].st = urbs[v].st
                             /\ urbs'[v].at = urbs[v].at
  BY DeliverDoes, CurrentIs DEF Pending, Requests
<1> HIDE DEF c
<1>3. /\ Data' = Data /\ Continued' = Continued /\ Submitting' = Submitting
      /\ Discarding' = Discarding /\ At("kernel")' = At("kernel") /\ Handled' = Handled
      /\ Handled \in SUBSET Requests
  <2>1. At("kernel")' = At("kernel") /\ At("reaped")' = At("reaped")
    BY <1>2 DEF At
  <2>2. QED
    BY <1>1, <1>2, <2>1 DEF Data, Continued, Submitting, Discarding, Handled, At
<1>4. Excused => Excused'
  <2>1. ~ Doomed
    BY <1>1 DEF Doomed
  <2>2. QED
    BY <1>1, <2>1, ExcusedStays
<1>5. ShortInv' /\ BrokenInv'
  BY <1>1, <1>2 DEF OutcomeInv, ShortInv, BrokenInv
<1>6. OrderInv' /\ WholeInv'
  BY <1>1, <1>2, <1>3 DEF OutcomeInv, OrderInv, WholeInv
<1>7. KilledInv'
  BY <1>1, <1>2, <1>3, <1>4 DEF OutcomeInv, KilledInv
<1>8. CancelInv'
  BY <1>1, <1>2, <1>3, <1>4 DEF OutcomeInv, CancelInv
<1>9. FailInv'
  BY <1>1, <1>2, <1>3 DEF OutcomeInv, FailInv
<1>10. EarlyInv' /\ ControlInv'
  BY <1>1, <1>2, <1>3 DEF OutcomeInv, EarlyInv, ControlInv
<1>11. IsoInv'
  BY <1>1 DEF IsoInv
<1>12. QED
  BY <1>5, <1>6, <1>7, <1>8, <1>9, <1>10, <1>11 DEF OutcomeInv

\* A request of an isochronous transfer that is handled in its turn is the first one
\* that was not, and its results go where they belong.
LEMMA IsoInTurn ==
  ASSUME TypeOK, PhaseInv, RequestInv, HandleUrb, kind = "iso", InOrder, Copied
  PROVE  LET r == reaped IN
         /\ r \in Requests /\ r \notin Handled
         /\ \A w \in Requests : IF w < r THEN w \in Handled ELSE w \notin Handled
         /\ offset = urbs[r].start /\ offset' = urbs[r].start + urbs[r].size
         /\ \A i \in 1..offset' : buffer'[i] = i
<1> DEFINE r == reaped
<1>1. /\ r \in Requests /\ urbs[r].at = "reaped" /\ r \notin Handled /\ HandleIso(r)
      /\ Requests = 1..NumUrbs /\ NumUrbs \in Nat
  BY HandleUrbDoes, RequestsType DEF RequestInv, At, Handled, HandleUrb, HandleBulk, HandleControl
<1>2. \A i \in DOMAIN done : done[i] # r
  <2>1. \A i \in DOMAIN done : done[i] \in At("done")
    BY DEF RequestInv, ReapInv, Lists
  <2>2. QED
    BY <1>1, <2>1 DEF At
<1>3. ASSUME NEW w \in Requests, w < r
      PROVE  w \in Handled
  <2>1. Before(w, r)
    BY <1>1, <1>3 DEF InOrder
  <2>2. w # r
    BY <1>1, <1>3
  <2>3. QED
    BY <1>1, <1>2, <2>1, <2>2 DEF Before
<1>4. ASSUME NEW w \in Requests, r < w
      PROVE  w \notin Handled
  <2> SUFFICES ASSUME w \in Handled PROVE FALSE
    OBVIOUS
  <2>1. urbs[w].at = "reaped"
    BY DEF Handled, At
  <2>2. Before(r, w)
    BY <1>1, <1>4, <2>1 DEF InOrder
  <2>3. QED
    BY <1>1, <1>2, <2>1, <2>2 DEF Before
<1>5. offset = urbs[r].start
  BY <1>1, <1>3 DEF Copied
<1>6. offset' = urbs[r].start + urbs[r].size /\ buffer' = IsoResults(r)
  BY <1>1, <1>5 DEF HandleIso
<1>7. /\ urbs[r].start \in Nat /\ urbs[r].size \in Nat /\ length \in Nat
      /\ urbs[r].start + urbs[r].size <= length /\ DOMAIN buffer = 1..length
  <2>1. urbs[r] \in Urb /\ NumUrbs > 0
    BY <1>1, RequestsType
  <2>2. urbs[r].start + urbs[r].size <= length
    BY <1>1, <2>1 DEF RequestInv, LayoutInv, Covers, NumUrbs
  <2>3. QED
    BY <2>1, <2>2 DEF Urb, TypeOK
<1>8. ASSUME NEW i \in 1..offset'
      PROVE  buffer'[i] = i
  <2> DEFINE s == urbs[r].start
             n == urbs[r].size
  <2>1. s \in Nat /\ n \in Nat /\ length \in Nat /\ s + n <= length /\ i \in 1..s + n /\ offset = s
    BY <1>5, <1>6, <1>7, <1>8
  <2>2. buffer'[i] = IF i \in s + 1..s + n THEN s + i - s ELSE buffer[i]
    <3>1. i \in DOMAIN buffer
      <4> HIDE DEF s, n
      <4>1. i \in 1..length
        BY <2>1
      <4>2. QED
        BY <1>7, <4>1
    <3>2. QED
      BY <1>5, <1>6, <3>1 DEF IsoResults
  <2>3. i \in 1..s => buffer[i] = i
    BY <2>1 DEF Copied
  <2> HIDE DEF s, n
  <2>4. CASE i \in s + 1..s + n
    BY <2>1, <2>2, <2>4
  <2>5. CASE i \notin s + 1..s + n
    <3>1. i \in 1..s
      BY <2>1, <2>5
    <3>2. QED
      BY <2>2, <2>3, <2>5, <3>1
  <2>6. QED
    BY <2>4, <2>5
<1>9. ASSUME NEW w \in Requests
      PROVE  IF w < r THEN w \in Handled ELSE w \notin Handled
  <2>1. CASE w < r
    BY <1>3, <2>1
  <2>2. CASE w = r
    BY <1>1, <2>2
  <2>3. CASE r < w
    BY <1>1, <1>4, <2>3
  <2>4. QED
    BY <1>1, <2>1, <2>2, <2>3
<1>10. QED
  BY <1>1, <1>5, <1>6, <1>8, <1>9

LEMMA OutcomeHandled ==
  ASSUME TypeOK, PhaseInv, RequestInv, OutcomeInv, HandleUrb, urbs' = urbs
  PROVE  OutcomeInv'
<1> DEFINE r == reaped
<1>1. /\ r \in Requests /\ urbs[r].at = "reaped" /\ r \notin Handled /\ r # 0
      /\ reaped' = 0 /\ Requests = 1..NumUrbs /\ NumUrbs \in Nat /\ urbs[r] \in Urb
      /\ UNCHANGED <<plugged, kind, split, length, done, cancelling, short, broken, next>>
      /\ lock = "free" /\ lock' \in {"free", "handler"}
  <2>1. r \in Requests /\ urbs[r].at = "reaped" /\ r \notin Handled
    BY HandleUrbDoes DEF RequestInv, At, Handled
  <2>2. urbs # <<>>
    BY <2>1 DEF Requests
  <2>3. lock' \in {"free", "handler"}
    BY <2>2, HandleUrbDoes DEF RequestInv
  <2>4. QED
    BY <2>1, <2>3, RequestsType DEF HandleUrb, kernel, request
<1>2. /\ NumUrbs' = NumUrbs /\ Requests' = Requests /\ At("reaped")' = At("reaped")
      /\ At("kernel")' = At("kernel") /\ Data' = Data /\ Continued' = Continued
  BY <1>1 DEF NumUrbs, Requests, At, Data, Continued
<1>3. Handled' = Handled \cup {r}
  <2>1. Handled' = At("reaped") \ {0}
    BY <1>1, <1>2 DEF Handled
  <2>2. 0 \notin At("reaped") /\ r \in At("reaped")
    BY <1>1 DEF At
  <2>3. QED
    BY <2>1, <2>2 DEF Handled
<1>4. kind \in {"iso", "control"} => action' = action /\ lock' = "free"
  <2>1. CASE HandleIso(r)
    BY <1>1, <2>1 DEF HandleIso, Completed, WaitForMore
  <2>2. CASE HandleControl(r)
    BY <1>1, <2>2 DEF HandleControl, Completed
  <2>3. QED
    BY <2>1, <2>2 DEF HandleUrb, HandleBulk
<1>5. kind # "control"
  <2> SUFFICES ASSUME kind = "control" PROVE FALSE
    OBVIOUS
  <2>1. lock' = "report"
    BY DEF HandleUrb, HandleBulk, HandleIso, HandleControl, Completed
  <2>2. QED
    BY <1>1, <2>1
<1>6. kind \in Kinds /\ (Data \/ kind = "iso")
  BY <1>5 DEF TypeOK, Kinds, Data
<1> HIDE DEF r
<1>7. action' = "NORMAL" => action = "NORMAL"
  BY <1>4, <1>6, BulkStatus
<1>8. Excused => Excused'
  <2>1. Data /\ reapStatus # "COMPLETED" => reapStatus' # "COMPLETED"
    BY BulkStatus
  <2>2. kind = "iso" /\ Doomed => Doomed'
    BY DoomedHandled
  <2>3. action # "NORMAL" => action' # "NORMAL"
    BY <1>7
  <2>4. QED
    BY <1>1, <2>1, <2>2, <2>3, ExcusedStays
<1>9. ShortInv' /\ BrokenInv' /\ OrderInv'
  BY <1>1, <1>2 DEF OutcomeInv, ShortInv, BrokenInv, OrderInv
<1>10. WholeInv'
  <2>1. ~ Submitting
    BY <1>1 DEF Submitting
  <2>2. QED
    BY <1>2, <1>7, <2>1 DEF OutcomeInv, WholeInv
<1>11. (\E u \in Requests : urbs[u].st = "killed") => Excused
  BY <1>1, <1>5 DEF OutcomeInv, KilledInv, Discarding
<1>12. KilledInv'
  BY <1>2, <1>8, <1>11 DEF KilledInv
<1>13. CancelInv'
  <2>1. lock' = "handler" => Data' /\ (action' # "NORMAL" \/ reapStatus' # "COMPLETED")
    BY <1>2, <1>4, <1>6, BulkStatus
  <2>2. lock' = "free" => disc'.i = 0
    <3> SUFFICES ASSUME lock' = "free" PROVE disc'.i = 0
      OBVIOUS
    <3>1. disc.i = 0
      BY <1>1 DEF OutcomeInv, CancelInv
    <3>2. disc' = disc
      <4>1. CASE HandleBulk(r)
        BY <4>1 DEF HandleBulk, BulkAbnormal, BulkNormal, Completed, WaitForMore, Remaining
      <4>2. CASE HandleIso(r)
        BY <4>2 DEF HandleIso, Completed, WaitForMore
      <4>3. CASE HandleControl(r)
        BY <4>3 DEF HandleControl, Completed
      <4>4. QED
        BY <4>1, <4>2, <4>3 DEF HandleUrb, r
    <3>3. QED
      BY <3>1, <3>2
  <2>3. QED
    BY <1>1, <2>1, <2>2 DEF CancelInv
<1>14. FailInv'
  <2> SUFFICES ASSUME Data, action' = "NORMAL", reapStatus' = "COMPLETED", NEW u \in Handled'
               PROVE  urbs[u].st \in {"ok", "killed"}
    BY <1>2 DEF FailInv
  <2>1. action = "NORMAL" /\ reapStatus = "COMPLETED" /\ urbs[r].st \in {"ok", "killed"}
    BY <1>7, BulkStatus DEF r
  <2>2. QED
    BY <1>3, <2>1 DEF OutcomeInv, FailInv
<1>15. EarlyInv'
  <2> SUFFICES ASSUME Data, NumUrbs > 0, action' = "COMPLETED_EARLY", reapStatus' = "COMPLETED"
               PROVE  Continued \/ short \/ (cancelling /\ ~ plugged)
    BY <1>1, <1>2 DEF EarlyInv
  <2>1. reapStatus = "COMPLETED"
    BY BulkStatus
  <2>2. CASE action # "NORMAL"
    <3>1. action = "COMPLETED_EARLY"
      BY <2>2, BulkStatus
    <3>2. QED
      BY <2>1, <3>1 DEF OutcomeInv, EarlyInv
  <2>3. CASE action = "NORMAL"
    <3>1. urbs[r].len < urbs[r].size /\ urbs[r].st \in {"ok", "killed"}
      BY <2>3, BulkStatus DEF r
    <3>2. CASE urbs[r].st = "ok"
      <4>1. urbs[r].len # urbs[r].size
        BY <1>1, <3>1 DEF Urb
      <4>2. kind # "iso"
        BY DEF Data
      <4>3. QED
        BY <1>1, <3>2, <4>1, <4>2 DEF OutcomeInv, ShortInv
    <3>3. CASE urbs[r].st = "killed"
      <4>1. Excused /\ kind # "iso"
        BY <1>1, <1>11, <3>3 DEF Data
      <4>2. QED
        BY <2>1, <2>3, <4>1 DEF Excused
    <3>4. QED
      BY <3>1, <3>2, <3>3
  <2>4. QED
    BY <2>2, <2>3
<1>16. ControlInv'
  BY <1>1, <1>5 DEF ControlInv
<1>17. IsoInv'
  <2> SUFFICES ASSUME kind = "iso", NumUrbs > 0, ~ Excused'
               PROVE  InOrder' /\ Copied'
    BY <1>1, <1>2 DEF IsoInv
  <2>1. InOrder /\ Copied
    BY <1>1, <1>8 DEF OutcomeInv, IsoInv, Discarding
  <2>2. InOrder'
    <3> SUFFICES ASSUME NEW u \in Requests, NEW v \in Requests, u < v, urbs[v].at \in {"done", "reaped"}
                 PROVE  Before(u, v)'
      BY <1>2 DEF InOrder
    <3>1. Before(u, v)
      BY <2>1 DEF InOrder
    <3>2. QED
      BY <1>1, <1>3, <3>1 DEF Before, r
  <2>3. /\ \A w \in Requests : IF w < r THEN w \in Handled ELSE w \notin Handled
        /\ offset' = urbs[r].start + urbs[r].size
        /\ \A i \in 1..offset' : buffer'[i] = i
    BY <2>1, IsoInTurn DEF r
  <2>4. ASSUME NEW u \in Requests, u \notin Handled', \A w \in Requests : w < u => w \in Handled'
        PROVE  offset' = urbs[u].start
    <3>1. u > r
      BY <1>1, <1>3, <2>3, <2>4
    <3>2. u = r + 1
      <4>1. r + 1 \in Requests /\ r + 1 \notin Handled /\ r + 1 # r
        <5>1. r + 1 \in Requests /\ ~ (r + 1 < r) /\ r + 1 # r
          BY <1>1, <3>1
        <5>2. QED
          BY <2>3, <5>1
      <4>2. ~ (r + 1 < u)
        BY <1>3, <2>4, <4>1
      <4>3. QED
        BY <1>1, <3>1, <4>2
    <3>3. urbs[r].start + urbs[r].size = urbs[u].start
      BY <1>1, <3>2 DEF RequestInv, LayoutInv, Covers, NumUrbs
    <3>4. QED
      BY <2>3, <3>3
  <2>5. Copied'
    BY <1>2, <2>3, <2>4 DEF Copied
  <2>6. QED
    BY <2>2, <2>5
<1>18. QED
  BY <1>9, <1>10, <1>12, <1>13, <1>14, <1>15, <1>16, <1>17 DEF OutcomeInv

-----------------------------------------------------------------------------
(* What the transfer is reported with.                                     *)

LEMMA FinalIso ==
  ASSUME TypeOK, TypeOK', PhaseInv, RequestInv, OutcomeInv, HandleUrb, urbs' = <<>>,
         kind = "iso", reapStatus' = "COMPLETED", action # "CANCELLED",
         plugged \/ ~ cancelling
  PROVE  \A i \in DOMAIN buffer' : buffer'[i] = i
<1> DEFINE r == reaped
           N == NumUrbs
<1>1. /\ r \in Requests /\ urbs[r].at = "reaped" /\ HandleIso(r) /\ lock = "free"
      /\ Requests = 1..N /\ N \in Nat /\ length' = length
  BY HandleUrbDoes, RequestsType
     DEF RequestInv, At, HandleUrb, HandleBulk, HandleControl, request
<1>2. action = "NORMAL" /\ urbs[r].st \in {"ok", "killed"}
  BY <1>1 DEF HandleIso
<1>3. urbs' # urbs
  BY <1>1 DEF Requests
<1>4. /\ \A u \in Requests : urbs[u].at \in {"none", "reaped"}
      /\ done = <<>>
  BY <1>3, HandleUrbDoes, AllSettled DEF RequestInv
<1>5. \A u \in Requests : u = r \/ u \in Handled
  <2>1. \A u \in Requests : urbs[u].at # "none"
    BY <1>1, <1>2 DEF OutcomeInv, WholeInv, Submitting
  <2>2. QED
    BY <1>4, <2>1 DEF Handled, At
<1>6. ~ Excused
  <2>1. ~ Doomed
    BY <1>1, <1>2, <1>4 DEF Doomed, HandleUrb
  <2>2. QED
    BY <1>2, <2>1 DEF Excused, Data
<1>7. InOrder /\ Copied
  BY <1>1, <1>6 DEF OutcomeInv, IsoInv, Discarding
<1>8. /\ \A w \in Requests : IF w < r THEN w \in Handled ELSE w \notin Handled
      /\ offset' = urbs[r].start + urbs[r].size
      /\ \A i \in 1..offset' : buffer'[i] = i
  BY <1>7, IsoInTurn
<1>9. r = N
  <2> HIDE DEF r, N
  <2>1. N \in Requests /\ ~ (N < r)
    BY <1>1
  <2>2. QED
    BY <1>5, <1>8, <2>1
<1>10. offset' = length
  BY <1>1, <1>8, <1>9 DEF RequestInv, LayoutInv, Covers, NumUrbs
<1>11. DOMAIN buffer' = 1..length
  BY <1>1 DEF TypeOK
<1>12. QED
  BY <1>8, <1>10, <1>11

LEMMA FinalControl ==
  ASSUME TypeOK, PhaseInv, RequestInv, OutcomeInv, HandleUrb,
         kind = "control", reapStatus' = "COMPLETED"
  PROVE  short \/ (transferred' = length /\ ~ broken)
<1> DEFINE r == reaped
<1>1. /\ r \in Requests /\ urbs[r].at = "reaped" /\ HandleControl(r)
      /\ Requests = 1..NumUrbs /\ NumUrbs \in Nat /\ urbs[r] \in Urb
  BY HandleUrbDoes, RequestsType DEF RequestInv, At, HandleUrb, HandleBulk, HandleIso
<1>2. NumUrbs = 1 /\ r = 1
  <2>1. NumUrbs <= 1
    BY DEF RequestInv, LayoutInv
  <2>2. QED
    BY <1>1, <2>1
<1>3. urbs[r].st = "ok"
  <2>1. urbs[r].st # "killed" /\ FirstFailure(urbs[r].st) = "COMPLETED"
    BY <1>1 DEF HandleControl
  <2>2. QED
    BY <1>1, <2>1 DEF FirstFailure, Urb, Outcomes
<1>4. urbs[r].len = urbs[r].size \/ short
  BY <1>1, <1>3 DEF OutcomeInv, ShortInv
<1>5. ~ broken
  <2>1. \A u \in Requests : urbs[u].st \notin Failures
    BY <1>1, <1>2, <1>3 DEF Failures
  <2>2. QED
    BY <1>2, <2>1 DEF OutcomeInv, BrokenInv
<1>6. transferred' = urbs[r].len
  <2>1. transferred = 0 /\ urbs[r].len \in Nat
    BY <1>1, <1>2 DEF OutcomeInv, ControlInv, Urb
  <2>2. transferred' = transferred + urbs[r].len
    BY <1>1 DEF HandleControl
  <2>3. QED
    BY <2>1, <2>2
<1>7. urbs[r].size = length
  <2>1. urbs[1].start = 0 /\ urbs[1].start + urbs[1].size = length /\ urbs[1].size \in Nat
    BY <1>1, <1>2 DEF RequestInv, LayoutInv, Covers, NumUrbs, Urb
  <2>2. QED
    BY <1>2, <2>1
<1>8. QED
  BY <1>4, <1>5, <1>6, <1>7

\* When every request was full, all of the transfer was.
LEMMA AllFull ==
  ASSUME TypeOK, RequestInv, NumUrbs > 0, NEW f, Adds(urbs, f),
         \A u \in Requests : urbs[u].len = urbs[u].size
  PROVE  f[NumUrbs] = length
<1> DEFINE N == NumUrbs
<1>1. /\ Requests = 1..N /\ N = Len(urbs) /\ N \in 1..N /\ urbs \in Seq(Urb) /\ length \in Nat
      /\ Covers(urbs, length) /\ \A w \in 1..N : urbs[w].len <= urbs[w].size
      /\ urbs[N] \in Urb
  <2>1. Requests = 1..N /\ N \in Nat /\ N = Len(urbs) /\ \A u \in Requests : urbs[u] \in Urb
    BY RequestsType DEF NumUrbs
  <2>2. Covers(urbs, length) /\ \A u \in Requests : urbs[u].len <= urbs[u].size
    BY DEF RequestInv, LayoutInv
  <2>3. QED
    BY <2>1, <2>2 DEF TypeOK
<1>2. f[N - 1] = urbs[N].start
  BY <1>1, AddsBound
<1>3. f[N] = f[N - 1] + urbs[N].len
  BY <1>1 DEF Adds
<1>4. urbs[N].start + urbs[N].size = length
  BY <1>1 DEF Covers
<1>5. urbs[N].len = urbs[N].size
  BY <1>1
<1>6. QED
  BY <1>2, <1>3, <1>4, <1>5

LEMMA FinalBulk ==
  ASSUME TypeOK, TypeOK', PhaseInv, RequestInv, ServedInv, StatusInv, OutcomeInv, HandleUrb,
         urbs' = <<>>, Data, reapStatus' = "COMPLETED", plugged \/ ~ cancelling,
         ~ (Continued /\ action' = "COMPLETED_EARLY")
  PROVE  short \/ (transferred' = length /\ ~ broken)
<1> DEFINE r == reaped
<1>1. /\ r \in Requests /\ urbs[r].at = "reaped" /\ lock = "free" /\ sent' = sent
      /\ Requests = 1..NumUrbs /\ NumUrbs \in Nat /\ NumUrbs > 0 /\ kind # "iso"
      /\ kind' = kind /\ phase' # "idle" /\ status' = "none"
  <2>1. r \in Requests /\ urbs[r].at = "reaped"
    BY HandleUrbDoes DEF RequestInv, At
  <2>2. Requests = 1..NumUrbs /\ NumUrbs \in Nat
    BY RequestsType
  <2>3. NumUrbs > 0
    BY <2>1, <2>2
  <2>4. phase # "idle" /\ status = "none"
    BY <2>3 DEF PhaseInv, StatusInv
  <2>5. QED
    BY <2>1, <2>2, <2>3, <2>4 DEF HandleUrb, request, Data
<1>2. action \in {"NORMAL", "COMPLETED_EARLY"} /\ reapStatus = "COMPLETED"
  BY BulkStatus
<1>3. CASE action = "COMPLETED_EARLY"
  <2>1. ~ Continued
    BY <1>3, BulkStatus
  <2>2. QED
    BY <1>1, <1>2, <1>3, <2>1 DEF OutcomeInv, EarlyInv
<1>4. CASE action = "NORMAL"
  <2>1. urbs[r].st \in {"ok", "killed"}
    BY <1>4, BulkStatus
  <2>2. urbs' # urbs
    BY <1>1 DEF Requests
  <2>3. \A u \in Requests : urbs[u].at \in {"none", "reaped"}
    BY <2>2, HandleUrbDoes, AllSettled DEF RequestInv
  <2>4. \A u \in Requests : u = r \/ u \in Handled
    <3>1. \A u \in Requests : urbs[u].at # "none"
      BY <1>1, <1>4 DEF OutcomeInv, WholeInv, Submitting
    <3>2. QED
      BY <2>3, <3>1 DEF Handled, At
  <2>5. \A u \in Requests : urbs[u].st \in {"ok", "killed"}
    BY <1>2, <1>4, <2>1, <2>4 DEF OutcomeInv, FailInv
  <2>6. ~ broken
    <3>1. \A u \in Requests : urbs[u].st \notin Failures
      BY <2>5 DEF Failures
    <3>2. QED
      BY <1>1, <3>1 DEF OutcomeInv, BrokenInv
  <2>7. \A u \in Requests : u # r => urbs[u].len = urbs[u].size
    BY <1>4, <2>4, <2>5 DEF ServedInv, FullInv
  <2>8. CASE urbs[r].len = urbs[r].size
    <3>1. PICK f \in [0..NumUrbs -> Nat] : Adds(urbs, f) /\ f[NumUrbs] = sent
      BY <1>1 DEF ServedInv, BytesInv
    <3>2. f[NumUrbs] = length
      BY <1>1, <2>7, <2>8, <3>1, AllFull
    <3>3. transferred' = sent
      <4>1. OverInv'
        BY OverHandled
      <4>2. Data' /\ NumUrbs' = 0 /\ sent' = sent
        BY <1>1 DEF Data, NumUrbs
      <4>3. QED
        BY <1>1, <4>1, <4>2 DEF OverInv
    <3>4. QED
      BY <2>6, <3>1, <3>2, <3>3
  <2>9. CASE urbs[r].len # urbs[r].size /\ urbs[r].st = "ok"
    BY <1>1, <2>9 DEF OutcomeInv, ShortInv
  <2>10. CASE urbs[r].st = "killed"
    <3>1. Excused
      BY <1>1, <2>10 DEF OutcomeInv, KilledInv, Discarding, Data
    <3>2. QED
      BY <1>1, <1>2, <1>4, <2>6, <3>1 DEF Excused
  <2>11. QED
    BY <2>1, <2>8, <2>9, <2>10
<1>5. QED
  BY <1>2, <1>3, <1>4

LEMMA FinalHandled ==
  ASSUME TypeOK, TypeOK', PhaseInv, PhaseInv', RequestInv, ServedInv, StatusInv, OutcomeInv,
         HandleUrb, urbs' = <<>>
  PROVE  FinalInv'
<1> SUFFICES ASSUME Completing', plugged' \/ ~ cancelling',
                    ~ (Continued' /\ action' = "COMPLETED_EARLY")
             PROVE  Complete'
  BY DEF FinalInv
<1>1. /\ UNCHANGED <<plugged, cancelling, kind, split, length, short, broken, phase, status>>
      /\ lock = "free" /\ reaped \in Requests /\ Requests = 1..NumUrbs /\ NumUrbs \in Nat
  BY HandleUrbDoes, RequestsType DEF HandleUrb, kernel, request, RequestInv
<1>2. Continued' = Continued
  BY <1>1 DEF Continued
<1>3. reapStatus' = "COMPLETED" /\ action' # "CANCELLED"
  <2>1. phase # "finished"
    BY <1>1 DEF PhaseInv
  <2>2. QED
    BY <1>1, <2>1 DEF Completing
<1>4. CASE kind = "iso"
  <2>1. action' = action
    BY <1>4 DEF HandleUrb, HandleBulk, HandleIso, HandleControl
  <2>2. \A i \in DOMAIN buffer' : buffer'[i] = i
    BY <1>1, <1>3, <1>4, <2>1, FinalIso
  <2>3. QED
    BY <1>1, <1>4, <2>2 DEF Complete
<1>5. CASE kind = "control"
  <2>1. short \/ (transferred' = length /\ ~ broken)
    BY <1>3, <1>5, FinalControl
  <2>2. QED
    BY <1>1, <1>5, <2>1 DEF Complete
<1>6. CASE Data
  <2>1. short \/ (transferred' = length /\ ~ broken)
    BY <1>1, <1>2, <1>3, <1>6, FinalBulk
  <2>2. QED
    BY <1>1, <1>6, <2>1 DEF Complete, Data
<1>7. QED
  BY <1>4, <1>5, <1>6 DEF TypeOK, Kinds, Data

LEMMA FinalKept ==
  ASSUME FinalInv, Completing' => Completing,
         UNCHANGED <<kind, split, action, length, buffer, transferred, short, broken>>,
         plugged' => plugged, cancelling => cancelling'
  PROVE  FinalInv'
<1>1. Complete' <=> Complete
  BY DEF Complete
<1>2. Continued' <=> Continued
  BY DEF Continued
<1>3. QED
  BY <1>1, <1>2 DEF FinalInv

\* While there are requests, nothing is reported.
LEMMA FinalLater ==
  ASSUME PhaseInv', NumUrbs' > 0
  PROVE  FinalInv'
  BY DEF PhaseInv, FinalInv, Completing

StatusesInv == OutcomeInv /\ FinalInv

LEMMA StatusNext ==
  ASSUME FsInv, FsInv', DataInv, StatusesInv, [Next]_vars
  PROVE  StatusesInv'
<1>0. /\ TypeOK /\ TypeOK' /\ PhaseInv /\ PhaseInv' /\ RequestInv /\ ServedInv /\ StatusInv
      /\ OutcomeInv /\ FinalInv /\ CancelInv
      /\ NumUrbs \in Nat /\ (urbs = <<>> <=> NumUrbs = 0)
  BY RequestsType, EmptyIff DEF FsInv, DataInv, StatusesInv, OutcomeInv, TypeOK, NumUrbs
<1>1. ASSUME NEW k \in Kinds, NEW sp \in Splits, NEW n \in 0..MaxLength, SubmitBegin(k, sp, n)
      PROVE  StatusesInv'
  <2>1. NumUrbs' > 0
    BY <1>0, <1>1, SubmitBeginDoes DEF NumUrbs
  <2>2. QED
    BY <1>0, <1>1, <2>1, OutcomeBegin, FinalLater DEF StatusesInv
<1>2. CASE SubmitUrb
  <2>1. NumUrbs' > 0
    BY <1>0, <1>2, SubmitMoves, RequestsType
  <2>2. QED
    BY <1>0, <1>2, <2>1, OutcomeSubmit, FinalLater DEF StatusesInv
<1>3. CASE SubmitEnd \/ LaterUrbFails \/ CancelEnd \/ HandlerDiscarded
  <2>1. /\ UNCHANGED <<urbs, done, reaped, plugged, kind, split, transferred, offset, buffer,
                       reapStatus, short, broken, cancelling>>
        /\ lock \in {"submit", "cancel", "handler"}
    BY <1>3 DEF SubmitEnd, LaterUrbFails, CancelEnd, HandlerDiscarded, kernel, request,
                private, device
  <2>2. NumUrbs' > 0 /\ NumUrbs' = NumUrbs
    BY <1>0, <2>1 DEF PhaseInv, NumUrbs
  <2>3. /\ action' = "NORMAL" => action = "NORMAL" /\ action' = action
        /\ action' = "COMPLETED_EARLY" => action' = action \/ Continued
        /\ Submitting => Submitting' \/ action' # "NORMAL"
        /\ Discarding => Discarding' \/ action' # "NORMAL"
        /\ CancelInv'
    <3>1. CASE SubmitEnd
      <4>1. /\ action' = action /\ lock = "submit" /\ lock' = "free" /\ disc'.i = 0
            /\ next > NumUrbs /\ next \in Nat
        BY <1>0, <3>1 DEF SubmitEnd, NoDiscard, private, TypeOK
      <4>2. ~ Submitting /\ ~ Discarding
        BY <1>0, <4>1 DEF Submitting, Discarding
      <4>3. QED
        BY <4>1, <4>2 DEF CancelInv
    <3>2. CASE LaterUrbFails
      <4>1. /\ action' \in {"COMPLETED_EARLY", "SUBMIT_FAILED"} /\ lock = "submit"
            /\ lock' = "submit" /\ (action' = "COMPLETED_EARLY" => Continued)
        BY <3>2 DEF LaterUrbFails
      <4>2. ~ Discarding
        BY <4>1 DEF Discarding
      <4>3. action' # "NORMAL"
        BY <4>1
      <4>4. CancelInv'
        BY <4>1, <4>3 DEF CancelInv
      <4>5. QED
        BY <4>1, <4>2, <4>3, <4>4
    <3>3. CASE CancelEnd
      <4>1. /\ action' = IF disc.ret = "ok" THEN ActionCancelled ELSE action
            /\ lock = "cancel" /\ lock' = "free" /\ disc'.i = 0
        BY <3>3 DEF CancelEnd, NoDiscard
      <4>2. disc.ret = "ok" => action' \in {"ERROR", "CANCELLED"}
        BY <4>1 DEF ActionCancelled
      <4>3. ~ Submitting /\ (Discarding => disc.ret = "ok")
        BY <4>1 DEF Submitting, Discarding
      <4>4. QED
        BY <4>1, <4>2, <4>3 DEF CancelInv
    <3>4. CASE HandlerDiscarded
      <4>1. action' = action /\ lock = "handler" /\ lock' = "free" /\ disc'.i = 0
        BY <3>4 DEF HandlerDiscarded, NoDiscard, private
      <4>2. ~ Submitting /\ ~ Discarding
        BY <4>1 DEF Submitting, Discarding
      <4>3. QED
        BY <4>1, <4>2 DEF CancelInv
    <3>5. QED
      BY <1>3, <3>1, <3>2, <3>3, <3>4
  <2>4. Discarding => Discarding' \/ Excused'
    BY <2>3 DEF Excused
  <2>5. OutcomeInv'
    BY <1>0, <2>1, <2>3, <2>4, OutcomeQuiet
  <2>6. QED
    BY <1>0, <2>2, <2>5, FinalLater DEF StatusesInv
<1>4. CASE CancelBegin
  <2>1. /\ UNCHANGED <<urbs, done, reaped, plugged, kind, split, transferred, offset, buffer,
                       reapStatus, short, broken, action, length, phase, status, next>>
        /\ cancelling' /\ lock \in {"free", "report"}
        /\ IF urbs = <<>> THEN lock' = lock /\ disc' = disc
           ELSE /\ lock' = "cancel"
                /\ disc' = [i |-> NumUrbs, first |-> 1, last |-> NumUrbs, ret |-> "ok"]
    BY <1>4 DEF CancelBegin, kernel, request, private, device
  <2>2. ~ Submitting /\ ~ Discarding /\ NumUrbs' = NumUrbs
    BY <2>1 DEF Submitting, Discarding, NumUrbs
  <2>3. CancelInv'
    <3>1. CASE urbs = <<>>
      BY <1>0, <2>1, <3>1 DEF CancelInv
    <3>2. CASE urbs # <<>>
      BY <1>0, <2>1, <2>2, <3>2 DEF CancelInv
    <3>3. QED
      BY <3>1, <3>2
  <2>4. OutcomeInv'
    BY <1>0, <2>1, <2>2, <2>3, OutcomeQuiet
  <2>5. FinalInv'
    <3>1. Completing' => Completing
      BY <2>1 DEF Completing
    <3>2. QED
      BY <1>0, <2>1, <3>1, FinalKept
  <2>6. QED
    BY <2>4, <2>5 DEF StatusesInv
<1>5. CASE FirstUrbFails
  <2>1. urbs' = <<>> /\ lock' = "free" /\ phase' = "idle" /\ disc'.i = 0
    BY <1>5 DEF FirstUrbFails
  <2>2. QED
    BY <2>1, OutcomeEmpty DEF StatusesInv, FinalInv, Completing
<1>6. CASE Report \/ Take
  <2>1. /\ UNCHANGED <<urbs, kind, split, action, length, buffer, transferred, short, broken,
                       plugged, reapStatus, disc>>
    BY <1>6 DEF Report, Take, kernel, request, private, device
  <2>2. CASE Report
    <3>1. /\ lock = "report" /\ lock' = "free" /\ phase' = "finished" /\ cancelling' = cancelling
          /\ status' = IF action = "CANCELLED" THEN "CANCELLED" ELSE reapStatus
      BY <2>2 DEF Report
    <3>2. urbs' = <<>> /\ disc'.i = 0
      BY <1>0, <2>1, <3>1 DEF PhaseInv, CancelInv
    <3>3. Completing' => Completing
      BY <3>1 DEF Completing
    <3>4. QED
      BY <1>0, <2>1, <3>1, <3>2, <3>3, OutcomeEmpty, FinalKept DEF StatusesInv
  <2>3. CASE Take
    <3>1. phase = "finished" /\ phase' = "idle" /\ lock' = lock
      BY <2>3 DEF Take
    <3>2. lock = "free" /\ urbs = <<>>
      BY <1>0, <3>1 DEF PhaseInv, TypeOK
    <3>3. disc'.i = 0
      BY <1>0, <2>1, <3>2 DEF CancelInv
    <3>4. QED
      BY <2>1, <3>1, <3>2, <3>3, OutcomeEmpty DEF StatusesInv, FinalInv, Completing
  <2>4. QED
    BY <1>6, <2>2, <2>3
<1>7. CASE DiscardUrb /\ lock \in {"submit", "cancel", "handler"}
  <2>1. NumUrbs' > 0
    BY <1>0, <1>7, DiscardKeeps DEF PhaseInv
  <2>2. QED
    BY <1>0, <1>7, <2>1, OutcomeDiscard, FinalLater DEF StatusesInv
<1>8. CASE Reap
  <2>1. NumUrbs' > 0
    BY <1>0, <1>8, ReapMoves, RequestsType
  <2>2. QED
    BY <1>0, <1>8, <2>1, OutcomeReap, FinalLater DEF StatusesInv
<1>9. CASE HandleUrb
  <2>1. CASE urbs' = urbs
    <3>1. NumUrbs' > 0
      BY <1>0, <1>9, <2>1, HandleUrbDoes, RequestsType DEF RequestInv, NumUrbs
    <3>2. QED
      BY <1>0, <1>9, <2>1, <3>1, OutcomeHandled, FinalLater DEF StatusesInv
  <2>2. CASE urbs' = <<>>
    <3>1. urbs # <<>>
      BY <1>0, <1>9, HandleUrbDoes, RequestsType DEF RequestInv
    <3>2. lock' = "report"
      BY <1>0, <1>9, <2>2, <3>1, HandleUrbDoes DEF RequestInv
    <3>3. disc'.i = 0
      <4>1. lock = "free" /\ disc' = disc
        <5>1. lock = "free"
          BY <1>9 DEF HandleUrb
        <5>2. CASE HandleBulk(reaped)
          BY <3>2, <5>1, <5>2 DEF HandleBulk, BulkAbnormal, BulkNormal, Completed, WaitForMore, Remaining
        <5>3. CASE HandleIso(reaped)
          BY <3>2, <5>1, <5>3 DEF HandleIso, Completed, WaitForMore
        <5>4. CASE HandleControl(reaped)
          BY <5>1, <5>4 DEF HandleControl, Completed
        <5>5. QED
          BY <1>9, <5>1, <5>2, <5>3, <5>4 DEF HandleUrb
      <4>2. QED
        BY <1>0, <4>1 DEF CancelInv
    <3>4. QED
      BY <1>0, <1>9, <2>2, <3>2, <3>3, OutcomeEmpty, FinalHandled DEF StatusesInv
  <2>3. QED
    BY <1>0, <1>9, <2>1, <2>2, HandleUrbDoes DEF RequestInv
<1>10. CASE Disconnect
  <2>1. /\ UNCHANGED <<kind, split, action, length, buffer, transferred, short, broken,
                       plugged, cancelling, disc, reapStatus>>
        /\ lock = "free" /\ lock' = "free"
    BY <1>10 DEF Disconnect, request, private, device
  <2>2. disc'.i = 0
    BY <1>0, <2>1 DEF CancelInv
  <2>3. CASE InFlight
    <3>1. urbs' = <<>> /\ status' = "NO_DEVICE"
      BY <1>10, <2>3 DEF Disconnect
    <3>2. QED
      BY <2>1, <2>2, <3>1, OutcomeEmpty DEF StatusesInv, FinalInv, Completing
  <2>4. CASE ~ InFlight
    <3>1. UNCHANGED <<urbs, phase, status>> /\ phase # "pending"
      BY <1>10, <2>4 DEF Disconnect, InFlight
    <3>2. urbs' = <<>>
      BY <1>0, <2>1, <3>1 DEF PhaseInv
    <3>3. Completing' => Completing
      BY <2>1, <3>1 DEF Completing
    <3>4. QED
      BY <1>0, <2>1, <2>2, <3>2, <3>3, OutcomeEmpty, FinalKept DEF StatusesInv
  <2>5. QED
    BY <2>3, <2>4
<1>11. CASE Deliver
  <2>1. NumUrbs' > 0
    <3>1. Current \in Requests
      BY <1>0, <1>11, DeliverDoes, CurrentIs
    <3>2. QED
      BY <1>0, <1>11, <3>1, DeliverDoes, RequestsType
  <2>2. QED
    BY <1>0, <1>11, <2>1, OutcomeDeliver, FinalLater DEF StatusesInv
<1>12. CASE UrbEnds \/ UrbFails
  <2>1. NumUrbs' > 0
    <3>1. Current \in Requests
      BY <1>0, <1>12, CurrentIs DEF UrbEnds, UrbFails
    <3>2. NumUrbs' = NumUrbs
      BY <1>0, <1>12, WorldKeeps
    <3>3. QED
      BY <1>0, <3>1, <3>2, RequestsType
  <2>2. QED
    BY <1>0, <1>12, <2>1, OutcomeEnds, FinalLater DEF StatusesInv
<1>13. CASE Unplug
  <2>1. OutcomeInv'
    BY <1>0, <1>13, OutcomeUnplug
  <2>2. FinalInv'
    <3>1. /\ UNCHANGED <<kind, split, action, length, buffer, transferred, short, broken,
                         lock, phase, status, reapStatus, cancelling>>
          /\ ~ plugged'
      BY <1>13 DEF Unplug, request, private, device
    <3>2. Completing' => Completing
      BY <3>1 DEF Completing
    <3>3. QED
      BY <1>0, <3>1, <3>2, FinalKept
  <2>3. QED
    BY <2>1, <2>2 DEF StatusesInv
<1>14. CASE UNCHANGED vars
  <2>1. UNCHANGED <<urbs, done, reaped, plugged, kind, split, transferred, offset, buffer,
                    reapStatus, short, broken, action, length, phase, status, next, lock, disc,
                    cancelling>>
    BY <1>14 DEF vars, kernel, request, private, device
  <2>2. UNCHANGED <<NumUrbs, Submitting, Discarding, Requests, At("kernel"), Doomed, Data>>
    BY <2>1 DEF NumUrbs, Submitting, Discarding, Requests, At, Doomed, Data
  <2>3. Excused => Excused'
    BY <2>1, <2>2, ExcusedStays
  <2>4. CancelInv'
    BY <1>0, <2>1, <2>2, <2>3 DEF CancelInv
  <2>5. OutcomeInv'
    BY <1>0, <2>1, <2>2, <2>4, OutcomeQuiet
  <2>6. FinalInv'
    <3>1. Completing' => Completing
      BY <2>1 DEF Completing
    <3>2. QED
      BY <1>0, <2>1, <3>1, FinalKept
  <2>7. QED
    BY <2>5, <2>6 DEF StatusesInv
<1>15. QED
  BY <1>1, <1>2, <1>3, <1>4, <1>5, <1>6, <1>7, <1>8, <1>9, <1>10, <1>11, <1>12, <1>13, <1>14
     DEF Next, SubmitStep, CancelStep, HandlerStep, WorldStep, Over

LEMMA StatusInit == Init => StatusesInv
<1> SUFFICES ASSUME Init PROVE StatusesInv
  OBVIOUS
<1>1. /\ Requests = {} /\ NumUrbs = 0 /\ Handled = {} /\ lock = "free" /\ disc.i = 0
      /\ phase = "idle"
  BY DEF Init, Requests, NumUrbs, Handled, At, NoDiscard
<1>2. ShortInv /\ BrokenInv /\ OrderInv /\ WholeInv /\ KilledInv /\ FailInv
  BY <1>1 DEF ShortInv, BrokenInv, OrderInv, WholeInv, KilledInv, FailInv
<1>3. EarlyInv /\ ControlInv /\ IsoInv /\ CancelInv
  BY <1>1 DEF EarlyInv, ControlInv, IsoInv, CancelInv
<1>4. FinalInv
  BY <1>1 DEF FinalInv, Completing
<1>5. QED
  BY <1>2, <1>3, <1>4 DEF StatusesInv, OutcomeInv

\* A transfer is completed when all of it was transferred or the device ended it,
\* never because of an error (but for the two races CompletedMeansComplete leaves out).
THEOREM CompletedIsComplete == Spec => []CompletedMeansComplete
<1>1. StatusesInv => CompletedMeansComplete
  BY DEF StatusesInv, FinalInv, Completing, Complete, CompletedMeansComplete
<1>2. FsInv /\ FsInv' /\ DataInv /\ StatusesInv /\ [Next]_vars => StatusesInv'
  BY StatusNext
<1>3. FsInv /\ FsInv' /\ DataInv /\ [Next]_vars => DataInv'
  BY DataNext
<1>4. QED
  BY <1>1, <1>2, <1>3, DataInit, StatusInit, FsInvariant, PTL DEF Spec

=============================================================================
