---------------------------- MODULE OffersProofs ----------------------------
(***************************************************************************)
(* What the panel's and the website's proofs need to know of the searches  *)
(* (Offers), for any stylists, services, lengths and book.                 *)
(***************************************************************************)
EXTENDS Offers, SequenceTheorems, FiniteSetTheorems, WellFoundedInduction, TLAPS

-----------------------------------------------------------------------------
\* Sets of numbers have a least one.
LEMMA LeastOf ==
  ASSUME NEW T \in SUBSET Nat, T # {}
  PROVE  \E x \in T : \A y \in T : x <= y
<1> DEFINE S == FiniteSubsetsOf(Nat)
           R == StrictSubsetOrdering(Nat)
           U == {1 .. x : x \in T}
<1>1. IsWellFoundedOn(R, S)
  BY FS_StrictSubsetOrderingWellFounded
<1>2. U \subseteq S /\ U # {}
  <2>1. ASSUME NEW x \in T PROVE 1 .. x \in S
    <3>1. IsFiniteSet(1 .. x) /\ 1 .. x \in SUBSET Nat
      BY FS_Interval
    <3> QED BY <3>1 DEF FiniteSubsetsOf
  <2> HIDE DEF S
  <2> QED BY <2>1
<1>3. ASSUME NEW x \in T, NEW y \in T, y < x PROVE <<1 .. y, 1 .. x>> \in R
  <2>1. 1 .. y \subseteq 1 .. x /\ x \in 1 .. x /\ x \notin 1 .. y
    BY <1>3
  <2> QED BY <2>1 DEF StrictSubsetOrdering
<1>4. \E u \in U : \A y \in U : <<y, u>> \notin R
  <2> HIDE DEF R, S, U
  <2> QED BY <1>1, <1>2, WFMin
<1>5. PICK x \in T : \A y \in T : <<1 .. y, 1 .. x>> \notin R
  BY <1>4
<1> HIDE DEF R, S, U
<1>6. ASSUME NEW y \in T PROVE x <= y
  <2>1. ~(y < x)
    BY <1>3, <1>5
  <2> QED BY <2>1
<1> QED BY <1>6

LEMMA LeastIsOne ==
  ASSUME NEW T \in SUBSET Nat, T # {}
  PROVE  Min(T) \in T
<1>1. PICK x \in T : \A y \in T : x <= y
  BY LeastOf
<1> QED BY <1>1 DEF Min

\* A visit stays a sequence of services whatever is tapped.
LEMMA ToggledIsAVisit ==
  ASSUME NEW visit \in Seq(Service), NEW s \in Service
  PROVE  toggled(visit, s) \in Seq(Service)
<1>1. CASE s \notin ToSet(visit)
  <2>1. Append(visit, s) \in Seq(Service)
    OBVIOUS
  <2> QED BY <1>1, <2>1 DEF toggled
<1>2. CASE s \in ToSet(visit)
  <2> DEFINE I == {i \in 1 .. Len(visit) : visit[i] = s}
  <2>1. I # {} /\ I \in SUBSET Nat
    BY <1>2 DEF ToSet
  <2>2. Min(I) \in 1 .. Len(visit)
    <3>1. Min(I) \in I
      BY <2>1, LeastIsOne
    <3> QED BY <3>1
  <2>3. SelectInSeq(visit, LAMBDA v : v = s) = Min(I)
    BY <2>1 DEF SelectInSeq
  <2>4. RemoveFirst(visit, s) = RemoveAt(visit, Min(I))
    <3>1. \E i \in 1 .. Len(visit) : visit[i] = s
      BY <2>1
    <3> HIDE DEF I
    <3> QED BY <3>1, <2>3 DEF RemoveFirst
  <2> DEFINE m == Min(I)
  <2> HIDE DEF m
  <2>5. m \in 1 .. Len(visit)
    BY <2>2 DEF m
  <2>6. RemoveAt(visit, m) \in Seq(Service)
    <3>1. SubSeq(visit, 1, m - 1) \in Seq(Service) /\ SubSeq(visit, m + 1, Len(visit)) \in Seq(Service)
      BY <2>5, SubSeqProperties
    <3> QED BY <3>1, ConcatProperties DEF RemoveAt
  <2> QED BY <1>2, <2>4, <2>6 DEF toggled, m
<1> QED BY <1>1, <1>2

-----------------------------------------------------------------------------
\* The length of a visit: the sum over its services exists and is a number.
LEMMA SumExists ==
  ASSUME NEW N \in Nat, NEW m, \A n \in 1 .. N : m[n] \in Nat
  PROVE  \E f \in [0 .. N -> Nat] : f = [n \in 0 .. N |-> IF n = 0 THEN 0 ELSE f[n - 1] + m[n]]
<1> DEFINE Sums(k) == {f \in [0 .. k -> Nat] : \A n \in 0 .. k : f[n] = IF n = 0 THEN 0 ELSE f[n - 1] + m[n]}
           Bad == {k \in 0 .. N : Sums(k) = {}}
<1>1. Sums(0) # {}
  <2>1. [n \in 0 .. 0 |-> 0] \in Sums(0)
    OBVIOUS
  <2> QED BY <2>1
<1>2. ASSUME NEW k \in 1 .. N, Sums(k - 1) # {} PROVE Sums(k) # {}
  <2>1. PICK f \in [0 .. k - 1 -> Nat] : \A n \in 0 .. k - 1 : f[n] = IF n = 0 THEN 0 ELSE f[n - 1] + m[n]
    BY <1>2
  <2> DEFINE g == [n \in 0 .. k |-> IF n = k THEN f[k - 1] + m[k] ELSE f[n]]
  <2>2. /\ k - 1 \in 0 .. k - 1 /\ f[k - 1] \in Nat /\ m[k] \in Nat /\ k # 0
        /\ \A n \in 0 .. k : n = k \/ n \in 0 .. k - 1
    OBVIOUS
  <2>3. g \in [0 .. k -> Nat]
    BY <2>2
  <2>4. ASSUME NEW n \in 0 .. k PROVE g[n] = IF n = 0 THEN 0 ELSE g[n - 1] + m[n]
    <3>1. CASE n = k
      <4>1. g[n - 1] = f[k - 1] /\ g[n] = f[k - 1] + m[k]
        BY <3>1
      <4> QED BY <4>1, <3>1, <2>2
    <3>2. CASE n # k
      <4>1. n \in 0 .. k - 1 /\ g[n] = f[n] /\ f[n] = IF n = 0 THEN 0 ELSE f[n - 1] + m[n]
        BY <3>2, <2>1
      <4>2. n # 0 => n - 1 \in 0 .. k /\ n - 1 # k
        BY <4>1
      <4> QED BY <4>1, <4>2
    <3> QED BY <3>1, <3>2
  <2> HIDE DEF g
  <2> QED BY <2>3, <2>4
<1> HIDE DEF Sums
<1>3. Bad = {}
  <2> SUFFICES ASSUME Bad # {} PROVE FALSE
    OBVIOUS
  <2>1. PICK k \in Bad : \A j \in Bad : k <= j
    <3>1. Bad \in SUBSET Nat
      OBVIOUS
    <3> HIDE DEF Bad
    <3> QED BY <3>1, LeastOf
  <2>2. k \in 1 .. N
    BY <1>1
  <2>3. k - 1 \in 0 .. N /\ k - 1 \notin Bad
    BY <2>1, <2>2
  <2> QED BY <1>2, <2>2, <2>3
<1>4. PICK f : f \in Sums(N)
  BY <1>3
<1>5. f \in [0 .. N -> Nat] /\ \A n \in 0 .. N : f[n] = IF n = 0 THEN 0 ELSE f[n - 1] + m[n]
  BY <1>4 DEF Sums
<1>6. f = [n \in 0 .. N |-> IF n = 0 THEN 0 ELSE f[n - 1] + m[n]]
  BY <1>5
<1> QED BY <1>5, <1>6

LEMMA LengthIsNat ==
  ASSUME OffersConstants, NEW visit \in Seq(Service), NEW p \in providersForVisit(visit)
  PROVE  Length(p, visit) \in Nat
<1> DEFINE N == Len(visit)
           m == [n \in 1 .. N |-> Minutes[<<p, visit[n]>>]]
           upTo == CHOOSE f : f = [n \in 0 .. N |-> IF n = 0 THEN 0 ELSE f[n - 1] + Minutes[<<p, visit[n]>>]]
<1>1. N \in Nat /\ \A n \in 1 .. N : m[n] \in Nat
  <2>1. \A n \in 1 .. N : visit[n] \in ToSet(visit)
    BY DEF ToSet
  <2>2. \A n \in 1 .. N : <<p, visit[n]>> \in Links
    BY <2>1 DEF providersForVisit
  <2> QED BY <2>2 DEF OffersConstants
<1>2. \A f : [n \in 0 .. N |-> IF n = 0 THEN 0 ELSE f[n - 1] + m[n]]
               = [n \in 0 .. N |-> IF n = 0 THEN 0 ELSE f[n - 1] + Minutes[<<p, visit[n]>>]]
  OBVIOUS
<1> HIDE DEF m
<1>3. PICK sum \in [0 .. N -> Nat] : sum = [n \in 0 .. N |-> IF n = 0 THEN 0 ELSE sum[n - 1] + m[n]]
  BY <1>1, SumExists
<1>4. upTo = [n \in 0 .. N |-> IF n = 0 THEN 0 ELSE upTo[n - 1] + m[n]]
  <2> DEFINE Sum(f) == [n \in 0 .. N |-> IF n = 0 THEN 0 ELSE f[n - 1] + Minutes[<<p, visit[n]>>]]
  <2>1. sum = Sum(sum)
    BY <1>2, <1>3
  <2>2. upTo = CHOOSE g : g = Sum(g)
    OBVIOUS
  <2>3. upTo = Sum(upTo)
    <3> HIDE DEF Sum, upTo
    <3> QED BY <2>1, <2>2
  <2> QED BY <1>2, <2>3
<1>5. Length(p, visit) = upTo[N]
  BY DEF Length
<1> HIDE DEF upTo
<1> DEFINE Bad == {n \in 0 .. N : upTo[n] \notin Nat}
<1>6. Bad = {}
  <2> SUFFICES ASSUME Bad # {} PROVE FALSE
    OBVIOUS
  <2>1. PICK k \in Bad : \A j \in Bad : k <= j
    <3>1. Bad \in SUBSET Nat
      BY <1>1
    <3> HIDE DEF Bad
    <3> QED BY <3>1, LeastOf
  <2>2. k \in 0 .. N /\ upTo[k] = IF k = 0 THEN 0 ELSE upTo[k - 1] + m[k]
    BY <1>4
  <2>3. k # 0 => k - 1 \in 0 .. N /\ k - 1 \notin Bad /\ m[k] \in Nat
    BY <1>1, <2>1, <2>2
  <2> QED BY <2>2, <2>3
<1> QED BY <1>1, <1>5, <1>6

-----------------------------------------------------------------------------
\* A row is a record, with a beginning and an end; a book is a list of rows.
IsARow(v) ==
  v = [provider |-> v.provider, visit |-> v.visit, at |-> v.at, endAt |-> v.endAt, client |-> v.client,
       chair |-> v.chair, isOverride |-> v.isOverride, status |-> v.status, key |-> v.key]
RowInTime(v) == IsARow(v) /\ v.at \in Int /\ v.endAt \in Int
BookInTime(b) ==
  /\ Len(b) \in Nat /\ b = [k \in 1 .. Len(b) |-> b[k]]
  /\ \A k \in 1 .. Len(b) : RowInTime(b[k])

LEMMA EmptyInTime == BookInTime(<<>>)
BY DEF BookInTime

LEMMA AppendedInTime ==
  ASSUME NEW b, BookInTime(b), NEW v, RowInTime(v)
  PROVE  BookInTime(Append(b, v))
<1> DEFINE n == Len(b)
           Every == {b[k] : k \in 1 .. n} \cup {v}
           c == Append(b, v)
<1>1. n \in Nat /\ b = [k \in 1 .. n |-> b[k]]
  BY DEF BookInTime
<1>2. b \in Seq(Every) /\ v \in Every
  <2>1. b \in [1 .. n -> Every]
    BY <1>1
  <2> QED BY <1>1, <2>1
<1>3. /\ c \in Seq(Every) /\ Len(c) = n + 1
      /\ \A k \in 1 .. n : c[k] = b[k]
      /\ c[n + 1] = v
  BY <1>2, AppendProperties
<1> HIDE DEF c
<1>4. c = [k \in 1 .. n + 1 |-> c[k]]
  <2> HIDE DEF Every, n
  <2>1. c \in [1 .. Len(c) -> Every]
    BY <1>3, LenProperties
  <2>2. c \in [1 .. n + 1 -> Every]
    BY <1>3, <2>1
  <2> QED BY <2>2
<1>5. \A k \in 1 .. n + 1 : k \in 1 .. n \/ k = n + 1
  BY <1>1
<1>6. ASSUME NEW k \in 1 .. n + 1 PROVE RowInTime(c[k])
  <2>1. k \in 1 .. n => RowInTime(b[k])
    BY DEF BookInTime
  <2> QED BY <2>1, <1>3, <1>5
<1>7. n + 1 \in Nat
  BY <1>1
<1>8. BookInTime(c)
  BY <1>3, <1>4, <1>6, <1>7 DEF BookInTime
<1> QED BY <1>8 DEF c

LEMMA CancelledInTime ==
  ASSUME NEW b, BookInTime(b), NEW i \in DOMAIN b
  PROVE  BookInTime([b EXCEPT ![i].status = "cancelled"])
<1> DEFINE c == [b EXCEPT ![i].status = "cancelled"]
           n == Len(b)
<1>1. n \in Nat /\ b = [k \in 1 .. n |-> b[k]] /\ i \in 1 .. n /\ RowInTime(b[i])
  BY DEF BookInTime
<1>2. /\ c = [k \in 1 .. n |-> c[k]] /\ \A k \in 1 .. n : k # i => c[k] = b[k]
      /\ c[i] = [b[i] EXCEPT !.status = "cancelled"]
  BY <1>1
<1>3. RowInTime(c[i])
  BY <1>1, <1>2 DEF RowInTime, IsARow
<1> HIDE DEF c
<1>4. Len(c) = n
  <2>1. c \in [1 .. n -> {c[k] : k \in 1 .. n}]
    BY <1>2
  <2>2. c \in Seq({c[k] : k \in 1 .. n}) /\ DOMAIN c = 1 .. n
    BY <1>1, <2>1
  <2> QED BY <1>1, <2>2, LenProperties
<1>5. \A k \in 1 .. n : RowInTime(c[k])
  BY <1>2, <1>3 DEF BookInTime
<1>6. BookInTime(c)
  BY <1>1, <1>2, <1>4, <1>5 DEF BookInTime
<1> QED BY <1>6 DEF c

\* What is written is a row in time, if its visit is one its stylist does.
LEMMA WrittenInTime ==
  ASSUME OffersConstants, NEW b, BookInTime(b), NEW visit \in Seq(Service),
         NEW p \in providersForVisit(visit), NEW at \in Int, NEW client, NEW isOverride, NEW key
  PROVE  BookInTime(written(b, p, visit, at, client, isOverride, key))
<1> DEFINE seat == IF isOverride THEN 0 ELSE Min(Seats(b, client, Span(p, visit, at)))
           endsAt == at + Length(p, visit)
<1>1. endsAt \in Int
  BY LengthIsNat
<1> DEFINE v == [provider |-> p, visit |-> visit, at |-> at, endAt |-> endsAt, client |-> client,
                 chair |-> seat, isOverride |-> isOverride, status |-> "booked", key |-> key]
<1>2. written(b, p, visit, at, client, isOverride, key) = Append(b, v)
  BY DEF written
<1> HIDE DEF seat, endsAt
<1>3. RowInTime(v)
  BY <1>1 DEF RowInTime, IsARow
<1> HIDE DEF v
<1> QED BY <1>2, <1>3, AppendedInTime

-----------------------------------------------------------------------------
\* What a stylist has booked is a number of minutes.
LEMMA LoadIsNat ==
  ASSUME NEW b, BookInTime(b), NEW p, NEW d
  PROVE  bookedMinutesOn(b, p, d) \in Nat
<1> DEFINE hers == {k \in DOMAIN b : b[k].status = "booked" /\ b[k].provider = p /\ DayOf(b[k].at) = d}
           bodies == {{k} \X Body(b[k]) : k \in hers}
           f == [k \in hers |-> {k} \X Body(b[k])]
<1>1. IsFiniteSet(hers) /\ hers \subseteq 1 .. Len(b)
  <2>1. DOMAIN b = 1 .. Len(b) /\ Len(b) \in Nat
    BY DEF BookInTime
  <2>2. hers \in SUBSET (1 .. Len(b))
    BY <2>1
  <2>3. IsFiniteSet(1 .. Len(b))
    BY <2>1, FS_Interval
  <2> HIDE DEF hers
  <2> QED BY <2>2, <2>3, FS_Subset
<1>2. IsFiniteSet(bodies)
  <2>1. f \in Surjection(hers, bodies)
    <3> HIDE DEF hers
    <3> QED BY DEF Surjection
  <2> HIDE DEF f, bodies, hers
  <2> QED BY <1>1, <2>1, FS_Surjection
<1>3. ASSUME NEW k \in hers PROVE IsFiniteSet({k} \X Body(b[k]))
  <2>1. b[k].at \in Int /\ b[k].endAt - 1 \in Int
    BY <1>1 DEF BookInTime, RowInTime
  <2>2. IsFiniteSet(Body(b[k]))
    BY <2>1, FS_Interval DEF Body
  <2>3. IsFiniteSet({k})
    BY FS_Singleton
  <2> QED BY <2>2, <2>3, FS_Product
<1>4. IsFiniteSet(UNION bodies)
  <2>1. \A T \in bodies : IsFiniteSet(T)
    <3> HIDE DEF hers
    <3> QED BY <1>3
  <2> HIDE DEF bodies
  <2> QED BY <1>2, <2>1, FS_UNION
<1>5. bookedMinutesOn(b, p, d) = Cardinality(UNION bodies)
  BY DEF bookedMinutesOn
<1> HIDE DEF bodies
<1> QED BY <1>4, <1>5, FS_CardinalityType

\* Of those free somebody is the least booked.
LEMMA LeastBookedIsFree ==
  ASSUME OffersConstants, NEW b, BookInTime(b), NEW free \in SUBSET Provider, free # {}, NEW d
  PROVE  leastBooked(b, free, d) \in free
<1> DEFINE load == [p \in free |-> bookedMinutesOn(b, p, d)]
           loads == {load[p] : p \in free}
<1>1. \A p \in free : load[p] \in Nat /\ p \in Nat
  BY LoadIsNat DEF OffersConstants
<1>2. leastBooked(b, free, d) =
        CHOOSE p \in free : \A q \in free : load[p] < load[q] \/ (load[p] = load[q] /\ p <= q)
  BY DEF leastBooked
<1> HIDE DEF load
<1>3. PICK m \in loads : \A x \in loads : m <= x
  <2>1. loads \in SUBSET Nat /\ loads # {}
    BY <1>1
  <2> HIDE DEF loads
  <2> QED BY <2>1, LeastOf
<1> DEFINE light == {p \in free : load[p] = m}
<1>4. PICK p \in light : \A q \in light : p <= q
  <2>1. light \in SUBSET Nat /\ light # {}
    BY <1>1, <1>3
  <2> HIDE DEF light
  <2> QED BY <2>1, LeastOf
<1>5. ASSUME NEW q \in free PROVE load[p] < load[q] \/ (load[p] = load[q] /\ p <= q)
  <2>1. load[p] = m /\ m \in Nat /\ load[q] \in Nat /\ m <= load[q]
    BY <1>1, <1>3, <1>4
  <2>2. load[q] = m => p <= q
    BY <1>4
  <2> QED BY <2>1, <2>2
<1>6. p \in free
  BY <1>4
<1> HIDE DEF loads, light
<1> QED BY <1>2, <1>5, <1>6

\* A row of a stylist's column is hers, at one of the day's marks.
LEMMA ColumnRows ==
  ASSUME NEW b, NEW p, NEW v, NEW d, NEW h, NEW row \in computeDaySlots(b, p, v, d, h)
  PROVE  /\ row.provider = p /\ row.at \in Marks(d) /\ p \in providersForVisit(v)
         /\ row = [provider |-> p, at |-> row.at, reasons |-> Reasons(b, p, v, row.at, h)]
BY DEF computeDaySlots

LEMMA MarksAreInts ==
  ASSUME OffersConstants, NEW d \in Int
  PROVE  Marks(d) \subseteq Int
<1>1. DayLength \in Nat /\ d * DayLength \in Int
  BY DEF OffersConstants
<1>2. \A m \in 0 .. DayLength - 1 : d * DayLength + m \in Int
  BY <1>1
<1> QED BY <1>2 DEF Marks

\* Every row the searches offer is at an instant.
LEMMA OffersInTime ==
  ASSUME OffersConstants, NEW b, NEW v, NEW d \in Int, NEW h
  PROVE  /\ \A row \in Columns(b, v, d, h) : row.at \in Int
         /\ \A row \in anyProviderTimes(b, v, d, h) : row.at \in Int
         /\ \A p : \A row \in Offered(computeDaySlots(b, p, v, d, h)) : row.at \in Int
<1>1. ASSUME NEW p, NEW row \in computeDaySlots(b, p, v, d, h)
      PROVE  row.at \in Int
  BY ColumnRows, MarksAreInts
<1>2. ASSUME NEW row \in Columns(b, v, d, h) PROVE row.at \in Int
  BY <1>1, <1>2 DEF Columns
<1>3. ASSUME NEW row \in anyProviderTimes(b, v, d, h) PROVE row.at \in Int
  <2> DEFINE offered == Offered(Columns(b, v, d, h))
             who(t) == leastBooked(b, {x.provider : x \in {r \in offered : r.at = t}}, d)
             times == {x.at : x \in offered}
  <2>1. row \in {[provider |-> who(t), at |-> t, reasons |-> {}] : t \in times}
    BY <1>3 DEF anyProviderTimes
  <2>2. times \subseteq Int
    BY <1>2 DEF Offered
  <2> HIDE DEF who, times
  <2> QED BY <2>1, <2>2
<1> QED BY <1>1, <1>2, <1>3 DEF Offered

\* The engine would let a stylist be booked at a time if it offers her there.
LEMMA FreeIsOffered ==
  ASSUME NEW b, NEW p, NEW v, NEW at, NEW h
  PROVE  whyRefused(b, p, v, at, h) = "none" <=>
           \E row \in Offered(computeDaySlots(b, p, v, DayOf(at), h)) : row.at = at
<1> DEFINE column == computeDaySlots(b, p, v, DayOf(at), h)
           candidate == {row \in column : row.at = at}
           reasons == UNION {row.reasons : row \in candidate}
<1>1. whyRefused(b, p, v, at, h) =
        IF candidate = {} THEN "SlotNotOffered"
        ELSE IF "overlaps-booking" \in reasons THEN "SlotTaken"
        ELSE IF reasons # {} THEN "NoResourceFree" ELSE "none"
  BY DEF whyRefused
<1>2. \A row \in candidate : row.reasons = Reasons(b, p, v, at, h)
  <2>1. \A row \in candidate : row = [provider |-> p, at |-> row.at, reasons |-> Reasons(b, p, v, row.at, h)]
    BY ColumnRows
  <2> QED BY <2>1
<1>3. candidate # {} => reasons = Reasons(b, p, v, at, h)
  <2> HIDE DEF candidate
  <2> QED BY <1>2
<1>4. (\E row \in Offered(column) : row.at = at) <=> (candidate # {} /\ Reasons(b, p, v, at, h) = {})
  BY <1>2 DEF Offered
<1> HIDE DEF candidate, reasons, column
<1>5. whyRefused(b, p, v, at, h) = "none" <=> (candidate # {} /\ reasons = {})
  BY <1>1
<1> QED BY <1>3, <1>4, <1>5 DEF column

\* If anybody could be booked at a time, the search finds somebody who could.
LEMMA SearchFindsSomebody ==
  ASSUME OffersConstants, NEW b, BookInTime(b), NEW visit, NEW at, NEW holder,
         NEW p \in Provider, whyRefused(b, p, visit, at, holder) = "none"
  PROVE  \E row \in anyProviderAt(b, visit, at, holder) :
           row.at = at /\ whyRefused(b, row.provider, visit, at, holder) = "none"
<1> DEFINE d == DayOf(at)
           rows == Offered(Columns(b, visit, d, holder))
           free == {row.provider : row \in {r \in rows : r.at = at}}
           who == leastBooked(b, free, d)
           found == [provider |-> who, at |-> at, reasons |-> {}]
<1>1. ASSUME NEW q PROVE q \in free <=> q \in Provider /\ whyRefused(b, q, visit, at, holder) = "none"
  <2>1. \A row \in rows : row.provider \in Provider
                          /\ row \in Offered(computeDaySlots(b, row.provider, visit, d, holder))
    BY ColumnRows DEF Offered, Columns
  <2>2. \A q1 \in Provider : \A row \in Offered(computeDaySlots(b, q1, visit, d, holder)) :
          row \in rows /\ row.provider = q1
    BY ColumnRows DEF Offered, Columns
  <2>3. q \in free <=> \E row \in rows : row.at = at /\ row.provider = q
    OBVIOUS
  <2> HIDE DEF rows
  <2>4. whyRefused(b, q, visit, at, holder) = "none" <=>
          \E row \in Offered(computeDaySlots(b, q, visit, d, holder)) : row.at = at
    BY FreeIsOffered
  <2> HIDE DEF d, free
  <2> QED BY <2>1, <2>2, <2>3, <2>4
<1>2. p \in free /\ free \in SUBSET Provider
  <2> HIDE DEF free
  <2> QED BY <1>1
<1>3. who \in free
  <2> HIDE DEF free, d
  <2> QED BY <1>2, LeastBookedIsFree
<1>4. found \in anyProviderAt(b, visit, at, holder)
  <2>1. at \in {row.at : row \in rows}
    BY <1>2
  <2>2. found \in anyProviderTimes(b, visit, d, holder)
    BY <2>1 DEF anyProviderTimes
  <2> HIDE DEF who, d
  <2> QED BY <2>2 DEF anyProviderAt, d
<1>5. whyRefused(b, who, visit, at, holder) = "none"
  <2> HIDE DEF who, free
  <2> QED BY <1>1, <1>3
<1>6. found.provider = who /\ found.at = at
  OBVIOUS
<1> HIDE DEF found, who
<1> QED BY <1>4, <1>5, <1>6

\* So a search that finds nobody but the stylist just refused misses nobody.
LEMMA NobodyElseIsMissed ==
  ASSUME OffersConstants, NEW b, BookInTime(b), NEW visit, NEW row, NEW holder,
         {x \in anyProviderAt(b, visit, row.at, holder) : x.provider # row.provider} = {}
  PROVE  NobodyElse(b, visit, row, holder)
BY SearchFindsSomebody DEF NobodyElse
=============================================================================
