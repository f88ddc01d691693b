--------------------------- MODULE HistoryProofs ----------------------------
(***************************************************************************)
(* Proofs about the history of the two brokers that keep one, for any      *)
(* number of publishers and consumers, any history limit, TTL and clock.   *)
(*                                                                         *)
(* In memory (MemoryHistory), the invariant is the one filterByOffset      *)
(* relies on without saying so: the offsets in a memstream have no gaps.   *)
(* It is proved of the methods of memstream first (add with its trim,      *)
(* expire), then of the steps.                                             *)
(*                                                                         *)
(* With NATS (NatsBroker), a gap in the memory stream is either filled by  *)
(* the time the stream is read or beyond the limit of what is kept         *)
(* (GapsClose).                                                            *)
(***************************************************************************)
EXTENDS MemoryHistory, NatsBroker, WellFoundedInduction, SequenceTheorems, TLAPS

-----------------------------------------------------------------------------
(* The methods of memstream.                                               *)

\* a memstream as the broker keeps it
GoodStream(ms) == ms \in Memstream /\ Contiguous(ms) /\ Len(ms.data) <= Limit

\* A non-empty set of numbers has a smallest element.
LEMMA Smallest ==
    ASSUME NEW S \in SUBSET Nat, S # {}
    PROVE  \E n \in S : \A k \in S : n <= k
  <1> DEFINE R == {ss \in Nat \X Nat : ss[1] < ss[2]}
  <1>1. IsWellFoundedOn(R, Nat)
    BY NatLessThanWellFounded, Zenon DEF OpToRel
  <1>2. \E n \in S : \A k \in S : ~(<<k, n>> \in R)
    <2> HIDE DEF R
    <2> QED
      BY <1>1, WFMin, Zenon
  <1>3. PICK n \in S : \A k \in S : ~(<<k, n>> \in R)
    BY <1>2, Zenon
  <1>4. ASSUME NEW k \in S PROVE n <= k
    <2>1. n \in Nat /\ k \in Nat
      BY Zenon
    <2>2. ~(k < n)
      BY <1>3, <2>1, Zenon
    <2> QED
      BY <2>1, <2>2, SMTT(30)
  <1> QED
    BY <1>4, Zenon

\* The lifetime of a memstream is a number.
LEMMA LifetimeType == Keep * TTL \in Nat
  BY HistoryAssumption, SMTT(30)

\* A memstream is put together from its fields.
LEMMA MemstreamType ==
    ASSUME NEW o \in Nat, NEW l \in Nat, NEW t \in Nat, NEW d \in Seq(Entry)
    PROVE  [offset |-> o, data |-> d, low |-> l, deadline |-> t] \in Memstream
  BY Zenon DEF Memstream

\* The end of a sequence is a sequence.
LEMMA EndOfSeq ==
    ASSUME NEW S, NEW q \in Seq(S), NEW m \in Nat \ {0}
    PROVE  SubSeq(q, m, Len(q)) \in Seq(S)
  BY SMTT(30)

\* memstream.add, with the trim of appendEntry, leaves no gap and takes the
\* next offset.
LEMMA AddGood ==
    ASSUME NEW ms, GoodStream(ms), NEW msg \in Nat, NEW time \in Nat
    PROVE  GoodStream(add(ms, msg, time)) /\ add(ms, msg, time).offset = ms.offset + 1
  <1> DEFINE e == [offset |-> ms.offset + 1, ts |-> time, msg |-> msg]
             all == Append(ms.data, e)
             kept == IF Len(all) > Limit THEN Tail(all) ELSE all
             new == add(ms, msg, time)
             n == Len(ms.data)
  <1>1. /\ ms.offset \in Nat /\ ms.low \in Nat /\ ms.data \in Seq(Entry) /\ n \in Nat
        /\ n <= Limit /\ Limit \in Nat \ {0}
    BY HistoryAssumption, SMTT(30) DEF GoodStream, Memstream
  <1>2. e \in Entry /\ e.offset = ms.offset + 1
    BY <1>1, SMTT(30) DEF Entry
  <1>3. /\ all \in Seq(Entry) /\ Len(all) = n + 1 /\ all[n + 1] = e
        /\ \A i \in 1..n : all[i] = ms.data[i]
    BY <1>1, <1>2, SMTT(30)
  <1>4. /\ new.offset = ms.offset + 1 /\ new.data = kept
        /\ new.low = (IF Len(all) > Limit \/ ms.low = 0 THEN kept[1].offset ELSE ms.low)
        /\ new.deadline = time + Keep * TTL
        /\ new = [offset |-> new.offset, data |-> new.data, low |-> new.low,
                  deadline |-> new.deadline]
    BY Zenon DEF add, appendEntry
  <1> HIDE DEF e, all, new
  <1>t. ASSUME new.low \in Nat, kept \in Seq(Entry) PROVE new \in Memstream
    <2>1. new.offset \in Nat /\ new.deadline \in Nat /\ new.data \in Seq(Entry)
      <3> HIDE DEF kept
      <3> QED BY <1>1, <1>4, <1>t, LifetimeType, SMTT(30)
    <2>2. [offset |-> new.offset, data |-> new.data, low |-> new.low,
           deadline |-> new.deadline] \in Memstream
      BY <2>1, <1>t, MemstreamType, Zenon
    <2> QED BY <1>4, <2>2, Zenon
  <1>5. ASSUME NEW i \in 1..(n + 1)
        PROVE  all[i].offset = ms.offset + i - n /\ all[i].offset \in Nat
    <2>1. CASE i = n + 1
      BY <1>1, <1>2, <1>3, <2>1, SMTT(30)
    <2>2. CASE i # n + 1
      <3>1. i \in 1..n /\ ms.data # <<>> /\ all[i] = ms.data[i]
        BY <1>1, <1>3, <2>2, SMTT(30)
      <3>2. ms.low + n = ms.offset + 1 /\ ms.data[i].offset = ms.low + i - 1
        BY <3>1, Zenon DEF GoodStream, Contiguous
      <3>a. \A o, l, k, j \in Nat : l + k = o + 1 /\ j >= 1 =>
                l + j - 1 = o + j - k /\ l + j - 1 \in Nat
        BY SMTT(30)
      <3>i. i \in Nat /\ i >= 1
        BY <3>1, SMTT(30)
      <3> HIDE DEF n
      <3>3. ms.low + i - 1 = ms.offset + i - n /\ ms.low + i - 1 \in Nat
        <4>1. ms.low \in Nat /\ n \in Nat /\ ms.offset \in Nat
          BY <1>1, Zenon
        <4>2. ms.low + n = ms.offset + 1
          BY <3>2, Zenon
        <4> QED BY <3>a, <3>i, <4>1, <4>2, SMTT(30)
      <3> QED
        BY <3>1, <3>2, <3>3, Zenon
    <2> QED
      BY <2>1, <2>2, Zenon
  <1>6. CASE Len(all) > Limit
    <2>1. n = Limit /\ n >= 1 /\ kept = Tail(all)
      BY <1>1, <1>3, <1>6, SMTT(30)
    <2>2. /\ kept \in Seq(Entry) /\ Len(kept) = n
          /\ \A i \in 1..n : kept[i] = all[i + 1]
      BY <1>1, <1>3, <2>1, SMTT(30)
    <2>3. kept[1].offset = ms.offset + 2 - n /\ kept[1].offset \in Nat
      BY <1>1, <1>5, <2>1, <2>2, SMTT(30) DEF Entry
    <2>4. new.low = ms.offset + 2 - n
      BY <1>4, <1>6, <2>3, Zenon
    <2> HIDE DEF kept
    <2>5. ASSUME NEW i \in 1..n PROVE kept[i].offset = new.low + i - 1
      <3>1. i + 1 \in 1..(n + 1) /\ kept[i] = all[i + 1]
        BY <1>1, <2>2, SMTT(30)
      <3>2. all[i + 1].offset = ms.offset + (i + 1) - n
        BY <1>5, <3>1, Zenon
      <3> HIDE DEF n
      <3>3. ms.offset + (i + 1) - n = (ms.offset + 2 - n) + i - 1
        BY <1>1, <3>1, SMTT(30)
      <3> QED
        BY <2>4, <3>1, <3>2, <3>3, Zenon
    <2>6. ms.low + n = ms.offset + 1 /\ ms.low > 0
      BY <1>1, <2>1, Zenon DEF GoodStream, Contiguous
    <2>7. new.low > 0 /\ new.low + n = new.offset + 1 /\ kept # <<>>
      <3>1. kept # <<>>
        BY <1>1, <2>1, <2>2, Zenon
      <3>2. new.offset = ms.offset + 1
        BY <1>4, Zenon
      <3> HIDE DEF n
      <3>3. \A o, l, k \in Nat : l + k = o + 1 /\ l > 0 =>
                o + 2 - k > 0 /\ (o + 2 - k) + k = (o + 1) + 1
        BY SMTT(30)
      <3>4. ms.offset + 2 - n > 0 /\ (ms.offset + 2 - n) + n = (ms.offset + 1) + 1
        BY <1>1, <2>6, <3>3, Zenon
      <3> QED
        BY <2>4, <3>1, <3>2, <3>4, Zenon
    <2>8. new \in Memstream
      <3>1. new.low \in Nat
        BY <1>4, <1>6, <2>3, Zenon
      <3> QED BY <1>t, <2>2, <3>1, Zenon
    <2>9. Contiguous(new) /\ Len(new.data) <= Limit
      BY <1>1, <1>4, <2>2, <2>5, <2>7, Zenon DEF Contiguous
    <2> QED
      BY <1>4, <2>8, <2>9, Zenon DEF GoodStream, new
  <1>7. CASE ~(Len(all) > Limit)
    <2>1. kept = all /\ Len(kept) = n + 1 /\ n < Limit
      BY <1>1, <1>3, <1>7, SMTT(30)
    <2>2. new.low = ms.offset + 1 - n /\ new.low \in Nat
      <3>1. kept[1].offset = ms.offset + 1 - n /\ kept[1].offset \in Nat
        BY <1>1, <1>3, <1>5, <2>1, SMTT(30) DEF Entry
      <3>2. ms.low # 0 => ms.low + n = ms.offset + 1
        BY <1>1, Zenon DEF GoodStream, Contiguous
      <3>3. CASE ms.low = 0
        BY <1>4, <3>1, <3>3, Zenon
      <3>4. CASE ms.low # 0
        <4>1. new.low = ms.low
          BY <1>4, <1>7, <3>4, Zenon
        <4>2. \A o, l, k \in Nat : l + k = o + 1 => l = o + 1 - k
          BY SMTT(30)
        <4> HIDE DEF n
        <4> QED BY <1>1, <3>2, <3>4, <4>1, <4>2, Zenon
      <3> QED BY <3>3, <3>4, Zenon
    <2>3. n # 0 => ms.low + n = ms.offset + 1 /\ ms.low > 0
      BY <1>1, Zenon DEF GoodStream, Contiguous
    <2> HIDE DEF kept
    <2>4. ASSUME NEW i \in 1..(n + 1) PROVE kept[i].offset = new.low + i - 1
      <3>1. kept[i].offset = ms.offset + i - n
        BY <1>5, <2>1, Zenon
      <3>2. i \in Nat
        BY <1>1, SMTT(30)
      <3> HIDE DEF n
      <3>3. \A o, k, j \in Nat : o + j - k = (o + 1 - k) + j - 1
        BY SMTT(30)
      <3> QED BY <1>1, <2>2, <3>1, <3>2, <3>3, SMTT(30)
    <2>5. new.low > 0 /\ new.low + (n + 1) = new.offset + 1 /\ kept # <<>>
      <3>1. kept # <<>>
        BY <1>1, <2>1, SMTT(30)
      <3>2. new.offset = ms.offset + 1
        BY <1>4, Zenon
      <3> HIDE DEF n
      <3>3. \A o, l, k \in Nat : (k # 0 => l + k = o + 1 /\ l > 0) =>
                o + 1 - k > 0 /\ (o + 1 - k) + (k + 1) = (o + 1) + 1
        BY SMTT(30)
      <3>4. /\ ms.offset + 1 - n > 0
            /\ (ms.offset + 1 - n) + (n + 1) = (ms.offset + 1) + 1
        BY <1>1, <2>3, <3>3, ZenonT(60)
      <3> QED
        BY <2>2, <3>1, <3>2, <3>4, Zenon
    <2>6. new \in Memstream
      BY <1>3, <1>t, <2>1, <2>2, Zenon
    <2>7. Contiguous(new) /\ Len(new.data) <= Limit
      BY <1>1, <1>4, <2>1, <2>4, <2>5, SMTT(30) DEF Contiguous
    <2> QED
      BY <1>4, <2>6, <2>7, Zenon DEF GoodStream, new
  <1> QED
    BY <1>6, <1>7, Zenon

\* The loop of memstream.expire stops at some entry or at the end.
LEMMA CutIndexRange ==
    ASSUME NEW ms, GoodStream(ms), NEW time \in Nat
    PROVE  CutIndex(ms, time) \in 0..Len(ms.data)
  <1> DEFINE n == Len(ms.data)
             Old(i) == ms.data[i].ts + TTL < time
             S == {k \in 0..n : k < n => ~Old(k + 1)}
  <1>1. n \in Nat
    BY SMTT(30) DEF GoodStream, Memstream
  <1>2. n \in S /\ S \in SUBSET Nat
    BY <1>1, SMTT(30)
  <1> HIDE DEF Old
  <1>3. PICK k \in S : \A j \in S : k <= j
    BY <1>2, Smallest, Zenon
  <1>4. ASSUME NEW i \in 1..k PROVE Old(i)
    <2>1. i - 1 \in 0..n /\ i - 1 < n /\ ~(k <= i - 1)
      BY <1>1, SMTT(30)
    <2>2. i - 1 \notin S
      BY <1>3, <2>1, Zenon
    <2>3. Old((i - 1) + 1)
      BY <2>1, <2>2, Zenon
    <2> QED
      BY <2>3, SMTT(30)
  <1>5. k \in 0..n /\ (\A i \in 1..k : Old(i)) /\ (k < n => ~Old(k + 1))
    BY <1>4, Zenon
  <1> QED
    BY <1>5, Zenon DEF CutIndex, Old

\* memstream.expire leaves no gap: it drops a prefix.
LEMMA ExpireGood ==
    ASSUME NEW ms, GoodStream(ms), NEW time \in Nat
    PROVE  GoodStream(expire(ms, time)) /\ expire(ms, time).offset = ms.offset
  <1> DEFINE n == Len(ms.data)
             k == CutIndex(ms, time)
             kept == SubSeq(ms.data, k + 1, n)
             lo == IF kept = <<>> THEN 0 ELSE kept[1].offset
  <1>1. /\ ms \in Memstream /\ ms.offset \in Nat /\ ms.data \in Seq(Entry) /\ n \in Nat
        /\ n <= Limit /\ Limit \in Nat
    BY HistoryAssumption, SMTT(30) DEF GoodStream, Memstream
  <1>2. k \in 0..n
    BY CutIndexRange, Zenon
  <1>3. expire(ms, time) = [ms EXCEPT !.data = kept, !.low = lo]
    BY Zenon DEF expire
  <1> HIDE DEF k
  <1>4. /\ kept \in Seq(Entry) /\ Len(kept) = n - k
        /\ \A i \in 1..(n - k) : kept[i] = ms.data[k + i]
    BY <1>1, <1>2, SMTT(30)
  <1> HIDE DEF kept
  <1>5. lo \in Nat
    <2>1. kept # <<>> => kept[1] \in Entry
      BY <1>4, SMTT(30)
    <2> QED
      BY <2>1, Zenon DEF Entry
  <1> DEFINE new == [ms EXCEPT !.data = kept, !.low = lo]
  <1>6. /\ new \in Memstream /\ new.data = kept /\ new.low = lo
        /\ new.offset = ms.offset
    BY <1>1, <1>4, <1>5, Zenon DEF Memstream
  <1>7. ASSUME kept # <<>>
        PROVE  /\ lo > 0 /\ lo + Len(kept) = ms.offset + 1
               /\ \A i \in 1..Len(kept) : kept[i].offset = lo + i - 1
    <2>1. k < n /\ ms.data # <<>>
      BY <1>1, <1>2, <1>4, <1>7, SMTT(30)
    <2>2. /\ ms.low > 0 /\ ms.low + n = ms.offset + 1 /\ ms.low \in Nat
          /\ \A i \in 1..n : ms.data[i].offset = ms.low + i - 1
      BY <2>1, Zenon DEF GoodStream, Contiguous, Memstream
    <2>3. lo = ms.low + k
      <3>1. 1 \in 1..(n - k) /\ k + 1 \in 1..n
        BY <1>1, <1>2, <2>1, SMTT(30)
      <3>2. kept[1].offset = ms.low + (k + 1) - 1
        BY <1>4, <2>2, <3>1, Zenon
      <3>3. ms.low + (k + 1) - 1 = ms.low + k
        BY <1>2, <2>2, SMTT(30)
      <3> QED
        BY <1>7, <3>2, <3>3, Zenon
    <2> HIDE DEF lo
    <2>4. ASSUME NEW i \in 1..(n - k) PROVE kept[i].offset = lo + i - 1
      <3>1. k + i \in 1..n
        BY <1>1, <1>2, SMTT(30)
      <3>2. kept[i].offset = ms.low + (k + i) - 1
        BY <1>4, <2>2, <3>1, Zenon
      <3>3. ms.low + (k + i) - 1 = (ms.low + k) + i - 1
        BY <1>1, <1>2, <2>2, SMTT(30)
      <3> QED
        BY <2>3, <3>2, <3>3, Zenon
    <2>5. Len(kept) = n - k /\ n \in Nat /\ k \in Nat
      BY <1>1, <1>2, <1>4, SMTT(30)
    <2>6. \A a, b, c, o \in Nat : a + c = o + 1 /\ a > 0 =>
              a + b > 0 /\ (a + b) + (c - b) = o + 1
      BY SMTT(30)
    <2>7. ms.low \in Nat /\ ms.offset \in Nat /\ ms.low > 0 /\ ms.low + n = ms.offset + 1
      BY <1>1, <2>2, Zenon
    <2> HIDE DEF n
    <2>8. ms.low + k > 0 /\ (ms.low + k) + (n - k) = ms.offset + 1
      BY <2>5, <2>6, <2>7, SMTT(30)
    <2> QED
      BY <2>3, <2>4, <2>5, <2>8, Zenon
  <1>8. kept = <<>> => lo = 0
    BY Zenon
  <1>9. Len(kept) <= Limit
    BY <1>1, <1>2, <1>4, SMTT(30)
  <1> HIDE DEF lo
  <1>10. Contiguous(new)
    BY <1>6, <1>7, <1>8, Zenon DEF Contiguous
  <1> QED
    BY <1>3, <1>6, <1>9, <1>10, Zenon DEF GoodStream

\* When filterByOffset accepts an offset it returns exactly the messages after
\* it, and there is no newer one.
LEMMA FilterExact ==
    ASSUME NEW ms, GoodStream(ms), NEW from \in Nat, ~Refuses(ms, from)
    PROVE  LET history == filterByOffset(ms, from)
           IN  /\ {history[j] : j \in 1..Len(history)} = MessagesAfter(ms, from)
               /\ from + Len(history) = ms.offset
  <1> DEFINE n == Len(ms.data)
             d == from - ms.low
             history == filterByOffset(ms, from)
  <1>1. /\ ms.offset \in Nat /\ ms.low \in Nat /\ ms.data \in Seq(Entry) /\ n \in Nat
    BY SMTT(30) DEF GoodStream, Memstream
  <1>2. ms.low <= from /\ ms.low > 0 /\ d + 1 <= n /\ d \in Nat
    BY <1>1, SMTT(30) DEF Refuses
  <1>3. /\ ms.low + n = ms.offset + 1
        /\ \A i \in 1..n : ms.data[i].offset = ms.low + i - 1
    <2>1. ms.data # <<>>
      BY <1>1, <1>2, SMTT(30)
    <2> QED BY <2>1, Zenon DEF GoodStream, Contiguous
  <1>4. history = SubSeq(ms.data, d + 2, n)
    BY Zenon DEF filterByOffset
  <1>5. d + 2 \in 1..(n + 1) /\ from = ms.low + d
    <2>1. from = ms.low + d
      BY <1>1, SMTT(30)
    <2> HIDE DEF d, n
    <2> QED
      BY <1>1, <1>2, <2>1, SMTT(30)
  <1> HIDE DEF d, history
  <1>6. /\ Len(history) = n - d - 1
        /\ \A j \in 1..(n - d - 1) : history[j] = ms.data[j + d + 1]
    <2>1. d + 2 \in Int /\ n \in Int /\ \A i \in (d + 2)..n : ms.data[i] \in Entry
      BY <1>1, <1>2, SMTT(30)
    <2> HIDE DEF n
    <2>2. /\ Len(history) = IF d + 2 <= n THEN n - (d + 2) + 1 ELSE 0
          /\ \A i \in 1..(n - (d + 2) + 1) : history[i] = ms.data[(d + 2) + i - 1]
      BY <1>4, <2>1, SubSeqProperties, SMTT(30)
    <2>3. /\ n - (d + 2) + 1 = n - d - 1 /\ (d + 2 <= n \/ n - d - 1 = 0)
          /\ \A j \in Int : (d + 2) + j - 1 = j + d + 1
      BY <1>1, <1>2, SMTT(30)
    <2>4. \A j \in 1..(n - d - 1) : j \in Int
      BY SMTT(30)
    <2> QED BY <2>2, <2>3, <2>4, Zenon
  <1>7. from + Len(history) = ms.offset
    <2>1. ms.low + n = ms.offset + 1
      BY <1>3, Zenon
    <2> HIDE DEF n
    <2>2. \A o, l, k, j \in Nat : l + k = o + 1 => (l + j) + (k - j - 1) = o
      BY SMTT(30)
    <2>3. (ms.low + d) + (n - d - 1) = ms.offset
      <3>1. ms.offset \in Nat /\ ms.low \in Nat /\ n \in Nat /\ d \in Nat
        BY <1>1, <1>2, Zenon
      <3> QED BY <2>1, <2>2, <3>1, SMTT(30)
    <2> QED
      BY <1>5, <1>6, <2>3, Zenon
  <1>8. ASSUME NEW i \in 1..n PROVE ms.data[i].offset > from <=> i > d + 1
    <2>1. ms.data[i].offset = ms.low + i - 1
      BY <1>3, Zenon
    <2> HIDE DEF n
    <2> QED
      BY <1>1, <1>2, <1>5, <2>1, SMTT(30)
  <1>9. {history[j] : j \in 1..Len(history)} = MessagesAfter(ms, from)
    <2>1. ASSUME NEW j \in 1..Len(history) PROVE history[j] \in MessagesAfter(ms, from)
      <3>1. j + d + 1 \in 1..n /\ j + d + 1 > d + 1
        BY <1>1, <1>2, <1>6, SMTT(30)
      <3>2. history[j] = ms.data[j + d + 1]
        BY <1>6, Zenon
      <3> QED
        BY <1>8, <3>1, <3>2, Zenon DEF MessagesAfter
    <2>2. ASSUME NEW i \in 1..n, ms.data[i].offset > from
          PROVE  \E j \in 1..Len(history) : history[j] = ms.data[i]
      <3>1. i > d + 1
        BY <1>8, <2>2, Zenon
      <3>2. i - d - 1 \in 1..(n - d - 1) /\ (i - d - 1) + d + 1 = i
        BY <1>1, <1>2, <3>1, SMTT(30)
      <3>3. history[i - d - 1] = ms.data[i]
        BY <1>6, <3>2, Zenon
      <3> QED
        BY <1>6, <3>2, <3>3, Zenon
    <2> QED
      BY <2>1, <2>2, Zenon DEF MessagesAfter
  <1> QED
    BY <1>7, <1>9, Zenon DEF history

-----------------------------------------------------------------------------
(* The inductive invariant.                                                *)

AllGood(m) == m \in Seq(Memstream) /\ \A i \in 1..Len(m) : GoodStream(m[i])

\* a message broadcast, with its offset
LogRecord == [msg : Nat, offset : Nat]

\* HandleBroadcast of every publisher holds a memstream that exists
PubOK ==
    /\ pub \in [Publishers -> [pc : {"idle", "add", "send"}, ms : 0..Len(mem),
                               msg : Nat, offset : Nat]]
    /\ \A p \in Publishers : pub[p].pc # "idle" => pub[p].ms > 0

\* the expiration loop has found a memstream while it works
SweepOK ==
    /\ cur \in 0..Len(mem) /\ now \in Nat /\ msgs \in Nat
    /\ sweep \in {"idle", "check", "delete"} /\ sweepTime \in Nat
    /\ sweep # "idle" => cur > 0

\* the types of the log and of the client
ClientOK ==
    /\ log \in Seq(LogRecord)
    /\ client \in {"online", "offline", "catching", "reading", "rejected"}
    /\ asked \in Nat /\ pos \in Nat /\ ptr \in 0..Len(log) /\ got \subseteq Nat

\* the memstream that HistoryFrom has found exists
HeldOK == held \in 0..Len(mem) /\ (client = "reading" => held > 0)

\* The inductive invariant: the type invariant and GoodStream for every
\* memstream, those the expiration loop has deleted included.
Inv == AllGood(mem) /\ PubOK /\ SweepOK /\ ClientOK /\ HeldOK

\* The inductive invariant implies the two checked ones.
LEMMA InvImplies == Inv => TypeOK /\ StreamsContiguous
  BY Zenon DEF Inv, AllGood, GoodStream, PubOK, SweepOK, ClientOK, HeldOK, LogRecord,
     TypeOK, StreamsContiguous

\* the memstream Memory.add creates is good
LEMMA NewStreamGood == GoodStream(NewStream)
  <1>1. NewStream \in Memstream
    BY SMTT(30) DEF NewStream, Memstream
  <1>2. Contiguous(NewStream) /\ Len(NewStream.data) <= Limit
    BY HistoryAssumption, SMTT(30) DEF NewStream, Contiguous
  <1> QED
    BY <1>1, <1>2, Zenon DEF GoodStream

\* replacing a memstream by a good one
LEMMA SetGood ==
    ASSUME NEW m, AllGood(m), NEW k \in 1..Len(m), NEW ms, GoodStream(ms)
    PROVE  /\ AllGood([m EXCEPT ![k] = ms]) /\ Len([m EXCEPT ![k] = ms]) = Len(m)
           /\ [m EXCEPT ![k] = ms][k] = ms
  <1>1. ms \in Memstream
    BY Zenon DEF GoodStream
  <1>2. /\ [m EXCEPT ![k] = ms] \in Seq(Memstream) /\ Len([m EXCEPT ![k] = ms]) = Len(m)
        /\ \A i \in 1..Len(m) : [m EXCEPT ![k] = ms][i] = IF i = k THEN ms ELSE m[i]
    BY <1>1, SMTT(30) DEF AllGood
  <1> QED
    BY <1>2, Zenon DEF AllGood

\* a memstream at the end
LEMMA AppendGood ==
    ASSUME NEW m, AllGood(m), NEW ms, GoodStream(ms)
    PROVE  AllGood(Append(m, ms)) /\ Len(Append(m, ms)) = Len(m) + 1 /\ Len(m) \in Nat
  <1>1. ms \in Memstream /\ m \in Seq(Memstream)
    BY Zenon DEF GoodStream, AllGood
  <1>2. /\ Append(m, ms) \in Seq(Memstream) /\ Len(Append(m, ms)) = Len(m) + 1 /\ Len(m) \in Nat
        /\ \A i \in 1..Len(m) : Append(m, ms)[i] = m[i]
        /\ Append(m, ms)[Len(m) + 1] = ms
    BY <1>1, SMTT(30)
  <1>3. ASSUME NEW i \in 1..(Len(m) + 1) PROVE GoodStream(Append(m, ms)[i])
    BY <1>2, SMTT(30) DEF AllGood
  <1> QED
    BY <1>2, <1>3, Zenon DEF AllGood

\* NewMemoryBroker, and the first message of a warm stream
LEMMA InitInv == Init => Inv
  <1> SUFFICES ASSUME Init PROVE Inv
    BY Zenon
  <1>1. GoodStream(add(NewStream, 1, 1)) /\ AllGood(<<>>)
    BY NewStreamGood, AddGood, SMTT(30) DEF AllGood
  <1>2. AllGood(mem) /\ Len(mem) = cur /\ cur \in {0, 1}
    <2>1. CASE Warm
      <3>1. mem = Append(<<>>, add(NewStream, 1, 1)) /\ cur = 1
        BY <2>1, SMTT(30) DEF Init
      <3>2. AllGood(Append(<<>>, add(NewStream, 1, 1)))
        BY <1>1, AppendGood, Zenon
      <3> QED
        BY <3>1, <3>2, SMTT(30)
    <2>2. CASE ~Warm
      BY <1>1, <2>2, Zenon DEF Init
    <2> QED
      BY <2>1, <2>2, Zenon
  <1>3. PubOK
    BY <1>2, SMTT(30) DEF Init, PubOK
  <1>4. SweepOK
    BY <1>2, SMTT(30) DEF Init, SweepOK
  <1>5. ClientOK
    <2>1. [msg |-> 1, offset |-> 1] \in LogRecord
      BY Zenon DEF LogRecord
    <2>2. log \in Seq(LogRecord) /\ ptr \in 0..Len(log)
      BY <2>1, SMTT(30) DEF Init
    <2> QED
      BY <2>2, SMTT(30) DEF Init, ClientOK
  <1>6. HeldOK
    BY <1>2, SMTT(30) DEF Init, HeldOK
  <1> QED
    BY <1>2, <1>3, <1>4, <1>5, <1>6, Zenon DEF Inv

\* HandleBroadcast
LEMMA PublishInv ==
    ASSUME Inv, NEW p \in Publishers, Lookup(p) \/ Add(p) \/ Broadcast(p)
    PROVE  Inv'
  <1>1. /\ AllGood(mem) /\ PubOK /\ SweepOK /\ ClientOK /\ HeldOK /\ Len(mem) \in Nat
        /\ pub[p] \in [pc : {"idle", "add", "send"}, ms : 0..Len(mem), msg : Nat, offset : Nat]
        /\ pub[p].ms \in 0..Len(mem) /\ pub[p].msg \in Nat /\ pub[p].offset \in Nat
    BY SMTT(30) DEF Inv, AllGood, PubOK
  <1>2. CASE Lookup(p)
    <2>1. /\ AllGood(mem') /\ Len(mem') \in Nat /\ Len(mem) <= Len(mem')
          /\ cur' \in 1..Len(mem') /\ msgs' \in Nat
      BY <1>1, <1>2, NewStreamGood, AppendGood, SMTT(30) DEF Lookup, SweepOK
    <2>2. pub' = [pub EXCEPT ![p] = [pc |-> "add", ms |-> cur', msg |-> msgs', offset |-> 0]]
      BY <1>2, Zenon DEF Lookup
    <2>3. PubOK'
      <3>1. pub' \in [Publishers -> [pc : {"idle", "add", "send"}, ms : 0..Len(mem'),
                                     msg : Nat, offset : Nat]]
        BY <1>1, <2>1, <2>2, SMTT(30) DEF PubOK
      <3>2. \A q \in Publishers : pub'[q].pc # "idle" => pub'[q].ms > 0
        BY <1>1, <2>1, <2>2, SMTT(30) DEF PubOK
      <3> QED
        BY <3>1, <3>2, Zenon DEF PubOK
    <2>4. SweepOK'
      BY <1>1, <1>2, <2>1, SMTT(30) DEF Lookup, SweepOK
    <2>5. ClientOK'
      BY <1>1, <1>2, Zenon DEF Lookup, ClientOK, clientVars
    <2>6. HeldOK'
      BY <1>1, <1>2, <2>1, SMTT(30) DEF Lookup, HeldOK, clientVars
    <2> QED
      BY <2>1, <2>3, <2>4, <2>5, <2>6, Zenon DEF Inv
  <1>3. CASE Add(p)
    <2>1. pub[p].ms \in 1..Len(mem) /\ now \in Nat
      <3>1. pub[p].ms > 0
        BY <1>1, <1>3, Zenon DEF Add, PubOK
      <3> QED
        BY <1>1, <3>1, SMTT(30) DEF SweepOK
    <2>2. PICK new : /\ new = add(mem[pub[p].ms], pub[p].msg, now)
                     /\ mem' = [mem EXCEPT ![pub[p].ms] = new]
      BY <1>3, Zenon DEF Add
    <2>3. GoodStream(new)
      BY <1>1, <2>1, <2>2, AddGood, Zenon DEF AllGood
    <2>4. AllGood(mem') /\ Len(mem') = Len(mem) /\ mem'[pub[p].ms] = new
      <3>1. \A k \in 1..Len(mem) :
                /\ AllGood([mem EXCEPT ![k] = new]) /\ Len([mem EXCEPT ![k] = new]) = Len(mem)
                /\ [mem EXCEPT ![k] = new][k] = new
        BY <1>1, <2>3, SetGood, SMTT(30)
      <3> QED
        BY <2>1, <2>2, <3>1, Zenon
    <2>5. new.offset \in Nat
      BY <2>3, Zenon DEF GoodStream, Memstream
    <2>6. PubOK'
      <3>1. pub' = [pub EXCEPT ![p].pc = "send", ![p].offset = new.offset]
        BY <1>3, <2>4, Zenon DEF Add
      <3>2. pub' \in [Publishers -> [pc : {"idle", "add", "send"}, ms : 0..Len(mem),
                                     msg : Nat, offset : Nat]]
        BY <1>1, <2>5, <3>1, Zenon DEF PubOK
      <3>3. \A q \in Publishers : pub'[q].pc # "idle" => pub'[q].ms > 0
        BY <1>1, <2>1, <3>1, SMTT(30) DEF PubOK
      <3> QED
        BY <2>4, <3>2, <3>3, Zenon DEF PubOK
    <2>7. SweepOK'
      BY <1>1, <1>3, <2>4, Zenon DEF Add, SweepOK
    <2>8. ClientOK'
      BY <1>1, <1>3, Zenon DEF Add, ClientOK, clientVars
    <2>9. HeldOK'
      BY <1>1, <1>3, <2>4, Zenon DEF Add, HeldOK, clientVars
    <2> QED
      BY <2>4, <2>6, <2>7, <2>8, <2>9, Zenon DEF Inv
  <1>4. CASE Broadcast(p)
    <2>1. mem' = mem /\ pub' = [pub EXCEPT ![p].pc = "idle"]
      BY <1>4, Zenon DEF Broadcast
    <2>2. PubOK'
      <3>1. pub' \in [Publishers -> [pc : {"idle", "add", "send"}, ms : 0..Len(mem),
                                     msg : Nat, offset : Nat]]
        BY <1>1, <2>1, Zenon DEF PubOK
      <3>2. \A q \in Publishers : pub'[q].pc # "idle" => pub'[q].ms > 0
        BY <1>1, <2>1, Zenon DEF PubOK
      <3> QED
        BY <2>1, <3>1, <3>2, Zenon DEF PubOK
    <2>3. SweepOK'
      BY <1>1, <1>4, Zenon DEF Broadcast, SweepOK
    <2>4. ClientOK'
      <3>1. [msg |-> pub[p].msg, offset |-> pub[p].offset] \in LogRecord
        BY <1>1, Zenon DEF LogRecord
      <3>2. log' \in Seq(LogRecord) /\ Len(log') = Len(log) + 1 /\ Len(log) \in Nat
        BY <1>1, <1>4, <3>1, SMTT(30) DEF Broadcast, ClientOK
      <3> QED
        BY <1>1, <1>4, <3>2, SMTT(30) DEF Broadcast, ClientOK, clientVars
    <2>5. HeldOK'
      BY <1>1, <1>4, Zenon DEF Broadcast, HeldOK, clientVars
    <2> QED
      BY <1>1, <2>1, <2>2, <2>3, <2>4, <2>5, Zenon DEF Inv
  <1> QED
    BY <1>2, <1>3, <1>4, Zenon

\* the expiration loop
LEMMA SweepInv ==
    ASSUME Inv, ExpireEntries \/ ExpireCheck \/ ExpireDelete
    PROVE  Inv'
  <1>1. AllGood(mem) /\ PubOK /\ SweepOK /\ ClientOK /\ HeldOK /\ Len(mem) \in Nat
    BY SMTT(30) DEF Inv, AllGood
  <1>2. ClientOK'
    BY <1>1, Zenon DEF ExpireEntries, ExpireCheck, ExpireDelete, ClientOK, clientVars
  <1>3. CASE ExpireEntries
    <2>1. cur \in 1..Len(mem) /\ now \in Nat
      BY <1>1, <1>3, SMTT(30) DEF ExpireEntries, SweepOK
    <2>2. PICK new : new = expire(mem[cur], now) /\ mem' = [mem EXCEPT ![cur] = new]
      BY <1>3, Zenon DEF ExpireEntries
    <2>3. GoodStream(new)
      BY <1>1, <2>1, <2>2, ExpireGood, Zenon DEF AllGood
    <2>4. AllGood(mem') /\ Len(mem') = Len(mem)
      <3>1. \A k \in 1..Len(mem) :
                AllGood([mem EXCEPT ![k] = new]) /\ Len([mem EXCEPT ![k] = new]) = Len(mem)
        BY <1>1, <2>3, SetGood, Zenon
      <3> QED
        BY <2>1, <2>2, <3>1, Zenon
    <2>5. PubOK'
      BY <1>1, <1>3, <2>4, Zenon DEF ExpireEntries, PubOK
    <2>6. SweepOK'
      BY <1>1, <1>3, <2>1, <2>4, SMTT(30) DEF ExpireEntries, SweepOK
    <2>7. HeldOK'
      BY <1>1, <1>3, <2>4, Zenon DEF ExpireEntries, HeldOK, clientVars
    <2> QED
      BY <1>2, <2>4, <2>5, <2>6, <2>7, Zenon DEF Inv
  <1>4. CASE ExpireCheck \/ ExpireDelete
    <2>1. mem' = mem /\ pub' = pub
      BY <1>4, Zenon DEF ExpireCheck, ExpireDelete
    <2>2. SweepOK'
      BY <1>1, <1>4, SMTT(30) DEF ExpireCheck, ExpireDelete, SweepOK
    <2>3. HeldOK'
      BY <1>1, <1>4, Zenon DEF ExpireCheck, ExpireDelete, HeldOK, clientVars
    <2> QED
      BY <1>1, <1>2, <2>1, <2>2, <2>3, Zenon DEF Inv, PubOK
  <1> QED
    BY <1>3, <1>4, Zenon

\* the client
LEMMA ClientInv ==
    ASSUME Inv, Receive \/ Disconnect \/ Resubscribe \/ HistoryGet \/ HistoryFilter
    PROVE  Inv'
  <1>1. /\ AllGood(mem) /\ PubOK /\ SweepOK /\ ClientOK /\ HeldOK
        /\ Len(log) \in Nat /\ Len(mem) \in Nat
    BY SMTT(30) DEF Inv, ClientOK, AllGood
  <1>2. UNCHANGED streamVars
    BY Zenon DEF Receive, Disconnect, Resubscribe, HistoryGet, HistoryFilter
  <1>3. AllGood(mem') /\ PubOK' /\ SweepOK'
    BY <1>1, <1>2, Zenon DEF streamVars, PubOK, SweepOK
  <1>4. HeldOK'
    <2>1. mem' = mem
      BY <1>2, Zenon DEF streamVars
    <2> QED
      BY <1>1, <2>1, SMTT(30) DEF Receive, Disconnect, Resubscribe, HistoryGet, HistoryFilter,
                        HeldOK, SweepOK
  <1>5. CASE Receive
    <2>1. log[ptr + 1] \in LogRecord
      BY <1>1, <1>5, SMTT(30) DEF Receive, ClientOK
    <2>2. log[ptr + 1].msg \in Nat /\ log[ptr + 1].offset \in Nat
      BY <2>1, Zenon DEF LogRecord
    <2>3. log' = log /\ client' = client /\ asked' = asked
      BY <1>2, <1>5, Zenon DEF Receive, streamVars
    <2>4. got' \subseteq Nat /\ pos' \in Nat
      BY <1>1, <1>5, <2>2, Zenon DEF Receive, ClientOK
    <2>5. ptr' \in 0..Len(log)
      BY <1>1, <1>5, SMTT(30) DEF Receive, ClientOK
    <2>6. ClientOK'
      BY <1>1, <2>3, <2>4, <2>5, Zenon DEF ClientOK
    <2> QED
      BY <1>3, <1>4, <2>6, Zenon DEF Inv
  <1>6. CASE Disconnect \/ Resubscribe \/ HistoryGet
    <2>1. log' = log /\ pos' = pos /\ got' = got
      BY <1>2, <1>6, Zenon DEF Disconnect, Resubscribe, HistoryGet, streamVars
    <2>2. asked' \in Nat /\ client' \in {"offline", "catching", "reading", "rejected"}
      BY <1>1, <1>6, Zenon DEF Disconnect, Resubscribe, HistoryGet, ClientOK
    <2>3. ptr' \in 0..Len(log)
      BY <1>1, <1>6, SMTT(30) DEF Disconnect, Resubscribe, HistoryGet, ClientOK
    <2>4. ClientOK'
      BY <1>1, <2>1, <2>2, <2>3, Zenon DEF ClientOK
    <2> QED
      BY <1>3, <1>4, <2>4, Zenon DEF Inv
  <1>7. CASE HistoryFilter
    <2>1. got' \subseteq Nat /\ pos' \in Nat
      <3>1. CASE Refuses(mem[held], asked)
        BY <1>1, <1>7, <3>1, Zenon DEF HistoryFilter, ClientOK
      <3>2. CASE ~Refuses(mem[held], asked)
        <4>1. PICK h : /\ h = filterByOffset(mem[held], asked)
                       /\ got' = got \cup {h[i].msg : i \in 1..Len(h)}
                       /\ pos' = IF h # <<>> /\ h[Len(h)].offset > pos
                                 THEN h[Len(h)].offset ELSE pos
          BY <1>7, <3>2, Zenon DEF HistoryFilter
        <4>2. held \in 1..Len(mem) /\ mem[held] \in Memstream /\ ~Refuses(mem[held], asked)
          BY <1>1, <1>7, <3>2, SMTT(30) DEF HistoryFilter, HeldOK, AllGood
        <4>3. h \in Seq(Entry)
          <5>1. /\ mem[held].data \in Seq(Entry) /\ mem[held].low \in Nat /\ asked \in Nat
                /\ mem[held].low <= asked
            BY <1>1, <4>2, SMTT(30) DEF Memstream, ClientOK, Refuses
          <5>2. PICK q \in Seq(Entry) : q = mem[held].data
            BY <5>1, Zenon
          <5>3. PICK m \in Nat \ {0} : m = (asked - mem[held].low) + 2
            BY <5>1, SMTT(30)
          <5>4. h = SubSeq(q, m, Len(q))
            BY <4>1, <5>2, <5>3, Zenon DEF filterByOffset
          <5> QED
            BY <5>4, EndOfSeq, Zenon
        <4>4. \A i \in 1..Len(h) : h[i].msg \in Nat /\ h[i].offset \in Nat
          <5>1. \A i \in 1..Len(h) : h[i] \in Entry
            BY <4>3, SMTT(30)
          <5> QED
            BY <5>1, Zenon DEF Entry
        <4>5. h # <<>> => Len(h) \in 1..Len(h)
          BY <4>3, SMTT(30)
        <4> QED
          BY <1>1, <4>1, <4>4, <4>5, Zenon DEF ClientOK
      <3> QED
        BY <3>1, <3>2, Zenon
    <2>2. ClientOK'
      BY <1>1, <1>2, <1>7, <2>1, Zenon DEF HistoryFilter, ClientOK, streamVars
    <2> QED
      BY <1>3, <1>4, <2>2, Zenon DEF Inv
  <1> QED
    BY <1>5, <1>6, <1>7, Zenon

\* every step
LEMMA NextInv == Inv /\ [Next]_vars => Inv'
  <1> SUFFICES ASSUME Inv, [Next]_vars PROVE Inv'
    BY Zenon
  <1>1. CASE Tick
    BY <1>1, SMTT(30) DEF Tick, Inv, PubOK, SweepOK, ClientOK, HeldOK, clientVars
  <1>2. CASE UNCHANGED vars
    BY <1>2, Zenon DEF vars, streamVars, clientVars, Inv, PubOK, SweepOK, ClientOK, HeldOK
  <1> QED
    BY <1>1, <1>2, PublishInv, SweepInv, ClientInv, Zenon DEF Next

-----------------------------------------------------------------------------

\* Every reachable state is well typed, and no memstream ever holds more than
\* HistoryLimit messages: the trim of appendEntry is enough.
THEOREM HistoryTypeCorrect == Spec => []TypeOK
  BY InitInv, NextInv, InvImplies, PTL DEF Spec

\* Whatever the order of the publishers and of the expiration loop, memstream.add,
\* the trim to the limit and memstream.expire leave every memstream without a gap.
THEOREM NoGaps == Spec => []StreamsContiguous
  BY InitInv, NextInv, InvImplies, PTL DEF Spec

\* filterByOffset, which computes an index from two offsets, either refuses or
\* returns exactly the messages after the offset, for every limit and TTL.
THEOREM HistoryIsExact == Spec => []HistoryExact
  <1>1. Inv => HistoryExact
    <2> SUFFICES ASSUME AllGood(mem), NEW i \in 1..Len(mem),
                        NEW from \in 1..(mem[i].offset + 1), ~Refuses(mem[i], from)
                 PROVE  LET history == filterByOffset(mem[i], from)
                        IN  /\ {history[j] : j \in 1..Len(history)} = MessagesAfter(mem[i], from)
                            /\ from + Len(history) = mem[i].offset
      BY Zenon DEF Inv, HistoryExact
    <2>1. GoodStream(mem[i]) /\ from \in Nat
      BY SMTT(30) DEF AllGood, GoodStream, Memstream
    <2> QED
      BY <2>1, FilterExact, Zenon
  <1> QED
    BY <1>1, InitInv, NextInv, PTL DEF Spec

-----------------------------------------------------------------------------
(* A client that catches up.  In a stream that was never deleted and a log  *)
(* that is in order, what is broadcast is kept under its offset until the    *)
(* trim or the expiration drops it, and the client has everything up to its  *)
(* position.  Both preconditions, once false, stay false.                    *)

\* the one memstream of a stream that was never deleted: its last offset
LastOffset == IF mem = <<>> THEN 0 ELSE mem[1].offset

\* a message with its offset is the one the memstream keeps under that offset
Kept(from, msg) ==
    /\ from <= LastOffset
    /\ mem # <<>> => \A j \in 1..Len(mem[1].data) :
           mem[1].data[j].offset = from => mem[1].data[j].msg = msg

\* the offsets of the log grow
Ordered == \A i, j \in 1..Len(log) : i < j => log[i].offset < log[j].offset

\* what has been, or is about to be, broadcast is kept under its offset
OffsetsTrue ==
    /\ \A i \in 1..Len(log) : Kept(log[i].offset, log[i].msg)
    /\ \A p \in Publishers : pub[p].pc = "send" => Kept(pub[p].offset, pub[p].msg)

\* the client has the messages up to offset b; one that a publisher still has
\* to broadcast may be missing if it comes too late for the order of the log
HasUpTo(b) ==
    /\ b <= LastOffset
    /\ \A i \in 1..Len(log) : log[i].offset <= b => log[i].msg \in got
    /\ \A p \in Publishers : (pub[p].pc = "send" /\ pub[p].offset <= b) =>
           \/ pub[p].msg \in got
           \/ (Len(log) > 0 /\ pub[p].offset <= log[Len(log)].offset)

\* what the client has; while it is away, up to the offset it will ask with
ClientComplete ==
    /\ pos <= LastOffset
    /\ client = "online" => (HasUpTo(pos) /\ \A i \in 1..ptr : log[i].msg \in got)
    /\ client \in {"offline", "catching", "reading"} => HasUpTo(asked)

\* The invariant behind NothingMissed, inductive relative to Inv.
CaughtUp == (NeverDeleted /\ InOrder) => (Ordered /\ OffsetsTrue /\ ClientComplete)

\* memstream.add keeps entries of before and adds the new one.
LEMMA AddEntries ==
    ASSUME NEW ms, GoodStream(ms), NEW msg \in Nat, NEW time \in Nat
    PROVE  \A j \in 1..Len(add(ms, msg, time).data) :
               \/ add(ms, msg, time).data[j] = [offset |-> ms.offset + 1, ts |-> time, msg |-> msg]
               \/ \E i \in 1..Len(ms.data) : add(ms, msg, time).data[j] = ms.data[i]
  <1> DEFINE e == [offset |-> ms.offset + 1, ts |-> time, msg |-> msg]
             all == Append(ms.data, e)
             n == Len(ms.data)
  <1>1. ms.offset \in Nat /\ ms.data \in Seq(Entry) /\ n \in Nat
    BY SMTT(30) DEF GoodStream, Memstream
  <1>2. e \in Entry
    BY <1>1, SMTT(30) DEF Entry
  <1>3. add(ms, msg, time).data = IF Len(all) > Limit THEN Tail(all) ELSE all
    BY Zenon DEF add, appendEntry
  <1> HIDE DEF e
  <1>4. /\ all \in Seq(Entry) /\ Len(all) = n + 1 /\ all[n + 1] = e
        /\ \A i \in 1..n : all[i] = ms.data[i]
    BY <1>1, <1>2, SMTT(30)
  <1> HIDE DEF all
  <1>5. ASSUME NEW i \in 1..(n + 1)
        PROVE  all[i] = e \/ \E k \in 1..n : all[i] = ms.data[k]
    <2>1. CASE i = n + 1
      BY <1>4, <2>1, Zenon
    <2>2. CASE i # n + 1
      <3>1. i \in 1..n
        BY <1>1, <2>2, SMTT(30)
      <3> QED
        BY <1>4, <3>1, Zenon
    <2> QED
      BY <2>1, <2>2, Zenon
  <1>6. CASE Len(all) > Limit
    <2>1. /\ add(ms, msg, time).data = Tail(all) /\ Len(Tail(all)) = n
          /\ \A j \in 1..n : Tail(all)[j] = all[j + 1]
      BY <1>1, <1>3, <1>4, <1>6, SMTT(30)
    <2>2. \A j \in 1..n : j + 1 \in 1..(n + 1)
      BY <1>1, SMTT(30)
    <2> HIDE DEF n
    <2>3. \A j \in 1..n : Tail(all)[j] = e \/ \E k \in 1..n : Tail(all)[j] = ms.data[k]
      BY <1>5, <2>1, <2>2, SMTT(30)
    <2> QED
      BY <2>1, <2>3, ZenonT(60) DEF e, n
  <1>7. CASE ~(Len(all) > Limit)
    BY <1>3, <1>4, <1>5, <1>7, SMTT(30) DEF e
  <1> QED
    BY <1>6, <1>7, Zenon

\* memstream.expire keeps entries of before.
LEMMA ExpireEntriesOld ==
    ASSUME NEW ms, GoodStream(ms), NEW time \in Nat
    PROVE  \A j \in 1..Len(expire(ms, time).data) :
               \E i \in 1..Len(ms.data) : expire(ms, time).data[j] = ms.data[i]
  <1> DEFINE n == Len(ms.data)
             k == CutIndex(ms, time)
             kept == SubSeq(ms.data, k + 1, n)
             lo == IF kept = <<>> THEN 0 ELSE kept[1].offset
  <1>0. k \in 0..n
    BY CutIndexRange, Zenon
  <1> HIDE DEF k
  <1>1. ms.data \in Seq(Entry) /\ n \in Nat /\ k \in 0..n /\ ms \in Memstream
    BY <1>0, SMTT(30) DEF GoodStream, Memstream
  <1>2. expire(ms, time) = [ms EXCEPT !.data = kept, !.low = lo]
    BY Zenon DEF expire, k
  <1>3. /\ Len(kept) = n - k
        /\ \A i \in 1..(n - k) : kept[i] = ms.data[k + i] /\ k + i \in 1..n
    BY <1>1, SMTT(30)
  <1> HIDE DEF kept, lo
  <1>4. expire(ms, time).data = kept
    BY <1>1, <1>2, Zenon DEF Memstream
  <1> QED
    BY <1>3, <1>4, Zenon

\* The messages of the one memstream: entries disappear, and a new one has a
\* new offset.
LEMMA MemStep ==
    ASSUME Inv, Next, NeverDeleted, NeverDeleted'
    PROVE  /\ LastOffset \in Nat /\ LastOffset' \in Nat /\ LastOffset <= LastOffset'
           /\ \A o \in Nat : \A m : Kept(o, m) => Kept(o, m)'
  <1>0. AllGood(mem) /\ PubOK /\ SweepOK /\ Len(mem) \in Nat /\ Len(mem) <= 1
    BY SMTT(30) DEF Inv, AllGood, NeverDeleted
  <1>b. \A n \in Nat : n <= 1 => \A k \in 0..n : k # 0 => (k = 1 /\ n = 1)
    BY SMTT(30)
  <1>c. mem = <<>> => Len(mem) = 0
    BY SMTT(30)
  <1>1. LastOffset \in Nat
    <2>1. mem # <<>> => 1 \in 1..Len(mem)
      BY <1>0, SMTT(30) DEF AllGood
    <2> QED
      BY <1>0, <2>1, Zenon DEF LastOffset, AllGood, GoodStream, Memstream
  <1>2. CASE mem' = mem
    <2>1. LastOffset' = LastOffset
      BY <1>2, Zenon DEF LastOffset
    <2>2. \A o, m : Kept(o, m) => Kept(o, m)'
      BY <1>2, <2>1, Zenon DEF Kept
    <2> QED
      BY <1>1, <2>1, <2>2, SMTT(30)
  <1>a. ASSUME mem # <<>>, NEW new, mem' = [mem EXCEPT ![1] = new], GoodStream(new),
               new.offset >= mem[1].offset,
               \A j \in 1..Len(new.data) :
                   \/ new.data[j].offset > mem[1].offset
                   \/ \E i \in 1..Len(mem[1].data) : new.data[j] = mem[1].data[i]
        PROVE  /\ LastOffset' \in Nat /\ LastOffset <= LastOffset'
               /\ \A o \in Nat : \A m : Kept(o, m) => Kept(o, m)'
    <2>1. 1 \in 1..Len(mem) /\ GoodStream(mem[1]) /\ mem[1] \in Memstream
      BY <1>0, <1>a, SMTT(30) DEF AllGood
    <2>2. mem' # <<>> /\ mem'[1] = new
      BY <1>0, <1>a, <2>1, SetGood, SMTT(30)
    <2>3. LastOffset = mem[1].offset /\ LastOffset' = new.offset /\ new.offset \in Nat
      BY <1>a, <2>2, Zenon DEF LastOffset, GoodStream, Memstream
    <2>4. LastOffset <= LastOffset'
      BY <1>1, <1>a, <2>3, Zenon
    <2>5. ASSUME NEW o \in Nat, NEW m, Kept(o, m)
          PROVE  Kept(o, m)'
      <3>1. o <= LastOffset /\ o <= LastOffset'
        BY <1>1, <2>3, <2>4, <2>5, SMTT(30) DEF Kept
      <3>2. ASSUME NEW j \in 1..Len(new.data), new.data[j].offset = o
            PROVE  new.data[j].msg = m
        <4>1. ~(new.data[j].offset > mem[1].offset)
          BY <1>1, <2>3, <3>1, <3>2, SMTT(30)
        <4>2. PICK i \in 1..Len(mem[1].data) : new.data[j] = mem[1].data[i]
          BY <1>a, <4>1, Zenon
        <4> QED
          BY <1>a, <2>5, <3>2, <4>2, Zenon DEF Kept
      <3> QED
        BY <2>2, <3>1, <3>2, Zenon DEF Kept
    <2> QED
      BY <2>3, <2>4, <2>5, Zenon
  <1>3. ASSUME NEW p \in Publishers, Lookup(p), mem' # mem
        PROVE  /\ LastOffset' \in Nat /\ LastOffset <= LastOffset'
               /\ \A o \in Nat : \A m : Kept(o, m) => Kept(o, m)'
    <2>1. cur = 0 /\ mem = <<>> /\ mem' = Append(mem, NewStream)
      BY <1>3, Zenon DEF Lookup, NeverDeleted
    <2>2. mem' # <<>> /\ mem'[1] = NewStream
      BY <2>1, SMTT(30)
    <2>3. LastOffset = 0 /\ LastOffset' = 0 /\ Len(mem'[1].data) = 0
      BY <2>1, <2>2, SMTT(30) DEF LastOffset, NewStream
    <2> QED
      BY <2>2, <2>3, SMTT(30) DEF Kept
  <1>4. ASSUME NEW p \in Publishers, Add(p)
        PROVE  /\ LastOffset' \in Nat /\ LastOffset <= LastOffset'
               /\ \A o \in Nat : \A m : Kept(o, m) => Kept(o, m)'
    <2>1. pub[p].ms = 1 /\ Len(mem) = 1 /\ mem # <<>> /\ now \in Nat /\ pub[p].msg \in Nat
      <3>1. pub[p].pc # "idle" /\ pub[p] \in [pc : {"idle", "add", "send"}, ms : 0..Len(mem),
                                             msg : Nat, offset : Nat]
        BY <1>0, <1>4, Zenon DEF Add, PubOK
      <3>2. pub[p].ms > 0 /\ pub[p].ms \in 0..Len(mem) /\ pub[p].msg \in Nat
        BY <1>0, <3>1, Zenon DEF PubOK
      <3>3. pub[p].ms # 0
        BY <3>2, SMTT(30)
      <3>4. pub[p].ms = 1 /\ Len(mem) = 1
        BY <1>0, <1>b, <3>2, <3>3, Zenon
      <3> QED
        BY <1>0, <1>c, <3>2, <3>4, SMTT(30) DEF SweepOK
    <2>2. PICK new : new = add(mem[1], pub[p].msg, now) /\ mem' = [mem EXCEPT ![1] = new]
      BY <1>4, <2>1, Zenon DEF Add
    <2>3. GoodStream(mem[1]) /\ mem[1].offset \in Nat
      BY <1>0, <2>1, SMTT(30) DEF AllGood, GoodStream, Memstream
    <2>4. GoodStream(new) /\ new.offset = mem[1].offset + 1
      BY <2>1, <2>2, <2>3, AddGood, Zenon
    <2>5. ASSUME NEW j \in 1..Len(new.data)
          PROVE  \/ new.data[j].offset > mem[1].offset
                 \/ \E i \in 1..Len(mem[1].data) : new.data[j] = mem[1].data[i]
      <3>1. \/ new.data[j] = [offset |-> mem[1].offset + 1, ts |-> now, msg |-> pub[p].msg]
            \/ \E i \in 1..Len(mem[1].data) : new.data[j] = mem[1].data[i]
        BY <2>1, <2>2, <2>3, AddEntries, SMTT(30)
      <3> QED
        BY <2>3, <3>1, SMTT(30)
    <2>6. new.offset >= mem[1].offset
      BY <2>3, <2>4, SMTT(30)
    <2> QED
      BY <1>a, <2>1, <2>2, <2>4, <2>5, <2>6, Zenon
  <1>5. ASSUME ExpireEntries
        PROVE  /\ LastOffset' \in Nat /\ LastOffset <= LastOffset'
               /\ \A o \in Nat : \A m : Kept(o, m) => Kept(o, m)'
    <2>1. cur = 1 /\ Len(mem) = 1 /\ mem # <<>> /\ now \in Nat
      <3>1. cur # 0 /\ cur \in 0..Len(mem) /\ now \in Nat
        BY <1>0, <1>5, Zenon DEF ExpireEntries, SweepOK
      <3>2. cur = 1 /\ Len(mem) = 1
        BY <1>0, <1>b, <3>1, Zenon
      <3> QED
        BY <1>c, <3>1, <3>2, Zenon
    <2>2. PICK new : new = expire(mem[1], now) /\ mem' = [mem EXCEPT ![1] = new]
      BY <1>5, <2>1, Zenon DEF ExpireEntries
    <2>3. GoodStream(mem[1]) /\ mem[1].offset \in Nat
      BY <1>0, <2>1, SMTT(30) DEF AllGood, GoodStream, Memstream
    <2>4. GoodStream(new) /\ new.offset = mem[1].offset
      BY <2>1, <2>2, <2>3, ExpireGood, Zenon
    <2>5. \A j \in 1..Len(new.data) : \E i \in 1..Len(mem[1].data) : new.data[j] = mem[1].data[i]
      BY <2>1, <2>2, <2>3, ExpireEntriesOld, SMTT(30)
    <2>6. new.offset >= mem[1].offset
      BY <2>3, <2>4, SMTT(30)
    <2> QED
      BY <1>a, <2>1, <2>2, <2>4, <2>5, <2>6, Zenon
  <1>6. CASE ~(mem' = mem)
    <2>1. (\E p \in Publishers : Lookup(p) \/ Add(p)) \/ ExpireEntries
      BY <1>6, Zenon DEF Next, Broadcast, Tick, ExpireCheck, ExpireDelete, Receive, Disconnect,
                  Resubscribe, HistoryGet, HistoryFilter, streamVars
    <2> QED
      BY <1>1, <1>3, <1>4, <1>5, <1>6, <2>1, Zenon
  <1> QED
    BY <1>2, <1>6, Zenon

\* A memstream once deleted, or a log once out of order, stays so.
LEMMA OnceGone ==
    ASSUME Inv, Next
    PROVE  (NeverDeleted' => NeverDeleted) /\ (InOrder' => InOrder)
  <1>0. mem \in Seq(Memstream) /\ Len(mem) \in Nat /\ log \in Seq(LogRecord) /\ Len(log) \in Nat
    BY SMTT(30) DEF Inv, AllGood, ClientOK
  <1>1. NeverDeleted' => NeverDeleted
    <2>1. \/ (mem' = mem /\ cur' = cur) \/ (mem' = mem /\ cur' = 0)
          \/ (cur = 0 /\ Len(mem') = Len(mem) + 1)
          \/ (Len(mem') = Len(mem) /\ cur' = cur)
      <3>1. ASSUME NEW p \in Publishers, Lookup(p)
            PROVE  (mem' = mem /\ cur' = cur) \/ (cur = 0 /\ Len(mem') = Len(mem) + 1)
        BY <1>0, <3>1, SMTT(30) DEF Lookup, NewStream, Memstream
      <3>2. ASSUME NEW p \in Publishers, Add(p)
            PROVE  Len(mem') = Len(mem) /\ cur' = cur
        BY <1>0, <3>2, SMTT(30) DEF Add
      <3>3. CASE ExpireEntries
        BY <1>0, <3>3, SMTT(30) DEF ExpireEntries
      <3>4. CASE ~ExpireEntries /\ ~(\E p \in Publishers : Lookup(p) \/ Add(p))
        BY <3>4, Zenon DEF Next, Broadcast, Tick, ExpireCheck, ExpireDelete, Receive, Disconnect,
                    Resubscribe, HistoryGet, HistoryFilter, streamVars
      <3> QED
        BY <3>1, <3>2, <3>3, <3>4, Zenon
    <2>2. cur = 0 \/ cur # 0
      BY Zenon
    <2>3. mem = <<>> <=> Len(mem) = 0
      BY <1>0, SMTT(30)
    <2>4. CASE Len(mem') = Len(mem) /\ cur' = cur
      <3>1. mem' = <<>> => Len(mem) = 0
        BY <2>4, Zenon
      <3> QED
        BY <2>3, <2>4, <3>1, Zenon DEF NeverDeleted
    <2>5. CASE cur = 0 /\ Len(mem') = Len(mem) + 1
      BY <1>0, <2>3, <2>5, SMTT(30) DEF NeverDeleted
    <2>6. CASE mem' = mem /\ cur' = 0
      BY <2>6, Zenon DEF NeverDeleted
    <2> QED
      BY <2>1, <2>4, <2>5, <2>6, Zenon
  <1>2. InOrder' => InOrder
    <2>1. CASE log' = log
      BY <2>1, Zenon DEF InOrder
    <2>2. CASE log' # log
      <3>1. PICK p \in Publishers : Broadcast(p)
        BY <2>2, Zenon DEF Next, Lookup, Add, Tick, ExpireEntries, ExpireCheck, ExpireDelete,
           Receive,
                    Disconnect, Resubscribe, HistoryGet, HistoryFilter, streamVars
      <3>2. log' = Append(log, [msg |-> pub[p].msg, offset |-> pub[p].offset])
        BY <3>1, Zenon DEF Broadcast
      <3>3. /\ Len(log') = Len(log) + 1
            /\ \A i \in 1..Len(log) : log'[i] = log[i]
        BY <1>0, <3>2, SMTT(30)
      <3>4. \A i \in 1..Len(log) - 1 : i \in 1..Len(log') - 1 /\ i \in 1..Len(log) /\ i + 1 \in 1..Len(log)
        BY <1>0, <3>3, SMTT(30)
      <3> QED
        BY <3>3, <3>4, Zenon DEF InOrder
    <2> QED
      BY <2>1, <2>2, Zenon
  <1> QED
    BY <1>1, <1>2, Zenon

\* A step that broadcasts nothing takes nothing from the client.
LEMMA UpToStays ==
    ASSUME NEW b \in Nat, HasUpTo(b), log' = log, got \subseteq got',
           LastOffset \in Nat, LastOffset' \in Nat, LastOffset <= LastOffset', PubOK',
           \A p \in Publishers : pub'[p].pc = "send" =>
               (pub'[p] = pub[p] \/ pub'[p].offset > LastOffset)
    PROVE  HasUpTo(b)'
  <1>1. b <= LastOffset /\ b <= LastOffset'
    BY SMTT(30) DEF HasUpTo
  <1>2. \A i \in 1..Len(log') : log'[i].offset <= b => log'[i].msg \in got'
    BY Zenon DEF HasUpTo
  <1>3. ASSUME NEW p \in Publishers, pub'[p].pc = "send", pub'[p].offset <= b
        PROVE  pub'[p].msg \in got' \/ (Len(log') > 0 /\ pub'[p].offset <= log'[Len(log')].offset)
    <2>1. pub'[p].offset \in Nat
      BY Zenon DEF PubOK
    <2>2. pub'[p] = pub[p]
      BY <1>1, <1>3, <2>1, SMTT(30)
    <2> QED
      BY <1>3, <2>2, Zenon DEF HasUpTo
  <1> QED
    BY <1>1, <1>2, <1>3, Zenon DEF HasUpTo

\* The steps of the publishers and of the expiration loop, with the client as
\* it was and the log as it was.
LEMMA QuietComplete ==
    ASSUME Inv, Inv', Ordered, OffsetsTrue, ClientComplete, UNCHANGED <<log, clientVars>>,
           LastOffset \in Nat, LastOffset' \in Nat, LastOffset <= LastOffset',
           \A o \in Nat : \A m : Kept(o, m) => Kept(o, m)',
           \A p \in Publishers : pub'[p].pc = "send" =>
               \/ pub'[p] = pub[p]
               \/ (pub'[p].offset > LastOffset /\ Kept(pub[p].offset, pub[p].msg)')
    PROVE  Ordered' /\ OffsetsTrue' /\ ClientComplete'
  <1>0. /\ log' = log /\ client' = client /\ asked' = asked /\ pos' = pos /\ ptr' = ptr /\ got' = got
        /\ pos \in Nat /\ asked \in Nat /\ log \in Seq(LogRecord) /\ PubOK /\ PubOK'
    BY Zenon DEF clientVars, Inv, ClientOK
  <1>1. Ordered'
    BY <1>0, Zenon DEF Ordered
  <1>2. OffsetsTrue'
    <2>1. ASSUME NEW i \in 1..Len(log')
          PROVE  Kept(log[i].offset, log[i].msg)'
      <3>0. i \in 1..Len(log) /\ log[i] \in LogRecord
        BY <1>0, <2>1, SMTT(30)
      <3>1. PICK o \in Nat, m \in Nat : o = log[i].offset /\ m = log[i].msg
        BY <3>0, Zenon DEF LogRecord
      <3>2. Kept(o, m)
        BY <3>0, <3>1, Zenon DEF OffsetsTrue
      <3>3. Kept(o, m)'
        BY <3>2, Zenon
      <3> QED
        BY <1>0, <3>1, <3>3, Zenon DEF Kept
    <2>2. ASSUME NEW p \in Publishers, pub'[p].pc = "send"
          PROVE  Kept(pub[p].offset, pub[p].msg)'
      <3>1. CASE pub'[p] = pub[p]
        <4>1. PICK o \in Nat, m \in Nat : o = pub[p].offset /\ m = pub[p].msg
          BY <1>0, Zenon DEF PubOK
        <4>2. Kept(o, m)
          BY <2>2, <3>1, <4>1, Zenon DEF OffsetsTrue
        <4>3. Kept(o, m)'
          BY <4>2, Zenon
        <4> QED
          BY <3>1, <4>1, <4>3, Zenon DEF Kept
      <3> QED
        BY <2>2, <3>1, Zenon
    <2> QED
      BY <2>1, <2>2, Zenon DEF OffsetsTrue
  <1>3. ASSUME NEW b \in Nat, HasUpTo(b)
        PROVE  HasUpTo(b)'
    BY <1>0, <1>3, UpToStays, Zenon
  <1>4. pos' <= LastOffset'
    <2>1. \A a, c, d \in Nat : (a <= c /\ c <= d) => a <= d
      BY SMTT(30)
    <2> QED
      BY <1>0, <2>1, Zenon DEF ClientComplete
  <1>5. ASSUME client' = "online"
        PROVE  HasUpTo(pos)' /\ \A i \in 1..ptr' : log'[i].msg \in got'
    <2>1. PICK b \in Nat : b = pos
      BY <1>0, Zenon
    <2>2. HasUpTo(b) /\ \A i \in 1..ptr : log[i].msg \in got
      BY <1>0, <1>5, <2>1, Zenon DEF ClientComplete
    <2>3. HasUpTo(b)'
      BY <1>3, <2>2, Zenon
    <2> QED
      BY <1>0, <2>1, <2>2, <2>3, Zenon DEF HasUpTo
  <1>6. ASSUME client' \in {"offline", "catching", "reading"}
        PROVE  HasUpTo(asked)'
    <2>1. PICK b \in Nat : b = asked
      BY <1>0, Zenon
    <2>2. HasUpTo(b)
      BY <1>0, <1>6, <2>1, Zenon DEF ClientComplete
    <2>3. HasUpTo(b)'
      BY <1>3, <2>2, Zenon
    <2> QED
      BY <1>0, <2>1, <2>3, Zenon DEF HasUpTo
  <1> QED
    BY <1>1, <1>2, <1>4, <1>5, <1>6, Zenon DEF ClientComplete

\* The message that a publisher has added is the one its memstream keeps under
\* the new offset, which is larger than all before.
LEMMA AddComplete ==
    ASSUME Inv, Inv', NeverDeleted, NEW p \in Publishers, Add(p)
    PROVE  pub'[p].offset > LastOffset /\ Kept(pub[p].offset, pub[p].msg)'
  <1>0. AllGood(mem) /\ PubOK /\ SweepOK /\ Len(mem) \in Nat /\ Len(mem) <= 1
    BY SMTT(30) DEF Inv, AllGood, NeverDeleted
  <1>1. \A n \in Nat : n <= 1 => \A k \in 0..n : k # 0 => (k = 1 /\ n = 1)
    BY SMTT(30)
  <1>2. /\ pub[p] \in [pc : {"idle", "add", "send"}, ms : 0..Len(mem), msg : Nat, offset : Nat]
        /\ pub[p].ms > 0 /\ now \in Nat
    BY <1>0, Zenon DEF Add, PubOK, SweepOK
  <1>3. pub[p].ms \in 0..Len(mem) /\ pub[p].ms # 0 /\ pub[p].msg \in Nat
    BY <1>2, SMTT(30)
  <1>4. pub[p].ms = 1 /\ Len(mem) = 1
    BY <1>0, <1>1, <1>3, Zenon
  <1>5. mem # <<>> /\ 1 \in 1..Len(mem) /\ GoodStream(mem[1]) /\ mem[1] \in Memstream
    <2>1. mem = <<>> => Len(mem) = 0
      BY SMTT(30)
    <2>2. 1 \in 1..Len(mem) /\ mem # <<>>
      BY <1>4, <2>1, SMTT(30)
    <2> QED
      BY <1>0, <2>2, Zenon DEF AllGood, GoodStream
  <1>6. PICK new : new = add(mem[1], pub[p].msg, now) /\ mem' = [mem EXCEPT ![1] = new]
    BY <1>4, Zenon DEF Add
  <1>7. GoodStream(new) /\ new.offset = mem[1].offset + 1 /\ mem[1].offset \in Nat
    BY <1>2, <1>3, <1>5, <1>6, AddGood, Zenon DEF Memstream
  <1>8. mem' # <<>> /\ mem'[1] = new
    BY <1>0, <1>4, <1>5, <1>6, <1>7, SetGood, SMTT(30)
  <1>9. pub' = [pub EXCEPT ![p].pc = "send", ![p].offset = mem'[1].offset]
    BY <1>4, Zenon DEF Add
  <1>10. pub'[p].offset = mem[1].offset + 1 /\ pub'[p].msg = pub[p].msg
    BY <1>0, <1>7, <1>8, <1>9, Zenon DEF PubOK
  <1>11. LastOffset = mem[1].offset /\ LastOffset' = mem[1].offset + 1
    BY <1>5, <1>7, <1>8, Zenon DEF LastOffset
  <1>12. ASSUME NEW j \in 1..Len(new.data), new.data[j].offset = mem[1].offset + 1
         PROVE  new.data[j].msg = pub[p].msg
    <2>1. \/ new.data[j] = [offset |-> mem[1].offset + 1, ts |-> now, msg |-> pub[p].msg]
          \/ \E i \in 1..Len(mem[1].data) : new.data[j] = mem[1].data[i]
      <3>1. now \in Nat /\ pub[p].msg \in Nat /\ GoodStream(mem[1])
        BY <1>2, <1>3, <1>5, Zenon
      <3>2. PICK ms, msg, time : ms = mem[1] /\ msg = pub[p].msg /\ time = now
        BY Zenon
      <3>3. j \in 1..Len(add(ms, msg, time).data) /\ new = add(ms, msg, time)
        BY <1>6, <3>2, Zenon
      <3>4. \/ add(ms, msg, time).data[j] = [offset |-> ms.offset + 1, ts |-> time, msg |-> msg]
            \/ \E i \in 1..Len(ms.data) : add(ms, msg, time).data[j] = ms.data[i]
        BY <3>1, <3>2, <3>3, AddEntries, SMTT(30)
      <3> QED
        BY <3>2, <3>3, <3>4, Zenon
    <2>2. ASSUME NEW i \in 1..Len(mem[1].data)
          PROVE  mem[1].data[i].offset <= mem[1].offset
      <3>1. /\ mem[1].low \in Nat /\ mem[1].data # <<>> /\ Len(mem[1].data) \in Nat
            /\ mem[1].low + Len(mem[1].data) = mem[1].offset + 1
            /\ mem[1].data[i].offset = mem[1].low + i - 1
        <4>1. mem[1].low \in Nat /\ mem[1].data \in Seq(Entry)
          BY <1>5, Zenon DEF Memstream
        <4>2. Len(mem[1].data) \in Nat /\ mem[1].data # <<>>
          BY <2>2, <4>1, SMTT(30)
        <4> QED
          BY <1>5, <2>2, <4>1, <4>2, Zenon DEF GoodStream, Contiguous
      <3>2. \A lo, n, last \in Nat : lo + n = last + 1 => \A k \in 1..n : lo + k - 1 <= last
        BY SMTT(30)
      <3> QED
        BY <1>7, <3>1, <3>2, Zenon
    <2>3. mem[1].offset + 1 > mem[1].offset
      BY <1>7, SMTT(30)
    <2>4. \A i \in 1..Len(mem[1].data) : new.data[j] # mem[1].data[i]
      <3>1. ~(mem[1].offset + 1 <= mem[1].offset)
        BY <1>7, SMTT(30)
      <3> QED
        BY <1>12, <2>2, <3>1, Zenon
    <2> QED
      BY <2>1, <2>4, SMTT(30)
  <1> QED
    <2>1. pub'[p].offset > LastOffset
      BY <1>7, <1>10, <1>11, SMTT(30)
    <2>2. pub'[p].offset <= LastOffset'
      BY <1>7, <1>10, <1>11, SMTT(30)
    <2> QED
      BY <1>8, <1>10, <1>12, <2>1, <2>2, Zenon DEF Kept

\* Broadcast: in a log that stays in order the message comes after all those
\* before, so that no client can have passed its offset without having it.
LEMMA BroadcastComplete ==
    ASSUME Inv, Inv', Ordered, OffsetsTrue, ClientComplete, InOrder',
           NEW p \in Publishers, Broadcast(p)
    PROVE  Ordered' /\ OffsetsTrue' /\ ClientComplete'
  <1> DEFINE n == Len(log)
  <1>0. /\ mem' = mem /\ client' = client /\ asked' = asked /\ pos' = pos /\ ptr' = ptr /\ got' = got
        /\ pos \in Nat /\ asked \in Nat /\ log \in Seq(LogRecord) /\ n \in Nat /\ ptr \in 0..n
        /\ pub[p].pc = "send" /\ pub' = [pub EXCEPT ![p].pc = "idle"]
    BY SMTT(30) DEF Broadcast, clientVars, Inv, ClientOK
  <1>1. pub[p].msg \in Nat /\ pub[p].offset \in Nat /\ PubOK
    BY Zenon DEF Inv, PubOK
  <1>2. PICK e \in LogRecord : /\ e.msg = pub[p].msg /\ e.offset = pub[p].offset
                               /\ log' = Append(log, e)
    <2>1. [msg |-> pub[p].msg, offset |-> pub[p].offset] \in LogRecord
      BY <1>1, Zenon DEF LogRecord
    <2> QED
      BY <2>1, Zenon DEF Broadcast
  <1>3. /\ Len(log') = n + 1 /\ log'[n + 1] = e
        /\ \A i \in 1..n : log'[i] = log[i] /\ log[i] \in LogRecord
    BY <1>0, <1>2, SMTT(30)
  <1>4. \A i \in 1..(n + 1) : i \in 1..n \/ i = n + 1
    BY <1>0, SMTT(30)
  <1>5. n > 0 => log[n].offset < e.offset
    <2>1. ASSUME n > 0
          PROVE  log[n].offset < e.offset
      <3>1. n \in 1..(Len(log') - 1) /\ n \in 1..n
        BY <1>0, <1>3, <2>1, SMTT(30)
      <3>2. log'[n].offset < log'[n + 1].offset
        BY <3>1, Zenon DEF InOrder
      <3> QED
        BY <1>3, <3>1, <3>2, Zenon
    <2> QED
      BY <2>1, Zenon
  <1>6. e.offset \in Nat /\ \A i \in 1..n : log[i].offset \in Nat
    BY <1>3, Zenon DEF LogRecord
  <1>7. \A i \in 1..n : log[i].offset < e.offset
    <2>1. ASSUME NEW i \in 1..n
          PROVE  log[i].offset < e.offset
      <3>0. n > 0 /\ n \in 1..n /\ (i < n \/ i = n)
        BY <1>0, SMTT(30)
      <3>1. i < n => log[i].offset < log[n].offset
        BY <3>0, Zenon DEF Ordered
      <3>2. \A a, b, c \in Nat : (a < b /\ b < c) => a < c
        BY SMTT(30)
      <3> QED
        BY <1>5, <1>6, <3>0, <3>1, <3>2, Zenon
    <2> QED
      BY <2>1, Zenon
  <1>8. LastOffset' = LastOffset /\ \A o, m : Kept(o, m) => Kept(o, m)'
    BY <1>0, Zenon DEF LastOffset, Kept
  <1>9. \A q \in Publishers : pub'[q].pc = "send" => (q # p /\ pub'[q] = pub[q])
    BY <1>0, <1>1, Zenon DEF PubOK
  <1> HIDE DEF n
  <1>10. Ordered'
    <2>1. ASSUME NEW i \in 1..(n + 1), NEW j \in 1..(n + 1), i < j
          PROVE  log'[i].offset < log'[j].offset
      <3>1. i \in 1..n
        BY <1>0, <2>1, SMTT(30)
      <3>2. CASE j = n + 1
        BY <1>3, <1>7, <3>1, <3>2, Zenon
      <3>3. CASE j \in 1..n
        BY <1>3, <2>1, <3>1, <3>3, Zenon DEF Ordered, n
      <3> QED
        BY <1>4, <3>2, <3>3, Zenon
    <2> QED
      BY <1>3, <2>1, Zenon DEF Ordered
  <1>11. OffsetsTrue'
    <2>1. ASSUME NEW i \in 1..(n + 1)
          PROVE  Kept(log[i].offset, log[i].msg)'
      <3>1. CASE i = n + 1
        <4>1. PICK o, m : o = pub[p].offset /\ m = pub[p].msg
          BY Zenon
        <4>2. Kept(o, m)
          BY <1>0, <4>1, Zenon DEF OffsetsTrue
        <4>3. Kept(o, m)'
          BY <1>8, <4>2, Zenon
        <4> QED
          BY <1>2, <1>3, <3>1, <4>1, <4>3, Zenon DEF Kept
      <3>2. CASE i \in 1..n
        <4>1. PICK o, m : o = log[i].offset /\ m = log[i].msg
          BY Zenon
        <4>2. Kept(o, m)
          BY <3>2, <4>1, Zenon DEF OffsetsTrue, n
        <4>3. Kept(o, m)'
          BY <1>8, <4>2, Zenon
        <4> QED
          BY <1>3, <3>2, <4>1, <4>3, Zenon DEF Kept
      <3> QED
        BY <1>4, <3>1, <3>2, Zenon
    <2>2. ASSUME NEW q \in Publishers, pub'[q].pc = "send"
          PROVE  Kept(pub[q].offset, pub[q].msg)'
      <3>1. PICK o, m : o = pub[q].offset /\ m = pub[q].msg
        BY Zenon
      <3>2. Kept(o, m)
        BY <1>9, <2>2, <3>1, Zenon DEF OffsetsTrue
      <3>3. Kept(o, m)'
        BY <1>8, <3>2, Zenon
      <3> QED
        BY <1>9, <2>2, <3>1, <3>3, Zenon DEF Kept
    <2> QED
      BY <1>3, <2>1, <2>2, Zenon DEF OffsetsTrue
  <1>12. ASSUME NEW b \in Nat, HasUpTo(b)
         PROVE  HasUpTo(b)'
    <2>1. b <= LastOffset'
      BY <1>8, <1>12, Zenon DEF HasUpTo
    <2>2. ASSUME NEW i \in 1..(n + 1), log'[i].offset <= b
          PROVE  log'[i].msg \in got'
      <3>1. CASE i = n + 1
        <4>1. pub[p].offset <= b
          BY <1>2, <1>3, <2>2, <3>1, Zenon
        <4>2. pub[p].msg \in got \/ (n > 0 /\ pub[p].offset <= log[n].offset)
          BY <1>0, <1>12, <4>1, Zenon DEF HasUpTo, n
        <4>3. ~(n > 0 /\ pub[p].offset <= log[n].offset)
          <5>1. \A a, c \in Nat : a < c => ~(c <= a)
            BY SMTT(30)
          <5>2. n > 0 => n \in 1..n
            BY <1>0, SMTT(30)
          <5> QED
            BY <1>2, <1>6, <1>7, <5>1, <5>2, Zenon
        <4> QED
          BY <1>0, <1>2, <1>3, <3>1, <4>2, <4>3, Zenon
      <3>2. CASE i \in 1..n
        BY <1>0, <1>3, <1>12, <2>2, <3>2, Zenon DEF HasUpTo, n
      <3> QED
        BY <1>4, <3>1, <3>2, Zenon
    <2>3. ASSUME NEW q \in Publishers, pub'[q].pc = "send", pub'[q].offset <= b
          PROVE  pub'[q].msg \in got' \/ (n + 1 > 0 /\ pub'[q].offset <= log'[n + 1].offset)
      <3>1. pub'[q] = pub[q] /\ pub[q].offset \in Nat
        BY <1>1, <1>9, <2>3, Zenon DEF PubOK
      <3>2. pub[q].msg \in got \/ (n > 0 /\ pub[q].offset <= log[n].offset)
        BY <1>12, <2>3, <3>1, Zenon DEF HasUpTo, n
      <3>3. CASE n > 0 /\ pub[q].offset <= log[n].offset
        <4>1. n \in 1..n /\ n + 1 > 0
          BY <1>0, <3>3, SMTT(30)
        <4>2. \A a, c, d \in Nat : (a <= c /\ c < d) => a <= d
          BY SMTT(30)
        <4> QED
          BY <1>3, <1>6, <1>7, <3>1, <3>3, <4>1, <4>2, ZenonT(60)
      <3> QED
        BY <1>0, <3>1, <3>2, <3>3, SMTT(30)
    <2> QED
      BY <1>3, <2>1, <2>2, <2>3, Zenon DEF HasUpTo
  <1>13. ClientComplete'
    <2>1. pos' <= LastOffset'
      BY <1>0, <1>8, Zenon DEF ClientComplete
    <2>2. ASSUME client' = "online"
          PROVE  HasUpTo(pos)' /\ \A i \in 1..ptr' : log'[i].msg \in got'
      <3>1. PICK b \in Nat : b = pos
        BY <1>0, Zenon
      <3>2. HasUpTo(b) /\ \A i \in 1..ptr : log[i].msg \in got
        BY <1>0, <2>2, <3>1, Zenon DEF ClientComplete
      <3>3. HasUpTo(b)'
        BY <1>12, <3>2, Zenon
      <3>4. HasUpTo(pos)'
        BY <1>0, <3>1, <3>3, Zenon DEF HasUpTo
      <3>5. \A i \in 1..ptr : i \in 1..n
        BY <1>0, SMTT(30)
      <3> QED
        BY <1>0, <1>3, <3>2, <3>4, <3>5, Zenon
    <2>3. ASSUME client' \in {"offline", "catching", "reading"}
          PROVE  HasUpTo(asked)'
      <3>1. PICK b \in Nat : b = asked
        BY <1>0, Zenon
      <3>2. HasUpTo(b)
        BY <1>0, <2>3, <3>1, Zenon DEF ClientComplete
      <3>3. HasUpTo(b)'
        BY <1>12, <3>2, Zenon
      <3> QED
        BY <1>0, <3>1, <3>3, Zenon DEF HasUpTo
    <2> QED
      BY <2>1, <2>2, <2>3, Zenon DEF ClientComplete
  <1> QED
    BY <1>10, <1>11, <1>13, Zenon

\* The client's steps leave the memstream, the log and the publishers alone.
LEMMA ClientLeaves ==
    ASSUME UNCHANGED streamVars, Ordered, OffsetsTrue
    PROVE  /\ Ordered' /\ OffsetsTrue' /\ LastOffset' = LastOffset
           /\ mem' = mem /\ log' = log /\ pub' = pub
  <1>1. mem' = mem /\ log' = log /\ pub' = pub
    BY Zenon DEF streamVars
  <1>2. LastOffset' = LastOffset
    BY <1>1, Zenon DEF LastOffset
  <1> QED
    BY <1>1, <1>2, Zenon DEF Ordered, OffsetsTrue, Kept

\* Receive: a message of the log that the client has passed has an offset that
\* is at most its position; one that is still to be broadcast with such an
\* offset would not be in order.
LEMMA ReceiveComplete ==
    ASSUME Inv, Inv', Ordered, OffsetsTrue, ClientComplete, Receive
    PROVE  Ordered' /\ OffsetsTrue' /\ ClientComplete'
  <1> DEFINE n == Len(log)
  <1>0. /\ Ordered' /\ OffsetsTrue' /\ LastOffset' = LastOffset
        /\ mem' = mem /\ log' = log /\ pub' = pub
    BY ClientLeaves, Zenon DEF Receive
  <1>1. /\ client' = client /\ asked' = asked /\ ptr' = ptr + 1 /\ ptr < n
        /\ got' = got \cup {log[ptr + 1].msg} /\ pos' = log[ptr + 1].offset
        /\ log \in Seq(LogRecord) /\ n \in Nat /\ ptr \in 0..n /\ asked \in Nat
    BY SMTT(30) DEF Receive, Inv, ClientOK
  <1>2. ptr + 1 \in 1..n /\ n > 0 /\ n \in 1..n /\ \A i \in 1..(ptr + 1) : i \in 1..n
    BY <1>1, SMTT(30)
  <1>3. \A i \in 1..n : log[i].offset \in Nat
    <2>1. \A i \in 1..n : log[i] \in LogRecord
      BY <1>1, SMTT(30)
    <2> QED
      BY <2>1, Zenon DEF LogRecord
  <1>4. pos' <= LastOffset'
    BY <1>0, <1>1, <1>2, Zenon DEF OffsetsTrue, Kept
  <1>5. ASSUME client' = "online"
        PROVE  HasUpTo(pos)' /\ \A i \in 1..ptr' : log'[i].msg \in got'
    <2>1. \A i \in 1..ptr : log[i].msg \in got
      BY <1>1, <1>5, Zenon DEF ClientComplete
    <2>2. \A i \in 1..(ptr + 1) : log[i].msg \in got'
      <3>1. \A i \in 1..(ptr + 1) : i \in 1..ptr \/ i = ptr + 1
        BY <1>1, SMTT(30)
      <3> QED
        BY <1>1, <2>1, <3>1, Zenon
    <2>3. ASSUME NEW i \in 1..n, log[i].offset <= pos'
          PROVE  log[i].msg \in got'
      <3>1. CASE i \in 1..(ptr + 1)
        BY <2>2, <3>1, Zenon
      <3>2. CASE i > ptr + 1
        <4>1. log[ptr + 1].offset < log[i].offset
          BY <1>2, <3>2, Zenon DEF Ordered
        <4>2. \A a, c \in Nat : a < c => ~(c <= a)
          BY SMTT(30)
        <4> QED
          BY <1>1, <1>2, <1>3, <2>3, <4>1, <4>2, Zenon
      <3> QED
        BY <1>1, <3>1, <3>2, SMTT(30)
    <2>4. pos' <= log[n].offset
      <3>1. ptr + 1 = n \/ ptr + 1 < n
        BY <1>1, SMTT(30)
      <3>2. ptr + 1 < n => log[ptr + 1].offset < log[n].offset
        BY <1>2, Zenon DEF Ordered
      <3>3. \A a, c \in Nat : (a < c => a <= c) /\ a <= a
        BY SMTT(30)
      <3> QED
        BY <1>1, <1>2, <1>3, <3>1, <3>2, <3>3, ZenonT(60)
    <2>5. ASSUME NEW p \in Publishers, pub[p].pc = "send", pub[p].offset <= pos'
          PROVE  n > 0 /\ pub[p].offset <= log[n].offset
      <3>1. pub[p].offset \in Nat /\ pos' \in Nat
        BY <1>1, <1>2, <1>3, Zenon DEF Inv, PubOK
      <3>2. \A a, c, d \in Nat : (a <= c /\ c <= d) => a <= d
        BY SMTT(30)
      <3> QED
        BY <1>2, <1>3, <2>4, <2>5, <3>1, <3>2, Zenon
    <2>6. HasUpTo(pos)'
      BY <1>0, <1>4, <2>3, <2>5, Zenon DEF HasUpTo
    <2> QED
      BY <1>0, <1>1, <2>2, <2>6, Zenon
  <1>6. ASSUME client' \in {"offline", "catching", "reading"}
        PROVE  HasUpTo(asked)'
    <2>1. HasUpTo(asked)
      BY <1>1, <1>6, Zenon DEF ClientComplete
    <2> QED
      BY <1>0, <1>1, <2>1, Zenon DEF HasUpTo
  <1> QED
    BY <1>0, <1>4, <1>5, <1>6, Zenon DEF ClientComplete

\* Disconnect, Resubscribe and HistoryGet: what the client has up to its
\* position is what it will have when it asks for the rest.
LEMMA ReconnectComplete ==
    ASSUME Ordered, OffsetsTrue, ClientComplete, Disconnect \/ Resubscribe \/ HistoryGet
    PROVE  Ordered' /\ OffsetsTrue' /\ ClientComplete'
  <1>0. /\ Ordered' /\ OffsetsTrue' /\ LastOffset' = LastOffset
        /\ mem' = mem /\ log' = log /\ pub' = pub
    BY ClientLeaves, Zenon DEF Disconnect, Resubscribe, HistoryGet
  <1>1. got' = got /\ pos' = pos
    BY Zenon DEF Disconnect, Resubscribe, HistoryGet
  <1>2. pos' <= LastOffset'
    BY <1>0, <1>1, Zenon DEF ClientComplete
  <1>3. client' # "online"
    BY Zenon DEF Disconnect, Resubscribe, HistoryGet
  <1>4. HasUpTo(asked)'
    <2>1. CASE Disconnect
      <3>1. HasUpTo(pos) /\ asked' = pos
        BY <2>1, Zenon DEF Disconnect, ClientComplete
      <3> QED
        BY <1>0, <1>1, <3>1, Zenon DEF HasUpTo
    <2>2. CASE Resubscribe \/ HistoryGet
      <3>1. HasUpTo(asked) /\ asked' = asked
        BY <2>2, Zenon DEF Resubscribe, HistoryGet, ClientComplete
      <3> QED
        BY <1>0, <1>1, <3>1, Zenon DEF HasUpTo
    <2> QED
      BY <2>1, <2>2, Zenon
  <1> QED
    BY <1>0, <1>2, <1>3, <1>4, Zenon DEF ClientComplete

\* filterByOffset, when it does not refuse: every offset after the one asked
\* for is in the history.
LEMMA InHistory ==
    ASSUME NEW ms, GoodStream(ms), NEW from \in Nat, ~Refuses(ms, from),
           NEW o \in Nat, from < o, o <= ms.offset
    PROVE  \E j \in 1..Len(filterByOffset(ms, from)) : \E i \in 1..Len(ms.data) :
               filterByOffset(ms, from)[j] = ms.data[i] /\ ms.data[i].offset = o
  <1> DEFINE history == filterByOffset(ms, from)
             n == Len(ms.data)
  <1>1. ms.low \in Nat /\ ms.offset \in Nat /\ n \in Nat /\ ms.data \in Seq(Entry)
    BY SMTT(30) DEF GoodStream, Memstream
  <1>2. ms.low <= from /\ ms.low > 0 /\ (from - ms.low) + 1 <= n
    BY <1>1, SMTT(30) DEF Refuses
  <1>3. ms.data # <<>>
    BY <1>1, <1>2, SMTT(30)
  <1>4. ms.low + n = ms.offset + 1 /\ \A i \in 1..n : ms.data[i].offset = ms.low + i - 1
    BY <1>3, Zenon DEF GoodStream, Contiguous
  <1> HIDE DEF n
  <1>5. PICK i \in 1..n : i = o - ms.low + 1
    BY <1>1, <1>2, <1>4, SMTT(30)
  <1>6. ms.data[i].offset = ms.low + i - 1
    BY <1>4, Zenon
  <1>7. ms.data[i].offset = o
    BY <1>1, <1>5, <1>6, SMTT(30)
  <1>8. ms.data[i] \in MessagesAfter(ms, from)
    BY <1>7, Zenon DEF MessagesAfter, n
  <1>9. {history[j] : j \in 1..Len(history)} = MessagesAfter(ms, from)
    BY FilterExact, Zenon
  <1>10. PICK j \in 1..Len(history) : history[j] = ms.data[i]
    BY <1>8, <1>9, Zenon
  <1> QED
    BY <1>7, <1>10, Zenon DEF n

\* HistoryFilter: what the client misses is after the offset it asks for, and
\* the history has all of that.
LEMMA FilterComplete ==
    ASSUME Inv, NeverDeleted, Ordered, OffsetsTrue, ClientComplete, HistoryFilter
    PROVE  Ordered' /\ OffsetsTrue' /\ ClientComplete'
  <1>0. /\ Ordered' /\ OffsetsTrue' /\ LastOffset' = LastOffset
        /\ mem' = mem /\ log' = log /\ pub' = pub /\ ptr' = ptr
    BY ClientLeaves, Zenon DEF HistoryFilter
  <1>1. CASE Refuses(mem[held], asked)
    <2>1. client' = "rejected" /\ pos' = pos
      BY <1>1, Zenon DEF HistoryFilter
    <2> QED
      BY <1>0, <2>1, Zenon DEF ClientComplete
  <1>2. CASE ~Refuses(mem[held], asked)
    <2>1. /\ AllGood(mem) /\ Len(mem) \in Nat /\ Len(mem) <= 1
          /\ held \in 0..Len(mem) /\ held > 0
      BY SMTT(30) DEF Inv, HeldOK, AllGood, NeverDeleted, HistoryFilter
    <2>2. held = 1 /\ Len(mem) = 1
      <3>1. \A n \in Nat : n <= 1 => \A k \in 0..n : k > 0 => (k = 1 /\ n = 1)
        BY SMTT(30)
      <3> QED
        BY <2>1, <3>1, Zenon
    <2>3. mem # <<>> /\ GoodStream(mem[1])
      <3>1. mem = <<>> => Len(mem) = 0
        BY SMTT(30)
      <3>2. 1 \in 1..Len(mem)
        BY <2>2, SMTT(30)
      <3> QED
        BY <2>1, <2>2, <3>1, <3>2, SMTT(30) DEF AllGood
    <2>4. PICK ms, history : ms = mem[1] /\ history = filterByOffset(ms, asked)
      BY Zenon
    <2>5. /\ GoodStream(ms) /\ ~Refuses(ms, asked) /\ LastOffset = ms.offset
          /\ client' = "online" /\ got' = got \cup {history[i].msg : i \in 1..Len(history)}
          /\ pos' = IF history # <<>> /\ history[Len(history)].offset > pos
                    THEN history[Len(history)].offset ELSE pos
      BY <1>2, <2>2, <2>3, <2>4, Zenon DEF HistoryFilter, LastOffset
    <2>6. asked \in Nat /\ HasUpTo(asked) /\ pos <= LastOffset /\ log \in Seq(LogRecord) /\ PubOK
      BY Zenon DEF HistoryFilter, ClientComplete, Inv, ClientOK
    <2>7. ASSUME NEW o \in Nat, NEW m, Kept(o, m), asked < o
          PROVE  m \in got'
      <3>1. o <= ms.offset
        BY <2>5, <2>7, Zenon DEF Kept
      <3>2. PICK j \in 1..Len(history), i \in 1..Len(ms.data) :
                history[j] = ms.data[i] /\ ms.data[i].offset = o
        BY <2>4, <2>5, <2>6, <2>7, <3>1, InHistory, SMTT(30)
      <3>3. ms.data[i].msg = m
        BY <2>3, <2>4, <2>7, <3>2, Zenon DEF Kept
      <3> QED
        BY <2>5, <3>2, <3>3, Zenon
    <2>8. \A a, c \in Nat : a <= c \/ c < a
      BY SMTT(30)
    <2>9. ASSUME NEW i \in 1..Len(log)
          PROVE  log[i].msg \in got'
      <3>1. log[i].offset \in Nat /\ Kept(log[i].offset, log[i].msg)
        <4>1. log[i] \in LogRecord
          BY <2>6, SMTT(30)
        <4> QED
          BY <4>1, Zenon DEF LogRecord, OffsetsTrue
      <3>2. log[i].offset <= asked => log[i].msg \in got
        BY <2>6, Zenon DEF HasUpTo
      <3> QED
        BY <2>5, <2>6, <2>7, <2>8, <3>1, <3>2, Zenon
    <2>10. ASSUME NEW p \in Publishers, pub[p].pc = "send"
           PROVE  \/ pub[p].msg \in got'
                  \/ (Len(log) > 0 /\ pub[p].offset <= log[Len(log)].offset)
      <3>1. pub[p].offset \in Nat /\ Kept(pub[p].offset, pub[p].msg)
        BY <2>6, <2>10, Zenon DEF PubOK, OffsetsTrue
      <3>2. pub[p].offset <= asked => (\/ pub[p].msg \in got
                                       \/ (Len(log) > 0 /\ pub[p].offset <= log[Len(log)].offset))
        BY <2>6, <2>10, Zenon DEF HasUpTo
      <3> QED
        BY <2>5, <2>6, <2>7, <2>8, <3>1, <3>2, Zenon
    <2>11. pos' <= LastOffset'
      <3>1. CASE history # <<>>
        <4>1. ms.data \in Seq(Entry) /\ history \in Seq(Entry)
          <5>1. /\ ms.data \in Seq(Entry) /\ Len(ms.data) \in Nat
                /\ ms.low \in Nat /\ ms.low <= asked
            BY <2>5, <2>6, SMTT(30) DEF GoodStream, Memstream, Refuses
          <5>2. PICK a \in Nat : a = (asked - ms.low) + 2 /\ a >= 1
            BY <2>6, <5>1, SMTT(30)
          <5>3. history = SubSeq(ms.data, a, Len(ms.data))
            BY <2>4, <5>2, Zenon DEF filterByOffset
          <5> QED
            BY <5>1, <5>2, <5>3, SMTT(30)
        <4>2. Len(history) \in 1..Len(history)
          BY <3>1, <4>1, SMTT(30)
        <4>3. {history[j] : j \in 1..Len(history)} = MessagesAfter(ms, asked)
          BY <2>4, <2>5, <2>6, FilterExact, Zenon
        <4>4. PICK i \in 1..Len(ms.data) : history[Len(history)] = ms.data[i]
          BY <4>2, <4>3, Zenon DEF MessagesAfter
        <4>5. /\ ms.low \in Nat /\ ms.offset \in Nat /\ Len(ms.data) \in Nat
              /\ ms.low + Len(ms.data) = ms.offset + 1 /\ ms.data[i].offset = ms.low + i - 1
          <5>1. ms.data # <<>>
            BY <4>1, <4>4, SMTT(30)
          <5> QED
            BY <2>5, <4>1, <5>1, SMTT(30) DEF GoodStream, Contiguous, Memstream
        <4>6. ms.data[i].offset <= ms.offset
          BY <4>5, SMTT(30)
        <4> QED
          BY <1>0, <2>5, <2>6, <4>4, <4>6, Zenon
      <3>2. CASE history = <<>>
        BY <1>0, <2>5, <2>6, <3>2, Zenon
      <3> QED
        BY <3>1, <3>2, Zenon
    <2>12. HasUpTo(pos)'
      BY <1>0, <2>9, <2>10, <2>11, Zenon DEF HasUpTo
    <2>13. \A i \in 1..ptr' : i \in 1..Len(log)
      BY <1>0, SMTT(30) DEF Inv, ClientOK
    <2> QED
      BY <1>0, <2>5, <2>9, <2>11, <2>12, <2>13, Zenon DEF ClientComplete
  <1> QED
    BY <1>1, <1>2, Zenon

\* At the start the client has the one message there may be.
LEMMA CaughtUpInit == Init => CaughtUp
  <1> SUFFICES ASSUME Init
               PROVE  Ordered /\ OffsetsTrue /\ ClientComplete
    BY Zenon DEF CaughtUp
  <1>0. client = "online" /\ \A p \in Publishers : pub[p].pc = "idle"
    BY Zenon DEF Init
  <1>1. CASE Warm
    <2>1. PICK new : new = add(NewStream, 1, 1) /\ mem = <<new>>
      BY <1>1, Zenon DEF Init
    <2>2. mem # <<>> /\ mem[1] = new /\ GoodStream(new) /\ new.offset = 1
      <3>1. NewStream.offset = 0
        BY Zenon DEF NewStream
      <3>2. GoodStream(new) /\ new.offset = NewStream.offset + 1
        BY <2>1, NewStreamGood, AddGood, Zenon
      <3> QED
        BY <2>1, <3>1, <3>2, SMTT(30)
    <2>3. LastOffset = 1
      BY <2>2, Zenon DEF LastOffset
    <2>4. log = <<[msg |-> 1, offset |-> 1]>> /\ pos = 1 /\ ptr = 1 /\ got = {1}
      BY <1>1, Zenon DEF Init
    <2>5. Len(log) = 1 /\ log[1].msg = 1 /\ log[1].offset = 1
      BY <2>4, Zenon
    <2>6. \A j \in 1..Len(new.data) : new.data[j].msg = 1
      <3>1. Len(NewStream.data) = 0
        BY Zenon DEF NewStream
      <3>2. \A j \in 1..Len(new.data) :
                \/ new.data[j] = [offset |-> NewStream.offset + 1, ts |-> 1, msg |-> 1]
                \/ \E i \in 1..Len(NewStream.data) : new.data[j] = NewStream.data[i]
        BY <2>1, NewStreamGood, AddEntries, SMTT(30)
      <3> QED
        BY <3>1, <3>2, SMTT(30)
    <2>7. \A i \in 1..Len(log) : i = 1
      BY <2>5, SMTT(30)
    <2>8. Ordered
      BY <2>7, SMTT(30) DEF Ordered
    <2>9. OffsetsTrue
      BY <1>0, <2>2, <2>3, <2>5, <2>6, <2>7, SMTT(30) DEF OffsetsTrue, Kept
    <2>10. ClientComplete
      BY <1>0, <2>3, <2>4, <2>5, <2>7, SMTT(30) DEF ClientComplete, HasUpTo
    <2> QED
      BY <2>8, <2>9, <2>10, Zenon
  <1>2. CASE ~Warm
    <2>1. log = <<>> /\ mem = <<>> /\ pos = 0 /\ ptr = 0
      BY <1>2, Zenon DEF Init
    <2>2. LastOffset = 0 /\ Len(log) = 0
      BY <2>1, Zenon DEF LastOffset
    <2> QED
      BY <1>0, <2>1, <2>2, SMTT(30) DEF Ordered, OffsetsTrue, ClientComplete, HasUpTo
  <1> QED
    BY <1>1, <1>2, Zenon

\* Every step keeps the client caught up.
LEMMA CaughtUpStep == Inv /\ Inv' /\ CaughtUp /\ [Next]_vars => CaughtUp'
  <1>1. ASSUME Inv, Inv', CaughtUp, Next, NeverDeleted', InOrder'
        PROVE  Ordered' /\ OffsetsTrue' /\ ClientComplete'
    <2>1. NeverDeleted /\ InOrder
      BY <1>1, OnceGone, Zenon
    <2>2. Ordered /\ OffsetsTrue /\ ClientComplete
      BY <1>1, <2>1, Zenon DEF CaughtUp
    <2>3. /\ LastOffset \in Nat /\ LastOffset' \in Nat /\ LastOffset <= LastOffset'
          /\ \A o \in Nat : \A m : Kept(o, m) => Kept(o, m)'
      BY <1>1, <2>1, MemStep, Zenon
    <2>4. PubOK
      BY <1>1, Zenon DEF Inv
    <2>5. ASSUME NEW p \in Publishers, Lookup(p)
          PROVE  Ordered' /\ OffsetsTrue' /\ ClientComplete'
      <3>1. \A q \in Publishers : pub'[q].pc = "send" => pub'[q] = pub[q]
        BY <2>4, <2>5, Zenon DEF Lookup, PubOK
      <3>2. UNCHANGED <<log, clientVars>>
        BY <2>5, Zenon DEF Lookup
      <3> QED
        BY <1>1, <2>2, <2>3, <3>1, <3>2, QuietComplete, Zenon
    <2>6. ASSUME NEW p \in Publishers, Add(p)
          PROVE  Ordered' /\ OffsetsTrue' /\ ClientComplete'
      <3>1. pub'[p].offset > LastOffset /\ Kept(pub[p].offset, pub[p].msg)'
        BY <1>1, <2>1, <2>6, AddComplete, Zenon
      <3>2. \A q \in Publishers : q # p => pub'[q] = pub[q]
        BY <2>4, <2>6, Zenon DEF Add, PubOK
      <3>3. UNCHANGED <<log, clientVars>>
        BY <2>6, Zenon DEF Add
      <3>4. \A q \in Publishers : pub'[q].pc = "send" =>
               \/ pub'[q] = pub[q]
               \/ (pub'[q].offset > LastOffset /\ Kept(pub[q].offset, pub[q].msg)')
        BY <3>1, <3>2, Zenon
      <3> QED
        BY <1>1, <2>2, <2>3, <3>3, <3>4, QuietComplete, Zenon
    <2>7. ASSUME NEW p \in Publishers, Broadcast(p)
          PROVE  Ordered' /\ OffsetsTrue' /\ ClientComplete'
      BY <1>1, <2>2, <2>7, BroadcastComplete, Zenon
    <2>8. CASE Tick \/ ExpireEntries \/ ExpireCheck \/ ExpireDelete
      <3>1. UNCHANGED <<log, clientVars>> /\ pub' = pub
        BY <2>8, Zenon DEF Tick, ExpireEntries, ExpireCheck, ExpireDelete
      <3> QED
        BY <1>1, <2>2, <2>3, <3>1, QuietComplete, Zenon
    <2>9. CASE Receive
      BY <1>1, <2>2, <2>9, ReceiveComplete, Zenon
    <2>10. CASE Disconnect \/ Resubscribe \/ HistoryGet
      BY <2>2, <2>10, ReconnectComplete, Zenon
    <2>11. CASE HistoryFilter
      BY <1>1, <2>1, <2>2, <2>11, FilterComplete, Zenon
    <2> QED
      BY <1>1, <2>5, <2>6, <2>7, <2>8, <2>9, <2>10, <2>11, ZenonT(60) DEF Next
  <1>2. ASSUME CaughtUp, UNCHANGED vars
        PROVE  CaughtUp'
    <2>1. /\ UNCHANGED streamVars /\ client' = client /\ asked' = asked
          /\ pos' = pos /\ ptr' = ptr /\ got' = got
      BY <1>2, Zenon DEF vars, clientVars
    <2>2. mem' = mem /\ log' = log /\ pub' = pub /\ cur' = cur
      BY <2>1, Zenon DEF streamVars
    <2>3. (NeverDeleted /\ InOrder)' => (NeverDeleted /\ InOrder)
      BY <2>2, Zenon DEF NeverDeleted, InOrder
    <2>4. (Ordered /\ OffsetsTrue) => (Ordered' /\ OffsetsTrue' /\ LastOffset' = LastOffset)
      BY <2>1, ClientLeaves, Zenon
    <2>5. (ClientComplete /\ LastOffset' = LastOffset) => ClientComplete'
      BY <2>1, <2>2, Zenon DEF ClientComplete, HasUpTo
    <2> QED
      BY <1>2, <2>3, <2>4, <2>5, Zenon DEF CaughtUp
  <1> QED
    BY <1>1, <1>2, Zenon DEF CaughtUp

\* A client that reconnects and whose request for the history is not refused
\* has missed nothing, as long as the memstream was never deleted and the
\* broadcasts come in the order of their offsets.
THEOREM NothingIsMissed == Spec => []NothingMissed
  <1>1. Init => Inv
    BY InitInv, Zenon
  <1>2. Inv /\ [Next]_vars => Inv'
    BY NextInv, Zenon
  <1>3. CaughtUp => NothingMissed
    BY Zenon DEF CaughtUp, ClientComplete, NothingMissed
  <1> QED
    BY <1>1, <1>2, <1>3, CaughtUpInit, CaughtUpStep, PTL DEF Spec

-----------------------------------------------------------------------------
(* The history over NATS JetStream.                                        *)

\* what every variable holds
BrokerTypes ==
  /\ firstSeq \in Nat /\ firstSeq >= 1 /\ lastSeq \in Nat /\ aged \in Nat /\ aged < firstSeq
  /\ cursor \in [Consumers -> Nat] /\ cached \in Consumers \cup {0}
  /\ offset \in Nat /\ offset <= lastSeq /\ mine \in Nat /\ mine <= lastSeq

\* JetStream has dropped no message but the aged ones and those over the limit.
Dropped(seq) == seq = 0 \/ seq <= aged \/ seq <= lastSeq - HistoryLimit

\* A consumer's cursor never runs ahead of the memory stream, except over what
\* JetStream has dropped.
CursorsOK ==
  /\ Dropped(firstSeq - 1)
  /\ \A c \in Consumers : cursor[c] # 0 => (cursor[c] <= offset + 1 \/ Dropped(cursor[c] - 1))
  /\ cached # 0 => cursor[cached] # 0
  /\ (tracked /\ ~cutOff) => cached # 0

\* The entries are in order, the last one is the memory stream's offset.
EntriesOK ==
  /\ data \in Seq(Nat) /\ Len(data) <= HistoryLimit
  /\ \A i, j \in 1 .. Len(data) : i < j => data[i] < data[j]
  /\ \A i \in 1 .. Len(data) : data[i] <= offset

\* From entry i on nothing is missing.
NoneMissing(i) == offset - data[i] = Len(data) - i

\* Once the messages to come have arrived, entry i is over the limit.
OverLimit(i) == (Len(data) - i) + (lastSeq - offset) >= HistoryLimit

\* what an entry that is not too old lacks before it, if anything, is beyond the limit
GapsClose == \A i \in 1 .. Len(data) : data[i] > aged => (NoneMissing(i) \/ OverLimit(i))

\* A history that was synchronised has no gap in what has not aged.
SyncedOK ==
  (cached # 0 /\ ~active /\ ~rushed) =>
    \A i \in 1 .. Len(data) : data[i] > aged => (NoneMissing(i) /\ offset >= mine)

\* the inductive invariant of the broker
BrokerInv == BrokerTypes /\ CursorsOK /\ EntriesOK /\ GapsClose /\ SyncedOK

\* The larger of two numbers is at least each of them.
LEMMA LargerOfTwo ==
  ASSUME NEW a \in Int, NEW b \in Int
  PROVE  /\ Max({a, b}) \in {a, b}
         /\ Max({a, b}) >= a /\ Max({a, b}) >= b
<1>1. \E x \in {a, b} : \A y \in {a, b} : x >= y
  <2>1. CASE a >= b
    BY <2>1, SMTT(30)
  <2>2. CASE b >= a
    BY <2>2, SMTT(30)
  <2> QED  BY <2>1, <2>2, SMTT(30)
<1> QED  BY <1>1, Zenon DEF Max

\* JetStream appends a message: what was dropped stays dropped.
LEMMA StoredStep ==
  ASSUME BrokerTypes, Dropped(firstSeq - 1), Stored, aged' = aged
  PROVE  /\ lastSeq' = lastSeq + 1 /\ firstSeq' \in Nat /\ firstSeq' >= firstSeq
         /\ Dropped(firstSeq - 1)'
         /\ \A seq \in Int : Dropped(seq) => Dropped(seq)'
<1> DEFINE b == lastSeq + 2 - HistoryLimit
<1>0. /\ firstSeq \in Int /\ b \in Int /\ firstSeq \in Nat /\ firstSeq >= 1 /\ lastSeq \in Nat
      /\ aged \in Nat /\ HistoryLimit \in Nat
  BY NatsBrokerAssumption, SMTT(30) DEF BrokerTypes
<1>1. lastSeq' = lastSeq + 1 /\ firstSeq' = Max({firstSeq, b})
  BY Zenon DEF Stored
<1> HIDE DEF b
<1>2. firstSeq' \in {firstSeq, b} /\ firstSeq' >= firstSeq
  BY <1>0, <1>1, LargerOfTwo, Zenon
<1> USE DEF b
<1>3. firstSeq' \in Nat
  BY <1>0, <1>2, SMTT(30)
<1>4. \A seq \in Int : Dropped(seq) => (seq = 0 \/ seq <= aged' \/ seq <= lastSeq' - HistoryLimit)
  BY <1>0, <1>1, SMTT(30) DEF Dropped
<1>5. \/ firstSeq' - 1 = 0 \/ firstSeq' - 1 <= aged' \/ firstSeq' - 1 <= lastSeq' - HistoryLimit
  <2>1. CASE firstSeq' = firstSeq
    BY <1>0, <1>4, <2>1, SMTT(30)
  <2>2. CASE firstSeq' = b
    BY <1>0, <1>1, <2>2, SMTT(30)
  <2> QED  BY <1>2, <2>1, <2>2, Zenon
<1> QED  BY <1>1, <1>2, <1>3, <1>4, <1>5, Zenon DEF Dropped

\* The shape of the memory stream after an insert: the oldest of h = 1 or no
\* entry is gone, the new one is the last.
LEMMA InsertShape ==
  ASSUME BrokerTypes, EntriesOK, NEW seq \in Nat, seq > offset, Insert(seq)
  PROVE  /\ offset' = seq /\ data' \in Seq(Nat) /\ Len(data') <= HistoryLimit
         /\ \E h \in {0, 1} :
              /\ Len(data') = Len(data) + 1 - h
              /\ Len(data') >= 1 /\ data'[Len(data')] = seq
              /\ \A i \in 1 .. Len(data') - 1 : i + h \in 1 .. Len(data) /\ data'[i] = data[i + h]
<1>0. data \in Seq(Nat) /\ Len(data) \in Nat /\ Len(data) <= HistoryLimit /\ HistoryLimit \in Nat \ {0}
  BY NatsBrokerAssumption, SMTT(30) DEF EntriesOK
<1>1. /\ offset' = seq
      /\ data' = IF Len(data) = HistoryLimit THEN Append(Tail(data), seq) ELSE Append(data, seq)
  BY SMTT(30) DEF Insert, BrokerTypes
<1>2. CASE Len(data) = HistoryLimit
  <2>1. data' = Append(Tail(data), seq) /\ data # <<>>
    BY <1>0, <1>1, <1>2, Zenon
  <2>2. /\ Tail(data) \in Seq(Nat) /\ Len(Tail(data)) = Len(data) - 1
        /\ \A i \in 1 .. Len(Tail(data)) : Tail(data)[i] = data[i + 1]
    BY <1>0, <2>1, HeadTailProperties, Zenon
  <2>3. /\ data' \in Seq(Nat) /\ Len(data') = Len(data) /\ data'[Len(data')] = seq
        /\ \A i \in 1 .. Len(data') - 1 : data'[i] = data[i + 1]
    BY <1>0, <2>1, <2>2, AppendProperties, SMTT(30)
  <2>4. \A i \in 1 .. Len(data') - 1 : i + 1 \in 1 .. Len(data) /\ data'[i] = data[i + 1]
    BY <1>0, <2>3, SMTT(30)
  <2>5. Len(data') = Len(data) + 1 - 1 /\ Len(data') >= 1 /\ Len(data') <= HistoryLimit
    BY <1>0, <1>2, <2>3, SMTT(30)
  <2> QED  BY <1>1, <2>3, <2>4, <2>5, Zenon
<1>3. CASE Len(data) # HistoryLimit
  <2>1. data' = Append(data, seq)
    BY <1>1, <1>3, Zenon
  <2>2. /\ data' \in Seq(Nat) /\ Len(data') = Len(data) + 1 /\ data'[Len(data')] = seq
        /\ \A i \in 1 .. Len(data) : data'[i] = data[i]
    BY <1>0, <2>1, AppendProperties, SMTT(30)
  <2>4. \A i \in 1 .. Len(data') - 1 : i + 0 \in 1 .. Len(data) /\ data'[i] = data[i + 0]
    BY <1>0, <2>2, SMTT(30)
  <2>5. Len(data') = Len(data) + 1 - 0 /\ Len(data') >= 1 /\ Len(data') <= HistoryLimit
    BY <1>0, <1>3, <2>2, SMTT(30)
  <2> QED  BY <1>1, <2>2, <2>4, <2>5, ZenonT(60)
<1> QED  BY <1>2, <1>3, Zenon

\* memstream.insert keeps the entries in order, and the gap it leaves, if any,
\* is one of messages JetStream has dropped.
LEMMA InsertStep ==
  ASSUME BrokerTypes, EntriesOK, GapsClose, NEW seq \in Nat, seq <= lastSeq,
         seq <= offset + 1 \/ Dropped(seq - 1), Insert(seq), aged' = aged, lastSeq' = lastSeq
  PROVE  /\ EntriesOK' /\ GapsClose'
         /\ offset' \in Nat /\ offset' <= lastSeq /\ offset' >= offset /\ offset' >= seq
<1>0. /\ offset \in Nat /\ lastSeq \in Nat /\ aged \in Nat /\ HistoryLimit \in Nat \ {0}
      /\ offset <= lastSeq
      /\ data \in Seq(Nat) /\ Len(data) \in Nat
  BY NatsBrokerAssumption, SMTT(30) DEF BrokerTypes, EntriesOK
<1>1. CASE offset >= seq
  <2>1. offset' = offset /\ data' = data
    BY <1>1, Zenon DEF Insert
  <2> QED  BY <1>0, <1>1, <2>1, SMTT(30) DEF EntriesOK, GapsClose, NoneMissing, OverLimit
<1>2. CASE ~(offset >= seq)
  <2>0. seq > offset
    BY <1>0, <1>2, SMTT(30)
  <2>1. /\ offset' = seq /\ data' \in Seq(Nat) /\ Len(data') <= HistoryLimit
        /\ \E h \in {0, 1} :
              /\ Len(data') = Len(data) + 1 - h
              /\ Len(data') >= 1 /\ data'[Len(data')] = seq
              /\ \A i \in 1 .. Len(data') - 1 : i + h \in 1 .. Len(data) /\ data'[i] = data[i + h]
    BY <2>0, InsertShape, Zenon
  <2>2. PICK h \in {0, 1} :
          /\ Len(data') = Len(data) + 1 - h
          /\ Len(data') >= 1 /\ data'[Len(data')] = seq
          /\ \A i \in 1 .. Len(data') - 1 : i + h \in 1 .. Len(data) /\ data'[i] = data[i + h]
    BY <2>1, Zenon
  <2>3. Len(data') \in Nat
    BY <2>1, SMTT(30)
  <2>4. ASSUME NEW i \in 1 .. Len(data'), i # Len(data')
        PROVE  /\ i + h \in 1 .. Len(data) /\ data'[i] = data[i + h]
               /\ data[i + h] <= offset /\ data[i + h] \in Nat
    <3>1. i \in 1 .. Len(data') - 1
      BY <2>3, <2>4, SMTT(30)
    <3>2. i + h \in 1 .. Len(data) /\ data'[i] = data[i + h]
      BY <2>2, <3>1, Zenon
    <3> QED  BY <1>0, <3>2, SMTT(30) DEF EntriesOK
  <2>5. ASSUME NEW i \in 1 .. Len(data')
        PROVE  data'[i] <= offset'
    <3>1. CASE i = Len(data')
      <4>1. data'[i] = seq
        BY <2>2, <3>1, Zenon
      <4> QED  BY <2>1, <4>1, SMTT(30)
    <3>2. CASE i # Len(data')
      <4>1. data'[i] <= offset /\ data'[i] \in Nat
        BY <2>4, <3>2, Zenon
      <4> QED  BY <1>0, <2>0, <2>1, <4>1, SMTT(30)
    <3> QED  BY <3>1, <3>2, Zenon
  <2>6. ASSUME NEW i \in 1 .. Len(data'), NEW j \in 1 .. Len(data'), i < j
        PROVE  data'[i] < data'[j]
    <3>1. i # Len(data')
      BY <2>3, <2>6, SMTT(30)
    <3>2. CASE j = Len(data')
      <4>1. data'[j] = seq
        BY <2>2, <3>2, Zenon
      <4>2. data'[i] <= offset /\ data'[i] \in Nat
        BY <2>4, <3>1, Zenon
      <4> QED  BY <1>0, <2>0, <4>1, <4>2, SMTT(30)
    <3>3. CASE j # Len(data')
      <4>1. i + h \in 1 .. Len(data) /\ j + h \in 1 .. Len(data) /\ i + h < j + h
        BY <2>4, <2>6, <3>1, <3>3, SMTT(30)
      <4>2. data[i + h] < data[j + h]
        BY <4>1, Zenon DEF EntriesOK
      <4> QED  BY <2>4, <3>1, <3>3, <4>2, Zenon
    <3> QED  BY <3>2, <3>3, Zenon
  <2>7. EntriesOK'
    BY <2>1, <2>5, <2>6, Zenon DEF EntriesOK
  <2>8. ASSUME NEW i \in 1 .. Len(data'), data'[i] > aged
        PROVE  \/ offset' - data'[i] = Len(data') - i
               \/ (Len(data') - i) + (lastSeq' - offset') >= HistoryLimit
    <3>1. CASE i = Len(data')
      <4>1. data'[i] = seq /\ offset' = seq
        BY <2>1, <2>2, <3>1, Zenon
      <4> QED  BY <2>3, <3>1, <4>1, SMTT(30)
    <3>2. CASE i # Len(data') /\ seq = offset + 1
      <4>1. /\ i + h \in 1 .. Len(data) /\ data'[i] = data[i + h]
            /\ data[i + h] \in Nat
        BY <2>4, <3>2, Zenon
      <4>2. \/ offset - data[i + h] = Len(data) - (i + h)
            \/ (Len(data) - (i + h)) + (lastSeq - offset) >= HistoryLimit
        BY <2>8, <4>1, Zenon DEF GapsClose, NoneMissing, OverLimit
      <4>3. Len(data') = Len(data) + 1 - h /\ offset' = offset + 1
        BY <2>1, <2>2, <3>2, Zenon
      <4>4. ASSUME NEW o \in Nat, NEW x \in Nat, NEW n \in Nat, NEW l \in Nat, NEW H \in Nat,
                   o - x = n - (i + h) \/ (n - (i + h)) + (l - o) >= H
            PROVE  \/ (o + 1) - x = (n + 1 - h) - i
                   \/ ((n + 1 - h) - i) + (l - (o + 1)) >= H
        <5>1. h \in Nat /\ i \in Nat
          BY <2>3, SMTT(30)
        <5> QED  BY <4>4, <5>1, SMTT(30)
      <4>5. \/ (offset + 1) - data[i + h] = (Len(data) + 1 - h) - i
            \/ ((Len(data) + 1 - h) - i) + (lastSeq - (offset + 1)) >= HistoryLimit
        BY <1>0, <4>1, <4>2, <4>4, ZenonT(60)
      <4> QED  BY <4>1, <4>3, <4>5, Zenon
    <3>3. CASE i # Len(data') /\ seq # offset + 1
      <4>1. data'[i] <= offset /\ data'[i] \in Nat
        BY <2>4, <3>3, Zenon
      <4>2. seq - 1 > offset /\ seq - 1 # 0 /\ Dropped(seq - 1)
        BY <1>0, <2>0, <3>3, SMTT(30)
      <4>3. seq - 1 <= lastSeq - HistoryLimit
        BY <1>0, <2>8, <4>1, <4>2, SMTT(30) DEF Dropped
      <4>4. Len(data') - i >= 1
        BY <2>3, <3>3, SMTT(30)
      <4> QED  BY <1>0, <2>1, <2>3, <4>3, <4>4, SMTT(30)
    <3> QED  BY <3>1, <3>2, <3>3, Zenon
  <2>9. GapsClose'
    BY <2>8, Zenon DEF GapsClose, NoneMissing, OverLimit
  <2> QED  BY <1>0, <2>0, <2>1, <2>7, <2>9, SMTT(30)
<1> QED  BY <1>1, <1>2, Zenon

\* No message is to come: the memory stream has everything that has not aged,
\* and nothing before a gap is left in it.
LEMMA SyncComplete ==
  ASSUME BrokerInv, cached # 0, \A c \in Live : ~Pending(c), NEW i \in 1 .. Len(data),
         data[i] > aged
  PROVE  NoneMissing(i) /\ offset >= mine
<1>0. /\ offset \in Nat /\ lastSeq \in Nat /\ aged \in Nat /\ HistoryLimit \in Nat \ {0}
      /\ offset <= lastSeq /\ mine \in Nat /\ mine <= lastSeq /\ firstSeq \in Nat
      /\ data \in Seq(Nat) /\ Len(data) \in Nat /\ Len(data) <= HistoryLimit
      /\ data[i] \in Nat /\ data[i] <= offset
  BY NatsBrokerAssumption, SMTT(30) DEF BrokerInv, BrokerTypes, EntriesOK
<1>1. cached \in Live /\ cursor[cached] \in Nat /\ cached \in Consumers
  BY Zenon DEF BrokerInv, BrokerTypes, CursorsOK, Live
<1>2. cursor[cached] > lastSeq \/ firstSeq > lastSeq
  BY <1>0, <1>1, SMTT(30) DEF Pending, Live
<1>3. \/ lastSeq <= offset \/ lastSeq <= aged \/ lastSeq = 0
  <2>1. CASE cursor[cached] > lastSeq
    <3>1. cursor[cached] <= offset + 1 \/ Dropped(cursor[cached] - 1)
      BY <1>1, Zenon DEF BrokerInv, CursorsOK, Live
    <3> QED  BY <1>0, <1>1, <2>1, <3>1, SMTT(30) DEF Dropped
  <2>2. CASE firstSeq > lastSeq
    <3>1. Dropped(firstSeq - 1)
      BY Zenon DEF BrokerInv, CursorsOK
    <3> QED  BY <1>0, <2>2, <3>1, SMTT(30) DEF Dropped
  <2> QED  BY <1>2, <2>1, <2>2, ZenonT(60)
<1>4. offset = lastSeq
  BY <1>0, <1>3, SMTT(30)
<1>5. ~OverLimit(i)
  BY <1>0, <1>4, SMTT(30) DEF OverLimit
<1> QED  BY <1>0, <1>4, <1>5, Zenon DEF BrokerInv, GapsClose

\* The invariant holds initially.
LEMMA BrokerInit == NInit => BrokerInv
<1> SUFFICES ASSUME NInit PROVE BrokerInv
  BY Zenon
<1>1. BrokerTypes
  BY SMTT(30) DEF NInit, BrokerTypes
<1>2. CursorsOK
  BY SMTT(30) DEF NInit, CursorsOK, Dropped
<1>3. data = <<>> /\ Len(data) = 0 /\ data \in Seq(Nat)
  BY SMTT(30) DEF NInit
<1>4. EntriesOK /\ GapsClose /\ SyncedOK
  BY <1>3, NatsBrokerAssumption, SMTT(30) DEF EntriesOK, GapsClose, SyncedOK
<1> QED  BY <1>1, <1>2, <1>4, Zenon DEF BrokerInv

\* publishOwn and PublishElsewhere
LEMMA PublishStep ==
  ASSUME BrokerInv, publishOwn \/ PublishElsewhere
  PROVE  BrokerInv'
<1>1. /\ Stored /\ UNCHANGED <<aged, cursor, cached, stale, tracked, data, offset, rushed, cutOff>>
  BY Zenon DEF publishOwn, PublishElsewhere
<1>2. /\ lastSeq' = lastSeq + 1 /\ firstSeq' \in Nat /\ firstSeq' >= firstSeq
      /\ Dropped(firstSeq - 1)'
      /\ \A seq \in Int : Dropped(seq) => Dropped(seq)'
  BY <1>1, StoredStep, Zenon DEF BrokerInv, CursorsOK
<1>3. mine' \in Nat /\ mine' <= lastSeq'
  BY <1>2, SMTT(30) DEF publishOwn, PublishElsewhere, BrokerInv, BrokerTypes
<1>4. BrokerTypes'
  BY <1>1, <1>2, <1>3, SMTT(30) DEF BrokerInv, BrokerTypes
<1>5. CursorsOK'
  <2>1. ASSUME NEW c \in Consumers, cursor[c] # 0, ~(cursor[c] <= offset + 1)
        PROVE  \/ cursor[c] - 1 = 0 \/ cursor[c] - 1 <= aged'
               \/ cursor[c] - 1 <= lastSeq' - HistoryLimit
    <3>1. Dropped(cursor[c] - 1) /\ cursor[c] - 1 \in Int
      BY <2>1, SMTT(30) DEF BrokerInv, BrokerTypes, CursorsOK
    <3>2. \A seq \in Int : Dropped(seq) =>
            (seq = 0 \/ seq <= aged' \/ seq <= lastSeq' - HistoryLimit)
      BY <1>2, Zenon DEF Dropped
    <3> QED  BY <3>1, <3>2, Zenon
  <2>2. \A c \in Consumers : cursor'[c] # 0 =>
          (cursor'[c] <= offset' + 1 \/ cursor'[c] - 1 = 0 \/ cursor'[c] - 1 <= aged'
             \/ cursor'[c] - 1 <= lastSeq' - HistoryLimit)
    BY <1>1, <2>1, Zenon
  <2> QED  BY <1>1, <1>2, <2>2, Zenon DEF BrokerInv, CursorsOK, Dropped
<1>6. EntriesOK'
  BY <1>1, Zenon DEF BrokerInv, EntriesOK
<1>7. GapsClose'
  <2>1. \A i \in 1 .. Len(data) : data[i] > aged =>
          (offset - data[i] = Len(data) - i \/ (Len(data) - i) + (lastSeq - offset) >= HistoryLimit)
    BY Zenon DEF BrokerInv, GapsClose, NoneMissing, OverLimit
  <2>2. Len(data) \in Nat /\ lastSeq \in Nat /\ offset \in Nat /\ HistoryLimit \in Nat
    BY NatsBrokerAssumption, SMTT(30) DEF BrokerInv, BrokerTypes, EntriesOK
  <2>3. \A i \in 1 .. Len(data) : data[i] > aged =>
          \/ offset - data[i] = Len(data) - i
          \/ (Len(data) - i) + ((lastSeq + 1) - offset) >= HistoryLimit
    BY <2>1, <2>2, SMTT(30)
  <2> QED  BY <1>1, <1>2, <2>3, Zenon DEF GapsClose, NoneMissing, OverLimit
<1>8. SyncedOK'
  <2>1. CASE publishOwn
    BY <2>1, Zenon DEF publishOwn, SyncedOK
  <2>2. CASE PublishElsewhere
    BY <2>2, Zenon DEF PublishElsewhere, BrokerInv, SyncedOK, NoneMissing
  <2> QED  BY <2>1, <2>2, Zenon
<1> QED  BY <1>4, <1>5, <1>6, <1>7, <1>8, ZenonT(60) DEF BrokerInv

\* Subscribe: the consumer of the cache, or a new one from JetStream's first
\* message.
LEMMA SubscribeStep ==
  ASSUME BrokerInv, Subscribe
  PROVE  BrokerInv'
<1>1. UNCHANGED <<firstSeq, lastSeq, aged, data, offset, mine, rushed>>
  BY Zenon DEF Subscribe
<1>2. EntriesOK' /\ GapsClose'
  BY <1>1, Zenon DEF BrokerInv, EntriesOK, GapsClose, NoneMissing, OverLimit
<1>3. CASE cached # 0 /\ ~stale
  <2>1. UNCHANGED <<cursor, cached, stale, active, cutOff>>
    BY <1>3, Zenon DEF Subscribe, addStreamConsumer
  <2> QED  BY <1>1, <1>2, <1>3, <2>1, Zenon
           DEF BrokerInv, BrokerTypes, CursorsOK, Dropped, SyncedOK, NoneMissing
<1>4. CASE ~(cached # 0 /\ ~stale)
  <2>1. PICK c \in Consumers \ Live :
          /\ cursor' = [cursor EXCEPT ![c] = firstSeq]
          /\ cached' = c /\ active' = TRUE
    BY <1>4, Zenon DEF Subscribe, addStreamConsumer
  <2>2. c # 0
    BY <2>1, NatsBrokerAssumption, SMTT(30) DEF Consumers
  <2>3. BrokerTypes'
    BY <1>1, <2>1, Zenon DEF BrokerInv, BrokerTypes
  <2>4. CursorsOK'
    BY <1>1, <2>1, <2>2, SMTT(30) DEF BrokerInv, BrokerTypes, CursorsOK, Dropped
  <2>5. SyncedOK'
    BY <2>1, Zenon DEF SyncedOK
  <2> QED  BY <1>2, <2>3, <2>4, <2>5, Zenon DEF BrokerInv
<1> QED  BY <1>3, <1>4, Zenon

\* the steps of the cache, of streamSync and of the clock
LEMMA QuietStep ==
  ASSUME BrokerInv, Unsubscribe \/ Outlive \/ expireConsumers \/ endSync
  PROVE  BrokerInv'
<1>1. UNCHANGED <<firstSeq, lastSeq, aged, data, offset, mine>>
  BY Zenon DEF Unsubscribe, Outlive, expireConsumers, endSync
<1>2. EntriesOK' /\ GapsClose'
  BY <1>1, Zenon DEF BrokerInv, EntriesOK, GapsClose, NoneMissing, OverLimit
<1>3. BrokerTypes'
  <2>1. CASE expireConsumers
    BY <1>1, <2>1, Zenon DEF BrokerInv, BrokerTypes, expireConsumers
  <2>2. CASE Unsubscribe \/ Outlive \/ endSync
    <3>1. cursor' = cursor /\ cached' = cached
      BY <2>2, Zenon DEF Unsubscribe, Outlive, endSync
    <3> QED  BY <1>1, <3>1, Zenon DEF BrokerInv, BrokerTypes
  <2> QED  BY <2>1, <2>2, Zenon
<1>4. CursorsOK'
  <2>1. CASE Unsubscribe \/ Outlive \/ endSync
    <3>1. /\ cursor' = cursor /\ cached' = cached /\ cutOff' = cutOff
          /\ (tracked' = tracked \/ tracked' = FALSE)
      BY <2>1, Zenon DEF Unsubscribe, Outlive, endSync
    <3>2. (tracked' /\ ~cutOff') => cached' # 0
      BY <3>1, Zenon DEF BrokerInv, CursorsOK
    <3> QED  BY <1>1, <3>1, <3>2, Zenon DEF BrokerInv, CursorsOK, Dropped
  <2>2. CASE expireConsumers
    <3>1. /\ cached' = 0 /\ cutOff' = tracked /\ tracked' = tracked
          /\ \A c \in Consumers : cursor'[c] # 0 => cursor'[c] = cursor[c]
      BY <2>2, Zenon DEF expireConsumers, BrokerInv, BrokerTypes
    <3>2. ~(tracked' /\ ~cutOff')
      BY <3>1, Zenon
    <3> QED  BY <1>1, <3>1, <3>2, Zenon DEF BrokerInv, CursorsOK, Dropped
  <2> QED  BY <2>1, <2>2, Zenon
<1>5. SyncedOK'
  <2>1. CASE Unsubscribe \/ Outlive
    BY <1>1, <2>1, Zenon DEF BrokerInv, SyncedOK, NoneMissing, Unsubscribe, Outlive
  <2>2. CASE expireConsumers
    BY <2>2, Zenon DEF expireConsumers, SyncedOK
  <2>3. CASE endSync
    <3>1. cached' = cached /\ (~rushed' => \A c \in Live : ~Pending(c))
      BY <2>3, Zenon DEF endSync
    <3>2. ASSUME cached' # 0, ~rushed', NEW i \in 1 .. Len(data'), data'[i] > aged'
          PROVE  NoneMissing(i)' /\ offset' >= mine'
      <4>1. NoneMissing(i) /\ offset >= mine
        BY <1>1, <3>1, <3>2, SyncComplete, ZenonT(60)
      <4> QED  BY <1>1, <4>1, Zenon DEF NoneMissing
    <3> QED  BY <3>2, Zenon DEF SyncedOK
  <2> QED  BY <2>1, <2>2, <2>3, Zenon
<1> QED  BY <1>2, <1>3, <1>4, <1>5, Zenon DEF BrokerInv

\* consumeMessages: a message JetStream delivers
LEMMA ConsumeStep ==
  ASSUME BrokerInv, NEW c \in Consumers, consumeMessage(c)
  PROVE  BrokerInv'
<1>1. /\ cursor[c] \in Nat /\ cursor[c] # 0 /\ cursor[c] <= lastSeq /\ firstSeq <= lastSeq
      /\ firstSeq \in Nat /\ offset \in Nat /\ lastSeq \in Nat
  BY Zenon DEF BrokerInv, BrokerTypes, consumeMessage, Pending
<1>3. PICK seq :
        /\ seq = Max({cursor[c], firstSeq})
        /\ cursor' = [cursor EXCEPT ![c] = seq + 1] /\ Insert(seq) /\ active' = TRUE
        /\ UNCHANGED <<firstSeq, lastSeq, aged, cached, stale, tracked, mine, rushed, cutOff>>
  BY Zenon DEF consumeMessage
<1>2. seq \in {cursor[c], firstSeq} /\ seq >= cursor[c] /\ seq >= firstSeq
  <2>1. cursor[c] \in Int /\ firstSeq \in Int
    BY <1>1, SMTT(30)
  <2> QED  BY <1>3, <2>1, LargerOfTwo, ZenonT(60)
<1>4. seq \in Nat /\ seq <= lastSeq
  BY <1>1, <1>2, Zenon
<1>5. seq <= offset + 1 \/ Dropped(seq - 1)
  BY <1>1, <1>2, Zenon DEF BrokerInv, CursorsOK
<1>6. /\ EntriesOK' /\ GapsClose'
      /\ offset' \in Nat /\ offset' <= lastSeq /\ offset' >= offset /\ offset' >= seq
  BY <1>3, <1>4, <1>5, InsertStep, ZenonT(60) DEF BrokerInv
<1>7. BrokerTypes'
  BY <1>3, <1>4, <1>6, SMTT(30) DEF BrokerInv, BrokerTypes
<1>8. CursorsOK'
  <2>1. \A x \in Int : Dropped(x)' <=> Dropped(x)
    BY <1>3, Zenon DEF Dropped
  <2>2. ASSUME NEW d \in Consumers, cursor'[d] # 0
        PROVE  cursor'[d] <= offset' + 1 \/ Dropped(cursor'[d] - 1)
    <3>1. CASE d = c
      <4>1. cursor'[d] = seq + 1
        BY <1>3, <3>1, Zenon DEF BrokerInv, BrokerTypes
      <4>3. offset' \in Nat /\ offset' >= seq /\ seq \in Nat
        BY <1>4, <1>6, Zenon
      <4>4. \A a, b \in Nat : b >= a => a + 1 <= b + 1
        BY SMTT(30)
      <4>2. seq + 1 <= offset' + 1
        BY <4>3, <4>4, Zenon
      <4> QED  BY <4>1, <4>2, Zenon
    <3>2. CASE d # c
      <4>1. cursor'[d] = cursor[d] /\ cursor[d] \in Nat
        BY <1>3, <3>2, Zenon DEF BrokerInv, BrokerTypes
      <4> QED  BY <1>1, <1>6, <2>2, <4>1, SMTT(30) DEF BrokerInv, CursorsOK
    <3> QED  BY <3>1, <3>2, Zenon
  <2>3. cached' # 0 => cursor'[cached'] # 0
    BY <1>3, <1>4, SMTT(30) DEF BrokerInv, BrokerTypes, CursorsOK
  <2>4. Dropped(firstSeq - 1)'
    BY <1>3, Zenon DEF BrokerInv, CursorsOK, Dropped
  <2>5. \A d \in Consumers : cursor'[d] # 0 =>
          (cursor'[d] <= offset' + 1 \/ Dropped(cursor[d] - 1)')
    BY <1>3, <2>2, Zenon DEF Dropped
  <2> QED  BY <1>3, <2>2, <2>3, <2>4, ZenonT(60) DEF BrokerInv, CursorsOK, Dropped
<1>9. SyncedOK'
  BY <1>3, Zenon DEF SyncedOK
<1> QED  BY <1>6, <1>7, <1>8, <1>9, Zenon DEF BrokerInv

\* JetStream drops its oldest message
LEMMA AgeStep ==
  ASSUME BrokerInv, AgeOut
  PROVE  BrokerInv'
<1>1. /\ aged' = firstSeq /\ firstSeq' = firstSeq + 1 /\ firstSeq <= lastSeq /\ aged < firstSeq
      /\ UNCHANGED <<lastSeq, cursor, cached, stale, tracked, data, offset, active, mine, rushed, cutOff>>
  BY Zenon DEF AgeOut, BrokerInv, BrokerTypes
<1>2. firstSeq \in Nat /\ aged \in Nat /\ lastSeq \in Nat /\ HistoryLimit \in Nat
  BY NatsBrokerAssumption, Zenon DEF BrokerInv, BrokerTypes
<1>3. BrokerTypes'
  BY <1>1, <1>2, SMTT(30) DEF BrokerInv, BrokerTypes
<1>4. CursorsOK'
  BY <1>1, <1>2, SMTT(30) DEF BrokerInv, BrokerTypes, CursorsOK, Dropped
<1>5. EntriesOK'
  BY <1>1, Zenon DEF BrokerInv, EntriesOK
<1>6. \A i \in 1 .. Len(data) : data[i] > aged' => data[i] > aged
  BY <1>1, <1>2, SMTT(30) DEF BrokerInv, EntriesOK
<1>7. GapsClose'
  BY <1>1, <1>6, Zenon DEF BrokerInv, GapsClose, NoneMissing, OverLimit
<1>8. SyncedOK'
  BY <1>1, <1>6, Zenon DEF BrokerInv, SyncedOK, NoneMissing
<1> QED  BY <1>3, <1>4, <1>5, <1>7, <1>8, ZenonT(60) DEF BrokerInv

\* Memory.expire drops a prefix of the entries, or the whole stream
LEMMA ExpireStep ==
  ASSUME BrokerInv, expireMemory
  PROVE  BrokerInv'
<1>0. UNCHANGED <<firstSeq, lastSeq, aged, cursor, cached, stale, tracked, active, mine, rushed, cutOff>>
  BY Zenon DEF expireMemory
<1>1. CASE data' # data \/ data # <<>>
  <2>1. PICK k \in 1 .. Len(data) : data' = SubSeq(data, k + 1, Len(data)) /\ offset' = offset
    BY <1>1, Zenon DEF expireMemory
  <2>2. data \in Seq(Nat) /\ Len(data) \in Nat
    BY SMTT(30) DEF BrokerInv, EntriesOK
  <2>3. /\ data' \in Seq(Nat) /\ Len(data') = Len(data) - k
        /\ \A i \in 1 .. Len(data') : i + k \in 1 .. Len(data) /\ data'[i] = data[i + k]
    BY <2>1, <2>2, SMTT(30)
  <2>4. EntriesOK'
    <3>1. Len(data') <= HistoryLimit
      BY <2>2, <2>3, NatsBrokerAssumption, SMTT(30) DEF BrokerInv, EntriesOK
    <3>2. \A i \in 1 .. Len(data') : data'[i] <= offset'
      BY <2>1, <2>3, Zenon DEF BrokerInv, EntriesOK
    <3>3. ASSUME NEW i \in 1 .. Len(data'), NEW j \in 1 .. Len(data'), i < j
          PROVE  data'[i] < data'[j]
      <4>1. /\ i + k \in 1 .. Len(data) /\ data'[i] = data[i + k]
            /\ j + k \in 1 .. Len(data) /\ data'[j] = data[j + k] /\ i + k < j + k
        BY <2>2, <2>3, <3>3, SMTT(30)
      <4> QED  BY <4>1, Zenon DEF BrokerInv, EntriesOK
    <3> QED  BY <2>3, <3>1, <3>2, <3>3, ZenonT(60) DEF EntriesOK
  <2>5. ASSUME NEW i \in 1 .. Len(data')
        PROVE  /\ i + k \in 1 .. Len(data) /\ data'[i] = data[i + k]
               /\ Len(data') - i = Len(data) - (i + k)
    BY <2>2, <2>3, SMTT(30)
  <2>6. GapsClose'
    BY <1>0, <2>1, <2>5, ZenonT(60) DEF BrokerInv, GapsClose, NoneMissing, OverLimit
  <2>7. SyncedOK'
    BY <1>0, <2>1, <2>5, ZenonT(60) DEF BrokerInv, SyncedOK, NoneMissing
  <2>8. BrokerTypes' /\ CursorsOK'
    BY <1>0, <2>1, Zenon DEF BrokerInv, BrokerTypes, CursorsOK, Dropped
  <2> QED  BY <2>4, <2>6, <2>7, <2>8, ZenonT(60) DEF BrokerInv
<1>2. CASE data' = data /\ data = <<>>
  <2>1. offset <= aged /\ offset' = 0
    BY <1>2, Zenon DEF expireMemory
  <2>2. Len(data) = 0
    BY <1>2, Zenon
  <2>3. EntriesOK' /\ GapsClose' /\ SyncedOK'
    BY <1>2, <2>2, SMTT(30) DEF BrokerInv, EntriesOK, GapsClose, SyncedOK
  <2>4. BrokerTypes'
    BY <1>0, <2>1, SMTT(30) DEF BrokerInv, BrokerTypes
  <2>5. CursorsOK'
    BY <1>0, <2>1, SMTT(30) DEF BrokerInv, BrokerTypes, CursorsOK, Dropped
  <2> QED  BY <2>3, <2>4, <2>5, Zenon DEF BrokerInv
<1> QED  BY <1>1, <1>2, Zenon

\* Every reachable state of NatsBroker satisfies the invariant.
LEMMA BrokerInvariant == NSpec => []BrokerInv
<1>1. BrokerInv /\ [NNext]_nvars => BrokerInv'
  <2> SUFFICES ASSUME BrokerInv, [NNext]_nvars PROVE BrokerInv'
    BY Zenon
  <2>1. CASE UNCHANGED nvars
    BY <2>1, Zenon DEF nvars, BrokerInv, BrokerTypes, CursorsOK, Dropped, EntriesOK, GapsClose,
       SyncedOK,
       NoneMissing, OverLimit
  <2> QED  BY <2>1, PublishStep, SubscribeStep, QuietStep, ConsumeStep, AgeStep, ExpireStep,
              ZenonT(60) DEF NNext
<1> QED  BY <1>1, BrokerInit, PTL DEF NSpec

\* What the NATS broker answers a history request with has no gap: it is every
\* message after the offset asked for, in order, up to at least the last one this
\* node published.  The cases the property leaves out are the code's own.
THEOREM HistoryHasNoGaps == NSpec => []HistoryWithoutGaps
<1>1. BrokerInv => HistoryWithoutGaps
  <2> SUFFICES ASSUME BrokerInv, NEW o \in 1 .. MaxSequence, tracked, ~active, ~rushed, ~cutOff,
                      Found(o), Head(data) > aged
               PROVE  /\ HistoryFrom(o) = [i \in 1 .. offset - o |-> o + i]
                      /\ offset >= mine
    BY Zenon DEF HistoryWithoutGaps
  <2>0. /\ data \in Seq(Nat) /\ Len(data) \in Nat /\ offset \in Nat /\ o \in Nat /\ aged \in Nat
        /\ MaxSequence \in Nat
    BY NatsBrokerAssumption, SMTT(30) DEF BrokerInv, EntriesOK, BrokerTypes
  <2>1. /\ data # <<>> /\ low = data[1] /\ low <= o /\ o - low + 1 <= Len(data)
        /\ 1 \in 1 .. Len(data) /\ data[1] \in Nat /\ data[1] > aged
    BY <2>0, SMTT(30) DEF Found, low
  <2>2. ASSUME NEW i \in 1 .. Len(data)
        PROVE  /\ offset - data[i] = Len(data) - i /\ offset >= mine /\ data[i] \in Nat
    <3>1. data[i] >= data[1] /\ data[i] \in Nat
      <4>1. CASE i = 1
        BY <2>1, <4>1, SMTT(30)
      <4>2. CASE i # 1
        <5>1. 1 < i /\ data[i] \in Nat
          BY <2>0, <4>2, SMTT(30)
        <5>2. data[1] < data[i]
          BY <2>1, <5>1, Zenon DEF BrokerInv, EntriesOK
        <5> QED  BY <2>1, <5>1, <5>2, SMTT(30)
      <4> QED  BY <4>1, <4>2, Zenon
    <3>2. data[i] > aged
      BY <2>0, <2>1, <3>1, SMTT(30)
    <3>3. cached # 0
      BY Zenon DEF BrokerInv, CursorsOK
    <3> QED  BY <3>1, <3>2, <3>3, Zenon DEF BrokerInv, SyncedOK, NoneMissing
  <2>3. offset - low = Len(data) - 1
    BY <2>1, <2>2, Zenon
  <2> DEFINE m == o - low + 2
             tail == SubSeq(data, m, Len(data))
  <2>4. m \in Nat /\ m >= 2 /\ m <= Len(data) + 1 /\ low \in Nat
    BY <2>0, <2>1, SMTT(30)
  <2>5. Len(data) - m + 1 = offset - o /\ offset - o \in Nat
    <3>1. ASSUME NEW n \in Nat, NEW l \in Nat, NEW t \in Nat, t - l = n - 1, o - l + 1 <= n
          PROVE  n - (o - l + 2) + 1 = t - o /\ t - o \in Nat
      BY <2>0, <3>1, SMTT(30)
    <3> QED  BY <2>0, <2>1, <2>3, <2>4, <3>1, ZenonT(60)
  <2> HIDE DEF m
  <2>6. tail = [i \in 1 .. Len(data) - m + 1 |-> data[i + m - 1]]
    BY <2>0, <2>4, SMTT(30)
  <2>7. ASSUME NEW i \in 1 .. Len(data) - m + 1
        PROVE  data[i + m - 1] = o + i
    <3>1. i + m - 1 \in 1 .. Len(data)
      BY <2>0, <2>4, SMTT(30)
    <3>2. offset - data[i + m - 1] = Len(data) - (i + m - 1) /\ data[i + m - 1] \in Nat
      BY <2>2, <3>1, Zenon
    <3>3. ASSUME NEW n \in Nat, NEW t \in Nat, NEW x \in Nat, n - m + 1 = t - o,
                 t - x = n - (i + m - 1)
          PROVE  x = o + i
      <4>1. m \in Nat /\ o \in Nat /\ i \in Int
        BY <2>0, <2>4, SMTT(30)
      <4> QED  BY <3>3, <4>1, SMTT(30)
    <3> QED  BY <2>0, <2>5, <3>2, <3>3, Zenon
  <2>8. tail = [i \in 1 .. offset - o |-> o + i]
    BY <2>5, <2>6, <2>7, Zenon
  <2> QED  BY <2>1, <2>2, <2>8, Zenon DEF HistoryFrom, m
<1> QED  BY <1>1, BrokerInvariant, PTL

=============================================================================
