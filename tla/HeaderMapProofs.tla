---------------------------- MODULE HeaderMapProofs ----------------------------
(***************************************************************************)
(* The table of lib/hashmap.c keeps its order in every loop, so that every *)
(* search is right to end where it ends: for any names and hashes, tables  *)
(* of any size, and any mix of calls.                                      *)
(***************************************************************************)
EXTENDS HeaderMap, FiniteSetTheorems, TLAPS

USE HeaderMapAssumption

(* Distances, on a circle of size buckets.                                 *)
LEMMA DistRange ==
  ASSUME NEW n \in Nat \ {0}, NEW h \in 0 .. n - 1, NEW j \in 0 .. n - 1
  PROVE  Dist(h, j, n) \in 0 .. n - 1 /\ Dist(h, j, n) \in Nat
  BY DEF Dist

LEMMA DistApart ==
  ASSUME NEW n \in Nat \ {0}, NEW h \in 0 .. n - 1, NEW j \in 0 .. n - 1, NEW k \in 0 .. n - 1,
         Dist(h, j, n) = Dist(h, k, n)
  PROVE  j = k
  BY DEF Dist

LEMMA DistAfter ==
  ASSUME NEW n \in Nat \ {0}, NEW h \in 0 .. n - 1, NEW j \in 0 .. n - 1
  PROVE  /\ After(j, n) \in 0 .. n - 1
         /\ After(j, n) # h => Dist(h, After(j, n), n) = Dist(h, j, n) + 1
         /\ After(j, n) = h => Dist(h, After(j, n), n) = 0 /\ Dist(h, j, n) = n - 1
         /\ n > 1 => After(j, n) # j
  BY DEF Dist, After

LEMMA HomeRange ==
  ASSUME hash \in [Names -> Nat], NEW name \in Names, NEW n \in Nat \ {0}
  PROVE  Home(name, n) \in 0 .. n - 1
<1>1. hash[name] \in Nat
  OBVIOUS
<1> QED BY <1>1 DEF Home

(* A bucket that is not empty has an item.                                 *)
LEMMA BucketFilled ==
  ASSUME NEW T, NEW n \in Nat \ {0}, IsTable(T, n), NEW j \in 0 .. n - 1
  PROVE  /\ T[j] = Empty \/ T[j] \in Filled
         /\ T[j].dib \in Nat
         /\ T[j].dib > 0 => T[j] \in Filled /\ T[j].item \in Items /\ T[j].item.name \in Names
         /\ T[j].dib = 0 => T[j] = Empty
  BY DEF IsTable, Filled, Empty, Items

LEMMA StaysTable ==
  ASSUME NEW T, NEW n \in Nat \ {0}, IsTable(T, n), NEW at \in 0 .. n - 1,
         NEW b \in {Empty} \cup Filled
  PROVE  /\ IsTable([T EXCEPT ![at] = b], n)
         /\ DOMAIN [T EXCEPT ![at] = b] = DOMAIN T
         /\ [T EXCEPT ![at] = b][at] = b
         /\ \A k \in 0 .. n - 1 : k # at => [T EXCEPT ![at] = b][k] = T[k]
  BY DEF IsTable

----------------------------------------------------------------------------

(* An item that came along its way may be put where it is farther from home*)
(* than what is there.                                                     *)
LEMMA PutOrdered ==
  ASSUME hash \in [Names -> Nat], NEW T, NEW n \in Nat \ {0}, IsTable(T, n),
         NEW at \in 0 .. n - 1, NEW b \in Filled,
         Ordered(T, n, {}), Fits(T, n, {}, b, at), T[at].dib < b.dib
  PROVE  Ordered([T EXCEPT ![at] = b], n, {})
<1> DEFINE P == [T EXCEPT ![at] = b]
<1>1. P[at] = b /\ \A k \in 0 .. n - 1 : k # at => P[k] = T[k]
  BY DEF IsTable
<1>2. \A k \in 0 .. n - 1 : T[k].dib \in Nat /\ P[k].dib \in Nat /\ T[k].dib <= P[k].dib
  BY <1>1, BucketFilled DEF Filled
<1> HIDE DEF P
<1>3. \A h, j \in 0 .. n - 1 : Reached(T, n, {}, h, j) => Reached(P, n, {}, h, j)
  <2> SUFFICES ASSUME NEW h \in 0 .. n - 1, NEW j \in 0 .. n - 1, Reached(T, n, {}, h, j),
                      NEW k \in 0 .. n - 1, Dist(h, k, n) < Dist(h, j, n)
               PROVE  P[k].dib > Dist(h, k, n)
    BY DEF Reached
  <2>1. T[k].dib > Dist(h, k, n) /\ Dist(h, k, n) \in Nat
    BY DistRange DEF Reached
  <2> QED BY <1>2, <2>1
<1>4. ASSUME NEW j \in 0 .. n - 1, P[j].dib > 0 PROVE Fits(P, n, {}, P[j], j)
  <2>1. CASE j = at
    <3>1. b.item.name \in Names
      BY DEF Filled, Items
    <3>2. Home(b.item.name, n) \in 0 .. n - 1
      BY <3>1, HomeRange
    <3> QED BY <1>1, <1>3, <2>1, <3>2 DEF Fits
  <2>2. CASE j # at
    <3>1. P[j] = T[j] /\ T[j].item.name \in Names
      BY <1>1, <1>4, <2>2, BucketFilled
    <3>2. Home(P[j].item.name, n) \in 0 .. n - 1
      BY <3>1, HomeRange
    <3>3. Fits(T, n, {}, T[j], j)
      BY <1>4, <3>1 DEF Ordered
    <3> QED BY <1>3, <3>1, <3>2, <3>3 DEF Fits
  <2> QED BY <2>1, <2>2
<1> QED BY <1>4 DEF Ordered, P

(* Whichever of the two goes on is on its way to the next bucket, as long  *)
(* as one bucket is empty.                                                 *)
LEMMA GoesOn ==
  ASSUME hash \in [Names -> Nat], NEW T, NEW P, NEW n \in Nat \ {0},
         IsTable(T, n), IsTable(P, n),
         NEW at \in 0 .. n - 1, NEW b \in Filled, Fits(T, n, {}, b, at),
         \A k \in 0 .. n - 1 : k # at => P[k] = T[k],
         P[at].dib >= b.dib,
         \E k \in 0 .. n - 1 : P[k].dib = 0
  PROVE  /\ [b EXCEPT !.dib = @ + 1] \in Filled
         /\ Fits(P, n, {}, [b EXCEPT !.dib = @ + 1], After(at, n))
<1> DEFINE h == Home(b.item.name, n)
           c == [b EXCEPT !.dib = @ + 1]
<1>1. b.item.name \in Names /\ b.dib \in Nat \ {0}
  BY DEF Filled, Items
<1>2. h \in 0 .. n - 1
  BY <1>1, HomeRange
<1>3. c \in Filled /\ c.dib = b.dib + 1 /\ c.item = b.item
  BY DEF Filled
<1>4. b.dib = 1 + Dist(h, at, n) /\ Reached(T, n, {}, h, at)
  BY DEF Fits
<1> HIDE DEF h, c
<1>5. \A k \in 0 .. n - 1 : Dist(h, k, n) <= Dist(h, at, n) => P[k].dib > Dist(h, k, n)
  <2> SUFFICES ASSUME NEW k \in 0 .. n - 1, Dist(h, k, n) <= Dist(h, at, n)
               PROVE  P[k].dib > Dist(h, k, n)
    OBVIOUS
  <2>1. CASE k = at
    <3>1. P[at].dib \in Nat /\ Dist(h, at, n) \in Nat
      BY <1>2, BucketFilled, DistRange
    <3> QED BY <1>1, <1>4, <2>1, <3>1
  <2>2. CASE k # at
    <3>1. Dist(h, k, n) # Dist(h, at, n)
      BY <1>2, <2>2, DistApart
    <3>2. Dist(h, k, n) \in Int /\ Dist(h, at, n) \in Int
      BY <1>2, DistRange
    <3>3. Dist(h, k, n) < Dist(h, at, n)
      BY <3>1, <3>2
    <3> QED BY <1>4, <2>2, <3>3 DEF Reached
  <2> QED BY <2>1, <2>2
<1>6. After(at, n) # h
  <2> SUFFICES ASSUME After(at, n) = h PROVE FALSE
    OBVIOUS
  <2>1. Dist(h, at, n) = n - 1
    BY <1>2, DistAfter
  <2>2. PICK k \in 0 .. n - 1 : P[k].dib = 0
    OBVIOUS
  <2>3. Dist(h, k, n) \in 0 .. n - 1
    BY <1>2, DistRange
  <2> QED BY <1>5, <2>1, <2>2, <2>3
<1>7. Dist(h, After(at, n), n) = Dist(h, at, n) + 1
  BY <1>2, <1>6, DistAfter
<1>8. c.dib = 1 + Dist(h, After(at, n), n)
  <2>1. Dist(h, at, n) \in Nat
    BY <1>2, DistRange
  <2> QED BY <1>3, <1>4, <1>7, <2>1
<1>9. Reached(P, n, {}, h, After(at, n))
  <2> SUFFICES ASSUME NEW k \in 0 .. n - 1, Dist(h, k, n) < Dist(h, After(at, n), n)
               PROVE  P[k].dib > Dist(h, k, n)
    BY DEF Reached
  <2>1. Dist(h, k, n) \in Nat /\ Dist(h, at, n) \in Nat
    BY <1>2, DistRange
  <2> QED BY <1>5, <1>7, <2>1
<1> QED BY <1>3, <1>8, <1>9 DEF Fits, h, c

(* Where a search ends, at an empty bucket or one nearer to its home, the  *)
(* item it looks for is nowhere.                                           *)
LEMMA SearchEnds ==
  ASSUME hash \in [Names -> Nat], NEW T, NEW n \in Nat \ {0}, IsTable(T, n),
         Ordered(T, n, {}), NEW name \in Names, NEW at \in 0 .. n - 1,
         T[at].dib <= Dist(Home(name, n), at, n),
         T[at].dib > 0 => T[at].item.name # name,
         \A j \in 0 .. n - 1 : T[j].dib > 0 /\ T[j].item.name = name =>
           Dist(Home(name, n), at, n) <= Dist(Home(name, n), j, n),
         NEW j \in 0 .. n - 1, T[j].dib > 0
  PROVE  T[j].item.name # name
<1> SUFFICES ASSUME T[j].item.name = name PROVE FALSE
  OBVIOUS
<1> DEFINE h == Home(name, n)
<1>1. h \in 0 .. n - 1
  BY HomeRange
<1>2. Dist(h, at, n) <= Dist(h, j, n)
  OBVIOUS
<1>3. Fits(T, n, {}, T[j], j)
  BY DEF Ordered
<1>4. Reached(T, n, {}, h, j)
  BY <1>3 DEF Fits
<1> HIDE DEF h
<1>5. j # at
  OBVIOUS
<1>6. Dist(h, at, n) # Dist(h, j, n)
  BY <1>1, <1>5, DistApart
<1>7. Dist(h, at, n) \in Nat /\ Dist(h, j, n) \in Nat /\ T[at].dib \in Nat
  BY <1>1, DistRange, BucketFilled
<1>8. T[at].dib > Dist(h, at, n)
  BY <1>2, <1>4, <1>6, <1>7 DEF Reached
<1> QED BY <1>7, <1>8 DEF h

(* A search that goes on from an item of another name passes nothing.      *)
LEMMA SearchGoesOn ==
  ASSUME hash \in [Names -> Nat], NEW n \in Nat \ {0}, NEW name \in Names, NEW at \in 0 .. n - 1,
         NEW j \in 0 .. n - 1, j # at,
         Dist(Home(name, n), at, n) <= Dist(Home(name, n), j, n)
  PROVE  Dist(Home(name, n), After(at, n), n) <= Dist(Home(name, n), j, n)
<1> DEFINE h == Home(name, n)
<1>1. h \in 0 .. n - 1
  BY HomeRange
<1>2. Dist(h, at, n) <= Dist(h, j, n)
  OBVIOUS
<1> HIDE DEF h
<1>3. Dist(h, at, n) # Dist(h, j, n)
  BY <1>1, DistApart
<1>4. Dist(h, at, n) \in Nat /\ Dist(h, j, n) \in Nat
  BY <1>1, DistRange
<1>5. Dist(h, After(at, n), n) <= Dist(h, at, n) + 1
  <2>1. CASE After(at, n) = h
    BY <1>1, <1>4, <2>1, DistAfter
  <2>2. CASE After(at, n) # h
    BY <1>1, <1>4, <2>2, DistAfter
  <2> QED BY <2>1, <2>2
<1>6. Dist(h, After(at, n), n) \in Nat
  BY <1>1, DistRange, DistAfter
<1>7. Dist(h, After(at, n), n) <= Dist(h, j, n)
  BY <1>2, <1>3, <1>4, <1>5, <1>6
<1> QED BY <1>7 DEF h

----------------------------------------------------------------------------

(* Emptying a bucket leaves the order of the rest as it was, but for the   *)
(* ways that lead over it.                                                 *)
LEMMA HoleOpens ==
  ASSUME hash \in [Names -> Nat], NEW T, NEW n \in Nat \ {0}, IsTable(T, n),
         NEW at \in 0 .. n - 1, Ordered(T, n, {})
  PROVE  Ordered([T EXCEPT ![at] = Empty], n, {at})
<1> DEFINE P == [T EXCEPT ![at] = Empty]
<1>1. \A k \in 0 .. n - 1 : k # at => P[k] = T[k]
  BY DEF IsTable
<1> HIDE DEF P
<1>2. ASSUME NEW j \in (0 .. n - 1) \ {at}, P[j].dib > 0 PROVE Fits(P, n, {at}, P[j], j)
  <2>1. P[j] = T[j] /\ Fits(T, n, {}, T[j], j)
    BY <1>1, <1>2 DEF Ordered
  <2> QED BY <1>1, <2>1 DEF Fits, Reached
<1> QED BY <1>2 DEF Ordered, P

(* What follows the hole is moved into it, one step nearer to its home.    *)
LEMMA HoleMoves ==
  ASSUME hash \in [Names -> Nat], NEW T, NEW n \in Nat \ {0}, n > 1, IsTable(T, n),
         NEW at \in 0 .. n - 1, Ordered(T, n, {at}), T[After(at, n)].dib > 1
  PROVE  /\ [T[After(at, n)] EXCEPT !.dib = @ - 1] \in Filled
         /\ Ordered([T EXCEPT ![at] = [T[After(at, n)] EXCEPT !.dib = @ - 1]], n, {After(at, n)})
<1> DEFINE next == After(at, n)
           b == [T[next] EXCEPT !.dib = @ - 1]
           P == [T EXCEPT ![at] = b]
<1>1. next \in 0 .. n - 1 /\ next # at
  BY DistAfter
<1> HIDE DEF next
<1>2. T[next] \in Filled /\ T[next].dib > 1 /\ T[next].dib \in Nat /\ T[next].item.name \in Names
  BY <1>1, BucketFilled DEF next, Filled
<1>3. b \in Filled /\ b.dib = T[next].dib - 1 /\ b.item = T[next].item
  BY <1>2 DEF Filled
<1> HIDE DEF b
<1>4. P[at] = b /\ \A k \in 0 .. n - 1 : k # at => P[k] = T[k]
  BY DEF IsTable
<1> HIDE DEF P
<1>5. Fits(T, n, {at}, T[next], next)
  <2>1. next \in (0 .. n - 1) \ {at} /\ T[next].dib > 0
    BY <1>1, <1>2
  <2>2. \A j \in (0 .. n - 1) \ {at} : T[j].dib > 0 => Fits(T, n, {at}, T[j], j)
    BY DEF Ordered
  <2> QED BY <2>1, <2>2
<1>6. ASSUME NEW j \in (0 .. n - 1) \ {next}, P[j].dib > 0 PROVE Fits(P, n, {next}, P[j], j)
  <2>1. CASE j = at
    <3> DEFINE h == Home(b.item.name, n)
    <3>1. h \in 0 .. n - 1
      BY <1>2, <1>3, HomeRange
    <3>2. T[next].dib = 1 + Dist(h, next, n) /\ Reached(T, n, {at}, h, next)
      BY <1>3, <1>5 DEF Fits
    <3> HIDE DEF h
    <3>3. Dist(h, next, n) = Dist(h, at, n) + 1 /\ Dist(h, at, n) \in Nat
      BY <1>2, <3>1, <3>2, DistAfter, DistRange DEF next
    <3>4. b.dib = 1 + Dist(h, at, n)
      BY <1>3, <3>2, <3>3
    <3>5. Reached(P, n, {next}, h, at)
      <4> SUFFICES ASSUME NEW k \in (0 .. n - 1) \ {next}, Dist(h, k, n) < Dist(h, at, n)
                   PROVE  P[k].dib > Dist(h, k, n)
        BY DEF Reached
      <4>1. Dist(h, k, n) \in Nat /\ Dist(h, at, n) \in Nat
        BY <3>1, <3>3, DistRange
      <4>2. ~(Dist(h, at, n) < Dist(h, at, n))
        BY <4>1
      <4>3. k # at
        BY <4>2
      <4>4. Dist(h, k, n) < Dist(h, next, n)
        BY <3>3, <4>1
      <4> QED BY <1>4, <3>2, <4>3, <4>4 DEF Reached
    <3> QED BY <1>4, <2>1, <3>4, <3>5 DEF Fits, h
  <2>2. CASE j # at
    <3> DEFINE h == Home(T[j].item.name, n)
    <3>1. P[j] = T[j] /\ T[j].dib > 0 /\ T[j].item.name \in Names
      BY <1>4, <1>6, <2>2, BucketFilled
    <3>2. h \in 0 .. n - 1
      BY <3>1, HomeRange
    <3>3. T[j].dib = 1 + Dist(h, j, n) /\ Reached(T, n, {at}, h, j)
      BY <2>2, <3>1 DEF Ordered, Fits
    <3> HIDE DEF h
    <3>4. Reached(P, n, {next}, h, j)
      <4> SUFFICES ASSUME NEW k \in (0 .. n - 1) \ {next}, Dist(h, k, n) < Dist(h, j, n)
                   PROVE  P[k].dib > Dist(h, k, n)
        BY DEF Reached
      <4>1. CASE k # at
        BY <1>4, <3>3, <4>1 DEF Reached
      <4>2. CASE k = at
        <5>1. Dist(h, at, n) \in Nat /\ Dist(h, j, n) \in 0 .. n - 1 /\ Dist(h, next, n) \in Nat
          BY <1>1, <3>2, DistRange
        <5>2. Dist(h, next, n) = Dist(h, at, n) + 1
          BY <3>2, <4>2, <5>1, DistAfter DEF next
        <5>3. Dist(h, next, n) # Dist(h, j, n)
          BY <1>1, <3>2, DistApart
        <5>4. T[next].dib > Dist(h, next, n)
          BY <1>1, <3>3, <4>2, <5>1, <5>2, <5>3 DEF Reached
        <5> QED BY <1>2, <1>3, <1>4, <4>2, <5>1, <5>2, <5>4
      <4> QED BY <4>1, <4>2
    <3> QED BY <3>1, <3>3, <3>4 DEF Fits, h
  <2> QED BY <2>1, <2>2
<1>7. Ordered(P, n, {next})
  BY <1>6 DEF Ordered
<1> QED BY <1>3, <1>7 DEF P, b, next

(* Before an empty bucket or one at home no way leads over the hole.       *)
LEMMA HoleCloses ==
  ASSUME hash \in [Names -> Nat], NEW T, NEW n \in Nat \ {0}, n > 1, IsTable(T, n),
         NEW at \in 0 .. n - 1, Ordered(T, n, {at}), T[After(at, n)].dib <= 1
  PROVE  Ordered([T EXCEPT ![at] = Empty], n, {})
<1> DEFINE next == After(at, n)
           P == [T EXCEPT ![at] = Empty]
<1>1. next \in 0 .. n - 1 /\ next # at
  BY DistAfter
<1>2. T[next].dib <= 1
  OBVIOUS
<1>3. P[at] = Empty /\ \A k \in 0 .. n - 1 : k # at => P[k] = T[k]
  BY DEF IsTable
<1> HIDE DEF P
<1>4. ASSUME NEW j \in 0 .. n - 1, P[j].dib > 0 PROVE Fits(P, n, {}, P[j], j)
  <2> DEFINE h == Home(T[j].item.name, n)
  <2>1. j # at
    BY <1>3, <1>4 DEF Empty
  <2>2. P[j] = T[j] /\ T[j].dib > 0 /\ T[j].item.name \in Names
    BY <1>3, <1>4, <2>1, BucketFilled
  <2>3. h \in 0 .. n - 1
    BY <2>2, HomeRange
  <2>4. T[j].dib = 1 + Dist(h, j, n) /\ Reached(T, n, {at}, h, j)
    BY <2>1, <2>2 DEF Ordered, Fits
  <2> HIDE DEF h
  <2>5. ~(Dist(h, at, n) < Dist(h, j, n))
    <3> SUFFICES ASSUME Dist(h, at, n) < Dist(h, j, n) PROVE FALSE
      OBVIOUS
    <3>1. Dist(h, at, n) \in Nat /\ Dist(h, j, n) \in 0 .. n - 1 /\ T[next].dib \in Nat
      BY <1>1, <2>3, DistRange, BucketFilled
    <3>2. Dist(h, next, n) = Dist(h, at, n) + 1
      BY <2>3, <3>1, DistAfter
    <3> HIDE DEF next
    <3>3. CASE next = j
      BY <1>2, <2>4, <3>1, <3>2, <3>3
    <3>4. CASE next # j
      <4>1. Dist(h, next, n) # Dist(h, j, n)
        BY <1>1, <2>3, <3>4, DistApart
      <4>2. T[next].dib > Dist(h, next, n)
        BY <1>1, <2>4, <3>1, <3>2, <4>1 DEF Reached
      <4> QED BY <1>2, <3>1, <3>2, <4>2
    <3> QED BY <3>3, <3>4
  <2>6. Reached(P, n, {}, h, j)
    BY <1>3, <2>4, <2>5 DEF Reached
  <2> QED BY <2>2, <2>4, <2>6 DEF Fits, h
<1> QED BY <1>4 DEF Ordered, P

(* Another value under the same name changes no distance.                  *)
LEMMA ValueReplaced ==
  ASSUME NEW T, NEW n \in Nat \ {0}, IsTable(T, n), NEW at \in 0 .. n - 1, T[at].dib > 0,
         NEW item \in Items, item.name = T[at].item.name, Ordered(T, n, {})
  PROVE  /\ [T EXCEPT ![at].item = item] = [T EXCEPT ![at] = [T[at] EXCEPT !.item = item]]
         /\ [T[at] EXCEPT !.item = item] \in Filled
         /\ Ordered([T EXCEPT ![at].item = item], n, {})
<1> DEFINE b == [T[at] EXCEPT !.item = item]
           P == [T EXCEPT ![at] = b]
<1>1. T[at] \in Filled
  BY BucketFilled
<1>2. b \in Filled /\ b.dib = T[at].dib /\ b.item = item
  BY <1>1 DEF Filled
<1> HIDE DEF b
<1>3. P[at] = b /\ \A k \in 0 .. n - 1 : k # at => P[k] = T[k]
  BY DEF IsTable
<1> HIDE DEF P
<1>4. \A k \in 0 .. n - 1 : P[k].dib = T[k].dib /\ (T[k].dib > 0 => P[k].item.name = T[k].item.name)
  BY <1>2, <1>3
<1>5. \A j \in 0 .. n - 1 : T[j].dib > 0 => Fits(T, n, {}, T[j], j)
  BY DEF Ordered
<1>6. \A j \in 0 .. n - 1 : P[j].dib > 0 => Fits(P, n, {}, P[j], j)
  BY <1>4, <1>5 DEF Fits, Reached
<1>7. Ordered(P, n, {})
  BY <1>6 DEF Ordered
<1>8. [T EXCEPT ![at].item = item] = [T EXCEPT ![at] = [T[at] EXCEPT !.item = item]]
  OBVIOUS
<1> QED BY <1>2, <1>7, <1>8 DEF P, b

LEMMA EmptyOrdered ==
  ASSUME NEW n \in Nat, NEW T, \A j \in 0 .. n - 1 : T[j] = Empty
  PROVE  Ordered(T, n, {})
  BY DEF Ordered, Empty

----------------------------------------------------------------------------

(* How many buckets hold an item.                                          *)
LEMMA OccupiedFinite ==
  ASSUME NEW T, NEW n \in Nat, NEW hole
  PROVE  IsFiniteSet(Occupied(T, n, hole)) /\ Cardinality(Occupied(T, n, hole)) \in Nat
<1>1. IsFiniteSet(0 .. n - 1)
  BY FS_Interval
<1>2. Occupied(T, n, hole) \in SUBSET (0 .. n - 1)
  BY DEF Occupied
<1>3. IsFiniteSet(Occupied(T, n, hole))
  BY <1>1, <1>2, FS_Subset
<1> QED BY <1>3, FS_CardinalityType

LEMMA RoomLeft ==
  ASSUME NEW T, NEW n \in Nat \ {0}, IsTable(T, n), Cardinality(Occupied(T, n, {})) < n
  PROVE  \E k \in 0 .. n - 1 : T[k].dib = 0
<1> SUFFICES ASSUME \A k \in 0 .. n - 1 : T[k].dib # 0 PROVE FALSE
  OBVIOUS
<1>1. \A k \in 0 .. n - 1 : T[k].dib > 0
  BY BucketFilled
<1>2. Occupied(T, n, {}) = 0 .. n - 1
  BY <1>1 DEF Occupied
<1>3. Cardinality(0 .. n - 1) = n
  BY FS_Interval
<1> QED BY <1>2, <1>3

LEMMA OccupiedPut ==
  ASSUME NEW T, NEW n \in Nat \ {0}, IsTable(T, n), NEW at \in 0 .. n - 1, NEW b \in Filled
  PROVE  /\ Occupied([T EXCEPT ![at] = b], n, {}) = Occupied(T, n, {}) \cup {at}
         /\ Cardinality(Occupied([T EXCEPT ![at] = b], n, {})) =
              Cardinality(Occupied(T, n, {})) + (IF T[at].dib = 0 THEN 1 ELSE 0)
<1> DEFINE P == [T EXCEPT ![at] = b]
<1>1. P[at] = b /\ \A k \in 0 .. n - 1 : k # at => P[k] = T[k]
  BY DEF IsTable
<1>2. b.dib > 0
  BY DEF Filled
<1> HIDE DEF P
<1>3. Occupied(P, n, {}) = Occupied(T, n, {}) \cup {at}
  BY <1>1, <1>2 DEF Occupied
<1>4. IsFiniteSet(Occupied(T, n, {})) /\ Cardinality(Occupied(T, n, {})) \in Nat
  BY OccupiedFinite
<1>5. T[at].dib = 0 <=> at \notin Occupied(T, n, {})
  BY BucketFilled DEF Occupied
<1>6. Cardinality(Occupied(T, n, {}) \cup {at}) =
        IF at \in Occupied(T, n, {}) THEN Cardinality(Occupied(T, n, {}))
                                     ELSE Cardinality(Occupied(T, n, {})) + 1
  BY <1>4, FS_AddElement
<1>7. Cardinality(Occupied(P, n, {})) =
        Cardinality(Occupied(T, n, {})) + (IF T[at].dib = 0 THEN 1 ELSE 0)
  <2>1. Cardinality(Occupied(P, n, {})) = Cardinality(Occupied(T, n, {}) \cup {at})
    BY ONLY <1>3, Zenon
  <2> QED BY <2>1, <1>4, <1>5, <1>6
<1> QED BY <1>3, <1>7 DEF P

(* Emptying a bucket, before the shift and after it.                       *)
LEMMA OccupiedHole ==
  ASSUME NEW T, NEW n \in Nat \ {0}, IsTable(T, n), NEW at \in 0 .. n - 1
  PROVE  /\ Occupied([T EXCEPT ![at] = Empty], n, {at}) = Occupied(T, n, {at})
         /\ Occupied([T EXCEPT ![at] = Empty], n, {}) = Occupied(T, n, {at})
         /\ Occupied(T, n, {at}) = Occupied(T, n, {}) \ {at}
         /\ T[at].dib > 0 => Cardinality(Occupied(T, n, {at})) = Cardinality(Occupied(T, n, {})) - 1
<1> DEFINE P == [T EXCEPT ![at] = Empty]
<1>1. P[at] = Empty /\ \A k \in 0 .. n - 1 : k # at => P[k] = T[k]
  BY DEF IsTable
<1> HIDE DEF P
<1>2. Occupied(P, n, {at}) = Occupied(T, n, {at})
  BY <1>1 DEF Occupied
<1>3. Occupied(P, n, {}) = Occupied(T, n, {at})
  BY <1>1 DEF Occupied, Empty
<1>4. Occupied(T, n, {at}) = Occupied(T, n, {}) \ {at}
  BY DEF Occupied
<1>5. T[at].dib > 0 => at \in Occupied(T, n, {})
  BY DEF Occupied
<1>6. IsFiniteSet(Occupied(T, n, {}))
  BY OccupiedFinite
<1>7. T[at].dib > 0 => Cardinality(Occupied(T, n, {at})) = Cardinality(Occupied(T, n, {})) - 1
  BY <1>4, <1>5, <1>6, FS_RemoveElement
<1> QED BY <1>2, <1>3, <1>4, <1>7 DEF P

(* The hole moves on to a bucket whose item is moved back.                 *)
LEMMA OccupiedMoved ==
  ASSUME NEW T, NEW n \in Nat \ {0}, IsTable(T, n), NEW at \in 0 .. n - 1,
         NEW next \in 0 .. n - 1, next # at, T[next].dib > 0, NEW b \in Filled
  PROVE  /\ Occupied([T EXCEPT ![at] = b], n, {next}) = (Occupied(T, n, {at}) \ {next}) \cup {at}
         /\ next \in Occupied(T, n, {at}) /\ at \notin Occupied(T, n, {at})
         /\ Cardinality(Occupied([T EXCEPT ![at] = b], n, {next})) = Cardinality(Occupied(T, n, {at}))
<1> DEFINE P == [T EXCEPT ![at] = b]
           S == Occupied(T, n, {at})
<1>1. P[at] = b /\ \A k \in 0 .. n - 1 : k # at => P[k] = T[k]
  BY DEF IsTable
<1>2. b.dib > 0
  BY DEF Filled
<1> HIDE DEF P
<1>3. Occupied(P, n, {next}) = (S \ {next}) \cup {at}
  BY <1>1, <1>2 DEF Occupied
<1>4. next \in S /\ at \notin S
  BY DEF Occupied
<1>5. IsFiniteSet(S) /\ Cardinality(S) \in Nat
  BY OccupiedFinite
<1> HIDE DEF S
<1>6. IsFiniteSet(S \ {next}) /\ Cardinality(S \ {next}) = Cardinality(S) - 1
  BY <1>4, <1>5, FS_RemoveElement
<1>7. Cardinality((S \ {next}) \cup {at}) = Cardinality(S \ {next}) + 1
  BY <1>4, <1>6, FS_AddElement
<1>8. Cardinality(Occupied(P, n, {next})) = Cardinality(S)
  <2>1. Cardinality(Occupied(P, n, {next})) = Cardinality((S \ {next}) \cup {at})
    BY ONLY <1>3, Zenon
  <2> QED BY <2>1, <1>5, <1>6, <1>7
<1> QED BY <1>3, <1>4, <1>8 DEF P, S

(* Sizes and limits.                                                       *)
LEMMA SizeRange ==
  ASSUME NEW n \in TableSizes
  PROVE  n \in Nat \ {0} /\ n > 1 /\ n % 2 = 0
  BY DEF HeaderMapAssumption

LEMMA GrowAtRange ==
  ASSUME NEW n \in TableSizes, NEW factor \in LoadFactors
  PROVE  GrowAt(n, factor) \in 1 .. n - 1
<1>1. n \in Nat /\ n > 1 /\ factor \in 50 .. 95
  BY SizeRange DEF HeaderMapAssumption
<1>2. n * factor \in Nat /\ 100 <= n * factor /\ n * factor < 100 * n
  BY <1>1
<1>3. ASSUME NEW x \in Nat, 100 <= x, x < 100 * n PROVE x \div 100 \in 1 .. n - 1
  BY <1>1, <1>3
<1> QED BY <1>2, <1>3 DEF GrowAt

LEMMA ShrinkAtRange ==
  ASSUME NEW n \in TableSizes
  PROVE  ShrinkAt(n) \in Nat /\ ShrinkAt(n) < n \div 2 /\ ShrinkAt(n) <= n - 1
<1>1. n \in Nat /\ n > 1 /\ n % 2 = 0 /\ ShrinkPercent \in 0 .. 49
  BY SizeRange DEF HeaderMapAssumption
<1>2. n * ShrinkPercent \in Nat /\ n * ShrinkPercent < 50 * n
  BY <1>1
<1>3. PICK m \in Nat : n = 2 * m
  BY <1>1
<1>4. ASSUME NEW x \in Nat, x < 100 * m PROVE x \div 100 \in Nat /\ x \div 100 < m
  BY <1>4
<1>5. n \div 2 = m /\ m <= n - 1
  BY <1>1, <1>3
<1>6. ShrinkAt(n) \in Nat /\ ShrinkAt(n) < m
  BY <1>2, <1>3, <1>4 DEF ShrinkAt
<1> QED BY <1>5, <1>6

LEMMA NewCapRange ==
  ASSUME NEW c, NEW size \in NewCap(c)
  PROVE  size \in TableSizes /\ c <= size
  BY DEF NewCap

LEMMA EmptyTable ==
  ASSUME NEW n \in Nat
  PROVE  /\ DOMAIN [j \in 0 .. n - 1 |-> Empty] = 0 .. n - 1
         /\ Cardinality(DOMAIN [j \in 0 .. n - 1 |-> Empty]) = n
         /\ IsTable([j \in 0 .. n - 1 |-> Empty], n)
         /\ Ordered([j \in 0 .. n - 1 |-> Empty], n, {})
         /\ Occupied([j \in 0 .. n - 1 |-> Empty], n, {}) = {}
<1> DEFINE T == [j \in 0 .. n - 1 |-> Empty]
<1>1. DOMAIN T = 0 .. n - 1 /\ \A j \in 0 .. n - 1 : T[j] = Empty
  OBVIOUS
<1>2. IsTable(T, n)
  BY DEF IsTable
<1>3. Cardinality(0 .. n - 1) = n
  BY FS_Interval
<1> HIDE DEF T
<1>4. Ordered(T, n, {})
  BY <1>1, EmptyOrdered
<1>5. Occupied(T, n, {}) = {}
  BY <1>1 DEF Occupied, Empty
<1> QED BY <1>1, <1>2, <1>3, <1>4, <1>5 DEF T

----------------------------------------------------------------------------

(* What the invariant says, by the table that is worked on.                *)
LEMMA AtBuckets ==
  ASSUME MapInv, ~Tables
  PROVE  /\ hash \in [Names -> Nat]
         /\ nbuckets \in TableSizes /\ nbuckets \in Nat \ {0} /\ nbuckets > 1
         /\ IsTable(buckets, nbuckets) /\ Ordered(buckets, nbuckets, Hole)
         /\ Table = buckets /\ Size = nbuckets /\ Rest = {}
         /\ Used = Occupied(buckets, nbuckets, Hole)
         /\ \A j, k \in Used : buckets[j].item.name = buckets[k].item.name => j = k
         /\ Cardinality(Used) \in Nat /\ count = Cardinality(Used) + Cardinality(Hole)
<1>1. TypeOK /\ TableInv /\ CountInv
  BY DEF MapInv
<1>2. nbuckets \in TableSizes
  BY <1>1 DEF TypeOK
<1>3. nbuckets \in Nat \ {0} /\ nbuckets > 1
  BY <1>2, SizeRange
<1>4. Table = buckets /\ Size = nbuckets /\ Rest = {}
  BY DEF Table, Size, Rest
<1>5. hash \in [Names -> Nat] /\ IsTable(buckets, nbuckets)
  BY <1>1 DEF TypeOK
<1>6. Ordered(buckets, nbuckets, Hole) /\ Apart
  BY <1>1, <1>4 DEF TableInv
<1>7. Used = Occupied(buckets, nbuckets, Hole)
  BY <1>4 DEF Used
<1>8. \A j, k \in Used : buckets[j].item.name = buckets[k].item.name => j = k
  BY <1>4, <1>6 DEF Apart
<1>9. Cardinality(Used) \in Nat
  BY <1>3, <1>7, OccupiedFinite
<1>10. count = Cardinality(Used) + Cardinality(Hole)
  <2>1. Cardinality(Rest) = 0
    BY <1>4, FS_EmptySet
  <2>2. Cardinality(Hole) \in Nat
    <3>1. Cardinality({}) = 0 /\ Cardinality({i}) = 1
      BY FS_EmptySet, FS_Singleton
    <3> QED BY <3>1 DEF Hole
  <2>3. count = Cardinality(Used) + Cardinality(Rest) + Cardinality(Hole)
    BY <1>1 DEF CountInv
  <2> QED BY <1>9, <2>1, <2>2, <2>3
<1> QED BY <1>2, <1>3, <1>4, <1>5, <1>6, <1>7, <1>8, <1>9, <1>10

LEMMA AtNewBuckets ==
  ASSUME MapInv, Tables
  PROVE  /\ hash \in [Names -> Nat]
         /\ nbuckets \in TableSizes /\ nbuckets \in Nat \ {0} /\ IsTable(buckets, nbuckets)
         /\ NewSize \in TableSizes /\ NewSize \in Nat \ {0} /\ NewSize > 1
         /\ IsTable(newBuckets, NewSize) /\ DOMAIN newBuckets = 0 .. NewSize - 1
         /\ Ordered(newBuckets, NewSize, {})
         /\ Table = newBuckets /\ Size = NewSize /\ Hole = {}
         /\ Rest = Occupied(buckets, nbuckets, 0 .. source - 1)
         /\ Used = Occupied(newBuckets, NewSize, {})
         /\ \A j, k \in Used : newBuckets[j].item.name = newBuckets[k].item.name => j = k
         /\ \A j, k \in Rest : buckets[j].item.name = buckets[k].item.name => j = k
         /\ \A j \in Used, k \in Rest : newBuckets[j].item.name # buckets[k].item.name
         /\ Cardinality(Used) \in Nat /\ Cardinality(Rest) \in Nat
         /\ count = Cardinality(Used) + Cardinality(Rest)
         /\ source \in 0 .. nbuckets
<1>1. TypeOK /\ TableInv /\ CountInv /\ CallInv
  BY DEF MapInv
<1>2. nbuckets \in TableSizes /\ NewSize \in TableSizes /\ source \in Nat /\ source <= nbuckets
  BY <1>1 DEF TypeOK, CallInv
<1>3. nbuckets \in Nat \ {0} /\ NewSize \in Nat \ {0} /\ NewSize > 1
  BY <1>2, SizeRange
<1>4. Table = newBuckets /\ Size = NewSize /\ Hole = {}
      /\ Rest = Occupied(buckets, nbuckets, 0 .. source - 1)
  BY DEF Tables, Table, Size, Rest, Hole
<1>5. hash \in [Names -> Nat] /\ IsTable(buckets, nbuckets) /\ IsTable(newBuckets, NewSize)
  BY <1>1 DEF TypeOK
<1>6. Ordered(newBuckets, NewSize, {}) /\ Apart
  BY <1>1, <1>4 DEF TableInv
<1>7. Used = Occupied(newBuckets, NewSize, {})
  BY <1>4 DEF Used
<1>8. /\ \A j, k \in Used : newBuckets[j].item.name = newBuckets[k].item.name => j = k
      /\ \A j, k \in Rest : buckets[j].item.name = buckets[k].item.name => j = k
      /\ \A j \in Used, k \in Rest : newBuckets[j].item.name # buckets[k].item.name
  BY <1>4, <1>6 DEF Apart
<1>9. Cardinality(Used) \in Nat /\ Cardinality(Rest) \in Nat
  BY <1>3, <1>4, <1>7, OccupiedFinite
<1>10. count = Cardinality(Used) + Cardinality(Rest)
  <2>1. Cardinality(Hole) = 0
    BY <1>4, FS_EmptySet
  <2>2. count = Cardinality(Used) + Cardinality(Rest) + Cardinality(Hole)
    BY <1>1 DEF CountInv
  <2> QED BY <1>9, <2>1, <2>2
<1>11. DOMAIN newBuckets = 0 .. NewSize - 1
  BY <1>1 DEF CallInv
<1>12. source \in 0 .. nbuckets
  BY <1>2, <1>3
<1> QED BY <1>2, <1>3, <1>4, <1>5, <1>6, <1>7, <1>8, <1>9, <1>10, <1>11, <1>12

(* What is to be shown of the table after a step.                          *)
LEMMA BucketsNext ==
  ASSUME ~Tables', hash' = hash, NEW T, NEW n, NEW hole, buckets' = T, nbuckets' = n, Hole' = hole,
         Ordered(T, n, hole),
         \A j, k \in Occupied(T, n, hole) : T[j].item.name = T[k].item.name => j = k
  PROVE  /\ Table' = T /\ Size' = n /\ Rest' = {} /\ Used' = Occupied(T, n, hole)
         /\ TableInv'
<1>1. Table' = T /\ Size' = n /\ Rest' = {}
  BY DEF Table, Size, Rest
<1>2. Used' = Occupied(T, n, hole)
  BY <1>1 DEF Used, Occupied
<1>3. Ordered(Table, Size, Hole)'
  BY <1>1 DEF Ordered, Fits, Reached, Home
<1>4. Apart'
  BY <1>1, <1>2 DEF Apart
<1> QED BY <1>1, <1>2, <1>3, <1>4 DEF TableInv

LEMMA NewBucketsNext ==
  ASSUME Tables', hash' = hash, NEW T, NEW n, newBuckets' = T, NewSize' = n, Ordered(T, n, {}),
         NEW B, NEW R, buckets' = B, R = Occupied(B, nbuckets', 0 .. source' - 1),
         \A j, k \in Occupied(T, n, {}) : T[j].item.name = T[k].item.name => j = k,
         \A j, k \in R : B[j].item.name = B[k].item.name => j = k,
         \A j \in Occupied(T, n, {}), k \in R : T[j].item.name # B[k].item.name
  PROVE  /\ Table' = T /\ Size' = n /\ Hole' = {} /\ Rest' = R /\ Used' = Occupied(T, n, {})
         /\ TableInv'
<1>1. Table' = T /\ Size' = n /\ Hole' = {}
  BY DEF Tables, Table, Size, Hole
<1>2. Rest' = R
  BY DEF Rest, Occupied
<1>3. Used' = Occupied(T, n, {})
  BY <1>1 DEF Used, Occupied
<1>4. Ordered(Table, Size, Hole)'
  BY <1>1 DEF Ordered, Fits, Reached, Home
<1>5. Apart'
  BY <1>1, <1>2, <1>3 DEF Apart
<1> QED BY <1>1, <1>2, <1>3, <1>4, <1>5 DEF TableInv

LEMMA ScratchNext ==
  ASSUME TypeOK, newBuckets' = newBuckets \/ newBuckets' = NoBuckets
  PROVE  IsTable(newBuckets, NewSize)'
<1>1. CASE newBuckets' = newBuckets
  BY <1>1 DEF TypeOK, IsTable, NewSize
<1>2. CASE newBuckets' = NoBuckets
  <2>1. DOMAIN newBuckets' = {} /\ NewSize' = 0
    BY <1>2, FS_EmptySet DEF NoBuckets, NewSize
  <2> QED BY <1>2, <2>1 DEF IsTable, NoBuckets
<1> QED BY <1>1, <1>2

(* At its home an item has come along all of its way.                      *)
LEMMA FitsHome ==
  ASSUME hash \in [Names -> Nat], NEW n \in Nat \ {0}, NEW name \in Names
  PROVE  /\ Home(name, n) \in 0 .. n - 1
         /\ \A j \in 0 .. n - 1 : Dist(Home(name, n), Home(name, n), n) <= Dist(Home(name, n), j, n)
         /\ \A T, hole, b : b.item.name = name /\ b.dib = 1 => Fits(T, n, hole, b, Home(name, n))
<1> DEFINE h == Home(name, n)
<1>1. h \in 0 .. n - 1
  BY HomeRange
<1> HIDE DEF h
<1>2. Dist(h, h, n) = 0
  BY <1>1 DEF Dist
<1>3. \A j \in 0 .. n - 1 : Dist(h, j, n) \in Nat
  BY <1>1, DistRange
<1>4. ASSUME NEW T, NEW hole, NEW b, b.item.name = name, b.dib = 1 PROVE Fits(T, n, hole, b, h)
  <2>1. Reached(T, n, hole, h, h)
    BY <1>2, <1>3 DEF Reached
  <2> QED BY <1>2, <1>4, <2>1 DEF Fits, h
<1>5. \A T, hole, b : b.item.name = name /\ b.dib = 1 => Fits(T, n, hole, b, h)
  BY <1>4
<1>6. \A j \in 0 .. n - 1 : Dist(h, h, n) <= Dist(h, j, n)
  BY <1>2, <1>3
<1> QED BY <1>1, <1>5, <1>6 DEF h

----------------------------------------------------------------------------

(* A call begins: the table is what it was.                                *)
LEMMA BeginsKeeps ==
  ASSUME MapInv, NEW c, NEW loop \in {"grow", "place", "get", "delete", "scan"},
         NEW b, NEW at \in Nat, Begins(c, loop, b, at)
  PROVE  /\ ~Tables /\ Hole = {}
         /\ TypeOK' /\ TableInv'
         /\ Table' = buckets /\ Size' = nbuckets /\ Rest' = {} /\ Hole' = {} /\ ~Tables'
         /\ Used' = Used /\ Used = Occupied(buckets, nbuckets, {})
         /\ entry' = b /\ i' = at /\ pc' = loop /\ call' = c /\ hash' = hash
         /\ UNCHANGED <<cap, nbuckets, growat, shrinkat, loadfactor, buckets, count, source, newBuckets>>
<1>1. pc = "idle"
  BY DEF Begins
<1>2. ~Tables /\ Hole = {} /\ ~Tables' /\ Hole' = {}
  BY <1>1 DEF Begins, Tables, Hole
<1>3. UNCHANGED <<hash, cap, nbuckets, growat, shrinkat, loadfactor, buckets, count, newBuckets, source>>
      /\ entry' = b /\ i' = at /\ pc' = loop /\ call' = c
  BY DEF Begins, sizeVars, resizeVars
<1>4. /\ Ordered(buckets, nbuckets, {}) /\ Used = Occupied(buckets, nbuckets, {})
      /\ \A j, k \in Used : buckets[j].item.name = buckets[k].item.name => j = k
  BY <1>2, AtBuckets
<1>5. /\ Table' = buckets /\ Size' = nbuckets /\ Rest' = {}
      /\ Used' = Occupied(buckets, nbuckets, {}) /\ TableInv'
  BY <1>2, <1>3, <1>4, BucketsNext
<1>6. TypeOK'
  <2>1. TypeOK
    BY DEF MapInv
  <2>2. IsTable(newBuckets, NewSize)'
    BY <1>3, <2>1, ScratchNext
  <2> QED BY <1>3, <2>1, <2>2 DEF TypeOK, IsTable
<1> QED BY <1>2, <1>3, <1>4, <1>5, <1>6

(* Where an item begins, at its home.                                      *)
LEMMA NotPassedAtHome ==
  ASSUME hash \in [Names -> Nat], hash' = hash, NEW n \in Nat \ {0}, NEW name \in Names,
         Size' = n, Used' \subseteq 0 .. n - 1, i' = Home(name, n), entry'.item.name = name
  PROVE  NotPassed(entry.item.name)'
<1>1. \A j \in Used' : Dist(Home(name, n), Home(name, n), n) <= Dist(Home(name, n), j, n)
  BY FitsHome
<1>2. Home(name, n)' = Home(name, n)
  BY DEF Home
<1>3. Home(entry.item.name, Size)' = Home(name, n)
  BY DEF Home
<1> QED BY <1>1, <1>3 DEF NotPassed, Dist

LEMMA LookupBegins ==
  ASSUME MapInv, NEW name \in Names, Get(name) \/ Delete(name)
  PROVE  MapInv'
<1> DEFINE h == Home(name, nbuckets)
<1>1. PICK c \in {"get", "delete"} : Begins(c, c, Lookup(name), h)
  BY DEF Get, Delete
<1>2. pc = "idle"
  BY <1>1 DEF Begins
<1>3. ~Tables
  BY <1>2 DEF Tables
<1>4. hash \in [Names -> Nat] /\ nbuckets \in Nat \ {0} /\ Rest = {} /\ Size = nbuckets
  BY <1>3, AtBuckets
<1>5. h \in 0 .. nbuckets - 1 /\ h \in Nat
  BY <1>4, FitsHome
<1> HIDE DEF h
<1>6. /\ ~Tables /\ Hole = {}
      /\ TypeOK' /\ TableInv'
      /\ Table' = buckets /\ Size' = nbuckets /\ Rest' = {} /\ Hole' = {} /\ ~Tables'
      /\ Used' = Used /\ Used = Occupied(buckets, nbuckets, {})
      /\ entry' = Lookup(name) /\ i' = h /\ pc' = c /\ call' = c /\ hash' = hash
      /\ UNCHANGED <<cap, nbuckets, growat, shrinkat, loadfactor, buckets, count, source, newBuckets>>
  <2>1. c \in {"grow", "place", "get", "delete", "scan"}
    OBVIOUS
  <2> QED BY <1>1, <1>5, <2>1, BeginsKeeps
<1>7. entry'.item.name = name
  BY <1>6 DEF Lookup, Bucket
<1>8. NotPassed(entry.item.name)'
  <2>1. Used' \subseteq 0 .. nbuckets - 1
    BY <1>6 DEF Occupied
  <2>2. i' = Home(name, nbuckets)
    BY <1>6 DEF h
  <2> QED BY <1>4, <1>6, <1>7, <2>1, <2>2, NotPassedAtHome
<1>9. LoopInv'
  BY <1>5, <1>6, <1>7, <1>8 DEF LoopInv, Slots
<1>10. CallInv'
  BY <1>2, <1>6 DEF CallInv, MapInv
<1>11. CountInv'
  BY <1>2, <1>4, <1>6 DEF CountInv, MapInv, ShrinkAt
<1> QED BY <1>6, <1>9, <1>10, <1>11 DEF MapInv

LEMMA ScanBegins ==
  ASSUME MapInv, Scan
  PROVE  MapInv'
<1>1. pc = "idle" /\ Begins("scan", "scan", Empty, 0)
  BY DEF Scan, Begins
<1>2. /\ ~Tables /\ Hole = {}
      /\ TypeOK' /\ TableInv'
      /\ Table' = buckets /\ Size' = nbuckets /\ Rest' = {} /\ Hole' = {} /\ ~Tables'
      /\ Used' = Used
      /\ i' = 0 /\ pc' = "scan" /\ call' = "scan"
      /\ UNCHANGED <<cap, nbuckets, growat, shrinkat, loadfactor, buckets, count, source, newBuckets>>
  BY <1>1, BeginsKeeps
<1>3. nbuckets \in Nat /\ Rest = {} /\ Size = nbuckets
  BY <1>2, AtBuckets
<1>4. LoopInv'
  BY <1>2, <1>3 DEF LoopInv
<1>5. CallInv'
  BY <1>1, <1>2 DEF CallInv, MapInv
<1>6. CountInv'
  BY <1>1, <1>2, <1>3 DEF CountInv, MapInv, ShrinkAt
<1> QED BY <1>2, <1>4, <1>5, <1>6 DEF MapInv

(* There is room for the item when the table need not grow.                *)
LEMMA SetBegins ==
  ASSUME MapInv, NEW name \in Names, NEW value \in Values, Set(name, value)
  PROVE  MapInv'
<1> DEFINE h == Home(name, nbuckets)
           b == Bucket(1, Item(name, value))
           loop == IF count >= growat THEN "grow" ELSE "place"
<1>1. Begins("set", loop, b, h)
  BY DEF Set
<1>2. pc = "idle"
  BY <1>1 DEF Begins
<1>3. ~Tables
  BY <1>2 DEF Tables
<1>4. hash \in [Names -> Nat] /\ nbuckets \in Nat \ {0} /\ Rest = {} /\ Size = nbuckets
  BY <1>3, AtBuckets
<1>5. h \in 0 .. nbuckets - 1 /\ h \in Nat
  BY <1>4, FitsHome
<1>6. b \in Filled /\ b.dib = 1 /\ b.item.name = name
  BY DEF Bucket, Item, Filled, Items
<1>7. \A T, hole : Fits(T, nbuckets, hole, b, h)
  BY <1>4, <1>6, FitsHome
<1>8. loop \in {"grow", "place"} /\ (loop = "place" => ~(count >= growat))
  OBVIOUS
<1> HIDE DEF h, b, loop
<1>9. /\ ~Tables /\ Hole = {}
      /\ TypeOK' /\ TableInv'
      /\ Table' = buckets /\ Size' = nbuckets /\ Rest' = {} /\ Hole' = {} /\ ~Tables'
      /\ Used' = Used /\ Used = Occupied(buckets, nbuckets, {})
      /\ entry' = b /\ i' = h /\ pc' = loop /\ call' = "set" /\ hash' = hash
      /\ UNCHANGED <<cap, nbuckets, growat, shrinkat, loadfactor, buckets, count, source, newBuckets>>
  <2>1. loop \in {"grow", "place", "get", "delete", "scan"}
    BY <1>8
  <2> QED BY <1>1, <1>5, <2>1, BeginsKeeps
<1>10. NotPassed(entry.item.name)'
  <2>1. Used' \subseteq 0 .. nbuckets - 1
    BY <1>9 DEF Occupied
  <2>2. i' = Home(name, nbuckets) /\ entry'.item.name = name
    BY <1>6, <1>9 DEF h
  <2> QED BY <1>4, <1>9, <2>1, <2>2, NotPassedAtHome
<1>11. Fits(buckets, nbuckets, {}, entry, i)'
  BY <1>7, <1>9 DEF Fits, Reached, Home
<1>12. LoopInv'
  BY <1>5, <1>8, <1>9, <1>10, <1>11 DEF LoopInv, Slots
<1>13. CallInv'
  BY <1>2, <1>6, <1>8, <1>9 DEF CallInv, MapInv
<1>14. CountInv'
  <2>1. count \in Int /\ growat \in 1 .. nbuckets - 1
    BY <1>3, <1>4, <1>9, AtBuckets, FS_EmptySet DEF MapInv, TypeOK
  <2>2. loop = "place" => count + 1 < nbuckets
    BY <1>4, <1>8, <2>1
  <2>3. count < Size /\ count = Cardinality(Used) + Cardinality(Rest) + Cardinality(Hole)
        /\ shrinkat = ShrinkAt(nbuckets)
    BY <1>2, <1>3, <2>1 DEF CountInv, MapInv
  <2> QED BY <1>4, <1>8, <1>9, <2>1, <2>2, <2>3 DEF CountInv, ShrinkAt
<1> QED BY <1>9, <1>12, <1>13, <1>14 DEF MapInv

----------------------------------------------------------------------------

(* An item of a name no other bucket has is put into a table.              *)
LEMMA PutApart ==
  ASSUME NEW T, NEW n \in Nat \ {0}, IsTable(T, n), NEW at \in 0 .. n - 1, NEW b \in Filled,
         \A j, k \in Occupied(T, n, {}) : T[j].item.name = T[k].item.name => j = k,
         \A j \in Occupied(T, n, {}) \ {at} : T[j].item.name # b.item.name
  PROVE  \A j, k \in Occupied([T EXCEPT ![at] = b], n, {}) :
           [T EXCEPT ![at] = b][j].item.name = [T EXCEPT ![at] = b][k].item.name => j = k
<1> DEFINE P == [T EXCEPT ![at] = b]
<1>1. P[at] = b /\ \A k \in 0 .. n - 1 : k # at => P[k] = T[k]
  BY DEF IsTable
<1>2. Occupied(P, n, {}) = Occupied(T, n, {}) \cup {at} /\ Occupied(T, n, {}) \subseteq 0 .. n - 1
  <2>1. Occupied(P, n, {}) = Occupied(T, n, {}) \cup {at}
    BY OccupiedPut
  <2>2. Occupied(T, n, {}) \subseteq 0 .. n - 1
    BY DEF Occupied
  <2> QED BY <2>1, <2>2
<1> HIDE DEF P
<1>3. \A j \in Occupied(T, n, {}) \ {at} : P[j] = T[j]
  BY <1>1, <1>2
<1>4. \A j, k \in Occupied(P, n, {}) : P[j].item.name = P[k].item.name => j = k
  BY <1>1, <1>2, <1>3
<1> QED BY <1>4 DEF P

(* A call returns, with the table in order.                                *)
LEMMA ReturnsKeeps ==
  ASSUME MapInv, NEW c, NEW result, Returns(c, result),
         NEW T, NEW n \in TableSizes, buckets' = T, nbuckets' = n, cap <= n,
         growat' \in 1 .. n - 1, shrinkat' = ShrinkAt(n),
         IsTable(T, n), Ordered(T, n, {}),
         \A j, k \in Occupied(T, n, {}) : T[j].item.name = T[k].item.name => j = k,
         count' = Cardinality(Occupied(T, n, {})), count' < n
  PROVE  MapInv'
<1>1. /\ hash' = hash /\ cap' = cap /\ loadfactor' = loadfactor /\ pc' = "idle"
      /\ i' = 0 /\ newBuckets' = NoBuckets /\ source' = 0
  BY DEF Returns
<1>2. ~Tables' /\ Hole' = {}
  BY <1>1 DEF Tables, Hole
<1>3. Table' = T /\ Size' = n /\ Rest' = {} /\ Used' = Occupied(T, n, {}) /\ TableInv'
  BY <1>1, <1>2, BucketsNext
<1>4. n \in Nat \ {0}
  BY SizeRange
<1>5. TypeOK'
  <2>1. TypeOK
    BY DEF MapInv
  <2>2. IsTable(newBuckets, NewSize)'
    BY <1>1, <2>1, ScratchNext
  <2>3. shrinkat' \in 0 .. n - 1
    BY ShrinkAtRange, <1>4
  <2> QED BY <1>1, <2>1, <2>2, <2>3 DEF TypeOK, IsTable
<1>6. LoopInv'
  BY <1>1 DEF LoopInv
<1>7. CallInv'
  BY <1>1, <1>2 DEF CallInv
<1>8. CountInv'
  <2>1. Cardinality(Rest') = 0 /\ Cardinality(Hole') = 0
    BY <1>2, <1>3, FS_EmptySet
  <2>2. count' \in Nat
    BY <1>4, OccupiedFinite
  <2>3. shrinkat' = ShrinkAt(nbuckets')
    OBVIOUS
  <2> QED BY <1>1, <1>2, <1>3, <2>1, <2>2, <2>3 DEF CountInv, ShrinkAt
<1> QED BY <1>3, <1>5, <1>6, <1>7, <1>8 DEF MapInv

(* What a set holds while it looks for a place.                            *)
LEMMA AtPlace ==
  ASSUME MapInv, pc = "place"
  PROVE  /\ ~Tables /\ Hole = {} /\ i \in 0 .. nbuckets - 1 /\ call = "set"
         /\ entry \in Filled /\ entry.item \in Items /\ entry.item.name \in Names
         /\ entry.dib = 1 + Dist(Home(entry.item.name, nbuckets), i, nbuckets)
         /\ Fits(buckets, nbuckets, {}, entry, i)
         /\ \A j \in 0 .. nbuckets - 1 :
              buckets[j].dib > 0 /\ buckets[j].item.name = entry.item.name =>
                Dist(Home(entry.item.name, nbuckets), i, nbuckets)
                  <= Dist(Home(entry.item.name, nbuckets), j, nbuckets)
         /\ count + 1 < nbuckets
<1>1. ~Tables /\ Hole = {}
  BY DEF Tables, Hole
<1>2. Table = buckets /\ Size = nbuckets /\ Used = Occupied(buckets, nbuckets, {})
  BY <1>1, AtBuckets
<1>3. LoopInv /\ CallInv /\ CountInv
  BY DEF MapInv
<1>4. entry \in Filled /\ i \in 0 .. nbuckets - 1 /\ call = "set"
  BY <1>3 DEF LoopInv, CallInv, Slots
<1>5. Fits(buckets, nbuckets, {}, entry, i) /\ NotPassed(entry.item.name)
  BY <1>3 DEF LoopInv
<1>6. entry.item \in Items /\ entry.item.name \in Names
  BY <1>4 DEF Filled, Items
<1>7. \A j \in 0 .. nbuckets - 1 :
        buckets[j].dib > 0 /\ buckets[j].item.name = entry.item.name =>
          Dist(Home(entry.item.name, nbuckets), i, nbuckets)
            <= Dist(Home(entry.item.name, nbuckets), j, nbuckets)
  BY <1>2, <1>5 DEF NotPassed, Occupied
<1>8. count + 1 < nbuckets
  BY <1>2, <1>3 DEF CountInv
<1>9. entry.dib = 1 + Dist(Home(entry.item.name, nbuckets), i, nbuckets)
  BY <1>5 DEF Fits
<1> QED BY <1>1, <1>4, <1>5, <1>6, <1>7, <1>8, <1>9

(* At an empty bucket, or one it may swap with, the name is nowhere else.  *)
LEMMA PlaceIsNew ==
  ASSUME MapInv, pc = "place", buckets[i].dib < entry.dib,
         buckets[i].dib > 0 => buckets[i].item.name # entry.item.name
  PROVE  \A j \in Occupied(buckets, nbuckets, {}) : buckets[j].item.name # entry.item.name
<1> DEFINE n == nbuckets
           at == i
           name == entry.item.name
<1>1. /\ ~Tables /\ Hole = {} /\ at \in 0 .. n - 1 /\ name \in Names
      /\ entry.dib = 1 + Dist(Home(name, n), at, n)
      /\ \A j \in 0 .. n - 1 : buckets[j].dib > 0 /\ buckets[j].item.name = name =>
           Dist(Home(name, n), at, n) <= Dist(Home(name, n), j, n)
  BY AtPlace
<1>2. hash \in [Names -> Nat] /\ n \in Nat \ {0} /\ IsTable(buckets, n) /\ Ordered(buckets, n, {})
  BY <1>1, AtBuckets
<1>3. buckets[at].dib <= Dist(Home(name, n), at, n)
  <2>1. Home(name, n) \in 0 .. n - 1
    BY <1>1, <1>2, HomeRange
  <2>2. Dist(Home(name, n), at, n) \in Nat
    BY <1>1, <1>2, <2>1, DistRange
  <2>3. buckets[at].dib \in Nat
    BY <1>1, <1>2, BucketFilled
  <2> QED BY <1>1, <2>2, <2>3
<1>4. buckets[at].dib > 0 => buckets[at].item.name # name
  OBVIOUS
<1> HIDE DEF n, at, name
<1>5. ASSUME NEW j \in 0 .. n - 1, buckets[j].dib > 0 PROVE buckets[j].item.name # name
  BY <1>1, <1>2, <1>3, <1>4, <1>5, SearchEnds
<1> QED BY <1>5 DEF Occupied, n, name

----------------------------------------------------------------------------

LEMMA PlacePuts ==
  ASSUME MapInv, Place, buckets[i].dib = 0
  PROVE  MapInv'
<1> DEFINE n == nbuckets
           at == i
           P == [buckets EXCEPT ![at] = entry]
<1>1. pc = "place" /\ Returns("set", {}) /\ count' = count + 1 /\ buckets' = P
      /\ UNCHANGED <<nbuckets, growat, shrinkat>>
  BY DEF Place
<1>2. /\ ~Tables /\ Hole = {} /\ at \in 0 .. n - 1 /\ entry \in Filled
      /\ Fits(buckets, n, {}, entry, at) /\ count + 1 < n
  BY <1>1, AtPlace
<1>3. /\ hash \in [Names -> Nat] /\ n \in Nat \ {0} /\ n \in TableSizes /\ IsTable(buckets, n)
      /\ Ordered(buckets, n, {}) /\ Used = Occupied(buckets, n, {})
      /\ \A j, k \in Used : buckets[j].item.name = buckets[k].item.name => j = k
      /\ Cardinality(Used) \in Nat /\ count = Cardinality(Used)
  BY <1>2, AtBuckets, FS_EmptySet
<1>4. entry.dib \in Nat /\ buckets[at].dib < entry.dib
  BY <1>2 DEF Filled
<1>5. \A j \in Occupied(buckets, n, {}) : buckets[j].item.name # entry.item.name
  BY <1>1, <1>4, PlaceIsNew
<1>6. growat' \in 1 .. n - 1 /\ shrinkat' = ShrinkAt(n) /\ cap <= n
  BY <1>1 DEF MapInv, TypeOK, CountInv
<1> HIDE DEF n, at
<1>7. IsTable(P, n)
  BY <1>2, <1>3, StaysTable
<1>8. Ordered(P, n, {})
  BY <1>2, <1>3, <1>4, PutOrdered
<1>9. \A j, k \in Occupied(P, n, {}) : P[j].item.name = P[k].item.name => j = k
  BY <1>2, <1>3, <1>5, PutApart
<1>10. Cardinality(Occupied(P, n, {})) = count + 1
  <2>1. buckets[at].dib = 0
    BY DEF at
  <2>2. Cardinality(Occupied(P, n, {}))
          = Cardinality(Occupied(buckets, n, {})) + (IF buckets[at].dib = 0 THEN 1 ELSE 0)
    BY <1>2, <1>3, OccupiedPut
  <2> QED BY <1>3, <2>1, <2>2
<1> HIDE DEF P
<1>11. nbuckets' = n /\ count' = Cardinality(Occupied(P, n, {})) /\ count' < n
  BY <1>1, <1>2, <1>10 DEF n
<1> QED BY <1>1, <1>3, <1>6, <1>7, <1>8, <1>9, <1>11, ReturnsKeeps

LEMMA PlaceReplaces ==
  ASSUME MapInv, Place, buckets[i].dib > 0, SameName(entry.item.name, buckets[i].item.name)
  PROVE  MapInv'
<1> DEFINE n == nbuckets
           at == i
           b == [buckets[at] EXCEPT !.item = entry.item]
           P == [buckets EXCEPT ![at] = b]
<1>1. pc = "place" /\ Returns("set", {buckets[i].item}) /\ UNCHANGED <<count, nbuckets, growat, shrinkat>>
      /\ buckets' = [buckets EXCEPT ![at].item = entry.item]
  BY DEF Place
<1>2. ~Tables /\ Hole = {} /\ at \in 0 .. n - 1 /\ entry.item \in Items /\ count + 1 < n
  BY <1>1, AtPlace
<1>3. /\ hash \in [Names -> Nat] /\ n \in Nat \ {0} /\ n \in TableSizes /\ IsTable(buckets, n)
      /\ Ordered(buckets, n, {}) /\ Used = Occupied(buckets, n, {})
      /\ \A j, k \in Used : buckets[j].item.name = buckets[k].item.name => j = k
      /\ Cardinality(Used) \in Nat /\ count = Cardinality(Used)
  BY <1>2, AtBuckets, FS_EmptySet
<1>4. entry.item.name = buckets[at].item.name /\ buckets[at].dib > 0
  BY DEF SameName
<1>5. growat' \in 1 .. n - 1 /\ shrinkat' = ShrinkAt(n) /\ cap <= n
  BY <1>1 DEF MapInv, TypeOK, CountInv
<1> HIDE DEF n, at
<1>6. buckets' = P /\ b \in Filled /\ Ordered(P, n, {})
  BY <1>1, <1>2, <1>3, <1>4, ValueReplaced
<1>7. b.item.name = buckets[at].item.name
  <2>1. buckets[at] \in Filled
    BY <1>2, <1>3, <1>4, BucketFilled
  <2>2. b.item = entry.item
    BY <2>1 DEF Filled
  <2> QED BY <1>4, <2>2
<1> HIDE DEF b
<1>8. IsTable(P, n)
  BY <1>2, <1>3, <1>6, StaysTable
<1>9. at \in Occupied(buckets, n, {})
  BY <1>2, <1>4 DEF Occupied
<1>10. \A j \in Occupied(buckets, n, {}) \ {at} : buckets[j].item.name # b.item.name
  BY <1>3, <1>7, <1>9
<1>11. \A j, k \in Occupied(P, n, {}) : P[j].item.name = P[k].item.name => j = k
  BY <1>2, <1>3, <1>6, <1>10, PutApart
<1>12. Cardinality(Occupied(P, n, {})) = count
  <2>1. buckets[at].dib # 0
    BY <1>4
  <2>2. Cardinality(Occupied(P, n, {}))
          = Cardinality(Occupied(buckets, n, {})) + (IF buckets[at].dib = 0 THEN 1 ELSE 0)
    BY <1>2, <1>3, <1>6, OccupiedPut
  <2> QED BY <1>3, <2>1, <2>2
<1> HIDE DEF P
<1>13. nbuckets' = n /\ count' = Cardinality(Occupied(P, n, {})) /\ count' < n
  BY <1>1, <1>2, <1>3, <1>12 DEF n
<1> QED BY <1>1, <1>3, <1>5, <1>6, <1>8, <1>11, <1>13, ReturnsKeeps

(* A turn of the loop of a set that goes on, with T in the table and c in  *)
(* hand.                                                                   *)
LEMMA PlaceGoesOn ==
  ASSUME MapInv, pc = "place", Goes("place", After(i, nbuckets)), UNCHANGED <<count, resizeVars>>,
         NEW T, NEW c \in Filled, buckets' = T, entry' = c,
         IsTable(T, nbuckets), Ordered(T, nbuckets, {}),
         \A j, k \in Occupied(T, nbuckets, {}) : T[j].item.name = T[k].item.name => j = k,
         Cardinality(Occupied(T, nbuckets, {})) = Cardinality(Occupied(buckets, nbuckets, {})),
         Fits(T, nbuckets, {}, c, After(i, nbuckets)),
         \A j \in Occupied(T, nbuckets, {}) : T[j].item.name = c.item.name =>
           Dist(Home(c.item.name, nbuckets), After(i, nbuckets), nbuckets)
             <= Dist(Home(c.item.name, nbuckets), j, nbuckets)
  PROVE  MapInv'
<1>1. /\ pc' = "place" /\ i' = After(i, nbuckets)
      /\ UNCHANGED <<hash, call, cap, nbuckets, growat, shrinkat, loadfactor, count, newBuckets, source>>
  BY DEF Goes, sizeVars, resizeVars
<1>2. ~Tables' /\ Hole' = {}
  BY <1>1 DEF Tables, Hole
<1>3. ~Tables /\ Hole = {} /\ i \in 0 .. nbuckets - 1 /\ count + 1 < nbuckets /\ call = "set"
  BY AtPlace
<1>4. nbuckets \in Nat \ {0} /\ Size = nbuckets /\ Rest = {} /\ Used = Occupied(buckets, nbuckets, {})
  BY <1>3, AtBuckets
<1>5. Table' = T /\ Size' = nbuckets /\ Rest' = {} /\ Used' = Occupied(T, nbuckets, {}) /\ TableInv'
  BY <1>1, <1>2, BucketsNext
<1>6. i' \in 0 .. nbuckets - 1
  BY <1>1, <1>3, <1>4 DEF After
<1>7. TypeOK'
  <2>1. TypeOK
    BY DEF MapInv
  <2>2. IsTable(newBuckets, NewSize)'
    BY <1>1, <2>1, ScratchNext
  <2> QED BY <1>1, <1>6, <2>1, <2>2 DEF TypeOK, IsTable
<1>8. LoopInv'
  <2>1. Fits(buckets, nbuckets, {}, entry, i)'
    BY <1>1 DEF Fits, Reached, Home
  <2>2. NotPassed(entry.item.name)'
    BY <1>1, <1>5 DEF NotPassed, Home
  <2> QED BY <1>1, <1>6, <2>1, <2>2 DEF LoopInv, Slots
<1>9. CallInv'
  BY <1>1, <1>2, <1>3 DEF CallInv, MapInv
<1>10. CountInv'
  <2>1. CountInv
    BY DEF MapInv
  <2>2. Cardinality(Used)' = Cardinality(Used) /\ Rest' = Rest /\ Hole' = Hole
    BY <1>2, <1>3, <1>4, <1>5
  <2> QED BY <1>1, <1>2, <1>3, <1>4, <1>5, <2>1, <2>2 DEF CountInv, ShrinkAt
<1> QED BY <1>5, <1>7, <1>8, <1>9, <1>10 DEF MapInv

LEMMA PlaceKeepsOn ==
  ASSUME MapInv, Place, buckets[i].dib > 0, ~SameName(entry.item.name, buckets[i].item.name),
         ~(buckets[i].dib < entry.dib)
  PROVE  MapInv'
<1> DEFINE n == nbuckets
           at == i
           c == [entry EXCEPT !.dib = @ + 1]
<1>1. pc = "place" /\ Goes("place", After(i, nbuckets)) /\ UNCHANGED <<count, resizeVars>>
      /\ buckets' = buckets /\ entry' = c
  BY DEF Place
<1>2. /\ ~Tables /\ Hole = {} /\ at \in 0 .. n - 1 /\ entry \in Filled /\ entry.item.name \in Names
      /\ Fits(buckets, n, {}, entry, at) /\ count + 1 < n
      /\ \A j \in 0 .. n - 1 : buckets[j].dib > 0 /\ buckets[j].item.name = entry.item.name =>
           Dist(Home(entry.item.name, n), at, n) <= Dist(Home(entry.item.name, n), j, n)
  BY <1>1, AtPlace
<1>3. /\ hash \in [Names -> Nat] /\ n \in Nat \ {0} /\ IsTable(buckets, n)
      /\ Ordered(buckets, n, {}) /\ Used = Occupied(buckets, n, {})
      /\ \A j, k \in Used : buckets[j].item.name = buckets[k].item.name => j = k
      /\ Cardinality(Used) \in Nat /\ count = Cardinality(Used)
  BY <1>2, AtBuckets, FS_EmptySet
<1>4. buckets[at].item.name # entry.item.name
  BY DEF SameName
<1>5. c.item = entry.item
  BY <1>2 DEF Filled
<1>6. buckets[at].dib >= entry.dib
  BY <1>2, <1>3, BucketFilled DEF Filled
<1> HIDE DEF n, at
<1>7. \E k \in 0 .. n - 1 : buckets[k].dib = 0
  <2>1. Cardinality(Occupied(buckets, n, {})) < n
    BY <1>2, <1>3
  <2> QED BY <1>3, <2>1, RoomLeft
<1>8. c \in Filled /\ Fits(buckets, n, {}, c, After(at, n))
  BY <1>2, <1>3, <1>6, <1>7, GoesOn
<1> HIDE DEF c
<1>9. ASSUME NEW j \in Occupied(buckets, n, {}), buckets[j].item.name = c.item.name
      PROVE  Dist(Home(c.item.name, n), After(at, n), n) <= Dist(Home(c.item.name, n), j, n)
  <2>1. j \in 0 .. n - 1 /\ buckets[j].dib > 0
    BY DEF Occupied
  <2>2. j # at
    BY <1>4, <1>5, <1>9
  <2>3. Dist(Home(entry.item.name, n), at, n) <= Dist(Home(entry.item.name, n), j, n)
    BY <1>2, <1>5, <1>9, <2>1
  <2>4. Dist(Home(entry.item.name, n), After(at, n), n) <= Dist(Home(entry.item.name, n), j, n)
    BY <1>2, <1>3, <2>1, <2>2, <2>3, SearchGoesOn
  <2> QED BY <1>5, <2>4
<1> QED BY <1>1, <1>3, <1>8, <1>9, PlaceGoesOn DEF n, at

LEMMA PlaceSwaps ==
  ASSUME MapInv, Place, buckets[i].dib > 0, ~SameName(entry.item.name, buckets[i].item.name),
         buckets[i].dib < entry.dib
  PROVE  MapInv'
<1> DEFINE n == nbuckets
           at == i
           here == buckets[at]
           c == [here EXCEPT !.dib = @ + 1]
           P == [buckets EXCEPT ![at] = entry]
<1>1. pc = "place" /\ Goes("place", After(i, nbuckets)) /\ UNCHANGED <<count, resizeVars>>
      /\ buckets' = P /\ entry' = c
  BY DEF Place
<1>2. /\ ~Tables /\ Hole = {} /\ at \in 0 .. n - 1 /\ entry \in Filled
      /\ Fits(buckets, n, {}, entry, at) /\ count + 1 < n
  BY <1>1, AtPlace
<1>3. /\ hash \in [Names -> Nat] /\ n \in Nat \ {0} /\ IsTable(buckets, n)
      /\ Ordered(buckets, n, {}) /\ Used = Occupied(buckets, n, {})
      /\ \A j, k \in Used : buckets[j].item.name = buckets[k].item.name => j = k
      /\ Cardinality(Used) \in Nat /\ count = Cardinality(Used)
  BY <1>2, AtBuckets, FS_EmptySet
<1>4. here.dib > 0 /\ here.dib < entry.dib /\ here.item.name # entry.item.name
  BY DEF SameName
<1>5. \A j \in Occupied(buckets, n, {}) : buckets[j].item.name # entry.item.name
  BY <1>1, <1>4, PlaceIsNew
<1> HIDE DEF n, at
<1>6. here \in Filled
  BY <1>2, <1>3, <1>4, BucketFilled
<1>7. c.item = here.item
  BY <1>6 DEF Filled
<1>8. P[at] = entry /\ \A k \in 0 .. n - 1 : k # at => P[k] = buckets[k]
  BY <1>2, <1>3 DEF IsTable
<1>9. IsTable(P, n)
  BY <1>2, <1>3, StaysTable
<1>10. Ordered(P, n, {})
  BY <1>2, <1>3, <1>4, PutOrdered
<1>11. \A j, k \in Occupied(P, n, {}) : P[j].item.name = P[k].item.name => j = k
  BY <1>2, <1>3, <1>5, PutApart
<1>12. Cardinality(Occupied(P, n, {})) = Cardinality(Occupied(buckets, n, {}))
       /\ Occupied(P, n, {}) = Occupied(buckets, n, {}) \cup {at}
  <2>1. buckets[at].dib # 0
    BY <1>4
  <2>2. Cardinality(Occupied(P, n, {}))
          = Cardinality(Occupied(buckets, n, {})) + (IF buckets[at].dib = 0 THEN 1 ELSE 0)
    BY <1>2, <1>3, OccupiedPut
  <2>3. Occupied(P, n, {}) = Occupied(buckets, n, {}) \cup {at}
    BY <1>2, <1>3, OccupiedPut
  <2>4. Cardinality(Occupied(P, n, {})) = Cardinality(Occupied(buckets, n, {}))
    BY <1>3, <2>1, <2>2
  <2> QED BY <2>3, <2>4
<1>13. at \in Occupied(buckets, n, {})
  BY <1>2, <1>4 DEF Occupied
<1>14. Fits(buckets, n, {}, here, at)
  BY <1>2, <1>3, <1>4 DEF Ordered
<1> HIDE DEF P, here
<1>15. \E k \in 0 .. n - 1 : P[k].dib = 0
  <2>1. Cardinality(Occupied(P, n, {})) < n
    BY <1>2, <1>3, <1>12
  <2> QED BY <1>3, <1>9, <2>1, RoomLeft
<1>16. P[at].dib >= here.dib
  BY <1>2, <1>4, <1>6, <1>8 DEF Filled
<1>17. c \in Filled /\ Fits(P, n, {}, c, After(at, n))
  BY <1>2, <1>3, <1>6, <1>8, <1>9, <1>14, <1>15, <1>16, GoesOn
<1> HIDE DEF c
<1>18. \A j \in Occupied(P, n, {}) : P[j].item.name # c.item.name
  <2> SUFFICES ASSUME NEW j \in Occupied(P, n, {}), P[j].item.name = c.item.name PROVE FALSE
    OBVIOUS
  <2>1. CASE j = at
    BY <1>4, <1>7, <1>8, <2>1
  <2>2. CASE j # at
    <3>1. j \in Occupied(buckets, n, {}) /\ j \in 0 .. n - 1
      BY <1>12, <2>2 DEF Occupied
    <3>2. buckets[j].item.name = here.item.name
      BY <1>7, <1>8, <2>2, <3>1
    <3> QED BY <1>3, <1>13, <2>2, <3>1, <3>2 DEF here
  <2> QED BY <2>1, <2>2
<1> QED BY <1>1, <1>9, <1>10, <1>11, <1>12, <1>17, <1>18, PlaceGoesOn DEF n, at

LEMMA PlaceKeeps ==
  ASSUME MapInv, Place
  PROVE  MapInv'
<1>1. pc = "place"
  BY DEF Place
<1>2. buckets[i].dib \in Nat
  BY <1>1, AtPlace, AtBuckets, BucketFilled
<1>3. CASE buckets[i].dib = 0
  BY <1>3, PlacePuts
<1>4. CASE buckets[i].dib > 0 /\ SameName(entry.item.name, buckets[i].item.name)
  BY <1>4, PlaceReplaces
<1>5. CASE buckets[i].dib > 0 /\ ~SameName(entry.item.name, buckets[i].item.name)
  BY <1>5, PlaceKeepsOn, PlaceSwaps
<1> QED BY <1>2, <1>3, <1>4, <1>5

----------------------------------------------------------------------------

(* The table stays what it is when a call returns without a change to it.  *)
LEMMA ReturnsUnchanged ==
  ASSUME MapInv, ~Tables, Hole = {}, NEW c, NEW result, Returns(c, result),
         UNCHANGED <<buckets, count, nbuckets, growat, shrinkat>>
  PROVE  MapInv'
<1>1. /\ nbuckets \in TableSizes /\ nbuckets \in Nat \ {0} /\ IsTable(buckets, nbuckets)
      /\ Ordered(buckets, nbuckets, {}) /\ Used = Occupied(buckets, nbuckets, {})
      /\ \A j, k \in Used : buckets[j].item.name = buckets[k].item.name => j = k
      /\ Cardinality(Used) \in Nat /\ count = Cardinality(Used) /\ Size = nbuckets
  BY AtBuckets, FS_EmptySet
<1>2. growat' \in 1 .. nbuckets - 1 /\ shrinkat' = ShrinkAt(nbuckets) /\ cap <= nbuckets
  BY DEF MapInv, TypeOK, CountInv
<1>3. count < nbuckets
  BY <1>1 DEF MapInv, CountInv
<1>4. buckets' = buckets /\ nbuckets' = nbuckets /\ count' = Cardinality(Occupied(buckets, nbuckets, {}))
      /\ count' < nbuckets
  BY <1>1, <1>3
<1> QED BY <1>1, <1>2, <1>4, ReturnsKeeps

(* The new table is large enough for what the old one holds.               *)
LEMMA AllocateKeeps ==
  ASSUME MapInv, Allocate
  PROVE  MapInv'
<1> DEFINE wanted == IF pc = "grow" THEN nbuckets * GrowFactor ELSE nbuckets \div 2
<1>1. pc \in {"grow", "shrink"} /\ ~Tables /\ Hole = {}
  BY DEF Allocate, Tables, Hole
<1>2. /\ nbuckets \in TableSizes /\ nbuckets \in Nat \ {0} /\ nbuckets > 1 /\ IsTable(buckets, nbuckets)
      /\ Ordered(buckets, nbuckets, {}) /\ Used = Occupied(buckets, nbuckets, {})
      /\ \A j, k \in Used : buckets[j].item.name = buckets[k].item.name => j = k
      /\ Cardinality(Used) \in Nat /\ count = Cardinality(Used) /\ Size = nbuckets
  BY <1>1, AtBuckets, FS_EmptySet
<1>3. CASE \E c \in {"oom", "delete"} : \E result : Returns(c, result) /\
             UNCHANGED <<buckets, count, nbuckets, growat, shrinkat>>
  BY <1>1, <1>3, ReturnsUnchanged
<1>4. ASSUME NEW size \in NewCap(wanted), newBuckets' = [j \in 0 .. size - 1 |-> Empty],
             source' = 0, Goes("rehash", i), UNCHANGED <<buckets, count, entry>>
      PROVE  MapInv'
  <2> DEFINE T == [j \in 0 .. size - 1 |-> Empty]
             R == Occupied(buckets, nbuckets, {})
  <2>1. size \in TableSizes /\ wanted <= size
    BY <1>4, NewCapRange
  <2>2. size \in Nat \ {0} /\ size > 1
    BY <2>1, SizeRange
  <2>3. /\ DOMAIN T = 0 .. size - 1 /\ Cardinality(DOMAIN T) = size /\ IsTable(T, size)
        /\ Ordered(T, size, {}) /\ Occupied(T, size, {}) = {}
    BY <2>2, EmptyTable
  <2>4. /\ pc' = "rehash" /\ i' = i /\ newBuckets' = T
        /\ UNCHANGED <<hash, call, cap, nbuckets, growat, shrinkat, loadfactor>>
    BY <1>4 DEF Goes, sizeVars
  <2>5. Tables' /\ Hole' = {}
    BY <2>4 DEF Tables, Hole
  <2> HIDE DEF T
  <2>6. NewSize' = size
    BY <2>3, <2>4 DEF NewSize
  <2>7. Occupied(buckets, nbuckets', 0 .. source' - 1) = R
    <3>1. 0 .. source' - 1 = {}
      BY <1>4
    <3> QED BY <2>4, <3>1
  <2> HIDE DEF R
  <2>8. Table' = T /\ Size' = size /\ Rest' = R /\ Used' = {} /\ TableInv'
    <3>1. \A j, k \in R : buckets[j].item.name = buckets[k].item.name => j = k
      BY <1>2 DEF R
    <3>2. buckets' = buckets
      BY <1>4
    <3> QED BY <2>3, <2>4, <2>5, <2>6, <2>7, <3>1, <3>2, NewBucketsNext
  <2>9. TypeOK'
    <3>1. TypeOK
      BY DEF MapInv
    <3>2. IsTable(newBuckets, NewSize)'
      BY <2>3, <2>4, <2>6 DEF IsTable
    <3> QED BY <1>4, <2>4, <3>1, <3>2 DEF TypeOK, IsTable
  <2>10. count < size /\ (call = "set" => count + 1 < size) /\ cap <= size
    <3>1. CASE pc = "grow"
      <4>1. nbuckets * GrowFactor >= 2 * nbuckets
        <5>1. GrowFactor \in Nat /\ GrowFactor >= 2
          BY DEF HeaderMapAssumption
        <5> QED BY <1>2, <5>1
      <4>2. wanted = nbuckets * GrowFactor /\ nbuckets * GrowFactor \in Nat
        BY <1>2, <3>1 DEF HeaderMapAssumption
      <4>3. count < nbuckets /\ cap \in Nat /\ cap <= nbuckets
        BY <1>2, SizeRange DEF MapInv, CountInv, TypeOK
      <4> HIDE DEF wanted
      <4> QED BY <1>2, <2>1, <2>2, <4>1, <4>2, <4>3
    <3>2. CASE pc = "shrink"
      <4>1. cap \in TableSizes /\ cap < nbuckets /\ count <= ShrinkAt(nbuckets) /\ call = "delete"
        BY <3>2 DEF MapInv, CountInv, CallInv, TypeOK
      <4>2. cap \in Nat /\ 2 * cap <= nbuckets
        BY <1>2, <4>1, SizeRange DEF HeaderMapAssumption
      <4>3. ShrinkAt(nbuckets) \in Nat /\ ShrinkAt(nbuckets) < nbuckets \div 2
        BY <1>2, ShrinkAtRange
      <4>4. wanted = nbuckets \div 2 /\ cap <= nbuckets \div 2 /\ nbuckets \div 2 \in Nat
        BY <1>2, <3>2, <4>2
      <4> HIDE DEF wanted
      <4> QED BY <1>2, <2>1, <2>2, <4>1, <4>2, <4>3, <4>4
    <3> QED BY <1>1, <3>1, <3>2
  <2>11. LoopInv'
    BY <2>4 DEF LoopInv
  <2>12. CallInv'
    <3>1. call \in {"set", "delete"} /\ entry \in Filled /\ (call = "set" => entry.dib = 1)
      BY <1>1 DEF MapInv, CallInv
    <3>2. source' = 0 /\ entry' = entry /\ 0 <= nbuckets
      BY <1>2, <1>4
    <3>3. DOMAIN newBuckets' = 0 .. NewSize' - 1 /\ NewSize' \in TableSizes /\ cap' <= NewSize'
      BY <2>1, <2>3, <2>4, <2>6, <2>10
    <3> QED BY <2>4, <2>5, <3>1, <3>2, <3>3 DEF CallInv
  <2>13. CountInv'
    <3>1. Cardinality(Used') = 0 /\ Cardinality(Hole') = 0
      BY <2>5, <2>8, FS_EmptySet
    <3>2. Cardinality(Rest') = count
      BY <1>2, <2>8 DEF R
    <3>3. count' = count /\ count \in Nat
      BY <1>2, <1>4
    <3>4. shrinkat' = ShrinkAt(nbuckets')
      BY <2>4 DEF MapInv, CountInv
    <3> QED BY <2>4, <2>8, <2>10, <3>1, <3>2, <3>3, <3>4 DEF CountInv, ShrinkAt
  <2> QED BY <2>8, <2>9, <2>11, <2>12, <2>13 DEF MapInv
<1> QED BY <1>3, <1>4 DEF Allocate

----------------------------------------------------------------------------

(* The items that wait in the old table.                                   *)
LEMMA RestAdvances ==
  ASSUME NEW B, NEW n \in Nat \ {0}, IsTable(B, n), NEW src \in 0 .. n - 1
  PROVE  /\ Occupied(B, n, 0 .. (src + 1) - 1) = Occupied(B, n, 0 .. src - 1) \ {src}
         /\ src \in Occupied(B, n, 0 .. src - 1) <=> B[src].dib > 0
         /\ Cardinality(Occupied(B, n, 0 .. (src + 1) - 1))
              = Cardinality(Occupied(B, n, 0 .. src - 1)) - (IF B[src].dib > 0 THEN 1 ELSE 0)
<1> DEFINE R == Occupied(B, n, 0 .. src - 1)
           Q == Occupied(B, n, 0 .. (src + 1) - 1)
<1>1. Q = R \ {src}
  BY DEF Occupied
<1>2. src \in R <=> B[src].dib > 0
  BY DEF Occupied
<1>3. IsFiniteSet(R) /\ Cardinality(R) \in Nat
  BY OccupiedFinite
<1> HIDE DEF R, Q
<1>4. Cardinality(R \ {src}) = IF src \in R THEN Cardinality(R) - 1 ELSE Cardinality(R)
  BY <1>3, FS_RemoveElement
<1>5. Cardinality(Q) = Cardinality(R \ {src})
  BY ONLY <1>1, Zenon
<1>6. Cardinality(Q) = Cardinality(R) - (IF B[src].dib > 0 THEN 1 ELSE 0)
  BY <1>2, <1>3, <1>4, <1>5
<1> QED BY <1>1, <1>2, <1>6 DEF R, Q

LEMMA RestReplaced ==
  ASSUME NEW B, NEW n \in Nat \ {0}, IsTable(B, n), NEW src \in 0 .. n - 1, B[src].dib > 0,
         NEW b \in Filled
  PROVE  /\ [B EXCEPT ![src] = b][src] = b
         /\ \A k \in 0 .. n - 1 : k # src => [B EXCEPT ![src] = b][k] = B[k]
         /\ Occupied([B EXCEPT ![src] = b], n, 0 .. src - 1) = Occupied(B, n, 0 .. src - 1)
         /\ src \in Occupied(B, n, 0 .. src - 1)
<1> DEFINE P == [B EXCEPT ![src] = b]
<1>1. P[src] = b
  BY DEF IsTable
<1>2. \A k \in 0 .. n - 1 : k # src => P[k] = B[k]
  BY DEF IsTable
<1>3. b.dib > 0
  BY DEF Filled
<1> HIDE DEF P
<1>4. Occupied(P, n, 0 .. src - 1) = Occupied(B, n, 0 .. src - 1)
  BY <1>1, <1>2, <1>3 DEF Occupied
<1>5. src \in Occupied(B, n, 0 .. src - 1)
  BY DEF Occupied
<1> QED BY <1>1, <1>2, <1>4, <1>5 DEF P

(* A step of resize0, with T in the new table and B in the old one.        *)
LEMMA ResizeKeeps ==
  ASSUME MapInv, Tables, Tables', UNCHANGED <<hash, call, sizeVars, count, entry>>,
         NEW T, newBuckets' = T, DOMAIN T = DOMAIN newBuckets,
         IsTable(T, NewSize), Ordered(T, NewSize, {}),
         NEW B, buckets' = B, IsTable(B, nbuckets), source' \in 0 .. nbuckets, i' \in Nat,
         NEW R, R = Occupied(B, nbuckets, 0 .. source' - 1),
         \A j, k \in Occupied(T, NewSize, {}) : T[j].item.name = T[k].item.name => j = k,
         \A j, k \in R : B[j].item.name = B[k].item.name => j = k,
         \A j \in Occupied(T, NewSize, {}), k \in R : T[j].item.name # B[k].item.name,
         Cardinality(Occupied(T, NewSize, {})) + Cardinality(R)
           = Cardinality(Occupied(newBuckets, NewSize, {}))
               + Cardinality(Occupied(buckets, nbuckets, 0 .. source - 1)),
         pc' = "carry" => /\ i' < NewSize /\ source' < nbuckets /\ B[source'].dib > 0
                          /\ Fits(T, NewSize, {}, B[source'], i')
  PROVE  MapInv'
<1>1. UNCHANGED <<hash, call, cap, nbuckets, growat, shrinkat, loadfactor, count, entry>>
  BY DEF sizeVars
<1>2. NewSize' = NewSize
  BY DEF NewSize
<1>3. /\ nbuckets \in Nat \ {0} /\ NewSize \in TableSizes /\ DOMAIN newBuckets = 0 .. NewSize - 1
      /\ Used = Occupied(newBuckets, NewSize, {}) /\ Rest = Occupied(buckets, nbuckets, 0 .. source - 1)
      /\ count = Cardinality(Used) + Cardinality(Rest) /\ Size = NewSize
      /\ Cardinality(Used) \in Nat /\ Cardinality(Rest) \in Nat
  BY AtNewBuckets
<1>4. R = Occupied(B, nbuckets', 0 .. source' - 1)
  BY <1>1
<1>5. /\ Table' = T /\ Size' = NewSize /\ Hole' = {} /\ Rest' = R
      /\ Used' = Occupied(T, NewSize, {}) /\ TableInv'
  BY <1>1, <1>2, <1>4, NewBucketsNext
<1>6. TypeOK'
  <2>1. TypeOK
    BY DEF MapInv
  <2>2. IsTable(newBuckets, NewSize)'
    BY <1>2 DEF IsTable
  <2>3. source' \in Nat
    BY <1>3
  <2> QED BY <1>1, <2>1, <2>2, <2>3 DEF TypeOK, IsTable
<1>7. LoopInv'
  <2>1. pc' \in {"rehash", "carry"}
    BY DEF Tables
  <2>2. pc' = "carry" => Fits(newBuckets, NewSize, {}, buckets[source], i)'
    BY <1>1, <1>2 DEF Fits, Reached, Home
  <2> QED BY <1>1, <1>2, <2>1, <2>2 DEF LoopInv
<1>8. CallInv'
  <2>1. pc \in {"rehash", "carry"} /\ pc' \in {"rehash", "carry"}
    BY DEF Tables
  <2>2. CallInv
    BY DEF MapInv
  <2>3. entry' \in Filled /\ (call' = "set" => entry'.dib = 1) /\ call' \in {"set", "delete"}
    BY <1>1, <2>1, <2>2 DEF CallInv
  <2>4. NewSize' \in TableSizes /\ DOMAIN newBuckets' = 0 .. NewSize' - 1 /\ cap' <= NewSize'
    BY <1>1, <1>2, <1>3, <2>2 DEF CallInv
  <2>5. source' <= nbuckets'
    BY <1>1, <1>3
  <2> QED BY <2>1, <2>3, <2>4, <2>5 DEF CallInv
<1>9. CountInv'
  <2>1. pc \in {"rehash", "carry"} /\ pc' \in {"rehash", "carry"}
    BY DEF Tables
  <2>2. Cardinality(Hole') = 0 /\ count' = Cardinality(Used') + Cardinality(Rest') /\ count' \in Nat
    BY <1>1, <1>3, <1>5, FS_EmptySet
  <2>3. count' + (IF call' = "set" THEN 1 ELSE 0) < Size'
    BY <1>1, <1>3, <1>5, <2>1 DEF MapInv, CountInv
  <2>4. count' = Cardinality(Used') + Cardinality(Rest') + Cardinality(Hole')
    BY <2>2
  <2>5. shrinkat' = ShrinkAt(nbuckets')
    BY <1>1 DEF MapInv, CountInv
  <2> QED BY <2>1, <2>3, <2>4, <2>5 DEF CountInv, ShrinkAt
<1> QED BY <1>5, <1>6, <1>7, <1>8, <1>9 DEF MapInv

LEMMA RehashKeeps ==
  ASSUME MapInv, Rehash
  PROVE  MapInv'
<1> DEFINE n == nbuckets
           src == source
           R == Occupied(buckets, n, 0 .. src - 1)
           name == buckets[src].item.name
<1>1. /\ pc = "rehash" /\ src < n /\ Tables /\ newBuckets' = newBuckets
      /\ UNCHANGED <<hash, call, sizeVars, count, entry>>
  BY DEF Rehash, Goes, Tables
<1>2. /\ hash \in [Names -> Nat]
      /\ n \in Nat \ {0} /\ IsTable(buckets, n) /\ src \in 0 .. n - 1
      /\ NewSize \in Nat \ {0} /\ IsTable(newBuckets, NewSize) /\ Ordered(newBuckets, NewSize, {})
      /\ Used = Occupied(newBuckets, NewSize, {}) /\ Rest = R
      /\ \A j, k \in Used : newBuckets[j].item.name = newBuckets[k].item.name => j = k
      /\ \A j, k \in R : buckets[j].item.name = buckets[k].item.name => j = k
      /\ \A j \in Used, k \in R : newBuckets[j].item.name # buckets[k].item.name
      /\ Cardinality(R) \in Nat
  BY <1>1, AtNewBuckets
<1>3. i \in Nat
  BY DEF MapInv, TypeOK
<1>4. CASE buckets[src].dib = 0
  <2>1. source' = src + 1 /\ Goes("rehash", i) /\ buckets' = buckets
    BY <1>4 DEF Rehash
  <2>2. pc' = "rehash" /\ i' = i /\ Tables'
    BY <2>1 DEF Goes, Tables
  <2> DEFINE Q == Occupied(buckets, n, 0 .. (src + 1) - 1)
  <2>3. Q = R \ {src} /\ (src \in R <=> buckets[src].dib > 0)
    BY <1>2, RestAdvances
  <2> HIDE DEF Q, R
  <2>4. Q = R
    BY <1>4, <2>3
  <2>5. Q = Occupied(buckets, n, 0 .. source' - 1)
    BY <2>1 DEF Q
  <2>6. source' \in 0 .. n
    BY <1>2, <2>1
  <2> HIDE DEF n, src, name
  <2> QED BY <1>1, <1>2, <1>3, <2>1, <2>2, <2>4, <2>5, <2>6, ResizeKeeps DEF n, src, R
<1>5. CASE buckets[src].dib > 0
  <2> DEFINE b == [buckets[src] EXCEPT !.dib = 1]
             B == [buckets EXCEPT ![src] = b]
  <2>1. /\ buckets' = [buckets EXCEPT ![src].dib = 1] /\ source' = src
        /\ Goes("carry", Home(name, NewSize))
    BY <1>5 DEF Rehash
  <2>2. pc' = "carry" /\ i' = Home(name, NewSize) /\ Tables'
    BY <2>1 DEF Goes, Tables
  <2>3. buckets[src] \in Filled /\ name \in Names
    BY <1>2, <1>5, BucketFilled
  <2>4. b \in Filled /\ b.dib = 1 /\ b.item = buckets[src].item
    BY <2>3 DEF Filled
  <2>5. buckets' = B
    BY <2>1
  <2>6. i' \in Nat /\ i' < NewSize /\ Fits(newBuckets, NewSize, {}, b, i')
    <3>1. b.item.name = name
      BY <2>4
    <3>2. Home(name, NewSize) \in 0 .. NewSize - 1
      BY <1>2, <2>3, FitsHome
    <3> HIDE DEF name, b
    <3>3. Fits(newBuckets, NewSize, {}, b, Home(name, NewSize))
      BY <1>2, <2>3, <2>4, <3>1, FitsHome
    <3>4. i' = Home(name, NewSize)
      BY <2>2
    <3> QED BY <1>2, <3>2, <3>3, <3>4
  <2> HIDE DEF b, name
  <2>7. B[src] = b /\ (\A k \in 0 .. n - 1 : k # src => B[k] = buckets[k])
        /\ Occupied(B, n, 0 .. src - 1) = R
    BY <1>2, <1>5, <2>4, RestReplaced
  <2>8. IsTable(B, n)
    BY <1>2, <2>4, StaysTable
  <2> HIDE DEF B
  <2>9. \A k \in R : B[k].item = buckets[k].item
    BY <2>4, <2>7 DEF Occupied
  <2>10. R = Occupied(B, n, 0 .. source' - 1) /\ source' \in 0 .. n /\ source' < n /\ B[source'] = b
         /\ b.dib > 0
    BY <1>2, <2>1, <2>4, <2>7
  <2>11. /\ \A j, k \in R : B[j].item.name = B[k].item.name => j = k
         /\ \A j \in Used, k \in R : newBuckets[j].item.name # B[k].item.name
    <3> HIDE DEF R
    <3>1. /\ \A j, k \in R : buckets[j].item.name = buckets[k].item.name => j = k
          /\ \A j \in Used, k \in R : newBuckets[j].item.name # buckets[k].item.name
      BY <1>2
    <3> QED BY ONLY <2>9, <3>1
  <2> HIDE DEF R
  <2> QED BY <1>1, <1>2, <2>2, <2>5, <2>6, <2>8, <2>10, <2>11, ResizeKeeps DEF n, src, R
<1> QED BY <1>2, <1>4, <1>5, BucketFilled

----------------------------------------------------------------------------

(* What resize0 holds while it looks for a place.                          *)
LEMMA AtCarry ==
  ASSUME MapInv, pc = "carry"
  PROVE  /\ Tables /\ i \in 0 .. NewSize - 1 /\ source \in 0 .. nbuckets - 1
         /\ buckets[source].dib > 0 /\ buckets[source] \in Filled
         /\ source \in Occupied(buckets, nbuckets, 0 .. source - 1)
         /\ Fits(newBuckets, NewSize, {}, buckets[source], i)
         /\ Cardinality(Occupied(newBuckets, NewSize, {})) < NewSize
<1>1. Tables
  BY DEF Tables
<1>2. /\ nbuckets \in Nat \ {0} /\ IsTable(buckets, nbuckets) /\ NewSize \in Nat \ {0} /\ Size = NewSize
      /\ Rest = Occupied(buckets, nbuckets, 0 .. source - 1)
      /\ Used = Occupied(newBuckets, NewSize, {})
      /\ Cardinality(Used) \in Nat /\ Cardinality(Rest) \in Nat
      /\ count = Cardinality(Used) + Cardinality(Rest) /\ source \in 0 .. nbuckets
  BY <1>1, AtNewBuckets
<1>3. i < NewSize /\ source < nbuckets /\ buckets[source].dib > 0
      /\ Fits(newBuckets, NewSize, {}, buckets[source], i)
  BY DEF MapInv, LoopInv
<1>4. i \in 0 .. NewSize - 1 /\ source \in 0 .. nbuckets - 1
  BY <1>2, <1>3 DEF MapInv, TypeOK
<1>5. buckets[source] \in Filled
  BY <1>2, <1>3, <1>4, BucketFilled
<1>6. source \in Occupied(buckets, nbuckets, 0 .. source - 1)
  BY <1>2, <1>3, <1>4 DEF Occupied
<1>7. Cardinality(Used) < NewSize
  <2>1. count < NewSize
    BY <1>2 DEF MapInv, CountInv
  <2> QED BY <1>2, <2>1
<1> QED BY <1>1, <1>2, <1>3, <1>4, <1>5, <1>6, <1>7

LEMMA CarryPuts ==
  ASSUME MapInv, Carry, newBuckets[i].dib = 0
  PROVE  MapInv'
<1> DEFINE n == nbuckets
           m == NewSize
           src == source
           at == i
           carried == buckets[src]
           T == [newBuckets EXCEPT ![at] = carried]
           R == Occupied(buckets, n, 0 .. src - 1)
           Q == Occupied(buckets, n, 0 .. (src + 1) - 1)
<1>1. /\ pc = "carry" /\ newBuckets' = T /\ source' = src + 1 /\ Goes("rehash", at)
      /\ buckets' = buckets /\ UNCHANGED <<count, entry>>
  BY DEF Carry
<1>2. /\ Tables /\ at \in 0 .. m - 1 /\ src \in 0 .. n - 1 /\ carried \in Filled /\ src \in R
      /\ carried.dib > 0 /\ Fits(newBuckets, m, {}, carried, at)
  BY <1>1, AtCarry
<1>3. /\ hash \in [Names -> Nat] /\ n \in Nat \ {0} /\ IsTable(buckets, n)
      /\ m \in Nat \ {0} /\ IsTable(newBuckets, m) /\ Ordered(newBuckets, m, {})
      /\ Used = Occupied(newBuckets, m, {}) /\ Rest = R
      /\ \A j, k \in Used : newBuckets[j].item.name = newBuckets[k].item.name => j = k
      /\ \A j, k \in R : buckets[j].item.name = buckets[k].item.name => j = k
      /\ \A j \in Used, k \in R : newBuckets[j].item.name # buckets[k].item.name
      /\ Cardinality(Used) \in Nat /\ Cardinality(R) \in Nat
  BY <1>2, AtNewBuckets
<1>4. pc' = "rehash" /\ i' = at /\ Tables' /\ UNCHANGED <<hash, call, sizeVars, count, entry>>
  BY <1>1 DEF Goes, Tables
<1>5. newBuckets[at].dib < carried.dib /\ newBuckets[at].dib = 0
  BY <1>2
<1> HIDE DEF at
<1>6. T[at] = carried /\ (\A k \in 0 .. m - 1 : k # at => T[k] = newBuckets[k])
      /\ IsTable(T, m) /\ DOMAIN T = DOMAIN newBuckets
  BY <1>2, <1>3, StaysTable
<1>7. Ordered(T, m, {})
  BY <1>2, <1>3, <1>5, PutOrdered
<1>8. \A j, k \in Occupied(T, m, {}) : T[j].item.name = T[k].item.name => j = k
  <2>1. \A j \in Occupied(newBuckets, m, {}) \ {at} : newBuckets[j].item.name # carried.item.name
    BY <1>2, <1>3
  <2> QED BY <1>2, <1>3, <2>1, PutApart
<1>9. /\ Occupied(T, m, {}) = Occupied(newBuckets, m, {}) \cup {at}
      /\ Cardinality(Occupied(T, m, {}))
           = Cardinality(Occupied(newBuckets, m, {})) + (IF newBuckets[at].dib = 0 THEN 1 ELSE 0)
  BY <1>2, <1>3, OccupiedPut
<1>10. /\ Q = R \ {src}
       /\ Cardinality(Q) = Cardinality(R) - (IF buckets[src].dib > 0 THEN 1 ELSE 0)
  BY <1>2, <1>3, RestAdvances
<1> HIDE DEF T, R, Q
<1>11. Cardinality(Occupied(T, m, {})) + Cardinality(Q)
         = Cardinality(Occupied(newBuckets, m, {})) + Cardinality(R)
  <2>1. Cardinality(Occupied(newBuckets, m, {})) \in Nat
    BY <1>3
  <2>2. Cardinality(Occupied(T, m, {})) = Cardinality(Occupied(newBuckets, m, {})) + 1
    BY <1>5, <1>9
  <2>3. Cardinality(Q) = Cardinality(R) - 1
    BY <1>2, <1>10
  <2> QED BY <1>3, <2>1, <2>2, <2>3
<1>12. \A j, k \in Q : buckets[j].item.name = buckets[k].item.name => j = k
  BY <1>3, <1>10
<1>13. \A j \in Occupied(T, m, {}), k \in Q : T[j].item.name # buckets[k].item.name
  <2> SUFFICES ASSUME NEW j \in Occupied(T, m, {}), NEW k \in Q
               PROVE  T[j].item.name # buckets[k].item.name
    OBVIOUS
  <2>1. k \in R /\ k # src
    BY <1>10
  <2>2. CASE j = at
    BY <1>2, <1>3, <1>6, <2>1, <2>2
  <2>3. CASE j # at
    <3>1. j \in Used /\ T[j] = newBuckets[j]
      BY <1>3, <1>6, <1>9, <2>3 DEF Occupied
    <3> QED BY <1>3, <2>1, <3>1
  <2> QED BY <2>2, <2>3
<1>14. Q = Occupied(buckets, n, 0 .. source' - 1) /\ source' \in 0 .. n /\ i' \in Nat
  BY <1>1, <1>2, <1>3, <1>4 DEF Q
<1>15. newBuckets' = T /\ buckets' = buckets /\ pc' # "carry"
  BY <1>1, <1>4
<1>16. /\ \A j, k \in Occupied(T, m, {}) : T[j].item.name = T[k].item.name => j = k
       /\ Cardinality(Occupied(T, m, {})) + Cardinality(Q)
            = Cardinality(Occupied(newBuckets, m, {}))
                + Cardinality(Occupied(buckets, n, 0 .. source - 1))
  BY <1>8, <1>11 DEF R
<1> QED BY <1>2, <1>3, <1>4, <1>6, <1>7, <1>12, <1>13, <1>14, <1>15, <1>16, ResizeKeeps

(* It goes on, with T in the new table and c in the old one.               *)
LEMMA CarryGoesOn ==
  ASSUME MapInv, Carry, newBuckets[i].dib # 0,
         NEW T, NEW c \in Filled, newBuckets' = T, buckets' = [buckets EXCEPT ![source] = c],
         DOMAIN T = DOMAIN newBuckets, IsTable(T, NewSize), Ordered(T, NewSize, {}),
         Cardinality(Occupied(T, NewSize, {})) = Cardinality(Occupied(newBuckets, NewSize, {})),
         Fits(T, NewSize, {}, c, After(i, NewSize)),
         \A j, k \in Occupied(T, NewSize, {}) : T[j].item.name = T[k].item.name => j = k,
         \A j \in Occupied(T, NewSize, {}) : T[j].item.name # c.item.name,
         \A j \in Occupied(T, NewSize, {}),
            k \in Occupied(buckets, nbuckets, 0 .. source - 1) \ {source} :
              T[j].item.name # buckets[k].item.name,
         \A k \in Occupied(buckets, nbuckets, 0 .. source - 1) \ {source} :
           c.item.name # buckets[k].item.name
  PROVE  MapInv'
<1> DEFINE n == nbuckets
           src == source
           R == Occupied(buckets, n, 0 .. src - 1)
           B == [buckets EXCEPT ![src] = c]
<1>1. /\ pc = "carry" /\ source' = src /\ Goes("carry", After(i, NewSize)) /\ UNCHANGED <<count, entry>>
  BY DEF Carry
<1>2. Tables /\ i \in 0 .. NewSize - 1 /\ src \in 0 .. n - 1 /\ src \in R /\ buckets[src].dib > 0
  BY <1>1, AtCarry
<1>3. /\ n \in Nat \ {0} /\ IsTable(buckets, n) /\ NewSize \in Nat \ {0}
      /\ \A j, k \in R : buckets[j].item.name = buckets[k].item.name => j = k
  BY <1>2, AtNewBuckets
<1>4. pc' = "carry" /\ i' = After(i, NewSize) /\ Tables' /\ UNCHANGED <<hash, call, sizeVars, count, entry>>
  BY <1>1 DEF Goes, Tables
<1>5. B[src] = c /\ (\A k \in 0 .. n - 1 : k # src => B[k] = buckets[k])
      /\ Occupied(B, n, 0 .. src - 1) = R
  <2>1. B[src] = c /\ (\A k \in 0 .. n - 1 : k # src => B[k] = buckets[k])
    BY <1>2, <1>3, RestReplaced
  <2>2. c.dib > 0
    BY DEF Filled
  <2> HIDE DEF B
  <2>3. Occupied(B, n, 0 .. src - 1) = R
    BY <1>2, <2>1, <2>2 DEF Occupied
  <2> QED BY <2>1, <2>3
<1>6. IsTable(B, n)
  BY <1>2, <1>3, StaysTable
<1> HIDE DEF B
<1>7. \A k \in R \ {src} : B[k] = buckets[k]
  BY <1>5 DEF Occupied
<1>8. \A k \in R \ {src} : c.item.name # buckets[k].item.name
  OBVIOUS
<1>9. \A j, k \in R : B[j].item.name = B[k].item.name => j = k
  <2> SUFFICES ASSUME NEW j \in R, NEW k \in R, j # k PROVE B[j].item.name # B[k].item.name
    OBVIOUS
  <2>1. CASE j = src
    BY <1>5, <1>7, <1>8, <2>1
  <2>2. CASE k = src
    BY <1>5, <1>7, <1>8, <2>2
  <2>3. CASE j # src /\ k # src
    BY <1>3, <1>7, <2>3
  <2> QED BY <2>1, <2>2, <2>3
<1>10. \A j \in Occupied(T, NewSize, {}), k \in R : T[j].item.name # B[k].item.name
  BY <1>5, <1>7
<1>11. R = Occupied(B, n, 0 .. source' - 1) /\ source' \in 0 .. n /\ source' < n /\ B[source'] = c
  <2>1. source' = src
    BY <1>1
  <2>2. 0 .. source' - 1 = 0 .. src - 1
    BY <2>1
  <2>3. R = Occupied(B, n, 0 .. source' - 1)
    BY <1>5, <2>2
  <2> QED BY <1>2, <1>3, <1>5, <2>1, <2>3
<1>12. c.dib > 0
  BY DEF Filled
<1>13. i' \in Nat /\ i' < NewSize
  BY <1>2, <1>3, <1>4 DEF After
<1>14. buckets' = B
  BY DEF B
<1>15. Cardinality(Occupied(T, NewSize, {})) + Cardinality(R)
         = Cardinality(Occupied(newBuckets, NewSize, {})) + Cardinality(R)
  OBVIOUS
<1> HIDE DEF R
<1> QED BY <1>2, <1>4, <1>6, <1>9, <1>10, <1>11, <1>12, <1>13, <1>14, <1>15, ResizeKeeps
        DEF R

LEMMA CarryKeeps ==
  ASSUME MapInv, Carry
  PROVE  MapInv'
<1> DEFINE m == NewSize
           at == i
           here == newBuckets[at]
           carried == buckets[source]
           R == Occupied(buckets, nbuckets, 0 .. source - 1)
<1>1. pc = "carry"
  BY DEF Carry
<1>2. /\ Tables /\ at \in 0 .. m - 1 /\ carried \in Filled /\ source \in R
      /\ Fits(newBuckets, m, {}, carried, at) /\ Cardinality(Occupied(newBuckets, m, {})) < m
  BY <1>1, AtCarry
<1>3. /\ hash \in [Names -> Nat]
      /\ m \in Nat \ {0} /\ IsTable(newBuckets, m) /\ Ordered(newBuckets, m, {})
      /\ Used = Occupied(newBuckets, m, {}) /\ Rest = R
      /\ \A j, k \in Used : newBuckets[j].item.name = newBuckets[k].item.name => j = k
      /\ \A j, k \in R : buckets[j].item.name = buckets[k].item.name => j = k
      /\ \A j \in Used, k \in R : newBuckets[j].item.name # buckets[k].item.name
      /\ Cardinality(Used) \in Nat
  BY <1>2, AtNewBuckets
<1>4. CASE here.dib = 0
  BY <1>4, CarryPuts
<1>5. CASE here.dib # 0 /\ ~(here.dib < carried.dib)
  <2> DEFINE c == [carried EXCEPT !.dib = @ + 1]
  <2>1. newBuckets' = newBuckets /\ buckets' = [buckets EXCEPT ![source] = c]
    BY <1>5 DEF Carry
  <2>2. c.item = carried.item
    BY <1>2 DEF Filled
  <2>3. here.dib >= carried.dib
    BY <1>2, <1>3, <1>5, BucketFilled DEF Filled
  <2>4. newBuckets[i].dib # 0
    BY <1>5
  <2> HIDE DEF m, at
  <2>5. \E k \in 0 .. m - 1 : newBuckets[k].dib = 0
    BY <1>2, <1>3, RoomLeft
  <2> HIDE DEF carried
  <2>6. c \in Filled /\ Fits(newBuckets, m, {}, c, After(at, m))
    BY <1>2, <1>3, <2>3, <2>5, GoesOn
  <2> HIDE DEF c
  <2>7. /\ \A j \in Occupied(newBuckets, m, {}) : newBuckets[j].item.name # c.item.name
        /\ \A k \in R \ {source} : c.item.name # buckets[k].item.name
    BY <1>2, <1>3, <2>2 DEF carried
  <2> QED BY <1>3, <2>1, <2>4, <2>6, <2>7, CarryGoesOn DEF m, at
<1>6. CASE here.dib # 0 /\ here.dib < carried.dib
  <2> DEFINE c == [here EXCEPT !.dib = @ + 1]
             T == [newBuckets EXCEPT ![at] = carried]
  <2>1. newBuckets' = T /\ buckets' = [buckets EXCEPT ![source] = c]
    BY <1>6 DEF Carry
  <2>2. here.dib > 0 /\ here \in Filled
    BY <1>2, <1>3, <1>6, BucketFilled
  <2>3. c.item = here.item
    BY <2>2 DEF Filled
  <2>4. newBuckets[i].dib # 0
    BY <1>6
  <2>5. Fits(newBuckets, m, {}, here, at)
    BY <1>2, <1>3, <2>2 DEF Ordered
  <2>6. at \in Occupied(newBuckets, m, {})
    BY <1>2, <2>2 DEF Occupied
  <2> HIDE DEF m, at
  <2>7. T[at] = carried /\ (\A k \in 0 .. m - 1 : k # at => T[k] = newBuckets[k])
        /\ IsTable(T, m) /\ DOMAIN T = DOMAIN newBuckets
    BY <1>2, <1>3, StaysTable
  <2>8. Ordered(T, m, {})
    BY <1>2, <1>3, <1>6, PutOrdered
  <2>9. \A j, k \in Occupied(T, m, {}) : T[j].item.name = T[k].item.name => j = k
    <3>1. \A j \in Occupied(newBuckets, m, {}) \ {at} : newBuckets[j].item.name # carried.item.name
      BY <1>2, <1>3
    <3> QED BY <1>2, <1>3, <3>1, PutApart
  <2>10. Occupied(T, m, {}) = Occupied(newBuckets, m, {})
    <3>1. Occupied(T, m, {}) = Occupied(newBuckets, m, {}) \cup {at}
      BY <1>2, <1>3, OccupiedPut
    <3> QED BY <2>6, <3>1
  <2> HIDE DEF T, here
  <2>11. \E k \in 0 .. m - 1 : T[k].dib = 0
    <3>1. Cardinality(Occupied(T, m, {})) < m
      BY ONLY <1>2, <2>10, Zenon
    <3> QED BY <1>3, <2>7, <3>1, RoomLeft
  <2>12. T[at].dib >= here.dib
    BY <1>2, <1>6, <2>2, <2>7 DEF Filled
  <2>13. c \in Filled /\ Fits(T, m, {}, c, After(at, m))
    BY <1>2, <1>3, <2>2, <2>5, <2>7, <2>11, <2>12, GoesOn
  <2> HIDE DEF c, carried
  <2>14. here.item.name # carried.item.name
    BY <1>2, <1>3, <2>6 DEF here, carried
  <2>15. \A j \in Occupied(T, m, {}) : T[j].item.name # c.item.name
    <3> SUFFICES ASSUME NEW j \in Occupied(newBuckets, m, {}) PROVE T[j].item.name # here.item.name
      BY <2>3, <2>10
    <3>1. CASE j = at
      BY <2>7, <2>14, <3>1
    <3>2. CASE j # at
      <4>1. T[j] = newBuckets[j]
        BY <2>7, <3>2 DEF Occupied
      <4> QED BY <1>3, <2>6, <3>2, <4>1 DEF here
    <3> QED BY <3>1, <3>2
  <2>16. \A j \in Occupied(T, m, {}), k \in R \ {source} : T[j].item.name # buckets[k].item.name
    <3> SUFFICES ASSUME NEW j \in Occupied(newBuckets, m, {}), NEW k \in R \ {source}
                 PROVE  T[j].item.name # buckets[k].item.name
      BY <2>10
    <3>1. CASE j = at
      BY <1>2, <1>3, <2>7, <3>1 DEF carried
    <3>2. CASE j # at
      <4>1. T[j] = newBuckets[j]
        BY <2>7, <3>2 DEF Occupied
      <4> QED BY <1>3, <4>1
    <3> QED BY <3>1, <3>2
  <2>17. \A k \in R \ {source} : c.item.name # buckets[k].item.name
    BY <1>3, <2>3, <2>6 DEF here
  <2>18. Cardinality(Occupied(T, m, {})) = Cardinality(Occupied(newBuckets, m, {}))
    BY ONLY <2>10, Zenon
  <2> QED BY <2>1, <2>4, <2>7, <2>8, <2>9, <2>13, <2>15, <2>16, <2>17, <2>18, CarryGoesOn
          DEF m, at
<1> QED BY <1>4, <1>5, <1>6

----------------------------------------------------------------------------

(* All of the old table has been carried over.                             *)
LEMMA ResizedKeeps ==
  ASSUME MapInv, Resized
  PROVE  MapInv'
<1> DEFINE m == NewSize
<1>1. /\ pc = "rehash" /\ source = nbuckets /\ buckets' = newBuckets /\ nbuckets' = m
      /\ growat' = GrowAt(m, LoadFactor) /\ shrinkat' = ShrinkAt(m) /\ count' = count
  BY DEF Resized
<1>2. Tables
  BY <1>1 DEF Tables
<1>3. /\ hash \in [Names -> Nat]
      /\ m \in TableSizes /\ m \in Nat \ {0} /\ IsTable(newBuckets, m) /\ Ordered(newBuckets, m, {})
      /\ Used = Occupied(newBuckets, m, {}) /\ Size = m
      /\ Rest = Occupied(buckets, nbuckets, 0 .. nbuckets - 1)
      /\ \A j, k \in Used : newBuckets[j].item.name = newBuckets[k].item.name => j = k
      /\ Cardinality(Used) \in Nat /\ count = Cardinality(Used) + Cardinality(Rest)
  BY <1>1, <1>2, AtNewBuckets
<1>4. Cardinality(Rest) = 0
  <2>1. Rest = {}
    BY <1>3 DEF Occupied
  <2> QED BY <2>1, FS_EmptySet
<1>5. count = Cardinality(Occupied(newBuckets, m, {})) /\ count \in Nat
  BY <1>3, <1>4
<1>6. /\ call \in {"set", "delete"} /\ entry \in Filled /\ cap <= m
      /\ call = "set" => entry.dib = 1
  BY <1>1, <1>2 DEF MapInv, CallInv
<1>7. count < m /\ (call = "set" => count + 1 < m)
  BY <1>2, <1>3, <1>5 DEF MapInv, CountInv
<1>8. growat' \in 1 .. m - 1
  BY <1>1, <1>3, GrowAtRange DEF HeaderMapAssumption
<1> HIDE DEF m
<1>9. CASE call = "delete"
  <2>1. Returns("delete", {entry.item})
    BY <1>9 DEF Resized
  <2>2. count' = Cardinality(Occupied(newBuckets, m, {})) /\ count' < m
    BY <1>1, <1>5, <1>7
  <2> QED BY <1>1, <1>3, <1>6, <1>8, <2>1, <2>2, ReturnsKeeps
<1>10. CASE call = "set"
  <2> DEFINE name == entry.item.name
  <2>1. /\ pc' = "place" /\ i' = Home(name, m) /\ newBuckets' = NoBuckets /\ source' = 0
        /\ UNCHANGED <<hash, cap, loadfactor, entry, call>>
    BY <1>10 DEF Resized, m
  <2>2. ~Tables' /\ Hole' = {}
    BY <2>1 DEF Tables, Hole
  <2>3. /\ Table' = newBuckets /\ Size' = m /\ Rest' = {} /\ Used' = Occupied(newBuckets, m, {})
        /\ TableInv'
    BY <1>1, <1>3, <2>1, <2>2, BucketsNext
  <2>4. name \in Names
    BY <1>6 DEF Filled, Items
  <2>5. Home(name, m) \in 0 .. m - 1
    BY <1>3, <2>4, FitsHome
  <2>6. TypeOK'
    <3>1. TypeOK
      BY DEF MapInv
    <3>2. IsTable(newBuckets, NewSize)'
      BY <2>1, <3>1, ScratchNext
    <3>3. shrinkat' \in 0 .. m - 1
      BY <1>1, <1>3, ShrinkAtRange
    <3>4. IsTable(buckets, nbuckets)'
      BY <1>1, <1>3 DEF IsTable
    <3>5. i' \in Nat
      BY <1>3, <2>1, <2>5
    <3> QED BY <1>1, <1>3, <1>6, <1>8, <2>1, <3>1, <3>2, <3>3, <3>4, <3>5 DEF TypeOK
  <2>7. NotPassed(entry.item.name)'
    <3>1. Used' \subseteq 0 .. m - 1
      BY <2>3 DEF Occupied
    <3> QED BY <1>3, <2>1, <2>3, <2>4, <3>1, NotPassedAtHome
  <2>8. Fits(buckets, nbuckets, {}, entry, i)'
    <3>1. Fits(newBuckets, m, {}, entry, Home(name, m))
      BY <1>3, <1>6, <1>10, <2>4, FitsHome
    <3> QED BY <1>1, <2>1, <3>1 DEF Fits, Reached, Home
  <2>9. LoopInv'
    BY <1>1, <2>1, <2>5, <2>7, <2>8 DEF LoopInv, Slots
  <2>10. CallInv'
    BY <1>6, <1>10, <2>1, <2>2 DEF CallInv
  <2>11. CountInv'
    <3>1. Cardinality(Rest') = 0 /\ Cardinality(Hole') = 0
      BY <2>2, <2>3, FS_EmptySet
    <3>2. count' = Cardinality(Used') + Cardinality(Rest') + Cardinality(Hole')
      BY <1>1, <1>5, <2>3, <3>1
    <3>3. count' + 1 < Size'
      BY <1>1, <1>7, <1>10, <2>3
    <3>4. shrinkat' = ShrinkAt(nbuckets')
      BY <1>1
    <3> QED BY <2>1, <3>2, <3>3, <3>4 DEF CountInv, ShrinkAt
  <2> QED BY <2>3, <2>6, <2>9, <2>10, <2>11 DEF MapInv
<1> QED BY <1>6, <1>9, <1>10

----------------------------------------------------------------------------

LEMMA LookOnKeeps ==
  ASSUME MapInv, LookOn
  PROVE  MapInv'
<1> DEFINE n == nbuckets
           at == i
           name == entry.item.name
<1>1. pc \in {"get", "delete"} /\ ~Found /\ UNCHANGED <<buckets, count>>
  BY DEF LookOn, Looks
<1>2. ~Tables /\ Hole = {}
  BY <1>1 DEF Tables, Hole
<1>3. CASE buckets[i].dib = 0
  <2>1. Returns(pc, {}) /\ UNCHANGED <<buckets, count, nbuckets, growat, shrinkat>>
    BY <1>1, <1>3 DEF LookOn
  <2> QED BY <1>2, <2>1, ReturnsUnchanged
<1>4. CASE buckets[i].dib # 0
  <2>1. Goes(pc, After(at, n)) /\ UNCHANGED <<entry, resizeVars>>
    BY <1>4 DEF LookOn
  <2>2. /\ pc' = pc /\ i' = After(at, n)
        /\ UNCHANGED <<hash, call, cap, nbuckets, growat, shrinkat, loadfactor, buckets, count, newBuckets,
                       source, entry>>
    BY <1>1, <2>1 DEF Goes, sizeVars, resizeVars
  <2>3. ~Tables' /\ Hole' = {}
    BY <1>1, <2>2 DEF Tables, Hole
  <2>4. /\ hash \in [Names -> Nat] /\ n \in Nat \ {0} /\ IsTable(buckets, n) /\ Ordered(buckets, n, {})
        /\ Table = buckets /\ Size = n /\ Rest = {} /\ Used = Occupied(buckets, n, {})
        /\ \A j, k \in Used : buckets[j].item.name = buckets[k].item.name => j = k
    BY <1>2, AtBuckets
  <2>5. Table' = buckets /\ Size' = n /\ Rest' = {} /\ Used' = Used /\ TableInv'
    BY <2>2, <2>3, <2>4, BucketsNext
  <2>6. at \in 0 .. n - 1 /\ name \in Names /\ NotPassed(name)
    BY <1>1 DEF MapInv, LoopInv, Slots
  <2>7. i' \in 0 .. n - 1
    BY <2>2, <2>4, <2>6 DEF After
  <2>8. buckets[at].item.name # name
    <3>1. buckets[at].dib > 0
      BY <1>4, <2>4, <2>6, BucketFilled
    <3> QED BY <1>1, <3>1 DEF Found, SameName
  <2>9. NotPassed(entry.item.name)'
    <3>1. Home(entry.item.name, Size)' = Home(name, n)
      BY <2>2, <2>5 DEF Home
    <3> HIDE DEF n, at, name
    <3>2. ASSUME NEW j \in Used, buckets[j].item.name = name
          PROVE  Dist(Home(name, n), After(at, n), n) <= Dist(Home(name, n), j, n)
      <4>1. j \in 0 .. n - 1 /\ j # at
        BY <2>4, <2>8, <3>2 DEF Occupied
      <4>2. Dist(Home(name, n), at, n) <= Dist(Home(name, n), j, n)
        BY <2>4, <2>6, <3>2 DEF NotPassed, at
      <4> QED BY <2>4, <2>6, <4>1, <4>2, SearchGoesOn
    <3>3. \A j \in Used' : Table'[j].item.name = entry'.item.name =>
            Dist(Home(entry.item.name, Size)', i', Size') <= Dist(Home(entry.item.name, Size)', j, Size')
      BY <2>2, <2>5, <3>1, <3>2 DEF name
    <3> QED BY <3>3 DEF NotPassed, Dist
  <2>10. TypeOK'
    <3>1. TypeOK
      BY DEF MapInv
    <3>2. IsTable(newBuckets, NewSize)'
      BY <2>2, <3>1, ScratchNext
    <3> QED BY <2>2, <2>4, <2>7, <3>1, <3>2 DEF TypeOK, IsTable
  <2>11. LoopInv'
    BY <1>1, <2>2, <2>6, <2>7, <2>9 DEF LoopInv, Slots
  <2>12. CallInv'
    BY <1>1, <1>2, <2>2, <2>3 DEF MapInv, CallInv
  <2>13. CountInv'
    BY <1>1, <1>2, <2>2, <2>3, <2>4, <2>5 DEF MapInv, CountInv, ShrinkAt
  <2> QED BY <2>5, <2>10, <2>11, <2>12, <2>13 DEF MapInv
<1> QED BY <1>3, <1>4

LEMMA GetFindsKeeps ==
  ASSUME MapInv, GetFinds
  PROVE  MapInv'
<1>1. Returns("get", {buckets[i].item}) /\ UNCHANGED <<buckets, count, nbuckets, growat, shrinkat>>
  BY DEF GetFinds
<1>2. ~Tables /\ Hole = {}
  BY DEF GetFinds, Tables, Hole
<1> QED BY <1>1, <1>2, ReturnsUnchanged

----------------------------------------------------------------------------

(* A step of a call that goes on, with T in the table.                     *)
LEMMA TableKeeps ==
  ASSUME MapInv, ~Tables, ~Tables', UNCHANGED <<hash, sizeVars, resizeVars>>, i' \in Nat,
         NEW T, NEW hole, buckets' = T, Hole' = hole, IsTable(T, nbuckets), Ordered(T, nbuckets, hole),
         \A j, k \in Occupied(T, nbuckets, hole) : T[j].item.name = T[k].item.name => j = k
  PROVE  /\ TypeOK' /\ TableInv'
         /\ Size' = nbuckets /\ Rest' = {} /\ Used' = Occupied(T, nbuckets, hole)
         /\ UNCHANGED <<hash, cap, nbuckets, growat, shrinkat, loadfactor, newBuckets, source>>
<1>1. UNCHANGED <<hash, cap, nbuckets, growat, shrinkat, loadfactor, newBuckets, source>>
  BY DEF sizeVars, resizeVars
<1>2. Size' = nbuckets /\ Rest' = {} /\ Used' = Occupied(T, nbuckets, hole) /\ TableInv'
  BY <1>1, BucketsNext
<1>3. TypeOK'
  <2>1. TypeOK
    BY DEF MapInv
  <2>2. IsTable(newBuckets, NewSize)'
    BY <1>1, <2>1, ScratchNext
  <2> QED BY <1>1, <2>1, <2>2 DEF TypeOK, IsTable
<1> QED BY <1>1, <1>2, <1>3

LEMMA DeleteFindsKeeps ==
  ASSUME MapInv, DeleteFinds
  PROVE  MapInv'
<1> DEFINE n == nbuckets
           at == i
           T == [buckets EXCEPT ![at] = Empty]
<1>1. /\ pc = "delete" /\ Found /\ entry' = buckets[at] /\ buckets' = T
      /\ pc' = "shift" /\ i' = at /\ count' = count /\ call' = call /\ UNCHANGED <<hash, sizeVars, resizeVars>>
  BY DEF DeleteFinds, Goes
<1>2. ~Tables /\ Hole = {} /\ ~Tables' /\ Hole' = {at}
  BY <1>1 DEF Tables, Hole
<1>3. /\ hash \in [Names -> Nat] /\ n \in Nat \ {0} /\ IsTable(buckets, n) /\ Ordered(buckets, n, {})
      /\ Used = Occupied(buckets, n, {}) /\ Size = n /\ Rest = {}
      /\ \A j, k \in Used : buckets[j].item.name = buckets[k].item.name => j = k
      /\ Cardinality(Used) \in Nat /\ count = Cardinality(Used)
  BY <1>2, AtBuckets, FS_EmptySet
<1>4. at \in 0 .. n - 1 /\ buckets[at].dib > 0
  BY <1>1 DEF MapInv, LoopInv, Slots, Found
<1>5. buckets[at] \in Filled
  BY <1>3, <1>4, BucketFilled
<1> HIDE DEF n, at
<1>6. IsTable(T, n)
  BY <1>3, <1>4, StaysTable
<1>7. T[at] = Empty /\ \A k \in 0 .. n - 1 : k # at => T[k] = buckets[k]
  BY <1>3, <1>4 DEF IsTable
<1>8. Ordered(T, n, {at})
  BY <1>3, <1>4, HoleOpens
<1>9. /\ Occupied(T, n, {at}) = Occupied(buckets, n, {}) \ {at}
      /\ Cardinality(Occupied(T, n, {at})) = Cardinality(Used) - 1
  <2>1. Occupied(T, n, {at}) = Occupied(buckets, n, {at})
    BY <1>3, <1>4, OccupiedHole
  <2>2. Occupied(buckets, n, {at}) = Occupied(buckets, n, {}) \ {at}
    BY <1>3, <1>4, OccupiedHole
  <2>3. Cardinality(Occupied(buckets, n, {at})) = Cardinality(Occupied(buckets, n, {})) - 1
    BY <1>3, <1>4, OccupiedHole
  <2>4. Cardinality(Occupied(T, n, {at})) = Cardinality(Occupied(buckets, n, {at}))
    BY ONLY <2>1, Zenon
  <2>5. Cardinality(Occupied(T, n, {at})) = Cardinality(Used) - 1
    BY <1>3, <2>3, <2>4
  <2>6. Occupied(T, n, {at}) = Occupied(buckets, n, {}) \ {at}
    BY <2>1, <2>2
  <2> QED BY <2>5, <2>6
<1> HIDE DEF T
<1>10. \A j, k \in Occupied(T, n, {at}) : T[j].item.name = T[k].item.name => j = k
  <2>1. \A j \in Occupied(T, n, {at}) : j \in Used /\ T[j] = buckets[j]
    BY <1>3, <1>7, <1>9 DEF Occupied
  <2> QED BY <1>3, <2>1
<1>11. i' \in Nat
  BY <1>1, <1>3, <1>4
<1>12. /\ TypeOK' /\ TableInv' /\ Size' = n /\ Rest' = {} /\ Used' = Occupied(T, n, {at})
       /\ UNCHANGED <<hash, cap, nbuckets, growat, shrinkat, loadfactor, newBuckets, source>>
  BY <1>1, <1>2, <1>6, <1>8, <1>10, <1>11, TableKeeps DEF n
<1>13. LoopInv'
  BY <1>1, <1>4, <1>12 DEF LoopInv, Slots, n
<1>14. call = "delete"
  BY <1>1, <1>2 DEF MapInv, CallInv
<1>15. CallInv'
  BY <1>1, <1>2, <1>5, <1>12, <1>14 DEF CallInv
<1>16. CountInv'
  <2>1. Cardinality(Rest') = 0 /\ Cardinality(Hole') = 1
    BY <1>2, <1>12, FS_EmptySet, FS_Singleton
  <2>2. Cardinality(Used') = Cardinality(Used) - 1
    BY <1>9, <1>12
  <2>3. count' = Cardinality(Used') + Cardinality(Rest') + Cardinality(Hole')
    BY <1>1, <1>3, <2>1, <2>2
  <2>4. count' < Size' /\ count' \in Nat
    BY <1>1, <1>2, <1>3, <1>12 DEF MapInv, CountInv
  <2>5. shrinkat' = ShrinkAt(nbuckets')
    BY <1>12 DEF MapInv, CountInv
  <2> QED BY <1>1, <1>2, <2>3, <2>4, <2>5 DEF CountInv, ShrinkAt
<1> QED BY <1>12, <1>13, <1>15, <1>16 DEF MapInv

(* What a delete knows while it shifts.                                    *)
LEMMA AtShift ==
  ASSUME MapInv, pc = "shift"
  PROVE  /\ ~Tables /\ Hole = {i} /\ i \in 0 .. nbuckets - 1 /\ call = "delete" /\ entry \in Filled
         /\ hash \in [Names -> Nat] /\ nbuckets \in Nat \ {0} /\ nbuckets > 1 /\ nbuckets \in TableSizes
         /\ IsTable(buckets, nbuckets) /\ Ordered(buckets, nbuckets, {i})
         /\ Used = Occupied(buckets, nbuckets, {i}) /\ Size = nbuckets /\ Rest = {}
         /\ \A j, k \in Used : buckets[j].item.name = buckets[k].item.name => j = k
         /\ Cardinality(Used) \in Nat /\ count = Cardinality(Used) + 1 /\ count < nbuckets
         /\ After(i, nbuckets) \in 0 .. nbuckets - 1 /\ After(i, nbuckets) # i
<1>1. ~Tables /\ Hole = {i}
  BY DEF Tables, Hole
<1>2. /\ hash \in [Names -> Nat] /\ nbuckets \in Nat \ {0} /\ nbuckets > 1 /\ nbuckets \in TableSizes
      /\ IsTable(buckets, nbuckets) /\ Ordered(buckets, nbuckets, {i})
      /\ Used = Occupied(buckets, nbuckets, {i}) /\ Size = nbuckets /\ Rest = {}
      /\ \A j, k \in Used : buckets[j].item.name = buckets[k].item.name => j = k
      /\ Cardinality(Used) \in Nat /\ count = Cardinality(Used) + Cardinality({i})
  BY <1>1, AtBuckets
<1>3. count = Cardinality(Used) + 1
  BY <1>2, FS_Singleton
<1>4. i \in 0 .. nbuckets - 1 /\ call = "delete" /\ entry \in Filled
  BY DEF MapInv, LoopInv, CallInv, Slots
<1>5. count < nbuckets
  BY <1>2, <1>3 DEF MapInv, CountInv
<1>6. After(i, nbuckets) \in 0 .. nbuckets - 1 /\ After(i, nbuckets) # i
  BY <1>2, <1>4 DEF After
<1> QED BY <1>1, <1>2, <1>3, <1>4, <1>5, <1>6

LEMMA ShiftMoves ==
  ASSUME MapInv, ShiftBack, buckets[After(i, nbuckets)].dib > 1
  PROVE  MapInv'
<1> DEFINE n == nbuckets
           at == i
           next == After(at, n)
           b == [buckets[next] EXCEPT !.dib = @ - 1]
           T == [buckets EXCEPT ![at] = b]
<1>1. /\ pc = "shift" /\ buckets' = T /\ pc' = "shift" /\ i' = next
      /\ UNCHANGED <<hash, call, sizeVars, resizeVars, count, entry>>
  BY DEF ShiftBack, Goes
<1>2. ~Tables /\ ~Tables' /\ Hole' = {next}
  BY <1>1 DEF Tables, Hole
<1>3. /\ at \in 0 .. n - 1 /\ call = "delete" /\ entry \in Filled
      /\ hash \in [Names -> Nat] /\ n \in Nat \ {0} /\ n > 1
      /\ IsTable(buckets, n) /\ Ordered(buckets, n, {at})
      /\ Used = Occupied(buckets, n, {at}) /\ Size = n /\ Rest = {}
      /\ \A j, k \in Used : buckets[j].item.name = buckets[k].item.name => j = k
      /\ Cardinality(Used) \in Nat /\ count = Cardinality(Used) + 1 /\ count < n
      /\ next \in 0 .. n - 1 /\ next # at
  BY <1>1, AtShift
<1>4. buckets[After(at, n)].dib > 1
  OBVIOUS
<1> HIDE DEF n, at
<1>5. b \in Filled /\ Ordered(T, n, {next})
  BY <1>3, <1>4, HoleMoves
<1> HIDE DEF next
<1>6. buckets[next].dib > 0 /\ buckets[next] \in Filled
  <2>1. buckets[next].dib > 0
    BY <1>3, <1>4, BucketFilled DEF next
  <2> QED BY <1>3, <2>1, BucketFilled
<1>7. b.item = buckets[next].item
  BY <1>6 DEF Filled
<1> HIDE DEF b
<1>8. T[at] = b /\ \A k \in 0 .. n - 1 : k # at => T[k] = buckets[k]
  BY <1>3 DEF IsTable
<1>9. IsTable(T, n)
  BY <1>3, <1>5, StaysTable
<1>10. /\ Occupied(T, n, {next}) = (Used \ {next}) \cup {at} /\ next \in Used
       /\ Cardinality(Occupied(T, n, {next})) = Cardinality(Used)
  <2> DEFINE S == Occupied(buckets, n, {at})
  <2>1. Occupied(T, n, {next}) = (S \ {next}) \cup {at} /\ next \in S
        /\ Cardinality(Occupied(T, n, {next})) = Cardinality(S)
    <3>1. n \in Nat \ {0} /\ IsTable(buckets, n) /\ at \in 0 .. n - 1 /\ next \in 0 .. n - 1
          /\ next # at /\ buckets[next].dib > 0 /\ b \in Filled
      BY <1>3, <1>5, <1>6
    <3> QED BY ONLY <3>1, OccupiedMoved
  <2>2. Used = S
    BY <1>3
  <2> HIDE DEF S
  <2> QED BY <2>1, <2>2, Zenon
<1> HIDE DEF T
<1>11. \A j, k \in Occupied(T, n, {next}) : T[j].item.name = T[k].item.name => j = k
  <2>1. ASSUME NEW j \in Occupied(T, n, {next}), j # at
        PROVE  j \in Used /\ j # next /\ T[j] = buckets[j]
    <3>1. j \in Used /\ j # next
      BY <1>10, <2>1
    <3>2. j \in 0 .. n - 1
      BY DEF Occupied
    <3> QED BY <1>8, <2>1, <3>1, <3>2
  <2>2. T[at].item.name = buckets[next].item.name
    BY <1>7, <1>8
  <2>3. ASSUME NEW j \in Occupied(T, n, {next}), j # at PROVE T[j].item.name # T[at].item.name
    BY <1>3, <1>10, <2>1, <2>2, <2>3
  <2>4. ASSUME NEW j \in Occupied(T, n, {next}), NEW k \in Occupied(T, n, {next}), j # at, k # at,
               T[j].item.name = T[k].item.name
        PROVE  j = k
    BY <1>3, <2>1, <2>4
  <2> QED BY <2>3, <2>4
<1>12. i' \in Nat
  BY <1>1, <1>3
<1>13. /\ TypeOK' /\ TableInv' /\ Size' = n /\ Rest' = {} /\ Used' = Occupied(T, n, {next})
       /\ UNCHANGED <<hash, cap, nbuckets, growat, shrinkat, loadfactor, newBuckets, source>>
  BY <1>1, <1>2, <1>5, <1>9, <1>11, <1>12, TableKeeps DEF n
<1>14. LoopInv'
  BY <1>1, <1>3, <1>13 DEF LoopInv, Slots, n
<1>15. CallInv'
  BY <1>1, <1>2, <1>3, <1>13 DEF CallInv
<1>16. CountInv'
  <2>1. Cardinality(Rest') = 0 /\ Cardinality(Hole') = 1
    BY <1>2, <1>13, FS_EmptySet, FS_Singleton
  <2>2. Cardinality(Used') = Cardinality(Used)
    BY <1>10, <1>13
  <2>3. count' = Cardinality(Used') + Cardinality(Rest') + Cardinality(Hole')
    BY <1>1, <1>3, <2>1, <2>2
  <2>4. count' < Size' /\ count' \in Nat
    <3>1. count < n /\ count \in Nat
      BY <1>3
    <3>2. count' = count
      BY <1>1
    <3>3. Size' = n
      BY <1>13
    <3> QED BY ONLY <3>1, <3>2, <3>3
  <2>5. shrinkat' = ShrinkAt(nbuckets')
    BY <1>13 DEF MapInv, CountInv
  <2> QED BY <1>1, <1>2, <2>3, <2>4, <2>5 DEF CountInv, ShrinkAt
<1> QED BY <1>13, <1>14, <1>15, <1>16 DEF MapInv

LEMMA ShiftEnds ==
  ASSUME MapInv, ShiftBack, ~(buckets[After(i, nbuckets)].dib > 1)
  PROVE  MapInv'
<1> DEFINE n == nbuckets
           at == i
           T == [buckets EXCEPT ![at] = Empty]
<1>1. pc = "shift" /\ buckets' = T /\ count' = count - 1
  BY DEF ShiftBack
<1>2. /\ ~Tables /\ at \in 0 .. n - 1 /\ call = "delete" /\ entry \in Filled
      /\ hash \in [Names -> Nat] /\ n \in Nat \ {0} /\ n > 1 /\ n \in TableSizes
      /\ IsTable(buckets, n) /\ Ordered(buckets, n, {at})
      /\ Used = Occupied(buckets, n, {at}) /\ Size = n /\ Rest = {}
      /\ \A j, k \in Used : buckets[j].item.name = buckets[k].item.name => j = k
      /\ Cardinality(Used) \in Nat /\ count = Cardinality(Used) + 1 /\ count < n
      /\ After(at, n) \in 0 .. n - 1
  BY <1>1, AtShift
<1>3. buckets[After(at, n)].dib <= 1
  BY <1>2, BucketFilled
<1>4. growat \in 1 .. n - 1 /\ shrinkat = ShrinkAt(n) /\ cap <= n
  BY DEF MapInv, TypeOK, CountInv
<1> HIDE DEF n, at
<1>5. IsTable(T, n)
  BY <1>2, StaysTable
<1>6. Ordered(T, n, {})
  BY <1>2, <1>3, HoleCloses
<1>7. Occupied(T, n, {}) = Used
  BY <1>2, OccupiedHole
<1>8. \A k \in 0 .. n - 1 : k # at => T[k] = buckets[k]
  BY <1>2 DEF IsTable
<1> HIDE DEF T
<1>9. \A j, k \in Occupied(T, n, {}) : T[j].item.name = T[k].item.name => j = k
  <2>1. \A j \in Used : T[j] = buckets[j]
    BY <1>2, <1>8 DEF Occupied
  <2> QED BY <1>2, <1>7, <2>1
<1>10. count' = Cardinality(Occupied(T, n, {})) /\ count' < n /\ count' \in Nat
  <2>1. Cardinality(Occupied(T, n, {})) = Cardinality(Used)
    BY <1>7, Zenon
  <2>2. count - 1 = Cardinality(Used) /\ count - 1 < n /\ count - 1 \in Nat
    <3>1. Cardinality(Used) \in Nat /\ count = Cardinality(Used) + 1 /\ count < n /\ n \in Nat
      BY <1>2
    <3> QED BY ONLY <3>1
  <2> QED BY <1>1, <2>1, <2>2
<1>11. CASE nbuckets > cap /\ count' <= shrinkat
  <2>1. /\ pc' = "shrink" /\ i' = at
        /\ UNCHANGED <<hash, call, sizeVars, resizeVars, entry>>
    BY <1>3, <1>11 DEF ShiftBack, Goes, n, at
  <2>2. ~Tables' /\ Hole' = {} /\ i' \in Nat
    BY <1>2, <2>1 DEF Tables, Hole
  <2>3. /\ TypeOK' /\ TableInv' /\ Size' = n /\ Rest' = {} /\ Used' = Occupied(T, n, {})
        /\ UNCHANGED <<hash, cap, nbuckets, growat, shrinkat, loadfactor, newBuckets, source>>
    BY <1>1, <1>2, <1>5, <1>6, <1>9, <2>1, <2>2, TableKeeps DEF n
  <2>4. LoopInv'
    BY <2>1 DEF LoopInv
  <2>5. CallInv'
    BY <1>2, <2>1, <2>2, <2>3 DEF CallInv
  <2>6. CountInv'
    <3>1. Cardinality(Rest') = 0 /\ Cardinality(Hole') = 0
      BY <2>2, <2>3, FS_EmptySet
    <3>2. count' = Cardinality(Used') + Cardinality(Rest') + Cardinality(Hole')
      BY <1>10, <2>3, <3>1
    <3>3. count' < Size' /\ shrinkat' = ShrinkAt(nbuckets') /\ cap' < nbuckets' /\ count' <= shrinkat'
      <4>1. cap \in Nat /\ nbuckets \in Nat
        BY SizeRange DEF MapInv, TypeOK
      <4> QED BY <1>4, <1>10, <1>11, <2>3, <4>1 DEF n
    <3> QED BY <1>10, <2>1, <2>2, <3>2, <3>3 DEF CountInv, ShrinkAt
  <2> QED BY <2>3, <2>4, <2>5, <2>6 DEF MapInv
<1>12. CASE ~(nbuckets > cap /\ count' <= shrinkat)
  <2>1. Returns("delete", {entry.item}) /\ UNCHANGED <<nbuckets, growat, shrinkat>>
    BY <1>12 DEF ShiftBack
  <2>2. nbuckets' = n /\ growat' \in 1 .. n - 1 /\ shrinkat' = ShrinkAt(n)
    BY <1>4, <2>1 DEF n
  <2> QED BY <1>1, <1>2, <1>4, <1>5, <1>6, <1>9, <1>10, <2>1, <2>2, ReturnsKeeps
<1> QED BY <1>11, <1>12

LEMMA ShiftBackKeeps ==
  ASSUME MapInv, ShiftBack
  PROVE  MapInv'
  BY ShiftMoves, ShiftEnds

----------------------------------------------------------------------------

LEMMA IterKeeps ==
  ASSUME MapInv, Iter
  PROVE  MapInv'
<1>1. pc = "scan" /\ ~Tables /\ Hole = {} /\ UNCHANGED <<buckets, count>>
  BY DEF Iter, Tables, Hole
<1>2. CASE i < nbuckets
  <2>1. /\ pc' = "scan" /\ i' = i + 1 /\ call' = call
        /\ UNCHANGED <<hash, sizeVars, resizeVars>>
    BY <1>2 DEF Iter
  <2>2. /\ nbuckets \in Nat \ {0} /\ IsTable(buckets, nbuckets) /\ Ordered(buckets, nbuckets, {})
        /\ Used = Occupied(buckets, nbuckets, {}) /\ Size = nbuckets /\ Rest = {}
        /\ \A j, k \in Used : buckets[j].item.name = buckets[k].item.name => j = k
    BY <1>1, AtBuckets
  <2>3. i \in Nat
    BY DEF MapInv, TypeOK
  <2>4. ~Tables' /\ Hole' = {} /\ i' \in Nat /\ i' <= nbuckets
    BY <1>2, <2>1, <2>2, <2>3 DEF Tables, Hole
  <2>5. /\ TypeOK' /\ TableInv' /\ Size' = nbuckets /\ Rest' = {} /\ Used' = Used
        /\ UNCHANGED <<hash, cap, nbuckets, growat, shrinkat, loadfactor, newBuckets, source>>
    BY <1>1, <2>1, <2>2, <2>4, TableKeeps
  <2>6. LoopInv'
    BY <2>1, <2>4, <2>5 DEF LoopInv
  <2>7. CallInv'
    BY <2>1, <2>4, <2>5 DEF CallInv
  <2>8. CountInv'
    BY <1>1, <2>1, <2>2, <2>4, <2>5 DEF MapInv, CountInv, ShrinkAt
  <2> QED BY <2>5, <2>6, <2>7, <2>8 DEF MapInv
<1>3. CASE ~(i < nbuckets)
  <2>1. Returns("scan", yielded) /\ UNCHANGED <<nbuckets, growat, shrinkat>>
    BY <1>3 DEF Iter
  <2> QED BY <1>1, <2>1, ReturnsUnchanged
<1> QED BY <1>2, <1>3

(* The first part of the array is empty, whichever array is kept.          *)
LEMMA ClearKeeps ==
  ASSUME MapInv, NEW updateCap \in BOOLEAN, Clear(updateCap)
  PROVE  MapInv'
<1> DEFINE n == IF updateCap THEN nbuckets ELSE cap
<1>1. /\ pc = "idle" /\ pc' = "idle" /\ cap' = n /\ nbuckets' = n /\ count' = 0
      /\ growat' = GrowAt(n, loadfactor) /\ shrinkat' = ShrinkAt(n) /\ i' = i
      /\ UNCHANGED <<hash, loadfactor, newBuckets, source>>
  BY DEF Clear, resizeVars
<1>2. ~Tables /\ ~Tables' /\ Hole' = {}
  BY <1>1 DEF Tables, Hole
<1>3. TypeOK
  BY DEF MapInv
<1>4. /\ nbuckets \in TableSizes /\ cap \in TableSizes /\ cap <= nbuckets
      /\ IsTable(buckets, nbuckets) /\ loadfactor \in LoadFactors
  BY <1>3 DEF TypeOK
<1>5. nbuckets \in Nat \ {0} /\ cap \in Nat \ {0}
  BY <1>4, SizeRange
<1>6. n \in TableSizes /\ n \in Nat \ {0} /\ n <= nbuckets
  BY <1>4, <1>5
<1> HIDE DEF n
<1>7. IsTable(buckets', n) /\ \A j \in 0 .. n - 1 : buckets'[j] = Empty
  <2>1. CASE buckets' = [j \in DOMAIN buckets |-> IF j < nbuckets' THEN Empty ELSE buckets[j]]
    <3>1. 0 .. n - 1 \subseteq DOMAIN buckets
      BY <1>4, <1>5, <1>6 DEF IsTable
    <3>2. DOMAIN buckets' = DOMAIN buckets
      BY <2>1
    <3>3. \A j \in DOMAIN buckets : buckets'[j] \in {Empty} \cup Filled
      BY <1>4, <2>1 DEF IsTable
    <3>4. buckets' \in [DOMAIN buckets -> {Empty} \cup Filled]
      BY <2>1, <3>3
    <3>5. \A j \in 0 .. n - 1 : buckets'[j] = Empty
      BY <1>1, <1>6, <2>1, <3>1
    <3> QED BY <3>1, <3>2, <3>4, <3>5 DEF IsTable
  <2>2. CASE buckets' = [j \in 0 .. cap - 1 |-> Empty] /\ ~updateCap
    <3>1. n = cap
      BY <2>2 DEF n
    <3>2. IsTable([j \in 0 .. n - 1 |-> Empty], n)
      BY <1>6, EmptyTable
    <3> QED BY <2>2, <3>1, <3>2
  <2> QED BY <2>1, <2>2 DEF Clear
<1> DEFINE T == buckets'
<1>8. T = buckets'
  OBVIOUS
<1> HIDE DEF T
<1>9. Ordered(T, n, {}) /\ Occupied(T, n, {}) = {}
  <2>1. Ordered(T, n, {})
    BY <1>6, <1>7, <1>8, EmptyOrdered
  <2>2. Occupied(T, n, {}) = {}
    BY <1>7, <1>8 DEF Occupied, Empty
  <2> QED BY <2>1, <2>2
<1>10. Size' = n /\ Rest' = {} /\ Used' = Occupied(T, n, {}) /\ TableInv'
  <2>1. \A j, k \in Occupied(T, n, {}) : T[j].item.name = T[k].item.name => j = k
    BY <1>9
  <2> QED BY <1>1, <1>2, <1>8, <1>9, <2>1, BucketsNext
<1>11. TypeOK'
  <2>1. IsTable(newBuckets, NewSize)'
    BY <1>1, <1>3, ScratchNext
  <2>2. growat' \in 1 .. n - 1
    BY <1>1, <1>4, <1>6, GrowAtRange
  <2>3. shrinkat' \in 0 .. n - 1
    BY <1>1, <1>6, ShrinkAtRange
  <2>4. IsTable(buckets, nbuckets)'
    BY <1>1, <1>7 DEF IsTable
  <2> QED BY <1>1, <1>3, <1>6, <2>1, <2>2, <2>3, <2>4 DEF TypeOK
<1>12. LoopInv'
  BY <1>1 DEF LoopInv
<1>13. CallInv'
  BY <1>1, <1>2 DEF CallInv
<1>14. CountInv'
  <2>1. Cardinality(Used') = 0 /\ Cardinality(Rest') = 0 /\ Cardinality(Hole') = 0
    BY <1>2, <1>9, <1>10, FS_EmptySet
  <2> QED BY <1>1, <1>2, <1>6, <1>10, <2>1 DEF CountInv, ShrinkAt
<1> QED BY <1>10, <1>11, <1>12, <1>13, <1>14 DEF MapInv

LEMMA SetLoadFactorKeeps ==
  ASSUME MapInv, NEW factor \in LoadFactors, SetLoadFactor(factor)
  PROVE  MapInv'
<1>1. /\ pc = "idle" /\ pc' = "idle" /\ loadfactor' = factor /\ growat' = GrowAt(nbuckets, factor)
      /\ UNCHANGED <<hash, cap, nbuckets, shrinkat, buckets, count, newBuckets, source, i>>
  BY DEF SetLoadFactor, resizeVars
<1>2. ~Tables /\ ~Tables' /\ Hole = {} /\ Hole' = {}
  BY <1>1 DEF Tables, Hole
<1>3. /\ nbuckets \in Nat \ {0} /\ IsTable(buckets, nbuckets) /\ Ordered(buckets, nbuckets, {})
      /\ nbuckets \in TableSizes
      /\ Used = Occupied(buckets, nbuckets, {}) /\ Size = nbuckets /\ Rest = {}
      /\ \A j, k \in Used : buckets[j].item.name = buckets[k].item.name => j = k
  BY <1>2, AtBuckets
<1>4. Size' = nbuckets /\ Rest' = {} /\ Used' = Used /\ TableInv'
  BY <1>1, <1>2, <1>3, BucketsNext
<1>5. TypeOK'
  <2>1. TypeOK
    BY DEF MapInv
  <2>2. IsTable(newBuckets, NewSize)'
    BY <1>1, <2>1, ScratchNext
  <2>3. growat' \in 1 .. nbuckets - 1
    BY <1>1, <1>3, GrowAtRange
  <2> QED BY <1>1, <2>1, <2>2, <2>3 DEF TypeOK, IsTable
<1>6. LoopInv'
  BY <1>1 DEF LoopInv
<1>7. CallInv'
  BY <1>1, <1>2 DEF CallInv
<1>8. CountInv'
  BY <1>1, <1>2, <1>3, <1>4 DEF MapInv, CountInv, ShrinkAt
<1> QED BY <1>4, <1>5, <1>6, <1>7, <1>8 DEF MapInv

----------------------------------------------------------------------------

LEMMA InitMapInv ==
  ASSUME Init
  PROVE  MapInv
<1>1. hash \in [Names -> Nat]
  BY DEF Init, HeaderMapAssumption
<1>2. cap \in TableSizes
  BY NewCapRange DEF Init
<1>3. cap \in Nat \ {0}
  BY <1>2, SizeRange
<1>4. /\ nbuckets = cap /\ buckets = [j \in 0 .. cap - 1 |-> Empty] /\ count = 0
      /\ loadfactor = LoadFactor /\ growat = GrowAt(cap, LoadFactor) /\ shrinkat = ShrinkAt(cap)
      /\ newBuckets = NoBuckets /\ source = 0 /\ i = 0 /\ pc = "idle"
  BY DEF Init
<1>5. ~Tables /\ Hole = {} /\ Rest = {} /\ Table = buckets /\ Size = cap
  BY <1>4 DEF Tables, Hole, Rest, Table, Size
<1>6. IsTable(buckets, cap) /\ Ordered(buckets, cap, {}) /\ Occupied(buckets, cap, {}) = {}
  BY <1>3, <1>4, EmptyTable
<1>7. Used = {}
  BY <1>5, <1>6 DEF Used
<1>8. TypeOK
  <2>1. LoadFactor \in LoadFactors
    BY DEF HeaderMapAssumption
  <2>2. growat \in 1 .. cap - 1 /\ shrinkat \in 0 .. cap - 1
    <3>1. growat \in 1 .. cap - 1
      BY <1>2, <1>4, <2>1, GrowAtRange
    <3>2. shrinkat \in 0 .. cap - 1
      BY <1>2, <1>3, <1>4, ShrinkAtRange
    <3> QED BY <3>1, <3>2
  <2>3. IsTable(newBuckets, NewSize)
    <3>1. DOMAIN newBuckets = {} /\ NewSize = 0
      BY <1>4, FS_EmptySet DEF NoBuckets, NewSize
    <3> QED BY <1>4, <3>1 DEF IsTable, NoBuckets
  <2> QED BY <1>1, <1>2, <1>3, <1>4, <1>6, <2>1, <2>2, <2>3 DEF TypeOK
<1>9. TableInv
  <2>1. Ordered(Table, Size, Hole)
    BY <1>5, <1>6
  <2> QED BY <1>5, <1>7, <2>1 DEF TableInv, Apart
<1>10. LoopInv
  BY <1>4 DEF LoopInv
<1>11. CallInv
  BY <1>4, <1>5 DEF CallInv
<1>12. CountInv
  <2>1. Cardinality(Used) = 0 /\ Cardinality(Rest) = 0 /\ Cardinality(Hole) = 0
    BY <1>5, <1>7, FS_EmptySet
  <2> QED BY <1>3, <1>4, <1>5, <2>1 DEF CountInv
<1> QED BY <1>8, <1>9, <1>10, <1>11, <1>12 DEF MapInv

LEMMA StutterKeeps ==
  ASSUME MapInv, UNCHANGED vars
  PROVE  MapInv'
<1>1. /\ UNCHANGED <<hash, buckets, count, entry, i, call, pc, yielded, before, reply>>
      /\ UNCHANGED <<cap, nbuckets, growat, shrinkat, loadfactor, newBuckets, source>>
  BY DEF vars, sizeVars, resizeVars
<1>2. /\ Tables' = Tables /\ Hole' = Hole /\ NewSize' = NewSize /\ Table' = Table /\ Size' = Size
      /\ Rest' = Rest /\ Used' = Used
  BY <1>1 DEF Tables, Hole, NewSize, Table, Size, Rest, Used, Occupied
<1>3. TypeOK'
  BY <1>1, <1>2 DEF MapInv, TypeOK, IsTable
<1>4. TableInv'
  BY <1>1, <1>2 DEF MapInv, TableInv, Ordered, Fits, Reached, Home, Apart
<1>5. LoopInv'
  BY <1>1, <1>2 DEF MapInv, LoopInv, Slots, Fits, Reached, Home, NotPassed
<1>6. CallInv'
  BY <1>1, <1>2 DEF MapInv, CallInv
<1>7. CountInv'
  BY <1>1, <1>2 DEF MapInv, CountInv, ShrinkAt
<1> QED BY <1>3, <1>4, <1>5, <1>6, <1>7 DEF MapInv

LEMMA NextKeeps ==
  ASSUME MapInv, [Next]_vars
  PROVE  MapInv'
<1>1. CASE Call
  <2>1. ASSUME NEW name \in Names, Get(name) \/ Delete(name) PROVE MapInv'
    BY <2>1, LookupBegins
  <2>2. ASSUME NEW name \in Names, NEW value \in Values, Set(name, value) PROVE MapInv'
    BY <2>2, SetBegins
  <2>3. CASE Scan
    BY <2>3, ScanBegins
  <2>4. ASSUME NEW updateCap \in BOOLEAN, Clear(updateCap) PROVE MapInv'
    BY <2>4, ClearKeeps
  <2>5. ASSUME NEW factor \in LoadFactors, SetLoadFactor(factor) PROVE MapInv'
    BY <2>5, SetLoadFactorKeeps
  <2> QED BY <1>1, <2>1, <2>2, <2>3, <2>4, <2>5 DEF Call
<1>2. CASE Step
  BY <1>2, PlaceKeeps, AllocateKeeps, RehashKeeps, CarryKeeps, ResizedKeeps, LookOnKeeps, GetFindsKeeps,
     DeleteFindsKeeps, ShiftBackKeeps, IterKeeps DEF Step
<1>3. CASE UNCHANGED vars
  BY <1>3, StutterKeeps
<1> QED BY <1>1, <1>2, <1>3 DEF Next

(* The order of the table, the count, and where each loop has come to hold *)
(* at every turn of every loop (hashmap.c:231-476).                        *)
THEOREM MapInvariant == Spec => []MapInv
<1>1. Init => MapInv
  BY InitMapInv
<1>2. MapInv /\ [Next]_vars => MapInv'
  BY NextKeeps
<1> QED BY <1>1, <1>2, PTL DEF Spec

LEMMA AtTable ==
  ASSUME MapInv
  PROVE  /\ hash \in [Names -> Nat] /\ Size \in Nat \ {0} /\ IsTable(Table, Size)
         /\ Ordered(Table, Size, Hole) /\ Used = Occupied(Table, Size, Hole)
         /\ \A j, k \in Used : Table[j].item.name = Table[k].item.name => j = k
         /\ IsFiniteSet(Used) /\ Cardinality(Used) \in Nat /\ Cardinality(Used) < Size
<1>1. hash \in [Names -> Nat] /\ Size \in Nat \ {0} /\ IsTable(Table, Size)
  <2>1. CASE Tables
    BY <2>1, AtNewBuckets
  <2>2. CASE ~Tables
    BY <2>2, AtBuckets
  <2> QED BY <2>1, <2>2
<1>2. Ordered(Table, Size, Hole) /\ Used = Occupied(Table, Size, Hole) /\ Apart
  BY DEF MapInv, TableInv, Used
<1>3. \A j, k \in Used : Table[j].item.name = Table[k].item.name => j = k
  BY <1>2 DEF Apart
<1>4. IsFiniteSet(Used) /\ Cardinality(Used) \in Nat
  BY <1>1, <1>2, OccupiedFinite
<1>5. Cardinality(Used) < Size
  <2>1. Cardinality(Rest) \in Nat
    <3>1. CASE Tables
      BY <3>1, AtNewBuckets
    <3>2. CASE ~Tables
      <4>1. Rest = {}
        BY <3>2, AtBuckets
      <4> QED BY <4>1, FS_EmptySet
    <3> QED BY <3>1, <3>2
  <2>2. Cardinality(Hole) \in Nat
    <3>1. Cardinality({}) = 0 /\ Cardinality({i}) = 1
      BY FS_EmptySet, FS_Singleton
    <3> QED BY <3>1 DEF Hole
  <2>3. count = Cardinality(Used) + Cardinality(Rest) + Cardinality(Hole) /\ count < Size
    <3>1. CountInv
      BY DEF MapInv
    <3>2. count = Cardinality(Used) + Cardinality(Rest) + Cardinality(Hole)
      BY <3>1 DEF CountInv
    <3>3. count \in Nat
      BY <1>4, <2>1, <2>2, <3>2
    <3>4. count < Size
      BY <1>1, <3>1, <3>3 DEF CountInv
    <3> QED BY <3>2, <3>4
  <2> QED BY <1>1, <1>4, <2>1, <2>2, <2>3
<1> QED BY <1>1, <1>2, <1>3, <1>4, <1>5

(* Every state of a map is one of its type (hashmap.c:25-50).              *)
THEOREM MapTypeCorrect == Spec => []TypeOK
<1>1. MapInv => TypeOK
  BY DEF MapInv
<1> QED BY <1>1, MapInvariant, PTL

LEMMA InOrder ==
  ASSUME MapInv
  PROVE  RobinHood
<1> DEFINE T == Table
           n == Size
           H == Hole
<1>1. /\ hash \in [Names -> Nat] /\ n \in Nat \ {0} /\ IsTable(T, n)
      /\ Ordered(T, n, H) /\ Used = Occupied(T, n, H)
  BY AtTable
<1> HIDE DEF T, n, H
<1>2. ASSUME NEW j \in Used
      PROVE  /\ j \in 0 .. n - 1 /\ T[j].dib > 0 /\ T[j].item.name \in Names
             /\ T[j].dib = 1 + Dist(Home(T[j].item.name, n), j, n)
             /\ Reached(T, n, H, Home(T[j].item.name, n), j)
             /\ Home(T[j].item.name, n) \in 0 .. n - 1
  <2>1. j \in (0 .. n - 1) \ H /\ T[j].dib > 0
    BY <1>1, <1>2 DEF Occupied
  <2>2. T[j].item.name \in Names
    BY <1>1, <2>1, BucketFilled
  <2>3. Home(T[j].item.name, n) \in 0 .. n - 1
    BY <1>1, <2>2, HomeRange
  <2>4. Fits(T, n, H, T[j], j)
    BY <1>1, <2>1 DEF Ordered
  <2> QED BY <2>1, <2>2, <2>3, <2>4 DEF Fits
<1>3. ASSUME NEW j \in 0 .. n - 1, After(j, n) \in Used, j \notin H
      PROVE  T[After(j, n)].dib <= T[j].dib + 1
  <2> DEFINE next == After(j, n)
             h == Home(T[next].item.name, n)
  <2>1. h \in 0 .. n - 1 /\ T[next].dib = 1 + Dist(h, next, n) /\ Reached(T, n, H, h, next)
    BY <1>2, <1>3
  <2>2. T[j].dib \in Nat
    BY <1>1, BucketFilled
  <2> HIDE DEF h
  <2>3. Dist(h, j, n) \in Nat
    BY <1>1, <2>1, DistRange
  <2>4. CASE next = h
    <3>1. Dist(h, next, n) = 0
      BY <1>1, <2>1, <2>4, DistAfter
    <3> QED BY <2>1, <2>2, <3>1
  <2>5. CASE next # h
    <3>1. Dist(h, next, n) = Dist(h, j, n) + 1
      BY <1>1, <2>1, <2>5, DistAfter
    <3> HIDE DEF next
    <3>2. T[j].dib > Dist(h, j, n)
      BY <1>3, <2>1, <2>3, <3>1 DEF Reached
    <3> QED BY <2>1, <2>2, <2>3, <3>1, <3>2 DEF next
  <2> QED BY <2>4, <2>5
<1>4. \A j \in 0 .. n - 1 : j \in Used => T[j].dib = 1 + Dist(Home(T[j].item.name, n), j, n)
  BY <1>2
<1> QED BY <1>3, <1>4 DEF RobinHood, T, n, H

(* Robin hood order holds in every loop, of whatever call, and in the      *)
(* table resize0 fills (hashmap.c:231-252, 290-313, 383-393).              *)
THEOREM MapInRobinHoodOrder == Spec => []RobinHood
<1>1. MapInv => RobinHood
  BY InOrder
<1> QED BY <1>1, MapInvariant, PTL

LEMMA NamesCounted ==
  ASSUME MapInv
  PROVE  OneBucketEach
<1> DEFINE N == {Table[j].item.name : j \in Used}
           f == [j \in Used |-> Table[j].item.name]
<1>1. /\ \A j, k \in Used : Table[j].item.name = Table[k].item.name => j = k
      /\ IsFiniteSet(Used)
  BY AtTable
<1>2. Cardinality(N) = Cardinality(Used)
  <2>1. f \in [Used -> N]
    OBVIOUS
  <2>2. \A j, k \in Used : f[j] = f[k] => j = k
    BY <1>1
  <2>3. \A name \in N : \E j \in Used : f[j] = name
    OBVIOUS
  <2> HIDE DEF f, N
  <2>4. f \in Bijection(Used, N)
    <3>1. f \in Injection(Used, N)
      BY <2>1, <2>2 DEF Injection, IsInjective
    <3>2. f \in Surjection(Used, N)
      BY <2>1, <2>3 DEF Surjection
    <3> QED BY <3>1, <3>2 DEF Bijection
  <2>5. ExistsBijection(Used, N)
    BY <2>4 DEF ExistsBijection
  <2> QED BY <1>1, <2>5, FS_Bijection
<1>3. ASSUME pc \in {"idle", "place", "get", "delete", "scan", "grow", "shrink"}
      PROVE  count = Cardinality(Used)
  <2>1. ~Tables /\ Hole = {}
    BY <1>3 DEF Tables, Hole
  <2>2. Cardinality(Used) \in Nat /\ count = Cardinality(Used) + Cardinality(Hole)
    BY <2>1, AtBuckets
  <2>3. Cardinality(Hole) = 0
    BY <2>1, FS_EmptySet
  <2> QED BY <2>2, <2>3
<1> QED BY <1>2, <1>3 DEF OneBucketEach

(* No name has two buckets, and count counts them, however items were      *)
(* displaced, carried to another table or shifted back (hashmap.c:294,     *)
(* 394).                                                                   *)
THEOREM MapOneBucketEach == Spec => []OneBucketEach
<1>1. MapInv => OneBucketEach
  BY NamesCounted
<1> QED BY <1>1, MapInvariant, PTL

LEMMA RoomInEveryLoop ==
  ASSUME MapInv
  PROVE  NeverFull
<1>1. Cardinality(Used) < Size
  BY AtTable
<1>2. ASSUME pc = "place" PROVE entry.dib <= Size
  <2> DEFINE h == Home(entry.item.name, nbuckets)
  <2>1. /\ ~Tables /\ i \in 0 .. nbuckets - 1 /\ entry.item.name \in Names
        /\ entry.dib = 1 + Dist(h, i, nbuckets)
    BY <1>2, AtPlace
  <2>2. hash \in [Names -> Nat] /\ nbuckets \in Nat \ {0} /\ Size = nbuckets
    BY <2>1, AtBuckets
  <2>3. h \in 0 .. nbuckets - 1
    BY <2>1, <2>2, HomeRange
  <2> HIDE DEF h
  <2>4. Dist(h, i, nbuckets) \in 0 .. nbuckets - 1
    BY <2>1, <2>2, <2>3, DistRange
  <2> QED BY <2>1, <2>2, <2>4
<1> QED BY <1>1, <1>2 DEF NeverFull

(* Each loop of a search comes to an empty bucket, as there always is one, *)
(* under any load factor a caller can set (hashmap.c:238, 290, 332, 372).  *)
THEOREM MapNeverFull == Spec => []NeverFull
<1>1. MapInv => NeverFull
  BY RoomInEveryLoop
<1> QED BY <1>1, MapInvariant, PTL

=============================================================================
