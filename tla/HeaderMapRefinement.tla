-------------------------- MODULE HeaderMapRefinement --------------------------
(***************************************************************************)
(* For its callers the table of lib/hashmap.c is a function from names to  *)
(* values: a call has the effect FieldMap gives it in the step in which it *)
(* returns, and its other steps, and those of resize0, change nothing.     *)
(***************************************************************************)
EXTENDS HeaderMapProofs

USE HeaderMapAssumption

(* Items of which no two have the same name, and the function they are.    *)
Unique(S) == S \subseteq Items /\ \A a, b \in S : a.name = b.name => a = b
Pairs(f)  == {Item(name, f[name]) : name \in DOMAIN f}

LEMMA ContentsOf ==
  ASSUME NEW S, Unique(S)
  PROVE  /\ DOMAIN Contents(S) = {item.name : item \in S}
         /\ \A item \in S : Contents(S)[item.name] = item.value
         /\ Contents(S) = [name \in {item.name : item \in S} |-> Contents(S)[name]]
<1>1. DOMAIN Contents(S) = {item.name : item \in S}
  BY DEF Contents
<1>2. Contents(S) = [name \in {item.name : item \in S} |-> Contents(S)[name]]
  BY DEF Contents
<1>3. ASSUME NEW item \in S PROVE Contents(S)[item.name] = item.value
  <2>1. Contents(S)[item.name] = (CHOOSE other \in S : other.name = item.name).value
    BY DEF Contents
  <2>2. \A other \in S : other.name = item.name => other = item
    BY DEF Unique
  <2>3. (CHOOSE other \in S : other.name = item.name) = item
    BY <2>2
  <2> QED BY <2>1, <2>3
<1> QED BY <1>1, <1>2, <1>3

(* A function is the one with these values.                                *)
LEMMA ContentsIs ==
  ASSUME NEW S, Unique(S), NEW D, NEW g, g = [name \in D |-> g[name]],
         D = {item.name : item \in S}, \A item \in S : g[item.name] = item.value
  PROVE  Contents(S) = g
<1>1. /\ DOMAIN Contents(S) = D /\ \A item \in S : Contents(S)[item.name] = item.value
      /\ Contents(S) = [name \in D |-> Contents(S)[name]]
  BY ContentsOf
<1>2. \A name \in D : Contents(S)[name] = g[name]
  BY <1>1
<1> QED BY <1>1, <1>2

LEMMA ItemFields ==
  /\ \A name, value : Item(name, value).name = name /\ Item(name, value).value = value
  /\ \A item \in Items : item = Item(item.name, item.value) /\ item.name \in Names /\ item.value \in Values
  /\ \A name \in Names, value \in Values : Item(name, value) \in Items
  BY DEF Item, Items

LEMMA PairsUnique ==
  ASSUME NEW f, DOMAIN f \subseteq Names, f \in [DOMAIN f -> Values]
  PROVE  Unique(Pairs(f)) /\ Contents(Pairs(f)) = f
<1>1. \A name \in DOMAIN f : name \in Names /\ f[name] \in Values
  OBVIOUS
<1>2. Unique(Pairs(f))
  BY <1>1, ItemFields DEF Unique, Pairs
<1>3. DOMAIN f = {item.name : item \in Pairs(f)}
  <2>1. \A name \in DOMAIN f : Item(name, f[name]) \in Pairs(f) /\ Item(name, f[name]).name = name
    BY ItemFields DEF Pairs
  <2>2. \A item \in Pairs(f) : item.name \in DOMAIN f
    BY ItemFields DEF Pairs
  <2> DEFINE N == {item.name : item \in Pairs(f)}
  <2>3. \A name \in DOMAIN f : name \in N
    BY <2>1
  <2>4. \A name \in N : name \in DOMAIN f
    BY <2>2
  <2> HIDE DEF N
  <2>5. DOMAIN f = N
    BY <2>3, <2>4
  <2> QED BY <2>5 DEF N
<1>4. \A item \in Pairs(f) : f[item.name] = item.value
  BY ItemFields DEF Pairs
<1>5. f = [name \in DOMAIN f |-> f[name]]
  OBVIOUS
<1> QED BY <1>2, <1>3, <1>4, <1>5, ContentsIs

LEMMA PairsOf ==
  ASSUME NEW S, Unique(S)
  PROVE  /\ Pairs(Contents(S)) = S
         /\ DOMAIN Contents(S) \subseteq Names /\ Contents(S) \in [DOMAIN Contents(S) -> Values]
<1> DEFINE f == Contents(S)
<1>1. /\ DOMAIN f = {item.name : item \in S} /\ \A item \in S : f[item.name] = item.value
      /\ f = [name \in {item.name : item \in S} |-> f[name]]
  BY ContentsOf
<1> HIDE DEF f
<1>2. \A item \in S : item = Item(item.name, item.value) /\ item.name \in Names /\ item.value \in Values
  BY ItemFields DEF Unique
<1>3. Pairs(f) = S
  <2>1. ASSUME NEW item \in S PROVE item \in Pairs(f)
    BY <1>1, <1>2 DEF Pairs
  <2>2. ASSUME NEW name \in DOMAIN f PROVE Item(name, f[name]) \in S
    <3>1. PICK item \in S : name = item.name
      BY <1>1
    <3> QED BY <1>1, <1>2, <3>1
  <2> QED BY <2>1, <2>2 DEF Pairs
<1>4. DOMAIN f \subseteq Names
  BY <1>1, <1>2
<1>5. \A name \in DOMAIN f : f[name] \in Values
  BY <1>1, <1>2
<1>6. f \in [DOMAIN f -> Values]
  BY <1>1, <1>5
<1> QED BY <1>3, <1>4, <1>6 DEF f

----------------------------------------------------------------------------

(* The calls of FieldMap, said of the items.                               *)
With(S, item)    == {other \in S : other.name # item.name} \cup {item}
Without(S, name) == {other \in S : other.name # name}
Named(S, name)   == {other \in S : other.name = name}

LEMMA ContentsWith ==
  ASSUME NEW S, Unique(S), NEW item \in Items
  PROVE  /\ Unique(With(S, item))
         /\ Contents(With(S, item)) =
              [name \in DOMAIN Contents(S) \cup {item.name} |->
                 IF name = item.name THEN item.value ELSE Contents(S)[name]]
<1> DEFINE R == With(S, item)
           f == Contents(S)
           D == DOMAIN f \cup {item.name}
           g == [name \in D |-> IF name = item.name THEN item.value ELSE f[name]]
<1>1. Unique(R)
  BY DEF Unique, With
<1>2. DOMAIN f = {other.name : other \in S} /\ \A other \in S : f[other.name] = other.value
  BY ContentsOf
<1> HIDE DEF f
<1>3. D = {other.name : other \in R}
  BY <1>2 DEF With
<1>4. \A other \in R : g[other.name] = other.value
  BY <1>2 DEF With
<1>5. g = [name \in D |-> g[name]]
  OBVIOUS
<1> HIDE DEF R, g, D
<1>6. Contents(R) = g
  BY <1>1, <1>3, <1>4, <1>5, ContentsIs
<1> QED BY <1>1, <1>6 DEF R, g, D, f

LEMMA ContentsWithout ==
  ASSUME NEW S, Unique(S), NEW name
  PROVE  /\ Unique(Without(S, name))
         /\ Contents(Without(S, name)) = [other \in DOMAIN Contents(S) \ {name} |-> Contents(S)[other]]
<1> DEFINE R == Without(S, name)
           f == Contents(S)
           D == DOMAIN f \ {name}
           g == [other \in D |-> f[other]]
<1>1. Unique(R)
  BY DEF Unique, Without
<1>2. DOMAIN f = {other.name : other \in S} /\ \A other \in S : f[other.name] = other.value
  BY ContentsOf
<1> HIDE DEF f
<1>3. D = {other.name : other \in R}
  BY <1>2 DEF Without
<1>4. \A other \in R : g[other.name] = other.value
  BY <1>2 DEF Without
<1>5. g = [other \in D |-> g[other]]
  OBVIOUS
<1> HIDE DEF R, g, D
<1>6. Contents(R) = g
  BY <1>1, <1>3, <1>4, <1>5, ContentsIs
<1> QED BY <1>1, <1>6 DEF R, g, D, f

LEMMA ContentsNamed ==
  ASSUME NEW S, Unique(S), NEW name
  PROVE  {Item(other, Contents(S)[other]) : other \in DOMAIN Contents(S) \cap {name}} = Named(S, name)
<1> DEFINE f == Contents(S)
<1>1. DOMAIN f = {other.name : other \in S} /\ \A other \in S : f[other.name] = other.value
  BY ContentsOf
<1>2. \A other \in S : other = Item(other.name, other.value)
  BY ItemFields DEF Unique
<1> HIDE DEF f
<1>3. ASSUME NEW other \in DOMAIN f \cap {name} PROVE Item(other, f[other]) \in Named(S, name)
  <2>1. PICK item \in S : other = item.name
    BY <1>1
  <2> QED BY <1>1, <1>2, <2>1 DEF Named
<1>4. ASSUME NEW item \in Named(S, name)
      PROVE  item \in {Item(other, f[other]) : other \in DOMAIN f \cap {name}}
  BY <1>1, <1>2 DEF Named
<1>5. {Item(other, f[other]) : other \in DOMAIN f \cap {name}} = Named(S, name)
  BY <1>3, <1>4
<1> QED BY <1>5 DEF f

----------------------------------------------------------------------------

ItemsAt(T, U) == {T[j].item : j \in U}

(* What the callers see, as items.                                         *)
Shown == IF pc = "idle" THEN MapItems ELSE BeforeItems

LEMMA MapItemsUnique ==
  ASSUME MapInv
  PROVE  Unique(MapItems)
<1>1. /\ Size \in Nat \ {0} /\ IsTable(Table, Size) /\ Used = Occupied(Table, Size, Hole)
      /\ \A j, k \in Used : Table[j].item.name = Table[k].item.name => j = k
  BY AtTable
<1>2. \A j \in Used : Table[j].item \in Items
  BY <1>1, BucketFilled DEF Occupied
<1>3. Apart
  BY DEF MapInv, TableInv
<1>4. \A k \in Rest : buckets[k].item \in Items
  <2>1. CASE Tables
    <3>1. nbuckets \in Nat \ {0} /\ IsTable(buckets, nbuckets)
          /\ Rest = Occupied(buckets, nbuckets, 0 .. source - 1)
      BY <2>1, AtNewBuckets
    <3> QED BY <3>1, BucketFilled DEF Occupied
  <2>2. CASE ~Tables
    BY <2>2 DEF Rest
  <2> QED BY <2>1, <2>2
<1>5. MapItems \subseteq Items
  BY <1>2, <1>4 DEF MapItems
<1>6. ASSUME NEW a \in MapItems, NEW b \in MapItems, a.name = b.name PROVE a = b
  <2>1. (\E j \in Used : a = Table[j].item) \/ (\E j \in Rest : a = buckets[j].item)
    BY DEF MapItems
  <2>2. (\E j \in Used : b = Table[j].item) \/ (\E j \in Rest : b = buckets[j].item)
    BY DEF MapItems
  <2> QED BY <1>3, <1>6, <2>1, <2>2 DEF Apart
<1> QED BY <1>5, <1>6 DEF Unique

LEMMA MapItemsAtBuckets ==
  ASSUME ~Tables
  PROVE  MapItems = ItemsAt(buckets, Occupied(buckets, nbuckets, Hole))
  BY DEF MapItems, ItemsAt, Used, Rest, Table, Size

LEMMA MapItemsAtNew ==
  ASSUME Tables
  PROVE  MapItems = ItemsAt(newBuckets, Occupied(newBuckets, NewSize, {}))
                      \cup ItemsAt(buckets, Occupied(buckets, nbuckets, 0 .. source - 1))
<1>1. Hole = {}
  BY DEF Tables, Hole
<1> QED BY <1>1 DEF MapItems, ItemsAt, Used, Rest, Table, Size

LEMMA MapItemsNext ==
  ASSUME ~Tables', NEW T, NEW n, NEW hole, buckets' = T, nbuckets' = n, Hole' = hole
  PROVE  MapItems' = ItemsAt(T, Occupied(T, n, hole))
  BY DEF MapItems, ItemsAt, Used, Rest, Table, Size, Occupied

LEMMA MapItemsNextNew ==
  ASSUME Tables', NEW T, NEW n, NEW B, NEW m, newBuckets' = T, NewSize' = n, buckets' = B, nbuckets' = m
  PROVE  MapItems' = ItemsAt(T, Occupied(T, n, {})) \cup ItemsAt(B, Occupied(B, m, 0 .. source' - 1))
<1>1. Hole' = {} /\ Table' = T /\ Size' = n
  BY DEF Tables, Hole, Table, Size
<1> QED BY <1>1 DEF MapItems, ItemsAt, Used, Rest, Occupied

LEMMA ShownIs == MapInv /\ HistoryInv => Unique(Shown) /\ Mapped = Contents(Shown)
<1> SUFFICES ASSUME MapInv, HistoryInv PROVE Unique(Shown) /\ Mapped = Contents(Shown)
  OBVIOUS
<1>1. CASE pc = "idle"
  <2>1. ~Tables /\ Hole = {}
    BY <1>1 DEF Tables, Hole
  <2>2. MapItems = In(buckets, nbuckets)
    BY <2>1, MapItemsAtBuckets DEF In, ItemsAt
  <2> QED BY <1>1, <2>2, MapItemsUnique DEF Shown, Mapped
<1>2. CASE pc # "idle"
  <2>1. DOMAIN before \subseteq Names /\ before \in [DOMAIN before -> Values]
    BY DEF HistoryInv
  <2>2. BeforeItems = Pairs(before)
    BY DEF BeforeItems, Pairs
  <2>3. Unique(Pairs(before)) /\ Contents(Pairs(before)) = before
    BY <2>1, PairsUnique
  <2> QED BY <1>2, <2>2, <2>3 DEF Shown, Mapped
<1> QED BY <1>1, <1>2

LEMMA ShownNext == MapInv' /\ HistoryInv' => Unique(Shown)' /\ (Mapped = Contents(Shown))'
  BY ShownIs, PTL

----------------------------------------------------------------------------

(* A step of the map, by what it does to the items that are shown.         *)
LEMMA StoredIs ==
  ASSUME Unique(Shown), Mapped = Contents(Shown), NEW name
  PROVE  Map!Stored(name) = Named(Shown, name)
<1>1. Map!Stored(name) = {Item(other, Mapped[other]) : other \in DOMAIN Mapped \cap {name}}
  BY DEF Map!Stored, Map!Field, Item
<1> QED BY <1>1, ContentsNamed

LEMMA SetShown ==
  ASSUME MapInv, HistoryInv, MapInv', HistoryInv', NEW item \in Items,
         Shown' = With(Shown, item), reply' = [call |-> "set", result |-> Named(Shown, item.name)]
  PROVE  Map!Next
<1>1. Unique(Shown) /\ Mapped = Contents(Shown)
  BY ShownIs
<1>2. Mapped' = Contents(With(Shown, item))
  BY ShownNext
<1>3. Mapped' = [name \in DOMAIN Mapped \cup {item.name} |->
                   IF name = item.name THEN item.value ELSE Mapped[name]]
  <2>1. Contents(With(Shown, item)) =
          [name \in DOMAIN Contents(Shown) \cup {item.name} |->
             IF name = item.name THEN item.value ELSE Contents(Shown)[name]]
    BY <1>1, ContentsWith
  <2> QED BY <1>1, <1>2, <2>1, Zenon
<1>4. Map!Stored(item.name) = Named(Shown, item.name)
  BY <1>1, StoredIs
<1>5. Map!Set(item.name, item.value)
  BY <1>3, <1>4 DEF Map!Set, Map!Answers
<1>6. item.name \in Names /\ item.value \in Values
  BY ItemFields
<1> QED BY <1>5, <1>6 DEF Map!Next

LEMMA DeleteShown ==
  ASSUME MapInv, HistoryInv, MapInv', HistoryInv', NEW name \in Names,
         Shown' = Without(Shown, name), reply' = [call |-> "delete", result |-> Named(Shown, name)]
  PROVE  Map!Next
<1>1. Unique(Shown) /\ Mapped = Contents(Shown)
  BY ShownIs
<1>2. Mapped' = Contents(Without(Shown, name))
  BY ShownNext
<1>3. Mapped' = [other \in DOMAIN Mapped \ {name} |-> Mapped[other]]
  BY <1>1, <1>2, ContentsWithout
<1>4. Map!Stored(name) = Named(Shown, name)
  BY <1>1, StoredIs
<1>5. Map!Delete(name)
  BY <1>3, <1>4 DEF Map!Delete, Map!Answers
<1> QED BY <1>5 DEF Map!Next

(* The steps that show the same items as before.                           *)
LEMMA SameShown ==
  ASSUME MapInv, HistoryInv, MapInv', HistoryInv', Shown' = Shown
  PROVE  /\ Mapped' = Mapped
         /\ \A name \in Names : reply' = [call |-> "get", result |-> Named(Shown, name)] => Map!Next
         /\ reply' = [call |-> "scan", result |-> Shown] => Map!Next
         /\ reply' = [call |-> "oom", result |-> {}] => Map!Next
         /\ reply' = [call |-> "none", result |-> {}] => Map!Next
<1>1. Unique(Shown) /\ Mapped = Contents(Shown)
  BY ShownIs
<1>2. Mapped' = Mapped
  BY <1>1, ShownNext
<1>3. ASSUME NEW name \in Names, reply' = [call |-> "get", result |-> Named(Shown, name)] PROVE Map!Next
  <2>1. Map!Stored(name) = Named(Shown, name)
    BY <1>1, StoredIs
  <2>2. Map!Get(name)
    BY <1>2, <1>3, <2>1 DEF Map!Get, Map!Answers
  <2> QED BY <2>2 DEF Map!Next
<1>4. ASSUME reply' = [call |-> "scan", result |-> Shown] PROVE Map!Next
  <2>1. Pairs(Mapped) = Shown
    BY <1>1, PairsOf
  <2>2. {Map!Field(name) : name \in DOMAIN Mapped} = Shown
    BY <2>1 DEF Pairs, Map!Field, Item
  <2>3. Map!Scan
    BY <1>2, <1>4, <2>2 DEF Map!Scan, Map!Answers
  <2> QED BY <2>3 DEF Map!Next
<1>5. ASSUME reply' = [call |-> "oom", result |-> {}] PROVE Map!Next
  BY <1>2, <1>5 DEF Map!Next, Map!SetFails, Map!Answers
<1>6. ASSUME reply' = [call |-> "none", result |-> {}] PROVE Map!Next
  BY <1>2, <1>6 DEF Map!Next, Map!Asks, Map!Answers
<1> QED BY <1>2, <1>3, <1>4, <1>5, <1>6

LEMMA NothingShown == Contents({}) = [f \in {} |-> CHOOSE v \in Values : TRUE]
<1>1. {item.name : item \in {}} = {}
  OBVIOUS
<1>2. Contents({}) = [name \in {} |-> (CHOOSE item \in {} : item.name = name).value]
  BY <1>1 DEF Contents
<1> QED BY <1>2

----------------------------------------------------------------------------

(* The items of a table when one of its buckets changes.                   *)
LEMMA ItemsPut ==
  ASSUME NEW T, NEW n \in Nat \ {0}, IsTable(T, n), NEW at \in 0 .. n - 1, NEW b \in Filled,
         T[at].dib = 0
  PROVE  ItemsAt([T EXCEPT ![at] = b], Occupied([T EXCEPT ![at] = b], n, {}))
           = ItemsAt(T, Occupied(T, n, {})) \cup {b.item}
<1> DEFINE P == [T EXCEPT ![at] = b]
<1>1. P[at] = b /\ \A k \in 0 .. n - 1 : k # at => P[k] = T[k]
  BY DEF IsTable
<1>2. Occupied(P, n, {}) = Occupied(T, n, {}) \cup {at}
  BY OccupiedPut
<1>3. at \notin Occupied(T, n, {}) /\ Occupied(T, n, {}) \subseteq 0 .. n - 1
  BY DEF Occupied
<1> HIDE DEF P
<1>4. ItemsAt(P, Occupied(T, n, {}) \cup {at}) = ItemsAt(T, Occupied(T, n, {})) \cup {b.item}
  BY <1>1, <1>3 DEF ItemsAt
<1> QED BY <1>2, <1>4, Zenon DEF P

LEMMA ItemsWithout ==
  ASSUME NEW T, NEW U, NEW at \in U,
         \A j, k \in U : T[j].item.name = T[k].item.name => j = k
  PROVE  ItemsAt(T, U \ {at}) = Without(ItemsAt(T, U), T[at].item.name)
<1>1. ASSUME NEW j \in U \ {at} PROVE T[j].item \in Without(ItemsAt(T, U), T[at].item.name)
  BY DEF ItemsAt, Without
<1>2. ASSUME NEW item \in Without(ItemsAt(T, U), T[at].item.name) PROVE item \in ItemsAt(T, U \ {at})
  BY DEF ItemsAt, Without
<1> DEFINE A == ItemsAt(T, U \ {at})
           B == Without(ItemsAt(T, U), T[at].item.name)
<1>3. \A item \in A : item \in B
  BY <1>1 DEF ItemsAt
<1>4. \A item \in B : item \in A
  BY <1>2
<1> HIDE DEF A, B
<1>5. A = B
  BY <1>3, <1>4
<1> QED BY <1>5 DEF A, B

LEMMA ItemsReplaced ==
  ASSUME NEW T, NEW n \in Nat \ {0}, IsTable(T, n), NEW at \in 0 .. n - 1, NEW b \in Filled,
         T[at].dib > 0,
         \A j, k \in Occupied(T, n, {}) : T[j].item.name = T[k].item.name => j = k
  PROVE  ItemsAt([T EXCEPT ![at] = b], Occupied([T EXCEPT ![at] = b], n, {}))
           = Without(ItemsAt(T, Occupied(T, n, {})), T[at].item.name) \cup {b.item}
<1> DEFINE P == [T EXCEPT ![at] = b]
           U == Occupied(T, n, {})
<1>1. P[at] = b /\ \A k \in 0 .. n - 1 : k # at => P[k] = T[k]
  BY DEF IsTable
<1>2. Occupied(P, n, {}) = U \cup {at}
  BY OccupiedPut
<1>3. at \in U /\ U \subseteq 0 .. n - 1
  BY DEF Occupied
<1>4. \A j, k \in U : T[j].item.name = T[k].item.name => j = k
  OBVIOUS
<1> HIDE DEF P, U
<1>5. Occupied(P, n, {}) = U
  BY <1>2, <1>3
<1>6. ItemsAt(P, U) = ItemsAt(T, U \ {at}) \cup {b.item}
  BY <1>1, <1>3 DEF ItemsAt
<1>7. ItemsAt(T, U \ {at}) = Without(ItemsAt(T, U), T[at].item.name)
  BY <1>3, <1>4, ItemsWithout
<1> QED BY <1>5, <1>6, <1>7, Zenon DEF P, U

(* An item that is there is the one of its name.                           *)
LEMMA NamedIs ==
  ASSUME NEW S, Unique(S), NEW item \in S
  PROVE  Named(S, item.name) = {item} /\ Without(S, item.name) = S \ {item}
  BY DEF Unique, Named, Without

LEMMA NamedNone ==
  ASSUME NEW S, NEW name, \A item \in S : item.name # name
  PROVE  Named(S, name) = {} /\ Without(S, name) = S
  BY DEF Named, Without

----------------------------------------------------------------------------

LEMMA HistoryBegins ==
  ASSUME MapInv, HistoryInv, MapInv', NEW c, NEW loop \in {"grow", "place", "get", "delete", "scan"},
         NEW b, NEW at \in Nat, Begins(c, loop, b, at), loop = "scan" => at = 0
  PROVE  HistoryInv' /\ Map!Next
<1>1. /\ pc = "idle" /\ pc' = loop /\ before' = Contents(In(buckets, nbuckets)) /\ i' = at
      /\ reply' = [call |-> "none", result |-> {}] /\ yielded' = yielded
      /\ UNCHANGED <<buckets, nbuckets>>
  BY DEF Begins, sizeVars
<1>2. ~Tables /\ Hole = {} /\ ~Tables' /\ Hole' = {}
  BY <1>1 DEF Tables, Hole
<1>3. MapItems = In(buckets, nbuckets) /\ MapItems' = MapItems
  <2>1. MapItems' = ItemsAt(buckets, Occupied(buckets, nbuckets, {}))
    BY <1>1, <1>2, MapItemsNext
  <2>2. MapItems = ItemsAt(buckets, Occupied(buckets, nbuckets, {}))
    BY <1>2, MapItemsAtBuckets
  <2> QED BY <2>1, <2>2 DEF In, ItemsAt
<1>4. BeforeItems' = Pairs(before')
  BY DEF BeforeItems, Pairs
<1>5. /\ Pairs(before') = MapItems
      /\ DOMAIN before' \subseteq Names /\ before' \in [DOMAIN before' -> Values]
  <2>1. Unique(MapItems)
    BY MapItemsUnique
  <2>2. before' = Contents(MapItems)
    BY <1>1, <1>3
  <2> QED BY <2>1, <2>2, PairsOf
<1>6. Shown' = Shown
  BY <1>1, <1>4, <1>5 DEF Shown
<1>7. HistoryInv'
  <2>1. yielded' = {}
    BY <1>1 DEF HistoryInv
  <2>2. loop = "scan" => In(buckets, i)' = {}
    <3>1. loop = "scan" => i' = 0
      BY <1>1
    <3>2. 0 .. 0 - 1 = {}
      OBVIOUS
    <3> QED BY <3>1, <3>2 DEF In, Occupied
  <2>3. MapItems' = BeforeItems'
    BY <1>3, <1>4, <1>5
  <2> QED BY <1>1, <1>2, <1>5, <2>1, <2>2, <2>3 DEF HistoryInv
<1> QED BY <1>1, <1>6, <1>7, SameShown

(* A call returns.                                                         *)
LEMMA HistoryReturns ==
  ASSUME NEW c, NEW result, Returns(c, result)
  PROVE  HistoryInv' /\ Shown' = MapItems' /\ reply' = [call |-> c, result |-> result]
         /\ ~Tables' /\ Hole' = {}
<1>1. /\ pc' = "idle" /\ before' = Contents({}) /\ yielded' = {}
      /\ reply' = [call |-> c, result |-> result]
  BY DEF Returns
<1>2. ~Tables' /\ Hole' = {} /\ Shown' = MapItems'
  BY <1>1 DEF Tables, Hole, Shown
<1>3. DOMAIN before' \subseteq Names /\ before' \in [DOMAIN before' -> Values]
  BY <1>1, NothingShown
<1>4. HistoryInv'
  BY <1>1, <1>2, <1>3 DEF HistoryInv
<1> QED BY <1>1, <1>2, <1>4

(* A call goes on.                                                         *)
LEMMA HistoryGoesOn ==
  ASSUME HistoryInv, pc # "idle", pc' # "idle", UNCHANGED <<before, reply>>
  PROVE  /\ BeforeItems' = BeforeItems /\ Shown' = Shown /\ Shown = BeforeItems /\ reply' = reply
         /\ DOMAIN before' \subseteq Names /\ before' \in [DOMAIN before' -> Values]
<1>1. BeforeItems' = BeforeItems
  BY DEF BeforeItems
<1> QED BY <1>1 DEF Shown, HistoryInv

LEMMA BeforeUnique ==
  ASSUME HistoryInv
  PROVE  Unique(BeforeItems)
<1>1. DOMAIN before \subseteq Names /\ before \in [DOMAIN before -> Values]
  BY DEF HistoryInv
<1>2. BeforeItems = Pairs(before)
  BY DEF BeforeItems, Pairs
<1> QED BY <1>1, <1>2, PairsUnique

----------------------------------------------------------------------------

(* What is shown while a set looks for a place, and the items in the table.*)
LEMMA AtPlaceItems ==
  ASSUME MapInv, HistoryInv, pc = "place"
  PROVE  /\ MapItems = ItemsAt(buckets, Occupied(buckets, nbuckets, {})) /\ Unique(MapItems)
         /\ Shown = BeforeItems /\ Unique(BeforeItems) /\ BeforeItems = Pairs(before)
         /\ \A name : name \in DOMAIN before <=> \E item \in BeforeItems : item.name = name
         /\ entry.item \in Items
         /\ \/ MapItems = BeforeItems
            \/ \E new \in Items :
                 /\ new.name \notin DOMAIN before
                 /\ MapItems \cup {entry.item} = BeforeItems \cup {new}
                 /\ \A item \in MapItems : item.name # entry.item.name
<1>1. ~Tables /\ Hole = {} /\ entry.item \in Items
  BY AtPlace
<1>2. MapItems = ItemsAt(buckets, Occupied(buckets, nbuckets, {}))
  BY <1>1, MapItemsAtBuckets
<1>3. BeforeItems = Pairs(before)
  BY DEF BeforeItems, Pairs
<1>4. \A name : name \in DOMAIN before <=> \E item \in BeforeItems : item.name = name
  <2>1. ASSUME NEW name \in DOMAIN before PROVE \E item \in BeforeItems : item.name = name
    <3>1. Item(name, before[name]) \in BeforeItems /\ Item(name, before[name]).name = name
      BY ItemFields DEF BeforeItems
    <3> QED BY <3>1
  <2>2. \A item \in BeforeItems : item.name \in DOMAIN before
    BY ItemFields DEF BeforeItems
  <2> QED BY <2>1, <2>2
<1>5. Shown = BeforeItems
  BY DEF Shown
<1>6. \/ MapItems = BeforeItems
      \/ \E new \in Items :
           /\ new.name \notin DOMAIN before
           /\ MapItems \cup {entry.item} = BeforeItems \cup {new}
           /\ \A item \in MapItems : item.name # entry.item.name
  BY DEF HistoryInv
<1> QED BY <1>1, <1>2, <1>3, <1>4, <1>5, <1>6, MapItemsUnique, BeforeUnique

(* When the item in hand is of a name no bucket has, one item is new.      *)
LEMMA OneIsNew ==
  ASSUME MapInv, HistoryInv, pc = "place", \A item \in MapItems : item.name # entry.item.name
  PROVE  \E new \in Items :
           /\ new.name \notin DOMAIN before
           /\ MapItems \cup {entry.item} = BeforeItems \cup {new}
<1>1. CASE MapItems = BeforeItems
  <2>1. entry.item \in Items /\ entry.item.name \notin DOMAIN before
    BY <1>1, AtPlaceItems
  <2> QED BY <1>1, <2>1
<1>2. CASE MapItems # BeforeItems
  BY <1>2, AtPlaceItems
<1> QED BY <1>1, <1>2

LEMMA HistoryPlacePuts ==
  ASSUME MapInv, HistoryInv, MapInv', Place, buckets[i].dib = 0
  PROVE  HistoryInv' /\ Map!Next
<1> DEFINE n == nbuckets
           at == i
           P == [buckets EXCEPT ![at] = entry]
<1>1. pc = "place" /\ Returns("set", {}) /\ buckets' = P /\ nbuckets' = n
  BY DEF Place
<1>2. ~Tables /\ at \in 0 .. n - 1 /\ entry \in Filled
  BY <1>1, AtPlace
<1>3. n \in Nat \ {0} /\ IsTable(buckets, n)
  BY <1>2, AtBuckets
<1>4. /\ HistoryInv' /\ Shown' = MapItems' /\ reply' = [call |-> "set", result |-> {}]
      /\ ~Tables' /\ Hole' = {}
  BY <1>1, HistoryReturns
<1>5. buckets[at].dib < entry.dib /\ buckets[at].dib = 0
  BY <1>2 DEF Filled
<1>6. /\ MapItems = ItemsAt(buckets, Occupied(buckets, n, {})) /\ Shown = BeforeItems
      /\ \A name : name \in DOMAIN before <=> \E item \in BeforeItems : item.name = name
  BY <1>1, AtPlaceItems
<1>7. \A item \in MapItems : item.name # entry.item.name
  <2>1. \A j \in Occupied(buckets, n, {}) : buckets[j].item.name # entry.item.name
    BY <1>1, <1>5, PlaceIsNew
  <2> QED BY <1>6, <2>1 DEF ItemsAt
<1>8. PICK new \in Items : new.name \notin DOMAIN before /\ MapItems \cup {entry.item} = BeforeItems \cup {new}
  BY <1>1, <1>7, OneIsNew
<1>9. MapItems' = MapItems \cup {entry.item}
  <2> HIDE DEF n, at
  <2>1. ItemsAt(P, Occupied(P, n, {})) = ItemsAt(buckets, Occupied(buckets, n, {})) \cup {entry.item}
    BY <1>2, <1>3, <1>5, ItemsPut
  <2> HIDE DEF P
  <2>2. MapItems' = ItemsAt(P, Occupied(P, n, {}))
    BY <1>1, <1>4, MapItemsNext
  <2> QED BY <1>6, <2>1, <2>2
<1>10. Shown' = With(Shown, new) /\ Named(Shown, new.name) = {}
  <2>1. \A item \in Shown : item.name # new.name
    BY <1>6, <1>8
  <2> QED BY <1>4, <1>6, <1>8, <1>9, <2>1 DEF With, Named
<1>11. reply' = [call |-> "set", result |-> Named(Shown, new.name)]
  BY <1>4, <1>10
<1> QED BY <1>4, <1>10, <1>11, SetShown

LEMMA HistoryPlaceReplaces ==
  ASSUME MapInv, HistoryInv, MapInv', Place, buckets[i].dib > 0,
         SameName(entry.item.name, buckets[i].item.name)
  PROVE  HistoryInv' /\ Map!Next
<1> DEFINE n == nbuckets
           at == i
           here == buckets[at].item
           b == [buckets[at] EXCEPT !.item = entry.item]
           P == [buckets EXCEPT ![at] = b]
<1>1. /\ pc = "place" /\ Returns("set", {here}) /\ nbuckets' = n
      /\ buckets' = [buckets EXCEPT ![at].item = entry.item]
  BY DEF Place
<1>2. ~Tables /\ Hole = {} /\ at \in 0 .. n - 1 /\ entry.item \in Items
  BY <1>1, AtPlace
<1>3. /\ n \in Nat \ {0} /\ IsTable(buckets, n) /\ Ordered(buckets, n, {}) /\ Used = Occupied(buckets, n, {})
      /\ \A j, k \in Used : buckets[j].item.name = buckets[k].item.name => j = k
  BY <1>2, AtBuckets
<1>4. entry.item.name = buckets[at].item.name /\ buckets[at].dib > 0
  BY DEF SameName
<1>5. /\ HistoryInv' /\ Shown' = MapItems' /\ reply' = [call |-> "set", result |-> {here}]
      /\ ~Tables' /\ Hole' = {}
  BY <1>1, HistoryReturns
<1>6. /\ MapItems = ItemsAt(buckets, Occupied(buckets, n, {})) /\ Shown = BeforeItems /\ Unique(MapItems)
  BY <1>1, AtPlaceItems
<1>7. here \in MapItems
  BY <1>2, <1>4, <1>6 DEF ItemsAt, Occupied
<1>8. MapItems = BeforeItems
  BY <1>1, <1>4, <1>7, AtPlaceItems
<1> HIDE DEF n, at
<1>9. buckets' = P /\ b \in Filled
  BY <1>1, <1>2, <1>3, <1>4, ValueReplaced
<1>10. b.item = entry.item
  <2>1. buckets[at] \in Filled
    BY <1>2, <1>3, <1>4, BucketFilled
  <2> QED BY <2>1 DEF Filled
<1> HIDE DEF b
<1>11. MapItems' = Without(MapItems, here.name) \cup {entry.item}
  <2>1. /\ n \in Nat \ {0} /\ IsTable(buckets, n) /\ at \in 0 .. n - 1 /\ b \in Filled /\ buckets[at].dib > 0
        /\ \A j, k \in Occupied(buckets, n, {}) : buckets[j].item.name = buckets[k].item.name => j = k
    BY <1>2, <1>3, <1>4, <1>9
  <2>3. ItemsAt(P, Occupied(P, n, {})) = Without(ItemsAt(buckets, Occupied(buckets, n, {})), here.name) \cup {b.item}
    BY ONLY <2>1, ItemsReplaced
  <2> HIDE DEF P
  <2>2. MapItems' = ItemsAt(P, Occupied(P, n, {}))
    BY <1>1, <1>5, <1>9, MapItemsNext
  <2> QED BY <1>6, <1>10, <2>2, <2>3
<1>12. Shown' = With(Shown, entry.item)
  BY <1>4, <1>5, <1>6, <1>8, <1>11 DEF With, Without
<1>13. Named(Shown, entry.item.name) = {here}
  BY <1>4, <1>6, <1>7, <1>8, NamedIs
<1> QED BY <1>2, <1>5, <1>12, <1>13, SetShown

(* The items of some buckets, when the item of one of them is replaced.    *)
LEMMA ItemsSplit ==
  ASSUME NEW T, NEW U, NEW at \in U
  PROVE  ItemsAt(T, U) = ItemsAt(T, U \ {at}) \cup {T[at].item}
  BY DEF ItemsAt

LEMMA ItemsSame ==
  ASSUME NEW T, NEW P, NEW U, \A k \in U : P[k].item = T[k].item
  PROVE  ItemsAt(P, U) = ItemsAt(T, U)
  BY DEF ItemsAt

LEMMA HistoryPlaceKeepsOn ==
  ASSUME MapInv, HistoryInv, MapInv', Place, buckets[i].dib > 0,
         ~SameName(entry.item.name, buckets[i].item.name), ~(buckets[i].dib < entry.dib)
  PROVE  HistoryInv' /\ UNCHANGED <<Mapped, reply>>
<1>1. /\ pc = "place" /\ pc' = "place" /\ buckets' = buckets /\ nbuckets' = nbuckets
      /\ entry' = [entry EXCEPT !.dib = @ + 1]
      /\ UNCHANGED <<before, reply, yielded>>
  BY DEF Place, Goes, sizeVars
<1>2. entry'.item = entry.item
  BY <1>1, AtPlace DEF Filled
<1>3. ~Tables' /\ Hole' = {}
  BY <1>1 DEF Tables, Hole
<1>4. MapItems' = MapItems
  <2>1. MapItems' = ItemsAt(buckets, Occupied(buckets, nbuckets, {}))
    BY <1>1, <1>3, MapItemsNext
  <2> QED BY <1>1, <2>1, AtPlaceItems
<1>5. /\ BeforeItems' = BeforeItems /\ Shown' = Shown /\ reply' = reply
      /\ DOMAIN before' \subseteq Names /\ before' \in [DOMAIN before' -> Values]
  BY <1>1, HistoryGoesOn
<1>6. HistoryInv'
  <2>1. yielded' = {}
    BY <1>1 DEF HistoryInv
  <2>2. \/ MapItems' = BeforeItems'
        \/ \E new \in Items :
             /\ new.name \notin DOMAIN before'
             /\ MapItems' \cup {entry'.item} = BeforeItems' \cup {new}
             /\ \A item \in MapItems' : item.name # entry'.item.name
    BY <1>1, <1>2, <1>4, <1>5, AtPlaceItems
  <2> QED BY <1>1, <1>3, <1>5, <2>1, <2>2 DEF HistoryInv
<1>7. Mapped' = Mapped
  BY <1>5, <1>6, SameShown
<1> QED BY <1>5, <1>6, <1>7

(* The displaced item is now the one in hand, and no bucket has its name.  *)
LEMMA HistoryPlaceSwaps ==
  ASSUME MapInv, HistoryInv, MapInv', Place, buckets[i].dib > 0,
         ~SameName(entry.item.name, buckets[i].item.name), buckets[i].dib < entry.dib
  PROVE  HistoryInv' /\ UNCHANGED <<Mapped, reply>>
<1> DEFINE n == nbuckets
           at == i
           here == buckets[at]
           P == [buckets EXCEPT ![at] = entry]
           U == Occupied(buckets, n, {})
<1>1. /\ pc = "place" /\ pc' = "place" /\ buckets' = P /\ nbuckets' = n
      /\ entry' = [here EXCEPT !.dib = @ + 1]
      /\ UNCHANGED <<before, reply, yielded>>
  BY DEF Place, Goes, sizeVars
<1>2. ~Tables /\ Hole = {} /\ at \in 0 .. n - 1 /\ entry \in Filled /\ entry.item \in Items
  BY <1>1, AtPlace
<1>3. /\ n \in Nat \ {0} /\ IsTable(buckets, n)
      /\ \A j, k \in U : buckets[j].item.name = buckets[k].item.name => j = k
  BY <1>2, AtBuckets
<1>4. here.dib > 0 /\ here.item.name # entry.item.name
  BY DEF SameName
<1>5. \A j \in U : buckets[j].item.name # entry.item.name
  BY <1>1, <1>4, PlaceIsNew
<1>6. /\ MapItems = ItemsAt(buckets, U) /\ Unique(MapItems)
      /\ \A name : name \in DOMAIN before <=> \E item \in BeforeItems : item.name = name
  BY <1>1, AtPlaceItems
<1>7. PICK new \in Items : new.name \notin DOMAIN before /\ MapItems \cup {entry.item} = BeforeItems \cup {new}
  <2>1. \A item \in MapItems : item.name # entry.item.name
    BY <1>5, <1>6 DEF ItemsAt
  <2> QED BY <1>1, <2>1, OneIsNew
<1> HIDE DEF n, at
<1>8. here \in Filled /\ entry'.item = here.item
  <2>1. here \in Filled
    BY <1>2, <1>3, <1>4, BucketFilled
  <2> QED BY <1>1, <2>1 DEF Filled
<1>9. at \in U /\ U \subseteq 0 .. n - 1
  BY <1>2, <1>4 DEF Occupied
<1>10. P[at] = entry /\ \A k \in 0 .. n - 1 : k # at => P[k] = buckets[k]
  BY <1>2, <1>3 DEF IsTable
<1>11. Occupied(P, n, {}) = U
  <2>1. Occupied(P, n, {}) = U \cup {at}
    BY <1>2, <1>3, OccupiedPut
  <2> QED BY <1>9, <2>1
<1>12. MapItems' = ItemsAt(P, U)
  <2>1. ~Tables' /\ Hole' = {}
    BY <1>1 DEF Tables, Hole
  <2> HIDE DEF P, U
  <2>2. MapItems' = ItemsAt(P, Occupied(P, n, {}))
    BY <1>1, <2>1, MapItemsNext
  <2> QED BY <1>11, <2>2
<1> HIDE DEF P, U
<1> DEFINE others == ItemsAt(buckets, U \ {at})
<1>13. MapItems = others \cup {here.item} /\ MapItems' = others \cup {entry.item}
  <2>1. at \in U /\ \A k \in U : k # at => P[k] = buckets[k]
    BY <1>9, <1>10
  <2>2. ItemsAt(P, U \ {at}) = ItemsAt(buckets, U \ {at})
    BY <2>1, ItemsSame
  <2>3. ItemsAt(buckets, U) = ItemsAt(buckets, U \ {at}) \cup {buckets[at].item}
    BY <2>1, ItemsSplit
  <2>4. ItemsAt(P, U) = ItemsAt(P, U \ {at}) \cup {P[at].item}
    BY <2>1, ItemsSplit
  <2> QED BY <1>6, <1>10, <1>12, <2>2, <2>3, <2>4
<1>14. \A item \in MapItems' : item.name # here.item.name
  <2>1. \A j \in U \ {at} : buckets[j].item.name # here.item.name
    BY <1>3, <1>9
  <2>2. \A item \in others : item.name # here.item.name
    BY <2>1 DEF ItemsAt
  <2> HIDE DEF others
  <2> QED BY <1>4, <1>13, <2>2
<1> HIDE DEF others, here
<1>15. /\ BeforeItems' = BeforeItems /\ Shown' = Shown /\ reply' = reply
       /\ DOMAIN before' \subseteq Names /\ before' \in [DOMAIN before' -> Values]
  BY <1>1, HistoryGoesOn
<1>16. HistoryInv'
  <2>1. yielded' = {}
    BY <1>1 DEF HistoryInv
  <2>2. MapItems' \cup {here.item} = BeforeItems \cup {new}
    BY <1>7, <1>13
  <2>3. \E m \in Items :
          /\ m.name \notin DOMAIN before'
          /\ MapItems' \cup {entry'.item} = BeforeItems' \cup {m}
          /\ \A item \in MapItems' : item.name # entry'.item.name
    BY <1>1, <1>7, <1>8, <1>14, <1>15, <2>2
  <2>4. ~Tables'
    BY <1>1 DEF Tables
  <2> QED BY <1>1, <1>15, <2>1, <2>3, <2>4 DEF HistoryInv
<1>17. Mapped' = Mapped
  BY <1>15, <1>16, SameShown
<1> QED BY <1>15, <1>16, <1>17

(* A step of the map, or one that no caller sees.                          *)
MapStep == Map!Next \/ UNCHANGED <<Mapped, reply>>

LEMMA HistoryPlace ==
  ASSUME MapInv, HistoryInv, MapInv', Place
  PROVE  HistoryInv' /\ MapStep
<1>1. pc = "place"
  BY DEF Place
<1>2. buckets[i].dib \in Nat
  BY <1>1, AtPlace, AtBuckets, BucketFilled
<1>3. CASE buckets[i].dib = 0
  BY <1>3, HistoryPlacePuts DEF MapStep
<1>4. CASE buckets[i].dib > 0 /\ SameName(entry.item.name, buckets[i].item.name)
  BY <1>4, HistoryPlaceReplaces DEF MapStep
<1>5. CASE buckets[i].dib > 0 /\ ~SameName(entry.item.name, buckets[i].item.name)
  BY <1>5, HistoryPlaceKeepsOn, HistoryPlaceSwaps DEF MapStep
<1> QED BY <1>2, <1>3, <1>4, <1>5

----------------------------------------------------------------------------

(* A delete whose item is out of the table returns it.                     *)
LEMMA DeleteReturns ==
  ASSUME MapInv, HistoryInv, MapInv', pc # "idle",
         entry.item \in BeforeItems, Returns("delete", {entry.item}),
         MapItems' = BeforeItems \ {entry.item}
  PROVE  HistoryInv' /\ MapStep
<1>1. /\ HistoryInv' /\ Shown' = MapItems'
      /\ reply' = [call |-> "delete", result |-> {entry.item}]
  BY HistoryReturns
<1>2. Shown = BeforeItems /\ Unique(Shown)
  BY BeforeUnique DEF Shown
<1>3. Named(Shown, entry.item.name) = {entry.item}
      /\ Without(Shown, entry.item.name) = Shown \ {entry.item}
  BY <1>2, NamedIs
<1>4. entry.item.name \in Names
  BY <1>2, ItemFields DEF Unique
<1>5. Shown' = Without(Shown, entry.item.name)
  BY <1>1, <1>2, <1>3
<1> QED BY <1>1, <1>3, <1>4, <1>5, DeleteShown DEF MapStep

(* A step of a call other than the placing of a set, from and to a place   *)
(* where the same is said of the items, and none of them is touched.       *)
LEMMA ItemsStay ==
  ASSUME MapInv, HistoryInv, MapInv', UNCHANGED <<before, reply, yielded, call, entry>>,
         pc # "idle", pc' # "idle", pc # "scan", pc' # "scan", pc # "place", pc' # "place",
         MapItems' = MapItems,
         \/ MapItems = BeforeItems /\ ~(pc' \in {"shift", "shrink"} \/ (Tables' /\ call = "delete"))
         \/ /\ entry.item \in BeforeItems /\ MapItems = BeforeItems \ {entry.item}
            /\ ~(pc' \in {"get", "delete", "grow"} \/ (Tables' /\ call = "set"))
  PROVE  HistoryInv' /\ MapStep
<1>1. /\ BeforeItems' = BeforeItems /\ Shown' = Shown /\ reply' = reply
      /\ DOMAIN before' \subseteq Names /\ before' \in [DOMAIN before' -> Values]
  BY HistoryGoesOn
<1>2. HistoryInv'
  <2>1. yielded' = {}
    BY DEF HistoryInv
  <2> QED BY <1>1, <2>1 DEF HistoryInv
<1>3. Mapped' = Mapped
  BY <1>1, <1>2, SameShown
<1> QED BY <1>1, <1>2, <1>3 DEF MapStep

(* What is said of the items while a table is resized.                     *)
LEMMA AtResize ==
  ASSUME MapInv, HistoryInv, Tables
  PROVE  /\ call \in {"set", "delete"}
         /\ call = "set" => MapItems = BeforeItems
         /\ call = "delete" => entry.item \in BeforeItems /\ MapItems = BeforeItems \ {entry.item}
<1>1. call \in {"set", "delete"}
  BY DEF MapInv, CallInv
<1> QED BY <1>1 DEF HistoryInv

LEMMA ResizeStays ==
  ASSUME MapInv, HistoryInv, MapInv', Tables, Tables', MapItems' = MapItems,
         UNCHANGED <<before, reply, yielded, call, entry>>
  PROVE  HistoryInv' /\ MapStep
<1>1. pc \in {"rehash", "carry"} /\ pc' \in {"rehash", "carry"}
  BY DEF Tables
<1>2. \/ call = "set" /\ MapItems = BeforeItems
      \/ call = "delete" /\ entry.item \in BeforeItems /\ MapItems = BeforeItems \ {entry.item}
  BY AtResize
<1> QED BY <1>1, <1>2, ItemsStay

LEMMA HistoryAllocate ==
  ASSUME MapInv, HistoryInv, MapInv', Allocate
  PROVE  HistoryInv' /\ MapStep
<1>1. pc \in {"grow", "shrink"} /\ ~Tables /\ Hole = {}
  BY DEF Allocate, Tables, Hole
<1>2. /\ pc = "grow" => MapItems = BeforeItems /\ call = "set"
      /\ pc = "shrink" => /\ entry.item \in BeforeItems /\ MapItems = BeforeItems \ {entry.item}
                          /\ call = "delete"
  BY DEF HistoryInv, MapInv, CallInv
<1>3. MapItems = ItemsAt(buckets, Occupied(buckets, nbuckets, {}))
  BY <1>1, MapItemsAtBuckets
<1>4. CASE /\ IF pc = "grow" THEN Returns("oom", {}) ELSE Returns("delete", {entry.item})
           /\ UNCHANGED <<buckets, count, nbuckets, growat, shrinkat>>
  <2>1. \E c, result : Returns(c, result)
    BY <1>4
  <2>2. ~Tables' /\ Hole' = {} /\ HistoryInv' /\ Shown' = MapItems'
    BY <2>1, HistoryReturns
  <2>3. MapItems' = MapItems
    <3>1. buckets' = buckets /\ nbuckets' = nbuckets
      BY <1>4
    <3>2. MapItems' = ItemsAt(buckets, Occupied(buckets, nbuckets, {}))
      BY <2>2, <3>1, MapItemsNext
    <3> QED BY <1>3, <3>2
  <2>4. CASE pc = "grow"
    <3>1. Shown' = Shown
      BY <1>2, <2>2, <2>3, <2>4 DEF Shown
    <3>2. reply' = [call |-> "oom", result |-> {}]
      BY <1>4, <2>4 DEF Returns
    <3> QED BY <2>2, <3>1, <3>2, SameShown DEF MapStep
  <2>5. CASE pc = "shrink"
    <3>1. Returns("delete", {entry.item})
      BY <1>4, <2>5
    <3> QED BY <1>2, <2>3, <2>5, <3>1, DeleteReturns
  <2> QED BY <1>1, <2>4, <2>5
<1>5. ASSUME NEW size \in NewCap(IF pc = "grow" THEN nbuckets * GrowFactor ELSE nbuckets \div 2),
             newBuckets' = [j \in 0 .. size - 1 |-> Empty], source' = 0, Goes("rehash", i),
             UNCHANGED <<buckets, count, entry>>
      PROVE  HistoryInv' /\ MapStep
  <2> DEFINE T == [j \in 0 .. size - 1 |-> Empty]
  <2>1. size \in Nat \ {0}
    BY NewCapRange, SizeRange
  <2>2. Cardinality(DOMAIN T) = size /\ Occupied(T, size, {}) = {}
    BY <2>1, EmptyTable
  <2>3. pc' = "rehash" /\ newBuckets' = T /\ UNCHANGED <<before, reply, yielded, call, entry, nbuckets, buckets>>
    BY <1>5 DEF Goes, sizeVars
  <2> HIDE DEF T
  <2>4. Tables' /\ NewSize' = size
    BY <2>2, <2>3 DEF Tables, NewSize
  <2>5. MapItems' = ItemsAt(T, Occupied(T, size, {})) \cup ItemsAt(buckets, Occupied(buckets, nbuckets, 0 .. source' - 1))
    BY <2>3, <2>4, MapItemsNextNew
  <2>6. MapItems' = MapItems
    <3>1. 0 .. source' - 1 = {}
      BY <1>5
    <3>2. ItemsAt(T, {}) = {}
      BY DEF ItemsAt
    <3>3. MapItems' = ItemsAt(T, {}) \cup ItemsAt(buckets, Occupied(buckets, nbuckets, {}))
      BY <2>2, <2>5, <3>1
    <3> QED BY <1>3, <3>2, <3>3
  <2> QED BY <1>1, <1>2, <2>3, <2>6, ItemsStay
<1> QED BY <1>4, <1>5 DEF Allocate

LEMMA HistoryRehash ==
  ASSUME MapInv, HistoryInv, MapInv', Rehash
  PROVE  HistoryInv' /\ MapStep
<1> DEFINE n == nbuckets
           src == source
           R == Occupied(buckets, n, 0 .. src - 1)
           new == ItemsAt(newBuckets, Occupied(newBuckets, NewSize, {}))
<1>1. /\ Tables /\ src < n /\ newBuckets' = newBuckets /\ nbuckets' = n
      /\ pc' \in {"rehash", "carry"}
      /\ UNCHANGED <<before, reply, yielded, call, entry>>
  BY DEF Rehash, Goes, Tables, sizeVars
<1>2. Tables' /\ NewSize' = NewSize
  BY <1>1 DEF Tables, NewSize
<1>3. n \in Nat \ {0} /\ IsTable(buckets, n) /\ src \in 0 .. n - 1
  BY <1>1, AtNewBuckets
<1>4. MapItems = new \cup ItemsAt(buckets, R)
  BY <1>1, MapItemsAtNew
<1>5. CASE buckets[src].dib = 0
  <2>1. source' = src + 1 /\ buckets' = buckets
    BY <1>5 DEF Rehash
  <2> DEFINE Q == Occupied(buckets, n, 0 .. (src + 1) - 1)
  <2>2. Q = R \ {src} /\ (src \in R <=> buckets[src].dib > 0)
    BY <1>3, RestAdvances
  <2>3. MapItems' = new \cup ItemsAt(buckets, Q)
    BY <1>1, <1>2, <2>1, MapItemsNextNew
  <2> HIDE DEF Q, R, new
  <2>4. Q = R
    BY <1>5, <2>2
  <2> QED BY <1>1, <1>2, <1>4, <2>3, <2>4, ResizeStays
<1>6. CASE buckets[src].dib > 0
  <2> DEFINE b == [buckets[src] EXCEPT !.dib = 1]
             B == [buckets EXCEPT ![src] = b]
  <2>1. buckets' = B /\ source' = src
    BY <1>6 DEF Rehash
  <2>2. buckets[src] \in Filled
    BY <1>3, <1>6, BucketFilled
  <2>3. b \in Filled /\ b.item = buckets[src].item
    BY <2>2 DEF Filled
  <2> HIDE DEF b
  <2>4. B[src] = b /\ (\A k \in 0 .. n - 1 : k # src => B[k] = buckets[k])
        /\ Occupied(B, n, 0 .. src - 1) = R
    BY <1>3, <1>6, <2>3, RestReplaced
  <2>5. MapItems' = new \cup ItemsAt(B, Occupied(B, n, 0 .. src - 1))
    <3> HIDE DEF B
    <3> QED BY <1>1, <1>2, <2>1, MapItemsNextNew
  <2> HIDE DEF B
  <2>6. ItemsAt(B, R) = ItemsAt(buckets, R)
    <3>1. \A k \in R : B[k].item = buckets[k].item
      BY <2>3, <2>4 DEF Occupied
    <3> QED BY <3>1, ItemsSame
  <2> HIDE DEF R, new
  <2> QED BY <1>1, <1>2, <1>4, <2>4, <2>5, <2>6, ResizeStays
<1> QED BY <1>3, <1>5, <1>6, BucketFilled

(* The item that is carried goes from the old table to the new one, or is  *)
(* exchanged for one of the new table.                                     *)
LEMMA HistoryCarry ==
  ASSUME MapInv, HistoryInv, MapInv', Carry
  PROVE  HistoryInv' /\ MapStep
<1> DEFINE n == nbuckets
           m == NewSize
           src == source
           at == i
           here == newBuckets[at]
           carried == buckets[src]
           R == Occupied(buckets, n, 0 .. src - 1)
           U == Occupied(newBuckets, m, {})
<1>1. /\ pc = "carry" /\ pc' \in {"rehash", "carry"} /\ nbuckets' = n
      /\ UNCHANGED <<before, reply, yielded, call, entry>>
  BY DEF Carry, Goes, sizeVars
<1>2. Tables /\ at \in 0 .. m - 1 /\ src \in 0 .. n - 1 /\ carried.dib > 0 /\ carried \in Filled /\ src \in R
  BY <1>1, AtCarry
<1>3. n \in Nat \ {0} /\ IsTable(buckets, n) /\ m \in Nat \ {0} /\ IsTable(newBuckets, m)
  BY <1>2, AtNewBuckets
<1>4. MapItems = ItemsAt(newBuckets, U) \cup ItemsAt(buckets, R)
  BY <1>2, MapItemsAtNew
<1>5. ItemsAt(buckets, R) = ItemsAt(buckets, R \ {src}) \cup {carried.item}
  BY <1>2, ItemsSplit
<1>6. Tables'
  BY <1>1 DEF Tables
<1>7. CASE here.dib = 0
  <2> DEFINE T == [newBuckets EXCEPT ![at] = carried]
             Q == Occupied(buckets, n, 0 .. (src + 1) - 1)
  <2>1. newBuckets' = T /\ source' = src + 1 /\ buckets' = buckets
    BY <1>7 DEF Carry
  <2> HIDE DEF n, m, src, at
  <2>2. DOMAIN T = DOMAIN newBuckets
    BY <1>2, <1>3, StaysTable
  <2>3. ItemsAt(T, Occupied(T, m, {})) = ItemsAt(newBuckets, U) \cup {carried.item}
    BY <1>2, <1>3, <1>7, ItemsPut
  <2>4. Q = R \ {src}
    BY <1>2, <1>3, RestAdvances
  <2> HIDE DEF T, Q, R, U, carried
  <2>5. NewSize' = m
    BY <2>1, <2>2 DEF NewSize, m
  <2>6. MapItems' = ItemsAt(T, Occupied(T, m, {})) \cup ItemsAt(buckets, Q)
    BY <1>1, <1>6, <2>1, <2>5, MapItemsNextNew DEF Q
  <2>7. MapItems' = MapItems
    BY <1>4, <1>5, <2>3, <2>4, <2>6
  <2> QED BY <1>1, <1>2, <1>6, <2>7, ResizeStays
<1>8. CASE here.dib # 0
  <2> DEFINE swap == here.dib < carried.dib
             goesOn == IF swap THEN here ELSE carried
             c == [goesOn EXCEPT !.dib = @ + 1]
             T == IF swap THEN [newBuckets EXCEPT ![at] = carried] ELSE newBuckets
             B == [buckets EXCEPT ![src] = c]
  <2>1. newBuckets' = T /\ source' = src /\ buckets' = B
    BY <1>8 DEF Carry
  <2>2. here.dib > 0 /\ here \in Filled
    BY <1>2, <1>3, <1>8, BucketFilled
  <2>3. c \in Filled /\ c.item = goesOn.item
    BY <1>2, <2>2 DEF Filled
  <2>4. at \in U
    BY <1>2, <2>2 DEF Occupied
  <2> HIDE DEF n, m, src, at, c
  <2>5. B[src] = c /\ (\A k \in 0 .. n - 1 : k # src => B[k] = buckets[k])
        /\ Occupied(B, n, 0 .. src - 1) = R
    BY <1>2, <1>3, <2>3, RestReplaced
  <2>6. /\ DOMAIN T = DOMAIN newBuckets /\ T[at] = IF swap THEN carried ELSE here
        /\ \A k \in 0 .. m - 1 : k # at => T[k] = newBuckets[k]
    <3>1. CASE swap
      <4>1. T = [newBuckets EXCEPT ![at] = carried]
        BY <3>1
      <4> HIDE DEF T
      <4> QED BY <1>2, <1>3, <3>1, <4>1, StaysTable
    <3>2. CASE ~swap
      BY <3>2
    <3> QED BY <3>1, <3>2
  <2>7. Occupied(T, m, {}) = U
    <3>1. CASE swap
      <4>1. Occupied(T, m, {}) = U \cup {at}
        BY <1>2, <1>3, <3>1, OccupiedPut
      <4> QED BY <2>4, <4>1
    <3>2. CASE ~swap
      BY <3>2
    <3> QED BY <3>1, <3>2
  <2> HIDE DEF T, B
  <2>8. NewSize' = m
    BY <2>1, <2>6 DEF NewSize, m
  <2>9. MapItems' = ItemsAt(T, U) \cup ItemsAt(B, R)
    <3>1. MapItems' = ItemsAt(T, Occupied(T, m, {})) \cup ItemsAt(B, Occupied(B, n, 0 .. source' - 1))
      BY <1>1, <1>6, <2>1, <2>8, MapItemsNextNew
    <3>2. Occupied(B, n, 0 .. source' - 1) = R
      BY <2>1, <2>5
    <3> QED BY <2>7, <3>1, <3>2
  <2>10. ItemsAt(B, R) = ItemsAt(buckets, R \ {src}) \cup {goesOn.item}
    <3>1. \A k \in R \ {src} : B[k].item = buckets[k].item
      BY <2>5 DEF Occupied
    <3>2. ItemsAt(B, R \ {src}) = ItemsAt(buckets, R \ {src})
      BY <3>1, ItemsSame
    <3>3. ItemsAt(B, R) = ItemsAt(B, R \ {src}) \cup {B[src].item}
      BY <1>2, ItemsSplit
    <3> QED BY <2>3, <2>5, <3>2, <3>3
  <2>11. ItemsAt(T, U) = ItemsAt(newBuckets, U \ {at}) \cup {T[at].item}
    <3>1. \A k \in U \ {at} : T[k].item = newBuckets[k].item
      BY <2>6 DEF Occupied
    <3>2. ItemsAt(T, U \ {at}) = ItemsAt(newBuckets, U \ {at})
      BY <3>1, ItemsSame
    <3>3. ItemsAt(T, U) = ItemsAt(T, U \ {at}) \cup {T[at].item}
      BY <2>4, ItemsSplit
    <3> QED BY <3>2, <3>3
  <2>12. ItemsAt(newBuckets, U) = ItemsAt(newBuckets, U \ {at}) \cup {here.item}
    BY <2>4, ItemsSplit
  <2> HIDE DEF R, U, carried, here
  <2>13. {T[at].item} \cup {goesOn.item} = {here.item} \cup {carried.item}
    BY <2>6
  <2> HIDE DEF goesOn
  <2>14. MapItems' = MapItems
    BY <1>4, <1>5, <2>9, <2>10, <2>11, <2>12, <2>13
  <2> QED BY <1>1, <1>2, <1>6, <2>14, ResizeStays
<1> QED BY <1>7, <1>8

(* The new table holds all of the items.                                   *)
LEMMA HistoryResized ==
  ASSUME MapInv, HistoryInv, MapInv', Resized
  PROVE  HistoryInv' /\ MapStep
<1> DEFINE m == NewSize
<1>1. /\ pc = "rehash" /\ source = nbuckets /\ buckets' = newBuckets /\ nbuckets' = m
  BY DEF Resized
<1>2. Tables
  BY <1>1 DEF Tables
<1>3. MapItems = ItemsAt(newBuckets, Occupied(newBuckets, m, {}))
  <2>1. nbuckets \in Nat \ {0}
    BY <1>2, AtNewBuckets
  <2>2. Occupied(buckets, nbuckets, 0 .. source - 1) = {}
    BY <1>1, <2>1 DEF Occupied
  <2>3. ItemsAt(buckets, {}) = {}
    BY DEF ItemsAt
  <2> QED BY <1>2, <2>2, <2>3, MapItemsAtNew
<1>4. /\ call \in {"set", "delete"}
      /\ call = "set" => MapItems = BeforeItems
      /\ call = "delete" => entry.item \in BeforeItems /\ MapItems = BeforeItems \ {entry.item}
  BY <1>2, AtResize
<1> HIDE DEF m
<1>5. CASE call = "delete"
  <2>1. Returns("delete", {entry.item})
    BY <1>5 DEF Resized
  <2>2. ~Tables' /\ Hole' = {}
    BY <2>1, HistoryReturns
  <2>3. MapItems' = MapItems
    BY <1>1, <1>3, <2>2, MapItemsNext
  <2> QED BY <1>1, <1>4, <1>5, <2>1, <2>3, DeleteReturns
<1>6. CASE call = "set"
  <2>1. pc' = "place" /\ UNCHANGED <<before, reply, yielded>>
    BY <1>6 DEF Resized
  <2>2. ~Tables' /\ Hole' = {}
    BY <2>1 DEF Tables, Hole
  <2>3. MapItems' = MapItems
    BY <1>1, <1>3, <2>2, MapItemsNext
  <2>4. /\ BeforeItems' = BeforeItems /\ Shown' = Shown /\ reply' = reply
        /\ DOMAIN before' \subseteq Names /\ before' \in [DOMAIN before' -> Values]
    BY <1>1, <2>1, HistoryGoesOn
  <2>5. HistoryInv'
    <3>1. yielded' = {}
      BY <1>1, <2>1 DEF HistoryInv
    <3> QED BY <1>4, <1>6, <2>1, <2>2, <2>3, <2>4, <3>1 DEF HistoryInv
  <2>6. Mapped' = Mapped
    BY <2>4, <2>5, SameShown
  <2> QED BY <2>4, <2>5, <2>6 DEF MapStep
<1> QED BY <1>4, <1>5, <1>6

----------------------------------------------------------------------------

(* What is said while a get or a delete looks for a name.                  *)
LEMMA AtLook ==
  ASSUME MapInv, HistoryInv, Looks
  PROVE  /\ ~Tables /\ Hole = {} /\ pc # "idle" /\ i \in 0 .. nbuckets - 1 /\ entry.item.name \in Names
         /\ nbuckets \in Nat \ {0} /\ IsTable(buckets, nbuckets)
         /\ MapItems = ItemsAt(buckets, Occupied(buckets, nbuckets, {}))
         /\ MapItems = BeforeItems /\ Shown = BeforeItems /\ Unique(MapItems)
<1>1. pc \in {"get", "delete"} /\ ~Tables /\ Hole = {}
  BY DEF Looks, Tables, Hole
<1>2. i \in 0 .. nbuckets - 1 /\ entry.item.name \in Names
  BY <1>1 DEF MapInv, LoopInv, Slots
<1>3. nbuckets \in Nat \ {0} /\ IsTable(buckets, nbuckets)
  BY <1>1, AtBuckets
<1>4. MapItems = ItemsAt(buckets, Occupied(buckets, nbuckets, {}))
  BY <1>1, MapItemsAtBuckets
<1>5. MapItems = BeforeItems /\ Shown = BeforeItems
  BY <1>1 DEF HistoryInv, Shown
<1> QED BY <1>1, <1>2, <1>3, <1>4, <1>5, MapItemsUnique

(* A search that ends at an empty bucket has missed nothing.               *)
LEMMA NotThere ==
  ASSUME MapInv, HistoryInv, Looks, buckets[i].dib = 0
  PROVE  \A item \in MapItems : item.name # entry.item.name
<1> DEFINE n == nbuckets
           at == i
           name == entry.item.name
<1>1. /\ ~Tables /\ Hole = {} /\ at \in 0 .. n - 1 /\ name \in Names
      /\ MapItems = ItemsAt(buckets, Occupied(buckets, n, {}))
  BY AtLook
<1>2. /\ hash \in [Names -> Nat] /\ n \in Nat \ {0} /\ IsTable(buckets, n) /\ Ordered(buckets, n, {})
      /\ Used = Occupied(buckets, n, {}) /\ Table = buckets /\ Size = n
  BY <1>1, AtBuckets
<1>3. NotPassed(name)
  BY DEF Looks, MapInv, LoopInv
<1>4. buckets[at].dib = 0
  OBVIOUS
<1> HIDE DEF n, name
<1>5. \A j \in Used : buckets[j].item.name = name => Dist(Home(name, n), at, n) <= Dist(Home(name, n), j, n)
  BY <1>2, <1>3 DEF NotPassed
<1> HIDE DEF at
<1>6. \A j \in 0 .. n - 1 : buckets[j].dib > 0 /\ buckets[j].item.name = name =>
        Dist(Home(name, n), at, n) <= Dist(Home(name, n), j, n)
  BY <1>2, <1>5 DEF Occupied
<1>7. buckets[at].dib <= Dist(Home(name, n), at, n)
  <2>1. Home(name, n) \in 0 .. n - 1
    BY <1>1, <1>2, FitsHome
  <2>2. Dist(Home(name, n), at, n) \in Nat
    BY <1>1, <1>2, <2>1, DistRange
  <2> QED BY <1>4, <2>2
<1>8. ASSUME NEW j \in 0 .. n - 1, buckets[j].dib > 0 PROVE buckets[j].item.name # name
  <2>1. buckets[at].dib > 0 => buckets[at].item.name # name
    BY <1>4
  <2> QED BY <1>1, <1>2, <1>6, <1>7, <1>8, <2>1, SearchEnds
<1> QED BY <1>1, <1>8 DEF ItemsAt, Occupied, name

LEMMA HistoryLookOn ==
  ASSUME MapInv, HistoryInv, MapInv', LookOn
  PROVE  HistoryInv' /\ MapStep
<1> DEFINE name == entry.item.name
<1>1. Looks /\ pc \in {"get", "delete"} /\ buckets' = buckets
  BY DEF LookOn, Looks
<1>2. /\ pc # "idle" /\ name \in Names /\ ~Tables /\ Hole = {}
      /\ MapItems = ItemsAt(buckets, Occupied(buckets, nbuckets, {}))
      /\ MapItems = BeforeItems /\ Shown = BeforeItems
  BY <1>1, AtLook
<1>3. CASE buckets[i].dib = 0
  <2>1. Returns(pc, {}) /\ nbuckets' = nbuckets
    BY <1>3 DEF LookOn
  <2>2. /\ HistoryInv' /\ Shown' = MapItems' /\ reply' = [call |-> pc, result |-> {}]
        /\ ~Tables' /\ Hole' = {}
    BY <2>1, HistoryReturns
  <2>3. MapItems' = MapItems
    BY <1>1, <1>2, <2>1, <2>2, MapItemsNext
  <2>4. \A item \in Shown : item.name # name
    BY <1>1, <1>2, <1>3, NotThere
  <2>5. Named(Shown, name) = {} /\ Without(Shown, name) = Shown
    BY <2>4, NamedNone
  <2>6. CASE pc = "get"
    <3>1. Shown' = Shown /\ reply' = [call |-> "get", result |-> Named(Shown, name)]
      BY <1>2, <2>2, <2>3, <2>5, <2>6
    <3> QED BY <1>2, <2>2, <3>1, SameShown DEF MapStep
  <2>7. CASE pc = "delete"
    <3>1. Shown' = Without(Shown, name) /\ reply' = [call |-> "delete", result |-> Named(Shown, name)]
      BY <1>2, <2>2, <2>3, <2>5, <2>7
    <3> QED BY <1>2, <2>2, <3>1, DeleteShown DEF MapStep
  <2> QED BY <1>1, <2>6, <2>7
<1>4. CASE buckets[i].dib # 0
  <2>1. pc' = pc /\ UNCHANGED <<before, reply, yielded, call, entry, nbuckets>>
    BY <1>4 DEF LookOn, Goes, sizeVars
  <2>2. ~Tables' /\ Hole' = {}
    BY <1>1, <2>1 DEF Tables, Hole
  <2>3. MapItems' = MapItems
    BY <1>1, <1>2, <2>1, <2>2, MapItemsNext
  <2> QED BY <1>1, <1>2, <2>1, <2>2, <2>3, ItemsStay
<1> QED BY <1>3, <1>4

LEMMA FoundItem ==
  ASSUME MapInv, HistoryInv, Looks, Found
  PROVE  /\ i \in Occupied(buckets, nbuckets, {}) /\ buckets[i].item \in MapItems
         /\ buckets[i].item.name = entry.item.name /\ buckets[i].dib > 0
<1>1. i \in 0 .. nbuckets - 1 /\ MapItems = ItemsAt(buckets, Occupied(buckets, nbuckets, {}))
  BY AtLook
<1>2. buckets[i].item.name = entry.item.name /\ buckets[i].dib > 0
  BY DEF Found, SameName
<1>3. i \in Occupied(buckets, nbuckets, {})
  BY <1>1, <1>2 DEF Occupied
<1> QED BY <1>1, <1>2, <1>3 DEF ItemsAt

LEMMA HistoryGetFinds ==
  ASSUME MapInv, HistoryInv, MapInv', GetFinds
  PROVE  HistoryInv' /\ MapStep
<1> DEFINE item == buckets[i].item
<1>1. Looks /\ Found /\ Returns("get", {item}) /\ buckets' = buckets /\ nbuckets' = nbuckets
  BY DEF GetFinds, Looks
<1>2. /\ ~Tables /\ Hole = {} /\ entry.item.name \in Names /\ Unique(Shown)
      /\ MapItems = ItemsAt(buckets, Occupied(buckets, nbuckets, {})) /\ MapItems = Shown
  BY <1>1, AtLook
<1>3. item \in Shown /\ item.name = entry.item.name
  BY <1>1, <1>2, FoundItem
<1> HIDE DEF item
<1>4. /\ HistoryInv' /\ Shown' = MapItems' /\ reply' = [call |-> "get", result |-> {item}]
      /\ ~Tables' /\ Hole' = {}
  BY <1>1, HistoryReturns
<1>5. MapItems' = MapItems
  BY <1>1, <1>2, <1>4, MapItemsNext
<1>6. Named(Shown, item.name) = {item}
  BY <1>2, <1>3, NamedIs
<1>7. Shown' = Shown /\ reply' = [call |-> "get", result |-> Named(Shown, entry.item.name)]
  BY <1>2, <1>3, <1>4, <1>5, <1>6
<1> QED BY <1>2, <1>4, <1>7, SameShown DEF MapStep

(* The item a delete has found is out of the table, but not yet for its    *)
(* caller.                                                                 *)
LEMMA HistoryDeleteFinds ==
  ASSUME MapInv, HistoryInv, MapInv', DeleteFinds
  PROVE  HistoryInv' /\ MapStep
<1> DEFINE n == nbuckets
           at == i
           item == buckets[at].item
           T == [buckets EXCEPT ![at] = Empty]
           U == Occupied(buckets, n, {})
<1>1. /\ pc = "delete" /\ Looks /\ Found /\ pc' = "shift" /\ i' = at /\ buckets' = T /\ nbuckets' = n
      /\ entry' = buckets[at] /\ UNCHANGED <<before, reply, yielded>>
  BY DEF DeleteFinds, Looks, Goes, sizeVars
<1>2. /\ ~Tables /\ Hole = {} /\ at \in 0 .. n - 1 /\ n \in Nat \ {0} /\ IsTable(buckets, n)
      /\ MapItems = ItemsAt(buckets, U) /\ MapItems = BeforeItems /\ Unique(MapItems)
  BY <1>1, AtLook
<1>3. at \in U /\ item \in MapItems
  BY <1>1, FoundItem
<1>4. \A j, k \in U : buckets[j].item.name = buckets[k].item.name => j = k
  BY <1>2, AtBuckets
<1> HIDE DEF n, at
<1>5. Occupied(T, n, {at}) = U \ {at}
  <2>1. n \in Nat \ {0} /\ IsTable(buckets, n) /\ at \in 0 .. n - 1
    BY <1>2
  <2>2. Occupied(T, n, {at}) = Occupied(buckets, n, {at})
    BY ONLY <2>1, OccupiedHole
  <2>3. Occupied(buckets, n, {at}) = U \ {at}
    BY ONLY <2>1, OccupiedHole
  <2> QED BY <2>2, <2>3
<1>6. ItemsAt(T, U \ {at}) = ItemsAt(buckets, U \ {at})
  <2>1. \A k \in U \ {at} : T[k].item = buckets[k].item
    BY <1>2, StaysTable DEF Occupied
  <2> QED BY <2>1, ItemsSame
<1> HIDE DEF T, U
<1>7. ItemsAt(buckets, U \ {at}) = Without(MapItems, item.name)
  BY <1>2, <1>3, <1>4, ItemsWithout
<1> HIDE DEF item
<1>8. Without(MapItems, item.name) = MapItems \ {item}
  BY <1>2, <1>3, NamedIs
<1>9. ~Tables' /\ Hole' = {at}
  BY <1>1 DEF Tables, Hole
<1>10. MapItems' = MapItems \ {item}
  <2>1. MapItems' = ItemsAt(T, Occupied(T, n, {at}))
    BY <1>1, <1>9, MapItemsNext
  <2> QED BY <1>5, <1>6, <1>7, <1>8, <2>1
<1>11. entry'.item = item
  BY <1>1 DEF item
<1>12. /\ BeforeItems' = BeforeItems /\ Shown' = Shown /\ reply' = reply
       /\ DOMAIN before' \subseteq Names /\ before' \in [DOMAIN before' -> Values]
  BY <1>1, HistoryGoesOn
<1>13. HistoryInv'
  <2>1. yielded' = {}
    BY <1>1 DEF HistoryInv
  <2> QED BY <1>1, <1>2, <1>3, <1>9, <1>10, <1>11, <1>12, <2>1 DEF HistoryInv
<1>14. Mapped' = Mapped
  BY <1>12, <1>13, SameShown
<1> QED BY <1>12, <1>13, <1>14 DEF MapStep

LEMMA HistoryShiftBack ==
  ASSUME MapInv, HistoryInv, MapInv', ShiftBack
  PROVE  HistoryInv' /\ MapStep
<1> DEFINE n == nbuckets
           at == i
           next == After(at, n)
           U == Occupied(buckets, n, {at})
<1>1. pc = "shift"
  BY DEF ShiftBack
<1>2. /\ ~Tables /\ Hole = {at} /\ at \in 0 .. n - 1 /\ n \in Nat \ {0} /\ IsTable(buckets, n)
      /\ next \in 0 .. n - 1 /\ next # at /\ call = "delete"
  BY <1>1, AtShift
<1>3. MapItems = ItemsAt(buckets, U)
  BY <1>2, MapItemsAtBuckets
<1>4. entry.item \in BeforeItems /\ MapItems = BeforeItems \ {entry.item}
  BY <1>1 DEF HistoryInv
<1>5. CASE buckets[next].dib > 1
  <2> DEFINE b == [buckets[next] EXCEPT !.dib = @ - 1]
             T == [buckets EXCEPT ![at] = b]
  <2>1. /\ pc' = "shift" /\ i' = next /\ buckets' = T /\ nbuckets' = n
        /\ UNCHANGED <<before, reply, yielded, call, entry>>
    BY <1>5 DEF ShiftBack, Goes, sizeVars
  <2>2. ~Tables' /\ Hole' = {next}
    BY <2>1 DEF Tables, Hole
  <2> HIDE DEF n, at, next
  <2>3. buckets[next].dib > 0 /\ buckets[next] \in Filled
    BY <1>2, <1>5, BucketFilled
  <2>4. b \in Filled /\ b.item = buckets[next].item
    BY <1>5, <2>3 DEF Filled
  <2> HIDE DEF b
  <2>5. /\ Occupied(T, n, {next}) = (U \ {next}) \cup {at}
        /\ next \in U /\ at \notin U
    <3>1. /\ n \in Nat \ {0} /\ IsTable(buckets, n) /\ at \in 0 .. n - 1 /\ next \in 0 .. n - 1
          /\ next # at /\ buckets[next].dib > 0 /\ b \in Filled
      BY <1>2, <2>3, <2>4
    <3>2. Occupied(T, n, {next}) = (U \ {next}) \cup {at}
      BY ONLY <3>1, OccupiedMoved
    <3>3. next \in U /\ at \notin U
      BY ONLY <3>1, OccupiedMoved
    <3> QED BY <3>2, <3>3
  <2>6. T[at] = b /\ \A k \in U : T[k] = buckets[k]
    <3>1. /\ n \in Nat \ {0} /\ IsTable(buckets, n) /\ at \in 0 .. n - 1 /\ b \in {Empty} \cup Filled
      BY <1>2, <2>4
    <3>2. T[at] = b
      BY <3>1, <1>2 DEF IsTable
    <3>3. \A k \in 0 .. n - 1 : k # at => T[k] = buckets[k]
      BY ONLY <3>1, StaysTable
    <3>4. U \subseteq 0 .. n - 1
      BY DEF Occupied
    <3> QED BY <2>5, <3>2, <3>3, <3>4
  <2>7. MapItems' = ItemsAt(T, Occupied(T, n, {next}))
    <3> HIDE DEF T
    <3> QED BY <2>1, <2>2, MapItemsNext
  <2> HIDE DEF T, U
  <2>8. MapItems' = MapItems
    <3>1. ItemsAt(T, Occupied(T, n, {next})) = ItemsAt(T, U \ {next}) \cup {T[at].item}
      <4> DEFINE V == (U \ {next}) \cup {at}
      <4>1. at \in V /\ V \ {at} = U \ {next}
        BY <2>5
      <4> HIDE DEF V
      <4>2. ItemsAt(T, V) = ItemsAt(T, V \ {at}) \cup {T[at].item}
        BY <4>1, ItemsSplit
      <4> QED BY <2>5, <4>1, <4>2 DEF V
    <3>2. ItemsAt(T, U \ {next}) = ItemsAt(buckets, U \ {next})
      BY <2>6, ItemsSame
    <3>3. ItemsAt(buckets, U) = ItemsAt(buckets, U \ {next}) \cup {buckets[next].item}
      BY <2>5, ItemsSplit
    <3> QED BY <1>3, <2>4, <2>6, <2>7, <3>1, <3>2, <3>3
  <2> QED BY <1>1, <1>2, <1>4, <2>1, <2>2, <2>8, ItemsStay
<1>6. CASE ~(buckets[next].dib > 1)
  <2> DEFINE T == [buckets EXCEPT ![at] = Empty]
  <2>1. /\ buckets' = T
        /\ \/ Goes("shrink", i) /\ entry' = entry
           \/ Returns("delete", {entry.item}) /\ nbuckets' = n
    BY <1>6 DEF ShiftBack
  <2>2. Occupied(T, n, {}) = U /\ \A k \in U : T[k].item = buckets[k].item
    <3> HIDE DEF n, at
    <3>1. Occupied(T, n, {}) = U
      BY <1>2, OccupiedHole
    <3>2. \A k \in U : T[k].item = buckets[k].item
      BY <1>2, StaysTable DEF Occupied
    <3> QED BY <3>1, <3>2
  <2> HIDE DEF T, U
  <2>3. ItemsAt(T, U) = ItemsAt(buckets, U)
    BY <2>2, ItemsSame
  <2>4. CASE Goes("shrink", i) /\ entry' = entry
    <3>1. pc' = "shrink" /\ nbuckets' = n /\ UNCHANGED <<before, reply, yielded, call, entry>>
      BY <2>4 DEF Goes, sizeVars
    <3>2. ~Tables' /\ Hole' = {}
      BY <3>1 DEF Tables, Hole
    <3>3. MapItems' = ItemsAt(T, Occupied(T, n, {}))
      <4> HIDE DEF n
      <4> QED BY <2>1, <3>1, <3>2, MapItemsNext
    <3>4. MapItems' = MapItems
      BY <1>3, <2>2, <2>3, <3>3
    <3> QED BY <1>1, <1>2, <1>4, <3>1, <3>2, <3>4, ItemsStay
  <2>5. CASE Returns("delete", {entry.item}) /\ nbuckets' = n
    <3>1. ~Tables' /\ Hole' = {}
      BY <2>5, HistoryReturns
    <3>2. MapItems' = ItemsAt(T, Occupied(T, n, {}))
      <4> HIDE DEF n
      <4> QED BY <2>1, <2>5, <3>1, MapItemsNext
    <3>3. MapItems' = BeforeItems \ {entry.item}
      BY <1>3, <1>4, <2>2, <2>3, <3>2
    <3> QED BY <1>1, <1>4, <2>5, <3>3, DeleteReturns
  <2> QED BY <2>1, <2>4, <2>5
<1> QED BY <1>5, <1>6

----------------------------------------------------------------------------

LEMMA HistoryIter ==
  ASSUME MapInv, HistoryInv, MapInv', Iter
  PROVE  HistoryInv' /\ MapStep
<1>1. pc = "scan" /\ ~Tables /\ Hole = {} /\ buckets' = buckets /\ nbuckets' = nbuckets
  BY DEF Iter, Tables, Hole, Returns, sizeVars
<1>2. MapItems = ItemsAt(buckets, Occupied(buckets, nbuckets, {})) /\ MapItems = BeforeItems
  BY <1>1, MapItemsAtBuckets DEF HistoryInv
<1>3. yielded = In(buckets, i) /\ i \in Nat /\ i <= nbuckets /\ nbuckets \in Nat
  BY <1>1, AtBuckets DEF HistoryInv, MapInv, TypeOK, LoopInv
<1>4. Shown = BeforeItems
  BY <1>1 DEF Shown
<1>5. CASE i < nbuckets
  <2> DEFINE more == {j \in {i} : buckets[j].dib > 0}
  <2>1. /\ pc' = "scan" /\ i' = i + 1 /\ UNCHANGED <<before, reply>>
        /\ yielded' = yielded \cup {buckets[j].item : j \in more}
    BY <1>1, <1>5 DEF Iter
  <2>2. ~Tables' /\ Hole' = {}
    BY <2>1 DEF Tables, Hole
  <2>3. MapItems' = MapItems
    BY <1>1, <1>2, <2>2, MapItemsNext
  <2>4. /\ BeforeItems' = BeforeItems /\ Shown' = Shown /\ reply' = reply
        /\ DOMAIN before' \subseteq Names /\ before' \in [DOMAIN before' -> Values]
    BY <1>1, <2>1, HistoryGoesOn
  <2>5. Occupied(buckets, i + 1, {}) = Occupied(buckets, i, {}) \cup more
    <3>1. \A j : j \in 0 .. (i + 1) - 1 <=> j \in 0 .. i - 1 \/ j = i
      BY <1>3
    <3> QED BY <3>1 DEF Occupied
  <2> HIDE DEF more
  <2>6. In(buckets, i + 1) = In(buckets, i) \cup {buckets[j].item : j \in more}
    BY <2>5 DEF In
  <2>7. yielded' = In(buckets', i')
    BY <1>1, <1>3, <2>1, <2>6
  <2>8. HistoryInv'
    BY <1>2, <2>1, <2>2, <2>3, <2>4, <2>7 DEF HistoryInv, In, Occupied
  <2>9. Mapped' = Mapped
    BY <2>4, <2>8, SameShown
  <2> QED BY <2>4, <2>8, <2>9 DEF MapStep
<1>6. CASE ~(i < nbuckets)
  <2>1. Returns("scan", yielded)
    BY <1>6 DEF Iter
  <2>2. /\ HistoryInv' /\ Shown' = MapItems' /\ reply' = [call |-> "scan", result |-> yielded]
        /\ ~Tables' /\ Hole' = {}
    BY <2>1, HistoryReturns
  <2>3. MapItems' = MapItems
    BY <1>1, <1>2, <2>2, MapItemsNext
  <2>4. yielded = MapItems
    <3>1. i = nbuckets
      BY <1>3, <1>6
    <3> QED BY <1>2, <1>3, <3>1 DEF In, ItemsAt
  <2>5. Shown' = Shown /\ reply' = [call |-> "scan", result |-> Shown]
    BY <1>2, <1>4, <2>2, <2>3, <2>4
  <2> QED BY <2>2, <2>5, SameShown DEF MapStep
<1> QED BY <1>5, <1>6

(* A map that counts no items shows none.                                  *)
LEMMA NothingCounted == MapInv /\ HistoryInv /\ pc = "idle" /\ count = 0 => Mapped = Contents({})
<1> SUFFICES ASSUME MapInv, HistoryInv, pc = "idle", count = 0 PROVE Mapped = Contents({})
  OBVIOUS
<1>1. ~Tables /\ Hole = {}
  BY DEF Tables, Hole
<1>2. Used = Occupied(buckets, nbuckets, {}) /\ Cardinality(Used) \in Nat /\ count = Cardinality(Used)
      /\ nbuckets \in Nat
  BY <1>1, AtBuckets, FS_EmptySet
<1>3. Used = {}
  <2>1. IsFiniteSet(Used)
    BY <1>2, OccupiedFinite
  <2> QED BY <1>2, <2>1, FS_EmptySet
<1>4. MapItems = {}
  BY <1>1, <1>2, <1>3, MapItemsAtBuckets DEF ItemsAt
<1> QED BY <1>4, ShownIs DEF Shown

LEMMA HistoryClear ==
  ASSUME MapInv, HistoryInv, MapInv', NEW updateCap \in BOOLEAN, Clear(updateCap)
  PROVE  HistoryInv' /\ MapStep
<1>1. /\ pc = "idle" /\ pc' = "idle" /\ count' = 0 /\ reply' = [call |-> "clear", result |-> {}]
      /\ UNCHANGED <<before, yielded>>
  BY DEF Clear
<1>2. HistoryInv'
  BY <1>1 DEF HistoryInv, Tables
<1>3. (MapInv /\ HistoryInv /\ pc = "idle" /\ count = 0)' => (Mapped = Contents({}))'
  BY NothingCounted, PTL
<1>4. Mapped' = Contents({})
  BY <1>1, <1>2, <1>3
<1>5. Map!Clear
  BY <1>1, <1>4, NothingShown DEF Map!Clear, Map!Answers
<1> QED BY <1>2, <1>5 DEF MapStep, Map!Next

LEMMA HistorySetLoadFactor ==
  ASSUME MapInv, HistoryInv, NEW factor \in LoadFactors, SetLoadFactor(factor)
  PROVE  HistoryInv' /\ MapStep
<1>1. /\ pc = "idle" /\ pc' = "idle"
      /\ UNCHANGED <<buckets, nbuckets, before, yielded, reply>>
  BY DEF SetLoadFactor
<1>2. HistoryInv'
  BY <1>1 DEF HistoryInv, Tables
<1>3. Mapped' = Mapped
  BY <1>1 DEF Mapped, In, Occupied
<1> QED BY <1>1, <1>2, <1>3 DEF MapStep

LEMMA HistoryStutters ==
  ASSUME HistoryInv, UNCHANGED vars
  PROVE  HistoryInv' /\ MapStep
<1>1. UNCHANGED <<hash, cap, nbuckets, growat, shrinkat, loadfactor, buckets, count, newBuckets, source,
                  entry, i, call, pc, yielded, before, reply>>
  BY DEF vars, sizeVars, resizeVars
<1>2. Tables' = Tables /\ BeforeItems' = BeforeItems /\ Mapped' = Mapped /\ In(buckets, i)' = In(buckets, i)
  BY <1>1 DEF Tables, BeforeItems, Mapped, In, Occupied
<1>3. MapItems' = MapItems
  <2>1. Hole' = Hole /\ NewSize' = NewSize
    BY <1>1 DEF Hole, NewSize
  <2>2. Table' = Table /\ Size' = Size
    BY <1>1, <1>2, <2>1 DEF Table, Size
  <2>3. Used' = Used /\ Rest' = Rest
    BY <1>1, <1>2, <2>1, <2>2 DEF Used, Rest, Occupied
  <2> QED BY <1>1, <2>2, <2>3 DEF MapItems
<1>4. HistoryInv'
  BY <1>1, <1>2, <1>3 DEF HistoryInv
<1> QED BY <1>1, <1>2, <1>4 DEF MapStep

LEMMA InitHistory ==
  ASSUME Init
  PROVE  HistoryInv /\ Map!Init
<1>1. /\ pc = "idle" /\ before = Contents({}) /\ yielded = {} /\ count = 0
      /\ reply = [call |-> "new", result |-> {}]
  BY DEF Init
<1>2. DOMAIN before \subseteq Names /\ before \in [DOMAIN before -> Values]
  BY <1>1, NothingShown
<1>3. HistoryInv
  BY <1>1, <1>2 DEF HistoryInv, Tables
<1>4. Mapped = Contents({})
  BY <1>1, <1>3, InitMapInv, NothingCounted
<1> QED BY <1>1, <1>3, <1>4, NothingShown DEF Map!Init

LEMMA HistoryNext ==
  ASSUME MapInv, HistoryInv, [Next]_vars
  PROVE  HistoryInv' /\ MapStep
<1>1. MapInv'
  BY NextKeeps
<1>2. CASE Call
  <2>1. ASSUME NEW name \in Names, Get(name) \/ Delete(name) PROVE HistoryInv' /\ MapStep
    <3>1. Home(name, nbuckets) \in Nat
      <4>1. hash \in [Names -> Nat] /\ nbuckets \in Nat \ {0}
        BY SizeRange DEF MapInv, TypeOK
      <4> QED BY <4>1, HomeRange
    <3>2. HistoryInv' /\ Map!Next
      BY <1>1, <2>1, <3>1, HistoryBegins DEF Get, Delete
    <3> QED BY <3>2 DEF MapStep
  <2>2. ASSUME NEW name \in Names, NEW value \in Values, Set(name, value) PROVE HistoryInv' /\ MapStep
    <3>1. Home(name, nbuckets) \in Nat
      <4>1. hash \in [Names -> Nat] /\ nbuckets \in Nat \ {0}
        BY SizeRange DEF MapInv, TypeOK
      <4> QED BY <4>1, HomeRange
    <3>2. HistoryInv' /\ Map!Next
      BY <1>1, <2>2, <3>1, HistoryBegins DEF Set
    <3> QED BY <3>2 DEF MapStep
  <2>3. CASE Scan
    BY <1>1, <2>3, HistoryBegins DEF Scan, MapStep
  <2>4. ASSUME NEW updateCap \in BOOLEAN, Clear(updateCap) PROVE HistoryInv' /\ MapStep
    BY <1>1, <2>4, HistoryClear
  <2>5. ASSUME NEW factor \in LoadFactors, SetLoadFactor(factor) PROVE HistoryInv' /\ MapStep
    BY <2>5, HistorySetLoadFactor
  <2> QED BY <1>2, <2>1, <2>2, <2>3, <2>4, <2>5 DEF Call
<1>3. CASE Step
  BY <1>1, <1>3, HistoryPlace, HistoryAllocate, HistoryRehash, HistoryCarry, HistoryResized, HistoryLookOn,
     HistoryGetFinds, HistoryDeleteFinds, HistoryShiftBack, HistoryIter DEF Step
<1>4. CASE UNCHANGED vars
  BY <1>4, HistoryStutters
<1> QED BY <1>2, <1>3, <1>4 DEF Next

(* Whatever its loops and resize0 have done, the items of both tables are  *)
(* those from before the call, but for what the call has added or taken    *)
(* out so far (hashmap.c:231-404).                                         *)
THEOREM MapHistoryKept == Spec => []HistoryInv
<1>1. Init => HistoryInv
  BY InitHistory
<1>2. MapInv /\ HistoryInv /\ [Next]_vars => HistoryInv'
  BY HistoryNext
<1> QED BY <1>1, <1>2, MapInvariant, PTL DEF Spec

(* For its callers the hash map is a function from names to values, and a  *)
(* call has its effect, and its answer, in the step in which it returns:   *)
(* no growing, shrinking, displacing or shifting back loses, doubles or    *)
(* alters an item, also when memory runs out (hashmap.c:231-476).          *)
THEOREM MapImplementsFieldMap == Spec => ImplementsFieldMap
<1>1. Init => Map!Init
  BY InitHistory
<1>2. MapInv /\ HistoryInv /\ [Next]_vars => [Map!Next]_<<Mapped, reply>>
  BY HistoryNext DEF MapStep
<1> QED BY <1>1, <1>2, MapInvariant, MapHistoryKept, PTL DEF Spec, ImplementsFieldMap, Map!Spec

=============================================================================
