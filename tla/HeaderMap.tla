----------------------------- MODULE HeaderMap -----------------------------
(***************************************************************************)
(* lib/hashmap.c, the map header fields are kept in: open addressing with  *)
(* robin hood hashing, deletion that shifts back, growing and shrinking.   *)
(* Each turn of one of its loops is a step, so that what holds inside of   *)
(* them can be said, and each allocation may fail.                         *)
(*                                                                         *)
(* A bucket is its distance (dib, 0 when it is empty) and its item; its    *)
(* hash is that of its name.  What an emptied bucket still holds besides   *)
(* is not kept.  The module implements FieldMap.                           *)
(***************************************************************************)
EXTENDS Integers, FiniteSets

CONSTANTS
  Names, Values,    (* Bounds: the fields callers store.                 *)
  HashFunctions,    (* The hash of each name, clipped; any function.     *)
  Capacities,       (* What callers ask hashmap_new for.                 *)
  TableSizes,       (* 16, 32, 64...; Bound: those there is memory for.  *)
  LoadFactor,       (* HASHMAP_LOAD_FACTOR in percent.                   *)
  LoadFactors,      (* What hashmap_set_load_factor sets, once clamped.  *)
  ShrinkPercent,    (* SHRINK_AT in percent.                             *)
  GrowFactor        (* 1 << map->growpower.                              *)

ASSUME HeaderMapAssumption ==
  /\ HashFunctions \subseteq [Names -> Nat]
  /\ Capacities \subseteq Nat
  /\ TableSizes \subseteq Nat \ {0}
  /\ \A size \in TableSizes : size % 2 = 0
  /\ \A size, larger \in TableSizes : size < larger => 2 * size <= larger
  /\ LoadFactor \in LoadFactors /\ LoadFactors \subseteq 50 .. 95
  /\ ShrinkPercent \in 0 .. 49
  /\ GrowFactor \in Nat \ {0, 1}

VARIABLES
  hash,                                           (* map->hash           *)
  cap, nbuckets, buckets, count, growat, shrinkat, loadfactor, (* of map *)
  newBuckets,   (* map2->buckets in resize0                              *)
  source,       (* the bucket resize0 has come to                        *)
  entry,        (* edata of a set; the item looked for, or spare         *)
  i,            (* the bucket a loop has come to                         *)
  call, pc,     (* the call that is running, and the loop it is in       *)
  yielded,      (* the items a loop over hashmap_iter has seen           *)
  before,       (* history: the contents when the call began             *)
  reply         (* what the last call returned, as in FieldMap           *)

sizeVars   == <<cap, nbuckets, growat, shrinkat, loadfactor>>
resizeVars == <<newBuckets, source>>
vars == <<hash, sizeVars, buckets, count, resizeVars, entry, i, call, pc, yielded,
          before, reply>>

Empty  == [dib |-> 0]
Bucket(dib, item) == [dib |-> dib, item |-> item]
Item(name, value) == [name |-> name, value |-> value]
Items  == [name : Names, value : Values]
Slots  == 0 .. nbuckets - 1
NoBuckets == [j \in {} |-> Empty]

After(j, size)   == IF j + 1 = size THEN 0 ELSE j + 1
Home(name, size) == hash[name] % size
SameName(a, b)   == hash[a] = hash[b] /\ a = b

(* The least size that is c or more, if there is one.                      *)
NewCap(c) ==
  {size \in TableSizes : c <= size /\ \A other \in TableSizes : c <= other => size <= other}

(* A variant with a bug: the load factor is not applied.                   *)
GrowAtWhole(size, factor) == size

GrowAt(size, factor) == (size * factor) \div 100
ShrinkAt(size)       == (size * ShrinkPercent) \div 100

(* The items of a table, which for the callers is a function.              *)
Occupied(table, size, hole) == {j \in (0 .. size - 1) \ hole : table[j].dib > 0}
In(table, size) == {table[j].item : j \in Occupied(table, size, {})}
Contents(items) ==
  [name \in {item.name : item \in items} |->
     (CHOOSE item \in items : item.name = name).value]

----------------------------------------------------------------------------

(* hashmap_new, as createFieldHashmap calls it.                            *)
Init ==
  /\ hash \in HashFunctions
  /\ \E c \in Capacities : cap \in NewCap(c)
  /\ nbuckets = cap
  /\ buckets = [j \in 0 .. cap - 1 |-> Empty]
  /\ count = 0
  /\ loadfactor = LoadFactor
  /\ growat = GrowAt(cap, LoadFactor) /\ shrinkat = ShrinkAt(cap)
  /\ newBuckets = NoBuckets /\ source = 0
  /\ entry = Empty /\ i = 0
  /\ call = "none" /\ pc = "idle"
  /\ yielded = {}
  /\ before = Contents({})
  /\ reply = [call |-> "new", result |-> {}]

Begins(c, loop, bucket, at) ==
  /\ pc = "idle"
  /\ call' = c /\ pc' = loop /\ entry' = bucket /\ i' = at
  /\ before' = Contents(In(buckets, nbuckets))
  /\ reply' = [call |-> "none", result |-> {}]
  /\ UNCHANGED <<hash, sizeVars, buckets, count, resizeVars, yielded>>

Returns(c, result) ==
  /\ reply' = [call |-> c, result |-> result]
  /\ call' = "none" /\ pc' = "idle" /\ entry' = Empty /\ i' = 0 /\ yielded' = {}
  /\ newBuckets' = NoBuckets /\ source' = 0
  /\ before' = Contents({})
  /\ UNCHANGED <<hash, cap, loadfactor>>

Goes(loop, at) ==
  /\ pc' = loop /\ i' = at
  /\ UNCHANGED <<hash, call, sizeVars, before, reply, yielded>>

----------------------------------------------------------------------------

(* A variant with a bug: the table grows one field too late.               *)
SetLate(name, value) ==
  Begins("set", IF count > growat THEN "grow" ELSE "place",
         Bucket(1, Item(name, value)), Home(name, nbuckets))

(* hashmap_set: the table grows first when it is full enough, even for a   *)
(* name that is there.                                                     *)
Set(name, value) ==
  Begins("set", IF count >= growat THEN "grow" ELSE "place",
         Bucket(1, Item(name, value)), Home(name, nbuckets))

(* A variant with a bug: an item just as far from home is displaced too.   *)
PlaceEqual ==
  /\ pc = "place"
  /\ LET here   == buckets[i]
         found  == here.dib > 0 /\ SameName(entry.item.name, here.item.name)
         swap   == here.dib <= entry.dib
         goesOn == IF swap THEN here ELSE entry
     IN
     \/ /\ here.dib = 0 \/ found
        /\ buckets' = [buckets EXCEPT ![i] =
                         IF found THEN Bucket(here.dib, entry.item) ELSE entry]
        /\ count' = IF found THEN count ELSE count + 1
        /\ Returns("set", IF found THEN {here.item} ELSE {})
        /\ UNCHANGED <<nbuckets, growat, shrinkat>>
     \/ /\ here.dib > 0 /\ ~found
        /\ buckets' = IF swap THEN [buckets EXCEPT ![i] = entry] ELSE buckets
        /\ entry' = [goesOn EXCEPT !.dib = @ + 1]
        /\ Goes("place", After(i, nbuckets))
        /\ UNCHANGED <<count, resizeVars>>

(* One turn of its loop.                                                   *)
Place ==
  /\ pc = "place"
  /\ LET here == buckets[i] IN
     \/ /\ here.dib = 0
        /\ buckets' = [buckets EXCEPT ![i] = entry]
        /\ count' = count + 1
        /\ Returns("set", {})
        /\ UNCHANGED <<nbuckets, growat, shrinkat>>
     \/ /\ here.dib > 0 /\ SameName(entry.item.name, here.item.name)
        /\ buckets' = [buckets EXCEPT ![i].item = entry.item]
        /\ Returns("set", {here.item})
        /\ UNCHANGED <<count, nbuckets, growat, shrinkat>>
     \/ /\ here.dib > 0 /\ ~SameName(entry.item.name, here.item.name)
        /\ LET swap == here.dib < entry.dib
               goesOn == IF swap THEN here ELSE entry IN
             /\ buckets' = IF swap THEN [buckets EXCEPT ![i] = entry] ELSE buckets
             /\ entry' = [goesOn EXCEPT !.dib = @ + 1]
        /\ Goes("place", After(i, nbuckets))
        /\ UNCHANGED <<count, resizeVars>>

NewSize == Cardinality(DOMAIN newBuckets)

(* resize0 allocates; when it cannot, a set fails and a delete goes on.    *)
Allocate ==
  /\ pc \in {"grow", "shrink"}
  /\ \/ /\ \E size \in NewCap(IF pc = "grow" THEN nbuckets * GrowFactor ELSE nbuckets \div 2) :
             newBuckets' = [j \in 0 .. size - 1 |-> Empty]
        /\ source' = 0
        /\ Goes("rehash", i)
        /\ UNCHANGED <<buckets, count, entry>>
     \/ /\ IF pc = "grow" THEN Returns("oom", {}) ELSE Returns("delete", {entry.item})
        /\ UNCHANGED <<buckets, count, nbuckets, growat, shrinkat>>

(* The next bucket of the old table: its item starts at its new home.      *)
Rehash ==
  /\ pc = "rehash" /\ source < nbuckets
  /\ IF buckets[source].dib = 0
     THEN source' = source + 1 /\ Goes("rehash", i) /\ UNCHANGED buckets
     ELSE /\ buckets' = [buckets EXCEPT ![source].dib = 1]
          /\ Goes("carry", Home(buckets[source].item.name, NewSize))
          /\ UNCHANGED source
  /\ UNCHANGED <<newBuckets, count, entry>>

(* One turn of the inner loop of resize0.  The item it carries is still in *)
(* the old table, and is swapped there.                                    *)
Carry ==
  /\ pc = "carry"
  /\ LET here    == newBuckets[i]
         carried == buckets[source] IN
     IF here.dib = 0
     THEN /\ newBuckets' = [newBuckets EXCEPT ![i] = carried]
          /\ source' = source + 1
          /\ Goes("rehash", i)
          /\ UNCHANGED buckets
     ELSE LET swap   == here.dib < carried.dib
              goesOn == IF swap THEN here ELSE carried IN
          /\ newBuckets' = IF swap THEN [newBuckets EXCEPT ![i] = carried] ELSE newBuckets
          /\ buckets' = [buckets EXCEPT ![source] = [goesOn EXCEPT !.dib = @ + 1]]
          /\ Goes("carry", After(i, NewSize))
          /\ UNCHANGED source
  /\ UNCHANGED <<count, entry>>

(* The new table takes the place of the old one, with the load factor a    *)
(* new map has.                                                            *)
Resized ==
  /\ pc = "rehash" /\ source = nbuckets
  /\ buckets' = newBuckets
  /\ nbuckets' = NewSize
  /\ growat' = GrowAt(NewSize, LoadFactor) /\ shrinkat' = ShrinkAt(NewSize)
  /\ IF call = "delete"
     THEN Returns("delete", {entry.item})
     ELSE /\ pc' = "place" /\ i' = Home(entry.item.name, NewSize)
          /\ newBuckets' = NoBuckets /\ source' = 0
          /\ UNCHANGED <<hash, cap, loadfactor, entry, call, yielded, before, reply>>
  /\ UNCHANGED count

----------------------------------------------------------------------------

Looks == pc \in {"get", "delete"}
Found == buckets[i].dib > 0 /\ SameName(entry.item.name, buckets[i].item.name)

(* hashmap_get and hashmap_delete are given an item that has a name only.  *)
Lookup(name) == Bucket(0, [name |-> name])
Get(name)    == Begins("get", "get", Lookup(name), Home(name, nbuckets))
Delete(name) == Begins("delete", "delete", Lookup(name), Home(name, nbuckets))

(* The loop both begin with: it ends at an empty bucket, and goes on past  *)
(* any other item.                                                         *)
LookOn ==
  /\ Looks
  /\ ~Found
  /\ IF buckets[i].dib = 0
     THEN Returns(pc, {}) /\ UNCHANGED <<nbuckets, growat, shrinkat>>
     ELSE Goes(pc, After(i, nbuckets)) /\ UNCHANGED <<entry, resizeVars>>
  /\ UNCHANGED <<buckets, count>>

GetFinds ==
  /\ pc = "get" /\ Found
  /\ Returns("get", {buckets[i].item})
  /\ UNCHANGED <<buckets, count, nbuckets, growat, shrinkat>>

(* A variant with a bug: nothing is shifted back.                          *)
DeleteFindsOnly ==
  /\ pc = "delete" /\ Found
  /\ buckets' = [buckets EXCEPT ![i] = Empty]
  /\ count' = count - 1
  /\ Returns("delete", {buckets[i].item})
  /\ UNCHANGED <<nbuckets, growat, shrinkat>>

(* A copy of the item is made and its bucket emptied.                      *)
DeleteFinds ==
  /\ pc = "delete" /\ Found
  /\ entry' = buckets[i]
  /\ buckets' = [buckets EXCEPT ![i] = Empty]
  /\ Goes("shift", i)
  /\ UNCHANGED <<count, resizeVars>>

(* A variant with a bug: what is shifted back keeps its distance.          *)
ShiftBackAsIs ==
  /\ pc = "shift"
  /\ LET next == After(i, nbuckets) IN
     IF buckets[next].dib > 1
     THEN /\ buckets' = [buckets EXCEPT ![i] = buckets[next]]
          /\ Goes("shift", next)
          /\ UNCHANGED <<count, entry, resizeVars>>
     ELSE /\ buckets' = [buckets EXCEPT ![i] = Empty]
          /\ count' = count - 1
          /\ Returns("delete", {entry.item})
          /\ UNCHANGED <<nbuckets, growat, shrinkat>>

(* One turn of the loop that shifts what follows back, to the first bucket *)
(* that is empty or at home.                                               *)
ShiftBack ==
  /\ pc = "shift"
  /\ LET next == After(i, nbuckets) IN
     IF buckets[next].dib > 1
     THEN /\ buckets' = [buckets EXCEPT ![i] = [buckets[next] EXCEPT !.dib = @ - 1]]
          /\ Goes("shift", next)
          /\ UNCHANGED <<count, entry, resizeVars>>
     ELSE /\ buckets' = [buckets EXCEPT ![i] = Empty]
          /\ count' = count - 1
          /\ IF nbuckets > cap /\ count' <= shrinkat
             THEN Goes("shrink", i) /\ UNCHANGED <<entry, resizeVars>>
             ELSE Returns("delete", {entry.item}) /\ UNCHANGED <<nbuckets, growat, shrinkat>>

----------------------------------------------------------------------------

(* hashmap_iter, called until it returns false.                            *)
Scan == Begins("scan", "scan", Empty, 0)

Iter ==
  /\ pc = "scan"
  /\ IF i < nbuckets
     THEN /\ yielded' = yielded \cup {buckets[j].item : j \in {j \in {i} : buckets[j].dib > 0}}
          /\ i' = i + 1
          /\ UNCHANGED <<hash, sizeVars, resizeVars, entry, call, pc, before, reply>>
     ELSE Returns("scan", yielded) /\ UNCHANGED <<nbuckets, growat, shrinkat>>
  /\ UNCHANGED <<buckets, count>>

(* A variant with a bug: the limits stay those of the larger table.        *)
ClearKeepsLimits(updateCap) ==
  /\ pc = "idle"
  /\ cap' = IF updateCap THEN nbuckets ELSE cap
  /\ nbuckets' = cap'
  /\ buckets' = [j \in 0 .. cap' - 1 |-> Empty]
  /\ count' = 0
  /\ reply' = [call |-> "clear", result |-> {}]
  /\ UNCHANGED <<hash, growat, shrinkat, loadfactor, resizeVars, entry, i, call, pc,
                 yielded, before>>

(* hashmap_clear.  When it should go back to its capacity and there is no  *)
(* memory for that, the larger array is kept and its first part used.      *)
Clear(updateCap) ==
  /\ pc = "idle"
  /\ cap' = IF updateCap THEN nbuckets ELSE cap
  /\ nbuckets' = cap'
  /\ \/ buckets' = [j \in DOMAIN buckets |-> IF j < nbuckets' THEN Empty ELSE buckets[j]]
     \/ ~updateCap /\ nbuckets # cap /\ buckets' = [j \in 0 .. cap - 1 |-> Empty]
  /\ count' = 0
  /\ growat' = GrowAt(nbuckets', loadfactor) /\ shrinkat' = ShrinkAt(nbuckets')
  /\ reply' = [call |-> "clear", result |-> {}]
  /\ UNCHANGED <<hash, loadfactor, resizeVars, entry, i, call, pc, yielded, before>>

(* hashmap_set_load_factor.                                                *)
SetLoadFactor(factor) ==
  /\ pc = "idle"
  /\ loadfactor' = factor
  /\ growat' = GrowAt(nbuckets, factor)
  /\ UNCHANGED <<hash, cap, nbuckets, shrinkat, buckets, count, resizeVars, entry, i,
                 call, pc, yielded, before, reply>>

Call ==
  \/ \E name \in Names : Get(name) \/ Delete(name) \/ \E value \in Values : Set(name, value)
  \/ Scan
  \/ \E updateCap \in BOOLEAN : Clear(updateCap)
  \/ \E factor \in LoadFactors : SetLoadFactor(factor)

Step ==
  \/ Place \/ Allocate \/ Rehash \/ Carry \/ Resized
  \/ LookOn \/ GetFinds \/ DeleteFinds \/ ShiftBack \/ Iter

Next == Call \/ Step

(* A call that runs keeps running.                                         *)
Spec == Init /\ [][Next]_vars /\ WF_vars(Step)

----------------------------------------------------------------------------

(* The table a call works on: the one resize0 fills, if it runs.           *)
Tables == pc \in {"rehash", "carry"}
Table  == IF Tables THEN newBuckets ELSE buckets
Size   == IF Tables THEN NewSize ELSE nbuckets

(* The buckets whose item is in it.  During a shift bucket i is about to   *)
(* be overwritten.                                                         *)
Hole == IF pc = "shift" THEN {i} ELSE {}
Used == Occupied(Table, Size, Hole)

Filled == [dib : Nat \ {0}, item : Items]

IsTable(table, size) ==
  table \in [DOMAIN table -> {Empty} \cup Filled] /\ 0 .. size - 1 \subseteq DOMAIN table

TypeOK ==
  /\ hash \in [Names -> Nat]
  /\ cap \in TableSizes /\ nbuckets \in TableSizes /\ cap <= nbuckets
  /\ loadfactor \in LoadFactors
  /\ growat \in 1 .. nbuckets - 1 /\ shrinkat \in 0 .. nbuckets - 1
  /\ IsTable(buckets, nbuckets) /\ IsTable(newBuckets, NewSize)
  /\ source \in Nat /\ i \in Nat

(* How far a bucket is from a home.                                        *)
Dist(home, j, size) == IF home <= j THEN j - home ELSE j + size - home

(* Robin hood order, in the table a call works on and in the one resize0   *)
(* fills (hashmap.c:231-252, 290-313, 383-393): every item is as far from  *)
(* its home as its bucket says, and at most one step further than the one  *)
(* before it, or at home after an empty bucket.  Searches rely on it: of a *)
(* get, to end at an empty bucket; of a set, to find an item before a swap.*)
RobinHood ==
  \A j \in 0 .. Size - 1 :
    LET next == After(j, Size) IN
    /\ j \in Used => Table[j].dib = 1 + Dist(Home(Table[j].item.name, Size), j, Size)
    /\ next \in Used /\ j \notin Hole => Table[next].dib <= Table[j].dib + 1

(* However it was displaced, carried to another table or shifted back, an  *)
(* item has one bucket, and count counts them (hashmap.c:294, 394).        *)
OneBucketEach ==
  /\ Cardinality({Table[j].item.name : j \in Used}) = Cardinality(Used)
  /\ pc \in {"idle", "place", "get", "delete", "scan", "grow", "shrink"}
       => count = Cardinality(Used)

(* No table is ever full, whatever load factors were set, and no search    *)
(* goes round (the while(1) of hashmap.c:238, 290, 332, 372).                   *)
NeverFull ==
  /\ Cardinality(Used) < Size
  /\ pc = "place" => entry.dib <= Size

(* What makes them inductive.  The order is said of all the buckets between*)
(* a home and an item, or the place a call has come to with one: each holds*)
(* an item at least as far from its own home.                              *)
Reached(table, size, hole, home, at) ==
  \A k \in (0 .. size - 1) \ hole :
    Dist(home, k, size) < Dist(home, at, size) => table[k].dib > Dist(home, k, size)

Fits(table, size, hole, bucket, at) ==
  LET home == Home(bucket.item.name, size) IN
  bucket.dib = 1 + Dist(home, at, size) /\ Reached(table, size, hole, home, at)

Ordered(table, size, hole) ==
  \A j \in (0 .. size - 1) \ hole :
    table[j].dib > 0 => Fits(table, size, hole, table[j], j)

(* The items still in the old table, the one that is carried included.     *)
Rest == IF Tables THEN Occupied(buckets, nbuckets, 0 .. source - 1) ELSE {}

Apart ==
  /\ \A j, k \in Used : Table[j].item.name = Table[k].item.name => j = k
  /\ \A j, k \in Rest : buckets[j].item.name = buckets[k].item.name => j = k
  /\ \A j \in Used, k \in Rest : Table[j].item.name # buckets[k].item.name

TableInv == Ordered(Table, Size, Hole) /\ Apart

(* A search has not passed the item it looks for.                          *)
NotPassed(name) ==
  \A j \in Used : Table[j].item.name = name =>
    Dist(Home(name, Size), i, Size) <= Dist(Home(name, Size), j, Size)

LoopInv ==
  /\ pc \in {"place", "get", "delete", "shift"} => i \in Slots
  /\ pc = "scan" => i <= nbuckets
  /\ pc \in {"get", "delete"} => entry.item.name \in Names /\ NotPassed(entry.item.name)
  /\ pc = "place" => Fits(buckets, nbuckets, {}, entry, i) /\ NotPassed(entry.item.name)
  /\ pc = "carry" =>
       /\ i < NewSize /\ source < nbuckets /\ buckets[source].dib > 0
       /\ Fits(newBuckets, NewSize, {}, buckets[source], i)

(* Where each call may be, and what it has in hand.                        *)
CallInv ==
  /\ pc \in {"idle", "grow", "place", "get", "delete", "shift", "shrink", "scan", "rehash", "carry"}
  /\ pc \in {"grow", "place"} => call = "set"
  /\ pc \in {"delete", "shift", "shrink"} => call = "delete"
  /\ Tables => call \in {"set", "delete"} /\ NewSize \in TableSizes
                /\ DOMAIN newBuckets = 0 .. NewSize - 1 /\ cap <= NewSize
                /\ source <= nbuckets
  /\ pc \in {"grow", "place", "shift", "shrink"} \/ Tables =>
       entry \in Filled
  /\ pc = "grow" \/ (Tables /\ call = "set") => entry.dib = 1

(* There is room for one more field when a set begins, and after a shrink. *)
CountInv ==
  /\ count = Cardinality(Used) + Cardinality(Rest) + Cardinality(Hole)
  /\ count + (IF pc = "place" \/ (Tables /\ call = "set") THEN 1 ELSE 0) < Size
  /\ shrinkat = ShrinkAt(nbuckets)
  /\ pc = "shrink" => cap < nbuckets /\ count <= shrinkat

(* The items of both tables are those from before the call, but for what   *)
(* the call has added or taken out.                                        *)
MapItems    == {Table[j].item : j \in Used} \cup {buckets[j].item : j \in Rest}
BeforeItems == {Item(name, before[name]) : name \in DOMAIN before}

HistoryInv ==
  /\ DOMAIN before \subseteq Names /\ before \in [DOMAIN before -> Values]
  /\ pc \in {"get", "delete", "scan", "grow"} \/ (Tables /\ call = "set") => MapItems = BeforeItems
  /\ pc = "place" =>
       \/ MapItems = BeforeItems
       \/ \E new \in Items :
            /\ new.name \notin DOMAIN before
            /\ MapItems \cup {entry.item} = BeforeItems \cup {new}
            /\ \A item \in MapItems : item.name # entry.item.name
  /\ pc \in {"shift", "shrink"} \/ (Tables /\ call = "delete") =>
       entry.item \in BeforeItems /\ MapItems = BeforeItems \ {entry.item}
  /\ yielded = IF pc = "scan" THEN In(buckets, i) ELSE {}

MapInv == TypeOK /\ TableInv /\ LoopInv /\ CallInv /\ CountInv

(* Every call returns: hashmap.c:231-404 has four loops without a bound.   *)
CallsReturn == pc # "idle" ~> pc = "idle"

(* A call takes effect when it returns, whatever its loops did and whether *)
(* memory could be allocated (hashmap.c:270-476): for its callers the      *)
(* table is a function from names to values.                               *)
Mapped == IF pc = "idle" THEN Contents(In(buckets, nbuckets)) ELSE before
Map == INSTANCE FieldMap WITH contents <- Mapped

ImplementsFieldMap == Map!Spec

=============================================================================
