------------------------------ MODULE FieldMap ------------------------------
(***************************************************************************)
(* What the callers of lib/hashmap.c rely on: a header map is a function   *)
(* from the names of fields to their values, and every call is one step.   *)
(* A call answers with the fields it returns: none for NULL, one for a     *)
(* pointer to an item, all of them for a loop over hashmap_iter.           *)
(* While a call runs there is no answer.                                   *)
(***************************************************************************)
CONSTANTS Names, Values

VARIABLES
  contents,     (* a function from some of the names to values           *)
  reply         (* the last call, and the set of fields it returned      *)

Field(name) == [name |-> name, value |-> contents[name]]
Stored(name) == {Field(f) : f \in DOMAIN contents \cap {name}}

Answers(call, result) == reply' = [call |-> call, result |-> result]

Init ==
  /\ contents = [f \in {} |-> CHOOSE v \in Values : TRUE]
  /\ reply = [call |-> "new", result |-> {}]

(* A call begins.                                                          *)
Asks == Answers("none", {}) /\ UNCHANGED contents

(* hashmap_set inserts or replaces, and returns the field it replaced.     *)
Set(name, value) ==
  /\ contents' = [f \in DOMAIN contents \cup {name} |->
                    IF f = name THEN value ELSE contents[f]]
  /\ Answers("set", Stored(name))

(* Without memory hashmap_set returns NULL and changes nothing, and        *)
(* hashmap_oom tells the two NULLs apart.                                  *)
SetFails == Answers("oom", {}) /\ UNCHANGED contents

Get(name) == Answers("get", Stored(name)) /\ UNCHANGED contents

Delete(name) ==
  /\ contents' = [f \in DOMAIN contents \ {name} |-> contents[f]]
  /\ Answers("delete", Stored(name))

Scan == Answers("scan", {Field(f) : f \in DOMAIN contents}) /\ UNCHANGED contents

Clear ==
  /\ contents' = [f \in {} |-> CHOOSE v \in Values : TRUE]
  /\ Answers("clear", {})

Next ==
  \/ \E name \in Names : Get(name) \/ Delete(name) \/ \E value \in Values : Set(name, value)
  \/ Asks \/ SetFails \/ Scan \/ Clear

Spec == Init /\ [][Next]_<<contents, reply>>

=============================================================================
