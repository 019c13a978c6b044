----------------------------- MODULE JsonValues -----------------------------
(***************************************************************************)
(* pcl_json_t (src/json): reference-counted values.  An object or array    *)
(* holds one reference to each value put into it; a value whose last       *)
(* reference goes is freed and releases what it held.  pcl_json_free is    *)
(* recursive: "todo" is what its active calls have still to do, in order.  *)
(* A value is reachable by the pointers the program holds, and by the      *)
(* borrowed ones objget and arrget return, so any value can be operated on.*)
(* pcl_json_match is recursive too, and its calls are in "todo" as well.   *)
(***************************************************************************)
EXTENDS Integers, Sequences, SequencesExt, FiniteSets

CONSTANTS
  Nothing,
  Addr,          \* addresses of pcl_json_t blocks: also a bound
  Leaf,          \* types of values without elements: "string", "int", ...
  Literals,      \* the singletons the program puts and frees
  Name,           \* texts of object keys
  Paths,         \* compiled paths a match is given
  MaxRefs,       \* bound: references the program holds to one value
  MaxKids        \* bound: elements of one array or object

VARIABLES
  values,          \* allocated values and the singletons
  own,           \* references the program holds
  results,       \* array of a pcl_json_match not yet freed, or Nothing
  todo,          \* what the active calls have still to do, in order
  strings        \* string blocks that keys and string values are stored in

valueVars == <<values, own, results, todo, strings>>

\* The static values of json_null.c, json_true.c and json_false.c.
Singleton == {"null", "true", "false"}
Value == DOMAIN values
Blocks == Value \ Singleton
IsSingleton(v) == v \in Singleton
Made(type) == [type |-> type, nrefs |-> 1, kids |-> <<>>]
Container(v) == values[v].type \in {"object", "array"}
KidsOf(v) == [i \in 1 .. Len(values[v].kids) |-> values[v].kids[i].val]
NamesOf(v) == {values[v].kids[i].key : i \in 1 .. Len(values[v].kids)}
Occurs(v, s) == Cardinality({i \in 1 .. Len(s) : s[i] = v})

\* What a compiled path is (json_compile.c): a list has integer indexes, a
\* slice integer bounds.
IsPath(p) ==
  /\ p \in Seq(Range(p))
  /\ \A step \in Range(p) :
       /\ step.type \in {"root", "member", "descent", "anyMember", "anyElement",
                         "element", "list", "slice"}
       /\ step.type = "list" => step.list \in Seq(Int)
       /\ step.type = "slice" => step.start \in Int /\ step.end \in Int /\ step.step \in Int

ValuesOK ==
  /\ IsFiniteSet(Addr) /\ Addr \cap Singleton = {}
  /\ Nothing \notin Addr \cup Singleton \cup Name
  /\ Nothing \notin Seq(Addr \cup Singleton)
  /\ \A p \in Paths : IsPath(p)

ValuesInit ==
  /\ values = [s \in Singleton |-> [type |-> s, nrefs |-> 0, kids |-> <<>>]]
  /\ own = [v \in Addr |-> 0]
  /\ results = Nothing
  /\ todo = <<>>
  /\ strings = 0

-----------------------------------------------------------------------------
\* The allocator returns any unused block; one of them stands for all.
HasRoom == Addr \ Blocks # {}
Fresh == CHOOSE a \in Addr \ Blocks : TRUE
With(v, value) == [w \in Value \cup {v} |-> IF w = v THEN value ELSE values[w]]

\* One more reference to each value of the sequence s (pcl_json_ref); the
\* counts of the singletons stay at zero.
Ref(h, s) == [v \in DOMAIN h |->
  IF IsSingleton(v) THEN h[v] ELSE [h[v] EXCEPT !.nrefs = @ + Occurs(v, s)]]

Releases(s) == [i \in 1 .. Len(s) |-> [op |-> "release", val |-> s[i]]]

\* What the program may give away: its references, and the singletons.
Given == {v \in Blocks : own[v] > 0} \cup (Singleton \cap Literals)
Disown(v) == own' = IF v \in Addr THEN [own EXCEPT ![v] = @ - 1] ELSE own

\* The nodes beneath v, and v.
Beneath(v) ==
  LET Level[k \in Nat] == IF k = 0 THEN {v}
        ELSE Level[k - 1] \cup UNION {Range(KidsOf(w)) : w \in Level[k - 1]}
  IN Level[Cardinality(Addr)]

-----------------------------------------------------------------------------
\* pcl_json_obj, _arr, _str, _int, _real.
NewValue(type) ==
  /\ HasRoom
  /\ values' = With(Fresh, Made(type))
  /\ own' = [own EXCEPT ![Fresh] = 1]
  /\ strings' = strings + (IF type = "string" THEN 1 ELSE 0)
  /\ UNCHANGED <<results, todo>>

\* pcl_json_ref(v, 1).
AddRef(v) ==
  /\ IF v \in Addr THEN own[v] < MaxRefs ELSE TRUE
  /\ values' = Ref(values, <<v>>)
  /\ own' = IF v \in Addr THEN [own EXCEPT ![v] = @ + 1] ELSE own
  /\ UNCHANGED <<results, todo, strings>>

\* The program calls pcl_json_free.
FreeValue(v) ==
  /\ Disown(v)
  /\ todo' = Releases(<<v>>)
  /\ UNCHANGED <<values, results, strings>>

PutsFirst(h, o, k, v) == [h EXCEPT ![o].kids = <<[key |-> k, val |-> v]>> \o @]
AddKid(h, o, k, v) == [h EXCEPT ![o].kids = Append(@, [key |-> k, val |-> v])]
DropKid(o, i) == [values EXCEPT ![o].kids = RemoveAt(@, i)]

\* The reasons for which pcl_json_objput refuses: not an object, a key that
\* is not UTF-8, a key the object has.
Refuses(o, k) == values[o].type # "object" \/ k \notin Name \/ k \in NamesOf(o)

\* PCL_JSON_FREEVALONERR: the value of a put that fails is freed.
FreeOnError(v) == Releases(<<v>>)

\* pcl_json_objput.  The object takes the program's reference to the value;
\* a put that fails leaves it to the program or frees it (freeval).  The copy
\* of the key is the object's, or was freed.  The program never puts a value
\* beneath itself.
ObjPut(o, k, v, freeval) ==
  /\ o \notin Beneath(v)
  /\ Len(values[o].kids) < MaxKids
  /\ \/ /\ ~Refuses(o, k)
        /\ values' = AddKid(values, o, k, v)
        /\ strings' = strings + 1
        /\ Disown(v)
        /\ UNCHANGED todo
     \/ /\ Refuses(o, k)
        /\ IF freeval THEN Disown(v) /\ todo' = FreeOnError(v)
                      ELSE UNCHANGED <<own, todo>>
        /\ UNCHANGED <<values, strings>>
  /\ UNCHANGED results

\* pcl_json_arradd.
ArrAdd(a, v, freeval) ==
  /\ a \notin Beneath(v)
  /\ Len(values[a].kids) < MaxKids
  /\ \/ /\ values[a].type = "array"
        /\ values' = AddKid(values, a, Nothing, v)
        /\ Disown(v)
        /\ UNCHANGED todo
     \/ /\ values[a].type # "array"
        /\ IF freeval THEN Disown(v) /\ todo' = FreeOnError(v)
                      ELSE UNCHANGED <<own, todo>>
        /\ UNCHANGED values
  /\ UNCHANGED <<results, strings>>

\* pcl_json_objremove, pcl_json_arrremove: the element is released, and with
\* it the key of an object's.
RemoveKid(c, i) ==
  /\ Container(c) /\ i \in DOMAIN values[c].kids
  /\ values' = DropKid(c, i)
  /\ todo' = Releases(<<values[c].kids[i].val>>)
  /\ strings' = strings - (IF values[c].type = "object" THEN 1 ELSE 0)
  /\ UNCHANGED <<own, results>>

-----------------------------------------------------------------------------
\* pcl_json_match: a visit is a call of walk_path with the rest of the path,
\* of its caller's pcl_array_append once nothing is left of the path, or, with
\* no value, of neither: pcl_array_get found no element.
Visit(n, path) == [op |-> "visit", val |-> n, path |-> path]

\* The loop over a slice, at element i.
Slice(n, path, i) == [op |-> "slice", val |-> n, path |-> path, at |-> i]

KidAt(n, i) ==
  IF values[n].type = "array" /\ i \in 0 .. Len(values[n].kids) - 1
  THEN values[n].kids[i + 1].val ELSE Nothing

StepMatches(next, n, i) ==
  IF values[n].type = "object"
  THEN next.type = "member" /\ next.member = values[n].kids[i].key
  ELSE next.type = "element" /\ next.index = i - 1

FromEnd(n, i) == IF i < 0 THEN Len(values[n].kids) + i ELSE i
SliceEnd(n, step) == IF step.end = 0 THEN Len(values[n].kids) ELSE FromEnd(n, step.end)

\* What a call of walk_path at node n calls, in order.
Calls(n, path) ==
  LET step == Head(path)
      rest == Tail(path)
      kids == values[n].kids
      type == values[n].type
      all == [i \in 1 .. Len(kids) |-> Visit(kids[i].val, rest)]
  IN CASE step.type = "root" -> <<Visit(n, rest)>>
       [] step.type = "member" ->
            IF type = "object" /\ step.member \in NamesOf(n)
            THEN <<Visit((CHOOSE e \in Range(kids) : e.key = step.member).val, rest)>>
            ELSE <<>>
       [] step.type = "descent" ->
            [i \in 1 .. Len(kids) |->
               IF StepMatches(Head(rest), n, i) THEN Visit(n, rest) ELSE Visit(kids[i].val, path)]
       [] step.type = "anyMember" -> IF type = "object" THEN all ELSE <<Visit(n, <<>>)>>
       [] step.type = "anyElement" -> IF type = "array" THEN all ELSE <<Visit(n, <<>>)>>
       [] step.type = "element" -> <<Visit(KidAt(n, step.index), rest)>>
       [] step.type = "list" ->
            [i \in 1 .. Len(step.list) |-> Visit(KidAt(n, step.list[i]), rest)]
       [] step.type = "slice" ->
            IF type = "array" THEN <<Slice(n, path, FromEnd(n, step.start))>> ELSE <<>>

Match(root, path) ==
  /\ results = Nothing
  /\ results' = <<>>
  /\ todo' = <<Visit(root, path)>>
  /\ UNCHANGED <<values, own, strings>>

\* The array of results holds a reference to each value in it.
Finds(v) ==
  /\ results' = Append(results, v)
  /\ values' = Ref(values, <<v>>)
  /\ todo' = Tail(todo)

VisitStep(n, path) ==
  \/ n = Nothing /\ todo' = Tail(todo) /\ UNCHANGED <<values, results>>
  \/ n # Nothing /\ path = <<>> /\ Finds(n)
  \/ /\ n # Nothing /\ path # <<>>
     /\ todo' = Calls(n, path) \o Tail(todo)
     /\ UNCHANGED <<values, results>>

SliceStep(n, path, i) ==
  /\ todo' = IF i < SliceEnd(n, Head(path))
             THEN <<Visit(KidAt(n, i), Tail(path)), Slice(n, path, i + Head(path).step)>> \o Tail(todo)
             ELSE Tail(todo)
  /\ UNCHANGED <<values, results>>

WalkStep ==
  /\ todo # <<>>
  /\ \/ Head(todo).op = "visit" /\ VisitStep(Head(todo).val, Head(todo).path)
     \/ Head(todo).op = "slice" /\ SliceStep(Head(todo).val, Head(todo).path, Head(todo).at)
  /\ UNCHANGED <<own, strings>>

\* pcl_array_free of the results: the handler of pcl_json_arr releases each.
FreeResults ==
  /\ results # Nothing
  /\ results' = Nothing
  /\ todo' = Releases(results)
  /\ UNCHANGED <<values, own, strings>>

-----------------------------------------------------------------------------
\* A pcl_json_free: the count goes down; at zero the string or the keys are
\* freed, the elements are released one after the other, then the block goes.
StringsOf(v) == IF values[v].type = "string" THEN 1
                ELSE IF values[v].type = "object" THEN Len(values[v].kids) ELSE 0

Release(v) ==
  IF IsSingleton(v) THEN
    /\ todo' = Tail(todo)
    /\ UNCHANGED <<values, strings>>
  ELSE IF values[v].nrefs > 1 THEN
    /\ values' = [values EXCEPT ![v].nrefs = @ - 1]
    /\ todo' = Tail(todo)
    /\ UNCHANGED strings
  ELSE
    /\ values' = [values EXCEPT ![v].nrefs = @ - 1, ![v].kids = <<>>]
    /\ strings' = strings - StringsOf(v)
    /\ todo' = Releases(KidsOf(v)) \o <<[op |-> "free", val |-> v]>> \o Tail(todo)

FreeStep ==
  /\ todo # <<>>
  /\ \/ Head(todo).op = "release" /\ Release(Head(todo).val)
     \/ /\ Head(todo).op = "free"
        /\ values' = [v \in Value \ {Head(todo).val} |-> values[v]]
        /\ todo' = Tail(todo)
        /\ UNCHANGED strings
  /\ UNCHANGED <<own, results>>

\* A bound: while the program holds results it creates and adds nothing.
Builds ==
  /\ results = Nothing
  /\ \/ \E type \in Leaf \cup {"object", "array"} : NewValue(type)
     \/ \E o \in Value, v \in Given, freeval \in BOOLEAN :
          \/ \E k \in Name \cup {"notUtf8"} : ObjPut(o, k, v, freeval)
          \/ ArrAdd(o, v, freeval)
     \/ \E root \in Given, path \in Paths : Match(root, path)

Operation ==
  /\ todo = <<>>
  /\ \/ Builds
     \/ \E v \in Value : AddRef(v)
     \/ \E v \in Given : FreeValue(v)
     \/ \E c \in Value : \E i \in DOMAIN values[c].kids : RemoveKid(c, i)
     \/ FreeResults
=============================================================================
