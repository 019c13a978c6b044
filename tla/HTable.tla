------------------------------- MODULE HTable -------------------------------
(***************************************************************************)
(* The PCL hash table, src/htable: entries are stored in one array in the  *)
(* order they are put, collisions are chained through 'next' indexes, and  *)
(* entry_lookup maps a bucket to the index of the first entry of its       *)
(* chain.  Every loop of the code that walks a chain or copies entries is  *)
(* a sequence of steps here, so that the invariants are the loops'         *)
(* invariants too.                                                         *)
(*                                                                         *)
(* A key pointer stands for the pair (key, value): the code always stores, *)
(* moves and releases the two together.                                    *)
(***************************************************************************)
EXTENDS Integers, FiniteSets, Sequences

CONSTANTS
  Key,            \* key pointers the caller can allocate
  text,           \* the bytes each key pointer points at: what key_equals compares
  hash,           \* hash code of each key pointer, a function of its bytes
  NULL,           \* the NULL pointer
  MINTBLSIZE,     \* smallest table, 8 in the code
  MAXTBLSIZE,     \* largest table, 2^30 in 64-bit builds
  MaxLoadFactors,           \* values of max_loadfac in use, as <<num, den>>: <<3, 4>> by default
  MinLoadNum, MinLoadDen,   \* min_loadfac as a fraction, 1/5 by default
  Requests        \* capacities callers ask pcl_htable for

VARIABLES
  capacity, count, count_used, entries, entry_lookup,  \* pcl_htable_t
  max_loadfac,    \* a field the caller may set while the table is empty
  held,           \* keys the table owns: put and not yet passed to remove_entry
  pc,             \* where the call in progress is
  call, arg, unique, ret,   \* the call in progress and its outcome, see OrderedMap
  cur, prev,      \* entidx and prev of the chain walk
  rehash          \* locals of ipcl_htable_rehash

table == <<capacity, count, count_used, entries, entry_lookup, max_loadfac>>
args  == <<call, arg, unique>>
walk  == <<cur, prev>>
vars  == <<table, held, pc, args, ret, walk, rehash>>

-----------------------------------------------------------------------------
(* Table sizes. *)

PowersOfTwo == {2^k : k \in 0..30}

\* ipcl_htable_chkcapacity: at least MINTBLSIZE, rounded up to a power of two.
ChkCapacity(c) ==
  CHOOSE p \in PowersOfTwo :
    /\ p >= c /\ p >= MINTBLSIZE
    /\ \A q \in PowersOfTwo : q >= c /\ q >= MINTBLSIZE => p <= q

ASSUME KeyAssumption ==
  /\ NULL \notin Key
  /\ hash \in [Key -> Nat]
  /\ text \in [Key -> Nat]
  /\ \A k, l \in Key : text[k] = text[l] => hash[k] = hash[l]

ASSUME SizeAssumption ==
  /\ MINTBLSIZE \in Nat \ {0}
  /\ MAXTBLSIZE \in Nat /\ MAXTBLSIZE >= MINTBLSIZE
  /\ \A n \in Requests : ChkCapacity(n) \in MINTBLSIZE..MAXTBLSIZE

\* At most half the slots are live when a table shrinks, so that they fit.
ASSUME LoadAssumption ==
  /\ \A f \in MaxLoadFactors : f[1] \in Nat /\ f[2] \in Nat \ {0}
  /\ MinLoadNum \in Nat /\ MinLoadDen \in Nat \ {0} /\ 2 * MinLoadNum <= MinLoadDen

\* (int)(loadfac * (float) capacity)
MaxLoad(cap) == (max_loadfac[1] * cap) \div max_loadfac[2]
MinLoad(cap) == (MinLoadNum * cap) \div MinLoadDen

\* New capacity of a rehash.  A capacity is a power of two, so doubling it or
\* halving it needs no rounding in ipcl_htable_chkcapacity.
Doubled == 2 * capacity
Halved  == IF capacity \div 2 >= MINTBLSIZE THEN capacity \div 2 ELSE MINTBLSIZE

-----------------------------------------------------------------------------
(* The two arrays.  They are parameters: a rehash builds new ones. *)

Slots(cap) == 0..(cap - 1)
Blank      == [key |-> NULL, code |-> 0, next |-> -1]

\* ipcl_htable_init.  memset leaves next = 0 in an unused entry, -1 in a removed
\* one; nobody reads it, and both are Blank here.
BlankEntries(cap) == [i \in Slots(cap) |-> Blank]
BlankLookup(cap)  == [b \in Slots(cap) |-> -1]

\* code & table_mask, the capacity being a power of two
Bucket(code, cap) == code % cap

\* Mutant of LinkedEntries: the entry goes before the head, which still points
\* to it.
CyclicEntries(ents, look, cap, i, k, code) ==
  LET head == look[Bucket(code, cap)]
  IN  [[ents EXCEPT ![i] = [key |-> k, code |-> code, next |-> head]] EXCEPT
        ![IF head = -1 THEN i ELSE head] = [@ EXCEPT !.next = IF head = -1 THEN -1 ELSE i]]

\* Store a key in entry i and link it behind the head of its chain, as
\* pcl_htable_put and ipcl_htable_rehash both do.
LinkedEntries(ents, look, cap, i, k, code) ==
  LET head == look[Bucket(code, cap)]
  IN  IF head = -1
      THEN [ents EXCEPT ![i] = [key |-> k, code |-> code, next |-> -1]]
      ELSE [ents EXCEPT ![i] = [key |-> k, code |-> code, next |-> ents[head].next],
                        ![head] = [key |-> ents[head].key, code |-> ents[head].code,
                                   next |-> i]]

\* Mutant of LinkedLookup: a rehash uses the mask of the old table.
OldMaskLookup(look, cap, i, code) ==
  IF look[Bucket(code, cap)] = -1
  THEN [look EXCEPT ![Bucket(code, capacity)] = i]
  ELSE look

LinkedLookup(look, cap, i, code) ==
  IF look[Bucket(code, cap)] = -1
  THEN [look EXCEPT ![Bucket(code, cap)] = i]
  ELSE look

\* Take entry c out of its chain, where p is the entry before it (-1 when c is the
\* head of bucket b), and blank it, as pcl_htable_remove does.
UnlinkedEntries(ents, p, c) ==
  LET erased == [ents EXCEPT ![c] = Blank]
  IN  IF p = -1 THEN erased
      ELSE [erased EXCEPT ![p] = [key |-> ents[p].key, code |-> ents[p].code,
                                  next |-> ents[c].next]]

\* Mutant of UnlinkedLookup: removing the head leaves the bucket pointing at it.
StaleHead(look, b, p, next) == look

UnlinkedLookup(look, b, p, next) == IF p = -1 THEN [look EXCEPT ![b] = next] ELSE look

\* The entries that are neither unused nor removed.
Live(ents, used) == {i \in 0..(used - 1) : ents[i].key # NULL}

KeysOf(ents, slots) == {ents[i].key : i \in slots}

-----------------------------------------------------------------------------
\* i: the entry to copy next; n, cap, ents, look: the count, the capacity and
\* the arrays of the new table.
Rehashing(i, n, cap, ents, look) ==
  [i |-> i, n |-> n, cap |-> cap, ents |-> ents, look |-> look]

NoRehash == Rehashing(0, 0, 0, <<>>, <<>>)

\* Mutant of EmptyTable: the counts are not reset.
StaleCounts(cap) ==
  /\ max_loadfac' \in MaxLoadFactors
  /\ capacity' = cap
  /\ entries' = BlankEntries(cap)
  /\ entry_lookup' = BlankLookup(cap)
  /\ UNCHANGED <<count, count_used>>

\* An empty table, as pcl_htable and pcl_htable_clear leave it.  Now the caller
\* may set the load factor.
EmptyTable(cap) ==
  /\ max_loadfac' \in MaxLoadFactors
  /\ capacity' = cap
  /\ count' = 0 /\ count_used' = 0
  /\ entries' = BlankEntries(cap)
  /\ entry_lookup' = BlankLookup(cap)

Init ==
  /\ \E n \in Requests : capacity = ChkCapacity(n)
  /\ max_loadfac \in MaxLoadFactors
  /\ count = 0 /\ count_used = 0
  /\ entries = BlankEntries(capacity)
  /\ entry_lookup = BlankLookup(capacity)
  /\ held = {}
  /\ pc = "idle"
  /\ call = "none" /\ arg = NULL /\ unique = FALSE /\ ret = "done"
  /\ cur = -1 /\ prev = -1
  /\ rehash = NoRehash

NoCall == call' = "none" /\ arg' = NULL /\ unique' = FALSE

Return(out) ==
  /\ pc' = "idle"
  /\ NoCall /\ ret' = out
  /\ cur' = -1 /\ prev' = -1
  /\ rehash' = NoRehash

\* Enter pcl_htable_put, pcl_htable_lookup or pcl_htable_remove and hash the key.
\* A key may be put while the caller owns it; a key is looked up by its bytes.
Begin(c, k, u) ==
  /\ pc = "idle"
  /\ c = "put" => k \notin held
  /\ call' = c /\ arg' = k /\ unique' = u /\ ret' = "pending"
  /\ cur' = entry_lookup[Bucket(hash[k], capacity)]
  /\ prev' = -1
  /\ pc' = "walk"
  /\ UNCHANGED <<table, held, rehash>>

\* Mutants of Matches: pointers are compared, or nothing but the hash codes.
SamePointer(i) == entries[i].key = arg
SameCode(i)    == entries[i].code = hash[arg]

\* e->code == code && key_equals(e->key, key)
Matches(i) ==
  /\ entries[i].code = hash[arg]
  /\ text[entries[i].key] = text[arg]

Found  == pc = "walk" /\ cur # -1 /\ Matches(cur)
Missed == pc = "walk" /\ cur = -1

\* Mutant of WalkOn: prev stays behind.
WalkForgetsPrev ==
  /\ pc = "walk" /\ cur # -1 /\ ~Matches(cur)
  /\ cur' = entries[cur].next
  /\ UNCHANGED <<table, held, pc, args, ret, prev, rehash>>

\* One iteration of either chain walk, on an entry that is not the key's.
WalkOn ==
  /\ pc = "walk" /\ cur # -1 /\ ~Matches(cur)
  /\ prev' = cur
  /\ cur' = entries[cur].next
  /\ UNCHANGED <<table, held, pc, args, ret, rehash>>

GetHit  == Found /\ call = "get" /\ Return("found") /\ UNCHANGED <<table, held>>
GetMiss == Missed /\ call = "get" /\ Return("ENOTFOUND") /\ UNCHANGED <<table, held>>

-----------------------------------------------------------------------------
(* pcl_htable_put *)

PutExists ==
  /\ Found /\ call = "put" /\ unique
  /\ Return("EEXIST")
  /\ UNCHANGED <<table, held>>

\* Mutant of PutReplace: the old key is not handed to remove_entry.
ReplaceLeaks ==
  /\ Found /\ call = "put" /\ ~unique
  /\ entries' = [entries EXCEPT ![cur].key = arg]
  /\ held' = held \cup {arg}
  /\ Return("replaced")
  /\ UNCHANGED <<capacity, count, count_used, entry_lookup, max_loadfac>>

\* The new key takes the old one's place; remove_entry gets the old one.
PutReplace ==
  /\ Found /\ call = "put" /\ ~unique
  /\ entries' = [entries EXCEPT ![cur].key = arg]
  /\ held' = (held \ {entries[cur].key}) \cup {arg}
  /\ Return("replaced")
  /\ UNCHANGED <<capacity, count, count_used, entry_lookup, max_loadfac>>

StartRehash(cap) ==
  /\ pc' = "rehash"
  /\ rehash' = Rehashing(0, 0, cap, BlankEntries(cap), BlankLookup(cap))
  /\ cur' = -1 /\ prev' = -1

PutGrow ==
  /\ Missed /\ call = "put"
  /\ count >= MaxLoad(capacity)
  /\ Doubled <= MAXTBLSIZE
  /\ StartRehash(Doubled)
  /\ UNCHANGED <<table, held, args, ret>>

PutFull ==
  /\ Missed /\ call = "put"
  /\ count >= MaxLoad(capacity)
  /\ Doubled > MAXTBLSIZE
  /\ Return("ERANGE")
  /\ UNCHANGED <<table, held>>

\* The load factor asks for no rehash: go on to the insertion.
PutFits ==
  /\ Missed /\ call = "put"
  /\ count < MaxLoad(capacity)
  /\ pc' = "insert"
  /\ cur' = -1 /\ prev' = -1
  /\ UNCHANGED <<table, held, args, ret, rehash>>

\* The next free entry is entries[count_used].  Nothing compares count_used
\* with capacity: see Overrun.
PutInsert ==
  /\ pc = "insert" /\ count_used < capacity
  /\ entries' = LinkedEntries(entries, entry_lookup, capacity, count_used, arg, hash[arg])
  /\ entry_lookup' = LinkedLookup(entry_lookup, capacity, count_used, hash[arg])
  /\ count' = count + 1
  /\ count_used' = count_used + 1
  /\ held' = held \cup {arg}
  /\ Return("added")
  /\ UNCHANGED <<capacity, max_loadfac>>

\* Removed entries have used up the array: the store goes past entries[] and
\* into entry_lookup[], which lies behind it in the same block.  What follows
\* is undefined; the model stops.
Overrun ==
  /\ pc = "insert" /\ count_used >= capacity
  /\ pc' = "overrun"
  /\ UNCHANGED <<table, held, args, ret, walk, rehash>>

-----------------------------------------------------------------------------
(* pcl_htable_remove *)

\* Unlink the entry, hand it to remove_entry and blank it.  The table shrinks
\* if it is left too empty.
RemoveHit ==
  /\ Found /\ call = "remove"
  /\ entries' = UnlinkedEntries(entries, prev, cur)
  /\ entry_lookup' =
       UnlinkedLookup(entry_lookup, Bucket(hash[arg], capacity), prev, entries[cur].next)
  /\ held' = held \ {entries[cur].key}
  /\ count' = count - 1
  /\ IF capacity # MINTBLSIZE /\ count - 1 < MinLoad(capacity)
     THEN StartRehash(Halved) /\ UNCHANGED <<args, ret>>
     ELSE Return("removed")
  /\ UNCHANGED <<capacity, count_used, max_loadfac>>

\* No entry has the key: what is returned is the count, and no error.
RemoveMiss ==
  /\ Missed /\ call = "remove"
  /\ Return("absent")
  /\ UNCHANGED <<table, held>>

-----------------------------------------------------------------------------
(* ipcl_htable_rehash *)

\* A deleted entry is left behind.
RehashSkip ==
  /\ pc = "rehash" /\ rehash.i < count_used
  /\ entries[rehash.i].key = NULL
  /\ rehash' = Rehashing(rehash.i + 1, rehash.n, rehash.cap, rehash.ents, rehash.look)
  /\ UNCHANGED <<table, held, pc, args, ret, walk>>

\* A live entry goes to the next entry of the new array.
RehashCopy ==
  /\ pc = "rehash" /\ rehash.i < count_used
  /\ LET e == entries[rehash.i]
     IN  /\ e.key # NULL
         /\ rehash' = Rehashing(rehash.i + 1, rehash.n + 1, rehash.cap,
              LinkedEntries(rehash.ents, rehash.look, rehash.cap, rehash.n, e.key, e.code),
              LinkedLookup(rehash.look, rehash.cap, rehash.n, e.code))
  /\ UNCHANGED <<table, held, pc, args, ret, walk>>

\* The new arrays replace the old ones.  A put still has its key to insert.
RehashDone ==
  /\ pc = "rehash" /\ rehash.i = count_used
  /\ capacity' = rehash.cap
  /\ entries' = rehash.ents
  /\ entry_lookup' = rehash.look
  /\ count_used' = count
  /\ rehash' = NoRehash
  /\ IF call = "put"
     THEN pc' = "insert" /\ UNCHANGED <<args, ret>>
     ELSE pc' = "idle" /\ NoCall /\ ret' = "removed"
  /\ UNCHANGED <<count, held, walk, max_loadfac>>

-----------------------------------------------------------------------------
(* pcl_htable_clear, pcl_htable_free, pcl_htable: no loop of theirs can be
   told from its outcome, remove_entry being called on every live entry. *)

EndsEmpty ==
  /\ NoCall /\ ret' = "done"
  /\ held' = held \ KeysOf(entries, Live(entries, count_used))
  /\ UNCHANGED <<walk, rehash>>

Clear(shrink) ==
  /\ pc = "idle"
  /\ EndsEmpty
  /\ EmptyTable(IF shrink THEN MINTBLSIZE ELSE capacity)
  /\ UNCHANGED pc

Free ==
  /\ pc = "idle"
  /\ EndsEmpty
  /\ EmptyTable(capacity)
  /\ pc' = "freed"

New ==
  /\ pc = "freed"
  /\ \E n \in Requests : EmptyTable(ChkCapacity(n))
  /\ EndsEmpty
  /\ pc' = "idle"

-----------------------------------------------------------------------------
\* Only pcl_htable_put has a 'unique' argument.
Enter ==
  \E c \in {"put", "get", "remove"}, k \in Key, u \in BOOLEAN :
    (u => c = "put") /\ Begin(c, k, u)

\* The steps of a call in progress.
Run ==
  \/ WalkOn \/ GetHit \/ GetMiss
  \/ PutExists \/ PutReplace \/ PutGrow \/ PutFull \/ PutFits \/ PutInsert \/ Overrun
  \/ RemoveHit \/ RemoveMiss
  \/ RehashSkip \/ RehashCopy \/ RehashDone

Next ==
  \/ Enter
  \/ Run
  \/ \E shrink \in BOOLEAN : Clear(shrink)
  \/ Free
  \/ New

Spec == Init /\ [][Next]_vars

\* A call that is entered runs to its end: the table has one thread.
FairSpec == Spec /\ WF_vars(Run)

-----------------------------------------------------------------------------
(* Types and invariants *)

EntryType == [key : Key \cup {NULL}, code : Nat, next : Int]
PCs == {"idle", "walk", "insert", "rehash", "freed", "overrun"}

ArraysType(ents, look, cap) ==
  /\ ents \in [Slots(cap) -> EntryType]
  /\ look \in [Slots(cap) -> Int]

\* Every variable has its type; the table is never smaller than MINTBLSIZE and
\* count_used never passes the end of entries[], however the calls interleave.
TypeOK ==
  /\ capacity \in Nat \ {0} /\ capacity >= MINTBLSIZE
  /\ count \in Nat /\ count_used \in 0..capacity
  /\ ArraysType(entries, entry_lookup, capacity)
  /\ max_loadfac \in MaxLoadFactors
  /\ held \subseteq Key
  /\ pc \in PCs
  /\ call \in {"none", "put", "get", "remove"}
  /\ pc \in {"walk", "insert", "rehash", "overrun"} => arg \in Key
  /\ cur \in Int /\ prev \in Int
  /\ rehash.i \in Nat /\ rehash.n \in Nat /\ rehash.cap \in Nat
  /\ pc = "rehash" => /\ rehash.cap # 0 /\ rehash.cap >= MINTBLSIZE
                      /\ ArraysType(rehash.ents, rehash.look, rehash.cap)

\* n is the greatest member of S, -1 when there is none.
IsMaxOf(n, S) == \/ n = -1 /\ S = {}
                 \/ n \in S /\ \A j \in S : j <= n

InBucket(ents, used, cap, b) == {i \in Live(ents, used) : Bucket(ents[i].code, cap) = b}

\* The chain of bucket b holds exactly the live entries of the bucket.  Its head
\* stays where it is while every later entry is linked behind it, so the others
\* follow in descending order of their indexes.
ChainOK(ents, look, used, cap, b) ==
  LET members == InBucket(ents, used, cap, b)
      head    == look[b]
      rest    == members \ {head}
  IN  /\ head = -1 => members = {}
      /\ head # -1 => head \in members /\ IsMaxOf(ents[head].next, rest)
      /\ \A i \in rest : IsMaxOf(ents[i].next, {j \in rest : j < i})

Chains(ents, look, used, cap) == \A b \in Slots(cap) : ChainOK(ents, look, used, cap, b)

\* Every chain of the table is exact: no live entry is lost to a lookup, none is
\* on two chains and no chain has a cycle, at every step of every call.
ChainsOK == Chains(entries, entry_lookup, count_used, capacity)

\* An entry carries the hash code of its key, and no two carry the same text.
\* This is what pcl_htable_put promises, whatever its 'unique' argument.
KeysOK ==
  \A i \in Live(entries, count_used) :
    /\ entries[i].code = hash[entries[i].key]
    /\ \A j \in Live(entries, count_used) :
         text[entries[i].key] = text[entries[j].key] => i = j

\* The table owns exactly the keys of its live entries: a key (and its value) is
\* passed to remove_entry when it leaves the table, neither sooner nor later,
\* and never twice.
OwnedOnce == held = KeysOf(entries, Live(entries, count_used))

\* 'count' is what remains when the deleted entries are skipped.
CountOK == count = Cardinality(Live(entries, count_used))

\* Entries with the text of the call's argument.
Wanted == {i \in Live(entries, count_used) : text[entries[i].key] = text[arg]}

\* A chain walk has not passed the entry it looks for, so that reaching the end
\* of the chain means there is none; prev is the entry before cur.
WalkOK ==
  LET b == Bucket(hash[arg], capacity)
      members == InBucket(entries, count_used, capacity, b)
      head == entry_lookup[b]
  IN  pc = "walk" =>
        \/ cur = head /\ prev = -1
        \/ /\ prev \in members /\ entries[prev].next = cur
           /\ cur # head
           /\ cur = -1 \/ cur \in members
           /\ \A i \in Wanted : i <= cur /\ i # head

\* No entry has the text of a key that is about to be added.
AddingOK ==
  /\ pc = "insert" => call = "put"
  /\ pc \in {"insert", "rehash"} /\ call = "put" => Wanted = {}

\* A key that is being put is still the caller's.
PutOwnership == pc \in {"walk", "insert", "rehash"} /\ call = "put" => arg \notin held

\* The slots a rehash has copied so far.
Copied == {j \in Live(entries, count_used) : j < rehash.i}

\* Half-way through a rehash the new arrays hold exactly the live entries seen so
\* far, each once and properly chained, and there is room for the rest (and for
\* the key being put): no store goes out of the new block.
RehashOK ==
  pc = "rehash" =>
    /\ call \in {"put", "remove"}
    /\ rehash.i <= count_used
    /\ rehash.n = Cardinality(Copied)
    /\ count <= rehash.cap /\ (call = "put" => count < rehash.cap)
    /\ Live(rehash.ents, rehash.n) = Slots(rehash.n)
    /\ KeysOf(rehash.ents, Slots(rehash.n)) = KeysOf(entries, Copied)
    /\ \A m \in Slots(rehash.n) :
         /\ rehash.ents[m].code = hash[rehash.ents[m].key]
         /\ \A n \in Slots(rehash.n) : rehash.ents[m].key = rehash.ents[n].key => m = n
    /\ Chains(rehash.ents, rehash.look, rehash.n, rehash.cap)

\* The inductive invariant: the parts above, each needed to carry the others
\* through a step.
IInv == /\ TypeOK /\ ChainsOK /\ KeysOK /\ OwnedOnce /\ CountOK
        /\ WalkOK /\ AddingOK /\ PutOwnership /\ RehashOK

-----------------------------------------------------------------------------
(* What the caller sees *)

\* The live keys of the first 'used' entries, in their order.
KeysUpTo(ents, used) ==
  LET upto[i \in 0..used] ==
        IF i = 0 THEN <<>>
        ELSE IF ents[i - 1].key = NULL THEN upto[i - 1]
        ELSE Append(upto[i - 1], ents[i - 1].key)
  IN  upto[used]

\* pcl_htable_keys
Keys == KeysUpTo(entries, count_used)

\* Between calls none is in progress.
CallOK == pc \in {"idle", "freed"} => call = "none"

\* A rehash copies the keys in their order.
RehashOrder ==
  pc = "rehash" => KeysUpTo(rehash.ents, rehash.n) = KeysUpTo(entries, rehash.i)

\* What a step needs to look like one of the map.
MapInv == IInv /\ CallOK /\ RehashOrder

\* A removal has taken place when the table starts to shrink.
Removed == pc = "rehash" /\ call = "remove"

Map == INSTANCE OrderedMap WITH
  order  <- Keys,
  call   <- IF Removed THEN "none" ELSE call,
  arg    <- IF Removed THEN NULL ELSE arg,
  unique <- IF Removed THEN FALSE ELSE unique,
  ret    <- IF Removed THEN "removed" ELSE ret

\* The table implements the map its header promises: through collisions, holes
\* left by removals, growing and shrinking, a lookup finds exactly what was put
\* and the entries keep the order in which they were inserted.
ImplementsMap == Map!Spec

\* A call that is entered returns, unless it runs off the table: no chain ever
\* has a cycle and a rehash ends.
CallsReturn == (pc \in {"walk", "insert", "rehash"}) ~> (pc \in {"idle", "overrun"})

\* "This always contains capacity available entries" (include/pcl/htable.h:278):
\* a put finds a free entry.
PutHasRoom == pc = "insert" => count_used < capacity
=============================================================================
