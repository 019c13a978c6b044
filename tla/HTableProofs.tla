---------------------------- MODULE HTableProofs ----------------------------
(***************************************************************************)
(* The invariants of the hash table hold for every set of keys, every hash *)
(* function, every table size and every load factor the assumptions of     *)
(* HTable admit.  The table implements the ordered map of OrderedMap, and  *)
(* the loop of HTableIter over it misses and repeats nothing.              *)
(***************************************************************************)
EXTENDS HTableIter, Induction, FiniteSetTheorems, SequenceTheorems, TLAPS

-----------------------------------------------------------------------------
(* Arithmetic of table sizes and buckets. *)

\* A hash code always selects a slot of entry_lookup.
LEMMA BucketInSlots ==
  ASSUME NEW code \in Nat, NEW cap \in Nat \ {0}
  PROVE  Bucket(code, cap) \in Slots(cap)
  BY DEF Bucket, Slots

\* Multiplying by a natural number is monotonic.
LEMMA TimesMonotonic ==
  ASSUME NEW a \in Nat, NEW b \in Nat, a <= b, NEW n \in Nat
  PROVE  n * a <= n * b
  BY SMT

\* A table that is empty enough to shrink fits in half its size.
LEMMA MinLoadHalf ==
  ASSUME NEW cap \in Nat
  PROVE  /\ MinLoad(cap) \in Nat
         /\ 2 * MinLoad(cap) <= cap
<1> DEFINE q == MinLoad(cap)
<1>1. MinLoadNum \in Nat /\ MinLoadDen \in Nat \ {0} /\ 2 * MinLoadNum <= MinLoadDen
  BY LoadAssumption
<1>2. q \in Nat /\ MinLoadDen * q <= MinLoadNum * cap
  <2>1. MinLoadNum * cap \in Nat
    BY <1>1
  <2>2. \A x \in Nat, d \in Nat \ {0} : (x \div d) \in Nat /\ d * (x \div d) <= x
    BY SMT
  <2> QED
    BY <1>1, <2>1, <2>2 DEF MinLoad
<1>3. MinLoadDen * (2 * q) <= MinLoadDen * cap
  <2>1. cap * (2 * MinLoadNum) <= cap * MinLoadDen
    BY <1>1, TimesMonotonic
  <2> QED
    BY <1>1, <1>2, <2>1
<1>4. CASE cap < 2 * q
  <2>1. MinLoadDen * (cap + 1) <= MinLoadDen * (2 * q)
    BY <1>1, <1>2, <1>4, TimesMonotonic
  <2>2. MinLoadDen * (cap + 1) = MinLoadDen * cap + MinLoadDen
    BY <1>1
  <2> QED
    BY <1>1, <1>2, <1>3, <2>1, <2>2
<1> QED
  BY <1>2, <1>4

-----------------------------------------------------------------------------
(* Storing an entry. *)

\* Linking a key behind the head of its chain, as pcl_htable_put and
\* ipcl_htable_rehash do, keeps every chain exact.
LEMMA LinkKeepsChains ==
  ASSUME NEW cap \in Nat \ {0}, NEW ents, NEW look, NEW used \in Nat, used < cap,
         NEW k \in Key, NEW code \in Nat,
         ArraysType(ents, look, cap), Chains(ents, look, used, cap)
  PROVE  LET ents2 == LinkedEntries(ents, look, cap, used, k, code)
             look2 == LinkedLookup(look, cap, used, code)
         IN  /\ ArraysType(ents2, look2, cap)
             /\ ents2[used].key = k /\ ents2[used].code = code
             /\ \A i \in Slots(used) : /\ ents2[i].key = ents[i].key
                                       /\ ents2[i].code = ents[i].code
             /\ Live(ents2, used + 1) = Live(ents, used) \cup {used}
             /\ Chains(ents2, look2, used + 1, cap)
<1> DEFINE b0 == Bucket(code, cap)
           head == look[b0]
           ents2 == LinkedEntries(ents, look, cap, used, k, code)
           look2 == LinkedLookup(look, cap, used, code)
<1>1. b0 \in Slots(cap)
  BY BucketInSlots
<1>2. ents \in [Slots(cap) -> EntryType] /\ look \in [Slots(cap) -> Int]
  BY DEF ArraysType
<1>3. used \in Slots(cap)
  BY DEF Slots
<1>4. head # -1 => head \in Live(ents, used) /\ Bucket(ents[head].code, cap) = b0
  BY <1>1 DEF Chains, ChainOK, InBucket
<1>5. Live(ents, used) \subseteq Slots(cap) /\ used \notin Live(ents, used)
  BY <1>3 DEF Live, Slots
<1>6. k # NULL
  BY KeyAssumption
<1>7. \A i \in Slots(cap) : ents[i].key \in Key \cup {NULL} /\ ents[i].code \in Nat /\ ents[i].next \in Int
  BY <1>2 DEF EntryType
<1>8. CASE head = -1
  <2>1. ents2 = [ents EXCEPT ![used] = [key |-> k, code |-> code, next |-> -1]]
    BY <1>8 DEF LinkedEntries
  <2>2. look2 = [look EXCEPT ![b0] = used]
    BY <1>8 DEF LinkedLookup
  <2>3. ArraysType(ents2, look2, cap)
    <3>1. [key |-> k, code |-> code, next |-> -1] \in EntryType
      BY DEF EntryType
    <3>2. ents2 \in [Slots(cap) -> EntryType]
      BY <1>2, <2>1, <3>1
    <3>3. look2 \in [Slots(cap) -> Int]
      BY <1>1, <1>2, <2>2, used \in Int, Zenon DEF Slots
    <3> QED
      BY <3>2, <3>3 DEF ArraysType
  <2>4. /\ ents2[used].key = k /\ ents2[used].code = code /\ ents2[used].next = -1
        /\ \A i \in Slots(used) : ents2[i] = ents[i]
    BY <1>2, <1>3, <2>1 DEF Slots
  <2>5. Live(ents2, used + 1) = Live(ents, used) \cup {used}
    BY <1>6, <2>4 DEF Live, Slots
  <2>6. ASSUME NEW b \in Slots(cap)
        PROVE  ChainOK(ents2, look2, used + 1, cap, b)
    <3>0. ChainOK(ents, look, used, cap, b)
      BY DEF Chains
    <3>1. CASE b = b0
      <4>1. InBucket(ents, used, cap, b0) = {}
        BY <1>8, <3>0, <3>1 DEF ChainOK
      <4>2. InBucket(ents2, used + 1, cap, b0) = {used}
        BY <4>1, <2>4, <2>5 DEF InBucket, Live, Slots
      <4>3. look2[b0] = used
        BY <1>1, <1>2, <2>2
      <4> QED
        BY <3>1, <4>2, <4>3, <2>4 DEF ChainOK, IsMaxOf
    <3>2. CASE b # b0
      <4>1. InBucket(ents2, used + 1, cap, b) = InBucket(ents, used, cap, b)
        BY <2>4, <2>5, <3>2 DEF InBucket, Live, Slots
      <4>2. look2[b] = look[b]
        BY <1>2, <2>2, <3>2
      <4>3. \A i \in InBucket(ents, used, cap, b) : ents2[i] = ents[i]
        BY <2>4 DEF InBucket, Live, Slots
      <4> QED
        BY <3>0, <4>1, <4>2, <4>3 DEF ChainOK
    <3> QED
      BY <3>1, <3>2
  <2> QED
    BY <2>3, <2>4, <2>5, <2>6 DEF Chains
<1>9. CASE head # -1
  <2>0. head \in Slots(used) /\ head # used
    BY <1>4, <1>9 DEF Live, Slots
  <2>1. ents2 = [ents EXCEPT ![used] = [key |-> k, code |-> code, next |-> ents[head].next],
                             ![head] = [key |-> ents[head].key, code |-> ents[head].code,
                                        next |-> used]]
    BY <1>9 DEF LinkedEntries
  <2>2. look2 = look
    BY <1>9 DEF LinkedLookup
  <2>3. ArraysType(ents2, look2, cap)
    <3>1. [key |-> k, code |-> code, next |-> ents[head].next] \in EntryType
      BY <1>4, <1>5, <1>7, <1>9 DEF EntryType
    <3>2. [key |-> ents[head].key, code |-> ents[head].code, next |-> used] \in EntryType
      BY <1>4, <1>5, <1>7, <1>9 DEF EntryType
    <3>3. ents2 \in [Slots(cap) -> EntryType]
      BY <1>2, <2>1, <3>1, <3>2
    <3> QED
      BY <1>2, <2>2, <3>3 DEF ArraysType
  <2>4. /\ ents2[used] = [key |-> k, code |-> code, next |-> ents[head].next]
        /\ ents2[head] = [key |-> ents[head].key, code |-> ents[head].code, next |-> used]
        /\ \A i \in Slots(used) : i # head => ents2[i] = ents[i]
    BY <1>2, <1>3, <2>0, <2>1 DEF Slots
  <2>5. \A i \in Slots(used) : ents2[i].key = ents[i].key /\ ents2[i].code = ents[i].code
    BY <2>4
  <2>6. Live(ents2, used + 1) = Live(ents, used) \cup {used}
    BY <1>6, <2>4, <2>5 DEF Live, Slots
  <2>7. ASSUME NEW b \in Slots(cap)
        PROVE  ChainOK(ents2, look2, used + 1, cap, b)
    <3>0. ChainOK(ents, look, used, cap, b)
      BY DEF Chains
    <3>1. CASE b = b0
      <4> DEFINE members == InBucket(ents, used, cap, b0)
                 rest == members \ {head}
                 members2 == InBucket(ents2, used + 1, cap, b0)
                 rest2 == members2 \ {head}
      <4>1. head \in members /\ IsMaxOf(ents[head].next, rest)
        BY <1>9, <3>0, <3>1 DEF ChainOK
      <4>2. members2 = members \cup {used}
        BY <2>4, <2>5, <2>6 DEF InBucket, Live, Slots
      <4>3. rest2 = rest \cup {used}
        BY <4>2, <2>0
      <4>4. \A i \in rest : i \in Int /\ i < used /\ i # head /\ ents2[i] = ents[i]
        BY <2>4 DEF InBucket, Live, Slots
      <4>5. IsMaxOf(ents2[head].next, rest2)
        BY <2>4, <4>3, <4>4 DEF IsMaxOf
      <4>6. {j \in rest2 : j < used} = rest
        BY <4>3, <4>4
      <4>7. IsMaxOf(ents2[used].next, {j \in rest2 : j < used})
        BY <2>4, <4>1, <4>6
      <4>8. \A i \in rest : {j \in rest2 : j < i} = {j \in rest : j < i}
        BY <4>3, <4>4
      <4>9. \A i \in rest : IsMaxOf(ents2[i].next, {j \in rest2 : j < i})
        BY <3>0, <3>1, <4>4, <4>8 DEF ChainOK
      <4> QED
        BY <1>9, <3>1, <2>2, <4>1, <4>2, <4>3, <4>5, <4>7, <4>9 DEF ChainOK
    <3>2. CASE b # b0
      <4>1. InBucket(ents2, used + 1, cap, b) = InBucket(ents, used, cap, b)
        BY <2>4, <2>5, <2>6, <3>2 DEF InBucket, Live, Slots
      <4>3. \A i \in InBucket(ents, used, cap, b) : ents2[i] = ents[i]
        BY <2>4, <1>4, <1>9, <3>2 DEF InBucket, Live, Slots
      <4> QED
        BY <3>0, <4>1, <2>2, <4>3 DEF ChainOK
    <3> QED
      BY <3>1, <3>2
  <2> QED
    BY <2>3, <2>4, <2>5, <2>6, <2>7 DEF Chains
<1> QED
  BY <1>8, <1>9

-----------------------------------------------------------------------------
(* Removing an entry. *)

\* Unlinking an entry found by a chain walk, as pcl_htable_remove does, keeps
\* every chain exact.
LEMMA UnlinkKeepsChains ==
  ASSUME NEW cap \in Nat \ {0}, NEW ents, NEW look, NEW used \in Nat, used <= cap,
         NEW b0 \in Slots(cap), NEW c \in InBucket(ents, used, cap, b0), NEW p \in Int,
         ArraysType(ents, look, cap), Chains(ents, look, used, cap),
         \/ p = -1 /\ c = look[b0]
         \/ p \in InBucket(ents, used, cap, b0) /\ ents[p].next = c /\ c # look[b0]
  PROVE  LET ents2 == UnlinkedEntries(ents, p, c)
             look2 == UnlinkedLookup(look, b0, p, ents[c].next)
         IN  /\ ArraysType(ents2, look2, cap)
             /\ \A i \in Slots(used) : i # c => /\ ents2[i].key = ents[i].key
                                                /\ ents2[i].code = ents[i].code
             /\ Live(ents2, used) = Live(ents, used) \ {c}
             /\ Chains(ents2, look2, used, cap)
<1> DEFINE head == look[b0]
           members == InBucket(ents, used, cap, b0)
           rest == members \ {head}
           ents2 == UnlinkedEntries(ents, p, c)
           look2 == UnlinkedLookup(look, b0, p, ents[c].next)
           members2 == InBucket(ents2, used, cap, b0)
           rest2 == members2 \ {look2[b0]}
<1>1. ents \in [Slots(cap) -> EntryType] /\ look \in [Slots(cap) -> Int]
  BY DEF ArraysType
<1>2. \A b \in Slots(cap) : InBucket(ents, used, cap, b) \subseteq Slots(used)
  BY DEF InBucket, Live, Slots
<1>3. Slots(used) \subseteq Slots(cap)
  BY DEF Slots
<1>4. /\ c \in Slots(used) /\ c \in Slots(cap) /\ c \in Int /\ c # -1
      /\ Bucket(ents[c].code, cap) = b0
      /\ (p # -1 => p \in Slots(used) /\ p \in Slots(cap))
  BY <1>2, <1>3 DEF InBucket, Slots
<1>5. /\ head # -1 /\ head \in members /\ IsMaxOf(ents[head].next, rest)
      /\ \A i \in rest : IsMaxOf(ents[i].next, {j \in rest : j < i})
  BY DEF Chains, ChainOK
<1>6. \A i \in Slots(cap) : ents[i].key \in Key \cup {NULL} /\ ents[i].code \in Nat /\ ents[i].next \in Int
  BY <1>1 DEF EntryType
<1>7. Blank \in EntryType
  BY DEF Blank, EntryType
<1>8. \A i \in members : i \in Int /\ i # -1
  BY <1>2 DEF Slots
<1>9. CASE p = -1
  <2>0. c = head
    BY <1>9, <1>8
  <2>1. ents2 = [ents EXCEPT ![c] = Blank]
    BY <1>9 DEF UnlinkedEntries
  <2>2. look2 = [look EXCEPT ![b0] = ents[c].next]
    BY <1>9 DEF UnlinkedLookup
  <2>3. ArraysType(ents2, look2, cap)
    <3>1. ents2 \in [Slots(cap) -> EntryType]
      BY <1>1, <1>7, <2>1, Zenon
    <3>2. ents[c].next \in Int
      BY <1>4, <1>6
    <3>3. look2 \in [Slots(cap) -> Int]
      BY <1>1, <2>2, <3>2, Zenon
    <3> QED
      BY <3>1, <3>3 DEF ArraysType
  <2>4. \A i \in Slots(used) : i # c => ents2[i] = ents[i]
    BY <1>1, <1>3, <2>1
  <2>5. Live(ents2, used) = Live(ents, used) \ {c}
    BY <1>1, <1>4, <2>1, <2>4 DEF Live, Slots, Blank
  <2>6. ASSUME NEW b \in Slots(cap)
        PROVE  ChainOK(ents2, look2, used, cap, b)
    <3>0. ChainOK(ents, look, used, cap, b)
      BY DEF Chains
    <3>1. CASE b = b0
      <4>1. members2 = rest
        BY <2>0, <2>4, <2>5, <1>2 DEF InBucket, Live, Slots
      <4>2. look2[b0] = ents[head].next
        BY <1>1, <2>0, <2>2
      <4>3. CASE ents[head].next = -1
        <5>1. rest = {}
          BY <1>5, <1>8, <4>3 DEF IsMaxOf
        <5> QED
          BY <3>1, <4>1, <4>2, <4>3, <5>1 DEF ChainOK
      <4>4. CASE ents[head].next # -1
        <5> DEFINE next == ents[head].next
        <5>1. next \in rest /\ \A j \in rest : j <= next
          BY <1>5, <4>4 DEF IsMaxOf
        <5>2. \A i \in rest : i \in Int /\ ents2[i] = ents[i]
          BY <1>2, <1>8, <2>0, <2>4
        <5>3. {j \in rest : j < next} = rest \ {next}
          BY <5>1, <5>2
        <5>4. \A i \in rest \ {next} : {j \in rest \ {next} : j < i} = {j \in rest : j < i}
          BY <5>1, <5>2
        <5>5. IsMaxOf(ents2[next].next, rest \ {next})
          BY <1>5, <5>1, <5>2, <5>3
        <5>6. \A i \in rest \ {next} : IsMaxOf(ents2[i].next, {j \in rest \ {next} : j < i})
          BY <1>5, <5>2, <5>4
        <5> QED
          BY <3>1, <4>1, <4>2, <4>4, <5>1, <5>5, <5>6 DEF ChainOK
      <4> QED
        BY <4>3, <4>4
    <3>2. CASE b # b0
      <4>1. InBucket(ents2, used, cap, b) = InBucket(ents, used, cap, b)
        BY <1>4, <2>4, <2>5, <3>2 DEF InBucket, Live, Slots
      <4>2. look2[b] = look[b]
        BY <1>1, <2>2, <3>2
      <4>3. \A i \in InBucket(ents, used, cap, b) : ents2[i] = ents[i]
        BY <1>2, <1>4, <2>4, <3>2 DEF InBucket
      <4> QED
        BY <3>0, <4>1, <4>2, <4>3 DEF ChainOK
    <3> QED
      BY <3>1, <3>2
  <2> QED
    BY <2>3, <2>4, <2>5, <2>6 DEF Chains
<1>10. CASE p # -1
  <2>0. p \in members /\ ents[p].next = c /\ c # head /\ c \in rest /\ p # c
    <3>1. p \in members /\ ents[p].next = c /\ c # head
      BY <1>10
    <3>2. p \in rest => c \in {j \in rest : j < p}
      BY <1>4, <1>5, <3>1 DEF IsMaxOf
    <3>3. p \in Int
      BY <1>8, <3>1
    <3> QED
      BY <3>1, <3>2, <3>3
  <2> DEFINE relinked == [key |-> ents[p].key, code |-> ents[p].code, next |-> ents[c].next]
  <2>1. ents2 = [[ents EXCEPT ![c] = Blank] EXCEPT ![p] = relinked]
    BY <1>10 DEF UnlinkedEntries
  <2>2. look2 = look
    BY <1>10 DEF UnlinkedLookup
  <2>3. ArraysType(ents2, look2, cap)
    <3>1. relinked \in EntryType
      BY <1>4, <1>6, <1>10 DEF EntryType
    <3>2. [ents EXCEPT ![c] = Blank] \in [Slots(cap) -> EntryType]
      BY <1>1, <1>7, Zenon
    <3>3. ents2 \in [Slots(cap) -> EntryType]
      BY <2>1, <3>1, <3>2, Zenon
    <3> QED
      BY <1>1, <2>2, <3>3 DEF ArraysType
  <2>4. /\ \A i \in Slots(used) : i # c /\ i # p => ents2[i] = ents[i]
        /\ ents2[p] = relinked /\ ents2[c] = Blank
    BY <1>1, <1>3, <1>4, <1>10, <2>0, <2>1
  <2>5. /\ \A i \in Slots(used) : i # c => ents2[i].key = ents[i].key /\ ents2[i].code = ents[i].code
        /\ ents2[c].key = NULL
    BY <2>4 DEF Blank
  <2>6. Live(ents2, used) = Live(ents, used) \ {c}
    BY <1>4, <2>5 DEF Live, Slots
  <2>7. ASSUME NEW b \in Slots(cap)
        PROVE  ChainOK(ents2, look2, used, cap, b)
    <3>0. ChainOK(ents, look, used, cap, b)
      BY DEF Chains
    <3>1. CASE b = b0
      <4>1. members2 = members \ {c}
        BY <1>2, <2>5, <2>6 DEF InBucket, Live, Slots
      <4>2. rest2 = rest \ {c}
        BY <2>2, <4>1
      <4>3. IsMaxOf(ents[c].next, {j \in rest : j < c})
        BY <1>5, <2>0
      <4>4. \A i \in members : i \in Int /\ (i # c /\ i # p => ents2[i] = ents[i])
        BY <1>2, <1>8, <2>4
      <4>5. CASE p = head
        <5>1. \A j \in rest : j <= c
          BY <1>5, <1>4, <2>0, <4>5 DEF IsMaxOf
        <5>2. {j \in rest : j < c} = rest2
          <6>1. \A j \in rest : j \in Int /\ (j < c <=> j # c)
            BY <4>4, <5>1, <1>4
          <6> HIDE DEF rest, rest2
          <6> QED
            BY <4>2, <6>1
        <5>3. IsMaxOf(ents2[head].next, rest2)
          BY <2>4, <4>3, <4>5, <5>2
        <5>4. \A i \in rest2 : {j \in rest2 : j < i} = {j \in rest : j < i} /\ ents2[i] = ents[i]
          BY <4>2, <4>4, <4>5, <5>1, <1>4
        <5>5. \A i \in rest2 : IsMaxOf(ents2[i].next, {j \in rest2 : j < i})
          BY <1>5, <4>2, <5>4
        <5> QED
          BY <1>5, <2>0, <2>2, <3>1, <4>1, <4>2, <5>3, <5>5 DEF ChainOK
      <4>6. CASE p # head
        <5>1. p \in rest /\ c < p /\ \A j \in rest : j < p => j <= c
          BY <1>5, <1>4, <2>0, <4>6 DEF IsMaxOf
        <5>2. {j \in rest : j < c} = {j \in rest2 : j < p}
          <6>1. c \in Int /\ p \in Int /\ c < p
            BY <1>4, <5>1
          <6>2. \A j \in rest : j \in Int /\ (j < p => j <= c)
            BY <1>8, <5>1
          <6>3. \A j \in rest : j < c <=> j # c /\ j < p
            <7> HIDE DEF rest
            <7> QED
              BY <6>1, <6>2
          <6> HIDE DEF rest, rest2
          <6> QED
            BY <4>2, <6>3
        <5>3. IsMaxOf(ents2[p].next, {j \in rest2 : j < p})
          BY <2>4, <4>3, <5>2
        <5>4. ASSUME NEW i \in rest2, i # p
              PROVE  IsMaxOf(ents2[i].next, {j \in rest2 : j < i})
          <6>1. i \in rest /\ i \in Int /\ ents2[i] = ents[i] /\ i # c
            BY <4>2, <4>4, <5>4
          <6>2. IsMaxOf(ents[i].next, {j \in rest : j < i})
            BY <1>5, <6>1
          <6>3. CASE i < p
            <7>1. {j \in rest2 : j < i} = {j \in rest : j < i}
              BY <4>2, <4>4, <5>1, <6>1, <6>3, <1>4
            <7> QED
              BY <6>1, <6>2, <7>1
          <6>4. CASE p < i
            <7>1. p \in {j \in rest : j < i}
              BY <5>1, <6>4
            <7>2. ents[i].next \in {j \in rest : j < i} /\ p <= ents[i].next
              BY <6>2, <7>1 DEF IsMaxOf
            <7>3. ents[i].next # c
              BY <4>4, <5>1, <7>2, <1>4
            <7> QED
              BY <4>2, <6>1, <6>2, <7>2, <7>3 DEF IsMaxOf
          <6> QED
            BY <4>4, <5>1, <5>4, <6>1, <6>3, <6>4
        <5>5. IsMaxOf(ents2[head].next, rest2)
          <6>1. ents2[head] = ents[head]
            BY <1>5, <2>0, <4>4, <4>6
          <6>2. ents[head].next \in rest /\ p <= ents[head].next /\ \A j \in rest : j <= ents[head].next
            BY <1>5, <5>1 DEF IsMaxOf
          <6>3. ents[head].next # c
            BY <4>4, <5>1, <6>2, <1>4
          <6> QED
            BY <4>2, <6>1, <6>2, <6>3 DEF IsMaxOf
        <5> QED
          <6>1. look2[b] = head /\ head # -1 /\ head \in members2
            BY <1>5, <2>0, <2>2, <3>1, <4>1
          <6>2. \A i \in rest2 : IsMaxOf(ents2[i].next, {j \in rest2 : j < i})
            BY <5>3, <5>4
          <6> HIDE DEF members2, head
          <6> QED
            BY <3>1, <5>5, <6>1, <6>2 DEF ChainOK, members2
      <4> QED
        BY <4>5, <4>6
    <3>2. CASE b # b0
      <4>1. InBucket(ents2, used, cap, b) = InBucket(ents, used, cap, b)
        BY <1>4, <2>5, <2>6, <3>2 DEF InBucket, Live, Slots
      <4>3. \A i \in InBucket(ents, used, cap, b) : ents2[i] = ents[i]
        BY <1>2, <1>4, <2>0, <2>4, <3>2 DEF InBucket
      <4> QED
        BY <3>0, <4>1, <2>2, <4>3 DEF ChainOK
    <3> QED
      BY <3>1, <3>2
  <2> QED
    BY <2>3, <2>5, <2>6, <2>7 DEF Chains
<1> QED
  BY <1>9, <1>10

-----------------------------------------------------------------------------
(* Counting entries. *)

\* The live entries are finitely many, at most 'used'.
LEMMA LiveFinite ==
  ASSUME NEW ents, NEW used \in Nat
  PROVE  /\ IsFiniteSet(Live(ents, used))
         /\ Cardinality(Live(ents, used)) \in Nat
         /\ Cardinality(Live(ents, used)) <= used
         /\ \A i \in Live(ents, used) : i \in Nat /\ i < used
<1>1. IsFiniteSet(0..(used - 1)) /\ Cardinality(0..(used - 1)) = used
  BY FS_Interval
<1>2. Live(ents, used) \in SUBSET (0..(used - 1))
  BY DEF Live
<1>3. IsFiniteSet(Live(ents, used)) /\ Cardinality(Live(ents, used)) <= used
  BY <1>1, <1>2, FS_Subset
<1> QED
  BY <1>2, <1>3, FS_CardinalityType

\* A table with blank arrays is well formed and holds nothing.
LEMMA BlankTable ==
  ASSUME NEW cap \in Nat \ {0}, NEW ents
  PROVE  /\ ArraysType(BlankEntries(cap), BlankLookup(cap), cap)
         /\ Live(ents, 0) = {}
         /\ Chains(ents, BlankLookup(cap), 0, cap)
<1>1. Live(ents, 0) = {}
  BY DEF Live
<1>2. BlankEntries(cap) \in [Slots(cap) -> EntryType] /\ BlankLookup(cap) \in [Slots(cap) -> Int]
  BY DEF BlankEntries, BlankLookup, EntryType, Blank
<1>3. ASSUME NEW b \in Slots(cap)
      PROVE  ChainOK(ents, BlankLookup(cap), 0, cap, b)
  <2>1. InBucket(ents, 0, cap, b) = {}
    BY <1>1 DEF InBucket
  <2>2. BlankLookup(cap)[b] = -1
    BY DEF BlankLookup
  <2> QED
    BY <2>1, <2>2 DEF ChainOK
<1> QED
  BY <1>1, <1>2, <1>3 DEF Chains, ArraysType

-----------------------------------------------------------------------------
(* What the invariant says at the end of a chain walk. *)

\* The conjuncts that speak of the table alone.
TableInv == ChainsOK /\ KeysOK /\ OwnedOnce /\ CountOK

\* A walk is on an entry of its bucket or past its end, and only in the second
\* case is the key absent.
LEMMA WalkFacts ==
  ASSUME TypeOK, ChainsOK, KeysOK, WalkOK, pc = "walk"
  PROVE  LET b == Bucket(hash[arg], capacity)
             members == InBucket(entries, count_used, capacity, b)
         IN  /\ b \in Slots(capacity) /\ hash[arg] \in Nat
             /\ Wanted \subseteq members
             /\ cur = -1 => Wanted = {}
             /\ cur # -1 => cur \in members
             /\ cur # -1 /\ ~Matches(cur) => cur \notin Wanted
             /\ cur # -1 /\ Matches(cur) => cur \in Wanted
<1> DEFINE b == Bucket(hash[arg], capacity)
           members == InBucket(entries, count_used, capacity, b)
           head == entry_lookup[b]
<1>1. arg \in Key /\ capacity \in Nat \ {0} /\ count_used \in Nat
      /\ entries \in [Slots(capacity) -> EntryType] /\ Slots(count_used) \subseteq Slots(capacity)
  BY DEF TypeOK, ArraysType, Slots
<1>2. hash[arg] \in Nat
  BY <1>1, KeyAssumption
<1>3. b \in Slots(capacity)
  BY <1>1, <1>2, BucketInSlots
<1>4. \A i \in Live(entries, count_used) : i \in Slots(count_used) /\ entries[i].key \in Key
  BY <1>1 DEF Live, Slots, EntryType
<1>5. \A i \in Wanted : i \in Live(entries, count_used) /\ entries[i].code = hash[arg]
  BY <1>1, <1>4, KeyAssumption DEF Wanted, KeysOK
<1>6. Wanted \subseteq members
  BY <1>5 DEF InBucket
<1>7. ChainOK(entries, entry_lookup, count_used, capacity, b)
  BY <1>3 DEF ChainsOK, Chains
<1>8. cur = -1 => Wanted = {}
  <2>1. CASE cur = head
    BY <1>6, <1>7, <2>1 DEF ChainOK
  <2>2. CASE cur # head
    <3>1. \A i \in Wanted : i <= cur
      BY <2>2 DEF WalkOK
    <3>2. \A i \in Wanted : i \in Nat
      BY <1>1, <1>5, LiveFinite
    <3> QED
      BY <3>1, <3>2
  <2> QED
    BY <2>1, <2>2
<1>9. cur # -1 => cur \in members
  BY <1>7 DEF WalkOK, ChainOK
<1>10. cur # -1 => cur \in Live(entries, count_used)
  BY <1>9 DEF InBucket
<1>11. cur # -1 => (Matches(cur) <=> cur \in Wanted)
  BY <1>5, <1>10 DEF Matches, Wanted
<1> QED
  BY <1>2, <1>3, <1>6, <1>8, <1>9, <1>11

\* Steps that leave the table alone keep what is said of it.
LEMMA TableUnchanged ==
  ASSUME TableInv, UNCHANGED <<table, held>>
  PROVE  TableInv'
BY DEF TableInv, table, ChainsOK, Chains, ChainOK, InBucket, KeysOK, OwnedOnce, CountOK,
       Live, KeysOf, IsMaxOf

-----------------------------------------------------------------------------
(* The invariant is inductive: the initial state, and one lemma per action
   that changes the arrays. *)

LEMMA InitIInv == Init => IInv
<1> SUFFICES ASSUME Init PROVE IInv
  OBVIOUS
<1>1. capacity \in Nat \ {0} /\ capacity >= MINTBLSIZE
  BY SizeAssumption DEF Init
<1>2. /\ ArraysType(entries, entry_lookup, capacity)
      /\ Live(entries, count_used) = {}
      /\ Chains(entries, entry_lookup, count_used, capacity)
  BY <1>1, BlankTable DEF Init
<1>3. TypeOK
  BY <1>1, <1>2 DEF Init, TypeOK, PCs, NoRehash, Rehashing
<1>4. CountOK
  BY <1>2, FS_EmptySet DEF CountOK, Init
<1>5. ChainsOK /\ KeysOK /\ OwnedOnce
  BY <1>2 DEF ChainsOK, KeysOK, OwnedOnce, KeysOf, Init
<1> QED
  BY <1>3, <1>4, <1>5 DEF IInv, Init, WalkOK, AddingOK, PutOwnership, RehashOK

\* Facts of TypeOK in the form the steps below use.
LEMMA TypeFacts ==
  ASSUME TypeOK
  PROVE  /\ capacity \in Nat \ {0} /\ count \in Nat /\ count_used \in Nat
         /\ count_used <= capacity
         /\ entries \in [Slots(capacity) -> EntryType]
         /\ entry_lookup \in [Slots(capacity) -> Int]
         /\ Slots(count_used) \subseteq Slots(capacity)
         /\ \A i \in Live(entries, count_used) :
              /\ i \in Slots(count_used) /\ i \in Slots(capacity)
              /\ entries[i].key \in Key /\ entries[i].code \in Nat
<1>1. /\ capacity \in Nat \ {0} /\ count \in Nat /\ count_used \in Nat
      /\ count_used <= capacity
      /\ entries \in [Slots(capacity) -> EntryType]
      /\ entry_lookup \in [Slots(capacity) -> Int]
  BY DEF TypeOK, ArraysType
<1>2. Slots(count_used) \subseteq Slots(capacity)
  BY <1>1 DEF Slots
<1>3. \A i \in Live(entries, count_used) : i \in Slots(count_used) /\ entries[i].key # NULL
  BY DEF Live, Slots
<1>4. \A i \in Slots(capacity) : entries[i].key \in Key \cup {NULL} /\ entries[i].code \in Nat
  BY <1>1 DEF EntryType
<1> QED
  BY <1>1, <1>2, <1>3, <1>4

LEMMA BeginStep ==
  ASSUME IInv, NEW c \in {"put", "get", "remove"}, NEW k \in Key, NEW u \in BOOLEAN,
         Begin(c, k, u)
  PROVE  IInv'
<1>1. TableInv'
  BY TableUnchanged DEF IInv, Begin, TableInv
<1>2. TypeOK'
  <2>1. cur' \in Int
    <3>1. hash[k] \in Nat
      BY KeyAssumption
    <3>2. Bucket(hash[k], capacity) \in Slots(capacity)
      BY <3>1, TypeFacts, BucketInSlots DEF IInv
    <3> QED
      BY <3>2, TypeFacts DEF IInv, Begin
  <2> QED
    BY <2>1 DEF IInv, TypeOK, Begin, table, PCs, ArraysType
<1>3. WalkOK'
  BY DEF WalkOK, Begin, table
<1>4. AddingOK' /\ RehashOK'
  BY DEF AddingOK, RehashOK, Begin
<1>5. PutOwnership'
  BY DEF PutOwnership, Begin
<1> QED
  BY <1>1, <1>2, <1>3, <1>4, <1>5 DEF IInv, TableInv

LEMMA WalkOnStep ==
  ASSUME IInv, WalkOn
  PROVE  IInv'
<1> DEFINE b == Bucket(hash[arg], capacity)
           members == InBucket(entries, count_used, capacity, b)
           head == entry_lookup[b]
           rest == members \ {head}
<1>1. TableInv'
  BY TableUnchanged DEF IInv, WalkOn, TableInv
<1>2. /\ b \in Slots(capacity) /\ cur \in members /\ cur \notin Wanted
      /\ Wanted \subseteq members
  BY WalkFacts DEF IInv, WalkOn
<1>3. ChainOK(entries, entry_lookup, count_used, capacity, b)
  BY <1>2 DEF IInv, ChainsOK, Chains
<1>4. \A i \in members : i \in Nat /\ i \in Slots(capacity)
  BY TypeFacts, LiveFinite DEF IInv, InBucket
<1>5. entries[cur].next \in Int
  BY <1>2, <1>4, TypeFacts DEF IInv, EntryType
<1>6. TypeOK'
  BY <1>2, <1>4, <1>5 DEF IInv, TypeOK, WalkOn, table, args, PCs, ArraysType
<1>7. WalkOK'
  <2> DEFINE next == entries[cur].next
  <2>1. /\ head # -1 /\ head \in members /\ IsMaxOf(entries[head].next, rest)
        /\ \A i \in rest : IsMaxOf(entries[i].next, {j \in rest : j < i})
    BY <1>2, <1>3 DEF ChainOK
  <2>2. next # head /\ (next = -1 \/ next \in members) /\ \A i \in Wanted : i <= next /\ i # head
    <3>1. CASE cur = head
      <4>1. Wanted \subseteq rest
        BY <1>2, <3>1
      <4> QED
        BY <2>1, <3>1, <4>1 DEF IsMaxOf
    <3>2. CASE cur # head
      <4>1. \A i \in Wanted : i <= cur /\ i # head
        BY <3>2, WalkFacts, <1>2 DEF IInv, WalkOK, WalkOn
      <4>2. \A i \in Wanted : i \in rest /\ i < cur
        BY <1>2, <1>4, <4>1
      <4>3. IsMaxOf(next, {j \in rest : j < cur})
        BY <1>2, <2>1, <3>2
      <4> QED
        BY <2>1, <4>1, <4>2, <4>3 DEF IsMaxOf
    <3> QED
      BY <3>1, <3>2
  <2>3. UNCHANGED <<capacity, count_used, entries, entry_lookup, arg>> /\ prev' = cur /\ cur' = next
    BY DEF WalkOn, table, args
  <2> QED
    BY <1>2, <2>2, <2>3 DEF WalkOK, InBucket, Live, Wanted
<1>8. AddingOK' /\ RehashOK'
  BY DEF WalkOn, AddingOK, RehashOK
<1>9. PutOwnership'
  BY DEF IInv, WalkOn, PutOwnership, args
<1> QED
  BY <1>1, <1>6, <1>7, <1>8, <1>9 DEF IInv, TableInv

\* A call that returns and leaves the table alone.
LEMMA ReturnStep ==
  ASSUME IInv, NEW out, Return(out), UNCHANGED <<table, held>>
  PROVE  IInv'
<1>1. TableInv'
  BY TableUnchanged DEF IInv, TableInv
<1>2. TypeOK'
  BY DEF IInv, TypeOK, Return, NoCall, table, PCs, ArraysType, NoRehash, Rehashing
<1> QED
  BY <1>1, <1>2 DEF IInv, TableInv, Return, WalkOK, AddingOK, PutOwnership, RehashOK

LEMMA PutReplaceStep ==
  ASSUME IInv, PutReplace
  PROVE  IInv'
<1> DEFINE live == Live(entries, count_used)
           entry == [key |-> arg, code |-> entries[cur].code, next |-> entries[cur].next]
<1>1. /\ cur \in Wanted /\ cur \in live /\ cur \in Slots(capacity) /\ arg \in Key
      /\ text[entries[cur].key] = text[arg]
  BY WalkFacts, TypeFacts DEF IInv, PutReplace, Found, Wanted, TypeOK
<1>2. /\ entries' = [entries EXCEPT ![cur].key = arg]
      /\ UNCHANGED <<capacity, count, count_used, entry_lookup, max_loadfac>>
      /\ held' = (held \ {entries[cur].key}) \cup {arg}
      /\ pc' = "idle" /\ cur' = -1 /\ prev' = -1 /\ rehash' = NoRehash /\ call' = "none"
  BY DEF PutReplace, Return, NoCall
<1>3. /\ entries \in [Slots(capacity) -> EntryType]
      /\ entries[cur] \in EntryType
  BY <1>1, TypeFacts DEF IInv
<1>4. /\ entries'[cur].key = arg /\ entries'[cur].code = entries[cur].code
      /\ entries'[cur].next = entries[cur].next
      /\ \A i \in Slots(capacity) : i # cur => entries'[i] = entries[i]
  BY <1>1, <1>2, <1>3 DEF EntryType
<1>5. entries' \in [Slots(capacity) -> EntryType]
  BY <1>1, <1>2, <1>3 DEF EntryType
<1>6. Live(entries', count_used) = live
  <2>1. arg # NULL
    BY <1>1, KeyAssumption
  <2>2. \A i \in 0..(count_used - 1) : i \in Slots(capacity)
    BY TypeFacts DEF IInv, Slots
  <2>3. cur \in 0..(count_used - 1) /\ entries[cur].key # NULL
    BY <1>1 DEF Live
  <2> QED
    BY <1>4, <2>1, <2>2, <2>3 DEF Live
<1>7. \A i \in live : i \in Slots(capacity)
  BY TypeFacts DEF IInv
<1>8. \A i \in Slots(capacity) : entries'[i].code = entries[i].code /\ entries'[i].next = entries[i].next
  BY <1>4
<1>9. ChainsOK'
  <2> SUFFICES ASSUME NEW b \in Slots(capacity)
               PROVE  ChainOK(entries', entry_lookup, count_used, capacity, b)
    BY <1>2 DEF ChainsOK, Chains
  <2>1. InBucket(entries', count_used, capacity, b) = InBucket(entries, count_used, capacity, b)
    BY <1>6, <1>7, <1>8 DEF InBucket
  <2>2. \A i \in InBucket(entries, count_used, capacity, b) : entries'[i].next = entries[i].next
    BY <1>7, <1>8 DEF InBucket
  <2>3. ChainOK(entries, entry_lookup, count_used, capacity, b)
    BY DEF IInv, ChainsOK, Chains
  <2> QED
    BY <2>1, <2>2, <2>3 DEF ChainOK
<1>10. KeysOK'
  <2>1. entries[cur].code = hash[arg]
    <3>1. entries[cur].code = hash[entries[cur].key] /\ entries[cur].key \in Key
      BY <1>1, TypeFacts DEF IInv, KeysOK
    <3> QED
      BY <1>1, <3>1, KeyAssumption
  <2>2. \A i \in live : text[entries'[i].key] = text[entries[i].key]
    BY <1>1, <1>4, <1>7
  <2>3. \A i \in live : entries'[i].code = hash[entries'[i].key]
    BY <1>4, <1>7, <2>1 DEF IInv, KeysOK
  <2> QED
    BY <1>2, <1>6, <2>2, <2>3 DEF IInv, KeysOK
<1>11. OwnedOnce'
  <2>1. \A i \in live : i # cur => entries'[i].key = entries[i].key /\ entries[i].key # entries[cur].key
    BY <1>1, <1>4, <1>7 DEF IInv, KeysOK
  <2>2. held = KeysOf(entries, live)
    BY DEF IInv, OwnedOnce
  <2> QED
    BY <1>1, <1>2, <1>4, <1>6, <2>1, <2>2 DEF OwnedOnce, KeysOf
<1>12. CountOK'
  BY <1>2, <1>6 DEF IInv, CountOK
<1>13. held \subseteq Key /\ max_loadfac \in MaxLoadFactors
  BY DEF IInv, TypeOK
<1>14. TypeOK'
  BY <1>1, <1>2, <1>5, <1>13 DEF IInv, TypeOK, ArraysType, PCs, NoRehash, Rehashing
<1> QED
  BY <1>2, <1>9, <1>10, <1>11, <1>12, <1>14 DEF IInv, WalkOK, AddingOK, PutOwnership, RehashOK

LEMMA PutGrowStep ==
  ASSUME IInv, PutGrow
  PROVE  IInv'
<1>1. TableInv'
  BY TableUnchanged DEF IInv, PutGrow, TableInv
<1>2. /\ pc' = "rehash" /\ cur' = -1 /\ prev' = -1
      /\ rehash' = [i |-> 0, n |-> 0, cap |-> Doubled,
                    ents |-> BlankEntries(Doubled), look |-> BlankLookup(Doubled)]
      /\ UNCHANGED <<capacity, count, count_used, entries, entry_lookup, max_loadfac, held,
                     call, arg>>
      /\ pc = "walk" /\ cur = -1 /\ call = "put"
  BY DEF PutGrow, StartRehash, Rehashing, Missed, table, args
<1>3. Doubled \in Nat \ {0} /\ Doubled > capacity /\ Doubled >= MINTBLSIZE
  BY SizeAssumption DEF IInv, TypeOK, Doubled
<1>4. /\ ArraysType(BlankEntries(Doubled), BlankLookup(Doubled), Doubled)
      /\ Live(BlankEntries(Doubled), 0) = {}
      /\ Chains(BlankEntries(Doubled), BlankLookup(Doubled), 0, Doubled)
  BY <1>3, BlankTable
<1>5. TypeOK'
  BY <1>2, <1>3, <1>4 DEF IInv, TypeOK, PCs, ArraysType
<1>6. Wanted = {} /\ Wanted' = Wanted
  BY <1>2, WalkFacts DEF IInv, Wanted, Live
<1>7. AddingOK'
  BY <1>2, <1>6 DEF AddingOK
<1>8. PutOwnership'
  BY <1>2 DEF IInv, PutOwnership
<1>9. RehashOK'
  <2>1. Copied' = {}
    BY <1>2, LiveFinite, TypeFacts DEF IInv, Copied, Live
  <2>2. Cardinality({}) = 0
    BY FS_EmptySet
  <2>3. count < Doubled
    BY <1>3, LiveFinite, TypeFacts DEF IInv, CountOK
  <2>4. Slots(0) = {}
    BY DEF Slots
  <2>5. count \in Nat /\ count_used \in Nat
    BY TypeFacts DEF IInv
  <2> QED
    BY <1>2, <1>3, <1>4, <2>1, <2>2, <2>3, <2>4, <2>5 DEF RehashOK, KeysOf
<1> QED
  BY <1>1, <1>2, <1>5, <1>7, <1>8, <1>9 DEF IInv, TableInv, WalkOK

LEMMA PutFitsStep ==
  ASSUME IInv, PutFits
  PROVE  IInv'
<1>1. TableInv'
  BY TableUnchanged DEF IInv, PutFits, TableInv
<1>2. TypeOK'
  BY DEF IInv, TypeOK, PutFits, Missed, table, args, PCs, ArraysType
<1>3. Wanted = {} /\ Wanted' = Wanted
  BY WalkFacts DEF IInv, PutFits, Missed, Wanted, Live, table, args
<1>4. AddingOK'
  BY <1>3 DEF AddingOK, PutFits, args
<1>5. PutOwnership'
  BY DEF IInv, PutOwnership, PutFits, Missed, args
<1> QED
  BY <1>1, <1>2, <1>4, <1>5 DEF IInv, TableInv, PutFits, WalkOK, RehashOK

LEMMA PutInsertStep ==
  ASSUME IInv, PutInsert
  PROVE  IInv'
<1> DEFINE live == Live(entries, count_used)
<1>1. /\ capacity \in Nat \ {0} /\ count_used \in Nat /\ count_used < capacity /\ count \in Nat
      /\ arg \in Key /\ hash[arg] \in Nat /\ call = "put"
      /\ count_used \notin live
  BY TypeFacts, LiveFinite, KeyAssumption DEF IInv, PutInsert, TypeOK, AddingOK
<1>2. /\ UNCHANGED <<capacity, max_loadfac>> /\ call' = "none"
      /\ count' = count + 1 /\ count_used' = count_used + 1 /\ held' = held \cup {arg}
      /\ pc' = "idle" /\ cur' = -1 /\ prev' = -1 /\ rehash' = NoRehash
  BY DEF PutInsert, Return, NoCall
<1>3. /\ ArraysType(entries', entry_lookup', capacity)
      /\ entries'[count_used].key = arg /\ entries'[count_used].code = hash[arg]
      /\ \A i \in Slots(count_used) : /\ entries'[i].key = entries[i].key
                                      /\ entries'[i].code = entries[i].code
      /\ Live(entries', count_used + 1) = live \cup {count_used}
      /\ Chains(entries', entry_lookup', count_used + 1, capacity)
  BY <1>1, LinkKeepsChains DEF IInv, TypeOK, ChainsOK, PutInsert
<1>4. \A i \in live : /\ entries'[i].key = entries[i].key /\ entries'[i].code = entries[i].code
                      /\ entries[i].key \in Key
  BY <1>3, TypeFacts DEF IInv
<1>5. TypeOK'
  <2>1. held' \subseteq Key
    BY <1>1, <1>2 DEF IInv, TypeOK
  <2> QED
    BY <1>1, <1>2, <1>3, <2>1 DEF IInv, TypeOK, PCs, NoRehash, Rehashing
<1>6. ChainsOK'
  BY <1>2, <1>3 DEF ChainsOK
<1>7. KeysOK'
  <2>1. Wanted = {}
    BY <1>1 DEF IInv, AddingOK, PutInsert
  <2>2. \A i \in live : text[entries[i].key] # text[arg]
    BY <2>1 DEF Wanted
  <2> QED
    BY <1>2, <1>3, <1>4, <2>2 DEF IInv, KeysOK
<1>8. OwnedOnce'
  BY <1>2, <1>3, <1>4 DEF IInv, OwnedOnce, KeysOf
<1>9. CountOK'
  BY <1>1, <1>2, <1>3, LiveFinite, FS_AddElement DEF IInv, CountOK
<1> QED
  BY <1>2, <1>5, <1>6, <1>7, <1>8, <1>9 DEF IInv, WalkOK, AddingOK, PutOwnership, RehashOK

LEMMA RemoveHitStep ==
  ASSUME IInv, RemoveHit
  PROVE  IInv'
<1> DEFINE live == Live(entries, count_used)
           b == Bucket(hash[arg], capacity)
           members == InBucket(entries, count_used, capacity, b)
<1>1. /\ cur \in Wanted /\ cur \in members /\ cur \in live /\ b \in Slots(capacity)
      /\ cur # -1 /\ pc = "walk" /\ call = "remove"
  BY WalkFacts DEF IInv, RemoveHit, Found, InBucket
<1>2. /\ capacity \in Nat \ {0} /\ count_used \in Nat /\ count_used <= capacity /\ count \in Nat
      /\ prev \in Int /\ arg \in Key /\ capacity >= MINTBLSIZE
  BY <1>1, TypeFacts DEF IInv, TypeOK
<1>3. \/ prev = -1 /\ cur = entry_lookup[b]
      \/ prev \in members /\ entries[prev].next = cur /\ cur # entry_lookup[b]
  BY <1>1 DEF IInv, WalkOK
<1>4. /\ ArraysType(entries', entry_lookup', capacity)
      /\ \A i \in Slots(count_used) : i # cur => /\ entries'[i].key = entries[i].key
                                                 /\ entries'[i].code = entries[i].code
      /\ Live(entries', count_used) = live \ {cur}
      /\ Chains(entries', entry_lookup', count_used, capacity)
  BY <1>1, <1>2, <1>3, UnlinkKeepsChains DEF IInv, TypeOK, ChainsOK, RemoveHit
<1>5. /\ UNCHANGED <<capacity, count_used, max_loadfac>>
      /\ \/ call' = call /\ arg' = arg
         \/ call' = "none" /\ pc' = "idle"
      /\ count' = count - 1 /\ held' = held \ {entries[cur].key}
      /\ cur' = -1 /\ prev' = -1
  BY DEF RemoveHit, StartRehash, Return, NoCall, args
<1>6. \A i \in live : i \in Slots(count_used)
  BY TypeFacts DEF IInv
<1>7. \A i \in live \ {cur} : entries'[i].key = entries[i].key /\ entries'[i].code = entries[i].code
  BY <1>4, <1>6
<1>8. ChainsOK'
  BY <1>4, <1>5 DEF ChainsOK
<1>9. KeysOK'
  BY <1>4, <1>5, <1>7 DEF IInv, KeysOK
<1>10. OwnedOnce'
  <2>1. \A i \in live \ {cur} : entries[i].key # entries[cur].key
    BY <1>1 DEF IInv, KeysOK
  <2>2. held = KeysOf(entries, live)
    BY DEF IInv, OwnedOnce
  <2> QED
    BY <1>4, <1>5, <1>7, <2>1, <2>2 DEF OwnedOnce, KeysOf
<1>11. CountOK' /\ count - 1 \in Nat
  <2>1. count = Cardinality(live) /\ IsFiniteSet(live)
    BY <1>2, LiveFinite DEF IInv, CountOK
  <2>2. Cardinality(live \ {cur}) = count - 1 /\ Cardinality(live \ {cur}) \in Nat
    BY <1>1, <2>1, FS_RemoveElement, FS_CardinalityType
  <2> QED
    BY <1>4, <1>5, <2>2 DEF CountOK
<1>12. held' \subseteq Key
  BY <1>5 DEF IInv, TypeOK
<1>13. CASE capacity # MINTBLSIZE /\ count - 1 < MinLoad(capacity)
  <2>1. /\ pc' = "rehash"
        /\ rehash' = [i |-> 0, n |-> 0, cap |-> Halved,
                      ents |-> BlankEntries(Halved), look |-> BlankLookup(Halved)]
    BY <1>13 DEF RemoveHit, StartRehash, Rehashing
  <2>2. Halved \in Nat \ {0} /\ Halved >= MINTBLSIZE /\ count - 1 <= Halved
    <3>1. MINTBLSIZE \in Nat \ {0}
      BY SizeAssumption
    <3>2. MinLoad(capacity) \in Nat /\ 2 * MinLoad(capacity) <= capacity
      BY <1>2, MinLoadHalf
    <3>3. (capacity \div 2) \in Nat /\ MinLoad(capacity) <= capacity \div 2
      BY <1>2, <3>2
    <3> QED
      BY <1>2, <1>11, <1>13, <3>1, <3>2, <3>3 DEF Halved
  <2>3. /\ ArraysType(BlankEntries(Halved), BlankLookup(Halved), Halved)
        /\ Live(BlankEntries(Halved), 0) = {}
        /\ Chains(BlankEntries(Halved), BlankLookup(Halved), 0, Halved)
    BY <2>2, BlankTable
  <2>4. TypeOK'
    BY <1>1, <1>2, <1>4, <1>5, <1>11, <1>12, <2>1, <2>2, <2>3 DEF IInv, TypeOK, PCs
  <2>5. RehashOK'
    <3>1. Copied' = {}
      BY <1>2, <1>5, <2>1, LiveFinite DEF Copied
    <3>2. Slots(0) = {} /\ Cardinality({}) = 0
      BY FS_EmptySet DEF Slots
    <3>3. /\ call' = "remove" /\ count_used' = count_used /\ count' = count - 1
          /\ rehash'.i = 0 /\ rehash'.n = 0 /\ rehash'.cap = Halved
          /\ rehash'.ents = BlankEntries(Halved) /\ rehash'.look = BlankLookup(Halved)
      BY <1>1, <1>5, <2>1
    <3>4. KeysOf(rehash'.ents, {}) = {} /\ KeysOf(entries', {}) = {}
      BY DEF KeysOf
    <3> QED
      BY <1>2, <2>2, <2>3, <3>1, <3>2, <3>3, <3>4 DEF RehashOK
  <2> QED
    BY <1>1, <1>5, <1>8, <1>9, <1>10, <1>11, <2>1, <2>4, <2>5
    DEF IInv, WalkOK, AddingOK, PutOwnership
<1>14. CASE ~(capacity # MINTBLSIZE /\ count - 1 < MinLoad(capacity))
  <2>1. pc' = "idle" /\ rehash' = NoRehash
    BY <1>14 DEF RemoveHit, Return
  <2>2. TypeOK'
    BY <1>1, <1>2, <1>4, <1>5, <1>11, <1>12, <2>1 DEF IInv, TypeOK, PCs, NoRehash, Rehashing
  <2> QED
    BY <1>8, <1>9, <1>10, <1>11, <2>1, <2>2
    DEF IInv, WalkOK, AddingOK, PutOwnership, RehashOK
<1> QED
  BY <1>13, <1>14

LEMMA RehashSkipStep ==
  ASSUME IInv, RehashSkip
  PROVE  IInv'
<1>1. TableInv'
  BY TableUnchanged DEF IInv, RehashSkip, TableInv
<1>2. /\ rehash'.i = rehash.i + 1 /\ rehash'.n = rehash.n /\ rehash'.cap = rehash.cap
      /\ rehash'.ents = rehash.ents /\ rehash'.look = rehash.look
      /\ UNCHANGED <<capacity, count, count_used, entries, entry_lookup, max_loadfac, held, pc,
                     call, arg, cur, prev>>
      /\ pc = "rehash" /\ rehash.i < count_used /\ entries[rehash.i].key = NULL
  BY DEF RehashSkip, Rehashing, table, args, walk
<1>3. /\ rehash.i \in Nat /\ count_used \in Nat
      /\ \A j \in Live(entries, count_used) : j \in Nat
  BY TypeFacts, LiveFinite DEF IInv, TypeOK
<1>4. Copied' = Copied
  <2>1. rehash.i \notin Live(entries, count_used)
    BY <1>2 DEF Live
  <2>2. \A j \in Live(entries, count_used) : j < rehash.i + 1 <=> j < rehash.i
    BY <1>3, <2>1
  <2> QED
    BY <1>2, <2>2 DEF Copied, Live
<1>5. TypeOK'
  BY <1>2, <1>3 DEF IInv, TypeOK, PCs, ArraysType
<1>6. RehashOK'
  <2>1. rehash'.i <= count_used
    BY <1>2, <1>3
  <2> QED
    BY <1>2, <1>4, <2>1 DEF IInv, RehashOK
<1>7. WalkOK' /\ AddingOK' /\ PutOwnership'
  BY <1>2 DEF IInv, WalkOK, AddingOK, PutOwnership, Wanted, Live
<1> QED
  BY <1>1, <1>5, <1>6, <1>7 DEF IInv, TableInv

LEMMA RehashCopyStep ==
  ASSUME IInv, RehashCopy
  PROVE  IInv'
<1> DEFINE i == rehash.i
           e == entries[i]
           n == rehash.n
           live == Live(entries, count_used)
<1>1. TableInv'
  BY TableUnchanged DEF IInv, RehashCopy, TableInv
<1>2. /\ rehash'.i = i + 1 /\ rehash'.n = n + 1 /\ rehash'.cap = rehash.cap
      /\ rehash'.ents = LinkedEntries(rehash.ents, rehash.look, rehash.cap, n, e.key, e.code)
      /\ rehash'.look = LinkedLookup(rehash.look, rehash.cap, n, e.code)
      /\ UNCHANGED <<capacity, count, count_used, entries, entry_lookup, max_loadfac, held, pc,
                     call, arg, cur, prev>>
      /\ pc = "rehash" /\ i < count_used /\ e.key # NULL
  BY DEF RehashCopy, Rehashing, table, args, walk
<1>3. /\ i \in Nat /\ n \in Nat /\ rehash.cap \in Nat \ {0} /\ rehash.cap >= MINTBLSIZE
      /\ count_used \in Nat /\ count \in Nat
      /\ ArraysType(rehash.ents, rehash.look, rehash.cap)
      /\ n = Cardinality(Copied) /\ count <= rehash.cap
      /\ Chains(rehash.ents, rehash.look, n, rehash.cap)
      /\ Live(rehash.ents, n) = Slots(n)
      /\ KeysOf(rehash.ents, Slots(n)) = KeysOf(entries, Copied)
  BY <1>2 DEF IInv, TypeOK, RehashOK
<1>4. i \in live /\ i \notin Copied /\ e.key \in Key /\ e.code \in Nat
  <2>1. i \in live
    BY <1>2, <1>3 DEF Live
  <2> QED
    BY <2>1, <1>3, TypeFacts DEF IInv, Copied
<1>5. Copied' = Copied \cup {i}
  <2>1. \A j \in live : j \in Nat
    BY <1>3, LiveFinite
  <2>2. Copied' = {j \in live : j < i + 1}
    BY <1>2 DEF Copied, Live
  <2>3. \A j \in live : j < i + 1 <=> j < i \/ j = i
    BY <1>3, <2>1
  <2> QED
    BY <1>4, <2>2, <2>3 DEF Copied
\* There is still room for the entry, the copied ones being fewer than all.
<1>6. n < rehash.cap /\ Cardinality(Copied') = n + 1
  <2>1. IsFiniteSet(live) /\ Copied \in SUBSET live /\ (Copied \cup {i}) \in SUBSET live
    BY <1>3, <1>4, LiveFinite DEF Copied
  <2>2. IsFiniteSet(Copied)
    BY <2>1, FS_Subset
  <2>3. Cardinality(Copied \cup {i}) = n + 1
    BY <1>3, <1>4, <2>2, FS_AddElement
  <2>4. Cardinality(Copied \cup {i}) <= Cardinality(live) /\ Cardinality(live) = count
    BY <2>1, FS_Subset DEF IInv, CountOK
  <2> QED
    BY <1>3, <1>5, <2>3, <2>4
<1>7. /\ ArraysType(rehash'.ents, rehash'.look, rehash.cap)
      /\ rehash'.ents[n].key = e.key /\ rehash'.ents[n].code = e.code
      /\ \A m \in Slots(n) : /\ rehash'.ents[m].key = rehash.ents[m].key
                             /\ rehash'.ents[m].code = rehash.ents[m].code
      /\ Live(rehash'.ents, n + 1) = Live(rehash.ents, n) \cup {n}
      /\ Chains(rehash'.ents, rehash'.look, n + 1, rehash.cap)
  BY <1>2, <1>3, <1>4, <1>6, LinkKeepsChains
<1>8. TypeOK'
  <2>1. rehash'.i \in Nat /\ rehash'.n \in Nat /\ rehash'.cap \in Nat \ {0}
        /\ rehash'.cap >= MINTBLSIZE /\ ArraysType(rehash'.ents, rehash'.look, rehash'.cap)
    BY SMTT(20), <1>2, <1>3, <1>7
  <2> QED
    BY <1>2, <2>1 DEF IInv, TypeOK
<1>9. Slots(n + 1) = Slots(n) \cup {n} /\ n \notin Slots(n)
  BY <1>3 DEF Slots
<1>10. RehashOK'
  <2>1. KeysOf(rehash'.ents, Slots(n + 1)) = KeysOf(entries, Copied \cup {i})
    <3>1. KeysOf(rehash'.ents, Slots(n + 1)) = KeysOf(rehash.ents, Slots(n)) \cup {e.key}
      BY <1>7, <1>9 DEF KeysOf
    <3>2. KeysOf(entries, Copied \cup {i}) = KeysOf(entries, Copied) \cup {e.key}
      BY DEF KeysOf
    <3> QED
      BY <1>3, <3>1, <3>2
  <2>2. e.key \notin KeysOf(rehash.ents, Slots(n))
    <3>1. \A j \in Copied : j \in live /\ j # i
      BY <1>4 DEF Copied
    <3>2. e.key \notin KeysOf(entries, Copied)
      BY <1>4, <3>1 DEF IInv, KeysOK, KeysOf
    <3> QED
      BY <1>3, <3>2
  <2>3. e.code = hash[e.key]
    BY <1>4 DEF IInv, KeysOK
  <2>4. \A m \in Slots(n) :
          /\ rehash.ents[m].code = hash[rehash.ents[m].key]
          /\ \A l \in Slots(n) : rehash.ents[m].key = rehash.ents[l].key => m = l
          /\ rehash.ents[m].key # e.key
    BY <1>2, <2>2 DEF IInv, RehashOK, KeysOf
  <2>5. \A m \in Slots(n + 1) :
          /\ rehash'.ents[m].code = hash[rehash'.ents[m].key]
          /\ \A l \in Slots(n + 1) : rehash'.ents[m].key = rehash'.ents[l].key => m = l
    BY <1>7, <1>9, <2>3, <2>4
  <2>6. KeysOf(entries', Copied') = KeysOf(entries, Copied \cup {i})
    BY <1>2, <1>5
  <2>7. call \in {"put", "remove"} /\ (call = "put" => count < rehash.cap)
    BY <1>2 DEF IInv, RehashOK
  <2>8. Live(rehash'.ents, n + 1) = Slots(n + 1)
    BY <1>3, <1>7, <1>9
  <2> QED
    <3>1. /\ rehash'.i <= count_used /\ rehash'.n = Cardinality(Copied')
          /\ rehash'.n = n + 1 /\ count' = count /\ count_used' = count_used /\ call' = call
      BY <1>2, <1>3, <1>6
    <3>2. Chains(rehash'.ents, rehash'.look, rehash'.n, rehash'.cap)
      BY <1>2, <1>7
    <3>3. KeysOf(rehash'.ents, Slots(rehash'.n)) = KeysOf(entries', Copied')
      BY <1>2, <2>1, <2>6
    <3> QED
      BY <1>2, <1>3, <2>5, <2>7, <2>8, <3>1, <3>2, <3>3 DEF RehashOK
<1>11. WalkOK' /\ AddingOK' /\ PutOwnership'
  BY <1>2 DEF IInv, WalkOK, AddingOK, PutOwnership, Wanted, Live
<1> QED
  BY <1>1, <1>8, <1>10, <1>11 DEF IInv, TableInv

LEMMA RehashDoneStep ==
  ASSUME IInv, RehashDone
  PROVE  IInv'
<1> DEFINE live == Live(entries, count_used)
           n == rehash.n
<1>1. /\ capacity' = rehash.cap /\ entries' = rehash.ents /\ entry_lookup' = rehash.look
      /\ count_used' = count /\ rehash' = NoRehash
      /\ UNCHANGED <<count, held, cur, prev, max_loadfac>>
      /\ pc = "rehash" /\ rehash.i = count_used
      /\ \/ pc' = "insert" /\ call = "put" /\ call' = call /\ arg' = arg
         \/ pc' = "idle" /\ call' = "none"
  BY DEF RehashDone, NoCall, args, walk
<1>2. /\ n \in Nat /\ rehash.cap \in Nat \ {0} /\ rehash.cap >= MINTBLSIZE
      /\ count_used \in Nat /\ count \in Nat
      /\ ArraysType(rehash.ents, rehash.look, rehash.cap)
      /\ n = Cardinality(Copied) /\ count <= rehash.cap
      /\ Chains(rehash.ents, rehash.look, n, rehash.cap)
      /\ Live(rehash.ents, n) = Slots(n)
      /\ KeysOf(rehash.ents, Slots(n)) = KeysOf(entries, Copied)
  BY <1>1 DEF IInv, TypeOK, RehashOK
<1>3. Copied = live
  BY <1>1, <1>2, LiveFinite DEF Copied
<1>4. n = count
  BY <1>2, <1>3 DEF IInv, CountOK
<1>5. Live(entries', count_used') = Slots(n) /\ KeysOf(entries', Slots(n)) = KeysOf(entries, live)
  BY <1>1, <1>2, <1>3, <1>4
<1>6. TypeOK'
  BY <1>1, <1>2 DEF IInv, TypeOK, PCs, NoRehash, Rehashing
<1>7. ChainsOK'
  BY <1>1, <1>2, <1>4 DEF ChainsOK
<1>8. KeysOK'
  <2>1. ASSUME NEW m \in Slots(n), NEW l \in Slots(n),
               text[entries'[m].key] = text[entries'[l].key]
        PROVE  m = l
    <3>1. PICK i \in live : entries[i].key = entries'[m].key
      BY <1>5 DEF KeysOf
    <3>2. PICK j \in live : entries[j].key = entries'[l].key
      BY <1>5 DEF KeysOf
    <3>3. entries'[m].key = entries'[l].key
      BY <2>1, <3>1, <3>2 DEF IInv, KeysOK
    <3> QED
      BY <1>1, <3>3 DEF IInv, RehashOK
  <2>2. \A m \in Slots(n) : entries'[m].code = hash[entries'[m].key]
    BY <1>1 DEF IInv, RehashOK
  <2> QED
    BY <1>5, <2>1, <2>2 DEF KeysOK
<1>9. OwnedOnce'
  BY <1>1, <1>5 DEF IInv, OwnedOnce
<1>10. CountOK'
  <2>1. Cardinality(Slots(n)) = n
    BY <1>2, FS_Interval DEF Slots
  <2> QED
    BY <1>1, <1>4, <1>5, <2>1 DEF CountOK
<1>11. AddingOK'
  <2>1. ASSUME call = "put", arg' = arg
        PROVE  Wanted' = {}
    <3>1. Wanted = {}
      BY <1>1, <2>1 DEF IInv, AddingOK
    <3>2. \A i \in live : text[entries[i].key] # text[arg]
      BY <3>1 DEF Wanted
    <3>3. \A m \in Slots(n) : text[entries'[m].key] # text[arg]
      BY <1>5, <3>2 DEF KeysOf
    <3> QED
      BY <1>5, <2>1, <3>3 DEF Wanted
  <2> QED
    BY <1>1, <2>1 DEF AddingOK
<1>12. PutOwnership'
  BY <1>1 DEF IInv, PutOwnership
<1> QED
  BY <1>1, <1>6, <1>7, <1>8, <1>9, <1>10, <1>11, <1>12 DEF IInv, WalkOK, RehashOK

LEMMA OverrunStep ==
  ASSUME IInv, Overrun
  PROVE  IInv'
<1>1. TableInv'
  BY TableUnchanged DEF IInv, Overrun, TableInv
<1>2. TypeOK'
  BY DEF IInv, TypeOK, Overrun, table, args, walk, PCs, ArraysType
<1> QED
  BY <1>1, <1>2 DEF IInv, TableInv, Overrun, WalkOK, AddingOK, PutOwnership, RehashOK

\* pcl_htable_clear, pcl_htable_free and pcl_htable all leave an empty table.
LEMMA EmptyStep ==
  ASSUME IInv, EndsEmpty, NEW cap \in Nat \ {0}, cap >= MINTBLSIZE, EmptyTable(cap), pc' \in {"idle", "freed"}
  PROVE  IInv'
<1>1. /\ capacity' = cap /\ count' = 0 /\ count_used' = 0
      /\ entries' = BlankEntries(cap) /\ entry_lookup' = BlankLookup(cap)
      /\ max_loadfac' \in MaxLoadFactors
  BY DEF EmptyTable
<1>2. /\ ArraysType(entries', entry_lookup', cap)
      /\ Live(entries', 0) = {}
      /\ Chains(entries', entry_lookup', 0, cap)
  BY <1>1, BlankTable
<1>3. held' = {}
  BY DEF EndsEmpty, IInv, OwnedOnce
<1>4. call' = "none" /\ UNCHANGED <<cur, prev, rehash>>
  BY DEF EndsEmpty, NoCall, walk
<1>5. TypeOK'
  BY <1>1, <1>2, <1>3, <1>4 DEF IInv, TypeOK, PCs
<1>6. ChainsOK' /\ KeysOK' /\ OwnedOnce'
  BY <1>1, <1>2, <1>3 DEF ChainsOK, KeysOK, OwnedOnce, KeysOf
<1>7. CountOK'
  BY <1>1, <1>2, FS_EmptySet DEF CountOK
<1> QED
  BY <1>5, <1>6, <1>7 DEF IInv, WalkOK, AddingOK, PutOwnership, RehashOK

\* Every step of the table keeps the invariant.
LEMMA IInvInductive == IInv /\ [Next]_vars => IInv'
<1> SUFFICES ASSUME IInv, [Next]_vars PROVE IInv'
  OBVIOUS
<1>1. CASE Enter
  BY <1>1, BeginStep DEF Enter
<1>2. CASE WalkOn
  BY <1>2, WalkOnStep
<1>3. CASE GetHit \/ GetMiss \/ PutExists \/ PutFull \/ RemoveMiss
  BY <1>3, ReturnStep DEF GetHit, GetMiss, PutExists, PutFull, RemoveMiss
<1>4. CASE PutReplace
  BY <1>4, PutReplaceStep
<1>5. CASE PutGrow
  BY <1>5, PutGrowStep
<1>6. CASE PutFits
  BY <1>6, PutFitsStep
<1>7. CASE PutInsert
  BY <1>7, PutInsertStep
<1>8. CASE Overrun
  BY <1>8, OverrunStep
<1>9. CASE RemoveHit
  BY <1>9, RemoveHitStep
<1>10. CASE RehashSkip
  BY <1>10, RehashSkipStep
<1>11. CASE RehashCopy
  BY <1>11, RehashCopyStep
<1>12. CASE RehashDone
  BY <1>12, RehashDoneStep
<1>13. MINTBLSIZE \in Nat \ {0} /\ capacity \in Nat \ {0} /\ capacity >= MINTBLSIZE
  BY SizeAssumption DEF IInv, TypeOK
<1>14. CASE \E shrink \in BOOLEAN : Clear(shrink)
  BY <1>13, <1>14, EmptyStep DEF Clear
<1>15. CASE Free
  BY <1>13, <1>15, EmptyStep DEF Free
<1>16. CASE New
  <2>1. PICK n \in Requests : EmptyTable(ChkCapacity(n))
    BY <1>16 DEF New
  <2>2. ChkCapacity(n) \in Nat \ {0} /\ ChkCapacity(n) >= MINTBLSIZE
    BY <1>13, SizeAssumption
  <2> QED
    BY <1>16, <2>1, <2>2, EmptyStep DEF New
<1>17. CASE UNCHANGED vars
  <2>1. TableInv'
    BY <1>17, TableUnchanged DEF vars, IInv, TableInv
  <2>2. UNCHANGED <<capacity, count, count_used, entries, entry_lookup, max_loadfac, held, pc,
                    call, arg, cur, prev, rehash>>
    BY <1>17 DEF vars, table, args, walk
  <2>3. TypeOK' /\ AddingOK' /\ PutOwnership'
    BY <2>2 DEF IInv, TypeOK, ArraysType, AddingOK, PutOwnership, Wanted, Live
  <2>4. WalkOK'
    BY <2>2 DEF IInv, WalkOK, Wanted, InBucket, Live
  <2>5. RehashOK'
    <3>1. Copied' = Copied
      BY <2>2 DEF Copied, Live
    <3> QED
      BY <2>2, <3>1 DEF IInv, RehashOK
  <2> QED
    BY <2>1, <2>3, <2>4, <2>5 DEF IInv, TableInv
<1> QED
  BY <1>1, <1>2, <1>3, <1>4, <1>5, <1>6, <1>7, <1>8, <1>9, <1>10, <1>11, <1>12, <1>14, <1>15,
     <1>16, <1>17 DEF Next, Run

-----------------------------------------------------------------------------
(* The theorems *)

\* The inductive invariant holds in every reachable state of the hash table.
THEOREM HTableInvariant == Spec => []IInv
<1>1. Init => IInv
  BY InitIInv
<1>2. IInv /\ [Next]_vars => IInv'
  BY IInvInductive
<1> QED
  BY <1>1, <1>2, PTL DEF Spec

\* The table is well typed; count_used never passes the capacity.
THEOREM HTableTypes == Spec => []TypeOK
<1>1. IInv => TypeOK
  BY DEF IInv
<1> QED
  BY <1>1, HTableInvariant, PTL

\* Every chain holds exactly the live entries of its bucket, between any two
\* steps of pcl_htable_put, _remove, _lookup, _clear and of a rehash.
THEOREM HTableChains == Spec => []ChainsOK
<1>1. IInv => ChainsOK
  BY DEF IInv
<1> QED
  BY <1>1, HTableInvariant, PTL

\* The table owns exactly the keys of its live entries: none is leaked, none is
\* given to remove_entry while it can still be found.
THEOREM HTableOwnership == Spec => []OwnedOnce
<1>1. IInv => OwnedOnce
  BY DEF IInv
<1> QED
  BY <1>1, HTableInvariant, PTL

\* A rehash stays within the block it allocated, whichever way the table is
\* resized, and copies every live entry once.
THEOREM HTableRehash == Spec => []RehashOK
<1>1. IInv => RehashOK
  BY DEF IInv
<1> QED
  BY <1>1, HTableInvariant, PTL
-----------------------------------------------------------------------------
(* pcl_htable_keys: the result of its loop, by induction on the number of
   entries it has passed. *)

\* The loop of pcl_htable_keys, one entry at a time.
LEMMA KeysUpToNext ==
  ASSUME NEW ents, NEW n \in Nat
  PROVE  /\ KeysUpTo(ents, 0) = <<>>
         /\ KeysUpTo(ents, n + 1) = IF ents[n].key = NULL THEN KeysUpTo(ents, n)
                                    ELSE Append(KeysUpTo(ents, n), ents[n].key)
<1> DEFINE Is(f, m) == f = [i \in 0..m |->
             IF i = 0 THEN <<>>
             ELSE IF ents[i - 1].key = NULL THEN f[i - 1] ELSE Append(f[i - 1], ents[i - 1].key)]
<1>1. \A m \in Nat : \E f : Is(f, m)
  <2> DEFINE S == {m \in Nat : \E f : Is(f, m)}
  <2>1. 0 \in S
    <3>1. Is([i \in 0..0 |-> <<>>], 0)
      OBVIOUS
    <3> QED
      BY <3>1
  <2>2. ASSUME NEW m \in Nat, m \in S
        PROVE  m + 1 \in S
    <3>1. PICK f : Is(f, m)
      BY <2>2
    <3> DEFINE g == [i \in 0..m + 1 |->
                 IF i <= m THEN f[i]
                 ELSE IF ents[m].key = NULL THEN f[m] ELSE Append(f[m], ents[m].key)]
    <3>2. \A i \in 0..m : g[i] = f[i]
      OBVIOUS
    <3>3. \A i \in 0..m + 1 : g[i] =
             IF i = 0 THEN <<>>
             ELSE IF ents[i - 1].key = NULL THEN g[i - 1] ELSE Append(g[i - 1], ents[i - 1].key)
      <4> TAKE i \in 0..m + 1
      <4>1. CASE i <= m
        <5>1. i \in 0..m /\ (i # 0 => i - 1 \in 0..m)
          BY <4>1
        <5>2. f[i] = IF i = 0 THEN <<>>
                     ELSE IF ents[i - 1].key = NULL THEN f[i - 1] ELSE Append(f[i - 1], ents[i - 1].key)
          BY <3>1, <5>1
        <5> QED
          BY <3>2, <5>1, <5>2
      <4>2. CASE i = m + 1
        <5>1. i # 0 /\ i - 1 = m /\ m \in 0..m /\ ~(i <= m)
          BY <4>2
        <5>2. g[m] = f[m]
          BY <3>2, <5>1
        <5> QED
          BY <5>1, <5>2
      <4> QED
        BY <4>1, <4>2
    <3>4. g = [i \in 0..m + 1 |-> g[i]]
      OBVIOUS
    <3> HIDE DEF g
    <3>7. Is(g, m + 1)
      BY <3>3, <3>4
    <3> QED
      BY <3>7
  <2> HIDE DEF S
  <2>3. \A m \in Nat : m \in S
    BY <2>1, <2>2, NatInductionOn
  <2> QED
    BY <2>3 DEF S
<1>2. ASSUME NEW m \in Nat, NEW k \in Nat, m <= k, NEW f, NEW g, Is(f, m), Is(g, k)
      PROVE  \A i \in 0..m : f[i] = g[i]
  <2> DEFINE S == {i \in Nat : i <= m => f[i] = g[i]}
  <2>1. 0 \in S
    <3>1. 0 \in 0..m /\ 0 \in 0..k
      BY <1>2
    <3>2. f[0] = <<>> /\ g[0] = <<>>
      BY <1>2, <3>1
    <3> QED
      BY <3>2
  <2>2. ASSUME NEW i \in Nat, i \in S
        PROVE  i + 1 \in S
    <3> SUFFICES ASSUME i + 1 <= m PROVE f[i + 1] = g[i + 1]
      OBVIOUS
    <3>1. i + 1 \in 0..m /\ i + 1 \in 0..k /\ i + 1 # 0 /\ i + 1 - 1 = i /\ i <= m
      BY <1>2
    <3>2. /\ f[i + 1] = IF ents[i].key = NULL THEN f[i] ELSE Append(f[i], ents[i].key)
          /\ g[i + 1] = IF ents[i].key = NULL THEN g[i] ELSE Append(g[i], ents[i].key)
      <4>1. \A j \in 0..m : j # 0 =>
              f[j] = IF ents[j - 1].key = NULL THEN f[j - 1] ELSE Append(f[j - 1], ents[j - 1].key)
        BY <1>2
      <4>2. \A j \in 0..k : j # 0 =>
              g[j] = IF ents[j - 1].key = NULL THEN g[j - 1] ELSE Append(g[j - 1], ents[j - 1].key)
        BY <1>2
      <4> HIDE DEF Is
      <4> QED
        BY <3>1, <4>1, <4>2
    <3> QED
      BY <2>2, <3>1, <3>2
  <2> HIDE DEF S
  <2>3. \A i \in Nat : i \in S
    BY <2>1, <2>2, NatInductionOn
  <2> QED
    BY <2>3 DEF S
<1>3. ASSUME NEW m \in Nat
      PROVE  \E f : Is(f, m) /\ KeysUpTo(ents, m) = f[m]
  BY <1>1 DEF KeysUpTo
<1>4. PICK f : Is(f, 0) /\ KeysUpTo(ents, 0) = f[0]
  BY <1>3
<1>5. PICK g : Is(g, n) /\ KeysUpTo(ents, n) = g[n]
  BY <1>3
<1>6. PICK h : Is(h, n + 1) /\ KeysUpTo(ents, n + 1) = h[n + 1]
  <2> HIDE DEF Is
  <2>1. n + 1 \in Nat
    OBVIOUS
  <2> QED
    BY <1>3, <2>1
<1>7. g[n] = h[n]
  <2> HIDE DEF Is
  <2> QED
    BY <1>2, <1>5, <1>6
<1>8. n + 1 \in 0..n + 1 /\ n + 1 # 0 /\ n + 1 - 1 = n
  OBVIOUS
<1>9. h[n + 1] = IF ents[n].key = NULL THEN h[n] ELSE Append(h[n], ents[n].key)
  <2>1. \A j \in 0..n + 1 : j # 0 =>
          h[j] = IF ents[j - 1].key = NULL THEN h[j - 1] ELSE Append(h[j - 1], ents[j - 1].key)
    BY <1>6
  <2> HIDE DEF Is
  <2> QED
    BY <1>8, <2>1
<1> QED
  BY <1>4, <1>5, <1>6, <1>7, <1>9

\* It sees nothing but the keys.
LEMMA KeysUpToSame ==
  ASSUME NEW e, NEW f, NEW n \in Nat, \A i \in Slots(n) : e[i].key = f[i].key
  PROVE  KeysUpTo(e, n) = KeysUpTo(f, n)
<1> DEFINE S == {m \in Nat : m <= n => KeysUpTo(e, m) = KeysUpTo(f, m)}
<1>1. 0 \in S
  BY KeysUpToNext
<1>2. ASSUME NEW m \in Nat, m \in S
      PROVE  m + 1 \in S
  <2> SUFFICES ASSUME m + 1 <= n PROVE KeysUpTo(e, m + 1) = KeysUpTo(f, m + 1)
    OBVIOUS
  <2>1. KeysUpTo(e, m) = KeysUpTo(f, m)
    BY <1>2
  <2>2. e[m].key = f[m].key
    BY DEF Slots
  <2> QED
    BY <2>1, <2>2, KeysUpToNext
<1> HIDE DEF S
<1>3. \A m \in Nat : m \in S
  BY <1>1, <1>2, NatInductionOn
<1> QED
  BY <1>3 DEF S

KeyArray(ents, n) == \A i \in Slots(n) : ents[i].key \in Key \cup {NULL}

\* Its result holds the keys of the live entries and no others.
LEMMA KeysUpToKeys ==
  ASSUME NEW ents, NEW n \in Nat, KeyArray(ents, n)
  PROVE  /\ KeysUpTo(ents, n) \in Seq(Key)
         /\ {KeysUpTo(ents, n)[i] : i \in DOMAIN KeysUpTo(ents, n)} = KeysOf(ents, Live(ents, n))
<1> DEFINE K(m) == KeysUpTo(ents, m)
           S == {m \in Nat : m <= n =>
                   K(m) \in Seq(Key) /\ {K(m)[i] : i \in DOMAIN K(m)} = KeysOf(ents, Live(ents, m))}
<1>1. 0 \in S
  <2>1. K(0) = <<>>
    BY KeysUpToNext
  <2>2. Live(ents, 0) = {} /\ KeysOf(ents, {}) = {}
    BY DEF Live, KeysOf
  <2>3. <<>> \in Seq(Key) /\ {<<>>[i] : i \in DOMAIN <<>>} = {}
    OBVIOUS
  <2> HIDE DEF K
  <2> QED
    BY <2>1, <2>2, <2>3
<1>2. ASSUME NEW m \in Nat, m \in S
      PROVE  m + 1 \in S
  <2> SUFFICES ASSUME m + 1 <= n
               PROVE  /\ K(m + 1) \in Seq(Key)
                      /\ {K(m + 1)[i] : i \in DOMAIN K(m + 1)} = KeysOf(ents, Live(ents, m + 1))
    OBVIOUS
  <2>1. K(m) \in Seq(Key) /\ {K(m)[i] : i \in DOMAIN K(m)} = KeysOf(ents, Live(ents, m))
    BY <1>2
  <2>2. ents[m].key \in Key \cup {NULL}
    BY DEF KeyArray, Slots
  <2>3. K(m + 1) = IF ents[m].key = NULL THEN K(m) ELSE Append(K(m), ents[m].key)
    BY KeysUpToNext
  <2>4. Live(ents, m + 1) = Live(ents, m) \cup IF ents[m].key = NULL THEN {} ELSE {m}
    BY DEF Live
  <2> HIDE DEF K
  <2>5. CASE ents[m].key = NULL
    BY <2>1, <2>3, <2>4, <2>5
  <2>6. CASE ents[m].key # NULL
    <3> DEFINE s == K(m)  k == ents[m].key
    <3>1. K(m + 1) = Append(s, k) /\ s \in Seq(Key) /\ k \in Key
      BY <2>1, <2>2, <2>3, <2>6
    <3>2. KeysOf(ents, Live(ents, m + 1)) = KeysOf(ents, Live(ents, m)) \cup {k}
      BY <2>4, <2>6 DEF KeysOf
    <3>3. {Append(s, k)[i] : i \in DOMAIN Append(s, k)} = {s[i] : i \in DOMAIN s} \cup {k}
      <4> HIDE DEF s, k
      <4>1. /\ DOMAIN Append(s, k) = DOMAIN s \cup {Len(s) + 1}
            /\ \A i \in DOMAIN s : Append(s, k)[i] = s[i]
            /\ Append(s, k)[Len(s) + 1] = k
        BY <3>1
      <4> QED
        BY <4>1
    <3> QED
      BY SMTT(20), <2>1, <3>1, <3>2, <3>3
  <2> QED
    BY <2>5, <2>6
<1> HIDE DEF S
<1>3. \A m \in Nat : m \in S
  BY <1>1, <1>2, NatInductionOn
<1> QED
  BY <1>3 DEF S

\* A key that takes the place of the one with its text takes it in the result.
LEMMA KeysUpToReplaced ==
  ASSUME NEW e, NEW f, NEW n \in Nat, NEW k \in Key, KeyArray(e, n),
         \A i \in Slots(n) :
           f[i].key = IF e[i].key # NULL /\ text[e[i].key] = text[k] THEN k ELSE e[i].key
  PROVE  KeysUpTo(f, n) = [i \in DOMAIN KeysUpTo(e, n) |->
           IF text[KeysUpTo(e, n)[i]] = text[k] THEN k ELSE KeysUpTo(e, n)[i]]
<1> DEFINE K(m) == KeysUpTo(e, m)
           Put(m) == [i \in DOMAIN K(m) |-> IF text[K(m)[i]] = text[k] THEN k ELSE K(m)[i]]
           S == {m \in Nat : m <= n => KeysUpTo(f, m) = Put(m)}
<1>1. 0 \in S
  <2>1. K(0) = <<>> /\ KeysUpTo(f, 0) = <<>>
    BY KeysUpToNext
  <2>2. [i \in DOMAIN <<>> |-> IF text[<<>>[i]] = text[k] THEN k ELSE <<>>[i]] = <<>>
    OBVIOUS
  <2> QED
    BY <2>1, <2>2
<1>2. ASSUME NEW m \in Nat, m \in S
      PROVE  m + 1 \in S
  <2> SUFFICES ASSUME m + 1 <= n PROVE KeysUpTo(f, m + 1) = Put(m + 1)
    OBVIOUS
  <2>1. KeysUpTo(f, m) = Put(m)
    BY <1>2
  <2>2. m \in Slots(n) /\ e[m].key \in Key \cup {NULL} /\ k # NULL
    BY KeyAssumption DEF KeyArray, Slots
  <2>3. K(m) \in Seq(Key)
    <3>1. KeyArray(e, m)
      BY DEF KeyArray, Slots
    <3> QED
      BY <3>1, KeysUpToKeys
  <2>4. K(m + 1) = IF e[m].key = NULL THEN K(m) ELSE Append(K(m), e[m].key)
    BY KeysUpToNext
  <2>5. KeysUpTo(f, m + 1) = IF f[m].key = NULL THEN KeysUpTo(f, m)
                             ELSE Append(KeysUpTo(f, m), f[m].key)
    BY KeysUpToNext
  <2>6. CASE e[m].key = NULL
    BY <2>1, <2>2, <2>4, <2>5, <2>6
  <2>7. CASE e[m].key # NULL
    <3> DEFINE s == K(m)  x == e[m].key  y == IF text[x] = text[k] THEN k ELSE x
               t == Put(m)
    <3>1. K(m + 1) = Append(s, x) /\ s \in Seq(Key) /\ x \in Key
      BY <2>2, <2>3, <2>4, <2>7
    <3>2. f[m].key = y /\ y # NULL
      BY <2>2, <2>7
    <3>3. t \in Seq(Key) /\ Len(t) = Len(s)
      BY <3>1
    <3>4. KeysUpTo(f, m + 1) = Append(t, y)
      BY <2>1, <2>5, <3>2
    <3>5. Append(t, y) = [i \in DOMAIN Append(s, x) |->
                            IF text[Append(s, x)[i]] = text[k] THEN k ELSE Append(s, x)[i]]
      <4>1. \A i \in DOMAIN s : t[i] = IF text[s[i]] = text[k] THEN k ELSE s[i]
        OBVIOUS
      <4>2. y = IF text[x] = text[k] THEN k ELSE x
        OBVIOUS
      <4>3. y \in Key
        BY <3>1
      <4> HIDE DEF t, y, s, x
      <4> QED
        BY <3>1, <3>3, <4>1, <4>2, <4>3
    <3> QED
      BY <3>1, <3>4, <3>5
  <2> QED
    BY <2>6, <2>7
<1> HIDE DEF S
<1>3. \A m \in Nat : m \in S
  BY <1>1, <1>2, NatInductionOn
<1> QED
  BY <1>3 DEF S

RemovedAt(s, p) == SubSeq(s, 1, p - 1) \o SubSeq(s, p + 1, Len(s))

LEMMA AppendRemoved ==
  ASSUME NEW T, NEW s \in Seq(T), NEW x \in T, NEW p \in 1..Len(s)
  PROVE  /\ p \in DOMAIN Append(s, x) /\ Append(s, x)[p] = s[p]
         /\ Append(RemovedAt(s, p), x) = RemovedAt(Append(s, x), p)
<1>1. p \in DOMAIN Append(s, x) /\ Append(s, x)[p] = s[p]
  OBVIOUS
<1>2. /\ SubSeq(Append(s, x), 1, p - 1) = SubSeq(s, 1, p - 1)
      /\ SubSeq(Append(s, x), p + 1, Len(Append(s, x))) = Append(SubSeq(s, p + 1, Len(s)), x)
  <2> DEFINE t == Append(s, x)
             u == SubSeq(t, 1, p - 1)
             v == SubSeq(t, p + 1, Len(t))
             w == Append(SubSeq(s, p + 1, Len(s)), x)
  <2>1. /\ t \in Seq(T) /\ Len(t) = Len(s) + 1 /\ t[Len(s) + 1] = x
        /\ \A i \in 1..Len(s) : t[i] = s[i]
    OBVIOUS
  <2> HIDE DEF t
  <2>2. /\ u \in Seq(T) /\ Len(u) = p - 1 /\ \A i \in 1..p - 1 : u[i] = s[i]
        /\ v \in Seq(T) /\ Len(v) = Len(s) + 1 - p
        /\ \A i \in 1..Len(s) + 1 - p : v[i] = t[p + i]
    BY <2>1
  <2>3. /\ w \in Seq(T) /\ Len(w) = Len(s) + 1 - p /\ w[Len(s) + 1 - p] = x
        /\ \A i \in 1..Len(s) - p : w[i] = s[p + i]
    BY SMTT(20)
  <2>4. SubSeq(s, 1, p - 1) \in Seq(T) /\ Len(SubSeq(s, 1, p - 1)) = p - 1
        /\ \A i \in 1..p - 1 : SubSeq(s, 1, p - 1)[i] = s[i]
    OBVIOUS
  <2> HIDE DEF u, v, w
  <2>5. u = SubSeq(s, 1, p - 1)
    BY <2>2, <2>4, SeqEqual
  <2>6. \A i \in 1..Len(s) + 1 - p : v[i] = w[i]
    <3> TAKE i \in 1..Len(s) + 1 - p
    <3>1. CASE i = Len(s) + 1 - p
      <4>1. p + i = Len(s) + 1
        BY <3>1
      <4> QED
        BY <2>1, <2>2, <2>3, <3>1, <4>1
    <3>2. CASE i # Len(s) + 1 - p
      <4>1. i \in 1..Len(s) - p /\ p + i \in 1..Len(s)
        BY <3>2
      <4> QED
        BY <2>1, <2>2, <2>3, <4>1
    <3> QED
      BY <3>1, <3>2
  <2>7. v = w
    BY <2>2, <2>3, <2>6, SeqEqual
  <2> QED
    BY <2>5, <2>7 DEF t, u, v, w
<1> DEFINE a == SubSeq(s, 1, p - 1)  b == SubSeq(s, p + 1, Len(s))
<1>3. a \in Seq(T) /\ b \in Seq(T)
  OBVIOUS
<1> HIDE DEF a, b
<1>4. Append(a \o b, x) = a \o Append(b, x)
  <2>1. a \o b \in Seq(T) /\ <<x>> \in Seq(T)
    BY <1>3
  <2>2. Append(a \o b, x) = (a \o b) \o <<x>>
    BY <2>1, AppendIsConcat
  <2>3. Append(b, x) = b \o <<x>>
    BY <1>3, AppendIsConcat
  <2>4. (a \o b) \o <<x>> = a \o (b \o <<x>>)
    BY SMTT(20), <1>3, <2>1, ConcatAssociative
  <2> QED
    BY <2>2, <2>3, <2>4
<1> QED
  BY <1>1, <1>2, <1>4 DEF RemovedAt, a, b

\* A key that is removed leaves the result, and the others close up.
LEMMA KeysUpToRemoved ==
  ASSUME NEW e, NEW f, NEW n \in Nat, NEW c \in Live(e, n), KeyArray(e, n),
         f[c].key = NULL, \A i \in Slots(n) : i # c => f[i].key = e[i].key
  PROVE  \E p \in DOMAIN KeysUpTo(e, n) :
           /\ KeysUpTo(e, n)[p] = e[c].key
           /\ KeysUpTo(f, n) = RemovedAt(KeysUpTo(e, n), p)
<1> DEFINE K(m) == KeysUpTo(e, m)
           p == Len(K(c)) + 1
           Gone(m) == /\ p \in DOMAIN K(m) /\ K(m)[p] = e[c].key
                      /\ KeysUpTo(f, m) = RemovedAt(K(m), p)
           S == {m \in Nat : c < m /\ m <= n => Gone(m)}
<1>1. c \in Nat /\ c < n /\ c \in Slots(n) /\ e[c].key \in Key
  BY DEF Live, KeyArray, Slots
<1>2. \A m \in 0..n : K(m) \in Seq(Key)
  <2>1. \A m \in 0..n : KeyArray(e, m)
    BY DEF KeyArray, Slots
  <2> QED
    BY <2>1, KeysUpToKeys
<1>3. KeysUpTo(f, c) = K(c)
  <2>1. \A i \in Slots(c) : f[i].key = e[i].key
    BY <1>1 DEF Slots
  <2> QED
    BY <1>1, <2>1, KeysUpToSame
<1>4. 0 \in S
  <2> HIDE DEF Gone
  <2> QED
    BY <1>1
<1>5. ASSUME NEW m \in Nat, m \in S
      PROVE  m + 1 \in S
  <2> SUFFICES ASSUME c < m + 1, m + 1 <= n PROVE Gone(m + 1)
    <3> HIDE DEF Gone
    <3> QED
      OBVIOUS
  <2>1. K(m + 1) = IF e[m].key = NULL THEN K(m) ELSE Append(K(m), e[m].key)
    BY KeysUpToNext
  <2>2. KeysUpTo(f, m + 1) = IF f[m].key = NULL THEN KeysUpTo(f, m)
                             ELSE Append(KeysUpTo(f, m), f[m].key)
    BY KeysUpToNext
  <2>3. K(m) \in Seq(Key) /\ K(c) \in Seq(Key)
    BY <1>1, <1>2
  <2>4. CASE m = c
    <3> DEFINE s == K(c)  x == e[c].key
    <3>1. K(m + 1) = Append(s, x) /\ KeysUpTo(f, m + 1) = s
      BY <1>1, <1>3, <2>1, <2>2, <2>4, KeyAssumption
    <3>2. p = Len(s) + 1
      OBVIOUS
    <3> HIDE DEF s, x, p
    <3>3. s \in Seq(Key) /\ x \in Key
      BY <1>1, <2>3 DEF s, x
    <3>4. /\ p \in DOMAIN Append(s, x) /\ Append(s, x)[p] = x
          /\ s = RemovedAt(Append(s, x), p)
      BY <3>2, <3>3 DEF RemovedAt
    <3> QED
      BY <3>1, <3>4 DEF x
  <2>5. CASE m # c
    <3>1. Gone(m)
      <4> HIDE DEF Gone
      <4> QED
        BY <1>1, <1>5, <2>5
    <3>2. f[m].key = e[m].key /\ e[m].key \in Key \cup {NULL}
      BY <1>1, <2>5 DEF Slots, KeyArray
    <3>3. CASE e[m].key = NULL
      BY <2>1, <2>2, <3>1, <3>2, <3>3
    <3>4. CASE e[m].key # NULL
      <4> DEFINE s == K(m)  x == e[m].key
      <4>1. /\ K(m + 1) = Append(s, x)
            /\ KeysUpTo(f, m + 1) = Append(RemovedAt(s, p), x)
        BY <2>1, <2>2, <3>1, <3>2, <3>4
      <4> HIDE DEF s, x, p
      <4>2. s \in Seq(Key) /\ x \in Key /\ p \in 1..Len(s)
        BY <2>3, <3>1, <3>2, <3>4 DEF s, x
      <4>3. /\ p \in DOMAIN Append(s, x) /\ Append(s, x)[p] = s[p]
            /\ Append(RemovedAt(s, p), x) = RemovedAt(Append(s, x), p)
        BY <4>2, AppendRemoved
      <4> QED
        BY <3>1, <4>1, <4>3 DEF s
    <3> QED
      BY <3>2, <3>3, <3>4
  <2> QED
    BY <2>4, <2>5
<1> HIDE DEF S
<1>6. \A m \in Nat : m \in S
  BY <1>4, <1>5, NatInductionOn
<1>7. Gone(n)
  <2> HIDE DEF Gone
  <2> QED
    BY <1>1, <1>6 DEF S
<1> QED
  BY <1>7

-----------------------------------------------------------------------------
(* The table implements the ordered map. *)

LEMMA CallOKInductive == CallOK /\ [Next]_vars => CallOK'
BY DEF CallOK, Next, vars, Enter, Begin, Run, WalkOn, GetHit, GetMiss, PutExists, PutReplace,
       PutGrow, PutFull, PutFits, PutInsert, Overrun, RemoveHit, RemoveMiss, StartRehash,
       RehashSkip, RehashCopy, RehashDone, Clear, Free, New, EndsEmpty, Return, NoCall, Found,
       Missed, args

LEMMA TableKeyArray ==
  ASSUME IInv
  PROVE  KeyArray(entries, count_used)
BY TypeFacts DEF IInv, EntryType, KeyArray

\* One entry more, in the table or in the one a rehash builds.
LEMMA KeysUpToLinked ==
  ASSUME NEW ents, NEW ents2, NEW n \in Nat, ents2[n].key \in Key,
         \A m \in Slots(n) : ents2[m].key = ents[m].key
  PROVE  KeysUpTo(ents2, n + 1) = Append(KeysUpTo(ents, n), ents2[n].key)
<1>1. KeysUpTo(ents2, n) = KeysUpTo(ents, n)
  BY KeysUpToSame
<1> QED
  BY <1>1, KeysUpToNext, KeyAssumption

LEMMA RehashCopyOrder ==
  ASSUME IInv, IInv', RehashOrder, RehashCopy
  PROVE  RehashOrder'
<1> DEFINE i == rehash.i
           e == entries[i]
           n == rehash.n
<1>1. /\ rehash'.i = i + 1 /\ rehash'.n = n + 1 /\ rehash'.cap = rehash.cap
      /\ rehash'.ents = LinkedEntries(rehash.ents, rehash.look, rehash.cap, n, e.key, e.code)
      /\ UNCHANGED <<count, count_used, entries>>
      /\ pc = "rehash" /\ pc' = "rehash" /\ i < count_used /\ e.key # NULL
  BY DEF RehashCopy, Rehashing, table, args, walk
<1>2. /\ i \in Nat /\ n \in Nat /\ rehash.cap \in Nat \ {0}
      /\ ArraysType(rehash.ents, rehash.look, rehash.cap)
      /\ Chains(rehash.ents, rehash.look, n, rehash.cap)
      /\ count_used \in Nat
  <2>1. Chains(rehash.ents, rehash.look, n, rehash.cap)
    BY <1>1 DEF IInv, RehashOK
  <2>2. TypeOK
    BY DEF IInv
  <2>3. capacity \in Nat /\ count_used \in 0..capacity
    BY ONLY <2>2 DEF TypeOK
  <2>4. /\ i \in Nat /\ n \in Nat /\ rehash.cap \in Nat \ {0}
        /\ ArraysType(rehash.ents, rehash.look, rehash.cap)
    BY ONLY <1>1, <2>2 DEF TypeOK
  <2> QED
    BY <2>1, <2>3, <2>4
<1>3. e.key \in Key /\ e.code \in Nat
  <2>1. i \in Live(entries, count_used)
    BY <1>1, <1>2 DEF Live
  <2> QED
    BY <2>1, TypeFacts DEF IInv
<1>4. n < rehash.cap
  <2>1. n + 1 = Cardinality(Copied)' /\ count <= rehash.cap
    BY <1>1 DEF IInv, RehashOK
  <2>2. Copied' \in SUBSET Live(entries, count_used)
    BY <1>1 DEF Copied, Live
  <2>3. /\ IsFiniteSet(Live(entries, count_used))
        /\ Cardinality(Live(entries, count_used)) = count
    BY <1>2, LiveFinite DEF IInv, CountOK
  <2>4. Cardinality(Copied') <= count /\ Cardinality(Copied') \in Nat
    BY <2>2, <2>3, FS_Subset, FS_CardinalityType
  <2>5. n + 1 <= count /\ count \in Nat
    BY <2>1, <2>3, <2>4, LiveFinite, <1>2
  <2> QED
    BY <1>2, <2>1, <2>5
<1>5. /\ rehash'.ents[n].key = e.key
      /\ \A m \in Slots(n) : rehash'.ents[m].key = rehash.ents[m].key
  BY <1>1, <1>2, <1>3, <1>4, LinkKeepsChains
<1>6. KeysUpTo(rehash'.ents, n + 1) = Append(KeysUpTo(rehash.ents, n), e.key)
  <2> DEFINE new == rehash'.ents  old == rehash.ents
  <2>1. /\ n \in Nat /\ new[n].key = e.key /\ new[n].key \in Key
        /\ \A m \in Slots(n) : new[m].key = old[m].key
    BY <1>2, <1>3, <1>5
  <2> HIDE DEF new, old, n, e
  <2>2. KeysUpTo(new, n + 1) = Append(KeysUpTo(old, n), new[n].key)
    BY <2>1, KeysUpToLinked
  <2>3. KeysUpTo(new, n + 1) = Append(KeysUpTo(old, n), e.key)
    BY <2>1, <2>2
  <2> QED
    BY <2>3 DEF new, old
<1>7. KeysUpTo(entries, i + 1) = Append(KeysUpTo(entries, i), e.key)
  BY <1>1, <1>2, KeysUpToNext
<1>8. KeysUpTo(rehash.ents, n) = KeysUpTo(entries, i)
  BY <1>1 DEF RehashOrder
<1> QED
  BY <1>1, <1>6, <1>7, <1>8 DEF RehashOrder

LEMMA RehashOrderInductive ==
  ASSUME IInv, IInv', RehashOrder, [Next]_vars
  PROVE  RehashOrder'
<1>1. CASE pc # "rehash"
  <2>1. pc' = "rehash" => rehash'.i = 0 /\ rehash'.n = 0
    BY <1>1 DEF Next, vars, Enter, Begin, Run, WalkOn, GetHit, GetMiss, PutExists, PutReplace,
       PutGrow, PutFull, PutFits, PutInsert, Overrun, RemoveHit, RemoveMiss, StartRehash,
       RehashSkip, RehashCopy, RehashDone, Clear, Free, New, EndsEmpty, Return, Found, Missed,
       Rehashing
  <2> QED
    BY <2>1, KeysUpToNext DEF RehashOrder
<1>2. CASE RehashSkip
  <2>1. /\ rehash'.i = rehash.i + 1 /\ rehash'.n = rehash.n /\ rehash'.ents = rehash.ents
        /\ entries' = entries /\ pc = "rehash" /\ entries[rehash.i].key = NULL
    BY <1>2 DEF RehashSkip, Rehashing, table
  <2>2. rehash.i \in Nat
    BY DEF IInv, TypeOK
  <2> QED
    BY <2>1, <2>2, KeysUpToNext DEF RehashOrder
<1>3. CASE RehashCopy
  BY <1>3, RehashCopyOrder
<1>4. CASE pc = "rehash" /\ ~RehashSkip /\ ~RehashCopy /\ pc' = "rehash"
  <2>1. rehash' = rehash /\ entries' = entries
    BY <1>4 DEF Next, vars, Enter, Begin, Run, WalkOn, GetHit, GetMiss, PutExists, PutReplace,
       PutGrow, PutFull, PutFits, PutInsert, Overrun, RemoveHit, RemoveMiss,
       RehashDone, Clear, Free, New, Return, Found, Missed, table
  <2> QED
    BY <1>4, <2>1 DEF RehashOrder
<1>5. CASE pc' # "rehash"
  BY <1>5 DEF RehashOrder
<1> QED
  BY <1>1, <1>2, <1>3, <1>4, <1>5

LEMMA MapInvInductive == MapInv /\ [Next]_vars => MapInv'
BY IInvInductive, CallOKInductive, RehashOrderInductive DEF MapInv

\* What the map sees of the table.
LEMMA MapView ==
  ASSUME IInv
  PROVE  /\ Map!Held = held
         /\ Keys \in Seq(Key)
         /\ ~Removed => Map!SameText(arg) = {entries[i].key : i \in Wanted}
<1>1. /\ Keys \in Seq(Key)
      /\ {Keys[i] : i \in DOMAIN Keys} = KeysOf(entries, Live(entries, count_used))
  BY TableKeyArray, TypeFacts, KeysUpToKeys DEF IInv, Keys
<1>2. Map!Held = held
  BY <1>1 DEF Map!Held, IInv, OwnedOnce
<1>3. Map!SameText(arg) = {h \in held : text[h] = text[arg]}
  BY <1>2 DEF Map!SameText
<1>4. held = {entries[i].key : i \in Live(entries, count_used)}
  BY DEF IInv, OwnedOnce, KeysOf
<1> QED
  BY <1>1, <1>2, <1>3, <1>4 DEF Wanted

LEMMA MapInit == Init => Map!Init
<1> SUFFICES ASSUME Init PROVE Map!Init
  OBVIOUS
<1>1. Keys = <<>>
  BY KeysUpToNext DEF Init, Keys
<1> QED
  BY <1>1 DEF Init, Map!Init, Removed

\* The steps between the entry of a call and its effect are not seen.
LEMMA MapStutter ==
  ASSUME MapInv,
         WalkOn \/ PutGrow \/ PutFits \/ Overrun \/ RehashSkip \/ RehashCopy
  PROVE  UNCHANGED Map!mapVars
<1>1. /\ Keys' = Keys
      /\ UNCHANGED <<call, arg, unique, ret>>
  BY DEF WalkOn, PutGrow, PutFits, Overrun, RehashSkip, RehashCopy, Keys, table, args
<1>2. Removed' = Removed
  BY <1>1 DEF WalkOn, PutGrow, PutFits, Overrun, RehashSkip, RehashCopy, Removed, StartRehash,
              Missed, args
<1> QED
  BY <1>1, <1>2 DEF Map!mapVars

LEMMA RehashDoneMap ==
  ASSUME MapInv, RehashDone
  PROVE  UNCHANGED Map!mapVars
<1>1. /\ pc = "rehash" /\ entries' = rehash.ents /\ count_used' = count
      /\ rehash.i = count_used
      /\ \/ call = "put" /\ pc' = "insert" /\ UNCHANGED <<call, arg, unique, ret>>
         \/ /\ call = "remove" /\ pc' = "idle" /\ ret' = "removed"
            /\ call' = "none" /\ arg' = NULL /\ unique' = FALSE
  BY DEF RehashDone, NoCall, args, MapInv, IInv, RehashOK
<1>2. rehash.n = count
  <2>1. Copied = Live(entries, count_used)
    BY <1>1, LiveFinite, TypeFacts DEF Copied, MapInv, IInv
  <2> QED
    BY <1>1, <2>1 DEF MapInv, IInv, RehashOK, CountOK
<1>3. Keys' = Keys
  BY <1>1, <1>2 DEF Keys, MapInv, RehashOrder
<1> QED
  BY <1>1, <1>3 DEF Map!mapVars, Removed

LEMMA EnterMap ==
  ASSUME MapInv, Enter
  PROVE  Map!Begin
<1>1. PICK c \in {"put", "get", "remove"}, k \in Key, u \in BOOLEAN :
        (u => c = "put") /\ Begin(c, k, u)
  BY DEF Enter
<1>2. /\ call = "none" /\ ~Removed /\ ~Removed' /\ Keys' = Keys
      /\ c = "put" => k \notin held
      /\ call' = c /\ arg' = k /\ unique' = u /\ ret' = "pending"
  BY <1>1 DEF Begin, MapInv, CallOK, Removed, Keys, table
<1>3. Map!Held = held
  BY MapView DEF MapInv
<1> QED
  BY <1>1, <1>2, <1>3 DEF Map!Begin

\* A call that returns shows it.
LEMMA ReturnMap ==
  ASSUME NEW out, Return(out)
  PROVE  Map!Return(out) /\ ~Removed'
BY DEF Return, NoCall, Map!Return, Removed

\* At the end of its walk, a call knows whether the map has its key.
LEMMA WalkMap ==
  ASSUME MapInv, pc = "walk"
  PROVE  /\ ~Removed
         /\ Found => Map!SameText(arg) # {} /\ cur \in Wanted
         /\ Missed => Map!SameText(arg) = {}
<1>1. ~Removed
  BY DEF Removed
<1>2. Map!SameText(arg) = {entries[i].key : i \in Wanted}
  BY <1>1, MapView DEF MapInv
<1> QED
  BY <1>1, <1>2, WalkFacts DEF MapInv, IInv, Found, Missed

LEMMA GetMap ==
  ASSUME MapInv, GetHit \/ GetMiss
  PROVE  Map!Get
<1>1. ~Removed /\ Keys' = Keys /\ call = "get" /\ pc = "walk"
  BY DEF GetHit, GetMiss, Found, Missed, Keys, table, Removed
<1>2. CASE GetHit
  BY <1>1, <1>2, WalkMap, ReturnMap DEF GetHit, Map!Get
<1>3. CASE GetMiss
  BY <1>1, <1>3, WalkMap, ReturnMap DEF GetMiss, Map!Get
<1> QED
  BY <1>2, <1>3

LEMMA PutKeepsMap ==
  ASSUME MapInv, PutExists \/ PutFull
  PROVE  Map!Put
<1>1. ~Removed /\ Keys' = Keys /\ call = "put" /\ pc = "walk"
  BY DEF PutExists, PutFull, Found, Missed, Keys, table, Removed
<1>2. CASE PutExists
  BY <1>1, <1>2, WalkMap, ReturnMap DEF PutExists, Map!Put
<1>3. CASE PutFull
  BY <1>1, <1>3, WalkMap, ReturnMap DEF PutFull, Map!Put
<1> QED
  BY <1>2, <1>3

LEMMA RemoveMissMap ==
  ASSUME MapInv, RemoveMiss
  PROVE  Map!Remove
<1>1. ~Removed /\ Keys' = Keys /\ call = "remove" /\ pc = "walk"
  BY DEF RemoveMiss, Missed, Keys, table, Removed
<1> QED
  BY <1>1, WalkMap, ReturnMap DEF RemoveMiss, Map!Remove

\* The entry of the key changes hands in its place.
LEMMA PutReplaceMap ==
  ASSUME MapInv, PutReplace
  PROVE  Map!Put
<1>1. /\ ~Removed /\ call = "put" /\ ~unique /\ pc = "walk" /\ Found
      /\ entries' = [entries EXCEPT ![cur].key = arg] /\ count_used' = count_used
      /\ Return("replaced")
  BY DEF PutReplace, Found, Removed
<1>2. Map!SameText(arg) # {} /\ cur \in Wanted
  BY <1>1, WalkMap
<1>3. /\ count_used \in Nat /\ Slots(count_used) \subseteq Slots(capacity)
      /\ entries \in [Slots(capacity) -> EntryType] /\ arg \in Key
      /\ cur \in Slots(count_used)
  BY <1>1, <1>2, TypeFacts DEF MapInv, IInv, TypeOK, Wanted
<1>4. \A i \in Slots(count_used) :
        entries'[i].key = IF entries[i].key # NULL /\ text[entries[i].key] = text[arg] THEN arg
                          ELSE entries[i].key
  <2> TAKE i \in Slots(count_used)
  <2>1. i \in Slots(capacity) /\ entries[i] \in EntryType
    BY <1>3
  <2>2. CASE i = cur
    <3>1. entries'[i].key = arg
      <4>1. entries'[i] = [entries[i] EXCEPT !.key = arg]
        BY <1>1, <1>3, <2>1, <2>2
      <4> QED
        BY <2>1, <4>1 DEF EntryType
    <3> QED
      BY <1>2, <2>2, <3>1 DEF Wanted, Live
  <2>3. CASE i # cur
    <3>1. entries'[i] = entries[i]
      BY <1>1, <1>3, <2>1, <2>3
    <3>2. ~(entries[i].key # NULL /\ text[entries[i].key] = text[arg])
      <4> SUFFICES ASSUME entries[i].key # NULL, text[entries[i].key] = text[arg] PROVE FALSE
        OBVIOUS
      <4>1. i \in Live(entries, count_used) /\ cur \in Live(entries, count_used)
            /\ text[entries[cur].key] = text[arg]
        BY <1>2 DEF Live, Slots, Wanted
      <4> QED
        BY <2>3, <4>1 DEF MapInv, IInv, KeysOK
    <3> QED
      BY <3>1, <3>2
  <2> QED
    BY <2>2, <2>3
<1>5. KeyArray(entries, count_used)
  BY TableKeyArray DEF MapInv
<1>6. Keys' = [i \in DOMAIN Keys |-> IF text[Keys[i]] = text[arg] THEN arg ELSE Keys[i]]
  <2> DEFINE new == entries'
  <2>1. \A i \in Slots(count_used) :
          new[i].key = IF entries[i].key # NULL /\ text[entries[i].key] = text[arg] THEN arg
                       ELSE entries[i].key
    BY <1>4
  <2> HIDE DEF new
  <2>2. KeysUpTo(new, count_used) =
          [i \in DOMAIN KeysUpTo(entries, count_used) |->
             IF text[KeysUpTo(entries, count_used)[i]] = text[arg] THEN arg
             ELSE KeysUpTo(entries, count_used)[i]]
    BY <1>3, <1>5, <2>1, KeysUpToReplaced
  <2> QED
    BY <1>1, <2>2 DEF new, Keys
<1> QED
  BY <1>1, <1>2, <1>6, ReturnMap DEF Map!Put

\* The new key comes last.
LEMMA PutInsertMap ==
  ASSUME MapInv, PutInsert
  PROVE  Map!Put
<1>1. /\ pc = "insert" /\ count_used < capacity /\ ~Removed
      /\ entries' = LinkedEntries(entries, entry_lookup, capacity, count_used, arg, hash[arg])
      /\ count_used' = count_used + 1 /\ Return("added")
  BY DEF PutInsert, Removed
<1>2. call = "put" /\ Wanted = {} /\ arg \in Key
  BY <1>1 DEF MapInv, IInv, AddingOK, TypeOK
<1>3. Map!SameText(arg) = {}
  BY <1>1, <1>2, MapView DEF MapInv
<1>4. /\ capacity \in Nat \ {0} /\ count_used \in Nat /\ hash[arg] \in Nat
      /\ ArraysType(entries, entry_lookup, capacity)
      /\ Chains(entries, entry_lookup, count_used, capacity)
  BY <1>2, KeyAssumption DEF MapInv, IInv, TypeOK, ChainsOK
<1>5. /\ entries'[count_used].key = arg
      /\ \A i \in Slots(count_used) : entries'[i].key = entries[i].key
  BY <1>1, <1>2, <1>4, LinkKeepsChains
<1>6. Keys' = Append(Keys, arg)
  <2> DEFINE new == entries'
  <2>1. /\ new[count_used].key = arg /\ new[count_used].key \in Key
        /\ \A i \in Slots(count_used) : new[i].key = entries[i].key
    BY <1>2, <1>5
  <2> HIDE DEF new
  <2>2. KeysUpTo(new, count_used + 1) = Append(KeysUpTo(entries, count_used), arg)
    BY ZenonT(30), <1>4, <2>1, KeysUpToLinked
  <2> QED
    BY <1>1, <2>2 DEF new, Keys
<1> QED
  BY <1>1, <1>2, <1>3, <1>6, ReturnMap DEF Map!Put

\* The removed key leaves its place, whether or not the table then shrinks.
LEMMA RemoveHitMap ==
  ASSUME MapInv, RemoveHit
  PROVE  Map!Remove
<1>1. /\ ~Removed /\ call = "remove" /\ pc = "walk" /\ Found
      /\ entries' = UnlinkedEntries(entries, prev, cur) /\ count_used' = count_used
      /\ \/ pc' = "rehash" /\ call' = call
         \/ Return("removed")
  BY DEF RemoveHit, Found, Removed, StartRehash, args
<1>2. cur \in Wanted
  BY <1>1, WalkMap
<1>3. /\ count_used \in Nat /\ Slots(count_used) \subseteq Slots(capacity)
      /\ entries \in [Slots(capacity) -> EntryType]
      /\ cur \in Slots(count_used) /\ cur \in Live(entries, count_used)
  BY <1>1, <1>2, TypeFacts DEF MapInv, IInv, TypeOK, Wanted
<1>4. /\ entries'[cur].key = NULL
      /\ \A i \in Slots(count_used) : i # cur => entries'[i].key = entries[i].key
  <2> DEFINE b == Bucket(hash[arg], capacity)
  <2>1. /\ b \in Slots(capacity) /\ cur \in InBucket(entries, count_used, capacity, b)
    BY <1>1, <1>2, WalkFacts DEF MapInv, IInv
  <2>2. \/ prev = -1
        \/ prev \in InBucket(entries, count_used, capacity, b) /\ entries[prev].next = cur
           /\ cur # entry_lookup[b]
    BY <1>1 DEF MapInv, IInv, WalkOK
  <2>3. prev # -1 => prev # cur /\ prev \in Slots(capacity)
    <3> SUFFICES ASSUME prev # -1 PROVE prev # cur /\ prev \in Slots(capacity)
      OBVIOUS
    <3>1. prev \in Slots(capacity)
      BY <1>3, <2>2, TypeFacts DEF MapInv, IInv, InBucket
    <3>2. ChainOK(entries, entry_lookup, count_used, capacity, b)
      BY <2>1 DEF MapInv, IInv, ChainsOK, Chains
    <3>3. ASSUME prev = cur PROVE FALSE
      <4> DEFINE rest == InBucket(entries, count_used, capacity, b) \ {entry_lookup[b]}
      <4>1. cur \in rest /\ entries[cur].next = cur
        BY <2>1, <2>2, <3>3
      <4>2. IsMaxOf(entries[cur].next, {j \in rest : j < cur})
        BY <3>2, <4>1 DEF ChainOK
      <4>3. cur \in Nat
        BY <1>3 DEF Slots
      <4> QED
        BY <4>1, <4>2, <4>3 DEF IsMaxOf
    <3> QED
      BY <3>1, <3>3
  <2> DEFINE erased == [entries EXCEPT ![cur] = Blank]
  <2>4. /\ erased[cur].key = NULL
        /\ \A i \in Slots(capacity) : i # cur => erased[i] = entries[i]
        /\ DOMAIN erased = Slots(capacity)
    BY <1>3 DEF Blank
  <2> HIDE DEF erased
  <2>5. entries' = IF prev = -1 THEN erased
                   ELSE [erased EXCEPT ![prev] = [key |-> entries[prev].key,
                                                  code |-> entries[prev].code,
                                                  next |-> entries[cur].next]]
    BY <1>1 DEF UnlinkedEntries, erased
  <2> QED
    BY <1>3, <2>3, <2>4, <2>5
<1>5. KeyArray(entries, count_used)
  BY TableKeyArray DEF MapInv
<1>6. \E p \in DOMAIN Keys : Keys[p] = entries[cur].key /\ Keys' = RemovedAt(Keys, p)
  <2> DEFINE new == entries'
  <2>1. new[cur].key = NULL /\ \A i \in Slots(count_used) : i # cur => new[i].key = entries[i].key
    BY <1>4
  <2> HIDE DEF new
  <2>2. \E p \in DOMAIN KeysUpTo(entries, count_used) :
          /\ KeysUpTo(entries, count_used)[p] = entries[cur].key
          /\ KeysUpTo(new, count_used) = RemovedAt(KeysUpTo(entries, count_used), p)
    BY <1>3, <1>5, <2>1, KeysUpToRemoved
  <2> QED
    BY <1>1, <2>2 DEF new, Keys
<1>7. \E p \in DOMAIN Keys : text[Keys[p]] = text[arg] /\ Keys' = Map!RemovedAt(p)
  BY <1>2, <1>6 DEF Wanted, RemovedAt, Map!RemovedAt
<1>8. Map!Return("removed")
  BY <1>1, ReturnMap DEF Removed, Map!Return
<1> QED
  BY <1>1, <1>7, <1>8 DEF Map!Remove

LEMMA EmptyMap ==
  ASSUME MapInv, Clear(TRUE) \/ Clear(FALSE) \/ Free \/ New
  PROVE  Map!Empty
<1>1. /\ pc \in {"idle", "freed"} /\ pc' \in {"idle", "freed"} /\ count_used' = 0
      /\ call' = "none" /\ arg' = NULL /\ unique' = FALSE /\ ret' = "done"
  BY DEF Clear, Free, New, EndsEmpty, NoCall, EmptyTable
<1>2. Keys' = <<>>
  BY <1>1, KeysUpToNext DEF Keys
<1> QED
  BY <1>1, <1>2 DEF Map!Empty, Map!Return, Removed, MapInv, CallOK

LEMMA MapStep == MapInv /\ [Next]_vars => [Map!Next]_Map!mapVars
<1> SUFFICES ASSUME MapInv, [Next]_vars PROVE [Map!Next]_Map!mapVars
  OBVIOUS
<1>1. CASE Enter
  BY <1>1, EnterMap DEF Map!Next
<1>2. CASE WalkOn \/ PutGrow \/ PutFits \/ Overrun \/ RehashSkip \/ RehashCopy
  BY <1>2, MapStutter
<1>3. CASE GetHit \/ GetMiss
  BY <1>3, GetMap DEF Map!Next
<1>4. CASE PutExists \/ PutFull
  BY <1>4, PutKeepsMap DEF Map!Next
<1>5. CASE PutReplace
  BY <1>5, PutReplaceMap DEF Map!Next
<1>6. CASE PutInsert
  BY <1>6, PutInsertMap DEF Map!Next
<1>7. CASE RemoveHit
  BY <1>7, RemoveHitMap DEF Map!Next
<1>8. CASE RemoveMiss
  BY <1>8, RemoveMissMap DEF Map!Next
<1>9. CASE RehashDone
  BY <1>9, RehashDoneMap
<1>10. CASE (\E shrink \in BOOLEAN : Clear(shrink)) \/ Free \/ New
  BY <1>10, EmptyMap DEF Map!Next
<1>11. CASE UNCHANGED vars
  <2>1. UNCHANGED <<entries, count_used, pc, call, arg, unique, ret>>
    BY <1>11 DEF vars, table, args
  <2> QED
    BY <2>1 DEF Map!mapVars, Keys, Removed
<1> QED
  BY <1>1, <1>2, <1>3, <1>4, <1>5, <1>6, <1>7, <1>8, <1>9, <1>10, <1>11 DEF Next, Run

\* Every entry is linked in once, in the chain its hash selects; a lookup walks
\* the chain of its own key, and a rehash keeps the order of the entries
\* (htable_lookup.c, htable_put.c, htable_rehash.c).
THEOREM HTableMapInvariant == Spec => []MapInv
<1>1. Init => MapInv
  BY InitIInv DEF MapInv, CallOK, RehashOrder, Init
<1>2. MapInv /\ [Next]_vars => MapInv'
  BY MapInvInductive
<1> QED
  BY <1>1, <1>2, PTL DEF Spec

\* The hash table implements the map its header promises: lookups, insertions,
\* replacements and removals have the outcome of the map's, and the keys keep the
\* order of their insertion, through every growing and shrinking of the table.
THEOREM HTableImplementsMap == Spec => ImplementsMap
<1>1. Init => Map!Init /\ MapInv
  BY MapInit, InitIInv DEF MapInv, CallOK, RehashOrder, Init
<1>2. MapInv /\ [Next]_vars => MapInv'
  BY MapInvInductive
<1>3. MapInv /\ [Next]_vars => [Map!Next]_Map!mapVars
  BY MapStep
<1> QED
  BY <1>1, <1>2, <1>3, PTL DEF Spec, Map!Spec, ImplementsMap

-----------------------------------------------------------------------------
(* What a loop over a changing table returns. *)

\* A rehash in progress has moved each entry down or left it where it was, and
\* left all of them there when it has met no hole.
MovedDown == pc = "rehash" =>
  /\ rehash.n <= rehash.i
  /\ \A m \in Slots(rehash.n) :
       \E j \in Copied : entries[j].key = rehash.ents[m].key /\ m <= j
  /\ rehash.n = rehash.i =>
       \A m \in Slots(rehash.n) : rehash.ents[m].key = entries[m].key

ReturnedLive == returned \subseteq TextsOf(entries, AllLive)
IndexOK == index \in Nat \cup {Over}

IterInv == IInv /\ IndexOK /\ ReturnedLive /\ MovedDown /\ LoopMissesNothing /\ LoopNeverRepeats

\* What the body of the loop does to the loop's variables.
Present == TextsOf(entries, AllLive)
BodyStep ==
  /\ index' = index
  /\ due' = due \cap Present' /\ returned' = returned \cap Present'
  /\ compacted => compacted'

-----------------------------------------------------------------------------
\* No entry appears, no text changes: nothing is lost to the loop.
LEMMA FewerEntries ==
  ASSUME IterInv, BodyStep,
         \A i \in AllLive' : i \in AllLive /\ text[entries'[i].key] = text[entries[i].key]
  PROVE  IndexOK' /\ ReturnedLive' /\ LoopMissesNothing' /\ LoopNeverRepeats'
<1>1. IndexOK' /\ ReturnedLive'
  BY DEF IterInv, IndexOK, ReturnedLive, BodyStep, Present
<1>2. Ahead' \subseteq Ahead
  BY DEF Ahead, BodyStep
<1>3. LoopNeverRepeats'
  BY <1>2 DEF IterInv, BodyStep, LoopNeverRepeats, TextsOf, Ahead
<1>4. ASSUME ~compacted', index # Over, NEW t \in due'
      PROVE  t \in TextsOf(entries', Ahead')
  <2>1. PICK i \in Ahead : text[entries[i].key] = t
    BY <1>4 DEF IterInv, BodyStep, LoopMissesNothing, TextsOf
  <2>2. PICK j \in AllLive' : text[entries'[j].key] = t
    BY <1>4 DEF BodyStep, Present, TextsOf
  <2>3. i = j
    BY <2>1, <2>2 DEF IterInv, IInv, KeysOK, Ahead, AllLive
  <2> QED
    BY <2>1, <2>2, <2>3 DEF Ahead, TextsOf, BodyStep
<1>5. LoopMissesNothing'
  BY <1>4 DEF IterInv, BodyStep, LoopMissesNothing
<1> QED
  BY <1>1, <1>3, <1>5

\* A new entry lies ahead, behind all the others, with a new text.
LEMMA OneMoreEntry ==
  ASSUME IterInv, BodyStep, count_used' = count_used + 1, count_used \in Nat,
         AllLive' = AllLive \cup {count_used},
         \A i \in AllLive : text[entries'[i].key] = text[entries[i].key],
         text[entries'[count_used].key] \notin Present
  PROVE  IndexOK' /\ ReturnedLive' /\ LoopMissesNothing' /\ LoopNeverRepeats'
<1>1. IndexOK' /\ ReturnedLive'
  BY DEF IterInv, IndexOK, ReturnedLive, BodyStep, Present
<1>2. Ahead \subseteq Ahead' /\ Ahead' \subseteq Ahead \cup {count_used}
  BY DEF Ahead, BodyStep
<1>3. LoopMissesNothing'
  BY <1>2 DEF IterInv, BodyStep, LoopMissesNothing, TextsOf, Ahead
<1>4. ASSUME index # Over, NEW i \in Ahead' PROVE text[entries'[i].key] \notin returned'
  <2>1. CASE i = count_used
    BY <2>1 DEF IterInv, ReturnedLive, BodyStep, Present
  <2>2. CASE i \in Ahead
    BY <1>4, <2>2 DEF IterInv, LoopNeverRepeats, BodyStep, TextsOf, Ahead
  <2> QED
    BY <1>2, <2>1, <2>2
<1>5. LoopNeverRepeats'
  BY <1>4 DEF LoopNeverRepeats, TextsOf, BodyStep
<1> QED
  BY <1>1, <1>3, <1>5

LEMMA PutReplaceIter ==
  ASSUME IterInv, BodyStep, PutReplace
  PROVE  IterInv'
<1>1. IInv' /\ pc' # "rehash"
  BY PutReplaceStep DEF IterInv, PutReplace, Return
<1>2. cur \in Wanted /\ cur \in Slots(capacity)
  BY WalkFacts, TypeFacts DEF IterInv, IInv, PutReplace, Found, Wanted, TypeOK
<1>3. /\ \A i \in AllLive : i \in Slots(capacity)
      /\ entries \in [Slots(capacity) -> EntryType]
  BY TypeFacts DEF IterInv, IInv, AllLive
<1>4. entries' = [entries EXCEPT ![cur].key = arg] /\ count_used' = count_used
  BY DEF PutReplace
<1>5. cur \in AllLive /\ text[entries[cur].key] = text[arg]
  BY <1>2 DEF Wanted, AllLive
<1>6. \A i \in AllLive' : i \in AllLive /\ text[entries'[i].key] = text[entries[i].key]
  <2> SUFFICES ASSUME NEW i \in AllLive'
               PROVE  i \in AllLive /\ text[entries'[i].key] = text[entries[i].key]
    OBVIOUS
  <2>1. i \in 0 .. count_used - 1 /\ entries'[i].key # NULL
    BY <1>4 DEF AllLive, Live
  <2>2. i \in Slots(capacity)
    BY <2>1, TypeFacts DEF IterInv, IInv, Slots
  <2>3. CASE i = cur
    BY <2>3, <1>2, <1>3, <1>4, <1>5 DEF EntryType
  <2>4. CASE i # cur
    BY <2>1, <2>2, <2>4, <1>3, <1>4 DEF AllLive, Live
  <2> QED
    BY <2>3, <2>4
<1> QED
  BY <1>1, <1>6, FewerEntries DEF IterInv, MovedDown

LEMMA PutInsertIter ==
  ASSUME IterInv, BodyStep, PutInsert
  PROVE  IterInv'
<1>1. IInv' /\ pc' # "rehash"
  BY PutInsertStep DEF IterInv, PutInsert, Return
<1>2. /\ capacity \in Nat \ {0} /\ count_used \in Nat /\ count_used < capacity
      /\ arg \in Key /\ hash[arg] \in Nat /\ count_used' = count_used + 1
  BY TypeFacts, KeyAssumption DEF IterInv, IInv, PutInsert, TypeOK
<1>3. /\ entries'[count_used].key = arg
      /\ \A i \in Slots(count_used) : entries'[i].key = entries[i].key
      /\ Live(entries', count_used + 1) = Live(entries, count_used) \cup {count_used}
  <2>1. /\ ArraysType(entries, entry_lookup, capacity)
        /\ Chains(entries, entry_lookup, count_used, capacity)
    BY DEF IterInv, IInv, TypeOK, ChainsOK
  <2>2. entries' = LinkedEntries(entries, entry_lookup, capacity, count_used, arg, hash[arg])
    BY DEF PutInsert
  <2> QED
    BY ONLY <1>2, <2>1, <2>2, LinkKeepsChains
<1>4. \A i \in AllLive : text[entries'[i].key] = text[entries[i].key]
  BY <1>3, TypeFacts DEF IterInv, IInv, AllLive
<1>5. text[arg] \notin Present
  <2>1. Wanted = {}
    BY DEF IterInv, IInv, AddingOK, PutInsert
  <2> QED
    BY <2>1 DEF Wanted, Present, TextsOf, AllLive
<1>6. AllLive' = AllLive \cup {count_used}
  BY <1>2, <1>3 DEF AllLive
<1> QED
  BY <1>1, <1>2, <1>3, <1>4, <1>5, <1>6, OneMoreEntry DEF IterInv, MovedDown

LEMMA RemoveHitIter ==
  ASSUME IterInv, BodyStep, RemoveHit
  PROVE  IterInv'
<1> DEFINE b == Bucket(hash[arg], capacity)
           members == InBucket(entries, count_used, capacity, b)
<1>1. IInv'
  BY RemoveHitStep DEF IterInv
<1>2. /\ cur \in members /\ b \in Slots(capacity) /\ cur # -1 /\ pc = "walk"
      /\ capacity \in Nat \ {0} /\ count_used \in Nat /\ count_used <= capacity
      /\ prev \in Int
  BY WalkFacts, TypeFacts DEF IterInv, IInv, TypeOK, RemoveHit, Found, InBucket
<1>3. \/ prev = -1 /\ cur = entry_lookup[b]
      \/ prev \in members /\ entries[prev].next = cur /\ cur # entry_lookup[b]
  BY <1>2 DEF IterInv, IInv, WalkOK
<1>4. /\ \A i \in Slots(count_used) : i # cur => entries'[i].key = entries[i].key
      /\ Live(entries', count_used) = Live(entries, count_used) \ {cur}
  BY <1>2, <1>3, UnlinkKeepsChains DEF IterInv, IInv, TypeOK, ChainsOK, RemoveHit
<1>5. count_used' = count_used
  BY DEF RemoveHit
<1>6. \A i \in AllLive' : i \in AllLive /\ text[entries'[i].key] = text[entries[i].key]
  BY <1>4, <1>5, TypeFacts DEF IterInv, IInv, AllLive
<1>7. MovedDown'
  <2>1. pc' = "rehash" => rehash'.n = 0 /\ rehash'.i = 0
    BY DEF RemoveHit, StartRehash, Return, Rehashing
  <2> QED
    BY <2>1 DEF MovedDown, Slots
<1> QED
  BY <1>1, <1>6, <1>7, FewerEntries DEF IterInv

LEMMA RehashSkipIter ==
  ASSUME IterInv, BodyStep, RehashSkip
  PROVE  IterInv'
<1>1. IInv'
  BY RehashSkipStep DEF IterInv
<1>2. /\ UNCHANGED <<entries, count_used>>
      /\ pc = "rehash" /\ rehash.i \in Nat /\ rehash.n \in Nat
      /\ rehash'.i = rehash.i + 1 /\ rehash'.n = rehash.n /\ rehash'.ents = rehash.ents
  BY DEF RehashSkip, Rehashing, table, IterInv, IInv, TypeOK
<1>3. Copied \subseteq Copied'
  BY <1>2, LiveFinite, TypeFacts DEF Copied, IterInv, IInv
<1>4. MovedDown'
  BY <1>2, <1>3 DEF IterInv, MovedDown
<1>5. \A i \in AllLive' : i \in AllLive /\ text[entries'[i].key] = text[entries[i].key]
  BY <1>2 DEF AllLive
<1> QED
  BY <1>1, <1>4, <1>5, FewerEntries DEF IterInv

LEMMA RehashCopyIter ==
  ASSUME IterInv, BodyStep, RehashCopy
  PROVE  IterInv'
<1> DEFINE e == entries[rehash.i]
           n == rehash.n
<1>1. IInv'
  BY RehashCopyStep DEF IterInv
<1>2. /\ UNCHANGED <<entries, count_used>>
      /\ pc = "rehash" /\ rehash.i \in Nat /\ n \in Nat /\ rehash.i < count_used
      /\ count_used \in Nat /\ rehash.cap \in Nat \ {0}
      /\ e.key # NULL
      /\ rehash'.i = rehash.i + 1 /\ rehash'.n = n + 1
      /\ rehash'.ents = LinkedEntries(rehash.ents, rehash.look, rehash.cap, n, e.key, e.code)
  BY TypeFacts DEF RehashCopy, Rehashing, table, IterInv, IInv, TypeOK
<1>3. rehash.i \in Live(entries, count_used) /\ e.key \in Key /\ e.code \in Nat
  BY <1>2, TypeFacts DEF Live, IterInv, IInv
<1>4. n < rehash.cap
  <2>1. /\ Copied \subseteq Live(entries, count_used) \ {rehash.i}
        /\ IsFiniteSet(Live(entries, count_used))
        /\ count = Cardinality(Live(entries, count_used)) /\ count \in Nat
    BY <1>2, TypeFacts, LiveFinite DEF Copied, IterInv, IInv, CountOK
  <2>2. /\ IsFiniteSet(Live(entries, count_used) \ {rehash.i})
        /\ Cardinality(Live(entries, count_used) \ {rehash.i}) = count - 1
    BY <1>3, <2>1, FS_RemoveElement
  <2>3. n <= count - 1
    BY <1>2, <2>1, <2>2, FS_Subset DEF IterInv, IInv, RehashOK
  <2> QED
    BY <1>2, <2>1, <2>3 DEF IterInv, IInv, RehashOK
<1>5. /\ rehash'.ents[n].key = e.key
      /\ \A m \in Slots(n) : rehash'.ents[m].key = rehash.ents[m].key
  BY <1>2, <1>3, <1>4, LinkKeepsChains DEF IterInv, IInv, TypeOK, RehashOK
<1>6. Copied \subseteq Copied' /\ rehash.i \in Copied'
  BY <1>2, <1>3, LiveFinite DEF Copied
<1>7. \A m \in Slots(n + 1) : m \in Slots(n) \/ m = n
  BY <1>2 DEF Slots
<1>8. MovedDown'
  <2>1. n <= rehash.i
    BY <1>2 DEF IterInv, MovedDown
  <2>2. ASSUME NEW m \in Slots(n + 1)
        PROVE  \E j \in Copied' : entries'[j].key = rehash'.ents[m].key /\ m <= j
    <3>1. CASE m \in Slots(n)
      <4>1. PICK j \in Copied : entries[j].key = rehash.ents[m].key /\ m <= j
        BY <1>2, <3>1 DEF IterInv, MovedDown
      <4> QED
        BY <3>1, <4>1, <1>2, <1>5, <1>6
    <3>2. CASE m = n
      BY <3>2, <2>1, <1>2, <1>5, <1>6
    <3> QED
      BY <3>1, <3>2, <1>7
  <2>3. ASSUME n + 1 = rehash.i + 1, NEW m \in Slots(n + 1)
        PROVE  rehash'.ents[m].key = entries'[m].key
    <3>1. n = rehash.i
      BY <2>3, <1>2
    <3> QED
      BY <3>1, <1>2, <1>5, <1>7 DEF IterInv, MovedDown
  <2> QED
    BY <1>2, <2>1, <2>2, <2>3 DEF MovedDown
<1>9. \A i \in AllLive' : i \in AllLive /\ text[entries'[i].key] = text[entries[i].key]
  BY <1>2 DEF AllLive
<1> QED
  BY <1>1, <1>8, <1>9, FewerEntries DEF IterInv

\* The index is past what a rehash has moved down below it, and what it has not
\* moved is where it was.
LEMMA RehashDoneIter ==
  ASSUME IterInv, BodyStep, RehashDone, count_used' < count_used => compacted'
  PROVE  IterInv'
<1> DEFINE n == rehash.n
<1>1. IInv' /\ pc' # "rehash"
  BY RehashDoneStep DEF IterInv, RehashDone
<1>2. /\ entries' = rehash.ents /\ count_used' = count
      /\ pc = "rehash" /\ rehash.i = count_used
      /\ n \in Nat /\ count_used \in Nat /\ count \in Nat
      /\ n = Cardinality(Copied)
      /\ Live(rehash.ents, n) = Slots(n)
  BY TypeFacts DEF RehashDone, IterInv, IInv, TypeOK, RehashOK
<1>3. Copied = Live(entries, count_used)
  BY <1>2, LiveFinite DEF Copied
<1>4. n = count
  BY <1>2, <1>3 DEF IterInv, IInv, CountOK
<1>5. AllLive' = Slots(n) /\ n <= count_used
  BY <1>2, <1>4 DEF AllLive, IterInv, MovedDown
<1>6. ASSUME NEW m \in Slots(n)
      PROVE  \E j \in AllLive : entries[j].key = entries'[m].key /\ m <= j
  BY <1>2, <1>3 DEF IterInv, MovedDown, AllLive
<1>7. IndexOK' /\ ReturnedLive'
  BY DEF IterInv, IndexOK, ReturnedLive, BodyStep, Present
<1>8. LoopNeverRepeats'
  <2> SUFFICES ASSUME index # Over, NEW m \in Ahead'
               PROVE  text[entries'[m].key] \notin returned'
    BY DEF LoopNeverRepeats, TextsOf, BodyStep
  <2>1. m \in Slots(n) /\ m >= index /\ index \in Int /\ m \in Int
    BY <1>5 DEF Ahead, BodyStep, IterInv, IndexOK, Slots
  <2>2. PICK j \in AllLive : entries[j].key = entries'[m].key /\ m <= j
    BY <2>1, <1>6
  <2>3. j \in Int
    BY <1>2, LiveFinite DEF AllLive
  <2>4. j \in Ahead
    BY <2>1, <2>2, <2>3 DEF Ahead
  <2> QED
    BY <2>2, <2>4 DEF IterInv, LoopNeverRepeats, TextsOf, BodyStep
<1>9. LoopMissesNothing'
  <2> SUFFICES ASSUME ~compacted', NEW t \in due'
               PROVE  index # Over /\ t \in TextsOf(entries', Ahead')
    BY DEF LoopMissesNothing, BodyStep
  <2>1. n = count_used
    BY <1>2, <1>4, <1>5
  <2>2. \A m \in Slots(n) : entries'[m].key = entries[m].key
    BY <1>2, <2>1 DEF IterInv, MovedDown
  <2>3. index # Over /\ t \in TextsOf(entries, Ahead)
    BY DEF IterInv, LoopMissesNothing, BodyStep
  <2>4. PICK i \in Ahead : text[entries[i].key] = t
    BY <2>3 DEF TextsOf
  <2>5. i \in Slots(n) /\ i \in Ahead'
    BY <2>1, <2>4, <1>5 DEF Ahead, AllLive, Live, Slots, BodyStep
  <2> QED
    BY <2>2, <2>3, <2>4, <2>5 DEF TextsOf
<1> QED
  BY <1>1, <1>7, <1>8, <1>9 DEF IterInv, MovedDown

\* A table that is cleared, freed or new holds nothing.
LEMMA EmptyIter ==
  ASSUME IterInv, BodyStep, NEW cap, EmptyTable(cap), IInv', pc' # "rehash"
  PROVE  IterInv'
<1>1. AllLive' = {}
  BY DEF EmptyTable, AllLive, Live
<1> QED
  BY <1>1, FewerEntries DEF IterInv, MovedDown

\* The steps that leave the table as it is.
LEMMA SameTableIter ==
  ASSUME IterInv, BodyStep, IInv', UNCHANGED <<entries, count_used>>,
         pc' = "rehash" => rehash'.n = 0 /\ rehash'.i = 0
  PROVE  IterInv'
<1>1. MovedDown'
  BY DEF MovedDown, Slots
<1>2. \A i \in AllLive' : i \in AllLive /\ text[entries'[i].key] = text[entries[i].key]
  BY DEF AllLive
<1> QED
  BY <1>1, <1>2, FewerEntries DEF IterInv

LEMMA BodyKeeps ==
  ASSUME IterInv, TableStep
  PROVE  IterInv'
<1>1. IInv' /\ BodyStep
  BY IInvInductive DEF IterInv, TableStep, BodyStep, Present, AllLive
<1>2. CASE PutReplace
  BY <1>1, <1>2, PutReplaceIter
<1>3. CASE PutInsert
  BY <1>1, <1>3, PutInsertIter
<1>4. CASE RemoveHit
  BY <1>1, <1>4, RemoveHitIter
<1>5. CASE RehashSkip
  BY <1>1, <1>5, RehashSkipIter
<1>6. CASE RehashCopy
  BY <1>1, <1>6, RehashCopyIter
<1>7. CASE RehashDone
  <2>1. count_used' < count_used => compacted'
    BY <1>7 DEF TableStep, RehashDone
  <2> QED
    BY <1>1, <1>7, <2>1, RehashDoneIter
<1>8. CASE (\E shrink \in BOOLEAN : Clear(shrink)) \/ Free \/ New
  <2>1. pc' # "rehash" /\ \E cap : EmptyTable(cap)
    BY <1>8 DEF Clear, Free, New
  <2> QED
    BY <1>1, <2>1, EmptyIter
<1>9. CASE Enter \/ WalkOn \/ GetHit \/ GetMiss \/ PutExists \/ PutGrow \/ PutFull \/ PutFits
           \/ Overrun \/ RemoveMiss
  <2>1. UNCHANGED <<entries, count_used>>
    BY <1>9 DEF Enter, Begin, WalkOn, GetHit, GetMiss, PutExists, PutGrow, PutFull, PutFits,
                Overrun, RemoveMiss, table
  <2>2. pc' = "rehash" => rehash'.n = 0 /\ rehash'.i = 0
    BY <1>9 DEF Enter, Begin, WalkOn, GetHit, GetMiss, PutExists, PutGrow, PutFull, PutFits,
                Overrun, RemoveMiss, Return, StartRehash, Rehashing, Found
  <2> QED
    BY <1>1, <2>1, <2>2, SameTableIter
<1> QED
  BY <1>2, <1>3, <1>4, <1>5, <1>6, <1>7, <1>8, <1>9 DEF TableStep, Next, Run

-----------------------------------------------------------------------------
\* What the loop's own steps leave alone.
LEMMA TableStays ==
  ASSUME IterInv, UNCHANGED vars
  PROVE  IInv' /\ MovedDown' /\ UNCHANGED <<entries, count_used>> /\ AllLive' = AllLive
<1>1. IInv'
  BY IInvInductive DEF IterInv
<1>2. UNCHANGED <<entries, count_used, pc, rehash>>
  BY DEF vars, table
<1> QED
  BY <1>1, <1>2 DEF IterInv, MovedDown, AllLive, Copied

LEMMA IterReturnsKeeps ==
  ASSUME IterInv, NEW i \in AllLive, IterReturns(i)
  PROVE  IterInv'
<1>1. /\ IInv' /\ MovedDown' /\ UNCHANGED <<entries, count_used>> /\ AllLive' = AllLive
      /\ index # Over /\ index' = i + 1 /\ i \in Ahead /\ \A j \in Ahead : i <= j
      /\ due' = due \ {text[entries[i].key]} /\ returned' = returned \cup {text[entries[i].key]}
      /\ compacted' = compacted
  BY TableStays DEF IterReturns, TextsOf
<1>2. \A j \in AllLive : j \in Nat
  BY TypeFacts, LiveFinite DEF AllLive, IterInv, IInv
<1>3. index \in Nat /\ index' \in Nat /\ index' # Over
  BY <1>1, <1>2 DEF IterInv, IndexOK, Over
<1>4. Ahead' = Ahead \ {i}
  BY <1>1, <1>2, <1>3 DEF Ahead
<1>5. IndexOK' /\ ReturnedLive'
  BY <1>1, <1>3 DEF IterInv, IndexOK, ReturnedLive, TextsOf
<1>6. LoopMissesNothing'
  BY <1>1, <1>3, <1>4 DEF IterInv, LoopMissesNothing, TextsOf
<1>7. LoopNeverRepeats'
  <2>1. \A j \in Ahead \ {i} : text[entries[j].key] # text[entries[i].key]
    BY <1>1 DEF IterInv, IInv, KeysOK, Ahead, AllLive
  <2> QED
    BY <1>1, <1>3, <1>4, <2>1 DEF IterInv, LoopNeverRepeats, TextsOf
<1> QED
  BY <1>1, <1>5, <1>6, <1>7 DEF IterInv

LEMMA StartLoopKeeps == ASSUME IterInv, StartLoop PROVE IterInv'
<1>1. /\ IInv' /\ MovedDown' /\ UNCHANGED <<entries, count_used>> /\ AllLive' = AllLive
      /\ index' = 0 /\ due' = TextsOf(entries, AllLive) /\ returned' = {}
  BY TableStays DEF StartLoop
<1>2. \A j \in AllLive : j \in Nat
  BY TypeFacts, LiveFinite DEF AllLive, IterInv, IInv
<1>3. Ahead' = AllLive
  BY <1>1, <1>2 DEF Ahead
<1> QED
  BY <1>1, <1>3 DEF IterInv, IndexOK, ReturnedLive, LoopMissesNothing, LoopNeverRepeats, Over

LEMMA IterEndsKeeps == ASSUME IterInv, IterEnds PROVE IterInv'
<1>1. /\ IInv' /\ MovedDown' /\ UNCHANGED <<entries, count_used>> /\ AllLive' = AllLive
      /\ index # Over /\ Ahead = {}
      /\ index' = Over /\ returned' = {} /\ UNCHANGED <<due, compacted>>
  BY TableStays DEF IterEnds
<1> QED
  BY <1>1 DEF IterInv, IndexOK, ReturnedLive, LoopMissesNothing, LoopNeverRepeats, TextsOf

LEMMA IterInitial == IterInit => IterInv
<1> SUFFICES ASSUME IterInit PROVE IterInv
  OBVIOUS
<1>1. IInv /\ pc = "idle"
  BY InitIInv DEF IterInit, Init
<1> QED
  BY <1>1 DEF IterInit, IterInv, IndexOK, ReturnedLive, MovedDown, LoopMissesNothing, LoopNeverRepeats

LEMMA IterInductive == IterInv /\ [IterNext]_<<vars, iterVars>> => IterInv'
<1> SUFFICES ASSUME IterInv, [IterNext]_<<vars, iterVars>> PROVE IterInv'
  OBVIOUS
<1>1. CASE UNCHANGED <<vars, iterVars>>
  <2>1. /\ IInv' /\ MovedDown' /\ UNCHANGED <<entries, count_used>> /\ AllLive' = AllLive
        /\ UNCHANGED <<index, due, returned, compacted>>
    BY <1>1, TableStays DEF iterVars
  <2> QED
    BY <2>1 DEF IterInv, IndexOK, ReturnedLive, LoopMissesNothing, LoopNeverRepeats, Ahead, TextsOf
<1>2. CASE TableStep
  BY <1>2, BodyKeeps
<1>3. ASSUME NEW i \in AllLive, IterReturns(i) PROVE IterInv'
  BY <1>3, IterReturnsKeeps
<1> QED
  BY <1>1, <1>2, <1>3, StartLoopKeeps, IterEndsKeeps DEF IterNext

\* Whatever the loop's body does to the table, pcl_htable_iter skips no text that
\* was there when the loop began and is still there, until a rehash has squeezed
\* removed entries out (htable_iter.c).
THEOREM IterMissesNothing == IterSpec => []LoopMissesNothing
<1>1. IterInv => LoopMissesNothing
  BY DEF IterInv
<1> QED
  BY <1>1, IterInitial, IterInductive, PTL DEF IterSpec

\* ... and it returns no entry twice, even after one.
THEOREM IterNeverRepeats == IterSpec => []LoopNeverRepeats
<1>1. IterInv => LoopNeverRepeats
  BY DEF IterInv
<1> QED
  BY <1>1, IterInitial, IterInductive, PTL DEF IterSpec
=============================================================================
