--------------------------- MODULE ReflectionProofs ---------------------------
(***************************************************************************)
(* Proofs about reflection.  The lazy tables of MetaObjects, for any number*)
(* of threads and any chain of classes: that the one who holds the lock is *)
(* the only one to build is not enough, a thread that has waited for it    *)
(* must look at the flag again, or it would build on top of what is there; *)
(* so PrepareInv ties the flag, the lock and the tables together, and what *)
(* a call finds follows from the order of the tables.  Then the properties *)
(* and the JSON of Objects, for fields of any types: what is written is    *)
(* read back only because fields hold values of their types, whatever was  *)
(* assigned, set, or read up to an exception, which is what JsonIInv says. *)
(***************************************************************************)
EXTENDS MetaObjects, Objects, SequenceTheorems, WellFoundedInduction, TLAPS

LEMMA LeastNatural ==
  ASSUME NEW T, T \subseteq Nat, T # {}
  PROVE  \E n \in T : \A m \in T : n <= m
<1>1. \E x \in T : \A y \in T : ~ (<<y, x>> \in OpToRel(<, Nat))
  BY NatLessThanWellFounded, WFMin
<1>2. \E x \in T : \A y \in T : ~ (y < x)
  <2>1. PICK x \in T : \A y \in T : ~ (<<y, x>> \in OpToRel(<, Nat))
    BY <1>1
  <2>2. \A y \in T : ~(y < x)
    BY <2>1 DEF OpToRel
  <2> QED
    BY <2>2
<1> HIDE <1>1
<1> QED
  BY <1>2

-----------------------------------------------------------------------------
(* Tables. *)

LEMMA ListDomain ==
  ASSUME NEW s, IsList(s)
  PROVE  Len(s) \in Nat /\ DOMAIN s = 1..Len(s) /\ \A i \in DOMAIN s : s[i] \in Range(s)
  BY DEF IsList, Range

LEMMA PointerList ==
  ASSUME NEW list, IsList(list), NEW n \in Nat
  PROVE  /\ Entries(list, n) \in Seq(Range(Entries(list, n))) /\ Len(Entries(list, n)) = Len(list)
         /\ \A i \in 1..Len(list) : Entries(list, n)[i] = <<n, i>>
  BY ListDomain DEF Entries, Range

(* Table new goes on from table old. *)
Continues(new, old, more) ==
  /\ IsList(new) /\ InOrder(new) /\ Range(new) = Range(old) \cup Range(more)

(* The list of the next class behind those of the classes before. *)
LEMMA AppendEntries ==
  ASSUME NEW table, IsList(table), InOrder(table),
         NEW list, IsList(list), NEW n \in Nat,
         \A p \in Range(table) : p[1] \in Nat /\ p[1] < n
  PROVE  Continues(table \o Entries(list, n), table, Entries(list, n))
<1> DEFINE more == Entries(list, n)
           new == table \o more
           A == Range(table)
           B == Range(more)
<1>1. table \in Seq(A) /\ Len(table) \in Nat /\ DOMAIN table = 1..Len(table)
  BY ListDomain DEF IsList
<1>2. more \in Seq(B) /\ Len(more) = Len(list) /\ Len(list) \in Nat
  BY PointerList, ListDomain
<1>3. \A i \in 1..Len(list) : more[i] = <<n, i>>
  BY PointerList
<1> HIDE DEF more
<1>4. table \in Seq(A \cup B) /\ more \in Seq(A \cup B)
  BY <1>1, <1>2
<1>5. /\ new \in Seq(A \cup B) /\ Len(new) = Len(table) + Len(list)
      /\ \A i \in 1..Len(table) : new[i] = table[i]
      /\ \A i \in 1..Len(list) : new[Len(table) + i] = more[i]
  <2> DEFINE C == A \cup B
  <2>1. table \in Seq(C) /\ more \in Seq(C)
    BY <1>4
  <2> HIDE DEF C
  <2>2. /\ table \o more \in Seq(C) /\ Len(table \o more) = Len(table) + Len(more)
        /\ \A i \in 1..Len(table) : (table \o more)[i] = table[i]
        /\ \A i \in 1..Len(more) : (table \o more)[Len(table) + i] = more[i]
    BY <2>1
  <2> QED
    BY <2>2, <1>2 DEF C
<1>6. DOMAIN new = 1..(Len(table) + Len(list)) /\ DOMAIN more = 1..Len(list)
  BY <1>2, <1>5
<1> HIDE DEF new
<1>7. Range(new) = A \cup B
  <2>1. \A x \in A : x \in Range(new)
    <3> SUFFICES ASSUME NEW x \in A PROVE x \in Range(new)
      OBVIOUS
    <3>1. PICK i \in DOMAIN table : x = table[i]
      BY DEF Range
    <3>2. i \in DOMAIN new /\ new[i] = x
      BY <1>1, <1>2, <1>5, <1>6, <3>1
    <3> QED
      BY <3>2 DEF Range
  <2>2. \A x \in B : x \in Range(new)
    <3> SUFFICES ASSUME NEW x \in B PROVE x \in Range(new)
      OBVIOUS
    <3>1. PICK i \in DOMAIN more : x = more[i]
      BY DEF Range
    <3>2. Len(table) + i \in DOMAIN new /\ new[Len(table) + i] = x
      BY <1>1, <1>2, <1>5, <1>6, <3>1
    <3> QED
      BY <3>2 DEF Range
  <2>3. Range(new) \subseteq A \cup B
    BY <1>5, <1>6 DEF Range
  <2> QED
    BY <2>1, <2>2, <2>3
<1>8. InOrder(new)
  <2> SUFFICES ASSUME NEW i \in DOMAIN new, NEW j \in DOMAIN new, i < j
               PROVE  Ahead(new[i], new[j])
    BY DEF InOrder
  <2>1. CASE j <= Len(table)
    <3>1. i \in DOMAIN table /\ j \in DOMAIN table /\ new[i] = table[i] /\ new[j] = table[j]
      BY <1>1, <1>2, <1>5, <1>6, <2>1
    <3> QED
      BY <3>1 DEF InOrder
  <2>2. CASE j > Len(table)
    <3>1. PICK k \in 1..Len(list) : j = Len(table) + k
      <4>1. j - Len(table) \in 1..Len(list) /\ j = Len(table) + (j - Len(table))
        BY <1>1, <1>2, <1>6, <2>2
      <4> QED
        BY <4>1
    <3>2. new[j] = <<n, k>>
      BY <1>3, <1>5, <3>1
    <3>3. CASE i <= Len(table)
      <4>1. i \in DOMAIN table /\ new[i] = table[i]
        BY <1>1, <1>2, <1>5, <1>6, <3>3
      <4>2. new[i][1] \in Nat /\ new[i][1] < n
        BY <4>1 DEF Range
      <4> QED
        BY <3>2, <4>2 DEF Ahead
    <3>4. CASE i > Len(table)
      <4>1. i - Len(table) \in 1..Len(list) /\ i = Len(table) + (i - Len(table))
        BY <1>1, <1>2, <1>6, <3>4
      <4>2. new[i] = <<n, i - Len(table)>>
        BY <1>3, <1>5, <4>1
      <4>3. i - Len(table) < k
        BY <1>1, <1>6, <3>1
      <4> QED
        BY <3>2, <4>2, <4>3 DEF Ahead
    <3> QED
      BY <1>1, <1>2, <1>6, <3>3, <3>4
  <2> QED
    BY <1>1, <1>2, <1>6, <2>1, <2>2
<1> QED
  BY <1>5, <1>7, <1>8 DEF Continues, IsList, new, more

(* The pointers of the first n classes, with the list of the next one.     *)
LEMMA FieldsOfNext ==
  ASSUME NEW n \in Nat
  PROVE  /\ FieldsTo(n + 1) = FieldsTo(n) \cup Range(Entries(Chain[n + 1].fields, n + 1))
         /\ \A p \in FieldsTo(n) : p[1] \in Nat /\ p[1] < n + 1
<1>1. 1..(n + 1) = (1..n) \cup {n + 1}
  OBVIOUS
<1>2. \A p \in FieldsTo(n) : p[1] \in 1..n
  <2> SUFFICES ASSUME NEW p \in FieldsTo(n) PROVE p[1] \in 1..n
    OBVIOUS
  <2>1. PICK m \in 1..n : p \in Range(Entries(Chain[m].fields, m))
    BY DEF FieldsTo
  <2>2. PICK i \in DOMAIN Entries(Chain[m].fields, m) : p = Entries(Chain[m].fields, m)[i]
    BY <2>1 DEF Range
  <2>3. p = <<m, i>>
    BY <2>2 DEF Entries
  <2> QED
    BY <2>3
<1>3. FieldsTo(n + 1) = FieldsTo(n) \cup Range(Entries(Chain[n + 1].fields, n + 1))
  BY <1>1, Zenon DEF FieldsTo
<1> QED
  BY <1>2, <1>3

LEMMA MethodsOfNext ==
  ASSUME NEW n \in Nat
  PROVE  /\ MethodsTo(n + 1) = MethodsTo(n) \cup Range(Entries(Chain[n + 1].methods, n + 1))
         /\ \A p \in MethodsTo(n) : p[1] \in Nat /\ p[1] < n + 1
<1>1. 1..(n + 1) = (1..n) \cup {n + 1}
  OBVIOUS
<1>2. \A p \in MethodsTo(n) : p[1] \in 1..n
  <2> SUFFICES ASSUME NEW p \in MethodsTo(n) PROVE p[1] \in 1..n
    OBVIOUS
  <2>1. PICK m \in 1..n : p \in Range(Entries(Chain[m].methods, m))
    BY DEF MethodsTo
  <2>2. PICK i \in DOMAIN Entries(Chain[m].methods, m) : p = Entries(Chain[m].methods, m)[i]
    BY <2>1 DEF Range
  <2>3. p = <<m, i>>
    BY <2>2 DEF Entries
  <2> QED
    BY <2>3
<1>3. MethodsTo(n + 1) = MethodsTo(n) \cup Range(Entries(Chain[n + 1].methods, n + 1))
  BY <1>1, Zenon DEF MethodsTo
<1> QED
  BY <1>2, <1>3

(* A pointer is a place in the list of a class. *)
LEMMA FieldPlaces ==
  ASSUME NEW p \in AllFields
  PROVE  p[1] \in Nat /\ p[2] \in Nat
<1>1. PICK m \in 1..Len(Chain) : p \in Range(Entries(Chain[m].fields, m))
  BY DEF AllFields, FieldsTo
<1>2. m \in DOMAIN Chain /\ m \in Nat
  BY ListDomain, ChainAssumption
<1>3. PICK i \in DOMAIN Entries(Chain[m].fields, m) : p = Entries(Chain[m].fields, m)[i]
  BY <1>1 DEF Range
<1>4. p = <<m, i>> /\ i \in DOMAIN Chain[m].fields
  BY <1>3 DEF Entries
<1>5. i \in Nat
  BY <1>2, <1>4, ListDomain, ChainAssumption
<1> QED
  BY <1>2, <1>4, <1>5

LEMMA MethodPlaces ==
  ASSUME NEW p \in AllMethods
  PROVE  p[1] \in Nat /\ p[2] \in Nat
<1>1. PICK m \in 1..Len(Chain) : p \in Range(Entries(Chain[m].methods, m))
  BY DEF AllMethods, MethodsTo
<1>2. m \in DOMAIN Chain /\ m \in Nat
  BY ListDomain, ChainAssumption
<1>3. PICK i \in DOMAIN Entries(Chain[m].methods, m) : p = Entries(Chain[m].methods, m)[i]
  BY <1>1 DEF Range
<1>4. p = <<m, i>> /\ i \in DOMAIN Chain[m].methods
  BY <1>3 DEF Entries
<1>5. i \in Nat
  BY <1>2, <1>4, ListDomain, ChainAssumption
<1> QED
  BY <1>2, <1>4, <1>5

(* No class has been through yet. *)
LEMMA GatherNone ==
  ASSUME fieldTable = <<>>, methodTable = <<>>
  PROVE  Gathered(0)
<1>1. Range(<<>>) = {} /\ IsList(<<>>)
  BY DEF Range, IsList
<1>2. FieldsTo(0) = {} /\ MethodsTo(0) = {}
  BY DEF FieldsTo, MethodsTo
<1>3. InOrder(<<>>)
  BY DEF InOrder
<1> QED
  BY <1>1, <1>2, <1>3 DEF Gathered

(* To go through one more class is to have gathered one more. *)
LEMMA GatherOne ==
  ASSUME NEW n \in Nat, n < Len(Chain), Gathered(n),
         fieldTable' = fieldTable \o Entries(Chain[n + 1].fields, n + 1),
         methodTable' = methodTable \o Entries(Chain[n + 1].methods, n + 1)
  PROVE  Gathered(n + 1)'
<1>1. IsList(Chain[n + 1].fields) /\ IsList(Chain[n + 1].methods)
  <2>1. n + 1 \in DOMAIN Chain
    BY ListDomain, ChainAssumption
  <2> QED
    BY <2>1, ChainAssumption
<1>2. Continues(fieldTable', fieldTable, Entries(Chain[n + 1].fields, n + 1))
  <2>1. \A p \in Range(fieldTable) : p[1] \in Nat /\ p[1] < n + 1
    BY FieldsOfNext DEF Gathered
  <2>2. IsList(fieldTable) /\ InOrder(fieldTable) /\ n + 1 \in Nat
    BY DEF Gathered
  <2> QED
    BY <1>1, <2>1, <2>2, AppendEntries
<1>3. Continues(methodTable', methodTable, Entries(Chain[n + 1].methods, n + 1))
  <2>1. \A p \in Range(methodTable) : p[1] \in Nat /\ p[1] < n + 1
    BY MethodsOfNext DEF Gathered
  <2>2. IsList(methodTable) /\ InOrder(methodTable) /\ n + 1 \in Nat
    BY DEF Gathered
  <2> QED
    BY <1>1, <2>1, <2>2, AppendEntries
<1>4. Range(fieldTable') = FieldsTo(n + 1) /\ Range(methodTable') = MethodsTo(n + 1)
  BY <1>2, <1>3, FieldsOfNext, MethodsOfNext DEF Gathered, Continues
<1> QED
  BY <1>2, <1>3, <1>4 DEF Gathered, Continues

(* Sorting leaves every field where the order of the offsets puts it.      *)
LEMMA SortBuilds ==
  ASSUME Gathered(Len(Chain)), methodTable' = methodTable,
         NEW order \in Bijection(DOMAIN fieldTable, DOMAIN fieldTable),
         fieldTable' = [i \in DOMAIN fieldTable |-> fieldTable[order[i]]],
         \A i, j \in DOMAIN fieldTable :
            i < j => FieldAt(fieldTable'[i]).offset <= FieldAt(fieldTable'[j]).offset
  PROVE  Built'
<1> DEFINE D == DOMAIN fieldTable
<1>1. /\ order \in [D -> D] /\ \A i, j \in D : order[i] = order[j] => i = j
      /\ \A k \in D : \E i \in D : order[i] = k
  BY DEF Bijection, Injection, IsInjective, Surjection
<1>2. Len(fieldTable) \in Nat /\ D = 1..Len(fieldTable)
  BY ListDomain DEF Gathered
<1>3. DOMAIN fieldTable' = D /\ \A i \in D : fieldTable'[i] = fieldTable[order[i]]
  OBVIOUS
<1>4. Range(fieldTable) = AllFields
  BY DEF Gathered, AllFields
<1>5. Range(fieldTable') = AllFields
  <2>1. \A i \in D : fieldTable'[i] \in Range(fieldTable)
    BY <1>1, <1>3 DEF Range
  <2>2. \A p \in Range(fieldTable) : \E i \in D : fieldTable'[i] = p
    BY <1>1, <1>3 DEF Range
  <2>3. Range(fieldTable') = {fieldTable'[i] : i \in D}
    BY <1>3 DEF Range
  <2> HIDE DEF D
  <2>4. \A p : p \in Range(fieldTable') <=> p \in Range(fieldTable)
    BY <2>1, <2>2, <2>3
  <2> QED
    BY <1>4, <2>4
<1>6. IsList(fieldTable')
  <2>1. \A i \in D : fieldTable'[i] \in Range(fieldTable')
    BY <1>3 DEF Range
  <2>2. fieldTable' = [i \in 1..Len(fieldTable) |-> fieldTable'[i]]
    BY <1>2
  <2> QED
    BY <1>2, <2>1, <2>2 DEF IsList
<1>7. Ascending(fieldTable')
  <2> SUFFICES ASSUME NEW i \in D, NEW j \in D, i < j
               PROVE  FieldAt(fieldTable'[i]).offset < FieldAt(fieldTable'[j]).offset
    BY <1>3 DEF Ascending
  <2>1. order[i] \in D /\ order[j] \in D /\ order[i] # order[j]
    BY <1>1, <1>2
  <2>2. fieldTable[order[i]] # fieldTable[order[j]]
    <3>1. \A k, l \in D : k < l => Ahead(fieldTable[k], fieldTable[l])
      BY DEF Gathered, InOrder
    <3>2. \A p \in AllFields : ~Ahead(p, p)
      BY FieldPlaces DEF Ahead
    <3>3. fieldTable[order[i]] \in AllFields
      BY <1>4, <2>1 DEF Range
    <3>4. order[i] < order[j] \/ order[j] < order[i]
      BY <1>2, <2>1
    <3> QED
      BY <2>1, <3>1, <3>2, <3>3, <3>4
  <2>3. fieldTable'[i] \in AllFields /\ fieldTable'[j] \in AllFields /\ fieldTable'[i] # fieldTable'[j]
    BY <1>3, <1>4, <2>1, <2>2 DEF Range
  <2>4. FieldAt(fieldTable'[i]).offset <= FieldAt(fieldTable'[j]).offset
    BY <1>3
  <2> QED
    BY <2>3, <2>4, OffsetAssumption
<1> QED
  BY <1>5, <1>6, <1>7 DEF Built, Gathered, AllMethods

-----------------------------------------------------------------------------
(* prepare(). *)

LEMMA TablesKept ==
  ASSUME UNCHANGED tables
  PROVE  Built' = Built /\ Building' = (reached' <= Len(Chain) /\ Gathered(reached'))
  BY DEF tables, Built, Building, Gathered

LEMMA PrepareInit == MetaInit => PrepareInv
<1> SUFFICES ASSUME MetaInit PROVE PrepareInv
  OBVIOUS
<1> USE DEF MetaInit
<1>1. step \in [Client -> {"out", "wait", "gather", "publish", "leave", "in"}]
  OBVIOUS
<1>2. \A t \in Client : step[t] = "out" /\ lock # t
  BY ClientAssumption
<1> QED
  BY <1>1, <1>2 DEF PrepareInv

(* A step of a thread into prepare(), through it or out of it. *)
LEMMA PrepareStep ==
  ASSUME PrepareInv, NEW t \in Client, PrepareNext(t) \/ Leave(t)
  PROVE  PrepareInv'
<1> USE ClientAssumption DEF PrepareInv, Goto
<1>1. CASE CheckPrepared(t)
  <2>1. /\ step[t] = "out" /\ step' = [step EXCEPT ![t] = IF initialized THEN "in" ELSE "wait"]
        /\ UNCHANGED <<initialized, lock, tables, reached>>
    BY <1>1 DEF CheckPrepared
  <2>2. Built' = Built /\ Building' = Building
    BY <2>1, TablesKept DEF Building
  <2>3. \A u \in Client : u # t => step'[u] = step[u]
    BY <2>1
  <2>4. step'[t] = (IF initialized THEN "in" ELSE "wait")
    BY <2>1
  <2> QED
    BY <2>1, <2>2, <2>3, <2>4 DEF tables
<1>2. CASE Lock(t)
  <2>1. CASE initialized
    <3>1. /\ step' = [step EXCEPT ![t] = "leave"] /\ lock' = t /\ lock = NoClient
          /\ reached' = 0 /\ UNCHANGED <<initialized, tables>> /\ Built
      BY <1>2, <2>1 DEF Lock
    <3> QED
      BY <2>1, <3>1, TablesKept DEF tables
  <2>2. CASE ~initialized
    <3>1. Building'
      <4>1. Len(Chain) \in Nat
        BY ListDomain, ChainAssumption
      <4>2. Gathered(0)
        BY <1>2, <2>2, GatherNone DEF Lock
      <4> QED
        BY <1>2, <2>2, <4>1, <4>2 DEF Lock, Building, Gathered, tables
    <3>2. /\ step' = [step EXCEPT ![t] = "gather"] /\ lock' = t /\ lock = NoClient
          /\ reached' = 0 /\ UNCHANGED <<initialized, tables>>
      BY <1>2, <2>2 DEF Lock
    <3> QED
      BY <2>2, <3>1, <3>2, TablesKept DEF tables
  <2> QED
    BY <2>1, <2>2
<1>3. CASE Gather(t)
  <2>1. Building'
    <3>1. /\ reached < Len(Chain) /\ reached' = reached + 1 /\ Gathered(reached)
          /\ fieldTable' = fieldTable \o Entries(Chain[reached + 1].fields, reached + 1)
          /\ methodTable' = methodTable \o Entries(Chain[reached + 1].methods, reached + 1)
      BY <1>3 DEF Gather, Building
    <3>2. Len(Chain) \in Nat
      BY ListDomain, ChainAssumption
    <3>3. PICK n \in Nat : n = reached
      OBVIOUS
    <3>4. Gathered(n + 1)'
      BY <3>1, <3>3, GatherOne
    <3>5. reached' = n + 1 /\ n + 1 <= Len(Chain)
      BY <3>1, <3>2, <3>3
    <3> QED
      BY <3>4, <3>5 DEF Building, Gathered
  <2>2. /\ step[t] = "gather" /\ reached' = reached + 1
        /\ UNCHANGED <<initialized, lock, step>>
    BY <1>3 DEF Gather
  <2>3. ~initialized /\ lock = t /\ \A u \in Client : step[u] \in {"gather", "publish", "leave"} <=> u = t
    BY <2>2
  <2>4. \A u \in Client : step[u] # "publish" /\ step[u] # "in"
    BY <2>2, <2>3
  <2>5. reached' \in Nat
    BY <2>2
  <2> QED
    BY <2>1, <2>2, <2>3, <2>4, <2>5
<1>4. CASE Sort(t)
  <2>1. Built'
    <3>1. reached = Len(Chain)
      <4>1. Len(Chain) \in Nat /\ reached \in Nat
        BY ListDomain, ChainAssumption
      <4>2. reached <= Len(Chain) /\ reached >= Len(Chain)
        BY <1>4 DEF Sort, Building
      <4> QED
        BY <4>1, <4>2
    <3>2. Gathered(Len(Chain)) /\ methodTable' = methodTable
      BY <1>4, <3>1 DEF Sort, Building
    <3>3. PICK order \in Bijection(DOMAIN fieldTable, DOMAIN fieldTable) :
            /\ fieldTable' = [i \in DOMAIN fieldTable |-> fieldTable[order[i]]]
            /\ \A i, j \in DOMAIN fieldTable :
                 i < j => FieldAt(fieldTable'[i]).offset <= FieldAt(fieldTable'[j]).offset
      BY <1>4 DEF Sort
    <3> QED
      BY <3>2, <3>3, SortBuilds
  <2>2. /\ step[t] = "gather" /\ step' = [step EXCEPT ![t] = "publish"]
        /\ UNCHANGED <<initialized, lock, reached>>
    BY <1>4 DEF Sort
  <2>3. ~initialized /\ lock = t /\ \A u \in Client : step[u] \in {"gather", "publish", "leave"} <=> u = t
    BY <2>2
  <2> QED
    BY <2>1, <2>2, <2>3
<1>5. CASE Publish(t)
  BY <1>5, TablesKept DEF Publish, Building
<1>6. CASE Unlock(t)
  BY <1>6, TablesKept DEF Unlock, Building
<1>7. CASE Leave(t)
  BY <1>7, TablesKept DEF Leave, Building
<1> QED
  BY <1>1, <1>2, <1>3, <1>4, <1>5, <1>6, <1>7 DEF PrepareNext

(* Calls and look-ups leave the tables and the lock alone. *)
LEMMA UseStep ==
  ASSUME PrepareInv, UNCHANGED prepareVars
  PROVE  PrepareInv'
  BY TablesKept DEF PrepareInv, prepareVars, Building, tables

LEMMA PrepareInductive == PrepareInv /\ [MetaNext]_metaVars => PrepareInv'
<1> SUFFICES ASSUME PrepareInv, [MetaNext]_metaVars PROVE PrepareInv'
  OBVIOUS
<1>1. CASE UNCHANGED metaVars
  BY <1>1, UseStep DEF metaVars
<1>2. ASSUME NEW t \in Client, PrepareNext(t) \/ Leave(t)
      PROVE  PrepareInv'
  BY <1>2, PrepareStep
<1>3. ASSUME NEW t \in Client,
             InvokeOwn(t) \/ InvokeConst(t) \/ InvokeStatic(t) \/ CreateInstance(t) \/ LookUp(t)
      PROVE  PrepareInv'
  <2>1. UNCHANGED prepareVars
    BY <1>3 DEF InvokeOwn, InvokeConst, InvokeStatic, CreateInstance, LookUp, Calls
  <2> QED
    BY <2>1, UseStep
<1> QED
  BY <1>1, <1>2, <1>3 DEF MetaNext

(* Whoever is past prepare() sees every field and method of the class and  *)
(* its bases once, and the fields sorted (MetaObject.cpp:159).             *)
THEOREM TablesComplete == MetaSpec => []TableComplete
<1>1. PrepareInv => TableComplete
  BY DEF PrepareInv, TableComplete
<1> QED
  BY <1>1, PrepareInit, PrepareInductive, PTL DEF MetaSpec

(* Once the flag is set the tables are never touched again, so that they   *)
(* may be read without the lock.                                           *)
THEOREM TablesStay == MetaSpec => [][initialized => UNCHANGED <<initialized, tables>>]_metaVars
<1>1. PrepareInv /\ [MetaNext]_metaVars
      => [initialized => UNCHANGED <<initialized, tables>>]_metaVars
  <2> SUFFICES ASSUME PrepareInv, MetaNext, initialized
               PROVE  UNCHANGED <<initialized, tables>>
    BY DEF metaVars
  <2>1. PICK t \in Client :
          \/ PrepareNext(t) \/ Leave(t)
          \/ InvokeOwn(t) \/ InvokeConst(t) \/ InvokeStatic(t) \/ CreateInstance(t) \/ LookUp(t)
    BY DEF MetaNext
  <2>2. step[t] \notin {"gather", "publish"}
    BY DEF PrepareInv
  <2>3. CASE PrepareNext(t) \/ Leave(t)
    BY <2>2, <2>3 DEF PrepareNext, CheckPrepared, Lock, Gather, Sort, Publish, Unlock, Leave
  <2>4. CASE ~(PrepareNext(t) \/ Leave(t))
    BY <2>1, <2>4 DEF InvokeOwn, InvokeConst, InvokeStatic, CreateInstance, LookUp, Calls, prepareVars
  <2> QED
    BY <2>3, <2>4
<1> QED
  BY <1>1, PrepareInit, PrepareInductive, PTL DEF MetaSpec

-----------------------------------------------------------------------------
(* Look-ups. *)

(* The first field that is wanted is the one with the least offset. *)
LEMMA FirstField ==
  ASSUME Built, NEW W, W \subseteq AllFields
  PROVE  First(fieldTable, W) =
           {p \in W : \A q \in W : FieldAt(p).offset <= FieldAt(q).offset}
<1> DEFINE D == DOMAIN fieldTable
           off(i) == FieldAt(fieldTable[i]).offset
<1>1. D = 1..Len(fieldTable) /\ Len(fieldTable) \in Nat
  BY ListDomain DEF Built
<1>2. \A i, j \in D : i < j => off(i) < off(j)
  BY DEF Built, Ascending
<1>3. \A i \in D : off(i) \in Int
  BY OffsetAssumption DEF Built, Range
<1>4. \A p \in W : \E i \in D : p = fieldTable[i]
  BY DEF Built, Range
<1>5. ASSUME NEW p \in First(fieldTable, W)
      PROVE  p \in W /\ \A q \in W : FieldAt(p).offset <= FieldAt(q).offset
  <2>1. PICK i \in D : p = fieldTable[i] /\ p \in W /\ \A k \in 1 .. i - 1 : fieldTable[k] \notin W
    BY DEF First
  <2>2. ASSUME NEW q \in W PROVE FieldAt(p).offset <= FieldAt(q).offset
    <3>1. PICK j \in D : q = fieldTable[j]
      BY <1>4
    <3>2. i <= j
      BY <1>1, <2>1, <3>1
    <3>3. off(i) <= off(j)
      BY <1>1, <1>2, <1>3, <3>2
    <3> QED
      BY <2>1, <3>1, <3>3
  <2> QED
    BY <2>1, <2>2
<1>6. ASSUME NEW p \in W, \A q \in W : FieldAt(p).offset <= FieldAt(q).offset
      PROVE  p \in First(fieldTable, W)
  <2>1. PICK i \in D : p = fieldTable[i]
    BY <1>4
  <2>2. ASSUME NEW k \in 1 .. i - 1, fieldTable[k] \in W PROVE FALSE
    <3>1. k \in D /\ k < i
      BY <1>1
    <3>2. off(k) < off(i) /\ off(i) <= off(k)
      BY <1>2, <1>6, <2>1, <2>2, <3>1
    <3> QED
      BY <1>3, <3>1, <3>2
  <2> QED
    BY <2>1, <2>2 DEF First
<1> QED
  BY <1>5, <1>6

(* The first method that is wanted is the one no other comes before. *)
LEMMA FirstMethod ==
  ASSUME Built, NEW W, W \subseteq AllMethods
  PROVE  First(methodTable, W) = {p \in W : \A q \in W : ~Ahead(q, p)}
<1> DEFINE D == DOMAIN methodTable
<1>1. D = 1..Len(methodTable) /\ Len(methodTable) \in Nat
  BY ListDomain DEF Built
<1>2. \A i, j \in D : i < j => Ahead(methodTable[i], methodTable[j])
  BY DEF Built, InOrder
<1>3. \A p \in W : \E i \in D : p = methodTable[i]
  BY DEF Built, Range
<1>4. \A p, q \in W : ~(Ahead(p, q) /\ Ahead(q, p))
  BY MethodPlaces DEF Ahead
<1>5. ASSUME NEW p \in First(methodTable, W)
      PROVE  p \in W /\ \A q \in W : ~Ahead(q, p)
  <2>1. PICK i \in D : p = methodTable[i] /\ p \in W /\ \A k \in 1 .. i - 1 : methodTable[k] \notin W
    BY DEF First
  <2>2. ASSUME NEW q \in W PROVE ~Ahead(q, p)
    <3>1. PICK j \in D : q = methodTable[j]
      BY <1>3
    <3>2. i = j \/ i < j
      BY <1>1, <2>1, <3>1
    <3>3. p = q \/ Ahead(p, q)
      BY <1>2, <2>1, <3>1, <3>2
    <3> QED
      BY <1>4, <2>1, <3>3
  <2> QED
    BY <2>1, <2>2
<1>6. ASSUME NEW p \in W, \A q \in W : ~Ahead(q, p)
      PROVE  p \in First(methodTable, W)
  <2>1. PICK i \in D : p = methodTable[i]
    BY <1>3
  <2>2. \A k \in 1 .. i - 1 : methodTable[k] \notin W
    BY <1>1, <1>2, <1>6, <2>1
  <2> QED
    BY <2>1, <2>2 DEF First
<1> QED
  BY <1>5, <1>6

LEMMA LookUpStep ==
  ASSUME PrepareInv, NEW t \in Client, LookUp(t)
  PROVE  InvocationSound'
<1>1. Built
  BY DEF LookUp, PrepareInv
<1>2. CASE \E name \in FieldNames : call' = [kind |-> "field", key |-> name, found |-> FieldByName(name)]
  <2>1. PICK name : call' = [kind |-> "field", key |-> name, found |-> FieldByName(name)]
    BY <1>2
  <2> DEFINE W == {p \in AllFields : FieldAt(p).name = name}
  <2>2. call'.found = {p \in W : \A q \in W : FieldAt(p).offset <= FieldAt(q).offset}
    <3>1. call'.found = First(fieldTable, W)
      BY <2>1 DEF FieldByName
    <3> HIDE DEF W
    <3>2. W \subseteq AllFields
      BY DEF W
    <3> QED
      BY <1>1, <3>1, <3>2, FirstField
  <2>3. call'.kind = "field" /\ call'.key = name
    BY <2>1
  <2> QED
    BY <2>2, <2>3 DEF InvocationSound, LookUpSound
<1>3. CASE \E name \in MethodNames : call' = [kind |-> "method", key |-> name, found |-> MethodByName(name)]
  <2>1. PICK name : call' = [kind |-> "method", key |-> name, found |-> MethodByName(name)]
    BY <1>3
  <2> DEFINE W == {p \in AllMethods : MethodAt(p).name = name}
  <2>2. call'.found = {p \in W : \A q \in W : ~Ahead(q, p)}
    <3>1. call'.found = First(methodTable, W)
      BY <2>1 DEF MethodByName
    <3> HIDE DEF W
    <3>2. W \subseteq AllMethods
      BY DEF W
    <3> QED
      BY <1>1, <3>1, <3>2, FirstMethod
  <2>3. call'.kind = "method" /\ call'.key = name
    BY <2>1
  <2> QED
    BY <2>2, <2>3 DEF InvocationSound, LookUpSound
<1>4. CASE \E offset \in Offsets : call' = [kind |-> "offset", key |-> offset, found |-> FieldByOffset(offset)]
  <2>1. PICK offset : call' = [kind |-> "offset", key |-> offset, found |-> FieldByOffset(offset)]
    BY <1>4
  <2> DEFINE W == {p \in AllFields : FieldAt(p).offset >= offset}
  <2>2. call'.found = {p \in W : \A q \in W : FieldAt(p).offset <= FieldAt(q).offset}
    <3>1. call'.found = First(fieldTable, W)
      BY <2>1 DEF FieldByOffset
    <3> HIDE DEF W
    <3>2. W \subseteq AllFields
      BY DEF W
    <3> QED
      BY <1>1, <3>1, <3>2, FirstField
  <2>3. call'.kind = "offset" /\ call'.key = offset
    BY <2>1
  <2> QED
    BY <2>2, <2>3 DEF InvocationSound, LookUpSound
<1> QED
  BY <1>2, <1>3, <1>4 DEF LookUp

-----------------------------------------------------------------------------
(* Calls. *)

(* A Variant that holds something either converts or does not bind.        *)
LEMMA CastErrors ==
  ASSUME NEW v, ~IsError(v), NEW type, NEW e \in VariantCasts(v, type), IsError(e)
  PROVE  e.type = "invalid_argument" \/ v = Invalid
<1>1. CASE type = "variant"
  <2>1. e = v
    BY <1>1 DEF VariantCasts, Arithmetic, Integral, Floating
  <2> QED
    BY <2>1
<1>2. CASE type # "variant" /\ v # Invalid
  <2> USE <1>2 DEF VariantCasts
  <2> DEFINE arithmetic == v.type \in Arithmetic
  <2>1. CASE type = "bool" /\ arithmetic
    <3>1. e = VariantOf("bool", Truth(v))
      BY <2>1
    <3> QED
      BY <3>1 DEF VariantOf, IsError
  <2>2. CASE type \in Arithmetic \ {"bool"} /\ arithmetic
    <3> DEFINE numbers == {VariantOf(type, x) : x \in NumberCasts(v, type)}
    <3>1. VariantCasts(v, type) = numbers
      BY <2>2 DEF Arithmetic, Integral, Floating
    <3>2. \E x \in NumberCasts(v, type) : e = VariantOf(type, x)
      BY <3>1, Zenon
    <3> QED
      BY <2>2, <3>2 DEF VariantOf, IsError, Arithmetic, Integral, Floating
  <2>3. CASE type \in Arithmetic /\ ~arithmetic
    <3>1. e = InvalidArgument
      BY <2>3 DEF Arithmetic, Integral, Floating
    <3> QED
      BY <3>1 DEF InvalidArgument, VariantOf
  <2>4. CASE type \notin Arithmetic
    <3>1. type # "bool"
      BY <2>4 DEF Arithmetic, Integral
    <3>2. \/ e = v \/ e = InvalidArgument
          \/ \E x : e = VariantOf("string", x) \/ e = VariantOf("datetime", x)
      BY <2>4, <3>1
    <3> QED
      BY <3>2 DEF InvalidArgument, VariantOf, IsError
  <2> QED
    BY <2>1, <2>2, <2>3, <2>4 DEF Arithmetic, Integral
<1> QED
  BY <1>1, <1>2

(* Unpacking binds the arguments exactly if all of them convert. *)
LEMMA UnpackedMeans ==
  ASSUME NEW args, IsList(args), \A i \in DOMAIN args : ~IsError(args[i]), NEW params
  PROVE  LET converts == \A i \in DOMAIN args : \A v \in VariantCasts(args[i], params[i]) : ~IsError(v)
             answer == Unpacked(args, params)
         IN /\ converts => answer = "bound"
            /\ ~converts => answer # "bound"
            /\ answer \notin {"bound", "invalid_argument"} => \E i \in DOMAIN args : args[i] = Invalid
<1> DEFINE errors(i) == {v.type : v \in {w \in VariantCasts(args[i], params[i]) : IsError(w)}}
           failing == {i \in DOMAIN args : errors(i) # {}}
           first == CHOOSE i \in failing : \A j \in failing : i <= j
           converts == \A i \in DOMAIN args : \A v \in VariantCasts(args[i], params[i]) : ~IsError(v)
<1>1. converts <=> failing = {}
  OBVIOUS
<1>2. Unpacked(args, params) = IF failing = {} THEN "bound" ELSE CHOOSE e \in errors(first) : TRUE
  BY DEF Unpacked
<1>3. CASE failing # {}
  <2>1. failing \subseteq Nat
    BY ListDomain
  <2>2. first \in failing
    <3> HIDE DEF failing
    <3>1. \E i \in failing : \A j \in failing : i <= j
      BY <1>3, <2>1, LeastNatural
    <3> QED
      BY <3>1
  <2>3. Unpacked(args, params) \in errors(first)
    <3> HIDE DEF first
    <3>1. errors(first) # {}
      BY <2>2
    <3> HIDE DEF errors
    <3> QED
      BY <1>2, <1>3, <3>1
  <2>4. PICK e \in VariantCasts(args[first], params[first]) : IsError(e) /\ e.type = Unpacked(args, params)
    BY <2>3
  <2>5. first \in DOMAIN args
    BY <2>2
  <2> HIDE DEF first, failing, errors
  <2>6. e.type = "invalid_argument" \/ args[first] = Invalid
    BY <2>4, <2>5, CastErrors
  <2>7. e.type # "bound"
    BY <2>4 DEF IsError
  <2> QED
    BY <1>1, <1>3, <2>4, <2>5, <2>6, <2>7
<1> QED
  BY <1>1, <1>2, <1>3

MethodIn(i) == MethodAt(methodTable[i])
UnpackedIn(i, c) == Unpacked(c.args, MethodIn(i).params)
Converts(i, c) ==
  \A k \in DOMAIN c.args : \A v \in VariantCasts(c.args[k], MethodIn(i).params[k]) : ~IsError(v)

(* The methods of the loop that are reached by a call and end it.          *)
Takers(c) ==
  {i \in DOMAIN methodTable : /\ Answers(MethodIn(i), c.kind, c.name, c.args, c.const)
                              /\ UnpackedIn(i, c) # "invalid_argument"}

LEMMA FirstTaker ==
  ASSUME Built, NEW c, c.result = Chosen(c.kind, c.name, c.args, c.const), Takers(c) # {}
  PROVE  \E first \in Takers(c) :
           /\ \A j \in Takers(c) : first <= j
           /\ UnpackedIn(first, c) = "bound" => c.result = [outcome |-> "called", method |-> methodTable[first]]
           /\ UnpackedIn(first, c) # "bound" => c.result = [outcome |-> "thrown"]
<1> DEFINE first == CHOOSE i \in Takers(c) : \A j \in Takers(c) : i <= j
<1>1. Takers(c) \subseteq Nat
  BY ListDomain DEF Takers, Built
<1>2. first \in Takers(c) /\ \A j \in Takers(c) : first <= j
  <2>1. \E i \in Takers(c) : \A j \in Takers(c) : i <= j
    BY <1>1, LeastNatural
  <2> QED
    BY <2>1
<1>3. c.result = IF UnpackedIn(first, c) = "bound" THEN [outcome |-> "called", method |-> methodTable[first]]
                 ELSE [outcome |-> "thrown"]
  BY DEF Chosen, Takers, UnpackedIn, MethodIn
<1> QED
  BY <1>2, <1>3

(* What the loop over the methods comes to. *)
LEMMA ChoiceSound ==
  ASSUME Built, NEW c, c.args \in Arguments,
         c.kind \in {"own", "static", "constructor"}, c.const => c.kind = "own",
         c.result = Chosen(c.kind, c.name, c.args, c.const)
  PROVE  /\ c.result.outcome = "called" =>
              /\ Takes(MethodAt(c.result.method), c)
              /\ \A p \in AllMethods : Takes(MethodAt(p), c) => c.result.method[1] <= p[1]
         /\ c.result.outcome = "not found" => \A p \in AllMethods : ~Takes(MethodAt(p), c)
         /\ c.result.outcome \in {"called", "not found"} \/ \E i \in DOMAIN c.args : c.args[i] = Invalid
<1> DEFINE D == DOMAIN methodTable
<1>1. D = 1..Len(methodTable) /\ Len(methodTable) \in Nat
  BY ListDomain DEF Built
<1>2. IsList(c.args) /\ \A i \in DOMAIN c.args : ~IsError(c.args[i])
  BY ArgumentAssumption
<1>3. ASSUME NEW i
      PROVE  /\ Converts(i, c) => UnpackedIn(i, c) = "bound"
             /\ UnpackedIn(i, c) = "bound" => Converts(i, c)
             /\ UnpackedIn(i, c) \notin {"bound", "invalid_argument"} =>
                  \E k \in DOMAIN c.args : c.args[k] = Invalid
  BY <1>2, UnpackedMeans DEF Converts, UnpackedIn
<1>4. \A i \in D : Takes(MethodIn(i), c) <=> i \in Takers(c) /\ Converts(i, c)
  <2> TAKE i \in D
  <2>1. Takes(MethodIn(i), c) <=> Answers(MethodIn(i), c.kind, c.name, c.args, c.const) /\ Converts(i, c)
    BY DEF Takes, Answers, Converts
  <2>2. Converts(i, c) => UnpackedIn(i, c) # "invalid_argument"
    BY <1>3
  <2> QED
    BY <2>1, <2>2 DEF Takers
<1>5. \A p \in AllMethods : \E i \in D : p = methodTable[i]
  BY DEF Built, Range
<1>6. Takers(c) \subseteq D /\ \A i \in Takers(c) : UnpackedIn(i, c) # "invalid_argument"
  BY DEF Takers
<1>7. CASE Takers(c) = {}
  <2>1. c.result.outcome = "not found"
    <3> DEFINE answer == [outcome |-> "not found"]
    <3>1. c.result = answer
      BY <1>7 DEF Chosen, Takers, UnpackedIn, MethodIn
    <3>2. answer.outcome = "not found"
      OBVIOUS
    <3> HIDE DEF answer
    <3> QED
      BY <3>1, <3>2
  <2>2. \A p \in AllMethods : ~Takes(MethodAt(p), c)
    BY <1>4, <1>5, <1>7 DEF MethodIn
  <2> QED
    BY <2>1, <2>2
<1>8. CASE Takers(c) # {}
  <2>1. PICK first \in Takers(c) :
          /\ \A j \in Takers(c) : first <= j
          /\ UnpackedIn(first, c) = "bound" => c.result = [outcome |-> "called", method |-> methodTable[first]]
          /\ UnpackedIn(first, c) # "bound" => c.result = [outcome |-> "thrown"]
    BY <1>8, FirstTaker
  <2>2. first \in D /\ UnpackedIn(first, c) # "invalid_argument"
    BY <1>6, <2>1
  <2>3. CASE UnpackedIn(first, c) = "bound"
    <3>1. c.result.outcome = "called" /\ c.result.method = methodTable[first]
      BY <2>1, <2>3
    <3>2. Takes(MethodAt(c.result.method), c)
      BY <1>3, <1>4, <2>1, <2>2, <2>3, <3>1 DEF MethodIn
    <3>3. ASSUME NEW p \in AllMethods, Takes(MethodAt(p), c)
          PROVE  methodTable[first][1] <= p[1]
      <4>1. PICK i \in D : p = methodTable[i]
        BY <1>5
      <4>2. first <= i
        BY <1>4, <2>1, <3>3, <4>1 DEF MethodIn
      <4>3. methodTable[first] = p \/ Ahead(methodTable[first], p)
        <5>1. first = i \/ first < i
          BY <1>1, <2>2, <4>1, <4>2
        <5> QED
          BY <2>2, <4>1, <5>1 DEF Built, InOrder
      <4>4. methodTable[first] \in AllMethods
        BY <2>2 DEF Built, Range
      <4> QED
        BY <4>3, <4>4, MethodPlaces DEF Ahead
    <3> QED
      BY <3>1, <3>2, <3>3
  <2>4. CASE UnpackedIn(first, c) # "bound"
    <3>1. c.result.outcome = "thrown"
      BY <2>1, <2>4
    <3>2. \E k \in DOMAIN c.args : c.args[k] = Invalid
      BY <1>3, <2>2, <2>4
    <3> QED
      BY <3>1, <3>2
  <2> QED
    BY <2>3, <2>4
<1> QED
  BY <1>7, <1>8

LEMMA CallStep ==
  ASSUME PrepareInv, NEW t \in Client, NEW kind \in {"own", "static", "constructor"},
         NEW name, NEW constness \in BOOLEAN, constness => kind = "own",
         Calls(t, kind, name, constness)
  PROVE  InvocationSound'
<1>1. Built
  BY DEF Calls, PrepareInv
<1>2. PICK args \in Arguments :
        call' = [kind |-> kind, name |-> name, args |-> args, const |-> constness,
                 result |-> Chosen(kind, name, args, constness)]
  BY DEF Calls
<1>3. PICK c : c = call'
  OBVIOUS
<1>4. /\ c.kind = kind /\ c.name = name /\ c.args = args /\ c.const = constness
      /\ c.result = Chosen(kind, name, args, constness)
  BY <1>2, <1>3
<1> HIDE <1>2
<1>5. /\ c.result.outcome = "called" =>
           /\ Takes(MethodAt(c.result.method), c)
           /\ \A p \in AllMethods : Takes(MethodAt(p), c) => c.result.method[1] <= p[1]
      /\ c.result.outcome = "not found" => \A p \in AllMethods : ~Takes(MethodAt(p), c)
      /\ c.result.outcome \in {"called", "not found"} \/ \E i \in DOMAIN c.args : c.args[i] = Invalid
  BY <1>1, <1>4, ChoiceSound
<1>6. CallSound'
  BY <1>3, <1>5 DEF CallSound
<1>7. call'.kind \in {"own", "static", "constructor"}
  BY <1>3, <1>4
<1> QED
  BY <1>6, <1>7 DEF InvocationSound

(* Every look-up and every call comes to what the descriptors of the class *)
(* and its bases say, whichever thread prepared the tables                 *)
(* (MetaObject.cpp:39, Object.cpp:151).                                    *)
THEOREM CallsReachTheClosest == MetaSpec => []InvocationSound
<1>1. MetaInit => InvocationSound
  BY DEF MetaInit, NoCall, InvocationSound, LookUpSound
<1>2. PrepareInv /\ InvocationSound /\ [MetaNext]_metaVars => InvocationSound'
  <2> SUFFICES ASSUME PrepareInv, InvocationSound, [MetaNext]_metaVars
               PROVE  InvocationSound'
    OBVIOUS
  <2>1. CASE call' = call
    BY <2>1 DEF InvocationSound, CallSound, LookUpSound
  <2>2. CASE call' = NoCall
    BY <2>2 DEF NoCall, InvocationSound, LookUpSound
  <2>3. ASSUME NEW t \in Client, InvokeOwn(t) PROVE InvocationSound'
    BY <2>3, CallStep DEF InvokeOwn
  <2>4. ASSUME NEW t \in Client, InvokeConst(t) PROVE InvocationSound'
    BY <2>4, CallStep DEF InvokeConst
  <2>5. ASSUME NEW t \in Client, InvokeStatic(t) PROVE InvocationSound'
    BY <2>5, CallStep DEF InvokeStatic
  <2>6. ASSUME NEW t \in Client, CreateInstance(t) PROVE InvocationSound'
    BY <2>6, CallStep DEF CreateInstance
  <2>7. ASSUME NEW t \in Client, LookUp(t) PROVE InvocationSound'
    BY <2>7, LookUpStep
  <2>8. ASSUME NEW t \in Client, PrepareNext(t) PROVE call' = call
    BY <2>8 DEF PrepareNext, CheckPrepared, Lock, Gather, Sort, Publish, Unlock
  <2>9. ASSUME NEW t \in Client, Leave(t) PROVE call' = NoCall
    BY <2>9 DEF Leave
  <2>10. CASE UNCHANGED metaVars
    BY <2>1, <2>10 DEF metaVars
  <2> QED
    BY <2>1, <2>2, <2>3, <2>4, <2>5, <2>6, <2>7, <2>8, <2>9, <2>10 DEF MetaNext
<1> QED
  BY <1>1, <1>2, PrepareInit, PrepareInductive, PTL DEF MetaSpec

-----------------------------------------------------------------------------
(* Objects: conversions of numbers.                                        *)

LEMMA CutWhole ==
  /\ \A x \in Int : Cut(x) \in Int
  /\ \A n \in Int : Cut(2 * n) = n
  BY DEF Cut

LEMMA WrappedInRange ==
  ASSUME NEW type \in Integral, NEW n \in Int
  PROVE  /\ Wrapped(type, n) \in Int /\ Holds(type, Wrapped(type, n))
         /\ Holds(type, n) => Wrapped(type, n) = n
<1> DEFINE low == Lowest(type)
           count == Count(type)
<1>1. low \in Int /\ count \in Nat /\ count > 0
  BY WidthAssumption
<1>2. (n - low) % count \in 0..(count - 1)
  BY <1>1
<1>3. low <= n /\ n < low + count => (n - low) % count = n - low
  BY <1>1
<1> QED
  BY <1>1, <1>2, <1>3 DEF Wrapped, Holds

LEMMA NumberCastsTyped ==
  ASSUME NEW v, NEW type \in Arithmetic, v.type \in Arithmetic, Number(v.type, v.of)
  PROVE  \A x \in NumberCasts(v, type) : Number(type, x)
<1>1. v.of \in Int /\ Cut(v.of) \in Int
  BY CutWhole DEF Number
<1>2. CASE type \in Floating
  BY <1>1, <1>2 DEF NumberCasts, Number, Floating, Integral
<1>3. CASE type \in Integral
  <2>1. Lowest(type) \in Int /\ Count(type) \in Nat
    BY <1>3, WidthAssumption
  <2>2. Wrapped(type, Cut(v.of)) \in Int /\ Holds(type, Wrapped(type, Cut(v.of)))
    BY <1>1, <1>3, WrappedInRange
  <2>3. \A n \in Int : Holds(type, n) => Number(type, 2 * n)
    BY CutWhole DEF Number
  <2>4. \A n \in Lowest(type)..(Lowest(type) + Count(type) - 1) : n \in Int /\ Holds(type, n)
    BY <2>1 DEF Holds
  <2>5. type \notin Floating
    BY <1>3 DEF Integral, Floating
  <2> QED
    BY <2>2, <2>3, <2>4, <2>5 DEF NumberCasts
<1> QED
  BY <1>2, <1>3 DEF Arithmetic

LEMMA NumberCastsSame ==
  ASSUME NEW v, NEW type \in Arithmetic, v.type = type, Number(type, v.of)
  PROVE  NumberCasts(v, type) = {v.of}
<1>1. CASE type \in Floating
  BY <1>1 DEF NumberCasts
<1>2. CASE type \in Integral
  <2>1. Cut(v.of) \in Int /\ 2 * Cut(v.of) = v.of /\ Wrapped(type, Cut(v.of)) = Cut(v.of)
    BY <1>2, CutWhole, WrappedInRange DEF Number
  <2> QED
    BY <1>2, <2>1 DEF NumberCasts, Integral, Floating
<1> QED
  BY <1>1, <1>2 DEF Arithmetic

LEMMA BoolNumbers ==
  \A x : Number("bool", x) <=> x = 0 \/ x = 2
<1>1. \A x : Number("bool", x) => x = 0 \/ x = 2
  BY DEF Number, Holds, Lowest, Count, Integral, Cut
<1>2. Number("bool", 0) /\ Number("bool", 2)
  BY DEF Number, Holds, Lowest, Count, Integral, Cut
<1> QED
  BY <1>1, <1>2

-----------------------------------------------------------------------------
(* Casts. *)

Castable == Arithmetic \cup {"string", "datetime"}

LEMMA CastsTyped ==
  ASSUME NEW v, VariantValue(v), NEW type \in Castable
  PROVE  \A w \in VariantCasts(v, type) : IsError(w) \/ Typed(type, w)
<1>1. v.type \in Arithmetic => Number(v.type, v.of)
  BY DEF VariantValue, Simple, Typed, ArrayVariant, VariantOf, Invalid, Arithmetic, Integral, Floating
<1>2. CASE v = Invalid
  <2>1. type # "variant"
    BY DEF Castable, Arithmetic, Integral, Floating
  <2>2. VariantCasts(v, type) = {RuntimeError}
    BY <1>2, <2>1 DEF VariantCasts, Invalid, VariantOf, RuntimeError, Arithmetic, Integral, Floating
  <2> QED
    BY <2>2 DEF IsError, RuntimeError, VariantOf
<1>3. CASE v # Invalid /\ type = "bool"
  BY <1>3, <1>1, BoolNumbers DEF VariantCasts, Truth, Typed, VariantOf, IsError, InvalidArgument, Arithmetic, Integral, Floating
<1>4. CASE v # Invalid /\ type \in Arithmetic \ {"bool"}
  <2>1. CASE v.type \in Arithmetic
    <3>1. VariantCasts(v, type) = {VariantOf(type, x) : x \in NumberCasts(v, type)}
      BY <1>4, <2>1 DEF VariantCasts, Arithmetic, Integral, Floating
    <3>2. \A x \in NumberCasts(v, type) : Number(type, x)
      BY <1>1, <1>4, <2>1, NumberCastsTyped
    <3>3. \A x : Number(type, x) => Typed(type, VariantOf(type, x))
      BY <1>4 DEF Typed, VariantOf, Arithmetic, Integral, Floating
    <3> QED
      BY <3>1, <3>2, <3>3
  <2>2. CASE v.type \notin Arithmetic
    BY <1>4, <2>2 DEF VariantCasts, IsError, InvalidArgument, VariantOf, Arithmetic, Integral, Floating
  <2> QED
    BY <2>1, <2>2
<1>5. CASE v # Invalid /\ type \in {"string", "datetime"}
  BY <1>5 DEF VariantCasts, IsError, InvalidArgument, Typed, VariantOf, Arithmetic, Integral, Floating, VariantValue, Simple, ArrayVariant
<1> QED
  BY <1>2, <1>3, <1>4, <1>5 DEF Castable

LEMMA CastsSame ==
  ASSUME NEW v, NEW type \in Castable, Typed(type, v)
  PROVE  VariantCasts(v, type) = {v}
<1>1. v = VariantOf(type, v.of) /\ v.type = type /\ v # Invalid
  BY DEF Typed, VariantOf, Castable, Invalid, Arithmetic, Integral, Floating
<1>2. CASE type = "bool"
  BY <1>1, <1>2, BoolNumbers DEF VariantCasts, Truth, Typed, VariantOf, Arithmetic, Integral, Floating
<1>3. CASE type \in Arithmetic \ {"bool"}
  <2>1. VariantCasts(v, type) = {VariantOf(type, x) : x \in NumberCasts(v, type)}
    BY <1>1, <1>3 DEF VariantCasts, Arithmetic, Integral, Floating
  <2>2. NumberCasts(v, type) = {v.of}
    BY <1>1, <1>3, NumberCastsSame DEF Typed
  <2> QED
    BY <1>1, <2>1, <2>2
<1>4. CASE type \in {"string", "datetime"}
  BY <1>1, <1>4 DEF VariantCasts, TextOf, Arithmetic, Integral, Floating
<1> QED
  BY <1>2, <1>3, <1>4 DEF Castable

-----------------------------------------------------------------------------
(* Fields.                                                                 *)


LEMMA FieldSetHolds ==
  ASSUME NEW f, Declared(f), NEW v, VariantValue(v), NEW w \in FieldSet(f, v)
  PROVE  IsError(w) \/ FieldHolds(f, w)
<1>1. CASE f.type \in {"object", "array"}
  BY <1>1 DEF FieldSet, IsError, RuntimeError, VariantOf
<1>2. CASE f.type \notin {"object", "array"} /\ f.nullable /\ v = Invalid
  BY <1>2 DEF FieldSet, FieldHolds
<1>3. CASE f.type \notin {"object", "array"} /\ ~(f.nullable /\ v = Invalid)
  <2>1. CASE f.type = "enum"
    <3>1. PICK c \in VariantCasts(v, "uint") : w = IF IsError(c) THEN c ELSE VariantOf("enum", Cut(c.of))
      BY <1>3, <2>1 DEF FieldSet
    <3>2. "uint" \in Castable
      BY DEF Castable, Arithmetic, Integral
    <3>3. IsError(c) \/ Typed("uint", c)
      BY <3>1, <3>2, CastsTyped
    <3>4. CASE Typed("uint", c) /\ ~IsError(c)
      <4>1. Cut(c.of) \in Int /\ Holds("uint", Cut(c.of))
        BY <3>4, CutWhole DEF Typed, Number, Integral, Arithmetic
      <4>2. w = VariantOf("enum", Cut(c.of))
        BY <3>1, <3>4
      <4>3. Typed("enum", w)
        BY <4>1, <4>2 DEF Typed, VariantOf, Arithmetic, Integral, Floating
      <4> QED
        BY <2>1, <4>3 DEF FieldHolds, ValueOf
    <3> QED
      BY <3>1, <3>3, <3>4
  <2>2. CASE f.type = "variant"
    BY <1>3, <2>2 DEF FieldSet, VariantCasts, FieldHolds, ValueOf, Arithmetic, Integral, Floating
  <2>3. CASE f.type \notin {"enum", "variant"}
    <3>1. f.type \in Castable
      BY <1>3, <2>3 DEF Declared, Castable, Plain
    <3>2. FieldSet(f, v) = VariantCasts(v, f.type)
      BY <1>3, <2>3 DEF FieldSet
    <3>3. IsError(w) \/ Typed(f.type, w)
      BY <3>1, <3>2, CastsTyped
    <3> QED
      BY <1>3, <2>3, <3>3 DEF FieldHolds, ValueOf
  <2> QED
    BY <2>1, <2>2, <2>3
<1> QED
  BY <1>1, <1>2, <1>3

LEMMA EnumAsUint ==
  ASSUME NEW v, Typed("enum", v)
  PROVE  /\ Typed("uint", VariantOf("uint", 2 * v.of)) /\ Cut(2 * v.of) = v.of
         /\ v = VariantOf("enum", v.of)
<1>1. v.of \in Int /\ Holds("uint", v.of) /\ v = VariantOf("enum", v.of)
  BY DEF Typed, Arithmetic, Integral, Floating
<1>2. Cut(2 * v.of) = v.of
  BY <1>1, CutWhole
<1>3. Number("uint", 2 * v.of)
  BY <1>1, <1>2 DEF Number
<1> QED
  BY <1>1, <1>2, <1>3 DEF Typed, VariantOf, Arithmetic, Integral, Floating

LEMMA FieldValueHolds ==
  ASSUME NEW f, Declared(f), NEW v, FieldHolds(f, v)
  PROVE  IsError(FieldValue(f, v)) \/ VariantValue(FieldValue(f, v))
<1>1. CASE f.type \in {"object", "array"}
  BY <1>1 DEF FieldValue, IsError, RuntimeError, VariantOf
<1>2. CASE f.type \notin {"object", "array"} /\ v = Unset
  BY <1>2 DEF FieldValue, VariantValue, Simple
<1>3. CASE f.type \notin {"object", "array"} /\ v # Unset
  <2>1. CASE f.type = "enum"
    <3>1. Typed("enum", v)
      BY <1>3, <2>1 DEF FieldHolds, ValueOf
    <3>2. Typed("uint", VariantOf("uint", 2 * v.of))
      BY <3>1, EnumAsUint
    <3>3. FieldValue(f, v) = VariantOf("uint", 2 * v.of)
      BY <1>3, <2>1 DEF FieldValue
    <3> QED
      BY <3>2, <3>3 DEF VariantValue, Simple, VariantOf, Plain, Arithmetic, Integral
  <2>2. CASE f.type = "variant"
    BY <1>3, <2>2 DEF FieldValue, FieldHolds, ValueOf
  <2>3. CASE f.type \notin {"enum", "variant"}
    <3>1. f.type \in Plain /\ Typed(f.type, v) /\ FieldValue(f, v) = v
      BY <1>3, <2>3 DEF FieldValue, FieldHolds, ValueOf, Declared
    <3>2. v.type = f.type
      BY <3>1 DEF Typed, VariantOf
    <3> QED
      BY <3>1, <3>2 DEF VariantValue, Simple
  <2> QED
    BY <2>1, <2>2, <2>3
<1> QED
  BY <1>1, <1>2, <1>3

(* What getProperty gives, setProperty takes back.                         *)
LEMMA FieldTakenBack ==
  ASSUME NEW f, Declared(f), NEW v, FieldHolds(f, v), f.type \notin {"object", "array"}
  PROVE  FieldSet(f, FieldValue(f, v)) = {IF f.nullable /\ v = Invalid THEN Unset ELSE v}
<1>1. CASE v = Unset
  <2>1. ~ValueOf(f, v)
    <3>1. v.type = "unset"
      BY <1>1 DEF Unset, VariantOf
    <3>2. f.type # "variant" => (Typed(f.type, v) => v.type = f.type)
      BY DEF Typed, VariantOf
    <3>3. ~VariantValue(v)
      BY <3>1 DEF VariantValue, Simple, Invalid, VariantOf, Plain, Arithmetic, Integral, Floating, ArrayVariant
    <3> QED
      BY <3>1, <3>2, <3>3 DEF ValueOf, Declared, Plain, Arithmetic, Integral, Floating
  <2>2. f.nullable
    BY <2>1 DEF FieldHolds
  <2>3. FieldValue(f, v) = Invalid
    BY <1>1 DEF FieldValue
  <2>4. v # Invalid
    BY <1>1 DEF Unset, Invalid, VariantOf
  <2> QED
    BY <1>1, <2>2, <2>3, <2>4 DEF FieldSet
<1>2. CASE v # Unset
  <2>0. ValueOf(f, v)
    BY <1>2 DEF FieldHolds
  <2>1. CASE f.type = "enum"
    <3>1. Typed("enum", v)
      BY <2>0, <2>1 DEF ValueOf
    <3> DEFINE u == VariantOf("uint", 2 * v.of)
    <3>2. Typed("uint", u) /\ Cut(2 * v.of) = v.of /\ v = VariantOf("enum", v.of)
      BY <3>1, EnumAsUint
    <3>3. FieldValue(f, v) = u /\ u # Invalid /\ u.of = 2 * v.of /\ ~IsError(u) /\ v # Invalid
      BY <1>2, <2>1, <3>2 DEF FieldValue, Invalid, VariantOf, IsError
    <3>4. VariantCasts(u, "uint") = {u}
      BY <3>2, CastsSame DEF Castable, Arithmetic, Integral
    <3>5. FieldSet(f, u) = {IF IsError(w) THEN w ELSE VariantOf("enum", Cut(w.of)) : w \in VariantCasts(u, "uint")}
      BY <2>1, <3>3 DEF FieldSet
    <3>6. FieldSet(f, u) = {IF IsError(u) THEN u ELSE VariantOf("enum", Cut(u.of))}
      BY <3>4, <3>5
    <3> QED
      BY <3>2, <3>3, <3>6
  <2>2. CASE f.type = "variant"
    BY <1>2, <2>2 DEF FieldValue, FieldSet, VariantCasts, Arithmetic, Integral, Floating
  <2>3. CASE f.type \notin {"enum", "variant"}
    <3>1. f.type \in Castable /\ Typed(f.type, v) /\ FieldValue(f, v) = v
      BY <1>2, <2>0, <2>3 DEF FieldValue, ValueOf, Declared, Castable, Plain
    <3>2. v # Invalid
      BY <3>1 DEF Typed, VariantOf, Invalid, Castable, Arithmetic, Integral, Floating
    <3>3. FieldSet(f, v) = VariantCasts(v, f.type)
      BY <2>3, <3>2 DEF FieldSet
    <3> QED
      BY <3>1, <3>2, <3>3, CastsSame
  <2> QED
    BY <2>1, <2>2, <2>3
<1> QED
  BY <1>1, <1>2

-----------------------------------------------------------------------------
(* What reading gives: an exception, or a value of the type.               *)

LEMMA IntegerTyped ==
  ASSUME NEW j, Scalar(j), NEW type \in Integral
  PROVE  Integer(j, type) = Unread \/ Typed(type, Integer(j, type))
BY DEF Integer, Scalar, Typed, Number, VariantOf, Integral, Arithmetic, Floating

LEMMA NestedTyped ==
  ASSUME NEW j, Flat(j)
  PROVE  Nested(j) = Unread \/ Typed("object", Nested(j))
<1> DEFINE inner == IF j.json = "object" THEN Integer(j.of.field, "int") ELSE Unread
<1>1. CASE IsError(inner)
  BY <1>1 DEF Nested
<1>2. CASE ~IsError(inner)
  <2>1. j.json = "object" /\ inner = Integer(j.of.field, "int")
    BY <1>2 DEF IsError, Unread, RuntimeError, VariantOf
  <2>2. Typed("int", inner)
    BY <1>2, <2>1, IntegerTyped DEF Flat, IsError, Unread, RuntimeError, VariantOf, Integral
  <2>3. inner = VariantOf("int", inner.of) /\ Number("int", inner.of)
    BY <2>2 DEF Typed, Arithmetic, Integral
  <2>4. Nested(j) = VariantOf("object", [class |-> "Sub", field |-> inner])
    BY <1>2 DEF Nested
  <2> HIDE DEF inner
  <2>5. Nested(j).of = [class |-> "Sub", field |-> inner]
    BY <2>4 DEF VariantOf
  <2>6. Nested(j).of.field = inner
    BY <2>5
  <2> QED
    BY <2>3, <2>4, <2>5, <2>6 DEF Typed, Arithmetic, Integral, Floating
<1> QED
  BY <1>1, <1>2

LEMMA UnreadIsError ==
  IsError(Unread)
BY DEF IsError, Unread, RuntimeError, VariantOf

LEMMA TypedIsSimple ==
  ASSUME NEW type \in Plain, NEW v, Typed(type, v)
  PROVE  Simple(v) /\ v.type = type
BY DEF Typed, Simple, VariantOf

LEMMA PlainVariantSimple ==
  ASSUME NEW j, Flat(j)
  PROVE  IsError(PlainVariant(j)) \/ Simple(PlainVariant(j))
<1> USE UnreadIsError
<1>1. CASE j.json = "null"
  BY <1>1 DEF PlainVariant, Simple
<1>2. CASE j.json = "bool"
  <2>1. PlainVariant(j) = VariantOf("bool", j.of) /\ Number("bool", j.of)
    BY <1>2 DEF PlainVariant, Flat, Scalar
  <2>2. Typed("bool", PlainVariant(j))
    BY <2>1 DEF Typed, VariantOf
  <2> QED
    BY <2>2, TypedIsSimple DEF Plain, Arithmetic, Integral
<1>3. CASE j.json \in {"int", "uint"}
  <2>1. PlainVariant(j) = Integer(j, j.json)
    BY <1>3 DEF PlainVariant
  <2>2. j.json \in Integral
    BY <1>3 DEF Integral
  <2> QED
    BY <2>1, <2>2, IntegerTyped, TypedIsSimple DEF Flat, Plain, Arithmetic
<1>4. CASE j.json = "real"
  <2>1. PlainVariant(j) = VariantOf("double", j.of) /\ j.of \in Int
    BY <1>4 DEF PlainVariant, Flat, Scalar
  <2>2. Typed("double", PlainVariant(j))
    BY <2>1 DEF Typed, VariantOf, Number, Integral
  <2> QED
    BY <2>2, TypedIsSimple DEF Plain, Arithmetic, Floating
<1>5. CASE j.json = "string"
  <2>1. Typed("string", PlainVariant(j))
    BY <1>5 DEF PlainVariant, Typed, VariantOf, Arithmetic, Integral, Floating
  <2> QED
    BY <2>1, TypedIsSimple DEF Plain
<1>6. CASE j.json = "object"
  BY <1>6, NestedTyped, TypedIsSimple DEF PlainVariant, Plain
<1>7. CASE j.json \notin {"null", "bool", "int", "uint", "real", "string", "object"}
  BY <1>7 DEF PlainVariant
<1> QED
  BY <1>1, <1>2, <1>3, <1>4, <1>5, <1>6, <1>7

LEMMA EnumFromTyped ==
  ASSUME NEW j, Flat(j)
  PROVE  IsError(EnumFrom(j)) \/ Typed("enum", EnumFrom(j))
<1>1. CASE j.json = "string"
  <2>1. \A n \in {EnumDefault} \cup Members(EnumNames) : Typed("enum", VariantOf("enum", n))
    BY EnumAssumption DEF Typed, VariantOf, Arithmetic, Integral, Floating
  <2> QED
    BY <1>1, <2>1 DEF EnumFrom, Members
<1>2. CASE j.json \in {"int", "uint"} /\ Holds("uint", Cut(j.of))
  <2>1. Cut(j.of) \in Int
    BY <1>2, CutWhole DEF Flat, Scalar
  <2> QED
    BY <1>2, <2>1 DEF EnumFrom, Typed, VariantOf, Arithmetic, Integral, Floating
<1>3. CASE j.json # "string" /\ ~(j.json \in {"int", "uint"} /\ Holds("uint", Cut(j.of)))
  BY <1>3, UnreadIsError DEF EnumFrom
<1> QED
  BY <1>1, <1>2, <1>3

LEMMA ValueFromTyped ==
  ASSUME NEW j, Flat(j), NEW type \in Plain \cup {"enum"}
  PROVE  IsError(ValueFrom(j, type)) \/ Typed(type, ValueFrom(j, type))
<1> USE UnreadIsError
<1>1. CASE type = "bool"
  BY <1>1 DEF ValueFrom, Flat, Scalar, Typed, VariantOf, Integral, Floating, Arithmetic
<1>2. CASE type \in Integral \ {"bool"}
  <2>1. ValueFrom(j, type) = Integer(j, type)
    BY <1>2 DEF ValueFrom, Integral, Floating
  <2> QED
    BY <1>2, <2>1, IntegerTyped DEF Flat
<1>3. CASE type \in Floating
  <2>1. ValueFrom(j, type) = IF j.json \in {"int", "uint", "real"} THEN VariantOf(type, j.of) ELSE Unread
    BY <1>3 DEF ValueFrom, Integral, Floating
  <2>2. j.json \in {"int", "uint", "real"} => j.of \in Int
    BY DEF Flat, Scalar
  <2> QED
    BY <1>3, <2>1, <2>2 DEF Typed, VariantOf, Number, Integral, Floating, Arithmetic
<1>4. CASE type = "string"
  BY <1>4 DEF ValueFrom, Typed, VariantOf, Integral, Floating, Arithmetic
<1>5. CASE type = "datetime"
  BY <1>5 DEF ValueFrom, Typed, VariantOf, Integral, Floating, Arithmetic, NoDate
<1>6. CASE type = "enum"
  <2>1. ValueFrom(j, type) = EnumFrom(j)
    BY <1>6 DEF ValueFrom, Integral, Floating
  <2> QED
    BY <1>6, <2>1, EnumFromTyped
<1>7. CASE type = "object"
  <2>1. ValueFrom(j, type) = Nested(j)
    BY <1>7 DEF ValueFrom, Integral, Floating
  <2> QED
    BY <1>7, <2>1, NestedTyped
<1> QED
  BY <1>1, <1>2, <1>3, <1>4, <1>5, <1>6, <1>7 DEF Plain, Arithmetic

LEMMA ArrayOver ==
  ASSUME NEW s, s \in Seq(Members(s)), NEW g, g = [k \in DOMAIN s |-> g[k]]
  PROVE  ArrayVariant(VariantOf("array", g)) /\ DOMAIN g = DOMAIN s /\ VariantOf("array", g).of = g
<1>1. Len(s) \in Nat /\ DOMAIN s = 1..Len(s)
  OBVIOUS
<1>2. g \in [1..Len(s) -> Members(g)]
  BY <1>1 DEF Members
<1>3. g \in Seq(Members(g))
  BY <1>1, <1>2
<1> QED
  BY <1>3 DEF ArrayVariant, VariantOf

(* Elements of arrays in a text. *)
LEMMA ElementsOfText ==
  ASSUME NEW j, JsonValue(j), j.json = "array"
  PROVE  /\ j.of \in Seq(Members(j.of))
         /\ \A k \in DOMAIN j.of : JsonItem(j.of[k]) /\ Flat(j.of[k])
BY DEF JsonValue, JsonItem

LEMMA ItemIsValue ==
  ASSUME NEW j, JsonItem(j)
  PROVE  JsonValue(j)
BY DEF JsonItem, JsonValue

LEMMA VariantFromValue ==
  ASSUME NEW j, JsonValue(j)
  PROVE  IsError(VariantFrom(j)) \/ VariantValue(VariantFrom(j))
<1>1. CASE j.json # "array"
  BY <1>1, PlainVariantSimple DEF VariantFrom, VariantValue, JsonValue
<1>2. CASE j.json = "array"
  <2> DEFINE items == [i \in DOMAIN j.of |-> PlainVariant(j.of[i])]
  <2>1. \A i \in DOMAIN j.of : items[i] = PlainVariant(j.of[i]) /\ (IsError(items[i]) \/ Simple(items[i]))
    BY <1>2, ElementsOfText, PlainVariantSimple
  <2>2. ArrayVariant(VariantOf("array", items)) /\ DOMAIN items = DOMAIN j.of /\ VariantOf("array", items).of = items
    BY <1>2, ElementsOfText, ArrayOver
  <2>3. VariantFrom(j) = IF \E i \in DOMAIN items : IsError(items[i]) THEN Unread ELSE VariantOf("array", items)
    BY <1>2 DEF VariantFrom
  <2> HIDE DEF items
  <2>4. CASE \E i \in DOMAIN items : IsError(items[i])
    BY <2>3, <2>4, UnreadIsError
  <2>5. CASE ~\E i \in DOMAIN items : IsError(items[i])
    <3>1. \A i \in DOMAIN items : Item(items[i])
      BY <2>1, <2>2, <2>5 DEF Item
    <3> QED
      BY <2>2, <2>3, <2>5, <3>1 DEF VariantValue
  <2> QED
    BY <2>4, <2>5
<1> QED
  BY <1>1, <1>2

LEMMA ElementFromText ==
  ASSUME NEW j, JsonItem(j), NEW elem \in Plain \cup {"enum", "variant"}
  PROVE  IsError(ValueFrom(j, elem)) \/ Element(elem, ValueFrom(j, elem))
<1>1. CASE elem = "variant"
  <2>1. ValueFrom(j, elem) = VariantFrom(j)
    BY <1>1 DEF ValueFrom, Integral, Floating
  <2> QED
    BY <1>1, <2>1, ItemIsValue, VariantFromValue DEF Element
<1>2. CASE elem # "variant"
  BY <1>2, ValueFromTyped DEF Element, JsonItem
<1> QED
  BY <1>1, <1>2

ElementFrom(j, elem) == IF elem = "enum" /\ j.json = "string" THEN Unread ELSE ValueFrom(j, elem)

LEMMA ElementFromHolds ==
  ASSUME NEW j, JsonItem(j), NEW elem \in Plain \cup {"enum", "variant"}
  PROVE  IsError(ElementFrom(j, elem)) \/ Element(elem, ElementFrom(j, elem))
BY UnreadIsError, ElementFromText DEF ElementFrom

LEMMA ArrayFromItems ==
  ASSUME NEW j, j.json = "array", NEW elem
  PROVE  ArrayFrom(j, elem) =
           IF \E i \in DOMAIN j.of : IsError(ElementFrom(j.of[i], elem)) THEN Unread
           ELSE VariantOf("array", [i \in DOMAIN j.of |-> ElementFrom(j.of[i], elem)])
<1> DEFINE items == [i \in DOMAIN j.of |->
                       IF elem = "enum" /\ j.of[i].json = "string" THEN Unread
                       ELSE ValueFrom(j.of[i], elem)]
<1>1. ArrayFrom(j, elem) = IF \E i \in DOMAIN items : IsError(items[i]) THEN Unread ELSE VariantOf("array", items)
  BY DEF ArrayFrom, JsonNull, Json
<1>2. items = [i \in DOMAIN j.of |-> ElementFrom(j.of[i], elem)]
  BY DEF ElementFrom
<1> HIDE DEF items
<1>3. \A i \in DOMAIN items : items[i] = ElementFrom(j.of[i], elem)
  BY <1>2
<1>4. DOMAIN items = DOMAIN j.of
  BY <1>2
<1> QED
  BY <1>1, <1>2, <1>3, <1>4

ArrayHolds(elem, v) == ArrayVariant(v) /\ \A k \in DOMAIN v.of : Element(elem, v.of[k])

LEMMA ArrayFromHolds ==
  ASSUME NEW j, JsonValue(j), NEW elem \in Plain \cup {"enum", "variant"}
  PROVE  IsError(ArrayFrom(j, elem)) \/ ArrayHolds(elem, ArrayFrom(j, elem))
<1>1. CASE j = JsonNull
  <2>1. ArrayFrom(j, elem) = VariantOf("array", <<>>)
    BY <1>1 DEF ArrayFrom
  <2> QED
    BY <2>1 DEF ArrayHolds, ArrayVariant, VariantOf
<1>2. CASE j # JsonNull /\ j.json # "array"
  BY <1>2, UnreadIsError DEF ArrayFrom
<1>3. CASE j.json = "array"
  <2> DEFINE items == [i \in DOMAIN j.of |-> ElementFrom(j.of[i], elem)]
  <2>1. \A i \in DOMAIN j.of : items[i] = ElementFrom(j.of[i], elem) /\ (IsError(items[i]) \/ Element(elem, items[i]))
    BY <1>3, ElementsOfText, ElementFromHolds
  <2>2. ArrayVariant(VariantOf("array", items)) /\ DOMAIN items = DOMAIN j.of /\ VariantOf("array", items).of = items
    BY <1>3, ElementsOfText, ArrayOver
  <2>3. ArrayFrom(j, elem) = IF \E i \in DOMAIN j.of : IsError(ElementFrom(j.of[i], elem)) THEN Unread
                             ELSE VariantOf("array", items)
    BY <1>3, ArrayFromItems
  <2> HIDE DEF items
  <2> QED
    BY <2>1, <2>2, <2>3, UnreadIsError DEF ArrayHolds
<1> QED
  BY <1>1, <1>2, <1>3

LEMMA ParsedHolds ==
  ASSUME NEW f, Declared(f), NEW j, JsonValue(j), NEW old
  PROVE  IsError(Parsed(f, j, old)) \/ FieldHolds(f, Parsed(f, j, old))
<1>1. CASE f.nullable /\ j = JsonNull
  BY <1>1 DEF Parsed, FieldHolds
<1>2. CASE ~(f.nullable /\ j = JsonNull) /\ f.type = "array"
  BY <1>2, ArrayFromHolds DEF Parsed, FieldHolds, ValueOf, ArrayHolds, Declared
<1>3. CASE ~(f.nullable /\ j = JsonNull) /\ f.type = "variant"
  <2>1. Parsed(f, j, old) = VariantFrom(j)
    BY <1>3 DEF Parsed, ValueFrom, Integral, Floating
  <2> QED
    BY <1>3, <2>1, VariantFromValue DEF FieldHolds, ValueOf
<1>4. CASE ~(f.nullable /\ j = JsonNull) /\ f.type \notin {"array", "variant"}
  <2>1. Parsed(f, j, old) = ValueFrom(j, f.type)
    BY <1>4 DEF Parsed
  <2>2. f.type \in Plain \cup {"enum"} /\ Flat(j)
    BY <1>4 DEF Declared, JsonValue
  <2> QED
    BY <1>4, <2>1, <2>2, ValueFromTyped DEF FieldHolds, ValueOf
<1> QED
  BY <1>1, <1>2, <1>3, <1>4

-----------------------------------------------------------------------------
(* A visit that ends early.                                                *)

LEMMA ZeroTyped ==
  ASSUME NEW type \in Plain \cup {"enum"}
  PROVE  Typed(type, Zero(type))
<1>1. Cut(0) = 0
  BY DEF Cut
<1>2. CASE type \in Arithmetic
  <2>1. Zero(type) = VariantOf(type, 0)
    BY <1>2 DEF Zero, Arithmetic, Integral, Floating
  <2>2. Number(type, 0)
    BY <1>1, <1>2, WidthAssumption DEF Number
  <2> QED
    BY <1>2, <2>1, <2>2 DEF Typed, VariantOf, Arithmetic, Integral, Floating
<1>3. CASE type = "enum"
  BY <1>3, EnumAssumption DEF Zero, Typed, VariantOf, Arithmetic, Integral, Floating
<1>4. CASE type \in {"string", "datetime"}
  BY <1>4 DEF Zero, Typed, VariantOf, NoDate, Arithmetic, Integral, Floating
<1>5. CASE type = "object"
  <2>1. Zero(type) = VariantOf("object", [class |-> "Sub", field |-> VariantOf("int", 0)])
    BY <1>5 DEF Zero, Arithmetic, Integral, Floating
  <2>2. Number("int", 0)
    BY <1>1, WidthAssumption DEF Number, Integral
  <2> QED
    BY <1>5, <2>1, <2>2 DEF Typed, VariantOf, Arithmetic, Integral, Floating
<1> QED
  BY <1>2, <1>3, <1>4, <1>5 DEF Plain

(* What may lie in the memory of a field, or of an element of an array.    *)
Exposed(f, lies) == IF f.type = "array" THEN Element(f.elem, lies) ELSE ValueOf(f, lies)

LEMMA StrayHolds ==
  ASSUME NEW i \in Places, NEW lies \in Stray(i)
  PROVE  Exposed(Fields[i], lies)
<1> DEFINE f == Fields[i]
<1>0. Declared(f) /\ \A v \in Inputs[i] : FieldHolds(f, v)
  BY FieldAssumption, InputAssumption
<1>1. CASE f.type = "array"
  <2>1. Element(f.elem, Zero(f.elem))
    <3>1. CASE f.elem = "variant"
      BY <3>1 DEF Element, VariantValue, Simple, Zero, Arithmetic, Integral, Floating
    <3>2. CASE f.elem # "variant"
      BY <1>0, <1>1, <3>2, ZeroTyped DEF Element, Declared
    <3> QED
      BY <3>1, <3>2
  <2>2. \A v \in Inputs[i] : \A k \in DOMAIN v.of : Element(f.elem, v.of[k])
    BY <1>0, <1>1 DEF FieldHolds, ValueOf, Declared
  <2>3. lies = Zero(f.elem) \/ \E v \in Inputs[i] : \E k \in DOMAIN v.of : lies = v.of[k]
    BY <1>1 DEF Stray
  <2> QED
    BY <1>1, <2>1, <2>2, <2>3 DEF Exposed
<1>2. CASE f.type # "array"
  <2>1. ValueOf(f, Zero(f.type))
    <3>1. CASE f.type = "variant"
      BY <3>1 DEF ValueOf, VariantValue, Simple, Zero, Arithmetic, Integral, Floating
    <3>2. CASE f.type # "variant"
      BY <1>0, <1>2, <3>2, ZeroTyped DEF ValueOf, Declared
    <3> QED
      BY <3>1, <3>2
  <2>2. lies = Zero(f.type) \/ (lies \in Inputs[i] /\ lies # Unset)
    BY <1>2 DEF Stray
  <2> QED
    BY <1>0, <1>2, <2>1, <2>2 DEF Exposed, FieldHolds
<1> QED
  BY <1>1, <1>2

LEMMA SingleFromText ==
  ASSUME NEW x, JsonItem(x), NEW elem \in Plain \cup {"enum", "variant"},
         ~IsError(ArrayFrom(Json("array", <<x>>), elem))
  PROVE  Element(elem, ArrayFrom(Json("array", <<x>>), elem).of[1])
<1> DEFINE j == Json("array", <<x>>)
<1>1. j.json = "array" /\ j.of = <<x>> /\ DOMAIN <<x>> = {1} /\ <<x>>[1] = x
  BY DEF Json
<1>2. ArrayFrom(j, elem) =
        IF \E i \in {1} : IsError(ElementFrom(<<x>>[i], elem)) THEN Unread
        ELSE VariantOf("array", [i \in {1} |-> ElementFrom(<<x>>[i], elem)])
  BY <1>1, ArrayFromItems
<1>3. ~IsError(ElementFrom(x, elem)) /\ ArrayFrom(j, elem).of[1] = ElementFrom(x, elem)
  BY <1>1, <1>2, UnreadIsError DEF VariantOf
<1> QED
  BY <1>3, ElementFromHolds

LEMMA DirtyHolds ==
  ASSUME NEW f, Declared(f), NEW j, JsonValue(j), NEW old, FieldHolds(f, old), NEW lies, Exposed(f, lies)
  PROVE  FieldHolds(f, Dirty(f, j, old, lies))
<1>1. CASE f.nullable /\ old = Unset
  BY <1>1 DEF Dirty, Exposed, FieldHolds, Declared
<1>2. CASE ~(f.nullable /\ old = Unset) /\ f.type = "array" /\ j.json = "array"
  <2> DEFINE bad(k) == \E n \in 1..k : IsError(ArrayFrom(Json("array", <<j.of[n]>>), f.elem))
             items == [k \in DOMAIN j.of |->
                        IF bad(k) THEN IF k <= Len(old.of) THEN old.of[k] ELSE lies
                        ELSE ArrayFrom(Json("array", <<j.of[k]>>), f.elem).of[1]]
  <2>1. Dirty(f, j, old, lies) = VariantOf("array", items)
    BY <1>2 DEF Dirty
  <2>2. /\ ArrayVariant(VariantOf("array", items)) /\ DOMAIN items = DOMAIN j.of
        /\ VariantOf("array", items).of = items
    BY <1>2, ElementsOfText, ArrayOver
  <2>3. ASSUME NEW k \in DOMAIN j.of
        PROVE  Element(f.elem, items[k])
    <3>0. j.of \in Seq(Members(j.of)) /\ JsonItem(j.of[k])
      BY <1>2, ElementsOfText
    <3>1. CASE bad(k)
      <4>1. ArrayVariant(old) /\ \A n \in DOMAIN old.of : Element(f.elem, old.of[n])
        BY <1>2 DEF FieldHolds, ValueOf, Declared
      <4>2. k \in Nat \ {0} /\ DOMAIN old.of = 1..Len(old.of) /\ Len(old.of) \in Nat
        BY <3>0, <4>1 DEF ArrayVariant
      <4>3. k <= Len(old.of) => k \in DOMAIN old.of
        BY <4>2
      <4>4. items[k] = IF k <= Len(old.of) THEN old.of[k] ELSE lies
        BY <3>1
      <4>5. Element(f.elem, lies)
        BY <1>2 DEF Exposed
      <4> HIDE DEF items, bad
      <4> QED
        BY <4>1, <4>3, <4>4, <4>5
    <3>2. CASE ~bad(k)
      <4>1. k \in 1..k
        BY <3>0
      <4>2. ~IsError(ArrayFrom(Json("array", <<j.of[k]>>), f.elem))
        BY <3>2, <4>1
      <4>3. f.elem \in Plain \cup {"enum", "variant"}
        BY <1>2 DEF Declared
      <4>4. items[k] = ArrayFrom(Json("array", <<j.of[k]>>), f.elem).of[1]
        BY <3>2
      <4> HIDE DEF items, bad
      <4> QED
        BY <3>0, <4>2, <4>3, <4>4, SingleFromText
    <3> QED
      BY <3>1, <3>2
  <2> HIDE DEF items
  <2> QED
    BY <1>2, <2>1, <2>2, <2>3 DEF FieldHolds, ValueOf
<1>3. CASE ~(f.nullable /\ old = Unset) /\ ~(f.type = "array" /\ j.json = "array")
  BY <1>3 DEF Dirty
<1> QED
  BY <1>1, <1>2, <1>3

-----------------------------------------------------------------------------
(* What is written is read back.                                           *)

LEMMA JsonNumberIs ==
  ASSUME NEW x
  PROVE  JsonNumber(x).json \in {"int", "uint"} /\ JsonNumber(x).of = x
BY DEF JsonNumber, Json

LEMMA NumberRead ==
  ASSUME NEW type \in Integral, NEW x, Number(type, x)
  PROVE  Integer(JsonNumber(x), type) = VariantOf(type, x) /\ Flat(JsonNumber(x))
<1>1. x \in Int /\ 2 * Cut(x) = x /\ Holds(type, Cut(x))
  BY DEF Number
<1> QED
  BY <1>1, JsonNumberIs DEF Integer, Flat, Scalar

LeafReads(v, j) ==
  /\ Flat(j) /\ j.json # "array" /\ j # JsonError
  /\ j = JsonNull <=> v = NoDate
  /\ ValueFrom(j, v.type) = v
  /\ IsError(PlainVariant(j)) \/ AlikeItem(v, PlainVariant(j))

LEMMA LeafRead ==
  ASSUME NEW v, v.type \in Plain, Typed(v.type, v)
  PROVE  LeafReads(v, Leaf(v))
<1> USE UnreadIsError
<1>0. v = VariantOf(v.type, v.of)
  BY DEF Typed
<1>1. CASE v.type = "bool"
  <2>1. Number("bool", v.of) /\ Leaf(v) = Json("bool", v.of)
    BY <1>1 DEF Typed, Leaf, Arithmetic, Integral, Floating
  <2>2. Leaf(v).json = "bool" /\ Leaf(v).of = v.of
    BY <2>1 DEF Json
  <2>3. ValueFrom(Leaf(v), "bool") = v /\ PlainVariant(Leaf(v)) = v
    BY <1>0, <1>1, <2>2 DEF ValueFrom, PlainVariant, Integral, Floating
  <2>4. Flat(Leaf(v))
    BY <2>1, <2>2 DEF Flat, Scalar
  <2>5. Leaf(v) # JsonNull /\ Leaf(v) # JsonError /\ v # NoDate
    BY <1>1, <2>2 DEF JsonNull, JsonError, Json, NoDate, VariantOf
  <2> QED
    BY <1>1, <2>2, <2>3, <2>4, <2>5 DEF LeafReads, AlikeItem
<1>2. CASE v.type \in Integral \ {"bool"}
  <2>1. Number(v.type, v.of) /\ Leaf(v) = JsonNumber(v.of)
    BY <1>2 DEF Typed, Leaf, Arithmetic, Integral, Floating
  <2>2. Leaf(v).json \in {"int", "uint"} /\ Leaf(v).of = v.of
    BY <2>1, JsonNumberIs
  <2>3. Integer(Leaf(v), v.type) = v /\ Flat(Leaf(v))
    BY <1>0, <1>2, <2>1, NumberRead
  <2>4. ValueFrom(Leaf(v), v.type) = v
    BY <1>2, <2>3 DEF ValueFrom, Integral, Floating
  <2>5. Leaf(v) # JsonNull /\ Leaf(v) # JsonError /\ v # NoDate
    BY <1>2, <2>2 DEF JsonNull, JsonError, Json, NoDate, VariantOf, Integral
  <2>6. PlainVariant(Leaf(v)) = Integer(Leaf(v), Leaf(v).json)
    BY <2>2 DEF PlainVariant
  <2>7. IsError(PlainVariant(Leaf(v))) \/ PlainVariant(Leaf(v)) = VariantOf(Leaf(v).json, v.of)
    BY <2>2, <2>6 DEF Integer
  <2>8. AlikeItem(v, VariantOf(Leaf(v).json, v.of))
    BY <1>2, <2>2 DEF AlikeItem, VariantOf, Arithmetic, Integral
  <2>9. Leaf(v).json # "array"
    BY <2>2
  <2> QED
    BY <2>3, <2>4, <2>5, <2>7, <2>8, <2>9 DEF LeafReads
<1>3. CASE v.type \in Floating
  <2>1. v.of \in Int /\ Leaf(v) = Json("real", v.of)
    BY <1>3 DEF Typed, Number, Leaf, Arithmetic, Integral, Floating
  <2>2. Leaf(v).json = "real" /\ Leaf(v).of = v.of
    BY <2>1 DEF Json
  <2>3. ValueFrom(Leaf(v), v.type) = v
    BY <1>0, <1>3, <2>2 DEF ValueFrom, Integral, Floating
  <2>4. PlainVariant(Leaf(v)) = VariantOf("double", v.of)
    BY <2>2 DEF PlainVariant
  <2>5. AlikeItem(v, VariantOf("double", v.of))
    BY <1>3 DEF AlikeItem, VariantOf, Arithmetic, Floating
  <2>6. Flat(Leaf(v))
    BY <2>1, <2>2 DEF Flat, Scalar
  <2>7. Leaf(v) # JsonNull /\ Leaf(v) # JsonError /\ v # NoDate
    BY <1>3, <2>2 DEF JsonNull, JsonError, Json, NoDate, VariantOf, Floating
  <2> QED
    BY <2>2, <2>3, <2>4, <2>5, <2>6, <2>7 DEF LeafReads
<1>4. CASE v.type = "string"
  <2>1. Leaf(v) = Json("string", v.of)
    BY <1>4 DEF Leaf, Integral, Floating
  <2>2. Leaf(v).json = "string" /\ Leaf(v).of = v.of
    BY <2>1 DEF Json
  <2>3. ValueFrom(Leaf(v), v.type) = v /\ PlainVariant(Leaf(v)) = v
    BY <1>0, <1>4, <2>2 DEF ValueFrom, PlainVariant, Integral, Floating
  <2>4. Flat(Leaf(v))
    BY <2>2 DEF Flat, Scalar
  <2>5. Leaf(v) # JsonNull /\ Leaf(v) # JsonError /\ v # NoDate
    BY <1>4, <2>2 DEF JsonNull, JsonError, Json, NoDate, VariantOf
  <2> QED
    BY <2>2, <2>3, <2>4, <2>5 DEF LeafReads, AlikeItem
<1>5. CASE v.type = "datetime"
  <2>1. CASE v = NoDate
    <3>1. Leaf(v) = JsonNull
      BY <1>5, <2>1 DEF Leaf, Integral, Floating
    <3>2. ValueFrom(JsonNull, "datetime") = NoDate
      BY DEF ValueFrom, Integral, Floating
    <3>3. PlainVariant(JsonNull) = Invalid
      BY DEF PlainVariant, JsonNull, Json
    <3>4. Flat(JsonNull) /\ JsonNull.json # "array" /\ JsonNull # JsonError
      BY DEF Flat, Scalar, JsonNull, JsonError, Json
    <3>5. AlikeItem(v, Invalid)
      BY <2>1 DEF AlikeItem, Empty
    <3> QED
      BY <1>5, <2>1, <3>1, <3>2, <3>3, <3>4, <3>5 DEF LeafReads
  <2>2. CASE v # NoDate
    <3>1. Leaf(v) = Json("string", <<"date", v.of>>)
      BY <1>5, <2>2 DEF Leaf, Integral, Floating
    <3>2. Leaf(v).json = "string" /\ Leaf(v).of = <<"date", v.of>>
      BY <3>1 DEF Json
    <3>3. Leaf(v).of[1] = "date" /\ Leaf(v).of[2] = v.of
      BY <3>2
    <3>4. Leaf(v) # JsonNull /\ Leaf(v) # JsonError
      BY <3>2 DEF JsonNull, JsonError, Json
    <3>5. ValueFrom(Leaf(v), v.type) = v
      BY <1>0, <1>5, <3>2, <3>3, <3>4 DEF ValueFrom, Integral, Floating
    <3>6. PlainVariant(Leaf(v)) = VariantOf("string", <<"date", v.of>>)
      BY <3>2 DEF PlainVariant
    <3>7. AlikeItem(v, PlainVariant(Leaf(v)))
      BY <1>5, <3>6 DEF AlikeItem
    <3>8. Flat(Leaf(v))
      BY <3>2 DEF Flat, Scalar
    <3> QED
      BY <2>2, <3>2, <3>4, <3>5, <3>7, <3>8 DEF LeafReads
  <2> QED
    BY <2>1, <2>2
<1>6. CASE v.type = "object"
  <2> DEFINE x == v.of.field.of
  <2>1. v.of = [class |-> "Sub", field |-> VariantOf("int", x)] /\ Number("int", x)
    BY <1>6 DEF Typed
  <2>2. Leaf(v) = Json("object", [class |-> v.of.class, field |-> JsonNumber(x)])
    BY <1>6 DEF Leaf, Integral, Floating
  <2>3. /\ Leaf(v).json = "object" /\ Leaf(v).of.field = JsonNumber(x)
    BY <2>2 DEF Json
  <2>4. Integer(JsonNumber(x), "int") = VariantOf("int", x) /\ Flat(JsonNumber(x))
    BY <2>1, NumberRead DEF Integral
  <2>5. ~IsError(VariantOf("int", x))
    BY DEF IsError, VariantOf
  <2>6. Nested(Leaf(v)) = VariantOf("object", [class |-> "Sub", field |-> VariantOf("int", x)])
    BY <2>3, <2>4, <2>5 DEF Nested
  <2>7. Nested(Leaf(v)) = v
    BY <1>0, <1>6, <2>1, <2>6
  <2>8. ValueFrom(Leaf(v), v.type) = v
    BY <1>6, <2>7 DEF ValueFrom, Integral, Floating
  <2>9. PlainVariant(Leaf(v)) = v \/ PlainVariant(Leaf(v)) = Unread
    BY <2>3, <2>7 DEF PlainVariant
  <2>10. Flat(Leaf(v))
    BY <2>3, <2>4 DEF Flat, Scalar
  <2>11. Leaf(v) # JsonNull /\ Leaf(v) # JsonError /\ v # NoDate
    BY <1>6, <2>3 DEF JsonNull, JsonError, Json, NoDate, VariantOf
  <2> QED
    BY <2>3, <2>8, <2>9, <2>10, <2>11 DEF LeafReads, AlikeItem
<1> QED
  BY <1>1, <1>2, <1>3, <1>4, <1>5, <1>6 DEF Plain, Arithmetic

(* Elements that are written one by one.                                   *)
LEMMA WholeIs ==
  ASSUME NEW s, s \in Seq(Members(s)), NEW items, items = [k \in DOMAIN s |-> items[k]], Whole(items) # JsonError
  PROVE  /\ items \in Seq(Members(items)) /\ DOMAIN items = DOMAIN s
         /\ \A k \in DOMAIN s : items[k] # JsonError
         /\ s = <<>> => Whole(items) = JsonNull
         /\ s # <<>> => Whole(items) = Json("array", items)
<1>1. DOMAIN items = DOMAIN s /\ DOMAIN s = 1..Len(s) /\ Len(s) \in Nat
  OBVIOUS
<1>2. \A k \in DOMAIN items : items[k] # JsonError
  BY DEF Whole
<1>3. items \in Seq(Members(items))
  BY ArrayOver DEF ArrayVariant, VariantOf
<1>4. s = <<>> <=> items = <<>>
  <2>1. s = <<>> <=> Len(s) = 0
    OBVIOUS
  <2>2. Len(items) \in Nat /\ DOMAIN items = 1..Len(items) /\ (items = <<>> <=> Len(items) = 0)
    BY <1>3
  <2>3. Len(items) = Len(s)
    BY <1>1, <2>2
  <2> QED
    BY <2>1, <2>2, <2>3
<1>5. Whole(items) = IF items = <<>> THEN JsonNull ELSE Json("array", items)
  BY <1>2 DEF Whole
<1> QED
  BY <1>1, <1>2, <1>3, <1>4, <1>5

(* An element of an array that a Variant holds.                            *)
LEMMA ItemRead ==
  ASSUME NEW v, Item(v), WrittenElement(v) # JsonError
  PROVE  /\ Flat(WrittenElement(v)) /\ WrittenElement(v).json # "array"
         /\ IsError(PlainVariant(WrittenElement(v))) \/ AlikeItem(v, PlainVariant(WrittenElement(v)))
<1>1. v.type \notin {"array", "void"}
  BY DEF WrittenElement
<1>2. v.type \in Plain /\ Typed(v.type, v)
  BY <1>1 DEF Item, Simple, Invalid, VariantOf
<1>3. WrittenElement(v) = Leaf(v)
  BY <1>1, <1>2 DEF WrittenElement, Plain, Arithmetic, Integral, Floating
<1> QED
  BY <1>2, <1>3, LeafRead DEF LeafReads

VariantItems(s) == [k \in DOMAIN s |-> WrittenElement(s[k])]

(* A Variant comes back as one alike, if its text can be read at all.      *)
VariantReads(v, j) ==
  /\ JsonItem(j) /\ (j = JsonNull => v \in Empty)
  /\ IsError(VariantFrom(j)) \/ Alike(v, VariantFrom(j))

LEMMA NullVariant ==
  ASSUME NEW v \in Empty
  PROVE  VariantReads(v, JsonNull)
<1>1. VariantFrom(JsonNull) = Invalid
  BY DEF VariantFrom, PlainVariant, JsonNull, Json
<1>2. JsonItem(JsonNull)
  BY DEF JsonItem, Flat, Scalar, JsonNull, Json
<1> QED
  BY <1>1, <1>2 DEF VariantReads, Alike, AlikeItem

LEMMA VariantArrayRead ==
  ASSUME NEW v, ArrayVariant(v), \A k \in DOMAIN v.of : Item(v.of[k]), Whole(VariantItems(v.of)) # JsonError
  PROVE  VariantReads(v, Whole(VariantItems(v.of)))
<1> DEFINE items == VariantItems(v.of)
           j == Whole(items)
           read == [k \in DOMAIN items |-> PlainVariant(items[k])]
<1>1. v = VariantOf("array", v.of) /\ v.of \in Seq(Members(v.of))
  BY DEF ArrayVariant
<1>2. items = [k \in DOMAIN v.of |-> items[k]] /\ \A k \in DOMAIN v.of : items[k] = WrittenElement(v.of[k])
  BY DEF VariantItems
<1>3. /\ items \in Seq(Members(items)) /\ DOMAIN items = DOMAIN v.of
      /\ \A k \in DOMAIN v.of : items[k] # JsonError
      /\ v.of = <<>> => j = JsonNull
      /\ v.of # <<>> => j = Json("array", items)
  <2>1. Whole(items) # JsonError
    OBVIOUS
  <2> HIDE DEF items
  <2> QED
    BY <1>1, <1>2, <2>1, WholeIs
<1>4. CASE v.of = <<>>
  BY <1>1, <1>3, <1>4, NullVariant DEF Empty
<1>5. CASE v.of # <<>>
  <2>1. j.json = "array" /\ j.of = items
    BY <1>3, <1>5 DEF Json
  <2>2. \A k \in DOMAIN items : /\ Flat(items[k]) /\ items[k].json # "array"
                                /\ IsError(PlainVariant(items[k])) \/ AlikeItem(v.of[k], PlainVariant(items[k]))
    BY <1>2, <1>3, ItemRead
  <2> HIDE DEF items
  <2>3. JsonItem(j)
    <3>1. Flat(j)
      BY <2>1 DEF Flat, Scalar
    <3> QED
      BY <1>3, <2>1, <2>2, <3>1 DEF JsonItem
  <2>4. VariantFrom(j) = IF \E k \in DOMAIN read : IsError(read[k]) THEN Unread ELSE VariantOf("array", read)
    BY <2>1 DEF VariantFrom
  <2>5. DOMAIN read = DOMAIN items /\ \A k \in DOMAIN items : read[k] = PlainVariant(items[k])
    OBVIOUS
  <2>6. j # JsonNull
    BY <2>1 DEF JsonNull, Json
  <2> HIDE DEF j, read
  <2>7. CASE \E k \in DOMAIN read : IsError(read[k])
    BY <2>3, <2>4, <2>6, <2>7, UnreadIsError DEF VariantReads, j, items
  <2>8. CASE ~\E k \in DOMAIN read : IsError(read[k])
    <3>1. VariantFrom(j).type = "array" /\ VariantFrom(j).of = read /\ v.type = "array"
      BY <1>1, <2>4, <2>8 DEF VariantOf
    <3>2. \A k \in DOMAIN v.of : AlikeItem(v.of[k], read[k])
      BY <1>3, <2>2, <2>5, <2>8
    <3>3. Alike(v, VariantFrom(j))
      BY <1>3, <2>5, <3>1, <3>2 DEF Alike
    <3> QED
      BY <2>3, <2>6, <3>3 DEF VariantReads, j, items
  <2> QED
    BY <2>7, <2>8
<1> QED
  BY <1>4, <1>5

LEMMA VariantRead ==
  ASSUME NEW v, VariantValue(v), WrittenVariant(v) # JsonError
  PROVE  VariantReads(v, WrittenVariant(v))
<1>1. CASE v = Invalid
  BY <1>1, NullVariant DEF WrittenVariant, Empty
<1>2. CASE v # Invalid /\ v.type \in Plain /\ Typed(v.type, v)
  <2>1. WrittenVariant(v) = Leaf(v)
    BY <1>2 DEF WrittenVariant, Plain, Arithmetic, Integral, Floating
  <2>2. LeafReads(v, Leaf(v))
    BY <1>2, LeafRead
  <2>3. VariantFrom(Leaf(v)) = PlainVariant(Leaf(v)) /\ JsonItem(Leaf(v))
    BY <2>2 DEF LeafReads, VariantFrom, JsonItem
  <2> QED
    BY <2>1, <2>2, <2>3 DEF LeafReads, VariantReads, Alike, Empty
<1>3. CASE ArrayVariant(v) /\ \A k \in DOMAIN v.of : Item(v.of[k])
  <2>1. v.type = "array" /\ v # Invalid
    BY <1>3 DEF ArrayVariant, VariantOf, Invalid
  <2>2. WrittenVariant(v) = Whole(VariantItems(v.of))
    BY <2>1 DEF WrittenVariant, VariantItems
  <2> QED
    BY <1>3, <2>2, VariantArrayRead
<1> QED
  BY <1>1, <1>2, <1>3 DEF VariantValue, Simple

(* An element of a field that is an array.                                 *)
ElementReads(elem, v, j) ==
  /\ JsonItem(j)
  /\ IF elem = "variant" THEN IsError(ElementFrom(j, elem)) \/ Alike(v, ElementFrom(j, elem))
     ELSE ElementFrom(j, elem) = v

LEMMA ElementRead ==
  ASSUME NEW elem \in Plain \cup {"enum", "variant"}, NEW v, Element(elem, v),
         WrittenItem(elem, v) # JsonError
  PROVE  ElementReads(elem, v, WrittenItem(elem, v))
<1>1. CASE elem = "enum"
  <2>1. v.of \in Int /\ Holds("uint", v.of) /\ v = VariantOf("enum", v.of)
    BY <1>1 DEF Element, Typed
  <2>2. v.type = "enum"
    BY <2>1 DEF VariantOf
  <2>3. WrittenItem(elem, v) = JsonNumber(2 * v.of)
    BY <1>1, <2>2 DEF WrittenItem, WrittenElement
  <2>4. WrittenItem(elem, v).json \in {"int", "uint"} /\ WrittenItem(elem, v).of = 2 * v.of
    BY <2>3, JsonNumberIs
  <2>5. Cut(2 * v.of) = v.of
    BY <2>1, CutWhole
  <2>6. JsonItem(WrittenItem(elem, v))
    BY <2>1, <2>4, <2>5 DEF JsonItem, Flat, Scalar
  <2>7. EnumFrom(WrittenItem(elem, v)) = v
    BY <2>1, <2>4, <2>5 DEF EnumFrom
  <2>8. ElementFrom(WrittenItem(elem, v), elem) = EnumFrom(WrittenItem(elem, v))
    BY <1>1, <2>4 DEF ElementFrom, ValueFrom, Integral, Floating
  <2> QED
    BY <1>1, <2>6, <2>7, <2>8 DEF ElementReads
<1>2. CASE elem \in Plain
  <2>1. v.type = elem /\ Typed(elem, v)
    BY <1>2 DEF Element, Typed, VariantOf, Plain, Arithmetic, Integral, Floating
  <2>2. WrittenItem(elem, v) = Leaf(v)
    BY <1>2, <2>1 DEF WrittenItem, WrittenElement, Plain, Arithmetic, Integral, Floating
  <2>3. LeafReads(v, Leaf(v))
    BY <1>2, <2>1, LeafRead
  <2>4. ElementFrom(Leaf(v), elem) = ValueFrom(Leaf(v), elem) /\ elem # "variant"
    BY <1>2 DEF ElementFrom, Plain, Arithmetic, Integral, Floating
  <2>5. JsonItem(Leaf(v))
    BY <2>3 DEF LeafReads, JsonItem
  <2> QED
    BY <2>1, <2>2, <2>3, <2>4, <2>5 DEF ElementReads, LeafReads
<1>3. CASE elem = "variant"
  <2>1. VariantValue(v) /\ WrittenItem(elem, v) = WrittenVariant(v)
    BY <1>3 DEF Element, WrittenItem
  <2>2. VariantReads(v, WrittenVariant(v))
    BY <2>1, VariantRead
  <2>3. ElementFrom(WrittenVariant(v), elem) = VariantFrom(WrittenVariant(v))
    BY <1>3 DEF ElementFrom, ValueFrom, Integral, Floating
  <2> QED
    BY <1>3, <2>1, <2>2, <2>3 DEF ElementReads, VariantReads
<1> QED
  BY <1>1, <1>2, <1>3

FieldItems(elem, s) == [k \in DOMAIN s |-> WrittenItem(elem, s[k])]

ArrayReads(elem, v, w) ==
  IF elem = "variant"
  THEN \/ IsError(w)
       \/ /\ w.type = "array" /\ DOMAIN v.of = DOMAIN w.of
          /\ \A k \in DOMAIN v.of : Alike(v.of[k], w.of[k])
  ELSE w = v

LEMMA ElementsRead ==
  ASSUME NEW elem \in Plain \cup {"enum", "variant"}, NEW v, ArrayHolds(elem, v), v.of # <<>>,
         Whole(FieldItems(elem, v.of)) # JsonError
  PROVE  /\ JsonValue(Whole(FieldItems(elem, v.of)))
         /\ Whole(FieldItems(elem, v.of)) = Json("array", FieldItems(elem, v.of))
         /\ DOMAIN FieldItems(elem, v.of) = DOMAIN v.of
         /\ \A k \in DOMAIN v.of : ElementReads(elem, v.of[k], FieldItems(elem, v.of)[k])
<1> DEFINE items == FieldItems(elem, v.of)
           j == Whole(items)
<1>1. v = VariantOf("array", v.of) /\ v.of \in Seq(Members(v.of)) /\ \A k \in DOMAIN v.of : Element(elem, v.of[k])
  BY DEF ArrayHolds, ArrayVariant
<1>2. items = [k \in DOMAIN v.of |-> items[k]] /\ \A k \in DOMAIN v.of : items[k] = WrittenItem(elem, v.of[k])
  BY DEF FieldItems
<1>3. /\ items \in Seq(Members(items)) /\ DOMAIN items = DOMAIN v.of
      /\ \A k \in DOMAIN v.of : items[k] # JsonError
      /\ j = Json("array", items)
  <2>1. Whole(items) # JsonError
    OBVIOUS
  <2> HIDE DEF items
  <2> QED
    BY <1>1, <1>2, <2>1, WholeIs
<1>4. \A k \in DOMAIN v.of : ElementReads(elem, v.of[k], items[k])
  BY <1>1, <1>2, <1>3, ElementRead
<1>5. JsonValue(j)
  <2>1. j.json = "array" /\ j.of = items
    BY <1>3 DEF Json
  <2>2. Flat(j)
    BY <2>1 DEF Flat, Scalar
  <2>3. \A k \in DOMAIN j.of : JsonItem(j.of[k])
    BY <1>3, <1>4, <2>1 DEF ElementReads
  <2> HIDE DEF items, j
  <2> QED
    BY <1>3, <2>1, <2>2, <2>3 DEF JsonValue
<1> QED
  BY <1>3, <1>4, <1>5

LEMMA ArrayRead ==
  ASSUME NEW elem \in Plain \cup {"enum", "variant"}, NEW v, ArrayHolds(elem, v), v.of # <<>>,
         Whole(FieldItems(elem, v.of)) # JsonError
  PROVE  ArrayReads(elem, v, ArrayFrom(Whole(FieldItems(elem, v.of)), elem))
<1> DEFINE items == FieldItems(elem, v.of)
           j == Whole(items)
           read == [k \in DOMAIN v.of |-> ElementFrom(items[k], elem)]
<1>1. /\ j = Json("array", items) /\ DOMAIN items = DOMAIN v.of
      /\ \A k \in DOMAIN v.of : ElementReads(elem, v.of[k], items[k])
  BY ElementsRead
<1>2. j.json = "array" /\ j.of = items
  BY <1>1 DEF Json
<1>3. ArrayFrom(j, elem) =
        IF \E k \in DOMAIN v.of : IsError(ElementFrom(items[k], elem)) THEN Unread
        ELSE VariantOf("array", read)
  BY <1>1, <1>2, ArrayFromItems
<1>4. DOMAIN read = DOMAIN v.of /\ \A k \in DOMAIN v.of : read[k] = ElementFrom(items[k], elem)
  OBVIOUS
<1>5. v = VariantOf("array", v.of) /\ v.of \in Seq(Members(v.of)) /\ \A k \in DOMAIN v.of : Element(elem, v.of[k])
  BY DEF ArrayHolds, ArrayVariant
<1> HIDE DEF read
<1>6. CASE elem = "variant"
  <2>1. CASE \E k \in DOMAIN v.of : IsError(ElementFrom(items[k], elem))
    BY <1>3, <1>6, <2>1, UnreadIsError DEF ArrayReads
  <2>2. CASE ~\E k \in DOMAIN v.of : IsError(ElementFrom(items[k], elem))
    <3>1. ArrayFrom(j, elem).type = "array" /\ ArrayFrom(j, elem).of = read
      BY <1>3, <2>2 DEF VariantOf
    <3>2. \A k \in DOMAIN v.of : Alike(v.of[k], read[k])
      BY <1>1, <1>4, <1>6, <2>2 DEF ElementReads
    <3> HIDE DEF j
    <3>3. ArrayReads(elem, v, ArrayFrom(j, elem))
      BY <1>4, <1>6, <3>1, <3>2 DEF ArrayReads
    <3> QED
      BY <3>3 DEF j
  <2> QED
    BY <2>1, <2>2
<1>7. CASE elem # "variant"
  <2>1. \A k \in DOMAIN v.of : ElementFrom(items[k], elem) = v.of[k]
    BY <1>1, <1>7 DEF ElementReads
  <2>2. \A k \in DOMAIN v.of : ~IsError(v.of[k])
    <3>1. \A x : Element(elem, x) => x.type = elem
      BY <1>7 DEF Element, Typed, VariantOf
    <3>2. elem \notin {"invalid_argument", "runtime_error", "bad_cast"}
      BY DEF Plain, Arithmetic, Integral, Floating
    <3> QED
      BY <1>5, <3>1, <3>2 DEF IsError
  <2>3. ArrayFrom(j, elem) = VariantOf("array", read)
    BY <1>3, <2>1, <2>2
  <2>4. read = v.of
    <3>1. read = [k \in DOMAIN v.of |-> v.of[k]]
      BY <2>1 DEF read
    <3> QED
      BY <1>5, <3>1
  <2> QED
    BY <1>5, <1>7, <2>3, <2>4 DEF ArrayReads
<1> QED
  BY <1>6, <1>7

(* The text of a field; and what reading it makes of the field.            *)
RestoresField(f, v, j, old) ==
  JsonValue(j) /\ (IsError(Parsed(f, j, old)) \/ Restored(f, v, Parsed(f, j, old)))

LEMMA NullIsJson ==
  JsonValue(JsonNull) /\ JsonNull.json = "null"
BY DEF JsonValue, Flat, Scalar, JsonNull, Json

LEMMA ArrayRestored ==
  ASSUME NEW f, Declared(f), NEW v, ValueOf(f, v), f.type = "array", NEW old,
         Whole(FieldItems(f.elem, v.of)) # JsonError
  PROVE  RestoresField(f, v, Whole(FieldItems(f.elem, v.of)), old)
<1> DEFINE items == FieldItems(f.elem, v.of)
           j == Whole(items)
<1>1. f.elem \in Plain \cup {"enum", "variant"} /\ ~f.nullable
  BY DEF Declared
<1>2. ArrayHolds(f.elem, v)
  BY DEF ValueOf, ArrayHolds
<1>3. v = VariantOf("array", v.of) /\ v.of \in Seq(Members(v.of))
  BY <1>2 DEF ArrayHolds, ArrayVariant
<1>4. CASE v.of = <<>>
  <2>1. j = JsonNull
    <3>1. items = [k \in DOMAIN v.of |-> items[k]]
      BY DEF FieldItems
    <3> HIDE DEF items
    <3> QED
      BY <1>3, <1>4, <3>1, WholeIs DEF items
  <2>2. Parsed(f, JsonNull, old) = v
    BY <1>1, <1>3, <1>4 DEF Parsed, ArrayFrom
  <2> QED
    BY <2>1, <2>2, NullIsJson DEF RestoresField, Restored
<1>5. CASE v.of # <<>>
  <2>1. ArrayReads(f.elem, v, ArrayFrom(j, f.elem))
    BY <1>1, <1>2, <1>5, ArrayRead
  <2>2. JsonValue(j)
    BY <1>1, <1>2, <1>5, ElementsRead
  <2> HIDE DEF j
  <2>3. Parsed(f, j, old) = ArrayFrom(j, f.elem)
    BY <1>1 DEF Parsed
  <2>4. RestoresField(f, v, j, old)
    BY <2>1, <2>2, <2>3 DEF ArrayReads, RestoresField, Restored
  <2> QED
    BY <2>4 DEF j
<1> QED
  BY <1>4, <1>5

LEMMA VariantRestored ==
  ASSUME NEW f, Declared(f), f.type = "variant", NEW v, ValueOf(f, v), v # Unset, NEW old,
         WrittenVariant(v) # JsonError
  PROVE  RestoresField(f, v, WrittenVariant(v), old)
<1>1. VariantReads(v, WrittenVariant(v))
  BY VariantRead DEF ValueOf
<1>2. JsonValue(WrittenVariant(v)) /\ (WrittenVariant(v) = JsonNull => v \in Empty)
  BY <1>1, ItemIsValue DEF VariantReads
<1>3. CASE f.nullable /\ WrittenVariant(v) = JsonNull
  BY <1>2, <1>3 DEF RestoresField, Parsed, Restored
<1>4. CASE ~(f.nullable /\ WrittenVariant(v) = JsonNull)
  <2>1. Parsed(f, WrittenVariant(v), old) = VariantFrom(WrittenVariant(v))
    BY <1>4 DEF Parsed, ValueFrom, Integral, Floating
  <2> QED
    BY <1>1, <1>2, <2>1 DEF VariantReads, RestoresField, Restored
<1> QED
  BY <1>3, <1>4

LEMMA EnumRestored ==
  ASSUME NEW f, Declared(f), f.type = "enum", NEW v, Typed("enum", v), NEW old, NameOf(v.of) # JsonError
  PROVE  RestoresField(f, v, NameOf(v.of), old)
<1>1. PICK x \in DOMAIN EnumNames : NameOf(v.of) = Json("string", <<"name", x>>) /\ EnumNames[x] = v.of
  BY DEF NameOf
<1> DEFINE j == Json("string", <<"name", x>>)
<1>2. j.json = "string" /\ j.of[1] = "name" /\ j.of[2] = x
  BY DEF Json
<1>3. EnumFrom(j) = VariantOf("enum", v.of) /\ v = VariantOf("enum", v.of)
  BY <1>1, <1>2 DEF EnumFrom, Typed
<1>4. j # JsonNull
  BY <1>2, NullIsJson
<1>5. Parsed(f, j, old) = EnumFrom(j)
  BY <1>4 DEF Parsed, ValueFrom, Integral, Floating
<1>6. JsonValue(j)
  BY <1>2 DEF JsonValue, Flat, Scalar
<1> QED
  BY <1>1, <1>3, <1>5, <1>6 DEF RestoresField, Restored

LEMMA LeafRestored ==
  ASSUME NEW f, Declared(f), NEW v, v.type \in Plain, Typed(v.type, v), f.type = v.type, NEW old
  PROVE  RestoresField(f, v, Leaf(v), old)
<1>1. LeafReads(v, Leaf(v))
  BY LeafRead
<1>2. JsonValue(Leaf(v))
  BY <1>1 DEF LeafReads, JsonValue
<1>3. CASE f.nullable /\ Leaf(v) = JsonNull
  <2>1. v \in Empty
    BY <1>1, <1>3 DEF LeafReads, Empty
  <2> QED
    BY <1>2, <1>3, <2>1 DEF RestoresField, Parsed, Restored
<1>4. CASE ~(f.nullable /\ Leaf(v) = JsonNull)
  <2>1. f.type # "array"
    BY DEF Plain, Arithmetic, Integral, Floating
  <2>2. Parsed(f, Leaf(v), old) = ValueFrom(Leaf(v), v.type)
    BY <1>4, <2>1 DEF Parsed
  <2> QED
    BY <1>1, <1>2, <2>2 DEF LeafReads, RestoresField, Restored
<1> QED
  BY <1>3, <1>4

LEMMA FieldRestored ==
  ASSUME NEW f, Declared(f), NEW v, FieldHolds(f, v), NEW old, Written(f, v) # JsonError
  PROVE  RestoresField(f, v, Written(f, v), old)
<1>0. ~(f.nullable /\ f.type = "string")
  BY DEF Written
<1>1. CASE v = Unset
  <2>1. Written(f, v) = JsonNull
    BY <1>0, <1>1 DEF Written
  <2>2. f.nullable
    <3>1. v.type = "unset"
      BY <1>1 DEF Unset, VariantOf
    <3>2. \A type : Typed(type, v) => v.type = type
      BY DEF Typed, VariantOf
    <3>3. ~VariantValue(v) /\ ~ArrayVariant(v)
      BY <3>1 DEF VariantValue, Simple, Invalid, VariantOf, Plain, Arithmetic, Integral, Floating, ArrayVariant
    <3> QED
      BY <3>1, <3>2, <3>3 DEF FieldHolds, ValueOf, Declared, Plain, Arithmetic, Integral, Floating
  <2> QED
    BY <1>1, <2>1, <2>2, NullIsJson DEF RestoresField, Parsed, Restored
<1>2. CASE v # Unset
  <2>1. ValueOf(f, v)
    BY <1>2 DEF FieldHolds
  <2>2. Written(f, v) = CASE f.type = "variant" -> WrittenVariant(v)
                          [] f.type = "enum" -> NameOf(v.of)
                          [] f.type = "array" -> Whole(FieldItems(f.elem, v.of))
                          [] OTHER -> Leaf(v)
    BY <1>0, <1>2 DEF Written, FieldItems
  <2>3. CASE f.type = "variant"
    <3>1. Written(f, v) = WrittenVariant(v)
      BY <2>2, <2>3
    <3> QED
      BY <1>2, <2>1, <2>3, <3>1, VariantRestored
  <2>4. CASE f.type = "enum"
    <3>1. Typed("enum", v)
      BY <2>1, <2>4 DEF ValueOf
    <3>2. Written(f, v) = NameOf(v.of)
      BY <2>2, <2>4
    <3> QED
      BY <2>4, <3>1, <3>2, EnumRestored
  <2>5. CASE f.type = "array"
    <3>1. Written(f, v) = Whole(FieldItems(f.elem, v.of))
      BY <2>2, <2>5
    <3> QED
      BY <2>1, <2>5, <3>1, ArrayRestored
  <2>6. CASE f.type \in Plain
    <3>1. Typed(f.type, v) /\ v.type = f.type
      BY <2>1, <2>6 DEF ValueOf, Typed, VariantOf, Plain, Arithmetic, Integral, Floating
    <3>2. Written(f, v) = Leaf(v)
      BY <2>2, <2>6 DEF Plain, Arithmetic, Integral, Floating
    <3> QED
      BY <2>6, <3>1, <3>2, LeafRestored
  <2> QED
    BY <2>3, <2>4, <2>5, <2>6 DEF Declared
<1> QED
  BY <1>1, <1>2

-----------------------------------------------------------------------------
(* The calls.                                                              *)

ObjectHolds(o) == o = [i \in Places |-> o[i]] /\ \A i \in Places : FieldHolds(Fields[i], o[i])
TextHolds ==
  text # <<>> =>
    /\ text = [i \in Places |-> Written(Fields[i], written[i])]
    /\ \A i \in Places : FieldHolds(Fields[i], written[i]) /\ text[i] # JsonError

LEMMA FieldsDeclared ==
  /\ Len(Fields) \in Nat /\ Places \subseteq Nat
  /\ \A i \in Places : Declared(Fields[i])
BY FieldAssumption DEF Places

LEMMA InitialisedHolds ==
  ObjectHolds(Initialised)
<1>1. \A i \in Places : FieldHolds(Fields[i], Initial(Fields[i]))
  BY FieldsDeclared DEF Initial, DefaultOf, Declared, FieldHolds
<1> QED
  BY <1>1 DEF Initialised, ObjectHolds

LEMMA OneFieldHolds ==
  ASSUME ObjectHolds(object), NEW i \in Places, NEW v, FieldHolds(Fields[i], v)
  PROVE  ObjectHolds([object EXCEPT ![i] = v])
BY DEF ObjectHolds

LEMMA TextIsJson ==
  ASSUME TextHolds, text # <<>>, NEW i \in Places, NEW old
  PROVE  RestoresField(Fields[i], written[i], text[i], old)
<1>1. text[i] = Written(Fields[i], written[i]) /\ FieldHolds(Fields[i], written[i]) /\ text[i] # JsonError
  BY DEF TextHolds
<1> QED
  BY <1>1, FieldsDeclared, FieldRestored

(* A visit over JSON values leaves values of the types in all fields; one  *)
(* that is not cut short leaves what is read.                              *)
LEMMA ReadsHold ==
  ASSUME ObjectHolds(object), NEW values, \A i \in Places : JsonValue(values[i]), NEW name, Reads(values, name)
  PROVE  /\ ObjectHolds(object')
         /\ ended' # "thrown" => /\ ended' = name
                                /\ \A i \in Places : /\ ~IsError(Parsed(Fields[i], values[i], object[i]))
                                                     /\ object'[i] = Parsed(Fields[i], values[i], object[i])
<1> DEFINE parsed == [i \in Places |-> Parsed(Fields[i], values[i], object[i])]
           bad == {i \in Places : IsError(parsed[i])}
           first == CHOOSE i \in bad : \A k \in bad : i <= k
<1>1. \A i \in Places : parsed[i] = Parsed(Fields[i], values[i], object[i])
  OBVIOUS
<1>2. \A i \in Places : IsError(parsed[i]) \/ FieldHolds(Fields[i], parsed[i])
  BY <1>1, FieldsDeclared, ParsedHolds
<1>3. /\ IF bad = {} THEN object' = parsed
         ELSE \E lies \in Stray(first) :
                object' = [i \in Places |->
                             IF i < first THEN parsed[i]
                             ELSE IF i = first THEN Dirty(Fields[i], values[i], object[i], lies)
                             ELSE object[i]]
      /\ ended' = IF bad = {} THEN name ELSE "thrown"
  <2>1. PICK q \in {parsed} :
          LET lost == {i \in Places : IsError(q[i])}
              least == CHOOSE i \in lost : \A k \in lost : i <= k
          IN  /\ IF lost = {} THEN object' = q
                 ELSE \E lies \in Stray(least) :
                        object' = [i \in Places |->
                                     IF i < least THEN q[i]
                                     ELSE IF i = least THEN Dirty(Fields[i], values[i], object[i], lies)
                                     ELSE object[i]]
              /\ ended' = IF lost = {} THEN name ELSE "thrown"
    BY Zenon DEF Reads
  <2>2. q = parsed
    BY <2>1
  <2> HIDE DEF parsed
  <2> QED
    BY <2>1, <2>2
<1>4. parsed = [i \in Places |-> parsed[i]]
  OBVIOUS
<1>5. CASE bad = {}
  <2>1. object' = parsed /\ ended' = name /\ \A i \in Places : ~IsError(parsed[i])
    BY <1>3, <1>5
  <2> HIDE DEF parsed
  <2> QED
    BY <1>1, <1>2, <1>4, <2>1 DEF ObjectHolds
<1>6. CASE bad # {}
  <2>1. first \in bad /\ \A k \in bad : first <= k
    <3>1. bad \subseteq Nat
      BY FieldsDeclared
    <3>2. \E i \in bad : \A k \in bad : i <= k
      BY <1>6, <3>1, LeastNatural
    <3> HIDE DEF bad
    <3> QED
      BY <3>2
  <2>2. PICK lies \in Stray(first) :
          object' = [i \in Places |->
                       IF i < first THEN parsed[i]
                       ELSE IF i = first THEN Dirty(Fields[i], values[i], object[i], lies)
                       ELSE object[i]]
    BY <1>3, <1>6
  <2>3. ended' = "thrown"
    BY <1>3, <1>6
  <2>4. ASSUME NEW i \in Places
        PROVE  FieldHolds(Fields[i], object'[i])
    <3>1. CASE i < first
      <4>0. i \in Nat /\ first \in Nat
        BY <2>1, FieldsDeclared
      <4>1. i \notin bad
        <5> HIDE DEF bad, first
        <5> QED
          BY <2>1, <3>1, <4>0
      <4>2. object'[i] = parsed[i] /\ ~IsError(parsed[i])
        BY <2>2, <3>1, <4>1
      <4> HIDE DEF parsed
      <4> QED
        BY <1>2, <4>2
    <3>2. CASE i = first
      <4>1. Exposed(Fields[i], lies)
        BY <3>2, StrayHolds
      <4>2. object'[i] = Dirty(Fields[i], values[i], object[i], lies)
        <5>1. ~(i < first)
          <6>1. i \in Nat
            BY FieldsDeclared
          <6> HIDE DEF first
          <6> QED
            BY <3>2, <6>1
        <5> HIDE DEF first, parsed, bad
        <5> QED
          BY <2>2, <3>2, <5>1
      <4>3. FieldHolds(Fields[i], object[i]) /\ Declared(Fields[i])
        BY FieldsDeclared DEF ObjectHolds
      <4> HIDE DEF first
      <4> QED
        BY <4>1, <4>2, <4>3, DirtyHolds
    <3>3. CASE ~(i < first) /\ i # first
      <4>1. object'[i] = object[i]
        BY <2>2, <3>3
      <4> QED
        BY <4>1 DEF ObjectHolds
    <3> QED
      BY <3>1, <3>2, <3>3
  <2>5. object' = [i \in Places |-> object'[i]]
    BY <2>2
  <2> QED
    BY <2>3, <2>4, <2>5 DEF ObjectHolds
<1> QED
  BY <1>5, <1>6

LEMMA JsonIInvIs ==
  JsonIInv <=> /\ ObjectHolds(object) /\ VariantValue(dynamic) /\ steps \in Nat /\ TextHolds
               /\ ended = "read" => \A i \in Places : Restored(Fields[i], written[i], object[i])
BY DEF JsonIInv, ObjectHolds, TextHolds

LEMMA JsonInitInv ==
  ObjectInit => JsonIInv
<1> SUFFICES ASSUME ObjectInit PROVE JsonIInv
  OBVIOUS
<1>1. ObjectHolds(object)
  BY InitialisedHolds DEF ObjectInit
<1>2. VariantValue(dynamic)
  BY DEF ObjectInit, VariantValue, Simple
<1>3. TextHolds /\ ended # "read" /\ steps \in Nat
  BY DEF ObjectInit, TextHolds
<1> QED
  BY <1>1, <1>2, <1>3, JsonIInvIs

(* What a call leaves behind that does not write or read a text.           *)
Edited ==
  /\ ObjectHolds(object') /\ VariantValue(dynamic')
  /\ ended' # "read" /\ UNCHANGED <<text, written>>

LEMMA SetHolds ==
  ASSUME ObjectHolds(object), VariantValue(dynamic), NEW i \in Places, NEW v, VariantValue(v), NEW w \in FieldSet(Fields[i], v),
         ended' = (IF IsError(w) THEN "thrown" ELSE "none"),
         object' = (IF IsError(w) THEN object ELSE [object EXCEPT ![i] = w]),
         UNCHANGED <<dynamic, text, written>>
  PROVE  Edited
<1>1. IsError(w) \/ FieldHolds(Fields[i], w)
  BY FieldsDeclared, FieldSetHolds
<1>2. ObjectHolds(object')
  <2>1. CASE IsError(w)
    BY <2>1
  <2>2. CASE ~IsError(w)
    <3>1. ObjectHolds([object EXCEPT ![i] = w])
      BY <1>1, <2>2, OneFieldHolds
    <3>2. object' = [object EXCEPT ![i] = w]
      BY <2>2
    <3> QED
      BY <3>1, <3>2
  <2> QED
    BY <2>1, <2>2
<1>3. VariantValue(dynamic')
  OBVIOUS
<1> QED
  BY <1>2, <1>3 DEF Edited

LEMMA JsonNextInv ==
  JsonIInv /\ [ObjectNext]_jsonVars => JsonIInv'
<1> SUFFICES ASSUME JsonIInv, [ObjectNext]_jsonVars PROVE JsonIInv'
  OBVIOUS
<1>0. /\ ObjectHolds(object) /\ VariantValue(dynamic) /\ steps \in Nat /\ TextHolds
      /\ ended = "read" => \A i \in Places : Restored(Fields[i], written[i], object[i])
  BY JsonIInvIs
<1> DEFINE Kept == /\ ObjectHolds(object') /\ VariantValue(dynamic') /\ TextHolds'
                   /\ ended' = "read" => \A i \in Places : Restored(Fields[i], written'[i], object'[i])
<1>1. Edited => Kept
  BY <1>0 DEF Edited, TextHolds
<1>2. ASSUME AssignField PROVE Kept
  <2>0. PICK i \in Places : \E v \in Inputs[i] : object' = [object EXCEPT ![i] = v]
    BY <1>2 DEF AssignField
  <2>1. PICK v \in Inputs[i] : object' = [object EXCEPT ![i] = v]
    BY <2>0
  <2>2. ObjectHolds([object EXCEPT ![i] = v])
    BY <1>0, InputAssumption, OneFieldHolds
  <2> QED
    BY <1>0, <1>1, <1>2, <2>1, <2>2 DEF AssignField, Edited
<1>3. ASSUME InitObject PROVE Kept
  BY <1>0, <1>1, <1>3, InitialisedHolds DEF InitObject, Edited
<1>4. ASSUME SetField PROVE Kept
  <2>1. PICK i \in Places, v \in Given : \E w \in FieldSet(Fields[i], v) :
          /\ ended' = IF IsError(w) THEN "thrown" ELSE "none"
          /\ object' = IF IsError(w) THEN object ELSE [object EXCEPT ![i] = w]
          /\ UNCHANGED <<dynamic, text, written>>
    BY <1>4 DEF SetField
  <2>2. VariantValue(v)
    BY InputAssumption
  <2> QED
    BY <1>0, <1>1, <2>1, <2>2, SetHolds
<1>5. ASSUME CopyField PROVE Kept
  <2>1. PICK i \in Places, k \in Places : \E w \in FieldSet(Fields[i], FieldValue(Fields[k], object[k])) :
          /\ ~IsError(FieldValue(Fields[k], object[k]))
          /\ ended' = IF IsError(w) THEN "thrown" ELSE "none"
          /\ object' = IF IsError(w) THEN object ELSE [object EXCEPT ![i] = w]
          /\ UNCHANGED <<dynamic, text, written>>
    BY <1>5 DEF CopyField
  <2>2. VariantValue(FieldValue(Fields[k], object[k]))
    BY <1>0, <2>1, FieldsDeclared, FieldValueHolds DEF ObjectHolds
  <2> QED
    BY <1>0, <1>1, <2>1, <2>2, SetHolds
<1>6. ASSUME SetDynamic PROVE Kept
  BY <1>0, <1>1, <1>6, InputAssumption DEF SetDynamic, Edited
<1>7. ASSUME ToJson PROVE Kept
  <2> DEFINE values == [i \in Places |-> Written(Fields[i], object[i])]
             failed == \E i \in Places : values[i] = JsonError
  <2>1. /\ text' = IF failed THEN text ELSE values
        /\ written' = IF failed THEN written ELSE object
        /\ ended' # "read" /\ UNCHANGED <<object, dynamic>>
    BY <1>7 DEF ToJson
  <2>2. CASE failed
    <3>1. Edited
      BY <1>0, <2>1, <2>2 DEF Edited
    <3> QED
      BY <1>1, <3>1
  <2>3. CASE ~failed
    <3>1. text' = values /\ written' = object /\ \A i \in Places : values[i] # JsonError
      BY <2>1, <2>3
    <3>2. TextHolds'
      BY <1>0, <3>1 DEF TextHolds, ObjectHolds
    <3> QED
      BY <1>0, <2>1, <3>2
  <2> QED
    BY <2>2, <2>3
<1>8. ASSUME FromJson PROVE Kept
  <2>1. text # <<>> /\ Reads(text, "read")
    BY <1>8 DEF FromJson
  <2>2. \A i \in Places : RestoresField(Fields[i], written[i], text[i], object[i])
    BY <1>0, <2>1, TextIsJson
  <2>3. \A i \in Places : JsonValue(text[i])
    BY <2>2 DEF RestoresField
  <2>4. /\ ObjectHolds(object')
        /\ ended' # "thrown" => \A i \in Places : /\ ~IsError(Parsed(Fields[i], text[i], object[i]))
                                                  /\ object'[i] = Parsed(Fields[i], text[i], object[i])
    BY <1>0, <2>1, <2>3, ReadsHold
  <2>5. UNCHANGED <<dynamic, text, written>>
    BY <2>1 DEF Reads
  <2>6. ended' = "read" => \A i \in Places : Restored(Fields[i], written'[i], object'[i])
    BY <2>2, <2>4, <2>5 DEF RestoresField
  <2> QED
    BY <1>0, <2>4, <2>5, <2>6 DEF TextHolds
<1>9. ASSUME FromStrangeJson PROVE Kept
  <2>1. text # <<>>
    BY <1>9 DEF FromStrangeJson
  <2>2. PICK k \in Places, j \in Strange : Reads([text EXCEPT ![k] = j], "none")
    BY <1>9 DEF FromStrangeJson
  <2>3. \A i \in Places : JsonValue(text[i])
    BY <1>0, <2>1, TextIsJson DEF RestoresField
  <2>4. DOMAIN text = Places
    BY <1>0, <2>1 DEF TextHolds
  <2>5. \A i \in Places : JsonValue(([text EXCEPT ![k] = j])[i])
    BY <2>3, <2>4, ItemIsValue, InputAssumption
  <2>6. ObjectHolds(object') /\ (ended' # "thrown" => ended' = "none")
    BY <1>0, <2>2, <2>5, ReadsHold
  <2>7. UNCHANGED <<dynamic, text, written>>
    BY <2>2 DEF Reads
  <2> QED
    BY <1>0, <1>1, <2>6, <2>7 DEF Edited
<1>10. ASSUME UNCHANGED jsonVars PROVE JsonIInv'
  BY <1>10 DEF jsonVars, JsonIInv
<1>11. ASSUME ObjectNext PROVE JsonIInv'
  <2>1. steps' \in Nat
    BY <1>0, <1>11 DEF ObjectNext
  <2>2. Kept
    BY <1>2, <1>3, <1>4, <1>5, <1>6, <1>7, <1>8, <1>9, <1>11 DEF ObjectNext
  <2> QED
    BY <2>1, <2>2, JsonIInvIs DEF JsonIInv, ObjectHolds, TextHolds
<1> QED
  BY <1>10, <1>11

(* Fields hold values of their types, and a text what was written of such, *)
(* in any history of assignments, property writes and visits that end early.*)
THEOREM ObjectInvariant == JsonSpec => []JsonIInv
BY JsonInitInv, JsonNextInv, PTL DEF JsonSpec

LEMMA InvRestores ==
  JsonIInv => JsonRestores
<1> SUFFICES ASSUME JsonIInv PROVE JsonRestores
  OBVIOUS
<1>1. /\ ObjectHolds(object)
      /\ ended = "read" => \A i \in Places : Restored(Fields[i], written[i], object[i])
  BY JsonIInvIs
<1>2. \A i \in Places : FieldHolds(Fields[i], object[i]) /\ Declared(Fields[i])
  BY <1>1, FieldsDeclared DEF ObjectHolds
<1>3. \A i \in Places : Fields[i].type \notin {"object", "array"} =>
         FieldSet(Fields[i], FieldValue(Fields[i], object[i])) =
           {IF Fields[i].nullable /\ object[i] = Invalid THEN Unset ELSE object[i]}
  BY <1>2, FieldTakenBack
<1> QED
  BY <1>1, <1>3 DEF JsonRestores

(* Whatever an object went through, reading back what toJson() wrote of it *)
(* restores every field, and setProperty takes what getProperty gives      *)
(* (JsonSerializerVisitor.cpp:61, JsonDeserializerVisitor.cpp:104).        *)
THEOREM JsonIsFaithful == JsonSpec => []JsonRestores
<1>1. JsonSpec => []JsonIInv
  BY ObjectInvariant
<1> QED
  BY <1>1, InvRestores, PTL
=============================================================================
