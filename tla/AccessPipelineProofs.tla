------------------------ MODULE AccessPipelineProofs ------------------------
(***************************************************************************)
(* Proofs about AccessPipeline for every set of connections, keys, slots   *)
(* and timestamps and every choice of the limits: a connection's count is  *)
(* at one place, and is lost at a limit or with the process only.          *)
(***************************************************************************)
EXTENDS AccessPipeline, TLAPS, FiniteSetTheorems, SequenceTheorems

\* The connections a list of items reports.
Carried(list) == ConnsOf(ItemsOf(list))
InHand == [s \in Slot |-> Carried(hand[s])]

\* No two items of a list, and no two items or rows of a set, report the same
\* connection.
OnceInList(list) == \A m, n \in DOMAIN list : \A c \in list[m].conns : c \in list[n].conns => m = n
OnceInItems(items) == \A a, b \in items : \A c \in a.conns : c \in b.conns => a = b
OnceInRows(rows) == \A a, b \in rows : \A c \in ConnsOf(a.items) : c \in ConnsOf(b.items) => a = b

\* What left the accumulator: rows of the log, rows a session still sends or
\* has on the wire (they may have been pruned since), and what is settled.
Wire == UNION {todo[s] \cup ItemsOf(toServer[s]) : s \in Slot}
Sent == settled \cup RowConns(wal \cup Wire)

\* Connections in the recorder (f), waiting (p), in the hands of collectors
\* (h), in the accumulator (a) and sent (o) are different ones.
Apart(f, p, h, a, o) ==
  /\ \A c \in f : c \notin p /\ c \notin a /\ c \notin o /\ \A s \in Slot : c \notin h[s]
  /\ \A c \in p : c \notin a /\ c \notin o /\ \A s \in Slot : c \notin h[s]
  /\ \A c \in a : c \notin o /\ \A s \in Slot : c \notin h[s]
  /\ \A s \in Slot : \A c \in h[s] : c \notin o /\ \A t \in Slot : c \in h[t] => s = t

\* A count is at one place, and only a connection that was accepted has one.
Known == {c \in Conn : phase[c] # "none"}
OnceInv ==
  /\ OnceInList(pending) /\ (\A s \in Slot : OnceInList(hand[s]))
  /\ OnceInItems(accumulator) /\ OnceInRows(wal)
  /\ Apart(fresh, Carried(pending), InHand, ConnsOf(accumulator), Sent)
  /\ fresh \cup Carried(pending) \cup ConnsOf(accumulator) \cup Sent \subseteq Known
  /\ \A s \in Slot : InHand[s] \subseteq Known

\* The sets whose elements are counted are finite.
FiniteInv ==
  /\ IsFiniteSet(recorder) /\ IsFiniteSet(accumulator) /\ IsFiniteSet(wal)
  /\ \A s \in Slot : IsFiniteSet(seen[s].closed \cup seen[s].due)

\* Rows have distinct sequence numbers and no more items than DrainAccess takes.
LogInv ==
  /\ \A b \in wal : /\ b.seq <= sequence
                    /\ IsFiniteSet(b.items) /\ Cardinality(b.items) <= BatchItems
  /\ \A a, b \in wal : a.seq = b.seq => a = b

\* The collector starts after the handshake; one that starts a round or sends
\* has nothing in its hands; and the server has settled what it acknowledges
\* as settled.
SessionInv ==
  /\ \A s \in Slot : sess[s] = "flush" => worker[s] = "dead"
  /\ \A s \in Slot : worker[s] \notin {"draining", "collected", "refused"} => hand[s] = <<>>
  /\ \A s \in Slot : \A n \in DOMAIN toClient[s] :
       toClient[s][n].status = "settled" => ConnsOf(toClient[s][n].row.items) \subseteq settled

\* The inductive invariant.
IInv == TypeOK /\ FiniteInv /\ LogInv /\ SessionInv /\ OnceInv

-----------------------------------------------------------------------------
(* Lists of items.                                                         *)

\* The empty list carries nothing.
LEMMA EmptyList ==
  /\ <<>> \in Seq(Item) /\ Len(<<>>) = 0 /\ DOMAIN <<>> = {}
  /\ Carried(<<>>) = {} /\ OnceInList(<<>>)
  BY EmptySeq DEF Carried, ConnsOf, ItemsOf, OnceInList

\* What a list carries, said with indices.
LEMMA CarriedIs ==
  ASSUME NEW list, NEW c
  PROVE  c \in Carried(list) <=> \E n \in DOMAIN list : c \in list[n].conns
  BY DEF Carried, ConnsOf, ItemsOf

\* Appending a list (pending \o ..., xray.go:286, 301, 341).
LEMMA Concatenation ==
  ASSUME NEW x \in Seq(Item), NEW y \in Seq(Item)
  PROVE  /\ x \o y \in Seq(Item) /\ Len(x \o y) = Len(x) + Len(y)
         /\ Carried(x \o y) = Carried(x) \cup Carried(y)
         /\ OnceInList(x) /\ OnceInList(y) /\ Carried(x) \cap Carried(y) = {}
              => OnceInList(x \o y)
  <1> DEFINE z == x \o y
  <1>1. /\ z \in Seq(Item) /\ Len(z) = Len(x) + Len(y)
        /\ DOMAIN z = 1..(Len(x) + Len(y)) /\ DOMAIN x = 1..Len(x) /\ DOMAIN y = 1..Len(y)
        /\ Len(x) \in Nat /\ Len(y) \in Nat
    BY ConcatProperties, LenProperties
  <1>2. /\ \A i \in 1..Len(x) : z[i] = x[i]
        /\ \A i \in (Len(x) + 1)..(Len(x) + Len(y)) : z[i] = y[i - Len(x)]
    BY <1>1, ConcatProperties
  <1>3. \A i \in 1..Len(y) : z[Len(x) + i] = y[i]
    <2> TAKE i \in 1..Len(y)
    <2>1. Len(x) + i \in (Len(x) + 1)..(Len(x) + Len(y)) /\ (Len(x) + i) - Len(x) = i
      BY <1>1
    <2> QED
      BY <1>2, <2>1
  <1> HIDE DEF z
  <1>4. ASSUME NEW c PROVE c \in Carried(z) <=> c \in Carried(x) \/ c \in Carried(y)
    <2>1. ASSUME NEW i \in DOMAIN z, c \in z[i].conns
          PROVE  c \in Carried(x) \/ c \in Carried(y)
      <3>1. CASE i <= Len(x)
        BY <3>1, <2>1, <1>1, <1>2, CarriedIs
      <3>2. CASE i > Len(x)
        <4>1. i - Len(x) \in DOMAIN y /\ z[i] = y[i - Len(x)]
          BY <3>2, <1>1, <1>2
        <4> QED
          BY <4>1, <2>1, CarriedIs
      <3> QED
        BY <3>1, <3>2, <1>1
    <2>2. ASSUME NEW i \in DOMAIN x, c \in x[i].conns PROVE c \in Carried(z)
      <3>1. i \in DOMAIN z /\ z[i] = x[i]
        BY <1>1, <1>2
      <3> QED
        BY <3>1, <2>2, CarriedIs
    <2>3. ASSUME NEW i \in DOMAIN y, c \in y[i].conns PROVE c \in Carried(z)
      <3>1. Len(x) + i \in DOMAIN z /\ z[Len(x) + i] = y[i]
        BY <1>1, <1>3
      <3> QED
        BY <3>1, <2>3, CarriedIs
    <2> QED
      BY <2>1, <2>2, <2>3, CarriedIs
  <1>5. ASSUME OnceInList(x), OnceInList(y), Carried(x) \cap Carried(y) = {}
        PROVE  OnceInList(z)
    <2> SUFFICES ASSUME NEW m \in DOMAIN z, NEW n \in DOMAIN z, NEW c \in z[m].conns,
                        c \in z[n].conns
                 PROVE  m = n
      BY DEF OnceInList
    <2>1. \A i \in DOMAIN z : /\ i <= Len(x) => i \in DOMAIN x /\ z[i] = x[i]
                              /\ i > Len(x) => i - Len(x) \in DOMAIN y /\ z[i] = y[i - Len(x)]
      BY <1>1, <1>2
    <2>2. \A i \in DOMAIN z : c \in z[i].conns =>
            /\ i <= Len(x) => c \in Carried(x)
            /\ i > Len(x) => c \in Carried(y)
      BY <2>1, CarriedIs
    <2>3. CASE m <= Len(x) /\ n <= Len(x)
      BY <2>1, <2>3, <1>5 DEF OnceInList
    <2>4. CASE m > Len(x) /\ n > Len(x)
      <3>1. m - Len(x) = n - Len(x)
        BY <2>1, <2>4, <1>5 DEF OnceInList
      <3> QED
        BY <3>1, <1>1
    <2> QED
      BY <2>2, <2>3, <2>4, <1>1, <1>5
  <1> QED
    BY <1>1, <1>4, <1>5 DEF z

\* The end of a list (RequeueAccess, xray.go:298).
LEMMA EndOfList ==
  ASSUME NEW x \in Seq(Item), NEW k \in 1..(Len(x) + 1)
  PROVE  LET y == SubSeq(x, k, Len(x))
         IN /\ y \in Seq(Item) /\ Len(y) = (Len(x) - k) + 1
            /\ Carried(y) \subseteq Carried(x)
            /\ OnceInList(x) => OnceInList(y)
  <1> DEFINE y == SubSeq(x, k, Len(x))
  <1>1. DOMAIN x = 1..Len(x) /\ Len(x) \in Nat /\ \A i \in 1..Len(x) : x[i] \in Item
    BY LenProperties, ElementOfSeq
  <1>2. \A i \in k..Len(x) : x[i] \in Item
    BY <1>1
  <1>3. /\ y \in Seq(Item) /\ Len(y) = (Len(x) - k) + 1
        /\ \A i \in 1..((Len(x) - k) + 1) : y[i] = x[(k + i) - 1]
    BY <1>1, <1>2, SubSeqProperties
  <1>4. DOMAIN y = 1..((Len(x) - k) + 1)
    BY <1>3, LenProperties
  <1> HIDE DEF y
  <1>5. \A i \in DOMAIN y : (k + i) - 1 \in DOMAIN x /\ y[i] = x[(k + i) - 1]
    BY <1>1, <1>3, <1>4
  <1>6. Carried(y) \subseteq Carried(x)
    BY <1>5, CarriedIs
  <1>7. ASSUME OnceInList(x), NEW m \in DOMAIN y, NEW n \in DOMAIN y, NEW c \in y[m].conns,
               c \in y[n].conns
        PROVE  m = n
    <2>1. (k + m) - 1 = (k + n) - 1
      BY <1>5, <1>7 DEF OnceInList
    <2> QED
      BY <2>1, <1>1, <1>4
  <1> QED
    BY <1>3, <1>6, <1>7 DEF OnceInList, y

-----------------------------------------------------------------------------
(* Least and greatest numbers.                                             *)

\* A set of numbers that is not empty has a least one ...
LEMMA LeastNumber ==
  ASSUME NEW T \in SUBSET Nat, T # {}
  PROVE  \E x \in T : \A y \in T : x <= y
  <1> DEFINE R == OpToRel(<, Nat)
  <1>1. IsWellFoundedOn(R, Nat)
    BY NatLessThanWellFounded
  <1> HIDE DEF R
  <1>2. PICK x \in T : \A y \in T : ~(<<y, x>> \in R)
    BY <1>1, WFMin
  <1>3. \A y \in T : ~(y < x)
    BY <1>2 DEF R, OpToRel
  <1> QED
    BY <1>3

\* ... and, if it is bounded, a greatest one.
LEMMA GreatestNumber ==
  ASSUME NEW T \in SUBSET Nat, T # {}, NEW N \in Nat, \A y \in T : y <= N
  PROVE  \E x \in T : \A y \in T : y <= x
  <1> DEFINE U == {N - y : y \in T}
  <1>1. U \in SUBSET Nat /\ U # {}
    <2>1. \A y \in T : N - y \in Nat
      OBVIOUS
    <2>2. PICK y \in T : TRUE
      OBVIOUS
    <2>3. N - y \in U
      BY <2>2
    <2> QED
      BY <2>1, <2>3
  <1>2. PICK u \in U : \A w \in U : u <= w
    BY <1>1, LeastNumber
  <1>3. PICK x \in T : u = N - x
    BY <1>2
  <1>4. ASSUME NEW y \in T PROVE y <= x
    <2>1. N - x <= N - y
      BY <1>2, <1>3
    <2> QED
      BY <2>1
  <1> QED
    BY <1>4

\* The last item of a key.
LEMMA LastExists ==
  ASSUME NEW list \in Seq(Item), NEW m \in DOMAIN list
  PROVE  \E n \in LastOfKey(list) : list[n].key = list[m].key
  <1> DEFINE T == {n \in DOMAIN list : list[n].key = list[m].key}
  <1>1. DOMAIN list = 1..Len(list) /\ Len(list) \in Nat
    BY LenProperties
  <1>2. T \in SUBSET Nat /\ T # {} /\ \A y \in T : y <= Len(list)
    BY <1>1
  <1>3. PICK n \in T : \A y \in T : y <= n
    BY <1>1, <1>2, GreatestNumber
  <1> QED
    BY <1>3 DEF LastOfKey

-----------------------------------------------------------------------------
(* What Drain returns and what AddAccess stores.                           *)

\* A sample of a key takes the counts of its connections that are still fresh
\* (snapshot, dispatcher/access.go:236).
LEMMA SampleIs ==
  ASSUME NEW k, NEW closed, NEW due
  PROVE  LET group == {c \in closed \cup due : key[c] = k}
         IN /\ Sample(k, closed, due).key = k
            /\ Sample(k, closed, due).conns = group \cap fresh
  BY DEF Sample, SampleConns

\* A drained recorder yields each count it has not yielded yet once
\* (AccessRecorder.Drain, access.go:180; snapshot, access.go:236).
LEMMA DrainedList ==
  ASSUME TypeOK, NEW closed \in SUBSET Conn, NEW due \in SUBSET Conn,
         IsFiniteSet(closed \cup due), NEW list \in Sorted(Sampled(closed, due))
  PROVE  /\ list \in Seq(Item)
         /\ Carried(list) = fresh \cap (closed \cup due)
         /\ OnceInList(list)
  <1> DEFINE items == Sampled(closed, due)
             f == [c \in closed \cup due |-> Sample(key[c], closed, due)]
  <1>1. items \subseteq Item
    <2> SUFFICES ASSUME NEW c \in closed \cup due
                 PROVE  Sample(key[c], closed, due) \in Item
      BY DEF Sampled
    <2>1. key[c] \in Key /\ fresh \subseteq Conn
      BY DEF TypeOK
    <2> QED
      BY <2>1 DEF Sample, SampleConns, Item
  <1>2. f \in Surjection(closed \cup due, items)
    BY DEF Surjection, Sampled
  <1>3. IsFiniteSet(items) /\ Cardinality(items) \in Nat
    BY <1>2, FS_Surjection, FS_CardinalityType
  <1>4. /\ list \in [1..Cardinality(items) -> items]
        /\ ItemsOf(list) = items
        /\ \A m, n \in DOMAIN list : m < n => list[m].key < list[n].key
    BY DEF Sorted
  <1>5. list \in Seq(Item)
    BY <1>1, <1>3, <1>4, SeqDef
  <1>6. ASSUME NEW n \in DOMAIN list
        PROVE  /\ list[n].key \in Nat
               /\ \A c \in list[n].conns : /\ c \in fresh \cap (closed \cup due)
                                           /\ key[c] = list[n].key
    <2>1. list[n] \in items
      BY <1>4
    <2>2. PICK c \in closed \cup due : list[n] = Sample(key[c], closed, due)
      BY <2>1 DEF Sampled
    <2>3. key[c] \in Nat
      BY LimitsAssumption DEF TypeOK
    <2> QED
      BY <2>2, <2>3, SampleIs
  <1>7. ASSUME NEW c \in fresh \cap (closed \cup due) PROVE c \in Carried(list)
    <2>1. /\ Sample(key[c], closed, due) \in items
          /\ c \in Sample(key[c], closed, due).conns
      BY <1>7, SampleIs DEF Sampled
    <2> QED
      BY <1>4, <2>1 DEF Carried, ConnsOf
  <1>8. OnceInList(list)
    <2> SUFFICES ASSUME NEW m \in DOMAIN list, NEW n \in DOMAIN list, NEW c \in list[m].conns,
                        c \in list[n].conns
                 PROVE  m = n
      BY DEF OnceInList
    <2>1. list[m].key = list[n].key /\ list[m].key \in Nat /\ m \in Nat /\ n \in Nat
      BY <1>3, <1>4, <1>6
    <2> QED
      BY <1>4, <2>1
  <1> QED
    BY <1>5, <1>6, <1>7, <1>8, CarriedIs

\* AddAccess keeps one entry per key and neither drops nor doubles a count
\* (access.go:41-64).
LEMMA UpsertKeepsCounts ==
  ASSUME NEW table \in SUBSET Item, IsFiniteSet(table), NEW list \in Seq(Item),
         \A a, b \in table : a.key = b.key => a = b
  PROVE  LET new == Upserted(table, list)
         IN /\ new \subseteq Item /\ IsFiniteSet(new)
            /\ \A a, b \in new : a.key = b.key => a = b
            /\ ConnsOf(new) = ConnsOf(table) \cup Carried(list)
            /\ OnceInItems(table) /\ OnceInList(list) /\ ConnsOf(table) \cap Carried(list) = {}
                 => OnceInItems(new)
  <1> DEFINE all == table \cup ItemsOf(list)
             kept == {a \in table : \A i \in ItemsOf(list) : i.key # a.key}
             Put(n) == [list[n] EXCEPT !.conns = ConnsOf({i \in all : i.key = list[n].key})]
             puts == {Put(n) : n \in LastOfKey(list)}
             new == Upserted(table, list)
  <1>1. DOMAIN list = 1..Len(list) /\ Len(list) \in Nat /\ \A n \in DOMAIN list : list[n] \in Item
    BY LenProperties, ElementOfSeq
  <1>2. all \subseteq Item /\ new = kept \cup puts
    BY <1>1 DEF Upserted, ItemsOf
  <1>3. LastOfKey(list) \subseteq DOMAIN list
    BY DEF LastOfKey
  <1>4. ASSUME NEW n \in LastOfKey(list)
        PROVE  /\ Put(n) \in Item
               /\ Put(n).key = list[n].key
               /\ \A c : c \in Put(n).conns <=>
                           \E i \in all : i.key = list[n].key /\ c \in i.conns
    <2>1. list[n] \in Item
      BY <1>1, <1>3
    <2>2. ConnsOf({i \in all : i.key = list[n].key}) \in SUBSET Conn
      BY <1>2 DEF ConnsOf, Item
    <2>3. Put(n).conns = ConnsOf({i \in all : i.key = list[n].key})
      BY <2>1 DEF Item
    <2> QED
      BY <2>1, <2>2, <2>3 DEF Item, ConnsOf
  <1> HIDE DEF Put
  <1>5. new \subseteq Item
    BY <1>2, <1>4
  <1>6. IsFiniteSet(new)
    <2> DEFINE f == [n \in LastOfKey(list) |-> Put(n)]
    <2>0. IsFiniteSet(1..Len(list))
      BY <1>1, FS_Interval
    <2>1. IsFiniteSet(LastOfKey(list))
      BY <1>1, <1>3, <2>0, FS_Subset
    <2>2. f \in Surjection(LastOfKey(list), puts)
      BY DEF Surjection
    <2>3. IsFiniteSet(puts)
      BY <2>1, <2>2, FS_Surjection
    <2>4. IsFiniteSet(kept)
      BY FS_Subset
    <2> HIDE DEF kept, puts, new
    <2> QED
      BY <1>2, <2>3, <2>4, FS_Union
  <1>7. ASSUME NEW a \in new, NEW b \in new, a.key = b.key PROVE a = b
    <2>1. \A x \in kept : \A n \in LastOfKey(list) : x.key # Put(n).key
      BY <1>3, <1>4 DEF ItemsOf
    <2>2. \A m, n \in LastOfKey(list) : Put(m).key = Put(n).key => m = n
      <3> TAKE m, n \in LastOfKey(list)
      <3> HAVE Put(m).key = Put(n).key
      <3>1. list[m].key = list[n].key /\ m \in Nat /\ n \in Nat
        BY <1>1, <1>3, <1>4
      <3>2. m <= n /\ n <= m
        BY <3>1, <1>3 DEF LastOfKey
      <3> QED
        BY <3>1, <3>2
    <2> QED
      BY <1>2, <1>7, <2>1, <2>2
  <1>8. ASSUME NEW a \in new, NEW c \in a.conns
        PROVE  \E i \in all : i.key = a.key /\ c \in i.conns
    BY <1>2, <1>4, <1>8
  <1>9. ASSUME NEW i \in all, NEW c \in i.conns
        PROVE  \E a \in new : c \in a.conns
    <2>1. CASE \E j \in ItemsOf(list) : j.key = i.key
      <3>1. PICK m \in DOMAIN list : list[m].key = i.key
        BY <2>1 DEF ItemsOf
      <3>2. PICK n \in LastOfKey(list) : list[n].key = i.key
        BY <3>1, LastExists
      <3> QED
        BY <1>2, <1>4, <1>9, <3>2
    <2>2. CASE \A j \in ItemsOf(list) : j.key # i.key
      BY <1>2, <1>9, <2>2
    <2> QED
      BY <2>1, <2>2
  <1>10. ConnsOf(new) = ConnsOf(table) \cup Carried(list)
    BY <1>8, <1>9 DEF ConnsOf, Carried
  <1>11. ASSUME OnceInItems(table), OnceInList(list), ConnsOf(table) \cap Carried(list) = {},
                NEW a \in new, NEW b \in new, NEW c \in a.conns, c \in b.conns
         PROVE  a = b
    <2>1. PICK i \in all : i.key = a.key /\ c \in i.conns
      BY <1>8, <1>11
    <2>2. PICK j \in all : j.key = b.key /\ c \in j.conns
      BY <1>8, <1>11
    <2>3. i = j
      <3>1. CASE i \in table /\ j \in table
        BY <3>1, <2>1, <2>2, <1>11 DEF OnceInItems
      <3>2. CASE i \in ItemsOf(list) /\ j \in ItemsOf(list)
        BY <3>2, <2>1, <2>2, <1>11 DEF OnceInList, ItemsOf
      <3> QED
        BY <3>1, <3>2, <2>1, <2>2, <1>11 DEF ConnsOf, Carried
    <2> QED
      BY <2>1, <2>2, <2>3, <1>7
  <1> QED
    BY <1>5, <1>6, <1>7, <1>10, <1>11 DEF OnceInItems

-----------------------------------------------------------------------------
(* The log and its limits.                                                 *)

\* DrainAccess takes at most maxAccessBatchItems items (access.go:100).
LEMMA BatchIsBounded ==
  ASSUME TypeOK, FiniteInv
  PROVE  /\ FirstItems \subseteq accumulator
         /\ IsFiniteSet(FirstItems) /\ Cardinality(FirstItems) <= BatchItems
  <1> DEFINE Lower(a) == {b \in accumulator : b.key < a.key}
             f == [a \in FirstItems |-> Cardinality(Lower(a))]
             places == 0..(BatchItems - 1)
  <1>1. BatchItems \in Nat /\ BatchItems > 0
    BY LimitsAssumption
  <1>2. FirstItems \subseteq accumulator
    BY DEF FirstItems
  <1>3. /\ \A a \in accumulator : a.key \in Nat
        /\ \A a, b \in accumulator : a.key = b.key => a = b
    BY LimitsAssumption DEF TypeOK, Item
  <1>4. \A a \in accumulator : IsFiniteSet(Lower(a)) /\ Cardinality(Lower(a)) \in Nat
    BY FS_Subset, FS_CardinalityType DEF FiniteInv
  <1>5. ASSUME NEW a \in accumulator, NEW b \in accumulator, a.key < b.key
        PROVE  Cardinality(Lower(a)) # Cardinality(Lower(b))
    <2>1. Lower(a) \in SUBSET Lower(b)
      BY <1>3, <1>5
    <2>2. a \in Lower(b) /\ a \notin Lower(a)
      BY <1>3, <1>5
    <2> HIDE DEF Lower
    <2> QED
      BY <1>4, <2>1, <2>2, FS_Subset
  <1>6. \A a \in FirstItems : Cardinality(Lower(a)) \in places
    BY <1>1, <1>2, <1>4 DEF FirstItems
  <1>7. IsFiniteSet(places) /\ Cardinality(places) = BatchItems
    BY <1>1, FS_Interval
  <1> HIDE DEF Lower, places
  <1>8. ASSUME NEW a \in FirstItems, NEW b \in FirstItems, f[a] = f[b] PROVE a = b
    <2>1. ~(a.key < b.key) /\ ~(b.key < a.key)
      BY <1>2, <1>5, <1>8
    <2>2. a.key = b.key
      BY <1>2, <1>3, <2>1
    <2> QED
      BY <1>2, <1>3, <2>2
  <1>9. f \in Injection(FirstItems, places)
    <2>1. f \in [FirstItems -> places]
      BY <1>6
    <2> HIDE DEF f
    <2> QED
      BY <1>8, <2>1 DEF Injection, IsInjective
  <1> HIDE DEF f
  <1>10. IsFiniteSet(FirstItems) /\ Cardinality(FirstItems) <= Cardinality(places)
    BY <1>9, <1>7, FS_Injection
  <1> QED
    BY <1>2, <1>7, <1>10

\* The payload of rows, item by item.
Payload(rows) == UNION {{b} \X b.items : b \in rows}

\* Finitely many rows of finitely many items have a size.
LEMMA PayloadFinite ==
  ASSUME NEW rows, IsFiniteSet(rows), \A b \in rows : IsFiniteSet(b.items)
  PROVE  IsFiniteSet(Payload(rows)) /\ Bytes(rows) \in Nat /\ Bytes(rows) = Cardinality(Payload(rows))
  <1> DEFINE S == {{b} \X b.items : b \in rows}
             f == [b \in rows |-> {b} \X b.items]
  <1>1. f \in Surjection(rows, S)
    BY DEF Surjection
  <1>2. IsFiniteSet(S)
    BY <1>1, FS_Surjection
  <1>3. ASSUME NEW b \in rows PROVE IsFiniteSet({b} \X b.items)
    BY FS_Singleton, FS_Product
  <1>4. \A T \in S : IsFiniteSet(T)
    BY <1>3
  <1>5. Payload(rows) = UNION S
    BY DEF Payload
  <1> HIDE DEF S
  <1>6. IsFiniteSet(Payload(rows))
    BY <1>2, <1>4, <1>5, FS_UNION
  <1> QED
    BY <1>6, FS_CardinalityType DEF Bytes, Payload

\* Fewer rows are not larger.
LEMMA BytesGrow ==
  ASSUME NEW rows, IsFiniteSet(rows), \A b \in rows : IsFiniteSet(b.items),
         NEW some \in SUBSET rows
  PROVE  Bytes(some) \in Nat /\ Bytes(some) <= Bytes(rows)
  <1>1. Payload(some) \in SUBSET Payload(rows)
    BY DEF Payload
  <1>2. IsFiniteSet(some)
    BY FS_Subset
  <1>3. IsFiniteSet(Payload(rows))
    BY PayloadFinite
  <1>4. Bytes(some) \in Nat /\ Bytes(some) = Cardinality(Payload(some))
    BY <1>2, PayloadFinite
  <1>5. Bytes(rows) = Cardinality(Payload(rows))
    BY PayloadFinite
  <1> QED
    BY <1>1, <1>3, <1>4, <1>5, FS_Subset

\* A row adds at most its own items.
LEMMA BytesOfOneMore ==
  ASSUME NEW rows, IsFiniteSet(rows), \A b \in rows : IsFiniteSet(b.items),
         NEW b, IsFiniteSet(b.items)
  PROVE  Bytes(rows \cup {b}) <= Bytes(rows) + Cardinality(b.items)
  <1> DEFINE own == {b} \X b.items
             more == rows \cup {b}
  <1>1. Payload(more) = Payload(rows) \cup own
    BY DEF Payload
  <1>2. IsFiniteSet({b}) /\ Cardinality({b}) = 1
    BY FS_Singleton
  <1>3. Cardinality(b.items) \in Nat
    BY FS_CardinalityType
  <1>4. IsFiniteSet(own) /\ Cardinality(own) = 1 * Cardinality(b.items)
    BY <1>2, FS_Product
  <1>5. IsFiniteSet(more) /\ \A r \in more : IsFiniteSet(r.items)
    BY FS_AddElement
  <1> HIDE DEF own, more
  <1>6. IsFiniteSet(Payload(rows)) /\ Bytes(rows) = Cardinality(Payload(rows)) /\ Bytes(rows) \in Nat
    BY PayloadFinite
  <1>7. Bytes(more) = Cardinality(Payload(rows) \cup own)
    BY <1>1, <1>5, PayloadFinite
  <1>8. Cardinality(Payload(rows) \cup own)
          = Cardinality(Payload(rows)) + Cardinality(own) - Cardinality(Payload(rows) \cap own)
    BY <1>4, <1>6, FS_Union
  <1>9. Cardinality(Payload(rows) \cap own) \in Nat
    BY <1>6, FS_Intersection, FS_CardinalityType
  <1>10. Cardinality(own) = Cardinality(b.items)
    BY <1>3, <1>4
  <1> QED
    BY <1>3, <1>6, <1>7, <1>8, <1>9, <1>10 DEF more

\* created_at and sequence order rows totally (access.go:191).
LEMMA RowOrder ==
  ASSUME NEW a \in Row, NEW b \in Row, NEW d \in Row
  PROVE  /\ ~Before(a, a)
         /\ Before(a, b) => ~Before(b, a)
         /\ Before(a, b) /\ Before(b, d) => Before(a, d)
         /\ a.seq # b.seq => Before(a, b) \/ Before(b, a)
  <1>1. \A r \in {a, b, d} : r.created \in Nat /\ r.seq \in Nat
    BY LimitsAssumption DEF Row
  <1> QED
    BY <1>1 DEF Before

\* pruneAccessWALTx keeps the newest rows, within both limits, and drops one
\* only when the rows it keeps leave no room for it (access.go:235-266).
LEMMA PruneKeepsLimits ==
  ASSUME NEW rows \in SUBSET Row, IsFiniteSet(rows),
         \A a, b \in rows : a.seq = b.seq => a = b,
         \A b \in rows : IsFiniteSet(b.items) /\ Cardinality(b.items) <= BatchItems
  PROVE  LET kept == PruneAccessWAL(rows)
         IN /\ kept \subseteq rows /\ IsFiniteSet(kept)
            /\ Cardinality(kept) <= MaxBatches /\ Bytes(kept) <= MaxBytes
            /\ kept # rows => WALFull(kept)
  <1> DEFINE kept == PruneAccessWAL(rows)
             From(b) == NotOlder(rows, b)
             Size(b) == Cardinality(From(b))
  <1>0. /\ MaxBatches \in Nat /\ MaxBytes \in Nat /\ BatchItems \in Nat
        /\ MaxBatches > 0 /\ MaxBytes > 0
    BY LimitsAssumption
  <1>1. kept \subseteq rows /\ IsFiniteSet(kept)
    BY FS_Subset DEF PruneAccessWAL
  <1>2. \A b \in rows : /\ From(b) \in SUBSET rows /\ b \in From(b)
                        /\ \A a \in rows : a \in From(b) <=> ~Before(a, b)
    BY RowOrder DEF NotOlder
  <1>3. \A b \in rows : IsFiniteSet(From(b)) /\ Size(b) \in Nat
    BY <1>2, FS_Subset, FS_CardinalityType
  <1>4. \A b \in rows : b \in kept <=> Size(b) <= MaxBatches /\ Bytes(From(b)) <= MaxBytes
    BY DEF PruneAccessWAL
  <1>5. \A a, b \in rows : a = b \/ Before(a, b) \/ Before(b, a)
    BY RowOrder
  <1> HIDE DEF kept, From
  <1>6. ASSUME NEW a \in rows, NEW b \in rows, Before(b, a)
        PROVE  /\ From(a) \in SUBSET From(b) /\ Size(a) < Size(b)
               /\ Bytes(From(a)) \in Nat /\ Bytes(From(b)) \in Nat
               /\ Bytes(From(a)) <= Bytes(From(b))
    <2>1. ASSUME NEW x \in From(a) PROVE x \in From(b)
      <3>1. x \in rows /\ ~Before(x, a)
        BY <1>2
      <3>2. ~Before(x, b)
        BY <3>1, <1>6, RowOrder
      <3> QED
        BY <3>1, <3>2, <1>2
    <2>2. From(a) \in SUBSET From(b) /\ b \in From(b) /\ b \notin From(a)
      BY <2>1, <1>2, <1>6
    <2>3. Size(a) <= Size(b) /\ Size(a) # Size(b)
      BY <2>2, <1>3, FS_Subset
    <2>4. \A x \in From(b) : IsFiniteSet(x.items)
      BY <1>2
    <2>5. /\ Bytes(From(a)) \in Nat /\ Bytes(From(a)) <= Bytes(From(b))
      BY <2>2, <2>4, <1>3, BytesGrow
    <2>6. Bytes(From(b)) \in Nat
      BY <2>4, <1>3, PayloadFinite
    <2> QED
      BY <2>2, <2>3, <2>5, <2>6, <1>3
  <1>7. Cardinality(kept) <= MaxBatches /\ Bytes(kept) <= MaxBytes
    <2>1. CASE kept = {}
      <3>1. Cardinality(kept) = 0
        BY <2>1, FS_EmptySet
      <3>2. Payload(kept) = {}
        BY <2>1 DEF Payload
      <3>3. Bytes(kept) = 0
        BY <2>1, <3>2, <1>1, FS_EmptySet, PayloadFinite
      <3> QED
        BY <3>1, <3>3, <1>0
    <2>2. CASE kept # {}
      <3> DEFINE T == {Size(b) : b \in kept}
      <3>1. T \in SUBSET Nat /\ T # {} /\ \A x \in T : x <= MaxBatches
        BY <2>2, <1>1, <1>3, <1>4
      <3>2. PICK x \in T : \A y \in T : y <= x
        BY <3>1, <1>0, GreatestNumber
      <3>3. PICK b \in kept : x = Size(b)
        BY <3>2
      <3>4. ASSUME NEW a \in kept PROVE a \in From(b)
        <4>1. Size(a) <= Size(b)
          BY <3>2, <3>3
        <4>2. a \in rows /\ b \in rows /\ Size(a) \in Nat /\ Size(b) \in Nat
          BY <1>1, <1>3
        <4>3. ~Before(a, b)
          BY <4>1, <4>2, <1>6
        <4> QED
          BY <4>2, <4>3, <1>2
      <3>5. kept \in SUBSET From(b) /\ b \in rows
        BY <3>4, <1>1
      <3>6. \A r \in From(b) : IsFiniteSet(r.items)
        BY <3>5, <1>2
      <3>7. Cardinality(kept) <= Size(b) /\ Cardinality(kept) \in Nat
        BY <3>5, <1>1, <1>3, FS_Subset, FS_CardinalityType
      <3>8. Bytes(kept) \in Nat /\ Bytes(kept) <= Bytes(From(b))
        BY <3>5, <3>6, <1>3, BytesGrow
      <3>9. Bytes(From(b)) \in Nat
        BY <3>5, <3>6, <1>3, PayloadFinite
      <3> QED
        BY <3>3, <3>5, <3>7, <3>8, <3>9, <1>0, <1>3, <1>4
    <2> QED
      BY <2>1, <2>2
  <1>8. ASSUME kept # rows PROVE WALFull(kept)
    <2> DEFINE T == {Size(b) : b \in rows \ kept}
    <2>1. T \in SUBSET Nat /\ T # {}
      BY <1>1, <1>3, <1>8
    <2>2. PICK x \in T : \A y \in T : x <= y
      BY <2>1, LeastNumber
    <2>3. PICK b \in rows \ kept : x = Size(b)
      BY <2>2
    <2>4. ASSUME NEW a \in rows, Before(b, a) PROVE a \in kept
      <3>1. Size(a) < Size(b) /\ Size(a) \in Nat /\ Size(b) \in Nat
        BY <2>4, <1>3, <1>6
      <3>2. a \notin kept => Size(b) <= Size(a)
        BY <2>2, <2>3
      <3> QED
        BY <3>1, <3>2
    <2>5. ASSUME NEW a \in kept, Before(a, b) PROVE FALSE
      <3>1. a \in rows /\ Size(a) \in Nat /\ Size(b) \in Nat
        BY <1>1, <1>3
      <3>2. Size(b) < Size(a) /\ Bytes(From(b)) <= Bytes(From(a))
            /\ Bytes(From(b)) \in Nat /\ Bytes(From(a)) \in Nat
        BY <2>5, <3>1, <1>6
      <3>3. Size(a) <= MaxBatches /\ Bytes(From(a)) <= MaxBytes
        BY <3>1, <1>4
      <3> QED
        BY <3>1, <3>2, <3>3, <1>0, <1>4
    <2>6. From(b) = kept \cup {b}
      BY <2>4, <2>5, <1>1, <1>2, <1>5
    <2>7. Size(b) = Cardinality(kept) + 1 /\ Cardinality(kept) \in Nat
      BY <2>6, <1>1, FS_AddElement, FS_CardinalityType
    <2>8. /\ Bytes(From(b)) <= Bytes(kept) + Cardinality(b.items)
          /\ Bytes(kept) \in Nat
      BY <2>6, <1>1, BytesOfOneMore, PayloadFinite
    <2>9. /\ Cardinality(b.items) \in Nat /\ Cardinality(b.items) <= BatchItems
          /\ Bytes(From(b)) \in Nat
      <3>1. \A r \in From(b) : IsFiniteSet(r.items)
        BY <1>2
      <3> QED
        BY <3>1, <1>3, FS_CardinalityType, PayloadFinite
    <2>10. ~(Size(b) <= MaxBatches) \/ ~(Bytes(From(b)) <= MaxBytes)
      BY <1>4
    <2>11. CASE ~(Size(b) <= MaxBatches)
      BY <2>11, <2>7, <1>0, <1>7 DEF WALFull
    <2>12. CASE ~(Bytes(From(b)) <= MaxBytes)
      BY <2>12, <2>8, <2>9, <1>0 DEF WALFull
    <2> QED
      BY <2>10, <2>11, <2>12
  <1> QED
    BY <1>1, <1>7, <1>8 DEF kept

\* What DrainAccess does to the store when it writes row b.
IsNewRow(b) ==
  /\ b.items = FirstItems /\ b.seq = sequence + 1
  /\ accumulator' = accumulator \ FirstItems /\ sequence' = sequence + 1
  /\ wal' \subseteq wal \cup {b} /\ IsFiniteSet(wal')
  /\ Cardinality(wal') <= MaxBatches /\ Bytes(wal') <= MaxBytes
  /\ wal' = wal \cup {b} \/ WALFull(wal')

\* DrainAccess writes one row and prunes the log (Store.DrainAccess, access.go:90).
LEMMA DrainAccessLogs ==
  ASSUME TypeOK, FiniteInv, LogInv, NEW s \in Slot, DrainAccess(s), accumulator # {}
  PROVE  \E b \in Row : IsNewRow(b)
  <1>1. PICK at \in CreatedAt :
          /\ accumulator' = accumulator \ FirstItems /\ sequence' = sequence + 1
          /\ wal' = PruneAccessWAL(wal \cup {[seq |-> sequence + 1, created |-> at,
                                              items |-> FirstItems]})
    BY DEF DrainAccess
  <1> DEFINE b == [seq |-> sequence + 1, created |-> at, items |-> FirstItems]
             rows == wal \cup {b}
  <1>2. /\ b \in Row /\ b.items = FirstItems /\ b.seq = sequence + 1
        /\ sequence \in Nat /\ wal \subseteq Row
    <2>1. FirstItems \in SUBSET Item /\ sequence \in Nat /\ wal \subseteq Row
      BY BatchIsBounded DEF TypeOK
    <2> QED
      BY <2>1 DEF Row
  <1>3. wal' = PruneAccessWAL(rows)
    BY <1>1
  <1> HIDE DEF b
  <1>4. /\ rows \in SUBSET Row /\ IsFiniteSet(rows)
        /\ \A x, y \in rows : x.seq = y.seq => x = y
        /\ \A x \in rows : IsFiniteSet(x.items) /\ Cardinality(x.items) <= BatchItems
    <2>1. IsFiniteSet(rows)
      BY FS_AddElement DEF FiniteInv
    <2>2. \A x \in wal : x.seq \in Nat /\ x.seq # b.seq
      BY <1>2 DEF LogInv, Row
    <2> QED
      BY <1>2, <2>1, <2>2, BatchIsBounded DEF LogInv
  <1> HIDE DEF rows
  <1>5. /\ wal' \subseteq rows /\ IsFiniteSet(wal')
        /\ Cardinality(wal') <= MaxBatches /\ Bytes(wal') <= MaxBytes
        /\ wal' # rows => WALFull(wal')
    BY <1>3, <1>4, PruneKeepsLimits
  <1>6. IsNewRow(b)
    BY <1>1, <1>2, <1>5 DEF IsNewRow, rows
  <1> QED
    BY <1>2, <1>6

-----------------------------------------------------------------------------
(* Types.                                                                  *)

\* Rows report connections.
LEMMA RowConnsType ==
  ASSUME NEW rows \in SUBSET Row
  PROVE  RowConns(rows) \subseteq Conn
  BY DEF RowConns, ConnsOf, Row, Item

\* The frames of a connection, a part of them, one more or one less.
LEMMA Frames ==
  ASSUME NEW S, NEW x \in Seq(S)
  PROVE  /\ ItemsOf(x) \subseteq S
         /\ \A n \in 0..Len(x) : ItemsOf(SubSeq(x, 1, n)) \subseteq ItemsOf(x)
         /\ x # <<>> => /\ Head(x) \in ItemsOf(x) /\ Tail(x) \in Seq(S)
                        /\ ItemsOf(Tail(x)) \subseteq ItemsOf(x)
         /\ \A b \in S : Append(x, b) \in Seq(S) /\ ItemsOf(Append(x, b)) = ItemsOf(x) \cup {b}
  <1>1. DOMAIN x = 1..Len(x) /\ Len(x) \in Nat /\ \A n \in 1..Len(x) : x[n] \in S
    BY LenProperties, ElementOfSeq
  <1>2. ASSUME NEW n \in 0..Len(x)
        PROVE  ItemsOf(SubSeq(x, 1, n)) \subseteq ItemsOf(x)
    <2> DEFINE y == SubSeq(x, 1, n)
    <2>1. \A i \in 1..n : x[i] \in S /\ i \in 1..Len(x)
      BY <1>1
    <2>2. /\ y \in Seq(S) /\ Len(y) = n
          /\ \A i \in 1..((n - 1) + 1) : y[i] = x[(1 + i) - 1]
      BY <1>1, <2>1, SubSeqProperties
    <2>3. DOMAIN y = 1..n
      BY <2>2, LenProperties
    <2> HIDE DEF y
    <2>4. \A i \in 1..n : y[i] = x[i]
      BY <1>1, <2>2
    <2> QED
      BY <1>1, <2>1, <2>3, <2>4 DEF ItemsOf, y
  <1>3. ASSUME x # <<>>
        PROVE  /\ Head(x) \in ItemsOf(x) /\ Tail(x) \in Seq(S)
               /\ ItemsOf(Tail(x)) \subseteq ItemsOf(x)
    <2> DEFINE y == Tail(x)
    <2>1. /\ y \in Seq(S) /\ Len(y) = Len(x) - 1 /\ \A i \in 1..Len(y) : y[i] = x[i + 1]
      BY <1>3, HeadTailProperties
    <2>2. DOMAIN y = 1..Len(y)
      BY <2>1, LenProperties
    <2>3. Len(x) # 0
      BY <1>3, EmptySeq
    <2>4. Head(x) = x[1] /\ 1 \in DOMAIN x
      BY <1>1, <2>3
    <2> HIDE DEF y
    <2>5. \A i \in DOMAIN y : i + 1 \in DOMAIN x /\ y[i] = x[i + 1]
      BY <1>1, <2>1, <2>2
    <2> QED
      BY <2>1, <2>4, <2>5 DEF ItemsOf, y
  <1>4. ASSUME NEW b \in S
        PROVE  Append(x, b) \in Seq(S) /\ ItemsOf(Append(x, b)) = ItemsOf(x) \cup {b}
    <2> DEFINE y == Append(x, b)
    <2>1. /\ y \in Seq(S) /\ Len(y) = Len(x) + 1 /\ y[Len(x) + 1] = b
          /\ \A i \in 1..Len(x) : y[i] = x[i]
      BY <1>1
    <2>2. DOMAIN y = 1..(Len(x) + 1)
      BY <2>1, LenProperties
    <2> HIDE DEF y
    <2> QED
      BY <1>1, <2>1, <2>2 DEF ItemsOf, y
  <1>5. ItemsOf(x) \subseteq S
    BY <1>1 DEF ItemsOf
  <1> QED
    BY <1>2, <1>3, <1>4, <1>5

\* A session that ends takes its frames along; the server may have read some.
LEMMA EndSessionType ==
  ASSUME TypeOK, NEW s \in Slot, EndSession(s)
  PROVE  /\ sess' \in [Slot -> {"flush", "reading", "ended"}]
         /\ todo' \in [Slot -> SUBSET Row]
         /\ toServer' \in [Slot -> Seq(Row)]
         /\ toClient' \in [Slot -> Seq([row : Row, status : Status])]
         /\ settled' \subseteq Conn
  <1>1. /\ toServer[s] \in Seq(Row) /\ settled \subseteq Conn
        /\ sess \in [Slot -> {"flush", "reading", "ended"}]
        /\ todo \in [Slot -> SUBSET Row]
        /\ toServer \in [Slot -> Seq(Row)]
        /\ toClient \in [Slot -> Seq([row : Row, status : Status])]
    BY DEF TypeOK
  <1>2. PICK n \in 0..Len(toServer[s]) :
          settled' = settled \cup RowConns(ItemsOf(SubSeq(toServer[s], 1, n)))
    BY DEF EndSession
  <1>3. ItemsOf(SubSeq(toServer[s], 1, n)) \subseteq Row
    BY <1>1, Frames
  <1>4. settled' \subseteq Conn
    BY <1>1, <1>2, <1>3, RowConnsType
  <1>5. <<>> \in Seq(Row) /\ <<>> \in Seq([row : Row, status : Status])
    BY EmptySeq
  <1> QED
    BY <1>1, <1>4, <1>5 DEF EndSession

\* A restart keeps types: it clears memory and leaves the store.
LEMMA RestartType ==
  ASSUME TypeOK, Restart
  PROVE  settled' \subseteq Conn
  <1>1. PICK rows \in SUBSET UNION {ItemsOf(toServer[s]) : s \in Slot} :
          settled' = settled \cup RowConns(rows)
    BY DEF Restart
  <1>2. \A s \in Slot : ItemsOf(toServer[s]) \subseteq Row
    BY Frames DEF TypeOK
  <1>3. rows \in SUBSET Row
    BY <1>2
  <1>4. RowConns(rows) \subseteq Conn
    BY <1>3, RowConnsType
  <1> QED
    BY <1>1, <1>4 DEF TypeOK

\* Every step keeps types and the limits of the log.
LEMMA TypeStep == TypeOK /\ FiniteInv /\ LogInv /\ [Next]_vars => TypeOK'
  <1> SUFFICES ASSUME TypeOK, FiniteInv, LogInv, [Next]_vars PROVE TypeOK'
    OBVIOUS
  <1> USE DEF planeVars, workerVars, wireVars, storeVars, Goto, Place, Phase
  <1>0. /\ Fault => faults' \in 0..MaxFaults
        /\ MaxCheckpoints \in Nat /\ MaxFaults \in Nat /\ MaxItems \in Nat
        /\ <<>> \in Seq(Item) /\ <<>> \in Seq(Row) /\ <<>> \in Seq([row : Row, status : Status])
    BY LimitsAssumption, EmptySeq DEF TypeOK, Fault
  <1>1. ASSUME NEW c \in Conn, Start(c) \/ CloseStoresEnd(c) \/ CloseStoresClosed(c)
        PROVE  TypeOK'
    BY <1>1 DEF TypeOK, Start, CloseStoresEnd, CloseStoresClosed
  <1>2. CASE RebuildClose \/ CoreStarts
    BY <1>2 DEF TypeOK, RebuildClose, CoreStarts
  <1>3. CASE RebuildDrain
    <2> DEFINE closed == {c \in recorder : phase[c] = "closed"}
    <2>1. PICK list \in Sorted(Sampled(closed, {})) : pending' = pending \o list
      BY <1>3 DEF RebuildDrain
    <2>2. closed \in SUBSET Conn /\ closed \cup {} \in SUBSET recorder /\ {} \in SUBSET Conn
      BY DEF TypeOK
    <2>3. IsFiniteSet(closed \cup {})
      BY <2>2, FS_Subset DEF FiniteInv
    <2> HIDE DEF closed
    <2>4. list \in Seq(Item) /\ pending \in Seq(Item)
      BY <2>1, <2>2, <2>3, DrainedList DEF TypeOK
    <2>5. pending' \in Seq(Item)
      BY <2>1, <2>4, Concatenation
    <2> QED
      BY <1>3, <2>5 DEF TypeOK, RebuildDrain
  <1>4. CASE Crash
    <2>1. settled' \subseteq Conn
      BY <1>4, RestartType DEF Crash
    <2> QED
      BY <1>0, <1>4, <2>1 DEF TypeOK, Crash, Restart, Nothing
  <1>5. ASSUME NEW s \in Slot, CollectBegin(s) PROVE TypeOK'
    <2>1. PICK due \in SUBSET {c \in recorder : phase[c] # "closed"} :
            /\ checkpoints + Cardinality(due) <= MaxCheckpoints
            /\ checkpoints' = checkpoints + Cardinality(due)
            /\ seen' = [seen EXCEPT ![s] =
                          [closed |-> {c \in recorder : phase[c] = "closed"}, due |-> due]]
      BY <1>5 DEF CollectBegin
    <2>2. Cardinality(due) \in Nat
      BY FS_Subset, FS_CardinalityType DEF FiniteInv
    <2>3. checkpoints' \in 0..MaxCheckpoints
      BY <1>0, <2>1, <2>2 DEF TypeOK
    <2>4. seen' \in [Slot -> [closed : SUBSET Conn, due : SUBSET Conn]]
      BY <2>1 DEF TypeOK
    <2>5. hand' \in [Slot -> Seq(Item)] /\ pending' \in Seq(Item)
      BY <1>0, <1>5 DEF TypeOK, CollectBegin
    <2> QED
      BY <1>5, <2>3, <2>4, <2>5 DEF TypeOK, CollectBegin
  <1>6. ASSUME NEW s \in Slot, CollectEnd(s) PROVE TypeOK'
    <2> DEFINE closed == seen[s].closed
               due == seen[s].due
    <2>1. PICK list \in Sorted(Sampled(closed, due)) : hand' = [hand EXCEPT ![s] = @ \o list]
      BY <1>6 DEF CollectEnd
    <2>2. closed \in SUBSET Conn /\ due \in SUBSET Conn /\ IsFiniteSet(closed \cup due)
      BY DEF TypeOK, FiniteInv
    <2>3. /\ fresh' = fresh \ (closed \cup due) /\ recorder' = recorder \ closed
      BY <1>6 DEF CollectEnd
    <2> HIDE DEF closed, due
    <2>4. list \in Seq(Item) /\ hand[s] \in Seq(Item)
      BY <2>1, <2>2, DrainedList DEF TypeOK
    <2>5. hand' \in [Slot -> Seq(Item)]
      BY <2>1, <2>4, Concatenation DEF TypeOK
    <2>6. seen' \in [Slot -> [closed : SUBSET Conn, due : SUBSET Conn]]
      BY <1>6 DEF CollectEnd, TypeOK, Nothing
    <2> QED
      BY <1>6, <2>3, <2>5, <2>6 DEF TypeOK, CollectEnd
  <1>7. ASSUME NEW s \in Slot, AddAccess(s) PROVE TypeOK'
    <2>1. /\ accumulator' \in SUBSET Item
          /\ \A a, b \in accumulator' : a.key = b.key => a = b
      BY <1>7, UpsertKeepsCounts DEF TypeOK, FiniteInv, AddAccess
    <2> QED
      BY <1>0, <1>7, <2>1 DEF TypeOK, AddAccess
  <1>8. ASSUME NEW s \in Slot, AddAccessFails(s) \/ WorkerReturns(s) PROVE TypeOK'
    BY <1>0, <1>8 DEF TypeOK, AddAccessFails, WorkerReturns
  <1>9. ASSUME NEW s \in Slot, Requeue(s) PROVE TypeOK'
    <2>1. pending' \in Seq(Item)
      <3> DEFINE room == MaxItems - Len(pending)
                 n == Len(hand[s])
                 end == SubSeq(hand[s], n - room + 1, n)
      <3>1. /\ hand[s] \in Seq(Item) /\ pending \in Seq(Item)
            /\ Len(pending) \in Nat /\ n \in Nat /\ Len(pending) <= MaxItems
        BY <1>9, LenProperties DEF TypeOK, Requeue
      <3>2. n > room => n - room + 1 \in 1..(n + 1)
        BY <1>0, <3>1
      <3>3. n > room => end \in Seq(Item)
        BY <3>1, <3>2, EndOfList
      <3>4. pending' = pending \o (IF n <= room THEN hand[s] ELSE end)
        BY <1>9 DEF Requeue, RequeueAccess
      <3> HIDE DEF end
      <3> QED
        BY <1>0, <3>1, <3>3, <3>4, Concatenation
    <2> QED
      BY <1>0, <1>9, <2>1 DEF TypeOK, Requeue
  <1>10. ASSUME NEW s \in Slot, DrainAccess(s) PROVE TypeOK'
    <2>1. CASE UNCHANGED storeVars
      BY <1>10, <2>1 DEF TypeOK, DrainAccess
    <2>2. CASE accumulator # {}
      <3>1. PICK b \in Row : IsNewRow(b)
        BY <1>10, <2>2, DrainAccessLogs
      <3>2. wal' \in SUBSET Row /\ Cardinality(wal') <= MaxBatches /\ Bytes(wal') <= MaxBytes
        BY <3>1 DEF IsNewRow, TypeOK
      <3>3. /\ accumulator' \in SUBSET Item /\ sequence' \in Nat
            /\ \A x, y \in accumulator' : x.key = y.key => x = y
        BY <3>1 DEF IsNewRow, TypeOK
      <3> QED
        BY <1>10, <3>2, <3>3 DEF TypeOK, DrainAccess
    <2> QED
      BY <1>10, <2>1, <2>2 DEF DrainAccess
  <1>11. ASSUME NEW s \in Slot, LoadPending(s) \/ StartSession(s) PROVE TypeOK'
    <2>1. PendingAccess \in SUBSET Row
      BY DEF TypeOK, PendingAccess
    <2> QED
      BY <1>11, <2>1 DEF TypeOK, LoadPending, StartSession
  <1>12. ASSUME NEW s \in Slot, SendBatch(s) PROVE TypeOK'
    <2>1. PICK b \in todo[s] : /\ toServer' = [toServer EXCEPT ![s] = Append(@, b)]
                               /\ todo' = [todo EXCEPT ![s] = @ \ {b}]
      BY <1>12 DEF SendBatch
    <2>2. b \in Row /\ toServer[s] \in Seq(Row)
      BY DEF TypeOK
    <2>3. toServer' \in [Slot -> Seq(Row)]
      BY <2>1, <2>2, Frames DEF TypeOK
    <2> QED
      BY <1>12, <2>1, <2>3 DEF TypeOK, SendBatch
  <1>13. ASSUME NEW s \in Slot, SendDone(s) \/ RoundFails(s) PROVE TypeOK'
    BY <1>0, <1>13 DEF TypeOK, SendDone, RoundFails
  <1>14. ASSUME NEW s \in Slot, ReadAck(s) PROVE TypeOK'
    <2>1. /\ sess' \in [Slot -> {"flush", "reading", "ended"}]
          /\ todo' \in [Slot -> SUBSET Row]
          /\ toServer' \in [Slot -> Seq(Row)]
          /\ toClient' \in [Slot -> Seq([row : Row, status : Status])]
          /\ settled' \subseteq Conn
      <3>1. CASE EndSession(s)
        BY <3>1, EndSessionType
      <3>2. CASE /\ toClient' = [toClient EXCEPT ![s] = Tail(@)]
                 /\ UNCHANGED <<sess, todo, toServer, settled>>
        <4>1. Tail(toClient[s]) \in Seq([row : Row, status : Status])
          BY <1>14, HeadTailProperties DEF TypeOK, ReadAck
        <4> QED
          BY <3>2, <4>1 DEF TypeOK
      <3> QED
        BY <1>14, <3>1, <3>2 DEF ReadAck, Continue
    <2>2. wal' \in SUBSET wal
      BY <1>14 DEF ReadAck
    <2>3. Cardinality(wal') <= Cardinality(wal) /\ Cardinality(wal') \in Nat /\ Cardinality(wal) \in Nat
      BY <2>2, FS_Subset, FS_CardinalityType DEF FiniteInv
    <2>4. Bytes(wal') <= Bytes(wal) /\ Bytes(wal') \in Nat /\ Bytes(wal) \in Nat
      BY <2>2, BytesGrow, PayloadFinite DEF FiniteInv, LogInv
    <2>5. Cardinality(wal') <= MaxBatches /\ Bytes(wal') <= MaxBytes
      BY <2>3, <2>4, LimitsAssumption DEF TypeOK
    <2> QED
      BY <1>14, <2>1, <2>2, <2>5 DEF TypeOK, ReadAck
  <1>15. ASSUME NEW s \in Slot, SessionEnds(s) PROVE TypeOK'
    <2>1. EndSession(s)
      BY <1>15 DEF SessionEnds
    <2> QED
      BY <1>0, <1>15, <2>1, EndSessionType DEF TypeOK, SessionEnds
  <1>16. ASSUME NEW s \in Slot, RequeuePanics(s) PROVE TypeOK'
    <2>1. settled' \subseteq Conn
      BY <1>16, RestartType DEF RequeuePanics
    <2> QED
      BY <1>0, <1>16, <2>1 DEF TypeOK, RequeuePanics, Restart, Nothing
  <1>17. ASSUME NEW s \in Slot, ServerSettles(s) \/ ServerDefers(s) PROVE TypeOK'
    <2>1. PICK status \in Status : Answer(s, status)
      BY <1>17 DEF ServerSettles, ServerDefers, Status
    <2>2. /\ toServer[s] \in Seq(Row) /\ toServer[s] # <<>>
          /\ toClient[s] \in Seq([row : Row, status : Status])
      BY <2>1 DEF TypeOK, Answer
    <2>3. Head(toServer[s]) \in Row /\ Tail(toServer[s]) \in Seq(Row)
      BY <2>2, HeadTailProperties
    <2>4. Append(toClient[s], [row |-> Head(toServer[s]), status |-> status])
            \in Seq([row : Row, status : Status])
      BY <2>2, <2>3, Frames
    <2>5. settled' \subseteq Conn
      BY <1>17, <2>3 DEF ServerSettles, ServerDefers, ConnsOf, Row, Item, TypeOK
    <2>6. faults' \in 0..MaxFaults
      BY <1>0, <1>17 DEF ServerSettles, ServerDefers, TypeOK
    <2> QED
      BY <2>1, <2>3, <2>4, <2>5, <2>6 DEF TypeOK, Answer
  <1>18. CASE UNCHANGED vars
    BY <1>18 DEF TypeOK, vars
  <1> QED
    BY <1>1, <1>2, <1>3, <1>4, <1>5, <1>6, <1>7, <1>8, <1>9, <1>10, <1>11, <1>12, <1>13, <1>14,
       <1>15, <1>16, <1>17, <1>18
    DEF Next, WorkerStep

-----------------------------------------------------------------------------
(* Finite sets, the log, and what sessions hold.                           *)

\* The steps that write the store.
LEMMA WhoStores ==
  ASSUME [Next]_vars
  PROVE  \/ UNCHANGED storeVars
         \/ \E s \in Slot : AddAccess(s) \/ DrainAccess(s) \/ ReadAck(s)
  <1> USE DEF planeVars, workerVars, wireVars, storeVars
  <1>1. CASE UNCHANGED vars
    BY <1>1 DEF vars
  <1>2. CASE RebuildClose \/ RebuildDrain \/ CoreStarts \/ Crash
    BY <1>2 DEF RebuildClose, RebuildDrain, CoreStarts, Crash, Restart
  <1>3. ASSUME NEW c \in Conn, Start(c) \/ CloseStoresEnd(c) \/ CloseStoresClosed(c)
        PROVE  UNCHANGED storeVars
    BY <1>3 DEF Start, CloseStoresEnd, CloseStoresClosed
  <1>4. ASSUME NEW s \in Slot, WorkerStep(s), ~AddAccess(s), ~DrainAccess(s)
        PROVE  UNCHANGED storeVars
    BY <1>4 DEF WorkerStep, CollectBegin, CollectEnd, AddAccessFails, Requeue, LoadPending,
                SendBatch, SendDone, RoundFails
  <1>5. ASSUME NEW s \in Slot, \/ WorkerReturns(s) \/ StartSession(s) \/ SessionEnds(s)
                               \/ RequeuePanics(s) \/ ServerSettles(s) \/ ServerDefers(s)
        PROVE  UNCHANGED storeVars
    BY <1>5 DEF WorkerReturns, StartSession, SessionEnds, RequeuePanics, Restart, ServerSettles,
                ServerDefers, Answer
  <1> QED
    BY <1>1, <1>2, <1>3, <1>4, <1>5 DEF Next

\* The steps that change the recorder or what a collector has seen of it.
LEMMA WhoRecords ==
  ASSUME [Next]_vars
  PROVE  \/ UNCHANGED <<recorder, seen>>
         \/ \E c \in Conn : recorder' = recorder \cup {c} /\ UNCHANGED seen
         \/ recorder' = {} /\ UNCHANGED seen
         \/ Restart
         \/ \E s \in Slot : CollectBegin(s) \/ CollectEnd(s)
  <1> USE DEF planeVars, workerVars, wireVars, storeVars
  <1>1. CASE UNCHANGED vars
    BY <1>1 DEF vars
  <1>2. CASE RebuildClose \/ RebuildDrain \/ CoreStarts \/ Crash
    BY <1>2 DEF RebuildClose, RebuildDrain, CoreStarts, Crash
  <1>3. ASSUME NEW c \in Conn, Start(c) \/ CloseStoresEnd(c) \/ CloseStoresClosed(c)
        PROVE  UNCHANGED seen /\ (UNCHANGED recorder \/ recorder' = recorder \cup {c})
    BY <1>3 DEF Start, CloseStoresEnd, CloseStoresClosed
  <1>4. ASSUME NEW s \in Slot, WorkerStep(s), ~CollectBegin(s), ~CollectEnd(s)
        PROVE  UNCHANGED <<recorder, seen>>
    BY <1>4 DEF WorkerStep, AddAccess, AddAccessFails, Requeue, DrainAccess, LoadPending,
                SendBatch, SendDone, RoundFails
  <1>5. ASSUME NEW s \in Slot, \/ WorkerReturns(s) \/ StartSession(s) \/ SessionEnds(s)
                               \/ ReadAck(s) \/ ServerSettles(s) \/ ServerDefers(s)
        PROVE  UNCHANGED <<recorder, seen>>
    BY <1>5 DEF WorkerReturns, StartSession, SessionEnds, ReadAck, ServerSettles,
                ServerDefers, Answer
  <1>6. ASSUME NEW s \in Slot, RequeuePanics(s) PROVE Restart
    BY <1>6 DEF RequeuePanics
  <1> QED
    BY <1>1, <1>2, <1>3, <1>4, <1>5, <1>6 DEF Next

\* Every step keeps the counted sets finite: they grow by one element, a list or
\* a batch at a time.
LEMMA FiniteStep == TypeOK /\ FiniteInv /\ LogInv /\ [Next]_vars => FiniteInv'
  <1> SUFFICES ASSUME TypeOK, FiniteInv, LogInv, [Next]_vars PROVE FiniteInv'
    OBVIOUS
  <1>1. IsFiniteSet(accumulator') /\ IsFiniteSet(wal')
    <2>1. CASE UNCHANGED storeVars
      BY <2>1 DEF storeVars, FiniteInv
    <2>2. ASSUME NEW s \in Slot, AddAccess(s)
          PROVE  IsFiniteSet(accumulator') /\ IsFiniteSet(wal')
      BY <2>2, UpsertKeepsCounts DEF AddAccess, FiniteInv, TypeOK
    <2>3. ASSUME NEW s \in Slot, DrainAccess(s)
          PROVE  IsFiniteSet(accumulator') /\ IsFiniteSet(wal')
      <3>1. CASE accumulator = {}
        BY <2>3, <3>1 DEF DrainAccess, storeVars, FiniteInv
      <3>2. CASE accumulator # {}
        <4>1. PICK b \in Row : IsNewRow(b)
          BY <2>3, <3>2, DrainAccessLogs
        <4>2. accumulator' \in SUBSET accumulator
          BY <4>1 DEF IsNewRow
        <4> QED
          BY <4>1, <4>2, FS_Subset DEF IsNewRow, FiniteInv
      <3> QED
        BY <3>1, <3>2
    <2>4. ASSUME NEW s \in Slot, ReadAck(s)
          PROVE  IsFiniteSet(accumulator') /\ IsFiniteSet(wal')
      <3>1. wal' \in SUBSET wal /\ accumulator' = accumulator
        BY <2>4 DEF ReadAck
      <3> QED
        BY <3>1, FS_Subset DEF FiniteInv
    <2> QED
      BY <2>1, <2>2, <2>3, <2>4, WhoStores
  <1>2. IsFiniteSet(recorder') /\ \A s \in Slot : IsFiniteSet(seen'[s].closed \cup seen'[s].due)
    <2>1. CASE UNCHANGED <<recorder, seen>>
      BY <2>1 DEF FiniteInv
    <2>2. ASSUME NEW c \in Conn, recorder' = recorder \cup {c}, UNCHANGED seen
          PROVE  IsFiniteSet(recorder')
                 /\ \A s \in Slot : IsFiniteSet(seen'[s].closed \cup seen'[s].due)
      BY <2>2, FS_AddElement DEF FiniteInv
    <2>3. CASE recorder' = {} /\ UNCHANGED seen
      BY <2>3, FS_EmptySet DEF FiniteInv
    <2>4. CASE Restart
      <3>1. recorder' = {} /\ \A s \in Slot : seen'[s].closed \cup seen'[s].due = {}
        BY <2>4 DEF Restart, Nothing
      <3> QED
        BY <3>1, FS_EmptySet
    <2>5. ASSUME NEW s \in Slot, CollectBegin(s)
          PROVE  IsFiniteSet(recorder')
                 /\ \A t \in Slot : IsFiniteSet(seen'[t].closed \cup seen'[t].due)
      <3>1. /\ recorder' = recorder
            /\ seen'[s].closed \cup seen'[s].due \in SUBSET recorder
            /\ \A t \in Slot \ {s} : seen'[t] = seen[t]
        BY <2>5 DEF CollectBegin, TypeOK
      <3> QED
        BY <3>1, FS_Subset DEF FiniteInv
    <2>6. ASSUME NEW s \in Slot, CollectEnd(s)
          PROVE  IsFiniteSet(recorder')
                 /\ \A t \in Slot : IsFiniteSet(seen'[t].closed \cup seen'[t].due)
      <3>1. /\ recorder' \in SUBSET recorder
            /\ seen'[s].closed \cup seen'[s].due = {}
            /\ \A t \in Slot \ {s} : seen'[t] = seen[t]
        BY <2>6 DEF CollectEnd, TypeOK, Nothing
      <3> QED
        BY <3>1, FS_Subset, FS_EmptySet DEF FiniteInv
    <2> QED
      BY <2>1, <2>2, <2>3, <2>4, <2>5, <2>6, WhoRecords
  <1> QED
    BY <1>1, <1>2 DEF FiniteInv

\* Every step keeps sequence numbers apart and rows bounded: only DrainAccess adds a
\* row, under the next number.
LEMMA LogStep == TypeOK /\ FiniteInv /\ LogInv /\ [Next]_vars => LogInv'
  <1> SUFFICES ASSUME TypeOK, FiniteInv, LogInv, [Next]_vars PROVE LogInv'
    OBVIOUS
  <1>1. CASE wal' \subseteq wal /\ sequence' = sequence
    BY <1>1 DEF LogInv
  <1>2. ASSUME NEW s \in Slot, DrainAccess(s), accumulator # {} PROVE LogInv'
    <2>1. PICK b \in Row : IsNewRow(b)
      BY <1>2, DrainAccessLogs
    <2>2. /\ \A x \in wal : x.seq \in Nat /\ x.seq <= sequence
          /\ sequence \in Nat
      BY DEF LogInv, TypeOK, Row
    <2>3. \A x \in wal : x.seq <= sequence + 1 /\ x.seq # sequence + 1
      BY <2>2
    <2>4. IsFiniteSet(b.items) /\ Cardinality(b.items) <= BatchItems
      BY <2>1, BatchIsBounded DEF IsNewRow
    <2>5. wal' \subseteq wal \cup {b} /\ sequence' = sequence + 1 /\ b.seq = sequence + 1
      BY <2>1 DEF IsNewRow
    <2> QED
      BY <2>2, <2>3, <2>4, <2>5 DEF LogInv
  <1> QED
    BY <1>1, <1>2, WhoStores DEF AddAccess, DrainAccess, ReadAck, storeVars

\* A worker leaves the states in which its hands are full through AddAccess,
\* Requeue or a restart, and settled grows.
LEMMA SessionStep == TypeOK /\ SessionInv /\ [Next]_vars => SessionInv'
  <1> SUFFICES ASSUME TypeOK, SessionInv, [Next]_vars PROVE SessionInv'
    OBVIOUS
  <1> USE DEF planeVars, workerVars, wireVars, storeVars, Goto
  <1>0. /\ sess \in [Slot -> {"flush", "reading", "ended"}]
        /\ worker \in [Slot -> Place] /\ hand \in [Slot -> Seq(Item)]
        /\ toClient \in [Slot -> Seq([row : Row, status : Status])]
    BY DEF TypeOK
  <1>1. CASE UNCHANGED <<sess, worker, hand, toClient, settled>>
    BY <1>1 DEF SessionInv
  <1>2. CASE Restart
    BY <1>2 DEF Restart, SessionInv
  <1>3. ASSUME NEW s \in Slot, WorkerStep(s) \/ WorkerReturns(s) \/ StartSession(s)
        PROVE  SessionInv'
    <2>1. UNCHANGED <<toClient, settled>>
      BY <1>3 DEF WorkerStep, CollectBegin, CollectEnd, AddAccess, AddAccessFails, Requeue,
                  DrainAccess, LoadPending, SendBatch, SendDone, RoundFails, WorkerReturns,
                  StartSession
    <2>2. /\ \A t \in Slot \ {s} : /\ worker'[t] = worker[t] /\ hand'[t] = hand[t]
                                   /\ sess'[t] = sess[t]
          /\ worker'[s] \notin {"draining", "collected", "refused"} => hand'[s] = <<>>
          /\ sess'[s] = "flush" => worker'[s] = "dead"
      <3>1. CASE CollectBegin(s) \/ CollectEnd(s) \/ AddAccess(s) \/ AddAccessFails(s) \/ Requeue(s)
        BY <1>0, <3>1 DEF SessionInv, CollectBegin, CollectEnd, AddAccess, AddAccessFails, Requeue
      <3>2. CASE DrainAccess(s) \/ LoadPending(s) \/ SendBatch(s)
        BY <1>0, <3>2 DEF SessionInv, DrainAccess, LoadPending, SendBatch
      <3>3. CASE SendDone(s) \/ RoundFails(s)
        BY <1>0, <3>3 DEF SessionInv, SendDone, RoundFails, Sending
      <3>4. CASE WorkerReturns(s) \/ StartSession(s)
        BY <1>0, <3>4 DEF SessionInv, WorkerReturns, StartSession
      <3> QED
        BY <1>3, <3>1, <3>2, <3>3, <3>4 DEF WorkerStep
    <2> QED
      BY <2>1, <2>2 DEF SessionInv
  <1>4. ASSUME NEW s \in Slot, EndSession(s), UNCHANGED <<worker, hand>> PROVE SessionInv'
    <2>1. /\ settled \subseteq settled' /\ toClient'[s] = <<>> /\ sess'[s] = "ended"
          /\ \A t \in Slot \ {s} : toClient'[t] = toClient[t] /\ sess'[t] = sess[t]
      BY <1>0, <1>4 DEF EndSession
    <2> QED
      BY <1>4, <2>1, EmptyList DEF SessionInv
  <1>5. ASSUME NEW s \in Slot, toClient[s] # <<>>, toClient' = [toClient EXCEPT ![s] = Tail(@)],
               UNCHANGED <<sess, settled, worker, hand>>
        PROVE  SessionInv'
    <2>1. /\ toClient'[s] = Tail(toClient[s])
          /\ \A t \in Slot \ {s} : toClient'[t] = toClient[t]
      BY <1>0, <1>5
    <2>2. ItemsOf(Tail(toClient[s])) \subseteq ItemsOf(toClient[s])
      BY <1>0, <1>5, Frames
    <2>3. \A n \in DOMAIN toClient'[s] : \E m \in DOMAIN toClient[s] : toClient'[s][n] = toClient[s][m]
      BY <2>1, <2>2 DEF ItemsOf
    <2> QED
      BY <1>5, <2>1, <2>3 DEF SessionInv
  <1>6. ASSUME NEW s \in Slot, ReadAck(s) \/ SessionEnds(s) PROVE SessionInv'
    <2>1. UNCHANGED <<worker, hand>>
      BY <1>6 DEF ReadAck, SessionEnds
    <2>2. \/ EndSession(s)
          \/ /\ toClient[s] # <<>> /\ toClient' = [toClient EXCEPT ![s] = Tail(@)]
             /\ UNCHANGED <<sess, settled>>
      BY <1>6 DEF ReadAck, SessionEnds, Continue
    <2> QED
      BY <1>4, <1>5, <2>1, <2>2
  <1>7. ASSUME NEW s \in Slot, NEW status \in Status, Answer(s, status), settled \subseteq settled',
               status = "settled" => ConnsOf(Head(toServer[s]).items) \subseteq settled'
        PROVE  SessionInv'
    <2> DEFINE ack == [row |-> Head(toServer[s]), status |-> status]
    <2>1. /\ toClient'[s] = Append(toClient[s], ack)
          /\ \A t \in Slot \ {s} : toClient'[t] = toClient[t]
          /\ UNCHANGED <<sess, worker, hand>>
      BY <1>0, <1>7 DEF Answer
    <2>2. ack \in [row : Row, status : Status]
      <3>1. Head(toServer[s]) \in Row
        BY <1>7, HeadTailProperties DEF Answer, TypeOK
      <3> QED
        BY <3>1
    <2>3. ItemsOf(toClient'[s]) = ItemsOf(toClient[s]) \cup {ack}
      <3>1. toClient[s] \in Seq([row : Row, status : Status])
        BY <1>0
      <3> HIDE DEF ack
      <3> QED
        BY <2>1, <2>2, <3>1, Frames
    <2>4. \A n \in DOMAIN toClient'[s] :
            toClient'[s][n] = ack \/ \E m \in DOMAIN toClient[s] : toClient'[s][n] = toClient[s][m]
      BY <2>3 DEF ItemsOf
    <2>5. ack.status = "settled" => ConnsOf(ack.row.items) \subseteq settled'
      BY <1>7
    <2> HIDE DEF ack
    <2>6. ASSUME NEW n \in DOMAIN toClient'[s], toClient'[s][n].status = "settled"
          PROVE  ConnsOf(toClient'[s][n].row.items) \subseteq settled'
      BY <1>7, <2>4, <2>5, <2>6 DEF SessionInv
    <2> QED
      BY <1>7, <2>1, <2>6 DEF SessionInv
  <1>8. ASSUME NEW s \in Slot, ServerSettles(s) \/ ServerDefers(s) PROVE SessionInv'
    <2>1. PICK status \in Status :
            /\ Answer(s, status) /\ settled \subseteq settled'
            /\ status = "settled" => ConnsOf(Head(toServer[s]).items) \subseteq settled'
      BY <1>8 DEF ServerSettles, ServerDefers, Status
    <2> QED
      BY <1>7, <2>1
  <1>9. CASE RebuildClose \/ RebuildDrain \/ CoreStarts \/ Crash \/ UNCHANGED vars
    BY <1>1, <1>2, <1>9 DEF RebuildClose, RebuildDrain, CoreStarts, Crash, vars
  <1>10. ASSUME NEW c \in Conn, Start(c) \/ CloseStoresEnd(c) \/ CloseStoresClosed(c)
         PROVE  UNCHANGED <<sess, worker, hand, toClient, settled>>
    BY <1>10 DEF Start, CloseStoresEnd, CloseStoresClosed
  <1>11. ASSUME NEW s \in Slot, RequeuePanics(s) PROVE Restart
    BY <1>11 DEF RequeuePanics
  <1> QED
    BY <1>1, <1>2, <1>3, <1>6, <1>8, <1>9, <1>10, <1>11 DEF Next

-----------------------------------------------------------------------------
(* What each step moves.                                                   *)

\* The last Drain of a core moves the fresh counts of closed connections to the
\* waiting list (XrayRuntime.Close, xray.go:335).
LEMMA RebuildDrainMoves ==
  ASSUME IInv, RebuildDrain
  PROVE  LET taken == fresh \cap {c \in recorder : phase[c] = "closed"}
         IN /\ Carried(pending') = Carried(pending) \cup taken
            /\ OnceInList(pending')
            /\ fresh' = fresh \ recorder
            /\ UNCHANGED <<hand, accumulator, wal, todo, toServer, settled, phase>>
  <1> DEFINE closed == {c \in recorder : phase[c] = "closed"}
  <1>1. PICK list \in Sorted(Sampled(closed, {})) : pending' = pending \o list
    BY DEF RebuildDrain
  <1>2. /\ closed \in SUBSET Conn /\ {} \in SUBSET Conn
        /\ closed \cup {} \in SUBSET recorder /\ closed \cup {} = closed
    BY DEF IInv, TypeOK
  <1>3. IsFiniteSet(closed \cup {}) /\ TypeOK
    BY <1>2, FS_Subset DEF IInv, FiniteInv
  <1> HIDE DEF closed
  <1>4. /\ list \in Seq(Item) /\ Carried(list) = fresh \cap (closed \cup {}) /\ OnceInList(list)
    BY <1>1, <1>2, <1>3, DrainedList
  <1>5. /\ pending \in Seq(Item) /\ OnceInList(pending) /\ Carried(pending) \cap Carried(list) = {}
    BY <1>4 DEF IInv, TypeOK, OnceInv, Apart
  <1>6. /\ Carried(pending') = Carried(pending) \cup Carried(list) /\ OnceInList(pending')
    BY <1>1, <1>4, <1>5, Concatenation
  <1> QED
    BY <1>2, <1>4, <1>6 DEF closed, RebuildDrain, workerVars, wireVars, storeVars

\* A collector's Drain moves fresh counts into its hands (AccessRecorder.Drain).
LEMMA CollectEndMoves ==
  ASSUME IInv, NEW s \in Slot, CollectEnd(s)
  PROVE  LET taken == fresh \cap (seen[s].closed \cup seen[s].due)
         IN /\ Carried(hand'[s]) = Carried(hand[s]) \cup taken
            /\ OnceInList(hand'[s])
            /\ \A t \in Slot \ {s} : hand'[t] = hand[t]
            /\ fresh' = fresh \ taken
            /\ UNCHANGED <<pending, accumulator, wal, todo, toServer, settled, phase>>
  <1> DEFINE closed == seen[s].closed
             due == seen[s].due
  <1>1. PICK list \in Sorted(Sampled(closed, due)) : hand' = [hand EXCEPT ![s] = @ \o list]
    BY DEF CollectEnd
  <1>2. /\ closed \in SUBSET Conn /\ due \in SUBSET Conn /\ IsFiniteSet(closed \cup due) /\ TypeOK
    BY DEF IInv, TypeOK, FiniteInv
  <1>3. fresh' = fresh \ (closed \cup due)
    BY DEF CollectEnd
  <1> HIDE DEF closed, due
  <1>4. /\ list \in Seq(Item) /\ Carried(list) = fresh \cap (closed \cup due) /\ OnceInList(list)
    BY <1>1, <1>2, DrainedList
  <1>5. /\ hand \in [Slot -> Seq(Item)] /\ OnceInList(hand[s])
        /\ Carried(hand[s]) \cap Carried(list) = {}
    BY <1>4 DEF IInv, TypeOK, OnceInv, Apart, InHand
  <1>6. hand'[s] = hand[s] \o list /\ \A t \in Slot \ {s} : hand'[t] = hand[t]
    BY <1>1, <1>5
  <1>7. Carried(hand'[s]) = Carried(hand[s]) \cup Carried(list) /\ OnceInList(hand'[s])
    BY <1>4, <1>5, <1>6, Concatenation
  <1> QED
    BY <1>3, <1>4, <1>6, <1>7 DEF closed, due, CollectEnd, wireVars, storeVars

\* RequeueAccess moves a collector's items behind the waiting ones and drops some
\* only when the list is full then (xray.go:292).
LEMMA RequeueMoves ==
  ASSUME IInv, NEW s \in Slot, Requeue(s)
  PROVE  /\ Carried(pending') \subseteq Carried(pending) \cup Carried(hand[s])
         /\ Carried(pending) \subseteq Carried(pending')
         /\ Carried(hand[s]) \subseteq Carried(pending') \/ Len(pending') = MaxItems
         /\ OnceInList(pending')
         /\ hand'[s] = <<>> /\ \A t \in Slot \ {s} : hand'[t] = hand[t]
         /\ UNCHANGED <<fresh, accumulator, wal, todo, toServer, settled, phase>>
  <1> DEFINE room == MaxItems - Len(pending)
             n == Len(hand[s])
             end == SubSeq(hand[s], n - room + 1, n)
  <1>1. /\ hand \in [Slot -> Seq(Item)] /\ hand[s] \in Seq(Item) /\ pending \in Seq(Item)
        /\ Len(pending) \in Nat /\ n \in Nat /\ Len(pending) <= MaxItems /\ MaxItems \in Nat
    BY LenProperties, LimitsAssumption DEF IInv, TypeOK, Requeue
  <1>2. /\ OnceInList(pending) /\ OnceInList(hand[s])
        /\ Carried(pending) \cap Carried(hand[s]) = {}
    BY DEF IInv, OnceInv, Apart, InHand
  <1>3. n > room => /\ end \in Seq(Item) /\ Len(end) = room
                    /\ Carried(end) \subseteq Carried(hand[s]) /\ OnceInList(end)
    <2>1. SUFFICES ASSUME n > room
                   PROVE  /\ end \in Seq(Item) /\ Len(end) = room
                          /\ Carried(end) \subseteq Carried(hand[s]) /\ OnceInList(end)
      OBVIOUS
    <2>2. n - room + 1 \in 1..(n + 1) /\ (n - (n - room + 1)) + 1 = room
      BY <1>1, <2>1
    <2> QED
      BY <1>1, <1>2, <2>2, EndOfList
  <1>4. pending' = pending \o (IF n <= room THEN hand[s] ELSE end)
    BY DEF Requeue, RequeueAccess
  <1> HIDE DEF end
  <1>5. CASE n <= room
    BY <1>1, <1>2, <1>4, <1>5, Concatenation DEF Requeue, planeVars, wireVars, storeVars
  <1>6. CASE n > room
    <2>1. pending' = pending \o end
      BY <1>1, <1>4, <1>6
    <2>2. /\ Carried(pending') = Carried(pending) \cup Carried(end)
          /\ OnceInList(pending') /\ Len(pending') = MaxItems
      BY <1>1, <1>2, <1>3, <1>6, <2>1, Concatenation
    <2> QED
      BY <1>1, <1>3, <1>6, <2>2 DEF Requeue, planeVars, wireVars, storeVars
  <1> QED
    BY <1>1, <1>5, <1>6

\* AddAccess moves a collector's items into the accumulator (access.go:29).
LEMMA AddAccessMoves ==
  ASSUME IInv, NEW s \in Slot, AddAccess(s)
  PROVE  /\ ConnsOf(accumulator') = ConnsOf(accumulator) \cup Carried(hand[s])
         /\ OnceInItems(accumulator')
         /\ hand'[s] = <<>> /\ \A t \in Slot \ {s} : hand'[t] = hand[t]
         /\ UNCHANGED <<fresh, pending, wal, todo, toServer, settled, phase>>
  <1>1. /\ hand \in [Slot -> Seq(Item)] /\ hand[s] \in Seq(Item)
        /\ accumulator \in SUBSET Item /\ IsFiniteSet(accumulator)
        /\ \A a, b \in accumulator : a.key = b.key => a = b
        /\ OnceInItems(accumulator) /\ OnceInList(hand[s])
        /\ ConnsOf(accumulator) \cap Carried(hand[s]) = {}
    BY DEF IInv, TypeOK, FiniteInv, OnceInv, Apart, InHand
  <1>2. accumulator' = Upserted(accumulator, hand[s])
    BY DEF AddAccess
  <1>3. /\ ConnsOf(accumulator') = ConnsOf(accumulator) \cup Carried(hand[s])
        /\ OnceInItems(accumulator')
    BY <1>1, <1>2, UpsertKeepsCounts
  <1> QED
    BY <1>1, <1>3 DEF AddAccess, planeVars, wireVars

\* DrainAccess moves the first items into the log and loses counts of rows only at a
\* limit (access.go:90).
LEMMA DrainAccessMoves ==
  ASSUME IInv, NEW s \in Slot, DrainAccess(s), accumulator # {}
  PROVE  /\ ConnsOf(accumulator) = ConnsOf(accumulator') \cup ConnsOf(FirstItems)
         /\ ConnsOf(accumulator') \cap ConnsOf(FirstItems) = {}
         /\ OnceInItems(accumulator') /\ OnceInRows(wal')
         /\ RowConns(wal') \subseteq RowConns(wal) \cup ConnsOf(FirstItems)
         /\ RowConns(wal) \cup ConnsOf(FirstItems) \subseteq RowConns(wal') \/ WALFull(wal')
         /\ UNCHANGED <<fresh, pending, hand, todo, toServer, settled, phase>>
  <1>1. PICK b \in Row : IsNewRow(b)
    BY DrainAccessLogs DEF IInv
  <1>2. FirstItems \subseteq accumulator
    BY BatchIsBounded DEF IInv
  <1>3. /\ accumulator' = accumulator \ FirstItems /\ b.items = FirstItems
        /\ wal' \subseteq wal \cup {b} /\ (wal' = wal \cup {b} \/ WALFull(wal'))
    BY <1>1 DEF IsNewRow
  <1>4. /\ OnceInItems(accumulator) /\ OnceInRows(wal)
        /\ \A c \in ConnsOf(accumulator) : c \notin RowConns(wal)
    BY DEF IInv, OnceInv, Apart, Sent, RowConns
  <1>5. /\ ConnsOf(accumulator) = ConnsOf(accumulator') \cup ConnsOf(FirstItems)
        /\ ConnsOf(accumulator') \cap ConnsOf(FirstItems) = {}
        /\ OnceInItems(accumulator')
    BY <1>2, <1>3, <1>4 DEF ConnsOf, OnceInItems
  <1>6. OnceInRows(wal')
    <2>1. \A c \in ConnsOf(b.items) : \A x \in wal : c \notin ConnsOf(x.items)
      BY <1>3, <1>4, <1>5 DEF RowConns
    <2> QED
      BY <1>3, <1>4, <2>1 DEF OnceInRows
  <1>7. RowConns(wal') \subseteq RowConns(wal) \cup ConnsOf(FirstItems)
    BY <1>3 DEF RowConns
  <1>8. wal' = wal \cup {b} => RowConns(wal) \cup ConnsOf(FirstItems) \subseteq RowConns(wal')
    BY <1>3 DEF RowConns
  <1> QED
    BY <1>3, <1>5, <1>6, <1>7, <1>8 DEF DrainAccess, planeVars, wireVars

\* Sessions send rows of the log and the server settles rows that were sent.
WireKept ==
  /\ wal' \subseteq wal /\ Wire' \subseteq Wire \cup wal
  /\ settled \subseteq settled' /\ settled' \subseteq settled \cup RowConns(Wire)

\* A crash may settle what was on the wire and sends nothing new.
LEMMA RestartWire ==
  ASSUME TypeOK, Restart
  PROVE  WireKept
  <1>1. PICK rows \in SUBSET UNION {ItemsOf(toServer[s]) : s \in Slot} :
          settled' = settled \cup RowConns(rows)
    BY DEF Restart
  <1>2. rows \subseteq Wire
    BY DEF Wire
  <1>3. RowConns(rows) \subseteq RowConns(Wire)
    BY <1>2 DEF RowConns
  <1>4. wal' = wal
    BY DEF Restart, storeVars
  <1>5. \A s \in Slot : todo'[s] = {} /\ ItemsOf(toServer'[s]) = {}
    BY DEF Restart, ItemsOf
  <1>6. Wire' = {}
    BY <1>5 DEF Wire
  <1> QED
    BY <1>1, <1>3, <1>4, <1>6 DEF WireKept

\* Nor does a session that ends.
LEMMA EndSessionWire ==
  ASSUME TypeOK, NEW s \in Slot, EndSession(s), wal' \subseteq wal
  PROVE  WireKept
  <1>1. /\ toServer \in [Slot -> Seq(Row)] /\ toServer[s] \in Seq(Row) /\ todo \in [Slot -> SUBSET Row]
    BY DEF TypeOK
  <1>2. PICK n \in 0..Len(toServer[s]) :
          settled' = settled \cup RowConns(ItemsOf(SubSeq(toServer[s], 1, n)))
    BY DEF EndSession
  <1>3. ItemsOf(SubSeq(toServer[s], 1, n)) \subseteq Wire
    BY <1>1, Frames DEF Wire
  <1>4. RowConns(ItemsOf(SubSeq(toServer[s], 1, n))) \subseteq RowConns(Wire)
    BY <1>3 DEF RowConns
  <1>5. /\ toServer'[s] = <<>> /\ \A t \in Slot \ {s} : toServer'[t] = toServer[t]
        /\ \A t \in Slot : todo'[t] \subseteq todo[t]
    BY <1>1 DEF EndSession
  <1>6. \A t \in Slot : ItemsOf(toServer'[t]) \subseteq ItemsOf(toServer[t])
    BY <1>5 DEF ItemsOf
  <1>7. Wire' \subseteq Wire
    BY <1>5, <1>6 DEF Wire
  <1> QED
    BY <1>2, <1>4, <1>7 DEF WireKept

\* Every step but DrainAccess keeps to what was sent.
LEMMA WireStep ==
  ASSUME TypeOK, [Next]_vars
  PROVE  WireKept \/ \E s \in Slot : DrainAccess(s) /\ accumulator # {}
  <1> USE DEF planeVars, workerVars, wireVars, storeVars
  <1>0. /\ toServer \in [Slot -> Seq(Row)] /\ todo \in [Slot -> SUBSET Row]
    BY DEF TypeOK
  <1>1. ASSUME wal' \subseteq wal, UNCHANGED <<todo, toServer, settled>> PROVE WireKept
    BY <1>1 DEF WireKept, Wire
  <1>2. ASSUME NEW s \in Slot, LoadPending(s) \/ StartSession(s) \/ RoundFails(s) PROVE WireKept
    <2>1. /\ todo'[s] \subseteq wal /\ \A t \in Slot \ {s} : todo'[t] = todo[t]
          /\ UNCHANGED <<wal, toServer, settled>>
      BY <1>0, <1>2 DEF LoadPending, StartSession, RoundFails, PendingAccess
    <2> QED
      BY <2>1 DEF WireKept, Wire
  <1>3. ASSUME NEW s \in Slot, SendBatch(s) PROVE WireKept
    <2>1. PICK b \in todo[s] : /\ toServer' = [toServer EXCEPT ![s] = Append(@, b)]
                               /\ todo' = [todo EXCEPT ![s] = @ \ {b}]
      BY <1>3 DEF SendBatch
    <2>2. b \in Row /\ toServer[s] \in Seq(Row)
      BY <1>0
    <2>3. ItemsOf(Append(toServer[s], b)) = ItemsOf(toServer[s]) \cup {b}
      BY <2>2, Frames
    <2>4. /\ ItemsOf(toServer'[s]) = ItemsOf(toServer[s]) \cup {b}
          /\ \A t \in Slot \ {s} : toServer'[t] = toServer[t]
          /\ \A t \in Slot : todo'[t] \subseteq todo[t]
      BY <1>0, <2>1, <2>3
    <2>5. Wire' \subseteq Wire
      BY <2>4 DEF Wire
    <2> QED
      BY <1>3, <2>5 DEF WireKept, SendBatch
  <1>4. ASSUME NEW s \in Slot, ReadAck(s) \/ SessionEnds(s) PROVE WireKept
    <2>1. wal' \subseteq wal
      BY <1>4 DEF ReadAck, SessionEnds
    <2>2. EndSession(s) \/ UNCHANGED <<todo, toServer, settled>>
      <3>1. CASE ReadAck(s)
        BY <3>1 DEF ReadAck, Continue
      <3>2. CASE SessionEnds(s)
        BY <3>2 DEF SessionEnds
      <3> QED
        BY <1>4, <3>1, <3>2
    <2>3. CASE EndSession(s)
      BY <2>1, <2>3, EndSessionWire
    <2> QED
      BY <1>1, <2>1, <2>2, <2>3
  <1>5. ASSUME NEW s \in Slot, ServerSettles(s) \/ ServerDefers(s) PROVE WireKept
    <2>1. /\ toServer[s] # <<>> /\ toServer' = [toServer EXCEPT ![s] = Tail(@)]
          /\ UNCHANGED <<wal, todo>>
          /\ settled \subseteq settled'
          /\ settled' \subseteq settled \cup ConnsOf(Head(toServer[s]).items)
      BY <1>5 DEF ServerSettles, ServerDefers, Answer
    <2>2. /\ Head(toServer[s]) \in ItemsOf(toServer[s])
          /\ ItemsOf(Tail(toServer[s])) \subseteq ItemsOf(toServer[s])
      BY <1>0, <2>1, Frames
    <2>3. Head(toServer[s]) \in Wire
      BY <2>2 DEF Wire
    <2>4. ConnsOf(Head(toServer[s]).items) \subseteq RowConns(Wire)
      BY <2>3 DEF RowConns
    <2>5. \A t \in Slot : ItemsOf(toServer'[t]) \subseteq ItemsOf(toServer[t])
      BY <1>0, <2>1, <2>2
    <2>6. Wire' \subseteq Wire
      BY <2>1, <2>5 DEF Wire
    <2> QED
      BY <2>1, <2>4, <2>6 DEF WireKept
  <1>6. CASE RebuildClose \/ RebuildDrain \/ CoreStarts \/ UNCHANGED vars
    BY <1>1, <1>6 DEF RebuildClose, RebuildDrain, CoreStarts, vars
  <1>7. ASSUME NEW c \in Conn, Start(c) \/ CloseStoresEnd(c) \/ CloseStoresClosed(c)
        PROVE  wal' = wal /\ UNCHANGED <<todo, toServer, settled>>
    BY <1>7 DEF Start, CloseStoresEnd, CloseStoresClosed
  <1>8. ASSUME NEW s \in Slot, \/ CollectBegin(s) \/ CollectEnd(s) \/ AddAccess(s)
                               \/ AddAccessFails(s) \/ Requeue(s) \/ SendDone(s)
                               \/ WorkerReturns(s)
        PROVE  wal' = wal /\ UNCHANGED <<todo, toServer, settled>>
    BY <1>8 DEF CollectBegin, CollectEnd, AddAccess, AddAccessFails, Requeue, SendDone,
                WorkerReturns
  <1>9. ASSUME NEW s \in Slot, DrainAccess(s), accumulator = {}
        PROVE  wal' = wal /\ UNCHANGED <<todo, toServer, settled>>
    BY <1>9 DEF DrainAccess
  <1>10. ASSUME Crash \/ \E s \in Slot : RequeuePanics(s) PROVE WireKept
    <2>1. Restart
      BY <1>10 DEF Crash, RequeuePanics
    <2> QED
      BY <2>1, RestartWire
  <1> QED
    BY <1>1, <1>2, <1>3, <1>4, <1>5, <1>6, <1>7, <1>8, <1>9, <1>10 DEF Next, WorkerStep

\* The steps that move counts before they are in the log.
LEMMA WhoMoves ==
  ASSUME [Next]_vars
  PROVE  \/ UNCHANGED <<fresh, pending, hand, accumulator>>
         \/ RebuildDrain \/ Restart
         \/ \E c \in Conn : Start(c)
         \/ \E s \in Slot : \/ CollectBegin(s) \/ CollectEnd(s) \/ AddAccess(s) \/ Requeue(s)
                            \/ DrainAccess(s) /\ accumulator # {}
  <1> USE DEF planeVars, workerVars, wireVars, storeVars
  <1>1. CASE RebuildClose \/ CoreStarts \/ Crash \/ UNCHANGED vars
    BY <1>1 DEF RebuildClose, CoreStarts, Crash, vars
  <1>2. ASSUME NEW c \in Conn, CloseStoresEnd(c) \/ CloseStoresClosed(c)
        PROVE  UNCHANGED <<fresh, pending, hand, accumulator>>
    BY <1>2 DEF CloseStoresEnd, CloseStoresClosed
  <1>3. ASSUME NEW s \in Slot, \/ AddAccessFails(s) \/ LoadPending(s) \/ SendBatch(s)
                               \/ SendDone(s) \/ RoundFails(s) \/ WorkerReturns(s)
        PROVE  UNCHANGED <<fresh, pending, hand, accumulator>>
    BY <1>3 DEF AddAccessFails, LoadPending, SendBatch, SendDone, RoundFails, WorkerReturns
  <1>4. ASSUME NEW s \in Slot, \/ StartSession(s) \/ ReadAck(s) \/ SessionEnds(s)
                               \/ ServerSettles(s) \/ ServerDefers(s)
        PROVE  UNCHANGED <<fresh, pending, hand, accumulator>>
    BY <1>4 DEF StartSession, ReadAck, SessionEnds, ServerSettles, ServerDefers, Answer
  <1>5. ASSUME NEW s \in Slot, RequeuePanics(s) PROVE Restart
    BY <1>5 DEF RequeuePanics
  <1>6. ASSUME NEW s \in Slot, DrainAccess(s), accumulator = {}
        PROVE  UNCHANGED <<fresh, pending, hand, accumulator>>
    BY <1>6 DEF DrainAccess
  <1> QED
    BY <1>1, <1>2, <1>3, <1>4, <1>5, <1>6 DEF Next, WorkerStep

\* A connection that was accepted stays known.
LEMMA KnownGrows ==
  ASSUME TypeOK, [Next]_vars
  PROVE  Known \subseteq Known'
  <1> USE DEF planeVars, workerVars, wireVars, storeVars
  <1> SUFFICES ASSUME NEW c \in Conn, phase[c] # "none" PROVE phase'[c] # "none"
    BY DEF Known
  <1>0. phase \in [Conn -> Phase]
    BY DEF TypeOK
  <1>1. CASE UNCHANGED phase
    BY <1>1
  <1>2. ASSUME NEW d \in Conn, Start(d) \/ CloseStoresEnd(d) \/ CloseStoresClosed(d)
        PROVE  phase'[c] # "none"
    BY <1>0, <1>2 DEF Start, CloseStoresEnd, CloseStoresClosed
  <1>3. CASE RebuildClose
    BY <1>0, <1>3 DEF RebuildClose
  <1>4. CASE Restart
    BY <1>0, <1>4 DEF Restart
  <1>5. CASE RebuildDrain \/ CoreStarts \/ Crash \/ UNCHANGED vars
    BY <1>1, <1>4, <1>5 DEF RebuildDrain, CoreStarts, Crash, vars
  <1>6. ASSUME NEW s \in Slot, WorkerStep(s) PROVE UNCHANGED phase
    BY <1>6 DEF WorkerStep, CollectBegin, CollectEnd, AddAccess, AddAccessFails, Requeue,
                DrainAccess, LoadPending, SendBatch, SendDone, RoundFails
  <1>7. ASSUME NEW s \in Slot, \/ WorkerReturns(s) \/ StartSession(s) \/ ReadAck(s)
                               \/ SessionEnds(s) \/ ServerSettles(s) \/ ServerDefers(s)
        PROVE  UNCHANGED phase
    BY <1>7 DEF WorkerReturns, StartSession, ReadAck, SessionEnds, ServerSettles, ServerDefers,
                Answer
  <1>8. ASSUME NEW s \in Slot, RequeuePanics(s) PROVE Restart
    BY <1>8 DEF RequeuePanics
  <1> QED
    BY <1>1, <1>2, <1>3, <1>4, <1>5, <1>6, <1>7, <1>8 DEF Next

-----------------------------------------------------------------------------
(* Counts stay at one place.                                               *)

\* Nothing is newly sent then.
LEMMA SentStep ==
  ASSUME TypeOK, WireKept
  PROVE  Sent' \subseteq Sent
  <1>1. RowConns(wal' \cup Wire') \subseteq RowConns(wal \cup Wire)
    BY DEF WireKept, RowConns
  <1>2. RowConns(Wire) \subseteq RowConns(wal \cup Wire)
    BY DEF RowConns
  <1> QED
    BY <1>1, <1>2 DEF WireKept, Sent

\* Every step keeps counts at one place: it moves each from where it was.
LEMMA OnceStep == IInv /\ [Next]_vars => OnceInv'
  <1> SUFFICES ASSUME IInv, [Next]_vars PROVE OnceInv'
    OBVIOUS
  <1>0. /\ TypeOK /\ hand \in [Slot -> Seq(Item)]
        /\ \A t \in Slot : InHand[t] = Carried(hand[t]) /\ InHand'[t] = Carried(hand'[t])
    BY DEF IInv, TypeOK, InHand
  <1>1. Known \subseteq Known'
    BY <1>0, KnownGrows
  <1>2. /\ OnceInList(pending) /\ (\A t \in Slot : OnceInList(hand[t]))
        /\ OnceInItems(accumulator) /\ OnceInRows(wal)
        /\ Apart(fresh, Carried(pending), InHand, ConnsOf(accumulator), Sent)
        /\ fresh \cup Carried(pending) \cup ConnsOf(accumulator) \cup Sent \subseteq Known
        /\ \A t \in Slot : InHand[t] \subseteq Known
    BY DEF IInv, OnceInv
  <1>3. ASSUME NEW s \in Slot, DrainAccess(s), accumulator # {} PROVE OnceInv'
    <2>1. /\ ConnsOf(accumulator) = ConnsOf(accumulator') \cup ConnsOf(FirstItems)
          /\ ConnsOf(accumulator') \cap ConnsOf(FirstItems) = {}
          /\ OnceInItems(accumulator') /\ OnceInRows(wal')
          /\ RowConns(wal') \subseteq RowConns(wal) \cup ConnsOf(FirstItems)
          /\ UNCHANGED <<fresh, pending, hand, todo, toServer, settled, phase>>
      BY <1>3, DrainAccessMoves
    <2>2. Wire' = Wire /\ Known' = Known
      BY <2>1 DEF Wire, Known
    <2>3. Sent' \subseteq Sent \cup ConnsOf(FirstItems)
      BY <2>1, <2>2 DEF Sent, RowConns
    <2>4. Apart(fresh, Carried(pending), InHand, ConnsOf(accumulator), Sent)'
      BY <1>0, <1>2, <2>1, <2>3 DEF Apart
    <2> QED
      BY <1>0, <1>2, <2>1, <2>2, <2>3, <2>4 DEF OnceInv
  <1>4. SUFFICES ASSUME WireKept PROVE OnceInv'
    BY <1>0, <1>3, WireStep
  <1>5. Sent' \subseteq Sent /\ OnceInRows(wal')
    BY <1>0, <1>2, <1>4, SentStep DEF WireKept, OnceInRows
  <1>6. CASE UNCHANGED <<fresh, pending, hand, accumulator>>
    BY <1>0, <1>1, <1>2, <1>5, <1>6 DEF OnceInv, Apart
  <1>7. CASE RebuildDrain
    <2> DEFINE taken == fresh \cap {c \in recorder : phase[c] = "closed"}
    <2>1. /\ Carried(pending') = Carried(pending) \cup taken
          /\ OnceInList(pending')
          /\ fresh' = fresh \ recorder
          /\ UNCHANGED <<hand, accumulator>>
      BY <1>7, RebuildDrainMoves
    <2>2. taken \subseteq fresh /\ fresh' \cap taken = {} /\ fresh' \subseteq fresh
      BY <2>1
    <2> HIDE DEF taken
    <2> QED
      BY <1>0, <1>1, <1>2, <1>5, <2>1, <2>2 DEF OnceInv, Apart
  <1>8. CASE Restart
    <2>1. /\ fresh' = {} /\ pending' = <<>> /\ accumulator' = accumulator
          /\ \A t \in Slot : hand'[t] = <<>>
      BY <1>8 DEF Restart, storeVars
    <2> QED
      BY <1>0, <1>1, <1>2, <1>5, <2>1, EmptyList DEF OnceInv, Apart
  <1>9. ASSUME NEW c \in Conn, Start(c) PROVE OnceInv'
    <2>1. /\ fresh' = fresh \cup {c} /\ UNCHANGED <<pending, hand, accumulator>>
          /\ c \notin Known /\ c \in Known'
      BY <1>0, <1>9 DEF Start, Known, workerVars, storeVars, TypeOK
    <2> QED
      BY <1>0, <1>1, <1>2, <1>5, <2>1 DEF OnceInv, Apart
  <1>10. ASSUME NEW s \in Slot, CollectBegin(s) PROVE OnceInv'
    <2>1. /\ hand'[s] = pending /\ \A t \in Slot \ {s} : hand'[t] = hand[t]
          /\ pending' = <<>> /\ UNCHANGED <<fresh, accumulator>>
      BY <1>0, <1>10 DEF CollectBegin, storeVars
    <2>2. /\ InHand'[s] = Carried(pending) /\ OnceInList(hand'[s])
          /\ \A t \in Slot \ {s} : InHand'[t] = InHand[t] /\ OnceInList(hand'[t])
      BY <1>0, <1>2, <2>1, EmptyList
    <2>3. Apart(fresh, Carried(pending), InHand, ConnsOf(accumulator), Sent)'
      <3> DEFINE h == InHand'
      <3>1. /\ h[s] = Carried(pending)
            /\ \A t \in Slot \ {s} : h[t] = InHand[t]
        BY <2>2
      <3> HIDE DEF h
      <3>2. Apart(fresh', Carried(pending'), h, ConnsOf(accumulator'), Sent')
        BY <1>2, <1>5, <2>1, <3>1, EmptyList DEF Apart
      <3> QED
        BY <3>2 DEF h
    <2> QED
      BY <1>1, <1>2, <1>5, <2>1, <2>2, <2>3, EmptyList DEF OnceInv
  <1>11. ASSUME NEW s \in Slot, CollectEnd(s) PROVE OnceInv'
    <2> DEFINE taken == fresh \cap (seen[s].closed \cup seen[s].due)
    <2>1. /\ Carried(hand'[s]) = Carried(hand[s]) \cup taken
          /\ OnceInList(hand'[s])
          /\ \A t \in Slot \ {s} : hand'[t] = hand[t]
          /\ fresh' = fresh \ taken
          /\ UNCHANGED <<pending, accumulator>>
      BY <1>11, CollectEndMoves
    <2>2. taken \subseteq fresh
      OBVIOUS
    <2> HIDE DEF taken
    <2>3. /\ InHand'[s] = InHand[s] \cup taken /\ OnceInList(hand'[s])
          /\ \A t \in Slot \ {s} : InHand'[t] = InHand[t] /\ OnceInList(hand'[t])
      BY <1>0, <1>2, <2>1, EmptyList
    <2>4. Apart(fresh, Carried(pending), InHand, ConnsOf(accumulator), Sent)'
      <3> DEFINE h == InHand'
      <3>1. /\ h[s] = InHand[s] \cup taken
            /\ \A t \in Slot \ {s} : h[t] = InHand[t]
        BY <2>3
      <3> HIDE DEF h
      <3>2. Apart(fresh', Carried(pending'), h, ConnsOf(accumulator'), Sent')
        BY <1>2, <1>5, <2>1, <2>2, <3>1, EmptyList DEF Apart
      <3> QED
        BY <3>2 DEF h
    <2> QED
      BY <1>1, <1>2, <1>5, <2>1, <2>2, <2>3, <2>4, EmptyList DEF OnceInv
  <1>12. ASSUME NEW s \in Slot, AddAccess(s) PROVE OnceInv'
    <2>1. /\ ConnsOf(accumulator') = ConnsOf(accumulator) \cup Carried(hand[s])
          /\ OnceInItems(accumulator')
          /\ hand'[s] = <<>> /\ \A t \in Slot \ {s} : hand'[t] = hand[t]
          /\ UNCHANGED <<fresh, pending>>
      BY <1>12, AddAccessMoves
    <2>2. /\ InHand'[s] = {} /\ OnceInList(hand'[s])
          /\ \A t \in Slot \ {s} : InHand'[t] = InHand[t] /\ OnceInList(hand'[t])
      BY <1>0, <1>2, <2>1, EmptyList
    <2>3. Apart(fresh, Carried(pending), InHand, ConnsOf(accumulator), Sent)'
      <3> DEFINE h == InHand'
      <3>1. /\ h[s] = {}
            /\ \A t \in Slot \ {s} : h[t] = InHand[t]
        BY <2>2
      <3> HIDE DEF h
      <3>2. /\ ConnsOf(accumulator') = ConnsOf(accumulator) \cup InHand[s]
            /\ fresh' = fresh /\ Carried(pending') = Carried(pending)
        BY <1>0, <2>1
      <3>3. Apart(fresh', Carried(pending'), h, ConnsOf(accumulator'), Sent')
        BY <1>2, <1>5, <3>1, <3>2 DEF Apart
      <3> QED
        BY <3>3 DEF h
    <2> QED
      BY <1>1, <1>2, <1>5, <1>0, <2>1, <2>2, <2>3, EmptyList DEF OnceInv
  <1>13. ASSUME NEW s \in Slot, Requeue(s) PROVE OnceInv'
    <2>1. /\ Carried(pending') \subseteq Carried(pending) \cup Carried(hand[s])
          /\ OnceInList(pending')
          /\ hand'[s] = <<>> /\ \A t \in Slot \ {s} : hand'[t] = hand[t]
          /\ UNCHANGED <<fresh, accumulator>>
      BY <1>13, RequeueMoves
    <2>2. /\ InHand'[s] = {} /\ OnceInList(hand'[s])
          /\ \A t \in Slot \ {s} : InHand'[t] = InHand[t] /\ OnceInList(hand'[t])
      BY <1>0, <1>2, <2>1, EmptyList
    <2>3. Apart(fresh, Carried(pending), InHand, ConnsOf(accumulator), Sent)'
      <3> DEFINE h == InHand'
      <3>1. /\ h[s] = {}
            /\ \A t \in Slot \ {s} : h[t] = InHand[t]
        BY <2>2
      <3> HIDE DEF h
      <3>2. Apart(fresh', Carried(pending'), h, ConnsOf(accumulator'), Sent')
        BY <1>2, <1>5, <1>0, <2>1, <3>1, EmptyList DEF Apart
      <3> QED
        BY <3>2 DEF h
    <2> QED
      BY <1>1, <1>2, <1>5, <1>0, <2>1, <2>2, <2>3, EmptyList DEF OnceInv
  <1> QED
    BY <1>3, <1>6, <1>7, <1>8, <1>9, <1>10, <1>11, <1>12, <1>13, WhoMoves

\* At most one place: the sets are apart and each holds a count once.
LEMMA OnePlace ==
  ASSUME TypeOK, OnceInv, NEW c \in Conn, NEW p \in Places(c), NEW q \in Places(c)
  PROVE  p = q
  <1> DEFINE Fresh(x) == c \in fresh /\ x = <<"fresh", c>>
             Waits(x) == \E n \in DOMAIN pending : c \in pending[n].conns /\ x = <<"pending", n>>
             Held1(x) == \E s \in Slot : \E n \in DOMAIN hand[s] :
                            c \in hand[s][n].conns /\ x = <<"hand", <<s, n>>>>
             Added(x) == \E a \in accumulator : c \in a.conns /\ x = <<"accumulator", a>>
             Logged(x) == \E b \in wal : c \in ConnsOf(b.items) /\ x = <<"wal", b>>
  <1>1. ASSUME NEW x \in Places(c)
        PROVE  Fresh(x) \/ Waits(x) \/ Held1(x) \/ Added(x) \/ Logged(x)
    <2>1. CASE x \in {"fresh"} \X ({c} \cap fresh)
      BY <2>1
    <2>2. CASE x \in {"pending"} \X Holding(pending, c)
      BY <2>2 DEF Holding
    <2>3. CASE x \in {"hand"} \X (UNION {{s} \X Holding(hand[s], c) : s \in Slot})
      <3>1. PICK y \in UNION {{s} \X Holding(hand[s], c) : s \in Slot} : x = <<"hand", y>>
        BY <2>3
      <3>2. PICK s \in Slot : y \in {s} \X Holding(hand[s], c)
        BY <3>1
      <3> QED
        BY <3>1, <3>2 DEF Holding
    <2>4. CASE x \in {"accumulator"} \X {a \in accumulator : c \in a.conns}
      BY <2>4
    <2>5. CASE x \in {"wal"} \X {b \in wal : c \in ConnsOf(b.items)}
      BY <2>5
    <2> QED
      BY <1>1, <2>1, <2>2, <2>3, <2>4, <2>5 DEF Places, Unsent
  <1>2. ASSUME NEW x
        PROVE  /\ Fresh(x) => c \in fresh
               /\ Waits(x) => c \in Carried(pending)
               /\ Held1(x) => \E s \in Slot : c \in InHand[s]
               /\ Added(x) => c \in ConnsOf(accumulator)
               /\ Logged(x) => c \in Sent
    BY CarriedIs DEF InHand, ConnsOf, Sent, RowConns
  <1>3. ASSUME NEW x, NEW y, Waits(x), Waits(y) PROVE x = y
    BY <1>3 DEF OnceInv, OnceInList
  <1>4. ASSUME NEW x, NEW y, Held1(x), Held1(y) PROVE x = y
    <2>a. PICK s \in Slot : \E n \in DOMAIN hand[s] :
            c \in hand[s][n].conns /\ x = <<"hand", <<s, n>>>>
      BY <1>4
    <2>1. PICK n \in DOMAIN hand[s] : c \in hand[s][n].conns /\ x = <<"hand", <<s, n>>>>
      BY <2>a
    <2>b. PICK t \in Slot : \E m \in DOMAIN hand[t] :
            c \in hand[t][m].conns /\ y = <<"hand", <<t, m>>>>
      BY <1>4
    <2>2. PICK m \in DOMAIN hand[t] : c \in hand[t][m].conns /\ y = <<"hand", <<t, m>>>>
      BY <2>b
    <2>3. c \in InHand[s] /\ c \in InHand[t]
      BY <2>1, <2>2, CarriedIs DEF InHand
    <2>4. s = t
      BY <2>3 DEF OnceInv, Apart
    <2>5. n = m
      BY <2>1, <2>2, <2>4 DEF OnceInv, OnceInList
    <2> QED
      BY <2>1, <2>2, <2>4, <2>5
  <1>5. ASSUME NEW x, NEW y, Added(x), Added(y) PROVE x = y
    BY <1>5 DEF OnceInv, OnceInItems
  <1>6. ASSUME NEW x, NEW y, Logged(x), Logged(y) PROVE x = y
    BY <1>6 DEF OnceInv, OnceInRows
  <1>7. ASSUME NEW x, NEW y, Fresh(x), Fresh(y) PROVE x = y
    BY <1>7
  <1> HIDE DEF Fresh, Waits, Held1, Added, Logged
  <1> QED
    BY <1>1, <1>2, <1>3, <1>4, <1>5, <1>6, <1>7 DEF OnceInv, Apart

\* A connection that is settled, and whose row is gone, is nowhere.
LEMMA NoPlace ==
  ASSUME TypeOK, OnceInv, NEW c \in settled \ RowConns(wal)
  PROVE  Places(c) = {}
  <1>1. c \in Sent
    BY DEF Sent
  <1>2. /\ c \notin fresh /\ c \notin Carried(pending) /\ c \notin ConnsOf(accumulator)
        /\ \A s \in Slot : c \notin InHand[s]
    BY <1>1 DEF OnceInv, Apart
  <1>3. Holding(pending, c) = {} /\ \A s \in Slot : Holding(hand[s], c) = {}
    BY <1>2, CarriedIs DEF Holding, InHand
  <1>4. {a \in accumulator : c \in a.conns} = {} /\ {b \in wal : c \in ConnsOf(b.items)} = {}
    BY <1>2 DEF ConnsOf, RowConns
  <1>5. UNION {{s} \X Holding(hand[s], c) : s \in Slot} = {}
    BY <1>3
  <1> QED
    BY <1>2, <1>3, <1>4, <1>5 DEF Places, Unsent

-----------------------------------------------------------------------------
(* Counts are lost at the limits or with the process only.                 *)

\* The places of a count.
LEMMA HeldIs ==
  ASSUME NEW c
  PROVE  c \in Held <=> \/ c \in fresh \/ c \in Carried(pending) \/ c \in ConnsOf(accumulator)
                        \/ c \in RowConns(wal) \/ c \in settled
                        \/ \E s \in Slot : c \in Carried(hand[s])
  BY DEF Held, InAgent, HandConns, Carried

\* An acknowledgement deletes a row the server has settled.
LEMMA LogKeeps ==
  ASSUME IInv, [Next]_vars, WireKept, ~\E s \in Slot : DrainAccess(s) /\ accumulator # {}
  PROVE  RowConns(wal) \cup settled \subseteq RowConns(wal') \cup settled'
  <1>1. settled \subseteq settled'
    BY DEF WireKept
  <1>2. ASSUME NEW s \in Slot, ReadAck(s), wal' # wal
        PROVE  RowConns(wal) \subseteq RowConns(wal') \cup settled'
    <2> DEFINE ack == Head(toClient[s])
    <2>1. /\ toClient[s] # <<>> /\ ack.status = "settled" /\ wal' = wal \ {ack.row}
      BY <1>2 DEF ReadAck, Deletes
    <2>2. toClient[s] \in Seq([row : Row, status : Status])
      BY DEF IInv, TypeOK
    <2>3. ack \in ItemsOf(toClient[s])
      BY <2>1, <2>2, Frames
    <2>4. ConnsOf(ack.row.items) \subseteq settled
      BY <2>1, <2>3 DEF ItemsOf, IInv, SessionInv
    <2> QED
      BY <1>1, <2>1, <2>4 DEF RowConns
  <1>3. ASSUME NEW s \in Slot, AddAccess(s) \/ (DrainAccess(s) /\ accumulator = {})
        PROVE  wal' = wal
    BY <1>3 DEF AddAccess, DrainAccess, storeVars
  <1>4. wal' = wal \/ \E s \in Slot : ReadAck(s)
    BY <1>3, WhoStores DEF storeVars
  <1> QED
    BY <1>1, <1>2, <1>4

\* The action of LostOnlyAtLimits, and that every step is one.
LossAllowed(c) == \/ boot' # boot
                  \/ core = "closing" /\ c \in fresh /\ phase[c] # "closed"
                  \/ c \in HandConns /\ Len(pending') = MaxItems
                  \/ WALFull(wal')

\* A step loses a count in these ways only.
LEMMA LostStep ==
  ASSUME IInv, [Next]_vars, NEW c \in Held, ~LossAllowed(c)
  PROVE  c \in Held'
  <1> DEFINE Kept == \/ c \in fresh' \/ c \in Carried(pending') \/ c \in ConnsOf(accumulator')
                     \/ c \in RowConns(wal') \/ c \in settled'
                     \/ \E s \in Slot : c \in Carried(hand'[s])
  <1>1. SUFFICES Kept
    BY DEF Held, InAgent, HandConns, Carried
  <1>2. \/ c \in fresh \/ c \in Carried(pending) \/ c \in ConnsOf(accumulator)
        \/ c \in RowConns(wal) \/ c \in settled
        \/ \E s \in Slot : c \in Carried(hand[s])
    BY HeldIs
  <1>3. TypeOK /\ hand \in [Slot -> Seq(Item)]
    BY DEF IInv, TypeOK
  <1>4. ASSUME NEW s \in Slot, DrainAccess(s), accumulator # {} PROVE Kept
    BY <1>2, <1>4, DrainAccessMoves DEF LossAllowed
  <1>5. SUFFICES ASSUME ~\E s \in Slot : DrainAccess(s) /\ accumulator # {} PROVE Kept
    BY <1>4
  <1>6. RowConns(wal) \cup settled \subseteq RowConns(wal') \cup settled'
    BY <1>3, <1>5, WireStep, LogKeeps
  <1>7. CASE UNCHANGED <<fresh, pending, hand, accumulator>>
    BY <1>2, <1>6, <1>7
  <1>8. CASE RebuildDrain
    <2>1. core = "closing" /\ fresh \subseteq recorder
      BY <1>3, <1>8 DEF RebuildDrain, TypeOK
    <2>2. c \in fresh => phase[c] = "closed" /\ c \in recorder
      BY <2>1 DEF LossAllowed
    <2> QED
      BY <1>2, <1>6, <1>8, <2>2, RebuildDrainMoves
  <1>9. CASE Restart
    BY <1>3, <1>9 DEF Restart, LossAllowed, TypeOK
  <1>10. ASSUME NEW d \in Conn, Start(d) PROVE Kept
    BY <1>2, <1>6, <1>10 DEF Start, workerVars, storeVars
  <1>11. ASSUME NEW s \in Slot, CollectBegin(s) PROVE Kept
    <2>1. /\ hand'[s] = pending /\ \A t \in Slot \ {s} : hand'[t] = hand[t]
          /\ hand[s] = <<>> /\ UNCHANGED <<fresh, accumulator>>
      BY <1>3, <1>11 DEF CollectBegin, storeVars, IInv, SessionInv
    <2>2. c \notin Carried(hand[s])
      BY <2>1, EmptyList
    <2> QED
      BY <1>2, <1>6, <2>1, <2>2
  <1>12. ASSUME NEW s \in Slot, CollectEnd(s) PROVE Kept
    BY <1>2, <1>6, <1>12, CollectEndMoves
  <1>13. ASSUME NEW s \in Slot, AddAccess(s) PROVE Kept
    BY <1>2, <1>6, <1>13, AddAccessMoves
  <1>14. ASSUME NEW s \in Slot, Requeue(s) PROVE Kept
    <2>1. c \in Carried(hand[s]) => c \in HandConns
      BY DEF HandConns, Carried
    <2> QED
      BY <1>2, <1>6, <1>14, <2>1, RequeueMoves DEF LossAllowed
  <1> HIDE DEF Kept
  <1> QED
    BY <1>5, <1>7, <1>8, <1>9, <1>10, <1>11, <1>12, <1>13, <1>14, WhoMoves

-----------------------------------------------------------------------------
(* The theorems.                                                           *)

\* The invariant holds initially: nothing is counted yet.
LEMMA InitIInv == Init => IInv
  <1> SUFFICES ASSUME Init PROVE IInv
    OBVIOUS
  <1> USE DEF Init
  <1>1. IsFiniteSet({}) /\ Cardinality({}) = 0 /\ Bytes({}) = 0
    BY FS_EmptySet DEF Bytes
  <1>2. \A s \in Slot : hand[s] = <<>> /\ Carried(hand[s]) = {} /\ OnceInList(hand[s])
    BY EmptyList
  <1>3. TypeOK
    BY <1>1, LimitsAssumption, EmptyList
    DEF TypeOK, Phase, Place, Nothing
  <1>4. FiniteInv
    BY <1>1 DEF FiniteInv, Nothing
  <1>5. LogInv /\ SessionInv
    BY <1>1 DEF LogInv, SessionInv
  <1>6. Wire = {} /\ Sent = {} /\ ConnsOf(accumulator) = {}
    <2>1. Wire = {}
      BY DEF Wire, ItemsOf
    <2> QED
      BY <2>1 DEF Sent, RowConns, ConnsOf
  <1>7. OnceInv
    BY <1>2, <1>6, EmptyList DEF OnceInv, Apart, InHand, OnceInItems, OnceInRows
  <1> QED
    BY <1>3, <1>4, <1>5, <1>7 DEF IInv

\* Every step keeps the invariant.
LEMMA StepIInv == IInv /\ [Next]_vars => IInv'
  BY TypeStep, FiniteStep, LogStep, SessionStep, OnceStep DEF IInv

\* The invariant holds in every behaviour: a count is at one place, rows are
\* bounded and numbered apart, and idle collectors hold nothing.
THEOREM InvariantHolds == Spec => []IInv
  BY InitIInv, StepIInv, PTL DEF Spec

\* Every variable keeps its type, the log stays within both limits after every
\* transaction (pruneAccessWALTx, access.go:235), and the accumulator has one
\* entry per key (AddAccess, access.go:45).
THEOREM TypeCorrect == Spec => []TypeOK
  <1>1. IInv => TypeOK
    BY DEF IInv
  <1> QED
    BY <1>1, InvariantHolds, PTL

\* A connection is counted at most once, however many sessions and collectors
\* coexist and whatever is refused, requeued, resent or pruned (snapshot,
\* dispatcher/access.go:236; RequeueAccess, xray.go:292).
THEOREM CountsAtOnePlace == Spec => []CountedOnce
  <1>1. IInv => CountedOnce
    BY OnePlace, NoPlace DEF IInv, CountedOnce
  <1> QED
    BY <1>1, InvariantHolds, PTL

\* A count is lost with the process, with a recorder that took it while its
\* core was being closed, or at a limit; never by a session that ends, a store
\* that fails, a rebuild or an acknowledgement (collectAndSendAccess,
\* client.go:642).
THEOREM LostAtLimitsOnly == Spec => LostOnlyAtLimits
  <1>1. IInv /\ [Next]_vars => [\A c \in Held \ Held' : LossAllowed(c)]_vars
    BY LostStep
  <1>2. IInv /\ [Next]_vars =>
          [\A c \in Held \ Held' : \/ boot' # boot
                                   \/ core = "closing" /\ c \in fresh /\ phase[c] # "closed"
                                   \/ c \in HandConns /\ Len(pending') = MaxItems
                                   \/ WALFull(wal')]_vars
    BY <1>1 DEF LossAllowed
  <1> QED
    BY <1>2, InvariantHolds, PTL DEF Spec, LostOnlyAtLimits
=============================================================================
