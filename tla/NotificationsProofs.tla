------------------------ MODULE NotificationsProofs -------------------------
(***************************************************************************)
(* Proofs about Notifications: the documents, the thunks and the slice     *)
(* have their types, the badge covers the items, and who does one thing    *)
(* after the other sees what the server has, for any number of thunks,     *)
(* documents and socket events.                                            *)
(***************************************************************************)
EXTENDS Notifications, SequenceTheorems, FiniteSetTheorems,
        WellFoundedInduction, TLAPS

-----------------------------------------------------------------------------
(* Induction, on sets in the place of predicates.                          *)

LEMMA SetInduction ==
  ASSUME NEW S, 0 \in S, \A n \in Nat : n \in S => n + 1 \in S
  PROVE  Nat \subseteq S
<1> SUFFICES ASSUME Nat \ S # {} PROVE FALSE
  OBVIOUS
<1> DEFINE R == OpToRel(<, Nat)
<1>1. IsWellFoundedOn(R, Nat)
  BY NatLessThanWellFounded
<1>2. \A x, y \in Nat : y < x => <<y, x>> \in R
  BY DEF OpToRel
<1> HIDE DEF R
<1>3. PICK x \in Nat \ S : \A y \in Nat \ S : ~(<<y, x>> \in R)
  BY <1>1, WFMin
<1>4. /\ x \in Nat /\ x \notin S /\ x # 0
      /\ x - 1 \in Nat /\ x - 1 < x /\ (x - 1) + 1 = x
  OBVIOUS
<1>5. <<x - 1, x>> \in R
  BY <1>2, <1>4
<1>6. x - 1 \in S
  BY <1>3, <1>4, <1>5
<1> QED
  BY <1>4, <1>6

\* Every list is empty, or a shorter one with an item at its end.
LEMMA ListInduction ==
  ASSUME NEW T, NEW S, <<>> \in S,
         \A s \in Seq(T), x \in T : s \in S => Append(s, x) \in S
  PROVE  Seq(T) \subseteq S
<1> DEFINE N == {n \in Nat : \A s \in Seq(T) : Len(s) = n => s \in S}
<1>1. 0 \in N
  BY EmptySeq
<1>2. ASSUME NEW n \in Nat, n \in N PROVE n + 1 \in N
  <2> SUFFICES ASSUME NEW s \in Seq(T), Len(s) = n + 1 PROVE s \in S
    OBVIOUS
  <2> DEFINE front == SubSeq(s, 1, n)
  <2>1. front \in Seq(T) /\ Len(front) = n
    OBVIOUS
  <2>2. s[n + 1] \in T /\ s = Append(front, s[n + 1])
    OBVIOUS
  <2>3. front \in S
    BY <1>2, <2>1
  <2> HIDE DEF front
  <2> QED  BY <2>1, <2>2, <2>3
<1> HIDE DEF N
<1>3. Nat \subseteq N  BY <1>1, <1>2, SetInduction
<1> QED  BY <1>3, LenProperties DEF N

-----------------------------------------------------------------------------
(* What Keep keeps.                                                        *)

Recursion(f, list, ids, k) ==
  f = [n \in 0 .. k |->
         IF n = 0 THEN <<>>
         ELSE IF list[n].id \in ids THEN Append(f[n - 1], list[n])
         ELSE f[n - 1]]

LEMMA RecursionExists ==
  ASSUME NEW list, NEW ids
  PROVE  \A k \in Nat : \E f : Recursion(f, list, ids, k)
<1> DEFINE S == {k \in Nat : \E f : Recursion(f, list, ids, k)}
<1>1. 0 \in S
  <2> DEFINE f == [n \in 0 .. 0 |-> <<>>]
  <2>1. Recursion(f, list, ids, 0)
    BY DEF Recursion
  <2> QED BY <2>1
<1>2. ASSUME NEW k \in Nat, k \in S PROVE k + 1 \in S
  <2>1. PICK f : Recursion(f, list, ids, k)
    BY <1>2
  <2> DEFINE g == [n \in 0 .. k + 1 |->
                     IF n = k + 1
                     THEN IF list[n].id \in ids THEN Append(f[n - 1], list[n])
                                                ELSE f[n - 1]
                     ELSE f[n]]
  <2>2. \A n \in 0 .. k :
          f[n] = IF n = 0 THEN <<>>
                 ELSE IF list[n].id \in ids THEN Append(f[n - 1], list[n])
                 ELSE f[n - 1]
    BY <2>1 DEF Recursion
  <2>3. \A n \in 0 .. k + 1 :
          g[n] = IF n = 0 THEN <<>>
                 ELSE IF list[n].id \in ids THEN Append(g[n - 1], list[n])
                 ELSE g[n - 1]
    BY <2>2
  <2>4. Recursion(g, list, ids, k + 1)
    BY <2>3 DEF Recursion
  <2> QED BY <2>4
<1> HIDE DEF S
<1>3. Nat \subseteq S BY <1>1, <1>2, SetInduction
<1> QED BY <1>3 DEF S

LEMMA KeptUnfolds ==
  ASSUME NEW T, NEW list \in Seq(T), NEW ids
  PROVE  /\ Kept(list, ids)[0] = <<>>
         /\ \A n \in 1 .. Len(list) :
              Kept(list, ids)[n] =
                IF list[n].id \in ids
                THEN Append(Kept(list, ids)[n - 1], list[n])
                ELSE Kept(list, ids)[n - 1]
<1>1. Len(list) \in Nat  OBVIOUS
<1>2. \E f : Recursion(f, list, ids, Len(list))
  BY <1>1, RecursionExists
<1>3. Recursion(Kept(list, ids), list, ids, Len(list))
  BY <1>2 DEF Recursion, Kept
<1> DEFINE f == Kept(list, ids)
<1> HIDE DEF f
<1>4. Recursion(f, list, ids, Len(list))  BY <1>3 DEF f
<1>5. \A n \in 0 .. Len(list) :
        f[n] = IF n = 0 THEN <<>>
               ELSE IF list[n].id \in ids THEN Append(f[n - 1], list[n])
               ELSE f[n - 1]
  BY <1>4 DEF Recursion
<1>6. f[0] = <<>>  BY <1>1, <1>5
<1>7. \A n \in 1 .. Len(list) :
        f[n] = IF list[n].id \in ids THEN Append(f[n - 1], list[n])
                                     ELSE f[n - 1]
  BY <1>1, <1>5
<1> QED  BY <1>6, <1>7 DEF f

\* Items that are not kept do not matter.
LEMMA SameKept ==
  ASSUME NEW T, NEW s \in Seq(T), NEW t \in Seq(T), NEW ids,
         NEW k \in Nat, k <= Len(s), k <= Len(t),
         \A m \in 1 .. k : s[m].id \in ids <=> t[m].id \in ids,
         \A m \in 1 .. k : s[m].id \in ids => s[m] = t[m]
  PROVE  Kept(s, ids)[k] = Kept(t, ids)[k]
<1> DEFINE f == Kept(s, ids)
           g == Kept(t, ids)
<1>1. /\ f[0] = <<>>
      /\ \A n \in 1 .. Len(s) :
           f[n] = IF s[n].id \in ids THEN Append(f[n - 1], s[n]) ELSE f[n - 1]
  BY KeptUnfolds
<1>2. /\ g[0] = <<>>
      /\ \A n \in 1 .. Len(t) :
           g[n] = IF t[n].id \in ids THEN Append(g[n - 1], t[n]) ELSE g[n - 1]
  BY KeptUnfolds
<1> HIDE DEF f, g
<1> DEFINE N == {n \in Nat : n <= k => f[n] = g[n]}
<1>3. 0 \in N  BY <1>1, <1>2
<1>4. ASSUME NEW n \in Nat, n \in N PROVE n + 1 \in N
  <2> SUFFICES ASSUME n + 1 <= k PROVE f[n + 1] = g[n + 1]
    OBVIOUS
  <2>1. /\ n + 1 \in 1 .. Len(s) /\ n + 1 \in 1 .. Len(t) /\ n + 1 \in 1 .. k
        /\ (n + 1) - 1 = n
    OBVIOUS
  <2>2. f[n] = g[n]  BY <1>4, <2>1 DEF N
  <2>3. f[n + 1] = IF s[n + 1].id \in ids THEN Append(f[n], s[n + 1]) ELSE f[n]
    BY <1>1, <2>1
  <2>4. g[n + 1] = IF t[n + 1].id \in ids THEN Append(g[n], t[n + 1]) ELSE g[n]
    BY <1>2, <2>1
  <2>5. CASE s[n + 1].id \in ids
    BY <2>1, <2>2, <2>3, <2>4, <2>5
  <2>6. CASE s[n + 1].id \notin ids
    BY <2>1, <2>2, <2>3, <2>4, <2>6
  <2> QED  BY <2>5, <2>6
<1> HIDE DEF N
<1>5. Nat \subseteq N  BY <1>3, <1>4, SetInduction
<1> QED  BY <1>5 DEF N, f, g

LEMMA SameKeep ==
  ASSUME NEW T, NEW s \in Seq(T), NEW t \in Seq(T), NEW ids, Len(s) = Len(t),
         \A m \in 1 .. Len(s) : s[m].id \in ids <=> t[m].id \in ids,
         \A m \in 1 .. Len(s) : s[m].id \in ids => s[m] = t[m]
  PROVE  Keep(s, ids) = Keep(t, ids)
<1>1. Len(s) \in Nat  OBVIOUS
<1> QED  BY <1>1, SameKept DEF Keep

LEMMA KeepEmpty ==
  ASSUME NEW ids PROVE Keep(<<>>, ids) = <<>>
<1>0. <<>> \in Seq(Nat) /\ Len(<<>>) = 0  OBVIOUS
<1>1. PICK z \in Seq(Nat) : z = <<>> /\ Len(z) = 0  BY <1>0
<1>2. Kept(z, ids)[0] = <<>>  BY KeptUnfolds
<1> QED  BY <1>1, <1>2 DEF Keep

LEMMA KeepAppend ==
  ASSUME NEW T, NEW s \in Seq(T), NEW x \in T, NEW ids
  PROVE  Keep(Append(s, x), ids) =
           IF x.id \in ids THEN Append(Keep(s, ids), x) ELSE Keep(s, ids)
<1> DEFINE k == Len(s)
           t == Append(s, x)
<1>1. /\ k \in Nat /\ t \in Seq(T) /\ Len(t) = k + 1 /\ t[k + 1] = x
      /\ k + 1 \in 1 .. Len(t) /\ (k + 1) - 1 = k /\ k <= Len(t) /\ k <= Len(s)
      /\ \A m \in 1 .. k : s[m] = t[m]
  OBVIOUS
<1> HIDE DEF k, t
<1>2. Kept(t, ids)[k] = Kept(s, ids)[k]
  BY <1>1, SameKept
<1>3. Kept(t, ids)[k + 1] = IF t[k + 1].id \in ids
                            THEN Append(Kept(t, ids)[(k + 1) - 1], t[k + 1])
                            ELSE Kept(t, ids)[(k + 1) - 1]
  BY <1>1, KeptUnfolds
<1>4. Keep(t, ids) = Kept(t, ids)[k + 1] /\ Keep(s, ids) = Kept(s, ids)[k]
  BY <1>1 DEF Keep, k
<1>5. CASE x.id \in ids
  BY <1>1, <1>2, <1>3, <1>4, <1>5 DEF t
<1>6. CASE x.id \notin ids
  BY <1>1, <1>2, <1>3, <1>4, <1>6 DEF t
<1> QED  BY <1>5, <1>6

LEMMA KeepType ==
  ASSUME NEW T, NEW s \in Seq(T), NEW ids
  PROVE  Keep(s, ids) \in Seq(T) /\ Len(Keep(s, ids)) <= Len(s)
<1> DEFINE S == {z \in Seq(T) : Keep(z, ids) \in Seq(T)
                                /\ Len(Keep(z, ids)) <= Len(z)}
<1>1. <<>> \in S
  <2>1. Keep(<<>>, ids) = <<>>  BY KeepEmpty
  <2>2. <<>> \in Seq(T) /\ Len(<<>>) <= Len(<<>>)  OBVIOUS
  <2> QED  BY <2>1, <2>2
<1>2. ASSUME NEW z \in Seq(T), NEW x \in T, z \in S PROVE Append(z, x) \in S
  <2>1. Keep(Append(z, x), ids) = IF x.id \in ids THEN Append(Keep(z, ids), x)
                                                  ELSE Keep(z, ids)
    BY KeepAppend
  <2>2. /\ Append(z, x) \in Seq(T) /\ Len(Append(z, x)) = Len(z) + 1
        /\ Len(z) \in Nat
    OBVIOUS
  <2> DEFINE k == Keep(z, ids)
  <2>3. k \in Seq(T) /\ Len(k) <= Len(z)  BY <1>2
  <2> HIDE DEF k
  <2>4. /\ Append(k, x) \in Seq(T) /\ Len(Append(k, x)) = Len(k) + 1
        /\ Len(k) \in Nat
    BY <2>3
  <2>5. Keep(Append(z, x), ids) \in Seq(T)
        /\ Len(Keep(Append(z, x), ids)) <= Len(z) + 1
    BY <2>1, <2>2, <2>3, <2>4 DEF k
  <2> QED  BY <2>2, <2>5
<1> HIDE DEF S
<1>3. Seq(T) \subseteq S  BY <1>1, <1>2, ListInduction
<1> QED  BY <1>3 DEF S

\* An item is kept if and only if it is there and its id is among the ids.
LEMMA KeepHolds ==
  ASSUME NEW T, NEW s \in Seq(T), NEW ids, NEW y
  PROVE  (\E n \in DOMAIN Keep(s, ids) : Keep(s, ids)[n] = y)
           <=> y.id \in ids /\ \E m \in DOMAIN s : s[m] = y
<1> DEFINE In(z) == \E m \in DOMAIN z : z[m] = y
           S == {z \in Seq(T) : In(Keep(z, ids)) <=> y.id \in ids /\ In(z)}
<1>1. <<>> \in S
  <2>1. Keep(<<>>, ids) = <<>>  BY KeepEmpty
  <2>2. <<>> \in Seq(T) /\ DOMAIN <<>> = {}  OBVIOUS
  <2> QED  BY <2>1, <2>2
<1>2. ASSUME NEW z \in Seq(T), NEW x \in T PROVE In(Append(z, x)) <=> In(z) \/ x = y
  <2>1. /\ DOMAIN Append(z, x) = DOMAIN z \cup {Len(z) + 1}
        /\ \A m \in DOMAIN z : Append(z, x)[m] = z[m]
        /\ Append(z, x)[Len(z) + 1] = x
    OBVIOUS
  <2> QED  BY <2>1
<1>3. ASSUME NEW z \in Seq(T), NEW x \in T, z \in S PROVE Append(z, x) \in S
  <2>1. Keep(Append(z, x), ids) = IF x.id \in ids THEN Append(Keep(z, ids), x)
                                                  ELSE Keep(z, ids)
    BY KeepAppend
  <2>2. Append(z, x) \in Seq(T)  OBVIOUS
  <2>3. Keep(z, ids) \in Seq(T)  BY KeepType
  <2>4. In(Append(z, x)) <=> In(z) \/ x = y  BY <1>2
  <2>5. In(Append(Keep(z, ids), x)) <=> In(Keep(z, ids)) \/ x = y  BY <1>2, <2>3
  <2>6. In(Keep(z, ids)) <=> y.id \in ids /\ In(z)  BY <1>3
  <2> HIDE DEF In
  <2> QED  BY <2>1, <2>2, <2>4, <2>5, <2>6
<1> HIDE DEF S
<1>4. Seq(T) \subseteq S  BY <1>1, <1>3, ListInduction
<1> QED  BY <1>4 DEF S

\* The unread items with an id among the ids.
UnreadOf(s, ids) == {n \in DOMAIN s : ~s[n].read /\ s[n].id \in ids}

LEMMA UnreadFinite ==
  ASSUME NEW T, NEW s \in Seq(T), NEW ids
  PROVE  /\ IsFiniteSet(UnreadOf(s, ids))
         /\ Cardinality(UnreadOf(s, ids)) \in Nat
<1>1. IsFiniteSet(1 .. Len(s))  BY FS_Interval
<1>2. UnreadOf(s, ids) \subseteq 1 .. Len(s)  BY DEF UnreadOf
<1> QED  BY <1>1, <1>2, FS_Subset, FS_CardinalityType

LEMMA UnreadAppend ==
  ASSUME NEW T, NEW s \in Seq(T), NEW x \in T, NEW ids
  PROVE  Cardinality(UnreadOf(Append(s, x), ids)) =
           IF ~x.read /\ x.id \in ids THEN Cardinality(UnreadOf(s, ids)) + 1
                                      ELSE Cardinality(UnreadOf(s, ids))
<1>1. /\ DOMAIN Append(s, x) = DOMAIN s \cup {Len(s) + 1}
      /\ \A m \in DOMAIN s : Append(s, x)[m] = s[m]
      /\ Append(s, x)[Len(s) + 1] = x
      /\ Len(s) + 1 \notin DOMAIN s
  OBVIOUS
<1>2. UnreadOf(Append(s, x), ids) =
        IF ~x.read /\ x.id \in ids THEN UnreadOf(s, ids) \cup {Len(s) + 1}
                                   ELSE UnreadOf(s, ids)
  BY <1>1 DEF UnreadOf
<1>3. Len(s) + 1 \notin UnreadOf(s, ids)  BY <1>1 DEF UnreadOf
<1>4. IsFiniteSet(UnreadOf(s, ids))  BY UnreadFinite
<1> QED  BY <1>2, <1>3, <1>4, FS_AddElement

LEMMA UnreadItemsOf ==
  ASSUME NEW T, NEW s \in Seq(T), NEW ids, \A n \in DOMAIN s : s[n].id \in ids
  PROVE  UnreadItems(s) = Cardinality(UnreadOf(s, ids))
<1>1. UnreadOf(s, ids) = {n \in DOMAIN s : ~s[n].read}  BY DEF UnreadOf
<1> QED  BY <1>1 DEF UnreadItems

\* The unread ones among the kept ones.
LEMMA KeepUnread ==
  ASSUME NEW T, NEW s \in Seq(T), NEW ids
  PROVE  UnreadItems(Keep(s, ids)) = Cardinality(UnreadOf(s, ids))
<1> DEFINE S == {z \in Seq(T) : Cardinality(UnreadOf(Keep(z, ids), ids))
                                  = Cardinality(UnreadOf(z, ids))}
<1>1. <<>> \in S
  <2>1. Keep(<<>>, ids) = <<>>  BY KeepEmpty
  <2> QED  BY <2>1
<1>2. ASSUME NEW z \in Seq(T), NEW x \in T, z \in S PROVE Append(z, x) \in S
  <2>1. Keep(Append(z, x), ids) = IF x.id \in ids THEN Append(Keep(z, ids), x)
                                                  ELSE Keep(z, ids)
    BY KeepAppend
  <2>2. Append(z, x) \in Seq(T)  OBVIOUS
  <2>3. Keep(z, ids) \in Seq(T)  BY KeepType
  <2>4. Cardinality(UnreadOf(Append(z, x), ids)) =
          IF ~x.read /\ x.id \in ids THEN Cardinality(UnreadOf(z, ids)) + 1
                                     ELSE Cardinality(UnreadOf(z, ids))
    BY UnreadAppend
  <2>5. Cardinality(UnreadOf(Append(Keep(z, ids), x), ids)) =
          IF ~x.read /\ x.id \in ids
          THEN Cardinality(UnreadOf(Keep(z, ids), ids)) + 1
          ELSE Cardinality(UnreadOf(Keep(z, ids), ids))
    BY <2>3, UnreadAppend
  <2>6. Cardinality(UnreadOf(Keep(z, ids), ids)) = Cardinality(UnreadOf(z, ids))
    BY <1>2
  <2>7. Cardinality(UnreadOf(Keep(Append(z, x), ids), ids))
          = Cardinality(UnreadOf(Append(z, x), ids))
    <3>1. CASE x.id \in ids  BY <2>1, <2>4, <2>5, <2>6, <3>1
    <3>2. CASE x.id \notin ids  BY <2>1, <2>4, <2>6, <3>2
    <3> QED  BY <3>1, <3>2
  <2> QED  BY <2>2, <2>7
<1> HIDE DEF S
<1>3. Seq(T) \subseteq S  BY <1>1, <1>2, ListInduction
<1>4. Cardinality(UnreadOf(Keep(s, ids), ids)) = Cardinality(UnreadOf(s, ids))
  BY <1>3 DEF S
<1>5. Keep(s, ids) \in Seq(T)  BY KeepType
<1>6. \A n \in DOMAIN Keep(s, ids) : Keep(s, ids)[n].id \in ids
  BY KeepHolds
<1> QED  BY <1>4, <1>5, <1>6, UnreadItemsOf

LEMMA KeepKeep ==
  ASSUME NEW T, NEW s \in Seq(T), NEW ids, NEW more
  PROVE  Keep(Keep(s, ids), more) = Keep(s, ids \cap more)
<1> DEFINE S == {z \in Seq(T) : Keep(Keep(z, ids), more) = Keep(z, ids \cap more)}
<1>1. <<>> \in S  BY KeepEmpty
<1>2. ASSUME NEW z \in Seq(T), NEW x \in T, z \in S PROVE Append(z, x) \in S
  <2> DEFINE k == Keep(z, ids)
  <2>1. Keep(Append(z, x), ids) = IF x.id \in ids THEN Append(k, x) ELSE k
    BY KeepAppend
  <2>2. k \in Seq(T)  BY KeepType
  <2>3. Keep(Append(z, x), ids \cap more) =
          IF x.id \in ids \cap more THEN Append(Keep(z, ids \cap more), x)
                                    ELSE Keep(z, ids \cap more)
    BY KeepAppend
  <2>4. Keep(k, more) = Keep(z, ids \cap more)  BY <1>2
  <2> HIDE DEF k
  <2>5. Keep(Append(k, x), more) = IF x.id \in more THEN Append(Keep(k, more), x)
                                                    ELSE Keep(k, more)
    BY <2>2, KeepAppend
  <2>6. Keep(Keep(Append(z, x), ids), more) = Keep(Append(z, x), ids \cap more)
    <3>1. CASE x.id \in ids /\ x.id \in more
      BY <2>1, <2>3, <2>4, <2>5, <3>1
    <3>2. CASE x.id \in ids /\ x.id \notin more
      BY <2>1, <2>3, <2>4, <2>5, <3>2
    <3>3. CASE x.id \notin ids
      BY <2>1, <2>3, <2>4, <3>3
    <3> QED  BY <3>1, <3>2, <3>3
  <2> QED  BY <2>6
<1> HIDE DEF S
<1>3. Seq(T) \subseteq S  BY <1>1, <1>2, ListInduction
<1> QED  BY <1>3 DEF S

-----------------------------------------------------------------------------
(* What the reducers make of a list.                                       *)

MarkedRead(list, id) ==
  [n \in DOMAIN list |-> [list[n] EXCEPT !.read = @ \/ list[n].id = id]]

AllRead(list) == [n \in DOMAIN list |-> [list[n] EXCEPT !.read = TRUE]]

Mapped(f, list) == [n \in DOMAIN list |-> f[list[n]]]

LEMMA SameItem ==
  ASSUME NEW x \in Item, NEW y \in Item, x.id = y.id, x.read <=> y.read
  PROVE  x = y
BY DEF Item

LEMMA MappedType ==
  ASSUME NEW f \in [Item -> Item], NEW s \in Seq(Item)
  PROVE  /\ Mapped(f, s) \in Seq(Item) /\ Len(Mapped(f, s)) = Len(s)
         /\ DOMAIN Mapped(f, s) = DOMAIN s
         /\ \A n \in DOMAIN s : Mapped(f, s)[n] = f[s[n]]
<1>1. \A n \in 1 .. Len(s) : f[s[n]] \in Item  OBVIOUS
<1>2. Mapped(f, s) = [n \in 1 .. Len(s) |-> f[s[n]]]  BY DEF Mapped
<1> QED  BY <1>1, <1>2

\* A change of the items that leaves the ids alone may come before the filter
\* or after it.
LEMMA KeepMapped ==
  ASSUME NEW f \in [Item -> Item], \A x \in Item : f[x].id = x.id,
         NEW s \in Seq(Item), NEW ids
  PROVE  Keep(Mapped(f, s), ids) = Mapped(f, Keep(s, ids))
<1> DEFINE S == {z \in Seq(Item) : Keep(Mapped(f, z), ids) = Mapped(f, Keep(z, ids))}
<1>1. <<>> \in S
  <2>1. Mapped(f, <<>>) = <<>>  BY DEF Mapped
  <2>2. Keep(<<>>, ids) = <<>>  BY KeepEmpty
  <2>3. <<>> \in Seq(Item)  OBVIOUS
  <2> QED  BY <2>1, <2>2, <2>3
<1>2. ASSUME NEW z \in Seq(Item), NEW x \in Item
      PROVE  Mapped(f, Append(z, x)) = Append(Mapped(f, z), f[x])
  <2> DEFINE a == Mapped(f, Append(z, x))
             b == Append(Mapped(f, z), f[x])
  <2>1. /\ Append(z, x) \in Seq(Item) /\ Len(Append(z, x)) = Len(z) + 1
        /\ \A m \in 1 .. Len(z) : Append(z, x)[m] = z[m]
        /\ Append(z, x)[Len(z) + 1] = x /\ Len(z) \in Nat
    OBVIOUS
  <2>2. /\ a \in Seq(Item) /\ Len(a) = Len(z) + 1
        /\ \A m \in 1 .. Len(z) : a[m] = f[z[m]]
        /\ a[Len(z) + 1] = f[x]
    <3> DEFINE w == Append(z, x)
    <3>1. /\ w \in Seq(Item) /\ DOMAIN w = 1 .. Len(z) + 1
          /\ \A m \in 1 .. Len(z) : w[m] = z[m]
          /\ w[Len(z) + 1] = x /\ Len(w) = Len(z) + 1
      BY <2>1
    <3> HIDE DEF w
    <3>2. /\ Mapped(f, w) \in Seq(Item) /\ Len(Mapped(f, w)) = Len(z) + 1
          /\ \A m \in 1 .. Len(z) + 1 : Mapped(f, w)[m] = f[w[m]]
      BY <3>1, MappedType
    <3>3. Len(z) + 1 \in 1 .. Len(z) + 1 /\ 1 .. Len(z) \subseteq 1 .. Len(z) + 1
      BY <2>1
    <3>4. a = Mapped(f, w)  BY DEF w
    <3> QED  BY <3>1, <3>2, <3>3, <3>4
  <2>3. /\ Mapped(f, z) \in Seq(Item) /\ Len(Mapped(f, z)) = Len(z)
        /\ \A m \in 1 .. Len(z) : Mapped(f, z)[m] = f[z[m]]
    BY MappedType
  <2>4. /\ b \in Seq(Item) /\ Len(b) = Len(z) + 1
        /\ \A m \in 1 .. Len(z) : b[m] = f[z[m]]
        /\ b[Len(z) + 1] = f[x]
    BY <2>3
  <2> HIDE DEF a, b
  <2>5. \A m \in 1 .. Len(z) + 1 : a[m] = b[m]
    <3>1. \A m \in 1 .. Len(z) + 1 : m \in 1 .. Len(z) \/ m = Len(z) + 1
      BY <2>1
    <3> QED  BY <2>2, <2>4, <3>1
  <2>6. a = b
    BY <2>2, <2>4, <2>5, SeqEqual
  <2> QED  BY <2>6 DEF a, b
<1>3. ASSUME NEW z \in Seq(Item), NEW x \in Item, z \in S
      PROVE  Append(z, x) \in S
  <2>1. Keep(Append(z, x), ids) = IF x.id \in ids THEN Append(Keep(z, ids), x)
                                                  ELSE Keep(z, ids)
    BY KeepAppend
  <2>2. Append(z, x) \in Seq(Item) /\ f[x] \in Item /\ f[x].id = x.id  OBVIOUS
  <2>3. Keep(z, ids) \in Seq(Item) /\ Mapped(f, z) \in Seq(Item)
    BY KeepType, MappedType
  <2>4. Mapped(f, Append(z, x)) = Append(Mapped(f, z), f[x])  BY <1>2
  <2>5. Keep(Append(Mapped(f, z), f[x]), ids) =
          IF f[x].id \in ids THEN Append(Keep(Mapped(f, z), ids), f[x])
                             ELSE Keep(Mapped(f, z), ids)
    BY <2>2, <2>3, KeepAppend
  <2>6. Mapped(f, Append(Keep(z, ids), x)) = Append(Mapped(f, Keep(z, ids)), f[x])
    BY <1>2, <2>3
  <2>7. Keep(Mapped(f, z), ids) = Mapped(f, Keep(z, ids))  BY <1>3
  <2>8. Keep(Mapped(f, Append(z, x)), ids) = Mapped(f, Keep(Append(z, x), ids))
    <3>1. CASE x.id \in ids  BY <2>1, <2>2, <2>4, <2>5, <2>6, <2>7, <3>1
    <3>2. CASE x.id \notin ids  BY <2>1, <2>2, <2>4, <2>5, <2>7, <3>2
    <3> QED  BY <3>1, <3>2
  <2> QED  BY <2>2, <2>8
<1> HIDE DEF S
<1>4. Seq(Item) \subseteq S  BY <1>1, <1>3, ListInduction
<1> QED  BY <1>4 DEF S

\* Marking one item or all of them is such a change.
LEMMA MarkedMapped ==
  ASSUME NEW id
  PROVE  \E f \in [Item -> Item] :
           /\ \A x \in Item : f[x].id = x.id /\ (f[x].read <=> x.read \/ x.id = id)
           /\ \A s \in Seq(Item) : MarkedRead(s, id) = Mapped(f, s)
<1> DEFINE f == [x \in Item |-> [x EXCEPT !.read = @ \/ x.id = id]]
<1>1. ASSUME NEW x \in Item
      PROVE  /\ f[x] \in Item /\ f[x].id = x.id
             /\ (f[x].read <=> x.read \/ x.id = id)
  BY DEF Item
<1>2. f \in [Item -> Item]  BY <1>1
<1>3. ASSUME NEW s \in Seq(Item) PROVE MarkedRead(s, id) = Mapped(f, s)
  <2>1. \A n \in DOMAIN s : s[n] \in Item  OBVIOUS
  <2> QED  BY <2>1 DEF MarkedRead, Mapped
<1> HIDE DEF f
<1> QED  BY <1>1, <1>2, <1>3

LEMMA AllMapped ==
  \E f \in [Item -> Item] :
     /\ \A x \in Item : f[x].id = x.id /\ f[x].read
     /\ \A s \in Seq(Item) : AllRead(s) = Mapped(f, s)
<1> DEFINE f == [x \in Item |-> [x EXCEPT !.read = TRUE]]
<1>1. ASSUME NEW x \in Item
      PROVE  f[x] \in Item /\ f[x].id = x.id /\ f[x].read
  BY DEF Item
<1>2. f \in [Item -> Item]  BY <1>1
<1>3. ASSUME NEW s \in Seq(Item) PROVE AllRead(s) = Mapped(f, s)
  <2>1. \A n \in DOMAIN s : s[n] \in Item  OBVIOUS
  <2> QED  BY <2>1 DEF AllRead, Mapped
<1> HIDE DEF f
<1> QED  BY <1>1, <1>2, <1>3

LEMMA UnreadItemsType ==
  ASSUME NEW T, NEW s \in Seq(T)
  PROVE  /\ IsFiniteSet({n \in DOMAIN s : ~s[n].read})
         /\ UnreadItems(s) \in Nat
<1>1. IsFiniteSet(1 .. Len(s))  BY FS_Interval
<1>2. {n \in DOMAIN s : ~s[n].read} \subseteq 1 .. Len(s)  OBVIOUS
<1> QED  BY <1>1, <1>2, FS_Subset, FS_CardinalityType DEF UnreadItems

\* A list that is marked or deleted from has no more unread items than before,
\* and less if one that was unread is marked or deleted.
LEMMA FewerUnread ==
  ASSUME NEW s \in Seq(Item), NEW id,
         NEW t, t = MarkedRead(s, id) \/ t = Keep(s, Ids \ {id})
  PROVE  /\ UnreadItems(t) <= UnreadItems(s)
         /\ (\E n \in DOMAIN s : s[n].id = id /\ ~s[n].read)
               => UnreadItems(t) < UnreadItems(s)
<1> DEFINE before == {n \in DOMAIN s : ~s[n].read}
           after == {n \in DOMAIN s : ~s[n].read /\ s[n].id # id}
<1>1. IsFiniteSet(before) /\ UnreadItems(s) = Cardinality(before)
  BY UnreadItemsType DEF UnreadItems
<1>2. UnreadItems(t) = Cardinality(after)
  <2>1. CASE t = MarkedRead(s, id)
    <3>1. PICK f \in [Item -> Item] :
            /\ \A x \in Item : f[x].read <=> x.read \/ x.id = id
            /\ MarkedRead(s, id) = Mapped(f, s)
      BY MarkedMapped
    <3>2. DOMAIN t = DOMAIN s /\ \A n \in DOMAIN s : t[n] = f[s[n]]
      BY <2>1, <3>1, MappedType
    <3>3. \A n \in DOMAIN s : s[n] \in Item  OBVIOUS
    <3>4. {n \in DOMAIN t : ~t[n].read} = after
      BY <3>1, <3>2, <3>3
    <3> QED  BY <3>4 DEF UnreadItems
  <2>2. CASE t = Keep(s, Ids \ {id})
    <3>0. \A n \in DOMAIN s : s[n] \in Item  OBVIOUS
    <3>1. \A n \in DOMAIN s : s[n].id \in Ids  BY <3>0 DEF Item
    <3>2. UnreadOf(s, Ids \ {id}) = after  BY <3>1 DEF UnreadOf
    <3> QED  BY <2>2, <3>2, KeepUnread
  <2> QED  BY <2>1, <2>2
<1>3. after \subseteq before  OBVIOUS
<1>4. (\E n \in DOMAIN s : s[n].id = id /\ ~s[n].read) => after # before
  OBVIOUS
<1> HIDE DEF after, before
<1>5. IsFiniteSet(after) /\ Cardinality(after) <= Cardinality(before)
      /\ Cardinality(after) \in Nat /\ Cardinality(before) \in Nat
  BY <1>1, <1>3, FS_Subset, FS_CardinalityType
<1>6. after # before => Cardinality(after) < Cardinality(before)
  BY <1>1, <1>3, <1>5, FS_Subset
<1> QED  BY <1>1, <1>2, <1>4, <1>5, <1>6

-----------------------------------------------------------------------------
(* What the updates of the documents make of the list of them.             *)

States == {"unread", "read", "deleted"}

ExistingOf(ns) == {n \in DOMAIN ns : ns[n] # "deleted"}

NewestFirst(ns) ==
  [n \in DOMAIN ns |-> [id |-> Len(ns) + 1 - n,
                        read |-> ns[Len(ns) + 1 - n] = "read"]]

\* The list of the documents with these ids.
DocsOf(ns, ids) == Keep(NewestFirst(ns), ids)

NewestOf(ns, ids) == \A n \in ids, m \in ExistingOf(ns) : m > n => m \in ids

\* The list is one of the newest documents, as they are.
Shown(ns, list) ==
  \E ids \in SUBSET ExistingOf(ns) : NewestOf(ns, ids) /\ list = DocsOf(ns, ids)

UnreadIn(ns) == {n \in DOMAIN ns : ns[n] = "unread"}

LEMMA UnreadCountIs ==
  /\ UnreadCount = Cardinality(UnreadIn(notes))
  /\ UnreadCount' = Cardinality(UnreadIn(notes'))
BY DEF UnreadCount, UnreadIn

LEMMA InStepIs ==
  /\ InStep <=> (inStep /\ Busy = {} =>
                   Shown(notes, items) /\ badge = UnreadCount)
  /\ InStep' <=> (inStep' /\ Busy' = {} =>
                    Shown(notes', items') /\ badge' = UnreadCount')
<1> DEFINE newest == \E ids \in SUBSET Existing : Newest(ids) /\ items = Documents(ids)
<1>1. newest <=> Shown(notes, items)
  BY DEF Shown, NewestOf, DocsOf, NewestFirst, ExistingOf, Existing, Newest,
         Documents
<1>2. newest' <=> Shown(notes', items')
  BY DEF Shown, NewestOf, DocsOf, NewestFirst, ExistingOf, Existing, Newest,
         Documents
<1> QED  BY <1>1, <1>2 DEF InStep

LEMMA NewestFirstType ==
  ASSUME NEW ns \in Seq(States), Len(ns) <= MaxNotes
  PROVE  /\ NewestFirst(ns) \in Seq(Item)
         /\ Len(NewestFirst(ns)) = Len(ns)
         /\ \A n \in 1 .. Len(ns) :
              /\ Len(ns) + 1 - n \in 1 .. Len(ns)
              /\ NewestFirst(ns)[n] \in Item
              /\ NewestFirst(ns)[n].id = Len(ns) + 1 - n
              /\ NewestFirst(ns)[n].read <=> ns[Len(ns) + 1 - n] = "read"
<1>1. ASSUME NEW n \in 1 .. Len(ns)
      PROVE  /\ Len(ns) + 1 - n \in 1 .. Len(ns)
             /\ Len(ns) + 1 - n \in 1 .. MaxNotes
  BY <1>1, MaxNotesAssumption
<1> DEFINE it(n) == [id |-> Len(ns) + 1 - n,
                     read |-> ns[Len(ns) + 1 - n] = "read"]
<1>2. ASSUME NEW n \in 1 .. Len(ns)
      PROVE  /\ it(n) \in Item
             /\ it(n).id = Len(ns) + 1 - n
             /\ it(n).read <=> ns[Len(ns) + 1 - n] = "read"
  <2>1. Len(ns) + 1 - n \in Ids  BY <1>1 DEF Ids
  <2> QED  BY <2>1 DEF Item
<1>3. NewestFirst(ns) = [n \in 1 .. Len(ns) |-> it(n)]
  BY DEF NewestFirst
<1> HIDE DEF it
<1>4. NewestFirst(ns) \in Seq(Item)
      /\ Len(NewestFirst(ns)) = Len(ns)
      /\ \A n \in 1 .. Len(ns) : NewestFirst(ns)[n] = it(n)
  BY <1>2, <1>3
<1> QED  BY <1>1, <1>2, <1>4

LEMMA ExistingIds ==
  ASSUME NEW ns \in Seq(States), Len(ns) <= MaxNotes
  PROVE  ExistingOf(ns) \subseteq Ids
BY MaxNotesAssumption DEF ExistingOf, Ids

LEMMA DocsOfType ==
  ASSUME NEW ns \in Seq(States), Len(ns) <= MaxNotes, NEW ids
  PROVE  DocsOf(ns, ids) \in Seq(Item) /\ Len(DocsOf(ns, ids)) <= MaxNotes
<1>1. /\ NewestFirst(ns) \in Seq(Item)
      /\ Len(NewestFirst(ns)) = Len(ns)
  BY NewestFirstType
<1>2. /\ DocsOf(ns, ids) \in Seq(Item)
      /\ Len(DocsOf(ns, ids)) <= Len(NewestFirst(ns))
  BY <1>1, KeepType DEF DocsOf
<1>3. Len(DocsOf(ns, ids)) \in Nat /\ Len(ns) \in Nat  BY <1>2
<1> QED  BY <1>1, <1>2, <1>3, MaxNotesAssumption

LEMMA UnreadInFinite ==
  ASSUME NEW ns \in Seq(States)
  PROVE  IsFiniteSet(UnreadIn(ns)) /\ Cardinality(UnreadIn(ns)) \in Nat
<1>1. IsFiniteSet(1 .. Len(ns))  BY FS_Interval
<1>2. UnreadIn(ns) \subseteq 1 .. Len(ns)  BY DEF UnreadIn
<1> QED  BY <1>1, <1>2, FS_Subset, FS_CardinalityType

\* An item of the list is unread if and only if its document is.
LEMMA UnreadListed ==
  ASSUME NEW ns \in Seq(States), Len(ns) <= MaxNotes,
         NEW ids \in SUBSET ExistingOf(ns), NEW list, list = DocsOf(ns, ids),
         NEW id
  PROVE  /\ (\E n \in DOMAIN list : list[n].id = id) => id \in ids
         /\ (\E n \in DOMAIN list : list[n].id = id /\ ~list[n].read)
              <=> id \in ids /\ id \in UnreadIn(ns)
<1> DEFINE new == NewestFirst(ns)
<1>1. /\ new \in Seq(Item) /\ DOMAIN new = 1 .. Len(ns) /\ Len(ns) \in Nat
      /\ \A n \in 1 .. Len(ns) :
           /\ Len(ns) + 1 - n \in 1 .. Len(ns)
           /\ new[n] \in Item
           /\ new[n].id = Len(ns) + 1 - n
           /\ new[n].read <=> ns[Len(ns) + 1 - n] = "read"
  <2>1. DOMAIN new = 1 .. Len(new)  BY NewestFirstType
  <2> QED  BY <2>1, NewestFirstType
<1>2. list = Keep(new, ids)  BY DEF DocsOf
<1> HIDE DEF new
<1>3. \A y : (\E n \in DOMAIN list : list[n] = y)
               <=> y.id \in ids /\ \E m \in DOMAIN new : new[m] = y
  <2> SUFFICES ASSUME NEW y
               PROVE  (\E n \in DOMAIN list : list[n] = y)
                        <=> y.id \in ids /\ \E m \in DOMAIN new : new[m] = y
    OBVIOUS
  <2>1. (\E n \in DOMAIN Keep(new, ids) : Keep(new, ids)[n] = y)
          <=> y.id \in ids /\ \E m \in DOMAIN new : new[m] = y
    <3>1. new \in Seq(Item)  BY <1>1
    <3> QED  BY ONLY <3>1, KeepHolds
  <2> QED  BY <1>2, <2>1
<1>4. ASSUME NEW n \in DOMAIN list, list[n].id = id
      PROVE  id \in ids /\ (~list[n].read => id \in UnreadIn(ns))
  <2> PICK m \in DOMAIN new : new[m] = list[n]  BY <1>3
  <2>1. id \in ids  BY <1>3, <1>4
  <2>2. id = Len(ns) + 1 - m /\ (~list[n].read => ns[id] # "read")
    BY <1>1, <1>4
  <2>3. id \in DOMAIN ns /\ ns[id] \in States /\ ns[id] # "deleted"
    BY <2>1 DEF ExistingOf
  <2> QED  BY <2>1, <2>2, <2>3 DEF UnreadIn, States
<1>5. ASSUME id \in ids, id \in UnreadIn(ns)
      PROVE  \E n \in DOMAIN list : list[n].id = id /\ ~list[n].read
  <2>1. id \in 1 .. Len(ns) /\ ns[id] = "unread"  BY <1>5 DEF UnreadIn
  <2> DEFINE m == Len(ns) + 1 - id
  <2>2. m \in 1 .. Len(ns) /\ Len(ns) + 1 - m = id  BY <1>1, <2>1
  <2> HIDE DEF m
  <2>3. new[m].id = id /\ ~new[m].read  BY <1>1, <2>1, <2>2
  <2>4. PICK n \in DOMAIN list : list[n] = new[m]
    BY <1>1, <1>3, <1>5, <2>2, <2>3
  <2> QED  BY <2>3, <2>4
<1> QED  BY <1>4, <1>5

\* Reading is the same for the documents and for the items.
LEMMA ReadDocuments ==
  ASSUME NEW ns \in Seq(States), Len(ns) <= MaxNotes, NEW ms \in Seq(States),
         Len(ms) = Len(ns), NEW f \in [Item -> Item],
         NEW ids \in SUBSET ExistingOf(ns),
         \A x \in Item : f[x].id = x.id,
         \A n \in 1 .. Len(ns) : ns[n] = "deleted" <=> ms[n] = "deleted",
         \A n \in 1 .. Len(ns), x \in Item :
           x.id = n /\ ns[n] # "deleted" /\ (x.read <=> ns[n] = "read")
             => (f[x].read <=> ms[n] = "read")
  PROVE  DocsOf(ms, ids) = Mapped(f, DocsOf(ns, ids))
<1> DEFINE a == NewestFirst(ns)
           b == NewestFirst(ms)
<1>1. /\ a \in Seq(Item) /\ Len(a) = Len(ns)
      /\ \A n \in 1 .. Len(ns) :
           /\ Len(ns) + 1 - n \in 1 .. Len(ns)
           /\ a[n] \in Item
           /\ a[n].id = Len(ns) + 1 - n
           /\ a[n].read <=> ns[Len(ns) + 1 - n] = "read"
  BY NewestFirstType
<1>2. /\ b \in Seq(Item) /\ Len(b) = Len(ns)
      /\ \A n \in 1 .. Len(ns) :
           /\ b[n] \in Item
           /\ b[n].id = Len(ns) + 1 - n
           /\ b[n].read <=> ms[Len(ns) + 1 - n] = "read"
  BY NewestFirstType
<1>4. \A n \in ids : n \in 1 .. Len(ns) /\ ns[n] # "deleted"  BY DEF ExistingOf
<1> HIDE DEF a, b
<1> DEFINE c == Mapped(f, a)
<1>5. /\ c \in Seq(Item) /\ Len(c) = Len(ns)
      /\ \A n \in 1 .. Len(ns) : c[n] = f[a[n]]
  <2>1. DOMAIN a = 1 .. Len(ns)  BY <1>1
  <2> QED  BY <1>1, <2>1, MappedType
<1> HIDE DEF c
<1>6. \A n \in 1 .. Len(ns) : b[n].id \in ids <=> c[n].id \in ids
  <2> SUFFICES ASSUME NEW n \in 1 .. Len(ns) PROVE b[n].id = c[n].id
    OBVIOUS
  <2>1. f[a[n]].id = a[n].id  BY <1>1
  <2> QED  BY <1>1, <1>2, <1>5, <2>1
<1>7. ASSUME NEW n \in 1 .. Len(ns), b[n].id \in ids PROVE b[n] = c[n]
  <2>0. f[a[n]].id = a[n].id  BY <1>1
  <2>1. b[n].id = c[n].id  BY <1>1, <1>2, <1>5, <2>0
  <2>2. c[n] \in Item  BY <1>1, <1>5
  <2> DEFINE d == Len(ns) + 1 - n
  <2>3. /\ d \in 1 .. Len(ns) /\ a[n].id = d /\ (a[n].read <=> ns[d] = "read")
        /\ (b[n].read <=> ms[d] = "read") /\ b[n].id = d
    BY <1>1, <1>2
  <2> HIDE DEF d
  <2>4. ns[d] # "deleted"  BY <1>4, <1>7, <2>3
  <2>5. f[a[n]].read <=> ms[d] = "read"  BY <1>1, <2>3, <2>4
  <2>6. b[n].read <=> c[n].read  BY <1>5, <2>3, <2>5
  <2> QED  BY <1>2, <2>1, <2>2, <2>6, SameItem
<1>8. Keep(b, ids) = Keep(c, ids)
  BY <1>2, <1>5, <1>6, <1>7, SameKeep
<1>9. Keep(c, ids) = Mapped(f, Keep(a, ids))
  BY <1>1, KeepMapped DEF c
<1> QED  BY <1>8, <1>9 DEF DocsOf, a, b

\* So is deleting.
Without(ns, ms, id) ==
  /\ Len(ms) = Len(ns)
  /\ \A n \in 1 .. Len(ns) : ms[n] = IF n = id THEN "deleted" ELSE ns[n]

LEMMA DeleteDocument ==
  ASSUME NEW ns \in Seq(States), Len(ns) <= MaxNotes, NEW ms \in Seq(States),
         NEW id, Without(ns, ms, id), NEW all \in SUBSET ExistingOf(ns)
  PROVE  DocsOf(ms, all \ {id}) = Keep(DocsOf(ns, all), Ids \ {id})
<1> USE DEF Without
<1> DEFINE a == NewestFirst(ns)
           b == NewestFirst(ms)
           ids == all \ {id}
<1>1. /\ a \in Seq(Item) /\ Len(a) = Len(ns)
      /\ \A n \in 1 .. Len(ns) :
           /\ Len(ns) + 1 - n \in 1 .. Len(ns)
           /\ a[n] \in Item
           /\ a[n].id = Len(ns) + 1 - n
           /\ a[n].read <=> ns[Len(ns) + 1 - n] = "read"
  BY NewestFirstType
<1>2. /\ b \in Seq(Item) /\ Len(b) = Len(ns)
      /\ \A n \in 1 .. Len(ns) :
           /\ b[n] \in Item
           /\ b[n].id = Len(ns) + 1 - n
           /\ b[n].read <=> ms[Len(ns) + 1 - n] = "read"
  BY NewestFirstType
<1>3. ids = all \cap (Ids \ {id})
  BY ExistingIds
<1>4. \A n \in ids : n \in 1 .. Len(ns) /\ ns[n] = ms[n]  BY DEF ExistingOf
<1> HIDE DEF a, b, ids, Without
<1>5. ASSUME NEW n \in 1 .. Len(ns), b[n].id \in ids PROVE b[n] = a[n]
  <2>1. b[n].id = a[n].id  BY <1>1, <1>2
  <2> DEFINE d == Len(ns) + 1 - n
  <2>2. b[n].id = d /\ (b[n].read <=> ms[d] = "read") /\ (a[n].read <=> ns[d] = "read")
    BY <1>1, <1>2
  <2> HIDE DEF d
  <2>3. ns[d] = ms[d]  BY <1>4, <1>5, <2>2
  <2>4. b[n].read <=> a[n].read  BY <2>2, <2>3
  <2> QED  BY <1>1, <1>2, <2>1, <2>4, SameItem
<1>6. \A n \in 1 .. Len(ns) : b[n].id \in ids <=> a[n].id \in ids
  BY <1>1, <1>2
<1>7. Keep(b, ids) = Keep(a, ids)
  <2>1. Len(a) = Len(b) /\ 1 .. Len(b) = 1 .. Len(ns)  BY <1>1, <1>2
  <2>2. \A n \in 1 .. Len(b) : b[n].id \in ids <=> a[n].id \in ids
    BY <1>6, <2>1
  <2>3. \A n \in 1 .. Len(b) : b[n].id \in ids => b[n] = a[n]
    BY <1>5, <2>1
  <2>4. a \in Seq(Item) /\ b \in Seq(Item)  BY <1>1, <1>2
  <2> QED  BY <2>1, <2>2, <2>3, <2>4, SameKeep, Zenon
<1>8. Keep(a, ids) = Keep(Keep(a, all), Ids \ {id})
  BY <1>1, <1>3, KeepKeep
<1> QED  BY <1>7, <1>8 DEF DocsOf, a, b, ids

\* The empty list shows the newest of none.
LEMMA NothingShown ==
  ASSUME NEW ns \in Seq(States), Len(ns) <= MaxNotes
  PROVE  Shown(ns, <<>>)
<1>1. PICK none \in SUBSET ExistingOf(ns) : none = {}  OBVIOUS
<1> DEFINE l == DocsOf(ns, none)
<1>2. l \in Seq(Item)  BY DocsOfType
<1>3. \A y : ~ \E n \in DOMAIN l : l[n] = y
  <2>1. NewestFirst(ns) \in Seq(Item)  BY NewestFirstType
  <2> SUFFICES ASSUME NEW y PROVE ~ \E n \in DOMAIN l : l[n] = y
    OBVIOUS
  <2>2. (\E n \in DOMAIN Keep(NewestFirst(ns), none) :
            Keep(NewestFirst(ns), none)[n] = y)
          => y.id \in none
    BY ONLY <2>1, KeepHolds
  <2>3. y.id \notin none /\ l = Keep(NewestFirst(ns), none)  BY <1>1 DEF DocsOf
  <2> HIDE DEF l
  <2> QED  BY <2>2, <2>3
<1> HIDE DEF l
<1>4. Len(l) = 0
  <2>1. Len(l) \in Nat /\ DOMAIN l = 1 .. Len(l)  BY <1>2
  <2>2. 1 \notin DOMAIN l  BY <1>3
  <2> QED  BY <2>1, <2>2
<1>5. l = <<>>  BY <1>2, <1>4, EmptySeq
<1>6. NewestOf(ns, none)  BY <1>1 DEF NewestOf
<1> QED  BY <1>5, <1>6 DEF l, Shown

\* A page ends where the limit is reached, not before something newer.
LEMMA PageShown ==
  ASSUME notes \in Seq(States), Len(notes) <= MaxNotes, NEW limit \in Limits
  PROVE  /\ Listed(limit) \in Seq(Item) /\ Len(Listed(limit)) <= MaxNotes
         /\ Shown(notes, Listed(limit))
<1> DEFINE from(n) == {m \in Existing : m >= n}
<1>1. Existing = ExistingOf(notes) /\ Existing \subseteq 1 .. Len(notes)
  BY DEF Existing, ExistingOf
<1>2. IsFiniteSet(Existing)  BY <1>1, FS_Interval, FS_Subset
<1>3. limit \in Nat  BY LimitsAssumption
<1>4. Page(limit) \in SUBSET ExistingOf(notes)  BY <1>1 DEF Page
<1>5. Listed(limit) = DocsOf(notes, Page(limit))
  BY DEF Listed, Documents, DocsOf, NewestFirst
<1>6. ASSUME NEW n \in Page(limit), NEW m \in Existing, m > n
      PROVE  m \in Page(limit)
  <2>1. n \in Existing /\ Cardinality(from(n)) <= limit  BY DEF Page
  <2>2. n \in Nat /\ m \in Nat /\ \A k \in Existing : k \in Nat  BY <1>1, <2>1
  <2>3. from(m) \subseteq from(n)
    <3>1. \A k \in Existing : k >= m => k >= n  BY <1>6, <2>2
    <3> QED  BY <3>1
  <2>4. IsFiniteSet(from(n)) /\ IsFiniteSet(from(m))  BY <1>2, FS_Subset
  <2>5. Cardinality(from(m)) <= Cardinality(from(n))
        /\ Cardinality(from(m)) \in Nat /\ Cardinality(from(n)) \in Nat
    BY <2>3, <2>4, FS_Subset, FS_CardinalityType
  <2>6. Cardinality(from(m)) <= limit  BY <1>3, <2>1, <2>5
  <2> QED  BY <2>6 DEF Page
<1>7. NewestOf(notes, Page(limit))  BY <1>1, <1>6 DEF NewestOf
<1>8. Shown(notes, Listed(limit))  BY <1>4, <1>5, <1>7 DEF Shown
<1> QED  BY <1>5, <1>8, DocsOfType

-----------------------------------------------------------------------------
(* The inductive invariant.                                                *)

\* What the fulfilled reducers make of the list and of the badge.
ItemsAfter(kind, id) ==
  CASE kind = "markRead" -> MarkedRead(items, id)
    [] kind = "delete" -> Keep(items, Ids \ {id})
    [] kind = "markAllRead" -> AllRead(items)
    [] kind = "clear" -> <<>>

BadgeAfter(kind, id) ==
  CASE kind \in {"markRead", "delete"} ->
         IF UnreadHeld(id) THEN Less(badge) ELSE badge
    [] kind \in {"markAllRead", "clear"} -> 0

\* A thunk is about one item if and only if its kind is, and a list that was
\* fetched has its count.
ThunkFine(q) ==
  /\ q \in Thunk
  /\ Len(q.items) <= MaxNotes
  /\ q.pc # "idle" => (q.id # 0 <=> q.kind \in {"markRead", "delete"})
  /\ q.pc = "fulfilled" /\ q.kind = "fetch" => q.listed /\ q.count # -1

\* What list and badge are when the only thunk in flight has arrived where it
\* is; a fetch does not mind what they were before, and the others are about an
\* item that is shown.
Foreseen(q) ==
  CASE q.kind = "fetch" ->
         /\ q.listed => Shown(notes, q.items)
         /\ q.count # -1 => q.count = UnreadCount
    [] q.kind # "fetch" /\ q.pc = "sent" ->
         inStep => /\ Shown(notes, items) /\ badge = UnreadCount
                   /\ q.kind \in {"markRead", "delete"} => Held(q.id) # {}
    [] q.kind # "fetch" /\ q.pc = "fulfilled" ->
         inStep => /\ Shown(notes, ItemsAfter(q.kind, q.id))
                   /\ BadgeAfter(q.kind, q.id) = UnreadCount
    [] OTHER -> TRUE

Alone ==
  \A t \in Thunks : thunk[t].alone =>
    /\ thunk[t].pc # "idle"
    /\ \A u \in Thunks \ {t} : thunk[u].pc = "idle"
    /\ Foreseen(thunk[t])

NoteInv ==
  /\ NoteTypeOK /\ Len(notes) <= MaxNotes
  /\ creating => Len(notes) < MaxNotes
  /\ \A t \in Thunks : ThunkFine(thunk[t])
  /\ BadgeCoversItems
  /\ Alone
  /\ InStep

-----------------------------------------------------------------------------
(* What the steps make of the thunks.                                      *)

\* The invariant of the documents, the thunks, and the types of the slice.
TypesInv ==
  /\ notes \in Seq(States) /\ Len(notes) <= MaxNotes
  /\ wanted \in BOOLEAN /\ creating \in BOOLEAN
  /\ creating => Len(notes) < MaxNotes
  /\ thunk \in [Thunks -> Thunk]
  /\ \A t \in Thunks : ThunkFine(thunk[t])
  /\ items \in Seq(Item) /\ Len(items) <= MaxNotes + MaxItems
  /\ badge \in Nat
  /\ loading \in BOOLEAN /\ inStep \in BOOLEAN /\ torn \in BOOLEAN

LEMMA InvParts ==
  NoteInv <=> TypesInv /\ BadgeCoversItems /\ Alone /\ InStep
BY DEF NoteInv, TypesInv, NoteTypeOK, ThunkFine, States

LEMMA SettledFine ==
  /\ Settled \in Thunk /\ ThunkFine(Settled)
  /\ Settled.pc = "idle" /\ ~Settled.alone
<1>1. <<>> \in Seq(Item) /\ Len(<<>>) = 0  OBVIOUS
<1>2. Settled \in Thunk  BY <1>1 DEF Settled, Thunk, Kinds
<1>3. /\ Settled.pc = "idle" /\ ~Settled.alone /\ Len(Settled.items) = 0
  BY DEF Settled
<1> QED  BY <1>2, <1>3, MaxNotesAssumption DEF ThunkFine

LEMMA ListedType ==
  ASSUME TypesInv
  PROVE  /\ UnreadCount \in Nat
         /\ \A limit \in Limits :
              /\ Listed(limit) \in Seq(Item) /\ Len(Listed(limit)) <= MaxNotes
              /\ Shown(notes, Listed(limit))
BY UnreadCountIs, PageShown, UnreadInFinite DEF TypesInv

\* A step of one thunk leaves the others alone.
Others(t) == \A u \in Thunks \ {t} : thunk'[u] = thunk[u]

LEMMA ReadItemsEffect ==
  ASSUME TypesInv, NEW t \in Thunks, NEW limit \in Limits,
         ReadItems(t, limit)
  PROVE  /\ thunk' \in [Thunks -> Thunk] /\ Others(t)
         /\ thunk'[t].items = Listed(limit) /\ thunk'[t].listed
         /\ thunk'[t].kind = "fetch" /\ thunk'[t].id = thunk[t].id
         /\ thunk'[t].count = thunk[t].count
         /\ thunk'[t].alone = thunk[t].alone
         /\ thunk'[t].pc = IF thunk[t].count = -1 THEN "sent" ELSE "fulfilled"
         /\ thunk[t].pc = "sent" /\ thunk[t].kind = "fetch"
<1>1. thunk[t] \in Thunk /\ Listed(limit) \in Seq(Item)
  BY ListedType DEF TypesInv
<1>2. Others(t)  BY DEF ReadItems, Others, TypesInv
<1>3. /\ thunk'[t].items = Listed(limit) /\ thunk'[t].listed
      /\ thunk'[t].kind = "fetch" /\ thunk'[t].id = thunk[t].id
      /\ thunk'[t].count = thunk[t].count
      /\ thunk'[t].alone = thunk[t].alone
      /\ thunk'[t].pc = IF thunk[t].count = -1 THEN "sent" ELSE "fulfilled"
  BY <1>1 DEF ReadItems, Thunk, TypesInv
<1>4. thunk' \in [Thunks -> Thunk]
  BY <1>1 DEF ReadItems, Thunk, TypesInv
<1> QED  BY <1>2, <1>3, <1>4 DEF ReadItems

LEMMA ReadCountEffect ==
  ASSUME TypesInv, NEW t \in Thunks, ReadCount(t)
  PROVE  /\ thunk' \in [Thunks -> Thunk] /\ Others(t)
         /\ thunk'[t].count = UnreadCount
         /\ thunk'[t].kind = "fetch" /\ thunk'[t].id = thunk[t].id
         /\ thunk'[t].items = thunk[t].items
         /\ thunk'[t].listed = thunk[t].listed
         /\ thunk'[t].alone = thunk[t].alone
         /\ thunk'[t].pc = IF thunk[t].listed THEN "fulfilled" ELSE "sent"
         /\ thunk[t].pc = "sent" /\ thunk[t].kind = "fetch"
<1>1. thunk[t] \in Thunk /\ UnreadCount \in Nat
  BY ListedType DEF TypesInv
<1>2. Others(t)  BY DEF ReadCount, Others, TypesInv
<1>3. /\ thunk'[t].count = UnreadCount
      /\ thunk'[t].kind = "fetch" /\ thunk'[t].id = thunk[t].id
      /\ thunk'[t].items = thunk[t].items
      /\ thunk'[t].listed = thunk[t].listed
      /\ thunk'[t].alone = thunk[t].alone
      /\ thunk'[t].pc = IF thunk[t].listed THEN "fulfilled" ELSE "sent"
  BY <1>1 DEF ReadCount, Thunk, TypesInv
<1>4. thunk' \in [Thunks -> Thunk]
  BY <1>1 DEF ReadCount, Thunk, TypesInv
<1> QED  BY <1>2, <1>3, <1>4 DEF ReadCount

LEMMA UpdateEffect ==
  ASSUME TypesInv, NEW t \in Thunks, Update(t)
  PROVE  /\ thunk' \in [Thunks -> Thunk] /\ Others(t)
         /\ thunk'[t].kind = thunk[t].kind /\ thunk'[t].id = thunk[t].id
         /\ thunk'[t].items = thunk[t].items
         /\ thunk'[t].alone = thunk[t].alone
         /\ thunk[t].pc = "sent" /\ thunk[t].kind # "fetch"
         /\ \/ thunk'[t].pc = "rejected" /\ notes' = notes
            \/ /\ thunk'[t].pc = "fulfilled" /\ thunk[t].id \notin SocketIds
               /\ notes' = Updated(thunk[t].kind, thunk[t].id)
<1>1. thunk[t] \in Thunk  BY DEF TypesInv
<1>2. Others(t)  BY DEF Update, Others, TypesInv
<1>3. /\ thunk'[t].kind = thunk[t].kind /\ thunk'[t].id = thunk[t].id
      /\ thunk'[t].items = thunk[t].items
      /\ thunk'[t].alone = thunk[t].alone
      /\ thunk'[t].pc = IF thunk[t].id \in SocketIds THEN "rejected"
                                                     ELSE "fulfilled"
  BY <1>1 DEF Update, Thunk, TypesInv
<1>4. thunk' \in [Thunks -> Thunk]
  <2>1. PICK pc \in {"fulfilled", "rejected"} : thunk' = [thunk EXCEPT ![t].pc = pc]
    BY DEF Update
  <2> QED  BY <1>1, <2>1 DEF Thunk, TypesInv
<1> QED  BY <1>2, <1>3, <1>4 DEF Update

LEMMA SettleEffect ==
  ASSUME TypesInv, NEW t \in Thunks, thunk' = [thunk EXCEPT ![t] = Settled]
  PROVE  /\ thunk' \in [Thunks -> Thunk] /\ Others(t)
         /\ thunk'[t] = Settled
BY SettledFine DEF TypesInv, Others

LEMMA DispatchEffect ==
  ASSUME TypesInv, NEW t \in Thunks, NEW kind \in Kinds, NEW id \in Ids \cup {0},
         Dispatch(t, kind, id)
  PROVE  /\ thunk' \in [Thunks -> Thunk]
         /\ thunk'[t].pc = "sent" /\ thunk'[t].kind = kind /\ thunk'[t].id = id
         /\ thunk'[t].items = <<>> /\ thunk'[t].count = -1
         /\ ~thunk'[t].listed /\ (thunk'[t].alone <=> Busy = {})
         /\ \A u \in Thunks \ {t} :
              /\ ~thunk'[u].alone
              /\ thunk'[u].pc = thunk[u].pc /\ thunk'[u].kind = thunk[u].kind
              /\ thunk'[u].id = thunk[u].id /\ thunk'[u].items = thunk[u].items
              /\ thunk'[u].listed = thunk[u].listed
              /\ thunk'[u].count = thunk[u].count
<1>1. \A u \in Thunks : thunk[u] \in Thunk  BY DEF TypesInv
<1>2. <<>> \in Seq(Item)  OBVIOUS
<1> DEFINE new == [Settled EXCEPT !.pc = "sent", !.kind = kind, !.id = id,
                                  !.alone = Busy = {}]
           old(u) == [thunk[u] EXCEPT !.alone = FALSE]
<1>3. /\ new \in Thunk
      /\ new.pc = "sent" /\ new.kind = kind /\ new.id = id
      /\ new.items = <<>> /\ new.count = -1
      /\ ~new.listed /\ (new.alone <=> Busy = {})
  BY <1>2 DEF Thunk, Settled
<1>4. ASSUME NEW u \in Thunks
      PROVE  /\ old(u) \in Thunk
             /\ ~old(u).alone
             /\ old(u).pc = thunk[u].pc /\ old(u).kind = thunk[u].kind
             /\ old(u).id = thunk[u].id /\ old(u).items = thunk[u].items
             /\ old(u).listed = thunk[u].listed
             /\ old(u).count = thunk[u].count
  BY <1>1 DEF Thunk
<1>5. thunk' = [u \in Thunks |-> IF u = t THEN new ELSE old(u)]
  BY DEF Dispatch
<1> HIDE DEF new, old
<1> QED  BY <1>3, <1>4, <1>5

LEMMA CreateEffect ==
  ASSUME TypesInv, CreateNotification
  PROVE  /\ thunk' \in [Thunks -> Thunk]
         /\ \A u \in Thunks :
              /\ ~thunk'[u].alone
              /\ thunk'[u].pc = thunk[u].pc /\ thunk'[u].kind = thunk[u].kind
              /\ thunk'[u].id = thunk[u].id /\ thunk'[u].items = thunk[u].items
              /\ thunk'[u].listed = thunk[u].listed
              /\ thunk'[u].count = thunk[u].count
<1>1. \A u \in Thunks : thunk[u] \in Thunk  BY DEF TypesInv
<1> DEFINE old(u) == [thunk[u] EXCEPT !.alone = FALSE]
<1>4. ASSUME NEW u \in Thunks
      PROVE  /\ old(u) \in Thunk
             /\ ~old(u).alone
             /\ old(u).pc = thunk[u].pc /\ old(u).kind = thunk[u].kind
             /\ old(u).id = thunk[u].id /\ old(u).items = thunk[u].items
             /\ old(u).listed = thunk[u].listed
             /\ old(u).count = thunk[u].count
  BY <1>1 DEF Thunk
<1>5. thunk' = [u \in Thunks |-> old(u)]
  BY DEF CreateNotification
<1> HIDE DEF old
<1> QED  BY <1>4, <1>5

-----------------------------------------------------------------------------
(* What the steps make of the documents and the slice.                     *)

\* Documents keep their number, and what is deleted stays so.
LEMMA UpdatedType ==
  ASSUME TypesInv, NEW kind \in Kinds, NEW id
  PROVE  /\ Updated(kind, id) \in Seq(States)
         /\ Len(Updated(kind, id)) = Len(notes)
         /\ \A n \in 1 .. Len(notes) :
              Updated(kind, id)[n] =
                CASE kind = "clear" \/ (kind = "delete" /\ n = id) -> "deleted"
                  [] kind = "markAllRead" \/ (kind = "markRead" /\ n = id) ->
                       IF notes[n] = "unread" THEN "read" ELSE notes[n]
                  [] OTHER -> notes[n]
<1> DEFINE new(n) ==
      CASE kind = "clear" \/ (kind = "delete" /\ n = id) -> "deleted"
        [] kind = "markAllRead" \/ (kind = "markRead" /\ n = id) ->
             IF notes[n] = "unread" THEN "read" ELSE notes[n]
        [] OTHER -> notes[n]
<1>1. \A n \in 1 .. Len(notes) : notes[n] \in States  BY DEF TypesInv
<1>2. \A n \in 1 .. Len(notes) : new(n) \in States  BY <1>1 DEF States
<1>3. Updated(kind, id) = [n \in 1 .. Len(notes) |-> new(n)]
  BY DEF Updated, TypesInv
<1>4. Len(notes) \in Nat  BY DEF TypesInv
<1> HIDE DEF new
<1>5. /\ Updated(kind, id) \in Seq(States)
      /\ Len(Updated(kind, id)) = Len(notes)
      /\ \A n \in 1 .. Len(notes) : Updated(kind, id)[n] = new(n)
  BY <1>2, <1>3, <1>4
<1> QED  BY <1>5 DEF new

\* One document less is unread.
LEMMA UnreadCounts ==
  ASSUME NEW ns \in Seq(States), NEW ms \in Seq(States), Len(ms) = Len(ns),
         NEW id,
         \A n \in 1 .. Len(ns) :
           ms[n] = "unread" <=> ns[n] = "unread" /\ n # id
  PROVE  Cardinality(UnreadIn(ms)) =
           IF id \in UnreadIn(ns) THEN Less(Cardinality(UnreadIn(ns)))
                                  ELSE Cardinality(UnreadIn(ns))
<1>1. UnreadIn(ms) = UnreadIn(ns) \ {id}  BY DEF UnreadIn
<1>2. IsFiniteSet(UnreadIn(ns)) /\ Cardinality(UnreadIn(ns)) \in Nat
      /\ Cardinality(UnreadIn(ms)) \in Nat
  BY UnreadInFinite
<1>3. CASE id \in UnreadIn(ns)
  <2>1. Cardinality(UnreadIn(ms)) = Cardinality(UnreadIn(ns)) - 1
    BY <1>1, <1>2, <1>3, FS_RemoveElement
  <2> QED  BY <1>2, <1>3, <2>1 DEF Less
<1>4. CASE id \notin UnreadIn(ns)
  <2>1. UnreadIn(ms) = UnreadIn(ns)  BY <1>1, <1>4
  <2> QED  BY <1>4, <2>1
<1> QED  BY <1>3, <1>4

\* When list and badge show the documents as they were, the reducer makes them
\* show what the update made of the documents.
LEMMA UpdateForeseen ==
  ASSUME TypesInv, NEW kind \in Kinds \ {"fetch"}, NEW id,
         Shown(notes, items), badge = UnreadCount,
         kind \in {"markRead", "delete"} => Held(id) # {}
  PROVE  /\ Shown(Updated(kind, id), ItemsAfter(kind, id))
         /\ BadgeAfter(kind, id) = Cardinality(UnreadIn(Updated(kind, id)))
<1> DEFINE ns == notes
           ms == Updated(kind, id)
<1>1. /\ ns \in Seq(States) /\ Len(ns) <= MaxNotes /\ Len(ns) \in Nat
      /\ \A n \in 1 .. Len(ns) : ns[n] \in States
  BY DEF TypesInv
<1>2. /\ ms \in Seq(States) /\ Len(ms) = Len(ns)
      /\ \A n \in 1 .. Len(ns) :
           ms[n] = CASE kind = "clear" \/ (kind = "delete" /\ n = id) -> "deleted"
                     [] kind = "markAllRead" \/ (kind = "markRead" /\ n = id) ->
                          IF ns[n] = "unread" THEN "read" ELSE ns[n]
                     [] OTHER -> ns[n]
  BY UpdatedType
<1>3. badge = Cardinality(UnreadIn(ns)) /\ items \in Seq(Item)
  BY UnreadCountIs DEF TypesInv
<1>4. PICK ids \in SUBSET ExistingOf(ns) :
        NewestOf(ns, ids) /\ items = DocsOf(ns, ids)
  BY DEF Shown
<1>5. /\ UnreadHeld(id) <=> id \in ids /\ id \in UnreadIn(ns)
      /\ Held(id) # {} => id \in ids
  <2>1. PICK list : list = items  OBVIOUS
  <2>2. /\ (\E n \in DOMAIN list : list[n].id = id) => id \in ids
        /\ (\E n \in DOMAIN list : list[n].id = id /\ ~list[n].read)
              <=> id \in ids /\ id \in UnreadIn(ns)
    BY <1>1, <1>4, <2>1, UnreadListed
  <2> QED  BY <2>1, <2>2 DEF UnreadHeld, Held
<1> HIDE DEF ns, ms
\* Reading leaves the same documents on the same page.
<1>6. ASSUME \A n \in 1 .. Len(ns) : ns[n] = "deleted" <=> ms[n] = "deleted",
             NEW list, list = DocsOf(ms, ids)
      PROVE  Shown(ms, list)
  <2>1. ExistingOf(ms) = ExistingOf(ns)  BY <1>1, <1>2, <1>6 DEF ExistingOf
  <2>2. NewestOf(ms, ids)  BY <1>4, <2>1 DEF NewestOf
  <2> QED  BY <1>6, <2>1, <2>2 DEF Shown
<1>7. CASE kind = "markRead"
  <2>1. \A n \in 1 .. Len(ns) :
          ms[n] = IF n = id /\ ns[n] = "unread" THEN "read" ELSE ns[n]
    BY <1>2, <1>7
  <2>2. PICK f \in [Item -> Item] :
          /\ \A x \in Item : f[x].id = x.id /\ (f[x].read <=> x.read \/ x.id = id)
          /\ MarkedRead(items, id) = Mapped(f, items)
    BY <1>3, MarkedMapped
  <2>3. \A n \in 1 .. Len(ns) : ns[n] = "deleted" <=> ms[n] = "deleted"
    BY <1>1, <2>1 DEF States
  <2>4. \A n \in 1 .. Len(ns), x \in Item :
          x.id = n /\ ns[n] # "deleted" /\ (x.read <=> ns[n] = "read")
             => (f[x].read <=> ms[n] = "read")
    BY <1>1, <2>1, <2>2 DEF States
  <2>5. DocsOf(ms, ids) = Mapped(f, DocsOf(ns, ids))
    BY <1>1, <1>2, <2>2, <2>3, <2>4, ReadDocuments, SMTT(20)
  <2>6. \A n \in 1 .. Len(ns) : ms[n] = "unread" <=> ns[n] = "unread" /\ n # id
    BY <1>1, <2>1 DEF States
  <2>7. Cardinality(UnreadIn(ms)) =
           IF id \in UnreadIn(ns) THEN Less(Cardinality(UnreadIn(ns)))
                                  ELSE Cardinality(UnreadIn(ns))
    BY <1>1, <1>2, <2>6, UnreadCounts
  <2>8. ItemsAfter(kind, id) = MarkedRead(items, id)
        /\ BadgeAfter(kind, id) = IF UnreadHeld(id) THEN Less(badge) ELSE badge
    BY <1>7 DEF ItemsAfter, BadgeAfter
  <2>9. Shown(ms, MarkedRead(items, id))
    BY <1>4, <1>6, <2>2, <2>3, <2>5
  <2>10. UnreadHeld(id) <=> id \in UnreadIn(ns)  BY <1>5, <1>7
  <2> QED  BY <1>3, <2>7, <2>8, <2>9, <2>10 DEF ms
<1>8. CASE kind = "delete"
  <2>1. \A n \in 1 .. Len(ns) : ms[n] = IF n = id THEN "deleted" ELSE ns[n]
    BY <1>2, <1>8
  <2>2. DocsOf(ms, ids \ {id}) = Keep(DocsOf(ns, ids), Ids \ {id})
    <3>1. Without(ns, ms, id)  BY <1>2, <2>1 DEF Without
    <3> QED  BY <1>1, <1>2, <1>4, <3>1, DeleteDocument
  <2>3. \A n \in 1 .. Len(ns) : ms[n] = "unread" <=> ns[n] = "unread" /\ n # id
    BY <2>1
  <2>4. Cardinality(UnreadIn(ms)) =
           IF id \in UnreadIn(ns) THEN Less(Cardinality(UnreadIn(ns)))
                                  ELSE Cardinality(UnreadIn(ns))
    BY <1>1, <1>2, <2>3, UnreadCounts
  <2>5. ItemsAfter(kind, id) = Keep(items, Ids \ {id})
        /\ BadgeAfter(kind, id) = IF UnreadHeld(id) THEN Less(badge) ELSE badge
    BY <1>8 DEF ItemsAfter, BadgeAfter
  <2>6. ExistingOf(ms) = ExistingOf(ns) \ {id}
    BY <1>1, <1>2, <2>1 DEF ExistingOf
  <2>7. NewestOf(ms, ids \ {id}) /\ ids \ {id} \in SUBSET ExistingOf(ms)
    BY <1>4, <2>6 DEF NewestOf
  <2>8. Shown(ms, Keep(items, Ids \ {id}))
    BY <1>4, <2>2, <2>7 DEF Shown
  <2>9. UnreadHeld(id) <=> id \in UnreadIn(ns)  BY <1>5, <1>8
  <2> QED  BY <1>3, <2>4, <2>5, <2>8, <2>9 DEF ms
<1>9. CASE kind = "markAllRead"
  <2>1. \A n \in 1 .. Len(ns) :
          ms[n] = IF ns[n] = "unread" THEN "read" ELSE ns[n]
    BY <1>2, <1>9
  <2>2. PICK f \in [Item -> Item] :
          /\ \A x \in Item : f[x].id = x.id /\ f[x].read
          /\ AllRead(items) = Mapped(f, items)
    BY <1>3, AllMapped
  <2>3. \A n \in 1 .. Len(ns) : ns[n] = "deleted" <=> ms[n] = "deleted"
    BY <2>1
  <2>4. \A n \in 1 .. Len(ns), x \in Item :
          x.id = n /\ ns[n] # "deleted" /\ (x.read <=> ns[n] = "read")
             => (f[x].read <=> ms[n] = "read")
    BY <1>1, <2>1, <2>2 DEF States
  <2>5. DocsOf(ms, ids) = Mapped(f, DocsOf(ns, ids))
    BY <1>1, <1>2, <2>2, <2>3, <2>4, ReadDocuments, SMTT(20)
  <2>6. UnreadIn(ms) = {}
    BY <1>2, <2>1 DEF UnreadIn
  <2>7. Cardinality(UnreadIn(ms)) = 0  BY <2>6, FS_EmptySet
  <2>8. ItemsAfter(kind, id) = AllRead(items) /\ BadgeAfter(kind, id) = 0
    BY <1>9 DEF ItemsAfter, BadgeAfter
  <2>9. Shown(ms, AllRead(items))
    BY <1>4, <1>6, <2>2, <2>3, <2>5
  <2> QED  BY <2>7, <2>8, <2>9 DEF ms
<1>10. CASE kind = "clear"
  <2>1. \A n \in 1 .. Len(ms) : ms[n] = "deleted"
    BY <1>2, <1>10
  <2>2. UnreadIn(ms) = {}  BY <1>2, <2>1 DEF UnreadIn
  <2>3. Cardinality(UnreadIn(ms)) = 0  BY <2>2, FS_EmptySet
  <2>4. ItemsAfter(kind, id) = <<>> /\ BadgeAfter(kind, id) = 0
    BY <1>10 DEF ItemsAfter, BadgeAfter
  <2>5. Shown(ms, <<>>)  BY <1>1, <1>2, NothingShown
  <2> QED  BY <2>3, <2>4, <2>5 DEF ms
<1> QED  BY <1>7, <1>8, <1>9, <1>10 DEF Kinds

\* The reducers of the updates keep the types, and the badge above the items.
LEMMA ApplyEffect ==
  ASSUME TypesInv, NEW kind \in Kinds \ {"fetch"}, NEW id, ApplyUpdate(kind, id)
  PROVE  /\ items' = ItemsAfter(kind, id) /\ badge' = BadgeAfter(kind, id)
         /\ items' \in Seq(Item) /\ Len(items') <= Len(items)
         /\ badge' \in Nat
         /\ badge >= UnreadItems(items) => badge' >= UnreadItems(items')
<1>1. items \in Seq(Item) /\ badge \in Nat /\ Len(items) \in Nat
  BY DEF TypesInv
<1>2. Less(badge) \in Nat /\ (badge > 0 => Less(badge) = badge - 1)
  BY <1>1 DEF Less
<1>3. UnreadItems(items) \in Nat  BY <1>1, UnreadItemsType
<1>4. UnreadHeld(id) <=> \E n \in DOMAIN items : items[n].id = id /\ ~items[n].read
  BY DEF UnreadHeld, Held
<1>5. CASE kind \in {"markRead", "delete"}
  <2>1. /\ items' = MarkedRead(items, id) \/ items' = Keep(items, Ids \ {id})
        /\ items' = ItemsAfter(kind, id)
        /\ badge' = IF UnreadHeld(id) THEN Less(badge) ELSE badge
        /\ badge' = BadgeAfter(kind, id)
    BY <1>5 DEF ApplyUpdate, ItemsAfter, BadgeAfter, MarkedRead
  <2>2. items' \in Seq(Item) /\ Len(items') <= Len(items)
    <3>1. CASE items' = MarkedRead(items, id)
      <4>1. PICK f \in [Item -> Item] : MarkedRead(items, id) = Mapped(f, items)
        BY <1>1, MarkedMapped
      <4> QED  BY <1>1, <3>1, <4>1, MappedType
    <3>2. CASE items' = Keep(items, Ids \ {id})
      BY <1>1, <3>2, KeepType
    <3> QED  BY <2>1, <3>1, <3>2
  <2>3. /\ UnreadItems(items') <= UnreadItems(items)
        /\ UnreadHeld(id) => UnreadItems(items') < UnreadItems(items)
    BY <1>1, <1>4, <2>1, FewerUnread
  <2>4. UnreadItems(items') \in Nat  BY <2>2, UnreadItemsType
  <2>5. badge' \in Nat  BY <1>1, <1>2, <2>1
  <2>6. badge >= UnreadItems(items) => badge' >= UnreadItems(items')
    <3>1. CASE UnreadHeld(id)
      BY <1>1, <1>2, <1>3, <2>1, <2>3, <2>4, <3>1
    <3>2. CASE ~UnreadHeld(id)
      <4>1. badge' = badge  BY <2>1, <3>2
      <4>2. UnreadItems(items') <= UnreadItems(items)  BY <2>3
      <4> DEFINE a == UnreadItems(items)
                 b == UnreadItems(items')
      <4>3. a \in Nat /\ b \in Nat /\ b <= a  BY <1>3, <2>4, <4>2
      <4> HIDE DEF a, b
      <4>4. badge >= a => badge' >= b  BY <1>1, <4>1, <4>3
      <4> QED  BY <4>4 DEF a, b
    <3> QED  BY <3>1, <3>2
  <2> QED  BY <2>1, <2>2, <2>5, <2>6
<1>6. CASE kind = "markAllRead"
  <2>1. items' = AllRead(items) /\ items' = ItemsAfter(kind, id)
        /\ badge' = 0 /\ badge' = BadgeAfter(kind, id)
    BY <1>6 DEF ApplyUpdate, ItemsAfter, BadgeAfter, AllRead
  <2>2. PICK f \in [Item -> Item] :
          /\ \A x \in Item : f[x].read
          /\ AllRead(items) = Mapped(f, items)
    BY <1>1, AllMapped
  <2>3. /\ items' \in Seq(Item) /\ Len(items') = Len(items)
        /\ DOMAIN items' = DOMAIN items
        /\ \A n \in DOMAIN items : items'[n] = f[items[n]]
    <3>1. items' = Mapped(f, items)  BY <2>1, <2>2
    <3>2. /\ Mapped(f, items) \in Seq(Item) /\ Len(Mapped(f, items)) = Len(items)
          /\ DOMAIN Mapped(f, items) = DOMAIN items
          /\ \A n \in DOMAIN items : Mapped(f, items)[n] = f[items[n]]
      BY <1>1, MappedType
    <3> QED  BY <3>1, <3>2
  <2>4. \A n \in DOMAIN items : items[n] \in Item  BY <1>1
  <2>5. {n \in DOMAIN items' : ~items'[n].read} = {}  BY <2>2, <2>3, <2>4
  <2>6. UnreadItems(items') = 0  BY <2>5, FS_EmptySet DEF UnreadItems
  <2> QED  BY <1>1, <2>1, <2>3, <2>6
<1>7. CASE kind = "clear"
  <2>1. items' = <<>> /\ items' = ItemsAfter(kind, id)
        /\ badge' = 0 /\ badge' = BadgeAfter(kind, id)
    BY <1>7 DEF ApplyUpdate, ItemsAfter, BadgeAfter
  <2>2. items' \in Seq(Item) /\ Len(items') = 0 /\ DOMAIN items' = {}
    BY <2>1
  <2>3. {n \in DOMAIN items' : ~items'[n].read} = {}  BY <2>2
  <2>4. UnreadItems(items') = 0  BY <2>3, FS_EmptySet DEF UnreadItems
  <2> QED  BY <1>1, <2>1, <2>2, <2>4
<1> QED  BY <1>5, <1>6, <1>7 DEF Kinds

\* A socket event puts one unread item in front, and cuts the list.
LEMMA ReceiveEffect ==
  ASSUME TypesInv, NEW id \in SocketIds, Receive(id)
  PROVE  /\ items' \in Seq(Item) /\ Len(items') <= MaxItems
         /\ UnreadItems(items') <= UnreadItems(items) + 1
<1>1. items \in Seq(Item)  BY DEF TypesInv
<1> DEFINE others == Keep(items, Ids \ {id})
           first == [id |-> id, read |-> FALSE]
           all == <<first>> \o others
           cut == IF Len(all) < MaxItems THEN Len(all) ELSE MaxItems
<1>2. others \in Seq(Item) /\ Len(others) \in Nat  BY <1>1, KeepType
<1>3. UnreadItems(others) <= UnreadItems(items)  BY <1>1, FewerUnread
<1>4. first \in Item  BY DEF Item, Ids
<1>5. items' = SubSeq(all, 1, cut)  BY DEF Receive
<1>6. PICK x \in Item : x = first  BY <1>4
<1> HIDE DEF others, first
<1>7. /\ all \in Seq(Item) /\ Len(all) = Len(others) + 1
      /\ \A n \in 2 .. Len(all) : n - 1 \in 1 .. Len(others) /\ all[n] = others[n - 1]
  <2>1. all = <<x>> \o others  BY <1>6
  <2> HIDE DEF all
  <2> QED  BY <1>2, <2>1
<1> HIDE DEF all
<1>8. cut \in Nat /\ cut <= MaxItems /\ cut <= Len(all)
  BY <1>2, <1>7, MaxItemsAssumption
<1> HIDE DEF cut
<1>9. /\ items' \in Seq(Item) /\ Len(items') = cut
      /\ \A n \in 1 .. cut : items'[n] = all[n]
  BY <1>5, <1>7, <1>8
<1> DEFINE before == {n \in DOMAIN others : ~others[n].read}
           after == {n \in DOMAIN items' : ~items'[n].read}
           down(n) == n - 1
<1>10. IsFiniteSet(before) /\ UnreadItems(others) = Cardinality(before)
       /\ Cardinality(before) \in Nat
  BY <1>2, UnreadItemsType DEF UnreadItems
<1>11. \A n \in after \ {1} : n \in Nat /\ n - 1 \in before
  <2> SUFFICES ASSUME NEW n \in after \ {1} PROVE n \in Nat /\ n - 1 \in before
    OBVIOUS
  <2>1. n \in 1 .. cut /\ n # 1 /\ ~items'[n].read  BY <1>9
  <2>2. n \in 2 .. Len(all) /\ items'[n] = all[n]
    <3>1. n \in 2 .. Len(all)  BY <1>2, <1>7, <1>8, <2>1
    <3> QED  BY <1>9, <2>1, <3>1
  <2>3. n - 1 \in 1 .. Len(others) /\ all[n] = others[n - 1]  BY <1>7, <2>2
  <2>4. n - 1 \in DOMAIN others  BY <1>2, <2>3
  <2> QED  BY <2>1, <2>2, <2>3, <2>4
<1>12. IsFiniteSet(after) /\ Cardinality(after) \in Nat
       /\ UnreadItems(items') = Cardinality(after)
  <2>1. items' \in Seq(Item)  BY <1>9
  <2> QED  BY <2>1, UnreadItemsType DEF UnreadItems
<1> HIDE DEF before, after
<1>13. IsFiniteSet(after \ {1}) /\ Cardinality(after \ {1}) \in Nat
       /\ Cardinality(after) <= Cardinality(after \ {1}) + 1
  <2>1. IsFiniteSet(after \ {1}) /\ Cardinality(after \ {1}) \in Nat
    BY <1>12, FS_Subset, FS_CardinalityType
  <2>2. CASE 1 \in after
    <3>1. Cardinality(after \ {1}) = Cardinality(after) - 1
      BY <1>12, <2>2, FS_RemoveElement
    <3> QED  BY <1>12, <2>1, <3>1
  <2>3. CASE 1 \notin after
    <3>1. after \ {1} = after  BY <2>3
    <3> QED  BY <1>12, <2>1, <3>1
  <2> QED  BY <2>2, <2>3
<1>14. Cardinality(after \ {1}) <= Cardinality(before)
  <2> DEFINE g == [n \in after \ {1} |-> n - 1]
  <2>1. g \in Injection(after \ {1}, before)
    BY <1>11 DEF Injection, IsInjective
  <2> QED  BY <1>10, <2>1, FS_Injection
<1>15. UnreadItems(items) \in Nat  BY <1>1, UnreadItemsType
<1> QED  BY <1>3, <1>8, <1>9, <1>10, <1>12, <1>13, <1>14, <1>15

-----------------------------------------------------------------------------
(* Every step keeps the invariant.                                         *)

\* Documents, slice and the pace of the thunks as before.
LEMMA PreferencesStep ==
  ASSUME NoteInv,
         ReadPreferences \/ \E value \in BOOLEAN : UpdatePreferences(value)
  PROVE  NoteInv'
<1>1. UNCHANGED <<notes, thunk, items, badge, loading, inStep, torn>>
  BY DEF ReadPreferences, UpdatePreferences, slice
<1>2. wanted' \in BOOLEAN /\ creating' \in BOOLEAN
      /\ (creating' => Len(notes) < MaxNotes)
  BY InvParts DEF ReadPreferences, UpdatePreferences, TypesInv
<1>3. TypesInv'
  BY <1>1, <1>2, InvParts DEF TypesInv
<1>4. (BadgeCoversItems /\ InStep)'
  <2>1. UnreadCount' = UnreadCount  BY <1>1, UnreadCountIs
  <2> QED  BY <1>1, <2>1, InvParts, InStepIs DEF BadgeCoversItems, Busy
<1>5. Alone'
  <2>1. UnreadCount' = UnreadCount  BY <1>1, UnreadCountIs
  <2>2. \A k, i : /\ ItemsAfter(k, i)' = ItemsAfter(k, i)
                  /\ BadgeAfter(k, i)' = BadgeAfter(k, i)
                  /\ Held(i)' = Held(i)
    BY <1>1 DEF ItemsAfter, BadgeAfter, UnreadHeld, Held
  <2>3. \A q : Foreseen(q)' <=> Foreseen(q)
    BY <1>1, <2>1, <2>2 DEF Foreseen
  <2> QED  BY <1>1, <2>3, InvParts DEF Alone
<1> QED  BY <1>3, <1>4, <1>5 DEF NoteInv, TypesInv, NoteTypeOK, States

LEMMA CreateStep ==
  ASSUME NoteInv, CreateNotification
  PROVE  NoteInv'
<1>1. TypesInv /\ BadgeCoversItems  BY InvParts
<1>2. /\ UNCHANGED <<wanted, items, badge, loading, torn>>
      /\ notes' = Append(notes, "unread") /\ creating' = FALSE /\ ~inStep'
      /\ inStep' \in BOOLEAN
  BY DEF CreateNotification, slice
<1>3. /\ thunk' \in [Thunks -> Thunk]
      /\ \A u \in Thunks :
           /\ ~thunk'[u].alone
           /\ thunk'[u].pc = thunk[u].pc /\ thunk'[u].kind = thunk[u].kind
           /\ thunk'[u].id = thunk[u].id /\ thunk'[u].items = thunk[u].items
           /\ thunk'[u].listed = thunk[u].listed
           /\ thunk'[u].count = thunk[u].count
  BY <1>1, CreateEffect
<1>4. notes' \in Seq(States) /\ Len(notes') <= MaxNotes
  <2>1. Len(notes) < MaxNotes /\ Len(notes) \in Nat /\ "unread" \in States
    BY <1>1 DEF CreateNotification, TypesInv, States
  <2> QED  BY <1>1, <1>2, <2>1, MaxNotesAssumption DEF TypesInv
<1>5. \A u \in Thunks : ThunkFine(thunk'[u])
  BY <1>1, <1>3 DEF TypesInv, ThunkFine
<1>6. TypesInv'
  BY <1>1, <1>2, <1>3, <1>4, <1>5 DEF TypesInv
<1>7. BadgeCoversItems'  BY <1>1, <1>2 DEF BadgeCoversItems
<1>8. Alone' /\ InStep'  BY <1>2, <1>3 DEF Alone, InStep
<1> QED  BY <1>6, <1>7, <1>8 DEF NoteInv, TypesInv, NoteTypeOK, States

LEMMA DispatchStep ==
  ASSUME NoteInv, NEW t \in Thunks, NEW kind \in Kinds, NEW id \in Ids \cup {0},
         Dispatch(t, kind, id)
  PROVE  NoteInv'
<1>1. TypesInv /\ BadgeCoversItems /\ InStep  BY InvParts
<1>2. /\ UNCHANGED <<notes, wanted, creating, items, badge, inStep, torn>>
      /\ loading' = (loading \/ kind = "fetch")
      /\ id # 0 <=> kind \in {"markRead", "delete"}
      /\ thunk[t].pc = "idle"
      /\ id # 0 => Held(id) # {}
  BY DEF Dispatch, server, Held
<1>3. /\ thunk' \in [Thunks -> Thunk]
      /\ thunk'[t].pc = "sent" /\ thunk'[t].kind = kind /\ thunk'[t].id = id
      /\ thunk'[t].items = <<>> /\ thunk'[t].count = -1
      /\ ~thunk'[t].listed /\ (thunk'[t].alone <=> Busy = {})
      /\ \A u \in Thunks \ {t} :
           /\ ~thunk'[u].alone
           /\ thunk'[u].pc = thunk[u].pc /\ thunk'[u].kind = thunk[u].kind
           /\ thunk'[u].id = thunk[u].id /\ thunk'[u].items = thunk[u].items
           /\ thunk'[u].listed = thunk[u].listed
           /\ thunk'[u].count = thunk[u].count
  BY <1>1, DispatchEffect
<1>4. \A u \in Thunks : ThunkFine(thunk'[u])
  <2>1. ThunkFine(thunk'[t])
    <3>1. Len(<<>>) = 0  OBVIOUS
    <3>2. thunk'[t] \in Thunk  BY <1>3
    <3> QED  BY <1>2, <1>3, <3>1, <3>2, MaxNotesAssumption DEF ThunkFine
  <2>2. \A u \in Thunks \ {t} : ThunkFine(thunk'[u])
    BY <1>1, <1>3 DEF TypesInv, ThunkFine
  <2> QED  BY <2>1, <2>2
<1>5. loading' \in BOOLEAN  BY <1>2
<1>6. TypesInv'
  BY <1>1, <1>2, <1>3, <1>4, <1>5 DEF TypesInv
<1>7. BadgeCoversItems'  BY <1>1, <1>2 DEF BadgeCoversItems
<1>8. InStep'
  <2>1. t \in Busy'  BY <1>3 DEF Busy
  <2> QED  BY <2>1 DEF InStep
<1>9. Alone'
  <2>1. SUFFICES ASSUME Busy = {}
                 PROVE  /\ thunk'[t].pc # "idle"
                        /\ \A u \in Thunks \ {t} : thunk'[u].pc = "idle"
                        /\ Foreseen(thunk[t])'
    BY <1>3 DEF Alone
  <2>2. \A u \in Thunks \ {t} : thunk'[u].pc = "idle"
    BY <1>3, <2>1 DEF Busy
  <2>3. notes' = notes /\ UnreadCount' = UnreadCount  BY <1>2, UnreadCountIs
  <2>4. inStep' => Shown(notes', items') /\ badge' = UnreadCount'
    BY <1>1, <1>2, <2>1, <2>3, InStepIs
  <2>5. kind \in {"markRead", "delete"} => Held(id)' # {}
    BY <1>2 DEF Held
  <2>6. PICK q : q = thunk'[t]  OBVIOUS
  <2>7. Foreseen(q)'  BY <1>3, <2>4, <2>5, <2>6 DEF Foreseen
  <2>8. Foreseen(thunk[t])'  BY <2>6, <2>7 DEF Foreseen
  <2> QED  BY <1>3, <2>2, <2>8
<1> QED  BY <1>6, <1>7, <1>8, <1>9 DEF NoteInv, TypesInv, NoteTypeOK, States

\* Whoever is alone while t is in flight is t.
LEMMA AloneIsBusy ==
  ASSUME NoteInv, NEW t \in Thunks, thunk[t].pc # "idle",
         NEW u \in Thunks, thunk[u].alone
  PROVE  u = t
BY InvParts DEF Alone

LEMMA ReadItemsStep ==
  ASSUME NoteInv, NEW t \in Thunks, NEW limit \in Limits, ReadItems(t, limit)
  PROVE  NoteInv'
<1>1. TypesInv /\ BadgeCoversItems /\ Alone  BY InvParts
<1>2. UNCHANGED <<notes, wanted, creating, items, badge, loading, inStep, torn>>
  BY DEF ReadItems, server, slice
<1>3. /\ thunk' \in [Thunks -> Thunk] /\ Others(t)
      /\ thunk'[t].items = Listed(limit) /\ thunk'[t].listed
      /\ thunk'[t].kind = "fetch" /\ thunk'[t].id = thunk[t].id
      /\ thunk'[t].count = thunk[t].count
      /\ thunk'[t].alone = thunk[t].alone
      /\ thunk'[t].pc = IF thunk[t].count = -1 THEN "sent" ELSE "fulfilled"
      /\ thunk[t].pc = "sent" /\ thunk[t].kind = "fetch"
  BY <1>1, ReadItemsEffect
<1>4. \A u \in Thunks : ThunkFine(thunk'[u])
  <2>1. thunk'[t] \in Thunk /\ ThunkFine(thunk[t])  BY <1>1, <1>3 DEF TypesInv
  <2>2. Len(Listed(limit)) <= MaxNotes  BY <1>1, ListedType
  <2>3. ThunkFine(thunk'[t])  BY <1>3, <2>1, <2>2 DEF ThunkFine
  <2> QED  BY <1>1, <1>3, <2>3 DEF TypesInv, Others
<1>5. TypesInv'
  BY <1>1, <1>2, <1>3, <1>4 DEF TypesInv
<1>6. BadgeCoversItems'  BY <1>1, <1>2 DEF BadgeCoversItems
<1>7. InStep'
  <2>1. t \in Busy'  BY <1>3 DEF Busy
  <2> QED  BY <2>1 DEF InStep
<1>8. Alone'
  <2>1. SUFFICES ASSUME NEW u \in Thunks, thunk'[u].alone
                 PROVE  /\ thunk'[u].pc # "idle"
                        /\ \A v \in Thunks \ {u} : thunk'[v].pc = "idle"
                        /\ Foreseen(thunk[u])'
    BY DEF Alone
  <2>2. thunk[u].alone  BY <1>3, <2>1 DEF Others
  <2>3. u = t  BY <1>3, <2>2, AloneIsBusy
  <2>4. \A v \in Thunks \ {t} : thunk'[v].pc = "idle"
    BY <1>1, <1>3, <2>2, <2>3 DEF Alone, Others
  <2>5. notes' = notes /\ UnreadCount' = UnreadCount  BY <1>2, UnreadCountIs
  <2>6. thunk[t].count # -1 => thunk[t].count = UnreadCount
    BY <1>1, <1>3, <2>2, <2>3 DEF Alone, Foreseen
  <2>7. Shown(notes, Listed(limit))  BY <1>1, ListedType
  <2>8. Foreseen(thunk[t])'  BY <1>3, <2>5, <2>6, <2>7 DEF Foreseen
  <2> QED  BY <1>3, <2>3, <2>4, <2>8
<1> QED  BY <1>5, <1>6, <1>7, <1>8 DEF NoteInv, TypesInv, NoteTypeOK, States

LEMMA ReadCountStep ==
  ASSUME NoteInv, NEW t \in Thunks, ReadCount(t)
  PROVE  NoteInv'
<1>1. TypesInv /\ BadgeCoversItems /\ Alone  BY InvParts
<1>2. UNCHANGED <<notes, wanted, creating, items, badge, loading, inStep, torn>>
  BY DEF ReadCount, server, slice
<1>3. /\ thunk' \in [Thunks -> Thunk] /\ Others(t)
      /\ thunk'[t].count = UnreadCount
      /\ thunk'[t].kind = "fetch" /\ thunk'[t].id = thunk[t].id
      /\ thunk'[t].items = thunk[t].items
      /\ thunk'[t].listed = thunk[t].listed
      /\ thunk'[t].alone = thunk[t].alone
      /\ thunk'[t].pc = IF thunk[t].listed THEN "fulfilled" ELSE "sent"
      /\ thunk[t].pc = "sent" /\ thunk[t].kind = "fetch"
  BY <1>1, ReadCountEffect
<1>4. \A u \in Thunks : ThunkFine(thunk'[u])
  <2>1. thunk'[t] \in Thunk /\ ThunkFine(thunk[t])  BY <1>1, <1>3 DEF TypesInv
  <2>2. UnreadCount \in Nat  BY <1>1, ListedType
  <2>3. ThunkFine(thunk'[t])  BY <1>3, <2>1, <2>2 DEF ThunkFine
  <2> QED  BY <1>1, <1>3, <2>3 DEF TypesInv, Others
<1>5. TypesInv'
  BY <1>1, <1>2, <1>3, <1>4 DEF TypesInv
<1>6. BadgeCoversItems'  BY <1>1, <1>2 DEF BadgeCoversItems
<1>7. InStep'
  <2>1. t \in Busy'  BY <1>3 DEF Busy
  <2> QED  BY <2>1 DEF InStep
<1>8. Alone'
  <2>1. SUFFICES ASSUME NEW u \in Thunks, thunk'[u].alone
                 PROVE  /\ thunk'[u].pc # "idle"
                        /\ \A v \in Thunks \ {u} : thunk'[v].pc = "idle"
                        /\ Foreseen(thunk[u])'
    BY DEF Alone
  <2>2. thunk[u].alone  BY <1>3, <2>1 DEF Others
  <2>3. u = t  BY <1>3, <2>2, AloneIsBusy
  <2>4. \A v \in Thunks \ {t} : thunk'[v].pc = "idle"
    BY <1>1, <1>3, <2>2, <2>3 DEF Alone, Others
  <2>5. notes' = notes /\ UnreadCount' = UnreadCount  BY <1>2, UnreadCountIs
  <2>6. thunk[t].listed => Shown(notes, thunk[t].items)
    BY <1>1, <1>3, <2>2, <2>3 DEF Alone, Foreseen
  <2>7. Foreseen(thunk[t])'  BY <1>3, <2>5, <2>6 DEF Foreseen
  <2> QED  BY <1>3, <2>3, <2>4, <2>7
<1> QED  BY <1>5, <1>6, <1>7, <1>8 DEF NoteInv, TypesInv, NoteTypeOK, States

LEMMA UpdateStep ==
  ASSUME NoteInv, NEW t \in Thunks, Update(t)
  PROVE  NoteInv'
<1>1. TypesInv /\ BadgeCoversItems /\ Alone  BY InvParts
<1>2. UNCHANGED <<wanted, creating, items, badge, loading, inStep, torn>>
  BY DEF Update, slice
<1>3. /\ thunk' \in [Thunks -> Thunk] /\ Others(t)
      /\ thunk'[t].kind = thunk[t].kind /\ thunk'[t].id = thunk[t].id
      /\ thunk'[t].items = thunk[t].items
      /\ thunk'[t].alone = thunk[t].alone
      /\ thunk[t].pc = "sent" /\ thunk[t].kind # "fetch"
      /\ \/ thunk'[t].pc = "rejected" /\ notes' = notes
         \/ /\ thunk'[t].pc = "fulfilled" /\ thunk[t].id \notin SocketIds
            /\ notes' = Updated(thunk[t].kind, thunk[t].id)
  BY <1>1, UpdateEffect
<1>4. thunk[t].kind \in Kinds \ {"fetch"}  BY <1>1, <1>3 DEF TypesInv, Thunk
<1>5. notes' \in Seq(States) /\ Len(notes') = Len(notes)
  BY <1>1, <1>3, <1>4, UpdatedType DEF TypesInv
<1>6. \A u \in Thunks : ThunkFine(thunk'[u])
  <2>1. thunk'[t] \in Thunk /\ ThunkFine(thunk[t])  BY <1>1, <1>3 DEF TypesInv
  <2>2. ThunkFine(thunk'[t])  BY <1>3, <2>1 DEF ThunkFine
  <2> QED  BY <1>1, <1>3, <2>2 DEF TypesInv, Others
<1>7. TypesInv'
  BY <1>1, <1>2, <1>3, <1>5, <1>6 DEF TypesInv
<1>8. BadgeCoversItems'  BY <1>1, <1>2 DEF BadgeCoversItems
<1>9. InStep'
  <2>1. t \in Busy'  BY <1>3 DEF Busy
  <2> QED  BY <2>1 DEF InStep
<1>10. Alone'
  <2>1. SUFFICES ASSUME NEW u \in Thunks, thunk'[u].alone
                 PROVE  /\ thunk'[u].pc # "idle"
                        /\ \A v \in Thunks \ {u} : thunk'[v].pc = "idle"
                        /\ Foreseen(thunk[u])'
    BY DEF Alone
  <2>2. thunk[u].alone  BY <1>3, <2>1 DEF Others
  <2>3. u = t  BY <1>3, <2>2, AloneIsBusy
  <2>4. \A v \in Thunks \ {t} : thunk'[v].pc = "idle"
    BY <1>1, <1>3, <2>2, <2>3 DEF Alone, Others
  <2>5. inStep =>
          /\ Shown(notes, items) /\ badge = UnreadCount
          /\ thunk[t].kind \in {"markRead", "delete"} => Held(thunk[t].id) # {}
    BY <1>1, <1>3, <2>2, <2>3 DEF Alone, Foreseen
  <2>6. CASE thunk'[t].pc = "rejected"
    <3>1. Foreseen(thunk[t])'  BY <1>3, <2>6 DEF Foreseen
    <3> QED  BY <1>3, <2>3, <2>4, <3>1
  <2>7. CASE thunk'[t].pc = "fulfilled"
    <3> DEFINE kind == thunk[t].kind
               id == thunk[t].id
    <3>1. notes' = Updated(kind, id)  BY <1>3, <2>7
    <3>2. inStep => /\ Shown(notes', ItemsAfter(kind, id))
                    /\ BadgeAfter(kind, id) = Cardinality(UnreadIn(notes'))
      BY <1>1, <1>4, <2>5, <3>1, UpdateForeseen
    <3>3. inStep => /\ Shown(notes', ItemsAfter(kind, id))
                    /\ BadgeAfter(kind, id) = UnreadCount'
      BY <3>2, UnreadCountIs
    <3>4. PICK k \in Kinds : k = thunk[t].kind /\ k = thunk'[t].kind
      BY <1>3, <1>4
    <3>5. PICK i : i = thunk[t].id /\ i = thunk'[t].id  BY <1>3
    <3>6. ItemsAfter(k, i)' = ItemsAfter(k, i) /\ BadgeAfter(k, i)' = BadgeAfter(k, i)
      BY <1>2 DEF ItemsAfter, BadgeAfter, UnreadHeld, Held
    <3>7. inStep' => Shown(notes', ItemsAfter(k, i)') /\ BadgeAfter(k, i)' = UnreadCount'
      BY <1>2, <3>3, <3>4, <3>5, <3>6
    <3>8. PICK q : q = thunk'[t]  OBVIOUS
    <3>9. Foreseen(q)'
      BY <1>3, <2>7, <3>4, <3>5, <3>7, <3>8 DEF Foreseen
    <3>10. Foreseen(thunk[t])'  BY <3>8, <3>9 DEF Foreseen
    <3> QED  BY <1>3, <2>3, <2>4, <3>10
  <2> QED  BY <1>3, <2>6, <2>7
<1> QED  BY <1>7, <1>8, <1>9, <1>10 DEF NoteInv, TypesInv, NoteTypeOK, States

LEMMA FulfilledStep ==
  ASSUME NoteInv, NEW t \in Thunks, Fulfilled(t)
  PROVE  NoteInv'
<1>1. TypesInv /\ BadgeCoversItems /\ Alone  BY InvParts
<1>2. /\ UNCHANGED <<notes, wanted, creating>>
      /\ thunk' = [thunk EXCEPT ![t] = Settled]
      /\ thunk[t].pc = "fulfilled"
  BY DEF Fulfilled, server
<1>3. /\ thunk' \in [Thunks -> Thunk] /\ Others(t) /\ thunk'[t] = Settled
  BY <1>1, <1>2, SettleEffect
<1>4. \A u \in Thunks : ThunkFine(thunk'[u])
  BY <1>1, <1>3, SettledFine DEF TypesInv, Others
<1>5. thunk[t] \in Thunk /\ ThunkFine(thunk[t])  BY <1>1 DEF TypesInv
<1>6. Alone'
  <2>1. SUFFICES ASSUME NEW u \in Thunks, thunk'[u].alone PROVE FALSE
    BY DEF Alone
  <2>2. u # t  BY <1>3, <2>1, SettledFine
  <2>3. thunk[u].alone  BY <1>3, <2>1, <2>2 DEF Others
  <2> QED  BY <1>2, <2>2, <2>3, AloneIsBusy
<1>7. thunk[t].alone => Foreseen(thunk[t])  BY <1>1 DEF Alone
<1>8. notes' = notes /\ UnreadCount' = UnreadCount  BY <1>2, UnreadCountIs
<1>9. CASE thunk[t].kind = "fetch"
  <2>1. /\ items' = thunk[t].items /\ badge' = thunk[t].count
        /\ loading' \in BOOLEAN
        /\ torn' = (thunk[t].count < UnreadItems(thunk[t].items))
        /\ inStep' = thunk[t].alone
    BY <1>9 DEF Fulfilled
  <2>2. /\ items' \in Seq(Item) /\ Len(items') <= MaxNotes /\ Len(items') \in Nat
        /\ badge' \in Nat /\ inStep' \in BOOLEAN
    BY <1>2, <1>5, <1>9, <2>1 DEF ThunkFine, Thunk
  <2>3. torn' \in BOOLEAN  BY <2>1
  <2>4. Len(items') <= MaxNotes + MaxItems
    BY <2>2, MaxNotesAssumption, MaxItemsAssumption
  <2>5. TypesInv'
    BY <1>1, <1>2, <1>3, <1>4, <2>1, <2>2, <2>3, <2>4 DEF TypesInv
  <2>6. BadgeCoversItems'
    <3>1. UnreadItems(items') \in Nat  BY <2>2, UnreadItemsType
    <3>2. torn' = (badge' < UnreadItems(items'))  BY <2>1
    <3>3. ~torn' => ~(badge' < UnreadItems(items'))  BY <3>2
    <3> DEFINE b == badge'
               u == UnreadItems(items')
    <3>4. b \in Nat /\ u \in Nat  BY <2>2, <3>1
    <3> HIDE DEF b, u
    <3>5. ~(b < u) => b >= u  BY <3>4
    <3>6. ~torn' => badge' >= UnreadItems(items')  BY <3>3, <3>5 DEF b, u
    <3> QED  BY <3>6 DEF BadgeCoversItems
  <2>7. InStep'
    <3>1. thunk[t].listed /\ thunk[t].count # -1
      BY <1>2, <1>5, <1>9 DEF ThunkFine
    <3>2. thunk[t].alone => Shown(notes, items') /\ badge' = UnreadCount
      BY <1>7, <1>9, <2>1, <3>1 DEF Foreseen
    <3> QED  BY <1>8, <2>1, <3>2, InStepIs
  <2> QED  BY <1>6, <2>5, <2>6, <2>7 DEF NoteInv, TypesInv, NoteTypeOK, States
<1>10. CASE thunk[t].kind # "fetch"
  <2> DEFINE kind == thunk[t].kind
             id == thunk[t].id
  <2>1. /\ ApplyUpdate(kind, id)
        /\ inStep' = (inStep /\ thunk[t].alone)
        /\ loading' = loading /\ torn' = torn
    BY <1>10 DEF Fulfilled
  <2>2. kind \in Kinds \ {"fetch"}  BY <1>5, <1>10 DEF Thunk
  <2>3. /\ items' = ItemsAfter(kind, id) /\ badge' = BadgeAfter(kind, id)
        /\ items' \in Seq(Item) /\ Len(items') <= Len(items)
        /\ badge' \in Nat
        /\ badge >= UnreadItems(items) => badge' >= UnreadItems(items')
    BY <1>1, <2>1, <2>2, ApplyEffect
  <2>4. Len(items') <= MaxNotes + MaxItems
    <3>1. Len(items') \in Nat /\ Len(items) \in Nat /\ Len(items) <= MaxNotes + MaxItems
      BY <1>1, <2>3 DEF TypesInv
    <3> QED  BY <2>3, <3>1, MaxNotesAssumption, MaxItemsAssumption
  <2>5. TypesInv'
    BY <1>1, <1>2, <1>3, <1>4, <2>1, <2>3, <2>4 DEF TypesInv
  <2>6. BadgeCoversItems'
    BY <1>1, <2>1, <2>3 DEF BadgeCoversItems
  <2>7. InStep'
    <3>1. thunk[t].alone /\ inStep =>
             Shown(notes, ItemsAfter(kind, id)) /\ BadgeAfter(kind, id) = UnreadCount
      BY <1>2, <1>7, <1>10 DEF Foreseen
    <3> QED  BY <1>8, <2>1, <2>3, <3>1, InStepIs
  <2> QED  BY <1>6, <2>5, <2>6, <2>7 DEF NoteInv, TypesInv, NoteTypeOK, States
<1> QED  BY <1>9, <1>10

LEMMA RejectedStep ==
  ASSUME NoteInv, NEW t \in Thunks, thunk[t].pc # "idle", Rejected(t)
  PROVE  NoteInv'
<1>1. TypesInv /\ BadgeCoversItems /\ Alone  BY InvParts
<1>2. /\ UNCHANGED <<notes, wanted, creating, items, badge, torn>>
      /\ thunk' = [thunk EXCEPT ![t] = Settled]
      /\ loading' \in BOOLEAN /\ ~inStep' /\ inStep' \in BOOLEAN
  BY DEF Rejected, server
<1>3. /\ thunk' \in [Thunks -> Thunk] /\ Others(t) /\ thunk'[t] = Settled
  BY <1>1, <1>2, SettleEffect
<1>4. \A u \in Thunks : ThunkFine(thunk'[u])
  BY <1>1, <1>3, SettledFine DEF TypesInv, Others
<1>5. TypesInv'
  BY <1>1, <1>2, <1>3, <1>4 DEF TypesInv
<1>6. Alone'
  <2>1. SUFFICES ASSUME NEW u \in Thunks, thunk'[u].alone PROVE FALSE
    BY DEF Alone
  <2>2. u # t  BY <1>3, <2>1, SettledFine
  <2>3. thunk[u].alone  BY <1>3, <2>1, <2>2 DEF Others
  <2> QED  BY <2>2, <2>3, AloneIsBusy
<1>7. BadgeCoversItems' /\ InStep'
  BY <1>1, <1>2 DEF BadgeCoversItems, InStep
<1> QED  BY <1>5, <1>6, <1>7 DEF NoteInv, TypesInv, NoteTypeOK, States

LEMMA ReceiveStep ==
  ASSUME NoteInv, NEW id \in SocketIds, Receive(id)
  PROVE  NoteInv'
<1>1. TypesInv /\ BadgeCoversItems /\ Alone  BY InvParts
<1>2. /\ UNCHANGED <<notes, wanted, creating, thunk, loading, torn>>
      /\ badge' = badge + 1 /\ ~inStep' /\ inStep' \in BOOLEAN
  BY DEF Receive, server
<1>3. /\ items' \in Seq(Item) /\ Len(items') <= MaxItems
      /\ UnreadItems(items') <= UnreadItems(items) + 1
  BY <1>1, ReceiveEffect
<1>4. Len(items') <= MaxNotes + MaxItems
  <2>1. Len(items') \in Nat  BY <1>3
  <2> QED  BY <1>3, <2>1, MaxNotesAssumption, MaxItemsAssumption
<1>5. badge \in Nat /\ badge' \in Nat  BY <1>1, <1>2 DEF TypesInv
<1>6. TypesInv'
  BY <1>1, <1>2, <1>3, <1>4, <1>5 DEF TypesInv
<1>7. BadgeCoversItems'
  <2>1. UnreadItems(items) \in Nat /\ UnreadItems(items') \in Nat
    BY <1>1, <1>3, UnreadItemsType DEF TypesInv
  <2>2. ~torn => badge >= UnreadItems(items)  BY <1>1 DEF BadgeCoversItems
  <2>3. ~torn => badge' >= UnreadItems(items')
    BY <1>2, <1>3, <1>5, <2>1, <2>2
  <2> QED  BY <1>2, <2>3 DEF BadgeCoversItems
<1>8. Alone'
  <2>1. notes' = notes /\ UnreadCount' = UnreadCount  BY <1>2, UnreadCountIs
  <2>2. \A q : Foreseen(q) => Foreseen(q)'
    BY <1>2, <2>1 DEF Foreseen
  <2> QED  BY <1>1, <1>2, <2>2 DEF Alone
<1>9. InStep'  BY <1>2 DEF InStep
<1> QED  BY <1>6, <1>7, <1>8, <1>9 DEF NoteInv, TypesInv, NoteTypeOK, States

LEMMA NoteStep == NoteInv /\ [NoteNext]_noteVars => NoteInv'
<1> SUFFICES ASSUME NoteInv, [NoteNext]_noteVars PROVE NoteInv'
  OBVIOUS
<1>1. CASE ReadPreferences \/ \E value \in BOOLEAN : UpdatePreferences(value)
  BY <1>1, PreferencesStep
<1>2. CASE CreateNotification  BY <1>2, CreateStep
<1>3. CASE \E t \in Thunks, kind \in Kinds, id \in Ids \cup {0} : Dispatch(t, kind, id)
  BY <1>3, DispatchStep
<1>4. ASSUME NEW t \in Thunks, ThunkStep(t) \/ NetworkError(t) PROVE NoteInv'
  BY <1>4, ReadItemsStep, ReadCountStep, UpdateStep, FulfilledStep, RejectedStep
     DEF ThunkStep, NetworkError
<1>5. CASE \E id \in SocketIds : Receive(id)  BY <1>5, ReceiveStep
<1>6. CASE UNCHANGED noteVars
  <2>1. UNCHANGED <<notes, wanted, creating, thunk, items, badge, loading, inStep, torn>>
    BY <1>6 DEF noteVars, server, slice
  <2>2. TypesInv' /\ BadgeCoversItems'
    BY <2>1, InvParts DEF TypesInv, BadgeCoversItems
  <2>3. notes' = notes /\ UnreadCount' = UnreadCount  BY <2>1, UnreadCountIs
  <2>4. InStep'  BY <2>1, <2>3, InvParts, InStepIs DEF Busy
  <2>5. \A k, i : /\ ItemsAfter(k, i)' = ItemsAfter(k, i)
                  /\ BadgeAfter(k, i)' = BadgeAfter(k, i)
                  /\ Held(i)' = Held(i)
    BY <2>1 DEF ItemsAfter, BadgeAfter, UnreadHeld, Held
  <2>6. \A q : Foreseen(q)' <=> Foreseen(q)
    BY <2>1, <2>3, <2>5 DEF Foreseen
  <2>7. Alone'  BY <2>1, <2>6, InvParts DEF Alone
  <2> QED  BY <2>2, <2>4, <2>7 DEF NoteInv, TypesInv, NoteTypeOK, States
<1> QED  BY <1>1, <1>2, <1>3, <1>4, <1>5, <1>6 DEF NoteNext

LEMMA NoteStart == NoteInit => NoteInv
<1> SUFFICES ASSUME NoteInit PROVE NoteInv  OBVIOUS
<1>1. /\ notes = <<>> /\ wanted = TRUE /\ creating = FALSE
      /\ thunk = [t \in Thunks |-> Settled]
      /\ items = <<>> /\ badge = 0 /\ loading = FALSE
      /\ inStep = TRUE /\ torn = FALSE
  BY DEF NoteInit
<1>2. <<>> \in Seq(States) /\ <<>> \in Seq(Item) /\ Len(<<>>) = 0 /\ DOMAIN <<>> = {}
  OBVIOUS
<1>3. TypesInv
  <2>1. /\ wanted \in BOOLEAN /\ creating \in BOOLEAN /\ ~creating
        /\ loading \in BOOLEAN /\ inStep \in BOOLEAN /\ torn \in BOOLEAN
    BY <1>1
  <2>2. /\ thunk \in [Thunks -> Thunk]
        /\ \A t \in Thunks : ThunkFine(thunk[t])
    BY <1>1, SettledFine
  <2>3. /\ notes \in Seq(States) /\ Len(notes) = 0
        /\ items \in Seq(Item) /\ Len(items) = 0 /\ badge \in Nat
    BY <1>1, <1>2
  <2>4. Len(notes) <= MaxNotes /\ Len(items) <= MaxNotes + MaxItems
    BY <2>3, MaxNotesAssumption, MaxItemsAssumption
  <2> QED  BY <2>1, <2>2, <2>3, <2>4 DEF TypesInv
<1>4. UnreadItems(items) = 0
  <2>1. {n \in DOMAIN items : ~items[n].read} = {}  BY <1>1, <1>2
  <2> QED  BY <2>1, FS_EmptySet DEF UnreadItems
<1>5. BadgeCoversItems  BY <1>1, <1>4 DEF BadgeCoversItems
<1>6. Alone  BY <1>1, SettledFine DEF Alone
<1>7. InStep
  <2>1. Len(notes) <= MaxNotes /\ notes \in Seq(States) /\ Len(notes) = 0
    BY <1>3, <1>1, <1>2 DEF TypesInv
  <2>2. UnreadIn(notes) = {}  BY <1>1, <1>2 DEF UnreadIn
  <2>3. UnreadCount = 0  BY <2>2, UnreadCountIs, FS_EmptySet
  <2>4. Shown(notes, <<>>)  BY <2>1, NothingShown
  <2> QED  BY <1>1, <2>3, <2>4, InStepIs
<1> QED  BY <1>3, <1>5, <1>6, <1>7 DEF NoteInv, TypesInv, NoteTypeOK, States

LEMMA NoteInvariant == NoteSpec => []NoteInv
BY NoteStart, NoteStep, PTL DEF NoteSpec

-----------------------------------------------------------------------------
\* Documents, thunks and slice have their types, and the list never grows
\* beyond what was fetched and what the slice holds of events
\* (notificationsSlice.js:14, 17-25).
THEOREM NotesTypeCorrect == NoteSpec => []NoteTypeOK
<1>1. NoteInv => NoteTypeOK  BY DEF NoteInv
<1> QED  BY <1>1, NoteInvariant, PTL

\* In whatever order answers and socket events arrive, the badge is never below
\* what the list shows as unread, unless the list and its count were read on
\* two sides of a change (notificationService.js:44-48,
\* notificationsSlice.js:14, 22-25).
THEOREM BadgeIsNeverShort == NoteSpec => []BadgeCoversItems
<1>1. NoteInv => BadgeCoversItems  BY DEF NoteInv
<1> QED  BY <1>1, NoteInvariant, PTL

\* For any number of documents and of thunks, and whatever number of items a list
\* asks for: while nobody interferes, what the reducers do to list and badge is
\* what the updates did to the documents; the list shows the newest of them, as
\* many as were fetched and not deleted since, and the badge counts all
\* (notificationService.js:45-47, 52-55, notificationsSlice.js:22-25).
THEOREM OneAfterTheOther == NoteSpec => []InStep
<1>1. NoteInv => InStep  BY DEF NoteInv
<1> QED  BY <1>1, NoteInvariant, PTL
=============================================================================
