---------------------------- MODULE HtCacheProof ----------------------------
(* Proofs about HtCache, for every capacity, set of keys and hash          *)
(* function: the linked list is the order of use, every slot is occupied   *)
(* or free, and what a client sees is the list of CacheList.               *)
EXTENDS HtCache, TLAPS

USE CacheConstants

\* Leaving out the i-th element of the order of use.
LEMMA DropIs ==
    ASSUME NEW o \in Seq(Slots), NEW i \in 1 .. Len(o)
    PROVE  /\ Drop(o, i) \in Seq(Slots)
           /\ Len(Drop(o, i)) = Len(o) - 1
           /\ \A j \in 1 .. Len(o) - 1 : Drop(o, i)[j] = IF j < i THEN o[j] ELSE o[j + 1]
BY DEF Drop

\* Putting a slot in front of the order of use.
LEMMA ConsIs ==
    ASSUME NEW o \in Seq(Slots), NEW s \in Slots
    PROVE  /\ <<s>> \o o \in Seq(Slots)
           /\ Len(<<s>> \o o) = Len(o) + 1
           /\ (<<s>> \o o)[1] = s
           /\ \A j \in 1 .. Len(o) : (<<s>> \o o)[j + 1] = o[j]
OBVIOUS

\* At finds a slot that is on the list.
LEMMA AtIs ==
    ASSUME NEW o \in Seq(Slots), NEW s, \E i \in 1 .. Len(o) : o[i] = s
    PROVE  At(o, s) \in 1 .. Len(o) /\ o[At(o, s)] = s
BY DEF At

\* Relinking keeps prev, next, head and tail valid links.
LEMMA ListTypes ==
    ASSUME NEW l \in List, NEW s \in Slots
    PROVE  LruAddHead(l, s) \in List /\ LruRemove(l, s) \in List /\ LruPromote(l, s) \in List
<1>1. \A m \in List : LruAddHead(m, s) \in List
  BY DEF LruAddHead, List, Links
<1>2. LruRemove(l, s) \in List
  BY DEF LruRemove, List, Links
<1>q. QED
  BY <1>1, <1>2 DEF LruPromote

\* lru_add_head of a slot that is not on the list puts it in front.
LEMMA AddHeadRepresents ==
    ASSUME NEW l \in List, NEW o \in Seq(Slots), Represents(l, o),
           NEW s \in Slots, \A i \in 1 .. Len(o) : o[i] # s
    PROVE  Represents(LruAddHead(l, s), <<s>> \o o)
<1> DEFINE p == <<s>> \o o
<1> DEFINE m == LruAddHead(l, s)
<1>1. p \in Seq(Slots) /\ Len(p) = Len(o) + 1 /\ p[1] = s
      /\ \A j \in 1 .. Len(o) : p[j + 1] = o[j]
  BY ConsIs
<1>2. \A i \in 2 .. Len(p) : i - 1 \in 1 .. Len(o) /\ p[i] = o[i - 1] /\ p[i] # s
  <2> TAKE i \in 2 .. Len(p)
  <2>1. i - 1 \in 1 .. Len(o)
    BY <1>1
  <2>q. QED
    BY <1>1, <2>1
<1> HIDE DEF p
<1>3. \A i, j \in 1 .. Len(p) : p[i] = p[j] => i = j
  <2> SUFFICES ASSUME NEW i \in 1 .. Len(p), NEW j \in 1 .. Len(p), p[i] = p[j] PROVE i = j
    OBVIOUS
  <2>1. CASE i = 1 \/ j = 1
    <3>1. \A k \in 1 .. Len(p) : k # 1 => k \in 2 .. Len(p)
      BY <1>1
    <3>2. \A k \in 1 .. Len(p) : k # 1 => p[k] # s
      BY <1>2, <3>1
    <3>q. QED
      BY <1>1, <2>1, <3>2, Zenon
  <2>2. CASE i # 1 /\ j # 1
    <3>1. /\ i - 1 \in 1 .. Len(o) /\ p[i] = o[i - 1]
          /\ j - 1 \in 1 .. Len(o) /\ p[j] = o[j - 1]
      BY <1>1, <1>2, <2>2
    <3>2. \A a, c \in 1 .. Len(o) : o[a] = o[c] => a = c
      BY Zenon DEF Represents
    <3>3. o[i - 1] = o[j - 1]
      BY <3>1, Zenon
    <3>4. i - 1 = j - 1
      BY <3>1, <3>2, <3>3, Zenon
    <3>q. QED
      BY <1>1, <3>4
  <2>q. QED
    BY <2>1, <2>2
<1>4. m.head = s /\ p # <<>>
  BY <1>1 DEF LruAddHead
<1>5. m.tail = p[Len(p)]
  <2>1. CASE o = <<>>
    BY <1>1, <2>1 DEF LruAddHead, Represents
  <2>2. CASE o # <<>>
    <3>1. Len(o) \in 1 .. Len(o) /\ o[Len(o)] \in Slots
      BY <2>2
    <3>2. l.tail = o[Len(o)]
      BY <2>2 DEF Represents
    <3>3. m.tail = l.tail
      BY <3>1, <3>2 DEF LruAddHead
    <3>q. QED
      BY <1>1, <3>1, <3>2, <3>3
  <2>q. QED
    BY <2>1, <2>2
<1>6. \A i \in 1 .. Len(p) :
         /\ m.next[p[i]] = (IF i = Len(p) THEN NONE ELSE p[i + 1])
         /\ m.prev[p[i]] = (IF i = 1 THEN NONE ELSE p[i - 1])
  <2> TAKE i \in 1 .. Len(p)
  <2>1. CASE i = 1
    BY <1>1, <1>2, <2>1 DEF LruAddHead, Represents, List
  <2>2. CASE i # 1
    <3>1. i - 1 \in 1 .. Len(o) /\ p[i] = o[i - 1] /\ p[i] # s /\ p[i] \in Slots
      BY <1>1, <1>2, <2>2
    <3>2. m.next[p[i]] = l.next[o[i - 1]]
      BY <3>1 DEF LruAddHead, List
    <3>3. m.next[p[i]] = (IF i = Len(p) THEN NONE ELSE p[i + 1])
      BY <1>1, <1>2, <3>1, <3>2 DEF Represents
    <3>4. m.prev[p[i]] = IF p[i] = l.head THEN s ELSE l.prev[p[i]]
      BY <3>1 DEF LruAddHead
    <3>5. o # <<>> /\ l.head = o[1]
      BY <3>1 DEF Represents
    <3>6. CASE i = 2
      <4>1. m.prev[p[i]] = p[i - 1]
        BY <1>1, <3>1, <3>4, <3>5, <3>6
      <4>q. QED
        BY <2>2, <3>3, <4>1
    <3>7. CASE i # 2
      <4>0. i - 1 # 1 /\ 1 \in 1 .. Len(o) /\ (i - 1) - 1 = i - 2
        BY <3>1, <3>7
      <4>1. o[i - 1] # o[1]
        BY <3>1, <4>0 DEF Represents
      <4>2. l.prev[o[i - 1]] = o[(i - 1) - 1]
        BY <3>1, <4>0, Zenon DEF Represents
      <4>3. p[i - 1] = o[i - 2]
        BY <1>2, <2>2, <3>1, <3>7
      <4>4. m.prev[p[i]] = p[i - 1]
        BY <3>1, <3>4, <3>5, <4>0, <4>1, <4>2, <4>3
      <4>q. QED
        BY <2>2, <3>3, <4>4
    <3>q. QED
      BY <3>6, <3>7
  <2>q. QED
    BY <2>1, <2>2
<1>7. \A r \in Slots : (\A i \in 1 .. Len(p) : p[i] # r) => m.next[r] = NONE /\ m.prev[r] = NONE
  <2> SUFFICES ASSUME NEW r \in Slots, \A i \in 1 .. Len(p) : p[i] # r
               PROVE  m.next[r] = NONE /\ m.prev[r] = NONE
    OBVIOUS
  <2>1. r # s /\ \A i \in 1 .. Len(o) : o[i] # r
    BY <1>1
  <2>2. r # l.head
    BY <2>1 DEF Represents
  <2>q. QED
    BY <2>1, <2>2 DEF LruAddHead, Represents, List
<1>q. QED
  BY <1>1, <1>3, <1>4, <1>5, <1>6, <1>7, Zenon DEF Represents, p

\* lru_remove of the i-th slot of the list closes the gap.
LEMMA RemoveRepresents ==
    ASSUME NEW l \in List, NEW o \in Seq(Slots), Represents(l, o), NEW i \in 1 .. Len(o)
    PROVE  Represents(LruRemove(l, o[i]), Drop(o, i))
<1> DEFINE n == Len(o)
           s == o[i]
           q == Drop(o, i)
           m == LruRemove(l, s)
<1>1. q \in Seq(Slots) /\ Len(q) = n - 1 /\ n \in Nat /\ n > 0
      /\ \A j \in 1 .. n - 1 : q[j] = IF j < i THEN o[j] ELSE o[j + 1]
  BY DropIs
<1>2. \A j \in 1 .. n : o[j] \in Slots /\ o[j] # NONE
  OBVIOUS
<1>3. \A j, k \in 1 .. n : o[j] = o[k] => j = k
  BY DEF Represents
<1>4. l.prev[s] = (IF i = 1 THEN NONE ELSE o[i - 1]) /\ l.next[s] = (IF i = n THEN NONE ELSE o[i + 1])
  BY DEF Represents
<1>5. \A j \in 1 .. n : /\ l.next[o[j]] = (IF j = n THEN NONE ELSE o[j + 1])
                        /\ l.prev[o[j]] = (IF j = 1 THEN NONE ELSE o[j - 1])
  BY DEF Represents
<1>6. l.head = o[1] /\ l.tail = o[n]
  BY <1>1 DEF Represents
<1>7. /\ \A r \in Slots : m.next[r] = IF r = s THEN NONE
                                       ELSE IF r = l.prev[s] THEN l.next[s] ELSE l.next[r]
      /\ \A r \in Slots : m.prev[r] = IF r = s THEN NONE
                                       ELSE IF r = l.next[s] THEN l.prev[s] ELSE l.prev[r]
      /\ m.head = IF l.prev[s] = NONE THEN l.next[s] ELSE l.head
      /\ m.tail = IF l.next[s] = NONE THEN l.prev[s] ELSE l.tail
  BY DEF LruRemove
<1>8. \A r \in Slots : (\A j \in 1 .. n : o[j] # r) => l.next[r] = NONE /\ l.prev[r] = NONE
  BY DEF Represents
<1> HIDE DEF q, m, s
<1>9. s \in Slots /\ s = o[i] /\ i \in 1 .. n
  BY DEF s
<1>10. \A j, k \in 1 .. Len(q) : q[j] = q[k] => j = k
  <2> SUFFICES ASSUME NEW j \in 1 .. Len(q), NEW k \in 1 .. Len(q), q[j] = q[k] PROVE j = k
    OBVIOUS
  <2>1. /\ (IF j < i THEN j ELSE j + 1) \in 1 .. n
        /\ (IF k < i THEN k ELSE k + 1) \in 1 .. n
        /\ q[j] = o[IF j < i THEN j ELSE j + 1]
        /\ q[k] = o[IF k < i THEN k ELSE k + 1]
    BY <1>1
  <2>2. (IF j < i THEN j ELSE j + 1) = (IF k < i THEN k ELSE k + 1)
    BY <2>1, <1>3, Zenon
  <2>q. QED
    BY <2>2, <1>1
<1>11. m.head = IF q = <<>> THEN NONE ELSE q[1]
  <2>1. CASE i = 1 /\ n = 1
    BY <1>1, <1>4, <1>7, <2>1
  <2>2. CASE i = 1 /\ n # 1
    BY <1>1, <1>2, <1>4, <1>7, <1>9, <2>2
  <2>3. CASE i # 1
    <3>1. i - 1 \in 1 .. n /\ l.prev[s] # NONE
      BY <1>2, <1>4, <1>9, <2>3
    <3>q. QED
      BY <1>1, <1>6, <1>7, <1>9, <2>3, <3>1
  <2>q. QED
    BY <2>1, <2>2, <2>3
<1>12. m.tail = IF q = <<>> THEN NONE ELSE q[Len(q)]
  <2>1. CASE i = n /\ n = 1
    BY <1>1, <1>4, <1>7, <2>1
  <2>2. CASE i = n /\ n # 1
    BY <1>1, <1>2, <1>4, <1>7, <1>9, <2>2
  <2>3. CASE i # n
    <3>1. i + 1 \in 1 .. n /\ l.next[s] # NONE
      BY <1>1, <1>2, <1>4, <1>9, <2>3
    <3>2. Len(q) \in 1 .. n - 1 /\ ~ (Len(q) < i) /\ Len(q) + 1 = n /\ q # <<>>
      BY <1>1, <1>9, <3>1
    <3>q. QED
      BY <1>1, <1>6, <1>7, <3>1, <3>2
  <2>q. QED
    BY <2>1, <2>2, <2>3
<1>13. ASSUME NEW j \in 1 .. Len(q) PROVE m.next[q[j]] = (IF j = Len(q) THEN NONE ELSE q[j + 1])
  <2>1. CASE j < i - 1
    <3>0. j \in 1 .. n - 1 /\ j + 1 \in 1 .. n - 1 /\ i - 1 \in 1 .. n /\ j # n /\ j # i - 1 /\ j # i
      BY <1>1, <1>9, <2>1
    <3>1. /\ j \in 1 .. n /\ j + 1 \in 1 .. n - 1 /\ i - 1 \in 1 .. n /\ j # n /\ j # i - 1 /\ j # i
          /\ q[j] = o[j] /\ q[j + 1] = o[j + 1] /\ j # Len(q) /\ i # 1
      BY <1>1, <1>9, <2>1, <3>0
    <3>2. o[j] # s /\ l.prev[s] = o[i - 1] /\ o[j] # o[i - 1]
      BY <1>3, <1>4, <1>9, <3>1
    <3>3. m.next[o[j]] = l.next[o[j]]
      BY <1>2, <1>7, <3>1, <3>2, Zenon
    <3>q. QED
      BY <1>5, <3>1, <3>3, Zenon
  <2>2. CASE j = i - 1
    <3>1. j \in 1 .. n /\ i # 1 /\ q[j] = o[j] /\ j # i
      BY <1>1, <1>9, <2>2
    <3>2. o[j] # s /\ l.prev[s] = o[j]
      BY <1>3, <1>4, <1>9, <2>2, <3>1
    <3>3. m.next[q[j]] = l.next[s]
      BY <1>2, <1>7, <3>1, <3>2
    <3>4. CASE i = n
      BY <1>1, <1>4, <2>2, <3>3, <3>4
    <3>5. CASE i # n
      <4>1. j + 1 \in 1 .. n - 1 /\ q[j + 1] = o[i + 1] /\ j # Len(q)
        BY <1>1, <1>9, <2>2, <3>5
      <4>q. QED
        BY <1>4, <3>3, <3>5, <4>1
    <3>q. QED
      BY <3>4, <3>5
  <2>3. CASE j >= i
    <3>1. j + 1 \in 1 .. n /\ q[j] = o[j + 1] /\ j + 1 # i
      BY <1>1, <1>9, <2>3
    <3>2. o[j + 1] # s /\ o[j + 1] # l.prev[s]
      <4>1. o[j + 1] # s
        BY <1>3, <1>9, <3>1
      <4>2. CASE i = 1
        BY <1>2, <1>4, <3>1, <4>1, <4>2
      <4>3. CASE i # 1
        <5>1. i - 1 \in 1 .. n /\ i - 1 # j + 1
          BY <1>9, <2>3, <4>3
        <5>q. QED
          BY <1>3, <1>4, <3>1, <4>1, <4>3, <5>1
      <4>q. QED
        BY <4>2, <4>3
    <3>3. m.next[q[j]] = l.next[o[j + 1]]
      BY <1>2, <1>7, <3>1, <3>2
    <3>4. CASE j = Len(q)
      BY <1>1, <1>5, <3>1, <3>3, <3>4
    <3>5. CASE j # Len(q)
      <4>1. j + 1 \in 1 .. n - 1 /\ q[j + 1] = o[j + 2] /\ j + 1 # n
        BY <1>1, <1>9, <2>3, <3>5
      <4>q. QED
        BY <1>5, <3>1, <3>3, <3>5, <4>1
    <3>q. QED
      BY <3>4, <3>5
  <2>q. QED
    BY <1>1, <1>9, <2>1, <2>2, <2>3
<1>14. ASSUME NEW j \in 1 .. Len(q) PROVE m.prev[q[j]] = (IF j = 1 THEN NONE ELSE q[j - 1])
  <2>1. CASE j < i
    <3>1. j \in 1 .. n /\ q[j] = o[j] /\ j # i
      BY <1>1, <1>9, <2>1
    <3>2. o[j] # s /\ o[j] # l.next[s]
      <4>1. o[j] # s
        BY <1>3, <1>9, <3>1
      <4>2. CASE i = n
        BY <1>2, <1>4, <3>1, <4>1, <4>2
      <4>3. CASE i # n
        <5>0. n \in Nat /\ i \in 1 .. n /\ j \in 1 .. n
          BY <1>1, <1>9, <3>1
        <5>1. i + 1 \in 1 .. n /\ i + 1 # j
          BY <2>1, <4>3, <5>0
        <5>q. QED
          BY <1>3, <1>4, <3>1, <4>1, <4>3, <5>1
      <4>q. QED
        BY <4>2, <4>3
    <3>3. m.prev[q[j]] = l.prev[o[j]]
      BY <1>2, <1>7, <3>1, <3>2
    <3>4. CASE j = 1
      BY <1>5, <3>1, <3>3, <3>4
    <3>5. CASE j # 1
      <4>1. j - 1 \in 1 .. n - 1 /\ q[j - 1] = o[j - 1]
        BY <1>1, <1>9, <2>1, <3>5
      <4>q. QED
        BY <1>5, <3>1, <3>3, <3>5, <4>1
    <3>q. QED
      BY <3>4, <3>5
  <2>2. CASE j = i
    <3>1. i + 1 \in 1 .. n /\ q[j] = o[i + 1] /\ i # n
      BY <1>1, <1>9, <2>2
    <3>2. o[i + 1] # s /\ l.next[s] = o[i + 1]
      BY <1>3, <1>4, <1>9, <3>1
    <3>3. m.prev[q[j]] = l.prev[s]
      BY <1>2, <1>7, <3>1, <3>2
    <3>4. CASE i = 1
      BY <1>4, <2>2, <3>3, <3>4
    <3>5. CASE i # 1
      <4>1. j - 1 \in 1 .. n - 1 /\ q[j - 1] = o[i - 1]
        BY <1>1, <1>9, <2>2, <3>5
      <4>q. QED
        BY <1>4, <2>2, <3>3, <3>5, <4>1
    <3>q. QED
      BY <3>4, <3>5
  <2>3. CASE j > i
    <3>1. /\ j + 1 \in 1 .. n /\ q[j] = o[j + 1] /\ j + 1 # i /\ i # n /\ i + 1 \in 1 .. n
          /\ j # 1 /\ j - 1 \in 1 .. n - 1 /\ q[j - 1] = o[j] /\ i + 1 # j + 1
      BY <1>1, <1>9, <2>3
    <3>2. o[j + 1] # s /\ o[j + 1] # l.next[s]
      BY <1>3, <1>4, <1>9, <3>1
    <3>3. m.prev[q[j]] = l.prev[o[j + 1]]
      BY <1>2, <1>7, <3>1, <3>2
    <3>4. l.prev[o[j + 1]] = o[j]
      BY <1>5, <3>1
    <3>q. QED
      BY <3>1, <3>3, <3>4
  <2>q. QED
    BY <1>1, <1>9, <2>1, <2>2, <2>3
<1>15. ASSUME NEW r \in Slots, \A j \in 1 .. Len(q) : q[j] # r
       PROVE  m.next[r] = NONE /\ m.prev[r] = NONE
  <2>1. CASE r = s
    BY <1>7, <2>1
  <2>2. CASE r # s
    <3>1. \A j \in 1 .. n : o[j] # r
      <4> SUFFICES ASSUME NEW j \in 1 .. n, o[j] = r PROVE FALSE
        OBVIOUS
      <4>1. CASE j < i
        BY <1>1, <1>9, <1>15, <4>1
      <4>2. CASE j = i
        BY <1>9, <2>2, <4>2
      <4>3. CASE j > i
        <5>1. j - 1 \in 1 .. Len(q) /\ q[j - 1] = o[j]
          BY <1>1, <1>9, <4>3
        <5>q. QED
          BY <1>15, <5>1
      <4>q. QED
        BY <1>1, <1>9, <4>1, <4>2, <4>3
    <3>2. r # l.prev[s] /\ r # l.next[s]
      <4>1. r # NONE
        OBVIOUS
      <4>2. i # 1 => i - 1 \in 1 .. n
        BY <1>9
      <4>3. i # n => i + 1 \in 1 .. n
        BY <1>1, <1>9
      <4>q. QED
        BY <1>4, <3>1, <4>1, <4>2, <4>3
    <3>q. QED
      BY <1>7, <1>8, <2>2, <3>1, <3>2
  <2>q. QED
    BY <2>1, <2>2
<1>q. QED
  BY <1>10, <1>11, <1>12, <1>13, <1>14, <1>15 DEF Represents, q, m, s
-----------------------------------------------------------------------------
(* The same by slot instead of by position.                                *)

On(o, s) == \E i \in 1 .. Len(o) : o[i] = s
Distinct(o) == \A i, j \in 1 .. Len(o) : o[i] = o[j] => i = j

\* The slots of a list with one more in front.
LEMMA ConsOn ==
    ASSUME NEW p \in Seq(Slots), NEW o \in Seq(Slots), NEW s, NEW r,
           Len(p) = Len(o) + 1, p[1] = s, \A j \in 1 .. Len(o) : p[j + 1] = o[j]
    PROVE  On(p, r) <=> r = s \/ On(o, r)
<1>1. ASSUME On(p, r), r # s PROVE On(o, r)
  <2>1. PICK j \in 1 .. Len(p) : p[j] = r
    BY <1>1 DEF On
  <2>2. j - 1 \in 1 .. Len(o) /\ (j - 1) + 1 = j
    BY <1>1, <2>1
  <2>3. o[j - 1] = r
    BY <2>1, <2>2
  <2>q. QED
    BY <2>2, <2>3 DEF On
<1>2. ASSUME On(o, r) PROVE On(p, r)
  <2>1. PICK j \in 1 .. Len(o) : o[j] = r
    BY <1>2 DEF On
  <2>2. j + 1 \in 1 .. Len(p) /\ p[j + 1] = r
    BY <2>1
  <2>q. QED
    BY <2>2 DEF On
<1>3. 1 \in 1 .. Len(p)
  OBVIOUS
<1>q. QED
  BY <1>1, <1>2, <1>3 DEF On

\* The slots of a list one of them was removed from.
LEMMA WithoutIs ==
    ASSUME NEW o \in Seq(Slots), Distinct(o), NEW s \in Slots, On(o, s)
    PROVE  /\ Without(o, s) \in Seq(Slots)
           /\ Len(Without(o, s)) = Len(o) - 1
           /\ Len(o) > 0
           /\ \A r : On(Without(o, s), r) <=> On(o, r) /\ r # s
<1> DEFINE i == At(o, s)
           q == Without(o, s)
<1>1. i \in 1 .. Len(o) /\ o[i] = s
  BY AtIs DEF On
<1> HIDE DEF i
<1>2. /\ q \in Seq(Slots) /\ Len(q) = Len(o) - 1
      /\ \A j \in 1 .. Len(o) - 1 : q[j] = IF j < i THEN o[j] ELSE o[j + 1]
  BY <1>1, DropIs, Zenon DEF Without, i
<1> HIDE DEF q
<1>3. Len(o) \in Nat /\ Len(o) > 0
  BY <1>1
<1>4. ASSUME NEW r, On(q, r) PROVE On(o, r) /\ r # s
  <2>1. PICK j \in 1 .. Len(q) : q[j] = r
    BY <1>4 DEF On
  <2>2. CASE j < i
    <3>1. j \in 1 .. Len(o) /\ o[j] = r /\ j # i
      BY <1>1, <1>2, <1>3, <2>1, <2>2
    <3>q. QED
      BY <1>1, <3>1 DEF On, Distinct
  <2>3. CASE ~ (j < i)
    <3>1. j + 1 \in 1 .. Len(o) /\ o[j + 1] = r /\ j + 1 # i
      BY <1>1, <1>2, <1>3, <2>1, <2>3
    <3>q. QED
      BY <1>1, <3>1 DEF On, Distinct
  <2>q. QED
    BY <2>2, <2>3
<1>5. ASSUME NEW r, On(o, r), r # s PROVE On(q, r)
  <2>1. PICK j \in 1 .. Len(o) : o[j] = r
    BY <1>5 DEF On
  <2>2. CASE j < i
    <3>1. j \in 1 .. Len(q) /\ q[j] = r
      BY <1>1, <1>2, <1>3, <2>1, <2>2
    <3>q. QED
      BY <3>1 DEF On
  <2>3. CASE j > i
    <3>1. j - 1 \in 1 .. Len(q) /\ ~ (j - 1 < i) /\ (j - 1) + 1 = j
      BY <1>1, <1>2, <1>3, <2>1, <2>3
    <3>2. q[j - 1] = r
      BY <1>2, <2>1, <3>1, Zenon
    <3>q. QED
      BY <3>1, <3>2 DEF On
  <2>q. QED
    BY <1>1, <1>5, <2>1, <2>2, <2>3
<1>q. QED
  BY <1>2, <1>3, <1>4, <1>5 DEF q

\* Moving a slot to the front keeps the set of slots.
LEMMA FirstIs ==
    ASSUME NEW o \in Seq(Slots), Distinct(o), NEW s \in Slots, On(o, s)
    PROVE  /\ First(o, s) \in Seq(Slots)
           /\ Len(First(o, s)) = Len(o)
           /\ \A r : On(First(o, s), r) <=> On(o, r)
<1> DEFINE q == Without(o, s)
           p == First(o, s)
<1>1. q \in Seq(Slots) /\ Len(q) = Len(o) - 1 /\ \A r : On(q, r) <=> On(o, r) /\ r # s
  BY WithoutIs
<1>2. /\ p \in Seq(Slots) /\ Len(p) = Len(q) + 1 /\ p[1] = s
      /\ \A j \in 1 .. Len(q) : p[j + 1] = q[j]
  BY <1>1, ConsIs DEF First
<1> HIDE DEF p, q
<1>3. ASSUME NEW r PROVE On(p, r) <=> r = s \/ On(q, r)
  BY <1>1, <1>2, ConsOn
<1>q. QED
  BY <1>1, <1>2, <1>3 DEF p

\* RemoveRepresents by slot: lru_remove(s) takes s out of the order of use.
LEMMA RemoveList ==
    ASSUME NEW l \in List, NEW o \in Seq(Slots), Represents(l, o), NEW s \in Slots, On(o, s)
    PROVE  Represents(LruRemove(l, s), Without(o, s))
<1>1. At(o, s) \in 1 .. Len(o) /\ o[At(o, s)] = s
  BY AtIs DEF On
<1>2. Represents(LruRemove(l, o[At(o, s)]), Drop(o, At(o, s)))
  BY <1>1, RemoveRepresents
<1>q. QED
  BY <1>1, <1>2 DEF Without

\* lru_remove followed by lru_add_head moves a slot to the front.
LEMMA MoveToFront ==
    ASSUME NEW l \in List, NEW o \in Seq(Slots), Represents(l, o), NEW s \in Slots, On(o, s)
    PROVE  Represents(LruAddHead(LruRemove(l, s), s), First(o, s))
<1> DEFINE m == LruRemove(l, s)
           q == Without(o, s)
<1>1. Represents(m, q) /\ m \in List
  BY RemoveList, ListTypes
<1>2. q \in Seq(Slots) /\ ~ On(q, s)
  BY WithoutIs DEF Represents, Distinct
<1>3. \A i \in 1 .. Len(q) : q[i] # s
  BY <1>2 DEF On
<1> HIDE DEF m, q
<1>4. Represents(LruAddHead(m, s), <<s>> \o q)
  BY <1>1, <1>2, <1>3, AddHeadRepresents
<1>q. QED
  BY <1>4 DEF First, m, q

\* lru_promote leaves the list alone when the slot is at its head.
LEMMA PromoteRepresents ==
    ASSUME NEW l \in List, NEW o \in Seq(Slots), Represents(l, o), NEW s \in Slots, On(o, s)
    PROVE  Represents(LruPromote(l, s), First(o, s))
<1>1. CASE l.head # s
  BY <1>1, MoveToFront DEF LruPromote
<1>2. CASE l.head = s
  <2> DEFINE q == Without(o, s)
             p == First(o, s)
  <2>1. o # <<>> /\ 1 \in 1 .. Len(o) /\ o[1] = s
    BY <1>2 DEF Represents
  <2>2. At(o, s) \in 1 .. Len(o) /\ o[At(o, s)] = s
    BY AtIs DEF On
  <2>3. At(o, s) = 1
    BY <2>1, <2>2 DEF Represents
  <2>4. q \in Seq(Slots) /\ Len(q) = Len(o) - 1
        /\ \A j \in 1 .. Len(o) - 1 : q[j] = IF j < 1 THEN o[j] ELSE o[j + 1]
    BY <2>1, <2>3, DropIs DEF Without
  <2>5. /\ p \in Seq(Slots) /\ Len(p) = Len(q) + 1 /\ p[1] = s
        /\ \A j \in 1 .. Len(q) : p[j + 1] = q[j]
    BY <2>4, ConsIs DEF First
  <2> HIDE DEF p, q
  <2>6. Len(p) = Len(o)
    BY <2>4, <2>5
  <2>7. ASSUME NEW i \in 1 .. Len(o) PROVE p[i] = o[i]
    <3>1. CASE i = 1
      BY <2>1, <2>5, <3>1
    <3>2. CASE i # 1
      <4>1. i - 1 \in 1 .. Len(o) - 1 /\ ~ (i - 1 < 1) /\ (i - 1) + 1 = i
        BY <3>2
      <4>2. q[i - 1] = o[i]
        BY <2>4, <4>1
      <4>3. p[i] = q[i - 1]
        BY <2>4, <2>5, <4>1
      <4>q. QED
        BY <4>2, <4>3
    <3>q. QED
      BY <3>1, <3>2
  <2>8. p = o
    BY <2>5, <2>6, <2>7
  <2>q. QED
    BY <1>2, <2>8 DEF LruPromote, p
<1>q. QED
  BY <1>1, <1>2
-----------------------------------------------------------------------------
(* The invariant.                                                          *)

Inv == TypeOK /\ ListIsOrder /\ SlotsAccounted

\* A slot is live when it is on the list, and the tail of a list that is
\* not empty is on it.
LEMMA OnList ==
    ASSUME Inv
    PROVE  /\ \A s \in Slots : live[s] <=> On(order, s)
           /\ Distinct(order)
           /\ lru.tail # NONE => lru.tail \in Slots /\ live[lru.tail]
           /\ free_top > 0 => free_stack[free_top - 1] \in Slots /\ ~ live[free_stack[free_top - 1]]
           /\ \A s \in Slots : live[s] => size > 0 /\ free_top \in Slots
<1>1. (\A s \in Slots : live[s] <=> On(order, s)) /\ Distinct(order)
  BY DEF Inv, SlotsAccounted, ListIsOrder, Represents, On, Distinct
<1>2. lru.tail # NONE => lru.tail \in Slots /\ live[lru.tail]
  <2> SUFFICES ASSUME lru.tail # NONE PROVE lru.tail \in Slots /\ live[lru.tail]
    OBVIOUS
  <2>1. order # <<>> /\ lru.tail = order[Len(order)] /\ order \in Seq(Slots)
    BY DEF Inv, TypeOK, ListIsOrder, Represents
  <2>2. Len(order) \in 1 .. Len(order)
    BY <2>1
  <2>q. QED
    BY <1>1, <2>1, <2>2 DEF On
<1>3. ASSUME free_top > 0
      PROVE  free_stack[free_top - 1] \in Slots /\ ~ live[free_stack[free_top - 1]]
  <2>1. free_top - 1 \in 0 .. free_top - 1 /\ free_top - 1 \in Slots
    BY <1>3 DEF Inv, TypeOK, Slots
  <2>q. QED
    BY <2>1 DEF Inv, TypeOK, SlotsAccounted
<1>4. ASSUME NEW s \in Slots, live[s] PROVE size > 0 /\ free_top \in Slots
  <2>1. order \in Seq(Slots) /\ \E i \in 1 .. Len(order) : order[i] = s
    BY <1>1, <1>4 DEF On, Inv, TypeOK
  <2>2. Len(order) \in Nat /\ Len(order) > 0
    BY <2>1
  <2>q. QED
    BY <2>2 DEF Inv, TypeOK, SlotsAccounted, Slots
<1>q. QED
  BY <1>1, <1>2, <1>3, <1>4

\* Releasing a live slot pushes it on the free stack, where it was not.
LEMMA ReleaseStack ==
    ASSUME Inv, NEW s \in Slots, live[s], Release(s)
    PROVE  /\ live' \in [Slots -> BOOLEAN]
           /\ \A r \in Slots : live'[r] <=> live[r] /\ r # s
           /\ free_stack' \in [Slots -> Slots]
           /\ free_top' \in 0 .. Capacity
           /\ size' \in 0 .. Capacity
           /\ size' = size - 1
           /\ free_top' = Capacity - size'
           /\ \A i \in 0 .. free_top' - 1 : ~ live'[free_stack'[i]]
           /\ \A i, j \in 0 .. free_top' - 1 : free_stack'[i] = free_stack'[j] => i = j
<1>1. free_top \in Slots /\ size > 0 /\ size \in 0 .. Capacity /\ free_top = Capacity - size
  BY OnList, Zenon DEF Inv, TypeOK, SlotsAccounted
<1>2. live' \in [Slots -> BOOLEAN] /\ \A r \in Slots : live'[r] <=> live[r] /\ r # s
  BY DEF Release, Inv, TypeOK
<1>3. /\ free_stack' \in [Slots -> Slots]
      /\ free_stack'[free_top] = s
      /\ \A i \in Slots : i # free_top => free_stack'[i] = free_stack[i]
  BY <1>1 DEF Release, Inv, TypeOK
<1>4. free_top' = free_top + 1 /\ size' = size - 1
  BY DEF Release
<1>5. free_top' \in 0 .. Capacity /\ size' \in 0 .. Capacity /\ free_top' = Capacity - size'
  BY <1>1, <1>4
<1>6. \A i \in 0 .. free_top' - 1 : i \in Slots /\ (i # free_top => i \in 0 .. free_top - 1)
  BY <1>1, <1>4 DEF Slots
<1>7. \A i \in 0 .. free_top - 1 : i \in Slots /\ ~ live[free_stack[i]] /\ free_stack[i] \in Slots
  <2>1. \A i \in 0 .. free_top - 1 : i \in Slots
    BY <1>1 DEF Slots
  <2>q. QED
    BY <2>1, Zenon DEF Inv, TypeOK, SlotsAccounted
<1>8. \A i \in 0 .. free_top' - 1 : ~ live'[free_stack'[i]]
  BY <1>2, <1>3, <1>6, <1>7
<1>9. \A i, j \in 0 .. free_top' - 1 : free_stack'[i] = free_stack'[j] => i = j
  <2> SUFFICES ASSUME NEW i \in 0 .. free_top' - 1, NEW j \in 0 .. free_top' - 1,
                      free_stack'[i] = free_stack'[j]
               PROVE  i = j
    OBVIOUS
  <2>1. \A m, n \in 0 .. free_top - 1 : free_stack[m] = free_stack[n] => m = n
    BY DEF Inv, SlotsAccounted
  <2>2. \A m \in 0 .. free_top - 1 : free_stack[m] # s
    BY <1>7
  <2>3. CASE i = free_top \/ j = free_top
    BY <1>3, <1>6, <2>2, <2>3
  <2>4. CASE i # free_top /\ j # free_top
    BY <1>3, <1>6, <2>1, <2>4
  <2>q. QED
    BY <2>3, <2>4
<1>q. QED
  BY <1>2, <1>3, <1>4, <1>5, <1>8, <1>9

\* The table lists exactly the live slots under the hashes of their entries.
LEMMA BareIs ==
    ASSUME Inv
    PROVE  /\ \A h, s : <<h, s>> \in bare <=> s \in Slots /\ live[s] /\ h = hashes[s]
           /\ \A x \in bare : \E s \in Slots : live[s] /\ x = <<hashes[s], s>>
BY DEF Inv, SlotsAccounted

\* ht_cache_get, ht_cache_promote.
LEMMA UseStep ==
    ASSUME Inv, NEW s \in Slots, live[s],
           lru' = LruPromote(lru, s), order' = First(order, s),
           UNCHANGED <<entries, hashes, live, free_stack, free_top, size, bare>>
    PROVE  Inv'
<1>1. On(order, s) /\ Distinct(order) /\ (\A r \in Slots : live[r] <=> On(order, r))
  BY OnList
<1>2. lru \in List /\ order \in Seq(Slots) /\ Represents(lru, order)
  BY DEF Inv, TypeOK, ListIsOrder
<1>3. order' \in Seq(Slots) /\ Len(order') = Len(order) /\ \A r : On(order', r) <=> On(order, r)
  BY <1>1, <1>2, FirstIs
<1>4. TypeOK'
  BY <1>2, <1>3, ListTypes, Zenon DEF Inv, TypeOK
<1>5. ListIsOrder'
  BY <1>1, <1>2, PromoteRepresents DEF ListIsOrder
<1>6. \A r \in Slots : live'[r] <=> On(order', r)
  BY <1>1, <1>3
<1>7. SlotsAccounted'
  BY <1>3, <1>6 DEF Inv, SlotsAccounted, On
<1>q. QED
  BY <1>4, <1>5, <1>7 DEF Inv

\* ht_cache_remove, ht_cache_evict, and a put that fails after its eviction.
LEMMA ReleaseStep ==
    ASSUME Inv, NEW s \in Slots, live[s], Release(s),
           bare' = bare \ {<<hashes[s], s>>}, lru' = LruRemove(lru, s), order' = Without(order, s),
           entries' \in [Slots -> Keys \cup {NoKey}], hashes' \in [Slots -> Nat],
           \A r \in Slots : r # s => entries'[r] = entries[r] /\ hashes'[r] = hashes[r]
    PROVE  Inv'
<1>1. On(order, s) /\ Distinct(order) /\ (\A r \in Slots : live[r] <=> On(order, r))
  BY OnList
<1>2. lru \in List /\ order \in Seq(Slots) /\ Represents(lru, order)
  BY DEF Inv, TypeOK, ListIsOrder
<1>3. /\ order' \in Seq(Slots) /\ Len(order') = Len(order) - 1
      /\ \A r : On(order', r) <=> On(order, r) /\ r # s
  BY <1>1, <1>2, WithoutIs, Zenon
<1>4. /\ live' \in [Slots -> BOOLEAN] /\ (\A r \in Slots : live'[r] <=> live[r] /\ r # s)
      /\ free_stack' \in [Slots -> Slots] /\ free_top' \in 0 .. Capacity
      /\ size' \in 0 .. Capacity /\ size' = size - 1 /\ free_top' = Capacity - size'
      /\ \A i \in 0 .. free_top' - 1 : ~ live'[free_stack'[i]]
      /\ \A i, j \in 0 .. free_top' - 1 : free_stack'[i] = free_stack'[j] => i = j
  BY ReleaseStack
<1>5. bare' \subseteq Nat \X Slots
  BY DEF Inv, TypeOK
<1>6. TypeOK'
  BY <1>2, <1>3, <1>4, <1>5, ListTypes, Zenon DEF TypeOK
<1>7. ListIsOrder'
  BY <1>1, <1>2, RemoveList DEF ListIsOrder
<1>8. \A r \in Slots : live'[r] <=> On(order', r)
  BY <1>1, <1>3, <1>4, Zenon
<1>9. bare' = {<<hashes'[r], r>> : r \in {t \in Slots : live'[t]}}
  <2>1. ASSUME NEW x \in bare' PROVE x \in {<<hashes'[r], r>> : r \in {t \in Slots : live'[t]}}
    <3>1. PICK r \in Slots : live[r] /\ x = <<hashes[r], r>>
      BY <2>1, BareIs
    <3>2. r # s
      BY <2>1, <3>1
    <3>q. QED
      BY <1>4, <3>1, <3>2
  <2>2. ASSUME NEW r \in Slots, live'[r] PROVE <<hashes'[r], r>> \in bare'
    <3>1. live[r] /\ r # s /\ hashes'[r] = hashes[r]
      BY <1>4, <2>2
    <3>2. <<hashes[r], r>> \in bare /\ <<hashes[r], r>> # <<hashes[s], s>>
      BY <3>1, BareIs, Zenon
    <3>q. QED
      BY <3>1, <3>2
  <2>q. QED
    BY <2>1, <2>2
<1>10. \A r \in Slots : live'[r] => entries'[r] \in Keys /\ hashes'[r] = Hash[entries'[r]]
  <2>1. \A r \in Slots : live[r] => entries[r] \in Keys /\ hashes[r] = Hash[entries[r]]
    BY Zenon DEF Inv, SlotsAccounted
  <2>q. QED
    BY <1>4, <2>1
<1>11. size' = Len(order')
  BY <1>3, <1>4, Zenon DEF Inv, SlotsAccounted
<1>12. SlotsAccounted'
  BY <1>4, <1>8, <1>9, <1>10, <1>11, Zenon DEF SlotsAccounted, On
<1>q. QED
  BY <1>6, <1>7, <1>12, Zenon DEF Inv

\* ht_cache_put into the slot on top of the free stack.
LEMMA PutStep ==
    ASSUME Inv, NEW k \in Keys, Put(k)
    PROVE  Inv'
<1> DEFINE s == free_stack[free_top - 1]
<1>1. s \in Slots /\ ~ live[s] /\ free_top > 0
  BY OnList DEF Put
<1>2. lru \in List /\ order \in Seq(Slots) /\ Represents(lru, order)
  BY DEF Inv, TypeOK, ListIsOrder
<1>3. ~ On(order, s) /\ (\A r \in Slots : live[r] <=> On(order, r))
  BY <1>1, OnList
<1>4. /\ entries' \in [Slots -> Keys \cup {NoKey}] /\ hashes' \in [Slots -> Nat]
      /\ entries'[s] = k /\ hashes'[s] = Hash[k]
      /\ \A r \in Slots : r # s => entries'[r] = entries[r] /\ hashes'[r] = hashes[r]
      /\ live' \in [Slots -> BOOLEAN] /\ (\A r \in Slots : live'[r] <=> live[r] \/ r = s)
  <2>1. entries' = [entries EXCEPT ![s] = k] /\ hashes' = [hashes EXCEPT ![s] = Hash[k]]
        /\ live' = [live EXCEPT ![s] = TRUE]
    BY DEF Put
  <2> HIDE DEF s
  <2>2. Hash[k] \in Nat
    OBVIOUS
  <2>q. QED
    BY <1>1, <2>1, <2>2 DEF Inv, TypeOK
<1>5. /\ lru' = LruAddHead(lru, s) /\ order' = <<s>> \o order /\ bare' = bare \cup {<<Hash[k], s>>}
      /\ free_top' = free_top - 1 /\ size' = size + 1 /\ free_stack' = free_stack
  BY DEF Put
<1>6. free_top \in 1 .. Capacity /\ size \in 0 .. Capacity - 1 /\ free_top = Capacity - size
      /\ size = Len(order) /\ free_stack \in [Slots -> Slots]
  BY <1>1 DEF Inv, TypeOK, SlotsAccounted
<1>7. \A i \in 0 .. free_top' - 1 :
         i \in Slots /\ free_stack[i] # s /\ free_stack[i] \in Slots /\ ~ live[free_stack[i]]
  <2> TAKE i \in 0 .. free_top' - 1
  <2>0. free_top \in 1 .. Capacity /\ i \in 0 .. free_top - 2
    BY <1>5, <1>6
  <2>1. i \in Slots /\ i \in 0 .. free_top - 1 /\ free_top - 1 \in 0 .. free_top - 1 /\ i # free_top - 1
    BY <2>0 DEF Slots
  <2>q. QED
    BY <1>6, <2>1, Zenon DEF Inv, SlotsAccounted
<1> HIDE DEF s
<1>8. order' \in Seq(Slots) /\ Len(order') = Len(order) + 1 /\ \A r : On(order', r) <=> r = s \/ On(order, r)
  <2>1. /\ order' \in Seq(Slots) /\ Len(order') = Len(order) + 1 /\ order'[1] = s
        /\ \A j \in 1 .. Len(order) : order'[j + 1] = order[j]
    BY <1>1, <1>2, <1>5, ConsIs
  <2>q. QED
    BY <1>2, <2>1, ConsOn, Zenon
<1>9. bare' \subseteq Nat \X Slots
  BY <1>1, <1>5 DEF Inv, TypeOK
<1>10. TypeOK'
  <2>1. LruAddHead(lru, s) \in List
    BY <1>1, <1>2, ListTypes
  <2>q. QED
    BY <1>4, <1>5, <1>6, <1>8, <1>9, <2>1 DEF TypeOK
<1>11. ListIsOrder'
  <2>1. \A i \in 1 .. Len(order) : order[i] # s
    BY <1>3 DEF On
  <2>q. QED
    BY <1>1, <1>2, <1>5, <2>1, AddHeadRepresents DEF ListIsOrder
<1>12. \A r \in Slots : live'[r] <=> On(order', r)
  BY <1>3, <1>4, <1>8, Zenon
<1>13. bare' = {<<hashes'[r], r>> : r \in {t \in Slots : live'[t]}}
  <2>1. ASSUME NEW x \in bare' PROVE x \in {<<hashes'[r], r>> : r \in {t \in Slots : live'[t]}}
    <3>1. CASE x = <<Hash[k], s>>
      BY <1>1, <1>4, <3>1
    <3>2. CASE x \in bare
      <4>1. PICK r \in Slots : live[r] /\ x = <<hashes[r], r>>
        BY <3>2, BareIs
      <4>q. QED
        BY <1>1, <1>4, <4>1
    <3>q. QED
      BY <1>5, <2>1, <3>1, <3>2
  <2>2. ASSUME NEW r \in Slots, live'[r] PROVE <<hashes'[r], r>> \in bare'
    <3>1. CASE r = s
      BY <1>4, <1>5, <3>1
    <3>2. CASE r # s
      BY <1>4, <1>5, <2>2, <3>2, BareIs, Zenon
    <3>q. QED
      BY <3>1, <3>2
  <2>q. QED
    BY <2>1, <2>2
<1>14. \A r \in Slots : live'[r] => entries'[r] \in Keys /\ hashes'[r] = Hash[entries'[r]]
  BY <1>4, Zenon DEF Inv, SlotsAccounted
<1>15. size' = Len(order') /\ free_top' = Capacity - size'
  BY <1>5, <1>6, <1>8
<1>16. \A i \in 0 .. free_top' - 1 : ~ live'[free_stack'[i]]
  BY <1>4, <1>5, <1>7, Zenon
<1>17. \A i, j \in 0 .. free_top' - 1 : free_stack'[i] = free_stack'[j] => i = j
  <2>1. \A i \in 0 .. free_top' - 1 : i \in 0 .. free_top - 1
    BY <1>5, <1>6
  <2>q. QED
    BY <1>5, <2>1, Zenon DEF Inv, SlotsAccounted
<1>18. SlotsAccounted'
  BY <1>12, <1>13, <1>14, <1>15, <1>16, <1>17 DEF SlotsAccounted, On
<1>q. QED
  BY <1>10, <1>11, <1>18 DEF Inv

\* A put whose insertion into the table fails writes to a free slot only.
LEMMA PutFailsStep ==
    ASSUME Inv, NEW k \in Keys, PutFails(k)
    PROVE  Inv'
<1> DEFINE s == free_stack[free_top - 1]
<1>1. s \in Slots /\ ~ live[s]
  BY OnList DEF PutFails
<1>2. /\ entries' = [entries EXCEPT ![s] = k] /\ hashes' = [hashes EXCEPT ![s] = 0]
      /\ UNCHANGED <<live, lru, free_stack, free_top, size, bare, order>>
  BY DEF PutFails
<1> HIDE DEF s
<1>3. /\ entries' \in [Slots -> Keys \cup {NoKey}] /\ hashes' \in [Slots -> Nat]
      /\ \A r \in Slots : live[r] => entries'[r] = entries[r] /\ hashes'[r] = hashes[r]
  BY <1>1, <1>2 DEF Inv, TypeOK
<1>4. TypeOK'
  BY <1>2, <1>3 DEF Inv, TypeOK
<1>5. ListIsOrder'
  BY <1>2 DEF Inv, ListIsOrder
<1>6. bare' = {<<hashes'[r], r>> : r \in {t \in Slots : live'[t]}}
  BY <1>2, <1>3 DEF Inv, SlotsAccounted
<1>7. SlotsAccounted'
  BY <1>2, <1>3, <1>6 DEF Inv, SlotsAccounted
<1>q. QED
  BY <1>4, <1>5, <1>7 DEF Inv

\* A put into a full cache takes the slot at the tail.
LEMMA PutEvictsStep ==
    ASSUME Inv, NEW k \in Keys, PutEvicts(k)
    PROVE  Inv'
<1> DEFINE s == lru.tail
<1>1. s \in Slots /\ live[s]
  BY OnList DEF PutEvicts, CanEvict
<1>2. lru \in List /\ order \in Seq(Slots) /\ Represents(lru, order)
  BY DEF Inv, TypeOK, ListIsOrder
<1>3. On(order, s) /\ Distinct(order) /\ (\A r \in Slots : live[r] <=> On(order, r))
  BY <1>1, OnList
<1>4. /\ free_top = 0 /\ free_stack' = [free_stack EXCEPT ![0] = s]
      /\ entries' = [entries EXCEPT ![s] = k] /\ hashes' = [hashes EXCEPT ![s] = Hash[k]]
      /\ bare' = (bare \ {<<hashes[s], s>>}) \cup {<<Hash[k], s>>}
      /\ lru' = LruAddHead(LruRemove(lru, s), s) /\ order' = First(order, s)
      /\ live' = live /\ free_top' = free_top /\ size' = size
  BY DEF PutEvicts
<1> HIDE DEF s
<1>5. /\ entries' \in [Slots -> Keys \cup {NoKey}] /\ hashes' \in [Slots -> Nat]
      /\ entries'[s] = k /\ hashes'[s] = Hash[k]
      /\ \A r \in Slots : r # s => entries'[r] = entries[r] /\ hashes'[r] = hashes[r]
  <2>1. Hash[k] \in Nat
    OBVIOUS
  <2>q. QED
    BY <1>1, <1>4, <2>1 DEF Inv, TypeOK
<1>6. order' \in Seq(Slots) /\ Len(order') = Len(order) /\ \A r : On(order', r) <=> On(order, r)
  BY <1>1, <1>2, <1>3, <1>4, FirstIs
<1>7. free_stack' \in [Slots -> Slots]
  BY <1>1, <1>4, Zenon DEF Inv, TypeOK
<1>8. lru' \in List
  <2>1. LruRemove(lru, s) \in List
    BY <1>1, <1>2, ListTypes
  <2>q. QED
    BY <1>1, <1>4, <2>1, ListTypes
<1>9. bare' \subseteq Nat \X Slots
  BY <1>1, <1>4 DEF Inv, TypeOK
<1>10. TypeOK'
  BY <1>4, <1>5, <1>6, <1>7, <1>8, <1>9, Zenon DEF Inv, TypeOK
<1>11. ListIsOrder'
  BY <1>1, <1>2, <1>3, <1>4, MoveToFront DEF ListIsOrder
<1>12. \A r \in Slots : live'[r] <=> On(order', r)
  BY <1>3, <1>4, <1>6
<1>13. bare' = {<<hashes'[r], r>> : r \in {t \in Slots : live'[t]}}
  <2>1. ASSUME NEW x \in bare' PROVE x \in {<<hashes'[r], r>> : r \in {t \in Slots : live'[t]}}
    <3>1. CASE x = <<Hash[k], s>>
      BY <1>1, <1>4, <1>5, <3>1
    <3>2. CASE x \in bare /\ x # <<hashes[s], s>>
      <4>1. PICK r \in Slots : live[r] /\ x = <<hashes[r], r>>
        BY <3>2, BareIs
      <4>2. r # s
        BY <3>2, <4>1
      <4>q. QED
        BY <1>4, <1>5, <4>1, <4>2, Zenon
    <3>q. QED
      BY <1>4, <2>1, <3>1, <3>2
  <2>2. ASSUME NEW r \in Slots, live'[r] PROVE <<hashes'[r], r>> \in bare'
    <3>1. CASE r = s
      BY <1>4, <1>5, <3>1
    <3>2. CASE r # s
      <4>1. <<hashes[r], r>> \in bare /\ <<hashes[r], r>> # <<hashes[s], s>>
        BY <1>4, <2>2, <3>2, BareIs, Zenon
      <4>q. QED
        BY <1>4, <1>5, <3>2, <4>1
    <3>q. QED
      BY <3>1, <3>2
  <2>q. QED
    BY <2>1, <2>2
<1>14. \A r \in Slots : live'[r] => entries'[r] \in Keys /\ hashes'[r] = Hash[entries'[r]]
  <2> SUFFICES ASSUME NEW r \in Slots, live'[r]
               PROVE  entries'[r] \in Keys /\ hashes'[r] = Hash[entries'[r]]
    BY Zenon
  <2>1. CASE r = s
    BY <1>5, <2>1
  <2>2. CASE r # s
    <3>1. live[r] => entries[r] \in Keys /\ hashes[r] = Hash[entries[r]]
      BY Zenon DEF Inv, SlotsAccounted
    <3>2. live[r] /\ entries'[r] = entries[r] /\ hashes'[r] = hashes[r]
      BY <1>4, <1>5, <2>2
    <3>q. QED
      BY <3>1, <3>2
  <2>q. QED
    BY <2>1, <2>2
<1>15. size' = Len(order') /\ free_top' = Capacity - size'
  <2>1. size = Len(order) /\ free_top = Capacity - size
    BY Zenon DEF Inv, SlotsAccounted
  <2>q. QED
    BY <1>4, <1>6, <2>1
<1>16. \A i \in 0 .. free_top' - 1 : FALSE
  BY <1>4
<1>17. SlotsAccounted'
  BY <1>12, <1>13, <1>14, <1>15, <1>16, Zenon DEF SlotsAccounted, On
<1>q. QED
  BY <1>10, <1>11, <1>17 DEF Inv

\* A cache just created or cleared; its entries may hold old contents.
EmptyCache ==
    /\ entries \in [Slots -> Keys \cup {NoKey}] /\ hashes = [s \in Slots |-> 0]
    /\ live = [s \in Slots |-> FALSE] /\ lru = EmptyList
    /\ free_stack = FullStack /\ free_top = Capacity
    /\ size = 0 /\ bare = {} /\ order = <<>>

\* ht_cache_create and ht_cache_clear establish the invariant.
LEMMA EmptyConsistent == EmptyCache => Inv
<1> SUFFICES ASSUME EmptyCache PROVE Inv
  OBVIOUS
<1> USE DEF EmptyCache
<1>1. FullStack \in [Slots -> Slots] /\ (\A i, j \in Slots : FullStack[i] = FullStack[j] => i = j)
  BY DEF FullStack, Slots
<1>2. EmptyList \in List
  BY DEF EmptyList, List, Links
<1>3. TypeOK
  BY <1>1, <1>2 DEF TypeOK
<1>4. ListIsOrder
  BY DEF ListIsOrder, Represents, EmptyList
<1>5. \A i \in 0 .. free_top - 1 : i \in Slots
  BY DEF Slots
<1>6. SlotsAccounted
  BY <1>1, <1>5 DEF SlotsAccounted
<1>q. QED
  BY <1>3, <1>4, <1>6 DEF Inv

\* Every operation of the cache keeps the invariant.
LEMMA InvStep ==
    ASSUME Inv, [Next]_vars
    PROVE  Inv'
<1>1. ASSUME NEW k \in Keys, Put(k) PROVE Inv'
  BY <1>1, PutStep
<1>2. ASSUME NEW k \in Keys, PutFails(k) PROVE Inv'
  BY <1>2, PutFailsStep
<1>3. ASSUME NEW k \in Keys, PutEvicts(k) PROVE Inv'
  BY <1>3, PutEvictsStep
<1>4. ASSUME NEW k \in Keys, PutEvictsAndFails(k) PROVE Inv'
  <2>1. lru.tail \in Slots /\ live[lru.tail]
    BY <1>4, OnList DEF PutEvictsAndFails, CanEvict
  <2>2. /\ entries' \in [Slots -> Keys \cup {NoKey}] /\ hashes' \in [Slots -> Nat]
        /\ \A r \in Slots : r # lru.tail => entries'[r] = entries[r] /\ hashes'[r] = hashes[r]
    BY <1>4, <2>1 DEF PutEvictsAndFails, Inv, TypeOK
  <2>q. QED
    BY <1>4, <2>1, <2>2, ReleaseStep, Zenon DEF PutEvictsAndFails
<1>5. ASSUME NEW k \in Keys, Get(k) PROVE Inv'
  <2>1. PICK s \in Matches(k) : lru' = LruPromote(lru, s) /\ order' = First(order, s)
    BY <1>5 DEF Get
  <2>2. s \in Slots /\ live[s]
    BY DEF Matches
  <2>q. QED
    BY <1>5, <2>1, <2>2, UseStep DEF Get
<1>6. ASSUME NEW k \in Keys, Remove(k) PROVE Inv'
  <2>1. PICK s \in Matches(k) : /\ bare' = bare \ {<<Hash[k], s>>}
                                /\ lru' = LruRemove(lru, s)
                                /\ Release(s)
                                /\ order' = Without(order, s)
    BY <1>6 DEF Remove
  <2>2. s \in Slots /\ live[s] /\ Hash[k] = hashes[s]
    BY BareIs DEF Matches
  <2>3. /\ entries' \in [Slots -> Keys \cup {NoKey}] /\ hashes' \in [Slots -> Nat]
        /\ entries' = entries /\ hashes' = hashes
    BY <1>6 DEF Remove, Inv, TypeOK
  <2>q. QED
    BY <2>1, <2>2, <2>3, ReleaseStep
<1>7. ASSUME NEW s \in Slots, Promote(s) PROVE Inv'
  BY <1>7, UseStep DEF Promote
<1>8. ASSUME Evict PROVE Inv'
  <2>1. lru.tail \in Slots /\ live[lru.tail]
    BY <1>8, OnList DEF Evict, CanEvict
  <2>2. /\ entries' \in [Slots -> Keys \cup {NoKey}] /\ hashes' \in [Slots -> Nat]
        /\ entries' = entries /\ hashes' = hashes
    BY <1>8 DEF Evict, Inv, TypeOK
  <2>q. QED
    BY <1>8, <2>1, <2>2, ReleaseStep DEF Evict
<1>9. ASSUME Clear PROVE Inv'
  <2>1. entries' \in [Slots -> Keys \cup {NoKey}]
    BY <1>9 DEF Clear, Inv, TypeOK
  <2>2. EmptyCache'
    BY <1>9, <2>1 DEF Clear, EmptyCache
  <2>q. QED
    BY <2>2, EmptyConsistent, PTL
<1>10. CASE UNCHANGED vars
  <2>1. TypeOK'
    BY <1>10 DEF vars, Inv, TypeOK
  <2>2. ListIsOrder'
    BY <1>10 DEF vars, Inv, ListIsOrder
  <2>3. SlotsAccounted'
    BY <1>10 DEF vars, Inv, SlotsAccounted
  <2>q. QED
    BY <2>1, <2>2, <2>3 DEF Inv
<1>q. QED
  BY <1>1, <1>2, <1>3, <1>4, <1>5, <1>6, <1>7, <1>8, <1>9, <1>10 DEF Next

\* The inductive invariant holds in every reachable state.
LEMMA Invariant == Spec => []Inv
<1>1. Init => Inv
  BY EmptyConsistent DEF EmptyCache, Init
<1>2. Inv /\ [Next]_vars => Inv'
  BY InvStep
<1>q. QED
  BY <1>1, <1>2, PTL DEF Spec

\* TypeCorrect: the indices that ht_cache.c keeps in its list, its table and
\* its free stack stay within the capacity, through every call and failure.
THEOREM TypeCorrect == Spec => []TypeOK
BY Invariant, PTL DEF Inv

\* ListKept: in every state the links lru_prev and lru_next, head and tail of
\* ht_cache.c are those of the order in which the entries were last used.
THEOREM ListKept == Spec => []ListIsOrder
BY Invariant, PTL DEF Inv

\* Consistent: in every state every slot of ht_cache.c is either on the list
\* and in the table, or on the free stack once.
THEOREM Consistent == Spec => []SlotsAccounted
BY Invariant, PTL DEF Inv

----------------------------------------------------------------------------
(* The cache implements the list of CacheList. *)

Keyed(e, o) == [i \in 1 .. Len(o) |-> e[o[i]]]
Dropped(ks, i) == [j \in 1 .. Len(ks) - 1 |-> IF j < i THEN ks[j] ELSE ks[j + 1]]

\* Sequences are equal when their elements are.
LEMMA SameSeq ==
    ASSUME NEW S, NEW a \in Seq(S), NEW b \in Seq(S),
           Len(a) = Len(b), \A i \in 1 .. Len(b) : a[i] = b[i]
    PROVE  a = b
OBVIOUS

\* The keys along a list of slots.
LEMMA KeyedIs ==
    ASSUME NEW e, NEW o \in Seq(Slots), \A i \in 1 .. Len(o) : e[o[i]] \in Keys
    PROVE  Keyed(e, o) \in Seq(Keys) /\ Len(Keyed(e, o)) = Len(o)
           /\ \A i \in 1 .. Len(o) : Keyed(e, o)[i] = e[o[i]]
BY DEF Keyed

\* Leaving out a slot leaves out its key, whatever is written to that slot.
LEMMA KeyedDrop ==
    ASSUME NEW e, NEW f, NEW o \in Seq(Slots), NEW i \in 1 .. Len(o),
           \A j \in 1 .. Len(o) : e[o[j]] \in Keys,
           \A j \in 1 .. Len(o) : j # i => f[o[j]] = e[o[j]]
    PROVE  /\ Keyed(f, Drop(o, i)) = Dropped(Keyed(e, o), i)
           /\ Keyed(f, Drop(o, i)) \in Seq(Keys)
<1> DEFINE q == Drop(o, i)
           ks == Keyed(e, o)
           d == Dropped(ks, i)
<1>1. /\ q \in Seq(Slots) /\ Len(q) = Len(o) - 1
      /\ \A j \in 1 .. Len(o) - 1 : q[j] = IF j < i THEN o[j] ELSE o[j + 1]
  BY DropIs, Zenon
<1>2. ks \in Seq(Keys) /\ Len(ks) = Len(o) /\ \A j \in 1 .. Len(o) : ks[j] = e[o[j]]
  BY KeyedIs
<1> HIDE DEF ks, q
<1>3. ASSUME NEW j \in 1 .. Len(o) - 1
      PROVE  f[q[j]] = (IF j < i THEN ks[j] ELSE ks[j + 1]) /\ f[q[j]] \in Keys
  <2>1. CASE j < i
    <3>1. j \in 1 .. Len(o) /\ j # i
      BY <2>1
    <3>2. q[j] = o[j]
      BY <1>1, <2>1, Zenon
    <3>3. ks[j] = e[o[j]] /\ f[o[j]] = e[o[j]] /\ e[o[j]] \in Keys
      BY <1>2, <3>1, Zenon
    <3>q. QED
      BY <2>1, <3>2, <3>3, Zenon
  <2>2. CASE ~ (j < i)
    <3>1. j + 1 \in 1 .. Len(o) /\ j + 1 # i
      BY <2>2
    <3>2. q[j] = o[j + 1]
      BY <1>1, <2>2
    <3>3. ks[j + 1] = e[o[j + 1]] /\ f[o[j + 1]] = e[o[j + 1]] /\ e[o[j + 1]] \in Keys
      BY <1>2, <3>1, Zenon
    <3>q. QED
      BY <2>2, <3>2, <3>3
  <2>q. QED
    BY <2>1, <2>2
<1>4. d = [j \in 1 .. Len(o) - 1 |-> IF j < i THEN ks[j] ELSE ks[j + 1]]
  BY <1>2 DEF Dropped
<1>5. Keyed(f, q) = [j \in 1 .. Len(o) - 1 |-> f[q[j]]]
  BY <1>1 DEF Keyed
<1>6. Keyed(f, q) = d
  BY <1>3, <1>4, <1>5
<1>7. Keyed(f, q) \in Seq(Keys)
  BY <1>1, <1>3, KeyedIs, Zenon
<1>q. QED
  BY <1>6, <1>7, Zenon DEF q, ks

\* A slot in front puts its key in front.
LEMMA KeyedCons ==
    ASSUME NEW f, NEW o \in Seq(Slots), NEW s \in Slots, f[s] \in Keys,
           \A i \in 1 .. Len(o) : f[o[i]] \in Keys
    PROVE  Keyed(f, <<s>> \o o) = <<f[s]>> \o Keyed(f, o)
<1> DEFINE p == <<s>> \o o
           ks == Keyed(f, o)
           c == <<f[s]>> \o ks
<1>1. /\ p \in Seq(Slots) /\ Len(p) = Len(o) + 1 /\ p[1] = s
      /\ \A j \in 1 .. Len(o) : p[j + 1] = o[j]
  BY ConsIs
<1>2. ks \in Seq(Keys) /\ Len(ks) = Len(o) /\ \A j \in 1 .. Len(o) : ks[j] = f[o[j]]
  BY KeyedIs
<1> HIDE DEF p, ks
<1>3. /\ c \in Seq(Keys) /\ Len(c) = Len(o) + 1 /\ c[1] = f[s]
      /\ \A j \in 1 .. Len(o) : c[j + 1] = ks[j]
  BY <1>2
<1> HIDE DEF c
<1>4. ASSUME NEW i \in 1 .. Len(p) PROVE f[p[i]] = c[i] /\ f[p[i]] \in Keys
  <2>1. CASE i = 1
    BY <1>1, <1>3, <2>1
  <2>2. CASE i # 1
    <3>1. i - 1 \in 1 .. Len(o) /\ (i - 1) + 1 = i
      BY <1>1, <2>2
    <3>2. p[i] = o[i - 1] /\ c[i] = ks[i - 1]
      BY <1>1, <1>3, <3>1, Zenon
    <3>q. QED
      BY <1>2, <3>1, <3>2, Zenon
  <2>q. QED
    BY <2>1, <2>2
<1>5. Keyed(f, p) \in Seq(Keys) /\ Len(Keyed(f, p)) = Len(p)
      /\ \A i \in 1 .. Len(p) : Keyed(f, p)[i] = f[p[i]]
  <2>1. p \in Seq(Slots)
    BY <1>1
  <2>2. \A i \in 1 .. Len(p) : f[p[i]] \in Keys
    BY <1>4
  <2>q. QED
    BY <2>1, <2>2, KeyedIs
<1>6. Len(Keyed(f, p)) = Len(c) /\ \A i \in 1 .. Len(c) : Keyed(f, p)[i] = c[i]
  BY <1>1, <1>3, <1>4, <1>5, Zenon
<1>7. Keyed(f, p) = c
  BY <1>3, <1>5, <1>6, SameSeq, Zenon
<1>q. QED
  BY <1>7, Zenon DEF p, c, ks

\* Every slot on the list holds a key.
LEMMA EntriesAreKeys ==
    ASSUME Inv
    PROVE  /\ order \in Seq(Slots) /\ Len(order) = size /\ size \in 0 .. Capacity
           /\ \A i \in 1 .. Len(order) : live[order[i]] /\ entries[order[i]] \in Keys
           /\ Keyed(entries, order) \in Seq(Keys)
           /\ Len(Keyed(entries, order)) = Len(order)
           /\ \A i \in 1 .. Len(order) : Keyed(entries, order)[i] = entries[order[i]]
<1>1. order \in Seq(Slots) /\ Len(order) = size /\ size \in 0 .. Capacity
  BY DEF Inv, TypeOK, SlotsAccounted
<1>2. \A i \in 1 .. Len(order) : order[i] \in Slots /\ live[order[i]]
  BY <1>1 DEF Inv, SlotsAccounted
<1>3. \A i \in 1 .. Len(order) : entries[order[i]] \in Keys
  BY <1>2 DEF Inv, SlotsAccounted
<1>4. /\ Keyed(entries, order) \in Seq(Keys)
      /\ Len(Keyed(entries, order)) = Len(order)
      /\ \A i \in 1 .. Len(order) : Keyed(entries, order)[i] = entries[order[i]]
  <2>1. order \in Seq(Slots)
    BY <1>1
  <2>q. QED
    BY <2>1, <1>3, KeyedIs
<1>q. QED
  BY <1>1, <1>2, <1>3, <1>4

TakesOff(f, s, i) ==
    /\ Keyed(entries, order)[i] = entries[s]
    /\ Keyed(f, Without(order, s)) = Dropped(Keyed(entries, order), i)
    /\ f[s] \in Keys => Keyed(f, First(order, s)) = <<f[s]>> \o Dropped(Keyed(entries, order), i)
    /\ s = lru.tail => i = Len(order)

\* Taking slot s off the list drops its key; f is the array of entries after
\* the step, which may have overwritten that of s.
LEMMA WithoutKeys ==
    ASSUME Inv, NEW s \in Slots, live[s], NEW f, \A r \in Slots : r # s => f[r] = entries[r]
    PROVE  \E i \in 1 .. Len(order) : TakesOff(f, s, i)
<1> DEFINE i == At(order, s)
           q == Drop(order, i)
<1>1. order \in Seq(Slots) /\ On(order, s) /\ Distinct(order)
  BY OnList DEF Inv, TypeOK
<1>2. i \in 1 .. Len(order) /\ order[i] = s
  BY <1>1, AtIs DEF On
<1> HIDE DEF i
<1>3. \A j \in 1 .. Len(order) : entries[order[j]] \in Keys /\ order[j] \in Slots
                                 /\ (j # i => f[order[j]] = entries[order[j]])
  BY <1>1, <1>2, EntriesAreKeys DEF Distinct
<1>4. Keyed(f, q) = Dropped(Keyed(entries, order), i)
  BY <1>1, <1>2, <1>3, KeyedDrop
<1>5. /\ q \in Seq(Slots) /\ Len(q) = Len(order) - 1
      /\ \A j \in 1 .. Len(order) - 1 : q[j] = IF j < i THEN order[j] ELSE order[j + 1]
  BY <1>1, <1>2, DropIs, Zenon
<1> HIDE DEF q
<1>6. \A j \in 1 .. Len(q) : f[q[j]] \in Keys
  <2> TAKE j \in 1 .. Len(q)
  <2>1. CASE j < i
    <3>1. j \in 1 .. Len(order) /\ j # i
      BY <1>1, <1>2, <1>5, <2>1
    <3>q. QED
      BY <1>3, <1>5, <2>1, <3>1
  <2>2. CASE ~ (j < i)
    <3>1. j + 1 \in 1 .. Len(order) /\ j + 1 # i
      BY <1>1, <1>2, <1>5, <2>2
    <3>q. QED
      BY <1>3, <1>5, <2>2, <3>1
  <2>q. QED
    BY <2>1, <2>2, Zenon
<1>7. f[s] \in Keys => Keyed(f, <<s>> \o q) = <<f[s]>> \o Keyed(f, q)
  BY <1>5, <1>6, KeyedCons, Zenon
<1>8. Without(order, s) = q /\ First(order, s) = <<s>> \o q
  BY DEF Without, First, q, i
<1>9. s = lru.tail => i = Len(order)
  <2>1. order # <<>> /\ Len(order) \in 1 .. Len(order)
    BY <1>1, <1>2
  <2>2. lru.tail = order[Len(order)]
    BY <2>1 DEF Inv, ListIsOrder, Represents
  <2>q. QED
    BY <1>2, <2>1, <2>2, <1>1 DEF Distinct
<1>10. Keyed(entries, order)[i] = entries[s]
  BY <1>2, EntriesAreKeys
<1>q. QED
  BY <1>2, <1>4, <1>7, <1>8, <1>9, <1>10, Zenon DEF TakesOff

\* Every step of the cache is one of CacheList, or changes nothing in it.
LEMMA ListStep ==
    ASSUME Inv, Inv', [Next]_vars
    PROVE  [Listed!Next]_(Keyed(entries, order))
<1> DEFINE ks == Keyed(entries, order)
<1>1. ks = [i \in 1 .. Len(order) |-> entries[order[i]]] /\ ks \in Seq(Keys) /\ Len(ks) = Len(order)
      /\ (Len(ks) = Capacity <=> free_top = 0) /\ Len(ks) \in Nat
  BY EntriesAreKeys DEF Keyed, Inv, TypeOK, SlotsAccounted
<1>2. \A s \in Slots : live[s] => entries[s] \in Keys /\ hashes[s] = Hash[entries[s]]
  BY Zenon DEF Inv, SlotsAccounted
<1>3. ASSUME NEW k \in Keys, Put(k) PROVE ks' = <<k>> \o ks /\ Len(ks) # Capacity
  <2> DEFINE s == free_stack[free_top - 1]
  <2>1. s \in Slots /\ ~ live[s] /\ free_top > 0
    BY <1>3, OnList DEF Put
  <2>2. entries' = [entries EXCEPT ![s] = k] /\ order' = <<s>> \o order
    BY <1>3 DEF Put
  <2> HIDE DEF s
  <2>0. \A r \in Slots : r # s => entries'[r] = entries[r]
    BY <2>1, <2>2 DEF Inv, TypeOK
  <2>3. order \in Seq(Slots)
        /\ \A i \in 1 .. Len(order) : entries'[order[i]] = entries[order[i]] /\ entries'[order[i]] \in Keys
    <3>1. order \in Seq(Slots)
      BY EntriesAreKeys
    <3>2. \A i \in 1 .. Len(order) : order[i] \in Slots /\ order[i] # s /\ entries[order[i]] \in Keys
      BY <2>1, <3>1, EntriesAreKeys
    <3>q. QED
      BY <2>0, <3>1, <3>2
  <2>4. entries'[s] = k
    BY <2>1, <2>2 DEF Inv, TypeOK
  <2>5. Keyed(entries', order') = <<k>> \o Keyed(entries', order)
    <3>1. Keyed(entries', <<s>> \o order) = <<entries'[s]>> \o Keyed(entries', order)
      BY <2>1, <2>3, <2>4, KeyedCons, Zenon
    <3>q. QED
      BY <2>2, <2>4, <3>1, Zenon
  <2>6. Keyed(entries', order) = ks
    BY <2>3 DEF Keyed
  <2>7. Len(ks) # Capacity
    BY <1>1, <2>1
  <2>q. QED
    BY <2>5, <2>6, <2>7
<1>4. ASSUME NEW k \in Keys, PutFails(k) PROVE ks' = ks
  <2> DEFINE s == free_stack[free_top - 1]
  <2>1. s \in Slots /\ ~ live[s]
    BY <1>4, OnList DEF PutFails
  <2>2. entries' = [entries EXCEPT ![s] = k] /\ order' = order
    BY <1>4 DEF PutFails
  <2> HIDE DEF s
  <2>0. \A r \in Slots : r # s => entries'[r] = entries[r]
    BY <2>1, <2>2 DEF Inv, TypeOK
  <2>3. \A i \in 1 .. Len(order) : entries'[order[i]] = entries[order[i]]
    <3>1. order \in Seq(Slots)
      BY EntriesAreKeys
    <3>2. \A i \in 1 .. Len(order) : order[i] \in Slots /\ order[i] # s
      BY <2>1, <3>1, EntriesAreKeys
    <3>q. QED
      BY <2>0, <3>2
  <2>q. QED
    BY <2>2, <2>3 DEF Keyed
<1>5. ASSUME NEW k \in Keys, PutEvicts(k)
      PROVE  Len(ks) = Capacity /\ ks' = <<k>> \o Dropped(ks, Len(ks))
  <2>1. lru.tail \in Slots /\ live[lru.tail]
    BY <1>5, OnList DEF PutEvicts, CanEvict
  <2>2. entries' = [entries EXCEPT ![lru.tail] = k] /\ order' = First(order, lru.tail) /\ free_top = 0
    BY <1>5 DEF PutEvicts
  <2>3. entries'[lru.tail] = k /\ \A r \in Slots : r # lru.tail => entries'[r] = entries[r]
    BY <2>1, <2>2 DEF Inv, TypeOK
  <2>4. PICK i \in 1 .. Len(order) : TakesOff(entries', lru.tail, i)
    BY <2>1, <2>3, WithoutKeys, Zenon
  <2>q. QED
    BY <1>1, <2>2, <2>3, <2>4, Zenon DEF TakesOff
<1>6. ASSUME NEW k \in Keys, PutEvictsAndFails(k)
      PROVE  Len(ks) = Capacity /\ ks' = Dropped(ks, Len(ks))
  <2>1. lru.tail \in Slots /\ live[lru.tail]
    BY <1>6, OnList DEF PutEvictsAndFails, CanEvict
  <2>2. entries' = [entries EXCEPT ![lru.tail] = k] /\ order' = Without(order, lru.tail) /\ free_top = 0
    BY <1>6 DEF PutEvictsAndFails
  <2>3. \A r \in Slots : r # lru.tail => entries'[r] = entries[r]
    BY <2>1, <2>2 DEF Inv, TypeOK
  <2>4. PICK i \in 1 .. Len(order) : TakesOff(entries', lru.tail, i)
    BY <2>1, <2>3, WithoutKeys
  <2>q. QED
    BY <1>1, <2>2, <2>3, <2>4 DEF TakesOff
<1>7. ASSUME NEW s \in Slots, live[s], order' = First(order, s), entries' = entries
      PROVE  \E i \in 1 .. Len(ks) : ks[i] = entries[s] /\ ks' = <<ks[i]>> \o Dropped(ks, i)
  <2>1. PICK i \in 1 .. Len(order) : TakesOff(entries', s, i)
    BY <1>7, WithoutKeys, Zenon
  <2>2. entries'[s] = entries[s] /\ entries[s] \in Keys
    BY <1>2, <1>7
  <2>3. ks[i] = entries[s] /\ ks' = <<ks[i]>> \o Dropped(ks, i)
    BY <1>7, <2>1, <2>2, Zenon DEF TakesOff
  <2>q. QED
    BY <1>1, <2>3, Zenon
<1>8. ASSUME NEW s \in Slots, live[s], order' = Without(order, s), entries' = entries
      PROVE  \E i \in 1 .. Len(ks) : /\ ks[i] = entries[s] /\ ks' = Dropped(ks, i)
                                     /\ s = lru.tail => i = Len(ks)
  <2>1. PICK i \in 1 .. Len(order) : TakesOff(entries', s, i)
    BY <1>8, WithoutKeys, Zenon
  <2>2. ks[i] = entries[s] /\ ks' = Dropped(ks, i) /\ (s = lru.tail => i = Len(ks))
    BY <1>1, <1>8, <2>1, Zenon DEF TakesOff
  <2>q. QED
    BY <1>1, <2>2
<1>9. ASSUME NEW k \in Keys, NEW s \in Matches(k)
      PROVE  s \in Slots /\ live[s] /\ Listed!Same(entries[s], k)
  <2>1. s \in Slots /\ live[s] /\ <<Hash[k], s>> \in bare /\ (HasEq => entries[s] = k)
    BY <1>9 DEF Matches
  <2>2. Hash[k] = hashes[s]
    BY <2>1, BareIs
  <2>q. QED
    BY <1>2, <2>1, <2>2 DEF Listed!Same
<1>10. ASSUME NEW k \in Keys, Put(k) \/ PutEvicts(k) PROVE Listed!Put(k)
  BY <1>3, <1>5, <1>10, Zenon DEF Listed!Put, Listed!Full, Listed!DropLast, Listed!Drop, Keyed, Dropped
<1>11. ASSUME NEW k \in Keys, PutEvictsAndFails(k) PROVE Listed!PutFails
  BY <1>6, <1>11, Zenon DEF Listed!PutFails, Listed!Full, Listed!DropLast, Listed!Drop, Keyed, Dropped
<1>12. ASSUME NEW k \in Keys, Get(k) PROVE Listed!Use(k)
  <2>1. PICK s \in Matches(k) : order' = First(order, s) /\ entries' = entries
    BY <1>12 DEF Get
  <2>2. s \in Slots /\ live[s] /\ Listed!Same(entries[s], k)
    BY <1>9
  <2>3. PICK i \in 1 .. Len(ks) : ks[i] = entries[s] /\ ks' = <<ks[i]>> \o Dropped(ks, i)
    BY <1>7, <2>1, <2>2, Zenon
  <2>q. QED
    BY <2>2, <2>3, Zenon DEF Listed!Use, Listed!Drop, Keyed, Dropped
<1>13. ASSUME NEW s \in Slots, Promote(s) PROVE \E k \in Keys : Listed!Use(k)
  <2>1. live[s] /\ order' = First(order, s) /\ entries' = entries
    BY <1>13 DEF Promote
  <2>2. PICK k \in Keys : k = entries[s] /\ Listed!Same(entries[s], k)
    BY <1>2, <2>1 DEF Listed!Same
  <2>3. PICK i \in 1 .. Len(ks) : ks[i] = entries[s] /\ ks' = <<ks[i]>> \o Dropped(ks, i)
    BY <1>7, <2>1, Zenon
  <2>q. QED
    BY <2>2, <2>3, Zenon DEF Listed!Use, Listed!Drop, Keyed, Dropped
<1>14. ASSUME NEW k \in Keys, Remove(k) PROVE Listed!Remove(k)
  <2>1. PICK s \in Matches(k) : order' = Without(order, s) /\ entries' = entries
    BY <1>14 DEF Remove
  <2>2. s \in Slots /\ live[s] /\ Listed!Same(entries[s], k)
    BY <1>9
  <2>3. PICK i \in 1 .. Len(ks) : ks[i] = entries[s] /\ ks' = Dropped(ks, i)
    BY <1>8, <2>1, <2>2, Zenon
  <2>q. QED
    BY <2>2, <2>3, Zenon DEF Listed!Remove, Listed!Drop, Keyed, Dropped
<1>15. ASSUME Evict PROVE Listed!Evict
  <2>1. lru.tail \in Slots /\ live[lru.tail] /\ order' = Without(order, lru.tail) /\ entries' = entries
    BY <1>15, OnList DEF Evict, CanEvict
  <2>2. ks' = Dropped(ks, Len(ks)) /\ Len(ks) > 0
    BY <1>1, <1>8, <2>1
  <2>3. ks # <<>>
    BY <1>1, <2>2
  <2>q. QED
    BY <2>2, <2>3, Zenon DEF Listed!Evict, Listed!DropLast, Listed!Drop, Keyed, Dropped
<1>16. ASSUME Clear PROVE Listed!Clear
  BY <1>16 DEF Clear, Listed!Clear
<1>17. ASSUME UNCHANGED vars PROVE ks' = ks
  BY <1>17 DEF vars, Keyed
<1>18. ASSUME NEW k \in Keys, Put(k) \/ PutEvicts(k) \/ PutEvictsAndFails(k) \/ Get(k) \/ Remove(k)
       PROVE  Listed!Next
  BY <1>10, <1>11, <1>12, <1>14, <1>18 DEF Listed!Next
<1>19. ASSUME NEW s \in Slots, Promote(s) PROVE Listed!Next
  <2>1. PICK k \in Keys : Listed!Use(k)
    BY <1>13, <1>19
  <2>q. QED
    BY <2>1 DEF Listed!Next
<1>20. ASSUME Evict \/ Clear PROVE Listed!Next
  BY <1>15, <1>16, <1>20 DEF Listed!Next
<1>21. CASE UNCHANGED vars
  BY <1>17, <1>21
<1>22. CASE \E k \in Keys : \/ Put(k) \/ PutFails(k) \/ PutEvicts(k) \/ PutEvictsAndFails(k)
                            \/ Get(k) \/ Remove(k)
  <2>1. PICK k \in Keys : \/ Put(k) \/ PutFails(k) \/ PutEvicts(k) \/ PutEvictsAndFails(k)
                          \/ Get(k) \/ Remove(k)
    BY <1>22
  <2>2. CASE PutFails(k)
    BY <1>4, <2>2
  <2>q. QED
    BY <1>18, <2>1, <2>2
<1>23. CASE \E s \in Slots : Promote(s)
  BY <1>19, <1>23
<1>24. CASE Evict \/ Clear
  BY <1>20, <1>24
<1>q. QED
  BY <1>21, <1>22, <1>23, <1>24 DEF Next

\* ImplementsLru: what a client of ht_cache.c sees is the list of CacheList,
\* for every capacity, hash function and sequence of calls, those included
\* that fail for lack of memory.
THEOREM ImplementsLru == Spec => IsLru
<1>1. Init => Keyed(entries, order) = <<>>
  BY DEF Init, Keyed
<1>2. Inv /\ Inv' /\ [Next]_vars => [Listed!Next]_(Keyed(entries, order))
  BY ListStep
<1>q. QED
  BY <1>1, <1>2, Invariant, PTL DEF Spec, IsLru, Listed!Spec, Keyed
=============================================================================
