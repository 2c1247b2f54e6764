--------------------------- MODULE FifoLineProofs ---------------------------
(***************************************************************************)
(* What joining and leaving do to a line of requests, and whom a line      *)
(* entitles: the facts every proof about a lock rests on.                  *)
(***************************************************************************)
EXTENDS FifoLine, SequenceTheorems, TLAPS

EntryModes == {"shared", "exclusive"}

Entry(C) == [caller : C, mode : EntryModes]

\* A line of requests of C in which nobody stands twice.
IsLine(l, C) ==
  /\ l \in Seq(Entry(C))
  /\ \A i, j \in 1 .. Len(l) : l[i].caller = l[j].caller => i = j

HasMode(c, l, m) == \A i \in DOMAIN l : l[i].caller = c => l[i].mode = m

----------------------------------------------------------------------------
\* The places of a line are 1 .. Len(l), and each holds a request.
LEMMA LinePlaces ==
  ASSUME NEW C, NEW l \in Seq(Entry(C))
  PROVE  /\ Len(l) \in Nat /\ DOMAIN l = 1 .. Len(l)
         /\ \A i \in 1 .. Len(l) : l[i] \in Entry(C) /\ l[i].caller \in C /\ l[i].mode \in EntryModes
<1>1. Len(l) \in Nat /\ DOMAIN l = 1 .. Len(l)
  BY LenProperties
<1>2. \A i \in 1 .. Len(l) : l[i] \in Entry(C)
  BY ElementOfSeq
<1> QED
  BY <1>1, <1>2 DEF Entry

\* Who stands in a line stands at one place.
LEMMA PlaceOfInLine ==
  ASSUME NEW C, NEW l, IsLine(l, C), NEW c, InLine(c, l)
  PROVE  /\ PlaceOf(c, l) \in 1 .. Len(l)
         /\ l[PlaceOf(c, l)].caller = c
         /\ \A i \in 1 .. Len(l) : l[i].caller = c => i = PlaceOf(c, l)
<1>1. DOMAIN l = 1 .. Len(l)
  BY LinePlaces DEF IsLine
<1>2. PlaceOf(c, l) \in DOMAIN l /\ l[PlaceOf(c, l)].caller = c
  BY DEF InLine, PlaceOf
<1> QED
  BY <1>1, <1>2 DEF IsLine

\* To own is to stand at a place the rule entitles.
LEMMA OwnersStand ==
  ASSUME NEW C, NEW l, IsLine(l, C), NEW c
  PROVE  c \in OwnersOf(l) <=> InLine(c, l) /\ OwnsAt(l, PlaceOf(c, l))
<1>1. DOMAIN l = 1 .. Len(l)
  BY LinePlaces DEF IsLine
<1>2. ASSUME c \in OwnersOf(l)
      PROVE  InLine(c, l) /\ OwnsAt(l, PlaceOf(c, l))
  <2>1. PICK i \in DOMAIN l : OwnsAt(l, i) /\ l[i].caller = c
    BY <1>2 DEF OwnersOf
  <2>2. InLine(c, l)
    BY <2>1 DEF InLine
  <2> QED
    BY <1>1, <2>1, <2>2, PlaceOfInLine
<1>3. ASSUME InLine(c, l), OwnsAt(l, PlaceOf(c, l))
      PROVE  c \in OwnersOf(l)
  BY <1>1, <1>3, PlaceOfInLine DEF OwnersOf
<1> QED
  BY <1>2, <1>3

\* A newcomer stands last; everybody else keeps place, mode and lock.
LEMMA JoinKeeps ==
  ASSUME NEW C, NEW l, IsLine(l, C), NEW c \in C, ~InLine(c, l), NEW mode \in EntryModes
  PROVE  /\ IsLine(JoinLine(l, c, mode), C)
         /\ \A d : InLine(d, JoinLine(l, c, mode)) <=> d = c \/ InLine(d, l)
         /\ \A d : d \in OwnersOf(l) => d \in OwnersOf(JoinLine(l, c, mode))
         /\ \A d : InLine(d, l) =>
              /\ PlaceOf(d, JoinLine(l, c, mode)) = PlaceOf(d, l)
              /\ PlaceOf(d, l) < PlaceOf(c, JoinLine(l, c, mode))
         /\ HasMode(c, JoinLine(l, c, mode), mode)
         /\ \A d, m : d # c /\ HasMode(d, l, m) => HasMode(d, JoinLine(l, c, mode), m)
<1> DEFINE e == [caller |-> c, mode |-> mode]
           r == JoinLine(l, c, mode)
<1>1. l \in Seq(Entry(C)) /\ Len(l) \in Nat /\ DOMAIN l = 1 .. Len(l)
  BY LinePlaces DEF IsLine
<1>2. e \in Entry(C) /\ e.caller = c /\ e.mode = mode
  BY DEF Entry
<1> HIDE DEF e
<1>3. /\ r \in Seq(Entry(C)) /\ Len(r) = Len(l) + 1
      /\ DOMAIN r = 1 .. Len(l) + 1
      /\ \A i \in 1 .. Len(l) : r[i] = l[i]
      /\ r[Len(l) + 1] = e
  <2>1. r = Append(l, e)
    BY DEF JoinLine, e
  <2> HIDE DEF r
  <2>2. r \in Seq(Entry(C)) /\ Len(r) = Len(l) + 1
    BY <1>1, <1>2, <2>1, AppendProperties
  <2>3. \A i \in 1 .. Len(l) : r[i] = l[i]
    BY <1>1, <1>2, <2>1, AppendProperties
  <2>4. r[Len(l) + 1] = e
    BY <1>1, <1>2, <2>1, AppendProperties
  <2> QED
    BY <2>2, <2>3, <2>4, LenProperties
<1> HIDE DEF r
<1>4. \A i \in 1 .. Len(l) : l[i].caller # c
  BY <1>1 DEF InLine
<1>5. IsLine(r, C)
  BY <1>1, <1>2, <1>3, <1>4 DEF IsLine
<1>6. ASSUME NEW d
      PROVE  InLine(d, r) <=> d = c \/ InLine(d, l)
  <2>1. d = c => InLine(d, r)
    BY <1>1, <1>2, <1>3 DEF InLine
  <2>2. InLine(d, l) => InLine(d, r)
    BY <1>1, <1>3 DEF InLine
  <2>3. InLine(d, r) => d = c \/ InLine(d, l)
    BY <1>1, <1>2, <1>3 DEF InLine
  <2> QED
    BY <2>1, <2>2, <2>3
<1>7. ASSUME NEW d, d \in OwnersOf(l)
      PROVE  d \in OwnersOf(r)
  <2>1. PICK i \in 1 .. Len(l) : OwnsAt(l, i) /\ l[i].caller = d
    BY <1>1, <1>7 DEF OwnersOf
  <2>2. \A j \in 1 .. i : j \in 1 .. Len(l) /\ r[j] = l[j]
    BY <1>1, <1>3, <2>1
  <2>3. OwnsAt(r, i) /\ r[i].caller = d
    BY <1>1, <1>3, <2>1, <2>2 DEF OwnsAt
  <2> QED
    BY <1>1, <1>3, <2>1, <2>3 DEF OwnersOf
<1>8. HasMode(c, r, mode)
  BY <1>1, <1>2, <1>3, <1>4 DEF HasMode
<1>9. ASSUME NEW d, NEW m, d # c, HasMode(d, l, m)
      PROVE  HasMode(d, r, m)
  BY <1>1, <1>2, <1>3, <1>9 DEF HasMode
<1>10. ASSUME NEW d, InLine(d, l)
       PROVE  PlaceOf(d, r) = PlaceOf(d, l) /\ PlaceOf(d, l) < PlaceOf(c, r)
  <2>1. PlaceOf(d, l) \in 1 .. Len(l) /\ l[PlaceOf(d, l)].caller = d
    BY <1>10, PlaceOfInLine
  <2>2. r[PlaceOf(d, l)].caller = d /\ PlaceOf(d, l) \in 1 .. Len(r)
    BY <1>1, <1>3, <2>1
  <2>3. PlaceOf(d, l) = PlaceOf(d, r)
    BY <1>5, <1>6, <1>10, <2>2, PlaceOfInLine
  <2>4. r[Len(l) + 1].caller = c /\ Len(l) + 1 \in 1 .. Len(r) /\ InLine(c, r)
    BY <1>1, <1>2, <1>3, <1>6
  <2>5. Len(l) + 1 = PlaceOf(c, r)
    BY <1>5, <2>4, PlaceOfInLine
  <2> QED
    BY <1>1, <2>1, <2>3, <2>5
<1> QED
  BY <1>5, <1>6, <1>7, <1>8, <1>9, <1>10 DEF r

\* What is left of a line without its place i.
LEMMA RemoveAtPlaces ==
  ASSUME NEW S, NEW q \in Seq(S), NEW i \in 1 .. Len(q)
  PROVE  /\ RemoveAt(q, i) \in Seq(S)
         /\ Len(RemoveAt(q, i)) = Len(q) - 1
         /\ \A j \in 1 .. Len(q) - 1 :
              RemoveAt(q, i)[j] = IF j < i THEN q[j] ELSE q[j + 1]
<1> DEFINE a == SubSeq(q, 1, i - 1)
           b == SubSeq(q, i + 1, Len(q))
<1>1. Len(q) \in Nat /\ \A j \in 1 .. Len(q) : q[j] \in S
  BY LenProperties, ElementOfSeq
<1>2. /\ a \in Seq(S) /\ Len(a) = i - 1
      /\ \A j \in 1 .. i - 1 : a[j] = q[j]
  <2>1. \A j \in 1 .. i - 1 : q[j] \in S
    BY <1>1
  <2>2. /\ a \in Seq(S) /\ Len(a) = IF 1 <= i - 1 THEN i - 1 - 1 + 1 ELSE 0
        /\ \A j \in 1 .. i - 1 - 1 + 1 : a[j] = q[1 + j - 1]
    BY <1>1, <2>1, SubSeqProperties
  <2> HIDE DEF a
  <2> QED
    BY <1>1, <2>2
<1>3. /\ b \in Seq(S) /\ Len(b) = Len(q) - i
      /\ \A j \in 1 .. Len(q) - i : b[j] = q[i + j]
  <2>1. \A j \in i + 1 .. Len(q) : q[j] \in S
    BY <1>1
  <2>2. /\ b \in Seq(S)
        /\ Len(b) = IF i + 1 <= Len(q) THEN Len(q) - (i + 1) + 1 ELSE 0
        /\ \A j \in 1 .. Len(q) - (i + 1) + 1 : b[j] = q[i + 1 + j - 1]
    BY <1>1, <2>1, SubSeqProperties
  <2> HIDE DEF b
  <2> QED
    BY <1>1, <2>2
<1>4. /\ a \o b \in Seq(S)
      /\ Len(a \o b) = Len(a) + Len(b)
      /\ \A j \in 1 .. Len(a) + Len(b) :
           (a \o b)[j] = IF j <= Len(a) THEN a[j] ELSE b[j - Len(a)]
  <2> HIDE DEF a, b
  <2> QED
    BY <1>2, <1>3, ConcatProperties
<1>5. RemoveAt(q, i) = a \o b
  BY DEF RemoveAt
<1> HIDE DEF a, b
<1>6. Len(a) + Len(b) = Len(q) - 1
  BY <1>1, <1>2, <1>3
<1>7. ASSUME NEW j \in 1 .. Len(q) - 1
      PROVE  (a \o b)[j] = IF j < i THEN q[j] ELSE q[j + 1]
  <2>1. CASE j < i
    BY <1>1, <1>2, <1>4, <1>6, <1>7, <2>1
  <2>2. CASE ~(j < i)
    <3>1. ~(j <= Len(a)) /\ j - Len(a) \in 1 .. Len(q) - i
      BY <1>1, <1>2, <1>7, <2>2
    <3>2. b[j - Len(a)] = q[i + (j - Len(a))] /\ i + (j - Len(a)) = j + 1
      BY <1>1, <1>2, <1>3, <3>1
    <3> QED
      BY <1>4, <1>6, <1>7, <2>2, <3>1, <3>2
  <2> QED
    BY <2>1, <2>2
<1> QED
  BY <1>4, <1>5, <1>6, <1>7

\* Who leaves frees its place; everybody else keeps mode, order and lock.
LEMMA LeaveKeeps ==
  ASSUME NEW C, NEW l, IsLine(l, C), NEW c, InLine(c, l)
  PROVE  /\ IsLine(LeaveLine(l, c), C)
         /\ \A d : InLine(d, LeaveLine(l, c)) <=> d # c /\ InLine(d, l)
         /\ \A d : d # c /\ d \in OwnersOf(l) => d \in OwnersOf(LeaveLine(l, c))
         /\ \A d, e : /\ d # c /\ e # c /\ InLine(d, l) /\ InLine(e, l)
                     /\ PlaceOf(d, l) < PlaceOf(e, l)
                     => PlaceOf(d, LeaveLine(l, c)) < PlaceOf(e, LeaveLine(l, c))
         /\ \A d, m : HasMode(d, l, m) => HasMode(d, LeaveLine(l, c), m)
<1> DEFINE i == PlaceOf(c, l)
           r == LeaveLine(l, c)
           Old(j) == IF j < i THEN j ELSE j + 1
<1>1. l \in Seq(Entry(C)) /\ Len(l) \in Nat /\ DOMAIN l = 1 .. Len(l)
  BY LinePlaces DEF IsLine
<1>2. i \in 1 .. Len(l) /\ l[i].caller = c /\ \A j \in 1 .. Len(l) : l[j].caller = c => j = i
  BY PlaceOfInLine
<1> HIDE DEF i
<1>3. /\ r \in Seq(Entry(C)) /\ Len(r) = Len(l) - 1
      /\ \A j \in 1 .. Len(l) - 1 : r[j] = IF j < i THEN l[j] ELSE l[j + 1]
  <2>1. r = RemoveAt(l, i)
    BY DEF LeaveLine, i
  <2> HIDE DEF r
  <2> QED
    BY <1>1, <1>2, <2>1, RemoveAtPlaces
<1> HIDE DEF r
<1>4. DOMAIN r = 1 .. Len(l) - 1
  BY <1>3, LenProperties
<1>5. \A j \in 1 .. Len(l) - 1 :
        Old(j) \in 1 .. Len(l) /\ Old(j) # i /\ r[j] = l[Old(j)]
  BY <1>1, <1>2, <1>3
<1>6. \A k \in 1 .. Len(l) : k # i => \E j \in 1 .. Len(l) - 1 : Old(j) = k
  <2> SUFFICES ASSUME NEW k \in 1 .. Len(l), k # i
               PROVE  \E j \in 1 .. Len(l) - 1 : Old(j) = k
    OBVIOUS
  <2>1. CASE k < i
    <3>1. k \in 1 .. Len(l) - 1 /\ Old(k) = k
      BY <1>1, <1>2, <2>1
    <3> QED
      BY <3>1
  <2>2. CASE ~(k < i)
    <3>1. k - 1 \in 1 .. Len(l) - 1 /\ Old(k - 1) = k
      BY <1>1, <1>2, <2>2
    <3> QED
      BY <3>1
  <2> QED
    BY <2>1, <2>2
<1>7. \A j, k \in 1 .. Len(l) - 1 : /\ j < k => Old(j) < Old(k)
                                    /\ Old(j) = Old(k) => j = k
  BY <1>1, <1>2
<1> HIDE DEF Old
<1>8. IsLine(r, C)
  BY <1>1, <1>3, <1>5, <1>7 DEF IsLine
<1>9. ASSUME NEW d
      PROVE  InLine(d, r) <=> d # c /\ InLine(d, l)
  <2>1. InLine(d, r) => d # c /\ InLine(d, l)
    BY <1>1, <1>2, <1>4, <1>5 DEF InLine
  <2>2. ASSUME d # c, InLine(d, l)
        PROVE  InLine(d, r)
    <3>1. PICK k \in 1 .. Len(l) : l[k].caller = d
      BY <1>1, <2>2 DEF InLine
    <3>2. PICK j \in 1 .. Len(l) - 1 : Old(j) = k
      BY <1>2, <1>6, <2>2, <3>1
    <3> QED
      BY <1>4, <1>5, <3>1, <3>2 DEF InLine
  <2> QED
    BY <2>1, <2>2
<1>10. ASSUME NEW d, d # c, d \in OwnersOf(l)
       PROVE  d \in OwnersOf(r)
  <2>1. PICK k \in 1 .. Len(l) : OwnsAt(l, k) /\ l[k].caller = d
    BY <1>1, <1>10 DEF OwnersOf
  <2>2. PICK j \in 1 .. Len(l) - 1 : Old(j) = k
    BY <1>2, <1>6, <1>10, <2>1
  <2>3. r[j] = l[k] /\ j <= k
    BY <1>1, <1>2, <1>5, <2>2 DEF Old
  <2>4. OwnsAt(r, j)
    <3>1. CASE l[k].mode = "exclusive"
      BY <1>1, <2>1, <2>2, <2>3, <3>1 DEF OwnsAt
    <3>2. CASE l[k].mode # "exclusive"
      <4>1. \A m \in 1 .. k : l[m].mode = "shared"
        BY <2>1, <3>2 DEF OwnsAt
      <4>2. ASSUME NEW m \in 1 .. j
            PROVE  r[m].mode = "shared"
        <5>1. m \in 1 .. Len(l) - 1 /\ Old(m) \in 1 .. k
          BY <1>1, <1>5, <1>7, <2>2
        <5> QED
          BY <1>5, <4>1, <5>1
      <4> QED
        BY <2>3, <3>2, <4>2 DEF OwnsAt
    <3> QED
      BY <3>1, <3>2
  <2> QED
    BY <1>4, <2>1, <2>3, <2>4 DEF OwnersOf
<1>11. ASSUME NEW d, NEW m, HasMode(d, l, m)
       PROVE  HasMode(d, r, m)
  BY <1>1, <1>4, <1>5, <1>11 DEF HasMode
<1>12. ASSUME NEW d, d # c, InLine(d, l)
       PROVE  PlaceOf(d, r) \in 1 .. Len(l) - 1 /\ Old(PlaceOf(d, r)) = PlaceOf(d, l)
  <2>1. PlaceOf(d, r) \in 1 .. Len(l) - 1 /\ r[PlaceOf(d, r)].caller = d
    BY <1>3, <1>8, <1>9, <1>12, PlaceOfInLine
  <2>2. Old(PlaceOf(d, r)) \in 1 .. Len(l) /\ l[Old(PlaceOf(d, r))].caller = d
    BY <1>5, <2>1
  <2> QED
    BY <1>12, <2>1, <2>2, PlaceOfInLine
<1>13. ASSUME NEW d, NEW e, d # c, e # c, InLine(d, l), InLine(e, l),
              PlaceOf(d, l) < PlaceOf(e, l)
       PROVE  PlaceOf(d, r) < PlaceOf(e, r)
  <2> DEFINE a == PlaceOf(d, r)
             b == PlaceOf(e, r)
  <2>1. /\ a \in 1 .. Len(l) - 1 /\ b \in 1 .. Len(l) - 1
        /\ Old(a) < Old(b)
    BY <1>12, <1>13
  <2> HIDE DEF a, b
  <2>2. a < b
    BY <1>1, <1>2, <2>1 DEF Old
  <2> QED
    BY <2>2 DEF a, b
<1> QED
  BY <1>8, <1>9, <1>10, <1>11, <1>13 DEF r

\* Two owners of a line are both shared, and an owner with an exclusive
\* request anywhere in its line stands before it.
LEMMA OwnersShare ==
  ASSUME NEW C, NEW l, IsLine(l, C),
         NEW c, c \in OwnersOf(l), NEW d, d # c, InLine(d, l), HasMode(d, l, "exclusive")
  PROVE  d \notin OwnersOf(l) /\ PlaceOf(c, l) < PlaceOf(d, l)
<1>1. l \in Seq(Entry(C)) /\ Len(l) \in Nat /\ DOMAIN l = 1 .. Len(l)
  BY LinePlaces DEF IsLine
<1> DEFINE i == PlaceOf(c, l)
           k == PlaceOf(d, l)
<1>2. i \in 1 .. Len(l) /\ l[i].caller = c /\ OwnsAt(l, i)
  BY OwnersStand, PlaceOfInLine
<1>3. k \in 1 .. Len(l) /\ l[k].caller = d /\ i # k
  BY <1>2, PlaceOfInLine
<1> HIDE DEF i, k
<1>4. l[k].mode = "exclusive"
  BY <1>1, <1>3 DEF HasMode
<1>5. i < k
  <2>1. CASE l[i].mode = "exclusive"
    BY <1>2, <1>3, <2>1 DEF OwnsAt
  <2>2. CASE l[i].mode # "exclusive"
    BY <1>1, <1>2, <1>3, <1>4, <2>2 DEF OwnsAt
  <2> QED
    BY <2>1, <2>2
<1>6. ~OwnsAt(l, k)
  BY <1>2, <1>3, <1>4, <1>5 DEF OwnsAt
<1> QED
  BY <1>5, <1>6, OwnersStand DEF i, k
=============================================================================
