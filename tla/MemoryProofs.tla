---------------------------- MODULE MemoryProofs ----------------------------
(***************************************************************************)
(* What the files of the memory component keep, through power failures and *)
(* file operations that fail: the history of a session holds whole turns,  *)
(* and the index of the long-term memory counts what its records hold.     *)
(* The two share no state; each half is about one module.                  *)
(***************************************************************************)
EXTENDS MemoryStore, SessionHistory, FiniteSetTheorems, SequenceTheorems, TLAPS

-----------------------------------------------------------------------------
(* SessionHistory.  What the header in the file names was appended, and is  *)
(* whole turns, whether the file still holds it or not; once a request has *)
(* started all of it is older than the turn that is being written.  Both   *)
(* records of a turn enter the ring together and leave it together, which  *)
(* needs an even number of places.                                         *)

HistoryRecord == [turn : Nat, role : {"user", "assistant"}]
Places == Seq(Nat \ {0})

HistoryTypeOK ==
  /\ records \in Seq(HistoryRecord)
  /\ header \in Places /\ Len(header) <= MaxSlots
  /\ head \in Places
  /\ stage \in {"start", "user", "assistant", "header"}
  /\ turns \in Nat

Within(places, file) == \A n \in DOMAIN places : places[n] <= Len(file)
Over(places) == \A n \in DOMAIN places : records[places[n]].turn < turns

HistoryInv ==
  /\ HistoryTypeOK
  /\ \A k \in DOMAIN records : records[k].turn <= turns
  /\ Within(header, records) /\ Whole(Told(header, records))
  /\ stage # "start" => Over(header)
  /\ stage = "user" => head = header
  /\ stage = "assistant" =>
       /\ Len(records) >= 1
       /\ records[Len(records)] = Said(turns, "user")
       /\ head = Added(header, Len(records))
  /\ stage = "header" =>
       /\ Len(head) <= MaxSlots
       /\ Within(head, records) /\ Whole(Told(head, records))
  /\ WholeTurns

-----------------------------------------------------------------------------

\* What one record added to a header makes of it: it comes last, and the first
\* place goes when the header was full.
LEMMA TailAppend ==
  ASSUME NEW h \in Places, NEW a \in Nat \ {0}, h # <<>>
  PROVE  /\ Tail(Append(h, a)) \in Places
         /\ Len(Tail(Append(h, a))) = Len(h)
         /\ \A i \in 1..(Len(h) - 1) : Tail(Append(h, a))[i] = h[i + 1]
         /\ Tail(Append(h, a))[Len(h)] = a
<1> DEFINE f == Append(h, a)
<1>1. /\ f \in Places /\ f # <<>> /\ Len(f) = Len(h) + 1
      /\ \A i \in 1..Len(h) : f[i] = h[i]
      /\ f[Len(h) + 1] = a
  BY AppendProperties DEF Places
<1> HIDE DEF f
<1>2. /\ Tail(f) \in Places /\ Len(Tail(f)) = Len(f) - 1
      /\ \A i \in 1..Len(Tail(f)) : Tail(f)[i] = f[i + 1]
  BY <1>1, HeadTailProperties DEF Places
<1>3. Len(h) \in Nat \ {0}
  BY DEF Places
<1> QED
  BY <1>1, <1>2, <1>3 DEF f

LEMMA Parity ==
  /\ \A n \in Nat : Even(n + 2) <=> Even(n)
  /\ \A n \in Nat : Even(n + 1) <=> ~ Even(n)
  /\ \A n, m \in Nat : Even(n) /\ Even(m) /\ n < m => n + 2 <= m
<1>1. \A n \in Nat : Even(n + 2) <=> Even(n)
  BY DEF Even
<1>2. \A n \in Nat : Even(n + 1) <=> ~ Even(n)
  BY DEF Even
<1>3. \A n, m \in Nat : Even(n) /\ Even(m) /\ n < m => n + 2 <= m
  BY DEF Even
<1> QED
  BY <1>1, <1>2, <1>3

LEMMA Slots == MaxSlots \in Nat /\ MaxSlots >= 2 /\ Even(MaxSlots)
<1>1. MaxSlots \in Nat \ {0} /\ Even(MaxSlots)
  BY HistoryAssumption DEF HistoryAssumption
<1>2. MaxSlots # 1
  BY <1>1 DEF Even
<1> QED
  BY <1>1, <1>2

LEMMA OneMore ==
  ASSUME NEW h \in Places, NEW a \in Nat \ {0}, Len(h) < MaxSlots
  PROVE  /\ Added(h, a) \in Places
         /\ Len(Added(h, a)) = Len(h) + 1
         /\ \A i \in 1..Len(h) : Added(h, a)[i] = h[i]
         /\ Added(h, a)[Len(h) + 1] = a
<1>1. Added(h, a) = Append(h, a)
  BY Slots DEF Added, Kept, Places
<1> QED
  BY <1>1, AppendProperties DEF Places

LEMMA OneMoreWhenFull ==
  ASSUME NEW h \in Places, NEW a \in Nat \ {0}, Len(h) = MaxSlots
  PROVE  /\ Added(h, a) \in Places
         /\ Len(Added(h, a)) = MaxSlots
         /\ \A i \in 1..(MaxSlots - 1) : Added(h, a)[i] = h[i + 1]
         /\ Added(h, a)[MaxSlots] = a
<1>1. Added(h, a) = Tail(Append(h, a)) /\ h # <<>>
  BY Slots DEF Added, Kept, Places
<1> QED
  BY <1>1, TailAppend

\* Two records: both come last, and two places go when it was full.
Longer(h, g, a, b, d) ==
  /\ g \in Places
  /\ Len(g) = Len(h) + 2 - d /\ Len(g) <= MaxSlots /\ Len(g) >= 2
  /\ \A i \in 1..(Len(g) - 2) : i + d \in DOMAIN h /\ g[i] = h[i + d]
  /\ g[Len(g) - 1] = a /\ g[Len(g)] = b

LEMMA TwoMore ==
  ASSUME NEW h \in Places, Len(h) <= MaxSlots, Even(Len(h)),
         NEW a \in Nat \ {0}, NEW b \in Nat \ {0}
  PROVE  \/ Longer(h, Added(Added(h, a), b), a, b, 0)
         \/ Longer(h, Added(Added(h, a), b), a, b, 2)
<1> DEFINE k == Added(h, a)
           g == Added(k, b)
<1>1. Len(h) \in Nat /\ DOMAIN h = 1..Len(h)
  BY DEF Places
<1>2. CASE Len(h) = MaxSlots
  <2>1. k \in Places /\ Len(k) = MaxSlots
    BY <1>2, OneMoreWhenFull
  <2>2. \A i \in 1..(MaxSlots - 1) : k[i] = h[i + 1]
    BY <1>2, OneMoreWhenFull
  <2>3. k[MaxSlots] = a
    BY <1>2, OneMoreWhenFull
  <2>4. g \in Places /\ Len(g) = MaxSlots
    BY <2>1, OneMoreWhenFull
  <2>5. \A i \in 1..(MaxSlots - 1) : g[i] = k[i + 1]
    BY <2>1, OneMoreWhenFull
  <2>6. g[MaxSlots] = b
    BY <2>1, OneMoreWhenFull
  <2> HIDE DEF k, g
  <2>7. g[MaxSlots - 1] = a
    <3>1. MaxSlots - 1 \in 1..(MaxSlots - 1) /\ MaxSlots - 1 + 1 = MaxSlots
      BY Slots
    <3> QED
      BY <3>1, <2>3, <2>5
  <2>8. ASSUME NEW i \in 1..(MaxSlots - 2) PROVE i + 2 \in DOMAIN h /\ g[i] = h[i + 2]
    <3>1. /\ i \in 1..(MaxSlots - 1) /\ i + 1 \in 1..(MaxSlots - 1)
          /\ i + 1 + 1 = i + 2 /\ i + 2 \in 1..MaxSlots
      BY Slots
    <3>2. g[i] = k[i + 1] /\ k[i + 1] = h[i + 1 + 1]
      BY <3>1, <2>2, <2>5
    <3> QED
      BY <3>1, <3>2, <1>1, <1>2
  <2>9. Len(g) = Len(h) + 2 - 2 /\ Len(g) <= MaxSlots /\ Len(g) >= 2
    BY <1>2, <2>4, Slots
  <2>11. \A i \in 1..(Len(g) - 2) : i + 2 \in DOMAIN h /\ g[i] = h[i + 2]
    BY <2>4, <2>8
  <2>12. g[Len(g) - 1] = a /\ g[Len(g)] = b
    BY <2>4, <2>6, <2>7
  <2>15. Longer(h, g, a, b, 2)
    BY <2>4, <2>9, <2>11, <2>12 DEF Longer
  <2> QED
    BY <2>15 DEF k, g
<1>3. CASE Len(h) # MaxSlots
  <2>1. Len(h) + 2 <= MaxSlots
    <3>1. Len(h) < MaxSlots
      <4>1. Len(h) \in Nat /\ MaxSlots \in Nat
        BY <1>1, Slots
      <4> QED
        BY <1>3, <4>1
    <3> QED
      BY <3>1, <1>1, Slots, Parity
  <2>2. Len(h) < MaxSlots /\ Len(h) + 1 < MaxSlots
    BY <1>1, <2>1, Slots
  <2>3. k \in Places /\ Len(k) = Len(h) + 1
    BY <2>2, OneMore
  <2>4. \A i \in 1..Len(h) : k[i] = h[i]
    BY <2>2, OneMore
  <2>5. k[Len(h) + 1] = a
    BY <2>2, OneMore
  <2>6. Len(k) < MaxSlots
    BY <2>2, <2>3
  <2>7. g \in Places /\ Len(g) = Len(k) + 1
    BY <2>3, <2>6, OneMore
  <2>8. \A i \in 1..Len(k) : g[i] = k[i]
    BY <2>3, <2>6, OneMore
  <2>9. g[Len(k) + 1] = b
    BY <2>3, <2>6, OneMore
  <2> HIDE DEF k, g
  <2>10. Len(g) = Len(h) + 2 - 0 /\ Len(g) <= MaxSlots /\ Len(g) >= 2
    BY <1>1, <2>1, <2>3, <2>7, Slots
  <2>11. Len(g) = Len(h) + 2 /\ Len(g) - 1 = Len(k) /\ Len(g) - 2 = Len(h)
    BY <1>1, <2>3, <2>7
  <2>13. \A i \in 1..(Len(g) - 2) : i + 0 \in DOMAIN h /\ g[i] = h[i + 0]
    BY <1>1, <2>3, <2>4, <2>8, <2>11
  <2>14. g[Len(g) - 1] = a /\ g[Len(g)] = b
    BY <1>1, <2>3, <2>5, <2>7, <2>8, <2>9, <2>11
  <2>15. Longer(h, g, a, b, 0)
    BY <2>7, <2>10, <2>13, <2>14 DEF Longer
  <2> QED
    BY <2>15 DEF k, g
<1> QED
  BY <1>2, <1>3

\* Whole turns stay whole when the first of them goes and a later one comes.
LEMMA WholeMore ==
  ASSUME NEW f \in Seq(HistoryRecord), NEW g \in Seq(HistoryRecord), NEW t \in Nat,
         NEW d \in {0, 2}, Len(g) = Len(f) + 2 - d, Len(g) >= 2,
         \A i \in 1..(Len(g) - 2) : g[i] = f[i + d],
         g[Len(g) - 1] = Said(t, "user"), g[Len(g)] = Said(t, "assistant"),
         Whole(f), \A i \in 1..Len(f) : f[i].turn < t
  PROVE  Whole(g)
<1>1. Len(f) \in Nat /\ Len(g) \in Nat /\ DOMAIN f = 1..Len(f) /\ DOMAIN g = 1..Len(g)
  OBVIOUS
<1>2. Even(Len(f)) /\ Even(Len(g))
  <2>1. Even(Len(f))
    BY DEF Whole
  <2>2. CASE d = 2
    BY <1>1, <2>1, <2>2
  <2>3. CASE d = 0
    BY <1>1, <2>1, <2>3, Parity
  <2> QED
    BY <2>1, <2>2, <2>3
<1>3. \A i \in 1..(Len(g) - 2) : i + d \in 1..Len(f)
  BY <1>1
<1>4. ASSUME NEW n \in 1..Len(g), n <= Len(g) - 2
      PROVE  /\ g[n].role = (IF Even(n) THEN "assistant" ELSE "user")
             /\ Even(n) => g[n].turn = g[n - 1].turn
             /\ n > 2 => g[n - 2].turn < g[n].turn
  <2>1. /\ n \in 1..(Len(g) - 2) /\ n + d \in 1..Len(f) /\ n \in Nat
        /\ n + d = n \/ n + d = n + 2
    BY <1>1, <1>4
  <2>2. Even(n + d) <=> Even(n)
    BY <2>1, Parity
  <2>3. g[n] = f[n + d]
    BY <2>1
  <2>4. /\ f[n + d].role = (IF Even(n + d) THEN "assistant" ELSE "user")
        /\ Even(n + d) => f[n + d].turn = f[n + d - 1].turn
        /\ n + d > 2 => f[n + d - 2].turn < f[n + d].turn
    <3>1. \A m \in 1..Len(f) :
            /\ f[m].role = (IF Even(m) THEN "assistant" ELSE "user")
            /\ Even(m) => f[m].turn = f[m - 1].turn
            /\ m > 2 => f[m - 2].turn < f[m].turn
      BY <1>1 DEF Whole
    <3> QED
      BY <2>1, <3>1
  <2>5. g[n].role = (IF Even(n) THEN "assistant" ELSE "user")
    BY <2>2, <2>3, <2>4
  <2>6. ASSUME Even(n) PROVE g[n].turn = g[n - 1].turn
    <3>1. n # 1
      BY <2>6 DEF Even
    <3>2. n - 1 \in 1..(Len(g) - 2) /\ n - 1 + d = n + d - 1
      BY <2>1, <3>1
    <3>3. g[n - 1] = f[n - 1 + d]
      BY <3>2
    <3> QED
      BY <2>2, <2>3, <2>4, <2>6, <3>2, <3>3
  <2>7. ASSUME n > 2 PROVE g[n - 2].turn < g[n].turn
    <3>1. n - 2 \in 1..(Len(g) - 2) /\ n - 2 + d = n + d - 2 /\ n + d > 2
      BY <2>1, <2>7
    <3>2. g[n - 2] = f[n - 2 + d]
      BY <3>1
    <3> QED
      BY <2>3, <2>4, <3>1, <3>2
  <2> QED
    BY <2>5, <2>6, <2>7
<1>5. ASSUME NEW n \in 1..Len(g), n > Len(g) - 2
      PROVE  /\ g[n].role = (IF Even(n) THEN "assistant" ELSE "user")
             /\ Even(n) => g[n].turn = g[n - 1].turn
             /\ n > 2 => g[n - 2].turn < g[n].turn
  <2>1. ASSUME n > 2 PROVE g[n - 2].turn < t
    <3>1. n - 2 \in 1..(Len(g) - 2)
      BY <1>1, <1>5, <2>1
    <3>2. g[n - 2] = f[n - 2 + d] /\ n - 2 + d \in 1..Len(f)
      BY <1>3, <3>1
    <3> QED
      BY <3>2
  <2>2. CASE n = Len(g)
    <3>1. Even(n) /\ g[n] = Said(t, "assistant") /\ g[n - 1] = Said(t, "user")
      BY <1>2, <2>2
    <3> QED
      BY <2>1, <3>1 DEF Said
  <2>3. CASE n = Len(g) - 1
    <3>1. ~ Even(n)
      <4>1. n \in Nat /\ n + 1 = Len(g)
        BY <1>1, <2>3
      <4> QED
        BY <1>2, <4>1, Parity
    <3>2. g[n] = Said(t, "user")
      BY <2>3
    <3> QED
      BY <2>1, <3>1, <3>2 DEF Said
  <2>4. n = Len(g) \/ n = Len(g) - 1
    BY <1>1, <1>5
  <2> QED
    BY <2>2, <2>3, <2>4
<1>6. \A n \in 1..Len(g) : n <= Len(g) - 2 \/ n > Len(g) - 2
  BY <1>1
<1> QED
  BY <1>1, <1>2, <1>4, <1>5, <1>6 DEF Whole

LEMMA ToldType ==
  ASSUME NEW r \in Seq(HistoryRecord), NEW h \in Places, Within(h, r)
  PROVE  /\ Told(h, r) \in Seq(HistoryRecord) /\ Len(Told(h, r)) = Len(h)
         /\ \A n \in 1..Len(h) : Told(h, r)[n] = r[h[n]] /\ h[n] \in 1..Len(r)
<1>1. Len(h) \in Nat /\ DOMAIN h = 1..Len(h) /\ \A n \in 1..Len(h) : h[n] \in Nat \ {0}
  BY DEF Places
<1>2. \A n \in 1..Len(h) : h[n] \in 1..Len(r)
  BY <1>1 DEF Within
<1>3. Told(h, r) = [n \in 1..Len(h) |-> r[h[n]]]
  BY <1>1 DEF Told
<1>4. \A n \in 1..Len(h) : r[h[n]] \in HistoryRecord
  BY <1>2
<1>5. Told(h, r) \in Seq(HistoryRecord) /\ Len(Told(h, r)) = Len(h)
  BY <1>1, <1>3, <1>4, IsASeq
<1> QED
  BY <1>2, <1>3, <1>5

\* A header that names whole turns names one more when both records of it
\* are added.
LEMMA OneTurnMore ==
  ASSUME NEW r \in Seq(HistoryRecord), NEW h \in Places, NEW t \in Nat,
         Len(h) <= MaxSlots, Within(h, r), Whole(Told(h, r)),
         \A n \in DOMAIN h : r[h[n]].turn < t,
         NEW a \in 1..Len(r), r[a] = Said(t, "user"),
         NEW b \in 1..Len(r), r[b] = Said(t, "assistant")
  PROVE  LET g == Added(Added(h, a), b)
         IN  /\ g \in Places /\ g # <<>> /\ Len(g) <= MaxSlots /\ g[Len(g)] = b
             /\ Within(g, r) /\ Whole(Told(g, r))
<1> DEFINE g == Added(Added(h, a), b)
           f == Told(h, r)
           k == Told(g, r)
<1>1. f \in Seq(HistoryRecord) /\ Len(f) = Len(h)
  BY ToldType
<1>2. \A n \in 1..Len(h) : f[n] = r[h[n]] /\ h[n] \in 1..Len(r)
  BY ToldType
<1>3. Len(h) \in Nat /\ DOMAIN h = 1..Len(h) /\ a \in Nat \ {0} /\ b \in Nat \ {0}
  BY DEF Places
<1>4. Even(Len(h))
  BY <1>1 DEF Whole
<1>5. PICK d \in {0, 2} : Longer(h, g, a, b, d)
  BY <1>3, <1>4, TwoMore
<1> HIDE DEF g
<1> USE DEF Longer
<1>6. Len(g) \in Nat /\ DOMAIN g = 1..Len(g)
  BY <1>5 DEF Places
<1>7. \A i \in 1..Len(g) : i <= Len(g) - 2 \/ i = Len(g) - 1 \/ i = Len(g)
  <2> DEFINE m == Len(g)
  <2>1. m \in Nat => \A i \in 1..m : i <= m - 2 \/ i = m - 1 \/ i = m
    OBVIOUS
  <2> QED
    BY <1>6, <2>1
<1>8. \A i \in 1..Len(g) : i <= Len(g) - 2 => i \in 1..(Len(g) - 2)
  BY <1>6
<1>9. \A i \in 1..(Len(g) - 2) : g[i] = h[i + d] /\ i + d \in 1..Len(h)
  BY <1>3, <1>5
<1>10. \A i \in 1..Len(g) : g[i] \in 1..Len(r)
  BY <1>2, <1>5, <1>7, <1>8, <1>9
<1>11. Within(g, r)
  BY <1>6, <1>10 DEF Within
<1>12. k \in Seq(HistoryRecord) /\ Len(k) = Len(g)
  BY <1>5, <1>11, ToldType
<1>13. \A n \in 1..Len(g) : k[n] = r[g[n]]
  BY <1>5, <1>11, ToldType
<1> HIDE DEF f, k
<1>14. \A i \in 1..(Len(k) - 2) : k[i] = f[i + d]
  <2> SUFFICES ASSUME NEW i \in 1..(Len(g) - 2) PROVE k[i] = f[i + d]
    BY <1>12
  <2>1. i \in 1..Len(g)
    BY <1>6
  <2> QED
    BY <2>1, <1>2, <1>9, <1>13
<1>15. k[Len(k) - 1] = Said(t, "user") /\ k[Len(k)] = Said(t, "assistant")
  <2>1. Len(g) - 1 \in 1..Len(g) /\ Len(g) \in 1..Len(g)
    BY <1>5, <1>6
  <2> QED
    BY <2>1, <1>5, <1>12, <1>13
<1>16. \A i \in 1..Len(f) : f[i].turn < t
  BY <1>1, <1>2, <1>3
<1>17. Whole(f)
  BY DEF f
<1>18. Whole(k)
  BY <1>1, <1>5, <1>12, <1>14, <1>15, <1>16, <1>17, WholeMore
<1>19. g # <<>>
  BY <1>5
<1> QED
  BY <1>5, <1>11, <1>18, <1>19 DEF g, k

\* A header says the same of two files that agree on what it names.
LEMMA ToldSame ==
  ASSUME NEW h \in Places, NEW r \in Seq(HistoryRecord), NEW f \in Seq(HistoryRecord),
         \A n \in 1..Len(h) : h[n] <= Len(r) /\ h[n] <= Len(f),
         \A k \in Nat \ {0} : k <= Len(r) /\ k <= Len(f) => r[k] = f[k]
  PROVE  Told(h, r) = Told(h, f) /\ Within(h, r) /\ Within(h, f)
<1>1. DOMAIN h = 1..Len(h) /\ \A n \in 1..Len(h) : h[n] \in Nat \ {0}
  BY DEF Places
<1>2. \A n \in 1..Len(h) : r[h[n]] = f[h[n]]
  BY <1>1
<1>3. Told(h, r) = [n \in 1..Len(h) |-> r[h[n]]] /\ Told(h, f) = [n \in 1..Len(h) |-> f[h[n]]]
  BY <1>1 DEF Told
<1>4. Told(h, r) = Told(h, f)
  BY <1>2, <1>3
<1> QED
  BY <1>1, <1>4 DEF Within

LEMMA WholeEmpty == Whole(<<>>) /\ \A r : Told(<<>>, r) = <<>> /\ Within(<<>>, r)
<1>1. Even(0)
  BY DEF Even
<1>2. \A r : Told(<<>>, r) = <<>>
  BY DEF Told
<1> QED
  BY <1>1, <1>2 DEF Whole, Within

LEMMA HistoryTypeStep == HistoryInv /\ [HistoryNext]_historyVars => HistoryTypeOK'
<1> SUFFICES ASSUME HistoryInv, [HistoryNext]_historyVars PROVE HistoryTypeOK'
  OBVIOUS
<1> USE DEF HistoryTypeOK
<1>1. HistoryTypeOK /\ MaxSlots \in Nat
  BY Slots DEF HistoryInv
<1>2. CASE LoadHistory
  <2>1. <<>> \in Places /\ <<>> \in Seq(HistoryRecord) /\ Len(<<>>) <= MaxSlots
    BY <1>1 DEF Places
  <2>2. /\ records' = records \/ records' = <<>>
        /\ header' = header \/ header' = <<>>
        /\ head' = header' /\ stage' = "user" /\ turns' = turns + 1
    BY <1>2 DEF LoadHistory
  <2> QED
    <3>1. records' \in Seq(HistoryRecord)
      BY <1>1, <2>1, <2>2
    <3>2. header' \in Places /\ Len(header') <= MaxSlots
      BY <1>1, <2>1, <2>2
    <3> QED
      BY <1>1, <2>2, <3>1, <3>2
<1>3. ASSUME NEW from \in {"user", "assistant"}, NEW to \in {"assistant", "header"},
             NEW role \in {"user", "assistant"}, AppendRecord(from, to, role),
             head \in Places, Len(head) <= MaxSlots
      PROVE  HistoryTypeOK'
  <2>1. Said(turns, role) \in HistoryRecord
    BY <1>1 DEF Said, HistoryRecord
  <2>2. records' \in Seq(HistoryRecord) /\ Len(records') \in Nat \ {0}
    BY <1>1, <1>3, <2>1 DEF AppendRecord
  <2>3. head' \in Places
    <3>1. CASE Len(head) = MaxSlots
      BY <1>3, <2>2, <3>1, OneMoreWhenFull DEF AppendRecord
    <3>2. CASE Len(head) < MaxSlots
      BY <1>3, <2>2, <3>2, OneMore DEF AppendRecord
    <3> QED
      BY <1>1, <1>3, <3>1, <3>2 DEF Places
  <2> QED
    BY <1>1, <1>3, <2>2, <2>3 DEF AppendRecord
<1>4. CASE AppendRecord("user", "assistant", "user")
  BY <1>1, <1>3, <1>4 DEF HistoryInv, AppendRecord
<1>5. CASE AppendRecord("assistant", "header", "assistant")
  <2>1. head = Added(header, Len(records)) /\ Len(records) \in Nat \ {0}
    BY <1>1, <1>5 DEF HistoryInv, AppendRecord
  <2>2. Len(head) <= MaxSlots
    <3>1. CASE Len(header) = MaxSlots
      BY <1>1, <2>1, <3>1, OneMoreWhenFull
    <3>2. CASE Len(header) < MaxSlots
      <4>1. Len(head) = Len(header) + 1 /\ Len(header) \in Nat
        BY <1>1, <2>1, <3>2, OneMore DEF Places
      <4> QED
        BY <1>1, <3>2, <4>1
    <3> QED
      BY <1>1, <3>1, <3>2 DEF Places
  <2> QED
    BY <1>1, <1>3, <1>5, <2>2
<1>6. CASE GiveUp
  BY <1>1, <1>6 DEF GiveUp
<1>7. CASE WriteHeader
  BY <1>1, <1>7 DEF WriteHeader, HistoryInv
<1>8. CASE PowerCut
  <2>1. records' = records
    BY <1>8 DEF PowerCut
  <2>2. header' \in Places /\ Len(header') <= MaxSlots
    BY <1>1, <1>8 DEF PowerCut, HistoryInv
  <2> QED
    BY <1>1, <1>8, <2>1, <2>2 DEF PowerCut
<1>9. CASE UNCHANGED historyVars
  BY <1>1, <1>9 DEF historyVars
<1> QED
  BY <1>2, <1>4, <1>5, <1>6, <1>7, <1>8, <1>9 DEF HistoryNext

LEMMA HistoryStep == HistoryInv /\ [HistoryNext]_historyVars => HistoryInv'
<1> SUFFICES ASSUME HistoryInv, [HistoryNext]_historyVars PROVE HistoryInv'
  OBVIOUS
<1>1. HistoryTypeOK'
  BY HistoryTypeStep
<1>2. HistoryTypeOK /\ MaxSlots \in Nat
  BY Slots DEF HistoryInv
<1>3. CASE LoadHistory
  <2>1. \A k \in DOMAIN records : records[k] \in HistoryRecord
    BY <1>2 DEF HistoryTypeOK
  <2>2. \A k \in DOMAIN records : records[k].turn \in Nat /\ records[k].turn <= turns
    BY <2>1 DEF HistoryRecord, HistoryInv
  <2>3. CASE UNCHANGED <<records, header>> /\ loaded' \in {<<>>, Told(header, records)}
    <3>1. UNCHANGED <<records, header>> /\ head' = header /\ stage' = "user"
      BY <1>3, <2>3 DEF LoadHistory
    <3>2. \A k \in DOMAIN records : records[k].turn < turns'
      <4>1. turns' = turns + 1 /\ turns \in Nat
        BY <1>2, <1>3 DEF LoadHistory, HistoryTypeOK
      <4> QED
        BY <2>1, <2>2, <4>1
    <3>3. \A n \in DOMAIN header : header[n] \in DOMAIN records
      BY <1>2 DEF Within, HistoryTypeOK, HistoryInv, Places
    <3>4. Over(header)'
      BY <3>1, <3>2, <3>3 DEF Over
    <3>5. \A k \in DOMAIN records' : records'[k].turn <= turns'
      <4>1. turns' = turns + 1 /\ turns \in Nat
        BY <1>2, <1>3 DEF LoadHistory, HistoryTypeOK
      <4> QED
        BY <2>1, <2>2, <3>1, <4>1
    <3>6. WholeTurns'
      BY <2>3, WholeEmpty DEF WholeTurns, HistoryInv
    <3>7. (Within(header, records) /\ Whole(Told(header, records)))'
      BY <3>1 DEF HistoryInv
    <3> QED
      BY <1>1, <3>1, <3>4, <3>5, <3>6, <3>7 DEF HistoryInv
  <2>4. CASE records' = <<>> /\ header' = <<>> /\ loaded' = <<>>
    <3>1. head' = <<>> /\ stage' = "user"
      BY <1>3, <2>4 DEF LoadHistory
    <3>2. Whole(loaded') /\ Whole(Told(header', records')) /\ Within(header', records')
      BY <2>4, WholeEmpty
    <3>3. Over(header)' /\ \A k \in DOMAIN records' : records'[k].turn <= turns'
      BY <2>4 DEF Over
    <3> QED
      BY <1>1, <2>4, <3>1, <3>2, <3>3 DEF HistoryInv, WholeTurns
  <2> QED
    BY <1>3, <2>3, <2>4 DEF LoadHistory
<1>4. ASSUME NEW from \in {"user", "assistant"}, NEW to, NEW role,
             AppendRecord(from, to, role)
      PROVE  /\ \A k \in DOMAIN records' : records'[k].turn <= turns'
             /\ Within(header, records') /\ Whole(Told(header, records'))
             /\ Over(header)'
             /\ Len(records') = Len(records) + 1
             /\ records'[Len(records')] = Said(turns, role)
             /\ \A k \in 1..Len(records) : records'[k] = records[k]
  <2>1. Within(header, records) /\ Over(header) /\ Whole(Told(header, records))
    BY <1>4 DEF AppendRecord, HistoryInv
  <2>2. Len(records) \in Nat /\ DOMAIN records = 1..Len(records) /\ turns \in Nat
    BY <1>2 DEF HistoryTypeOK
  <2>3. /\ DOMAIN records' = 1..Len(records') /\ Len(records') = Len(records) + 1
        /\ \A k \in 1..Len(records) : records'[k] = records[k]
        /\ records'[Len(records')] = Said(turns, role)
    BY <1>2, <1>4 DEF AppendRecord, HistoryTypeOK
  <2>4. \A n \in 1..Len(header) : header[n] \in 1..Len(records)
    BY <1>2, <2>1 DEF Within, HistoryTypeOK, Places
  <2>5. Told(header, records) = Told(header, records') /\ Within(header, records')
    <3>1. \A n \in 1..Len(header) : header[n] <= Len(records) /\ header[n] <= Len(records')
      BY <2>2, <2>3, <2>4
    <3>2. \A k \in Nat \ {0} : k <= Len(records) /\ k <= Len(records') => records[k] = records'[k]
      BY <2>2, <2>3
    <3>3. header \in Places /\ records \in Seq(HistoryRecord) /\ records' \in Seq(HistoryRecord)
      BY <1>1, <1>2 DEF HistoryTypeOK
    <3> QED
      BY <3>1, <3>2, <3>3, ToldSame
  <2>6. Over(header)'
    <3>1. header' = header /\ turns' = turns
      BY <1>4 DEF AppendRecord
    <3>2. DOMAIN header = 1..Len(header)
      BY <1>2 DEF HistoryTypeOK, Places
    <3> QED
      BY <2>1, <2>3, <2>4, <3>1, <3>2 DEF Over
  <2>7. \A k \in DOMAIN records' : records'[k].turn <= turns'
    <3>1. turns' = turns /\ Said(turns, role).turn = turns
      BY <1>4 DEF AppendRecord, Said
    <3>2. \A k \in 1..Len(records) : records[k].turn <= turns
      BY <2>2 DEF HistoryInv
    <3>3. \A k \in 1..Len(records') : k \in 1..Len(records) \/ k = Len(records')
      BY <2>2, <2>3
    <3> QED
      BY <2>2, <2>3, <3>1, <3>2, <3>3
  <2> QED
    BY <2>1, <2>3, <2>5, <2>6, <2>7
<1>5. CASE AppendRecord("user", "assistant", "user")
  <2>1. stage' = "assistant" /\ head = header /\ head' = Added(header, Len(records'))
        /\ UNCHANGED <<header, turns, loaded>>
    BY <1>5 DEF AppendRecord, HistoryInv
  <2>2. Len(records') >= 1
    BY <1>2, <1>4, <1>5 DEF HistoryTypeOK
  <2>3. WholeTurns'
    BY <2>1 DEF WholeTurns, HistoryInv
  <2> QED
    BY <1>1, <1>4, <1>5, <2>1, <2>2, <2>3 DEF HistoryInv
<1>6. CASE AppendRecord("assistant", "header", "assistant")
  <2>1. /\ stage' = "header" /\ UNCHANGED <<header, turns, loaded>>
        /\ head' = Added(Added(header, Len(records)), Len(records'))
    BY <1>6 DEF AppendRecord, HistoryInv
  <2>2. /\ Len(records) >= 1 /\ Len(records) \in Nat
        /\ records[Len(records)] = Said(turns, "user")
    BY <1>2, <1>6 DEF AppendRecord, HistoryInv, HistoryTypeOK
  <2>3. /\ Len(records') = Len(records) + 1
        /\ records'[Len(records')] = Said(turns, "assistant")
        /\ records'[Len(records)] = Said(turns, "user")
    BY <1>4, <1>6, <2>2
  <2>4. Len(records) \in 1..Len(records') /\ Len(records') \in 1..Len(records')
    BY <2>2, <2>3
  <2>5. /\ records' \in Seq(HistoryRecord) /\ header \in Places /\ turns \in Nat
        /\ Len(header) <= MaxSlots
    BY <1>1, <1>2 DEF HistoryTypeOK
  <2>6. /\ Within(header, records') /\ Whole(Told(header, records'))
        /\ \A n \in DOMAIN header : records'[header[n]].turn < turns
    BY <1>4, <1>6, <2>1 DEF Over
  <2>7. Len(head') <= MaxSlots /\ Within(head', records') /\ Whole(Told(head', records'))
    BY <2>1, <2>3, <2>4, <2>5, <2>6, OneTurnMore
  <2>8. WholeTurns'
    BY <2>1 DEF WholeTurns, HistoryInv
  <2> QED
    BY <1>1, <1>4, <1>6, <2>1, <2>7, <2>8 DEF HistoryInv
<1>7. CASE GiveUp
  BY <1>1, <1>7 DEF GiveUp, HistoryInv, WholeTurns
<1>8. CASE WriteHeader
  BY <1>1, <1>8 DEF WriteHeader, HistoryInv, WholeTurns
<1>9. CASE PowerCut
  <2>1. UNCHANGED <<records, head, turns, loaded>> /\ stage' = "start"
    BY <1>9 DEF PowerCut
  <2>2. Within(header', records') /\ Whole(Told(header', records'))
    <3>1. CASE header' = header
      BY <2>1, <3>1 DEF HistoryInv
    <3>2. CASE stage = "header" /\ header' = head
      BY <2>1, <3>2 DEF HistoryInv
    <3> QED
      BY <1>9, <3>1, <3>2 DEF PowerCut
  <2>3. \A k \in DOMAIN records' : records'[k].turn <= turns'
    BY <2>1 DEF HistoryInv
  <2>4. WholeTurns'
    BY <2>1 DEF HistoryInv, WholeTurns
  <2> QED
    BY <1>1, <2>1, <2>2, <2>3, <2>4 DEF HistoryInv
<1>10. CASE UNCHANGED historyVars
  BY <1>10 DEF historyVars, HistoryInv, HistoryTypeOK, Over, WholeTurns
<1> QED
  BY <1>3, <1>5, <1>6, <1>7, <1>8, <1>9, <1>10 DEF HistoryNext

\* The agent is given whole turns in their order, after any failures and power
\* cuts, for a header of any size (load_json_alloc, append_indexed_record).
THEOREM TurnsStayWhole == HistorySpec => []WholeTurns
<1>1. HistoryInit => HistoryInv
  <2> SUFFICES ASSUME HistoryInit PROVE HistoryInv
    OBVIOUS
  <2>1. <<>> \in Places /\ <<>> \in Seq(HistoryRecord) /\ Len(<<>>) <= MaxSlots
    BY Slots DEF Places
  <2>2. HistoryTypeOK
    BY <2>1 DEF HistoryInit, HistoryTypeOK
  <2> QED
    BY <2>2, WholeEmpty DEF HistoryInit, HistoryInv, WholeTurns
<1>2. HistoryInv => WholeTurns
  BY DEF HistoryInv
<1> QED
  BY <1>1, <1>2, HistoryStep, PTL DEF HistorySpec

-----------------------------------------------------------------------------
(* MemoryStore.  A running call is the list of operations it still makes,  *)
(* so the invariant is about that list: a record that is about to be       *)
(* written gives its id once more or deletes a memory that lives; its      *)
(* count is the operation after it, and between the two the index is one   *)
(* behind in that label; before and during a compaction, and at boot, the  *)
(* index may be anything, and the recount that follows, of the records     *)
(* just written, makes it right.  All this holds unless an operation that  *)
(* failed has left the files astray.                                       *)

Memory == [id : Nat, key : Key, label : Label, deleted : BOOLEAN]
FileStep ==
  [do : {"record"}, item : Memory]
    \cup [do : {"count"}, label : Label, up : BOOLEAN, missing : BOOLEAN]
    \cup [do : {"tidy"}] \cup [do : {"compact"}, missing : BOOLEAN]
    \cup [do : {"recount"}, list : Seq(Memory), whole : BOOLEAN]
    \cup [do : {"forget"}, id : Nat] \cup [do : {"done"}, key : Key]

\* No two records have one id, and no id was used that is still to be given.
ListOK(list, top) ==
  /\ list \in Seq(Memory)
  /\ \A n \in DOMAIN list : list[n].id <= top
  /\ \A m, n \in DOMAIN list : list[m].id = list[n].id => m = n

FilesOK ==
  /\ ListOK(items, ids)
  /\ refs \in [Label -> Nat] /\ ids \in Nat
  /\ torn \in BOOLEAN /\ astray \in BOOLEAN /\ booted \in BOOLEAN

MemoryVarsOK ==
  /\ FilesOK
  /\ plan \in Seq(FileStep)
  /\ ~ booted => plan = <<>>

\* A record is written first, and counted at once; a recount is first too.
Plain(steps) == \A n \in DOMAIN steps : steps[n].do \notin {"record", "count", "recount"}

CountFor(item, missing) == CountStep(item.label, ~ item.deleted, missing)

WriteFirst(steps) ==
  /\ steps[1].do = "record" /\ Len(steps) >= 2
  /\ \E missing \in BOOLEAN : steps[2] = CountFor(steps[1].item, missing)
  /\ \A n \in DOMAIN steps : n > 2 => steps[n].do \notin {"record", "count", "recount"}

CountFirst(steps) ==
  /\ steps # <<>> /\ steps[1].do \in {"count", "recount"}
  /\ Plain(Tail(steps))

PlanOK == Plain(plan) \/ WriteFirst(plan) \/ CountFirst(plan)

\* What is written as deleted is a memory that lives.
Writes(list, top, item) ==
  /\ item.id <= top
  /\ item.deleted => \E n \in Live(list) : list[n].id = item.id /\ list[n].label = item.label

Matches == \A l \in Label : Uses(items, l) = refs[l]

\* The index is one behind the records, in the label that is counted next.
OneBehind(list, index, l, up) ==
  \A k \in Label : IF up THEN Uses(list, k) = index[k] + (IF k = l THEN 1 ELSE 0)
                         ELSE index[k] = Uses(list, k) + (IF k = l THEN 1 ELSE 0)

Rewriting == plan # <<>> /\ plan[1].do \in {"compact", "recount"}
InStep == booted /\ ~ torn /\ ~ astray

CatalogInv ==
  /\ plan # <<>> /\ plan[1].do = "record" => Writes(items, ids, plan[1].item)
  /\ plan # <<>> /\ plan[1].do = "recount" /\ plan[1].whole => items = plan[1].list
  /\ InStep /\ ~ Rewriting =>
       IF plan # <<>> /\ plan[1].do = "count" THEN OneBehind(items, refs, plan[1].label, plan[1].up)
       ELSE Matches

MemoryInv == MemoryVarsOK /\ PlanOK /\ CatalogInv

LEMMA StepForms ==
  ASSUME NEW s \in FileStep
  PROVE  /\ s.do = "record" => s.item \in Memory
         /\ s.do = "count" => s.label \in Label /\ s.up \in BOOLEAN /\ s.missing \in BOOLEAN
         /\ s.do = "compact" => s.missing \in BOOLEAN
         /\ s.do = "recount" => s.list \in Seq(Memory) /\ s.whole \in BOOLEAN
         /\ s.do = "forget" => s.id \in Nat
BY DEF FileStep

Carriers(list, l) == {n \in Live(list) : list[n].label = l}

LEMMA UsesType ==
  ASSUME NEW list \in Seq(Memory), NEW l
  PROVE  /\ IsFiniteSet(Carriers(list, l))
         /\ Uses(list, l) = Cardinality(Carriers(list, l))
         /\ Uses(list, l) \in Nat
<1> DEFINE places == 1..Len(list)
<1>1. IsFiniteSet(places)
  BY FS_Interval
<1> HIDE DEF places
<1>2. Carriers(list, l) \in SUBSET places
  BY DEF Carriers, Live, places
<1>3. Uses(list, l) = Cardinality(Carriers(list, l))
  BY DEF Uses, Carriers
<1> QED
  BY <1>1, <1>2, <1>3, FS_Subset, FS_CardinalityType

\* A new memory is one more for its label.
LEMMA UsesAppend ==
  ASSUME NEW list \in Seq(Memory), NEW item \in Memory, ~ item.deleted, NEW l
  PROVE  Uses(Append(list, item), l) = Uses(list, l) + (IF item.label = l THEN 1 ELSE 0)
<1> DEFINE longer == Append(list, item)
           last == Len(list) + 1
<1>1. /\ DOMAIN longer = DOMAIN list \cup {last} /\ last \notin DOMAIN list
      /\ \A n \in DOMAIN list : longer[n] = list[n]
      /\ longer[last] = item /\ longer \in Seq(Memory)
  OBVIOUS
<1> HIDE DEF longer, last
<1>2. Live(longer) = Live(list) \cup {last}
  BY <1>1 DEF Live
<1>3. last \notin Live(list)
  BY <1>1 DEF Live
<1>4. CASE item.label = l
  <2>1. Carriers(longer, l) = Carriers(list, l) \cup {last} /\ last \notin Carriers(list, l)
    BY <1>1, <1>2, <1>3, <1>4 DEF Carriers, Live
  <2>2. Cardinality(Carriers(longer, l)) = Cardinality(Carriers(list, l)) + 1
    BY <2>1, UsesType, FS_AddElement
  <2> QED
    BY <1>1, <1>4, <2>2, UsesType DEF longer
<1>5. CASE item.label # l
  <2>1. Carriers(longer, l) = Carriers(list, l)
    BY <1>1, <1>2, <1>3, <1>5 DEF Carriers, Live
  <2>2. Uses(longer, l) = Uses(list, l) /\ Uses(list, l) \in Nat
    BY <1>1, <2>1, UsesType
  <2> QED
    BY <1>5, <2>2 DEF longer
<1> QED
  BY <1>4, <1>5

\* And so is one that takes the place of a deleted memory with its id.
LEMMA UsesRevived ==
  ASSUME NEW list \in Seq(Memory), \A m, n \in DOMAIN list : list[m].id = list[n].id => m = n,
         NEW item \in Memory, ~ item.deleted, NEW p \in DOMAIN list,
         list[p].id = item.id, list[p].deleted, NEW l
  PROVE  Uses(Put(list, item), l) = Uses(list, l) + (IF item.label = l THEN 1 ELSE 0)
<1> DEFINE more == Put(list, item)
<1>1. more = [n \in DOMAIN list |-> IF n = p THEN item ELSE list[n]]
  BY DEF Put
<1>2. more \in Seq(Memory) /\ DOMAIN more = DOMAIN list
  BY <1>1
<1>3. p \notin Carriers(list, l)
  BY DEF Carriers, Live
<1>4. Carriers(more, l) = IF item.label = l THEN Carriers(list, l) \cup {p} ELSE Carriers(list, l)
  BY <1>1, <1>2 DEF Carriers, Live
<1> HIDE DEF more
<1>5. /\ IsFiniteSet(Carriers(list, l)) /\ Uses(list, l) = Cardinality(Carriers(list, l))
      /\ Uses(list, l) \in Nat
  BY UsesType
<1>6. Uses(more, l) = Cardinality(Carriers(more, l))
  BY <1>2, UsesType
<1>7. Cardinality(Carriers(list, l) \cup {p}) = Cardinality(Carriers(list, l)) + 1
  BY <1>3, <1>5, FS_AddElement
<1>8. CASE item.label = l
  BY <1>4, <1>5, <1>6, <1>7, <1>8 DEF more
<1>9. CASE item.label # l
  BY <1>4, <1>5, <1>6, <1>9 DEF more
<1> QED
  BY <1>8, <1>9

\* A memory that is deleted is one less.
LEMMA UsesDeleted ==
  ASSUME NEW list \in Seq(Memory), \A m, n \in DOMAIN list : list[m].id = list[n].id => m = n,
         NEW item \in Memory, item.deleted, NEW p \in Live(list),
         list[p].id = item.id, list[p].label = item.label, NEW l
  PROVE  Uses(list, l) = Uses(Put(list, item), l) + (IF item.label = l THEN 1 ELSE 0)
<1> DEFINE less == Put(list, item)
<1>1. p \in DOMAIN list /\ ~ list[p].deleted
  BY DEF Live
<1>2. less = [n \in DOMAIN list |-> IF n = p THEN item ELSE list[n]]
  BY <1>1 DEF Put
<1>3. less \in Seq(Memory) /\ DOMAIN less = DOMAIN list
  BY <1>2
<1>4. Carriers(less, l) = Carriers(list, l) \ {p}
  BY <1>1, <1>2, <1>3 DEF Carriers, Live
<1>5. p \in Carriers(list, l) <=> item.label = l
  BY <1>1 DEF Carriers
<1> HIDE DEF less
<1>6. /\ IsFiniteSet(Carriers(list, l)) /\ Uses(list, l) = Cardinality(Carriers(list, l))
      /\ Uses(list, l) \in Nat
  BY UsesType
<1>7. Uses(less, l) = Cardinality(Carriers(less, l))
  BY <1>3, UsesType
<1>8. Cardinality(Carriers(list, l) \ {p})
        = IF p \in Carriers(list, l) THEN Cardinality(Carriers(list, l)) - 1
                                     ELSE Cardinality(Carriers(list, l))
  BY <1>6, FS_RemoveElement
<1> QED
  BY <1>4, <1>5, <1>6, <1>7, <1>8 DEF less

LEMMA PutKeeps ==
  ASSUME NEW list, NEW top \in Nat, ListOK(list, top), NEW item \in Memory, item.id <= top
  PROVE  ListOK(Put(list, item), top)
<1>1. list \in Seq(Memory)
  BY DEF ListOK
<1>2. CASE \E n \in DOMAIN list : list[n].id = item.id
  <2>1. Put(list, item) = [n \in DOMAIN list |-> IF list[n].id = item.id THEN item ELSE list[n]]
    BY <1>2 DEF Put
  <2>2. Put(list, item) \in Seq(Memory) /\ DOMAIN Put(list, item) = DOMAIN list
    BY <1>1, <2>1
  <2>3. \A n \in DOMAIN list : Put(list, item)[n].id = list[n].id
    BY <2>1
  <2> QED
    BY <2>2, <2>3 DEF ListOK
<1>3. CASE ~ \E n \in DOMAIN list : list[n].id = item.id
  <2> DEFINE longer == Append(list, item)
             last == Len(list) + 1
  <2>1. /\ DOMAIN longer = DOMAIN list \cup {last} /\ last \notin DOMAIN list
        /\ \A n \in DOMAIN list : longer[n] = list[n]
        /\ longer[last] = item /\ longer \in Seq(Memory)
    BY <1>1
  <2> HIDE DEF longer, last
  <2>2. ListOK(longer, top)
    BY <1>3, <2>1 DEF ListOK
  <2> QED
    BY <1>3, <2>2 DEF Put, longer
<1> QED
  BY <1>2, <1>3

LEMMA CutKeeps ==
  ASSUME NEW list, NEW top, ListOK(list, top), NEW n \in 0..Len(list)
  PROVE  ListOK(SubSeq(list, 1, n), top)
<1> DEFINE cut == SubSeq(list, 1, n)
<1>1. list \in Seq(Memory)
  BY DEF ListOK
<1>2. cut \in Seq(Memory) /\ DOMAIN cut = 1..n /\ 1..n \subseteq DOMAIN list
  BY <1>1
<1>3. \A k \in 1..n : cut[k] = list[k]
  BY <1>1
<1> HIDE DEF cut
<1>4. ListOK(cut, top)
  BY <1>2, <1>3 DEF ListOK
<1> QED
  BY <1>4 DEF cut

LEMMA AllowedType == ASSUME NEW list \in Seq(Memory) PROVE Allowed(list) \in Nat
<1> DEFINE places == 1..Len(list)
<1>1. IsFiniteSet(places)
  BY FS_Interval
<1> HIDE DEF places
<1>2. Heads(list) \in SUBSET places
  BY DEF Heads, Live, places
<1>3. Cardinality(Heads(list)) \in Nat
  BY <1>1, <1>2, FS_Subset, FS_CardinalityType
<1>4. Capacity \in Nat
  BY MemoryAssumption DEF MemoryAssumption
<1> QED
  BY <1>3, <1>4 DEF Allowed

LEMMA CompactedKeeps ==
  ASSUME NEW list, NEW top, ListOK(list, top), NEW full \in Compacted(list)
  PROVE  ListOK(full, top)
<1>1. list \in Seq(Memory) /\ Heads(list) \subseteq DOMAIN list /\ Live(list) \subseteq DOMAIN list
  BY DEF ListOK, Live, Heads
<1>2. Allowed(list) \in Nat
  BY <1>1, AllowedType
<1>3. PICK place \in Selections(list), words \in Wordings(list) :
        full = [k \in DOMAIN place |-> [list[place[k]] EXCEPT !.label = list[words[place[k]]].label]]
  BY DEF Compacted
<1>4. /\ place \in [1..Allowed(list) -> Heads(list)] /\ words \in [Heads(list) -> Live(list)]
      /\ \A j, k \in 1..Allowed(list) : j < k => place[j] < place[k]
  BY DEF Selections, Wordings
<1>5. \A k \in 1..Allowed(list) : place[k] \in DOMAIN list /\ words[place[k]] \in DOMAIN list
  BY <1>1, <1>4
<1>6. ASSUME NEW k \in 1..Allowed(list)
      PROVE  full[k] \in Memory /\ full[k].id = list[place[k]].id
  <2>1. list[place[k]] \in Memory /\ list[words[place[k]]] \in Memory
    BY <1>1, <1>5
  <2>2. full[k] = [list[place[k]] EXCEPT !.label = list[words[place[k]]].label]
    BY <1>3, <1>4
  <2> QED
    BY <2>1, <2>2 DEF Memory
<1>7. full \in Seq(Memory) /\ DOMAIN full = 1..Allowed(list)
  BY <1>2, <1>3, <1>4, <1>6
<1>8. \A j, k \in 1..Allowed(list) : place[j] = place[k] => j = k
  BY <1>1, <1>2, <1>4, <1>5
<1>9. \A k \in DOMAIN full : full[k].id <= top
  BY <1>5, <1>6, <1>7 DEF ListOK
<1>10. \A j, k \in DOMAIN full : full[j].id = full[k].id => j = k
  BY <1>5, <1>6, <1>7, <1>8 DEF ListOK
<1> QED
  BY <1>7, <1>9, <1>10 DEF ListOK

-----------------------------------------------------------------------------
(* Plans. *)

LEMMA RecordTypes ==
  ASSUME NEW item \in Memory
  PROVE  /\ RecordStep(item) \in FileStep /\ RecordStep(item).do = "record"
         /\ RecordStep(item).item = item
BY DEF RecordStep, FileStep, Memory

LEMMA CountTypes ==
  ASSUME NEW item \in Memory, NEW missing \in BOOLEAN
  PROVE  /\ CountFor(item, missing) \in FileStep /\ CountFor(item, missing).do = "count"
         /\ CountFor(item, missing).label = item.label
         /\ CountFor(item, missing).up = ~ item.deleted
BY DEF CountFor, CountStep, FileStep, Memory

LEMMA OtherTypes ==
  /\ TidyStep \in FileStep /\ TidyStep.do = "tidy"
  /\ \A missing \in BOOLEAN : CompactStep(missing) \in FileStep /\ CompactStep(missing).do = "compact"
BY DEF TidyStep, CompactStep, FileStep

LEMMA RecountTypes ==
  ASSUME NEW list \in Seq(Memory), NEW whole \in BOOLEAN
  PROVE  /\ RecountStep(list, whole) \in FileStep /\ RecountStep(list, whole).do = "recount"
         /\ RecountStep(list, whole).list = list /\ RecountStep(list, whole).whole = whole
BY DEF RecountStep, FileStep

LEMMA ForgetTypes ==
  ASSUME NEW id \in Nat
  PROVE  ForgetStep(id) \in FileStep /\ ForgetStep(id).do = "forget"
BY DEF ForgetStep, FileStep

LEMMA DoneTypes ==
  ASSUME NEW key \in Key
  PROVE  DoneStep(key) \in FileStep /\ DoneStep(key).do = "done"
BY DEF DoneStep, FileStep

LEMMA PlanStart ==
  ASSUME plan \in Seq(FileStep), plan # <<>>
  PROVE  /\ Head(plan) = plan[1] /\ plan[1] \in FileStep
         /\ Tail(plan) \in Seq(FileStep) /\ <<>> \o Tail(plan) = Tail(plan)
         /\ \A n \in DOMAIN Tail(plan) : n + 1 \in DOMAIN plan /\ Tail(plan)[n] = plan[n + 1]
<1>1. Tail(plan) \in Seq(FileStep) /\ Head(plan) = plan[1] /\ plan[1] \in FileStep
  OBVIOUS
<1>2. <<>> \o Tail(plan) = Tail(plan)
  BY <1>1
<1>3. \A n \in DOMAIN Tail(plan) : n + 1 \in DOMAIN plan /\ Tail(plan)[n] = plan[n + 1]
  BY HeadTailProperties
<1> QED
  BY <1>1, <1>2, <1>3

\* After a step that is no record the rest of the plan is plain.
LEMMA RestIsPlain ==
  ASSUME plan \in Seq(FileStep), plan # <<>>, PlanOK, plan[1].do # "record"
  PROVE  Plain(Tail(plan))
<1>1. CASE Plain(plan)
  BY <1>1, PlanStart DEF Plain
<1>2. CASE CountFirst(plan)
  BY <1>2 DEF CountFirst
<1> QED
  BY <1>1, <1>2 DEF PlanOK, WriteFirst

LEMMA PlainConcat ==
  ASSUME NEW p \in Seq(FileStep), NEW q \in Seq(FileStep), Plain(p), Plain(q)
  PROVE  p \o q \in Seq(FileStep) /\ Plain(p \o q)
<1> DEFINE both == p \o q
<1>1. both \in Seq(FileStep) /\ Len(both) = Len(p) + Len(q)
  OBVIOUS
<1>2. \A n \in DOMAIN both : both[n] = IF n <= Len(p) THEN p[n] ELSE q[n - Len(p)]
  BY ConcatProperties
<1>3. \A n \in DOMAIN both : n <= Len(p) => n \in DOMAIN p
  BY <1>1
<1>4. \A n \in DOMAIN both : n > Len(p) => n - Len(p) \in DOMAIN q
  BY <1>1
<1> HIDE DEF both
<1>5. Plain(both)
  <2> SUFFICES ASSUME NEW n \in DOMAIN both PROVE both[n].do \notin {"record", "count", "recount"}
    BY DEF Plain
  <2>1. CASE n <= Len(p)
    BY <2>1, <1>2, <1>3 DEF Plain
  <2>2. CASE ~ (n <= Len(p))
    <3>1. n - Len(p) \in DOMAIN q /\ both[n] = q[n - Len(p)]
      BY <2>2, <1>1, <1>2, <1>4
    <3> QED
      BY <3>1 DEF Plain
  <2> QED
    BY <2>1, <2>2
<1> QED
  BY <1>1, <1>5 DEF both

\* What a store and a forget put in front of the rest.
LEMMA WritePlan ==
  ASSUME NEW item \in Memory, NEW missing \in BOOLEAN,
         NEW rest \in Seq(FileStep), Plain(rest), NEW steps,
         steps = <<RecordStep(item), CountFor(item, missing), TidyStep>> \o rest
  PROVE  /\ steps \in Seq(FileStep) /\ steps # <<>>
         /\ WriteFirst(steps) /\ steps[1] = RecordStep(item)
<1> DEFINE r == RecordStep(item)
           c == CountFor(item, missing)
           t == TidyStep
           front == <<r, c, t>>
<1>1. r \in FileStep /\ c \in FileStep /\ t \in FileStep /\ t.do = "tidy" /\ r.do = "record"
      /\ r.item = item
  BY RecordTypes, CountTypes, OtherTypes
<1> HIDE DEF r, c, t
<1>2. front \in Seq(FileStep) /\ Len(front) = 3
  BY <1>1
<1>3. steps = front \o rest
  BY DEF r, c, t
<1>4. front[1] = r /\ front[2] = c /\ front[3] = t
  OBVIOUS
<1> HIDE DEF front
<1>5. steps \in Seq(FileStep) /\ Len(steps) = 3 + Len(rest)
  BY <1>2, <1>3
<1>6. \A n \in DOMAIN steps : steps[n] = IF n <= 3 THEN front[n] ELSE rest[n - 3]
  BY <1>2, <1>3, <1>5, ConcatProperties
<1>7. 1 \in DOMAIN steps /\ 2 \in DOMAIN steps /\ steps[1] = r /\ steps[2] = c
  BY <1>4, <1>5, <1>6
<1>8. ASSUME NEW n \in DOMAIN steps, n > 2
      PROVE  steps[n].do \notin {"record", "count", "recount"}
  <2>1. CASE n = 3
    BY <1>1, <1>4, <1>6, <2>1
  <2>2. CASE n # 3
    <3>1. n - 3 \in DOMAIN rest /\ steps[n] = rest[n - 3]
      BY <1>5, <1>6, <1>8, <2>2
    <3> QED
      BY <3>1 DEF Plain
  <2> QED
    BY <2>1, <2>2
<1>9. steps[2] = CountFor(item, missing)
  BY <1>7 DEF c
<1> QED
  BY <1>1, <1>5, <1>7, <1>8, <1>9 DEF WriteFirst, r

\* A plan that loses its first step, which is no record, and gains plain ones.
LEMMA PlanGoesOn ==
  ASSUME MemoryInv, plan # <<>>, plan[1].do # "record",
         NEW more \in Seq(FileStep), Plain(more), plan' = more \o Tail(plan)
  PROVE  plan' \in Seq(FileStep) /\ Plain(plan') /\ PlanOK'
<1>1. plan \in Seq(FileStep) /\ PlanOK
  BY DEF MemoryInv, MemoryVarsOK
<1>2. Tail(plan) \in Seq(FileStep) /\ Plain(Tail(plan))
  BY <1>1, PlanStart, RestIsPlain
<1>3. plan' \in Seq(FileStep) /\ Plain(plan')
  BY <1>2, PlainConcat
<1> QED
  BY <1>3 DEF PlanOK, Plain

LEMMA PlainLists ==
  /\ <<>> \in Seq(FileStep) /\ Plain(<<>>)
  /\ \A s \in FileStep : s.do \notin {"record", "count", "recount"} => <<s>> \in Seq(FileStep) /\ Plain(<<s>>)
BY DEF Plain

LEMMA PlainStart ==
  ASSUME NEW s \in Seq(FileStep), Plain(s), s # <<>>
  PROVE  s[1].do \notin {"record", "count", "recount"}
<1>1. 1 \in DOMAIN s
  OBVIOUS
<1> QED
  BY <1>1 DEF Plain

LEMMA StaysBooted ==
  ASSUME MemoryInv, plan # <<>>
  PROVE  booted
BY DEF MemoryInv, MemoryVarsOK

LEMMA Typed ==
  ASSUME MemoryInv
  PROVE  /\ FilesOK /\ ListOK(items, ids) /\ items \in Seq(Memory) /\ refs \in [Label -> Nat]
         /\ ids \in Nat /\ torn \in BOOLEAN /\ astray \in BOOLEAN /\ booted \in BOOLEAN
         /\ plan \in Seq(FileStep) /\ PlanOK
BY DEF MemoryInv, MemoryVarsOK, FilesOK, ListOK

\* A call that ends leaves the files in step or is astray.
LEMMA CallEnds ==
  ASSUME FilesOK', plan' = <<>>, InStep' => Matches'
  PROVE  MemoryInv'
BY DEF MemoryInv, MemoryVarsOK, PlanOK, Plain, CatalogInv

\* A step that is no record and is done.
LEMMA StepDone ==
  ASSUME MemoryInv, plan # <<>>, plan[1].do # "record", FilesOK', UNCHANGED booted,
         NEW more \in Seq(FileStep), Plain(more), plan' = more \o Tail(plan), InStep' => Matches'
  PROVE  MemoryInv'
<1>1. plan' \in Seq(FileStep) /\ Plain(plan') /\ PlanOK'
  BY PlanGoesOn
<1>2. MemoryVarsOK'
  BY <1>1, StaysBooted DEF MemoryVarsOK
<1>3. plan' # <<>> => plan'[1].do \notin {"record", "count", "recount"}
  BY <1>1, PlainStart
<1> QED
  BY <1>1, <1>2, <1>3 DEF MemoryInv, CatalogInv

LEMMA ReadyMatches ==
  ASSUME MemoryInv, InStep,
         plan = <<>> \/ plan[1].do \notin {"count", "compact", "recount"}
  PROVE  Matches
BY DEF MemoryInv, CatalogInv, Rewriting

\* Steps that touch neither file nor any count of them.
LEMMA QuietStep ==
  ASSUME MemoryInv, plan # <<>>, plan[1].do \in {"tidy", "done"},
         NEW more \in Seq(FileStep), Plain(more), plan' = more \o Tail(plan),
         UNCHANGED <<fileVars, booted, ids>>
  PROVE  MemoryInv'
<1>1. FilesOK'
  BY Typed DEF FilesOK, ListOK, fileVars
<1>2. InStep' => Matches'
  BY ReadyMatches DEF InStep, Matches, fileVars
<1> QED
  BY <1>1, <1>2, StepDone

LEMMA DoingFirst ==
  ASSUME MemoryInv, NEW what, NextDoes(what)
  PROVE  /\ plan # <<>> /\ plan[1].do = what /\ Head(plan) = plan[1] /\ booted
         /\ plan \in Seq(FileStep) /\ plan[1] \in FileStep
         /\ Tail(plan) \in Seq(FileStep) /\ <<>> \o Tail(plan) = Tail(plan)
BY PlanStart, StaysBooted, Typed DEF NextDoes

LEMMA TidyKeeps == ASSUME MemoryInv, Tidy PROVE MemoryInv'
<1>1. plan # <<>> /\ plan[1].do = "tidy"
  BY DoingFirst DEF Tidy
<1>2. UNCHANGED <<fileVars, booted, ids>>
  BY DEF Tidy, idVars
<1>3. CASE changes < Threshold
  BY <1>1, <1>2, <1>3, PlainLists, QuietStep DEF Tidy, Advance
<1>4. CASE ~ (changes < Threshold)
  <2>1. PICK missing \in BOOLEAN : plan' = <<CompactStep(missing)>> \o Tail(plan)
    BY <1>4 DEF Tidy, Advance
  <2>2. <<CompactStep(missing)>> \in Seq(FileStep) /\ Plain(<<CompactStep(missing)>>)
    BY OtherTypes, PlainLists
  <2> QED
    BY <1>1, <1>2, <2>1, <2>2, QuietStep
<1> QED
  BY <1>3, <1>4

LEMMA DoneKeeps == ASSUME MemoryInv, Done PROVE MemoryInv'
<1>1. plan # <<>> /\ plan[1].do = "done"
  BY DoingFirst DEF Done
<1>2. plan' = <<>> \o Tail(plan) /\ UNCHANGED <<fileVars, booted, ids>>
  BY DEF Done, Advance, idVars
<1> QED
  BY <1>1, <1>2, PlainLists, QuietStep

\* The records are written and the recount comes next.
LEMMA RecountComes ==
  ASSUME MemoryInv, plan # <<>>, plan[1].do = "compact", NEW full \in Seq(Memory), NEW whole \in BOOLEAN,
         plan' = <<RecountStep(full, whole)>> \o Tail(plan),
         ListOK(items', ids), whole => items' = full, UNCHANGED <<refs, torn, booted, ids>>,
         astray' \in BOOLEAN
  PROVE  MemoryInv'
<1> DEFINE again == RecountStep(full, whole)
<1>1. again \in FileStep /\ again.do = "recount" /\ again.list = full /\ again.whole = whole
  BY RecountTypes
<1>2. plan \in Seq(FileStep) /\ Tail(plan) \in Seq(FileStep) /\ Plain(Tail(plan)) /\ booted
  BY Typed, PlanStart, RestIsPlain, StaysBooted
<1> HIDE DEF again
<1>3. /\ plan' \in Seq(FileStep) /\ plan' # <<>> /\ plan'[1] = again /\ Tail(plan') = Tail(plan)
  <2>1. plan' = <<again>> \o Tail(plan)
    BY DEF again
  <2> QED
    BY <1>1, <1>2, <2>1
<1>4. CountFirst(plan')
  BY <1>1, <1>2, <1>3 DEF CountFirst
<1>5. PlanOK'
  BY <1>4 DEF PlanOK, CountFirst, Plain
<1>6. FilesOK'
  BY Typed DEF FilesOK, ListOK
<1>7. MemoryVarsOK'
  BY <1>2, <1>3, <1>6 DEF MemoryVarsOK
<1>8. CatalogInv'
  BY <1>1, <1>3 DEF CatalogInv, Rewriting
<1> QED
  BY <1>5, <1>7, <1>8 DEF MemoryInv

LEMMA CompactKeeps == ASSUME MemoryInv, Compact PROVE MemoryInv'
<1>1. plan # <<>> /\ plan[1].do = "compact" /\ Head(plan) = plan[1]
  BY DoingFirst DEF Compact
<1>2. UNCHANGED <<refs, torn, astray, booted, ids>>
  BY DEF Compact, idVars
<1>3. CASE HasIndex(Head(plan))
  <2>1. PICK full \in Compacted(items) :
          items' = full /\ plan' = <<RecountStep(full, TRUE)>> \o Tail(plan)
    BY <1>3 DEF Compact, Advance
  <2>2. ListOK(full, ids)
    BY Typed, CompactedKeeps
  <2> QED
    BY <1>1, <1>2, <2>1, <2>2, Typed, RecountComes DEF ListOK
<1>4. CASE ~ HasIndex(Head(plan))
  <2>1. plan' = <<>> /\ items' = items
    BY <1>4 DEF Compact, GiveUpCall
  <2>2. torn
    BY <1>4, Typed DEF HasIndex
  <2>3. FilesOK'
    BY <1>2, <2>1, Typed DEF FilesOK, ListOK
  <2> QED
    BY <1>2, <2>1, <2>2, <2>3, CallEnds DEF InStep
<1> QED
  BY <1>3, <1>4

LEMMA PartKeeps ==
  ASSUME MemoryInv, NEW full \in Compacted(items), Part(full)
  PROVE  ListOK(items', ids) /\ full \in Seq(Memory)
<1>1. ListOK(full, ids)
  BY Typed, CompactedKeeps
<1>2. PICK n \in 0..Len(full) : items' = SubSeq(full, 1, n)
  BY DEF Part
<1> QED
  BY <1>1, <1>2, CutKeeps DEF ListOK

LEMMA CompactFailsKeeps == ASSUME MemoryInv, CompactFails PROVE MemoryInv'
<1>1. plan # <<>> /\ plan[1].do = "compact"
  BY DoingFirst DEF CompactFails
<1>2. UNCHANGED <<refs, torn, booted, ids>>
  BY DEF CompactFails, idVars
<1>3. CASE GiveUpCall /\ astray' = TRUE /\ ListOK(items', ids)
  <2>1. FilesOK'
    BY <1>2, <1>3, Typed DEF FilesOK, ListOK
  <2> QED
    BY <1>3, <2>1, CallEnds DEF InStep, GiveUpCall
<1>4. CASE GiveUpCall /\ astray' = TRUE /\ UNCHANGED items
  BY <1>3, <1>4, Typed
<1>5. ASSUME NEW full \in Compacted(items), Part(full),
             \/ GiveUpCall /\ astray' = TRUE
             \/ Advance(<<RecountStep(full, FALSE)>>) /\ UNCHANGED astray
      PROVE  MemoryInv'
  <2>1. ListOK(items', ids) /\ full \in Seq(Memory)
    BY <1>5, PartKeeps
  <2>2. CASE GiveUpCall /\ astray' = TRUE
    BY <1>3, <2>1, <2>2
  <2>3. CASE Advance(<<RecountStep(full, FALSE)>>) /\ UNCHANGED astray
    BY <1>1, <1>2, <2>1, <2>3, Typed, RecountComes DEF Advance
  <2> QED
    BY <1>5, <2>2, <2>3
<1> QED
  BY <1>4, <1>5 DEF CompactFails

\* The index of a recount, which is right when the records were written whole.
LEMMA Recounted ==
  ASSUME MemoryInv, NextDoes("recount"), SaveRecount(Head(plan)), UNCHANGED <<items, booted, ids>>
  PROVE  FilesOK' /\ (InStep' => Matches')
<1>1. /\ plan # <<>> /\ plan[1].do = "recount" /\ Head(plan) = plan[1] /\ plan[1] \in FileStep
  BY DoingFirst
<1>2. plan[1].list \in Seq(Memory) /\ plan[1].whole \in BOOLEAN
  BY <1>1, StepForms
<1>3. /\ refs' = [l \in Label |-> Uses(plan[1].list, l)] /\ torn' = FALSE
      /\ astray' = ~ plan[1].whole
  BY <1>1 DEF SaveRecount
<1>4. refs' \in [Label -> Nat]
  BY <1>2, <1>3, UsesType
<1>5. FilesOK'
  BY <1>2, <1>3, <1>4, Typed DEF FilesOK, ListOK
<1>6. plan[1].whole => items = plan[1].list
  BY <1>1 DEF MemoryInv, CatalogInv
<1>7. InStep' => Matches'
  BY <1>3, <1>6 DEF InStep, Matches
<1> QED
  BY <1>5, <1>7

LEMMA RecountKeeps == ASSUME MemoryInv, Recount PROVE MemoryInv'
<1>1. plan # <<>> /\ plan[1].do = "recount"
  BY DoingFirst DEF Recount
<1>2. plan' = <<>> \o Tail(plan) /\ UNCHANGED booted
  BY DEF Recount, Advance
<1>3. FilesOK' /\ (InStep' => Matches')
  BY Recounted DEF Recount, idVars
<1> QED
  BY <1>1, <1>2, <1>3, PlainLists, StepDone

\* What a failing save of the index may do to it.
LEMMA SaveLost ==
  ASSUME MemoryInv, UNCHANGED <<items, booted, ids>>, UNCHANGED refs,
         \/ astray' = TRUE /\ UNCHANGED torn
         \/ torn' = TRUE /\ UNCHANGED astray
  PROVE  FilesOK' /\ (InStep' => Matches')
BY Typed DEF FilesOK, ListOK, InStep

LEMMA RecountFailsKeeps == ASSUME MemoryInv, RecountFails PROVE MemoryInv'
<1>1. plan # <<>> /\ plan[1].do = "recount" /\ NextDoes("recount")
  BY DoingFirst DEF RecountFails
<1>2. UNCHANGED <<items, booted, ids>>
  BY DEF RecountFails, idVars
<1>3. CASE GiveUpCall /\ astray' = TRUE /\ UNCHANGED <<refs, torn>>
  BY <1>2, <1>3, SaveLost, CallEnds DEF GiveUpCall
<1>4. CASE (GiveUpCall \/ Advance(<<>>)) /\ torn' = TRUE /\ UNCHANGED <<refs, astray>>
  <2>1. FilesOK' /\ (InStep' => Matches')
    BY <1>2, <1>4, SaveLost
  <2>2. CASE GiveUpCall
    BY <2>1, <2>2, CallEnds DEF GiveUpCall
  <2>3. CASE Advance(<<>>)
    BY <1>1, <1>2, <2>1, <2>3, PlainLists, StepDone DEF Advance
  <2> QED
    BY <1>4, <2>2, <2>3
<1>5. CASE GiveUpCall /\ SaveRecount(Head(plan))
  BY <1>1, <1>2, <1>5, Recounted, CallEnds DEF GiveUpCall
<1> QED
  BY <1>3, <1>4, <1>5 DEF RecountFails

LEMMA PowerFailsKeeps == ASSUME MemoryInv, PowerFails PROVE MemoryInv'
<1>1. booted' = FALSE /\ plan' = <<>> /\ UNCHANGED <<refs, astray, ids>>
  BY DEF PowerFails
<1>2. ListOK(items', ids) /\ torn' \in BOOLEAN
  <2>1. CASE UNCHANGED items /\ torn' \in {torn, TRUE}
    BY <2>1, Typed
  <2>2. CASE (\E full \in Compacted(items) : Part(full)) /\ UNCHANGED torn
    BY <2>2, PartKeeps, Typed
  <2> QED
    BY <2>1, <2>2 DEF PowerFails
<1>3. FilesOK'
  BY <1>1, <1>2, Typed DEF FilesOK, ListOK
<1> QED
  BY <1>1, <1>3, CallEnds DEF InStep

LEMMA BootMemoryKeeps == ASSUME MemoryInv, BootMemory PROVE MemoryInv'
<1>1. booted' = TRUE /\ UNCHANGED <<astray, ids>>
  BY DEF BootMemory, idVars
<1>2. PICK missing \in BOOLEAN : plan' = <<CompactStep(missing)>>
  BY DEF BootMemory
<1>3. plan' \in Seq(FileStep) /\ Plain(plan') /\ plan'[1] = CompactStep(missing) /\ plan' # <<>>
  BY <1>2, PlainLists, OtherTypes
<1>4. ListOK(items', ids) /\ refs' \in [Label -> Nat] /\ torn' \in BOOLEAN
  <2>1. ListOK(<<>>, ids)
    BY DEF ListOK
  <2>2. [l \in Label |-> 0] \in [Label -> Nat]
    OBVIOUS
  <2> QED
    BY <2>1, <2>2, Typed DEF BootMemory
<1>5. FilesOK'
  BY <1>1, <1>4, Typed DEF FilesOK, ListOK
<1>6. MemoryVarsOK'
  BY <1>1, <1>3, <1>5 DEF MemoryVarsOK
<1>7. plan'[1].do = "compact"
  BY <1>3, OtherTypes
<1> QED
  BY <1>3, <1>6, <1>7 DEF MemoryInv, PlanOK, Plain, CatalogInv, Rewriting

LEMMA LiveItemIs ==
  ASSUME NEW list \in Seq(Memory), NEW id, HasLive(list, id)
  PROVE  /\ LiveItem(list, id) \in Memory /\ LiveItem(list, id).id = id
         /\ \E n \in Live(list) : list[n] = LiveItem(list, id)
<1> DEFINE n == CHOOSE n \in Live(list) : list[n].id = id
<1>1. n \in Live(list) /\ list[n].id = id
  BY DEF HasLive
<1>2. LiveItem(list, id) = list[n]
  BY DEF LiveItem
<1> HIDE DEF n
<1>3. n \in DOMAIN list
  BY <1>1 DEF Live
<1>4. list[n] \in Memory
  BY <1>3
<1> QED
  BY <1>1, <1>2, <1>4

LEMMA ListGrows ==
  ASSUME NEW list, NEW top \in Nat, NEW more \in Nat, more >= top, ListOK(list, top)
  PROVE  ListOK(list, more) /\ \A n \in DOMAIN list : list[n].id \in Nat /\ list[n].id <= top
<1>1. list \in Seq(Memory) /\ \A n \in DOMAIN list : list[n].id <= top
  BY DEF ListOK
<1>2. \A n \in DOMAIN list : list[n] \in Memory
  BY <1>1
<1>3. \A n \in DOMAIN list : list[n].id \in Nat
  BY <1>2 DEF Memory
<1>4. \A n \in DOMAIN list : list[n].id <= more
  BY <1>1, <1>3
<1> QED
  BY <1>1, <1>3, <1>4 DEF ListOK

\* A plan that writes: Store, UpdateMemory and ForgetIt all come to this.
LEMMA WritingPlan ==
  ASSUME MemoryInv, booted, InStep => Matches,
         NEW item \in Memory, NEW missing \in BOOLEAN, NEW rest \in Seq(FileStep), Plain(rest),
         plan' = <<RecordStep(item), CountFor(item, missing), TidyStep>> \o rest,
         Writes(items, ids', item), ids' \in Nat, ids' >= ids, UNCHANGED <<fileVars, booted>>
  PROVE  MemoryInv'
<1>1. /\ plan' \in Seq(FileStep) /\ plan' # <<>>
      /\ WriteFirst(plan') /\ plan'[1] = RecordStep(item)
  BY WritePlan
<1>2. plan'[1].do = "record" /\ plan'[1].item = item
  BY <1>1, RecordTypes
<1>3. UNCHANGED <<items, refs, torn, astray>>
  BY DEF fileVars
<1>4. ListOK(items', ids')
  BY <1>3, ListGrows, Typed
<1>5. MemoryVarsOK'
  BY <1>1, <1>3, <1>4, Typed DEF MemoryVarsOK, FilesOK
<1>6. PlanOK'
  BY <1>1 DEF PlanOK, WriteFirst
<1>7. InStep' => Matches'
  BY <1>3 DEF Matches, InStep
<1>8. Writes(items', ids', item)
  BY <1>3
<1>9. CatalogInv'
  BY <1>1, <1>2, <1>7, <1>8 DEF CatalogInv
<1> QED
  BY <1>5, <1>6, <1>9 DEF MemoryInv

\* A new memory.
Fresh(id, key, label) == [id |-> id, key |-> key, label |-> label, deleted |-> FALSE]

LEMMA NewWrites ==
  ASSUME MemoryInv, NEW id \in NextIds, TakeId(id), NEW key \in Key, NEW label \in Label,
         NEW item, item = Fresh(id, key, label)
  PROVE  /\ item \in Memory /\ Writes(items, ids', item)
         /\ ids' \in Nat /\ ids' >= ids /\ item.label = label /\ item.deleted = FALSE
<1>1. ids \in Nat
  BY Typed
<1>2. id \in Nat
  BY <1>1 DEF NextIds
<1>3. ids' \in Nat /\ ids' >= ids /\ id <= ids'
  BY <1>1, <1>2 DEF TakeId
<1>4. item \in Memory /\ item.id = id /\ item.label = label /\ item.deleted = FALSE
  BY <1>2 DEF Memory, Fresh
<1> QED
  BY <1>3, <1>4 DEF Writes

LEMMA StoreStepsAre ==
  ASSUME NEW id, NEW key, NEW label, NEW missing, NEW item, item = Fresh(id, key, label)
  PROVE  StoreSteps(id, key, label, missing)
           = <<RecordStep(item), CountFor(item, missing), TidyStep>>
<1>1. item.label = label /\ item.deleted = FALSE
  BY DEF Fresh
<1> QED
  BY <1>1 DEF StoreSteps, Fresh, CountFor

LEMMA StoreKeeps ==
  ASSUME MemoryInv, NEW key \in Key, NEW label \in Label, Store(key, label)
  PROVE  MemoryInv'
<1>1. booted /\ plan = <<>> /\ UNCHANGED <<fileVars, booted>>
  BY DEF Store, Ready
<1>2. PICK id \in NextIds, missing \in BOOLEAN :
        TakeId(id) /\ plan' = StoreSteps(id, key, label, missing)
  BY DEF Store
<1> DEFINE item == Fresh(id, key, label)
           front == <<RecordStep(item), CountFor(item, missing), TidyStep>>
<1>3. item \in Memory /\ Writes(items, ids', item) /\ ids' \in Nat /\ ids' >= ids
  BY <1>2, NewWrites
<1>4. plan' = front
  BY <1>2, StoreStepsAre
<1>5. front \in Seq(FileStep)
  BY <1>3, RecordTypes, CountTypes, OtherTypes
<1>6. plan' = front \o <<>>
  BY <1>4, <1>5
<1>7. InStep => Matches
  BY <1>1, ReadyMatches
<1> HIDE DEF item
<1> QED
  BY <1>1, <1>3, <1>6, <1>7, PlainLists, WritingPlan

\* A call that starts with a plain plan.
LEMMA PlainPlan ==
  ASSUME MemoryInv, booted, plan = <<>> \/ plan[1].do = "forget",
         plan' \in Seq(FileStep), Plain(plan'),
         ids' \in Nat, ids' >= ids, UNCHANGED <<fileVars, booted>>
  PROVE  MemoryInv'
<1>1. UNCHANGED <<items, refs, torn, astray>>
  BY DEF fileVars
<1>2. ListOK(items', ids')
  BY <1>1, ListGrows, Typed
<1>3. MemoryVarsOK'
  BY <1>1, <1>2, Typed DEF MemoryVarsOK, FilesOK
<1>4. PlanOK'
  BY DEF PlanOK, Plain
<1>5. plan' # <<>> => plan'[1].do \notin {"record", "count", "recount"}
  BY PlainStart
<1>6. InStep => Matches
  BY ReadyMatches
<1>7. InStep' => Matches'
  BY <1>1, <1>6 DEF Matches, InStep
<1> QED
  BY <1>3, <1>4, <1>5, <1>7 DEF MemoryInv, CatalogInv

LEMMA UpdateMemoryKeeps ==
  ASSUME MemoryInv, NEW id \in 1..ids, NEW key \in Key, NEW label \in Label,
         UpdateMemory(id, key, label)
  PROVE  MemoryInv'
<1> DEFINE rest == <<ForgetStep(id), TidyStep, DoneStep(key)>>
           same == \E n \in Live(items) : items[n].id # id /\ items[n].key = key
<1>1. booted /\ plan = <<>> /\ UNCHANGED <<fileVars, booted>>
  BY DEF UpdateMemory, Ready
<1>2. PICK new \in NextIds, missing \in BOOLEAN :
        /\ TakeId(new)
        /\ plan' = (IF same THEN <<>> ELSE StoreSteps(new, key, label, missing)) \o rest
  BY DEF UpdateMemory
<1>3. id \in Nat
  BY Typed
<1>4. rest \in Seq(FileStep) /\ Plain(rest)
  <2> DEFINE f == ForgetStep(id)
             t == TidyStep
             d == DoneStep(key)
  <2>1. /\ f \in FileStep /\ t \in FileStep /\ d \in FileStep
        /\ f.do = "forget" /\ t.do = "tidy" /\ d.do = "done"
    BY <1>3, ForgetTypes, OtherTypes, DoneTypes
  <2> HIDE DEF f, t, d
  <2>2. <<f, t, d>> \in Seq(FileStep) /\ Plain(<<f, t, d>>)
    BY <2>1 DEF Plain
  <2> QED
    BY <2>2 DEF f, t, d
<1> DEFINE item == Fresh(new, key, label)
<1>5. item \in Memory /\ Writes(items, ids', item) /\ ids' \in Nat /\ ids' >= ids
  BY <1>2, NewWrites
<1>6. CASE same
  <2>1. plan' = <<>> \o rest
    BY <1>2, <1>6
  <2>2. plan' = rest
    BY <1>4, <2>1
  <2> HIDE DEF rest
  <2> QED
    BY <1>1, <1>4, <1>5, <2>2, PlainPlan
<1>7. CASE ~ same
  <2>1. StoreSteps(new, key, label, missing)
          = <<RecordStep(item), CountFor(item, missing), TidyStep>>
    BY StoreStepsAre
  <2>2. plan' = <<RecordStep(item), CountFor(item, missing), TidyStep>> \o rest
    BY <1>2, <1>7, <2>1
  <2>3. InStep => Matches
    BY <1>1, ReadyMatches
  <2> HIDE DEF item, rest
  <2> QED
    BY <1>1, <1>4, <1>5, <2>2, <2>3, WritingPlan
<1> QED
  BY <1>6, <1>7

LEMMA ForgetKeeps ==
  ASSUME MemoryInv, NEW id \in 1..ids, Forget(id)
  PROVE  MemoryInv'
<1>1. /\ booted /\ plan = <<>> /\ plan' = <<ForgetStep(id)>>
      /\ UNCHANGED <<fileVars, booted, ids>>
  BY DEF Forget, Ready, idVars
<1>2. id \in Nat /\ ids \in Nat
  BY Typed
<1>3. ForgetStep(id) \in FileStep /\ ForgetStep(id).do = "forget"
  BY <1>2, ForgetTypes
<1>4. plan' \in Seq(FileStep) /\ Plain(plan')
  BY <1>1, <1>3, PlainLists
<1> QED
  BY <1>1, <1>2, <1>4, PlainPlan

LEMMA ForgetItKeeps ==
  ASSUME MemoryInv, ForgetIt
  PROVE  MemoryInv'
<1> DEFINE id == Head(plan).id
           old == LiveItem(items, id)
           item == [old EXCEPT !.deleted = TRUE]
<1>1. plan # <<>> /\ plan[1].do = "forget" /\ booted
  BY DoingFirst DEF ForgetIt
<1>2. UNCHANGED <<fileVars, booted, ids>> /\ ids \in Nat
  BY Typed DEF ForgetIt, idVars
<1>3. CASE GiveUpCall
  BY <1>1, <1>2, <1>3, PlainLists, PlainPlan DEF GiveUpCall
<1>4. CASE /\ HasLive(items, id)
           /\ \E missing \in BOOLEAN :
                Advance(<<RecordStep(item), CountStep(old.label, FALSE, missing), TidyStep>>)
  <2>1. PICK missing \in BOOLEAN :
          plan' = <<RecordStep(item), CountStep(old.label, FALSE, missing), TidyStep>> \o Tail(plan)
    BY <1>4 DEF Advance
  <2>2. Tail(plan) \in Seq(FileStep) /\ Plain(Tail(plan))
    BY <1>1, PlanStart, RestIsPlain, Typed
  <2>3. PICK n \in Live(items) : items[n] = old
    BY <1>4, LiveItemIs, Typed
  <2>4. old \in Memory
    BY <1>4, LiveItemIs, Typed
  <2> HIDE DEF old
  <2>5. /\ item \in Memory /\ item.deleted = TRUE /\ item.label = old.label /\ item.id = old.id
        /\ old.id \in Nat
    BY <2>4 DEF Memory
  <2>6. old.id <= ids
    BY <2>3, Typed DEF ListOK, Live
  <2> HIDE DEF item
  <2>7. Writes(items, ids', item)
    BY <1>2, <2>3, <2>5, <2>6 DEF Writes
  <2>8. plan' = <<RecordStep(item), CountFor(item, missing), TidyStep>> \o Tail(plan)
    BY <2>1, <2>5 DEF CountFor
  <2>9. InStep => Matches
    BY <1>1, ReadyMatches
  <2>10. ids' \in Nat /\ ids' >= ids /\ UNCHANGED <<fileVars, booted>>
    BY <1>2
  <2>11. item \in Memory
    BY <2>5
  <2> QED
    BY <1>1, <2>2, <2>7, <2>8, <2>9, <2>10, <2>11, WritingPlan
<1> QED
  BY <1>3, <1>4 DEF ForgetIt

LEMMA TailOf ==
  ASSUME NEW s \in Seq(FileStep), Len(s) >= 2
  PROVE  /\ Tail(s) \in Seq(FileStep) /\ Tail(s) # <<>> /\ Tail(s)[1] = s[2]
         /\ \A n \in DOMAIN Tail(s) : n + 1 \in DOMAIN s /\ Tail(s)[n] = s[n + 1]
<1>1. Tail(s) \in Seq(FileStep) /\ Len(Tail(s)) = Len(s) - 1 /\ s # <<>>
  OBVIOUS
<1>2. \A n \in DOMAIN Tail(s) : n + 1 \in DOMAIN s /\ Tail(s)[n] = s[n + 1]
  BY <1>1, HeadTailProperties
<1> DEFINE t == Tail(s)
<1>3. t \in Seq(FileStep) /\ Len(t) >= 1
  BY <1>1
<1> HIDE DEF t
<1>4. 1 \in DOMAIN t /\ t # <<>>
  BY <1>3
<1>5. 1 \in DOMAIN Tail(s) /\ Tail(s) # <<>>
  BY <1>4 DEF t
<1> QED
  BY <1>1, <1>2, <1>5

\* When the record is written its count comes first.
LEMMA CountComes ==
  ASSUME NEW s \in Seq(FileStep), WriteFirst(s), s[1] \in FileStep
  PROVE  /\ Tail(s) \in Seq(FileStep) /\ CountFirst(Tail(s))
         /\ Tail(s)[1].do = "count" /\ Tail(s)[1].label = s[1].item.label
         /\ Tail(s)[1].up = ~ s[1].item.deleted
<1>1. Len(s) >= 2 /\ s[1].item \in Memory
  BY StepForms DEF WriteFirst
<1>2. PICK missing \in BOOLEAN : s[2] = CountFor(s[1].item, missing)
  BY DEF WriteFirst
<1>3. /\ Tail(s) \in Seq(FileStep) /\ Tail(s) # <<>> /\ Tail(s)[1] = s[2]
      /\ \A n \in DOMAIN Tail(s) : n + 1 \in DOMAIN s /\ Tail(s)[n] = s[n + 1]
  BY <1>1, TailOf
<1>4. /\ Tail(s)[1].do = "count" /\ Tail(s)[1].label = s[1].item.label
      /\ Tail(s)[1].up = ~ s[1].item.deleted
  BY <1>1, <1>2, <1>3, CountTypes
<1> DEFINE t == Tail(s)
<1> HIDE DEF t
<1>5. /\ t \in Seq(FileStep) /\ t # <<>>
      /\ \A n \in DOMAIN t : n + 1 \in DOMAIN s /\ t[n] = s[n + 1]
  BY <1>3 DEF t
<1>6. \A n \in DOMAIN Tail(t) : n \in Nat \ {0} /\ n + 1 \in DOMAIN t /\ Tail(t)[n] = t[n + 1]
  BY <1>5, HeadTailProperties
<1>7. Plain(Tail(t))
  <2> SUFFICES ASSUME NEW n \in DOMAIN Tail(t)
               PROVE  Tail(t)[n].do \notin {"record", "count", "recount"}
    BY DEF Plain
  <2>1. n + 2 \in DOMAIN s /\ Tail(t)[n] = s[n + 2] /\ n + 2 > 2
    BY <1>5, <1>6
  <2> QED
    BY <2>1 DEF WriteFirst
<1> QED
  BY <1>3, <1>4, <1>7 DEF CountFirst, t

\* The record that is written first, and what is left of its plan.
LEMMA RecordFirst ==
  ASSUME MemoryInv, NextDoes("record")
  PROVE  /\ plan # <<>> /\ plan[1].do = "record" /\ Head(plan) = plan[1] /\ booted
         /\ plan[1].item \in Memory /\ Writes(items, ids, plan[1].item)
         /\ Tail(plan) \in Seq(FileStep) /\ CountFirst(Tail(plan)) /\ <<>> \o Tail(plan) = Tail(plan)
         /\ Tail(plan)[1].do = "count" /\ Tail(plan)[1].label = plan[1].item.label
         /\ Tail(plan)[1].up = ~ plan[1].item.deleted
<1>1. /\ plan # <<>> /\ plan[1].do = "record" /\ Head(plan) = plan[1] /\ booted
      /\ plan \in Seq(FileStep) /\ plan[1] \in FileStep /\ <<>> \o Tail(plan) = Tail(plan)
  BY DoingFirst
<1>2. WriteFirst(plan)
  <2>1. 1 \in DOMAIN plan
    BY <1>1
  <2>2. ~ Plain(plan) /\ ~ CountFirst(plan)
    BY <1>1, <2>1 DEF Plain, CountFirst
  <2> QED
    BY <2>2, Typed DEF PlanOK
<1>3. plan[1].item \in Memory
  BY <1>1, StepForms
<1>4. Writes(items, ids, plan[1].item)
  BY <1>1 DEF MemoryInv, CatalogInv
<1> QED
  BY <1>1, <1>2, <1>3, <1>4, CountComes

\* The record is behind and its count comes next.
LEMMA CountNext ==
  ASSUME MemoryInv, NextDoes("record"), plan' = Tail(plan), FilesOK', UNCHANGED booted,
         InStep' => OneBehind(items', refs', plan[1].item.label, ~ plan[1].item.deleted)
  PROVE  MemoryInv'
<1>1. /\ plan' \in Seq(FileStep) /\ CountFirst(plan') /\ plan'[1].do = "count" /\ booted
      /\ plan'[1].label = plan[1].item.label /\ plan'[1].up = ~ plan[1].item.deleted
  BY RecordFirst
<1>2. MemoryVarsOK'
  BY <1>1 DEF MemoryVarsOK
<1>3. PlanOK'
  BY <1>1 DEF PlanOK, CountFirst, Plain
<1>4. plan' # <<>>
  BY <1>1 DEF CountFirst
<1>5. InStep' => OneBehind(items', refs', plan'[1].label, plan'[1].up)
  BY <1>1
<1>6. CatalogInv'
  BY <1>1, <1>4, <1>5 DEF CatalogInv
<1> QED
  BY <1>2, <1>3, <1>6 DEF MemoryInv

\* A record that names no other living memory puts the index one behind.
LEMMA PutBehind ==
  ASSUME MemoryInv, NEW item \in Memory, Writes(items, ids, item), Matches,
         item.deleted \/ ~ HasLive(items, item.id), NEW list, list = Put(items, item)
  PROVE  OneBehind(list, refs, item.label, ~ item.deleted)
<1>1. \A l \in Label : refs[l] = Uses(items, l) /\ refs[l] \in Nat
  BY Typed DEF Matches
<1>2. items \in Seq(Memory) /\ item.deleted \in BOOLEAN
  BY Typed DEF Memory
<1>3. \A m, n \in DOMAIN items : items[m].id = items[n].id => m = n
  BY Typed DEF ListOK
<1>4. CASE ~ item.deleted
  <2>1. ASSUME NEW l \in Label
        PROVE  Uses(list, l) = refs[l] + (IF item.label = l THEN 1 ELSE 0)
    <3>1. CASE \E n \in DOMAIN items : items[n].id = item.id
      <4>1. PICK p \in DOMAIN items : items[p].id = item.id
        BY <3>1
      <4>2. items[p].deleted
        BY <1>4, <4>1 DEF HasLive, Live
      <4> QED
        BY <1>1, <1>2, <1>3, <1>4, <4>1, <4>2, UsesRevived
    <3>2. CASE ~ \E n \in DOMAIN items : items[n].id = item.id
      <4>1. list = Append(items, item)
        BY <3>2 DEF Put
      <4> QED
        BY <1>1, <1>2, <1>4, <4>1, UsesAppend
    <3> QED
      BY <3>1, <3>2
  <2> QED
    BY <1>4, <2>1 DEF OneBehind
<1>5. CASE item.deleted
  <2>1. PICK p \in Live(items) : items[p].id = item.id /\ items[p].label = item.label
    BY <1>5 DEF Writes
  <2>2. ASSUME NEW l \in Label
        PROVE  refs[l] = Uses(list, l) + (IF item.label = l THEN 1 ELSE 0)
    <3>1. Uses(items, l) = Uses(Put(items, item), l) + (IF item.label = l THEN 1 ELSE 0)
      BY <1>2, <1>3, <1>5, <2>1, UsesDeleted
    <3> QED
      BY <1>1, <3>1
  <2> QED
    BY <1>5, <2>2 DEF OneBehind
<1> QED
  BY <1>2, <1>4, <1>5

LEMMA WriteRecordKeeps == ASSUME MemoryInv, WriteRecord PROVE MemoryInv'
<1> DEFINE item == plan[1].item
<1>1. NextDoes("record") /\ Head(plan) = plan[1] /\ UNCHANGED <<refs, torn, booted, ids>>
  BY RecordFirst DEF WriteRecord, idVars
<1>2. plan' = Tail(plan)
  BY RecordFirst DEF WriteRecord, Advance
<1>3. item \in Memory /\ Writes(items, ids, item)
  BY <1>1, RecordFirst
<1>4. CASE stub
  <2>1. astray' = TRUE /\ items' = items
    BY <1>4 DEF WriteRecord
  <2>2. FilesOK'
    BY <1>1, <2>1, Typed DEF FilesOK, ListOK
  <2> QED
    BY <1>1, <1>2, <2>1, <2>2, CountNext DEF InStep
<1>5. CASE ~ stub
  <2>1. items' = Put(items, item)
    BY <1>1, <1>5 DEF WriteRecord
  <2>2. astray' = (astray \/ (~ item.deleted /\ HasLive(items, item.id)))
    BY <1>1, <1>5 DEF WriteRecord
  <2>3. astray' \in BOOLEAN
    BY <2>2
  <2>4. ListOK(items', ids)
    BY <1>3, <2>1, PutKeeps, Typed DEF Writes
  <2>5. FilesOK'
    BY <1>1, <2>3, <2>4, Typed DEF FilesOK, ListOK
  <2>6. ASSUME InStep' PROVE OneBehind(items', refs', item.label, ~ item.deleted)
    <3>1. ~ astray /\ (item.deleted \/ ~ HasLive(items, item.id))
      BY <2>2, <2>6 DEF InStep
    <3>2. InStep
      BY <1>1, <2>6, <3>1 DEF InStep
    <3>3. Matches
      BY <1>1, <3>2, RecordFirst, ReadyMatches
    <3>4. OneBehind(items', refs, item.label, ~ item.deleted)
      BY <1>3, <2>1, <3>1, <3>3, PutBehind
    <3> QED
      BY <1>1, <3>4
  <2> QED
    BY <1>1, <1>2, <2>5, <2>6, CountNext
<1> QED
  BY <1>4, <1>5

LEMMA RecordFailsKeeps == ASSUME MemoryInv, RecordFails PROVE MemoryInv'
<1>1. NextDoes("record") /\ UNCHANGED <<items, refs, torn, booted, ids>>
  BY DEF RecordFails, idVars
<1>2. CASE GiveUpCall /\ UNCHANGED astray
  <2>1. FilesOK'
    BY <1>1, <1>2, Typed DEF FilesOK, ListOK
  <2>2. InStep => Matches
    BY <1>1, RecordFirst, ReadyMatches
  <2>3. InStep' => Matches'
    BY <1>1, <1>2, <2>2 DEF InStep, Matches
  <2> QED
    BY <1>2, <2>1, <2>3, CallEnds DEF GiveUpCall
<1>3. CASE Advance(<<>>) /\ astray' = TRUE
  <2>1. FilesOK'
    BY <1>1, <1>3, Typed DEF FilesOK, ListOK
  <2>2. plan' = Tail(plan)
    BY <1>1, <1>3, RecordFirst DEF Advance
  <2> QED
    BY <1>1, <1>3, <2>1, <2>2, CountNext DEF InStep
<1> QED
  BY <1>2, <1>3 DEF RecordFails

\* The index that a count leaves.
LEMMA CountSaved ==
  ASSUME MemoryInv, NextDoes("count"), HasIndex(Head(plan)), SaveCount(Head(plan)),
         UNCHANGED <<items, booted, ids>>
  PROVE  FilesOK' /\ (InStep' => Matches')
<1> DEFINE l == plan[1].label
           up == plan[1].up
<1>1. /\ plan # <<>> /\ plan[1].do = "count" /\ Head(plan) = plan[1] /\ plan[1] \in FileStep
  BY DoingFirst
<1>2. l \in Label /\ up \in BOOLEAN /\ plan[1].missing \in BOOLEAN
  BY <1>1, StepForms
<1>3. refs' = Counted(plan[1]) /\ torn' = FALSE /\ astray' = (astray \/ plan[1].missing)
  BY <1>1 DEF SaveCount
<1>4. refs \in [Label -> Nat] /\ \A k \in Label : Uses(items, k) \in Nat
  BY UsesType, Typed
<1>5. astray' \in BOOLEAN
  BY <1>3
<1>6. CASE plan[1].missing
  <2>1. refs' = [k \in Label |-> IF plan[1].up /\ k = plan[1].label THEN 1 ELSE 0]
    BY <1>3, <1>6 DEF Counted
  <2>2. refs' \in [Label -> Nat]
    BY <2>1
  <2>3. FilesOK'
    BY <1>3, <1>5, <2>2, Typed DEF FilesOK, ListOK
  <2> QED
    BY <1>3, <1>6, <2>3 DEF InStep
<1>7. CASE ~ plan[1].missing
  <2>1. refs' = Adjusted(l, up)
    BY <1>3, <1>7 DEF Counted
  <2>2. ~ torn
    BY <1>1, <1>7 DEF HasIndex
  <2>3. InStep => OneBehind(items, refs, l, up)
    BY <1>1 DEF MemoryInv, CatalogInv, Rewriting
  <2>4. InStep' => InStep
    BY <1>3, <2>2 DEF InStep
  <2> HIDE DEF l, up
  <2>5. refs' \in [Label -> Nat]
    BY <1>2, <1>4, <2>1 DEF Adjusted
  <2>6. FilesOK'
    BY <1>3, <1>5, <2>5, Typed DEF FilesOK, ListOK
  <2>7. ASSUME InStep', NEW k \in Label PROVE refs'[k] = Uses(items, k)
    <3>1. OneBehind(items, refs, l, up)
      BY <2>3, <2>4, <2>7
    <3> QED
      BY <1>2, <1>4, <2>1, <3>1 DEF Adjusted, OneBehind
  <2>8. InStep' => Matches'
    BY <2>7 DEF Matches
  <2> QED
    BY <2>6, <2>8
<1> QED
  BY <1>6, <1>7

LEMMA CountLabelKeeps == ASSUME MemoryInv, CountLabel PROVE MemoryInv'
<1>1. NextDoes("count") /\ UNCHANGED <<items, booted, ids>>
  BY DEF CountLabel, idVars
<1>2. plan # <<>> /\ plan[1].do = "count" /\ Head(plan) = plan[1]
  BY <1>1, DoingFirst
<1>3. CASE HasIndex(Head(plan))
  <2>1. SaveCount(Head(plan)) /\ plan' = <<>> \o Tail(plan)
    BY <1>3 DEF CountLabel, Advance
  <2>2. FilesOK' /\ (InStep' => Matches')
    BY <1>1, <1>3, <2>1, CountSaved
  <2> QED
    BY <1>1, <1>2, <2>1, <2>2, PlainLists, StepDone
<1>4. CASE ~ HasIndex(Head(plan))
  <2>1. plan' = <<>> /\ UNCHANGED <<refs, torn, astray>>
    BY <1>4 DEF CountLabel, GiveUpCall
  <2>2. torn
    BY <1>4, Typed DEF HasIndex
  <2>3. FilesOK'
    BY <1>1, <2>1, Typed DEF FilesOK, ListOK
  <2> QED
    BY <2>1, <2>2, <2>3, CallEnds DEF InStep
<1> QED
  BY <1>3, <1>4

LEMMA CountFailsKeeps == ASSUME MemoryInv, CountFails PROVE MemoryInv'
<1>1. NextDoes("count") /\ UNCHANGED <<items, booted, ids>> /\ HasIndex(Head(plan))
  BY DEF CountFails, idVars
<1>2. plan # <<>> /\ plan[1].do = "count"
  BY <1>1, DoingFirst
<1>3. CASE GiveUpCall /\ astray' = TRUE /\ UNCHANGED <<refs, torn>>
  BY <1>1, <1>3, SaveLost, CallEnds DEF GiveUpCall
<1>4. CASE GiveUpCall /\ torn' = TRUE /\ UNCHANGED <<refs, astray>>
  BY <1>1, <1>4, SaveLost, CallEnds DEF GiveUpCall
<1>5. CASE Advance(<<>>) /\ torn' = TRUE /\ UNCHANGED <<refs, astray>>
  BY <1>1, <1>2, <1>5, SaveLost, PlainLists, StepDone DEF Advance
<1>6. CASE GiveUpCall /\ SaveCount(Head(plan))
  BY <1>1, <1>6, CountSaved, CallEnds DEF GiveUpCall
<1> QED
  BY <1>3, <1>4, <1>5, <1>6 DEF CountFails

LEMMA MemoryStarts == MemoryInit => MemoryInv
<1> SUFFICES ASSUME MemoryInit PROVE MemoryInv
  OBVIOUS
<1>1. items = <<>> /\ refs = [l \in Label |-> 0] /\ torn = FALSE /\ plan = <<>> /\ ids = 0
      /\ booted = TRUE /\ astray = FALSE
  BY DEF MemoryInit
<1>2. MemoryVarsOK
  <2>1. ListOK(<<>>, 0)
    BY DEF ListOK
  <2>2. <<>> \in Seq(FileStep) /\ refs \in [Label -> Nat]
    BY <1>1
  <2> QED
    BY <1>1, <2>1, <2>2 DEF MemoryVarsOK, FilesOK
<1>3. ASSUME NEW l \in Label PROVE Uses(items, l) = refs[l]
  <2>1. {n \in Live(items) : items[n].label = l} = {}
    BY <1>1 DEF Live
  <2> QED
    BY <1>1, <2>1, FS_EmptySet DEF Uses
<1> QED
  BY <1>1, <1>2, <1>3 DEF MemoryInv, PlanOK, Plain, CatalogInv, Matches

LEMMA MemoryStep == MemoryInv /\ [MemoryNext]_memoryVars => MemoryInv'
<1> SUFFICES ASSUME MemoryInv, [MemoryNext]_memoryVars PROVE MemoryInv'
  OBVIOUS
<1>1. CASE \E key \in Key, l \in Label : Store(key, l)
  BY <1>1, StoreKeeps
<1>2. CASE \E key \in Key, l \in Label : \E id \in 1..ids : UpdateMemory(id, key, l)
  BY <1>2, UpdateMemoryKeeps
<1>3. CASE \E id \in 1..ids : Forget(id)
  BY <1>3, ForgetKeeps
<1>4. CASE WriteRecord \/ RecordFails
  BY <1>4, WriteRecordKeeps, RecordFailsKeeps
<1>5. CASE CountLabel \/ CountFails
  BY <1>5, CountLabelKeeps, CountFailsKeeps
<1>6. CASE ForgetIt
  BY <1>6, ForgetItKeeps
<1>7. CASE Tidy \/ Done
  BY <1>7, TidyKeeps, DoneKeeps
<1>8. CASE Compact \/ CompactFails
  BY <1>8, CompactKeeps, CompactFailsKeeps
<1>9. CASE Recount \/ RecountFails
  BY <1>9, RecountKeeps, RecountFailsKeeps
<1>10. CASE PowerFails
  BY <1>10, PowerFailsKeeps
<1>11. CASE BootMemory
  BY <1>11, BootMemoryKeeps
<1>12. CASE UNCHANGED memoryVars
  BY <1>12 DEF memoryVars, fileVars, idVars, MemoryInv, MemoryVarsOK, FilesOK, PlanOK, CatalogInv,
               Rewriting, InStep, Matches, OneBehind
<1> QED
  BY <1>1, <1>2, <1>3, <1>4, <1>5, <1>6, <1>7, <1>8, <1>9, <1>10, <1>11, <1>12 DEF MemoryNext

\* Between two calls the index, when it can be read at all, lists every label
\* as often as memories carry it, for any number of keys, labels, calls, power
\* failures and file operations that fail by themselves; after one of these has
\* taken the two files apart, again from the next whole compaction on
\* (claw_memory_storage.c, adjust_summary_stats and compact_internal).
THEOREM CatalogStaysTrue == MemorySpec => []CatalogMatches
<1>1. MemoryInv => CatalogMatches
  <2> SUFFICES ASSUME MemoryInv, Ready, ~ torn, ~ astray, NEW l \in Label
               PROVE  refs[l] = Uses(items, l)
    BY DEF CatalogMatches
  <2>1. Matches
    BY ReadyMatches DEF Ready, InStep
  <2> QED
    BY <2>1 DEF Matches
<1> QED
  BY <1>1, MemoryStarts, MemoryStep, PTL DEF MemorySpec
=============================================================================
