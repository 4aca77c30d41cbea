------------------------- MODULE CoordinationProofs -------------------------
(***************************************************************************)
(* Where tasks wait for each other: at the mutexes of router and           *)
(* scheduler, for the result of an extraction, and for the calls that      *)
(* still run in a group that is unloaded.  The three modules share no      *)
(* state; each section is about one, for any number of its tasks.          *)
(***************************************************************************)
EXTENDS LockOrder, ExtractJobs, CapRegistry,
        FiniteSetTheorems, SequenceTheorems, WellFoundedInduction, TLAPS

-----------------------------------------------------------------------------
(* LockOrder.  What a task still has to do tells what it holds: the rest   *)
(* of its call gives back all of it, and takes the mutex of the scheduler  *)
(* only where that of the router is not held.  A call keeps this if its    *)
(* steps can be put in front of any rest for which it holds, and this      *)
(* property of a list of steps is kept by joining lists and by a mutex     *)
(* around a list. So the holder of the router's mutex can always go on,    *)
(* and the holder of the scheduler's can, or waits for that one.           *)

(* Induction over the natural numbers, for a set, from the library's       *)
(* theorem that every set of them has a smallest member; with it, what a   *)
(* recursive function of the community modules returns.                    *)

LEMMA SetInduction ==
  ASSUME NEW S \in SUBSET Nat, 0 \in S, \A n \in S : n + 1 \in S
  PROVE  S = Nat
<1> DEFINE T == Nat \ S
<1>1. SUFFICES ASSUME T # {} PROVE FALSE
  OBVIOUS
<1>2. T \subseteq Nat
  OBVIOUS
<1> HIDE DEF T
<1>3. PICK x \in T : \A y \in T : ~ (<<y, x>> \in OpToRel(<,Nat))
  BY <1>1, <1>2, WFMin, NatLessThanWellFounded, Zenon
<1>4. x \in Nat /\ x # 0
  BY <1>2 DEF T
<1>5. x - 1 \in Nat /\ x - 1 < x
  BY <1>4
<1>6. <<x - 1, x>> \in OpToRel(<,Nat)
  BY <1>4, <1>5, Zenon DEF OpToRel
<1>7. x - 1 \in S
  BY <1>3, <1>5, <1>6, Zenon DEF T
<1> QED
  BY <1>7, <1>4 DEF T

\* The partial concatenations of a list of lists exist.
Joins(seqs, n, f) ==
  f = [i \in 1..n |-> IF i = 1 THEN seqs[i] ELSE f[i - 1] \o seqs[i]]

LEMMA JoinAt ==
  ASSUME NEW seqs, NEW n \in Nat, NEW f, Joins(seqs, n, f), NEW i \in 1..n
  PROVE  f[i] = IF i = 1 THEN seqs[i] ELSE f[i - 1] \o seqs[i]
<1> DEFINE Next(k) == IF k = 1 THEN seqs[k] ELSE f[k - 1] \o seqs[k]
<1>1. f = [k \in 1..n |-> Next(k)]
  BY DEF Joins
<1> HIDE DEF Next
<1>2. f[i] = Next(i)
  BY <1>1
<1> QED
  BY <1>2 DEF Next

LEMMA JoinsExist == ASSUME NEW seqs PROVE \A n \in Nat : \E f : Joins(seqs, n, f)
<1> DEFINE S == {n \in Nat : \E f : Joins(seqs, n, f)}
<1>1. 0 \in S
  <2> DEFINE f == [i \in 1..0 |-> 0]
  <2>1. f = [i \in 1..0 |-> IF i = 1 THEN seqs[i] ELSE f[i - 1] \o seqs[i]]
    OBVIOUS
  <2> QED
    BY <2>1 DEF Joins
<1>2. ASSUME NEW n \in S PROVE n + 1 \in S
  <2>1. PICK f : Joins(seqs, n, f)
    OBVIOUS
  <2> DEFINE g == [i \in 1..(n + 1) |-> IF i = 1 THEN seqs[i] ELSE f[i - 1] \o seqs[i]]
  <2>2. \A i \in 1..n : f[i] = g[i]
    <3> TAKE i \in 1..n
    <3>1. f[i] = IF i = 1 THEN seqs[i] ELSE f[i - 1] \o seqs[i]
      BY <2>1, JoinAt
    <3>2. i \in 1..(n + 1)
      OBVIOUS
    <3> QED
      BY <3>1, <3>2
  <2>3. \A i \in 1..(n + 1) : i # 1 => f[i - 1] = g[i - 1]
    <3> TAKE i \in 1..(n + 1)
    <3>1. SUFFICES ASSUME i # 1 PROVE f[i - 1] = g[i - 1]
      OBVIOUS
    <3>2. i - 1 \in 1..n
      BY <3>1
    <3> HIDE DEF g
    <3> QED
      BY <2>2, <3>2
  <2>4. g = [i \in 1..(n + 1) |-> IF i = 1 THEN seqs[i] ELSE g[i - 1] \o seqs[i]]
    BY <2>3
  <2> HIDE DEF g
  <2>5. Joins(seqs, n + 1, g)
    BY <2>4 DEF Joins
  <2> QED
    BY <2>5
<1> HIDE DEF S
<1>3. S = Nat
  BY <1>1, <1>2, SetInduction DEF S
<1> QED
  BY <1>3 DEF S

\* What holds of every list, and of two in a row, holds of all in a row.
LEMMA FlattenKeeps ==
  ASSUME NEW G, <<>> \in G, \A p, q \in G : p \o q \in G,
         NEW seqs, NEW n \in Nat, seqs \in [1..n -> G]
  PROVE  FlattenSeq(seqs) \in G
<1>1. seqs \in Seq(G) /\ Len(seqs) = n
  OBVIOUS
<1>2. CASE n = 0
  BY <1>1, <1>2 DEF FlattenSeq
<1>3. CASE n # 0
  <2> DEFINE f == CHOOSE f : f = [i \in 1..Len(seqs) |-> IF i = 1 THEN seqs[i] ELSE f[i - 1] \o seqs[i]]
  <2>1. Joins(seqs, n, f)
    BY <1>1, JoinsExist DEF Joins
  <2>2. FlattenSeq(seqs) = f[n]
    BY <1>1, <1>3 DEF FlattenSeq
  <2> HIDE DEF f
  <2> DEFINE S == {k \in Nat : k + 1 \in 1..n => f[k + 1] \in G}
  <2>3. 0 \in S
    <3>1. 1 \in 1..n => f[1] = seqs[1]
      BY <2>1, JoinAt
    <3> QED
      BY <3>1
  <2>4. ASSUME NEW k \in S PROVE k + 1 \in S
    <3>1. SUFFICES ASSUME k + 2 \in 1..n PROVE f[k + 2] \in G
      OBVIOUS
    <3>2. k + 1 \in 1..n /\ k + 2 # 1
      BY <3>1
    <3>3. f[k + 1] \in G /\ seqs[k + 2] \in G
      BY <3>1, <3>2
    <3>4. f[k + 2] = f[k + 1] \o seqs[k + 2]
      <4>1. f[k + 2] = IF k + 2 = 1 THEN seqs[k + 2] ELSE f[k + 2 - 1] \o seqs[k + 2]
        BY <2>1, <3>1, JoinAt
      <4>2. k + 2 # 1 /\ k + 2 - 1 = k + 1
        OBVIOUS
      <4> QED
        BY <4>1, <4>2
    <3> QED
      BY <3>3, <3>4
  <2> HIDE DEF S
  <2>5. S = Nat
    BY <2>3, <2>4, SetInduction DEF S
  <2>6. n - 1 \in Nat /\ n - 1 + 1 = n
    BY <1>3
  <2>7. n - 1 \in S
    BY <2>5, <2>6
  <2>8. n \in 1..n => f[n] \in G
    BY <2>6, <2>7 DEF S
  <2> QED
    BY <2>2, <2>8, <1>3
<1> QED
  BY <1>2, <1>3

LockStep == [do : {"take", "give"}, mutex : Mutex] \cup [do : {"event", "request"}]
Depths == [Mutex -> Nat]
AllFree == [m \in Mutex |-> 0]

\* How often a task holds each mutex after a step, and where it may do it: what
\* is given back is held, and the mutex of the scheduler is never taken under
\* that of the router.
After(x, d) ==
  IF x.do = "take" THEN [d EXCEPT ![x.mutex] = @ + 1]
  ELSE IF x.do = "give" THEN [d EXCEPT ![x.mutex] = @ - 1] ELSE d

Legal(x, d) ==
  /\ x.do = "give" => d[x.mutex] >= 1
  /\ x.do = "take" /\ x.mutex = "scheduler" => d["router"] = 0

Course(h, s) ==
  /\ h[Len(s) + 1] = AllFree
  /\ \A k \in 1..Len(s) : Legal(s[k], h[k]) /\ h[k + 1] = After(s[k], h[k])

\* What is left of a call fits what its task holds: all of it is given back in
\* the end, and each step is legal where it comes.
Fits(s, d) == \E h \in [1..(Len(s) + 1) -> Depths] : Course(h, s) /\ h[1] = d

LEMMA StepKinds ==
  ASSUME NEW x \in LockStep
  PROVE  /\ x.do \in {"take", "give", "event", "request"}
         /\ x.do \in {"take", "give"} => x.mutex \in Mutex
BY DEF LockStep

LEMMA StepsAre ==
  /\ \A m \in Mutex : /\ TakeStep(m) \in LockStep /\ TakeStep(m).do = "take" /\ TakeStep(m).mutex = m
                      /\ GiveStep(m) \in LockStep /\ GiveStep(m).do = "give" /\ GiveStep(m).mutex = m
  /\ SendEvent \in LockStep /\ SendEvent.do = "event"
  /\ SendRequest \in LockStep /\ SendRequest.do = "request"
BY DEF TakeStep, GiveStep, SendEvent, SendRequest, LockStep

LEMMA AfterType ==
  ASSUME NEW x \in LockStep, NEW d \in Depths, Legal(x, d)
  PROVE  After(x, d) \in Depths
<1>1. CASE x.do = "take"
  BY <1>1, StepKinds DEF After, Depths
<1>2. CASE x.do = "give"
  <2>1. x.mutex \in Mutex /\ d[x.mutex] >= 1 /\ d[x.mutex] - 1 \in Nat
    BY <1>2, StepKinds DEF Legal, Depths
  <2> QED
    BY <1>2, <2>1 DEF After, Depths
<1>3. CASE x.do \notin {"take", "give"}
  BY <1>3 DEF After
<1> QED
  BY <1>1, <1>2, <1>3

LEMMA FitsNil == Fits(<<>>, AllFree) /\ \A d \in Depths : Fits(<<>>, d) => d = AllFree
<1>1. AllFree \in Depths
  BY DEF AllFree, Depths
<1>2. Fits(<<>>, AllFree)
  <2> DEFINE h == [k \in 1..(Len(<<>>) + 1) |-> AllFree]
  <2>1. h \in [1..(Len(<<>>) + 1) -> Depths] /\ h[Len(<<>>) + 1] = AllFree /\ h[1] = AllFree
    BY <1>1
  <2>2. Course(h, <<>>)
    BY <2>1 DEF Course
  <2> HIDE DEF h
  <2> QED
    BY <2>1, <2>2 DEF Fits
<1>3. \A d \in Depths : Fits(<<>>, d) => d = AllFree
  BY DEF Fits, Course
<1> QED
  BY <1>2, <1>3

\* One step in front.
LEMMA FitsCons ==
  ASSUME NEW s \in Seq(LockStep), NEW x \in LockStep, NEW d \in Depths,
         Legal(x, d), Fits(s, After(x, d))
  PROVE  <<x>> \o s \in Seq(LockStep) /\ Fits(<<x>> \o s, d)
<1> DEFINE t == <<x>> \o s
           n == Len(s)
<1>1. t \in Seq(LockStep) /\ Len(t) = n + 1 /\ n \in Nat
  OBVIOUS
<1>2. t[1] = x /\ \A k \in 2..(n + 1) : t[k] = s[k - 1]
  OBVIOUS
<1> HIDE DEF t
<1>3. PICK h \in [1..(n + 1) -> Depths] : Course(h, s) /\ h[1] = After(x, d)
  BY DEF Fits
<1> HIDE DEF n
<1> DEFINE g == [k \in 1..(n + 2) |-> IF k = 1 THEN d ELSE h[k - 1]]
<1>4. g \in [1..(Len(t) + 1) -> Depths] /\ g[1] = d
  BY <1>1, <1>3
<1>5. \A k \in 1..(n + 1) : g[k + 1] = h[k]
  BY <1>1
<1> HIDE DEF g
<1>6. h[n + 1] = AllFree /\ \A k \in 1..n : Legal(s[k], h[k]) /\ h[k + 1] = After(s[k], h[k])
  BY <1>3 DEF Course, n
<1>7. g[Len(t) + 1] = AllFree
  BY <1>1, <1>5, <1>6
<1>8. ASSUME NEW k \in 1..Len(t)
      PROVE  Legal(t[k], g[k]) /\ g[k + 1] = After(t[k], g[k])
  <2>1. CASE k = 1
    BY <1>1, <1>2, <1>3, <1>4, <1>5, <2>1
  <2>2. CASE k # 1
    <3>1. k - 1 \in 1..n /\ k - 1 \in 1..(n + 1) /\ k \in 1..(n + 1) /\ k \in 2..(n + 1)
          /\ k - 1 + 1 = k
      BY <1>1, <2>2
    <3>2. g[k] = h[k - 1] /\ g[k + 1] = h[k] /\ t[k] = s[k - 1]
      BY <1>2, <1>5, <3>1
    <3>3. Legal(s[k - 1], h[k - 1]) /\ h[k] = After(s[k - 1], h[k - 1])
      BY <1>6, <3>1
    <3> QED
      BY <3>2, <3>3
  <2> QED
    BY <2>1, <2>2
<1>9. Course(g, t)
  BY <1>7, <1>8 DEF Course
<1>10. t \in Seq(LockStep) /\ Fits(t, d)
  BY <1>1, <1>4, <1>9 DEF Fits
<1> QED
  BY <1>10 DEF t

\* One step done.
LEMMA FitsTail ==
  ASSUME NEW s \in Seq(LockStep), s # <<>>, NEW d \in Depths, Fits(s, d)
  PROVE  /\ Head(s) \in LockStep /\ Tail(s) \in Seq(LockStep)
         /\ Legal(Head(s), d) /\ Fits(Tail(s), After(Head(s), d))
<1> DEFINE t == Tail(s)
           n == Len(s)
<1>1. t \in Seq(LockStep) /\ Len(t) = n - 1 /\ n \in Nat \ {0} /\ Head(s) = s[1] /\ s[1] \in LockStep
  OBVIOUS
<1>2. \A k \in 1..(n - 1) : t[k] = s[k + 1]
  BY <1>1, HeadTailProperties
<1> HIDE DEF t
<1>3. PICK h \in [1..(n + 1) -> Depths] : Course(h, s) /\ h[1] = d
  BY DEF Fits
<1>4. h[n + 1] = AllFree /\ \A k \in 1..n : Legal(s[k], h[k]) /\ h[k + 1] = After(s[k], h[k])
  BY <1>3 DEF Course
<1> HIDE DEF n
<1> DEFINE g == [k \in 1..n |-> h[k + 1]]
<1>5. g \in [1..(Len(t) + 1) -> Depths]
  BY <1>1, <1>3
<1>6. \A k \in 1..n : g[k] = h[k + 1]
  OBVIOUS
<1> HIDE DEF g
<1>7. g[Len(t) + 1] = AllFree
  BY <1>1, <1>4, <1>6
<1>8. ASSUME NEW k \in 1..Len(t)
      PROVE  Legal(t[k], g[k]) /\ g[k + 1] = After(t[k], g[k])
  <2>1. k \in 1..(n - 1) /\ k \in 1..n /\ k + 1 \in 1..n
    BY <1>1
  <2>2. t[k] = s[k + 1] /\ g[k] = h[k + 1] /\ g[k + 1] = h[k + 1 + 1]
    BY <1>2, <1>6, <2>1
  <2>3. Legal(s[k + 1], h[k + 1]) /\ h[k + 1 + 1] = After(s[k + 1], h[k + 1])
    BY <1>4, <2>1
  <2> QED
    BY <2>2, <2>3
<1>9. Course(g, t)
  BY <1>7, <1>8 DEF Course
<1>10. 1 \in 1..n
  BY <1>1
<1>11. Legal(s[1], d) /\ g[1] = After(s[1], d)
  BY <1>3, <1>4, <1>6, <1>10
<1>12. Fits(t, After(s[1], d))
  BY <1>5, <1>9, <1>11 DEF Fits
<1> QED
  BY <1>1, <1>11, <1>12 DEF t

\* The steps of a call can be put in front of whatever fits: they take nothing
\* they do not give back.  The set says for what a task holds that is so.
Adds(where) ==
  {p \in Seq(LockStep) : \A d \in where, q \in Seq(LockStep) : Fits(q, d) => Fits(p \o q, d)}

Anywhere == Adds(Depths)

\* Where the mutex of the router is not held.
RouterFree == {d \in Depths : d["router"] = 0}
WhenFree == Adds(RouterFree)

LEMMA AddsRow ==
  ASSUME NEW where
  PROVE  <<>> \in Adds(where) /\ \A p, r \in Adds(where) : p \o r \in Adds(where)
<1>1. <<>> \in Adds(where)
  <2>1. \A q \in Seq(LockStep) : <<>> \o q = q
    OBVIOUS
  <2> QED
    BY <2>1 DEF Adds
<1>2. ASSUME NEW p \in Adds(where), NEW r \in Adds(where)
      PROVE  p \o r \in Adds(where)
  <2>1. p \in Seq(LockStep) /\ r \in Seq(LockStep) /\ p \o r \in Seq(LockStep)
    BY DEF Adds
  <2>2. ASSUME NEW d \in where, NEW q \in Seq(LockStep), Fits(q, d)
        PROVE  Fits((p \o r) \o q, d)
    <3>1. r \o q \in Seq(LockStep) /\ Fits(r \o q, d)
      BY <2>1, <2>2 DEF Adds
    <3>2. Fits(p \o (r \o q), d)
      BY <3>1 DEF Adds
    <3>3. (p \o r) \o q = p \o (r \o q)
      BY <2>1, ConcatAssociative
    <3> QED
      BY <3>2, <3>3
  <2> QED
    BY <2>1, <2>2 DEF Adds
<1> QED
  BY <1>1, <1>2

LEMMA AnywhereIsWhenFree == Anywhere \subseteq WhenFree
BY DEF Anywhere, WhenFree, Adds, RouterFree

LEMMA SendAdds ==
  ASSUME NEW x \in LockStep, x.do \in {"event", "request"}
  PROVE  <<x>> \in Anywhere
<1>1. <<x>> \in Seq(LockStep)
  OBVIOUS
<1>2. ASSUME NEW d \in Depths, NEW q \in Seq(LockStep), Fits(q, d)
      PROVE  Fits(<<x>> \o q, d)
  <2>1. Legal(x, d) /\ After(x, d) = d
    BY DEF Legal, After
  <2> QED
    BY <1>2, <2>1, FitsCons
<1> QED
  BY <1>1, <1>2 DEF Anywhere, Adds

\* A call under a mutex, where the mutex may be taken.
LEMMA UnderAdds ==
  ASSUME NEW m \in Mutex, NEW p, NEW inside, NEW where \in SUBSET Depths, p \in Adds(inside),
         \A d \in where : [d EXCEPT ![m] = @ + 1] \in inside,
         m = "scheduler" => where \subseteq RouterFree
  PROVE  Under(m, p) \in Adds(where)
<1> DEFINE take == TakeStep(m)
           give == GiveStep(m)
<1>1. /\ take \in LockStep /\ take.do = "take" /\ take.mutex = m
      /\ give \in LockStep /\ give.do = "give" /\ give.mutex = m
  BY StepsAre
<1>2. p \in Seq(LockStep)
  BY DEF Adds
<1>3. Under(m, p) = <<take>> \o p \o <<give>>
  BY DEF Under
<1> HIDE DEF take, give
<1>4. <<take>> \in Seq(LockStep) /\ <<give>> \in Seq(LockStep) /\ <<take>> \o p \in Seq(LockStep)
  BY <1>1, <1>2
<1>5. Under(m, p) \in Seq(LockStep)
  BY <1>3, <1>4
<1>6. ASSUME NEW d \in where, NEW q \in Seq(LockStep), Fits(q, d)
      PROVE  Fits(Under(m, p) \o q, d)
  <2> DEFINE e == [d EXCEPT ![m] = @ + 1]
  <2>1. d \in Depths /\ e \in inside /\ e \in Depths /\ e[m] >= 1
    BY DEF Depths
  <2>2. [e EXCEPT ![m] = @ - 1] = d
    <3> DEFINE f == [e EXCEPT ![m] = @ - 1]
    <3>1. d \in [Mutex -> Nat]
      BY <2>1 DEF Depths
    <3>2. DOMAIN f = Mutex /\ \A k \in Mutex : f[k] = d[k]
      BY <3>1
    <3>3. f = [k \in Mutex |-> f[k]]
      BY <3>1
    <3> HIDE DEF f
    <3>4. f = d
      BY <3>1, <3>2, <3>3
    <3> QED
      BY <3>4 DEF f
  <2>3. Legal(take, d) /\ After(take, d) = e
    BY <1>1 DEF Legal, After, RouterFree
  <2>4. Legal(give, e) /\ After(give, e) = d
    BY <1>1, <2>1, <2>2 DEF Legal, After
  <2> HIDE DEF e
  <2>5. <<give>> \o q \in Seq(LockStep) /\ Fits(<<give>> \o q, e)
    BY <1>1, <1>6, <2>1, <2>4, FitsCons
  <2> DEFINE r == <<give>> \o q
  <2> HIDE DEF r
  <2>6. p \o r \in Seq(LockStep) /\ Fits(p \o r, e)
    <3>1. r \in Seq(LockStep) /\ Fits(r, e)
      BY <2>5 DEF r
    <3>2. \A b \in inside, c \in Seq(LockStep) : Fits(c, b) => Fits(p \o c, b)
      BY DEF Adds
    <3> QED
      BY <1>2, <2>1, <3>1, <3>2
  <2>7. Fits(<<take>> \o (p \o r), d)
    BY <1>1, <2>1, <2>3, <2>6, FitsCons
  <2>8. Under(m, p) \o q = (<<take>> \o p) \o r
    BY <1>3, <1>4, ConcatAssociative DEF r
  <2>9. r \in Seq(LockStep)
    BY <2>5 DEF r
  <2>10. (<<take>> \o p) \o r = <<take>> \o (p \o r)
    BY <1>2, <1>4, <2>9, ConcatAssociative
  <2> QED
    BY <2>7, <2>8, <2>10
<1> QED
  BY <1>5, <1>6 DEF Adds

LEMMA UnderRouter ==
  ASSUME NEW p \in Anywhere
  PROVE  Under("router", p) \in Anywhere
<1>1. "router" \in Mutex /\ \A d \in Depths : [d EXCEPT !["router"] = @ + 1] \in Depths
  BY DEF Mutex, Depths
<1> QED
  BY <1>1, UnderAdds DEF Anywhere

LEMMA UnderScheduler ==
  ASSUME NEW p \in WhenFree
  PROVE  Under("scheduler", p) \in WhenFree
<1>1. /\ "scheduler" \in Mutex /\ RouterFree \subseteq Depths
      /\ \A d \in RouterFree : [d EXCEPT !["scheduler"] = @ + 1] \in RouterFree
  BY DEF Mutex, Depths, RouterFree
<1> QED
  BY <1>1, UnderAdds DEF WhenFree

-----------------------------------------------------------------------------
(* The calls. *)

LEMMA NothingAdds == <<>> \in Anywhere /\ <<>> \in WhenFree
BY AddsRow DEF Anywhere, WhenFree

LEMMA PublishAdds == PublishEvent \in Anywhere
<1>1. Under("router", <<>>) \in Anywhere
  BY NothingAdds, UnderRouter
<1>2. <<SendEvent>> \in Anywhere
  BY StepsAre, SendAdds
<1> QED
  BY <1>1, <1>2, AddsRow DEF PublishEvent, Anywhere

LEMMA FireAdds ==
  ASSUME NEW n \in Nat
  PROVE  FireEntries(n) \in WhenFree
<1> DEFINE all == [k \in 1..n |-> PublishEvent]
<1>1. PublishEvent \in WhenFree
  BY PublishAdds, AnywhereIsWhenFree
<1>2. all \in [1..n -> WhenFree]
  BY <1>1
<1> HIDE DEF all
<1>3. FlattenSeq(all) \in WhenFree
  BY <1>2, AddsRow, FlattenKeeps DEF WhenFree
<1> QED
  BY <1>3, UnderScheduler DEF FireEntries, all

LEMMA CallAdds ==
  /\ \A name \in CallName : CallSteps(name) \in WhenFree
  /\ \A name \in CallName \ {"trigger", "schedule"} : CallSteps(name) \in Anywhere
<1>1. CallSteps("trigger") \in WhenFree
  BY FireAdds DEF CallSteps
<1>2. CallSteps("schedule") \in WhenFree
  BY NothingAdds, UnderScheduler DEF CallSteps
<1>3. CallSteps("rules") \in Anywhere
  BY NothingAdds, UnderRouter DEF CallSteps
<1>4. CallSteps("publish") \in Anywhere
  BY PublishAdds DEF CallSteps
<1>5. CallSteps("submit") \in Anywhere
  BY StepsAre, SendAdds DEF CallSteps
<1> QED
  BY <1>1, <1>2, <1>3, <1>4, <1>5, AnywhereIsWhenFree DEF CallName

LEMMA CallsAdd ==
  ASSUME NEW n \in Nat, NEW where, NEW names \in [1..n -> CallName],
         \A k \in 1..n : CallSteps(names[k]) \in Adds(where)
  PROVE  CallsOf(names) \in Adds(where)
<1> DEFINE all == [k \in DOMAIN names |-> CallSteps(names[k])]
<1>1. all \in [1..n -> Adds(where)]
  OBVIOUS
<1>2. CallsOf(names) = FlattenSeq(all)
  BY DEF CallsOf
<1> HIDE DEF all
<1> QED
  BY <1>1, <1>2, AddsRow, FlattenKeeps

LEMMA ListsAre ==
  ASSUME NEW names, NEW list \in Lists(names)
  PROVE  \E n \in Nat : list \in [1..n -> names]
BY DEF Lists

\* An event, when no rule calls the scheduler.
LEMMA EventAdds ==
  ASSUME RuleCalls \cap {"trigger", "schedule"} = {},
         NEW actions \in Lists(RuleCalls) \cup {<<"agent">>}
  PROVE  EventSteps(actions) \in WhenFree
<1>1. Under("router", <<>>) \in Anywhere
  BY NothingAdds, UnderRouter
<1>2. CASE actions = <<"agent">>
  <2>1. <<SendRequest>> \in Anywhere
    BY StepsAre, SendAdds
  <2>2. Under("router", <<>>) \o <<SendRequest>> \o Under("router", <<>>) \in Anywhere
    BY <1>1, <2>1, AddsRow DEF Anywhere
  <2>3. EventSteps(actions) \in Anywhere
    BY <1>1, <1>2, <2>2, AddsRow DEF Anywhere, EventSteps
  <2> QED
    BY <2>3, AnywhereIsWhenFree
<1>3. CASE actions # <<"agent">>
  <2>1. PICK n \in Nat : actions \in [1..n -> RuleCalls]
    BY <1>3, ListsAre
  <2>2. actions \in [1..n -> CallName] /\ \A k \in 1..n : CallSteps(actions[k]) \in Anywhere
    BY <2>1, LockAssumption, CallAdds DEF LockAssumption
  <2>3. CallsOf(actions) \in Anywhere
    BY <2>2, CallsAdd DEF Anywhere
  <2>4. EventSteps(actions) \in Anywhere
    BY <1>1, <1>3, <2>3, UnderRouter, AddsRow DEF Anywhere, EventSteps
  <2> QED
    BY <2>4, AnywhereIsWhenFree
<1> QED
  BY <1>2, <1>3

LEMMA RequestAdds ==
  ASSUME NEW tools \in Lists({"trigger", "schedule", "rules", "publish"}), NEW answer \in BOOLEAN
  PROVE  CallsOf(tools) \o (IF answer THEN PublishEvent ELSE <<>>) \in WhenFree
<1>1. PICK n \in Nat : tools \in [1..n -> {"trigger", "schedule", "rules", "publish"}]
  BY ListsAre
<1>2. tools \in [1..n -> CallName] /\ \A k \in 1..n : CallSteps(tools[k]) \in WhenFree
  BY <1>1, CallAdds DEF CallName
<1>3. CallsOf(tools) \in WhenFree
  BY <1>2, CallsAdd DEF WhenFree
<1>4. (IF answer THEN PublishEvent ELSE <<>>) \in WhenFree
  BY PublishAdds, NothingAdds, AnywhereIsWhenFree
<1> QED
  BY <1>3, <1>4, AddsRow DEF WhenFree

-----------------------------------------------------------------------------

\* How often a task holds each mutex.
Held(who, often, t) == [m \in Mutex |-> IF who[m] = t THEN often[m] ELSE 0]

LockVarsOK ==
  /\ steps \in [LockTask -> Seq(LockStep)]
  /\ holder \in [Mutex -> LockTask \cup {Nobody}]
  /\ depth \in Depths
  /\ \A m \in Mutex : holder[m] = Nobody <=> depth[m] = 0

LockInv ==
  /\ LockVarsOK
  /\ \A t \in LockTask : Fits(steps[t], Held(holder, depth, t))

LEMMA HeldType ==
  ASSUME LockVarsOK, NEW t
  PROVE  Held(holder, depth, t) \in Depths
BY DEF LockVarsOK, Held, Depths

\* A task begins a call; it holds nothing then.
LEMMA BeginKeeps ==
  ASSUME LockInv, NEW t \in LockTask, NEW list \in WhenFree, NEW calls,
         BeginCall(t, list, calls)
  PROVE  LockInv'
<1>1. LockVarsOK /\ steps[t] = <<>> /\ Fits(<<>>, Held(holder, depth, t))
  BY DEF LockInv, BeginCall
<1>2. Held(holder, depth, t) = AllFree
  BY <1>1, HeldType, FitsNil
<1>3. AllFree \in RouterFree
  BY DEF AllFree, RouterFree, Depths, Mutex
<1>4. Fits(list \o <<>>, AllFree) /\ list \in Seq(LockStep)
  <2>1. list \in Adds(RouterFree) /\ <<>> \in Seq(LockStep)
    BY DEF WhenFree
  <2>2. list \in Seq(LockStep) /\ \A d \in RouterFree, q \in Seq(LockStep) : Fits(q, d) => Fits(list \o q, d)
    BY <2>1, Zenon DEF Adds
  <2> QED
    BY <1>3, <2>1, <2>2, FitsNil
<1>5. list \o <<>> = list
  BY <1>4
<1>6. steps' = [steps EXCEPT ![t] = list] /\ holder' = holder /\ depth' = depth
  BY DEF BeginCall
<1>7. LockVarsOK'
  BY <1>1, <1>4, <1>6 DEF LockVarsOK
<1>8. ASSUME NEW u \in LockTask PROVE Fits(steps'[u], Held(holder', depth', u))
  <2>1. steps'[u] = IF u = t THEN list ELSE steps[u]
    BY <1>1, <1>6 DEF LockVarsOK
  <2> QED
    BY <1>2, <1>4, <1>5, <1>6, <2>1 DEF LockInv
<1> QED
  BY <1>7, <1>8 DEF LockInv

\* A step is done: what the task holds changes with it, what others hold does
\* not.
LEMMA StepKeeps ==
  ASSUME LockInv, NEW t \in LockTask, steps[t] # <<>>, LockVarsOK',
         NEW more \in Anywhere,
         steps' = [steps EXCEPT ![t] = more \o Tail(@)],
         Held(holder', depth', t) = After(Head(steps[t]), Held(holder, depth, t)),
         \A u \in LockTask \ {t} : Held(holder', depth', u) = Held(holder, depth, u)
  PROVE  LockInv'
<1> DEFINE s == steps[t]
           d == Held(holder, depth, t)
<1>1. s \in Seq(LockStep) /\ s # <<>> /\ Fits(s, d) /\ d \in Depths
  BY HeldType DEF LockInv, LockVarsOK
<1> HIDE DEF s, d
<1>2. /\ Head(s) \in LockStep /\ Tail(s) \in Seq(LockStep)
      /\ Legal(Head(s), d) /\ Fits(Tail(s), After(Head(s), d))
  BY <1>1, FitsTail
<1>3. After(Head(s), d) \in Depths
  BY <1>1, <1>2, AfterType
<1>4. Fits(more \o Tail(s), After(Head(s), d))
  BY <1>2, <1>3 DEF Anywhere, Adds
<1>5. ASSUME NEW u \in LockTask PROVE Fits(steps'[u], Held(holder', depth', u))
  <2>1. steps'[u] = IF u = t THEN more \o Tail(s) ELSE steps[u]
    BY DEF LockInv, LockVarsOK, s
  <2>2. CASE u = t
    BY <1>4, <2>1, <2>2 DEF s, d
  <2>3. CASE u # t
    BY <2>1, <2>3 DEF LockInv
  <2> QED
    BY <2>2, <2>3
<1> QED
  BY <1>5 DEF LockInv

\* The next step of a task is one that is legal with what it holds.
LEMMA NextIsLegal ==
  ASSUME LockInv, NEW t \in LockTask, steps[t] # <<>>
  PROVE  Head(steps[t]) \in LockStep /\ Legal(Head(steps[t]), Held(holder, depth, t))
BY FitsTail, HeldType DEF LockInv, LockVarsOK

LEMMA QuietKeeps ==
  ASSUME LockInv, NEW t \in LockTask, steps[t] # <<>>,
         Head(steps[t]).do \in {"event", "request"}, NEW more \in Anywhere,
         Proceed(t, more), UNCHANGED <<holder, depth>>
  PROVE  LockInv'
<1>1. steps' = [steps EXCEPT ![t] = more \o Tail(@)]
  BY DEF Proceed
<1>2. Tail(steps[t]) \in Seq(LockStep) /\ more \in Seq(LockStep)
  BY DEF LockInv, LockVarsOK, Anywhere, Adds
<1>3. more \o Tail(steps[t]) \in Seq(LockStep)
  BY <1>2
<1>4. LockVarsOK'
  BY <1>1, <1>3 DEF LockInv, LockVarsOK
<1>5. After(Head(steps[t]), Held(holder, depth, t)) = Held(holder, depth, t)
  BY DEF After
<1> QED
  BY <1>1, <1>4, <1>5, StepKeeps

LEMMA QueueEventKeeps ==
  ASSUME LockInv, NEW t \in LockTask, QueueEvent(t)
  PROVE  LockInv'
<1>1. /\ steps[t] # <<>> /\ Head(steps[t]).do = "event" /\ UNCHANGED <<holder, depth>>
      /\ (Proceed(t, <<>>) \/ Proceed(t, Under("router", <<>>)))
  BY DEF QueueEvent, Doing
<1>2. <<>> \in Anywhere /\ Under("router", <<>>) \in Anywhere
  BY NothingAdds, UnderRouter
<1> QED
  BY <1>1, <1>2, QuietKeeps

LEMMA QueueRequestKeeps ==
  ASSUME LockInv, NEW t \in LockTask, QueueRequest(t)
  PROVE  LockInv'
<1>1. /\ steps[t] # <<>> /\ Head(steps[t]).do = "request" /\ UNCHANGED <<holder, depth>>
      /\ Proceed(t, <<>>)
  BY DEF QueueRequest, Doing
<1> QED
  BY <1>1, NothingAdds, QuietKeeps

LEMMA TakeMutexKeeps ==
  ASSUME LockInv, NEW t \in LockTask, TakeMutex(t)
  PROVE  LockInv'
<1> DEFINE x == Head(steps[t])
           m == x.mutex
<1>1. /\ steps[t] # <<>> /\ x.do = "take" /\ holder[m] \in {Nobody, t}
      /\ holder' = [holder EXCEPT ![m] = t] /\ depth' = [depth EXCEPT ![m] = @ + 1]
      /\ steps' = [steps EXCEPT ![t] = <<>> \o Tail(@)]
  BY DEF TakeMutex, Doing, Proceed
<1>2. x \in LockStep /\ m \in Mutex
  BY <1>1, NextIsLegal, StepKinds
<1> HIDE DEF m
<1>3. LockVarsOK /\ t # Nobody
  BY LockAssumption DEF LockInv, LockAssumption
<1>4. Tail(steps[t]) \in Seq(LockStep) /\ <<>> \o Tail(steps[t]) \in Seq(LockStep)
  BY <1>1, <1>3 DEF LockVarsOK
<1>5. depth' \in Depths /\ holder' \in [Mutex -> LockTask \cup {Nobody}]
  BY <1>1, <1>2, <1>3 DEF LockVarsOK, Depths
<1>6. \A k \in Mutex : holder'[k] = Nobody <=> depth'[k] = 0
  BY <1>1, <1>2, <1>3 DEF LockVarsOK, Depths
<1>7. steps' \in [LockTask -> Seq(LockStep)]
  BY <1>1, <1>3, <1>4 DEF LockVarsOK
<1>8. LockVarsOK'
  BY <1>5, <1>6, <1>7 DEF LockVarsOK
<1>9. Held(holder', depth', t) = After(x, Held(holder, depth, t))
  <2>1. After(x, Held(holder, depth, t)) = [Held(holder, depth, t) EXCEPT ![m] = @ + 1]
    BY <1>1 DEF After, m
  <2>2. ASSUME NEW k \in Mutex
        PROVE  Held(holder', depth', t)[k] = [Held(holder, depth, t) EXCEPT ![m] = @ + 1][k]
    BY <1>1, <1>2, <1>3, <2>2 DEF Held, LockVarsOK, Depths
  <2> QED
    BY <2>1, <2>2 DEF Held
<1>10. ASSUME NEW u \in LockTask \ {t}
       PROVE  Held(holder', depth', u) = Held(holder, depth, u)
  <2>1. ASSUME NEW k \in Mutex
        PROVE  (IF holder'[k] = u THEN depth'[k] ELSE 0) = (IF holder[k] = u THEN depth[k] ELSE 0)
    <3>1. u # Nobody
      BY LockAssumption DEF LockAssumption
    <3> QED
      BY <1>1, <1>2, <1>3, <3>1 DEF LockVarsOK, Depths
  <2> QED
    BY <2>1 DEF Held
<1> QED
  BY <1>1, <1>8, <1>9, <1>10, NothingAdds, StepKeeps

LEMMA GiveMutexKeeps ==
  ASSUME LockInv, NEW t \in LockTask, GiveMutex(t)
  PROVE  LockInv'
<1> DEFINE x == Head(steps[t])
           m == x.mutex
<1>1. /\ steps[t] # <<>> /\ x.do = "give"
      /\ depth' = [depth EXCEPT ![m] = @ - 1]
      /\ holder' = [holder EXCEPT ![m] = IF depth[m] = 1 THEN Nobody ELSE t]
      /\ steps' = [steps EXCEPT ![t] = <<>> \o Tail(@)]
  BY DEF GiveMutex, Doing, Proceed
<1>2. x \in LockStep /\ m \in Mutex /\ Held(holder, depth, t)[m] >= 1
  BY <1>1, NextIsLegal, StepKinds DEF Legal
<1> HIDE DEF m
<1>3. LockVarsOK /\ t # Nobody
  BY LockAssumption DEF LockInv, LockAssumption
<1>4. holder[m] = t /\ depth[m] \in Nat /\ depth[m] >= 1
  BY <1>2, <1>3 DEF Held, LockVarsOK, Depths
<1>5. Tail(steps[t]) \in Seq(LockStep) /\ <<>> \o Tail(steps[t]) \in Seq(LockStep)
  BY <1>1, <1>3 DEF LockVarsOK
<1>6. depth' \in Depths /\ holder' \in [Mutex -> LockTask \cup {Nobody}]
  BY <1>1, <1>2, <1>3, <1>4 DEF LockVarsOK, Depths
<1>7. \A k \in Mutex : holder'[k] = Nobody <=> depth'[k] = 0
  BY <1>1, <1>2, <1>3, <1>4 DEF LockVarsOK, Depths
<1>8. steps' \in [LockTask -> Seq(LockStep)]
  BY <1>1, <1>3, <1>5 DEF LockVarsOK
<1>9. LockVarsOK'
  BY <1>6, <1>7, <1>8 DEF LockVarsOK
<1>10. Held(holder', depth', t) = After(x, Held(holder, depth, t))
  <2>1. After(x, Held(holder, depth, t)) = [Held(holder, depth, t) EXCEPT ![m] = @ - 1]
    BY <1>1 DEF After, m
  <2>2. ASSUME NEW k \in Mutex
        PROVE  Held(holder', depth', t)[k] = [Held(holder, depth, t) EXCEPT ![m] = @ - 1][k]
    BY <1>1, <1>2, <1>3, <1>4, <2>2 DEF Held, LockVarsOK, Depths
  <2> QED
    BY <2>1, <2>2 DEF Held
<1>11. ASSUME NEW u \in LockTask \ {t}
       PROVE  Held(holder', depth', u) = Held(holder, depth, u)
  <2>1. ASSUME NEW k \in Mutex
        PROVE  (IF holder'[k] = u THEN depth'[k] ELSE 0) = (IF holder[k] = u THEN depth[k] ELSE 0)
    <3>1. u # Nobody
      BY LockAssumption DEF LockAssumption
    <3> QED
      BY <1>1, <1>2, <1>3, <1>4, <3>1 DEF LockVarsOK, Depths
  <2> QED
    BY <2>1 DEF Held
<1> QED
  BY <1>1, <1>9, <1>10, <1>11, NothingAdds, StepKeeps

LEMMA LockStarts == LockInit => LockInv
<1> SUFFICES ASSUME LockInit PROVE LockInv
  OBVIOUS
<1>1. /\ steps = [t \in LockTask |-> <<>>] /\ holder = [m \in Mutex |-> Nobody]
      /\ depth = [m \in Mutex |-> 0]
  BY DEF LockInit
<1>2. <<>> \in Seq(LockStep)
  OBVIOUS
<1>3. LockVarsOK
  BY <1>1, <1>2 DEF LockVarsOK, Depths
<1>4. ASSUME NEW t \in LockTask PROVE Held(holder, depth, t) = AllFree
  BY <1>1 DEF Held, AllFree
<1> QED
  BY <1>1, <1>3, <1>4, FitsNil DEF LockInv

NoRuleSchedules == RuleCalls \cap {"trigger", "schedule"} = {}

LEMMA LockStepKeeps ==
  ASSUME NoRuleSchedules, LockInv, [LockNext]_lockVars
  PROVE  LockInv'
<1>1. ASSUME NEW t \in Console, ConsoleCall(t) PROVE LockInv'
  <2>1. PICK name \in CallName : BeginCall(t, CallSteps(name), 1)
    BY <1>1 DEF ConsoleCall
  <2>2. t \in LockTask /\ CallSteps(name) \in WhenFree
    BY CallAdds DEF LockTask
  <2> QED
    BY <2>1, <2>2, BeginKeeps
<1>2. CASE FirePass
  <2>1. PICK n \in 1..MaxFires : BeginCall(SchedulerTask, FireEntries(n), n)
    BY <1>2 DEF FirePass
  <2>2. SchedulerTask \in LockTask /\ FireEntries(n) \in WhenFree
    <3>1. MaxFires \in Nat
      BY LockAssumption DEF LockAssumption
    <3> QED
      BY <3>1, FireAdds DEF LockTask
  <2> QED
    BY <2>1, <2>2, BeginKeeps
<1>3. CASE RouteEvent
  <2>1. PICK actions \in Lists(RuleCalls) \cup {<<"agent">>} :
          BeginCall(RouterTask, EventSteps(actions), Len(actions))
    BY <1>3 DEF RouteEvent
  <2>2. RouterTask \in LockTask /\ EventSteps(actions) \in WhenFree
    BY EventAdds DEF LockTask, NoRuleSchedules
  <2> QED
    BY <2>1, <2>2, BeginKeeps
<1>4. CASE ServeRequest
  <2>1. PICK tools \in Lists({"trigger", "schedule", "rules", "publish"}), answer \in BOOLEAN :
          BeginCall(AgentTask, CallsOf(tools) \o (IF answer THEN PublishEvent ELSE <<>>), Len(tools))
    BY <1>4 DEF ServeRequest
  <2>2. /\ AgentTask \in LockTask
        /\ CallsOf(tools) \o (IF answer THEN PublishEvent ELSE <<>>) \in WhenFree
    BY RequestAdds DEF LockTask
  <2> QED
    BY <2>1, <2>2, BeginKeeps
<1>5. CASE Going
  BY <1>5, TakeMutexKeeps, GiveMutexKeeps, QueueEventKeeps, QueueRequestKeeps DEF Going, GoOn
<1>6. CASE UNCHANGED lockVars
  BY <1>6 DEF lockVars, LockInv, LockVarsOK, Held
<1> QED
  BY <1>1, <1>2, <1>3, <1>4, <1>5, <1>6 DEF LockNext

\* A task can go on: the mutex it is about to take is free or its own; a send
\* ends by a place or by its timeout.
CanGoOn(t) ==
  /\ steps[t] # <<>>
  /\ Head(steps[t]).do = "take" => holder[Head(steps[t]).mutex] \in {Nobody, t}

NoDeadlock ==
  (\E t \in LockTask : steps[t] # <<>>) => \E t \in LockTask : CanGoOn(t)

\* A task that holds a mutex has something left to do.
LEMMA HolderIsBusy ==
  ASSUME LockInv, NEW m \in Mutex, holder[m] # Nobody
  PROVE  holder[m] \in LockTask /\ steps[holder[m]] # <<>>
<1>1. holder[m] \in LockTask /\ depth[m] # 0
  BY DEF LockInv, LockVarsOK
<1>2. Held(holder, depth, holder[m])[m] # AllFree[m]
  BY <1>1 DEF Held, AllFree
<1>3. Fits(steps[holder[m]], Held(holder, depth, holder[m]))
  BY <1>1 DEF LockInv
<1>4. Held(holder, depth, holder[m]) \in Depths
  BY HeldType DEF LockInv
<1> QED
  BY <1>1, <1>2, <1>3, <1>4, FitsNil

\* Whoever holds the mutex of the router can go on.
LEMMA RouterHolderGoesOn ==
  ASSUME LockInv, holder["router"] # Nobody
  PROVE  holder["router"] \in LockTask /\ CanGoOn(holder["router"])
<1> DEFINE u == holder["router"]
<1>1. "router" \in Mutex
  BY DEF Mutex
<1>2. u \in LockTask /\ steps[u] # <<>>
  BY <1>1, HolderIsBusy
<1>3. Head(steps[u]) \in LockStep /\ Legal(Head(steps[u]), Held(holder, depth, u))
  BY <1>2, NextIsLegal
<1>4. Held(holder, depth, u)["router"] # 0
  BY <1>1, <1>2 DEF Held, LockInv, LockVarsOK
<1>5. Head(steps[u]).do = "take" => Head(steps[u]).mutex = "router"
  BY <1>3, <1>4, StepKinds DEF Legal, Mutex
<1> QED
  BY <1>2, <1>5 DEF CanGoOn

LEMMA SomeoneGoesOn == LockInv => NoDeadlock
<1> SUFFICES ASSUME LockInv, NEW t \in LockTask, steps[t] # <<>>
             PROVE  \E u \in LockTask : CanGoOn(u)
  BY DEF NoDeadlock
<1>1. CASE holder["router"] # Nobody
  BY <1>1, RouterHolderGoesOn
<1>2. CASE holder["router"] = Nobody /\ holder["scheduler"] # Nobody
  <2> DEFINE u == holder["scheduler"]
  <2>1. "scheduler" \in Mutex
    BY DEF Mutex
  <2>2. u \in LockTask /\ steps[u] # <<>>
    BY <1>2, <2>1, HolderIsBusy
  <2>3. Head(steps[u]) \in LockStep
    BY <2>2, NextIsLegal
  <2>4. CanGoOn(u)
    BY <1>2, <2>2, <2>3, StepKinds DEF CanGoOn, Mutex
  <2> QED
    BY <2>2, <2>4
<1>3. CASE holder["router"] = Nobody /\ holder["scheduler"] = Nobody
  <2>1. Head(steps[t]) \in LockStep
    BY NextIsLegal
  <2>2. CanGoOn(t)
    BY <1>3, <2>1, StepKinds DEF CanGoOn, Mutex
  <2> QED
    BY <2>2
<1> QED
  BY <1>1, <1>2, <1>3

\* Scheduler, router, agent and any number of other tasks never wait for each
\* other in a circle, whatever the lengths of the queues and the lists of
\* actions and tools, as long as no rule calls the scheduler: each waits for a
\* mutex only where its holder can go on (claw_event_router.c, process_event
\* and publish; cap_scheduler.c, publish_entry_locked).
THEOREM NobodyIsStuck == NoRuleSchedules => (LockSpec => []NoDeadlock)
<1>1. SUFFICES ASSUME NoRuleSchedules PROVE LockSpec => []NoDeadlock
  OBVIOUS
<1>2. LockInv /\ [LockNext]_lockVars => LockInv'
  BY <1>1, LockStepKeeps
<1> QED
  BY <1>2, LockStarts, SomeoneGoesOn, PTL DEF LockSpec

\* The lengths of the queues and the calls left.
QueuesOK == events \in 0..EventLen /\ asked \in 0..CoreQueueLen /\ callsLeft \in 0..MaxCalls

\* A send finds a place or does not; a call is begun only when it may be.
LEMMA QueuesStep ==
  ASSUME QueuesOK, [LockNext]_lockVars
  PROVE  QueuesOK'
<1> USE LockAssumption DEF LockAssumption, QueuesOK
<1>1. ASSUME NEW t, NEW list, NEW n \in Nat, BeginCall(t, list, n)
      PROVE  callsLeft' \in 0..MaxCalls
  BY <1>1 DEF BeginCall
<1>2. ASSUME NEW names, NEW l \in Lists(names) PROVE Len(l) \in Nat
  <2>1. PICK n \in 0..MaxActions : l \in [1..n -> names]
    BY DEF Lists
  <2>2. l \in Seq(names)
    BY <2>1
  <2> QED
    BY <2>2
<1>3. ASSUME NEW t \in Console, ConsoleCall(t) PROVE QueuesOK'
  BY <1>1, <1>3 DEF ConsoleCall
<1>4. CASE FirePass
  <2>1. PICK n \in 1..MaxFires : BeginCall(SchedulerTask, FireEntries(n), n)
    BY <1>4 DEF FirePass
  <2> QED
    BY <1>1, <1>4, <2>1 DEF FirePass
<1>5. CASE RouteEvent
  <2>1. PICK actions \in Lists(RuleCalls) \cup {<<"agent">>} :
          BeginCall(RouterTask, EventSteps(actions), Len(actions))
    BY <1>5 DEF RouteEvent
  <2>2. Len(actions) \in Nat
    BY <1>2, <2>1
  <2>3. callsLeft' \in 0..MaxCalls
    BY <1>1, <2>1, <2>2
  <2> QED
    BY <1>5, <2>3 DEF RouteEvent
<1>6. CASE ServeRequest
  <2>1. PICK tools \in Lists({"trigger", "schedule", "rules", "publish"}), answer \in BOOLEAN :
          BeginCall(AgentTask, CallsOf(tools) \o (IF answer THEN PublishEvent ELSE <<>>), Len(tools))
    BY <1>6 DEF ServeRequest
  <2>2. callsLeft' \in 0..MaxCalls
    BY <1>1, <1>2, <2>1
  <2> QED
    BY <1>6, <2>2 DEF ServeRequest
<1>7. ASSUME NEW t \in LockTask, GoOn(t) PROVE QueuesOK'
  BY <1>7 DEF GoOn, TakeMutex, GiveMutex, QueueEvent, QueueRequest
<1>8. CASE UNCHANGED lockVars
  BY <1>8 DEF lockVars
<1> QED
  BY <1>3, <1>4, <1>5, <1>6, <1>7, <1>8 DEF LockNext, Going

\* Every reachable state of the tasks at their locks is well typed: a mutex is
\* held by one task or by nobody and never given back more often than it was
\* taken, and no queue grows over its length (claw_event_router.c,
\* claw_core_submit, cap_scheduler.c).
THEOREM LockTypeCorrect == NoRuleSchedules => (LockSpec => []LockTypeOK)
<1>1. SUFFICES ASSUME NoRuleSchedules PROVE LockSpec => []LockTypeOK
  OBVIOUS
<1>2. LockInv /\ [LockNext]_lockVars => LockInv'
  BY <1>1, LockStepKeeps
<1>3. LockInit => QueuesOK
  BY LockAssumption DEF LockAssumption, LockInit, QueuesOK
<1>4. LockInv /\ QueuesOK => LockTypeOK
  BY DEF LockInv, LockVarsOK, Depths, QueuesOK, LockTypeOK
<1>5. QueuesOK /\ [LockNext]_lockVars => QueuesOK'
  BY QueuesStep
<1> QED
  BY <1>2, <1>3, <1>4, <1>5, LockStarts, PTL DEF LockSpec

-----------------------------------------------------------------------------
(* ExtractJobs.  A job without a result is in exactly one place: being     *)
(* sent, in the queue, or prepared; so what is freed has a result, and     *)
(* what the agent waits for is still to be given or was given.             *)

\* The jobs that have no result yet, on their way to the task or with it.
Waiting(queue) == {queue[n] : n \in DOMAIN queue}
UnderWay == Waiting(jobQueue) \cup (IF taskAt = "prepare" THEN {taskJob} ELSE {})

JobTypeOK ==
  /\ request \in Nat /\ agentAt \in {"next", "send", "work", "note", "wait"}
  /\ jobs \subseteq 1..request /\ jobQueue \in Seq(1..request)
  /\ completed \subseteq 1..request /\ given \subseteq completed
  /\ taskAt \in {"receive", "prepare", "give"} /\ taskJob \in 0..request

JobInv ==
  /\ JobTypeOK
  /\ \A m, n \in DOMAIN jobQueue : jobQueue[m] = jobQueue[n] => m = n
  /\ taskAt = "prepare" => taskJob \notin Waiting(jobQueue) /\ taskJob # 0
  /\ taskAt = "give" => taskJob \in completed
  /\ UnderWay \subseteq jobs \ completed
  /\ jobs \ completed \subseteq UnderWay \cup (IF agentAt = "send" THEN {request} ELSE {})
  /\ agentAt = "send" => request \in jobs \ completed /\ request \notin UnderWay
  /\ agentAt = "wait" =>
       /\ request \in jobs
       /\ request \in given \/ request \in UnderWay \/ (taskAt = "give" /\ taskJob = request)

LEMMA QueueAppend ==
  ASSUME NEW S, NEW q \in Seq(S), NEW j \in S
  PROVE  /\ Append(q, j) \in Seq(S)
         /\ Waiting(Append(q, j)) = Waiting(q) \cup {j}
         /\ j \notin Waiting(q) /\ (\A m, n \in DOMAIN q : q[m] = q[n] => m = n) =>
              \A m, n \in DOMAIN Append(q, j) : Append(q, j)[m] = Append(q, j)[n] => m = n
<1> DEFINE r == Append(q, j)
           last == Len(q) + 1
<1>1. /\ r \in Seq(S) /\ DOMAIN r = DOMAIN q \cup {last} /\ last \notin DOMAIN q
      /\ \A n \in DOMAIN q : r[n] = q[n]
      /\ r[last] = j
  OBVIOUS
<1> HIDE DEF r, last
<1>2. Waiting(r) = Waiting(q) \cup {j}
  BY <1>1 DEF Waiting
<1>3. j \notin Waiting(q) /\ (\A m, n \in DOMAIN q : q[m] = q[n] => m = n) =>
        \A m, n \in DOMAIN r : r[m] = r[n] => m = n
  BY <1>1 DEF Waiting
<1> QED
  BY <1>1, <1>2, <1>3 DEF r

LEMMA QueueTail ==
  ASSUME NEW S, NEW q \in Seq(S), q # <<>>, \A m, n \in DOMAIN q : q[m] = q[n] => m = n
  PROVE  /\ Head(q) \in S /\ Tail(q) \in Seq(S)
         /\ Waiting(q) = Waiting(Tail(q)) \cup {Head(q)} /\ Head(q) \notin Waiting(Tail(q))
         /\ \A m, n \in DOMAIN Tail(q) : Tail(q)[m] = Tail(q)[n] => m = n
<1> DEFINE r == Tail(q)
<1>1. /\ Head(q) = q[1] /\ q[1] \in S /\ r \in Seq(S) /\ 1 \in DOMAIN q
      /\ DOMAIN r = 1..(Len(q) - 1) /\ DOMAIN q = 1..Len(q) /\ Len(q) \in Nat
  OBVIOUS
<1>2. \A n \in DOMAIN r : r[n] = q[n + 1]
  BY <1>1, HeadTailProperties
<1> HIDE DEF r
<1>3. \A n \in DOMAIN r : n \in Nat /\ n + 1 \in DOMAIN q /\ n + 1 # 1
  BY <1>1
<1>4. \A n \in DOMAIN q : n = 1 \/ (n - 1 \in DOMAIN r /\ n - 1 + 1 = n)
  BY <1>1
<1>5. Waiting(r) \cup {q[1]} \subseteq Waiting(q)
  BY <1>1, <1>2, <1>3 DEF Waiting
<1>6. Waiting(q) \subseteq Waiting(r) \cup {q[1]}
  <2> SUFFICES ASSUME NEW n \in DOMAIN q PROVE q[n] \in Waiting(r) \cup {q[1]}
    BY DEF Waiting
  <2>1. CASE n = 1
    BY <2>1
  <2>2. CASE n # 1
    BY <1>2, <1>4, <2>2 DEF Waiting
  <2> QED
    BY <2>1, <2>2
<1>7. q[1] \notin Waiting(r)
  BY <1>1, <1>2, <1>3 DEF Waiting
<1>8. \A m, n \in DOMAIN r : r[m] = r[n] => m = n
  <2> TAKE m, n \in DOMAIN r
  <2> HAVE r[m] = r[n]
  <2>1. q[m + 1] = q[n + 1] /\ m + 1 \in DOMAIN q /\ n + 1 \in DOMAIN q
    BY <1>2, <1>3
  <2>2. m + 1 = n + 1
    BY <2>1
  <2> QED
    BY <1>3, <2>2
<1> QED
  BY <1>1, <1>5, <1>6, <1>7, <1>8 DEF r

\* There is more room for requests with every request.
LEMMA QueueWidens ==
  ASSUME NEW k \in Nat, NEW q \in Seq(1..k)
  PROVE  q \in Seq(1..(k + 1)) /\ 1..k \subseteq 1..(k + 1) /\ k + 1 \in 1..(k + 1) /\ k + 1 \notin 1..k
<1>1. 1..k \subseteq 1..(k + 1) /\ k + 1 \in 1..(k + 1) /\ k + 1 \notin 1..k
  OBVIOUS
<1>2. q \in Seq(1..(k + 1))
  BY <1>1
<1> QED
  BY <1>1, <1>2

LEMMA LinkJobKeeps == ASSUME JobInv, LinkJob PROVE JobInv'
<1>1. /\ agentAt = "next" /\ agentAt' = "send" /\ request' = request + 1 /\ request \in Nat
      /\ UNCHANGED <<jobQueue, completed, given, taskAt, taskJob>>
  BY DEF LinkJob, AgentTo, jobTaskVars, JobInv, JobTypeOK
<1>2. PICK kept \in SUBSET jobs : Swept(kept) /\ jobs' = kept \cup {request'}
  BY DEF LinkJob
<1>3. PICK gone \in SUBSET (jobs \cap completed) : kept = jobs \ gone
  BY <1>2 DEF Swept
<1>4. jobs' = (jobs \ gone) \cup {request'} /\ gone \subseteq completed
  BY <1>2, <1>3
<1>5. JobTypeOK
  BY DEF JobInv
<1>6. /\ jobQueue \in Seq(1..request') /\ 1..request \subseteq 1..request' /\ request' \in 1..request'
      /\ request' \notin 1..request
  BY <1>1, <1>5, QueueWidens DEF JobTypeOK
<1>7. taskJob \in 0..request' /\ request' \in Nat
  BY <1>1, <1>5 DEF JobTypeOK
<1>8. JobTypeOK'
  BY <1>1, <1>4, <1>5, <1>6, <1>7 DEF JobTypeOK
<1>9. UnderWay' = UnderWay
  BY <1>1 DEF UnderWay, Waiting
<1>10. request' \notin jobs /\ request' \notin completed
  BY <1>5, <1>6 DEF JobTypeOK
<1>11. UnderWay \subseteq jobs \ completed /\ jobs \ completed \subseteq UnderWay
  BY <1>1 DEF JobInv
<1>12. UnderWay \subseteq jobs' \ completed /\ jobs' \ completed \subseteq UnderWay \cup {request'}
       /\ request' \in jobs' \ completed /\ request' \notin UnderWay
  BY <1>4, <1>10, <1>11
<1> QED
  BY <1>1, <1>8, <1>9, <1>12 DEF JobInv, Waiting

LEMMA SendJobKeeps == ASSUME JobInv, SendJob PROVE JobInv'
<1>1. /\ agentAt = "send" /\ agentAt' = "work"
      /\ UNCHANGED <<request, completed, given, taskAt, taskJob>>
  BY DEF SendJob, AgentTo, jobTaskVars
<1>2. JobTypeOK
  BY DEF JobInv
<1>3. CASE jobQueue' = Append(jobQueue, request) /\ jobs' = jobs
  <2>1. jobQueue \in Seq(1..request) /\ request \in 1..request
    BY <1>1, <1>2 DEF JobTypeOK, JobInv
  <2>2. request \notin Waiting(jobQueue)
    BY <1>1 DEF JobInv, UnderWay
  <2>3. /\ jobQueue' \in Seq(1..request) /\ Waiting(jobQueue)' = Waiting(jobQueue) \cup {request}
        /\ \A m, n \in DOMAIN jobQueue' : jobQueue'[m] = jobQueue'[n] => m = n
    <3>1. \A m, n \in DOMAIN jobQueue : jobQueue[m] = jobQueue[n] => m = n
      BY DEF JobInv
    <3> QED
      BY <1>3, <2>1, <2>2, <3>1, QueueAppend DEF Waiting
  <2>4. JobTypeOK'
    BY <1>1, <1>2, <1>3, <2>3 DEF JobTypeOK
  <2>5. UnderWay' = UnderWay \cup {request}
    BY <1>1, <2>3 DEF UnderWay
  <2>6. taskAt = "prepare" => taskJob # request
    BY <1>1 DEF JobInv, UnderWay
  <2> QED
    BY <1>1, <1>3, <2>3, <2>4, <2>5, <2>6 DEF JobInv
<1>4. CASE jobs' = jobs \ {request} /\ jobQueue' = jobQueue
  <2>1. JobTypeOK'
    BY <1>1, <1>2, <1>4 DEF JobTypeOK
  <2>2. UnderWay' = UnderWay
    BY <1>1, <1>4 DEF UnderWay, Waiting
  <2> QED
    BY <1>1, <1>4, <2>1, <2>2 DEF JobInv, Waiting
<1> QED
  BY <1>3, <1>4 DEF SendJob

LEMMA AskForNoteKeeps == ASSUME JobInv, AskForNote PROVE JobInv'
<1>1. /\ agentAt = "work" /\ agentAt' \in {"next", "note"}
      /\ UNCHANGED <<request, jobs, jobQueue, completed, given, taskAt, taskJob>>
  BY DEF AskForNote, AgentTo, jobTaskVars
<1>2. JobTypeOK' /\ UnderWay' = UnderWay
  BY <1>1 DEF JobInv, JobTypeOK, UnderWay, Waiting
<1> QED
  BY <1>1, <1>2 DEF JobInv, Waiting

LEMMA TakeNoteKeeps == ASSUME JobInv, TakeNote PROVE JobInv'
<1>1. /\ agentAt = "note"
      /\ UNCHANGED <<request, jobQueue, completed, given, taskAt, taskJob>>
  BY DEF TakeNote, jobTaskVars
<1>2. UnderWay' = UnderWay
  BY <1>1 DEF UnderWay, Waiting
<1>3. JobTypeOK /\ UnderWay \subseteq jobs \ completed /\ jobs \ completed \subseteq UnderWay
  BY <1>1 DEF JobInv
<1>4. CASE agentAt' = "wait" /\ jobs' = jobs /\ request \in jobs \ completed
  <2>1. JobTypeOK'
    BY <1>1, <1>3, <1>4 DEF JobTypeOK
  <2> QED
    BY <1>1, <1>2, <1>3, <1>4, <2>1 DEF JobInv, Waiting
<1>5. CASE agentAt' = "next" /\ \E gone \in SUBSET completed : jobs' = jobs \ gone
  <2>1. PICK gone \in SUBSET completed : jobs' = jobs \ gone
    BY <1>5
  <2>2. JobTypeOK'
    BY <1>1, <1>3, <1>5, <2>1 DEF JobTypeOK
  <2>3. UnderWay \subseteq jobs' \ completed /\ jobs' \ completed \subseteq UnderWay
    BY <1>3, <2>1
  <2> QED
    BY <1>1, <1>2, <1>5, <2>2, <2>3 DEF JobInv, Waiting
<1>6. CASE request \in jobs
  BY <1>4, <1>5, <1>6 DEF TakeNote, AgentTo
<1>7. CASE request \notin jobs
  BY <1>5, <1>7 DEF TakeNote, AgentTo, Swept
<1> QED
  BY <1>6, <1>7

LEMMA AwaitJobKeeps == ASSUME JobInv, AwaitJob PROVE JobInv'
<1>1. /\ agentAt = "wait" /\ agentAt' = "note" /\ given' = given \ {request}
      /\ UNCHANGED <<request, jobs, jobQueue, completed, taskAt, taskJob>>
  BY DEF AwaitJob, AgentTo, jobTaskVars
<1>2. JobTypeOK' /\ UnderWay' = UnderWay
  BY <1>1 DEF JobInv, JobTypeOK, UnderWay, Waiting
<1> QED
  BY <1>1, <1>2 DEF JobInv, Waiting

LEMMA ReceiveJobKeeps == ASSUME JobInv, ReceiveJob PROVE JobInv'
<1>1. /\ taskAt = "receive" /\ taskAt' = "prepare" /\ jobQueue # <<>>
      /\ taskJob' = Head(jobQueue) /\ jobQueue' = Tail(jobQueue)
      /\ UNCHANGED <<request, agentAt, jobs, completed, given>>
  BY DEF ReceiveJob, agentVars
<1>2. JobTypeOK /\ \A m, n \in DOMAIN jobQueue : jobQueue[m] = jobQueue[n] => m = n
  BY DEF JobInv
<1>3. /\ Head(jobQueue) \in 1..request /\ Tail(jobQueue) \in Seq(1..request)
      /\ Waiting(jobQueue) = Waiting(Tail(jobQueue)) \cup {Head(jobQueue)}
      /\ Head(jobQueue) \notin Waiting(Tail(jobQueue))
      /\ \A m, n \in DOMAIN Tail(jobQueue) : Tail(jobQueue)[m] = Tail(jobQueue)[n] => m = n
  BY <1>1, <1>2, QueueTail DEF JobTypeOK
<1>4. taskJob' \in 0..request /\ taskJob' # 0 /\ request \in Nat
  BY <1>1, <1>2, <1>3 DEF JobTypeOK
<1>5. JobTypeOK'
  BY <1>1, <1>2, <1>3, <1>4 DEF JobTypeOK
<1>6. UnderWay' = UnderWay
  BY <1>1, <1>3 DEF UnderWay, Waiting
<1>7. Waiting(jobQueue)' = Waiting(Tail(jobQueue))
  BY <1>1 DEF Waiting
<1> QED
  BY <1>1, <1>3, <1>4, <1>5, <1>6, <1>7 DEF JobInv

LEMMA FinishJobKeeps == ASSUME JobInv, FinishJob PROVE JobInv'
<1>1. /\ taskAt = "prepare" /\ taskAt' = "give" /\ completed' = completed \cup {taskJob}
      /\ UNCHANGED <<request, agentAt, jobs, jobQueue, given, taskJob>>
  BY DEF FinishJob, agentVars
<1>2. taskJob \in UnderWay /\ taskJob \notin Waiting(jobQueue) /\ UnderWay' = UnderWay \ {taskJob}
  BY <1>1 DEF JobInv, UnderWay, Waiting
<1>3. JobTypeOK'
  BY <1>1 DEF JobInv, JobTypeOK
<1> QED
  BY <1>1, <1>2, <1>3 DEF JobInv, Waiting

LEMMA GiveJobKeeps == ASSUME JobInv, GiveJob PROVE JobInv'
<1>1. /\ taskAt = "give" /\ taskAt' = "receive" /\ given' = given \cup ({taskJob} \cap jobs)
      /\ taskJob' = 0
      /\ UNCHANGED <<request, agentAt, jobs, jobQueue, completed>>
  BY DEF GiveJob, agentVars
<1>2. taskJob \in completed /\ UnderWay' = UnderWay
  BY <1>1 DEF JobInv, UnderWay, Waiting
<1>3. JobTypeOK'
  BY <1>1, <1>2 DEF JobInv, JobTypeOK
<1> QED
  BY <1>1, <1>2, <1>3 DEF JobInv, Waiting

LEMMA JobsStart == ExtractInit => JobInv
<1> SUFFICES ASSUME ExtractInit PROVE JobInv
  OBVIOUS
<1>1. JobTypeOK
  BY DEF ExtractInit, JobTypeOK
<1>2. UnderWay = {}
  BY DEF ExtractInit, UnderWay, Waiting
<1> QED
  BY <1>1, <1>2 DEF ExtractInit, JobInv

LEMMA JobStep == JobInv /\ [JobNext]_jobVars => JobInv'
<1> SUFFICES ASSUME JobInv, [JobNext]_jobVars PROVE JobInv'
  OBVIOUS
<1>1. CASE LinkJob
  BY <1>1, LinkJobKeeps
<1>2. CASE Agent
  BY <1>2, SendJobKeeps, AskForNoteKeeps, TakeNoteKeeps, AwaitJobKeeps DEF Agent
<1>3. CASE JobTask
  BY <1>3, ReceiveJobKeeps, FinishJobKeeps, GiveJobKeeps DEF JobTask
<1>4. CASE UNCHANGED jobVars
  <2>1. UNCHANGED <<request, agentAt, jobs, jobQueue, completed, given, taskAt, taskJob>>
    BY <1>4 DEF jobVars, agentVars, jobTaskVars
  <2>2. JobTypeOK' /\ UnderWay' = UnderWay
    BY <2>1 DEF JobInv, JobTypeOK, UnderWay, Waiting
  <2> QED
    BY <2>1, <2>2 DEF JobInv, Waiting
<1> QED
  BY <1>1, <1>2, <1>3, <1>4 DEF JobNext

\* The task never writes a result into a job that was freed: what is in the
\* queue or being prepared is on the list (claw_memory_session.c,
\* sweep_locked and take_summary_list free only what has a result).
ResultHasPlace == \A j \in UnderWay : j \in jobs

THEOREM JobsOutliveTheirTask == ExtractSpec => []ResultHasPlace
<1>1. JobInv => ResultHasPlace
  BY DEF JobInv, ResultHasPlace
<1> QED
  BY <1>1, JobsStart, JobStep, PTL DEF ExtractSpec

\* The agent, which waits without a timeout, waits only for a job that still
\* exists and whose semaphore was given, or is still to be given by the task:
\* nothing that is waited for was dropped on the way (claw_memory_session.c,
\* ensure_started and take_summary_list).
WaitIsAnswered ==
  agentAt = "wait" =>
    /\ request \in jobs
    /\ request \in given \/ request \in UnderWay \/ (taskAt = "give" /\ taskJob = request)

THEOREM NobodyWaitsInVain == ExtractSpec => []WaitIsAnswered
<1>1. JobInv => WaitIsAnswered
  BY DEF JobInv, WaitIsAnswered
<1> QED
  BY <1>1, JobsStart, JobStep, PTL DEF ExtractSpec

-----------------------------------------------------------------------------
(* CapRegistry.  The argument is about the slot an operation works on.     *)
(* From the section that marks a group until the one that ends the         *)
(* operation, the slot the operation remembers holds its group in the      *)
(* state the mark gave it, because calls change nothing but counts; and an *)
(* unloading group, which no call can enter, has a count of zero.          *)

USE RegistryAssumption

\* The slot of an operation in progress: its group, in the state it was given.
AdminState ==
  CASE admin.op \in {"starting", "started", "startFailed"} -> {"started"}
    [] admin.op \in {"stopping", "stopped"}   -> {"disabled"}
    [] admin.op = "draining"                  -> {"draining"}
    [] admin.op \in {"unloading", "unloaded"} -> {"unloading"}
    [] OTHER                                  -> GroupStates

WithSlot == {"starting", "started", "startFailed", "stopping", "stopped",
             "draining", "unloading", "unloaded"}

AdminSlotOK ==
  admin.op \in WithSlot =>
    /\ admin.slot \in TableSlot
    /\ admin.group \in Plugin
    /\ table[admin.slot].group = admin.group
    /\ table[admin.slot].state \in AdminState

\* A free slot and only a free slot has no group; free slots count no call;
\* no group has two slots.
FreeSlotsOK ==
  \A s \in TableSlot :
    /\ table[s].group = NoPlugin <=> table[s].state = "free"
    /\ table[s].group = NoPlugin => table[s].active = 0
    /\ \A t \in TableSlot : table[s].group = table[t].group /\ s # t => table[s].group = NoPlugin

UnloadedIsQuiet ==
  admin.op \in {"unloading", "unloaded"} => table[admin.slot].active = 0

RequestsOK ==
  /\ admin.op \in {"enable", "disable", "unregister"} => admin.group \in Plugin
  /\ admin.op = "idle" => admin = AdminIdle

RegistryInv ==
  /\ RegistryTypeOK
  /\ AdminSlotOK
  /\ FreeSlotsOK
  /\ UnloadedIsQuiet
  /\ RequestsOK
  /\ CallsCounted

-----------------------------------------------------------------------------
\* What the steps of the administration that change at most the state of one
\* slot leave alone.
LEMMA StateOnly ==
  ASSUME RegistryTypeOK, CallsCounted,
         calling' = calling,
         table' \in [TableSlot -> [group : Plugin \cup {NoPlugin}, state : GroupStates,
                                   active : Nat]],
         \A s \in TableSlot : /\ table'[s].active = table[s].active
                              /\ table'[s].group = table[s].group
  PROVE  CallsCounted'
  BY DEF CallsCounted, Inside

LEMMA InsideFinite ==
  ASSUME NEW s \in TableSlot
  PROVE  /\ IsFiniteSet(Inside(s))
         /\ Cardinality(Inside(s)) \in Nat
         /\ Cardinality(Inside(s)) = 0 <=> Inside(s) = {}
<1>1. Inside(s) \subseteq Call
  BY DEF Inside
<1>2. IsFiniteSet(Inside(s))
  BY <1>1, FS_Subset
<1> QED
  BY <1>2, FS_CardinalityType, FS_EmptySet

\* A type-correct state stays one when a slot's state is set.
LEMMA SetStateTyped ==
  ASSUME RegistryTypeOK, NEW s \in TableSlot, NEW st \in GroupStates,
         SetState(s, st)
  PROVE  /\ table' \in [TableSlot -> [group : Plugin \cup {NoPlugin}, state : GroupStates,
                                      active : Nat]]
         /\ \A t \in TableSlot : /\ table'[t].active = table[t].active
                                 /\ table'[t].group = table[t].group
                                 /\ t # s => table'[t] = table[t]
         /\ table'[s].state = st
  BY DEF RegistryTypeOK, SetState

LEMMA InitInv == RegistryInit => RegistryInv
<1> SUFFICES ASSUME RegistryInit PROVE RegistryInv
  OBVIOUS
<1> USE DEF RegistryInit, FreeSlot, AdminIdle, NoSweep, NoCall, None
<1>1. RegistryTypeOK
  <2>1. table \in [TableSlot -> [group : Plugin \cup {NoPlugin}, state : GroupStates,
                                active : Nat]]
    BY DEF GroupStates
  <2>2. admin \in [op : AdminOps, group : Plugin \cup {NoPlugin}, slot : 0..TableSize,
                   polls : 0..MaxPolls]
    BY DEF AdminOps
  <2>3. sweep \in [kind : {"none", "start", "stop"}, at : 0..(TableSize + 1)]
    OBVIOUS
  <2> QED BY <2>1, <2>2, <2>3 DEF RegistryTypeOK
<1>2. AdminSlotOK /\ FreeSlotsOK /\ UnloadedIsQuiet /\ RequestsOK
  BY DEF AdminSlotOK, FreeSlotsOK, UnloadedIsQuiet, RequestsOK, WithSlot
<1>3. CallsCounted
  <2> SUFFICES ASSUME NEW s \in TableSlot
               PROVE  table[s].active = Cardinality(Inside(s)) /\ Inside(s) = {}
    BY DEF CallsCounted
  <2>1. Inside(s) = {}
    BY DEF Inside, TableSlot
  <2> QED BY <2>1, FS_EmptySet
<1> QED BY <1>1, <1>2, <1>3 DEF RegistryInv

\* Calls: they change counts, and only of slots that are not free.
LEMMA CallsKeepInv ==
  ASSUME RegistryInv, NEW c \in Call,
         CallEnd(c) \/ \E g \in Plugin : CallBegin(c, g)
  PROVE  RegistryInv'
<1> USE DEF RegistryInv
<1>1. CASE \E g \in Plugin : CallBegin(c, g)
  <2> PICK g \in Plugin : CallBegin(c, g)
    BY <1>1
  <2> PICK s \in SlotsOf(g) :
        /\ calling[c] = NoCall
        /\ Available(s)
        /\ table' = [table EXCEPT ![s].active = @ + 1]
        /\ calling' = [calling EXCEPT ![c] = [slot |-> s, group |-> g]]
        /\ UNCHANGED <<started, admin, sweep, live>>
    BY DEF CallBegin
  <2>1. s \in TableSlot /\ table[s].group = g /\ table[s].state \in {"registered", "started"}
    BY DEF SlotsOf, Available, CallableIn
  <2>2. RegistryTypeOK'
    <3>1. table' \in [TableSlot -> [group : Plugin \cup {NoPlugin}, state : GroupStates,
                                    active : Nat]]
      BY <2>1 DEF RegistryTypeOK
    <3>2. calling' \in [Call -> {NoCall} \cup [slot : TableSlot, group : Plugin]]
      BY <2>1 DEF RegistryTypeOK
    <3> QED BY <3>1, <3>2 DEF RegistryTypeOK
  <2>3. \A t \in TableSlot : /\ table'[t].group = table[t].group
                             /\ table'[t].state = table[t].state
                             /\ t # s => table'[t] = table[t]
    BY <2>1 DEF RegistryTypeOK
  <2>4. AdminSlotOK' /\ RequestsOK'
    BY <2>3 DEF AdminSlotOK, AdminState, RequestsOK
  <2>5. FreeSlotsOK'
    BY <2>1, <2>3 DEF FreeSlotsOK
  <2>6. UnloadedIsQuiet'
    <3> SUFFICES ASSUME admin.op \in {"unloading", "unloaded"}
                 PROVE  table'[admin.slot].active = 0
      BY DEF UnloadedIsQuiet
    <3>1. admin.slot \in TableSlot /\ table[admin.slot].state = "unloading"
      BY DEF AdminSlotOK, AdminState, WithSlot
    <3> QED BY <2>1, <2>3, <3>1 DEF UnloadedIsQuiet
  <2>7. CallsCounted'
    <3> SUFFICES ASSUME NEW t \in TableSlot
                 PROVE  /\ table'[t].active = Cardinality(Inside(t)')
                        /\ \A d \in Inside(t)' : calling'[d].group = table'[t].group
      BY DEF CallsCounted
    <3>1. CASE t = s
      <4>1. c \notin Inside(s)
        BY <2>1 DEF Inside, NoCall, None, TableSlot
      <4>2. Inside(s)' = Inside(s) \cup {c}
        BY <2>1 DEF Inside, RegistryTypeOK
      <4>3. Cardinality(Inside(s)') = Cardinality(Inside(s)) + 1
        BY <4>1, <4>2, <2>1, InsideFinite, FS_AddElement
      <4>4. table'[s].active = table[s].active + 1
        BY <2>1 DEF RegistryTypeOK
      <4>5. \A d \in Inside(s)' : calling'[d].group = table'[s].group
        BY <2>1, <2>3, <4>2 DEF CallsCounted, RegistryTypeOK, Inside
      <4> QED BY <3>1, <4>3, <4>4, <4>5, <2>1 DEF CallsCounted
    <3>2. CASE t # s
      <4>1. Inside(t)' = Inside(t)
        BY <3>2, <2>1 DEF Inside, RegistryTypeOK, NoCall, None, TableSlot
      <4>2. \A d \in Inside(t) : d # c
        BY DEF Inside, NoCall, None, TableSlot
      <4> QED BY <3>2, <4>1, <4>2, <2>3 DEF CallsCounted, RegistryTypeOK, Inside
    <3> QED BY <3>1, <3>2
  <2> QED BY <2>2, <2>4, <2>5, <2>6, <2>7
<1>2. CASE CallEnd(c)
  <2>0. /\ calling[c] # NoCall
        /\ calling' = [calling EXCEPT ![c] = NoCall]
        /\ UNCHANGED <<started, admin, sweep, live>>
    BY <1>2 DEF CallEnd
  <2> PICK s \in TableSlot : s = calling[c].slot
    BY <2>0 DEF RegistryTypeOK
  <2>1. c \in Inside(s)
    BY DEF Inside
  <2>2. Cardinality(Inside(s)) \in Nat /\ Cardinality(Inside(s)) # 0
    BY <2>1, InsideFinite
  <2>3. table[s].active \in Nat /\ table[s].active > 0
    BY <2>2 DEF CallsCounted
  <2>4. table[s].group # NoPlugin
    BY <2>3 DEF FreeSlotsOK
  <2>5. table' = [table EXCEPT ![s].active = @ - 1]
    BY <1>2, <2>3, <2>4 DEF CallEnd
  <2>6. \A t \in TableSlot : /\ table'[t].group = table[t].group
                             /\ table'[t].state = table[t].state
                             /\ t # s => table'[t] = table[t]
    BY <2>5 DEF RegistryTypeOK
  <2>7. RegistryTypeOK'
    BY <2>0, <2>3, <2>5 DEF RegistryTypeOK, NoCall, None
  <2>8. AdminSlotOK' /\ RequestsOK' /\ FreeSlotsOK'
    BY <2>0, <2>4, <2>6 DEF AdminSlotOK, AdminState, RequestsOK, FreeSlotsOK
  <2>9. UnloadedIsQuiet'
    <3> SUFFICES ASSUME admin.op \in {"unloading", "unloaded"}
                 PROVE  table'[admin.slot].active = 0
      BY <2>0 DEF UnloadedIsQuiet
    <3>1. admin.slot \in TableSlot /\ table[admin.slot].active = 0
      BY DEF AdminSlotOK, WithSlot, UnloadedIsQuiet
    <3> QED BY <2>3, <2>6, <3>1
  <2>10. CallsCounted'
    <3> SUFFICES ASSUME NEW t \in TableSlot
                 PROVE  /\ table'[t].active = Cardinality(Inside(t)')
                        /\ \A d \in Inside(t)' : calling'[d].group = table'[t].group
      BY DEF CallsCounted
    <3>1. CASE t = s
      <4>1. Inside(s)' = Inside(s) \ {c}
        BY <2>0 DEF Inside, RegistryTypeOK, NoCall, None, TableSlot
      <4>2. Cardinality(Inside(s)') = Cardinality(Inside(s)) - 1
        <5>1. IsFiniteSet(Inside(s))
          BY InsideFinite
        <5>2. Cardinality(Inside(s) \ {c}) = Cardinality(Inside(s)) - 1
          BY <2>1, <5>1, FS_RemoveElement
        <5> QED BY <4>1, <5>2
      <4>3. table'[s].active = table[s].active - 1
        BY <2>5 DEF RegistryTypeOK
      <4>4. \A d \in Inside(s)' : calling'[d].group = table'[s].group
        BY <2>0, <2>6, <4>1 DEF CallsCounted, RegistryTypeOK
      <4> QED BY <3>1, <4>2, <4>3, <4>4 DEF CallsCounted
    <3>2. CASE t # s
      <4>1. Inside(t)' = Inside(t)
        BY <2>0, <3>2 DEF Inside, RegistryTypeOK, NoCall, None, TableSlot
      <4>2. \A d \in Inside(t) : d # c
        BY <3>2 DEF Inside
      <4> QED BY <2>0, <3>2, <4>1, <4>2, <2>6 DEF CallsCounted, RegistryTypeOK, Inside
    <3> QED BY <3>1, <3>2
  <2> QED BY <2>7, <2>8, <2>9, <2>10
<1> QED BY <1>1, <1>2

-----------------------------------------------------------------------------
\* Steps of the administration that set the state of one slot at most: the
\* counts, and so all that depends on the calls, stay.
LEMMA StateStepKeepsInv ==
  ASSUME RegistryInv, calling' = calling,
         NEW s \in TableSlot, NEW st \in GroupStates \ {"free"},
         table[s].state # "free",
         SetState(s, st) \/ UNCHANGED table,
         admin' \in [op : AdminOps, group : Plugin \cup {NoPlugin}, slot : 0..TableSize,
                     polls : 0..MaxPolls],
         started' \in BOOLEAN, UNCHANGED sweep,
         live' \in [Plugin -> {"off", "partial", "on", "failed"}]
  PROVE  RegistryTypeOK' /\ FreeSlotsOK' /\ CallsCounted'
<1> USE DEF RegistryInv
<1>1. /\ table' \in [TableSlot -> [group : Plugin \cup {NoPlugin}, state : GroupStates,
                                    active : Nat]]
      /\ \A t \in TableSlot : /\ table'[t].active = table[t].active
                              /\ table'[t].group = table[t].group
                              /\ t # s => table'[t] = table[t]
      /\ table'[s].state \in {st, table[s].state}
  <2>1. CASE SetState(s, st)
    BY <2>1, SetStateTyped
  <2>2. CASE UNCHANGED table
    BY <2>2 DEF RegistryTypeOK
  <2> QED BY <2>1, <2>2
<1>2. RegistryTypeOK'
  BY <1>1 DEF RegistryTypeOK
<1>3. FreeSlotsOK'
  BY <1>1 DEF FreeSlotsOK
<1>4. CallsCounted'
  BY <1>1, StateOnly
<1> QED BY <1>2, <1>3, <1>4

\* A registry whose table and calls do not change.
LEMMA TableUnchanged ==
  ASSUME RegistryInv, UNCHANGED <<table, calling>>,
         admin' \in [op : AdminOps, group : Plugin \cup {NoPlugin}, slot : 0..TableSize,
                     polls : 0..MaxPolls],
         started' \in BOOLEAN,
         sweep' \in [kind : {"none", "start", "stop"}, at : 0..(TableSize + 1)],
         live' \in [Plugin -> {"off", "partial", "on", "failed"}]
  PROVE  RegistryTypeOK' /\ FreeSlotsOK' /\ CallsCounted'
<1> USE DEF RegistryInv
<1>1. RegistryTypeOK'
  BY DEF RegistryTypeOK
<1>2. FreeSlotsOK'
  BY DEF FreeSlotsOK
<1>3. CallsCounted'
  BY DEF CallsCounted, Inside
<1> QED BY <1>1, <1>2, <1>3

LEMMA IdleTyped ==
  /\ AdminIdle \in [op : AdminOps, group : Plugin \cup {NoPlugin}, slot : 0..TableSize,
                    polls : 0..MaxPolls]
  /\ NoSweep \in [kind : {"none", "start", "stop"}, at : 0..(TableSize + 1)]
  /\ AdminIdle.op = "idle"
  BY DEF AdminIdle, AdminOps, NoSweep, None

\* Back to idle: nothing is said any more of a slot of an operation.
LEMMA DoneKeepsInv ==
  ASSUME admin' = AdminIdle
  PROVE  AdminSlotOK' /\ UnloadedIsQuiet' /\ RequestsOK'
  BY IdleTyped DEF AdminSlotOK, UnloadedIsQuiet, RequestsOK, WithSlot

LEMMA AdminKeepsInv == RegistryInv /\ AdminStep => RegistryInv'
<1> SUFFICES ASSUME RegistryInv, AdminStep PROVE RegistryInv'
  OBVIOUS
<1> USE DEF RegistryInv
<1> DEFINE AdminType == [op : AdminOps, group : Plugin \cup {NoPlugin},
                         slot : 0..TableSize, polls : 0..MaxPolls]
           SweepType == [kind : {"none", "start", "stop"}, at : 0..(TableSize + 1)]
           LiveType == [Plugin -> {"off", "partial", "on", "failed"}]
<1>0. admin \in AdminType /\ sweep \in SweepType /\ live \in LiveType
      /\ started \in BOOLEAN /\ TableSlot \subseteq 0..TableSize
  BY DEF RegistryTypeOK, TableSlot
<1>a. ASSUME NEW op \in AdminOps, Goto(op)
      PROVE  admin' \in AdminType /\ admin'.op = op /\ admin'.slot = admin.slot
             /\ admin'.group = admin.group
  BY <1>0, <1>a DEF Goto
<1>1. CASE Refuse
  <2>1. admin' = AdminIdle /\ UNCHANGED <<table, started, sweep, calling, live>>
    BY <1>1 DEF Refuse, AdminDone
  <2> QED BY <1>0, <2>1, IdleTyped, TableUnchanged, DoneKeepsInv
<1>2. CASE EnableMark
  <2> PICK s \in SlotsOf(admin.group) :
        /\ ~ Unloads(s)
        /\ IF started
           THEN /\ table[s].state # "started"
                /\ SetState(s, "started")
                /\ admin' = [admin EXCEPT !.op = "starting", !.slot = s]
           ELSE SetState(s, "registered") /\ AdminDone
        /\ UNCHANGED <<started, sweep, calling, live>>
    BY <1>2 DEF EnableMark
  <2>1. admin.op = "enable" /\ admin.group \in Plugin
    BY <1>2 DEF EnableMark, RequestsOK
  <2>2. s \in TableSlot /\ table[s].group = admin.group /\ table[s].state # "free"
    BY <2>1 DEF SlotsOf, FreeSlotsOK
  <2>3. CASE started
    <3>1. admin' = [admin EXCEPT !.op = "starting", !.slot = s] /\ SetState(s, "started")
      BY <2>3
    <3>2. admin' \in AdminType /\ admin'.op = "starting" /\ admin'.slot = s
          /\ admin'.group = admin.group
      BY <1>0, <2>2, <3>1 DEF AdminOps
    <3>3. RegistryTypeOK' /\ FreeSlotsOK' /\ CallsCounted'
      BY <1>0, <2>2, <3>1, <3>2, StateStepKeepsInv DEF GroupStates
    <3>4. AdminSlotOK' /\ UnloadedIsQuiet' /\ RequestsOK'
      BY <2>1, <2>2, <3>1, <3>2, SetStateTyped
         DEF AdminSlotOK, UnloadedIsQuiet, RequestsOK, AdminState, GroupStates
    <3> QED BY <3>3, <3>4
  <2>4. CASE ~ started
    <3>1. admin' = AdminIdle /\ SetState(s, "registered")
      BY <2>4 DEF AdminDone
    <3>2. RegistryTypeOK' /\ FreeSlotsOK' /\ CallsCounted'
      BY <1>0, <2>2, <3>1, IdleTyped, StateStepKeepsInv DEF GroupStates
    <3> QED BY <3>1, <3>2, DoneKeepsInv
  <2> QED BY <2>3, <2>4
<1>3. CASE StartCallbacks
  <2>1. /\ admin.op = "starting" /\ UNCHANGED <<table, started, sweep, calling>>
        /\ live' \in LiveType
        /\ Goto("started") \/ Goto("startFailed")
    BY <1>0, <1>3 DEF StartCallbacks
  <2>2. admin' \in AdminType /\ admin'.op \in {"started", "startFailed"}
        /\ admin'.slot = admin.slot /\ admin'.group = admin.group
    BY <1>a, <2>1 DEF AdminOps
  <2>3. RegistryTypeOK' /\ FreeSlotsOK' /\ CallsCounted'
    BY <1>0, <2>1, <2>2, TableUnchanged
  <2> QED BY <2>1, <2>2, <2>3
         DEF AdminSlotOK, UnloadedIsQuiet, RequestsOK, AdminState, WithSlot
<1>4. CASE EnableEnd \/ EnableRollback
  <2>1. /\ admin.op \in {"started", "startFailed"} /\ admin' = AdminIdle
        /\ UNCHANGED <<started, sweep, calling, live>>
        /\ \/ UNCHANGED table
           \/ \E st \in {"started", "disabled"} : SetState(admin.slot, st)
    BY <1>4 DEF EnableEnd, EnableRollback, AdminDone
  <2>2. admin.slot \in TableSlot /\ table[admin.slot].state = "started"
    BY <2>1 DEF AdminSlotOK, AdminState, WithSlot
  <2>3. RegistryTypeOK' /\ FreeSlotsOK' /\ CallsCounted'
    BY <1>0, <2>1, <2>2, IdleTyped, StateStepKeepsInv DEF GroupStates
  <2> QED BY <2>1, <2>3, DoneKeepsInv
<1>5. CASE DisableMark \/ UnregisterMark
  <2> PICK s \in SlotsOf(admin.group), st \in {"disabled", "draining"},
           op \in {"stopping", "draining"} :
        /\ SetState(s, st)
        /\ admin' = [admin EXCEPT !.op = op, !.slot = s]
        /\ op = "stopping" <=> st = "disabled"
        /\ UNCHANGED <<started, sweep, calling, live>>
    BY <1>5 DEF DisableMark, UnregisterMark
  <2>1. admin.op \in {"disable", "unregister"} /\ admin.group \in Plugin
    BY <1>5 DEF DisableMark, UnregisterMark, RequestsOK
  <2>2. s \in TableSlot /\ table[s].group = admin.group /\ table[s].state # "free"
    BY <2>1 DEF SlotsOf, FreeSlotsOK
  <2>3. admin' \in AdminType /\ admin'.op = op /\ admin'.slot = s
        /\ admin'.group = admin.group
    BY <1>0, <2>2 DEF AdminOps
  <2>4. RegistryTypeOK' /\ FreeSlotsOK' /\ CallsCounted'
    BY <1>0, <2>2, <2>3, StateStepKeepsInv DEF GroupStates
  <2>5. AdminSlotOK' /\ UnloadedIsQuiet' /\ RequestsOK'
    BY <2>1, <2>2, <2>3, SetStateTyped
       DEF AdminSlotOK, UnloadedIsQuiet, RequestsOK, AdminState, GroupStates
  <2> QED BY <2>4, <2>5
<1>6. CASE StopCallbacks("stopping", "stopped") \/ StopCallbacks("unloading", "unloaded")
  <2>1. /\ UNCHANGED <<table, started, sweep, calling>>
        /\ live' \in LiveType
        /\ \/ admin.op = "stopping" /\ Goto("stopped")
           \/ admin.op = "unloading" /\ Goto("unloaded")
    BY <1>0, <1>6 DEF StopCallbacks
  <2>2. /\ admin' \in AdminType /\ admin'.slot = admin.slot /\ admin'.group = admin.group
        /\ \/ admin.op = "stopping" /\ admin'.op = "stopped"
           \/ admin.op = "unloading" /\ admin'.op = "unloaded"
    BY <1>a, <2>1 DEF AdminOps
  <2>3. RegistryTypeOK' /\ FreeSlotsOK' /\ CallsCounted'
    BY <1>0, <2>1, <2>2, TableUnchanged
  <2> QED BY <2>1, <2>2, <2>3
         DEF AdminSlotOK, UnloadedIsQuiet, RequestsOK, AdminState, WithSlot
<1>7. CASE DisableEnd \/ DrainTimeout
  <2>1. admin' = AdminIdle /\ UNCHANGED <<table, started, sweep, calling, live>>
    BY <1>7 DEF DisableEnd, DrainTimeout, AdminDone
  <2> QED BY <1>0, <2>1, IdleTyped, TableUnchanged, DoneKeepsInv
<1>8. CASE DrainWait
  <2>1. /\ admin.op = "draining" /\ admin.polls < MaxPolls
        /\ admin' = [admin EXCEPT !.polls = @ + 1]
        /\ UNCHANGED <<table, started, sweep, calling, live>>
    BY <1>8 DEF DrainWait
  <2>2. admin' \in AdminType /\ admin'.op = admin.op /\ admin'.slot = admin.slot
        /\ admin'.group = admin.group
    BY <1>0, <2>1
  <2>3. RegistryTypeOK' /\ FreeSlotsOK' /\ CallsCounted'
    BY <1>0, <2>1, <2>2, TableUnchanged
  <2> QED BY <2>1, <2>2, <2>3
         DEF AdminSlotOK, UnloadedIsQuiet, RequestsOK, AdminState, WithSlot
<1>9. CASE DrainDone
  <2>1. /\ admin.op = "draining" /\ table[admin.slot].active = 0
        /\ SetState(admin.slot, "unloading") /\ Goto("unloading")
        /\ UNCHANGED <<started, sweep, calling, live>>
    BY <1>9 DEF DrainDone
  <2>2. admin' \in AdminType /\ admin'.op = "unloading" /\ admin'.slot = admin.slot
        /\ admin'.group = admin.group
    BY <1>a, <2>1 DEF AdminOps
  <2>3. admin.slot \in TableSlot /\ admin.group \in Plugin
        /\ table[admin.slot].group = admin.group /\ table[admin.slot].state = "draining"
    BY <2>1 DEF AdminSlotOK, AdminState, WithSlot
  <2>4. RegistryTypeOK' /\ FreeSlotsOK' /\ CallsCounted'
    BY <1>0, <2>1, <2>2, <2>3, StateStepKeepsInv DEF GroupStates
  <2>5. AdminSlotOK' /\ UnloadedIsQuiet' /\ RequestsOK'
    BY <2>1, <2>2, <2>3, SetStateTyped
       DEF AdminSlotOK, UnloadedIsQuiet, RequestsOK, AdminState, GroupStates
  <2> QED BY <2>4, <2>5
<1>10. CASE ClearSlot
  <2>1. /\ admin.op = "unloaded" /\ admin' = AdminIdle
        /\ table' = [table EXCEPT ![admin.slot] = FreeSlot]
        /\ UNCHANGED <<started, sweep, calling, live>>
    BY <1>10 DEF ClearSlot, AdminDone
  <2>2. admin.slot \in TableSlot /\ table[admin.slot].active = 0
    BY <2>1 DEF AdminSlotOK, UnloadedIsQuiet, WithSlot
  <2>3. Inside(admin.slot) = {}
    BY <2>2, InsideFinite DEF CallsCounted
  <2>4. RegistryTypeOK' /\ FreeSlotsOK'
    BY <2>1, <2>2, IdleTyped DEF RegistryTypeOK, FreeSlotsOK, FreeSlot, GroupStates
  <2>5. CallsCounted'
    <3> SUFFICES ASSUME NEW t \in TableSlot
                 PROVE  /\ table'[t].active = Cardinality(Inside(t))
                        /\ \A d \in Inside(t) : calling[d].group = table'[t].group
      BY <2>1 DEF CallsCounted, Inside
    <3>1. CASE t = admin.slot
      BY <2>1, <2>2, <2>3, <3>1 DEF CallsCounted, FreeSlot, RegistryTypeOK
    <3>2. CASE t # admin.slot
      BY <2>1, <3>2 DEF CallsCounted, RegistryTypeOK
    <3> QED BY <3>1, <3>2
  <2> QED BY <2>1, <2>4, <2>5, DoneKeepsInv
<1>11. CASE SweepStep
  <2>1. /\ admin = AdminIdle /\ UNCHANGED <<table, calling, live>>
        /\ sweep' \in SweepType /\ started' \in BOOLEAN
    <3>1. sweep' \in SweepType
      <4>1. CASE sweep.at \in TableSlot
        BY <1>0, <1>11, <4>1 DEF SweepStep, TableSlot
      <4>2. CASE sweep.at \notin TableSlot
        BY <1>11, <4>2, IdleTyped DEF SweepStep
      <4> QED BY <4>1, <4>2
    <3>2. started' \in BOOLEAN
      BY <1>0, <1>11 DEF SweepStep
    <3> QED BY <1>11, <3>1, <3>2 DEF SweepStep
  <2>2. \/ admin' = AdminIdle
        \/ /\ sweep.at \in TableSlot /\ SweepTakes(sweep.at)
           /\ \E op \in {"enable", "disable"} :
                admin' = [AdminIdle EXCEPT !.op = op, !.group = table[sweep.at].group]
    BY <1>11 DEF SweepStep
  <2>3. CASE admin' = AdminIdle
    <3>1. RegistryTypeOK' /\ FreeSlotsOK' /\ CallsCounted'
      BY <1>0, <2>1, <2>3, IdleTyped, TableUnchanged
    <3> QED BY <2>3, <3>1, DoneKeepsInv
  <2>4. CASE admin' # AdminIdle
    <3>1. sweep.at \in TableSlot /\ table[sweep.at].state # "free"
      BY <2>2, <2>4 DEF SweepTakes
    <3>2. table[sweep.at].group \in Plugin
      BY <3>1 DEF RegistryTypeOK, FreeSlotsOK
    <3>3. admin' \in AdminType /\ admin'.op \in {"enable", "disable"} /\ admin'.group \in Plugin
      BY <2>2, <2>4, <3>2, IdleTyped DEF AdminOps, AdminIdle, None
    <3>4. RegistryTypeOK' /\ FreeSlotsOK' /\ CallsCounted'
      BY <1>0, <2>1, <3>3, TableUnchanged
    <3> QED BY <3>3, <3>4 DEF AdminSlotOK, UnloadedIsQuiet, RequestsOK, WithSlot
  <2> QED BY <2>3, <2>4
<1> QED BY <1>1, <1>2, <1>3, <1>4, <1>5, <1>6, <1>7, <1>8, <1>9, <1>10, <1>11 DEF AdminStep

\* Requests: they start an operation, or fill a slot that no call is in.
LEMMA RequestsKeepInv ==
  ASSUME RegistryInv,
         \/ \E g \in Plugin : RegisterGroup(g)
         \/ \E g \in Plugin, op \in {"enable", "disable", "unregister"} : Request(op, g)
         \/ \E kind \in {"start", "stop"} : SweepBegin(kind)
  PROVE  RegistryInv'
<1> USE DEF RegistryInv
<1> DEFINE AdminType == [op : AdminOps, group : Plugin \cup {NoPlugin},
                         slot : 0..TableSize, polls : 0..MaxPolls]
<1>0. /\ admin \in AdminType /\ started \in BOOLEAN
      /\ sweep \in [kind : {"none", "start", "stop"}, at : 0..(TableSize + 1)]
      /\ live \in [Plugin -> {"off", "partial", "on", "failed"}]
  BY DEF RegistryTypeOK
<1>1. ASSUME NEW g \in Plugin, RegisterGroup(g) PROVE RegistryInv'
  <2> PICK s \in FirstFree :
        table' = [table EXCEPT ![s] = [group |-> g, state |-> "registered", active |-> 0]]
    BY <1>1 DEF RegisterGroup
  <2>1. UNCHANGED <<started, sweep, calling, live>>
    BY <1>1 DEF RegisterGroup
  <2>2. s \in TableSlot /\ table[s].group = NoPlugin /\ table[s].active = 0
    BY DEF FirstFree, SlotsOf, FreeSlotsOK
  <2>3. Inside(s) = {}
    BY <2>2, InsideFinite DEF CallsCounted
  <2>4. /\ admin' \in AdminType
        /\ admin'.op \in {"idle", "enable"}
        /\ admin'.op = "enable" => admin'.group = g
        /\ admin'.op = "idle" => admin' = AdminIdle
    BY <1>1, IdleTyped DEF RegisterGroup, AdminIdle, AdminOps, None
  <2>5. RegistryTypeOK'
    <3>1. table' \in [TableSlot -> [group : Plugin \cup {NoPlugin}, state : GroupStates,
                                   active : Nat]]
      BY <2>2 DEF RegistryTypeOK, GroupStates
    <3> QED BY <1>0, <2>1, <2>4, <3>1 DEF RegistryTypeOK
  <2>6. FreeSlotsOK'
    <3>1. \A t \in TableSlot : table[t].group # g
      BY <1>1 DEF RegisterGroup, SlotsOf
    <3>2. /\ table'[s].group = g /\ table'[s].state = "registered"
          /\ \A t \in TableSlot : t # s => table'[t] = table[t]
      BY <2>2 DEF RegistryTypeOK
    <3>3. g # NoPlugin /\ "registered" # "free"
      OBVIOUS
    <3>4. ASSUME NEW t \in TableSlot
          PROVE  /\ table'[t].group = NoPlugin <=> table'[t].state = "free"
                 /\ table'[t].group = NoPlugin => table'[t].active = 0
      BY <2>2, <3>2, <3>3 DEF FreeSlotsOK
    <3>5. ASSUME NEW t \in TableSlot, NEW u \in TableSlot,
                 table'[t].group = table'[u].group, t # u
          PROVE  table'[t].group = NoPlugin
      BY <3>1, <3>2, <3>5 DEF FreeSlotsOK
    <3> QED BY <3>4, <3>5 DEF FreeSlotsOK
  <2>7. CallsCounted'
    <3> SUFFICES ASSUME NEW t \in TableSlot
                 PROVE  /\ table'[t].active = Cardinality(Inside(t))
                        /\ \A d \in Inside(t) : calling[d].group = table'[t].group
      BY <2>1 DEF CallsCounted, Inside
    <3>1. CASE t = s
      BY <2>2, <2>3, <3>1 DEF CallsCounted, RegistryTypeOK
    <3>2. CASE t # s
      BY <3>2 DEF CallsCounted, RegistryTypeOK
    <3> QED BY <3>1, <3>2
  <2> QED BY <2>4, <2>5, <2>6, <2>7
         DEF AdminSlotOK, UnloadedIsQuiet, RequestsOK, WithSlot
<1>2. ASSUME NEW g \in Plugin, NEW op \in {"enable", "disable", "unregister"}, Request(op, g)
      PROVE  RegistryInv'
  <2>1. /\ admin' \in AdminType /\ admin'.op = op /\ admin'.group = g
        /\ UNCHANGED <<table, started, sweep, calling, live>>
    <3>1. admin' = [op |-> op, group |-> g, slot |-> 0, polls |-> 0]
      BY <1>2 DEF Request, AdminIdle, None
    <3>2. op \in AdminOps
      BY DEF AdminOps
    <3>3. admin' \in AdminType /\ admin'.op = op /\ admin'.group = g
      BY <3>1, <3>2
    <3>4. UNCHANGED <<table, started, sweep, calling, live>>
      BY <1>2 DEF Request
    <3> QED BY <3>3, <3>4
  <2>2. RegistryTypeOK' /\ FreeSlotsOK' /\ CallsCounted'
    BY <1>0, <2>1, TableUnchanged
  <2> QED BY <2>1, <2>2 DEF AdminSlotOK, UnloadedIsQuiet, RequestsOK, WithSlot
<1>3. ASSUME NEW kind \in {"start", "stop"}, SweepBegin(kind) PROVE RegistryInv'
  <2>1. /\ UNCHANGED <<table, admin, calling, live>> /\ admin = AdminIdle
        /\ started' \in BOOLEAN
        /\ sweep' \in [kind : {"none", "start", "stop"}, at : 0..(TableSize + 1)]
    BY <1>0, <1>3 DEF SweepBegin, Free
  <2>2. RegistryTypeOK' /\ FreeSlotsOK' /\ CallsCounted'
    BY <1>0, <2>1, TableUnchanged
  <2> QED BY <2>1, <2>2, DoneKeepsInv
<1> QED BY <1>1, <1>2, <1>3

\* The registry's inductive invariant: what an operation in progress knows of
\* its slot, and the exact count of the calls in every slot.
THEOREM RegistryInvariant == RegistrySpec => []RegistryInv
<1>1. RegistryInv /\ [RegistryNext]_registryVars => RegistryInv'
  <2> SUFFICES ASSUME RegistryInv, [RegistryNext]_registryVars PROVE RegistryInv'
    OBVIOUS
  <2>1. CASE UNCHANGED registryVars
    <3> USE <2>1 DEF registryVars
    <3>1. RegistryTypeOK' /\ FreeSlotsOK' /\ CallsCounted'
      BY TableUnchanged DEF RegistryInv, RegistryTypeOK
    <3>2. AdminSlotOK' /\ UnloadedIsQuiet' /\ RequestsOK'
      BY DEF RegistryInv, AdminSlotOK, AdminState, UnloadedIsQuiet, RequestsOK
    <3> QED BY <3>1, <3>2 DEF RegistryInv
  <2>2. CASE RegistryNext
    BY <2>2, CallsKeepInv, RequestsKeepInv, AdminKeepsInv DEF RegistryNext
  <2> QED BY <2>1, <2>2
<1> QED BY InitInv, <1>1, PTL DEF RegistrySpec

\* active_calls counts the calls in a group exactly, whatever the order in
\* which calls, callbacks, timeouts and the reuse of slots come.
THEOREM CallsAreCounted == RegistrySpec => []CallsCounted
<1>1. RegistryInv => CallsCounted
  BY DEF RegistryInv
<1> QED BY RegistryInvariant, <1>1, PTL

\* Stop callbacks of an unregister never run, and a slot is never cleared,
\* under a call of the group.
THEOREM UnloadIsQuiet == RegistrySpec => []QuietUnload
<1>1. RegistryInv => QuietUnload
  <2> SUFFICES ASSUME RegistryInv, admin.op \in {"unloading", "unloaded"}, NEW c \in Call
               PROVE  calling[c].group # admin.group
    BY DEF QuietUnload
  <2> USE DEF RegistryInv
  <2>1. /\ admin.slot \in TableSlot /\ admin.group \in Plugin
        /\ table[admin.slot].group = admin.group /\ table[admin.slot].active = 0
    BY DEF AdminSlotOK, UnloadedIsQuiet, WithSlot
  <2>2. Inside(admin.slot) = {}
    BY <2>1, InsideFinite DEF CallsCounted
  <2>3. CASE calling[c] = NoCall
    BY <2>1, <2>3 DEF NoCall
  <2>4. CASE calling[c] # NoCall
    <3>1. calling[c].slot \in TableSlot /\ c \in Inside(calling[c].slot)
      BY <2>4 DEF RegistryTypeOK, Inside
    <3>2. calling[c].group = table[calling[c].slot].group
      BY <3>1 DEF CallsCounted
    <3>3. calling[c].slot # admin.slot
      BY <2>2, <3>1
    <3> QED BY <2>1, <3>1, <3>2, <3>3 DEF FreeSlotsOK
  <2> QED BY <2>3, <2>4
<1> QED BY RegistryInvariant, <1>1, PTL

\* Every reachable state of the registry is of the right type.
THEOREM RegistryTypeCorrect == RegistrySpec => []RegistryTypeOK
<1>1. RegistryInv => RegistryTypeOK
  BY DEF RegistryInv
<1> QED BY RegistryInvariant, <1>1, PTL

-----------------------------------------------------------------------------
\* What the callbacks have made of a group, while an operation is between a
\* mark and the callbacks that go with it.
LiveInv ==
  /\ \A s \in TableSlot : table[s].state = "started" =>
       \/ live[table[s].group] = "on"
       \/ admin.op \in {"starting", "startFailed"} /\ admin.slot = s
  /\ \A g \in Plugin : live[g] = "on" =>
       \E s \in SlotsOf(g) :
         \/ table[s].state \in {"started", "draining"}
         \/ admin.op \in {"stopping", "unloading"} /\ admin.slot = s
  /\ admin.op \in {"starting", "startFailed"} => live[admin.group] # "on"
  /\ admin.op = "started" => live[admin.group] = "on"

\* A step that keeps the states of the table and the operation's place.
LEMMA SameStatesKeepLive ==
  ASSUME RegistryInv, LiveInv, live' = live,
         \A s \in TableSlot : /\ table'[s].group = table[s].group
                              /\ table'[s].state = table[s].state,
         \/ UNCHANGED admin
         \/ /\ admin.op \notin {"starting", "startFailed", "started", "stopping", "unloading"}
            /\ admin'.op \notin {"starting", "startFailed", "started"}
         \/ admin.op = "started" /\ admin'.op = "idle"
  PROVE  LiveInv'
  BY DEF LiveInv, SlotsOf

\* A step that gives the slot of a group another state.
LEMMA MarkKeepsLive ==
  ASSUME RegistryInv, LiveInv, live' = live, NEW s \in TableSlot, NEW st \in GroupStates,
         table[s].group \in Plugin, SetState(s, st),
         admin'.op \notin {"startFailed", "started"},
         admin.op \notin {"starting", "stopping", "unloading"},
         \/ /\ st = "started" /\ admin'.op = "starting" /\ admin'.slot = s
            /\ admin'.group = table[s].group /\ live[table[s].group] # "on"
            /\ admin.op # "startFailed"
         \/ /\ st # "started" /\ admin'.op # "starting"
            /\ \/ live[table[s].group] # "on" 
               \/ st = "draining"
               \/ admin'.op \in {"stopping", "unloading"} /\ admin'.slot = s
            /\ admin.op = "startFailed" => s = admin.slot
  PROVE  LiveInv'
<1>1. /\ \A t \in TableSlot : /\ table'[t].group = table[t].group
                              /\ t # s => table'[t] = table[t]
      /\ table'[s].state = st
  BY SetStateTyped DEF RegistryInv
<1>2. \A t \in TableSlot : table[t].group = table[s].group => t = s
  BY DEF RegistryInv, FreeSlotsOK
<1>3. \A t \in TableSlot : table'[t].state = "started" =>
         \/ live[table[t].group] = "on"
         \/ admin'.op \in {"starting", "startFailed"} /\ admin'.slot = t
  BY <1>1, <1>2 DEF LiveInv
<1>4. ASSUME NEW g \in Plugin, live[g] = "on"
      PROVE  \E t \in TableSlot : /\ table[t].group = g
               /\ \/ table'[t].state \in {"started", "draining"}
                  \/ admin'.op \in {"stopping", "unloading"} /\ admin'.slot = t
  <2>1. PICK t \in TableSlot : /\ table[t].group = g
               /\ \/ table[t].state \in {"started", "draining"}
                  \/ admin.op \in {"stopping", "unloading"} /\ admin.slot = t
    BY <1>4 DEF LiveInv, SlotsOf
  <2>2. CASE t = s
    BY <1>1, <1>4, <2>1, <2>2
  <2>3. CASE t # s
    BY <1>1, <2>1, <2>3
  <2> QED BY <2>2, <2>3
<1>5. admin'.op = "starting" => live[admin'.group] # "on"
  OBVIOUS
<1> QED BY <1>1, <1>3, <1>4, <1>5 DEF LiveInv, SlotsOf

\* A step of an operation that has its slot: the slot and the plugin it works
\* on change, nothing else does.
LEMMA SlotStepKeepsLive ==
  ASSUME RegistryInv, LiveInv, admin.op \in WithSlot, NEW s \in TableSlot, s = admin.slot,
         NEW g \in Plugin, g = admin.group,
         \A t \in TableSlot : /\ table'[t].group = table[t].group
                              /\ t # s => table'[t].state = table[t].state,
         \A h \in Plugin : h # g => live'[h] = live[h],
         table'[s].state = "started" =>
           \/ live'[g] = "on"
           \/ admin'.op \in {"starting", "startFailed"} /\ admin'.slot = s,
         live'[g] = "on" =>
           \/ table'[s].state \in {"started", "draining"}
           \/ admin'.op \in {"stopping", "unloading"} /\ admin'.slot = s,
         admin'.op \in {"starting", "startFailed"} => admin'.group = g /\ live'[g] # "on",
         admin'.op = "started" => admin'.group = g /\ live'[g] = "on"
  PROVE  LiveInv'
<1>1. /\ table[s].group = g
      /\ \A t \in TableSlot : t # s => table[t].group # g
  BY DEF RegistryInv, AdminSlotOK, FreeSlotsOK, RegistryTypeOK
<1>2. \A t \in TableSlot : table'[t].state = "started" =>
         \/ live'[table'[t].group] = "on"
         \/ admin'.op \in {"starting", "startFailed"} /\ admin'.slot = t
  <2> TAKE t \in TableSlot
  <2>1. CASE t = s
    BY <1>1, <2>1
  <2>2. CASE t # s
    <3> SUFFICES ASSUME table'[t].state = "started" PROVE live'[table[t].group] = "on"
      BY <2>2
    <3>1. table[t].state = "started" /\ live[table[t].group] = "on"
      BY <2>2 DEF LiveInv
    <3>2. table[t].group \in Plugin
      BY <3>1 DEF RegistryInv, FreeSlotsOK, RegistryTypeOK
    <3> QED BY <1>1, <2>2, <3>1, <3>2
  <2> QED BY <2>1, <2>2
<1>3. ASSUME NEW h \in Plugin, live'[h] = "on"
      PROVE  \E t \in TableSlot : /\ table'[t].group = h
               /\ \/ table'[t].state \in {"started", "draining"}
                  \/ admin'.op \in {"stopping", "unloading"} /\ admin'.slot = t
  <2>1. CASE h = g
    BY <1>1, <1>3, <2>1
  <2>2. CASE h # g
    <3>1. PICK t \in TableSlot : /\ table[t].group = h
               /\ \/ table[t].state \in {"started", "draining"}
                  \/ admin.op \in {"stopping", "unloading"} /\ admin.slot = t
      BY <1>3, <2>2 DEF LiveInv, SlotsOf
    <3>2. t # s
      BY <1>1, <2>2, <3>1
    <3> QED BY <3>1, <3>2
  <2> QED BY <2>1, <2>2
<1> QED BY <1>2, <1>3 DEF LiveInv, SlotsOf

\* A registry that is not started has no started group: stop_all leaves none
\* behind its index but the one it is about to disable.
StopInv ==
  /\ ~ started => \A s \in TableSlot : table[s].state # "started"
  /\ sweep.kind = "none" => sweep = NoSweep
  /\ sweep.kind # "none" => sweep.at >= 1
  /\ sweep.kind = "stop" =>
       /\ admin.op \in {"idle", "disable", "stopping", "stopped"}
       /\ \A s \in TableSlot : s < sweep.at /\ table[s].state = "started" =>
            admin.op = "disable" /\ admin.group = table[s].group

\* A step in which no group becomes started and the sweep stays.
LEMMA NoStartKeepsStop ==
  ASSUME RegistryInv, StopInv, UNCHANGED <<started, sweep>>,
         \A s \in TableSlot : table'[s].state = "started" =>
           table[s].state = "started" /\ table'[s].group = table[s].group,
         sweep.kind = "stop" =>
           /\ admin'.op \in {"idle", "disable", "stopping", "stopped"}
           /\ \A s \in TableSlot : table[s].state = "started" /\ table'[s].state = "started" =>
                ~ (admin.op = "disable" /\ admin.group = table[s].group)
                \/ UNCHANGED admin
  PROVE  StopInv'
  BY DEF StopInv

LEMMA StopInvariant == RegistrySpec => []StopInv
<1>1. RegistryInit => StopInv
  BY DEF RegistryInit, StopInv, FreeSlot, NoSweep
<1>2. RegistryInv /\ StopInv /\ [RegistryNext]_registryVars => StopInv'
  <2> SUFFICES ASSUME RegistryInv, StopInv, [RegistryNext]_registryVars PROVE StopInv'
    OBVIOUS
  <2> USE DEF RegistryInv
  <2>i. AdminIdle.op = "idle"
    BY IdleTyped
  <2>f. Free => sweep.kind # "stop"
    BY DEF Free, NoSweep
  <2>1. CASE UNCHANGED registryVars
    BY <2>1 DEF registryVars, StopInv
  <2>2. CASE \E c \in Call, g \in Plugin : CallBegin(c, g)
    <3>1. UNCHANGED <<started, sweep, admin>>
      BY <2>2 DEF CallBegin
    <3>2. \A s \in TableSlot : /\ table'[s].group = table[s].group
                               /\ table'[s].state = table[s].state
      BY <2>2 DEF CallBegin, RegistryTypeOK
    <3> QED BY <3>1, <3>2, NoStartKeepsStop DEF StopInv
  <2>3. CASE \E c \in Call : CallEnd(c)
    <3>1. UNCHANGED <<started, sweep, admin>>
      BY <2>3 DEF CallEnd
    <3>2. \A s \in TableSlot : /\ table'[s].group = table[s].group
                               /\ table'[s].state = table[s].state
      BY <2>3 DEF CallEnd, RegistryTypeOK
    <3> QED BY <3>1, <3>2, NoStartKeepsStop DEF StopInv
  <2>4. ASSUME NEW g \in Plugin, RegisterGroup(g) PROVE StopInv'
    <3>1. PICK s \in TableSlot :
            table' = [table EXCEPT ![s] = [group |-> g, state |-> "registered", active |-> 0]]
      BY <2>4 DEF RegisterGroup, FirstFree, SlotsOf
    <3>2. \A t \in TableSlot : table'[t].state = "started" => table'[t] = table[t]
      BY <3>1 DEF RegistryTypeOK
    <3> QED BY <2>4, <2>f, <3>2, NoStartKeepsStop DEF RegisterGroup
  <2>5. CASE \E g \in Plugin, op \in {"enable", "disable", "unregister"} : Request(op, g)
    BY <2>5, <2>f, NoStartKeepsStop DEF Request
  <2>6. CASE \E kind \in {"start", "stop"} : SweepBegin(kind)
    <3>1. PICK kind \in {"start", "stop"} : SweepBegin(kind)
      BY <2>6
    <3>2. /\ admin = AdminIdle /\ UNCHANGED <<table, admin>>
          /\ sweep' = [kind |-> kind, at |-> 1]
      BY <3>1 DEF SweepBegin, Free
    <3>6. ~ started' => ~ started
      BY <3>1 DEF SweepBegin
    <3>3. \A s \in TableSlot : ~ (s < 1)
      BY DEF TableSlot
    <3>4. ~ started' => \A s \in TableSlot : table'[s].state # "started"
      BY <3>2, <3>6 DEF StopInv
    <3>5. sweep'.kind = kind /\ sweep'.kind # "none" /\ sweep'.at = 1 /\ 1 >= 1
      BY <3>2
    <3> QED BY <2>i, <3>2, <3>3, <3>4, <3>5 DEF StopInv
  <2>7. CASE Refuse \/ DisableEnd \/ DrainTimeout \/ DrainWait \/ StartCallbacks
             \/ StopCallbacks("stopping", "stopped") \/ StopCallbacks("unloading", "unloaded")
    <3>1. UNCHANGED <<table, started, sweep>>
      BY <2>7 DEF Refuse, DisableEnd, DrainTimeout, DrainWait, StartCallbacks, StopCallbacks
    <3>2. sweep.kind = "stop" => admin'.op \in {"idle", "stopped"}
      BY <2>7, <2>i DEF Refuse, DisableEnd, DrainTimeout, DrainWait, StartCallbacks,
                        StopCallbacks, AdminDone, Goto, StopInv, RegistryTypeOK
    <3>3. ASSUME NEW s \in TableSlot, table[s].state = "started"
          PROVE  ~ (admin.op = "disable" /\ admin.group = table[s].group)
      <4>1. CASE Refuse
        <5> SUFFICES ASSUME admin.op = "disable", admin.group = table[s].group PROVE FALSE
          OBVIOUS
        <5>1. s \in SlotsOf(admin.group) /\ admin.group \in Plugin
          BY DEF SlotsOf, RequestsOK
        <5>2. \A t \in SlotsOf(admin.group) : t = s
          BY <5>1 DEF FreeSlotsOK, SlotsOf
        <5> QED BY <3>3, <4>1, <5>1, <5>2 DEF Refuse, Unloads
      <4> QED BY <2>7, <4>1 DEF DisableEnd, DrainTimeout, DrainWait, StartCallbacks, StopCallbacks
    <3> QED BY <3>1, <3>2, <3>3, NoStartKeepsStop
  <2>8. CASE EnableMark \/ EnableEnd
    <3>1. sweep.kind # "stop" /\ UNCHANGED <<started, sweep>>
      BY <2>8 DEF EnableMark, EnableEnd, StopInv
    <3>2. CASE EnableEnd
      <4>1. started
        BY <3>2 DEF EnableEnd, StopInv, AdminSlotOK, WithSlot, AdminState
      <4> QED BY <3>1, <4>1 DEF StopInv
    <3>3. CASE EnableMark
      <4>1. CASE started
        BY <3>1, <4>1 DEF StopInv
      <4>2. CASE ~ started
        <5>1. PICK s \in TableSlot : SetState(s, "registered")
          BY <3>3, <4>2 DEF EnableMark, SlotsOf
        <5>2. \A t \in TableSlot : table'[t].state = "started" => table[t].state = "started"
          BY <5>1, SetStateTyped DEF GroupStates
        <5> QED BY <3>1, <4>2, <5>2 DEF StopInv
      <4> QED BY <4>1, <4>2
    <3> QED BY <2>8, <3>2, <3>3
  <2>9. CASE EnableRollback \/ UnregisterMark \/ DrainDone \/ ClearSlot
    <3>1. sweep.kind # "stop" /\ UNCHANGED <<started, sweep>>
      BY <2>9 DEF EnableRollback, UnregisterMark, DrainDone, ClearSlot, StopInv
    <3>2. \/ UNCHANGED table
          \/ \E s \in TableSlot, st \in GroupStates \ {"started"} : SetState(s, st)
          \/ \E s \in TableSlot : table' = [table EXCEPT ![s] = FreeSlot]
      BY <2>9 DEF EnableRollback, UnregisterMark, DrainDone, ClearSlot, AdminSlotOK, WithSlot,
                  GroupStates, SlotsOf
    <3>3. \A t \in TableSlot : table'[t].state = "started" => table'[t] = table[t]
      BY <3>2, SetStateTyped DEF RegistryTypeOK, FreeSlot
    <3> QED BY <3>1, <3>3, NoStartKeepsStop
  <2>10. CASE DisableMark
    <3>1. PICK s \in TableSlot : /\ table[s].group = admin.group
                                /\ SetState(s, "disabled")
                                /\ admin' = [admin EXCEPT !.op = "stopping", !.slot = s]
      BY <2>10 DEF DisableMark, SlotsOf
    <3>2. admin'.op = "stopping" /\ UNCHANGED <<started, sweep>> /\ admin.group \in Plugin
      BY <2>10, <3>1 DEF DisableMark, RegistryTypeOK, RequestsOK
    <3>3. \A t \in TableSlot : table'[t].state = "started" => t # s /\ table'[t] = table[t]
      BY <3>1, SetStateTyped DEF GroupStates
    <3>4. \A t \in TableSlot : t # s => table[t].group # admin.group
      BY <3>1, <3>2 DEF FreeSlotsOK
    <3> QED BY <3>2, <3>3, <3>4, NoStartKeepsStop
  <2>11. CASE SweepStep
    <3>1. admin = AdminIdle /\ table' = table /\ sweep.kind # "none" /\ sweep.at >= 1
      BY <2>11 DEF SweepStep, StopInv
    <3>2. CASE sweep.at \in TableSlot
      <4>1. /\ sweep'.kind = sweep.kind /\ sweep'.at = sweep.at + 1 /\ started' = started
        BY <2>11, <3>2 DEF SweepStep, RegistryTypeOK
      <4>2. sweep.kind = "stop" =>
              IF table[sweep.at].state = "started"
              THEN admin'.op = "disable" /\ admin'.group = table[sweep.at].group
              ELSE admin'.op = "idle"
        BY <2>11, <2>i, <3>2 DEF SweepStep, SweepTakes, AdminIdle
      <4>3. sweep.at \in Nat /\ \A s \in TableSlot : s < sweep.at + 1 => s < sweep.at \/ s = sweep.at
        BY <3>2 DEF TableSlot
      <4> QED BY <2>i, <3>1, <4>1, <4>2, <4>3 DEF StopInv
    <3>3. CASE sweep.at \notin TableSlot
      <4>1. sweep' = NoSweep /\ started' = (sweep.kind = "start") /\ admin' = admin
        BY <2>11, <3>3 DEF SweepStep
      <4>2. \A s \in TableSlot : s < sweep.at
        BY <3>1, <3>3 DEF RegistryTypeOK, TableSlot
      <4>3. sweep.kind \in {"start", "stop"}
        BY <3>1 DEF RegistryTypeOK
      <4>4. sweep.kind = "stop" => \A s \in TableSlot : table[s].state # "started"
        BY <2>i, <3>1, <4>2 DEF StopInv
      <4> QED BY <3>1, <4>1, <4>3, <4>4 DEF StopInv, NoSweep
    <3> QED BY <3>2, <3>3
  <2> QED
    BY <2>1, <2>2, <2>3, <2>4, <2>5, <2>6, <2>7, <2>8, <2>9, <2>10, <2>11
    DEF RegistryNext, AdminStep
<1> QED BY RegistryInvariant, <1>1, <1>2, PTL DEF RegistrySpec

\* The states of the groups tell the truth about their callbacks between two
\* operations, whatever starts or stops of plugins fail.
THEOREM StartedGroupsAreLive == RegistrySpec => []StartedIsLive
<1>1. RegistryInit => LiveInv
  BY DEF RegistryInit, LiveInv, FreeSlot, AdminIdle
<1>2. RegistryInv /\ StopInv /\ LiveInv /\ [RegistryNext]_registryVars => LiveInv'
  <2> SUFFICES ASSUME RegistryInv, StopInv, LiveInv, [RegistryNext]_registryVars PROVE LiveInv'
    OBVIOUS
  <2> USE DEF RegistryInv
  <2>i. AdminIdle.op = "idle"
    BY IdleTyped
  <2>1. CASE UNCHANGED registryVars
    BY <2>1, SameStatesKeepLive DEF registryVars
  <2>2. ASSUME NEW c \in Call, NEW g \in Plugin, CallBegin(c, g) PROVE LiveInv'
    <3>1. \A s \in TableSlot : /\ table'[s].group = table[s].group
                               /\ table'[s].state = table[s].state
      BY <2>2 DEF CallBegin, RegistryTypeOK
    <3> QED BY <2>2, <3>1, SameStatesKeepLive DEF CallBegin
  <2>3. ASSUME NEW c \in Call, CallEnd(c) PROVE LiveInv'
    <3>1. \A s \in TableSlot : /\ table'[s].group = table[s].group
                               /\ table'[s].state = table[s].state
      BY <2>3 DEF CallEnd, RegistryTypeOK
    <3> QED BY <2>3, <3>1, SameStatesKeepLive DEF CallEnd
  <2>4. ASSUME NEW g \in Plugin, RegisterGroup(g) PROVE LiveInv'
    <3> PICK s \in FirstFree :
          table' = [table EXCEPT ![s] = [group |-> g, state |-> "registered", active |-> 0]]
      BY <2>4 DEF RegisterGroup
    <3>1. /\ live' = live /\ admin.op = "idle"
          /\ admin'.op \in {"idle", "enable"}
      BY <2>4, <2>i DEF RegisterGroup, Free, AdminIdle
    <3>2. s \in TableSlot /\ table[s].group = NoPlugin
      BY DEF FirstFree, SlotsOf
    <3>3. /\ table'[s].state = "registered"
          /\ \A t \in TableSlot : t # s => table'[t] = table[t]
      BY <3>2 DEF RegistryTypeOK
    <3>4. \A h \in Plugin : SlotsOf(h) \subseteq SlotsOf(h)'
      BY <3>2, <3>3 DEF SlotsOf
    <3>5. s \notin UNION {SlotsOf(h) : h \in Plugin}
      BY <3>2 DEF SlotsOf
    <3> QED BY <3>1, <3>2, <3>3, <3>4, <3>5 DEF LiveInv, SlotsOf
  <2>5. ASSUME NEW g \in Plugin, NEW op \in {"enable", "disable", "unregister"}, Request(op, g)
        PROVE  LiveInv'
    <3>1. UNCHANGED <<table, live>> /\ admin.op = "idle" /\ admin'.op = op
      BY <2>5, <2>i DEF Request, Free, AdminIdle
    <3> QED BY <3>1, SameStatesKeepLive
  <2>6. CASE \E kind \in {"start", "stop"} : SweepBegin(kind)
    BY <2>6, SameStatesKeepLive DEF SweepBegin
  <2>7. CASE Refuse \/ DisableEnd \/ DrainTimeout
    <3>1. /\ UNCHANGED <<table, live>> /\ admin'.op = "idle"
          /\ admin.op \in {"enable", "disable", "unregister", "stopped", "draining"}
      BY <2>7, <2>i DEF Refuse, DisableEnd, DrainTimeout, AdminDone
    <3> QED BY <3>1, SameStatesKeepLive
  <2>8. CASE EnableMark
    <3> PICK s \in SlotsOf(admin.group) :
          /\ ~ Unloads(s)
          /\ IF started
             THEN /\ table[s].state # "started"
                  /\ SetState(s, "started")
                  /\ admin' = [admin EXCEPT !.op = "starting", !.slot = s]
             ELSE SetState(s, "registered") /\ AdminDone
          /\ live' = live
      BY <2>8 DEF EnableMark
    <3>1. admin.op = "enable" /\ admin.group \in Plugin
      BY <2>8 DEF EnableMark, RequestsOK
    <3>2. s \in TableSlot /\ table[s].group = admin.group /\ table[s].state # "draining"
      BY DEF SlotsOf, Unloads
    <3>3. \A t \in TableSlot : table[t].group = admin.group => t = s
      BY <3>1, <3>2 DEF FreeSlotsOK
    <3>4. CASE started
      <4>1. live[admin.group] # "on"
        BY <3>1, <3>2, <3>3, <3>4 DEF LiveInv, SlotsOf
      <4>2. /\ admin'.op = "starting" /\ admin'.slot = s /\ admin'.group = admin.group
        BY <3>2, <3>4 DEF RegistryTypeOK
      <4> QED BY <3>1, <3>2, <3>4, <4>1, <4>2, MarkKeepsLive DEF GroupStates
    <3>5. CASE ~ started
      <4>1. SetState(s, "registered") /\ admin'.op = "idle"
        BY <3>5, <2>i DEF AdminDone
      <4>2. live[admin.group] # "on"
        BY <3>1, <3>2, <3>3, <3>5 DEF LiveInv, StopInv, SlotsOf
      <4> QED BY <3>1, <3>2, <4>1, <4>2, MarkKeepsLive DEF GroupStates
    <3> QED BY <3>4, <3>5
  <2>9. CASE \/ StartCallbacks \/ EnableEnd \/ EnableRollback
            \/ StopCallbacks("stopping", "stopped") \/ StopCallbacks("unloading", "unloaded")
            \/ DrainDone
    <3> DEFINE s == admin.slot
               g == admin.group
    <3>1. /\ admin.op \in WithSlot /\ s \in TableSlot /\ g \in Plugin
          /\ table[s].state \in AdminState
      BY <2>9 DEF WithSlot, StartCallbacks, EnableEnd, EnableRollback, StopCallbacks,
                  DrainDone, AdminSlotOK
    <3>2. CASE StartCallbacks
      <4>1. /\ table' = table /\ table[s].state = "started"
            /\ live[g] # "on" /\ admin'.slot = s /\ admin'.group = g
            /\ \A h \in Plugin : h # g => live'[h] = live[h]
        BY <3>1, <3>2 DEF StartCallbacks, Goto, RegistryTypeOK, AdminState, LiveInv
      <4>2. \/ admin'.op = "started" /\ live'[g] = "on"
            \/ admin'.op = "startFailed" /\ live'[g] # "on"
        BY <3>1, <3>2, <4>1 DEF StartCallbacks, Goto, RegistryTypeOK
      <4> QED BY <3>1, <4>1, <4>2, SlotStepKeepsLive
    <3>3. CASE EnableEnd
      <4>1. UNCHANGED table \/ SetState(s, "started")
        BY <3>3 DEF EnableEnd
      <4>2. \A t \in TableSlot : /\ table'[t].group = table[t].group
                                 /\ t # s => table'[t].state = table[t].state
        BY <3>1, <4>1, SetStateTyped DEF GroupStates
      <4>3. /\ admin.op = "started" /\ admin'.op = "idle" /\ live' = live
        BY <3>3, <2>i DEF EnableEnd, AdminDone
      <4>4. live[g] = "on"
        BY <4>3 DEF LiveInv
      <4>5. table'[s].state = "started"
        BY <3>1, <4>1, <4>3, SetStateTyped DEF AdminState, GroupStates
      <4> QED BY <3>1, <4>2, <4>3, <4>4, <4>5, SlotStepKeepsLive
    <3>4. CASE EnableRollback
      <4>1. SetState(s, "disabled") /\ admin.op = "startFailed" /\ live' = live
            /\ admin'.op = "idle"
        BY <3>1, <3>4, <2>i DEF EnableRollback, AdminState, Unloads, AdminDone
      <4>2. /\ \A t \in TableSlot : /\ table'[t].group = table[t].group
                                    /\ t # s => table'[t].state = table[t].state
            /\ table'[s].state = "disabled"
        BY <3>1, <4>1, SetStateTyped DEF GroupStates
      <4>3. live[g] # "on"
        BY <4>1 DEF LiveInv
      <4> QED BY <3>1, <4>1, <4>2, <4>3, SlotStepKeepsLive
    <3>5. CASE StopCallbacks("stopping", "stopped") \/ StopCallbacks("unloading", "unloaded")
      <4>1. table[s].state \in {"disabled", "unloading"}
        BY <3>1, <3>5 DEF StopCallbacks, AdminState
      <4>2. /\ live'[g] # "on" /\ table' = table
            /\ \A h \in Plugin : h # g => live'[h] = live[h]
            /\ admin'.op \in {"stopped", "unloaded"}
        BY <3>1, <3>5 DEF StopCallbacks, Goto, RegistryTypeOK
      <4> QED BY <3>1, <4>1, <4>2, SlotStepKeepsLive
    <3>6. CASE DrainDone
      <4>1. SetState(s, "unloading") /\ live' = live
            /\ admin'.op = "unloading" /\ admin'.slot = s
        BY <3>6 DEF DrainDone, Goto, RegistryTypeOK
      <4>2. /\ \A t \in TableSlot : /\ table'[t].group = table[t].group
                                    /\ t # s => table'[t].state = table[t].state
            /\ table'[s].state = "unloading"
        BY <3>1, <4>1, SetStateTyped DEF GroupStates
      <4> QED BY <3>1, <4>1, <4>2, SlotStepKeepsLive
    <3> QED BY <2>9, <3>2, <3>3, <3>4, <3>5, <3>6
  <2>10. CASE DisableMark
    <3>1. /\ admin.op = "disable" /\ admin.group \in Plugin /\ live' = live
      BY <2>10 DEF DisableMark, RequestsOK
    <3>2. PICK s \in SlotsOf(admin.group) :
            /\ SetState(s, "disabled")
            /\ admin' = [admin EXCEPT !.op = "stopping", !.slot = s]
      BY <2>10 DEF DisableMark
    <3>3. s \in TableSlot /\ table[s].group = admin.group
      BY DEF SlotsOf
    <3>4. admin'.op = "stopping" /\ admin'.slot = s
      BY <3>2 DEF RegistryTypeOK
    <3> QED BY <3>1, <3>2, <3>3, <3>4, MarkKeepsLive DEF GroupStates
  <2>11. CASE UnregisterMark
    <3>1. /\ admin.op = "unregister" /\ admin.group \in Plugin /\ live' = live
      BY <2>11 DEF UnregisterMark, RequestsOK
    <3>2. PICK s \in SlotsOf(admin.group) :
            /\ SetState(s, "draining")
            /\ admin' = [admin EXCEPT !.op = "draining", !.slot = s]
      BY <2>11 DEF UnregisterMark
    <3>3. s \in TableSlot /\ table[s].group = admin.group
      BY DEF SlotsOf
    <3>4. admin'.op = "draining" /\ admin'.slot = s
      BY <3>2 DEF RegistryTypeOK
    <3> QED BY <3>1, <3>2, <3>3, <3>4, MarkKeepsLive DEF GroupStates
  <2>12. CASE DrainWait
    <3>1. UNCHANGED <<table, live>> /\ admin.op = "draining" /\ admin'.op = "draining"
      BY <2>12 DEF DrainWait, RegistryTypeOK
    <3> QED BY <3>1, SameStatesKeepLive
  <2>13. CASE ClearSlot
    <3> DEFINE s == admin.slot
    <3>1. /\ admin.op = "unloaded" /\ s \in TableSlot /\ admin.group \in Plugin
          /\ table[s].group = admin.group /\ table[s].state = "unloading"
      BY <2>13 DEF ClearSlot, AdminSlotOK, WithSlot, AdminState
    <3>2. /\ live' = live /\ admin'.op = "idle"
          /\ table'[s].state = "free"
          /\ \A t \in TableSlot : t # s => table'[t] = table[t]
      BY <2>13, <2>i, <3>1 DEF ClearSlot, AdminDone, RegistryTypeOK, FreeSlot
    <3>3. \A t \in TableSlot : table'[t].state = "started" => live'[table'[t].group] = "on"
      BY <3>1, <3>2 DEF LiveInv
    <3>4. ASSUME NEW h \in Plugin, live'[h] = "on"
          PROVE  \E t \in TableSlot : /\ table'[t].group = h
                                      /\ table'[t].state \in {"started", "draining"}
      <4>1. PICK t \in TableSlot : /\ table[t].group = h
                                  /\ table[t].state \in {"started", "draining"}
        BY <3>1, <3>2, <3>4 DEF LiveInv, SlotsOf
      <4> QED BY <3>1, <3>2, <4>1
    <3> QED BY <3>2, <3>3, <3>4 DEF LiveInv, SlotsOf
  <2>14. CASE SweepStep
    <3>1. /\ UNCHANGED <<table, live>> /\ admin.op = "idle"
          /\ admin'.op \in {"idle", "enable", "disable"}
      BY <2>14, <2>i DEF SweepStep, AdminIdle
    <3> QED BY <3>1, SameStatesKeepLive
  <2> QED
    BY <2>1, <2>2, <2>3, <2>4, <2>5, <2>6, <2>7, <2>8, <2>9, <2>10, <2>11, <2>12, <2>13, <2>14
    DEF RegistryNext, AdminStep
<1>3. RegistryInv /\ LiveInv => StartedIsLive
  <2>1. AdminIdle.op = "idle"
    BY IdleTyped
  <2> QED BY <2>1 DEF LiveInv, StartedIsLive
<1> QED BY RegistryInvariant, StopInvariant, <1>1, <1>2, <1>3, PTL DEF RegistrySpec
=============================================================================
