-------------------------- MODULE RuleStoreProofs ---------------------------
(***************************************************************************)
(* Safety of the rule store, proved for every set of callers, ids and      *)
(* rules, every limit, and any number of failures and resets.              *)
(*                                                                         *)
(* Unique ids are a matter of what a call makes of the list it has read,   *)
(* and hold whatever list that was: every list that exists anywhere, in    *)
(* memory, in a call or in a file, has them.  That file and memory agree   *)
(* is a matter of where the one call under way is, while there is only one.*)
(***************************************************************************)
EXTENDS RuleStore, SequenceTheorems, TLAPS

USE ConstantsAssumption

-----------------------------------------------------------------------------
\* What the three edits make of a list.

LEMMA WithoutElements ==
  ASSUME NEW l \in Seq(Rule), NEW n \in DOMAIN l
  PROVE  /\ Without(l, n) \in Seq(Rule)
         /\ Len(Without(l, n)) = Len(l) - 1
         /\ \A m \in 1 .. Len(l) - 1 :
              Without(l, n)[m] = IF m < n THEN l[m] ELSE l[m + 1]
<1> DEFINE a == SubSeq(l, 1, n - 1)
           b == SubSeq(l, n + 1, Len(l))
<1>1. n \in 1 .. Len(l) /\ Len(l) \in Nat
  OBVIOUS
<1>2. a \in Seq(Rule) /\ Len(a) = n - 1 /\ \A m \in 1 .. n - 1 : a[m] = l[m]
  BY <1>1
<1>3. b \in Seq(Rule) /\ Len(b) = Len(l) - n
      /\ \A m \in 1 .. Len(l) - n : b[m] = l[n + m]
  BY <1>1
<1>4. /\ a \o b \in Seq(Rule) /\ Len(a \o b) = Len(a) + Len(b)
      /\ \A m \in 1 .. Len(a) + Len(b) :
           (a \o b)[m] = IF m =< Len(a) THEN a[m] ELSE b[m - Len(a)]
  BY <1>2, <1>3, ConcatProperties
<1> HIDE DEF a, b
<1>5. ASSUME NEW m \in 1 .. Len(l) - 1
      PROVE  (a \o b)[m] = IF m < n THEN l[m] ELSE l[m + 1]
  <2>1. CASE m < n
    <3>1. m \in 1 .. n - 1 /\ m =< Len(a) /\ m \in 1 .. Len(a) + Len(b)
      BY <1>1, <1>2, <1>3, <2>1
    <3> QED BY <1>2, <1>4, <2>1, <3>1
  <2>2. CASE ~ (m < n)
    <3>1. /\ m - Len(a) \in 1 .. Len(l) - n /\ ~ (m =< Len(a))
          /\ m \in 1 .. Len(a) + Len(b) /\ n + (m - Len(a)) = m + 1
      BY <1>1, <1>2, <1>3, <2>2
    <3>2. b[m - Len(a)] = l[n + (m - Len(a))]
      BY <1>3, <3>1
    <3> QED BY <1>4, <2>2, <3>1, <3>2
  <2> QED BY <2>1, <2>2
<1>6. Len(a \o b) = Len(l) - 1
  BY <1>1, <1>2, <1>3, <1>4
<1> QED BY <1>4, <1>5, <1>6 DEF Without, a, b

LEMMA AddEdits ==
  ASSUME NEW l \in Seq(Rule), UniqueIds(l), NEW r \in Rule,
         \A n \in DOMAIN l : l[n].id # r.id
  PROVE  /\ UniqueIds(Append(l, r))
         /\ Others(Append(l, r), r.id) = Others(l, r.id)
<1>1. /\ DOMAIN l = 1 .. Len(l) /\ DOMAIN Append(l, r) = 1 .. Len(l) + 1
      /\ Append(l, r)[Len(l) + 1] = r
      /\ \A m \in 1 .. Len(l) : Append(l, r)[m] = l[m]
  OBVIOUS
<1>2. UniqueIds(Append(l, r))
  BY <1>1 DEF UniqueIds
<1>3. ASSUME NEW x PROVE x \in Others(Append(l, r), r.id) <=> x \in Others(l, r.id)
  BY <1>1 DEF Others, Range
<1> QED BY <1>2, <1>3 DEF Others

LEMMA UpdateEdits ==
  ASSUME NEW l \in Seq(Rule), UniqueIds(l), NEW r \in Rule,
         NEW n \in DOMAIN l, l[n].id = r.id
  PROVE  /\ UniqueIds([l EXCEPT ![n] = r])
         /\ Others([l EXCEPT ![n] = r], r.id) = Others(l, r.id)
<1> DEFINE k == [l EXCEPT ![n] = r]
<1>1. /\ DOMAIN k = DOMAIN l /\ k[n] = r
      /\ \A m \in DOMAIN l : m # n => k[m] = l[m]
  OBVIOUS
<1> HIDE DEF k
<1>2. \A m \in DOMAIN l : k[m].id = l[m].id
  BY <1>1
<1>3. UniqueIds(k)
  BY <1>1, <1>2 DEF UniqueIds
<1>4. ASSUME NEW x PROVE x \in Others(k, r.id) <=> x \in Others(l, r.id)
  BY <1>1, <1>2 DEF Others, Range
<1>5. Others(k, r.id) = Others(l, r.id)
  BY <1>4 DEF Others
<1> QED BY <1>3, <1>5 DEF k

LEMMA DeleteEdits ==
  ASSUME NEW l \in Seq(Rule), UniqueIds(l), NEW n \in DOMAIN l, NEW i,
         l[n].id = i
  PROVE  /\ UniqueIds(Without(l, n))
         /\ Others(Without(l, n), i) = Others(l, i)
<1> DEFINE k == Without(l, n)
<1>1. /\ k \in Seq(Rule) /\ Len(k) = Len(l) - 1
      /\ \A m \in 1 .. Len(l) - 1 : k[m] = IF m < n THEN l[m] ELSE l[m + 1]
  BY WithoutElements
<1>2. DOMAIN l = 1 .. Len(l) /\ n \in 1 .. Len(l) /\ Len(l) \in Nat
      /\ DOMAIN k = 1 .. Len(l) - 1
  BY <1>1
<1> HIDE DEF k
<1>3. UniqueIds(k)
  <2> SUFFICES ASSUME NEW p \in DOMAIN k, NEW q \in DOMAIN k, k[p].id = k[q].id
               PROVE  p = q
    BY DEF UniqueIds
  <2> DEFINE at(m) == IF m < n THEN m ELSE m + 1
  <2>1. /\ at(p) \in DOMAIN l /\ k[p] = l[at(p)]
        /\ at(q) \in DOMAIN l /\ k[q] = l[at(q)]
    BY <1>1, <1>2
  <2>2. at(p) = at(q)
    BY <2>1 DEF UniqueIds
  <2> QED BY <2>2, <1>2
<1>4. ASSUME NEW x \in Others(k, i) PROVE x \in Others(l, i)
  <2>1. PICK m \in DOMAIN k : x = k[m] /\ x.id # i
    BY DEF Others, Range
  <2>2. /\ m \in DOMAIN l /\ m + 1 \in DOMAIN l
        /\ x = l[m] \/ x = l[m + 1]
    BY <1>1, <1>2, <2>1
  <2> QED BY <2>1, <2>2 DEF Others, Range
<1>5. ASSUME NEW x \in Others(l, i) PROVE x \in Others(k, i)
  <2>1. PICK m \in DOMAIN l : x = l[m] /\ m # n
    BY DEF Others, Range
  <2>2. CASE m < n
    <3>1. m \in DOMAIN k /\ k[m] = x
      BY <1>1, <1>2, <2>1, <2>2
    <3> QED BY <3>1 DEF Others, Range
  <2>3. CASE m > n
    <3>1. m - 1 \in DOMAIN k /\ k[m - 1] = x
      BY <1>1, <1>2, <2>1, <2>3
    <3> QED BY <3>1 DEF Others, Range
  <2> QED BY <1>2, <2>1, <2>2, <2>3
<1>6. Others(k, i) = Others(l, i)
  BY <1>4, <1>5 DEF Others
<1> QED BY <1>3, <1>6 DEF k

-----------------------------------------------------------------------------
\* Every reachable state is of the right type, and a router that is down has
\* no calls under way.
THEOREM TypeCorrect == Spec => []TypeOK
<1>1. Init => TypeOK
  <2> SUFFICES ASSUME Init PROVE TypeOK
    OBVIOUS
  <2>1. IsRules(<<>>) /\ IsFile(Missing) /\ (\A f \in InitialFiles : IsFile(f))
    BY DEF IsRules, IsFile
  <2>2. /\ \A c \in Caller : call[c] = Idle
        /\ Idle \in [pc : Pc, id : Id \cup {NoId}, root : Seq(Rule), found : BOOLEAN]
        /\ Idle.pc = "idle" /\ Idle.root = <<>>
    BY DEF Init, Idle, Pc
  <2>3. call \in [Caller -> [pc : Pc, id : Id \cup {NoId}, root : Seq(Rule),
                              found : BOOLEAN]]
    BY <2>2 DEF Init
  <2>4. IsRules(rules) /\ IsFile(file) /\ IsFile(tmp)
    BY <2>1 DEF Init
  <2>5. up \in BOOLEAN /\ excused \in BOOLEAN /\ unnamed \in BOOLEAN
    BY Zenon DEF Init
  <2>6. faults \in 0 .. MaxFaults
    BY DEF Init
  <2>7. Quiet /\ rules = <<>> /\ \A c \in Caller : IsRules(call[c].root)
    BY <2>1, <2>2 DEF Init, Quiet
  <2> QED BY <2>3, <2>4, <2>5, <2>6, <2>7 DEF TypeOK
<1>2. TypeOK /\ [Next]_vars => TypeOK'
  <2> SUFFICES ASSUME TypeOK, [Next]_vars PROVE TypeOK'
    OBVIOUS
  <2> USE DEF TypeOK, history, Goto, Return, Quiet, Pc
  <2>1. Idle \in [pc : Pc, id : Id \cup {NoId}, root : Seq(Rule), found : BOOLEAN]
        /\ IsRules(Idle.root) /\ Idle.pc = "idle"
    BY DEF Idle, IsRules
  <2>3. Fault \/ NoFault => faults' \in 0 .. MaxFaults
    BY DEF Fault, NoFault
  <2>4. \A f : IsRules(f) => IsFile(f) /\ f \in Seq(Rule)
    BY DEF IsFile, IsRules
  <2>5. IsFile(Missing) /\ IsFile(Damaged) /\ IsRules(<<>>)
    BY DEF IsFile, IsRules
  <2>6. ASSUME NEW c \in Caller, NEW i \in Id \cup {NoId}, NEW old, NEW new,
               NEW l \in {"open", "commit"}, Begin(c, i, old, new, l)
        PROVE  TypeOK'
    <3>1. faults' \in 0 .. MaxFaults
      BY <2>3, <2>6 DEF Begin, CountMisread
    <3>2. excused' \in BOOLEAN
      BY <2>6 DEF Begin, Misread, Alone
    <3>3. call' \in [Caller -> [pc : Pc, id : Id \cup {NoId}, root : Seq(Rule),
                                found : BOOLEAN]]
      BY <2>4, <2>6 DEF Begin
    <3>4. \A d \in Caller : IsRules(call'[d].root)
      BY <2>6 DEF Begin
    <3> QED BY <2>6, <3>1, <3>2, <3>3, <3>4 DEF Begin
  <2>7. ASSUME NEW c \in Caller, Change(c) PROVE TypeOK'
    <3>1. \A r \in Rule : r.id \in Id
      OBVIOUS
    <3>2. ASSUME NEW r \in Rule, AddRule(c, r) \/ UpdateRule(c, r) PROVE TypeOK'
      BY <2>6, <3>1, <3>2 DEF AddRule, UpdateRule
    <3>3. ASSUME NEW i \in Id, DeleteRule(c, i) PROVE TypeOK'
      BY <2>6, <3>3 DEF DeleteRule
    <3>4. ASSUME Reload(c) PROVE TypeOK'
      BY <2>6, <3>4 DEF Reload
    <3> QED BY <2>7, <3>2, <3>3, <3>4 DEF Change
  <2>8. ASSUME NEW c \in Caller, Store(c) PROVE TypeOK'
    <3>1. up
      BY <2>8 DEF Store, OpenTemp, OpenFails, WriteTemp, CloseFails, WriteFails, RemoveOld,
                  RemoveFails, RenameTemp, RenameFails, Commit
    <3>2. ASSUME NEW l \in Pc, Goto(c, l), UNCHANGED <<rules, up>>,
                 IsFile(file'), IsFile(tmp'), faults' \in 0 .. MaxFaults,
                 excused' \in BOOLEAN, unnamed' \in BOOLEAN
          PROVE  TypeOK'
      BY <3>1, <3>2
    <3>3. ASSUME Return(c), IsRules(rules'), UNCHANGED <<up, file, excused>>,
                 IsFile(tmp'), faults' \in 0 .. MaxFaults, unnamed' \in BOOLEAN
          PROVE  TypeOK'
      BY <2>1, <3>1, <3>3
    <3>4. CASE OpenTemp(c)
      BY <2>5, <3>2, <3>4 DEF OpenTemp
    <3>9. CASE CloseFails(c)
      <4>1. IsFile(tmp') /\ IsFile(file')
        BY <2>5, <3>9 DEF CloseFails
      <4>2. faults' \in 0 .. MaxFaults
        BY <2>3, <3>9 DEF CloseFails
      <4> QED BY <3>2, <3>9, <4>1, <4>2 DEF CloseFails
    <3>5. CASE WriteTemp(c)
      <4>1. IsFile(call[c].root)
        BY <2>4
      <4>2. IsFile(tmp') /\ IsFile(file')
        BY <2>5, <3>5, <4>1 DEF WriteTemp
      <4> QED BY <3>2, <3>5, <4>2 DEF WriteTemp
    <3>6. CASE RemoveOld(c) \/ RenameTemp(c)
      BY <2>5, <3>2, <3>6 DEF RemoveOld, RenameTemp
    <3>7. CASE OpenFails(c) \/ Commit(c)
      BY <2>3, <3>3, <3>7 DEF OpenFails, Commit
    <3>8. CASE WriteFails(c) \/ RemoveFails(c) \/ RenameFails(c)
      <4>1. faults' \in 0 .. MaxFaults
        BY <2>3, <3>8 DEF WriteFails, RemoveFails, RenameFails
      <4> QED BY <2>5, <3>3, <3>8, <4>1
              DEF WriteFails, RemoveFails, RenameFails, GiveUp
    <3> QED BY <2>8, <3>4, <3>5, <3>6, <3>7, <3>8, <3>9 DEF Store
  <2>9. CASE Crash
    BY <2>1, <2>3, <2>5, <2>9 DEF Crash
  <2>10. CASE Boot
    <3>1. \A old \in Loads : IsRules(old)
      BY <2>5 DEF Loads
    <3>2. faults' \in 0 .. MaxFaults /\ excused' \in BOOLEAN
      BY <2>3, <2>10 DEF Boot, CountMisread, Misread
    <3> QED BY <2>10, <3>1, <3>2 DEF Boot
  <2>11. CASE UNCHANGED vars
    BY <2>11 DEF vars
  <2> QED BY <2>7, <2>8, <2>9, <2>10, <2>11 DEF Next
<1> QED BY <1>1, <1>2, PTL DEF Spec

-----------------------------------------------------------------------------
\* Unique ids.

AllUnique ==
  /\ UniqueIds(rules)
  /\ file \in {Missing, Damaged} \/ UniqueIds(file)
  /\ tmp \in {Missing, Damaged} \/ UniqueIds(tmp)
  /\ \A c \in Caller : UniqueIds(call[c].root)

LEMMA EmptyUnique == UniqueIds(<<>>)
BY DEF UniqueIds

LEMMA LoadsUnique ==
  ASSUME TypeOK, AllUnique, NEW old \in Loads
  PROVE  old \in Seq(Rule) /\ UniqueIds(old)
<1>1. CASE old = <<>>
  BY <1>1, EmptyUnique
<1>2. CASE old = file /\ IsRules(file)
  <2>1. file \notin {Missing, Damaged}
    BY <1>2 DEF IsRules
  <2> QED BY <1>2, <2>1 DEF AllUnique, IsRules
<1> QED BY <1>1, <1>2 DEF Loads

LEMMA UniqueInvariance == Spec => []AllUnique
<1>1. Init => AllUnique
  <2> SUFFICES ASSUME Init PROVE AllUnique
    OBVIOUS
  <2>1. \A c \in Caller : call[c].root = <<>>
    BY DEF Init, Idle
  <2> QED BY <2>1, EmptyUnique DEF Init, AllUnique
<1>2. TypeOK /\ AllUnique /\ [Next]_vars => AllUnique'
  <2> SUFFICES ASSUME TypeOK, AllUnique, [Next]_vars PROVE AllUnique'
    OBVIOUS
  <2> USE DEF AllUnique
  <2>1. ASSUME NEW c \in Caller, NEW i, NEW old, NEW new, NEW l,
               Begin(c, i, old, new, l), UniqueIds(new)
        PROVE  AllUnique'
    <3>1. \A d \in Caller : call'[d].root = IF d = c THEN new ELSE call[d].root
      BY <2>1 DEF Begin, TypeOK
    <3> QED BY <2>1, <3>1 DEF Begin
  <2>2. ASSUME NEW c \in Caller, Change(c) PROVE AllUnique'
    <3>1. ASSUME NEW r \in Rule, AddRule(c, r) PROVE AllUnique'
      <4>1. PICK old \in Loads : /\ \A n \in DOMAIN old : old[n].id # r.id
                                /\ Begin(c, r.id, old, Append(old, r), "open")
        BY <3>1 DEF AddRule
      <4> QED BY <2>1, <4>1, LoadsUnique, AddEdits
    <3>2. ASSUME NEW r \in Rule, UpdateRule(c, r) PROVE AllUnique'
      <4>1. PICK old \in Loads : \E n \in DOMAIN old :
              IsFirst(old, n, r.id)
              /\ Begin(c, r.id, old, [old EXCEPT ![n] = r], "open")
        BY <3>2 DEF UpdateRule
      <4>2. PICK n \in DOMAIN old :
              /\ IsFirst(old, n, r.id)
              /\ Begin(c, r.id, old, [old EXCEPT ![n] = r], "open")
        BY <4>1
      <4>3. old[n].id = r.id
        BY <4>2 DEF IsFirst
      <4> QED BY <2>1, <4>2, <4>3, LoadsUnique, UpdateEdits
    <3>3. ASSUME NEW i \in Id, DeleteRule(c, i) PROVE AllUnique'
      <4>1. PICK old \in Loads : \E n \in DOMAIN old :
              IsFirst(old, n, i) /\ Begin(c, i, old, Without(old, n), "open")
        BY <3>3 DEF DeleteRule
      <4>2. PICK n \in DOMAIN old :
              IsFirst(old, n, i) /\ Begin(c, i, old, Without(old, n), "open")
        BY <4>1
      <4>3. old[n].id = i
        BY <4>2 DEF IsFirst
      <4> QED BY <2>1, <4>2, <4>3, LoadsUnique, DeleteEdits
    <3>4. ASSUME Reload(c) PROVE AllUnique'
      <4>1. PICK old \in Loads : Begin(c, NoId, old, old, "commit")
        BY <3>4 DEF Reload
      <4> QED BY <2>1, <4>1, LoadsUnique
    <3> QED BY <2>2, <3>1, <3>2, <3>3, <3>4 DEF Change
  <2>3. ASSUME NEW c \in Caller, Store(c) PROVE AllUnique'
    <3>1. ASSUME NEW l, Goto(c, l)
          PROVE  \A d \in Caller : call'[d].root = call[d].root
      BY <3>1 DEF Goto, TypeOK
    <3>2. ASSUME Return(c)
          PROVE  \A d \in Caller : UniqueIds(call'[d].root)
      BY <3>2, EmptyUnique DEF Return, TypeOK, Idle
    <3>3. CASE OpenTemp(c)
      BY <3>1, <3>3 DEF OpenTemp
    <3>4. CASE WriteTemp(c)
      <4>1. UniqueIds(call[c].root)
        OBVIOUS
      <4>2. /\ tmp' \in {Missing, Damaged, tmp, call[c].root}
            /\ file' \in {Missing, Damaged, file, call[c].root}
        BY <3>4 DEF WriteTemp
      <4>3. /\ tmp' \in {Missing, Damaged} \/ UniqueIds(tmp')
            /\ file' \in {Missing, Damaged} \/ UniqueIds(file')
        BY <4>1, <4>2
      <4> QED BY <3>1, <3>4, <4>3 DEF WriteTemp
    <3>5. CASE RemoveOld(c) \/ RenameTemp(c)
      BY <3>1, <3>5 DEF RemoveOld, RenameTemp
    <3>9. CASE CloseFails(c)
      BY <3>1, <3>9 DEF CloseFails
    <3>6. CASE OpenFails(c)
      BY <3>2, <3>6 DEF OpenFails
    <3>7. CASE WriteFails(c) \/ RemoveFails(c) \/ RenameFails(c)
      BY <3>2, <3>7 DEF WriteFails, RemoveFails, RenameFails, GiveUp
    <3>8. CASE Commit(c)
      BY <3>2, <3>8 DEF Commit
    <3> QED BY <2>3, <3>3, <3>4, <3>5, <3>6, <3>7, <3>8, <3>9 DEF Store
  <2>4. CASE Crash
    <3>1. \A d \in Caller : call'[d].root = <<>>
      BY <2>4 DEF Crash, Idle
    <3> QED BY <2>4, <3>1, EmptyUnique DEF Crash
  <2>5. CASE Boot
    BY <2>5, LoadsUnique DEF Boot
  <2>6. CASE UNCHANGED vars
    BY <2>6 DEF vars
  <2> QED BY <2>2, <2>3, <2>4, <2>5, <2>6 DEF Next
<1> QED BY <1>1, <1>2, TypeCorrect, PTL DEF Spec

\* No two rules of the router have the same id, however calls overlap: every
\* list there is comes from an initial file by edits that keep ids unique.
THEOREM IdsAreUnique == Spec => []OneRulePerId
<1>1. AllUnique => OneRulePerId
  BY DEF AllUnique, OneRulePerId
<1> QED BY <1>1, UniqueInvariance, PTL

-----------------------------------------------------------------------------
\* What file, temporary file and call have to do with the rules in memory,
\* as long as calls do not overlap and no file is misread.

OneCall == \A c, d \in Caller :
             call[c].pc # "idle" /\ call[d].pc # "idle" => c = d

Current == \/ file = rules
           \/ file = Missing /\ (rules = <<>> \/ unnamed)

Stage(c) ==
  LET k == call[c] IN
  /\ k.pc \in {"open", "write", "remove"} => Current
  /\ k.pc = "write" => tmp = Damaged
  /\ k.pc \in {"remove", "rename"} => tmp = k.root
  /\ k.pc = "rename" => file = Missing
  /\ k.pc = "commit" => file = k.root \/ (file = Missing /\ k.root = <<>>)
  /\ k.pc # "idle" /\ k.found => Others(k.root, k.id) = Others(rules, k.id)

MatchInv == ~ excused => OneCall /\ FileMatchesRules /\ \A c \in Caller : Stage(c)

LEMMA MatchInit == Init => MatchInv
BY DEF Init, MatchInv, OneCall, FileMatchesRules, Stage, Idle, Current

\* Beginning a call: the list that was read is the one in memory.
LEMMA BeginMatches ==
  ASSUME TypeOK, AllUnique, MatchInv, NEW c \in Caller, NEW i,
         NEW old \in Loads, NEW new, NEW l \in {"open", "commit"},
         Begin(c, i, old, new, l),
         UniqueIds(old) => Others(new, i) = Others(old, i),
         l = "commit" => new = old
  PROVE  MatchInv'
<1> SUFFICES ASSUME ~ excused' PROVE (OneCall /\ FileMatchesRules
                                     /\ \A d \in Caller : Stage(d))'
  BY DEF MatchInv
<1>1. /\ ~ excused /\ ~ Misread(old) /\ up
      /\ \A d \in Caller : call[d].pc = "idle"
      /\ UNCHANGED <<rules, up, file, tmp, unnamed>>
  BY DEF Begin, Alone
<1>2. Current /\ (old = file \/ file = Missing)
  BY <1>1 DEF MatchInv, FileMatchesRules, Quiet, Misread, Current
<1>3. /\ call'[c] = [pc |-> l, id |-> i, root |-> new, found |-> file = old]
      /\ \A d \in Caller \ {c} : call'[d].pc = "idle"
  BY <1>1 DEF Begin, TypeOK
<1>4. old \in Seq(Rule) /\ UniqueIds(old)
  BY LoadsUnique
<1>5. OneCall' /\ ~ Quiet'
  BY <1>3 DEF OneCall, Quiet
<1>6. ASSUME file = old PROVE Others(new, i) = Others(rules, i)
  <2>1. file # Missing
    BY <1>4, <1>6
  <2> QED BY <1>2, <1>4, <1>6, <2>1 DEF Current
<1>7. l = "commit" => file = new \/ (file = Missing /\ new = <<>>)
  <2>1. file = Missing => old = <<>>
    BY <1>4 DEF Loads, IsRules
  <2> QED BY <1>2, <2>1
<1>8. Stage(c)'
  <2>1. /\ call'[c].pc = l /\ call'[c].id = i /\ call'[c].root = new
        /\ call'[c].found => file = old
    <3> DEFINE k(b) == [pc |-> l, id |-> i, root |-> new, found |-> b]
    <3>1. \A b : k(b).pc = l /\ k(b).id = i /\ k(b).root = new /\ k(b).found = b
      OBVIOUS
    <3>2. call'[c] = k(file = old)
      BY <1>3
    <3> HIDE DEF k
    <3>3. call'[c].found = (file = old)
      BY <3>1, <3>2, Zenon
    <3>4. call'[c].pc = l
      BY <3>1, <3>2, Zenon
    <3>5. call'[c].id = i
      BY <3>1, <3>2, Zenon
    <3>6. call'[c].root = new
      BY <3>1, <3>2, Zenon
    <3>7. call'[c].found => file = old
      BY <3>3, Zenon
    <3> QED BY <3>4, <3>5, <3>6, <3>7, Zenon
  <2>2. call'[c].found => Others(new, i) = Others(rules, i)
    BY <2>1, <1>6
  <2> QED BY <1>1, <1>2, <1>7, <2>1, <2>2 DEF Stage, Current
<1>9. ASSUME NEW d \in Caller \ {c} PROVE Stage(d)'
  BY <1>3 DEF Stage
<1> QED BY <1>5, <1>8, <1>9 DEF FileMatchesRules

LEMMA ChangeMatches ==
  ASSUME TypeOK, AllUnique, MatchInv, NEW c \in Caller, Change(c)
  PROVE  MatchInv'
<1>1. ASSUME NEW r \in Rule, AddRule(c, r) PROVE MatchInv'
  <2>1. PICK old \in Loads : /\ \A n \in DOMAIN old : old[n].id # r.id
                            /\ Begin(c, r.id, old, Append(old, r), "open")
    BY <1>1 DEF AddRule
  <2>2. Others(Append(old, r), r.id) = Others(old, r.id)
    BY <2>1, LoadsUnique, AddEdits
  <2> QED BY <2>1, <2>2, BeginMatches
<1>2. ASSUME NEW r \in Rule, UpdateRule(c, r) PROVE MatchInv'
  <2>1. PICK old \in Loads : \E n \in DOMAIN old :
          IsFirst(old, n, r.id)
          /\ Begin(c, r.id, old, [old EXCEPT ![n] = r], "open")
    BY <1>2 DEF UpdateRule
  <2>2. PICK n \in DOMAIN old :
          /\ IsFirst(old, n, r.id)
          /\ Begin(c, r.id, old, [old EXCEPT ![n] = r], "open")
    BY <2>1
  <2>3. old[n].id = r.id
    BY <2>2 DEF IsFirst
  <2>4. Others([old EXCEPT ![n] = r], r.id) = Others(old, r.id)
    BY <2>3, LoadsUnique, UpdateEdits
  <2> QED BY <2>2, <2>4, BeginMatches
<1>3. ASSUME NEW i \in Id, DeleteRule(c, i) PROVE MatchInv'
  <2>1. PICK old \in Loads : \E n \in DOMAIN old :
          IsFirst(old, n, i) /\ Begin(c, i, old, Without(old, n), "open")
    BY <1>3 DEF DeleteRule
  <2>2. PICK n \in DOMAIN old :
          IsFirst(old, n, i) /\ Begin(c, i, old, Without(old, n), "open")
    BY <2>1
  <2>3. old[n].id = i
    BY <2>2 DEF IsFirst
  <2>4. Others(Without(old, n), i) = Others(old, i)
    BY <2>3, LoadsUnique, DeleteEdits
  <2> QED BY <2>2, <2>4, BeginMatches
<1>4. ASSUME Reload(c) PROVE MatchInv'
  <2>1. PICK old \in Loads : Begin(c, NoId, old, old, "commit")
    BY <1>4 DEF Reload
  <2> QED BY <2>1, BeginMatches
<1> QED BY <1>1, <1>2, <1>3, <1>4 DEF Change

LEMMA StoreMatches ==
  ASSUME TypeOK, MatchInv, NEW c \in Caller, Store(c)
  PROVE  MatchInv'
<1>1. /\ IF CloseFails(c) THEN excused' = TRUE ELSE excused' = excused
      /\ up' = up /\ call[c].pc # "idle"
  BY DEF Store, OpenTemp, OpenFails, WriteTemp, CloseFails, WriteFails,
         RemoveOld, RemoveFails, RenameTemp, RenameFails, Commit, GiveUp,
         history
<1> SUFFICES ASSUME ~ excused, ~ CloseFails(c)
             PROVE  (OneCall /\ FileMatchesRules /\ \A d \in Caller : Stage(d))'
  BY <1>1, Zenon DEF MatchInv
<1>2. /\ \A d \in Caller \ {c} : call[d].pc = "idle"
      /\ Stage(c) /\ Alone(c)
  BY <1>1 DEF MatchInv, OneCall, Alone
<1>3. ASSUME NEW l \in Pc \ {"idle"}, Goto(c, l), Stage(c)'
      PROVE  (OneCall /\ FileMatchesRules /\ \A d \in Caller : Stage(d))'
  <2>1. /\ call'[c].pc = l
        /\ \A d \in Caller \ {c} : call'[d].pc = "idle"
    BY <1>2, <1>3 DEF Goto, TypeOK
  <2>2. OneCall' /\ ~ Quiet' /\ \A d \in Caller \ {c} : Stage(d)'
    BY <2>1 DEF OneCall, Quiet, Stage, Pc
  <2> QED BY <1>3, <2>2 DEF FileMatchesRules
<1>4. ASSUME Return(c), Current'
      PROVE  (OneCall /\ FileMatchesRules /\ \A d \in Caller : Stage(d))'
  <2>1. \A d \in Caller : call'[d].pc = "idle"
    BY <1>2, <1>4 DEF Return, TypeOK, Idle
  <2> QED BY <1>4, <2>1 DEF OneCall, FileMatchesRules, Stage, Current
<1>5. ASSUME NEW l, Goto(c, l)
      PROVE  /\ call'[c].pc = l /\ call'[c].id = call[c].id
             /\ call'[c].root = call[c].root /\ call'[c].found = call[c].found
  BY <1>5 DEF Goto, TypeOK
<1>7. CASE OpenTemp(c)
  <2>1. Stage(c)'
    BY <1>2, <1>5, <1>7 DEF OpenTemp, Stage, Current, history
  <2> QED BY <1>3, <1>7, <2>1 DEF OpenTemp, Pc
<1>8. CASE WriteTemp(c)
  <2>1. tmp' = call[c].root /\ file' = file
    BY <1>2, <1>8 DEF WriteTemp, Stage
  <2>2. Stage(c)'
    BY <1>2, <1>5, <1>8, <2>1 DEF WriteTemp, Stage, Current, history
  <2> QED BY <1>3, <1>8, <2>2 DEF WriteTemp, Pc
<1>9. CASE RemoveOld(c)
  <2>1. Stage(c)'
    BY <1>2, <1>5, <1>9 DEF RemoveOld, Stage, Current, history
  <2> QED BY <1>3, <1>9, <2>1 DEF RemoveOld, Pc
<1>10. CASE RenameTemp(c)
  <2>1. Stage(c)'
    BY <1>2, <1>5, <1>10 DEF RenameTemp, Stage
  <2> QED BY <1>3, <1>10, <2>1 DEF RenameTemp, Pc
<1>11. CASE OpenFails(c)
  BY <1>2, <1>4, <1>11 DEF OpenFails, Stage, Current
<1>12. CASE WriteFails(c) \/ RemoveFails(c) \/ RenameFails(c)
  BY <1>2, <1>4, <1>12 DEF WriteFails, RemoveFails, RenameFails, GiveUp, Stage,
       Current
<1>13. CASE Commit(c)
  BY <1>2, <1>4, <1>13 DEF Commit, Stage, Current, history
<1> QED BY <1>7, <1>8, <1>9, <1>10, <1>11, <1>12, <1>13 DEF Store

LEMMA NextMatches ==
  ASSUME TypeOK, AllUnique, MatchInv, [Next]_vars
  PROVE  MatchInv'
<1>1. CASE Crash
  <2>1. ~ up' /\ \A c \in Caller : call'[c].pc = "idle"
    BY <1>1 DEF Crash, Idle
  <2> QED BY <2>1 DEF MatchInv, OneCall, FileMatchesRules, Stage
<1>2. CASE Boot
  <2>1. /\ \A c \in Caller : call'[c].pc = "idle"
        /\ ~ excused' => Current'
    <3>1. PICK old \in Loads : rules' = old /\ excused' = Misread(old)
      BY <1>2 DEF Boot
    <3>2. \A c \in Caller : call'[c].pc = "idle"
      BY <1>2 DEF Boot, TypeOK, Quiet
    <3>3. ~ excused' => old = file \/ (file = Missing /\ old = <<>>)
      BY <3>1 DEF Misread, Loads, IsRules
    <3> QED BY <1>2, <3>1, <3>2, <3>3 DEF Boot, Current
  <2> QED BY <2>1 DEF MatchInv, OneCall, FileMatchesRules, Stage, Current
<1>3. CASE UNCHANGED vars
  BY <1>3 DEF vars, MatchInv, OneCall, FileMatchesRules, Stage, Quiet, Current
<1> QED BY <1>1, <1>2, <1>3, ChangeMatches, StoreMatches DEF Next

LEMMA MatchInvariance == Spec => []MatchInv
<1>1. TypeOK /\ AllUnique /\ MatchInv /\ [Next]_vars => MatchInv'
  BY NextMatches
<1> QED BY <1>1, MatchInit, TypeCorrect, UniqueInvariance, PTL DEF Spec

-----------------------------------------------------------------------------
\* At rest the file is what the router runs, or is missing after a failed
\* rename or because there are no rules, after any sequence of calls, failures
\* and resets; not after calls that overlapped, a misread file or an fclose
\* whose failure the code does not notice.
THEOREM FileIsCurrent == Spec => []FileMatchesRules
<1>1. MatchInv => FileMatchesRules
  BY DEF MatchInv, FileMatchesRules
<1> QED BY <1>1, MatchInvariance, PTL

\* A call that found the file changes no rule but the one it names, until
\* calls overlap, a file is misread or an fclose fails.
THEOREM OthersAreKept == Spec => OtherRulesKept
<1>1. ASSUME TypeOK, MatchInv, NEW c \in Caller, Commit(c), ~ excused,
             call[c].found
      PROVE  Others(rules', call[c].id) = Others(rules, call[c].id)
  BY <1>1 DEF MatchInv, Stage, Commit
<1>2. TypeOK /\ MatchInv => \A c \in Caller :
        Commit(c) /\ ~ excused /\ call[c].found
          => Others(rules', call[c].id) = Others(rules, call[c].id)
  BY <1>1
<1> QED BY <1>2, TypeCorrect, MatchInvariance, PTL DEF OtherRulesKept

\* No step, and so no reset after any step, leaves a damaged rules file, as
\* long as calls do not overlap and no fclose fails, the failure the code
\* does not look for.
THEOREM FileStaysWhole == Spec => FileNotTorn
<1>1. ASSUME TypeOK, MatchInv, [Next]_vars, ~ excused, file # Damaged
      PROVE  file' # Damaged
  <2>1. CASE Crash \/ Boot \/ UNCHANGED vars
    BY <1>1, <2>1 DEF Crash, Boot, vars
  <2>2. ASSUME NEW c \in Caller, Change(c) PROVE file' # Damaged
    BY <1>1, <2>2 DEF Change, AddRule, UpdateRule, DeleteRule, Reload, Begin
  <2>3. ASSUME NEW c \in Caller, Store(c) PROVE file' # Damaged
    <3>1. call[c].pc # "idle" => Alone(c) /\ Stage(c)
      BY <1>1 DEF MatchInv, OneCall, Alone
    <3>2. call[c].root # Damaged
      BY <1>1 DEF TypeOK, IsRules
    <3>3. CASE WriteTemp(c)
      BY <1>1, <3>1, <3>3 DEF WriteTemp, Stage
    <3>4. CASE RemoveOld(c)
      BY <3>4 DEF RemoveOld
    <3>5. CASE RenameTemp(c)
      BY <3>1, <3>2, <3>5 DEF RenameTemp, Stage
    <3>7. CASE CloseFails(c)
      BY <1>1, <3>1, <3>7 DEF CloseFails
    <3>6. CASE OpenTemp(c) \/ OpenFails(c) \/ WriteFails(c) \/ RemoveFails(c)
               \/ RenameFails(c) \/ Commit(c)
      BY <1>1, <3>6 DEF OpenTemp, OpenFails, WriteFails, RemoveFails,
                        RenameFails, Commit, GiveUp
    <3> QED BY <2>3, <3>3, <3>4, <3>5, <3>6, <3>7 DEF Store
  <2> QED BY <1>1, <2>1, <2>2, <2>3 DEF Next
<1>2. TypeOK /\ MatchInv /\ [Next]_vars
        => (~ excused /\ file # Damaged => file' # Damaged)
  BY <1>1
<1> QED BY <1>2, TypeCorrect, MatchInvariance, PTL DEF Spec, FileNotTorn
=============================================================================
