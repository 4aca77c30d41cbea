--------------------------- MODULE SchedulerProofs -------------------------
(***************************************************************************)
(* Safety of the scheduler, proved for every set of entries and            *)
(* definitions and for any number of failed writes and crashes: no bound   *)
(* of the model-checked instance is used.                                  *)
(***************************************************************************)
EXTENDS Scheduler, TLAPS

USE ConstantsAssumption

-----------------------------------------------------------------------------
\* The helpers.

\* A next time is a time not past the end, or -1 for never.
LEMMA NextFireType ==
  ASSUME NEW item \in Item, NEW anchor \in Int, NEW runs \in Nat
  PROVE  /\ NextFire(item, anchor, runs) \in Int
         /\ item.end > 0 /\ NextFire(item, anchor, runs) > 0 =>
              NextFire(item, anchor, runs) <= item.end
         /\ item.maxRuns > 0 /\ NextFire(item, anchor, runs) > 0 =>
              runs < item.maxRuns
<1>1. /\ item.start \in Nat /\ item.interval \in Nat /\ item.end \in Nat
      /\ item.maxRuns \in Nat /\ item.kind \in {"once", "interval"}
  BY DEF ItemType
<1>2. item.kind # "once" => item.interval > 0
  BY <1>1 DEF Valid
<1>3. item.kind # "once" =>
        (anchor - item.start) \div item.interval \in Int
  BY <1>1, <1>2
<1>4. item.kind # "once" =>
        item.start + item.interval * ((anchor - item.start) \div item.interval + 1)
          \in Int
  BY <1>1, <1>3
<1> DEFINE t == IF item.maxRuns > 0 /\ runs >= item.maxRuns THEN -1
           ELSE IF item.kind = "once" THEN IF anchor >= item.start THEN -1 ELSE item.start
           ELSE IF item.start = 0 THEN anchor + item.interval
           ELSE IF anchor < item.start THEN item.start
           ELSE item.start + item.interval * ((anchor - item.start) \div item.interval + 1)
<1>5. t \in Int
  BY <1>1, <1>4
<1>6. NextFire(item, anchor, runs) = IF item.end > 0 /\ t > item.end THEN -1 ELSE t
  BY DEF NextFire
<1>7. item.maxRuns > 0 /\ t > 0 => runs < item.maxRuns
  BY <1>1
<1> HIDE DEF t
<1> QED BY <1>1, <1>5, <1>6, <1>7

\* An entry on its way: while an operation runs it may also be "running".
Draft == [item : Item, enabled : BOOLEAN, status : Status \cup {"running"},
          next : Int, last : Nat, runs : 0..MaxRunCount]

\* What ScheduledIsLegit asks of one entry.
Legit(e, valid) ==
  e.status = "scheduled" /\ e.next > 0 =>
    /\ e.enabled
    /\ e.item.maxRuns = 0 \/ e.runs < e.item.maxRuns
    /\ e.item.end = 0 \/ e.next <= e.item.end
    /\ valid \/ ~ NeedsTime(e.item)

\* The cases of a refresh, without its LET.
LEMMA RefreshCases ==
  ASSUME NEW e \in Draft, NEW anchor \in Int, NEW valid \in BOOLEAN
  PROVE  LET t == NextFire(e.item, anchor, e.runs) IN
         /\ ~ e.enabled =>
              Refresh(e, anchor, valid) = [e EXCEPT !.status = "disabled", !.next = -1]
         /\ e.enabled /\ e.status = "paused" => Refresh(e, anchor, valid) = e
         /\ e.enabled /\ e.status # "paused" /\ ~ valid /\ NeedsTime(e.item) =>
              Refresh(e, anchor, valid) = [e EXCEPT !.status = "scheduled", !.next = -1]
         /\ e.enabled /\ e.status # "paused" /\ (valid \/ ~ NeedsTime(e.item)) =>
              Refresh(e, anchor, valid) =
                [e EXCEPT !.next = t,
                          !.status = IF t < 0 THEN "completed" ELSE "scheduled"]
BY Zenon DEF Refresh

\* What a refresh may change: it keeps the definition and a pause, and an
\* entry that it leaves scheduled is legitimate.
LEMMA RefreshEntry ==
  ASSUME NEW e \in Draft, NEW anchor \in Int, NEW valid \in BOOLEAN
  PROVE  /\ Refresh(e, anchor, valid) \in Entry
         /\ Refresh(e, anchor, valid).item = e.item
         /\ Refresh(e, anchor, valid).enabled = e.enabled
         /\ e.enabled /\ e.status # "paused" => Legit(Refresh(e, anchor, valid), valid)
         /\ ~ e.enabled => Legit(Refresh(e, anchor, valid), valid)
         /\ e.enabled /\ e.status = "paused" => Refresh(e, anchor, valid) = e
<1> DEFINE t == NextFire(e.item, anchor, e.runs)
           new == Refresh(e, anchor, valid)
<1>1. /\ e.item \in Item /\ e.runs \in Nat /\ e.enabled \in BOOLEAN
  BY DEF Draft
<1>2. e.item.end \in Nat /\ e.item.maxRuns \in Nat
  BY <1>1 DEF ItemType
<1>3. /\ t \in Int
      /\ e.item.end > 0 /\ t > 0 => t <= e.item.end
      /\ e.item.maxRuns > 0 /\ t > 0 => e.runs < e.item.maxRuns
  BY <1>1, NextFireType
<1> HIDE DEF t
<1> SUFFICES /\ new \in Entry
             /\ new.item = e.item /\ new.enabled = e.enabled
             /\ e.enabled /\ e.status # "paused" => Legit(new, valid)
             /\ ~ e.enabled => Legit(new, valid)
             /\ e.enabled /\ e.status = "paused" => new = e
  OBVIOUS
<1> HIDE DEF new
<1>4. CASE ~ e.enabled
  <2> DEFINE s == "disabled"
             never == -1
             d == [e EXCEPT !.status = s, !.next = never]
  <2>1. new = d
    BY <1>4, RefreshCases DEF new
  <2>2. s \in Status /\ s = "disabled" /\ never \in Int /\ ~ never > 0
    BY DEF Status
  <2> HIDE DEF s, never
  <2>3. /\ d \in Entry /\ d.item = e.item /\ d.enabled = e.enabled
        /\ d.status = s /\ d.next = never
    BY <2>2 DEF Draft, Entry
  <2> HIDE DEF d
  <2> QED BY <1>4, <2>1, <2>2, <2>3 DEF Legit
<1>5. CASE e.enabled /\ e.status = "paused"
  <2>1. new = e
    BY <1>5, RefreshCases DEF new
  <2>2. e \in Entry
    BY <1>5 DEF Draft, Entry, Status
  <2> QED BY <1>5, <2>1, <2>2
<1>6. CASE e.enabled /\ e.status # "paused" /\ ~ valid /\ NeedsTime(e.item)
  <2> DEFINE s == "scheduled"
             never == -1
             d == [e EXCEPT !.status = s, !.next = never]
  <2>1. new = d
    BY <1>6, RefreshCases, Zenon DEF new
  <2>2. s \in Status /\ s = "scheduled" /\ never \in Int /\ ~ never > 0
    BY DEF Status
  <2> HIDE DEF s, never
  <2>3. /\ d \in Entry /\ d.item = e.item /\ d.enabled = e.enabled
        /\ d.status = s /\ d.next = never
    BY <2>2 DEF Draft, Entry
  <2> HIDE DEF d
  <2> QED BY <1>6, <2>1, <2>2, <2>3 DEF Legit
<1>7. CASE e.enabled /\ e.status # "paused" /\ (valid \/ ~ NeedsTime(e.item))
  <2> DEFINE s == IF t < 0 THEN "completed" ELSE "scheduled"
             d == [e EXCEPT !.next = t, !.status = s]
  <2>1. s \in Status
    BY DEF Status
  <2>2. new = d
    BY <1>7, RefreshCases DEF new, t
  <2> HIDE DEF s
  <2>3. /\ d \in Entry /\ d.item = e.item /\ d.enabled = e.enabled
        /\ d.next = t /\ d.runs = e.runs
    BY <1>3, <2>1 DEF Draft, Entry
  <2> HIDE DEF d
  <2>4. Legit(d, valid)
    BY <1>1, <1>2, <1>3, <1>7, <2>3 DEF Legit
  <2> QED BY <1>7, <2>2, <2>3, <2>4
<1> QED BY <1>4, <1>5, <1>6, <1>7

\* What publishing leaves: an entry that is not running, with the same
\* definition, and legitimate if it is scheduled.
Succeeds(new, old) == /\ new \in Entry /\ Legit(new, timeValid)
                      /\ new.item = old.item /\ new.enabled = old.enabled

LEMMA PublishEntry ==
  ASSUME NEW e \in Entry, NEW immediate \in BOOLEAN, NEW sent \in BOOLEAN,
         NEW now \in Nat, sent => e.runs < MaxRunCount, timeValid \in BOOLEAN
  PROVE  Succeeds(Publish(e, immediate, sent, now), e)
<1> DEFINE runs == IF sent THEN e.runs + 1 ELSE e.runs
           fired == [e EXCEPT !.status = "running", !.last = now, !.runs = runs]
           new == Publish(e, immediate, sent, now)
<1>1. runs \in 0..MaxRunCount
  BY DEF Entry
<1>2. new = IF ~ sent THEN [fired EXCEPT !.status = "error"]
            ELSE IF e.item.kind = "once"
                 THEN [fired EXCEPT !.next = -1, !.status = "completed"]
            ELSE Refresh(fired, Planned(e, immediate, now), timeValid)
  BY DEF Publish, Entry
<1> HIDE DEF runs
<1>3. /\ fired \in Draft /\ fired.item = e.item /\ fired.enabled = e.enabled
      /\ fired.status = "running"
  BY <1>1 DEF Entry, Draft
<1> HIDE DEF fired
<1> SUFFICES /\ new \in Entry /\ new.item = e.item /\ new.enabled = e.enabled
             /\ Legit(new, timeValid)
  BY DEF Succeeds
<1> HIDE DEF new
<1>4. CASE ~ sent
  <2> DEFINE d == [fired EXCEPT !.status = "error"]
  <2>1. new = d
    BY <1>2, <1>4
  <2>2. /\ d \in Entry /\ d.item = e.item /\ d.enabled = e.enabled
        /\ d.status = "error"
    BY <1>3 DEF Draft, Entry, Status
  <2> HIDE DEF d
  <2> QED BY <2>1, <2>2 DEF Legit
<1>5. CASE sent /\ e.item.kind = "once"
  <2> DEFINE never == -1
             d == [fired EXCEPT !.next = never, !.status = "completed"]
  <2>1. new = d
    BY <1>2, <1>5
  <2>2. never \in Int
    OBVIOUS
  <2> HIDE DEF never
  <2>3. /\ d \in Entry /\ d.item = e.item /\ d.enabled = e.enabled
        /\ d.status = "completed"
    BY <1>3, <2>2 DEF Draft, Entry, Status
  <2> HIDE DEF d
  <2> QED BY <2>1, <2>3 DEF Legit
<1>6. CASE sent /\ e.item.kind # "once"
  <2>1. new = Refresh(fired, Planned(e, immediate, now), timeValid)
    BY <1>2, <1>6
  <2>2. Planned(e, immediate, now) \in Int
    BY DEF Planned, Entry
  <2>3. e.enabled \in BOOLEAN
    BY DEF Entry
  <2> QED BY <1>3, <2>1, <2>2, <2>3, RefreshEntry
<1> QED BY <1>4, <1>5, <1>6

-----------------------------------------------------------------------------
\* The stores.

Entries == [Id -> Entry \cup {NoEntry}]

LEMMA StoresType ==
  ASSUME NEW es \in Entries
  PROVE  /\ DefsOf(es) \in [Id -> Definition \cup {NoEntry}]
         /\ StateOf(es) \in [Id -> RunState \cup {NoEntry}]
<1>1. \A i \in Id : DefsOf(es)[i] \in Definition \cup {NoEntry}
  BY DEF DefsOf, Entries, Entry, Definition
<1>2. \A i \in Id : StateOf(es)[i] \in RunState \cup {NoEntry}
  BY DEF StateOf, Entries, Entry, RunState
<1> QED BY <1>1, <1>2 DEF DefsOf, StateOf

\* What the disk and the fault count are after a save.
DiskType == /\ defs \in [Id -> Definition \cup {NoEntry}]
            /\ blob \in [Id -> RunState \cup {NoEntry}]
            /\ torn \in BOOLEAN /\ doubt \in BOOLEAN
            /\ faults \in 0..MaxFaults /\ crashes \in 0..MaxCrashes

LEMMA SaveDefsType ==
  ASSUME TypeOK, NEW es \in Entries, NEW saved \in BOOLEAN, SaveDefs(es, saved)
  PROVE  defs' \in [Id -> Definition \cup {NoEntry}] /\ torn' \in BOOLEAN
BY StoresType DEF TypeOK, SaveDefs

LEMMA SaveStateType ==
  ASSUME TypeOK, NEW es \in Entries, NEW saved \in BOOLEAN, SaveState(es, saved)
  PROVE  blob' \in [Id -> RunState \cup {NoEntry}] /\ doubt' \in BOOLEAN
<1>1. blob' = blob \/ blob' = StateOf(es) \/ blob' = [i \in Id |-> NoEntry]
  BY DEF SaveState, Empty
<1> QED BY <1>1, StoresType DEF TypeOK, SaveState

LEMMA CountType ==
  ASSUME NEW fault \in BOOLEAN
  PROVE  Count(fault) \in Nat
BY DEF Count

LEMMA FaultsType ==
  ASSUME TypeOK, NEW n \in Nat, Faults(n)
  PROVE  faults' \in 0..MaxFaults
BY DEF TypeOK, Faults

LEMMA PersistStateType ==
  ASSUME TypeOK, NEW es \in Entries, NEW saved \in BOOLEAN, PersistState(es, saved)
  PROVE  DiskType'
<1>1. blob' \in [Id -> RunState \cup {NoEntry}] /\ doubt' \in BOOLEAN
  BY SaveStateType DEF PersistState
<1>2. faults' \in 0..MaxFaults
  <2> DEFINE fault == ~ saved
             n == Count(fault)
  <2>1. n \in Nat
    BY CountType
  <2>2. Faults(n)
    BY DEF PersistState
  <2> HIDE DEF n
  <2> QED BY <2>1, <2>2, FaultsType
<1>3. UNCHANGED <<defs, torn, crashes>>
  BY DEF PersistState
<1> QED BY <1>1, <1>2, <1>3 DEF TypeOK, DiskType

LEMMA PersistAllType ==
  ASSUME TypeOK, NEW es \in Entries, NEW saved \in BOOLEAN, PersistAll(es, saved)
  PROVE  DiskType'
<1>1. crashes' \in 0..MaxCrashes
  BY DEF PersistAll, TypeOK
<1>2. CASE /\ SaveDefs(es, TRUE) /\ SaveState(es, saved)
           /\ Faults(Count(~ saved) + Count(torn'))
  <2>1. /\ defs' \in [Id -> Definition \cup {NoEntry}] /\ torn' \in BOOLEAN
        /\ blob' \in [Id -> RunState \cup {NoEntry}] /\ doubt' \in BOOLEAN
    BY <1>2, SaveDefsType, SaveStateType
  <2> DEFINE fault == ~ saved
             unnoticed == torn'
             n == Count(fault) + Count(unnoticed)
  <2>2. fault \in BOOLEAN /\ unnoticed \in BOOLEAN
    BY <2>1
  <2>3. Faults(n)
    BY <1>2
  <2> HIDE DEF fault, unnoticed
  <2>5. n \in Nat
    BY <2>2, CountType
  <2> HIDE DEF n
  <2>4. faults' \in 0..MaxFaults
    BY <2>3, <2>5, FaultsType
  <2> QED BY <1>1, <2>1, <2>4 DEF DiskType
<1>3. CASE SaveDefs(es, FALSE) /\ Faults(1) /\ UNCHANGED <<blob, doubt>>
  <2>1. defs' \in [Id -> Definition \cup {NoEntry}] /\ torn' \in BOOLEAN
    BY <1>3, SaveDefsType
  <2>2. faults' \in 0..MaxFaults
    BY <1>3, FaultsType
  <2> QED BY <1>1, <1>3, <2>1, <2>2 DEF DiskType, TypeOK
<1> QED BY <1>2, <1>3 DEF PersistAll

LEMMA ChangeType ==
  ASSUME TypeOK, NEW i \in Id, NEW es \in Entries, NEW saved \in BOOLEAN,
         Change(i, es, saved)
  PROVE  /\ entries' \in Entries /\ DiskType' /\ dirty' \subseteq Id
         /\ UNCHANGED <<up, clock, wall, timeValid, seen>>
<1>1. DiskType'
  BY PersistAllType DEF Change
<1>2. entries' \in Entries
  BY DEF TypeOK, Change, Entries
<1>3. dirty' \subseteq Id
  BY DEF TypeOK, Change
<1>4. UNCHANGED <<up, clock, wall, timeValid, seen>>
  BY DEF Change, time
<1> QED BY <1>1, <1>2, <1>3, <1>4

-----------------------------------------------------------------------------
\* The entries after each operation.

LEMMA EnabledType ==
  ASSUME TypeOK, NEW i \in Id, Present(i), NEW enabled \in BOOLEAN,
         NEW now \in seen
  PROVE  /\ Enabled(i, enabled, now) \in Entry
         /\ Enabled(i, enabled, now).item = entries[i].item
         /\ Enabled(i, enabled, now).enabled = enabled
         /\ Legit(Enabled(i, enabled, now), timeValid)
<1> DEFINE s == IF enabled THEN "scheduled" ELSE "disabled"
           d == [entries[i] EXCEPT !.enabled = enabled, !.status = s]
<1>1. entries[i] \in Entry
  BY DEF TypeOK, Present
<1>2. s \in Status /\ s # "paused"
  BY DEF Status
<1> HIDE DEF s
<1>3. /\ d \in Draft /\ d.item = entries[i].item /\ d.enabled = enabled
      /\ d.status # "paused"
  BY <1>1, <1>2 DEF Entry, Draft
<1>4. Enabled(i, enabled, now) = Refresh(d, now, timeValid)
  BY DEF Enabled, s
<1> HIDE DEF d
<1>5. now \in Int /\ timeValid \in BOOLEAN
  BY DEF TypeOK
<1> QED BY <1>3, <1>4, <1>5, RefreshEntry

\* A new definition of an entry.
LEMMA UpdatedType ==
  ASSUME TypeOK, NEW i \in Id, Present(i), NEW item \in Item, NEW enabled \in BOOLEAN,
         NEW now \in seen
  PROVE  LET e == [entries[i] EXCEPT !.item = item, !.enabled = enabled]
             new == IF e.status = "paused" THEN e ELSE Refresh(e, now, timeValid)
         IN  /\ new \in Entry
             /\ entries[i].status = "paused" => new.status = "paused"
             /\ Legit(new, timeValid)
<1> DEFINE e == [entries[i] EXCEPT !.item = item, !.enabled = enabled]
           new == IF e.status = "paused" THEN e ELSE Refresh(e, now, timeValid)
<1>1. entries[i] \in Entry
  BY DEF TypeOK, Present
<1>2. /\ e \in Entry /\ e \in Draft /\ e.enabled \in BOOLEAN
      /\ e.status = entries[i].status
  BY <1>1 DEF Entry, Draft
<1>3. now \in Int /\ timeValid \in BOOLEAN
  BY DEF TypeOK
<1> SUFFICES /\ new \in Entry
             /\ entries[i].status = "paused" => new.status = "paused"
             /\ Legit(new, timeValid)
  OBVIOUS
<1> HIDE DEF e
<1>4. CASE e.status = "paused"
  BY <1>2, <1>4 DEF Legit
<1>5. CASE e.status # "paused"
  <2>1. new = Refresh(e, now, timeValid)
    BY <1>5
  <2> HIDE DEF new
  <2> QED BY <1>2, <1>3, <1>5, <2>1, RefreshEntry
<1> QED BY <1>4, <1>5

LEMMA AddedType ==
  ASSUME TypeOK, NEW item \in Item, NEW enabled \in BOOLEAN, NEW now \in seen
  PROVE  LET e == [item |-> item, enabled |-> enabled, next |-> 0, last |-> 0,
                   runs |-> 0, status |-> IF enabled THEN "scheduled" ELSE "disabled"]
         IN  /\ Refresh(e, now, timeValid) \in Entry
             /\ Legit(Refresh(e, now, timeValid), timeValid)
<1> DEFINE s == IF enabled THEN "scheduled" ELSE "disabled"
           e == [item |-> item, enabled |-> enabled, next |-> 0, last |-> 0,
                 runs |-> 0, status |-> s]
<1>1. s \in Status /\ s # "paused"
  BY DEF Status
<1> HIDE DEF s
<1>2. e \in Draft /\ e.enabled \in BOOLEAN /\ e.status # "paused"
  BY <1>1 DEF Draft
<1>3. now \in Int /\ timeValid \in BOOLEAN
  BY DEF TypeOK
<1> HIDE DEF e
<1>4. /\ Refresh(e, now, timeValid) \in Entry
      /\ Legit(Refresh(e, now, timeValid), timeValid)
  BY <1>2, <1>3, RefreshEntry
<1> QED BY <1>4 DEF e, s

\* A paused entry.
LEMMA PausedType ==
  ASSUME NEW e \in Entry
  PROVE  LET new == [e EXCEPT !.status = "paused"] IN
         /\ new \in Entry /\ new.status = "paused"
         /\ new.item = e.item /\ new.enabled = e.enabled
BY DEF Entry, Status

\* A refresh of an entry as it is.
LEMMA RefreshedType ==
  ASSUME NEW e \in Entry, NEW anchor \in Int, NEW valid \in BOOLEAN,
         Legit(e, valid) \/ e.status # "paused"
  PROVE  /\ Refresh(e, anchor, valid) \in Entry
         /\ Refresh(e, anchor, valid).item = e.item
         /\ Refresh(e, anchor, valid).enabled = e.enabled
         /\ Legit(Refresh(e, anchor, valid), valid)
<1>1. e \in Draft /\ e.enabled \in BOOLEAN
  BY DEF Entry, Draft
<1> QED BY <1>1, RefreshEntry

-----------------------------------------------------------------------------
(***************************************************************************)
(* The inductive invariant.  A pause is safe because the blob says paused  *)
(* as long as the entry is in memory or can come back from the file, also  *)
(* after a definitions write that failed halfway, unless the last save of  *)
(* the state failed; then the memory still says paused, and the next save  *)
(* that succeeds repairs the blob.  And the memory never lacks an entry    *)
(* that the file has while its pause is believed: otherwise the next save  *)
(* of the state would forget it.                                           *)
(***************************************************************************)
LegitInv == \A i \in Id : Present(i) => Legit(entries[i], timeValid)

PauseInv == \A i \in held :
  /\ Present(i) => entries[i].status = "paused"
  /\ ~ doubt /\ (Present(i) \/ defs[i] # NoEntry) =>
       blob[i] # NoEntry /\ blob[i].status = "paused"
  /\ up /\ defs[i] # NoEntry => entries[i] # NoEntry

IInv == TypeOK /\ LegitInv /\ PauseInv /\ DefinitionsSaved

\* The definition part of two entries is the same, or both are absent.
SameDefinition(old, new) ==
  /\ old = NoEntry <=> new = NoEntry
  /\ old # NoEntry => new.item = old.item /\ new.enabled = old.enabled

\* What an operation on definitions needs: it touches one entry, leaves it
\* legitimate, and either saves a pause or lifts it.
LEMMA ChangeKeeps ==
  ASSUME IInv, NEW i \in Id, NEW es \in Entries, NEW saved \in BOOLEAN, up,
         Change(i, es, saved),
         \A j \in Id \ {i} : es[j] = entries[j],
         es[i] # NoEntry => Legit(es[i], timeValid),
         held' \subseteq held,
         i \in held' => /\ entries[i] # NoEntry
                        /\ saved /\ es[i] # NoEntry => es[i].status = "paused"
  PROVE  LegitInv' /\ PauseInv' /\ DefinitionsSaved'
<1> USE DEF IInv
<1>0. UNCHANGED <<up, timeValid>> /\ entries' = IF saved THEN es ELSE entries
  BY DEF Change, time
<1>1. LegitInv'
  <2> SUFFICES ASSUME NEW j \in Id, entries'[j] # NoEntry
               PROVE  Legit(entries'[j], timeValid)
    BY <1>0 DEF LegitInv, Present, Legit
  <2>1. CASE entries'[j] = entries[j]
    BY <2>1 DEF LegitInv, Present
  <2>2. CASE saved /\ j = i
    BY <1>0, <2>2
  <2> QED BY <1>0, <2>1, <2>2
<1>2. ASSUME NEW j \in held', saved
      PROVE  /\ Present(j)' => entries'[j].status = "paused"
             /\ ~ doubt' /\ (Present(j)' \/ defs'[j] # NoEntry) =>
                  blob'[j] # NoEntry /\ blob'[j].status = "paused"
             /\ up' /\ defs'[j] # NoEntry => entries'[j] # NoEntry
  <2>1. j \in Id /\ j \in held
    BY DEF TypeOK
  <2>2. /\ entries' = es /\ defs' = DefsOf(es) /\ blob' = StateOf(es)
    BY <1>0, <1>2 DEF Change, PersistAll, SaveDefs, SaveState
  <2>3. es[j] # NoEntry => es[j].status = "paused"
    BY <1>2, <2>1 DEF PauseInv, Present
  <2>4. defs'[j] # NoEntry => es[j] # NoEntry
    BY <2>1, <2>2 DEF DefsOf
  <2>5. es[j] # NoEntry => blob'[j] = [status |-> es[j].status, next |-> es[j].next,
                                       last |-> es[j].last, runs |-> es[j].runs]
    BY <2>1, <2>2 DEF StateOf
  <2>6. es[j] # NoEntry => blob'[j] # NoEntry
    BY <2>1, <2>2, StoresType, <2>5 DEF Entries, Entry, RunState
  <2> QED BY <2>2, <2>3, <2>4, <2>5, <2>6 DEF Present
<1>3. ASSUME NEW j \in held', ~ saved
      PROVE  /\ Present(j)' => entries'[j].status = "paused"
             /\ ~ doubt' /\ (Present(j)' \/ defs'[j] # NoEntry) =>
                  blob'[j] # NoEntry /\ blob'[j].status = "paused"
             /\ up' /\ defs'[j] # NoEntry => entries'[j] # NoEntry
  <2>1. j \in Id /\ j \in held
    BY DEF TypeOK
  <2>2. /\ entries' = entries /\ up' = up
        /\ doubt' = TRUE \/ (blob' = blob /\ doubt' = doubt)
    BY <1>0, <1>3 DEF Change, PersistAll, SaveState
  <2>3. defs' = defs \/ defs' = DefsOf(es)
    BY <1>3 DEF Change, PersistAll, SaveDefs
  <2>4. DefsOf(es)[j] # NoEntry => entries[j] # NoEntry
    BY <2>1 DEF DefsOf
  <2>5. defs'[j] # NoEntry => entries[j] # NoEntry
    BY <2>1, <2>3, <2>4 DEF PauseInv
  <2> QED BY <2>1, <2>2, <2>5 DEF PauseInv, Present
<1>4. PauseInv'
  BY <1>2, <1>3 DEF PauseInv
<1>5. DefinitionsSaved'
  <2>1. CASE saved
    BY <1>0, <2>1 DEF Change, PersistAll, SaveDefs, DefinitionsSaved
  <2>2. CASE ~ saved
    <3> SUFFICES ASSUME ~ torn', NEW j \in Id \ dirty'
                 PROVE  defs'[j] = DefsOf(entries)'[j]
      BY DEF DefinitionsSaved
    <3>1. j \in Id \ dirty /\ j # i /\ entries' = entries
      BY <1>0, <2>2 DEF Change
    <3>2. DefsOf(es)[j] = DefsOf(entries)[j] /\ DefsOf(entries)' = DefsOf(entries)
      BY <3>1 DEF DefsOf
    <3>3. CASE defs' = DefsOf(es)
      BY <3>2, <3>3
    <3>4. CASE UNCHANGED defs /\ torn' \in {torn, TRUE}
      BY <3>1, <3>2, <3>4 DEF DefinitionsSaved
    <3> QED BY <2>2, <3>3, <3>4 DEF Change, PersistAll, SaveDefs
  <2> QED BY <2>1, <2>2
<1> QED BY <1>1, <1>4, <1>5

\* What an operation on the runtime state needs: it keeps all definitions,
\* and whoever is held afterwards is paused.
LEMMA StateKeeps ==
  ASSUME IInv, up, up' = up, dirty' = dirty, NEW saved \in BOOLEAN,
         entries' \in Entries, NEW es \in Entries, PersistState(es, saved),
         saved => entries' = es,
         \A j \in Id : SameDefinition(entries[j], entries'[j]),
         \A j \in held' : /\ j \in held \/ (saved /\ entries'[j] # NoEntry)
                          /\ j \in Id
                          /\ entries'[j] # NoEntry => entries'[j].status = "paused"
  PROVE  PauseInv' /\ DefinitionsSaved'
<1> USE DEF IInv
<1>1. UNCHANGED <<defs, torn>>
  BY DEF PersistState
<1>2. DefinitionsSaved'
  <2> SUFFICES ASSUME ~ torn', NEW j \in Id \ dirty
               PROVE  defs'[j] = DefsOf(entries')[j]
    BY DEF DefinitionsSaved, DefsOf
  <2>1. DefsOf(entries')[j] = DefsOf(entries)[j]
    BY DEF DefsOf, SameDefinition
  <2> QED BY <1>1, <2>1 DEF DefinitionsSaved
<1>3. ASSUME NEW j \in held'
      PROVE  /\ Present(j)' => entries'[j].status = "paused"
             /\ ~ doubt' /\ (Present(j)' \/ defs'[j] # NoEntry) =>
                  blob'[j] # NoEntry /\ blob'[j].status = "paused"
             /\ up' /\ defs'[j] # NoEntry => entries'[j] # NoEntry
  <2>1. /\ j \in Id
        /\ entries'[j] # NoEntry => entries'[j].status = "paused"
    OBVIOUS
  <2>2. defs'[j] # NoEntry => entries'[j] # NoEntry
    BY <1>1, <2>1 DEF PauseInv, SameDefinition
  <2>3. CASE saved
    <3>1. blob' = StateOf(entries')
      BY <2>3 DEF PersistState, SaveState
    <3>2. entries'[j] # NoEntry =>
            blob'[j] = [status |-> entries'[j].status, next |-> entries'[j].next,
                        last |-> entries'[j].last, runs |-> entries'[j].runs]
      BY <2>1, <3>1 DEF StateOf
    <3>3. entries'[j] # NoEntry => blob'[j] # NoEntry
      BY <2>1, <3>2 DEF Entries, Entry, RunState
    <3> QED BY <2>1, <2>2, <3>2, <3>3 DEF Present
  <2>4. CASE ~ saved
    <3>1. doubt'
      BY <2>4 DEF PersistState, SaveState
    <3> QED BY <2>1, <2>2, <3>1 DEF Present
  <2> QED BY <2>3, <2>4
<1>4. PauseInv'
  BY <1>3 DEF PauseInv
<1> QED BY <1>2, <1>4

-----------------------------------------------------------------------------
\* The operations, one by one.

LEMMA AddStep ==
  ASSUME IInv, NEW i \in Id, NEW item \in Item, NEW enabled \in BOOLEAN,
         NEW now \in seen, NEW saved \in BOOLEAN,
         Add(i, item, enabled, now, saved)
  PROVE  IInv'
<1> USE DEF IInv
<1> DEFINE e == [item |-> item, enabled |-> enabled, next |-> 0, last |-> 0, runs |-> 0,
                 status |-> IF enabled THEN "scheduled" ELSE "disabled"]
           new == Refresh(e, now, timeValid)
           es == [entries EXCEPT ![i] = new]
<1>1. new \in Entry /\ Legit(new, timeValid)
  BY AddedType
<1>2. Change(i, es, saved) /\ lastSlot' = [lastSlot EXCEPT ![i] = 0] /\ held' = held \ {i} /\ up
      /\ excused' = excused \ {i}
  BY DEF Add
<1> HIDE DEF new
<1>3. /\ es \in Entries /\ es[i] = new
      /\ \A j \in Id \ {i} : es[j] = entries[j]
  BY <1>1 DEF TypeOK, Entries
<1> HIDE DEF es
<1>4. TypeOK'
  <2>1. /\ entries' \in Entries /\ DiskType' /\ dirty' \subseteq Id
        /\ UNCHANGED <<up, clock, wall, timeValid, seen>>
    BY <1>2, <1>3, ChangeType
  <2> QED BY <1>2, <2>1 DEF TypeOK, Entries, DiskType
<1> QED BY <1>1, <1>2, <1>3, <1>4, ChangeKeeps

LEMMA UpdateStep ==
  ASSUME IInv, NEW i \in Id, NEW item \in Item, NEW enabled \in BOOLEAN,
         NEW now \in seen, NEW saved \in BOOLEAN,
         Update(i, item, enabled, now, saved)
  PROVE  IInv'
<1> USE DEF IInv
<1> DEFINE e == [entries[i] EXCEPT !.item = item, !.enabled = enabled]
           new == IF e.status = "paused" THEN e ELSE Refresh(e, now, timeValid)
           es == [entries EXCEPT ![i] = new]
<1>1. /\ new \in Entry /\ Legit(new, timeValid)
      /\ entries[i].status = "paused" => new.status = "paused"
  BY UpdatedType DEF Update
<1>2. /\ Change(i, es, saved) /\ lastSlot' = [lastSlot EXCEPT ![i] = 0]
      /\ held' = held /\ excused' = excused \ {i} /\ Present(i)
  BY DEF Update
<1> HIDE DEF new
<1>3. /\ es \in Entries /\ es[i] = new
      /\ \A j \in Id \ {i} : es[j] = entries[j]
  BY <1>1 DEF TypeOK, Entries
<1> HIDE DEF es
<1>4. TypeOK'
  <2>1. /\ entries' \in Entries /\ DiskType' /\ dirty' \subseteq Id
        /\ UNCHANGED <<up, clock, wall, timeValid, seen>>
    BY <1>2, <1>3, ChangeType
  <2> QED BY <1>2, <2>1 DEF TypeOK, Entries, DiskType
<1>5. i \in held' => es[i].status = "paused"
  BY <1>1, <1>2, <1>3 DEF PauseInv
<1> QED BY <1>1, <1>2, <1>3, <1>4, <1>5, ChangeKeeps DEF Present

LEMMA RemoveStep ==
  ASSUME IInv, NEW i \in Id, NEW saved \in BOOLEAN, Remove(i, saved)
  PROVE  IInv'
<1> USE DEF IInv
<1> DEFINE es == [entries EXCEPT ![i] = NoEntry]
<1>1. /\ Change(i, es, saved) /\ Present(i)
      /\ held' = IF saved THEN held \ {i} ELSE held
      /\ lastSlot' = IF saved THEN [lastSlot EXCEPT ![i] = 0] ELSE lastSlot
      /\ excused' = IF saved THEN excused \ {i} ELSE excused
  BY DEF Remove
<1>2. /\ es \in Entries /\ es[i] = NoEntry
      /\ \A j \in Id \ {i} : es[j] = entries[j]
  BY DEF TypeOK, Entries
<1> HIDE DEF es
<1>3. TypeOK'
  <2>1. /\ entries' \in Entries /\ DiskType' /\ dirty' \subseteq Id
        /\ UNCHANGED <<up, clock, wall, timeValid, seen>>
    BY <1>1, <1>2, ChangeType
  <2>2. /\ held' \subseteq Id /\ excused' \subseteq Id
        /\ lastSlot' \in [Id -> Nat]
    BY <1>1 DEF TypeOK
  <2> QED BY <2>1, <2>2 DEF TypeOK, Entries, DiskType
<1> QED BY <1>1, <1>2, <1>3, ChangeKeeps DEF Present

LEMMA EnableStep ==
  ASSUME IInv, NEW i \in Id, NEW enabled \in BOOLEAN, NEW now \in seen,
         NEW saved \in BOOLEAN, Enable(i, enabled, now, saved)
  PROVE  IInv'
<1> USE DEF IInv
<1> DEFINE new == Enabled(i, enabled, now)
           es == [entries EXCEPT ![i] = new]
<1>1. new \in Entry /\ Legit(new, timeValid)
  BY EnabledType DEF Enable
<1>2. /\ Change(i, es, saved) /\ lastSlot' = lastSlot /\ Present(i)
      /\ held' = IF saved THEN held \ {i} ELSE held
      /\ excused' = excused \/ excused' = excused \cup {i}
  BY DEF Enable
<1> HIDE DEF new
<1>3. /\ es \in Entries /\ es[i] = new
      /\ \A j \in Id \ {i} : es[j] = entries[j]
  BY <1>1 DEF TypeOK, Entries
<1> HIDE DEF es
<1>4. TypeOK'
  <2>1. /\ entries' \in Entries /\ DiskType' /\ dirty' \subseteq Id
        /\ UNCHANGED <<up, clock, wall, timeValid, seen>>
    BY <1>2, <1>3, ChangeType
  <2> QED BY <1>2, <2>1 DEF TypeOK, Entries, DiskType
<1>5. i \in held' => ~ saved
  BY <1>2
<1> QED BY <1>1, <1>2, <1>3, <1>4, <1>5, ChangeKeeps DEF Present

LEMMA PauseStep ==
  ASSUME IInv, NEW i \in Id, NEW saved \in BOOLEAN, Pause(i, saved)
  PROVE  IInv'
<1> USE DEF IInv
<1> DEFINE new == [entries[i] EXCEPT !.status = "paused"]
           es == [entries EXCEPT ![i] = new]
<1>1. entries[i] \in Entry /\ entries[i] # NoEntry /\ up
  BY DEF Pause, Present, TypeOK
<1>2. /\ new \in Entry /\ new.status = "paused"
      /\ new.item = entries[i].item /\ new.enabled = entries[i].enabled
  BY <1>1, PausedType
<1>3. /\ PersistState(es, saved)
      /\ entries' = IF saved THEN es ELSE entries
      /\ held' = IF saved THEN held \cup {i} ELSE held
      /\ UNCHANGED <<up, time, dirty, lastSlot, excused>>
  BY <1>1 DEF Pause
<1> HIDE DEF new
<1>4. /\ es \in Entries /\ es[i] = new /\ new # NoEntry
      /\ \A j \in Id \ {i} : es[j] = entries[j]
  BY <1>2 DEF TypeOK, Entries
<1> HIDE DEF es
<1>5. entries' \in Entries
  BY <1>3, <1>4 DEF TypeOK, Entries
<1>6. TypeOK'
  <2>1. DiskType'
    BY <1>3, <1>4, PersistStateType
  <2>2. held' \subseteq Id
    BY <1>3 DEF TypeOK
  <2> QED BY <1>3, <1>5, <2>1, <2>2 DEF TypeOK, Entries, DiskType, time
<1>7. LegitInv'
  <2>1. Legit(new, timeValid)
    BY <1>2 DEF Legit
  <2>2. \A j \in Id : entries'[j] = entries[j] \/ entries'[j] = new
    BY <1>3, <1>4
  <2> QED BY <1>1, <1>3, <2>1, <2>2 DEF LegitInv, Present, Legit, time
<1>8. \A j \in Id : SameDefinition(entries[j], entries'[j])
  BY <1>1, <1>2, <1>3, <1>4 DEF SameDefinition
<1>9. \A j \in held' : /\ j \in held \/ (saved /\ entries'[j] # NoEntry)
                       /\ j \in Id
                       /\ entries'[j] # NoEntry => entries'[j].status = "paused"
  BY <1>1, <1>2, <1>3, <1>4 DEF TypeOK, PauseInv, Present
<1>10. PauseInv' /\ DefinitionsSaved'
  BY <1>1, <1>3, <1>4, <1>5, <1>8, <1>9, StateKeeps
<1> QED BY <1>6, <1>7, <1>10

LEMMA ResumeStep ==
  ASSUME IInv, NEW i \in Id, NEW now \in seen, NEW saved \in BOOLEAN,
         Resume(i, now, saved)
  PROVE  IInv'
<1> USE DEF IInv
<1> DEFINE new == Refresh(entries[i], now, timeValid)
           es == [entries EXCEPT ![i] = new]
<1>1. entries[i] \in Entry /\ entries[i] # NoEntry /\ up
  BY DEF Resume, Present, TypeOK
<1>2. /\ new \in Entry /\ Legit(new, timeValid)
      /\ new.item = entries[i].item /\ new.enabled = entries[i].enabled
  <2>1. now \in Int /\ timeValid \in BOOLEAN /\ Legit(entries[i], timeValid)
    BY <1>1 DEF TypeOK, LegitInv, Present
  <2> QED BY <1>1, <2>1, RefreshedType
<1>3. /\ PersistState(es, saved)
      /\ entries' = IF saved THEN es ELSE entries
      /\ held' = held \ {i}
      /\ excused' = excused \/ excused' = excused \cup {i}
      /\ UNCHANGED <<up, time, dirty, lastSlot>>
  BY <1>1 DEF Resume
<1> HIDE DEF new
<1>4. /\ es \in Entries /\ es[i] = new /\ new # NoEntry
      /\ \A j \in Id \ {i} : es[j] = entries[j]
  BY <1>2 DEF TypeOK, Entries
<1> HIDE DEF es
<1>5. entries' \in Entries
  BY <1>3, <1>4 DEF TypeOK, Entries
<1>6. TypeOK'
  <2>1. DiskType'
    BY <1>3, <1>4, PersistStateType
  <2> QED BY <1>3, <1>5, <2>1 DEF TypeOK, Entries, DiskType, time
<1>7. LegitInv'
  <2>1. \A j \in Id : entries'[j] = entries[j] \/ entries'[j] = new
    BY <1>3, <1>4
  <2> QED BY <1>1, <1>2, <1>3, <2>1 DEF LegitInv, Present, Legit, time
<1>8. \A j \in Id : SameDefinition(entries[j], entries'[j])
  BY <1>1, <1>2, <1>3, <1>4 DEF SameDefinition
<1>9. \A j \in held' : /\ j \in held \/ (saved /\ entries'[j] # NoEntry)
                       /\ j \in Id
                       /\ entries'[j] # NoEntry => entries'[j].status = "paused"
  BY <1>1, <1>3, <1>4 DEF TypeOK, PauseInv, Present
<1>10. PauseInv' /\ DefinitionsSaved'
  BY <1>1, <1>3, <1>4, <1>5, <1>8, <1>9, StateKeeps
<1> QED BY <1>6, <1>7, <1>10

LEMMA TriggerNowStep ==
  ASSUME IInv, NEW i \in Id, NEW sent \in BOOLEAN, NEW saved \in BOOLEAN,
         TriggerNow(i, sent, saved)
  PROVE  IInv'
<1> USE DEF IInv
<1> DEFINE new == Publish(entries[i], TRUE, sent, clock)
<1>1. entries[i] \in Entry /\ entries[i] # NoEntry /\ up
  BY DEF TriggerNow, Present, TypeOK
<1>2. /\ new \in Entry /\ Legit(new, timeValid)
      /\ new.item = entries[i].item /\ new.enabled = entries[i].enabled
  <2>1. clock \in Nat /\ timeValid \in BOOLEAN /\ entries[i].runs < MaxRunCount
    BY <1>1 DEF TypeOK, TriggerNow
  <2>2. Succeeds(new, entries[i])
    BY <1>1, <2>1, PublishEntry
  <2> QED BY <2>2 DEF Succeeds
<1>3. /\ PersistState(entries', saved)
      /\ entries' = [entries EXCEPT ![i] = new]
      /\ held' = held \ {i}
      /\ excused' = IF timeValid THEN excused ELSE excused \cup {i}
      /\ UNCHANGED <<up, time, dirty, lastSlot>>
  BY <1>1 DEF TriggerNow
<1> HIDE DEF new
<1>4. /\ entries' \in Entries /\ entries'[i] = new /\ new # NoEntry
      /\ \A j \in Id \ {i} : entries'[j] = entries[j]
  BY <1>2, <1>3 DEF TypeOK, Entries
<1>5. TypeOK'
  <2>1. DiskType'
    BY <1>3, <1>4, PersistStateType
  <2>2. excused' \subseteq Id
    BY <1>3 DEF TypeOK
  <2> QED BY <1>3, <1>4, <2>1, <2>2 DEF TypeOK, Entries, DiskType, time
<1>6. LegitInv'
  BY <1>1, <1>2, <1>3, <1>4 DEF LegitInv, Present, Legit, time
<1>7. \A j \in Id : SameDefinition(entries[j], entries'[j])
  BY <1>1, <1>2, <1>4 DEF SameDefinition
<1>8. \A j \in held' : /\ j \in held
                       /\ j \in Id
                       /\ entries'[j] # NoEntry => entries'[j].status = "paused"
  BY <1>1, <1>3, <1>4 DEF TypeOK, PauseInv, Present
<1>9. PauseInv' /\ DefinitionsSaved'
  BY <1>1, <1>3, <1>4, <1>7, <1>8, StateKeeps
<1> QED BY <1>5, <1>6, <1>9

LEMMA FireDueStep ==
  ASSUME IInv, NEW sent \in SUBSET Id, NEW now \in seen, NEW saved \in BOOLEAN,
         FireDue(sent, now, saved)
  PROVE  IInv'
<1> USE DEF IInv
<1>1. up
  BY DEF FireDue, Due, Present
<1>2. /\ entries' = [j \in Id |->
           IF j \in Missed(now) THEN Refresh(entries[j], now, timeValid)
           ELSE IF j \in Due(now) THEN Publish(entries[j], FALSE, j \in sent, now)
           ELSE entries[j]]
      /\ PersistState(entries', saved)
      /\ lastSlot' = [j \in Id |-> IF j \in sent THEN entries[j].next ELSE lastSlot[j]]
      /\ excused' = IF saved THEN excused \ sent ELSE excused \cup sent
      /\ UNCHANGED <<up, time, held, dirty>>
      /\ sent \subseteq Due(now)
  BY DEF FireDue
<1>3. \A j \in Due(now) : /\ j \in Id /\ entries[j] \in Entry /\ entries[j] # NoEntry
                     /\ entries[j].status # "paused" /\ entries[j].next > 0
  BY DEF Due, Present, TypeOK
<1>4. Missed(now) \subseteq Due(now)
  BY DEF Missed
<1>5. now \in Nat /\ now \in Int /\ timeValid \in BOOLEAN
  BY DEF TypeOK
<1>6. ASSUME NEW j \in Id
      PROVE  /\ entries'[j] \in Entry \cup {NoEntry}
             /\ SameDefinition(entries[j], entries'[j])
             /\ entries'[j] # NoEntry => Legit(entries'[j], timeValid)
             /\ j \notin Due(now) => entries'[j] = entries[j]
  <2>1. CASE j \in Missed(now)
    <3>1. j \in Due(now) /\ entries'[j] = Refresh(entries[j], now, timeValid)
      BY <1>2, <1>4, <2>1
    <3> QED BY <1>3, <1>5, <3>1, RefreshedType DEF SameDefinition
  <2>2. CASE j \in Due(now) \ Missed(now)
    <3> DEFINE ok == j \in sent
    <3>1. entries'[j] = Publish(entries[j], FALSE, ok, now)
      BY <1>2, <2>2
    <3>2. ok \in BOOLEAN /\ (ok => entries[j].runs < MaxRunCount)
      BY DEF FireDue
    <3> HIDE DEF ok
    <3>3. entries[j] \in Entry /\ entries[j] # NoEntry /\ FALSE \in BOOLEAN
      BY <1>3, <2>2
    <3>4. Succeeds(Publish(entries[j], FALSE, ok, now), entries[j])
      BY <1>5, <3>2, <3>3, PublishEntry, Zenon
    <3> QED BY <2>2, <3>1, <3>3, <3>4 DEF SameDefinition, Succeeds
  <2>3. CASE j \notin Due(now)
    <3>1. entries'[j] = entries[j]
      BY <1>2, <1>4, <2>3
    <3> QED BY <1>1, <2>3, <3>1 DEF SameDefinition, LegitInv, Present, TypeOK
  <2> QED BY <2>1, <2>2, <2>3
<1>7. entries' \in Entries
  <2>1. entries' = [j \in Id |-> entries'[j]]
    BY <1>2
  <2> QED BY <1>6, <2>1 DEF Entries
<1>8. TypeOK'
  <2>1. DiskType'
    BY <1>2, <1>7, PersistStateType
  <2>2. lastSlot' \in [Id -> Nat]
    <3>1. \A j \in Due(now) : entries[j].next \in Nat
      BY <1>3 DEF Entry
    <3> QED BY <1>2, <3>1 DEF TypeOK
  <2>3. excused' \subseteq Id
    BY <1>2 DEF TypeOK
  <2> QED BY <1>2, <1>7, <2>1, <2>2, <2>3 DEF TypeOK, Entries, DiskType, time
<1>9. LegitInv'
  BY <1>2, <1>6 DEF LegitInv, Present, Legit, time
<1>10. \A j \in held' : /\ j \in held /\ j \in Id
                        /\ entries'[j] # NoEntry => entries'[j].status = "paused"
  BY <1>1, <1>2, <1>3, <1>6 DEF TypeOK, PauseInv, Present
<1>11. PauseInv' /\ DefinitionsSaved'
  BY <1>1, <1>2, <1>6, <1>7, <1>10, StateKeeps
<1> QED BY <1>8, <1>9, <1>11

\* What the stores give back of an entry.
LEMMA LoadedType ==
  ASSUME TypeOK, NEW i \in Id, NEW read \in BOOLEAN
  PROVE  /\ Loaded(read)[i] = NoEntry <=> defs[i] = NoEntry
         /\ defs[i] # NoEntry =>
              /\ Loaded(read)[i] \in Entry /\ Loaded(read)[i] # NoEntry
              /\ Loaded(read)[i].item = defs[i].item /\ Loaded(read)[i].enabled = defs[i].enabled
              /\ read /\ blob[i] # NoEntry => Loaded(read)[i].status = blob[i].status
<1>1. CASE defs[i] = NoEntry
  BY <1>1 DEF Loaded
<1>2. CASE defs[i] # NoEntry
  <2> DEFINE s == IF read /\ blob[i] # NoEntry THEN blob[i]
                  ELSE [status |-> IF defs[i].enabled THEN "scheduled" ELSE "disabled",
                        next |-> -1, last |-> 0, runs |-> 0]
  <2>1. /\ s.status \in Status /\ s.next \in Int /\ s.last \in Nat
        /\ s.runs \in 0..MaxRunCount
        /\ read /\ blob[i] # NoEntry => s.status = blob[i].status
    BY DEF TypeOK, RunState, Status
  <2>2. defs[i].item \in Item /\ defs[i].enabled \in BOOLEAN
    BY <1>2 DEF TypeOK, Definition
  <2>3. Loaded(read)[i] = [item |-> defs[i].item, enabled |-> defs[i].enabled,
                     status |-> s.status, next |-> s.next, last |-> s.last,
                     runs |-> s.runs]
    BY <1>2 DEF Loaded
  <2> HIDE DEF s
  <2>4. Loaded(read)[i] \in Entry
    BY <2>1, <2>2, <2>3 DEF Entry
  <2>5. Loaded(read)[i] # NoEntry
    BY <2>4
  <2> QED BY <1>2, <2>1, <2>3, <2>4, <2>5
<1> QED BY <1>1, <1>2

LEMMA LoadStep ==
  ASSUME IInv, NEW read \in BOOLEAN, NEW defsSaved \in BOOLEAN,
         NEW stateSaved \in BOOLEAN, Load(read, defsSaved, stateSaved), up' = TRUE
  PROVE  IInv'
<1> USE DEF IInv
<1> DEFINE from == Loaded(read)
           anchor(j) == IF from[j].last > 0 THEN from[j].last ELSE clock
<1>1. /\ ~ torn
      /\ entries' = [j \in Id |->
           IF from[j] = NoEntry \/ from[j].status = "paused" THEN from[j]
           ELSE Refresh(from[j], anchor(j), timeValid)]
      /\ SaveDefs(entries', defsSaved) /\ SaveState(entries', stateSaved)
      /\ held' = IF read /\ ~ doubt THEN held ELSE {}
      /\ dirty' = IF defsSaved THEN {} ELSE dirty
      /\ UNCHANGED <<time, crashes, lastSlot, excused>>
  BY DEF Load
<1>0. \A j \in Id :
        /\ from[j] = NoEntry <=> defs[j] = NoEntry
        /\ defs[j] # NoEntry =>
              /\ from[j] \in Entry /\ from[j] # NoEntry
              /\ from[j].item = defs[j].item /\ from[j].enabled = defs[j].enabled
              /\ read /\ blob[j] # NoEntry => from[j].status = blob[j].status
  BY LoadedType
<1> HIDE DEF from
<1>2. clock \in Int /\ timeValid \in BOOLEAN
  BY DEF TypeOK
<1>3. ASSUME NEW j \in Id
      PROVE  /\ entries'[j] \in Entry \cup {NoEntry}
             /\ SameDefinition(defs[j], entries'[j])
             /\ entries'[j] # NoEntry => Legit(entries'[j], timeValid)
             /\ defs[j] # NoEntry /\ from[j].status = "paused" =>
                  entries'[j].status = "paused"
  <2>1. CASE defs[j] = NoEntry
    <3>1. entries'[j] = NoEntry
      BY <1>0, <1>1, <2>1
    <3> QED BY <2>1, <3>1 DEF SameDefinition
  <2>2. CASE defs[j] # NoEntry /\ from[j].status = "paused"
    <3>1. entries'[j] = from[j]
      BY <1>1, <2>2
    <3> QED BY <1>0, <2>2, <3>1 DEF SameDefinition, Legit
  <2>3. CASE defs[j] # NoEntry /\ from[j].status # "paused"
    <3>1. /\ from[j] \in Entry /\ from[j] # NoEntry
          /\ from[j].item = defs[j].item /\ from[j].enabled = defs[j].enabled
      BY <1>0, <2>3
    <3>2. entries'[j] = Refresh(from[j], anchor(j), timeValid)
      BY <1>1, <2>3, <3>1
    <3>3. anchor(j) \in Int
      BY <1>2, <3>1 DEF Entry
    <3> HIDE DEF anchor
    <3> QED BY <1>2, <2>3, <3>1, <3>2, <3>3, RefreshedType DEF SameDefinition
  <2> QED BY <2>1, <2>2, <2>3
<1>4. entries' \in Entries
  <2>1. entries' = [j \in Id |-> entries'[j]]
    BY <1>1
  <2> QED BY <1>3, <2>1 DEF Entries
<1>5. TypeOK'
  <2>1. DiskType'
    <3> DEFINE b1 == ~ read
               b2 == ~ defsSaved \/ torn'
               b3 == ~ stateSaved
               n == Count(b1) + Count(b2) + Count(b3)
    <3>1. /\ defs' \in [Id -> Definition \cup {NoEntry}] /\ torn' \in BOOLEAN
          /\ blob' \in [Id -> RunState \cup {NoEntry}] /\ doubt' \in BOOLEAN
      BY <1>1, <1>4, SaveDefsType, SaveStateType
    <3>2. b1 \in BOOLEAN /\ b2 \in BOOLEAN /\ b3 \in BOOLEAN
      BY <3>1
    <3>3. Faults(n)
      BY DEF Load
    <3> HIDE DEF b1, b2, b3
    <3>4. n \in Nat
      BY <3>2, CountType
    <3> HIDE DEF n
    <3>5. faults' \in 0..MaxFaults
      BY <3>3, <3>4, FaultsType
    <3> QED BY <1>1, <3>1, <3>5 DEF DiskType, TypeOK
  <2>2. dirty' \subseteq Id /\ held' \subseteq Id
    BY <1>1 DEF TypeOK
  <2> QED BY <1>1, <1>4, <2>1, <2>2 DEF TypeOK, Entries, DiskType, time
<1>6. LegitInv'
  BY <1>1, <1>3 DEF LegitInv, Present, Legit, time
<1>7. \A j \in Id : DefsOf(entries')[j] = defs[j]
  <2> TAKE j \in Id
  <2>1. CASE defs[j] = NoEntry
    BY <1>3, <2>1 DEF DefsOf, SameDefinition
  <2>2. CASE defs[j] # NoEntry
    <3>1. defs[j] \in Definition
      BY <2>2 DEF TypeOK
    <3>2. defs[j] = [item |-> defs[j].item, enabled |-> defs[j].enabled]
      BY <3>1 DEF Definition
    <3> QED BY <1>3, <2>2, <3>2 DEF DefsOf, SameDefinition
  <2> QED BY <2>1, <2>2
<1>8. \A j \in Id : defs'[j] = defs[j]
  BY <1>1, <1>7 DEF SaveDefs
<1>9. PauseInv'
  <2> SUFFICES ASSUME NEW j \in held, read, ~ doubt
               PROVE  /\ entries'[j] # NoEntry => entries'[j].status = "paused"
                      /\ ~ doubt' /\ (entries'[j] # NoEntry \/ defs'[j] # NoEntry) =>
                           blob'[j] # NoEntry /\ blob'[j].status = "paused"
                      /\ defs'[j] # NoEntry => entries'[j] # NoEntry
    BY <1>1 DEF PauseInv, Present
  <2>1. j \in Id
    BY DEF TypeOK
  <2>2. entries'[j] # NoEntry <=> defs[j] # NoEntry
    BY <1>3, <2>1 DEF SameDefinition
  <2>3. defs[j] # NoEntry => blob[j] # NoEntry /\ blob[j].status = "paused"
    BY DEF PauseInv
  <2>4. defs[j] # NoEntry => entries'[j].status = "paused"
    BY <1>0, <1>3, <2>1, <2>3
  <2>5. CASE stateSaved
    <3>1. blob' = StateOf(entries')
      BY <1>1, <2>5 DEF SaveState
    <3>2. entries'[j] # NoEntry =>
            blob'[j] = [status |-> entries'[j].status, next |-> entries'[j].next,
                        last |-> entries'[j].last, runs |-> entries'[j].runs]
      BY <2>1, <3>1 DEF StateOf
    <3>3. entries'[j] # NoEntry => blob'[j] # NoEntry
      BY <2>1, <3>2, <1>4 DEF Entries, Entry, RunState
    <3> QED BY <1>8, <2>1, <2>2, <2>4, <3>2, <3>3
  <2>6. CASE ~ stateSaved
    <3>1. doubt'
      BY <1>1, <2>6 DEF SaveState
    <3> QED BY <1>8, <2>1, <2>2, <2>4, <3>1
  <2> QED BY <2>5, <2>6
<1>10. DefinitionsSaved'
  BY <1>7, <1>8 DEF DefinitionsSaved, DefsOf
<1> QED BY <1>5, <1>6, <1>9, <1>10

LEMMA SyncStep ==
  ASSUME IInv, NEW saved \in BOOLEAN, Sync(saved)
  PROVE  IInv'
<1> USE DEF IInv
<1> DEFINE e(j) == IF NeedsTime(entries[j].item) \/ entries[j].item.kind = "once"
                   THEN entries[j] ELSE [entries[j] EXCEPT !.last = 0, !.next = -1]
<1>1. /\ up /\ timeValid' = TRUE /\ clock' = wall /\ seen' = seen \cup {wall}
      /\ entries' = [j \in Id |->
           IF entries[j] = NoEntry THEN NoEntry
           ELSE IF e(j).status = "paused" THEN e(j) ELSE Refresh(e(j), wall, TRUE)]
      /\ PersistState(entries', saved)
      /\ UNCHANGED <<up, wall, held, dirty, lastSlot, excused>>
  BY DEF Sync
<1>2. wall \in Nat /\ wall \in 0..MaxWall /\ wall \in Int
  BY DEF TypeOK
<1>3. ASSUME NEW j \in Id, entries[j] # NoEntry
      PROVE  /\ e(j) \in Entry /\ e(j).status = entries[j].status
             /\ e(j).item = entries[j].item /\ e(j).enabled = entries[j].enabled
  <2>1. entries[j] \in Entry
    BY <1>3 DEF TypeOK
  <2> DEFINE never == -1
             d == [entries[j] EXCEPT !.last = 0, !.next = never]
  <2>2. never \in Int
    OBVIOUS
  <2>3. e(j) = entries[j] \/ e(j) = d
    OBVIOUS
  <2> HIDE DEF never, e
  <2>4. /\ d \in Entry /\ d.status = entries[j].status
        /\ d.item = entries[j].item /\ d.enabled = entries[j].enabled
    BY <2>1, <2>2 DEF Entry
  <2> HIDE DEF d
  <2> QED BY <2>1, <2>3, <2>4
<1> HIDE DEF e
<1>4. ASSUME NEW j \in Id
      PROVE  /\ entries'[j] \in Entry \cup {NoEntry}
             /\ SameDefinition(entries[j], entries'[j])
             /\ entries'[j] # NoEntry => Legit(entries'[j], TRUE)
             /\ entries[j] # NoEntry /\ entries[j].status = "paused" =>
                  entries'[j].status = "paused"
  <2>1. CASE entries[j] = NoEntry
    BY <1>1, <2>1 DEF SameDefinition
  <2>2. CASE entries[j] # NoEntry /\ entries[j].status = "paused"
    <3>1. entries'[j] = e(j)
      BY <1>1, <1>3, <2>2
    <3> QED BY <1>3, <2>2, <3>1 DEF SameDefinition, Legit
  <2>3. CASE entries[j] # NoEntry /\ entries[j].status # "paused"
    <3>1. entries'[j] = Refresh(e(j), wall, TRUE)
      BY <1>1, <1>3, <2>3
    <3>2. /\ e(j) \in Entry /\ e(j).item = entries[j].item
          /\ e(j).enabled = entries[j].enabled /\ e(j).status # "paused"
          /\ TRUE \in BOOLEAN
      BY <1>3, <2>3
    <3>3. /\ Refresh(e(j), wall, TRUE) \in Entry
          /\ Refresh(e(j), wall, TRUE).item = e(j).item
          /\ Refresh(e(j), wall, TRUE).enabled = e(j).enabled
          /\ Legit(Refresh(e(j), wall, TRUE), TRUE)
      BY <1>2, <3>2, RefreshedType, Zenon
    <3> QED BY <2>3, <3>1, <3>2, <3>3 DEF SameDefinition
  <2> QED BY <2>1, <2>2, <2>3
<1>5. entries' \in Entries
  <2>1. entries' = [j \in Id |-> entries'[j]]
    BY <1>1
  <2> QED BY <1>4, <2>1 DEF Entries
<1>6. TypeOK'
  <2>1. DiskType'
    BY <1>1, <1>5, PersistStateType
  <2>2. clock' \in 0..MaxWall /\ wall' \in Epoch..MaxWall /\ clock' <= wall'
        /\ seen' \subseteq 0..clock'
    BY <1>1, <1>2 DEF TypeOK
  <2>3. timeValid' \in BOOLEAN /\ excused' \subseteq Id /\ up' \in BOOLEAN
    BY <1>1 DEF TypeOK
  <2>4. held' \subseteq Id /\ dirty' \subseteq Id /\ lastSlot' \in [Id -> Nat]
    BY <1>1 DEF TypeOK
  <2> QED BY <1>5, <2>1, <2>2, <2>3, <2>4 DEF TypeOK, Entries, DiskType
<1>7. LegitInv'
  BY <1>1, <1>4 DEF LegitInv, Present, Legit
<1>8. \A j \in held' : /\ j \in held /\ j \in Id
                       /\ entries'[j] # NoEntry => entries'[j].status = "paused"
  BY <1>1, <1>4 DEF TypeOK, PauseInv, Present, SameDefinition
<1>9. PauseInv' /\ DefinitionsSaved'
  BY <1>1, <1>4, <1>5, <1>8, StateKeeps
<1> QED BY <1>6, <1>7, <1>9

LEMMA TickStep ==
  ASSUME IInv, Tick
  PROVE  IInv'
<1> USE DEF IInv
<1>1. TypeOK'
  <2>1. clock' \in 0..MaxWall /\ wall' \in Epoch..MaxWall /\ clock' <= wall'
        /\ seen' \subseteq 0..clock'
    BY DEF TypeOK, Tick
  <2> QED BY <2>1 DEF TypeOK, Tick, disk
<1>2. UNCHANGED <<entries, defs, torn, blob, up, timeValid, held, dirty, doubt>>
  BY DEF Tick, disk
<1> QED BY <1>1, <1>2 DEF LegitInv, PauseInv, DefinitionsSaved, DefsOf, Present, Legit

LEMMA CrashStep ==
  ASSUME IInv, NEW power \in BOOLEAN, Crash(power)
  PROVE  IInv'
<1> USE DEF IInv
<1>1. /\ up' = FALSE /\ timeValid' = FALSE
      /\ clock' \in {0, clock}
      /\ seen' = {clock'}
      /\ entries' = [i \in Id |-> NoEntry]
      /\ UNCHANGED <<defs, torn, blob, wall, faults, held, dirty, doubt, excused>>
      /\ crashes < MaxCrashes /\ crashes' = crashes + 1
  BY DEF Crash, disk, Empty
<1>2. lastSlot' \in [Id -> Nat]
  BY DEF Crash, TypeOK
<1>3. TypeOK'
  <2>1. clock' \in 0..MaxWall /\ wall' \in Epoch..MaxWall /\ clock' <= wall'
        /\ seen' \subseteq 0..clock'
    BY <1>1 DEF TypeOK
  <2>2. crashes' \in 0..MaxCrashes
    BY <1>1 DEF TypeOK
  <2> QED BY <1>1, <1>2, <2>1, <2>2 DEF TypeOK
<1>4. LegitInv' /\ DefinitionsSaved'
  BY <1>1 DEF LegitInv, Present, DefinitionsSaved
<1>5. PauseInv'
  BY <1>1 DEF PauseInv, Present
<1> QED BY <1>3, <1>4, <1>5

-----------------------------------------------------------------------------
LEMMA InitIInv == Init => IInv
<1> SUFFICES ASSUME Init PROVE IInv
  OBVIOUS
<1>1. TypeOK
  <2>1. /\ entries \in [Id -> Entry \cup {NoEntry}]
        /\ defs \in [Id -> Definition \cup {NoEntry}]
        /\ blob \in [Id -> RunState \cup {NoEntry}]
    BY DEF Init, Empty
  <2>2. torn \in BOOLEAN /\ up \in BOOLEAN /\ timeValid \in BOOLEAN /\ doubt \in BOOLEAN
    BY DEF Init
  <2>3. /\ clock \in 0..MaxWall /\ wall \in Epoch..MaxWall /\ clock <= wall
        /\ faults \in 0..MaxFaults /\ crashes \in 0..MaxCrashes
        /\ seen \subseteq 0..clock
    BY DEF Init
  <2>4. held \subseteq Id /\ dirty \subseteq Id /\ lastSlot \in [Id -> Nat]
        /\ excused \subseteq Id
    BY DEF Init
  <2> QED BY <2>1, <2>2, <2>3, <2>4 DEF TypeOK
<1> QED BY <1>1 DEF Init, Empty, IInv, LegitInv, PauseInv, DefinitionsSaved, Present

LEMMA NextIInv == IInv /\ [Next]_vars => IInv'
<1> SUFFICES ASSUME IInv, [Next]_vars PROVE IInv'
  OBVIOUS
<1>1. CASE Tick
  BY <1>1, TickStep
<1>2. CASE \E power \in BOOLEAN : Crash(power)
  BY <1>2, CrashStep
<1>3. ASSUME NEW read \in BOOLEAN, NEW defsSaved \in BOOLEAN,
             NEW stateSaved \in BOOLEAN, Boot(read, defsSaved, stateSaved)
      PROVE  IInv'
  BY <1>3, LoadStep DEF Boot
<1>4. ASSUME NEW read \in BOOLEAN, NEW defsSaved \in BOOLEAN,
             NEW stateSaved \in BOOLEAN, Reload(read, defsSaved, stateSaved)
      PROVE  IInv'
  <2>1. up' = TRUE
    BY <1>4 DEF Reload, IInv, TypeOK
  <2> QED BY <1>4, <2>1, LoadStep DEF Reload
<1>5. ASSUME NEW saved \in BOOLEAN, Sync(saved)
      PROVE  IInv'
  BY <1>5, SyncStep
<1>6. ASSUME NEW saved \in BOOLEAN, NEW now \in seen, NEW sent \in SUBSET Id,
             FireDue(sent, now, saved)
      PROVE  IInv'
  BY <1>6, FireDueStep
<1>7. ASSUME NEW saved \in BOOLEAN, NEW now \in seen, NEW i \in Id,
             Remove(i, saved) \/ Pause(i, saved) \/ Resume(i, now, saved)
      PROVE  IInv'
  BY <1>7, RemoveStep, PauseStep, ResumeStep
<1>8. ASSUME NEW saved \in BOOLEAN, NEW i \in Id, NEW sent \in BOOLEAN,
             TriggerNow(i, sent, saved)
      PROVE  IInv'
  BY <1>8, TriggerNowStep
<1>9. ASSUME NEW saved \in BOOLEAN, NEW now \in seen, NEW i \in Id,
             NEW enabled \in BOOLEAN, Enable(i, enabled, now, saved)
      PROVE  IInv'
  BY <1>9, EnableStep
<1>10. ASSUME NEW saved \in BOOLEAN, NEW now \in seen, NEW i \in Id,
              NEW given \in Given,
              \/ Add(i, given.item, given.enabled, now, saved)
              \/ Update(i, given.item, given.enabled, now, saved)
       PROVE  IInv'
  <2>1. given.item \in Item /\ given.enabled \in BOOLEAN
    BY DEF Definition
  <2> QED BY <1>10, <2>1, AddStep, UpdateStep
<1>11. CASE UNCHANGED vars
  <2>1. TypeOK'
    BY <1>11 DEF vars, IInv, TypeOK
  <2>2. LegitInv'
    BY <1>11 DEF vars, IInv, LegitInv, Present, Legit
  <2>3. PauseInv'
    BY <1>11 DEF vars, IInv, PauseInv, Present
  <2>4. DefinitionsSaved'
    BY <1>11 DEF vars, IInv, DefinitionsSaved, DefsOf
  <2> QED BY <2>1, <2>2, <2>3, <2>4 DEF IInv
<1>12. Outcome \subseteq BOOLEAN
  BY DEF Outcome
<1>13. ASSUME NEW saved \in BOOLEAN, NEW now \in seen, NEW i \in Id,
              \/ Resume(i, now, saved)
              \/ \E enabled \in BOOLEAN : Enable(i, enabled, now, saved)
              \/ \E given \in Given :
                   \/ Add(i, given.item, given.enabled, now, saved)
                   \/ Update(i, given.item, given.enabled, now, saved)
       PROVE  IInv'
  BY <1>7, <1>9, <1>10, <1>13
<1>14. ASSUME NEW saved \in BOOLEAN, NEW i \in Id,
              \/ Remove(i, saved) \/ Pause(i, saved)
              \/ \E sent \in BOOLEAN : TriggerNow(i, sent, saved)
       PROVE  IInv'
  BY <1>8, <1>14, RemoveStep, PauseStep
<1>15. CASE Next
  BY <1>1, <1>2, <1>3, <1>4, <1>5, <1>6, <1>12, <1>13, <1>14, <1>15 DEF Next
<1> QED BY <1>11, <1>15

THEOREM Invariance == Spec => []IInv
BY InitIInv, NextIInv, PTL DEF Spec

\* The variables keep their types: no operation leaves an entry running.
THEOREM TypeCorrect == Spec => []TypeOK
<1>1. IInv => TypeOK
  BY DEF IInv
<1> QED BY Invariance, <1>1, PTL

\* A scheduled entry always has a run to make at its time.
THEOREM ScheduledEntriesAreLegit == Spec => []ScheduledIsLegit
<1>1. IInv => ScheduledIsLegit
  BY DEF IInv, LegitInv, Legit, ScheduledIsLegit
<1> QED BY Invariance, <1>1, PTL

\* A confirmed pause lasts until the entry is enabled, resumed or triggered; only
\* a reload or a restart whose state cannot be read, or that comes right after a
\* save of the state that failed, may lift it.
THEOREM PausesHold == Spec => []PauseHolds
<1>1. IInv => PauseHolds
  BY DEF IInv, PauseInv, PauseHolds
<1> QED BY Invariance, <1>1, PTL

\* A definitions file that can be read holds what is in memory, but for entries
\* whose last operation reported a failure.
THEOREM DefinitionsAreSaved == Spec => []DefinitionsSaved
<1>1. IInv => DefinitionsSaved
  BY DEF IInv
<1> QED BY Invariance, <1>1, PTL

-----------------------------------------------------------------------------
(***************************************************************************)
(* No planned time is published twice.  The invariant follows the planned  *)
(* time through memory and blob: what either holds of an entry lies after  *)
(* it, unless the clock itself fell back.  It falls back only in a power   *)
(* loss, and then the entry is on the wall clock and has no time before    *)
(* the clock is right again.                                               *)
(***************************************************************************)
Fresh(r, slot) == /\ r.next > 0 => r.next > slot
                  /\ r.last > 0 => r.last >= slot

ClockInv == \A i \in Id :
  /\ lastSlot[i] <= wall
  /\ lastSlot[i] > clock => /\ ~ timeValid
                            /\ defs[i] # NoEntry => NeedsTime(defs[i].item)
                            /\ Present(i) => NeedsTime(entries[i].item)

FreshInv == \A i \in Id \ excused :
  /\ Present(i) => Fresh(entries[i], lastSlot[i])
  /\ blob[i] # NoEntry => Fresh(blob[i], lastSlot[i])

\* cap_scheduler_compute_next_fire returns a time after its anchor.
LEMMA NextFireAfter ==
  ASSUME NEW item \in Item, NEW anchor \in Int, NEW runs \in Nat
  PROVE  NextFire(item, anchor, runs) > 0 => NextFire(item, anchor, runs) > anchor
<1>1. /\ item.start \in Nat /\ item.interval \in Nat /\ item.end \in Nat
      /\ item.maxRuns \in Nat /\ item.kind \in {"once", "interval"}
  BY DEF ItemType
<1>2. item.kind # "once" => item.interval > 0
  BY <1>1 DEF Valid
<1> DEFINE grid == item.start
                   + item.interval * ((anchor - item.start) \div item.interval + 1)
           t == IF item.maxRuns > 0 /\ runs >= item.maxRuns THEN -1
           ELSE IF item.kind = "once" THEN IF anchor >= item.start THEN -1 ELSE item.start
           ELSE IF item.start = 0 THEN anchor + item.interval
           ELSE IF anchor < item.start THEN item.start ELSE grid
<1>3. item.kind # "once" /\ anchor >= item.start => grid \in Int /\ grid > anchor
  <2> SUFFICES ASSUME item.kind # "once", anchor >= item.start
               PROVE  grid \in Int /\ grid > anchor
    OBVIOUS
  <2> DEFINE d == anchor - item.start
             v == item.interval
             q == d \div v
  <2>1. d \in Nat /\ v \in Nat \ {0}
    BY <1>1, <1>2
  <2>2. anchor = item.start + d /\ grid = item.start + v * (q + 1)
    BY <1>1
  <2> HIDE DEF d, v, grid
  <2>3. q \in Nat /\ v * (q + 1) \in Nat /\ v * (q + 1) > d
    BY <2>1
  <2> QED BY <1>1, <2>1, <2>2, <2>3
<1> HIDE DEF grid
<1>4. t \in Int /\ (t > 0 => t > anchor)
  BY <1>1, <1>2, <1>3
<1>5. NextFire(item, anchor, runs) = IF item.end > 0 /\ t > item.end THEN -1 ELSE t
  BY DEF NextFire, grid
<1> HIDE DEF t
<1> QED BY <1>1, <1>4, <1>5

\* A refresh keeps the last time, and a time that it sets is after the anchor.
LEMMA RefreshAfter ==
  ASSUME NEW e \in Draft, NEW anchor \in Int, NEW valid \in BOOLEAN
  PROVE  /\ Refresh(e, anchor, valid).last = e.last
         /\ Refresh(e, anchor, valid).next > 0 =>
              \/ e.status = "paused" /\ Refresh(e, anchor, valid).next = e.next
              \/ /\ Refresh(e, anchor, valid).next > anchor
                 /\ valid \/ ~ NeedsTime(e.item)
<1> DEFINE t == NextFire(e.item, anchor, e.runs)
           new == Refresh(e, anchor, valid)
<1>1. e.item \in Item /\ e.runs \in Nat /\ e.enabled \in BOOLEAN
  BY DEF Draft
<1>2. t \in Int /\ (t > 0 => t > anchor)
  BY <1>1, NextFireType, NextFireAfter
<1> DEFINE s == IF t < 0 THEN "completed" ELSE "scheduled"
           never == -1
<1>3. \/ new = [e EXCEPT !.status = "disabled", !.next = never]
      \/ e.status = "paused" /\ new = e
      \/ new = [e EXCEPT !.status = "scheduled", !.next = never]
      \/ /\ valid \/ ~ NeedsTime(e.item)
         /\ new = [e EXCEPT !.next = t, !.status = s]
  BY <1>1, RefreshCases, Zenon
<1>4. ~ never > 0
  OBVIOUS
<1> HIDE DEF t, s, never, new
<1>5. /\ new.last = e.last
      /\ new.next > 0 => \/ e.status = "paused" /\ new.next = e.next
                         \/ new.next > anchor /\ (valid \/ ~ NeedsTime(e.item))
  <2>1. CASE new = [e EXCEPT !.status = "disabled", !.next = never]
    BY <1>4, <2>1 DEF Draft
  <2>2. CASE e.status = "paused" /\ new = e
    BY <2>2
  <2>3. CASE new = [e EXCEPT !.status = "scheduled", !.next = never]
    BY <1>4, <2>3 DEF Draft
  <2>4. CASE /\ valid \/ ~ NeedsTime(e.item)
             /\ new = [e EXCEPT !.next = t, !.status = s]
    <3>1. new.last = e.last /\ new.next = t
      BY <2>4 DEF Draft
    <3> QED BY <1>2, <2>4, <3>1
  <2> QED BY <1>3, <2>1, <2>2, <2>3, <2>4
<1> QED BY <1>5 DEF new

\* An entry that was published waits for a time after the planned one; one
\* that was refused keeps its time.
LEMMA PublishAfter ==
  ASSUME NEW e \in Entry, NEW immediate \in BOOLEAN, NEW sent \in BOOLEAN,
         NEW now \in Nat, sent => e.runs < MaxRunCount, timeValid \in BOOLEAN
  PROVE  /\ Publish(e, immediate, sent, now).last = now
         /\ Publish(e, immediate, sent, now).next > 0 =>
              \/ ~ sent /\ Publish(e, immediate, sent, now).next = e.next
              \/ sent /\ Publish(e, immediate, sent, now).next > Planned(e, immediate, now)
<1> DEFINE runs == IF sent THEN e.runs + 1 ELSE e.runs
           fired == [e EXCEPT !.status = "running", !.last = now, !.runs = runs]
           never == -1
           new == Publish(e, immediate, sent, now)
<1>1. runs \in 0..MaxRunCount
  BY DEF Entry
<1>2. new = IF ~ sent THEN [fired EXCEPT !.status = "error"]
            ELSE IF e.item.kind = "once"
                 THEN [fired EXCEPT !.next = never, !.status = "completed"]
            ELSE Refresh(fired, Planned(e, immediate, now), timeValid)
  BY DEF Publish, Entry
<1>3. ~ never > 0
  OBVIOUS
<1> HIDE DEF runs, never, new
<1>4. /\ fired \in Draft /\ fired.last = now /\ fired.next = e.next
      /\ fired.status = "running"
  BY <1>1 DEF Entry, Draft
<1> HIDE DEF fired
<1>5. Planned(e, immediate, now) \in Int
  BY DEF Planned, Entry
<1>6. /\ new.last = now
      /\ new.next > 0 => \/ ~ sent /\ new.next = e.next
                         \/ sent /\ new.next > Planned(e, immediate, now)
  <2>1. CASE ~ sent
    BY <1>2, <1>4, <2>1 DEF Draft
  <2>2. CASE sent /\ e.item.kind = "once"
    BY <1>2, <1>3, <1>4, <2>2 DEF Draft
  <2>3. CASE sent /\ e.item.kind # "once"
    BY <1>2, <1>4, <1>5, <2>3, RefreshAfter
  <2> QED BY <2>1, <2>2, <2>3
<1> QED BY <1>6 DEF new

\* A refresh from a reading of the clock that no publish has overtaken.
LEMMA NowRefresh ==
  ASSUME TypeOK, ClockInv, NEW i \in Id, Present(i), NEW e \in Draft,
         e.item = entries[i].item, Fresh(e, lastSlot[i]),
         NEW now \in seen, ~ Overtaken(i, now)
  PROVE  Fresh(Refresh(e, now, timeValid), lastSlot[i])
<1> DEFINE new == Refresh(e, now, timeValid)
<1>1. /\ now \in Int /\ clock \in Int /\ timeValid \in BOOLEAN /\ lastSlot[i] \in Nat
      /\ now >= lastSlot[i] \/ lastSlot[i] > clock
  BY DEF TypeOK, Overtaken
<1>2. /\ new.last = e.last
      /\ new.next > 0 => \/ new.next = e.next
                         \/ new.next > now /\ (timeValid \/ ~ NeedsTime(e.item))
  BY <1>1, RefreshAfter
<1>3. new.next \in Int
  BY <1>1, RefreshEntry DEF Entry
<1> HIDE DEF new
<1>4. Fresh(new, lastSlot[i])
  BY <1>1, <1>2, <1>3 DEF Fresh, ClockInv
<1> QED BY <1>4 DEF new

\* Whatever a save leaves in the blob: what is saved has to be fresh, and what
\* may remain was.
LEMMA SaveFresh ==
  ASSUME TypeOK, FreshInv, NEW es \in Entries, blob' \in {blob, StateOf(es), Empty},
         up \/ entries' = es,
         \A j \in Id : entries'[j] \in {entries[j], es[j]},
         \A j \in Id \ excused' : es[j] # NoEntry => Fresh(es[j], lastSlot'[j]),
         \A j \in Id \ excused' :
            \/ lastSlot'[j] = 0
            \/ lastSlot'[j] = lastSlot[j] /\ j \notin excused
            \/ blob' = StateOf(es) /\ entries'[j] = es[j]
  PROVE  FreshInv'
<1> SUFFICES ASSUME NEW j \in Id \ excused'
             PROVE  /\ entries'[j] # NoEntry => Fresh(entries'[j], lastSlot'[j])
                    /\ blob'[j] # NoEntry => Fresh(blob'[j], lastSlot'[j])
  BY DEF FreshInv, Present, Fresh
<1>1. /\ entries[j] # NoEntry => entries[j].next \in Int /\ entries[j].last \in Nat
      /\ blob[j] # NoEntry => blob[j].next \in Int /\ blob[j].last \in Nat
  BY DEF TypeOK, Entry, RunState
<1>2. StateOf(es)[j] # NoEntry => es[j] # NoEntry /\ Fresh(StateOf(es)[j], lastSlot'[j])
  BY DEF StateOf, Fresh
<1>3. Empty[j] = NoEntry
  BY DEF Empty
<1>4. CASE lastSlot'[j] = 0
  BY <1>1, <1>2, <1>3, <1>4 DEF Fresh
<1>5. CASE lastSlot'[j] = lastSlot[j] /\ j \notin excused
  BY <1>2, <1>3, <1>5 DEF FreshInv, Present
<1>6. CASE blob' = StateOf(es) /\ entries'[j] = es[j]
  BY <1>2, <1>6
<1> QED BY <1>4, <1>5, <1>6

\* The operations on definitions: they forget the planned time of the entry,
\* or leave it an entry with the same item.
LEMMA ChangeFresh ==
  ASSUME TypeOK, ClockInv, FreshInv, NEW i \in Id, NEW es \in Entries,
         NEW saved \in BOOLEAN, up, Change(i, es, saved),
         \A j \in Id \ {i} : es[j] = entries[j],
         lastSlot' = lastSlot \/ lastSlot' = [lastSlot EXCEPT ![i] = 0],
         excused' \ {i} = excused \ {i},
         i \notin excused' => lastSlot'[i] = 0 \/ i \notin excused,
         i \notin excused' /\ es[i] # NoEntry => Fresh(es[i], lastSlot'[i]),
         \/ lastSlot'[i] = 0
         \/ es[i] # NoEntry => entries[i] # NoEntry /\ es[i].item = entries[i].item
  PROVE  ClockInv' /\ FreshInv'
<1>1. /\ UNCHANGED <<up, clock, wall, timeValid>>
      /\ entries' = IF saved THEN es ELSE entries
  BY DEF Change, time
<1>2. \A j \in Id : lastSlot'[j] \in {0, lastSlot[j]} /\ lastSlot'[j] \in Nat
  BY DEF TypeOK
<1>3. clock \in Nat /\ wall \in Nat
  BY DEF TypeOK
<1>4. defs' = defs \/ defs' = DefsOf(es)
  BY DEF Change, PersistAll, SaveDefs
<1>5. blob' \in {blob, StateOf(es), Empty}
  BY DEF Change, PersistAll, SaveState
<1>6. ClockInv'
  <2> SUFFICES ASSUME NEW j \in Id
               PROVE  /\ lastSlot'[j] <= wall
                      /\ lastSlot'[j] > clock =>
                           /\ ~ timeValid
                           /\ defs'[j] # NoEntry => NeedsTime(defs'[j].item)
                           /\ entries'[j] # NoEntry => NeedsTime(entries'[j].item)
    BY <1>1 DEF ClockInv, Present, NeedsTime
  <2>1. CASE lastSlot'[j] = 0
    BY <1>3, <2>1
  <2>2. CASE lastSlot'[j] = lastSlot[j] /\ lastSlot'[j] # 0
    <3>1. es[j] # NoEntry => entries[j] # NoEntry /\ es[j].item = entries[j].item
      BY <2>2
    <3>2. DefsOf(es)[j] # NoEntry =>
            es[j] # NoEntry /\ DefsOf(es)[j].item = es[j].item
      BY DEF DefsOf
    <3>3. entries'[j] = entries[j] \/ entries'[j] = es[j]
      BY <1>1
    <3>4. defs'[j] = defs[j] \/ defs'[j] = DefsOf(es)[j]
      BY <1>4
    <3> QED BY <2>2, <3>1, <3>2, <3>3, <3>4 DEF ClockInv, Present
  <2> QED BY <1>2, <2>1, <2>2
<1>7. \A j \in Id : entries'[j] \in {entries[j], es[j]}
  BY <1>1
<1>8. ASSUME NEW j \in Id \ excused'
      PROVE  /\ es[j] # NoEntry => Fresh(es[j], lastSlot'[j])
             /\ \/ lastSlot'[j] = 0
                \/ lastSlot'[j] = lastSlot[j] /\ j \notin excused
  <2>1. CASE j = i
    BY <1>2, <2>1
  <2>2. CASE j # i
    <3>1. lastSlot'[j] = lastSlot[j] /\ j \notin excused /\ es[j] = entries[j]
      BY <2>2 DEF TypeOK
    <3> QED BY <3>1 DEF FreshInv, Present
  <2> QED BY <2>1, <2>2
<1>9. FreshInv'
  BY <1>5, <1>7, <1>8, SaveFresh
<1> QED BY <1>6, <1>9

\* The operations on the runtime state keep the items, and a planned time that
\* they publish is not in the future.
LEMMA StateClock ==
  ASSUME TypeOK, ClockInv, UNCHANGED <<defs, time>>, up, up' = up,
         lastSlot' \in [Id -> Nat],
         \A j \in Id : SameDefinition(entries[j], entries'[j]),
         \A j \in Id : lastSlot'[j] = lastSlot[j] \/ lastSlot'[j] <= clock
  PROVE  ClockInv'
<1> SUFFICES ASSUME NEW j \in Id
             PROVE  /\ lastSlot'[j] <= wall
                    /\ lastSlot'[j] > clock =>
                         /\ ~ timeValid
                         /\ defs[j] # NoEntry => NeedsTime(defs[j].item)
                         /\ entries'[j] # NoEntry => NeedsTime(entries'[j].item)
  BY DEF ClockInv, Present, NeedsTime, time
<1>1. entries'[j] # NoEntry => entries[j] # NoEntry /\ entries'[j].item = entries[j].item
  BY DEF SameDefinition
<1>2. clock \in Nat /\ wall \in Nat /\ clock <= wall /\ lastSlot[j] \in Nat
  BY DEF TypeOK
<1>3. CASE lastSlot'[j] = lastSlot[j]
  BY <1>1, <1>3 DEF ClockInv, Present
<1>4. CASE lastSlot'[j] # lastSlot[j]
  <2>1. lastSlot'[j] <= clock /\ lastSlot'[j] \in Nat
    BY <1>4
  <2> QED BY <1>2, <2>1
<1> QED BY <1>3, <1>4

ReplayInv == ClockInv /\ FreshInv

LEMMA AddFresh ==
  ASSUME IInv, ReplayInv, NEW i \in Id, NEW item \in Item,
         NEW enabled \in BOOLEAN, NEW now \in seen, NEW saved \in BOOLEAN,
         Add(i, item, enabled, now, saved)
  PROVE  ReplayInv'
<1> USE DEF IInv, ReplayInv
<1> DEFINE e == [item |-> item, enabled |-> enabled, next |-> 0, last |-> 0, runs |-> 0,
                 status |-> IF enabled THEN "scheduled" ELSE "disabled"]
           new == Refresh(e, now, timeValid)
           es == [entries EXCEPT ![i] = new]
<1>1. new \in Entry
  <2>1. now \in Int
    BY DEF TypeOK
  <2> QED BY <2>1, AddedType
<1>2. /\ Change(i, es, saved) /\ lastSlot' = [lastSlot EXCEPT ![i] = 0] /\ up
      /\ excused' = excused \ {i}
  BY DEF Add
<1> HIDE DEF new
<1>3. /\ es \in Entries /\ es[i] = new /\ lastSlot'[i] = 0
      /\ \A j \in Id \ {i} : es[j] = entries[j]
  BY <1>1, <1>2 DEF TypeOK, Entries
<1> HIDE DEF es
<1>4. Fresh(es[i], lastSlot'[i]) /\ excused' \ {i} = excused \ {i}
  BY <1>1, <1>2, <1>3 DEF Fresh, Entry
<1>5. /\ lastSlot' = lastSlot \/ lastSlot' = [lastSlot EXCEPT ![i] = 0]
      /\ i \notin excused' => lastSlot'[i] = 0 \/ i \notin excused
      /\ i \notin excused' /\ es[i] # NoEntry => Fresh(es[i], lastSlot'[i])
      /\ \/ lastSlot'[i] = 0
         \/ es[i] # NoEntry => entries[i] # NoEntry /\ es[i].item = entries[i].item
  BY <1>2, <1>3, <1>4
<1>6. up /\ Change(i, es, saved)
  BY <1>2
<1> HIDE DEF e
<1> QED BY <1>3, <1>4, <1>5, <1>6, ChangeFresh

LEMMA UpdateFresh ==
  ASSUME IInv, ReplayInv, NEW i \in Id, NEW item \in Item,
         NEW enabled \in BOOLEAN, NEW now \in seen, NEW saved \in BOOLEAN,
         Update(i, item, enabled, now, saved)
  PROVE  ReplayInv'
<1> USE DEF IInv, ReplayInv
<1> DEFINE e == [entries[i] EXCEPT !.item = item, !.enabled = enabled]
           new == IF e.status = "paused" THEN e ELSE Refresh(e, now, timeValid)
           es == [entries EXCEPT ![i] = new]
<1>1. new \in Entry
  BY UpdatedType DEF Update
<1>2. /\ Change(i, es, saved) /\ lastSlot' = [lastSlot EXCEPT ![i] = 0] /\ up
      /\ excused' = excused \ {i}
  BY DEF Update, Present
<1> HIDE DEF new
<1>3. /\ es \in Entries /\ es[i] = new /\ lastSlot'[i] = 0
      /\ \A j \in Id \ {i} : es[j] = entries[j]
  BY <1>1, <1>2 DEF TypeOK, Entries
<1> HIDE DEF es
<1>4. Fresh(es[i], lastSlot'[i]) /\ excused' \ {i} = excused \ {i}
  BY <1>1, <1>2, <1>3 DEF Fresh, Entry
<1>5. /\ lastSlot' = lastSlot \/ lastSlot' = [lastSlot EXCEPT ![i] = 0]
      /\ i \notin excused' => lastSlot'[i] = 0 \/ i \notin excused
      /\ i \notin excused' /\ es[i] # NoEntry => Fresh(es[i], lastSlot'[i])
      /\ \/ lastSlot'[i] = 0
         \/ es[i] # NoEntry => entries[i] # NoEntry /\ es[i].item = entries[i].item
  BY <1>2, <1>3, <1>4
<1>6. up /\ Change(i, es, saved)
  BY <1>2
<1> HIDE DEF e
<1> QED BY <1>3, <1>4, <1>5, <1>6, ChangeFresh

LEMMA RemoveFresh ==
  ASSUME IInv, ReplayInv, NEW i \in Id, NEW saved \in BOOLEAN, Remove(i, saved)
  PROVE  ReplayInv'
<1> USE DEF IInv, ReplayInv
<1> DEFINE es == [entries EXCEPT ![i] = NoEntry]
<1>1. /\ Change(i, es, saved) /\ up
      /\ lastSlot' = IF saved THEN [lastSlot EXCEPT ![i] = 0] ELSE lastSlot
      /\ excused' = IF saved THEN excused \ {i} ELSE excused
  BY DEF Remove, Present
<1>2. /\ es \in Entries /\ es[i] = NoEntry
      /\ \A j \in Id \ {i} : es[j] = entries[j]
  BY DEF TypeOK, Entries
<1> HIDE DEF es
<1>3. /\ lastSlot' = lastSlot \/ lastSlot' = [lastSlot EXCEPT ![i] = 0]
      /\ excused' \ {i} = excused \ {i}
      /\ i \notin excused' => lastSlot'[i] = 0 \/ i \notin excused
  BY <1>1 DEF TypeOK
<1> QED BY <1>1, <1>2, <1>3, ChangeFresh

LEMMA EnableFresh ==
  ASSUME IInv, ReplayInv, NEW i \in Id, NEW enabled \in BOOLEAN,
         NEW now \in seen, NEW saved \in BOOLEAN, Enable(i, enabled, now, saved)
  PROVE  ReplayInv'
<1> USE DEF IInv, ReplayInv
<1> DEFINE s == IF enabled THEN "scheduled" ELSE "disabled"
           d == [entries[i] EXCEPT !.enabled = enabled, !.status = s]
           new == Enabled(i, enabled, now)
           es == [entries EXCEPT ![i] = new]
<1>1. new \in Entry /\ new.item = entries[i].item /\ Present(i)
  BY EnabledType DEF Enable
<1>2. /\ Change(i, es, saved) /\ lastSlot' = lastSlot
      /\ excused' = IF Overtaken(i, now) THEN excused \cup {i} ELSE excused
  BY DEF Enable
<1>3. new = Refresh(d, now, timeValid)
  BY DEF Enabled
<1>4. s \in Status
  BY DEF Status
<1>5. entries[i] \in Entry
  BY <1>1 DEF TypeOK, Present
<1> HIDE DEF new, s
<1>6. /\ d \in Draft /\ d.item = entries[i].item
      /\ d.next = entries[i].next /\ d.last = entries[i].last
  BY <1>4, <1>5 DEF Entry, Draft
<1> HIDE DEF d
<1>7. i \notin excused' => Fresh(new, lastSlot[i]) /\ i \notin excused
  <2> SUFFICES ASSUME i \notin excused, ~ Overtaken(i, now)
               PROVE  Fresh(new, lastSlot[i])
    BY <1>2
  <2>1. Fresh(d, lastSlot[i])
    BY <1>1, <1>6 DEF FreshInv, Fresh
  <2> QED BY <1>1, <1>3, <1>6, <2>1, NowRefresh
<1>8. /\ es \in Entries /\ es[i] = new
      /\ \A j \in Id \ {i} : es[j] = entries[j]
  BY <1>1 DEF TypeOK, Entries
<1> HIDE DEF es
<1>9. excused' \ {i} = excused \ {i}
  BY <1>2
<1> QED BY <1>1, <1>2, <1>7, <1>8, <1>9, ChangeFresh DEF Present

LEMMA PauseFresh ==
  ASSUME IInv, IInv', ReplayInv, NEW i \in Id, NEW saved \in BOOLEAN,
         Pause(i, saved)
  PROVE  ReplayInv'
<1> USE DEF IInv, ReplayInv
<1> DEFINE new == [entries[i] EXCEPT !.status = "paused"]
           es == [entries EXCEPT ![i] = new]
<1>1. entries[i] \in Entry /\ entries[i] # NoEntry /\ up
  BY DEF Pause, Present, TypeOK
<1>2. /\ new \in Entry /\ new.item = entries[i].item
      /\ new.enabled = entries[i].enabled
      /\ new.next = entries[i].next /\ new.last = entries[i].last
  BY <1>1, PausedType DEF Entry
<1>3. /\ PersistState(es, saved)
      /\ entries' = IF saved THEN es ELSE entries
      /\ UNCHANGED <<up, time, lastSlot, excused>>
  BY DEF Pause
<1> HIDE DEF new
<1>4. /\ es \in Entries /\ es[i] = new
      /\ \A j \in Id \ {i} : es[j] = entries[j]
  BY <1>2 DEF TypeOK, Entries
<1> HIDE DEF es
<1>5. \A j \in Id \ excused : es[j] # NoEntry => Fresh(es[j], lastSlot[j])
  BY <1>1, <1>2, <1>4 DEF FreshInv, Fresh, Present
<1>6. FreshInv'
  <2>1. blob' \in {blob, StateOf(es), Empty}
    BY <1>3 DEF PersistState, SaveState
  <2> QED BY <1>1, <1>3, <1>4, <1>5, <2>1, SaveFresh
<1>7. \A j \in Id : SameDefinition(entries[j], entries'[j])
  BY <1>1, <1>2, <1>3, <1>4 DEF SameDefinition
<1>8. ClockInv'
  <2>1. defs' = defs /\ lastSlot' \in [Id -> Nat]
    BY <1>3 DEF PersistState, TypeOK
  <2> QED BY <1>1, <1>3, <1>7, <2>1, StateClock
<1> QED BY <1>6, <1>8

LEMMA ResumeFresh ==
  ASSUME IInv, IInv', ReplayInv, NEW i \in Id, NEW now \in seen,
         NEW saved \in BOOLEAN, Resume(i, now, saved)
  PROVE  ReplayInv'
<1> USE DEF IInv, ReplayInv
<1> DEFINE new == Refresh(entries[i], now, timeValid)
           es == [entries EXCEPT ![i] = new]
<1>1. entries[i] \in Entry /\ entries[i] # NoEntry /\ up /\ Present(i)
  BY DEF Resume, Present, TypeOK
<1>2. /\ new \in Entry /\ new.item = entries[i].item
      /\ new.enabled = entries[i].enabled
  <2>1. now \in Int /\ timeValid \in BOOLEAN /\ Legit(entries[i], timeValid)
    BY <1>1 DEF TypeOK, LegitInv
  <2> QED BY <1>1, <2>1, RefreshedType
<1>3. /\ PersistState(es, saved)
      /\ entries' = IF saved THEN es ELSE entries
      /\ excused' = IF Overtaken(i, now) THEN excused \cup {i} ELSE excused
      /\ UNCHANGED <<up, time, lastSlot>>
  BY DEF Resume
<1>4. i \notin excused' => Fresh(new, lastSlot[i])
  <2>1. entries[i] \in Draft
    BY <1>1 DEF Entry, Draft
  <2> QED BY <1>1, <1>3, <2>1, NowRefresh DEF FreshInv
<1> HIDE DEF new
<1>5. /\ es \in Entries /\ es[i] = new
      /\ \A j \in Id \ {i} : es[j] = entries[j]
  BY <1>2 DEF TypeOK, Entries
<1> HIDE DEF es
<1>6. \A j \in Id \ excused' : /\ es[j] # NoEntry => Fresh(es[j], lastSlot[j])
                              /\ j \notin excused
  BY <1>1, <1>3, <1>4, <1>5 DEF FreshInv, Present
<1>7. FreshInv'
  <2>1. blob' \in {blob, StateOf(es), Empty}
    BY <1>3 DEF PersistState, SaveState
  <2> QED BY <1>1, <1>3, <1>5, <1>6, <2>1, SaveFresh
<1>8. \A j \in Id : SameDefinition(entries[j], entries'[j])
  BY <1>1, <1>2, <1>3, <1>5 DEF SameDefinition
<1>9. ClockInv'
  <2>1. defs' = defs /\ lastSlot' \in [Id -> Nat]
    BY <1>3 DEF PersistState, TypeOK
  <2> QED BY <1>1, <1>3, <1>8, <2>1, StateClock
<1> QED BY <1>7, <1>9

\* A trigger by hand records the clock, which is only comparable with the
\* planned time once it is right: the step excuses the entry otherwise.
LEMMA TriggerFresh ==
  ASSUME IInv, IInv', ReplayInv, NEW i \in Id, NEW sent \in BOOLEAN,
         NEW saved \in BOOLEAN, TriggerNow(i, sent, saved)
  PROVE  ReplayInv'
<1> USE DEF IInv, ReplayInv
<1> DEFINE new == Publish(entries[i], TRUE, sent, clock)
<1>1. entries[i] \in Entry /\ entries[i] # NoEntry /\ up /\ Present(i)
  BY DEF TriggerNow, Present, TypeOK
<1>2. /\ clock \in Nat /\ timeValid \in BOOLEAN /\ lastSlot[i] \in Nat
      /\ entries[i].runs < MaxRunCount
  BY DEF TypeOK, TriggerNow
<1>3. /\ new \in Entry /\ new.item = entries[i].item
      /\ new.enabled = entries[i].enabled
  <2>1. Succeeds(new, entries[i])
    BY <1>1, <1>2, PublishEntry
  <2> QED BY <2>1 DEF Succeeds
<1>4. /\ new.last = clock
      /\ new.next > 0 => new.next = entries[i].next \/ new.next > clock
  <2> DEFINE immediate == TRUE
             then == Publish(entries[i], immediate, sent, clock)
  <2>1. Planned(entries[i], immediate, clock) = clock
    BY DEF Planned
  <2>2. sent => entries[i].runs < MaxRunCount
    BY <1>2
  <2>3. immediate \in BOOLEAN /\ new = then
    OBVIOUS
  <2> HIDE DEF immediate, new
  <2> DEFINE c == clock
             e == entries[i]
  <2>4. e \in Entry /\ c \in Nat /\ timeValid \in BOOLEAN /\ (sent => e.runs < MaxRunCount)
    BY <1>1, <1>2, <2>2
  <2> HIDE DEF c, e
  <2>5. /\ Publish(e, immediate, sent, c).last = c
        /\ Publish(e, immediate, sent, c).next > 0 =>
             \/ ~ sent /\ Publish(e, immediate, sent, c).next = e.next
             \/ sent /\ Publish(e, immediate, sent, c).next > Planned(e, immediate, c)
    BY <2>3, <2>4, PublishAfter
  <2> QED BY <2>1, <2>3, <2>5 DEF c, e
<1>5. /\ PersistState(entries', saved)
      /\ entries' = [entries EXCEPT ![i] = new]
      /\ excused' = IF timeValid THEN excused ELSE excused \cup {i}
      /\ UNCHANGED <<up, time, lastSlot>>
  BY DEF TriggerNow
<1> HIDE DEF new
<1>6. /\ entries' \in Entries /\ entries'[i] = new
      /\ \A j \in Id \ {i} : entries'[j] = entries[j]
  BY <1>3, <1>5 DEF TypeOK, Entries
<1>7. ASSUME NEW j \in Id \ excused', entries'[j] # NoEntry
      PROVE  Fresh(entries'[j], lastSlot'[j])
  <2>1. CASE j = i
    <3>1. i \notin excused /\ timeValid
      BY <1>5, <2>1
    <3>2. lastSlot[i] <= clock
      BY <1>2, <3>1 DEF ClockInv
    <3>3. Fresh(entries[i], lastSlot[i]) /\ new.next \in Int
      BY <1>1, <1>3, <3>1 DEF FreshInv, Entry
    <3>4. Fresh(new, lastSlot[i])
      BY <1>2, <1>4, <3>2, <3>3 DEF Fresh
    <3> QED BY <1>5, <1>6, <2>1, <3>4
  <2>2. CASE j # i
    BY <1>1, <1>5, <1>6, <1>7, <2>2 DEF FreshInv, Present
  <2> QED BY <2>1, <2>2
<1>8. FreshInv'
  <2>1. blob' \in {blob, StateOf(entries'), Empty}
    BY <1>5 DEF PersistState, SaveState
  <2>2. \A j \in Id \ excused' : lastSlot'[j] = lastSlot[j] /\ j \notin excused
    BY <1>5
  <2> QED BY <1>1, <1>6, <1>7, <2>1, <2>2, SaveFresh
<1>9. \A j \in Id : SameDefinition(entries[j], entries'[j])
  BY <1>1, <1>3, <1>6 DEF SameDefinition
<1>10. ClockInv'
  <2>1. defs' = defs /\ lastSlot' \in [Id -> Nat]
    BY <1>5 DEF PersistState, TypeOK
  <2> QED BY <1>1, <1>5, <1>9, <2>1, StateClock
<1> QED BY <1>8, <1>10

LEMMA FireDueFresh ==
  ASSUME IInv, IInv', ReplayInv, NEW sent \in SUBSET Id, NEW now \in seen,
         NEW saved \in BOOLEAN, FireDue(sent, now, saved)
  PROVE  ReplayInv'
<1> USE DEF IInv, ReplayInv
<1>1. up
  BY DEF FireDue, Due, Present
<1>2. /\ entries' = [j \in Id |->
           IF j \in Missed(now) THEN Refresh(entries[j], now, timeValid)
           ELSE IF j \in Due(now) THEN Publish(entries[j], FALSE, j \in sent, now)
           ELSE entries[j]]
      /\ PersistState(entries', saved)
      /\ lastSlot' = [j \in Id |-> IF j \in sent THEN entries[j].next ELSE lastSlot[j]]
      /\ excused' = IF saved THEN excused \ sent ELSE excused \cup sent
      /\ UNCHANGED <<up, time>>
      /\ sent \subseteq Due(now) \ Missed(now)
  BY DEF FireDue
<1>3. \A j \in Due(now) : /\ j \in Id /\ entries[j] \in Entry /\ entries[j] # NoEntry
                     /\ entries[j].next > 0 /\ entries[j].next <= now
                     /\ Present(j)
  BY DEF Due, Present, TypeOK
<1>4. Missed(now) \subseteq Due(now)
  BY DEF Missed
<1>5. now \in Nat /\ now \in Int /\ clock \in Nat /\ now <= clock /\ timeValid \in BOOLEAN
  BY DEF TypeOK
<1>6. /\ \A j \in sent : lastSlot'[j] = entries[j].next
      /\ \A j \in Id \ sent : lastSlot'[j] = lastSlot[j]
      /\ \A j \in Id : lastSlot[j] \in Nat
  BY <1>2 DEF TypeOK
<1>7. ASSUME NEW j \in Id, entries'[j] # NoEntry
      PROVE  /\ SameDefinition(entries[j], entries'[j])
             /\ j \in excused' \/ Fresh(entries'[j], lastSlot'[j])
  <2>1. CASE j \in Missed(now)
    <3>1. j \in Due(now) /\ entries'[j] = Refresh(entries[j], now, timeValid)
      BY <1>2, <1>4, <2>1
    <3>2. entries[j] \in Draft
      BY <1>3, <3>1 DEF Entry, Draft
    <3>3. entries[j].status # "paused"
      BY <3>1 DEF Due
    <3>4. SameDefinition(entries[j], entries'[j])
      BY <1>3, <1>5, <1>7, <3>1, <3>3, RefreshedType DEF SameDefinition
    <3>5. lastSlot'[j] = lastSlot[j] /\ (j \in excused \/ Fresh(entries[j], lastSlot[j]))
      BY <1>2, <1>3, <1>6, <2>1, <3>1 DEF FreshInv
    <3>6. j \in excused => j \in excused'
      BY <1>2, <2>1
    <3>7. ASSUME Fresh(entries[j], lastSlot[j])
          PROVE  Fresh(entries'[j], lastSlot'[j])
      <4> DEFINE new == Refresh(entries[j], now, timeValid)
      <4>1. /\ new.last = entries[j].last
            /\ new.next > 0 => new.next > now
        BY <1>5, <3>2, <3>3, RefreshAfter
      <4>2. new.next \in Int
        BY <1>5, <3>2, <3>3, RefreshEntry DEF Entry
      <4>3. entries[j].next \in Int /\ lastSlot[j] \in Nat
        BY <1>3, <1>6, <3>1 DEF Entry
      <4>4. new = entries'[j]
        BY <3>1
      <4> HIDE DEF new
      <4>5. Fresh(new, lastSlot[j])
        BY <1>3, <1>5, <3>1, <3>7, <4>1, <4>2, <4>3 DEF Fresh
      <4> QED BY <3>5, <4>4, <4>5
    <3> QED BY <3>4, <3>5, <3>6, <3>7
  <2>2. CASE j \in Due(now) \ Missed(now)
    <3> DEFINE ok == j \in sent
               new == Publish(entries[j], FALSE, ok, now)
    <3>1. entries'[j] = new
      BY <1>2, <2>2
    <3>2. ok \in BOOLEAN /\ (ok => entries[j].runs < MaxRunCount)
      BY DEF FireDue
    <3>3. /\ ok => lastSlot'[j] = entries[j].next
          /\ ~ ok => lastSlot'[j] = lastSlot[j]
      BY <1>6
    <3> HIDE DEF ok
    <3>4. entries[j] \in Entry /\ entries[j] # NoEntry /\ FALSE \in BOOLEAN
      BY <1>3, <2>2
    <3>5. new \in Entry /\ new.item = entries[j].item /\ new.enabled = entries[j].enabled
      <4>1. Succeeds(new, entries[j])
        BY <1>5, <3>2, <3>4, PublishEntry, Zenon
      <4> QED BY <4>1 DEF Succeeds
    <3>6. /\ new.last = now
          /\ new.next > 0 => \/ ~ ok /\ new.next = entries[j].next
                             \/ ok /\ new.next > Planned(entries[j], FALSE, now)
      BY <1>5, <3>2, <3>4, PublishAfter, Zenon
    <3>7. /\ Planned(entries[j], FALSE, now) = entries[j].next
          /\ entries[j].next \in Int /\ entries[j].next > 0
          /\ entries[j].next <= now
      BY <1>3, <2>2, <3>4 DEF Planned, Entry
    <3>8. SameDefinition(entries[j], entries'[j])
      BY <1>7, <3>1, <3>4, <3>5 DEF SameDefinition
    <3> HIDE DEF new
    <3>9. CASE ok
      <4>1. Fresh(new, lastSlot'[j])
        BY <3>3, <3>6, <3>7, <3>9 DEF Fresh
      <4> QED BY <3>1, <3>8, <4>1
    <3>10. CASE ~ ok
      <4>1. j \in excused' \/ entries[j].next > lastSlot[j]
        <5>1. j \in excused => j \in excused'
          BY <1>2, <3>10 DEF ok
        <5> QED BY <1>3, <2>2, <5>1 DEF FreshInv, Fresh
      <4>2. ASSUME entries[j].next > lastSlot[j]
            PROVE  Fresh(new, lastSlot'[j])
        <5>1. lastSlot[j] \in Nat /\ lastSlot'[j] = lastSlot[j]
          BY <1>6, <3>3, <3>10
        <5>2. new.last = now /\ (new.next > 0 => new.next = entries[j].next)
          BY <3>6, <3>10, Zenon
        <5>3. new.next > 0 => new.next > lastSlot[j]
          BY <4>2, <5>2
        <5>4. new.last >= lastSlot[j]
          BY <1>5, <3>7, <4>2, <5>1, <5>2
        <5> QED BY <5>1, <5>3, <5>4 DEF Fresh
      <4> QED BY <3>1, <3>8, <4>1, <4>2
    <3> QED BY <3>9, <3>10
  <2>3. CASE j \notin Due(now)
    <3>1. /\ entries'[j] = entries[j] /\ lastSlot'[j] = lastSlot[j]
          /\ j \in excused => j \in excused'
      BY <1>2, <1>4, <1>6, <2>3
    <3> QED BY <1>1, <1>7, <3>1 DEF SameDefinition, FreshInv, Present
  <2> QED BY <2>1, <2>2, <2>3
<1>8. FreshInv'
  <2>1. entries' \in Entries
    BY DEF TypeOK, Entries
  <2>2. blob' \in {blob, StateOf(entries'), Empty}
    BY <1>2 DEF PersistState, SaveState
  <2>3. ASSUME NEW j \in Id \ excused'
        PROVE  \/ lastSlot'[j] = lastSlot[j] /\ j \notin excused
               \/ blob' = StateOf(entries')
    <3>1. saved => blob' = StateOf(entries')
      BY <1>2 DEF PersistState, SaveState
    <3>2. ~ saved => j \notin excused /\ j \notin sent
      BY <1>2
    <3> QED BY <1>6, <3>1, <3>2
  <2> QED BY <1>1, <1>7, <2>1, <2>2, <2>3, SaveFresh
<1>9. \A j \in Id : SameDefinition(entries[j], entries'[j])
  <2> SUFFICES ASSUME NEW j \in Id, entries'[j] = NoEntry
               PROVE  entries[j] = NoEntry
    BY <1>7 DEF SameDefinition
  <2>1. SUFFICES ASSUME j \in Due(now) PROVE FALSE
    BY <1>2, <1>4
  <2>2. CASE j \in Missed(now)
    <3>1. entries'[j] = Refresh(entries[j], now, timeValid)
      BY <1>2, <2>2
    <3>2. entries[j].status # "paused"
      BY <2>1 DEF Due
    <3> QED BY <1>3, <1>5, <2>1, <3>1, <3>2, RefreshedType
  <2>3. CASE j \notin Missed(now)
    <3> DEFINE ok == j \in sent
    <3>1. entries'[j] = Publish(entries[j], FALSE, ok, now)
      BY <1>2, <2>1, <2>3
    <3>2. ok \in BOOLEAN /\ (ok => entries[j].runs < MaxRunCount)
      BY DEF FireDue
    <3> HIDE DEF ok
    <3>3. entries[j] \in Entry /\ FALSE \in BOOLEAN
      BY <1>3, <2>1
    <3>4. Succeeds(Publish(entries[j], FALSE, ok, now), entries[j])
      BY <1>5, <3>2, <3>3, PublishEntry, Zenon
    <3> QED BY <3>1, <3>4 DEF Succeeds
  <2> QED BY <2>2, <2>3
<1>10. ClockInv'
  <2>1. defs' = defs /\ lastSlot' \in [Id -> Nat]
    BY <1>2 DEF PersistState, TypeOK
  <2>2. \A j \in Id : lastSlot'[j] = lastSlot[j] \/ lastSlot'[j] <= clock
    <3>1. \A j \in sent : entries[j].next <= clock
      <4>1. \A j \in sent : entries[j].next <= now /\ entries[j].next \in Int
        BY <1>2, <1>3 DEF Entry
      <4> QED BY <1>5, <4>1
    <3> QED BY <1>6, <3>1
  <2> QED BY <1>1, <1>2, <1>9, <2>1, <2>2, StateClock
<1> QED BY <1>8, <1>10

\* What the stores give back of an entry is as fresh as the blob.
LEMMA LoadedFresh ==
  ASSUME TypeOK, FreshInv, NEW i \in Id \ excused, defs[i] # NoEntry,
         NEW read \in BOOLEAN
  PROVE  Fresh(Loaded(read)[i], lastSlot[i])
<1> DEFINE s == IF read /\ blob[i] # NoEntry THEN blob[i]
                ELSE [status |-> IF defs[i].enabled THEN "scheduled" ELSE "disabled",
                      next |-> -1, last |-> 0, runs |-> 0]
<1>1. Loaded(read)[i].next = s.next /\ Loaded(read)[i].last = s.last
  BY DEF Loaded
<1>2. Fresh(s, lastSlot[i])
  <2>1. CASE read /\ blob[i] # NoEntry
    BY <2>1 DEF FreshInv
  <2>2. CASE ~ (read /\ blob[i] # NoEntry)
    <3>1. ~ s.next > 0 /\ ~ s.last > 0
      BY <2>2
    <3> QED BY <3>1 DEF Fresh
  <2> QED BY <2>1, <2>2
<1> HIDE DEF s
<1> QED BY <1>1, <1>2 DEF Fresh

LEMMA LoadFresh ==
  ASSUME IInv, IInv', ReplayInv, NEW read \in BOOLEAN, NEW defsSaved \in BOOLEAN,
         NEW stateSaved \in BOOLEAN, Load(read, defsSaved, stateSaved)
  PROVE  ReplayInv'
<1> USE DEF IInv, ReplayInv
<1> DEFINE anchor(j) == IF Loaded(read)[j].last > 0 THEN Loaded(read)[j].last ELSE clock
<1>1. /\ entries' = [j \in Id |->
           IF Loaded(read)[j] = NoEntry \/ Loaded(read)[j].status = "paused" THEN Loaded(read)[j]
           ELSE Refresh(Loaded(read)[j], anchor(j), timeValid)]
      /\ SaveDefs(entries', defsSaved) /\ SaveState(entries', stateSaved)
      /\ UNCHANGED <<time, lastSlot, excused>>
  BY DEF Load
<1>2. clock \in Int /\ timeValid \in BOOLEAN /\ \A j \in Id : lastSlot[j] \in Nat
  BY DEF TypeOK
<1>3. ASSUME NEW j \in Id, entries'[j] # NoEntry
      PROVE  /\ defs[j] # NoEntry /\ entries'[j].item = defs[j].item
             /\ j \in excused \/ Fresh(entries'[j], lastSlot[j])
  <2>1. defs[j] # NoEntry
    BY <1>1, <1>3, LoadedType
  <2>2. /\ Loaded(read)[j] \in Entry /\ Loaded(read)[j] # NoEntry
        /\ Loaded(read)[j].item = defs[j].item
        /\ j \in excused \/ Fresh(Loaded(read)[j], lastSlot[j])
    BY <2>1, LoadedType, LoadedFresh
  <2>3. CASE Loaded(read)[j].status = "paused"
    <3>1. entries'[j] = Loaded(read)[j]
      BY <1>1, <2>3
    <3> QED BY <2>1, <2>2, <3>1
  <2>4. CASE Loaded(read)[j].status # "paused"
    <3> DEFINE new == Refresh(Loaded(read)[j], anchor(j), timeValid)
    <3>1. entries'[j] = new
      BY <1>1, <2>2, <2>4
    <3>2. anchor(j) \in Int /\ Loaded(read)[j] \in Draft /\ Loaded(read)[j].last \in Nat
      BY <1>2, <2>2 DEF Entry, Draft
    <3>3. /\ Loaded(read)[j].last > 0 => anchor(j) = Loaded(read)[j].last
          /\ ~ Loaded(read)[j].last > 0 => anchor(j) = clock
      OBVIOUS
    <3> HIDE DEF anchor
    <3>4. new \in Entry /\ new.item = defs[j].item
      BY <1>2, <2>2, <2>4, <3>2, RefreshedType
    <3>5. /\ new.last = Loaded(read)[j].last
          /\ new.next > 0 => /\ new.next > anchor(j)
                             /\ timeValid \/ ~ NeedsTime(defs[j].item)
      BY <1>2, <2>2, <2>4, <3>2, RefreshAfter
    <3>6. new.next \in Int
      BY <3>4 DEF Entry
    <3> HIDE DEF new
    <3>7. j \in excused \/ Fresh(new, lastSlot[j])
      BY <1>2, <2>1, <2>2, <3>2, <3>3, <3>5, <3>6 DEF Fresh, ClockInv
    <3> QED BY <2>1, <3>1, <3>4, <3>7
  <2> QED BY <2>3, <2>4
<1>4. FreshInv'
  <2>1. blob' \in {blob, StateOf(entries'), Empty}
    BY <1>1 DEF SaveState
  <2>2. entries' \in Entries
    BY DEF TypeOK, Entries
  <2> QED BY <1>1, <1>3, <2>1, <2>2, SaveFresh
<1>5. ClockInv'
  <2> SUFFICES ASSUME NEW j \in Id, lastSlot[j] > clock
               PROVE  /\ defs'[j] # NoEntry => NeedsTime(defs'[j].item)
                      /\ entries'[j] # NoEntry => NeedsTime(entries'[j].item)
    BY <1>1 DEF ClockInv, Present, NeedsTime, time
  <2>1. entries'[j] # NoEntry => NeedsTime(entries'[j].item)
    BY <1>3 DEF ClockInv
  <2>2. defs'[j] = defs[j] \/ defs'[j] = DefsOf(entries')[j]
    BY <1>1 DEF SaveDefs
  <2>3. DefsOf(entries')[j] # NoEntry =>
          entries'[j] # NoEntry /\ DefsOf(entries')[j].item = entries'[j].item
    BY DEF DefsOf
  <2> QED BY <2>1, <2>2, <2>3 DEF ClockInv
<1> QED BY <1>4, <1>5

\* The synchronisation moves the clock forward, past every planned time.
LEMMA SyncFresh ==
  ASSUME IInv, IInv', ReplayInv, NEW saved \in BOOLEAN, Sync(saved)
  PROVE  ReplayInv'
<1> USE DEF IInv, ReplayInv
<1> DEFINE e(j) == IF NeedsTime(entries[j].item) \/ entries[j].item.kind = "once"
                   THEN entries[j] ELSE [entries[j] EXCEPT !.last = 0, !.next = -1]
<1>1. /\ up /\ clock' = wall
      /\ entries' = [j \in Id |->
           IF entries[j] = NoEntry THEN NoEntry
           ELSE IF e(j).status = "paused" THEN e(j) ELSE Refresh(e(j), wall, TRUE)]
      /\ PersistState(entries', saved)
      /\ UNCHANGED <<up, wall, lastSlot, excused>>
  BY DEF Sync
<1>2. wall \in Nat /\ wall \in Int /\ \A j \in Id : lastSlot[j] \in Nat
  BY DEF TypeOK
<1>3. ASSUME NEW j \in Id, entries[j] # NoEntry
      PROVE  /\ e(j) \in Entry
             /\ j \in excused \/ Fresh(e(j), lastSlot[j])
  <2>1. /\ entries[j] \in Entry
        /\ j \in excused \/ Fresh(entries[j], lastSlot[j])
    BY <1>1, <1>3 DEF TypeOK, FreshInv, Present
  <2> DEFINE never == -1
             d == [entries[j] EXCEPT !.last = 0, !.next = never]
  <2>2. never \in Int /\ ~ never > 0
    OBVIOUS
  <2>3. e(j) = entries[j] \/ e(j) = d
    OBVIOUS
  <2> HIDE DEF never, e
  <2>4. d \in Entry /\ d.next = never /\ d.last = 0
    BY <2>1, <2>2 DEF Entry
  <2> HIDE DEF d
  <2>5. Fresh(d, lastSlot[j])
    BY <2>2, <2>4 DEF Fresh
  <2> QED BY <2>1, <2>3, <2>4, <2>5
<1> HIDE DEF e
<1>4. ASSUME NEW j \in Id \ excused, entries'[j] # NoEntry
      PROVE  Fresh(entries'[j], lastSlot[j])
  <2>1. entries[j] # NoEntry
    BY <1>1, <1>4
  <2>2. e(j) \in Entry /\ Fresh(e(j), lastSlot[j])
    BY <1>3, <1>4, <2>1
  <2>3. CASE e(j).status = "paused"
    BY <1>1, <2>1, <2>2, <2>3
  <2>4. CASE e(j).status # "paused"
    <3> DEFINE old == e(j)
               new == Refresh(old, wall, TRUE)
    <3>1. entries'[j] = new
      BY <1>1, <2>1, <2>4
    <3>2. old \in Draft /\ old.last \in Nat /\ old.status # "paused"
      BY <2>2, <2>4 DEF Entry, Draft
    <3> HIDE DEF old
    <3>3. /\ new \in Entry /\ new.last = old.last
          /\ new.next > 0 => new.next > wall
      BY <1>2, <3>2, RefreshAfter, RefreshEntry
    <3>4. new.next \in Int
      BY <3>3 DEF Entry
    <3> HIDE DEF new
    <3>5. Fresh(old, lastSlot[j])
      BY <2>2 DEF old
    <3>6. lastSlot[j] \in Nat /\ lastSlot[j] <= wall
      BY <1>2 DEF ClockInv
    <3>7. Fresh(new, lastSlot[j])
      BY <1>2, <3>3, <3>4, <3>5, <3>6 DEF Fresh
    <3> QED BY <3>1, <3>7
  <2> QED BY <2>3, <2>4
<1>5. FreshInv'
  <2>1. entries' \in Entries
    BY DEF TypeOK, Entries
  <2>2. blob' \in {blob, StateOf(entries'), Empty}
    BY <1>1 DEF PersistState, SaveState
  <2> QED BY <1>1, <1>4, <2>1, <2>2, SaveFresh
<1>6. ClockInv'
  <2>1. \A j \in Id : lastSlot'[j] <= wall' /\ ~ lastSlot'[j] > clock'
    BY <1>1, <1>2 DEF ClockInv
  <2> QED BY <2>1 DEF ClockInv
<1> QED BY <1>5, <1>6

LEMMA TickFresh ==
  ASSUME IInv, ReplayInv, Tick
  PROVE  ReplayInv'
<1> USE DEF IInv, ReplayInv
<1>1. /\ wall' = wall + 1 /\ clock' = clock + 1
      /\ UNCHANGED <<entries, defs, blob, up, timeValid, lastSlot, excused>>
  BY DEF Tick, disk
<1>2. clock \in Nat /\ wall \in Nat /\ \A i \in Id : lastSlot[i] \in Nat
  BY DEF TypeOK
<1>3. FreshInv'
  BY <1>1 DEF FreshInv, Present, Fresh
<1>4. ClockInv'
  <2>1. \A i \in Id : /\ lastSlot[i] <= wall'
                      /\ lastSlot[i] > clock' => lastSlot[i] > clock
    BY <1>1, <1>2 DEF ClockInv
  <2> QED BY <1>1, <2>1 DEF ClockInv, Present, NeedsTime
<1> QED BY <1>3, <1>4

\* A power loss takes the clock back to zero; only entries on the wall clock
\* keep a planned time then.
LEMMA CrashFresh ==
  ASSUME IInv, ReplayInv, NEW power \in BOOLEAN, Crash(power)
  PROVE  ReplayInv'
<1> USE DEF IInv, ReplayInv
<1>1. /\ up' = FALSE /\ timeValid' = FALSE
      /\ UNCHANGED <<defs, blob, wall, excused>>
  BY DEF Crash, disk
<1>2. wall \in Nat /\ clock \in Nat /\ \A i \in Id : lastSlot[i] \in Nat
  BY DEF TypeOK
<1>3. ASSUME NEW i \in Id
      PROVE  /\ lastSlot'[i] \in {0, lastSlot[i]}
             /\ lastSlot'[i] > clock' /\ defs[i] # NoEntry => NeedsTime(defs[i].item)
  <2>1. CASE power
    <3>1. lastSlot'[i] = IF defs[i] # NoEntry /\ NeedsTime(defs[i].item)
                         THEN lastSlot[i] ELSE 0
      BY <2>1 DEF Crash
    <3>2. clock' = 0
      BY <2>1 DEF Crash
    <3> QED BY <3>1, <3>2
  <2>2. CASE ~ power
    <3>1. lastSlot' = lastSlot /\ clock' = clock
      BY <2>2 DEF Crash
    <3> QED BY <3>1 DEF ClockInv
  <2> QED BY <2>1, <2>2
<1>4. ClockInv'
  <2>1. \A i \in Id : lastSlot'[i] <= wall
    BY <1>2, <1>3 DEF ClockInv
  <2> QED BY <1>1, <1>3, <2>1 DEF ClockInv, Present, NeedsTime
<1>5. FreshInv'
  <2> SUFFICES ASSUME NEW i \in Id \ excused, blob[i] # NoEntry
               PROVE  Fresh(blob[i], lastSlot'[i])
    BY <1>1 DEF FreshInv, Present, Fresh
  <2>1. blob[i].next \in Int /\ blob[i].last \in Nat /\ Fresh(blob[i], lastSlot[i])
    BY DEF TypeOK, RunState, FreshInv
  <2> QED BY <1>3, <2>1 DEF Fresh
<1> QED BY <1>4, <1>5

LEMMA NextReplay == IInv /\ IInv' /\ ReplayInv /\ [Next]_vars => ReplayInv'
<1> SUFFICES ASSUME IInv, IInv', ReplayInv, [Next]_vars PROVE ReplayInv'
  OBVIOUS
<1>1. CASE Tick
  BY <1>1, TickFresh
<1>2. CASE \E power \in BOOLEAN : Crash(power)
  BY <1>2, CrashFresh
<1>3. ASSUME NEW read \in BOOLEAN, NEW defsSaved \in BOOLEAN,
             NEW stateSaved \in BOOLEAN, Boot(read, defsSaved, stateSaved)
      PROVE  ReplayInv'
  BY <1>3, LoadFresh DEF Boot
<1>4. ASSUME NEW read \in BOOLEAN, NEW defsSaved \in BOOLEAN,
             NEW stateSaved \in BOOLEAN, Reload(read, defsSaved, stateSaved)
      PROVE  ReplayInv'
  <2>1. up' = TRUE
    BY <1>4 DEF Reload, IInv, TypeOK
  <2> QED BY <1>4, <2>1, LoadFresh DEF Reload
<1>5. ASSUME NEW saved \in BOOLEAN, Sync(saved)
      PROVE  ReplayInv'
  BY <1>5, SyncFresh
<1>6. ASSUME NEW saved \in BOOLEAN, NEW now \in seen, NEW sent \in SUBSET Id,
             FireDue(sent, now, saved)
      PROVE  ReplayInv'
  BY <1>6, FireDueFresh
<1>7. ASSUME NEW saved \in BOOLEAN, NEW now \in seen, NEW i \in Id,
             Remove(i, saved) \/ Pause(i, saved) \/ Resume(i, now, saved)
      PROVE  ReplayInv'
  BY <1>7, RemoveFresh, PauseFresh, ResumeFresh
<1>8. ASSUME NEW saved \in BOOLEAN, NEW i \in Id, NEW sent \in BOOLEAN,
             TriggerNow(i, sent, saved)
      PROVE  ReplayInv'
  BY <1>8, TriggerFresh
<1>9. ASSUME NEW saved \in BOOLEAN, NEW now \in seen, NEW i \in Id,
             NEW enabled \in BOOLEAN, Enable(i, enabled, now, saved)
      PROVE  ReplayInv'
  BY <1>9, EnableFresh
<1>10. ASSUME NEW saved \in BOOLEAN, NEW now \in seen, NEW i \in Id,
              NEW given \in Given,
              \/ Add(i, given.item, given.enabled, now, saved)
              \/ Update(i, given.item, given.enabled, now, saved)
       PROVE  ReplayInv'
  <2>1. given.item \in Item /\ given.enabled \in BOOLEAN
    BY DEF Definition
  <2> QED BY <1>10, <2>1, AddFresh, UpdateFresh
<1>11. CASE UNCHANGED vars
  BY <1>11 DEF vars, time, disk, ReplayInv, ClockInv, FreshInv, Fresh, Present,
               NeedsTime
<1>12. Outcome \subseteq BOOLEAN
  BY DEF Outcome
<1>13. ASSUME NEW saved \in BOOLEAN, NEW now \in seen, NEW i \in Id,
              \/ Resume(i, now, saved)
              \/ \E enabled \in BOOLEAN : Enable(i, enabled, now, saved)
              \/ \E given \in Given :
                   \/ Add(i, given.item, given.enabled, now, saved)
                   \/ Update(i, given.item, given.enabled, now, saved)
       PROVE  ReplayInv'
  BY <1>7, <1>9, <1>10, <1>13
<1>14. ASSUME NEW saved \in BOOLEAN, NEW i \in Id,
              \/ Remove(i, saved) \/ Pause(i, saved)
              \/ \E sent \in BOOLEAN : TriggerNow(i, sent, saved)
       PROVE  ReplayInv'
  BY <1>8, <1>14, RemoveFresh, PauseFresh
<1>15. CASE Next
  BY <1>1, <1>2, <1>3, <1>4, <1>5, <1>6, <1>12, <1>13, <1>14, <1>15 DEF Next
<1> QED BY <1>11, <1>15

LEMMA InitReplay == Init => ReplayInv
<1> SUFFICES ASSUME Init PROVE ReplayInv
  OBVIOUS
<1>1. FreshInv
  BY DEF Init, FreshInv, Present, Empty
<1>2. ClockInv
  <2>1. \A i \in Id : lastSlot[i] = 0 /\ clock = 0 /\ wall \in Nat
    BY DEF Init
  <2> QED BY <2>1 DEF ClockInv
<1> QED BY <1>1, <1>2 DEF ReplayInv

\* What an entry waits for lies after what it has published, through reloads,
\* restarts, power losses, the first synchronisation of the clock, misread and
\* erased states.  Excused are entries whose publish was not saved, those
\* triggered by hand before the clock was right, and those planned with a
\* reading of the clock that the publish had overtaken.
THEOREM NothingIsReplayed == Spec => []NoReplay
<1>1. ReplayInv => NoReplay
  BY DEF ReplayInv, FreshInv, Fresh, NoReplay
<1>2. IInv /\ IInv' /\ ReplayInv /\ [Next]_vars => ReplayInv'
  BY NextReplay
<1> QED BY <1>1, <1>2, InitReplay, Invariance, PTL DEF Spec
=============================================================================
