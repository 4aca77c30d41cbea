--------------------------- MODULE LuaJobsProofs ---------------------------
(***************************************************************************)
(* Safety of the asynchronous Lua jobs, proved for every set of            *)
(* submissions, every naming and grouping of them, every set of calls that *)
(* stop or wait, and every size of the table and of the limit.             *)
(*                                                                         *)
(* The argument is about who holds a slot.  A submission holds the slot it *)
(* has committed to from the moment it occupies it until its script ends;  *)
(* the conflict check, the limit and the reuse of slots all go by the      *)
(* table, so the invariant says that the table tells the truth about the   *)
(* holders (it may tell of more: a slot marked too late).                  *)
(***************************************************************************)
EXTENDS LuaJobs, FiniteSetTheorems, TLAPS

USE ConstantsAssumption

-----------------------------------------------------------------------------
\* Every reachable state is of the right type, and s_running_jobs stays
\* within CAP_LUA_ASYNC_MAX_CONCURRENT.
THEOREM TypeCorrect == Spec => []TypeOK
<1>1. Init => TypeOK
  BY DEF Init, TypeOK, Label, Slot, Proc
<1>2. TypeOK /\ [Next]_vars => TypeOK'
  <2> SUFFICES ASSUME TypeOK, [Next]_vars PROVE TypeOK'
    OBVIOUS
  <2> USE DEF TypeOK, Label, Goto, table, calls
  <2>0. Slot \subseteq 0..MaxJobs
    BY DEF Slot
  <2>1. ASSUME NEW j \in Job, Submit(j) PROVE TypeOK'
    BY <2>1 DEF Submit, Proc
  <2>2. ASSUME NEW j \in Job, Check(j) PROVE TypeOK'
    <3>1. \A s \in Lowest(Holders(j)) : s \in Slot /\ owner[s] \in Job
      BY DEF Lowest, Holders, Active
    <3> QED BY <2>2, <3>1 DEF Check, Proc
  <2>3. ASSUME NEW j \in Job, Commit(j) PROVE TypeOK'
    <3>1. Reusable \subseteq Slot
      BY DEF Reusable, Lowest
    <3>2. ASSUME running < MaxConcurrent, NEW s \in Reusable, Occupy(j, s),
                 UNCHANGED <<todo, task, meant, told>>
          PROVE  TypeOK'
      BY <3>1, <3>2, <2>0 DEF Occupy, Proc
    <3>3. ASSUME NEW l \in Label, Goto(j, l), retried' \subseteq Job,
                 UNCHANGED <<table, sem, running, slotOf, todo, task, meant, told>>
          PROVE  TypeOK'
      BY <3>3 DEF Proc
    <3>4. CASE running < MaxConcurrent /\ \E s \in Reusable : Occupy(j, s)
      BY <2>3, <3>2, <3>4 DEF Commit
    <3>5. CASE /\ Goto(j, IF j \in retried THEN "refused" ELSE "check")
               /\ retried' = retried \cup {j}
               /\ UNCHANGED <<table, sem, running, slotOf>>
      <4>1. retried' \subseteq Job
        BY <3>5
      <4> QED BY <2>3, <3>3, <3>5, <4>1 DEF Commit
    <3>6. CASE /\ Goto(j, "refused")
               /\ UNCHANGED <<table, sem, running, retried, slotOf>>
      BY <2>3, <3>3, <3>6 DEF Commit
    <3> QED BY <2>3, <3>4, <3>5, <3>6 DEF Commit
  <2>4. ASSUME NEW j \in Job, Spawn(j) PROVE TypeOK'
    BY <2>4 DEF Spawn, Proc
  <2>5. ASSUME NEW j \in Job, SpawnFails(j) PROVE TypeOK'
    <3>1. running' \in 0..MaxConcurrent
      BY <2>5 DEF SpawnFails
    <3> QED BY <2>5, <3>1 DEF SpawnFails, Proc
  <2>6. ASSUME NEW j \in Job, Mark(j) PROVE TypeOK'
    BY <2>6 DEF Mark, Proc
  <2>7. ASSUME NEW j \in Job, Finish(j) PROVE TypeOK'
    <3>1. running' \in 0..MaxConcurrent
      BY <2>7 DEF Finish
    <3> QED BY <2>7, <3>1 DEF Finish
  <2>8. ASSUME NEW j \in Job, Give(j) PROVE TypeOK'
    BY <2>8 DEF Give
  <2>9. ASSUME NEW w \in Stopper, StopJob(w) PROVE TypeOK'
    BY <2>9 DEF StopJob, Proc
  <2>10. ASSUME NEW w \in Stopper, StopAll(w) PROVE TypeOK'
    <3>1. PICK g : LET wanted == {s \in Slot : Wanted(s, g)} IN
            /\ todo' = [todo EXCEPT ![w] = {<<s, owner[s]>> : s \in wanted}]
            /\ meant' = meant \cup {owner[s] : s \in wanted}
            /\ Goto(w, IF wanted = {} THEN "returned" ELSE "request")
      BY <2>10 DEF StopAll
    <3>2. \A s \in Slot : Wanted(s, g) => owner[s] \in Job
      BY DEF Wanted, Active
    <3>3. {<<s, owner[s]>> : s \in {x \in Slot : Wanted(x, g)}}
            \in SUBSET (Slot \X Job)
      BY <3>2
    <3> QED BY <2>10, <3>1, <3>2, <3>3 DEF StopAll, Proc
  <2>11. ASSUME NEW w \in Watcher, Watch(w) PROVE TypeOK'
    BY <2>11 DEF Watch, Proc
  <2>12. ASSUME NEW p \in Proc, NEW t \in Current(p), NEW a, Answer(p, t, a)
         PROVE  /\ todo' \in [Proc -> SUBSET (Slot \X Job)]
                /\ told' \in [Stopper -> SUBSET Job]
                /\ pc' \in [Proc -> Label]
    <3>1. t \in Slot \X Job
      BY <2>12 DEF Current
    <3> QED BY <2>12, <3>1 DEF Answer
  <2>13. ASSUME NEW p \in Proc, Request(p) PROVE TypeOK'
    BY <2>13, <2>12 DEF Request, AskToStop
  <2>14. ASSUME NEW p \in Proc, Probe(p) PROVE TypeOK'
    BY <2>14, <2>12 DEF Probe
  <2>15. ASSUME NEW p \in Proc, Wake(p) \/ WaitTimeout(p) PROVE TypeOK'
    BY <2>15 DEF Wake, WaitTimeout
  <2>16. ASSUME NEW p \in Proc, Recheck(p) PROVE TypeOK'
    BY <2>16, <2>12 DEF Recheck
  <2>17. CASE UNCHANGED vars BY <2>17 DEF vars
  <2> QED
    BY <2>1, <2>2, <2>3, <2>4, <2>5, <2>6, <2>7, <2>8, <2>9, <2>10, <2>11,
       <2>13, <2>14, <2>15, <2>16, <2>17 DEF Next, SubmitStep, WaitStep
<1> QED BY <1>1, <1>2, PTL DEF Spec

-----------------------------------------------------------------------------
\* The inductive invariant, first what it says of the table.

Holding == Live \cup {j \in Job : pc[j] = "spawn"}

Committed == {"spawn", "mark", "accepted"}

PhaseInv ==                  \* only a submission that has committed has a task
  \A j \in Job :
    /\ task[j] # "none" => pc[j] \in {"mark", "accepted"}
    /\ pc[j] \in Committed => slotOf[j] \in Slot

OwnerInv ==                  \* a slot and its owner name each other
  \A s \in Slot : owner[s] # Nothing =>
    slotOf[owner[s]] = s /\ pc[owner[s]] \in Committed

HoldInv ==                   \* a holder's slot is its own, and not reusable
  \A j \in Holding : owner[slotOf[j]] = j /\ ~ Terminal(slotOf[j])

ExcludeInv ==
  \A j, k \in Holding : j # k => ~ SameName(j, k) /\ ~ SameGroup(j, k)

TableInv == PhaseInv /\ OwnerInv /\ HoldInv /\ ExcludeInv /\ CountExact

\* Then what it says of the calls that wait.

TargetInv ==                 \* a target has committed to the slot it is sought in
  \A p \in Proc : \A t \in todo[p] :
    slotOf[t[2]] = t[1] /\ pc[t[2]] \in Committed \cup {"refused"}

ToldInv ==                   \* a job reported as stopped is over for good
  \A w \in Stopper : \A j \in told[w] :
    j \notin Holding /\ pc[j] \in Committed \cup {"refused"}

MeantInv ==                  \* only calls that decided to stop a job ask it to
  /\ \A p \in Proc \ Watcher : \A t \in todo[p] : t[2] \in meant
  /\ \A w \in Watcher : pc[w] # "request"
  /\ StoppedWasMeant

IInv == TypeOK /\ TableInv /\ TargetInv /\ ToldInv /\ MeantInv

\* A step of the call p that leaves the table of jobs alone.
Quiet(p) ==
  /\ UNCHANGED <<owner, status, running, slotOf, task>>
  /\ pc[p] \notin Committed \cup {"refused"}
  /\ \E label \in Label \ Committed : Goto(p, label)

\* Most steps of a call are quiet.
LEMMA QuietSteps ==
  ASSUME TypeOK, NEW p \in Proc,
         \/ p \in Job /\ (Submit(p) \/ Check(p))
         \/ p \in Stopper /\ (StopJob(p) \/ StopAll(p))
         \/ p \in Watcher /\ Watch(p)
         \/ WaitStep(p)
  PROVE  Quiet(p)
<1> USE DEF Quiet, Label, Committed, Goto, table, calls
<1>1. CASE p \in Job /\ Submit(p) BY <1>1 DEF Submit
<1>2. CASE p \in Job /\ Check(p)
  <2>1. \E label \in Label \ Committed : Goto(p, label)
    BY <1>2 DEF Check
  <2> QED BY <1>2, <2>1 DEF Check
<1>3. CASE p \in Stopper /\ StopJob(p) BY <1>3 DEF StopJob
<1>4. CASE p \in Stopper /\ StopAll(p)
  <2>1. \E label \in Label \ Committed : Goto(p, label)
    BY <1>4 DEF StopAll
  <2> QED BY <1>4, <2>1 DEF StopAll
<1>5. CASE p \in Watcher /\ Watch(p)
  <2>1. \E label \in Label \ Committed : Goto(p, label)
    BY <1>5 DEF Watch
  <2> QED BY <1>5, <2>1 DEF Watch
<1>6. ASSUME NEW t, NEW a, Answer(p, t, a)
      PROVE  \E label \in Label \ Committed : Goto(p, label)
  BY <1>6 DEF Answer
<1>7. CASE Request(p) BY <1>7, <1>6 DEF Request, AskToStop
<1>8. CASE Probe(p) BY <1>8, <1>6 DEF Probe
<1>9. CASE Wake(p) \/ WaitTimeout(p) BY <1>9 DEF Wake, WaitTimeout
<1>10. CASE Recheck(p) BY <1>10, <1>6 DEF Recheck
<1> QED
  BY <1>1, <1>2, <1>3, <1>4, <1>5, <1>7, <1>8, <1>9, <1>10 DEF WaitStep

\* A quiet step moves no submission into or out of the phases that matter.
LEMMA QuietPhases ==
  ASSUME TypeOK, NEW p \in Proc, Quiet(p)
  PROVE  /\ \A j \in Job : pc'[j] \in Committed <=> pc[j] \in Committed
         /\ \A j \in Job : pc'[j] \in Committed => pc'[j] = pc[j]
         /\ \A j \in Job : pc[j] = "refused" => pc'[j] = "refused"
         /\ Holding' = Holding
<1> USE DEF TypeOK, Quiet, Goto, Committed, Label
<1>1. PICK label \in Label \ Committed : pc' = [pc EXCEPT ![p] = label]
  OBVIOUS
<1>2. \A j \in Job : pc'[j] = IF j = p THEN label ELSE pc[j]
  BY <1>1 DEF Proc
<1>3. Live' = Live
  BY DEF Live
<1> QED BY <1>1, <1>2, <1>3 DEF Holding

LEMMA QuietTable ==
  ASSUME TypeOK, TableInv, NEW p \in Proc, Quiet(p)
  PROVE  TableInv'
<1>1. /\ \A j \in Job : pc'[j] \in Committed <=> pc[j] \in Committed
      /\ \A j \in Job : pc'[j] \in Committed => pc'[j] = pc[j]
      /\ Holding' = Holding
  BY QuietPhases
<1>2. UNCHANGED <<owner, status, running, slotOf, task>>
  BY DEF Quiet
<1>3. PhaseInv'
  BY <1>1, <1>2 DEF TableInv, PhaseInv, Committed
<1>4. OwnerInv'
  <2>1. \A s \in Slot : owner[s] # Nothing => owner[s] \in Job
    BY DEF TypeOK
  <2> QED BY <1>1, <1>2, <2>1 DEF TableInv, OwnerInv
<1>5. HoldInv' /\ ExcludeInv'
  BY <1>1, <1>2 DEF TableInv, HoldInv, ExcludeInv, Terminal
<1>6. CountExact'
  BY <1>1, <1>2 DEF TableInv, CountExact, Holding
<1> QED BY <1>3, <1>4, <1>5, <1>6 DEF TableInv

\* The holders are finitely many, so they can be counted.
LEMMA HoldingFinite ==
  ASSUME TypeOK PROVE IsFiniteSet(Holding) /\ Cardinality(Holding) \in Nat
<1>1. Holding \in SUBSET Job
  BY DEF Holding, Live
<1>2. IsFiniteSet(Holding)
  BY <1>1, FS_Subset
<1> QED BY <1>2, FS_CardinalityType

\* A commit takes a slot nobody holds and adds one holder, in conflict with
\* none of the others.
LEMMA OccupyTable ==
  ASSUME TypeOK, TableInv, NEW j \in Job, pc[j] = "commit", Holders(j) = {},
         NEW s \in Reusable, Occupy(j, s), UNCHANGED task
  PROVE  TableInv'
<1> USE DEF TypeOK, Committed
<1>1. s \in Slot /\ (owner[s] = Nothing \/ Terminal(s))
  BY DEF Reusable, Lowest
<1>2. /\ owner' = [owner EXCEPT ![s] = j]
      /\ status' = [status EXCEPT ![s] = "queued"]
      /\ slotOf' = [slotOf EXCEPT ![j] = s]
      /\ pc' = [pc EXCEPT ![j] = "spawn"]
      /\ running' = running + 1
  BY DEF Occupy, Goto
<1>3. \A k \in Job : pc'[k] = IF k = j THEN "spawn" ELSE pc[k]
  BY <1>2 DEF Proc
<1>4. task[j] = "none" /\ j \notin Holding
  BY DEF TableInv, PhaseInv, Holding, Live
<1>5. Holding' = Holding \cup {j}
  BY <1>3, <1>4 DEF Holding, Live
<1>6. \A k \in Holding : k \in Job /\ pc[k] \in Committed /\ slotOf[k] \in Slot
  BY DEF TableInv, PhaseInv, Holding, Live
<1>7. \A k \in Holding : slotOf[k] # s
  BY <1>1, <1>6 DEF TableInv, HoldInv
<1>8. PhaseInv'
  BY <1>1, <1>2, <1>3, <1>4 DEF TableInv, PhaseInv
<1>9. OwnerInv'
  <2>1. ASSUME NEW x \in Slot, owner'[x] # Nothing
        PROVE  slotOf'[owner'[x]] = x /\ pc'[owner'[x]] \in Committed
    <3>1. CASE x = s
      BY <3>1, <1>1, <1>2, <1>3
    <3>2. CASE x # s
      <4>1. owner'[x] = owner[x] /\ owner[x] \in Job
        BY <3>2, <2>1, <1>1, <1>2
      <4>2. slotOf[owner[x]] = x /\ pc[owner[x]] \in Committed
        BY <4>1, <2>1 DEF TableInv, OwnerInv
      <4> QED BY <4>1, <4>2, <1>2, <1>3
    <3> QED BY <3>1, <3>2
  <2> QED BY <2>1 DEF OwnerInv
<1>10. HoldInv'
  <2>1. ASSUME NEW k \in Holding'
        PROVE  /\ owner'[slotOf'[k]] = k
               /\ status'[slotOf'[k]] \notin {"ended", "stopped"}
    <3>0. k \in Job
      BY <1>5, <1>6
    <3>1. CASE k = j
      <4>1. slotOf'[k] = s
        BY <3>1, <1>2
      <4>2. owner'[s] = k /\ status'[s] = "queued"
        BY <3>1, <1>1, <1>2
      <4> QED BY <4>1, <4>2 DEF Terminal
    <3>2. CASE k # j
      <4>1. k \in Holding /\ slotOf'[k] = slotOf[k] /\ slotOf[k] # s
        BY <3>0, <3>2, <2>1, <1>2, <1>5, <1>7
      <4>2. owner'[slotOf[k]] = owner[slotOf[k]]
            /\ status'[slotOf[k]] = status[slotOf[k]]
        BY <4>1, <1>2, <1>6
      <4>3. owner[slotOf[k]] = k /\ ~ Terminal(slotOf[k])
        BY <4>1 DEF TableInv, HoldInv
      <4> QED BY <4>1, <4>2, <4>3 DEF Terminal
    <3> QED BY <3>1, <3>2
  <2> QED BY <2>1 DEF HoldInv, Terminal
<1>11. ExcludeInv'
  <2>1. \A k \in Holding : Active(slotOf[k]) /\ owner[slotOf[k]] = k
    BY <1>6 DEF TableInv, HoldInv, Active
  <2>2. \A k \in Holding : ~ SameName(j, k) /\ ~ SameGroup(j, k)
    BY <2>1, <1>6 DEF Holders
  <2>3. \A k \in Holding : ~ SameName(k, j) /\ ~ SameGroup(k, j)
    BY <2>2 DEF SameName, SameGroup
  <2> QED BY <1>5, <2>2, <2>3 DEF TableInv, ExcludeInv
<1>12. CountExact'
  <2>1. Cardinality(Holding \cup {j}) = Cardinality(Holding) + 1
    BY <1>4, HoldingFinite, FS_AddElement
  <2> QED BY <2>1, <1>2, <1>5 DEF TableInv, CountExact, Holding
<1> QED BY <1>8, <1>9, <1>10, <1>11, <1>12 DEF TableInv

\* The task takes over from the submission: the holders stay the same.
LEMMA SpawnTable ==
  ASSUME TypeOK, TableInv, NEW j \in Job, Spawn(j)
  PROVE  TableInv'
<1> USE DEF TypeOK, Committed
<1>1. \A k \in Job : pc'[k] = IF k = j THEN "mark" ELSE pc[k]
  BY DEF Spawn, Goto, Proc
<1>2. /\ pc[j] = "spawn"
      /\ task' = [task EXCEPT ![j] = "running"]
      /\ UNCHANGED <<owner, status, running, slotOf>>
  BY DEF Spawn, table
<1>3. Holding' = Holding
  BY <1>1, <1>2 DEF Holding, Live
<1>4. PhaseInv'
  BY <1>1, <1>2 DEF TableInv, PhaseInv
<1>5. OwnerInv'
  BY <1>1, <1>2 DEF TableInv, OwnerInv
<1>6. HoldInv' /\ ExcludeInv'
  BY <1>2, <1>3 DEF TableInv, HoldInv, ExcludeInv, Terminal
<1>7. CountExact'
  BY <1>2, <1>3 DEF TableInv, CountExact, Holding
<1> QED BY <1>4, <1>5, <1>6, <1>7 DEF TableInv

\* A holder leaves; the count goes down by one and never below zero.
LEMMA HolderLeaves ==
  ASSUME TypeOK, TableInv, NEW j \in Holding, Holding' = Holding \ {j},
         running' = IF running > 0 THEN running - 1 ELSE 0
  PROVE  CountExact'
<1>1. IsFiniteSet(Holding) /\ Cardinality(Holding) \in Nat
  BY HoldingFinite
<1>2. /\ Cardinality(Holding \ {j}) = Cardinality(Holding) - 1
      /\ Cardinality(Holding \ {j}) \in Nat
  BY <1>1, FS_RemoveElement, FS_CardinalityType
<1>3. running = Cardinality(Holding)
  BY DEF TableInv, CountExact, Holding
<1>4. running' = Cardinality(Holding')
  BY <1>1, <1>2, <1>3
<1> QED BY <1>4 DEF CountExact, Holding

\* The slot of a submission whose task cannot be created becomes unused.
LEMMA SpawnFailsTable ==
  ASSUME TypeOK, TableInv, NEW j \in Job, SpawnFails(j)
  PROVE  TableInv'
<1> USE DEF TypeOK, Committed
<1>1. \A k \in Job : pc'[k] = IF k = j THEN "refused" ELSE pc[k]
  BY DEF SpawnFails, Goto, Proc
<1>2. /\ pc[j] = "spawn"
      /\ owner' = [owner EXCEPT ![slotOf[j]] = Nothing]
      /\ status' = [status EXCEPT ![slotOf[j]] = "queued"]
      /\ running' = IF running > 0 THEN running - 1 ELSE 0
      /\ UNCHANGED <<slotOf, task>>
  BY DEF SpawnFails
<1>3. j \in Holding /\ task[j] = "none" /\ slotOf[j] \in Slot
  BY <1>2 DEF TableInv, PhaseInv, Holding
<1>4. owner[slotOf[j]] = j
  BY <1>3 DEF TableInv, HoldInv
<1>5. Holding' = Holding \ {j}
  BY <1>1, <1>2, <1>3 DEF Holding, Live
<1>6. PhaseInv'
  BY <1>1, <1>2, <1>3 DEF TableInv, PhaseInv
<1>7. OwnerInv'
  <2>1. ASSUME NEW x \in Slot, owner'[x] # Nothing
        PROVE  slotOf'[owner'[x]] = x /\ pc'[owner'[x]] \in Committed
    <3>1. x # slotOf[j] /\ owner'[x] = owner[x] /\ owner[x] \in Job
      BY <2>1, <1>2, <1>3
    <3>2. slotOf[owner[x]] = x /\ pc[owner[x]] \in Committed
      BY <3>1, <2>1 DEF TableInv, OwnerInv
    <3>3. owner[x] # j
      BY <3>1, <3>2
    <3> QED BY <3>1, <3>2, <3>3, <1>1, <1>2
  <2> QED BY <2>1 DEF OwnerInv
<1>8. HoldInv'
  <2>1. ASSUME NEW k \in Holding, k # j
        PROVE  owner'[slotOf[k]] = k /\ status'[slotOf[k]] = status[slotOf[k]]
    <3>1. owner[slotOf[k]] = k
      BY <2>1 DEF TableInv, HoldInv
    <3>2. slotOf[k] # slotOf[j]
      BY <3>1, <2>1, <1>4
    <3> QED BY <3>1, <3>2, <1>2
  <2> QED BY <2>1, <1>2, <1>5 DEF TableInv, HoldInv, Terminal
<1>9. ExcludeInv'
  BY <1>5 DEF TableInv, ExcludeInv
<1>10. CountExact'
  BY <1>2, <1>3, <1>5, HolderLeaves
<1> QED BY <1>6, <1>7, <1>8, <1>9, <1>10 DEF TableInv

\* The late mark may hit a slot of any state and any owner: a holder's slot
\* is only confirmed by it.
LEMMA MarkTable ==
  ASSUME TypeOK, TableInv, NEW j \in Job, Mark(j)
  PROVE  TableInv'
<1> USE DEF TypeOK, Committed
<1>1. \A k \in Job : pc'[k] = IF k = j THEN "accepted" ELSE pc[k]
  BY DEF Mark, Goto, Proc
<1>2. /\ pc[j] = "mark"
      /\ status' = [status EXCEPT ![slotOf[j]] = "running"]
      /\ UNCHANGED <<owner, running, slotOf, task>>
  BY DEF Mark
<1>3. Holding' = Holding
  BY <1>1, <1>2 DEF Holding, Live
<1>4. PhaseInv'
  BY <1>1, <1>2 DEF TableInv, PhaseInv
<1>5. OwnerInv'
  BY <1>1, <1>2 DEF TableInv, OwnerInv
<1>6. HoldInv'
  <2>1. \A k \in Holding : k \in Job /\ pc[k] \in Committed /\ slotOf[k] \in Slot
    BY DEF TableInv, PhaseInv, Holding, Live
  <2>2. \A x \in Slot : status'[x] \in {"running", status[x]}
    BY <1>2
  <2> QED BY <1>2, <1>3, <2>1, <2>2 DEF TableInv, HoldInv, Terminal
<1>7. ExcludeInv' /\ CountExact'
  BY <1>2, <1>3 DEF TableInv, ExcludeInv, CountExact, Holding
<1> QED BY <1>4, <1>5, <1>6, <1>7 DEF TableInv

\* The end of a script gives up its slot, in which it finds itself.
LEMMA FinishTable ==
  ASSUME TypeOK, TableInv, NEW j \in Job, Finish(j)
  PROVE  TableInv'
<1> USE DEF TypeOK, Committed
<1>1. j \in Holding
  BY DEF Finish, Holding, Live
<1>2. owner[slotOf[j]] = j /\ pc[j] \in {"mark", "accepted"}
  BY <1>1 DEF TableInv, HoldInv, PhaseInv, Finish
<1>3. /\ task[j] = "running"
      /\ task' = [task EXCEPT ![j] = "giving"]
      /\ \E e \in {"ended", "stopped"} :
           status' = [status EXCEPT ![slotOf[j]] = e]
      /\ running' = IF running > 0 THEN running - 1 ELSE 0
      /\ UNCHANGED <<owner, slotOf, pc>>
  BY <1>2 DEF Finish, calls
<1>4. Holding' = Holding \ {j}
  BY <1>2, <1>3 DEF Holding, Live
<1>5. PhaseInv'
  BY <1>3 DEF TableInv, PhaseInv
<1>6. OwnerInv'
  BY <1>3 DEF TableInv, OwnerInv
<1>7. HoldInv'
  <2>1. ASSUME NEW k \in Holding, k # j
        PROVE  owner'[slotOf[k]] = k /\ status'[slotOf[k]] = status[slotOf[k]]
    <3>1. owner[slotOf[k]] = k
      BY <2>1 DEF TableInv, HoldInv
    <3>2. slotOf[k] # slotOf[j]
      BY <3>1, <2>1, <1>2
    <3> QED BY <3>1, <3>2, <1>3
  <2> QED BY <2>1, <1>3, <1>4 DEF TableInv, HoldInv, Terminal
<1>8. ExcludeInv'
  BY <1>4 DEF TableInv, ExcludeInv
<1>9. CountExact'
  BY <1>1, <1>3, <1>4, HolderLeaves
<1> QED BY <1>5, <1>6, <1>7, <1>8, <1>9 DEF TableInv

LEMMA GiveTable ==
  ASSUME TypeOK, TableInv, NEW j \in Job, Give(j)
  PROVE  TableInv'
<1> USE DEF TypeOK
<1>1. /\ task[j] = "giving" /\ task' = [task EXCEPT ![j] = "gone"]
      /\ UNCHANGED <<owner, status, running, slotOf, pc>>
  BY DEF Give, table, calls
<1>2. Holding' = Holding
  BY <1>1 DEF Holding, Live
<1>3. PhaseInv'
  BY <1>1 DEF TableInv, PhaseInv
<1>4. OwnerInv'
  BY <1>1 DEF TableInv, OwnerInv
<1>5. HoldInv' /\ ExcludeInv' /\ CountExact'
  BY <1>1, <1>2 DEF TableInv, HoldInv, ExcludeInv, Terminal, CountExact, Holding
<1> QED BY <1>3, <1>4, <1>5 DEF TableInv

-----------------------------------------------------------------------------
\* The calls that wait.

Past(j) == pc[j] \in Committed \cup {"refused"}

\* Where no submission takes back its commitment and no old one comes to hold
\* a slot again, targets stay what they are and reports stay true.
LEMMA CallsKept ==
  ASSUME TypeOK, TargetInv, ToldInv, UNCHANGED <<todo, told>>,
         \A k \in Job : Past(k) => Past(k)' /\ slotOf'[k] = slotOf[k],
         \A k \in Holding' : Past(k) => k \in Holding
  PROVE  TargetInv' /\ ToldInv'
<1>1. \A p \in Proc : \A t \in todo[p] : t[2] \in Job
  BY DEF TypeOK
<1>2. \A w \in Stopper : told[w] \subseteq Job
  BY DEF TypeOK
<1>3. TargetInv'
  BY <1>1 DEF TargetInv, Past
<1>4. ToldInv'
  BY <1>2 DEF ToldInv, Past
<1> QED BY <1>3, <1>4

\* A quiet step may add targets it has found in the table, and reports of
\* jobs whose scripts are over.
LEMMA QuietCalls ==
  ASSUME TypeOK, TableInv, TargetInv, ToldInv, NEW p \in Proc, Quiet(p),
         \A q \in Proc : \A t \in todo'[q] :
           \/ t \in todo[q]
           \/ \E s \in Slot : owner[s] # Nothing /\ t = <<s, owner[s]>>,
         \A w \in Stopper : \A j \in told'[w] :
           j \in told[w] \/ (j \in Job /\ j \notin Holding /\ Past(j))
  PROVE  TargetInv' /\ ToldInv'
<1>1. /\ \A j \in Job : Past(j) => Past(j)'
      /\ Holding' = Holding /\ UNCHANGED slotOf
  BY QuietPhases DEF Past, Quiet, Committed
<1>2. TargetInv'
  <2>1. ASSUME NEW q \in Proc, NEW t \in todo'[q]
        PROVE  slotOf'[t[2]] = t[1] /\ Past(t[2])'
    <3>1. CASE t \in todo[q]
      <4>1. t[2] \in Job
        BY <3>1 DEF TypeOK
      <4>2. slotOf[t[2]] = t[1] /\ Past(t[2])
        BY <3>1 DEF TargetInv, Past
      <4> QED BY <1>1, <4>1, <4>2
    <3>2. ASSUME NEW s \in Slot, owner[s] # Nothing, t = <<s, owner[s]>>
          PROVE  slotOf'[t[2]] = t[1] /\ Past(t[2])'
      <4>1. owner[s] \in Job
        BY <3>2 DEF TypeOK
      <4>2. slotOf[owner[s]] = s /\ Past(owner[s])
        BY <3>2 DEF TableInv, OwnerInv, Past
      <4> QED BY <1>1, <3>2, <4>1, <4>2
    <3> QED BY <2>1, <3>1, <3>2
  <2> QED BY <2>1 DEF TargetInv, Past
<1>3. ToldInv'
  <2>1. ASSUME NEW w \in Stopper, NEW j \in told'[w]
        PROVE  j \notin Holding' /\ Past(j)'
    <3>1. CASE j \in told[w]
      BY <3>1, <1>1 DEF ToldInv, Past, TypeOK
    <3>2. CASE j \in Job /\ j \notin Holding /\ Past(j)
      BY <3>2, <1>1
    <3> QED BY <2>1, <3>1, <3>2
  <2> QED BY <2>1 DEF ToldInv, Past
<1> QED BY <1>2, <1>3

\* The answer "ok" of a wait is right: were the target still running, the
\* slot it is sought in would be its own and active.
LEMMA SettledIsOver ==
  ASSUME TypeOK, TableInv, TargetInv, NEW p \in Proc, NEW t \in todo[p],
         ~ Active(t[1])
  PROVE  t[2] \in Job /\ t[2] \notin Holding /\ Past(t[2])
<1>1. t[2] \in Job
  BY DEF TypeOK
<1>2. slotOf[t[2]] = t[1] /\ Past(t[2])
  BY DEF TargetInv, Past
<1>3. t[2] \notin Holding
  BY <1>1, <1>2 DEF TableInv, HoldInv, Active
<1> QED BY <1>1, <1>2, <1>3

\* The two invariants of the waiting calls, step by step.
LEMMA QuietStepCalls ==
  ASSUME TypeOK, TableInv, TargetInv, ToldInv, NEW p \in Proc,
         \/ p \in Job /\ (Submit(p) \/ Check(p))
         \/ p \in Stopper /\ (StopJob(p) \/ StopAll(p))
         \/ p \in Watcher /\ Watch(p)
         \/ WaitStep(p)
  PROVE  TargetInv' /\ ToldInv'
<1> DEFINE Found(s) == owner[s] # Nothing
<1> DEFINE NewTodo == \A q \in Proc : \A t \in todo'[q] :
             \/ t \in todo[q]
             \/ \E s \in Slot : owner[s] # Nothing /\ t = <<s, owner[s]>>
<1> DEFINE NewTold == \A w \in Stopper : \A j \in told'[w] :
             j \in told[w] \/ (j \in Job /\ j \notin Holding /\ Past(j))
<1>1. Quiet(p)
  BY QuietSteps
<1>2. CASE p \in Job /\ Submit(p)
  <2>1. NewTodo /\ NewTold
    BY <1>2 DEF Submit
  <2> QED BY <2>1, <1>1, QuietCalls
<1>3. CASE p \in Job /\ Check(p)
  <2>1. \A s \in Lowest(Holders(p)) : s \in Slot /\ owner[s] # Nothing
    BY DEF Lowest, Holders, Active
  <2>2. NewTodo /\ NewTold
    BY <1>3, <2>1 DEF Check, TypeOK
  <2> QED BY <2>2, <1>1, QuietCalls
<1>4. CASE p \in Stopper /\ StopJob(p)
  <2>1. NewTodo /\ NewTold
    BY <1>4 DEF StopJob, TypeOK
  <2> QED BY <2>1, <1>1, QuietCalls
<1>5. CASE p \in Stopper /\ StopAll(p)
  <2>1. PICK g : LET wanted == {s \in Slot : Wanted(s, g)} IN
            todo' = [todo EXCEPT ![p] = {<<s, owner[s]>> : s \in wanted}]
    BY <1>5 DEF StopAll
  <2>2. \A s \in Slot : Wanted(s, g) => owner[s] # Nothing
    BY DEF Wanted, Active
  <2>3. NewTodo
    BY <2>1, <2>2 DEF TypeOK
  <2>4. NewTold
    BY <1>5 DEF StopAll
  <2> QED BY <2>3, <2>4, <1>1, QuietCalls
<1>6. CASE p \in Watcher /\ Watch(p)
  <2>1. NewTodo /\ NewTold
    BY <1>6 DEF Watch, TypeOK
  <2> QED BY <2>1, <1>1, QuietCalls
<1>7. ASSUME NEW t \in todo[p], NEW a, Answer(p, t, a),
             a = "ok" => ~ Active(t[1])
      PROVE  NewTodo /\ NewTold
  <2>1. a = "ok" => t[2] \in Job /\ t[2] \notin Holding /\ Past(t[2])
    BY <1>7, SettledIsOver
  <2>2. NewTodo
    BY <1>7 DEF Answer, TypeOK
  <2>3. NewTold
    BY <1>7, <2>1 DEF Answer, TypeOK
  <2> QED BY <2>2, <2>3
<1>8. Current(p) \subseteq todo[p]
  BY DEF Current
<1>9. CASE Request(p)
  <2>1. NewTodo /\ NewTold
    BY <1>9, <1>7, <1>8 DEF Request, AskToStop, Active
  <2> QED BY <2>1, <1>1, QuietCalls
<1>10. CASE Probe(p)
  <2>1. NewTodo /\ NewTold
    BY <1>10, <1>7, <1>8 DEF Probe
  <2> QED BY <2>1, <1>1, QuietCalls
<1>11. CASE Wake(p) \/ WaitTimeout(p)
  <2>1. NewTodo /\ NewTold
    BY <1>11 DEF Wake, WaitTimeout
  <2> QED BY <2>1, <1>1, QuietCalls
<1>12. CASE Recheck(p)
  <2>1. NewTodo /\ NewTold
    BY <1>12, <1>7, <1>8 DEF Recheck
  <2> QED BY <2>1, <1>1, QuietCalls
<1> QED
  BY <1>2, <1>3, <1>4, <1>5, <1>6, <1>9, <1>10, <1>11, <1>12 DEF WaitStep

\* A stop flag is set for a job that was meant, and reset with a new owner.
LEMMA MeantStep ==
  ASSUME TypeOK, MeantInv, Next PROVE MeantInv'
<1> USE DEF TypeOK, MeantInv, StoppedWasMeant, Goto, table, calls
<1>1. ASSUME NEW j \in Job, Submit(j) PROVE MeantInv'
  BY <1>1 DEF Submit, Proc
<1>2. ASSUME NEW j \in Job, Check(j) PROVE MeantInv'
  BY <1>2 DEF Check, Proc
<1>3. ASSUME NEW j \in Job, Commit(j) PROVE MeantInv'
  <2>1. \A s \in Reusable : s \in Slot
    BY DEF Reusable, Lowest
  <2>2. ASSUME NEW s \in Reusable, Occupy(j, s), UNCHANGED <<todo, meant>>
        PROVE  MeantInv'
    BY <2>1, <2>2 DEF Occupy, Proc
  <2>3. ASSUME NEW l \in {"check", "refused"}, Goto(j, l),
               UNCHANGED <<owner, stop, todo, meant>>
        PROVE  MeantInv'
    BY <2>3 DEF Proc
  <2>4. CASE \E s \in Reusable : Occupy(j, s)
    BY <1>3, <2>2, <2>4 DEF Commit
  <2>5. CASE UNCHANGED <<owner, stop>> /\ \E l \in {"check", "refused"} : Goto(j, l)
    BY <1>3, <2>3, <2>5 DEF Commit
  <2>6. \/ \E s \in Reusable : Occupy(j, s)
        \/ UNCHANGED <<owner, stop>> /\ \E l \in {"check", "refused"} : Goto(j, l)
    BY <1>3 DEF Commit
  <2> QED BY <2>4, <2>5, <2>6
<1>4. ASSUME NEW j \in Job, Spawn(j) \/ SpawnFails(j) \/ Mark(j)
      PROVE  MeantInv'
  BY <1>4 DEF Spawn, SpawnFails, Mark, Proc
<1>5. ASSUME NEW j \in Job, Finish(j) \/ Give(j) PROVE MeantInv'
  BY <1>5 DEF Finish, Give
<1>6. ASSUME NEW w \in Stopper, StopJob(w) PROVE MeantInv'
  BY <1>6 DEF StopJob, Proc
<1>7. ASSUME NEW w \in Stopper, StopAll(w) PROVE MeantInv'
  <2>1. PICK g : LET wanted == {s \in Slot : Wanted(s, g)} IN
            /\ todo' = [todo EXCEPT ![w] = {<<s, owner[s]>> : s \in wanted}]
            /\ meant' = meant \cup {owner[s] : s \in wanted}
    BY <1>7 DEF StopAll
  <2>2. \A q \in Proc \ Watcher : \A t \in todo'[q] : t[2] \in meant'
    BY <2>1
  <2>3. \A x \in Watcher : pc'[x] # "request"
    BY <1>7 DEF StopAll, Proc
  <2> QED BY <1>7, <2>1, <2>2, <2>3 DEF StopAll
<1>8. ASSUME NEW w \in Watcher, Watch(w) PROVE MeantInv'
  BY <1>8 DEF Watch, Proc
<1>9. ASSUME NEW p \in Proc, NEW t, NEW a, Answer(p, t, a),
             UNCHANGED <<owner, stop, meant>>
      PROVE  MeantInv'
  <2>1. \A q \in Proc : todo'[q] \subseteq todo[q]
    BY <1>9 DEF Answer
  <2>2. \A w \in Watcher : pc'[w] # "request"
    BY <1>9 DEF Answer, Proc
  <2> QED BY <1>9, <2>1, <2>2
<1>10. ASSUME NEW p \in Proc, Request(p) PROVE MeantInv'
  <2>1. PICK t \in Current(p) :
          IF owner[t[1]] # t[2]
          THEN Answer(p, t, "not found") /\ UNCHANGED stop
          ELSE IF Terminal(t[1]) THEN Answer(p, t, "ok") /\ UNCHANGED stop
          ELSE AskToStop(p, t[1])
    BY <1>10 DEF Request
  <2>2. CASE \E a : Answer(p, t, a) /\ UNCHANGED stop
    BY <1>9, <1>10, <2>2 DEF Request
  <2>3. CASE owner[t[1]] = t[2] /\ AskToStop(p, t[1])
    <3>0. p \notin Watcher /\ t \in todo[p]
      BY <1>10 DEF Request, Current
    <3>1. t[2] \in meant /\ t[1] \in Slot
      BY <3>0
    <3>2. \A w \in Watcher : pc'[w] # "request"
      BY <2>3 DEF AskToStop, Proc
    <3> QED BY <1>10, <2>3, <3>1, <3>2 DEF Request, AskToStop
  <2> QED BY <2>1, <2>2, <2>3
<1>11. ASSUME NEW p \in Proc, Probe(p) PROVE MeantInv'
  BY <1>9, <1>11 DEF Probe, Proc
<1>12. ASSUME NEW p \in Proc, Wake(p) \/ WaitTimeout(p) PROVE MeantInv'
  BY <1>12 DEF Wake, WaitTimeout, Proc
<1>13. ASSUME NEW p \in Proc, Recheck(p) PROVE MeantInv'
  BY <1>9, <1>13 DEF Recheck
<1> QED
  BY <1>1, <1>2, <1>3, <1>4, <1>5, <1>6, <1>7, <1>8, <1>10, <1>11, <1>12,
     <1>13 DEF Next, SubmitStep, WaitStep

-----------------------------------------------------------------------------
LEMMA InitInv == Init => IInv
<1> SUFFICES ASSUME Init PROVE IInv
  OBVIOUS
<1>1. TypeOK
  BY DEF Init, TypeOK, Label, Slot, Proc
<1>2. \A j \in Job : j \in Proc
  BY DEF Proc
<1>3. Live \cup {j \in Job : pc[j] = "spawn"} = {}
  BY <1>2 DEF Init, Live
<1>4. TableInv
  <2>1. PhaseInv /\ OwnerInv
    BY <1>2 DEF Init, PhaseInv, OwnerInv, Committed
  <2>2. HoldInv /\ ExcludeInv
    BY <1>3 DEF HoldInv, ExcludeInv, Holding
  <2>3. CountExact
    BY <1>3, FS_EmptySet DEF Init, CountExact
  <2> QED BY <2>1, <2>2, <2>3 DEF TableInv
<1>5. TargetInv /\ ToldInv /\ MeantInv
  BY DEF Init, TargetInv, ToldInv, MeantInv, StoppedWasMeant, Proc
<1> QED BY <1>1, <1>4, <1>5 DEF IInv

LEMMA StepInv ==
  ASSUME IInv, TypeOK', [Next]_vars PROVE IInv'
<1> USE DEF IInv
<1>1. CASE UNCHANGED vars
  <2>1. Holding' = Holding
    BY <1>1 DEF vars, Holding, Live
  <2>2. TableInv'
    BY <1>1, <2>1 DEF vars, TableInv, PhaseInv, OwnerInv, HoldInv, ExcludeInv,
                      Terminal, CountExact, Holding, Live
  <2>3. TargetInv' /\ ToldInv' /\ MeantInv'
    BY <1>1, <2>1 DEF vars, TargetInv, ToldInv, MeantInv, StoppedWasMeant
  <2> QED BY <2>2, <2>3
<1>2. CASE Next
  <2>1. MeantInv'
    BY <1>2, MeantStep
  <2>2. ASSUME NEW p \in Proc,
               \/ p \in Job /\ (Submit(p) \/ Check(p))
               \/ p \in Stopper /\ (StopJob(p) \/ StopAll(p))
               \/ p \in Watcher /\ Watch(p)
               \/ WaitStep(p)
        PROVE  TableInv' /\ TargetInv' /\ ToldInv'
    <3>1. Quiet(p)
      BY <2>2, QuietSteps
    <3>2. TableInv'
      BY <3>1, QuietTable
    <3> QED BY <2>2, <3>2, QuietStepCalls
  <2>3. ASSUME NEW j \in Job, Commit(j)
        PROVE  TableInv' /\ TargetInv' /\ ToldInv'
    <3>1. pc[j] = "commit" /\ UNCHANGED <<todo, task, told>> /\ ~ Past(j)
      BY <2>3 DEF Commit, Past, Committed
    <3>2. ASSUME Holders(j) = {}, NEW s \in Reusable, Occupy(j, s)
          PROVE  TableInv' /\ TargetInv' /\ ToldInv'
      <4>1. TableInv'
        BY <3>1, <3>2, OccupyTable
      <4>2. /\ \A k \in Job : k # j => pc'[k] = pc[k] /\ slotOf'[k] = slotOf[k]
            /\ UNCHANGED task
        BY <3>1, <3>2 DEF Occupy, Goto, Proc, TypeOK
      <4>3. \A k \in Holding' : k # j => k \in Holding
        BY <4>2 DEF Holding, Live
      <4> QED BY <3>1, <4>1, <4>2, <4>3, CallsKept DEF Past
    <3>3. ASSUME NEW l \in {"check", "refused"}, Goto(j, l),
                 UNCHANGED <<table, running, slotOf>>
          PROVE  TableInv' /\ TargetInv' /\ ToldInv'
      <4>1. Quiet(j) /\ j \in Proc
        BY <3>1, <3>3 DEF Quiet, table, Committed, Label, Proc
      <4>2. TableInv'
        BY <4>1, QuietTable
      <4> QED BY <3>1, <4>1, <4>2, QuietCalls
    <3>4. \/ Holders(j) = {} /\ \E s \in Reusable : Occupy(j, s)
          \/ \E l \in {"check", "refused"} :
               Goto(j, l) /\ UNCHANGED <<table, running, slotOf>>
      BY <2>3 DEF Commit
    <3> QED BY <3>2, <3>3, <3>4
  <2>4. ASSUME NEW j \in Job,
               Spawn(j) \/ SpawnFails(j) \/ Mark(j) \/ Finish(j) \/ Give(j)
        PROVE  TableInv' /\ TargetInv' /\ ToldInv'
    <3>1. TableInv'
      BY <2>4, SpawnTable, SpawnFailsTable, MarkTable, FinishTable, GiveTable
    <3>2. UNCHANGED <<todo, told, slotOf>>
      BY <2>4 DEF Spawn, SpawnFails, Mark, Finish, Give, calls
    <3>3. \A k \in Job : Past(k) => Past(k)'
      BY <2>4 DEF Spawn, SpawnFails, Mark, Finish, Give, calls, Goto, Past,
                  Committed, TypeOK, Proc
    <3>4. Holding' \subseteq Holding
      BY <2>4 DEF Spawn, SpawnFails, Mark, Finish, Give, calls, Goto, Holding,
                  Live, TypeOK, Proc
    <3> QED BY <3>1, <3>2, <3>3, <3>4, CallsKept
  <2> QED
    BY <1>2, <2>1, <2>2, <2>3, <2>4 DEF Next, SubmitStep, Proc
<1> QED BY <1>1, <1>2

LEMMA Invariant == Spec => []IInv
<1>1. IInv /\ TypeOK' /\ [Next]_vars => IInv'
  BY StepInv
<1> QED BY <1>1, InitInv, TypeCorrect, PTL DEF Spec

-----------------------------------------------------------------------------
\* s_running_jobs is the number of scripts that run or are about to be
\* started, whatever the order of failures, early ends and late marks.
THEOREM CountIsExact == Spec => []CountExact
<1>1. IInv => CountExact BY DEF IInv, TableInv
<1> QED BY <1>1, Invariant, PTL

\* A script's slot is not given away while the script runs.
THEOREM SlotIsKept == Spec => []ScriptKeepsSlot
<1>1. IInv => ScriptKeepsSlot
  BY DEF IInv, TableInv, HoldInv, Holding, ScriptKeepsSlot
<1> QED BY <1>1, Invariant, PTL

\* Scripts that share a name or a group never run at the same time.
THEOREM ConflictsExcluded == Spec => []ScriptsExclude
<1>1. IInv => ScriptsExclude
  BY DEF IInv, TableInv, ExcludeInv, Holding, ScriptsExclude
<1> QED BY <1>1, Invariant, PTL

\* A job that a stop call was told has stopped is over.
THEOREM StopIsReliable == Spec => []StoppedIsOver
<1>1. IInv => StoppedIsOver
  BY DEF IInv, ToldInv, Holding, StoppedIsOver
<1> QED BY <1>1, Invariant, PTL

\* Only a call that decided to stop a job sets its stop flag.
THEOREM StopIsMeant == Spec => []StoppedWasMeant
<1>1. IInv => StoppedWasMeant BY DEF IInv, MeantInv
<1> QED BY <1>1, Invariant, PTL
=============================================================================
