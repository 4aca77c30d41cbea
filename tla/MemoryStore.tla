---------------------------- MODULE MemoryStore ----------------------------
(***************************************************************************)
(* Long-term memory (claw_memory.c, claw_memory_storage.c).  Memories are  *)
(* records of a log file, the last record of an id counts; a second file,  *)
(* the index, holds the labels that the agent is shown, with the number of *)
(* memories that carry each.  Every call rewrites the index, and every few *)
(* changes, and every boot, compaction rewrites both files.                *)
(*                                                                         *)
(* A call is the list of file operations it still has to make, so that the *)
(* power may fail between any two.  Files are rewritten in place.  An      *)
(* operation may fail by itself: a file that cannot be opened for reading  *)
(* counts as missing (read_file_dup, ensure_file_with_default), a write    *)
(* that is noticed ends the call, and the result of fclose is not looked   *)
(* at, so that a lost write may pass for a good one.                       *)
(*                                                                         *)
(* Left out: recall and its counters, the digest, keywords, every text     *)
(* that only contains another, and compaction because the log is too long. *)
(* Of the Markdown copy only its failure is there.  A memory has one label;*)
(* the number of a label in the index stands for the label.  (An index     *)
(* that was taken to be missing numbers its labels anew: astray then says  *)
(* that refs means nothing until the next compaction.)  A line of the log  *)
(* that was written in part does not parse.  The buffer of a compaction is *)
(* taken to be large enough, and one task calls.                           *)
(***************************************************************************)
EXTENDS Naturals, Sequences, FiniteSets

CONSTANTS
  Key,        \* the first 36 normalised characters of a text
  Label,      \* summary labels
  Threshold,  \* CLAW_MEMORY_COMPACT_CHANGE_THRESHOLD
  Capacity,   \* CLAW_MEMORY_MAX_ACTIVE_ITEMS
  MaxIds, MaxFails, MaxFaults \* bounds on the memories, on the power failures
              \* and on the file operations that fail

ASSUME MemoryAssumption ==
  {Threshold, Capacity} \subseteq Nat \ {0} /\ {MaxIds, MaxFails, MaxFaults} \subseteq Nat

VARIABLES
  items,   \* the records file, as load_current_items reads it
  stub,    \* the records file ends in a part of a line
  refs,    \* the index: how often each label is counted; 0 is not listed
  torn,    \* the index file does not parse
  changes, \* write_changes_since_compact
  plan,    \* file operations that the running call still has to make
  booted,
  ids,     \* ids that were ever given
  used,    \* ids given since the boot
  fails, faults,
  updated, \* history: what the last call updated successfully, a set of keys
  astray   \* history: since the last whole compaction an operation failed, or an
           \* id was given again, so that records and index went apart

fileVars == <<items, stub, refs, torn, astray>>
idVars == <<ids, used>>
memoryVars == <<fileVars, changes, plan, booted, idVars, fails, faults, updated>>

MemoryInit ==
  /\ items = <<>> /\ stub = FALSE /\ refs = [l \in Label |-> 0] /\ torn = FALSE
  /\ changes = 0 /\ plan = <<>> /\ booted = TRUE
  /\ ids = 0 /\ used = {} /\ fails = 0 /\ faults = 0
  /\ updated = {} /\ astray = FALSE

Live(list) == {n \in DOMAIN list : ~ list[n].deleted}
HasLive(list, id) == \E n \in Live(list) : list[n].id = id
LiveItem(list, id) == list[CHOOSE n \in Live(list) : list[n].id = id]
Uses(list, l) == Cardinality({n \in Live(list) : list[n].label = l})

\* append_record, seen by the next load_current_items.
Put(list, item) ==
  IF \E n \in DOMAIN list : list[n].id = item.id
  THEN [n \in DOMAIN list |-> IF list[n].id = item.id THEN item ELSE list[n]]
  ELSE Append(list, item)

\* adjust_summary_stats never goes below 0.
Adjusted(l, up) ==
  [refs EXCEPT ![l] = IF up THEN @ + 1 ELSE IF @ = 0 THEN 0 ELSE @ - 1]

\* Of several memories with one key the first stays.
Heads(list) == {n \in Live(list) : \A m \in Live(list) : m < n => list[m].key # list[n].key}

Allowed(list) == IF Cardinality(Heads(list)) < Capacity THEN Cardinality(Heads(list)) ELSE Capacity

Selections(list) ==
  {place \in [1..Allowed(list) -> Heads(list)] : \A j, k \in DOMAIN place : j < k => place[j] < place[k]}

Wordings(list) ==
  {words \in [Heads(list) -> Live(list)] : \A n \in Heads(list) : list[words[n]].key = list[n].key}

\* What compaction may make of the items: deleted ones go; of several with one
\* key the first stays, with the words of the newest; the oldest go over
\* capacity.  Which are newest and oldest is left open.
Compacted(list) ==
  {[k \in DOMAIN place |-> [list[place[k]] EXCEPT !.label = list[words[place[k]]].label]] :
     place \in Selections(list), words \in Wordings(list)}

-----------------------------------------------------------------------------
(* The calls. *)

Ready == booted /\ plan = <<>>

Fault == faults < MaxFaults /\ faults' = faults + 1
FaultIf(bad) == IF bad THEN Fault ELSE UNCHANGED faults

\* What a step needs of the index was read before it: missing says that the file
\* could not be opened, and the step starts with an empty index.
RecordStep(item) == [do |-> "record", item |-> item]
CountStep(l, up, missing) == [do |-> "count", label |-> l, up |-> up, missing |-> missing]
TidyStep == [do |-> "tidy"]
CompactStep(missing) == [do |-> "compact", missing |-> missing]
RecountStep(list, whole) == [do |-> "recount", list |-> list, whole |-> whole]
ForgetStep(id) == [do |-> "forget", id |-> id]
DoneStep(key) == [do |-> "done", key |-> key]

StoreSteps(id, key, label, missing) ==
  <<RecordStep([id |-> id, key |-> key, label |-> label, deleted |-> FALSE]),
    CountStep(label, TRUE, missing), TidyStep>>

\* claw_memory_make_id: the seconds, and a number that begins anew at each boot.
\* Before the time is set the seconds begin anew too, and an id from before the
\* boot may come again; which one is left open.
NextIds == (1..ids \ used) \cup (IF ids < MaxIds THEN {ids + 1} ELSE {})
TakeId(id) == ids' = (IF id > ids THEN id ELSE ids) /\ used' = used \cup {id}

\* A duplicate is not stored, and nothing is when the index does not parse.
Store(key, label) ==
  /\ Ready
  /\ \A n \in Live(items) : items[n].key # key
  /\ \E id \in NextIds, missing \in BOOLEAN :
       /\ torn => missing
       /\ FaultIf(missing) /\ TakeId(id)
       /\ plan' = StoreSteps(id, key, label, missing)
  /\ updated' = {}
  /\ UNCHANGED <<fileVars, changes, booted, fails>>

Forget(id) ==
  /\ Ready /\ HasLive(items, id)
  /\ plan' = <<ForgetStep(id)>>
  /\ updated' = {}
  /\ UNCHANGED <<fileVars, changes, booted, idVars, fails, faults>>

\* The replacement is stored under a new id, unless another memory has its key,
\* and the memory that was named is forgotten.
UpdateMemory(id, key, label) ==
  /\ Ready /\ HasLive(items, id)
  /\ LET old == LiveItem(items, id)
         same == \E n \in Live(items) : items[n].id # id /\ items[n].key = key
     IN  /\ old.key # key \/ old.label # label
         /\ \E new \in NextIds, missing \in BOOLEAN :
              /\ torn /\ ~ same => missing
              /\ same => ~ missing
              /\ FaultIf(missing) /\ TakeId(new)
              /\ plan' = (IF same THEN <<>> ELSE StoreSteps(new, key, label, missing))
                           \o <<ForgetStep(id), TidyStep, DoneStep(key)>>
  /\ updated' = {}
  /\ UNCHANGED <<fileVars, changes, booted, fails>>

-----------------------------------------------------------------------------
(* The file operations. *)

NextDoes(what) == plan # <<>> /\ Head(plan).do = what
Advance(more) == plan' = more \o Tail(plan)
GiveUpCall == plan' = <<>>

\* A line that follows a part of one is lost with it.
WriteRecord ==
  /\ NextDoes("record")
  /\ LET item == Head(plan).item IN
       IF stub
       THEN astray' = TRUE /\ UNCHANGED items
       ELSE /\ items' = Put(items, item)
            /\ astray' = (astray \/ (~ item.deleted /\ HasLive(items, item.id)))
  /\ stub' = FALSE
  /\ Advance(<<>>)
  /\ UNCHANGED <<refs, torn, changes, booted, idVars, fails, faults, updated>>

\* Nothing or a part of the line is written; fclose alone may know.
RecordFails ==
  /\ NextDoes("record") /\ Fault
  /\ stub' \in {stub, TRUE}
  /\ \/ GiveUpCall /\ UNCHANGED astray
     \/ Advance(<<>>) /\ astray' = TRUE
  /\ UNCHANGED <<items, refs, torn, changes, booted, idVars, fails, updated>>

HasIndex(step) == step.missing \/ ~ torn

\* A missing index lists no label, and a forget finds none to take from.
Counted(step) ==
  IF step.missing THEN [l \in Label |-> IF step.up /\ l = step.label THEN 1 ELSE 0]
                  ELSE Adjusted(step.label, step.up)

SaveCount(step) == refs' = Counted(step) /\ torn' = FALSE /\ astray' = (astray \/ step.missing)

CountLabel ==
  /\ NextDoes("count")
  /\ IF HasIndex(Head(plan))
     THEN SaveCount(Head(plan)) /\ changes' = changes + 1 /\ Advance(<<>>)
     ELSE GiveUpCall /\ UNCHANGED <<refs, torn, astray, changes>>
  /\ UNCHANGED <<items, stub, booted, idVars, fails, faults, updated>>

\* The index cannot be read or opened; its text is written in part, which fclose
\* alone may know; or the Markdown copy fails after it.
CountFails ==
  /\ NextDoes("count") /\ HasIndex(Head(plan)) /\ Fault
  /\ \/ GiveUpCall /\ astray' = TRUE /\ UNCHANGED <<refs, torn, changes>>
     \/ GiveUpCall /\ torn' = TRUE /\ UNCHANGED <<refs, astray, changes>>
     \/ Advance(<<>>) /\ torn' = TRUE /\ changes' = changes + 1 /\ UNCHANGED <<refs, astray>>
     \/ GiveUpCall /\ SaveCount(Head(plan)) /\ UNCHANGED changes
  /\ UNCHANGED <<items, stub, booted, idVars, fails, updated>>

\* forget_with_result: not found ends the call, and so do unreadable records.
ForgetIt ==
  /\ NextDoes("forget")
  /\ LET id == Head(plan).id
         item == LiveItem(items, id)
     IN  \/ ~ HasLive(items, id) /\ GiveUpCall /\ UNCHANGED faults
         \/ HasLive(items, id) /\ GiveUpCall /\ Fault
         \/ /\ HasLive(items, id)
            /\ \E missing \in BOOLEAN :
                 /\ FaultIf(missing)
                 /\ Advance(<<RecordStep([item EXCEPT !.deleted = TRUE]),
                              CountStep(item.label, FALSE, missing), TidyStep>>)
  /\ UNCHANGED <<fileVars, changes, booted, idVars, fails, updated>>

\* maybe_compact.
Tidy ==
  /\ NextDoes("tidy")
  /\ IF changes < Threshold
     THEN Advance(<<>>) /\ UNCHANGED faults
     ELSE \E missing \in BOOLEAN : FaultIf(missing) /\ Advance(<<CompactStep(missing)>>)
  /\ UNCHANGED <<fileVars, changes, booted, idVars, fails, updated>>

\* compact_internal: the records, and then the index.
Compact ==
  /\ NextDoes("compact")
  /\ IF HasIndex(Head(plan))
     THEN \E full \in Compacted(items) :
            items' = full /\ stub' = FALSE /\ Advance(<<RecountStep(full, TRUE)>>)
     ELSE GiveUpCall /\ UNCHANGED <<items, stub>>
  /\ UNCHANGED <<refs, torn, astray, changes, booted, idVars, fails, faults, updated>>

\* A part of the compacted records reaches the file.
Part(full) == \E n \in 0..Len(full) : items' = SubSeq(full, 1, n)

\* A file cannot be read, or the records cannot be opened; or they are written in
\* part, which fclose alone may know.
CompactFails ==
  /\ NextDoes("compact") /\ HasIndex(Head(plan)) /\ Fault
  /\ \/ /\ GiveUpCall /\ astray' = TRUE /\ changes' \in {changes, 0}
        /\ UNCHANGED <<items, stub>>
     \/ \E full \in Compacted(items) :
          /\ Part(full) /\ stub' \in BOOLEAN
          /\ \/ GiveUpCall /\ astray' = TRUE /\ changes' = 0
             \/ Advance(<<RecountStep(full, FALSE)>>) /\ UNCHANGED <<astray, changes>>
  /\ UNCHANGED <<refs, torn, booted, idVars, fails, updated>>

SaveRecount(step) ==
  refs' = [l \in Label |-> Uses(step.list, l)] /\ torn' = FALSE /\ astray' = ~ step.whole

Recount ==
  /\ NextDoes("recount")
  /\ SaveRecount(Head(plan)) /\ changes' = 0
  /\ Advance(<<>>)
  /\ UNCHANGED <<items, stub, booted, idVars, fails, faults, updated>>

RecountFails ==
  /\ NextDoes("recount") /\ Fault /\ changes' = 0
  /\ \/ GiveUpCall /\ astray' = TRUE /\ UNCHANGED <<refs, torn>>
     \/ (GiveUpCall \/ Advance(<<>>)) /\ torn' = TRUE /\ UNCHANGED <<refs, astray>>
     \/ GiveUpCall /\ SaveRecount(Head(plan))
  /\ UNCHANGED <<items, stub, booted, idVars, fails, updated>>

Done ==
  /\ NextDoes("done")
  /\ updated' = {Head(plan).key}
  /\ Advance(<<>>)
  /\ UNCHANGED <<fileVars, changes, booted, idVars, fails, faults>>

-----------------------------------------------------------------------------
(* The power fails, between two operations or in one: the records are then   *)
(* what had been written of them, and the index does not parse.              *)

PowerFails ==
  /\ booted /\ fails < MaxFails /\ fails' = fails + 1
  /\ \/ UNCHANGED <<items, stub, torn>>
     \/ NextDoes("record") /\ stub' = TRUE /\ UNCHANGED <<items, torn>>
     \/ /\ NextDoes("compact") /\ HasIndex(Head(plan))
        /\ \E full \in Compacted(items) : Part(full)
        /\ stub' \in BOOLEAN /\ UNCHANGED torn
     \/ (NextDoes("count") \/ NextDoes("recount")) /\ torn' = TRUE /\ UNCHANGED <<items, stub>>
  /\ booted' = FALSE /\ plan' = <<>> /\ changes' = 0 /\ used' = {} /\ updated' = {}
  /\ UNCHANGED <<refs, astray, ids, faults>>

\* Variant: the files are taken as they are.
BootAsIs ==
  /\ ~ booted /\ booted' = TRUE
  /\ UNCHANGED <<fileVars, changes, plan, idVars, fails, faults, updated>>

\* claw_memory_init: a file that cannot be opened is made anew; then it compacts,
\* and does not mind when that fails.
BootMemory ==
  /\ ~ booted /\ booted' = TRUE
  /\ \/ /\ UNCHANGED <<items, stub, refs, torn>>
        /\ \E missing \in BOOLEAN : FaultIf(missing) /\ plan' = <<CompactStep(missing)>>
     \/ /\ Fault /\ items' = <<>> /\ stub' = FALSE /\ UNCHANGED <<refs, torn>>
        /\ plan' = <<CompactStep(FALSE)>>
     \/ /\ Fault /\ refs' = [l \in Label |-> 0] /\ torn' = FALSE /\ UNCHANGED <<items, stub>>
        /\ plan' = <<CompactStep(FALSE)>>
  /\ UNCHANGED <<astray, changes, idVars, fails, updated>>

MemoryNext ==
  \/ \E key \in Key, l \in Label :
       Store(key, l) \/ \E id \in 1..ids : UpdateMemory(id, key, l)
  \/ \E id \in 1..ids : Forget(id)
  \/ WriteRecord \/ RecordFails \/ CountLabel \/ CountFails \/ ForgetIt \/ Tidy
  \/ Compact \/ CompactFails \/ Recount \/ RecountFails \/ Done
  \/ PowerFails \/ BootMemory

MemorySpec == MemoryInit /\ [][MemoryNext]_memoryVars

-----------------------------------------------------------------------------
(* Properties. *)

\* Every memory can be found: between two calls its label is in the index, as
\* often as there are memories that carry it, whatever calls and power failures
\* came before, as long as the index can be read at all.  An operation that
\* fails by itself, or an id that names a living memory again, may take the two
\* files apart (astray); the next compaction that succeeds, at the latest at a
\* boot, brings them together, also when the index had to be made anew.
CatalogMatches ==
  (Ready /\ ~ torn /\ ~ astray) => \A l \in Label : refs[l] = Uses(items, l)

\* An update that succeeded leaves a memory with the new text.
UpdateKeeps == Ready => \A key \in updated : \E n \in Live(items) : items[n].key = key
=============================================================================
