----------------------------- MODULE RuleStore ------------------------------
(***************************************************************************)
(* The rule store of claw_event_router.c.  The router runs the rules it    *)
(* has in memory.  A call that adds, updates or deletes a rule reads the   *)
(* rules FILE, edits the list it found, replaces the file (temporary file, *)
(* remove, rename), and only then replaces the list in memory, which is    *)
(* the one step it makes under the mutex.  The other steps of two calls    *)
(* interleave: the console, the agent's tools, Lua jobs and rule actions   *)
(* run in tasks of their own, and all use the same temporary file.         *)
(*                                                                         *)
(* The file system is FAT without file locks (CONFIG_FATFS_FS_LOCK is 0):  *)
(* rename refuses an existing target, a file may be open twice, and what a *)
(* handle writes after its file was truncated, removed or renamed by       *)
(* somebody else is undefined.  Removing and renaming are atomic, reading  *)
(* a file is one step, and nobody else edits the file.                     *)
(***************************************************************************)
EXTENDS Naturals, Sequences, Functions

CONSTANTS
  Caller,           \* the tasks that call the store
  Id, NoId, Body,   \* ids of rules, and all else that is in a rule
  Rule,             \* the rules callers ask for
  MaxRules,         \* max_rules
  Missing, Damaged, \* a file that is not there, or that does not parse
  InitialFiles,     \* what the flash image may hold
  MaxFaults         \* bound: failed file operations, and resets

UniqueIds(l) == \A m, n \in DOMAIN l : l[m].id = l[n].id => m = n
IsRules(l)   == l \in Seq(Rule) /\ Len(l) =< MaxRules
IsFile(f)    == f \in {Missing, Damaged} \/ IsRules(f)

ASSUME ConstantsAssumption ==
  /\ Rule \subseteq [id : Id, body : Body] /\ NoId \notin Id
  /\ MaxRules \in Nat /\ MaxFaults \in Nat
  /\ Missing # Damaged
  /\ Missing \notin Seq(Rule) /\ Damaged \notin Seq(Rule)
  /\ \A f \in InitialFiles : f = Missing \/ (IsRules(f) /\ UniqueIds(f))

VARIABLES
  rules,    \* s_runtime->rules
  up,       \* s_runtime->initialized
  file,     \* the rules file
  tmp,      \* its temporary file
  call,     \* the call each task is in
  faults,   \* how much has gone wrong so far
  excused,  \* history: since start-up calls have overlapped, a file that
            \* could not be opened was taken for one that is not there, or
            \* a failed fclose went unnoticed
  unnamed   \* history: since start-up the last rename has failed

vars    == <<rules, up, file, tmp, call, faults, excused, unnamed>>
history == <<faults, excused, unnamed>>

Pc   == {"idle", "open", "write", "remove", "rename", "commit"}
Idle == [pc |-> "idle", id |-> NoId, root |-> <<>>, found |-> FALSE]

Quiet      == \A c \in Caller : call[c].pc = "idle"
Alone(c)   == \A d \in Caller \ {c} : call[d].pc = "idle"
Goto(c, l) == call' = [call EXCEPT ![c].pc = l]
Return(c)  == call' = [call EXCEPT ![c] = Idle]
Fault      == faults < MaxFaults /\ faults' = faults + 1
NoFault    == UNCHANGED faults

-----------------------------------------------------------------------------
\* load_rules_from_file.  read_file answers "not found" whenever fopen fails,
\* whatever the reason, and that stands for an empty list.

Misread(old) == old # file /\ file # Missing
Loads        == (IF IsRules(file) THEN {file} ELSE {})
                \cup (IF file = Missing \/ faults < MaxFaults THEN {<<>>} ELSE {})
CountMisread(old) == IF Misread(old) THEN Fault ELSE NoFault

\* A call that edits the list old that it has loaded goes on to store the
\* new list (l = "open"); a reload goes on to use it (l = "commit").
Begin(c, i, old, new, l) ==
  /\ up /\ call[c].pc = "idle"
  /\ IsRules(new)
  /\ call' = [call EXCEPT ![c] =
                [pc |-> l, id |-> i, root |-> new, found |-> file = old]]
  /\ CountMisread(old)
  /\ excused' = (excused \/ Misread(old) \/ ~ Alone(c))
  /\ UNCHANGED <<rules, up, file, tmp, unnamed>>

\* The first rule with id i, as update and delete look for it.
IsFirst(l, n, i) == /\ n \in DOMAIN l /\ l[n].id = i
                    /\ \A m \in 1 .. n - 1 : l[m].id # i
Without(l, n)    == SubSeq(l, 1, n - 1) \o SubSeq(l, n + 1, Len(l))

\* Variant: an id that is there already is not refused.
AddRuleAgain(c, r) ==
  \E old \in Loads :
    /\ Len(old) < MaxRules
    /\ Begin(c, r.id, old, Append(old, r), "open")

AddRule(c, r) ==
  \E old \in Loads :
    /\ Len(old) < MaxRules
    /\ \A n \in DOMAIN old : old[n].id # r.id
    /\ Begin(c, r.id, old, Append(old, r), "open")

UpdateRule(c, r) ==
  \E old \in Loads : \E n \in DOMAIN old :
    /\ IsFirst(old, n, r.id)
    /\ Begin(c, r.id, old, [old EXCEPT ![n] = r], "open")

\* Variant: the index of the rule to delete is off by one.
DeleteNextRule(c, i) ==
  \E old \in Loads : \E n \in DOMAIN old :
    /\ IsFirst(old, n, i)
    /\ Begin(c, i, old, Without(old, IF n < Len(old) THEN n + 1 ELSE n), "open")

DeleteRule(c, i) ==
  \E old \in Loads : \E n \in DOMAIN old :
    /\ IsFirst(old, n, i)
    /\ Begin(c, i, old, Without(old, n), "open")

Reload(c) == \E old \in Loads : Begin(c, NoId, old, old, "commit")

-----------------------------------------------------------------------------
\* write_rules_json_file, in the steps that other tasks and a reset can get
\* in between.  A failed step removes the temporary file and gives up.

\* fopen(temp_path, "wb") truncates, also what somebody else has written.
OpenTemp(c) ==
  /\ call[c].pc = "open" /\ Goto(c, "write")
  /\ tmp' = Damaged
  /\ UNCHANGED <<rules, up, file>> /\ UNCHANGED history

\* Out of memory while printing the list, or no temporary file.
OpenFails(c) ==
  /\ call[c].pc = "open" /\ Return(c) /\ Fault
  /\ UNCHANGED <<rules, up, file, tmp, excused, unnamed>>

\* fwrite, fflush and fclose.  Undisturbed, the temporary file holds the
\* list.  If another call has been at it, the handle may reach either file.
WriteTemp(c) ==
  /\ call[c].pc = "write" /\ Goto(c, "remove")
  /\ IF Alone(c) /\ tmp = Damaged
     THEN tmp' = call[c].root /\ UNCHANGED file
     ELSE /\ tmp'  \in IF tmp = Missing THEN {Missing}
                       ELSE {tmp, call[c].root, Damaged}
          /\ file' \in IF file = Missing THEN {Missing}
                       ELSE {file, call[c].root, Damaged}
  /\ UNCHANGED <<rules, up>> /\ UNCHANGED history

\* The result of fclose is not looked at: the temporary file lacks what
\* could not be written any more, and the call goes on to store it.
CloseFails(c) ==
  /\ call[c].pc = "write" /\ Goto(c, "remove") /\ Fault
  /\ tmp'  \in IF tmp = Missing THEN {Missing} ELSE {Damaged}
  /\ file' \in IF Alone(c) \/ file = Missing THEN {file} ELSE {file, Damaged}
  /\ excused' = TRUE
  /\ UNCHANGED <<rules, up, unnamed>>

GiveUp(c) ==
  /\ tmp' = Missing /\ Return(c)
  /\ UNCHANGED <<rules, up, file, excused>>

\* A failure of fwrite or fflush, which is noticed.
WriteFails(c) ==
  call[c].pc = "write" /\ Fault /\ GiveUp(c) /\ UNCHANGED unnamed

RemoveOld(c) ==
  /\ call[c].pc = "remove" /\ Goto(c, "rename")
  /\ file' = Missing
  /\ UNCHANGED <<rules, up, tmp>> /\ UNCHANGED history

\* Variant: the result of remove is not looked at by the caller.
RemoveFailsUnnoticed(c) ==
  /\ call[c].pc = "remove" /\ file # Missing /\ Fault
  /\ tmp' = Missing /\ Goto(c, "commit")
  /\ UNCHANGED <<rules, up, file, excused, unnamed>>

RemoveFails(c) ==
  /\ call[c].pc = "remove" /\ file # Missing
  /\ Fault /\ GiveUp(c) /\ UNCHANGED unnamed

RenameTemp(c) ==
  /\ call[c].pc = "rename" /\ Goto(c, "commit")
  /\ tmp # Missing /\ file = Missing
  /\ file' = tmp /\ tmp' = Missing
  /\ unnamed' = FALSE
  /\ UNCHANGED <<rules, up, faults, excused>>

\* Nothing to rename, a target somebody else has put there, or a fault.
RenameFails(c) ==
  /\ call[c].pc = "rename" /\ GiveUp(c) /\ unnamed' = TRUE
  /\ IF tmp # Missing /\ file = Missing THEN Fault ELSE NoFault

\* The end of commit_rules and of reload: one critical section.
Commit(c) ==
  /\ call[c].pc = "commit" /\ Return(c)
  /\ rules' = call[c].root
  /\ UNCHANGED <<up, file, tmp>> /\ UNCHANGED history

-----------------------------------------------------------------------------
\* A reset keeps the two files as they are, and start-up reloads.  If the
\* file does not parse, claw_event_router_init fails and the router is down.

Crash ==
  /\ up /\ Fault
  /\ up' = FALSE /\ rules' = <<>> /\ call' = [c \in Caller |-> Idle]
  /\ excused' = FALSE /\ unnamed' = FALSE
  /\ UNCHANGED <<file, tmp>>

Boot ==
  /\ ~ up /\ up' = TRUE
  /\ \E old \in Loads : /\ rules' = old /\ CountMisread(old)
                        /\ excused' = Misread(old)
  /\ UNCHANGED <<file, tmp, call, unnamed>>

Init ==
  /\ file \in InitialFiles /\ tmp = Missing
  /\ rules = <<>> /\ up = FALSE /\ call = [c \in Caller |-> Idle]
  /\ faults = 0 /\ excused = FALSE /\ unnamed = FALSE

Change(c) == \/ \E r \in Rule : AddRule(c, r) \/ UpdateRule(c, r)
             \/ \E i \in Id : DeleteRule(c, i)
             \/ Reload(c)
Store(c)  == \/ OpenTemp(c) \/ OpenFails(c) \/ WriteTemp(c) \/ CloseFails(c)
             \/ WriteFails(c) \/ RemoveOld(c) \/ RemoveFails(c)
             \/ RenameTemp(c) \/ RenameFails(c) \/ Commit(c)

Next == Crash \/ Boot \/ \E c \in Caller : Change(c) \/ Store(c)

Spec == Init /\ [][Next]_vars

-----------------------------------------------------------------------------
\* Each variable has its type, and no call is under way in a router that is
\* down: every operation looks at initialized first.
TypeOK ==
  /\ IsRules(rules) /\ up \in BOOLEAN /\ IsFile(file) /\ IsFile(tmp)
  /\ call \in [Caller -> [pc : Pc, id : Id \cup {NoId}, root : Seq(Rule),
                          found : BOOLEAN]]
  /\ \A c \in Caller : IsRules(call[c].root)
  /\ faults \in 0 .. MaxFaults /\ excused \in BOOLEAN
  /\ unnamed \in BOOLEAN
  /\ ~ up => Quiet /\ rules = <<>>

\* No two rules of the router have the same id, however calls overlap and
\* whatever fails: get, update and delete act on the first rule with an id
\* and would never reach the second.
OneRulePerId == UniqueIds(rules)

\* At rest, the file is the list that the router runs; it is missing only if
\* that list is empty or the rename of the last call failed.  So no call that
\* fails in another way loses the file or stores what the router does not
\* run, and a reset brings back no rule that was deleted or replaced.  Void
\* after calls that overlapped, a misread file, or an fclose that failed,
\* where the code itself goes wrong.
FileMatchesRules ==
  up /\ ~ excused /\ Quiet =>
    \/ file = rules
    \/ file = Missing /\ (rules = <<>> \/ unnamed)

Others(l, i) == {r \in Range(l) : r.id # i}

\* "Add one rule", "update one rule", "delete one rule": no other rule
\* appears or disappears when a call replaces the list in memory; void for a
\* call that read an empty list because the file was missing, and after
\* calls that overlapped, a misread file or an unnoticed fclose, which lose
\* rules.
OtherRulesKept ==
  [][\A c \in Caller :
       Commit(c) /\ ~ excused /\ call[c].found
         => Others(rules', call[c].id) = Others(rules, call[c].id)]_vars

\* The rules file is never torn, whichever step a reset comes after and
\* whichever operation fails, but for fclose: then, as after overlapping
\* calls, the code may store a torn file.
FileNotTorn ==
  [][~ excused /\ file # Damaged => file' # Damaged]_vars
=============================================================================
