--------------------------- MODULE SessionHistory ---------------------------
(***************************************************************************)
(* The history file of one session (claw_memory_session.c): records of     *)
(* what the user and the assistant said, appended at the end, behind a     *)
(* header with the places of the last MaxSlots records.  The agent reads   *)
(* it when a request starts and appends a turn when it ends.               *)
(*                                                                         *)
(* A place stands for the offset and the length of a record: what is       *)
(* appended where a record was lost has another place, because its length  *)
(* differs and the old entry then reads no JSON.  (Of two records of the   *)
(* same length the model says nothing.)                                    *)
(*                                                                         *)
(* Left out: texts, sizes and the encoding of the header.  A header that   *)
(* cannot be decoded is one whose records are not there.                   *)
(***************************************************************************)
EXTENDS Naturals, SequencesExt

CONSTANTS
  MaxSlots,          \* max_session_messages
  MaxTurns, MaxCuts  \* bounds on the turns and on the power failures

Even(n) == n % 2 = 0

\* Both records of a turn leave the ring together; app_claw.c asks for 20.
ASSUME HistoryAssumption ==
  /\ MaxSlots \in Nat \ {0} /\ Even(MaxSlots)
  /\ {MaxTurns, MaxCuts} \subseteq Nat

VARIABLES
  records,  \* what was appended behind the header, a sequence of records
  lost,     \* the places of those that a power failure took from the file
  header,   \* the header in the file: places of records, oldest first
  head,     \* the header in memory during an append
  stage,    \* how far the request is
  turns, cuts,
  loaded    \* what the request was given to read

historyVars == <<records, lost, header, head, stage, turns, cuts, loaded>>

HistoryInit ==
  /\ records = <<>> /\ lost = {} /\ header = <<>> /\ head = <<>>
  /\ stage = "start" /\ turns = 0 /\ cuts = 0 /\ loaded = <<>>

Said(turn, role) == [turn |-> turn, role |-> role]
Readable(places) == \A n \in DOMAIN places : places[n] \notin lost
Told(places, file) == [n \in DOMAIN places |-> file[places[n]]]
Kept(places) == IF Len(places) > MaxSlots THEN Tail(places) ELSE places
Added(places, place) == Kept(Append(places, place))

\* load_json_alloc: a file that does not read as records is reset; one that
\* cannot be opened, or for which there is no memory, is left as it is.  Without
\* a history the turn goes on and is appended all the same.
LoadHistory ==
  /\ stage = "start" /\ turns < MaxTurns
  /\ turns' = turns + 1 /\ stage' = "user"
  /\ \/ /\ Readable(header)
        /\ loaded' = Told(header, records) /\ UNCHANGED <<records, lost, header>>
     \/ /\ ~ Readable(header)
        /\ loaded' = <<>> /\ records' = <<>> /\ lost' = {} /\ header' = <<>>
     \/ loaded' = <<>> /\ UNCHANGED <<records, lost, header>>
  /\ head' = header'
  /\ UNCHANGED cuts

\* append_indexed_record, at the end of the file; only the header in memory
\* knows of it.
AppendRecord(from, to, role) ==
  /\ stage = from /\ stage' = to
  /\ records' = Append(records, Said(turns, role))
  /\ head' = Added(head, Len(records'))
  /\ UNCHANGED <<lost, header, turns, cuts, loaded>>

\* Variant: the header is written whatever became of the records.
GiveUpButSave ==
  /\ stage \in {"user", "assistant"} /\ stage' = "start"
  /\ header' = head
  /\ UNCHANGED <<records, lost, head, turns, cuts, loaded>>

\* A record that cannot be written ends the turn; there may be no turn at all.
GiveUp ==
  /\ stage \in {"user", "assistant"} /\ stage' = "start"
  /\ UNCHANGED <<records, lost, header, head, turns, cuts, loaded>>

WriteHeader ==
  /\ stage = "header" /\ stage' = "start"
  /\ header' = head
  /\ UNCHANGED <<records, lost, head, turns, cuts, loaded>>

\* The file has its new length when it is closed; until then a power failure
\* may lose what was appended, and keep the header.
PowerCut ==
  /\ cuts < MaxCuts /\ cuts' = cuts + 1
  /\ stage # "start" /\ stage' = "start"
  /\ \E n \in 0..2 :
       /\ n <= Len(records)
       /\ LET last == (Len(records) - n + 1)..Len(records) IN
            (\A k \in last : records[k].turn = turns) /\ lost' = lost \cup last
  /\ \/ UNCHANGED header
     \/ stage = "header" /\ header' = head
  /\ UNCHANGED <<records, head, turns, loaded>>

HistoryNext ==
  \/ LoadHistory
  \/ AppendRecord("user", "assistant", "user")
  \/ AppendRecord("assistant", "header", "assistant")
  \/ GiveUp \/ WriteHeader \/ PowerCut

HistorySpec == HistoryInit /\ [][HistoryNext]_historyVars

-----------------------------------------------------------------------------
Whole(list) ==
  /\ Even(Len(list))
  /\ \A n \in DOMAIN list :
       /\ list[n].role = (IF Even(n) THEN "assistant" ELSE "user")
       /\ Even(n) => list[n].turn = list[n - 1].turn
       /\ n > 2 => list[n - 2].turn < list[n].turn

\* The agent reads whole turns, in their order, and each once: user and
\* assistant alternate, whatever failed while earlier turns were written.
WholeTurns == Whole(loaded)
=============================================================================
