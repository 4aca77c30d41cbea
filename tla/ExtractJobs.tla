---------------------------- MODULE ExtractJobs ----------------------------
(***************************************************************************)
(* Memories are extracted from what the user says by a task of their own,  *)
(* while the agent works on the request (claw_memory_session.c).  The      *)
(* agent makes a job for its request, puts it on a list and in a queue,    *)
(* and asks for the result before it answers; it waits on the semaphore of *)
(* the job when the task has not finished.                                 *)
(*                                                                         *)
(* Left out: the texts, and what becomes of an extracted memory.  Once the *)
(* result is there the agent may free the job before the task has touched  *)
(* its semaphore for the last time; the touch is then taken to do nothing. *)
(***************************************************************************)
EXTENDS Naturals, SequencesExt

CONSTANTS
  MaxRequests,  \* bound on the requests, which the agent takes one by one
  JobQueueLen   \* CLAW_MEMORY_ASYNC_EXTRACT_QUEUE_LEN

ASSUME ExtractAssumption == MaxRequests \in Nat /\ JobQueueLen \in Nat \ {0}

VARIABLES
  request,    \* the request the agent is at, a number
  agentAt,    \* where the agent is in it
  jobs,       \* s_async_extract.jobs: the requests that have one
  jobQueue,   \* jobs for the task
  completed,  \* jobs with a result
  given,      \* jobs whose done_sem was given
  taskAt,     \* "receive", "prepare" or "give"
  taskJob     \* the job the task has

agentVars == <<request, agentAt>>
jobTaskVars == <<taskAt, taskJob>>
jobVars == <<agentVars, jobs, jobQueue, completed, given, jobTaskVars>>

ExtractInit ==
  /\ request = 0 /\ agentAt = "next"
  /\ jobs = {} /\ jobQueue = <<>> /\ completed = {} /\ given = {}
  /\ taskAt = "receive" /\ taskJob = 0

AgentTo(at) == agentAt' = at

\* sweep_locked: results nobody took for a minute go.
Swept(kept) == \E gone \in SUBSET (jobs \cap completed) : kept = jobs \ gone

-----------------------------------------------------------------------------
(* The agent. *)

\* ensure_started, until the lock is given back.
LinkJob ==
  /\ agentAt = "next" /\ request < MaxRequests
  /\ request' = request + 1
  /\ \E kept \in SUBSET jobs :
       /\ Swept(kept)
       /\ jobs' = kept \cup {request'}
  /\ AgentTo("send")
  /\ UNCHANGED <<jobQueue, completed, given, jobTaskVars>>

\* Variant: a job that finds no room stays on the list.
SendOrLeave ==
  /\ agentAt = "send"
  /\ IF Len(jobQueue) < JobQueueLen
     THEN jobQueue' = Append(jobQueue, request)
     ELSE UNCHANGED jobQueue
  /\ AgentTo("work")
  /\ UNCHANGED <<request, jobs, completed, given, jobTaskVars>>

\* Without room in the queue the job is taken back.
SendJob ==
  /\ agentAt = "send"
  /\ IF Len(jobQueue) < JobQueueLen
     THEN jobQueue' = Append(jobQueue, request) /\ UNCHANGED jobs
     ELSE jobs' = jobs \ {request} /\ UNCHANGED jobQueue
  /\ AgentTo("work")
  /\ UNCHANGED <<request, completed, given, jobTaskVars>>

\* The request ends without a note, or asks for it.
AskForNote ==
  /\ agentAt = "work"
  /\ AgentTo("next") \/ AgentTo("note")
  /\ UNCHANGED <<request, jobs, jobQueue, completed, given, jobTaskVars>>

\* take_summary_list: one look at the list, under the lock.
TakeNote ==
  /\ agentAt = "note"
  /\ IF request \in jobs
     THEN IF request \in completed
          THEN jobs' = jobs \ {request} /\ AgentTo("next")
          ELSE AgentTo("wait") /\ UNCHANGED jobs
     ELSE Swept(jobs') /\ AgentTo("next")
  /\ UNCHANGED <<request, jobQueue, completed, given, jobTaskVars>>

AwaitJob ==
  /\ agentAt = "wait" /\ request \in given
  /\ given' = given \ {request}
  /\ AgentTo("note")
  /\ UNCHANGED <<request, jobs, jobQueue, completed, jobTaskVars>>

Agent == SendJob \/ AskForNote \/ TakeNote \/ AwaitJob

-----------------------------------------------------------------------------
(* claw_memory_async_extract_task. *)

ReceiveJob ==
  /\ taskAt = "receive" /\ jobQueue # <<>>
  /\ taskJob' = Head(jobQueue) /\ jobQueue' = Tail(jobQueue)
  /\ taskAt' = "prepare"
  /\ UNCHANGED <<agentVars, jobs, completed, given>>

FinishJob ==
  /\ taskAt = "prepare" /\ taskAt' = "give"
  /\ completed' = completed \cup {taskJob}
  /\ UNCHANGED <<agentVars, jobs, jobQueue, given, taskJob>>

GiveJob ==
  /\ taskAt = "give" /\ taskAt' = "receive"
  /\ given' = given \cup ({taskJob} \cap jobs)
  /\ taskJob' = 0
  /\ UNCHANGED <<agentVars, jobs, jobQueue, completed>>

JobTask == ReceiveJob \/ FinishJob \/ GiveJob

JobNext == LinkJob \/ Agent \/ JobTask

ExtractSpec == ExtractInit /\ [][JobNext]_jobVars

\* Both tasks are scheduled, and the model answers or fails: its client has a
\* timeout.
ExtractFairSpec == ExtractSpec /\ WF_jobVars(Agent) /\ WF_jobVars(JobTask)

-----------------------------------------------------------------------------
\* The agent, which waits without a timeout, always gets back to its request.
NoteReturns == agentAt = "wait" ~> agentAt # "wait"
=============================================================================
