------------------------------ MODULE WorkQueue ------------------------------
(***************************************************************************)
(* The work queue of rt_ext/workqueue.c: clients put works on a list, one  *)
(* worker thread takes them off and runs them.  The list and work_current  *)
(* change with interrupts off, one action each; the worker looks at the    *)
(* list and suspends itself in two steps, and a client inserts a work and  *)
(* resumes the worker in two steps, and other threads run between them.    *)
(***************************************************************************)
EXTENDS Integers, Sequences

CONSTANTS Works,     \* struct rt_work objects, initialised by rt_work_init
          Clients,   \* the threads that call the queue
          Worker,    \* queue->work_thread
          WorkPrio,  \* RT-Thread priorities: the smaller, the more urgent
          NoWork     \* RT_NULL

ASSUME WorkAssumption == /\ NoWork \notin Works
                         /\ Worker \notin Clients
                         /\ WorkPrio \in [Clients \cup {Worker} -> Nat]

VARIABLES works,     \* queue->work_list, first to last
          current,   \* queue->work_current
          wpc,       \* where the worker is
          cpc        \* where each client is

workVars == <<works, current, wpc, cpc>>

WorkTypeOK ==
  /\ works \in Seq(Works)
  /\ current \in Works \cup {NoWork}
  /\ wpc \in {"check", "suspend", "asleep", "take", "run", "ack", "lost"}
  /\ cpc \in [Clients -> {"idle", "resume", "semwait"}]

(* rt_workqueue_create. *)
WorkInit == /\ works = <<>>
            /\ current = NoWork
            /\ wpc = "check"
            /\ cpc = [c \in Clients |-> "idle"]

(* Strict priorities.  A work function may block, so that every thread may
   run while it does; a worker that took its work from an empty list has
   jumped through whatever the list head holds, and nothing is known of the
   system any more. *)
WorkerTurn == \A c \in Clients : WorkPrio[c] < WorkPrio[Worker] =>
                                   cpc[c] \in {"idle", "semwait"}

ClientTurn(c) ==
  /\ wpc # "lost"
  /\ WorkPrio[Worker] <= WorkPrio[c] => wpc \in {"asleep", "run"}
  /\ \A d \in Clients : WorkPrio[d] < WorkPrio[c] => cpc[d] \in {"idle", "semwait"}

Queued(w) == \E i \in 1 .. Len(works) : works[i] = w

-----------------------------------------------------------------------------
(* rt_list_remove, which does nothing to a node that is on no list. *)
Without(s, w) ==
  IF \E i \in 1 .. Len(s) : s[i] = w
  THEN LET i == CHOOSE i \in 1 .. Len(s) : s[i] = w
       IN  [k \in 1 .. Len(s) - 1 |-> IF k < i THEN s[k] ELSE s[k + 1]]
  ELSE s

(* Faulty variant: the worker is resumed whether it works or not. *)
DoWorkResumes(c, w) ==
  /\ ClientTurn(c) /\ cpc[c] = "idle" /\ current # w
  /\ works' = Append(Without(works, w), w)
  /\ cpc' = [cpc EXCEPT ![c] = "resume"]
  /\ UNCHANGED <<current, wpc>>

(* Faulty variant: no test for the running work. *)
DoWorkAnyway(c, w) ==
  /\ ClientTurn(c) /\ cpc[c] = "idle"
  /\ works' = Append(Without(works, w), w)
  /\ cpc' = [cpc EXCEPT ![c] = IF current = NoWork THEN "resume" ELSE "idle"]
  /\ UNCHANGED <<current, wpc>>

(* rt_workqueue_dowork, and rt_workqueue_critical_work, which is the same
   code: -RT_EBUSY for the running work; otherwise the work becomes the last
   of the list, wherever it was, and an idle worker is to be resumed. *)
DoWork(c, w) ==
  /\ ClientTurn(c) /\ cpc[c] = "idle" /\ current # w
  /\ works' = Append(Without(works, w), w)
  /\ cpc' = [cpc EXCEPT ![c] = IF current = NoWork THEN "resume" ELSE "idle"]
  /\ UNCHANGED <<current, wpc>>

CriticalWork(c, w) == DoWork(c, w)

(* rt_thread_resume of the worker: nothing, unless it is suspended. *)
Resume(c) ==
  /\ ClientTurn(c) /\ cpc[c] = "resume"
  /\ cpc' = [cpc EXCEPT ![c] = "idle"]
  /\ wpc' = IF wpc = "asleep" THEN "take" ELSE wpc
  /\ UNCHANGED <<works, current>>

CancelWork(c, w) ==
  /\ ClientTurn(c) /\ cpc[c] = "idle" /\ current # w
  /\ works' = Without(works, w)
  /\ UNCHANGED <<current, wpc, cpc>>

(* rt_workqueue_cancel_work_sync: the running work is waited for. *)
CancelWorkSync(c, w) ==
  /\ ClientTurn(c) /\ cpc[c] = "idle"
  /\ IF current = w
     THEN cpc' = [cpc EXCEPT ![c] = "semwait"] /\ UNCHANGED works
     ELSE works' = Without(works, w) /\ UNCHANGED cpc
  /\ UNCHANGED <<current, wpc>>

CancelAllWork(c) ==
  /\ ClientTurn(c) /\ cpc[c] = "idle"
  /\ works' = <<>>
  /\ UNCHANGED <<current, wpc, cpc>>

-----------------------------------------------------------------------------
(* _workqueue_thread_entry. *)
Check == /\ WorkerTurn /\ wpc = "check"
         /\ wpc' = IF works = <<>> THEN "suspend" ELSE "take"
         /\ UNCHANGED <<works, current, cpc>>

SuspendSelf == /\ WorkerTurn /\ wpc = "suspend"
               /\ wpc' = "asleep"
               /\ UNCHANGED <<works, current, cpc>>

TakeWork == /\ WorkerTurn /\ wpc = "take"
            /\ IF works = <<>>
               THEN wpc' = "lost" /\ UNCHANGED <<works, current>>
               ELSE /\ current' = Head(works)
                    /\ works' = Tail(works)
                    /\ wpc' = "run"
            /\ UNCHANGED cpc

(* Faulty variant: the completion is acknowledged before work_current is
   cleared. *)
EndWorkAcks == /\ WorkerTurn /\ wpc = "run"
               /\ cpc' = [c \in Clients |-> IF cpc[c] = "semwait" THEN "idle" ELSE cpc[c]]
               /\ wpc' = "ack"
               /\ UNCHANGED <<works, current>>

(* work_func returns. *)
EndWork == /\ WorkerTurn /\ wpc = "run"
           /\ current' = NoWork
           /\ wpc' = "ack"
           /\ UNCHANGED <<works, cpc>>

Released == [c \in Clients |-> IF cpc[c] = "semwait" THEN "idle" ELSE cpc[c]]

(* Faulty variant: one waiter is released. *)
AckCompletionOnce ==
  /\ WorkerTurn /\ wpc = "ack"
  /\ cpc' = IF \E c \in Clients : cpc[c] = "semwait"
            THEN [cpc EXCEPT ![CHOOSE c \in Clients : cpc[c] = "semwait"] = "idle"]
            ELSE cpc
  /\ wpc' = "check"
  /\ UNCHANGED <<works, current>>

(* _workqueue_work_completion: the semaphore is released as long as somebody
   waits, and left at 0. *)
AckCompletion ==
  /\ WorkerTurn /\ wpc = "ack"
  /\ cpc' = Released
  /\ wpc' = "check"
  /\ UNCHANGED <<works, current>>

WorkerStep == Check \/ SuspendSelf \/ TakeWork \/ EndWork \/ AckCompletion

WorkNext == \/ WorkerStep
            \/ \E c \in Clients :
                 \/ Resume(c) \/ CancelAllWork(c)
                 \/ \E w \in Works : \/ DoWork(c, w) \/ CriticalWork(c, w)
                                     \/ CancelWork(c, w) \/ CancelWorkSync(c, w)

(* The scheduler runs a thread that can run; work functions return. *)
WorkFairness == /\ WF_workVars(WorkerStep)
                /\ WF_workVars(\E c \in Clients : Resume(c))

WorkSpec == WorkInit /\ [][WorkNext]_workVars /\ WorkFairness

-----------------------------------------------------------------------------
(* A work is on the list at most once, and never while it runs: a list node
   inserted twice would tie the list into a ring without its head. *)
WorkInOnePlace == /\ \A i, j \in 1 .. Len(works) :
                       works[i] = works[j] => i = j
                  /\ ~Queued(current)

(* With the worker more urgent than its clients: when it sleeps, a work on
   the list has a client that is about to resume it. *)
WorkNeverForgotten ==
  wpc = "asleep" /\ works # <<>> => \E c \in Clients : cpc[c] = "resume"

(* "we have work to do with" (workqueue.c:79) is true of the worker unless a
   client outranked by another one resumes it late: between its insertion and
   its rt_thread_resume the other client has resumed the worker, which did
   the work and sleeps again. *)
FindsWorkUnlessResumedLate ==
  \A c \in Clients :
    /\ cpc[c] = "resume" /\ wpc = "asleep" /\ works = <<>>
    => \E d \in Clients : WorkPrio[d] < WorkPrio[c]

(* rt_workqueue_cancel_work_sync returns only when no work runs. *)
CancelSyncWaits ==
  [][\A c \in Clients : cpc[c] = "semwait" /\ cpc'[c] # "semwait"
                          => current = NoWork]_workVars

(* A queued work is run or cancelled, as long as the worker is not lost, and
   synchronous cancellations return, all that wait together. *)
QueueServes ==
  /\ \A w \in Works : Queued(w) ~> ~Queued(w) \/ wpc = "lost"
  /\ (\E c \in Clients : cpc[c] = "semwait") ~> (\A c \in Clients : cpc[c] # "semwait")
=============================================================================
