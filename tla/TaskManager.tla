---------------------------- MODULE TaskManager ----------------------------
(***************************************************************************)
(* One TaskManager (pkg/task/task.go): the group of goroutines behind the  *)
(* controller, the agent, each session of the agent, and juicify.  Tasks   *)
(* are started by the group's owner before it calls Wait, or by a task of  *)
(* the group that is running; the errors channel is unbuffered.            *)
(***************************************************************************)
EXTENDS Integers, FiniteSets

CONSTANT Task   \* the goroutines the group may start

ASSUME TaskAssumption == IsFiniteSet(Task)

VARIABLES ctxDone,     \* the group's context is cancelled
          waitGroup,   \* the counter of the WaitGroup
          errorsOpen,  \* the errors channel is not closed
          status,      \* where run is, per task
          failed,      \* the tasks that returned an error
          joined,      \* what the collecting goroutine has received
          waiting,     \* where Wait is
          result       \* what Wait returned, as the set of failed tasks

vars == <<ctxDone, waitGroup, errorsOpen, status, failed, joined, waiting, result>>

TypeOK ==
    /\ ctxDone \in BOOLEAN
    /\ waitGroup \in Nat
    /\ errorsOpen \in BOOLEAN
    /\ status \in [Task -> {"none", "running", "reporting", "reported", "done", "panicked"}]
    /\ failed \subseteq Task
    /\ joined \subseteq Task
    /\ waiting \in {"no", "context", "group", "close", "result", "returned"}
    /\ result \subseteq Task

Init ==
    /\ ctxDone = FALSE
    /\ waitGroup = 0
    /\ errorsOpen = TRUE
    /\ status = [t \in Task |-> "none"]
    /\ failed = {}
    /\ joined = {}
    /\ waiting = "no"
    /\ result = {}

Added == waitGroup + 1

\* run goes from one of its steps to the next.
RunGoes(t, from, to) ==
    /\ status[t] = from
    /\ status' = [status EXCEPT ![t] = to]
    /\ UNCHANGED <<errorsOpen, waiting, result>>

\* Go and GoFn.
Go(t) ==
    /\ RunGoes(t, "none", "running")
    /\ waitGroup' = Added
    /\ UNCHANGED <<ctxDone, failed, joined>>

OwnerStarts(t) == waiting = "no" /\ Go(t)
TaskStarts(t) == (\E p \in Task : status[p] = "running") /\ Go(t)

\* Cancel, or the parent context is cancelled.
Cancel ==
    /\ ~ctxDone
    /\ ctxDone' = TRUE
    /\ UNCHANGED <<waitGroup, errorsOpen, status, failed, joined, waiting, result>>

TaskSucceeds(t) ==
    /\ RunGoes(t, "running", "reporting")
    /\ UNCHANGED <<ctxDone, waitGroup, failed, joined>>

\* Mutant of FailureCancels: the group is not cancelled.
FailureIgnored == ctxDone
FailureCancels == TRUE

\* The task returns an error, which cancels the group.
TaskFails(t) ==
    /\ RunGoes(t, "running", "reporting")
    /\ failed' = failed \cup {t}
    /\ ctxDone' = FailureCancels
    /\ UNCHANGED <<waitGroup, joined>>

\* Mutant of Joined: the last error replaces the ones before it.
LastError(t) == IF t \in failed THEN {t} ELSE joined

\* errors.Join; a task that did not fail sends nil.
Joined(t) == joined \cup ({t} \cap failed)

\* The send on errors meets the goroutine of Wait that ranges over it; on a
\* closed channel it panics.
Report(t) ==
    /\ \/ errorsOpen /\ waiting # "no" /\ RunGoes(t, "reporting", "reported") /\ joined' = Joined(t)
       \/ ~errorsOpen /\ RunGoes(t, "reporting", "panicked") /\ UNCHANGED joined
    /\ UNCHANGED <<ctxDone, waitGroup, failed>>

Done(t) ==
    /\ RunGoes(t, "reported", "done")
    /\ waitGroup' = waitGroup - 1
    /\ UNCHANGED <<ctxDone, failed, joined>>

\* Wait: start the collecting goroutine, wait for the context, wait for the
\* group, close the channel, take the collected errors.
WaitGoes(from, to) ==
    /\ waiting = from
    /\ waiting' = to
    /\ UNCHANGED <<ctxDone, waitGroup, status, failed, joined>>

WaitStarts == WaitGoes("no", "context") /\ UNCHANGED <<errorsOpen, result>>
WaitSeesContext == ctxDone /\ WaitGoes("context", "group") /\ UNCHANGED <<errorsOpen, result>>

\* Mutant of GroupDone: waitGroup.Wait is left out.
GroupIgnored == TRUE
GroupDone == waitGroup = 0

WaitSeesGroup == GroupDone /\ WaitGoes("group", "close") /\ UNCHANGED <<errorsOpen, result>>
WaitCloses == WaitGoes("close", "result") /\ errorsOpen' = FALSE /\ UNCHANGED result
WaitReturns == WaitGoes("result", "returned") /\ result' = joined /\ UNCHANGED errorsOpen

WaitStep == WaitStarts \/ WaitSeesContext \/ WaitSeesGroup \/ WaitCloses \/ WaitReturns

\* run, from the task's return on.
TaskReturns(t) == TaskSucceeds(t) \/ TaskFails(t)
TaskStep(t) == OwnerStarts(t) \/ TaskStarts(t) \/ TaskReturns(t) \/ Report(t) \/ Done(t)

Next == Cancel \/ WaitStep \/ \E t \in Task : TaskStep(t)

Spec == Init /\ [][Next]_vars

\* Goroutines are scheduled, the owner calls Wait, and a task returns once its
\* context is done, which is what the tasks of a group are asked to do.
Fairness ==
    /\ WF_vars(WaitStep)
    /\ \A t \in Task : /\ WF_vars(Report(t) \/ Done(t))
                       /\ WF_vars(ctxDone /\ TaskReturns(t))

FairSpec == Spec /\ Fairness

----------------------------------------------------------------------------

\* No goroutine of the group sends on the closed errors channel, whatever
\* starts, fails or is cancelled while Wait is closing it (Wait, run).
NeverPanics == \A t \in Task : status[t] # "panicked"

\* When Wait returns, every goroutine the group ever started has finished, and
\* the error of every one that failed is in what it returns.
NothingLost ==
    waiting = "returned" =>
        /\ result = failed
        /\ \A t \in Task : status[t] \in {"none", "done"}

\* One failing task brings the whole group down: Wait returns.
FailureEndsGroup == failed # {} ~> waiting = "returned"

============================================================================
