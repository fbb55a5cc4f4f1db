-------------------------- MODULE PrintingService ---------------------------
(***************************************************************************)
(* Print jobs, from the contest web server to the printer                  *)
(* (cms/service/PrintingService.py). The queue and the sweeper are those   *)
(* of TriggeredService, of which only what is in the queue matters here:   *)
(* an operation that is being executed is no longer in it.                 *)
(***************************************************************************)
EXTENDS Integers, FiniteSets

CONSTANTS
    PrintJobs,
    NoJob,
    MaxErrors,      \* failures of the tools, of the printer, and of the service
    MaxNotices      \* calls of new_printjob

VARIABLES
    job_status,     \* per job: "absent", "new", or how it was done
    print_queue,    \* the jobs in the queue
    current_job,    \* the job the executor is at, or NoJob
    print_step,     \* where it is: "idle", "prepare", "print" or "commit"
    times_printed,  \* per job: how often it was sent to the printer
    notices,        \* calls of new_printjob so far
    print_errors

printVars == <<job_status, print_queue, current_job, print_step, times_printed,
               notices, print_errors>>

Done(j) == job_status[j] \notin {"absent", "new"}

PrintInit ==
    /\ job_status = [j \in PrintJobs |-> "absent"]
    /\ print_queue = {} /\ current_job = NoJob /\ print_step = "idle"
    /\ times_printed = [j \in PrintJobs |-> 0]
    /\ notices = 0 /\ print_errors = 0

(* PrintHandler commits the job, and then tells the service, which may not *)
(* be there.                                                               *)
AddPrintJob(j) ==
    /\ job_status[j] = "absent"
    /\ job_status' = [job_status EXCEPT ![j] = "new"]
    /\ UNCHANGED <<print_queue, current_job, print_step, times_printed, notices, print_errors>>

NewPrintJob(j) ==
    /\ job_status[j] # "absent" /\ notices < MaxNotices
    /\ print_queue' = print_queue \cup {j}
    /\ notices' = notices + 1
    /\ UNCHANGED <<job_status, current_job, print_step, times_printed, print_errors>>

(* Mutation: only jobs nobody has tried yet.                               *)
IsMissingUntried(j) == job_status[j] = "new" /\ print_errors = 0

IsMissing(j) == job_status[j] = "new"

(* _missing_operations, from the sweeper.                                  *)
MissingOperations ==
    /\ \E j \in PrintJobs : IsMissing(j) /\ j \notin print_queue
    /\ print_queue' = print_queue \cup {j \in PrintJobs : IsMissing(j)}
    /\ UNCHANGED <<job_status, current_job, print_step, times_printed, notices, print_errors>>

-----------------------------------------------------------------------------
(* execute.                                                                *)

(* A job that was done already is only logged, and printed again.          *)
Start(j) ==
    /\ print_step = "idle" /\ j \in print_queue
    /\ print_queue' = print_queue \ {j}
    /\ current_job' = j /\ print_step' = "prepare"
    /\ UNCHANGED <<job_status, times_printed, notices, print_errors>>

EndJob(st) ==
    /\ job_status' = st
    /\ print_step' = "idle" /\ current_job' = NoJob
    /\ UNCHANGED <<print_queue, notices>>

(* a2ps makes no file, or there are too many pages.                        *)
Reject ==
    /\ print_step = "prepare"
    /\ \E why \in {"invalid file", "too many pages"} :
          EndJob([job_status EXCEPT ![current_job] = why])
    /\ UNCHANGED <<times_printed, print_errors>>

Prepare ==
    /\ print_step = "prepare" /\ print_step' = "print"
    /\ UNCHANGED <<job_status, print_queue, current_job, times_printed, notices, print_errors>>

(* A tool fails: an exception. The printer fails: only logged.             *)
Fail ==
    /\ print_step \in {"prepare", "print"} /\ print_errors < MaxErrors
    /\ EndJob(job_status)
    /\ print_errors' = print_errors + 1
    /\ UNCHANGED times_printed

PrintFile ==
    /\ print_step = "print" /\ print_step' = "commit"
    /\ times_printed' = [times_printed EXCEPT ![current_job] = @ + 1]
    /\ UNCHANGED <<job_status, print_queue, current_job, notices, print_errors>>

Commit ==
    /\ print_step = "commit"
    /\ EndJob([job_status EXCEPT ![current_job] = "sent"])
    /\ UNCHANGED <<times_printed, print_errors>>

(* The service is restarted with an empty queue.                           *)
RestartPrinting ==
    /\ print_errors < MaxErrors /\ print_errors' = print_errors + 1
    /\ print_queue' = {} /\ current_job' = NoJob /\ print_step' = "idle"
    /\ UNCHANGED <<job_status, times_printed, notices>>

ExecutorSteps == Reject \/ Prepare \/ Fail \/ PrintFile \/ Commit

PrintNext ==
    \/ \E j \in PrintJobs : AddPrintJob(j) \/ NewPrintJob(j) \/ Start(j)
    \/ MissingOperations \/ ExecutorSteps \/ RestartPrinting

-----------------------------------------------------------------------------
(* Lost notices, restarts and errors of the tools only delay a job: the    *)
(* sweeper finds it again until it is done.                                *)
JobsHandled == \A j \in PrintJobs : job_status[j] # "absent" ~> Done(j)

(* A job is not sent to the printer again once it is known to have been    *)
(* sent ("Print job %d was already sent to the printer.").                 *)
NotPrintedAgain ==
    [][\A j \in PrintJobs : Done(j) => times_printed'[j] = times_printed[j]]_printVars
=============================================================================
