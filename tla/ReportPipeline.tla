--------------------------- MODULE ReportPipeline ---------------------------
(***************************************************************************)
(* collectReports, which reads the ImageScanReports of a set of images:    *)
(* one generator, a fixed number of workers and one reader, joined by two  *)
(* unbuffered channels and an errgroup whose context the first error       *)
(* cancels.  The metrics collector (pkg/metricshandler/handler_scanner.go) *)
(* and the CVEReport storage (pkg/registry/scanner/reports/storage.go)     *)
(* hold the same text; only the parent context differs.                    *)
(***************************************************************************)
EXTENDS Naturals

CONSTANTS
    Images,
    Workers,       \* the maxConcurrency goroutines, 5 in the code
    MaxFailures    \* bound on failing calls of the API server

None == "none"

ASSUME FailuresAssumption == MaxFailures \in Nat
ASSUME NoneAssumption == None \notin Images

VARIABLES
    reports,     \* image -> "none", "current", "outdated": ImageScanReports
    requested,   \* images with an unserved ImageScanRequest
    failures,
    dropped,     \* the parent context is cancelled
    caller,      \* "idle", "range" over c, returned "ok" or "error"
    asked,       \* images of the call
    left,        \* those the generator has not sent
    generator,   \* "sending", "stopped" (requests is closed)
    worker,      \* "receive", "get", "deliver", "stopped"
    job,         \* the image a worker got from requests
    missing,     \* its Get answered NotFound
    err,         \* the errgroup holds an error, so its context is cancelled
    closed,      \* c is closed
    m            \* image -> "none", "found", "missing": the results read

apiVars  == <<reports, requested, failures>>
poolVars == <<left, generator, worker, job, missing, err, closed>>
callVars == <<caller, asked, m, dropped>>
pipeVars == <<apiVars, poolVars, callVars>>

PipeTypeOK ==
    /\ reports \in [Images -> {"none", "current", "outdated"}]
    /\ requested \subseteq Images
    /\ failures \in 0 .. MaxFailures
    /\ dropped \in BOOLEAN
    /\ caller \in {"idle", "range", "ok", "error"}
    /\ asked \subseteq Images
    /\ left \subseteq asked
    /\ generator \in {"sending", "stopped"}
    /\ worker \in [Workers -> {"receive", "get", "deliver", "stopped"}]
    /\ job \in [Workers -> Images \cup {None}]
    /\ missing \in [Workers -> BOOLEAN]
    /\ err \in BOOLEAN
    /\ closed \in BOOLEAN
    /\ m \in [Images -> {"none", "found", "missing"}]

PipeInit ==
    /\ requested = {}
    /\ failures = 0
    /\ dropped = FALSE
    /\ caller = "idle"
    /\ asked = {}
    /\ left = {}
    /\ generator = "stopped"
    /\ worker = [w \in Workers |-> "stopped"]
    /\ job = [w \in Workers |-> None]
    /\ missing = [w \in Workers |-> FALSE]
    /\ err = FALSE
    /\ closed = TRUE
    /\ m = [i \in Images |-> "none"]

-----------------------------------------------------------------------------
(* The context of the errgroup. *)
Done == err \/ dropped

Busy == caller = "range"

(* A call that may fail: by a fault, of which there are finitely many, or  *)
(* because the context handed to it is done.                               *)
Fault ==
    \/ failures < MaxFailures /\ failures' = failures + 1
    \/ Done /\ failures' = failures

(* Variants of the steps below, each with a slip this code invites.        *)
GeneratorForgets ==     \* a cancelled generator returns nil
    /\ Busy
    /\ generator = "sending"
    /\ left # {} /\ Done
    /\ generator' = "stopped"
    /\ UNCHANGED <<apiVars, callVars, left, worker, job, missing, err, closed>>

NoScanRequest(w) ==     \* a missing report is left to the others
    /\ Busy
    /\ worker[w] = "get"
    /\ reports[job[w]] = "none"
    /\ missing' = [missing EXCEPT ![w] = TRUE]
    /\ worker' = [worker EXCEPT ![w] = "deliver"]
    /\ UNCHANGED <<apiVars, callVars, left, generator, job, err, closed>>

LeaveOpen ==            \* close(requests) is not deferred
    /\ Busy
    /\ generator = "sending"
    /\ left # {} /\ Done
    /\ generator' = "gone"
    /\ err' = TRUE
    /\ UNCHANGED <<apiVars, callVars, left, worker, job, missing, closed>>

-----------------------------------------------------------------------------
(* The call: the goroutines start and the caller ranges over c.            *)
Collect(S) ==
    /\ ~ Busy
    /\ caller' = "range"
    /\ asked' = S
    /\ left' = S
    /\ generator' = "sending"
    /\ worker' = [w \in Workers |-> "receive"]
    /\ job' = [w \in Workers |-> None]
    /\ missing' = [w \in Workers |-> FALSE]
    /\ err' = FALSE
    /\ closed' = FALSE
    /\ m' = [i \in Images |-> "none"]
    /\ dropped' = FALSE
    /\ UNCHANGED apiVars

(* requests <- req, a rendezvous of the generator and a waiting worker. *)
Request(w) ==
    /\ Busy
    /\ generator = "sending"
    /\ worker[w] = "receive"
    /\ \E i \in left:
          /\ left' = left \ {i}
          /\ job' = [job EXCEPT ![w] = i]
    /\ worker' = [worker EXCEPT ![w] = "get"]
    /\ UNCHANGED <<apiVars, callVars, generator, missing, err, closed>>

GeneratorDone ==
    /\ Busy
    /\ generator = "sending"
    /\ left = {}
    /\ generator' = "stopped"
    /\ UNCHANGED <<apiVars, callVars, left, worker, job, missing, err, closed>>

GeneratorCancelled ==
    /\ Busy
    /\ generator = "sending"
    /\ left # {} /\ Done
    /\ generator' = "stopped"
    /\ err' = TRUE
    /\ UNCHANGED <<apiVars, callVars, left, worker, job, missing, closed>>

(* requests is closed and empty: the worker's range ends. *)
WorkerDone(w) ==
    /\ Busy
    /\ worker[w] = "receive"
    /\ generator = "stopped"
    /\ worker' = [worker EXCEPT ![w] = "stopped"]
    /\ UNCHANGED <<apiVars, callVars, left, generator, job, missing, err, closed>>

GetFound(w) ==
    /\ Busy
    /\ worker[w] = "get"
    /\ reports[job[w]] # "none"
    /\ missing' = [missing EXCEPT ![w] = FALSE]
    /\ worker' = [worker EXCEPT ![w] = "deliver"]
    /\ UNCHANGED <<apiVars, callVars, left, generator, job, err, closed>>

(* SendScanRequest: one more request for the image, of a random name. *)
SendScanRequest(i) == requested' = requested \cup {i} /\ failures' = failures

(* NotFound: a scan is asked for, and an error of that is ignored.         *)
GetMissing(w) ==
    /\ Busy
    /\ worker[w] = "get"
    /\ reports[job[w]] = "none"
    /\ \/ SendScanRequest(job[w])
       \/ Fault /\ requested' = requested
    /\ missing' = [missing EXCEPT ![w] = TRUE]
    /\ worker' = [worker EXCEPT ![w] = "deliver"]
    /\ UNCHANGED <<reports, callVars, left, generator, job, err, closed>>

GetFailed(w) ==
    /\ Busy
    /\ worker[w] = "get"
    /\ Fault
    /\ worker' = [worker EXCEPT ![w] = "stopped"]
    /\ job' = [job EXCEPT ![w] = None]
    /\ err' = TRUE
    /\ UNCHANGED <<reports, requested, callVars, left, generator, missing, closed>>

(* c <- result, a rendezvous of the worker and the ranging caller. *)
Deliver(w) ==
    /\ Busy
    /\ worker[w] = "deliver"
    /\ m' = [m EXCEPT ![job[w]] = IF missing[w] THEN "missing" ELSE "found"]
    /\ worker' = [worker EXCEPT ![w] = "receive"]
    /\ job' = [job EXCEPT ![w] = None]
    /\ missing' = [missing EXCEPT ![w] = FALSE]
    /\ UNCHANGED <<apiVars, caller, asked, dropped, left, generator, err, closed>>

DeliverCancelled(w) ==
    /\ Busy
    /\ worker[w] = "deliver"
    /\ Done
    /\ worker' = [worker EXCEPT ![w] = "stopped"]
    /\ job' = [job EXCEPT ![w] = None]
    /\ missing' = [missing EXCEPT ![w] = FALSE]
    /\ err' = TRUE
    /\ UNCHANGED <<apiVars, callVars, left, generator, closed>>

(* g.Wait() returns when the generator and the workers have; then c closes. *)
Close ==
    /\ Busy
    /\ ~ closed
    /\ generator = "stopped"
    /\ \A w \in Workers: worker[w] = "stopped"
    /\ closed' = TRUE
    /\ UNCHANGED <<apiVars, callVars, left, generator, worker, job, missing, err>>

(* The range over c ends, and the caller looks at the group's error. *)
Return ==
    /\ Busy
    /\ closed
    /\ caller' = IF err THEN "error" ELSE "ok"
    /\ UNCHANGED <<apiVars, poolVars, asked, m, dropped>>

(* The client of a CVEReport request goes away. *)
DropRequest ==
    /\ Busy
    /\ ~ dropped
    /\ dropped' = TRUE
    /\ UNCHANGED <<apiVars, poolVars, caller, asked, m>>

Get(w) == GetFound(w) \/ GetMissing(w) \/ GetFailed(w)

WorkerStep(w) ==
    Request(w) \/ WorkerDone(w) \/ Get(w) \/ Deliver(w) \/ DeliverCancelled(w)

PipeStep ==
    \/ GeneratorDone \/ GeneratorCancelled
    \/ \E w \in Workers: WorkerStep(w)
    \/ Close \/ Return

(* The goroutines are scheduled, and a call of the API server is answered. *)
PipeFairness ==
    /\ WF_pipeVars(GeneratorDone \/ GeneratorCancelled)
    /\ \A w \in Workers: WF_pipeVars(WorkerStep(w))
    /\ WF_pipeVars(Close \/ Return)

-----------------------------------------------------------------------------
(* A call that reports no error has a result for every image it was given, *)
(* whichever worker, failure or cancellation came in between: its callers  *)
(* leave out an image they find no result for, as if it had no risks.      *)
CompleteOrError ==
    caller = "ok" => \A i \in asked: m[i] # "none"

(* The pool never hangs: every call returns, with reports or an error.     *)
CallsReturn ==
    caller = "range" ~> caller # "range"
=============================================================================
