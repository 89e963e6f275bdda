---------------------------- MODULE Wait4Process ----------------------------
(***************************************************************************)
(* The child process owner of cuprum: cuprum/_wait4_process.py with the     *)
(* readings of cuprum/_process_exit.py and the signal delivery of           *)
(* cuprum/_process_handle/control.py.                                       *)
(*                                                                          *)
(* Three parties share the child: the kernel, the reaper (one executor      *)
(* thread, started by the first wait()), and the event loop thread, which   *)
(* runs the waiter coroutine and every signal delivery one after the other. *)
(* Each Python statement that touches shared state is one action, because   *)
(* the two threads switch between bytecodes.                                *)
(***************************************************************************)
EXTENDS Integers

CONSTANTS
    Codes,         \* exit codes a child can end with
    Placeholder,   \* the -1 of _get_exit_code
    NoCode         \* Python's None where a code is expected

ASSUME ConstantsAssumption ==
    /\ Placeholder \notin Codes
    /\ NoCode \notin Codes \cup {Placeholder}

VARIABLES
    probe,       \* _NON_REAPING_PROBE_AVAILABLE: waitid(WNOWAIT) exists
    foreign,     \* code outside the library may collect the child
    kern,        \* the kernel's view of the child
    exitcode,    \* the status the kernel holds (or held) for it
    reused,      \* the PID names an unrelated process
    returncode,  \* _Wait4Process._returncode
    usage,       \* _Wait4Process._resource_usage is recorded
    lock,        \* _settlement_lock
    reap,        \* program counter of the reaper thread
    loop,        \* program counter of the delivery running on the event loop
    hits,        \* history: what os.kill has reached
    refused,     \* the code the last SignalAfterExitError carried
    waiter,      \* the caller inside _await_process_exit
    waited,      \* the code that caller was given
    seenUsage    \* what resource_usage_for read for that caller

vars == << probe, foreign, kern, exitcode, reused, returncode, usage, lock, reap,
           loop, hits, refused, waiter, waited, seenUsage >>

platform   == << probe, foreign >>
kernVars   == << kern, exitcode, reused >>
ownerVars  == << returncode, usage >>
waiterVars == << waiter, waited, seenUsage >>

KernStates == {"running", "zombie", "collected"}

ReapStates == {"unstarted", "queued", "waitable", "acquire", "wait4",
               "publish", "publishUsage", "poll", "pollCheck",
               "done", "failed"}

\* Steps of one _deliver_signal call, in the order the code takes them.
LoopStates == {"idle", "probe", "acquire", "guard", "publish",
               "publishUsage", "kill", "reread", "reprobe", "fallback"}

\* A fresh _Wait4Process, on either platform: __init__ leaves every field
\* empty.
Init ==
    /\ probe \in BOOLEAN
    /\ foreign \in BOOLEAN
    /\ kern = "running"
    /\ exitcode = NoCode
    /\ reused = FALSE
    /\ returncode = NoCode
    /\ usage = FALSE
    /\ lock = "free"
    /\ reap = "unstarted"
    /\ loop = "idle"
    /\ hits = {}
    /\ refused = NoCode
    /\ waiter = "none"
    /\ waited = NoCode
    /\ seenUsage = FALSE

-----------------------------------------------------------------------------
\* The kernel and whoever else lives in this process.

\* The child ends, of its own accord or because of a signal.
ChildExits ==
    /\ kern = "running"
    /\ kern' = "zombie"
    /\ exitcode' \in Codes
    /\ UNCHANGED << platform, reused, ownerVars, lock, reap, loop, hits, refused,
                    waiterVars >>

\* Once collected, the number may be handed to an unrelated process.
PidReused ==
    /\ kern = "collected"
    /\ ~reused
    /\ reused' = TRUE
    /\ UNCHANGED << platform, kern, exitcode, ownerVars, lock, reap, loop, hits,
                    refused, waiterVars >>

\* A foreign waitpid takes the status away; no lock orders it.
ForeignCollects ==
    /\ foreign
    /\ kern = "zombie"
    /\ kern' = "collected"
    /\ UNCHANGED << platform, exitcode, reused, ownerVars, lock, reap, loop,
                    hits, refused, waiterVars >>

-----------------------------------------------------------------------------
\* The reaper thread: _reap_blocking and _reap_without_a_probe.

ReapUnchanged ==
    UNCHANGED << platform, exitcode, reused, loop, hits, refused, waiterVars >>

\* asyncio.to_thread obtains a thread from the executor.
ReaperStarts ==
    /\ reap = "queued"
    /\ reap' = IF probe THEN "waitable" ELSE "poll"
    /\ UNCHANGED << kern, ownerVars, lock >>
    /\ ReapUnchanged

\* Fault: the wait does not notice that someone else collected the child.
AwaitOnlyZombie ==
    /\ reap = "waitable"
    /\ kern = "zombie"
    /\ reap' = "acquire"
    /\ UNCHANGED << kern, ownerVars, lock >>
    /\ ReapUnchanged

\* _await_child_waitable: block until there is a zombie, collecting nothing.
\* A child collected by someone else answers ChildProcessError, hence False.
AwaitChildWaitable ==
    /\ reap = "waitable"
    /\ kern # "running"
    /\ reap' = IF kern = "zombie" THEN "acquire" ELSE "poll"
    /\ UNCHANGED << kern, ownerVars, lock >>
    /\ ReapUnchanged

ReaperAcquires ==
    /\ reap = "acquire"
    /\ lock = "free"
    /\ lock' = "reaper"
    /\ reap' = "wait4"
    /\ UNCHANGED << kern, ownerVars >>
    /\ ReapUnchanged

\* The wait4 of _collect_and_publish. With nothing left to collect it raises
\* ChildProcessError out of the locked section, and the reap task fails.
CollectBlocking ==
    /\ reap = "wait4"
    /\ kern # "running"
    /\ IF kern = "zombie"
       THEN /\ kern' = "collected"
            /\ reap' = "publish"
            /\ UNCHANGED lock
       ELSE /\ reap' = "failed"
            /\ lock' = "free"
            /\ UNCHANGED kern
    /\ UNCHANGED ownerVars
    /\ ReapUnchanged

\* _publish, first half: the code becomes visible ...
ReaperPublishes ==
    /\ reap = "publish"
    /\ returncode' = exitcode
    /\ reap' = "publishUsage"
    /\ UNCHANGED << kern, usage, lock >>
    /\ ReapUnchanged

\* ... second half: the usage is recorded and the lock is released.
ReaperPublishesUsage ==
    /\ reap = "publishUsage"
    /\ usage' = TRUE
    /\ lock' = "free"
    /\ reap' = "done"
    /\ UNCHANGED << kern, returncode >>
    /\ ReapUnchanged

\* One iteration of _reap_without_a_probe takes the lock ...
PollAcquires ==
    /\ reap = "poll"
    /\ lock = "free"
    /\ lock' = "reaper"
    /\ reap' = "pollCheck"
    /\ UNCHANGED << kern, ownerVars >>
    /\ ReapUnchanged

\* Fault: the poll collects without reading the published code first.
PollCollectsFirst ==
    /\ reap = "pollCheck"
    /\ \/ /\ kern = "zombie"
          /\ kern' = "collected"
          /\ reap' = "publish"
          /\ UNCHANGED lock
       \/ /\ kern # "zombie"
          /\ reap' = IF kern = "running" THEN "poll" ELSE "failed"
          /\ lock' = "free"
          /\ UNCHANGED kern
    /\ UNCHANGED ownerVars
    /\ ReapUnchanged

\* ... reads the published code, and only then tries wait4(WNOHANG). A
\* running child is not collected: the lock is released and the thread
\* sleeps before the next iteration.
PollChecks ==
    /\ reap = "pollCheck"
    /\ \/ /\ returncode # NoCode
          /\ reap' = "done"
          /\ lock' = "free"
          /\ UNCHANGED kern
       \/ /\ returncode = NoCode
          /\ kern = "zombie"
          /\ kern' = "collected"
          /\ reap' = "publish"
          /\ UNCHANGED lock
       \/ /\ returncode = NoCode
          /\ kern = "running"
          /\ reap' = "poll"
          /\ lock' = "free"
          /\ UNCHANGED kern
       \/ /\ returncode = NoCode
          /\ kern = "collected"
          /\ reap' = "failed"
          /\ lock' = "free"
          /\ UNCHANGED kern
    /\ UNCHANGED ownerVars
    /\ ReapUnchanged

Reaper ==
    \/ ReaperStarts
    \/ AwaitChildWaitable
    \/ ReaperAcquires
    \/ CollectBlocking
    \/ ReaperPublishes
    \/ ReaperPublishesUsage
    \/ PollAcquires
    \/ PollChecks

-----------------------------------------------------------------------------
\* The event loop: _deliver_signal with send_signal inside it. Synchronous, so
\* no coroutine runs between its steps; the reaper and the kernel do.

LoopUnchanged == UNCHANGED << platform, exitcode, reused, reap, waiterVars >>

\* SignalAfterExitError(code): the call ends refused.
Refuse(code) == refused' = code /\ loop' = "idle"

\* _observed_exit_code reads the published code first.
DeliverObserves ==
    /\ loop = "idle"
    /\ IF returncode # NoCode
       THEN Refuse(returncode)
       ELSE loop' = "probe" /\ UNCHANGED refused
    /\ UNCHANGED << kern, ownerVars, lock, hits >>
    /\ LoopUnchanged

\* The WNOWAIT|WNOHANG answer of the kernel, NoCode when it says nothing.
KernelReading == IF probe /\ kern = "zombie" THEN exitcode ELSE NoCode

DeliverProbes ==
    /\ loop = "probe"
    /\ IF KernelReading # NoCode
       THEN Refuse(KernelReading)
       ELSE loop' = "acquire" /\ UNCHANGED refused
    /\ UNCHANGED << kern, ownerVars, lock, hits >>
    /\ LoopUnchanged

DeliverAcquires ==
    /\ loop = "acquire"
    /\ lock = "free"
    /\ lock' = "loop"
    /\ loop' = "guard"
    /\ UNCHANGED << kern, ownerVars, hits, refused >>
    /\ LoopUnchanged

\* Fault: the guard is taken under the lock, and the kill outside it.
GuardThenUnlock ==
    /\ loop = "guard"
    /\ lock' = "free"
    /\ loop' = IF returncode # NoCode \/ kern = "collected"
               THEN "reread" ELSE "kill"
    /\ UNCHANGED << kern, ownerVars, hits, refused >>
    /\ LoopUnchanged

\* _delivery_is_refused, under the lock. With a probe it asks whether the
\* status is gone. Without one it collects what is waitable.
DeliverGuard ==
    /\ loop = "guard"
    /\ \/ /\ \/ returncode # NoCode
             \/ kern = "collected"
          /\ lock' = "free"
          /\ loop' = "reread"
          /\ UNCHANGED kern
       \/ /\ returncode = NoCode
          /\ kern = "zombie"
          /\ ~probe
          /\ kern' = "collected"
          /\ loop' = "publish"
          /\ UNCHANGED lock
       \/ /\ returncode = NoCode
          /\ kern = "running" \/ (kern = "zombie" /\ probe)
          /\ loop' = "kill"
          /\ UNCHANGED << kern, lock >>
    /\ UNCHANGED << ownerVars, hits, refused >>
    /\ LoopUnchanged

\* _publish as called from the guard of the probe-less route.
DeliverPublishes ==
    /\ loop = "publish"
    /\ returncode' = exitcode
    /\ loop' = "publishUsage"
    /\ UNCHANGED << kern, usage, lock, hits, refused >>
    /\ LoopUnchanged

DeliverPublishesUsage ==
    /\ loop = "publishUsage"
    /\ usage' = TRUE
    /\ lock' = "free"
    /\ loop' = "reread"
    /\ UNCHANGED << kern, returncode, hits, refused >>
    /\ LoopUnchanged

\* What os.kill(pid) reaches now.
Recipient ==
    CASE kern = "running"               -> "child"
      [] kern = "zombie"                -> "zombie"
      [] kern = "collected" /\ reused   -> "stranger"
      [] OTHER                          -> "nobody"

\* os.kill by number, still under the lock; "nobody" is ProcessLookupError.
DeliverKills ==
    /\ loop = "kill"
    /\ lock' = "free"
    /\ IF Recipient = "nobody"
       THEN loop' = "reread" /\ UNCHANGED << hits, refused >>
       ELSE /\ loop' = "idle"
            /\ hits' = hits \cup {Recipient}
            /\ UNCHANGED refused
    /\ UNCHANGED << kern, ownerVars >>
    /\ LoopUnchanged

\* The handler for ProcessLookupError observes again ...
DeliverRereads ==
    /\ loop = "reread"
    /\ IF returncode # NoCode
       THEN Refuse(returncode)
       ELSE loop' = "reprobe" /\ UNCHANGED refused
    /\ UNCHANGED << kern, ownerVars, lock, hits >>
    /\ LoopUnchanged

DeliverReprobes ==
    /\ loop = "reprobe"
    /\ IF KernelReading # NoCode
       THEN Refuse(KernelReading)
       ELSE loop' = "fallback" /\ UNCHANGED refused
    /\ UNCHANGED << kern, ownerVars, lock, hits >>
    /\ LoopUnchanged

\* ... and takes _get_exit_code when it still sees nothing.
DeliverFallsBack ==
    /\ loop = "fallback"
    /\ Refuse(IF returncode # NoCode THEN returncode ELSE Placeholder)
    /\ UNCHANGED << kern, ownerVars, lock, hits >>
    /\ LoopUnchanged

Deliver ==
    \/ DeliverProbes
    \/ DeliverAcquires
    \/ DeliverGuard
    \/ DeliverPublishes
    \/ DeliverPublishesUsage
    \/ DeliverKills
    \/ DeliverRereads
    \/ DeliverReprobes
    \/ DeliverFallsBack

-----------------------------------------------------------------------------
\* The event loop: a caller inside _await_process_exit. Its steps run only
\* between deliveries.

WaiterUnchanged ==
    UNCHANGED << platform, kernVars, ownerVars, lock, loop, hits, refused >>

\* A published code is returned at once. Otherwise wait() starts the one
\* reap task, or finds the one already started.
WaiterStarts ==
    /\ loop = "idle"
    /\ waiter = "none"
    /\ IF returncode # NoCode
       THEN /\ waiter' = "returned"
            /\ waited' = returncode
            /\ UNCHANGED reap
       ELSE /\ waiter' = "waiting"
            /\ reap' = IF reap = "unstarted" THEN "queued" ELSE reap
            /\ UNCHANGED waited
    /\ UNCHANGED seenUsage
    /\ WaiterUnchanged

\* Cancelling the caller leaves the shielded reap task running.
WaiterCancelled ==
    /\ loop = "idle"
    /\ waiter = "waiting"
    /\ waiter' = "none"
    /\ UNCHANGED << reap, waited, seenUsage >>
    /\ WaiterUnchanged

\* FIRST_COMPLETED of the reap task and the poll of the published code.
WaiterReturns ==
    /\ loop = "idle"
    /\ waiter = "waiting"
    /\ reap = "done" \/ returncode # NoCode
    /\ waiter' = "returned"
    /\ waited' = returncode
    /\ UNCHANGED << reap, seenUsage >>
    /\ WaiterUnchanged

\* The reap task ended with ChildProcessError, and so does the wait.
WaiterFails ==
    /\ loop = "idle"
    /\ waiter = "waiting"
    /\ reap = "failed"
    /\ waiter' = "failed"
    /\ UNCHANGED << reap, waited, seenUsage >>
    /\ WaiterUnchanged

\* resource_usage_for, called when the result is assembled.
WaiterReadsUsage ==
    /\ loop = "idle"
    /\ waiter = "returned"
    /\ waiter' = "reported"
    /\ seenUsage' = usage
    /\ UNCHANGED << reap, waited >>
    /\ WaiterUnchanged

Waiter ==
    \/ WaiterStarts
    \/ WaiterReturns
    \/ WaiterFails
    \/ WaiterReadsUsage

Next ==
    \/ ChildExits \/ PidReused \/ ForeignCollects
    \/ Reaper
    \/ DeliverObserves
    \/ Deliver
    \/ Waiter
    \/ WaiterCancelled

Spec == Init /\ [][Next]_vars

(***************************************************************************)
(* Fairness.  A thread that can run eventually runs.  A threading.Lock is   *)
(* not queued, so an acquisition that is only repeatedly possible needs     *)
(* strong fairness: the poll of the reaper sleeps between its acquisitions  *)
(* and deliveries end, so neither side holds the lock for ever.  Nothing    *)
(* obliges the child to exit, a caller to deliver, or a caller to cancel.   *)
(***************************************************************************)
Fairness ==
    /\ WF_vars(Reaper)
    /\ SF_vars(ReaperAcquires)
    /\ SF_vars(PollAcquires)
    /\ WF_vars(Deliver)
    /\ SF_vars(DeliverAcquires)
    /\ SF_vars(WaiterReturns)
    /\ SF_vars(WaiterFails)

FairSpec == Spec /\ Fairness

-----------------------------------------------------------------------------
\* Every variable holds a value the code can put there.
TypeOK ==
    /\ probe \in BOOLEAN
    /\ foreign \in BOOLEAN
    /\ kern \in KernStates
    /\ exitcode \in Codes \cup {NoCode}
    /\ reused \in BOOLEAN
    /\ returncode \in Codes \cup {NoCode}
    /\ usage \in BOOLEAN
    /\ lock \in {"free", "reaper", "loop"}
    /\ reap \in ReapStates
    /\ loop \in LoopStates
    /\ hits \subseteq {"child", "zombie", "stranger"}
    /\ refused \in Codes \cup {NoCode, Placeholder}
    /\ waiter \in {"none", "waiting", "returned", "failed", "reported"}
    /\ waited \in Codes \cup {NoCode}
    /\ seenUsage \in BOOLEAN

\* send_signal never reaches an unrelated process: while only this owner
\* collects the child, os.kill by number finds the child or its zombie, even
\* when the PID has been reused meanwhile (the window between wait4 and
\* _returncode that _settlement_lock closes).
NoStrangerSignalled == ~foreign => "stranger" \notin hits

\* The child is collected exactly once between the reaper and the guard of the
\* probe-less delivery: neither finds the status gone, so the reap task never
\* ends in ChildProcessError.
CollectedOnce == ~foreign => reap # "failed" /\ waiter # "failed"

\* SignalAfterExitError carries how the child ended, never the -1 of
\* _get_exit_code, whenever the collection was the handle's own.
RefusalCarriesExitCode ==
    ~foreign => refused \in {NoCode, exitcode}

\* Whatever completes _await_process_exit first, the caller is given the code
\* the child ended with.
WaitReportsExit ==
    waiter \in {"returned", "reported"} => waited = exitcode /\ waited # NoCode

\* The three together: one collection, and one exit code for every reading of
\* it, whichever of the reaper thread, the guard of a delivery and the poll of
\* the waiter comes first.
ExitKnownOnce == CollectedOnce /\ RefusalCarriesExitCode /\ WaitReportsExit

\* A delivery to a child that never exits is never made to wait on the reap:
\* every delivery begun returns, delivered or refused.
DeliveryCompletes == (loop # "idle") ~> (loop = "idle")

\* A caller waiting for a child that has exited is answered, unless cancelled,
\* also when the wait began after the exit.
WaitCompletes == (waiter = "waiting" /\ kern # "running") ~> (waiter # "waiting")

\* Nobody is held by the settlement lock or by the reaper thread: neither a
\* delivery to a child that lives nor a wait for one that has exited.
CallsComplete == DeliveryCompletes /\ WaitCompletes
=============================================================================
