----------------------- MODULE HandleSettlementProofs -----------------------
(***************************************************************************)
(* Safety of the handle, for any number of callers, with and without an     *)
(* owned group and whatever the platform refuses.                           *)
(*                                                                          *)
(* The heart of the argument is DriverInv: the slot of the task and the     *)
(* kept outcome together show that a settlement was started, so it is       *)
(* started once, and everything past its exit wait happens to a published   *)
(* child.  CallerInv ties each caller to the settlement it holds on to.     *)
(***************************************************************************)
EXTENDS HandleSettlement, TLAPS

Ended == driver \in {"done", "failed"}

\* One settlement, started once, concluding in one way.
DriverInv ==
    /\ child # "running" => ending \in Endings
    /\ driver \notin {"none", "waiting"} => child = "published"
    /\ driver = "none" => ~tasked /\ result = "none"
    /\ driver # "none" => tasked \/ result # "none"
    /\ result # "none" => driver = "done" /\ result = ending
    /\ driver = "group" => OwnsGroup
    /\ ~Ended => settled = << >>
    /\ driver = "done" => settled \in {<< "SUCCESS" >>, << "TIMEOUT" >>}
    /\ driver = "failed" => settled \in {<< "SUCCESS" >>, << "TIMEOUT" >>, << "ERROR" >>}
    /\ driver = "finalizeSUCCESS" \/ settled = << "SUCCESS" >> => hooked
    /\ hooked => \/ driver = "finalizeSUCCESS"
                 \/ Ended /\ settled = << "SUCCESS" >>

\* A caller that queues, stops or joins for a deadline it had to record.
Recorded(c) == op[c] = "deadline" /\ pc[c] \in {"queued", "stopping", "joining"}

\* What each place of a caller says of the settlement.
CallerInv ==
    \A c \in Callers :
        /\ pc[c] = "idle" <=> op[c] = "none"
        /\ pc[c] # "done" => answer[c] = "none"
        /\ pc[c] = "waiting" => op[c] \in {"wait", "deadline"}
        /\ pc[c] = "unbounded" => op[c] = "deadline"
        /\ pc[c] \in {"queued", "stopping"} => op[c] # "wait"
        /\ pc[c] = "joining" => op[c] \in {"deadline", "elapsed"}
        /\ pc[c] = "settling" => op[c] \in StopOps
        /\ pc[c] # "idle" /\ op[c] \in WaitOps => driver # "none"
        /\ pc[c] = "settling" => driver # "none"
        /\ pc[c] = "done" /\ (op[c] \in StopOps \/ answer[c] # "cancelled") => Ended
        /\ Recorded(c) => deadline # Nobody /\ driver # "finalizeSUCCESS"
        /\ Recorded(c) /\ driver = "done" => settled = << "TIMEOUT" >>
        /\ op[c] = "deadline" /\ answer[c] = "TimeoutExpired" => settled = << "TIMEOUT" >>

\* Who may escalate.
StopInv ==
    /\ esc[Task] # "none" => driver = "group"
    /\ \A c \in Callers :
          /\ esc[c] # "none" => pc[c] = "stopping"
          /\ esc[c] = "grace" => op[c] # "kill"
          /\ pc[c] = "stopping" /\ op[c] # "kill" => stopLock = c

IInv == RunTypeOK /\ CallTypeOK /\ DriverInv /\ CallerInv /\ StopInv

LEMMA InitIInv == Init => IInv
<1> SUFFICES ASSUME Init PROVE IInv
  OBVIOUS
<1>1. RunTypeOK
  BY HandleAssumption DEF Init, RunTypeOK, Endings
<1>2. CallTypeOK
  BY HandleAssumption DEF Init, CallTypeOK
<1>3. DriverInv
  BY DEF Init, DriverInv, Endings, Ended
<1>4. CallerInv
  BY DEF Init, CallerInv, Recorded, WaitOps, StopOps, Ended
<1>5. StopInv
  BY DEF Init, StopInv, Actors
<1> QED
  BY <1>1, <1>2, <1>3, <1>4, <1>5 DEF IInv

\* The outcome a caller is owed is one of the answers, and an expiry only if
\* it was one.
LEMMA OwedFacts ==
    ASSUME NEW c \in Callers, NEW v \in Endings \cup {"TimeoutExpired", "failure"}
    PROVE  /\ Owed(c, v) \in {"cancelled", "failure", "TimeoutExpired", "left", "blockError"}
                             \cup Endings
           /\ Owed(c, v) = "TimeoutExpired" => v = "TimeoutExpired"
  BY DEF Owed, Endings

\* Steps of the child alone.
LEMMA ChildStep ==
    ASSUME IInv, ChildExits \/ ChildCollected \/ ChildPublished \/ MembersLeave
    PROVE  IInv'
<1>1. UNCHANGED << taskVars, stopLock, esc, callVars >>
  BY DEF ChildExits, ChildCollected, ChildPublished, MembersLeave
<1>a. /\ child' \in {"running", "zombie", "collected", "published"}
      /\ ending' \in {"none"} \cup Endings
      /\ sent' = sent /\ reaping' = reaping
  BY DEF IInv, RunTypeOK, ChildExits, ChildCollected, ChildPublished, MembersLeave, Endings
<1>b. members' \in BOOLEAN
  BY Zenon DEF IInv, RunTypeOK, ChildExits, ChildCollected, ChildPublished, MembersLeave
<1>2. RunTypeOK'
  BY <1>1, <1>a, <1>b DEF IInv, RunTypeOK, taskVars
<1>3. CallTypeOK'
  BY <1>1 DEF IInv, CallTypeOK, callVars
<1>4. DriverInv'
  BY <1>1, ZenonT(60) DEF IInv, RunTypeOK, DriverInv, ChildExits, ChildCollected, ChildPublished,
              MembersLeave, taskVars, Endings, Ended
<1>5. CallerInv'
  BY <1>1 DEF IInv, CallerInv, Recorded, taskVars, callVars, Ended
<1>6. StopInv'
  BY <1>1 DEF IInv, StopInv, taskVars, callVars
<1> QED
  BY <1>2, <1>3, <1>4, <1>5, <1>6 DEF IInv

\* Finalizing appends the one terminal event.
LEMMA FinalEvent ==
    ASSUME IInv, DriverFinalizes
    PROVE  /\ driver = "finalizeSUCCESS" => settled' = << "SUCCESS" >>
           /\ driver = "finalizeTIMEOUT" => settled' = << "TIMEOUT" >>
           /\ driver = "finalizeERROR" => settled' = << "ERROR" >>
           /\ driver \in {"finalizeSUCCESS", "finalizeTIMEOUT", "finalizeERROR"}
           /\ \/ driver # "finalizeERROR" /\ driver' = "done" /\ result' = ending
              \/ driver' = "failed" /\ result' = result
           /\ UNCHANGED << childVars, tasked, deadline, hooked, stopLock, esc, callVars >>
<1>1. driver \in {"finalizeSUCCESS", "finalizeTIMEOUT", "finalizeERROR"}
  BY DEF DriverFinalizes, Finalizing
<1>2. settled = << >>
  BY <1>1 DEF IInv, DriverInv, Ended
<1>3. settled' = Append(<< >>, Finalizing[driver])
  BY <1>2 DEF DriverFinalizes
<1>4. settled' = << Finalizing[driver] >>
  BY <1>3
<1>5. /\ Finalizing["finalizeSUCCESS"] = "SUCCESS"
      /\ Finalizing["finalizeTIMEOUT"] = "TIMEOUT"
      /\ Finalizing["finalizeERROR"] = "ERROR"
  BY DEF Finalizing
<1>6. /\ \/ driver # "finalizeERROR" /\ driver' = "done" /\ result' = ending
         \/ driver' = "failed" /\ result' = result
      /\ UNCHANGED << childVars, tasked, deadline, hooked, stopLock, esc, callVars >>
  BY DEF DriverFinalizes
<1> QED
  BY <1>1, <1>4, <1>5, <1>6

\* Steps of the settlement task.
LEMMA DriverStep ==
    ASSUME IInv, Driver
    PROVE  IInv'
<1>1. CASE DriverReaps \/ DriverSeesExit \/ DriverDrains
  <2> USE <1>1 DEF DriverReaps, DriverSeesExit, DriverDrains, childVars, taskVars, callVars
  <2>1. RunTypeOK'
    BY DEF IInv, RunTypeOK, Finalizing
  <2>2. CallTypeOK'
    BY DEF IInv, CallTypeOK
  <2>3. DriverInv'
    BY DEF IInv, RunTypeOK, DriverInv, Ended
  <2>4. CallerInv'
    BY DEF IInv, CallerInv, Recorded, Ended
  <2>5. StopInv'
    BY DEF IInv, StopInv
  <2> QED
    BY <2>1, <2>2, <2>3, <2>4, <2>5 DEF IInv
<1>2. CASE DriverConcludes
  <2> USE <1>2 DEF DriverConcludes, childVars, taskVars, callVars
  <2>1. RunTypeOK'
    BY ZenonT(60) DEF IInv, RunTypeOK, Finalizing
  <2>2. CallTypeOK'
    BY DEF IInv, CallTypeOK
  <2>3. DriverInv'
    BY DEF IInv, RunTypeOK, DriverInv, Ended
  <2>4. CallerInv'
    BY DEF IInv, CallerInv, Recorded, Ended
  <2>5. StopInv'
    BY DEF IInv, StopInv
  <2> QED
    BY <2>1, <2>2, <2>3, <2>4, <2>5 DEF IInv
<1>3. CASE DriverFinalizes
  <2> USE <1>3, FinalEvent DEF childVars, taskVars, callVars
  <2>1. RunTypeOK'
    BY DEF IInv, RunTypeOK, DriverInv, Finalizing
  <2>2. CallTypeOK'
    BY DEF IInv, CallTypeOK
  <2>3. DriverInv'
    BY DEF IInv, RunTypeOK, DriverInv, Ended
  <2>4. CallerInv'
    BY DEF IInv, CallerInv, Recorded, Ended
  <2>5. StopInv'
    BY DEF IInv, StopInv
  <2> QED
    BY <2>1, <2>2, <2>3, <2>4, <2>5 DEF IInv
<1> QED
  BY <1>1, <1>2, <1>3 DEF Driver

\* Holding on to the settlement: what EnsureTask and AwaitSettlement leave.
LEMMA EnsureTaskFacts ==
    ASSUME IInv, EnsureTask, result = "none"
    PROVE  /\ tasked'
           /\ driver = "none" => driver' = "waiting"
           /\ driver # "none" => driver' = driver
  BY DEF EnsureTask, IInv, DriverInv, RunTypeOK

\* Steps in which a caller starts, expires or gives up.
LEMMA CallStep ==
    ASSUME IInv, NEW c \in Callers,
           Wait(c) \/ WaitElapsed(c) \/ Stop(c) \/ DeadlinePasses(c) \/ Cancelled(c)
    PROVE  IInv'
<1> USE HandleAssumption DEF IInv
<1>1. CASE Wait(c)
  <2> USE <1>1, EnsureTaskFacts, OwedFacts
      DEF Wait, Call, AwaitSettlement, Answers, Goes, childVars
  <2>1. RunTypeOK'
    BY ZenonT(60) DEF RunTypeOK, EnsureTask
  <2>2. CallTypeOK'
    BY DEF CallTypeOK, RunTypeOK, Endings
  <2>3. DriverInv'
    BY DEF RunTypeOK, DriverInv, Ended
  <2>4. CallerInv'
    BY DEF CallTypeOK, RunTypeOK, CallerInv, Recorded, Ended, DriverInv, WaitOps, StopOps,
           Endings, ObservedExit
  <2>5. StopInv'
    BY DEF CallTypeOK, CallerInv, StopInv, Actors
  <2> QED
    BY <2>1, <2>2, <2>3, <2>4, <2>5
<1>2. CASE WaitElapsed(c)
  <2> USE <1>2, EnsureTaskFacts
      DEF WaitElapsed, Call, Expire, RecordDeadline, Answers, Goes, childVars
  <2>1. RunTypeOK'
    BY ZenonT(60) DEF RunTypeOK, EnsureTask
  <2>2. CallTypeOK'
    BY DEF CallTypeOK, RunTypeOK, Endings
  <2>3. DriverInv'
    BY DEF RunTypeOK, DriverInv, Ended
  <2>4. CallerInv'
    BY DEF CallTypeOK, RunTypeOK, CallerInv, Recorded, Ended, DriverInv, WaitOps, StopOps,
           Endings, ObservedExit
  <2>5. StopInv'
    BY DEF CallTypeOK, CallerInv, StopInv, Actors
  <2> QED
    BY <2>1, <2>2, <2>3, <2>4, <2>5
<1>3. CASE DeadlinePasses(c)
  <2> USE <1>3, EnsureTaskFacts
      DEF DeadlinePasses, Expire, RecordDeadline, Answers, Goes, childVars
  <2>1. RunTypeOK'
    BY ZenonT(60) DEF RunTypeOK, EnsureTask
  <2>2. CallTypeOK'
    BY DEF CallTypeOK, RunTypeOK, Endings
  <2>3. DriverInv'
    BY DEF RunTypeOK, DriverInv, Ended
  <2>4. CallerInv'
    BY DEF CallTypeOK, RunTypeOK, CallerInv, Recorded, Ended, DriverInv, WaitOps, StopOps,
           Endings, ObservedExit
  <2>5. StopInv'
    BY DEF CallTypeOK, CallerInv, StopInv, Actors
  <2> QED
    BY <2>1, <2>2, <2>3, <2>4, <2>5
<1>4. CASE Stop(c)
  <2> USE <1>4
      DEF Stop, Call, Goes, childVars, taskVars
  <2>1. RunTypeOK'
    BY DEF RunTypeOK, EnsureTask
  <2>2. CallTypeOK'
    BY DEF CallTypeOK, RunTypeOK, Endings
  <2>3. DriverInv'
    BY DEF RunTypeOK, DriverInv, Ended
  <2>4. CallerInv'
    BY DEF CallTypeOK, RunTypeOK, CallerInv, Recorded, Ended, DriverInv, WaitOps, StopOps,
           Endings, ObservedExit
  <2>5. StopInv'
    BY DEF CallTypeOK, CallerInv, StopInv, Actors
  <2> QED
    BY <2>1, <2>2, <2>3, <2>4, <2>5
<1>5. CASE Cancelled(c)
  <2> USE <1>5
      DEF Cancelled, Answers, childVars, taskVars
  <2>1. RunTypeOK'
    BY DEF RunTypeOK, EnsureTask
  <2>2. CallTypeOK'
    BY DEF CallTypeOK, RunTypeOK, Endings
  <2>3. DriverInv'
    BY DEF RunTypeOK, DriverInv, Ended
  <2>4. CallerInv'
    BY DEF CallTypeOK, RunTypeOK, CallerInv, Recorded, Ended, DriverInv, WaitOps, StopOps,
           Endings, ObservedExit
  <2>5. StopInv'
    BY DEF CallTypeOK, CallerInv, StopInv, Actors
  <2> QED
    BY <2>1, <2>2, <2>3, <2>4, <2>5
<1> QED
  BY <1>1, <1>2, <1>3, <1>4, <1>5

\* The ends of a caller's call.
LEMMA HearsStep ==
    ASSUME IInv, NEW c \in Callers, TakeStopLock(c) \/ WaitReturns(c) \/ ExpiryRaised(c)
    PROVE  IInv'
<1> USE HandleAssumption DEF IInv
<1>1. CASE TakeStopLock(c)
  <2> USE <1>1
      DEF TakeStopLock, Goes, childVars, taskVars
  <2>1. RunTypeOK'
    BY DEF RunTypeOK, EnsureTask
  <2>2. CallTypeOK'
    BY DEF CallTypeOK, RunTypeOK, Endings
  <2>3. DriverInv'
    BY DEF RunTypeOK, DriverInv, Ended
  <2>4. CallerInv'
    BY DEF CallTypeOK, RunTypeOK, CallerInv, Recorded, Ended, DriverInv, WaitOps, StopOps,
           Endings, ObservedExit
  <2>5. StopInv'
    BY DEF CallTypeOK, CallerInv, StopInv, Actors
  <2> QED
    BY <2>1, <2>2, <2>3, <2>4, <2>5
<1>2. CASE WaitReturns(c)
  <2> USE <1>2, OwedFacts
      DEF WaitReturns, Hears, Answers, childVars
  <2>0. ending \in Endings
    BY DEF DriverInv
  <2>1. RunTypeOK'
    BY DEF RunTypeOK
  <2>2. CallTypeOK'
    BY <2>0 DEF CallTypeOK, Endings
  <2>3. DriverInv'
    BY <2>0 DEF RunTypeOK, DriverInv, Ended, Endings
  <2>4. CallerInv'
    BY DEF CallTypeOK, RunTypeOK, CallerInv, Recorded, Ended, DriverInv, WaitOps, StopOps,
           Endings, ObservedExit
  <2>5. StopInv'
    BY DEF CallTypeOK, CallerInv, StopInv, Actors
  <2> QED
    BY <2>1, <2>2, <2>3, <2>4, <2>5
<1>3. CASE ExpiryRaised(c)
  <2> USE <1>3, OwedFacts
      DEF ExpiryRaised, Hears, Answers, childVars
  <2>0. ending \in Endings
    BY DEF DriverInv
  <2>1. RunTypeOK'
    BY DEF RunTypeOK
  <2>2. CallTypeOK'
    BY DEF CallTypeOK, Endings
  <2>3. DriverInv'
    BY <2>0 DEF RunTypeOK, DriverInv, Ended, Endings
  <2>4. CallerInv'
    BY DEF CallTypeOK, RunTypeOK, CallerInv, Recorded, Ended, DriverInv, WaitOps, StopOps,
           Endings, ObservedExit
  <2>5. StopInv'
    BY DEF CallTypeOK, CallerInv, StopInv, Actors
  <2> QED
    BY <2>1, <2>2, <2>3, <2>4, <2>5
<1> QED
  BY <1>1, <1>2, <1>3

\* The end of a caller's stop, with the escalation it had.
LEMMA StopOverFacts ==
    ASSUME IInv, NEW c \in Callers, pc[c] = "stopping", StopOver(c),
           UNCHANGED << child, ending, members, op, cancelled >>,
           reaping' \in BOOLEAN, sent' \subseteq {"SIGTERM", "SIGKILL"},
           esc' = [esc EXCEPT ![c] = "none"]
    PROVE  IInv'
<1> USE HandleAssumption DEF IInv
<1>1. CASE op[c] \in WaitOps
  <2> USE <1>1 DEF StopOver, Answers, Goes, WaitOps, StopOps
  <2>1. RunTypeOK'
    BY DEF RunTypeOK, EnsureTask
  <2>2. CallTypeOK'
    BY ZenonT(60) DEF CallTypeOK, RunTypeOK, Endings
  <2>3. DriverInv'
    BY DEF RunTypeOK, DriverInv, Ended
  <2>4. CallerInv'
    BY DEF CallTypeOK, RunTypeOK, CallerInv, Recorded, Ended, DriverInv, WaitOps, StopOps,
           Endings, ObservedExit
  <2>5. StopInv'
    BY DEF CallTypeOK, CallerInv, StopInv, Actors
  <2> QED
    BY <2>1, <2>2, <2>3, <2>4, <2>5
<1>2. CASE op[c] \in StopOps
  <2> USE <1>2, EnsureTaskFacts, OwedFacts
      DEF StopOver, AwaitSettlement, Answers, Goes, WaitOps, StopOps
  <2>1. RunTypeOK'
    BY ZenonT(60) DEF RunTypeOK, EnsureTask
  <2>a. result # "none" => result \in Endings
    BY DEF RunTypeOK
  <2>b. answer' \in [Callers -> {"none", "cancelled", "failure", "TimeoutExpired", "left",
                                "blockError"} \cup Endings]
    BY <2>a DEF CallTypeOK
  <2>2. CallTypeOK'
    BY <2>b DEF CallTypeOK
  <2>3. DriverInv'
    BY DEF RunTypeOK, DriverInv, Ended
  <2>4. CallerInv'
    BY DEF CallTypeOK, RunTypeOK, CallerInv, Recorded, Ended, DriverInv, WaitOps, StopOps,
           Endings, ObservedExit
  <2>5. StopInv'
    BY DEF CallTypeOK, CallerInv, StopInv, Actors
  <2> QED
    BY <2>1, <2>2, <2>3, <2>4, <2>5
<1> QED
  BY <1>1, <1>2 DEF StopOver

\* A step of an escalation that goes on.
LEMMA EscalationGoesOn ==
    ASSUME IInv, NEW a \in Actors, AtStop(a), NEW phase \in {"grace", "reap"},
           UNCHANGED << child, ending, members, op, cancelled, taskVars, stopLock, pc, answer >>,
           reaping' \in BOOLEAN, sent' \subseteq {"SIGTERM", "SIGKILL"},
           esc' = [esc EXCEPT ![a] = phase],
           phase = "grace" => ~Compels(a)
    PROVE  IInv'
<1> USE HandleAssumption DEF IInv, taskVars
<1>1. RunTypeOK'
  BY DEF RunTypeOK
<1>2. CallTypeOK'
  BY DEF CallTypeOK
<1>3. DriverInv'
  BY DEF DriverInv, Ended
<1>4. CallerInv'
  BY DEF CallerInv, Recorded, Ended
<1>5. StopInv'
  BY DEF CallTypeOK, StopInv, AtStop, Compels, Actors
<1> QED
  BY <1>1, <1>2, <1>3, <1>4, <1>5

\* The settlement's own stop of the owned group is over.
LEMMA GroupOverFacts ==
    ASSUME IInv, driver = "group", GroupOver,
           UNCHANGED << child, ending, members, op, cancelled >>,
           reaping' \in BOOLEAN, sent' \subseteq {"SIGTERM", "SIGKILL"},
           esc' = [esc EXCEPT ![Task] = "none"]
    PROVE  IInv'
<1> USE HandleAssumption DEF IInv, GroupOver
<1>1. RunTypeOK'
  BY DEF RunTypeOK
<1>2. CallTypeOK'
  BY DEF CallTypeOK
<1>3. DriverInv'
  BY DEF DriverInv, Ended
<1>4. CallerInv'
  BY DEF CallerInv, Recorded, Ended
<1>5. StopInv'
  BY DEF CallTypeOK, StopInv, Actors
<1> QED
  BY <1>1, <1>2, <1>3, <1>4, <1>5

\* Every step of an escalation.
LEMMA EscalationStep ==
    ASSUME IInv, NEW a \in Actors, Escalation(a)
    PROVE  IInv'
<1> USE HandleAssumption
<1>1. /\ AtStop(a)
      /\ UNCHANGED << child, ending, members, op, cancelled >>
  BY DEF Escalation, EscalationBegins, GraceSettles, GraceExpires, EscalationReaped,
         AtStop, IInv, StopInv, Actors, childVars
<1>2. reaping' \in BOOLEAN
  BY DEF Escalation, EscalationBegins, GraceSettles, GraceExpires, EscalationReaped,
         childVars, IInv, RunTypeOK
<1>3. sent' \subseteq {"SIGTERM", "SIGKILL"}
  BY DEF Escalation, EscalationBegins, GraceSettles, GraceExpires, EscalationReaped,
         Sends, childVars, IInv, RunTypeOK
<1>4. CASE /\ \E phase \in {"grace", "reap"} :
                 esc' = [esc EXCEPT ![a] = phase] /\ (phase = "grace" => ~Compels(a))
           /\ UNCHANGED << taskVars, stopLock, pc, answer >>
  BY <1>1, <1>2, <1>3, <1>4, EscalationGoesOn
<1>5. CASE esc' = [esc EXCEPT ![a] = "none"] /\ Over(a)
  BY <1>1, <1>2, <1>3, <1>5, StopOverFacts, GroupOverFacts DEF Over, AtStop, Actors
<1>6. esc[a] = "none" => esc = [esc EXCEPT ![a] = "none"]
  BY DEF IInv, CallTypeOK
<1> QED
  BY <1>4, <1>5, <1>6
     DEF Escalation, EscalationBegins, GraceSettles, GraceExpires, EscalationReaped

\* The invariant holds in every reachable state of a handle.
THEOREM Invariance == Spec => []IInv
<1>1. IInv /\ [Next]_vars => IInv'
  <2> SUFFICES ASSUME IInv, [Next]_vars PROVE IInv'
    OBVIOUS
  <2>1. CASE Next
    BY <2>1, ChildStep, DriverStep, EscalationStep, CallStep, HearsStep DEF Next, Loop
  <2>2. CASE UNCHANGED vars
    <3> USE <2>2 DEF vars, childVars, taskVars, callVars, IInv
    <3>1. RunTypeOK' /\ CallTypeOK'
      BY DEF RunTypeOK, CallTypeOK
    <3>2. DriverInv'
      BY DEF DriverInv, Ended
    <3>3. CallerInv'
      BY DEF CallerInv, Recorded, Ended
    <3>4. StopInv'
      BY DEF StopInv
    <3> QED
      BY <3>1, <3>2, <3>3, <3>4
  <2> QED
    BY <2>1, <2>2
<1> QED
  BY InitIInv, <1>1, PTL DEF Spec

\* Type correctness.
THEOREM TypeCorrect == Spec => []TypeOK
<1>1. IInv => TypeOK
  <2> SUFFICES ASSUME IInv PROVE TypeOK
    OBVIOUS
  <2>1. settled \in {<< >>, << "SUCCESS" >>, << "TIMEOUT" >>, << "ERROR" >>}
    BY DEF IInv, DriverInv, Ended
  <2>a. << >> \in Seq({"SUCCESS", "TIMEOUT", "ERROR"})
    OBVIOUS
  <2>b. \A k \in {"SUCCESS", "TIMEOUT", "ERROR"} :
           << k >> \in Seq({"SUCCESS", "TIMEOUT", "ERROR"})
    OBVIOUS
  <2>2. settled \in Seq({"SUCCESS", "TIMEOUT", "ERROR"})
    BY <2>1, <2>a, <2>b, Zenon
  <2> QED
    BY <2>2 DEF IInv, TypeOK
<1> QED
  BY Invariance, <1>1, PTL

\* The run is finalized once, and nobody hears of it before.
THEOREM FinalizedOnce == Spec => []SettledOnce
<1>1. IInv => SettledOnce
  <2> SUFFICES ASSUME IInv PROVE SettledOnce
    OBVIOUS
  <2>1. settled = << >> => Len(settled) = 0
    OBVIOUS
  <2>2. \A k : settled = << k >> => Len(settled) = 1
    OBVIOUS
  <2>3. Ended => Len(settled) = 1
    BY <2>2 DEF IInv, DriverInv, Ended
  <2>a. ~Ended => Len(settled) = 0
    BY <2>1 DEF IInv, DriverInv
  <2>4. Len(settled) <= 1
    BY <2>a, <2>3 DEF Ended
  <2>5. ASSUME NEW c \in Callers, answer[c] \in Endings \cup {"TimeoutExpired", "left"}
        PROVE  Len(settled) = 1
    BY <2>3, <2>5 DEF IInv, CallerInv, CallTypeOK, Endings
  <2> QED
    BY <2>4, <2>5 DEF SettledOnce
<1> QED
  BY Invariance, <1>1, PTL

\* However a stop or an expiry ends, the child is reaped and the run settled.
THEOREM NobodyLeavesAChild == Spec => []NoChildLeftBehind
<1>1. IInv => NoChildLeftBehind
  BY DEF IInv, DriverInv, CallerInv, NoChildLeftBehind, Ended
<1> QED
  BY Invariance, <1>1, PTL

\* An expiry is raised only by a run that is observed to have timed out.
THEOREM ExpiriesAreObserved == Spec => []ExpiryIsObserved
<1>1. IInv => ExpiryIsObserved
  BY DEF IInv, CallerInv, ExpiryIsObserved
<1> QED
  BY Invariance, <1>1, PTL

\* After hooks run exactly in the runs that settle as a success.
THEOREM HooksPair == Spec => []HooksPairWithSuccess
<1>1. ~(<< "TIMEOUT" >> = << "SUCCESS" >>) /\ ~(<< "TIMEOUT" >> = << >>)
  OBVIOUS
<1>2. IInv => HooksPairWithSuccess
  BY <1>1 DEF IInv, DriverInv, HooksPairWithSuccess, Ended
<1> QED
  BY Invariance, <1>2, PTL

\* The settlement, the hooks and the expiries tell the same story once.
THEOREM SettlementIsFaithful == Spec => []SettlementFaithful
BY FinalizedOnce, HooksPair, ExpiriesAreObserved, PTL DEF SettlementFaithful

\* One settlement that observers, hooks and callers agree on, and no child left
\* behind it.
THEOREM RunIsSettledOnce == Spec => []RunSettledOnce
BY SettlementIsFaithful, NobodyLeavesAChild, PTL DEF RunSettledOnce

\* A run that owns no group is never escalated twice at once.
THEOREM EscalatedOnce == Spec => [](~OwnsGroup => OneEscalation)
<1>1. IInv => (~OwnsGroup => OneEscalation)
  BY HandleAssumption DEF IInv, DriverInv, StopInv, CallTypeOK, OneEscalation, Actors
<1> QED
  BY Invariance, <1>1, PTL

-----------------------------------------------------------------------------
\* The refinement of OneOutcome.

\* What a caller is owed once the run has ended is permitted to its operation.
LEMMA OwedPermitted ==
    ASSUME IInv, Ended, NEW c \in Callers, op[c] # "none",
           NEW v \in {Verdict, "failure", "TimeoutExpired"},
           v = "failure" => Verdict = "failure",
           v = "TimeoutExpired" => op[c] \in {"deadline", "elapsed"} /\ Verdict # "failure"
    PROVE  Owed(c, v) \in Outcome!Permitted(op[c])
<1>1. Verdict \in Endings \cup {"failure"}
  BY DEF IInv, DriverInv, Ended, Verdict
<1> QED
  BY <1>1 DEF Owed, Outcome!Permitted, Outcome!Outcomes, Outcome!Expiring, Outcome!Leaving,
              Endings

AbstractStep == Outcome!Next \/ UNCHANGED Outcome!vars

\* A call that ends with a permitted answer is a Tell of the abstract
\* specification.
LEMMA TellStep ==
    ASSUME IInv, NEW c \in Callers, pc[c] \notin {"idle", "done"}, op' = op,
           NEW v \in Outcome!Permitted(op[c]), Answers(c, v), Verdict' = Verdict
    PROVE  AbstractStep
<1>1. op[c] # "none" /\ answer[c] = "none"
  BY DEF IInv, CallerInv
<1>2. Outcome!Tell(c)
  BY <1>1 DEF Outcome!Tell, Answers
<1> QED
  BY <1>2 DEF AbstractStep, Outcome!Next

\* A new call, answered at once or not.
LEMMA AskStep ==
    ASSUME IInv, NEW c \in Callers, NEW o \in Ops, Call(c, o), Verdict' = Verdict,
           \/ answer' = answer
           \/ \E v \in Outcome!Permitted(o) : Answers(c, v)
    PROVE  AbstractStep
<1>1. op[c] = "none"
  BY DEF IInv, CallerInv, Call
<1>2. Outcome!Ask(c, o)
  BY <1>1 DEF Outcome!Ask, Answers, Call
<1> QED
  BY <1>2 DEF AbstractStep, Outcome!Next

\* Starting the settlement, or holding on to it, decides nothing.
LEMMA EnsureTaskVerdict ==
    ASSUME IInv, EnsureTask, result = "none", ending' = ending
    PROVE  Verdict' = Verdict
  BY EnsureTaskFacts DEF Verdict, IInv, RunTypeOK

LEMMA ChildRefines ==
    ASSUME IInv, ChildExits \/ ChildCollected \/ ChildPublished \/ MembersLeave
    PROVE  AbstractStep
<1>1. op' = op /\ answer' = answer /\ driver' = driver
  BY DEF ChildExits, ChildCollected, ChildPublished, MembersLeave, taskVars, callVars
<1>2. driver = "done" => ending' = ending
  BY DEF ChildExits, ChildCollected, ChildPublished, MembersLeave, IInv, DriverInv
<1> QED
  BY <1>1, <1>2 DEF AbstractStep, Outcome!vars, Verdict

LEMMA DriverRefines ==
    ASSUME IInv, Driver
    PROVE  AbstractStep
<1>1. op' = op /\ answer' = answer /\ ending' = ending
  BY DEF Driver, DriverReaps, DriverSeesExit, DriverDrains, DriverConcludes,
         DriverFinalizes, childVars, callVars
<1>2. CASE DriverFinalizes
  <2>1. driver \in {"finalizeSUCCESS", "finalizeTIMEOUT", "finalizeERROR"}
        /\ driver' \in {"done", "failed"}
    BY <1>2, FinalEvent
  <2>2. ending \in Endings
    BY <2>1 DEF IInv, DriverInv
  <2>3. Verdict = "pending" /\ Verdict' \in Endings \cup {"failure"}
    BY <1>1, <2>1, <2>2 DEF Verdict
  <2> QED
    BY <1>1, <2>3 DEF AbstractStep, Outcome!Next, Outcome!Decide, Outcome!Outcomes, Endings
<1>3. CASE DriverReaps \/ DriverSeesExit \/ DriverDrains \/ DriverConcludes
  <2>1. driver \notin {"done", "failed"} /\ driver' \notin {"done", "failed"}
    BY <1>3 DEF DriverReaps, DriverSeesExit, DriverDrains, DriverConcludes, taskVars
  <2> QED
    BY <1>1, <2>1 DEF AbstractStep, Outcome!vars, Verdict
<1> QED
  BY <1>2, <1>3 DEF Driver

LEMMA CallRefines ==
    ASSUME IInv, NEW c \in Callers,
           Wait(c) \/ WaitElapsed(c) \/ Stop(c) \/ DeadlinePasses(c) \/ Cancelled(c)
    PROVE  AbstractStep
<1>1. ending' = ending
  BY DEF Wait, WaitElapsed, Stop, DeadlinePasses, Cancelled, Expire, childVars
<1>2. result # "none" => Ended /\ Verdict = result /\ result \in Endings
  BY DEF IInv, DriverInv, Ended, Verdict, RunTypeOK
<1>3. driver' = driver => Verdict' = Verdict
  BY <1>1 DEF Verdict
<1>4. \A o \in {"wait", "deadline", "elapsed"} :
         result # "none" => result \in Outcome!Permitted(o)
  BY <1>2 DEF Outcome!Permitted, Outcome!Leaving, Endings
<1>5. CASE Wait(c)
  <2>1. PICK o \in Ops \cap {"wait", "deadline"} : Call(c, o)
    BY <1>5 DEF Wait
  <2>2. c \notin cancelled => Owed(c, result) = result
    BY <2>1 DEF Owed, Call, IInv, CallerInv
  <2>a. c \in cancelled => Owed(c, result) = "cancelled"
    BY DEF Owed
  <2>b. result # "none" => "cancelled" \in Outcome!Permitted(o)
    BY <1>2 DEF Outcome!Permitted, Endings
  <2>3. result # "none" => Owed(c, result) \in Outcome!Permitted(o)
    BY <1>4, <2>2, <2>a, <2>b
  <2>4. Verdict' = Verdict
    BY <1>1, <1>3, <1>5, EnsureTaskVerdict DEF Wait, AwaitSettlement
  <2> QED
    BY <1>5, <2>1, <2>3, <2>4, AskStep DEF Wait, AwaitSettlement, Goes
<1>6. CASE WaitElapsed(c)
  <2>1. Verdict' = Verdict
    BY <1>1, <1>3, <1>6, EnsureTaskVerdict DEF WaitElapsed, Expire
  <2> QED
    BY <1>4, <1>6, <2>1, AskStep DEF WaitElapsed, Expire, RecordDeadline, Goes
<1>7. CASE Stop(c)
  <2>1. PICK o \in Ops : Call(c, o) /\ answer' = answer
    BY <1>7 DEF Stop, Goes
  <2> QED
    BY <1>3, <1>7, <2>1, AskStep DEF Stop, taskVars
<1>8. CASE DeadlinePasses(c)
  <2>1. Verdict' = Verdict
    BY <1>1, <1>3, <1>8, EnsureTaskVerdict DEF DeadlinePasses, Expire
  <2>2. CASE result # "none"
    BY <1>4, <1>8, <2>1, <2>2, TellStep DEF DeadlinePasses, Expire
  <2>3. CASE result = "none"
    BY <1>8, <2>1, <2>3
       DEF DeadlinePasses, Expire, RecordDeadline, Goes, AbstractStep, Outcome!vars
  <2> QED
    BY <2>2, <2>3
<1>9. CASE Cancelled(c)
  <2>1. Verdict' = Verdict /\ op' = op
    BY <1>3, <1>9 DEF Cancelled, taskVars
  <2>2. CASE op[c] \in WaitOps /\ Answers(c, "cancelled")
             /\ pc[c] \in {"waiting", "unbounded", "queued", "joining"}
    <3>1. "cancelled" \in Outcome!Permitted(op[c])
      BY <2>2 DEF Outcome!Permitted, Outcome!Expiring, WaitOps
    <3> QED
      BY <2>1, <2>2, <3>1, TellStep
  <2>3. CASE answer' = answer
    BY <2>1, <2>3 DEF AbstractStep, Outcome!vars
  <2> QED
    BY <1>9, <2>2, <2>3 DEF Cancelled
<1> QED
  BY <1>5, <1>6, <1>7, <1>8, <1>9

LEMMA HearsRefines ==
    ASSUME IInv, NEW c \in Callers, TakeStopLock(c) \/ WaitReturns(c) \/ ExpiryRaised(c)
    PROVE  AbstractStep
<1>1. ending' = ending /\ driver' = driver /\ op' = op
  BY DEF TakeStopLock, WaitReturns, ExpiryRaised, Hears, childVars, taskVars
<1>2. Verdict' = Verdict
  BY <1>1 DEF Verdict
<1>3. CASE TakeStopLock(c)
  BY <1>1, <1>2, <1>3 DEF TakeStopLock, Goes, AbstractStep, Outcome!vars
<1>4. ASSUME NEW v \in {ending, "TimeoutExpired"}, Hears(c, v),
             pc[c] \in {"waiting", "unbounded", "settling", "joining"},
             v = "TimeoutExpired" => op[c] \in {"deadline", "elapsed"}
      PROVE  AbstractStep
  <2>0. op[c] # "none" /\ Ended /\ ending # "failure"
    BY <1>4 DEF IInv, CallerInv, Hears, Ended, DriverInv, RunTypeOK, Endings
  <2>1. CASE driver = "done"
    <3>1. Verdict = ending
      BY <2>1 DEF Verdict
    <3>2. Owed(c, v) \in Outcome!Permitted(op[c])
      BY <1>4, <2>0, <3>1, OwedPermitted DEF RunTypeOK, IInv
    <3> QED
      BY <1>1, <1>2, <1>4, <2>1, <3>2, TellStep DEF Hears
  <2>2. CASE driver = "failed"
    <3>1. Verdict = "failure"
      BY <2>2 DEF Verdict
    <3>2. Owed(c, "failure") \in Outcome!Permitted(op[c])
      BY <2>0, <3>1, OwedPermitted
    <3> QED
      BY <1>1, <1>2, <1>4, <2>2, <3>2, TellStep DEF Hears
  <2> QED
    BY <1>4, <2>1, <2>2 DEF Hears
<1>5. CASE WaitReturns(c)
  <2>1. ending # "TimeoutExpired"
    BY DEF IInv, RunTypeOK, Endings
  <2> QED
    BY <1>4, <1>5, <2>1 DEF WaitReturns
<1>6. CASE ExpiryRaised(c)
  BY <1>4, <1>6 DEF ExpiryRaised, IInv, CallerInv
<1> QED
  BY <1>3, <1>5, <1>6

LEMMA EscalationRefines ==
    ASSUME IInv, NEW a \in Actors, Escalation(a)
    PROVE  AbstractStep
<1> USE HandleAssumption
<1>1. AtStop(a) /\ ending' = ending /\ op' = op
  BY DEF Escalation, EscalationBegins, GraceSettles, GraceExpires, EscalationReaped,
         AtStop, IInv, StopInv, Actors, childVars
<1>2. \/ UNCHANGED << taskVars, stopLock, pc, answer >>
      \/ Over(a)
  BY DEF Escalation, EscalationBegins, GraceSettles, GraceExpires, EscalationReaped
<1>3. CASE UNCHANGED << taskVars, stopLock, pc, answer >>
  BY <1>1, <1>3 DEF AbstractStep, Outcome!vars, Verdict, taskVars
<1>4. CASE a = Task /\ Over(a)
  BY <1>1, <1>4 DEF AbstractStep, Outcome!vars, Verdict, Over, GroupOver, AtStop
<1>5. CASE a # Task /\ Over(a)
  <2>1. a \in Callers /\ StopOver(a) /\ pc[a] = "stopping"
    BY <1>1, <1>5 DEF Actors, Over, AtStop
  <2>2. CASE op[a] \in WaitOps /\ UNCHANGED << driver, tasked >>
             /\ (Answers(a, "cancelled") \/ Goes(a, "joining"))
    <3>1. Verdict' = Verdict
      BY <1>1, <2>2 DEF Verdict
    <3>2. "cancelled" \in Outcome!Permitted(op[a])
      BY <2>2 DEF Outcome!Permitted, Outcome!Expiring, WaitOps
    <3>3. CASE Answers(a, "cancelled")
      BY <1>1, <2>1, <3>1, <3>2, <3>3, TellStep
    <3>4. CASE Goes(a, "joining")
      BY <1>1, <3>1, <3>4 DEF Goes, AbstractStep, Outcome!vars
    <3> QED
      BY <2>2, <3>3, <3>4
  <2>3. CASE op[a] \in StopOps /\ AwaitSettlement(a, "settling")
    <3>1. CASE result # "none"
      <4>1. Ended /\ Verdict = result /\ result # "failure" /\ result # "TimeoutExpired"
        BY <3>1 DEF IInv, DriverInv, Ended, Verdict, RunTypeOK, Endings
      <4>2. Verdict' = Verdict
        BY <1>1, <2>3, <3>1 DEF Verdict, AwaitSettlement
      <4>3. Owed(a, result) \in Outcome!Permitted(op[a])
        BY <2>1, <2>3, <4>1, OwedPermitted DEF StopOps
      <4> QED
        BY <1>1, <2>1, <2>3, <3>1, <4>2, <4>3, TellStep DEF AwaitSettlement
    <3>2. CASE result = "none"
      <4>1. Verdict' = Verdict
        BY <1>1, <2>3, <3>2, EnsureTaskVerdict DEF AwaitSettlement
      <4> QED
        BY <1>1, <2>3, <3>2, <4>1 DEF AwaitSettlement, Goes, AbstractStep, Outcome!vars
    <3> QED
      BY <3>1, <3>2
  <2> QED
    BY <2>1, <2>2, <2>3 DEF StopOver
<1> QED
  BY <1>2, <1>3, <1>4, <1>5

\* Every behaviour of the handle is one of the shared outcome: the run has one
\* verdict, decided once, everybody is told that one, and only somebody who
\* merely waits can be gone before it.
THEOREM HandleRefinesOneOutcome == Spec => ImplementsOneOutcome
<1>1. Init => Outcome!Init
  BY DEF Init, Outcome!Init, Verdict
<1>2. IInv /\ [Next]_vars => [Outcome!Next]_Outcome!vars
  <2> SUFFICES ASSUME IInv, [Next]_vars PROVE AbstractStep
    BY DEF AbstractStep
  <2>1. CASE Next
    BY <2>1, ChildRefines, DriverRefines, EscalationRefines, CallRefines, HearsRefines
       DEF Next, Loop
  <2>2. CASE UNCHANGED vars
    BY <2>2 DEF vars, childVars, taskVars, callVars, AbstractStep, Outcome!vars, Verdict
  <2> QED
    BY <2>1, <2>2
<1> QED
  BY <1>1, <1>2, Invariance, PTL DEF Spec, ImplementsOneOutcome, Outcome!Spec
=============================================================================
