---------------------------- MODULE ScriptThread ----------------------------
(***************************************************************************)
(* One JSScriptThread: the script context that run() executes, and the     *)
(* calls other threads make on it meanwhile.  A runner is an operating     *)
(* system thread inside run(); a caller is one inside abort() or wait().   *)
(*                                                                         *)
(* run() claims the object under m_runMutex, but ends without it: it       *)
(* clears m_bRunning, notifies, and keeps using the object while it        *)
(* unwinds.  abort() and wait() hold m_runMutex except while they sleep.   *)
(* Each action is one access to shared state or one critical section.      *)
(***************************************************************************)
EXTENDS Naturals, FiniteSets

CONSTANTS Runner, Caller,
          Nobody,          \* m_runMutex is free
          NoRun,           \* m_runtime before the first run
          MainThread,      \* runners that are the engine's main thread
          MaxStarts,       \* bound on calls of run()
          MayThrow,        \* run() may fail around the script (lines 410, 434, 467, 479)
          Careful          \* the program joins every call before it runs or drops the object

ASSUME ThreadAssumption ==
  /\ Nobody \notin Caller
  /\ NoRun \notin Runner
  /\ MainThread \subseteq Runner
  /\ MaxStarts \in Nat
  /\ MayThrow \in BOOLEAN /\ Careful \in BOOLEAN

VARIABLES running,         \* m_bRunning
          terminating,     \* m_bTerminating
          exception,       \* m_exception
          current,         \* m_runtime: the runner whose runtime it is
          classes,         \* m_registeredClasses: the runners that registered them
          closed,          \* the object has been deleted by closeThread
          mutex,           \* who holds m_runMutex
          rpc,             \* where each runner is
          runtimes,        \* runners whose JSRuntime exists
          interrupt,       \* external: runtimes with an interrupt request
          raised,          \* what ended the script of each runner
          unfit,           \* runners whose script had left a value that fromValue refuses
          outcome,         \* what run() did at last
          cpc,             \* where each caller is
          op,              \* what each caller is calling; NoCall when it is idle
          result,          \* what the last call returned; FALSE while there is one
          starts,          \* calls of run() so far
          joined,          \* every run so far began with the object at rest
          aborted          \* runners whose current run some abort() found running

runVars    == <<rpc, runtimes, raised, unfit, outcome, starts, joined>>
callVars   == <<cpc, op, result>>
objectVars == <<running, terminating, exception, current, classes, closed>>
vars       == <<runVars, callVars, objectVars, mutex, interrupt, aborted>>

(* rpc of a runner:                                                        *)
(*   idle      not in run()              finished  the script has ended    *)
(*   claimed   m_bRunning set            cleared   m_bRunning reset        *)
(*   setup     creating the context      notified  waiters notified        *)
(*   executing in JS_ExecuteScript                                         *)
RunState == {"idle", "claimed", "setup", "executing", "finished", "cleared", "notified"}
Active   == {"claimed", "setup", "executing", "finished"}

(* cpc of a caller:                                                        *)
(*   idle      not in a call             checked   predicate was false,    *)
(*   entered   found m_bRunning set                still holds the mutex   *)
(*   signalled m_bTerminating set        asleep    in the wait set         *)
(*   ready     about to wait             woken     out of the wait set     *)
(*                                       expired   out of it by timeout    *)
CallState == {"idle", "entered", "signalled", "ready", "checked", "asleep", "woken", "expired"}
Inside    == {"entered", "signalled", "ready", "checked"}

Ops    == [kind : {"abort", "wait"}, timed : BOOLEAN]
NoCall == [kind |-> "wait", timed |-> TRUE]
Error == {"none", "terminated", "script"}

ActiveRunners == {r \in Runner : rpc[r] \in Active}

Init ==
  /\ running = FALSE /\ terminating = FALSE
  /\ exception = "none"
  /\ current = NoRun
  /\ classes = {}
  /\ closed = FALSE
  /\ mutex = Nobody
  /\ rpc = [r \in Runner |-> "idle"]
  /\ runtimes = MainThread
  /\ interrupt = {}
  /\ raised = [r \in Runner |-> "none"]
  /\ unfit = {}
  /\ outcome = [r \in Runner |-> "value"]
  /\ cpc = [c \in Caller |-> "idle"]
  /\ op = [c \in Caller |-> NoCall]
  /\ result = [c \in Caller |-> TRUE]
  /\ starts = 0
  /\ joined = TRUE
  /\ aborted = {}

-----------------------------------------------------------------------------
(* run() *)

Resting(S) == (\A r \in S : rpc[r] = "idle") /\ (\A c \in Caller : cpc[c] = "idle")

(* Mutant: the flag is set without testing it. *)
StartUnchecked(r) ==
  /\ ~closed
  /\ rpc[r] = "idle" /\ mutex = Nobody
  /\ starts < MaxStarts
  /\ Careful => Resting(Runner)
  /\ starts' = starts + 1
  /\ joined' = (joined /\ Resting(Runner))
  /\ running' = TRUE
  /\ current' = r
  /\ rpc' = [rpc EXCEPT ![r] = "claimed"]
  /\ runtimes' = runtimes \cup {r}
  /\ raised' = [raised EXCEPT ![r] = "none"]
  /\ unfit' = unfit \ {r}
  /\ aborted' = aborted \ {r}
  /\ interrupt' = interrupt \ ({r} \ MainThread)
  /\ UNCHANGED <<outcome, callVars, terminating, exception, classes, closed, mutex>>

(* A new runtime, or the root runtime in the main thread; then             *)
(* compare_exchange under the mutex, or "Thread is already running".       *)
Start(r) ==
  /\ ~closed
  /\ rpc[r] = "idle" /\ mutex = Nobody
  /\ starts < MaxStarts
  /\ Careful => Resting(Runner)
  /\ starts' = starts + 1
  /\ joined' = (joined /\ Resting(Runner))
  /\ unfit' = unfit \ {r}
  /\ \/ /\ running
        /\ outcome' = [outcome EXCEPT ![r] = "busy"]
        /\ raised' = [raised EXCEPT ![r] = "none"]
        /\ UNCHANGED <<running, current, rpc, runtimes, aborted, interrupt>>
     \/ /\ ~running
        /\ running' = TRUE
        /\ current' = r
        /\ rpc' = [rpc EXCEPT ![r] = "claimed"]
        /\ runtimes' = runtimes \cup {r}
        /\ raised' = [raised EXCEPT ![r] = "none"]
        /\ aborted' = aborted \ {r}
        /\ interrupt' = interrupt \ ({r} \ MainThread)
        /\ UNCHANGED outcome
  /\ UNCHANGED <<callVars, terminating, exception, classes, closed, mutex>>

(* m_exception = nullptr; the context and its native classes are made. *)
Prepare(r) ==
  /\ rpc[r] = "claimed"
  /\ exception' = "none"
  /\ classes' = classes \cup {r}
  /\ rpc' = [rpc EXCEPT ![r] = "setup"]
  /\ UNCHANGED <<runtimes, raised, unfit, outcome, starts, joined, callVars, running, terminating,
                 current, closed, mutex, interrupt, aborted>>

(* The interrupt callback and the error reporter are installed. *)
Execute(r) ==
  /\ rpc[r] = "setup"
  /\ rpc' = [rpc EXCEPT ![r] = "executing"]
  /\ UNCHANGED <<runtimes, raised, unfit, outcome, starts, joined, callVars, objectVars, mutex, interrupt, aborted>>

Fails(r, e) ==
  /\ exception' = e
  /\ raised' = [raised EXCEPT ![r] = e]
  /\ rpc' = [rpc EXCEPT ![r] = "finished"]

(* Mutant: the callback stops the script and leaves no exception. *)
PollSilently(r) ==
  /\ rpc[r] = "executing" /\ r \in interrupt
  /\ interrupt' = interrupt \ {r}
  /\ IF terminating
     THEN /\ raised' = [raised EXCEPT ![r] = "terminated"]
          /\ rpc' = [rpc EXCEPT ![r] = "finished"]
     ELSE UNCHANGED <<raised, rpc>>
  /\ UNCHANGED <<exception, runtimes, unfit, outcome, starts, joined, callVars, running, terminating,
                 current, classes, closed, mutex, aborted>>

(* The engine (external) polls its interrupt flag while a script executes  *)
(* and calls interruptCallback.                                            *)
Poll(r) ==
  /\ rpc[r] = "executing" /\ r \in interrupt
  /\ interrupt' = interrupt \ {r}
  /\ IF terminating THEN Fails(r, "terminated") ELSE UNCHANGED <<exception, raised, rpc>>
  /\ UNCHANGED <<runtimes, unfit, outcome, starts, joined, callVars, running, terminating,
                 current, classes, closed, mutex, aborted>>

(* An uncaught script error: dispatchError calls onError. *)
ScriptError(r) ==
  /\ rpc[r] = "executing"
  /\ Fails(r, IF terminating THEN "terminated" ELSE "script")
  /\ UNCHANGED <<runtimes, unfit, outcome, starts, joined, callVars, running, terminating, current,
                 classes, closed, mutex, interrupt, aborted>>

ScriptEnd(r) ==
  /\ rpc[r] = "executing"
  /\ rpc' = [rpc EXCEPT ![r] = "finished"]
  /\ UNCHANGED <<runtimes, raised, unfit, outcome, starts, joined, callVars, objectVars, mutex, interrupt, aborted>>

(* Mutant: the context's deleter does not unregister the classes. *)
UnwindKeeping(r) ==
  /\ UNCHANGED classes
  /\ runtimes' = runtimes \ ({r} \ MainThread)
  /\ rpc' = [rpc EXCEPT ![r] = "idle"]

(* What unwinding run() does to the object and to the runtime. *)
Unwind(r) ==
  /\ classes' = {}
  /\ runtimes' = runtimes \ ({r} \ MainThread)
  /\ rpc' = [rpc EXCEPT ![r] = "idle"]

(* No context, no script, or an argument that cannot be converted: the     *)
(* exception unwinds run() past the reset of m_bRunning.                   *)
Throw(r) ==
  /\ MayThrow
  /\ rpc[r] \in {"setup", "executing"}
  /\ outcome' = [outcome EXCEPT ![r] = "failed"]
  /\ Unwind(r)
  /\ UNCHANGED <<raised, unfit, starts, joined, callVars, running, terminating, exception, current,
                 closed, mutex, interrupt, aborted>>

(* Not under m_runMutex. *)
ClearRunning(r) ==
  /\ rpc[r] = "finished"
  /\ running' = FALSE
  /\ rpc' = [rpc EXCEPT ![r] = "cleared"]
  /\ UNCHANGED <<runtimes, raised, unfit, outcome, starts, joined, callVars, terminating, exception, current,
                 classes, closed, mutex, interrupt, aborted>>

Notify(r) ==
  /\ rpc[r] = "cleared"
  /\ cpc' = [c \in Caller |-> IF cpc[c] = "asleep" THEN "woken" ELSE cpc[c]]
  /\ rpc' = [rpc EXCEPT ![r] = "notified"]
  /\ UNCHANGED <<runtimes, raised, unfit, outcome, starts, joined, op, result, objectVars, mutex, interrupt, aborted>>

(* The value is converted first, whatever the script ended with: a called  *)
(* function that fails leaves the value of the script, and before MozJS 31 *)
(* "value" (line 458) has no initial one.  When fromValue refuses it run() *)
(* fails; else the value is returned, or m_exception thrown if there is    *)
(* one, or "Execution failed".                                             *)
Return(r) ==
  /\ rpc[r] = "notified"
  /\ unfit' = unfit \/ (MayThrow /\ unfit' = unfit \cup {r})
  /\ outcome' = [outcome EXCEPT ![r] =
                   IF r \in unfit' THEN "failed"
                   ELSE IF raised[r] = "none" THEN "value"
                   ELSE IF exception # "none" THEN exception ELSE "failed"]
  /\ Unwind(r)
  /\ UNCHANGED <<raised, starts, joined, callVars, running, terminating, exception, current,
                 closed, mutex, interrupt, aborted>>

RunNext(r) ==
  \/ Start(r) \/ Prepare(r) \/ Execute(r)
  \/ Poll(r) \/ ScriptError(r) \/ ScriptEnd(r) \/ Throw(r)
  \/ ClearRunning(r) \/ Notify(r) \/ Return(r)

-----------------------------------------------------------------------------
(* abort() and wait() *)

(* Mutant: m_bTerminating stays set. *)
FinishKeeping(c, answer) ==
  /\ UNCHANGED terminating
  /\ result' = [result EXCEPT ![c] = answer]
  /\ cpc' = [cpc EXCEPT ![c] = "idle"]
  /\ op' = [op EXCEPT ![c] = NoCall]

(* The call returns; abort() resets m_bTerminating. *)
Finish(c, answer) ==
  /\ terminating' = (terminating /\ op[c].kind = "wait")
  /\ result' = [result EXCEPT ![c] = answer]
  /\ cpc' = [cpc EXCEPT ![c] = "idle"]
  /\ op' = [op EXCEPT ![c] = NoCall]

(* The mutex is taken; when nothing runs the call returns true at once. *)
Enter(c, o) ==
  /\ ~closed
  /\ cpc[c] = "idle" /\ mutex = Nobody
  /\ \/ /\ ~running
        /\ result' = [result EXCEPT ![c] = TRUE]
        /\ UNCHANGED <<cpc, op, mutex, aborted>>
     \/ /\ running
        /\ mutex' = c
        /\ op' = [op EXCEPT ![c] = o]
        /\ cpc' = [cpc EXCEPT ![c] = IF o.kind = "abort" THEN "entered" ELSE "ready"]
        /\ aborted' = IF o.kind = "abort" THEN aborted \cup ActiveRunners ELSE aborted
        /\ result' = [result EXCEPT ![c] = FALSE]
  /\ UNCHANGED <<runVars, objectVars, interrupt>>

(* Mutant: m_bTerminating is not set. *)
SignalSkipped(c) ==
  /\ cpc[c] = "entered"
  /\ cpc' = [cpc EXCEPT ![c] = "signalled"]
  /\ UNCHANGED <<terminating, runVars, op, result, running, exception, current, classes, closed,
                 mutex, interrupt, aborted>>

Signal(c) ==
  /\ cpc[c] = "entered"
  /\ terminating' = TRUE
  /\ cpc' = [cpc EXCEPT ![c] = "signalled"]
  /\ UNCHANGED <<runVars, op, result, running, exception, current, classes, closed,
                 mutex, interrupt, aborted>>

(* JS_RequestInterruptCallback(m_runtime).  On a runtime that has been     *)
(* destroyed since m_bRunning was read it interrupts nothing.              *)
Request(c) ==
  /\ cpc[c] = "signalled"
  /\ interrupt' = interrupt \cup ({current} \cap runtimes)
  /\ cpc' = [cpc EXCEPT ![c] = "ready"]
  /\ UNCHANGED <<runVars, op, result, objectVars, mutex, aborted>>

(* The predicate of the condition variable, with the mutex held. *)
Check(c) ==
  /\ cpc[c] = "ready"
  /\ \/ /\ running
        /\ cpc' = [cpc EXCEPT ![c] = "checked"]
        /\ UNCHANGED <<terminating, op, result, mutex>>
     \/ /\ ~running
        /\ Finish(c, TRUE)
        /\ mutex' = Nobody
  /\ UNCHANGED <<runVars, running, exception, current, classes, closed, interrupt, aborted>>

(* The mutex is released and the caller is in the wait set, atomically. *)
Sleep(c) ==
  /\ cpc[c] = "checked"
  /\ mutex' = Nobody
  /\ cpc' = [cpc EXCEPT ![c] = "asleep"]
  /\ UNCHANGED <<runVars, op, result, objectVars, interrupt, aborted>>

(* Also without being notified: a spurious wakeup. *)
LeaveWaitSet(c) ==
  /\ cpc[c] = "asleep"
  /\ \/ cpc' = [cpc EXCEPT ![c] = "woken"]
     \/ op[c].timed /\ cpc' = [cpc EXCEPT ![c] = "expired"]
  /\ UNCHANGED <<runVars, op, result, objectVars, mutex, interrupt, aborted>>

Wake(c) ==
  /\ cpc[c] = "woken" /\ mutex = Nobody
  /\ mutex' = c
  /\ cpc' = [cpc EXCEPT ![c] = "ready"]
  /\ UNCHANGED <<runVars, op, result, objectVars, interrupt, aborted>>

(* Mutant: a timeout counts as success. *)
ExpireTrue(c) ==
  /\ cpc[c] = "expired" /\ mutex = Nobody
  /\ Finish(c, TRUE)
  /\ UNCHANGED <<runVars, running, exception, current, classes, closed, mutex, interrupt, aborted>>

(* Mutant: after a timeout the wait starts again. *)
ExpireAgain(c) ==
  /\ cpc[c] = "expired" /\ mutex = Nobody
  /\ IF running
     THEN /\ cpc' = [cpc EXCEPT ![c] = "asleep"]
          /\ UNCHANGED <<terminating, op, result>>
     ELSE Finish(c, TRUE)
  /\ UNCHANGED <<runVars, running, exception, current, classes, closed, mutex, interrupt, aborted>>

(* wait_for answers what the predicate says after the timeout; abort()     *)
(* withdraws m_bTerminating in either case.                                *)
Expire(c) ==
  /\ cpc[c] = "expired" /\ mutex = Nobody
  /\ Finish(c, ~running)
  /\ UNCHANGED <<runVars, running, exception, current, classes, closed, mutex, interrupt, aborted>>

CallNext(c) ==
  \/ \E o \in Ops : Enter(c, o)
  \/ Signal(c) \/ Request(c) \/ Check(c) \/ Sleep(c)
  \/ LeaveWaitSet(c) \/ Wake(c) \/ Expire(c)

(* The last SharedObjectPointer goes away: closeThreadImpl deletes the     *)
(* object.  No call of abort() or wait() is in progress, and run() has     *)
(* returned (Careful) or at least the object says that nothing runs.       *)
Close ==
  /\ ~closed /\ (~running \/ Careful)
  /\ Resting(IF Careful THEN Runner ELSE {})
  /\ closed' = TRUE
  /\ classes' = {}
  /\ UNCHANGED <<runVars, callVars, running, terminating, exception, current, mutex, interrupt, aborted>>

Next ==
  \/ \E r \in Runner : RunNext(r)
  \/ \E c \in Caller : CallNext(c)
  \/ Close

Spec == Init /\ [][Next]_vars

(* run() goes on except that a script need not end; a script that executes *)
(* polls; a caller goes on, and a timed sleep ends however often it is     *)
(* interrupted by spurious wakeups, since its deadline is absolute.        *)
Progress ==
  /\ \A r \in Runner :
       /\ WF_vars(Prepare(r)) /\ WF_vars(Execute(r)) /\ WF_vars(Poll(r))
       /\ WF_vars(ClearRunning(r)) /\ WF_vars(Notify(r)) /\ WF_vars(Return(r))
  /\ \A c \in Caller :
       /\ WF_vars(Signal(c)) /\ WF_vars(Request(c)) /\ WF_vars(Check(c))
       /\ WF_vars(Sleep(c)) /\ WF_vars(Wake(c)) /\ WF_vars(Expire(c))
       /\ SF_vars(LeaveWaitSet(c) /\ cpc'[c] = "expired")

FairSpec == Spec /\ Progress

(* ...and every script ends. *)
FiniteSpec == FairSpec /\ \A r \in Runner : WF_vars(ScriptEnd(r))

-----------------------------------------------------------------------------
(* Properties. *)

TypeOK ==
  /\ running \in BOOLEAN /\ terminating \in BOOLEAN /\ closed \in BOOLEAN
  /\ exception \in Error
  /\ current \in Runner \cup {NoRun}
  /\ classes \subseteq Runner /\ aborted \subseteq Runner
  /\ runtimes \subseteq Runner /\ interrupt \subseteq Runner
  /\ mutex \in Caller \cup {Nobody}
  /\ rpc \in [Runner -> RunState]
  /\ raised \in [Runner -> Error]
  /\ unfit \subseteq Runner
  /\ outcome \in [Runner -> Error \cup {"value", "busy", "failed"}]
  /\ cpc \in [Caller -> CallState]
  /\ op \in [Caller -> Ops]
  /\ result \in [Caller -> BOOLEAN]
  /\ starts \in Nat
  /\ joined \in BOOLEAN

(* A JSScriptThread executes one script at a time, in the runtime that     *)
(* abort() would interrupt: of several run() calls one passes the          *)
(* compare_exchange, although m_bRunning is reset without the mutex.       *)
OneScript ==
  /\ \A r, s \in ActiveRunners : r = s
  /\ \A r \in ActiveRunners : running /\ current = r

(* m_runMutex: abort() and wait() exclude each other except while asleep,  *)
(* so m_bTerminating is never set by two of them at once.                  *)
MutexHeld == \A c \in Caller : mutex = c <=> cpc[c] \in Inside

IInv == TypeOK /\ OneScript /\ MutexHeld

(* When abort() or wait() answers true no script is executing, whatever    *)
(* woke the caller.                                                        *)
JoinIsTrue ==
  [][\A c \in Caller :
       cpc[c] # "idle" /\ cpc'[c] = "idle" /\ result'[c] => ActiveRunners' = {}]_vars

(* A program that starts a run only when every call before has returned    *)
(* sees run() report the error of its own script.  (A run() that starts    *)
(* while another one unwinds would reset m_exception under it.)  But when  *)
(* the value left cannot be converted, run() reports that, whatever its    *)
(* script ended with (JSScriptThread.cpp:479).                             *)
OwnOutcome ==
  joined =>
    \A r \in Runner : rpc[r] = "idle" /\ raised[r] # "none" =>
      outcome[r] = IF r \in unfit THEN "failed" ELSE raised[r]

(* For such a program the native classes that a run registers live exactly *)
(* as long as the run, however it ends: none is left behind, and none is   *)
(* deleted by the unwinding of another run while a script uses it.         *)
ClassesLive ==
  joined /\ ~closed =>
    \A r \in Runner :
      r \in classes <=> rpc[r] \in {"setup", "executing", "finished", "cleared", "notified"}

(* TerminationException says that the script was terminated by abort()     *)
(* (ScriptThreadBase.h:17): some abort() found this run running.  (A run() *)
(* that starts before an abort() of the previous run has woken up finds    *)
(* m_bTerminating still set.)                                              *)
TerminatedMeansAborted ==
  joined => \A r \in Runner : raised[r] = "terminated" => r \in aborted

(* What the three properties of joining programs rest on.  A run begins    *)
(* only when no other is in progress, so nothing else writes m_exception   *)
(* or deletes classes until it has returned...                             *)
OneRun == joined => \A r, s \in Runner : rpc[r] # "idle" /\ rpc[s] # "idle" => r = s

ErrorKept ==
  \A r \in Runner :
    /\ rpc[r] \in {"claimed", "setup", "executing"} => raised[r] = "none"
    /\ joined /\ rpc[r] \in {"finished", "cleared", "notified"} /\ raised[r] # "none"
         => exception = raised[r]

(* ...and m_bTerminating is set only while an abort() is in progress that  *)
(* has found every active run running.                                     *)
AbortInProgress(c) == cpc[c] # "idle" /\ op[c].kind = "abort"

AbortSeen ==
  /\ \A c \in Caller : cpc[c] \in {"entered", "signalled"} => op[c].kind = "abort"
  /\ terminating => \E c \in Caller : AbortInProgress(c)
  /\ joined /\ (\E c \in Caller : AbortInProgress(c)) => ActiveRunners \subseteq aborted

JoinedInv ==
  /\ OneRun /\ ErrorKept /\ AbortSeen
  /\ OwnOutcome /\ ClassesLive /\ TerminatedMeansAborted

(* run() does not use an object that has been deleted: when wait() or      *)
(* abort() has "successfully joined with running thread"                   *)
(* (ScriptThreadBase.h:42) the run is over.                                *)
ObjectAlive == \A r \in Runner : rpc[r] # "idle" => ~closed

(* running(), "whether this thread is currently running"                   *)
(* (ScriptThreadBase.h:31): not after run() has returned or thrown.        *)
RunningMeansExecuting == running => ActiveRunners # {}

(* A call with a timeout returns.                                          *)
TimedReturns == \A c \in Caller : cpc[c] # "idle" /\ op[c].timed ~> cpc[c] = "idle"

(* An unlimited abort() ends even a script that would never end, also when *)
(* it comes before the interrupt callback is installed.                    *)
AbortStops ==
  \A c \in Caller : cpc[c] = "ready" /\ op[c] = [kind |-> "abort", timed |-> FALSE]
                      ~> ActiveRunners = {}

(* wait() without a timeout waits for the script "to finish"               *)
(* (ScriptThreadBase.h:40): when every script ends it returns.             *)
UntimedReturns == \A c \in Caller : cpc[c] # "idle" ~> cpc[c] = "idle"
=============================================================================
