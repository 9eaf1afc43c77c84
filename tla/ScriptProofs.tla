----------------------------- MODULE ScriptProofs -----------------------------
(***************************************************************************)
(* Proofs about scripts.  The thread that runs one, for any number of      *)
(* threads inside run(), abort() and wait(): the inductive invariant is    *)
(* IInv; that one script executes at a time (OneScript) holds although     *)
(* m_bRunning is reset outside the mutex, because only the active runner   *)
(* resets it; JoinIsTrue needs OneScript, because abort() and wait() look  *)
(* at the flag only.  JoinedInv adds what holds of programs that start a   *)
(* run only when every call before has returned: one run, whose error      *)
(* nobody else resets.                                                     *)
(*                                                                         *)
(* And the native objects in a script, for any number of natives, script   *)
(* objects and arguments: OneOwner alone is not inductive; that a deleted  *)
(* native has no script object needs that it had one only (WrappedOnce),   *)
(* and that deleting one native deletes no other that a script still has   *)
(* needs that properties only hold misplaced ones (in NativesTypeOK).      *)
(***************************************************************************)
EXTENDS ScriptThread, ScriptObjects, FiniteSetTheorems, TLAPS

-----------------------------------------------------------------------------
(* The thread. *)

LEMMA InitInvariant == Init => IInv
<1> SUFFICES ASSUME Init PROVE IInv
  OBVIOUS
<1> USE ThreadAssumption
<1>1. TypeOK
  BY DEF Init, TypeOK, RunState, CallState, Ops, NoCall, Error
<1>2. OneScript
  BY DEF Init, OneScript, ActiveRunners, Active
<1>3. MutexHeld
  BY DEF Init, MutexHeld, Inside
<1> QED
  BY <1>1, <1>2, <1>3 DEF IInv

(* A step of run() keeps the invariant. *)
LEMMA RunInvariant ==
  ASSUME IInv, NEW r \in Runner, RunNext(r)
  PROVE  IInv'
<1> USE DEF IInv, TypeOK, OneScript, MutexHeld, ActiveRunners, Active, RunState, Error
<1>1. CASE Start(r)
  <2>1. TypeOK'
    <3>1. CASE running
      BY <1>1, <3>1 DEF Start, callVars
    <3>2. CASE ~running
      <4>1. /\ rpc' \in [Runner -> RunState]
            /\ raised' \in [Runner -> Error]
            /\ outcome' = outcome
        BY <1>1, <3>2 DEF Start
      <4>2. /\ runtimes' \subseteq Runner
            /\ aborted' \subseteq Runner
            /\ interrupt' \subseteq Runner
        BY <1>1, <3>2 DEF Start
      <4>3. running' \in BOOLEAN /\ current' \in Runner \cup {NoRun}
        BY <1>1, <3>2 DEF Start
      <4>4. starts' \in Nat /\ joined' \in BOOLEAN /\ unfit' \subseteq Runner
        BY <1>1 DEF Start
      <4>5. /\ UNCHANGED <<cpc, op, result>>
            /\ UNCHANGED <<terminating, exception, classes, closed, mutex>>
        BY <1>1 DEF Start, callVars
      <4> HIDE DEF RunState, Error, OneScript, MutexHeld
      <4> QED
        BY <4>1, <4>2, <4>3, <4>4, <4>5
    <3> QED
      BY <3>1, <3>2
  <2>2. OneScript'
    BY <1>1 DEF Start
  <2>3. MutexHeld'
    BY <1>1 DEF Start, callVars
  <2> QED
    BY <2>1, <2>2, <2>3
<1>2. CASE Prepare(r)
  BY <1>2 DEF Prepare, callVars
<1>3. CASE Execute(r)
  BY <1>3 DEF Execute, callVars, objectVars
<1>4. CASE Poll(r)
  BY <1>4 DEF Poll, Fails, callVars
<1>5. CASE ScriptError(r)
  BY <1>5 DEF ScriptError, Fails, callVars
<1>6. CASE ScriptEnd(r)
  BY <1>6 DEF ScriptEnd, callVars, objectVars
<1>7. CASE Throw(r)
  BY <1>7 DEF Throw, Unwind, callVars
<1>8. CASE ClearRunning(r)
  <2>1. TypeOK'
    BY <1>8 DEF ClearRunning, callVars
  <2>2. OneScript'
    BY <1>8 DEF ClearRunning
  <2>3. MutexHeld'
    BY <1>8 DEF ClearRunning, callVars
  <2> QED
    BY <2>1, <2>2, <2>3
<1>9. CASE Notify(r)
  <2>1. TypeOK'
    BY <1>9 DEF Notify, CallState, objectVars
  <2>2. OneScript'
    BY <1>9 DEF Notify, objectVars
  <2>3. MutexHeld'
    BY <1>9 DEF Notify, Inside
  <2> QED
    BY <2>1, <2>2, <2>3
<1>10. CASE Return(r)
  BY <1>10 DEF Return, Unwind, callVars
<1> QED
  BY <1>1, <1>2, <1>3, <1>4, <1>5, <1>6, <1>7, <1>8, <1>9, <1>10 DEF RunNext

LEMMA NoCallType == NoCall \in Ops
BY DEF NoCall, Ops

(* A step of abort() or wait() keeps the invariant. *)
LEMMA CallInvariant ==
  ASSUME IInv, NEW c \in Caller, CallNext(c)
  PROVE  IInv'
<1> USE ThreadAssumption
        DEF IInv, TypeOK, OneScript, MutexHeld, ActiveRunners, CallState, Inside
<1>1. ASSUME NEW o \in Ops, Enter(c, o)
      PROVE  IInv'
  <2>1. TypeOK'
    <3>1. CASE running
      <4>1. /\ op' \in [Caller -> Ops] /\ result' \in [Caller -> BOOLEAN]
            /\ cpc' \in [Caller -> CallState] /\ mutex' = c
        <5>1. /\ op' = [op EXCEPT ![c] = o] /\ result' = [result EXCEPT ![c] = FALSE]
              /\ cpc' = [cpc EXCEPT ![c] = IF o.kind = "abort" THEN "entered" ELSE "ready"]
              /\ mutex' = c
          BY <1>1, <3>1, Zenon DEF Enter
        <5>2. \A s \in CallState : [cpc EXCEPT ![c] = s] \in [Caller -> CallState]
          OBVIOUS
        <5>3. [result EXCEPT ![c] = FALSE] \in [Caller -> BOOLEAN]
          OBVIOUS
        <5>4. [op EXCEPT ![c] = o] \in [Caller -> Ops]
          BY <1>1
        <5>5. (IF o.kind = "abort" THEN "entered" ELSE "ready") \in CallState
          OBVIOUS
        <5> QED
          BY <5>1, <5>2, <5>3, <5>4, <5>5, Zenon
      <4>2. aborted' \subseteq Runner
        BY <1>1, <3>1 DEF Enter
      <4>3. UNCHANGED <<rpc, runtimes, raised, unfit, outcome, starts, joined>>
        BY <1>1 DEF Enter, runVars
      <4>4. UNCHANGED <<running, terminating, exception, current, classes, closed, interrupt>>
        BY <1>1 DEF Enter, objectVars
      <4> QED
        BY <4>1, <4>2, <4>3, <4>4
    <3>2. CASE ~running
      BY <1>1, <3>2 DEF Enter, runVars, objectVars
    <3> QED
      BY <3>1, <3>2
  <2>2. OneScript'
    BY <1>1 DEF Enter, runVars, objectVars
  <2>3. MutexHeld'
    BY <1>1 DEF Enter
  <2> QED
    BY <2>1, <2>2, <2>3
<1>2. CASE Signal(c)
  BY <1>2 DEF Signal, runVars
<1>3. CASE Request(c)
  BY <1>3 DEF Request, runVars, objectVars
<1>4. CASE Check(c)
  <2>1. CASE running
    BY <1>4, <2>1 DEF Check, runVars
  <2>2. CASE ~running
    <3>1. /\ op' \in [Caller -> Ops] /\ result' \in [Caller -> BOOLEAN]
          /\ cpc' = [cpc EXCEPT ![c] = "idle"] /\ terminating' \in BOOLEAN
          /\ mutex' = Nobody /\ cpc[c] = "ready"
          /\ UNCHANGED <<running, exception, current, classes, closed, interrupt, aborted>>
          /\ UNCHANGED <<rpc, runtimes, raised, unfit, outcome, starts, joined>>
      <4>1. Finish(c, TRUE) /\ mutex' = Nobody /\ cpc[c] = "ready"
        BY <1>4, <2>2 DEF Check
      <4>2. /\ UNCHANGED <<running, exception, current, classes, closed, interrupt, aborted>>
            /\ UNCHANGED <<rpc, runtimes, raised, unfit, outcome, starts, joined>>
        BY <1>4 DEF Check, runVars
      <4>3. op' \in [Caller -> Ops] /\ result' \in [Caller -> BOOLEAN]
        BY <4>1, NoCallType DEF Finish
      <4>4. cpc' = [cpc EXCEPT ![c] = "idle"]
        BY <4>1 DEF Finish
      <4>5. terminating' \in BOOLEAN
        BY <4>1, Zenon DEF Finish
      <4> QED
        BY <4>1, <4>2, <4>3, <4>4, <4>5
    <3>2. TypeOK'
      BY <3>1
    <3>3. OneScript'
      BY <3>1
    <3>4. MutexHeld'
      BY <3>1
    <3> QED
      BY <3>2, <3>3, <3>4
  <2> QED
    BY <2>1, <2>2
<1>5. CASE Sleep(c)
  BY <1>5 DEF Sleep, runVars, objectVars
<1>6. CASE LeaveWaitSet(c)
  BY <1>6 DEF LeaveWaitSet, runVars, objectVars
<1>7. CASE Wake(c)
  BY <1>7 DEF Wake, runVars, objectVars
<1>8. CASE Expire(c)
  BY <1>8, NoCallType DEF Expire, Finish, runVars
<1> QED
  BY <1>1, <1>2, <1>3, <1>4, <1>5, <1>6, <1>7, <1>8 DEF CallNext

LEMMA StepInvariant == IInv /\ [Next]_vars => IInv'
<1> SUFFICES ASSUME IInv, [Next]_vars PROVE IInv'
  OBVIOUS
<1>1. CASE UNCHANGED vars
  BY <1>1 DEF IInv, TypeOK, OneScript, MutexHeld, ActiveRunners,
              vars, runVars, callVars, objectVars
<1>2. CASE Close
  BY <1>2 DEF Close, IInv, TypeOK, OneScript, MutexHeld, ActiveRunners, runVars, callVars
<1> QED
  BY <1>1, <1>2, RunInvariant, CallInvariant DEF Next

(* The inductive invariant of a script thread. *)
THEOREM ThreadInvariant == Spec => []IInv
  BY InitInvariant, StepInvariant, PTL DEF Spec

(* A script thread executes at most one script, in the runtime that        *)
(* abort() interrupts, however many threads call run().                    *)
THEOREM RunExclusive == Spec => []OneScript
<1>1. IInv => OneScript
  BY DEF IInv
<1> QED
  BY <1>1, ThreadInvariant, PTL

(* One step of a call that answers true. *)
LEMMA StepJoins ==
  ASSUME IInv, [Next]_vars, NEW c \in Caller,
         cpc[c] # "idle", cpc'[c] = "idle", result'[c]
  PROVE  ActiveRunners' = {}
<1>1. ASSUME NEW r \in Runner, RunNext(r)
      PROVE  FALSE
  <2>1. cpc' = cpc \/ cpc'[c] = IF cpc[c] = "asleep" THEN "woken" ELSE cpc[c]
    BY <1>1 DEF RunNext, Start, Prepare, Execute, Poll, ScriptError, ScriptEnd, Throw,
                ClearRunning, Notify, Return, callVars
  <2> QED
    BY <2>1
<1>2. ASSUME NEW d \in Caller, CallNext(d)
      PROVE  ~running /\ UNCHANGED rpc
  <2> USE DEF IInv, TypeOK, CallState, Finish, runVars, objectVars
  <2>1. ASSUME NEW o \in Ops, Enter(d, o)
        PROVE  FALSE
    BY <2>1 DEF Enter
  <2>2. CASE Check(d)
    BY <2>2 DEF Check
  <2>3. CASE Expire(d)
    <3>1. c = d
      BY <2>3 DEF Expire
    <3> QED
      BY <2>3, <3>1 DEF Expire
  <2>4. CASE Signal(d) \/ Request(d) \/ Sleep(d) \/ LeaveWaitSet(d) \/ Wake(d)
    BY <2>4 DEF Signal, Request, Sleep, LeaveWaitSet, Wake
  <2> QED
    BY <1>2, <2>1, <2>2, <2>3, <2>4 DEF CallNext
<1>3. ASSUME Close \/ UNCHANGED vars
      PROVE  FALSE
  BY <1>3 DEF Close, vars, callVars
<1>4. ~running /\ UNCHANGED rpc
  BY <1>1, <1>2, <1>3 DEF Next
<1> QED
  BY <1>4 DEF IInv, OneScript, ActiveRunners

(* When abort() or wait() answers true, no script is executing. *)
THEOREM JoinSound == Spec => JoinIsTrue
<1>1. IInv /\ [Next]_vars
        => [\A c \in Caller :
              cpc[c] # "idle" /\ cpc'[c] = "idle" /\ result'[c] => ActiveRunners' = {}]_vars
  BY StepJoins
<1> QED
  BY <1>1, ThreadInvariant, PTL DEF Spec, JoinIsTrue

-----------------------------------------------------------------------------
(* Programs that join every call before they run the object again. *)

(* Beginning a run. *)
LEMMA StartJoined ==
  ASSUME IInv, JoinedInv, NEW r \in Runner, Start(r)
  PROVE  JoinedInv'
<1> USE DEF IInv, JoinedInv, TypeOK
<1>1. /\ UNCHANGED <<cpc, op, terminating, exception, classes, closed>>
      /\ rpc[r] = "idle" /\ ~closed
      /\ joined' => joined /\ Resting(Runner)
      /\ raised' = [raised EXCEPT ![r] = "none"]
      /\ unfit' = unfit \ {r}
  BY DEF Start, callVars
<1>2. CASE running
  <2>1. UNCHANGED <<rpc, aborted>>
    BY <1>2 DEF Start
  <2>2. raised' = [raised EXCEPT ![r] = "none"]
    BY <1>2 DEF Start
  <2>3. \A s \in Runner : s # r => outcome'[s] = outcome[s]
    BY <1>2 DEF Start
  <2>4. OneRun' /\ ErrorKept'
    BY <1>1, <2>1, <2>2 DEF OneRun, ErrorKept
  <2>5. AbortSeen'
    BY <1>1, <2>1 DEF AbortSeen, AbortInProgress, ActiveRunners
  <2>6. OwnOutcome' /\ ClassesLive' /\ TerminatedMeansAborted'
    BY <1>1, <2>1, <2>2, <2>3 DEF OwnOutcome, ClassesLive, TerminatedMeansAborted
  <2>7. QED BY <2>4, <2>5, <2>6
<1>3. CASE ~running
  <2>1. /\ rpc' = [rpc EXCEPT ![r] = "claimed"] /\ raised' = [raised EXCEPT ![r] = "none"]
        /\ aborted' = aborted \ {r} /\ UNCHANGED outcome
    BY <1>3 DEF Start
  <2>2. OneRun'
    BY <1>1, <2>1 DEF OneRun, Resting
  <2>3. ErrorKept'
    BY <1>1, <2>1 DEF ErrorKept
  <2>4. AbortSeen'
    BY <1>1, <2>1 DEF AbortSeen, AbortInProgress, Resting
  <2>5. OwnOutcome' /\ ClassesLive'
    BY <1>1, <2>1 DEF OwnOutcome, ClassesLive
  <2>6. TerminatedMeansAborted'
    BY <1>1, <2>1 DEF TerminatedMeansAborted
  <2>7. QED BY <2>2, <2>3, <2>4, <2>5, <2>6
<1>4. QED BY <1>2, <1>3

(* The end of a script: what it raises is what m_exception becomes, and it *)
(* says "terminated" only while an abort() is in progress.                 *)
LEMMA FailsJoined ==
  ASSUME IInv, JoinedInv, NEW r \in Runner, NEW e \in Error, rpc[r] = "executing",
         Fails(r, e), e = "terminated" => terminating,
         UNCHANGED <<unfit, outcome, joined, cpc, op, terminating, classes, closed, aborted>>
  PROVE  JoinedInv'
<1> USE DEF IInv, JoinedInv, TypeOK, Fails
<1>1. OneRun' /\ ClassesLive' /\ OwnOutcome'
  BY DEF OneRun, ClassesLive, OwnOutcome
<1>2. ErrorKept'
  BY DEF ErrorKept, OneRun
<1>3. ActiveRunners' = ActiveRunners
  BY DEF ActiveRunners, Active
<1>4. AbortSeen'
  BY <1>3 DEF AbortSeen, AbortInProgress
<1>5. TerminatedMeansAborted'
  <2>1. joined /\ e = "terminated" => r \in aborted
    BY DEF AbortSeen, ActiveRunners, Active
  <2>2. QED BY <2>1 DEF TerminatedMeansAborted
<1>6. QED BY <1>1, <1>2, <1>4, <1>5

(* Unwinding run() deletes its own classes: nobody else is in run().       *)
LEMMA UnwindJoined ==
  ASSUME IInv, JoinedInv, NEW r \in Runner, rpc[r] # "idle", Unwind(r),
         joined /\ raised[r] # "none" =>
           outcome'[r] = IF r \in unfit' THEN "failed" ELSE raised[r],
         \A s \in Runner : s # r => outcome'[s] = outcome[s] /\ (s \in unfit' <=> s \in unfit),
         UNCHANGED <<raised, joined, cpc, op, terminating, exception, closed, aborted>>
  PROVE  JoinedInv'
<1> USE DEF IInv, JoinedInv, TypeOK, Unwind
<1>1. OneRun' /\ ErrorKept'
  BY DEF OneRun, ErrorKept
<1>2. ActiveRunners' \subseteq ActiveRunners
  BY DEF ActiveRunners, Active
<1>3. AbortSeen'
  BY <1>2 DEF AbortSeen, AbortInProgress
<1>4. OwnOutcome' /\ TerminatedMeansAborted'
  BY DEF OwnOutcome, TerminatedMeansAborted
<1>5. ClassesLive'
  BY DEF ClassesLive, OneRun
<1>6. QED BY <1>1, <1>3, <1>4, <1>5

(* A step of run() that only moves on. *)
LEMMA MoveJoined ==
  ASSUME IInv, JoinedInv, NEW r \in Runner, NEW s \in RunState,
         rpc' = [rpc EXCEPT ![r] = s],
         \/ rpc[r] = "setup" /\ s = "executing"
         \/ rpc[r] = "executing" /\ s = "finished"
         \/ rpc[r] = "finished" /\ s = "cleared"
         \/ rpc[r] = "cleared" /\ s = "notified",
         \A c \in Caller : cpc'[c] = cpc[c] \/ (cpc[c] = "asleep" /\ cpc'[c] = "woken"),
         UNCHANGED <<raised, unfit, outcome, joined, op, terminating, exception, classes, closed,
                     aborted>>
  PROVE  JoinedInv'
<1> USE DEF IInv, JoinedInv, TypeOK
<1>1. OneRun' /\ ErrorKept' /\ OwnOutcome'
  BY DEF OneRun, ErrorKept, OwnOutcome
<1>2. ActiveRunners' \subseteq ActiveRunners
  BY DEF ActiveRunners, Active
<1>3. \A c \in Caller : AbortInProgress(c)' <=> AbortInProgress(c)
  BY DEF AbortInProgress
<1>4. AbortSeen'
  BY <1>2, <1>3 DEF AbortSeen
<1>5. ClassesLive' /\ TerminatedMeansAborted'
  BY DEF ClassesLive, TerminatedMeansAborted
<1>6. QED BY <1>1, <1>4, <1>5

LEMMA RunJoined ==
  ASSUME IInv, JoinedInv, NEW r \in Runner, RunNext(r)
  PROVE  JoinedInv'
<1>1. CASE Start(r)
  BY <1>1, StartJoined
<1>2. CASE Prepare(r)
  <2> USE DEF IInv, JoinedInv, TypeOK
  <2>1. /\ rpc[r] = "claimed" /\ rpc' = [rpc EXCEPT ![r] = "setup"]
        /\ exception' = "none" /\ classes' = classes \cup {r}
        /\ UNCHANGED <<raised, unfit, outcome, joined, cpc, op, terminating, closed, aborted>>
    BY <1>2 DEF Prepare, callVars
  <2>2. OneRun' /\ ErrorKept' /\ OwnOutcome'
    BY <2>1 DEF OneRun, ErrorKept, OwnOutcome
  <2>3. ActiveRunners' = ActiveRunners
    BY <2>1 DEF ActiveRunners, Active
  <2>4. AbortSeen'
    BY <2>1, <2>3 DEF AbortSeen, AbortInProgress
  <2>5. ClassesLive' /\ TerminatedMeansAborted'
    BY <2>1 DEF ClassesLive, TerminatedMeansAborted
  <2>6. QED BY <2>2, <2>4, <2>5
<1>3. CASE Execute(r)
  <2>1. /\ rpc[r] = "setup" /\ rpc' = [rpc EXCEPT ![r] = "executing"]
        /\ \A c \in Caller : cpc'[c] = cpc[c] \/ (cpc[c] = "asleep" /\ cpc'[c] = "woken")
        /\ UNCHANGED <<raised, unfit, outcome, joined, op, terminating, exception, classes, closed,
                       aborted>>
    BY <1>3 DEF Execute, callVars, objectVars
  <2>2. "executing" \in RunState
    BY DEF RunState
  <2>3. QED BY <2>1, <2>2, MoveJoined
<1>4. CASE Poll(r)
  <2>1. CASE terminating
    BY <1>4, <2>1, FailsJoined DEF Poll, callVars, Error
  <2>2. CASE ~terminating
    BY <1>4, <2>2 DEF Poll, callVars, JoinedInv, OneRun, ErrorKept, AbortSeen, AbortInProgress,
       ActiveRunners, OwnOutcome, ClassesLive, TerminatedMeansAborted
  <2>3. QED BY <2>1, <2>2
<1>5. CASE ScriptError(r)
  <2>1. CASE terminating
    BY <1>5, <2>1, FailsJoined DEF ScriptError, callVars, Error
  <2>2. CASE ~terminating
    BY <1>5, <2>2, FailsJoined DEF ScriptError, callVars, Error
  <2>3. QED BY <2>1, <2>2
<1>6. CASE ScriptEnd(r)
  <2>1. /\ rpc[r] = "executing" /\ rpc' = [rpc EXCEPT ![r] = "finished"]
        /\ \A c \in Caller : cpc'[c] = cpc[c] \/ (cpc[c] = "asleep" /\ cpc'[c] = "woken")
        /\ UNCHANGED <<raised, unfit, outcome, joined, op, terminating, exception, classes, closed,
                       aborted>>
    BY <1>6 DEF ScriptEnd, callVars, objectVars
  <2>2. "finished" \in RunState
    BY DEF RunState
  <2>3. QED BY <2>1, <2>2, MoveJoined
<1>7. CASE Throw(r)
  <2>1. raised[r] = "none" /\ rpc[r] # "idle"
    BY <1>7 DEF Throw, JoinedInv, ErrorKept
  <2>2. \A s \in Runner : s # r => outcome'[s] = outcome[s] /\ (s \in unfit' <=> s \in unfit)
    BY <1>7 DEF Throw, IInv, TypeOK
  <2>3. QED BY <1>7, <2>1, <2>2, UnwindJoined DEF Throw, callVars
<1>8. CASE ClearRunning(r)
  <2>1. /\ rpc[r] = "finished" /\ rpc' = [rpc EXCEPT ![r] = "cleared"]
        /\ \A c \in Caller : cpc'[c] = cpc[c] \/ (cpc[c] = "asleep" /\ cpc'[c] = "woken")
        /\ UNCHANGED <<raised, unfit, outcome, joined, op, terminating, exception, classes, closed,
                       aborted>>
    BY <1>8 DEF ClearRunning, callVars
  <2>2. "cleared" \in RunState
    BY DEF RunState
  <2>3. QED BY <2>1, <2>2, MoveJoined
<1>9. CASE Notify(r)
  <2>1. /\ rpc[r] = "cleared" /\ rpc' = [rpc EXCEPT ![r] = "notified"]
        /\ \A c \in Caller : cpc'[c] = cpc[c] \/ (cpc[c] = "asleep" /\ cpc'[c] = "woken")
        /\ UNCHANGED <<raised, unfit, outcome, joined, op, terminating, exception, classes, closed,
                       aborted>>
    BY <1>9 DEF Notify, objectVars
  <2>2. "notified" \in RunState
    BY DEF RunState
  <2>3. QED BY <2>1, <2>2, MoveJoined
<1>10. CASE Return(r)
  <2>1. joined /\ raised[r] # "none" =>
          outcome'[r] = IF r \in unfit' THEN "failed" ELSE raised[r]
    BY <1>10 DEF Return, JoinedInv, ErrorKept, IInv, TypeOK
  <2>2. \A s \in Runner : s # r => outcome'[s] = outcome[s] /\ (s \in unfit' <=> s \in unfit)
    BY <1>10 DEF Return, IInv, TypeOK
  <2>3. QED BY <1>10, <2>1, <2>2, UnwindJoined DEF Return, callVars
<1>11. QED
  BY <1>1, <1>2, <1>3, <1>4, <1>5, <1>6, <1>7, <1>8, <1>9, <1>10 DEF RunNext

(* A call that returns: m_bTerminating outlives it only for another abort. *)
LEMMA FinishJoined ==
  ASSUME IInv, JoinedInv, NEW c \in Caller, NEW answer, Finish(c, answer),
         UNCHANGED <<runVars, exception, classes, closed, aborted>>
  PROVE  JoinedInv'
<1> USE DEF IInv, JoinedInv, TypeOK, Finish, runVars
<1>1. OneRun' /\ ErrorKept' /\ OwnOutcome' /\ ClassesLive' /\ TerminatedMeansAborted'
  BY DEF OneRun, ErrorKept, OwnOutcome, ClassesLive, TerminatedMeansAborted
<1>2. terminating' => \E d \in Caller : AbortInProgress(d)'
  <2> SUFFICES ASSUME terminating' PROVE \E d \in Caller : AbortInProgress(d)'
    OBVIOUS
  <2>1. PICK d \in Caller : AbortInProgress(d)
    BY DEF AbortSeen
  <2>2. d # c
    BY <2>1 DEF AbortInProgress
  <2>3. AbortInProgress(d)'
    BY <2>1, <2>2 DEF AbortInProgress
  <2>4. QED BY <2>3
<1>3. (joined /\ (\E d \in Caller : AbortInProgress(d)) => ActiveRunners \subseteq aborted)'
  BY DEF AbortSeen, AbortInProgress, ActiveRunners
<1>4. AbortSeen'
  BY <1>2, <1>3 DEF AbortSeen
<1>5. QED BY <1>1, <1>4

LEMMA CallJoined ==
  ASSUME IInv, JoinedInv, NEW c \in Caller, CallNext(c)
  PROVE  JoinedInv'
<1> USE DEF IInv, JoinedInv, TypeOK, CallState
<1>1. CASE UNCHANGED <<runVars, exception, classes, closed>> /\ aborted \subseteq aborted' /\ AbortSeen'
  BY <1>1 DEF runVars, OneRun, ErrorKept, OwnOutcome, ClassesLive, TerminatedMeansAborted
<1>2. ASSUME NEW o \in Ops, Enter(c, o) PROVE JoinedInv'
  <2> USE DEF AbortSeen, AbortInProgress, ActiveRunners
  <2>1. UNCHANGED <<runVars, rpc, joined, exception, classes, closed, terminating>>
        /\ cpc[c] = "idle"
    BY <1>2 DEF Enter, objectVars, runVars
  <2>2. CASE ~running
    <3>1. UNCHANGED <<cpc, op, aborted>>
      BY <1>2, <2>2 DEF Enter
    <3>2. \A d \in Caller : AbortInProgress(d)' <=> AbortInProgress(d)
      BY <2>1, <3>1
    <3>3. AbortSeen'
      BY <2>1, <3>1, <3>2
    <3>4. QED BY <1>1, <2>1, <3>1, <3>3
  <2>3. CASE running
    <3>1. /\ cpc' = [cpc EXCEPT ![c] = IF o.kind = "abort" THEN "entered" ELSE "ready"]
          /\ aborted' = IF o.kind = "abort" THEN aborted \cup ActiveRunners ELSE aborted
          /\ op' = [op EXCEPT ![c] = o]
      BY <1>2, <2>3 DEF Enter
    <3>2. \A d \in Caller : d # c => (AbortInProgress(d)' <=> AbortInProgress(d))
      BY <2>1, <3>1
    <3>3. terminating' => \E d \in Caller : AbortInProgress(d)'
      BY <2>1, <3>2
    <3>4. \A d \in Caller : cpc'[d] \in {"entered", "signalled"} => op'[d].kind = "abort"
      BY <2>1, <3>1
    <3>5. joined' /\ (\E d \in Caller : AbortInProgress(d)') => ActiveRunners' \subseteq aborted'
      <4>1. CASE o.kind = "abort"
        BY <2>1, <3>1, <4>1
      <4>2. CASE o.kind # "abort"
        BY <2>1, <3>1, <3>2, <4>2
      <4>3. QED BY <4>1, <4>2
    <3>6. AbortSeen'
      BY <3>3, <3>4, <3>5
    <3>7. QED BY <1>1, <2>1, <3>1, <3>6
  <2>4. QED BY <2>2, <2>3
<1>3. CASE Check(c) \/ Expire(c)
  <2>1. CASE \E answer \in BOOLEAN : Finish(c, answer)
    <3>1. UNCHANGED <<runVars, exception, classes, closed, aborted>>
      BY <1>3 DEF Check, Expire
    <3>2. QED BY <2>1, <3>1, FinishJoined
  <2>2. CASE cpc[c] = "ready" /\ cpc' = [cpc EXCEPT ![c] = "checked"] /\ UNCHANGED <<terminating, op>>
    <3>1. UNCHANGED <<runVars, op, exception, classes, closed, aborted>>
      BY <1>3, <2>2 DEF Check, Expire
    <3>2. \A d \in Caller : AbortInProgress(d)' <=> AbortInProgress(d)
      BY <2>2, <3>1 DEF AbortInProgress
    <3>3. AbortSeen'
      BY <2>2, <3>1, <3>2 DEF AbortSeen, ActiveRunners, runVars
    <3>4. QED BY <1>1, <3>1, <3>3
  <2>3. QED BY <1>3, <2>1, <2>2 DEF Check, Expire
<1>4. CASE Signal(c)
  <2>1. /\ cpc[c] = "entered" /\ cpc' = [cpc EXCEPT ![c] = "signalled"]
        /\ UNCHANGED <<runVars, op, exception, classes, closed, aborted>>
    BY <1>4 DEF Signal
  <2>2. AbortInProgress(c)'
    BY <2>1 DEF AbortInProgress, AbortSeen
  <2>3. AbortSeen'
    BY <2>1, <2>2 DEF AbortSeen, AbortInProgress, ActiveRunners, runVars
  <2>4. QED BY <1>1, <2>1, <2>3
<1>5. CASE Request(c) \/ Sleep(c) \/ LeaveWaitSet(c) \/ Wake(c)
  <2>1. /\ UNCHANGED <<runVars, op, terminating, exception, classes, closed, aborted>>
        /\ cpc[c] # "idle"
        /\ \E s \in {"ready", "asleep", "woken", "expired"} : cpc' = [cpc EXCEPT ![c] = s]
    BY <1>5 DEF Request, Sleep, LeaveWaitSet, Wake, objectVars
  <2>2. \A d \in Caller : AbortInProgress(d)' <=> AbortInProgress(d)
    BY <2>1 DEF AbortInProgress
  <2>3. \A d \in Caller : cpc'[d] \in {"entered", "signalled"} => cpc'[d] = cpc[d]
    BY <2>1
  <2>4. AbortSeen'
    BY <2>1, <2>2, <2>3 DEF AbortSeen, ActiveRunners, runVars
  <2>5. QED BY <1>1, <2>1, <2>4
<1>6. QED
  BY <1>2, <1>3, <1>4, <1>5 DEF CallNext

(* The invariant of programs that join. *)
LEMMA JoinedInvariant == Spec => []JoinedInv
<1> USE DEF JoinedInv, OneRun, ErrorKept, AbortSeen, AbortInProgress, OwnOutcome, ClassesLive,
            TerminatedMeansAborted
<1>1. Init => JoinedInv
  BY DEF Init, ActiveRunners, Active
<1>2. IInv /\ JoinedInv /\ [Next]_vars => JoinedInv'
  <2> SUFFICES ASSUME IInv, JoinedInv, [Next]_vars PROVE JoinedInv'
    OBVIOUS
  <2>1. CASE UNCHANGED vars
    BY <2>1 DEF vars, runVars, callVars, objectVars, ActiveRunners
  <2>2. CASE Close
    BY <2>2 DEF Close, runVars, callVars, ActiveRunners
  <2>3. ASSUME NEW r \in Runner, RunNext(r) PROVE JoinedInv'
    BY <2>3, RunJoined
  <2>4. ASSUME NEW c \in Caller, CallNext(c) PROVE JoinedInv'
    BY <2>4, CallJoined
  <2>5. QED BY <2>1, <2>2, <2>3, <2>4 DEF Next
<1>3. QED BY <1>1, <1>2, ThreadInvariant, PTL DEF Spec

(* In a program that joins, run() reports the error of its own script.     *)
THEOREM OutcomeIsOwn == Spec => []OwnOutcome
<1>1. JoinedInv => OwnOutcome
  BY DEF JoinedInv
<1> QED
  BY <1>1, JoinedInvariant, PTL

(* In such a program the native classes live exactly as long as the run.   *)
THEOREM ClassesFollowRun == Spec => []ClassesLive
<1>1. JoinedInv => ClassesLive
  BY DEF JoinedInv
<1> QED
  BY <1>1, JoinedInvariant, PTL

(* In such a program a TerminationException means that some abort() found  *)
(* this very run running.                                                  *)
THEOREM TerminatedByAbort == Spec => []TerminatedMeansAborted
<1>1. JoinedInv => TerminatedMeansAborted
  BY DEF JoinedInv
<1> QED
  BY <1>1, JoinedInvariant, PTL

-----------------------------------------------------------------------------
(* Native objects. *)

(* What goes with a native is misplaced, because a property held it.       *)
LEMMA DeletedWithBound ==
  ASSUME NativesTypeOK, NEW n \in created
  PROVE  DeletedWith(n) \subseteq {n} \cup departed /\ n \in DeletedWith(n)
<1> DEFINE N == {n} \cup departed
<1>1. N \in SUBSET Native /\ n \in N
  BY DEF NativesTypeOK
<1>2. Properties(N) \subseteq N
  BY <1>1 DEF NativesTypeOK, Properties
<1>3. \A m \in DeletedWith(n) : m \in N
  BY <1>1, <1>2 DEF DeletedWith
<1>4. n \in DeletedWith(n)
  BY DEF NativesTypeOK, DeletedWith
<1> QED
  BY <1>3, <1>4

LEMMA DeleteEffect ==
  ASSUME NativesTypeOK, NEW N, N \subseteq created \cup {NoNative}, Delete(N)
  PROVE  /\ deleted \subseteq deleted' /\ deleted' \subseteq created
         /\ deleted' \ deleted \subseteq N \cup departed
         /\ N \ {NoNative} \subseteq deleted'
         /\ undefined' \in BOOLEAN
         /\ undefined' => undefined \/ (N \cup departed) \cap deleted # {}
<1> DEFINE gone == UNION {DeletedWith(n) : n \in N \ {NoNative}}
<1>1. gone \subseteq (N \ {NoNative}) \cup departed
  BY DeletedWithBound
<1>2. N \ {NoNative} \subseteq gone
  BY DeletedWithBound
<1>3. deleted' = deleted \cup gone /\ undefined' = (undefined \/ gone \cap deleted # {})
  BY DEF Delete
<1> HIDE DEF gone
<1> QED
  BY <1>1, <1>2, <1>3 DEF NativesTypeOK

(* What fromValue() takes from the collector. *)
LEMMA TakenEffect ==
  ASSUME NativesTypeOK, NEW args
  PROVE  /\ Taken(args) \subseteq Wrapping
         /\ \A w \in Taken(args) : ownership[w] = "gc" /\ private[w] \in created
         /\ \A i : NativeOf(args, i) \in created \cup {NoNative}
<1>1. /\ Taken(args) \subseteq Wrapping
      /\ \A w \in Taken(args) : ownership[w] = "gc" /\ private[w] \in created
  BY DEF Taken, Wrapping, NativesTypeOK
<1> QED
  BY <1>1 DEF NativeOf

LEMMA OwnerInit == ScriptObjectInit => OwnerInv
  BY NativeAssumption DEF ScriptObjectInit, OwnerInv, NativesTypeOK, WrappedOnce, Dangling, Owns,
     Gives, Wrapping, Alive

LEMMA WrapInStep ==
  ASSUME OwnerInv, NEW args, WrapInFails(args)
  PROVE  OwnerInv'
<1> DEFINE N == {private[w] : w \in Taken(args)}
<1>1. /\ Delete(N)
      /\ ownership' = [w \in Wrapper |-> IF w \in Taken(args) THEN "variant" ELSE ownership[w]]
      /\ departed' = departed \cup N
      /\ UNCHANGED <<created, property, private, returned, scripting>>
  BY DEF WrapInFails
<1>2. /\ Taken(args) \subseteq Wrapping
      /\ \A w \in Taken(args) : ownership[w] = "gc" /\ private[w] \in created
  BY TakenEffect DEF OwnerInv
<1>3. N \subseteq created
  BY <1>2
<1>4. \A w \in Taken(args) : private[w] \in N
  OBVIOUS
<1>5. /\ deleted \subseteq deleted' /\ deleted' \subseteq created
      /\ deleted' \ deleted \subseteq departed'
      /\ undefined' \in BOOLEAN
      /\ undefined' => undefined \/ departed' # {}
  <2> HIDE DEF N
  <2> QED
    BY <1>1, <1>3, DeleteEffect DEF OwnerInv
<1> HIDE DEF N
<1>6. NativesTypeOK'
  BY <1>1, <1>3, <1>5 DEF OwnerInv, NativesTypeOK
<1>7. Wrapping' = Wrapping
  BY <1>1 DEF Wrapping
<1>8. WrappedOnce' /\ Dangling' /\ Gives'
  BY <1>1, <1>2, <1>5, <1>7 DEF OwnerInv, WrappedOnce, Dangling, Gives, NativesTypeOK
<1>9. Owns'
  BY <1>1, <1>2, <1>4, <1>5 DEF OwnerInv, Owns, Alive, NativesTypeOK
<1>10. \A w \in Wrapper \ Wrapping : ownership'[w] = "gc"
  BY <1>1, <1>2 DEF OwnerInv
<1> QED
  BY <1>1, <1>5, <1>6, <1>7, <1>8, <1>9, <1>10 DEF OwnerInv

(* A call that returns n: nothing, or a native there is, which is then     *)
(* misplaced, or a new one, which then has the new script object.          *)
LEMMA ReturnStep ==
  ASSUME OwnerInv, NEW args, NEW n \in Native \cup {NoNative}, NEW known \in BOOLEAN,
         returned = NoNative,
         ownership' = WrappedOut(args), Wraps(n, known),
         created' = created \cup ({n} \ {NoNative}),
         departed' = departed \cup Misplaced(n, known),
         undefined' \in BOOLEAN, undefined' => departed' # {},
         UNCHANGED <<deleted, property, returned, scripting>>
  PROVE  OwnerInv'
<1> USE NativeAssumption
<1> DEFINE M == Misplaced(n, known)
<1>0. departed' = departed \cup M
  OBVIOUS
<1>1. M \subseteq created'
  BY DEF Misplaced, OwnerInv, NativesTypeOK
<1>2. /\ ownership' \in [Wrapper -> {"gc", "variant"}]
      /\ \A w \in Wrapper : ownership[w] = "gc" => ownership'[w] = "gc"
      /\ \A w \in Wrapper : private[w] = NoNative => ownership'[w] = ownership[w]
  BY DEF WrappedOut, Wrapping, OwnerInv, NativesTypeOK
<1>3. n # NoNative /\ n \notin M => n \notin created /\ known
  BY DEF Misplaced, OwnerInv, NativesTypeOK
<1> HIDE DEF M
<1>4. NativesTypeOK'
  <2>1. /\ created \subseteq created' /\ created' \subseteq Native /\ n \in created' \cup {NoNative}
        /\ departed \subseteq departed' /\ departed' \subseteq created'
    BY <1>0, <1>1 DEF OwnerInv, NativesTypeOK
  <2>2. private' \in [Wrapper -> created' \cup {NoNative}]
    <3>1. private \in [Wrapper -> created' \cup {NoNative}]
      BY <2>1 DEF OwnerInv, NativesTypeOK
    <3> QED
      BY <2>1, <3>1 DEF Wraps
  <2>3. /\ property' \in [Native -> departed' \cup {NoNative}]
        /\ returned' \in created' \cup {NoNative} /\ scripting' \in BOOLEAN
        /\ deleted' \subseteq created'
    BY <2>1 DEF OwnerInv, NativesTypeOK
  <2> QED
    BY <1>2, <2>1, <2>2, <2>3 DEF NativesTypeOK
<1>5. CASE UNCHANGED private
  <2>1. n = NoNative \/ n \in M
    <3> SUFFICES ASSUME n # NoNative, n \notin M PROVE FALSE
      OBVIOUS
    <3>1. n \notin created /\ known
      BY <1>3
    <3>2. PICK w \in Wrapper \ Wrapping : private' = [private EXCEPT ![w] = n]
      BY <3>1 DEF Wraps
    <3> QED
      BY <1>5, <3>1, <3>2 DEF OwnerInv, NativesTypeOK, Wrapping
  <2>2. /\ \A m \in created' \ departed' : m \in created \ departed
        /\ departed \subseteq departed'
    BY <1>0, <2>1
  <2>3. WrappedOnce' /\ Dangling'
    BY <1>5, <2>2 DEF OwnerInv, WrappedOnce, Dangling, Wrapping
  <2>5. Owns'
    BY <1>2, <1>5, <2>2 DEF OwnerInv, NativesTypeOK, Owns, Alive
  <2>6. Gives'
    BY DEF Gives
  <2>4. \A w \in Wrapper \ Wrapping' : ownership'[w] = "gc"
    BY <1>2, <1>5 DEF OwnerInv, Wrapping
  <2> QED
    BY <1>4, <2>3, <2>4, <2>5, <2>6 DEF OwnerInv
<1>6. CASE n # NoNative /\ \E w \in Wrapper \ Wrapping : private' = [private EXCEPT ![w] = n]
  <2>1. PICK w \in Wrapper \ Wrapping : private' = [private EXCEPT ![w] = n]
    BY <1>6
  <2>2. /\ private[w] = NoNative /\ private'[w] = n /\ ownership'[w] = "gc"
        /\ \A v \in Wrapper \ {w} : private'[v] = private[v]
    BY <1>2, <2>1 DEF OwnerInv, NativesTypeOK, Wrapping
  <2>3. Wrapping' = Wrapping \cup {w}
    BY <1>6, <2>1, <2>2 DEF Wrapping
  <2>4. n \in departed' \/ (n \notin created /\ \A v \in Wrapper : private[v] # n)
    BY <1>0, <1>3, <1>6 DEF OwnerInv, NativesTypeOK
  <2>5. WrappedOnce'
    BY <2>2, <2>3, <2>4 DEF OwnerInv, WrappedOnce, Wrapping
  <2>6. Dangling'
    BY <2>2, <2>3, <2>4 DEF OwnerInv, Dangling, NativesTypeOK
  <2>7. Owns'
    BY <1>2, <1>6, <2>2, <2>4 DEF OwnerInv, Owns, Alive, NativesTypeOK
  <2>8. Gives'
    BY <2>2 DEF Gives
  <2>9. \A v \in Wrapper \ Wrapping' : ownership'[v] = "gc"
    BY <1>2, <2>3 DEF OwnerInv, Wrapping
  <2> QED
    BY <1>4, <2>5, <2>6, <2>7, <2>8, <2>9 DEF OwnerInv
<1> QED
  BY <1>5, <1>6 DEF Wraps

(* A native method, of an object or static. *)
LEMMA InvokeStep ==
  ASSUME OwnerInv, NEW args, NEW self \in created \cup {NoNative}, returned = NoNative,
         Invoke(args, self)
  PROVE  OwnerInv'
<1>1. PICK n \in {NoNative, self} \cup {NativeOf(args, i) : i \in DOMAIN args} \cup (Native \ created),
           known \in BOOLEAN :
        /\ Wraps(n, known)
        /\ created' = created \cup ({n} \ {NoNative})
        /\ departed' = departed \cup Misplaced(n, known)
        /\ undefined' = (undefined \/ n \in deleted)
  BY DEF Invoke
<1>2. ownership' = WrappedOut(args) /\ UNCHANGED <<deleted, property, returned, scripting>>
  BY DEF Invoke
<1>3. n \in Native \cup {NoNative}
  BY TakenEffect DEF OwnerInv, NativesTypeOK
<1>4. undefined' \in BOOLEAN
  BY <1>1 DEF OwnerInv, NativesTypeOK
<1>5. ASSUME undefined' PROVE departed' # {}
  <2>1. CASE n \in deleted
    BY <1>1, <2>1, NativeAssumption DEF Misplaced, OwnerInv, NativesTypeOK
  <2> QED
    BY <1>1, <1>5, <2>1 DEF OwnerInv
<1> QED
  BY <1>1, <1>2, <1>3, <1>4, <1>5, ReturnStep

LEMMA ConstructStep == OwnerInv /\ NativeObjectConstruct => OwnerInv'
<1> SUFFICES ASSUME OwnerInv, NativeObjectConstruct PROVE OwnerInv'
  OBVIOUS
<1>1. PICK args \in ArgumentLists :
        \/ WrapInFails(args)
        \/ /\ ownership' = WrappedOut(args)
           /\ \E n \in {NoNative} \cup (Native \ created) :
                Wraps(n, TRUE) /\ created' = created \cup ({n} \ {NoNative})
           /\ UNCHANGED <<deleted, property, returned, scripting, undefined, departed>>
  BY DEF NativeObjectConstruct
<1>2. CASE WrapInFails(args)
  BY <1>2, WrapInStep
<1>3. CASE ~WrapInFails(args)
  <2>1. PICK n \in {NoNative} \cup (Native \ created) :
          Wraps(n, TRUE) /\ created' = created \cup ({n} \ {NoNative})
    BY <1>1, <1>3
  <2>2. Misplaced(n, TRUE) = {}
    BY NativeAssumption DEF Misplaced, OwnerInv, NativesTypeOK
  <2>3. returned = NoNative
    BY DEF NativeObjectConstruct, Scripting, OwnerInv
  <2>4. undefined' = undefined /\ departed' = departed
    BY <1>1, <1>3
  <2>5. departed' = departed \cup Misplaced(n, TRUE)
    BY <2>2, <2>4
  <2>6. undefined' \in BOOLEAN /\ (undefined' => departed' # {})
    BY <2>4 DEF OwnerInv, NativesTypeOK
  <2> QED
    BY <1>1, <1>3, <2>1, <2>3, <2>5, <2>6, ReturnStep
<1> QED
  BY <1>2, <1>3

LEMMA StaticCallStep == OwnerInv /\ NativeObjectStaticMethodCall => OwnerInv'
  BY WrapInStep, InvokeStep DEF NativeObjectStaticMethodCall, Scripting, OwnerInv

LEMMA OwnCallStep ==
  ASSUME OwnerInv, NEW w \in Wrapper, NativeObjectOwnMethodCall(w)
  PROVE  OwnerInv'
<1>1. PICK args \in ArgumentLists :
        \/ WrapInFails(args)
        \/ private[w] \in Alive /\ Invoke(args, private[w])
        \/ /\ private[w] \in deleted
           /\ undefined' = TRUE
           /\ UNCHANGED <<wrapperVars, nativeVars, returned, scripting, departed>>
  BY DEF NativeObjectOwnMethodCall
<1>2. returned = NoNative
  BY DEF NativeObjectOwnMethodCall, Scripting, OwnerInv
<1>3. CASE WrapInFails(args)
  BY <1>3, WrapInStep
<1>4. CASE private[w] \in Alive /\ Invoke(args, private[w])
  BY <1>2, <1>4, InvokeStep DEF Alive
<1>5. CASE /\ private[w] \in deleted
           /\ undefined' = TRUE
           /\ UNCHANGED <<wrapperVars, nativeVars, returned, scripting, departed>>
  <2>1. departed' # {}
    BY <1>5 DEF OwnerInv, Dangling
  <2> QED
    BY <1>5, <2>1 DEF OwnerInv, NativesTypeOK, WrappedOnce, Dangling, Owns, Gives, Wrapping, Alive,
       wrapperVars, nativeVars
<1> QED
  BY <1>1, <1>3, <1>4, <1>5

LEMMA GetterStep ==
  ASSUME OwnerInv, NEW w \in Wrapper, NativeObjectDynamicGetter(w)
  PROVE  OwnerInv'
<1> DEFINE n == private[w]
<1>1. n \in created /\ UNCHANGED <<returned, scripting, departed>>
  BY DEF NativeObjectDynamicGetter, Wrapping, OwnerInv, NativesTypeOK
<1>2. CASE undefined' = TRUE /\ UNCHANGED <<wrapperVars, nativeVars>> /\ (n \in deleted \/ property[n] \in deleted)
  <2>1. departed # {}
    BY <1>1, <1>2, NativeAssumption DEF OwnerInv, Dangling, NativesTypeOK
  <2> QED
    BY <1>1, <1>2, <2>1 DEF OwnerInv, NativesTypeOK, WrappedOnce, Dangling, Owns, Gives, Wrapping, Alive,
       wrapperVars, nativeVars
<1>3. CASE /\ Wraps(property[n], TRUE)
           /\ property' = [property EXCEPT ![n] = NoNative]
           /\ UNCHANGED <<created, deleted, ownership, undefined>>
  <2>1. property[n] \in departed \cup {NoNative}
    BY <1>1 DEF OwnerInv, NativesTypeOK
  <2>2. NativesTypeOK'
    BY <1>1, <1>3, <2>1 DEF OwnerInv, NativesTypeOK, Wraps
  <2>3. \A v \in Wrapper :
          private'[v] = private[v] \/ (private[v] = NoNative /\ private'[v] \in departed)
    BY <1>3, <2>1 DEF Wraps, Wrapping, OwnerInv, NativesTypeOK
  <2>4. \A v \in Wrapping' : private'[v] \in departed \/ (v \in Wrapping /\ private'[v] = private[v])
    BY <2>3 DEF Wrapping
  <2>5. WrappedOnce'
    BY <1>1, <2>4 DEF OwnerInv, WrappedOnce
  <2>6. Dangling'
    BY <1>1, <1>3, <2>3 DEF OwnerInv, Dangling
  <2>7. Owns'
    BY <1>1, <1>3, <2>3, NativeAssumption DEF OwnerInv, Owns, Alive, NativesTypeOK
  <2>8. Gives'
    BY <1>1 DEF NativeObjectDynamicGetter, Scripting, OwnerInv, Gives
  <2>9. \A v \in Wrapper \ Wrapping' : ownership'[v] = "gc"
    BY <1>3, <2>3, NativeAssumption DEF OwnerInv, Wrapping, NativesTypeOK
  <2> QED
    BY <1>1, <1>3, <2>2, <2>5, <2>6, <2>7, <2>8, <2>9 DEF OwnerInv
<1> QED
  BY <1>2, <1>3 DEF NativeObjectDynamicGetter

LEMMA SetterStep ==
  ASSUME OwnerInv, NEW w \in Wrapper, NEW v \in Values, NativeObjectDynamicSetter(w, v)
  PROVE  OwnerInv'
<1> DEFINE n == private[w]
           taken == Taken(<<v>>)
           new == NativeOf(<<v>>, 1)
<1>1. /\ ownership' = [x \in Wrapper |-> IF x \in taken THEN "variant" ELSE ownership[x]]
      /\ departed' = departed \cup ({new} \ {NoNative})
      /\ UNCHANGED <<created, private, returned, scripting>>
  BY DEF NativeObjectDynamicSetter
<1>2. /\ taken \subseteq Wrapping /\ new \in created \cup {NoNative}
      /\ \A x \in taken : private[x] \in created
  BY TakenEffect DEF OwnerInv
<1>3. \A x \in taken : private[x] = new
  BY DEF Taken, Converted, NativeOf
<1>4. n \in created
  BY DEF NativeObjectDynamicSetter, Wrapping, OwnerInv, NativesTypeOK
<1>5. /\ deleted \subseteq deleted' /\ deleted' \subseteq created
      /\ deleted' \ deleted \subseteq departed'
      /\ undefined' \in BOOLEAN /\ (undefined' => departed' # {})
      /\ property' \in [Native -> departed' \cup {NoNative}]
  <2> HIDE DEF new
  <2>1. property[n] \in departed \cup {NoNative}
    BY <1>4 DEF OwnerInv, NativesTypeOK
  <2>2. CASE n \in deleted /\ undefined' = TRUE /\ UNCHANGED <<deleted, property>>
    BY <1>1, <2>2 DEF OwnerInv, Dangling, NativesTypeOK
  <2>3. CASE property' = [property EXCEPT ![n] = new] /\ Delete({property[n]})
    <3>1. {property[n]} \subseteq created \cup {NoNative}
      BY <2>1 DEF OwnerInv, NativesTypeOK
    <3>2. /\ deleted \subseteq deleted' /\ deleted' \subseteq created
          /\ deleted' \ deleted \subseteq {property[n]} \cup departed
          /\ undefined' \in BOOLEAN
          /\ undefined' => undefined \/ ({property[n]} \cup departed) \cap deleted # {}
      BY <2>3, <3>1, DeleteEffect DEF OwnerInv
    <3>3. property' \in [Native -> departed' \cup {NoNative}]
      BY <1>1, <1>2, <2>3, NativeAssumption DEF OwnerInv, NativesTypeOK
    <3>4. NoNative \notin deleted
      BY NativeAssumption DEF OwnerInv, NativesTypeOK
    <3>5. ({property[n]} \cup departed) \cap deleted # {} => departed # {}
      BY <2>1, <3>4
    <3>6. (undefined' => departed' # {}) /\ departed \subseteq departed'
      BY <1>1, <3>2, <3>5 DEF OwnerInv
    <3>7. deleted' \ deleted \subseteq departed \cup {NoNative}
      BY <2>1, <3>2
    <3>8. deleted' \ deleted \subseteq departed'
      BY <3>2, <3>6, <3>7, NativeAssumption DEF OwnerInv, NativesTypeOK
    <3> QED
      BY <3>2, <3>3, <3>6, <3>8
  <2>4. CASE Delete({new}) /\ UNCHANGED property
    <3>1. /\ deleted \subseteq deleted' /\ deleted' \subseteq created
          /\ deleted' \ deleted \subseteq {new} \cup departed
          /\ undefined' \in BOOLEAN
          /\ undefined' => undefined \/ ({new} \cup departed) \cap deleted # {}
      BY <1>2, <2>4, DeleteEffect DEF OwnerInv
    <3> QED
      BY <1>1, <2>4, <3>1, NativeAssumption DEF OwnerInv, NativesTypeOK
  <2> QED
    BY <2>2, <2>3, <2>4 DEF NativeObjectDynamicSetter, new
<1> HIDE DEF new, taken
<1>6. NativesTypeOK'
  BY <1>1, <1>2, <1>5 DEF OwnerInv, NativesTypeOK
<1>7. Wrapping' = Wrapping
  BY <1>1 DEF Wrapping
<1>8. WrappedOnce' /\ Dangling'
  BY <1>1, <1>5, <1>7 DEF OwnerInv, WrappedOnce, Dangling
<1>9. Owns'
  BY <1>1, <1>2, <1>3, <1>5, NativeAssumption DEF OwnerInv, Owns, Alive, NativesTypeOK
<1>10. Gives'
  BY <1>1 DEF NativeObjectDynamicSetter, Scripting, OwnerInv, Gives
<1>11. \A x \in Wrapper \ Wrapping' : ownership'[x] = "gc"
  BY <1>1, <1>2, <1>7 DEF OwnerInv
<1> QED
  BY <1>1, <1>5, <1>6, <1>8, <1>9, <1>10, <1>11 DEF OwnerInv

(* The collector: what is not misplaced has gone with this script object   *)
(* for ever, and was not deleted before. *)
LEMMA FinalizeStep ==
  ASSUME OwnerInv, NEW w \in Wrapper, NativeObjectFinalize(w)
  PROVE  OwnerInv'
<1> DEFINE n == private[w]
<1>1. /\ w \in Wrapping /\ n \in created
      /\ private' = [private EXCEPT ![w] = NoNative] /\ ownership' = [ownership EXCEPT ![w] = "gc"]
      /\ UNCHANGED <<created, property, returned, scripting, departed>>
  BY DEF NativeObjectFinalize, Wrapping, OwnerInv, NativesTypeOK
<1>2. /\ deleted \subseteq deleted' /\ deleted' \subseteq created
      /\ deleted' \ deleted \subseteq {n} \cup departed
      /\ undefined' \in BOOLEAN /\ (undefined' => departed # {})
      /\ ownership[w] = "gc" => n \in deleted'
      /\ ownership[w] # "gc" => deleted' = deleted
  <2>1. CASE ownership[w] = "gc"
    <3>1. Delete({n})
      BY <2>1 DEF NativeObjectFinalize
    <3>2. /\ deleted \subseteq deleted' /\ deleted' \subseteq created
          /\ deleted' \ deleted \subseteq {n} \cup departed
          /\ {n} \ {NoNative} \subseteq deleted'
          /\ undefined' \in BOOLEAN
          /\ undefined' => undefined \/ ({n} \cup departed) \cap deleted # {}
      BY <1>1, <3>1, DeleteEffect DEF OwnerInv
    <3>3. n # NoNative
      BY <1>1 DEF Wrapping
    <3>4. n \in deleted => n \in departed
      BY DEF OwnerInv, Dangling
    <3>5. undefined' => departed # {}
      BY <3>2, <3>4 DEF OwnerInv
    <3> HIDE DEF n
    <3> QED
      BY <2>1, <3>2, <3>3, <3>5
  <2>2. CASE ownership[w] # "gc"
    BY <2>2 DEF NativeObjectFinalize, OwnerInv, NativesTypeOK
  <2> QED
    BY <2>1, <2>2
<1>3. \A v \in Wrapper \ {w} : private'[v] = private[v] /\ ownership'[v] = ownership[v]
  BY <1>1 DEF OwnerInv, NativesTypeOK
<1>4. private'[w] = NoNative /\ ownership'[w] = "gc"
  BY <1>1 DEF OwnerInv, NativesTypeOK
<1>5. Wrapping' = Wrapping \ {w}
  BY <1>3, <1>4 DEF Wrapping
<1>6. n \notin departed => \A v \in Wrapper \ {w} : private[v] # n
  BY <1>1 DEF OwnerInv, WrappedOnce, Wrapping
<1> HIDE DEF n
<1>7. NativesTypeOK'
  BY <1>1, <1>2 DEF OwnerInv, NativesTypeOK
<1>8. WrappedOnce'
  BY <1>1, <1>3, <1>5 DEF OwnerInv, WrappedOnce
<1>9. Dangling'
  <2> SUFFICES ASSUME NEW m \in deleted' \ departed PROVE returned # m /\ \A v \in Wrapper : private'[v] # m
    BY <1>1 DEF Dangling
  <2>1. m \in Native /\ m # NoNative
    BY <1>2, NativeAssumption DEF OwnerInv, NativesTypeOK
  <2>2. CASE m \in deleted
    BY <1>3, <1>4, <2>1, <2>2 DEF OwnerInv, Dangling
  <2>3. CASE m \notin deleted
    <3>1. m = n /\ ownership[w] = "gc"
      BY <1>2, <2>3
    <3>2. returned # n
      BY <2>1, <3>1 DEF OwnerInv, Gives, n
    <3> QED
      BY <1>3, <1>4, <1>6, <2>1, <3>1, <3>2
  <2> QED
    BY <2>2, <2>3
<1>10. Owns'
  <2> SUFFICES ASSUME NEW m \in Alive' \ departed, returned # m
               PROVE  \E v \in Wrapper : private'[v] = m /\ ownership'[v] = "gc"
    BY <1>1 DEF Owns
  <2>1. PICK v \in Wrapper : private[v] = m /\ ownership[v] = "gc"
    BY <1>1, <1>2 DEF OwnerInv, Owns, Alive
  <2>2. v # w
    BY <1>2, <2>1 DEF Alive, n
  <2> QED
    BY <1>3, <2>1, <2>2
<1>11. Gives'
  BY <1>1, <1>3, <1>4 DEF OwnerInv, Gives
<1>12. \A v \in Wrapper \ Wrapping' : ownership'[v] = "gc"
  BY <1>3, <1>4, <1>5 DEF OwnerInv
<1> QED
  BY <1>1, <1>2, <1>7, <1>8, <1>9, <1>10, <1>11, <1>12 DEF OwnerInv

LEMMA EndStep ==
  ASSUME OwnerInv, NEW v \in Values, EndScript(v)
  PROVE  OwnerInv'
<1> DEFINE taken == Taken(<<v>>)
           new == NativeOf(<<v>>, 1)
<1>1. /\ returned = NoNative /\ scripting' = FALSE
      /\ UNCHANGED <<created, deleted, property, private, undefined, departed>>
  BY DEF EndScript, Scripting, OwnerInv, nativeVars
<1>2. Wrapping' = Wrapping
  BY <1>1 DEF Wrapping
<1>3. CASE v = Unsupported /\ UNCHANGED <<ownership, returned>>
  BY <1>1, <1>2, <1>3 DEF OwnerInv, NativesTypeOK, WrappedOnce, Dangling, Owns, Gives, Alive
<1>4. CASE /\ ownership' = [x \in Wrapper |-> IF x \in taken THEN "variant" ELSE ownership[x]]
           /\ returned' = new
  <2>1. taken \subseteq Wrapping /\ new \in created \cup {NoNative}
    BY TakenEffect DEF OwnerInv
  <2>2. \A x \in taken : private[x] = new
    BY DEF Taken, Converted, NativeOf
  <2>3. new # NoNative => v \in taken /\ private[v] = new
    BY DEF NativeOf
  <2> HIDE DEF new, taken
  <2>4. NativesTypeOK'
    BY <1>1, <1>4, <2>1 DEF OwnerInv, NativesTypeOK
  <2>5. WrappedOnce'
    BY <1>1, <1>2 DEF OwnerInv, WrappedOnce
  <2>6. Dangling'
    <3>1. \A n \in deleted \ departed : n \in Native
      BY DEF OwnerInv, NativesTypeOK
    <3> QED
      BY <1>1, <1>4, <2>1, <2>3, <3>1, NativeAssumption DEF OwnerInv, Dangling, Wrapping
  <2>7. Owns'
    BY <1>1, <1>4, <2>2, NativeAssumption DEF OwnerInv, Owns, Alive, NativesTypeOK
  <2>8. Gives'
    <3> SUFFICES ASSUME NEW x \in Wrapper, private[x] = new, new \notin departed, new # NoNative
                 PROVE  ownership'[x] = "variant"
      BY <1>1, <1>4 DEF Gives
    <3>1. x \in Wrapping /\ v \in Wrapping /\ private[v] = new
      BY <2>1, <2>3 DEF Wrapping
    <3>2. x = v
      BY <3>1 DEF OwnerInv, WrappedOnce
    <3> QED
      BY <1>4, <2>3, <3>2
  <2>9. \A x \in Wrapper \ Wrapping' : ownership'[x] = "gc"
    BY <1>2, <1>4, <2>1 DEF OwnerInv
  <2> QED
    BY <1>1, <2>4, <2>5, <2>6, <2>7, <2>8, <2>9 DEF OwnerInv
<1> QED
  BY <1>3, <1>4 DEF EndScript

LEMMA DropStep == OwnerInv /\ DropReturned => OwnerInv'
<1> SUFFICES ASSUME OwnerInv, DropReturned PROVE OwnerInv'
  OBVIOUS
<1>1. /\ ~undefined /\ returned \in created /\ Wrapping = {} /\ Delete({returned}) /\ returned' = NoNative
      /\ UNCHANGED <<private, ownership, created, property, scripting, departed>>
  BY DEF DropReturned, wrapperVars, OwnerInv, NativesTypeOK
<1>2. /\ deleted \subseteq deleted' /\ deleted' \subseteq created
      /\ deleted' \ deleted \subseteq {returned} \cup departed
      /\ {returned} \ {NoNative} \subseteq deleted'
      /\ undefined' \in BOOLEAN
      /\ undefined' => undefined \/ ({returned} \cup departed) \cap deleted # {}
  BY <1>1, DeleteEffect DEF OwnerInv
<1>3. returned \in deleted => returned \in departed
  BY DEF OwnerInv, Dangling
<1>4. undefined' => departed # {}
  BY <1>1, <1>2, <1>3
<1>5. \A w \in Wrapper : private[w] = NoNative
  BY <1>1 DEF Wrapping
<1>6. Wrapping' = {}
  BY <1>1, <1>5 DEF Wrapping
<1>7. NativesTypeOK'
  BY <1>1, <1>2 DEF OwnerInv, NativesTypeOK
<1>8. NoNative \notin created
  BY NativeAssumption DEF OwnerInv, NativesTypeOK
<1>9. WrappedOnce' /\ Dangling' /\ Gives'
  BY <1>1, <1>2, <1>5, <1>6, <1>8 DEF WrappedOnce, Dangling, Gives
<1>10. Owns'
  BY <1>1, <1>2, <1>5, <1>8 DEF OwnerInv, Owns, Alive
<1> QED
  BY <1>1, <1>4, <1>6, <1>7, <1>9, <1>10 DEF OwnerInv

LEMMA OwnerInductive == OwnerInv /\ [ScriptObjectNext]_scriptObjectVars => OwnerInv'
<1> SUFFICES ASSUME OwnerInv, [ScriptObjectNext]_scriptObjectVars PROVE OwnerInv'
  OBVIOUS
<1>1. CASE UNCHANGED scriptObjectVars
  BY <1>1 DEF OwnerInv, NativesTypeOK, WrappedOnce, Dangling, Owns, Gives, Wrapping, Alive,
     scriptObjectVars, wrapperVars, nativeVars
<1>2. CASE NativeObjectConstruct \/ NativeObjectStaticMethodCall \/ DropReturned
  BY <1>2, ConstructStep, StaticCallStep, DropStep
<1>3. ASSUME NEW w \in Wrapper,
             NativeObjectOwnMethodCall(w) \/ NativeObjectDynamicGetter(w) \/ NativeObjectFinalize(w)
      PROVE  OwnerInv'
  BY <1>3, OwnCallStep, GetterStep, FinalizeStep
<1>4. ASSUME NEW w \in Wrapper, NEW v \in Values, NativeObjectDynamicSetter(w, v)
      PROVE  OwnerInv'
  BY <1>4, SetterStep
<1>5. ASSUME NEW v \in Values, EndScript(v)
      PROVE  OwnerInv'
  BY <1>5, EndStep
<1> QED
  BY <1>1, <1>2, <1>3, <1>4, <1>5 DEF ScriptObjectNext

(* However a script, its methods and the collector take turns, a native    *)
(* that no call has misplaced has one owner until it is deleted, is deleted*)
(* once, and is not used afterwards (JSScriptThread.cpp:596).              *)
THEOREM OwnedOnce == ScriptObjectSpec => []OneOwner
<1>1. ASSUME OwnerInv PROVE OneOwner
  <2> SUFFICES ASSUME NEW n \in created \ departed
               PROVE  LET owners == {w \in Wrapping : private[w] = n /\ ownership[w] = "gc"}
                      IN  IF n \in deleted
                          THEN \A w \in Wrapping : private[w] # n
                          ELSE IF returned = n THEN owners = {} ELSE Cardinality(owners) = 1
    BY <1>1 DEF OneOwner, OwnerInv
  <2> DEFINE owners == {w \in Wrapping : private[w] = n /\ ownership[w] = "gc"}
  <2>1. CASE n \in deleted
    BY <1>1, <2>1 DEF OwnerInv, Dangling, Wrapping
  <2>2. CASE n \notin deleted /\ returned = n
    BY <1>1, <2>2, NativeAssumption DEF OwnerInv, Gives, Wrapping, NativesTypeOK
  <2>3. CASE n \notin deleted /\ returned # n
    <3>1. PICK w \in Wrapper : private[w] = n /\ ownership[w] = "gc"
      BY <1>1, <2>3 DEF OwnerInv, Owns, Alive
    <3>2. w \in Wrapping
      BY <1>1, <3>1, NativeAssumption DEF OwnerInv, NativesTypeOK, Wrapping
    <3>3. owners = {w}
      BY <1>1, <3>1, <3>2 DEF OwnerInv, WrappedOnce
    <3> QED
      BY <2>3, <3>3, FS_Singleton
  <2> QED
    BY <2>1, <2>2, <2>3
<1> QED
  BY <1>1, OwnerInit, OwnerInductive, PTL DEF ScriptObjectSpec

(* In a script whose calls misplace nothing, nothing deleted is ever used. *)
THEOREM NoUseAfterDelete == ScriptObjectSpec => [](departed = {} => ~undefined)
<1>1. OwnerInv => (departed = {} => ~undefined)
  BY DEF OwnerInv
<1> QED
  BY <1>1, OwnerInit, OwnerInductive, PTL DEF ScriptObjectSpec
===============================================================================
