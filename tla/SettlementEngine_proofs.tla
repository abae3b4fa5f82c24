----------------------- MODULE SettlementEngine_proofs -----------------------
(***************************************************************************)
(* Proofs about SettlementEngine, for any number of wallets and items: the *)
(* types, and that the engine's status is true of its timer and its run.   *)
(***************************************************************************)
EXTENDS SettlementEngine, TLAPS

\* An idle engine that backs off has its timer set, or nothing left to refuse.
Armed == status = "backoff" /\ run.pc = "idle" => timer \/ due

\* A run that has found something to do has left the back-off behind.
Past == run.pc \in {"upload", "settle", "items", "end"} => status # "backoff"

IInv == TypeOK /\ RunningIsRunning /\ OneRetry /\ Armed /\ Past /\ BackoffIsPursued

\* The idle run is a run.
LEMMA NoRunType == NoRun \in Run /\ NoRun.pc = "idle"
BY DEF NoRun, Run

\* What the start of a run does.
LEMMA Starts ==
  ASSUME TypeOK, Started
  PROVE  /\ run' \in Run /\ run'.pc = "stats" /\ run'.wallet = wallet
         /\ away' \subseteq Wallet
BY DEF TypeOK, Started, NoRun, Run

\* A step of the run in flight, or its end.
LEMMA Goes ==
  ASSUME TypeOK
  PROVE  /\ Stats \/ Upload \/ List \/ (\E i \in Item : Settle(i)) \/ Cleanup \/ End \/ Throw =>
              run' \in Run /\ (run'.pc # "idle" => run'.wallet \in Wallet)
         /\ Upload => run'.pc = "settle"
         /\ List => run'.pc = "items"
         /\ Stats => run' = NoRun \/ run'.pc = "upload"
         /\ (\E i \in Item : Settle(i)) => run'.pc = "items"
         /\ Cleanup => run'.pc = "end"
         /\ End \/ Throw => run' = NoRun
<1>0. run \in Run /\ (run.pc # "idle" => run.wallet \in Wallet)
  BY DEF TypeOK
<1>2. Upload => run' \in Run /\ run'.pc = "settle" /\ run'.wallet \in Wallet
  BY <1>0 DEF Upload, At, Run
<1>3. List => run' \in Run /\ run'.pc = "items" /\ run'.wallet \in Wallet
  BY <1>0 DEF List, At, Run, Unsettled, Queued
<1>4. (\E i \in Item : Settle(i)) => run' \in Run /\ run'.pc = "items" /\ run'.wallet \in Wallet
  <2> SUFFICES ASSUME NEW i \in Item, Settle(i)
               PROVE  run' \in Run /\ run'.pc = "items" /\ run'.wallet \in Wallet
    OBVIOUS
  <2>1. PICK left \in BOOLEAN, failed \in BOOLEAN : Done(i, left, failed)
    BY DEF Settle
  <2>2. (run.left \/ left) \in BOOLEAN /\ (run.failed \/ failed) \in BOOLEAN
    OBVIOUS
  <2>3. run' = [run EXCEPT !.batch = run.batch \ {i}, !.left = run.left \/ left,
                           !.failed = run.failed \/ failed]
    BY <2>1 DEF Done
  <2> QED BY <1>0, <2>2, <2>3 DEF Settle, At, Run
<1>5. Cleanup => run' \in Run /\ run'.pc = "end" /\ run'.wallet \in Wallet
  BY <1>0 DEF Cleanup, At, Run
<1>6. End \/ Throw => run' = NoRun
  BY DEF End, Throw
<1>7. Stats => run' = NoRun \/ (run' \in Run /\ run'.pc = "upload" /\ run'.wallet \in Wallet)
  BY <1>0 DEF Stats, At, Run
<1> QED BY <1>2, <1>3, <1>4, <1>5, <1>6, <1>7, NoRunType

\* At first nothing runs and nothing is promised.
LEMMA InitIInv == Init => IInv
BY NoRunType DEF Init, IInv, TypeOK, RunningIsRunning, OneRetry, Armed, Past, BackoffIsPursued, State

\* Every step keeps the types.
LEMMA TypeInductive == TypeOK /\ [Next]_vars => TypeOK'
<1> SUFFICES ASSUME TypeOK, [Next]_vars PROVE TypeOK'
  OBVIOUS
<1> USE DEF triggers, backoff
<1>1. CASE Retry
  BY <1>1, Starts DEF Retry, TypeOK
<1>2. CASE Elapse
  BY <1>2 DEF Elapse, TypeOK
<1>3. CASE Launch
  BY <1>3, Starts DEF Launch, Begin, TypeOK
<1>4. CASE QueueEffect
  BY <1>4, Starts DEF QueueEffect, Begin, TypeOK
<1>5. CASE NetworkEvent
  BY <1>5, Starts DEF NetworkEvent, Begin, TypeOK
<1>6. CASE Foreground
  BY <1>6 DEF Foreground, TypeOK
<1>7. CASE ForegroundTimer
  BY <1>7, Starts DEF ForegroundTimer, Begin, TypeOK
<1>8. CASE Enable \/ Disable
  BY <1>8 DEF Enable, Disable, TypeOK
<1>9. CASE \E w \in Wallet : Switch(w)
  BY <1>9 DEF Switch, TypeOK
<1>10. CASE \E i \in Item : Enqueue(i)
  <2>1. PICK i \in Item : queue' = [queue EXCEPT ![wallet][i] = "queued"]
    BY <1>10 DEF Enqueue
  <2>2. queue' \in [Wallet -> [Item -> State]]
    BY <2>1 DEF TypeOK, State
  <2> QED BY <1>10, <2>2 DEF Enqueue, TypeOK
<1>11. CASE Stats
  <2>1. run' \in Run /\ (run'.pc # "idle" => run'.wallet \in Wallet)
    BY <1>11, Goes
  <2>2. status' \in {"idle", "running"}
    BY <1>11 DEF Stats
  <2> QED BY <1>11, <2>1, <2>2 DEF Stats, TypeOK
<1>16. CASE Upload \/ List
  <2>1. run' \in Run /\ (run'.pc # "idle" => run'.wallet \in Wallet)
    BY <1>16, Goes
  <2>2. UNCHANGED <<wallet, enabled, triggers, backoff, queue, away>>
    BY <1>16 DEF Upload, List
  <2> QED BY <2>1, <2>2 DEF TypeOK
<1>12. CASE \E i \in Item : Settle(i)
  <2>0. PICK i \in Item, state \in State : queue' = [queue EXCEPT ![run.wallet][i] = state]
    BY <1>12 DEF Settle, Becomes, State
  <2>1. queue' \in [Wallet -> [Item -> State]]
    BY <2>0 DEF TypeOK
  <2>2. run' \in Run /\ (run'.pc # "idle" => run'.wallet \in Wallet)
    BY <1>12, Goes
  <2>3. UNCHANGED <<wallet, enabled, triggers, backoff, away>>
    BY <1>12 DEF Settle
  <2> QED BY <2>1, <2>2, <2>3 DEF TypeOK
<1>13. CASE Cleanup
  <2>1. queue' \in [Wallet -> [Item -> State]]
    <3>1. PICK kept : queue' = [queue EXCEPT ![run.wallet] =
            [i \in Item |-> IF @[i] = "confirmed" /\ i \notin kept THEN "absent" ELSE @[i]]]
      BY <1>13 DEF Cleanup
    <3> QED BY <3>1 DEF TypeOK, State
  <2>2. run' \in Run /\ (run'.pc # "idle" => run'.wallet \in Wallet)
    BY <1>13, Goes
  <2>3. status' \in {"error", "settled"} /\ UNCHANGED <<wallet, enabled, triggers, timer, due, away>>
    BY <1>13 DEF Cleanup
  <2> QED BY <2>1, <2>2, <2>3 DEF TypeOK
<1>14. CASE End \/ Throw
  <2>1. run' \in Run /\ run'.pc = "idle"
    BY <1>14, Goes, NoRunType
  <2>2. BackOff \/ UNCHANGED backoff
    BY <1>14 DEF End, Throw
  <2>3. UNCHANGED <<wallet, enabled, triggers, queue, away>>
    BY <1>14 DEF End, Throw
  <2> QED BY <2>1, <2>2, <2>3 DEF BackOff, TypeOK
<1>15. CASE UNCHANGED vars
  BY <1>15 DEF vars, TypeOK
<1> QED BY <1>1, <1>2, <1>3, <1>4, <1>5, <1>6, <1>7, <1>8, <1>9, <1>10, <1>11, <1>12, <1>13,
           <1>14, <1>15, <1>16 DEF Next

(***************************************************************************)
(* A trigger starts a run only from an idle engine, which it never leaves  *)
(* backing off with neither timer nor run; only access that comes back     *)
(* finds a back-off whose timer is gone, and then its time has passed.     *)
(***************************************************************************)
LEMMA StatusInductive ==
  ASSUME IInv, [Next]_vars
  PROVE  RunningIsRunning' /\ OneRetry' /\ Armed' /\ Past' /\ BackoffIsPursued'
<1> USE DEF IInv, RunningIsRunning, OneRetry, Armed, Past, BackoffIsPursued, triggers, backoff
<1>b. ASSUME NEW trigger, Begin(trigger), UNCHANGED <<enabled, status, due>>,
             launch' = launch \/ trigger = "launch"
      PROVE  RunningIsRunning' /\ OneRetry' /\ Armed' /\ Past' /\ BackoffIsPursued'
  <2>1. CASE CanBegin(trigger)
    BY <1>b, <2>1, Starts DEF Begin, CanBegin
  <2>2. CASE ~CanBegin(trigger)
    BY <1>b, <2>2 DEF Begin, CanBegin, Refused
  <2> QED BY <2>1, <2>2
<1>1. CASE Retry
  BY <1>1, Starts DEF Retry, CanBegin
<1>2. CASE Elapse
  BY <1>2 DEF Elapse
<1>3. CASE Launch
  BY <1>3, <1>b DEF Launch
<1>4. CASE QueueEffect
  BY <1>4, <1>b DEF QueueEffect
<1>5. CASE NetworkEvent
  BY <1>5, <1>b DEF NetworkEvent
<1>6. CASE Foreground
  BY <1>6 DEF Foreground
<1>7. CASE ForegroundTimer
  BY <1>7, <1>b DEF ForegroundTimer
<1>8. CASE Enable \/ Disable
  BY <1>8 DEF Enable, Disable, TypeOK
<1>9. CASE \E w \in Wallet : Switch(w)
  BY <1>9 DEF Switch
<1>10. CASE \E i \in Item : Enqueue(i)
  BY <1>10 DEF Enqueue
<1>11. CASE Stats
  <2>1. run.pc = "stats" /\ UNCHANGED <<enabled, triggers, timer, due>>
        /\ \/ status' = "idle" /\ run' = NoRun
           \/ status' = "running" /\ run'.pc = "upload"
    <3>1. status' = "running" /\ run' = [run EXCEPT !.pc = "upload"] => run'.pc = "upload"
      BY DEF TypeOK, Run
    <3> QED BY <1>11, <3>1 DEF Stats, At
  <2> QED BY <2>1, NoRunType
<1>12. CASE Upload
  <2>1. run.pc = "upload" /\ run'.pc = "settle" /\ UNCHANGED <<enabled, triggers, backoff>>
    BY <1>12, Goes DEF Upload, At
  <2> QED BY <2>1
<1>14. CASE List
  <2>1. run.pc = "settle" /\ run'.pc = "items" /\ UNCHANGED <<enabled, triggers, backoff>>
    BY <1>14, Goes DEF List, At
  <2> QED BY <2>1
<1>15. CASE \E i \in Item : Settle(i)
  <2>1. run.pc = "items" /\ run'.pc = "items" /\ UNCHANGED <<enabled, triggers, backoff>>
    BY <1>15, Goes DEF Settle, At
  <2> QED BY <2>1
<1>16. CASE Cleanup
  <2>1. /\ run.pc = "items" /\ run'.pc = "end" /\ status' \in {"error", "settled"}
        /\ UNCHANGED <<enabled, triggers, timer, due>>
    BY <1>16, Goes DEF Cleanup, At
  <2> QED BY <2>1
<1>17. CASE End \/ Throw
  <2>1. /\ run'.pc = "idle" /\ run.pc # "idle" /\ UNCHANGED <<enabled, triggers>>
        /\ BackOff \/ (UNCHANGED backoff /\ run.pc = "end")
    BY <1>17, NoRunType DEF End, Throw, At
  <2>2. CASE BackOff
    BY <2>1, <2>2 DEF BackOff
  <2>3. CASE UNCHANGED backoff /\ run.pc = "end"
    <3>1. status' = status /\ status # "running" /\ timer' = timer /\ due' = due
      BY <2>3
    <3>2. status # "backoff"
      BY <2>3
    <3> QED BY <2>1, <2>3, <3>1, <3>2
  <2> QED BY <2>1, <2>2, <2>3
<1>13. CASE UNCHANGED vars
  BY <1>13 DEF vars
<1> QED BY <1>1, <1>2, <1>3, <1>4, <1>5, <1>6, <1>7, <1>8, <1>9, <1>10, <1>11, <1>12, <1>13,
           <1>14, <1>15, <1>16, <1>17 DEF Next

(***************************************************************************)
(* The inductive invariant holds throughout.                               *)
(***************************************************************************)
THEOREM Invariance == Spec => []IInv
<1>1. IInv /\ [Next]_vars => IInv'
  BY TypeInductive, StatusInductive DEF IInv
<1> QED BY <1>1, InitIInv, PTL DEF Spec

(***************************************************************************)
(* Every state has the declared types, and a run knows its wallet.         *)
(***************************************************************************)
THEOREM TypeCorrect == Spec => []TypeOK
<1>1. IInv => TypeOK
  BY DEF IInv
<1> QED BY <1>1, Invariance, PTL

(***************************************************************************)
(* "Finalizing queued payments." is shown only while a run is in flight.   *)
(***************************************************************************)
THEOREM RunningTrue == Spec => []RunningIsRunning
<1>1. IInv => RunningIsRunning
  BY DEF IInv
<1> QED BY <1>1, Invariance, PTL

(***************************************************************************)
(* "Finalization retry is scheduled." is shown by an enabled engine only   *)
(* while one is, whatever ends the run and whenever access comes and goes. *)
(***************************************************************************)
THEOREM BackoffTrue == Spec => []BackoffIsPursued
<1>1. IInv => BackoffIsPursued
  BY DEF IInv
<1> QED BY <1>1, Invariance, PTL

(***************************************************************************)
(* The retry timer never fires into a run.                                 *)
(***************************************************************************)
THEOREM OneRetryAtMost == Spec => []OneRetry
<1>1. IInv => OneRetry
  BY DEF IInv
<1> QED BY <1>1, Invariance, PTL
=============================================================================
