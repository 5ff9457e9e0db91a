-------------------------- MODULE KeepAwakeProofs --------------------------
(***************************************************************************)
(* Proofs about KeepAwake, for any number of Tasks that overlap: the       *)
(* warning is always confirmed first, and when nothing is under way the    *)
(* toggle tells the truth about the Mac, if the last apply ran alone.      *)
(***************************************************************************)
EXTENDS KeepAwake, TLAPS

-----------------------------------------------------------------------------
(***************************************************************************)
(* The inductive invariant.                                                *)
(***************************************************************************)
Applying(t) == task[t].at \in {"read", "prompt"}

\* What is restored at launch is "on".
ChecksToTurnOn == \A t \in Task : task[t].at = "check" => task[t].want = TRUE

\* The toggle, the assertion and the setting agree, or an error is shown.
Truth == /\ isEnabled = TRUE  => sleepDisabled = TRUE
         /\ isEnabled = FALSE => asserted = FALSE /\ (sleepDisabled = TRUE => lastError # "none")

OneTask == \A t, u \in Task : task[t].at # "idle" /\ task[u].at # "idle" => t = u

\* What an apply has read, or has had written, is still the setting; one that
\* turns off has released the assertion already.
ApplyKnows(t) ==
    /\ task[t].at = "read" /\ task[t].seen = "on"  => sleepDisabled = TRUE
    /\ task[t].at = "read" /\ task[t].seen = "off" => sleepDisabled = FALSE
    /\ task[t].at = "prompt" /\ task[t].seen \notin {"unread", "failed"} => sleepDisabled = task[t].want
    /\ Applying(t) /\ task[t].want = FALSE => asserted = FALSE

\* An apply that runs alone works on a truth nobody else changes.
Alone == alone = TRUE =>
             /\ OneTask
             /\ (\A t \in Task : ~Applying(t)) => Truth
             /\ \A t \in Task : ApplyKnows(t)

IInv == TypeOK /\ OnlyConfirmed /\ ChecksToTurnOn /\ Alone

-----------------------------------------------------------------------------
\* The records an await or an answer leaves are Task records.
LEMMA TaskRecUpdates ==
    /\ Idle \in TaskRec
    /\ \A at \in {"idle", "check", "start", "read", "prompt"}, want \in BOOLEAN :
           [at |-> at, want |-> want, seen |-> "unread"] \in TaskRec
    /\ \A r \in TaskRec, s \in {"unread", "on", "off", "failed"} : [r EXCEPT !.seen = s] \in TaskRec
    /\ \A b \in BOOLEAN : OnOff(b) \in {"on", "off"}
  BY DEF Idle, TaskRec, OnOff

\* A Task gives up the actor: where it is then, and that the others stay put.
LEMMA AwaitMoves ==
    ASSUME task \in [Task -> TaskRec], NEW t \in Task,
           NEW at \in {"check", "start", "read", "prompt"}, NEW want \in BOOLEAN,
           Await(t, at, want)
    PROVE  /\ task' \in [Task -> TaskRec]
           /\ task'[t].at = at /\ task'[t].want = want /\ task'[t].seen = "unread"
           /\ \A u \in Task \ {t} : task'[u] = task[u]
  BY TaskRecUpdates DEF Await

\* A process a Task awaits returns.
LEMMA SeenMoves ==
    ASSUME task \in [Task -> TaskRec], NEW t \in Task,
           NEW s \in {"unread", "on", "off", "failed"},
           task' = [task EXCEPT ![t].seen = s]
    PROVE  /\ task' \in [Task -> TaskRec]
           /\ task'[t].at = task[t].at /\ task'[t].want = task[t].want /\ task'[t].seen = s
           /\ \A u \in Task \ {t} : task'[u] = task[u]
<1>1. task[t] \in TaskRec /\ [task[t] EXCEPT !.seen = s] \in TaskRec
  BY TaskRecUpdates
<1>2. /\ task' \in [Task -> TaskRec] /\ task'[t] = [task[t] EXCEPT !.seen = s]
      /\ \A u \in Task \ {t} : task'[u] = task[u]
  BY <1>1
<1>3. QED
  BY <1>1, <1>2 DEF TaskRec

\* A Task ends.
LEMMA IdleMoves ==
    ASSUME task \in [Task -> TaskRec], NEW t \in Task, task' = [task EXCEPT ![t] = Idle]
    PROVE  /\ task' \in [Task -> TaskRec]
           /\ task'[t].at = "idle" /\ task'[t].want = FALSE /\ task'[t].seen = "unread"
           /\ \A u \in Task \ {t} : task'[u] = task[u]
  BY TaskRecUpdates DEF Idle

-----------------------------------------------------------------------------
\* At launch nothing is asked, nothing runs and the toggle shows what macOS says.
LEMMA InitIInv == Init => IInv
<1> SUFFICES ASSUME Init
             PROVE  IInv
  OBVIOUS
<1>1. /\ task \in [Task -> TaskRec]
      /\ \A t \in Task : task[t].at = "idle" /\ task[t].want = FALSE
  BY TaskRecUpdates DEF Init, Idle
<1>2. TypeOK
  BY <1>1 DEF Init, TypeOK
<1>3. OnlyConfirmed /\ ChecksToTurnOn
  BY <1>1 DEF Init, OnlyConfirmed, ChecksToTurnOn
<1>4. Alone
  BY <1>1 DEF Init, Alone, OneTask, Truth, Applying, ApplyKnows
<1>5. QED
  BY <1>2, <1>3, <1>4 DEF IInv

\* Starting a task keeps the invariant, provided one that turns sleep off was confirmed.
LEMMA BeginStep ==
    ASSUME IInv, NEW t \in Task, NEW want \in BOOLEAN, Begin(t, want),
           want = TRUE => confirmed = TRUE,
           UNCHANGED <<sleepDisabled, asking, confirmed>>
    PROVE  IInv'
<1>0. task \in [Task -> TaskRec] /\ Await(t, "read", want) /\ want \in {TRUE, FALSE}
  BY DEF IInv, TypeOK, Begin
<1>1. /\ task' \in [Task -> TaskRec]
      /\ task'[t].at = "read" /\ task'[t].want = want /\ task'[t].seen = "unread"
      /\ \A u \in Task \ {t} : task'[u] = task[u]
  BY <1>0, AwaitMoves
<1>2. /\ isApplying' = TRUE /\ lastError' = "none" /\ isEnabled' = isEnabled
      /\ asserted' \in BOOLEAN
      /\ want = FALSE => asserted' = FALSE
      /\ asserted' = TRUE => asserted = TRUE \/ want = TRUE
      /\ sleepDisabled' = sleepDisabled /\ asking' = asking /\ confirmed' = confirmed
      /\ alone' \in BOOLEAN
      /\ alone' = TRUE => \A u \in Task \ {t} : task[u].at = "idle"
  BY DEF Begin, IInv, TypeOK, Others
<1>3. TypeOK'
  BY <1>1, <1>2 DEF IInv, TypeOK
<1>4. OnlyConfirmed'
  BY <1>0, <1>1, <1>2 DEF IInv, TypeOK, OnlyConfirmed
<1>5. ChecksToTurnOn'
  BY <1>1 DEF IInv, ChecksToTurnOn
<1>6. Alone'
  BY <1>1, <1>2 DEF Alone, OneTask, Applying, ApplyKnows
<1>7. QED
  BY <1>3, <1>4, <1>5, <1>6 DEF IInv

\* Ending a task keeps the invariant, provided a lone one that succeeded left macOS as it asked.
LEMMA FinishStep ==
    ASSUME IInv, NEW t \in Task, Applying(t), NEW succeeded \in BOOLEAN, Finish(t, succeeded),
           succeeded = TRUE /\ alone = TRUE => sleepDisabled = task[t].want,
           UNCHANGED <<sleepDisabled, asking, confirmed, alone>>
    PROVE  IInv'
<1>0. /\ task \in [Task -> TaskRec] /\ task' = [task EXCEPT ![t] = Idle]
      /\ task[t].want \in BOOLEAN
  BY DEF IInv, TypeOK, Finish, TaskRec
<1>1. /\ task' \in [Task -> TaskRec]
      /\ task'[t].at = "idle" /\ task'[t].want = FALSE
      /\ \A u \in Task \ {t} : task'[u] = task[u]
  BY <1>0, IdleMoves
<1>2. /\ isApplying' = FALSE
      /\ isEnabled' \in BOOLEAN /\ asserted' \in BOOLEAN
      /\ lastError' \in {"none", "declined", "notRestored"}
      /\ isEnabled' = TRUE => task[t].want = TRUE /\ succeeded = TRUE
      /\ isEnabled' = FALSE => task[t].want = FALSE \/ succeeded = FALSE
      /\ asserted' = TRUE => asserted = TRUE
      /\ task[t].want = TRUE /\ succeeded = FALSE => asserted' = FALSE
      /\ succeeded = FALSE => lastError' # "none"
      /\ sleepDisabled' = sleepDisabled /\ asking' = asking /\ confirmed' = confirmed
      /\ alone' = alone
  BY <1>0 DEF Finish, Shown, Unlocks, IInv, TypeOK
<1>3. TypeOK'
  BY <1>1, <1>2 DEF IInv, TypeOK
<1>4. OnlyConfirmed'
  BY <1>0, <1>1, <1>2 DEF IInv, TypeOK, OnlyConfirmed
<1>5. ChecksToTurnOn'
  BY <1>1 DEF IInv, ChecksToTurnOn
<1>6. ASSUME alone = TRUE
      PROVE  Truth'
  <2>1. /\ succeeded = TRUE => sleepDisabled = task[t].want
        /\ task[t].want = FALSE => asserted = FALSE
        /\ asserted \in BOOLEAN /\ sleepDisabled \in BOOLEAN
    BY <1>6 DEF IInv, TypeOK, Alone, ApplyKnows
  <2>2. QED
    BY <1>0, <1>2, <2>1 DEF Truth
<1>7. ASSUME alone = TRUE
      PROVE  \A u \in Task : task'[u].at = "idle"
  BY <1>1, <1>7 DEF IInv, Alone, OneTask, Applying
<1>8. Alone'
  BY <1>2, <1>6, <1>7 DEF Alone, OneTask, Applying, ApplyKnows
<1>9. QED
  BY <1>3, <1>4, <1>5, <1>8 DEF IInv

\* A Task begins: what is shown does not change, and another one that runs
\* makes it that neither runs alone.
LEMMA StartStep ==
    ASSUME IInv, NEW t \in Task, task[t] = Idle,
           NEW at \in {"check", "start"}, NEW want \in BOOLEAN, Await(t, at, want),
           at = "check" => want = TRUE /\ isEnabled = TRUE,
           want = TRUE => confirmed' = TRUE,
           alone' = (alone /\ ~Others(t)),
           asserted' = asserted \/ (at = "check" /\ asserted' = TRUE),
           asking' \in BOOLEAN, confirmed' = confirmed \/ confirmed' = TRUE,
           UNCHANGED <<isEnabled, isApplying, lastError, sleepDisabled>>
    PROVE  IInv'
<1>0. /\ task \in [Task -> TaskRec] /\ task[t].at = "idle"
      /\ asserted' \in BOOLEAN /\ confirmed' \in BOOLEAN
  <2>1. task \in [Task -> TaskRec] /\ asserted \in BOOLEAN /\ confirmed \in BOOLEAN
    BY DEF IInv, TypeOK
  <2>2. task[t].at = "idle"
    BY DEF Idle
  <2>3. QED
    BY <2>1, <2>2
<1>1. /\ task' \in [Task -> TaskRec]
      /\ task'[t].at = at /\ task'[t].want = want /\ task'[t].seen = "unread"
      /\ \A u \in Task \ {t} : task'[u] = task[u]
  BY <1>0, AwaitMoves
<1>2. /\ alone' \in BOOLEAN
      /\ alone' = TRUE => alone = TRUE /\ \A u \in Task \ {t} : task[u].at = "idle"
  BY DEF IInv, TypeOK, Others
<1>3. TypeOK'
  BY <1>0, <1>1, <1>2 DEF IInv, TypeOK
<1>4. confirmed = TRUE => confirmed' = TRUE
  OBVIOUS
<1>5. OnlyConfirmed'
  BY <1>0, <1>1, <1>4 DEF IInv, TypeOK, OnlyConfirmed
<1>6. ChecksToTurnOn'
  BY <1>1 DEF IInv, ChecksToTurnOn
<1>7. ASSUME alone' = TRUE
      PROVE  Truth'
  BY <1>0, <1>2, <1>7 DEF IInv, Alone, Applying, Truth
<1>8. Alone'
  BY <1>0, <1>1, <1>2, <1>7 DEF Alone, OneTask, Applying, ApplyKnows
<1>9. QED
  BY <1>3, <1>5, <1>6, <1>8 DEF IInv

\* Every step keeps the invariant.
LEMMA NextIInv == IInv /\ [Next]_vars => IInv'
<1> SUFFICES ASSUME IInv, [Next]_vars
             PROVE  IInv'
  OBVIOUS
<1>0. /\ TypeOK /\ OnlyConfirmed /\ ChecksToTurnOn /\ Alone
      /\ task \in [Task -> TaskRec]
      /\ \A t \in Task : task[t] \in TaskRec /\ task[t].want \in BOOLEAN
  BY DEF IInv, TypeOK, TaskRec
<1>1. CASE AskToTurnOn \/ Cancel \/ UNCHANGED vars
  <2>1. /\ UNCHANGED <<isEnabled, isApplying, lastError, asserted, sleepDisabled, task, confirmed, alone>>
        /\ asking' \in BOOLEAN
    BY <1>0, <1>1 DEF AskToTurnOn, Cancel, vars, app, TypeOK
  <2>2. TypeOK' /\ OnlyConfirmed' /\ ChecksToTurnOn'
    BY <1>0, <2>1 DEF TypeOK, OnlyConfirmed, ChecksToTurnOn
  <2>3. Alone'
    BY <1>0, <2>1 DEF Alone, OneTask, Truth, Applying, ApplyKnows
  <2>4. QED
    BY <2>2, <2>3 DEF IInv
<1>2. ASSUME NEW t \in Task, MenuOpens(t)
      PROVE  IInv'
  <2>1. isEnabled = TRUE /\ confirmed' = TRUE
    BY <1>0, <1>2 DEF MenuOpens, Restores, OnlyConfirmed, TypeOK
  <2>2. QED
    BY <1>0, <1>2, <2>1, StartStep DEF MenuOpens, TypeOK
<1>3. ASSUME NEW t \in Task, TurnOn(t)
      PROVE  IInv'
  BY <1>3, StartStep DEF TurnOn, SetEnabled, app
<1>4. ASSUME NEW t \in Task, TurnOff(t)
      PROVE  IInv'
  BY <1>0, <1>4, StartStep DEF TurnOff, SetEnabled, app, TypeOK
<1>5. ASSUME NEW t \in Task, PmsetReads(t)
      PROVE  IInv'
  <2>1. PICK s \in {OnOff(sleepDisabled), "failed"} : task' = [task EXCEPT ![t].seen = s]
    BY <1>5 DEF PmsetReads
  <2>2. /\ s \in {"unread", "on", "off", "failed"}
        /\ s = "on" => sleepDisabled = TRUE
        /\ s = "off" => sleepDisabled = FALSE
    BY <1>0, <2>1 DEF OnOff, TypeOK
  <2>3. /\ task' \in [Task -> TaskRec]
        /\ task'[t].at = task[t].at /\ task'[t].want = task[t].want /\ task'[t].seen = s
        /\ \A u \in Task \ {t} : task'[u] = task[u]
    BY <1>0, <2>1, <2>2, SeenMoves
  <2>4. /\ task[t].at # "prompt"
        /\ UNCHANGED <<isEnabled, isApplying, lastError, asserted, sleepDisabled, asking, confirmed, alone>>
    BY <1>5 DEF PmsetReads, app
  <2>5. TypeOK' /\ OnlyConfirmed' /\ ChecksToTurnOn'
    BY <1>0, <2>3, <2>4 DEF TypeOK, OnlyConfirmed, ChecksToTurnOn
  <2>6. Alone'
    BY <1>0, <2>2, <2>3, <2>4 DEF Alone, OneTask, Truth, Applying, ApplyKnows
  <2>7. QED
    BY <2>5, <2>6 DEF IInv
<1>6. ASSUME NEW t \in Task, Checked(t)
      PROVE  IInv'
  <2>1. CASE task[t].seen # "on"
    <3>1. confirmed = TRUE
      BY <1>0, <1>6 DEF Checked, ChecksToTurnOn, OnlyConfirmed, TypeOK
    <3>2. QED
      BY <1>6, <2>1, <3>1, BeginStep DEF Checked
  <2>2. CASE task[t].seen = "on"
    <3>1. /\ task[t].at = "check" /\ task' = [task EXCEPT ![t] = Idle]
          /\ UNCHANGED <<isEnabled, isApplying, lastError, asserted, sleepDisabled, asking, confirmed, alone>>
      BY <1>6, <2>2 DEF Checked, app
    <3>2. /\ task' \in [Task -> TaskRec]
          /\ task'[t].at = "idle" /\ task'[t].want = FALSE
          /\ \A u \in Task \ {t} : task'[u] = task[u]
      BY <1>0, <3>1, IdleMoves
    <3>3. TypeOK' /\ OnlyConfirmed' /\ ChecksToTurnOn'
      BY <1>0, <3>1, <3>2 DEF TypeOK, OnlyConfirmed, ChecksToTurnOn
    <3>4. Alone'
      BY <1>0, <3>1, <3>2 DEF Alone, OneTask, Truth, Applying, ApplyKnows
    <3>5. QED
      BY <3>3, <3>4 DEF IInv
  <2>3. QED
    BY <2>1, <2>2
<1>7. ASSUME NEW t \in Task, Starts(t)
      PROVE  IInv'
  <2>1. task[t].want = TRUE => confirmed = TRUE
    BY <1>0 DEF OnlyConfirmed, TypeOK
  <2>2. QED
    BY <1>0, <1>7, <2>1, BeginStep DEF Starts
<1>8. ASSUME NEW t \in Task, InPlace(t)
      PROVE  IInv'
  <2>1. alone = TRUE => sleepDisabled = task[t].want
    BY <1>0, <1>8 DEF InPlace, OnOff, Alone, ApplyKnows, TypeOK
  <2>2. QED
    BY <1>8, <2>1, FinishStep DEF InPlace, Applying
<1>9. ASSUME NEW t \in Task, Prompts(t)
      PROVE  IInv'
  <2>1. /\ task[t].at = "read" /\ Await(t, "prompt", task[t].want)
        /\ UNCHANGED <<isEnabled, isApplying, lastError, asserted, sleepDisabled, asking, confirmed, alone>>
    BY <1>9 DEF Prompts, app
  <2>2. /\ task' \in [Task -> TaskRec]
        /\ task'[t].at = "prompt" /\ task'[t].want = task[t].want /\ task'[t].seen = "unread"
        /\ \A u \in Task \ {t} : task'[u] = task[u]
    BY <1>0, <2>1, AwaitMoves
  <2>3. TypeOK' /\ OnlyConfirmed' /\ ChecksToTurnOn'
    BY <1>0, <2>1, <2>2 DEF TypeOK, OnlyConfirmed, ChecksToTurnOn
  <2>4. Alone'
    BY <1>0, <2>1, <2>2 DEF Alone, OneTask, Truth, Applying, ApplyKnows
  <2>5. QED
    BY <2>3, <2>4 DEF IInv
<1>10. ASSUME NEW t \in Task, Answered(t)
       PROVE  IInv'
  <2>1. PICK s \in {OnOff(task[t].want), "failed"} :
            /\ task' = [task EXCEPT ![t].seen = s]
            /\ IF s = "failed" THEN sleepDisabled' = sleepDisabled ELSE sleepDisabled' = task[t].want
    BY <1>10 DEF Answered, OnOff
  <2>2. s \in {"unread", "on", "off", "failed"}
    BY <1>0, <2>1, TaskRecUpdates
  <2>3. /\ task' \in [Task -> TaskRec]
        /\ task'[t].at = task[t].at /\ task'[t].want = task[t].want /\ task'[t].seen = s
        /\ \A u \in Task \ {t} : task'[u] = task[u]
    BY <1>0, <2>1, <2>2, SeenMoves
  <2>4. /\ task[t].at = "prompt" /\ sleepDisabled' \in BOOLEAN
        /\ UNCHANGED <<isEnabled, isApplying, lastError, asserted, asking, confirmed, alone>>
    BY <1>0, <1>10, <2>1 DEF Answered, app, TypeOK
  <2>5. TypeOK' /\ OnlyConfirmed' /\ ChecksToTurnOn'
    BY <1>0, <2>3, <2>4 DEF TypeOK, OnlyConfirmed, ChecksToTurnOn
  <2>6. Alone'
    BY <1>0, <2>1, <2>3, <2>4 DEF Alone, OneTask, Truth, Applying, ApplyKnows
  <2>7. QED
    BY <2>5, <2>6 DEF IInv
<1>11. ASSUME NEW t \in Task, Applied(t)
       PROVE  IInv'
  <2>1. task[t].seen # "failed" /\ alone = TRUE => sleepDisabled = task[t].want
    BY <1>0, <1>11 DEF Applied, Alone, ApplyKnows
  <2>2. QED
    BY <1>11, <2>1, FinishStep DEF Applied, Applying
<1>12. CASE Relaunch
  <2>1. /\ isApplying' = FALSE /\ lastError' = "none" /\ asserted' = FALSE /\ asking' = FALSE
        /\ \A t \in Task : task'[t] = Idle
        /\ task' \in [Task -> TaskRec]
        /\ alone' = FALSE /\ isEnabled' = isEnabled /\ confirmed' = confirmed
        /\ sleepDisabled' \in BOOLEAN
    BY <1>0, <1>12, TaskRecUpdates DEF Relaunch, TypeOK
  <2>2. \A t \in Task : task'[t].at = "idle" /\ task'[t].want = FALSE
    BY <2>1 DEF Idle
  <2>3. TypeOK'
    BY <1>0, <2>1 DEF TypeOK
  <2>4. OnlyConfirmed' /\ ChecksToTurnOn' /\ Alone'
    BY <1>0, <2>1, <2>2 DEF OnlyConfirmed, ChecksToTurnOn, Alone
  <2>5. QED
    BY <2>3, <2>4 DEF IInv
<1>13. CASE Changed
  BY <1>0, <1>13 DEF Changed, app, IInv, TypeOK, OnlyConfirmed, ChecksToTurnOn, Alone
<1>14. QED
  BY <1>1, <1>2, <1>3, <1>4, <1>5, <1>6, <1>7, <1>8, <1>9, <1>10, <1>11, <1>12, <1>13 DEF Next

-----------------------------------------------------------------------------
\* The inductive invariant holds throughout, however many Tasks overlap.
THEOREM Invariance == Spec => []IInv
  BY InitIInv, NextIInv, PTL DEF Spec

\* The variables keep their types, and the toggle is disabled only while an
\* apply is running: no way through apply leaves it locked.
THEOREM TypeCorrect == Spec => []TypeOK
<1>1. IInv => TypeOK
  BY DEF IInv
<1>2. QED
  BY <1>1, Invariance, PTL

\* Nothing keeps the Mac awake that was not confirmed once, over restarts, what
\* the menu restores, and Tasks that overlap.
THEOREM AlwaysConfirmed == Spec => []OnlyConfirmed
<1>1. IInv => OnlyConfirmed
  BY DEF IInv
<1>2. QED
  BY <1>1, Invariance, PTL

\* A declined, failed or stale answer never leaves the toggle showing what is
\* not so, as long as the apply it belongs to ran alone.
THEOREM ToggleIsTrue == Spec => []ToggleTellsTruth
<1>1. IInv => ToggleTellsTruth
  BY DEF IInv, TypeOK, Alone, Applying, Truth, Settled, AtRest, ToggleTellsTruth
<1>2. QED
  BY <1>1, Invariance, PTL

=============================================================================
