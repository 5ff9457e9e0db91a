----------------------------- MODULE KeepAwake -----------------------------
(***************************************************************************)
(* KeepAwakeManager (apps/mac/RemoteMac/App/KeepAwakeManager.swift) and    *)
(* the toggle that drives it (UI/Settings/SettingsView.swift): the         *)
(* idle-sleep assertion of this process, the system-wide SleepDisabled     *)
(* setting that pmset reads and an administrator writes, and the stored    *)
(* preference the toggle shows.                                            *)
(*                                                                         *)
(* Every Task runs on the main actor and gives it up at each await; its    *)
(* result waits while other Tasks and the user go on.  isEnabled and the   *)
(* stored preference are always written together and are one variable.     *)
(***************************************************************************)
CONSTANTS
    Task,      \* Tasks that may be under way at once
    MayQuit,   \* whether the app may quit or crash and be opened again
    MayChange  \* whether something else may change the system-wide setting

ASSUME FlagAssumption == {MayQuit, MayChange} \subseteq BOOLEAN

VARIABLES
    isEnabled,      \* the toggle and the stored preference
    isApplying,     \* disables the toggle
    lastError,      \* what is shown below it
    asserted,       \* hasIdleSleepAssertion
    sleepDisabled,  \* the system-wide setting: no sleep, lid closed or not
    asking,         \* the confirmation dialog is open
    task,           \* task[t]: a Task
    confirmed,      \* history: the user once chose "Turn On"
    alone           \* history: see Settled

app  == <<isEnabled, isApplying, lastError, asserted>>
vars == <<app, sleepDisabled, asking, task, confirmed, alone>>

(***************************************************************************)
(* at: "check" awaits pmset in restoreOnLaunch, "start" is setEnabled's    *)
(* Task before it runs, "read" and "prompt" await pmset and osascript in   *)
(* apply(enabled: want).  seen is what the process returned.               *)
(***************************************************************************)
Idle    == [at |-> "idle", want |-> FALSE, seen |-> "unread"]
TaskRec == [at : {"idle", "check", "start", "read", "prompt"}, want : BOOLEAN,
            seen : {"unread", "on", "off", "failed"}]

Init ==
    /\ isEnabled     = FALSE
    /\ isApplying    = FALSE
    /\ lastError     = "none"
    /\ asserted      = FALSE
    /\ sleepDisabled = FALSE
    /\ asking        = FALSE
    /\ task          = [t \in Task |-> Idle]
    /\ confirmed     = FALSE
    /\ alone         = TRUE

OnOff(b) == IF b THEN "on" ELSE "off"
Await(t, at, want) == task' = [task EXCEPT ![t] = [at |-> at, want |-> want, seen |-> "unread"]]

Others(t) == \E u \in Task \ {t} : task[u].at # "idle"

-----------------------------------------------------------------------------
(***************************************************************************)
(* The user.                                                               *)
(***************************************************************************)

\* Mutant: restoreOnLaunch does not look at the preference.
RestoresAlways == TRUE

\* guard isEnabled
Restores == isEnabled

\* restoreOnLaunch: the menu's content is built again each time it is opened.
MenuOpens(t) ==
    /\ Restores
    /\ task[t] = Idle
    /\ asserted' \in {asserted, TRUE}           \* the system may refuse it
    /\ Await(t, "check", TRUE)
    /\ alone' = (alone /\ ~Others(t))
    /\ UNCHANGED <<isEnabled, isApplying, lastError, sleepDisabled, asking, confirmed>>

\* The toggle is switched on: a dialog warns first.
AskToTurnOn ==
    /\ ~isApplying
    /\ ~isEnabled
    /\ asking' = TRUE
    /\ UNCHANGED <<app, sleepDisabled, task, confirmed, alone>>

Cancel ==
    /\ asking
    /\ asking' = FALSE
    /\ UNCHANGED <<app, sleepDisabled, task, confirmed, alone>>

SetEnabled(t, want) ==
    /\ task[t] = Idle
    /\ Await(t, "start", want)
    /\ alone' = (alone /\ ~Others(t))
    /\ UNCHANGED <<app, sleepDisabled>>

TurnOn(t) ==
    /\ asking
    /\ asking' = FALSE
    /\ confirmed' = TRUE
    /\ SetEnabled(t, TRUE)

TurnOff(t) ==
    /\ ~isApplying
    /\ isEnabled
    /\ SetEnabled(t, FALSE)
    /\ UNCHANGED <<asking, confirmed>>

-----------------------------------------------------------------------------
(***************************************************************************)
(* The Tasks.                                                              *)
(***************************************************************************)

\* apply(enabled:) up to its first await.
Begin(t, want) ==
    /\ isApplying' = TRUE
    /\ lastError' = "none"
    /\ asserted' \in IF want THEN {asserted, TRUE} ELSE {FALSE}
    /\ Await(t, "read", want)
    /\ alone' = ~Others(t)
    /\ UNCHANGED isEnabled

\* pmset -g prints the setting, or fails.
PmsetReads(t) ==
    /\ task[t].at \in {"check", "read"}
    /\ task[t].seen = "unread"
    /\ \E s \in {OnOff(sleepDisabled), "failed"} : task' = [task EXCEPT ![t].seen = s]
    /\ UNCHANGED <<app, sleepDisabled, asking, confirmed, alone>>

\* restoreOnLaunch goes on: nothing to do if the setting is on.
Checked(t) ==
    /\ task[t].at = "check"
    /\ task[t].seen # "unread"
    /\ IF task[t].seen = "on"
       THEN /\ task' = [task EXCEPT ![t] = Idle]
            /\ UNCHANGED <<app, alone>>
       ELSE Begin(t, TRUE)
    /\ UNCHANGED <<sleepDisabled, asking, confirmed>>

\* setEnabled's Task runs.
Starts(t) ==
    /\ task[t].at = "start"
    /\ Begin(t, task[t].want)
    /\ UNCHANGED <<sleepDisabled, asking, confirmed>>

\* Mutant: a declined prompt leaves the toggle on.
OnRegardless(want, succeeded) == want

\* What the toggle shows when an apply ends.
Shown(want, succeeded) == want /\ succeeded

\* Mutant: the return after a failed prompt forgets isApplying.
LocksOnFailure(want, succeeded) == want /\ ~succeeded

\* What an apply leaves in isApplying, on each of its returns.
Unlocks(want, succeeded) == FALSE

\* The end of apply.
Finish(t, succeeded) ==
    LET want == task[t].want IN
    /\ isEnabled' = Shown(want, succeeded)
    /\ isApplying' = Unlocks(want, succeeded)
    /\ asserted' = IF want /\ ~succeeded THEN FALSE ELSE asserted
    /\ lastError' = IF succeeded THEN lastError ELSE IF want THEN "declined" ELSE "notRestored"
    /\ task' = [task EXCEPT ![t] = Idle]

\* current == enabled: no prompt is needed.
InPlace(t) ==
    /\ task[t].at = "read"
    /\ task[t].seen = OnOff(task[t].want)
    /\ Finish(t, TRUE)
    /\ UNCHANGED <<sleepDisabled, asking, confirmed, alone>>

Prompts(t) ==
    /\ task[t].at = "read"
    /\ task[t].seen \notin {"unread", OnOff(task[t].want)}
    /\ Await(t, "prompt", task[t].want)
    /\ UNCHANGED <<app, sleepDisabled, asking, confirmed, alone>>

\* The administrator agrees and pmset writes the setting, or osascript fails.
Answered(t) ==
    /\ task[t].at = "prompt"
    /\ task[t].seen = "unread"
    /\ \/ /\ sleepDisabled' = task[t].want
          /\ task' = [task EXCEPT ![t].seen = OnOff(task[t].want)]
       \/ /\ task' = [task EXCEPT ![t].seen = "failed"]
          /\ UNCHANGED sleepDisabled
    /\ UNCHANGED <<app, asking, confirmed, alone>>

Applied(t) ==
    /\ task[t].at = "prompt"
    /\ task[t].seen # "unread"
    /\ Finish(t, task[t].seen # "failed")
    /\ UNCHANGED <<sleepDisabled, asking, confirmed, alone>>

-----------------------------------------------------------------------------
(***************************************************************************)
(* The surroundings.                                                       *)
(***************************************************************************)

\* The app quits or crashes, which releases its assertion, and is opened again.
\* A prompt it has left behind may still be answered.
Relaunch ==
    /\ MayQuit
    /\ isApplying' = FALSE
    /\ lastError' = "none"
    /\ asserted' = FALSE
    /\ asking' = FALSE
    /\ task' = [t \in Task |-> Idle]
    /\ sleepDisabled' \in {sleepDisabled} \cup {task[t].want : t \in {u \in Task : task[u].at = "prompt"}}
    /\ alone' = FALSE
    /\ UNCHANGED <<isEnabled, confirmed>>

\* Something else, a user in Terminal for one, runs pmset.
Changed ==
    /\ MayChange
    /\ sleepDisabled' = ~sleepDisabled
    /\ alone' = FALSE
    /\ UNCHANGED <<app, asking, task, confirmed>>

Next ==
    \/ AskToTurnOn
    \/ Cancel
    \/ \E t \in Task : MenuOpens(t)
    \/ \E t \in Task : TurnOn(t)
    \/ \E t \in Task : TurnOff(t)
    \/ \E t \in Task : PmsetReads(t)
    \/ \E t \in Task : Checked(t)
    \/ \E t \in Task : Starts(t)
    \/ \E t \in Task : InPlace(t)
    \/ \E t \in Task : Prompts(t)
    \/ \E t \in Task : Answered(t)
    \/ \E t \in Task : Applied(t)
    \/ Relaunch
    \/ Changed

Spec == Init /\ [][Next]_vars

-----------------------------------------------------------------------------
(***************************************************************************)
(* Properties.                                                             *)
(***************************************************************************)

\* The type invariant; the toggle is disabled only while an apply is running.
TypeOK ==
    /\ {isEnabled, isApplying, asserted, sleepDisabled, asking, confirmed, alone} \subseteq BOOLEAN
    /\ lastError \in {"none", "declined", "notRestored"}
    /\ task \in [Task -> TaskRec]
    /\ isApplying => \E t \in Task : task[t].at \in {"read", "prompt"}

AtRest == \A t \in Task : task[t].at = "idle"

\* Nothing is under way, the last apply ran alone, and the app was neither
\* relaunched nor the setting changed by another since.
Settled == AtRest /\ alone

\* A declined, failed or stale answer never leaves "the toggle showing on for a
\* lid-close protection that isn't actually in effect", and an off toggle leaves
\* neither the assertion nor, unless an error is shown, the system-wide setting.
ToggleTellsTruth ==
    Settled => /\ isEnabled  => sleepDisabled
               /\ ~isEnabled => ~asserted /\ (sleepDisabled => lastError # "none")

\* The toggle is on only if the user once confirmed the warning, over restarts
\* and whatever the menu restores ("this class only carries out what's already
\* been confirmed").
OnlyConfirmed ==
    isEnabled \/ asserted \/ (\E t \in Task : task[t].want) => confirmed

=============================================================================
