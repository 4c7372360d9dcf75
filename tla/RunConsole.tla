----------------------------- MODULE RunConsole -----------------------------
(***************************************************************************)
(* Running a workflow from the editor's page and watching it: Run saves a  *)
(* changed workflow, creates a run and asks for its status every second,   *)
(* until the run is over, a poll fails or the run is canceled.  Answers    *)
(* arrive in any order, a slow poll is overtaken by the next one, and all  *)
(* of it goes on when the page is left.                                    *)
(*                                                                         *)
(* Sources: frontend features/test-workflow-editor/model/                  *)
(* use-run-workflow.ts, page/dashboard-tests, widgets.  The server's side  *)
(* of a run is TestWorkflowRun; here a run is active, then over.           *)
(***************************************************************************)
EXTENDS Naturals

CONSTANTS MaxRuns,  \* bound: presses of Run
          Polls     \* polls of one run under way at a time

ASSUME MaxRunsAssumption == MaxRuns \in Nat

Runs == 1..MaxRuns
NoRun == 0
\* Succeeded, failed or canceled: nothing here tells them apart.
Over == {"over"}

VARIABLES start,       \* how far each press of Run is
          runRow,      \* the server's run of each press
          intervals,   \* runs an interval asks about every second
          pollTimer,   \* pollTimerRef: the run of the interval that can be cleared
          poll,        \* polls of each run
          cancelCall,  \* cancel requests
          mounted,     \* the page is open
          running, currentRun, shown  \* running, currentRunId, runStatus of the editor

consoleVars == <<start, runRow, intervals, pollTimer, poll, cancelCall, mounted, running, currentRun, shown>>
consoleView == <<running, currentRun, shown>>
------------------------------------------------------------------------------
\* RUN_FINISH.
RunFinish == running' = FALSE /\ UNCHANGED <<currentRun, shown>>

\* LOAD_WORKFLOW and SAVE_SUCCESS forget the run, not its interval.
ForgetRun == running' = FALSE /\ currentRun' = NoRun /\ shown' = NoRun

ClearTimer == intervals' = intervals \ {pollTimer} /\ pollTimer' = NoRun

\* Mutant: the button is left as it is.
StopPollingSilent == ClearTimer /\ UNCHANGED running

\* stopPolling clears the interval of the ref, whichever run it is about.
StopPolling == ClearTimer /\ running' = FALSE

\* The Run button; the save is skipped when nothing was changed.
HandleRun(r) ==
    /\ mounted /\ ~running
    /\ start[r] = "none" /\ \A q \in Runs : q < r => start[q] # "none"
    /\ \E stage \in {"saving", "creating"} : start' = [start EXCEPT ![r] = stage]
    /\ UNCHANGED <<runRow, intervals, pollTimer, poll, cancelCall, mounted, consoleView>>

\* The save of Run, or one of the Save button, loads what was saved.
SaveAnswered(r) ==
    /\ start[r] = "saving"
    /\ \/ start' = [start EXCEPT ![r] = "creating"] /\ ForgetRun
       \/ start' = [start EXCEPT ![r] = "done"] /\ UNCHANGED consoleView
    /\ UNCHANGED <<runRow, intervals, pollTimer, poll, cancelCall, mounted>>

PageSaved ==
    /\ mounted /\ ForgetRun
    /\ UNCHANGED <<start, runRow, intervals, pollTimer, poll, cancelCall, mounted>>

\* createRun persists the run; the answer may still be lost.
CreateRun(r) ==
    /\ start[r] = "creating" /\ runRow[r] = "none"
    /\ runRow' = [runRow EXCEPT ![r] = "active"]
    /\ UNCHANGED <<start, intervals, pollTimer, poll, cancelCall, mounted, consoleView>>

\* RUN_START, and an interval in the place of the one there was.
RunStart(r) ==
    /\ start[r] = "creating" /\ runRow[r] # "none"
    /\ start' = [start EXCEPT ![r] = "done"]
    /\ running' = mounted /\ currentRun' = IF mounted THEN r ELSE NoRun
    /\ shown' = NoRun
    /\ intervals' = (intervals \ {pollTimer}) \union {r} /\ pollTimer' = r
    /\ UNCHANGED <<runRow, poll, cancelCall, mounted>>

\* Refused by the rate limit or a validation, or failed.
CreateFails(r) ==
    /\ start[r] = "creating"
    /\ start' = [start EXCEPT ![r] = "done"]
    /\ RunFinish
    /\ UNCHANGED <<runRow, intervals, pollTimer, poll, cancelCall, mounted>>

\* The runner ends the run.
RunEnds(r) ==
    /\ runRow[r] = "active"
    /\ \E status \in Over : runRow' = [runRow EXCEPT ![r] = status]
    /\ UNCHANGED <<start, intervals, pollTimer, poll, cancelCall, mounted, consoleView>>
------------------------------------------------------------------------------
\* The interval fires, whether or not the poll before was answered.
Tick(r, p) ==
    /\ r \in intervals /\ poll[r][p] = "idle"
    /\ poll' = [poll EXCEPT ![r][p] = "asked"]
    /\ UNCHANGED <<start, runRow, intervals, pollTimer, cancelCall, mounted, consoleView>>

GetRun(r, p) ==
    /\ poll[r][p] = "asked"
    /\ \E answer \in {runRow[r], "error"} : poll' = [poll EXCEPT ![r][p] = answer]
    /\ UNCHANGED <<start, runRow, intervals, pollTimer, cancelCall, mounted, consoleView>>

\* RUN_UPDATE shows the run of the poll; a status that is over, or an error, stops the polling.
PollAnswered(r, p) ==
    /\ poll[r][p] \in Over \union {"active", "error"}
    /\ poll' = [poll EXCEPT ![r][p] = "idle"]
    /\ IF poll[r][p] = "error" THEN UNCHANGED shown ELSE shown' = IF mounted THEN r ELSE NoRun
    /\ IF poll[r][p] = "active" THEN UNCHANGED <<intervals, pollTimer, running>> ELSE StopPolling
    /\ UNCHANGED <<start, runRow, cancelCall, mounted, currentRun>>

\* The Cancel button asks for the run of the moment; a run that is over refuses.
HandleCancel ==
    /\ mounted /\ running /\ currentRun # NoRun
    /\ cancelCall' = cancelCall \union {currentRun}
    /\ UNCHANGED <<start, runRow, intervals, pollTimer, poll, mounted, consoleView>>

CancelAnswered(r) ==
    /\ r \in cancelCall
    /\ cancelCall' = cancelCall \ {r}
    /\ \/ runRow[r] = "active" /\ StopPolling
       \/ UNCHANGED <<intervals, pollTimer, running>>
    /\ UNCHANGED <<start, runRow, poll, mounted, currentRun, shown>>

\* The panel's close button.
CloseConsole ==
    /\ mounted /\ RunFinish
    /\ UNCHANGED <<start, runRow, intervals, pollTimer, poll, cancelCall, mounted>>

\* Another page: no effect clears the interval.
LeavePage ==
    /\ mounted /\ mounted' = FALSE
    /\ ForgetRun
    /\ UNCHANGED <<start, runRow, intervals, pollTimer, poll, cancelCall>>
------------------------------------------------------------------------------
ConsoleInit ==
    /\ start = [r \in Runs |-> "none"] /\ runRow = [r \in Runs |-> "none"]
    /\ intervals = {} /\ pollTimer = NoRun
    /\ poll = [r \in Runs |-> [p \in Polls |-> "idle"]]
    /\ cancelCall = {} /\ mounted = TRUE
    /\ running = FALSE /\ currentRun = NoRun /\ shown = NoRun

ConsoleNext ==
    \/ \E r \in Runs : \/ HandleRun(r) \/ SaveAnswered(r) \/ CreateRun(r) \/ RunStart(r) \/ CreateFails(r)
                       \/ RunEnds(r) \/ CancelAnswered(r)
                       \/ \E p \in Polls : Tick(r, p) \/ GetRun(r, p) \/ PollAnswered(r, p)
    \/ PageSaved \/ HandleCancel \/ CloseConsole \/ LeavePage

ConsoleSpec == ConsoleInit /\ [][ConsoleNext]_consoleVars
------------------------------------------------------------------------------
(* Every variable stays in its range. *)
ConsoleTypeOK ==
    /\ start \in [Runs -> {"none", "saving", "creating", "done"}]
    /\ runRow \in [Runs -> {"none", "active"} \union Over]
    /\ intervals \subseteq Runs /\ pollTimer \in Runs \union {NoRun}
    /\ poll \in [Runs -> [Polls -> {"idle", "asked", "active", "error"} \union Over]]
    /\ cancelCall \subseteq Runs /\ mounted \in BOOLEAN
    /\ running \in BOOLEAN /\ currentRun \in Runs \union {NoRun} /\ shown \in Runs \union {NoRun}

(* While the button offers to cancel a run, that run is the one the page asks about, and no
   interval is left behind that nothing can clear, however presses of Run, saves, polls of
   earlier runs and cancels overtake each other (use-run-workflow.ts:17-23, 50-78). *)
RunningIsPolled ==
    /\ running => currentRun \in intervals
    /\ intervals \subseteq {pollTimer}
=============================================================================
