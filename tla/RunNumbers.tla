----------------------------- MODULE RunNumbers -----------------------------
(***************************************************************************)
(* The number of a run on its way through the configuration: the file      *)
(* babyMIND-config.json, the document that is loaded from it and saved to  *)
(* it, and the recorder of the event builder.  The program is started      *)
(* again when it has ended, or has been killed; of all that it knew only   *)
(* the file is left.  (The variables of RunControl are those of the        *)
(* program that runs: what a killed one has left on the boards is not      *)
(* followed.)                                                              *)
(*                                                                         *)
(* The recorder is not in the repository.  Of it is assumed that at the    *)
(* end of a run it goes on to the next number and notes it in the          *)
(* document: BMDStateMachine.cpp:329 takes its number less one for the     *)
(* last run's, and 185-188 saves the document "to store the number of the  *)
(* last run".  Numbers are those of the next run.                          *)
(*                                                                         *)
(* updateBMConfig is not in the repository either.  Idle gives it the path *)
(* that loadBMConfig is given, FatalError gives it none: that it takes the *)
(* same file then is the assumption SamePath.  Where it does not, the      *)
(* numbers of the runs before a fatal error come again.                    *)
(***************************************************************************)
EXTENDS RunControl

CONSTANTS
  SamePath,  \* whether updateBMConfig() writes the file that is loaded
  MaxRuns    \* the highest number a run gets (a bound)

ASSUME SamePathAssumption == SamePath \in BOOLEAN
ASSUME RunsAssumption == MaxRuns \in Nat

VARIABLES
  file,      \* RunNumber in the file
  doc,       \* bm_config_doc_["RunNumber"]
  recorder,  \* run_num of the recorder
  used       \* history: the last number a run had and that may not come again

numbers == <<file, doc, recorder, used>>
allVars == <<vars, numbers>>

\* What asInt() makes of a member that is not there.
NoNumber == 0

\* The numbers from n on may come again: what knew of their runs is lost.
Free(n) == used' = IF used < n THEN used ELSE n - 1

NumbersInit ==
  /\ Init
  /\ file = 1 /\ doc = NoNumber /\ recorder = NoNumber
  /\ used = 0

\* Callbacks that do nothing with the number.
Other ==
  \/ EnterIdle \/ LeaveIdle \/ ExitLedsFail \/ LeaveStandby
  \/ \E d \in Devices, s \in Severities : ConfigureFails(d, s)
  \/ Entering("Standby") /\ other # "Idle" /\ EnterStandby
  \/ \E s \in Severities :
       Entering("Standby") /\ other # "Idle" /\ WorkersInitFails(s)
  \/ \E d \in Devices, s \in Severities : StartReadoutFails(d, s)
  \/ EnterFailure \/ LeaveFailure \/ SessionCrashes
  \/ On \/ Stop \/ Off \/ Quit \/ ShowLastRun
  \/ recorder < MaxRuns /\ Begin
  \/ \E s \in Severities : WorkerError(s)

\* loadBMConfig at the start: the document is that of the file.
Load ==
  /\ \/ StartInitFails \/ StartMismatch
     \/ \E d \in Devices, s \in InitErrors : StartDeviceFails(d, s)
     \/ \E d \in Devices : StartUndescribed(d)
     \/ \E leds \in BOOLEAN : Start(leds)
  /\ doc' = file
  /\ UNCHANGED <<file, recorder, used>>

\* ... and in Idle, over a document with the numbers of the runs since.
LoadAgain ==
  /\ Reload \/ \E d \in Devices : ReloadUndescribed(d)
  /\ doc' = file /\ Free(file)
  /\ UNCHANGED <<file, recorder>>

\* It throws, and leaves the document as it is, or empty.
LoadFails ==
  /\ \/ \E s \in LoadErrors : StartLoadFails(s)
     \/ \E s \in ReloadErrors : ReloadFails(s)
  /\ \/ doc' = doc /\ UNCHANGED used
     \/ doc # NoNumber /\ doc' = NoNumber /\ Free(NoNumber)
  /\ UNCHANGED <<file, recorder>>

\* The event builder is hired, and its recorder told the number.
Instruct ==
  /\ Entering("Standby") /\ other = "Idle"
  /\ \/ EnterStandby \/ WorkersInitCrashes
     \/ \E s \in Severities : WorkersInitFails(s)
  /\ recorder' = doc
  /\ UNCHANGED <<file, doc, used>>

\* A run is on.
Run ==
  /\ EnterActive
  /\ used' = recorder
  /\ UNCHANGED <<file, doc, recorder>>

\* The workers are stopped, and the recorder goes on to the next number; it
\* may do so too when no run has come about.
Record ==
  /\ LeaveActive \/ \E d \in Devices, s \in StopErrors : StopReadoutFails(d, s)
  /\ recorder' \in IF used = recorder THEN {recorder + 1}
                   ELSE {recorder, recorder + 1}
  /\ doc' = recorder'
  /\ UNCHANGED <<file, used>>

\* The document becomes the file, also when there is no number in it.
Store ==
  /\ file' = doc
  /\ IF doc = NoNumber THEN Free(NoNumber) ELSE UNCHANGED used

\* updateBMConfig(babyMIND-config.json), when the program is left from Idle.
Save == Exit /\ Store /\ UNCHANGED <<doc, recorder>>

\* Mutant of SaveAtFatalError: a fatal error saves nothing.
FatalErrorUnsaved == EnterFatalError /\ UNCHANGED numbers

\* updateBMConfig(), with no path, when it ends by a fatal error.
SaveAtFatalError ==
  /\ EnterFatalError
  /\ IF SamePath THEN Store ELSE UNCHANGED <<file, used>>
  /\ UNCHANGED <<doc, recorder>>

\* The program has ended; or it has crashed, or is killed, and what it had not
\* saved is lost.  It is started again.
StartAgain ==
  /\ IF program = "ended" THEN UNCHANGED used ELSE Free(file)
  /\ state' = "Idle" /\ phase' = "entering" /\ other' = "Undefined"
  /\ program' = "running"
  /\ loaded' = FALSE /\ saved' = 0
  /\ inits' = 0 /\ exits' = 0
  /\ attached' = {} /\ open' = {} /\ described' = {} /\ reading' = {}
  /\ hired' = NoCrew /\ rec_proc' = "null"
  /\ doc' = NoNumber /\ recorder' = NoNumber
  /\ UNCHANGED file

NumbersNext ==
  \/ Other /\ UNCHANGED numbers
  \/ Load \/ LoadAgain \/ LoadFails \/ Instruct \/ Run \/ Record
  \/ Save \/ SaveAtFatalError
  \/ StartAgain

NumbersSpec == NumbersInit /\ [][NumbersNext]_allVars

-----------------------------------------------------------------------------
(***************************************************************************)
(* The next run is not given a number that an earlier run had, after       *)
(* whatever errors and however often the program was started, as far as    *)
(* the number is known anywhere.  A number may come again when the program *)
(* was killed or crashed before it saved (those of the runs since the last *)
(* save), when Idle has loaded the file again (those since the last load), *)
(* and when the document is emptied, or saved empty (all).                 *)
(***************************************************************************)
RunNumbersFresh == Settled("Standby") => recorder > used

=============================================================================
