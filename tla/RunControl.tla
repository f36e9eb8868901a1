----------------------------- MODULE RunControl -----------------------------
(***************************************************************************)
(* The finite-state machine of the data acquisition: the callbacks of      *)
(* src/BMDStateMachine.cpp, one action for each way a callback may go.     *)
(*                                                                         *)
(* The machine itself, Fsm of mic11api, is not in the repository.  Of it   *)
(* is assumed that a change of state calls whenLeavingStateDo of the old   *)
(* state and then whenEnteringStateDo of the new one, that changeState()   *)
(* in a callback takes effect when the callback returns (in                *)
(* whenLeavingStateDo: in place of the change in progress), and that the   *)
(* commands On, Start, Stop, Off and Exit do what the comments say:        *)
(* Idle -> Standby -> Active -> Standby -> Idle -> end, and Failure ->     *)
(* Idle by Off.                                                            *)
(***************************************************************************)
EXTENDS Integers

CONSTANTS
  NDevices,      \* the number of devices on the USB bus, as configured
  LoadErrors,    \* severities loadBMConfig may throw at the start
  ReloadErrors,  \* severities loadBMConfig may throw later
  InitErrors,    \* severities UFEDevice::init may throw at the start
  StopErrors     \* severities UFEDevice::stop may throw

Severities == {"SERIOUS", "FATAL"}

ASSUME DevicesAssumption == NDevices \in Nat \ {0}
ASSUME ErrorsAssumption ==
  LoadErrors \cup ReloadErrors \cup InitErrors \cup StopErrors
    \subseteq Severities

VARIABLES
  state,      \* the state of the machine
  phase,      \* "settled", or the callback to call: "leaving", "entering"
  other,      \* leaving: the new state; entering: the old one
  program,    \* "running", "ended" or "crashed"
  loaded,     \* bm_config_doc_ was loaded
  saved,      \* how often updateBMConfig was called
  inits,      \* how often ufe_init opened a session in ufec_ctx_
  exits,      \* how often ufe_exit was called
  attached,   \* the devices in devs_ with setDevice called
  open,       \* the devices that are open
  described,  \* the devices with a device_descr_
  reading,    \* the devices told to read out and not to stop since
  hired,      \* how many workers of each kind the machine has
  rec_proc    \* rec_proc_ptr_: "null", "valid" or "dangling"

machine == <<state, phase, other, program>>
config  == <<loaded, saved>>
session == <<inits, exits>>
devices == <<attached, open, described, reading>>
crew    == <<hired, rec_proc>>
vars    == <<machine, config, session, devices, crew>>

Devices == 1..NDevices
Scanner    == <<"scanner", 0>>
Builder    == <<"builder", 0>>
Readout(d) == <<"readout", d>>
CrewOf(ds) == {Scanner, Builder} \cup {Readout(d) : d \in ds}
Crew    == CrewOf(Devices)
States  == {"Undefined", "Idle", "Standby", "Active", "Failure", "FatalError"}
NoCrew  == [w \in Crew |-> 0]

\* The program starts: Idle is entered from Undefined.
Init ==
  /\ state = "Idle" /\ phase = "entering" /\ other = "Undefined"
  /\ program = "running"
  /\ loaded = FALSE /\ saved = 0
  /\ inits = 0 /\ exits = 0
  /\ attached = {} /\ open = {} /\ described = {} /\ reading = {}
  /\ hired = NoCrew /\ rec_proc = "null"

-----------------------------------------------------------------------------
\* changeState(new), and what a callback does at its end.
Change(new) ==
  /\ phase' = "leaving" /\ other' = new
  /\ UNCHANGED <<state, program>>

Settle == phase' = "settled" /\ UNCHANGED <<state, other, program>>

\* The old state is left, for the new one or the one the callback asks for.
Arrive(new) ==
  /\ state' = new /\ phase' = "entering" /\ other' = state
  /\ UNCHANGED program

\* "Change the state according to the severity of the error."
By(severity) == IF severity = "SERIOUS" THEN "Failure" ELSE "FatalError"

Entering(s)   == program = "running" /\ state = s /\ phase = "entering"
Leaving(s)    == program = "running" /\ state = s /\ phase = "leaving"
Settled(s)    == program = "running" /\ state = s /\ phase = "settled"

-----------------------------------------------------------------------------
(***************************************************************************)
(* BMDIdle::whenEnteringStateDo at the start of the program: one action    *)
(* for each place it may stop at.                                          *)
(***************************************************************************)
Starting == Entering("Idle") /\ other = "Undefined"

StartLoadFails(severity) ==
  /\ Starting
  /\ inits' = IF severity = "FATAL" THEN inits + 1 ELSE inits
  /\ Change(By(severity))
  /\ UNCHANGED <<config, exits, devices, crew>>

\* ufe_init fails.
StartInitFails ==
  /\ Starting
  /\ loaded' = TRUE
  /\ Change("FatalError")
  /\ UNCHANGED <<saved, session, devices, crew>>

\* No device is found, or not as many as the configuration describes.
StartMismatch ==
  /\ Starting
  /\ loaded' = TRUE
  /\ inits' = inits + 1
  /\ Change("FatalError")
  /\ UNCHANGED <<saved, exits, devices, crew>>

\* Devices up to d are set up; d cannot be opened.
StartDeviceFails(d, severity) ==
  /\ Starting
  /\ loaded' = TRUE
  /\ inits' = inits + 1
  /\ attached' = 1..d /\ open' = 1..d-1 /\ described' = 1..d-1
  /\ Change(By(severity))
  /\ UNCHANGED <<saved, exits, reading, crew>>

\* Mutant of StartUndescribed: the device is printed and passed over.
StartUndescribedSettles(d) ==
  /\ Starting
  /\ loaded' = TRUE
  /\ inits' = inits + 1
  /\ attached' = Devices /\ open' = Devices /\ described' = Devices \ {d}
  /\ Settle
  /\ UNCHANGED <<saved, exits, reading, crew>>

\* Device d has no description.
StartUndescribed(d) ==
  /\ Starting
  /\ loaded' = TRUE
  /\ inits' = inits + 1
  /\ attached' = 1..d /\ open' = 1..d /\ described' = 1..d-1
  /\ Change("FatalError")
  /\ UNCHANGED <<saved, exits, reading, crew>>

\* All devices are set up; the last step, the LEDs, may fail.
Start(leds) ==
  /\ Starting
  /\ loaded' = TRUE
  /\ inits' = inits + 1
  /\ attached' = Devices /\ open' = Devices /\ described' = Devices
  /\ IF leds THEN Settle ELSE Change("FatalError")
  /\ UNCHANGED <<saved, exits, reading, crew>>

\* Idle is entered again later.
EnterIdle ==
  /\ Entering("Idle") /\ other # "Undefined"
  /\ Settle
  /\ UNCHANGED <<config, session, devices, crew>>

-----------------------------------------------------------------------------
\* BMDIdle::whenSameStateDo: the configuration is loaded again.  devs_ has
\* its devices if the start got as far as that.
Made == IF attached = {} THEN {} ELSE Devices

Reload ==
  /\ Settled("Idle")
  /\ loaded' = TRUE
  /\ described' = Made
  /\ UNCHANGED <<machine, saved, session, attached, open, reading, crew>>

\* Device d has no description any more; it keeps the one it had.
ReloadUndescribed(d) ==
  /\ Settled("Idle")
  /\ d \in Made
  /\ loaded' = TRUE
  /\ described' = described \cup 1..d-1
  /\ Change("FatalError")
  /\ UNCHANGED <<saved, session, attached, open, reading, crew>>

ReloadFails(severity) ==
  /\ Settled("Idle")
  /\ inits' = IF severity = "FATAL" THEN inits + 1 ELSE inits
  /\ Change(By(severity))
  /\ UNCHANGED <<config, exits, devices, crew>>

\* BMDIdle::whenLeavingStateDo.
LeaveIdle ==
  /\ Leaving("Idle") /\ other # "Undefined"
  /\ Arrive(other)
  /\ UNCHANGED <<config, session, devices, crew>>

\* ... when the program ends.
Exit ==
  /\ Leaving("Idle") /\ other = "Undefined"
  /\ state' = "Undefined" /\ program' = "ended"
  /\ UNCHANGED <<phase, other>>
  /\ open' = {} /\ reading' = {}
  /\ exits' = exits + 1
  /\ saved' = saved + 1
  /\ UNCHANGED <<loaded, inits, attached, described, crew>>

\* Mutant of ExitLedsFail: what BMDFatalError will do again is done first.
ExitLedsFailSaved ==
  /\ Leaving("Idle") /\ other = "Undefined"
  /\ open' = {} /\ reading' = {}
  /\ saved' = saved + 1
  /\ Arrive("FatalError")
  /\ UNCHANGED <<loaded, session, attached, described, crew>>

\* Mutant of ExitLedsFail: the error is taken for one that Off mends.
ExitLedsFailSoftly ==
  /\ Leaving("Idle") /\ other = "Undefined"
  /\ open' = {} /\ reading' = {}
  /\ Arrive("Failure")
  /\ UNCHANGED <<config, session, attached, described, crew>>

\* The LEDs fail: the rest is left to BMDFatalError.
ExitLedsFail ==
  /\ Leaving("Idle") /\ other = "Undefined"
  /\ open' = {} /\ reading' = {}
  /\ Arrive("FatalError")
  /\ UNCHANGED <<config, session, attached, described, crew>>

-----------------------------------------------------------------------------
(***************************************************************************)
(* BMDStandby.  Coming from Idle the devices with a description are        *)
(* configured and the workers hired; coming from Active they are there.    *)
(***************************************************************************)
\* Device d cannot be opened, or is opened and cannot be configured or names
\* no configuration file.
ConfigureFails(d, severity) ==
  /\ Entering("Standby") /\ other = "Idle"
  /\ d \in described
  /\ \E last \in {d - 1, d} : open' = open \cup {e \in described : e <= last}
  /\ Change(By(severity))
  /\ UNCHANGED <<config, session, attached, described, reading, crew>>

Hire ==
  IF other = "Idle"
  THEN /\ hired' = [w \in Crew |->
                      IF w \in CrewOf(Made) THEN hired[w] + 1 ELSE hired[w]]
       /\ rec_proc' = "valid"
  ELSE UNCHANGED crew

\* The workers are set up; BMDReadout::init opens a device that is not open.
EnterStandby ==
  /\ Entering("Standby")
  /\ inits > exits
  /\ Hire
  /\ open' = open \cup Made
  /\ Settle
  /\ UNCHANGED <<config, session, attached, described, reading>>

\* A worker cannot be set up: a device or the recorder throws.
WorkersInitFails(severity) ==
  /\ Entering("Standby")
  /\ Hire
  /\ \E more \in SUBSET Made : open' = open \cup more
  /\ Change(By(severity))
  /\ UNCHANGED <<config, session, attached, described, reading>>

\* BMDEventBuilder::init reads the buffer size from an ufec_ctx_ that no
\* ufe_init has set.
WorkersInitCrashes ==
  /\ Entering("Standby")
  /\ inits = exits
  /\ Hire
  /\ program' = "crashed"
  /\ UNCHANGED <<state, phase, other, config, session, devices>>

\* BMDStandby::whenSameStateDo: the last run is described, from rec_proc_ptr_.
ShowLastRun ==
  /\ Settled("Standby")
  /\ program' = IF rec_proc = "valid" THEN program ELSE "crashed"
  /\ UNCHANGED <<state, phase, other, config, session, devices, crew>>

\* Mutant of Dismiss: one worker of each kind goes.
DismissOne ==
  /\ hired' = [w \in Crew |-> hired[w] - 1]
  /\ rec_proc' = IF hired[Builder] > 0 THEN "dangling" ELSE rec_proc

\* dismissWorkers() and dismissNodes().
Dismiss ==
  /\ hired' = NoCrew
  /\ rec_proc' = IF hired[Builder] > 0 THEN "dangling" ELSE rec_proc

\* BMDStandby::whenLeavingStateDo.
LeaveStandby ==
  /\ Leaving("Standby")
  /\ IF other = "Idle" THEN Dismiss ELSE UNCHANGED crew
  /\ Arrive(other)
  /\ UNCHANGED <<config, session, devices>>

-----------------------------------------------------------------------------
(***************************************************************************)
(* BMDActive.                                                              *)
(***************************************************************************)
EnterActive ==
  /\ Entering("Active")
  /\ reading' = Made
  /\ Settle
  /\ UNCHANGED <<config, session, attached, open, described, crew>>

\* Device d cannot be started; those after it are not told to.
StartReadoutFails(d, severity) ==
  /\ Entering("Active")
  /\ d \in Made
  /\ reading' = 1..d
  /\ Change(By(severity))
  /\ UNCHANGED <<config, session, attached, open, described, crew>>

\* Mutant of LeaveActive: the last device is forgotten.
LeaveActiveEarly ==
  /\ Leaving("Active")
  /\ reading' = reading \cap {NDevices}
  /\ Arrive(other)
  /\ UNCHANGED <<config, session, attached, open, described, crew>>

LeaveActive ==
  /\ Leaving("Active")
  /\ reading' = {}
  /\ Arrive(other)
  /\ UNCHANGED <<config, session, attached, open, described, crew>>

\* Mutant of StopReadoutFails: the way out of the state is tried again.
StopReadoutRetries(d, severity) ==
  /\ Leaving("Active")
  /\ d \in Made
  /\ reading' = reading \ 1..d
  /\ Change(By(severity))
  /\ UNCHANGED <<config, session, attached, open, described, crew>>

\* Device d cannot be stopped; those after it are not told to.
StopReadoutFails(d, severity) ==
  /\ Leaving("Active")
  /\ d \in Made
  /\ reading' = reading \ 1..d
  /\ Arrive(By(severity))
  /\ UNCHANGED <<config, session, attached, open, described, crew>>

-----------------------------------------------------------------------------
(***************************************************************************)
(* BMDFailure and BMDFatalError.                                           *)
(***************************************************************************)
EnterFailure ==
  /\ Entering("Failure")
  /\ Settle
  /\ UNCHANGED <<config, session, devices, crew>>

\* Mutant of LeaveFailure: the workers stay.
LeaveFailureHired ==
  /\ Leaving("Failure")
  /\ Arrive(other)
  /\ UNCHANGED <<config, session, devices, crew>>

LeaveFailure ==
  /\ Leaving("Failure")
  /\ Dismiss
  /\ Arrive(other)
  /\ UNCHANGED <<config, session, devices>>

\* Everything is closed and the program ends.  (Should ufe_init have set no
\* ufec_ctx_, the library may take the call of ufe_exit; or see below.)
EnterFatalError ==
  /\ Entering("FatalError")
  /\ open' = {} /\ reading' = {}
  /\ exits' = exits + 1
  /\ saved' = saved + 1
  /\ program' = "ended"
  /\ UNCHANGED <<state, phase, other, loaded, inits, attached, described, crew>>

\* On either way out, the LEDs, the device list or ufe_exit meet a library and
\* an ufec_ctx_ that no ufe_init has set up.
SessionCrashes ==
  /\ Entering("FatalError") \/ (Leaving("Idle") /\ other = "Undefined")
  /\ inits = exits
  /\ open' = {} /\ reading' = {}
  /\ program' = "crashed"
  /\ UNCHANGED <<state, phase, other, config, session, attached, described, crew>>

-----------------------------------------------------------------------------
\* The commands, and the workers' process() that returns Error_s or
\* FatalError_s in a run.
Command(s, new) ==
  /\ Settled(s)
  /\ Change(new)
  /\ UNCHANGED <<config, session, devices, crew>>

On    == Command("Idle", "Standby")
Begin == Command("Standby", "Active")
Stop  == Command("Active", "Standby")
Off   == Command("Standby", "Idle") \/ Command("Failure", "Idle")
Quit  == Command("Idle", "Undefined")
WorkerError(severity) == Command("Active", By(severity))

Callback ==
  \/ \E s \in LoadErrors : StartLoadFails(s)
  \/ StartInitFails \/ StartMismatch
  \/ \E d \in Devices, s \in InitErrors : StartDeviceFails(d, s)
  \/ \E d \in Devices : StartUndescribed(d)
  \/ \E leds \in BOOLEAN : Start(leds)
  \/ EnterIdle \/ LeaveIdle \/ Exit \/ ExitLedsFail
  \/ \E d \in Devices, s \in Severities : ConfigureFails(d, s)
  \/ EnterStandby \/ WorkersInitCrashes
  \/ \E s \in Severities : WorkersInitFails(s)
  \/ LeaveStandby
  \/ EnterActive
  \/ \E d \in Devices, s \in Severities : StartReadoutFails(d, s)
  \/ LeaveActive
  \/ \E d \in Devices, s \in StopErrors : StopReadoutFails(d, s)
  \/ EnterFailure \/ LeaveFailure \/ EnterFatalError \/ SessionCrashes

Operator ==
  \/ On \/ Begin \/ Stop \/ Off \/ Quit
  \/ Reload \/ ShowLastRun
  \/ \E d \in Devices : ReloadUndescribed(d)
  \/ \E s \in ReloadErrors : ReloadFails(s)

Next ==
  \/ Callback \/ Operator
  \/ \E s \in Severities : WorkerError(s)

Spec == Init /\ [][Next]_vars

\* A callback that was called returns.
FairSpec == Spec /\ WF_vars(Callback)

-----------------------------------------------------------------------------
\* Every variable has its type, and only devices that are open read out.
TypeOK ==
  /\ state \in States /\ other \in States
  /\ phase \in {"settled", "leaving", "entering"}
  /\ program \in {"running", "ended", "crashed"}
  /\ loaded \in BOOLEAN /\ saved \in Nat
  /\ inits \in Nat /\ exits \in Nat
  /\ attached \subseteq Devices /\ described \subseteq Devices
  /\ reading \subseteq open /\ open \subseteq Devices
  /\ hired \in [Crew -> Nat]
  /\ rec_proc \in {"null", "valid", "dangling"}

(***************************************************************************)
(* Through any sequence of commands and errors, Standby and Active have    *)
(* one scanner, one event builder (the one rec_proc_ptr_ points to) and    *)
(* one readout worker for each device, and Idle has none: a recovery never *)
(* leaves the workers of the last attempt beside those of the next.        *)
(***************************************************************************)
CrewMatchesState ==
  /\ Settled("Standby") \/ Settled("Active") =>
       rec_proc = "valid" /\ \A w \in Crew : hired[w] = 1
  /\ Settled("Idle") => hired = NoCrew

(***************************************************************************)
(* "Send a DATA_READOUT command to all boards in order to stop the         *)
(* readout." (BMDStateMachine.cpp:388): outside of Active no device is     *)
(* left reading out, whatever went wrong on the way in or out.             *)
(***************************************************************************)
ReadsOnlyInActive ==
  \A s \in States \ {"Active"} : Settled(s) => reading = {}

(***************************************************************************)
(* "The system is going Off ... New workers will be hired if the system    *)
(* enters Standby again." (BMDStateMachine.cpp:420-421): a machine that    *)
(* comes to Standby, by way of Failure too, has an open session and a      *)
(* configuration, and all its devices are attached, described and open;    *)
(* and nothing in Standby or Active crashes it.                            *)
(***************************************************************************)
DevicesReady ==
  /\ program = "crashed" => state \notin {"Standby", "Active"}
  /\ Settled("Standby") \/ Settled("Active") =>
       /\ loaded /\ inits > exits
       /\ attached = Devices /\ described = Devices /\ open = Devices

(***************************************************************************)
(* "Initialize the ufec library for a new session."                        *)
(* (BMDStateMachine.cpp:72): however the program ends, short of a crash,   *)
(* its devices are closed, no session of the library is left open, and the *)
(* configuration, with the number of the last run, is saved once.          *)
(***************************************************************************)
ClosedAtEnd ==
  program = "ended" => /\ open = {} /\ reading = {}
                       /\ inits <= exits
                       /\ saved = 1

(***************************************************************************)
(* A change of state comes to rest: callbacks that ask for other states    *)
(* while one state is left or entered do not send the machine in circles.  *)
(***************************************************************************)
Settles ==
  phase # "settled" ~> phase = "settled" \/ program # "running"

=============================================================================
