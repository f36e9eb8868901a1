------------------------- MODULE RunControl_proofs -------------------------
(***************************************************************************)
(* The state machine with any number of devices, and any errors that the   *)
(* constants allow: alone, with the numbers of the runs over all starts of *)
(* the program, and under the programs that give it commands.              *)
(***************************************************************************)
EXTENDS Controls, RunNumbers, SequenceTheorems, TLAPS

\* On its way out: nothing is asked of it any more.
Doomed ==
  \/ state = "FatalError"
  \/ state = "Idle" /\ phase = "leaving" /\ other = "FatalError"

\* The ways the machine goes from state to state.
Route ==
  program = "running" =>
    /\ state # "Undefined"
    /\ phase = "settled" => state \in {"Idle", "Standby", "Active", "Failure"}
    /\ phase = "entering" =>
         /\ state = "Idle" => other \in {"Undefined", "Standby", "Failure"}
         /\ state = "Standby" => other \in {"Idle", "Active"}
         /\ state = "Active" => other = "Standby"
    /\ phase = "leaving" =>
         /\ state # "FatalError"
         /\ state = "Idle" =>
              other \in {"Undefined", "Standby", "Failure", "FatalError"}
         /\ state = "Standby" =>
              other \in {"Idle", "Active", "Failure", "FatalError"}
         /\ state = "Active" => other \in {"Standby", "Failure", "FatalError"}
         /\ state = "Failure" => other = "Idle"

\* There is one worker of each kind, with a device to read for each.
FullCrew ==
  /\ hired = [w \in Crew |-> 1] /\ rec_proc = "valid"
  /\ Made \subseteq open

\* Where the workers are needed, and where there are none.
Staff ==
  program = "running" =>
    /\ state = "Idle" => hired = NoCrew
    /\ state = "Standby" /\ phase = "entering" /\ other = "Idle" => hired = NoCrew
    /\ state = "Standby" /\ phase = "entering" /\ other = "Active" => FullCrew
    /\ state = "Standby" /\ phase = "settled" => FullCrew
    /\ state = "Standby" /\ phase = "leaving" /\ other = "Active" => FullCrew
    /\ state = "Active" => FullCrew

\* A session is opened, and the devices made, on the way out of the start.
Sessions ==
  /\ program = "running" =>
       /\ exits = 0 /\ saved = 0
       /\ inits > 0 => attached # {} \/ Doomed
  /\ Starting => /\ inits = 0 /\ attached = {} /\ described = {}
                 /\ open = {} /\ reading = {}

IInv == TypeOK /\ Route /\ Staff /\ Sessions

\* Away from Active, and short of the end, nothing reads out.
Quiet == program = "running" => reading = {} \/ state \in {"Active", "FatalError"}

\* Past the start, and short of the end, everything is set up.
Ready ==
  /\ program = "crashed" => state \notin {"Standby", "Active"}
  /\ program = "running" =>
       \/ Starting \/ Doomed
       \/ /\ loaded /\ inits > 0
          /\ attached = Devices /\ described = Devices /\ open = Devices

\* One session at most is open in a running program, none in one that ended.
Closed == (program = "running" => inits <= 1) /\ ClosedAtEnd

-----------------------------------------------------------------------------
\* The devices are numbered from one: there is a first, and those up to a
\* device, with it or without, are devices.
LEMMA DeviceNumbers ==
  /\ Devices # {}
  /\ \A d \in Devices : 1..d \subseteq Devices /\ 1..d-1 \subseteq Devices
                        /\ d \in 1..d /\ d \notin 1..d-1
<1>1. 1 \in Devices
  BY DevicesAssumption DEF Devices
<1>2. ASSUME NEW d \in Devices
      PROVE  1..d \subseteq Devices /\ 1..d-1 \subseteq Devices
             /\ d \in 1..d /\ d \notin 1..d-1
  BY DevicesAssumption DEF Devices
<1>3. QED
  BY <1>1, <1>2

\* The whole crew is that of all devices.
LEMMA WholeCrew == CrewOf(Devices) = Crew
BY DEF Crew

\* The errors of the constants have a severity, and each takes the machine
\* to one of the two states for errors.
LEMMA Errors ==
  /\ LoadErrors \subseteq Severities /\ ReloadErrors \subseteq Severities
  /\ InitErrors \subseteq Severities /\ StopErrors \subseteq Severities
  /\ \A s \in Severities : By(s) \in {"Failure", "FatalError"}
  /\ By("FATAL") = "FatalError"
BY ErrorsAssumption DEF Severities, By

\* The invariant holds when the program starts.
LEMMA InitIInv == Init => IInv
<1> SUFFICES ASSUME Init PROVE IInv
  OBVIOUS
<1>1. hired \in [Crew -> Nat]
  BY DEF Init, NoCrew
<1>2. TypeOK
  BY <1>1 DEF Init, TypeOK, States
<1>3. Route /\ Staff /\ Sessions
  BY DEF Init, Route, Staff, Sessions, Starting, Entering, Doomed
<1>4. QED
  BY <1>2, <1>3 DEF IInv

-----------------------------------------------------------------------------
\* The start of the program, in Idle.
LEMMA StartKeepsIInv ==
  ASSUME IInv,
         \/ \E s \in LoadErrors : StartLoadFails(s)
         \/ StartInitFails \/ StartMismatch
         \/ \E d \in Devices, s \in InitErrors : StartDeviceFails(d, s)
         \/ \E d \in Devices : StartUndescribed(d)
         \/ \E leds \in BOOLEAN : Start(leds)
  PROVE  IInv'
<1> USE DeviceNumbers, Errors DEF config, session, devices, crew, Starting,
        Entering, Change, Settle
<1>1. ASSUME NEW s \in LoadErrors, StartLoadFails(s) PROVE IInv'
  BY <1>1 DEF IInv, StartLoadFails, TypeOK, Route, Staff, Sessions, Doomed,
              States, By, Severities
<1>2. CASE StartInitFails
  BY <1>2 DEF IInv, StartInitFails, TypeOK, Route, Staff, Sessions, Doomed, States
<1>3. CASE StartMismatch
  BY <1>3 DEF IInv, StartMismatch, TypeOK, Route, Staff, Sessions, Doomed, States
<1>4. ASSUME NEW d \in Devices, NEW s \in InitErrors, StartDeviceFails(d, s)
      PROVE  IInv'
  BY <1>4 DEF IInv, StartDeviceFails, TypeOK, Route, Staff, Sessions, Doomed,
              States
<1>5. ASSUME NEW d \in Devices, StartUndescribed(d) PROVE IInv'
  BY <1>5 DEF IInv, StartUndescribed, TypeOK, Route, Staff, Sessions, Doomed,
              States
<1>6. ASSUME NEW leds \in BOOLEAN, Start(leds) PROVE IInv'
  BY <1>6 DEF IInv, Start, TypeOK, Route, Staff, Sessions, Doomed, States
<1>7. QED
  BY <1>1, <1>2, <1>3, <1>4, <1>5, <1>6

-----------------------------------------------------------------------------
\* Idle, entered again, in rest and left.
LEMMA IdleKeepsIInv ==
  ASSUME IInv,
         \/ EnterIdle \/ Reload \/ LeaveIdle \/ Exit \/ ExitLedsFail \/ On \/ Quit
         \/ \E d \in Devices : ReloadUndescribed(d)
         \/ \E s \in ReloadErrors : ReloadFails(s)
  PROVE  IInv'
<1> USE DeviceNumbers, Errors DEF config, session, devices, crew, machine,
        Starting, Entering, Leaving, Settled, Change, Settle, Arrive, Doomed,
        States
<1>1. CASE EnterIdle
  BY <1>1 DEF IInv, EnterIdle, TypeOK, Route, Staff, Sessions, FullCrew, Made
<1>2. CASE Reload
  BY <1>2 DEF IInv, Reload, TypeOK, Route, Staff, Sessions, FullCrew, Made
<1>3. CASE LeaveIdle
  BY <1>3 DEF IInv, LeaveIdle, TypeOK, Route, Staff, Sessions
<1>4. CASE Exit
  BY <1>4 DEF IInv, Exit, TypeOK, Route, Staff, Sessions
<1>5. CASE ExitLedsFail
  BY <1>5 DEF IInv, ExitLedsFail, TypeOK, Route, Staff, Sessions
<1>6. CASE On \/ Quit
  BY <1>6 DEF IInv, On, Quit, Command, TypeOK, Route, Staff, Sessions
<1>7. ASSUME NEW d \in Devices, ReloadUndescribed(d) PROVE IInv'
  BY <1>7 DEF IInv, ReloadUndescribed, TypeOK, Route, Staff, Sessions
<1>8. ASSUME NEW s \in ReloadErrors, ReloadFails(s) PROVE IInv'
  BY <1>8 DEF IInv, ReloadFails, TypeOK, Route, Staff, Sessions, By, Severities
<1>9. QED
  BY <1>1, <1>2, <1>3, <1>4, <1>5, <1>6, <1>7, <1>8

\* Workers hired where there were none are one of each kind, if the devices
\* are made; in Standby from Active they are there.
LEMMA HiredCrew ==
  ASSUME IInv, Entering("Standby"), Hire
  PROVE  /\ hired' \in [Crew -> Nat] /\ rec_proc' \in {"null", "valid", "dangling"}
         /\ inits > exits => /\ hired' = [w \in Crew |-> 1] /\ rec_proc' = "valid"
                             /\ Made = Devices
<1>1. inits > exits => attached # {}
  BY DEF IInv, Sessions, TypeOK, Doomed, Entering
<1>2. inits > exits => Made = Devices
  BY <1>1 DEF Made
<1>3. CASE other = "Idle"
  <2>1. hired = [w \in Crew |-> 0]
    BY <1>3 DEF IInv, Staff, Entering, NoCrew
  <2>2. hired' = [w \in Crew |-> IF w \in CrewOf(Made) THEN 1 ELSE 0]
    BY <1>3, <2>1 DEF Hire
  <2>3. CrewOf(Made) = Crew => hired' = [w \in Crew |-> 1]
    BY <2>2
  <2>4. hired' \in [Crew -> Nat]
    BY <2>2
  <2>5. QED
    BY <1>2, <1>3, <2>3, <2>4, WholeCrew DEF Hire
<1>4. CASE other = "Active"
  BY <1>2, <1>4 DEF IInv, Staff, FullCrew, Hire, Entering, TypeOK, crew
<1>5. QED
  BY <1>3, <1>4 DEF IInv, Route, Entering

\* Standby: the devices are configured and the crew hired.
LEMMA StandbyKeepsIInv ==
  ASSUME IInv,
         \/ \E d \in Devices, s \in Severities : ConfigureFails(d, s)
         \/ EnterStandby \/ WorkersInitCrashes
         \/ \E s \in Severities : WorkersInitFails(s)
         \/ LeaveStandby \/ ShowLastRun \/ Begin
  PROVE  IInv'
<1> USE DeviceNumbers, Errors DEF config, session, devices, machine,
        Starting, Entering, Leaving, Settled, Change, Settle, Arrive, Doomed,
        States
<1>0. Made \subseteq Devices
  BY DEF Made
<1>1. ASSUME NEW d \in Devices, NEW s \in Severities, ConfigureFails(d, s)
      PROVE  IInv'
  BY <1>1 DEF IInv, ConfigureFails, TypeOK, Route, Staff, Sessions, crew
<1>2. CASE EnterStandby
  <2>1. hired' = [w \in Crew |-> 1] /\ rec_proc' = "valid"
        /\ hired' \in [Crew -> Nat]
    BY <1>2, HiredCrew DEF EnterStandby
  <2>2. TypeOK' /\ Route' /\ Sessions'
    BY <1>0, <1>2, <2>1 DEF IInv, EnterStandby, TypeOK, Route, Sessions
  <2>3. FullCrew'
    BY <1>2, <2>1 DEF EnterStandby, FullCrew, Made
  <2>4. QED
    BY <1>2, <2>2, <2>3 DEF IInv, EnterStandby, Staff
<1>3. CASE WorkersInitCrashes
  BY <1>3, HiredCrew DEF IInv, WorkersInitCrashes, TypeOK, Route, Staff, Sessions
<1>4. ASSUME NEW s \in Severities, WorkersInitFails(s) PROVE IInv'
  BY <1>0, <1>4, HiredCrew
     DEF IInv, WorkersInitFails, TypeOK, Route, Staff, Sessions
<1>5. CASE LeaveStandby
  BY <1>5 DEF IInv, LeaveStandby, Dismiss, NoCrew, TypeOK, Route, Staff,
              Sessions, FullCrew, Made, crew
<1>6. CASE ShowLastRun \/ Begin
  BY <1>6 DEF IInv, ShowLastRun, Begin, Command, TypeOK, Route, Staff, Sessions,
              FullCrew, Made, crew
<1>7. QED
  BY <1>1, <1>2, <1>3, <1>4, <1>5, <1>6

\* Active: the devices read out.
LEMMA ActiveKeepsIInv ==
  ASSUME IInv,
         \/ EnterActive \/ LeaveActive \/ Stop
         \/ \E d \in Devices, s \in Severities : StartReadoutFails(d, s)
         \/ \E d \in Devices, s \in StopErrors : StopReadoutFails(d, s)
         \/ \E s \in Severities : WorkerError(s)
  PROVE  IInv'
<1> USE DeviceNumbers, Errors DEF config, session, machine, crew,
        Starting, Entering, Leaving, Settled, Change, Settle, Arrive, Doomed,
        States
<1>1. CASE EnterActive
  BY <1>1 DEF IInv, EnterActive, TypeOK, Route, Staff, Sessions, FullCrew, Made
<1>2. CASE LeaveActive
  BY <1>2 DEF IInv, LeaveActive, TypeOK, Route, Staff, Sessions, FullCrew, Made
<1>3. CASE Stop
  BY <1>3 DEF IInv, Stop, Command, TypeOK, Route, Staff, Sessions, FullCrew,
              Made, devices
<1>4. ASSUME NEW d \in Devices, NEW s \in Severities, StartReadoutFails(d, s)
      PROVE  IInv'
  BY <1>4 DEF IInv, StartReadoutFails, TypeOK, Route, Staff, Sessions, FullCrew,
              Made
<1>5. ASSUME NEW d \in Devices, NEW s \in StopErrors, StopReadoutFails(d, s)
      PROVE  IInv'
  BY <1>5 DEF IInv, StopReadoutFails, TypeOK, Route, Staff, Sessions, FullCrew,
              Made
<1>6. ASSUME NEW s \in Severities, WorkerError(s) PROVE IInv'
  BY <1>6 DEF IInv, WorkerError, Command, TypeOK, Route, Staff, Sessions,
              FullCrew, Made, devices
<1>7. QED
  BY <1>1, <1>2, <1>3, <1>4, <1>5, <1>6

\* Failure, the end by FatalError, and an end without a session.
LEMMA FailureKeepsIInv ==
  ASSUME IInv,
         \/ EnterFailure \/ LeaveFailure \/ EnterFatalError \/ SessionCrashes \/ Off
  PROVE  IInv'
<1> USE DEF config, session, devices, machine, Starting, Entering, Leaving,
        Settled, Change, Settle, Arrive, Doomed, States
<1>1. CASE EnterFailure
  BY <1>1 DEF IInv, EnterFailure, TypeOK, Route, Staff, Sessions, crew
<1>2. CASE LeaveFailure
  BY <1>2 DEF IInv, LeaveFailure, Dismiss, NoCrew, TypeOK, Route, Staff, Sessions
<1>3. CASE EnterFatalError
  BY <1>3 DEF IInv, EnterFatalError, TypeOK, Route, Staff, Sessions, crew
<1>4. CASE Off
  BY <1>4 DEF IInv, Off, Command, TypeOK, Route, Staff, Sessions, FullCrew, Made,
              crew
<1>5. CASE SessionCrashes
  BY <1>5 DEF IInv, SessionCrashes, TypeOK, Route, Staff, Sessions, crew
<1>6. QED
  BY <1>1, <1>2, <1>3, <1>4, <1>5

\* The invariant survives every step, and a step that changes nothing.
LEMMA NextKeepsIInv == IInv /\ [Next]_vars => IInv'
<1> SUFFICES ASSUME IInv, [Next]_vars PROVE IInv'
  OBVIOUS
<1>1. CASE Callback
  BY <1>1, StartKeepsIInv, IdleKeepsIInv, StandbyKeepsIInv, ActiveKeepsIInv,
     FailureKeepsIInv DEF Callback
<1>2. CASE Operator
  BY <1>2, IdleKeepsIInv, StandbyKeepsIInv, ActiveKeepsIInv, FailureKeepsIInv
     DEF Operator
<1>3. CASE \E s \in Severities : WorkerError(s)
  BY <1>3, ActiveKeepsIInv
<1>4. CASE UNCHANGED vars
  BY <1>4 DEF vars, machine, config, session, devices, crew, IInv, TypeOK, Route,
              Staff, Sessions, Starting, Entering, Doomed, FullCrew, Made
<1>5. QED
  BY <1>1, <1>2, <1>3, <1>4 DEF Next

\* What the invariant says of the machine in rest.
LEMMA IInvCrew == IInv => TypeOK /\ CrewMatchesState
BY DEF IInv, Staff, FullCrew, CrewMatchesState, Settled

-----------------------------------------------------------------------------
(***************************************************************************)
(* Whatever the callbacks of BMDStateMachine.cpp throw, every variable     *)
(* keeps its type, and only devices that are open read out.                *)
(***************************************************************************)
THEOREM TypeCorrect == Spec => []TypeOK
<1>1. Spec => []IInv
  BY InitIInv, NextKeepsIInv, PTL DEF Spec
<1>2. QED
  BY <1>1, IInvCrew, PTL

(***************************************************************************)
(* Standby and Active have one worker of each kind, with one readout       *)
(* worker for each device, and Idle has none (hireWorkers and              *)
(* dismissWorkers, for any number of devices and any errors).              *)
(***************************************************************************)
THEOREM CrewCorrect == Spec => []CrewMatchesState
<1>1. Spec => []IInv
  BY InitIInv, NextKeepsIInv, PTL DEF Spec
<1>2. QED
  BY <1>1, IInvCrew, PTL

-----------------------------------------------------------------------------
\* Nothing reads out in a state entered from Active: the way out stops all,
\* or ends in FatalError when it throws FATAL.
LEMMA NextKeepsQuiet ==
  ASSUME "SERIOUS" \notin StopErrors, Quiet, [Next]_vars
  PROVE  Quiet'
<1> USE DEF Quiet, config, session, devices, crew, machine, Starting, Entering,
        Leaving, Settled, Change, Settle, Arrive
<1>1. CASE Callback
  <2>1. CASE \E d \in Devices, s \in StopErrors : StopReadoutFails(d, s)
    BY <2>1, Errors DEF StopReadoutFails, By, Severities
  <2>2. CASE \/ \E s \in LoadErrors : StartLoadFails(s)
             \/ StartInitFails \/ StartMismatch
             \/ \E d \in Devices, s \in InitErrors : StartDeviceFails(d, s)
             \/ \E d \in Devices : StartUndescribed(d)
             \/ \E leds \in BOOLEAN : Start(leds)
    BY <2>2 DEF StartLoadFails, StartInitFails, StartMismatch, StartDeviceFails,
                StartUndescribed, Start
  <2>3. CASE EnterIdle \/ LeaveIdle \/ Exit \/ ExitLedsFail
    BY <2>3 DEF EnterIdle, LeaveIdle, Exit, ExitLedsFail
  <2>4. CASE \/ \E d \in Devices, s \in Severities : ConfigureFails(d, s)
             \/ EnterStandby \/ WorkersInitCrashes
             \/ \E s \in Severities : WorkersInitFails(s)
             \/ LeaveStandby
    BY <2>4 DEF ConfigureFails, EnterStandby, WorkersInitCrashes,
                WorkersInitFails, LeaveStandby
  <2>5. CASE \/ EnterActive \/ LeaveActive
             \/ \E d \in Devices, s \in Severities : StartReadoutFails(d, s)
    BY <2>5 DEF EnterActive, LeaveActive, StartReadoutFails
  <2>6. CASE EnterFailure \/ LeaveFailure \/ EnterFatalError \/ SessionCrashes
    BY <2>6 DEF EnterFailure, LeaveFailure, EnterFatalError, SessionCrashes
  <2>7. QED
    BY <1>1, <2>1, <2>2, <2>3, <2>4, <2>5, <2>6 DEF Callback
<1>2. CASE Operator \/ \E s \in Severities : WorkerError(s)
  BY <1>2 DEF Operator, On, Begin, Stop, Off, Quit, WorkerError, Command, Reload,
              ShowLastRun, ReloadUndescribed, ReloadFails
<1>3. CASE UNCHANGED vars
  BY <1>3 DEF vars
<1>4. QED
  BY <1>1, <1>2, <1>3 DEF Next

(***************************************************************************)
(* Outside of Active no device is left reading out, whatever went wrong on *)
(* the way in and whatever the workers threw, if UFEDevice::stop throws no *)
(* SERIOUS error (which it can: run_stop).                                 *)
(***************************************************************************)
THEOREM StopReaches ==
  ASSUME "SERIOUS" \notin StopErrors
  PROVE  Spec => []ReadsOnlyInActive
<1>1. Init => Quiet
  BY DEF Init, Quiet
<1>2. Quiet /\ [Next]_vars => Quiet'
  BY NextKeepsQuiet
<1>3. IInv /\ Quiet => ReadsOnlyInActive
  BY DEF IInv, Route, Quiet, ReadsOnlyInActive, Settled
<1>4. Spec => []IInv
  BY InitIInv, NextKeepsIInv, PTL DEF Spec
<1>5. QED
  BY <1>1, <1>2, <1>3, <1>4, PTL DEF Spec

-----------------------------------------------------------------------------
\* What was set up at the start stays set up, through Failure too.
LEMMA NextKeepsReady ==
  ASSUME "SERIOUS" \notin LoadErrors \cup InitErrors, IInv, Ready, [Next]_vars
  PROVE  Ready'
<1> USE DEF Ready, config, session, devices, crew, machine, Starting, Doomed,
        Entering, Leaving, Settled, Change, Settle, Arrive
<1>0. /\ inits \in Nat /\ exits \in Nat
      /\ open \subseteq Devices /\ described \subseteq Devices
      /\ program = "running" => exits = 0
  BY DEF IInv, TypeOK, Sessions
<1>1. CASE Callback
  <2>1. ASSUME NEW s \in LoadErrors, StartLoadFails(s) PROVE Ready'
    BY <2>1, Errors DEF StartLoadFails, By, Severities
  <2>2. ASSUME NEW d \in Devices, NEW s \in InitErrors, StartDeviceFails(d, s)
        PROVE  Ready'
    BY <2>2, Errors DEF StartDeviceFails, By, Severities
  <2>3. CASE StartInitFails \/ StartMismatch \/ \E d \in Devices : StartUndescribed(d)
    BY <2>3 DEF StartInitFails, StartMismatch, StartUndescribed
  <2>4. CASE \E leds \in BOOLEAN : Start(leds)
    BY <2>4, <1>0 DEF Start, IInv, Sessions
  <2>5. CASE EnterIdle \/ LeaveIdle \/ Exit \/ ExitLedsFail
    BY <2>5 DEF EnterIdle, LeaveIdle, Exit, ExitLedsFail
  <2>6. CASE \E d \in Devices, s \in Severities : ConfigureFails(d, s)
    BY <2>6, <1>0 DEF ConfigureFails
  <2>7. CASE EnterStandby
    BY <2>7, <1>0 DEF EnterStandby, Made
  <2>8. CASE WorkersInitCrashes
    BY <2>8, <1>0 DEF WorkersInitCrashes
  <2>9. ASSUME NEW s \in Severities, WorkersInitFails(s) PROVE Ready'
    BY <2>9, <1>0 DEF WorkersInitFails, Made
  <2>10. CASE LeaveStandby
    BY <2>10 DEF LeaveStandby
  <2>11. CASE \/ EnterActive \/ LeaveActive
              \/ \E d \in Devices, s \in Severities : StartReadoutFails(d, s)
              \/ \E d \in Devices, s \in StopErrors : StopReadoutFails(d, s)
    BY <2>11 DEF EnterActive, LeaveActive, StartReadoutFails, StopReadoutFails
  <2>12. CASE EnterFailure \/ LeaveFailure \/ EnterFatalError \/ SessionCrashes
    BY <2>12 DEF EnterFailure, LeaveFailure, EnterFatalError, SessionCrashes
  <2>13. QED
    BY <1>1, <2>1, <2>2, <2>3, <2>4, <2>5, <2>6, <2>7, <2>8, <2>9, <2>10, <2>11,
       <2>12 DEF Callback
<1>2. CASE Operator \/ \E s \in Severities : WorkerError(s)
  <2>1. CASE Reload
    BY <2>1, DeviceNumbers DEF Reload, Made
  <2>2. CASE ShowLastRun
    BY <2>2 DEF ShowLastRun, IInv, Staff, FullCrew
  <2>3. CASE \E d \in Devices : ReloadUndescribed(d)
    BY <2>3 DEF ReloadUndescribed
  <2>4. ASSUME NEW s \in ReloadErrors, ReloadFails(s) PROVE Ready'
    BY <2>4, <1>0, Errors DEF ReloadFails, By, Severities
  <2>5. CASE On \/ Begin \/ Stop \/ Off \/ Quit \/ \E s \in Severities : WorkerError(s)
    BY <2>5 DEF On, Begin, Stop, Off, Quit, WorkerError, Command
  <2>6. QED
    BY <1>2, <2>1, <2>2, <2>3, <2>4, <2>5 DEF Operator
<1>3. CASE UNCHANGED vars
  BY <1>3 DEF vars
<1>4. QED
  BY <1>1, <1>2, <1>3 DEF Next

\* What the two invariants say of Standby and Active in rest.
LEMMA ReadyDevices == IInv /\ Ready => DevicesReady
BY DEF IInv, TypeOK, Sessions, Route, Ready, DevicesReady, Settled, Starting, Entering, Doomed

(***************************************************************************)
(* In Standby and Active the program never runs into the library without a *)
(* session or through a pointer to a worker that is gone, and it comes     *)
(* there only with an open session, a configuration and all its devices    *)
(* set up, if the start throws no SERIOUS error (with one it does:         *)
(* run_recovery).                                                          *)
(***************************************************************************)
THEOREM StandbyReady ==
  ASSUME "SERIOUS" \notin LoadErrors \cup InitErrors
  PROVE  Spec => []DevicesReady
<1>1. Init => Ready
  BY DEF Init, Ready, Starting, Entering
<1>2. IInv /\ Ready /\ [Next]_vars => Ready'
  BY NextKeepsReady
<1>3. Spec => []IInv
  BY InitIInv, NextKeepsIInv, PTL DEF Spec
<1>4. QED
  BY <1>1, <1>2, <1>3, ReadyDevices, PTL DEF Spec

-----------------------------------------------------------------------------
\* A session is opened once, and closed by the step that ends the program.
LEMMA NextKeepsClosed ==
  ASSUME "FATAL" \notin ReloadErrors, IInv, Closed, [Next]_vars
  PROVE  Closed'
<1> USE DEF Closed, ClosedAtEnd, config, session, devices, crew, machine,
        Starting, Entering, Leaving, Settled, Change, Settle, Arrive
<1>0. /\ inits \in Nat /\ exits \in Nat
      /\ program = "running" => exits = 0 /\ saved = 0
      /\ Starting => inits = 0
  BY DEF IInv, TypeOK, Sessions
<1>1. CASE Callback
  <2>1. CASE \/ \E s \in LoadErrors : StartLoadFails(s)
             \/ StartInitFails \/ StartMismatch
             \/ \E d \in Devices, s \in InitErrors : StartDeviceFails(d, s)
             \/ \E d \in Devices : StartUndescribed(d)
             \/ \E leds \in BOOLEAN : Start(leds)
    BY <1>0, <2>1 DEF StartLoadFails, StartInitFails, StartMismatch,
                      StartDeviceFails, StartUndescribed, Start
  <2>2. CASE EnterIdle \/ LeaveIdle \/ ExitLedsFail
    BY <2>2 DEF EnterIdle, LeaveIdle, ExitLedsFail
  <2>3. CASE Exit \/ EnterFatalError
    BY <1>0, <2>3 DEF Exit, EnterFatalError
  <2>4. CASE \/ \E d \in Devices, s \in Severities : ConfigureFails(d, s)
             \/ EnterStandby \/ WorkersInitCrashes
             \/ \E s \in Severities : WorkersInitFails(s)
             \/ LeaveStandby
    BY <2>4 DEF ConfigureFails, EnterStandby, WorkersInitCrashes,
                WorkersInitFails, LeaveStandby
  <2>5. CASE \/ EnterActive \/ LeaveActive
             \/ \E d \in Devices, s \in Severities : StartReadoutFails(d, s)
             \/ \E d \in Devices, s \in StopErrors : StopReadoutFails(d, s)
    BY <2>5 DEF EnterActive, LeaveActive, StartReadoutFails, StopReadoutFails
  <2>6. CASE EnterFailure \/ LeaveFailure \/ SessionCrashes
    BY <2>6 DEF EnterFailure, LeaveFailure, SessionCrashes
  <2>7. QED
    BY <1>1, <2>1, <2>2, <2>3, <2>4, <2>5, <2>6 DEF Callback
<1>2. CASE Operator \/ \E s \in Severities : WorkerError(s)
  BY <1>2 DEF Operator, On, Begin, Stop, Off, Quit, WorkerError, Command, Reload,
              ShowLastRun, ReloadUndescribed, ReloadFails
<1>3. CASE UNCHANGED vars
  BY <1>3 DEF vars
<1>4. QED
  BY <1>1, <1>2, <1>3 DEF Next

(***************************************************************************)
(* However the program ends, short of a crash, its devices are closed, no  *)
(* session of the library is left open and the configuration is saved      *)
(* once, if loadBMConfig in Idle throws no FATAL error (whose handler      *)
(* calls ufe_init over the open session).                                  *)
(***************************************************************************)
THEOREM EndCloses ==
  ASSUME "FATAL" \notin ReloadErrors
  PROVE  Spec => []ClosedAtEnd
<1>1. Init => Closed
  BY DEF Init, Closed, ClosedAtEnd
<1>2. IInv /\ Closed /\ [Next]_vars => Closed'
  BY NextKeepsClosed
<1>3. Closed => ClosedAtEnd
  BY DEF Closed
<1>4. Spec => []IInv
  BY InitIInv, NextKeepsIInv, PTL DEF Spec
<1>5. QED
  BY <1>1, <1>2, <1>3, <1>4, PTL DEF Spec

-----------------------------------------------------------------------------
(***************************************************************************)
(* The numbers of the runs, with any number of devices, runs and starts of *)
(* the program, and any errors that the constants allow.                   *)
(***************************************************************************)

\* Where the number of the next run is: in the file when the program has
\* ended; in the document, or still in the file when nothing was loaded, but
\* not while a run goes on; in the recorder when a run is about to begin, and
\* when one goes on the recorder has its own.
NextNumber ==
  /\ program = "ended" => file > used
  /\ program = "running" =>
       /\ state # "Active" =>
            doc > used \/ (doc = NoNumber /\ file > used /\ attached = {})
       /\ state = "Standby" /\ (phase = "settled" \/ other = "Active") =>
            recorder > used
       /\ state = "Active" =>
            recorder >= used /\ (phase = "entering" => recorder > used)
       /\ state = "Idle" /\ phase = "entering" /\ other = "Undefined" =>
            doc = NoNumber

NumbersOK ==
  /\ file \in Nat /\ doc \in Nat /\ recorder \in Nat /\ used \in Int
  /\ NextNumber

-----------------------------------------------------------------------------
\* With the numbers the machine takes the steps it takes without them, or is
\* started again.
LEMMA NumbersStep == [NumbersNext]_allVars => [Next]_vars \/ StartAgain
<1> USE DEF Next, Callback, Operator
<1>1. CASE Other
  BY <1>1 DEF Other
<1>2. CASE Load \/ LoadAgain
  BY <1>2 DEF Load, LoadAgain
<1>3. CASE LoadFails
  BY <1>3 DEF LoadFails
<1>4. CASE Instruct \/ Run
  BY <1>4 DEF Instruct, Run
<1>5. CASE Record \/ Save \/ SaveAtFatalError
  BY <1>5 DEF Record, Save, SaveAtFatalError
<1>6. CASE UNCHANGED allVars
  BY <1>6 DEF allVars
<1>7. QED
  BY <1>1, <1>2, <1>3, <1>4, <1>5, <1>6 DEF NumbersNext

\* A program that is started again starts as the first time.
LEMMA StartAgainInit == StartAgain => Init'
BY DEF StartAgain, Init, NoCrew, Crew, CrewOf, Devices, Scanner, Builder, Readout

\* The invariant of the machine holds over all starts of the program.
LEMMA NumbersKeepIInv == IInv /\ [NumbersNext]_allVars => IInv'
<1>1. Init' => IInv'
  BY InitIInv, PTL
<1>2. QED
  BY <1>1, NumbersStep, NextKeepsIInv, StartAgainInit

\* The invariant of the machine holds in every state, over all starts.
LEMMA NumbersIInv == NumbersSpec => []IInv
<1>1. NumbersInit => IInv
  BY InitIInv DEF NumbersInit
<1>2. QED
  BY <1>1, NumbersKeepIInv, PTL DEF NumbersSpec

-----------------------------------------------------------------------------
\* The callbacks and commands that leave the numbers alone.
LEMMA OtherKeepsNumbers ==
  ASSUME IInv, NumbersOK, Other, UNCHANGED numbers
  PROVE  NumbersOK'
<1> USE DEF numbers, NumbersOK, NextNumber, config, session, devices, machine,
        Entering, Leaving, Settled, Change, Settle, Arrive
<1>1. CASE EnterIdle \/ LeaveIdle \/ ExitLedsFail
  BY <1>1 DEF EnterIdle, LeaveIdle, ExitLedsFail, IInv, Route
<1>2. CASE LeaveStandby
  BY <1>2 DEF LeaveStandby, IInv, Route
<1>3. CASE \/ \E d \in Devices, s \in Severities : ConfigureFails(d, s)
           \/ \E s \in Severities :
                Entering("Standby") /\ other # "Idle" /\ WorkersInitFails(s)
  BY <1>3, Errors DEF ConfigureFails, WorkersInitFails
<1>4. CASE Entering("Standby") /\ other # "Idle" /\ EnterStandby
  BY <1>4 DEF EnterStandby, IInv, Route
<1>5. CASE \/ \E d \in Devices, s \in Severities : StartReadoutFails(d, s)
           \/ \E s \in Severities : WorkerError(s)
           \/ Stop
  BY <1>5 DEF StartReadoutFails, WorkerError, Stop, Command
<1>6. CASE EnterFailure \/ LeaveFailure \/ SessionCrashes
  BY <1>6 DEF EnterFailure, LeaveFailure, SessionCrashes, IInv, Route
<1>7. CASE On \/ Off \/ Quit \/ Begin
  BY <1>7 DEF On, Off, Quit, Begin, Command
<1>8. CASE ShowLastRun
  BY <1>8 DEF ShowLastRun
<1>9. QED
  BY <1>1, <1>2, <1>3, <1>4, <1>5, <1>6, <1>7, <1>8 DEF Other

\* After numbers were freed the first of them, and all above, are above those
\* that are used; no number is used by that.
LEMMA Freed ==
  ASSUME used \in Int, NEW n \in Nat, Free(n)
  PROVE  used' \in Int /\ n > used' /\ used' <= used
BY DEF Free

\* The document is loaded from the file, or is not.
LEMMA LoadKeepsNumbers ==
  ASSUME NumbersOK, Load \/ LoadAgain \/ LoadFails
  PROVE  NumbersOK'
<1> USE DEF NumbersOK, NextNumber, NoNumber, config, session, devices, machine,
        Entering, Settled, Change, Settle, Starting
<1>1. CASE Load
  <2>1. /\ state = "Idle" /\ phase = "entering" /\ other = "Undefined"
        /\ program = "running" /\ UNCHANGED <<state, program>>
        /\ phase' # "entering"
    BY <1>1 DEF Load, StartInitFails, StartMismatch, StartDeviceFails,
                StartUndescribed, Start
  <2>2. doc' = file /\ UNCHANGED <<file, recorder, used>>
    BY <1>1 DEF Load
  <2>3. QED
    BY <2>1, <2>2
<1>2. CASE LoadAgain
  <2>1. /\ state = "Idle" /\ program = "running" /\ UNCHANGED <<state, program>>
        /\ phase' # "entering"
    BY <1>2 DEF LoadAgain, Reload, ReloadUndescribed
  <2>2. doc' = file /\ UNCHANGED <<file, recorder>> /\ used' \in Int /\ file > used'
    BY <1>2, Freed DEF LoadAgain
  <2>3. QED
    BY <2>1, <2>2
<1>3. CASE LoadFails
  <2>1. /\ state = "Idle" /\ program = "running"
        /\ UNCHANGED <<state, program, attached>> /\ phase' # "entering"
    BY <1>3 DEF LoadFails, StartLoadFails, ReloadFails
  <2>2. UNCHANGED <<file, recorder>>
    BY <1>3 DEF LoadFails
  <2>3. \/ UNCHANGED <<doc, used>>
        \/ doc' = NoNumber /\ used' \in Int /\ NoNumber > used'
    BY <1>3, Freed DEF LoadFails
  <2>4. QED
    BY <2>1, <2>2, <2>3
<1>4. QED
  BY <1>1, <1>2, <1>3

\* The recorder is told the number of the document: to get as far as Standby
\* the document was loaded.
LEMMA InstructKeepsNumbers ==
  ASSUME IInv, NumbersOK, Instruct
  PROVE  NumbersOK'
<1> USE DEF NumbersOK, NextNumber, Instruct, config, session, devices, machine,
        Entering, Change, Settle
<1>1. CASE EnterStandby
  <2>1. attached # {}
    BY <1>1 DEF EnterStandby, IInv, TypeOK, Sessions, Doomed
  <2>2. QED
    BY <1>1, <2>1 DEF EnterStandby
<1>2. CASE WorkersInitCrashes
  BY <1>2 DEF WorkersInitCrashes
<1>3. ASSUME NEW s \in Severities, WorkersInitFails(s) PROVE NumbersOK'
  BY <1>3, Errors DEF WorkersInitFails
<1>4. QED
  BY <1>1, <1>2, <1>3

\* A run begins and ends.
LEMMA RunKeepsNumbers ==
  ASSUME IInv, NumbersOK, Run \/ Record
  PROVE  NumbersOK'
<1> USE DEF NumbersOK, NextNumber, config, session, machine, Entering, Leaving,
        Settle, Arrive
<1>1. CASE Run
  BY <1>1 DEF Run, EnterActive
<1>2. CASE Record
  <2>1. /\ state = "Active" /\ state' # "Active" /\ program = "running"
        /\ other' = "Active" /\ UNCHANGED <<program, attached>>
    BY <1>2, Errors DEF Record, LeaveActive, StopReadoutFails, IInv, Route
  <2>2. /\ recorder' \in Nat /\ doc' = recorder' /\ UNCHANGED <<file, used>>
        /\ recorder >= used => recorder' > used
    BY <1>2 DEF Record
  <2>3. QED
    BY <2>1, <2>2
<1>3. QED
  BY <1>1, <1>2

\* The program ends, in Idle or by a fatal error, and starts again.
LEMMA SaveKeepsNumbers ==
  ASSUME SamePath, NumbersOK, Save \/ SaveAtFatalError \/ StartAgain
  PROVE  NumbersOK'
<1> USE DEF NumbersOK, NextNumber, NoNumber
<1>1. CASE Save \/ SaveAtFatalError
  <2>1. Store /\ UNCHANGED <<doc, recorder>>
    BY <1>1 DEF Save, SaveAtFatalError
  <2>2. program = "running" /\ program' = "ended" /\ state # "Active"
    BY <1>1 DEF Save, SaveAtFatalError, Exit, EnterFatalError, Entering, Leaving
  <2>3. /\ file' = doc /\ used' \in Int
        /\ doc = NoNumber => NoNumber > used'
        /\ doc # NoNumber => used' = used
    BY <2>1, Freed DEF Store
  <2>4. QED
    BY <2>1, <2>2, <2>3
<1>2. CASE StartAgain
  <2>1. used' \in Int /\ file > used'
    BY <1>2, Freed DEF StartAgain
  <2>2. /\ program' = "running" /\ state' = "Idle" /\ attached' = {}
        /\ doc' = NoNumber /\ recorder' = NoNumber /\ UNCHANGED file
    BY <1>2 DEF StartAgain
  <2>3. QED
    BY <2>1, <2>2
<1>3. QED
  BY <1>1, <1>2

\* The numbers keep their order through every step.
LEMMA NextKeepsNumbers ==
  ASSUME SamePath, IInv, NumbersOK, [NumbersNext]_allVars
  PROVE  NumbersOK'
<1>1. ASSUME UNCHANGED allVars PROVE NumbersOK'
  BY <1>1 DEF allVars, vars, numbers, machine, devices, NumbersOK, NextNumber
<1>2. QED
  BY <1>1, OtherKeepsNumbers, LoadKeepsNumbers, InstructKeepsNumbers,
     RunKeepsNumbers, SaveKeepsNumbers DEF NumbersNext

(***************************************************************************)
(* If updateBMConfig() writes the file that is loaded, the next run is     *)
(* never given a number of an earlier run that the file, the document or   *)
(* the recorder still knows, after whatever errors and however often the   *)
(* program ended, crashed or was killed.  (A kill or a crash frees the     *)
(* numbers from that in the file on, a load in Idle too, and an emptied    *)
(* document all of them.)                                                  *)
(***************************************************************************)
THEOREM NumbersFresh ==
  ASSUME SamePath
  PROVE  NumbersSpec => []RunNumbersFresh
<1>1. NumbersInit => NumbersOK
  BY DEF NumbersInit, Init, NumbersOK, NextNumber, NoNumber
<1>2. NumbersOK => RunNumbersFresh
  BY DEF NumbersOK, NextNumber, RunNumbersFresh, Settled
<1>3. IInv /\ NumbersOK /\ [NumbersNext]_allVars => NumbersOK'
  BY NextKeepsNumbers
<1>4. QED
  BY <1>1, <1>2, <1>3, NumbersIInv, PTL DEF NumbersSpec

-----------------------------------------------------------------------------
(***************************************************************************)
(* The properties of the machine hold in every start of the program.       *)
(* Outside of Active no device is left reading out, if UFEDevice::stop     *)
(* throws no SERIOUS error.                                                *)
(***************************************************************************)
THEOREM StopReachesAgain ==
  ASSUME "SERIOUS" \notin StopErrors
  PROVE  NumbersSpec => []ReadsOnlyInActive
<1>1. NumbersInit => Quiet
  BY DEF NumbersInit, Init, Quiet
<1>2. StartAgain => Quiet'
  BY DEF StartAgain, Quiet
<1>3. Quiet /\ [NumbersNext]_allVars => Quiet'
  BY <1>2, NumbersStep, NextKeepsQuiet
<1>4. IInv /\ Quiet => ReadsOnlyInActive
  BY DEF IInv, Route, Quiet, ReadsOnlyInActive, Settled
<1>5. QED
  BY <1>1, <1>3, <1>4, NumbersIInv, PTL DEF NumbersSpec

\* Every start comes to Standby only with a session, a configuration and all
\* devices, and no crash there or in Active, if the start throws no SERIOUS
\* error.
THEOREM StandbyReadyAgain ==
  ASSUME "SERIOUS" \notin LoadErrors \cup InitErrors
  PROVE  NumbersSpec => []DevicesReady
<1>1. NumbersInit => Ready
  BY DEF NumbersInit, Init, Ready, Starting, Entering
<1>2. StartAgain => Ready'
  BY DEF StartAgain, Ready, Starting, Entering
<1>3. IInv /\ Ready /\ [NumbersNext]_allVars => Ready'
  BY <1>2, NumbersStep, NextKeepsReady
<1>4. QED
  BY <1>1, <1>3, NumbersIInv, ReadyDevices, PTL DEF NumbersSpec

\* Every end, short of a crash or a kill, closes the devices and the session
\* and saves once, if loadBMConfig in Idle throws no FATAL error.
THEOREM EndClosesAgain ==
  ASSUME "FATAL" \notin ReloadErrors
  PROVE  NumbersSpec => []ClosedAtEnd
<1>1. NumbersInit => Closed
  BY DEF NumbersInit, Init, Closed, ClosedAtEnd
<1>2. StartAgain => Closed'
  BY DEF StartAgain, Closed, ClosedAtEnd
<1>3. IInv /\ Closed /\ [NumbersNext]_allVars => Closed'
  BY <1>2, NumbersStep, NextKeepsClosed
<1>4. Closed => ClosedAtEnd
  BY DEF Closed
<1>5. QED
  BY <1>1, <1>3, <1>4, NumbersIInv, PTL DEF NumbersSpec

-----------------------------------------------------------------------------
(***************************************************************************)
(* The commands on their way to the state machine, with any number of      *)
(* devices, of commands that wait, and of uses of the window.              *)
(***************************************************************************)

\* No run goes on, and none is about to begin.
Stopped ==
  program = "running" =>
    /\ state = "Active" => phase = "leaving"
    /\ ~(state = "Standby" /\ phase = "leaving" /\ other = "Active")

\* Without workers, or on the way to dismiss them.
GoingQuiet ==
  program = "running" =>
    \/ state = "Idle" /\ (phase = "leaving" => other \in {"Failure", "FatalError"})
    \/ state = "Standby" /\ phase = "leaving" /\ other = "Idle"
    \/ state = "Failure" /\ (phase = "leaving" \/ hired = NoCrew)
    \/ state = "FatalError"

\* What was asked for last waits at the end of the queue; what does not wait
\* has been served.
Last(n) == inbox[Len(inbox) - n]

AskedOrServed ==
  /\ inbox # <<>> => asked[2] \in {NoCommand, Last(0)}
  /\ Len(inbox) >= 2 => asked[1] \in {NoCommand, Last(1)}
  /\ asked[2] = "Stop" /\ inbox = <<>> => Stopped
  /\ asked = <<"Stop", "Off">> => /\ Len(inbox) = 1 => Stopped
                                  /\ inbox = <<>> => GoingQuiet

ControlOK ==
  /\ inbox \in Seq(Commands) /\ asked \in Commands \X Commands
  /\ linked \in BOOLEAN
  /\ control = "local" => inbox = <<>> /\ ~linked
  /\ AskedOrServed

-----------------------------------------------------------------------------
\* Whoever gives the commands, the machine takes the steps of RunControl.
LEMMA ControlStep == [ControlNext]_controlledVars => [Next]_vars
<1>1. ASSUME NEW x, Obey(x) PROVE [Next]_vars
  BY <1>1 DEF Obey, Stay, Next, Operator
<1>2. CASE Machine
  BY <1>2 DEF Machine, Next
<1>3. CASE (\E x \in Commands : Type(x)) \/ Mistype \/ ReadNothing
  BY <1>1, <1>3 DEF Type, Mistype, ReadNothing
<1>4. CASE Receive \/ ReceiveFails
  BY <1>1, <1>4 DEF Receive, ReceiveFails
<1>5. CASE OpenWindow \/ CloseWindow \/ (\E x \in Buttons : Press(x)) \/ Link \/ Unlink
  BY <1>5 DEF OpenWindow, CloseWindow, Press, Pressing, Link, Unlink
<1>6. CASE UNCHANGED controlledVars
  BY <1>6 DEF controlledVars
<1>7. QED
  BY <1>2, <1>3, <1>4, <1>5, <1>6 DEF ControlNext

\* The invariant of the machine holds whatever the operator and the window do.
LEMMA ControlIInv == ControlSpec => []IInv
<1>1. ControlInit => IInv
  BY InitIInv DEF ControlInit
<1>2. IInv /\ [ControlNext]_controlledVars => IInv'
  BY ControlStep, NextKeepsIInv
<1>3. QED
  BY <1>1, <1>2, PTL DEF ControlSpec

\* Left to itself, a machine that is stopped does not begin a run.
LEMMA MachineKeepsStopped ==
  ASSUME IInv, Stopped, Callback \/ \E s \in Severities : WorkerError(s)
  PROVE  Stopped'
<1> USE DEF Stopped, machine, Entering, Leaving, Settled, Change, Settle, Arrive
<1>1. CASE \/ \E s \in LoadErrors : StartLoadFails(s)
           \/ StartInitFails \/ StartMismatch
           \/ \E d \in Devices, s \in InitErrors : StartDeviceFails(d, s)
           \/ \E d \in Devices : StartUndescribed(d)
           \/ \E leds \in BOOLEAN : Start(leds)
  BY <1>1 DEF StartLoadFails, StartInitFails, StartMismatch, StartDeviceFails,
              StartUndescribed, Start, Starting
<1>2. CASE EnterIdle \/ LeaveIdle \/ Exit \/ ExitLedsFail
  BY <1>2 DEF EnterIdle, LeaveIdle, Exit, ExitLedsFail, IInv, Route
<1>3. CASE \/ \E d \in Devices, s \in Severities : ConfigureFails(d, s)
           \/ EnterStandby \/ WorkersInitCrashes
           \/ \E s \in Severities : WorkersInitFails(s)
           \/ LeaveStandby
  BY <1>3, Errors DEF ConfigureFails, EnterStandby, WorkersInitCrashes,
                      WorkersInitFails, LeaveStandby
<1>4. CASE \/ EnterActive \/ LeaveActive
           \/ \E d \in Devices, s \in Severities : StartReadoutFails(d, s)
           \/ \E d \in Devices, s \in StopErrors : StopReadoutFails(d, s)
           \/ \E s \in Severities : WorkerError(s)
  BY <1>4, Errors DEF EnterActive, LeaveActive, StartReadoutFails,
                      StopReadoutFails, WorkerError, Command, IInv, Route
<1>5. CASE EnterFailure \/ LeaveFailure \/ EnterFatalError \/ SessionCrashes
  BY <1>5 DEF EnterFailure, LeaveFailure, EnterFatalError, SessionCrashes, IInv,
              Route
<1>6. QED
  BY <1>1, <1>2, <1>3, <1>4, <1>5 DEF Callback

\* Left to itself, a machine without workers, or on the way there, stays so.
LEMMA MachineKeepsQuiet ==
  ASSUME IInv, GoingQuiet, Callback \/ \E s \in Severities : WorkerError(s)
  PROVE  GoingQuiet'
<1> USE DEF GoingQuiet, machine, crew, Entering, Leaving, Settled, Change,
        Settle, Arrive
<1>1. CASE \/ \E s \in LoadErrors : StartLoadFails(s)
           \/ StartInitFails \/ StartMismatch
           \/ \E d \in Devices, s \in InitErrors : StartDeviceFails(d, s)
           \/ \E d \in Devices : StartUndescribed(d)
           \/ \E leds \in BOOLEAN : Start(leds)
  BY <1>1, Errors
     DEF StartLoadFails, StartInitFails, StartMismatch, StartDeviceFails,
         StartUndescribed, Start, Starting
<1>2. CASE EnterIdle \/ LeaveIdle \/ Exit \/ ExitLedsFail
  BY <1>2 DEF EnterIdle, LeaveIdle, Exit, ExitLedsFail, IInv, Staff, NoCrew
<1>3. CASE \/ \E d \in Devices, s \in Severities : ConfigureFails(d, s)
           \/ EnterStandby \/ WorkersInitCrashes
           \/ \E s \in Severities : WorkersInitFails(s)
           \/ LeaveStandby
  BY <1>3 DEF ConfigureFails, EnterStandby, WorkersInitCrashes,
              WorkersInitFails, LeaveStandby
<1>4. CASE \/ EnterActive \/ LeaveActive
           \/ \E d \in Devices, s \in Severities : StartReadoutFails(d, s)
           \/ \E d \in Devices, s \in StopErrors : StopReadoutFails(d, s)
           \/ \E s \in Severities : WorkerError(s)
  BY <1>4 DEF EnterActive, LeaveActive, StartReadoutFails, StopReadoutFails,
              WorkerError, Command
<1>5. CASE EnterFailure \/ LeaveFailure \/ EnterFatalError \/ SessionCrashes
  BY <1>5 DEF EnterFailure, LeaveFailure, EnterFatalError, SessionCrashes, IInv,
              Route, NoCrew
<1>6. QED
  BY <1>1, <1>2, <1>3, <1>4, <1>5 DEF Callback

\* Once Stop was obeyed the machine is stopped.
LEMMA ObeyStop == ASSUME IInv, Obey("Stop") PROVE Stopped'
<1> USE DEF Stopped, machine, Settled, Change
<1>1. CASE Stop
  BY <1>1 DEF Stop, Command
<1>2. CASE ~Understood("Stop") /\ Stay
  <2>1. state # "Active"
    BY <1>2 DEF Understood
  <2>2. QED
    BY <1>2, <2>1 DEF Stay, Reload, ShowLastRun, ReloadUndescribed, ReloadFails,
                      vars
<1>3. QED
  BY <1>1, <1>2 DEF Obey

\* Once Off was obeyed by a machine that was stopped, its workers go.
LEMMA ObeyOff == ASSUME IInv, Stopped, Obey("Off") PROVE GoingQuiet'
<1> USE DEF machine, crew, Settled, Change
<1>1. CASE Off
  BY <1>1 DEF Off, Command, GoingQuiet
<1>2. CASE ~Understood("Off") /\ Stay
  <2>1. state \notin {"Standby", "Failure"}
    BY <1>2 DEF Understood
  <2>2. QED
    BY <1>2, <2>1, Errors DEF Stay, Reload, ShowLastRun, ReloadUndescribed,
       ReloadFails, vars, Stopped, GoingQuiet
<1>3. QED
  BY <1>1, <1>2 DEF Obey

-----------------------------------------------------------------------------
\* The operator at the terminal: what is typed is served at once.
LEMMA TypingKeepsControl ==
  ASSUME IInv, ControlOK, (\E x \in Commands : Type(x)) \/ Mistype \/ ReadNothing
  PROVE  ControlOK'
<1> USE DEF ControlOK, AskedOrServed
<1>1. ASSUME NEW x \in Commands, Type(x) PROVE ControlOK'
  <2>1. inbox = <<>> /\ inbox' = <<>> /\ control' = control /\ linked' = linked
        /\ asked' = <<asked[2], x>> /\ Obey(x)
    BY <1>1 DEF Type
  <2>2. x = "Stop" => Stopped'
    BY <2>1, ObeyStop
  <2>3. asked[2] = "Stop" /\ x = "Off" => GoingQuiet'
    BY <2>1, ObeyOff
  <2>4. QED
    BY <2>1, <2>2, <2>3
<1>2. CASE Mistype \/ ReadNothing
  <2>1. inbox = <<>> /\ inbox' = <<>> /\ control' = control /\ linked' = linked
        /\ asked' = Forgotten
    BY <1>2 DEF Mistype, ReadNothing
  <2>2. QED
    BY <2>1 DEF Forgotten, NoCommand, Commands
<1>3. QED
  BY <1>1, <1>2

\* A command is received, and served.
LEMMA ReceivingKeepsControl ==
  ASSUME IInv, ControlOK, Receive \/ ReceiveFails
  PROVE  ControlOK'
<1> USE DEF ControlOK, AskedOrServed
<1>1. CASE Receive
  <2>1. /\ inbox # <<>> /\ inbox' = Tail(inbox) /\ Obey(Head(inbox))
        /\ UNCHANGED <<control, linked, asked>> /\ control = "remote"
    BY <1>1 DEF Receive
  <2>2. /\ inbox' \in Seq(Commands) /\ Len(inbox') = Len(inbox) - 1
        /\ \A i \in 1..Len(inbox') : inbox'[i] = inbox[i + 1]
        /\ inbox' = <<>> <=> Len(inbox) = 1
        /\ Head(inbox) = inbox[1] /\ Len(inbox) \in Nat \ {0}
    <3>1. inbox \in Seq(Commands) /\ inbox # <<>>
      BY <2>1
    <3>2. /\ Tail(inbox) \in Seq(Commands) /\ Len(Tail(inbox)) = Len(inbox) - 1
          /\ \A i \in 1..Len(Tail(inbox)) : Tail(inbox)[i] = inbox[i + 1]
      BY <3>1, HeadTailProperties
    <3>3. Len(inbox) \in Nat \ {0} /\ Head(inbox) = inbox[1]
      <4>1. Len(inbox) \in Nat
        BY <3>1, LenProperties
      <4>2. Len(inbox) # 0
        BY <3>1, EmptySeq
      <4>3. QED
        BY <3>1, <4>1, <4>2
    <3>4. inbox' = <<>> <=> Len(inbox) = 1
      <4>1. inbox' \in Seq(Commands)
        BY <2>1, <3>2
      <4>2. Len(inbox') = 0 <=> inbox' = <<>>
        BY <4>1, EmptySeq
      <4>3. Len(inbox') = Len(inbox) - 1
        BY <2>1, <3>2
      <4>4. QED
        BY <3>3, <4>2, <4>3
    <3>5. QED
      BY <2>1, <3>2, <3>3, <3>4
  <2>3. inbox' # <<>> => Last(0)' = Last(0)
    BY <2>2 DEF Last
  <2>4. Len(inbox') >= 2 => Last(1)' = Last(1)
    BY <2>2 DEF Last
  <2>5. asked'[2] = "Stop" /\ inbox' = <<>> => Stopped'
    BY <2>1, <2>2, ObeyStop DEF Last, NoCommand
  <2>6. ASSUME asked' = <<"Stop", "Off">>, Len(inbox') = 1
        PROVE  Stopped'
    <3>1. asked = <<"Stop", "Off">>
      BY <2>1, <2>6
    <3>2. asked[1] = "Stop"
      BY <3>1
    <3>3. Len(inbox) - 1 = 1
      BY <2>2, <2>6
    <3>4. Len(inbox) = 2
      BY <3>3, <2>2
    <3>5. Head(inbox) = "Stop"
      BY <2>2, <3>2, <3>4 DEF Last, NoCommand
    <3>6. QED
      BY <2>1, <3>5, ObeyStop
  <2>7. ASSUME asked' = <<"Stop", "Off">>, inbox' = <<>>
        PROVE  GoingQuiet'
    BY <2>1, <2>2, <2>7, ObeyOff DEF Last, NoCommand
  <2>8. QED
    BY <2>1, <2>2, <2>3, <2>4, <2>5, <2>6, <2>7
<1>2. CASE ReceiveFails
  BY <1>2 DEF ReceiveFails, Forgotten, NoCommand, Commands
<1>3. QED
  BY <1>1, <1>2

\* A button is pressed.
LEMMA PressKeepsControl ==
  ASSUME ControlOK, NEW x \in Buttons, Press(x)
  PROVE  ControlOK'
<1> USE DEF ControlOK, AskedOrServed
<1>1. /\ control = "remote" /\ UNCHANGED <<vars, control, linked>>
      /\ SendCommand(x)
  BY DEF Press, Pressing
<1>2. (Stopped <=> Stopped') /\ (GoingQuiet <=> GoingQuiet')
  BY <1>1 DEF vars, machine, crew, Stopped, GoingQuiet, NoCrew
<1>3. CASE linked
  <2>1. /\ inbox' = Append(inbox, x) /\ asked' = <<asked[2], x>> /\ x \in Commands
    BY <1>1, <1>3 DEF SendCommand, Commands
  <2>2. /\ inbox' \in Seq(Commands) /\ Len(inbox') = Len(inbox) + 1
        /\ \A i \in 1..Len(inbox) : inbox'[i] = inbox[i]
        /\ inbox'[Len(inbox) + 1] = x /\ inbox' # <<>> /\ Len(inbox) \in Nat
        /\ Len(inbox) = 0 <=> inbox = <<>>
    BY <2>1
  <2>3. Last(0)' = x /\ (Len(inbox') >= 2 => Last(1)' = Last(0))
    BY <2>2 DEF Last
  <2>4. QED
    BY <1>1, <1>2, <2>1, <2>2, <2>3
<1>4. CASE ~linked
  BY <1>1, <1>4 DEF SendCommand, Forgotten, NoCommand, Commands
<1>5. QED
  BY <1>3, <1>4

\* The window and the connection come and go: what was asked for is forgotten.
LEMMA WindowKeepsControl ==
  ASSUME ControlOK, OpenWindow \/ CloseWindow \/ Link \/ Unlink
  PROVE  ControlOK'
<1> USE DEF ControlOK, AskedOrServed
<1>1. CASE OpenWindow
  BY <1>1 DEF OpenWindow, Pressing, vars, machine, crew, Stopped, GoingQuiet,
              NoCrew, Last
<1>2. CASE CloseWindow
  <2>1. control = "remote" /\ control' = control /\ asked' = Forgotten /\ linked' = FALSE
    BY <1>2 DEF CloseWindow, Pressing
  <2>2. inbox' \in Seq(Commands)
    <3> DEFINE out == IF linked THEN Append(inbox, "Exit") ELSE inbox
    <3>1. out \in Seq(Commands)
      BY DEF Commands
    <3>2. \A n \in 0..Len(out) : SubSeq(out, 1, n) \in Seq(Commands)
      BY <3>1
    <3>3. QED
      BY <1>2, <3>2 DEF CloseWindow
  <2>3. QED
    BY <2>1, <2>2 DEF Forgotten, NoCommand, Commands
<1>3. CASE Link
  BY <1>3 DEF Link, Forgotten, NoCommand, Commands
<1>4. CASE Unlink
  <2>1. /\ UNCHANGED control /\ asked' = Forgotten /\ linked' = FALSE /\ linked
    BY <1>4 DEF Unlink
  <2>2. inbox' \in Seq(Commands)
    BY <1>4 DEF Unlink
  <2>3. QED
    BY <2>1, <2>2 DEF Forgotten, NoCommand, Commands
<1>5. QED
  BY <1>1, <1>2, <1>3, <1>4

\* The order of the commands survives every step.
LEMMA NextKeepsControl == IInv /\ ControlOK /\ [ControlNext]_controlledVars => ControlOK'
<1> SUFFICES ASSUME IInv, ControlOK, [ControlNext]_controlledVars PROVE ControlOK'
  OBVIOUS
<1>1. CASE Machine
  BY <1>1, MachineKeepsStopped, MachineKeepsQuiet
     DEF Machine, ControlOK, AskedOrServed, controlVars, Last
<1>2. CASE UNCHANGED controlledVars
  BY <1>2 DEF controlledVars, vars, controlVars, machine, crew, ControlOK, AskedOrServed,
              Last, Stopped, GoingQuiet, NoCrew
<1>3. QED
  BY <1>1, <1>2, TypingKeepsControl, ReceivingKeepsControl, PressKeepsControl,
     WindowKeepsControl DEF ControlNext

(***************************************************************************)
(* When Stop and then Off have come over, or were typed, and are served,   *)
(* no run goes on and no workers are left, however many other commands     *)
(* were lost before and whatever the callbacks throw.                      *)
(***************************************************************************)
THEOREM StopOffCorrect == ControlSpec => []StopOffQuiets
<1>1. ControlInit => ControlOK
  <2> SUFFICES ASSUME ControlInit PROVE ControlOK
    OBVIOUS
  <2>1. linked \in BOOLEAN /\ ~linked
    BY Zenon DEF ControlInit
  <2>2. inbox = <<>> /\ inbox \in Seq(Commands) /\ Len(inbox) = 0
    BY DEF ControlInit
  <2>3. asked = <<NoCommand, NoCommand>> /\ asked \in Commands \X Commands
    BY DEF ControlInit, Forgotten, Commands
  <2>4. QED
    BY <2>1, <2>2, <2>3 DEF ControlOK, AskedOrServed, NoCommand
<1>2. IInv /\ ControlOK => StopOffQuiets
  BY DEF IInv, Staff, ControlOK, AskedOrServed, GoingQuiet, StopOffQuiets,
         Waiting, Settled, NoCrew, Route
<1>3. QED
  BY <1>1, <1>2, ControlIInv, NextKeepsControl, PTL DEF ControlSpec

-----------------------------------------------------------------------------
\* Whoever gives the commands, the variables of the machine keep their types.
THEOREM TypeCorrectControlled == ControlSpec => []TypeOK
BY ControlIInv, IInvCrew, PTL

\* Whoever gives the commands, Standby and Active have one worker of each
\* kind and one readout worker for each device, and Idle has none.
THEOREM CrewCorrectControlled == ControlSpec => []CrewMatchesState
BY ControlIInv, IInvCrew, PTL

=============================================================================
