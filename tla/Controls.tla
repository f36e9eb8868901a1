------------------------------ MODULE Controls ------------------------------
(***************************************************************************)
(* Where the state machine gets its commands: bm_daq_local_ctrl reads them *)
(* from a terminal, bm_daq_remote_ctrl receives those the buttons of       *)
(* bm_daq_gui publish.  Both run the same loop of Fsm: when the machine    *)
(* has settled it calls the input function, which waits for a command.     *)
(*                                                                         *)
(* Fsm and ZeroMQ are not in the repository.  Of them it is assumed that a *)
(* command that means nothing in the present state calls whenSameStateDo,  *)
(* that the messages of a publisher reach a subscriber in their order or   *)
(* not at all, and that only those sent after its subscription has come    *)
(* through are sent to it.  The 1000 messages that ZeroMQ keeps for a      *)
(* subscriber are more than MaxPresses.                                    *)
(***************************************************************************)
EXTENDS RunControl, Sequences

CONSTANTS
  Programs,   \* which of the two programs runs
  MaxPresses  \* how often buttons are pressed and windows opened (a bound)

ASSUME ProgramsAssumption == Programs \subseteq {"local", "remote"}
ASSUME PressesAssumption == MaxPresses \in Nat

Buttons == {"On", "Start", "Stop", "Off"}
NoCommand == "None"       \* a number that is none of the commands
Commands == Buttons \cup {"Exit", NoCommand}

VARIABLES
  control,   \* the program that runs the machine
  terminal,  \* cin of bm_daq_local_ctrl is "good" or "failed"
  window,    \* the window of bm_daq_gui is "open" or "closed"
  linked,    \* the window's socket knows of the control's subscription
  inbox,     \* the commands that wait for zmq_recv
  presses,   \* how often the operator has used the windows
  asked      \* history: the operator's last two commands, if none since was
             \* lost or made up

controlVars == <<control, terminal, window, linked, inbox, presses, asked>>
controlledVars == <<vars, controlVars>>
Forgotten == <<NoCommand, NoCommand>>

ControlInit ==
  /\ Init
  /\ control \in Programs
  /\ terminal = "good"
  /\ window = "closed" /\ linked = FALSE /\ inbox = <<>>
  /\ presses = 0 /\ asked = Forgotten

-----------------------------------------------------------------------------
\* Mutant of Waiting: in Failure no command is asked for.
WaitingUnlessFailed ==
  Settled("Idle") \/ Settled("Standby") \/ Settled("Active")

\* Fsm::start waits for the input function.
Waiting == \E s \in States : Settled(s)

\* The commands that change the state; the others call whenSameStateDo.
Understood(x) ==
  <<state, x>> \in {<<"Idle", "On">>, <<"Idle", "Exit">>,
                    <<"Standby", "Start">>, <<"Standby", "Off">>,
                    <<"Active", "Stop">>, <<"Failure", "Off">>}

Stay ==
  \/ Reload \/ ShowLastRun
  \/ \E d \in Devices : ReloadUndescribed(d)
  \/ \E s \in ReloadErrors : ReloadFails(s)
  \/ (Settled("Active") \/ Settled("Failure")) /\ UNCHANGED vars

\* Fsm::start has got the command x.
Obey(x) ==
  /\ Waiting
  /\ \/ x = "On" /\ On
     \/ x = "Start" /\ Begin
     \/ x = "Stop" /\ Stop
     \/ x = "Off" /\ Off
     \/ x = "Exit" /\ Quit
     \/ ~Understood(x) /\ Stay

-----------------------------------------------------------------------------
\* localInput.  The operator types a number.
Type(x) ==
  /\ control = "local" /\ terminal = "good"
  /\ Obey(x)
  /\ asked' = <<asked[2], x>>
  /\ UNCHANGED <<control, terminal, window, linked, inbox, presses>>

\* What is typed is no number: choice is 0, and cin fails from now on.
Mistype ==
  /\ control = "local" /\ terminal = "good"
  /\ Obey(NoCommand)
  /\ terminal' = "failed" /\ asked' = Forgotten
  /\ UNCHANGED <<control, window, linked, inbox, presses>>

\* The input has ended or has failed before: choice is what the stack holds.
ReadNothing ==
  /\ control = "local"
  /\ \E x \in Commands : Obey(x)
  /\ terminal' = "failed" /\ asked' = Forgotten
  /\ UNCHANGED <<control, window, linked, inbox, presses>>

-----------------------------------------------------------------------------
\* remoteInput: zmq_recv returns a command ...
Receive ==
  /\ control = "remote" /\ inbox # <<>>
  /\ Obey(Head(inbox))
  /\ inbox' = Tail(inbox)
  /\ UNCHANGED <<control, terminal, window, linked, presses, asked>>

\* ... or fails: "Network error! Exit."
ReceiveFails ==
  /\ control = "remote"
  /\ Obey("Exit")
  /\ asked' = Forgotten
  /\ UNCHANGED <<control, terminal, window, linked, inbox, presses>>

-----------------------------------------------------------------------------
\* The window.  Whether zmq_bind succeeds is not looked at: a window whose
\* port is taken is one that is never linked.
Pressing ==
  /\ control = "remote" /\ presses < MaxPresses
  /\ presses' = presses + 1
  /\ UNCHANGED <<vars, control, terminal>>

OpenWindow ==
  /\ window = "closed"
  /\ Pressing
  /\ window' = "open"
  /\ UNCHANGED <<linked, inbox, asked>>

\* Mutant of SendCommand: a command is put ahead of those that wait.
SendCommandFirst(x) ==
  IF linked THEN inbox' = <<x>> \o inbox /\ asked' = <<asked[2], x>>
            ELSE inbox' = inbox /\ asked' = Forgotten

\* sendCommand, when zmq_send succeeds.
SendCommand(x) ==
  IF linked THEN inbox' = Append(inbox, x) /\ asked' = <<asked[2], x>>
            ELSE inbox' = inbox /\ asked' = Forgotten

\* handleOn, handleStart, hendleStop, hendleOff.
Press(x) ==
  /\ window = "open"
  /\ Pressing
  /\ SendCommand(x)
  /\ UNCHANGED <<window, linked>>

\* The window is closed by the operator, or by sendCommand when zmq_send
\* fails: closeEvent sends Exit, a failure of which changes nothing more, and
\* bm_daq_gui ends without closing its socket, with what is still in it.
CloseWindow ==
  /\ window = "open"
  /\ Pressing
  /\ window' = "closed" /\ linked' = FALSE
  /\ LET out == IF linked THEN Append(inbox, "Exit") ELSE inbox
     IN  \E n \in 0..Len(out) : inbox' = SubSeq(out, 1, n)
  /\ asked' = Forgotten

-----------------------------------------------------------------------------
\* The connection comes up, now or again, and goes down.
Link ==
  /\ control = "remote" /\ program = "running"
  /\ window = "open" /\ ~linked
  /\ linked' = TRUE /\ asked' = Forgotten
  /\ UNCHANGED <<vars, control, terminal, window, inbox, presses>>

Unlink ==
  /\ linked
  /\ linked' = FALSE /\ asked' = Forgotten
  /\ \E n \in 0..Len(inbox) : inbox' = SubSeq(inbox, 1, n)
  /\ UNCHANGED <<vars, control, terminal, window, presses>>

-----------------------------------------------------------------------------
Machine ==
  /\ Callback \/ \E s \in Severities : WorkerError(s)
  /\ UNCHANGED controlVars

ControlNext ==
  \/ Machine
  \/ \E x \in Commands : Type(x)
  \/ Mistype \/ ReadNothing
  \/ Receive \/ ReceiveFails
  \/ OpenWindow \/ CloseWindow
  \/ \E x \in Buttons : Press(x)
  \/ Link \/ Unlink

ControlSpec == ControlInit /\ [][ControlNext]_controlledVars

\* Callbacks return, and Fsm asks for the next command.
FairControlSpec ==
  /\ ControlSpec
  /\ WF_controlledVars(Callback /\ UNCHANGED controlVars)
  /\ WF_controlledVars(Receive)

-----------------------------------------------------------------------------
(***************************************************************************)
(* The window shows no state and gets no answer, and commands may be lost  *)
(* before and between.  Yet an operator who presses Stop and then Off over *)
(* a standing connection knows, once they are served, that no run goes on  *)
(* and no workers are left, whatever was lost or failed before: no path    *)
(* through the errors of the callbacks leads elsewhere.                    *)
(***************************************************************************)
StopOffQuiets ==
  asked = <<"Stop", "Off">> /\ inbox = <<>> /\ Waiting =>
    state \in {"Idle", "Failure"} /\ hired = NoCrew

(***************************************************************************)
(* A command that has come over is served, unless the connection cuts it   *)
(* off: a machine that settles in whatever state, Failure too, asks for    *)
(* the next command.                                                       *)
(***************************************************************************)
CommandsServed ==
  inbox # <<>> ~> inbox = <<>> \/ program # "running"

(***************************************************************************)
(* Exit in Idle ends the program in order, with the LEDs or without: by    *)
(* way of FatalError at the worst, and never back to a state that waits.   *)
(* Only without a session may it crash on the way.                         *)
(***************************************************************************)
ExitEnds ==
  Leaving("Idle") /\ other = "Undefined" ~>
    program = "ended" \/ (program = "crashed" /\ inits = exits)

=============================================================================
