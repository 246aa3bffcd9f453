------------------------------ MODULE TwinSession ------------------------------
(***************************************************************************)
(* The IDE's live twin: the twin half of the studio webview                *)
(* (apps/ide/media/studio.js), the panel's handlers                        *)
(* (apps/ide/src/panels/studioPanel.ts), the child processes spawned by    *)
(* core/studio/src/twin.ts, and the command loop of twin_studio.           *)
(*                                                                         *)
(* Webview and panel exchange messages over two queues.  A handler of the  *)
(* panel runs until its first await that has to wait, which here is the    *)
(* build of the binary; an event of a child process is handled whenever it *)
(* comes, by the closure that spawned the child.  Posting to a panel that  *)
(* was disposed throws.                                                    *)
(***************************************************************************)
EXTENDS Integers, Sequences, FiniteSets

CONSTANTS
    Patient,      \* does the user wait for the answer before starting again?
    NoTwin,       \* this.twin is undefined
    MaxRuns,      \* bound on the processes and builds started
    MaxCommands,  \* bound on the mode buttons clicked
    MaxQueue      \* bound on the messages under way in one direction

ASSUME BoundsAssumption == MaxRuns \in Nat /\ MaxCommands \in Nat /\ MaxQueue \in Nat
ASSUME PatientAssumption == Patient \in BOOLEAN
ASSUME NoTwinAssumption == NoTwin \notin Nat

VARIABLES
    open,         \* is there a panel?
    running,      \* webview: twin.running
    shown,        \* webview, history: the run of the last twinStarted
    toHost,       \* messages from the webview
    toView,       \* messages to the webview
    twin,         \* panel: the handle it holds
    starts,       \* panel: startTwin calls that wait for the build
    builds,       \* how many makes run, the ones of earlier panels included
    binary,       \* is there a binary to run?
    runs,         \* how many processes were spawned
    mine,         \* the runs this panel spawned
    proc,         \* the state of each run's process
    stdin,        \* the commands under way to each process
    driven,       \* the commands each process applied
    clicks        \* how many mode buttons were clicked

view == <<running, shown>>
processes == <<runs, mine, proc, stdin, driven>>
making == <<starts, builds, binary>>
vars == <<open, view, toHost, toView, twin, making, processes, clicks>>

Runs == 1..MaxRuns

Init ==
    /\ open = FALSE
    /\ running = FALSE /\ shown = NoTwin
    /\ toHost = <<>> /\ toView = <<>>
    /\ twin = NoTwin
    /\ starts = 0 /\ builds = 0
    /\ binary \in BOOLEAN
    /\ runs = 0 /\ mine = {}
    /\ proc = [r \in Runs |-> "unborn"]
    /\ stdin = [r \in Runs |-> <<>>]
    /\ driven = [r \in Runs |-> <<>>]
    /\ clicks = 0

--------------------------------------------------------------------------------
(* The webview.  The button says Stop while running and Start otherwise.   *)
SendToHost(m) ==
    /\ Len(toHost) + Len(toView) < MaxQueue
    /\ toHost' = Append(toHost, m)

Clicked(type) == {i \in 1..Len(toHost) : toHost[i].type = type}

Answered ==
    /\ toHost = <<>> /\ starts = 0
    /\ \A i \in 1..Len(toView) : toView[i].type \notin {"twinStarted", "twinError"}

ClickStart ==
    /\ open /\ ~running
    /\ Patient => Answered
    /\ runs + builds + Cardinality(Clicked("startTwin")) < MaxRuns
    /\ SendToHost([type |-> "startTwin"])
    /\ UNCHANGED <<open, view, toView, twin, making, processes, clicks>>

ClickStop ==
    /\ open /\ running
    /\ SendToHost([type |-> "stopTwin"])
    /\ UNCHANGED <<open, view, toView, twin, making, processes, clicks>>

(* Mutant: a mode button works while no twin runs. *)
ClickMode_Always ==
    /\ open
    /\ clicks < MaxCommands
    /\ clicks' = clicks + 1
    /\ SendToHost([type |-> "twinCommand", run |-> shown, number |-> clicks'])
    /\ UNCHANGED <<open, view, toView, twin, making, processes>>

(* The run and the number of a command are history: the message names an   *)
(* actuator and a mode.                                                    *)
ClickMode ==
    /\ open /\ running
    /\ clicks < MaxCommands
    /\ clicks' = clicks + 1
    /\ SendToHost([type |-> "twinCommand", run |-> shown, number |-> clicks'])
    /\ UNCHANGED <<open, view, toView, twin, making, processes>>

ViewReceives ==
    /\ toView # <<>>
    /\ LET m == Head(toView) IN
         /\ running' = (m.type = "twinStarted" \/ (m.type = "twinStatus" /\ running))
         /\ shown' = IF m.type = "twinStarted" THEN m.run ELSE shown
    /\ toView' = Tail(toView)
    /\ UNCHANGED <<open, toHost, twin, making, processes, clicks>>

--------------------------------------------------------------------------------
(* The panel. *)
Started(r) == [type |-> "twinStarted", run |-> r]
Failure == [type |-> "twinError"]
Exited == [type |-> "twinExit"]

Post(message) == toView' = Append(toView, message)

(* ChildProcess.kill: SIGTERM to a process that is alive. *)
Killed(r) == [proc EXCEPT ![r] = IF @ = "alive" THEN "killed" ELSE @]

(* stopTwin, the effect on the processes. *)
AfterStop == IF twin = NoTwin THEN proc ELSE Killed(twin)

(* The end of startTwin: twinStarted is posted, then the process is        *)
(* spawned and its handle kept.  The spawn itself may fail, which the      *)
(* process reports later.                                                  *)
Spawn(processesNow) ==
    /\ runs' = runs + 1
    /\ \E outcome \in {"alive", "failed"} :
          proc' = [processesNow EXCEPT ![runs'] = outcome]
    /\ twin' = runs'
    /\ mine' = mine \union {runs'}
    /\ Post(Started(runs'))
    /\ UNCHANGED <<stdin, driven>>

Receive(type) ==
    /\ toHost # <<>>
    /\ Head(toHost).type = type
    /\ toHost' = Tail(toHost)

(* startTwin on a device that does not compile or has no sensor, or where  *)
(* there is no binary and no source tree to build it from.                 *)
StartRefused ==
    /\ Receive("startTwin")
    /\ proc' = AfterStop
    /\ twin' = NoTwin
    /\ Post(Failure)
    /\ UNCHANGED <<open, view, making, runs, mine, stdin, driven, clicks>>

StartNow ==
    /\ Receive("startTwin")
    /\ binary
    /\ Spawn(AfterStop)
    /\ UNCHANGED <<open, view, making, clicks>>

(* The handler is suspended in ensureTwinBinary. *)
StartBuild ==
    /\ Receive("startTwin")
    /\ ~binary
    /\ proc' = AfterStop
    /\ twin' = NoTwin
    /\ starts' = starts + 1
    /\ builds' = builds + 1
    /\ Post([type |-> "twinStatus"])
    /\ UNCHANGED <<open, view, binary, runs, mine, stdin, driven, clicks>>

(* Mutant: the process is stopped and its handle kept. *)
StopTwin_Keep == proc' = AfterStop /\ UNCHANGED twin

(* Mutant: the handle is dropped and the process left running. *)
StopTwin_Forget == twin' = NoTwin /\ UNCHANGED proc

StopTwin ==
    /\ proc' = AfterStop
    /\ twin' = NoTwin

HostStop ==
    /\ Receive("stopTwin")
    /\ StopTwin
    /\ UNCHANGED <<open, view, toView, making, runs, mine, stdin, driven, clicks>>

(* this.twin?.command *)
Target == IF twin = NoTwin THEN 0 ELSE twin

HostCommand ==
    /\ Receive("twinCommand")
    /\ stdin' = [r \in Runs |->
                   IF r = Target THEN Append(stdin[r], Head(toHost)) ELSE stdin[r]]
    /\ UNCHANGED <<open, view, toView, twin, making, runs, mine, proc, driven, clicks>>

--------------------------------------------------------------------------------
(* buildTwin.  make puts the binary in place before it exits. *)
MakeLinks ==
    /\ builds > 0 /\ ~binary
    /\ binary' = TRUE
    /\ UNCHANGED <<open, view, toHost, toView, twin, starts, builds, processes, clicks>>

(* The handler goes on where it was suspended; nothing is stopped again. *)
BuildSucceeds ==
    /\ starts > 0 /\ binary
    /\ starts' = starts - 1
    /\ builds' = builds - 1
    /\ Spawn(proc)
    /\ UNCHANGED <<open, view, toHost, binary, clicks>>

BuildFails ==
    /\ starts > 0
    /\ starts' = starts - 1
    /\ builds' = builds - 1
    /\ Post(Failure)
    /\ UNCHANGED <<open, view, toHost, twin, binary, processes, clicks>>

(* The build of a panel that was closed: its startTwin ends by throwing. *)
StaleBuildEnds ==
    /\ builds > starts
    /\ builds' = builds - 1
    /\ UNCHANGED <<open, view, toHost, toView, twin, starts, binary, processes, clicks>>

--------------------------------------------------------------------------------
(* The processes. *)

(* Mutant: the handle is forgotten without telling the webview. *)
OnEnd_Silent(r, message) ==
    /\ twin' = NoTwin
    /\ UNCHANGED toView

(* onExit and onError: whichever process ended, the handle is forgotten.   *)
(* The handlers of an earlier panel reach only that panel.                 *)
OnEnd(r, message) ==
    \/ /\ r \in mine
       /\ twin' = NoTwin
       /\ Post(message)
    \/ /\ r \notin mine
       /\ UNCHANGED <<twin, toView>>

(* The process died, of the signal or by itself. *)
Exits(r) ==
    /\ proc[r] \in {"alive", "killed"}
    /\ proc' = [proc EXCEPT ![r] = "gone"]
    /\ OnEnd(r, Exited)
    /\ UNCHANGED <<open, view, toHost, making, runs, mine, stdin, driven, clicks>>

SpawnFails(r) ==
    /\ proc[r] = "failed"
    /\ proc' = [proc EXCEPT ![r] = "gone"]
    /\ OnEnd(r, Failure)
    /\ UNCHANGED <<open, view, toHost, making, runs, mine, stdin, driven, clicks>>

(* poll_commands: one line from stdin. *)
Applies(r) ==
    /\ proc[r] \in {"alive", "killed"}
    /\ stdin[r] # <<>>
    /\ driven' = [driven EXCEPT ![r] = Append(@, Head(stdin[r]))]
    /\ stdin' = [stdin EXCEPT ![r] = Tail(@)]
    /\ UNCHANGED <<open, view, toHost, toView, twin, making, runs, mine, proc, clicks>>

--------------------------------------------------------------------------------
Open ==
    /\ ~open
    /\ open' = TRUE
    /\ UNCHANGED <<view, toHost, toView, twin, making, processes, clicks>>

(* dispose.  The webview and the messages under way go with the panel. *)
Close ==
    /\ open
    /\ open' = FALSE
    /\ StopTwin
    /\ running' = FALSE /\ shown' = NoTwin
    /\ toHost' = <<>> /\ toView' = <<>>
    /\ starts' = 0
    /\ mine' = {}
    /\ UNCHANGED <<builds, binary, runs, stdin, driven, clicks>>

Handle == StartRefused \/ StartNow \/ StartBuild \/ HostStop \/ HostCommand
BuildEnds == BuildSucceeds \/ BuildFails \/ StaleBuildEnds

Next ==
    \/ Open \/ Close
    \/ ClickStart \/ ClickStop \/ ClickMode \/ ViewReceives
    \/ Handle \/ MakeLinks \/ BuildEnds
    \/ \E r \in Runs : Exits(r) \/ SpawnFails(r) \/ Applies(r)

Spec == Init /\ [][Next]_vars

(* Messages and events are delivered, builds end, and a process that got   *)
(* SIGTERM exits.  Nothing is assumed of the user.                         *)
Fairness ==
    /\ WF_vars(ViewReceives)
    /\ WF_vars(Handle)
    /\ WF_vars(BuildEnds)
    /\ \A r \in Runs :
          /\ WF_vars(proc[r] = "killed" /\ Exits(r))
          /\ WF_vars(SpawnFails(r))

FairSpec == Spec /\ Fairness
--------------------------------------------------------------------------------
Messages ==
    [type : {"startTwin", "stopTwin", "twinStatus", "twinError", "twinExit"}]
    \union [type : {"twinStarted"}, run : Nat]
Commands == [type : {"twinCommand"}, run : Nat \union {NoTwin}, number : Nat]

(* Every variable holds a value of its type; a command waits only for a    *)
(* process that was spawned, and the panel waits for no build it did not   *)
(* start.                                                                  *)
TypeOK ==
    /\ open \in BOOLEAN /\ running \in BOOLEAN /\ binary \in BOOLEAN
    /\ shown \in Runs \union {NoTwin}
    /\ toHost \in Seq(Messages \union Commands)
    /\ toView \in Seq(Messages)
    /\ twin \in mine \union {NoTwin}
    /\ runs \in 0..MaxRuns
    /\ builds \in Nat /\ starts \in 0..builds
    /\ mine \subseteq 1..runs
    /\ proc \in [Runs -> {"unborn", "alive", "killed", "failed", "gone"}]
    /\ \A r \in Runs : proc[r] = "unborn" <=> r > runs
    /\ stdin \in [Runs -> Seq(Commands)]
    /\ driven \in [Runs -> Seq(Commands)]
    /\ \A r \in Runs : r > runs => stdin[r] = <<>>
    /\ clicks \in 0..MaxCommands

(* A process that was not told to stop is the one the panel holds, so that *)
(* stopping, restarting and closing all reach it, through builds that end  *)
(* late, processes that crash or cannot be spawned, and exit events that   *)
(* arrive after the next click.  Needs a user who waits for the answer to  *)
(* a Start: with two Starts before the first answer, the exit event of the *)
(* first process drops the handle of the second.                           *)
NoStrayTwin == \A r \in Runs : proc[r] = "alive" => twin = r

(* A mode button drives the twin whose telemetry was on the screen when it *)
(* was clicked, in the order of the clicks, or does nothing.               *)
CommandsReachTheirTwin ==
    \A r \in Runs : \A i, j \in 1..Len(driven[r]) :
        /\ driven[r][i].run = r
        /\ i < j => driven[r][i].number < driven[r][j].number

(* A Stop that was clicked is followed by a moment at which no twin runs   *)
(* and the webview says so, whatever else is under way.                    *)
StopStops ==
    (Clicked("stopTwin") # {}) ~> (~running /\ \A r \in Runs : proc[r] # "alive")

================================================================================
