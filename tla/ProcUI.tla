------------------------------- MODULE ProcUI -------------------------------
(***************************************************************************)
(* proc_ui (proc_ui.cpp): one thread per core runs the callbacks of every  *)
(* command, kept in step by three OSRendezvous; the application's main     *)
(* thread submits the commands for the messages of the system message      *)
(* queue, and has a background thread receive them while it sleeps in the  *)
(* background.  The foreground is always that of a game (OSGetPFID).       *)
(*                                                                         *)
(* Left out: what the callbacks do, s_currentProcUIStatus and the threads  *)
(* that wait for it in ProcUISubProcessMessages, the memory, and the       *)
(* messages no code sends (exit, network, home button).                    *)
(***************************************************************************)
EXTENDS Sequences

CONSTANTS
    Core, Core0, Core2,     \* the cores, and those with duties of their own
    Modes,                  \* the isBlockingInBackground the game calls with
    ResizeInBackground      \* whether it resizes the stacks in the background

ASSUME CoreAssumption ==
    /\ {Core0, Core2} \subseteq Core /\ Core0 # Core2
    /\ Modes \subseteq BOOLEAN /\ ResizeInBackground \in BOOLEAN

Meeting == {"A", "B", "C"}
Event == {"ready", "done", "hold", "got"}
Message == {"acquire", "release"}   \* Nobody sends another one.
Command == {"Acquire", "Release", "Exit"}

VARIABLES
    event,          \* the manual events: s_eventCoreThreadsNewCommandReady,
                    \* ...CommandDone, s_eventWaitingBeforeReleaseForeground
                    \* and s_eventBackgroundThreadGotMessage
    command,        \* s_commandForCoreThread
    pc, mine,       \* where a core thread is, and its copy of the command
    coreHit, signaled, threadQueue, call,   \* the three rendezvous
    mainPc,         \* where the main thread is
    then,           \* where it goes on when the command is done
    blocking,       \* isBlockingInBackground
    initialized, foreground, drawDone,      \* s_isInitialized and so on
    background,     \* where the background thread is
    lastMsg,        \* g_lastMsg
    toBackground, toForeground,             \* s_transitionTo...
    queue,          \* the system message queue
    callbacks,      \* whether background callbacks are registered
    alarms,         \* the kinds of alarms that are set: those of callbacks in
                    \* the list, those of callbacks of a list that was dropped
    submission, ran \* history: the command submitted last, what cores ran of it

meetVars == <<coreHit, signaled, threadQueue, call>>
coreVars == <<pc, mine>>
mainVars == <<mainPc, then, blocking, initialized, foreground, drawDone>>
backVars == <<background, lastMsg>>
sysVars == <<toBackground, toForeground, queue>>
alarmVars == <<callbacks, alarms>>
history == <<submission, ran>>
vars == <<event, command, coreVars, meetVars, mainVars, backVars, sysVars,
          alarmVars, history>>

R == INSTANCE Rendezvous WITH Thread <- Core

Init ==
    /\ event = [e \in Event |-> FALSE]
    /\ command = "Initial"
    /\ pc = [c \in Core |-> "ended"] /\ mine = [c \in Core |-> "Initial"]
    /\ R!Init
    /\ mainPc = "idle" /\ then = "idle" /\ blocking \in Modes
    /\ initialized = FALSE /\ foreground = FALSE /\ drawDone = FALSE
    /\ background = "none" /\ lastMsg = "acquire"
    /\ toBackground = FALSE /\ toForeground = FALSE /\ queue = <<>>
    /\ callbacks = FALSE /\ alarms = {}
    /\ submission = "Exit" /\ ran = [c \in Core |-> <<>>]
-----------------------------------------------------------------------------
OSResetEvent(e) == event' = [event EXCEPT ![e] = FALSE]

\* A set event lets every thread go that waits for it, at `from', to `to'.
Released(threads, from, to) ==
    [t \in DOMAIN threads |-> IF threads[t] = from THEN to ELSE threads[t]]

SignalCores(e, from, to) ==
    /\ event' = [event EXCEPT ![e] = TRUE]
    /\ pc' = Released(pc, from, to)

SignalMain(e, from, to) ==
    /\ event' = [event EXCEPT ![e] = TRUE]
    /\ mainPc' = IF mainPc = from THEN to ELSE mainPc
-----------------------------------------------------------------------------
(* The core threads: ProcUICoreThread.  A thread still in a rendezvous     *)
(* takes no other step.                                                    *)

StartBackgroundAlarms == IF callbacks THEN alarms \cup {"listed"} ELSE alarms
CancelBackgroundAlarms == alarms \ {"listed"}
DropCallbacks == IF alarms = {} THEN {} ELSE {"dropped"}

At(c, at) == pc[c] = at /\ call[c] = R!NoCall
CoreGoes(c, to) == pc' = [pc EXCEPT ![c] = to]

WaitForCommand(c) ==
    /\ At(c, "wait")
    /\ CoreGoes(c, IF event["ready"] THEN "run" ELSE "waiting")
    /\ UNCHANGED <<event, command, mine, meetVars, mainVars, backVars, sysVars,
                   alarmVars, history>>

\* Mutant: the alarms are not cancelled when the foreground is acquired.
RunCommandKeepsAlarms(c) ==
    /\ At(c, "run")
    /\ mine' = [mine EXCEPT ![c] = command]
    /\ CoreGoes(c, IF command = "Initial" THEN "ended" ELSE "A")
    /\ ran' = [ran EXCEPT ![c] = IF command = "Initial" THEN @ ELSE Append(@, command)]
    /\ alarms' = IF c = Core2 /\ command = "Release" THEN StartBackgroundAlarms ELSE alarms
    /\ UNCHANGED <<event, command, meetVars, mainVars, backVars, sysVars,
                   callbacks, submission>>

\* Initial ends the thread; for another command it calls the callbacks, before
\* which core 2 starts or cancels the alarms of the background callbacks.
RunCommand(c) ==
    /\ At(c, "run")
    /\ mine' = [mine EXCEPT ![c] = command]
    /\ CoreGoes(c, IF command = "Initial" THEN "ended" ELSE "A")
    /\ ran' = [ran EXCEPT ![c] = IF command = "Initial" THEN @ ELSE Append(@, command)]
    /\ alarms' = IF c = Core2 /\ command = "Release" THEN StartBackgroundAlarms
                 ELSE IF c = Core2 /\ command = "Acquire" THEN CancelBackgroundAlarms
                 ELSE alarms
    /\ UNCHANGED <<event, command, meetVars, mainVars, backVars, sysVars,
                   callbacks, submission>>

\* Where a thread goes on after a rendezvous; core 0 has something to do there.
After(c) ==
    LET hold == IF mine[c] = "Release" THEN "hold" ELSE "wait" IN
    IF c = Core0 THEN [A |-> "metA", B |-> "metB", C |-> "metC"]
    ELSE [A |-> "B", B |-> "C", C |-> hold]

Arrive(c) ==
    /\ pc[c] \in Meeting
    /\ R!OSWaitRendezvous(c, c, pc[c], Core)
    /\ CoreGoes(c, After(c)[pc[c]])
    /\ UNCHANGED <<event, command, mine, mainVars, backVars, sysVars, alarmVars,
                   history>>

\* It was woken in the rendezvous and looks again.
Woken(c) ==
    /\ R!Woken(c)
    /\ UNCHANGED <<event, command, coreVars, mainVars, backVars, sysVars,
                   alarmVars, history>>

\* Mutant: the rendezvous they are leaving is made ready.
MetATooEarly ==
    /\ At(Core0, "metA")
    /\ R!OSInitRendezvous("A")
    /\ OSResetEvent("ready")
    /\ CoreGoes(Core0, "B")
    /\ UNCHANGED <<command, mine, mainVars, backVars, sysVars, alarmVars, history>>

\* Mutant: the event is not reset.
MetAKeepsReady ==
    /\ At(Core0, "metA")
    /\ R!OSInitRendezvous("C")
    /\ CoreGoes(Core0, "B")
    /\ UNCHANGED <<event, command, mine, mainVars, backVars, sysVars, alarmVars,
                   history>>

\* Core 0 makes the rendezvous before the last ready for the next command.
MetA ==
    /\ At(Core0, "metA")
    /\ R!OSInitRendezvous("C")
    /\ OSResetEvent("ready")
    /\ CoreGoes(Core0, "B")
    /\ UNCHANGED <<command, mine, mainVars, backVars, sysVars, alarmVars, history>>

MetB ==
    /\ At(Core0, "metB")
    /\ R!OSInitRendezvous("A")
    /\ SignalMain("done", "awaiting", then)
    /\ CoreGoes(Core0, "C")
    /\ UNCHANGED <<command, mine, then, blocking, initialized, foreground, drawDone,
                   backVars, sysVars, alarmVars, history>>

MetC ==
    /\ At(Core0, "metC")
    /\ R!OSInitRendezvous("B")
    /\ CoreGoes(Core0, IF mine[Core0] = "Release" THEN "hold" ELSE "wait")
    /\ UNCHANGED <<event, command, mine, mainVars, backVars, sysVars, alarmVars,
                   history>>

\* After a release the thread stays until the application has saved its state.
HoldBeforeRelease(c) ==
    /\ At(c, "hold")
    /\ CoreGoes(c, IF event["hold"] THEN "wait" ELSE "holding")
    /\ UNCHANGED <<event, command, mine, meetVars, mainVars, backVars, sysVars,
                   alarmVars, history>>

CoreStep(c) ==
    \/ WaitForCommand(c) \/ RunCommand(c) \/ Arrive(c) \/ Woken(c)
    \/ HoldBeforeRelease(c)
    \/ c = Core0 /\ (MetA \/ MetB \/ MetC)
-----------------------------------------------------------------------------
(* _SubmitCommandToCoreThreads, by the main thread.                        *)

MainGoes(to) == mainPc' = to

\* What a step that submits cmd leaves to the next steps.
Submit(cmd, cont) ==
    /\ MainGoes("resetDone") /\ then' = cont
    /\ command' = cmd
    /\ submission' = cmd /\ ran' = [c \in Core |-> <<>>]

ResetDone ==
    /\ mainPc = "resetDone"
    /\ OSResetEvent("done")
    /\ MainGoes("signalReady")
    /\ UNCHANGED <<command, coreVars, meetVars, then, blocking, initialized,
                   foreground, drawDone, backVars, sysVars, alarmVars, history>>

SignalReady ==
    /\ mainPc \in {"signalReady", "signalEnd"}
    /\ SignalCores("ready", "waiting", "run")
    /\ MainGoes(IF mainPc = "signalReady" THEN "await" ELSE "join")
    /\ UNCHANGED <<command, mine, meetVars, then, blocking, initialized,
                   foreground, drawDone, backVars, sysVars, alarmVars, history>>

AwaitDone ==
    /\ mainPc = "await"
    /\ MainGoes(IF event["done"] THEN then ELSE "awaiting")
    /\ UNCHANGED <<event, command, coreVars, meetVars, then, blocking,
                   initialized, foreground, drawDone, backVars, sysVars,
                   alarmVars, history>>
-----------------------------------------------------------------------------
(* The API, called by the main thread.                                     *)

Calls == mainPc = "idle"

RecreateProcUICoreThreads == pc' = [c \in Core |-> "wait"]

\* Events and rendezvous are initialised, the core threads created.
ProcUIInit ==
    /\ Calls /\ ~initialized
    /\ initialized' = TRUE /\ foreground' = TRUE /\ drawDone' = FALSE
    /\ event' = [e \in Event |-> FALSE]
    /\ coreHit' = [r \in Meeting |-> {}]
    /\ RecreateProcUICoreThreads
    /\ alarms' = DropCallbacks /\ callbacks' = FALSE
    /\ UNCHANGED <<command, mine, signaled, threadQueue, call, mainPc, then,
                   blocking, backVars, sysVars, history>>

ProcUIRegisterBackgroundCallback ==
    /\ Calls /\ initialized
    /\ callbacks' = TRUE
    /\ UNCHANGED <<event, command, coreVars, meetVars, mainVars, backVars,
                   sysVars, alarms, history>>

\* In the background the alarms of the callbacks are cancelled first.
Clear ==
    /\ alarms' = IF foreground THEN DropCallbacks ELSE CancelBackgroundAlarms
    /\ callbacks' = FALSE

ProcUIClearCallbacks ==
    /\ Calls
    /\ Clear
    /\ UNCHANGED <<event, command, coreVars, meetVars, mainVars, backVars,
                   sysVars, history>>

ProcUIDrawDoneRelease ==
    /\ Calls /\ initialized
    /\ drawDone' = TRUE
    /\ UNCHANGED <<event, command, coreVars, meetVars, mainPc, then, blocking,
                   initialized, foreground, backVars, sysVars, alarmVars, history>>

ProcUIProcessMessages(isBlocking) ==
    /\ Calls /\ initialized
    /\ blocking' = isBlocking
    /\ IF drawDone
       THEN foreground' = FALSE /\ Submit("Release", "resetHold")
       ELSE /\ MainGoes(IF foreground \/ ~isBlocking THEN "update" ELSE "loop")
            /\ UNCHANGED <<then, foreground, command, history>>
    /\ UNCHANGED <<event, coreVars, meetVars, initialized, drawDone, backVars,
                   sysVars, alarmVars>>

ResetHold ==
    /\ mainPc = "resetHold"
    /\ OSResetEvent("hold")
    /\ MainGoes("save")
    /\ UNCHANGED <<command, coreVars, meetVars, then, blocking, initialized,
                   foreground, drawDone, backVars, sysVars, alarmVars, history>>

\* The save callback ran; in blocking mode the background thread is started.
Saved ==
    /\ mainPc = "save"
    /\ background' = IF blocking THEN "update" ELSE background
    /\ MainGoes("signalHold")
    /\ UNCHANGED <<event, command, coreVars, meetVars, then, blocking, initialized,
                   foreground, drawDone, lastMsg, sysVars, alarmVars, history>>

\* Mutant: the cores that wait already are not woken.
SignalHoldOnly ==
    /\ mainPc = "signalHold"
    /\ event' = [event EXCEPT !["hold"] = TRUE]
    /\ drawDone' = FALSE
    /\ MainGoes(IF blocking THEN "loop" ELSE "update")
    /\ UNCHANGED <<command, pc, mine, meetVars, then, blocking, initialized,
                   foreground, backVars, sysVars, alarmVars, history>>

SignalHold ==
    /\ mainPc = "signalHold"
    /\ SignalCores("hold", "holding", "wait")
    /\ drawDone' = FALSE
    /\ MainGoes(IF blocking THEN "loop" ELSE "update")
    /\ UNCHANGED <<command, mine, meetVars, then, blocking, initialized,
                   foreground, backVars, sysVars, alarmVars, history>>

\* A release waits for ProcUIDrawDoneRelease.
ProcessSysMessage(m) ==
    IF m = "acquire" THEN Submit("Acquire", "acquired")
    ELSE MainGoes("loop") /\ UNCHANGED <<then, command, history>>

Acquired ==
    /\ mainPc = "acquired"
    /\ foreground' = TRUE
    /\ MainGoes("loop")
    /\ UNCHANGED <<event, command, coreVars, meetVars, then, blocking, initialized,
                   drawDone, backVars, sysVars, alarmVars, history>>

\* Mutant: a thread that sleeps in the background is not joined.
LoopSkipsJoin ==
    /\ mainPc = "loop"
    /\ MainGoes(IF foreground \/ ~blocking \/ background # "none" THEN "idle"
                ELSE IF event["got"] THEN "resetGot" ELSE "waitGot")
    /\ UNCHANGED <<event, command, coreVars, meetVars, then, blocking, initialized,
                   foreground, drawDone, backVars, sysVars, alarmVars, history>>

\* The blocking mode: the message comes from the background thread.
Loop ==
    /\ mainPc = "loop"
    /\ MainGoes(IF foreground \/ ~blocking THEN "idle"
                ELSE IF event["got"] THEN "resetGot" ELSE "waitGot")
    /\ UNCHANGED <<event, command, coreVars, meetVars, then, blocking, initialized,
                   foreground, drawDone, backVars, sysVars, alarmVars, history>>

ResetGot ==
    /\ mainPc = "resetGot"
    /\ OSResetEvent("got")
    /\ MainGoes("joinBackground")
    /\ UNCHANGED <<command, coreVars, meetVars, then, blocking, initialized,
                   foreground, drawDone, backVars, sysVars, alarmVars, history>>

JoinBackground ==
    /\ mainPc = "joinBackground" /\ background = "ended"
    /\ background' = "none"
    /\ ProcessSysMessage(lastMsg)
    /\ UNCHANGED <<event, coreVars, meetVars, blocking, initialized, foreground,
                   drawDone, lastMsg, sysVars, alarmVars>>

ProcUIShutdown ==
    /\ Calls /\ initialized
    /\ initialized' = FALSE
    /\ alarms' = IF foreground THEN alarms ELSE CancelBackgroundAlarms
    /\ Submit("Exit", "clear")
    /\ UNCHANGED <<event, coreVars, meetVars, blocking, foreground, drawDone,
                   backVars, sysVars, callbacks>>

\* ProcUIClearCallbacks, and ShutdownThreads begins.
ShutdownClears ==
    /\ mainPc = "clear"
    /\ Clear
    /\ command' = "Initial"
    /\ MainGoes("signalEnd")
    /\ UNCHANGED <<event, coreVars, meetVars, then, blocking, initialized,
                   foreground, drawDone, backVars, sysVars, history>>

ProcUISetCallbackStackSize ==
    /\ Calls /\ initialized /\ (foreground \/ ResizeInBackground)
    /\ command' = "Initial"
    /\ MainGoes("signalEnd")
    /\ UNCHANGED <<event, coreVars, meetVars, then, blocking, initialized,
                   foreground, drawDone, backVars, sysVars, alarmVars, history>>

\* The end of ShutdownThreads; RecreateProcUICoreThreads creates the threads
\* again.  The list of background callbacks is dropped, its alarms are not.
JoinCores ==
    /\ mainPc = "join" /\ \A c \in Core : pc[c] = "ended"
    /\ OSResetEvent("ready")
    /\ alarms' = DropCallbacks /\ callbacks' = FALSE
    /\ IF initialized THEN RecreateProcUICoreThreads ELSE UNCHANGED pc
    /\ MainGoes("idle")
    /\ UNCHANGED <<command, mine, meetVars, then, blocking, initialized,
                   foreground, drawDone, backVars, sysVars, history>>
-----------------------------------------------------------------------------
(* The system message queue.  UpdateSystemMessageQueue, at the beginning   *)
(* of OSReceiveMessage, sends what the flags ask for; nothing locks them.  *)

UpdateSystemMessageQueue(to) ==
    \/ /\ toBackground /\ to = "clearBackground"
       /\ queue' = Append(queue, "release")
    \/ /\ ~toBackground /\ toForeground /\ to = "clearForeground"
       /\ queue' = Append(queue, "acquire")
    \/ /\ ~toBackground /\ ~toForeground /\ to = "take"
       /\ UNCHANGED queue

ClearFlag(at) ==
    /\ at \in {"clearBackground", "clearForeground"}
    /\ toBackground' = (toBackground /\ at # "clearBackground")
    /\ toForeground' = (toForeground /\ at # "clearForeground")

MainUpdates ==
    /\ \/ /\ mainPc = "update"
          /\ UpdateSystemMessageQueue(mainPc')
          /\ UNCHANGED <<toBackground, toForeground>>
       \/ ClearFlag(mainPc) /\ MainGoes("take") /\ UNCHANGED queue
    /\ UNCHANGED <<event, command, coreVars, meetVars, then, blocking, initialized,
                   foreground, drawDone, backVars, alarmVars, history>>

MainTakes ==
    /\ mainPc = "take"
    /\ IF queue = <<>>
       THEN MainGoes("loop") /\ UNCHANGED <<queue, then, command, history>>
       ELSE queue' = Tail(queue) /\ ProcessSysMessage(Head(queue))
    /\ UNCHANGED <<event, coreVars, meetVars, blocking, initialized, foreground,
                   drawDone, backVars, toBackground, toForeground, alarmVars>>

BackgroundUpdates ==
    /\ \/ /\ background = "update"
          /\ UpdateSystemMessageQueue(background')
          /\ UNCHANGED <<toBackground, toForeground>>
       \/ ClearFlag(background) /\ background' = "take" /\ UNCHANGED queue
    /\ UNCHANGED <<event, command, coreVars, meetVars, mainVars, lastMsg,
                   alarmVars, history>>

\* ProcUI_BackgroundThread_ReceiveSingleMessage: it waits for a message, and
\* for another one unless the game must exit or comes to the foreground.
BackgroundTakes ==
    /\ background = "take" /\ queue # <<>>
    /\ queue' = Tail(queue) /\ lastMsg' = Head(queue)
    /\ background' = IF Head(queue) = "acquire" THEN "signal" ELSE "update"
    /\ UNCHANGED <<event, command, coreVars, meetVars, mainVars, toBackground,
                   toForeground, alarmVars, history>>

BackgroundSignals ==
    /\ background = "signal"
    /\ SignalMain("got", "waitGot", "resetGot")
    /\ background' = "ended"
    /\ UNCHANGED <<command, coreVars, meetVars, then, blocking, initialized,
                   foreground, drawDone, lastMsg, sysVars, alarmVars, history>>

\* Bound: the flags and the queue change only while somebody reads them, since
\* no other step depends on when they do.
Receiving ==
    {mainPc, background} \cap
        {"update", "clearBackground", "clearForeground", "take"} # {}

\* By another thread of the game, one flag after the other.
StartBackgroundForegroundTransition ==
    /\ Receiving
    /\ \/ ~toBackground /\ toBackground' = TRUE /\ UNCHANGED toForeground
       \/ ~toForeground /\ toForeground' = TRUE /\ UNCHANGED toBackground
    /\ UNCHANGED <<event, command, coreVars, meetVars, mainVars, backVars, queue,
                   alarmVars, history>>
-----------------------------------------------------------------------------
MainCalls ==
    \/ ProcUIInit \/ ProcUIRegisterBackgroundCallback \/ ProcUIClearCallbacks
    \/ ProcUIDrawDoneRelease \/ ProcUIShutdown \/ ProcUISetCallbackStackSize
    \/ \E b \in Modes : ProcUIProcessMessages(b)

MainStep ==
    \/ ResetDone \/ SignalReady \/ AwaitDone \/ ResetHold \/ Saved \/ SignalHold
    \/ Acquired \/ Loop \/ ResetGot \/ JoinBackground \/ ShutdownClears
    \/ JoinCores \/ MainUpdates \/ MainTakes

BackgroundStep == BackgroundUpdates \/ BackgroundTakes \/ BackgroundSignals

Next ==
    \/ MainCalls \/ MainStep \/ BackgroundStep
    \/ \E c \in Core : CoreStep(c)
    \/ StartBackgroundForegroundTransition

Spec == Init /\ [][Next]_vars

\* The scheduler runs every thread that is ready in the end; callbacks return.
Fairness == WF_vars(MainStep) /\ \A c \in Core : WF_vars(CoreStep(c))

FairSpec == Spec /\ Fairness
-----------------------------------------------------------------------------
\* Core 0 makes a rendezvous ready for its next use only when no thread is in
\* it, though it does so while the others may still be on their way out.
InitMeetsNobody ==
    [][\A r \in Meeting :
           coreHit[r] # {} /\ coreHit'[r] = {} => R!Empty(r)]_vars

\* The one event of the three rendezvous never leaves a thread asleep whose
\* rendezvous is met.
NobodySleepsWhenMet == R!NobodySleepsWhenMet

\* Nor is a signal of that event pending, which would be lost on the next
\* arrival, while a thread sleeps.
NobodySleepsOnASignal == R!NobodySleepsOnASignal

\* Every core runs every command once, and the submitter goes on afterwards.
Submitted == mainPc \in {"resetDone", "signalReady", "await", "awaiting"}

Commands == INSTANCE Broadcast
    WITH command <- submission, submitted <- Submitted

CommandsSpec == Commands!Spec

\* No background alarm goes on in the foreground, whatever the order in which
\* callbacks are registered and cleared, proc_ui shut down and started again.
AlarmsOnlyInBackground == mainPc = "idle" /\ foreground => alarms = {}

\* The background thread's stack and OSThread are free when the next one is
\* started, and when they may be freed; who joins it finds it.
OneBackgroundThread ==
    /\ mainPc \in {"idle", "save", "join"} => background = "none"
    /\ mainPc = "joinBackground" => background # "none"

\* A submitted command is done in the end, and the end of proc_ui is reached.
CommandsReturn == Submitted \/ mainPc = "join" ~> ~Submitted /\ mainPc # "join"

\* "this code should only run if the background thread was started?"
WaitsForTheBackgroundThread == mainPc = "waitGot" => background # "none"
=============================================================================
