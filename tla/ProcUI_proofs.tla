---------------------------- MODULE ProcUI_proofs ----------------------------
(***************************************************************************)
(* proc_ui for any set of cores: its three rendezvous keep the core        *)
(* threads in step, none is made ready again under a waiter, and every     *)
(* core runs every command once before its submitter goes on.              *)
(***************************************************************************)
EXTENDS ProcUI, TLAPS

\* The lemmas about rendezvous hold of those of proc_ui.
RP == INSTANCE Rendezvous_proofs WITH Thread <- Core

CoreAt == {"ended", "wait", "waiting", "run", "A", "B", "C", "metA", "metB", "metC",
           "hold", "holding"}
Receives == {"update", "clearBackground", "clearForeground", "take"}
MainAt == Receives \cup
    {"idle", "resetDone", "signalReady", "await", "awaiting", "resetHold", "save",
     "signalHold", "loop", "waitGot", "resetGot", "joinBackground", "acquired",
     "clear", "signalEnd", "join"}
BackgroundAt == Receives \cup {"none", "signal", "ended"}

TypeOK ==
    /\ event \in [Event -> BOOLEAN]
    /\ command \in Command \cup {"Initial"}
    /\ pc \in [Core -> CoreAt] /\ mine \in [Core -> Command \cup {"Initial"}]
    /\ RP!TypeOK
    /\ mainPc \in MainAt /\ then \in {"idle", "resetHold", "acquired", "clear"}
    /\ blocking \in BOOLEAN
    /\ initialized \in BOOLEAN /\ foreground \in BOOLEAN /\ drawDone \in BOOLEAN
    /\ background \in BackgroundAt /\ lastMsg \in Message
    /\ toBackground \in BOOLEAN /\ toForeground \in BOOLEAN /\ queue \in Seq(Message)
    /\ callbacks \in BOOLEAN /\ alarms \subseteq {"listed", "dropped"}
    /\ submission \in Command /\ ran \in [Core -> Seq(Command)]

\* Where a core thread is between two rounds of the three rendezvous, and where
\* it is when it has just arrived at the last one.
Between == {"ended", "wait", "waiting", "run", "A", "hold", "holding"}
Left == {"wait", "hold"}
\* Where core 0 is when it has arrived at one.
AtMet == {"metA", "metB", "metC"}

\* The rendezvous a thread has arrived at last, by where it goes on.
LastMeeting == [B |-> "A", metA |-> "A", C |-> "B", metB |-> "B",
                wait |-> "C", hold |-> "C", metC |-> "C"]

InMeeting(c) == call[c] # R!NoCall

CallsFit ==
    \A c \in Core :
        /\ pc[c] \in AtMet => c = Core0
        /\ InMeeting(c) =>
               /\ pc[c] \in DOMAIN LastMeeting
               /\ call[c] = R!Waiting(LastMeeting[pc[c]], Core)
               /\ c = Core0 => pc[c] \in AtMet

\* The cores that arrived at r are those that are in S.
Hit(r, S) == \A c \in Core : c \in coreHit[r] <=> pc[c] \in S
AllHit(r) == \A c \in Core : c \in coreHit[r]
AllIn(S) == \A c \in Core : pc[c] \in S
\* A thread that is in S, ahead of core 0, cannot leave the rendezvous it is in.
Ahead(S) == \A c \in Core \ {Core0} : pc[c] \in S => InMeeting(c)
\* If some thread has come through r, all have arrived at it.
Met(r, S, beyond) ==
    (\E c \in Core : pc[c] \in beyond \/ (pc[c] \in S /\ ~InMeeting(c))) => AllHit(r)

\* Where the others can be, by where core 0 is.
WhileBetween ==
    /\ AllIn(Between \cup {"B"}) /\ Ahead({"B"})
    /\ Hit("A", {"B"}) /\ Hit("B", {})
WhileAtMetA ==
    /\ AllIn(Between \cup {"metA", "B", "C"}) /\ Ahead({"C"})
    /\ Hit("A", {"metA", "B", "C"}) /\ Hit("B", {"C"})
    /\ Met("A", {"metA", "B"}, {"C"})
WhileAtB ==
    /\ AllIn({"B", "C"}) /\ Ahead({"C"})
    /\ AllHit("A") /\ Hit("B", {"C"}) /\ Hit("C", {})
WhileAtMetB ==
    /\ AllIn({"B", "metB", "C"} \cup Left) /\ Ahead(Left)
    /\ AllHit("A") /\ Hit("B", {"metB", "C"} \cup Left) /\ Hit("C", Left)
    /\ Met("B", {"metB", "C"}, Left)
WhileAtC ==
    /\ AllIn({"C"} \cup Left) /\ Ahead(Left)
    /\ Hit("A", {}) /\ AllHit("B") /\ Hit("C", Left)
WhileAtMetC ==
    /\ AllIn(Between \cup {"B", "C", "metC"}) /\ Ahead({"B"})
    /\ Hit("A", {"B"}) /\ AllHit("B") /\ Hit("C", Between \cup {"B", "metC"})
    /\ Met("C", Between \cup {"metC"}, {"B"})

InStep ==
    /\ pc[Core0] \in Between => WhileBetween
    /\ pc[Core0] = "metA" => WhileAtMetA
    /\ pc[Core0] = "B" => WhileAtB
    /\ pc[Core0] = "metB" => WhileAtMetB
    /\ pc[Core0] = "C" => WhileAtC
    /\ pc[Core0] = "metC" => WhileAtMetC

Barrier == RP!IInv /\ CallsFit /\ InStep

\* The submitter still waits for a command that not all cores have run, or all
\* have and it is about to find out.
Finished == mainPc = "await" /\ event["done"]
Active == mainPc \in {"await", "awaiting"} /\ ~Finished

\* A core thread that does nothing until the next command, though it may still
\* be on its way out of the last rendezvous; one that has run this command.
Parked == {"ended", "wait", "waiting", "hold", "holding"}
Rest(c) == pc[c] \in Parked \cup {"C", "metC"}
Ran(c) == ran[c] = <<submission>>
Runs == {"A", "metA", "B", "metB", "C", "wait", "hold"}

\* How far the cores are while a command is run, by where core 0 is.
RoundInv ==
    /\ \A c \in Core : \/ ran[c] = <<>> /\ (Rest(c) \/ pc[c] = "run")
                       \/ Ran(c) /\ pc[c] \in Runs
    /\ ran[Core0] = <<>> =>
           event["ready"] /\ \A c \in Core : ran[c] # <<>> => pc[c] \in {"A", "B"}
    /\ ran[Core0] # <<>> => pc[Core0] \in {"A", "metA", "B", "metB"}
    /\ pc[Core0] \in {"A", "metA"} =>
           /\ event["ready"]
           /\ \A c \in Core : IF ran[c] = <<>> THEN pc[c] \in Parked \cup {"run"}
                              ELSE pc[c] \in {"A", "metA", "B", "C"}
    /\ pc[Core0] \in {"B", "metB"} => ~event["ready"] /\ \A c \in Core : Ran(c)

CommandInv ==
    /\ Submitted => command = submission
    /\ mainPc = "awaiting" => ~event["done"]
    /\ mainPc \in {"resetDone", "signalReady"} => \A c \in Core : ran[c] = <<>>
    /\ mainPc = "signalReady" => ~event["done"]
    /\ Finished => \A c \in Core : Ran(c)
    /\ mainPc \in {"signalEnd", "join"} => command = "Initial"
    /\ mainPc = "join" => \A c \in Core : Rest(c) \/ pc[c] = "run"
    /\ ~Active /\ mainPc # "join" => ~event["ready"] /\ \A c \in Core : Rest(c)
    /\ Active => RoundInv

\* What the main thread submits and where it goes on.
ControlInv ==
    /\ Submitted => \/ then = "resetHold" /\ submission = "Release"
                    \/ then = "acquired" /\ submission = "Acquire"
                    \/ then = "clear" /\ submission = "Exit"
    /\ ~initialized => \/ mainPc \in {"idle", "clear", "signalEnd", "join"}
                       \/ Submitted /\ then = "clear"
    /\ mainPc = "clear" \/ (Submitted /\ then = "clear") => ~initialized
    /\ ~initialized /\ mainPc = "idle" => \A c \in Core : pc[c] = "ended"
    /\ \/ mainPc \in {"resetHold", "save", "signalHold"}
       \/ Submitted /\ then = "resetHold"
       => ~foreground

\* When there is a background thread, and what its event says of it.
BackgroundInv ==
    /\ background # "none" =>
           mainPc \in {"signalHold", "loop", "waitGot", "resetGot", "joinBackground"}
    /\ background # "none" /\ mainPc \in {"signalHold", "loop"} => blocking /\ ~foreground
    /\ event["got"] => background = "ended"
    /\ mainPc \in {"resetGot", "joinBackground"} => background = "ended"
    /\ mainPc = "joinBackground" => ~event["got"]

\* When no background alarm is set, if the stacks are not resized in the
\* background.
AlarmInv ==
    /\ "dropped" \notin alarms
    /\ foreground \/ ~initialized \/ mainPc \in {"acquired", "signalEnd", "join"} =>
           alarms = {}
    /\ Submitted /\ submission = "Acquire" /\ ran[Core2] # <<>> => alarms = {}
    /\ mainPc \in {"signalEnd", "join"} => foreground \/ ~initialized

IInv == TypeOK /\ Barrier /\ CommandInv /\ ControlInv /\ BackgroundInv
-----------------------------------------------------------------------------
(* The rendezvous.                                                         *)

\* A thread that is in no rendezvous and goes from between two rounds to
\* between two rounds changes nothing.
LEMMA BetweenRounds ==
    ASSUME TypeOK, CallsFit, InStep, pc' \in [Core -> CoreAt],
           UNCHANGED <<coreHit, call>>,
           \A c \in Core : pc'[c] # pc[c] =>
               pc[c] \in Between /\ pc'[c] \in Between /\ ~InMeeting(c)
    PROVE  CallsFit' /\ InStep'
<1>1. CallsFit'
  BY DEF CallsFit, InMeeting, Between, AtMet, LastMeeting
<1>. SUFFICES InStep'
  BY <1>1
<1>2. \A c \in Core :
          /\ pc'[c] \in Between <=> pc[c] \in Between
          /\ \A x \in {"B", "C", "metA", "metB", "metC"} : pc'[c] = x <=> pc[c] = x
          /\ ~InMeeting(c)' <=> ~InMeeting(c)
  BY DEF Between, InMeeting
<1>3. CASE pc[Core0] \in Between
  <2>1. WhileBetween'
    BY <1>2, <1>3 DEF InStep, WhileBetween, Hit, AllIn, Ahead
  <2>. QED
    BY <1>2, <1>3, <2>1, CoreAssumption DEF InStep, Between
<1>4. CASE pc[Core0] = "metA"
  <2>1. WhileAtMetA
    BY <1>4 DEF InStep
  <2>2. AllIn(Between \cup {"metA", "B", "C"})' /\ Ahead({"C"})'
    BY <1>2, <2>1 DEF WhileAtMetA, AllIn, Ahead
  <2>3. Hit("A", {"metA", "B", "C"})' /\ Hit("B", {"C"})'
    BY <1>2, <2>1 DEF WhileAtMetA, Hit
  <2>4. Met("A", {"metA", "B"}, {"C"})'
    BY <1>2, <2>1 DEF WhileAtMetA, Met, AllHit
  <2>5. pc'[Core0] = "metA"
    BY <1>2, <1>4, CoreAssumption
  <2>. QED
    BY <2>2, <2>3, <2>4, <2>5 DEF InStep, WhileAtMetA, Between
<1>5. CASE pc[Core0] = "B"
  <2>1. WhileAtB'
    BY <1>2, <1>5 DEF InStep, WhileAtB, Hit, AllHit, AllIn, Ahead
  <2>. QED
    BY <1>2, <1>5, <2>1, CoreAssumption DEF InStep, Between
<1>6. CASE pc[Core0] \in {"metB", "C"}
  <2>1. \A c \in Core : pc'[c] = pc[c]
    BY <1>6, CoreAssumption
       DEF InStep, WhileAtMetB, WhileAtC, Between, Left, AllIn, Ahead
  <2>2. WhileAtMetB => WhileAtMetB'
    BY <1>2, <2>1 DEF WhileAtMetB, Hit, AllHit, AllIn, Ahead, Met
  <2>3. WhileAtC => WhileAtC'
    BY <1>2, <2>1 DEF WhileAtC, Hit, AllHit, AllIn, Ahead
  <2>. QED
    BY <1>6, <2>1, <2>2, <2>3, CoreAssumption DEF InStep, Between
<1>7. CASE pc[Core0] = "metC"
  <2>1. WhileAtMetC
    BY <1>7 DEF InStep
  <2>2. AllIn(Between \cup {"B", "C", "metC"})' /\ Ahead({"B"})' /\ AllHit("B")'
    BY <1>2, <2>1 DEF WhileAtMetC, AllIn, Ahead, AllHit
  <2>3. Hit("A", {"B"})' /\ Hit("C", Between \cup {"B", "metC"})'
    BY <1>2, <2>1 DEF WhileAtMetC, Hit
  <2>4. Met("C", Between \cup {"metC"}, {"B"})'
    BY <1>2, <2>1 DEF WhileAtMetC, Met, AllHit
  <2>5. pc'[Core0] = "metC"
    BY <1>2, <1>7, CoreAssumption
  <2>. QED
    BY <2>2, <2>3, <2>4, <2>5 DEF InStep, WhileAtMetC, Between
<1>. QED
  BY <1>3, <1>4, <1>5, <1>6, <1>7, CoreAssumption DEF TypeOK, CoreAt, Between

\* What a thread does that arrives at a rendezvous: it goes to sleep, or all
\* have arrived.
LEMMA ArriveFacts ==
    ASSUME TypeOK, CallsFit, NEW c \in Core, Arrive(c)
    PROVE  /\ pc[c] \in Meeting /\ ~InMeeting(c)
           /\ \A r \in Meeting :
                  coreHit'[r] = IF r = pc[c] THEN coreHit[r] \cup {c} ELSE coreHit[r]
           /\ pc' = [pc EXCEPT ![c] = After(c)[pc[c]]]
           /\ \A u \in Core \ {c} : call'[u] = call[u]
           /\ InMeeting(c)' => call'[c] = R!Waiting(pc[c], Core)
           /\ ~InMeeting(c)' => Core \subseteq coreHit'[pc[c]]
<1>1. /\ call \in [Core -> RP!Call] /\ coreHit \in [Meeting -> SUBSET Core]
      /\ pc \in [Core -> CoreAt]
  BY DEF TypeOK, RP!TypeOK
<1>2. /\ pc[c] \in Meeting /\ ~InMeeting(c)
      /\ coreHit' = [coreHit EXCEPT ![pc[c]] = @ \cup {c}]
      /\ pc' = [pc EXCEPT ![c] = After(c)[pc[c]]]
  BY DEF Arrive, R!OSWaitRendezvous, InMeeting, CoreGoes
<1>3. \/ call' = [call EXCEPT ![c] = R!Waiting(pc[c], Core)]
      \/ call' = [call EXCEPT ![c] = R!NoCall] /\ Core \subseteq coreHit'[pc[c]]
  BY DEF Arrive, R!OSWaitRendezvous, R!MeetOrWait
<1>4. R!Waiting(pc[c], Core) # R!NoCall
  BY DEF R!Waiting, R!NoCall
<1>5. /\ \A u \in Core \ {c} : call'[u] = call[u]
      /\ InMeeting(c)' => call'[c] = R!Waiting(pc[c], Core)
      /\ ~InMeeting(c)' => Core \subseteq coreHit'[pc[c]]
  BY <1>1, <1>3, <1>4 DEF InMeeting
<1>. QED
  BY <1>1, <1>2, <1>5

LEMMA WokenFacts ==
    ASSUME TypeOK, CallsFit, NEW c \in Core, Woken(c)
    PROVE  /\ InMeeting(c) /\ UNCHANGED <<coreHit, pc>>
           /\ \A u \in Core \ {c} : call'[u] = call[u]
           /\ InMeeting(c)' => call'[c] = call[c]
           /\ ~InMeeting(c)' => AllHit(LastMeeting[pc[c]])
<1>1. call \in [Core -> RP!Call]
  BY DEF TypeOK, RP!TypeOK
<1>2. InMeeting(c) /\ UNCHANGED <<coreHit, pc>>
  BY DEF Woken, R!Woken, InMeeting, coreVars
<1>3. call[c] = R!Waiting(LastMeeting[pc[c]], Core)
  BY <1>2 DEF CallsFit
<1>4. call[c].rendezvous = LastMeeting[pc[c]] /\ call[c].coreMask = Core
  BY <1>3 DEF R!Waiting
<1>5. \/ call' = [call EXCEPT ![c] = call[c]]
      \/ call' = [call EXCEPT ![c] = R!NoCall] /\ Core \subseteq coreHit[LastMeeting[pc[c]]]
  BY <1>2, <1>3, <1>4 DEF Woken, R!Woken, R!MeetOrWait
<1>. QED
  BY <1>1, <1>2, <1>5 DEF InMeeting, AllHit

LEMMA ArriveCallsFit ==
    ASSUME TypeOK, CallsFit, NEW c \in Core, Arrive(c)
    PROVE  CallsFit'
<1>1. /\ pc[c] \in Meeting /\ pc' = [pc EXCEPT ![c] = After(c)[pc[c]]]
      /\ \A u \in Core \ {c} : call'[u] = call[u]
      /\ InMeeting(c)' => call'[c] = R!Waiting(pc[c], Core)
  BY ArriveFacts
<1>2. /\ After(c)[pc[c]] \in DOMAIN LastMeeting
      /\ LastMeeting[After(c)[pc[c]]] = pc[c]
      /\ After(c)[pc[c]] \in AtMet <=> c = Core0
  BY <1>1 DEF After, LastMeeting, AtMet, Meeting
<1>3. pc'[c] = After(c)[pc[c]] /\ \A u \in Core \ {c} : pc'[u] = pc[u]
  BY <1>1 DEF TypeOK
<1>4. ASSUME NEW u \in Core \ {c}
      PROVE  /\ pc'[u] \in AtMet => u = Core0
             /\ InMeeting(u)' =>
                    /\ pc'[u] \in DOMAIN LastMeeting
                    /\ call'[u] = R!Waiting(LastMeeting[pc'[u]], Core)
                    /\ u = Core0 => pc'[u] \in AtMet
  BY <1>1, <1>3, <1>4 DEF CallsFit, InMeeting
<1>. QED
  BY <1>1, <1>2, <1>3, <1>4 DEF CallsFit

LEMMA WokenCallsFit ==
    ASSUME TypeOK, CallsFit, NEW c \in Core, Woken(c)
    PROVE  CallsFit'
BY WokenFacts DEF CallsFit, InMeeting

LEMMA WokenInStep ==
    ASSUME TypeOK, CallsFit, InStep, NEW c \in Core, Woken(c)
    PROVE  InStep'
<1>1. /\ InMeeting(c) /\ UNCHANGED <<coreHit, pc>>
      /\ \A u \in Core \ {c} : call'[u] = call[u]
      /\ InMeeting(c)' => call'[c] = call[c]
      /\ ~InMeeting(c)' => AllHit(LastMeeting[pc[c]])
  BY WokenFacts
<1>2. \A u \in Core : u # c => (InMeeting(u)' <=> InMeeting(u))
  BY <1>1 DEF InMeeting
<1>3. /\ pc[c] = "B" => LastMeeting[pc[c]] = "A"
      /\ pc[c] = "metA" => LastMeeting[pc[c]] = "A"
      /\ pc[c] = "C" => LastMeeting[pc[c]] = "B"
      /\ pc[c] = "metB" => LastMeeting[pc[c]] = "B"
      /\ pc[c] \in Left \cup {"metC"} => LastMeeting[pc[c]] = "C"
      /\ pc[c] \in Between => pc[c] \in Left
  <2>1. pc[c] \in DOMAIN LastMeeting
    BY <1>1 DEF CallsFit
  <2>. QED
    BY <2>1 DEF LastMeeting, Left, Between
<1>4. c = Core0 => pc[c] \in AtMet
  BY <1>1 DEF CallsFit
<1>5. CASE pc[Core0] \in Between
  <2>1. WhileBetween'
    BY <1>1, <1>2, <1>3, <1>5, CoreAssumption
       DEF InStep, WhileBetween, AllIn, Ahead, Hit, AllHit, Between
  <2>. QED
    BY <1>1, <1>5, <2>1 DEF InStep, Between
<1>6. CASE pc[Core0] = "metA"
  <2>1. WhileAtMetA'
    BY <1>1, <1>2, <1>3, <1>6, CoreAssumption
       DEF InStep, WhileAtMetA, AllIn, Ahead, Hit, AllHit, Met
  <2>. QED
    BY <1>1, <1>6, <2>1 DEF InStep, Between
<1>7. CASE pc[Core0] = "B"
  <2>1. WhileAtB'
    BY <1>1, <1>2, <1>3, <1>4, <1>7, CoreAssumption
       DEF InStep, WhileAtB, AllIn, Ahead, Hit, AllHit, AtMet
  <2>. QED
    BY <1>1, <1>7, <2>1 DEF InStep, Between
<1>8. CASE pc[Core0] = "metB"
  <2>1. WhileAtMetB'
    BY <1>1, <1>2, <1>3, <1>8, CoreAssumption
       DEF InStep, WhileAtMetB, AllIn, Ahead, Hit, AllHit, Met, Left
  <2>. QED
    BY <1>1, <1>8, <2>1 DEF InStep, Between
<1>9. CASE pc[Core0] = "C"
  <2>1. WhileAtC'
    BY <1>1, <1>2, <1>3, <1>4, <1>9, CoreAssumption
       DEF InStep, WhileAtC, AllIn, Ahead, Hit, AllHit, Left, AtMet
  <2>. QED
    BY <1>1, <1>9, <2>1 DEF InStep, Between
<1>10. CASE pc[Core0] = "metC"
  <2>1. WhileAtMetC'
    BY <1>1, <1>2, <1>3, <1>10, CoreAssumption
       DEF InStep, WhileAtMetC, AllIn, Ahead, Hit, AllHit, Met, Left, Between
  <2>. QED
    BY <1>1, <1>10, <2>1 DEF InStep, Between
<1>. QED
  BY <1>5, <1>6, <1>7, <1>8, <1>9, <1>10, CoreAssumption DEF TypeOK, CoreAt, Between

LEMMA ArriveInStep ==
    ASSUME TypeOK, CallsFit, InStep, NEW c \in Core, Arrive(c)
    PROVE  InStep'
<1>1. /\ pc[c] \in {"A", "B", "C"} /\ ~InMeeting(c)
      /\ \A r \in Meeting :
             coreHit'[r] = IF r = pc[c] THEN coreHit[r] \cup {c} ELSE coreHit[r]
      /\ ~InMeeting(c)' => Core \subseteq coreHit'[pc[c]]
  BY ArriveFacts DEF Meeting
<1>2. \A u \in Core \ {c} :
          pc'[u] = pc[u] /\ (InMeeting(u)' <=> InMeeting(u))
  BY ArriveFacts DEF TypeOK, InMeeting
<1>3. /\ c = Core0 => /\ pc[c] = "A" => pc'[c] = "metA"
                      /\ pc[c] = "B" => pc'[c] = "metB"
                      /\ pc[c] = "C" => pc'[c] = "metC"
      /\ c # Core0 => /\ pc[c] = "A" => pc'[c] = "B"
                      /\ pc[c] = "B" => pc'[c] = "C"
                      /\ pc[c] = "C" => pc'[c] \in Left
  <2>1. pc'[c] = After(c)[pc[c]]
    BY ArriveFacts DEF TypeOK
  <2>2. CASE c = Core0
    BY <1>1, <2>1, <2>2 DEF After
  <2>3. CASE c # Core0
    BY <1>1, <2>1, <2>3 DEF After, Left
  <2>. QED
    BY <2>2, <2>3
<1>4. \A u \in Core :
          /\ u \in coreHit'["A"] <=> u \in coreHit["A"] \/ (u = c /\ pc[c] = "A")
          /\ u \in coreHit'["B"] <=> u \in coreHit["B"] \/ (u = c /\ pc[c] = "B")
          /\ u \in coreHit'["C"] <=> u \in coreHit["C"] \/ (u = c /\ pc[c] = "C")
  BY <1>1 DEF Meeting
<1>5. CASE pc[Core0] \in Between
  <2>1. WhileBetween /\ pc[c] = "A"
    BY <1>1, <1>5, CoreAssumption DEF InStep, WhileBetween, AllIn, Ahead, Between
  <2>2. CASE c = Core0
    <3>1. AllIn(Between \cup {"metA", "B", "C"})' /\ Ahead({"C"})'
      BY <1>2, <1>3, <2>1, <2>2 DEF WhileBetween, AllIn, Ahead, Between
    <3>2. Hit("A", {"metA", "B", "C"})' /\ Hit("B", {"C"})'
      BY <1>2, <1>3, <1>4, <2>1, <2>2 DEF WhileBetween, Hit, AllIn, Between
    <3>3. Met("A", {"metA", "B"}, {"C"})'
      BY <1>1, <1>2, <1>3, <2>1, <2>2
         DEF WhileBetween, Met, AllHit, AllIn, Ahead, Between
    <3>. QED
      BY <1>3, <2>1, <2>2, <3>1, <3>2, <3>3 DEF InStep, WhileAtMetA, Between
  <2>3. CASE c # Core0
    <3>1. InMeeting(c)'
      BY <1>1, <1>4, <1>5, <2>1, <2>3, CoreAssumption DEF WhileBetween, Hit, Between
    <3>2. WhileBetween'
      BY <1>2, <1>3, <1>4, <2>1, <2>3, <3>1
         DEF WhileBetween, Hit, AllIn, Ahead, Between
    <3>. QED
      BY <1>2, <1>5, <2>3, <3>2, CoreAssumption DEF InStep, Between
  <2>. QED
    BY <2>2, <2>3
<1>6. CASE pc[Core0] = "metA"
  <2>1. WhileAtMetA /\ pc[c] \in {"A", "B"} /\ c # Core0
    BY <1>1, <1>6, CoreAssumption DEF InStep, WhileAtMetA, AllIn, Ahead, Between
  <2>2. pc[c] = "B" => AllHit("A") /\ InMeeting(c)'
    BY <1>1, <1>4, <1>6, <2>1, CoreAssumption DEF WhileAtMetA, Hit, Met
  <2>3. AllIn(Between \cup {"metA", "B", "C"})' /\ Ahead({"C"})'
    BY <1>2, <1>3, <2>1, <2>2 DEF WhileAtMetA, AllIn, Ahead, Between
  <2>4. Hit("A", {"metA", "B", "C"})' /\ Hit("B", {"C"})'
    BY <1>2, <1>3, <1>4, <2>1 DEF WhileAtMetA, Hit
  <2>5. Met("A", {"metA", "B"}, {"C"})'
    <3>1. CASE pc[c] = "A"
      <4>1. ~AllHit("A")
        BY <2>1, <3>1 DEF WhileAtMetA, Hit, AllHit
      <4>. QED
        BY <1>1, <1>2, <1>3, <2>1, <3>1, <4>1 DEF WhileAtMetA, Met, AllHit
    <3>2. CASE pc[c] = "B"
      BY <1>4, <2>2, <3>2 DEF Met, AllHit
    <3>. QED
      BY <2>1, <3>1, <3>2
  <2>. QED
    BY <1>2, <1>6, <2>1, <2>3, <2>4, <2>5, CoreAssumption DEF InStep, WhileAtMetA, Between
<1>7. CASE pc[Core0] = "B"
  <2>1. WhileAtB /\ pc[c] = "B"
    BY <1>1, <1>7, CoreAssumption DEF InStep, WhileAtB, AllIn, Ahead, Between
  <2>2. CASE c = Core0
    <3>1. AllIn({"B", "metB", "C"} \cup Left)' /\ Ahead(Left)' /\ AllHit("A")'
      BY <1>2, <1>3, <1>4, <2>1, <2>2 DEF WhileAtB, AllIn, Ahead, AllHit, Left
    <3>2. Hit("B", {"metB", "C"} \cup Left)' /\ Hit("C", Left)'
      BY <1>2, <1>3, <1>4, <2>1, <2>2 DEF WhileAtB, Hit, AllIn, Left
    <3>3. Met("B", {"metB", "C"}, Left)'
      BY <1>1, <1>2, <1>3, <2>1, <2>2 DEF WhileAtB, Met, AllHit, AllIn, Ahead, Left
    <3>. QED
      BY <1>3, <2>1, <2>2, <3>1, <3>2, <3>3 DEF InStep, WhileAtMetB, Between
  <2>3. CASE c # Core0
    <3>1. InMeeting(c)'
      BY <1>1, <1>4, <1>7, <2>1, <2>3, CoreAssumption DEF WhileAtB, Hit
    <3>2. WhileAtB'
      BY <1>2, <1>3, <1>4, <2>1, <2>3, <3>1 DEF WhileAtB, Hit, AllHit, AllIn, Ahead
    <3>. QED
      BY <1>2, <1>7, <2>3, <3>2, CoreAssumption DEF InStep, Between
  <2>. QED
    BY <2>2, <2>3
<1>8. CASE pc[Core0] = "metB"
  <2>1. WhileAtMetB /\ pc[c] \in {"B", "C"} /\ c # Core0
    BY <1>1, <1>8, CoreAssumption DEF InStep, WhileAtMetB, AllIn, Ahead, Left
  <2>2. pc[c] = "C" => AllHit("B") /\ InMeeting(c)'
    BY <1>1, <1>4, <1>8, <2>1, CoreAssumption DEF WhileAtMetB, Hit, Met, Left
  <2>3. AllIn({"B", "metB", "C"} \cup Left)' /\ Ahead(Left)' /\ AllHit("A")'
    BY <1>2, <1>3, <1>4, <2>1, <2>2 DEF WhileAtMetB, AllIn, Ahead, AllHit, Left
  <2>4. Hit("B", {"metB", "C"} \cup Left)' /\ Hit("C", Left)'
    BY <1>2, <1>3, <1>4, <2>1 DEF WhileAtMetB, Hit, Left
  <2>5. Met("B", {"metB", "C"}, Left)'
    <3>1. CASE pc[c] = "B"
      <4>1. ~AllHit("B")
        BY <2>1, <3>1 DEF WhileAtMetB, Hit, AllHit, Left
      <4>. QED
        BY <1>1, <1>2, <1>3, <2>1, <3>1, <4>1 DEF WhileAtMetB, Met, AllHit, Left
    <3>2. CASE pc[c] = "C"
      BY <1>4, <2>2, <3>2 DEF Met, AllHit
    <3>. QED
      BY <2>1, <3>1, <3>2
  <2>. QED
    BY <1>2, <1>8, <2>1, <2>3, <2>4, <2>5, CoreAssumption DEF InStep, WhileAtMetB, Between
<1>9. CASE pc[Core0] = "C"
  <2>1. WhileAtC /\ pc[c] = "C"
    BY <1>1, <1>9, CoreAssumption DEF InStep, WhileAtC, AllIn, Ahead, Left
  <2>2. CASE c = Core0
    <3>1. /\ AllIn(Between \cup {"B", "C", "metC"})' /\ Ahead({"B"})'
          /\ AllHit("B")'
      BY <1>2, <1>3, <1>4, <2>1, <2>2
         DEF WhileAtC, AllIn, Ahead, AllHit, Left, Between
    <3>2. Hit("A", {"B"})' /\ Hit("C", Between \cup {"B", "metC"})'
      BY <1>2, <1>3, <1>4, <2>1, <2>2 DEF WhileAtC, Hit, AllIn, Left, Between
    <3>3. Met("C", Between \cup {"metC"}, {"B"})'
      BY <1>1, <1>2, <1>3, <2>1, <2>2
         DEF WhileAtC, Met, AllHit, AllIn, Ahead, Left, Between
    <3>. QED
      BY <1>3, <2>1, <2>2, <3>1, <3>2, <3>3 DEF InStep, WhileAtMetC, Between
  <2>3. CASE c # Core0
    <3>1. InMeeting(c)'
      BY <1>1, <1>4, <1>9, <2>1, <2>3, CoreAssumption DEF WhileAtC, Hit, Left
    <3>2. WhileAtC'
      BY <1>2, <1>3, <1>4, <2>1, <2>3, <3>1
         DEF WhileAtC, Hit, AllHit, AllIn, Ahead, Left
    <3>. QED
      BY <1>2, <1>9, <2>3, <3>2, CoreAssumption DEF InStep, Between
  <2>. QED
    BY <2>2, <2>3
<1>10. CASE pc[Core0] = "metC"
  <2>1. WhileAtMetC /\ pc[c] \in {"A", "C"} /\ c # Core0
    BY <1>1, <1>10, CoreAssumption DEF InStep, WhileAtMetC, AllIn, Ahead, Between
  <2>2. pc[c] = "A" => AllHit("C") /\ InMeeting(c)'
    BY <1>1, <1>4, <1>10, <2>1, CoreAssumption DEF WhileAtMetC, Hit, Met, Between
  <2>3. /\ AllIn(Between \cup {"B", "C", "metC"})' /\ Ahead({"B"})'
        /\ AllHit("B")'
    BY <1>2, <1>3, <1>4, <2>1, <2>2
       DEF WhileAtMetC, AllIn, Ahead, AllHit, Left, Between
  <2>4. Hit("A", {"B"})' /\ Hit("C", Between \cup {"B", "metC"})'
    BY <1>2, <1>3, <1>4, <2>1 DEF WhileAtMetC, Hit, Left, Between
  <2>5. Met("C", Between \cup {"metC"}, {"B"})'
    <3>1. CASE pc[c] = "C"
      <4>1. ~AllHit("C")
        BY <2>1, <3>1 DEF WhileAtMetC, Hit, AllHit, Between
      <4>. QED
        BY <1>1, <1>2, <1>3, <2>1, <3>1, <4>1 DEF WhileAtMetC, Met, AllHit, Left
    <3>2. CASE pc[c] = "A"
      BY <1>4, <2>2, <3>2 DEF Met, AllHit
    <3>. QED
      BY <2>1, <3>1, <3>2
  <2>. QED
    BY <1>2, <1>10, <2>1, <2>3, <2>4, <2>5, CoreAssumption DEF InStep, WhileAtMetC, Between
<1>. QED
  BY <1>5, <1>6, <1>7, <1>8, <1>9, <1>10, CoreAssumption DEF TypeOK, CoreAt, Between
\* Core 0 steps to `to' while it is in no rendezvous.
LEMMA Core0CallsFit ==
    ASSUME TypeOK, CallsFit, ~InMeeting(Core0), NEW to \in CoreAt \ AtMet,
           CoreGoes(Core0, to), UNCHANGED call
    PROVE  CallsFit'
<1>1. \A c \in Core : c # Core0 => pc'[c] = pc[c]
  BY CoreAssumption DEF TypeOK, CoreGoes
<1>2. pc'[Core0] = to
  BY CoreAssumption DEF TypeOK, CoreGoes
<1>. QED
  BY <1>1, <1>2 DEF CallsFit, InMeeting

\* Whoever is in a rendezvous is in the one it arrived at last.
LEMMA EmptyRendezvous ==
    ASSUME CallsFit, NEW r \in Meeting,
           \A c \in Core : InMeeting(c) => LastMeeting[pc[c]] # r
    PROVE  R!Empty(r)
<1>1. ASSUME NEW c \in Core, InMeeting(c)
      PROVE  call[c].rendezvous = LastMeeting[pc[c]]
  <2>1. call[c] = R!Waiting(LastMeeting[pc[c]], Core)
    BY <1>1 DEF CallsFit
  <2>. QED
    BY <2>1 DEF R!Waiting
<1>. QED
  BY <1>1 DEF R!Empty, InMeeting

LEMMA MetAInStep ==
    ASSUME TypeOK, CallsFit, InStep, MetA
    PROVE  R!Empty("C") /\ CallsFit' /\ InStep'
<1>1. /\ pc[Core0] = "metA" /\ ~InMeeting(Core0) /\ UNCHANGED call
      /\ CoreGoes(Core0, "B") /\ coreHit' = [coreHit EXCEPT !["C"] = {}]
  BY DEF MetA, At, InMeeting, R!OSInitRendezvous
<1>2. WhileAtMetA /\ AllHit("A")
  BY <1>1, CoreAssumption DEF InStep, WhileAtMetA, Met
<1>3. \A c \in Core \ {Core0} : pc[c] \in {"B", "C"}
  BY <1>2 DEF WhileAtMetA, AllHit, Hit, CallsFit, AtMet
<1>4. R!Empty("C")
  BY <1>1, <1>3, EmptyRendezvous DEF LastMeeting, Meeting
<1>5. CallsFit'
  BY <1>1, Core0CallsFit DEF CoreAt, AtMet
<1>6. /\ pc'[Core0] = "B" /\ \A c \in Core \ {Core0} : pc'[c] = pc[c]
      /\ coreHit'["A"] = coreHit["A"] /\ coreHit'["B"] = coreHit["B"]
      /\ coreHit'["C"] = {}
  BY <1>1, CoreAssumption DEF TypeOK, RP!TypeOK, CoreGoes, Meeting
<1>7. AllIn({"B", "C"})' /\ Ahead({"C"})'
  BY <1>1, <1>2, <1>3, <1>6 DEF WhileAtMetA, AllIn, Ahead, InMeeting
<1>8. AllHit("A")' /\ Hit("B", {"C"})' /\ Hit("C", {})'
  BY <1>1, <1>2, <1>6 DEF WhileAtMetA, AllHit, Hit
<1>. QED
  BY <1>4, <1>5, <1>6, <1>7, <1>8 DEF InStep, WhileAtB, Between

LEMMA MetBInStep ==
    ASSUME TypeOK, CallsFit, InStep, MetB
    PROVE  R!Empty("A") /\ CallsFit' /\ InStep'
<1>1. /\ pc[Core0] = "metB" /\ ~InMeeting(Core0) /\ UNCHANGED call
      /\ CoreGoes(Core0, "C") /\ coreHit' = [coreHit EXCEPT !["A"] = {}]
  BY DEF MetB, At, InMeeting, R!OSInitRendezvous
<1>2. WhileAtMetB /\ AllHit("B")
  BY <1>1, CoreAssumption DEF InStep, WhileAtMetB, Met
<1>3. \A c \in Core \ {Core0} : pc[c] \in {"C"} \cup Left
  BY <1>2 DEF WhileAtMetB, AllHit, Hit, CallsFit, AtMet
<1>4. R!Empty("A")
  BY <1>1, <1>3, EmptyRendezvous DEF LastMeeting, Meeting, Left
<1>5. CallsFit'
  BY <1>1, Core0CallsFit DEF CoreAt, AtMet
<1>6. /\ pc'[Core0] = "C" /\ \A c \in Core \ {Core0} : pc'[c] = pc[c]
      /\ coreHit'["B"] = coreHit["B"] /\ coreHit'["C"] = coreHit["C"]
      /\ coreHit'["A"] = {}
  BY <1>1, CoreAssumption DEF TypeOK, RP!TypeOK, CoreGoes, Meeting
<1>7. AllIn({"C"} \cup Left)' /\ Ahead(Left)'
  BY <1>1, <1>2, <1>3, <1>6 DEF WhileAtMetB, AllIn, Ahead, InMeeting
<1>8. Hit("A", {})' /\ AllHit("B")' /\ Hit("C", Left)'
  BY <1>1, <1>2, <1>3, <1>6 DEF WhileAtMetB, AllIn, AllHit, Hit, Left
<1>. QED
  BY <1>4, <1>5, <1>6, <1>7, <1>8 DEF InStep, WhileAtC, Between

LEMMA MetCInStep ==
    ASSUME TypeOK, CallsFit, InStep, MetC
    PROVE  R!Empty("B") /\ CallsFit' /\ InStep'
<1>. DEFINE to == IF mine[Core0] = "Release" THEN "hold" ELSE "wait"
<1>1. /\ pc[Core0] = "metC" /\ ~InMeeting(Core0) /\ UNCHANGED call
      /\ CoreGoes(Core0, to) /\ coreHit' = [coreHit EXCEPT !["B"] = {}]
  BY DEF MetC, At, InMeeting, R!OSInitRendezvous
<1>2. WhileAtMetC /\ AllHit("C")
  BY <1>1, CoreAssumption DEF InStep, WhileAtMetC, Met
<1>3. \A c \in Core \ {Core0} : pc[c] \in Between \cup {"B"}
  BY <1>2 DEF WhileAtMetC, AllHit, Hit, CallsFit, AtMet
<1>4. R!Empty("B")
  <2>1. ASSUME NEW c \in Core, InMeeting(c)
        PROVE  LastMeeting[pc[c]] # "B"
    <3>1. c # Core0 /\ pc[c] \in Between \cup {"B"} /\ pc[c] \in DOMAIN LastMeeting
      BY <1>1, <1>3, <2>1 DEF CallsFit
    <3>. QED
      BY <3>1 DEF LastMeeting, Between
  <2>. QED
    BY <2>1, EmptyRendezvous DEF Meeting
<1>5. CallsFit'
  <2>1. to \in CoreAt \ AtMet
    BY DEF CoreAt, AtMet
  <2>. QED
    BY <1>1, <2>1, Core0CallsFit
<1>6. /\ pc'[Core0] = to /\ \A c \in Core \ {Core0} : pc'[c] = pc[c]
      /\ coreHit'["A"] = coreHit["A"] /\ coreHit'["B"] = {}
  BY <1>1, CoreAssumption DEF TypeOK, RP!TypeOK, CoreGoes, Meeting
<1>7. to \in Between /\ to # "B"
  BY DEF Between
<1>8. AllIn(Between \cup {"B"})' /\ Ahead({"B"})'
  BY <1>1, <1>2, <1>3, <1>6, <1>7 DEF WhileAtMetC, AllIn, Ahead, InMeeting
<1>9. Hit("A", {"B"})' /\ Hit("B", {})'
  BY <1>1, <1>2, <1>6, <1>7 DEF WhileAtMetC, Hit
<1>. QED
  BY <1>4, <1>5, <1>6, <1>7, <1>8, <1>9 DEF InStep, WhileBetween, Between
-----------------------------------------------------------------------------
(* Types.                                                                  *)

LEMMA TypeInit == Init => TypeOK /\ RP!IInv
<1>. SUFFICES ASSUME Init PROVE TypeOK /\ RP!IInv
  OBVIOUS
<1>1. RP!Init
  BY DEF Init, R!Init, RP!Init, R!NoCall, RP!NoCall
<1>2. RP!IInv
  BY <1>1, RP!InitIInv
<1>3. ran \in [Core -> Seq(Command)] /\ queue \in Seq(Message)
  BY DEF Init
<1>4. event \in [Event -> BOOLEAN] /\ pc \in [Core -> CoreAt]
      /\ mine \in [Core -> Command \cup {"Initial"}]
  BY DEF Init, CoreAt
<1>5. TypeOK
  BY <1>2, <1>3, <1>4, CoreAssumption
     DEF Init, TypeOK, RP!IInv, Command, Message, MainAt, BackgroundAt
<1>. QED
  BY <1>2, <1>5

\* The variables of the three rendezvous change as the lemmas about rendezvous
\* say.
LEMMA RendezvousSteps ==
    ASSUME TypeOK, RP!IInv, CallsFit, InStep
    PROVE  /\ \A c \in Core : Arrive(c) \/ Woken(c) => RP!IInv'
           /\ MetA \/ MetB \/ MetC => RP!IInv'
           /\ UNCHANGED meetVars => RP!IInv'
<1>1. ASSUME NEW c \in Core, Arrive(c) PROVE RP!IInv'
  <2>1. RP!OSWaitRendezvous(c, c, pc[c], Core) /\ pc[c] \in Meeting
    BY <1>1 DEF Arrive, R!OSWaitRendezvous, RP!OSWaitRendezvous, R!MeetOrWait,
                RP!MeetOrWait, R!NoCall, RP!NoCall, R!Waiting, RP!Waiting
  <2>. QED
    BY <2>1, RP!OSWaitRendezvousIInv
<1>2. ASSUME NEW c \in Core, Woken(c) PROVE RP!IInv'
  <2>1. RP!Woken(c)
    BY <1>2 DEF Woken, R!Woken, RP!Woken, R!MeetOrWait,
                RP!MeetOrWait, R!NoCall, RP!NoCall, R!Waiting, RP!Waiting
  <2>. QED
    BY <2>1, RP!WokenIInv
<1>3. ASSUME NEW r \in Meeting, R!Empty(r), R!OSInitRendezvous(r) PROVE RP!IInv'
  <2>1. RP!Empty(r) /\ RP!OSInitRendezvous(r)
    BY <1>3 DEF R!Empty, RP!Empty, R!OSInitRendezvous, RP!OSInitRendezvous,
                R!NoCall, RP!NoCall
  <2>. QED
    BY <2>1, RP!OSInitRendezvousIInv
<1>4. MetA \/ MetB \/ MetC => RP!IInv'
  <2>1. MetA => R!Empty("C") /\ R!OSInitRendezvous("C")
    BY MetAInStep DEF MetA
  <2>2. MetB => R!Empty("A") /\ R!OSInitRendezvous("A")
    BY MetBInStep DEF MetB
  <2>3. MetC => R!Empty("B") /\ R!OSInitRendezvous("B")
    BY MetCInStep DEF MetC
  <2>. QED
    BY <1>3, <2>1, <2>2, <2>3 DEF Meeting
<1>5. UNCHANGED meetVars => RP!IInv'
  BY RP!NextIInv DEF meetVars, RP!vars
<1>. QED
  BY <1>1, <1>2, <1>4, <1>5
LEMMA TypeCoreStep ==
    ASSUME TypeOK, RP!IInv, CallsFit, InStep, NEW c \in Core, CoreStep(c)
    PROVE  TypeOK'
<1>1. CASE WaitForCommand(c) \/ HoldBeforeRelease(c)
  <2>1. pc' \in [Core -> CoreAt]
    BY <1>1 DEF TypeOK, WaitForCommand, HoldBeforeRelease, CoreGoes, CoreAt
  <2>2. UNCHANGED <<event, command, mine, meetVars, mainVars, backVars, sysVars,
                    alarmVars, history>>
    BY <1>1 DEF WaitForCommand, HoldBeforeRelease
  <2>. QED
    BY <2>1, <2>2 DEF TypeOK, RP!TypeOK, meetVars, mainVars, backVars, sysVars, alarmVars,
                      history
<1>2. CASE RunCommand(c)
  <2>1. pc' \in [Core -> CoreAt] /\ mine' \in [Core -> Command \cup {"Initial"}]
    BY <1>2 DEF TypeOK, RunCommand, CoreGoes, CoreAt
  <2>2. ran' \in [Core -> Seq(Command)]
    <3>1. command # "Initial" => Append(ran[c], command) \in Seq(Command)
      BY DEF TypeOK
    <3>. QED
      BY <1>2, <3>1 DEF TypeOK, RunCommand
  <2>3. alarms' \subseteq {"listed", "dropped"} /\ UNCHANGED callbacks
    BY <1>2 DEF TypeOK, RunCommand, StartBackgroundAlarms, CancelBackgroundAlarms
  <2>4. UNCHANGED <<event, command, meetVars, mainVars, backVars, sysVars, submission>>
    BY <1>2 DEF RunCommand
  <2>. QED
    BY <2>1, <2>2, <2>3, <2>4
       DEF TypeOK, RP!TypeOK, meetVars, mainVars, backVars, sysVars
<1>3. CASE Arrive(c) \/ Woken(c)
  <2>1. RP!TypeOK'
    BY <1>3, RendezvousSteps DEF RP!IInv
  <2>2. pc' \in [Core -> CoreAt]
    <3>1. Arrive(c) => After(c)[pc[c]] \in CoreAt
      BY DEF Arrive, Meeting, After, CoreAt
    <3>. QED
      BY <1>3, <3>1 DEF TypeOK, Arrive, Woken, coreVars, CoreGoes
  <2>3. UNCHANGED <<event, command, mine, mainVars, backVars, sysVars, alarmVars,
                    history>>
    BY <1>3 DEF Arrive, Woken, coreVars
  <2>. QED
    BY <2>1, <2>2, <2>3 DEF TypeOK, mainVars, backVars, sysVars, alarmVars, history
<1>4. CASE MetA \/ MetB \/ MetC
  <2>1. RP!TypeOK'
    BY <1>4, RendezvousSteps DEF RP!IInv
  <2>2. pc' \in [Core -> CoreAt] /\ event' \in [Event -> BOOLEAN]
    BY <1>4 DEF TypeOK, MetA, MetB, MetC, CoreGoes, OSResetEvent, SignalMain, CoreAt
  <2>3. mainPc' \in MainAt
    BY <1>4 DEF TypeOK, MetA, MetB, MetC, SignalMain, mainVars, MainAt
  <2>4. UNCHANGED <<command, mine, then, blocking, initialized, foreground, drawDone,
                    backVars, sysVars, alarmVars, history>>
    BY <1>4 DEF MetA, MetB, MetC, mainVars
  <2>. QED
    BY <2>1, <2>2, <2>3, <2>4 DEF TypeOK, backVars, sysVars, alarmVars, history
<1>. QED
  BY <1>1, <1>2, <1>3, <1>4 DEF CoreStep

LEMMA QueueTypes ==
    ASSUME TypeOK
    PROVE  /\ \A m \in {"acquire", "release"} : Append(queue, m) \in Seq(Message)
           /\ queue # <<>> => Head(queue) \in Message /\ Tail(queue) \in Seq(Message)
<1>1. queue \in Seq(Message) /\ "acquire" \in Message /\ "release" \in Message
  BY DEF TypeOK, Message
<1>. QED
  BY <1>1

LEMMA SubmitTypes ==
    ASSUME NEW cmd \in Command, NEW cont \in {"idle", "resetHold", "acquired", "clear"},
           Submit(cmd, cont)
    PROVE  /\ mainPc' \in MainAt /\ then' \in {"idle", "resetHold", "acquired", "clear"}
           /\ command' \in Command \cup {"Initial"} /\ submission' \in Command
           /\ ran' \in [Core -> Seq(Command)]
BY DEF Submit, MainGoes, MainAt, Command

LEMMA ProcessSysMessageTypes ==
    ASSUME TypeOK, NEW m \in Message, ProcessSysMessage(m)
    PROVE  /\ mainPc' \in MainAt /\ then' \in {"idle", "resetHold", "acquired", "clear"}
           /\ command' \in Command \cup {"Initial"} /\ submission' \in Command
           /\ ran' \in [Core -> Seq(Command)]
<1>1. CASE m = "acquire"
  BY <1>1, SubmitTypes DEF ProcessSysMessage, Command
<1>2. CASE m # "acquire"
  BY <1>2 DEF TypeOK, ProcessSysMessage, MainGoes, MainAt, history
<1>. QED
  BY <1>1, <1>2

LEMMA TypeMainCalls ==
    ASSUME TypeOK, RP!IInv, MainCalls, RP!IInv'
    PROVE  TypeOK'
<1>1. RP!TypeOK'
  BY DEF RP!IInv
<1>2. CASE ProcUIInit
  <2>1. pc' \in [Core -> CoreAt] /\ event' \in [Event -> BOOLEAN]
    BY <1>2 DEF ProcUIInit, RecreateProcUICoreThreads, CoreAt
  <2>. QED
    BY <1>1, <1>2, <2>1 DEF TypeOK, ProcUIInit, DropCallbacks, backVars, sysVars, history
<1>3. CASE ProcUIRegisterBackgroundCallback \/ ProcUIClearCallbacks
  BY <1>1, <1>3
     DEF TypeOK, ProcUIRegisterBackgroundCallback, ProcUIClearCallbacks, Clear,
         DropCallbacks, CancelBackgroundAlarms, coreVars, mainVars, backVars, sysVars,
         history
<1>4. CASE ProcUIDrawDoneRelease \/ ProcUISetCallbackStackSize
  <2>1. mainPc' \in MainAt /\ command' \in Command \cup {"Initial"}
    BY <1>4 DEF TypeOK, ProcUIDrawDoneRelease, ProcUISetCallbackStackSize, MainGoes, MainAt
  <2>. QED
    BY <1>1, <1>4, <2>1
       DEF TypeOK, ProcUIDrawDoneRelease, ProcUISetCallbackStackSize,
           coreVars, backVars, sysVars, alarmVars, history
<1>5. CASE ProcUIShutdown
  <2>1. Submit("Exit", "clear") /\ "Exit" \in Command
    BY <1>5 DEF ProcUIShutdown, Command
  <2>. QED
    BY <1>1, <1>5, <2>1, SubmitTypes
       DEF TypeOK, ProcUIShutdown, CancelBackgroundAlarms, coreVars, backVars, sysVars
<1>6. ASSUME NEW b \in Modes, ProcUIProcessMessages(b) PROVE TypeOK'
  <2>1. blocking' \in BOOLEAN
    BY <1>6, CoreAssumption DEF ProcUIProcessMessages
  <2>2. CASE drawDone
    <3>1. Submit("Release", "resetHold") /\ "Release" \in Command
      BY <1>6, <2>2 DEF ProcUIProcessMessages, Command
    <3>. QED
      BY <1>1, <1>6, <2>1, <2>2, <3>1, SubmitTypes
         DEF TypeOK, ProcUIProcessMessages, coreVars, backVars, sysVars, alarmVars
  <2>3. CASE ~drawDone
    <3>1. mainPc' \in MainAt
      BY <1>6, <2>3 DEF ProcUIProcessMessages, MainGoes, MainAt, Receives
    <3>. QED
      BY <1>1, <1>6, <2>1, <2>3, <3>1
         DEF TypeOK, ProcUIProcessMessages, coreVars, backVars, sysVars, alarmVars, history
  <2>. QED
    BY <2>2, <2>3
<1>. QED
  BY <1>2, <1>3, <1>4, <1>5, <1>6 DEF MainCalls

LEMMA TypeMainStep ==
    ASSUME TypeOK, RP!IInv, MainStep, RP!IInv'
    PROVE  TypeOK'
<1>1. RP!TypeOK'
  BY DEF RP!IInv
<1>2. CASE ResetDone \/ ResetHold \/ ResetGot
  <2>1. event' \in [Event -> BOOLEAN] /\ mainPc' \in MainAt
    BY <1>2 DEF TypeOK, ResetDone, ResetHold, ResetGot, OSResetEvent, MainGoes, MainAt
  <2>. QED
    BY <1>1, <1>2, <2>1
       DEF TypeOK, ResetDone, ResetHold, ResetGot, coreVars, backVars, sysVars, alarmVars,
           history
<1>3. CASE SignalReady \/ SignalHold
  <2>1. /\ event' \in [Event -> BOOLEAN] /\ mainPc' \in MainAt
        /\ pc' \in [Core -> CoreAt] /\ drawDone' \in BOOLEAN
    BY <1>3 DEF TypeOK, SignalReady, SignalHold, SignalCores, Released, MainGoes, MainAt,
                Receives, CoreAt
  <2>. QED
    BY <1>1, <1>3, <2>1
       DEF TypeOK, SignalReady, SignalHold, backVars, sysVars, alarmVars, history
<1>4. CASE AwaitDone \/ Saved \/ Acquired \/ Loop
  <2>1. mainPc' \in MainAt
    <3>1. then \in MainAt
      BY DEF TypeOK, MainAt
    <3>. QED
      BY <1>4, <3>1 DEF AwaitDone, Saved, Acquired, Loop, MainGoes, MainAt
  <2>2. background' \in BackgroundAt
    BY <1>4 DEF TypeOK, AwaitDone, Saved, Acquired, Loop, BackgroundAt, Receives, backVars
  <2>. QED
    BY <1>1, <1>4, <2>1, <2>2
       DEF TypeOK, AwaitDone, Saved, Acquired, Loop, coreVars, backVars, sysVars,
           alarmVars, history
<1>5. CASE JoinBackground
  <2>1. ProcessSysMessage(lastMsg) /\ lastMsg \in Message /\ background' \in BackgroundAt
    BY <1>5 DEF TypeOK, JoinBackground, BackgroundAt
  <2>. QED
    BY <1>1, <1>5, <2>1, ProcessSysMessageTypes
       DEF TypeOK, JoinBackground, coreVars, sysVars, alarmVars
<1>6. CASE ShutdownClears
  <2>1. mainPc' \in MainAt
    BY <1>6 DEF ShutdownClears, MainGoes, MainAt
  <2>. QED
    BY <1>1, <1>6, <2>1
       DEF TypeOK, ShutdownClears, Clear, DropCallbacks, CancelBackgroundAlarms,
           coreVars, backVars, sysVars, history
<1>7. CASE JoinCores
  <2>1. /\ event' \in [Event -> BOOLEAN] /\ mainPc' \in MainAt
        /\ pc' \in [Core -> CoreAt]
    BY <1>7 DEF TypeOK, JoinCores, OSResetEvent, RecreateProcUICoreThreads, MainGoes,
                MainAt, CoreAt
  <2>. QED
    BY <1>1, <1>7, <2>1 DEF TypeOK, JoinCores, DropCallbacks, backVars, sysVars, history
<1>8. CASE MainUpdates
  <2>1. queue' \in Seq(Message)
    BY <1>8, QueueTypes DEF TypeOK, MainUpdates, UpdateSystemMessageQueue
  <2>2. mainPc' \in MainAt
    BY <1>8 DEF MainUpdates, UpdateSystemMessageQueue, MainGoes, MainAt, Receives
  <2>3. toBackground' \in BOOLEAN /\ toForeground' \in BOOLEAN
    BY <1>8 DEF TypeOK, MainUpdates, ClearFlag
  <2>. QED
    BY <1>1, <1>8, <2>1, <2>2, <2>3
       DEF TypeOK, MainUpdates, coreVars, backVars, alarmVars, history
<1>9. CASE MainTakes
  <2>1. CASE queue = <<>>
    <3>1. mainPc' \in MainAt
      BY <1>9, <2>1 DEF MainTakes, MainGoes, MainAt
    <3>. QED
      BY <1>1, <1>9, <2>1, <3>1
         DEF TypeOK, MainTakes, coreVars, backVars, alarmVars, history
  <2>2. CASE queue # <<>>
    <3>1. /\ ProcessSysMessage(Head(queue)) /\ Head(queue) \in Message
          /\ queue' \in Seq(Message)
      BY <1>9, <2>2, QueueTypes DEF MainTakes
    <3>. QED
      BY <1>1, <1>9, <3>1, ProcessSysMessageTypes
         DEF TypeOK, MainTakes, coreVars, backVars, alarmVars
  <2>. QED
    BY <2>1, <2>2
<1>. QED
  BY <1>2, <1>3, <1>4, <1>5, <1>6, <1>7, <1>8, <1>9 DEF MainStep

LEMMA TypeOtherStep ==
    ASSUME TypeOK, RP!IInv, BackgroundStep \/ StartBackgroundForegroundTransition, RP!IInv'
    PROVE  TypeOK'
<1>1. RP!TypeOK'
  BY DEF RP!IInv
<1>2. CASE BackgroundUpdates
  <2>1. queue' \in Seq(Message)
    BY <1>2, QueueTypes DEF TypeOK, BackgroundUpdates, UpdateSystemMessageQueue
  <2>2. background' \in BackgroundAt
    BY <1>2 DEF BackgroundUpdates, UpdateSystemMessageQueue, BackgroundAt, Receives
  <2>3. toBackground' \in BOOLEAN /\ toForeground' \in BOOLEAN
    BY <1>2 DEF TypeOK, BackgroundUpdates, ClearFlag
  <2>. QED
    BY <1>1, <1>2, <2>1, <2>2, <2>3
       DEF TypeOK, BackgroundUpdates, coreVars, mainVars, alarmVars, history
<1>3. CASE BackgroundTakes
  <2>1. queue' \in Seq(Message) /\ lastMsg' \in Message
    BY <1>3 DEF TypeOK, BackgroundTakes
  <2>2. background' \in BackgroundAt
    BY <1>3 DEF BackgroundTakes, BackgroundAt, Receives
  <2>. QED
    BY <1>1, <1>3, <2>1, <2>2
       DEF TypeOK, BackgroundTakes, coreVars, mainVars, alarmVars, history
<1>4. CASE BackgroundSignals
  <2>1. event' \in [Event -> BOOLEAN] /\ mainPc' \in MainAt
    BY <1>4 DEF TypeOK, BackgroundSignals, SignalMain, MainAt
  <2>. QED
    BY <1>1, <1>4, <2>1
       DEF TypeOK, BackgroundSignals, BackgroundAt, coreVars, sysVars, alarmVars, history
<1>5. CASE StartBackgroundForegroundTransition
  BY <1>1, <1>5
     DEF TypeOK, StartBackgroundForegroundTransition, coreVars, mainVars, backVars,
         alarmVars, history
<1>. QED
  BY <1>2, <1>3, <1>4, <1>5 DEF BackgroundStep
-----------------------------------------------------------------------------
(* The core threads stay in step.                                          *)

\* Steps that move threads between two rounds only.
LEMMA BarrierBetweenRounds ==
    ASSUME TypeOK, TypeOK', Barrier, UNCHANGED meetVars,
           \A c \in Core : pc'[c] # pc[c] =>
               /\ pc[c] \in Between /\ pc'[c] \in Between
               /\ pc[c] \in Left => ~InMeeting(c)
    PROVE  Barrier'
<1>1. \A c \in Core : pc[c] \in Between \ Left => ~InMeeting(c)
  BY DEF Barrier, CallsFit, LastMeeting, Between, Left
<1>2. CallsFit' /\ InStep'
  BY <1>1, BetweenRounds DEF TypeOK, Barrier, meetVars, Left, Between
<1>3. RP!IInv'
  BY RendezvousSteps DEF Barrier
<1>. QED
  BY <1>2, <1>3 DEF Barrier

LEMMA BarrierCoreStep ==
    ASSUME IInv, NEW c \in Core, CoreStep(c)
    PROVE  TypeOK' /\ Barrier'
<1>. /\ TypeOK /\ RP!IInv /\ CallsFit /\ InStep
  BY DEF IInv, Barrier
<1>1. TypeOK'
  BY TypeCoreStep
<1>2. CASE WaitForCommand(c) \/ HoldBeforeRelease(c) \/ RunCommand(c)
  <2>1. UNCHANGED meetVars /\ ~InMeeting(c) /\ pc[c] \in Between
    BY <1>2 DEF WaitForCommand, HoldBeforeRelease, RunCommand, At, InMeeting, Between
  <2>2. \E to \in Between : pc' = [pc EXCEPT ![c] = to]
    BY <1>2 DEF WaitForCommand, HoldBeforeRelease, RunCommand, CoreGoes, Between
  <2>3. \A u \in Core : u # c => pc'[u] = pc[u]
    BY <2>2 DEF TypeOK
  <2>4. pc'[c] \in Between
    BY <2>2 DEF TypeOK
  <2>. QED
    BY <1>1, <2>1, <2>3, <2>4, BarrierBetweenRounds DEF Barrier
<1>3. CASE Arrive(c)
  BY <1>1, <1>3, RendezvousSteps, ArriveCallsFit, ArriveInStep DEF Barrier
<1>4. CASE Woken(c)
  BY <1>1, <1>4, RendezvousSteps, WokenCallsFit, WokenInStep DEF Barrier
<1>5. CASE MetA \/ MetB \/ MetC
  BY <1>1, <1>5, RendezvousSteps, MetAInStep, MetBInStep, MetCInStep DEF Barrier
<1>. QED
  BY <1>2, <1>3, <1>4, <1>5 DEF CoreStep

LEMMA BarrierMainCalls ==
    ASSUME IInv, MainCalls
    PROVE  TypeOK' /\ Barrier'
<1>. /\ TypeOK /\ RP!IInv /\ CallsFit /\ InStep
  BY DEF IInv, Barrier
<1>1. CASE ProcUIInit
  <2>1. \A c \in Core : pc[c] = "ended"
    BY <1>1 DEF IInv, ControlInv, ProcUIInit, Calls
  <2>2. \A c \in Core : ~InMeeting(c)
    BY <2>1 DEF CallsFit, LastMeeting
  <2>3. /\ pc' = [c \in Core |-> "wait"] /\ coreHit' = [r \in Meeting |-> {}]
        /\ UNCHANGED <<signaled, threadQueue, call>>
    BY <1>1 DEF ProcUIInit, RecreateProcUICoreThreads
  <2>4. threadQueue = {}
    BY <2>2 DEF TypeOK, RP!TypeOK, InMeeting, R!NoCall, RP!NoCall
  <2>5. RP!IInv'
    BY <2>3, <2>4
       DEF RP!IInv, RP!TypeOK, RP!NobodySleepsWhenMet, RP!NobodySleepsOnASignal
  <2>6. CallsFit'
    BY <2>2, <2>3 DEF CallsFit, InMeeting, AtMet
  <2>7. WhileBetween' /\ pc'[Core0] = "wait"
    BY <2>3, CoreAssumption DEF WhileBetween, AllIn, Ahead, Hit, Between, Meeting
  <2>8. InStep'
    BY <2>7 DEF InStep
  <2>9. TypeOK'
    BY <2>5, TypeMainCalls
  <2>. QED
    BY <2>5, <2>6, <2>8, <2>9 DEF Barrier
<1>2. CASE MainCalls /\ ~ProcUIInit
  <2>1. UNCHANGED meetVars /\ UNCHANGED pc
    BY <1>2 DEF MainCalls, ProcUIRegisterBackgroundCallback, ProcUIClearCallbacks,
                ProcUIDrawDoneRelease, ProcUIShutdown, ProcUISetCallbackStackSize,
                ProcUIProcessMessages, coreVars
  <2>2. TypeOK'
    BY <2>1, RendezvousSteps, TypeMainCalls
  <2>. QED
    BY <2>1, <2>2, BarrierBetweenRounds DEF Barrier
<1>. QED
  BY <1>1, <1>2

LEMMA BarrierMainStep ==
    ASSUME IInv, MainStep
    PROVE  TypeOK' /\ Barrier'
<1>. /\ TypeOK /\ RP!IInv /\ CallsFit /\ InStep
  BY DEF IInv, Barrier
<1>1. UNCHANGED meetVars
  BY DEF MainStep, ResetDone, SignalReady, AwaitDone, ResetHold, Saved, SignalHold,
         Acquired, Loop, ResetGot, JoinBackground, ShutdownClears, JoinCores, MainUpdates,
         MainTakes
<1>2. TypeOK'
  BY <1>1, RendezvousSteps, TypeMainStep
<1>3. CASE SignalReady \/ SignalHold
  <2>1. \A c \in Core : pc'[c] # pc[c] => /\ pc[c] \in {"waiting", "holding"}
                                          /\ pc'[c] \in {"run", "wait"}
    BY <1>3 DEF TypeOK, SignalReady, SignalHold, SignalCores, Released
  <2>2. \A c \in Core : pc'[c] # pc[c] => /\ pc[c] \in Between /\ pc'[c] \in Between
                                          /\ pc[c] \notin Left
    BY <2>1 DEF Between, Left
  <2>. QED
    BY <1>1, <1>2, <2>2, BarrierBetweenRounds DEF Barrier
<1>4. CASE JoinCores
  <2>1. \A c \in Core : pc'[c] # pc[c] => pc[c] = "ended" /\ pc'[c] = "wait"
    BY <1>4 DEF JoinCores, RecreateProcUICoreThreads
  <2>2. \A c \in Core : pc'[c] # pc[c] => /\ pc[c] \in Between /\ pc'[c] \in Between
                                          /\ pc[c] \notin Left
    BY <2>1 DEF Between, Left
  <2>. QED
    BY <1>1, <1>2, <2>2, BarrierBetweenRounds DEF Barrier
<1>5. CASE MainStep /\ ~SignalReady /\ ~SignalHold /\ ~JoinCores
  <2>1. UNCHANGED pc
    BY <1>5 DEF MainStep, ResetDone, AwaitDone, ResetHold, Saved, Acquired, Loop, ResetGot,
                JoinBackground, ShutdownClears, MainUpdates, MainTakes, coreVars
  <2>. QED
    BY <1>1, <1>2, <2>1, BarrierBetweenRounds DEF Barrier
<1>. QED
  BY <1>3, <1>4, <1>5

LEMMA BarrierOtherStep ==
    ASSUME IInv, BackgroundStep \/ StartBackgroundForegroundTransition
    PROVE  TypeOK' /\ Barrier'
<1>. /\ TypeOK /\ RP!IInv /\ CallsFit /\ InStep
  BY DEF IInv, Barrier
<1>1. UNCHANGED meetVars /\ UNCHANGED pc
  BY DEF BackgroundStep, BackgroundUpdates, BackgroundTakes, BackgroundSignals,
         StartBackgroundForegroundTransition, coreVars
<1>2. TypeOK'
  BY <1>1, RendezvousSteps, TypeOtherStep
<1>. QED
  BY <1>1, <1>2, BarrierBetweenRounds DEF Barrier
-----------------------------------------------------------------------------
(* A command is run by every core.                                         *)

\* What a core thread needs to show of a step that leaves the main thread and
\* the events alone.
LEMMA CommandFrame ==
    ASSUME CommandInv, UNCHANGED <<mainPc, event, command, submission>>,
           Active => RoundInv',
           ran' # ran => Active,
           ~Active => \A c \in Core : Rest(c)' \/ (mainPc = "join" /\ pc'[c] = "run")
    PROVE  CommandInv'
<1>1. /\ Submitted' <=> Submitted
      /\ Finished' <=> Finished
      /\ Active' <=> Active
      /\ ran' = ran => \A c \in Core : Ran(c)' <=> Ran(c)
  BY DEF Submitted, Finished, Active, Ran
<1>2. Active => mainPc \in {"await", "awaiting"} /\ ~Finished
  BY DEF Active
<1>3. mainPc \in {"resetDone", "signalReady"} => (\A c \in Core : ran[c] = <<>>)'
  BY <1>2 DEF CommandInv
<1>4. Finished => (\A c \in Core : Ran(c))'
  BY <1>1, <1>2 DEF CommandInv
<1>5. /\ mainPc = "join" => (\A c \in Core : Rest(c) \/ pc[c] = "run")'
      /\ ~Active /\ mainPc # "join" => ~event["ready"] /\ (\A c \in Core : Rest(c))'
  BY <1>2 DEF CommandInv
<1>. QED
  BY <1>1, <1>3, <1>4, <1>5 DEF CommandInv

\* A thread that has run the command is not back from the last rendezvous.
LEMMA NotBackYet ==
    ASSUME TypeOK, CallsFit, InStep, RoundInv, NEW c \in Core,
           pc[c] \in Left, ~InMeeting(c)
    PROVE  ran[c] = <<>>
<1>. SUFFICES ASSUME ran[c] # <<>> PROVE FALSE
  OBVIOUS
<1>1. pc[Core0] \in {"A", "metA", "B", "metB"}
  BY DEF RoundInv, Left
<1>2. CASE pc[Core0] \in {"A", "metA"}
  BY <1>2 DEF RoundInv, Left
<1>3. CASE pc[Core0] = "B"
  BY <1>3, CoreAssumption DEF InStep, WhileAtB, AllIn, Left
<1>4. CASE pc[Core0] = "metB"
  BY <1>4, CoreAssumption DEF InStep, WhileAtMetB, Ahead, Left
<1>. QED
  BY <1>1, <1>2, <1>3, <1>4

LEMMA RanIsNotEmpty == \A c \in Core : Ran(c) => ran[c] # <<>>
BY DEF Ran

\* It looks at an event and goes on waiting, or on.
LEMMA CommandLooks ==
    ASSUME IInv, NEW c \in Core, WaitForCommand(c) \/ HoldBeforeRelease(c)
    PROVE  CommandInv'
<1>. /\ TypeOK /\ CallsFit /\ InStep /\ CommandInv
  BY DEF IInv, Barrier
<1>1. /\ pc[c] \in Left /\ ~InMeeting(c)
      /\ \A u \in Core : u # c => pc'[u] = pc[u]
      /\ UNCHANGED <<event, command, ran, submission, mainPc>>
  BY DEF WaitForCommand, HoldBeforeRelease, At, CoreGoes, InMeeting, Left, TypeOK, mainVars,
         history
<1>2. /\ pc'[c] \in {"wait", "waiting", "run", "holding"}
      /\ pc'[c] = "run" => event["ready"]
  BY DEF WaitForCommand, HoldBeforeRelease, CoreGoes, TypeOK
<1>3. ASSUME Active PROVE RoundInv'
  <2>1. RoundInv
    BY <1>3 DEF CommandInv
  <2>2. ran[c] = <<>>
    BY <1>1, <2>1, NotBackYet
  <2>3. /\ pc[Core0] \in {"A", "metA", "B", "metB"} <=> pc'[Core0] \in {"A", "metA", "B", "metB"}
        /\ \A x \in {"A", "metA", "B", "metB"} : pc'[Core0] = x <=> pc[Core0] = x
    BY <1>1, <1>2, CoreAssumption DEF Left
  <2>4. (\A u \in Core : \/ ran[u] = <<>> /\ (Rest(u) \/ pc[u] = "run")
                         \/ Ran(u) /\ pc[u] \in Runs)'
    <3>1. Rest(c)' \/ pc'[c] = "run"
      BY <1>2 DEF Rest, Parked
    <3>2. \A u \in Core : u # c => (Rest(u)' <=> Rest(u)) /\ (Ran(u)' <=> Ran(u))
      BY <1>1 DEF Rest, Ran
    <3>. QED
      BY <1>1, <2>1, <2>2, <3>1, <3>2 DEF RoundInv
  <2>5. (pc[Core0] \in {"A", "metA"} =>
           /\ event["ready"]
           /\ \A u \in Core : IF ran[u] = <<>> THEN pc[u] \in Parked \cup {"run"}
                              ELSE pc[u] \in {"A", "metA", "B", "C"})'
    <3>1. pc'[c] \in Parked \cup {"run"}
      BY <1>2 DEF Parked
    <3>. QED
      BY <1>1, <2>1, <2>2, <2>3, <3>1 DEF RoundInv
  <2>6. pc[Core0] \notin {"B", "metB"}
    BY <2>1, <2>2, RanIsNotEmpty DEF RoundInv
  <2>. QED
    BY <1>1, <2>1, <2>2, <2>3, <2>4, <2>5, <2>6 DEF RoundInv
<1>4. ASSUME ~Active, NEW u \in Core
      PROVE  Rest(u)' \/ (mainPc = "join" /\ pc'[u] = "run")
  BY <1>1, <1>2, <1>4 DEF CommandInv, Rest, Parked
<1>. QED
  BY <1>1, <1>3, <1>4, CommandFrame

LEMMA CommandRuns ==
    ASSUME IInv, NEW c \in Core, RunCommand(c)
    PROVE  CommandInv'
<1>. /\ TypeOK /\ CallsFit /\ InStep /\ CommandInv
  BY DEF IInv, Barrier
<1>1. /\ pc[c] = "run"
      /\ pc'[c] = IF command = "Initial" THEN "ended" ELSE "A"
      /\ \A u \in Core : u # c => pc'[u] = pc[u]
      /\ UNCHANGED <<event, command, submission, mainPc>>
  BY DEF RunCommand, At, CoreGoes, TypeOK, mainVars
<1>2. /\ command = "Initial" => ran' = ran
      /\ command # "Initial" => ran'[c] = Append(ran[c], command)
      /\ \A u \in Core : u # c => ran'[u] = ran[u]
  BY DEF RunCommand, TypeOK
<1>3. ASSUME Active PROVE RoundInv'
  <2>1. RoundInv
    BY <1>3 DEF CommandInv
  <2>2. ran[c] = <<>>
    BY <1>1, <2>1 DEF RoundInv, Runs
  <2>3. pc'[c] = "A" /\ ran'[c] = <<submission>>
    <3>1. command = submission /\ command # "Initial"
      BY <1>3 DEF CommandInv, Active, Submitted, TypeOK, Command
    <3>. QED
      BY <1>1, <1>2, <2>2, <3>1
  <2>4. \A u \in Core : u # c => /\ Rest(u)' <=> Rest(u)
                                 /\ Ran(u)' <=> Ran(u)
    BY <1>1, <1>2 DEF Rest, Ran
  <2>5. Ran(c)' /\ ran'[c] # <<>>
    BY <1>1, <2>3 DEF Ran
  <2>6. pc[Core0] \notin {"B", "metB"}
    BY <2>1, <2>2, RanIsNotEmpty DEF RoundInv
  <2>7. (\A u \in Core : \/ ran[u] = <<>> /\ (Rest(u) \/ pc[u] = "run")
                         \/ Ran(u) /\ pc[u] \in Runs)'
    BY <1>1, <1>2, <2>1, <2>3, <2>4, <2>5 DEF RoundInv, Runs
  <2>8. CASE c = Core0
    <3>1. WhileBetween
      BY <1>1, <2>8 DEF InStep, Between
    <3>2. event["ready"] /\ \A u \in Core : ran[u] # <<>> => pc[u] \in {"A", "B"}
      BY <2>1, <2>2, <2>8 DEF RoundInv
    <3>3. \A u \in Core : ran[u] = <<>> => pc[u] \in Parked \cup {"run"}
      BY <2>1, <3>1, RanIsNotEmpty DEF RoundInv, Rest, WhileBetween, AllIn, Between
    <3>. QED
      BY <1>1, <1>2, <2>3, <2>5, <2>7, <2>8, <3>2, <3>3 DEF RoundInv
  <2>9. CASE c # Core0
    BY <1>1, <1>2, <2>1, <2>3, <2>5, <2>6, <2>7, <2>9, CoreAssumption DEF RoundInv
  <2>. QED
    BY <2>8, <2>9
<1>4. ASSUME ~Active PROVE mainPc = "join" /\ command = "Initial"
  BY <1>1, <1>4 DEF CommandInv, Rest, Parked
<1>5. ASSUME ~Active, NEW u \in Core
      PROVE  Rest(u)' \/ (mainPc = "join" /\ pc'[u] = "run")
  BY <1>1, <1>4, <1>5 DEF CommandInv, Rest, Parked
<1>. QED
  BY <1>1, <1>2, <1>3, <1>4, <1>5, CommandFrame

LEMMA CommandArrives ==
    ASSUME IInv, NEW c \in Core, Arrive(c)
    PROVE  CommandInv'
<1>. /\ TypeOK /\ CallsFit /\ InStep /\ CommandInv
  BY DEF IInv, Barrier
<1>1. /\ pc[c] \in {"A", "B", "C"} /\ ~InMeeting(c)
      /\ \A u \in Core : u # c => pc'[u] = pc[u]
      /\ UNCHANGED <<event, command, submission, mainPc, ran>>
  <2>1. pc[c] \in {"A", "B", "C"} /\ ~InMeeting(c)
    BY ArriveFacts DEF Meeting
  <2>2. \A u \in Core : u # c => pc'[u] = pc[u]
    BY ArriveFacts DEF TypeOK
  <2>3. UNCHANGED <<event, command, submission, mainPc, ran>>
    BY DEF Arrive, mainVars, history
  <2>. QED
    BY <2>1, <2>2, <2>3
<1>2. /\ c = Core0 => /\ pc[c] = "A" => pc'[c] = "metA"
                      /\ pc[c] = "B" => pc'[c] = "metB"
                      /\ pc[c] = "C" => pc'[c] = "metC"
      /\ c # Core0 => /\ pc[c] = "A" => pc'[c] = "B"
                      /\ pc[c] = "B" => pc'[c] = "C"
                      /\ pc[c] = "C" => pc'[c] \in Left
  <2>1. pc'[c] = After(c)[pc[c]]
    BY ArriveFacts DEF TypeOK
  <2>2. CASE c = Core0
    BY <1>1, <2>1, <2>2 DEF After
  <2>3. CASE c # Core0
    BY <1>1, <2>1, <2>3 DEF After, Left
  <2>. QED
    BY <2>2, <2>3
<1>3. pc[c] = "C" => Rest(c)'
  BY <1>2 DEF Rest, Parked, Left
<1>4. ASSUME Active PROVE RoundInv'
  <2>1. RoundInv
    BY <1>4 DEF CommandInv
  <2>2. \A u \in Core : u # c => (Rest(u)' <=> Rest(u))
    BY <1>1 DEF Rest
  <2>3. /\ \A u \in Core : Ran(u)' <=> Ran(u)
        /\ pc[c] \in {"A", "B"} => Ran(c) /\ ran[c] # <<>>
    BY <1>1, <2>1, RanIsNotEmpty DEF RoundInv, Ran, Rest, Parked
  <2>4. pc[c] \in {"A", "B", "C"} => pc'[c] \in Runs \/ (c = Core0 /\ pc[c] = "C")
    BY <1>2 DEF Runs, Left
  <2>5. ran[Core0] # <<>> => pc[Core0] # "C"
    BY <2>1 DEF RoundInv
  <2>6. (\A u \in Core : \/ ran[u] = <<>> /\ (Rest(u) \/ pc[u] = "run")
                         \/ Ran(u) /\ pc[u] \in Runs)'
    BY <1>1, <1>3, <2>1, <2>2, <2>3, <2>4, <2>5, RanIsNotEmpty DEF RoundInv
  <2>7. CASE c = Core0
    BY <1>1, <1>2, <2>1, <2>3, <2>5, <2>6, <2>7 DEF RoundInv
  <2>8. CASE c # Core0
    <3>1. pc'[Core0] = pc[Core0]
      BY <1>1, <2>8, CoreAssumption
    <3>2. ~(ran[Core0] = <<>> /\ pc[c] = "B")
      <4>. SUFFICES ASSUME ran[Core0] = <<>>, pc[c] = "B" PROVE FALSE
        OBVIOUS
      <4>1. pc[Core0] \in Between \cup {"C", "metC"}
        BY <2>1, CoreAssumption, RanIsNotEmpty DEF RoundInv, Rest, Parked, Between
      <4>. QED
        BY <1>1, <2>8, <4>1
           DEF InStep, WhileBetween, WhileAtC, WhileAtMetC, Ahead, AllIn, Left
    <3>3. pc[Core0] \in {"A", "metA"} => pc[c] # "C"
      BY <1>1, <2>8 DEF InStep, WhileBetween, WhileAtMetA, Ahead, AllIn, Between
    <3>4. /\ ran[Core0] = <<>> /\ ran[c] # <<>> => pc'[c] \in {"A", "B"}
          /\ pc[Core0] \in {"A", "metA"} => ran[c] # <<>> /\ pc'[c] \in {"A", "metA", "B", "C"}
      BY <1>1, <1>2, <2>1, <2>3, <2>8, <3>2, <3>3 DEF RoundInv
    <3>. QED
      BY <1>1, <2>1, <2>3, <2>6, <2>8, <3>1, <3>4 DEF RoundInv
  <2>. QED
    BY <2>7, <2>8
<1>5. ASSUME ~Active, NEW u \in Core
      PROVE  Rest(u)' \/ (mainPc = "join" /\ pc'[u] = "run")
  BY <1>1, <1>3, <1>5 DEF CommandInv, Rest, Parked
<1>. QED
  BY <1>1, <1>4, <1>5, CommandFrame
LEMMA CommandMet ==
    ASSUME IInv, MetA \/ MetB \/ MetC
    PROVE  CommandInv'
<1>. /\ TypeOK /\ CallsFit /\ InStep /\ CommandInv /\ ControlInv
  BY DEF IInv, Barrier
<1>1. UNCHANGED <<command, submission, ran>>
  BY DEF MetA, MetB, MetC, history
<1>2. ~InMeeting(Core0) /\ \A u \in Core : u # Core0 => pc'[u] = pc[u]
  BY CoreAssumption DEF MetA, MetB, MetC, At, InMeeting, CoreGoes, TypeOK
<1>3. CASE MetA
  <2>1. /\ pc[Core0] = "metA" /\ pc'[Core0] = "B" /\ mainPc' = mainPc
        /\ event' = [event EXCEPT !["ready"] = FALSE]
    BY <1>3, CoreAssumption DEF MetA, At, CoreGoes, OSResetEvent, TypeOK, mainVars
  <2>2. Active
    BY <2>1, CoreAssumption DEF CommandInv, Rest, Parked
  <2>3. RoundInv
    BY <2>2 DEF CommandInv
  <2>4. \A u \in Core : pc[u] \in {"metA", "B", "C"}
    BY <1>2, <2>1, CoreAssumption DEF InStep, WhileAtMetA, Met, AllHit, Hit
  <2>5. \A u \in Core : Ran(u)
    BY <2>1, <2>3, <2>4 DEF RoundInv, Parked
  <2>6. ~event'["ready"] /\ event'["done"] = event["done"]
    BY <2>1 DEF TypeOK, Event
  <2>7. /\ Active' /\ (Submitted' <=> Submitted) /\ ~Finished'
        /\ \A u \in Core : Ran(u)'
    BY <1>1, <2>1, <2>2, <2>5, <2>6 DEF Active, Finished, Submitted, Ran
  <2>8. RoundInv'
    <3>1. \A u \in Core : pc'[u] \in {"B", "C"} \/ u # Core0
      BY <1>2, <2>1
    <3>2. \A u \in Core : pc'[u] \in Runs
      BY <1>2, <2>1, <2>4 DEF Runs
    <3>. QED
      BY <1>1, <2>1, <2>6, <2>7, <3>2, RanIsNotEmpty, CoreAssumption DEF RoundInv, Ran
  <2>. QED
    BY <1>1, <2>1, <2>2, <2>6, <2>7, <2>8 DEF CommandInv, Active
<1>4. CASE MetB
  <2>1. /\ pc[Core0] = "metB" /\ pc'[Core0] = "C"
        /\ event' = [event EXCEPT !["done"] = TRUE]
        /\ mainPc' = IF mainPc = "awaiting" THEN then ELSE mainPc
    BY <1>4, CoreAssumption DEF MetB, At, CoreGoes, SignalMain, TypeOK
  <2>2. Active
    BY <2>1, CoreAssumption DEF CommandInv, Rest, Parked
  <2>3. RoundInv
    BY <2>2 DEF CommandInv
  <2>4. \A u \in Core : pc[u] \in {"metB", "C"} \cup Left
    BY <1>2, <2>1, CoreAssumption DEF InStep, WhileAtMetB, Met, AllHit, Hit
  <2>5. ~event["ready"] /\ \A u \in Core : Ran(u)
    BY <2>1, <2>3 DEF RoundInv
  <2>6. ~event'["ready"] /\ event'["done"]
    BY <2>1, <2>5 DEF TypeOK, Event
  <2>7. \A u \in Core : Ran(u)' /\ Rest(u)'
    <3>1. \A u \in Core : u # Core0 => pc[u] # "metB"
      BY DEF CallsFit, AtMet
    <3>. QED
      BY <1>1, <1>2, <2>1, <2>4, <2>5, <3>1 DEF Ran, Rest, Parked, Left
  <2>8. CASE mainPc = "awaiting"
    <3>1. mainPc' \in {"resetHold", "acquired", "clear"}
      BY <2>1, <2>8 DEF ControlInv, Submitted
    <3>2. ~Submitted' /\ ~Finished' /\ ~Active'
      BY <3>1 DEF Submitted, Finished, Active
    <3>. QED
      BY <2>6, <2>7, <3>1, <3>2 DEF CommandInv
  <2>9. CASE mainPc # "awaiting"
    <3>1. mainPc = "await" /\ mainPc' = "await"
      BY <2>1, <2>2, <2>9 DEF Active
    <3>2. Submitted /\ Finished' /\ ~Active'
      BY <2>6, <3>1 DEF Submitted, Finished, Active
    <3>. QED
      BY <1>1, <2>6, <2>7, <3>1, <3>2 DEF CommandInv
  <2>. QED
    BY <2>8, <2>9
<1>5. CASE MetC
  <2>1. /\ pc[Core0] = "metC" /\ pc'[Core0] \in Left
        /\ UNCHANGED <<event, mainPc>>
    BY <1>5, CoreAssumption DEF MetC, At, CoreGoes, TypeOK, mainVars, Left
  <2>2. Rest(Core0)'
    BY <2>1 DEF Rest, Parked, Left
  <2>3. ASSUME Active PROVE RoundInv'
    <3>1. RoundInv
      BY <2>3 DEF CommandInv
    <3>2. ran[Core0] = <<>>
      BY <2>1, <3>1 DEF RoundInv
    <3>3. \A u \in Core : /\ Ran(u)' <=> Ran(u)
                          /\ u # Core0 => (Rest(u)' <=> Rest(u))
      BY <1>1, <1>2 DEF Ran, Rest
    <3>. QED
      BY <1>1, <1>2, <2>1, <2>2, <3>1, <3>2, <3>3, CoreAssumption DEF RoundInv, Left
  <2>4. ASSUME ~Active, NEW u \in Core
        PROVE  Rest(u)' \/ (mainPc = "join" /\ pc'[u] = "run")
    BY <1>2, <2>2, <2>4 DEF CommandInv, Rest
  <2>. QED
    BY <1>1, <2>1, <2>3, <2>4, CommandFrame
<1>. QED
  BY <1>3, <1>4, <1>5

LEMMA CommandCoreStep ==
    ASSUME IInv, NEW c \in Core, CoreStep(c)
    PROVE  CommandInv'
<1>1. CASE Woken(c)
  <2>1. UNCHANGED <<mainPc, event, command, submission, ran, pc>>
    BY <1>1 DEF Woken, coreVars, mainVars, history
  <2>2. Active <=> Active'
    BY <2>1 DEF Active, Finished
  <2>. QED
    BY <2>1, <2>2 DEF IInv, CommandInv, Submitted, Finished, Ran, Rest, RoundInv
<1>. QED
  BY <1>1, CommandLooks, CommandRuns, CommandArrives, CommandMet DEF CoreStep
\* Where the main thread neither has a command run nor ends the core threads.
Quiet == MainAt \ {"resetDone", "signalReady", "await", "awaiting", "signalEnd", "join"}

LEMMA CommandQuiet ==
    ASSUME CommandInv, ~Active, mainPc # "join", mainPc' \in Quiet,
           event'["ready"] = event["ready"],
           \A c \in Core : pc'[c] = pc[c] \/ Rest(c)'
    PROVE  CommandInv'
<1>1. ~Submitted' /\ ~Finished' /\ ~Active'
  BY DEF Submitted, Finished, Active, Quiet
<1>2. ~event'["ready"] /\ \A c \in Core : Rest(c)'
  BY DEF CommandInv, Rest
<1>. QED
  BY <1>1, <1>2 DEF CommandInv, Quiet

LEMMA CommandSubmits ==
    ASSUME CommandInv, ~Active, mainPc # "join", UNCHANGED <<event, pc>>,
           NEW cmd, NEW cont, Submit(cmd, cont)
    PROVE  CommandInv'
<1>1. /\ mainPc' = "resetDone" /\ command' = submission'
      /\ \A c \in Core : ran'[c] = <<>>
  BY DEF Submit, MainGoes
<1>2. Submitted' /\ ~Finished' /\ ~Active'
  BY <1>1 DEF Submitted, Finished, Active
<1>3. ~event'["ready"] /\ \A c \in Core : Rest(c)'
  BY DEF CommandInv, Rest
<1>. QED
  BY <1>1, <1>2, <1>3 DEF CommandInv

\* The core threads are to end.
LEMMA CommandEnds ==
    ASSUME CommandInv, ~Active, mainPc # "join", UNCHANGED <<event, pc>>,
           mainPc' = "signalEnd", command' = "Initial"
    PROVE  CommandInv'
<1>1. ~Submitted' /\ ~Finished' /\ ~Active'
  BY DEF Submitted, Finished, Active
<1>2. ~event'["ready"] /\ \A c \in Core : Rest(c)'
  BY DEF CommandInv, Rest
<1>. QED
  BY <1>1, <1>2 DEF CommandInv

LEMMA CommandMainCalls ==
    ASSUME IInv, MainCalls
    PROVE  CommandInv'
<1>. /\ TypeOK /\ CommandInv
  BY DEF IInv
<1>1. mainPc = "idle" /\ ~Active
  BY DEF MainCalls, ProcUIInit, ProcUIRegisterBackgroundCallback, ProcUIClearCallbacks,
         ProcUIDrawDoneRelease, ProcUIShutdown, ProcUISetCallbackStackSize,
         ProcUIProcessMessages, Calls, Active
<1>2. CASE ProcUIInit
  <2>1. mainPc' \in Quiet /\ \A c \in Core : Rest(c)'
    BY <1>1, <1>2
       DEF ProcUIInit, RecreateProcUICoreThreads, Quiet, MainAt, Rest, Parked
  <2>2. ~event["ready"]
    BY <1>1 DEF CommandInv
  <2>3. event'["ready"] = FALSE
    BY <1>2 DEF ProcUIInit, Event
  <2>. QED
    BY <1>1, <2>1, <2>2, <2>3, CommandQuiet DEF TypeOK, Event
<1>3. CASE ProcUIRegisterBackgroundCallback \/ ProcUIClearCallbacks \/ ProcUIDrawDoneRelease
  <2>1. UNCHANGED <<event, pc, mainPc>>
    BY <1>3 DEF ProcUIRegisterBackgroundCallback, ProcUIClearCallbacks,
                ProcUIDrawDoneRelease, coreVars, mainVars
  <2>2. mainPc' \in Quiet
    BY <1>1, <2>1 DEF Quiet, MainAt
  <2>. QED
    BY <1>1, <2>1, <2>2, CommandQuiet
<1>4. CASE ProcUISetCallbackStackSize
  BY <1>1, <1>4, CommandEnds DEF ProcUISetCallbackStackSize, MainGoes, coreVars
<1>5. CASE ProcUIShutdown
  BY <1>1, <1>5, CommandSubmits DEF ProcUIShutdown, coreVars
<1>6. ASSUME NEW b \in Modes, ProcUIProcessMessages(b) PROVE CommandInv'
  <2>1. UNCHANGED <<event, pc>>
    BY <1>6 DEF ProcUIProcessMessages, coreVars
  <2>2. CASE drawDone
    BY <1>1, <1>6, <2>1, <2>2, CommandSubmits DEF ProcUIProcessMessages
  <2>3. CASE ~drawDone
    <3>1. mainPc' \in Quiet
      BY <1>6, <2>3 DEF ProcUIProcessMessages, MainGoes, Quiet, MainAt, Receives
    <3>. QED
      BY <1>1, <2>1, <3>1, CommandQuiet
  <2>. QED
    BY <2>2, <2>3
<1>. QED
  BY <1>2, <1>3, <1>4, <1>5, <1>6 DEF MainCalls

LEMMA CommandSysMessage ==
    ASSUME TypeOK, CommandInv, ~Active, mainPc # "join", UNCHANGED <<event, pc>>,
           NEW m, ProcessSysMessage(m)
    PROVE  CommandInv'
<1>1. CASE m = "acquire"
  BY <1>1, CommandSubmits DEF ProcessSysMessage
<1>2. CASE m # "acquire"
  <2>1. mainPc' \in Quiet
    BY <1>2 DEF ProcessSysMessage, MainGoes, Quiet, MainAt
  <2>. QED
    BY <2>1, CommandQuiet
<1>. QED
  BY <1>1, <1>2

\* The main thread hands a command to the core threads and waits for them.
LEMMA CommandMainSubmits ==
    ASSUME IInv, ResetDone \/ SignalReady \/ AwaitDone
    PROVE  CommandInv'
<1>. /\ TypeOK /\ CommandInv /\ ControlInv
  BY DEF IInv
<1>1. CASE ResetDone
  <2>1. /\ mainPc = "resetDone" /\ mainPc' = "signalReady"
        /\ event' = [event EXCEPT !["done"] = FALSE]
        /\ UNCHANGED <<command, pc, submission, ran>>
    BY <1>1 DEF ResetDone, OSResetEvent, MainGoes, coreVars, history
  <2>2. ~event'["done"] /\ event'["ready"] = event["ready"]
    BY <2>1 DEF TypeOK, Event
  <2>3. Submitted /\ ~Active /\ ~Active' /\ ~Finished'
    BY <2>1 DEF Submitted, Active, Finished
  <2>4. \A c \in Core : Rest(c)' <=> Rest(c)
    BY <2>1 DEF Rest
  <2>. QED
    BY <2>1, <2>2, <2>3, <2>4 DEF CommandInv
<1>2. CASE SignalReady
  <2>1. /\ mainPc \in {"signalReady", "signalEnd"}
        /\ mainPc' = IF mainPc = "signalReady" THEN "await" ELSE "join"
        /\ event' = [event EXCEPT !["ready"] = TRUE]
        /\ \A c \in Core : pc'[c] = IF pc[c] = "waiting" THEN "run" ELSE pc[c]
        /\ UNCHANGED <<command, submission, ran>>
    BY <1>2 DEF SignalReady, SignalCores, Released, MainGoes, history, TypeOK
  <2>2. event'["ready"] /\ event'["done"] = event["done"]
    BY <2>1 DEF TypeOK, Event
  <2>3. ~Active /\ mainPc # "join"
    BY <2>1 DEF Active
  <2>4. \A c \in Core : Rest(c)' \/ pc'[c] = "run"
    BY <2>1, <2>3 DEF CommandInv, Rest
  <2>5. CASE mainPc = "signalReady"
    <3>1. Submitted /\ mainPc' = "await" /\ Active' /\ ~Finished'
      BY <2>1, <2>2, <2>5 DEF Submitted, Active, Finished, CommandInv
    <3>2. \A c \in Core : ran'[c] = <<>>
      BY <2>1, <2>5 DEF CommandInv
    <3>3. pc'[Core0] \notin {"A", "metA", "B", "metB"}
      BY <2>4, CoreAssumption DEF Rest, Parked
    <3>4. RoundInv'
      BY <2>2, <2>4, <3>2, <3>3, CoreAssumption DEF RoundInv
    <3>. QED
      BY <2>1, <3>1, <3>4 DEF CommandInv
  <2>6. CASE mainPc = "signalEnd"
    <3>1. mainPc' = "join" /\ ~Submitted' /\ ~Finished' /\ ~Active'
      BY <2>1, <2>6 DEF Submitted, Active, Finished
    <3>. QED
      BY <2>1, <2>4, <2>6, <3>1 DEF CommandInv
  <2>. QED
    BY <2>1, <2>5, <2>6
<1>3. CASE AwaitDone
  <2>1. /\ mainPc = "await" /\ mainPc' = IF event["done"] THEN then ELSE "awaiting"
        /\ UNCHANGED <<event, command, pc, submission, ran>>
    BY <1>3 DEF AwaitDone, MainGoes, coreVars, history
  <2>2. CASE event["done"]
    <3>1. ~Active
      BY <2>1, <2>2 DEF Active, Finished
    <3>2. mainPc' \in {"resetHold", "acquired", "clear"}
      BY <2>1, <2>2 DEF ControlInv, Submitted
    <3>. QED
      BY <2>1, <3>1, <3>2, CommandQuiet DEF Quiet, MainAt
  <2>3. CASE ~event["done"]
    <3>1. Active /\ Active' /\ ~Finished' /\ Submitted /\ mainPc' = "awaiting"
      BY <2>1, <2>3 DEF Active, Finished, Submitted
    <3>2. RoundInv'
      BY <2>1, <3>1 DEF CommandInv, RoundInv, Ran, Rest
    <3>. QED
      BY <2>1, <2>3, <3>1, <3>2 DEF CommandInv
  <2>. QED
    BY <2>2, <2>3
<1>. QED
  BY <1>1, <1>2, <1>3

LEMMA CommandMainStep ==
    ASSUME IInv, MainStep
    PROVE  CommandInv'
<1>. /\ TypeOK /\ CommandInv
  BY DEF IInv
<1>1. CASE ResetHold \/ ResetGot
  <2>1. mainPc' \in Quiet /\ ~Active /\ mainPc # "join" /\ UNCHANGED pc
    BY <1>1 DEF ResetHold, ResetGot, MainGoes, Quiet, MainAt, Active, coreVars
  <2>2. event'["ready"] = event["ready"]
    BY <1>1 DEF ResetHold, ResetGot, OSResetEvent, TypeOK, Event
  <2>. QED
    BY <2>1, <2>2, CommandQuiet
<1>2. CASE Saved \/ Acquired \/ Loop
  <2>1. mainPc' \in Quiet /\ ~Active /\ mainPc # "join"
    BY <1>2 DEF Saved, Acquired, Loop, MainGoes, Quiet, MainAt, Active
  <2>2. UNCHANGED <<event, pc>>
    BY <1>2 DEF Saved, Acquired, Loop, coreVars
  <2>. QED
    BY <2>1, <2>2, CommandQuiet
<1>3. CASE SignalHold
  <2>1. mainPc' \in Quiet /\ ~Active /\ mainPc # "join"
    BY <1>3 DEF SignalHold, MainGoes, Quiet, MainAt, Receives, Active
  <2>2. event'["ready"] = event["ready"]
    BY <1>3 DEF SignalHold, SignalCores, TypeOK, Event
  <2>3. \A c \in Core : pc'[c] = pc[c] \/ Rest(c)'
    BY <1>3 DEF SignalHold, SignalCores, Released, TypeOK, Rest, Parked
  <2>. QED
    BY <2>1, <2>2, <2>3, CommandQuiet
<1>4. CASE JoinBackground
  BY <1>4, CommandSysMessage DEF JoinBackground, Active, coreVars
<1>5. CASE ShutdownClears
  BY <1>5, CommandEnds DEF ShutdownClears, MainGoes, Active, coreVars
<1>6. CASE JoinCores
  <2>1. mainPc' = "idle" /\ ~Submitted' /\ ~Finished' /\ ~Active'
    BY <1>6 DEF JoinCores, MainGoes, Submitted, Finished, Active
  <2>2. ~event'["ready"]
    BY <1>6 DEF JoinCores, OSResetEvent, TypeOK, Event
  <2>3. \A c \in Core : Rest(c)'
    BY <1>6 DEF JoinCores, RecreateProcUICoreThreads, Rest, Parked
  <2>. QED
    BY <2>1, <2>2, <2>3 DEF CommandInv
<1>7. CASE MainUpdates
  <2>1. mainPc' \in Quiet /\ ~Active /\ mainPc # "join"
    BY <1>7 DEF MainUpdates, UpdateSystemMessageQueue, ClearFlag, MainGoes, Quiet, MainAt,
                Receives, Active
  <2>2. UNCHANGED <<event, pc>>
    BY <1>7 DEF MainUpdates, coreVars
  <2>. QED
    BY <2>1, <2>2, CommandQuiet
<1>8. CASE MainTakes
  <2>1. ~Active /\ mainPc = "take" /\ UNCHANGED <<event, pc>>
    BY <1>8 DEF MainTakes, Active, coreVars
  <2>2. CASE queue = <<>>
    <3>1. mainPc' \in Quiet
      BY <1>8, <2>2 DEF MainTakes, MainGoes, Quiet, MainAt
    <3>. QED
      BY <2>1, <3>1, CommandQuiet
  <2>3. CASE queue # <<>>
    BY <1>8, <2>1, <2>3, CommandSysMessage DEF MainTakes
  <2>. QED
    BY <2>2, <2>3
<1>. QED
  BY <1>1, <1>2, <1>3, <1>4, <1>5, <1>6, <1>7, <1>8, CommandMainSubmits DEF MainStep

LEMMA CommandOtherStep ==
    ASSUME IInv, BackgroundStep \/ StartBackgroundForegroundTransition
    PROVE  CommandInv'
<1>. /\ TypeOK /\ CommandInv
  BY DEF IInv
<1>1. UNCHANGED <<command, pc, submission, ran>>
  BY DEF BackgroundStep, BackgroundUpdates, BackgroundTakes, BackgroundSignals,
         StartBackgroundForegroundTransition, coreVars, history
<1>2. event'["ready"] = event["ready"] /\ event'["done"] = event["done"]
  BY DEF BackgroundStep, BackgroundUpdates, BackgroundTakes, BackgroundSignals,
         StartBackgroundForegroundTransition, SignalMain, TypeOK, Event
<1>3. mainPc' = mainPc \/ (mainPc = "waitGot" /\ mainPc' = "resetGot")
  BY DEF BackgroundStep, BackgroundUpdates, BackgroundTakes, BackgroundSignals,
         StartBackgroundForegroundTransition, SignalMain, mainVars
<1>4. CASE mainPc' = mainPc
  <2>1. /\ Submitted' <=> Submitted
        /\ Finished' <=> Finished
        /\ Active' <=> Active
    BY <1>2, <1>4 DEF Submitted, Finished, Active
  <2>2. RoundInv => RoundInv'
    BY <1>1, <1>2 DEF RoundInv, Ran, Rest
  <2>. QED
    BY <1>1, <1>2, <1>4, <2>1, <2>2 DEF CommandInv, Ran, Rest
<1>5. CASE mainPc = "waitGot" /\ mainPc' = "resetGot"
  BY <1>1, <1>2, <1>5, CommandQuiet DEF Active, Quiet, MainAt
<1>. QED
  BY <1>3, <1>4, <1>5
-----------------------------------------------------------------------------
(* What the main thread does, and the background thread.                   *)

\* What a core thread can change of the main thread's state: when the command
\* is done, the main thread goes on if it sleeps.
LEMMA CoreStepMain ==
    ASSUME IInv, NEW c \in Core, CoreStep(c)
    PROVE  /\ UNCHANGED <<then, blocking, initialized, foreground, drawDone, background,
                          submission, callbacks>>
           /\ mainPc' = mainPc \/ (mainPc = "awaiting" /\ mainPc' = then /\ MetB)
           /\ event'["got"] = event["got"]
           /\ (\A u \in Core : pc[u] = "ended") => pc' = pc
<1>1. /\ UNCHANGED <<then, blocking, initialized, foreground, drawDone, background,
                     submission, callbacks>>
      /\ mainPc' = mainPc \/ (mainPc = "awaiting" /\ mainPc' = then /\ MetB)
  BY DEF CoreStep, WaitForCommand, RunCommand, Arrive, Woken, HoldBeforeRelease, MetA, MetB,
         MetC, SignalMain, mainVars, backVars, alarmVars, history
<1>2. event'["got"] = event["got"]
  BY DEF CoreStep, WaitForCommand, RunCommand, Arrive, Woken, HoldBeforeRelease, MetA, MetB,
         MetC, SignalMain, OSResetEvent, IInv, TypeOK, Event
<1>3. (\A u \in Core : pc[u] = "ended") => pc' = pc
  BY CoreAssumption
     DEF CoreStep, WaitForCommand, RunCommand, Arrive, Woken, HoldBeforeRelease, MetA, MetB,
         MetC, At, Meeting, coreVars
<1>. QED
  BY <1>1, <1>2, <1>3

LEMMA MainCoreStep ==
    ASSUME IInv, NEW c \in Core, CoreStep(c)
    PROVE  ControlInv' /\ BackgroundInv'
<1>. /\ TypeOK /\ ControlInv /\ BackgroundInv
  BY DEF IInv
<1>1. CASE mainPc' = mainPc
  BY <1>1, CoreStepMain DEF ControlInv, BackgroundInv, Submitted
<1>2. CASE mainPc = "awaiting" /\ mainPc' = then
  <2>1. mainPc' \in {"resetHold", "acquired", "clear"} /\ ~Submitted'
    BY <1>2 DEF ControlInv, Submitted
  <2>2. Submitted /\ background = "none"
    BY <1>2 DEF BackgroundInv, Submitted
  <2>3. ControlInv'
    BY <1>2, <2>1, <2>2, CoreStepMain DEF ControlInv
  <2>4. BackgroundInv'
    BY <2>1, <2>2, CoreStepMain DEF BackgroundInv
  <2>. QED
    BY <2>3, <2>4
<1>. QED
  BY <1>1, <1>2, CoreStepMain

LEMMA MainMainCalls ==
    ASSUME IInv, MainCalls
    PROVE  ControlInv' /\ BackgroundInv'
<1>. /\ TypeOK /\ ControlInv /\ BackgroundInv
  BY DEF IInv
<1>1. mainPc = "idle" /\ background = "none" /\ background' = "none" /\ ~event["got"]
  BY DEF MainCalls, ProcUIInit, ProcUIRegisterBackgroundCallback, ProcUIClearCallbacks,
         ProcUIDrawDoneRelease, ProcUIShutdown, ProcUISetCallbackStackSize,
         ProcUIProcessMessages, Calls, BackgroundInv, backVars
<1>2. CASE ProcUIInit
  <2>1. mainPc' = "idle" /\ initialized' /\ ~event'["got"] /\ ~Submitted'
    BY <1>1, <1>2 DEF ProcUIInit, Submitted, Event
  <2>. QED
    BY <1>1, <2>1 DEF ControlInv, BackgroundInv
<1>3. CASE ProcUIRegisterBackgroundCallback \/ ProcUIClearCallbacks \/ ProcUIDrawDoneRelease
  <2>1. UNCHANGED <<event, pc, mainPc, initialized, foreground, blocking>> /\ ~Submitted'
    BY <1>1, <1>3 DEF ProcUIRegisterBackgroundCallback, ProcUIClearCallbacks,
                ProcUIDrawDoneRelease, coreVars, mainVars, Submitted
  <2>. QED
    BY <1>1, <2>1 DEF ControlInv, BackgroundInv
<1>4. CASE ProcUISetCallbackStackSize
  <2>1. mainPc' = "signalEnd" /\ initialized' /\ ~Submitted' /\ UNCHANGED event
    BY <1>4 DEF ProcUISetCallbackStackSize, MainGoes, Submitted
  <2>. QED
    BY <1>1, <2>1 DEF ControlInv, BackgroundInv
<1>5. CASE ProcUIShutdown
  <2>1. /\ mainPc' = "resetDone" /\ ~initialized' /\ then' = "clear" /\ submission' = "Exit"
        /\ UNCHANGED event /\ Submitted'
    BY <1>5 DEF ProcUIShutdown, Submit, MainGoes, Submitted
  <2>. QED
    BY <1>1, <2>1 DEF ControlInv, BackgroundInv
<1>6. ASSUME NEW b \in Modes, ProcUIProcessMessages(b)
      PROVE  ControlInv' /\ BackgroundInv'
  <2>1. UNCHANGED event /\ initialized'
    BY <1>6 DEF ProcUIProcessMessages
  <2>2. CASE drawDone
    <3>1. /\ mainPc' = "resetDone" /\ then' = "resetHold" /\ submission' = "Release"
          /\ ~foreground'
      BY <1>6, <2>2 DEF ProcUIProcessMessages, Submit, MainGoes
    <3>2. Submitted'
      BY <3>1 DEF Submitted
    <3>. QED
      BY <1>1, <2>1, <3>1, <3>2 DEF ControlInv, BackgroundInv
  <2>3. CASE ~drawDone
    <3>1. mainPc' \in {"update", "loop"}
      BY <1>6, <2>3 DEF ProcUIProcessMessages, MainGoes
    <3>2. ~Submitted'
      BY <3>1 DEF Submitted
    <3>. QED
      BY <1>1, <2>1, <3>1, <3>2 DEF ControlInv, BackgroundInv
  <2>. QED
    BY <2>2, <2>3
<1>. QED
  BY <1>2, <1>3, <1>4, <1>5, <1>6 DEF MainCalls

\* A message is received by whom there is no background thread beside.
LEMMA MainSysMessage ==
    ASSUME TypeOK, ~event["got"], initialized, UNCHANGED <<event, initialized>>,
           background' = "none", NEW m, ProcessSysMessage(m)
    PROVE  ControlInv' /\ BackgroundInv'
<1>1. CASE m = "acquire"
  <2>1. mainPc' = "resetDone" /\ then' = "acquired" /\ submission' = "Acquire" /\ Submitted'
    BY <1>1 DEF ProcessSysMessage, Submit, MainGoes, Submitted
  <2>. QED
    BY <2>1 DEF ControlInv, BackgroundInv
<1>2. CASE m # "acquire"
  <2>1. mainPc' = "loop" /\ ~Submitted'
    BY <1>2 DEF ProcessSysMessage, MainGoes, Submitted
  <2>. QED
    BY <2>1 DEF ControlInv, BackgroundInv
<1>. QED
  BY <1>1, <1>2

LEMMA MainMainStep ==
    ASSUME IInv, MainStep
    PROVE  ControlInv' /\ BackgroundInv'
<1>. /\ TypeOK /\ ControlInv /\ BackgroundInv
  BY DEF IInv
<1>1. CASE ResetDone \/ SignalReady
  <2>1. UNCHANGED <<then, blocking, initialized, foreground, background, submission>>
    BY <1>1 DEF ResetDone, SignalReady, backVars, history
  <2>2. /\ event'["got"] = event["got"]
        /\ \/ mainPc = "resetDone" /\ mainPc' = "signalReady"
           \/ mainPc = "signalReady" /\ mainPc' = "await"
           \/ mainPc = "signalEnd" /\ mainPc' = "join"
    BY <1>1 DEF ResetDone, SignalReady, OSResetEvent, SignalCores, MainGoes, TypeOK, Event
  <2>. QED
    BY <2>1, <2>2 DEF ControlInv, BackgroundInv, Submitted
<1>2. CASE AwaitDone
  <2>1. UNCHANGED <<event, then, blocking, initialized, foreground, background, submission>>
    BY <1>2 DEF AwaitDone, backVars, history
  <2>2. mainPc = "await" /\ mainPc' \in {then, "awaiting"}
    BY <1>2 DEF AwaitDone, MainGoes
  <2>3. Submitted /\ background = "none"
    BY <2>2 DEF Submitted, BackgroundInv
  <2>4. CASE mainPc' = "awaiting"
    BY <2>1, <2>2, <2>3, <2>4 DEF ControlInv, BackgroundInv, Submitted
  <2>5. CASE mainPc' = then
    <3>1. mainPc' \in {"resetHold", "acquired", "clear"} /\ ~Submitted'
      BY <2>3, <2>5 DEF ControlInv, Submitted
    <3>2. ControlInv'
      BY <2>1, <2>2, <2>3, <2>5, <3>1 DEF ControlInv
    <3>3. BackgroundInv'
      BY <2>1, <2>2, <2>3, <3>1 DEF BackgroundInv
    <3>. QED
      BY <3>2, <3>3
  <2>. QED
    BY <2>2, <2>4, <2>5
<1>3. CASE ResetHold \/ Saved \/ SignalHold
  <2>1. /\ mainPc \in {"resetHold", "save", "signalHold"} /\ ~foreground /\ initialized
        /\ UNCHANGED <<foreground, initialized, blocking>>
    BY <1>3 DEF ResetHold, Saved, SignalHold, ControlInv, Submitted
  <2>2. /\ event'["got"] = event["got"]
        /\ mainPc' \in {"save", "signalHold", "loop", "update"} /\ ~Submitted'
    BY <1>3 DEF ResetHold, Saved, SignalHold, OSResetEvent, SignalCores, MainGoes, TypeOK,
                Event, Submitted
  <2>3. ControlInv'
    BY <2>1, <2>2 DEF ControlInv
  <2>4. CASE ResetHold
    <3>1. background = "none" /\ background' = "none" /\ mainPc' = "save"
      BY <2>4 DEF BackgroundInv, ResetHold, MainGoes, backVars
    <3>. QED
      BY <2>2, <2>3, <3>1 DEF BackgroundInv
  <2>5. CASE Saved
    <3>1. /\ background = "none" /\ mainPc' = "signalHold"
          /\ background' = IF blocking THEN "update" ELSE background
      BY <2>5 DEF BackgroundInv, Saved, MainGoes
    <3>. QED
      BY <2>1, <2>2, <2>3, <3>1 DEF BackgroundInv
  <2>6. CASE SignalHold
    <3>1. /\ mainPc = "signalHold" /\ background' = background
          /\ mainPc' = IF blocking THEN "loop" ELSE "update"
      BY <2>6 DEF SignalHold, MainGoes, backVars
    <3>. QED
      BY <2>1, <2>2, <2>3, <3>1 DEF BackgroundInv
  <2>. QED
    BY <1>3, <2>3, <2>4, <2>5, <2>6
<1>4. CASE Acquired
  <2>1. mainPc = "acquired" /\ mainPc' = "loop" /\ UNCHANGED <<event, initialized, background>>
    BY <1>4 DEF Acquired, MainGoes, backVars
  <2>2. background' = "none" /\ ~event'["got"] /\ initialized' /\ ~Submitted'
    BY <2>1 DEF BackgroundInv, ControlInv, Submitted
  <2>. QED
    BY <2>1, <2>2 DEF ControlInv, BackgroundInv
<1>5. CASE Loop
  <2>1. /\ mainPc = "loop" /\ mainPc' \in {"idle", "resetGot", "waitGot"}
        /\ mainPc' = IF foreground \/ ~blocking THEN "idle"
                     ELSE IF event["got"] THEN "resetGot" ELSE "waitGot"
        /\ UNCHANGED <<event, initialized, foreground, blocking, background>>
    BY <1>5 DEF Loop, MainGoes, backVars
  <2>2. initialized /\ ~Submitted'
    BY <2>1 DEF ControlInv, Submitted
  <2>. QED
    BY <2>1, <2>2 DEF ControlInv, BackgroundInv
<1>6. CASE ResetGot
  <2>1. /\ mainPc = "resetGot" /\ mainPc' = "joinBackground" /\ ~event'["got"]
        /\ UNCHANGED <<initialized, background>>
    BY <1>6 DEF ResetGot, MainGoes, OSResetEvent, TypeOK, Event, backVars
  <2>2. initialized /\ ~Submitted' /\ background' = "ended"
    BY <2>1 DEF ControlInv, BackgroundInv, Submitted
  <2>. QED
    BY <2>1, <2>2 DEF ControlInv, BackgroundInv
<1>7. CASE JoinBackground
  <2>1. /\ mainPc = "joinBackground" /\ background' = "none" /\ ProcessSysMessage(lastMsg)
        /\ UNCHANGED <<event, initialized>>
    BY <1>7 DEF JoinBackground
  <2>2. ~event["got"] /\ initialized
    BY <2>1 DEF BackgroundInv, ControlInv, Submitted
  <2>. QED
    BY <2>1, <2>2, MainSysMessage
<1>8. CASE ShutdownClears
  <2>1. /\ mainPc = "clear" /\ mainPc' = "signalEnd"
        /\ UNCHANGED <<event, initialized, background>>
    BY <1>8 DEF ShutdownClears, MainGoes, backVars
  <2>2. ~Submitted' /\ background = "none" /\ ~event["got"]
    BY <2>1 DEF BackgroundInv, Submitted
  <2>. QED
    BY <2>1, <2>2 DEF ControlInv, BackgroundInv
<1>9. CASE JoinCores
  <2>1. /\ mainPc = "join" /\ mainPc' = "idle"
        /\ UNCHANGED <<initialized, background>>
        /\ \A c \in Core : pc[c] = "ended"
        /\ ~initialized => pc' = pc
    BY <1>9 DEF JoinCores, MainGoes, backVars
  <2>2. ~Submitted' /\ background = "none" /\ ~event'["got"]
    BY <1>9, <2>1 DEF BackgroundInv, Submitted, JoinCores, OSResetEvent, TypeOK, Event
  <2>. QED
    BY <2>1, <2>2 DEF ControlInv, BackgroundInv
<1>10. CASE MainUpdates
  <2>1. /\ mainPc \in Receives /\ mainPc' \in Receives
        /\ UNCHANGED <<event, initialized, background>>
    BY <1>10 DEF MainUpdates, UpdateSystemMessageQueue, ClearFlag, MainGoes, Receives,
                 backVars
  <2>2. background = "none" /\ ~event["got"] /\ initialized /\ ~Submitted'
    BY <2>1 DEF BackgroundInv, ControlInv, Submitted, Receives
  <2>. QED
    BY <2>1, <2>2 DEF ControlInv, BackgroundInv, Receives
<1>11. CASE MainTakes
  <2>1. /\ mainPc = "take" /\ UNCHANGED <<event, initialized, background>>
    BY <1>11 DEF MainTakes, backVars
  <2>2. background = "none" /\ ~event["got"] /\ initialized
    BY <2>1 DEF BackgroundInv, ControlInv, Submitted
  <2>3. CASE queue = <<>>
    <3>1. mainPc' = "loop" /\ ~Submitted'
      BY <1>11, <2>3 DEF MainTakes, MainGoes, Submitted
    <3>. QED
      BY <2>1, <2>2, <3>1 DEF ControlInv, BackgroundInv
  <2>4. CASE queue # <<>>
    BY <1>11, <2>1, <2>2, <2>4, MainSysMessage DEF MainTakes
  <2>. QED
    BY <2>3, <2>4
<1>. QED
  BY <1>1, <1>2, <1>3, <1>4, <1>5, <1>6, <1>7, <1>8, <1>9, <1>10, <1>11 DEF MainStep

LEMMA MainOtherStep ==
    ASSUME IInv, BackgroundStep \/ StartBackgroundForegroundTransition
    PROVE  ControlInv' /\ BackgroundInv'
<1>. /\ TypeOK /\ ControlInv /\ BackgroundInv
  BY DEF IInv
<1>1. UNCHANGED <<pc, then, blocking, initialized, foreground, submission>>
  BY DEF BackgroundStep, BackgroundUpdates, BackgroundTakes, BackgroundSignals,
         StartBackgroundForegroundTransition, coreVars, mainVars, history
<1>2. CASE BackgroundUpdates \/ BackgroundTakes
  <2>1. /\ background \in Receives /\ background' \in Receives \cup {"signal"}
        /\ UNCHANGED <<event, mainPc>>
    BY <1>2 DEF BackgroundUpdates, BackgroundTakes, UpdateSystemMessageQueue, ClearFlag,
                mainVars, Receives
  <2>2. ControlInv'
    BY <1>1, <2>1 DEF ControlInv, Submitted
  <2>3. BackgroundInv'
    BY <1>1, <2>1 DEF BackgroundInv, Receives
  <2>. QED
    BY <2>2, <2>3
<1>3. CASE BackgroundSignals
  <2>1. /\ background = "signal" /\ background' = "ended"
        /\ mainPc' = IF mainPc = "waitGot" THEN "resetGot" ELSE mainPc
    BY <1>3 DEF BackgroundSignals, SignalMain
  <2>2. ControlInv'
    BY <1>1, <2>1 DEF ControlInv, Submitted
  <2>3. BackgroundInv'
    BY <1>1, <2>1 DEF BackgroundInv
  <2>. QED
    BY <2>2, <2>3
<1>4. CASE StartBackgroundForegroundTransition
  <2>1. UNCHANGED <<event, mainPc, background>>
    BY <1>4 DEF StartBackgroundForegroundTransition, mainVars, backVars
  <2>. QED
    BY <1>1, <2>1 DEF ControlInv, BackgroundInv, Submitted
<1>. QED
  BY <1>2, <1>3, <1>4 DEF BackgroundStep
-----------------------------------------------------------------------------
(* The invariant, and what follows from it.                                *)

LEMMA InitIInv == Init => IInv
<1>. SUFFICES ASSUME Init PROVE IInv
  OBVIOUS
<1>1. TypeOK /\ RP!IInv
  BY TypeInit
<1>2. /\ \A c \in Core : pc[c] = "ended" /\ call[c] = R!NoCall
      /\ \A r \in Meeting : coreHit[r] = {}
  BY DEF Init, R!Init
<1>3. CallsFit
  BY <1>2 DEF CallsFit, InMeeting, AtMet
<1>4. InStep
  <2>1. WhileBetween
    BY <1>2 DEF WhileBetween, AllIn, Ahead, Hit, Between, Meeting
  <2>. QED
    BY <1>2, <2>1, CoreAssumption DEF InStep
<1>5. CommandInv
  <2>1. mainPc = "idle" /\ ~Active /\ ~Submitted /\ ~Finished /\ ~event["ready"]
    BY DEF Init, Active, Submitted, Finished, Event
  <2>. QED
    BY <1>2, <2>1 DEF CommandInv, Rest, Parked
<1>6. ControlInv /\ BackgroundInv
  <2>1. mainPc = "idle" /\ ~Submitted /\ ~event["got"] /\ background = "none"
    BY DEF Init, Submitted, Event
  <2>. QED
    BY <1>2, <2>1 DEF ControlInv, BackgroundInv
<1>. QED
  BY <1>1, <1>3, <1>4, <1>5, <1>6 DEF IInv, Barrier

LEMMA NextIInv == IInv /\ [Next]_vars => IInv'
<1>. SUFFICES ASSUME IInv, [Next]_vars PROVE IInv'
  OBVIOUS
<1>. /\ TypeOK /\ RP!IInv /\ CallsFit /\ InStep /\ CommandInv /\ ControlInv /\ BackgroundInv
  BY DEF IInv, Barrier
<1>1. CASE UNCHANGED vars
  <2>1. UNCHANGED <<event, command, pc, mine, mainPc, then, blocking, initialized,
                    foreground, drawDone, background, lastMsg, toBackground,
                    toForeground, queue, callbacks, alarms, submission, ran>>
        /\ UNCHANGED meetVars
    BY <1>1 DEF vars, coreVars, mainVars, backVars, sysVars, alarmVars, history
  <2>2. RP!IInv'
    BY <2>1, RendezvousSteps
  <2>3. TypeOK'
    BY <2>1, <2>2 DEF TypeOK, RP!IInv
  <2>4. Barrier'
    BY <2>1, <2>3, BarrierBetweenRounds DEF Barrier
  <2>5. CommandInv'
    <3>1. /\ Submitted' <=> Submitted
          /\ Finished' <=> Finished
          /\ Active' <=> Active
      BY <2>1 DEF Submitted, Finished, Active
    <3>. QED
      BY <2>1, <3>1 DEF CommandInv, RoundInv, Ran, Rest
  <2>6. ControlInv' /\ BackgroundInv'
    BY <2>1 DEF ControlInv, BackgroundInv, Submitted
  <2>. QED
    BY <2>3, <2>4, <2>5, <2>6 DEF IInv
<1>2. ASSUME NEW c \in Core, CoreStep(c) PROVE IInv'
  BY <1>2, BarrierCoreStep, CommandCoreStep, MainCoreStep DEF IInv
<1>3. CASE MainCalls
  BY <1>3, BarrierMainCalls, CommandMainCalls, MainMainCalls DEF IInv
<1>4. CASE MainStep
  BY <1>4, BarrierMainStep, CommandMainStep, MainMainStep DEF IInv
<1>5. CASE BackgroundStep \/ StartBackgroundForegroundTransition
  BY <1>5, BarrierOtherStep, CommandOtherStep, MainOtherStep DEF IInv
<1>. QED
  BY <1>1, <1>2, <1>3, <1>4, <1>5 DEF Next

LEMMA SpecIInv == Spec => []IInv
BY InitIInv, NextIInv, PTL DEF Spec

\* The variables of proc_ui have their types.
THEOREM TypeCorrect == Spec => []TypeOK
<1>1. IInv => TypeOK
  BY DEF IInv
<1>. QED
  BY <1>1, SpecIInv, PTL

\* No core thread sleeps in a rendezvous that is met, though core 0 makes the
\* three of them ready again while the others are still on their way out.
THEOREM MetThreadsAreAwake == Spec => []NobodySleepsWhenMet
<1>1. IInv => NobodySleepsWhenMet
  BY DEF IInv, Barrier, NobodySleepsWhenMet, RP!IInv, R!NobodySleepsWhenMet,
         RP!NobodySleepsWhenMet, R!Met, RP!Met, R!NoCall, RP!NoCall
<1>. QED
  BY <1>1, SpecIInv, PTL

\* The event of the rendezvous is never signaled while a core thread sleeps.
THEOREM SignalsFindNoSleepers == Spec => []NobodySleepsOnASignal
<1>1. IInv => NobodySleepsOnASignal
  BY DEF IInv, Barrier, NobodySleepsOnASignal, RP!IInv, R!NobodySleepsOnASignal,
         RP!NobodySleepsOnASignal
<1>. QED
  BY <1>1, SpecIInv, PTL

\* The one background thread has ended and was joined when the next one is
\* started, and whenever its stack may be freed; who joins it finds it.
THEOREM BackgroundThreadIsAlone == Spec => []OneBackgroundThread
<1>1. IInv => OneBackgroundThread
  BY DEF IInv, BackgroundInv, OneBackgroundThread
<1>. QED
  BY <1>1, SpecIInv, PTL

\* A rendezvous is made ready for its next use only when nobody is in it.
THEOREM ReadyRendezvousAreEmpty == Spec => InitMeetsNobody
<1>1. ASSUME IInv, [Next]_vars,
             NEW r \in Meeting, coreHit[r] # {}, coreHit'[r] = {}
      PROVE  R!Empty(r)
  <2>. /\ TypeOK /\ RP!IInv /\ CallsFit /\ InStep /\ ControlInv
    BY <1>1 DEF IInv, Barrier
  <2>1. ASSUME NEW c \in Core, Arrive(c) PROVE FALSE
    <3>1. \A s \in Meeting : coreHit[s] \subseteq coreHit'[s]
      BY <2>1, ArriveFacts DEF TypeOK
    <3>. QED
      BY <1>1, <3>1
  <2>2. CASE MetA
    <3>1. coreHit' = [coreHit EXCEPT !["C"] = {}]
      BY <2>2 DEF MetA, R!OSInitRendezvous
    <3>2. r = "C"
      BY <1>1, <3>1 DEF TypeOK, RP!TypeOK
    <3>. QED
      BY <2>2, <3>2, MetAInStep
  <2>3. CASE MetB
    <3>1. coreHit' = [coreHit EXCEPT !["A"] = {}]
      BY <2>3 DEF MetB, R!OSInitRendezvous
    <3>2. r = "A"
      BY <1>1, <3>1 DEF TypeOK, RP!TypeOK
    <3>. QED
      BY <2>3, <3>2, MetBInStep
  <2>4. CASE MetC
    <3>1. coreHit' = [coreHit EXCEPT !["B"] = {}]
      BY <2>4 DEF MetC, R!OSInitRendezvous
    <3>2. r = "B"
      BY <1>1, <3>1 DEF TypeOK, RP!TypeOK
    <3>. QED
      BY <2>4, <3>2, MetCInStep
  <2>5. CASE ProcUIInit
    <3>1. \A c \in Core : pc[c] = "ended"
      BY <2>5 DEF ControlInv, ProcUIInit, Calls
    <3>2. \A c \in Core : ~InMeeting(c)
      BY <3>1 DEF CallsFit, LastMeeting
    <3>. QED
      BY <3>2 DEF R!Empty, InMeeting
  <2>6. CASE UNCHANGED coreHit
    BY <1>1, <2>6
  <2>7. \/ \E c \in Core : Arrive(c)
        \/ MetA \/ MetB \/ MetC \/ ProcUIInit
        \/ UNCHANGED coreHit
    <3>1. CASE UNCHANGED vars
      BY <3>1 DEF vars, meetVars
    <3>2. ASSUME NEW c \in Core, CoreStep(c), ~Arrive(c), ~MetA, ~MetB, ~MetC
          PROVE  UNCHANGED coreHit
      BY <3>2 DEF CoreStep, WaitForCommand, RunCommand, HoldBeforeRelease, Woken, R!Woken,
                  meetVars
    <3>3. MainCalls /\ ~ProcUIInit => UNCHANGED coreHit
      BY DEF MainCalls, ProcUIRegisterBackgroundCallback, ProcUIClearCallbacks,
             ProcUIDrawDoneRelease, ProcUIShutdown, ProcUISetCallbackStackSize,
             ProcUIProcessMessages, meetVars
    <3>4. MainStep => UNCHANGED coreHit
      BY DEF MainStep, ResetDone, SignalReady, AwaitDone, ResetHold, Saved, SignalHold,
             Acquired, Loop, ResetGot, JoinBackground, ShutdownClears, JoinCores,
             MainUpdates, MainTakes, meetVars
    <3>5. BackgroundStep \/ StartBackgroundForegroundTransition => UNCHANGED coreHit
      BY DEF BackgroundStep, BackgroundUpdates, BackgroundTakes, BackgroundSignals,
             StartBackgroundForegroundTransition, meetVars
    <3>. QED
      BY <1>1, <3>1, <3>2, <3>3, <3>4, <3>5 DEF Next
  <2>. QED
    BY <2>1, <2>2, <2>3, <2>4, <2>5, <2>6, <2>7
<1>2. IInv /\ [Next]_vars =>
          [\A r \in Meeting :
               coreHit[r] # {} /\ coreHit'[r] = {} => R!Empty(r)]_vars
  BY <1>1
<1>. QED
  BY <1>2, SpecIInv, PTL DEF Spec, InitMeetsNobody
-----------------------------------------------------------------------------
(* The alarms of the background callbacks.                                 *)

\* A step with which core threads have nothing to do.
LEMMA AlarmSubmitsAcquire ==
    ASSUME AlarmInv, UNCHANGED <<alarms, foreground, initialized>>, NEW m, ProcessSysMessage(m),
           history' = history \/ ran' = [c \in Core |-> <<>>], ~Submitted
    PROVE  AlarmInv'
<1>1. CASE m = "acquire"
  <2>1. mainPc' = "resetDone" /\ ran'[Core2] = <<>>
    BY <1>1, CoreAssumption DEF ProcessSysMessage, Submit, MainGoes
  <2>. QED
    BY <2>1 DEF AlarmInv
<1>2. CASE m # "acquire"
  <2>1. mainPc' = "loop" /\ ~Submitted'
    BY <1>2 DEF ProcessSysMessage, MainGoes, Submitted
  <2>. QED
    BY <2>1 DEF AlarmInv
<1>. QED
  BY <1>1, <1>2

\* Core 2 starts them for a release, when the foreground is already given up,
\* and cancels them before an acquire is done.
LEMMA AlarmCoreStep ==
    ASSUME IInv, AlarmInv, NEW c \in Core, CoreStep(c)
    PROVE  AlarmInv'
<1>. /\ TypeOK /\ CallsFit /\ CommandInv /\ ControlInv
  BY DEF IInv, Barrier
<1>. UNCHANGED <<foreground, initialized, submission>>
  BY CoreStepMain
<1>1. CASE RunCommand(c)
  <2>1. /\ pc[c] = "run" /\ mainPc' = mainPc
        /\ \A u \in Core : u # c => ran'[u] = ran[u]
        /\ alarms' = IF c = Core2 /\ command = "Release" THEN StartBackgroundAlarms
                     ELSE IF c = Core2 /\ command = "Acquire" THEN CancelBackgroundAlarms
                     ELSE alarms
    BY <1>1 DEF RunCommand, At, TypeOK, mainVars
  <2>2. Active \/ mainPc = "join"
    BY <2>1 DEF CommandInv, Rest, Parked
  <2>3. Submitted' <=> Submitted
    BY <2>1 DEF Submitted
  <2>4. CASE c = Core2 /\ command = "Release"
    <3>1. mainPc \in {"await", "awaiting"} /\ Submitted /\ submission = "Release"
      BY <2>2, <2>4 DEF CommandInv, Active, Submitted
    <3>2. ~foreground /\ initialized
      BY <3>1 DEF ControlInv
    <3>. QED
      BY <2>1, <2>3, <2>4, <3>1, <3>2 DEF AlarmInv, StartBackgroundAlarms
  <2>5. CASE c = Core2 /\ command = "Acquire"
    <3>1. alarms' = {}
      BY <2>1, <2>5 DEF AlarmInv, CancelBackgroundAlarms, TypeOK
    <3>. QED
      BY <2>1, <3>1 DEF AlarmInv
  <2>6. CASE c = Core2 /\ command \notin {"Release", "Acquire"}
    <3>1. Submitted => submission # "Acquire"
      BY <2>6 DEF CommandInv
    <3>. QED
      BY <2>1, <2>3, <2>6, <3>1 DEF AlarmInv
  <2>7. CASE c # Core2
    BY <2>1, <2>3, <2>7, CoreAssumption DEF AlarmInv
  <2>. QED
    BY <2>4, <2>5, <2>6, <2>7
<1>2. CASE MetB
  <2>1. /\ UNCHANGED <<alarms, ran>> /\ pc[Core0] = "metB"
        /\ mainPc' = IF mainPc = "awaiting" THEN then ELSE mainPc
    BY <1>2 DEF MetB, At, SignalMain, alarmVars, history
  <2>2. CASE mainPc # "awaiting"
    BY <2>1, <2>2 DEF AlarmInv, Submitted
  <2>3. CASE mainPc = "awaiting"
    <3>1. Submitted /\ Active /\ mainPc' \in {"resetHold", "acquired", "clear"} /\ ~Submitted'
      BY <2>1, <2>3 DEF Submitted, Active, Finished, ControlInv
    <3>2. ran[Core2] # <<>>
      BY <2>1, <3>1, RanIsNotEmpty, CoreAssumption DEF CommandInv, RoundInv
    <3>3. mainPc' = "acquired" => alarms = {}
      BY <2>1, <2>3, <3>1, <3>2 DEF AlarmInv, ControlInv
    <3>. QED
      BY <2>1, <3>1, <3>3 DEF AlarmInv
  <2>. QED
    BY <2>2, <2>3
<1>3. CASE ~RunCommand(c) /\ ~MetB
  <2>1. UNCHANGED <<alarms, ran, mainPc>>
    BY <1>3 DEF CoreStep, WaitForCommand, Arrive, Woken, HoldBeforeRelease, MetA, MetC,
                mainVars, alarmVars, history
  <2>. QED
    BY <2>1 DEF AlarmInv, Submitted
<1>. QED
  BY <1>1, <1>2, <1>3

LEMMA AlarmMainCalls ==
    ASSUME ~ResizeInBackground, IInv, AlarmInv, MainCalls
    PROVE  AlarmInv'
<1>. TypeOK
  BY DEF IInv
<1>. mainPc = "idle"
  BY DEF MainCalls, ProcUIInit, ProcUIRegisterBackgroundCallback, ProcUIClearCallbacks,
         ProcUIDrawDoneRelease, ProcUIShutdown, ProcUISetCallbackStackSize,
         ProcUIProcessMessages, Calls
<1>1. CASE ProcUIInit
  <2>1. alarms' = {} /\ mainPc' = "idle"
    BY <1>1 DEF ProcUIInit, DropCallbacks, AlarmInv
  <2>. QED
    BY <2>1 DEF AlarmInv
<1>2. CASE \/ ProcUIRegisterBackgroundCallback \/ ProcUIClearCallbacks
           \/ ProcUIDrawDoneRelease
  <2>1. /\ alarms' \subseteq alarms /\ mainPc' = "idle" /\ ~Submitted'
        /\ UNCHANGED <<foreground, initialized>>
    BY <1>2
       DEF ProcUIRegisterBackgroundCallback, ProcUIClearCallbacks, ProcUIDrawDoneRelease,
           Clear, DropCallbacks, CancelBackgroundAlarms, mainVars, alarmVars, AlarmInv,
           Submitted
  <2>. QED
    BY <2>1 DEF AlarmInv
<1>3. CASE ProcUIShutdown
  <2>1. /\ alarms' = IF foreground THEN alarms ELSE CancelBackgroundAlarms
        /\ mainPc' = "resetDone" /\ ran'[Core2] = <<>>
    BY <1>3, CoreAssumption DEF ProcUIShutdown, Submit, MainGoes
  <2>2. alarms' = {}
    BY <2>1 DEF AlarmInv, CancelBackgroundAlarms, TypeOK
  <2>. QED
    BY <2>1, <2>2 DEF AlarmInv
<1>4. CASE ProcUISetCallbackStackSize
  <2>1. /\ mainPc' = "signalEnd" /\ foreground /\ ~Submitted'
        /\ UNCHANGED <<alarms, foreground, initialized>>
    BY <1>4 DEF ProcUISetCallbackStackSize, MainGoes, Submitted, alarmVars
  <2>. QED
    BY <2>1 DEF AlarmInv
<1>5. ASSUME NEW b \in Modes, ProcUIProcessMessages(b) PROVE AlarmInv'
  <2>1. UNCHANGED <<alarms, initialized>> /\ initialized
    BY <1>5 DEF ProcUIProcessMessages, alarmVars
  <2>2. CASE drawDone
    <3>1. mainPc' = "resetDone" /\ ran'[Core2] = <<>> /\ ~foreground'
      BY <1>5, <2>2, CoreAssumption DEF ProcUIProcessMessages, Submit, MainGoes
    <3>. QED
      BY <2>1, <3>1 DEF AlarmInv
  <2>3. CASE ~drawDone
    <3>1. mainPc' \in {"update", "loop"} /\ UNCHANGED foreground /\ ~Submitted'
      BY <1>5, <2>3 DEF ProcUIProcessMessages, MainGoes, Submitted
    <3>. QED
      BY <2>1, <3>1 DEF AlarmInv
  <2>. QED
    BY <2>2, <2>3
<1>. QED
  BY <1>1, <1>2, <1>3, <1>4, <1>5 DEF MainCalls

LEMMA AlarmMainStep ==
    ASSUME IInv, AlarmInv, MainStep
    PROVE  AlarmInv'
<1>. /\ TypeOK /\ CommandInv /\ ControlInv
  BY DEF IInv
<1>1. CASE ResetDone \/ SignalReady
  <2>1. /\ UNCHANGED <<alarms, foreground, initialized, submission, ran>>
        /\ \/ mainPc = "resetDone" /\ mainPc' = "signalReady"
           \/ mainPc = "signalReady" /\ mainPc' = "await"
           \/ mainPc = "signalEnd" /\ mainPc' = "join"
    BY <1>1 DEF ResetDone, SignalReady, MainGoes, alarmVars, history
  <2>. QED
    BY <2>1 DEF AlarmInv, Submitted
<1>2. CASE AwaitDone
  <2>1. /\ UNCHANGED <<alarms, foreground, initialized, submission, ran>>
        /\ mainPc = "await" /\ mainPc' = IF event["done"] THEN then ELSE "awaiting"
    BY <1>2 DEF AwaitDone, MainGoes, alarmVars, history
  <2>2. CASE event["done"]
    <3>1. Submitted /\ mainPc' \in {"resetHold", "acquired", "clear"} /\ ~Submitted'
      BY <2>1, <2>2 DEF Submitted, ControlInv
    <3>2. ran[Core2] # <<>>
      BY <2>1, <2>2, RanIsNotEmpty, CoreAssumption DEF CommandInv, Finished
    <3>3. mainPc' = "acquired" => alarms = {}
      BY <2>1, <2>2, <3>1, <3>2 DEF AlarmInv, ControlInv
    <3>. QED
      BY <2>1, <3>1, <3>3 DEF AlarmInv
  <2>3. CASE ~event["done"]
    BY <2>1, <2>3 DEF AlarmInv, Submitted
  <2>. QED
    BY <2>2, <2>3
<1>3. CASE Acquired
  BY <1>3 DEF AlarmInv, Acquired, MainGoes, alarmVars, Submitted
<1>4. CASE ResetHold \/ Saved \/ SignalHold \/ Loop \/ ResetGot \/ MainUpdates
  <2>1. /\ UNCHANGED <<alarms, foreground, initialized>>
        /\ mainPc' \in Receives \cup {"save", "signalHold", "update", "loop", "idle",
                                     "resetGot", "waitGot", "joinBackground"}
    BY <1>4 DEF ResetHold, Saved, SignalHold, Loop, ResetGot, MainUpdates, MainGoes,
                UpdateSystemMessageQueue, ClearFlag, Receives, alarmVars
  <2>2. ~Submitted' /\ mainPc' \notin {"acquired", "signalEnd", "join"}
    BY <2>1 DEF Submitted, Receives
  <2>. QED
    BY <2>1, <2>2 DEF AlarmInv
<1>5. CASE JoinBackground
  <2>1. /\ ProcessSysMessage(lastMsg) /\ ~Submitted
        /\ UNCHANGED <<alarms, foreground, initialized>>
    BY <1>5 DEF JoinBackground, Submitted, alarmVars
  <2>2. history' = history \/ ran' = [c \in Core |-> <<>>]
    BY <2>1 DEF ProcessSysMessage, Submit
  <2>. QED
    BY <2>1, <2>2, AlarmSubmitsAcquire
<1>6. CASE ShutdownClears
  <2>1. /\ mainPc = "clear" /\ mainPc' = "signalEnd" /\ UNCHANGED <<foreground, initialized>>
        /\ alarms' = IF foreground THEN DropCallbacks ELSE CancelBackgroundAlarms
    BY <1>6 DEF ShutdownClears, Clear, MainGoes
  <2>2. ~initialized /\ alarms = {}
    BY <2>1 DEF ControlInv, AlarmInv
  <2>3. alarms' = {} /\ ~Submitted'
    BY <2>1, <2>2 DEF DropCallbacks, CancelBackgroundAlarms, Submitted
  <2>. QED
    BY <2>1, <2>2, <2>3 DEF AlarmInv
<1>7. CASE JoinCores
  <2>1. mainPc = "join" /\ mainPc' = "idle" /\ alarms' = DropCallbacks
    BY <1>7 DEF JoinCores, MainGoes
  <2>2. alarms' = {} /\ ~Submitted'
    BY <2>1 DEF AlarmInv, DropCallbacks, Submitted
  <2>. QED
    BY <2>1, <2>2 DEF AlarmInv
<1>8. CASE MainTakes
  <2>1. ~Submitted /\ UNCHANGED <<alarms, foreground, initialized>>
    BY <1>8 DEF MainTakes, Submitted, alarmVars
  <2>2. CASE queue = <<>>
    <3>1. mainPc' = "loop" /\ ~Submitted'
      BY <1>8, <2>2 DEF MainTakes, MainGoes, Submitted
    <3>. QED
      BY <2>1, <3>1 DEF AlarmInv
  <2>3. CASE queue # <<>>
    <3>1. ProcessSysMessage(Head(queue))
      BY <1>8, <2>3 DEF MainTakes
    <3>2. history' = history \/ ran' = [c \in Core |-> <<>>]
      BY <3>1 DEF ProcessSysMessage, Submit
    <3>. QED
      BY <2>1, <3>1, <3>2, AlarmSubmitsAcquire
  <2>. QED
    BY <2>2, <2>3
<1>. QED
  BY <1>1, <1>2, <1>3, <1>4, <1>5, <1>6, <1>7, <1>8 DEF MainStep

\* If the stacks are never resized in the background, no alarm of a background
\* callback goes on in the foreground.
THEOREM AlarmsStayInTheBackground ==
    ASSUME ~ResizeInBackground
    PROVE  Spec => []AlarmsOnlyInBackground
<1>1. Init => AlarmInv
  BY DEF Init, AlarmInv, Submitted
<1>2. IInv /\ AlarmInv /\ [Next]_vars => AlarmInv'
  <2>. SUFFICES ASSUME IInv, AlarmInv, [Next]_vars PROVE AlarmInv'
    OBVIOUS
  <2>1. CASE UNCHANGED vars
    BY <2>1 DEF AlarmInv, Submitted, vars, mainVars, alarmVars, history
  <2>2. ASSUME NEW c \in Core, CoreStep(c) PROVE AlarmInv'
    BY <2>2, AlarmCoreStep
  <2>3. CASE BackgroundStep \/ StartBackgroundForegroundTransition
    <3>1. /\ UNCHANGED <<alarms, foreground, initialized, submission, ran>>
          /\ mainPc' = mainPc \/ (mainPc = "waitGot" /\ mainPc' = "resetGot")
      BY <2>3 DEF BackgroundStep, BackgroundUpdates, BackgroundTakes, BackgroundSignals,
                  StartBackgroundForegroundTransition, SignalMain, mainVars, alarmVars,
                  history
    <3>. QED
      BY <3>1 DEF AlarmInv, Submitted
  <2>. QED
    BY <2>1, <2>2, <2>3, AlarmMainCalls, AlarmMainStep DEF Next
<1>3. AlarmInv => AlarmsOnlyInBackground
  BY DEF AlarmInv, AlarmsOnlyInBackground
<1>. QED
  BY <1>1, <1>2, <1>3, SpecIInv, PTL DEF Spec
-----------------------------------------------------------------------------
(* The core threads implement a broadcast.                                 *)

broadcastVars == <<submission, ran, Submitted>>

LEMMA SubmitBroadcasts ==
    ASSUME ~Submitted, NEW cmd \in Command, NEW cont, Submit(cmd, cont)
    PROVE  Commands!Next
<1>1. /\ Submitted' = TRUE /\ submission' = cmd /\ ran' = [c \in Core |-> <<>>]
  BY DEF Submit, MainGoes, Submitted
<1>. QED
  BY <1>1 DEF Commands!Next, Commands!Submit

LEMMA SysMessageBroadcasts ==
    ASSUME ~Submitted, NEW m, ProcessSysMessage(m)
    PROVE  Commands!Next \/ UNCHANGED broadcastVars
<1>1. CASE m = "acquire"
  BY <1>1, SubmitBroadcasts DEF ProcessSysMessage, Command
<1>2. CASE m # "acquire"
  BY <1>2 DEF ProcessSysMessage, MainGoes, history, Submitted, broadcastVars
<1>. QED
  BY <1>1, <1>2

LEMMA CoreStepBroadcasts ==
    ASSUME IInv, NEW c \in Core, CoreStep(c)
    PROVE  Commands!Next \/ UNCHANGED broadcastVars
<1>. /\ TypeOK /\ CommandInv /\ ControlInv
  BY DEF IInv
<1>1. UNCHANGED submission
  BY CoreStepMain
<1>2. CASE RunCommand(c)
  <2>1. /\ pc[c] = "run" /\ Submitted' = Submitted
        /\ ran' = [ran EXCEPT ![c] = IF command = "Initial" THEN @ ELSE Append(@, command)]
    BY <1>2 DEF RunCommand, At, mainVars, Submitted
  <2>2. CASE command = "Initial"
    <3>1. ran' = ran
      BY <2>1, <2>2 DEF TypeOK
    <3>. QED
      BY <1>1, <2>1, <3>1 DEF broadcastVars
  <2>3. CASE command # "Initial"
    <3>1. Active
      BY <2>1, <2>3 DEF CommandInv, Rest, Parked
    <3>2. Submitted /\ command = submission
      BY <3>1 DEF Active, Submitted, CommandInv
    <3>3. ran[c] = <<>>
      BY <2>1, <3>1 DEF CommandInv, RoundInv, Runs
    <3>4. ran' = [ran EXCEPT ![c] = <<submission>>]
      BY <2>1, <2>3, <3>2, <3>3 DEF TypeOK
    <3>. QED
      BY <1>1, <2>1, <3>2, <3>3, <3>4 DEF Commands!Next, Commands!Run
  <2>. QED
    BY <2>2, <2>3
<1>3. CASE MetB
  <2>1. /\ UNCHANGED ran /\ pc[Core0] = "metB"
        /\ mainPc' = IF mainPc = "awaiting" THEN then ELSE mainPc
    BY <1>3 DEF MetB, At, SignalMain, history
  <2>2. CASE mainPc # "awaiting"
    BY <1>1, <2>1, <2>2 DEF Submitted, broadcastVars
  <2>3. CASE mainPc = "awaiting"
    <3>1. Submitted /\ Active
      BY <2>3 DEF Submitted, Active, Finished
    <3>2. \A u \in Core : ran[u] = <<submission>>
      BY <2>1, <3>1 DEF CommandInv, RoundInv, Ran
    <3>3. Submitted' = FALSE
      BY <2>1, <2>3, <3>1 DEF ControlInv, Submitted
    <3>. QED
      BY <1>1, <2>1, <3>1, <3>2, <3>3 DEF Commands!Next, Commands!Done
  <2>. QED
    BY <2>2, <2>3
<1>4. CASE ~RunCommand(c) /\ ~MetB
  <2>1. UNCHANGED <<ran, mainPc>>
    BY <1>4 DEF CoreStep, WaitForCommand, Arrive, Woken, HoldBeforeRelease, MetA, MetC,
                mainVars, history
  <2>. QED
    BY <1>1, <2>1 DEF Submitted, broadcastVars
<1>. QED
  BY <1>2, <1>3, <1>4

LEMMA MainBroadcasts ==
    ASSUME IInv, MainCalls \/ MainStep
    PROVE  Commands!Next \/ UNCHANGED broadcastVars
<1>. /\ TypeOK /\ CommandInv /\ ControlInv
  BY DEF IInv
<1>1. CASE ProcUIShutdown
  <2>1. ~Submitted /\ Submit("Exit", "clear")
    BY <1>1 DEF ProcUIShutdown, Calls, Submitted
  <2>. QED
    BY <2>1, SubmitBroadcasts DEF Command
<1>2. ASSUME NEW b \in Modes, ProcUIProcessMessages(b)
      PROVE  Commands!Next \/ UNCHANGED broadcastVars
  <2>1. ~Submitted
    BY <1>2 DEF ProcUIProcessMessages, Calls, Submitted
  <2>2. CASE drawDone
    <3>1. Submit("Release", "resetHold")
      BY <1>2, <2>2 DEF ProcUIProcessMessages
    <3>. QED
      BY <2>1, <3>1, SubmitBroadcasts DEF Command
  <2>3. CASE ~drawDone
    BY <1>2, <2>1, <2>3
       DEF ProcUIProcessMessages, MainGoes, history, Submitted, broadcastVars
  <2>. QED
    BY <2>2, <2>3
<1>3. CASE JoinBackground
  <2>1. ~Submitted /\ ProcessSysMessage(lastMsg)
    BY <1>3 DEF JoinBackground, Submitted
  <2>. QED
    BY <2>1, SysMessageBroadcasts
<1>4. CASE MainTakes
  <2>1. ~Submitted
    BY <1>4 DEF MainTakes, Submitted
  <2>2. CASE queue = <<>>
    BY <1>4, <2>1, <2>2 DEF MainTakes, MainGoes, history, Submitted, broadcastVars
  <2>3. CASE queue # <<>>
    BY <1>4, <2>1, <2>3, SysMessageBroadcasts DEF MainTakes
  <2>. QED
    BY <2>2, <2>3
<1>5. CASE AwaitDone
  <2>1. /\ UNCHANGED <<submission, ran>> /\ Submitted /\ mainPc = "await"
        /\ mainPc' = IF event["done"] THEN then ELSE "awaiting"
    BY <1>5 DEF AwaitDone, MainGoes, history, Submitted
  <2>2. CASE event["done"]
    <3>1. \A c \in Core : ran[c] = <<submission>>
      BY <2>1, <2>2 DEF CommandInv, Finished, Ran
    <3>2. Submitted' = FALSE
      BY <2>1, <2>2 DEF ControlInv, Submitted
    <3>. QED
      BY <2>1, <3>1, <3>2 DEF Commands!Next, Commands!Done
  <2>3. CASE ~event["done"]
    BY <2>1, <2>3 DEF Submitted, broadcastVars
  <2>. QED
    BY <2>2, <2>3
<1>6. CASE ResetDone \/ SignalReady
  BY <1>6 DEF ResetDone, SignalReady, MainGoes, history, Submitted, broadcastVars
<1>7. CASE \/ ResetHold \/ Saved \/ SignalHold \/ Acquired \/ Loop \/ ResetGot
           \/ ShutdownClears \/ JoinCores \/ MainUpdates
  <2>1. ~Submitted /\ UNCHANGED history
    BY <1>7 DEF ResetHold, Saved, SignalHold, Acquired, Loop, ResetGot, ShutdownClears,
                JoinCores, MainUpdates, ClearFlag, Submitted
  <2>2. ~Submitted'
    BY <1>7 DEF ResetHold, Saved, SignalHold, Acquired, Loop, ResetGot, ShutdownClears,
                JoinCores, MainUpdates, UpdateSystemMessageQueue, MainGoes, Submitted
  <2>. QED
    BY <2>1, <2>2 DEF history, broadcastVars, Submitted
<1>8. CASE \/ ProcUIInit \/ ProcUIRegisterBackgroundCallback \/ ProcUIClearCallbacks
           \/ ProcUIDrawDoneRelease \/ ProcUISetCallbackStackSize
  <2>1. ~Submitted /\ UNCHANGED history /\ ~Submitted'
    BY <1>8 DEF ProcUIInit, ProcUIRegisterBackgroundCallback, ProcUIClearCallbacks,
                ProcUIDrawDoneRelease, ProcUISetCallbackStackSize, Calls, MainGoes,
                mainVars, Submitted
  <2>. QED
    BY <2>1 DEF history, broadcastVars, Submitted
<1>. QED
  BY <1>1, <1>2, <1>3, <1>4, <1>5, <1>6, <1>7, <1>8 DEF MainCalls, MainStep

\* Every core runs every command exactly once, in the order they are submitted,
\* and whoever submits one goes on only when all cores have run it.
THEOREM CommandsAreBroadcast == Spec => CommandsSpec
<1>1. Init => Commands!Init
  BY DEF Init, Commands!Init, Submitted, Command
<1>2. IInv /\ [Next]_vars => [Commands!Next]_broadcastVars
  <2>. SUFFICES ASSUME IInv, [Next]_vars
                PROVE  Commands!Next \/ UNCHANGED broadcastVars
    BY DEF broadcastVars
  <2>1. CASE UNCHANGED vars
    BY <2>1 DEF vars, mainVars, history, Submitted, broadcastVars
  <2>2. CASE BackgroundStep \/ StartBackgroundForegroundTransition
    <3>1. /\ UNCHANGED <<submission, ran>>
          /\ mainPc' = mainPc \/ (mainPc = "waitGot" /\ mainPc' = "resetGot")
      BY <2>2 DEF BackgroundStep, BackgroundUpdates, BackgroundTakes, BackgroundSignals,
                  StartBackgroundForegroundTransition, SignalMain, mainVars, history
    <3>. QED
      BY <3>1 DEF Submitted, broadcastVars
  <2>. QED
    BY <2>1, <2>2, CoreStepBroadcasts, MainBroadcasts DEF Next
<1>. QED
  BY <1>1, <1>2, SpecIInv, PTL DEF Spec, CommandsSpec, Commands!Spec, broadcastVars
==============================================================================
