--------------------------- MODULE TwinSessionProofs ---------------------------
(***************************************************************************)
(* Proofs about the IDE's live twin, for a user who waits for the answer   *)
(* to a Start, and for any number of processes, commands and messages.     *)
(* The invariant says in which of three stages a session is, and what is   *)
(* on its way between webview and panel in each of them.                   *)
(***************************************************************************)
EXTENDS TwinSession, SequenceTheorems, FiniteSetTheorems, TLAPS

Request == [type |-> "startTwin"]
Status == [type |-> "twinStatus"]
Endings == {Failure, Exited}

(* The processes of this panel whose end it has not heard of. *)
Live == {r \in mine : proc[r] # "gone"}

NoRequest == \A i \in 1..Len(toHost) : toHost[i].type # "startTwin"

(* A Start was clicked and not answered: there is nothing else. *)
Waiting ==
    /\ running = FALSE /\ Live = {} /\ twin = NoTwin
    /\ \/ toHost = <<Request>> /\ toView = <<>> /\ starts = 0 /\ runs + builds < MaxRuns
       \/ toHost = <<>> /\ toView \in {<<>>, <<Status>>} /\ starts = 1

(* A process that was spawned and has not been heard to end. *)
Up(r) ==
    /\ starts = 0 /\ NoRequest
    /\ Live = {r} /\ twin \in {r, NoTwin}
    /\ \/ running = TRUE /\ shown = r /\ toView = <<>>
       \/ running = FALSE /\ toHost = <<>> /\ toView \in {<<Started(r)>>, <<Status, Started(r)>>}

(* No process, and the webview says so once it has read its messages. *)
Down ==
    /\ starts = 0 /\ NoRequest
    /\ Live = {} /\ twin = NoTwin
    /\ \/ running = FALSE /\ toView \in {<<>>, <<Failure>>, <<Status, Failure>>}
       \/ \E m \in Endings :
            \/ running = TRUE /\ toView = <<m>>
            \/ /\ running = FALSE /\ toHost = <<>>
               /\ \E r \in Runs : toView \in {<<Started(r), m>>, <<Status, Started(r), m>>}

OneStage == Waiting \/ Down \/ \E r \in Runs : Up(r)

SessionInv ==
    /\ runs + builds <= MaxRuns
    /\ OneStage
    /\ NoStrayTwin
(* What the panel posts, and what the webview sends, are messages. *)
LEMMA MessageTypes ==
    /\ Request \in Messages /\ Status \in Messages
    /\ Failure \in Messages /\ Exited \in Messages
    /\ [type |-> "stopTwin"] \in Messages
    /\ \A r \in Runs : Started(r) \in Messages
    /\ \A r \in Runs \union {NoTwin}, n \in Nat :
          [type |-> "twinCommand", run |-> r, number |-> n] \in Commands
BY DEF Request, Status, Failure, Exited, Started, Messages, Commands, Runs

(* Stopping the panel's twin keeps the processes typed, and none comes     *)
(* alive by it.                                                            *)
LEMMA StopType ==
    ASSUME TypeOK
    PROVE  /\ AfterStop \in [Runs -> {"unborn", "alive", "killed", "failed", "gone"}]
           /\ \A r \in Runs : AfterStop[r] = "unborn" <=> r > runs
           /\ \A r \in Runs : AfterStop[r] = "alive" => proc[r] = "alive" /\ r # twin
           /\ \A r \in Runs : AfterStop[r] = "gone" <=> proc[r] = "gone"
<1>1. CASE twin = NoTwin
  BY <1>1, NoTwinAssumption DEF TypeOK, AfterStop, Runs
<1>2. CASE twin # NoTwin
  <2>1. twin \in Runs
    BY <1>2, BoundsAssumption DEF TypeOK, Runs
  <2>2. QED
    BY <1>2, <2>1 DEF TypeOK, AfterStop, Killed, Runs
<1> QED
  BY <1>1, <1>2

(* Spawning a process keeps every type. *)
LEMMA SpawnType ==
    ASSUME TypeOK, runs < MaxRuns, NEW P, Spawn(P),
           P \in [Runs -> {"unborn", "alive", "killed", "failed", "gone"}],
           \A r \in Runs : P[r] = "unborn" <=> r > runs
    PROVE  /\ twin' \in mine' \union {NoTwin}
           /\ runs' \in 0..MaxRuns
           /\ mine' \subseteq 1..runs'
           /\ proc' \in [Runs -> {"unborn", "alive", "killed", "failed", "gone"}]
           /\ \A r \in Runs : proc'[r] = "unborn" <=> r > runs'
           /\ toView' \in Seq(Messages)
           /\ \A r \in Runs : r > runs' => stdin'[r] = <<>>
<1>1. runs' \in Runs /\ runs' = runs + 1 /\ runs \in Nat
  BY BoundsAssumption DEF TypeOK, Spawn, Runs
<1>2. toView' \in Seq(Messages)
  BY <1>1, MessageTypes DEF TypeOK, Spawn, Post
<1>3. PICK outcome \in {"alive", "failed"} : proc' = [P EXCEPT ![runs'] = outcome]
  BY DEF Spawn
<1>4. /\ proc' \in [Runs -> {"unborn", "alive", "killed", "failed", "gone"}]
      /\ \A r \in Runs : proc'[r] = "unborn" <=> r > runs'
  BY <1>1, <1>3 DEF Runs
<1>5. twin' \in mine' \union {NoTwin} /\ mine' \subseteq 1..runs'
  BY <1>1 DEF TypeOK, Spawn
<1>6. \A r \in Runs : r > runs' => stdin'[r] = <<>>
  BY <1>1 DEF TypeOK, Spawn, Runs
<1>7. QED
  BY <1>1, <1>2, <1>4, <1>5, <1>6, BoundsAssumption DEF Runs

(* Reading short sequences. *)
LEMMA TupleFacts ==
    /\ \A a : Head(<<a>>) = a /\ Tail(<<a>>) = <<>> /\ <<a>> # <<>>
    /\ \A a, b : Head(<<a, b>>) = a /\ Tail(<<a, b>>) = <<b>> /\ <<a, b>> # <<>>
    /\ \A a, b, c : Head(<<a, b, c>>) = a /\ Tail(<<a, b, c>>) = <<b, c>> /\ <<a, b, c>> # <<>>
OBVIOUS

(* Posting to a short queue. *)
LEMMA AppendFacts ==
    ASSUME NEW a \in Messages, NEW b \in Messages, NEW c \in Messages
    PROVE  /\ Append(<<>>, a) = <<a>>
           /\ Append(<<a>>, b) = <<a, b>>
           /\ Append(<<a, b>>, c) = <<a, b, c>>
<1>1. Append(<<>>, a) = <<a>>
  OBVIOUS
<1>2. Append(<<a>>, b) = <<a, b>>
  <2>1. Append(<<a>>, b) \in Seq(Messages) /\ Len(Append(<<a>>, b)) = 2
    OBVIOUS
  <2>2. <<a, b>> \in Seq(Messages) /\ Len(<<a, b>>) = 2
    OBVIOUS
  <2>3. \A i \in 1..2 : Append(<<a>>, b)[i] = <<a, b>>[i]
    OBVIOUS
  <2>4. QED
    BY <2>1, <2>2, <2>3, SeqEqual
<1>3. Append(<<a, b>>, c) = <<a, b, c>>
  <2>1. Append(<<a, b>>, c) \in Seq(Messages) /\ Len(Append(<<a, b>>, c)) = 3
    OBVIOUS
  <2>2. <<a, b, c>> \in Seq(Messages) /\ Len(<<a, b, c>>) = 3
    OBVIOUS
  <2>3. \A i \in 1..3 : Append(<<a, b>>, c)[i] = <<a, b, c>>[i]
    OBVIOUS
  <2>4. QED
    BY <2>1, <2>2, <2>3, SeqEqual
<1> QED
  BY <1>1, <1>2, <1>3

(* A Start the panel has not handled is alone: nothing runs, nothing is    *)
(* built, nothing is on its way to the webview.                            *)
LEMMA StartsWaiting ==
    ASSUME TypeOK, SessionInv, Receive("startTwin")
    PROVE  /\ Waiting
           /\ toHost = <<Request>> /\ toView = <<>> /\ starts = 0 /\ runs + builds < MaxRuns
           /\ runs < MaxRuns /\ toHost' = <<>>
<1>1. ~NoRequest
  <2>1. toHost # <<>> /\ toHost[1].type = "startTwin" /\ Len(toHost) >= 1
    BY DEF TypeOK, Receive
  <2>2. QED
    BY <2>1 DEF NoRequest
<1>2. Waiting /\ toHost # <<>>
  BY <1>1 DEF SessionInv, OneStage, Down, Up, Receive
<1>3. toHost = <<Request>> /\ toView = <<>> /\ starts = 0 /\ runs + builds < MaxRuns
  BY <1>2 DEF Waiting
<1>4. runs < MaxRuns
  BY <1>3, BoundsAssumption DEF TypeOK
<1>5. toHost' = <<>>
  BY <1>3 DEF Receive
<1> QED
  BY <1>2, <1>3, <1>4, <1>5

(* A twinStarted message names a process. *)
LEMMA AnswersAreRuns ==
    ASSUME TypeOK, SessionInv, toView # <<>>, Head(toView).type = "twinStarted"
    PROVE  /\ Head(toView).run \in Runs
           /\ toHost = <<>>
<1>1. PICK m : toView = <<m>> \/ (\E n : toView = <<m, n>>) \/ (\E n, o : toView = <<m, n, o>>)
  BY DEF SessionInv, OneStage, Waiting, Down, Up
<1>2. m = Head(toView)
  BY <1>1
<1>3. m.type = "twinStarted"
  BY <1>2
<1>4. \A e \in Endings \union {Status} : e # m
  BY <1>3 DEF Endings, Failure, Exited, Status
<1>5. PICK r \in Runs : m = Started(r) /\ toHost = <<>>
  BY <1>1, <1>4, TupleFacts DEF SessionInv, OneStage, Waiting, Down, Up, Endings
<1>6. QED
  BY <1>2, <1>5 DEF Started

(* Every variable keeps its type. *)
LEMMA TypeStep == TypeOK /\ SessionInv /\ [Next]_vars => TypeOK'
<1> SUFFICES ASSUME TypeOK, SessionInv, [Next]_vars PROVE TypeOK'
  OBVIOUS
<1> USE DEF view, processes, making
<1>s. /\ AfterStop \in [Runs -> {"unborn", "alive", "killed", "failed", "gone"}]
      /\ \A r \in Runs : AfterStop[r] = "unborn" <=> r > runs
  BY StopType
<1>e. ASSUME NEW r \in Runs, NEW m \in Messages, OnEnd(r, m)
      PROVE  twin' \in mine \union {NoTwin} /\ toView' \in Seq(Messages)
  <2>1. CASE r \in mine /\ twin' = NoTwin /\ toView' = Append(toView, m)
    BY <2>1, <1>e DEF TypeOK
  <2>2. CASE UNCHANGED <<twin, toView>>
    BY <2>2 DEF TypeOK
  <2>3. QED
    BY <1>e, <2>1, <2>2 DEF OnEnd, Post
<1>r. ASSUME NEW type, Receive(type)
      PROVE  toHost' \in Seq(Messages \union Commands)
  BY <1>r DEF TypeOK, Receive
<1>1. CASE Open
  BY <1>1 DEF TypeOK, Open
<1>2. CASE Close
  <2>1. running' \in BOOLEAN /\ open' \in BOOLEAN
    BY <1>2 DEF Close
  <2>2. QED
    BY <1>2, <1>s, <2>1 DEF TypeOK, Close, StopTwin
<1>3. CASE ClickStart
  <2>1. toHost' = Append(toHost, Request)
    BY <1>3 DEF ClickStart, SendToHost, Request
  <2>2. QED
    BY <1>3, <2>1, MessageTypes DEF TypeOK, ClickStart
<1>4. CASE ClickStop
  BY <1>4, MessageTypes DEF TypeOK, ClickStop, SendToHost
<1>5. CASE ClickMode
  <2>1. clicks' \in 0..MaxCommands /\ clicks' \in Nat
    BY <1>5, BoundsAssumption DEF TypeOK, ClickMode
  <2>2. [type |-> "twinCommand", run |-> shown, number |-> clicks'] \in Commands
    BY <2>1, MessageTypes DEF TypeOK
  <2>3. toHost' \in Seq(Messages \union Commands)
    BY <1>5, <2>2 DEF TypeOK, ClickMode, SendToHost
  <2>4. QED
    BY <1>5, <2>1, <2>3 DEF TypeOK, ClickMode
<1>6. CASE ViewReceives
  <2>1. Head(toView) \in Messages /\ Tail(toView) \in Seq(Messages)
    BY <1>6 DEF TypeOK, ViewReceives
  <2>2. shown' \in Runs \union {NoTwin}
    BY <1>6, AnswersAreRuns DEF TypeOK, ViewReceives
  <2>3. QED
    BY <1>6, <2>1, <2>2 DEF TypeOK, ViewReceives
<1>7. CASE StartRefused
  BY <1>7, <1>r, <1>s, MessageTypes DEF TypeOK, StartRefused, Post
<1>8. CASE StartNow
  <2>1. runs < MaxRuns
    BY <1>8, StartsWaiting DEF StartNow
  <2>2. Spawn(AfterStop)
    BY <1>8 DEF StartNow
  <2>3. /\ twin' \in mine' \union {NoTwin}
        /\ runs' \in 0..MaxRuns
        /\ mine' \subseteq 1..runs'
        /\ proc' \in [Runs -> {"unborn", "alive", "killed", "failed", "gone"}]
        /\ \A r \in Runs : proc'[r] = "unborn" <=> r > runs'
        /\ toView' \in Seq(Messages)
        /\ \A r \in Runs : r > runs' => stdin'[r] = <<>>
    BY <1>s, <2>1, <2>2, SpawnType
  <2>4. QED
    BY <1>8, <1>r, <2>2, <2>3 DEF TypeOK, StartNow, Spawn
<1>9. CASE StartBuild
  BY <1>9, <1>r, <1>s, MessageTypes DEF TypeOK, StartBuild, Post, Status
<1>10. CASE HostStop
  BY <1>10, <1>r, <1>s DEF TypeOK, HostStop, StopTwin
<1>11. CASE HostCommand
  <2>1. Head(toHost) \in Commands
    <3>1. Head(toHost) \in Messages \union Commands /\ Head(toHost).type = "twinCommand"
      BY <1>11 DEF TypeOK, HostCommand, Receive
    <3>2. \A m \in Messages : m.type # "twinCommand"
      BY DEF Messages
    <3>3. QED
      BY <3>1, <3>2
  <2>2. stdin' \in [Runs -> Seq(Commands)]
    BY <1>11, <2>1 DEF TypeOK, HostCommand
  <2>3. Target <= runs
    BY NoTwinAssumption DEF TypeOK, Target
  <2>4. QED
    BY <1>11, <1>r, <2>2, <2>3 DEF TypeOK, HostCommand, Runs
<1>12. CASE MakeLinks
  BY <1>12 DEF TypeOK, MakeLinks
<1>13. CASE BuildSucceeds
  <2>1. runs < MaxRuns
    BY <1>13, BoundsAssumption DEF TypeOK, SessionInv, BuildSucceeds
  <2>2. /\ twin' \in mine' \union {NoTwin}
        /\ runs' \in 0..MaxRuns
        /\ mine' \subseteq 1..runs'
        /\ proc' \in [Runs -> {"unborn", "alive", "killed", "failed", "gone"}]
        /\ \A r \in Runs : proc'[r] = "unborn" <=> r > runs'
        /\ toView' \in Seq(Messages)
        /\ \A r \in Runs : r > runs' => stdin'[r] = <<>>
    <3>1. Spawn(proc)
      BY <1>13 DEF BuildSucceeds
    <3>2. /\ proc \in [Runs -> {"unborn", "alive", "killed", "failed", "gone"}]
          /\ \A r \in Runs : proc[r] = "unborn" <=> r > runs
      BY DEF TypeOK
    <3>3. QED
      BY <2>1, <3>1, <3>2, SpawnType
  <2>3. QED
    BY <1>13, <2>1, <2>2 DEF TypeOK, BuildSucceeds, Spawn
<1>14. CASE BuildFails
  BY <1>14, MessageTypes DEF TypeOK, BuildFails, Post
<1>15. CASE StaleBuildEnds
  BY <1>15 DEF TypeOK, StaleBuildEnds
<1>16. ASSUME NEW r \in Runs, Exits(r) PROVE TypeOK'
  BY <1>16, <1>e, MessageTypes DEF TypeOK, Exits
<1>17. ASSUME NEW r \in Runs, SpawnFails(r) PROVE TypeOK'
  BY <1>17, <1>e, MessageTypes DEF TypeOK, SpawnFails
<1>18. ASSUME NEW r \in Runs, Applies(r) PROVE TypeOK'
  BY <1>18 DEF TypeOK, Applies
<1>19. CASE UNCHANGED vars
  BY <1>19 DEF TypeOK, vars
<1> QED
  BY <1>1, <1>2, <1>3, <1>4, <1>5, <1>6, <1>7, <1>8, <1>9, <1>10, <1>11, <1>12, <1>13,
     <1>14, <1>15, <1>16, <1>17, <1>18, <1>19 DEF Next, Handle, BuildEnds

(* Reading a message keeps to the stages: a session moves from a Start to  *)
(* its answer and its end in that order.                                   *)
LEMMA ViewStep ==
    ASSUME TypeOK, OneStage, ViewReceives
    PROVE  OneStage'
<1> DEFINE m == Head(toView)
<1>r. running' = (m.type = "twinStarted" \/ (m.type = "twinStatus" /\ running))
  BY DEF ViewReceives
<1>1. /\ toView # <<>> /\ toView' = Tail(toView)
      /\ shown' = IF m.type = "twinStarted" THEN m.run ELSE shown
      /\ UNCHANGED <<toHost, twin, starts, builds, runs, mine, proc>>
  BY DEF ViewReceives, making, processes
<1>2. Live' = Live /\ (NoRequest' <=> NoRequest)
  BY <1>1 DEF Live, NoRequest
<1>3. CASE m = Status
  <2>1. running' = running /\ shown' = shown
    BY <1>1, <1>r, <1>3 DEF TypeOK, Status
  <2>2. (\A e \in Endings : e # m) /\ (\A r \in Runs : Started(r) # m)
    BY <1>3 DEF Endings, Failure, Exited, Status, Started
  <2>3. Waiting => Waiting'
    BY <1>1, <1>2, <2>1, <2>2, TupleFacts DEF Waiting
  <2>4. ASSUME NEW r \in Runs, Up(r) PROVE Up(r)'
    <3>1. running = FALSE /\ toHost = <<>> /\ toView = <<Status, Started(r)>>
      BY <1>1, <2>2, <2>4 DEF Up
    <3>2. toView' = <<Started(r)>>
      BY <1>1, <3>1, TupleFacts
    <3>3. QED
      BY <1>1, <1>2, <2>1, <2>4, <3>1, <3>2 DEF Up
  <2>5. Down => Down'
    <3> SUFFICES ASSUME Down PROVE Down'
      OBVIOUS
    <3>1. CASE toView = <<Status, Failure>>
      <4>1. toView' = <<Failure>> /\ running = FALSE
        BY <1>1, <3>1, TupleFacts DEF Down
      <4>2. QED
        BY <1>1, <1>2, <2>1, <4>1 DEF Down
    <3>2. ASSUME NEW e \in Endings, NEW r \in Runs, toView = <<Status, Started(r), e>>
          PROVE  Down'
      <4>1. toView' = <<Started(r), e>> /\ running = FALSE /\ toHost = <<>>
        BY <1>1, <3>2, TupleFacts DEF Down
      <4>2. QED
        BY <1>1, <1>2, <2>1, <4>1 DEF Down
    <3>3. toView # <<Failure>>
      BY <2>2 DEF Endings
    <3>4. \A e \in Endings : toView # <<e>> /\ \A r \in Runs : toView # <<Started(r), e>>
      BY <2>2
    <3>5. QED
      BY <1>1, <3>1, <3>2, <3>3, <3>4 DEF Down
  <2>6. QED
    BY <2>3, <2>4, <2>5 DEF OneStage
<1>4. CASE m \in Endings
  <2>1. m.type # "twinStarted" /\ m.type # "twinStatus"
    BY <1>4 DEF Endings, Failure, Exited
  <2>2. running' = FALSE /\ shown' = shown
    BY <1>1, <1>r, <2>1
  <2>3. m # Status /\ \A r \in Runs : Started(r) # m
    BY <2>1 DEF Status, Started
  <2>4. ~Waiting
    BY <1>1, <2>3 DEF Waiting
  <2>5. \A r \in Runs : ~Up(r)
    BY <1>1, <2>3 DEF Up
  <2>6. Down /\ toView = <<m>>
    BY <1>1, <2>3, <2>4, <2>5 DEF OneStage, Down
  <2>7. QED
    BY <1>1, <1>2, <2>2, <2>6, TupleFacts DEF OneStage, Down
<1>5. ASSUME NEW r \in Runs, m = Started(r) PROVE OneStage'
  <2>1. m.type = "twinStarted" /\ m.run = r
    BY <1>5 DEF Started
  <2>2. running' = TRUE /\ shown' = r
    BY <1>1, <1>r, <2>1
  <2>3. Status # m /\ \A e \in Endings : e # m
    BY <2>1 DEF Endings, Failure, Exited, Status
  <2>4. \A s \in Runs : Started(s) = m => s = r
    BY <2>1 DEF Started
  <2>5. ~Waiting
    BY <1>1, <2>3 DEF Waiting
  <2>6. ASSUME NEW s \in Runs, Up(s) PROVE Up(r)'
    <3>1. toView = <<Started(s)>> /\ s = r
      <4>1. toView \in {<<Started(s)>>, <<Status, Started(s)>>} /\ Head(toView) = m
        BY <1>1, <2>6 DEF Up
      <4>2. toView # <<Status, Started(s)>>
        BY <2>3, <4>1, TupleFacts
      <4>3. QED
        BY <2>4, <4>1, <4>2, TupleFacts
    <3>2. toView' = <<>>
      BY <1>1, <3>1, TupleFacts
    <3>3. starts = 0 /\ NoRequest /\ Live = {r} /\ twin \in {r, NoTwin}
      BY <2>6, <3>1 DEF Up
    <3>4. starts' = 0 /\ NoRequest' /\ Live' = {r} /\ twin' \in {r, NoTwin}
      BY <1>1, <1>2, <3>3
    <3>5. QED
      BY <2>2, <3>2, <3>4 DEF Up
  <2>7. Down => Down'
    <3> SUFFICES ASSUME Down PROVE Down'
      OBVIOUS
    <3>1. PICK e \in Endings, s \in Runs : toView = <<Started(s), e>>
      BY <1>1, <2>3 DEF Down, Endings
    <3>2. toView' = <<e>>
      BY <1>1, <3>1, TupleFacts
    <3>3. QED
      BY <1>1, <1>2, <2>2, <3>2 DEF Down
  <2>8. QED
    BY <2>5, <2>6, <2>7 DEF OneStage
<1>6. m = Status \/ m \in Endings \/ \E r \in Runs : m = Started(r)
  BY <1>1, TupleFacts DEF OneStage, Waiting, Down, Up, Endings
<1> QED
  BY <1>3, <1>4, <1>5, <1>6

(* Posting the end of the only process takes an Up session to Down. *)
LEMMA EndStep ==
    ASSUME TypeOK, SessionInv, NEW r \in Runs, NEW e \in Endings,
           proc[r] # "gone", proc[r] # "unborn",
           proc' = [proc EXCEPT ![r] = "gone"], OnEnd(r, e),
           UNCHANGED <<running, shown, toHost, starts, builds, runs, mine>>
    PROVE  OneStage' /\ NoStrayTwin'
<1> USE DEF Messages
<1>1. CASE r \in mine
  <2>1. r \in Live
    BY <1>1 DEF Live
  <2>2. Live = {r} /\ Up(r)
    BY <2>1 DEF SessionInv, OneStage, Waiting, Down, Up
  <2>3. twin' = NoTwin /\ toView' = Append(toView, e)
    BY <1>1 DEF OnEnd, Post
  <2>4. Live' = {}
    BY <2>2 DEF Live, TypeOK
  <2>5. \A s \in Runs : proc'[s] # "alive"
    BY <2>2, NoTwinAssumption DEF SessionInv, NoStrayTwin, TypeOK, Up, Runs
  <2>6. NoRequest' /\ starts' = 0
    BY <2>2 DEF Up, NoRequest
  <2>7. e \in Messages /\ Started(r) \in Messages /\ Status \in Messages
    BY MessageTypes DEF Endings
  <2>8. CASE running = TRUE /\ toView = <<>>
    <3>1. toView' = <<e>>
      BY <2>3, <2>7, <2>8, AppendFacts
    <3>2. QED
      BY <2>3, <2>4, <2>5, <2>6, <2>8, <3>1 DEF OneStage, Down, NoStrayTwin
  <2>9. CASE running = FALSE /\ toHost = <<>> /\ toView \in {<<Started(r)>>, <<Status, Started(r)>>}
    <3>1. /\ Append(<<Started(r)>>, e) = <<Started(r), e>>
          /\ Append(<<Status, Started(r)>>, e) = <<Status, Started(r), e>>
      BY <2>7, AppendFacts
    <3>2. toView' \in {<<Started(r), e>>, <<Status, Started(r), e>>}
      BY <2>3, <2>9, <3>1
    <3>3. QED
      BY <2>3, <2>4, <2>5, <2>6, <2>9, <3>2 DEF OneStage, Down, NoStrayTwin
  <2> QED
    BY <2>2, <2>8, <2>9 DEF Up
<1>2. CASE r \notin mine
  <2>1. UNCHANGED <<twin, toView>>
    BY <1>2 DEF OnEnd
  <2>2. Live' = Live
    BY <1>2 DEF Live, TypeOK
  <2>3. OneStage'
    BY <2>1, <2>2 DEF SessionInv, OneStage, Waiting, Down, Up, NoRequest
  <2>4. NoStrayTwin'
    BY <2>1 DEF SessionInv, NoStrayTwin, TypeOK
  <2>5. QED
    BY <2>3, <2>4
<1> QED
  BY <1>1, <1>2

(* A spawn takes a session that was waiting to Up. *)
LEMMA SpawnStep ==
    ASSUME TypeOK, SessionInv, Waiting, runs < MaxRuns, Spawn(proc),
           toHost' = <<>>, starts' = 0, running' = running,
           toView \in {<<>>, <<Status>>}
    PROVE  OneStage' /\ NoStrayTwin'
<1> DEFINE r == runs'
<1>1. r \in Runs /\ r = runs + 1 /\ r \notin mine
  BY BoundsAssumption DEF TypeOK, Spawn, Runs
<1>2. PICK outcome \in {"alive", "failed"} : proc' = [proc EXCEPT ![r] = outcome]
  BY DEF Spawn
<1>3. mine' = mine \union {r} /\ twin' = r /\ toView' = Append(toView, Started(r))
  BY DEF Spawn, Post
<1>4. Live' = {r}
  BY <1>1, <1>2, <1>3 DEF Live, Waiting, TypeOK
<1>5. NoStrayTwin'
  <2>1. \A s \in Runs : proc[s] # "alive"
    BY NoTwinAssumption DEF SessionInv, NoStrayTwin, Waiting, Runs
  <2>2. QED
    BY <1>1, <1>2, <1>3, <2>1 DEF NoStrayTwin, TypeOK
<1>6. toView' \in {<<Started(r)>>, <<Status, Started(r)>>}
  <2>1. /\ Append(<<>>, Started(r)) = <<Started(r)>>
        /\ Append(<<Status>>, Started(r)) = <<Status, Started(r)>>
    BY <1>1, MessageTypes, AppendFacts
  <2>2. QED
    BY <1>3, <2>1
<1>7. NoRequest'
  BY DEF NoRequest
<1>8. running' = FALSE
  BY DEF Waiting
<1>9. \E s \in Runs : Up(s)'
  BY <1>1, <1>3, <1>4, <1>6, <1>7, <1>8 DEF Up
<1> QED
  BY <1>5, <1>9 DEF OneStage

(* While the panel holds no twin, stopping it does nothing. *)
LEMMA StopNothing == twin = NoTwin => AfterStop = proc
BY DEF AfterStop

(* Clicking Stop or a mode adds no Start. *)
LEMMA OtherClickStep ==
    ASSUME TypeOK, SessionInv, running, NEW m \in Messages \union Commands,
           m.type # "startTwin", toHost' = Append(toHost, m),
           UNCHANGED <<view, toView, twin, making, processes>>
    PROVE  OneStage' /\ NoStrayTwin'
<1> USE DEF view, making, processes
<1>1. running = TRUE
  BY DEF TypeOK
<1>2. NoRequest => NoRequest'
  BY DEF TypeOK, NoRequest
<1>3. Live' = Live
  BY DEF Live
<1>4. ~Waiting
  BY <1>1 DEF Waiting
<1>5. Down => Down'
  BY <1>1, <1>2, <1>3 DEF Down
<1>6. ASSUME NEW r \in Runs, Up(r) PROVE Up(r)'
  BY <1>1, <1>2, <1>3, <1>6 DEF Up
<1>7. NoStrayTwin'
  BY DEF SessionInv, NoStrayTwin
<1> QED
  BY <1>4, <1>5, <1>6, <1>7 DEF SessionInv, OneStage

(* Handling a message that is no Start keeps the stage, whether or not the *)
(* twin is told to stop.                                                   *)
LEMMA OtherMessageStep ==
    ASSUME TypeOK, SessionInv, NEW type, type # "startTwin", Receive(type),
           \/ UNCHANGED <<twin, proc>>
           \/ StopTwin,
           UNCHANGED <<view, toView, making, runs, mine>>
    PROVE  OneStage' /\ NoStrayTwin'
<1> USE DEF view, making
<1>1. toHost # <<>> /\ toHost' = Tail(toHost) /\ toHost[1].type # "startTwin"
  BY DEF Receive, TypeOK
<1>2. NoRequest => NoRequest'
  BY <1>1 DEF TypeOK, NoRequest
<1>3. ~Waiting
  BY <1>1 DEF Waiting, Request
<1>4. Live' = Live
  <2>1. \A r \in Runs : proc'[r] = "gone" <=> proc[r] = "gone"
    BY StopType DEF StopTwin
  <2>2. mine' = mine /\ mine \subseteq Runs
    BY BoundsAssumption DEF TypeOK, Runs
  <2>3. QED
    BY <2>1, <2>2 DEF Live
<1>5. twin' \in {twin, NoTwin}
  BY DEF StopTwin
<1>6. Down => Down'
  BY <1>1, <1>2, <1>4, <1>5 DEF Down
<1>7. ASSUME NEW r \in Runs, Up(r) PROVE Up(r)'
  <2>1. starts = 0 /\ NoRequest /\ Live = {r} /\ twin \in {r, NoTwin}
    BY <1>7 DEF Up
  <2>2. running = TRUE /\ shown = r /\ toView = <<>>
    BY <1>1, <1>7 DEF Up
  <2>3. starts' = 0 /\ NoRequest' /\ Live' = {r} /\ twin' \in {r, NoTwin}
    BY <1>2, <1>4, <1>5, <2>1
  <2>4. running' = TRUE /\ shown' = r /\ toView' = <<>>
    BY <2>2
  <2>5. QED
    BY <2>3, <2>4 DEF Up
<1>8. NoStrayTwin'
  BY StopType DEF SessionInv, NoStrayTwin, StopTwin
<1> QED
  BY <1>3, <1>6, <1>7, <1>8 DEF SessionInv, OneStage

(* A Start that fails, at once or when the build does, leaves no session. *)
LEMMA FailureStep ==
    ASSUME TypeOK, SessionInv, Waiting, toView \in {<<>>, <<Status>>},
           toView' = Append(toView, Failure), toHost' = <<>>, starts' = 0,
           UNCHANGED <<view, twin, proc, mine>>
    PROVE  OneStage' /\ NoStrayTwin'
<1> USE DEF view
<1>1. toView' \in {<<Failure>>, <<Status, Failure>>}
  <2>1. Status \in Messages /\ Failure \in Messages
    BY MessageTypes
  <2>2. Append(<<>>, Failure) = <<Failure>> /\ Append(<<Status>>, Failure) = <<Status, Failure>>
    BY <2>1, AppendFacts
  <2>3. QED
    BY <2>2
<1>2. Live' = {} /\ NoRequest'
  BY DEF Waiting, Live, NoRequest
<1>3. Down'
  BY <1>1, <1>2 DEF Waiting, Down
<1>4. QED
  BY <1>3 DEF SessionInv, OneStage, NoStrayTwin

(* A startTwin that waits for its build is alone. *)
LEMMA BuildsWaiting ==
    ASSUME TypeOK, SessionInv, starts > 0
    PROVE  Waiting /\ toHost = <<>> /\ toView \in {<<>>, <<Status>>} /\ starts = 1
BY DEF SessionInv, OneStage, Waiting, Down, Up

(* With every Start answered, no answer is on its way. *)
LEMMA AnsweredView ==
    ASSUME Answered
    PROVE  /\ \A r \in Runs : toView # <<Started(r)>> /\ toView # <<Status, Started(r)>>
           /\ toView # <<Failure>> /\ toView # <<Status, Failure>>
           /\ \A r \in Runs : \A m :
                 toView # <<Started(r), m>> /\ toView # <<Status, Started(r), m>>
<1>1. \A i \in 1..Len(toView) : toView[i].type # "twinStarted" /\ toView[i].type # "twinError"
  BY DEF Answered
<1>2. \A a : Len(<<a>>) = 1 /\ <<a>>[1] = a
  OBVIOUS
<1>3. \A a, b : Len(<<a, b>>) = 2 /\ <<a, b>>[1] = a /\ <<a, b>>[2] = b
  OBVIOUS
<1>4. \A a, b, c : Len(<<a, b, c>>) = 3 /\ <<a, b, c>>[1] = a /\ <<a, b, c>>[2] = b
  OBVIOUS
<1>5. Failure.type = "twinError" /\ \A r \in Runs : Started(r).type = "twinStarted"
  BY DEF Failure, Started
<1>6. ASSUME NEW r \in Runs
      PROVE  toView # <<Started(r)>> /\ toView # <<Status, Started(r)>>
  <2>1. ASSUME toView = <<Started(r)>> PROVE FALSE
    <3>1. 1 \in 1..Len(toView) /\ toView[1] = Started(r)
      BY <1>2, <2>1
    <3>2. QED
      BY <1>1, <1>5, <3>1
  <2>2. ASSUME toView = <<Status, Started(r)>> PROVE FALSE
    <3>1. 2 \in 1..Len(toView) /\ toView[2] = Started(r)
      BY <1>3, <2>2
    <3>2. QED
      BY <1>1, <1>5, <3>1
  <2>3. QED
    BY <2>1, <2>2
<1>7. toView # <<Failure>> /\ toView # <<Status, Failure>>
  <2>1. ASSUME toView = <<Failure>> PROVE FALSE
    <3>1. 1 \in 1..Len(toView) /\ toView[1] = Failure
      BY <1>2, <2>1
    <3>2. QED
      BY <1>1, <1>5, <3>1
  <2>2. ASSUME toView = <<Status, Failure>> PROVE FALSE
    <3>1. 2 \in 1..Len(toView) /\ toView[2] = Failure
      BY <1>3, <2>2
    <3>2. QED
      BY <1>1, <1>5, <3>1
  <2>3. QED
    BY <2>1, <2>2
<1>8. ASSUME NEW r \in Runs, NEW m
      PROVE  toView # <<Started(r), m>> /\ toView # <<Status, Started(r), m>>
  BY <1>1, <1>3, <1>4, <1>5
<1> QED
  BY <1>6, <1>7, <1>8

(* The number of processes and builds stays within its bound. *)
LEMMA BudgetStep ==
    ASSUME TypeOK, SessionInv, [Next]_vars
    PROVE  runs' + builds' <= MaxRuns
<1> USE DEF view, processes, making
<1>1. CASE Handle
  <2>1. CASE HostStop \/ HostCommand
    BY <2>1 DEF SessionInv, HostStop, HostCommand
  <2>2. CASE StartRefused \/ StartNow \/ StartBuild
    BY <2>2, StartsWaiting, BoundsAssumption
       DEF TypeOK, SessionInv, StartRefused, StartNow, StartBuild, Spawn
  <2>3. QED
    BY <1>1, <2>1, <2>2 DEF Handle
<1>2. CASE BuildEnds
  BY <1>2, BoundsAssumption
     DEF TypeOK, SessionInv, BuildEnds, BuildSucceeds, BuildFails, StaleBuildEnds, Spawn
<1>3. CASE Open \/ Close \/ ClickStart \/ ClickStop \/ ClickMode \/ ViewReceives \/ MakeLinks
  BY <1>3 DEF SessionInv, Open, Close, ClickStart, ClickStop, ClickMode, ViewReceives, MakeLinks
<1>4. CASE \E r \in Runs : Exits(r) \/ SpawnFails(r) \/ Applies(r)
  BY <1>4 DEF SessionInv, Exits, SpawnFails, Applies
<1>5. CASE UNCHANGED vars
  BY <1>5 DEF SessionInv, vars
<1> QED
  BY <1>1, <1>2, <1>3, <1>4, <1>5 DEF Next

(* The session keeps to its stages, and no twin strays. *)
LEMMA SessionStep == Patient /\ TypeOK /\ SessionInv /\ [Next]_vars => SessionInv'
<1> SUFFICES ASSUME Patient, TypeOK, SessionInv, [Next]_vars PROVE OneStage' /\ NoStrayTwin'
  BY BudgetStep DEF SessionInv
<1> USE DEF view, processes, making
<1>1. ASSUME UNCHANGED <<view, toHost, toView, twin, starts, proc, mine>>,
             runs' + builds' <= runs + builds, runs' + builds' \in Nat
      PROVE  OneStage' /\ NoStrayTwin'
  <2>1. Live' = Live /\ (NoRequest' <=> NoRequest)
    BY <1>1 DEF Live, NoRequest
  <2>2. Waiting => Waiting'
    BY <1>1, <2>1, BoundsAssumption DEF TypeOK, Waiting
  <2>3. Down => Down'
    BY <1>1, <2>1 DEF Down
  <2>4. ASSUME NEW r \in Runs, Up(r) PROVE Up(r)'
    BY <1>1, <2>1, <2>4 DEF Up
  <2>5. QED
    BY <1>1, <2>2, <2>3, <2>4 DEF SessionInv, OneStage, NoStrayTwin
<1>2. CASE Close
  <2>1. \A r \in Runs : proc'[r] # "alive"
    BY <1>2, StopType DEF SessionInv, NoStrayTwin, Close, StopTwin
  <2>2. Live' = {} /\ NoRequest'
    BY <1>2 DEF Close, Live, NoRequest
  <2>3. Down'
    BY <1>2, <2>2 DEF Close, StopTwin, Down
  <2>4. QED
    BY <2>1, <2>3 DEF OneStage, NoStrayTwin
<1>3. CASE ClickStart
  <2>1. /\ running = FALSE /\ Answered
        /\ UNCHANGED <<view, toView, twin, making, processes>>
    BY <1>3 DEF ClickStart, TypeOK
  <2>2. ~Waiting
    BY <2>1 DEF Answered, Waiting
  <2>3. \A r \in Runs : ~Up(r)
    BY <2>1, AnsweredView DEF Up
  <2>4. Down
    BY <2>2, <2>3 DEF SessionInv, OneStage
  <2>5. toView = <<>>
    BY <2>1, <2>4, AnsweredView DEF Down
  <2>6. toHost' = <<Request>>
    BY <1>3, <2>1, MessageTypes, AppendFacts DEF ClickStart, SendToHost, Answered, Request
  <2>7. runs + builds < MaxRuns
    <3>1. Clicked("startTwin") = {}
      BY <2>1 DEF Clicked, Answered
    <3>2. Cardinality(Clicked("startTwin")) = 0
      BY <3>1, FS_EmptySet
    <3>3. QED
      BY <1>3, <3>2 DEF ClickStart, TypeOK
  <2>8. Waiting'
    BY <2>1, <2>4, <2>5, <2>6, <2>7 DEF Down, Waiting, Live
  <2>9. QED
    BY <2>1, <2>8 DEF SessionInv, OneStage, NoStrayTwin
<1>4. CASE ClickStop
  <2>1. [type |-> "stopTwin"] \in Messages
    BY MessageTypes
  <2>2. QED
    BY <1>4, <2>1, OtherClickStep DEF ClickStop, SendToHost
<1>5. CASE ClickMode
  <2>1. [type |-> "twinCommand", run |-> shown, number |-> clicks'] \in Commands
    <3>1. clicks' \in Nat /\ shown \in Runs \union {NoTwin}
      BY <1>5 DEF TypeOK, ClickMode
    <3>2. QED
      BY <3>1, MessageTypes
  <2>2. QED
    BY <1>5, <2>1, OtherClickStep DEF ClickMode, SendToHost
<1>6. CASE ViewReceives
  BY <1>6, ViewStep DEF SessionInv, NoStrayTwin, ViewReceives
<1>7. CASE StartRefused
  <2>1. Waiting /\ toView = <<>> /\ starts = 0 /\ toHost' = <<>>
    BY <1>7, StartsWaiting DEF StartRefused
  <2>2. twin = NoTwin /\ AfterStop = proc
    BY <2>1, StopNothing DEF Waiting
  <2>3. QED
    BY <1>7, <2>1, <2>2, FailureStep DEF StartRefused, Post
<1>8. CASE StartNow
  <2>1. Waiting /\ toView = <<>> /\ starts = 0 /\ toHost' = <<>> /\ runs < MaxRuns
    BY <1>8, StartsWaiting DEF StartNow
  <2>2. AfterStop = proc
    BY <2>1, StopNothing DEF Waiting
  <2>3. QED
    BY <1>8, <2>1, <2>2, SpawnStep DEF StartNow
<1>9. CASE StartBuild
  <2>1. Waiting /\ toView = <<>> /\ starts = 0 /\ toHost' = <<>>
    BY <1>9, StartsWaiting DEF StartBuild
  <2>2. twin = NoTwin /\ AfterStop = proc
    BY <2>1, StopNothing DEF Waiting
  <2>3. toView' = <<Status>>
    BY <1>9, <2>1, MessageTypes, AppendFacts DEF StartBuild, Post, Status
  <2>4. Live' = {} /\ running' = FALSE /\ twin' = NoTwin /\ starts' = 1
    BY <1>9, <2>1, <2>2 DEF StartBuild, Waiting, Live
  <2>5. Waiting'
    BY <2>1, <2>3, <2>4 DEF Waiting
  <2>6. QED
    BY <1>9, <2>2, <2>5 DEF SessionInv, OneStage, NoStrayTwin, StartBuild
<1>10. CASE HostStop
  BY <1>10, OtherMessageStep DEF HostStop
<1>11. CASE HostCommand
  BY <1>11, OtherMessageStep DEF HostCommand
<1>12. CASE Open \/ MakeLinks \/ StaleBuildEnds \/ UNCHANGED vars
  BY <1>1, <1>12 DEF TypeOK, Open, MakeLinks, StaleBuildEnds, vars
<1>13. CASE BuildSucceeds
  <2>1. Waiting /\ toHost = <<>> /\ toView \in {<<>>, <<Status>>} /\ starts = 1
    BY <1>13, BuildsWaiting DEF BuildSucceeds
  <2>2. runs < MaxRuns
    BY <1>13, BoundsAssumption DEF TypeOK, SessionInv, BuildSucceeds
  <2>3. QED
    BY <1>13, <2>1, <2>2, SpawnStep DEF BuildSucceeds
<1>14. CASE BuildFails
  <2>1. Waiting /\ toHost = <<>> /\ toView \in {<<>>, <<Status>>} /\ starts = 1
    BY <1>14, BuildsWaiting DEF BuildFails
  <2>2. QED
    BY <1>14, <2>1, FailureStep DEF BuildFails, Post
<1>16. ASSUME NEW r \in Runs, Exits(r) PROVE OneStage' /\ NoStrayTwin'
  BY <1>16, EndStep DEF Exits, Endings
<1>17. ASSUME NEW r \in Runs, SpawnFails(r) PROVE OneStage' /\ NoStrayTwin'
  BY <1>17, EndStep DEF SpawnFails, Endings
<1>18. ASSUME NEW r \in Runs, Applies(r) PROVE OneStage' /\ NoStrayTwin'
  BY <1>1, <1>18 DEF Applies, TypeOK
<1> QED
  BY <1>2, <1>3, <1>4, <1>5, <1>6, <1>7, <1>8, <1>9, <1>10, <1>11, <1>12, <1>13,
     <1>14, <1>16, <1>17, <1>18 DEF Next, Handle, BuildEnds

(***************************************************************************)
(* Commands.                                                               *)
(***************************************************************************)

IsCommand(m) == m.type = "twinCommand"

(* The commands of a queue are in the order of the clicks. *)
Sorted(q) ==
    \A i, j \in 1..Len(q) :
        i < j /\ IsCommand(q[i]) /\ IsCommand(q[j]) => q[i].number < q[j].number

(* The commands of one queue were clicked before those of another. *)
Before(p, q) ==
    \A i \in 1..Len(p), j \in 1..Len(q) :
        IsCommand(p[i]) /\ IsCommand(q[j]) => p[i].number < q[j].number

(* Every command of a queue was clicked when run r was on the screen. *)
For(r, q) ==
    \A i \in 1..Len(q) : IsCommand(q[i]) => q[i].run = r /\ q[i].number <= clicks

CommandInv ==
    /\ For(shown, toHost) /\ Sorted(toHost)
    /\ \A r \in Runs :
          /\ For(r, stdin[r]) /\ For(r, driven[r])
          /\ Sorted(stdin[r]) /\ Sorted(driven[r])
          /\ Before(driven[r], stdin[r])
          /\ Before(driven[r], toHost) /\ Before(stdin[r], toHost)

Lines == Messages \union Commands

(* What waits on a standard input is commands. *)
LEMMA CommandsAre == \A m \in Commands : IsCommand(m)
BY DEF Commands, IsCommand

(* Taking a message from a queue. *)
LEMMA TakeFacts ==
    ASSUME NEW q \in Seq(Lines), q # <<>>, Sorted(q)
    PROVE  /\ Sorted(Tail(q))
           /\ \A p : Before(p, q) => Before(p, Tail(q))
           /\ \A p : Before(q, p) => Before(Tail(q), p)
           /\ \A r : For(r, q) => For(r, Tail(q))
           /\ IsCommand(Head(q)) => \A i \in 1..Len(Tail(q)) :
                 IsCommand(Tail(q)[i]) => Head(q).number < Tail(q)[i].number
<1>1. /\ Len(Tail(q)) = Len(q) - 1 /\ Len(q) \in Nat /\ Len(q) >= 1
      /\ \A i \in 1..Len(Tail(q)) : Tail(q)[i] = q[i + 1] /\ i + 1 \in 1..Len(q)
      /\ Head(q) = q[1]
  OBVIOUS
<1>2. Sorted(Tail(q))
  BY <1>1 DEF Sorted
<1>3. \A p : Before(p, q) => Before(p, Tail(q))
  BY <1>1 DEF Before
<1>4. \A p : Before(q, p) => Before(Tail(q), p)
  BY <1>1 DEF Before
<1>5. \A r : For(r, q) => For(r, Tail(q))
  BY <1>1 DEF For
<1>6. ASSUME IsCommand(Head(q)), NEW i \in 1..Len(Tail(q)), IsCommand(Tail(q)[i])
      PROVE  Head(q).number < Tail(q)[i].number
  BY <1>1, <1>6 DEF Sorted
<1> QED
  BY <1>2, <1>3, <1>4, <1>5, <1>6

(* Adding a message to a queue. *)
LEMMA AddFacts ==
    ASSUME NEW q \in Seq(Lines), NEW m \in Lines
    PROVE  /\ Sorted(q) /\ Before(q, <<m>>) => Sorted(Append(q, m))
           /\ \A p : Before(p, q) /\ Before(p, <<m>>) => Before(p, Append(q, m))
           /\ \A p : Before(q, p) /\ Before(<<m>>, p) => Before(Append(q, m), p)
           /\ \A r : For(r, q) /\ For(r, <<m>>) => For(r, Append(q, m))
<1>1. /\ Len(Append(q, m)) = Len(q) + 1 /\ Len(q) \in Nat
      /\ \A i \in 1..Len(q) + 1 :
            \/ i \in 1..Len(q) /\ Append(q, m)[i] = q[i]
            \/ i = Len(q) + 1 /\ Append(q, m)[i] = m
  OBVIOUS
<1>2. Len(<<m>>) = 1 /\ <<m>>[1] = m
  OBVIOUS
<1>3. Sorted(q) /\ Before(q, <<m>>) => Sorted(Append(q, m))
  BY <1>1, <1>2 DEF Sorted, Before
<1>4. \A p : Before(p, q) /\ Before(p, <<m>>) => Before(p, Append(q, m))
  BY <1>1, <1>2 DEF Before
<1>5. \A p : Before(q, p) /\ Before(<<m>>, p) => Before(Append(q, m), p)
  BY <1>1, <1>2 DEF Before
<1>6. \A r : For(r, q) /\ For(r, <<m>>) => For(r, Append(q, m))
  BY <1>1, <1>2 DEF For
<1> QED
  BY <1>3, <1>4, <1>5, <1>6

(* What the session is made of, together inductive for a patient user. *)
Inv == TypeOK /\ SessionInv /\ CommandInv

(* A closed panel, no process and no message satisfy the invariant. *)
LEMMA InitInv == Init => Inv
<1> SUFFICES ASSUME Init PROVE Inv
  OBVIOUS
<1> USE BoundsAssumption DEF Init
<1>1. TypeOK
  <2>1. running \in BOOLEAN /\ open \in BOOLEAN /\ binary \in BOOLEAN
    OBVIOUS
  <2>2. \A r \in Runs : r > 0
    BY DEF Runs
  <2>3. QED
    BY <2>1, <2>2 DEF TypeOK
<1>2. Live = {} /\ NoRequest
  BY DEF Live, NoRequest
<1>3. SessionInv
  BY <1>2 DEF SessionInv, OneStage, Down, NoStrayTwin
<1>4. CommandInv
  BY DEF CommandInv, For, Sorted, Before
<1> QED
  BY <1>1, <1>3, <1>4 DEF Inv

(* A step that leaves every queue and the webview alone. *)
LEMMA QuietStep ==
    ASSUME CommandInv, UNCHANGED <<shown, toHost, stdin, driven, clicks>>
    PROVE  CommandInv'
BY DEF CommandInv, For

(* A step that leaves no message to the panel. *)
LEMMA EmptyQueueStep ==
    ASSUME CommandInv, toHost' = <<>>, UNCHANGED <<stdin, driven, clicks>>
    PROVE  CommandInv'
<1>1. Len(toHost') = 0
  OBVIOUS
<1>2. For(shown, toHost)'
  BY <1>1 DEF For
<1>3. Sorted(toHost)'
  BY <1>1 DEF Sorted
<1>4. \A p : Before(p, toHost')
  BY <1>1 DEF Before
<1>5. ASSUME NEW r \in Runs
      PROVE  /\ For(r, stdin[r])' /\ For(r, driven[r])'
             /\ Sorted(stdin[r])' /\ Sorted(driven[r])'
             /\ Before(driven[r], stdin[r])'
             /\ Before(driven[r], toHost)' /\ Before(stdin[r], toHost)'
  BY <1>4 DEF CommandInv, For
<1> QED
  BY <1>2, <1>3, <1>5 DEF CommandInv

(* A Start or a Stop is no command. *)
LEMMA OtherClickCommands ==
    ASSUME TypeOK, CommandInv, NEW m \in Messages, toHost' = Append(toHost, m),
           UNCHANGED <<shown, stdin, driven, clicks>>
    PROVE  CommandInv'
<1>1. ~IsCommand(m) /\ m \in Lines /\ toHost \in Seq(Lines)
  BY DEF Messages, IsCommand, TypeOK, Lines
<1>2. Len(<<m>>) = 1 /\ <<m>>[1] = m
  OBVIOUS
<1>3. For(shown, <<m>>) /\ \A p : Before(p, <<m>>)
  BY <1>1, <1>2 DEF For, Before
<1>4. For(shown, toHost') /\ Sorted(toHost') /\ \A p : Before(p, toHost) => Before(p, toHost')
  BY <1>1, <1>3, AddFacts DEF CommandInv
<1> QED
  BY <1>4 DEF CommandInv, For

(* Taking a message off the panel's queue. *)
LEMMA ReceiveCommands ==
    ASSUME TypeOK, CommandInv, NEW type, Receive(type),
           UNCHANGED <<shown, stdin, driven, clicks>>
    PROVE  CommandInv'
<1>1. toHost \in Seq(Lines) /\ toHost # <<>> /\ toHost' = Tail(toHost)
  BY DEF TypeOK, Lines, Receive
<1>2. For(shown, toHost') /\ Sorted(toHost') /\ \A p : Before(p, toHost) => Before(p, toHost')
  BY <1>1, TakeFacts DEF CommandInv
<1> QED
  BY <1>2 DEF CommandInv, For

(* A command the panel handles goes to the process it was clicked for. *)
LEMMA TargetOfCommand ==
    ASSUME TypeOK, SessionInv, Receive("twinCommand"), Target \in Runs
    PROVE  Target = shown
<1>1. toHost # <<>> /\ toHost[1].type = "twinCommand"
  BY DEF Receive, TypeOK
<1>2. twin # NoTwin
  BY DEF Target, Runs
<1>3. PICK r \in Runs : Up(r)
  BY <1>1, <1>2 DEF SessionInv, OneStage, Waiting, Down
<1>4. shown = r /\ twin = r
  BY <1>1, <1>2, <1>3 DEF Up
<1> QED
  BY <1>2, <1>4 DEF Target

(* A new click is later than every command there is. *)
LEMMA NewIsLater ==
    ASSUME NEW q \in Seq(Lines), NEW r, For(r, q), clicks \in Nat, clicks' = clicks + 1,
           NEW m, m.number = clicks'
    PROVE  For(r, q)' /\ Before(q, <<m>>)
<1>1. \A i \in 1..Len(q) : IsCommand(q[i]) => q[i].number \in Nat
  BY DEF Lines, Messages, Commands, IsCommand
<1>2. Len(<<m>>) = 1 /\ <<m>>[1] = m
  OBVIOUS
<1>3. ASSUME NEW i \in 1..Len(q), IsCommand(q[i])
      PROVE  q[i].run = r /\ q[i].number <= clicks' /\ q[i].number < m.number
  BY <1>1, <1>3 DEF For
<1>4. QED
  BY <1>2, <1>3 DEF For, Before

(* What was no later than the clicks so far is not later than one more. *)
LEMMA LaterStill ==
    ASSUME NEW q \in Seq(Lines), NEW r, For(r, q), clicks \in Nat, clicks' = clicks + 1
    PROVE  \A i \in 1..Len(q) : IsCommand(q[i]) => q[i].run = r /\ q[i].number <= clicks'
<1>1. \A i \in 1..Len(q) : IsCommand(q[i]) => q[i].number \in Nat
  BY DEF Lines, Messages, Commands, IsCommand
<1>2. \A i \in 1..Len(q) : IsCommand(q[i]) => q[i].run = r /\ q[i].number <= clicks
  BY DEF For
<1>3. QED
  BY <1>1, <1>2

(* A click adds the latest command of all, for the run on the screen. *)
LEMMA ClickModeCommands ==
    ASSUME TypeOK, CommandInv, ClickMode
    PROVE  CommandInv'
<1> DEFINE m == [type |-> "twinCommand", run |-> shown, number |-> clicks']
<1>1. /\ toHost' = Append(toHost, m) /\ clicks' = clicks + 1 /\ clicks \in Nat
      /\ UNCHANGED <<shown, stdin, driven>>
  BY BoundsAssumption DEF TypeOK, ClickMode, SendToHost, view, processes
<1>2. m \in Lines /\ m.number = clicks' /\ m.run = shown
  <2>1. clicks' \in Nat /\ shown \in Runs \union {NoTwin}
    BY <1>1 DEF TypeOK
  <2>2. m \in Commands
    BY <2>1, MessageTypes
  <2>3. QED
    BY <2>2 DEF Lines
<1>3. toHost \in Seq(Lines) /\ \A r \in Runs : stdin[r] \in Seq(Lines) /\ driven[r] \in Seq(Lines)
  BY DEF TypeOK, Lines
<1> HIDE DEF m
<1>4. For(shown, toHost)' /\ Sorted(toHost')
  <2>1. For(shown, toHost) /\ Sorted(toHost)
    BY DEF CommandInv
  <2>2. \A i \in 1..Len(toHost) : IsCommand(toHost[i]) =>
            toHost[i].run = shown /\ toHost[i].number <= clicks'
    BY <1>1, <1>2, <1>3, <2>1, NewIsLater DEF For
  <2>3. Before(toHost, <<m>>)
    BY <1>1, <1>2, <1>3, <2>1, NewIsLater
  <2>4. Sorted(toHost')
    BY <1>1, <1>2, <1>3, <2>1, <2>3, AddFacts
  <2>5. \A i \in 1..Len(toHost') : (i \in 1..Len(toHost) /\ toHost'[i] = toHost[i]) \/ toHost'[i] = m
    BY <1>1, <1>3
  <2>6. m.number <= clicks'
    BY <1>1, <1>2
  <2>7. For(shown, toHost)'
    BY <1>1, <1>2, <2>2, <2>5, <2>6 DEF For
  <2>8. QED
    BY <2>4, <2>7
<1>5. ASSUME NEW r \in Runs
      PROVE  /\ For(r, stdin[r])' /\ For(r, driven[r])'
             /\ Before(driven[r]', toHost') /\ Before(stdin[r]', toHost')
  <2>1. For(r, stdin[r]) /\ For(r, driven[r]) /\ Before(driven[r], toHost) /\ Before(stdin[r], toHost)
    BY DEF CommandInv
  <2>2. Before(stdin[r], <<m>>) /\ Before(driven[r], <<m>>)
    BY <1>1, <1>2, <1>3, <2>1, NewIsLater
  <2>3. Before(stdin[r], toHost') /\ Before(driven[r], toHost')
    BY <1>1, <1>2, <1>3, <2>1, <2>2, AddFacts
  <2>4. For(r, stdin[r])' /\ For(r, driven[r])'
    <3>1. For(r, stdin[r])'
      <4> DEFINE q == stdin[r]
      <4>0. For(r, q)' <=> \A i \in 1..Len(q) : IsCommand(q[i]) => q[i].run = r /\ q[i].number <= clicks'
        BY <1>1 DEF For
      <4>a. q \in Seq(Lines) /\ For(r, q)
        BY <1>3, <2>1
      <4> HIDE DEF q
      <4>1. \A i \in 1..Len(q) : IsCommand(q[i]) => q[i].run = r /\ q[i].number <= clicks'
        BY <1>1, <1>2, <4>a, LaterStill
      <4>2. QED
        BY <4>0, <4>1 DEF q
    <3>2. For(r, driven[r])'
      <4> DEFINE q == driven[r]
      <4>0. For(r, q)' <=> \A i \in 1..Len(q) : IsCommand(q[i]) => q[i].run = r /\ q[i].number <= clicks'
        BY <1>1 DEF For
      <4>a. q \in Seq(Lines) /\ For(r, q)
        BY <1>3, <2>1
      <4> HIDE DEF q
      <4>1. \A i \in 1..Len(q) : IsCommand(q[i]) => q[i].run = r /\ q[i].number <= clicks'
        BY <1>1, <1>2, <4>a, LaterStill
      <4>2. QED
        BY <4>0, <4>1 DEF q
    <3>3. QED
      BY <3>1, <3>2
  <2>5. QED
    BY <1>1, <2>3, <2>4
<1>6. QED
  BY <1>1, <1>4, <1>5 DEF CommandInv

(* A command moves from the panel's queue to the end of its process's. *)
LEMMA HostCommandCommands ==
    ASSUME TypeOK, SessionInv, CommandInv, HostCommand
    PROVE  CommandInv'
<1> DEFINE m == Head(toHost)
<1>1. /\ toHost # <<>> /\ toHost' = Tail(toHost) /\ IsCommand(m)
      /\ stdin' = [r \in Runs |-> IF r = Target THEN Append(stdin[r], m) ELSE stdin[r]]
      /\ UNCHANGED <<shown, driven, clicks>>
  BY DEF HostCommand, Receive, IsCommand, view
<1>2. toHost \in Seq(Lines) /\ \A r \in Runs : stdin[r] \in Seq(Lines) /\ driven[r] \in Seq(Lines)
  BY DEF TypeOK, Lines
<1>3. m \in Lines /\ m = toHost[1] /\ 1 \in 1..Len(toHost)
  BY <1>1, <1>2
<1>4. For(shown, toHost) /\ Sorted(toHost)
  BY DEF CommandInv
<1>5. /\ For(shown, Tail(toHost)) /\ Sorted(Tail(toHost))
      /\ \A p : Before(p, toHost) => Before(p, Tail(toHost))
  BY <1>1, <1>2, <1>4, TakeFacts
<1>6. Len(<<m>>) = 1 /\ <<m>>[1] = m
  OBVIOUS
<1>7. For(shown, <<m>>) /\ Before(<<m>>, Tail(toHost))
  <2>1. For(shown, <<m>>)
    BY <1>1, <1>3, <1>4, <1>6 DEF For
  <2>2. \A i \in 1..Len(Tail(toHost)) :
          IsCommand(Tail(toHost)[i]) => m.number < Tail(toHost)[i].number
    BY <1>1, <1>2, <1>4, TakeFacts
  <2>3. QED
    BY <1>6, <2>1, <2>2 DEF Before
<1> HIDE DEF m
<1>8. ASSUME NEW r \in Runs
      PROVE  /\ For(r, stdin'[r]) /\ Sorted(stdin'[r])
             /\ Before(driven[r], stdin'[r]) /\ Before(stdin'[r], Tail(toHost))
  <2>1. /\ For(r, stdin[r]) /\ Sorted(stdin[r]) /\ Before(driven[r], stdin[r])
        /\ Before(driven[r], toHost) /\ Before(stdin[r], toHost)
    BY DEF CommandInv
  <2>2. CASE r # Target
    BY <1>1, <1>5, <2>1, <2>2
  <2>3. CASE r = Target
    <3>1. stdin'[r] = Append(stdin[r], m) /\ shown = r
      BY <1>1, <2>3, TargetOfCommand DEF HostCommand
    <3>2. Before(stdin[r], <<m>>) /\ Before(driven[r], <<m>>)
      BY <1>3, <1>6, <2>1 DEF Before
    <3>3. QED
      BY <1>2, <1>3, <1>5, <1>7, <2>1, <3>1, <3>2, AddFacts
  <2>4. QED
    BY <2>2, <2>3
<1>9. QED
  BY <1>1, <1>5, <1>8 DEF CommandInv, For

(* A command moves from the standard input to those that were applied. *)
LEMMA AppliesCommands ==
    ASSUME TypeOK, CommandInv, NEW t \in Runs, Applies(t)
    PROVE  CommandInv'
<1> DEFINE m == Head(stdin[t])
<1>1. /\ stdin[t] # <<>>
      /\ stdin' = [stdin EXCEPT ![t] = Tail(stdin[t])]
      /\ driven' = [driven EXCEPT ![t] = Append(driven[t], m)]
      /\ UNCHANGED <<shown, toHost, clicks>>
  BY DEF Applies, view
<1>2. \A r \in Runs : stdin[r] \in Seq(Lines) /\ driven[r] \in Seq(Lines)
  BY DEF TypeOK, Lines
<1>3. /\ m \in Lines /\ m = stdin[t][1] /\ 1 \in 1..Len(stdin[t]) /\ IsCommand(m)
  <2>1. stdin[t] \in Seq(Commands)
    BY DEF TypeOK
  <2>2. m \in Commands /\ m = stdin[t][1] /\ 1 \in 1..Len(stdin[t])
    BY <1>1, <2>1
  <2>3. QED
    BY <2>2, CommandsAre DEF Lines
<1>4. Len(<<m>>) = 1 /\ <<m>>[1] = m
  OBVIOUS
<1>5. /\ For(t, stdin[t]) /\ For(t, driven[t]) /\ Sorted(stdin[t]) /\ Sorted(driven[t])
      /\ Before(driven[t], stdin[t]) /\ Before(driven[t], toHost) /\ Before(stdin[t], toHost)
  BY DEF CommandInv
<1>6. /\ For(t, Tail(stdin[t])) /\ Sorted(Tail(stdin[t]))
      /\ Before(driven[t], Tail(stdin[t])) /\ Before(Tail(stdin[t]), toHost)
      /\ \A i \in 1..Len(Tail(stdin[t])) :
            IsCommand(Tail(stdin[t])[i]) => m.number < Tail(stdin[t])[i].number
  BY <1>1, <1>2, <1>3, <1>5, TakeFacts
<1> HIDE DEF m
<1>7. /\ For(t, <<m>>) /\ Before(driven[t], <<m>>)
      /\ Before(<<m>>, toHost) /\ Before(<<m>>, Tail(stdin[t]))
  <2>1. For(t, <<m>>)
    BY <1>3, <1>4, <1>5 DEF For
  <2>2. Before(driven[t], <<m>>) /\ Before(<<m>>, toHost)
    BY <1>3, <1>4, <1>5 DEF Before
  <2>3. Before(<<m>>, Tail(stdin[t]))
    BY <1>4, <1>6 DEF Before
  <2>4. QED
    BY <2>1, <2>2, <2>3
<1>8. LET d == Append(driven[t], m) IN
        For(t, d) /\ Sorted(d) /\ Before(d, Tail(stdin[t])) /\ Before(d, toHost)
  BY <1>2, <1>3, <1>5, <1>6, <1>7, AddFacts
<1>9. ASSUME NEW r \in Runs
      PROVE  /\ For(r, stdin'[r]) /\ For(r, driven'[r])
             /\ Sorted(stdin'[r]) /\ Sorted(driven'[r])
             /\ Before(driven'[r], stdin'[r])
             /\ Before(driven'[r], toHost) /\ Before(stdin'[r], toHost)
  <2>1. CASE r = t
    <3>1. stdin'[r] = Tail(stdin[t]) /\ driven'[r] = Append(driven[t], m)
      BY <1>1, <2>1 DEF TypeOK
    <3>2. QED
      BY <1>6, <1>8, <2>1, <3>1
  <2>2. CASE r # t
    <3>1. stdin'[r] = stdin[r] /\ driven'[r] = driven[r]
      BY <1>1, <2>2 DEF TypeOK
    <3>2. QED
      BY <3>1 DEF CommandInv
  <2>3. QED
    BY <2>1, <2>2
<1> QED
  BY <1>1, <1>9 DEF CommandInv, For

(* Commands stay with their run, and in order. *)
LEMMA CommandStep == TypeOK /\ SessionInv /\ CommandInv /\ [Next]_vars => CommandInv'
<1> SUFFICES ASSUME TypeOK, SessionInv, CommandInv, [Next]_vars PROVE CommandInv'
  OBVIOUS
<1> USE DEF view, processes, making
<1>1. CASE Open \/ MakeLinks \/ BuildSucceeds \/ BuildFails \/ StaleBuildEnds \/ UNCHANGED vars
  BY <1>1, QuietStep DEF Open, MakeLinks, BuildSucceeds, BuildFails, StaleBuildEnds, Spawn, vars
<1>2. CASE Close
  BY <1>2, EmptyQueueStep DEF Close
<1>3. CASE ClickStart \/ ClickStop
  BY <1>3, MessageTypes, OtherClickCommands DEF ClickStart, ClickStop, SendToHost, Request
<1>5. CASE ClickMode
  BY <1>5, ClickModeCommands
<1>6. CASE ViewReceives
  <2>1. CASE shown' = shown
    BY <1>6, <2>1, QuietStep DEF ViewReceives
  <2>2. CASE shown' # shown
    <3>1. toView # <<>> /\ Head(toView).type = "twinStarted"
      BY <1>6, <2>2 DEF ViewReceives
    <3>2. toHost' = <<>>
      BY <1>6, <3>1, AnswersAreRuns DEF ViewReceives
    <3>3. QED
      BY <1>6, <3>2, EmptyQueueStep DEF ViewReceives
  <2>3. QED
    BY <2>1, <2>2
<1>7. CASE StartRefused \/ StartNow \/ StartBuild \/ HostStop
  BY <1>7, ReceiveCommands DEF StartRefused, StartNow, StartBuild, HostStop, Spawn
<1>11. CASE HostCommand
  BY <1>11, HostCommandCommands
<1>16. ASSUME NEW r \in Runs, Exits(r) \/ SpawnFails(r) PROVE CommandInv'
  BY <1>16, QuietStep DEF Exits, SpawnFails
<1>18. ASSUME NEW r \in Runs, Applies(r) PROVE CommandInv'
  BY <1>18, AppliesCommands
<1> QED
  BY <1>1, <1>2, <1>3, <1>5, <1>6, <1>7, <1>11, <1>16, <1>18 DEF Next, Handle, BuildEnds

(***************************************************************************)
(* The theorems.                                                           *)
(***************************************************************************)

(* The invariant holds for a patient user. *)
LEMMA Inductive ==
    ASSUME Patient
    PROVE  Spec => []Inv
<1>1. Inv /\ [Next]_vars => Inv'
  BY TypeStep, SessionStep, CommandStep DEF Inv
<1>2. QED
  BY <1>1, InitInv, PTL DEF Spec

(* For a user who waits for the answer to a Start, every variable has its  *)
(* type and the bounds hold, for any number of processes and commands.     *)
THEOREM TypeCorrect ==
    ASSUME Patient
    PROVE  Spec => []TypeOK
BY Inductive, PTL DEF Inv

(* The handle of StudioPanel reaches every process that was not told to    *)
(* stop, whatever builds, crashes and late exit events come between.       *)
THEOREM NoTwinStrays ==
    ASSUME Patient
    PROVE  Spec => []NoStrayTwin
BY Inductive, PTL DEF Inv, SessionInv

(* Commands are applied by the process whose telemetry was shown, in the   *)
(* order of the clicks.                                                    *)
THEOREM CommandsArrive ==
    ASSUME Patient
    PROVE  Spec => []CommandsReachTheirTwin
<1>1. Inv => CommandsReachTheirTwin
  <2> SUFFICES ASSUME Inv, NEW r \in Runs,
                      NEW i \in 1..Len(driven[r]), NEW j \in 1..Len(driven[r])
               PROVE  /\ driven[r][i].run = r
                      /\ i < j => driven[r][i].number < driven[r][j].number
    BY DEF CommandsReachTheirTwin
  <2>1. driven[r] \in Seq(Commands) /\ For(r, driven[r]) /\ Sorted(driven[r])
    BY DEF Inv, TypeOK, CommandInv
  <2>2. IsCommand(driven[r][i]) /\ IsCommand(driven[r][j])
    BY <2>1, CommandsAre
  <2>3. QED
    BY <2>1, <2>2 DEF For, Sorted
<1>2. QED
  BY <1>1, Inductive, PTL

(* With the handle kept, closing the panel stops every process.            *)
THEOREM ClosingReachesEveryTwin ==
    ASSUME Patient
    PROVE  Spec => [][Close => \A r \in Runs : proc'[r] # "alive"]_vars
<1>1. Inv /\ [Next]_vars => [Close => \A r \in Runs : proc'[r] # "alive"]_vars
  BY StopType DEF Inv, SessionInv, NoStrayTwin, Close, StopTwin
<1>2. QED
  BY <1>1, Inductive, PTL DEF Spec
================================================================================
